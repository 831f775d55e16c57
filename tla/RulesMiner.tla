------------------------------- MODULE RulesMiner -------------------------------
(* What mining without a node is told and what is read of it (a probe).    *)
EXTENDS MinerRules, Probe

CONSTANTS MinerSettings, NodeReads, Programs, Held, MinerLines, StackSettings, Frames, Utxos, Tables

ProbeMiner == \E s \in MinerSettings, r \in NodeReads, d \in Programs :
  probe' = [rule |-> "miner", s |-> s, reads |-> IF endpoints(s).json = <<>> THEN <<>> ELSE r, disk |-> d]

ProbeCheckpoint == \E s \in MinerSettings, r \in NodeReads, h \in Held :
  /\ endpoints(s).json # <<>>
  /\ probe' = [rule |-> "checkpoint", s |-> s, reads |-> r, holds |-> h]

ProbeLines == \E l \in MinerLines : probe' = [rule |-> "lines", lines |-> l]

ProbeStack == \E s \in StackSettings, a \in {None, "default"}, up \in SUBSET {"node", "provider"},
                 lost \in SUBSET {"gateway", "artifact", "tokenizer", "key"} :
  probe' = [rule |-> "stack", s |-> s, default |-> a, answers |-> up,
            present |-> {"gateway", "rail", "worker", "artifact", "tokenizer", "key"} \ lost]

ProbeNode == \/ \E f \in Frames : probe' = [rule |-> "frames", frames |-> f]
             \/ \E u \in Utxos, d \in 0 .. 4 : probe' = [rule |-> "utxos", utxos |-> u, daa |-> d]

ProbeJob == \/ \E st \in {"ok", "error"}, m \in SUBSET JobFields : probe' = [rule |-> "job", reply |-> [status |-> st, misaka |-> m]]
            \/ \E c \in SUBSET ToSet(GENESIS_CLASSES), t \in Tables :
                 probe' = [rule |-> "class", table |-> t, complete |-> {class.name : class \in c}]
-----------------------------------------------------------------------------
(* A miner that is started works on one network and one class: the executor
   attempts the class the miner signs for, with its artifact; what it captures
   is left in the miner's own directory, where the equivocation journal is, and
   no other network's miner has that directory unless the user named it; two
   nodes are asked, which is what the network publishes or the user chose.
   (build_command, state_dir, class_of.) *)
MinerWorksOnOneClass ==
  probe.rule = "miner" =>
    LET s == probe.s
        c == build_command(s)
        elsewhere == [s EXCEPT !.network = IF @ = "testnet-12" THEN "testnet-11" ELSE "testnet-12"]
    IN c.ok =>
         /\ c.executor.network = s.network /\ Front(c.executor.material) = c.state_dir
         /\ IF c.executor.class = None THEN c.class = "PALW-BASE-0" ELSE c.executor.class = c.class /\ c.executor.artifact # None
         /\ s.state_dir = None => c.state_dir # state_dir(elsewhere)
         /\ Len(c.rpc) >= 2 /\ (s.rpc = <<>> => build_command(elsewhere).ok = FALSE)
         /\ Given(s.class) => c.class = s.class

(* The preflight of the miner says that a quorum answers exactly when it lists
   no trouble with the nodes, and then any two of them are on the network and
   near each other as far as they say; and a command it says nothing against is
   one start accepts.  (preflight against build_command and start.) *)
MinerPreflightIsTrue ==
  probe.rule = "miner" =>
    LET s == probe.s
        f == preflight(s, probe.reads, probe.disk)
        answered == {i \in DOMAIN probe.reads : probe.reads[i].reachable}
    IN /\ f.quorum <=> f.problems \cap {"no twin", "too few", "other network", "apart"} = {}
       /\ f.quorum => \A i, j \in answered :
            LET a == probe.reads[i]
                b == probe.reads[j]
            IN a.network = s.network /\ (b.daa >= a.daa /\ a.daa >= 0 => b.daa - a.daa <= MAX_DAA_SKEW)
       /\ f.lacks = None <=> build_command(s).ok
       /\ f.problems = {} => s.accept_unverified # None

(* A checkpoint is suggested only when two nodes hold that block at that score,
   and the settings take it as it is: the command then names the same block.
   (suggest_checkpoint, checkpoint_of, build_command.) *)
SuggestionsAreHeld ==
  probe.rule = "checkpoint" =>
    LET got == suggest_checkpoint(probe.reads, probe.holds)
        s   == [probe.s EXCEPT !.checkpoint = got.checkpoint]
        c   == build_command(s)
    IN got.ok =>
         /\ \E i \in got.confirmed_by : i > 1 /\ probe.holds[i][got.checkpoint.hash] = got.checkpoint.daa
         /\ c.ok => c.checkpoint = got.checkpoint
         /\ ~c.ok => c.lacks \notin {"checkpoint", "checkpoint form"}

(* The stack's three programs are one stack: the identity the gateway answers
   for is read with the key and for the bond the rail signs with, over the same
   node, at every start; the rail watches where the gateway leaves its jobs; and
   nothing is started to sign on a public node's word before the user accepts
   that word.  What the view plans is what start runs, and a preflight with no
   problem is a start that is not refused.  (paths, identity_command,
   gateway_command, rail_command, start, view, preflight.) *)
StackIsOne ==
  probe.rule = "stack" =>
    LET s    == probe.s
        st   == stack_start(s, probe.default)
        plan_ == planned(s, probe.default)
        ok   == st.lacks = None
    IN /\ ok => /\ st.identity.key = st.rail.key /\ st.identity.bond = st.rail.bond
                /\ st.identity.rpc = st.rail.rpc /\ st.rail.rpc = st.gateway.rpc
                /\ st.gateway.outbox = st.rail.watch /\ st.gateway.identity = st.written
                /\ st.rail.accept
                /\ None \notin {st.rail.key, st.rail.rpc, st.gateway.artifact, st.gateway.tokenizer, st.gateway.provider}
       /\ ok <=> plan_.lacks = None /\ s.fp_accept
       /\ ok => plan_.gateway = st.gateway /\ plan_.rail = st.rail
       /\ stack_preflight(s, probe.default, probe.present, probe.answers) = {} => ok

(* Told what to run, a miner runs that. *)
MinersAreTold == MinerWorksOnOneClass /\ MinerPreflightIsTrue /\ SuggestionsAreHeld /\ StackIsOne
-----------------------------------------------------------------------------
(* The log and the events shown are the last ones, in order, and no more than
   their bounds; what is counted is every line there was, and the last halt's
   reason is the last halt's, none if it gave none.  The published blocks are
   kept without a bound.  (drain, observe, recent_log.) *)
LastOnes(q, all, capacity) ==
  q = SubSeq(all, Len(all) - Least(capacity, Len(all)) + 1, Len(all))

LogsAreTheLast ==
  probe.rule = "lines" =>
    LET lines  == probe.lines
        st     == drain_miner(lines)
        rail   == drain_rail(lines)
        Of(what) == SelectSeq(lines, LAMBDA l : l.event = what)
        shown  == SelectSeq(lines, LAMBDA l : l.event \notin {"mode", "draw-lost", "fatal", None})
    IN /\ LastOnes(st.log, lines, LOG_CAPACITY) /\ LastOnes(st.facts.events, shown, EVENT_CAPACITY)
       /\ LastOnes(rail.carriers, Of("carrier"), CARRIER_CAPACITY)
       /\ \A n \in 0 .. LOG_CAPACITY + 1 : LastOnes(recent_log(st.log, n), lines, Least(n, LOG_CAPACITY))
       /\ st.facts.published = Len(Of("published")) /\ Len(st.facts.blocks) <= st.facts.published
       /\ st.facts.draws_lost = Len(Of("draw-lost")) /\ st.facts.halts = Len(Of("halt"))
       /\ st.facts.last_halt = IF Of("halt") = <<>> THEN None ELSE Last(Of("halt")).detail
       /\ st.facts.last_fatal = IF Of("fatal") = <<>> THEN None ELSE Last(Of("fatal")).detail

(* A notification, or the answer to another request, is never taken for this
   one's; an error is not an answer.  (wrpc_call.) *)
AnswersAreToTheQuestion ==
  probe.rule = "frames" =>
    LET got == wrpc_call(probe.frames, 1)
        own == SelectSeq(probe.frames, LAMBDA f : f.kind = "json" /\ f.id = 1)
    IN /\ got.got = "nothing" <=> own = <<>>
       /\ got.got = "answer" => \E i \in DOMAIN own : ~own[i].error /\ own[i].params = got.is

(* What can be spent counts no coinbase before its time, every other output in
   full unless the total is too large for the number it is kept in, and never
   less as the chain goes on; a node that does not say how far it is shows no
   coinbase at all.  (spendable_sompi.) *)
SpendableIsMature ==
  probe.rule = "utxos" =>
    LET us      == probe.utxos
        Ripe(u) == ~u.coinbase \/ u.daa + COINBASE_MATURITY_DAA <= probe.daa
        ripe    == FoldLeft(LAMBDA n, u : IF Ripe(u) THEN n + u.amount ELSE n, 0, us)
    IN /\ spendable_sompi(us, probe.daa) = Least(ripe, MaxAmount)
       /\ spendable_sompi(us, probe.daa) <= spendable_sompi(us, probe.daa + 1)
       /\ (\A i \in DOMAIN us : us[i].coinbase) => spendable_sompi(us, 0) = 0

(* An answer becomes a job only with every commitment the chain asks for; and a
   class is said not to be registered only when every registered id is known.
   (api/prompt_mining.rs: run, classify.) *)
JobsAreWhole ==
  /\ probe.rule = "job" =>
       (mining_run("text", probe.reply) = "job" => probe.reply.status = "ok" /\ probe.reply.misaka = JobFields)
  /\ probe.rule = "class" => \A name \in {class.name : class \in ToSet(known_classes)} :
       LET is == classify(name, probe.table, probe.complete)
           registered == \E i \in DOMAIN probe.table : probe.table[i].name = name
       IN /\ is = "Registered" => registered
          /\ is = "NotRegistered" => ~registered

(* What the miners, the nodes and the gateway say is shown as they said it. *)
MinersAreRead == LogsAreTheLast /\ AnswersAreToTheQuestion /\ SpendableIsMature /\ JobsAreWhole
=============================================================================
