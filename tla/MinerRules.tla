------------------------------- MODULE MinerRules -------------------------------
(***************************************************************************)
(* What is settled before a miner runs, and what is read of it after:      *)
(* the command lines of the node-free miner and of the prompt-mining stack *)
(* (crates/misaka-studio-runtime/src/remote_miner.rs, fp_stack.rs), their  *)
(* preflights, a node's answers (node.rs) and the miners' output.          *)
(*                                                                         *)
(* A setting that is optional is None, Unfilled or a value; a path is a       *)
(* sequence of names; a program is its name.  When the processes start and *)
(* stop is Supervisors'.                                                   *)
(***************************************************************************)
EXTENDS Naturals, Sequences, SequencesExt, FiniteSets, FiniteSetsExt, ModelRules

CONSTANTS
  MAX_DAA_SKEW, COINBASE_MATURITY_DAA, MaxAmount,       \* amounts saturate at MaxAmount
  LOG_CAPACITY, EVENT_CAPACITY, CARRIER_CAPACITY

None  == "none"
Unfilled == "blank"
Given(v) == v \notin {None, Unfilled}
Or(v, other) == IF Given(v) THEN v ELSE other
OrUnset(v, other) == IF v = None THEN other ELSE v
-----------------------------------------------------------------------------
(* The published nodes: each has a Borsh and a JSON endpoint.               *)

public_wrpc(network) == IF network = "testnet-12" THEN <<"misakascan", "llm.misakascan">> ELSE <<>>
public_evidence_provider(network) == IF network = "testnet-12" THEN "provider" ELSE None

\* Nodes the user names have no JSON endpoint the Studio could read.
endpoints(s) ==
  IF s.rpc # <<>> THEN [borsh |-> s.rpc, json |-> <<>>]
  ELSE [borsh |-> public_wrpc(s.network), json |-> public_wrpc(s.network)]

borsh_endpoint(s) ==
  IF Given(s.misaka_rpc) THEN s.misaka_rpc
  ELSE IF public_wrpc(s.network) = <<>> THEN None ELSE Head(public_wrpc(s.network))

\* Where the user says; beside the Studio; on the path; or the bare name.
resolve_binary(configured, stem, beside, onPath) ==
  CASE configured # None -> <<configured>>
    [] configured = None /\ stem \in beside -> <<"beside", stem>>
    [] configured = None /\ stem \notin beside /\ stem \in onPath -> <<"path", stem>>
    [] OTHER -> <<stem>>
-----------------------------------------------------------------------------
(* remote_miner.rs *)

GENESIS_CLASSES == TESTNET12_CLASSES
Base(class) == class.name = "PALW-BASE-0"

\* 0 when no genesis class has that name.
class_of(s) ==
  IF Given(s.class) THEN SelectInSeq(GENESIS_CLASSES, LAMBDA c : c.name = s.class) ELSE SelectInSeq(GENESIS_CLASSES, Base)

UNVERIFIED_LABELS == {"HEADER_VERIFIED_FORK_CHOICE_UNVERIFIED", "UNVERIFIED_REMOTE"}

state_dir(s) == IF s.state_dir = None THEN <<"data", "remote-miner", s.network>> ELSE <<s.state_dir>>

\* A checkpoint is a score and a hash; 128 digits in either case.
NoCheckpoint == [daa |-> 0, hash |-> None]
checkpoint_of(c) ==
  CASE c.hash = "HASH"            -> [c EXCEPT !.hash = "hash"]
    [] c.hash \in {"hash", "fork"} -> c
    [] OTHER                       -> NoCheckpoint

\* What a command line still lacks, in the order it is asked for.
MinerNeeds(s) ==
  << <<"rpc", Len(endpoints(s).borsh) >= 2>>,
     <<"bond", Given(s.bond)>>,
     <<"pay_address", Given(s.pay_address)>>,
     <<"key", OrUnset(s.key_path, s.producer_key_path) # None>>,
     <<"checkpoint", s.checkpoint # NoCheckpoint>>,
     <<"checkpoint form", checkpoint_of(s.checkpoint) # NoCheckpoint>>,
     <<"label", s.accept_unverified \in UNVERIFIED_LABELS \cup {None}>>,
     <<"class", class_of(s) # 0>>,
     <<"artifact", class_of(s) # 0 => Base(GENESIS_CLASSES[class_of(s)]) \/ s.artifact # None>> >>

FirstLack(needs) ==
  LET at == SelectInSeq(needs, LAMBDA n : ~n[2]) IN IF at = 0 THEN None ELSE needs[at][1]

\* The base class is derived from a seed: the executor is told no class.
build_command(s) ==
  LET class == GENESIS_CLASSES[class_of(s)] IN
  IF FirstLack(MinerNeeds(s)) # None THEN [ok |-> FALSE, lacks |-> FirstLack(MinerNeeds(s))]
  ELSE [ok |-> TRUE, network |-> s.network, rpc |-> endpoints(s).borsh, bond |-> s.bond, class |-> class.name,
        pay_address |-> s.pay_address, key |-> OrUnset(s.key_path, s.producer_key_path),
        checkpoint |-> checkpoint_of(s.checkpoint),
        executor |-> [network |-> s.network, class |-> IF Base(class) THEN None ELSE class.name,
                      artifact |-> IF Base(class) THEN None ELSE s.artifact,
                      material |-> Append(state_dir(s), "capture.bin")],
        state_dir |-> state_dir(s), verify |-> s.verify_headers, accept |-> s.accept_unverified]

\* A node's answer: reachable, and what it says of its network and its score, if anything.
Unreachable == [reachable |-> FALSE, network |-> None, daa |-> -1, sink |-> None]

Spread(scores) == IF scores = {} THEN 0 ELSE Max(scores) - Min(scores)

\* disk: the programs beside the Studio, those on the path, and the configured files that are there.
Found(configured, stem, disk) ==
  LET program == resolve_binary(configured, stem, disk.beside, disk.path)
  IN Len(program) = 2 \/ program[1] \in disk.files

\* reads: what the JSON endpoints answered.
preflight(s, reads, disk) ==
  LET answered   == SelectSeq(reads, LAMBDA r : r.reachable)
      on_network == \A i \in DOMAIN answered : answered[i].network = s.network
      skew       == Spread({answered[i].daa : i \in {j \in DOMAIN answered : answered[j].daa >= 0}})
      found      == Found(s.remote_miner_path, "palw-remote-miner", disk) /\ Found(s.attempt_exec_path, "palw-attempt-exec", disk)
  IN [quorum   |-> Len(answered) >= 2 /\ on_network /\ skew <= MAX_DAA_SKEW,
      lacks    |-> FirstLack(MinerNeeds(s)),
      problems |-> (IF endpoints(s).json = <<>> THEN {"no twin"} ELSE IF Len(answered) < 2 THEN {"too few"} ELSE {})
                     \cup (IF on_network THEN {} ELSE {"other network"})
                     \cup (IF skew > MAX_DAA_SKEW THEN {"apart"} ELSE {})
                     \cup (IF found THEN {} ELSE {"binary"})
                     \cup (IF s.accept_unverified = None THEN {"no consent"} ELSE {})]

\* holds[i]: [hash -> score] of the blocks node i holds.  The first node's own, if another holds it at its score.
NoSuggestion == [ok |-> FALSE, checkpoint |-> NoCheckpoint, confirmed_by |-> {}]
suggest_checkpoint(reads, holds) ==
  IF Len(reads) < 2 THEN NoSuggestion
  ELSE LET sink  == reads[1].sink
           agree == {i \in 2 .. Len(reads) : sink \in DOMAIN holds[1] /\ sink \in DOMAIN holds[i] /\ holds[i][sink] = holds[1][sink]}
       IN IF sink = None \/ agree = {} THEN NoSuggestion
          ELSE [ok |-> TRUE, checkpoint |-> [daa |-> holds[1][sink], hash |-> sink], confirmed_by |-> agree]
-----------------------------------------------------------------------------
(* The miner's output, line by line: the last of it, and what it said.      *)

\* Mutant: one line too many is kept.
RingAndOne(q, x, capacity) == Append(IF Len(q) > capacity THEN Tail(q) ELSE q, x)

Ring(q, x, capacity) == Append(IF Len(q) = capacity THEN Tail(q) ELSE q, x)

NoFacts == [mode |-> None, draws_lost |-> 0, published |-> 0, halts |-> 0, last_halt |-> None, last_fatal |-> None,
            blocks |-> <<>>, events |-> <<>>]

\* A line is no event, a last word, or an event with or without its detail.
observe(facts, line) ==
  LET kept == IF line.event \in {"mode", "draw-lost"} THEN facts
              ELSE [facts EXCEPT !.events = Ring(@, line, EVENT_CAPACITY)]
  IN CASE line.event = "fatal"     -> [facts EXCEPT !.last_fatal = line.detail]
       [] line.event = None        -> facts
       [] line.event = "mode"      -> [kept EXCEPT !.mode = IF line.detail = None THEN @ ELSE line.detail]
       [] line.event = "draw-lost" -> [kept EXCEPT !.draws_lost = @ + 1]
       [] line.event = "published" -> [kept EXCEPT !.published = @ + 1, !.blocks = IF line.detail = None THEN @ ELSE Append(@, line.detail)]
       [] line.event = "halt"      -> [kept EXCEPT !.halts = @ + 1, !.last_halt = line.detail]
       [] OTHER                    -> kept

drain_miner(lines) ==
  FoldLeft(LAMBDA st, line : [log |-> Ring(st.log, line, LOG_CAPACITY), facts |-> observe(st.facts, line)],
           [log |-> <<>>, facts |-> NoFacts], lines)

recent_log(log, limit) == SubSeq(log, Len(log) - Least(limit, Len(log)) + 1, Len(log))

\* The rail's lines are read for the carriers it built.
drain_rail(lines) ==
  FoldLeft(LAMBDA st, line : [log      |-> Ring(st.log, line, LOG_CAPACITY),
                              carriers |-> IF line.event = "carrier" THEN Ring(st.carriers, line, CARRIER_CAPACITY) ELSE st.carriers],
           [log |-> <<>>, carriers |-> <<>>], lines)
-----------------------------------------------------------------------------
(* fp_stack.rs *)

\* default_artifact: where the default class's file is, or None.  The tokenizer is looked for beside the artifact.
paths(s, default_artifact) ==
  LET artifact == OrUnset(s.fp_artifact, default_artifact) IN
  [artifact  |-> artifact,
   tokenizer |-> IF s.fp_tokenizer # None THEN s.fp_tokenizer ELSE IF artifact = None THEN None ELSE <<artifact, "tokenizer">>,
   key       |-> s.producer_key_path,
   outbox    |-> <<"data", "fp-outbox", s.network>>,
   identity  |-> <<"data", "fp-identity", s.network>>,
   rpc       |-> borsh_endpoint(s),
   provider  |-> Or(s.evidence_provider, public_evidence_provider(s.network))]

default_class == default_class_for("testnet-12")

IdentityNeeds(p) == << <<"key", p.key # None>>, <<"rpc", p.rpc # None>> >>
GatewayNeeds(p)  == << <<"artifact", p.artifact # None>>, <<"tokenizer", p.tokenizer # None>>, <<"rpc", p.rpc # None>>,
                       <<"provider", p.provider # None>> >>

\* A bond that is not given is found by the key.
identity_command(s, p) == [key |-> p.key, rpc |-> p.rpc, class |-> default_class.name, bond |-> Or(s.fp_bond, None)]
gateway_command(s, p) ==
  [listen |-> s.listen, outbox |-> p.outbox, identity |-> p.identity, rpc |-> p.rpc, provider |-> p.provider,
   network |-> s.network, artifact |-> p.artifact, tokenizer |-> p.tokenizer]
rail_command(s, p) == [watch |-> p.outbox, key |-> p.key, rpc |-> p.rpc, bond |-> Or(s.fp_bond, None), accept |-> s.fp_accept]

\* What start would run and, in its order, what it refuses for.
planned(s, default_artifact) ==
  LET p == paths(s, default_artifact)
  IN [lacks |-> FirstLack(GatewayNeeds(p) \o IdentityNeeds(p)), gateway |-> gateway_command(s, p), rail |-> rail_command(s, p)]
stack_start(s, default_artifact) ==
  LET p == paths(s, default_artifact)
  IN [lacks |-> FirstLack(IdentityNeeds(p) \o GatewayNeeds(p) \o IdentityNeeds(p) \o << <<"consent", s.fp_accept>> >>),
      identity |-> identity_command(s, p), written |-> p.identity, gateway |-> gateway_command(s, p), rail |-> rail_command(s, p)]

\* present: the files that are there; answers: the servers that do.
stack_preflight(s, default_artifact, present, answers) ==
  LET p == paths(s, default_artifact)
      Problem(cond, what) == IF cond THEN {} ELSE {what}
  IN Problem({"gateway", "rail", "worker"} \subseteq present, "binary")
       \cup Problem(p.artifact # None /\ "artifact" \in present, "artifact")
       \cup Problem(p.tokenizer # None /\ "tokenizer" \in present, "tokenizer")
       \cup Problem(p.key # None /\ "key" \in present, "key")
       \cup Problem(s.fp_accept, "consent")
       \cup Problem(public_wrpc(s.network) # <<>> /\ "node" \in answers, "node")
       \cup Problem(p.provider # None /\ "provider" \in answers, "provider")
-----------------------------------------------------------------------------
(* node.rs *)

\* One request on one connection: everything but its own answer is passed over.
NoAnswer == [got |-> "nothing", is |-> 0]
wrpc_call(frames, id) ==
  LET at == SelectInSeq(frames, LAMBDA f : f.kind = "json" /\ f.id = id)
      f  == frames[at]
  IN IF at = 0 THEN NoAnswer ELSE IF f.error THEN [got |-> "error", is |-> 0] ELSE [got |-> "answer", is |-> f.params]

Added(a, b) == Least(a + b, MaxAmount)                \* saturating_add

\* A node that does not say how far it is has matured no coinbase.
spendable_sompi(utxos, virtual_daa) ==
  FoldLeft(LAMBDA total, u : IF ~u.coinbase \/ Added(u.daa, COINBASE_MATURITY_DAA) <= virtual_daa THEN Added(total, u.amount) ELSE total,
           0, utxos)

\* The algorithm's number is read into a byte.
heartbeat_stand_down_secs(algo) ==
  CASE algo % 256 \in {6, 7, 9} -> 3600
    [] algo % 256 = 8 -> 120
    [] OTHER -> 0
-----------------------------------------------------------------------------
(* api/prompt_mining.rs: a prompt handed to the gateway by hand. *)

JobFields == {"cu", "fp_job_id", "trace_root", "output_root", "schedule_root", "artifact"}

\* A reply without the gateway's own block is a chat and not a job.
mining_run(prompt, reply) ==
  CASE prompt = Unfilled -> "no job"
    [] prompt # Unfilled /\ reply.status # "ok" -> "refused"
    [] OTHER -> IF JobFields \subseteq reply.misaka THEN "job" ELSE "no job"

classify(name, table, complete) ==
  IF \E i \in DOMAIN table : table[i].name \in complete /\ table[i].name = name THEN "Registered"
  ELSE IF {table[i].name : i \in DOMAIN table} \subseteq complete THEN "NotRegistered" ELSE "Unknown"
=============================================================================
