------------------------------ MODULE Supervisors ------------------------------
(***************************************************************************)
(* The processes mining runs in (crates/misaka-studio-runtime/src/         *)
(* remote_miner.rs: RemoteMinerManager; fp_stack.rs: FreePromptStack): the *)
(* node-free miner, and the gateway with its rail, each started and        *)
(* stopped by requests that may overlap, be dropped, or meet a process     *)
(* that went by itself or will not go.                                     *)
(*                                                                         *)
(* A slot's lock is held only while a process is being stopped: every      *)
(* other use of it is over at once.  The command lines are RulesMiner's.   *)
(***************************************************************************)
EXTENDS Naturals, FiniteSets

CONSTANTS
  Tasks,                   \* requests at the same time
  MaxSpawns, Limits        \* bounds: [spawns, crashes], of which one is chosen

VARIABLES
  up,          \* the Studio runs
  child,       \* [Pids -> the process]
  slot,        \* [Slots -> the process in it, or None]
  task,        \* [Tasks -> the request]
  overlapped,  \* the supervisors two starts of which were under way at once
  orphans,     \* processes the Studio died under
  left         \* what the bounds leave

vars == <<up, child, slot, task, overlapped, orphans, left>>

Pids  == 1 .. MaxSpawns
None  == 0
Slots == {"miner", "gateway", "rail"}
Idle  == [doing |-> "none", at |-> "idle", on |-> "miner", has |-> None]

Unborn == [kind |-> "miner", life |-> "unborn"]
Alive(p) == child[p].life \in {"running", "asked"}

TypeOK ==
  /\ up \in BOOLEAN
  /\ child \in [Pids -> [kind: Slots, life: {"unborn", "running", "asked", "gone"}]]
  /\ slot \in [Slots -> Pids \cup {None}]
  /\ task \in [Tasks -> [doing: {"none", "start_miner", "start_stack", "stop"}, on: Slots, has: Pids \cup {None},
                         at: {"idle", "spawn", "put", "checkRail", "identity", "take", "wait"}]]
  /\ overlapped \subseteq {"start_miner", "start_stack"} /\ orphans \subseteq Pids

Init ==
  /\ up = TRUE /\ left \in Limits /\ overlapped = {} /\ orphans = {}
  /\ child = [p \in Pids |-> Unborn]
  /\ slot = [s \in Slots |-> None]
  /\ task = [t \in Tasks |-> Idle]
-----------------------------------------------------------------------------
Free(s) == \A t \in Tasks : ~(task[t].at = "wait" /\ task[t].on = s)
Running(s) == slot[s] # None /\ Alive(slot[s])
Set(t, r) == task' = [task EXCEPT ![t] = r]
At(t, doing, at) == up /\ task[t].doing = doing /\ task[t].at = at

Dead(p) == IF p = None THEN child ELSE [child EXCEPT ![p].life = "gone"]

Fresh == {p \in Pids : child[p].life = "unborn" /\ p <= left.spawns}

\* A process of this kind is started; or it cannot be, and the request fails.
Spawn(t, kind, then) ==
  \/ \E p \in Fresh :
       /\ \A q \in Fresh : p <= q
       /\ child' = [child EXCEPT ![p] = [kind |-> kind, life |-> "running"]]
       /\ Set(t, [task[t] EXCEPT !.at = then, !.on = kind, !.has = p])
  \/ Set(t, Idle) /\ UNCHANGED child

\* What was in the slot is dropped, and killed.
Put(t, next) ==
  LET s == task[t].on IN
  /\ Free(s)
  /\ slot' = [slot EXCEPT ![s] = task[t].has]
  /\ child' = Dead(slot[s])
  /\ Set(t, next)
  /\ UNCHANGED <<up, overlapped, orphans, left>>

Begin(t, doing, r) ==
  /\ up /\ task[t].doing = "none"
  /\ Set(t, r)
  /\ overlapped' = IF doing # "stop" /\ \E u \in Tasks : task[u].doing = doing THEN overlapped \cup {doing} ELSE overlapped
-----------------------------------------------------------------------------
(* RemoteMinerManager::start: one look under the lock, which is let go of   *)
(* until there is a process to put.                                         *)

MinerStart(t) ==
  /\ Free("miner") /\ ~Running("miner")
  /\ Begin(t, "start_miner", [Idle EXCEPT !.doing = "start_miner", !.at = "spawn"])
  /\ slot' = [slot EXCEPT !["miner"] = None]
  /\ UNCHANGED <<up, child, orphans, left>>

MinerSpawn(t) ==
  /\ At(t, "start_miner", "spawn")
  /\ Spawn(t, "miner", "put")
  /\ UNCHANGED <<up, slot, overlapped, orphans, left>>

MinerPut(t) == At(t, "start_miner", "put") /\ Put(t, Idle)

(* FreePromptStack::start: both slots, one after the other; the identity,   *)
(* for as long as the rail takes to print it; the gateway; the rail.  A     *)
(* rail that cannot be started leaves the gateway running.                  *)

StackStart(t) ==
  /\ Free("gateway") /\ ~Running("gateway")
  /\ Begin(t, "start_stack", [Idle EXCEPT !.doing = "start_stack", !.at = "checkRail"])
  /\ UNCHANGED <<up, child, slot, orphans, left>>

StackCheckRail(t) ==
  /\ At(t, "start_stack", "checkRail") /\ Free("rail")
  /\ \/ ~Running("rail") /\ Set(t, [task[t] EXCEPT !.at = "identity"])
     \/ Set(t, Idle)                                \* it runs, or the settings lack something
  /\ UNCHANGED <<up, child, slot, overlapped, orphans, left>>

StackGateway(t) ==
  /\ At(t, "start_stack", "identity")
  /\ Spawn(t, "gateway", "put")
  /\ UNCHANGED <<up, slot, overlapped, orphans, left>>

StackPut(t) ==
  /\ At(t, "start_stack", "put")
  /\ Put(t, IF task[t].on = "gateway" THEN [task[t] EXCEPT !.at = "spawn", !.has = None] ELSE Idle)

StackRail(t) ==
  /\ At(t, "start_stack", "spawn")
  /\ Spawn(t, "rail", "put")
  /\ UNCHANGED <<up, slot, overlapped, orphans, left>>
-----------------------------------------------------------------------------
(* stop, of both: the process is taken out of its slot, asked, waited for   *)
(* with the slot locked, and after three seconds killed.  The rail goes     *)
(* before the gateway.                                                      *)

Stop(t) ==
  \E first \in {"miner", "rail"} :
    /\ Begin(t, "stop", [Idle EXCEPT !.doing = "stop", !.at = "take", !.on = first])
    /\ UNCHANGED <<up, child, slot, orphans, left>>

AfterStop(s) == IF s = "rail" THEN [Idle EXCEPT !.doing = "stop", !.at = "take", !.on = "gateway"] ELSE Idle

\* Mutant: the process is taken out of its slot, and waited for with the slot unlocked.
TakeAndLetGo(t) ==
  LET s == task[t].on IN
  /\ At(t, "stop", "take") /\ Free(s)
  /\ IF slot[s] = None
       THEN Set(t, AfterStop(s)) /\ UNCHANGED <<child, slot>>
       ELSE /\ Set(t, AfterStop(s))
            /\ slot' = [slot EXCEPT ![s] = None]
            /\ child' = IF Alive(slot[s]) THEN [child EXCEPT ![slot[s]].life = "asked"] ELSE child
  /\ UNCHANGED <<up, overlapped, orphans, left>>

StopTake(t) ==
  LET s == task[t].on IN
  /\ At(t, "stop", "take") /\ Free(s)
  /\ IF slot[s] = None
       THEN Set(t, AfterStop(s)) /\ UNCHANGED <<child, slot>>
       ELSE /\ Set(t, [task[t] EXCEPT !.at = "wait", !.has = slot[s]])
            /\ slot' = [slot EXCEPT ![s] = None]
            /\ child' = IF Alive(slot[s]) THEN [child EXCEPT ![slot[s]].life = "asked"] ELSE child
  /\ UNCHANGED <<up, overlapped, orphans, left>>

\* Mutant: what ignores the signal is waited for.
WaitForExit(t) ==
  /\ At(t, "stop", "wait") /\ ~Alive(task[t].has)
  /\ Set(t, AfterStop(task[t].on))
  /\ UNCHANGED <<up, child, slot, overlapped, orphans, left>>

\* It is gone, or it is killed.
StopEnd(t) ==
  /\ At(t, "stop", "wait")
  /\ child' = Dead(task[t].has)
  /\ Set(t, AfterStop(task[t].on))
  /\ UNCHANGED <<up, slot, overlapped, orphans, left>>

\* A dropped request takes with it the process it holds, if it waits for anything.
Drop(t) ==
  /\ up /\ task[t].at \in {"put", "checkRail", "identity", "take", "wait"}
  /\ child' = Dead(task[t].has)
  /\ Set(t, Idle)
  /\ UNCHANGED <<up, slot, overlapped, orphans, left>>
-----------------------------------------------------------------------------
Exit(p) ==
  /\ Alive(p)
  /\ child' = Dead(p)
  /\ UNCHANGED <<up, slot, task, overlapped, orphans, left>>

\* The Studio is killed: what it started runs on, and the next Studio does not know it.
Crash ==
  /\ up /\ left.crashes > 0
  /\ up' = FALSE /\ left' = [left EXCEPT !.crashes = @ - 1]
  /\ orphans' = {p \in Pids : Alive(p)}
  /\ slot' = [s \in Slots |-> None] /\ task' = [t \in Tasks |-> Idle]
  /\ UNCHANGED <<child, overlapped>>

Boot == ~up /\ up' = TRUE /\ UNCHANGED <<child, slot, task, overlapped, orphans, left>>

Handler(t) ==
  MinerSpawn(t) \/ MinerPut(t) \/ StackCheckRail(t) \/ StackGateway(t) \/ StackPut(t) \/ StackRail(t) \/ StopTake(t) \/ StopEnd(t)

Request(t) == MinerStart(t) \/ StackStart(t) \/ Stop(t) \/ Drop(t)

Next == Boot \/ Crash \/ (\E p \in Pids : Exit(p)) \/ \E t \in Tasks : Request(t) \/ Handler(t)

(* Requests under way are scheduled, and locks are handed on.               *)
Spec == Init /\ [][Next]_vars /\ \A t \in Tasks : WF_vars(Handler(t))
-----------------------------------------------------------------------------
(* Properties. *)

(* Whatever runs can be stopped: it is in its slot, or with the request     *)
(* that starts or stops it, and never left behind by a request dropped      *)
(* between the two (kill_on_drop).                                          *)
NothingIsLost ==
  \A p \in Pids : Alive(p) /\ p \notin orphans =>
    (\E s \in Slots : slot[s] = p) \/ (\E t \in Tasks : task[t].has = p)

(* Unless two starts overlap or the Studio dies, there is one miner, one    *)
(* gateway and one rail at most: a start while the old process is still     *)
(* being asked to go waits for it (the lock is held through stop).          *)
OneEach(kind) == Cardinality({p \in Pids : Alive(p) /\ child[p].kind = kind}) <= 1

OneUnlessOverlapped ==
  orphans = {} =>
    /\ "start_miner" \notin overlapped => OneEach("miner")
    /\ "start_stack" \notin overlapped => OneEach("gateway") /\ OneEach("rail")

SupervisorsSafe == TypeOK /\ NothingIsLost /\ OneUnlessOverlapped

(* A stop returns, with a process that ignores the signal, and with another *)
(* stop or a start in its way.                                              *)
StopReturns == \A t \in Tasks : task[t].doing = "stop" ~> task[t].doing # "stop"

(* "One at a time: the miner's equivocation journal is per state dir, and   *)
(* two miners on one bond would sign two attempts at one position"          *)
(* (remote_miner.rs, RemoteMinerManager).                                   *)
OneMinerAtATime == orphans = {} => OneEach("miner")
=============================================================================
