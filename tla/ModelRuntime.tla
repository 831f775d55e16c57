---------------------------- MODULE ModelRuntime ----------------------------
(***************************************************************************)
(* The model lifecycle of the runtime: AppState's load, unload,            *)
(* apply_settings, status, resolve_identity and generate_with              *)
(* (crates/misaka-studio-runtime/src/state.rs) over the supervised child   *)
(* engines of backend/openai_child.rs.                                     *)
(*                                                                         *)
(* AppState keeps the engine slot and the loaded record in two RwLocks and *)
(* only load takes load_lock, so every handler is a little program whose   *)
(* steps, one per await that matters, interleave with the others'.  What   *)
(* an engine object holds is a third fact, and whether that process is     *)
(* alive a fourth.                                                         *)
(*                                                                         *)
(* An engine object is a number in the order of building, a process a      *)
(* number in the order of spawning (its port).  A load asks for no context *)
(* of its own; layers, prompts and the words of a reply are left out.      *)
(* Engine settings are a version.                                          *)
(***************************************************************************)
EXTENDS Naturals, FiniteSets

CONSTANTS
  Models, Kinds,   \* model files; the kinds of engine
  KindOf,          \* [Models -> Kinds]: the engine that reads the file
  Configured,      \* the kind the settings ask for
  NoModel,
  Loaders,     \* POST /models/{id}/load, a chat's ensure_loaded, the startup load
  Unloaders,   \* POST /runtime/unload, delete_model
  Savers,      \* handlers that change an engine setting
  Chats,       \* handlers inside generate_with
  Pollers,     \* GET /runtime/status
  Hashers,     \* hash_model and whoever else resolves the identity
  MaxEngines, MaxProcs,   \* bounds: engine objects built, processes spawned
  MaxSaves,    \* bound: settings saved
  MaxDeaths,   \* bound: engines that exit on their own
  MaxHangups   \* bound: clients that disconnect

Handlers == Loaders \cup Unloaders \cup Savers \cup Chats \cup Pollers \cup Hashers
Engines  == 1..MaxEngines
Procs    == 1..MaxProcs
AnyModel == Models \cup {NoModel}

ASSUME RuntimeAssumption ==
  /\ NoModel \notin Models
  /\ KindOf \in [Models -> Kinds] /\ Configured \in Kinds
  /\ MaxEngines \in Nat \ {0} /\ MaxProcs \in Nat /\ MaxSaves \in Nat
  /\ MaxDeaths \in Nat /\ MaxHangups \in Nat
  /\ Loaders \cap (Unloaders \cup Savers \cup Chats \cup Pollers \cup Hashers) = {}
  /\ Unloaders \cap (Savers \cup Chats \cup Pollers \cup Hashers) = {}
  /\ Savers \cap (Chats \cup Pollers \cup Hashers) = {}
  /\ Chats \cap (Pollers \cup Hashers) = {}
  /\ Pollers \cap Hashers = {}

ASSUME FewChats == IsFiniteSet(Chats)

VARIABLES
  lock,      \* the loader inside load_lock; {} when nobody is
  settings,  \* AppState.settings: the version of the engine settings
  stored,    \* the version in the settings file
  saves,     \* versions handed out to savers
  slot,      \* AppState.backend
  kind, cfg, \* [Engines -> ...]: what each engine was built as, from which version
  built,     \* engines built so far
  running,   \* [Engines -> Procs \cup {0}]: ChildEngine.running
  holds,     \* [Procs -> the model the process serves]
  alive,     \* the processes that have not exited
  spawned,   \* processes spawned so far
  loaded,    \* AppState.loaded: the model and the identity recorded for it
  hashed,    \* models whose digest the store knows
  at,        \* [Handlers -> where its handler is]
  frame,     \* [Handlers -> its local variables]
  active,    \* MetricsHub.active
  filed,     \* inference records: what each says and who answered
  deaths, hangups

settingVars == <<settings, stored, saves>>
engineVars == <<kind, cfg, built>>
procVars   == <<holds, spawned>>
logVars    == <<active, filed>>
boundVars  == <<deaths, hangups>>
vars == <<lock, settingVars, slot, engineVars, running, procVars, alive, loaded, hashed,
          at, frame, logVars, boundVars>>

Nothing == [model |-> NoModel, ident |-> NoModel]
NoFrame == [model |-> NoModel, ident |-> NoModel, engine |-> 0, proc |-> 0, version |-> 0,
            again |-> FALSE]

Places == {"idle", "wait", "check", "choose", "stop", "spawn", "health", "slot", "tokenizer",
           "clear", "swap", "write", "probe", "hash", "plan", "first", "stream"}

Frame == [model: AnyModel, ident: AnyModel, engine: 0..MaxEngines, proc: 0..MaxProcs,
          version: 0..MaxSaves, again: BOOLEAN]

TypeOK ==
  /\ lock \subseteq Loaders
  /\ settings \in 0..MaxSaves /\ stored \in 0..MaxSaves /\ saves \in 0..MaxSaves
  /\ slot \in Engines
  /\ kind \in [Engines -> Kinds] /\ cfg \in [Engines -> 0..MaxSaves]
  /\ built \in 1..MaxEngines
  /\ running \in [Engines -> 0..MaxProcs]
  /\ holds \in [Procs -> AnyModel] /\ spawned \in 0..MaxProcs
  /\ alive \subseteq Procs
  /\ loaded \in [model: AnyModel, ident: AnyModel]
  /\ hashed \subseteq Models
  /\ at \in [Handlers -> Places]
  /\ frame \in [Handlers -> Frame]
  /\ active \in Nat
  /\ filed \subseteq [model: Models, ident: AnyModel, by: Models]
  /\ deaths \in 0..MaxDeaths /\ hangups \in 0..MaxHangups

Init ==
  /\ lock = {} /\ settings = 0 /\ stored = 0 /\ saves = 0
  /\ slot = 1 /\ built = 1
  /\ kind = [e \in Engines |-> Configured] /\ cfg = [e \in Engines |-> 0]
  /\ running = [e \in Engines |-> 0]
  /\ holds = [p \in Procs |-> NoModel] /\ spawned = 0 /\ alive = {}
  /\ loaded = Nothing /\ hashed = {}
  /\ at = [h \in Handlers |-> "idle"] /\ frame = [h \in Handlers |-> NoFrame]
  /\ active = 0 /\ filed = {}
  /\ deaths = 0 /\ hangups = 0
-----------------------------------------------------------------------------
(* What an engine answers when asked (ChildEngine::loaded): it looks at its *)
(* process, and one that has exited is forgotten.                           *)

\* Mutant: what the engine object says, without looking at the process.
UpOnPaper(e) == running[e] # 0

Up(e)   == running[e] \in alive
Reap(e) == running' = IF Up(e) THEN running ELSE [running EXCEPT ![e] = 0]

(* ChildEngine::unload. *)
Halt(e) == /\ alive' = alive \ {running[e]}
           /\ running' = [running EXCEPT ![e] = 0]

Goto(h, place) == at' = [at EXCEPT ![h] = place]
Finish(h)      == Goto(h, "idle") /\ frame' = [frame EXCEPT ![h] = NoFrame]
-----------------------------------------------------------------------------
(* load: everything under load_lock. *)

Request(l, m) ==
  /\ at[l] = "idle"
  /\ Goto(l, "wait") /\ frame' = [frame EXCEPT ![l].model = m]
  /\ UNCHANGED <<lock, settingVars, slot, engineVars, running, procVars, alive, loaded,
                 hashed, logVars, boundVars>>

Acquire(l) ==
  /\ at[l] = "wait" /\ lock = {}
  /\ lock' = lock \cup {l} /\ Goto(l, "check")
  /\ UNCHANGED <<settingVars, slot, engineVars, running, procVars, alive, loaded,
                 hashed, frame, logVars, boundVars>>

Release(l) == lock' = lock \ {l} /\ Finish(l)

\* Mutant: every load starts the engine again.
CheckAlwaysLoads(l) ==
  /\ at[l] = "check"
  /\ Goto(l, "choose")
  /\ UNCHANGED <<lock, settingVars, slot, engineVars, running, procVars, alive, loaded, hashed,
                 frame, logVars, boundVars>>

(* Asked for what is already loaded, and its engine is up: done. *)
Check(l) ==
  /\ at[l] = "check"
  /\ IF loaded.model = frame[l].model
     THEN /\ Reap(slot)
          /\ IF Up(slot) THEN Release(l) ELSE Goto(l, "choose") /\ UNCHANGED <<lock, frame>>
     ELSE Goto(l, "choose") /\ UNCHANGED <<running, lock, frame>>
  /\ UNCHANGED <<settingVars, slot, engineVars, procVars, alive, loaded, hashed,
                 logVars, boundVars>>

Identity(m) == IF m \in hashed THEN m ELSE NoModel

(* backend_for: the engine in the slot when it reads the file, else a new   *)
(* one of the kind that does, built from the settings.                      *)
Choose(l) ==
  /\ at[l] = "choose"
  /\ LET m == frame[l].model IN
       \/ /\ kind[slot] = KindOf[m]
          /\ frame' = [frame EXCEPT ![l].engine = slot, ![l].ident = Identity(m)]
          /\ UNCHANGED engineVars
       \/ /\ kind[slot] # KindOf[m] /\ built < MaxEngines
          /\ built' = built + 1
          /\ kind' = [kind EXCEPT ![built'] = KindOf[m]]
          /\ cfg' = [cfg EXCEPT ![built'] = settings]
          /\ frame' = [frame EXCEPT ![l].engine = built', ![l].ident = Identity(m)]
  /\ Goto(l, "stop")
  /\ UNCHANGED <<lock, settingVars, slot, running, procVars, alive, loaded, hashed,
                 logVars, boundVars>>

(* The file is gone, the pairing is refused or the engine is not installed; *)
(* or the program cannot be started.                                        *)
Refuse(l) ==
  /\ at[l] \in {"choose", "spawn"}
  /\ Release(l)
  /\ UNCHANGED <<settingVars, slot, engineVars, running, procVars, alive, loaded,
                 hashed, logVars, boundVars>>

\* Mutant: the new engine is started before the old one is stopped.
StartBesideOld(l) ==
  /\ at[l] = "stop" /\ l \in Loaders
  /\ Goto(l, "spawn")
  /\ UNCHANGED <<lock, settingVars, slot, engineVars, running, procVars, alive, loaded, hashed,
                 frame, logVars, boundVars>>

StopOld(l) ==
  /\ at[l] = "stop" /\ l \in Loaders
  /\ Halt(frame[l].engine) /\ Goto(l, "spawn")
  /\ UNCHANGED <<lock, settingVars, slot, engineVars, procVars, loaded, hashed, frame,
                 logVars, boundVars>>

Spawn(l) ==
  /\ at[l] = "spawn" /\ spawned < MaxProcs
  /\ spawned' = spawned + 1
  /\ holds' = [holds EXCEPT ![spawned'] = frame[l].model]
  /\ alive' = alive \cup {spawned'}
  /\ frame' = [frame EXCEPT ![l].proc = spawned']
  /\ Goto(l, "health")
  /\ UNCHANGED <<lock, settingVars, slot, engineVars, running, loaded, hashed, logVars,
                 boundVars>>

Healthy(l) ==
  /\ at[l] = "health" /\ frame[l].proc \in alive
  /\ running' = [running EXCEPT ![frame[l].engine] = frame[l].proc]
  /\ Goto(l, "slot")
  /\ UNCHANGED <<lock, settingVars, slot, engineVars, procVars, alive, loaded, hashed,
                 frame, logVars, boundVars>>

\* Mutant: no startup_timeout.
NotReadyIfGone(l) ==
  /\ at[l] = "health" /\ frame[l].proc \notin alive
  /\ alive' = alive \ {frame[l].proc}
  /\ Release(l)
  /\ UNCHANGED <<settingVars, slot, engineVars, running, procVars, loaded, hashed, logVars,
                 boundVars>>

(* It exited, or startup_timeout passed and it is killed. *)
NotReady(l) ==
  /\ at[l] = "health"
  /\ alive' = alive \ {frame[l].proc}
  /\ Release(l)
  /\ UNCHANGED <<settingVars, slot, engineVars, running, procVars, loaded, hashed,
                 logVars, boundVars>>

\* Mutant: the engine that answered the load is not the one kept.
SlotKept(l) ==
  /\ at[l] = "slot"
  /\ Goto(l, "tokenizer")
  /\ UNCHANGED <<lock, settingVars, slot, engineVars, running, procVars, alive, loaded, hashed,
                 frame, logVars, boundVars>>

SetSlot(l) ==
  /\ at[l] = "slot"
  /\ slot' = frame[l].engine /\ Goto(l, "tokenizer")
  /\ UNCHANGED <<lock, settingVars, engineVars, running, procVars, alive, loaded,
                 hashed, frame, logVars, boundVars>>

(* After prepare_tokenizer's awaits. *)
SetLoaded(l) ==
  /\ at[l] = "tokenizer"
  /\ loaded' = [model |-> frame[l].model, ident |-> frame[l].ident]
  /\ Release(l)
  /\ UNCHANGED <<settingVars, slot, engineVars, running, procVars, alive, hashed,
                 logVars, boundVars>>

LoadStep(l) == \/ Acquire(l) \/ Check(l) \/ Choose(l) \/ Refuse(l) \/ StopOld(l) \/ Spawn(l)
               \/ Healthy(l) \/ NotReady(l) \/ SetSlot(l) \/ SetLoaded(l)
-----------------------------------------------------------------------------
(* unload, and apply_settings around it: neither takes load_lock. *)

Unload(u) ==
  /\ at[u] = "idle"
  /\ Goto(u, "stop") /\ frame' = [frame EXCEPT ![u].engine = slot]
  /\ UNCHANGED <<lock, settingVars, slot, engineVars, running, procVars, alive, loaded,
                 hashed, logVars, boundVars>>

SaveSettings(s) ==
  /\ at[s] = "idle" /\ saves < MaxSaves
  /\ saves' = saves + 1 /\ stored' = saves'
  /\ Goto(s, "stop") /\ frame' = [frame EXCEPT ![s].engine = slot, ![s].version = saves']
  /\ UNCHANGED <<lock, settings, slot, engineVars, running, procVars, alive, loaded,
                 hashed, logVars, boundVars>>

StopHeld(h) ==
  /\ at[h] = "stop" /\ h \in Unloaders \cup Savers
  /\ Halt(frame[h].engine) /\ Goto(h, "clear")
  /\ UNCHANGED <<lock, settingVars, slot, engineVars, procVars, loaded, hashed, frame,
                 logVars, boundVars>>

(* loaded := None, by unload, by a status that found the engine gone and by *)
(* a chat that did.                                                         *)
Clear(h) ==
  /\ at[h] = "clear"
  /\ loaded' = Nothing
  /\ IF h \in Savers THEN Goto(h, "swap") /\ UNCHANGED frame ELSE Finish(h)
  /\ UNCHANGED <<lock, settingVars, slot, engineVars, running, procVars, alive, hashed,
                 logVars, boundVars>>

Swap(s) ==
  /\ at[s] = "swap" /\ built < MaxEngines
  /\ built' = built + 1
  /\ kind' = [kind EXCEPT ![built'] = Configured]
  /\ cfg' = [cfg EXCEPT ![built'] = frame[s].version]
  /\ slot' = built' /\ Goto(s, "write")
  /\ UNCHANGED <<lock, settingVars, running, procVars, alive, loaded, hashed, frame,
                 logVars, boundVars>>

WriteSettings(s) ==
  /\ at[s] = "write" /\ s \in Savers
  /\ settings' = frame[s].version
  /\ Finish(s)
  /\ UNCHANGED <<lock, stored, saves, slot, engineVars, running, procVars, alive,
                 loaded, hashed, logVars, boundVars>>
-----------------------------------------------------------------------------
(* status: reconciled_loaded. *)

Poll(q) ==
  /\ at[q] = "idle" /\ q \in Pollers
  /\ loaded # Nothing
  /\ Goto(q, "probe")
  /\ UNCHANGED <<lock, settingVars, slot, engineVars, running, procVars, alive, loaded,
                 hashed, frame, logVars, boundVars>>

Probe(q) ==
  /\ at[q] = "probe"
  /\ Reap(slot)
  /\ Goto(q, IF Up(slot) THEN "idle" ELSE "clear")
  /\ UNCHANGED <<lock, settingVars, slot, engineVars, procVars, alive, loaded, hashed,
                 frame, logVars, boundVars>>
-----------------------------------------------------------------------------
(* resolve_identity: the slot is written with what was hashed, whatever it  *)
(* holds by then.                                                           *)

Resolve(x) ==
  /\ at[x] = "idle" /\ x \in Hashers
  /\ loaded # Nothing /\ loaded.ident = NoModel
  /\ Goto(x, "hash") /\ frame' = [frame EXCEPT ![x].model = loaded.model]
  /\ UNCHANGED <<lock, settingVars, slot, engineVars, running, procVars, alive, loaded,
                 hashed, logVars, boundVars>>

Hash(x) ==
  /\ at[x] = "hash"
  /\ \/ hashed' = hashed \cup {frame[x].model} /\ Goto(x, "write") /\ UNCHANGED frame
     \/ Finish(x) /\ UNCHANGED hashed   \* the file cannot be read
  /\ UNCHANGED <<lock, settingVars, slot, engineVars, running, procVars, alive, loaded,
                 logVars, boundVars>>

WriteIdentity(x) ==
  /\ at[x] = "write" /\ x \in Hashers
  /\ loaded' = IF loaded = Nothing THEN Nothing
               ELSE [model |-> frame[x].model, ident |-> frame[x].model]
  /\ Finish(x)
  /\ UNCHANGED <<lock, settingVars, slot, engineVars, running, procVars, alive, hashed,
                 logVars, boundVars>>
-----------------------------------------------------------------------------
(* generate_with. *)

\* Mutant: asked with nothing on record.
AskUnloaded(c) ==
  /\ at[c] = "idle" /\ c \in Chats
  /\ Goto(c, "probe")
  /\ frame' = [frame EXCEPT ![c].model = loaded.model, ![c].ident = loaded.ident]
  /\ UNCHANGED <<lock, settingVars, slot, engineVars, running, procVars, alive, loaded, hashed,
                 logVars, boundVars>>

(* The loaded state is cloned, the slot's engine taken and asked whether it *)
(* holds anything; the reads of the slot and of the engine are one step.    *)
Ask(c) ==
  /\ at[c] = "idle" /\ c \in Chats
  /\ loaded # Nothing
  /\ Goto(c, "probe")
  /\ frame' = [frame EXCEPT ![c].model = loaded.model, ![c].ident = loaded.ident]
  /\ UNCHANGED <<lock, settingVars, slot, engineVars, running, procVars, alive, loaded,
                 hashed, logVars, boundVars>>

AskEngine(c) ==
  /\ at[c] = "probe" /\ c \in Chats
  /\ Reap(slot)
  /\ frame' = [frame EXCEPT ![c].engine = slot]
  /\ Goto(c, IF Up(slot) THEN "plan" ELSE "clear")
  /\ UNCHANGED <<lock, settingVars, slot, engineVars, procVars, alive, loaded, hashed,
                 logVars, boundVars>>

\* Mutant: the failure path leaves the gauge up.
PostLeavesGauge(c) ==
  /\ at[c] = "plan"
  /\ LET p == running[frame[c].engine] IN
       /\ active' = active + 1
       /\ IF p \in alive THEN frame' = [frame EXCEPT ![c].proc = p] /\ Goto(c, "first")
                         ELSE Finish(c)
  /\ UNCHANGED <<lock, settingVars, slot, engineVars, running, procVars, alive, loaded, hashed,
                 filed, boundVars>>

(* The request goes out, after plan_context's awaits, to whatever process   *)
(* the engine has now; a refusal on the way ends the call with the gauge    *)
(* back down.                                                               *)
Post(c) ==
  /\ at[c] = "plan"
  /\ LET p == running[frame[c].engine] IN
       IF p \in alive
       THEN /\ active' = active + 1
            /\ frame' = [frame EXCEPT ![c].proc = p] /\ Goto(c, "first")
       ELSE UNCHANGED active /\ Finish(c)
  /\ UNCHANGED <<lock, settingVars, slot, engineVars, running, procVars, alive, loaded,
                 hashed, filed, boundVars>>

(* The stream broke before its first event: asked again once, of the same   *)
(* process, if the engine still has it.                                     *)
Repost(c) ==
  /\ at[c] = "first" /\ ~frame[c].again
  /\ running[frame[c].engine] = frame[c].proc /\ frame[c].proc \in alive
  /\ frame' = [frame EXCEPT ![c].again = TRUE]
  /\ UNCHANGED <<lock, settingVars, slot, engineVars, running, procVars, alive, loaded,
                 hashed, at, logVars, boundVars>>

(* The first event is a refusal of the prompt's length: planned again and   *)
(* sent again, to whatever process the engine has by then.                  *)
Replan(c) ==
  /\ at[c] = "first"
  /\ LET p == running[frame[c].engine] IN
       frame' = IF p \in alive THEN [frame EXCEPT ![c].proc = p] ELSE frame
  /\ Goto(c, "stream")
  /\ UNCHANGED <<lock, settingVars, slot, engineVars, running, procVars, alive, loaded,
                 hashed, logVars, boundVars>>

(* The first event, an error included, starts the task that forwards them.  *)
First(c) ==
  /\ at[c] = "first"
  /\ Goto(c, "stream")
  /\ UNCHANGED <<lock, settingVars, slot, engineVars, running, procVars, alive, loaded,
                 hashed, frame, logVars, boundVars>>

(* The stream ends: finished, broken or hung up on; it is recorded with the *)
(* state cloned at the start.                                               *)
EndStream(c) ==
  /\ at[c] = "stream"
  /\ active' = IF active > 0 THEN active - 1 ELSE 0
  /\ filed' = filed \cup {[model |-> frame[c].model, ident |-> frame[c].ident,
                           by |-> holds[frame[c].proc]]}
  /\ Finish(c)
  /\ UNCHANGED <<lock, settingVars, slot, engineVars, running, procVars, alive, loaded,
                 hashed, boundVars>>

ChatStep(c) == AskEngine(c) \/ Post(c) \/ Repost(c) \/ Replan(c) \/ First(c) \/ EndStream(c)
-----------------------------------------------------------------------------

EngineDies(p) ==
  /\ p \in alive /\ deaths < MaxDeaths /\ deaths' = deaths + 1
  /\ alive' = alive \ {p}
  /\ UNCHANGED <<lock, settingVars, slot, engineVars, running, procVars, loaded, hashed,
                 at, frame, logVars, hangups>>

(* The client disconnects and its handler is dropped at an await: a load    *)
(* lets go of the lock and of a child not yet ready (kill_on_drop), a chat  *)
(* of everything it has not yet handed to its task; nothing else is undone. *)
Hangup(h) ==
  /\ at[h] \notin {"idle", "stop", "stream"}
  /\ hangups < MaxHangups /\ hangups' = hangups + 1
  /\ alive' = IF at[h] = "health" THEN alive \ {frame[h].proc} ELSE alive
  /\ lock' = lock \ {h}
  /\ Finish(h)
  /\ UNCHANGED <<settingVars, slot, engineVars, running, procVars, loaded, hashed,
                 logVars, deaths>>

Next ==
  \/ \E l \in Loaders : LoadStep(l) \/ \E m \in Models : Request(l, m)
  \/ \E u \in Unloaders : Unload(u)
  \/ \E s \in Savers : SaveSettings(s) \/ Swap(s) \/ WriteSettings(s)
  \/ \E h \in Unloaders \cup Savers : StopHeld(h)
  \/ \E h \in Handlers : Clear(h) \/ Hangup(h)
  \/ \E q \in Pollers : Poll(q) \/ Probe(q)
  \/ \E x \in Hashers : Resolve(x) \/ Hash(x) \/ WriteIdentity(x)
  \/ \E c \in Chats : Ask(c) \/ ChatStep(c)
  \/ \E p \in Procs : EngineDies(p)

Spec == Init /\ [][Next]_vars

(* A handler that was called runs on; load_lock is a FIFO mutex; an engine  *)
(* being started may never answer, but startup_timeout passes; the status   *)
(* is polled for as long as the app is open.  Nothing obliges an engine to  *)
(* end a reply.                                                             *)
Fairness ==
  /\ \A l \in Loaders : /\ SF_vars(Acquire(l)) /\ WF_vars(NotReady(l))
                        /\ WF_vars(Check(l) \/ Choose(l) \/ Refuse(l) \/ StopOld(l) \/ Spawn(l))
                        /\ WF_vars(SetSlot(l) \/ SetLoaded(l))
  /\ \A h \in Unloaders \cup Savers : WF_vars(StopHeld(h))
  /\ \A h \in Handlers : WF_vars(Clear(h))
  /\ \A s \in Savers : WF_vars(Swap(s)) /\ WF_vars(WriteSettings(s))
  /\ \A q \in Pollers : WF_vars(Poll(q)) /\ WF_vars(Probe(q))

FairSpec == Spec /\ Fairness
-----------------------------------------------------------------------------
(* Safety. *)

\* Nobody is inside a handler.
Quiet == \A h \in Handlers : at[h] = "idle"

\* The slot's engine has a living process, and the model that one serves.
Answers == running[slot] \in alive
Serving == holds[running[slot]]

(* "That load is the answer, not a reason to start the engine again": a     *)
(* load never stops a live engine that already serves, on record, the model *)
(* it was asked for, while the record is written by loads and unloads only  *)
(* (see HashKeepsRecord).  (load's first check, under load_lock.)           *)
SameModelNotRestarted ==
  [][\A l \in Loaders :
       at[l] = "stop" /\ at'[l] = "spawn" /\ hashed = {} /\ loaded.model = frame[l].model =>
         ~Answers]_vars

\* Engine objects somebody still refers to; the processes of the others are
\* killed when they are dropped.
Kept == {slot} \cup ({frame[h].engine : h \in Handlers} \ {0})

\* Processes that hold memory: serving, or being started.
Resident == {p \in alive : \/ \E e \in Kept : running[e] = p
                           \/ \E l \in Loaders : at[l] = "health" /\ frame[l].proc = p}

(* "Stop, then start, is what keeps two engines from holding the same GPU   *)
(* memory at once."  (ChildEngine::load.)                                   *)
OneEngineAtATime == \A p, q \in Resident : p = q

\* A load is between the slot it wrote, or is about to, and the record.
Recording == \E l \in Loaders : at[l] \in {"slot", "tokenizer"}

(* A model the app has on record is the one the engine in the slot serves,  *)
(* whoever else is in the middle of what, unless a load is between its two  *)
(* writes, was hung up on there, or an identity was worked out (see         *)
(* HashKeepsRecord).  (load's two writes, and the other writers of each.)   *)
LoadedIsServed ==
  Answers /\ ~Recording /\ hangups = 0 /\ hashed = {} /\ loaded # Nothing =>
    loaded.model = Serving

(* The gauge counts the calls between their request and their last event,   *)
(* while no client leaves one (see ActiveComesBack).  (generation_started,  *)
(* generation_finished.)                                                    *)
ActiveCountsStreams ==
  hangups = 0 => active = Cardinality({c \in Chats : at[c] \in {"first", "stream"}})
-----------------------------------------------------------------------------
(* What the code says of itself and does not keep, as OneEngineAtATime with  *)
(* two kinds of engine. *)

(* "Compute and cache the model identity for the loaded model": an identity *)
(* worked out late leaves the record on what is served, and is its own.     *)
(* (resolve_identity's write.)                                              *)
HashKeepsRecord ==
  Quiet /\ Answers => loaded.model = Serving /\ loaded.ident \in {NoModel, Serving}

(* "Turns into nothing is loaded the next time anyone asks": only a dead    *)
(* engine does.  An engine that is up is on record.  (reconciled_loaded.)   *)
EngineIsKnown == Quiet /\ Answers => loaded # Nothing

(* "Changing the backend unloads the current model": an engine that is up   *)
(* was built from the settings in force.  (apply_settings; backend_for.)    *)
EngineFollowsSettings == Quiet /\ Answers => cfg[slot] = settings

(* "Persist them, then rebuild whatever they changed": a restart reads the  *)
(* settings in force.  (apply_settings.)                                    *)
SettingsAreStored == Quiet => stored = settings

(* "Every completion is recorded with the identity of what produced it".    *)
(* (generate_with's clone of the loaded state; record.)                     *)
RecordsNameTheirModel == \A r \in filed : r.model = r.by

(* "So active cannot leak": with nobody in generate_with it is zero.        *)
(* (generation_started, generation_finished.)                               *)
ActiveComesBack == Quiet => active = 0
-----------------------------------------------------------------------------
(* Liveness. *)

(* A load ends: it gets the lock whoever holds it, and an engine that never *)
(* answers does not keep it.  (load_lock; startup_timeout.)                 *)
LoadReturns == \A l \in Loaders : at[l] = "wait" ~> at[l] = "idle"

(* An engine that died is not "loaded" for ever.  (reconciled_loaded.)      *)
DeadEngineIsForgotten ==
  (loaded # Nothing /\ ~Answers) ~> (loaded = Nothing \/ Answers)
=============================================================================
