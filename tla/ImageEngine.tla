------------------------------ MODULE ImageEngine ------------------------------
(***************************************************************************)
(* The image slot: a diffusion sidecar under the Studio                    *)
(* (crates/misaka-studio-runtime/src/backend/diffusion.rs) and what the    *)
(* Studio says of it (state.rs: load_image_model, unload_image_model,      *)
(* generate_image and the change of engine in apply_settings).             *)
(*                                                                         *)
(* An engine object lives while the Studio or a request holds it, and a    *)
(* sidecar while an engine or a load does: kill_on_drop.                   *)
(***************************************************************************)
EXTENDS Naturals, FiniteSets

CONSTANTS
  Callers,               \* requests at one time
  Images,                \* image models
  MaxSidecars, MaxChanges, MaxCalls    \* bounds

VARIABLES
  current,   \* AppState.image_backend: the number of the engine object
  running,   \* [engine objects -> the sidecar in DiffusionBackend.running, 0 for none]
  alive,     \* sidecars whose process runs
  holds,     \* [sidecars -> the model it has loaded, or "none"]
  record,    \* AppState.image_loaded: a model, or "none"
  call,      \* the requests under way
  torn,      \* a load ended between its sidecar and its record
  spawned, callsLeft    \* bounds

vars == <<current, running, alive, holds, record, call, torn, spawned, callsLeft>>

Engines  == 1 .. MaxChanges + 1
Sidecars == 1 .. MaxSidecars
NoCall   == [at |-> "none", op |-> "none", engine |-> 0, model |-> "none", sidecar |-> 0]
Locked   == {"engine", "replace", "spawn", "health", "post", "put", "record", "take", "clear"}   \* under image_load_lock

TypeOK ==
  /\ current \in Engines /\ running \in [Engines -> Sidecars \cup {0}]
  /\ alive \subseteq Sidecars /\ holds \in [Sidecars -> Images \cup {"none"}] /\ record \in Images \cup {"none"}
  /\ \A c \in Callers : call[c].at \in Locked \cup {"none", "lock", "rebuild", "generate", "base", "asked"}
  /\ \A c \in Callers : call[c].engine \in Engines \cup {0} /\ call[c].sidecar \in Sidecars \cup {0}

Init ==
  /\ current = 1 /\ running = [e \in Engines |-> 0] /\ alive = {} /\ holds = [s \in Sidecars |-> "none"]
  /\ record = "none" /\ call = [c \in Callers |-> NoCall] /\ torn = FALSE
  /\ spawned = 0 /\ callsLeft = MaxCalls
-----------------------------------------------------------------------------
At(c, place) == call[c].at = place
Free         == \A c \in Callers : call[c].at \notin Locked

\* What an engine or a load still holds; the rest is dropped, and so killed.
Held(e)  == e = current \/ \E c \in Callers : call[c].engine = e
Kept     == {s \in Sidecars : (\E e \in Engines : running[e] = s /\ Held(e)) \/ \E c \in Callers : call[c].sidecar = s}

\* The step of caller c to a place, or to its end; whoever nothing holds then is killed.
Go(c, place) == call' = [call EXCEPT ![c].at = place] /\ alive' = alive
Over(c)      == call' = [call EXCEPT ![c] = NoCall] /\ alive' = alive \cap Kept'
Same(others) == UNCHANGED <<others, spawned, callsLeft>>

Begin(c, op, m, place) ==
  /\ At(c, "none") /\ callsLeft > 0 /\ callsLeft' = callsLeft - 1
  /\ call' = [call EXCEPT ![c] = [NoCall EXCEPT !.at = place, !.op = op, !.model = m]]
  /\ UNCHANGED <<current, running, alive, holds, record, torn, spawned>>

load_image_model(c, m) == Begin(c, "load", m, "lock")
unload_image_model(c)  == Begin(c, "unload", "none", "lock")
\* One change at a time: a bound.
apply_settings(c)      == current <= MaxChanges /\ (\A d \in Callers : call[d].op # "apply") /\ Begin(c, "apply", "none", "lock")
generate_image(c)      == record # "none" /\ Begin(c, "generate", "none", "generate")

\* Mutant: nobody waits for image_load_lock.
Barge(c) ==
  /\ At(c, "lock")
  /\ Go(c, "engine")
  /\ Same(<<current, running, holds, record, torn>>)

Lock(c) ==
  /\ At(c, "lock") /\ Free
  /\ Go(c, "engine")
  /\ Same(<<current, running, holds, record, torn>>)

\* The engine of now is taken; a model that is not listed or an engine that cannot be run ends a load.
TakeEngine(c) ==
  /\ Same(<<current, running, holds, record, torn>>)
  /\ At(c, "engine")
  /\ \/ call' = [call EXCEPT ![c].engine = current, ![c].at = IF call[c].op = "load" THEN "replace" ELSE "take"] /\ alive' = alive
     \/ call[c].op = "load" /\ Over(c)

\* DiffusionBackend::unload: the sidecar is taken out and killed.
Take(c, next) ==
  /\ running' = [running EXCEPT ![call[c].engine] = 0]
  /\ alive' = alive \ {running[call[c].engine]}
  /\ call' = [call EXCEPT ![c].at = next]
  /\ Same(<<current, holds, record, torn>>)
Replace(c) == At(c, "replace") /\ Take(c, "spawn")
Unload(c)  == At(c, "take") /\ Take(c, "clear")

Clear(c) ==
  /\ Same(<<current, running, holds, torn>>)
  /\ At(c, "clear") /\ record' = "none"
  /\ IF call[c].op = "apply" THEN call' = [call EXCEPT ![c].at = "rebuild", ![c].engine = 0] /\ alive' = alive \cap Kept' ELSE Over(c)

\* apply_settings: the new engine takes the old one's place, under no lock of load's.
Rebuild(c) ==
  /\ Same(<<running, holds, record, torn>>)
  /\ At(c, "rebuild") /\ current' = current + 1 /\ Over(c)

Spawn(c) ==
  /\ At(c, "spawn") /\ UNCHANGED <<current, running, holds, record, torn, callsLeft>>
  /\ \/ /\ spawned < MaxSidecars /\ spawned' = spawned + 1
        /\ alive' = alive \cup {spawned'}
        /\ call' = [call EXCEPT ![c].at = "health", ![c].sidecar = spawned']
     \/ Over(c) /\ UNCHANGED spawned

\* It answers, or it is gone, or it takes too long; then it takes the model, or does not.
Health(c) ==
  /\ Same(<<current, running, holds, record, torn>>)
  /\ At(c, "health")
  /\ \/ call[c].sidecar \in alive /\ Go(c, "post")
     \/ Over(c)
Post(c) ==
  /\ Same(<<current, running, record, torn>>)
  /\ At(c, "post")
  /\ \/ call[c].sidecar \in alive /\ holds' = [holds EXCEPT ![call[c].sidecar] = call[c].model] /\ Go(c, "put")
     \/ Over(c) /\ UNCHANGED holds

Put(c) ==
  /\ At(c, "put")
  /\ running' = [running EXCEPT ![call[c].engine] = call[c].sidecar]
  /\ Go(c, "record")
  /\ Same(<<current, holds, record, torn>>)
Record(c) ==
  /\ Same(<<current, running, holds, torn>>)
  /\ At(c, "record") /\ record' = call[c].model /\ Over(c)

\* generate_image holds the engine it found; base_url is where its sidecar listens.
Generate(c) ==
  /\ Same(<<current, running, holds, record, torn, alive>>)
  /\ At(c, "generate") /\ call' = [call EXCEPT ![c].at = "base", ![c].engine = current]
Base(c) ==
  /\ Same(<<current, running, holds, record, torn>>)
  /\ At(c, "base")
  /\ \/ running[call[c].engine] # 0 /\ Go(c, "asked")
     \/ running[call[c].engine] = 0 /\ Over(c)
\* The pictures, or why not.
Answer(c) == At(c, "asked") /\ Same(<<current, running, holds, record, torn>>) /\ Over(c)

\* The caller is gone, at any wait (while it waits for pictures it ends as with an answer).
HangUp(c) ==
  /\ Same(<<current, running, holds, record>>)
  /\ call[c].at \notin {"none", "asked"} /\ Over(c)
  /\ torn' = (torn \/ At(c, "record"))

\* A sidecar ends by itself.
Die == \E s \in alive : alive' = alive \ {s} /\ Same(<<current, running, holds, record, call, torn>>)

Step(c) ==
  \/ Lock(c) \/ TakeEngine(c) \/ Replace(c) \/ Unload(c) \/ Clear(c) \/ Rebuild(c)
  \/ Spawn(c) \/ Health(c) \/ Post(c) \/ Put(c) \/ Record(c) \/ Generate(c) \/ Base(c) \/ Answer(c)
Next ==
  \/ \E c \in Callers : Step(c) \/ HangUp(c) \/ unload_image_model(c) \/ apply_settings(c) \/ generate_image(c)
  \/ \E c \in Callers, m \in Images : load_image_model(c, m)
  \/ Die
Spec == Init /\ [][Next]_vars
-----------------------------------------------------------------------------
(* "Two sidecars would otherwise fight over the same GPU memory" (load): two *)
(* run only while a request still holds an engine that a change of settings  *)
(* has replaced.                                                             *)
OneSidecar == Cardinality(alive) <= 1 \/ \E c \in Callers : call[c].engine \notin {0, current}

(* Between loads the record names the model the sidecar has, if there is a   *)
(* sidecar; but for a load cut off between the two.                          *)
RecordNamesSidecar ==
  Free /\ ~torn /\ running[current] # 0 => record = holds[running[current]]

SidecarsSafe == TypeOK /\ OneSidecar /\ RecordNamesSidecar

(* What the Studio shows as loaded has a sidecar: a load that fails or is     *)
(* left has unloaded the one before it, a sidecar may die, and an engine may  *)
(* have been replaced since.                                                  *)
ShownIsLoaded == Free /\ record # "none" => running[current] \in alive
=============================================================================
