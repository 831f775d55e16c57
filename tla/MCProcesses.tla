------------------------------ MODULE MCProcesses ------------------------------
(***************************************************************************)
(* The processes the Studio runs: a command (Commands), the miners          *)
(* (Supervisors), an engine that answers (EngineStream) and the sidecar of  *)
(* the images (ImageEngine).  They share nothing; a behaviour here is one   *)
(* of theirs, and scene says whose.  What is not in the scene stays as it   *)
(* starts.                                                                  *)
(***************************************************************************)
EXTENDS Commands, TLC

CONSTANTS shell, one                               \* Commands
CONSTANTS Tasks, MaxSpawns, Limits                 \* Supervisors
CONSTANTS Scripts, Ports, MaxEngines, Looks        \* EngineStream
CONSTANTS Callers, Images, MaxSidecars, MaxChanges, MaxCalls   \* ImageEngine

VARIABLES scene,
  up, child, miner, task, overlapped, orphans, room,
  slot, asked, step, attempt, script, halves, parser, emitted, looked, out, closed, posts, engines,
  current, running, alive, holds, record, call, torn, spawned, callsLeft

S == INSTANCE Supervisors WITH slot <- miner, left <- room
E == INSTANCE EngineStream
G == INSTANCE ImageEngine

\* There is something to do in each scene, and what an engine answers is lines.
ASSUME ProcessesAssumption ==
  /\ MaxSpawns \in Nat /\ MaxSidecars \in Nat /\ MaxChanges \in Nat
  /\ MaxEngines \in Nat \ {0} /\ Looks \in Nat \ {0}
  /\ <<>> \in Scripts /\ Scripts \subseteq Seq(E!LineKinds)

minersVars == <<up, child, miner, task, overlapped, orphans, room>>
answerVars == <<slot, asked, step, attempt, script, halves, parser, emitted, looked, out, closed, posts, engines>>
imageVars  == <<current, running, alive, holds, record, call, torn, spawned, callsLeft>>
all == <<scene, vars, minersVars, answerVars, imageVars>>

\* Elsewhere than in its own scene a model has one initial state.
Begin ==
  /\ scene \in {"command", "miners", "answer", "images"}
  /\ Init /\ S!Init /\ E!Init /\ G!Init
  /\ scene # "command" => kind = "exec" /\ left.byte = 1
  /\ scene # "miners"  => room.crashes = 0
  /\ scene # "answer"  => slot.port = CHOOSE p \in Ports : TRUE

Command == scene = "command" /\ Next   /\ UNCHANGED <<scene, minersVars, answerVars, imageVars>>
Miners  == scene = "miners"  /\ S!Next /\ UNCHANGED <<scene, vars, answerVars, imageVars>>
Answer  == scene = "answer"  /\ E!Next /\ UNCHANGED <<scene, vars, minersVars, imageVars>>
Image   == scene = "images"  /\ G!Next /\ UNCHANGED <<scene, vars, minersVars, answerVars>>

(* Each model's own fairness.  A behaviour has one scene, so one condition  *)
(* says it of the first task of every model, and another of the second.     *)
First ==
  \/ scene = "command" /\ Handler      /\ UNCHANGED <<scene, minersVars, answerVars, imageVars>>
  \/ scene = "miners"  /\ S!Handler(1) /\ UNCHANGED <<scene, vars, answerVars, imageVars>>
  \/ scene = "answer"  /\ (E!Post \/ E!Look) /\ UNCHANGED <<scene, vars, minersVars, imageVars>>

Second ==
  \/ scene = "command" /\ Reader("stdout") /\ UNCHANGED <<scene, minersVars, answerVars, imageVars>>
  \/ scene = "miners"  /\ S!Handler(2)     /\ UNCHANGED <<scene, vars, answerVars, imageVars>>
  \/ scene = "answer"  /\ E!Stream         /\ UNCHANGED <<scene, vars, minersVars, imageVars>>

Third == scene = "command" /\ Reader("stderr") /\ UNCHANGED <<scene, minersVars, answerVars, imageVars>>

Behaviour ==
  /\ Begin /\ [][Command \/ Miners \/ Answer \/ Image]_all
  /\ WF_all(First) /\ WF_all(Second) /\ WF_all(Third)
-----------------------------------------------------------------------------
(* The miners and the rail under Supervisors' invariant. *)
SupervisorsSafe == S!SupervisorsSafe
(* The answer under EngineStream's, the images under ImageEngine's. *)
EnginesSafe == E!StreamSafe /\ (scene = "images" => G!SidecarsSafe)
\* What has begun, and its end: of the calls and the first task, and of a full pipe and the second.
Starts(i) == CASE scene = "command" -> IF i = 1 THEN phase = "start" ELSE Len(pipe["stdout"]) = PipeSize
               [] scene = "miners"  -> task[i].doing = "stop"
               [] scene = "answer"  -> step = "post"
               [] scene = "images"  -> FALSE
Ends(i)   == CASE scene = "command" -> phase = "returned" \/ (i = 2 /\ Len(pipe["stdout"]) < PipeSize)
               [] scene = "miners"  -> task[i].doing # "stop"
               [] scene = "answer"  -> step = "over"
               [] scene = "images"  -> TRUE

(* Every call to a command, every stop and every answer comes to its end:   *)
(* CallReturns, StopReturns and AnswerEnds, each in its scene.              *)
EachReturns ==
  /\ Starts(1) ~> Ends(1)
  /\ Starts(2) ~> Ends(2)
-----------------------------------------------------------------------------
(* A process beside the shell and little output, or no other process and as *)
(* much output as fills every cap.                                          *)
AtMost(f, b) == [fork |-> f, byte |-> b]
MCBounds == [k \in Kinds |-> CASE k = "exec"   -> {AtMost(1, 1), AtMost(0, 2)}
                                [] k = "stream" -> {AtMost(1, 0), AtMost(0, 3)}
                                [] k = "git"    -> {AtMost(1, 0), AtMost(0, 2)}]
\* Only the stream tells bytes apart.
MCWritten == [k \in Kinds |-> [p \in Pipes |-> IF k = "stream" /\ p = "stdout" THEN {"Lead", "Cont"} ELSE {"Plain"}]]
\* Three processes and no crash, or one and one.
MCLimits == {[spawns |-> 3, crashes |-> 0], [spawns |-> 1, crashes |-> 1]}
\* Every answer of up to two lines; three in the orders that differ; one with a line that says nothing.
MCScripts ==
  BoundedSeq({"text", "finish", "usage", "error", "done"}, 2) \cup
  {<<"text", "finish", "usage">>, <<"text", "usage", "done">>, <<"finish", "text", "error">>, <<"done", "error", "text">>,
   <<"noise", "text", "text", "finish">>}
=============================================================================
