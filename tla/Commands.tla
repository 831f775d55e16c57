------------------------------- MODULE Commands -------------------------------
(***************************************************************************)
(* Running a command in a workspace (crates/misaka-studio-runtime/src/     *)
(* workspace.rs: exec, exec_stream; workspace/git.rs: Git::run): the shell *)
(* and what it starts, the two pipes and their readers, the clocks, and    *)
(* the client that may hang up.                                            *)
(*                                                                         *)
(* A process holds the pipes it has not let go of, and is in the command's *)
(* group until it makes a session of its own.  A byte is Plain, or Lead or *)
(* Cont of a two-byte character; a read takes any number of them.  A clock *)
(* may run out at any moment of a wait, except that two seconds suffice to *)
(* read what a closed pipe still holds.                                    *)
(***************************************************************************)
EXTENDS Naturals, Sequences, SequencesExt, FiniteSets

CONSTANTS
  Shell, Helpers,       \* the shell, and the processes it may start
  Kinds,                \* which of "exec", "stream", "git" is asked for
  Written,              \* [Kinds -> [Pipes -> the bytes its programs write to it]]
  PipeSize,             \* what the kernel holds before a writer blocks
  StreamCap, GitCap,    \* EXEC_STREAM_OUTPUT_CAP and git's max_stdout, in bytes
  Bounds                \* [Kinds -> how many processes may be started and bytes written]

ASSUME CommandsAssumption ==
  /\ Shell \notin Helpers /\ Kinds \subseteq {"exec", "stream", "git"}
  /\ PipeSize \in Nat \ {0} /\ StreamCap \in Nat /\ GitCap \in Nat
  /\ \A k \in Kinds : Bounds[k] \subseteq [fork: Nat, byte: Nat]

VARIABLES
  kind,      \* which handler this is
  phase,     \* where it is
  open,      \* the client is still there
  armed,     \* ProcessGroup.armed
  timedOut,
  proc,      \* [Procs -> the process]
  pipe,      \* [Pipes -> bytes written and not read]
  wrote,     \* [Pipes -> every byte written]
  reader,    \* [Pipes -> the task reading it]
  stopped,   \* the readers' abort was asked for
  budget,    \* OutputBudget.remaining
  noted,     \* OutputBudget.noted
  got,       \* [Pipes -> what the client, or the capture, was given]
  notes,     \* how often the client was told that the rest is not shown
  taken,     \* background processes killed though they had let go of the output
  left       \* what the bounds leave

control == <<kind, phase, open, armed, timedOut>>
output  == <<budget, noted, got, notes>>
vars == <<control, proc, pipe, wrote, reader, stopped, output, taken, left>>

Pipes == {"stdout", "stderr"}
Procs == {Shell} \cup Helpers
Byte  == {"Plain", "Lead", "Cont"}
Char  == {"plain", "wide", "bad"}

Waiting  == {"run", "term", "reap", "drain", "drainAgain"}   \* Running::finish
Stopping == {"closed", "stopTerm", "stopReap"}               \* the stream was dropped

Unborn == [life |-> "unborn", group |-> FALSE, holds |-> {}]
Idle   == [at |-> "read", chunk |-> <<>>, partial |-> FALSE, text |-> <<>>]

TypeOK ==
  /\ kind \in Kinds /\ {open, armed, timedOut, stopped, noted} \subseteq BOOLEAN
  /\ phase \in {"start", "returned"} \cup Waiting \cup Stopping
  /\ proc \in [Procs -> [life: {"unborn", "alive", "dead"}, group: BOOLEAN, holds: SUBSET Pipes]]
  /\ \A p \in Pipes :
       /\ pipe[p] \in Seq(Byte) /\ wrote[p] \in Seq(Byte) /\ got[p] \in Seq(Byte \cup Char)
       /\ Len(pipe[p]) <= PipeSize
       /\ reader[p].at \in {"read", "push", "take", "note", "end", "lastTake", "lastNote", "done"}
       /\ reader[p].chunk \in Seq(Byte) /\ reader[p].text \in Seq(Char) /\ reader[p].partial \in BOOLEAN
  /\ budget \in Nat /\ notes \in Nat /\ taken \subseteq Helpers

Init ==
  /\ kind \in Kinds /\ phase = "start" /\ open = TRUE /\ armed = FALSE /\ timedOut = FALSE
  /\ proc = [p \in Procs |-> Unborn]
  /\ pipe = [p \in Pipes |-> <<>>] /\ wrote = pipe /\ got = pipe
  /\ reader = [p \in Pipes |-> Idle] /\ stopped = FALSE
  /\ budget = StreamCap /\ noted = FALSE /\ notes = 0 /\ taken = {}
  /\ left \in Bounds[kind]
-----------------------------------------------------------------------------
(* The processes, and what a signal does to them. *)

Alive(p)   == proc[p].life = "alive"
Group      == {p \in Procs : Alive(p) /\ proc[p].group}
Holders(p) == {q \in Procs : Alive(q) /\ p \in proc[q].holds}

Killed(S) == [p \in Procs |-> IF p \in S THEN [Unborn EXCEPT !.life = "dead"] ELSE proc[p]]

\* SIGTERM: the programs decide which of them go at once.
Term == \E S \in SUBSET Group : proc' = Killed(S)
Kill == proc' = Killed(Group)

Fork(p, q) ==
  /\ Alive(p) /\ proc[q].life = "unborn" /\ left.fork > 0
  /\ proc' = [proc EXCEPT ![q] = proc[p]]
  /\ left' = [left EXCEPT !.fork = @ - 1]
  /\ UNCHANGED <<control, pipe, wrote, reader, stopped, output, taken>>

\* A helper makes a session of its own, or lets go of a pipe.
Leave(q) ==
  /\ q # Shell /\ q \in Group
  /\ proc' = [proc EXCEPT ![q].group = FALSE]
  /\ UNCHANGED <<control, pipe, wrote, reader, stopped, output, taken, left>>

LetGo(q, p) ==
  /\ q \in Holders(p)
  /\ proc' = [proc EXCEPT ![q].holds = @ \ {p}]
  /\ UNCHANGED <<control, pipe, wrote, reader, stopped, output, taken, left>>

Exit(q) ==
  /\ Alive(q)
  /\ proc' = Killed({q})
  /\ UNCHANGED <<control, pipe, wrote, reader, stopped, output, taken, left>>

\* A writer waits for room; nobody reads a pipe whose reader is gone.
Write(q, p, b) ==
  /\ b \in Written[kind][p]
  /\ q \in Holders(p) /\ Len(pipe[p]) < PipeSize /\ reader[p].at # "done" /\ left.byte > 0
  /\ pipe' = [pipe EXCEPT ![p] = Append(@, b)]
  /\ wrote' = [wrote EXCEPT ![p] = Append(@, b)]
  /\ left' = [left EXCEPT !.byte = @ - 1]
  /\ UNCHANGED <<control, proc, reader, stopped, output, taken>>

Programs ==
  \E q \in Procs :
    \/ \E r \in Helpers : Fork(q, r)
    \/ Leave(q) \/ Exit(q)
    \/ \E p \in Pipes : LetGo(q, p) \/ \E b \in Byte : Write(q, p, b)
-----------------------------------------------------------------------------
(* The decoder: a character split between two reads is held until it is whole. *)

Emitted(partial, b) ==
  CASE b = "Cont" -> IF partial THEN <<"wide">> ELSE <<"bad">>
    [] b = "Lead" -> IF partial THEN <<"bad">> ELSE <<>>
    [] OTHER      -> IF partial THEN <<"bad", "plain">> ELSE <<"plain">>

DecodeByte(acc, b) == [text |-> acc.text \o Emitted(acc.partial, b), partial |-> b = "Lead"]

Utf8Decoder(partial, bytes) ==
  LET after[n \in 0 .. Len(bytes)] ==
        IF n = 0 THEN [text |-> <<>>, partial |-> partial] ELSE DecodeByte(after[n - 1], bytes[n])
  IN after[Len(bytes)]

Bytes(c) == CASE c = "plain" -> 1 [] c = "wide" -> 2 [] OTHER -> 3

Width(text) ==
  LET upTo[n \in 0 .. Len(text)] == IF n = 0 THEN 0 ELSE upTo[n - 1] + Bytes(text[n])
  IN upTo[Len(text)]

\* The longest beginning that ends at a character and fits.
CutTo(text, granted) ==
  LET fits == {n \in 0 .. Len(text) : Width(SubSeq(text, 1, n)) <= granted}
  IN SubSeq(text, 1, CHOOSE n \in fits : \A m \in fits : m <= n)

(* The readers: a Capture for exec, a Forward for the stream, read_capped for git. *)

ReaderTo(p, place) == reader' = [reader EXCEPT ![p] = [@ EXCEPT !.at = place, !.chunk = <<>>, !.text = <<>>]]

Read(p) ==
  /\ reader[p].at = "read" /\ phase # "start" /\ ~(kind = "git" /\ phase = "returned")
  /\ \/ /\ pipe[p] = <<>> /\ Holders(p) = {}
        /\ ReaderTo(p, IF kind = "stream" THEN "end" ELSE "done")
        /\ UNCHANGED pipe
     \/ \E n \in 1 .. Len(pipe[p]) :
          /\ reader' = [reader EXCEPT ![p].at = "push", ![p].chunk = SubSeq(pipe[p], 1, n)]
          /\ pipe' = [pipe EXCEPT ![p] = SubSeq(@, n + 1, Len(@))]
  /\ UNCHANGED <<control, proc, wrote, stopped, output, taken, left>>

PushCapture(p) ==
  /\ kind = "exec" /\ reader[p].at = "push"
  /\ got' = [got EXCEPT ![p] = @ \o reader[p].chunk]
  /\ ReaderTo(p, "read")
  /\ UNCHANGED <<control, proc, pipe, wrote, stopped, budget, noted, notes, taken, left>>

\* Past its cap git's stdout is no longer read, and git is killed; its stderr is drained.
ReadCapped(p) ==
  /\ kind = "git" /\ reader[p].at = "push"
  /\ LET n    == Len(reader[p].chunk)
         room == GitCap - Len(got[p])
         cut  == n > room /\ p = "stdout"
     IN /\ got' = [got EXCEPT ![p] = @ \o SubSeq(reader[p].chunk, 1, IF n < room THEN n ELSE room)]
        /\ ReaderTo(p, IF cut THEN "done" ELSE "read")
        /\ IF cut THEN Kill ELSE UNCHANGED proc
  /\ UNCHANGED <<control, pipe, wrote, stopped, budget, noted, notes, taken, left>>

Push(p) ==
  /\ kind = "stream" /\ reader[p].at = "push"
  /\ IF budget = 0 THEN ReaderTo(p, "note")
     ELSE LET d == Utf8Decoder(reader[p].partial, reader[p].chunk)
          IN reader' = [reader EXCEPT ![p] = [at |-> IF d.text = <<>> THEN "read" ELSE "take",
                                              chunk |-> <<>>, partial |-> d.partial, text |-> d.text]]
  /\ UNCHANGED <<control, proc, pipe, wrote, stopped, output, taken, left>>

End(p) ==
  /\ reader[p].at = "end"
  /\ IF budget > 0 /\ reader[p].partial
       THEN reader' = [reader EXCEPT ![p] = [Idle EXCEPT !.at = "lastTake", !.text = <<"bad">>]]
       ELSE ReaderTo(p, "done")
  /\ UNCHANGED <<control, proc, pipe, wrote, stopped, output, taken, left>>

AfterTake(p) == IF reader[p].at = "take" THEN "read" ELSE "done"

\* Mutant: what does not fit is not taken, and the budget is left as it was.
TakeAllOrNothing(p) ==
  /\ reader[p].at \in {"take", "lastTake"}
  /\ LET fits == Width(reader[p].text) <= budget
     IN /\ budget' = IF fits THEN budget - Width(reader[p].text) ELSE budget
        /\ got' = IF fits THEN [got EXCEPT ![p] = @ \o reader[p].text] ELSE got
        /\ ReaderTo(p, IF fits THEN AfterTake(p) ELSE IF reader[p].at = "take" THEN "note" ELSE "lastNote")
  /\ UNCHANGED <<control, proc, pipe, wrote, stopped, noted, notes, taken, left>>

\* OutputBudget.take leaves nothing behind when it grants less than was wanted.
Take(p) ==
  /\ reader[p].at \in {"take", "lastTake"}
  /\ LET wanted  == Width(reader[p].text)
         granted == IF budget < wanted THEN budget ELSE wanted
     IN /\ budget' = budget - granted
        /\ got' = [got EXCEPT ![p] = @ \o CutTo(reader[p].text, granted)]
        /\ ReaderTo(p, IF granted = wanted THEN AfterTake(p)
                       ELSE IF reader[p].at = "take" THEN "note" ELSE "lastNote")
  /\ UNCHANGED <<control, proc, pipe, wrote, stopped, noted, notes, taken, left>>

Note(p) ==
  /\ reader[p].at \in {"note", "lastNote"}
  /\ noted' = TRUE /\ notes' = IF noted THEN notes ELSE notes + 1
  /\ ReaderTo(p, IF reader[p].at = "note" THEN "read" ELSE "done")
  /\ UNCHANGED <<control, proc, pipe, wrote, stopped, budget, got, taken, left>>

\* An aborted reader ends where it next waits.
Abort(p) ==
  /\ stopped /\ reader[p].at = "read"
  /\ ReaderTo(p, "done")
  /\ UNCHANGED <<control, proc, pipe, wrote, stopped, output, taken, left>>

Reader(p) == Read(p) \/ PushCapture(p) \/ ReadCapped(p) \/ Push(p) \/ End(p) \/ Take(p) \/ Note(p) \/ Abort(p)
-----------------------------------------------------------------------------
(* The handler. *)

Finished == \A p \in Pipes : reader[p].at = "done"
Goto(p) == phase' = p /\ UNCHANGED <<kind, open>>
Quiet   == UNCHANGED <<pipe, wrote, reader, output, left>>

\* The shell could not be started, or it leads a session of its own.
Start ==
  /\ phase = "start"
  /\ \/ /\ proc' = [proc EXCEPT ![Shell] = [life |-> "alive", group |-> TRUE, holds |-> Pipes]]
        /\ armed' = TRUE /\ Goto("run")
     \/ UNCHANGED <<proc, armed>> /\ Goto("returned")
  /\ UNCHANGED <<timedOut, stopped, taken>> /\ Quiet

\* Running::finish: the command, or its timeout ...
Ended ==
  /\ phase = "run" /\ kind # "git" /\ ~Alive(Shell)
  /\ Goto("drain")
  /\ UNCHANGED <<armed, timedOut, proc, stopped, taken>> /\ Quiet

Timeout ==
  /\ phase = "run" /\ kind # "git" /\ Alive(Shell)
  /\ Term /\ timedOut' = TRUE /\ Goto("term")
  /\ UNCHANGED <<armed, stopped, taken>> /\ Quiet

\* ... asked, waited for, then made to: the shell may have gone while the rest did not ...
Insist(from, to) ==
  /\ phase = from
  /\ Kill /\ Goto(to)
  /\ UNCHANGED <<armed, timedOut, stopped, taken>> /\ Quiet

Reaped ==
  /\ phase = "reap" /\ ~Alive(Shell)
  /\ Goto("drain")
  /\ UNCHANGED <<armed, timedOut, proc, stopped, taken>> /\ Quiet

\* ... and then the pipes: two seconds, the group, two seconds more.
SomebodyHolds == \E p \in Pipes : reader[p].at # "done" /\ Holders(p) # {}

KillHolders ==
  /\ phase = "drain" /\ ~Finished /\ SomebodyHolds
  /\ Kill /\ Goto("drainAgain")
  /\ taken' = IF timedOut THEN taken ELSE taken \cup {q \in Group : proc[q].holds = {}}
  /\ UNCHANGED <<armed, timedOut, stopped>> /\ Quiet

\* Mutant: the readers are waited for however long somebody holds the output.
DisarmWaits ==
  /\ phase \in {"drain", "drainAgain"} /\ Finished
  /\ armed' = FALSE /\ Goto("returned")
  /\ UNCHANGED <<timedOut, proc, stopped, taken>> /\ Quiet

Disarm ==
  /\ phase \in {"drain", "drainAgain"}
  /\ \/ Finished /\ UNCHANGED stopped
     \/ phase = "drainAgain" /\ ~Finished /\ SomebodyHolds /\ stopped' = TRUE
  /\ armed' = FALSE /\ Goto("returned")
  /\ UNCHANGED <<timedOut, proc, taken>> /\ Quiet

\* git: its output and its end together, or the clock, which drops all of it.
GitDone ==
  /\ phase = "run" /\ kind = "git" /\ Finished /\ ~Alive(Shell)
  /\ armed' = FALSE /\ Goto("returned")
  /\ UNCHANGED <<timedOut, proc, stopped, taken>> /\ Quiet

\* Mutant: only the shell is killed with a dropped request.
OnlyTheShellDropped ==
  /\ kind = "git" => \A p \in Pipes : reader[p].at # "push"
  /\ proc' = Killed({Shell})
  /\ armed' = FALSE /\ stopped' = TRUE /\ phase' = "returned"
  /\ UNCHANGED kind

Dropped ==
  /\ kind = "git" => \A p \in Pipes : reader[p].at # "push"
  /\ proc' = Killed({Shell} \cup IF armed THEN Group ELSE {})
  /\ armed' = FALSE /\ stopped' = TRUE /\ phase' = "returned"
  /\ UNCHANGED kind

GitTimeout ==
  /\ phase = "run" /\ kind = "git"
  /\ Dropped /\ timedOut' = TRUE
  /\ UNCHANGED <<open, taken>> /\ Quiet

\* The client goes: a request is dropped where it waits; a stream is noticed closed.
HangUp ==
  /\ open /\ phase \in Waiting
  /\ open' = FALSE
  /\ IF kind = "stream" THEN UNCHANGED <<proc, armed, stopped, phase, kind>> ELSE Dropped
  /\ UNCHANGED <<timedOut, taken>> /\ Quiet

Closed ==
  /\ ~open /\ kind = "stream" /\ phase \in Waiting
  /\ Term /\ Goto("stopTerm")
  /\ UNCHANGED <<armed, timedOut, stopped, taken>> /\ Quiet

Stopped ==
  /\ phase = "stopReap" /\ ~Alive(Shell)
  /\ armed' = FALSE /\ stopped' = TRUE /\ Goto("returned")
  /\ UNCHANGED <<timedOut, proc, taken>> /\ Quiet

\* A request is over: its task is gone, and nothing is left to run but the programs.
Handler ==
  \/ Start \/ Ended \/ Timeout \/ Insist("term", "reap") \/ Reaped \/ KillHolders \/ Disarm
  \/ GitDone \/ GitTimeout \/ Closed \/ Insist("stopTerm", "stopReap") \/ Stopped

Readers == \E p \in Pipes : Reader(p)
Next == Programs \/ Readers \/ Handler \/ HangUp

(* The handler and its readers are scheduled and clocks run out; programs   *)
(* and the client may do nothing for ever.                                  *)
Spec ==
  /\ Init /\ [][Next]_vars
  /\ WF_vars(Handler)
  /\ \A p \in Pipes : WF_vars(Reader(p))
-----------------------------------------------------------------------------
(* Properties. *)

(* A command that ran out of time, or whose client hung up, leaves nothing  *)
(* of its group running: not what ignored the first signal, not what its    *)
(* shell started and went before (ProcessGroup.stop, Drop).  Nor does any   *)
(* command leave one of its group writing to a pipe nobody reads.           *)
NothingLeftBehind ==
  phase = "returned" =>
    /\ ~Alive(Shell)
    /\ timedOut \/ stopped \/ (~open /\ kind # "stream") => Group = {}
    /\ kind # "git" => \A q \in Group : proc[q].holds = {}

(* What the client is shown of a pipe is a beginning of what was written to *)
(* it, whatever pieces it was read in and whichever pipe took the last of   *)
(* the budget; all of it, unless the client is told, once, that the rest is *)
(* not shown (Forward, OutputBudget, Utf8Decoder).  Half a character at the *)
(* end of a full budget is the one thing dropped without a word.            *)
Shown(p) ==
  LET d == Utf8Decoder(FALSE, wrote[p])
  IN IF kind # "stream" THEN wrote[p]
     ELSE d.text \o IF d.partial /\ reader[p].at \in {"lastTake", "lastNote", "done"} THEN <<"bad">> ELSE <<>>

Complete(p) ==
  \/ got[p] = Shown(p)
  \/ kind = "stream" /\ got[p] = Utf8Decoder(FALSE, wrote[p]).text /\ budget = 0
  \/ kind = "git" /\ Len(got[p]) = GitCap

OutputIsHonest ==
  /\ \A p \in Pipes : IsPrefix(got[p], Shown(p))
  /\ kind = "stream" => Width(got["stdout"]) + Width(got["stderr"]) + budget <= StreamCap /\ notes <= 1
  /\ phase = "returned" /\ ~stopped /\ notes = 0 => \A p \in Pipes : Complete(p)

CommandsSafe == TypeOK /\ NothingLeftBehind /\ OutputIsHonest

(* Every call ends, with a program that never stops, one that ignores the   *)
(* signal and one outside the group that never lets go of the output; and   *)
(* until it ends a full pipe is emptied, so that a command past the cap     *)
(* still runs on (Running::finish, Forward::push).                          *)
CallReturns ==
  /\ phase = "start" ~> phase = "returned"
  /\ \A p \in Pipes : Len(pipe[p]) = PipeSize ~> Len(pipe[p]) < PipeSize \/ phase = "returned"

(* "Something the command leaves running in the background is left alone if *)
(* it let go of the output" (workspace.rs, exec).  The group is killed as   *)
(* one when anybody, in it or outside it, still holds the output.           *)
LetGoIsLeftAlone == taken = {}
=============================================================================
