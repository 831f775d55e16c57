------------------------------- MODULE AgentRun -------------------------------
(***************************************************************************)
(* The coding agent in one thread (ui/src/lib/agent/run.ts, loop.ts), the  *)
(* calls it makes on one file (tools.ts), the list of what it changed      *)
(* (changes.ts), and the person who sends, stops, answers, sends again,    *)
(* reverts, clears, deletes and reloads.                                   *)
(*                                                                         *)
(* The window has one thread of control: what follows an awaited answer, up *)
(* to the next thing awaited, is one step.  A stopped run that awaits the  *)
(* model, a command or the person goes on within that step; one that awaits *)
(* a file goes on when the runtime has answered.  Reading a file and its   *)
(* answer are one step, a change and its answer two.                       *)
(*                                                                         *)
(* A text is told by the call that wrote its last version and by how many  *)
(* changes others made to it.  A step that makes a call says nothing else. *)
(***************************************************************************)
EXTENDS Naturals, Sequences, FiniteSets

CONSTANTS
  MaxRuns,                            \* messages sent to the agent
  MAX_STEPS, REPEAT_WARN, REPEAT_STOP,
  Policies,                           \* what the person may set the thread's policy to
  Beginnings                          \* the policy, the file and the bounds of a behaviour

VARIABLES
  window,    \* what the window holds
  disk,      \* the file
  panel,     \* a revert under way
  took,      \* the calls carried out
  needed,    \* those the policy asked about
  approved,  \* those the person approved
  late,      \* [Runs -> calls carried out after its stop]
  cut,       \* the thread was emptied, shortened or written to under a run
  forgotten, \* a change left the list, or never reached it, with the file as the agent left it
  left       \* what the bounds leave

ghosts == <<took, needed, approved, late, cut, forgotten>>
vars == <<window, disk, panel, ghosts, left>>

Runs   == 1..MaxRuns
NoCall == <<0, 0>>
Calls  == Runs \X (1..MAX_STEPS)

Text(a, o) == [there |-> TRUE, agent |-> a, other |-> o]
Missing     == [there |-> FALSE, agent |-> NoCall, other |-> 0]

Kinds     == {"read", "edit", "write", "command"}
ToolKind(k) == IF k = "write" THEN "edit" ELSE k
Unsettled == {"pending", "awaiting", "running"}
Waiting   == {"preparing", "asking", "running"}

\* A message: what the person typed, a step of a run with its call's status, a step's results, a note.
Msg(k, id, st) == [k |-> k, id |-> id, st |-> st]

Idle == [at |-> "off", token |-> 0, aborted |-> FALSE, step |-> 0, kind |-> "none", ask |-> FALSE,
         last |-> "none", repeats |-> 0, empties |-> 0, quiet |-> FALSE,
         op |-> "none", saw |-> NoCall, prev |-> Missing, now |-> Missing]
NoRevert == [at |-> "none", force |-> FALSE, note |-> FALSE, original |-> Missing, current |-> Missing]

Init ==
  /\ \E b \in Beginnings :
       /\ window = [open |-> TRUE, thread |-> <<>>, changes |-> {}, policy |-> b.policy, allowed |-> {},
                    run |-> [r \in Runs |-> Idle], latest |-> 0, active |-> 0,
                    approval |-> 0, card |-> NoCall, shown |-> "none", overlay |-> 0]
       /\ disk = b.file /\ left = b.left
  /\ panel = NoRevert
  /\ took = {} /\ needed = {} /\ approved = {} /\ late = [r \in Runs |-> 0]
  /\ cut = FALSE /\ forgotten = FALSE
-----------------------------------------------------------------------------
(* What a run does to the window.  w is the window so far. *)

live(w, r)    == w.run[r].token = w.latest
running(w, r) == live(w, r) /\ ~w.run[r].aborted
Call(w, r)    == <<r, w.run[r].step>>

\* appendMessage: a run's words, unless a newer run has started.  A step ends its overlay.
Say(w, r, msgs) ==
  IF ~live(w, r) THEN [w EXCEPT !.run[r].quiet = TRUE]
  ELSE [w EXCEPT !.thread = IF w.open THEN @ \o msgs ELSE @,
                 !.overlay = IF @ = r /\ \E i \in DOMAIN msgs : msgs[i].k = "step" THEN 0 ELSE @]

\* patchCall
Patch(w, r, st) ==
  IF ~live(w, r) THEN w
  ELSE [w EXCEPT !.thread = [i \in DOMAIN @ |-> IF @[i].k = "step" /\ @[i].id = Call(w, r) THEN [@[i] EXCEPT !.st = st] ELSE @[i]]]

Results(w, r, st) == Say(Patch(w, r, st), r, <<Msg("results", Call(w, r), "none")>>)

onStatus(w, r, s) == IF running(w, r) THEN [w EXCEPT !.shown = s] ELSE w

\* runAgentLoop returned, and the finally of startAgentRun.
Finish(w, r) ==
  LET over == [w EXCEPT !.run[r] = [Idle EXCEPT !.at = "over", !.token = w.run[r].token, !.aborted = w.run[r].aborted, !.quiet = w.run[r].quiet]]
  IN IF live(w, r) THEN [over EXCEPT !.active = 0, !.approval = 0, !.card = NoCall, !.shown = "none", !.overlay = 0] ELSE over

\* The head of the loop: a step is asked of the model.
NextStep(w, r) ==
  IF w.run[r].step = MAX_STEPS \/ w.run[r].aborted \/ ~w.open THEN Finish(w, r)
  ELSE [onStatus(w, r, "running") EXCEPT
          !.run[r] = [w.run[r] EXCEPT !.step = @ + 1, !.at = "model", !.kind = "none", !.ask = FALSE,
                                      !.op = "none", !.saw = NoCall, !.prev = Missing, !.now = Missing],
          !.overlay = r]

\* The foot of it: the results are sent back, and the run goes on or has come to nothing twice.
Settled(w, r, st, counted, stuck) ==
  LET e  == IF counted THEN 0 ELSE w.run[r].empties + 1
      w1 == [Results(w, r, st) EXCEPT !.run[r].empties = e]
  IN IF stuck \/ e >= 2 THEN Finish(w1, r) ELSE NextStep(w1, r)

Dispatch(w, r) == [Patch(w, r, "running") EXCEPT !.run[r].at = "running", !.run[r].op = "sent"]

\* requestApproval: a run that is no longer the one running is told to stop.
Ask(w, r) ==
  LET w1 == onStatus(Patch(w, r, "awaiting"), r, "awaiting")
  IN IF ~running(w, r) THEN Settled(w1, r, "denied", FALSE, FALSE)
     ELSE [w1 EXCEPT !.run[r].at = "asking", !.approval = r, !.card = Call(w, r)]

approvalFor(k, policy, allowed) ==
  CASE k = "read" -> "auto"
    [] k # "read" /\ policy = "read_only" -> "refuse"
    [] ToolKind(k) = "edit" /\ policy # "read_only" -> IF policy = "ask" /\ "edit" \notin allowed THEN "ask" ELSE "auto"
    [] k = "command" /\ policy # "read_only" -> IF policy = "full_auto" \/ "command" \in allowed THEN "auto" ELSE "ask"

\* prepareCall up to its first await: an edit reads the file, a write only to be approved.
Prepare(w, r, k, a) ==
  LET w1 == [w EXCEPT !.run[r].kind = k, !.run[r].ask = (a = "ask")]
  IN CASE a = "refuse" -> Settled(w1, r, "error", FALSE, FALSE)
       [] a # "refuse" /\ (k = "edit" \/ (k = "write" /\ a = "ask")) -> [w1 EXCEPT !.run[r].at = "preparing"]
       [] k = "command" /\ a = "ask" -> Ask(w1, r)
       [] OTHER -> Dispatch(w1, r)

\* A reply with a call.  The same read or command again and again is answered, not run.
Called(w, r, k) ==
  LET same == k = w.run[r].last /\ k \in {"read", "command"}
      n    == IF same THEN w.run[r].repeats + 1 ELSE 1
      w1   == [Say(w, r, <<Msg("step", Call(w, r), "pending")>>) EXCEPT !.run[r].last = k, !.run[r].repeats = n]
  IN IF n >= REPEAT_WARN THEN Settled(w1, r, "error", FALSE, n >= REPEAT_STOP)
     ELSE Prepare(w1, r, k, approvalFor(k, w.policy, w.allowed))

\* A call that broke off is answered too.
CutOff(w, r) == Settled(Say(w, r, <<Msg("step", Call(w, r), "pending")>>), r, "error", FALSE, FALSE)

\* Mutant: what a stopped reply called is not answered.
EndsUnanswered(w, r, st) == Finish(Say(w, r, <<Msg("step", IF st = "none" THEN NoCall ELSE Call(w, r), st)>>), r)

\* A reply that ends the run: the answer, an error, or a stop; what it called is not run.
Ends(w, r, st) ==
  LET step == <<Msg("step", IF st = "none" THEN NoCall ELSE Call(w, r), st)>>
  IN Finish(Say(w, r, IF st = "none" THEN step ELSE Append(step, Msg("results", Call(w, r), "none"))), r)

\* A reply of nothing: said once.
Empty(w, r) ==
  LET e  == w.run[r].empties + 1
      w1 == [Say(w, r, <<Msg("step", NoCall, "none")>>) EXCEPT !.run[r].empties = e]
  IN IF e >= 2 THEN Finish(w1, r) ELSE NextStep(Say(w1, r, <<Msg("note", NoCall, "none")>>), r)

\* stopAgentRun; an answer to the card, and the end of a stream or of a command, follow.
Abort(w) ==
  IF w.active = 0 THEN w
  ELSE [w EXCEPT !.run[w.active].aborted = TRUE, !.shown = "none", !.card = NoCall, !.approval = IF @ = w.active THEN 0 ELSE @]

\* had: the reply had begun a call.
Unwind(w, r, had) ==
  CASE r = 0 -> w
    [] r # 0 /\ w.run[r].at = "model"  -> Ends(w, r, IF had THEN "denied" ELSE "none")
    [] r # 0 /\ w.run[r].at = "asking" -> Settled(w, r, "denied", FALSE, FALSE)
    [] r # 0 /\ w.run[r].at = "running" /\ w.run[r].kind = "command" -> Settled(w, r, "error", TRUE, FALSE)
    [] OTHER -> w
-----------------------------------------------------------------------------
(* The run's steps. *)

\* A run is in the window's hands: it is what awaits, and answers do not reach a window that is gone.
Quiet == UNCHANGED <<disk, panel, took, needed, approved, late, cut, forgotten, left>>

\* A call begins to run the moment it is sent; a file's changes are the runtime's to make.
Sent(w) ==
  LET began == {r \in Runs : w.run[r].op = "sent" /\ w.run[r].kind = "command" /\ Call(w, r) \notin took}
  IN took' = took \cup {Call(w, r) : r \in began}

\* startAgentRun up to its await.
Begin(w, r) == [w EXCEPT !.run[r].at = IF w.active # 0 /\ ~w.run[w.active].aborted THEN "over" ELSE "opening"]
IsNext(r) == r <= left.sends /\ window.run[r].at = "off" /\ \A q \in 1..(r - 1) : window.run[q].at # "off"

OpenFailed(r) ==
  /\ window.run[r].at = "opening"
  /\ window' = [window EXCEPT !.run[r].at = "over"]
  /\ Quiet

\* An edit that may be made, or was, and is not on the list yet.
ChangeInHand(w, q) == w.run[q].at \in Waiting /\ ToolKind(w.run[q].kind) = "edit"

\* Mutant: whether another run began while the folder was opened is not asked again.
StillFreeUnasked(w) == TRUE

StillFree(w) == w.active = 0 \/ w.run[w.active].aborted

\* The folder is open.  The calls a closed window left are settled, the message joins the thread.
Opened(r) ==
  LET w == window
      token == w.latest + 1
      started == [w EXCEPT !.latest = token, !.active = r, !.card = NoCall, !.shown = "running", !.run[r].token = token,
                           !.thread = IF ~w.open THEN @ ELSE
                             Append([i \in DOMAIN @ |-> IF @[i].st \in Unsettled THEN [@[i] EXCEPT !.st = "error"] ELSE @[i]],
                                    Msg("user", <<r, 0>>, "none"))]
  IN /\ w.run[r].at = "opening"
     /\ IF StillFree(w) THEN window' = NextStep(started, r) ELSE window' = [w EXCEPT !.run[r].at = "over"]
     /\ forgotten' = (forgotten \/ panel.at # "none" \/ \E q \in Runs : ChangeInHand(w, q))
     /\ cut' = (cut \/ panel.at # "none")
     /\ UNCHANGED <<disk, panel, took, needed, approved, late, left>>

\* The model's answer, or the end of its stream.
Reply(r) ==
  /\ window.run[r].at = "model" /\ left.replies > 0
  /\ left' = [left EXCEPT !.replies = @ - 1]
  /\ \/ \E w \in {Ends(window, r, "none"), Ends(window, r, "error"), Empty(window, r), CutOff(window, r)} :
          window' = w /\ needed' = needed
     \/ \E k \in Kinds \cap left.kinds :
          /\ window' = Called(window, r, k)
          /\ needed' = IF window'.run[r].ask THEN needed \cup {Call(window, r)} ELSE needed
  /\ Sent(window')
  /\ UNCHANGED <<disk, panel, approved, late, cut, forgotten>>

\* The file was read: the edit cannot be made, or can (the signal is not looked at), or is asked about.
Prepared(r) ==
  LET w == [window EXCEPT !.run[r].saw = disk.agent]
  IN /\ w.run[r].at = "preparing"
     /\ \/ w.run[r].kind = "edit" /\ window' = Settled(w, r, "error", FALSE, FALSE)
        \/ /\ w.run[r].kind = "write" \/ disk.there
           /\ window' = IF w.run[r].ask THEN Ask(w, r) ELSE Dispatch(w, r)
     /\ Quiet

\* The runtime carries the call out; an edit only where its old text still is.
Serve(r) ==
  LET c == Call(window, r)
      made == CASE window.run[r].kind = "edit"  -> [disk EXCEPT !.agent = c]
                [] window.run[r].kind = "write" -> Text(c, 0)
                [] OTHER -> disk
      works == window.run[r].kind = "edit" => disk.there /\ disk.agent = window.run[r].saw
  IN /\ window.run[r].op = "sent"
     /\ window' = [window EXCEPT !.run[r].op = IF works THEN "done" ELSE "failed",
                                 !.run[r].prev = IF works THEN disk ELSE @, !.run[r].now = IF works THEN made ELSE @]
     /\ disk' = IF works THEN made ELSE disk
     /\ took' = IF works THEN took \cup {c} ELSE took
     /\ late' = IF window.run[r].aborted /\ window.run[r].kind \in {"edit", "write"} THEN [late EXCEPT ![r] = @ + 1] ELSE late
     /\ UNCHANGED <<panel, needed, approved, cut, forgotten, left>>

\* The list keeps the first original of a file, and drops one that is as it started.
recordChange(changes, prev, now) ==
  IF changes # {}
  THEN {[e EXCEPT !.current = now] : e \in {x \in changes : ~x.original.there \/ x.original # now}}
  ELSE IF prev = now THEN {} ELSE {[original |-> prev, current |-> now]}

\* Its answer arrives; or is lost on the way.
Arrive(r) ==
  LET w == window
      wrote == w.run[r].op = "done" /\ w.run[r].kind \in {"edit", "write"}
      listed == [w EXCEPT !.changes = IF live(w, r) /\ w.open THEN recordChange(@, w.run[r].prev, w.run[r].now) ELSE @]
  IN /\ w.run[r].at = "running" /\ w.run[r].op \in {"done", "failed"}
     /\ \/ /\ window' = Settled(IF wrote THEN listed ELSE w, r, IF w.run[r].op = "done" THEN "done" ELSE "error", TRUE, FALSE)
           /\ forgotten' = (forgotten \/ (wrote /\ ~live(w, r)))
           /\ left' = left
        \/ /\ wrote /\ left.losses > 0
           /\ window' = Settled(w, r, "error", TRUE, FALSE)
           /\ forgotten' = TRUE
           /\ left' = [left EXCEPT !.losses = @ - 1]
     /\ UNCHANGED <<disk, panel, took, needed, approved, late, cut>>
-----------------------------------------------------------------------------
(* The person. *)

\* The composer is free while nothing runs here.
Send(r) ==
  /\ IsNext(r) /\ window.open /\ window.shown = "none" /\ window.overlay = 0
  /\ window' = Begin(window, r)
  /\ Quiet

\* A message of the person's again: what runs is stopped, the message and all after it go.
Retry(r, i) ==
  LET w == window
      stopped == IF w.shown = "none" THEN w ELSE Abort(w)
  IN /\ IsNext(r) /\ w.open /\ i \in DOMAIN w.thread /\ w.thread[i].k = "user" /\ left.retries > 0
     /\ \E had \in BOOLEAN :
          window' = Unwind(Begin([stopped EXCEPT !.thread = SubSeq(@, 1, i - 1)], r), IF w.shown = "none" THEN 0 ELSE w.active, had)
     /\ cut' = (cut \/ w.active # 0)
     /\ left' = [left EXCEPT !.retries = @ - 1]
     /\ UNCHANGED <<disk, panel, took, needed, approved, late, forgotten>>

Stop ==
  /\ window.shown # "none"
  /\ \E had \in BOOLEAN : window' = Unwind(Abort(window), window.active, had)
  /\ Quiet

resolveApproval(d) ==
  LET r == window.approval
      w == [window EXCEPT !.approval = 0, !.card = NoCall]
      told == onStatus(w, r, "running")
      kept == [told EXCEPT !.allowed = IF d = "always" THEN @ \cup {ToolKind(w.run[r].kind)} ELSE @]
  IN /\ r # 0
     /\ window' = IF d = "deny" THEN Settled(told, r, "denied", TRUE, FALSE) ELSE Dispatch(kept, r)
     /\ approved' = IF d = "deny" THEN approved ELSE approved \cup {Call(window, r)}
     /\ Sent(window')
     /\ UNCHANGED <<disk, panel, needed, late, cut, forgotten, left>>

SetPolicy(p) ==
  /\ left.policies > 0 /\ p # window.policy
  /\ window' = [window EXCEPT !.policy = p]
  /\ left' = [left EXCEPT !.policies = @ - 1]
  /\ UNCHANGED <<disk, panel, took, needed, approved, late, cut, forgotten>>

\* Clearing ends the stream, not the run.
Clear ==
  /\ window.open /\ window.thread # <<>> /\ left.clears > 0
  /\ \E had \in BOOLEAN : window' = Unwind([window EXCEPT !.thread = <<>>, !.changes = {}], window.overlay, had)
  /\ cut' = (cut \/ window.active # 0) /\ forgotten' = TRUE
  /\ left' = [left EXCEPT !.clears = @ - 1]
  /\ UNCHANGED <<disk, panel, took, needed, approved, late>>

Delete ==
  /\ window.open /\ left.clears > 0
  /\ window' = Unwind([(IF window.shown = "none" THEN window ELSE Abort(window)) EXCEPT !.open = FALSE, !.thread = <<>>, !.changes = {}],
                      IF window.shown = "none" THEN 0 ELSE window.active, FALSE)
  /\ forgotten' = TRUE
  /\ left' = [left EXCEPT !.clears = @ - 1]
  /\ UNCHANGED <<disk, panel, took, needed, approved, late, cut>>

\* The thread and its list are kept; what a run asked of the runtime may still be carried out.
Reload ==
  LET gone(x) == IF x.at = "off" THEN x
                 ELSE IF x.op = "sent" /\ x.kind \in {"edit", "write"} THEN [x EXCEPT !.at = "over", !.token = 0] ELSE [Idle EXCEPT !.at = "over"]
  IN /\ left.reloads > 0
     /\ window' = [window EXCEPT !.run = [r \in Runs |-> gone(@[r])], !.latest = 0, !.active = 0, !.approval = 0,
                                 !.card = NoCall, !.shown = "none", !.overlay = 0, !.allowed = {}]
     /\ panel' = IF panel.at = "write" THEN [panel EXCEPT !.at = "orphan"] ELSE NoRevert
     /\ forgotten' = (forgotten \/ panel.at # "none" \/ \E r \in Runs : window.run[r].op \in {"sent", "done"} /\ window.run[r].kind \in {"edit", "write"})
     /\ left' = [left EXCEPT !.reloads = @ - 1]
     /\ UNCHANGED <<disk, took, needed, approved, late, cut>>
-----------------------------------------------------------------------------
(* The Changes panel, and everybody else. *)

Revert(e, force) ==
  /\ panel.at = "none" /\ e \in window.changes /\ window.shown = "none" /\ left.reverts > 0
  /\ panel' = [at |-> "read", force |-> force, note |-> window.thread # <<>>, original |-> e.original, current |-> e.current]
  /\ left' = [left EXCEPT !.reverts = @ - 1]
  /\ forgotten' = (forgotten \/ window.active # 0)
  /\ cut' = (cut \/ window.active # 0)
  /\ UNCHANGED <<window, disk, took, needed, approved, late>>

\* Only what the agent left is put back, unless the person insists.
RevertRead ==
  /\ panel.at = "read"
  /\ panel' = CASE ~panel.force /\ disk # panel.current -> NoRevert
                [] (panel.force \/ disk = panel.current) /\ ~panel.original.there /\ ~disk.there -> [panel EXCEPT !.at = "wrote"]
                [] OTHER -> [panel EXCEPT !.at = "write"]
  /\ UNCHANGED <<window, disk, ghosts, left>>

RevertWrite ==
  /\ panel.at \in {"write", "orphan"}
  /\ disk' = panel.original
  /\ panel' = IF panel.at = "write" THEN [panel EXCEPT !.at = "wrote"] ELSE NoRevert
  /\ UNCHANGED <<window, ghosts, left>>

RevertDone ==
  /\ panel.at = "wrote"
  /\ window' = [window EXCEPT !.changes = {}, !.thread = IF panel.note /\ window.open THEN Append(@, Msg("note", NoCall, "none")) ELSE @]
  /\ panel' = NoRevert
  /\ UNCHANGED <<disk, ghosts, left>>

Keep ==
  /\ window.changes # {} /\ left.reverts > 0
  /\ window' = [window EXCEPT !.changes = {}]
  /\ left' = [left EXCEPT !.reverts = @ - 1]
  /\ forgotten' = TRUE
  /\ UNCHANGED <<disk, panel, took, needed, approved, late, cut>>

Others ==
  /\ disk.there /\ left.others > 0
  /\ disk' = [disk EXCEPT !.other = @ + 1]
  /\ left' = [left EXCEPT !.others = @ - 1]
  /\ UNCHANGED <<window, panel, ghosts>>

\* What comes by itself: the folder, the model's answers, the runtime's.
Progress(r) == OpenFailed(r) \/ Opened(r) \/ Reply(r) \/ Prepared(r) \/ Serve(r) \/ Arrive(r)

Person ==
  \/ \E r \in Runs : Send(r) \/ \E i \in DOMAIN window.thread : Retry(r, i)
  \/ Stop \/ \E d \in {"approve", "always", "deny"} : resolveApproval(d)
  \/ \E p \in Policies : SetPolicy(p)
  \/ Clear \/ Delete \/ Reload \/ Keep \/ \E e \in window.changes, f \in BOOLEAN : Revert(e, f)

Next ==
  \/ \E r \in Runs : Progress(r)
  \/ Person \/ RevertRead \/ RevertWrite \/ RevertDone \/ Others

Spec == Init /\ [][Next]_vars
-----------------------------------------------------------------------------
Texts == {Missing} \cup [there: {TRUE}, agent: {NoCall} \cup Calls, other: Nat]

TypeOK ==
  /\ window.thread \in Seq([k: {"user", "step", "results", "note"}, id: Runs \X (0..MAX_STEPS) \cup {NoCall},
                            st: Unsettled \cup {"none", "done", "error", "denied"}])
  /\ window.changes \subseteq [original: Texts, current: Texts] /\ Cardinality(window.changes) <= 1
  /\ window.latest \in 0..MaxRuns /\ {window.active, window.approval, window.overlay} \subseteq 0..MaxRuns
  /\ window.shown \in {"none", "running", "awaiting"} /\ window.card \in {NoCall} \cup Calls
  /\ disk \in Texts /\ UNION {took, needed, approved} \subseteq Calls

\* One run at a time: of the runs under way all but one have been stopped (run.ts).
OneRun ==
  \A q, r \in Runs : (q # r /\ {window.run[q].at, window.run[r].at} \cap {"off", "opening", "over"} = {}) =>
    window.run[q].aborted \/ window.run[r].aborted

\* The card that is up is of the run that awaits it, and no run awaits an answer nobody can give.
CardIsAwaited ==
  /\ window.approval # 0 => window.run[window.approval].at = "asking" /\ window.card = Call(window, window.approval)
  /\ window.approval = 0 => window.card = NoCall
  /\ \A r \in Runs : window.run[r].at = "asking" => window.approval = r /\ window.shown = "awaiting"

\* The overlay is of a reply under way.
OverlayIsLive == window.overlay # 0 => window.run[window.overlay].at = "model"

\* Nothing the policy says to ask about runs before it is approved (tools.ts).
AskedFirst == took \cap needed \subseteq approved

\* After a stop a run asks nothing more of the model, and at most the edit in hand is made.
StopHolds == \A r \in Runs : late[r] <= 1 /\ (window.run[r].aborted => window.run[r].at \notin {"model", "asking"})

\* A step with a call is answered right after it, and before its run goes on; unless the run gave way to another, or the window closed.
Answered(i) ==
  \E j \in (i + 1)..Len(window.thread) :
    /\ window.thread[j].k = "results" /\ window.thread[j].id = window.thread[i].id
    /\ \A k \in (i + 1)..(j - 1) : window.thread[k].k = "note"

AnsweredInOrder ==
  \A i \in DOMAIN window.thread :
    LET m == window.thread[i]
        x == window.run[m.id[1]]
        gaveWay == x.quiet \/ x.token = 0 \/ (x.at # "over" /\ x.token # window.latest)
    IN (m.k = "step" /\ m.id # NoCall /\ ~gaveWay) =>
         IF m.st \in Unsettled THEN x.at \in Waiting /\ x.step = m.id[2] ELSE cut \/ Answered(i)

\* What the thread says of a call is so: one that is done took place, one that was not run did not.
ToldTrue ==
  \A i \in DOMAIN window.thread :
    LET m == window.thread[i]
    IN m.k = "step" /\ m.id # NoCall =>
         /\ m.st = "done" => m.id \in took
         /\ m.st = "denied" => m.id \notin took

\* A file that is as the agent left it is on the list, with the text from before the agent's first change.
ChangesAreTracked ==
  ~forgotten =>
    /\ \A e \in window.changes : e.original.agent = NoCall
    /\ disk.agent # NoCall => \/ \E r \in Runs : window.run[r].op = "done" /\ window.run[r].now.agent = disk.agent
                              \/ \E e \in window.changes : e.current.agent = disk.agent

AgentSafe ==
  /\ TypeOK /\ OneRun /\ CardIsAwaited /\ OverlayIsLive
  /\ AskedFirst /\ StopHolds /\ AnsweredInOrder /\ ToldTrue /\ ChangesAreTracked

\* Retry stops and restarts in one go; the old run's last words must not land in the new thread (run.ts).
OldWordsStayOut ==
  \A i, j \in DOMAIN window.thread :
    (i < j /\ window.thread[i].k = "results" /\ window.thread[i].id # NoCall) =>
      \E h \in 1..(i - 1) : window.thread[h].k = "step" /\ window.thread[h].id = window.thread[i].id
=============================================================================
