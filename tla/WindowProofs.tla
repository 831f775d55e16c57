---------------------------- MODULE WindowProofs ----------------------------
(***************************************************************************)
(* What TLAPS proves of a window, as MCStudio has it: of its agent          *)
(* (AgentRun), from the lemmas of AgentProofs, and of its chat              *)
(* (ChatThreads), for any number of messages, steps, requests, threads,     *)
(* models and loads.                                                        *)
(*                                                                          *)
(* Both work on the window as a value, so the lemmas say what each part of  *)
(* a run, or of a request, makes of a window; an action is the parts it is  *)
(* made of.                                                                 *)
(***************************************************************************)
EXTENDS AgentProofs, FiniteSetTheorems, WellFoundedInduction

-----------------------------------------------------------------------------
(* The list. *)

\* A run that goes on, or begins, changes nothing of the file.
LEMMA TrackedOnward ==
  ASSUME NEW w, NEW d, NEW p, Tracked(w, d, p), NEW u, NEW r \in A!Runs, Onward(w, u, r), r = w.active \/ Idles(u, r), ~Made(w.run[r])
  PROVE  Tracked(u, d, p)
<1>1. /\ u.open = w.open /\ u.changes = w.changes /\ \A q \in A!Runs \ {r} : u.run[q] = w.run[q]
      /\ u.run[r].op \in {"none", "sent"}
      /\ u.active = w.active \/ (u.active = 0 /\ w.active = r /\ ~UnderWay(u.run[r]) /\ u.run[r].op = "none")
  BY DEF Onward
<1>2. ~Made(u.run[r]) BY <1>1 DEF Made
<1>3. ASSUME NEW q \in A!Runs, Writes(u.run[q]) PROVE q = u.active
  <2>1. CASE q # r
    <3>1. q = w.active BY <1>1, <1>3, <2>1 DEF Tracked
    <3> QED BY <1>1, <2>1, <3>1
  <2>2. CASE q = r
    <3>1. ~Idles(u, r) BY <1>3, <2>2 DEF Idles, Writes
    <3>2. ~(~UnderWay(u.run[r]) /\ u.run[r].op = "none") BY <1>3, <2>2 DEF Writes, UnderWay, Going, A!Waiting
    <3> QED BY <1>1, <2>2, <3>1, <3>2
  <2> QED BY <2>1, <2>2
<1>4. \A q \in A!Runs : Made(u.run[q]) => Made(w.run[q]) /\ u.run[q] = w.run[q] /\ A!Call(u, q) = A!Call(w, q) BY <1>1, <1>2 DEF A!Call
<1>5. \A q \in A!Runs : Made(w.run[q]) => Made(u.run[q]) BY <1>1
<1>6. p.at # "none" => u.active = 0 BY <1>1 DEF Tracked
<1> QED BY <1>1, <1>3, <1>4, <1>5, <1>6 DEF Tracked

\* The list is as true when a run leaves with nothing made,
LEMMA TrackedLeaves ==
  ASSUME NEW w \in Windows, NEW d, NEW p, Tracked(w, d, p), NEW u, NEW r \in A!Runs, Leaves(u, w, r)
  PROVE  Tracked(u, d, p)
<1>1. PICK x \in Records : x = w.run[r] BY PutSame
<1>2. u.run[r] = Stopped(x) /\ u.open = w.open /\ u.changes = w.changes /\ u.active = w.active /\ \A q \in A!Runs \ {r} : u.run[q] = w.run[q]
  BY <1>1 DEF Leaves
<1>3. PICK y : y = Stopped(x) OBVIOUS
<1>4. y.step = x.step /\ y.at = x.at /\ y.kind = x.kind /\ y.op = x.op /\ y.prev = x.prev /\ y.now = x.now BY <1>3, StoppedIs
<1>5. \A q \in A!Runs : /\ Made(u.run[q]) <=> Made(w.run[q])
                        /\ Writes(u.run[q]) <=> Writes(w.run[q])
                        /\ A!Call(u, q) = A!Call(w, q) /\ u.run[q].now = w.run[q].now /\ u.run[q].prev = w.run[q].prev
  BY <1>1, <1>2, <1>3, <1>4 DEF Made, Writes, A!Call
<1> QED BY <1>2, <1>5 DEF Tracked

\* when one is stopped,
LEMMA TrackedHalts ==
  ASSUME NEW w \in Windows, NEW d, NEW p, Tracked(w, d, p), NEW u, Halts(w, u)
  PROVE  Tracked(u, d, p)
<1>1. CASE u = w BY <1>1
<1>2. CASE \E r \in A!Runs : r = w.active /\ ((Onward(w, u, r) /\ ~Made(w.run[r])) \/ Leaves(u, w, r))
  BY <1>2, TrackedOnward, TrackedLeaves
<1> QED BY <1>1, <1>2 DEF Halts

\* and when nothing of runs and list moves.
LEMMA TrackedSame ==
  ASSUME NEW w, NEW d, NEW p, Tracked(w, d, p), NEW u, u.run = w.run, u.active = w.active, u.open = w.open, u.changes = w.changes
  PROVE  Tracked(u, d, p)
<1>1. \A q : A!Call(u, q) = A!Call(w, q) BY DEF A!Call
<1> QED BY <1>1 DEF Tracked

\* No change is in hand when the folder is opened.
LEMMA TrackedOpens ==
  ASSUME Limits, NEW tk, NEW nd, NEW ap, NEW lt, NEW ct, NEW w, Sound(w, tk, nd, ap, lt, ct), NEW d, NEW p, Tracked(w, d, p),
         NEW r \in A!Runs, NEW u, u.open = w.open, u.changes = w.changes, \A q \in A!Runs \ {r} : u.run[q] = w.run[q], Idles(u, r),
         w.run[r].at = "opening", p.at = "none", \A q \in A!Runs : ~A!ChangeInHand(w, q)
  PROVE  Tracked(u, d, p)
<1>1. ASSUME NEW q \in A!Runs PROVE ~Writes(w.run[q])
  <2>1. SUFFICES ASSUME Writes(w.run[q]) PROVE FALSE OBVIOUS
  <2>2. q = w.active /\ q # 0 BY <2>1 DEF Tracked, A!Runs
  <2>3. UnderWay(w.run[q]) BY <2>2 DEF Sound, Heads
  <2>4. Placed(w.run[q], q, w.latest, w.active) BY DEF Sound
  <2>5. w.run[q].at \in A!Waiting BY <2>1, <2>3, <2>4 DEF Writes, Placed, A!Waiting, UnderWay, Going
  <2>6. A!ToolKind(w.run[q].kind) = "edit" BY <2>1 DEF Writes, A!ToolKind
  <2> QED BY <2>5, <2>6 DEF A!ChangeInHand
<1>2. \A q \in A!Runs : ~Made(w.run[q]) BY <1>1 DEF Made, Writes
<1>3. ASSUME NEW q \in A!Runs PROVE ~Writes(u.run[q]) /\ ~Made(u.run[q])
  <2>1. CASE q = r BY <2>1 DEF Idles, Writes, Made
  <2>2. CASE q # r BY <1>1, <1>2, <2>2
  <2> QED BY <2>1, <2>2
<1> QED BY <1>2, <1>3 DEF Tracked

\* The runtime makes a change: of the run there is.
LEMMA TrackedServes ==
  ASSUME NEW w, NEW d, NEW p, Tracked(w, d, p), NEW r \in A!Runs, w.run[r].op = "sent", w.run[r].kind \in A!Kinds,
         NEW u, u.open = w.open, u.changes = w.changes, u.active = w.active, \A q \in A!Runs \ {r} : u.run[q] = w.run[q],
         NEW e, Outcome(u.run[r], w.run[r], d, e, A!Call(w, r))
  PROVE  Tracked(u, e, p)
<1>1. /\ u.run[r].step = w.run[r].step /\ u.run[r].at = w.run[r].at /\ u.run[r].kind = w.run[r].kind /\ u.run[r].op \in {"done", "failed"}
      /\ u.run[r].op = "done" => u.run[r].prev = d /\ u.run[r].now = e
      /\ u.run[r].op # "done" => e = d
      /\ w.run[r].kind \in {"edit", "write"} /\ u.run[r].op = "done" => e.agent = A!Call(w, r)
      /\ w.run[r].kind \notin {"edit", "write"} => e = d
  BY DEF Outcome, Served, Akin
<1>2. \A q \in A!Runs : A!Call(u, q) = A!Call(w, q) BY <1>1 DEF A!Call
<1>3. ~Made(w.run[r]) BY DEF Made
<1>4. \A q \in A!Runs : Writes(u.run[q]) => Writes(w.run[q]) BY <1>1 DEF Writes
<1>5. r # 0 /\ (\A q \in A!Runs : Made(w.run[q]) => Writes(w.run[q])) BY DEF A!Runs, Made, Writes
<1>6. CASE w.run[r].kind \in {"edit", "write"} /\ u.run[r].op = "done"
  <2>1. Writes(w.run[r]) /\ r = w.active BY <1>6 DEF Writes, Tracked
  <2>2. \A q \in A!Runs : Made(u.run[q]) <=> q = r BY <1>1, <1>3, <1>5, <1>6, <2>1 DEF Made, Tracked
  <2>3. \A q \in A!Runs : ~Made(w.run[q]) BY <1>3, <1>5, <2>1 DEF Tracked
  <2>4. w.changes = {} => d.agent = A!NoCall BY <2>3 DEF Tracked
  <2>5. p.at = "none" BY <1>5, <2>1 DEF Tracked
  <2> QED BY <1>1, <1>2, <1>4, <1>6, <2>1, <2>2, <2>4, <2>5 DEF Tracked
<1>7. CASE ~(w.run[r].kind \in {"edit", "write"} /\ u.run[r].op = "done")
  <2>1. ~Made(u.run[r]) /\ e = d BY <1>1, <1>7 DEF Made
  <2>2. \A q \in A!Runs : Made(u.run[q]) <=> Made(w.run[q]) BY <1>3, <2>1
  <2>3. \A q \in A!Runs : Made(u.run[q]) => u.run[q] = w.run[q] BY <2>1
  <2> QED BY <1>2, <1>4, <2>1, <2>2, <2>3 DEF Tracked
<1> QED BY <1>6, <1>7

\* A change's answer arrives: the change goes to the list.
LEMMA TrackedArrives ==
  ASSUME NEW w \in Windows, NEW d, NEW p, Tracked(w, d, p), NEW r \in A!Runs, Made(w.run[r]),
         NEW v, v.run = w.run, v.open = w.open, v.active = w.active, Recorded(v.changes, w.changes, w.run[r].prev, w.run[r].now),
         NEW u, Onward(v, u, r), Rests(u, r)
  PROVE  Tracked(u, d, p)
<1>1. /\ u.open = w.open /\ u.changes = v.changes /\ \A q \in A!Runs \ {r} : u.run[q] = w.run[q]
      /\ u.active = w.active \/ (u.active = 0 /\ w.active = r)
  BY DEF Onward
<1>2. r = w.active /\ r # 0 /\ p.at = "none" BY DEF Tracked, Made, Writes, A!Runs
<1>3. d.agent = A!Call(w, r) /\ w.run[r].now.agent = A!Call(w, r) /\ (w.changes = {} => w.run[r].prev.agent = A!NoCall) BY DEF Tracked
<1>4. A!Call(w, r) # A!NoCall BY <1>2 DEF A!Call, A!NoCall
<1>5. ASSUME NEW q \in A!Runs PROVE ~Writes(u.run[q]) /\ ~Made(u.run[q])
  <2>1. CASE q = r BY <2>1 DEF Rests, Writes, Made
  <2>2. CASE q # r
    <3>1. ~Writes(w.run[q]) BY <1>2, <2>2 DEF Tracked
    <3> QED BY <1>1, <2>2, <3>1 DEF Made, Writes
  <2> QED BY <2>1, <2>2
<1>6. \A e \in u.changes : e.original.agent = A!NoCall BY <1>1, <1>3 DEF Recorded, Tracked
<1>7. \E e \in u.changes : e.current.agent = d.agent
  <2>1. \A e \in u.changes : e.current.agent = d.agent BY <1>1, <1>3 DEF Recorded
  <2>2. u.changes # {}
    <3>1. CASE w.changes = {}
      <4>1. w.run[r].prev # w.run[r].now BY <1>3, <1>4, <3>1
      <4> QED BY <1>1, <3>1, <4>1 DEF Recorded
    <3>2. CASE w.changes # {}
      <4>1. PICK x \in w.changes : TRUE BY <3>2
      <4>2. x.original # w.run[r].now BY <1>3, <1>4, <4>1 DEF Tracked
      <4>3. PICK f : f = [x EXCEPT !.current = w.run[r].now] OBVIOUS
      <4>4. f \in v.changes BY <3>2, <4>1, <4>2, <4>3 DEF Recorded
      <4> QED BY <1>1, <4>4
    <3> QED BY <3>1, <3>2
  <2> QED BY <2>1, <2>2
<1> QED BY <1>1, <1>2, <1>5, <1>6, <1>7 DEF Tracked

\* There is still one entry at the most.
LEMMA RecordOne ==
  ASSUME NEW nc, NEW ch, NEW p, NEW n, Recorded(nc, ch, p, n), OneEntry(ch)
  PROVE  OneEntry(nc)
<1>1. CASE ch = {} BY <1>1 DEF Recorded, OneEntry
<1>2. CASE ch # {}
  <2>1. SUFFICES ASSUME NEW e \in nc, NEW f \in nc PROVE e = f BY DEF OneEntry
  <2>2. PICK x \in ch : e = [x EXCEPT !.current = n] BY <1>2 DEF Recorded
  <2>3. PICK y \in ch : f = [y EXCEPT !.current = n] BY <1>2 DEF Recorded
  <2>4. x = y BY DEF OneEntry
  <2> QED BY <2>2, <2>3, <2>4
<1> QED BY <1>1, <1>2

\* The call that a run is at.
LEMMA CallOf ==
  ASSUME Limits, NEW w \in Windows, NEW r \in A!Runs, w.run[r].step # 0
  PROVE  A!Call(w, r) \in A!Calls
<1>1. w.run[r].step \in 0..MAX_STEPS /\ MAX_STEPS \in Nat BY TokensOf
<1>2. w.run[r].step \in 1..MAX_STEPS BY <1>1
<1> QED BY <1>2 DEF A!Call, A!Calls

\* The commands that begin are calls.
LEMMA SentOf ==
  ASSUME Limits, NEW tk, NEW nd, NEW ap, NEW lt, NEW ct, NEW u, Sound(u, tk, nd, ap, lt, ct), NEW t, t \subseteq A!Calls
  PROVE  t \cup {A!Call(u, q) : q \in {p \in A!Runs : u.run[p].op = "sent" /\ u.run[p].kind = "command" /\ A!Call(u, p) \notin t}} \subseteq A!Calls
<1>1. SUFFICES ASSUME NEW q \in A!Runs, u.run[q].op = "sent" PROVE A!Call(u, q) \in A!Calls OBVIOUS
<1>2. u \in Windows /\ Placed(u.run[q], q, u.latest, u.active) BY DEF Sound
<1>3. u.run[q].step # 0 BY <1>1, <1>2 DEF Placed
<1> QED BY <1>2, <1>3, CallOf

-----------------------------------------------------------------------------
(* Every step keeps the invariant. *)

\* What a run that awaits its answer is.
LEMMA AwaitsIs ==
  ASSUME Limits, NEW tk, NEW nd, NEW ap, NEW lt, NEW ct, NEW w, Sound(w, tk, nd, ap, lt, ct), NEW r \in A!Runs,
         w.run[r].at \in {"model", "preparing", "asking"}
  PROVE  /\ w.run[r].step # 0 /\ ~Made(w.run[r])
         /\ w.run[r].at = "model" => r = w.active
         /\ w.run[r].at = "preparing" => Writes(w.run[r])
<1>1. Placed(w.run[r], r, w.latest, w.active) /\ UnderWay(w.run[r]) BY DEF Sound, UnderWay, Going
<1> QED BY <1>1 DEF Placed, Made, Writes, A!Waiting

\* A step in the window leaves the rest alone.
LEMMA Quieted ==
  ASSUME Plain, A!Quiet
  PROVE  Plain' /\ project' = project /\ panel' = panel /\ forgotten' = forgotten
BY DEF Plain, A!Quiet

\* The folder cannot be opened.
LEMMA OpenFailedKeeps ==
  ASSUME Limits, AgentInv, NEW r \in A!Runs, A!OpenFailed(r)
  PROVE  AgentInv'
<1>1. A!Quiet /\ Whole /\ Plain /\ OneEntry(window.changes) /\ Listed BY DEF AgentInv, A!OpenFailed
<1>2. Whole' /\ Onward(window, window', r) /\ Idles(window', r) /\ ~Made(window.run[r]) BY <1>1, OpenFailedIs
<1>3. Plain' /\ project' = project /\ panel' = panel /\ forgotten' = forgotten BY <1>1, Quieted
<1>4. window'.changes = window.changes BY <1>2 DEF Onward
<1>5. ~forgotten => Tracked(window', project, panel)
  <2>1. SUFFICES ASSUME ~forgotten PROVE Tracked(window', project, panel) OBVIOUS
  <2>2. Tracked(window, project, panel) BY <1>1, <2>1 DEF Listed
  <2> QED BY <1>2, <2>2, TrackedOnward
<1> QED BY <1>1, <1>2, <1>3, <1>4, <1>5 DEF AgentInv, Listed, OneEntry

\* A message is sent.
LEMMA SendKeeps ==
  ASSUME Limits, AgentInv, NEW r \in A!Runs, A!Send(r)
  PROVE  AgentInv'
<1>1. A!Quiet /\ Whole /\ Plain /\ OneEntry(window.changes) /\ Listed BY DEF AgentInv, A!Send
<1>2. Whole' /\ Onward(window, window', r) /\ Idles(window', r) /\ ~Made(window.run[r]) BY <1>1, SendIs
<1>3. Plain' /\ project' = project /\ panel' = panel /\ forgotten' = forgotten BY <1>1, Quieted
<1>4. window'.changes = window.changes BY <1>2 DEF Onward
<1>5. ~forgotten => Tracked(window', project, panel)
  <2>1. SUFFICES ASSUME ~forgotten PROVE Tracked(window', project, panel) OBVIOUS
  <2>2. Tracked(window, project, panel) BY <1>1, <2>1 DEF Listed
  <2> QED BY <1>2, <2>2, TrackedOnward
<1> QED BY <1>1, <1>2, <1>3, <1>4, <1>5 DEF AgentInv, Listed, OneEntry

\* The file was read.
LEMMA PreparedKeeps ==
  ASSUME Limits, AgentInv, NEW r \in A!Runs, A!Prepared(r)
  PROVE  AgentInv'
<1>1. A!Quiet /\ Whole /\ Plain /\ OneEntry(window.changes) /\ Listed /\ project \in A!Texts BY DEF AgentInv, A!Prepared, Plain
<1>2. Whole' /\ Onward(window, window', r) BY <1>1, PreparedIs
<1>3. Plain' /\ project' = project /\ panel' = panel /\ forgotten' = forgotten BY <1>1, Quieted
<1>4. window'.changes = window.changes BY <1>2 DEF Onward
<1>5. window.run[r].at = "preparing"
  <2>1. PICK w : w = [window EXCEPT !.run[r].saw = project.agent] /\ w.run[r].at = "preparing" BY DEF A!Prepared
  <2>2. window.run[r] \in Records /\ window \in Windows BY <1>1 DEF Whole, Sound, Windows
  <2> QED BY <2>1, <2>2 DEF Windows, Records
<1>6. ~Made(window.run[r]) /\ Writes(window.run[r]) BY <1>1, <1>5, AwaitsIs DEF Whole
<1>7. ~forgotten => Tracked(window', project, panel)
  <2>1. SUFFICES ASSUME ~forgotten PROVE Tracked(window', project, panel) OBVIOUS
  <2>2. Tracked(window, project, panel) BY <1>1, <2>1 DEF Listed
  <2>3. r = window.active BY <1>6, <2>2 DEF Tracked
  <2> QED BY <1>2, <1>6, <2>2, <2>3, TrackedOnward
<1> QED BY <1>1, <1>2, <1>3, <1>4, <1>7 DEF AgentInv, Listed, OneEntry

\* The person stops the run.
LEMMA StopKeeps ==
  ASSUME Limits, AgentInv, A!Stop
  PROVE  AgentInv'
<1>1. A!Quiet /\ Whole /\ Plain /\ OneEntry(window.changes) /\ Listed /\ window \in Windows BY DEF AgentInv, A!Stop, Whole, Sound
<1>2. Whole' /\ Halts(window, window') BY <1>1, StopIs
<1>3. Plain' /\ project' = project /\ panel' = panel /\ forgotten' = forgotten BY <1>1, Quieted
<1>4. window'.changes = window.changes BY <1>2 DEF Halts, Onward, Leaves
<1>5. ~forgotten => Tracked(window', project, panel)
  <2>1. SUFFICES ASSUME ~forgotten PROVE Tracked(window', project, panel) OBVIOUS
  <2>2. Tracked(window, project, panel) BY <1>1, <2>1 DEF Listed
  <2> QED BY <1>1, <1>2, <2>2, TrackedHalts
<1> QED BY <1>1, <1>2, <1>3, <1>4, <1>5 DEF AgentInv, Listed, OneEntry

\* The model answers.
LEMMA ReplyKeeps ==
  ASSUME Limits, AgentInv, NEW r \in A!Runs, A!Reply(r)
  PROVE  AgentInv'
<1>1. Whole /\ Plain /\ OneEntry(window.changes) /\ Listed /\ window.run[r].at = "model" /\ window \in Windows BY DEF AgentInv, A!Reply, Whole, Sound
<1>2. Whole' /\ Onward(window, window', r) BY <1>1, ReplyIs
<1>3. project' = project /\ panel' = panel /\ approved' = approved /\ late' = late /\ cut' = cut /\ forgotten' = forgotten BY DEF A!Reply
<1>4. window'.changes = window.changes BY <1>2 DEF Onward
<1>5. window.run[r].step # 0 /\ ~Made(window.run[r]) /\ r = window.active BY <1>1, AwaitsIs DEF Whole
<1>6. took' \subseteq A!Calls
  <2>1. PICK u : u = window' OBVIOUS
  <2>2. PICK t : t = took OBVIOUS
  <2>3. Sound(u, took', needed', approved', late', cut') /\ t \subseteq A!Calls BY <1>1, <1>2, <2>1, <2>2 DEF Whole, Plain
  <2>4. took' = t \cup {A!Call(u, q) : q \in {p \in A!Runs : u.run[p].op = "sent" /\ u.run[p].kind = "command" /\ A!Call(u, p) \notin t}}
    BY <2>1, <2>2 DEF A!Reply, A!Sent
  <2> QED BY <2>3, <2>4, SentOf
<1>7. needed' \subseteq A!Calls
  <2>1. A!Call(window, r) \in A!Calls BY <1>1, <1>5, CallOf
  <2>2. needed' \subseteq needed \cup {A!Call(window, r)} BY DEF A!Reply
  <2> QED BY <1>1, <2>1, <2>2 DEF Plain
<1>8. Plain' BY <1>1, <1>3, <1>6, <1>7 DEF Plain
<1>9. ~forgotten => Tracked(window', project, panel)
  <2>1. SUFFICES ASSUME ~forgotten PROVE Tracked(window', project, panel) OBVIOUS
  <2>2. Tracked(window, project, panel) BY <1>1, <2>1 DEF Listed
  <2> QED BY <1>2, <1>5, <2>2, TrackedOnward
<1> QED BY <1>1, <1>2, <1>3, <1>4, <1>8, <1>9 DEF AgentInv, Listed, OneEntry

\* The card is answered.
LEMMA ResolvedKeeps ==
  ASSUME Limits, AgentInv, NEW d \in {"approve", "always", "deny"}, A!resolveApproval(d)
  PROVE  AgentInv'
<1> PICK r : r = window.approval OBVIOUS
<1>1. Whole /\ Plain /\ OneEntry(window.changes) /\ Listed /\ window \in Windows BY DEF AgentInv, Whole, Sound
<1>2. Whole' /\ Onward(window, window', r) /\ r \in A!Runs /\ window.active = r BY <1>1, ResolvedIs
<1>3. project' = project /\ panel' = panel /\ needed' = needed /\ late' = late /\ cut' = cut /\ forgotten' = forgotten BY DEF A!resolveApproval
<1>4. window'.changes = window.changes BY <1>2 DEF Onward
<1>5. window.run[r].step # 0 /\ ~Made(window.run[r])
  <2>1. r # 0 BY <1>2 DEF A!Runs
  <2>2. window.run[r].at = "asking" BY <1>1, <2>1 DEF Whole, Sound, Heads
  <2> QED BY <1>1, <1>2, <2>2, AwaitsIs DEF Whole
<1>6. took' \subseteq A!Calls
  <2>1. PICK u : u = window' OBVIOUS
  <2>2. PICK t : t = took OBVIOUS
  <2>3. Sound(u, took', needed', approved', late', cut') /\ t \subseteq A!Calls BY <1>1, <1>2, <2>1, <2>2 DEF Whole, Plain
  <2>4. A!Sent(u) BY <2>1 DEF A!resolveApproval
  <2>5. took' = t \cup {A!Call(u, q) : q \in {p \in A!Runs : u.run[p].op = "sent" /\ u.run[p].kind = "command" /\ A!Call(u, p) \notin t}}
    BY <2>2, <2>4 DEF A!Sent
  <2> QED BY <2>3, <2>5, SentOf
<1>7. approved' \subseteq A!Calls
  <2>1. A!Call(window, r) \in A!Calls BY <1>1, <1>2, <1>5, CallOf
  <2>2. approved' \subseteq approved \cup {A!Call(window, r)} BY DEF A!resolveApproval
  <2> QED BY <1>1, <2>1, <2>2 DEF Plain
<1>8. Plain' BY <1>1, <1>3, <1>6, <1>7 DEF Plain
<1>9. ~forgotten => Tracked(window', project, panel)
  <2>1. SUFFICES ASSUME ~forgotten PROVE Tracked(window', project, panel) OBVIOUS
  <2>2. Tracked(window, project, panel) BY <1>1, <2>1 DEF Listed
  <2> QED BY <1>2, <1>5, <2>2, TrackedOnward
<1> QED BY <1>1, <1>2, <1>3, <1>4, <1>8, <1>9 DEF AgentInv, Listed, OneEntry

\* The folder is open: whoever has a file in hand by then is forgotten.
LEMMA OpenedKeeps ==
  ASSUME Limits, AgentInv, NEW r \in A!Runs, A!Opened(r)
  PROVE  AgentInv'
<1>1. Whole /\ Plain /\ OneEntry(window.changes) /\ Listed /\ window.run[r].at = "opening" BY DEF AgentInv, A!Opened
<1>2. Whole' /\ window'.open = window.open /\ window'.changes = window.changes /\ (\A q \in A!Runs \ {r} : window'.run[q] = window.run[q]) /\ Idles(window', r)
  BY <1>1, OpenedIs DEF Idles
<1>3. project' = project /\ panel' = panel /\ took' = took /\ needed' = needed /\ approved' = approved /\ late' = late BY DEF A!Opened
<1>4. /\ cut' = (cut \/ panel.at # "none")
      /\ forgotten' = (forgotten \/ panel.at # "none" \/ \E q \in A!Runs : A!ChangeInHand(window, q)) BY DEF A!Opened
<1>5. Plain' BY <1>1, <1>3, <1>4 DEF Plain
<1>6. ~forgotten' => Tracked(window', project, panel)
  <2>1. SUFFICES ASSUME ~forgotten' PROVE Tracked(window', project, panel) OBVIOUS
  <2>2. ~forgotten /\ panel.at = "none" /\ \A q \in A!Runs : ~A!ChangeInHand(window, q) BY <1>4, <2>1
  <2>3. Tracked(window, project, panel) BY <1>1, <2>2 DEF Listed
  <2> QED BY <1>1, <1>2, <2>2, <2>3, TrackedOpens DEF Whole
<1> QED BY <1>1, <1>2, <1>3, <1>5, <1>6 DEF AgentInv, Listed, OneEntry

\* The runtime carries a call out.
LEMMA ServeKeeps ==
  ASSUME Limits, AgentInv, NEW r \in A!Runs, A!Serve(r)
  PROVE  AgentInv'
<1>1. Whole /\ Plain /\ OneEntry(window.changes) /\ Listed /\ window.run[r].op = "sent" BY DEF AgentInv, A!Serve
<1>2. /\ Whole' /\ project' \in A!Texts /\ took' \subseteq A!Calls /\ late' \in [A!Runs -> Nat]
      /\ window'.open = window.open /\ window'.changes = window.changes /\ window'.active = window.active
      /\ \A q \in A!Runs \ {r} : window'.run[q] = window.run[q]
      /\ Outcome(window'.run[r], window.run[r], project, project', A!Call(window, r))
  BY <1>1, ServeIs DEF Plain
<1>3. panel' = panel /\ needed' = needed /\ approved' = approved /\ cut' = cut /\ forgotten' = forgotten BY DEF A!Serve
<1>4. Plain' BY <1>1, <1>2, <1>3 DEF Plain
<1>5. window.run[r].kind \in A!Kinds
  <2>1. Placed(window.run[r], r, window.latest, window.active) /\ window.run[r] \in Records BY <1>1 DEF Whole, Sound, Windows
  <2> QED BY <1>1, <2>1 DEF Placed, Records
<1>6. ~forgotten => Tracked(window', project', panel)
  <2>1. SUFFICES ASSUME ~forgotten PROVE Tracked(window', project', panel) OBVIOUS
  <2>2. Tracked(window, project, panel) BY <1>1, <2>1 DEF Listed
  <2> QED BY <1>1, <1>2, <1>5, <2>2, TrackedServes
<1> QED BY <1>1, <1>2, <1>3, <1>4, <1>6 DEF AgentInv, Listed, OneEntry

\* Its answer arrives, or is lost.
LEMMA ArriveKeeps ==
  ASSUME Limits, AgentInv, NEW r \in A!Runs, A!Arrive(r)
  PROVE  AgentInv'
<1>1. Whole /\ Plain /\ OneEntry(window.changes) /\ Listed /\ window \in Windows BY DEF AgentInv, Whole, Sound
<1>2. Whole' /\ Rests(window', r) BY <1>1, ArriveIs
<1>3. PICK v : /\ Onward(v, window', r) /\ v.run = window.run /\ v.open = window.open /\ v.active = window.active
               /\ \/ v.changes = window.changes /\ forgotten' = TRUE
                  \/ v.changes = window.changes /\ ~Made(window.run[r])
                  \/ A!live(window, r) /\ ~window.open /\ v.changes = window.changes
                  \/ Made(window.run[r]) /\ v.changes = A!recordChange(window.changes, window.run[r].prev, window.run[r].now)
  BY <1>1, ArriveIs
<1>4. /\ project' = project /\ panel' = panel /\ took' = took /\ needed' = needed /\ approved' = approved /\ late' = late /\ cut' = cut
      /\ forgotten' \in BOOLEAN /\ (forgotten => forgotten')
  BY <1>1 DEF A!Arrive, Plain
<1>5. Plain' BY <1>1, <1>4 DEF Plain
<1>6. window'.changes = v.changes BY <1>3 DEF Onward
<1>7. ASSUME v.changes = A!recordChange(window.changes, window.run[r].prev, window.run[r].now)
      PROVE  Recorded(v.changes, window.changes, window.run[r].prev, window.run[r].now)
  <2>1. window.changes \in SUBSET Entries /\ window.run[r] \in Records BY <1>1 DEF Windows
  <2>2. window.run[r].prev \in A!Texts /\ window.run[r].now \in A!Texts BY <2>1 DEF Records
  <2> QED BY <1>7, <2>1, <2>2, RecordIs
<1>8. OneEntry(v.changes) BY <1>1, <1>3, <1>7, RecordOne
<1>9. ~forgotten' => Tracked(window', project, panel)
  <2>1. SUFFICES ASSUME ~forgotten' PROVE Tracked(window', project, panel) OBVIOUS
  <2>2. Tracked(window, project, panel) /\ window.open BY <1>1, <1>4, <2>1 DEF Listed, Tracked
  <2>3. CASE v.changes = window.changes /\ ~Made(window.run[r])
    <3>1. Tracked(v, project, panel) BY <1>3, <2>2, <2>3, TrackedSame
    <3>2. Idles(window', r) /\ ~Made(v.run[r]) BY <1>2, <1>3, <2>3 DEF Rests, Idles
    <3> QED BY <1>3, <3>1, <3>2, TrackedOnward
  <2>4. CASE Made(window.run[r]) /\ v.changes = A!recordChange(window.changes, window.run[r].prev, window.run[r].now)
    BY <1>1, <1>2, <1>3, <1>7, <2>2, <2>4, TrackedArrives
  <2> QED BY <1>3, <2>1, <2>2, <2>3, <2>4
<1> QED BY <1>1, <1>2, <1>4, <1>5, <1>6, <1>8, <1>9 DEF AgentInv, Listed, OneEntry

\* A message is sent again.
LEMMA RetryKeeps ==
  ASSUME Limits, AgentInv, NEW r \in A!Runs, NEW i \in DOMAIN window.thread, A!Retry(r, i)
  PROVE  AgentInv'
<1>1. Whole /\ Plain /\ OneEntry(window.changes) /\ Listed /\ window \in Windows BY DEF AgentInv, Whole, Sound
<1>2. Whole' BY <1>1, RetryIs
<1>3. PICK v, z : /\ Rewritten(v, window) /\ v.open = window.open /\ v.changes = window.changes
                  /\ Sound(z, took, needed, approved, late, cut') /\ Onward(v, z, r) /\ Idles(z, r) /\ ~Made(window.run[r]) /\ Halts(z, window')
  BY <1>1, RetryIs
<1>4. /\ project' = project /\ panel' = panel /\ took' = took /\ needed' = needed /\ approved' = approved /\ late' = late
      /\ forgotten' = forgotten /\ cut' \in BOOLEAN
  BY <1>1 DEF A!Retry, Plain
<1>5. Plain' BY <1>1, <1>4 DEF Plain
<1>6. window'.changes = window.changes BY <1>3 DEF Onward, Halts, Leaves
<1>7. ~forgotten => Tracked(window', project, panel)
  <2>1. SUFFICES ASSUME ~forgotten PROVE Tracked(window', project, panel) OBVIOUS
  <2>2. Tracked(window, project, panel) BY <1>1, <2>1 DEF Listed
  <2>3. v.run = window.run /\ v.active = window.active BY <1>3 DEF Rewritten
  <2>4. Tracked(v, project, panel) BY <1>3, <2>2, <2>3, TrackedSame
  <2>5. Tracked(z, project, panel)
    <3>1. ~Made(v.run[r]) BY <1>3, <2>3
    <3> QED BY <1>3, <2>4, <3>1, TrackedOnward
  <2>6. z \in Windows BY <1>3 DEF Sound
  <2> QED BY <1>3, <2>5, <2>6, TrackedHalts
<1> QED BY <1>1, <1>2, <1>4, <1>5, <1>6, <1>7 DEF AgentInv, Listed, OneEntry

\* The policy is another.
LEMMA SetPolicyKeeps ==
  ASSUME Limits, AgentInv, NEW p \in Policies, A!SetPolicy(p)
  PROVE  AgentInv'
<1>1. Whole /\ Plain /\ OneEntry(window.changes) /\ Listed BY DEF AgentInv
<1>2. Whole' /\ Rewritten(window', window) /\ window'.open = window.open /\ window'.changes = window.changes BY <1>1, SetPolicyIs
<1>3. UNCHANGED <<project, panel, took, needed, approved, late, cut, forgotten>> BY DEF A!SetPolicy
<1>4. ~forgotten => Tracked(window', project, panel)
  <2>1. SUFFICES ASSUME ~forgotten PROVE Tracked(window', project, panel) OBVIOUS
  <2>2. Tracked(window, project, panel) BY <1>1, <2>1 DEF Listed
  <2>3. window'.run = window.run /\ window'.active = window.active BY <1>2 DEF Rewritten
  <2> QED BY <1>2, <2>2, <2>3, TrackedSame
<1>5. Plain' BY <1>1, <1>3 DEF Plain
<1> QED BY <1>1, <1>2, <1>3, <1>4, <1>5 DEF AgentInv, Listed, OneEntry

\* What the person throws away is forgotten.
LEMMA ForgetKeeps ==
  ASSUME Plain, Whole', window'.changes = {}, forgotten' = TRUE, UNCHANGED <<project, panel, took, needed, approved, late>>, cut' \in BOOLEAN
  PROVE  AgentInv'
<1>1. Plain' BY DEF Plain
<1> QED BY <1>1 DEF AgentInv, OneEntry, Listed

\* The thread is emptied,
LEMMA ClearKeeps ==
  ASSUME Limits, AgentInv, A!Clear
  PROVE  AgentInv'
<1>1. Whole /\ Plain BY DEF AgentInv
<1>2. Whole' /\ window'.changes = {} BY <1>1, ClearIs
<1>3. forgotten' = TRUE /\ UNCHANGED <<project, panel, took, needed, approved, late>> /\ cut' \in BOOLEAN BY <1>1 DEF A!Clear, Plain
<1> QED BY <1>1, <1>2, <1>3, ForgetKeeps

\* or deleted.
LEMMA DeleteKeeps ==
  ASSUME Limits, AgentInv, A!Delete
  PROVE  AgentInv'
<1>1. Whole /\ Plain BY DEF AgentInv
<1>2. Whole' /\ window'.changes = {} BY <1>1, DeleteIs
<1>3. forgotten' = TRUE /\ UNCHANGED <<project, panel, took, needed, approved, late>> /\ cut' \in BOOLEAN BY <1>1 DEF A!Delete, Plain
<1> QED BY <1>1, <1>2, <1>3, ForgetKeeps

\* The changes are kept.
LEMMA KeepKeeps ==
  ASSUME Limits, AgentInv, A!Keep
  PROVE  AgentInv'
<1>1. Whole /\ Plain BY DEF AgentInv
<1>2. Whole' /\ window'.changes = {} BY <1>1, KeepIs
<1>3. forgotten' = TRUE /\ UNCHANGED <<project, panel, took, needed, approved, late>> /\ cut' \in BOOLEAN BY <1>1 DEF A!Keep, Plain
<1> QED BY <1>1, <1>2, <1>3, ForgetKeeps

\* No revert.
LEMMA NoRevertIs ==
  ASSUME Limits
  PROVE  A!NoRevert \in Panels /\ A!NoRevert.at = "none"
<1>1. A!Missing \in A!Texts BY IdleIs
<1> QED BY <1>1 DEF A!NoRevert, Panels

\* Of the edits in hand a new window knows nothing; where there is none nothing is forgotten.
LEMMA TrackedReload ==
  ASSUME Limits, NEW tk, NEW nd, NEW ap, NEW lt, NEW ct, NEW w, Sound(w, tk, nd, ap, lt, ct), NEW d, NEW p, Tracked(w, d, p),
         \A r \in A!Runs : ~(w.run[r].op \in {"sent", "done"} /\ w.run[r].kind \in {"edit", "write"}),
         NEW u, Anewed(u, w), NEW p2, p2.at = "none"
  PROVE  Tracked(u, d, p2)
<1>1. ASSUME NEW q \in A!Runs PROVE ~Writes(u.run[q]) /\ ~Made(u.run[q]) /\ ~Made(w.run[q])
  <2>1. PICK x \in Records : x = w.run[q] BY DEF Sound, Windows
  <2>2. PICK y : y = Reloaded(x) OBVIOUS
  <2>3. Placed(x, q, w.latest, w.active) /\ Counted(x, q, tk, nd, ap, lt[q]) BY <2>1 DEF Sound
  <2>4. y.at \in {"off", "over"} /\ (y.op # "none" => x.op = "sent" /\ x.kind \in {"edit", "write"}) BY <2>2, <2>3, GoneIs
  <2>5. y.op = "none" BY <2>1, <2>4
  <2>6. u.run[q] = y BY <2>1, <2>2 DEF Anewed
  <2> QED BY <2>4, <2>5, <2>6 DEF Writes, Made, A!Waiting
<1>2. u.open = w.open /\ u.changes = w.changes BY DEF Anewed
<1> QED BY <1>1, <1>2 DEF Tracked

\* The page is loaded again.
LEMMA ReloadKeeps ==
  ASSUME Limits, AgentInv, A!Reload
  PROVE  AgentInv'
<1>1. Whole /\ Plain /\ OneEntry(window.changes) /\ Listed BY DEF AgentInv
<1>2. Whole' /\ Anewed(window', window) BY <1>1, ReloadIs
<1>3. /\ UNCHANGED <<project, took, needed, approved, late, cut>>
      /\ panel' = IF panel.at = "write" THEN [panel EXCEPT !.at = "orphan"] ELSE A!NoRevert
      /\ forgotten' = (forgotten \/ panel.at # "none" \/ \E r \in A!Runs : window.run[r].op \in {"sent", "done"} /\ window.run[r].kind \in {"edit", "write"})
  BY DEF A!Reload
<1>4. A!NoRevert \in Panels /\ A!NoRevert.at = "none" BY NoRevertIs
<1>5. panel' \in Panels
  <2>1. CASE panel.at = "write" BY <1>1, <1>3, <2>1 DEF Plain, Panels
  <2> QED BY <1>3, <1>4, <2>1
<1>6. Plain' BY <1>1, <1>3, <1>5 DEF Plain
<1>7. window'.changes = window.changes BY <1>2 DEF Anewed
<1>8. ~forgotten' => Tracked(window', project, panel')
  <2>1. SUFFICES ASSUME ~forgotten' PROVE Tracked(window', project, panel') OBVIOUS
  <2>2. ~forgotten /\ panel.at = "none" /\ \A r \in A!Runs : ~(window.run[r].op \in {"sent", "done"} /\ window.run[r].kind \in {"edit", "write"}) BY <1>3, <2>1
  <2>3. Tracked(window, project, panel) BY <1>1, <2>2 DEF Listed
  <2>4. panel'.at = "none" BY <1>3, <1>4, <2>2
  <2> QED BY <1>1, <1>2, <2>2, <2>3, <2>4, TrackedReload DEF Whole
<1> QED BY <1>1, <1>2, <1>3, <1>6, <1>7, <1>8 DEF AgentInv, Listed, OneEntry

\* With no run no change is on its way to the list.
LEMMA Unmade ==
  ASSUME NEW w, NEW d, NEW p, Tracked(w, d, p), w.active = 0
  PROVE  \A r \in A!Runs : ~Made(w.run[r])
BY DEF Tracked, Made, Writes, A!Runs

\* A revert begins while nothing runs,
LEMMA RevertKeeps ==
  ASSUME Limits, AgentInv, NEW e \in window.changes, NEW f \in BOOLEAN, A!Revert(e, f)
  PROVE  AgentInv'
<1>1. Whole /\ Plain /\ OneEntry(window.changes) /\ Listed BY DEF AgentInv
<1>2. /\ UNCHANGED <<window, project, took, needed, approved, late>>
      /\ panel' = [at |-> "read", force |-> f, note |-> window.thread # <<>>, original |-> e.original, current |-> e.current]
      /\ forgotten' = (forgotten \/ window.active # 0) /\ cut' = (cut \/ window.active # 0)
  BY DEF A!Revert
<1>3. Whole'
  <2>1. Sound(window, took, needed, approved, late, cut') BY <1>1, <1>2, SoundCut DEF Whole
  <2> QED BY <1>2, <2>1 DEF Whole
<1>4. panel' \in Panels /\ panel'.at = "read" /\ panel'.original = e.original
  <2>1. window.changes \in SUBSET Entries BY <1>1 DEF Whole, Sound, Windows
  <2>2. e.original \in A!Texts /\ e.current \in A!Texts BY <2>1 DEF Entries
  <2> QED BY <1>2, <2>2 DEF Panels
<1>5. Plain' BY <1>1, <1>2, <1>4 DEF Plain
<1>6. ~forgotten' => Tracked(window, project, panel')
  <2>1. SUFFICES ASSUME ~forgotten' PROVE Tracked(window, project, panel') OBVIOUS
  <2>2. Tracked(window, project, panel) /\ window.active = 0 BY <1>1, <1>2, <2>1 DEF Listed
  <2> QED BY <1>4, <2>2 DEF Tracked
<1> QED BY <1>1, <1>2, <1>3, <1>5, <1>6 DEF AgentInv, Listed, OneEntry

\* reads the file,
LEMMA RevertReadKeeps ==
  ASSUME Limits, AgentInv, A!RevertRead
  PROVE  AgentInv'
<1>1. Whole /\ Plain /\ OneEntry(window.changes) /\ Listed /\ panel \in Panels /\ project \in A!Texts BY DEF AgentInv, Plain
<1>2. UNCHANGED <<window, project, A!ghosts>> /\ panel.at = "read" BY DEF A!RevertRead
<1>3. \/ panel' = A!NoRevert
      \/ ~project.there /\ panel' = [panel EXCEPT !.at = "wrote"]
      \/ panel' = [panel EXCEPT !.at = "write"]
  BY DEF A!RevertRead
<1>4. A!NoRevert \in Panels /\ A!NoRevert.at = "none" BY NoRevertIs
<1>5. /\ panel' \in Panels
      /\ panel'.at # "none" => panel'.original = panel.original
      /\ panel'.at \in {"none", "write"} \/ (panel'.at = "wrote" /\ ~project.there)
  <2>1. CASE panel' = A!NoRevert BY <1>4, <2>1
  <2>2. CASE ~project.there /\ panel' = [panel EXCEPT !.at = "wrote"] BY <1>1, <2>2 DEF Panels
  <2>3. CASE panel' = [panel EXCEPT !.at = "write"] BY <1>1, <2>3 DEF Panels
  <2> QED BY <1>3, <2>1, <2>2, <2>3
<1>6. ~project.there => project.agent = A!NoCall
  <2>1. CASE project = A!Missing BY <2>1 DEF A!Missing
  <2>2. CASE project # A!Missing
    <3>1. project \in [there: {TRUE}, agent: {A!NoCall} \cup A!Calls, other: Nat] BY <1>1, <2>2 DEF A!Texts
    <3> QED BY <3>1
  <2> QED BY <2>1, <2>2
<1>7. Whole' BY <1>1, <1>2 DEF Whole, A!ghosts
<1>8. Plain' BY <1>1, <1>2, <1>5 DEF Plain, A!ghosts
<1>9. ~forgotten => Tracked(window, project, panel')
  <2>1. SUFFICES ASSUME ~forgotten PROVE Tracked(window, project, panel') OBVIOUS
  <2>2. Tracked(window, project, panel) BY <1>1, <2>1 DEF Listed
  <2> QED BY <1>2, <1>5, <1>6, <2>2 DEF Tracked
<1> QED BY <1>1, <1>2, <1>7, <1>8, <1>9 DEF AgentInv, Listed, OneEntry, A!ghosts

\* puts it back,
LEMMA RevertWriteKeeps ==
  ASSUME Limits, AgentInv, A!RevertWrite
  PROVE  AgentInv'
<1>1. Whole /\ Plain /\ OneEntry(window.changes) /\ Listed /\ panel \in Panels BY DEF AgentInv, Plain
<1>2. /\ UNCHANGED <<window, A!ghosts>> /\ panel.at \in {"write", "orphan"} /\ project' = panel.original
      /\ panel' = IF panel.at = "write" THEN [panel EXCEPT !.at = "wrote"] ELSE A!NoRevert
  BY DEF A!RevertWrite
<1>3. panel' \in Panels /\ (panel.at = "write" => panel'.at = "wrote" /\ panel'.original = panel.original)
  <2>1. CASE panel.at = "write" BY <1>1, <1>2, <2>1 DEF Panels
  <2>2. CASE panel.at # "write" BY <1>2, <2>2, NoRevertIs
  <2> QED BY <2>1, <2>2
<1>4. project' \in A!Texts BY <1>1, <1>2 DEF Panels
<1>5. Whole' BY <1>1, <1>2 DEF Whole, A!ghosts
<1>6. Plain' BY <1>1, <1>2, <1>3, <1>4 DEF Plain, A!ghosts
<1>7. ~forgotten => Tracked(window, project', panel')
  <2>1. SUFFICES ASSUME ~forgotten PROVE Tracked(window, project', panel') OBVIOUS
  <2>2. Tracked(window, project, panel) BY <1>1, <2>1 DEF Listed
  <2>3. panel.at = "write" /\ window.active = 0 /\ panel.original.agent = A!NoCall BY <1>2, <2>2 DEF Tracked
  <2>4. \A r \in A!Runs : ~Made(window.run[r]) BY <2>2, <2>3, Unmade
  <2> QED BY <1>2, <1>3, <2>2, <2>3, <2>4 DEF Tracked
<1> QED BY <1>1, <1>2, <1>5, <1>6, <1>7 DEF AgentInv, Listed, OneEntry, A!ghosts

\* and is done.
LEMMA RevertDoneKeeps ==
  ASSUME Limits, AgentInv, A!RevertDone
  PROVE  AgentInv'
<1>1. Whole /\ Plain /\ Listed BY DEF AgentInv
<1>2. UNCHANGED <<project, A!ghosts>> /\ panel.at = "wrote" /\ panel' = A!NoRevert BY DEF A!RevertDone
<1>3. Whole' /\ Rewritten(window', window) /\ window'.open = window.open /\ window'.changes = {} BY <1>1, RevertDoneIs
<1>4. A!NoRevert \in Panels /\ A!NoRevert.at = "none" BY NoRevertIs
<1>5. Plain' BY <1>1, <1>2, <1>4 DEF Plain, A!ghosts
<1>6. ~forgotten => Tracked(window', project, panel')
  <2>1. SUFFICES ASSUME ~forgotten PROVE Tracked(window', project, panel') OBVIOUS
  <2>2. Tracked(window, project, panel) BY <1>1, <2>1 DEF Listed
  <2>3. window.active = 0 /\ project.agent = A!NoCall BY <1>2, <2>2 DEF Tracked
  <2>4. \A r \in A!Runs : ~Made(window.run[r]) BY <2>2, <2>3, Unmade
  <2>5. window'.run = window.run /\ window'.active = window.active BY <1>3 DEF Rewritten
  <2> QED BY <1>2, <1>3, <1>4, <2>2, <2>3, <2>4, <2>5 DEF Tracked
<1> QED BY <1>2, <1>3, <1>5, <1>6 DEF AgentInv, Listed, OneEntry, A!ghosts

\* Somebody else changes the file.
LEMMA OthersKeeps ==
  ASSUME Limits, AgentInv, A!Others
  PROVE  AgentInv'
<1>1. Whole /\ Plain /\ OneEntry(window.changes) /\ Listed /\ project \in A!Texts BY DEF AgentInv, Plain
<1>2. UNCHANGED <<window, panel, A!ghosts>> /\ project.there /\ project' = [project EXCEPT !.other = @ + 1] BY DEF A!Others
<1>3. project' \in A!Texts /\ project'.agent = project.agent
  <2> DEFINE Files == [there: {TRUE}, agent: {A!NoCall} \cup A!Calls, other: Nat]
  <2>1. project \in Files
    <3>1. ~A!Missing.there BY DEF A!Missing
    <3>2. project # A!Missing BY <1>2, <3>1
    <3> QED BY <1>1, <3>2 DEF A!Texts
  <2>2. project' \in Files /\ project'.agent = project.agent
    <3>1. project.other + 1 \in Nat BY <2>1
    <3>2. PICK n \in Nat : n = project.other + 1 BY <3>1
    <3>3. project' = [project EXCEPT !.other = n] BY <1>2, <3>2
    <3> QED BY <2>1, <3>2, <3>3
  <2> QED BY <2>2 DEF A!Texts
<1>4. Whole' BY <1>1, <1>2 DEF Whole, A!ghosts
<1>5. Plain' BY <1>1, <1>2, <1>3 DEF Plain, A!ghosts
<1>6. ~forgotten => Tracked(window, project', panel)
  <2>1. SUFFICES ASSUME ~forgotten PROVE Tracked(window, project', panel) OBVIOUS
  <2>2. Tracked(window, project, panel) BY <1>1, <2>1 DEF Listed
  <2> QED BY <1>3, <2>2 DEF Tracked
<1> QED BY <1>1, <1>2, <1>4, <1>5, <1>6 DEF AgentInv, Listed, OneEntry, A!ghosts

-----------------------------------------------------------------------------
(* What the invariant says. *)

\* At first there is no run.
LEMMA AgentStarts ==
  ASSUME Limits, A!Init
  PROVE  AgentInv
<1>1. PICK b \in Beginnings :
        /\ window = [open |-> TRUE, thread |-> <<>>, changes |-> {}, policy |-> b.policy, allowed |-> {},
                     run |-> [r \in A!Runs |-> A!Idle], latest |-> 0, active |-> 0,
                     approval |-> 0, card |-> A!NoCall, shown |-> "none", overlay |-> 0]
        /\ project = b.file
  BY DEF A!Init
<1>2. /\ A!Idle \in Records /\ A!Idle.at = "off" /\ A!Idle.token = 0 /\ ~A!Idle.aborted /\ A!Idle.op = "none" /\ ~A!Idle.quiet
      /\ \A r \in A!Runs : window.run[r] = A!Idle
  BY <1>1, IdleIs
<1>3. /\ panel = A!NoRevert /\ took = {} /\ needed = {} /\ approved = {} /\ late = [r \in A!Runs |-> 0] /\ cut = FALSE /\ forgotten = FALSE
      /\ A!NoRevert \in Panels /\ A!NoRevert.at = "none" /\ project \in A!Texts /\ project.agent = A!NoCall
  BY <1>1, NoRevertIs DEF A!Init, Limits
<1>4. Plain BY <1>3 DEF Plain
<1>5. window \in Windows
  <2>1. /\ 0 \in Holder /\ b.policy \in Policies \cup {c.policy : c \in Beginnings} /\ <<>> \in Seq(Msgs)
        /\ {} \in SUBSET Entries /\ {} \in SUBSET {"read", "edit", "command"} /\ [r \in A!Runs |-> A!Idle] \in [A!Runs -> Records]
    BY <1>2 DEF Holder
  <2> QED BY <1>1, <2>1 DEF Windows
<1>6. /\ window.open /\ window.thread = <<>> /\ window.changes = {} /\ window.latest = 0 /\ window.active = 0
      /\ window.approval = 0 /\ window.card = A!NoCall /\ window.overlay = 0
  BY <1>1
<1>7. Heads(window) BY <1>2, <1>6 DEF Heads, A!Runs
<1>8. \A r \in A!Runs : Placed(window.run[r], r, window.latest, window.active)
  BY <1>2, <1>6 DEF Placed, UnderWay, Going
<1>9. \A r \in A!Runs : Counted(window.run[r], r, took, needed, approved, late[r])
  BY <1>2, <1>3 DEF Counted
<1>10. Len(window.thread) = 0 BY <1>6
<1>11. Whole BY <1>3, <1>5, <1>7, <1>8, <1>9, <1>10 DEF Whole, Sound
<1>12. Tracked(window, project, panel) BY <1>2, <1>3, <1>6 DEF Tracked, Writes, Made, A!Waiting
<1> QED BY <1>4, <1>6, <1>11, <1>12 DEF AgentInv, OneEntry, Listed

\* Whatever happens.
LEMMA AgentStep ==
  ASSUME Limits, AgentInv, [A!Next]_agentVars
  PROVE  AgentInv'
<1>1. ASSUME NEW r \in A!Runs, A!Progress(r) PROVE AgentInv'
  BY <1>1, OpenFailedKeeps, OpenedKeeps, ReplyKeeps, PreparedKeeps, ServeKeeps, ArriveKeeps DEF A!Progress
<1>2. ASSUME A!Person PROVE AgentInv'
  BY <1>2, SendKeeps, RetryKeeps, StopKeeps, ResolvedKeeps, SetPolicyKeeps, ClearKeeps, DeleteKeeps, ReloadKeeps, KeepKeeps, RevertKeeps DEF A!Person
<1>3. CASE UNCHANGED agentVars BY <1>3 DEF agentVars, A!ghosts, AgentInv, Whole, Plain, OneEntry, Listed
<1> QED BY <1>1, <1>2, <1>3, RevertReadKeeps, RevertWriteKeeps, RevertDoneKeeps, OthersKeeps DEF A!Next

\* There are no more tokens than runs.
LEMMA FewTokens ==
  ASSUME Limits, NEW w \in Windows, \A n \in 1..w.latest : \E r \in A!Runs : w.run[r].token = n
  PROVE  w.latest \in 0..MaxRuns
<1>1. w.latest \in Nat /\ MaxRuns \in Nat BY DEF Windows, Limits
<1>2. SUFFICES ASSUME w.latest > MaxRuns PROVE FALSE BY <1>1
<1> DEFINE f == [n \in 1..w.latest |-> CHOOSE r \in A!Runs : w.run[r].token = n]
<1>3. ASSUME NEW n \in 1..w.latest PROVE f[n] \in A!Runs /\ w.run[f[n]].token = n OBVIOUS
<1>4. f \in [1..w.latest -> 1..MaxRuns] BY <1>3 DEF A!Runs
<1>5. IsFiniteSet(1..w.latest) /\ IsFiniteSet(1..MaxRuns) /\ Cardinality(1..MaxRuns) < Cardinality(1..w.latest)
  <2>1. Cardinality(1..w.latest) = w.latest /\ Cardinality(1..MaxRuns) = MaxRuns /\ IsFiniteSet(1..w.latest) /\ IsFiniteSet(1..MaxRuns)
    <3>1. 1 \in Int /\ w.latest \in Int /\ MaxRuns \in Int BY <1>1
    <3>2. IsFiniteSet(1..w.latest) /\ Cardinality(1..w.latest) = (IF 1 > w.latest THEN 0 ELSE w.latest - 1 + 1) BY <3>1, FS_Interval
    <3>3. IsFiniteSet(1..MaxRuns) /\ Cardinality(1..MaxRuns) = (IF 1 > MaxRuns THEN 0 ELSE MaxRuns - 1 + 1) BY <3>1, FS_Interval
    <3> QED BY <1>1, <3>2, <3>3
  <2> QED BY <1>1, <1>2, <2>1
<1> HIDE DEF f
<1>6. PICK Old, New : Old = 1..w.latest /\ New = 1..MaxRuns OBVIOUS
<1>7. PICK g \in [Old -> New] : g = f BY <1>4, <1>6
<1>8. IsFiniteSet(Old) /\ IsFiniteSet(New) /\ Cardinality(New) < Cardinality(Old) BY <1>5, <1>6
<1>9. \E x, y \in Old : x # y /\ g[x] = g[y] BY <1>7, <1>8, FS_PigeonHole
<1>10. PICK x \in Old, y \in Old : x # y /\ g[x] = g[y] BY <1>9
<1> QED BY <1>3, <1>6, <1>7, <1>10

\* What an entry alone in its list is.
LEMMA FewEntries ==
  ASSUME NEW ch, OneEntry(ch)
  PROVE  Cardinality(ch) <= 1
<1>1. CASE ch = {} BY <1>1, FS_EmptySet
<1>2. CASE ch # {}
  <2>1. PICK e \in ch : TRUE BY <1>2
  <2>2. ch = {e} BY <2>1 DEF OneEntry
  <2>3. Cardinality({e}) = 1 BY FS_Singleton
  <2> QED BY <2>2, <2>3
<1> QED BY <1>1, <1>2

\* The types.
LEMMA InvTypes ==
  ASSUME Limits, AgentInv
  PROVE  A!TypeOK
<1>1. window \in Windows /\ Heads(window) /\ Plain /\ OneEntry(window.changes) BY DEF AgentInv, Whole, Sound
<1>2. window.thread \in Seq([k: {"user", "step", "results", "note"}, id: A!Runs \X (0..MAX_STEPS) \cup {A!NoCall},
                             st: A!Unsettled \cup {"none", "done", "error", "denied"}])
  BY <1>1 DEF Windows, Msgs, CallIds, Statuses
<1>3. window.changes \subseteq [original: A!Texts, current: A!Texts] /\ Cardinality(window.changes) <= 1 BY <1>1, FewEntries DEF Windows, Entries
<1>4. window.latest \in 0..MaxRuns BY <1>1, FewTokens DEF Heads
<1>5. {window.active, window.approval, window.overlay} \subseteq 0..MaxRuns
  <2>1. Holder \subseteq 0..MaxRuns BY DEF Holder, A!Runs, Limits
  <2> QED BY <1>1, <2>1 DEF Windows
<1>6. window.shown \in {"none", "running", "awaiting"} /\ window.card \in {A!NoCall} \cup A!Calls BY <1>1 DEF Windows
<1>7. project \in A!Texts /\ UNION {took, needed, approved} \subseteq A!Calls BY <1>1 DEF Plain
<1>8. A!Cardinality(window.changes) = Cardinality(window.changes) BY DEF A!Cardinality, Cardinality
<1> QED BY <1>2, <1>3, <1>4, <1>5, <1>6, <1>7, <1>8 DEF A!TypeOK

\* Two runs under way would both be the newest.
LEMMA InvOneRun ==
  ASSUME Limits, AgentInv
  PROVE  A!OneRun
<1>1. SUFFICES ASSUME NEW q \in A!Runs, NEW r \in A!Runs, q # r, {window.run[q].at, window.run[r].at} \cap {"off", "opening", "over"} = {},
                      ~window.run[q].aborted, ~window.run[r].aborted
               PROVE  FALSE
  BY DEF A!OneRun
<1>2. window \in Windows /\ Placed(window.run[q], q, window.latest, window.active) /\ Placed(window.run[r], r, window.latest, window.active)
  BY DEF AgentInv, Whole, Sound
<1>3. window.run[q].at \in Places /\ window.run[r].at \in Places BY <1>2 DEF Windows, Records
<1>4. UnderWay(window.run[q]) /\ UnderWay(window.run[r]) BY <1>1, <1>3 DEF UnderWay, Going, Places
<1> QED BY <1>1, <1>2, <1>4 DEF Placed

\* A stopped run is at its file or over.
LEMMA InvStopHolds ==
  ASSUME Limits, AgentInv
  PROVE  A!StopHolds
<1>1. SUFFICES ASSUME NEW r \in A!Runs
               PROVE  late[r] <= 1 /\ (window.run[r].aborted => window.run[r].at \notin {"model", "asking"})
  BY DEF A!StopHolds
<1>2. Placed(window.run[r], r, window.latest, window.active) /\ Counted(window.run[r], r, took, needed, approved, late[r])
  BY DEF AgentInv, Whole, Sound
<1> QED BY <1>2 DEF Placed, Counted

\* The thread tells what is so.
LEMMA InvThread ==
  ASSUME Limits, AgentInv
  PROVE  A!AnsweredInOrder /\ A!ToldTrue
<1>1. /\ window \in Windows
      /\ \A i \in 1..Len(window.thread) : IsCall(window.thread[i]) => Said(window.thread, i, window.run[window.thread[i].id[1]], window.latest, took, cut)
  BY DEF AgentInv, Whole, Sound
<1>2. DOMAIN window.thread = 1..Len(window.thread) BY <1>1 DEF Windows
<1>3. ASSUME NEW i \in DOMAIN window.thread, IsCall(window.thread[i])
      PROVE  Said(window.thread, i, window.run[window.thread[i].id[1]], window.latest, took, cut)
  BY <1>1, <1>2, <1>3
<1>4. \A i : A!Answered(i) <=> Replied(window.thread, i) BY DEF A!Answered, Replied
<1>5. A!AnsweredInOrder
  <2>1. SUFFICES ASSUME NEW i \in DOMAIN window.thread, IsCall(window.thread[i]), ~GaveWay(window.run[window.thread[i].id[1]], window.latest)
                 PROVE  IF window.thread[i].st \in A!Unsettled
                        THEN window.run[window.thread[i].id[1]].at \in A!Waiting /\ window.run[window.thread[i].id[1]].step = window.thread[i].id[2]
                        ELSE cut \/ A!Answered(i)
    BY DEF A!AnsweredInOrder, IsCall, GaveWay
  <2> QED BY <1>3, <1>4, <2>1 DEF Said
<1>6. A!ToldTrue
  <2>1. SUFFICES ASSUME NEW i \in DOMAIN window.thread, IsCall(window.thread[i])
                 PROVE  /\ window.thread[i].st = "done" => window.thread[i].id \in took
                        /\ window.thread[i].st = "denied" => window.thread[i].id \notin took
    BY DEF A!ToldTrue, IsCall
  <2> QED BY <1>3, <2>1 DEF Said
<1> QED BY <1>5, <1>6

\* The list holds what the agent left.
LEMMA InvTracked ==
  ASSUME AgentInv
  PROVE  A!ChangesAreTracked
<1>1. SUFFICES ASSUME ~forgotten
               PROVE  /\ \A e \in window.changes : e.original.agent = A!NoCall
                      /\ project.agent # A!NoCall => \/ \E r \in A!Runs : window.run[r].op = "done" /\ window.run[r].now.agent = project.agent
                                                     \/ \E e \in window.changes : e.current.agent = project.agent
  BY DEF A!ChangesAreTracked
<1>2. Tracked(window, project, panel) BY <1>1 DEF AgentInv, Listed
<1>3. \A r \in A!Runs : Made(window.run[r]) => window.run[r].op = "done" /\ window.run[r].now.agent = project.agent BY <1>2 DEF Tracked, Made
<1> QED BY <1>2, <1>3 DEF Tracked

\* All of it.
LEMMA InvSafe ==
  ASSUME Limits, AgentInv
  PROVE  A!AgentSafe
<1>1. A!CardIsAwaited /\ A!OverlayIsLive /\ A!AskedFirst BY DEF AgentInv, Whole, Sound, Heads, A!CardIsAwaited, A!OverlayIsLive, A!AskedFirst
<1> QED BY <1>1, InvTypes, InvOneRun, InvStopHolds, InvThread, InvTracked DEF A!AgentSafe

(* Of startAgentRun, stopAgentRun, runAgentLoop, requestApproval and the    *)
(* store behind them, whenever the person sends, stops, answers, sends      *)
(* again, clears, deletes, reloads or reverts: one run at a time, nothing   *)
(* the policy says to ask about runs before it is approved, after a stop at *)
(* most the edit in hand is made, every call is answered right after it and *)
(* told of truly, and what the agent left in the file is on the list.       *)
THEOREM AgentIsSafe ==
  ASSUME Limits
  PROVE  A!Spec => []A!AgentSafe
<1>1. A!Init => AgentInv BY AgentStarts
<1>2. AgentInv /\ [A!Next]_(A!vars) => AgentInv' BY AgentStep DEF A!vars, A!ghosts, agentVars
<1>3. AgentInv => A!AgentSafe BY InvSafe
<1> QED BY <1>1, <1>2, <1>3, PTL DEF A!Spec

-----------------------------------------------------------------------------
(* The chat. *)

\* A message of a thread.
Texts == [k: {"user", "reply"}, is: T!Asks, by: T!Asks, cut: BOOLEAN]

\* What the bounds are; and no thread or model is taken for none.
Sizes == MaxAsks \in Nat /\ MaxLoads \in Nat /\ Threads # {} /\ Models # {} /\ None \notin Models \cup Seq(Texts)

Requested == [at: {"none", "queued", "waiting", "asked", "over"}, thread: Threads \cup {None}, reply: {0} \cup T!Asks,
              model: Models \cup {None}, sent: Seq(Texts), on: {0} \cup T!Loads]

Screens == [thread: [Threads -> Seq(Texts) \cup {None}], ask: [T!Asks -> Requested],
            streaming: [thread: Threads \cup {None}, reply: {0} \cup T!Asks], inFlight: {0} \cup T!Asks]

InHand == {"waiting", "asked"}
EndsIn(s, r) == s # <<>> /\ s[Len(s)].k = "reply" /\ s[Len(s)].is = r

(* The replies of a thread t, s, after the requests q: each stands once,     *)
(* after the messages it was asked with, and so would the same reply written *)
(* again by whoever continues it.                                            *)
RepliesOf(q, t, s) ==
  /\ \A i \in 1..Len(s) : s[i].k = "reply" =>
       q[s[i].is].at = "over" /\ q[s[i].by].at = "over" /\ q[s[i].by].thread = t /\ q[s[i].by].reply = s[i].is
  /\ \A i, j \in 1..Len(s) : s[i].k = "reply" /\ s[j].k = "reply" /\ s[i].is = s[j].is => i = j
  /\ \A i \in 2..Len(s), a \in T!Asks :
       s[i].k = "reply" /\ (a = s[i].by \/ (q[a].at \in InHand /\ q[a].thread = t /\ q[a].reply = s[i].is)) =>
         i - 1 <= Len(q[a].sent) /\ \A j \in 1..(i - 1) : s[j] = q[a].sent[j]

\* Who continues a reply was asked when that reply, already whole, was the last word.
Posed(q, a) ==
  /\ q[a].at = "queued" => q[a].thread \in Threads
  /\ q[a].at \in InHand => q[a].thread \in Threads /\ q[a].reply \in T!Asks
  /\ q[a].at \in InHand /\ q[a].reply # a => q[q[a].reply].at = "over" /\ EndsIn(q[a].sent, q[a].reply)

Coherent(w) ==
  /\ w \in Screens
  /\ \A a \in T!Asks : Posed(w.ask, a)
  /\ \A t \in Threads : w.thread[t] # None => RepliesOf(w.ask, t, w.thread[t])

\* What is on the screen is of the request that Stop would abort, and its thread is as it was sent.
Visible(w) ==
  /\ w.streaming # T!NoOverlay => w.inFlight # 0 /\ w.thread[w.streaming.thread] # None
                                /\ w.thread[w.streaming.thread] = w.ask[w.inFlight].sent
  /\ w.inFlight # 0 => /\ w.ask[w.inFlight].at \in InHand
                       /\ w.streaming \in {T!NoOverlay, T!Overlay(w.ask[w.inFlight].thread, w.ask[w.inFlight].reply)}

\* The beginning of a thread is one.
LEMMA Shortened ==
  ASSUME NEW q, NEW t, NEW s \in Seq(Texts), RepliesOf(q, t, s), NEW n \in 0..Len(s)
  PROVE  RepliesOf(q, t, SubSeq(s, 1, n)) /\ SubSeq(s, 1, n) \in Seq(Texts) /\ Len(SubSeq(s, 1, n)) = n
<1>1. SubSeq(s, 1, n) \in Seq(Texts) /\ Len(SubSeq(s, 1, n)) = n /\ \A i \in 1..n : SubSeq(s, 1, n)[i] = s[i]
  BY SubSeqProperties
<1> DEFINE u == SubSeq(s, 1, n)
<1> HIDE DEF u
<1>2. Len(u) = n /\ n <= Len(s) /\ Len(s) \in Nat /\ \A i \in 1..n : u[i] = s[i] BY <1>1 DEF u
<1>3. RepliesOf(q, t, u) BY <1>2 DEF RepliesOf
<1> QED BY <1>1, <1>3 DEF u

\* Another word of the person's does not matter to them.
LEMMA SpokenAfter ==
  ASSUME NEW q, NEW t, NEW s \in Seq(Texts), RepliesOf(q, t, s), NEW m \in Texts, m.k = "user"
  PROVE  RepliesOf(q, t, Append(s, m)) /\ Append(s, m) \in Seq(Texts)
<1>1. Append(s, m) \in Seq(Texts) /\ Len(Append(s, m)) = Len(s) + 1 /\ Append(s, m)[Len(s) + 1] = m
      /\ \A i \in 1..Len(s) : Append(s, m)[i] = s[i]
  BY AppendProperties
<1> DEFINE u == Append(s, m)
<1> HIDE DEF u
<1>2. Len(u) = Len(s) + 1 /\ Len(s) \in Nat /\ u[Len(s) + 1] = m /\ \A i \in 1..Len(s) : u[i] = s[i] BY <1>1 DEF u
<1>3. \A i \in 1..Len(u) : u[i].k = "reply" => i \in 1..Len(s) /\ u[i] = s[i] BY <1>2
<1>4. RepliesOf(q, t, u)
  <2>1. \A i \in 2..Len(u) : u[i].k = "reply" => i \in 2..Len(s) /\ \A j \in 1..(i - 1) : u[j] = s[j] BY <1>2, <1>3
  <2> QED BY <1>3, <2>1 DEF RepliesOf
<1> QED BY <1>1, <1>4 DEF u

\* A reply joins the thread it was asked with, or an empty one.
LEMMA ReplyJoins ==
  ASSUME NEW q \in [T!Asks -> Requested], NEW t, NEW s \in Seq(Texts), RepliesOf(q, t, s), NEW m \in Texts, m.k = "reply",
         q[m.is].at = "over", q[m.by].at = "over", q[m.by].thread = t, q[m.by].reply = m.is,
         \A i \in 1..Len(s) : s[i].k = "reply" => s[i].is # m.is,
         s = <<>> \/ (s = q[m.by].sent /\ \A a \in T!Asks : ~(q[a].at \in InHand /\ q[a].reply = m.is))
  PROVE  RepliesOf(q, t, Append(s, m)) /\ Append(s, m) \in Seq(Texts)
<1>1. Append(s, m) \in Seq(Texts) /\ Len(Append(s, m)) = Len(s) + 1 /\ Append(s, m)[Len(s) + 1] = m
      /\ \A i \in 1..Len(s) : Append(s, m)[i] = s[i]
  BY AppendProperties
<1> DEFINE u == Append(s, m)
<1> HIDE DEF u
<1>2. Len(u) = Len(s) + 1 /\ Len(s) \in Nat /\ u[Len(s) + 1] = m /\ \A i \in 1..Len(s) : u[i] = s[i] BY <1>1 DEF u
<1>3. \A i \in 1..Len(u) : i = Len(s) + 1 \/ i \in 1..Len(s) BY <1>2
<1>4. RepliesOf(q, t, u)
  <2>1. \A i \in 1..Len(u) : u[i].k = "reply" =>
          q[u[i].is].at = "over" /\ q[u[i].by].at = "over" /\ q[u[i].by].thread = t /\ q[u[i].by].reply = u[i].is
    BY <1>2, <1>3 DEF RepliesOf
  <2>2. \A i, j \in 1..Len(u) : u[i].k = "reply" /\ u[j].k = "reply" /\ u[i].is = u[j].is => i = j
    BY <1>2, <1>3 DEF RepliesOf
  <2>3. ASSUME NEW i \in 2..Len(u), NEW a \in T!Asks, u[i].k = "reply",
               a = u[i].by \/ (q[a].at \in InHand /\ q[a].thread = t /\ q[a].reply = u[i].is)
        PROVE  i - 1 <= Len(q[a].sent) /\ \A j \in 1..(i - 1) : u[j] = q[a].sent[j]
    <3>1. CASE i \in 1..Len(s) BY <1>2, <2>3, <3>1 DEF RepliesOf
    <3>2. CASE i = Len(s) + 1
      <4>1. s # <<>> BY <1>2, <3>2, <2>3
      <4>2. a = m.by /\ s = q[m.by].sent BY <1>2, <3>2, <2>3, <4>1
      <4> QED BY <1>2, <3>2, <4>2
    <3> QED BY <1>2, <1>3, <3>1, <3>2
  <2> QED BY <2>1, <2>2, <2>3 DEF RepliesOf
<1> QED BY <1>1, <1>4 DEF u

\* Or takes the place of the one it continues, at the end.
LEMMA AnswersAgain ==
  ASSUME NEW q \in [T!Asks -> Requested], NEW t, NEW s \in Seq(Texts), RepliesOf(q, t, s), NEW m \in Texts, m.k = "reply",
         EndsIn(s, m.is), q[m.by].at \in InHand, q[m.by].thread = t, q[m.by].reply = m.is,
         NEW p, p = [q EXCEPT ![m.by].at = "over"]
  PROVE  LET u == [i \in DOMAIN s |-> IF s[i].k = "reply" /\ s[i].is = m.is THEN m ELSE s[i]]
         IN  RepliesOf(p, t, u) /\ u \in Seq(Texts)
<1> DEFINE u == [i \in DOMAIN s |-> IF s[i].k = "reply" /\ s[i].is = m.is THEN m ELSE s[i]]
<1>1. Len(s) \in Nat /\ DOMAIN s = 1..Len(s) /\ Len(s) \in 1..Len(s) /\ s[Len(s)].k = "reply" /\ s[Len(s)].is = m.is
  BY LenProperties, EmptySeq DEF EndsIn
<1>2. u \in Seq(Texts) /\ Len(u) = Len(s)
  <2>1. \A i \in 1..Len(s) : s[i] \in Texts BY ElementOfSeq
  <2>2. u \in [1..Len(s) -> Texts] BY <1>1, <2>1
  <2> HIDE DEF u
  <2> QED BY <1>1, <2>2, SeqDef, LenProperties
<1>3. u[Len(s)] = m /\ \A i \in 1..Len(s) : i # Len(s) => u[i] = s[i] /\ ~(s[i].k = "reply" /\ s[i].is = m.is)
  BY <1>1 DEF RepliesOf
<1> HIDE DEF u
<1>4. m.by \in T!Asks /\ m.is \in T!Asks BY DEF Texts
<1>5. \A a \in T!Asks : /\ p[a].thread = q[a].thread /\ p[a].reply = q[a].reply /\ p[a].sent = q[a].sent
                        /\ p[a].at = (IF a = m.by THEN "over" ELSE q[a].at)
  BY <1>4 DEF Requested
<1>6. q[m.is].at = "over" BY <1>1 DEF RepliesOf
<1>7. \A i \in 1..Len(s) : s[i].by \in T!Asks /\ s[i].is \in T!Asks
  <2>1. \A i \in 1..Len(s) : s[i] \in Texts BY ElementOfSeq
  <2> QED BY <2>1 DEF Texts
<1>8. RepliesOf(p, t, u)
  <2>1. \A i \in 1..Len(u) : u[i].k = "reply" =>
          p[u[i].is].at = "over" /\ p[u[i].by].at = "over" /\ p[u[i].by].thread = t /\ p[u[i].by].reply = u[i].is
    BY <1>2, <1>3, <1>4, <1>5, <1>6, <1>7 DEF RepliesOf
  <2>2. \A i, j \in 1..Len(u) : u[i].k = "reply" /\ u[j].k = "reply" /\ u[i].is = u[j].is => i = j
    BY <1>2, <1>3 DEF RepliesOf
  <2>3. ASSUME NEW i \in 2..Len(u), NEW a \in T!Asks, u[i].k = "reply",
               a = u[i].by \/ (p[a].at \in InHand /\ p[a].thread = t /\ p[a].reply = u[i].is)
        PROVE  i - 1 <= Len(p[a].sent) /\ \A j \in 1..(i - 1) : u[j] = p[a].sent[j]
    <3>1. i \in 1..Len(s) /\ i \in 2..Len(s) /\ (\A j \in 1..(i - 1) : u[j] = s[j]) BY <1>1, <1>2, <1>3
    <3>2. p[a].at \in InHand => q[a].at \in InHand BY <1>5 DEF InHand
    <3>3. CASE i # Len(s) BY <1>3, <1>5, <2>3, <3>1, <3>2, <3>3 DEF RepliesOf
    <3>4. CASE i = Len(s)
      <4>1. q[a].at \in InHand /\ q[a].thread = t /\ q[a].reply = s[i].is BY <1>1, <1>3, <1>5, <2>3, <3>2, <3>4
      <4> QED BY <1>1, <1>5, <3>1, <3>4, <4>1 DEF RepliesOf
    <3> QED BY <3>3, <3>4
  <2> QED BY <2>1, <2>2, <2>3 DEF RepliesOf
<1> QED BY <1>2, <1>8 DEF u
-----------------------------------------------------------------------------
(* What a request does to the window. *)

\* A window's thread is one of texts.
LEMMA ThreadOf ==
  ASSUME Sizes, NEW w \in Screens, NEW t \in Threads
  PROVE  /\ w.thread[t] # None <=> w.thread[t] \in Seq(Texts)
         /\ w.ask \in [T!Asks -> Requested]
BY DEF Sizes, Screens

\* The person changes a thread, and the overlay is put away or not.
LEMMA Changed ==
  ASSUME Sizes, NEW w, Coherent(w), NEW v \in Screens, v.ask = w.ask, NEW t \in Threads,
         \A u \in Threads : u # t => v.thread[u] = w.thread[u],
         v.thread[t] # None => RepliesOf(w.ask, t, v.thread[t])
  PROVE  Coherent(v)
BY DEF Coherent

\* A request that is over is over for its threads too.
LEMMA OverIsOver ==
  ASSUME Sizes, NEW q \in [T!Asks -> Requested], NEW a \in T!Asks, NEW p, p = [q EXCEPT ![a].at = "over"]
  PROVE  /\ \A b \in T!Asks : Posed(q, b) => Posed(p, b)
         /\ \A t \in Threads, s \in Seq(Texts) : RepliesOf(q, t, s) => RepliesOf(p, t, s)
         /\ p \in [T!Asks -> Requested]
<1>1. \A b \in T!Asks : /\ p[b].thread = q[b].thread /\ p[b].reply = q[b].reply /\ p[b].sent = q[b].sent
                        /\ p[b].at = (IF b = a THEN "over" ELSE q[b].at)
  BY DEF Requested
<1>2. p \in [T!Asks -> Requested]
  <2>1. \A x \in Requested : [x EXCEPT !.at = "over"] \in Requested BY DEF Requested
  <2>2. p = [q EXCEPT ![a] = [q[a] EXCEPT !.at = "over"]] OBVIOUS
  <2> QED BY <2>1, <2>2
<1>3. ASSUME NEW b \in T!Asks, Posed(q, b) PROVE Posed(p, b)
  <2>1. q[b].at \in InHand => q[b].reply \in T!Asks BY <1>3 DEF Posed
  <2> QED BY <1>1, <1>3, <2>1 DEF Posed, InHand
<1>4. ASSUME NEW t \in Threads, NEW s \in Seq(Texts), RepliesOf(q, t, s) PROVE RepliesOf(p, t, s)
  <2>1. \A i \in 1..Len(s) : s[i].by \in T!Asks /\ s[i].is \in T!Asks
    <3>1. \A i \in 1..Len(s) : s[i] \in Texts BY ElementOfSeq
    <3> QED BY <3>1 DEF Texts
  <2>2. \A b \in T!Asks : p[b].at \in InHand => q[b].at \in InHand BY <1>1 DEF InHand
  <2>3. \A i \in 1..Len(s) : s[i].k = "reply" =>
          p[s[i].is].at = "over" /\ p[s[i].by].at = "over" /\ p[s[i].by].thread = t /\ p[s[i].by].reply = s[i].is
    BY <1>1, <1>4, <2>1 DEF RepliesOf
  <2>4. ASSUME NEW i \in 2..Len(s), NEW b \in T!Asks, s[i].k = "reply",
               b = s[i].by \/ (p[b].at \in InHand /\ p[b].thread = t /\ p[b].reply = s[i].is)
        PROVE  i - 1 <= Len(p[b].sent) /\ \A j \in 1..(i - 1) : s[j] = p[b].sent[j]
    BY <1>1, <1>4, <2>2, <2>4 DEF RepliesOf
  <2> QED BY <1>4, <2>3, <2>4 DEF RepliesOf
<1> QED BY <1>2, <1>3, <1>4

\* A request is begun, or queued.
LEMMA Begins ==
  ASSUME Sizes, NEW q \in [T!Asks -> Requested], NEW a \in T!Asks, q[a].at \in {"none", "queued"}, NEW x \in Requested, NEW p, p = [q EXCEPT ![a] = x],
         x.at \in InHand \cup {"queued"}
  PROVE  /\ (\A b \in T!Asks : Posed(q, b)) /\ Posed(p, a) => \A b \in T!Asks : Posed(p, b)
         /\ \A t \in Threads, s \in Seq(Texts) :
              RepliesOf(q, t, s) /\ (x.at \in InHand => x.thread # t \/ x.reply = a \/ x.sent = s) => RepliesOf(p, t, s)
         /\ p \in [T!Asks -> Requested]
<1>1. p \in [T!Asks -> Requested] /\ p[a] = x /\ \A b \in T!Asks : b # a => p[b] = q[b]
  OBVIOUS
<1>2. ASSUME \A b \in T!Asks : Posed(q, b), Posed(p, a), NEW b \in T!Asks PROVE Posed(p, b)
  <2>1. CASE b = a BY <1>2, <2>1
  <2>2. CASE b # a
    <3>1. q[b].at \in InHand => q[b].reply \in T!Asks BY <1>2 DEF Posed
    <3> QED BY <1>1, <1>2, <2>2, <3>1 DEF Posed
  <2> QED BY <2>1, <2>2
<1>3. ASSUME NEW t \in Threads, NEW s \in Seq(Texts), RepliesOf(q, t, s), x.at \in InHand => x.thread # t \/ x.reply = a \/ x.sent = s
      PROVE  RepliesOf(p, t, s)
  <2>1. \A i \in 1..Len(s) : s[i].by \in T!Asks /\ s[i].is \in T!Asks
    <3>1. \A i \in 1..Len(s) : s[i] \in Texts BY ElementOfSeq
    <3> QED BY <3>1 DEF Texts
  <2>2. \A i \in 1..Len(s) : s[i].k = "reply" => s[i].is # a /\ s[i].by # a
    BY <1>3, <2>1 DEF RepliesOf
  <2>3. \A i \in 1..Len(s) : s[i].k = "reply" =>
          p[s[i].is].at = "over" /\ p[s[i].by].at = "over" /\ p[s[i].by].thread = t /\ p[s[i].by].reply = s[i].is
    BY <1>1, <1>3, <2>1, <2>2 DEF RepliesOf
  <2>4. ASSUME NEW i \in 2..Len(s), NEW b \in T!Asks, s[i].k = "reply",
               b = s[i].by \/ (p[b].at \in InHand /\ p[b].thread = t /\ p[b].reply = s[i].is)
        PROVE  i - 1 <= Len(p[b].sent) /\ \A j \in 1..(i - 1) : s[j] = p[b].sent[j]
    <3>1. i \in 1..Len(s) OBVIOUS
    <3>2. CASE b = a
      <4>1. x.at \in InHand /\ x.thread = t /\ x.reply = s[i].is BY <1>1, <2>2, <2>4, <3>1, <3>2
      <4>2. x.sent = s BY <1>3, <2>2, <3>1, <2>4, <4>1
      <4> QED BY <1>1, <3>1, <3>2, <4>2
    <3>3. CASE b # a BY <1>1, <1>3, <2>4, <3>3 DEF RepliesOf
    <3> QED BY <3>2, <3>3
  <2> QED BY <1>3, <2>3, <2>4 DEF RepliesOf
<1> QED BY <1>1, <1>2, <1>3

\* runGeneration, up to its await.
LEMMA RequestStarts ==
  ASSUME Sizes, NEW w, Coherent(w), NEW a \in T!Asks, w.ask[a].at \in {"none", "queued"}, NEW t \in Threads, NEW r \in T!Asks,
         r = a \/ EndsIn(w.thread[t], r), chosen \in [Threads -> Models], latestLoad \in {0} \cup T!Loads
  PROVE  LET v == T!Start(w, a, t, r)
         IN /\ Coherent(v) /\ v.thread = w.thread
            /\ \A b \in T!Asks : b # a => v.ask[b] = w.ask[b]
            /\ IF w.thread[t] = None THEN v.ask[a].at = "over" /\ v.streaming = w.streaming /\ v.inFlight = w.inFlight
               ELSE /\ v.streaming = T!Overlay(t, r) /\ v.inFlight = a
                    /\ v.ask[a] = [at |-> IF T!Loading THEN "waiting" ELSE "asked", thread |-> t, reply |-> r,
                                   model |-> chosen[t], sent |-> w.thread[t], on |-> latestLoad]
<1> DEFINE v == T!Start(w, a, t, r)
<1>1. w \in Screens /\ w.ask \in [T!Asks -> Requested] BY ThreadOf DEF Coherent
<1>2. CASE w.thread[t] = None
  <2>1. v = [w EXCEPT !.ask[a].at = "over"] BY <1>2 DEF T!Start
  <2> HIDE DEF v
  <2>2. v.ask = [w.ask EXCEPT ![a].at = "over"] /\ v.thread = w.thread /\ v.streaming = w.streaming /\ v.inFlight = w.inFlight
    BY <1>1, <2>1 DEF Screens
  <2>3. v \in Screens
    <3>1. v.ask \in [T!Asks -> Requested] BY <1>1, <2>2, OverIsOver
    <3> QED BY <1>1, <2>1, <3>1 DEF Screens
  <2>4. Coherent(v)
    <3>1. \A b \in T!Asks : Posed(v.ask, b) BY <1>1, <2>2, OverIsOver DEF Coherent
    <3>2. ASSUME NEW u \in Threads, v.thread[u] # None PROVE RepliesOf(v.ask, u, v.thread[u])
      <4>1. w.thread[u] \in Seq(Texts) /\ RepliesOf(w.ask, u, w.thread[u]) BY <2>2, <3>2, ThreadOf DEF Coherent
      <4> QED BY <1>1, <2>2, <4>1, OverIsOver
    <3> QED BY <2>3, <3>1, <3>2 DEF Coherent
  <2>5. v.ask[a].at = "over" /\ \A b \in T!Asks : b # a => v.ask[b] = w.ask[b]
    BY <1>1, <2>2 DEF Requested
  <2> QED BY <1>2, <2>2, <2>4, <2>5 DEF v
<1>3. CASE w.thread[t] # None
  <2> DEFINE x == [at |-> IF T!Loading THEN "waiting" ELSE "asked", thread |-> t, reply |-> r,
                   model |-> chosen[t], sent |-> w.thread[t], on |-> latestLoad]
  <2>1. v = [w EXCEPT !.ask[a] = x, !.streaming = T!Overlay(t, r), !.inFlight = a] BY <1>3 DEF T!Start
  <2>2. w.thread[t] \in Seq(Texts) BY <1>1, <1>3, ThreadOf
  <2>3. x \in Requested /\ x.at \in InHand /\ x.thread = t /\ x.reply = r /\ x.sent = w.thread[t]
    BY <2>2 DEF Requested, InHand
  <2> HIDE DEF v
  <2>4. v.ask = [w.ask EXCEPT ![a] = x] /\ v.thread = w.thread /\ v.streaming = T!Overlay(t, r) /\ v.inFlight = a
    BY <1>1, <2>1 DEF Screens
  <2>5. v.ask \in [T!Asks -> Requested] /\ v.ask[a] = x /\ \A b \in T!Asks : b # a => v.ask[b] = w.ask[b]
    <3> HIDE DEF x
    <3> QED BY <1>1, <2>3, <2>4
  <2> HIDE DEF x
  <2>6. v \in Screens
    <3>1. T!Overlay(t, r) \in [thread: Threads \cup {None}, reply: {0} \cup T!Asks] BY DEF T!Overlay
    <3>2. v = [thread |-> v.thread, ask |-> v.ask, streaming |-> v.streaming, inFlight |-> v.inFlight] BY <1>1, <2>1 DEF Screens
    <3>3. v.thread \in [Threads -> Seq(Texts) \cup {None}] BY <1>1, <2>4 DEF Screens
    <3> QED BY <2>4, <2>5, <3>1, <3>2, <3>3 DEF Screens
  <2>7. Posed(v.ask, a)
    <3>1. r # a => EndsIn(w.thread[t], r) /\ w.ask[r].at = "over"
      <4> SUFFICES ASSUME r # a PROVE EndsIn(w.thread[t], r) /\ w.ask[r].at = "over" OBVIOUS
      <4>1. EndsIn(w.thread[t], r) OBVIOUS
      <4>2. Len(w.thread[t]) \in 1..Len(w.thread[t]) BY <2>2, <4>1, EmptySeq, LenProperties DEF EndsIn
      <4>3. RepliesOf(w.ask, t, w.thread[t]) BY <1>3 DEF Coherent
      <4> QED BY <4>1, <4>2, <4>3 DEF RepliesOf, EndsIn
    <3> QED BY <2>3, <2>5, <3>1 DEF Posed, InHand
  <2>8. Coherent(v)
    <3>1. \A b \in T!Asks : Posed(v.ask, b) BY <1>1, <2>3, <2>4, <2>7, Begins DEF Coherent
    <3>2. ASSUME NEW u \in Threads, v.thread[u] # None PROVE RepliesOf(v.ask, u, v.thread[u])
      <4>1. w.thread[u] \in Seq(Texts) /\ RepliesOf(w.ask, u, w.thread[u]) BY <1>1, <2>4, <3>2, ThreadOf DEF Coherent
      <4>2. x.thread # u \/ x.sent = w.thread[u] BY <2>3
      <4> QED BY <1>1, <2>3, <2>4, <4>1, <4>2, Begins
    <3> QED BY <2>6, <3>1, <3>2 DEF Coherent
  <2> QED BY <1>3, <2>4, <2>5, <2>8 DEF v, x
<1> QED BY <1>2, <1>3

\* Where a reply may join: its thread is empty, as it was sent, or ends in the reply it continues.
Room(w, a) ==
  LET x == w.ask[a]  s == w.thread[x.thread]
  IN w.streaming = T!Overlay(x.thread, x.reply) =>
       s \in {None, <<>>} \/ (x.reply = a /\ s = x.sent) \/ (x.reply # a /\ EndsIn(s, x.reply))

\* What a reply makes of its thread.
LEMMA Joins ==
  ASSUME Sizes, NEW w, Coherent(w), NEW a \in T!Asks, w.ask[a].at \in InHand, NEW short \in BOOLEAN, NEW p, p = [w.ask EXCEPT ![a].at = "over"],
         NEW s, s = w.thread[w.ask[a].thread], s # None, NEW r, r = w.ask[a].reply,
         s = <<>> \/ (r = a /\ s = w.ask[a].sent) \/ (r # a /\ EndsIn(s, r))
  PROVE  LET u == T!Joined(s, T!Message("reply", r, a, short))
         IN RepliesOf(p, w.ask[a].thread, u) /\ u \in Seq(Texts)
<1> DEFINE m == T!Message("reply", r, a, short)
           t == w.ask[a].thread
<1>1. w \in Screens /\ w.ask \in [T!Asks -> Requested] /\ (\A b \in T!Asks : Posed(w.ask, b)) /\ t \in Threads /\ r \in T!Asks
  BY ThreadOf DEF Coherent, Posed
<1>2. m \in Texts /\ m.k = "reply" /\ m.is = r /\ m.by = a BY <1>1 DEF T!Message, Texts
<1>3. s \in Seq(Texts) /\ RepliesOf(w.ask, t, s) BY <1>1, ThreadOf DEF Coherent
<1>4. p \in [T!Asks -> Requested] /\ RepliesOf(p, t, s) BY <1>1, <1>3, OverIsOver
<1>5. p[a].at = "over" /\ p[a].thread = t /\ p[a].reply = r /\ p[a].sent = w.ask[a].sent
      /\ \A b \in T!Asks : b # a => p[b] = w.ask[b]
  BY <1>1 DEF Requested
<1>6. p[r].at = "over"
  <2>1. Posed(w.ask, a) BY <1>1
  <2>2. r # a => w.ask[r].at = "over" BY <2>1 DEF Posed
  <2> QED BY <1>1, <1>5, <2>2
<1> HIDE DEF m, t
<1>7. CASE s = <<>>
  <2>1. DOMAIN s = {} /\ Len(s) = 0 BY <1>7
  <2>2. T!Joined(s, m) = Append(s, m) BY <2>1 DEF T!Joined
  <2>3. \A i \in 1..Len(s) : s[i].k = "reply" => s[i].is # m.is BY <2>1
  <2>4. RepliesOf(p, t, Append(s, m)) /\ Append(s, m) \in Seq(Texts)
    <3>1. p[m.is].at = "over" /\ p[m.by].at = "over" /\ p[m.by].thread = t /\ p[m.by].reply = m.is BY <1>2, <1>5, <1>6
    <3> QED BY <1>2, <1>3, <1>4, <1>7, <2>3, <3>1, ReplyJoins
  <2> QED BY <2>2, <2>4 DEF m, t
<1>8. CASE s # <<>> /\ r = a /\ s = w.ask[a].sent
  <2>1. \A i \in 1..Len(s) : s[i].k = "reply" => s[i].is # a
    <3> SUFFICES ASSUME NEW i \in 1..Len(s), s[i].k = "reply", s[i].is = a PROVE FALSE OBVIOUS
    <3>1. w.ask[a].at = "over" BY <1>3 DEF RepliesOf
    <3> QED BY <3>1 DEF InHand
  <2>2. \A b \in T!Asks : ~(p[b].at \in InHand /\ p[b].reply = a)
    <3> SUFFICES ASSUME NEW b \in T!Asks, p[b].at \in InHand, p[b].reply = a PROVE FALSE OBVIOUS
    <3>1. b # a /\ p[b] = w.ask[b] BY <1>5 DEF InHand
    <3>2. w.ask[a].at = "over" BY <1>1, <3>1 DEF Posed
    <3> QED BY <3>2 DEF InHand
  <2>3. DOMAIN s = 1..Len(s) BY <1>3, LenProperties
  <2>4. T!Joined(s, m) = Append(s, m) BY <1>2, <1>8, <2>1, <2>3 DEF T!Joined
  <2>5. RepliesOf(p, t, Append(s, m)) /\ Append(s, m) \in Seq(Texts)
    <3>1. p[m.is].at = "over" /\ p[m.by].at = "over" /\ p[m.by].thread = t /\ p[m.by].reply = m.is BY <1>2, <1>5, <1>6
    <3>2. \A i \in 1..Len(s) : s[i].k = "reply" => s[i].is # m.is BY <1>2, <1>8, <2>1
    <3>3. s = p[m.by].sent /\ \A b \in T!Asks : ~(p[b].at \in InHand /\ p[b].reply = m.is) BY <1>2, <1>5, <1>8, <2>2
    <3> QED BY <1>2, <1>3, <1>4, <3>1, <3>2, <3>3, ReplyJoins
  <2> QED BY <2>4, <2>5 DEF m, t
<1>9. CASE r # a /\ EndsIn(s, r)
  <2>1. Len(s) \in DOMAIN s
    <3>1. s # <<>> /\ s \in Seq(Texts) BY <1>3, <1>9 DEF EndsIn
    <3>2. Len(s) \in Nat /\ DOMAIN s = 1..Len(s) BY <3>1, LenProperties
    <3>3. Len(s) # 0 BY <3>1, EmptySeq
    <3> QED BY <3>2, <3>3
  <2>2. T!Joined(s, m) = [i \in DOMAIN s |-> IF s[i].k = "reply" /\ s[i].is = m.is THEN m ELSE s[i]]
    BY <1>2, <1>9, <2>1 DEF T!Joined, EndsIn
  <2>3. EndsIn(s, m.is) /\ w.ask[m.by].at \in InHand /\ w.ask[m.by].thread = t /\ w.ask[m.by].reply = m.is
        /\ p = [w.ask EXCEPT ![m.by].at = "over"]
    BY <1>2, <1>9 DEF t
  <2> DEFINE u == [i \in DOMAIN s |-> IF s[i].k = "reply" /\ s[i].is = m.is THEN m ELSE s[i]]
  <2>4. RepliesOf(p, t, u) /\ u \in Seq(Texts) BY <1>1, <1>2, <1>3, <2>3, AnswersAgain
  <2> HIDE DEF u
  <2>5. T!Joined(s, m) = u BY <2>2 DEF u
  <2> QED BY <2>4, <2>5 DEF m, t
<1> QED BY <1>7, <1>8, <1>9

\* runGeneration, from the end of its stream.
LEMMA Committed ==
  ASSUME Sizes, NEW w, Coherent(w), NEW a \in T!Asks, w.ask[a].at \in InHand, NEW short \in BOOLEAN, Room(w, a)
  PROVE  LET v == T!Commit(w, a, short)
             t == w.ask[a].thread
             own == w.streaming = T!Overlay(t, w.ask[a].reply)
         IN /\ Coherent(v) /\ v.ask[a].at = "over" /\ \A b \in T!Asks : b # a => v.ask[b] = w.ask[b]
            /\ v.inFlight = (IF w.inFlight = a THEN 0 ELSE w.inFlight)
            /\ v.streaming = (IF own THEN T!NoOverlay ELSE w.streaming)
            /\ \A u \in Threads : v.thread[u] = None <=> w.thread[u] = None
            /\ \A u \in Threads : u # t \/ ~own => v.thread[u] = w.thread[u]
<1> DEFINE v == T!Commit(w, a, short)
           t == w.ask[a].thread
           r == w.ask[a].reply
           s == w.thread[t]
           p == [w.ask EXCEPT ![a].at = "over"]
           f == IF w.inFlight = a THEN 0 ELSE w.inFlight
<1>1. w \in Screens /\ w.ask \in [T!Asks -> Requested] /\ (\A b \in T!Asks : Posed(w.ask, b)) /\ t \in Threads /\ r \in T!Asks
  BY ThreadOf DEF Coherent, Posed
<1>2. p \in [T!Asks -> Requested] /\ p[a].at = "over" /\ \A b \in T!Asks : b # a => p[b] = w.ask[b]
  BY <1>1 DEF Requested
<1>3. \A b \in T!Asks : Posed(p, b) BY <1>1, OverIsOver
<1>4. \A u \in Threads : w.thread[u] # None => w.thread[u] \in Seq(Texts) /\ RepliesOf(p, u, w.thread[u])
  BY <1>1, OverIsOver, ThreadOf DEF Coherent
<1>5. f \in {0} \cup T!Asks BY <1>1 DEF Screens
<1>6. CASE w.streaming # T!Overlay(t, r)
  <2>1. v = [w EXCEPT !.ask[a].at = "over", !.inFlight = f] BY <1>1, <1>6 DEF T!Commit, Screens
  <2> HIDE DEF v
  <2>2. v.ask = p /\ v.inFlight = f /\ v.thread = w.thread /\ v.streaming = w.streaming BY <1>1, <2>1 DEF Screens
  <2>3. v = [thread |-> v.thread, ask |-> v.ask, streaming |-> v.streaming, inFlight |-> v.inFlight] BY <1>1, <2>1 DEF Screens
  <2> HIDE DEF p, f
  <2>4. v \in Screens BY <1>1, <1>2, <1>5, <2>2, <2>3 DEF Screens
  <2>5. Coherent(v) BY <1>3, <1>4, <2>2, <2>4 DEF Coherent
  <2> QED BY <1>2, <1>6, <2>2, <2>5 DEF v, f
<1>7. CASE w.streaming = T!Overlay(t, r)
  <2> DEFINE m == T!Message("reply", r, a, short)
             u == IF s = None THEN s ELSE T!Joined(s, m)
  <2>1. v = [w EXCEPT !.ask[a].at = "over", !.inFlight = f, !.streaming = T!NoOverlay, !.thread[t] = u]
    BY <1>1, <1>7 DEF T!Commit, Screens
  <2>2. s # None => u \in Seq(Texts) /\ RepliesOf(p, t, u)
    <3> SUFFICES ASSUME s # None PROVE T!Joined(s, m) \in Seq(Texts) /\ RepliesOf(p, t, T!Joined(s, m)) OBVIOUS
    <3>1. s = <<>> \/ (r = a /\ s = w.ask[a].sent) \/ (r # a /\ EndsIn(s, r)) BY <1>7 DEF Room
    <3> QED BY <3>1, Joins
  <2>3. u = None <=> s = None BY <2>2 DEF Sizes
  <2> HIDE DEF v, u
  <2>4. v.ask = p /\ v.inFlight = f /\ v.thread = [w.thread EXCEPT ![t] = u] /\ v.streaming = T!NoOverlay BY <1>1, <2>1 DEF Screens
  <2>5. v = [thread |-> v.thread, ask |-> v.ask, streaming |-> v.streaming, inFlight |-> v.inFlight] BY <1>1, <2>1 DEF Screens
  <2>6. w.thread \in [Threads -> Seq(Texts) \cup {None}] /\ u \in Seq(Texts) \cup {None} BY <1>1, <2>2, <2>3 DEF Screens
  <2>7. v.thread \in [Threads -> Seq(Texts) \cup {None}] /\ v.thread[t] = u /\ \A z \in Threads : z # t => v.thread[z] = w.thread[z]
    BY <1>1, <2>4, <2>6
  <2>8. T!NoOverlay \in [thread: Threads \cup {None}, reply: {0} \cup T!Asks] BY DEF T!NoOverlay, T!Overlay
  <2> HIDE DEF p, f
  <2>9. v \in Screens BY <1>1, <1>2, <1>5, <2>4, <2>5, <2>7, <2>8 DEF Screens
  <2>10. Coherent(v) BY <1>3, <1>4, <2>2, <2>3, <2>4, <2>7, <2>9 DEF Coherent
  <2> QED BY <1>2, <1>7, <2>3, <2>4, <2>7, <2>10 DEF v, f
<1> QED BY <1>6, <1>7

\* A reply under way has room.
LEMMA ThereIsRoom ==
  ASSUME Sizes, NEW w, Coherent(w), Visible(w), NEW a \in T!Asks, w.ask[a].at \in InHand
  PROVE  Room(w, a)
<1> DEFINE x == w.ask[a]
           c == w.inFlight
<1>1. w \in Screens /\ (\A b \in T!Asks : Posed(w.ask, b)) BY DEF Coherent
<1>2. SUFFICES ASSUME w.streaming = T!Overlay(x.thread, x.reply)
               PROVE  (x.reply = a /\ w.thread[x.thread] = x.sent) \/ (x.reply # a /\ EndsIn(w.thread[x.thread], x.reply))
  BY DEF Room
<1>3. x.reply \in T!Asks BY <1>1 DEF Posed
<1>4. w.streaming # T!NoOverlay BY <1>2, <1>3 DEF T!NoOverlay, T!Overlay, T!Asks
<1>5. c \in T!Asks /\ w.ask[c].at \in InHand /\ w.thread[x.thread] = w.ask[c].sent /\ w.ask[c].reply = x.reply
  BY <1>1, <1>2, <1>4 DEF Visible, T!Overlay, Screens
<1>6. CASE x.reply = a
  <2>1. c # a => w.ask[a].at = "over" BY <1>1, <1>5, <1>6 DEF Posed
  <2> QED BY <1>5, <1>6, <2>1 DEF InHand
<1>7. CASE x.reply # a
  <2>1. w.ask[x.reply].at = "over" BY <1>1, <1>7 DEF Posed
  <2>2. c # x.reply BY <1>5, <2>1 DEF InHand
  <2>3. EndsIn(w.ask[c].sent, x.reply) BY <1>1, <1>5, <2>2 DEF Posed
  <2> QED BY <1>5, <1>7, <2>3
<1> QED BY <1>6, <1>7
-----------------------------------------------------------------------------
(* The window. *)

\* While nothing was done to a thread in the wait for the queue, one request at most is under way, and it is on the screen.
Sole(w, c, busy, last) ==
  /\ w.inFlight # 0 => w.streaming # T!NoOverlay
  /\ \A a \in T!Asks : w.ask[a].at \in InHand =>
       /\ a = w.inFlight /\ w.ask[a].model = c[w.ask[a].thread]
       /\ w.ask[a].at = "asked" => ~busy
       /\ w.ask[a].at = "waiting" => w.ask[a].on = last
  /\ \A a, b \in T!Asks : w.ask[a].at = "queued" /\ w.ask[b].at = "queued" => a = b
  /\ \A a \in T!Asks : w.ask[a].at = "queued" => w.inFlight = 0

Choosing == chosen \in [Threads -> Models] /\ selected \in Threads \cup {None} /\ (selected # None => thread[selected] # None)

Busy == {l \in T!Loads : load[l].at \in {"asked", "refreshing"}}
LoadKinds == [at: T!Pending \cup {"none", "over", "failed", "dropped"}, model: Models \cup {None}]

LoadTypes ==
  /\ load \in [T!Loads -> LoadKinds] /\ latestLoad \in {0} \cup T!Loads /\ resident \in Models \cup {None}
  /\ \A l \in T!Loads : (l > latestLoad <=> load[l].at = "none") /\ (l <= latestLoad => load[l].model \in Models)

(* One load at a time, the last one chosen the next; the window waits for it. *)
InLine ==
  /\ \A l, k \in Busy : l = k
  /\ T!Loading => latestLoad # 0 /\ load[latestLoad].at \in T!Pending
  /\ (Busy = {} \/ latestLoad \in Busy) => \A l \in T!Loads : load[l].at # "queued"
  /\ latestLoad # 0 => load[latestLoad].at # "dropped" /\ (load[latestLoad].at = "over" => resident \in {None, load[latestLoad].model})
  /\ loading = IF T!Loading THEN load[latestLoad].model ELSE None

ChatInv ==
  /\ Coherent(T!Window) /\ Visible(T!Window) /\ Choosing
  /\ ~hasty => Sole(T!Window, chosen, T!Loading, latestLoad)
  /\ LoadTypes /\ InLine
  /\ unloading \in BOOLEAN /\ hasty \in BOOLEAN

\* What the window shows is the window.
LEMMA ShownIs ==
  ASSUME Sizes, NEW v \in Screens, T!Show(v)
  PROVE  T!Window' = v
BY DEF Screens, T!Window, T!Show

\* A step of the chat leaves the models alone.
LEMMA ChatOnly ==
  ASSUME Sizes, ChatInv, NEW v, Coherent(v), Visible(v), T!Show(v), UNCHANGED <<chosen, load, latestLoad, loading, resident, unloading>>,
         hasty' \in BOOLEAN, selected' \in Threads \cup {None}, selected' # None => v.thread[selected'] # None,
         ~hasty' => Sole(v, chosen, T!Loading, latestLoad)
  PROVE  ChatInv'
<1>1. T!Window' = v /\ thread' = v.thread BY ShownIs DEF Coherent, T!Show
<1>2. T!Loading' = T!Loading BY DEF T!Loading
<1>3. Coherent(T!Window)' /\ Visible(T!Window)' BY <1>1
<1>4. Choosing' BY <1>1 DEF ChatInv, Choosing
<1>5. (~hasty => Sole(T!Window, chosen, T!Loading, latestLoad))' BY <1>1, <1>2
<1>6. LoadTypes' BY DEF ChatInv, LoadTypes
<1>7. InLine' BY <1>2 DEF ChatInv, InLine, Busy
<1> QED BY <1>3, <1>4, <1>5, <1>6, <1>7 DEF ChatInv

\* A request goes, in sight.
LEMMA RequestAsked ==
  ASSUME Sizes, NEW w, Coherent(w), NEW a \in T!Asks, w.ask[a].at \in {"none", "queued"}, NEW t \in Threads, NEW r \in T!Asks,
         r = a \/ EndsIn(w.thread[t], r), chosen \in [Threads -> Models], latestLoad \in {0} \cup T!Loads,
         w.thread[t] # None \/ Visible(w)
  PROVE  LET v == T!Start(w, a, t, r)
         IN /\ Coherent(v) /\ Visible(v) /\ v.thread = w.thread
            /\ w.inFlight = 0 /\ (\A b \in T!Asks : w.ask[b].at \notin InHand /\ (b # a => w.ask[b].at # "queued"))
                 => Sole(v, chosen, T!Loading, latestLoad)
<1> DEFINE v == T!Start(w, a, t, r)
<1>1. /\ Coherent(v) /\ v.thread = w.thread
      /\ \A b \in T!Asks : b # a => v.ask[b] = w.ask[b]
      /\ w.thread[t] = None => v.ask[a].at = "over" /\ v.streaming = w.streaming /\ v.inFlight = w.inFlight
      /\ w.thread[t] # None =>
           /\ v.streaming = T!Overlay(t, r) /\ v.inFlight = a
           /\ v.ask[a] = [at |-> IF T!Loading THEN "waiting" ELSE "asked", thread |-> t, reply |-> r,
                          model |-> chosen[t], sent |-> w.thread[t], on |-> latestLoad]
  BY RequestStarts
<1> HIDE DEF v
<1>2. a # 0 /\ w.inFlight \in {0} \cup T!Asks BY DEF T!Asks, Coherent, Screens
<1>3. T!Overlay(t, r) # T!NoOverlay /\ T!Overlay(t, r).thread = t BY DEF T!Overlay, T!NoOverlay, T!Asks
<1>4. Visible(v)
  <2>1. CASE w.thread[t] = None
    <3>1. Visible(w) BY <2>1
    <3>2. w.inFlight # a BY <3>1, <1>2 DEF Visible, InHand
    <3>3. w.inFlight # 0 => v.ask[w.inFlight] = w.ask[w.inFlight] BY <1>1, <1>2, <3>2
    <3>4. v.streaming = w.streaming /\ v.inFlight = w.inFlight /\ v.thread = w.thread BY <1>1, <2>1
    <3> QED BY <3>1, <3>3, <3>4 DEF Visible
  <2>2. CASE w.thread[t] # None
    <3>1. v.ask[a].at \in InHand /\ v.ask[a].thread = t /\ v.ask[a].reply = r /\ v.ask[a].sent = w.thread[t] BY <1>1, <2>2 DEF InHand
    <3>2. v.streaming.thread = t /\ v.streaming = T!Overlay(v.ask[a].thread, v.ask[a].reply) BY <1>1, <1>3, <2>2, <3>1
    <3>3. v.inFlight = a /\ v.thread[t] # None /\ v.thread[t] = w.thread[t] BY <1>1, <2>2
    <3> QED BY <1>2, <3>1, <3>2, <3>3 DEF Visible
  <2> QED BY <2>1, <2>2
<1>5. ASSUME w.inFlight = 0, \A b \in T!Asks : w.ask[b].at \notin InHand /\ (b # a => w.ask[b].at # "queued")
      PROVE  Sole(v, chosen, T!Loading, latestLoad)
  <2>1. \A b \in T!Asks : b # a => v.ask[b].at \notin InHand /\ v.ask[b].at # "queued" BY <1>1, <1>5
  <2>2. CASE w.thread[t] = None
    <3>1. v.inFlight = 0 /\ v.ask[a].at = "over" BY <1>1, <1>5, <2>2
    <3> QED BY <2>1, <3>1 DEF Sole, InHand
  <2>3. CASE w.thread[t] # None
    <3>1. /\ v.ask[a].at = (IF T!Loading THEN "waiting" ELSE "asked") /\ v.ask[a].thread = t /\ v.ask[a].model = chosen[t]
          /\ v.ask[a].on = latestLoad /\ v.inFlight = a /\ v.streaming # T!NoOverlay
      BY <1>1, <1>3, <2>3
    <3> QED BY <2>1, <3>1 DEF Sole
  <2> QED BY <2>2, <2>3
<1> QED BY <1>1, <1>4, <1>5 DEF v

\* An answer comes.
LEMMA Settled ==
  ASSUME Sizes, NEW w, Coherent(w), Visible(w), NEW a \in T!Asks, w.ask[a].at \in InHand, NEW short \in BOOLEAN
  PROVE  LET v == T!Commit(w, a, short)
         IN /\ Coherent(v) /\ Visible(v) /\ \A u \in Threads : v.thread[u] = None <=> w.thread[u] = None
            /\ Sole(w, chosen, T!Loading, latestLoad) => Sole(v, chosen, T!Loading, latestLoad)
<1> DEFINE v == T!Commit(w, a, short)
           x == w.ask[a]
           own == w.streaming = T!Overlay(x.thread, x.reply)
<1>1. Room(w, a) BY ThereIsRoom
<1>2. /\ Coherent(v) /\ v.ask[a].at = "over" /\ \A b \in T!Asks : b # a => v.ask[b] = w.ask[b]
      /\ v.inFlight = (IF w.inFlight = a THEN 0 ELSE w.inFlight)
      /\ v.streaming = (IF own THEN T!NoOverlay ELSE w.streaming)
      /\ \A u \in Threads : v.thread[u] = None <=> w.thread[u] = None
      /\ \A u \in Threads : u # x.thread \/ ~own => v.thread[u] = w.thread[u]
  BY <1>1, Committed
<1> HIDE DEF v
<1>3. w.inFlight \in {0} \cup T!Asks /\ a # 0 /\ w \in Screens BY DEF T!Asks, Coherent, Screens
<1>4. Visible(v)
  <2>1. w.inFlight = a => v.streaming = T!NoOverlay BY <1>2, <1>3 DEF Visible
  <2>2. v.inFlight # 0 => v.ask[v.inFlight] = w.ask[w.inFlight] /\ v.inFlight = w.inFlight BY <1>2, <1>3
  <2>3. ASSUME v.streaming # T!NoOverlay
        PROVE  /\ v.inFlight # 0 /\ v.streaming = w.streaming
               /\ v.thread[v.streaming.thread] = w.thread[w.streaming.thread]
    <3>1. ~own /\ v.streaming = w.streaming BY <1>2, <2>3
    <3>2. w.inFlight \in T!Asks /\ w.inFlight # a BY <1>3, <2>1, <2>3, <3>1 DEF Visible
    <3>3. w.streaming.thread \in Threads
      <4>1. w.streaming = T!Overlay(w.ask[w.inFlight].thread, w.ask[w.inFlight].reply) /\ w.ask[w.inFlight].at \in InHand
        BY <1>3, <2>3, <3>1, <3>2 DEF Visible, T!Asks
      <4>2. w.ask[w.inFlight].thread \in Threads BY <3>2, <4>1 DEF Coherent, Posed
      <4> QED BY <4>1, <4>2 DEF T!Overlay
    <3> QED BY <1>2, <3>1, <3>2, <3>3 DEF T!Asks
  <2>4. v.streaming \in {T!NoOverlay, w.streaming} BY <1>2
  <2> QED BY <2>2, <2>3, <2>4 DEF Visible
<1>5. ASSUME Sole(w, chosen, T!Loading, latestLoad) PROVE Sole(v, chosen, T!Loading, latestLoad)
  <2>1. a = w.inFlight BY <1>5 DEF Sole
  <2>2. v.inFlight = 0 BY <1>2, <2>1
  <2>3. \A b \in T!Asks : v.ask[b].at \notin InHand BY <1>2, <1>5, <2>1 DEF Sole, InHand
  <2>4. \A b \in T!Asks : v.ask[b].at # "queued" BY <1>2, <1>3, <1>5, <2>1 DEF Sole
  <2> QED BY <2>2, <2>3, <2>4 DEF Sole
<1> QED BY <1>2, <1>4, <1>5 DEF v

\* A request is stopped.
LEMMA CutOff ==
  ASSUME Sizes, NEW w, Coherent(w), w.inFlight = 0, NEW c \in T!Asks, w.ask[c].at \in InHand, Room(w, c),
         w.streaming \in {T!NoOverlay, T!Overlay(w.ask[c].thread, w.ask[c].reply)}
  PROVE  LET v == T!Commit(w, c, FALSE)
         IN /\ Coherent(v) /\ Visible(v) /\ \A u \in Threads : v.thread[u] = None <=> w.thread[u] = None
            /\ (\A b \in T!Asks : (w.ask[b].at \in InHand => b = c) /\ w.ask[b].at # "queued") => Sole(v, chosen, T!Loading, latestLoad)
<1> DEFINE v == T!Commit(w, c, FALSE)
<1>1. /\ Coherent(v) /\ v.ask[c].at = "over" /\ \A b \in T!Asks : b # c => v.ask[b] = w.ask[b]
      /\ v.inFlight = (IF w.inFlight = c THEN 0 ELSE w.inFlight)
      /\ v.streaming = (IF w.streaming = T!Overlay(w.ask[c].thread, w.ask[c].reply) THEN T!NoOverlay ELSE w.streaming)
      /\ \A u \in Threads : v.thread[u] = None <=> w.thread[u] = None
  <2>1. PICK short \in BOOLEAN : short = FALSE OBVIOUS
  <2>2. T!Commit(w, c, short) = v BY <2>1
  <2> HIDE DEF v
  <2> QED BY <2>2, Committed
<1> HIDE DEF v
<1>2. v.inFlight = 0 /\ v.streaming = T!NoOverlay BY <1>1
<1>3. Visible(v) BY <1>2 DEF Visible
<1>4. ASSUME \A b \in T!Asks : (w.ask[b].at \in InHand => b = c) /\ w.ask[b].at # "queued" PROVE Sole(v, chosen, T!Loading, latestLoad)
  <2>1. \A b \in T!Asks : v.ask[b].at \notin InHand /\ v.ask[b].at # "queued" BY <1>1, <1>4 DEF InHand
  <2> QED BY <1>2, <2>1 DEF Sole
<1> QED BY <1>1, <1>3, <1>4 DEF v
-----------------------------------------------------------------------------
(* The steps of the chat. *)

\* What the invariant says of the window, by its variables.
LEMMA WindowIs ==
  ASSUME Sizes, ChatInv
  PROVE  /\ T!Window \in Screens /\ T!Window.thread = thread /\ T!Window.ask = ask /\ T!Window.streaming = streaming /\ T!Window.inFlight = inFlight
         /\ ask \in [T!Asks -> Requested] /\ inFlight \in {0} \cup T!Asks
         /\ chosen \in [Threads -> Models] /\ latestLoad \in {0} \cup T!Loads
         /\ \A t \in Threads : thread[t] # None => thread[t] \in Seq(Texts) /\ RepliesOf(ask, t, thread[t])
<1>1. T!Window.thread = thread /\ T!Window.ask = ask /\ T!Window.streaming = streaming /\ T!Window.inFlight = inFlight BY DEF T!Window
<1>2. T!Window \in Screens BY DEF ChatInv, Coherent
<1>3. chosen \in [Threads -> Models] /\ latestLoad \in {0} \cup T!Loads BY DEF ChatInv, Choosing, LoadTypes
<1>4. \A t \in Threads : thread[t] # None => thread[t] \in Seq(Texts) /\ RepliesOf(ask, t, thread[t])
  BY <1>1, <1>2, ThreadOf DEF ChatInv, Coherent
<1>5. ask \in [T!Asks -> Requested] /\ inFlight \in {0} \cup T!Asks BY <1>1, <1>2 DEF Screens
<1> QED BY <1>1, <1>2, <1>3, <1>4, <1>5

\* A thread is changed by the person.
ThreadWith(t, s, f) == [thread |-> [thread EXCEPT ![t] = s], ask |-> ask, streaming |-> streaming, inFlight |-> f]

\* A thread is rewritten, and what it says of replies is still so.
LEMMA Edited ==
  ASSUME Sizes, ChatInv, NEW t \in Threads, NEW s \in Seq(Texts) \cup {None}, s # None => RepliesOf(ask, t, s), NEW f \in {0} \cup T!Asks
  PROVE  /\ Coherent(ThreadWith(t, s, f)) /\ ThreadWith(t, s, f).ask = ask /\ ThreadWith(t, s, f).streaming = streaming /\ ThreadWith(t, s, f).inFlight = f
         /\ ThreadWith(t, s, f).thread[t] = s /\ \A u \in Threads : u # t => ThreadWith(t, s, f).thread[u] = thread[u]
<1>1. /\ T!Window \in Screens /\ T!Window.thread = thread /\ T!Window.ask = ask /\ T!Window.streaming = streaming
      /\ Coherent(T!Window)
  BY WindowIs DEF ChatInv
<1>2. thread \in [Threads -> Seq(Texts) \cup {None}] BY <1>1 DEF Screens
<1>3. PICK g : g = [thread EXCEPT ![t] = s] OBVIOUS
<1>4. PICK w : w = [thread |-> g, ask |-> ask, streaming |-> streaming, inFlight |-> f] OBVIOUS
<1>5. w.thread = g /\ w.ask = ask /\ w.streaming = streaming /\ w.inFlight = f BY <1>4
<1>6. w.thread \in [Threads -> Seq(Texts) \cup {None}] /\ w.thread[t] = s /\ \A u \in Threads : u # t => w.thread[u] = thread[u]
  BY <1>2, <1>3, <1>5
<1>7. w \in Screens BY <1>1, <1>4, <1>5, <1>6 DEF Screens
<1>8. Coherent(w) BY <1>1, <1>5, <1>6, <1>7 DEF Coherent
<1>9. w = ThreadWith(t, s, f) BY <1>3, <1>4 DEF ThreadWith
<1> QED BY <1>5, <1>6, <1>8, <1>9

\* Nobody is asked.
LEMMA NoneGoing ==
  ASSUME Sizes, ChatInv, ~hasty, streaming = T!NoOverlay
  PROVE  inFlight = 0 /\ \A b \in T!Asks : ask[b].at \notin InHand
<1>1. Sole(T!Window, chosen, T!Loading, latestLoad) BY DEF ChatInv
<1>2. T!Window.ask = ask /\ T!Window.streaming = streaming /\ T!Window.inFlight = inFlight BY WindowIs
<1>3. inFlight = 0 BY <1>1, <1>2 DEF Sole
<1>4. 0 \notin T!Asks BY DEF Sizes, T!Asks
<1> QED BY <1>1, <1>2, <1>3, <1>4 DEF Sole

\* The person may ask.
LEMMA Free ==
  ASSUME Sizes, ChatInv, NEW a \in T!Asks, T!IsNext(T!Window, a)
  PROVE  ask[a].at = "none"
BY WindowIs DEF T!IsNext

\* A message joins its thread, and its reply is asked for or its prompt queued.
LEMMA ChatSendKeeps ==
  ASSUME Sizes, ChatInv, NEW a \in T!Asks, T!Send(a)
  PROVE  ChatInv'
<1> DEFINE s == Append(thread[selected], T!Message("user", a, a, FALSE))
           said == [T!Window EXCEPT !.thread[selected] = Append(@, T!Message("user", a, a, FALSE))]
           there == [said EXCEPT !.ask[a].at = "queued", !.ask[a].thread = selected]
<1>1. /\ streaming = T!NoOverlay /\ selected \in Threads /\ thread[selected] # None /\ ask[a].at = "none"
      /\ hasty' = (hasty \/ T!InQueue) /\ T!Kept
      /\ T!Show(T!Start(said, a, selected, a)) \/ T!Show(there)
  BY Free DEF T!Send, ChatInv, Choosing
<1>2. thread[selected] \in Seq(Texts) /\ RepliesOf(ask, selected, thread[selected]) BY <1>1, WindowIs
<1>3. s \in Seq(Texts) /\ RepliesOf(ask, selected, s)
  <2>1. T!Message("user", a, a, FALSE) \in Texts /\ T!Message("user", a, a, FALSE).k = "user" BY DEF T!Message, Texts
  <2> QED BY <1>2, <2>1, SpokenAfter
<1>4. said = ThreadWith(selected, s, inFlight)
  <2>1. PICK g : g = [thread EXCEPT ![selected] = Append(@, T!Message("user", a, a, FALSE))] OBVIOUS
  <2>2. g = [thread EXCEPT ![selected] = s] BY <2>1
  <2>3. T!Window.thread = thread BY DEF T!Window
  <2>4. said = [T!Window EXCEPT !.thread = g] BY <2>1, <2>3
  <2> HIDE DEF said, s
  <2> QED BY <2>2, <2>4 DEF T!Window, ThreadWith
<1>5. s # None BY <1>3 DEF Sizes
<1> HIDE DEF s, said
<1>6. /\ Coherent(said) /\ said.ask = ask /\ said.streaming = T!NoOverlay /\ said.inFlight = inFlight
      /\ said.thread[selected] = s /\ \A u \in Threads : u # selected => said.thread[u] = thread[u]
  <2>1. inFlight \in {0} \cup T!Asks BY WindowIs
  <2> QED BY <1>1, <1>3, <1>4, <2>1, Edited
<1>7. ~hasty' => inFlight = 0 /\ \A b \in T!Asks : ask[b].at \notin InHand /\ ask[b].at # "queued"
  <2>1. ~hasty' => ~hasty /\ ~T!InQueue BY <1>1
  <2> QED BY <1>1, <2>1, NoneGoing DEF T!InQueue
<1>8. hasty' \in BOOLEAN BY <1>1 DEF ChatInv, T!InQueue
<1>9. chosen \in [Threads -> Models] /\ latestLoad \in {0} \cup T!Loads /\ ask \in [T!Asks -> Requested] /\ inFlight \in {0} \cup T!Asks
  BY WindowIs
<1>10. CASE T!Show(T!Start(said, a, selected, a))
  <2> DEFINE v == T!Start(said, a, selected, a)
  <2>1. said.ask[a].at \in {"none", "queued"} /\ said.thread[selected] # None BY <1>1, <1>5, <1>6
  <2>2. /\ Coherent(v) /\ Visible(v) /\ v.thread = said.thread
        /\ said.inFlight = 0 /\ (\A b \in T!Asks : said.ask[b].at \notin InHand /\ (b # a => said.ask[b].at # "queued"))
              => Sole(v, chosen, T!Loading, latestLoad)
    BY <1>1, <1>6, <1>9, <2>1, RequestAsked
  <2> HIDE DEF v
  <2>3. ~hasty' => Sole(v, chosen, T!Loading, latestLoad) BY <1>6, <1>7, <2>2
  <2>4. v.thread[selected] # None /\ T!Show(v) BY <1>10, <2>1, <2>2 DEF v
  <2> QED BY <1>1, <1>8, <2>2, <2>3, <2>4, ChatOnly DEF T!Kept
<1>11. CASE T!Show(there)
  <2> DEFINE x == [said.ask[a] EXCEPT !.at = "queued", !.thread = selected]
             q == [said.ask EXCEPT ![a] = x]
  <2>1. said \in Screens BY <1>6 DEF Coherent
  <2>2. x \in Requested /\ x.at = "queued" /\ x.thread = selected
    <3>1. PICK y \in Requested : y = said.ask[a] BY <1>6, <1>9
    <3>2. PICK t \in Threads : t = selected BY <1>1
    <3>3. x = [y EXCEPT !.at = "queued", !.thread = t] BY <3>1, <3>2
    <3> HIDE DEF x
    <3> QED BY <3>2, <3>3 DEF Requested
  <2>3. there = [said EXCEPT !.ask = q]
    <3>1. said.ask[a] \in Requested BY <1>6, <1>9
    <3> QED BY <1>6, <1>9, <2>1, <3>1 DEF Screens, Requested
  <2> HIDE DEF there, x
  <2>4. q \in [T!Asks -> Requested] /\ q[a] = x /\ \A b \in T!Asks : b # a => q[b] = ask[b] BY <1>6, <1>9, <2>2
  <2>5. Posed(q, a) BY <1>1, <2>2, <2>4 DEF Posed, InHand
  <2>6. /\ \A b \in T!Asks : Posed(q, b)
        /\ \A t \in Threads, z \in Seq(Texts) : RepliesOf(ask, t, z) => RepliesOf(q, t, z)
    <3>1. \A b \in T!Asks : Posed(ask, b) BY <1>6 DEF Coherent
    <3>2. x.at \notin InHand /\ x.at \in InHand \cup {"queued"} /\ ask[a].at \in {"none", "queued"} BY <1>1, <2>2 DEF InHand
    <3>3. q = [ask EXCEPT ![a] = x] BY <1>6
    <3> HIDE DEF q
    <3>4. x \in Requested BY <2>2
    <3>5. ask \in [T!Asks -> Requested] BY <1>9
    <3> QED BY <2>5, <3>1, <3>2, <3>3, <3>4, <3>5, Begins
  <2> HIDE DEF q
  <2>7. there.ask = q /\ there.thread = said.thread /\ there.streaming = T!NoOverlay /\ there.inFlight = inFlight /\ there \in Screens
    BY <1>6, <2>1, <2>3, <2>4 DEF Screens
  <2>8. Coherent(there)
    <3>1. \A t \in Threads : there.thread[t] # None => RepliesOf(q, t, there.thread[t])
      BY <1>6, <2>1, <2>6, <2>7, ThreadOf DEF Coherent
    <3> QED BY <2>6, <2>7, <3>1 DEF Coherent
  <2>9. Visible(there)
    <3>1. inFlight # 0 => ask[inFlight].at \in InHand BY WindowIs DEF ChatInv, Visible
    <3>2. inFlight # a BY <1>1, <3>1 DEF T!Asks, InHand
    <3> QED BY <1>9, <2>4, <2>7, <3>1, <3>2 DEF Visible
  <2>10. ~hasty' => Sole(there, chosen, T!Loading, latestLoad)
    <3> SUFFICES ASSUME ~hasty' PROVE Sole(there, chosen, T!Loading, latestLoad) OBVIOUS
    <3>1. \A b \in T!Asks : there.ask[b].at \notin InHand BY <1>7, <2>2, <2>4, <2>7 DEF InHand
    <3>2. \A b \in T!Asks : there.ask[b].at = "queued" => b = a BY <1>7, <2>4, <2>7
    <3> QED BY <1>7, <2>7, <3>1, <3>2 DEF Sole
  <2>11. there.thread[selected] # None BY <1>5, <1>6, <2>7
  <2> QED BY <1>1, <1>8, <1>11, <2>8, <2>9, <2>10, <2>11, ChatOnly DEF T!Kept
<1> QED BY <1>1, <1>10, <1>11

\* The person's last word, if there is one.
LEMMA LastUserIs ==
  ASSUME Sizes, NEW s \in Seq(Texts), T!LastUser(s) # 0
  PROVE  T!LastUser(s) \in 1..Len(s) /\ s[T!LastUser(s)].k = "user"
<1>1. DOMAIN s = 1..Len(s) /\ Len(s) \in Nat BY LenProperties
<1>2. PICK p \in 1..Len(s) : s[p].k = "user" BY <1>1 DEF T!LastUser
<1> DEFINE after == {Len(s) - i : i \in {j \in 1..Len(s) : s[j].k = "user"}}
<1>3. after \subseteq Nat /\ Len(s) - p \in after BY <1>1, <1>2
<1> HIDE DEF after
<1>4. PICK n \in after : \A m \in after : ~(<<m, n>> \in OpToRel(<, Nat))
  BY <1>3, NatLessThanWellFounded, WFMin
<1>5. \A m \in after : ~(m < n) BY <1>3, <1>4 DEF OpToRel
<1>6. PICK i \in 1..Len(s) : s[i].k = "user" /\ n = Len(s) - i BY DEF after
<1>7. \A j \in 1..Len(s) : s[j].k = "user" => j <= i
  <2> SUFFICES ASSUME NEW j \in 1..Len(s), s[j].k = "user" PROVE j <= i OBVIOUS
  <2>1. Len(s) - j \in after BY DEF after
  <2> QED BY <1>1, <1>5, <1>6, <2>1
<1>8. \A j \in 1..Len(s) : s[j].k \in {"user", "reply"}
  <2>1. \A j \in 1..Len(s) : s[j] \in Texts BY ElementOfSeq
  <2> QED BY <2>1 DEF Texts
<1>9. \A j \in (i + 1)..Len(s) : s[j].k = "reply" BY <1>1, <1>7, <1>8
<1> QED BY <1>1, <1>6, <1>9 DEF T!LastUser

\* The prompt was queued, and its reply is asked for.
LEMMA QueuedKeeps ==
  ASSUME Sizes, ChatInv, NEW a \in T!Asks, T!Queued(a)
  PROVE  ChatInv'
<1> DEFINE t == ask[a].thread
           v == T!Start(T!Window, a, t, a)
<1>1. ask[a].at = "queued" /\ T!Show(v) /\ T!Kept /\ hasty' = hasty BY DEF T!Queued
<1>2. /\ T!Window \in Screens /\ T!Window.thread = thread /\ T!Window.ask = ask /\ T!Window.inFlight = inFlight
      /\ chosen \in [Threads -> Models] /\ latestLoad \in {0} \cup T!Loads /\ Coherent(T!Window) /\ Visible(T!Window)
  BY WindowIs DEF ChatInv
<1>3. t \in Threads BY <1>1, <1>2 DEF Coherent, Posed
<1>4. /\ Coherent(v) /\ Visible(v) /\ v.thread = thread
      /\ inFlight = 0 /\ (\A b \in T!Asks : ask[b].at \notin InHand /\ (b # a => ask[b].at # "queued")) => Sole(v, chosen, T!Loading, latestLoad)
  BY <1>1, <1>2, <1>3, RequestAsked
<1> HIDE DEF v
<1>5. ASSUME ~hasty PROVE Sole(v, chosen, T!Loading, latestLoad)
  <2>1. Sole(T!Window, chosen, T!Loading, latestLoad) BY <1>5 DEF ChatInv
  <2>2. inFlight = 0 /\ 0 \notin T!Asks BY <1>1, <1>2, <2>1 DEF Sizes, Sole, T!Asks
  <2>3. \A b \in T!Asks : ask[b].at \notin InHand /\ (b # a => ask[b].at # "queued") BY <1>1, <1>2, <2>1, <2>2 DEF Sole
  <2> QED BY <1>4, <2>2, <2>3
<1>6. selected' \in Threads \cup {None} /\ (selected' # None => v.thread[selected'] # None) BY <1>1, <1>4 DEF T!Kept, ChatInv, Choosing
<1> QED BY <1>1, <1>4, <1>5, <1>6, ChatOnly DEF T!Kept, ChatInv

\* The transcript's buttons ask of the thread that is open.
LEMMA Pressed ==
  ASSUME Sizes, ChatInv, NEW a \in T!Asks, ask[a].at = "none", streaming = T!NoOverlay, selected # None,
         NEW s \in Seq(Texts), RepliesOf(ask, selected, s), NEW w, w = ThreadWith(selected, s, inFlight),
         NEW r \in T!Asks, r = a \/ EndsIn(s, r), T!Show(T!Start(w, a, selected, r)),
         hasty' = (hasty \/ T!InQueue), T!Kept
  PROVE  ChatInv'
<1> DEFINE v == T!Start(w, a, selected, r)
<1>1. selected \in Threads /\ chosen \in [Threads -> Models] /\ latestLoad \in {0} \cup T!Loads /\ inFlight \in {0} \cup T!Asks /\ s # None
  BY WindowIs DEF Sizes, ChatInv, Choosing
<1>2. Coherent(w) /\ w.ask = ask /\ w.inFlight = inFlight /\ w.thread[selected] = s BY <1>1, Edited
<1>3. /\ Coherent(v) /\ Visible(v) /\ v.thread = w.thread
      /\ inFlight = 0 /\ (\A b \in T!Asks : ask[b].at \notin InHand /\ (b # a => ask[b].at # "queued")) => Sole(v, chosen, T!Loading, latestLoad)
  BY <1>1, <1>2, RequestAsked
<1> HIDE DEF v
<1>4. ~hasty' => inFlight = 0 /\ \A b \in T!Asks : ask[b].at \notin InHand /\ ask[b].at # "queued"
  BY NoneGoing DEF T!InQueue
<1>5. hasty' \in BOOLEAN BY DEF ChatInv, T!InQueue
<1>6. v.thread[selected'] # None /\ selected' \in Threads \cup {None} BY <1>1, <1>2, <1>3 DEF T!Kept
<1>7. T!Show(v) BY DEF v
<1>8. ~hasty' => Sole(v, chosen, T!Loading, latestLoad) BY <1>3, <1>4
<1> QED BY <1>3, <1>5, <1>6, <1>7, <1>8, ChatOnly DEF T!Kept

\* The last word of the person is answered again.
LEMMA RegenerateKeeps ==
  ASSUME Sizes, ChatInv, NEW a \in T!Asks, T!regenerate(a)
  PROVE  ChatInv'
<1> DEFINE i == T!LastUser(thread[selected])
           s == SubSeq(thread[selected], 1, i)
           w == [T!Window EXCEPT !.thread[selected] = SubSeq(@, 1, i)]
<1>1. /\ i # 0 /\ T!Show(T!Start(w, a, selected, a)) /\ hasty' = (hasty \/ T!InQueue) /\ T!Kept
      /\ ask[a].at = "none" /\ streaming = T!NoOverlay /\ selected # None
  BY Free DEF T!regenerate, T!Ready
<1>2. thread[selected] \in Seq(Texts) /\ RepliesOf(ask, selected, thread[selected])
  BY <1>1, WindowIs DEF ChatInv, Choosing
<1>3. i \in 0..Len(thread[selected]) BY <1>1, <1>2, LastUserIs
<1> HIDE DEF i
<1>4. s \in Seq(Texts) /\ RepliesOf(ask, selected, s) BY <1>2, <1>3, Shortened
<1>5. w = ThreadWith(selected, s, inFlight)
  <2>1. PICK g : g = [thread EXCEPT ![selected] = SubSeq(@, 1, i)] OBVIOUS
  <2>2. g = [thread EXCEPT ![selected] = s] BY <2>1
  <2>3. T!Window.thread = thread BY DEF T!Window
  <2>4. w = [T!Window EXCEPT !.thread = g] BY <2>1, <2>3
  <2> HIDE DEF w, s
  <2> QED BY <2>2, <2>4 DEF T!Window, ThreadWith
<1> HIDE DEF w, s
<1> QED BY <1>1, <1>4, <1>5, Pressed

\* A reply that was cut is gone on with.
LEMMA ContinueKeeps ==
  ASSUME Sizes, ChatInv, NEW a \in T!Asks, T!continueGeneration(a)
  PROVE  ChatInv'
<1> DEFINE s == thread[selected]
           r == s[Len(s)].is
<1>1. /\ T!Show(T!Start(T!Window, a, selected, r)) /\ hasty' = (hasty \/ T!InQueue) /\ T!Kept /\ s # <<>> /\ s[Len(s)].k = "reply"
      /\ ask[a].at = "none" /\ streaming = T!NoOverlay /\ selected # None
  BY Free DEF T!continueGeneration, T!Ready
<1>2. s \in Seq(Texts) /\ RepliesOf(ask, selected, s) /\ selected \in Threads
  BY <1>1, WindowIs DEF ChatInv, Choosing
<1>3. EndsIn(s, r) BY <1>1 DEF EndsIn
<1>4. r \in T!Asks
  <2>1. Len(s) \in 1..Len(s) BY <1>1, <1>2, EmptySeq, LenProperties
  <2>2. s[Len(s)] \in Texts BY <1>2, <2>1, ElementOfSeq
  <2> QED BY <2>2 DEF Texts
<1>5. T!Window = ThreadWith(selected, s, inFlight)
  <2>1. thread \in [Threads -> Seq(Texts) \cup {None}] BY WindowIs DEF Screens
  <2>2. thread = [thread EXCEPT ![selected] = s] BY <1>2, <2>1
  <2> HIDE DEF s
  <2> QED BY <2>2 DEF T!Window, ThreadWith
<1> HIDE DEF s, r
<1> QED BY <1>1, <1>2, <1>3, <1>4, <1>5, Pressed

\* The answer comes, or its failure.
LEMMA AnsweredKeeps ==
  ASSUME Sizes, ChatInv, NEW a \in T!Asks, T!Answered(a)
  PROVE  ChatInv'
<1>1. PICK short \in BOOLEAN : T!Show(T!Commit(T!Window, a, short)) BY DEF T!Answered
<1> DEFINE v == T!Commit(T!Window, a, short)
<1>2. /\ T!Window.thread = thread /\ T!Window.ask = ask /\ Coherent(T!Window) /\ Visible(T!Window)
      /\ ask[a].at \in InHand /\ T!Kept /\ hasty' = hasty
  BY WindowIs DEF ChatInv, T!Answered, InHand
<1>3. /\ Coherent(v) /\ Visible(v) /\ \A u \in Threads : v.thread[u] = None <=> thread[u] = None
      /\ Sole(T!Window, chosen, T!Loading, latestLoad) => Sole(v, chosen, T!Loading, latestLoad)
  BY <1>2, Settled
<1>4. T!Show(v) BY <1>1
<1> HIDE DEF v
<1>5. ~hasty' => Sole(v, chosen, T!Loading, latestLoad) BY <1>2, <1>3 DEF ChatInv
<1>6. selected' \in Threads \cup {None} /\ (selected' # None => v.thread[selected'] # None) BY <1>2, <1>3 DEF T!Kept, ChatInv, Choosing
<1> QED BY <1>2, <1>3, <1>4, <1>5, <1>6, ChatOnly DEF T!Kept, ChatInv

\* A request stopped leaves the window in order.
LEMMA Stopping ==
  ASSUME Sizes, ChatInv, NEW w, Coherent(w), w.ask = ask, w.streaming = streaming, w.inFlight = 0, inFlight # 0, Room(w, inFlight),
         T!Show(T!Commit(w, inFlight, FALSE)), UNCHANGED <<chosen, load, latestLoad, loading, resident, unloading>>,
         hasty' \in BOOLEAN, ~hasty' => ~hasty,
         selected' \in Threads \cup {None}, selected' # None => w.thread[selected'] # None
  PROVE  ChatInv'
<1> DEFINE c == inFlight
           v == T!Commit(w, c, FALSE)
<1>1. /\ T!Window.thread = thread /\ T!Window.ask = ask /\ T!Window.streaming = streaming /\ T!Window.inFlight = inFlight
      /\ c \in T!Asks /\ Visible(T!Window)
  BY WindowIs DEF ChatInv
<1>2. ask[c].at \in InHand /\ streaming \in {T!NoOverlay, T!Overlay(ask[c].thread, ask[c].reply)} BY <1>1 DEF Visible
<1>3. /\ Coherent(v) /\ Visible(v) /\ \A u \in Threads : v.thread[u] = None <=> w.thread[u] = None
      /\ (\A b \in T!Asks : (ask[b].at \in InHand => b = c) /\ ask[b].at # "queued") => Sole(v, chosen, T!Loading, latestLoad)
  <2>1. w.inFlight = 0 /\ w.ask[c].at \in InHand /\ Room(w, c) /\ w.streaming \in {T!NoOverlay, T!Overlay(w.ask[c].thread, w.ask[c].reply)}
    BY <1>2
  <2>2. /\ Coherent(v) /\ Visible(v) /\ \A u \in Threads : v.thread[u] = None <=> w.thread[u] = None
        /\ (\A b \in T!Asks : (w.ask[b].at \in InHand => b = c) /\ w.ask[b].at # "queued") => Sole(v, chosen, T!Loading, latestLoad)
    BY <1>1, <2>1, CutOff
  <2> HIDE DEF v
  <2> QED BY <2>2
<1>4. T!Show(v) OBVIOUS
<1> HIDE DEF v
<1>5. ASSUME ~hasty' PROVE Sole(v, chosen, T!Loading, latestLoad)
  <2>1. Sole(T!Window, chosen, T!Loading, latestLoad) BY <1>5 DEF ChatInv
  <2>2. \A b \in T!Asks : (ask[b].at \in InHand => b = c) /\ ask[b].at # "queued" BY <1>1, <2>1 DEF Sole
  <2> QED BY <1>3, <2>2
<1>6. selected' # None => v.thread[selected'] # None BY <1>3
<1> QED BY <1>3, <1>4, <1>5, <1>6, ChatOnly

\* Or there is none to stop, and nothing of it on the screen.
LEMMA Turning ==
  ASSUME Sizes, ChatInv, NEW w, Coherent(w), w.ask = ask, w.streaming = streaming, w.inFlight = inFlight,
         streaming # T!NoOverlay => w.thread[streaming.thread] = thread[streaming.thread],
         T!Show(w), UNCHANGED <<chosen, load, latestLoad, loading, resident, unloading>>,
         hasty' \in BOOLEAN, ~hasty' => ~hasty,
         selected' \in Threads \cup {None}, selected' # None => w.thread[selected'] # None
  PROVE  ChatInv'
<1>1. /\ T!Window.thread = thread /\ T!Window.ask = ask /\ T!Window.streaming = streaming /\ T!Window.inFlight = inFlight
      /\ Visible(T!Window)
  BY WindowIs DEF ChatInv
<1>2. Visible(w) BY <1>1 DEF Visible
<1>3. ASSUME ~hasty' PROVE Sole(w, chosen, T!Loading, latestLoad)
  <2>1. Sole(T!Window, chosen, T!Loading, latestLoad) BY <1>3 DEF ChatInv
  <2> QED BY <1>1, <2>1 DEF Sole
<1> QED BY <1>2, <1>3, ChatOnly

\* The person stops it.
LEMMA ChatStopKeeps ==
  ASSUME Sizes, ChatInv, T!Stop
  PROVE  ChatInv'
<1> DEFINE w == T!Aborted(T!Window)
<1>1. inFlight # 0 /\ T!Show(T!Commit(w, inFlight, FALSE)) /\ T!Kept /\ hasty' = hasty BY DEF T!Stop, T!Unwound
<1>2. /\ T!Window \in Screens /\ T!Window.thread = thread /\ T!Window.ask = ask /\ T!Window.streaming = streaming
      /\ inFlight \in T!Asks /\ Coherent(T!Window) /\ Visible(T!Window) /\ ask[inFlight].at \in InHand
  BY <1>1, WindowIs DEF ChatInv, Visible
<1>3. w = [thread |-> thread, ask |-> ask, streaming |-> streaming, inFlight |-> 0] BY DEF T!Aborted, T!Window
<1> HIDE DEF w
<1>4. w.thread = thread /\ w.ask = ask /\ w.streaming = streaming /\ w.inFlight = 0 BY <1>3
<1>5. w \in Screens BY <1>2, <1>3, <1>4 DEF Screens
<1>6. Coherent(w) BY <1>2, <1>4, <1>5 DEF Coherent
<1>7. Room(T!Window, inFlight) BY <1>2, ThereIsRoom
<1>8. Room(w, inFlight) BY <1>2, <1>4, <1>7 DEF Room
<1>9. selected' \in Threads \cup {None} /\ (selected' # None => w.thread[selected'] # None) BY <1>1, <1>4 DEF T!Kept, ChatInv, Choosing
<1> QED BY <1>1, <1>4, <1>6, <1>8, <1>9, Stopping DEF T!Kept, ChatInv

\* Opens another thread.
LEMMA SelectKeeps ==
  ASSUME Sizes, ChatInv, NEW t \in Threads, T!Select(t)
  PROVE  ChatInv'
<1>1. /\ thread[t] # None /\ selected' = t
      /\ UNCHANGED <<thread, chosen, ask, streaming, inFlight, load, latestLoad, loading, resident, unloading, hasty>>
  BY DEF T!Select
<1>2. /\ Coherent(T!Window) /\ T!Window.ask = ask /\ T!Window.streaming = streaming /\ T!Window.inFlight = inFlight /\ T!Window.thread = thread
  BY WindowIs DEF ChatInv
<1>3. T!Show(T!Window) BY <1>1, <1>2 DEF T!Show
<1> QED BY <1>1, <1>2, <1>3, Turning DEF ChatInv

\* What Edited says of a window.
EditedTo(t, s, f) ==
  /\ Coherent(ThreadWith(t, s, f)) /\ ThreadWith(t, s, f).ask = ask /\ ThreadWith(t, s, f).streaming = streaming /\ ThreadWith(t, s, f).inFlight = f
  /\ ThreadWith(t, s, f).thread[t] = s /\ \A u \in Threads : u # t => ThreadWith(t, s, f).thread[u] = thread[u]

\* A thread that is emptied, or is none, has no reply.
LEMMA Cleared ==
  ASSUME Sizes, ChatInv, NEW t \in Threads, NEW s \in {<<>>, None}, NEW f \in {0} \cup T!Asks
  PROVE  EditedTo(t, s, f)
<1>1. <<>> \in Seq(Texts) /\ Len(<<>>) = 0 BY EmptySeq
<1>2. RepliesOf(ask, t, <<>>) BY <1>1 DEF RepliesOf
<1>3. PICK v \in Seq(Texts) \cup {None} : v = s /\ (v # None => RepliesOf(ask, t, v)) BY <1>1, <1>2
<1>4. EditedTo(t, v, f) BY <1>3, Edited DEF EditedTo
<1> QED BY <1>3, <1>4

\* A thread is emptied, or goes, with what streams into it.
LEMMA ThreadEmptied ==
  ASSUME Sizes, ChatInv, NEW t \in Threads, thread[t] # None, NEW s \in {<<>>, None}, NEW here, here = (IF streaming.thread = t THEN inFlight ELSE 0),
         NEW w, w = ThreadWith(t, s, IF here = 0 THEN inFlight ELSE 0), T!Show(T!Unwound(w, here)),
         UNCHANGED <<chosen, load, latestLoad, loading, resident, unloading>>, hasty' = (hasty \/ T!InQueue),
         selected' \in Threads \cup {None}, selected' # None => w.thread[selected'] # None
  PROVE  ChatInv'
<1>1. inFlight \in {0} \cup T!Asks /\ (IF here = 0 THEN inFlight ELSE 0) \in {0} \cup T!Asks BY WindowIs
<1>3. /\ Coherent(w) /\ w.ask = ask /\ w.streaming = streaming /\ w.inFlight = (IF here = 0 THEN inFlight ELSE 0)
      /\ w.thread[t] = s /\ \A u \in Threads : u # t => w.thread[u] = thread[u]
  <2>1. PICK f \in {0} \cup T!Asks : f = (IF here = 0 THEN inFlight ELSE 0) BY <1>1
  <2>2. w = ThreadWith(t, s, f) BY <2>1
  <2>3. EditedTo(t, s, f) BY <2>1, Cleared
  <2> QED BY <2>1, <2>2, <2>3 DEF EditedTo
<1>4. hasty' \in BOOLEAN /\ (~hasty' => ~hasty) BY DEF ChatInv, T!InQueue
<1>5. /\ T!Window.thread = thread /\ T!Window.ask = ask /\ T!Window.streaming = streaming /\ T!Window.inFlight = inFlight
      /\ Visible(T!Window)
  BY WindowIs DEF ChatInv
<1>6. CASE here = 0
  <2>1. T!Show(w) BY <1>6 DEF T!Unwound
  <2>2. ASSUME streaming # T!NoOverlay PROVE w.thread[streaming.thread] = thread[streaming.thread]
    <3>1. inFlight # 0 /\ streaming = T!Overlay(ask[inFlight].thread, ask[inFlight].reply) /\ ask[inFlight].at \in InHand
      BY <1>5, <2>2 DEF Visible
    <3>2. streaming.thread # t BY <1>6, <3>1
    <3>3. streaming.thread \in Threads
      <4>1. inFlight \in T!Asks BY <1>1, <3>1
      <4>2. Posed(ask, inFlight) BY <1>3, <4>1 DEF Coherent
      <4>3. ask[inFlight].thread \in Threads BY <3>1, <4>2 DEF Posed
      <4> QED BY <3>1, <4>3 DEF T!Overlay
    <3> QED BY <1>3, <3>2, <3>3
  <2> QED BY <1>3, <1>4, <1>6, <2>1, <2>2, Turning
<1>7. CASE here # 0
  <2>1. streaming.thread = t /\ here = inFlight /\ inFlight # 0 /\ T!Show(T!Commit(w, inFlight, FALSE)) BY <1>7 DEF T!Unwound
  <2>2. w.inFlight = 0 BY <1>3, <1>7
  <2>3. Room(w, inFlight)
    <3> DEFINE x == ask[inFlight]
    <3> SUFFICES ASSUME streaming = T!Overlay(x.thread, x.reply) PROVE w.thread[x.thread] \in {None, <<>>}
      BY <1>3 DEF Room
    <3>1. x.thread = t BY <2>1 DEF T!Overlay
    <3> QED BY <1>3, <3>1
  <2> QED BY <1>3, <1>4, <2>1, <2>2, <2>3, Stopping
<1> QED BY <1>6, <1>7

\* Empties one.
LEMMA ChatClearKeeps ==
  ASSUME Sizes, ChatInv, T!Clear
  PROVE  ChatInv'
<1> DEFINE here == IF streaming.thread = selected THEN inFlight ELSE 0
           w == [(IF here = 0 THEN T!Window ELSE T!Aborted(T!Window)) EXCEPT !.thread[selected] = <<>>]
           f == IF here = 0 THEN inFlight ELSE 0
<1>1. /\ selected \in Threads /\ thread[selected] # None /\ T!Show(T!Unwound(w, here)) /\ hasty' = (hasty \/ T!InQueue)
      /\ UNCHANGED <<chosen, selected, load, latestLoad, loading, resident, unloading>>
  BY DEF T!Clear, ChatInv, Choosing
<1>2. w = ThreadWith(selected, <<>>, f)
  <2>1. PICK g : g = [thread EXCEPT ![selected] = <<>>] OBVIOUS
  <2>2. T!Window.thread = thread /\ T!Aborted(T!Window).thread = thread BY DEF T!Window, T!Aborted
  <2>3. w = [(IF here = 0 THEN T!Window ELSE T!Aborted(T!Window)) EXCEPT !.thread = g] BY <2>1, <2>2
  <2> HIDE DEF w, here
  <2> QED BY <2>1, <2>3 DEF T!Window, T!Aborted, ThreadWith
<1> HIDE DEF w
<1>3. w.thread[selected] = <<>> /\ <<>> # None
  <2>1. w.thread = [thread EXCEPT ![selected] = <<>>] BY <1>2 DEF ThreadWith
  <2>2. thread \in [Threads -> Seq(Texts) \cup {None}] BY WindowIs DEF Screens
  <2>3. <<>> # None BY EmptySeq DEF Sizes
  <2> QED BY <1>1, <2>1, <2>2, <2>3
<1> HIDE DEF here
<1>4. here = (IF streaming.thread = selected THEN inFlight ELSE 0) BY DEF here
<1> QED BY <1>1, <1>2, <1>3, <1>4, ThreadEmptied

\* Deletes one.
LEMMA ChatDeleteKeeps ==
  ASSUME Sizes, ChatInv, NEW t \in Threads, T!Delete(t)
  PROVE  ChatInv'
<1> DEFINE here == IF streaming.thread = t THEN inFlight ELSE 0
           w == [(IF here = 0 THEN T!Window ELSE T!Aborted(T!Window)) EXCEPT !.thread[t] = None]
           f == IF here = 0 THEN inFlight ELSE 0
           others == {u \in Threads \ {t} : thread[u] # None}
<1>1. /\ thread[t] # None /\ T!Show(T!Unwound(w, here)) /\ hasty' = (hasty \/ T!InQueue)
      /\ selected' \in (IF selected # t THEN {selected} ELSE IF others = {} THEN {None} ELSE others)
      /\ UNCHANGED <<chosen, load, latestLoad, loading, resident, unloading>>
  BY DEF T!Delete
<1>2. w = ThreadWith(t, None, f)
  <2>1. PICK g : g = [thread EXCEPT ![t] = None] OBVIOUS
  <2>2. T!Window.thread = thread /\ T!Aborted(T!Window).thread = thread BY DEF T!Window, T!Aborted
  <2>3. w = [(IF here = 0 THEN T!Window ELSE T!Aborted(T!Window)) EXCEPT !.thread = g] BY <2>1, <2>2
  <2> HIDE DEF w, here
  <2> QED BY <2>1, <2>3 DEF T!Window, T!Aborted, ThreadWith
<1> HIDE DEF w
<1>3. selected' \in Threads \cup {None} /\ (selected' # None => w.thread[selected'] # None)
  <2>1. w.thread = [thread EXCEPT ![t] = None] BY <1>2 DEF ThreadWith
  <2>2. thread \in [Threads -> Seq(Texts) \cup {None}] BY WindowIs DEF Screens
  <2>3. \A u \in Threads : u # t => w.thread[u] = thread[u] BY <2>1, <2>2
  <2>4. selected \in Threads \cup {None} /\ (selected # None => thread[selected] # None) BY DEF ChatInv, Choosing
  <2>5. CASE selected # t BY <1>1, <2>3, <2>4, <2>5
  <2>6. CASE selected = t BY <1>1, <2>3, <2>6
  <2> QED BY <2>5, <2>6
<1> HIDE DEF here
<1>4. here = (IF streaming.thread = t THEN inFlight ELSE 0) BY DEF here
<1> QED BY <1>1, <1>2, <1>3, <1>4, ThreadEmptied

\* Rewrites a message: what streams is stopped once the next reply has begun.
LEMMA EditKeeps ==
  ASSUME Sizes, ChatInv, NEW a \in T!Asks, selected # None, NEW i \in DOMAIN thread[selected], T!editMessage(a, i)
  PROVE  ChatInv'
<1> DEFINE b == [thread[selected][i] EXCEPT !.by = a]
           s == Append(SubSeq(thread[selected], 1, i - 1), b)
           edited == [T!Aborted(T!Window) EXCEPT !.thread[selected] = Append(SubSeq(@, 1, i - 1), [@[i] EXCEPT !.by = a])]
           w == T!Start(edited, a, selected, a)
           v == T!Unwound(w, inFlight)
<1>1. /\ ask[a].at = "none" /\ selected \in Threads /\ thread[selected] # None /\ thread[selected][i].k = "user"
      /\ streaming.thread \in {None, selected} /\ T!Show(v) /\ hasty' = (hasty \/ T!InQueue) /\ T!Kept
  BY Free DEF T!editMessage, ChatInv, Choosing
<1>2. /\ T!Window.thread = thread /\ T!Window.ask = ask /\ T!Window.streaming = streaming /\ T!Window.inFlight = inFlight
      /\ inFlight \in {0} \cup T!Asks /\ chosen \in [Threads -> Models] /\ latestLoad \in {0} \cup T!Loads /\ 0 \notin T!Asks
      /\ Coherent(T!Window) /\ Visible(T!Window) /\ thread[selected] \in Seq(Texts) /\ RepliesOf(ask, selected, thread[selected])
      /\ hasty \in BOOLEAN
  BY <1>1, WindowIs DEF Sizes, ChatInv, T!Asks
<1>3. s \in Seq(Texts) /\ RepliesOf(ask, selected, s)
  <2>1. i \in 1..Len(thread[selected]) /\ i - 1 \in 0..Len(thread[selected]) BY <1>2, LenProperties
  <2>2. thread[selected][i] \in Texts BY <1>2, <2>1, ElementOfSeq
  <2>3. b \in Texts /\ b.k = "user" BY <1>1, <2>2 DEF Texts
  <2> HIDE DEF b
  <2>4. SubSeq(thread[selected], 1, i - 1) \in Seq(Texts) /\ RepliesOf(ask, selected, SubSeq(thread[selected], 1, i - 1))
    BY <1>2, <2>1, Shortened
  <2> QED BY <2>3, <2>4, SpokenAfter
<1>4. edited = ThreadWith(selected, s, 0)
  <2>1. PICK g : g = [thread EXCEPT ![selected] = Append(SubSeq(@, 1, i - 1), [@[i] EXCEPT !.by = a])] OBVIOUS
  <2>2. g = [thread EXCEPT ![selected] = s] BY <2>1
  <2>3. T!Aborted(T!Window).thread = thread BY DEF T!Window, T!Aborted
  <2>4. edited = [T!Aborted(T!Window) EXCEPT !.thread = g] BY <2>1, <2>3
  <2> HIDE DEF edited, s
  <2> QED BY <2>2, <2>4 DEF T!Window, T!Aborted, ThreadWith
<1> HIDE DEF edited, s, b
<1>5. s # None BY <1>3 DEF Sizes
<1>6. /\ Coherent(edited) /\ edited.ask = ask /\ edited.streaming = streaming /\ edited.inFlight = 0
      /\ edited.thread[selected] = s /\ \A u \in Threads : u # selected => edited.thread[u] = thread[u]
  BY <1>1, <1>3, <1>4, Edited
<1>7. /\ Coherent(w) /\ Visible(w) /\ w.thread = edited.thread
      /\ (\A c \in T!Asks : ask[c].at \notin InHand /\ (c # a => ask[c].at # "queued")) => Sole(w, chosen, T!Loading, latestLoad)
  BY <1>1, <1>2, <1>5, <1>6, RequestAsked
<1>8. /\ \A c \in T!Asks : c # a => w.ask[c] = ask[c]
      /\ w.streaming = T!Overlay(selected, a) /\ w.inFlight = a
      /\ w.ask[a] = [at |-> IF T!Loading THEN "waiting" ELSE "asked", thread |-> selected, reply |-> a,
                     model |-> chosen[selected], sent |-> s, on |-> latestLoad]
  BY <1>1, <1>2, <1>5, <1>6, RequestStarts
<1> HIDE DEF w
<1>9. ~hasty' => ~hasty /\ \A c \in T!Asks : ask[c].at # "queued" BY <1>1 DEF T!InQueue
<1>10. Coherent(v) /\ Visible(v) /\ (\A u \in Threads : v.thread[u] = None <=> w.thread[u] = None) /\ (~hasty' => Sole(v, chosen, T!Loading, latestLoad))
  <2>1. CASE inFlight = 0
    <3>1. v = w BY <2>1 DEF T!Unwound
    <3>2. streaming = T!NoOverlay BY <1>2, <2>1 DEF Visible
    <3>3. ~hasty => \A c \in T!Asks : ask[c].at \notin InHand BY <3>2, NoneGoing
    <3> HIDE DEF v
    <3> QED BY <1>7, <1>9, <3>1, <3>3
  <2>2. CASE inFlight # 0
    <3> DEFINE c == inFlight
    <3>1. c \in T!Asks /\ ask[c].at \in InHand BY <1>2, <2>2 DEF Visible
    <3>2. c # a BY <1>1, <3>1 DEF InHand
    <3>3. w.ask[c] = ask[c] BY <1>8, <3>1, <3>2
    <3>4. ask[c].reply # a
      <4>1. ask[c].reply # c => ask[ask[c].reply].at = "over" BY <1>2, <3>1 DEF Coherent, Posed
      <4> QED BY <1>1, <3>2, <4>1
    <3>5. w.streaming # T!Overlay(w.ask[c].thread, w.ask[c].reply) BY <1>8, <3>3, <3>4 DEF T!Overlay
    <3>6. Room(w, c) BY <3>5 DEF Room
    <3>7. PICK short \in BOOLEAN : short = FALSE OBVIOUS
    <3>8. v = T!Commit(w, c, short) BY <2>2, <3>7 DEF T!Unwound
    <3> HIDE DEF v
    <3>9. /\ Coherent(v) /\ v.ask[c].at = "over" /\ \A z \in T!Asks : z # c => v.ask[z] = w.ask[z]
          /\ v.inFlight = (IF w.inFlight = c THEN 0 ELSE w.inFlight)
          /\ v.streaming = w.streaming
          /\ \A u \in Threads : v.thread[u] = None <=> w.thread[u] = None
          /\ \A u \in Threads : v.thread[u] = w.thread[u]
      <4>1. w.ask[c].at \in InHand BY <3>1, <3>3
      <4> HIDE DEF c
      <4>2. c \in T!Asks BY <3>1
      <4> QED BY <1>7, <3>5, <3>6, <3>8, <4>1, <4>2, Committed
    <3>10. v.inFlight = a /\ v.ask[a] = w.ask[a] BY <1>8, <3>2, <3>9
    <3>11. v.ask[a].at \in InHand /\ v.ask[a].thread = selected /\ v.ask[a].reply = a /\ v.ask[a].sent = s
           /\ v.ask[a].model = chosen[selected] /\ v.ask[a].on = latestLoad /\ v.ask[a].at = (IF T!Loading THEN "waiting" ELSE "asked")
      BY <1>8, <3>10 DEF InHand
    <3>12. v.thread[selected] = s /\ v.streaming = T!Overlay(selected, a) BY <1>1, <1>6, <1>7, <1>8, <3>9
    <3>13. v.streaming.thread = selected /\ v.streaming # T!NoOverlay BY <1>2, <3>12 DEF T!Overlay, T!NoOverlay
    <3>14. Visible(v)
      <4>1. v.streaming = T!Overlay(v.ask[a].thread, v.ask[a].reply) BY <3>11, <3>12
      <4>2. v.inFlight # 0 BY <1>2, <3>10
      <4>3. v.thread[v.streaming.thread] # None /\ v.thread[v.streaming.thread] = v.ask[v.inFlight].sent
        BY <1>5, <3>10, <3>11, <3>12, <3>13
      <4> QED BY <3>10, <3>11, <4>1, <4>2, <4>3 DEF Visible
    <3>15. ASSUME ~hasty' PROVE Sole(v, chosen, T!Loading, latestLoad)
      <4>1. Sole(T!Window, chosen, T!Loading, latestLoad) BY <1>9, <3>15 DEF ChatInv
      <4>2. \A z \in T!Asks : ask[z].at \in InHand => z = c BY <1>2, <4>1 DEF Sole
      <4>3. \A z \in T!Asks : z # a => v.ask[z].at \notin InHand /\ v.ask[z].at # "queued"
        BY <1>8, <1>9, <3>9, <3>15, <4>2 DEF InHand
      <4> QED BY <3>10, <3>11, <3>13, <4>3 DEF Sole, InHand
    <3> QED BY <3>9, <3>14, <3>15
  <2> QED BY <2>1, <2>2
<1>11. v.thread[selected] # None BY <1>1, <1>5, <1>6, <1>7, <1>10
<1> HIDE DEF v
<1>12. hasty' \in BOOLEAN BY <1>1 DEF ChatInv, T!InQueue
<1> QED BY <1>1, <1>10, <1>11, <1>12, ChatOnly DEF T!Kept
-----------------------------------------------------------------------------
(* The models. *)

\* A load is carried out next, and the others that wait are dropped; or one is under way.
LEMMA CarriedOut ==
  ASSUME Sizes, NEW q \in [T!Loads -> LoadKinds], NEW last \in T!Loads, NEW p, p = T!Carried(q, last)
  PROVE  /\ p \in [T!Loads -> LoadKinds]
         /\ \A l \in T!Loads : p[l].model = q[l].model
         /\ IF \E l \in T!Loads : q[l].at \in {"asked", "refreshing"} THEN p = q
            ELSE \A l \in T!Loads : p[l].at = IF q[l].at # "queued" THEN q[l].at ELSE IF l = last THEN "asked" ELSE "dropped"
<1>1. CASE \E l \in T!Loads : q[l].at \in {"asked", "refreshing"} BY <1>1 DEF T!Carried
<1>2. CASE ~\E l \in T!Loads : q[l].at \in {"asked", "refreshing"}
  <2>1. p = [l \in T!Loads |-> IF q[l].at # "queued" THEN q[l] ELSE [q[l] EXCEPT !.at = IF l = last THEN "asked" ELSE "dropped"]]
    BY <1>2 DEF T!Carried
  <2>2. \A l \in T!Loads : q[l] \in LoadKinds OBVIOUS
  <2>3. \A l \in T!Loads : /\ p[l] \in LoadKinds /\ p[l].model = q[l].model
                           /\ p[l].at = IF q[l].at # "queued" THEN q[l].at ELSE IF l = last THEN "asked" ELSE "dropped"
    BY <2>1, <2>2 DEF LoadKinds, T!Pending
  <2>4. p \in [T!Loads -> LoadKinds] BY <2>1, <2>3
  <2> QED BY <1>2, <2>3, <2>4
<1> QED BY <1>1, <1>2

\* Chooses a model.
LEMMA LoadModelKeeps ==
  ASSUME Sizes, ChatInv, NEW m \in Models, T!loadModel(m)
  PROVE  ChatInv'
<1> DEFINE l == latestLoad + 1
           q == [load EXCEPT ![l] = [at |-> "queued", model |-> m]]
<1>1. /\ l \in T!Loads /\ streaming = T!NoOverlay /\ latestLoad' = l /\ loading' = m /\ load' = T!Carried(q, l)
      /\ chosen' = (IF selected = None THEN chosen ELSE [chosen EXCEPT ![selected] = m])
      /\ UNCHANGED <<thread, selected, ask, streaming, inFlight, resident, unloading, hasty>>
  BY DEF T!loadModel
<1>2. load \in [T!Loads -> LoadKinds] /\ latestLoad \in Nat /\ latestLoad < l /\ latestLoad \in {0} \cup T!Loads
  BY DEF Sizes, ChatInv, LoadTypes, T!Loads
<1>3. T!Window' = T!Window BY <1>1 DEF T!Window
<1>4. Coherent(T!Window)' /\ Visible(T!Window)' BY <1>3 DEF ChatInv
<1>5. Choosing' BY <1>1 DEF ChatInv, Choosing
<1>6. ASSUME ~hasty' PROVE Sole(T!Window, chosen, T!Loading, latestLoad)'
  <2>1. Sole(T!Window, chosen, T!Loading, latestLoad) /\ ~hasty BY <1>1, <1>6 DEF ChatInv
  <2>2. inFlight = 0 /\ \A b \in T!Asks : ask[b].at \notin InHand BY <1>1, <2>1, NoneGoing
  <2>3. T!Window.ask = ask /\ T!Window.inFlight = inFlight BY WindowIs
  <2>4. Sole(T!Window, chosen', T!Loading', latestLoad') BY <2>1, <2>2, <2>3 DEF Sole
  <2> QED BY <1>3, <2>4
<1>7. q \in [T!Loads -> LoadKinds] /\ q[l] = [at |-> "queued", model |-> m] /\ \A k \in T!Loads : k # l => q[k] = load[k]
  BY <1>1, <1>2 DEF LoadKinds, T!Pending
<1> HIDE DEF q
<1> DEFINE p == T!Carried(q, l)
<1>8. /\ p \in [T!Loads -> LoadKinds] /\ \A k \in T!Loads : p[k].model = q[k].model
      /\ IF \E k \in T!Loads : q[k].at \in {"asked", "refreshing"} THEN p = q
         ELSE \A k \in T!Loads : p[k].at = IF q[k].at # "queued" THEN q[k].at ELSE IF k = l THEN "asked" ELSE "dropped"
  BY <1>1, <1>7, CarriedOut
<1> HIDE DEF p
<1>9. load' = p BY <1>1 DEF p
<1>10. p[l].at \in {"queued", "asked"} /\ p[l].model = m BY <1>1, <1>7, <1>8
<1>11. \A k \in T!Loads : (k > l <=> p[k].at = "none") /\ (k <= l => p[k].model \in Models)
  <2> SUFFICES ASSUME NEW k \in T!Loads PROVE (k > l <=> p[k].at = "none") /\ (k <= l => p[k].model \in Models) OBVIOUS
  <2>1. k > latestLoad <=> load[k].at = "none" BY DEF ChatInv, LoadTypes
  <2>2. k <= latestLoad => load[k].model \in Models BY DEF ChatInv, LoadTypes
  <2>3. k \in Nat BY DEF Sizes, T!Loads
  <2>4. CASE k = l BY <1>10, <2>3, <2>4
  <2>5. CASE k # l
    <3>1. q[k] = load[k] BY <1>7, <2>5
    <3>2. k > l <=> k > latestLoad BY <1>2, <2>3, <2>5
    <3>3. p[k].at = "none" <=> q[k].at = "none" BY <1>8
    <3>4. k <= l => k <= latestLoad BY <1>2, <2>3, <2>5
    <3> QED BY <1>8, <2>1, <2>2, <3>1, <3>2, <3>3, <3>4
  <2> QED BY <2>4, <2>5
<1>12. LoadTypes' BY <1>1, <1>8, <1>9, <1>11 DEF LoadTypes, ChatInv
<1>13. InLine'
  <2>1. l # 0 /\ p[l].at \in T!Pending /\ p[l].at # "dropped" /\ p[l].at # "over" BY <1>2, <1>10 DEF T!Pending
  <2>2. \A k \in T!Loads : load[k].at # "none" => k # l BY <1>2 DEF ChatInv, LoadTypes
  <2>3. CASE \E k \in T!Loads : q[k].at \in {"asked", "refreshing"}
    <3>1. p = q BY <1>8, <2>3
    <3>2. \A k \in T!Loads : p[k].at \in {"asked", "refreshing"} <=> k # l /\ load[k].at \in {"asked", "refreshing"}
      BY <1>7, <2>2, <3>1
    <3>3. \A k, j \in T!Loads : p[k].at \in {"asked", "refreshing"} /\ p[j].at \in {"asked", "refreshing"} => k = j
      BY <3>2 DEF ChatInv, InLine, Busy
    <3>4. \E k \in T!Loads : p[k].at \in {"asked", "refreshing"} BY <2>3, <3>1
    <3>5. p[l].at \notin {"asked", "refreshing"} BY <1>1, <3>2
    <3> QED BY <1>1, <1>9, <1>10, <2>1, <3>3, <3>4, <3>5 DEF InLine, Busy, T!Loading
  <2>4. CASE ~\E k \in T!Loads : q[k].at \in {"asked", "refreshing"}
    <3>1. \A k \in T!Loads : p[k].at \in {"asked", "refreshing"} <=> k = l BY <1>7, <1>8, <2>4
    <3>2. \A k \in T!Loads : p[k].at # "queued" BY <1>8, <2>4
    <3> QED BY <1>1, <1>9, <1>10, <2>1, <3>1, <3>2 DEF InLine, Busy, T!Loading
  <2> QED BY <2>3, <2>4
<1>14. unloading' \in BOOLEAN /\ hasty' \in BOOLEAN BY <1>1 DEF ChatInv
<1> QED BY <1>4, <1>5, <1>6, <1>12, <1>13, <1>14 DEF ChatInv

\* Requests that waited go.
LEMMA Released ==
  ASSUME Sizes, NEW q \in [T!Asks -> Requested], NEW p \in [T!Asks -> Requested],
         \A a \in T!Asks : p[a] = q[a] \/ (q[a].at = "waiting" /\ p[a] = [q[a] EXCEPT !.at = "asked"])
  PROVE  /\ \A a \in T!Asks : /\ p[a].thread = q[a].thread /\ p[a].reply = q[a].reply /\ p[a].sent = q[a].sent
                              /\ p[a].model = q[a].model /\ p[a].on = q[a].on
                              /\ (p[a].at \in InHand <=> q[a].at \in InHand) /\ (p[a].at \notin InHand => p[a].at = q[a].at)
                              /\ (p[a].at = "waiting" => q[a].at = "waiting")
         /\ \A a \in T!Asks : Posed(q, a) => Posed(p, a)
         /\ \A t \in Threads, s \in Seq(Texts) : RepliesOf(q, t, s) => RepliesOf(p, t, s)
<1>1. \A a \in T!Asks : /\ p[a].thread = q[a].thread /\ p[a].reply = q[a].reply /\ p[a].sent = q[a].sent
                        /\ p[a].model = q[a].model /\ p[a].on = q[a].on
                        /\ (p[a].at \in InHand <=> q[a].at \in InHand) /\ (p[a].at \notin InHand => p[a].at = q[a].at)
                        /\ (p[a].at = "waiting" => q[a].at = "waiting")
  <2> SUFFICES ASSUME NEW a \in T!Asks
               PROVE  /\ p[a].thread = q[a].thread /\ p[a].reply = q[a].reply /\ p[a].sent = q[a].sent
                      /\ p[a].model = q[a].model /\ p[a].on = q[a].on
                      /\ (p[a].at \in InHand <=> q[a].at \in InHand) /\ (p[a].at \notin InHand => p[a].at = q[a].at)
                      /\ (p[a].at = "waiting" => q[a].at = "waiting")
    OBVIOUS
  <2>1. q[a] \in Requested OBVIOUS
  <2>2. CASE p[a] = q[a] BY <2>2
  <2>3. CASE q[a].at = "waiting" /\ p[a] = [q[a] EXCEPT !.at = "asked"] BY <2>1, <2>3 DEF Requested, InHand
  <2> QED BY <2>2, <2>3
<1>2. \A a \in T!Asks : p[a].at = "over" <=> q[a].at = "over" BY <1>1 DEF InHand
<1>3. ASSUME NEW a \in T!Asks, Posed(q, a) PROVE Posed(p, a)
  <2>1. q[a].at \in InHand => q[a].reply \in T!Asks BY <1>3 DEF Posed
  <2>2. p[a].at = "queued" <=> q[a].at = "queued" BY <1>1 DEF InHand
  <2> QED BY <1>1, <1>2, <1>3, <2>1, <2>2 DEF Posed
<1>4. ASSUME NEW t \in Threads, NEW s \in Seq(Texts), RepliesOf(q, t, s) PROVE RepliesOf(p, t, s)
  <2>1. \A i \in 1..Len(s) : s[i].by \in T!Asks /\ s[i].is \in T!Asks
    <3>1. \A i \in 1..Len(s) : s[i] \in Texts BY ElementOfSeq
    <3> QED BY <3>1 DEF Texts
  <2>2. \A i \in 1..Len(s) : s[i].k = "reply" =>
          p[s[i].is].at = "over" /\ p[s[i].by].at = "over" /\ p[s[i].by].thread = t /\ p[s[i].by].reply = s[i].is
    BY <1>1, <1>2, <1>4, <2>1 DEF RepliesOf
  <2>3. ASSUME NEW i \in 2..Len(s), NEW b \in T!Asks, s[i].k = "reply",
               b = s[i].by \/ (p[b].at \in InHand /\ p[b].thread = t /\ p[b].reply = s[i].is)
        PROVE  i - 1 <= Len(p[b].sent) /\ \A j \in 1..(i - 1) : s[j] = p[b].sent[j]
    BY <1>1, <1>4, <2>3 DEF RepliesOf
  <2> QED BY <1>4, <2>2, <2>3 DEF RepliesOf
<1> QED BY <1>1, <1>3, <1>4

\* A load is over.
LEMMA OverKeeps ==
  ASSUME Sizes, ChatInv, NEW l \in T!Loads, load[l].at \in {"asked", "refreshing"}, NEW how \in {"over", "failed"}, T!Over(l, how),
         resident' \in Models \cup {None}, how = "over" => resident' = load[l].model,
         UNCHANGED <<thread, chosen, selected, streaming, inFlight, latestLoad, unloading, hasty>>
  PROVE  ChatInv'
<1> DEFINE q == [load EXCEPT ![l].at = how]
           p == T!Carried(q, latestLoad)
<1>1. /\ load' = p /\ loading' = (IF l = latestLoad THEN None ELSE loading)
      /\ ask' = [a \in T!Asks |-> IF ask[a].at = "waiting" /\ p[ask[a].on].at \notin T!Pending THEN [ask[a] EXCEPT !.at = "asked"] ELSE ask[a]]
  BY DEF T!Over
<1>2. load \in [T!Loads -> LoadKinds] /\ latestLoad \in {0} \cup T!Loads BY DEF ChatInv, LoadTypes
<1>3. T!Loading /\ latestLoad \in T!Loads /\ latestLoad # 0 /\ load[latestLoad].at \in T!Pending
  <2>1. T!Loading BY DEF T!Loading, T!Pending
  <2> QED BY <1>2, <2>1 DEF ChatInv, InLine
<1>4. /\ q \in [T!Loads -> LoadKinds] /\ q[l].at = how /\ \A k \in T!Loads : q[k].model = load[k].model
      /\ \A k \in T!Loads : k # l => q[k] = load[k]
  BY <1>2 DEF LoadKinds, T!Pending
<1> HIDE DEF q
<1>5. \A k \in T!Loads : load[k].at \in {"asked", "refreshing"} => k = l BY DEF ChatInv, InLine, Busy
<1>6. \A k \in T!Loads : q[k].at \notin {"asked", "refreshing"} BY <1>4, <1>5
<1>7. /\ p \in [T!Loads -> LoadKinds] /\ \A k \in T!Loads : p[k].model = load[k].model
      /\ \A k \in T!Loads : p[k].at = IF q[k].at # "queued" THEN q[k].at ELSE IF k = latestLoad THEN "asked" ELSE "dropped"
  <2>1. /\ p \in [T!Loads -> LoadKinds] /\ \A k \in T!Loads : p[k].model = q[k].model
        /\ IF \E k \in T!Loads : q[k].at \in {"asked", "refreshing"} THEN p = q
           ELSE \A k \in T!Loads : p[k].at = IF q[k].at # "queued" THEN q[k].at ELSE IF k = latestLoad THEN "asked" ELSE "dropped"
    <3>1. latestLoad \in T!Loads BY <1>3
    <3>2. q \in [T!Loads -> LoadKinds] BY <1>4
    <3> QED BY <3>1, <3>2, CarriedOut
  <2> HIDE DEF p
  <2> QED BY <1>4, <1>6, <2>1
<1> HIDE DEF p
<1>8. l # latestLoad => load[latestLoad].at = "queued" /\ p[latestLoad].at = "asked"
  BY <1>3, <1>4, <1>5, <1>7 DEF T!Pending
<1>9. l = latestLoad => p[l].at = how /\ \A k \in T!Loads : p[k].at \notin T!Pending
  <2> SUFFICES ASSUME l = latestLoad PROVE p[l].at = how /\ \A k \in T!Loads : p[k].at \notin T!Pending OBVIOUS
  <2>1. latestLoad \in Busy BY <1>3 DEF Busy
  <2>2. \A k \in T!Loads : load[k].at # "queued" BY <2>1 DEF ChatInv, InLine
  <2>3. \A k \in T!Loads : q[k].at # "queued" BY <1>4, <2>2
  <2> QED BY <1>4, <1>6, <1>7, <2>3 DEF T!Pending
<1>10. \A k \in T!Loads : p[k].at \in T!Pending => k = latestLoad /\ l # latestLoad BY <1>6, <1>7, <1>9 DEF T!Pending
<1>11. T!Loading' <=> l # latestLoad
  <2>1. T!Loading' <=> \E k \in T!Loads : p[k].at \in T!Pending BY <1>1 DEF T!Loading
  <2> QED BY <1>3, <1>8, <1>9, <2>1 DEF T!Pending
<1>12. LoadTypes'
  <2>1. \A k \in T!Loads : p[k].at = "none" <=> load[k].at = "none" BY <1>4, <1>7
  <2> QED BY <1>1, <1>7, <2>1 DEF ChatInv, LoadTypes
<1>13. InLine'
  <2>1. \A k \in T!Loads : k \in Busy' <=> p[k].at \in {"asked", "refreshing"} BY <1>1 DEF Busy
  <2>2. \A k, j \in Busy' : k = j
    <3>1. \A k \in Busy' : k \in T!Loads /\ k = latestLoad BY <1>1, <1>10, <2>1 DEF Busy, T!Pending
    <3> QED BY <3>1
  <2>3. \A k \in T!Loads : p[k].at # "queued" BY <1>7
  <2>4. p[latestLoad].at # "dropped" /\ (p[latestLoad].at = "over" => resident' \in {None, p[latestLoad].model})
    BY <1>3, <1>7, <1>8, <1>9
  <2>5. loading' = IF T!Loading' THEN p[latestLoad].model ELSE None
    <3>1. loading = load[latestLoad].model BY <1>3 DEF ChatInv, InLine
    <3> QED BY <1>1, <1>3, <1>7, <1>11, <3>1
  <2>6. T!Loading' => p[latestLoad].at \in T!Pending BY <1>8, <1>11 DEF T!Pending
  <2> QED BY <1>1, <1>3, <2>2, <2>3, <2>4, <2>5, <2>6 DEF InLine
<1>14. Choosing' BY DEF ChatInv, Choosing
<1>15. /\ T!Window \in Screens /\ T!Window.thread = thread /\ T!Window.ask = ask /\ T!Window.streaming = streaming /\ T!Window.inFlight = inFlight
       /\ ask \in [T!Asks -> Requested] /\ inFlight \in {0} \cup T!Asks /\ Coherent(T!Window) /\ Visible(T!Window)
  BY WindowIs DEF ChatInv
<1>16. /\ ask' \in [T!Asks -> Requested]
       /\ \A a \in T!Asks : ask'[a] = ask[a] \/ (ask[a].at = "waiting" /\ ask'[a] = [ask[a] EXCEPT !.at = "asked"])
       /\ \A a \in T!Asks : ask'[a].at = "waiting" => p[ask[a].on].at \in T!Pending
  <2>1. \A a \in T!Asks : ask[a] \in Requested BY <1>15
  <2>2. ASSUME NEW a \in T!Asks
        PROVE  /\ ask'[a] = ask[a] \/ (ask[a].at = "waiting" /\ ask'[a] = [ask[a] EXCEPT !.at = "asked"])
               /\ ask'[a] \in Requested
               /\ ask'[a].at = "waiting" => p[ask[a].on].at \in T!Pending
    <3>1. ask'[a] = IF ask[a].at = "waiting" /\ p[ask[a].on].at \notin T!Pending THEN [ask[a] EXCEPT !.at = "asked"] ELSE ask[a]
      BY <1>1
    <3>2. [ask[a] EXCEPT !.at = "asked"] \in Requested /\ [ask[a] EXCEPT !.at = "asked"].at = "asked" BY <2>1 DEF Requested
    <3> QED BY <2>1, <3>1, <3>2
  <2>3. DOMAIN ask' = T!Asks /\ ask' = [a \in T!Asks |-> ask'[a]] BY <1>1
  <2> QED BY <2>2, <2>3
<1>17. PICK z : z = ask' OBVIOUS
<1>18. /\ \A a \in T!Asks : /\ z[a].thread = ask[a].thread /\ z[a].reply = ask[a].reply /\ z[a].sent = ask[a].sent
                            /\ z[a].model = ask[a].model /\ z[a].on = ask[a].on
                            /\ (z[a].at \in InHand <=> ask[a].at \in InHand) /\ (z[a].at \notin InHand => z[a].at = ask[a].at)
                            /\ (z[a].at = "waiting" => ask[a].at = "waiting")
       /\ \A a \in T!Asks : Posed(ask, a) => Posed(z, a)
       /\ \A t \in Threads, s \in Seq(Texts) : RepliesOf(ask, t, s) => RepliesOf(z, t, s)
  <2>1. z \in [T!Asks -> Requested] /\ \A a \in T!Asks : z[a] = ask[a] \/ (ask[a].at = "waiting" /\ z[a] = [ask[a] EXCEPT !.at = "asked"])
    BY <1>16, <1>17
  <2>2. ask \in [T!Asks -> Requested] BY <1>15
  <2> QED BY <2>1, <2>2, Released
<1>19. PICK w : w = [thread |-> thread, ask |-> z, streaming |-> streaming, inFlight |-> inFlight] OBVIOUS
<1>20. w.thread = thread /\ w.ask = z /\ w.streaming = streaming /\ w.inFlight = inFlight BY <1>19
<1>21. w \in Screens /\ T!Window' = w
  <2>1. T!Window' = w BY <1>17, <1>19 DEF T!Window
  <2> QED BY <1>15, <1>16, <1>17, <1>19, <2>1 DEF Screens
<1>22. Coherent(w)
  <2>1. \A t \in Threads : thread[t] # None => RepliesOf(z, t, thread[t]) BY <1>18, WindowIs
  <2>2. \A a \in T!Asks : Posed(z, a) BY <1>15, <1>18 DEF Coherent
  <2> QED BY <1>20, <1>21, <2>1, <2>2 DEF Coherent
<1>23. Visible(w) BY <1>15, <1>18, <1>20 DEF Visible
<1>24. ASSUME ~hasty PROVE Sole(w, chosen, T!Loading', latestLoad)
  <2>1. Sole(T!Window, chosen, T!Loading, latestLoad) BY <1>24 DEF ChatInv
  <2>2. ASSUME NEW a \in T!Asks, z[a].at \in InHand
        PROVE  /\ a = inFlight /\ z[a].model = chosen[z[a].thread]
               /\ z[a].at = "asked" => ~T!Loading'
               /\ z[a].at = "waiting" => z[a].on = latestLoad
    <3>1. ask[a].at \in InHand BY <1>18, <2>2
    <3>2. a = inFlight /\ ask[a].model = chosen[ask[a].thread] /\ ask[a].at # "asked" /\ (ask[a].at = "waiting" => ask[a].on = latestLoad)
      BY <1>3, <1>15, <2>1, <3>1 DEF Sole
    <3>3. ask[a].at = "waiting" /\ ask[a].on = latestLoad BY <3>1, <3>2 DEF InHand
    <3>4. ASSUME z[a].at = "asked", l # latestLoad PROVE FALSE
      <4>1. p[ask[a].on].at \in T!Pending BY <1>8, <3>3, <3>4 DEF T!Pending
      <4>2. ask'[a] = ask[a] BY <1>1, <4>1
      <4> QED BY <1>17, <3>3, <3>4, <4>2
    <3> QED BY <1>11, <1>18, <3>2, <3>3, <3>4
  <2>3. \A a \in T!Asks : z[a].at = "queued" <=> ask[a].at = "queued" BY <1>18 DEF InHand
  <2> QED BY <1>15, <1>20, <2>1, <2>2, <2>3 DEF Sole
<1>25. Coherent(T!Window)' /\ Visible(T!Window)' BY <1>21, <1>22, <1>23
<1>26. (~hasty => Sole(T!Window, chosen, T!Loading, latestLoad))' BY <1>21, <1>24
<1>27. (unloading \in BOOLEAN /\ hasty \in BOOLEAN)' BY DEF ChatInv
<1> QED BY <1>12, <1>13, <1>14, <1>25, <1>26, <1>27 DEF ChatInv

\* What the loads are not at work on.
LEMMA ModelsOnly ==
  ASSUME Sizes, ChatInv, UNCHANGED <<thread, chosen, selected, ask, streaming, inFlight, latestLoad, hasty>>, unloading' \in BOOLEAN,
         T!Loading' => T!Loading, LoadTypes', InLine'
  PROVE  ChatInv'
<1>1. T!Window' = T!Window BY DEF T!Window
<1>2. Coherent(T!Window)' /\ Visible(T!Window)' /\ Choosing' /\ hasty' \in BOOLEAN BY <1>1 DEF ChatInv, Choosing
<1>3. ASSUME ~hasty' PROVE Sole(T!Window, chosen, T!Loading, latestLoad)'
  <2>1. Sole(T!Window, chosen, T!Loading, latestLoad) BY <1>3 DEF ChatInv
  <2>2. Sole(T!Window, chosen, T!Loading', latestLoad) BY <2>1 DEF Sole
  <2> QED BY <1>1, <2>2
<1> QED BY <1>2, <1>3 DEF ChatInv

\* The runtime has loaded it, or not.
LEMMA LoadAnsweredKeeps ==
  ASSUME Sizes, ChatInv, NEW l \in T!Loads, T!LoadAnswered(l)
  PROVE  ChatInv'
<1>1. /\ load[l].at = "asked" /\ UNCHANGED <<thread, chosen, selected, streaming, inFlight, latestLoad, unloading, hasty>>
  BY DEF T!LoadAnswered
<1>2. load \in [T!Loads -> LoadKinds] /\ latestLoad \in {0} \cup T!Loads /\ resident \in Models \cup {None} BY DEF ChatInv, LoadTypes
<1>3. load[l].model \in Models
  <2>1. load[l].at # "none" => ~(l > latestLoad) BY DEF ChatInv, LoadTypes
  <2>2. l <= latestLoad BY <1>1, <1>2, <2>1 DEF Sizes, T!Loads
  <2> QED BY <2>2 DEF ChatInv, LoadTypes
<1>4. CASE resident' = load[l].model /\ T!Over(l, "over") BY <1>1, <1>3, <1>4, OverKeeps
<1>5. CASE resident' \in {None, resident} /\ l # latestLoad /\ T!Over(l, "failed") BY <1>1, <1>2, <1>5, OverKeeps
<1>6. CASE resident' \in {None, resident} /\ l = latestLoad /\ load' = [load EXCEPT ![l].at = "refreshing"] /\ UNCHANGED <<ask, loading>>
  <2>1. /\ load' \in [T!Loads -> LoadKinds] /\ load'[l].at = "refreshing" /\ (\A k \in T!Loads : load'[k].model = load[k].model)
        /\ \A k \in T!Loads : k # l => load'[k] = load[k]
    BY <1>2, <1>6 DEF LoadKinds, T!Pending
  <2>2. \A k \in T!Loads : load'[k].at \in T!Pending <=> load[k].at \in T!Pending BY <1>1, <2>1 DEF T!Pending
  <2>3. T!Loading' <=> T!Loading BY <2>2 DEF T!Loading
  <2>4. Busy' = Busy BY <1>1, <2>1 DEF Busy
  <2>5. LoadTypes'
    <3>1. resident' \in Models \cup {None} BY <1>2, <1>6
    <3>2. \A k \in T!Loads : load'[k].at = "none" <=> load[k].at = "none" BY <1>1, <2>1
    <3> QED BY <1>1, <1>2, <2>1, <3>1, <3>2 DEF ChatInv, LoadTypes
  <2>6. InLine'
    <3>1. \A k \in T!Loads : load'[k].at # "queued" <=> load[k].at # "queued" BY <1>1, <2>1
    <3>2. latestLoad # 0 /\ load[latestLoad].at \in T!Pending /\ loading = load[latestLoad].model
      <4>1. T!Loading BY <1>1 DEF T!Loading, T!Pending
      <4> QED BY <4>1 DEF ChatInv, InLine
    <3>3. load'[latestLoad].at = "refreshing" BY <1>6, <2>1
    <3>4. T!Loading BY <1>1 DEF T!Loading, T!Pending
    <3>5. loading' = load'[latestLoad].model BY <1>6, <2>1, <3>2
    <3>6. \A k, j \in Busy' : k = j BY <2>4 DEF ChatInv, InLine
    <3>7. (Busy' = {} \/ latestLoad \in Busy') => \A k \in T!Loads : load'[k].at # "queued" BY <2>4, <3>1 DEF ChatInv, InLine
    <3> QED BY <1>1, <2>3, <3>2, <3>3, <3>4, <3>5, <3>6, <3>7 DEF InLine, T!Pending
  <2>7. unloading' \in BOOLEAN BY <1>1 DEF ChatInv
  <2> QED BY <1>1, <1>6, <2>3, <2>5, <2>6, <2>7, ModelsOnly
<1>7. \/ resident' = load[l].model /\ T!Over(l, "over")
      \/ resident' \in {None, resident} /\ l # latestLoad /\ T!Over(l, "failed")
      \/ resident' \in {None, resident} /\ l = latestLoad /\ load' = [load EXCEPT ![l].at = "refreshing"] /\ UNCHANGED <<ask, loading>>
  BY DEF T!LoadAnswered
<1> QED BY <1>4, <1>5, <1>6, <1>7

\* After a failure the window knows what the runtime holds.
LEMMA RefreshedKeeps ==
  ASSUME Sizes, ChatInv, NEW l \in T!Loads, T!Refreshed(l)
  PROVE  ChatInv'
<1>1. /\ load[l].at = "refreshing" /\ T!Over(l, "failed")
      /\ UNCHANGED <<thread, chosen, selected, streaming, inFlight, latestLoad, resident, unloading, hasty>>
  BY DEF T!Refreshed
<1>2. resident' \in Models \cup {None} BY <1>1 DEF ChatInv, LoadTypes
<1> QED BY <1>1, <1>2, OverKeeps

\* The models are put away.
LEMMA UnloadKeeps ==
  ASSUME Sizes, ChatInv, T!Unload \/ T!Unloaded
  PROVE  ChatInv'
<1>1. /\ UNCHANGED <<thread, chosen, selected, ask, streaming, inFlight, load, latestLoad, loading, hasty>>
      /\ unloading' \in BOOLEAN /\ resident' \in {None, resident}
  BY DEF T!Unload, T!Unloaded
<1>2. T!Loading' = T!Loading /\ Busy' = Busy BY <1>1 DEF T!Loading, Busy
<1>3. LoadTypes' BY <1>1 DEF ChatInv, LoadTypes
<1>4. InLine' BY <1>1, <1>2 DEF ChatInv, InLine
<1> QED BY <1>1, <1>2, <1>3, <1>4, ModelsOnly
-----------------------------------------------------------------------------
(* Together. *)

\* It holds at first.
LEMMA ChatStarts ==
  ASSUME Sizes, T!Init
  PROVE  ChatInv
<1>1. /\ thread = [t \in Threads |-> <<>>] /\ ask = [a \in T!Asks |-> T!NoAsk] /\ streaming = T!NoOverlay /\ inFlight = 0
      /\ load = [l \in T!Loads |-> T!NoLoad] /\ latestLoad = 0 /\ loading = None /\ resident = None /\ unloading = FALSE /\ hasty = FALSE
  BY DEF T!Init
<1>2. chosen \in [Threads -> Models] /\ selected \in Threads BY DEF Sizes, T!Init
<1>3. <<>> \in Seq(Texts) /\ Len(<<>>) = 0 /\ <<>> # None BY EmptySeq DEF Sizes
<1>4. T!Window = [thread |-> thread, ask |-> ask, streaming |-> streaming, inFlight |-> inFlight] BY DEF T!Window
<1>5. T!Window.thread = thread /\ T!Window.ask = ask /\ T!Window.streaming = streaming /\ T!Window.inFlight = inFlight BY DEF T!Window
<1>6. T!NoAsk \in Requested /\ T!NoAsk.at = "none" BY EmptySeq DEF T!NoAsk, Requested
<1>7. T!NoOverlay \in [thread: Threads \cup {None}, reply: {0} \cup T!Asks] BY DEF T!NoOverlay, T!Overlay
<1> HIDE DEF T!Window
<1>8. T!Window \in Screens
  <2>1. thread \in [Threads -> Seq(Texts) \cup {None}] BY <1>1, <1>3
  <2>2. ask \in [T!Asks -> Requested] BY <1>1, <1>6
  <2> QED BY <1>1, <1>4, <1>7, <2>1, <2>2 DEF Screens
<1>9. \A a \in T!Asks : ask[a].at = "none" BY <1>1, <1>6
<1>10. Coherent(T!Window)
  <2>1. \A a \in T!Asks : Posed(ask, a) BY <1>9 DEF Posed, InHand
  <2>2. \A t \in Threads : RepliesOf(ask, t, thread[t]) BY <1>1, <1>3 DEF RepliesOf
  <2> QED BY <1>5, <1>8, <2>1, <2>2 DEF Coherent
<1>11. Visible(T!Window) BY <1>1, <1>5 DEF Visible
<1>12. Sole(T!Window, chosen, T!Loading, latestLoad) BY <1>1, <1>5, <1>9 DEF Sole, InHand
<1>13. Choosing BY <1>1, <1>2, <1>3 DEF Choosing
<1>14. T!NoLoad \in LoadKinds /\ T!NoLoad.at = "none" BY DEF T!NoLoad, LoadKinds, T!Pending
<1>15. \A l \in T!Loads : load[l].at = "none" BY <1>1, <1>14
<1>16. ~T!Loading /\ Busy = {} BY <1>15 DEF T!Loading, Busy, T!Pending
<1>17. LoadTypes
  <2>1. \A l \in T!Loads : l > latestLoad /\ ~(l <= latestLoad) BY <1>1 DEF Sizes, T!Loads
  <2> QED BY <1>1, <1>14, <1>15, <2>1 DEF LoadTypes
<1>18. InLine BY <1>1, <1>15, <1>16 DEF InLine
<1> QED BY <1>1, <1>10, <1>11, <1>12, <1>13, <1>17, <1>18 DEF ChatInv

\* Every step keeps it.
LEMMA ChatKeeps ==
  ASSUME Sizes, ChatInv, T!Next
  PROVE  ChatInv'
<1>1. CASE \E a \in T!Asks : T!Send(a) BY <1>1, ChatSendKeeps
<1>2. CASE \E a \in T!Asks : T!Queued(a) BY <1>2, QueuedKeeps
<1>3. CASE \E a \in T!Asks : T!regenerate(a) BY <1>3, RegenerateKeeps
<1>4. CASE \E a \in T!Asks : T!continueGeneration(a) BY <1>4, ContinueKeeps
<1>5. CASE \E a \in T!Asks : T!Answered(a) BY <1>5, AnsweredKeeps
<1>6. CASE \E a \in T!Asks : selected # None /\ \E i \in DOMAIN thread[selected] : T!editMessage(a, i) BY <1>6, EditKeeps
<1>7. CASE T!Stop BY <1>7, ChatStopKeeps
<1>8. CASE T!Clear BY <1>8, ChatClearKeeps
<1>9. CASE \E t \in Threads : T!Select(t) BY <1>9, SelectKeeps
<1>10. CASE \E t \in Threads : T!Delete(t) BY <1>10, ChatDeleteKeeps
<1>11. CASE \E m \in Models : T!loadModel(m) BY <1>11, LoadModelKeeps
<1>12. CASE \E l \in T!Loads : T!LoadAnswered(l) BY <1>12, LoadAnsweredKeeps
<1>13. CASE \E l \in T!Loads : T!Refreshed(l) BY <1>13, RefreshedKeeps
<1>14. CASE T!Unload \/ T!Unloaded BY <1>14, UnloadKeeps
<1> QED BY <1>1, <1>2, <1>3, <1>4, <1>5, <1>6, <1>7, <1>8, <1>9, <1>10, <1>11, <1>12, <1>13, <1>14 DEF T!Next

\* What is not the chat's stands.
LEMMA ChatRests ==
  ASSUME Sizes, ChatInv, UNCHANGED chatVars
  PROVE  ChatInv'
<1>1. T!Window' = T!Window /\ T!Loading' = T!Loading /\ Busy' = Busy BY DEF chatVars, T!Window, T!Loading, Busy
<1>2. Choosing' /\ LoadTypes' /\ InLine' BY <1>1 DEF ChatInv, Choosing, LoadTypes, InLine, chatVars
<1> QED BY <1>1, <1>2 DEF ChatInv, chatVars

\* ... and it makes the threads safe.
LEMMA ChatIsSafe ==
  ASSUME Sizes, ChatInv
  PROVE  T!ThreadsSafe
<1>1. /\ T!Window \in Screens /\ T!Window.thread = thread /\ T!Window.ask = ask /\ T!Window.streaming = streaming /\ T!Window.inFlight = inFlight
      /\ ask \in [T!Asks -> Requested] /\ inFlight \in {0} \cup T!Asks /\ Coherent(T!Window) /\ Visible(T!Window)
      /\ chosen \in [Threads -> Models] /\ latestLoad \in {0} \cup T!Loads /\ 0 \notin T!Asks
      /\ \A t \in Threads : thread[t] # None => thread[t] \in Seq(Texts) /\ RepliesOf(ask, t, thread[t])
  BY WindowIs DEF Sizes, ChatInv, T!Asks
<1>2. \A a \in T!Asks : T!UnderWay(a) <=> ask[a].at \in InHand BY DEF T!UnderWay, InHand
<1>3. load \in [T!Loads -> LoadKinds] /\ resident \in Models \cup {None} BY DEF ChatInv, LoadTypes
<1>4. loading = (IF T!Loading THEN load[latestLoad].model ELSE None) /\ (T!Loading => latestLoad # 0 /\ load[latestLoad].at \in T!Pending) BY DEF ChatInv, InLine
<1>5. T!Loading => loading \in Models
  <2> SUFFICES ASSUME T!Loading PROVE loading \in Models OBVIOUS
  <2>1. latestLoad \in T!Loads /\ loading = load[latestLoad].model BY <1>1, <1>4
  <2>2. latestLoad <= latestLoad BY <2>1 DEF Sizes, T!Loads
  <2> QED BY <2>1, <2>2 DEF ChatInv, LoadTypes
<1>6. inFlight # 0 => T!UnderWay(inFlight) /\ streaming \in {T!NoOverlay, T!Overlay(ask[inFlight].thread, ask[inFlight].reply)}
  BY <1>1, <1>2 DEF Visible
<1>7. T!TypeOK
  <2>1. \A a \in T!Asks : ask[a].at \in {"none", "queued", "waiting", "asked", "over"} /\ ask[a].on \in {0} \cup T!Loads BY <1>1 DEF Requested
  <2>2. streaming \in [thread: Threads, reply: T!Asks] \cup {T!NoOverlay}
    <3> SUFFICES ASSUME streaming # T!NoOverlay PROVE streaming \in [thread: Threads, reply: T!Asks] OBVIOUS
    <3>1. inFlight \in T!Asks BY <1>1 DEF Visible
    <3>2. streaming = T!Overlay(ask[inFlight].thread, ask[inFlight].reply) /\ ask[inFlight].at \in InHand BY <1>1, <3>1 DEF Visible
    <3>3. ask[inFlight].thread \in Threads /\ ask[inFlight].reply \in T!Asks BY <1>1, <3>1, <3>2 DEF Coherent, Posed
    <3> QED BY <3>2, <3>3 DEF T!Overlay
  <2>3. \A l \in T!Loads : load[l].at \in T!Pending \cup {"none", "over", "failed", "dropped"} BY <1>3 DEF LoadKinds
  <2>4. {loading, resident} \subseteq Models \cup {None} BY <1>3, <1>4, <1>5
  <2>5. \A t \in Threads : thread[t] # None => thread[t] \in Seq([k: {"user", "reply"}, is: T!Asks, by: T!Asks, cut: BOOLEAN])
    BY <1>1 DEF Texts
  <2> QED BY <1>1, <2>1, <2>2, <2>3, <2>4, <2>5 DEF T!TypeOK, ChatInv, Choosing
<1>8. T!StopReachesWhatIsShown
  <2>1. streaming # T!NoOverlay => inFlight # 0 BY <1>1 DEF Visible
  <2>2. ~hasty => (inFlight # 0 => streaming # T!NoOverlay) BY <1>1 DEF ChatInv, Sole
  <2> QED BY <1>6, <2>1, <2>2 DEF T!StopReachesWhatIsShown
<1>9. T!OneReply BY <1>1, <1>2 DEF T!OneReply, ChatInv, Sole
<1>10. T!RepliesFollow
  <2> SUFFICES ASSUME NEW t \in Threads, thread[t] # None, NEW i \in 2..Len(thread[t]), thread[t][i].k = "reply"
               PROVE  LET a == thread[t][i].by
                      IN ask[a].thread = t /\ SubSeq(thread[t], 1, i - 1) = SubSeq(ask[a].sent, 1, i - 1)
    BY DEF T!RepliesFollow
  <2> DEFINE s == thread[t]
             a == s[i].by
  <2>1. s \in Seq(Texts) /\ RepliesOf(ask, t, s) /\ Len(s) \in Nat BY <1>1, LenProperties
  <2> HIDE DEF s
  <2>2. i \in 1..Len(s) /\ i \in 2..Len(s) /\ s[i].k = "reply" BY <2>1 DEF s
  <2>3. a \in T!Asks
    <3>1. s[i] \in Texts BY <2>1, <2>2, ElementOfSeq
    <3> QED BY <3>1 DEF Texts
  <2>4. ask[a].thread = t BY <2>1, <2>2 DEF RepliesOf
  <2>5. i - 1 <= Len(ask[a].sent) /\ \A j \in 1..(i - 1) : s[j] = ask[a].sent[j] BY <2>1, <2>2, <2>3 DEF RepliesOf
  <2>6. ask[a].sent \in Seq(Texts) BY <1>1, <2>3 DEF Requested
  <2> HIDE DEF a
  <2>7. SubSeq(s, 1, i - 1) = SubSeq(ask[a].sent, 1, i - 1)
    <3> DEFINE u == ask[a].sent
    <3>1. Len(u) \in Nat /\ i - 1 \in 1..Len(s) /\ i - 1 \in 1..Len(u) BY <2>1, <2>2, <2>5, <2>6, LenProperties
    <3>2. SubSeq(s, 1, i - 1) = [j \in 1..(i - 1) |-> s[j]] BY <2>1, <3>1
    <3>3. SubSeq(u, 1, i - 1) = [j \in 1..(i - 1) |-> u[j]] BY <2>6, <3>1
    <3> QED BY <2>5, <3>2, <3>3
  <2> QED BY <2>4, <2>7 DEF s, a
<1>11. T!AskedOfTheChosen BY <1>1, <1>2 DEF T!AskedOfTheChosen, ChatInv, Sole, InHand
<1>12. T!LastChoiceWins
  <2>1. Cardinality(Busy) <= 1
    <3>1. CASE Busy = {} BY <3>1, FS_EmptySet
    <3>2. CASE Busy # {}
      <4>1. PICK l \in Busy : Busy = {l} BY <3>2 DEF ChatInv, InLine
      <4> QED BY <4>1, FS_Singleton
    <3> QED BY <3>1, <3>2
  <2>2. Cardinality({l \in T!Loads : load[l].at \in {"asked", "refreshing"}}) <= 1 BY <2>1 DEF Busy
  <2>3. loading # None <=> T!Loading BY <1>4, <1>5 DEF Sizes
  <2>4. latestLoad # 0 => (load[latestLoad].at = "over" => resident \in {None, load[latestLoad].model}) BY DEF ChatInv, InLine
  <2> QED BY <1>4, <2>2, <2>3, <2>4 DEF T!LastChoiceWins, T!Cardinality, Cardinality
<1> QED BY <1>7, <1>8, <1>9, <1>10, <1>11, <1>12 DEF T!ThreadsSafe

(* Of send, regenerate, continueGeneration, editMessage, stop, clear, delete *)
(* and loadModel in studio.ts: what is on the screen is what Stop reaches; a *)
(* reply follows what it was asked with; one reply at a time is asked for,   *)
(* of the model its thread shows, while none is being loaded, unless         *)
(* something was done in the wait for the mining queue; and of the loads the *)
(* last chosen stands.                                                       *)
THEOREM ThreadsAreSafe ==
  ASSUME Sizes
  PROVE  T!Spec => []T!ThreadsSafe
<1>1. T!Init => ChatInv BY ChatStarts
<1>2. ChatInv /\ [T!Next]_(T!vars) => ChatInv' BY ChatKeeps, ChatRests DEF T!vars, chatVars
<1>3. ChatInv => T!ThreadsSafe BY ChatIsSafe
<1> QED BY <1>1, <1>2, <1>3, PTL DEF T!Spec

-----------------------------------------------------------------------------
(* Of a window in which the agent works on a folder, and of one in which    *)
(* somebody chats: the first is as AgentIsSafe says, the second as          *)
(* ThreadsAreSafe.                                                          *)
THEOREM WindowIsSafe == Behaviour => []WindowSafe
<1>1. Limits /\ Sizes
  BY StudioAssumption DEF Limits, Sizes, Texts
<1>2. Begin => AgentInv /\ ChatInv
  BY <1>1, AgentStarts, ChatStarts DEF Begin
<1>3. AgentInv /\ [Workspace \/ Setting \/ Engine \/ Store \/ Agent \/ Chat]_<<scene, vars, settingsVars, engineVars, storeVars, agentVars, chatVars>> => AgentInv'
  <2>1. [Workspace \/ Setting \/ Engine \/ Store \/ Agent \/ Chat]_<<scene, vars, settingsVars, engineVars, storeVars, agentVars, chatVars>> => [A!Next]_agentVars
    BY DEF Workspace, Setting, Engine, Store, Agent, Chat
  <2> QED BY <1>1, <2>1, AgentStep
<1>4. ChatInv /\ [Workspace \/ Setting \/ Engine \/ Store \/ Agent \/ Chat]_<<scene, vars, settingsVars, engineVars, storeVars, agentVars, chatVars>> => ChatInv'
  <2>1. [Workspace \/ Setting \/ Engine \/ Store \/ Agent \/ Chat]_<<scene, vars, settingsVars, engineVars, storeVars, agentVars, chatVars>> => [T!Next]_chatVars
    BY DEF Workspace, Setting, Engine, Store, Agent, Chat
  <2> QED BY <1>1, <2>1, ChatKeeps, ChatRests
<1>5. AgentInv /\ ChatInv => WindowSafe
  BY <1>1, InvSafe, ChatIsSafe DEF WindowSafe
<1> QED BY <1>2, <1>3, <1>4, <1>5, PTL DEF Behaviour
=============================================================================
