----------------------------- MODULE AgentProofs -----------------------------
(***************************************************************************)
(* The invariant of the coding agent (AgentRun), as MCStudio has it, and    *)
(* what each part of a step of it makes of a window: of any number of       *)
(* messages and steps, and whatever the folder, the model, the runtime and  *)
(* the person do and when.  WindowProofs has the actions and the theorem.   *)
(***************************************************************************)
EXTENDS MCStudio, SequenceTheorems, TLAPS

(* The window's parts. *)
Statuses == A!Unsettled \cup {"none", "done", "error", "denied"}
CallIds == (A!Runs \X (0..MAX_STEPS)) \cup {A!NoCall}
Msgs == [k: {"user", "step", "results", "note"}, id: CallIds, st: Statuses]
Entries == [original: A!Texts, current: A!Texts]
Places == {"off", "opening", "model", "preparing", "asking", "running", "over"}
Records == [at: Places, token: Nat, aborted: BOOLEAN, step: 0..MAX_STEPS, kind: A!Kinds \cup {"none"}, ask: BOOLEAN,
            last: A!Kinds \cup {"none"}, repeats: Nat, empties: Nat, quiet: BOOLEAN,
            op: {"none", "sent", "done", "failed"}, saw: {A!NoCall} \cup A!Calls, prev: A!Texts, now: A!Texts]
Holder == {0} \cup A!Runs
Windows == [open: BOOLEAN, thread: Seq(Msgs), changes: SUBSET Entries, policy: Policies \cup {b.policy : b \in Beginnings}, allowed: SUBSET {"read", "edit", "command"},
            run: [A!Runs -> Records], latest: Nat, active: Holder, approval: Holder, card: {A!NoCall} \cup A!Calls,
            shown: {"none", "running", "awaiting"}, overlay: Holder]

Going == {"model", "preparing", "asking", "running"}
UnderWay(x) == x.at \in Going

\* What is so of a run's record x, that of r in a window whose newest token is t and whose run is a.
Placed(x, r, t, a) ==
  /\ x.token <= t
  /\ x.at \in {"off", "opening"} => x.token = 0 /\ ~x.aborted /\ x.op = "none" /\ ~x.quiet
  /\ UnderWay(x) => /\ x.token # 0 /\ x.step # 0
                    /\ (r = a /\ x.token = t) \/ (r # a /\ x.aborted /\ x.token < t)
  /\ x.aborted => x.at \notin {"model", "asking"}
  /\ x.at = "running" <=> (UnderWay(x) /\ x.op # "none")
  /\ x.op # "none" => x.at \in {"running", "over"} /\ x.step # 0 /\ x.kind # "none"
  /\ x.at = "preparing" => x.kind \in {"edit", "write"}
  /\ x.at = "asking" => x.kind # "read" /\ x.kind # "none" /\ x.ask
  /\ x.at = "over" /\ x.op # "none" => x.token = 0

(* Calls of r that were carried out, were to be asked about, or were: none *)
(* ahead of the run.                                                       *)
Counted(x, r, tk, nd, ap, lt) ==
  /\ \A s \in 1..MAX_STEPS :
       /\ <<r, s>> \in tk \cup nd => x.at \notin {"off", "opening"}
       /\ <<r, s>> \in tk /\ UnderWay(x) => s <= x.step /\ (s = x.step => x.at = "running")
       /\ <<r, s>> \in nd /\ UnderWay(x) => s <= x.step /\ (s = x.step => x.at # "model" /\ (x.at = "preparing" => x.ask))
  /\ x.op # "none" /\ <<r, x.step>> \in nd => <<r, x.step>> \in ap
  /\ x.op = "sent" /\ x.kind = "command" => <<r, x.step>> \in tk
  /\ x.op = "done" => <<r, x.step>> \in tk
  /\ lt \in {0, 1}
  /\ lt = 1 => x.op # "sent" /\ (x.at = "over" \/ (x.aborted /\ x.at = "running"))

\* A call of a run that may still be carried out.
MayYet(x, s) == (UnderWay(x) /\ s >= x.step) \/ (x.op = "sent" /\ s = x.step)
GaveWay(x, t) == x.quiet \/ x.token = 0 \/ (x.at # "over" /\ x.token # t)

\* Message i of thread th is answered right after it; or is still the last word.
Replied(th, i) ==
  \E j \in (i + 1)..Len(th) : th[j].k = "results" /\ th[j].id = th[i].id /\ \A k \in (i + 1)..(j - 1) : th[k].k = "note"
LastWord(th, i) == \A k \in (i + 1)..Len(th) : th[k].k = "note"

\* Message i of thread th, a step with a call of a run of record x.
Said(th, i, x, t, tk, ct) ==
  LET m == th[i] IN
  /\ x.at \notin {"off", "opening"} /\ m.id[2] # 0
  /\ UnderWay(x) => /\ m.id[2] <= x.step
                    /\ m.id[2] = x.step => x.at # "model" /\ (x.token = t => m.st \in A!Unsettled)
  /\ m.st # "none"
  /\ m.st \in A!Unsettled /\ ~GaveWay(x, t) => /\ x.at \in A!Waiting /\ x.step = m.id[2]
                                               /\ ct \/ LastWord(th, i)
  /\ m.st \notin A!Unsettled /\ ~GaveWay(x, t) => ct \/ Replied(th, i)
  /\ m.st = "done" => m.id \in tk
  /\ m.st = "denied" => m.id \notin tk /\ ~MayYet(x, m.id[2])

IsCall(m) == m.k = "step" /\ m.id # A!NoCall

\* Who is waited for.
Heads(w) ==
  /\ w.active # 0 => UnderWay(w.run[w.active])
  /\ w.approval # 0 => w.run[w.approval].at = "asking" /\ w.card = A!Call(w, w.approval)
  /\ w.approval = 0 => w.card = A!NoCall
  /\ \A r \in A!Runs : w.run[r].at = "asking" => w.approval = r /\ w.shown = "awaiting"
  /\ w.overlay # 0 => w.run[w.overlay].at = "model"
  /\ \A q, r \in A!Runs : w.run[q].token = w.run[r].token /\ w.run[q].token # 0 => q = r
  /\ \A n \in 1..w.latest : \E r \in A!Runs : w.run[r].token = n
  /\ ~w.open => w.thread = <<>>

Sound(w, tk, nd, ap, lt, ct) ==
  /\ w \in Windows /\ Heads(w) /\ tk \cap nd \subseteq ap
  /\ \A r \in A!Runs : Placed(w.run[r], r, w.latest, w.active) /\ Counted(w.run[r], r, tk, nd, ap, lt[r])
  /\ \A i \in 1..Len(w.thread) : IsCall(w.thread[i]) => Said(w.thread, i, w.run[w.thread[i].id[1]], w.latest, tk, ct)

(* The list.  While nothing was forgotten only the run there is has an edit *)
(* in hand, none while the panel reverts one.                               *)
Writes(x) == x.kind \in {"edit", "write"} /\ (x.at \in A!Waiting \/ x.op \in {"sent", "done"})
Made(x) == x.op = "done" /\ x.kind \in {"edit", "write"}
Tracked(w, d, p) ==
  /\ w.open
  /\ \A e \in w.changes : e.original.agent = A!NoCall
  /\ \A r \in A!Runs : Writes(w.run[r]) => r = w.active
  /\ \A r \in A!Runs : Made(w.run[r]) => /\ d.agent = A!Call(w, r) /\ w.run[r].now.agent = A!Call(w, r)
                                         /\ w.changes = {} => w.run[r].prev.agent = A!NoCall
  /\ d.agent # A!NoCall => \/ \E r \in A!Runs : Made(w.run[r])
                           \/ \E e \in w.changes : e.current.agent = d.agent
  /\ p.at # "none" => w.active = 0 /\ p.original.agent = A!NoCall
  /\ p.at = "wrote" => d.agent = A!NoCall
  /\ p.at # "orphan"

Panels == [at: {"none", "read", "write", "wrote", "orphan"}, force: BOOLEAN, note: BOOLEAN, original: A!Texts, current: A!Texts]

Whole == Sound(window, took, needed, approved, late, cut)
Plain ==
  /\ project \in A!Texts /\ panel \in Panels
  /\ took \subseteq A!Calls /\ needed \subseteq A!Calls /\ approved \subseteq A!Calls
  /\ late \in [A!Runs -> Nat] /\ cut \in BOOLEAN /\ forgotten \in BOOLEAN
OneEntry(ch) == \A e, f \in ch : e = f
Listed == ~forgotten => Tracked(window, project, panel)

\* The inductive invariant.
AgentInv == Whole /\ Plain /\ OneEntry(window.changes) /\ Listed
\* The bounds are numbers, and nothing of the agent's is there at first.
Limits == MaxRuns \in Nat /\ MAX_STEPS \in Nat /\ \A b \in Beginnings : b.file \in A!Texts /\ b.file.agent = A!NoCall

-----------------------------------------------------------------------------
(* What the parts of a step make of a window. *)

\* A run that is none.
LEMMA IdleIs ==
  ASSUME Limits
  PROVE  /\ A!Missing \in A!Texts /\ A!Missing.agent = A!NoCall
         /\ A!Idle \in Records /\ A!Idle.at = "off" /\ A!Idle.token = 0 /\ ~A!Idle.aborted /\ A!Idle.step = 0 /\ A!Idle.op = "none" /\ ~A!Idle.quiet /\ ~A!Idle.ask
         /\ A!Idle.kind = "none"
<1>1. A!Missing \in A!Texts /\ A!Missing.agent = A!NoCall BY DEF A!Missing, A!Texts
<1>2. 0 \in 0..MAX_STEPS BY DEF Limits
<1> QED BY <1>1, <1>2 DEF A!Idle, Records, Places

\* A run that is over.
Past(x) == [A!Idle EXCEPT !.at = "over", !.token = x.token, !.aborted = x.aborted, !.quiet = x.quiet]

\* A run that is over keeps its token, and that it was stopped or gave way, and no more.
LEMMA PastIs ==
  ASSUME Limits, NEW x \in Records
  PROVE  /\ Past(x) \in Records /\ Past(x).at = "over" /\ Past(x).token = x.token /\ Past(x).op = "none" /\ Past(x).aborted = x.aborted
         /\ Past(x).quiet = x.quiet /\ Past(x).kind = "none" /\ Past(x).step = 0 /\ ~Past(x).ask
<1>1. A!Idle \in Records /\ A!Idle.op = "none" /\ A!Idle.kind = "none" /\ A!Idle.step = 0 /\ ~A!Idle.ask BY IdleIs
<1>2. x.token \in Nat /\ x.aborted \in BOOLEAN /\ x.quiet \in BOOLEAN /\ "over" \in Places BY DEF Records, Places
<1> QED BY <1>1, <1>2 DEF Past, Records

\* One run's record is replaced.
Put(w, r, x) == [w EXCEPT !.run[r] = x]

\* A run's record is put into the window, and nothing else of it moves.
LEMMA PutIs ==
  ASSUME NEW w \in Windows, NEW r \in A!Runs, NEW x \in Records
  PROVE  /\ Put(w, r, x) \in Windows /\ Put(w, r, x).run[r] = x /\ \A q \in A!Runs \ {r} : Put(w, r, x).run[q] = w.run[q]
         /\ Put(w, r, x).open = w.open /\ Put(w, r, x).thread = w.thread /\ Put(w, r, x).changes = w.changes
         /\ Put(w, r, x).latest = w.latest /\ Put(w, r, x).active = w.active /\ Put(w, r, x).approval = w.approval
         /\ Put(w, r, x).card = w.card /\ Put(w, r, x).shown = w.shown /\ Put(w, r, x).overlay = w.overlay
BY DEF Put, Windows

\* What it shows and waits for is put away.
Emptied(v) == [v EXCEPT !.active = 0, !.approval = 0, !.card = A!NoCall, !.shown = "none", !.overlay = 0]

\* No run is there, no card and no overlay.
LEMMA EmptiedIs ==
  ASSUME NEW v \in Windows
  PROVE  /\ Emptied(v) \in Windows /\ Emptied(v).run = v.run /\ Emptied(v).open = v.open /\ Emptied(v).thread = v.thread
         /\ Emptied(v).changes = v.changes /\ Emptied(v).latest = v.latest
         /\ Emptied(v).active = 0 /\ Emptied(v).approval = 0 /\ Emptied(v).card = A!NoCall /\ Emptied(v).shown = "none" /\ Emptied(v).overlay = 0
BY DEF Emptied, Windows, Holder

\* A run returns: its record is one of the past, and if it is the newest the window is free.
LEMMA FinishIs ==
  ASSUME Limits, NEW w \in Windows, NEW r \in A!Runs
  PROVE  /\ A!Finish(w, r) \in Windows
         /\ A!Finish(w, r).run[r] = Past(w.run[r]) /\ \A q \in A!Runs \ {r} : A!Finish(w, r).run[q] = w.run[q]
         /\ A!Finish(w, r).open = w.open /\ A!Finish(w, r).thread = w.thread /\ A!Finish(w, r).changes = w.changes
         /\ A!Finish(w, r).latest = w.latest
         /\ A!live(w, r) => /\ A!Finish(w, r).active = 0 /\ A!Finish(w, r).approval = 0 /\ A!Finish(w, r).card = A!NoCall
                            /\ A!Finish(w, r).shown = "none" /\ A!Finish(w, r).overlay = 0
         /\ ~A!live(w, r) => /\ A!Finish(w, r).active = w.active /\ A!Finish(w, r).approval = w.approval /\ A!Finish(w, r).card = w.card
                             /\ A!Finish(w, r).shown = w.shown /\ A!Finish(w, r).overlay = w.overlay
<1>1. w.run[r] \in Records BY DEF Windows
<1>2. Past(w.run[r]) \in Records BY <1>1, PastIs
<1>3. PICK x : x = Past(w.run[r]) OBVIOUS
<1>4. A!Finish(w, r) = IF A!live(w, r) THEN Emptied(Put(w, r, x)) ELSE Put(w, r, x) BY <1>3 DEF A!Finish, Put, Emptied, Past
<1>5. PICK v \in Windows : v = Put(w, r, x) BY <1>2, <1>3, PutIs
<1>6. CASE A!live(w, r) BY <1>2, <1>3, <1>4, <1>5, <1>6, PutIs, EmptiedIs
<1>7. CASE ~A!live(w, r) BY <1>2, <1>3, <1>4, <1>5, <1>7, PutIs
<1> QED BY <1>6, <1>7
\* What the person sees of it.
Shows(w, s) == [w EXCEPT !.shown = s]
Over(w, o) == [w EXCEPT !.overlay = o]

\* The rest of two windows is one.
Beside(v, w) ==
  /\ v.run = w.run /\ v.open = w.open /\ v.changes = w.changes /\ v.latest = w.latest /\ v.active = w.active
  /\ v.approval = w.approval /\ v.card = w.card

\* Another word for what goes on.
LEMMA ShowsIs ==
  ASSUME NEW w \in Windows, NEW s \in {"none", "running", "awaiting"}
  PROVE  /\ Shows(w, s) \in Windows /\ Beside(Shows(w, s), w) /\ Shows(w, s).thread = w.thread
         /\ Shows(w, s).shown = s /\ Shows(w, s).overlay = w.overlay
BY DEF Shows, Windows, Beside

\* Another overlay.
LEMMA OverIs ==
  ASSUME NEW w \in Windows, NEW o \in Holder
  PROVE  /\ Over(w, o) \in Windows /\ Beside(Over(w, o), w) /\ Over(w, o).thread = w.thread
         /\ Over(w, o).shown = w.shown /\ Over(w, o).overlay = o
BY DEF Over, Windows, Beside

\* Only a run that is the newest, and was not stopped, has its word shown.
LEMMA StatusIs ==
  ASSUME NEW w \in Windows, NEW r \in A!Runs, NEW s \in {"none", "running", "awaiting"}
  PROVE  /\ A!onStatus(w, r, s) \in Windows /\ Beside(A!onStatus(w, r, s), w) /\ A!onStatus(w, r, s).thread = w.thread
         /\ A!onStatus(w, r, s).overlay = w.overlay /\ A!onStatus(w, r, s).shown = IF A!running(w, r) THEN s ELSE w.shown
<1>1. A!onStatus(w, r, s) = IF A!running(w, r) THEN Shows(w, s) ELSE w BY DEF A!onStatus, Shows
<1>2. CASE A!running(w, r) BY <1>1, <1>2, ShowsIs
<1>3. CASE ~A!running(w, r) BY <1>1, <1>3 DEF Beside
<1> QED BY <1>2, <1>3

\* A run that asks the model again.
Anew(x) == [x EXCEPT !.step = @ + 1, !.at = "model", !.kind = "none", !.ask = FALSE, !.op = "none", !.saw = A!NoCall, !.prev = A!Missing,
                     !.now = A!Missing]

\* A step later a run awaits the model, and has nothing in hand.
LEMMA AnewIs ==
  ASSUME Limits, NEW x \in Records, x.step # MAX_STEPS
  PROVE  /\ Anew(x) \in Records /\ Anew(x).at = "model" /\ Anew(x).token = x.token /\ Anew(x).aborted = x.aborted
         /\ Anew(x).step = x.step + 1 /\ Anew(x).kind = "none" /\ ~Anew(x).ask /\ Anew(x).op = "none" /\ Anew(x).quiet = x.quiet
<1>1. A!Missing \in A!Texts BY IdleIs
<1>2. x.step + 1 \in 0..MAX_STEPS BY DEF Records, Limits
<1> QED BY <1>1, <1>2 DEF Anew, Records, Places

\* Of two records put for one run the second stands.
LEMMA PutAgain ==
  ASSUME NEW w \in Windows, NEW r \in A!Runs, NEW x \in Records, NEW y
  PROVE  Put(Put(w, r, x), r, y) = Put(w, r, y)
BY DEF Put, Windows

\* A window is itself with a run's own record put in.
LEMMA PutSame ==
  ASSUME NEW w \in Windows, NEW r \in A!Runs
  PROVE  w = Put(w, r, w.run[r]) /\ w.run[r] \in Records
<1>1. [w.run EXCEPT ![r] = w.run[r]] = w.run BY DEF Windows
<1> QED BY <1>1 DEF Put, Windows

\* The head of the loop: the run is over, or a step of it is asked of the model.
LEMMA NextStepIs ==
  ASSUME Limits, NEW w \in Windows, NEW r \in A!Runs
  PROVE  \/ A!NextStep(w, r) = A!Finish(w, r)
         \/ /\ w.run[r].step # MAX_STEPS /\ ~w.run[r].aborted /\ w.open
            /\ A!NextStep(w, r) = Over(Put(A!onStatus(w, r, "running"), r, Anew(w.run[r])), r)
<1> DEFINE c == w.run[r].step = MAX_STEPS \/ w.run[r].aborted \/ ~w.open
<1>1. A!NextStep(w, r) = IF c THEN A!Finish(w, r) ELSE Over(Put(A!onStatus(w, r, "running"), r, Anew(w.run[r])), r)
  BY DEF A!NextStep, Over, Put, Anew
<1> QED BY <1>1
\* NextStep, part by part.
Again(v, w, r) ==
  /\ v \in Windows /\ v.run[r] = Anew(w.run[r]) /\ \A q \in A!Runs \ {r} : v.run[q] = w.run[q]
  /\ v.open = w.open /\ v.thread = w.thread /\ v.changes = w.changes /\ v.latest = w.latest /\ v.active = w.active
  /\ v.approval = w.approval /\ v.card = w.card /\ v.shown = (IF A!running(w, r) THEN "running" ELSE w.shown) /\ v.overlay = r

\* What asking the model makes of the window.
LEMMA AskedAgain ==
  ASSUME Limits, NEW w \in Windows, NEW r \in A!Runs, w.run[r].step # MAX_STEPS
  PROVE  Again(Over(Put(A!onStatus(w, r, "running"), r, Anew(w.run[r])), r), w, r)
<1> DEFINE v == Over(Put(A!onStatus(w, r, "running"), r, Anew(w.run[r])), r)
<1>1. PICK u \in Windows : u = A!onStatus(w, r, "running") /\ Beside(u, w) /\ u.thread = w.thread
                           /\ u.shown = (IF A!running(w, r) THEN "running" ELSE w.shown)
  BY StatusIs
<1>2. w.run[r] \in Records BY PutSame
<1>3. PICK x \in Records : x = Anew(w.run[r]) BY <1>2, AnewIs
<1>4. PICK p \in Windows : p = Put(u, r, x) BY PutIs
<1>5. /\ p.run[r] = x /\ \A q \in A!Runs \ {r} : p.run[q] = u.run[q]
      /\ p.open = u.open /\ p.thread = u.thread /\ p.changes = u.changes /\ p.latest = u.latest /\ p.active = u.active
      /\ p.approval = u.approval /\ p.card = u.card /\ p.shown = u.shown
  BY <1>4, PutIs
<1>6. r \in Holder BY DEF Holder
<1>7. v = Over(p, r) BY <1>1, <1>3, <1>4
<1>8. PICK o : o = v OBVIOUS
<1>9. o \in Windows /\ Beside(o, p) /\ o.thread = p.thread /\ o.shown = p.shown /\ o.overlay = r BY <1>6, <1>7, <1>8, OverIs
<1>10. Again(o, w, r) BY <1>1, <1>3, <1>5, <1>9 DEF Beside, Again
<1> QED BY <1>8, <1>10

\* The words of a run.
Spoken(w, th, o) == [w EXCEPT !.thread = th, !.overlay = o]

\* Another thread and another overlay.
LEMMA SpokenIs ==
  ASSUME NEW w \in Windows, NEW th \in Seq(Msgs), NEW o \in Holder
  PROVE  /\ Spoken(w, th, o) \in Windows /\ Beside(Spoken(w, th, o), w) /\ Spoken(w, th, o).thread = th
         /\ Spoken(w, th, o).shown = w.shown /\ Spoken(w, th, o).overlay = o
BY DEF Spoken, Windows, Beside

Hushed(x) == [x EXCEPT !.quiet = TRUE]

\* A run that gave way is as it was otherwise.
LEMMA HushedIs ==
  ASSUME NEW x \in Records
  PROVE  /\ Hushed(x) \in Records /\ Hushed(x).quiet /\ Hushed(x).at = x.at /\ Hushed(x).token = x.token /\ Hushed(x).aborted = x.aborted
         /\ Hushed(x).step = x.step /\ Hushed(x).op = x.op /\ Hushed(x).kind = x.kind /\ Hushed(x).ask = x.ask
BY DEF Hushed, Records

\* A run's words: none are said by one that is not the newest, and a step ends the run's overlay.
LEMMA SayIs ==
  ASSUME NEW w \in Windows, NEW r \in A!Runs, NEW msgs \in Seq(Msgs)
  PROVE  /\ ~A!live(w, r) => A!Say(w, r, msgs) = Put(w, r, Hushed(w.run[r]))
         /\ A!live(w, r) => \E th \in Seq(Msgs), o \in Holder :
              /\ A!Say(w, r, msgs) = Spoken(w, th, o) /\ th = (IF w.open THEN w.thread \o msgs ELSE w.thread)
              /\ o \in {0, w.overlay} /\ (o # w.overlay => w.overlay = r)
              /\ (\E i \in DOMAIN msgs : msgs[i].k = "step") => o # r
<1>1. CASE ~A!live(w, r) BY <1>1 DEF A!Say, Put, Hushed
<1>2. CASE A!live(w, r)
  <2>1. w.thread \in Seq(Msgs) /\ w.overlay \in Holder BY DEF Windows
  <2>2. w.thread \o msgs \in Seq(Msgs) BY <2>1, ConcatProperties
  <2>3. PICK th \in Seq(Msgs) : th = (IF w.open THEN w.thread \o msgs ELSE w.thread) BY <2>1, <2>2
  <2>4. PICK o \in Holder : o = IF w.overlay = r /\ \E i \in DOMAIN msgs : msgs[i].k = "step" THEN 0 ELSE w.overlay
    BY <2>1 DEF Holder
  <2>5. A!Say(w, r, msgs) = Spoken(w, th, o) BY <1>2, <2>3, <2>4 DEF A!Say, Spoken
  <2>6. r # 0 BY DEF A!Runs
  <2> QED BY <1>2, <2>3, <2>4, <2>5, <2>6
<1> QED BY <1>1, <1>2

\* A thread whose call c has status st.
Patched(th, c, st) == [i \in DOMAIN th |-> IF th[i].k = "step" /\ th[i].id = c THEN [th[i] EXCEPT !.st = st] ELSE th[i]]

\* Of a thread in which one call has another status, the other messages are as they were.
LEMMA PatchedIs ==
  ASSUME NEW th \in Seq(Msgs), NEW c, NEW st \in Statuses
  PROVE  /\ Patched(th, c, st) \in Seq(Msgs) /\ Len(Patched(th, c, st)) = Len(th)
         /\ \A i \in 1..Len(th) : /\ Patched(th, c, st)[i].k = th[i].k /\ Patched(th, c, st)[i].id = th[i].id
                                  /\ th[i].k = "step" /\ th[i].id = c => Patched(th, c, st)[i].st = st
                                  /\ ~(th[i].k = "step" /\ th[i].id = c) => Patched(th, c, st)[i].st = th[i].st
<1>1. DOMAIN th = 1..Len(th) /\ Len(th) \in Nat /\ \A i \in 1..Len(th) : th[i] \in Msgs BY ElementOfSeq
<1>2. \A m \in Msgs : [m EXCEPT !.st = st] \in Msgs /\ [m EXCEPT !.st = st].k = m.k /\ [m EXCEPT !.st = st].id = m.id /\ [m EXCEPT !.st = st].st = st
  BY DEF Msgs
<1>3. Patched(th, c, st) \in [1..Len(th) -> Msgs] BY <1>1, <1>2 DEF Patched
<1>4. Patched(th, c, st) \in Seq(Msgs) /\ Len(Patched(th, c, st)) = Len(th) BY <1>1, <1>3
<1> QED BY <1>1, <1>2, <1>4 DEF Patched

\* Only the newest run gives its calls a status.
LEMMA PatchIs ==
  ASSUME NEW w \in Windows, NEW r \in A!Runs, NEW st \in Statuses
  PROVE  A!Patch(w, r, st) = IF A!live(w, r) THEN Spoken(w, Patched(w.thread, A!Call(w, r), st), w.overlay) ELSE w
<1>1. [w EXCEPT !.thread = Patched(w.thread, A!Call(w, r), st)] = [w EXCEPT !.thread = Patched(w.thread, A!Call(w, r), st), !.overlay = w.overlay]
  BY DEF Windows
<1> QED BY <1>1 DEF A!Patch, Spoken, Patched
-----------------------------------------------------------------------------
(* In the middle of a step of run r: what is so of all else. *)
Aside(w, r, tk, nd, ap, lt, ct) ==
  /\ w \in Windows /\ tk \cap nd \subseteq ap
  /\ \A q \in A!Runs \ {r} : Placed(w.run[q], q, w.latest, w.active) /\ Counted(w.run[q], q, tk, nd, ap, lt[q])
  /\ w.active \notin {0, r} => UnderWay(w.run[w.active])
  /\ w.approval # r
  /\ w.approval # 0 => w.run[w.approval].at = "asking" /\ w.card = A!Call(w, w.approval)
  /\ w.approval = 0 => w.card = A!NoCall
  /\ \A q \in A!Runs \ {r} : w.run[q].at = "asking" => w.approval = q /\ w.shown = "awaiting"
  /\ w.overlay # 0 => w.overlay # r /\ w.run[w.overlay].at = "model"
  /\ \A p, q \in A!Runs : w.run[p].token = w.run[q].token /\ w.run[p].token # 0 => p = q
  /\ \A n \in 1..w.latest : \E q \in A!Runs : w.run[q].token = n
  /\ ~w.open => w.thread = <<>>
  /\ \A i \in 1..Len(w.thread) : IsCall(w.thread[i]) /\ w.thread[i].id[1] # r => Said(w.thread, i, w.run[w.thread[i].id[1]], w.latest, tk, ct)

(* What is so of the run itself: it is the one there is, or a stopped one   *)
(* that another took over from; and no call is ahead of it.                 *)
Own(w, r, tk, nd, lt) ==
  LET x == w.run[r] IN
  /\ x.token # 0
  /\ (r = w.active /\ x.token = w.latest) \/ (r # w.active /\ x.aborted /\ x.token < w.latest)
  /\ \A s \in 1..MAX_STEPS : <<r, s>> \in tk \cup nd => s <= x.step
  /\ lt[r] \in {0, 1} /\ (lt[r] = 1 => x.aborted)

\* A message with a call of r, before the call at hand is answered ...
Unanswered(w, r, i, tk, ct) ==
  LET m == w.thread[i] IN
  /\ m.id[2] # 0 /\ m.id[2] <= w.run[r].step /\ m.st # "none"
  /\ m.st = "done" => m.id \in tk
  /\ m.st = "denied" => m.id \notin tk /\ m.id[2] < w.run[r].step
  /\ A!live(w, r) /\ m.id[2] = w.run[r].step => m.st \in A!Unsettled /\ (w.run[r].quiet \/ ct \/ LastWord(w.thread, i))
  /\ A!live(w, r) /\ m.id[2] # w.run[r].step /\ ~w.run[r].quiet => m.st \notin A!Unsettled /\ (ct \/ Replied(w.thread, i))

Pending(w, r, tk, nd, ap, lt, ct) ==
  /\ Aside(w, r, tk, nd, ap, lt, ct) /\ Own(w, r, tk, nd, lt) /\ w.run[r].step # 0
  /\ \A i \in 1..Len(w.thread) : IsCall(w.thread[i]) /\ w.thread[i].id[1] = r => Unanswered(w, r, i, tk, ct)

\* ... and after it is.
Closed(w, r, i, tk, ct) ==
  LET m == w.thread[i] IN
  /\ m.id[2] # 0 /\ m.id[2] <= w.run[r].step /\ m.st # "none"
  /\ m.st = "done" => m.id \in tk
  /\ m.st = "denied" => m.id \notin tk
  /\ ~w.run[r].quiet => m.st \notin A!Unsettled /\ (ct \/ Replied(w.thread, i))

Between(w, r, tk, nd, ap, lt, ct) ==
  /\ Aside(w, r, tk, nd, ap, lt, ct) /\ Own(w, r, tk, nd, lt)
  /\ ~A!live(w, r) => w.run[r].quiet
  /\ \A i \in 1..Len(w.thread) : IsCall(w.thread[i]) /\ w.thread[i].id[1] = r => Closed(w, r, i, tk, ct)

\* What a run does not change but its own.
Onward(w, v, r) ==
  /\ v.open = w.open /\ v.changes = w.changes /\ \A q \in A!Runs \ {r} : v.run[q] = w.run[q]
  /\ v.run[r].op \in {"none", "sent"}
  /\ v.active = w.active \/ (v.active = 0 /\ w.active = r /\ ~UnderWay(v.run[r]) /\ v.run[r].op = "none")

\* Its record says nothing of a call any more.
Rests(v, r) == v.run[r].op = "none" /\ ~v.run[r].ask /\ v.run[r].at \notin A!Waiting

\* A run that is over leaves all in order.
LEMMA EndsSoundly ==
  ASSUME Limits, NEW tk, NEW nd, NEW ap, NEW lt, NEW ct, NEW w, NEW r \in A!Runs, Between(w, r, tk, nd, ap, lt, ct)
  PROVE  Sound(A!Finish(w, r), tk, nd, ap, lt, ct) /\ Onward(w, A!Finish(w, r), r) /\ Rests(A!Finish(w, r), r)
<1>1. w \in Windows /\ w.run[r] \in Records /\ r # 0 BY PutSame DEF Between, Aside, A!Runs
<1>2. PICK x \in Records : x = Past(w.run[r]) BY <1>1, PastIs
<1>3. /\ x.at = "over" /\ x.token = w.run[r].token /\ x.op = "none" /\ x.aborted = w.run[r].aborted /\ x.quiet = w.run[r].quiet /\ ~x.ask
  BY <1>1, <1>2, PastIs
<1>4. PICK v \in Windows :
        /\ v = A!Finish(w, r) /\ v.run[r] = x /\ \A q \in A!Runs \ {r} : v.run[q] = w.run[q]
        /\ v.open = w.open /\ v.thread = w.thread /\ v.changes = w.changes /\ v.latest = w.latest
        /\ A!live(w, r) => v.active = 0 /\ v.approval = 0 /\ v.card = A!NoCall /\ v.shown = "none" /\ v.overlay = 0
        /\ ~A!live(w, r) => v.active = w.active /\ v.approval = w.approval /\ v.card = w.card /\ v.shown = w.shown /\ v.overlay = w.overlay
  BY <1>1, <1>2, FinishIs
<1>5. A!live(w, r) <=> w.run[r].token = w.latest BY DEF A!live
<1>6. w.run[r].token \in Nat /\ w.latest \in Nat BY <1>1 DEF Windows, Records
<1>7. A!live(w, r) <=> w.active = r BY <1>5, <1>6 DEF Between, Own
<1>8. ASSUME NEW q \in A!Runs \ {r} PROVE /\ UnderWay(w.run[q]) /\ A!live(w, r) => w.run[q].aborted
                                       /\ Placed(v.run[q], q, v.latest, v.active) /\ Counted(v.run[q], q, tk, nd, ap, lt[q])
  <2>1. Placed(w.run[q], q, w.latest, w.active) /\ Counted(w.run[q], q, tk, nd, ap, lt[q]) BY DEF Between, Aside
  <2>2. UnderWay(w.run[q]) /\ A!live(w, r) => w.run[q].aborted /\ w.run[q].token < w.latest BY <1>7, <2>1 DEF Placed
  <2>3. q # 0 BY DEF A!Runs
  <2> QED BY <1>4, <1>7, <2>1, <2>2, <2>3 DEF Placed
<1>9. Placed(x, r, v.latest, v.active) BY <1>3, <1>4, <1>6 DEF Placed, UnderWay, Going, Between, Own
<1>10. Counted(x, r, tk, nd, ap, lt[r]) BY <1>3 DEF Counted, UnderWay, Going, Between, Own
<1>11. \A q \in A!Runs : Placed(v.run[q], q, v.latest, v.active) /\ Counted(v.run[q], q, tk, nd, ap, lt[q]) BY <1>4, <1>8, <1>9, <1>10
<1>12. Heads(v)
  <2>1. v.active # 0 => UnderWay(v.run[v.active])
    <3>1. CASE A!live(w, r) BY <1>4, <3>1
    <3>2. CASE ~A!live(w, r)
      <4>1. w.active # r /\ w.active \in Holder BY <1>1, <1>7, <3>2 DEF Windows
      <4> QED BY <1>4, <3>2, <4>1 DEF Between, Aside, Holder
    <3> QED BY <3>1, <3>2
  <2>2. /\ v.approval # 0 => v.run[v.approval].at = "asking" /\ v.card = A!Call(v, v.approval)
        /\ v.approval = 0 => v.card = A!NoCall
    <3>1. CASE A!live(w, r) BY <1>4, <3>1
    <3>2. CASE ~A!live(w, r)
      <4>1. w.approval # r /\ w.approval \in Holder BY <1>1 DEF Windows, Between, Aside
      <4>2. w.approval # 0 => v.run[w.approval] = w.run[w.approval] BY <1>4, <4>1 DEF Holder
      <4> QED BY <1>4, <3>2, <4>1, <4>2 DEF Between, Aside, A!Call
    <3> QED BY <3>1, <3>2
  <2>3. ASSUME NEW q \in A!Runs, v.run[q].at = "asking" PROVE v.approval = q /\ v.shown = "awaiting"
    <3>1. q # r BY <1>3, <1>4, <2>3
    <3>2. w.run[q].at = "asking" /\ ~w.run[q].aborted /\ UnderWay(w.run[q]) BY <1>4, <2>3, <3>1 DEF Between, Aside, Placed, UnderWay, Going
    <3>3. ~A!live(w, r) BY <1>8, <3>1, <3>2
    <3> QED BY <1>4, <3>1, <3>2, <3>3 DEF Between, Aside
  <2>4. v.overlay # 0 => v.run[v.overlay].at = "model"
    <3>1. CASE A!live(w, r) BY <1>4, <3>1
    <3>2. CASE ~A!live(w, r)
      <4>1. w.overlay \in Holder BY <1>1 DEF Windows
      <4> QED BY <1>4, <3>2, <4>1 DEF Between, Aside, Holder
    <3> QED BY <3>1, <3>2
  <2>5. \A q \in A!Runs : v.run[q].token = w.run[q].token BY <1>3, <1>4
  <2>6. /\ \A p, q \in A!Runs : v.run[p].token = v.run[q].token /\ v.run[p].token # 0 => p = q
        /\ \A n \in 1..v.latest : \E q \in A!Runs : v.run[q].token = n
        /\ ~v.open => v.thread = <<>>
    BY <1>4, <2>5 DEF Between, Aside
  <2> QED BY <2>1, <2>2, <2>3, <2>4, <2>6 DEF Heads
<1>13. ASSUME NEW i \in 1..Len(v.thread), IsCall(v.thread[i])
       PROVE  Said(v.thread, i, v.run[v.thread[i].id[1]], v.latest, tk, ct)
  <2>1. v.thread[i] \in Msgs /\ v.thread[i].id \in A!Runs \X (0..MAX_STEPS)
    <3>1. v.thread \in Seq(Msgs) BY DEF Windows
    <3>2. v.thread[i] \in Msgs BY <3>1, ElementOfSeq
    <3> QED BY <1>13, <3>2 DEF Msgs, CallIds, IsCall
  <2>2. CASE v.thread[i].id[1] # r BY <1>4, <1>13, <2>1, <2>2 DEF Between, Aside
  <2>3. CASE v.thread[i].id[1] = r
    <3>1. Closed(w, r, i, tk, ct) BY <1>4, <1>13, <2>3 DEF Between
    <3>2. ~UnderWay(x) /\ x.at \notin {"off", "opening"} /\ ~MayYet(x, v.thread[i].id[2]) BY <1>3 DEF UnderWay, Going, MayYet
    <3>3. x.quiet => GaveWay(x, v.latest) BY DEF GaveWay
    <3> QED BY <1>3, <1>4, <2>3, <3>1, <3>2, <3>3 DEF Closed, Said
  <2> QED BY <2>2, <2>3
<1>14. tk \cap nd \subseteq ap BY DEF Between, Aside
<1>15. Sound(v, tk, nd, ap, lt, ct) BY <1>11, <1>12, <1>13, <1>14 DEF Sound
<1>16. Onward(w, v, r) BY <1>3, <1>4, <1>7 DEF Onward, UnderWay, Going
<1>17. Rests(v, r) BY <1>3, <1>4 DEF Rests, A!Waiting
<1> QED BY <1>4, <1>15, <1>16, <1>17

\* A run that goes on, too.
LEMMA GoesOnSoundly ==
  ASSUME Limits, NEW tk, NEW nd, NEW ap, NEW lt, NEW ct, NEW w, NEW r \in A!Runs, Between(w, r, tk, nd, ap, lt, ct)
  PROVE  Sound(A!NextStep(w, r), tk, nd, ap, lt, ct) /\ Onward(w, A!NextStep(w, r), r) /\ Rests(A!NextStep(w, r), r)
<1>1. w \in Windows /\ w.run[r] \in Records /\ r # 0 BY PutSame DEF Between, Aside, A!Runs
<1>2. CASE A!NextStep(w, r) = A!Finish(w, r) BY <1>2, EndsSoundly
<1>3. CASE /\ w.run[r].step # MAX_STEPS /\ ~w.run[r].aborted /\ w.open
           /\ A!NextStep(w, r) = Over(Put(A!onStatus(w, r, "running"), r, Anew(w.run[r])), r)
  <2>1. PICK x \in Records :
          /\ x = Anew(w.run[r]) /\ x.at = "model" /\ x.token = w.run[r].token /\ x.aborted = w.run[r].aborted
          /\ x.step = w.run[r].step + 1 /\ x.kind = "none" /\ ~x.ask /\ x.op = "none" /\ x.quiet = w.run[r].quiet
    BY <1>1, <1>3, AnewIs
  <2>2. r = w.active /\ w.run[r].token = w.latest /\ w.run[r].token # 0 BY <1>3 DEF Between, Own
  <2>3. A!running(w, r) BY <1>3, <2>2 DEF A!running, A!live
  <2>4. PICK v : v = A!NextStep(w, r) OBVIOUS
  <2>5. /\ v \in Windows /\ v.run[r] = x /\ \A q \in A!Runs \ {r} : v.run[q] = w.run[q]
        /\ v.open = w.open /\ v.thread = w.thread /\ v.changes = w.changes /\ v.latest = w.latest /\ v.active = w.active
        /\ v.approval = w.approval /\ v.card = w.card /\ v.shown = "running" /\ v.overlay = r
    <3>1. Again(A!NextStep(w, r), w, r) BY <1>1, <1>3, AskedAgain
    <3>2. Again(v, w, r) BY <2>4, <3>1
    <3> QED BY <2>1, <2>3, <3>2 DEF Again
  <2>6. w.run[r].token \in Nat /\ w.latest \in Nat /\ w.run[r].step \in Nat /\ x.step \in Nat /\ x.step # 0
    BY <1>1, <2>1 DEF Windows, Records
  <2>7. \A q \in A!Runs \ {r} : w.run[q].at # "asking" BY <2>2 DEF Between, Aside, Placed, UnderWay, Going
  <2>8. \A q \in A!Runs \ {r} : Placed(v.run[q], q, v.latest, v.active) /\ Counted(v.run[q], q, tk, nd, ap, lt[q])
    BY <2>5 DEF Between, Aside
  <2>9. Placed(x, r, v.latest, v.active) BY <1>3, <2>1, <2>2, <2>5, <2>6 DEF Placed, UnderWay, Going
  <2>10. Counted(x, r, tk, nd, ap, lt[r])
    <3>1. \A s \in 1..MAX_STEPS : <<r, s>> \in tk \cup nd => s <= w.run[r].step BY DEF Between, Own
    <3>2. \A s \in 1..MAX_STEPS : <<r, s>> \in tk \cup nd => s < x.step BY <2>1, <2>6, <3>1
    <3>3. lt[r] = 0 BY <1>3 DEF Between, Own
    <3>4. \A s \in 1..MAX_STEPS : <<r, s>> \in tk \cup nd => s <= x.step /\ s # x.step BY <2>6, <3>2
    <3> QED BY <2>1, <3>3, <3>4 DEF Counted
  <2>11. Heads(v)
    <3>1. w.approval = 0 /\ w.card = A!NoCall
      <4>1. w.approval \in Holder /\ w.approval # r BY <1>1 DEF Windows, Between, Aside
      <4> QED BY <2>7, <4>1 DEF Between, Aside, Holder
    <3>2. \A q \in A!Runs : v.run[q].at # "asking" BY <2>1, <2>5, <2>7
    <3>3. \A q \in A!Runs : v.run[q].token = w.run[q].token BY <2>1, <2>5
    <3>4. /\ \A p, q \in A!Runs : v.run[p].token = v.run[q].token /\ v.run[p].token # 0 => p = q
          /\ \A n \in 1..v.latest : \E q \in A!Runs : v.run[q].token = n
          /\ ~v.open => v.thread = <<>>
      BY <2>5, <3>3 DEF Between, Aside
    <3> QED BY <1>1, <2>1, <2>2, <2>5, <3>1, <3>2, <3>4 DEF Heads, UnderWay, Going
  <2>12. ASSUME NEW i \in 1..Len(v.thread), IsCall(v.thread[i])
         PROVE  Said(v.thread, i, v.run[v.thread[i].id[1]], v.latest, tk, ct)
    <3>1. v.thread[i] \in Msgs /\ v.thread[i].id \in A!Runs \X (0..MAX_STEPS)
      <4>1. v.thread \in Seq(Msgs) BY <2>5 DEF Windows
      <4>2. v.thread[i] \in Msgs BY <4>1, ElementOfSeq
      <4> QED BY <2>12, <4>2 DEF Msgs, CallIds, IsCall
    <3>2. CASE v.thread[i].id[1] # r BY <2>5, <2>12, <3>1, <3>2 DEF Between, Aside
    <3>3. CASE v.thread[i].id[1] = r
      <4>1. Closed(w, r, i, tk, ct) BY <2>5, <2>12, <3>3 DEF Between
      <4>2. v.thread[i].id[2] \in Nat BY <3>1
      <4>3. v.thread[i].id[2] < x.step BY <2>1, <2>5, <2>6, <4>1, <4>2 DEF Closed
      <4>4. ~MayYet(x, v.thread[i].id[2]) BY <2>1, <2>6, <4>2, <4>3 DEF MayYet
      <4>5. x.quiet => GaveWay(x, v.latest) BY DEF GaveWay
      <4>6. v.thread[i].id[1] = r /\ v.run[v.thread[i].id[1]] = x /\ v.thread = w.thread BY <2>5, <3>3
      <4>7. PICK m : m = v.thread[i] OBVIOUS
      <4>8. /\ m.id[1] = r /\ m.id[2] # 0 /\ m.id[2] < x.step /\ m.st # "none"
            /\ m.st = "done" => m.id \in tk
            /\ m.st = "denied" => m.id \notin tk
            /\ ~w.run[r].quiet => m.st \notin A!Unsettled /\ (ct \/ Replied(v.thread, i))
        BY <4>1, <4>3, <4>6, <4>7 DEF Closed
      <4>9. ~MayYet(x, m.id[2]) /\ m.id[2] \in Nat /\ x.step \in Nat BY <2>6, <4>2, <4>4, <4>7
      <4>10. x.quiet = w.run[r].quiet /\ x.at = "model" BY <2>1
      <4> QED BY <4>5, <4>6, <4>7, <4>8, <4>9, <4>10 DEF Said
    <3> QED BY <3>2, <3>3
  <2>13. tk \cap nd \subseteq ap BY DEF Between, Aside
  <2>14. \A q \in A!Runs : Placed(v.run[q], q, v.latest, v.active) /\ Counted(v.run[q], q, tk, nd, ap, lt[q]) BY <2>5, <2>8, <2>9, <2>10
  <2>15. Sound(v, tk, nd, ap, lt, ct) BY <2>11, <2>12, <2>13, <2>14, <2>5 DEF Sound
  <2>16. Onward(w, v, r) BY <2>1, <2>5 DEF Onward
  <2>17. Rests(v, r) BY <2>1, <2>5 DEF Rests, A!Waiting
  <2> QED BY <2>4, <2>15, <2>16, <2>17
<1> QED BY <1>1, <1>2, <1>3, NextStepIs

(* A run under way is taken up: v is w with run r's card and overlay put    *)
(* away, and perhaps r stopped.                                             *)
Loose(v, w, r) ==
  /\ v \in Windows /\ \A q \in A!Runs \ {r} : v.run[q] = w.run[q]
  /\ v.run[r].token = w.run[r].token /\ v.run[r].step = w.run[r].step /\ v.run[r].quiet = w.run[r].quiet
  /\ w.run[r].aborted => v.run[r].aborted
  /\ v.open = w.open /\ v.thread = w.thread /\ v.latest = w.latest /\ v.active = w.active
  /\ v.approval = IF w.approval = r THEN 0 ELSE w.approval
  /\ v.card = IF w.approval = r THEN A!NoCall ELSE w.card
  /\ v.overlay = IF w.overlay = r THEN 0 ELSE w.overlay
  /\ v.shown = w.shown \/ w.active = r

\* The model's reply has come: no call of r is ahead.
Fresh(w, r, tk, nd, ap, lt, ct) ==
  /\ Aside(w, r, tk, nd, ap, lt, ct) /\ Own(w, r, tk, nd, lt) /\ w.run[r].step # 0 /\ A!live(w, r)
  /\ \A i \in 1..Len(w.thread) : IsCall(w.thread[i]) /\ w.thread[i].id[1] = r =>
       Closed(w, r, i, tk, ct) /\ w.thread[i].id[2] < w.run[r].step

\* The types of a run's record, and of the window's heads.
LEMMA TokensOf ==
  ASSUME Limits, NEW w \in Windows, NEW r \in A!Runs
  PROVE  /\ w.run[r] \in Records /\ w.run[r].token \in Nat /\ w.run[r].step \in 0..MAX_STEPS /\ w.run[r].step \in Nat /\ MAX_STEPS \in Nat
         /\ w.run[r].aborted \in BOOLEAN /\ w.run[r].quiet \in BOOLEAN /\ w.latest \in Nat /\ r # 0 /\ r \in Nat
         /\ w.active \in Holder /\ w.approval \in Holder /\ w.overlay \in Holder
<1>1. /\ w.run \in [A!Runs -> Records] /\ w.latest \in Nat
      /\ w.active \in Holder /\ w.approval \in Holder /\ w.overlay \in Holder
  BY DEF Windows
<1>2. PICK x \in Records : x = w.run[r] BY <1>1
<1>3. x.token \in Nat /\ x.step \in 0..MAX_STEPS /\ x.aborted \in BOOLEAN /\ x.quiet \in BOOLEAN BY DEF Records
<1>4. MAX_STEPS \in Nat BY DEF Limits
<1>5. x.step \in Nat BY <1>3, <1>4
<1>6. r # 0 /\ r \in Nat BY DEF A!Runs
<1> QED BY <1>1, <1>2, <1>3, <1>4, <1>5, <1>6

\* The types of a message.
LEMMA MessagesOf ==
  ASSUME Limits, NEW w \in Windows, NEW i \in 1..Len(w.thread)
  PROVE  /\ w.thread \in Seq(Msgs) /\ Len(w.thread) \in Nat /\ w.thread[i] \in Msgs /\ i \in Nat
         /\ IsCall(w.thread[i]) => w.thread[i].id \in A!Runs \X (0..MAX_STEPS) /\ w.thread[i].id[1] \in A!Runs /\ w.thread[i].id[2] \in Nat
<1>1. w.thread \in Seq(Msgs) BY DEF Windows
<1>2. w.thread[i] \in Msgs BY <1>1, ElementOfSeq
<1> QED BY <1>1, <1>2 DEF Msgs, CallIds, IsCall, Limits

\* A run under way that is taken up: all else is as a run in the middle of a step finds it.
LEMMA Holds ==
  ASSUME Limits, NEW tk, NEW nd, NEW ap, NEW lt, NEW ct, NEW w, NEW r \in A!Runs, Sound(w, tk, nd, ap, lt, ct), UnderWay(w.run[r]),
         NEW v, Loose(v, w, r)
  PROVE  /\ Aside(v, r, tk, nd, ap, lt, ct) /\ Own(v, r, tk, nd, lt) /\ v.run[r].step # 0
         /\ w.run[r].at = "model" => Fresh(v, r, tk, nd, ap, lt, ct)
         /\ w.run[r].at # "model" => Pending(v, r, tk, nd, ap, lt, ct)
<1>1. w \in Windows /\ v \in Windows BY DEF Sound, Loose
<1> DEFINE x == w.run[r]
<1>2. x.token \in Nat /\ x.step \in Nat /\ x.aborted \in BOOLEAN /\ w.latest \in Nat /\ r # 0 /\ v.run[r].aborted \in BOOLEAN BY <1>1, TokensOf
<1>3. Placed(x, r, w.latest, w.active) /\ Counted(x, r, tk, nd, ap, lt[r]) BY DEF Sound
<1>4. \A q \in A!Runs \ {r} : w.run[q].at = "asking" => w.active = q BY DEF Sound, Placed, UnderWay, Going
<1>5. Own(v, r, tk, nd, lt)
  <2>1. (r = v.active /\ v.run[r].token = v.latest) \/ (r # v.active /\ v.run[r].aborted /\ v.run[r].token < v.latest) BY <1>3 DEF Placed, Loose
  <2>2. lt[r] \in {0, 1} /\ (lt[r] = 1 => v.run[r].aborted) BY <1>3 DEF Counted, Loose, UnderWay, Going
  <2>3. \A s \in 1..MAX_STEPS : <<r, s>> \in tk \cup nd => s <= v.run[r].step BY <1>3 DEF Counted, Loose
  <2>4. v.run[r].token # 0 BY <1>3 DEF Placed, Loose
  <2> QED BY <2>1, <2>2, <2>3, <2>4 DEF Own
<1>6. Aside(v, r, tk, nd, ap, lt, ct)
  <2>1. \A q \in A!Runs \ {r} : Placed(v.run[q], q, v.latest, v.active) /\ Counted(v.run[q], q, tk, nd, ap, lt[q]) BY DEF Sound, Loose
  <2>2. v.active \notin {0, r} => UnderWay(v.run[v.active])
    <3>1. v.active \in Holder BY <1>1, TokensOf
    <3> QED BY <3>1 DEF Sound, Heads, Loose, Holder
  <2>3. v.approval # r /\ (v.approval # 0 => v.approval \in A!Runs \ {r} /\ v.approval = w.approval) BY <1>1, <1>2, TokensOf DEF Loose, Holder
  <2>4. /\ v.approval # 0 => v.run[v.approval].at = "asking" /\ v.card = A!Call(v, v.approval)
        /\ v.approval = 0 => v.card = A!NoCall
    BY <2>3 DEF Sound, Heads, Loose, A!Call
  <2>5. ASSUME NEW q \in A!Runs \ {r}, v.run[q].at = "asking" PROVE v.approval = q /\ v.shown = "awaiting"
    <3>1. w.run[q].at = "asking" BY <2>5 DEF Loose
    <3>2. w.active = q /\ w.approval = q /\ w.shown = "awaiting" BY <1>4, <3>1 DEF Sound, Heads
    <3> QED BY <3>2 DEF Loose
  <2>6. v.overlay # 0 => v.overlay # r /\ v.run[v.overlay].at = "model"
    <3>1. w.overlay \in Holder BY <1>1, TokensOf
    <3> QED BY <1>2, <3>1 DEF Sound, Heads, Loose, Holder
  <2>7. \A q \in A!Runs : v.run[q].token = w.run[q].token BY DEF Loose
  <2>8. /\ \A p, q \in A!Runs : v.run[p].token = v.run[q].token /\ v.run[p].token # 0 => p = q
        /\ \A n \in 1..v.latest : \E q \in A!Runs : v.run[q].token = n
        /\ ~v.open => v.thread = <<>>
    BY <2>7 DEF Sound, Heads, Loose
  <2>9. ASSUME NEW i \in 1..Len(v.thread), IsCall(v.thread[i]), v.thread[i].id[1] # r
        PROVE  Said(v.thread, i, v.run[v.thread[i].id[1]], v.latest, tk, ct)
    <3>1. v.thread[i].id[1] \in A!Runs \ {r} BY <1>1, <2>9, MessagesOf
    <3> QED BY <2>9, <3>1 DEF Sound, Loose
  <2> QED BY <1>1, <2>1, <2>2, <2>3, <2>4, <2>5, <2>6, <2>8, <2>9 DEF Aside, Sound
<1>7. v.run[r].step # 0 BY <1>3 DEF Placed, Loose
<1>8. ASSUME NEW i \in 1..Len(v.thread), IsCall(v.thread[i]), v.thread[i].id[1] = r
      PROVE  /\ x.at = "model" => Closed(v, r, i, tk, ct) /\ v.thread[i].id[2] < v.run[r].step
             /\ x.at # "model" => Unanswered(v, r, i, tk, ct)
  <2>1. Said(w.thread, i, x, w.latest, tk, ct) BY <1>8 DEF Sound, Loose
  <2>2. v.thread[i].id[2] \in Nat BY <1>1, <1>8, MessagesOf
  <2>3. v.thread = w.thread /\ v.latest = w.latest /\ v.run[r].token = x.token /\ v.run[r].step = x.step /\ v.run[r].quiet = x.quiet BY DEF Loose
  <2>4. x.at # "over" /\ x.token # 0 BY <1>3 DEF Placed, UnderWay, Going
  <2>5. GaveWay(x, w.latest) <=> (x.quiet \/ x.token # w.latest) BY <2>4 DEF GaveWay
  <2>6. CASE x.at = "model"
    <3>1. x.token = w.latest BY <1>3, <2>6 DEF Placed
    <3>2. w.thread[i].id[2] < x.step BY <1>2, <2>1, <2>2, <2>3, <2>6 DEF Said
    <3>3. x.at \notin A!Waiting BY <2>6 DEF A!Waiting
    <3> QED BY <2>1, <2>3, <2>5, <2>6, <3>1, <3>2, <3>3, <1>2 DEF Closed, Said
  <2>7. CASE x.at # "model"
    <3>1. w.thread[i].id[2] <= x.step BY <2>1 DEF Said
    <3>2. w.thread[i].st = "denied" => w.thread[i].id[2] < x.step BY <1>2, <2>1, <2>2, <2>3, <3>1 DEF Said, MayYet
    <3>3. A!live(v, r) <=> x.token = w.latest BY <2>3 DEF A!live
    <3> QED BY <2>1, <2>3, <2>5, <2>7, <3>1, <3>2, <3>3 DEF Unanswered, Said
  <2> QED BY <2>6, <2>7
<1>9. x.at = "model" => A!live(v, r) BY <1>3 DEF Placed, Loose, A!live
<1> QED BY <1>5, <1>6, <1>7, <1>8, <1>9 DEF Fresh, Pending

\* u is v but for the record of r, the thread and, when r is the run there is, what is shown.
Kept(u, v, r) ==
  /\ u \in Windows /\ \A q \in A!Runs \ {r} : u.run[q] = v.run[q]
  /\ u.run[r].token = v.run[r].token
  /\ u.open = v.open /\ u.latest = v.latest /\ u.active = v.active
  /\ u.approval = v.approval /\ u.card = v.card /\ u.overlay = v.overlay
  /\ u.shown = v.shown \/ v.active = r
  /\ ~u.open => u.thread = <<>>

\* What runs other than r said in thread th is so.
Rest(th, v, r, tk, ct) ==
  \A i \in 1..Len(th) : IsCall(th[i]) /\ th[i].id[1] # r => Said(th, i, v.run[th[i].id[1]], v.latest, tk, ct)

\* What is so of all else stays so, if the run keeps its token and its step and says nothing of other runs.
LEMMA AsideStays ==
  ASSUME Limits, NEW tk, NEW nd, NEW ap, NEW lt, NEW ct, NEW v, NEW r \in A!Runs, Aside(v, r, tk, nd, ap, lt, ct), NEW u, Kept(u, v, r),
         Rest(u.thread, v, r, tk, ct)
  PROVE  Aside(u, r, tk, nd, ap, lt, ct)
<1>1. u \in Windows /\ v \in Windows BY DEF Kept, Aside
<1>2. \A q \in A!Runs \ {r} : Placed(u.run[q], q, u.latest, u.active) /\ Counted(u.run[q], q, tk, nd, ap, lt[q]) BY DEF Kept, Aside
<1>3. u.active \notin {0, r} => UnderWay(u.run[u.active])
  <2>1. v.active \in Holder BY <1>1, TokensOf
  <2> QED BY <2>1 DEF Aside, Kept, Holder
<1>4. /\ u.approval # r
      /\ u.approval # 0 => u.run[u.approval].at = "asking" /\ u.card = A!Call(u, u.approval)
      /\ u.approval = 0 => u.card = A!NoCall
  <2>1. v.approval \in Holder /\ v.approval # r BY <1>1, TokensOf DEF Aside
  <2>2. v.approval # 0 => u.run[v.approval] = v.run[v.approval] BY <2>1 DEF Kept, Holder
  <2> QED BY <2>1, <2>2 DEF Aside, Kept, A!Call
<1>5. ASSUME NEW q \in A!Runs \ {r}, u.run[q].at = "asking" PROVE u.approval = q /\ u.shown = "awaiting"
  <2>1. v.run[q].at = "asking" BY <1>5 DEF Kept
  <2>2. v.active = q BY <2>1 DEF Aside, Placed, UnderWay, Going
  <2> QED BY <2>1, <2>2 DEF Aside, Kept
<1>6. u.overlay # 0 => u.overlay # r /\ u.run[u.overlay].at = "model"
  <2>1. v.overlay \in Holder BY <1>1, TokensOf
  <2> QED BY <2>1 DEF Aside, Kept, Holder
<1>7. \A q \in A!Runs : u.run[q].token = v.run[q].token BY DEF Kept
<1>8. /\ \A p, q \in A!Runs : u.run[p].token = u.run[q].token /\ u.run[p].token # 0 => p = q
      /\ \A n \in 1..u.latest : \E q \in A!Runs : u.run[q].token = n
      /\ ~u.open => u.thread = <<>>
  BY <1>7 DEF Aside, Kept
<1>9. ASSUME NEW i \in 1..Len(u.thread), IsCall(u.thread[i]), u.thread[i].id[1] # r
      PROVE  Said(u.thread, i, u.run[u.thread[i].id[1]], u.latest, tk, ct)
  <2>1. u.thread[i].id[1] \in A!Runs \ {r} BY <1>1, <1>9, MessagesOf
  <2> QED BY <1>9, <2>1 DEF Kept, Rest
<1>10. tk \cap nd \subseteq ap BY DEF Aside
<1> QED BY <1>1, <1>2, <1>3, <1>4, <1>5, <1>6, <1>8, <1>9, <1>10 DEF Aside

\* And what is so of the run itself.
LEMMA OwnStays ==
  ASSUME Limits, NEW tk, NEW nd, NEW lt, NEW v, NEW r \in A!Runs, Own(v, r, tk, nd, lt), NEW u, u.run[r].token = v.run[r].token,
         u.run[r].step = v.run[r].step, v.run[r].aborted => u.run[r].aborted, u.active = v.active, u.latest = v.latest
  PROVE  Own(u, r, tk, nd, lt)
BY DEF Own

\* What a message says is not changed by what comes after it.
LEMMA Appended ==
  ASSUME NEW th \in Seq(Msgs), NEW msgs \in Seq(Msgs)
  PROVE  /\ th \o msgs \in Seq(Msgs) /\ Len(th \o msgs) = Len(th) + Len(msgs) /\ Len(th) \in Nat /\ Len(msgs) \in Nat
         /\ \A i \in 1..Len(th) : (th \o msgs)[i] = th[i]
         /\ \A i \in 1..Len(msgs) : (th \o msgs)[Len(th) + i] = msgs[i]
         /\ \A i \in 1..Len(th) : /\ Replied(th, i) => Replied(th \o msgs, i)
                                  /\ LastWord(th, i) /\ (\A k \in 1..Len(msgs) : msgs[k].k = "note") => LastWord(th \o msgs, i)
                                  /\ LastWord(th, i) /\ Len(msgs) = 1 /\ msgs[1].k = "results" /\ msgs[1].id = th[i].id => Replied(th \o msgs, i)
<1> DEFINE n == Len(th)
           m == Len(msgs)
           both == th \o msgs
<1>1. n \in Nat /\ m \in Nat BY LenProperties
<1>2. both \in Seq(Msgs) /\ Len(both) = n + m BY ConcatProperties
<1>3. \A i \in 1..(n + m) : both[i] = IF i <= n THEN th[i] ELSE msgs[i - n] BY ConcatProperties
<1> HIDE DEF n, m, both
<1>4. \A i \in 1..n : both[i] = th[i] BY <1>1, <1>3
<1>5. \A i \in 1..m : both[n + i] = msgs[i]
  <2> TAKE i \in 1..m
  <2>1. n + i \in 1..(n + m) /\ ~(n + i <= n) /\ (n + i) - n = i BY <1>1
  <2> QED BY <1>3, <2>1
<1>6. ASSUME NEW i \in 1..n, Replied(th, i) PROVE Replied(both, i)
  <2>1. PICK j \in (i + 1)..n : th[j].k = "results" /\ th[j].id = th[i].id /\ \A k \in (i + 1)..(j - 1) : th[k].k = "note" BY <1>6 DEF Replied, n
  <2>2. j \in 1..n /\ j \in (i + 1)..(n + m) /\ \A k \in (i + 1)..(j - 1) : k \in 1..n BY <1>1
  <2> QED BY <1>2, <1>4, <2>1, <2>2 DEF Replied
<1>7. ASSUME NEW i \in 1..n, LastWord(th, i), \A k \in 1..m : msgs[k].k = "note" PROVE LastWord(both, i)
  <2>1. ASSUME NEW k \in (i + 1)..(n + m) PROVE both[k].k = "note"
    <3>1. CASE k <= n
      <4>1. k \in 1..n /\ k \in (i + 1)..n BY <1>1, <3>1
      <4> QED BY <1>4, <1>7, <4>1 DEF LastWord, n
    <3>2. CASE ~(k <= n)
      <4>1. k - n \in 1..m /\ k \in 1..(n + m) BY <1>1, <3>2
      <4> QED BY <1>3, <1>7, <3>2, <4>1
    <3> QED BY <3>1, <3>2
  <2> QED BY <1>2, <2>1 DEF LastWord
<1>8. ASSUME NEW i \in 1..n, LastWord(th, i), m = 1, msgs[1].k = "results", msgs[1].id = th[i].id PROVE Replied(both, i)
  <2>1. n + 1 \in (i + 1)..(n + m) /\ \A k \in (i + 1)..((n + 1) - 1) : k \in 1..n /\ k \in (i + 1)..n BY <1>1, <1>8
  <2>2. both[n + 1] = msgs[1] BY <1>5, <1>8
  <2>3. \A k \in (i + 1)..((n + 1) - 1) : both[k].k = "note" BY <1>4, <1>8, <2>1 DEF LastWord, n
  <2> QED BY <1>2, <1>4, <1>8, <2>1, <2>2, <2>3 DEF Replied
<1> QED BY <1>1, <1>2, <1>4, <1>5, <1>6, <1>7, <1>8 DEF n, m, both

\* u is v after run r said msgs.
Told(u, v, r, msgs) ==
  /\ Kept(u, v, r) /\ u.changes = v.changes /\ u.shown = v.shown
  /\ A!live(v, r) => u.run = v.run /\ u.thread = (IF v.open THEN v.thread \o msgs ELSE v.thread)
  /\ ~A!live(v, r) => u.run[r] = Hushed(v.run[r]) /\ u.thread = v.thread

\* What its words make of a window.
LEMMA SayTells ==
  ASSUME NEW v \in Windows, NEW r \in A!Runs, NEW msgs \in Seq(Msgs), v.overlay # r, ~v.open => v.thread = <<>>
  PROVE  Told(A!Say(v, r, msgs), v, r, msgs)
<1>1. v.run[r] \in Records BY PutSame
<1>2. CASE ~A!live(v, r)
  <2>1. PICK x \in Records : x = Hushed(v.run[r]) /\ x.token = v.run[r].token BY <1>1, HushedIs
  <2>2. PICK u : u = Put(v, r, x) OBVIOUS
  <2>3. /\ u \in Windows /\ u.run[r] = x /\ \A q \in A!Runs \ {r} : u.run[q] = v.run[q]
        /\ u.open = v.open /\ u.thread = v.thread /\ u.changes = v.changes
        /\ u.latest = v.latest /\ u.active = v.active /\ u.approval = v.approval
        /\ u.card = v.card /\ u.shown = v.shown /\ u.overlay = v.overlay
    BY <2>2, PutIs
  <2>4. A!Say(v, r, msgs) = u BY <1>2, <2>1, <2>2, SayIs
  <2>5. Told(u, v, r, msgs) BY <1>2, <2>1, <2>3 DEF Told, Kept
  <2> QED BY <2>4, <2>5
<1>3. CASE A!live(v, r)
  <2>1. PICK th \in Seq(Msgs), o \in Holder :
          /\ A!Say(v, r, msgs) = Spoken(v, th, o) /\ th = (IF v.open THEN v.thread \o msgs ELSE v.thread)
          /\ o \in {0, v.overlay} /\ (o # v.overlay => v.overlay = r)
    <3>1. A!live(v, r) => \E th \in Seq(Msgs), o \in Holder :
            /\ A!Say(v, r, msgs) = Spoken(v, th, o) /\ th = (IF v.open THEN v.thread \o msgs ELSE v.thread)
            /\ o \in {0, v.overlay} /\ (o # v.overlay => v.overlay = r)
            /\ (\E i \in DOMAIN msgs : msgs[i].k = "step") => o # r
      BY SayIs
    <3> QED BY <1>3, <3>1
  <2>2. PICK u : u = Spoken(v, th, o) OBVIOUS
  <2>3. /\ u \in Windows /\ Beside(u, v) /\ u.thread = th /\ u.shown = v.shown /\ u.overlay = o BY <2>2, SpokenIs
  <2>4. Told(u, v, r, msgs) BY <1>3, <2>1, <2>3 DEF Told, Kept, Beside
  <2> QED BY <2>1, <2>2, <2>4
<1> QED BY <1>2, <1>3

Answering(both, th, msgs) ==
  /\ Len(both) = Len(th) + 1 /\ both[Len(th) + 1] = msgs[1]
  /\ \A i \in 1..Len(th) : /\ both[i] = th[i] /\ (Replied(th, i) => Replied(both, i))
                           /\ LastWord(th, i) /\ msgs[1].id = th[i].id => Replied(both, i)

\* Results joined to a thread answer its last call.
LEMMA AnsweredBy ==
  ASSUME NEW th \in Seq(Msgs), NEW msgs \in Seq(Msgs), Len(msgs) = 1, msgs[1].k = "results", NEW both, both = th \o msgs
  PROVE  Answering(both, th, msgs)
<1>1. Len(th \o msgs) = Len(th) + 1 /\ (th \o msgs)[Len(th) + 1] = msgs[1] BY Appended
<1>2. ASSUME NEW i \in 1..Len(th)
      PROVE  /\ (th \o msgs)[i] = th[i] /\ (Replied(th, i) => Replied(th \o msgs, i))
             /\ LastWord(th, i) /\ msgs[1].id = th[i].id => Replied(th \o msgs, i)
  BY Appended
<1> QED BY <1>1, <1>2 DEF Answering

\* What others said is not changed by it.
LEMMA OthersAppended ==
  ASSUME Limits, NEW tk, NEW nd, NEW ap, NEW lt, NEW ct, NEW v, NEW r \in A!Runs, Aside(v, r, tk, nd, ap, lt, ct), A!live(v, r), v.run[r].token # 0,
         NEW msgs \in Seq(Msgs), \A k \in 1..Len(msgs) : IsCall(msgs[k]) => msgs[k].id[1] = r, NEW th, th = v.thread \o msgs
  PROVE  Rest(th, v, r, tk, ct)
<1>1. v \in Windows /\ v.thread \in Seq(Msgs) BY DEF Aside, Windows
<1>2. /\ Len(th) = Len(v.thread) + Len(msgs) /\ Len(v.thread) \in Nat /\ Len(msgs) \in Nat
      /\ \A i \in 1..Len(v.thread) : th[i] = v.thread[i]
      /\ \A i \in 1..Len(msgs) : th[Len(v.thread) + i] = msgs[i]
      /\ \A i \in 1..Len(v.thread) : Replied(v.thread, i) => Replied(th, i)
  BY <1>1, Appended
<1>3. ASSUME NEW i \in 1..Len(th), IsCall(th[i]), th[i].id[1] # r PROVE Said(th, i, v.run[th[i].id[1]], v.latest, tk, ct)
  <2>1. i \in 1..Len(v.thread)
    <3>1. CASE ~(i <= Len(v.thread))
      <4>1. i - Len(v.thread) \in 1..Len(msgs) /\ Len(v.thread) + (i - Len(v.thread)) = i BY <1>2, <3>1
      <4>2. th[i] = msgs[i - Len(v.thread)] BY <1>2, <4>1
      <4> QED BY <1>3, <4>1, <4>2
    <3> QED BY <1>2, <3>1
  <2>2. th[i] = v.thread[i] BY <1>2, <2>1
  <2>3. PICK q \in A!Runs \ {r} : q = th[i].id[1] BY <1>1, <1>3, <2>1, <2>2, MessagesOf
  <2>4. Said(v.thread, i, v.run[q], v.latest, tk, ct) BY <1>3, <2>1, <2>2, <2>3 DEF Aside
  <2>5. \A p1, q1 \in A!Runs : v.run[p1].token = v.run[q1].token /\ v.run[p1].token # 0 => p1 = q1 BY DEF Aside
  <2>6. v.run[q].token # v.latest BY <2>3, <2>5 DEF A!live
  <2>7. ~GaveWay(v.run[q], v.latest) => v.run[q].at = "over" BY <2>6 DEF GaveWay
  <2>8. ~GaveWay(v.run[q], v.latest) => th[i].st \notin A!Unsettled BY <2>2, <2>4, <2>7 DEF Said, A!Waiting
  <2> QED BY <1>2, <2>1, <2>2, <2>3, <2>4, <2>8 DEF Said
<1> QED BY <1>3 DEF Rest

\* Another status of one call is no other order of the messages.
LEMMA PatchedSame ==
  ASSUME NEW th \in Seq(Msgs), NEW c, NEW st \in Statuses, NEW pt, pt = Patched(th, c, st)
  PROVE  /\ \A i \in 1..Len(th) : (Replied(pt, i) <=> Replied(th, i)) /\ (LastWord(pt, i) <=> LastWord(th, i))
         /\ \A i \in 1..Len(th) : IsCall(pt[i]) <=> IsCall(th[i])
<1>1. /\ Len(pt) = Len(th)
      /\ \A i \in 1..Len(th) : pt[i].k = th[i].k /\ pt[i].id = th[i].id
  BY PatchedIs
<1>2. Len(th) \in Nat BY LenProperties
<1>3. ASSUME NEW i \in 1..Len(th) PROVE (Replied(pt, i) <=> Replied(th, i)) /\ (LastWord(pt, i) <=> LastWord(th, i))
  <2>1. \A j \in (i + 1)..Len(th) : j \in 1..Len(th) /\ \A k \in (i + 1)..(j - 1) : k \in 1..Len(th) BY <1>2
  <2>2. Replied(pt, i) <=> Replied(th, i)
    <3> DEFINE Answers(t, j) == t[j].k = "results" /\ t[j].id = t[i].id /\ \A k \in (i + 1)..(j - 1) : t[k].k = "note"
    <3>1. ASSUME NEW j \in (i + 1)..Len(th) PROVE Answers(pt, j) <=> Answers(th, j) BY <1>1, <2>1, <3>1
    <3>2. Replied(pt, i) <=> \E j \in (i + 1)..Len(th) : Answers(pt, j) BY <1>1 DEF Replied
    <3>3. Replied(th, i) <=> \E j \in (i + 1)..Len(th) : Answers(th, j) BY DEF Replied
    <3> HIDE DEF Answers
    <3> QED BY <3>1, <3>2, <3>3
  <2>3. LastWord(pt, i) <=> LastWord(th, i) BY <1>1, <2>1 DEF LastWord
  <2> QED BY <2>2, <2>3
<1> QED BY <1>1, <1>3 DEF IsCall

\* The calls of others are told of as before.
LEMMA OthersPatched ==
  ASSUME Limits, NEW tk, NEW nd, NEW ap, NEW lt, NEW ct, NEW v, NEW r \in A!Runs, Aside(v, r, tk, nd, ap, lt, ct),
         NEW st \in Statuses, NEW th, th = Patched(v.thread, A!Call(v, r), st)
  PROVE  Rest(th, v, r, tk, ct)
<1>1. v \in Windows /\ v.thread \in Seq(Msgs) BY DEF Aside, Windows
<1>2. /\ Len(th) = Len(v.thread)
      /\ \A i \in 1..Len(v.thread) : /\ th[i].k = v.thread[i].k /\ th[i].id = v.thread[i].id
                                     /\ ~(v.thread[i].k = "step" /\ v.thread[i].id = A!Call(v, r)) => th[i].st = v.thread[i].st
                                     /\ Replied(th, i) <=> Replied(v.thread, i)
                                     /\ LastWord(th, i) <=> LastWord(v.thread, i)
                                     /\ IsCall(th[i]) <=> IsCall(v.thread[i])
  BY <1>1, PatchedIs, PatchedSame
<1>3. ASSUME NEW i \in 1..Len(th), IsCall(th[i]), th[i].id[1] # r PROVE Said(th, i, v.run[th[i].id[1]], v.latest, tk, ct)
  <2>1. v.thread[i].id[1] # r /\ th[i].id = v.thread[i].id BY <1>2, <1>3
  <2>2. v.thread[i].id # A!Call(v, r) BY <2>1 DEF A!Call
  <2>3. th[i].st = v.thread[i].st BY <1>2, <1>3, <2>2
  <2>4. Said(v.thread, i, v.run[v.thread[i].id[1]], v.latest, tk, ct) BY <1>2, <1>3, <2>1 DEF Aside
  <2> QED BY <1>2, <1>3, <2>1, <2>3, <2>4 DEF Said
<1> QED BY <1>3 DEF Rest

\* What a status makes of a window.
LEMMA PatchTells ==
  ASSUME NEW v \in Windows, NEW r \in A!Runs, NEW st \in Statuses, ~v.open => v.thread = <<>>
  PROVE  /\ Kept(A!Patch(v, r, st), v, r) /\ A!Patch(v, r, st).run = v.run /\ A!Patch(v, r, st).changes = v.changes
         /\ A!Patch(v, r, st).shown = v.shown
         /\ A!Patch(v, r, st).thread = IF A!live(v, r) THEN Patched(v.thread, A!Call(v, r), st) ELSE v.thread
<1>1. CASE ~A!live(v, r)
  <2>1. A!Patch(v, r, st) = v BY <1>1, PatchIs
  <2> QED BY <1>1, <2>1 DEF Kept
<1>2. CASE A!live(v, r)
  <2>1. v.thread \in Seq(Msgs) /\ v.overlay \in Holder BY DEF Windows
  <2>2. PICK th \in Seq(Msgs) : th = Patched(v.thread, A!Call(v, r), st) /\ Len(th) = Len(v.thread) BY <2>1, PatchedIs
  <2>3. PICK u : u = Spoken(v, th, v.overlay) OBVIOUS
  <2>4. u \in Windows /\ Beside(u, v) /\ u.thread = th /\ u.shown = v.shown /\ u.overlay = v.overlay BY <2>1, <2>3, SpokenIs
  <2>5. A!Patch(v, r, st) = u BY <1>2, <2>2, <2>3, PatchIs
  <2>6. v.thread = <<>> => th = <<>> BY <2>2
  <2> QED BY <1>2, <2>2, <2>4, <2>5, <2>6 DEF Kept, Beside
<1> QED BY <1>1, <1>2

\* A step is answered.
LEMMA Answers ==
  ASSUME Limits, NEW tk, NEW nd, NEW ap, NEW lt, NEW ct, NEW v, NEW r \in A!Runs, Pending(v, r, tk, nd, ap, lt, ct),
         NEW st \in {"done", "error", "denied"}, st = "done" => A!Call(v, r) \in tk, st = "denied" => A!Call(v, r) \notin tk
  PROVE  /\ Between(A!Results(v, r, st), r, tk, nd, ap, lt, ct)
         /\ Kept(A!Results(v, r, st), v, r) /\ A!Results(v, r, st).changes = v.changes
<1>1. v \in Windows /\ st \in Statuses /\ v.thread \in Seq(Msgs) /\ v.overlay # r /\ (~v.open => v.thread = <<>>)
  BY DEF Pending, Aside, Statuses, Windows, A!Runs
<1>2. PICK p : p = A!Patch(v, r, st) OBVIOUS
<1>3. /\ Kept(p, v, r) /\ p.run = v.run /\ p.changes = v.changes /\ p.shown = v.shown
      /\ p.thread = IF A!live(v, r) THEN Patched(v.thread, A!Call(v, r), st) ELSE v.thread
  BY <1>1, <1>2, PatchTells
<1>4. p \in Windows /\ p.overlay # r /\ (~p.open => p.thread = <<>>) /\ p.latest = v.latest BY <1>1, <1>3 DEF Kept
<1>5. A!live(p, r) <=> A!live(v, r) BY <1>3, <1>4 DEF A!live
<1>6. A!Call(p, r) = A!Call(v, r) /\ A!Call(v, r) \in CallIds
  <2>1. v.run[r].step \in 0..MAX_STEPS BY <1>1, TokensOf
  <2> QED BY <1>3, <2>1 DEF A!Call, CallIds
<1>7. Aside(p, r, tk, nd, ap, lt, ct)
  <2>1. Rest(p.thread, v, r, tk, ct)
    <3>1. Aside(v, r, tk, nd, ap, lt, ct) BY DEF Pending
    <3>2. CASE A!live(v, r) BY <1>1, <1>3, <3>1, <3>2, OthersPatched
    <3>3. CASE ~A!live(v, r) BY <1>3, <3>1, <3>3 DEF Aside, Rest
    <3> QED BY <3>2, <3>3
  <2> QED BY <1>3, <2>1, AsideStays DEF Pending
<1>8. PICK msgs \in Seq(Msgs) : msgs = <<A!Msg("results", A!Call(p, r), "none")>>
  <2>1. PICK m \in Msgs : m = A!Msg("results", A!Call(p, r), "none") BY <1>6 DEF A!Msg, Msgs, Statuses
  <2>2. <<m>> \in Seq(Msgs) OBVIOUS
  <2> QED BY <2>1, <2>2
<1>9. Len(msgs) = 1 /\ msgs[1].k = "results" /\ msgs[1].id = A!Call(v, r) /\ \A k \in 1..Len(msgs) : ~IsCall(msgs[k])
  BY <1>6, <1>8 DEF A!Msg, IsCall
<1>10. PICK u : u = A!Say(p, r, msgs) OBVIOUS
<1>11. Told(u, p, r, msgs) BY <1>4, <1>10, SayTells
<1>12. A!Results(v, r, st) = u
  <2>1. A!Results(v, r, st) = A!Say(p, r, <<A!Msg("results", A!Call(v, r), "none")>>) BY <1>2 DEF A!Results
  <2> QED BY <1>6, <1>8, <1>10, <2>1
<1>13. p.run[r] \in Records BY <1>4, PutSame
<1>14. /\ u.run[r].token = v.run[r].token /\ u.run[r].step = v.run[r].step /\ u.run[r].aborted = v.run[r].aborted
       /\ A!live(v, r) => u.run[r].quiet = v.run[r].quiet
       /\ ~A!live(v, r) => u.run[r].quiet
  BY <1>3, <1>5, <1>11, <1>13, HushedIs DEF Told
<1>15. Aside(u, r, tk, nd, ap, lt, ct)
  <2>1. Rest(u.thread, p, r, tk, ct)
    <3>1. CASE A!live(v, r) /\ v.open
      <4>1. u.thread = p.thread \o msgs BY <1>3, <1>5, <1>11, <3>1 DEF Told, Kept
      <4>2. p.run[r].token # 0 BY <1>3 DEF Pending, Own
      <4>3. A!live(p, r) /\ \A k \in 1..Len(msgs) : IsCall(msgs[k]) => msgs[k].id[1] = r BY <1>5, <1>9, <3>1
      <4>4. PICK th : th = p.thread \o msgs OBVIOUS
      <4>5. Rest(th, p, r, tk, ct)
        BY <1>7, <4>2, <4>3, <4>4, OthersAppended
      <4> QED BY <4>1, <4>4, <4>5
    <3>2. CASE ~(A!live(v, r) /\ v.open)
      <4>1. u.thread = p.thread BY <1>3, <1>5, <1>11, <3>2 DEF Told, Kept
      <4> QED BY <1>7, <4>1 DEF Aside, Rest
    <3> QED BY <3>1, <3>2
  <2> QED BY <1>7, <1>11, <2>1, AsideStays DEF Told
<1>16. u.active = v.active /\ u.latest = v.latest /\ u.open = v.open BY <1>3, <1>11 DEF Told, Kept
<1>17. Own(u, r, tk, nd, lt) BY <1>14, <1>16, OwnStays DEF Pending
<1>18. ~A!live(u, r) => u.run[r].quiet BY <1>14, <1>16 DEF A!live
<1>19. ASSUME NEW i \in 1..Len(u.thread), IsCall(u.thread[i]), u.thread[i].id[1] = r PROVE Closed(u, r, i, tk, ct)
  <2>1. CASE ~A!live(v, r)
    <3>1. u.thread = v.thread BY <1>3, <1>5, <1>11, <2>1 DEF Told
    <3>2. Unanswered(v, r, i, tk, ct) BY <1>19, <3>1 DEF Pending
    <3> QED BY <1>14, <2>1, <3>1, <3>2 DEF Closed, Unanswered
  <2>2. CASE A!live(v, r) /\ ~v.open
    <3>1. u.thread = <<>> BY <1>4, <1>11, <1>16, <2>2 DEF Told, Kept
    <3> QED BY <3>1
  <2>3. CASE A!live(v, r) /\ v.open
    <3>1. PICK pt : pt = p.thread OBVIOUS
    <3>2. pt = Patched(v.thread, A!Call(v, r), st) /\ u.thread = pt \o msgs /\ pt \in Seq(Msgs)
      BY <1>3, <1>4, <1>5, <1>11, <2>3, <3>1 DEF Told, Kept, Windows
    <3>3. /\ Len(pt) = Len(v.thread) /\ Len(pt) \in Nat
          /\ \A j \in 1..Len(pt) : /\ pt[j].k = v.thread[j].k /\ pt[j].id = v.thread[j].id
                                   /\ v.thread[j].k = "step" /\ v.thread[j].id = A!Call(v, r) => pt[j].st = st
                                   /\ ~(v.thread[j].k = "step" /\ v.thread[j].id = A!Call(v, r)) => pt[j].st = v.thread[j].st
      BY <1>1, <3>2, PatchedIs, LenProperties
    <3>4. \A j \in 1..Len(pt) : /\ Replied(pt, j) <=> Replied(v.thread, j)
                                /\ LastWord(pt, j) <=> LastWord(v.thread, j)
                                /\ IsCall(pt[j]) <=> IsCall(v.thread[j])
      BY <1>1, <3>2, <3>3, PatchedSame
    <3>5. /\ Len(u.thread) = Len(pt) + 1
          /\ \A j \in 1..Len(pt) : u.thread[j] = pt[j]
          /\ u.thread[Len(pt) + 1] = msgs[1]
          /\ \A j \in 1..Len(pt) : /\ Replied(pt, j) => Replied(u.thread, j)
                                   /\ LastWord(pt, j) /\ msgs[1].id = pt[j].id => Replied(u.thread, j)
      <4>1. PICK both : both = u.thread OBVIOUS
      <4>2. both = pt \o msgs /\ pt \in Seq(Msgs) /\ msgs \in Seq(Msgs) BY <3>2, <4>1
      <4>3. Answering(both, pt, msgs) BY <1>9, <4>2, AnsweredBy
      <4> QED BY <4>1, <4>3 DEF Answering
    <3>6. i \in 1..Len(pt)
      <4>1. ~IsCall(msgs[1]) BY <1>9
      <4> QED BY <1>19, <3>3, <3>5, <4>1
    <3>7. Unanswered(v, r, i, tk, ct) BY <1>19, <3>3, <3>4, <3>5, <3>6 DEF Pending
    <3>8. v.thread[i].id = u.thread[i].id /\ v.thread[i].k = "step" BY <1>19, <3>3, <3>5, <3>6 DEF IsCall
    <3>9. v.thread[i].id \in A!Runs \X (0..MAX_STEPS)
      <4>1. IsCall(v.thread[i]) /\ i \in 1..Len(v.thread) BY <1>19, <3>3, <3>4, <3>5, <3>6
      <4> QED BY <1>1, <4>1, MessagesOf
    <3>10. v.thread[i].id = A!Call(v, r) <=> v.thread[i].id[2] = v.run[r].step BY <1>19, <3>8, <3>9 DEF A!Call
    <3>11. CASE v.thread[i].id = A!Call(v, r)
      <4>1. u.thread[i].st = st BY <3>3, <3>5, <3>6, <3>8, <3>11
      <4>2. ~u.run[r].quiet => ct \/ Replied(u.thread, i)
        <5>1. LastWord(pt, i) => Replied(u.thread, i) BY <1>9, <3>3, <3>5, <3>6, <3>11
        <5> QED BY <1>14, <2>3, <3>4, <3>6, <3>7, <3>10, <3>11, <5>1 DEF Unanswered
      <4>3. u.thread[i].id[2] # 0 /\ u.thread[i].id[2] <= u.run[r].step BY <1>14, <3>7, <3>8 DEF Unanswered
      <4> QED BY <3>8, <3>11, <4>1, <4>2, <4>3 DEF Closed, A!Unsettled
    <3>12. CASE v.thread[i].id # A!Call(v, r)
      <4>1. u.thread[i].st = v.thread[i].st BY <3>3, <3>5, <3>6, <3>12
      <4>2. Replied(v.thread, i) => Replied(u.thread, i) BY <3>4, <3>5, <3>6
      <4> QED BY <1>14, <2>3, <3>7, <3>8, <3>10, <3>12, <4>1, <4>2 DEF Unanswered, Closed
    <3> QED BY <3>11, <3>12
  <2> QED BY <2>1, <2>2, <2>3
<1>20. Between(u, r, tk, nd, ap, lt, ct) BY <1>15, <1>17, <1>18, <1>19 DEF Between
<1>21. Kept(u, v, r) /\ u.changes = v.changes BY <1>3, <1>11 DEF Told, Kept
<1> QED BY <1>12, <1>20, <1>21

\* Nor does what the run keeps for itself matter.
Same(u, v, r) ==
  /\ Kept(u, v, r) /\ u.thread = v.thread
  /\ u.run[r].step = v.run[r].step /\ u.run[r].quiet = v.run[r].quiet /\ (v.run[r].aborted => u.run[r].aborted)

\* A record that is alike is as good.
LEMMA AsideSame ==
  ASSUME Limits, NEW tk, NEW nd, NEW ap, NEW lt, NEW ct, NEW v, NEW r \in A!Runs, NEW u, Same(u, v, r)
  PROVE  /\ Aside(v, r, tk, nd, ap, lt, ct) => Aside(u, r, tk, nd, ap, lt, ct)
         /\ Own(v, r, tk, nd, lt) => Own(u, r, tk, nd, lt)
         /\ A!live(u, r) <=> A!live(v, r)
<1>1. ASSUME Aside(v, r, tk, nd, ap, lt, ct) PROVE Aside(u, r, tk, nd, ap, lt, ct)
  <2>1. Rest(u.thread, v, r, tk, ct) BY <1>1 DEF Aside, Same, Rest
  <2>2. Kept(u, v, r) BY DEF Same
  <2> QED BY <1>1, <2>1, <2>2, AsideStays
<1>2. Own(v, r, tk, nd, lt) => Own(u, r, tk, nd, lt) BY DEF Own, Same, Kept
<1>3. A!live(u, r) <=> A!live(v, r) BY DEF A!live, Same, Kept
<1> QED BY <1>1, <1>2, <1>3

\* So it is between two steps,
LEMMA BetweenSame ==
  ASSUME Limits, NEW tk, NEW nd, NEW ap, NEW lt, NEW ct, NEW v, NEW r \in A!Runs, Between(v, r, tk, nd, ap, lt, ct), NEW u, Same(u, v, r)
  PROVE  Between(u, r, tk, nd, ap, lt, ct)
<1>1. Aside(u, r, tk, nd, ap, lt, ct) /\ Own(u, r, tk, nd, lt) /\ (A!live(u, r) <=> A!live(v, r)) BY AsideSame DEF Between
<1>2. ~A!live(u, r) => u.run[r].quiet BY <1>1 DEF Between, Same
<1>3. ASSUME NEW i \in 1..Len(u.thread), IsCall(u.thread[i]), u.thread[i].id[1] = r PROVE Closed(u, r, i, tk, ct)
  <2>1. Closed(v, r, i, tk, ct) BY <1>3 DEF Between, Same
  <2> QED BY <2>1 DEF Closed, Same
<1> QED BY <1>1, <1>2, <1>3 DEF Between

\* and while a call is pending.
LEMMA PendingSame ==
  ASSUME Limits, NEW tk, NEW nd, NEW ap, NEW lt, NEW ct, NEW v, NEW r \in A!Runs, Pending(v, r, tk, nd, ap, lt, ct), NEW u, Same(u, v, r)
  PROVE  Pending(u, r, tk, nd, ap, lt, ct)
<1>1. Aside(u, r, tk, nd, ap, lt, ct) /\ Own(u, r, tk, nd, lt) /\ (A!live(u, r) <=> A!live(v, r)) BY AsideSame DEF Pending
<1>2. u.run[r].step # 0 BY DEF Pending, Same
<1>3. ASSUME NEW i \in 1..Len(u.thread), IsCall(u.thread[i]), u.thread[i].id[1] = r PROVE Unanswered(u, r, i, tk, ct)
  <2>1. Unanswered(v, r, i, tk, ct) BY <1>3 DEF Pending, Same
  <2> QED BY <1>1, <2>1 DEF Unanswered, Same
<1> QED BY <1>1, <1>2, <1>3 DEF Pending

\* A record of the same run.
Akin(y, x) == y.token = x.token /\ y.step = x.step /\ y.quiet = x.quiet /\ y.aborted = x.aborted

\* To put a record that is alike into the window changes nothing that is told of.
LEMMA SamePut ==
  ASSUME NEW v \in Windows, NEW r \in A!Runs, NEW y \in Records, Akin(y, v.run[r]), ~v.open => v.thread = <<>>
  PROVE  Same(Put(v, r, y), v, r) /\ Put(v, r, y).changes = v.changes /\ Put(v, r, y).run[r] = y
<1>1. PICK u : u = Put(v, r, y) OBVIOUS
<1>2. /\ u \in Windows /\ u.run[r] = y /\ \A q \in A!Runs \ {r} : u.run[q] = v.run[q]
      /\ u.open = v.open /\ u.thread = v.thread /\ u.changes = v.changes
      /\ u.latest = v.latest /\ u.active = v.active /\ u.approval = v.approval
      /\ u.card = v.card /\ u.shown = v.shown /\ u.overlay = v.overlay
  BY <1>1, PutIs
<1>3. Same(u, v, r) BY <1>2 DEF Same, Kept, Akin
<1> QED BY <1>1, <1>2, <1>3

\* What leads on from a window leads on from one whose runs and list are the same.
LEMMA OnwardFrom ==
  ASSUME NEW w, NEW v, NEW r \in A!Runs, Kept(v, w, r), v.changes = w.changes, NEW u, Onward(v, u, r)
  PROVE  Onward(w, u, r)
BY DEF Kept, Onward

\* The foot of the loop.
LEMMA SettledIs ==
  ASSUME Limits, NEW tk, NEW nd, NEW ap, NEW lt, NEW ct, NEW v, NEW r \in A!Runs, Pending(v, r, tk, nd, ap, lt, ct),
         NEW st \in {"done", "error", "denied"}, st = "done" => A!Call(v, r) \in tk, st = "denied" => A!Call(v, r) \notin tk,
         NEW counted, NEW stuck
  PROVE  /\ Sound(A!Settled(v, r, st, counted, stuck), tk, nd, ap, lt, ct) /\ Onward(v, A!Settled(v, r, st, counted, stuck), r)
         /\ Rests(A!Settled(v, r, st, counted, stuck), r)
<1>1. PICK u : u = A!Results(v, r, st) OBVIOUS
<1>2. Between(u, r, tk, nd, ap, lt, ct) /\ Kept(u, v, r) /\ u.changes = v.changes BY <1>1, Answers
<1>3. v \in Windows /\ u \in Windows /\ u.run[r] \in Records /\ v.run[r] \in Records /\ (~u.open => u.thread = <<>>)
  BY <1>2, PutSame DEF Pending, Aside, Kept
<1>4. PICK e \in Nat : e = IF counted THEN 0 ELSE v.run[r].empties + 1 BY <1>3 DEF Records
<1>5. PICK y \in Records : y = [u.run[r] EXCEPT !.empties = e] /\ Akin(y, u.run[r])
  <2>1. PICK x \in Records : x = u.run[r] BY <1>3
  <2>2. [x EXCEPT !.empties = e] \in Records /\ Akin([x EXCEPT !.empties = e], x) BY DEF Records, Akin
  <2> QED BY <2>1, <2>2
<1>6. PICK w1 : w1 = Put(u, r, y) OBVIOUS
<1>7. Same(w1, u, r) /\ w1.changes = u.changes BY <1>3, <1>5, <1>6, SamePut
<1>8. Between(w1, r, tk, nd, ap, lt, ct) BY <1>2, <1>7, BetweenSame
<1>9. A!Settled(v, r, st, counted, stuck) = IF stuck \/ e >= 2 THEN A!Finish(w1, r) ELSE A!NextStep(w1, r)
  <2>1. w1 = [u EXCEPT !.run[r].empties = e] BY <1>5, <1>6 DEF Put
  <2> QED BY <1>1, <1>4, <2>1 DEF A!Settled
<1>10. PICK z : z = A!Settled(v, r, st, counted, stuck) OBVIOUS
<1>11. Sound(z, tk, nd, ap, lt, ct) /\ Onward(w1, z, r) /\ Rests(z, r) BY <1>8, <1>9, <1>10, EndsSoundly, GoesOnSoundly
<1>12. Kept(w1, v, r) /\ w1.changes = v.changes BY <1>2, <1>7 DEF Same, Kept
<1>13. Onward(v, z, r) BY <1>11, <1>12, OnwardFrom
<1> QED BY <1>10, <1>11, <1>13

\* A live run's words, in any state of its step.
LEMMA AsideSays ==
  ASSUME Limits, NEW tk, NEW nd, NEW ap, NEW lt, NEW ct, NEW v, NEW r \in A!Runs, Aside(v, r, tk, nd, ap, lt, ct), Own(v, r, tk, nd, lt),
         A!live(v, r), NEW msgs \in Seq(Msgs), \A k \in 1..Len(msgs) : IsCall(msgs[k]) => msgs[k].id[1] = r, NEW u, u = A!Say(v, r, msgs)
  PROVE  /\ Aside(u, r, tk, nd, ap, lt, ct) /\ Own(u, r, tk, nd, lt) /\ A!live(u, r) /\ Told(u, v, r, msgs)
<1>1. v \in Windows /\ v.overlay # r /\ (~v.open => v.thread = <<>>) BY DEF Aside, A!Runs
<1>2. Told(u, v, r, msgs) BY <1>1, SayTells
<1>3. Kept(u, v, r) /\ u.run = v.run /\ u.thread = (IF v.open THEN v.thread \o msgs ELSE v.thread) BY <1>2 DEF Told
<1>4. Rest(u.thread, v, r, tk, ct)
  <2>1. CASE v.open
    <3>1. v.run[r].token # 0 BY DEF Own
    <3> QED BY <1>3, <2>1, <3>1, OthersAppended
  <2>2. CASE ~v.open BY <1>3, <2>2 DEF Rest, Aside
  <2> QED BY <2>1, <2>2
<1>5. Aside(u, r, tk, nd, ap, lt, ct) BY <1>3, <1>4, AsideStays
<1>6. Own(u, r, tk, nd, lt) /\ A!live(u, r) BY <1>3 DEF Own, A!live, Kept
<1> QED BY <1>2, <1>5, <1>6

\* Where a message of a thread that grew is.
LEMMA Grown ==
  ASSUME NEW th \in Seq(Msgs), NEW msgs \in Seq(Msgs), NEW i \in 1..Len(th \o msgs)
  PROVE  \/ i \in 1..Len(th) /\ (th \o msgs)[i] = th[i]
         \/ \E k \in 1..Len(msgs) : i = Len(th) + k /\ (th \o msgs)[i] = msgs[k]
<1>1. /\ Len(th \o msgs) = Len(th) + Len(msgs) /\ Len(th) \in Nat /\ Len(msgs) \in Nat
      /\ \A j \in 1..Len(th) : (th \o msgs)[j] = th[j]
      /\ \A j \in 1..Len(msgs) : (th \o msgs)[Len(th) + j] = msgs[j]
  BY Appended
<1>2. CASE i <= Len(th) BY <1>1, <1>2
<1>3. CASE ~(i <= Len(th))
  <2>1. i - Len(th) \in 1..Len(msgs) /\ i = Len(th) + (i - Len(th)) BY <1>1, <1>3
  <2> QED BY <1>1, <2>1
<1> QED BY <1>2, <1>3

Extension(both, th, msgs) ==
  /\ Len(both) = Len(th) + Len(msgs) /\ Len(th) \in Nat /\ Len(msgs) \in Nat
  /\ \A i \in 1..Len(th) : both[i] = th[i] /\ (Replied(th, i) => Replied(both, i))
  /\ \A k \in 1..Len(msgs) : both[Len(th) + k] = msgs[k]
  /\ \A i \in 1..Len(both) : i \in 1..Len(th) \/ \E k \in 1..Len(msgs) : i = Len(th) + k

\* Messages joined to a thread: the old are in their places, the new after them.
LEMMA Extending ==
  ASSUME NEW th \in Seq(Msgs), NEW msgs \in Seq(Msgs), NEW both, both = th \o msgs
  PROVE  Extension(both, th, msgs)
<1>1. Extension(th \o msgs, th, msgs) BY Appended, Grown DEF Extension
<1> QED BY <1>1

\* Words that call nothing.
LEMMA SaysOther ==
  ASSUME Limits, NEW tk, NEW nd, NEW ap, NEW lt, NEW ct, NEW v, NEW r \in A!Runs, Between(v, r, tk, nd, ap, lt, ct), A!live(v, r),
         NEW msgs \in Seq(Msgs), \A k \in 1..Len(msgs) : ~IsCall(msgs[k]), NEW u, u = A!Say(v, r, msgs)
  PROVE  Between(u, r, tk, nd, ap, lt, ct) /\ A!live(u, r) /\ Told(u, v, r, msgs)
<1>1. Aside(u, r, tk, nd, ap, lt, ct) /\ Own(u, r, tk, nd, lt) /\ A!live(u, r) /\ Told(u, v, r, msgs) BY AsideSays DEF Between
<1>2. u.run = v.run /\ u.thread = (IF v.open THEN v.thread \o msgs ELSE v.thread) BY <1>1 DEF Told
<1>3. v.thread \in Seq(Msgs) BY DEF Between, Aside, Windows
<1>4. ASSUME NEW i \in 1..Len(u.thread), IsCall(u.thread[i]), u.thread[i].id[1] = r PROVE Closed(u, r, i, tk, ct)
  <2>1. CASE ~v.open BY <1>2, <1>4, <2>1 DEF Between, Closed
  <2>2. CASE v.open
    <3>1. Extension(u.thread, v.thread, msgs) BY <1>2, <1>3, <2>2, Extending
    <3>2. i \in 1..Len(v.thread) /\ u.thread[i] = v.thread[i] BY <1>4, <3>1 DEF Extension
    <3>3. Replied(v.thread, i) => Replied(u.thread, i) BY <3>1, <3>2 DEF Extension
    <3> QED BY <1>2, <1>4, <3>2, <3>3 DEF Between, Closed
  <2> QED BY <2>1, <2>2
<1> QED BY <1>1, <1>4 DEF Between

\* Before a reply no call of the step is told of, so it is also between two steps.
LEMMA FreshBetween ==
  ASSUME NEW tk, NEW nd, NEW ap, NEW lt, NEW ct, NEW v, NEW r \in A!Runs, Fresh(v, r, tk, nd, ap, lt, ct)
  PROVE  Between(v, r, tk, nd, ap, lt, ct)
BY DEF Fresh, Between

\* A step with a call.
StepOf(v, r, st) == A!Msg("step", A!Call(v, r), st)

\* A message with the run's call is a call of the run's step.
LEMMA StepIs ==
  ASSUME Limits, NEW v \in Windows, NEW r \in A!Runs, v.run[r].step # 0, NEW st \in Statuses, NEW m, m = StepOf(v, r, st)
  PROVE  /\ m \in Msgs /\ IsCall(m) /\ m.k = "step" /\ m.id = A!Call(v, r) /\ m.id[1] = r /\ m.id[2] = v.run[r].step /\ m.st = st
<1>1. v.run[r].step \in 0..MAX_STEPS BY TokensOf
<1>2. A!Call(v, r) \in CallIds /\ A!Call(v, r) # A!NoCall BY <1>1 DEF A!Call, CallIds, A!NoCall
<1> QED BY <1>1, <1>2 DEF StepOf, A!Msg, Msgs, IsCall, A!Call

\* A reply with a call: the call is pending.
LEMMA SaysStep ==
  ASSUME Limits, NEW tk, NEW nd, NEW ap, NEW lt, NEW ct, NEW v, NEW r \in A!Runs, Fresh(v, r, tk, nd, ap, lt, ct),
         NEW u, u = A!Say(v, r, <<StepOf(v, r, "pending")>>)
  PROVE  Pending(u, r, tk, nd, ap, lt, ct) /\ Kept(u, v, r) /\ u.changes = v.changes /\ u.run = v.run /\ A!live(u, r)
<1>1. v \in Windows /\ v.thread \in Seq(Msgs) /\ v.run[r].step # 0 BY DEF Fresh, Aside, Windows
<1>2. PICK m \in Msgs : m = StepOf(v, r, "pending") BY <1>1, StepIs DEF Statuses, A!Unsettled
<1>3. IsCall(m) /\ m.k = "step" /\ m.id = A!Call(v, r) /\ m.id[1] = r /\ m.id[2] = v.run[r].step /\ m.st = "pending"
  BY <1>1, <1>2, StepIs DEF Statuses, A!Unsettled
<1>4. PICK msgs \in Seq(Msgs) : msgs = <<m>>
  <2>1. <<m>> \in Seq(Msgs) OBVIOUS
  <2> QED BY <2>1
<1>5. Len(msgs) = 1 /\ msgs[1] = m /\ \A k \in 1..Len(msgs) : IsCall(msgs[k]) => msgs[k].id[1] = r BY <1>3, <1>4
<1>6. u = A!Say(v, r, msgs) BY <1>2, <1>4
<1>7. Aside(u, r, tk, nd, ap, lt, ct) /\ Own(u, r, tk, nd, lt) /\ A!live(u, r) /\ Told(u, v, r, msgs) BY <1>5, <1>6, AsideSays DEF Fresh
<1>8. u.run = v.run /\ u.changes = v.changes /\ Kept(u, v, r) /\ u.thread = (IF v.open THEN v.thread \o msgs ELSE v.thread)
  BY <1>7 DEF Told, Fresh
<1>9. ASSUME NEW i \in 1..Len(u.thread), IsCall(u.thread[i]), u.thread[i].id[1] = r PROVE Unanswered(u, r, i, tk, ct)
  <2>1. v.open => Extension(u.thread, v.thread, msgs) BY <1>1, <1>8, Extending
  <2>2. CASE ~v.open
    <3>1. u.thread = <<>> BY <1>8, <2>2 DEF Fresh, Aside
    <3> QED BY <3>1
  <2>3. CASE v.open /\ i \in 1..Len(v.thread) /\ u.thread[i] = v.thread[i]
    <3>1. Replied(v.thread, i) => Replied(u.thread, i) BY <2>1, <2>3 DEF Extension
    <3>2. Closed(v, r, i, tk, ct) /\ v.thread[i].id[2] < v.run[r].step BY <1>9, <2>3 DEF Fresh
    <3>3. v.thread[i].id[2] \in Nat /\ v.run[r].step \in Nat BY <1>1, <1>9, <2>3, MessagesOf, TokensOf
    <3>4. PICK a : a = u.thread[i] /\ a = v.thread[i] BY <2>3
    <3>5. PICK x : x = u.run[r] /\ x = v.run[r] BY <1>8
    <3>6. /\ a.id[2] # 0 /\ a.id[2] < x.step /\ a.st # "none" /\ (a.st = "done" => a.id \in tk) /\ (a.st = "denied" => a.id \notin tk)
          /\ ~x.quiet => a.st \notin A!Unsettled /\ (ct \/ Replied(v.thread, i))
      BY <3>2, <3>4, <3>5 DEF Closed
    <3>7. a.id[2] <= x.step /\ a.id[2] # x.step BY <3>3, <3>4, <3>5, <3>6
    <3> QED BY <3>1, <3>4, <3>5, <3>6, <3>7 DEF Unanswered
  <2>4. CASE v.open /\ i = Len(v.thread) + 1 /\ u.thread[i] = m
    <3>1. Len(u.thread) = Len(v.thread) + 1 /\ Len(v.thread) \in Nat BY <1>5, <2>1, <2>4 DEF Extension
    <3>2. LastWord(u.thread, i) BY <2>4, <3>1 DEF LastWord
    <3>3. v.run[r].step \in Nat BY <1>1, TokensOf
    <3>4. u.thread[i].id[2] = u.run[r].step /\ u.run[r].step # 0 /\ u.run[r].step \in Nat /\ u.thread[i].st = "pending"
      BY <1>1, <1>3, <1>8, <2>4, <3>3
    <3> QED BY <3>2, <3>4 DEF Unanswered, A!Unsettled
  <2>5. v.open => \/ i \in 1..Len(v.thread) /\ u.thread[i] = v.thread[i]
                  \/ i = Len(v.thread) + 1 /\ u.thread[i] = m
    BY <1>5, <1>9, <2>1 DEF Extension
  <2> QED BY <2>2, <2>3, <2>4, <2>5
<1>10. Pending(u, r, tk, nd, ap, lt, ct) BY <1>1, <1>7, <1>8, <1>9 DEF Pending
<1> QED BY <1>7, <1>8, <1>10

\* A step with a call that will not be run, and its answer.
EndWords(v, r, st) == <<StepOf(v, r, st), A!Msg("results", A!Call(v, r), "none")>>

\* A reply that ends the run answers what it called, so no call is left open.
LEMMA SaysEnd ==
  ASSUME Limits, NEW tk, NEW nd, NEW ap, NEW lt, NEW ct, NEW v, NEW r \in A!Runs, Fresh(v, r, tk, nd, ap, lt, ct),
         NEW st \in {"error", "denied"}, A!Call(v, r) \notin tk,
         NEW u, u = A!Say(v, r, EndWords(v, r, st))
  PROVE  Between(u, r, tk, nd, ap, lt, ct) /\ Kept(u, v, r) /\ u.changes = v.changes
<1>1. v \in Windows /\ v.thread \in Seq(Msgs) /\ v.run[r].step # 0 BY DEF Fresh, Aside, Windows
<1>2. PICK m \in Msgs : m = StepOf(v, r, st) BY <1>1, StepIs DEF Statuses, A!Unsettled
<1>3. IsCall(m) /\ m.k = "step" /\ m.id = A!Call(v, r) /\ m.id[1] = r /\ m.id[2] = v.run[r].step /\ m.st = st
  BY <1>1, <1>2, StepIs DEF Statuses, A!Unsettled
<1>4. PICK a \in Msgs : a = A!Msg("results", A!Call(v, r), "none") BY <1>3 DEF A!Msg, Msgs, Statuses
<1>5. a.k = "results" /\ a.id = m.id /\ ~IsCall(a) BY <1>3, <1>4 DEF A!Msg, IsCall
<1>6. PICK msgs \in Seq(Msgs) : msgs = <<m, a>>
  <2>1. <<m, a>> \in Seq(Msgs) OBVIOUS
  <2> QED BY <2>1
<1>7. Len(msgs) = 2 /\ msgs[1] = m /\ msgs[2] = a /\ \A k \in 1..Len(msgs) : IsCall(msgs[k]) => msgs[k].id[1] = r BY <1>3, <1>5, <1>6
<1>8. u = A!Say(v, r, msgs) BY <1>2, <1>4, <1>6 DEF EndWords
<1>9. Aside(u, r, tk, nd, ap, lt, ct) /\ Own(u, r, tk, nd, lt) /\ A!live(u, r) /\ Told(u, v, r, msgs) BY <1>7, <1>8, AsideSays DEF Fresh
<1>10. u.run = v.run /\ u.changes = v.changes /\ Kept(u, v, r) /\ u.thread = (IF v.open THEN v.thread \o msgs ELSE v.thread)
  BY <1>9 DEF Told, Fresh
<1>11. ASSUME NEW i \in 1..Len(u.thread), IsCall(u.thread[i]), u.thread[i].id[1] = r PROVE Closed(u, r, i, tk, ct)
  <2>1. v.open => Extension(u.thread, v.thread, msgs) BY <1>1, <1>10, Extending
  <2>2. CASE ~v.open
    <3>1. u.thread = <<>> BY <1>10, <2>2 DEF Fresh, Aside
    <3> QED BY <3>1
  <2>3. CASE v.open /\ i \in 1..Len(v.thread) /\ u.thread[i] = v.thread[i]
    <3>1. Replied(v.thread, i) => Replied(u.thread, i) BY <2>1, <2>3 DEF Extension
    <3>2. Closed(v, r, i, tk, ct) BY <1>11, <2>3 DEF Fresh
    <3> QED BY <1>10, <2>3, <3>1, <3>2 DEF Closed
  <2>4. CASE v.open /\ i = Len(v.thread) + 1 /\ u.thread[i] = m
    <3>1. Len(u.thread) = Len(v.thread) + 2 /\ Len(v.thread) \in Nat /\ u.thread[Len(v.thread) + 2] = a BY <1>7, <2>1, <2>4 DEF Extension
    <3>2. Len(v.thread) + 2 \in (i + 1)..Len(u.thread) /\ \A k \in (i + 1)..((Len(v.thread) + 2) - 1) : FALSE BY <2>4, <3>1
    <3>3. Replied(u.thread, i) BY <1>5, <2>4, <3>1, <3>2 DEF Replied
    <3>4. v.run[r].step \in Nat BY <1>1, TokensOf
    <3>5. /\ u.thread[i].id[2] = u.run[r].step /\ u.run[r].step # 0 /\ u.run[r].step \in Nat /\ u.thread[i].st = st
          /\ u.thread[i].id = A!Call(v, r)
      BY <1>1, <1>3, <1>10, <2>4, <3>4
    <3> QED BY <3>3, <3>5 DEF Closed, A!Unsettled
  <2>5. v.open => \/ i \in 1..Len(v.thread) /\ u.thread[i] = v.thread[i]
                  \/ i = Len(v.thread) + 1 /\ u.thread[i] = m
    <3>1. ASSUME v.open, ~(i \in 1..Len(v.thread) /\ u.thread[i] = v.thread[i]) PROVE i = Len(v.thread) + 1 /\ u.thread[i] = m
      <4>1. Extension(u.thread, v.thread, msgs) BY <2>1, <3>1
      <4>2. i \notin 1..Len(v.thread) BY <3>1, <4>1 DEF Extension
      <4>3. PICK k \in 1..Len(msgs) : i = Len(v.thread) + k /\ u.thread[i] = msgs[k] BY <1>11, <4>1, <4>2 DEF Extension
      <4>4. k \in {1, 2} BY <1>7
      <4>5. k # 2 BY <1>5, <1>7, <1>11, <4>3
      <4> QED BY <1>7, <4>3, <4>4, <4>5
    <3> QED BY <3>1
  <2> QED BY <2>2, <2>3, <2>4, <2>5
<1>12. ~A!live(u, r) => u.run[r].quiet BY <1>9
<1>13. Between(u, r, tk, nd, ap, lt, ct) BY <1>9, <1>11, <1>12 DEF Between
<1> QED BY <1>10, <1>13

(* A run goes on to prepare, to ask or to run its call: tk2 and nd2 are the *)
(* calls carried out and asked about by then.                               *)
Resumed(u, v, r) ==
  /\ u \in Windows /\ \A q \in A!Runs \ {r} : u.run[q] = v.run[q]
  /\ Akin(u.run[r], v.run[r]) /\ u.run[r].at \in A!Waiting
  /\ u.open = v.open /\ u.latest = v.latest /\ u.active = v.active /\ u.overlay = v.overlay
  /\ u.thread = v.thread \/ \E st \in {"running", "awaiting"} : u.thread = Patched(v.thread, A!Call(v, r), st)
  /\ \/ /\ u.run[r].at # "asking" /\ u.approval = v.approval /\ u.card = v.card
        /\ u.shown = v.shown \/ v.active = r
     \/ u.run[r].at = "asking" /\ u.approval = r /\ u.card = A!Call(v, r) /\ u.shown = "awaiting" /\ v.active = r

\* The run goes on with its call: it will be prepared, asked about or run.
LEMMA Resumes ==
  ASSUME Limits, NEW tk, NEW nd, NEW ap, NEW lt, NEW ct, NEW v, NEW r \in A!Runs, Pending(v, r, tk, nd, ap, lt, ct),
         NEW tk2, tk \subseteq tk2, tk2 \subseteq tk \cup {A!Call(v, r)}, NEW nd2, nd2 \subseteq nd \cup {A!Call(v, r)}, nd \subseteq nd2,
         tk2 \cap nd2 \subseteq ap,
         NEW u, Resumed(u, v, r), Placed(u.run[r], r, v.latest, v.active), Counted(u.run[r], r, tk2, nd2, ap, lt[r])
  PROVE  Sound(u, tk2, nd2, ap, lt, ct)
<1>1. v \in Windows /\ u \in Windows /\ v.thread \in Seq(Msgs) /\ Aside(v, r, tk, nd, ap, lt, ct) /\ v.run[r].step \in Nat /\ v.run[r].step # 0
  BY TokensOf DEF Pending, Aside, Resumed, Windows
<1>2. UnderWay(u.run[r]) BY DEF Resumed, UnderWay, Going, A!Waiting
<1>3. \A c : c[1] # r => (c \in tk2 <=> c \in tk) /\ (c \in nd2 <=> c \in nd) BY DEF A!Call
<1>4. ASSUME NEW q \in A!Runs PROVE Placed(u.run[q], q, u.latest, u.active) /\ Counted(u.run[q], q, tk2, nd2, ap, lt[q])
  <2>1. CASE q = r BY <2>1 DEF Resumed
  <2>2. CASE q # r
    <3>1. \A s : (<<q, s>> \in tk2 <=> <<q, s>> \in tk) /\ (<<q, s>> \in nd2 <=> <<q, s>> \in nd) BY <1>3, <2>2
    <3>2. Placed(v.run[q], q, v.latest, v.active) /\ Counted(v.run[q], q, tk, nd, ap, lt[q]) BY <1>1, <2>2 DEF Aside
    <3>3. Counted(v.run[q], q, tk2, nd2, ap, lt[q]) BY <3>1, <3>2 DEF Counted
    <3> QED BY <2>2, <3>2, <3>3 DEF Resumed
  <2> QED BY <2>1, <2>2
<1>5. Heads(u)
  <2>1. v.active \in Holder /\ v.approval \in Holder /\ v.overlay \in Holder /\ r # 0 BY <1>1, TokensOf
  <2>2. u.active # 0 => UnderWay(u.run[u.active]) BY <1>1, <1>2, <2>1 DEF Aside, Resumed, Holder
  <2>3. u.overlay # 0 => u.run[u.overlay].at = "model" BY <1>1, <2>1 DEF Aside, Resumed, Holder
  <2>4. \A q \in A!Runs : u.run[q].token = v.run[q].token BY DEF Resumed, Akin
  <2>5. /\ \A p, q \in A!Runs : u.run[p].token = u.run[q].token /\ u.run[p].token # 0 => p = q
        /\ \A n \in 1..u.latest : \E q \in A!Runs : u.run[q].token = n
    BY <1>1, <2>4 DEF Aside, Resumed
  <2>6. ~u.open => u.thread = <<>>
    <3>1. ASSUME ~v.open, NEW st \in {"running", "awaiting"}, u.thread = Patched(v.thread, A!Call(v, r), st) PROVE u.thread = <<>>
      <4>1. u.thread \in Seq(Msgs) /\ Len(u.thread) = Len(v.thread) BY <1>1, <3>1, PatchedIs DEF Statuses, A!Unsettled
      <4>2. v.thread = <<>> BY <1>1, <3>1 DEF Aside
      <4> QED BY <4>1, <4>2
    <3> QED BY <1>1, <3>1 DEF Resumed, Aside
  <2>7. /\ u.approval # 0 => u.run[u.approval].at = "asking" /\ u.card = A!Call(u, u.approval)
        /\ u.approval = 0 => u.card = A!NoCall
        /\ \A q \in A!Runs : u.run[q].at = "asking" => u.approval = q /\ u.shown = "awaiting"
    <3>1. v.approval # 0 => v.approval \in A!Runs \ {r} /\ u.run[v.approval] = v.run[v.approval] BY <1>1, <2>1 DEF Aside, Resumed, Holder
    <3>2. \A q \in A!Runs \ {r} : u.run[q].at = "asking" => v.active = q /\ v.approval = q /\ v.shown = "awaiting"
      BY <1>1 DEF Aside, Resumed, Placed, UnderWay, Going
    <3>3. CASE u.run[r].at # "asking" BY <1>1, <3>1, <3>2, <3>3 DEF Resumed, Aside, A!Call
    <3>4. CASE u.run[r].at = "asking" BY <2>1, <3>2, <3>4 DEF Resumed, A!Call, Akin
    <3> QED BY <3>3, <3>4
  <2> QED BY <2>2, <2>3, <2>5, <2>6, <2>7 DEF Heads
<1>6. PICK th : th = u.thread OBVIOUS
<1>7. /\ Len(th) = Len(v.thread)
      /\ \A i \in 1..Len(th) : /\ th[i].id = v.thread[i].id
                               /\ IsCall(th[i]) <=> IsCall(v.thread[i])
                               /\ Replied(th, i) <=> Replied(v.thread, i)
                               /\ LastWord(th, i) <=> LastWord(v.thread, i)
                               /\ th[i].st = v.thread[i].st \/ (th[i].id = A!Call(v, r) /\ th[i].st \in {"running", "awaiting"})
  <2>1. CASE th = v.thread BY <2>1
  <2>2. ASSUME NEW st \in {"running", "awaiting"}, th = Patched(v.thread, A!Call(v, r), st)
        PROVE  /\ Len(th) = Len(v.thread)
               /\ \A i \in 1..Len(th) : /\ th[i].id = v.thread[i].id
                                        /\ IsCall(th[i]) <=> IsCall(v.thread[i])
                                        /\ Replied(th, i) <=> Replied(v.thread, i)
                                        /\ LastWord(th, i) <=> LastWord(v.thread, i)
                                        /\ th[i].st = v.thread[i].st \/ (th[i].id = A!Call(v, r) /\ th[i].st \in {"running", "awaiting"})
    <3>1. st \in Statuses BY DEF Statuses, A!Unsettled
    <3>2. /\ Len(th) = Len(v.thread)
          /\ \A i \in 1..Len(v.thread) : /\ th[i].k = v.thread[i].k /\ th[i].id = v.thread[i].id
                                         /\ v.thread[i].k = "step" /\ v.thread[i].id = A!Call(v, r) => th[i].st = st
                                         /\ ~(v.thread[i].k = "step" /\ v.thread[i].id = A!Call(v, r)) => th[i].st = v.thread[i].st
      BY <1>1, <2>2, <3>1, PatchedIs
    <3>3. /\ \A i \in 1..Len(v.thread) : (Replied(th, i) <=> Replied(v.thread, i)) /\ (LastWord(th, i) <=> LastWord(v.thread, i))
          /\ \A i \in 1..Len(v.thread) : IsCall(th[i]) <=> IsCall(v.thread[i])
      BY <1>1, <2>2, <3>1, PatchedSame
    <3> QED BY <3>2, <3>3
  <2> QED BY <1>6, <2>1, <2>2 DEF Resumed
<1>8. ASSUME NEW i \in 1..Len(th), IsCall(th[i]) PROVE Said(th, i, u.run[th[i].id[1]], u.latest, tk2, ct)
  <2>1. i \in 1..Len(v.thread) /\ IsCall(v.thread[i]) /\ th[i].id = v.thread[i].id BY <1>7, <1>8
  <2>2. v.thread[i].id \in A!Runs \X (0..MAX_STEPS) /\ v.thread[i].id[1] \in A!Runs /\ v.thread[i].id[2] \in Nat BY <1>1, <2>1, MessagesOf
  <2>3. CASE v.thread[i].id[1] # r
    <3>1. Said(v.thread, i, v.run[v.thread[i].id[1]], v.latest, tk, ct) BY <1>1, <2>1, <2>3 DEF Aside
    <3>2. th[i].st = v.thread[i].st BY <1>7, <2>1, <2>3 DEF A!Call
    <3>3. th[i].id \in tk2 <=> th[i].id \in tk BY <1>3, <2>1, <2>3
    <3>4. u.run[th[i].id[1]] = v.run[v.thread[i].id[1]] /\ u.latest = v.latest BY <2>1, <2>2, <2>3 DEF Resumed
    <3> QED BY <1>7, <2>1, <3>1, <3>2, <3>3, <3>4 DEF Said
  <2>4. CASE v.thread[i].id[1] = r
    <3>1. Unanswered(v, r, i, tk, ct) BY <2>1, <2>4 DEF Pending
    <3>2. v.thread[i].id = A!Call(v, r) <=> v.thread[i].id[2] = v.run[r].step BY <2>2, <2>4 DEF A!Call
    <3> DEFINE y == u.run[r]
    <3>3. y.step = v.run[r].step /\ y.quiet = v.run[r].quiet /\ y.token = v.run[r].token /\ y.at \in A!Waiting /\ u.latest = v.latest
      BY DEF Resumed, Akin
    <3>4. A!live(v, r) <=> y.token = u.latest BY <3>3 DEF A!live
    <3>5. ~GaveWay(y, u.latest) => y.token = u.latest /\ ~y.quiet BY <3>3 DEF GaveWay, A!Waiting
    <3>6. y.at \notin {"off", "opening", "model", "over"} BY <3>3 DEF A!Waiting
    <3>7. v.thread[i].id[2] < y.step => ~MayYet(y, v.thread[i].id[2]) BY <1>1, <2>2, <3>3 DEF MayYet
    <3>8. CASE th[i].st = v.thread[i].st
      <4>1. v.thread[i].st = "denied" => th[i].id \notin tk2 BY <1>1, <2>1, <2>2, <3>1, <3>2, <3>8 DEF Unanswered
      <4>2. v.thread[i].st = "done" => th[i].id \in tk2 BY <2>1, <3>1 DEF Unanswered
      <4> HIDE DEF y
      <4>3. Said(th, i, y, u.latest, tk2, ct)
        BY <1>7, <2>1, <2>2, <3>1, <3>3, <3>4, <3>5, <3>6, <3>7, <3>8, <4>1, <4>2 DEF Said, Unanswered
      <4> QED BY <2>1, <2>4, <4>3 DEF y
    <3>9. CASE th[i].id = A!Call(v, r) /\ th[i].st \in {"running", "awaiting"}
      <4>1. th[i].id[2] = y.step /\ th[i].st \in A!Unsettled BY <2>1, <3>2, <3>3, <3>9 DEF A!Unsettled
      <4>2. ~GaveWay(y, u.latest) => ct \/ LastWord(th, i) BY <1>7, <2>1, <3>1, <3>3, <3>4, <3>5, <4>1 DEF Unanswered
      <4>3. th[i].id[2] # 0 /\ th[i].id[2] <= y.step /\ th[i].st \notin {"none", "done", "denied"}
        BY <1>1, <3>3, <3>9, <4>1
      <4> HIDE DEF y
      <4>4. Said(th, i, y, u.latest, tk2, ct) BY <3>3, <3>6, <4>1, <4>2, <4>3 DEF Said
      <4> QED BY <2>1, <2>4, <4>4 DEF y
    <3> QED BY <1>7, <2>1, <3>8, <3>9
  <2> QED BY <2>3, <2>4
<1> QED BY <1>1, <1>4, <1>5, <1>6, <1>8 DEF Sound

\* A status that settles nothing changes nothing that matters.
LEMMA PendingPatch ==
  ASSUME Limits, NEW tk, NEW nd, NEW ap, NEW lt, NEW ct, NEW v, NEW r \in A!Runs, Pending(v, r, tk, nd, ap, lt, ct),
         NEW st \in {"running", "awaiting"}, NEW p, p = A!Patch(v, r, st)
  PROVE  /\ Pending(p, r, tk, nd, ap, lt, ct) /\ Kept(p, v, r) /\ p.run = v.run /\ p.changes = v.changes /\ p.shown = v.shown
         /\ p.thread = v.thread \/ p.thread = Patched(v.thread, A!Call(v, r), st)
<1>1. v \in Windows /\ st \in Statuses /\ v.thread \in Seq(Msgs) /\ (~v.open => v.thread = <<>>) /\ Aside(v, r, tk, nd, ap, lt, ct)
  BY DEF Pending, Aside, Statuses, Windows, A!Unsettled
<1>2. /\ Kept(p, v, r) /\ p.run = v.run /\ p.changes = v.changes /\ p.shown = v.shown
      /\ p.thread = IF A!live(v, r) THEN Patched(v.thread, A!Call(v, r), st) ELSE v.thread
  BY <1>1, PatchTells
<1>3. Rest(p.thread, v, r, tk, ct)
  <2>1. CASE A!live(v, r) BY <1>1, <1>2, <2>1, OthersPatched
  <2>2. CASE ~A!live(v, r) BY <1>1, <1>2, <2>2 DEF Aside, Rest
  <2> QED BY <2>1, <2>2
<1>4. Aside(p, r, tk, nd, ap, lt, ct) BY <1>1, <1>2, <1>3, AsideStays
<1>5. Own(p, r, tk, nd, lt) /\ p.run[r].step # 0 BY <1>2 DEF Pending, Own, Kept
<1>6. A!live(p, r) <=> A!live(v, r) BY <1>2 DEF A!live, Kept
<1>7. ASSUME NEW i \in 1..Len(p.thread), IsCall(p.thread[i]), p.thread[i].id[1] = r PROVE Unanswered(p, r, i, tk, ct)
  <2>1. CASE ~A!live(v, r) BY <1>2, <1>6, <1>7, <2>1 DEF Pending, Unanswered
  <2>2. CASE A!live(v, r)
    <3>1. PICK th : th = p.thread /\ th = Patched(v.thread, A!Call(v, r), st) BY <1>2, <2>2
    <3>2. /\ Len(th) = Len(v.thread)
          /\ \A j \in 1..Len(v.thread) : /\ th[j].k = v.thread[j].k /\ th[j].id = v.thread[j].id
                                         /\ v.thread[j].k = "step" /\ v.thread[j].id = A!Call(v, r) => th[j].st = st
                                         /\ ~(v.thread[j].k = "step" /\ v.thread[j].id = A!Call(v, r)) => th[j].st = v.thread[j].st
      BY <1>1, <3>1, PatchedIs
    <3>3. /\ \A j \in 1..Len(v.thread) : (Replied(th, j) <=> Replied(v.thread, j)) /\ (LastWord(th, j) <=> LastWord(v.thread, j))
          /\ \A j \in 1..Len(v.thread) : IsCall(th[j]) <=> IsCall(v.thread[j])
      BY <1>1, <3>1, PatchedSame
    <3>4. i \in 1..Len(v.thread) /\ IsCall(v.thread[i]) /\ v.thread[i].id = th[i].id /\ v.thread[i].k = "step" BY <1>7, <3>1, <3>2, <3>3 DEF IsCall
    <3>5. v.thread[i].id \in A!Runs \X (0..MAX_STEPS) /\ v.thread[i].id[2] \in Nat BY <1>1, <3>4, MessagesOf
    <3>6. v.thread[i].id = A!Call(v, r) <=> v.thread[i].id[2] = v.run[r].step BY <1>7, <3>1, <3>4, <3>5 DEF A!Call
    <3>7. Unanswered(v, r, i, tk, ct) BY <1>7, <3>1, <3>4 DEF Pending
    <3>8. CASE v.thread[i].id = A!Call(v, r)
      <4>1. th[i].st = st BY <3>2, <3>4, <3>8
      <4>2. st \in A!Unsettled /\ st \notin {"none", "done", "denied"} BY DEF A!Unsettled
      <4> QED BY <1>2, <1>6, <2>2, <3>1, <3>3, <3>4, <3>6, <3>7, <3>8, <4>1, <4>2 DEF Unanswered
    <3>9. CASE v.thread[i].id # A!Call(v, r)
      <4>1. th[i].st = v.thread[i].st BY <3>2, <3>4, <3>9
      <4> QED BY <1>2, <1>6, <2>2, <3>1, <3>3, <3>4, <3>6, <3>7, <3>9, <4>1 DEF Unanswered
    <3> QED BY <3>8, <3>9
  <2> QED BY <2>1, <2>2
<1>8. Pending(p, r, tk, nd, ap, lt, ct) BY <1>4, <1>5, <1>7 DEF Pending
<1> QED BY <1>2, <1>8

\* The call is sent.
LEMMA Dispatches ==
  ASSUME Limits, NEW tk, NEW nd, NEW ap, NEW lt, NEW ct, NEW v, NEW r \in A!Runs, Pending(v, r, tk, nd, ap, lt, ct),
         NEW tk2, tk \subseteq tk2, tk2 \subseteq tk \cup {A!Call(v, r)}, v.run[r].kind = "command" => A!Call(v, r) \in tk2,
         A!Call(v, r) \notin tk, A!Call(v, r) \in nd => A!Call(v, r) \in ap, v.run[r].kind # "none", lt[r] = 0
  PROVE  /\ Sound(A!Dispatch(v, r), tk2, nd, ap, lt, ct) /\ Onward(v, A!Dispatch(v, r), r)
         /\ A!Call(A!Dispatch(v, r), r) = A!Call(v, r) /\ A!Dispatch(v, r).run[r].op = "sent" /\ A!Dispatch(v, r).run[r].kind = v.run[r].kind
         /\ A!Dispatch(v, r).run[r].ask = v.run[r].ask
<1>1. PICK p : p = A!Patch(v, r, "running") OBVIOUS
<1>2. /\ Kept(p, v, r) /\ p.run = v.run /\ p.changes = v.changes /\ p.shown = v.shown
      /\ p.thread = v.thread \/ p.thread = Patched(v.thread, A!Call(v, r), "running")
  BY <1>1, PendingPatch
<1>3. p \in Windows /\ p.run[r] \in Records /\ (~p.open => p.thread = <<>>) /\ v \in Windows BY <1>2, PutSame DEF Kept, Pending, Aside
<1>4. PICK x \in Records : x = v.run[r] BY <1>2, <1>3
<1>5. PICK y \in Records : y = [x EXCEPT !.at = "running", !.op = "sent"] /\ Akin(y, x) /\ y.at = "running" /\ y.op = "sent" /\ y.kind = x.kind /\ y.ask = x.ask
  <2>1. [x EXCEPT !.at = "running", !.op = "sent"] \in Records BY DEF Records, Places
  <2> QED BY <2>1 DEF Akin, Records
<1>6. PICK u : u = Put(p, r, y) OBVIOUS
<1>7. Same(u, p, r) /\ u.changes = p.changes /\ u.run[r] = y BY <1>2, <1>3, <1>4, <1>5, <1>6, SamePut
<1>8. A!Dispatch(v, r) = u
  <2>1. p.run[r] = x BY <1>2, <1>4
  <2>2. A!Dispatch(v, r) = [p EXCEPT !.run[r] = [[@ EXCEPT !.at = "running"] EXCEPT !.op = "sent"]] BY <1>1, <1>3 DEF A!Dispatch, Windows
  <2>3. [[x EXCEPT !.at = "running"] EXCEPT !.op = "sent"] = y BY <1>5
  <2> QED BY <1>6, <2>1, <2>2, <2>3 DEF Put
<1>9. /\ u \in Windows /\ \A q \in A!Runs \ {r} : u.run[q] = v.run[q]
      /\ u.open = v.open /\ u.latest = v.latest /\ u.active = v.active /\ u.overlay = v.overlay /\ u.thread = p.thread
      /\ u.approval = v.approval /\ u.card = v.card /\ (u.shown = v.shown \/ v.active = r)
  BY <1>2, <1>7 DEF Same, Kept
<1>10. Resumed(u, v, r) BY <1>2, <1>4, <1>5, <1>7, <1>9 DEF Resumed, A!Waiting
<1>11. x.step \in 0..MAX_STEPS /\ x.step \in Nat /\ x.step # 0 /\ x.token \in Nat /\ A!Call(v, r) = <<r, x.step>> /\ x.aborted \in BOOLEAN /\ v.latest \in Nat
  BY <1>3, <1>4, TokensOf DEF Pending, A!Call
<1>12. /\ x.token # 0
       /\ (r = v.active /\ x.token = v.latest) \/ (r # v.active /\ x.aborted /\ x.token < v.latest)
       /\ \A s \in 1..MAX_STEPS : <<r, s>> \in tk \cup nd => s <= x.step
  BY <1>4 DEF Pending, Own
<1>13. Placed(y, r, v.latest, v.active) BY <1>4, <1>5, <1>11, <1>12 DEF Placed, UnderWay, Going, Akin
<1>14. Counted(y, r, tk2, nd, ap, lt[r])
  <2>1. \A s \in 1..MAX_STEPS : <<r, s>> \in tk2 \cup nd => s <= x.step BY <1>11, <1>12
  <2> QED BY <1>4, <1>5, <1>11, <2>1 DEF Counted, Akin
<1>15. tk2 \cap nd \subseteq ap BY DEF Pending, Aside
<1>16. Sound(u, tk2, nd, ap, lt, ct) BY <1>10, <1>13, <1>14, <1>15, <1>7, Resumes
<1>17. Onward(v, u, r) BY <1>2, <1>5, <1>7, <1>9 DEF Onward
<1>18. A!Call(u, r) = A!Call(v, r) BY <1>4, <1>5, <1>7 DEF A!Call, Akin
<1> QED BY <1>4, <1>5, <1>7, <1>8, <1>16, <1>17, <1>18

\* More may be asked about, and approved.
LEMMA PendingAsks ==
  ASSUME Limits, NEW tk, NEW nd, NEW ap, NEW lt, NEW ct, NEW v, NEW r \in A!Runs, Pending(v, r, tk, nd, ap, lt, ct), A!Call(v, r) \notin tk
  PROVE  Pending(v, r, tk, nd \cup {A!Call(v, r)}, ap, lt, ct)
<1>1. PICK nd2 : nd2 = nd \cup {A!Call(v, r)} OBVIOUS
<1>2. v \in Windows /\ v.run[r].step \in Nat BY TokensOf DEF Pending, Aside
<1>3. \A c : c[1] # r => (c \in nd2 <=> c \in nd) BY <1>1 DEF A!Call
<1>4. ASSUME NEW q \in A!Runs \ {r} PROVE Placed(v.run[q], q, v.latest, v.active) /\ Counted(v.run[q], q, tk, nd2, ap, lt[q])
  <2>1. Placed(v.run[q], q, v.latest, v.active) /\ Counted(v.run[q], q, tk, nd, ap, lt[q]) BY DEF Pending, Aside
  <2>2. \A s : <<q, s>> \in nd2 <=> <<q, s>> \in nd BY <1>3
  <2> QED BY <2>1, <2>2 DEF Counted
<1>5. tk \cap nd2 \subseteq ap BY <1>1 DEF Pending, Aside
<1>6. Aside(v, r, tk, nd2, ap, lt, ct) BY <1>4, <1>5 DEF Pending, Aside
<1>7. Own(v, r, tk, nd2, lt) BY <1>1, <1>2 DEF Pending, Own, A!Call
<1>8. Pending(v, r, tk, nd2, ap, lt, ct) BY <1>6, <1>7 DEF Pending
<1> QED BY <1>1, <1>8

\* More approved calls do no harm.
LEMMA PendingApproved ==
  ASSUME NEW tk, NEW nd, NEW ap, NEW lt, NEW ct, NEW v, NEW r \in A!Runs, Pending(v, r, tk, nd, ap, lt, ct), NEW ap2, ap \subseteq ap2
  PROVE  Pending(v, r, tk, nd, ap2, lt, ct)
<1>1. ASSUME NEW q \in A!Runs \ {r} PROVE Placed(v.run[q], q, v.latest, v.active) /\ Counted(v.run[q], q, tk, nd, ap2, lt[q])
  <2>1. Placed(v.run[q], q, v.latest, v.active) /\ Counted(v.run[q], q, tk, nd, ap, lt[q]) BY DEF Pending, Aside
  <2> QED BY <2>1 DEF Counted
<1>2. tk \cap nd \subseteq ap2 BY DEF Pending, Aside
<1>3. Aside(v, r, tk, nd, ap2, lt, ct) BY <1>1, <1>2 DEF Pending, Aside
<1> QED BY <1>3 DEF Pending

\* What is so of a call that has not been made.
Ahead(v, r, tk, nd, lt) ==
  /\ A!Call(v, r) \notin tk /\ (A!Call(v, r) \in nd => v.run[r].ask) /\ lt[r] = 0 /\ v.run[r].op = "none" /\ v.run[r].kind # "none"

\* A run that prepares its call, or asks, is placed and counted.
LEMMA StoodIs ==
  ASSUME Limits, NEW tk, NEW nd, NEW ap, NEW lt, NEW ct, NEW v, NEW r \in A!Runs, Pending(v, r, tk, nd, ap, lt, ct), Ahead(v, r, tk, nd, lt),
         NEW y, Akin(y, v.run[r]), y.op = "none", y.ask = v.run[r].ask, y.kind = v.run[r].kind,
         \/ y.at = "preparing" /\ y.kind \in {"edit", "write"}
         \/ y.at = "asking" /\ y.kind # "read" /\ y.ask /\ ~y.aborted
  PROVE  Placed(y, r, v.latest, v.active) /\ Counted(y, r, tk, nd, ap, lt[r])
<1>1. v \in Windows BY DEF Pending, Aside
<1>2. PICK x \in Records : x = v.run[r] BY <1>1, PutSame
<1>3. x.step \in 0..MAX_STEPS /\ x.step \in Nat /\ x.step # 0 /\ x.token \in Nat /\ A!Call(v, r) = <<r, x.step>> /\ v.latest \in Nat
  BY <1>1, <1>2, TokensOf DEF Pending, A!Call
<1>4. /\ x.token # 0
      /\ (r = v.active /\ x.token = v.latest) \/ (r # v.active /\ x.aborted /\ x.token < v.latest)
      /\ \A s \in 1..MAX_STEPS : <<r, s>> \in tk \cup nd => s <= x.step
  BY <1>2 DEF Pending, Own
<1>5. Placed(y, r, v.latest, v.active) BY <1>2, <1>3, <1>4 DEF Placed, UnderWay, Going, Akin, Ahead
<1>6. Counted(y, r, tk, nd, ap, lt[r])
  <2>1. y.step = x.step BY <1>2 DEF Akin
  <2>2. lt[r] = 0 /\ <<r, x.step>> \notin tk /\ (<<r, x.step>> \in nd => y.ask) BY <1>2, <1>3 DEF Ahead
  <2>3. y.at \in {"preparing", "asking"} OBVIOUS
  <2> QED BY <1>3, <1>4, <2>1, <2>2, <2>3 DEF Counted
<1> QED BY <1>5, <1>6

ToPrepare(v, r) == [v EXCEPT !.run[r].at = "preparing"]
Readies(v, u, r) == Onward(v, u, r) /\ u.run[r].ask = v.run[r].ask /\ u.run[r].op = "none"

\* The run goes on to prepare its call.
LEMMA Prepares ==
  ASSUME Limits, NEW tk, NEW nd, NEW ap, NEW lt, NEW ct, NEW v, NEW r \in A!Runs, Pending(v, r, tk, nd, ap, lt, ct), Ahead(v, r, tk, nd, lt),
         v.run[r].kind \in {"edit", "write"}, NEW u, u = ToPrepare(v, r)
  PROVE  Sound(u, tk, nd, ap, lt, ct) /\ Readies(v, u, r)
<1>1. v \in Windows /\ (~v.open => v.thread = <<>>) BY DEF Pending, Aside
<1>2. PICK x \in Records : x = v.run[r] BY <1>1, PutSame
<1>3. PICK y \in Records : y = [x EXCEPT !.at = "preparing"] /\ Akin(y, x) /\ y.at = "preparing" /\ y.op = x.op /\ y.kind = x.kind /\ y.ask = x.ask
  <2>1. [x EXCEPT !.at = "preparing"] \in Records BY DEF Records, Places
  <2> QED BY <2>1 DEF Akin, Records
<1>4. u = Put(v, r, y) BY <1>2, <1>3 DEF Put, ToPrepare
<1>5. Same(u, v, r) /\ u.changes = v.changes /\ u.run[r] = y
  <2>1. Akin(y, v.run[r]) BY <1>2, <1>3
  <2>2. Same(Put(v, r, y), v, r) /\ Put(v, r, y).changes = v.changes /\ Put(v, r, y).run[r] = y BY <1>1, <2>1, SamePut
  <2> QED BY <1>4, <2>2
<1>6. Resumed(u, v, r) BY <1>2, <1>3, <1>5 DEF Resumed, A!Waiting, Same, Kept
<1>7. Placed(y, r, v.latest, v.active) /\ Counted(y, r, tk, nd, ap, lt[r]) BY <1>2, <1>3, StoodIs DEF Ahead
<1>8. tk \cap nd \subseteq ap BY DEF Pending, Aside
<1>9. Sound(u, tk, nd, ap, lt, ct) BY <1>5, <1>6, <1>7, <1>8, Resumes
<1>10. Onward(v, u, r) BY <1>2, <1>3, <1>5 DEF Onward, Same, Kept, Ahead
<1>11. u.run[r].op = "none" BY <1>2, <1>3, <1>5 DEF Ahead
<1> QED BY <1>2, <1>3, <1>5, <1>9, <1>10, <1>11 DEF Readies

Carded(v, a, c) == [v EXCEPT !.approval = a, !.card = c]

\* Another card.
LEMMA CardedIs ==
  ASSUME NEW v \in Windows, NEW a \in Holder, NEW c \in {A!NoCall} \cup A!Calls
  PROVE  /\ Carded(v, a, c) \in Windows /\ Carded(v, a, c).run = v.run /\ Carded(v, a, c).open = v.open /\ Carded(v, a, c).thread = v.thread
         /\ Carded(v, a, c).changes = v.changes /\ Carded(v, a, c).latest = v.latest /\ Carded(v, a, c).active = v.active
         /\ Carded(v, a, c).approval = a /\ Carded(v, a, c).card = c /\ Carded(v, a, c).shown = v.shown /\ Carded(v, a, c).overlay = v.overlay
BY DEF Carded, Windows

\* The person is asked; or the run, which is no longer the one running, told to stop.
LEMMA Asks ==
  ASSUME Limits, NEW tk, NEW nd, NEW ap, NEW lt, NEW ct, NEW v, NEW r \in A!Runs, Pending(v, r, tk, nd, ap, lt, ct), Ahead(v, r, tk, nd, lt),
         v.run[r].kind # "read", v.run[r].ask, NEW u, u = A!Ask(v, r)
  PROVE  Sound(u, tk, nd, ap, lt, ct) /\ Onward(v, u, r) /\ (A!running(v, r) => u.run[r].ask /\ u.run[r].op = "none")
<1>1. PICK p : p = A!Patch(v, r, "awaiting") OBVIOUS
<1>2. /\ Pending(p, r, tk, nd, ap, lt, ct) /\ Kept(p, v, r) /\ p.run = v.run /\ p.changes = v.changes /\ p.shown = v.shown
      /\ p.thread = v.thread \/ p.thread = Patched(v.thread, A!Call(v, r), "awaiting")
  BY <1>1, PendingPatch
<1>3. v \in Windows /\ p \in Windows /\ (~p.open => p.thread = <<>>) BY <1>2 DEF Pending, Aside
<1>4. A!running(p, r) <=> A!running(v, r) BY <1>2 DEF A!running, A!live, Kept
<1>5. PICK w1 : w1 = A!onStatus(p, r, "awaiting") OBVIOUS
<1>6. /\ w1 \in Windows /\ Beside(w1, p) /\ w1.thread = p.thread /\ w1.overlay = p.overlay
      /\ w1.shown = IF A!running(p, r) THEN "awaiting" ELSE p.shown
  BY <1>3, <1>5, StatusIs
<1>7. CASE ~A!running(v, r)
  <2>1. Same(w1, p, r) BY <1>3, <1>4, <1>6, <1>7 DEF Same, Kept, Beside
  <2>2. Pending(w1, r, tk, nd, ap, lt, ct) BY <1>2, <2>1, PendingSame
  <2>3. A!Call(w1, r) = A!Call(v, r) /\ A!Call(v, r) \notin tk BY <1>2, <1>6 DEF A!Call, Beside, Ahead
  <2>4. u = A!Settled(w1, r, "denied", FALSE, FALSE) BY <1>1, <1>5, <1>7 DEF A!Ask
  <2>5. Sound(u, tk, nd, ap, lt, ct) /\ Onward(w1, u, r) BY <2>2, <2>3, <2>4, SettledIs
  <2>6. Kept(w1, v, r) /\ w1.changes = v.changes BY <1>2, <1>6, <2>1 DEF Same, Kept, Beside
  <2> QED BY <1>7, <2>5, <2>6, OnwardFrom
<1>8. CASE A!running(v, r)
  <2>1. PICK x \in Records : x = v.run[r] BY <1>3, PutSame
  <2>2. PICK y \in Records : y = [x EXCEPT !.at = "asking"] /\ Akin(y, x) /\ y.at = "asking" /\ y.op = x.op /\ y.kind = x.kind /\ y.ask = x.ask
    <3>1. [x EXCEPT !.at = "asking"] \in Records BY DEF Records, Places
    <3> QED BY <3>1 DEF Akin, Records
  <2>3. PICK z : z = Put(w1, r, y) OBVIOUS
  <2>4. /\ z \in Windows /\ z.run[r] = y /\ \A q \in A!Runs \ {r} : z.run[q] = w1.run[q]
        /\ z.open = w1.open /\ z.thread = w1.thread /\ z.changes = w1.changes /\ z.latest = w1.latest /\ z.active = w1.active
        /\ z.approval = w1.approval /\ z.card = w1.card /\ z.shown = w1.shown /\ z.overlay = w1.overlay
    BY <1>6, <2>3, PutIs
  <2>5. PICK c \in {A!NoCall} \cup A!Calls : c = A!Call(v, r)
    <3>1. v.run[r].step \in 1..MAX_STEPS BY <1>3, TokensOf DEF Pending
    <3> QED BY <3>1 DEF A!Call, A!Calls
  <2>6. u = Carded(z, r, c)
    <3>1. w1.run[r] = x BY <1>2, <1>6, <2>1 DEF Beside
    <3>2. u = [w1 EXCEPT !.run[r].at = "asking", !.approval = r, !.card = A!Call(v, r)] BY <1>1, <1>5, <1>8 DEF A!Ask
    <3>3. u = [[w1 EXCEPT !.run[r] = [@ EXCEPT !.at = "asking"]] EXCEPT !.approval = r, !.card = A!Call(v, r)] BY <3>2
    <3> QED BY <2>2, <2>3, <2>5, <3>1, <3>3 DEF Carded, Put
  <2>7. r \in Holder BY DEF Holder
  <2>8. /\ u \in Windows /\ u.run = z.run /\ u.open = z.open /\ u.thread = z.thread
        /\ u.changes = z.changes /\ u.latest = z.latest /\ u.active = z.active
        /\ u.approval = r /\ u.card = c /\ u.shown = z.shown /\ u.overlay = z.overlay
    BY <2>4, <2>6, <2>7, CardedIs
  <2>9. ~x.aborted /\ v.active = r
    <3>1. ~x.aborted BY <1>8, <2>1 DEF A!running
    <3> QED BY <2>1, <3>1 DEF Pending, Own
  <2>10. /\ u \in Windows /\ u.run[r] = y /\ \A q \in A!Runs \ {r} : u.run[q] = v.run[q]
         /\ u.open = v.open /\ u.thread = p.thread /\ u.changes = v.changes /\ u.latest = v.latest /\ u.active = v.active
         /\ u.approval = r /\ u.card = A!Call(v, r) /\ u.shown = "awaiting" /\ u.overlay = v.overlay
    <3>1. w1.run = p.run /\ w1.open = p.open /\ w1.changes = p.changes /\ w1.latest = p.latest /\ w1.active = p.active BY <1>6 DEF Beside
    <3>2. p.run = v.run /\ p.open = v.open /\ p.changes = v.changes /\ p.latest = v.latest /\ p.active = v.active /\ p.overlay = v.overlay
      BY <1>2 DEF Kept
    <3> QED BY <1>4, <1>6, <1>8, <2>4, <2>5, <2>8, <3>1, <3>2
  <2>11. Resumed(u, v, r)
    <3>1. Akin(u.run[r], v.run[r]) /\ u.run[r].at = "asking" BY <2>1, <2>2, <2>10
    <3>2. u.thread = v.thread \/ \E st \in {"running", "awaiting"} : u.thread = Patched(v.thread, A!Call(v, r), st) BY <1>2, <2>10
    <3> QED BY <2>9, <2>10, <3>1, <3>2 DEF Resumed, A!Waiting
  <2>12. Placed(y, r, v.latest, v.active) /\ Counted(y, r, tk, nd, ap, lt[r])
    <3>1. ~y.aborted /\ y.ask /\ y.kind # "read" /\ y.op = "none" BY <2>1, <2>2, <2>9 DEF Akin, Ahead
    <3> QED BY <2>1, <2>2, <3>1, StoodIs
  <2>13. tk \cap nd \subseteq ap BY DEF Pending, Aside
  <2>14. Sound(u, tk, nd, ap, lt, ct) BY <2>4, <2>8, <2>11, <2>12, <2>13, Resumes
  <2>15. Onward(v, u, r) BY <2>1, <2>2, <2>10 DEF Onward, Ahead
  <2>16. u.run[r].ask /\ u.run[r].op = "none" BY <2>1, <2>2, <2>10 DEF Ahead
  <2> QED BY <2>14, <2>15, <2>16
<1> QED BY <1>7, <1>8

-----------------------------------------------------------------------------
(* The model's reply to run r: z is the window, whose overlay may be r's,   *)
(* and v the window without it.                                             *)
Plainly(z, r) == Over(z, IF z.overlay = r THEN 0 ELSE z.overlay)

\* The window without the run's overlay.
LEMMA BareIs ==
  ASSUME NEW z \in Windows, NEW r \in A!Runs, NEW v, v = Plainly(z, r)
  PROVE  /\ v \in Windows /\ Beside(v, z) /\ v.thread = z.thread /\ v.shown = z.shown
         /\ v.overlay = IF z.overlay = r THEN 0 ELSE z.overlay
<1>1. PICK o \in Holder : o = IF z.overlay = r THEN 0 ELSE z.overlay BY DEF Windows, Holder
<1>2. v = Over(z, o) BY <1>1 DEF Plainly
<1> QED BY <1>1, <1>2, OverIs

\* A step ends the run's overlay, so it may as well have ended before.
LEMMA OverSay ==
  ASSUME NEW z \in Windows, NEW r \in A!Runs, A!live(z, r), NEW msgs, \E i \in DOMAIN msgs : msgs[i].k = "step", NEW v, v = Plainly(z, r)
  PROVE  A!Say(z, r, msgs) = A!Say(v, r, msgs)
<1>1. v \in Windows /\ Beside(v, z) /\ v.thread = z.thread /\ v.shown = z.shown /\ v.overlay = (IF z.overlay = r THEN 0 ELSE z.overlay)
  BY BareIs
<1>2. A!live(v, r) BY <1>1 DEF A!live, Beside
<1>3. PICK o : o = IF z.overlay = r THEN 0 ELSE z.overlay OBVIOUS
<1>4. PICK th : th = IF z.open THEN z.thread \o msgs ELSE z.thread OBVIOUS
<1>5. A!Say(z, r, msgs) = [z EXCEPT !.thread = th, !.overlay = o] BY <1>3, <1>4 DEF A!Say
<1>6. A!Say(v, r, msgs) = [v EXCEPT !.thread = th, !.overlay = o]
  <2>1. r # 0 BY DEF A!Runs
  <2>2. th = IF v.open THEN v.thread \o msgs ELSE v.thread BY <1>1, <1>4 DEF Beside
  <2>3. o = IF v.overlay = r /\ \E i \in DOMAIN msgs : msgs[i].k = "step" THEN 0 ELSE v.overlay BY <1>1, <1>3, <2>1
  <2> QED BY <1>2, <2>2, <2>3 DEF A!Say
<1>7. v = [z EXCEPT !.overlay = o] BY <1>3 DEF Plainly, Over
<1>8. [z EXCEPT !.thread = th, !.overlay = o] = [[z EXCEPT !.overlay = o] EXCEPT !.thread = th, !.overlay = o] BY DEF Windows
<1> QED BY <1>5, <1>6, <1>7, <1>8

\* A thread that gets a step: the reply comes to nothing, or calls, or ends.
Replies(z, v, r, tk, nd, ap, lt, ct) ==
  /\ z \in Windows /\ v = Plainly(z, r) /\ Fresh(v, r, tk, nd, ap, lt, ct)
  /\ A!Call(v, r) \notin tk

\* A reply finds the run the newest, and between two steps.
LEMMA RepliesIs ==
  ASSUME Limits, NEW tk, NEW nd, NEW ap, NEW lt, NEW ct, NEW z, NEW v, NEW r \in A!Runs, Replies(z, v, r, tk, nd, ap, lt, ct)
  PROVE  /\ z \in Windows /\ v \in Windows /\ A!live(z, r) /\ A!live(v, r) /\ A!Call(z, r) = A!Call(v, r) /\ z.run = v.run /\ z.policy = v.policy /\ z.allowed = v.allowed
         /\ v.run[r] \in Records /\ v.run[r].empties \in Nat /\ A!Call(v, r) \in CallIds
         /\ Between(v, r, tk, nd, ap, lt, ct) /\ v = Plainly(z, r)
<1>1. z \in Windows /\ v = Plainly(z, r) BY DEF Replies
<1>2. v \in Windows /\ Beside(v, z) BY <1>1, BareIs
<1>3. v.run = z.run /\ v.latest = z.latest BY <1>2 DEF Beside
<1>4. A!live(v, r) BY DEF Replies, Fresh
<1>5. A!live(z, r) /\ A!Call(z, r) = A!Call(v, r) BY <1>3, <1>4 DEF A!live, A!Call
<1>6. v.run[r] \in Records /\ v.run[r].step \in 0..MAX_STEPS BY <1>2, PutSame, TokensOf
<1>7. v.run[r].empties \in Nat BY <1>6 DEF Records
<1>8. z.policy = v.policy /\ z.allowed = v.allowed BY <1>1 DEF Plainly, Over, Windows
<1>9. A!Call(v, r) \in CallIds BY <1>6 DEF A!Call, CallIds
<1>10. Between(v, r, tk, nd, ap, lt, ct) BY FreshBetween DEF Replies
<1> QED BY <1>1, <1>2, <1>3, <1>4, <1>5, <1>6, <1>7, <1>8, <1>9, <1>10

\* A reply that ends the run.
LEMMA EndsIs ==
  ASSUME Limits, NEW tk, NEW nd, NEW ap, NEW lt, NEW ct, NEW z, NEW v, NEW r \in A!Runs, Replies(z, v, r, tk, nd, ap, lt, ct),
         NEW st \in {"none", "error", "denied"}, NEW u, u = A!Ends(z, r, st)
  PROVE  Sound(u, tk, nd, ap, lt, ct) /\ Onward(v, u, r) /\ Rests(u, r)
<1>1. /\ z \in Windows /\ v \in Windows /\ A!live(z, r) /\ A!live(v, r) /\ A!Call(z, r) = A!Call(v, r) /\ v = Plainly(z, r) /\ Between(v, r, tk, nd, ap, lt, ct)
      /\ A!Call(v, r) \in CallIds
  BY RepliesIs
<1>2. \E s : u = A!Finish(s, r) /\ Between(s, r, tk, nd, ap, lt, ct) /\ Kept(s, v, r) /\ s.changes = v.changes
  <2>1. CASE st = "none"
    <3>1. PICK m \in Msgs : m = A!Msg("step", A!NoCall, "none") BY DEF A!Msg, Msgs, CallIds, Statuses
    <3>2. m.k = "step" /\ ~IsCall(m) BY <3>1 DEF A!Msg, IsCall
    <3>3. PICK msgs \in Seq(Msgs) : msgs = <<m>>
      <4>1. <<m>> \in Seq(Msgs) OBVIOUS
      <4> QED BY <4>1
    <3>4. (\E i \in DOMAIN msgs : msgs[i].k = "step") /\ \A k \in 1..Len(msgs) : ~IsCall(msgs[k]) BY <3>2, <3>3
    <3>5. PICK s : s = A!Say(v, r, msgs) OBVIOUS
    <3>6. A!Say(z, r, msgs) = s BY <1>1, <3>4, <3>5, OverSay
    <3>7. Between(s, r, tk, nd, ap, lt, ct) /\ Told(s, v, r, msgs) BY <1>1, <3>4, <3>5, SaysOther
    <3>8. u = A!Finish(s, r) BY <2>1, <3>1, <3>3, <3>6 DEF A!Ends
    <3> QED BY <3>7, <3>8 DEF Told
  <2>2. CASE st # "none"
    <3>1. PICK m : m = StepOf(v, r, st) OBVIOUS
    <3>2. m.k = "step" BY <3>1 DEF StepOf, A!Msg
    <3>3. PICK a : a = A!Msg("results", A!Call(v, r), "none") OBVIOUS
    <3>4. PICK msgs : msgs = <<m, a>> OBVIOUS
    <3>5. \E i \in DOMAIN msgs : msgs[i].k = "step" BY <3>2, <3>4
    <3>6. PICK s : s = A!Say(v, r, msgs) OBVIOUS
    <3>7. A!Say(z, r, msgs) = s BY <1>1, <3>5, <3>6, OverSay
    <3>8. Between(s, r, tk, nd, ap, lt, ct) /\ Kept(s, v, r) /\ s.changes = v.changes 
      <4>1. s = A!Say(v, r, EndWords(v, r, st)) BY <3>1, <3>3, <3>4, <3>6 DEF EndWords
      <4>2. Fresh(v, r, tk, nd, ap, lt, ct) /\ A!Call(v, r) \notin tk /\ st \in {"error", "denied"} BY <2>2 DEF Replies
      <4> QED BY <4>1, <4>2, SaysEnd
    <3>9. Append(<<m>>, a) = msgs
      <4>1. <<m>> \in Seq({m, a}) /\ msgs \in Seq({m, a}) /\ Len(msgs) = 2 /\ Len(<<m>>) = 1 BY <3>4
      <4>2. PICK b : b = Append(<<m>>, a) OBVIOUS
      <4>3. b \in Seq({m, a}) /\ Len(b) = 2 /\ b[1] = m /\ b[2] = a BY <4>1, <4>2, AppendProperties
      <4>4. Len(b) = Len(msgs) /\ \A i \in 1..Len(b) : b[i] = msgs[i]
        <5>1. msgs[1] = m /\ msgs[2] = a BY <3>4
        <5>2. \A i \in 1..Len(b) : i = 1 \/ i = 2 BY <4>3
        <5> QED BY <4>1, <4>3, <5>1, <5>2
      <4>5. b = msgs BY <4>1, <4>3, <4>4, SeqEqual
      <4> QED BY <4>2, <4>5
    <3>10. u = A!Finish(s, r) BY <1>1, <2>2, <3>1, <3>3, <3>7, <3>9 DEF A!Ends, StepOf
    <3> QED BY <3>8, <3>10
  <2> QED BY <2>1, <2>2
<1>3. PICK s : u = A!Finish(s, r) /\ Between(s, r, tk, nd, ap, lt, ct) /\ Kept(s, v, r) /\ s.changes = v.changes BY <1>2
<1>4. Sound(u, tk, nd, ap, lt, ct) /\ Onward(s, u, r) /\ Rests(u, r) BY <1>3, EndsSoundly
<1> QED BY <1>3, <1>4, OnwardFrom

\* A reply of nothing.
LEMMA EmptyIs ==
  ASSUME Limits, NEW tk, NEW nd, NEW ap, NEW lt, NEW ct, NEW z, NEW v, NEW r \in A!Runs, Replies(z, v, r, tk, nd, ap, lt, ct),
         NEW u, u = A!Empty(z, r)
  PROVE  Sound(u, tk, nd, ap, lt, ct) /\ Onward(v, u, r) /\ Rests(u, r)
<1>1. /\ z \in Windows /\ v \in Windows /\ A!live(z, r) /\ A!live(v, r) /\ v = Plainly(z, r) /\ Between(v, r, tk, nd, ap, lt, ct)
      /\ z.run = v.run /\ v.run[r].empties \in Nat
  BY RepliesIs
<1>2. PICK m \in Msgs : m = A!Msg("step", A!NoCall, "none") BY DEF A!Msg, Msgs, CallIds, Statuses
<1>3. m.k = "step" /\ ~IsCall(m) BY <1>2 DEF A!Msg, IsCall
<1>4. PICK msgs \in Seq(Msgs) : msgs = <<m>>
  <2>1. <<m>> \in Seq(Msgs) OBVIOUS
  <2> QED BY <2>1
<1>5. (\E i \in DOMAIN msgs : msgs[i].k = "step") /\ \A k \in 1..Len(msgs) : ~IsCall(msgs[k]) BY <1>3, <1>4
<1>6. PICK s : s = A!Say(v, r, msgs) OBVIOUS
<1>7. A!Say(z, r, msgs) = s BY <1>1, <1>5, <1>6, OverSay
<1>8. Between(s, r, tk, nd, ap, lt, ct) /\ A!live(s, r) /\ Told(s, v, r, msgs) BY <1>1, <1>5, <1>6, SaysOther
<1>9. Kept(s, v, r) /\ s.changes = v.changes BY <1>8 DEF Told
<1>10. PICK e \in Nat : e = z.run[r].empties + 1 BY <1>1
<1>11. s \in Windows /\ (~s.open => s.thread = <<>>) BY <1>9 DEF Kept
<1>12. PICK y \in Records : y = [s.run[r] EXCEPT !.empties = e] /\ Akin(y, s.run[r])
  <2>1. PICK x \in Records : x = s.run[r] BY <1>11, PutSame
  <2>2. [x EXCEPT !.empties = e] \in Records /\ Akin([x EXCEPT !.empties = e], x) BY DEF Records, Akin
  <2> QED BY <2>1, <2>2
<1>13. PICK w1 : w1 = Put(s, r, y) OBVIOUS
<1>14. Same(w1, s, r) /\ w1.changes = s.changes BY <1>11, <1>12, <1>13, SamePut
<1>15. Between(w1, r, tk, nd, ap, lt, ct) /\ A!live(w1, r) BY <1>8, <1>14, BetweenSame, AsideSame
<1>16. Kept(w1, v, r) /\ w1.changes = v.changes BY <1>9, <1>14 DEF Same, Kept
<1>17. PICK a \in Msgs : a = A!Msg("note", A!NoCall, "none") BY DEF A!Msg, Msgs, CallIds, Statuses
<1>18. ~IsCall(a) BY <1>17 DEF A!Msg, IsCall
<1>19. PICK note \in Seq(Msgs) : note = <<a>>
  <2>1. <<a>> \in Seq(Msgs) OBVIOUS
  <2> QED BY <2>1
<1>20. \A k \in 1..Len(note) : ~IsCall(note[k]) BY <1>18, <1>19
<1>21. PICK n : n = A!Say(w1, r, note) OBVIOUS
<1>22. Between(n, r, tk, nd, ap, lt, ct) /\ Told(n, w1, r, note) BY <1>15, <1>20, <1>21, SaysOther
<1>23. Kept(n, v, r) /\ n.changes = v.changes BY <1>16, <1>22 DEF Told, Kept
<1>24. u = IF e >= 2 THEN A!Finish(w1, r) ELSE A!NextStep(n, r)
  <2>1. w1 = [s EXCEPT !.run[r].empties = e] BY <1>12, <1>13 DEF Put
  <2>2. A!Say(z, r, <<A!Msg("step", A!NoCall, "none")>>) = s BY <1>2, <1>4, <1>7
  <2>3. A!Say(w1, r, <<A!Msg("note", A!NoCall, "none")>>) = n BY <1>17, <1>19, <1>21
  <2> QED BY <1>10, <2>1, <2>2, <2>3 DEF A!Empty
<1>25. CASE e >= 2
  <2>1. Sound(u, tk, nd, ap, lt, ct) /\ Onward(w1, u, r) /\ Rests(u, r) BY <1>15, <1>24, <1>25, EndsSoundly
  <2> QED BY <1>16, <2>1, OnwardFrom
<1>26. CASE ~(e >= 2)
  <2>1. Sound(u, tk, nd, ap, lt, ct) /\ Onward(n, u, r) /\ Rests(u, r) BY <1>22, <1>24, <1>26, GoesOnSoundly
  <2> QED BY <1>23, <2>1, OnwardFrom
<1> QED BY <1>25, <1>26

\* A reply with a call, the overlay not yet put away.
LEMMA StepSaid ==
  ASSUME Limits, NEW tk, NEW nd, NEW ap, NEW lt, NEW ct, NEW z, NEW v, NEW r \in A!Runs, Replies(z, v, r, tk, nd, ap, lt, ct),
         NEW s, s = A!Say(z, r, <<A!Msg("step", A!Call(z, r), "pending")>>)
  PROVE  Pending(s, r, tk, nd, ap, lt, ct) /\ Kept(s, v, r) /\ s.changes = v.changes /\ s.run = v.run /\ A!live(s, r) /\ A!Call(s, r) = A!Call(v, r)
<1>1. z \in Windows /\ v \in Windows /\ A!live(z, r) /\ A!live(v, r) /\ A!Call(z, r) = A!Call(v, r) /\ v = Plainly(z, r) BY RepliesIs
<1>2. PICK m : m = StepOf(v, r, "pending") OBVIOUS
<1>3. m.k = "step" /\ m = A!Msg("step", A!Call(z, r), "pending") BY <1>1, <1>2 DEF StepOf, A!Msg
<1>4. PICK msgs : msgs = <<m>> OBVIOUS
<1>5. \E i \in DOMAIN msgs : msgs[i].k = "step" BY <1>3, <1>4
<1>6. s = A!Say(v, r, msgs) BY <1>1, <1>3, <1>4, <1>5, OverSay
<1>7. Fresh(v, r, tk, nd, ap, lt, ct) BY DEF Replies
<1>8. s = A!Say(v, r, <<StepOf(v, r, "pending")>>) BY <1>2, <1>4, <1>6
<1>9. Pending(s, r, tk, nd, ap, lt, ct) /\ Kept(s, v, r) /\ s.changes = v.changes /\ s.run = v.run /\ A!live(s, r) BY <1>7, <1>8, SaysStep
<1> QED BY <1>9 DEF A!Call

\* A call that broke off.
LEMMA CutOffIs ==
  ASSUME Limits, NEW tk, NEW nd, NEW ap, NEW lt, NEW ct, NEW z, NEW v, NEW r \in A!Runs, Replies(z, v, r, tk, nd, ap, lt, ct),
         NEW u, u = A!CutOff(z, r)
  PROVE  Sound(u, tk, nd, ap, lt, ct) /\ Onward(v, u, r) /\ Rests(u, r)
<1>1. PICK s : s = A!Say(z, r, <<A!Msg("step", A!Call(z, r), "pending")>>) OBVIOUS
<1>2. Pending(s, r, tk, nd, ap, lt, ct) /\ Kept(s, v, r) /\ s.changes = v.changes BY <1>1, StepSaid
<1>3. u = A!Settled(s, r, "error", FALSE, FALSE) BY <1>1 DEF A!CutOff
<1>4. Sound(u, tk, nd, ap, lt, ct) /\ Onward(s, u, r) /\ Rests(u, r) BY <1>2, <1>3, SettledIs
<1> QED BY <1>2, <1>4, OnwardFrom

\* What a call's step takes and asks for.
Taking(u, r, c, tk) == tk \cup (IF u.run[r].op = "sent" /\ u.run[r].kind = "command" THEN {c} ELSE {})
Asking(u, r, c, nd) == IF u.run[r].ask THEN nd \cup {c} ELSE nd

\* A call is run, asked about or refused; to read is never asked about.
LEMMA PolicyIs ==
  ASSUME NEW k \in A!Kinds, NEW p, NEW al, NEW a, a = A!approvalFor(k, p, al)
  PROVE  a \in {"auto", "ask", "refuse"} /\ (a = "ask" => k # "read")
<1>1. CASE k = "read" BY <1>1 DEF A!approvalFor, A!ToolKind
<1>2. CASE k \in {"edit", "write"} /\ p = "read_only" BY <1>2 DEF A!approvalFor, A!ToolKind
<1>3. CASE k = "command" /\ p = "read_only" BY <1>3 DEF A!approvalFor, A!ToolKind
<1>4. CASE k \in {"edit", "write"} /\ p # "read_only"
  <2>1. A!ToolKind(k) = "edit" /\ k # "read" /\ k # "command" BY <1>4 DEF A!ToolKind
  <2> QED BY <1>4, <2>1 DEF A!approvalFor
<1>5. CASE k = "command" /\ p # "read_only"
  <2>1. A!ToolKind(k) # "edit" /\ k # "read" BY <1>5 DEF A!ToolKind
  <2> QED BY <1>5, <2>1 DEF A!approvalFor
<1> QED BY <1>1, <1>2, <1>3, <1>4, <1>5 DEF A!Kinds

\* prepareCall, after the call's step was said.
LEMMA PrepareIs ==
  ASSUME Limits, NEW tk, NEW nd, NEW ap, NEW lt, NEW ct, NEW v, NEW r \in A!Runs, Pending(v, r, tk, nd, ap, lt, ct),
         A!Call(v, r) \notin tk, A!Call(v, r) \notin nd, lt[r] = 0, v.run[r].op = "none", A!running(v, r),
         NEW k \in A!Kinds, NEW a \in {"auto", "ask", "refuse"}, a = "ask" => k # "read", NEW u, u = A!Prepare(v, r, k, a)
  PROVE  /\ Sound(u, Taking(u, r, A!Call(v, r), tk), Asking(u, r, A!Call(v, r), nd), ap, lt, ct) /\ Onward(v, u, r)
         /\ u.run[r].op = "sent" => A!Call(u, r) = A!Call(v, r)
<1>1. v \in Windows /\ (~v.open => v.thread = <<>>) BY DEF Pending, Aside
<1>2. PICK x \in Records : x = v.run[r] BY <1>1, PutSame
<1>3. PICK y \in Records : y = [[x EXCEPT !.kind = k] EXCEPT !.ask = (a = "ask")] /\ Akin(y, x) /\ y.kind = k /\ y.ask = (a = "ask") /\ y.op = x.op /\ y.at = x.at
  <2>1. PICK b \in BOOLEAN : b = (a = "ask") OBVIOUS
  <2>2. [[x EXCEPT !.kind = k] EXCEPT !.ask = b] \in Records BY DEF Records
  <2>3. PICK y \in Records : y = [[x EXCEPT !.kind = k] EXCEPT !.ask = b] BY <2>2
  <2>4. Akin(y, x) /\ y.kind = k /\ y.ask = b /\ y.op = x.op /\ y.at = x.at BY <2>3 DEF Records, Akin
  <2> QED BY <2>1, <2>3, <2>4
<1>4. PICK w1 : w1 = Put(v, r, y) OBVIOUS
<1>5. Same(w1, v, r) /\ w1.changes = v.changes /\ w1.run[r] = y
  <2>1. Akin(y, v.run[r]) BY <1>2, <1>3
  <2> QED BY <1>1, <1>4, <2>1, SamePut
<1>6. w1 = [v EXCEPT !.run[r].kind = k, !.run[r].ask = (a = "ask")]
  <2>1. [v EXCEPT !.run[r].kind = k, !.run[r].ask = (a = "ask")] = [v EXCEPT !.run[r] = [[@ EXCEPT !.kind = k] EXCEPT !.ask = (a = "ask")]]
    BY <1>1 DEF Windows
  <2> QED BY <1>2, <1>3, <1>4, <2>1 DEF Put
<1>7. PICK c : c = A!Call(v, r) OBVIOUS
<1>8. A!Call(w1, r) = c /\ Kept(w1, v, r) /\ A!running(w1, r) BY <1>2, <1>3, <1>5, <1>7 DEF A!Call, Same, A!running, A!live, Kept, Akin
<1>9. Pending(w1, r, tk, nd, ap, lt, ct) BY <1>5, PendingSame
<1>10. Pending(w1, r, tk, nd \cup {c}, ap, lt, ct) BY <1>7, <1>8, <1>9, PendingAsks
<1>11. a = "ask" => Ahead(w1, r, tk, nd \cup {c}, lt) BY <1>2, <1>3, <1>5, <1>7, <1>8 DEF Ahead, A!Kinds
<1>12. a # "ask" => Ahead(w1, r, tk, nd, lt) BY <1>2, <1>3, <1>5, <1>7, <1>8 DEF Ahead, A!Kinds
<1> DEFINE Goal == Sound(u, Taking(u, r, c, tk), Asking(u, r, c, nd), ap, lt, ct) /\ Onward(w1, u, r) /\ (u.run[r].op = "sent" => A!Call(u, r) = c)
<1>13. ASSUME a = "refuse" PROVE Goal
  <2>1. u = A!Settled(w1, r, "error", FALSE, FALSE) BY <1>6, <1>13 DEF A!Prepare
  <2>2. Sound(u, tk, nd, ap, lt, ct) /\ Onward(w1, u, r) /\ Rests(u, r) BY <1>9, <2>1, SettledIs
  <2>3. Taking(u, r, c, tk) = tk /\ Asking(u, r, c, nd) = nd BY <2>2 DEF Rests, Taking, Asking
  <2>4. Goal BY <2>2, <2>3 DEF Rests
  <2> QED BY <2>4
<1>14. ASSUME a # "refuse" /\ (k = "edit" \/ (k = "write" /\ a = "ask")) PROVE Goal
  <2>1. u = ToPrepare(w1, r) BY <1>6, <1>14 DEF A!Prepare, ToPrepare
  <2>2. w1.run[r].kind \in {"edit", "write"} BY <1>3, <1>5, <1>14
  <2>3. PICK n : n = IF a = "ask" THEN nd \cup {c} ELSE nd OBVIOUS
  <2>4. Pending(w1, r, tk, n, ap, lt, ct) /\ Ahead(w1, r, tk, n, lt) BY <1>9, <1>10, <1>11, <1>12, <2>3
  <2>5. Sound(u, tk, n, ap, lt, ct) /\ Readies(w1, u, r) BY <2>1, <2>2, <2>4, Prepares
  <2>6. Asking(u, r, c, nd) = n BY <1>3, <1>5, <2>3, <2>5 DEF Asking, Readies
  <2>7. u.run[r].op = "none" BY <2>5 DEF Readies
  <2>8. Taking(u, r, c, tk) = tk BY <2>7 DEF Taking
  <2>9. Goal BY <2>5, <2>6, <2>7, <2>8 DEF Readies
  <2> QED BY <2>9
<1>15. ASSUME k = "command" /\ a = "ask" PROVE Goal
  <2>1. u = A!Ask(w1, r) BY <1>6, <1>15 DEF A!Prepare
  <2>2. w1.run[r].kind # "read" /\ w1.run[r].ask BY <1>3, <1>5, <1>15
  <2>3. Sound(u, tk, nd \cup {c}, ap, lt, ct) /\ Onward(w1, u, r) /\ u.run[r].ask /\ u.run[r].op = "none" BY <1>8, <1>10, <1>11, <1>15, <2>1, <2>2, Asks
  <2>4. Taking(u, r, c, tk) = tk /\ Asking(u, r, c, nd) = nd \cup {c} BY <2>3 DEF Taking, Asking
  <2>5. Goal BY <2>3, <2>4
  <2> QED BY <2>5
<1>16. ASSUME (a = "auto" /\ k # "edit") \/ (a = "ask" /\ k = "read") PROVE Goal
  <2>1. a = "auto" /\ k # "edit" BY <1>16
  <2>2. u = A!Dispatch(w1, r) BY <1>6, <2>1 DEF A!Prepare
  <2>3. PICK t : t = tk \cup (IF k = "command" THEN {c} ELSE {}) OBVIOUS
  <2>4. /\ tk \subseteq t /\ t \subseteq tk \cup {c} /\ (w1.run[r].kind = "command" => c \in t) /\ c \notin tk /\ (c \in nd => c \in ap)
        /\ w1.run[r].kind # "none" /\ lt[r] = 0
    BY <1>3, <1>5, <1>7, <2>3 DEF A!Kinds
  <2>5. Sound(u, t, nd, ap, lt, ct) /\ Onward(w1, u, r) /\ A!Call(u, r) = A!Call(w1, r) /\ u.run[r].op = "sent" /\ u.run[r].kind = w1.run[r].kind /\ u.run[r].ask = w1.run[r].ask
    BY <1>8, <1>9, <2>2, <2>4, Dispatches
  <2>6. Taking(u, r, c, tk) = t BY <1>3, <1>5, <2>3, <2>5 DEF Taking
  <2>7. ~u.run[r].ask BY <1>3, <1>5, <2>1, <2>5
  <2>8. Goal BY <1>8, <2>5, <2>6, <2>7 DEF Asking
  <2> QED BY <2>8
<1>17. Goal BY <1>13, <1>14, <1>15, <1>16 DEF A!Kinds
<1>18. Onward(v, u, r) BY <1>5, <1>8, <1>17, OnwardFrom
<1> QED BY <1>7, <1>17, <1>18

\* A reply with a call.
LEMMA CalledIs ==
  ASSUME Limits, NEW tk, NEW nd, NEW ap, NEW lt, NEW ct, NEW z, NEW v, NEW r \in A!Runs, Replies(z, v, r, tk, nd, ap, lt, ct),
         A!Call(v, r) \notin nd, lt[r] = 0, v.run[r].op = "none", A!running(z, r), NEW k \in A!Kinds, NEW u, u = A!Called(z, r, k)
  PROVE  /\ Sound(u, Taking(u, r, A!Call(v, r), tk), Asking(u, r, A!Call(v, r), nd), ap, lt, ct) /\ Onward(v, u, r)
         /\ u.run[r].op = "sent" => A!Call(u, r) = A!Call(v, r)
<1>1. PICK s : s = A!Say(z, r, <<A!Msg("step", A!Call(z, r), "pending")>>) OBVIOUS
<1>2. /\ Pending(s, r, tk, nd, ap, lt, ct) /\ Kept(s, v, r) /\ s.changes = v.changes /\ s.run = v.run /\ A!live(s, r)
      /\ A!Call(s, r) = A!Call(v, r)
  BY <1>1, StepSaid
<1>3. s \in Windows /\ (~s.open => s.thread = <<>>) /\ z.run = v.run /\ v.run[r] \in Records BY <1>2, RepliesIs DEF Kept
<1>4. PICK n \in Nat : n = IF k = z.run[r].last /\ k \in {"read", "command"} THEN z.run[r].repeats + 1 ELSE 1 BY <1>3 DEF Records
<1>5. PICK x \in Records : x = s.run[r] BY <1>2, <1>3
<1>6. PICK y \in Records : y = [[x EXCEPT !.last = k] EXCEPT !.repeats = n] /\ Akin(y, x) /\ y.op = x.op
  <2>1. [[x EXCEPT !.last = k] EXCEPT !.repeats = n] \in Records BY DEF Records
  <2> QED BY <2>1 DEF Akin, Records
<1>7. PICK w1 : w1 = Put(s, r, y) OBVIOUS
<1>8. w1 = [s EXCEPT !.run[r].last = k, !.run[r].repeats = n]
  <2>1. [s EXCEPT !.run[r].last = k, !.run[r].repeats = n] = [s EXCEPT !.run[r] = [[@ EXCEPT !.last = k] EXCEPT !.repeats = n]]
    BY <1>3 DEF Windows
  <2> QED BY <1>5, <1>6, <1>7, <2>1 DEF Put
<1>9. Same(w1, s, r) /\ w1.changes = s.changes /\ w1.run[r] = y
  <2>1. Akin(y, s.run[r]) BY <1>5, <1>6
  <2> QED BY <1>3, <1>7, <2>1, SamePut
<1>10. Pending(w1, r, tk, nd, ap, lt, ct) BY <1>2, <1>9, PendingSame
<1>11. PICK c : c = A!Call(v, r) OBVIOUS
<1>12. A!Call(w1, r) = c /\ A!running(w1, r) /\ w1.run[r].op = "none"
  <2>1. A!running(s, r) BY <1>2, <1>3 DEF A!running
  <2> QED BY <1>2, <1>5, <1>6, <1>9, <1>11, <2>1 DEF A!Call, Same, A!running, A!live, Kept, Akin
<1>13. Kept(w1, v, r) /\ w1.changes = v.changes BY <1>2, <1>9 DEF Same, Kept
<1>14. PICK a : a = A!approvalFor(k, z.policy, z.allowed) OBVIOUS
<1>15. a \in {"auto", "ask", "refuse"} /\ (a = "ask" => k # "read") BY <1>14, PolicyIs
<1>16. u = IF n >= REPEAT_WARN THEN A!Settled(w1, r, "error", FALSE, n >= REPEAT_STOP) ELSE A!Prepare(w1, r, k, a)
  BY <1>1, <1>4, <1>8, <1>14 DEF A!Called
<1>17. CASE n >= REPEAT_WARN
  <2>1. u = A!Settled(w1, r, "error", FALSE, n >= REPEAT_STOP) BY <1>16, <1>17
  <2>2. Sound(u, tk, nd, ap, lt, ct) /\ Onward(w1, u, r) /\ Rests(u, r) BY <1>10, <2>1, SettledIs
  <2>3. Taking(u, r, c, tk) = tk /\ Asking(u, r, c, nd) = nd BY <2>2 DEF Rests, Taking, Asking
  <2> QED BY <1>11, <1>13, <2>2, <2>3, OnwardFrom DEF Rests
<1>18. CASE ~(n >= REPEAT_WARN)
  <2>1. u = A!Prepare(w1, r, k, a) BY <1>16, <1>18
  <2>2. c \notin tk /\ c \notin nd BY <1>11 DEF Replies
  <2>3. /\ Sound(u, Taking(u, r, c, tk), Asking(u, r, c, nd), ap, lt, ct) /\ Onward(w1, u, r)
        /\ u.run[r].op = "sent" => A!Call(u, r) = c
    BY <1>10, <1>12, <1>15, <2>1, <2>2, PrepareIs
  <2> QED BY <1>11, <1>13, <2>3, OnwardFrom
<1> QED BY <1>17, <1>18

\* Sent adds just that.
LEMMA TakenIs ==
  ASSUME Limits, NEW tk, NEW nd, NEW ap, NEW lt, NEW ct, NEW u, NEW r \in A!Runs, NEW c, Sound(u, Taking(u, r, c, tk), nd, ap, lt, ct),
         u.run[r].op = "sent" => A!Call(u, r) = c, c[1] = r
  PROVE  tk \cup {A!Call(u, q) : q \in {p \in A!Runs : u.run[p].op = "sent" /\ u.run[p].kind = "command" /\ A!Call(u, p) \notin tk}} = Taking(u, r, c, tk)
<1>1. ASSUME NEW q \in A!Runs \ {r}, u.run[q].op = "sent", u.run[q].kind = "command" PROVE A!Call(u, q) \in tk
  <2>1. A!Call(u, q) \in Taking(u, r, c, tk) BY <1>1 DEF Sound, Counted, A!Call
  <2>2. A!Call(u, q) # c BY DEF A!Call
  <2> QED BY <2>1, <2>2 DEF Taking
<1> QED BY <1>1 DEF Taking
-----------------------------------------------------------------------------
(* The steps of a run. *)

Untold(w, v, r, nd, lt) == A!Call(v, r) \notin nd /\ lt[r] = 0 /\ w.run[r].op = "none" /\ ~w.run[r].aborted

\* A reply of the model's finds nothing of its call ahead.
LEMMA RepliesFrom ==
  ASSUME Limits, NEW tk, NEW nd, NEW ap, NEW lt, NEW ct, NEW w, NEW r \in A!Runs, Sound(w, tk, nd, ap, lt, ct), w.run[r].at = "model",
         NEW z \in Windows, NEW v, v = Plainly(z, r), Loose(v, w, r)
  PROVE  Replies(z, v, r, tk, nd, ap, lt, ct) /\ Untold(w, v, r, nd, lt)
<1>1. w \in Windows /\ UnderWay(w.run[r]) BY DEF Sound, UnderWay, Going
<1>2. Fresh(v, r, tk, nd, ap, lt, ct) BY <1>1, Holds
<1>3. PICK x : x = w.run[r] OBVIOUS
<1>4. Placed(x, r, w.latest, w.active) /\ Counted(x, r, tk, nd, ap, lt[r]) /\ x.at = "model" BY <1>3 DEF Sound
<1>5. x.step \in 1..MAX_STEPS /\ A!Call(v, r) = <<r, x.step>>
  <2>1. x.step \in 0..MAX_STEPS /\ x.step # 0 /\ MAX_STEPS \in Nat BY <1>1, <1>3, <1>4, TokensOf DEF Placed, UnderWay, Going
  <2> QED BY <1>3, <2>1 DEF A!Call, Loose
<1>6. A!Call(v, r) \notin tk /\ A!Call(v, r) \notin nd BY <1>4, <1>5 DEF Counted, UnderWay, Going
<1>7. lt[r] = 0 /\ x.op = "none" /\ ~x.aborted BY <1>4 DEF Counted, Placed, UnderWay, Going
<1> QED BY <1>2, <1>3, <1>6, <1>7 DEF Replies, Untold

\* A run whose place is in the model's hands has no card up.
LEMMA BareLoose ==
  ASSUME Limits, NEW tk, NEW nd, NEW ap, NEW lt, NEW ct, NEW w, NEW r \in A!Runs, Sound(w, tk, nd, ap, lt, ct), w.run[r].at # "asking",
         NEW v, v = Plainly(w, r)
  PROVE  Loose(v, w, r) /\ v.changes = w.changes /\ w \in Windows
<1>1. w \in Windows /\ w.approval # r BY DEF Sound, Heads, A!Runs
<1>2. v \in Windows /\ Beside(v, w) /\ v.thread = w.thread /\ v.shown = w.shown /\ v.overlay = (IF w.overlay = r THEN 0 ELSE w.overlay)
  BY <1>1, BareIs
<1> QED BY <1>1, <1>2 DEF Loose, Beside

\* What a loosened window is onward of.
LEMMA OnwardLoose ==
  ASSUME NEW v, NEW w, NEW r \in A!Runs, Loose(v, w, r), v.changes = w.changes, NEW u, Onward(v, u, r)
  PROVE  Onward(w, u, r)
BY DEF Loose, Onward

\* The model's answer keeps the window whole, and nobody else's edit comes of it.
LEMMA ReplyIs ==
  ASSUME Limits, Whole, NEW r \in A!Runs, A!Reply(r)
  PROVE  Whole' /\ Onward(window, window', r)
<1>1. Sound(window, took, needed, approved, late, cut) /\ window.run[r].at = "model" BY DEF Whole, A!Reply
<1>2. PICK v : v = Plainly(window, r) OBVIOUS
<1>3. Loose(v, window, r) /\ v.changes = window.changes /\ window \in Windows BY <1>1, <1>2, BareLoose
<1>4. Replies(window, v, r, took, needed, approved, late, cut) /\ Untold(window, v, r, needed, late)
  BY <1>1, <1>2, <1>3, RepliesFrom
<1>5. A!live(window, r) /\ window.run = v.run /\ A!Call(window, r) = A!Call(v, r) BY <1>4, RepliesIs
<1>6. PICK c : c = A!Call(window, r) /\ c[1] = r
  <2>1. A!Call(window, r)[1] = r BY DEF A!Call
  <2> QED BY <2>1
<1>7. PICK u : u = window' OBVIOUS
<1>8. approved' = approved /\ late' = late /\ cut' = cut BY DEF A!Reply
<1>9. took' = took \cup {A!Call(u, q) : q \in {p \in A!Runs : u.run[p].op = "sent" /\ u.run[p].kind = "command" /\ A!Call(u, p) \notin took}}
  BY <1>7 DEF A!Reply, A!Sent
<1>10. \/ u \in {A!Ends(window, r, "none"), A!Ends(window, r, "error"), A!Empty(window, r), A!CutOff(window, r)} /\ needed' = needed
       \/ \E k \in A!Kinds : u = A!Called(window, r, k) /\ needed' = Asking(u, r, c, needed)
  BY <1>6, <1>7 DEF A!Reply, Asking
<1>11. CASE u \in {A!Ends(window, r, "none"), A!Ends(window, r, "error"), A!Empty(window, r), A!CutOff(window, r)} /\ needed' = needed
  <2>1. Sound(u, took, needed, approved, late, cut) /\ Onward(v, u, r) /\ Rests(u, r) BY <1>4, <1>11, EndsIs, EmptyIs, CutOffIs
  <2>2. Taking(u, r, c, took) = took BY <2>1 DEF Rests, Taking
  <2>3. u.run[r].op # "sent" BY <2>1 DEF Rests
  <2>4. took' = took BY <1>6, <1>9, <2>1, <2>2, <2>3, TakenIs
  <2>5. Onward(window, u, r) BY <1>3, <2>1, OnwardLoose
  <2> QED BY <1>7, <1>8, <1>11, <2>1, <2>4, <2>5 DEF Whole
<1>12. ASSUME NEW k \in A!Kinds, u = A!Called(window, r, k), needed' = Asking(u, r, c, needed) PROVE Whole' /\ Onward(window, window', r)
  <2>1. A!running(window, r) /\ late[r] = 0 BY <1>4, <1>5 DEF A!running, Untold
  <2>2. A!Call(v, r) \notin needed /\ v.run[r].op = "none" BY <1>4, <1>5 DEF Untold
  <2>3. Sound(u, Taking(u, r, c, took), Asking(u, r, c, needed), approved, late, cut) /\ Onward(v, u, r) /\ (u.run[r].op = "sent" => A!Call(u, r) = c)
    BY <1>4, <1>5, <1>6, <1>12, <2>1, <2>2, CalledIs
  <2>4. took' = Taking(u, r, c, took)
    <3>1. took \cup {A!Call(u, q) : q \in {p \in A!Runs : u.run[p].op = "sent" /\ u.run[p].kind = "command" /\ A!Call(u, p) \notin took}}
            = Taking(u, r, c, took)
      <4>1. PICK n : n = Asking(u, r, c, needed) OBVIOUS
      <4>2. PICK t : t = took OBVIOUS
      <4>3. Sound(u, Taking(u, r, c, t), n, approved, late, cut) BY <2>3, <4>1, <4>2
      <4>4. c[1] = r /\ (u.run[r].op = "sent" => A!Call(u, r) = c) BY <1>6, <2>3
      <4>5. t \cup {A!Call(u, q) : q \in {p \in A!Runs : u.run[p].op = "sent" /\ u.run[p].kind = "command" /\ A!Call(u, p) \notin t}} = Taking(u, r, c, t)
        BY <4>3, <4>4, TakenIs
      <4> QED BY <4>2, <4>5
    <3> QED BY <1>9, <3>1
  <2>5. Onward(window, u, r) BY <1>3, <2>3, OnwardLoose
  <2> QED BY <1>7, <1>8, <1>12, <2>3, <2>4, <2>5 DEF Whole
<1> QED BY <1>10, <1>11, <1>12

\* The thread may be cut.
LEMMA SaidCut ==
  ASSUME NEW th, NEW i, NEW x, NEW t, NEW tk, NEW ct, NEW ct2, ct => ct2, Said(th, i, x, t, tk, ct)
  PROVE  Said(th, i, x, t, tk, ct2)
BY DEF Said

\* A thread that was cut promises less.
LEMMA SoundCut ==
  ASSUME NEW tk, NEW nd, NEW ap, NEW lt, NEW ct, NEW ct2, ct => ct2, NEW w, Sound(w, tk, nd, ap, lt, ct)
  PROVE  Sound(w, tk, nd, ap, lt, ct2)
<1>1. ASSUME NEW i \in 1..Len(w.thread), IsCall(w.thread[i]) PROVE Said(w.thread, i, w.run[w.thread[i].id[1]], w.latest, tk, ct2)
  <2>1. Said(w.thread, i, w.run[w.thread[i].id[1]], w.latest, tk, ct) BY <1>1 DEF Sound
  <2> QED BY <2>1, SaidCut
<1> QED BY <1>1 DEF Sound

\* The file was read.
LEMMA PreparedIs ==
  ASSUME Limits, Whole, project \in A!Texts, NEW r \in A!Runs, A!Prepared(r)
  PROVE  Whole' /\ Onward(window, window', r)
<1>1. Sound(window, took, needed, approved, late, cut) /\ window \in Windows /\ window.run[r].at = "preparing" BY DEF Whole, A!Prepared, Sound, Windows
<1>2. PICK x \in Records : x = window.run[r] BY <1>1, PutSame
<1>3. PICK y \in Records : y = [x EXCEPT !.saw = project.agent] /\ Akin(y, x) /\ y.op = x.op /\ y.kind = x.kind /\ y.ask = x.ask
  <2>1. project.agent \in {A!NoCall} \cup A!Calls
    <3>1. CASE project = A!Missing BY <3>1, IdleIs
    <3>2. CASE project \in [there: {TRUE}, agent: {A!NoCall} \cup A!Calls, other: Nat] BY <3>2
    <3> QED BY <3>1, <3>2 DEF A!Texts
  <2>2. [x EXCEPT !.saw = project.agent] \in Records BY <2>1 DEF Records
  <2> QED BY <2>2 DEF Akin, Records
<1>4. PICK w : w = Put(window, r, y) OBVIOUS
<1>5. w = [window EXCEPT !.run[r].saw = project.agent] BY <1>2, <1>3, <1>4 DEF Put
<1>6. Same(w, window, r) /\ w.changes = window.changes /\ w.run[r] = y
  <2>1. ~window.open => window.thread = <<>> BY <1>1 DEF Sound, Heads
  <2>2. Akin(y, window.run[r]) BY <1>2, <1>3
  <2> QED BY <1>1, <1>4, <2>1, <2>2, SamePut
<1>7. window.approval # r /\ window.overlay # r BY <1>1 DEF Sound, Heads, A!Runs
<1>8. Loose(w, window, r) BY <1>1, <1>2, <1>6, <1>7 DEF Loose, Same, Kept
<1>9. Pending(w, r, took, needed, approved, late, cut)
  <2>1. UnderWay(window.run[r]) BY <1>1 DEF UnderWay, Going
  <2> QED BY <1>1, <1>8, <2>1, Holds
<1>10. Placed(x, r, window.latest, window.active) /\ Counted(x, r, took, needed, approved, late[r]) /\ x.at = "preparing" BY <1>1, <1>2 DEF Sound
<1>11. Ahead(w, r, took, needed, late) /\ x.kind \in {"edit", "write"}
  <2>1. x.step \in 1..MAX_STEPS /\ A!Call(w, r) = <<r, x.step>>
    <3>1. x.step \in 0..MAX_STEPS /\ x.step # 0 /\ MAX_STEPS \in Nat BY <1>1, <1>2, <1>10, TokensOf DEF Placed, UnderWay, Going
    <3> QED BY <1>2, <1>3, <1>6, <3>1 DEF A!Call, Akin
  <2>2. A!Call(w, r) \notin took /\ (A!Call(w, r) \in needed => x.ask) BY <1>10, <2>1 DEF Counted, UnderWay, Going
  <2>3. late[r] = 0 /\ x.op = "none" /\ x.kind \in {"edit", "write"} BY <1>10 DEF Counted, Placed, UnderWay, Going
  <2> QED BY <1>2, <1>3, <1>6, <2>2, <2>3 DEF Ahead
<1>12. PICK u : u = window' OBVIOUS
<1>13. took' = took /\ needed' = needed /\ approved' = approved /\ late' = late /\ cut' = cut BY DEF A!Prepared, A!Quiet
<1>14. u = A!Settled(w, r, "error", FALSE, FALSE) \/ (w.run[r].ask /\ u = A!Ask(w, r)) \/ (~w.run[r].ask /\ u = A!Dispatch(w, r))
  BY <1>5, <1>12 DEF A!Prepared
<1>15. Sound(u, took, needed, approved, late, cut) /\ Onward(w, u, r)
  <2>1. CASE u = A!Settled(w, r, "error", FALSE, FALSE) BY <1>9, <2>1, SettledIs
  <2>2. CASE w.run[r].ask /\ u = A!Ask(w, r)
    <3>1. w.run[r].kind # "read" BY <1>3, <1>6, <1>11
    <3> QED BY <1>9, <1>11, <2>2, <3>1, Asks
  <2>3. CASE ~w.run[r].ask /\ u = A!Dispatch(w, r)
    <3>1. /\ w.run[r].kind # "command" /\ A!Call(w, r) \notin took /\ A!Call(w, r) \notin needed
          /\ w.run[r].kind # "none" /\ late[r] = 0 /\ took \subseteq took \cup {A!Call(w, r)} /\ took \subseteq took
      BY <1>3, <1>6, <1>11, <2>3 DEF Ahead
    <3> QED BY <1>9, <2>3, <3>1, Dispatches
  <2> QED BY <1>14, <2>1, <2>2, <2>3
<1>16. Onward(window, u, r) BY <1>6, <1>8, <1>15, OnwardLoose
<1> QED BY <1>12, <1>13, <1>15, <1>16 DEF Whole

\* A run neither waits for an answer nor has one to come.
Idles(v, r) == v.run[r].op = "none" /\ v.run[r].at \notin A!Waiting

\* A run that is not under way is told of another: nothing else minds.
Shift(w, r, p) == [w EXCEPT !.run[r].at = p]
Shifted(u, w, r, p) ==
  /\ u.run[r].at = p /\ u.run[r].op = "none" /\ u.thread = w.thread /\ u.latest = w.latest /\ u.active = w.active /\ u.approval = w.approval
  /\ u.card = w.card /\ u.shown = w.shown /\ u.overlay = w.overlay

\* A run that has not begun is opening, or is over before it began.
LEMMA Shifts ==
  ASSUME Limits, NEW tk, NEW nd, NEW ap, NEW lt, NEW ct, NEW w, NEW r \in A!Runs, Sound(w, tk, nd, ap, lt, ct), w.run[r].at \in {"off", "opening"},
         NEW p \in {"opening", "over"}, NEW u, u = Shift(w, r, p)
  PROVE  Sound(u, tk, nd, ap, lt, ct) /\ Onward(w, u, r) /\ Shifted(u, w, r, p)
<1>1. w \in Windows /\ r # 0 BY DEF Sound, A!Runs
<1>2. PICK x \in Records : x = w.run[r] BY <1>1, PutSame
<1>3. PICK y \in Records : y = [x EXCEPT !.at = p] /\ Akin(y, x) /\ y.op = x.op /\ y.at = p /\ y.kind = x.kind
  <2>1. [x EXCEPT !.at = p] \in Records BY DEF Records, Places
  <2> QED BY <2>1 DEF Akin, Records
<1>4. u = Put(w, r, y) BY <1>2, <1>3 DEF Put, Shift
<1>5. /\ u \in Windows /\ u.run[r] = y /\ \A q \in A!Runs \ {r} : u.run[q] = w.run[q]
      /\ u.open = w.open /\ u.thread = w.thread /\ u.changes = w.changes
      /\ u.latest = w.latest /\ u.active = w.active /\ u.approval = w.approval
      /\ u.card = w.card /\ u.shown = w.shown /\ u.overlay = w.overlay
  <2>1. PICK z : z = Put(w, r, y) OBVIOUS
  <2>2. /\ z \in Windows /\ z.run[r] = y /\ \A q \in A!Runs \ {r} : z.run[q] = w.run[q]
        /\ z.open = w.open /\ z.thread = w.thread /\ z.changes = w.changes
        /\ z.latest = w.latest /\ z.active = w.active /\ z.approval = w.approval
        /\ z.card = w.card /\ z.shown = w.shown /\ z.overlay = w.overlay
    BY <1>1, <2>1, PutIs
  <2> QED BY <1>4, <2>1, <2>2
<1>6. Placed(x, r, w.latest, w.active) /\ Counted(x, r, tk, nd, ap, lt[r]) /\ x.at \in {"off", "opening"} BY <1>2 DEF Sound
<1>7. x.token = 0 /\ ~x.aborted /\ x.op = "none" /\ ~x.quiet BY <1>6 DEF Placed
<1>8. Placed(y, r, w.latest, w.active)
  <2>1. w.latest \in Nat BY <1>1, TokensOf
  <2> QED BY <1>3, <1>7, <2>1 DEF Placed, Akin, UnderWay, Going
<1>9. Counted(y, r, tk, nd, ap, lt[r]) BY <1>3, <1>6, <1>7 DEF Counted, Akin, UnderWay, Going
<1>10. Heads(u)
  <2>1. w.active \in Holder /\ w.approval \in Holder /\ w.overlay \in Holder BY <1>1, TokensOf
  <2>2. w.active # r /\ w.approval # r /\ w.overlay # r BY <1>1, <1>2, <1>6 DEF Sound, Heads, UnderWay, Going
  <2>3. \A q \in A!Runs : u.run[q].token = w.run[q].token BY <1>2, <1>3, <1>5 DEF Akin
  <2>4. \A q \in Holder \ {0, r} : u.run[q] = w.run[q] BY <1>5 DEF Holder
  <2>5. y.at # "asking" BY <1>3
  <2>6. Heads(w) BY DEF Sound
  <2>7. u.active # 0 => UnderWay(u.run[u.active]) BY <1>5, <2>1, <2>2, <2>4, <2>6 DEF Heads
  <2>8. /\ u.approval # 0 => u.run[u.approval].at = "asking" /\ u.card = A!Call(u, u.approval)
        /\ u.approval = 0 => u.card = A!NoCall
    BY <1>5, <2>1, <2>2, <2>4, <2>6 DEF Heads, A!Call
  <2>9. \A q \in A!Runs : u.run[q].at = "asking" => u.approval = q /\ u.shown = "awaiting" BY <1>5, <2>5, <2>6 DEF Heads
  <2>10. u.overlay # 0 => u.run[u.overlay].at = "model" BY <1>5, <2>1, <2>2, <2>4, <2>6 DEF Heads
  <2>11. /\ \A a, q \in A!Runs : u.run[a].token = u.run[q].token /\ u.run[a].token # 0 => a = q
         /\ \A n \in 1..u.latest : \E q \in A!Runs : u.run[q].token = n
         /\ ~u.open => u.thread = <<>>
    BY <1>5, <2>3, <2>6 DEF Heads
  <2> QED BY <2>7, <2>8, <2>9, <2>10, <2>11 DEF Heads
<1>11. ASSUME NEW i \in 1..Len(u.thread), IsCall(u.thread[i])
       PROVE  Said(u.thread, i, u.run[u.thread[i].id[1]], u.latest, tk, ct)
  <2>1. Said(w.thread, i, w.run[w.thread[i].id[1]], w.latest, tk, ct) BY <1>5, <1>11 DEF Sound
  <2>2. u.thread[i].id[1] # r BY <1>2, <1>5, <1>6, <2>1 DEF Said
  <2>3. u.thread[i].id[1] \in A!Runs BY <1>5, <1>11, MessagesOf
  <2> QED BY <1>5, <2>1, <2>2, <2>3
<1>12. \A q \in A!Runs : Placed(u.run[q], q, u.latest, u.active) /\ Counted(u.run[q], q, tk, nd, ap, lt[q]) BY <1>5, <1>8, <1>9 DEF Sound
<1>13. Sound(u, tk, nd, ap, lt, ct) BY <1>5, <1>10, <1>11, <1>12 DEF Sound
<1>14. Onward(w, u, r) BY <1>3, <1>5, <1>7 DEF Onward
<1>15. Shifted(u, w, r, p) BY <1>3, <1>5, <1>7 DEF Shifted
<1> QED BY <1>13, <1>14, <1>15

\* The folder cannot be opened.
LEMMA OpenFailedIs ==
  ASSUME Limits, Whole, NEW r \in A!Runs, A!OpenFailed(r)
  PROVE  Whole' /\ Onward(window, window', r) /\ Idles(window', r) /\ ~Made(window.run[r])
<1>1. Sound(window, took, needed, approved, late, cut) /\ window.run[r].at = "opening" BY DEF Whole, A!OpenFailed
<1>2. PICK p \in {"opening", "over"} : p = "over" OBVIOUS
<1>3. PICK u : u = window' /\ u = Shift(window, r, p) BY <1>2 DEF A!OpenFailed, Shift
<1>4. Sound(u, took, needed, approved, late, cut) /\ Onward(window, u, r) /\ Shifted(u, window, r, p) BY <1>1, <1>3, Shifts
<1>5. Idles(u, r) BY <1>4 DEF Shifted, Idles, A!Waiting
<1>6. ~Made(window.run[r])
  <2>1. Placed(window.run[r], r, window.latest, window.active) BY <1>1 DEF Sound
  <2> QED BY <1>1, <2>1 DEF Placed, Made
<1> QED BY <1>3, <1>4, <1>5, <1>6 DEF Whole, A!OpenFailed, A!Quiet

\* What a window is closed with is settled, and the person's message said.
Closing(th) == [i \in DOMAIN th |-> IF th[i].st \in A!Unsettled THEN [th[i] EXCEPT !.st = "error"] ELSE th[i]]

ClosedWith(nt, th, m) ==
  /\ nt \in Seq(Msgs) /\ Len(nt) = Len(th) + 1 /\ Len(th) \in Nat
  /\ \A i \in 1..Len(th) : /\ nt[i].k = th[i].k /\ nt[i].id = th[i].id /\ nt[i].st \notin A!Unsettled
                           /\ th[i].st \notin A!Unsettled => nt[i].st = th[i].st
                           /\ th[i].st \in A!Unsettled => nt[i].st = "error"
                           /\ Replied(th, i) => Replied(nt, i)
  /\ nt[Len(th) + 1] = m

\* A thread whose open calls are closed, and a message after it.
LEMMA ClosingIs ==
  ASSUME NEW th \in Seq(Msgs), NEW m \in Msgs, NEW nt, nt = Append(Closing(th), m)
  PROVE  ClosedWith(nt, th, m)
<1>1. DOMAIN th = 1..Len(th) /\ Len(th) \in Nat /\ \A i \in 1..Len(th) : th[i] \in Msgs BY ElementOfSeq
<1>2. \A x \in Msgs : [x EXCEPT !.st = "error"] \in Msgs /\ [x EXCEPT !.st = "error"].k = x.k /\ [x EXCEPT !.st = "error"].id = x.id /\ [x EXCEPT !.st = "error"].st = "error"
  BY DEF Msgs, Statuses
<1>3. PICK ct : ct = Closing(th) OBVIOUS
<1>4. ct \in [1..Len(th) -> Msgs] BY <1>1, <1>2, <1>3 DEF Closing
<1>5. ct \in Seq(Msgs) /\ Len(ct) = Len(th) BY <1>1, <1>4
<1>6. \A i \in 1..Len(th) : /\ ct[i].k = th[i].k /\ ct[i].id = th[i].id /\ ct[i].st \notin A!Unsettled
                            /\ th[i].st \notin A!Unsettled => ct[i].st = th[i].st
                            /\ th[i].st \in A!Unsettled => ct[i].st = "error"
  BY <1>1, <1>2, <1>3 DEF Closing, A!Unsettled
<1>7. nt \in Seq(Msgs) /\ Len(nt) = Len(th) + 1 /\ (\A i \in 1..Len(th) : nt[i] = ct[i]) /\ nt[Len(th) + 1] = m
  BY <1>1, <1>3, <1>5, AppendProperties
<1>8. ASSUME NEW i \in 1..Len(th), Replied(th, i) PROVE Replied(nt, i)
  <2>1. PICK j \in (i + 1)..Len(th) : th[j].k = "results" /\ th[j].id = th[i].id /\ \A k \in (i + 1)..(j - 1) : th[k].k = "note"
    BY <1>8 DEF Replied
  <2>2. j \in (i + 1)..Len(nt) /\ j \in 1..Len(th) /\ \A k \in (i + 1)..(j - 1) : k \in 1..Len(th) BY <1>1, <1>7, <2>1
  <2>3. nt[j].k = "results" /\ nt[j].id = nt[i].id /\ \A k \in (i + 1)..(j - 1) : nt[k].k = "note" BY <1>6, <1>7, <2>1, <2>2
  <2> QED BY <2>2, <2>3 DEF Replied
<1> QED BY <1>1, <1>6, <1>7, <1>8 DEF ClosedWith

\* A run whose folder is open: what ran gave way to it.
Started(w, r, t, th) == [w EXCEPT !.latest = t, !.active = r, !.card = A!NoCall, !.shown = "running", !.run[r].token = t, !.thread = th]

Numbered(x, t) == [x EXCEPT !.token = t]

Starting(u, w, r, t, th) ==
  /\ u \in Windows /\ u.run[r] = Numbered(w.run[r], t) /\ \A q \in A!Runs \ {r} : u.run[q] = w.run[q]
  /\ u.open = w.open /\ u.thread = th /\ u.changes = w.changes /\ u.latest = t /\ u.active = r
  /\ u.approval = w.approval /\ u.card = A!NoCall /\ u.shown = "running" /\ u.overlay = w.overlay

Showing(u, v, th) ==
  /\ u \in Windows /\ u.run = v.run /\ u.open = v.open /\ u.thread = th /\ u.changes = v.changes /\ u.latest = v.latest
  /\ u.active = v.active /\ u.approval = v.approval /\ u.card = v.card /\ u.shown = "running" /\ u.overlay = v.overlay

\* A window that shows a run, and another thread.
LEMMA ShowsRunning ==
  ASSUME NEW v \in Windows, NEW th \in Seq(Msgs), NEW u, u = [v EXCEPT !.shown = "running", !.thread = th]
  PROVE  Showing(u, v, th)
BY DEF Showing, Windows

\* What it is for a run to begin.
LEMMA StartedIs ==
  ASSUME NEW w \in Windows, NEW r \in A!Runs, NEW t \in Nat, NEW th \in Seq(Msgs), NEW u, u = Started(w, r, t, th)
  PROVE  Starting(u, w, r, t, th)
<1>1. PICK x \in Records : x = w.run[r] BY PutSame
<1>2. PICK y \in Records : y = Numbered(x, t) BY DEF Numbered, Records
<1>3. PICK p : p = Put(w, r, y) OBVIOUS
<1>4. /\ p \in Windows /\ p.run[r] = y /\ \A q \in A!Runs \ {r} : p.run[q] = w.run[q]
      /\ p.open = w.open /\ p.thread = w.thread /\ p.changes = w.changes
      /\ p.approval = w.approval /\ p.overlay = w.overlay
  BY <1>3, PutIs
<1>5. u = [p EXCEPT !.latest = t, !.active = r, !.card = A!NoCall, !.shown = "running", !.thread = th]
  BY <1>1, <1>2, <1>3 DEF Started, Put, Windows, Numbered
<1>6. r \in Holder BY DEF Holder
<1>7. /\ u \in Windows /\ u.run = p.run /\ u.open = p.open /\ u.thread = th /\ u.changes = p.changes /\ u.latest = t /\ u.active = r
      /\ u.approval = p.approval /\ u.card = A!NoCall /\ u.shown = "running" /\ u.overlay = p.overlay
  <2>1. PICK v : v = [p EXCEPT !.latest = t, !.active = r, !.card = A!NoCall] OBVIOUS
  <2>2. /\ v \in Windows /\ v.run = p.run /\ v.open = p.open /\ v.changes = p.changes /\ v.latest = t /\ v.active = r
        /\ v.approval = p.approval /\ v.card = A!NoCall /\ v.overlay = p.overlay
    BY <1>4, <1>6, <2>1 DEF Windows
  <2>3. u = [v EXCEPT !.shown = "running", !.thread = th] BY <1>4, <1>5, <2>1 DEF Windows
  <2>4. Showing(u, v, th) BY <2>2, <2>3, ShowsRunning
  <2> QED BY <2>2, <2>4 DEF Showing
<1> QED BY <1>1, <1>2, <1>4, <1>7 DEF Starting

\* What waited gave way: nothing is asked, nothing streams.
LEMMA FreeIs ==
  ASSUME Limits, NEW tk, NEW nd, NEW ap, NEW lt, NEW ct, NEW w, Sound(w, tk, nd, ap, lt, ct), A!StillFree(w)
  PROVE  /\ w.approval = 0 /\ w.overlay = 0 /\ w.card = A!NoCall /\ w \in Windows /\ w.latest \in Nat
         /\ \A q \in A!Runs : w.run[q].token \in Nat /\ w.run[q].token <= w.latest /\ w.run[q].at # "asking" /\ (UnderWay(w.run[q]) => w.run[q].aborted)
<1>1. w \in Windows BY DEF Sound
<1>2. w.latest \in Nat /\ w.active \in Holder /\ w.approval \in Holder /\ w.overlay \in Holder BY <1>1 DEF Windows
<1>3. ASSUME NEW q \in A!Runs
      PROVE  w.run[q].token \in Nat /\ w.run[q].token <= w.latest /\ (UnderWay(w.run[q]) => w.run[q].aborted) /\ w.run[q].at \notin {"asking", "model"}
  <2>1. w.run[q].token \in Nat /\ q # 0 BY <1>1, TokensOf
  <2>2. Placed(w.run[q], q, w.latest, w.active) BY DEF Sound
  <2>3. UnderWay(w.run[q]) => w.run[q].aborted BY <2>1, <2>2 DEF Placed, A!StillFree
  <2>4. w.run[q].at \in {"asking", "model"} => UnderWay(w.run[q]) BY DEF UnderWay, Going
  <2> QED BY <2>1, <2>2, <2>3, <2>4 DEF Placed
<1>4. w.approval = 0 /\ w.overlay = 0 BY <1>2, <1>3 DEF Sound, Heads, Holder
<1> QED BY <1>1, <1>2, <1>3, <1>4 DEF Sound, Heads

TookOver(u, w, r) == u.changes = w.changes /\ u.open = w.open /\ u.active = r /\ \A q \in A!Runs \ {r} : u.run[q] = w.run[q]

\* A run begins where none is under way but a stopped one, with the newest token, between two steps.
LEMMA OpensBetween ==
  ASSUME Limits, NEW tk, NEW nd, NEW ap, NEW lt, NEW ct, NEW w, NEW r \in A!Runs, Sound(w, tk, nd, ap, lt, ct), A!StillFree(w),
         w.run[r].at = "opening", NEW m \in Msgs, m.k = "user",
         NEW th, th = IF w.open THEN Append(Closing(w.thread), m) ELSE w.thread, NEW u, u = Started(w, r, w.latest + 1, th)
  PROVE  Between(u, r, tk, nd, ap, lt, ct) /\ TookOver(u, w, r)
<1>1. /\ w.approval = 0 /\ w.overlay = 0 /\ w.card = A!NoCall /\ w \in Windows /\ w.latest \in Nat
      /\ \A q \in A!Runs : w.run[q].token \in Nat /\ w.run[q].token <= w.latest /\ w.run[q].at # "asking" /\ (UnderWay(w.run[q]) => w.run[q].aborted)
  BY FreeIs
<1>2. PICK t \in Nat : t = w.latest + 1 /\ t # 0 /\ w.latest < t /\ (\A q \in A!Runs : w.run[q].token < t)
  <2>1. PICK t \in Nat : t = w.latest + 1 BY <1>1
  <2>2. t # 0 /\ w.latest < t BY <1>1, <2>1
  <2>3. \A q \in A!Runs : w.run[q].token < t BY <1>1, <2>1
  <2> QED BY <2>1, <2>2, <2>3
<1>3. w.thread \in Seq(Msgs) /\ r # 0 /\ (~w.open => w.thread = <<>>) BY <1>1 DEF Windows, A!Runs, Sound, Heads
<1>4. PICK nt : nt = Append(Closing(w.thread), m) OBVIOUS
<1>5. /\ nt \in Seq(Msgs) /\ Len(nt) = Len(w.thread) + 1 /\ Len(w.thread) \in Nat
      /\ \A i \in 1..Len(w.thread) : /\ nt[i].k = w.thread[i].k /\ nt[i].id = w.thread[i].id /\ nt[i].st \notin A!Unsettled
                                     /\ w.thread[i].st \notin A!Unsettled => nt[i].st = w.thread[i].st
                                     /\ w.thread[i].st \in A!Unsettled => nt[i].st = "error"
                                     /\ Replied(w.thread, i) => Replied(nt, i)
      /\ nt[Len(w.thread) + 1] = m
  <2>1. ClosedWith(nt, w.thread, m) BY <1>3, <1>4, ClosingIs
  <2> QED BY <2>1 DEF ClosedWith
<1>6. th \in Seq(Msgs) BY <1>3, <1>4, <1>5
<1>7. /\ u \in Windows /\ u.run[r] = Numbered(w.run[r], t) /\ \A q \in A!Runs \ {r} : u.run[q] = w.run[q]
      /\ u.open = w.open /\ u.thread = th /\ u.changes = w.changes /\ u.latest = t /\ u.active = r
      /\ u.approval = w.approval /\ u.card = A!NoCall /\ u.shown = "running" /\ u.overlay = w.overlay
  <2>1. u = Started(w, r, t, th) BY <1>2
  <2>2. Starting(u, w, r, t, th) BY <1>1, <1>6, <2>1, StartedIs
  <2> QED BY <2>2 DEF Starting
<1>8. PICK x \in Records : x = w.run[r] BY <1>1, PutSame
<1>9. u.run[r].token = t /\ u.run[r].step = x.step /\ u.run[r].aborted = x.aborted BY <1>7, <1>8 DEF Numbered, Records
<1>10. Placed(x, r, w.latest, w.active) /\ Counted(x, r, tk, nd, ap, lt[r]) /\ x.at = "opening" BY <1>8 DEF Sound
<1>11. x.token = 0 /\ ~x.aborted BY <1>10 DEF Placed
<1>12. ASSUME NEW q \in A!Runs \ {r} PROVE Placed(u.run[q], q, u.latest, u.active) /\ Counted(u.run[q], q, tk, nd, ap, lt[q])
  <2>1. Placed(w.run[q], q, w.latest, w.active) /\ Counted(w.run[q], q, tk, nd, ap, lt[q]) BY DEF Sound
  <2>2. w.run[q].token < t /\ w.run[q].token <= t BY <1>1, <1>2
  <2>3. UnderWay(w.run[q]) => w.run[q].aborted BY <1>1
  <2>4. PICK y : y = w.run[q] /\ y = u.run[q] BY <1>7
  <2>5. Placed(y, q, t, r)
    <3>1. Placed(y, q, w.latest, w.active) /\ y.token < t /\ y.token <= t /\ q # r /\ (UnderWay(y) => y.aborted) BY <2>1, <2>2, <2>3, <2>4
    <3> QED BY <3>1 DEF Placed
  <2> QED BY <1>7, <2>1, <2>4, <2>5
<1>13. \A p, q \in A!Runs : u.run[p].token = u.run[q].token /\ u.run[p].token # 0 => p = q
  <2>1. \A q \in A!Runs \ {r} : u.run[q].token = w.run[q].token /\ u.run[q].token # t BY <1>2, <1>7
  <2>2. \A p, q \in A!Runs : w.run[p].token = w.run[q].token /\ w.run[p].token # 0 => p = q BY DEF Sound, Heads
  <2>3. ASSUME NEW p \in A!Runs, NEW q \in A!Runs, u.run[p].token = u.run[q].token, u.run[p].token # 0 PROVE p = q
    <3>1. CASE p = r /\ q # r BY <1>9, <2>1, <2>3, <3>1
    <3>2. CASE p # r /\ q = r BY <1>9, <2>1, <2>3, <3>2
    <3>3. CASE p # r /\ q # r BY <2>1, <2>2, <2>3, <3>3
    <3> QED BY <3>1, <3>2, <3>3
  <2> QED BY <2>3
<1>14. ASSUME NEW n \in 1..u.latest PROVE \E q \in A!Runs : u.run[q].token = n
  <2>1. CASE n = t BY <1>9, <2>1
  <2>2. CASE n # t
    <3>1. n \in 1..w.latest BY <1>1, <1>2, <1>7, <2>2
    <3>2. PICK q \in A!Runs : w.run[q].token = n BY <3>1 DEF Sound, Heads
    <3>3. q # r BY <1>8, <1>11, <3>1, <3>2
    <3> QED BY <1>7, <3>2, <3>3
  <2> QED BY <2>1, <2>2
<1>15. ASSUME NEW i \in 1..Len(th), IsCall(th[i])
       PROVE  /\ w.open /\ i \in 1..Len(w.thread) /\ nt[i] = th[i] /\ IsCall(w.thread[i])
              /\ Said(w.thread, i, w.run[w.thread[i].id[1]], w.latest, tk, ct) /\ w.thread[i].id[1] \in A!Runs
  <2>1. CASE ~w.open
    <3>1. Len(th) = 0 BY <1>3, <2>1
    <3> QED BY <3>1
  <2>2. CASE w.open
    <3>1. th = nt BY <1>4, <2>2
    <3>2. ~IsCall(m) BY DEF IsCall
    <3>3. i \in 1..Len(w.thread) BY <1>5, <1>15, <3>1, <3>2
    <3>4. IsCall(w.thread[i]) BY <1>5, <1>15, <3>1, <3>3 DEF IsCall
    <3> QED BY <1>1, <2>2, <3>1, <3>3, <3>4, MessagesOf DEF Sound
  <2> QED BY <2>1, <2>2
<1>16. ASSUME NEW i \in 1..Len(th), IsCall(th[i])
       PROVE  th[i].id[1] # r /\ Said(th, i, u.run[th[i].id[1]], t, tk, ct)
  <2>1. /\ w.open /\ i \in 1..Len(w.thread) /\ IsCall(w.thread[i]) /\ w.thread[i].id[1] \in A!Runs
        /\ Said(w.thread, i, w.run[w.thread[i].id[1]], w.latest, tk, ct)
    BY <1>15, <1>16
  <2>2. th = nt BY <1>4, <2>1
  <2>3. PICK q \in A!Runs : q = w.thread[i].id[1] BY <2>1
  <2>4. q # r BY <1>8, <1>10, <2>1, <2>3 DEF Said
  <2>5. PICK y : y = w.run[q] /\ y = u.run[q] /\ y.token # t BY <1>2, <1>7, <2>4
  <2>6. Said(w.thread, i, y, w.latest, tk, ct) BY <2>1, <2>3, <2>5
  <2>7. ~GaveWay(y, t) => y.at = "over" /\ ~GaveWay(y, w.latest) BY <2>5 DEF GaveWay
  <2>8. y.at = "over" => y.at \notin A!Waiting BY DEF A!Waiting
  <2>9. Said(nt, i, y, t, tk, ct)
    <3>1. PICK a : a = w.thread[i] OBVIOUS
    <3>2. PICK b : b = nt[i] OBVIOUS
    <3>3. /\ b.k = a.k /\ b.id = a.id /\ b.st \notin A!Unsettled /\ (a.st \notin A!Unsettled => b.st = a.st) /\ (a.st \in A!Unsettled => b.st = "error")
          /\ Replied(w.thread, i) => Replied(nt, i)
      BY <1>5, <2>1, <3>1, <3>2
    <3>4. /\ y.at \notin {"off", "opening"} /\ a.id[2] # 0
          /\ UnderWay(y) => a.id[2] <= y.step /\ (a.id[2] = y.step => y.at # "model")
          /\ a.st # "none"
          /\ a.st \in A!Unsettled /\ ~GaveWay(y, w.latest) => y.at \in A!Waiting
          /\ a.st \notin A!Unsettled /\ ~GaveWay(y, w.latest) => ct \/ Replied(w.thread, i)
          /\ a.st = "done" => a.id \in tk
          /\ a.st = "denied" => a.id \notin tk /\ ~MayYet(y, a.id[2])
      BY <2>6, <3>1 DEF Said
    <3>5. b.st # "none" /\ (b.st = "done" => a.st = "done") /\ (b.st = "denied" => a.st = "denied") BY <3>3, <3>4
    <3>6. ~GaveWay(y, t) => ct \/ Replied(nt, i) BY <2>7, <2>8, <3>3, <3>4
    <3> QED BY <2>5, <3>2, <3>3, <3>4, <3>5, <3>6 DEF Said
  <2>10. th[i].id[1] = q BY <1>5, <2>1, <2>2, <2>3
  <2> QED BY <2>2, <2>4, <2>5, <2>9, <2>10
<1>17. Aside(u, r, tk, nd, ap, lt, ct)
  <2>1. tk \cap nd \subseteq ap BY DEF Sound
  <2>2. \A q \in A!Runs \ {r} : u.run[q].at # "asking" BY <1>1, <1>7
  <2>3. ~u.open => u.thread = <<>> BY <1>3, <1>7
  <2>4. \A i \in 1..Len(u.thread) : IsCall(u.thread[i]) /\ u.thread[i].id[1] # r => Said(u.thread, i, u.run[u.thread[i].id[1]], u.latest, tk, ct)
    <3>1. u.thread = th /\ u.latest = t BY <1>7
    <3>2. ASSUME NEW i \in 1..Len(th), IsCall(th[i]) PROVE Said(th, i, u.run[th[i].id[1]], t, tk, ct) BY <1>16, <3>2
    <3> QED BY <3>1, <3>2
  <2>5. u.approval = 0 /\ u.overlay = 0 /\ u.card = A!NoCall /\ u.active = r /\ u \in Windows BY <1>1, <1>7
  <2> QED BY <1>3, <1>12, <1>13, <1>14, <2>1, <2>2, <2>3, <2>4, <2>5 DEF Aside
<1>18. Own(u, r, tk, nd, lt)
  <2>1. \A s \in 1..MAX_STEPS : <<r, s>> \notin tk \cup nd BY <1>10 DEF Counted
  <2>2. lt[r] \in {0, 1} /\ lt[r] # 1 BY <1>10, <1>11 DEF Counted
  <2> QED BY <1>2, <1>7, <1>9, <2>1, <2>2 DEF Own
<1>19. A!live(u, r) BY <1>7, <1>9 DEF A!live
<1>20. Between(u, r, tk, nd, ap, lt, ct)
  <2>1. u.thread = th BY <1>7
  <2>2. \A i \in 1..Len(u.thread) : IsCall(u.thread[i]) => u.thread[i].id[1] # r BY <1>16, <2>1
  <2> QED BY <1>17, <1>18, <1>19, <2>2 DEF Between
<1>21. TookOver(u, w, r) BY <1>7 DEF TookOver
<1> QED BY <1>20, <1>21

\* The folder is open.
LEMMA OpenedIs ==
  ASSUME Limits, Whole, NEW r \in A!Runs, A!Opened(r)
  PROVE  /\ Whole' /\ window'.open = window.open /\ window'.changes = window.changes
         /\ \A q \in A!Runs \ {r} : window'.run[q] = window.run[q]
         /\ window'.run[r].op = "none" /\ window'.run[r].at \notin A!Waiting
<1>1. Sound(window, took, needed, approved, late, cut) /\ window.run[r].at = "opening" BY DEF Whole, A!Opened
<1>2. PICK u : u = window' OBVIOUS
<1>3. took' = took /\ needed' = needed /\ approved' = approved /\ late' = late /\ (cut => cut') BY DEF A!Opened
<1> DEFINE Goal == /\ Sound(u, took, needed, approved, late, cut) /\ u.open = window.open /\ u.changes = window.changes
                   /\ \A q \in A!Runs \ {r} : u.run[q] = window.run[q]
                   /\ u.run[r].op = "none" /\ u.run[r].at \notin A!Waiting
<1>4. ASSUME ~A!StillFree(window) PROVE Goal
  <2>1. PICK p \in {"opening", "over"} : p = "over" OBVIOUS
  <2>2. u = Shift(window, r, p) BY <1>2, <1>4, <2>1 DEF A!Opened, Shift
  <2>3. Sound(u, took, needed, approved, late, cut) /\ Onward(window, u, r) /\ Shifted(u, window, r, p) BY <1>1, <2>2, Shifts
  <2>4. u.run[r].op = "none" /\ u.run[r].at \notin A!Waiting BY <2>1, <2>3 DEF A!Waiting, Shifted
  <2> QED BY <2>3, <2>4 DEF Onward
<1>5. ASSUME A!StillFree(window) PROVE Goal
  <2>1. PICK m \in Msgs : m = A!Msg("user", <<r, 0>>, "none") /\ m.k = "user"
    <3>1. 0 \in 0..MAX_STEPS BY DEF Limits
    <3>2. PICK id \in CallIds : id = <<r, 0>> BY <3>1 DEF CallIds
    <3>3. PICK m : m = A!Msg("user", id, "none") OBVIOUS
    <3>4. m.k = "user" /\ m \in Msgs BY <3>3 DEF Msgs, A!Msg, Statuses
    <3> QED BY <3>2, <3>3, <3>4
  <2>2. PICK th : th = IF window.open THEN Append(Closing(window.thread), m) ELSE window.thread OBVIOUS
  <2>3. PICK s : s = Started(window, r, window.latest + 1, th) OBVIOUS
  <2>4. u = A!NextStep(s, r) BY <1>2, <1>5, <2>1, <2>2, <2>3 DEF A!Opened, Started, Closing
  <2>5. Between(s, r, took, needed, approved, late, cut) /\ TookOver(s, window, r)
    BY <1>1, <1>5, <2>1, <2>2, <2>3, OpensBetween
  <2>6. Sound(u, took, needed, approved, late, cut) /\ Onward(s, u, r) /\ Rests(u, r) BY <2>4, <2>5, GoesOnSoundly
  <2> QED BY <2>5, <2>6 DEF Onward, Rests, TookOver
<1>6. Goal BY <1>4, <1>5
<1>7. Sound(u, took, needed, approved, late, cut') BY <1>3, <1>6, SoundCut
<1> QED BY <1>2, <1>3, <1>6, <1>7 DEF Whole

\* The runtime carries a call out, or cannot.
Served(y, x) == Akin(y, x) /\ y.at = x.at /\ y.kind = x.kind /\ y.ask = x.ask /\ y.op \in {"done", "failed"}

\* One more call is counted after a stop, of the run's.
Later(lt2, lt, r, x) ==
  /\ \A q \in A!Runs \ {r} : lt2[q] = lt[q]
  /\ lt2[r] = lt[r] \/ (lt2[r] = lt[r] + 1 /\ x.aborted)

\* The runtime has carried a call out, or could not: its run's record says so.
LEMMA Serves ==
  ASSUME Limits, NEW tk, NEW nd, NEW ap, NEW lt, NEW ct, NEW w, NEW r \in A!Runs, Sound(w, tk, nd, ap, lt, ct),
         NEW y \in Records, Served(y, w.run[r]), w.run[r].op = "sent",
         NEW tk2, tk \subseteq tk2, tk2 \subseteq tk \cup {A!Call(w, r)}, y.op = "done" => A!Call(w, r) \in tk2,
         NEW lt2, Later(lt2, lt, r, w.run[r]), NEW u, u = Put(w, r, y)
  PROVE  Sound(u, tk2, nd, ap, lt2, ct)
<1>1. w \in Windows /\ r # 0 BY DEF Sound, A!Runs
<1>2. PICK x \in Records : x = w.run[r] BY <1>1, PutSame
<1>3. PICK c : c = A!Call(w, r) /\ c = <<r, x.step>> BY <1>2 DEF A!Call
<1>4. /\ u \in Windows /\ u.run[r] = y /\ \A q \in A!Runs \ {r} : u.run[q] = w.run[q]
      /\ u.open = w.open /\ u.thread = w.thread /\ u.changes = w.changes
      /\ u.latest = w.latest /\ u.active = w.active /\ u.approval = w.approval
      /\ u.card = w.card /\ u.shown = w.shown /\ u.overlay = w.overlay
  BY <1>1, PutIs
<1>5. /\ y.token = x.token /\ y.step = x.step /\ y.quiet = x.quiet /\ y.aborted = x.aborted
      /\ y.at = x.at /\ y.kind = x.kind /\ y.ask = x.ask /\ y.op \in {"done", "failed"}
  BY <1>2 DEF Served, Akin
<1>6. Placed(x, r, w.latest, w.active) /\ Counted(x, r, tk, nd, ap, lt[r]) /\ x.op = "sent" BY <1>2 DEF Sound
<1>7. x.at \in {"running", "over"} /\ x.step # 0 /\ x.kind # "none" BY <1>6 DEF Placed
<1>8. x.step \in 1..MAX_STEPS
  <2>1. x.step \in 0..MAX_STEPS BY DEF Records
  <2> QED BY <1>7, <2>1 DEF Limits
<1>9. lt[r] = 0 BY <1>6 DEF Counted
<1>10. lt2[r] \in {0, 1} /\ (lt2[r] = 1 => x.aborted) BY <1>2, <1>9 DEF Later
<1>11. Placed(y, r, w.latest, w.active) BY <1>5, <1>6, <1>7 DEF Placed, UnderWay, Going
<1>12. c \in nd => c \in ap BY <1>3, <1>6 DEF Counted
<1>13. tk2 \cap nd \subseteq ap BY <1>3, <1>12 DEF Sound
<1>14. Counted(y, r, tk2, nd, ap, lt2[r])
  <2>1. ASSUME NEW s \in 1..MAX_STEPS
        PROVE  /\ <<r, s>> \in tk2 \cup nd => y.at \notin {"off", "opening"}
               /\ <<r, s>> \in tk2 /\ UnderWay(y) => s <= y.step /\ (s = y.step => y.at = "running")
               /\ <<r, s>> \in nd /\ UnderWay(y) => s <= y.step /\ (s = y.step => y.at # "model" /\ (y.at = "preparing" => y.ask))
    <3>1. y.at \notin {"off", "opening"} BY <1>5, <1>7
    <3>2. UnderWay(y) => y.at = "running" BY <1>5, <1>7 DEF UnderWay, Going
    <3>3. UnderWay(y) <=> UnderWay(x) BY <1>5 DEF UnderWay
    <3>4. <<r, s>> \in tk2 => <<r, s>> \in tk \/ s = x.step BY <1>3
    <3>5. <<r, s>> \in tk /\ UnderWay(x) => s <= x.step BY <1>6 DEF Counted
    <3>6. <<r, s>> \in nd /\ UnderWay(x) => s <= x.step BY <1>6 DEF Counted
    <3>7. x.step <= x.step BY <1>8
    <3> QED BY <1>5, <3>1, <3>2, <3>3, <3>4, <3>5, <3>6, <3>7
  <2>2. <<r, y.step>> \in nd => <<r, y.step>> \in ap BY <1>3, <1>5, <1>12
  <2>3. y.op = "done" => <<r, y.step>> \in tk2 BY <1>3, <1>5
  <2>4. lt2[r] = 1 => (y.at = "over" \/ (y.aborted /\ y.at = "running")) BY <1>5, <1>7, <1>10
  <2> QED BY <1>5, <1>10, <2>1, <2>2, <2>3, <2>4 DEF Counted
<1>15. ASSUME NEW q \in A!Runs \ {r} PROVE Placed(u.run[q], q, u.latest, u.active) /\ Counted(u.run[q], q, tk2, nd, ap, lt2[q])
  <2>1. PICK z : z = w.run[q] OBVIOUS
  <2>2. Placed(z, q, w.latest, w.active) /\ Counted(z, q, tk, nd, ap, lt[q]) BY <2>1 DEF Sound
  <2>3. \A s : <<q, s>> \in tk2 <=> <<q, s>> \in tk BY <1>3
  <2>4. lt2[q] = lt[q] BY DEF Later
  <2>5. Counted(z, q, tk2, nd, ap, lt2[q]) BY <2>2, <2>3, <2>4 DEF Counted
  <2> QED BY <1>4, <2>1, <2>2, <2>5
<1>16. Heads(u)
  <2>1. Heads(w) /\ w.active \in Holder /\ w.approval \in Holder /\ w.overlay \in Holder BY <1>1 DEF Sound, Windows
  <2>2. \A q \in A!Runs : u.run[q].at = w.run[q].at /\ u.run[q].token = w.run[q].token /\ u.run[q].step = w.run[q].step BY <1>2, <1>4, <1>5
  <2>3. u.active # 0 => UnderWay(u.run[u.active]) BY <1>4, <2>1, <2>2 DEF Heads, UnderWay, Holder
  <2>4. /\ u.approval # 0 => u.run[u.approval].at = "asking" /\ u.card = A!Call(u, u.approval)
        /\ u.approval = 0 => u.card = A!NoCall
    BY <1>4, <2>1, <2>2 DEF Heads, A!Call, Holder
  <2>5. \A q \in A!Runs : u.run[q].at = "asking" => u.approval = q /\ u.shown = "awaiting" BY <1>4, <2>1, <2>2 DEF Heads
  <2>6. u.overlay # 0 => u.run[u.overlay].at = "model" BY <1>4, <2>1, <2>2 DEF Heads, Holder
  <2>7. /\ \A p, q \in A!Runs : u.run[p].token = u.run[q].token /\ u.run[p].token # 0 => p = q
        /\ \A n \in 1..u.latest : \E q \in A!Runs : u.run[q].token = n
        /\ ~u.open => u.thread = <<>>
    BY <1>4, <2>1, <2>2 DEF Heads
  <2> QED BY <2>3, <2>4, <2>5, <2>6, <2>7 DEF Heads
<1>17. ASSUME NEW i \in 1..Len(u.thread), IsCall(u.thread[i])
       PROVE  Said(u.thread, i, u.run[u.thread[i].id[1]], u.latest, tk2, ct)
  <2>1. Said(w.thread, i, w.run[w.thread[i].id[1]], w.latest, tk, ct) BY <1>4, <1>17 DEF Sound
  <2>2. PICK m : m = w.thread[i] /\ m = u.thread[i] BY <1>4
  <2>3. m.id \in A!Runs \X (0..MAX_STEPS) /\ m.id[1] \in A!Runs BY <1>4, <1>17, <2>2, MessagesOf
  <2>4. CASE m.id[1] = r
    <3>1. Said(w.thread, i, x, w.latest, tk, ct) BY <1>2, <2>1, <2>2, <2>4
    <3>2. m.id = c <=> m.id[2] = x.step BY <1>3, <2>3, <2>4
    <3>3. MayYet(x, x.step) BY <1>6 DEF MayYet
    <3>4. m.st = "denied" => m.id \notin tk2 BY <1>3, <2>2, <3>1, <3>2, <3>3 DEF Said
    <3>5. MayYet(y, m.id[2]) => MayYet(x, m.id[2]) BY <1>5 DEF MayYet, UnderWay
    <3>6. GaveWay(y, w.latest) <=> GaveWay(x, w.latest) BY <1>5 DEF GaveWay
    <3>7. UnderWay(y) <=> UnderWay(x) BY <1>5 DEF UnderWay
    <3>8. Said(w.thread, i, y, w.latest, tk2, ct) BY <1>5, <2>2, <3>1, <3>4, <3>5, <3>6, <3>7 DEF Said
    <3> QED BY <1>4, <2>2, <2>4, <3>8
  <2>5. CASE m.id[1] # r
    <3>1. PICK z : z = w.run[m.id[1]] /\ z = u.run[m.id[1]] BY <1>4, <2>3, <2>5
    <3>2. m.id # c BY <1>3, <2>5
    <3>3. Said(w.thread, i, z, w.latest, tk, ct) BY <2>1, <2>2, <3>1
    <3>4. Said(w.thread, i, z, w.latest, tk2, ct) BY <1>3, <2>2, <3>2, <3>3 DEF Said
    <3> QED BY <1>4, <2>2, <3>1, <3>4
  <2> QED BY <2>4, <2>5
<1>18. \A q \in A!Runs : Placed(u.run[q], q, u.latest, u.active) /\ Counted(u.run[q], q, tk2, nd, ap, lt2[q]) BY <1>4, <1>11, <1>14, <1>15
<1> QED BY <1>4, <1>13, <1>16, <1>17, <1>18 DEF Sound

\* A text that a call wrote.
LEMMA TextIs ==
  ASSUME Limits, NEW d \in A!Texts, NEW c \in {A!NoCall} \cup A!Calls
  PROVE  /\ d.agent \in {A!NoCall} \cup A!Calls
         /\ d.there => [d EXCEPT !.agent = c] \in A!Texts /\ [d EXCEPT !.agent = c].agent = c
         /\ A!Text(c, 0) \in A!Texts /\ A!Text(c, 0).agent = c
<1>1. A!Text(c, 0) \in A!Texts /\ A!Text(c, 0).agent = c BY DEF A!Text, A!Texts
<1>2. CASE d = A!Missing
  <2>1. ~d.there BY <1>2 DEF A!Missing
  <2> QED BY <1>1, <1>2, <2>1, IdleIs
<1>3. CASE d \in [there: {TRUE}, agent: {A!NoCall} \cup A!Calls, other: Nat] BY <1>1, <1>3 DEF A!Texts
<1> QED BY <1>2, <1>3 DEF A!Texts

\* What a call that was sent makes of the file and of its run.
Carried(x, o, p, n) == [x EXCEPT !.op = o, !.prev = p, !.now = n]

CarriedTo(y, x, o, p, n) == y \in Records /\ Served(y, x) /\ y.op = o /\ y.prev = p /\ y.now = n

\* What that record is,
LEMMA CarriedIs ==
  ASSUME NEW x \in Records, NEW o \in {"done", "failed"}, NEW p \in A!Texts, NEW n \in A!Texts
  PROVE  CarriedTo(Carried(x, o, p, n), x, o, p, n)
<1>1. Carried(x, o, p, n) \in Records BY DEF Carried, Records
<1>2. Carried(x, o, p, n).op = o /\ Carried(x, o, p, n).prev = p /\ Carried(x, o, p, n).now = n BY DEF Carried, Records
<1>3. Served(Carried(x, o, p, n), x) BY DEF Carried, Records, Served, Akin
<1> QED BY <1>1, <1>2, <1>3 DEF CarriedTo

Carries(w, r, o, p, n) == [w EXCEPT !.run[r].op = o, !.run[r].prev = p, !.run[r].now = n]

\* and that it is put into the window.
LEMMA PutCarried ==
  ASSUME NEW w \in Windows, NEW r \in A!Runs, NEW o, NEW p, NEW n
  PROVE  Carries(w, r, o, p, n) = Put(w, r, Carried(w.run[r], o, p, n))
<1>1. w.run[r] \in Records BY PutSame
<1>2. [[[w.run EXCEPT ![r].op = o] EXCEPT ![r].prev = p] EXCEPT ![r].now = n] = [w.run EXCEPT ![r] = Carried(w.run[r], o, p, n)]
  BY <1>1 DEF Windows, Carried
<1> QED BY <1>2 DEF Put, Windows, Carries

Outcome(y, x, d, e, c) ==
  /\ Served(y, x)
  /\ y.op = "done" => y.prev = d /\ y.now = e
  /\ y.op # "done" => e = d
  /\ x.kind \in {"edit", "write"} /\ y.op = "done" => e.agent = c
  /\ x.kind \notin {"edit", "write"} => e = d

\* The runtime's step keeps the window whole, and the file is as the run's record says.
LEMMA ServeIs ==
  ASSUME Limits, Whole, project \in A!Texts, took \subseteq A!Calls, late \in [A!Runs -> Nat], NEW r \in A!Runs, A!Serve(r)
  PROVE  /\ Whole' /\ project' \in A!Texts /\ took' \subseteq A!Calls /\ late' \in [A!Runs -> Nat]
         /\ window'.open = window.open /\ window'.changes = window.changes /\ window'.active = window.active
         /\ \A q \in A!Runs \ {r} : window'.run[q] = window.run[q]
         /\ Outcome(window'.run[r], window.run[r], project, project', A!Call(window, r))
<1>1. Sound(window, took, needed, approved, late, cut) /\ window \in Windows /\ window.run[r].op = "sent" BY DEF Whole, A!Serve, Sound
<1>2. PICK x \in Records : x = window.run[r] BY <1>1, PutSame
<1>3. PICK c \in A!Calls : c = A!Call(window, r)
  <2>1. Placed(x, r, window.latest, window.active) BY <1>1, <1>2 DEF Sound
  <2>2. x.step \in 0..MAX_STEPS /\ x.step # 0 BY <1>1, <1>2, <2>1, TokensOf DEF Placed
  <2>3. x.step \in 1..MAX_STEPS BY <2>2 DEF Limits
  <2> QED BY <1>2, <2>3 DEF A!Call, A!Calls
<1>4. PICK m : m = CASE x.kind = "edit"  -> [project EXCEPT !.agent = c]
                     [] x.kind = "write" -> A!Text(c, 0)
                     [] OTHER -> project
  OBVIOUS
<1>5. PICK works \in BOOLEAN : works = (x.kind = "edit" => project.there /\ project.agent = x.saw) OBVIOUS
<1>6. /\ works => m \in A!Texts
      /\ works /\ x.kind \in {"edit", "write"} => m.agent = c
      /\ x.kind \notin {"edit", "write"} => m = project
  <2>1. CASE x.kind = "edit" BY <1>4, <1>5, <2>1, TextIs
  <2>2. CASE x.kind = "write" BY <1>4, <1>5, <2>2, TextIs
  <2>3. CASE x.kind \notin {"edit", "write"} BY <1>4, <2>3
  <2> QED BY <2>1, <2>2, <2>3
<1>7. PICK o \in {"done", "failed"}, p \in A!Texts, n \in A!Texts :
        o = (IF works THEN "done" ELSE "failed") /\ p = (IF works THEN project ELSE x.prev) /\ n = (IF works THEN m ELSE x.now)
  BY <1>6 DEF Records
<1>8. PICK y \in Records : y = Carried(x, o, p, n) /\ Served(y, x) /\ y.op = o /\ y.prev = p /\ y.now = n
  <2>1. PICK y : y = Carried(x, o, p, n) OBVIOUS
  <2>2. CarriedTo(y, x, o, p, n)
    <3>1. CarriedTo(Carried(x, o, p, n), x, o, p, n) BY <1>7, CarriedIs
    <3> QED BY <2>1, <3>1
  <2> QED BY <2>1, <2>2 DEF CarriedTo
<1>9. PICK u : u = window' OBVIOUS
<1>10. u = Put(window, r, y)
  <2>1. window' = [window EXCEPT !.run[r].op = IF works THEN "done" ELSE "failed",
                                 !.run[r].prev = IF works THEN project ELSE @, !.run[r].now = IF works THEN m ELSE @]
    BY <1>2, <1>3, <1>4, <1>5 DEF A!Serve
  <2>2. window' = Carries(window, r, o, p, n) BY <1>2, <1>7, <2>1 DEF Carries
  <2>3. Carries(window, r, o, p, n) = Put(window, r, Carried(window.run[r], o, p, n)) BY <1>1, PutCarried
  <2> QED BY <1>2, <1>8, <1>9, <2>2, <2>3
<1>11. project' = (IF works THEN m ELSE project) /\ took' = (IF works THEN took \cup {c} ELSE took)
  BY <1>2, <1>3, <1>4, <1>5 DEF A!Serve
<1>12. Later(late', late, r, x) /\ late' \in [A!Runs -> Nat]
  <2>1. late' = IF x.aborted /\ x.kind \in {"edit", "write"} THEN [late EXCEPT ![r] = @ + 1] ELSE late BY <1>2 DEF A!Serve
  <2> QED BY <2>1 DEF Later
<1>13. needed' = needed /\ approved' = approved /\ cut' = cut BY DEF A!Serve
<1>14. Sound(u, took', needed, approved, late', cut)
  <2>1. PICK tk2 : tk2 = took' OBVIOUS
  <2>2. PICK lt2 : lt2 = late' OBVIOUS
  <2>3. took \subseteq tk2 /\ tk2 \subseteq took \cup {A!Call(window, r)} /\ (y.op = "done" => A!Call(window, r) \in tk2) BY <1>3, <1>7, <1>8, <1>11, <2>1
  <2>4. Served(y, window.run[r]) /\ Later(lt2, late, r, window.run[r]) BY <1>2, <1>8, <1>12, <2>2
  <2>5. Sound(u, tk2, needed, approved, lt2, cut) BY <1>1, <1>10, <2>3, <2>4, Serves
  <2> QED BY <2>1, <2>2, <2>5
<1>15. u.run[r] = y /\ (\A q \in A!Runs \ {r} : u.run[q] = window.run[q]) /\ u.open = window.open /\ u.changes = window.changes /\ u.active = window.active
  BY <1>1, <1>10, PutIs
<1>16. Outcome(y, x, project, project', c) BY <1>6, <1>7, <1>8, <1>11 DEF Outcome
<1>17. project' \in A!Texts /\ took' \subseteq A!Calls BY <1>6, <1>11
<1> QED BY <1>2, <1>3, <1>9, <1>12, <1>13, <1>14, <1>15, <1>16, <1>17 DEF Whole

\* The list, changed.
Listing(w, ch) == [w EXCEPT !.changes = ch]

\* Another list.
LEMMA ListingIs ==
  ASSUME NEW w \in Windows, NEW ch \in SUBSET Entries, NEW v, v = Listing(w, ch)
  PROVE  /\ v \in Windows /\ v.changes = ch /\ v.run = w.run /\ v.open = w.open /\ v.thread = w.thread /\ v.latest = w.latest
         /\ v.active = w.active /\ v.approval = w.approval /\ v.card = w.card /\ v.shown = w.shown /\ v.overlay = w.overlay
BY DEF Listing, Windows

\* A change joins the list: the first original is kept.
Recorded(nc, ch, p, n) ==
  /\ nc \in SUBSET Entries
  /\ \A e \in nc : e.current = n /\ ((ch = {} /\ e.original = p) \/ \E x \in ch : e.original = x.original)
  /\ ch = {} => nc \subseteq {[original |-> p, current |-> n]} /\ (p # n => nc = {[original |-> p, current |-> n]})
  /\ ch # {} => nc = {[e EXCEPT !.current = n] : e \in {x \in ch : ~x.original.there \/ x.original # n}}

\* The list has one entry at most if it had one at most, and keeps its original.
LEMMA RecordIs ==
  ASSUME NEW ch \in SUBSET Entries, NEW p \in A!Texts, NEW n \in A!Texts
  PROVE  Recorded(A!recordChange(ch, p, n), ch, p, n)
<1>1. PICK nc : nc = A!recordChange(ch, p, n) OBVIOUS
<1> DEFINE Goal == Recorded(nc, ch, p, n)
<1>2. ASSUME ch = {} PROVE Goal
  <2>1. [original |-> p, current |-> n] \in Entries BY DEF Entries
  <2> QED BY <1>1, <1>2, <2>1 DEF A!recordChange, Recorded
<1>3. ASSUME ch # {} PROVE Goal
  <2>1. nc = {[e EXCEPT !.current = n] : e \in {x \in ch : ~x.original.there \/ x.original # n}} BY <1>1, <1>3 DEF A!recordChange
  <2>2. \A e \in ch : [e EXCEPT !.current = n] \in Entries /\ [e EXCEPT !.current = n].current = n /\ [e EXCEPT !.current = n].original = e.original
    BY DEF Entries
  <2>3. ASSUME NEW e \in nc PROVE e \in Entries /\ e.current = n /\ \E x \in ch : e.original = x.original
    <3>1. PICK x \in ch : e = [x EXCEPT !.current = n] BY <2>1
    <3> QED BY <2>2, <3>1
  <2> QED BY <1>3, <2>1, <2>3 DEF Recorded
<1>4. Recorded(nc, ch, p, n) BY <1>2, <1>3 DEF Recorded
<1> QED BY <1>1, <1>4

\* Its answer arrives, or does not.
Reported(v, w, r) == v = w \/ v = Listing(w, A!recordChange(w.changes, w.run[r].prev, w.run[r].now))

\* The runtime's answer, the list already as it is to be.
LEMMA ArriveFrom ==
  ASSUME Limits, NEW tk, NEW nd, NEW ap, NEW lt, NEW ct, NEW w, NEW r \in A!Runs, Sound(w, tk, nd, ap, lt, ct),
         w.run[r].at = "running", NEW v, Reported(v, w, r), NEW st \in {"done", "error"}, st = "done" => w.run[r].op = "done",
         NEW u, u = A!Settled(v, r, st, TRUE, FALSE)
  PROVE  Sound(u, tk, nd, ap, lt, ct) /\ Onward(v, u, r) /\ Rests(u, r)
<1>1. w \in Windows /\ UnderWay(w.run[r]) /\ r # 0 BY DEF Sound, UnderWay, Going, A!Runs
<1>2. PICK x \in Records : x = w.run[r] BY <1>1, PutSame
<1>3. Placed(x, r, w.latest, w.active) /\ Counted(x, r, tk, nd, ap, lt[r]) /\ x.at = "running" BY <1>2 DEF Sound
<1>4. v \in Windows /\ v.run = w.run /\ v.open = w.open /\ v.thread = w.thread /\ v.latest = w.latest
      /\ v.active = w.active /\ v.approval = w.approval /\ v.card = w.card /\ v.shown = w.shown /\ v.overlay = w.overlay
  <2>1. CASE v = w BY <1>1, <2>1
  <2>2. CASE v = Listing(w, A!recordChange(w.changes, w.run[r].prev, w.run[r].now))
    <3>1. w.changes \in SUBSET Entries /\ x.prev \in A!Texts /\ x.now \in A!Texts BY <1>1 DEF Windows, Records
    <3>2. PICK nc : nc = A!recordChange(w.changes, x.prev, x.now) OBVIOUS
    <3>3. nc \in SUBSET Entries
      <4>1. Recorded(nc, w.changes, x.prev, x.now) BY <3>1, <3>2, RecordIs
      <4> QED BY <4>1 DEF Recorded
    <3>4. v = Listing(w, nc) BY <1>2, <2>2, <3>2
    <3> QED BY <1>1, <3>3, <3>4, ListingIs
  <2> QED BY <2>1, <2>2 DEF Reported
<1>5. w.approval # r /\ w.overlay # r BY <1>1, <1>2, <1>3 DEF Sound, Heads
<1>6. Loose(v, w, r) BY <1>4, <1>5 DEF Loose
<1>7. Pending(v, r, tk, nd, ap, lt, ct) BY <1>1, <1>2, <1>3, <1>6, Holds
<1>8. st = "done" => A!Call(v, r) \in tk
  <2>1. A!Call(v, r) = <<r, x.step>> BY <1>2, <1>4 DEF A!Call
  <2> QED BY <1>2, <1>3, <2>1 DEF Counted
<1> QED BY <1>7, <1>8, SettledIs

\* The answer keeps the window whole; what it changed is on the list, or was forgotten, or the thread is gone.
LEMMA ArriveIs ==
  ASSUME Limits, Whole, NEW r \in A!Runs, A!Arrive(r)
  PROVE  /\ Whole' /\ Rests(window', r)
         /\ \E v : /\ Onward(v, window', r) /\ v.run = window.run /\ v.open = window.open /\ v.active = window.active
                   /\ \/ v.changes = window.changes /\ forgotten' = TRUE
                      \/ v.changes = window.changes /\ ~Made(window.run[r])
                      \/ A!live(window, r) /\ ~window.open /\ v.changes = window.changes
                      \/ Made(window.run[r]) /\ v.changes = A!recordChange(window.changes, window.run[r].prev, window.run[r].now)
<1>1. Sound(window, took, needed, approved, late, cut) /\ window \in Windows /\ window.run[r].at = "running" BY DEF Whole, A!Arrive, Sound
<1>2. PICK u : u = window' OBVIOUS
<1>3. PICK ch : ch = A!recordChange(window.changes, window.run[r].prev, window.run[r].now) OBVIOUS
<1>4. PICK b \in BOOLEAN : b = (A!live(window, r) /\ window.open) OBVIOUS
<1>5. PICK wrote \in BOOLEAN : wrote = Made(window.run[r]) BY DEF Made
<1>6. PICK v : v = IF wrote /\ b THEN Listing(window, ch) ELSE window OBVIOUS
<1>7. PICK st \in {"done", "error"} : st = IF window.run[r].op = "done" THEN "done" ELSE "error" OBVIOUS
<1>8. \/ u = A!Settled(v, r, st, TRUE, FALSE) /\ forgotten' = (forgotten \/ (wrote /\ ~A!live(window, r)))
      \/ u = A!Settled(window, r, "error", TRUE, FALSE) /\ forgotten' = TRUE
  <2>1. wrote = (window.run[r].op = "done" /\ window.run[r].kind \in {"edit", "write"}) BY <1>5 DEF Made
  <2>2. (IF b THEN Listing(window, ch) ELSE window) = [window EXCEPT !.changes = IF A!live(window, r) /\ window.open THEN A!recordChange(@, window.run[r].prev, window.run[r].now) ELSE @]
    BY <1>1, <1>3, <1>4 DEF Listing, Windows
  <2>3. v = IF wrote THEN [window EXCEPT !.changes = IF A!live(window, r) /\ window.open THEN A!recordChange(@, window.run[r].prev, window.run[r].now) ELSE @] ELSE window
    BY <1>6, <2>2
  <2> QED BY <1>2, <1>7, <2>1, <2>3 DEF A!Arrive
<1>9. took' = took /\ needed' = needed /\ approved' = approved /\ late' = late /\ cut' = cut BY DEF A!Arrive
<1> DEFINE Goal == /\ Sound(u, took, needed, approved, late, cut) /\ Rests(u, r)
                   /\ \E z : /\ Onward(z, u, r) /\ z.run = window.run /\ z.open = window.open /\ z.active = window.active
                             /\ \/ z.changes = window.changes /\ forgotten' = TRUE
                                \/ z.changes = window.changes /\ ~Made(window.run[r])
                                \/ A!live(window, r) /\ ~window.open /\ z.changes = window.changes
                                \/ Made(window.run[r]) /\ z.changes = ch
<1>10. ASSUME u = A!Settled(v, r, st, TRUE, FALSE), forgotten' = (forgotten \/ (wrote /\ ~A!live(window, r))) PROVE Goal
  <2>1. Reported(v, window, r) BY <1>3, <1>6 DEF Reported
  <2>2. st = "done" => window.run[r].op = "done" BY <1>7
  <2>3. Sound(u, took, needed, approved, late, cut) /\ Onward(v, u, r) /\ Rests(u, r) BY <1>1, <1>10, <2>1, <2>2, ArriveFrom
  <2>4. v.run = window.run /\ v.open = window.open /\ v.active = window.active BY <1>1, <1>6 DEF Listing, Windows
  <2>5. \/ v.changes = window.changes /\ forgotten' = TRUE
        \/ v.changes = window.changes /\ ~Made(window.run[r])
        \/ A!live(window, r) /\ ~window.open /\ v.changes = window.changes
        \/ Made(window.run[r]) /\ v.changes = ch
    <3>1. CASE wrote /\ b
      <4>1. v.changes = ch BY <1>1, <1>6, <3>1 DEF Listing, Windows
      <4> QED BY <1>5, <3>1, <4>1
    <3>2. CASE ~wrote BY <1>5, <1>6, <3>2
    <3>3. CASE wrote /\ ~b
      <4>1. v.changes = window.changes BY <1>6, <3>3
      <4>2. CASE ~A!live(window, r) BY <1>10, <3>3, <4>1, <4>2
      <4>3. CASE A!live(window, r) BY <1>4, <3>3, <4>1, <4>3
      <4> QED BY <4>2, <4>3
    <3> QED BY <3>1, <3>2, <3>3
  <2> QED BY <2>3, <2>4, <2>5
<1>11. ASSUME u = A!Settled(window, r, "error", TRUE, FALSE), forgotten' = TRUE PROVE Goal
  <2>1. Reported(window, window, r) BY DEF Reported
  <2>2. Sound(u, took, needed, approved, late, cut) /\ Onward(window, u, r) /\ Rests(u, r) BY <1>1, <1>11, <2>1, ArriveFrom
  <2> QED BY <1>11, <2>2
<1>12. Goal BY <1>8, <1>10, <1>11
<1> QED BY <1>2, <1>3, <1>9, <1>12 DEF Whole

\* The card is answered.
Decided(w, al) == [w EXCEPT !.approval = 0, !.card = A!NoCall, !.shown = "running", !.allowed = al]

\* The card is answered.
LEMMA DecidedIs ==
  ASSUME NEW w \in Windows, NEW al \in SUBSET {"read", "edit", "command"}, NEW v, v = Decided(w, al)
  PROVE  /\ v \in Windows /\ v.run = w.run /\ v.open = w.open /\ v.thread = w.thread /\ v.latest = w.latest /\ v.changes = w.changes
         /\ v.active = w.active /\ v.approval = 0 /\ v.card = A!NoCall /\ v.overlay = w.overlay /\ v.shown = "running"
BY DEF Decided, Windows, Holder

\* An answer to the card keeps the window whole, and goes to the run there is.
LEMMA ResolvedIs ==
  ASSUME Limits, Whole, NEW d \in {"approve", "always", "deny"}, A!resolveApproval(d)
  PROVE  Whole' /\ Onward(window, window', window.approval) /\ window.approval \in A!Runs /\ window.active = window.approval
<1>1. Sound(window, took, needed, approved, late, cut) /\ window \in Windows /\ window.approval \in A!Runs
  BY DEF Whole, A!resolveApproval, Sound, Windows, Holder
<1>2. PICK r \in A!Runs : r = window.approval BY <1>1
<1>3. PICK x \in Records : x = window.run[r] BY <1>1, PutSame
<1>4. x.at = "asking" /\ UnderWay(x) BY <1>1, <1>2, <1>3 DEF Sound, Heads, UnderWay, Going, A!Runs
<1>5. Placed(x, r, window.latest, window.active) /\ Counted(x, r, took, needed, approved, late[r]) BY <1>1, <1>3 DEF Sound
<1>6. x.kind \in {"edit", "write", "command"} /\ ~x.aborted /\ r = window.active /\ x.token = window.latest /\ x.op = "none" /\ x.step # 0
  <2>1. x.kind \in A!Kinds \cup {"none"} BY DEF Records
  <2> QED BY <1>4, <1>5, <2>1 DEF Placed, A!Kinds, UnderWay, Going
<1>7. A!running(window, r) BY <1>3, <1>6 DEF A!running, A!live
<1>8. x.step \in 1..MAX_STEPS
  <2>1. x.step \in 0..MAX_STEPS BY DEF Records
  <2> QED BY <1>6, <2>1 DEF Limits
<1>9. PICK c : c = A!Call(window, r) /\ c = <<r, x.step>> BY <1>3 DEF A!Call
<1>10. c \notin took /\ late[r] = 0 BY <1>4, <1>5, <1>6, <1>8, <1>9 DEF Counted
<1>11. PICK al \in SUBSET {"read", "edit", "command"} : al = IF d = "always" THEN window.allowed \cup {A!ToolKind(x.kind)} ELSE window.allowed
  <2>1. window.allowed \in SUBSET {"read", "edit", "command"} BY <1>1 DEF Windows
  <2>2. A!ToolKind(x.kind) \in {"read", "edit", "command"} BY <1>6 DEF A!ToolKind
  <2> QED BY <2>1, <2>2
<1>12. PICK w : w = [window EXCEPT !.approval = 0, !.card = A!NoCall] OBVIOUS
<1>13. PICK told : told = A!onStatus(w, r, "running") OBVIOUS
<1>14. w.run = window.run /\ w.latest = window.latest /\ w.allowed = window.allowed BY <1>1, <1>12 DEF Windows
<1>15. told = [w EXCEPT !.shown = "running"] BY <1>7, <1>13, <1>14 DEF A!onStatus, A!running, A!live
<1>16. told = Decided(window, window.allowed) BY <1>1, <1>12, <1>15 DEF Decided, Windows
<1>17. PICK kept : kept = Decided(window, al) OBVIOUS
<1>18. kept = [told EXCEPT !.allowed = IF d = "always" THEN @ \cup {A!ToolKind(w.run[r].kind)} ELSE @]
  <2>1. told.allowed = window.allowed BY <1>1, <1>16 DEF Decided, Windows
  <2>2. [told EXCEPT !.allowed = al] = Decided(window, al) BY <1>1, <1>16 DEF Decided, Windows
  <2> QED BY <1>3, <1>11, <1>14, <1>17, <2>1, <2>2
<1>19. PICK u : u = window' OBVIOUS
<1>20. u = IF d = "deny" THEN A!Settled(told, r, "denied", TRUE, FALSE) ELSE A!Dispatch(kept, r)
  BY <1>2, <1>12, <1>13, <1>18, <1>19 DEF A!resolveApproval
<1>21. /\ approved' = (IF d = "deny" THEN approved ELSE approved \cup {c}) /\ needed' = needed /\ late' = late /\ cut' = cut
       /\ took' = took \cup {A!Call(u, q) : q \in {p \in A!Runs : u.run[p].op = "sent" /\ u.run[p].kind = "command" /\ A!Call(u, p) \notin took}}
  BY <1>2, <1>9, <1>19 DEF A!resolveApproval, A!Sent
<1>22. ASSUME NEW a \in SUBSET {"read", "edit", "command"}, NEW v, v = Decided(window, a)
       PROVE  /\ Pending(v, r, took, needed, approved, late, cut) /\ v.run = window.run /\ v.changes = window.changes /\ v.open = window.open
              /\ Loose(v, window, r)
  <2>1. /\ v \in Windows /\ v.run = window.run /\ v.open = window.open /\ v.thread = window.thread /\ v.latest = window.latest /\ v.changes = window.changes
        /\ v.active = window.active /\ v.approval = 0 /\ v.card = A!NoCall /\ v.overlay = window.overlay /\ v.shown = "running"
    BY <1>1, <1>22, DecidedIs
  <2>2. window.overlay # r BY <1>1, <1>3, <1>4, TokensOf DEF Sound, Heads
  <2>3. Loose(v, window, r) BY <1>2, <1>6, <2>1, <2>2 DEF Loose
  <2>4. Pending(v, r, took, needed, approved, late, cut) BY <1>1, <1>3, <1>4, <2>3, Holds
  <2> QED BY <2>1, <2>3, <2>4
<1> DEFINE Goal == Sound(u, took', needed, approved', late, cut) /\ Onward(window, u, r)
<1>23. ASSUME d = "deny" PROVE Goal
  <2>1. window.allowed \in SUBSET {"read", "edit", "command"} BY <1>1 DEF Windows
  <2>2. Pending(told, r, took, needed, approved, late, cut) /\ Loose(told, window, r) /\ told.changes = window.changes BY <1>16, <1>22, <2>1
  <2>3. A!Call(told, r) = c BY <1>3, <1>9, <2>2 DEF A!Call, Loose
  <2>4. u = A!Settled(told, r, "denied", TRUE, FALSE) BY <1>20, <1>23
  <2>5. Sound(u, took, needed, approved, late, cut) /\ Onward(told, u, r) /\ Rests(u, r) BY <1>10, <2>2, <2>3, <2>4, SettledIs
  <2>6. Taking(u, r, c, took) = took /\ u.run[r].op # "sent" /\ c[1] = r BY <1>9, <2>5 DEF Rests, Taking
  <2>7. took' = took BY <1>21, <2>5, <2>6, TakenIs
  <2>8. Onward(window, u, r) BY <2>2, <2>5, OnwardLoose
  <2> QED BY <1>21, <1>23, <2>5, <2>7, <2>8
<1>24. ASSUME d # "deny" PROVE Goal
  <2>1. /\ Pending(kept, r, took, needed, approved, late, cut) /\ Loose(kept, window, r) /\ kept.changes = window.changes
        /\ kept.run = window.run
    BY <1>17, <1>22
  <2>2. PICK ap2 : ap2 = approved \cup {c} OBVIOUS
  <2>3. Pending(kept, r, took, needed, ap2, late, cut) BY <2>1, <2>2, PendingApproved
  <2>4. A!Call(kept, r) = c /\ kept.run[r].kind = x.kind BY <1>3, <1>9, <2>1 DEF A!Call
  <2>5. u = A!Dispatch(kept, r) BY <1>20, <1>24
  <2>6. PICK t : t = took \cup (IF x.kind = "command" THEN {c} ELSE {}) OBVIOUS
  <2>7. /\ took \subseteq t /\ t \subseteq took \cup {A!Call(kept, r)} /\ (kept.run[r].kind = "command" => A!Call(kept, r) \in t)
        /\ A!Call(kept, r) \notin took /\ (A!Call(kept, r) \in needed => A!Call(kept, r) \in ap2) /\ kept.run[r].kind # "none" /\ late[r] = 0
    BY <1>6, <1>10, <2>2, <2>4, <2>6
  <2>8. Sound(u, t, needed, ap2, late, cut) /\ Onward(kept, u, r) /\ A!Call(u, r) = c /\ u.run[r].op = "sent" /\ u.run[r].kind = x.kind
    BY <2>3, <2>4, <2>5, <2>7, Dispatches
  <2>9. Taking(u, r, c, took) = t /\ c[1] = r BY <1>9, <2>6, <2>8 DEF Taking
  <2>10. took' = t
    <3>1. Sound(u, Taking(u, r, c, took), needed, ap2, late, cut) /\ (u.run[r].op = "sent" => A!Call(u, r) = c) BY <2>8, <2>9
    <3>2. took' = Taking(u, r, c, took) BY <1>21, <2>9, <3>1, TakenIs
    <3> QED BY <2>9, <3>2
  <2>11. Onward(window, u, r) BY <2>1, <2>8, OnwardLoose
  <2> QED BY <1>21, <1>24, <2>2, <2>8, <2>10, <2>11
<1>25. Goal BY <1>23, <1>24
<1> QED BY <1>1, <1>2, <1>6, <1>19, <1>21, <1>25 DEF Whole
-----------------------------------------------------------------------------
(* The person stops what runs. *)
Stopped(x) == [x EXCEPT !.aborted = TRUE]
Halted(v, w, r) ==
  /\ v \in Windows /\ v.run[r] = Stopped(w.run[r]) /\ \A q \in A!Runs \ {r} : v.run[q] = w.run[q]
  /\ v.open = w.open /\ v.thread = w.thread /\ v.changes = w.changes /\ v.latest = w.latest /\ v.active = w.active
  /\ v.approval = (IF w.approval = r THEN 0 ELSE w.approval) /\ v.card = A!NoCall /\ v.shown = "none" /\ v.overlay = w.overlay

\* A stopped run is as it was otherwise.
LEMMA StoppedIs ==
  ASSUME NEW x \in Records, NEW y, y = Stopped(x)
  PROVE  /\ y \in Records /\ y.token = x.token /\ y.step = x.step /\ y.quiet = x.quiet /\ y.aborted
         /\ y.at = x.at /\ y.kind = x.kind /\ y.ask = x.ask /\ y.op = x.op /\ y.prev = x.prev /\ y.now = x.now
BY DEF Stopped, Records

\* What stopping makes of a window.
LEMMA AbortIs ==
  ASSUME NEW w \in Windows, NEW r \in A!Runs, r = w.active
  PROVE  Halted(A!Abort(w), w, r)
<1>1. PICK x \in Records : x = w.run[r] BY PutSame
<1>2. PICK y : y = Stopped(x) OBVIOUS
<1>3. y \in Records BY <1>2, StoppedIs
<1>4. PICK p : p = Put(w, r, y) OBVIOUS
<1>5. /\ p \in Windows /\ p.run[r] = y /\ \A q \in A!Runs \ {r} : p.run[q] = w.run[q]
      /\ p.open = w.open /\ p.thread = w.thread /\ p.changes = w.changes
      /\ p.latest = w.latest /\ p.active = w.active /\ p.approval = w.approval
      /\ p.card = w.card /\ p.shown = w.shown /\ p.overlay = w.overlay
  BY <1>3, <1>4, PutIs
<1>6. PICK a \in Holder : a = IF w.approval = r THEN 0 ELSE w.approval BY DEF Windows, Holder
<1>7. PICK v : v = [p EXCEPT !.shown = "none", !.card = A!NoCall, !.approval = a] OBVIOUS
<1>8. /\ v \in Windows /\ v.run = p.run /\ v.open = p.open /\ v.thread = p.thread /\ v.changes = p.changes /\ v.latest = p.latest
      /\ v.active = p.active /\ v.approval = a /\ v.card = A!NoCall /\ v.shown = "none" /\ v.overlay = p.overlay
  BY <1>5, <1>7 DEF Windows
<1>9. r # 0 BY DEF A!Runs
<1>10. A!Abort(w) = v
  <2>1. A!Abort(w) = [w EXCEPT !.run[r].aborted = TRUE, !.shown = "none", !.card = A!NoCall, !.approval = IF @ = r THEN 0 ELSE @] BY <1>9 DEF A!Abort
  <2>2. [w EXCEPT !.run[r].aborted = TRUE, !.shown = "none", !.card = A!NoCall, !.approval = a] = v BY <1>1, <1>2, <1>4, <1>7 DEF Put, Stopped, Windows
  <2> QED BY <1>6, <2>1, <2>2
<1>11. Halted(v, w, r) BY <1>1, <1>2, <1>5, <1>6, <1>8 DEF Halted
<1> QED BY <1>10, <1>11

\* Only the run there is has a card or an overlay, if it was not stopped.
LEMMA OfActive ==
  ASSUME Limits, NEW tk, NEW nd, NEW ap, NEW lt, NEW ct, NEW w, Sound(w, tk, nd, ap, lt, ct)
  PROVE  /\ w \in Windows /\ w.approval \in {0, w.active} /\ w.overlay \in {0, w.active} /\ w.active \in Holder /\ (w.approval = 0 => w.card = A!NoCall)
         /\ w.active # 0 => w.active \in A!Runs /\ UnderWay(w.run[w.active])
<1>1. w \in Windows BY DEF Sound
<1>2. w.active \in Holder /\ w.approval \in Holder /\ w.overlay \in Holder BY <1>1 DEF Windows
<1>3. ASSUME NEW r \in A!Runs, w.run[r].at \in {"model", "asking"} PROVE r = w.active
  <2>1. Placed(w.run[r], r, w.latest, w.active) BY DEF Sound
  <2> QED BY <1>3, <2>1 DEF Placed, UnderWay, Going
<1>4. Heads(w) BY DEF Sound
<1>5. w.approval # 0 => w.approval \in A!Runs /\ w.run[w.approval].at = "asking" BY <1>2, <1>4 DEF Heads, Holder
<1>6. w.overlay # 0 => w.overlay \in A!Runs /\ w.run[w.overlay].at = "model" BY <1>2, <1>4 DEF Heads, Holder
<1>7. w.approval \in {0, w.active} /\ w.overlay \in {0, w.active} BY <1>3, <1>5, <1>6
<1> QED BY <1>1, <1>2, <1>4, <1>7 DEF Heads, Holder

\* What a stop does at once, or leaves to the runtime's answer.
Leaves(u, w, r) ==
  /\ u.open = w.open /\ u.changes = w.changes /\ u.active = w.active /\ \A q \in A!Runs \ {r} : u.run[q] = w.run[q]
  /\ u.run[r] = Stopped(w.run[r])

\* A run is stopped, and goes on as one that is, or waits for its file.
LEMMA Stops ==
  ASSUME Limits, NEW tk, NEW nd, NEW ap, NEW lt, NEW ct, NEW w, Sound(w, tk, nd, ap, lt, ct), NEW r \in A!Runs, r = w.active,
         NEW v, v = A!Abort(w), NEW had \in BOOLEAN, NEW u, u = A!Unwind(v, r, had)
  PROVE  Sound(u, tk, nd, ap, lt, ct) /\ ((Onward(w, u, r) /\ ~Made(w.run[r])) \/ Leaves(u, w, r))
<1>1. w \in Windows /\ w.approval \in {0, r} /\ w.overlay \in {0, r} /\ UnderWay(w.run[r]) /\ r # 0 /\ (w.approval = 0 => w.card = A!NoCall)
  <2>1. r # 0 BY DEF A!Runs
  <2> QED BY <2>1, OfActive
<1>2. Halted(v, w, r) BY <1>1, AbortIs
<1>3. PICK x \in Records : x = w.run[r] BY <1>1, PutSame
<1>4. PICK y \in Records : /\ y = Stopped(x) /\ y = v.run[r] /\ y.token = x.token /\ y.step = x.step /\ y.quiet = x.quiet /\ y.aborted
                           /\ y.at = x.at /\ y.kind = x.kind /\ y.ask = x.ask /\ y.op = x.op
  <2>1. PICK y : y = Stopped(x) OBVIOUS
  <2>2. /\ y \in Records /\ y.token = x.token /\ y.step = x.step /\ y.quiet = x.quiet /\ y.aborted
        /\ y.at = x.at /\ y.kind = x.kind /\ y.ask = x.ask /\ y.op = x.op
    BY <2>1, StoppedIs
  <2> QED BY <1>2, <1>3, <2>1, <2>2 DEF Halted
<1>5. Placed(x, r, w.latest, w.active) /\ Counted(x, r, tk, nd, ap, lt[r]) BY <1>3 DEF Sound
<1>6. x.at \in Going /\ v.run[r].at = x.at /\ v.run[r].kind = x.kind BY <1>1, <1>3, <1>4 DEF UnderWay
<1>7. v \in Windows /\ v.changes = w.changes BY <1>2 DEF Halted
<1>8. CASE x.at = "model"
  <2>1. PICK st \in {"none", "error", "denied"} : st = IF had THEN "denied" ELSE "none" OBVIOUS
  <2>2. u = A!Ends(v, r, st) BY <1>1, <1>6, <1>8, <2>1 DEF A!Unwind
  <2>3. PICK b : b = Plainly(v, r) OBVIOUS
  <2>4. b \in Windows /\ Beside(b, v) /\ b.thread = v.thread /\ b.shown = v.shown /\ b.overlay = (IF v.overlay = r THEN 0 ELSE v.overlay)
    BY <1>7, <2>3, BareIs
  <2>5. w.approval = 0 BY <1>1, <1>3, <1>8 DEF Sound, Heads
  <2>6. b.run = v.run /\ b.changes = w.changes BY <1>7, <2>4 DEF Beside
  <2>7. Loose(b, w, r) BY <1>1, <1>2, <1>3, <1>4, <2>4, <2>5 DEF Loose, Beside, Halted
  <2>8. Replies(v, b, r, tk, nd, ap, lt, ct) BY <1>3, <1>7, <1>8, <2>3, <2>7, RepliesFrom
  <2>9. Sound(u, tk, nd, ap, lt, ct) /\ Onward(b, u, r) /\ Rests(u, r) BY <2>2, <2>8, EndsIs
  <2>10. Onward(w, u, r) BY <2>6, <2>7, <2>9, OnwardLoose
  <2>11. ~Made(x) BY <1>5, <1>8 DEF Placed, Made
  <2> QED BY <1>3, <2>9, <2>10, <2>11
<1>9. ASSUME x.at # "model" PROVE Loose(v, w, r) /\ Pending(v, r, tk, nd, ap, lt, ct)
  <2>1. w.overlay # r BY <1>1, <1>3, <1>9 DEF Sound, Heads
  <2>2. Loose(v, w, r) BY <1>1, <1>2, <1>3, <1>4, <2>1 DEF Loose, Halted
  <2> QED BY <1>1, <1>3, <1>9, <2>2, Holds
<1>10. A!Call(v, r) = <<r, x.step>> BY <1>4 DEF A!Call
<1>11. CASE x.at = "asking"
  <2>1. u = A!Settled(v, r, "denied", FALSE, FALSE) BY <1>1, <1>6, <1>11 DEF A!Unwind
  <2>2. Loose(v, w, r) /\ Pending(v, r, tk, nd, ap, lt, ct) BY <1>9, <1>11
  <2>3. A!Call(v, r) \notin tk
    <3>1. x.step \in 1..MAX_STEPS
      <4>1. x.step \in 0..MAX_STEPS /\ x.step # 0 BY <1>1, <1>3, <1>5 DEF Records, Placed
      <4> QED BY <4>1 DEF Limits
    <3> QED BY <1>1, <1>3, <1>5, <1>10, <1>11, <3>1 DEF Counted
  <2>4. Sound(u, tk, nd, ap, lt, ct) /\ Onward(v, u, r) BY <2>1, <2>2, <2>3, SettledIs
  <2>5. Onward(w, u, r) BY <1>7, <2>2, <2>4, OnwardLoose
  <2>6. ~Made(x) BY <1>5, <1>11 DEF Placed, Made
  <2> QED BY <1>3, <2>4, <2>5, <2>6
<1>12. CASE x.at = "running" /\ x.kind = "command"
  <2>1. u = A!Settled(v, r, "error", TRUE, FALSE) BY <1>1, <1>6, <1>12 DEF A!Unwind
  <2>2. Loose(v, w, r) /\ Pending(v, r, tk, nd, ap, lt, ct) BY <1>9, <1>12
  <2>3. Sound(u, tk, nd, ap, lt, ct) /\ Onward(v, u, r) BY <2>1, <2>2, SettledIs
  <2>4. Onward(w, u, r) BY <1>7, <2>2, <2>3, OnwardLoose
  <2>5. ~Made(x) BY <1>12 DEF Made
  <2> QED BY <1>3, <2>3, <2>4, <2>5
<1>13. CASE x.at = "preparing" \/ (x.at = "running" /\ x.kind # "command")
  <2>1. u = v BY <1>1, <1>6, <1>13 DEF A!Unwind
  <2>2. Loose(v, w, r) /\ Pending(v, r, tk, nd, ap, lt, ct) BY <1>9, <1>13
  <2>3. y.at \in A!Waiting /\ y.at # "asking" BY <1>4, <1>13 DEF A!Waiting
  <2>4. Resumed(v, v, r) BY <1>4, <1>7, <2>3 DEF Resumed, Akin
  <2>5. Placed(y, r, w.latest, w.active) BY <1>4, <1>5, <1>13 DEF Placed, UnderWay, Going
  <2>6. Counted(y, r, tk, nd, ap, lt[r]) BY <1>4, <1>5 DEF Counted, UnderWay
  <2>7. v.latest = w.latest /\ v.active = w.active BY <1>2 DEF Halted
  <2>8. tk \cap nd \subseteq ap BY DEF Sound
  <2>9. Sound(v, tk, nd, ap, lt, ct) BY <1>4, <2>2, <2>4, <2>5, <2>6, <2>7, <2>8, Resumes
  <2>10. Leaves(u, w, r) BY <1>2, <2>1 DEF Leaves, Halted
  <2> QED BY <2>1, <2>9, <2>10
<1> QED BY <1>6, <1>8, <1>11, <1>12, <1>13 DEF Going

\* The thread is emptied, shortened or written to; no run minds.
Rewritten(v, w) ==
  /\ v \in Windows /\ v.run = w.run /\ v.latest = w.latest /\ v.active = w.active /\ v.approval = w.approval /\ v.card = w.card
  /\ v.shown = w.shown /\ v.overlay = w.overlay /\ (~v.open => v.thread = <<>>)
Tells(th, w, tk, ct) == \A i \in 1..Len(th) : IsCall(th[i]) => Said(th, i, w.run[th[i].id[1]], w.latest, tk, ct)

\* A window is whole whose thread, list and policy are others, if the thread tells what is so.
LEMMA Rewrites ==
  ASSUME Limits, NEW tk, NEW nd, NEW ap, NEW lt, NEW ct, NEW ct2, NEW w, Sound(w, tk, nd, ap, lt, ct), NEW v, Rewritten(v, w), Tells(v.thread, w, tk, ct2)
  PROVE  Sound(v, tk, nd, ap, lt, ct2)
<1>1. Heads(w) BY DEF Sound
<1>2. Heads(v)
  <2>1. /\ v.approval # 0 => v.run[v.approval].at = "asking" /\ v.card = A!Call(v, v.approval)
        /\ v.approval = 0 => v.card = A!NoCall
    BY <1>1 DEF Heads, Rewritten, A!Call
  <2> QED BY <1>1, <2>1 DEF Heads, Rewritten
<1>3. \A r \in A!Runs : Placed(v.run[r], r, v.latest, v.active) /\ Counted(v.run[r], r, tk, nd, ap, lt[r]) BY DEF Sound, Rewritten
<1>4. \A i \in 1..Len(v.thread) : IsCall(v.thread[i]) => Said(v.thread, i, v.run[v.thread[i].id[1]], v.latest, tk, ct2) BY DEF Rewritten, Tells
<1>5. tk \cap nd \subseteq ap /\ v \in Windows BY DEF Sound, Rewritten
<1> QED BY <1>2, <1>3, <1>4, <1>5 DEF Sound

Reading(w, o, th, ch) == [w EXCEPT !.open = o, !.thread = th, !.changes = ch]

Reread(v, w, o, th, ch) == Rewritten(v, w) /\ v.open = o /\ v.thread = th /\ v.changes = ch

\* Another thread and another list.
LEMMA ReadingIs ==
  ASSUME NEW w \in Windows, NEW o \in BOOLEAN, NEW th \in Seq(Msgs), NEW ch \in SUBSET Entries, ~o => th = <<>>, NEW v, v = Reading(w, o, th, ch)
  PROVE  Reread(v, w, o, th, ch)
BY DEF Reading, Windows, Rewritten, Reread

\* An empty thread says nothing.
LEMMA Emptier ==
  ASSUME Limits, NEW tk, NEW nd, NEW ap, NEW lt, NEW ct, NEW ct2, NEW w, Sound(w, tk, nd, ap, lt, ct), NEW o \in BOOLEAN, NEW v, v = Reading(w, o, <<>>, {})
  PROVE  Sound(v, tk, nd, ap, lt, ct2) /\ Reread(v, w, o, <<>>, {})
<1>1. w \in Windows BY DEF Sound
<1>2. PICK th \in Seq(Msgs) : th = <<>> BY EmptySeq
<1>3. PICK ch \in SUBSET Entries : ch = {} OBVIOUS
<1>4. Rewritten(v, w) /\ v.open = o /\ v.thread = th /\ v.changes = ch
  <2>1. v = Reading(w, o, th, ch) BY <1>2, <1>3
  <2>2. Reread(v, w, o, th, ch) BY <1>1, <1>2, <1>3, <2>1, ReadingIs
  <2> QED BY <2>2 DEF Reread
<1>5. Tells(v.thread, w, tk, ct2) BY <1>2, <1>4 DEF Tells
<1>6. Sound(v, tk, nd, ap, lt, ct2) BY <1>4, <1>5, Rewrites
<1> QED BY <1>2, <1>3, <1>4, <1>6 DEF Reread

\* What comes before a message of the person's is answered before it.
LEMMA Shorter ==
  ASSUME Limits, NEW tk, NEW nd, NEW ap, NEW lt, NEW ct, NEW w, Sound(w, tk, nd, ap, lt, ct), NEW i \in 1..Len(w.thread), w.thread[i].k = "user",
         NEW th, th = SubSeq(w.thread, 1, i - 1), NEW v, v = Reading(w, w.open, th, w.changes)
  PROVE  Sound(v, tk, nd, ap, lt, ct) /\ Reread(v, w, w.open, th, w.changes)
<1>1. w \in Windows BY DEF Sound
<1>2. w.thread \in Seq(Msgs) /\ Len(w.thread) \in Nat /\ w.changes \in SUBSET Entries /\ w.open \in BOOLEAN BY <1>1 DEF Windows
<1>3. th \in Seq(Msgs) /\ Len(th) = i - 1 /\ \A j \in 1..(i - 1) : th[j] = w.thread[j]
  <2>1. 1 \in 1..Len(w.thread) + 1 /\ i - 1 \in (1 - 1)..Len(w.thread) /\ (i - 1) - 1 + 1 = i - 1 BY <1>2
  <2>2. PICK n \in (1 - 1)..Len(w.thread) : n = i - 1 BY <2>1
  <2>3. /\ SubSeq(w.thread, 1, n) \in Seq(Msgs) /\ Len(SubSeq(w.thread, 1, n)) = n - 1 + 1
        /\ \A j \in 1..(n - 1 + 1) : SubSeq(w.thread, 1, n)[j] = w.thread[1 + j - 1]
    BY <1>2, <2>1, SubSeqProperties
  <2>4. n - 1 + 1 = n /\ \A j \in 1..n : 1 + j - 1 = j BY <2>2
  <2> QED BY <2>2, <2>3, <2>4
<1>4. w.open
  <2>1. CASE ~w.open
    <3>1. w.thread = <<>> BY <2>1 DEF Sound, Heads
    <3>2. Len(w.thread) = 0 BY <3>1
    <3> QED BY <3>2
  <2> QED BY <2>1
<1>5. Rewritten(v, w) /\ v.open = w.open /\ v.thread = th /\ v.changes = w.changes
  <2>1. Reread(v, w, w.open, th, w.changes) BY <1>1, <1>2, <1>3, <1>4, ReadingIs
  <2> QED BY <2>1 DEF Reread
<1>6. ASSUME NEW j \in 1..Len(th), IsCall(th[j]) PROVE Said(th, j, w.run[th[j].id[1]], w.latest, tk, ct)
  <2>1. j \in 1..(i - 1) /\ j \in 1..Len(w.thread) /\ th[j] = w.thread[j] BY <1>2, <1>3
  <2>2. PICK x : x = w.run[th[j].id[1]] OBVIOUS
  <2>3. Said(w.thread, j, x, w.latest, tk, ct) BY <1>6, <2>1, <2>2 DEF Sound
  <2>4. LastWord(w.thread, j) => LastWord(th, j) BY <1>2, <1>3, <2>1 DEF LastWord
  <2>5. ASSUME Replied(w.thread, j) PROVE Replied(th, j)
    <3>1. PICK k \in (j + 1)..Len(w.thread) : w.thread[k].k = "results" /\ w.thread[k].id = w.thread[j].id /\ \A n \in (j + 1)..(k - 1) : w.thread[n].k = "note"
      BY <2>5 DEF Replied
    <3>2. k # i BY <3>1
    <3>3. ~(k > i)
      <4> SUFFICES ASSUME k > i PROVE FALSE
        OBVIOUS
      <4>1. i \in (j + 1)..(k - 1) BY <1>2, <2>1
      <4> QED BY <3>1, <4>1
    <3>4. k \in (j + 1)..Len(th) /\ k \in 1..(i - 1) /\ \A n \in (j + 1)..(k - 1) : n \in 1..(i - 1) BY <1>2, <1>3, <2>1, <3>1, <3>2, <3>3
    <3>5. th[k].k = "results" /\ th[k].id = th[j].id /\ \A n \in (j + 1)..(k - 1) : th[n].k = "note" BY <1>3, <2>1, <3>1, <3>4
    <3> QED BY <3>4, <3>5 DEF Replied
  <2>6. Said(th, j, x, w.latest, tk, ct) BY <2>1, <2>3, <2>4, <2>5 DEF Said
  <2> QED BY <2>2, <2>6
<1>7. Tells(v.thread, w, tk, ct) BY <1>5, <1>6 DEF Tells
<1>8. Sound(v, tk, nd, ap, lt, ct) BY <1>5, <1>7, Rewrites
<1> QED BY <1>5, <1>8 DEF Reread

\* A note disturbs no answer.
LEMMA Noted ==
  ASSUME Limits, NEW tk, NEW nd, NEW ap, NEW lt, NEW ct, NEW w, Sound(w, tk, nd, ap, lt, ct), w.open, NEW m \in Msgs, m.k = "note",
         NEW th, th = Append(w.thread, m), NEW ch \in SUBSET Entries, NEW v, v = Reading(w, w.open, th, ch)
  PROVE  Sound(v, tk, nd, ap, lt, ct) /\ Reread(v, w, w.open, th, ch)
<1>1. w \in Windows BY DEF Sound
<1>2. w.thread \in Seq(Msgs) /\ Len(w.thread) \in Nat /\ w.open \in BOOLEAN BY <1>1 DEF Windows
<1>3. th = w.thread \o <<m>> BY <1>2
<1>4. PICK ms \in Seq(Msgs) : ms = <<m>>
  <2>1. <<m>> \in Seq(Msgs) OBVIOUS
  <2> QED BY <2>1
<1>5. Len(ms) = 1 /\ ms[1] = m BY <1>4
<1>6. /\ th \in Seq(Msgs) /\ Len(th) = Len(w.thread) + Len(ms)
      /\ \A i \in 1..Len(w.thread) : th[i] = w.thread[i]
      /\ \A i \in 1..Len(ms) : th[Len(w.thread) + i] = ms[i]
      /\ \A i \in 1..Len(w.thread) : /\ Replied(w.thread, i) => Replied(th, i)
                                     /\ LastWord(w.thread, i) /\ (\A k \in 1..Len(ms) : ms[k].k = "note") => LastWord(th, i)
  <2>1. th = w.thread \o ms BY <1>3, <1>4
  <2> QED BY <1>2, <2>1, Appended
<1>7. Rewritten(v, w) /\ v.open = w.open /\ v.thread = th /\ v.changes = ch
  <2>1. Reread(v, w, w.open, th, ch) BY <1>1, <1>2, <1>6, ReadingIs
  <2> QED BY <2>1 DEF Reread
<1>8. ASSUME NEW j \in 1..Len(th), IsCall(th[j]) PROVE Said(th, j, w.run[th[j].id[1]], w.latest, tk, ct)
  <2>1. j \in 1..Len(w.thread)
    <3>1. j # Len(w.thread) + 1
      <4>1. CASE j = Len(w.thread) + 1
        <5>1. th[j] = m BY <1>5, <1>6, <4>1
        <5> QED BY <1>8, <5>1 DEF IsCall
      <4> QED BY <4>1
    <3> QED BY <1>2, <1>5, <1>6, <3>1
  <2>2. th[j] = w.thread[j] BY <1>6, <2>1
  <2>3. PICK x : x = w.run[th[j].id[1]] OBVIOUS
  <2>4. Said(w.thread, j, x, w.latest, tk, ct) BY <1>8, <2>1, <2>2, <2>3 DEF Sound
  <2>5. (LastWord(w.thread, j) => LastWord(th, j)) /\ (Replied(w.thread, j) => Replied(th, j))
    <3>1. \A k \in 1..Len(ms) : ms[k].k = "note" BY <1>5
    <3> QED BY <1>6, <2>1, <3>1
  <2>6. Said(th, j, x, w.latest, tk, ct) BY <2>2, <2>4, <2>5 DEF Said
  <2> QED BY <2>3, <2>6
<1>9. Tells(v.thread, w, tk, ct) BY <1>7, <1>8 DEF Tells
<1>10. Sound(v, tk, nd, ap, lt, ct) BY <1>7, <1>9, Rewrites
<1> QED BY <1>7, <1>10 DEF Reread

\* What a stop makes of a window.
Halts(w, u) == u = w \/ \E r \in A!Runs : r = w.active /\ ((Onward(w, u, r) /\ ~Made(w.run[r])) \/ Leaves(u, w, r))

\* Whoever is stopped, or nobody.
LEMMA StopFrom ==
  ASSUME Limits, NEW tk, NEW nd, NEW ap, NEW lt, NEW ct, NEW w, Sound(w, tk, nd, ap, lt, ct),
         NEW had \in BOOLEAN, NEW u, u = A!Unwind(A!Abort(w), w.active, had)
  PROVE  Sound(u, tk, nd, ap, lt, ct) /\ Halts(w, u)
<1>1. w \in Windows /\ w.active \in Holder BY OfActive
<1>2. CASE w.active = 0
  <2>1. u = w BY <1>2 DEF A!Unwind, A!Abort
  <2> QED BY <2>1 DEF Halts
<1>3. CASE w.active # 0
  <2>1. PICK r \in A!Runs : r = w.active BY <1>1, <1>3 DEF Holder
  <2>2. PICK v : v = A!Abort(w) OBVIOUS
  <2>3. u = A!Unwind(v, r, had) BY <2>1, <2>2
  <2>4. Sound(u, tk, nd, ap, lt, ct) /\ ((Onward(w, u, r) /\ ~Made(w.run[r])) \/ Leaves(u, w, r)) BY <2>1, <2>2, <2>3, Stops
  <2> QED BY <2>1, <2>4 DEF Halts
<1> QED BY <1>2, <1>3

\* Stop keeps the window whole, and nobody's edit comes of it.
LEMMA StopIs ==
  ASSUME Limits, Whole, A!Stop
  PROVE  Whole' /\ Halts(window, window')
<1>1. PICK had \in BOOLEAN : window' = A!Unwind(A!Abort(window), window.active, had) BY DEF A!Stop
<1>2. PICK u : u = window' OBVIOUS
<1>3. Sound(u, took, needed, approved, late, cut) /\ Halts(window, u) BY <1>1, <1>2, StopFrom DEF Whole
<1> QED BY <1>2, <1>3 DEF Whole, A!Stop, A!Quiet

\* The person sends.
LEMMA SendIs ==
  ASSUME Limits, Whole, NEW r \in A!Runs, A!Send(r)
  PROVE  Whole' /\ Onward(window, window', r) /\ Idles(window', r) /\ ~Made(window.run[r])
<1>1. Sound(window, took, needed, approved, late, cut) /\ window.run[r].at = "off" BY DEF Whole, A!Send, A!IsNext
<1>2. PICK p \in {"opening", "over"} : p = IF window.active # 0 /\ ~window.run[window.active].aborted THEN "over" ELSE "opening" OBVIOUS
<1>3. PICK u : u = window' /\ u = Shift(window, r, p) BY <1>2 DEF A!Send, A!Begin, Shift
<1>4. Sound(u, took, needed, approved, late, cut) /\ Onward(window, u, r) /\ Shifted(u, window, r, p) BY <1>1, <1>3, Shifts
<1>5. Idles(u, r) BY <1>4 DEF Shifted, Idles, A!Waiting
<1>6. ~Made(window.run[r])
  <2>1. Placed(window.run[r], r, window.latest, window.active) BY <1>1 DEF Sound
  <2> QED BY <1>1, <2>1 DEF Placed, Made
<1> QED BY <1>3, <1>4, <1>5, <1>6 DEF Whole, A!Send, A!Quiet

\* A stop, and a thread cut short with a run that is opening: in either order.
AtOnce(w, ru, ap, th) == [w EXCEPT !.run = ru, !.shown = "none", !.card = A!NoCall, !.approval = ap, !.thread = th]

\* To stop a run, to shorten the thread and to begin another come to the same in any order.
LEMMA Commutes ==
  ASSUME NEW w \in Windows, NEW a \in A!Runs, a = w.active, NEW r \in A!Runs, r # a, NEW th \in Seq(Msgs), NEW p,
         NEW v, v = Shift(Reading(w, w.open, th, w.changes), r, p)
  PROVE  Shift([A!Abort(w) EXCEPT !.thread = th], r, p) = A!Abort(v)
<1>1. a # 0 BY DEF A!Runs
<1>2. PICK ru : ru = [[w.run EXCEPT ![r].at = p] EXCEPT ![a].aborted = TRUE] OBVIOUS
<1>3. ru = [[w.run EXCEPT ![a].aborted = TRUE] EXCEPT ![r].at = p] BY <1>2 DEF Windows
<1>4. PICK ap : ap = IF w.approval = a THEN 0 ELSE w.approval OBVIOUS
<1>5. A!Abort(w) = [w EXCEPT !.run[a].aborted = TRUE, !.shown = "none", !.card = A!NoCall, !.approval = ap] BY <1>1, <1>4 DEF A!Abort, Windows
<1>6. Shift([A!Abort(w) EXCEPT !.thread = th], r, p) = AtOnce(w, ru, ap, th) BY <1>3, <1>5 DEF Shift, AtOnce, Windows
<1>7. v = [w EXCEPT !.run[r].at = p, !.thread = th] BY DEF Shift, Reading, Windows
<1>8. v.active = a /\ v.approval = w.approval BY <1>7 DEF Windows
<1>9. A!Abort(v) = [v EXCEPT !.run[a].aborted = TRUE, !.shown = "none", !.card = A!NoCall, !.approval = ap]
  <2>1. A!Abort(v) = [v EXCEPT !.run[a].aborted = TRUE, !.shown = "none", !.card = A!NoCall, !.approval = IF @ = a THEN 0 ELSE @] BY <1>1, <1>8 DEF A!Abort
  <2> QED BY <1>4, <1>7, <1>8, <2>1 DEF Windows
<1>10. A!Abort(v) = AtOnce(w, ru, ap, th)
  <2>1. PICK rv : rv = [w.run EXCEPT ![r].at = p] OBVIOUS
  <2>2. v = [w EXCEPT !.run = rv, !.thread = th] BY <1>7, <2>1
  <2>3. v.run = rv BY <2>2 DEF Windows
  <2>4. A!Abort(v) = [v EXCEPT !.run = ru, !.shown = "none", !.card = A!NoCall, !.approval = ap] BY <1>2, <1>9, <2>1, <2>3
  <2> QED BY <2>2, <2>4 DEF AtOnce, Windows
<1> QED BY <1>6, <1>10

\* A message is sent again.
LEMMA RetryIs ==
  ASSUME Limits, Whole, NEW r \in A!Runs, NEW i \in DOMAIN window.thread, A!Retry(r, i)
  PROVE  /\ Whole'
         /\ \E v, z : /\ Rewritten(v, window) /\ v.open = window.open /\ v.changes = window.changes
                      /\ Sound(z, took, needed, approved, late, cut') /\ Onward(v, z, r) /\ Idles(z, r) /\ ~Made(window.run[r]) /\ Halts(z, window')
<1>1. Sound(window, took, needed, approved, late, cut) /\ window.run[r].at = "off" /\ window \in Windows BY DEF Whole, A!Retry, A!IsNext, Sound
<1>2. i \in 1..Len(window.thread) /\ window.thread[i].k = "user"
  <2>1. window.thread \in Seq(Msgs) BY <1>1 DEF Windows
  <2>2. DOMAIN window.thread = 1..Len(window.thread) BY <2>1, ElementOfSeq
  <2> QED BY <2>2 DEF A!Retry
<1>3. took' = took /\ needed' = needed /\ approved' = approved /\ late' = late /\ (cut => cut') BY DEF A!Retry
<1>4. PICK th : th = SubSeq(window.thread, 1, i - 1) OBVIOUS
<1>5. PICK v : v = Reading(window, window.open, th, window.changes) OBVIOUS
<1>6. Sound(v, took, needed, approved, late, cut) /\ Rewritten(v, window) /\ v.open = window.open /\ v.thread = th /\ v.changes = window.changes
  <2>1. Sound(v, took, needed, approved, late, cut) /\ Reread(v, window, window.open, th, window.changes) BY <1>1, <1>2, <1>4, <1>5, Shorter
  <2> QED BY <2>1 DEF Reread
<1>7. Sound(v, took, needed, approved, late, cut') BY <1>3, <1>6, SoundCut
<1>8. PICK had \in BOOLEAN :
        window' = A!Unwind(A!Begin([(IF window.shown = "none" THEN window ELSE A!Abort(window)) EXCEPT !.thread = SubSeq(@, 1, i - 1)], r),
                         IF window.shown = "none" THEN 0 ELSE window.active, had)
  BY DEF A!Retry
<1>9. PICK s : s = IF window.shown = "none" THEN window ELSE A!Abort(window) OBVIOUS
<1>10. PICK p \in {"opening", "over"} : p = IF s.active # 0 /\ ~s.run[s.active].aborted THEN "over" ELSE "opening" OBVIOUS
<1>11. s \in Windows /\ s.thread = window.thread /\ s.active = window.active
  <2>1. CASE window.active = 0 BY <1>1, <1>9, <2>1 DEF A!Abort
  <2>2. CASE window.active # 0
    <3>1. window.active \in A!Runs BY <1>1, <2>2, OfActive
    <3>2. Halted(A!Abort(window), window, window.active) BY <1>1, <3>1, AbortIs
    <3> QED BY <1>1, <1>9, <3>2 DEF Halted
  <2> QED BY <2>1, <2>2
<1>12. PICK b : b = [s EXCEPT !.thread = th] OBVIOUS
<1>13. b = [s EXCEPT !.thread = SubSeq(@, 1, i - 1)] /\ b.active = s.active /\ b.run = s.run BY <1>4, <1>11, <1>12 DEF Windows
<1>14. A!Begin(b, r) = Shift(b, r, p) BY <1>10, <1>13 DEF A!Begin, Shift
<1>15. window' = A!Unwind(Shift(b, r, p), IF window.shown = "none" THEN 0 ELSE window.active, had) BY <1>8, <1>9, <1>13, <1>14
<1>16. PICK z : z = Shift(v, r, p) OBVIOUS
<1>17. v.run[r].at \in {"off", "opening"} BY <1>1, <1>6 DEF Rewritten
<1>18. Sound(z, took, needed, approved, late, cut') /\ Onward(v, z, r) /\ Shifted(z, v, r, p) BY <1>7, <1>16, <1>17, Shifts
<1>19. z.active = window.active BY <1>6, <1>18 DEF Shifted, Rewritten
<1>20. PICK u : u = window' OBVIOUS
<1> DEFINE Goal == Sound(u, took, needed, approved, late, cut') /\ Halts(z, u)
<1>21. ASSUME window.shown = "none" \/ window.active = 0 PROVE Goal
  <2>1. s = window BY <1>9, <1>21 DEF A!Abort
  <2>2. b = v BY <1>1, <1>5, <1>12, <2>1 DEF Reading, Windows
  <2>3. u = z BY <1>15, <1>16, <1>20, <1>21, <2>2 DEF A!Unwind
  <2> QED BY <1>18, <2>3 DEF Halts
<1>22. ASSUME window.shown # "none", window.active # 0 PROVE Goal
  <2>1. PICK a \in A!Runs : a = window.active BY <1>1, <1>22, OfActive
  <2>2. r # a
    <3>1. UnderWay(window.run[a]) BY <1>1, <1>22, <2>1, OfActive
    <3> QED BY <1>1, <3>1 DEF UnderWay, Going
  <2>3. th \in Seq(Msgs) BY <1>6 DEF Rewritten, Windows
  <2>4. b = [A!Abort(window) EXCEPT !.thread = th] BY <1>9, <1>12, <1>22
  <2>5. Shift(b, r, p) = A!Abort(z) BY <1>1, <1>5, <1>16, <2>1, <2>2, <2>3, <2>4, Commutes
  <2>6. u = A!Unwind(A!Abort(z), z.active, had) BY <1>15, <1>19, <1>20, <1>22, <2>5
  <2> QED BY <1>18, <2>6, StopFrom
<1>23. Goal BY <1>21, <1>22
<1>24. Idles(z, r) BY <1>18 DEF Shifted, Idles, A!Waiting
<1>25. ~Made(window.run[r])
  <2>1. Placed(window.run[r], r, window.latest, window.active) BY <1>1 DEF Sound
  <2> QED BY <1>1, <2>1 DEF Placed, Made
<1> QED BY <1>3, <1>6, <1>18, <1>20, <1>23, <1>24, <1>25 DEF Whole

\* The thread is cleared: what streams ends.
LEMMA ClearIs ==
  ASSUME Limits, Whole, A!Clear
  PROVE  Whole' /\ window'.changes = {}
<1>1. Sound(window, took, needed, approved, late, cut) /\ window \in Windows BY DEF Whole, Sound
<1>2. took' = took /\ needed' = needed /\ approved' = approved /\ late' = late BY DEF A!Clear
<1>3. PICK v : v = Reading(window, window.open, <<>>, {}) OBVIOUS
<1>4. PICK ct \in BOOLEAN : ct = (cut \/ window.active # 0) OBVIOUS
<1>5. window.open \in BOOLEAN BY <1>1 DEF Windows
<1>6. Sound(v, took, needed, approved, late, cut') /\ Rewritten(v, window) /\ v.changes = {}
  <2>1. PICK o \in BOOLEAN : o = window.open BY <1>5
  <2>2. v = Reading(window, o, <<>>, {}) BY <1>3, <2>1
  <2>3. PICK ct2 : ct2 = cut' OBVIOUS
  <2>4. Sound(v, took, needed, approved, late, ct2) /\ Reread(v, window, o, <<>>, {}) BY <1>1, <2>2, Emptier
  <2> QED BY <2>3, <2>4 DEF Reread
<1>7. v = [window EXCEPT !.thread = <<>>, !.changes = {}] BY <1>1, <1>3 DEF Reading, Windows
<1>8. PICK had \in BOOLEAN : window' = A!Unwind(v, window.overlay, had) BY <1>7 DEF A!Clear
<1>9. PICK u : u = window' OBVIOUS
<1>10. v.overlay = window.overlay /\ v \in Windows BY <1>6 DEF Rewritten
<1>11. window.overlay \in {0, window.active} /\ window.active \in Holder BY <1>1, OfActive
<1> DEFINE Goal == Sound(u, took, needed, approved, late, cut') /\ u.changes = {}
<1>12. ASSUME window.overlay = 0 PROVE Goal
  <2>1. u = v BY <1>8, <1>9, <1>12 DEF A!Unwind
  <2> QED BY <1>6, <2>1
<1>13. ASSUME window.overlay # 0 PROVE Goal
  <2>1. PICK r \in A!Runs : r = window.overlay /\ r # 0 BY <1>11, <1>13 DEF Holder
  <2>2. v.run[r].at = "model" BY <1>6, <1>10, <2>1 DEF Sound, Heads
  <2>3. PICK st \in {"none", "error", "denied"} : st = IF had THEN "denied" ELSE "none" OBVIOUS
  <2>4. u = A!Ends(v, r, st) BY <1>8, <1>9, <2>1, <2>2, <2>3 DEF A!Unwind
  <2>5. PICK b : b = Plainly(v, r) OBVIOUS
  <2>6. Loose(b, v, r) /\ b.changes = v.changes BY <1>6, <2>2, <2>5, BareLoose
  <2>7. Replies(v, b, r, took, needed, approved, late, cut') BY <1>6, <1>10, <2>2, <2>5, <2>6, RepliesFrom
  <2>8. Sound(u, took, needed, approved, late, cut') /\ Onward(b, u, r) BY <2>3, <2>4, <2>7, EndsIs
  <2> QED BY <1>6, <2>6, <2>8 DEF Onward
<1>14. Goal BY <1>12, <1>13
<1> QED BY <1>2, <1>9, <1>14 DEF Whole

\* To stop what runs and to close the thread come to the same in either order.
LEMMA AbortReading ==
  ASSUME NEW w \in Windows, NEW o, NEW th, NEW ch
  PROVE  Reading(A!Abort(w), o, th, ch) = A!Abort(Reading(w, o, th, ch))
<1>1. PICK a \in Holder : a = w.active BY DEF Windows
<1>2. PICK ap : ap = IF w.approval = a THEN 0 ELSE w.approval OBVIOUS
<1>3. PICK v : v = Reading(w, o, th, ch) OBVIOUS
<1>4. v = [w EXCEPT !.open = o, !.thread = th, !.changes = ch] /\ v.active = a /\ v.approval = w.approval BY <1>1, <1>3 DEF Reading, Windows
<1>5. CASE a = 0 BY <1>1, <1>3, <1>4, <1>5 DEF A!Abort
<1>6. CASE a # 0
  <2>1. PICK ru : ru = [w.run EXCEPT ![a].aborted = TRUE] OBVIOUS
  <2>2. v.run = w.run BY <1>4 DEF Windows
  <2>3. PICK s : s = A!Abort(w) OBVIOUS
  <2>4. s = [w EXCEPT !.run = ru, !.shown = "none", !.card = A!NoCall, !.approval = ap] BY <1>1, <1>2, <1>6, <2>1, <2>3 DEF A!Abort, Windows
  <2>5. A!Abort(v) = [v EXCEPT !.run = ru, !.shown = "none", !.card = A!NoCall, !.approval = ap]
    <3>1. A!Abort(v) = [v EXCEPT !.run[a].aborted = TRUE, !.shown = "none", !.card = A!NoCall, !.approval = IF @ = a THEN 0 ELSE @] BY <1>4, <1>6 DEF A!Abort
    <3>2. A!Abort(v) = [v EXCEPT !.run = [v.run EXCEPT ![a].aborted = TRUE], !.shown = "none", !.card = A!NoCall,
                                 !.approval = IF v.approval = a THEN 0 ELSE v.approval] BY <1>4, <3>1 DEF Windows
    <3> QED BY <1>2, <1>4, <2>1, <2>2, <3>2
  <2>6. [s EXCEPT !.open = o, !.thread = th, !.changes = ch] = [v EXCEPT !.run = ru, !.shown = "none", !.card = A!NoCall, !.approval = ap]
    BY <1>4, <2>4 DEF Windows
  <2> QED BY <1>3, <2>3, <2>5, <2>6 DEF Reading
<1> QED BY <1>5, <1>6

\* The thread is deleted: what runs is stopped.
LEMMA DeleteIs ==
  ASSUME Limits, Whole, A!Delete
  PROVE  Whole' /\ window'.changes = {}
<1>1. Sound(window, took, needed, approved, late, cut) /\ window \in Windows BY DEF Whole, Sound
<1>2. took' = took /\ needed' = needed /\ approved' = approved /\ late' = late /\ cut' = cut BY DEF A!Delete
<1>3. PICK v : v = Reading(window, FALSE, <<>>, {}) OBVIOUS
<1>4. Sound(v, took, needed, approved, late, cut) /\ Rewritten(v, window) /\ v.changes = {} /\ v \in Windows
  <2>1. PICK o \in BOOLEAN : o = FALSE OBVIOUS
  <2>2. v = Reading(window, o, <<>>, {}) BY <1>3, <2>1
  <2>3. Sound(v, took, needed, approved, late, cut) /\ Reread(v, window, o, <<>>, {}) BY <1>1, <2>2, Emptier
  <2> QED BY <2>3 DEF Reread, Rewritten
<1>5. PICK s : s = IF window.shown = "none" THEN window ELSE A!Abort(window) OBVIOUS
<1>6. window' = A!Unwind([s EXCEPT !.open = FALSE, !.thread = <<>>, !.changes = {}], IF window.shown = "none" THEN 0 ELSE window.active, FALSE)
  BY <1>5 DEF A!Delete
<1>7. PICK u : u = window' OBVIOUS
<1>8. v.active = window.active /\ v.approval = window.approval BY <1>4 DEF Rewritten
<1> DEFINE Goal == Sound(u, took, needed, approved, late, cut) /\ u.changes = {}
<1>9. ASSUME window.shown = "none" PROVE Goal
  <2>1. v = [s EXCEPT !.open = FALSE, !.thread = <<>>, !.changes = {}] BY <1>3, <1>5, <1>9 DEF Reading
  <2>2. u = v BY <1>6, <1>7, <1>9, <2>1 DEF A!Unwind
  <2> QED BY <1>4, <2>2
<1>10. ASSUME window.shown # "none" PROVE Goal
  <2>1. Reading(s, FALSE, <<>>, {}) = A!Abort(v)
    <3>1. s = A!Abort(window) BY <1>5, <1>10
    <3>2. PICK o : o = FALSE OBVIOUS
    <3>3. Reading(s, o, <<>>, {}) = A!Abort(Reading(window, o, <<>>, {})) BY <1>1, <3>1, AbortReading
    <3> QED BY <1>3, <3>2, <3>3
  <2>2. PICK had \in BOOLEAN : had = FALSE OBVIOUS
  <2>3. u = A!Unwind(A!Abort(v), v.active, had)
    <3>1. window' = A!Unwind(Reading(s, FALSE, <<>>, {}), window.active, had) BY <1>6, <1>10, <2>2 DEF Reading
    <3> QED BY <1>7, <1>8, <2>1, <3>1
  <2>4. Sound(u, took, needed, approved, late, cut) /\ Halts(v, u) BY <1>4, <2>3, StopFrom
  <2>5. u.changes = v.changes BY <2>4 DEF Halts, Onward, Leaves
  <2> QED BY <1>4, <2>4, <2>5
<1>11. Goal BY <1>9, <1>10
<1> QED BY <1>2, <1>7, <1>11 DEF Whole

\* The window is loaded anew: what was asked of the runtime may still come.
Reloaded(x) == IF x.at = "off" THEN x
               ELSE IF x.op = "sent" /\ x.kind \in {"edit", "write"} THEN [x EXCEPT !.at = "over", !.token = 0] ELSE [A!Idle EXCEPT !.at = "over"]
Loaded(w) == [w EXCEPT !.run = [r \in A!Runs |-> Reloaded(@[r])], !.latest = 0, !.active = 0, !.approval = 0,
                       !.card = A!NoCall, !.shown = "none", !.overlay = 0, !.allowed = {}]

\* A run after a reload is off, or over, and at most its edit is still on the way.
LEMMA GoneIs ==
  ASSUME Limits, NEW r, NEW t, NEW a, NEW tk, NEW nd, NEW ap, NEW l, NEW x \in Records, Placed(x, r, t, a), Counted(x, r, tk, nd, ap, l), NEW y, y = Reloaded(x)
  PROVE  /\ y \in Records /\ y.token = 0 /\ y.at \in {"off", "over"} /\ (x.at # "off" => y.at = "over")
         /\ Placed(y, r, 0, 0) /\ Counted(y, r, tk, nd, ap, l)
         /\ y.op # "none" => y.op = "sent" /\ x.op = "sent" /\ x.kind \in {"edit", "write"} /\ y.step = x.step
<1>1. CASE x.at = "off"
  <2>1. y = x /\ x.token = 0 /\ ~x.aborted /\ x.op = "none" /\ ~x.quiet BY <1>1 DEF Reloaded, Placed
  <2>2. Placed(y, r, 0, 0) BY <1>1, <2>1 DEF Placed, UnderWay, Going
  <2> QED BY <1>1, <2>1, <2>2
<1>2. CASE x.at # "off" /\ x.op = "sent" /\ x.kind \in {"edit", "write"}
  <2>1. y = [x EXCEPT !.at = "over", !.token = 0] BY <1>2 DEF Reloaded
  <2>2. PICK p \in Places : p = "over" BY DEF Places
  <2>3. PICK z \in Records : z = [x EXCEPT !.at = p] BY DEF Records
  <2>4. [z EXCEPT !.token = 0] \in Records BY DEF Records
  <2>5. y \in Records BY <2>1, <2>2, <2>3, <2>4
  <2>6. y.at = "over" /\ y.token = 0 /\ y.op = x.op /\ y.kind = x.kind /\ y.step = x.step BY <2>1 DEF Records
  <2>7. Placed(y, r, 0, 0) BY <1>2, <2>6 DEF Placed, UnderWay, Going
  <2>8. Counted(y, r, tk, nd, ap, l) BY <1>2, <2>6 DEF Counted, UnderWay, Going
  <2> QED BY <1>2, <2>5, <2>6, <2>7, <2>8
<1>3. CASE x.at # "off" /\ ~(x.op = "sent" /\ x.kind \in {"edit", "write"})
  <2>1. PICK z \in Records : z = A!Idle /\ z.token = 0 /\ z.op = "none" BY IdleIs
  <2>2. y = [z EXCEPT !.at = "over"] BY <1>3, <2>1 DEF Reloaded
  <2>3. y \in Records /\ y.at = "over" /\ y.token = 0 /\ y.op = "none" BY <2>1, <2>2 DEF Records, Places
  <2>4. Placed(y, r, 0, 0) BY <2>3 DEF Placed, UnderWay, Going
  <2>5. Counted(y, r, tk, nd, ap, l) BY <2>3 DEF Counted, UnderWay, Going
  <2> QED BY <1>3, <2>3, <2>4, <2>5
<1> QED BY <1>1, <1>2, <1>3

Anewed(u, w) ==
  /\ u \in Windows /\ u.run = [r \in A!Runs |-> Reloaded(w.run[r])] /\ u.open = w.open /\ u.thread = w.thread /\ u.changes = w.changes
  /\ u.latest = 0 /\ u.active = 0 /\ u.approval = 0 /\ u.card = A!NoCall /\ u.shown = "none" /\ u.overlay = 0

\* A reload of a window.
LEMMA Reloads ==
  ASSUME Limits, NEW tk, NEW nd, NEW ap, NEW lt, NEW ct, NEW w, Sound(w, tk, nd, ap, lt, ct), NEW u, u = Loaded(w)
  PROVE  Sound(u, tk, nd, ap, lt, ct) /\ Anewed(u, w)
<1>1. w \in Windows BY DEF Sound
<1>2. ASSUME NEW r \in A!Runs
      PROVE  /\ Reloaded(w.run[r]) \in Records /\ Reloaded(w.run[r]).token = 0 /\ Reloaded(w.run[r]).at \in {"off", "over"} /\ (w.run[r].at # "off" => Reloaded(w.run[r]).at = "over")
             /\ Placed(Reloaded(w.run[r]), r, 0, 0) /\ Counted(Reloaded(w.run[r]), r, tk, nd, ap, lt[r])
             /\ Reloaded(w.run[r]).op # "none" => Reloaded(w.run[r]).op = "sent" /\ w.run[r].op = "sent" /\ Reloaded(w.run[r]).step = w.run[r].step
  <2>1. PICK x \in Records : x = w.run[r] BY <1>1, PutSame
  <2>2. Placed(x, r, w.latest, w.active) /\ Counted(x, r, tk, nd, ap, lt[r]) BY <2>1 DEF Sound
  <2>3. PICK y : y = Reloaded(x) OBVIOUS
  <2>4. /\ y \in Records /\ y.token = 0 /\ y.at \in {"off", "over"} /\ (x.at # "off" => y.at = "over")
        /\ Placed(y, r, 0, 0) /\ Counted(y, r, tk, nd, ap, lt[r])
        /\ y.op # "none" => y.op = "sent" /\ x.op = "sent" /\ x.kind \in {"edit", "write"} /\ y.step = x.step
    BY <2>2, <2>3, GoneIs
  <2> QED BY <2>1, <2>3, <2>4
<1>3. PICK f : f = [r \in A!Runs |-> Reloaded(w.run[r])] OBVIOUS
<1>4. f \in [A!Runs -> Records] /\ \A r \in A!Runs : f[r] = Reloaded(w.run[r]) BY <1>2, <1>3
<1>5. u = [w EXCEPT !.run = f, !.latest = 0, !.active = 0, !.approval = 0,
                    !.card = A!NoCall, !.shown = "none", !.overlay = 0, !.allowed = {}]
  BY <1>1, <1>3 DEF Loaded
<1>6. Anewed(u, w)
  <2>1. /\ u \in Windows /\ u.run = f /\ u.open = w.open /\ u.thread = w.thread /\ u.changes = w.changes
        /\ u.latest = 0 /\ u.active = 0 /\ u.approval = 0 /\ u.card = A!NoCall /\ u.shown = "none" /\ u.overlay = 0
    <3>1. PICK v \in Windows : v = [w EXCEPT !.run = f, !.latest = 0, !.active = 0, !.approval = 0] BY <1>1, <1>4 DEF Windows, Holder
    <3>2. v.run = f /\ v.open = w.open /\ v.thread = w.thread /\ v.changes = w.changes /\ v.latest = 0 /\ v.active = 0 /\ v.approval = 0
      BY <1>1, <3>1 DEF Windows
    <3>3. u = [v EXCEPT !.card = A!NoCall, !.shown = "none", !.overlay = 0, !.allowed = {}] BY <1>5, <3>1
    <3>4. /\ u \in Windows /\ u.run = v.run /\ u.open = v.open /\ u.thread = v.thread /\ u.changes = v.changes
          /\ u.latest = v.latest /\ u.active = v.active /\ u.approval = v.approval /\ u.card = A!NoCall /\ u.shown = "none" /\ u.overlay = 0
      BY <3>3 DEF Windows, Holder
    <3> QED BY <3>2, <3>4
  <2> QED BY <1>3, <2>1 DEF Anewed
<1>7. ASSUME NEW i \in 1..Len(u.thread), IsCall(u.thread[i])
      PROVE  Said(u.thread, i, u.run[u.thread[i].id[1]], u.latest, tk, ct)
  <2>1. u.thread = w.thread /\ u.latest = 0 BY <1>6 DEF Anewed
  <2>2. PICK m : m = w.thread[i] OBVIOUS
  <2>3. m.id[1] \in A!Runs BY <1>1, <1>7, <2>1, <2>2, MessagesOf
  <2>4. PICK q \in A!Runs : q = m.id[1] BY <2>3
  <2>5. Said(w.thread, i, w.run[q], w.latest, tk, ct) BY <1>7, <2>1, <2>2, <2>4 DEF Sound
  <2>6. PICK y : y = u.run[q] /\ y = Reloaded(w.run[q]) BY <1>3, <1>4, <1>6 DEF Anewed
  <2>7. /\ y.token = 0 /\ y.at \in {"off", "over"} /\ (w.run[q].at # "off" => y.at = "over")
        /\ y.op # "none" => y.op = "sent" /\ w.run[q].op = "sent" /\ y.step = w.run[q].step
    BY <1>2, <2>6
  <2>8. GaveWay(y, 0) /\ ~UnderWay(y) BY <2>7 DEF GaveWay, UnderWay, Going
  <2>9. MayYet(y, m.id[2]) => MayYet(w.run[q], m.id[2]) BY <2>7, <2>8 DEF MayYet
  <2>10. Said(w.thread, i, y, 0, tk, ct) BY <2>2, <2>5, <2>7, <2>8, <2>9 DEF Said
  <2> QED BY <2>1, <2>2, <2>4, <2>6, <2>10
<1>8. Heads(u)
  <2>1. \A q \in A!Runs : u.run[q].token = 0 /\ u.run[q].at # "asking" BY <1>2, <1>3, <1>4, <1>6 DEF Anewed
  <2>2. ~u.open => u.thread = <<>> BY <1>6 DEF Anewed, Sound, Heads
  <2> QED BY <1>6, <2>1, <2>2 DEF Heads, Anewed
<1>9. \A r \in A!Runs : Placed(u.run[r], r, u.latest, u.active) /\ Counted(u.run[r], r, tk, nd, ap, lt[r])
  <2>1. u.latest = 0 /\ u.active = 0 /\ \A r \in A!Runs : u.run[r] = Reloaded(w.run[r]) BY <1>3, <1>4, <1>6 DEF Anewed
  <2> QED BY <1>2, <2>1
<1>10. tk \cap nd \subseteq ap BY DEF Sound
<1>11. Sound(u, tk, nd, ap, lt, ct) BY <1>6, <1>7, <1>8, <1>9, <1>10 DEF Sound, Anewed
<1> QED BY <1>6, <1>11

\* Reload keeps the window whole.
LEMMA ReloadIs ==
  ASSUME Limits, Whole, A!Reload
  PROVE  Whole' /\ Anewed(window', window)
<1>1. Sound(window, took, needed, approved, late, cut) /\ window \in Windows BY DEF Whole, Sound
<1>2. window' = Loaded(window)
  <2>1. [r \in A!Runs |-> Reloaded(window.run[r])] = [r \in A!Runs |-> IF window.run[r].at = "off" THEN window.run[r]
           ELSE IF window.run[r].op = "sent" /\ window.run[r].kind \in {"edit", "write"} THEN [window.run[r] EXCEPT !.at = "over", !.token = 0] ELSE [A!Idle EXCEPT !.at = "over"]]
    BY DEF Reloaded
  <2> QED BY <1>1, <2>1 DEF A!Reload, Loaded
<1>3. PICK u : u = window' OBVIOUS
<1>4. Sound(u, took, needed, approved, late, cut) /\ Anewed(u, window) BY <1>1, <1>2, <1>3, Reloads
<1> QED BY <1>3, <1>4 DEF Whole, A!Reload

\* The thread stays.
LEMMA Unworded ==
  ASSUME Limits, NEW tk, NEW nd, NEW ap, NEW lt, NEW ct, NEW w, Sound(w, tk, nd, ap, lt, ct), NEW v, Rewritten(v, w), v.thread = w.thread
  PROVE  Sound(v, tk, nd, ap, lt, ct)
<1>1. Tells(v.thread, w, tk, ct) BY DEF Tells, Sound
<1> QED BY <1>1, Rewrites

\* Another policy keeps it whole.
LEMMA SetPolicyIs ==
  ASSUME Limits, Whole, NEW p \in Policies, A!SetPolicy(p)
  PROVE  Whole' /\ Rewritten(window', window) /\ window'.open = window.open /\ window'.changes = window.changes
<1>1. Sound(window, took, needed, approved, late, cut) /\ window \in Windows /\ (~window.open => window.thread = <<>>) BY DEF Whole, Sound, Heads
<1>2. PICK u : u = window' /\ u = [window EXCEPT !.policy = p] BY DEF A!SetPolicy
<1>3. Rewritten(u, window) /\ u.thread = window.thread /\ u.open = window.open /\ u.changes = window.changes BY <1>1, <1>2 DEF Rewritten, Windows
<1>4. Sound(u, took, needed, approved, late, cut) BY <1>1, <1>3, Unworded
<1> QED BY <1>2, <1>3, <1>4 DEF Whole, A!SetPolicy

\* The list is put away.
LEMMA ListGone ==
  ASSUME Limits, NEW tk, NEW nd, NEW ap, NEW lt, NEW ct, NEW w, Sound(w, tk, nd, ap, lt, ct), NEW v, v = [w EXCEPT !.changes = {}]
  PROVE  Sound(v, tk, nd, ap, lt, ct) /\ Rewritten(v, w) /\ v.open = w.open /\ v.changes = {}
<1>1. w \in Windows /\ (~w.open => w.thread = <<>>) BY DEF Sound, Heads
<1>2. Rewritten(v, w) /\ v.thread = w.thread /\ v.open = w.open /\ v.changes = {} BY <1>1 DEF Rewritten, Windows
<1> QED BY <1>2, Unworded

\* To keep the changes keeps it whole, and the list is empty.
LEMMA KeepIs ==
  ASSUME Limits, Whole, A!Keep
  PROVE  Whole' /\ window'.changes = {}
<1>1. Sound(window, took, needed, approved, late, cut) BY DEF Whole
<1>2. PICK u : u = window' /\ u = [window EXCEPT !.changes = {}] BY DEF A!Keep
<1>3. Sound(u, took, needed, approved, late, cut) /\ u.changes = {} BY <1>1, <1>2, ListGone
<1> QED BY <1>2, <1>3 DEF Whole, A!Keep

\* A revert is done with.
LEMMA RevertDoneIs ==
  ASSUME Limits, Whole, A!RevertDone
  PROVE  Whole' /\ Rewritten(window', window) /\ window'.open = window.open /\ window'.changes = {}
<1>1. Sound(window, took, needed, approved, late, cut) /\ window \in Windows BY DEF Whole, Sound
<1>2. took' = took /\ needed' = needed /\ approved' = approved /\ late' = late /\ cut' = cut BY DEF A!RevertDone, A!ghosts
<1>3. PICK u : u = window' OBVIOUS
<1> DEFINE Goal == Sound(u, took, needed, approved, late, cut) /\ Rewritten(u, window) /\ u.open = window.open /\ u.changes = {}
<1>4. ASSUME ~(panel.note /\ window.open) PROVE Goal
  <2>1. u = [window EXCEPT !.changes = {}]
    <3>1. u = [window EXCEPT !.changes = {}, !.thread = window.thread] BY <1>3, <1>4 DEF A!RevertDone
    <3> QED BY <1>1, <3>1 DEF Windows
  <2> QED BY <1>1, <2>1, ListGone
<1>5. ASSUME panel.note /\ window.open PROVE Goal
  <2>1. PICK m \in Msgs : m = A!Msg("note", A!NoCall, "none") /\ m.k = "note"
    <3>1. PICK m : m = A!Msg("note", A!NoCall, "none") OBVIOUS
    <3>2. m.k = "note" /\ m \in Msgs BY <3>1 DEF Msgs, A!Msg, Statuses, CallIds
    <3> QED BY <3>1, <3>2
  <2>2. PICK th : th = Append(window.thread, m) OBVIOUS
  <2>3. PICK ch \in SUBSET Entries : ch = {} OBVIOUS
  <2>4. u = Reading(window, window.open, th, ch)
    <3>1. u = [window EXCEPT !.changes = {}, !.thread = Append(@, m)] BY <1>3, <1>5, <2>1 DEF A!RevertDone
    <3>2. u = [window EXCEPT !.changes = {}, !.thread = th] BY <1>1, <2>2, <3>1 DEF Windows
    <3> QED BY <1>1, <2>3, <3>2 DEF Reading, Windows
  <2>5. Sound(u, took, needed, approved, late, cut) /\ Reread(u, window, window.open, th, ch) BY <1>1, <1>5, <2>1, <2>2, <2>3, <2>4, Noted
  <2> QED BY <2>3, <2>5 DEF Reread
<1>6. Goal BY <1>4, <1>5
<1> QED BY <1>2, <1>3, <1>6 DEF Whole
==============================================================================
