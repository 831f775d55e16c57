----------------------------- MODULE StudioProofs -----------------------------
(***************************************************************************)
(* What TLAPS proves of a Studio and its window (MCStudio): a change of a   *)
(* file is seen all at once or not at all (the refinement of AtomicFiles),  *)
(* and unless something else changed the file a request replaces what it    *)
(* shows; an installed engine works; a model's digest is its own file's;    *)
(* and the parts of the runtime follow the settings.                        *)
(*                                                                          *)
(* Of each there is an invariant that every step of its own keeps; the      *)
(* steps of the others do not touch its variables.                          *)
(***************************************************************************)
EXTENDS MCStudio, SequenceTheorems, TLAPS

-----------------------------------------------------------------------------
(* The files. *)

Authors == Requests \cup {Other}
Intact  == [by: Seq(Authors), kind: Kinds, mode: Modes, synced: {TRUE}]
Held    == Intact \cup {Absent}
Temps   == [is: {"none", "torn", "whole", "synced"}, mode: Modes]
Asks    == [op: {"none", "write", "edit", "remove"}, path: Paths, at: {"none", "done", "refused", "lost"} \cup Steps,
            old: Held, new: Seq(Authors), took: BOOLEAN, replaced: Held]

\* Everything a file holds or held, and could again, is on the disk whole.
Shape ==
  /\ file \in [Paths -> Held] /\ past \in [Paths -> SUBSET Held]
  /\ folder \in BOOLEAN /\ meddled \subseteq Requests
  /\ temp \in [Requests -> Temps] /\ request \in [Requests -> Asks]

Last(s) == s[Len(s)]

(* Where request r, of record q, is: whether it has changed its file, what  *)
(* it will leave there, and how far its temporary file m is.                *)
Placed(r, q, m) ==
  /\ q.took => q.at \in {"reply", "done", "lost"}
  /\ q.at \in {"reply", "done"} => q.took
  /\ q.at = "resolve" => q.op \in {"write", "edit", "remove"}
  /\ q.at = "unlink" => q.op = "remove"
  /\ q.at \in {"resolve", "folder", "check"} => q.old = Absent
  /\ q.at \in {"read", "mode"} => q.old # Absent
  /\ q.at \in {"create", "write", "sync", "mode", "rename"} => q.new # <<>> /\ Last(q.new) = r
  /\ q.at = "write" => m.is \in {"torn", "none"}
  /\ q.at = "sync" => m.is \in {"whole", "none"}
  /\ q.at \in {"mode", "rename"} => m.is \in {"synced", "none"}
  /\ q.at = "rename" /\ q.old # Absent /\ m.is # "none" => m.mode = q.old.mode
  /\ q.at \notin {"write", "sync", "mode", "rename", "clean", "lost"} => m = NoTemp

(* What it looked at is still there, and was there when it replaced it.     *)
Looked(q, now) ==
  /\ q.at \in {"folder", "check", "read", "create", "write", "sync", "mode", "rename"} => now = q.old
  /\ q.took /\ q.op # "remove" => q.old = q.replaced

(* What a request has left in a file, at present or before: in the one it   *)
(* asked to change, with the mode of what was there.                        *)
Left(r, q, p, f) ==
  f # Absent /\ Last(f.by) = r =>
    /\ q.took /\ q.path = p
    /\ q.replaced # Absent /\ r \notin meddled => f.mode = q.replaced.mode

FilesInv ==
  /\ Shape
  /\ \A r \in Requests : Placed(r, request[r], temp[r])
  /\ \A r \in Requests : r \notin meddled => Looked(request[r], Now(r))
  /\ \A r \in Requests, p \in Paths : \A f \in past[p] \cup {file[p]} : Left(r, request[r], p, f)

HeldBy == [p \in Paths |-> Bare(file[p])]
-----------------------------------------------------------------------------
(* At first a path holds nothing, or what someone else wrote.                *)
LEMMA InitHolds == ASSUME Paths # {}, Init PROVE FilesInv
<1>1. file \in [Paths -> Held] /\ \A p \in Paths : file[p] = Absent \/ file[p].by = <<Other>>
  <2>1. <<Other>> \in Seq(Authors)
    BY DEF Authors
  <2>2. \A f \in [by: {<<Other>>}, kind: Kinds \ {"torn"}, mode: Modes, synced: {TRUE}] : f \in Intact /\ f.by = <<Other>>
    BY <2>1 DEF Intact
  <2>3. QED
    BY <2>2, FilesAssumption DEF Init, Held
<1>2. NoTemp \in Temps
  BY DEF NoTemp, Temps, Modes
<1>3. NoAsk \in Asks /\ NoAsk.at = "none" /\ NoAsk.took = FALSE
  <2>1. (CHOOSE p \in Paths : TRUE) \in Paths /\ <<>> \in Seq(Authors)
    OBVIOUS
  <2>2. QED
    BY <2>1 DEF NoAsk, Asked, Asks, Held
<1>4. Shape
  BY <1>1, <1>2, <1>3 DEF Init, Shape
<1>5. ASSUME NEW r \in Requests PROVE Placed(r, request[r], temp[r]) /\ Looked(request[r], Now(r))
  BY <1>3 DEF Init, Placed, Looked
<1>6. ASSUME NEW r \in Requests, NEW p \in Paths, NEW f \in past[p] \cup {file[p]} PROVE Left(r, request[r], p, f)
  <2>1. f = Absent \/ f.by = <<Other>>
    BY <1>1 DEF Init
  <2>2. Last(<<Other>>) = Other /\ Other # r
    BY FilesAssumption DEF Last
  <2>3. QED
    BY <2>1, <2>2 DEF Left
<1>7. QED
  BY <1>4, <1>5, <1>6 DEF FilesInv

(* A file seen from outside. *)
LEMMA BareOfHeld ==
  ASSUME NEW f \in Held
  PROVE  Bare(f) \in [by: Seq(Authors), kind: Kinds] \cup {Absent}
BY DEF Held, Intact, Bare

(* And the abstract files begin as the files do.                             *)
LEMMA InitIsAtomic == ASSUME Paths # {}, Init PROVE Atomic!Init
<1>1. Shape /\ \A r \in Requests : Placed(r, request[r], temp[r])
  BY InitHolds DEF FilesInv
<1>2. [p \in Paths |-> Bare(file[p])] \in [Paths -> [by: Seq(Authors), kind: Kinds] \cup {Absent}]
  BY <1>1, BareOfHeld DEF Shape
<1>3. \A r \in Requests : request[r].took = FALSE /\ request[r].at = "none"
  BY DEF Init, NoAsk, Asked
<1>4. [p \in Paths |-> {Bare(f) : f \in past[p]}] = [p \in Paths |-> {}]
  BY DEF Init
<1>5. QED
  BY <1>2, <1>3, <1>4 DEF Atomic!Init, Authors
-----------------------------------------------------------------------------
(* A step of a request that leaves the files alone. *)

(* A request that leaves its temporary file alone leaves all of them.        *)
LEMMA SameTemp ==
  ASSUME FilesInv, NEW t \in Requests
  PROVE  temp[t] \in Temps /\ temp = [temp EXCEPT ![t] = temp[t]] /\ request[t] \in Asks
BY DEF FilesInv, Shape

(* A request that touches no file goes on without anyone noticing.           *)
LEMMA Quiet ==
  ASSUME FilesInv, NEW t \in Requests, NEW q \in Asks, NEW m \in Temps,
         request' = [request EXCEPT ![t] = q], temp' = [temp EXCEPT ![t] = m], UNCHANGED <<file, past, meddled>>,
         folder' \in BOOLEAN, Placed(t, q, m), t \notin meddled => Looked(q, file[q.path]),
         q.took = request[t].took, q.took => q.path = request[t].path /\ q.replaced = request[t].replaced
  PROVE  FilesInv'
<1>1. /\ request' \in [Requests -> Asks] /\ temp' \in [Requests -> Temps]
      /\ request'[t] = q /\ temp'[t] = m
      /\ \A r \in Requests : r # t => request'[r] = request[r] /\ temp'[r] = temp[r]
  BY DEF FilesInv, Shape
<1>2. Shape'
  BY <1>1 DEF FilesInv, Shape
<1>3. \A r \in Requests : Placed(r, request'[r], temp'[r])
  BY <1>1 DEF FilesInv
<1>4. \A r \in Requests : r \notin meddled => Looked(request'[r], file[request'[r].path])
  BY <1>1 DEF FilesInv, Now
<1>5. ASSUME NEW r \in Requests, NEW p \in Paths, NEW f \in past[p] \cup {file[p]} PROVE Left(r, request'[r], p, f)
  <2>1. Left(r, request[r], p, f)
    BY DEF FilesInv
  <2>2. QED
    BY <1>1, <2>1 DEF Left
<1>6. QED
  BY <1>2, <1>3, <1>4, <1>5 DEF FilesInv, Now, Placed, Looked, Left, NoTemp

(* Seen from outside nothing happens, unless the request is answered.       *)
LEMMA QuietIsAStutter ==
  ASSUME FilesInv, NEW t \in Requests, NEW q \in Asks, request' = [request EXCEPT ![t] = q], UNCHANGED <<file, past>>,
         q.took = request[t].took, q.at = "done" <=> request[t].at = "done"
  PROVE  UNCHANGED Atomic!vars
<1>1. /\ request'[t] = q /\ \A r \in Requests : r # t => request'[r] = request[r]
  BY DEF FilesInv, Shape
<1>2. {r \in Requests : request'[r].took} = {r \in Requests : request[r].took}
  BY <1>1
<1>3. {r \in Requests : request'[r].at = "done"} = {r \in Requests : request[r].at = "done"}
  BY <1>1
<1>4. HeldBy' = HeldBy /\ [p \in Paths |-> {Bare(f) : f \in past'[p]}] = [p \in Paths |-> {Bare(f) : f \in past[p]}]
  BY DEF HeldBy, Bare
<1>5. QED
  BY <1>2, <1>3, <1>4 DEF Atomic!vars, HeldBy, Bare

\* A request that only goes on: it has not changed its file, and is not answered.
GoesOn(t) == t \in Requests /\ FilesInv' /\ UNCHANGED Atomic!vars

(* A request is made.                                                        *)
LEMMA AskKeeps == ASSUME FilesInv, NEW t \in Requests, Ask(t) PROVE GoesOn(t)
<1>1. PICK op \in {"write", "edit", "remove"}, p \in Paths : request' = [request EXCEPT ![t] = Asked(op, p)]
  BY DEF Ask
<1> DEFINE q == Asked(op, p)
<1>2. request[t].at = "none" /\ UNCHANGED <<file, past, folder, temp, meddled>>
  BY DEF Ask, At
<1>3. ~request[t].took /\ temp[t] = NoTemp
  BY <1>2 DEF FilesInv, Placed
<1>4. <<>> \in Seq(Authors)
  OBVIOUS
<1>5. q \in Asks /\ q.took = FALSE /\ q.at = "resolve" /\ q.old = Absent /\ q.op = op
  BY <1>4 DEF Asked, Asks, Held, Steps
<1>6. Placed(t, q, temp[t]) /\ Looked(q, file[q.path])
  BY <1>3, <1>5 DEF Placed, Looked
<1>7. request[t].took = FALSE
  BY <1>3 DEF FilesInv, Shape, Asks
<1> HIDE DEF q
<1>8. FilesInv'
  BY <1>1, <1>2, <1>5, <1>6, <1>7, SameTemp, Quiet DEF FilesInv, Shape, q
<1>9. UNCHANGED Atomic!vars
  BY <1>1, <1>2, <1>5, <1>7, QuietIsAStutter DEF q
<1>10. QED
  BY <1>8, <1>9 DEF GoesOn

(* To a step where nothing is known of the request but that it has not yet  *)
(* changed its file, and with no temporary file. *)
LEMMA RefuseKeeps ==
  ASSUME FilesInv, NEW t \in Requests, Refuse(t), ~request[t].took, request[t].at # "done", temp' = [temp EXCEPT ![t] = NoTemp],
         UNCHANGED <<file, past, meddled>>, folder' \in BOOLEAN
  PROVE  GoesOn(t)
<1> DEFINE q == [request[t] EXCEPT !.at = "refused"]
<1>1. request' = [request EXCEPT ![t] = q] /\ request[t] \in Asks
  BY DEF Refuse, Go, FilesInv, Shape
<1>2. q \in Asks /\ q.at = "refused" /\ q.took = request[t].took /\ q.path = request[t].path
  BY <1>1 DEF Asks
<1>3. Placed(t, q, NoTemp) /\ Looked(q, file[q.path]) /\ NoTemp \in Temps
  BY <1>2 DEF Placed, Looked, NoTemp, Temps, Modes
<1> HIDE DEF q
<1>4. FilesInv'
  BY <1>1, <1>2, <1>3, Quiet
<1>5. UNCHANGED Atomic!vars
  BY <1>1, <1>2, QuietIsAStutter
<1>6. QED
  BY <1>4, <1>5 DEF GoesOn

(* To any other step before the change. *)
LEMMA GoKeeps ==
  ASSUME FilesInv, NEW t \in Requests, NEW q \in Asks, NEW m \in Temps, ~request[t].took,
         request' = [request EXCEPT ![t] = q], temp' = [temp EXCEPT ![t] = m], UNCHANGED <<file, past, meddled>>,
         folder' \in BOOLEAN, Placed(t, q, m), t \notin meddled => Looked(q, file[q.path]), q.took = FALSE
  PROVE  GoesOn(t)
<1>1. request[t].took = FALSE /\ request[t].at # "done" /\ q.at # "done"
  BY DEF FilesInv, Shape, Asks, Placed
<1>2. FilesInv'
  BY <1>1, Quiet
<1>3. UNCHANGED Atomic!vars
  BY <1>1, QuietIsAStutter
<1>4. QED
  BY <1>2, <1>3 DEF GoesOn

\* Before the change nothing has been taken.
LEMMA Untaken ==
  ASSUME FilesInv, NEW t \in Requests, request[t].at \notin {"reply", "done", "lost"}
  PROVE  /\ request[t].took = FALSE /\ request[t] \in Asks /\ temp[t] \in Temps
         /\ temp = [temp EXCEPT ![t] = temp[t]]
         /\ request[t].at \notin {"write", "sync", "mode", "rename", "clean"} => temp[t] = NoTemp
         /\ Placed(t, request[t], temp[t])
         /\ t \notin meddled => Looked(request[t], file[request[t].path])
         /\ file[request[t].path] \in Held
BY DEF FilesInv, Shape, Asks, Placed, Now

(* Its path is resolved in the workspace.                                    *)
LEMMA ResolveKeeps == ASSUME FilesInv, NEW t \in Requests, Resolve(t) PROVE GoesOn(t)
<1>1. request[t].at = "resolve" /\ UNCHANGED <<file, past, folder, temp, meddled>> /\ folder' \in BOOLEAN
  BY DEF Resolve, At, FilesInv, Shape
<1>2. request[t].took = FALSE /\ request[t] \in Asks /\ temp[t] = NoTemp /\ temp' = [temp EXCEPT ![t] = temp[t]] /\ request[t].old = Absent
  BY <1>1, Untaken DEF Placed
<1>3. CASE Refuse(t)
  BY <1>1, <1>2, <1>3, RefuseKeeps
<1>4. ASSUME NEW step \in {"folder", "examine", "unlink"}, Go(t, step),
             step = "folder" => Now(t) = Absent, step = "unlink" => request[t].op = "remove"
      PROVE  GoesOn(t)
  <2> DEFINE q == [request[t] EXCEPT !.at = step]
  <2>1. request' = [request EXCEPT ![t] = q]
    BY <1>4 DEF Go
  <2>2. q \in Asks /\ q.at = step /\ q.took = FALSE /\ q.path = request[t].path /\ q.op = request[t].op /\ q.old = Absent
    BY <1>2, <1>4 DEF Asks, Steps
  <2> HIDE DEF q
  <2>3. Placed(t, q, NoTemp) /\ Looked(q, file[q.path])
    BY <1>4, <2>2 DEF Placed, Looked, Now
  <2>4. QED
    BY <1>1, <1>2, <2>1, <2>2, <2>3, GoKeeps, SameTemp
<1>5. request[t].op \in {"write", "edit", "remove"}
  BY <1>1 DEF FilesInv, Placed
<1>6. QED
  BY <1>3, <1>4, <1>5 DEF Resolve

(* What is at the path is examined.                                          *)
LEMMA ExamineKeeps == ASSUME FilesInv, NEW t \in Requests, Examine(t) PROVE GoesOn(t)
<1>1. request[t].at = "examine" /\ UNCHANGED <<file, past, folder, temp, meddled>> /\ folder' \in BOOLEAN
  BY DEF Examine, At, FilesInv, Shape
<1>2. /\ request[t].took = FALSE /\ request[t] \in Asks /\ temp[t] = NoTemp /\ temp' = [temp EXCEPT ![t] = temp[t]]
      /\ file[request[t].path] \in Held
  BY <1>1, Untaken
<1>3. CASE Refuse(t)
  BY <1>1, <1>2, <1>3, RefuseKeeps
<1>4. CASE ~Refuse(t)
  <2> DEFINE q == [request[t] EXCEPT !.at = "read", !.old = Now(t)]
  <2>1. request' = [request EXCEPT ![t] = q] /\ Now(t) # Absent
    BY <1>4 DEF Examine
  <2>2. q \in Asks /\ q.at = "read" /\ q.took = FALSE /\ q.path = request[t].path /\ q.old = file[q.path]
    BY <1>2 DEF Asks, Steps, Now
  <2>3. q.old # Absent
    BY <2>1, <2>2 DEF Now
  <2> HIDE DEF q
  <2>4. Placed(t, q, NoTemp) /\ Looked(q, file[q.path])
    BY <2>2, <2>3 DEF Placed, Looked
  <2>5. QED
    BY <1>1, <1>2, <2>1, <2>2, <2>4, GoKeeps, SameTemp
<1>5. QED
  BY <1>3, <1>4

(* The old text is read and the new one made of it.                          *)
LEMMA ReadKeeps == ASSUME FilesInv, NEW t \in Requests, ReadOld(t) PROVE GoesOn(t)
<1>1. request[t].at = "read" /\ UNCHANGED <<file, past, folder, temp, meddled>> /\ folder' \in BOOLEAN
  BY DEF ReadOld, At, FilesInv, Shape
<1>2. /\ request[t].took = FALSE /\ request[t] \in Asks /\ temp[t] = NoTemp /\ temp' = [temp EXCEPT ![t] = temp[t]]
      /\ file[request[t].path] \in Held /\ request[t].old \in Intact
      /\ t \notin meddled => request[t].old = file[request[t].path]
  BY <1>1, Untaken DEF Placed, Looked, Asks, Held
<1>3. CASE Refuse(t)
  BY <1>1, <1>2, <1>3, RefuseKeeps
<1>4. CASE ~Refuse(t)
  <2> DEFINE now == Now(t)
             new == IF request[t].op = "edit" THEN Append(now.by, t) ELSE <<t>>
             read == [now EXCEPT !.mode = request[t].old.mode]
             q == [request[t] EXCEPT !.at = "create", !.old = read, !.new = new]
  <2>1. request' = [request EXCEPT ![t] = q] /\ now # Absent
    BY <1>4 DEF ReadOld
  <2>2. now \in Intact /\ (t \notin meddled => now = request[t].old)
    BY <1>2, <2>1 DEF Held, Now
  <2>3. read \in Intact /\ (t \notin meddled => read = now)
    BY <1>2, <2>2 DEF Intact
  <2>4. new \in Seq(Authors) /\ new # <<>> /\ Last(new) = t
    <3>1. t \in Authors /\ now.by \in Seq(Authors)
      BY <2>2 DEF Authors, Intact
    <3>2. Append(now.by, t) \in Seq(Authors) /\ Append(now.by, t) # <<>> /\ Last(Append(now.by, t)) = t
      BY <3>1, AppendProperties DEF Last
    <3>3. <<t>> \in Seq(Authors) /\ <<t>> # <<>> /\ Last(<<t>>) = t
      BY <3>1 DEF Last
    <3>4. QED
      BY <3>2, <3>3
  <2> HIDE DEF new, read
  <2>5. q \in Asks /\ q.at = "create" /\ q.took = FALSE /\ q.path = request[t].path /\ q.old = read /\ q.new = new
    BY <1>2, <2>3, <2>4 DEF Asks, Steps, Held
  <2>6. t \notin meddled => Looked(q, file[q.path])
    BY <2>3, <2>5 DEF Looked, Now
  <2> HIDE DEF q
  <2>7. Placed(t, q, NoTemp)
    BY <2>4, <2>5 DEF Placed
  <2>8. QED
    BY <1>1, <1>2, <2>1, <2>5, <2>6, <2>7, GoKeeps, SameTemp
<1>5. QED
  BY <1>3, <1>4

(* The folder is made and checked.                                           *)
LEMMA FolderKeeps == ASSUME FilesInv, NEW t \in Requests, MakeFolder(t) \/ CheckFolder(t) PROVE GoesOn(t)
<1>1. request[t].at \in {"folder", "check"} /\ UNCHANGED <<file, past, temp, meddled>> /\ folder' \in BOOLEAN
  BY DEF MakeFolder, CheckFolder, At, FilesInv, Shape
<1>2. /\ request[t].took = FALSE /\ request[t] \in Asks /\ temp[t] = NoTemp /\ temp' = [temp EXCEPT ![t] = temp[t]]
      /\ request[t].old = Absent /\ (t \notin meddled => file[request[t].path] = Absent)
  BY <1>1, Untaken DEF Placed, Looked
<1>3. CASE Refuse(t)
  BY <1>1, <1>2, <1>3, RefuseKeeps
<1>4. CASE Go(t, "check")
  <2> DEFINE q == [request[t] EXCEPT !.at = "check"]
  <2>1. request' = [request EXCEPT ![t] = q]
    BY <1>4 DEF Go
  <2>2. q \in Asks /\ q.at = "check" /\ q.took = FALSE /\ q.path = request[t].path /\ q.old = Absent
    BY <1>2 DEF Asks, Steps
  <2> HIDE DEF q
  <2>3. Placed(t, q, NoTemp) /\ (t \notin meddled => Looked(q, file[q.path]))
    BY <1>2, <2>2 DEF Placed, Looked
  <2>4. QED
    BY <1>1, <1>2, <2>1, <2>2, <2>3, GoKeeps, SameTemp
<1>5. CASE request' = [request EXCEPT ![t].at = "create", ![t].new = <<t>>]
  <2> DEFINE q == [request[t] EXCEPT !.at = "create", !.new = <<t>>]
  <2>1. request' = [request EXCEPT ![t] = q]
    BY <1>5
  <2>2. <<t>> \in Seq(Authors) /\ <<t>> # <<>> /\ Last(<<t>>) = t
    BY DEF Authors, Last
  <2>3. q \in Asks /\ q.at = "create" /\ q.took = FALSE /\ q.path = request[t].path /\ q.old = Absent /\ q.new = <<t>>
    BY <1>2, <2>2 DEF Asks, Steps
  <2> HIDE DEF q
  <2>4. Placed(t, q, NoTemp) /\ (t \notin meddled => Looked(q, file[q.path]))
    BY <1>2, <2>2, <2>3 DEF Placed, Looked
  <2>5. QED
    BY <1>1, <1>2, <2>1, <2>3, <2>4, GoKeeps, SameTemp
<1>6. QED
  BY <1>3, <1>4, <1>5 DEF MakeFolder, CheckFolder
-----------------------------------------------------------------------------
(* The temporary file. *)

\* The request goes on, to a step where only its temporary file is to be seen to.
LEMMA Writes ==
  ASSUME FilesInv, NEW t \in Requests, NEW step \in Steps, NEW m \in Temps,
         request[t].at \in {"create", "write", "sync", "mode", "rename"}, Go(t, step), temp' = [temp EXCEPT ![t] = m],
         UNCHANGED <<file, past, folder, meddled>>,
         step \in {"write", "sync", "mode", "rename", "clean"},
         step = "write" => m.is = "torn",
         step = "sync" => m.is \in {"whole", "none"},
         step = "mode" => request[t].old # Absent,
         step \in {"mode", "rename"} => m.is \in {"synced", "none"},
         step = "rename" /\ request[t].old # Absent /\ m.is # "none" => m.mode = request[t].old.mode
  PROVE  GoesOn(t)
<1> DEFINE q == [request[t] EXCEPT !.at = step]
<1>1. request' = [request EXCEPT ![t] = q] /\ folder' \in BOOLEAN
  BY DEF Go, FilesInv, Shape
<1>2. /\ request[t].took = FALSE /\ request[t] \in Asks /\ request[t].new # <<>> /\ Last(request[t].new) = t
      /\ t \notin meddled => file[request[t].path] = request[t].old
  BY Untaken DEF Placed, Looked
<1>3. q \in Asks /\ q.at = step /\ q.took = FALSE /\ q.path = request[t].path /\ q.old = request[t].old /\ q.new = request[t].new
  BY <1>2 DEF Asks
<1> HIDE DEF q
<1>4. Placed(t, q, m) /\ (t \notin meddled => Looked(q, file[q.path]))
  BY <1>2, <1>3 DEF Placed, Looked
<1>5. QED
  BY <1>1, <1>2, <1>3, <1>4, GoKeeps

(* A step of the write that fails leaves the temporary file to be removed.   *)
LEMMA FailsKeeps ==
  ASSUME FilesInv, NEW t \in Requests, request[t].at \in {"create", "write", "sync", "mode", "rename"}, Fails(t),
         UNCHANGED <<file, past, folder, meddled>>
  PROVE  GoesOn(t)
<1>1. Go(t, "clean") /\ temp[t] \in Temps /\ temp' = [temp EXCEPT ![t] = temp[t]]
  BY SameTemp DEF Fails
<1>2. QED
  BY <1>1, Writes DEF Steps

(* The temporary file is created, written, synced and given its mode.        *)
LEMMA TempKeeps ==
  ASSUME FilesInv, NEW t \in Requests, CreateTemp(t) \/ WriteTemp(t) \/ Sync(t) \/ SetMode(t)
  PROVE  GoesOn(t)
<1>1. UNCHANGED <<file, past, folder, meddled>> /\ request[t].at \in {"create", "write", "sync", "mode"} /\ temp[t] \in Temps
  BY SameTemp DEF CreateTemp, WriteTemp, Sync, SetMode, At
<1>2. CASE Fails(t)
  BY <1>1, <1>2, FailsKeeps
<1>3. CASE CreateTemp(t) /\ ~Fails(t)
  <2> DEFINE m == [is |-> "torn", mode |-> "plain"]
  <2>1. temp' = [temp EXCEPT ![t] = m] /\ Go(t, "write") /\ m \in Temps /\ m.is = "torn"
    BY <1>3 DEF CreateTemp, Temps, Modes
  <2> HIDE DEF m
  <2>2. QED
    BY <1>1, <2>1, Writes DEF Steps
<1>4. CASE WriteTemp(t) /\ ~Fails(t)
  <2> DEFINE m == [temp[t] EXCEPT !.is = IF @ = "torn" THEN "whole" ELSE @]
  <2>1. temp' = [temp EXCEPT ![t] = m] /\ Go(t, "sync") /\ request[t].at = "write"
    BY <1>4 DEF WriteTemp, At
  <2>2. m \in Temps /\ m.is \in {"whole", "none"}
    BY <1>1, <2>1, Untaken DEF Temps, Placed
  <2> HIDE DEF m
  <2>3. QED
    BY <1>1, <2>1, <2>2, Writes DEF Steps
<1>5. CASE Sync(t) /\ ~Fails(t)
  <2> DEFINE m == [temp[t] EXCEPT !.is = IF @ = "whole" THEN "synced" ELSE @]
             step == IF request[t].old = Absent THEN "rename" ELSE "mode"
  <2>1. temp' = [temp EXCEPT ![t] = m] /\ Go(t, step) /\ request[t].at = "sync"
    BY <1>5 DEF Sync, At
  <2>2. m \in Temps /\ m.is \in {"synced", "none"}
    BY <1>1, <2>1, Untaken DEF Temps, Placed
  <2>3. step \in Steps /\ step \in {"mode", "rename"} /\ (step = "mode" <=> request[t].old # Absent)
    BY DEF Steps
  <2> HIDE DEF m, step
  <2>4. QED
    BY <1>1, <2>1, <2>2, <2>3, Writes
<1>6. CASE SetMode(t) /\ ~Fails(t)
  <2> DEFINE m == [temp[t] EXCEPT !.mode = request[t].old.mode]
  <2>1. temp' = [temp EXCEPT ![t] = m] /\ Go(t, "rename") /\ request[t].at = "mode"
    BY <1>6 DEF SetMode, At
  <2>2. temp[t].is \in {"synced", "none"} /\ request[t].old \in Intact
    BY <2>1, Untaken DEF Placed, Asks, Held
  <2>3. m \in Temps /\ m.is \in {"synced", "none"} /\ m.mode = request[t].old.mode
    BY <1>1, <2>2 DEF Temps, Intact
  <2> HIDE DEF m
  <2>4. QED
    BY <1>1, <2>1, <2>3, Writes DEF Steps
<1>7. QED
  BY <1>2, <1>3, <1>4, <1>5, <1>6

(* A write that failed removes its temporary file and refuses.               *)
LEMMA CleanKeeps == ASSUME FilesInv, NEW t \in Requests, Clean(t) PROVE GoesOn(t)
<1>1. request[t].at = "clean" /\ UNCHANGED <<file, past, folder, meddled>> /\ folder' \in BOOLEAN
  BY DEF Clean, At, FilesInv, Shape
<1>2. QED
  BY <1>1, Untaken, RefuseKeeps DEF Clean
-----------------------------------------------------------------------------
(* The answer is told after the change. *)

(* The answer: what the abstract files call Answer.                          *)
LEMMA ReplyKeeps == ASSUME FilesInv, NEW t \in Requests, Reply(t) PROVE FilesInv' /\ Atomic!Answer(t)
<1> DEFINE q == [request[t] EXCEPT !.at = "done"]
<1>1. request' = [request EXCEPT ![t] = q] /\ request[t].at = "reply" /\ UNCHANGED <<file, past, folder, temp, meddled>>
  BY DEF Reply, Go, At
<1>2. request[t] \in Asks /\ request[t].took /\ temp[t] \in Temps /\ temp[t] = NoTemp /\ temp' = [temp EXCEPT ![t] = temp[t]]
      /\ (t \notin meddled => Looked(request[t], file[request[t].path])) /\ folder' \in BOOLEAN
  BY <1>1 DEF FilesInv, Shape, Placed, Now
<1>3. q \in Asks /\ q.at = "done" /\ q.took = request[t].took /\ q.path = request[t].path /\ q.old = request[t].old
      /\ q.replaced = request[t].replaced /\ q.op = request[t].op
  BY <1>2 DEF Asks
<1> HIDE DEF q
<1>4. Placed(t, q, temp[t]) /\ (t \notin meddled => Looked(q, file[q.path]))
  BY <1>2, <1>3 DEF Placed, Looked
<1>5. FilesInv'
  BY <1>1, <1>2, <1>3, <1>4, Quiet
<1>6. request'[t] = q /\ \A r \in Requests : r # t => request'[r] = request[r]
  BY <1>1 DEF FilesInv, Shape
<1>7. {r \in Requests : request'[r].took} = {r \in Requests : request[r].took}
  BY <1>3, <1>6
<1>8. {r \in Requests : request'[r].at = "done"} = {r \in Requests : request[r].at = "done"} \cup {t}
  BY <1>3, <1>6
<1>9. HeldBy' = HeldBy /\ [p \in Paths |-> {Bare(f) : f \in past'[p]}] = [p \in Paths |-> {Bare(f) : f \in past[p]}]
  BY <1>1 DEF HeldBy, Bare
<1>10. QED
  BY <1>2, <1>5, <1>7, <1>8, <1>9 DEF Atomic!Answer, HeldBy, Bare
-----------------------------------------------------------------------------
(* The change itself. *)

\* What a request is about to change its file into, and tells its client of it.
Changes(t, f, q) ==
  LET p == request[t].path IN
  /\ ~request[t].took /\ f \in Held
  /\ q = [request[t] EXCEPT !.at = "reply", !.took = TRUE, !.replaced = file[p]]
  /\ file' = [file EXCEPT ![p] = f] /\ past' = [past EXCEPT ![p] = @ \cup {file[p]}]
  /\ request' = [request EXCEPT ![t] = q] /\ temp' = [temp EXCEPT ![t] = NoTemp]
  /\ Meddle(p, t) /\ UNCHANGED folder
  /\ f # Absent => Last(f.by) = t /\ (t \notin meddled /\ file[p] # Absent => f.mode = file[p].mode)
  /\ t \notin meddled /\ request[t].op # "remove" => request[t].old = file[p]

(* A file takes its new state at once, whatever it was.                      *)
LEMMA ChangeKeeps ==
  ASSUME FilesInv, NEW t \in Requests, NEW f, NEW q, Changes(t, f, q)
  PROVE  FilesInv'
<1> DEFINE p == request[t].path
<1>1. /\ request[t] \in Asks /\ p \in Paths /\ file[p] \in Held /\ NoTemp \in Temps /\ request[t].took = FALSE
  BY DEF FilesInv, Shape, Asks, Changes, NoTemp, Temps, Modes
<1>2. /\ q \in Asks /\ q.at = "reply" /\ q.took = TRUE /\ q.replaced = file[p] /\ q.path = p /\ q.op = request[t].op
      /\ q.old = request[t].old
  BY <1>1 DEF Changes, Asks, Steps
<1>3. /\ request' \in [Requests -> Asks] /\ request'[t] = q /\ \A r \in Requests : r # t => request'[r] = request[r]
      /\ temp' \in [Requests -> Temps] /\ temp'[t] = NoTemp /\ \A r \in Requests : r # t => temp'[r] = temp[r]
  BY <1>1, <1>2 DEF Changes, FilesInv, Shape
<1>4. /\ file' \in [Paths -> Held] /\ file'[p] = f /\ \A z \in Paths : z # p => file'[z] = file[z]
      /\ past' \in [Paths -> SUBSET Held] /\ past'[p] = past[p] \cup {file[p]} /\ \A z \in Paths : z # p => past'[z] = past[z]
  BY <1>1 DEF Changes, FilesInv, Shape
<1>5. meddled' = meddled \cup {r \in Requests \ {t} : request[r].path = p /\ request[r].at \in Steps \ {"resolve"}}
  BY DEF Changes, Meddle
<1>6. Shape'
  BY <1>3, <1>4, <1>5 DEF Changes, FilesInv, Shape
<1>7. ASSUME NEW r \in Requests PROVE Placed(r, request[r], temp[r])'
  BY <1>2, <1>3 DEF FilesInv, Placed, NoTemp
<1>8. ASSUME NEW r \in Requests, r \notin meddled' PROVE Looked(request'[r], file'[request'[r].path])
  <2>1. CASE r = t
    BY <1>2, <1>3, <1>5, <1>8, <2>1 DEF Changes, Looked
  <2>2. CASE r # t
    <3>1. r \notin meddled /\ ~(request[r].path = p /\ request[r].at \in Steps \ {"resolve"}) /\ request'[r] = request[r]
      BY <1>3, <1>5, <1>8, <2>2
    <3>2. Looked(request[r], file[request[r].path]) /\ request[r].path \in Paths
      BY <3>1 DEF FilesInv, Now, Shape, Asks
    <3>3. QED
      BY <1>4, <3>1, <3>2 DEF Looked, Steps
  <2>3. QED
    BY <2>1, <2>2
<1>9. ASSUME NEW r \in Requests, NEW z \in Paths, NEW g \in past'[z] \cup {file'[z]} PROVE Left(r, request[r], z, g)'
  <2>1. meddled \subseteq meddled' /\ (t \notin meddled' => t \notin meddled)
    BY <1>5
  <2>2. g \in past[z] \cup {file[z]} \/ (z = p /\ g = f)
    BY <1>4
  <2>3. CASE g \in past[z] \cup {file[z]}
    <3>1. Left(r, request[r], z, g)
      BY <2>3 DEF FilesInv
    <3>2. QED
      BY <1>1, <1>3, <2>1, <3>1 DEF Left
  <2>4. CASE z = p /\ g = f
    BY <1>2, <1>3, <2>1, <2>4 DEF Changes, Left
  <2>5. QED
    BY <2>2, <2>3, <2>4
<1>10. QED
  BY <1>6, <1>7, <1>8, <1>9 DEF FilesInv, Now, Looked

(* Seen from outside it is one step.                                        *)
PastBy == [p \in Paths |-> {Bare(f) : f \in past[p]}]

(* What the abstract files see of files is of their type.                    *)
LEMMA BarePaths ==
  ASSUME NEW held \in [Paths -> Held]
  PROVE  [p \in Paths |-> Bare(held[p])] \in [Paths -> [by: Seq(Authors), kind: Kinds] \cup {Absent}]
BY BareOfHeld

(* Such a change is one step of the abstract files.                          *)
LEMMA ChangeIsATake ==
  ASSUME FilesInv, FilesInv', NEW t \in Requests, NEW f, NEW q, Changes(t, f, q), WholeOf(t, Bare(f))
  PROVE  Atomic!Next
<1>0. PICK p \in Paths : p = request[t].path
  BY DEF FilesInv, Shape, Asks
<1>1. request[t] \in Asks /\ request[t].took = FALSE /\ request[t].at # "done" /\ q.at = "reply" /\ q.took = TRUE
  <2>1. request[t] \in Asks /\ Placed(t, request[t], temp[t]) BY DEF FilesInv, Shape
  <2>2. ~request[t].took /\ q = [request[t] EXCEPT !.at = "reply", !.took = TRUE, !.replaced = file[request[t].path]] BY DEF Changes
  <2>3. request[t].took \in BOOLEAN /\ q.at = "reply" /\ q.took = TRUE BY <2>1, <2>2 DEF Asks
  <2>4. request[t].at # "done" BY <2>1, <2>2 DEF Placed
  <2> QED BY <2>1, <2>2, <2>3, <2>4
<1>2. /\ request'[t] = q /\ \A r \in Requests : r # t => request'[r] = request[r]
      /\ file'[p] = f /\ \A z \in Paths : z # p => file'[z] = file[z]
      /\ past'[p] = past[p] \cup {file[p]} /\ \A z \in Paths : z # p => past'[z] = past[z]
  BY <1>0, <1>1 DEF Changes, FilesInv, Shape
<1>3. t \notin {r \in Requests : request[r].took}
  BY <1>1
<1>4. {r \in Requests : request'[r].took} = {r \in Requests : request[r].took} \cup {t}
  BY <1>1, <1>2
<1>5. {r \in Requests : request'[r].at = "done"} = {r \in Requests : request[r].at = "done"}
  BY <1>1, <1>2
<1>6. HeldBy' \in [Paths -> [by: Seq(Authors), kind: Kinds] \cup {Absent}]
  BY BarePaths DEF FilesInv, Shape, HeldBy, Bare
<1>7. /\ \A z \in Paths \ {p} : HeldBy'[z] = HeldBy[z]
      /\ HeldBy'[p] = Bare(f)
  BY <1>1, <1>2 DEF HeldBy, Bare
<1>8. PastBy' = [PastBy EXCEPT ![p] = @ \cup {HeldBy[p]}]
  <2>1. PastBy'[p] = PastBy[p] \cup {HeldBy[p]}
    BY <1>1, <1>2 DEF PastBy, HeldBy, Bare
  <2>2. \A z \in Paths : z # p => PastBy'[z] = PastBy[z]
    BY <1>2 DEF PastBy, Bare
  <2>3. QED
    BY <1>1, <2>1, <2>2 DEF PastBy
<1>9. Atomic!Take(t, p)
  BY <1>3, <1>4, <1>5, <1>6, <1>7, <1>8 DEF Atomic!Take, Atomic!OnlyAt, HeldBy, PastBy, Bare, Authors
<1>10. QED
  BY <1>9 DEF Atomic!Next

(* The rename replaces the file, or fails and changes nothing.               *)
LEMMA RenameKeeps ==
  ASSUME FilesInv, NEW t \in Requests, Rename(t)
  PROVE  GoesOn(t) \/ (FilesInv' /\ Atomic!Next)
<1> DEFINE p == request[t].path
           f == File(request[t].new, "text", temp[t].mode, temp[t].is = "synced")
           q == [request[t] EXCEPT !.at = "reply", !.took = TRUE, !.replaced = file[p]]
<1>1. request[t].at = "rename" /\ UNCHANGED <<folder, left>>
  BY DEF Rename, At
<1>2. /\ request[t].took = FALSE /\ request[t] \in Asks /\ temp[t] \in Temps /\ temp[t].is \in {"synced", "none"}
      /\ request[t].new # <<>> /\ Last(request[t].new) = t
      /\ temp[t].is # "none" /\ request[t].old # Absent => temp[t].mode = request[t].old.mode
      /\ t \notin meddled => file[p] = request[t].old
  BY <1>1, Untaken DEF Placed, Looked
<1>3. CASE Fails(t) /\ UNCHANGED <<file, past, meddled>>
  BY <1>1, <1>3, FailsKeeps
<1>4. CASE /\ temp[t].is # "none" /\ file' = [file EXCEPT ![p] = f] /\ past' = [past EXCEPT ![p] = @ \cup {file[p]}]
           /\ request' = [request EXCEPT ![t].at = "reply", ![t].took = TRUE, ![t].replaced = file[p]]
           /\ temp' = [temp EXCEPT ![t] = NoTemp] /\ Meddle(p, t)
  <2>1. f \in Intact /\ f.by = request[t].new /\ f.kind = "text" /\ f.mode = temp[t].mode
    BY <1>2, <1>4 DEF File, Intact, Asks, Temps, Kinds
  <2>2. f.mode = temp[t].mode /\ (t \notin meddled /\ file[p] # Absent => temp[t].mode = file[p].mode)
    BY <1>2, <1>4, <2>1
  <2>3. request' = [request EXCEPT ![t] = q]
    BY <1>4
  <2> HIDE DEF f
  <2>4. Changes(t, f, q)
    BY <1>1, <1>2, <1>4, <2>1, <2>2, <2>3 DEF Changes, Held
  <2>5. WholeOf(t, Bare(f))
    BY <1>2, <2>1 DEF WholeOf, Bare, Last
  <2> HIDE DEF q
  <2>6. FilesInv'
    BY <2>4, ChangeKeeps
  <2>7. QED
    BY <2>4, <2>5, <2>6, ChangeIsATake
<1>5. QED
  BY <1>3, <1>4 DEF Rename

(* The removal removes the file, or fails and changes nothing.               *)
LEMMA UnlinkKeeps ==
  ASSUME FilesInv, NEW t \in Requests, Unlink(t)
  PROVE  GoesOn(t) \/ (FilesInv' /\ Atomic!Next)
<1> DEFINE p == request[t].path
           q == [request[t] EXCEPT !.at = "reply", !.took = TRUE, !.replaced = file[p]]
<1>1. request[t].at = "unlink" /\ UNCHANGED <<folder, temp>> /\ folder' \in BOOLEAN
  BY DEF Unlink, At, FilesInv, Shape
<1>2. request[t].took = FALSE /\ temp[t] = NoTemp /\ temp' = [temp EXCEPT ![t] = NoTemp] /\ request[t].op = "remove"
  BY <1>1, Untaken DEF Placed
<1>3. CASE Refuse(t) /\ UNCHANGED <<file, past, meddled>>
  BY <1>1, <1>2, <1>3, RefuseKeeps
<1>4. CASE /\ file' = [file EXCEPT ![p] = Absent] /\ past' = [past EXCEPT ![p] = @ \cup {file[p]}]
           /\ request' = [request EXCEPT ![t].at = "reply", ![t].took = TRUE, ![t].replaced = file[p]]
           /\ Meddle(p, t)
  <2>1. request' = [request EXCEPT ![t] = q]
    BY <1>4
  <2>2. Changes(t, Absent, q)
    BY <1>1, <1>2, <1>4, <2>1 DEF Changes, Held
  <2>3. WholeOf(t, Bare(Absent))
    BY DEF WholeOf, Bare
  <2> HIDE DEF q
  <2>4. FilesInv'
    BY <2>2, ChangeKeeps
  <2>5. QED
    BY <2>2, <2>3, <2>4, ChangeIsATake
<1>5. QED
  BY <1>3, <1>4 DEF Unlink
-----------------------------------------------------------------------------
(* Other programs. *)

\* Files of P are removed or written by another, with the temporary files beside them or not.
Elsewhere(P) ==
  /\ file' \in [Paths -> Held] /\ \A p \in Paths \ P : file'[p] = file[p]
  /\ \A p \in P : file'[p] # Absent => Last(file'[p].by) = Other
  /\ past' = [p \in Paths |-> IF p \in P THEN {} ELSE past[p]]
  /\ meddled' = meddled \cup {r \in Requests : request[r].path \in P /\ request[r].at \in Steps \ {"resolve"}}
  /\ temp' \in [Requests -> Temps] /\ \A r \in Requests : temp'[r] \in {temp[r], NoTemp}
  /\ folder' \in BOOLEAN /\ UNCHANGED request

(* Someone else changes some of the files.                                   *)
LEMMA ElsewhereKeeps ==
  ASSUME FilesInv, NEW P \in SUBSET Paths, Elsewhere(P)
  PROVE  FilesInv'
<1>1. Shape'
  BY DEF FilesInv, Shape, Elsewhere
<1>2. ASSUME NEW r \in Requests PROVE Placed(r, request[r], temp[r])'
  <2>1. Placed(r, request[r], temp[r])
    BY DEF FilesInv
  <2>2. NoTemp.is = "none"
    BY DEF NoTemp
  <2>3. QED
    BY <2>1, <2>2 DEF Elsewhere, Placed, NoTemp
<1>3. ASSUME NEW r \in Requests, r \notin meddled' PROVE Looked(request[r], file'[request[r].path])
  <2>1. r \notin meddled /\ ~(request[r].path \in P /\ request[r].at \in Steps \ {"resolve"}) /\ request[r].path \in Paths
    BY <1>3 DEF Elsewhere, FilesInv, Shape, Asks
  <2>2. Looked(request[r], file[request[r].path])
    BY <2>1 DEF FilesInv, Now
  <2>3. QED
    BY <2>1, <2>2 DEF Elsewhere, Looked, Steps
<1>4. ASSUME NEW r \in Requests, NEW p \in Paths, NEW f \in past'[p] \cup {file'[p]} PROVE Left(r, request[r], p, f)'
  <2>1. f \in past[p] \cup {file[p]} \/ (f # Absent => Last(f.by) = Other)
    BY DEF Elsewhere
  <2>2. f \in past[p] \cup {file[p]} => Left(r, request[r], p, f)
    BY DEF FilesInv
  <2>3. r # Other /\ meddled \subseteq meddled'
    BY FilesAssumption DEF Elsewhere
  <2>4. QED
    BY <2>1, <2>2, <2>3 DEF Left, Elsewhere
<1>5. QED
  BY <1>1, <1>2, <1>3, <1>4 DEF FilesInv, Now, Elsewhere, Looked

(* A program beside the Studio writes or removes a file.                     *)
LEMMA OthersKeep == ASSUME FilesInv, NEW p \in Paths, Others(p) PROVE FilesInv' /\ Atomic!Others(p)
<1>1. PICK f \in {Absent} \cup {File(<<Other>>, k, "plain", TRUE) : k \in {"text", "binary"}} : file' = [file EXCEPT ![p] = f]
  BY DEF Others
<1>2. f \in Held /\ (f # Absent => Last(f.by) = Other)
  <2>1. Absent \in Held
    BY DEF Held
  <2>2. ASSUME NEW k \in {"text", "binary"} PROVE File(<<Other>>, k, "plain", TRUE) \in Held /\ Last(File(<<Other>>, k, "plain", TRUE).by) = Other
    <3>1. <<Other>> \in Seq(Authors) /\ Last(<<Other>>) = Other
      BY DEF Authors, Last
    <3>2. QED
      BY <3>1 DEF File, Held, Intact, Kinds, Modes
  <2>3. f = Absent \/ \E k \in {"text", "binary"} : f = File(<<Other>>, k, "plain", TRUE)
    OBVIOUS
  <2>4. QED
    BY <2>1, <2>2, <2>3
<1>3. /\ file' \in [Paths -> Held] /\ file'[p] = f /\ \A z \in Paths : z # p => file'[z] = file[z]
      /\ past' = [z \in Paths |-> IF z \in {p} THEN {} ELSE past[z]]
      /\ UNCHANGED <<folder, temp, request>>
  BY <1>1, <1>2 DEF Others, FilesInv, Shape
<1>4. meddled' = meddled \cup {r \in Requests : request[r].path \in {p} /\ request[r].at \in Steps \ {"resolve"}}
  BY FilesAssumption DEF Others, Meddle
<1>5. Elsewhere({p})
  BY <1>2, <1>3, <1>4 DEF Elsewhere, FilesInv, Shape
<1>6. HeldBy' \in [Paths -> [by: Seq(Authors), kind: Kinds] \cup {Absent}] /\ \A z \in Paths \ {p} : HeldBy'[z] = HeldBy[z]
  BY <1>3, BarePaths DEF HeldBy, Bare
<1>7. PastBy' = [PastBy EXCEPT ![p] = {}]
  BY <1>3 DEF PastBy, Bare
<1>8. QED
  BY <1>3, <1>5, <1>6, <1>7, ElsewhereKeeps DEF Atomic!Others, Atomic!OnlyAt, HeldBy, PastBy, Bare, Authors

(* A program beside the Studio removes the folder.                           *)
LEMMA FolderGoesKeeps == ASSUME FilesInv, FolderGoes PROVE FilesInv' /\ Atomic!OthersRemove(InFolder)
<1>1. /\ InFolder \subseteq Paths /\ folder' = FALSE /\ UNCHANGED request
      /\ file' = [p \in Paths |-> IF p \in InFolder THEN Absent ELSE file[p]]
      /\ past' = [p \in Paths |-> IF p \in InFolder THEN {} ELSE past[p]]
      /\ temp' = [r \in Requests |-> IF request[r].path \in InFolder THEN NoTemp ELSE temp[r]]
      /\ meddled' = meddled \cup {r \in Requests : request[r].path \in InFolder /\ request[r].at \in Steps \ {"resolve"}}
  BY FilesAssumption DEF FolderGoes
<1>2. NoTemp \in Temps
  BY DEF NoTemp, Temps, Modes
<1>3. Elsewhere(InFolder)
  BY <1>1, <1>2 DEF Elsewhere, FilesInv, Shape, Held
<1>4. HeldBy' = [p \in Paths |-> IF p \in InFolder THEN Absent ELSE HeldBy[p]]
  BY <1>1 DEF HeldBy, Bare
<1>5. PastBy' = [p \in Paths |-> IF p \in InFolder THEN {} ELSE PastBy[p]]
  BY <1>1 DEF PastBy, Bare
<1>6. QED
  BY <1>1, <1>3, <1>4, <1>5, ElsewhereKeeps DEF Atomic!OthersRemove, HeldBy, PastBy, Bare
-----------------------------------------------------------------------------
(* The process or the machine dies. *)

(* The Studio is gone: its requests are over, and of each file an earlier or *)
(* the last state is left.                                                   *)
LEMMA LoseKeeps ==
  ASSUME FilesInv, Lose, file' \in [Paths -> Held], past' \in [Paths -> SUBSET Held],
         \A p \in Paths : past'[p] \cup {file'[p]} \subseteq past[p] \cup {file[p]}
  PROVE  /\ FilesInv'
         /\ {r \in Requests : request'[r].took} = {r \in Requests : request[r].took}
         /\ {r \in Requests : request'[r].at = "done"} = {r \in Requests : request[r].at = "done"}
<1>1. UNCHANGED <<folder, temp, meddled>>
  BY DEF Lose
<1>2. ASSUME NEW r \in Requests
      PROVE  /\ request'[r] \in Asks
             /\ request'[r].took = request[r].took /\ request'[r].path = request[r].path /\ request'[r].op = request[r].op
             /\ request'[r].old = request[r].old /\ request'[r].replaced = request[r].replaced
             /\ IF request[r].at \in Steps THEN request'[r].at = "lost" ELSE request'[r] = request[r]
  <2>1. request[r] \in Asks
    BY DEF FilesInv, Shape
  <2>2. request'[r] = IF request[r].at \in Steps THEN [request[r] EXCEPT !.at = "lost"] ELSE request[r]
    BY DEF Lose
  <2>3. QED
    BY <2>1, <2>2 DEF Asks
<1>3. request' \in [Requests -> Asks]
  BY <1>2 DEF Lose
<1>4. Shape'
  BY <1>1, <1>3 DEF FilesInv, Shape
<1>5. ASSUME NEW r \in Requests PROVE Placed(r, request[r], temp[r])'
  BY <1>1, <1>2 DEF FilesInv, Placed, NoTemp
<1>6. ASSUME NEW r \in Requests, r \notin meddled' PROVE Looked(request'[r], file'[request'[r].path])
  <2>1. Looked(request[r], Now(r)) /\ request'[r].at \notin Steps
    BY <1>1, <1>2, <1>6 DEF FilesInv, Steps
  <2>2. QED
    BY <1>2, <2>1 DEF Looked, Steps
<1>7. ASSUME NEW r \in Requests, NEW p \in Paths, NEW f \in past'[p] \cup {file'[p]} PROVE Left(r, request[r], p, f)'
  <2>1. Left(r, request[r], p, f)
    BY DEF FilesInv
  <2>2. QED
    BY <1>1, <1>2, <2>1 DEF Left
<1>8. {r \in Requests : request'[r].at = "done"} = {r \in Requests : request[r].at = "done"}
  BY <1>2 DEF Steps
<1>9. QED
  BY <1>2, <1>4, <1>5, <1>6, <1>7, <1>8 DEF FilesInv, Now, Looked

(* The process dies: the files are as they are, and the abstract files do    *)
(* not move.                                                                 *)
LEMMA CrashKeeps == ASSUME FilesInv, Crash PROVE FilesInv' /\ UNCHANGED Atomic!vars
<1>1. Lose /\ UNCHANGED <<file, past>>
  BY DEF Crash
<1>2. file' \in [Paths -> Held] /\ past' \in [Paths -> SUBSET Held]
  BY <1>1 DEF FilesInv, Shape
<1>3. HeldBy' = HeldBy /\ PastBy' = PastBy
  BY <1>1 DEF HeldBy, PastBy, Bare
<1>4. QED
  BY <1>1, <1>2, <1>3, LoseKeeps DEF Atomic!vars, HeldBy, PastBy, Bare

\* What comes back was synced before it was renamed, so that none of it is torn.
LEMMA PowerLossKeeps == ASSUME FilesInv, PowerLoss PROVE FilesInv' /\ Atomic!PowerLoss
<1>1. PICK kept \in SUBSET Paths : \E g \in [Paths \ kept -> UNION {past[p] : p \in Paths}] :
        /\ \A p \in Paths \ kept : g[p] \in past[p]
        /\ LET back(p) == IF p \in kept THEN file[p] ELSE g[p]
           IN file' = [p \in Paths |-> IF back(p) = Absent THEN Absent
                                       ELSE IF back(p).synced THEN back(p) ELSE [back(p) EXCEPT !.kind = "torn"]]
  BY DEF PowerLoss
<1>2. Lose /\ past' = [p \in Paths |-> {}]
  BY DEF PowerLoss
<1>3. PICK g \in [Paths \ kept -> UNION {past[p] : p \in Paths}] :
        /\ \A p \in Paths \ kept : g[p] \in past[p]
        /\ LET back(p) == IF p \in kept THEN file[p] ELSE g[p]
           IN file' = [p \in Paths |-> IF back(p) = Absent THEN Absent
                                       ELSE IF back(p).synced THEN back(p) ELSE [back(p) EXCEPT !.kind = "torn"]]
  BY <1>1
<1>4. ASSUME NEW p \in Paths PROVE file'[p] \in past[p] \cup {file[p]} /\ file'[p] \in Held
  <2> DEFINE back == IF p \in kept THEN file[p] ELSE g[p]
  <2>1. back \in past[p] \cup {file[p]} /\ back \in Held
    BY <1>3 DEF FilesInv, Shape
  <2>2. file'[p] = IF back = Absent THEN Absent ELSE IF back.synced THEN back ELSE [back EXCEPT !.kind = "torn"]
    BY <1>3
  <2> HIDE DEF back
  <2>3. back # Absent => back.synced = TRUE
    BY <2>1 DEF Held, Intact
  <2>4. QED
    BY <2>1, <2>2, <2>3
<1>5. file' \in [Paths -> Held] /\ past' \in [Paths -> SUBSET Held]
      /\ \A p \in Paths : past'[p] \cup {file'[p]} \subseteq past[p] \cup {file[p]}
  BY <1>2, <1>3, <1>4
<1>6. /\ HeldBy' \in [Paths -> [by: Seq(Authors), kind: Kinds] \cup {Absent}]
      /\ \A p \in Paths : HeldBy'[p] \in PastBy[p] \cup {HeldBy[p]}
  BY <1>4, <1>5, BarePaths DEF HeldBy, PastBy, Bare
<1>7. PastBy' = [p \in Paths |-> {}]
  BY <1>2 DEF PastBy, Bare
<1>8. QED
  BY <1>2, <1>5, <1>6, <1>7, LoseKeeps DEF Atomic!PowerLoss, Atomic!OnlyAt, HeldBy, PastBy, Bare, Authors
-----------------------------------------------------------------------------
(* A step that changes nothing is one of the abstract files' too.            *)
LEMMA NothingHappens == ASSUME FilesInv, UNCHANGED vars PROVE FilesInv' /\ UNCHANGED Atomic!vars
BY DEF vars, FilesInv, Shape, Placed, Looked, Left, Now, NoTemp, Atomic!vars, Bare

(* Every step keeps the invariant and is the abstract files' step or none of *)
(* theirs.                                                                   *)
LEMMA EveryStepKeeps ==
  ASSUME FilesInv, [Next]_vars
  PROVE  FilesInv' /\ [Atomic!Next]_Atomic!vars
<1>1. CASE UNCHANGED vars
  BY <1>1, NothingHappens
<1>2. CASE Crash
  BY <1>2, CrashKeeps
<1>3. CASE PowerLoss
  BY <1>3, PowerLossKeeps DEF Atomic!Next
<1>4. CASE FolderGoes
  BY <1>4, FolderGoesKeeps, FilesAssumption DEF Atomic!Next
<1>5. ASSUME NEW p \in Paths, Others(p) PROVE FilesInv' /\ [Atomic!Next]_Atomic!vars
  BY <1>5, OthersKeep DEF Atomic!Next
<1>6. ASSUME NEW t \in Requests, Ask(t) \/ Handler(t) PROVE FilesInv' /\ [Atomic!Next]_Atomic!vars
  <2>1. CASE GoesOn(t)
    BY <2>1 DEF GoesOn
  <2>2. CASE Reply(t)
    BY <2>2, ReplyKeeps DEF Atomic!Next
  <2>3. CASE FilesInv' /\ Atomic!Next
    BY <2>3
  <2>4. QED
    BY <1>6, <2>1, <2>2, <2>3, AskKeeps, ResolveKeeps, ExamineKeeps, ReadKeeps, FolderKeeps, TempKeeps, CleanKeeps,
       RenameKeeps, UnlinkKeeps DEF Handler
<1>7. QED
  BY <1>1, <1>2, <1>3, <1>4, <1>5, <1>6 DEF Next

-----------------------------------------------------------------------------
(* The engines. *)

InstallStages == {"none", "resolve", "main", "companion", "remove", "extract", "beside", "probe", "manifest", "apply", "clean"}
EngineJobs   == [at: InstallStages, pinned: Tags \cup {None}, flavor: Flavors \cup {None}, build: I!Builds \cup {None}]
BuildDirs   == [files: SUBSET I!Files, runs: BOOLEAN]

EngineShape == I!TypeOK /\ job \in EngineJobs

(* A job is under way while the status says so, and from the release on it  *)
(* has a build.                                                             *)
JobMatchesStatus ==
  /\ job.at = "none" <=> status \notin I!Active
  /\ job.at = "resolve" => job.flavor \in Flavors
  /\ job.at \notin {"none", "resolve"} => job.build \in I!Builds

(* From the removal to the manifest the build is not listed, nor was it set *)
(* unless its directory was there to be replaced.                           *)
Hidden ==
  job.at \in {"extract", "beside", "probe", "manifest"} =>
    job.build \in renewed \/ (job.build # setting /\ "manifest" \notin disk[job.build].files)

\* What the job has in the directory by each of its steps.
Unpacked ==
  /\ job.at = "beside" => "binary" \in disk[job.build].files
  /\ job.at = "probe" => {"binary", "library"} \subseteq disk[job.build].files
  /\ job.at \in {"manifest", "apply", "clean"} => I!Works(job.build)
  /\ job.at \in {"apply", "clean"} => job.build \in I!Installed
  /\ job.at = "clean" => setting = job.build

EnginesInv == EngineShape /\ JobMatchesStatus /\ Hidden /\ Unpacked /\ I!ListedWorks /\ I!DoneMeansWorking
-----------------------------------------------------------------------------
(* Nothing is installed at first, so the invariant says little.              *)
LEMMA EnginesAtFirst == ASSUME None \notin I!Builds, I!Init PROVE EnginesInv
<1>1. \A b \in I!Builds : disk[b] = I!Empty
  BY DEF I!Init
<1>2. EngineShape
  BY DEF I!Init, EngineShape, I!TypeOK, EngineJobs, InstallStages, I!NoJob, I!Empty, I!Files, I!Active
<1>3. I!Installed = {}
  BY <1>1 DEF I!Installed, I!Empty
<1>4. JobMatchesStatus /\ Hidden /\ Unpacked /\ I!DoneMeansWorking
  BY DEF I!Init, I!NoJob, JobMatchesStatus, Hidden, Unpacked, I!DoneMeansWorking, I!Active
<1>5. I!ListedWorks
  BY <1>3 DEF I!Init, I!ListedWorks
<1>6. QED
  BY <1>2, <1>4, <1>5 DEF EnginesInv

\* Fields of the job after a step that moves it on.
LEMMA JobMoves ==
  ASSUME EngineShape, NEW place \in InstallStages, I!Go(place)
  PROVE  job' \in EngineJobs /\ job'.at = place /\ job'.build = job.build /\ job'.flavor = job.flavor
BY DEF EngineShape, EngineJobs, I!Go

(* No job has a job's type.                                                  *)
LEMMA NoJobIsAJob == I!NoJob \in EngineJobs /\ I!NoJob.at = "none"
BY DEF I!NoJob, EngineJobs, InstallStages

(* The directories and the setting as they were, nothing else depends on    *)
(* the rest.                                                                *)
LEMMA SameDisk ==
  ASSUME UNCHANGED <<disk, setting, renewed>>, I!ListedWorks
  PROVE  I!Installed' = I!Installed /\ I!ListedWorks' /\ \A b : I!Works(b)' <=> I!Works(b)
BY DEF I!ListedWorks, I!Installed, I!Works

(* An install that fails leaves what it did unlisted. *)
LEMMA JobFails ==
  ASSUME EnginesInv, I!Fail, EngineShape', I!ListedWorks'
  PROVE  EnginesInv'
<1>1. job'.at = "none" /\ status' = "Failed"
  BY NoJobIsAJob DEF I!Fail
<1>2. QED
  BY <1>1 DEF EnginesInv, JobMatchesStatus, Hidden, Unpacked, I!DoneMeansWorking, I!Active
-----------------------------------------------------------------------------
(* A request for a build: nothing on the disk has changed yet.               *)
LEMMA InstallKeeps ==
  ASSUME EnginesInv, NEW f \in Flavors, NEW t \in Tags \cup {None}, I!Install(f, t)
  PROVE  EnginesInv'
<1>1. /\ job' = [I!NoJob EXCEPT !.at = "resolve", !.pinned = t, !.flavor = f] /\ status' = "Resolving"
      /\ UNCHANGED <<latest, listing, archives, disk, setting, renewed>>
  BY DEF I!Install
<1>2. job' \in EngineJobs /\ job'.at = "resolve" /\ job'.flavor = f
  BY <1>1 DEF I!NoJob, EngineJobs, InstallStages
<1>3. EngineShape'
  BY <1>1, <1>2 DEF EnginesInv, EngineShape, I!TypeOK, I!Active, EngineJobs, InstallStages
<1>4. I!ListedWorks'
  BY <1>1, SameDisk DEF EnginesInv
<1>5. QED
  BY <1>1, <1>2, <1>3, <1>4 DEF EnginesInv, JobMatchesStatus, Hidden, Unpacked, I!DoneMeansWorking, I!Active

(* A release appears: only what the newest tag is changes.                   *)
LEMMA ReleaseKeeps == ASSUME EnginesInv, I!Release PROVE EnginesInv'
<1>1. UNCHANGED <<listing, status, job, archives, disk, setting, renewed>> /\ latest' \in Tags
  BY DEF I!Release
<1>2. EngineShape'
  BY <1>1 DEF EnginesInv, EngineShape, I!TypeOK
<1>3. I!Installed' = I!Installed /\ I!ListedWorks' /\ \A b : I!Works(b)' <=> I!Works(b)
  BY <1>1, SameDisk DEF EnginesInv
<1>4. JobMatchesStatus' /\ Hidden'
  BY <1>1 DEF EnginesInv, JobMatchesStatus, Hidden
<1>5. Unpacked' /\ I!DoneMeansWorking'
  BY <1>1, <1>3 DEF EnginesInv, Unpacked, I!DoneMeansWorking
<1>6. QED
  BY <1>2, <1>3, <1>4, <1>5 DEF EnginesInv

(* The job's build is resolved from the listing, or the job fails.           *)
LEMMA TagKeeps == ASSUME EnginesInv, I!Resolve PROVE EnginesInv'
<1>1. job.at = "resolve" /\ UNCHANGED <<latest, archives, disk, setting, renewed>>
  BY DEF I!Resolve, I!At
<1>2. I!ListedWorks'
  BY <1>1, SameDisk DEF EnginesInv
<1>3. CASE I!Fail /\ UNCHANGED listing
  <2>1. EngineShape'
    BY <1>1, <1>3, NoJobIsAJob DEF EnginesInv, EngineShape, I!TypeOK, I!Fail, I!Active, EngineJobs, InstallStages
  <2>2. QED
    BY <1>2, <1>3, <2>1, JobFails
<1>4. ASSUME NEW t \in Tags, listing' \in {t, listing}, status' = "Downloading",
             job' = [job EXCEPT !.at = "main", !.build = <<t, job.flavor>>]
      PROVE  EnginesInv'
  <2>1. <<t, job.flavor>> \in I!Builds
    BY <1>1 DEF EnginesInv, JobMatchesStatus, I!Builds
  <2>2. job' \in EngineJobs /\ job'.at = "main" /\ job'.build = <<t, job.flavor>>
    BY <1>4, <2>1 DEF EnginesInv, EngineShape, EngineJobs, InstallStages
  <2>3. EngineShape'
    BY <1>1, <1>4, <2>2 DEF EnginesInv, EngineShape, I!TypeOK, I!Active, EngineJobs, InstallStages
  <2>4. JobMatchesStatus'
    BY <1>4, <2>1, <2>2 DEF JobMatchesStatus, I!Active
  <2>5. Hidden' /\ Unpacked'
    BY <2>2 DEF Hidden, Unpacked
  <2>6. I!DoneMeansWorking'
    BY <1>4 DEF I!DoneMeansWorking
  <2>7. QED
    BY <1>2, <2>3, <2>4, <2>5, <2>6 DEF EnginesInv
<1>5. QED
  BY <1>3, <1>4 DEF I!Resolve

(* An archive arrives whole, or not, beside the builds.                      *)
LEMMA DownloadKeeps == ASSUME EnginesInv, I!DownloadMain \/ I!DownloadCompanion PROVE EnginesInv'
<1>1. PICK part \in {"main", "companion"}, next \in {"companion", "remove"} : I!Download(part, next)
  BY DEF I!DownloadMain, I!DownloadCompanion
<1>2. job.at = part /\ UNCHANGED <<latest, listing, disk, setting, renewed>>
  BY <1>1 DEF I!Download, I!At
<1>3. I!ListedWorks'
  BY <1>2, SameDisk DEF EnginesInv
<1>4. CASE I!Fail /\ UNCHANGED archives
  <2>1. EngineShape'
    BY <1>2, <1>4, NoJobIsAJob DEF EnginesInv, EngineShape, I!TypeOK, I!Fail, I!Active, EngineJobs, InstallStages
  <2>2. QED
    BY <1>3, <1>4, <2>1, JobFails
<1>5. CASE /\ archives' = archives \cup {[build |-> job.build, part |-> part]}
           /\ I!Go(next) /\ status' = IF next = "remove" THEN "Extracting" ELSE status
  <2>1. job.build \in I!Builds /\ status \in I!Active /\ status' \in I!Active
    BY <1>2, <1>5 DEF EnginesInv, JobMatchesStatus, I!Active
  <2>2. job' \in EngineJobs /\ job'.at = next /\ job'.build = job.build
    BY <1>5, JobMoves DEF EnginesInv, InstallStages
  <2>3. EngineShape'
    BY <1>2, <1>5, <2>1, <2>2 DEF EnginesInv, EngineShape, I!TypeOK, EngineJobs, InstallStages
  <2>4. QED
    BY <1>2, <1>3, <2>1, <2>2, <2>3 DEF EnginesInv, JobMatchesStatus, Hidden, Unpacked, I!DoneMeansWorking, I!Active
<1>6. QED
  BY <1>1, <1>4, <1>5 DEF I!Download
-----------------------------------------------------------------------------
(* What changes the one directory. *)

\* The other builds are as they were, and so is this one to those that look for a listed one.
LEMMA OneDir ==
  ASSUME EnginesInv, NEW d \in BuildDirs, job.build \in I!Builds, disk' = [disk EXCEPT ![job.build] = d],
         UNCHANGED setting, renewed \subseteq renewed',
         \/ job.build \in renewed'
         \/ job.build # setting /\ "manifest" \notin d.files
         \/ {"binary", "library"} \subseteq d.files /\ d.runs
  PROVE  /\ disk' \in [I!Builds -> BuildDirs] /\ disk'[job.build] = d /\ I!ListedWorks'
<1>1. disk' \in [I!Builds -> BuildDirs] /\ disk'[job.build] = d /\ \A b \in I!Builds : b # job.build => disk'[b] = disk[b]
  BY DEF EnginesInv, EngineShape, I!TypeOK, BuildDirs
<1>2. ASSUME NEW b \in (I!Installed' \cup {setting}) \ (renewed' \cup {None}) PROVE I!Works(b)'
  <2>1. b \in I!Builds /\ b \notin renewed
    BY <1>2 DEF I!Installed, EnginesInv, EngineShape, I!TypeOK
  <2>2. CASE b = job.build
    BY <1>1, <1>2, <2>1, <2>2 DEF I!Works, I!Installed
  <2>3. CASE b # job.build
    <3>1. b \in I!Installed \cup {setting} /\ b # None
      BY <1>1, <1>2, <2>1, <2>3 DEF I!Installed
    <3>2. I!Works(b)
      BY <2>1, <3>1 DEF EnginesInv, I!ListedWorks
    <3>3. QED
      BY <1>1, <2>1, <2>3, <3>2 DEF I!Works
  <2>4. QED
    BY <2>2, <2>3
<1>3. QED
  BY <1>1, <1>2 DEF I!ListedWorks

(* The old build's directory goes, wholly or in part, before the new one is  *)
(* unpacked.                                                                 *)
LEMMA RemoveKeeps == ASSUME None \notin I!Builds, EnginesInv, I!Remove PROVE EnginesInv'
<1>1. /\ job.at = "remove" /\ UNCHANGED <<latest, listing, archives, setting, installsLeft>>
      /\ renewed' = IF disk[job.build].files = {} THEN renewed ELSE renewed \cup {job.build}
  BY DEF I!Remove, I!At
<1>2. PICK rest \in SUBSET disk[job.build].files :
        /\ disk' = [disk EXCEPT ![job.build].files = rest]
        /\ (rest = {} /\ I!Go("extract") /\ UNCHANGED status) \/ (rest # {} /\ I!Fail)
  BY DEF I!Remove
<1> DEFINE d == [disk[job.build] EXCEPT !.files = rest]
<1>3. job.build \in I!Builds /\ status \in I!Active /\ disk[job.build] \in BuildDirs
  BY <1>1 DEF EnginesInv, JobMatchesStatus, EngineShape, I!TypeOK, BuildDirs
<1>4. d \in BuildDirs /\ d.files = rest /\ disk' = [disk EXCEPT ![job.build] = d]
  BY <1>2, <1>3 DEF BuildDirs
<1> HIDE DEF d
<1>5. job.build \in renewed' \/ (job.build # setting /\ rest = {})
  <2>1. CASE disk[job.build].files = {}
    <3>1. ASSUME job.build = setting, job.build \notin renewed PROVE FALSE
      <4>1. I!Works(job.build)
        BY <1>3, <3>1 DEF EnginesInv, I!ListedWorks
      <4>2. QED
        BY <2>1, <4>1 DEF I!Works
    <3>2. QED
      BY <1>1, <1>2, <2>1, <3>1
  <2>2. CASE disk[job.build].files # {}
    BY <1>1, <2>2
  <2>3. QED
    BY <2>1, <2>2
<1>6. disk' \in [I!Builds -> BuildDirs] /\ disk'[job.build] = d /\ I!ListedWorks'
  BY <1>1, <1>3, <1>4, <1>5, OneDir
<1>7. CASE I!Fail
  <2>1. EngineShape'
    BY <1>1, <1>3, <1>6, <1>7, NoJobIsAJob DEF EnginesInv, EngineShape, I!TypeOK, I!Fail, I!Active, EngineJobs, InstallStages, BuildDirs
  <2>2. QED
    BY <1>6, <1>7, <2>1, JobFails
<1>8. CASE rest = {} /\ I!Go("extract") /\ UNCHANGED status
  <2>1. job' \in EngineJobs /\ job'.at = "extract" /\ job'.build = job.build
    BY <1>8, JobMoves DEF EnginesInv, InstallStages
  <2>2. EngineShape'
    BY <1>1, <1>3, <1>6, <1>8, <2>1 DEF EnginesInv, EngineShape, I!TypeOK, EngineJobs, InstallStages, BuildDirs
  <2>3. Hidden'
    BY <1>1, <1>4, <1>5, <1>6, <1>8, <2>1 DEF Hidden
  <2>4. QED
    BY <1>3, <1>6, <1>8, <2>1, <2>2, <2>3 DEF EnginesInv, JobMatchesStatus, Unpacked, I!DoneMeansWorking, I!Active
<1>9. QED
  BY <1>2, <1>7, <1>8

\* Unpacking, what comes beside it and the manifest: a step that fails leaves the job's directory unlisted.
LEMMA DirFails ==
  ASSUME EnginesInv, NEW d \in BuildDirs, job.build \in I!Builds, disk' = [disk EXCEPT ![job.build] = d], I!Fail,
         UNCHANGED <<latest, listing, archives, setting, renewed>>,
         job.build \in renewed \/ (job.build # setting /\ "manifest" \notin d.files)
  PROVE  EnginesInv'
<1>1. disk' \in [I!Builds -> BuildDirs] /\ I!ListedWorks'
  BY OneDir
<1>2. EngineShape'
  BY <1>1, NoJobIsAJob DEF EnginesInv, EngineShape, I!TypeOK, I!Fail, I!Active, EngineJobs, InstallStages, BuildDirs
<1>3. QED
  BY <1>1, <1>2, JobFails

\* Nothing in the directory changes, and the job ends in failure.
LEMMA NothingFails ==
  ASSUME EnginesInv, I!Fail, UNCHANGED <<latest, listing, archives, disk, renewed>>, setting' \in I!Builds \cup {None}, I!ListedWorks'
  PROVE  EnginesInv'
<1>1. EngineShape'
  BY NoJobIsAJob DEF EnginesInv, EngineShape, I!TypeOK, I!Fail, I!Active, EngineJobs, InstallStages
<1>2. QED
  BY <1>1, JobFails

(* The archive is unpacked, wholly or in part: the manifest is not there     *)
(* yet.                                                                      *)
LEMMA ExtractKeeps == ASSUME EnginesInv, I!Extract PROVE EnginesInv'
<1> DEFINE all == IF job.flavor \in WithCompanion THEN {"binary"} ELSE {"binary", "library"}
           next == IF job.flavor \in WithCompanion THEN "beside" ELSE "probe"
<1>1. job.at = "extract" /\ UNCHANGED <<latest, listing, archives, setting, renewed>>
  BY DEF I!Extract, I!At
<1>2. PICK got \in SUBSET all, runs \in BOOLEAN :
        /\ disk' = [disk EXCEPT ![job.build] = [files |-> got, runs |-> runs]]
        /\ \/ got = all /\ I!Go(next) /\ status' = IF job.flavor \in WithCompanion THEN status ELSE "Verifying"
           \/ I!Fail
  BY DEF I!Extract
<1> DEFINE d == [files |-> got, runs |-> runs]
<1>3. job.build \in I!Builds /\ status \in I!Active /\ (job.build \in renewed \/ job.build # setting)
  BY <1>1 DEF EnginesInv, JobMatchesStatus, Hidden
<1>4. d \in BuildDirs /\ d.files = got /\ "manifest" \notin d.files
  BY DEF BuildDirs, I!Files
<1>5. next \in {"beside", "probe"} /\ (next = "probe" <=> job.flavor \notin WithCompanion)
  OBVIOUS
<1>6. "binary" \in all /\ (next = "probe" => "library" \in all)
  OBVIOUS
<1> HIDE DEF d, next, all
<1>7. disk' = [disk EXCEPT ![job.build] = d]
  BY <1>2 DEF d
<1>8. CASE I!Fail
  BY <1>1, <1>3, <1>4, <1>7, <1>8, DirFails
<1>9. CASE got = all /\ I!Go(next) /\ status' = IF job.flavor \in WithCompanion THEN status ELSE "Verifying"
  <2>1. disk' \in [I!Builds -> BuildDirs] /\ disk'[job.build] = d /\ I!ListedWorks'
    BY <1>1, <1>3, <1>4, <1>7, OneDir
  <2>2. job' \in EngineJobs /\ job'.at = next /\ job'.build = job.build /\ status' \in I!Active
    BY <1>3, <1>5, <1>9, JobMoves DEF EnginesInv, InstallStages, I!Active
  <2>3. EngineShape'
    BY <1>1, <2>1, <2>2 DEF EnginesInv, EngineShape, I!TypeOK, BuildDirs, EngineJobs, InstallStages
  <2>4. Hidden' /\ Unpacked'
    BY <1>1, <1>3, <1>4, <1>5, <1>6, <1>9, <2>1, <2>2 DEF Hidden, Unpacked
  <2>5. JobMatchesStatus' /\ I!DoneMeansWorking'
    BY <1>3, <1>5, <2>2 DEF JobMatchesStatus, I!DoneMeansWorking, I!Active
  <2>6. QED
    BY <2>1, <2>3, <2>4, <2>5 DEF EnginesInv
<1>10. QED
  BY <1>2, <1>8, <1>9

(* The companion's library is put beside the program.                        *)
LEMMA BesideKeeps == ASSUME EnginesInv, I!Beside PROVE EnginesInv'
<1> DEFINE d == [disk[job.build] EXCEPT !.files = @ \cup {"library"}]
<1>1. job.at = "beside" /\ UNCHANGED <<latest, listing, archives, setting, renewed>>
  BY DEF I!Beside, I!At
<1>2. /\ job.build \in I!Builds /\ status \in I!Active /\ disk[job.build] \in BuildDirs /\ "binary" \in disk[job.build].files
      /\ job.build \in renewed \/ (job.build # setting /\ "manifest" \notin disk[job.build].files)
  BY <1>1 DEF EnginesInv, JobMatchesStatus, Hidden, Unpacked, EngineShape, I!TypeOK, BuildDirs
<1>3. CASE I!Fail /\ UNCHANGED disk
  BY <1>1, <1>3, SameDisk, NothingFails DEF EnginesInv, EngineShape, I!TypeOK
<1>4. CASE disk' = [disk EXCEPT ![job.build].files = @ \cup {"library"}] /\ I!Go("probe") /\ status' = "Verifying"
  <2>1. d \in BuildDirs /\ d.files = disk[job.build].files \cup {"library"} /\ disk' = [disk EXCEPT ![job.build] = d]
    BY <1>2, <1>4 DEF BuildDirs, I!Files
  <2> HIDE DEF d
  <2>2. disk' \in [I!Builds -> BuildDirs] /\ disk'[job.build] = d /\ I!ListedWorks'
    BY <1>1, <1>2, <2>1, OneDir
  <2>3. job' \in EngineJobs /\ job'.at = "probe" /\ job'.build = job.build /\ status' \in I!Active
    BY <1>4, JobMoves DEF EnginesInv, InstallStages, I!Active
  <2>4. EngineShape'
    BY <1>1, <2>2, <2>3 DEF EnginesInv, EngineShape, I!TypeOK, BuildDirs, EngineJobs, InstallStages
  <2>5. Hidden' /\ Unpacked'
    BY <1>1, <1>2, <2>1, <2>2, <2>3 DEF Hidden, Unpacked
  <2>6. JobMatchesStatus' /\ I!DoneMeansWorking'
    BY <1>2, <2>3 DEF JobMatchesStatus, I!DoneMeansWorking, I!Active
  <2>7. QED
    BY <2>2, <2>4, <2>5, <2>6 DEF EnginesInv
<1>5. QED
  BY <1>3, <1>4 DEF I!Beside

(* The program is run once, and must answer.                                 *)
LEMMA ProbeKeeps == ASSUME EnginesInv, I!ProbeProgram PROVE EnginesInv'
<1>1. job.at = "probe" /\ UNCHANGED <<latest, listing, archives, disk, setting, renewed>>
  BY DEF I!ProbeProgram, I!At
<1>2. I!Installed' = I!Installed /\ I!ListedWorks' /\ \A b : I!Works(b)' <=> I!Works(b)
  BY <1>1, SameDisk DEF EnginesInv
<1>3. CASE I!Fail
  BY <1>1, <1>2, <1>3, NothingFails DEF EnginesInv, EngineShape, I!TypeOK
<1>4. CASE disk[job.build].runs /\ I!Go("manifest") /\ UNCHANGED status
  <2>1. job' \in EngineJobs /\ job'.at = "manifest" /\ job'.build = job.build
    BY <1>4, JobMoves DEF EnginesInv, InstallStages
  <2>2. I!Works(job.build)
    BY <1>1, <1>4 DEF EnginesInv, Unpacked, I!Works
  <2>3. EngineShape'
    BY <1>1, <1>4, <2>1 DEF EnginesInv, EngineShape, I!TypeOK, EngineJobs, InstallStages
  <2>4. QED
    BY <1>1, <1>2, <1>4, <2>1, <2>2, <2>3 DEF EnginesInv, JobMatchesStatus, Hidden, Unpacked, I!DoneMeansWorking
<1>5. QED
  BY <1>3, <1>4 DEF I!ProbeProgram

(* The manifest, written last, is what makes the build an installed one.     *)
LEMMA ManifestKeeps == ASSUME EnginesInv, I!Manifest PROVE EnginesInv'
<1> DEFINE d == [disk[job.build] EXCEPT !.files = @ \cup {"manifest"}]
<1>1. job.at = "manifest" /\ UNCHANGED <<latest, listing, archives, setting, renewed>>
  BY DEF I!Manifest, I!At
<1>2. job.build \in I!Builds /\ status \in I!Active /\ disk[job.build] \in BuildDirs /\ I!Works(job.build)
  BY <1>1 DEF EnginesInv, JobMatchesStatus, Unpacked, EngineShape, I!TypeOK, BuildDirs
<1>3. CASE I!Fail /\ UNCHANGED disk
  BY <1>1, <1>3, SameDisk, NothingFails DEF EnginesInv, EngineShape, I!TypeOK
<1>4. CASE disk' = [disk EXCEPT ![job.build].files = @ \cup {"manifest"}] /\ I!Go("apply") /\ UNCHANGED status
  <2>1. /\ d \in BuildDirs /\ d.files = disk[job.build].files \cup {"manifest"} /\ d.runs = disk[job.build].runs
        /\ disk' = [disk EXCEPT ![job.build] = d]
    BY <1>2, <1>4 DEF BuildDirs, I!Files
  <2> HIDE DEF d
  <2>2. {"binary", "library"} \subseteq d.files /\ d.runs
    BY <1>2, <2>1 DEF I!Works
  <2>3. disk' \in [I!Builds -> BuildDirs] /\ disk'[job.build] = d /\ I!ListedWorks'
    BY <1>1, <1>2, <2>1, <2>2, OneDir
  <2>4. job' \in EngineJobs /\ job'.at = "apply" /\ job'.build = job.build
    BY <1>4, JobMoves DEF EnginesInv, InstallStages
  <2>5. EngineShape'
    BY <1>1, <1>4, <2>3, <2>4 DEF EnginesInv, EngineShape, I!TypeOK, BuildDirs, EngineJobs, InstallStages
  <2>6. Hidden' /\ Unpacked'
    BY <1>2, <2>1, <2>2, <2>3, <2>4 DEF Hidden, Unpacked, I!Works, I!Installed
  <2>7. JobMatchesStatus' /\ I!DoneMeansWorking'
    BY <1>2, <1>4, <2>4 DEF JobMatchesStatus, I!DoneMeansWorking, I!Active
  <2>8. QED
    BY <2>3, <2>5, <2>6, <2>7 DEF EnginesInv
<1>5. QED
  BY <1>3, <1>4 DEF I!Manifest

(* The setting points at what was just proved to work. *)
LEMMA ApplyKeeps == ASSUME EnginesInv, I!Apply PROVE EnginesInv'
<1>1. job.at = "apply" /\ UNCHANGED <<latest, listing, archives, disk, renewed>>
  BY DEF I!Apply, I!At
<1>2. job.build \in I!Builds /\ status \in I!Active /\ I!Works(job.build) /\ job.build \in I!Installed /\ setting' \in {setting, job.build}
  BY <1>1 DEF EnginesInv, JobMatchesStatus, Unpacked, I!Apply
<1>3. I!Installed' = I!Installed /\ \A b : I!Works(b)' <=> I!Works(b)
  BY <1>1 DEF I!Installed, I!Works
<1>4. I!ListedWorks'
  BY <1>1, <1>2, <1>3 DEF EnginesInv, I!ListedWorks
<1>5. setting' \in I!Builds \cup {None}
  BY <1>2 DEF EnginesInv, EngineShape, I!TypeOK
<1>6. CASE I!Fail
  BY <1>1, <1>4, <1>5, <1>6, NothingFails
<1>7. CASE setting' = job.build /\ I!Go("clean") /\ UNCHANGED status
  <2>1. job' \in EngineJobs /\ job'.at = "clean" /\ job'.build = job.build
    BY <1>7, JobMoves DEF EnginesInv, InstallStages
  <2>2. EngineShape'
    BY <1>1, <1>5, <1>7, <2>1 DEF EnginesInv, EngineShape, I!TypeOK, EngineJobs, InstallStages
  <2>3. QED
    BY <1>2, <1>3, <1>4, <1>7, <2>1, <2>2 DEF EnginesInv, JobMatchesStatus, Hidden, Unpacked, I!DoneMeansWorking, I!Active
<1>8. QED
  BY <1>6, <1>7 DEF I!Apply

(* The archives go; the job is done.                                         *)
LEMMA TidyKeeps == ASSUME EnginesInv, I!Clean PROVE EnginesInv'
<1>1. /\ job.at = "clean" /\ status' = "Done" /\ job' = I!NoJob /\ archives' \subseteq archives
      /\ UNCHANGED <<latest, listing, disk, setting, renewed>>
  BY DEF I!Clean, I!At
<1>2. I!Installed' = I!Installed /\ I!ListedWorks' /\ \A b : I!Works(b)' <=> I!Works(b)
  BY <1>1, SameDisk DEF EnginesInv
<1>3. setting \in I!Installed /\ I!Works(setting)
  BY <1>1 DEF EnginesInv, Unpacked
<1>4. EngineShape'
  BY <1>1, NoJobIsAJob DEF EnginesInv, EngineShape, I!TypeOK, EngineJobs, InstallStages
<1>5. I!DoneMeansWorking'
  BY <1>1, <1>2, <1>3 DEF I!DoneMeansWorking
<1>6. QED
  BY <1>1, <1>2, <1>4, <1>5, NoJobIsAJob DEF EnginesInv, JobMatchesStatus, Hidden, Unpacked, I!Active
-----------------------------------------------------------------------------
(* The Studio dies, perhaps in the middle of a removal or an unpacking. *)
LEMMA InstallDies == ASSUME EnginesInv, I!Crash PROVE EnginesInv'
<1>1. /\ status' = "Idle" /\ job' = I!NoJob /\ listing' = None /\ status \in I!Active
      /\ UNCHANGED <<latest, archives, setting>>
  BY DEF I!Crash
<1>2. (disk' \in [I!Builds -> BuildDirs] /\ renewed' \subseteq I!Builds) /\ I!ListedWorks'
  <2>1. CASE job.at \in {"remove", "extract"}
    <3>1. job.build \in I!Builds /\ disk[job.build] \in BuildDirs
      BY <2>1 DEF EnginesInv, JobMatchesStatus, EngineShape, I!TypeOK, BuildDirs
    <3>2. PICK got \in SUBSET I!Files :
            /\ disk' = [disk EXCEPT ![job.build].files = got]
            /\ job.at = "remove" => renewed' = renewed \cup {job.build}
            /\ job.at = "extract" => renewed' = renewed /\ "manifest" \notin got
      <4>1. CASE job.at = "remove"
        <5>1. \E rest \in SUBSET disk[job.build].files :
                disk' = [disk EXCEPT ![job.build].files = rest] /\ renewed' = renewed \cup {job.build}
          BY <4>1 DEF I!Crash, I!At
        <5>2. disk[job.build].files \subseteq I!Files
          BY <3>1 DEF BuildDirs
        <5>3. QED
          BY <4>1, <5>1, <5>2
      <4>2. CASE job.at = "extract"
        <5>1. (\E got \in SUBSET {"binary", "library"} : disk' = [disk EXCEPT ![job.build].files = got]) /\ UNCHANGED renewed
          BY <4>2 DEF I!Crash, I!At
        <5>2. QED
          BY <4>2, <5>1 DEF I!Files
      <4>3. QED
        BY <2>1, <4>1, <4>2
    <3> DEFINE d == [disk[job.build] EXCEPT !.files = got]
    <3>3. d \in BuildDirs /\ d.files = got /\ disk' = [disk EXCEPT ![job.build] = d]
      BY <3>1, <3>2 DEF BuildDirs
    <3> HIDE DEF d
    <3>4. job.build \in renewed' \/ (job.build # setting /\ "manifest" \notin d.files)
      BY <2>1, <3>2, <3>3 DEF EnginesInv, Hidden
    <3>5. renewed \subseteq renewed' /\ renewed' \subseteq I!Builds
      BY <2>1, <3>1, <3>2 DEF EnginesInv, EngineShape, I!TypeOK
    <3>6. QED
      BY <1>1, <3>1, <3>3, <3>4, <3>5, OneDir
  <2>2. CASE job.at \notin {"remove", "extract"}
    <3>1. UNCHANGED <<disk, renewed>>
      BY <2>2 DEF I!Crash, I!At
    <3>2. I!ListedWorks'
      BY <1>1, <3>1, SameDisk DEF EnginesInv
    <3>3. QED
      BY <3>1, <3>2 DEF EnginesInv, EngineShape, I!TypeOK, BuildDirs
  <2>3. QED
    BY <2>1, <2>2
<1>3. EngineShape'
  BY <1>1, <1>2, NoJobIsAJob DEF EnginesInv, EngineShape, I!TypeOK, BuildDirs, EngineJobs, InstallStages, I!Active
<1>4. QED
  BY <1>1, <1>2, <1>3, NoJobIsAJob DEF EnginesInv, JobMatchesStatus, Hidden, Unpacked, I!DoneMeansWorking, I!Active
-----------------------------------------------------------------------------
(* A step that changes nothing keeps the invariant.                          *)
LEMMA EnginesRest == ASSUME EnginesInv, UNCHANGED engineVars PROVE EnginesInv'
BY DEF engineVars, EnginesInv, EngineShape, I!TypeOK, JobMatchesStatus, Hidden, Unpacked, I!ListedWorks, I!DoneMeansWorking, I!Installed, I!Works

(* Every step keeps the invariant.                                           *)
LEMMA EnginesStay == ASSUME None \notin I!Builds, EnginesInv, [I!Next]_engineVars PROVE EnginesInv'
<1>1. CASE UNCHANGED engineVars
  BY <1>1, EnginesRest
<1>2. CASE I!run
  BY <1>2, TagKeeps, DownloadKeeps, RemoveKeeps, ExtractKeeps, BesideKeeps, ProbeKeeps, ManifestKeeps, ApplyKeeps,
     TidyKeeps DEF I!run
<1>3. CASE I!Release \/ I!Crash
  BY <1>3, ReleaseKeeps, InstallDies
<1>4. CASE \E f \in Flavors, t \in Tags \cup {None} : I!Install(f, t)
  BY <1>4, InstallKeeps
<1>5. QED
  BY <1>1, <1>2, <1>3, <1>4 DEF I!Next

(* The invariant is enough. *)
LEMMA EnginesAreSafe == EnginesInv => I!InstallerSafe
BY DEF EnginesInv, EngineShape, I!InstallerSafe

-----------------------------------------------------------------------------
(* The models. *)

Questions == [at: M!Steps, id: Ids \cup {"none"}, model: M!Entries, todo: Seq(Dirs), found: [Ids -> M!Entries],
          sha: M!Numbers, read: [sha: M!Numbers, size: M!Numbers]]

StoreTypes ==
  /\ shelf \in [M!Files -> M!Numbers] /\ sidecar \in [M!Files -> [sha: M!Numbers, size: M!Numbers]]
  /\ arrived \in M!Numbers /\ roots \in RootLists /\ list \in [Ids -> M!Entries]
  /\ asking \in [Requests -> Questions]

\* What was once read of file f: its contents only grow.
Past(f, n) == 0 < n /\ n <= arrived /\ (shelf[f] = 0 \/ n <= shelf[f])

(* An entry is what its file once was, and if it still is, has its digest.   *)
Seen(i, e) == e # M!Unlisted => e.dir \in Dirs /\ Past(<<e.dir, i>>, e.size)
Good(i, e) == Seen(i, e) /\ (e # M!Unlisted /\ shelf[<<e.dir, i>>] = e.size => e.sha \in {0, e.size})

Naming  == {"check", "unlink", "unsidecar", "open", "load", "save", "listed"}
Digests == {"load", "save", "listed"}

(* A digest that was made is not of an earlier content than the entry.       *)
AskFits(q) ==
  /\ \A i \in Ids : Good(i, q.found[i])
  /\ q.at \in Naming => q.id \in Ids /\ q.model # M!Unlisted /\ Seen(q.id, q.model)
  /\ q.at \in Digests => Past(<<q.model.dir, q.id>>, q.sha) /\ q.model.size <= q.sha

StoreInv ==
  /\ StoreTypes
  /\ \A f \in M!Files : shelf[f] <= arrived /\ sidecar[f].size <= arrived
  /\ M!BelievedIsTrue
  /\ \A i \in Ids : Good(i, list[i])
  /\ \A r \in Requests : AskFits(asking[r])

(* Every file that is there, arrived; a newer one is nothing that was seen. *)
LEMMA GoodStays ==
  ASSUME StoreTypes, StoreTypes', arrived <= arrived',
         \A f \in M!Files : shelf'[f] \in {0, shelf[f]} \/ (shelf'[f] > arrived /\ shelf'[f] <= arrived')
  PROVE  /\ \A i \in Ids, e \in M!Entries : Good(i, e) => Good(i, e)'
         /\ \A i \in Ids, e \in M!Entries : Seen(i, e) => Seen(i, e)'
         /\ \A f \in M!Files, n \in M!Numbers : Past(f, n) => Past(f, n)'
<1>1. \A f \in M!Files : shelf[f] \in Nat /\ shelf'[f] \in Nat
  BY StudioAssumption DEF StoreTypes, M!Numbers
<1>2. arrived \in Nat /\ arrived' \in Nat /\ M!Numbers \subseteq Nat
  BY StudioAssumption DEF StoreTypes, M!Numbers
<1>3. ASSUME NEW f \in M!Files, NEW n \in M!Numbers, Past(f, n) PROVE Past(f, n)'
  <2>1. n \in Nat /\ shelf[f] \in Nat /\ shelf'[f] \in Nat BY <1>1, <1>2
  <2>2. CASE shelf'[f] \in {0, shelf[f]} BY <1>2, <1>3, <2>1, <2>2 DEF Past
  <2>3. CASE shelf'[f] > arrived /\ shelf'[f] <= arrived' BY <1>2, <1>3, <2>1, <2>3 DEF Past
  <2> QED BY <2>2, <2>3
<1>4. ASSUME NEW i \in Ids, NEW e \in M!Entries, Seen(i, e) PROVE Seen(i, e)'
  <2>1. CASE e = M!Unlisted BY <2>1 DEF Seen
  <2>2. CASE e # M!Unlisted
    <3>1. e.dir \in Dirs /\ Past(<<e.dir, i>>, e.size) BY <1>4, <2>2 DEF Seen
    <3>2. <<e.dir, i>> \in M!Files /\ e.size \in M!Numbers BY <3>1 DEF M!Files, M!Entries
    <3> QED BY <1>3, <3>1, <3>2 DEF Seen
  <2> QED BY <2>1, <2>2
<1>5. ASSUME NEW i \in Ids, NEW e \in M!Entries, Good(i, e) PROVE Good(i, e)'
  <2>1. Seen(i, e)' BY <1>4, <1>5 DEF Good
  <2>2. ASSUME e # M!Unlisted, shelf'[<<e.dir, i>>] = e.size PROVE e.sha \in {0, e.size}
    <3>1. e.dir \in Dirs /\ Past(<<e.dir, i>>, e.size) BY <1>5, <2>2 DEF Good, Seen
    <3>2. <<e.dir, i>> \in M!Files /\ e.size \in Nat BY <1>2, <3>1 DEF M!Files, M!Entries
    <3>3. 0 < e.size /\ e.size <= arrived BY <3>1 DEF Past
    <3>4. shelf[<<e.dir, i>>] = e.size BY <1>1, <1>2, <2>2, <3>2, <3>3
    <3> QED BY <1>5, <2>2, <3>4 DEF Good
  <2> QED BY <2>1, <2>2 DEF Good
<1> QED BY <1>3, <1>4, <1>5

(* A step of one request that touches nothing but the request, or lists what *)
(* was seen.                                                                 *)
LEMMA AskStep ==
  ASSUME StoreInv, NEW r \in Requests, NEW q \in Questions, AskFits(q),
         asking' = [asking EXCEPT ![r] = q], roots' \in RootLists, UNCHANGED <<shelf, sidecar, arrived>>,
         list' \in [Ids -> M!Entries], \A i \in Ids : Good(i, list'[i])
  PROVE  StoreInv'
<1>1. StoreTypes'
  BY DEF StoreInv, StoreTypes
<1>2. asking'[r] = q /\ \A s \in Requests \ {r} : asking'[s] = asking[s]
  BY DEF StoreInv, StoreTypes
<1>3. \A i, e : Good(i, e)' <=> Good(i, e)
  BY DEF Good, Seen, Past
<1>4. \A i, e : Seen(i, e)' <=> Seen(i, e)
  BY DEF Seen, Past
<1>5. \A x : AskFits(x)' <=> AskFits(x)
  BY <1>3, <1>4 DEF AskFits, Past
<1>6. ASSUME NEW s \in Requests PROVE AskFits(asking'[s])
  BY <1>2 DEF StoreInv
<1>7. M!BelievedIsTrue'
  BY DEF StoreInv, M!BelievedIsTrue, M!Believed
<1>8. \A s \in Requests : AskFits(asking[s])'
  <2> TAKE s \in Requests
  <2>1. AskFits(asking'[s]) BY <1>6
  <2>2. \A x : AskFits(x) => AskFits(x)' BY <1>5
  <2> QED BY <2>1, <2>2
<1>9. \A i \in Ids : Good(i, list[i])'
  BY <1>3
<1> QED BY <1>1, <1>7, <1>8, <1>9 DEF StoreInv

(* A file goes, or another content comes, with its digest or without.        *)
LEMMA FileStep ==
  ASSUME StoreInv, NEW f \in M!Files, NEW n \in M!Numbers, shelf' = [shelf EXCEPT ![f] = n],
         (n = 0 /\ arrived' = arrived) \/ (n = arrived + 1 /\ arrived' = n),
         sidecar' = sidecar \/ (n > 0 /\ sidecar' = [sidecar EXCEPT ![f] = [sha |-> n, size |-> n]]),
         UNCHANGED <<roots, list>>, asking' \in [Requests -> Questions], \A r \in Requests : AskFits(asking'[r])
  PROVE  StoreInv'
<1> M!Numbers \subseteq Nat /\ 0 \in M!Numbers
  BY StudioAssumption DEF M!Numbers
<1>1. arrived \in Nat /\ n \in Nat /\ arrived' \in M!Numbers /\ arrived <= arrived'
  BY DEF StoreInv, StoreTypes
<1>2. StoreTypes'
  BY <1>1 DEF StoreInv, StoreTypes
<1>3. \A g \in M!Files : shelf'[g] = IF g = f THEN n ELSE shelf[g]
  BY DEF StoreInv, StoreTypes
<1>4. \A g \in M!Files : /\ shelf[g] \in Nat /\ shelf[g] <= arrived
                         /\ sidecar[g].size \in Nat /\ sidecar[g].size <= arrived /\ sidecar[g].sha \in Nat
  BY DEF StoreInv, StoreTypes
<1>5. \A g \in M!Files : shelf'[g] \in {0, shelf[g]} \/ (shelf'[g] > arrived /\ shelf'[g] <= arrived')
  BY <1>1, <1>3
<1>6. /\ \A i \in Ids, e \in M!Entries : Good(i, e) => Good(i, e)'
      /\ \A i \in Ids, e \in M!Entries : Seen(i, e) => Seen(i, e)'
      /\ \A g \in M!Files, m \in M!Numbers : Past(g, m) => Past(g, m)'
  BY <1>1, <1>2, <1>5, GoodStays DEF StoreInv
<1>7. \A q \in Questions : AskFits(q) => AskFits(q)'
  <2> SUFFICES ASSUME NEW q \in Questions, AskFits(q) PROVE AskFits(q)'
    OBVIOUS
  <2>1. /\ \A i \in Ids : q.found[i] \in M!Entries
        /\ q.model \in M!Entries /\ q.sha \in M!Numbers /\ q.model.dir \in Dirs \cup {"none"}
    BY DEF Questions, M!Entries
  <2>2. \A i \in Ids : Good(i, q.found[i])' BY <1>6, <2>1 DEF AskFits
  <2>3. q.at \in Naming => q.id \in Ids /\ q.model # M!Unlisted /\ Seen(q.id, q.model)' BY <1>6, <2>1 DEF AskFits
  <2>4. q.at \in Digests => Past(<<q.model.dir, q.id>>, q.sha)' /\ q.model.size <= q.sha
    <3> SUFFICES ASSUME q.at \in Digests PROVE Past(<<q.model.dir, q.id>>, q.sha)' /\ q.model.size <= q.sha
      OBVIOUS
    <3>1. q.at \in Naming BY DEF Naming, Digests
    <3>2. q.id \in Ids /\ q.model.dir \in Dirs BY <3>1 DEF AskFits, Seen
    <3>3. <<q.model.dir, q.id>> \in M!Files BY <3>2 DEF M!Files
    <3> QED BY <1>6, <2>1, <3>3 DEF AskFits
  <2> QED BY <2>2, <2>3, <2>4 DEF AskFits
<1>8. \A r \in Requests : AskFits(asking[r])'
  <2> TAKE r \in Requests
  <2>1. asking'[r] \in Questions /\ AskFits(asking'[r]) OBVIOUS
  <2> QED BY <1>7, <2>1
<1>9. \A i \in Ids : Good(i, list[i])'
  <2> TAKE i \in Ids
  <2>1. list[i] \in M!Entries /\ Good(i, list[i]) /\ list'[i] = list[i] BY DEF StoreInv, StoreTypes
  <2>2. PICK e \in M!Entries : e = list[i] BY <2>1
  <2>3. Good(i, e)' /\ e = list'[i] BY <1>6, <2>1, <2>2
  <2> QED BY <2>3 DEF Good, Seen, Past
<1>10. \A g \in M!Files : shelf'[g] <= arrived' /\ sidecar'[g].size <= arrived'
  <2> TAKE g \in M!Files
  <2>1. sidecar'[g] = sidecar[g] \/ (sidecar'[g].size = n /\ n > 0) BY DEF StoreInv, StoreTypes
  <2> QED BY <1>1, <1>3, <1>4, <2>1
<1>11. M!BelievedIsTrue'
  <2> SUFFICES ASSUME NEW g \in M!Files, shelf'[g] > 0, sidecar'[g].size = shelf'[g]
               PROVE  sidecar'[g].sha \in {0, shelf'[g]}
    BY DEF M!BelievedIsTrue, M!Believed
  <2>1. CASE sidecar'[g] = sidecar[g]
    <3>1. shelf'[g] = shelf[g] BY <1>1, <1>4, <1>5, <2>1
    <3> QED BY <2>1, <3>1 DEF StoreInv, M!BelievedIsTrue, M!Believed
  <2>2. CASE sidecar'[g] # sidecar[g]
    <3>1. g = f /\ sidecar'[g] = [sha |-> n, size |-> n] BY <2>2 DEF StoreInv, StoreTypes
    <3> QED BY <3>1
  <2> QED BY <2>1, <2>2
<1> QED BY <1>2, <1>8, <1>9, <1>10, <1>11 DEF StoreInv

(* A sidecar is written, for what is there or for nothing that is.           *)
LEMMA SidecarStep ==
  ASSUME StoreInv, NEW f \in M!Files, NEW s \in [sha: M!Numbers, size: M!Numbers], sidecar' = [sidecar EXCEPT ![f] = s],
         s.size <= arrived, shelf[f] > 0 /\ s.size = shelf[f] => s.sha \in {0, shelf[f]},
         UNCHANGED <<shelf, arrived, roots, list>>, asking' \in [Requests -> Questions], \A r \in Requests : AskFits(asking'[r])
  PROVE  StoreInv'
<1>1. StoreTypes'
  BY DEF StoreInv, StoreTypes
<1>2. \A g \in M!Files : sidecar'[g] = IF g = f THEN s ELSE sidecar[g]
  BY DEF StoreInv, StoreTypes
<1>3. \A i, e : Good(i, e)' <=> Good(i, e)
  BY DEF Good, Seen, Past
<1>4. \A i, e : Seen(i, e)' <=> Seen(i, e)
  BY DEF Seen, Past
<1>5. \A x : AskFits(x)' <=> AskFits(x)
  BY <1>3, <1>4 DEF AskFits, Past
<1>6. \A r \in Requests : AskFits(asking[r])'
  <2> TAKE r \in Requests
  <2>1. AskFits(asking'[r]) OBVIOUS
  <2>2. \A x : AskFits(x) => AskFits(x)' BY <1>5
  <2> QED BY <2>1, <2>2
<1>7. \A i \in Ids : Good(i, list[i])'
  BY <1>3 DEF StoreInv
<1>8. \A g \in M!Files : shelf'[g] <= arrived' /\ sidecar'[g].size <= arrived'
  BY <1>2 DEF StoreInv
<1>9. M!BelievedIsTrue'
  <2> SUFFICES ASSUME NEW g \in M!Files, shelf'[g] > 0, sidecar'[g].size = shelf'[g]
               PROVE  sidecar'[g].sha \in {0, shelf'[g]}
    BY DEF M!BelievedIsTrue, M!Believed
  <2>1. CASE g = f BY <1>2, <2>1
  <2>2. CASE g # f BY <1>2, <2>2 DEF StoreInv, M!BelievedIsTrue, M!Believed
  <2> QED BY <2>1, <2>2
<1> QED BY <1>1, <1>6, <1>7, <1>8, <1>9 DEF StoreInv

(* A request that goes on to another place.                                  *)
LEMMA AskGoes ==
  ASSUME StoreInv, NEW r \in Requests, NEW place \in M!Steps, M!Go(r, place),
         place \in Naming => asking[r].at \in Naming, place \in Digests => asking[r].at \in Digests
  PROVE  /\ asking' \in [Requests -> Questions] /\ \A s \in Requests : AskFits(asking'[s])
         /\ \E q \in Questions : AskFits(q) /\ asking' = [asking EXCEPT ![r] = q]
<1> DEFINE q == [asking[r] EXCEPT !.at = place]
<1>1. asking[r] \in Questions /\ asking \in [Requests -> Questions]
  BY DEF StoreInv, StoreTypes
<1>2. /\ q \in Questions /\ q.at = place /\ q.id = asking[r].id /\ q.model = asking[r].model /\ q.found = asking[r].found
      /\ q.sha = asking[r].sha
  BY <1>1 DEF Questions
<1>3. AskFits(asking[r])
  BY DEF StoreInv
<1>4. asking' = [asking EXCEPT ![r] = q]
  BY DEF M!Go
<1> HIDE DEF q
<1>5. AskFits(q)
  BY <1>2, <1>3 DEF AskFits
<1>6. \A s \in Requests : AskFits(asking'[s])
  BY <1>1, <1>4, <1>5 DEF StoreInv
<1> QED BY <1>1, <1>2, <1>4, <1>5, <1>6

(* A request that is over.                                                   *)
LEMMA AskOver ==
  ASSUME StoreInv, NEW r \in Requests, M!Over(r)
  PROVE  /\ asking' \in [Requests -> Questions] /\ \A s \in Requests : AskFits(asking'[s])
         /\ \E q \in Questions : AskFits(q) /\ asking' = [asking EXCEPT ![r] = q]
<1>1. M!Idle \in Questions /\ M!Idle.at = "idle" /\ M!Idle.found = M!Nothing
  <2>1. M!Unlisted \in M!Entries BY StudioAssumption DEF M!Unlisted, M!Entries, M!Numbers
  <2>2. M!Blank \in [sha: M!Numbers, size: M!Numbers] BY StudioAssumption DEF M!Blank, M!Numbers
  <2>3. <<>> \in Seq(Dirs) /\ 0 \in M!Numbers BY StudioAssumption DEF M!Numbers
  <2> QED BY <2>1, <2>2, <2>3 DEF M!Idle, Questions, M!Steps, M!Nothing
<1>2. AskFits(M!Idle)
  BY <1>1 DEF AskFits, M!Nothing, Good, Seen, Naming, Digests
<1>3. asking' = [asking EXCEPT ![r] = M!Idle] /\ asking \in [Requests -> Questions]
  BY DEF M!Over, StoreInv, StoreTypes
<1>4. \A s \in Requests : AskFits(asking'[s])
  BY <1>2, <1>3 DEF StoreInv
<1> QED BY <1>1, <1>2, <1>3, <1>4

(* It keeps the model store's invariant, whoever asks for what.              *)
LEMMA StoreStays ==
  ASSUME StoreInv, M!Next
  PROVE  StoreInv'
<1> M!Numbers \subseteq Nat /\ 0 \in M!Numbers
  BY StudioAssumption DEF M!Numbers
<1>1. /\ list \in [Ids -> M!Entries] /\ roots \in RootLists /\ (\A i \in Ids : Good(i, list[i]))
      /\ asking \in [Requests -> Questions] /\ \A r \in Requests : AskFits(asking[r])
  BY DEF StoreInv, StoreTypes
<1>2. ASSUME NEW r \in Requests, M!Rescan(r) PROVE StoreInv'
  <2>1. "refresh" \in M!Steps \ Naming /\ "refresh" \notin Digests BY DEF M!Steps, Naming, Digests
  <2>2. M!Go(r, "refresh") /\ UNCHANGED <<shelf, sidecar, arrived, roots, list>> BY <1>2 DEF M!Rescan
  <2> QED BY <1>1, <2>1, <2>2, AskGoes, AskStep
<1>3. ASSUME NEW r \in Requests, NEW new \in RootLists, M!set_roots(r, new) PROVE StoreInv'
  <2>1. "refresh" \in M!Steps \ Naming /\ "refresh" \notin Digests BY DEF M!Steps, Naming, Digests
  <2>2. M!Go(r, "refresh") /\ roots' = new /\ UNCHANGED <<shelf, sidecar, arrived, list>> BY <1>3 DEF M!set_roots
  <2> QED BY <1>1, <2>1, <2>2, AskGoes, AskStep
<1>4. ASSUME NEW r \in Requests, NEW i \in Ids, NEW place \in {"check", "open"}, M!Require(r, i, place) PROVE StoreInv'
  <2> DEFINE q == [asking[r] EXCEPT !.at = place, !.id = i, !.model = list[i]]
  <2>1. place \in M!Steps /\ place \in Naming /\ place \notin Digests BY DEF M!Steps, Naming, Digests
  <2>2. /\ q \in Questions /\ q.at = place /\ q.id = i /\ q.model = list[i] /\ q.found = asking[r].found
    BY <1>1, <2>1 DEF Questions
  <2>3. asking' = [asking EXCEPT ![r] = q] /\ list[i] # M!Unlisted /\ UNCHANGED <<shelf, sidecar, arrived, roots, list>>
    BY <1>4 DEF M!Require
  <2> HIDE DEF q
  <2>4. AskFits(q) BY <1>1, <2>1, <2>2, <2>3 DEF AskFits, Good
  <2> QED BY <1>1, <2>2, <2>3, <2>4, AskStep
<1>5. ASSUME NEW r \in Requests, NEW i \in Ids, M!delete(r, i) \/ M!ensure_hashed(r, i) PROVE StoreInv'
  BY <1>4, <1>5 DEF M!delete, M!ensure_hashed
<1>6. ASSUME NEW r \in Requests, M!ReadRoots(r) PROVE StoreInv'
  <2> DEFINE q == [asking[r] EXCEPT !.at = "scan", !.todo = roots, !.found = M!Nothing]
  <2>1. M!Nothing \in [Ids -> M!Entries]
    BY DEF M!Nothing, M!Unlisted, M!Entries
  <2>2. /\ q \in Questions /\ q.at = "scan" /\ q.found = M!Nothing
    <3>1. asking[r] \in Questions /\ roots \in Seq(Dirs)
      BY <1>1, StudioAssumption
    <3>2. "scan" \in M!Steps
      BY DEF M!Steps
    <3> QED BY <2>1, <3>1, <3>2 DEF Questions
  <2>3. asking' = [asking EXCEPT ![r] = q] /\ UNCHANGED <<shelf, sidecar, arrived, roots, list>>
    BY <1>6 DEF M!ReadRoots
  <2> HIDE DEF q
  <2>4. AskFits(q) BY <2>2 DEF AskFits, M!Nothing, Good, Seen, Naming, Digests
  <2> QED BY <1>1, <2>2, <2>3, <2>4, AskStep
<1>7. ASSUME NEW r \in Requests, M!Scan(r) PROVE StoreInv'
  <2> DEFINE dir == Head(asking[r].todo)
             found == [i \in Ids |-> IF asking[r].found[i] = M!Unlisted /\ shelf[<<dir, i>>] > 0
                                     THEN M!Entry(dir, i) ELSE asking[r].found[i]]
             q == [asking[r] EXCEPT !.todo = Tail(asking[r].todo), !.found = found]
  <2>1. asking[r].todo \in Seq(Dirs) /\ asking[r].todo # <<>> /\ asking[r] \in Questions /\ asking[r].at = "scan"
    BY <1>1, <1>7 DEF Questions, M!Scan, M!At
  <2>2. dir \in Dirs /\ Tail(asking[r].todo) \in Seq(Dirs)
    BY <2>1
  <2>3. \A i \in Ids : <<dir, i>> \in M!Files
    BY <2>2 DEF M!Files
  <2>4. asking' = [asking EXCEPT ![r] = q] /\ UNCHANGED <<shelf, sidecar, arrived, roots, list>>
    <3> HIDE DEF dir
    <3>1. asking' = [asking EXCEPT ![r].todo = Tail(@),
                        ![r].found = [i \in Ids |-> IF @[i] = M!Unlisted /\ shelf[<<dir, i>>] > 0 THEN M!Entry(dir, i) ELSE @[i]]]
      BY <1>7 DEF M!Scan, dir
    <3> QED BY <1>1, <1>7, <3>1 DEF M!Scan
  <2> HIDE DEF dir
  <2>5. ASSUME NEW i \in Ids, shelf[<<dir, i>>] > 0
        PROVE  M!Entry(dir, i) \in M!Entries /\ Good(i, M!Entry(dir, i))
    <3>1. /\ shelf[<<dir, i>>] \in M!Numbers /\ sidecar[<<dir, i>>] \in [sha: M!Numbers, size: M!Numbers]
          /\ shelf[<<dir, i>>] <= arrived /\ M!Believed(<<dir, i>>) \in {0, shelf[<<dir, i>>]}
      BY <2>3, <2>5 DEF StoreInv, StoreTypes, M!BelievedIsTrue
    <3>2. M!Entry(dir, i) \in M!Entries /\ M!Entry(dir, i).dir = dir /\ M!Entry(dir, i).size = shelf[<<dir, i>>]
          /\ M!Entry(dir, i).sha = M!Believed(<<dir, i>>)
      BY <2>2, <3>1 DEF M!Entry, M!Entries
    <3>3. Past(<<dir, i>>, shelf[<<dir, i>>])
      <4>1. shelf[<<dir, i>>] \in Nat BY <3>1
      <4> QED BY <2>5, <3>1, <4>1 DEF Past
    <3> QED BY <2>2, <3>1, <3>2, <3>3 DEF Good, Seen
  <2>6. found \in [Ids -> M!Entries] /\ \A i \in Ids : Good(i, found[i])
    <3>1. \A i \in Ids : asking[r].found[i] \in M!Entries /\ Good(i, asking[r].found[i])
      BY <1>1, <2>1 DEF Questions, AskFits
    <3> QED BY <2>5, <3>1
  <2>7. q \in Questions /\ q.at = "scan" /\ q.found = found
    <3> HIDE DEF found
    <3> QED BY <2>1, <2>2, <2>6 DEF Questions
  <2> HIDE DEF q, found
  <2>8. AskFits(q) BY <2>6, <2>7 DEF AskFits, Naming, Digests
  <2> QED BY <1>1, <2>4, <2>7, <2>8, AskStep
<1>8. ASSUME NEW r \in Requests, M!Land(r) PROVE StoreInv'
  <2>1. list' = asking[r].found /\ M!Over(r) /\ UNCHANGED <<shelf, sidecar, arrived, roots>>
    BY <1>8 DEF M!Land
  <2>2. list' \in [Ids -> M!Entries] /\ \A i \in Ids : Good(i, list'[i])
    BY <1>1, <2>1 DEF Questions, AskFits
  <2> QED BY <1>1, <2>1, <2>2, AskOver, AskStep
<1>9. ASSUME NEW r \in Requests, M!Check(r) PROVE StoreInv'
  <2>1. UNCHANGED <<shelf, sidecar, arrived, roots, list>> /\ asking[r].at = "check" BY <1>9 DEF M!Check, M!At
  <2>2. CASE M!Over(r) BY <1>1, <2>1, <2>2, AskOver, AskStep
  <2>3. CASE M!Go(r, "unlink")
    <3>1. "unlink" \in M!Steps /\ "unlink" \notin Digests /\ "check" \in Naming BY DEF M!Steps, Naming, Digests
    <3> QED BY <1>1, <2>1, <2>3, <3>1, AskGoes, AskStep
  <2> QED BY <1>9, <2>2, <2>3 DEF M!Check
<1>10. ASSUME NEW r \in Requests, M!Unlink(r) PROVE StoreInv'
  <2>1. UNCHANGED <<sidecar, arrived, roots, list>> /\ asking[r].at = "unlink" BY <1>10 DEF M!Unlink, M!At
  <2>2. CASE M!Over(r) /\ UNCHANGED shelf BY <1>1, <2>1, <2>2, AskOver, AskStep
  <2>3. CASE shelf' = [shelf EXCEPT ![M!FileOf(r)] = 0] /\ M!Go(r, "unsidecar")
    <3>1. "unsidecar" \in M!Steps /\ "unsidecar" \notin Digests /\ "unlink" \in Naming BY DEF M!Steps, Naming, Digests
    <3>2. asking[r].id \in Ids /\ asking[r].model.dir \in Dirs BY <1>1, <2>1, <3>1 DEF AskFits, Seen
    <3>3. M!FileOf(r) \in M!Files BY <3>2 DEF M!FileOf, M!Files
    <3> QED BY <2>1, <2>3, <3>1, <3>3, AskGoes, FileStep
  <2> QED BY <1>10, <2>2, <2>3 DEF M!Unlink
<1>11. ASSUME NEW r \in Requests, M!Unsidecar(r) PROVE StoreInv'
  <2>1. /\ UNCHANGED <<shelf, arrived, roots, list>> /\ asking[r].at = "unsidecar"
        /\ sidecar' = [sidecar EXCEPT ![M!FileOf(r)] = M!Blank] /\ M!Go(r, "refresh")
    BY <1>11 DEF M!Unsidecar, M!At
  <2>2. "refresh" \in M!Steps \ Naming /\ "refresh" \notin Digests /\ "unsidecar" \in Naming BY DEF M!Steps, Naming, Digests
  <2>3. asking[r].id \in Ids /\ asking[r].model.dir \in Dirs BY <1>1, <2>1, <2>2 DEF AskFits, Seen
  <2>4. M!FileOf(r) \in M!Files BY <2>3 DEF M!FileOf, M!Files
  <2>5. M!Blank \in [sha: M!Numbers, size: M!Numbers] /\ M!Blank.size = 0 /\ M!Blank.sha = 0 BY DEF M!Blank
  <2>6. 0 <= arrived BY DEF StoreInv, StoreTypes
  <2>7. shelf[M!FileOf(r)] > 0 /\ M!Blank.size = shelf[M!FileOf(r)] => M!Blank.sha \in {0, shelf[M!FileOf(r)]} BY <2>5
  <2>8. asking' \in [Requests -> Questions] /\ \A s \in Requests : AskFits(asking'[s]) BY <2>1, <2>2, AskGoes
  <2>9. M!Blank.size <= arrived BY <2>5, <2>6
  <2> QED BY <2>1, <2>4, <2>5, <2>7, <2>8, <2>9, SidecarStep
<1>12. ASSUME NEW r \in Requests, M!Open(r) PROVE StoreInv'
  <2>1. UNCHANGED <<shelf, sidecar, arrived, roots, list>> /\ asking[r].at = "open" BY <1>12 DEF M!Open, M!At
  <2>2. CASE M!Over(r) BY <1>1, <2>1, <2>2, AskOver, AskStep
  <2>3. CASE shelf[M!FileOf(r)] # 0 /\ asking' = [asking EXCEPT ![r].at = "load", ![r].sha = shelf[M!FileOf(r)]]
    <3> DEFINE q == [asking[r] EXCEPT !.at = "load", !.sha = shelf[M!FileOf(r)]]
    <3>1. "load" \in M!Steps /\ "open" \in Naming BY DEF M!Steps, Naming
    <3>2. asking[r] \in Questions /\ asking[r].id \in Ids /\ asking[r].model # M!Unlisted /\ Seen(asking[r].id, asking[r].model)
      BY <1>1, <2>1, <3>1 DEF AskFits
    <3>3. M!FileOf(r) \in M!Files /\ M!FileOf(r) = <<asking[r].model.dir, asking[r].id>> BY <3>2 DEF M!FileOf, M!Files, Seen
    <3>4. shelf[M!FileOf(r)] \in M!Numbers /\ shelf[M!FileOf(r)] <= arrived BY <3>3 DEF StoreInv, StoreTypes
    <3>5. /\ q \in Questions /\ q.at = "load" /\ q.id = asking[r].id /\ q.model = asking[r].model /\ q.found = asking[r].found
          /\ q.sha = shelf[M!FileOf(r)]
      BY <3>1, <3>2, <3>4 DEF Questions
    <3>6. asking' = [asking EXCEPT ![r] = q] BY <1>1, <2>3
    <3>7. Past(M!FileOf(r), shelf[M!FileOf(r)]) BY <2>3, <3>4 DEF Past
    <3>8. asking[r].model.size <= shelf[M!FileOf(r)] BY <2>3, <3>2, <3>3 DEF Seen, Past
    <3> HIDE DEF q
    <3>9. AskFits(q) BY <1>1, <3>2, <3>3, <3>5, <3>7, <3>8 DEF AskFits
    <3> QED BY <1>1, <2>1, <3>5, <3>6, <3>9, AskStep
  <2> QED BY <1>12, <2>2, <2>3 DEF M!Open
<1>13. ASSUME NEW r \in Requests, M!Load(r) PROVE StoreInv'
  <2> DEFINE q == [asking[r] EXCEPT !.at = "save", !.read = sidecar[M!FileOf(r)]]
  <2>1. /\ UNCHANGED <<shelf, sidecar, arrived, roots, list>> /\ asking[r].at = "load" /\ asking[r] \in Questions
        /\ asking' = [asking EXCEPT ![r] = q]
    BY <1>1, <1>13 DEF M!Load, M!At
  <2>2. "save" \in M!Steps /\ {"save", "load"} \subseteq Naming /\ {"save", "load"} \subseteq Digests BY DEF M!Steps, Naming, Digests
  <2>3. asking[r].id \in Ids /\ asking[r].model.dir \in Dirs BY <1>1, <2>1, <2>2 DEF AskFits, Seen
  <2>4. M!FileOf(r) \in M!Files BY <2>3 DEF M!FileOf, M!Files
  <2>5. sidecar[M!FileOf(r)] \in [sha: M!Numbers, size: M!Numbers] BY <2>4 DEF StoreInv, StoreTypes
  <2>6. /\ q \in Questions /\ q.at = "save" /\ q.id = asking[r].id /\ q.model = asking[r].model /\ q.found = asking[r].found
        /\ q.sha = asking[r].sha
    BY <2>1, <2>2, <2>5 DEF Questions
  <2> HIDE DEF q
  <2>7. AskFits(q) BY <1>1, <2>1, <2>2, <2>6 DEF AskFits
  <2> QED BY <1>1, <2>1, <2>6, <2>7, AskStep
<1>14. ASSUME NEW r \in Requests, M!Save(r) PROVE StoreInv'
  <2>1. UNCHANGED <<shelf, arrived, roots, list>> /\ asking[r].at = "save" /\ asking[r] \in Questions BY <1>1, <1>14 DEF M!Save, M!At
  <2>2. CASE M!Over(r) /\ UNCHANGED sidecar BY <1>1, <2>1, <2>2, AskOver, AskStep
  <2>3. ASSUME sidecar' = [sidecar EXCEPT ![M!FileOf(r)] = [asking[r].read EXCEPT !.sha = asking[r].sha, !.size = asking[r].model.size]],
               M!Go(r, "listed")
        PROVE  StoreInv'
    <3> DEFINE s == [asking[r].read EXCEPT !.sha = asking[r].sha, !.size = asking[r].model.size]
    <3>1. "listed" \in M!Steps /\ {"save", "listed"} \subseteq Naming /\ {"save", "listed"} \subseteq Digests
      BY DEF M!Steps, Naming, Digests
    <3>2. /\ asking[r].id \in Ids /\ asking[r].model # M!Unlisted /\ Seen(asking[r].id, asking[r].model)
          /\ Past(<<asking[r].model.dir, asking[r].id>>, asking[r].sha) /\ asking[r].model.size <= asking[r].sha
      BY <1>1, <2>1, <3>1 DEF AskFits
    <3>3. M!FileOf(r) \in M!Files /\ M!FileOf(r) = <<asking[r].model.dir, asking[r].id>> BY <3>2 DEF M!FileOf, M!Files, Seen
    <3>4. asking[r].model.size \in M!Numbers /\ asking[r].sha \in M!Numbers BY <2>1 DEF Questions, M!Entries
    <3>5. s \in [sha: M!Numbers, size: M!Numbers] /\ s.sha = asking[r].sha /\ s.size = asking[r].model.size
      BY <2>1, <3>4 DEF Questions
    <3>6. s.size <= arrived BY <3>2, <3>5 DEF Seen, Past
    <3>7. shelf[M!FileOf(r)] \in Nat BY <3>3 DEF StoreInv, StoreTypes
    <3>8. shelf[M!FileOf(r)] > 0 /\ s.size = shelf[M!FileOf(r)] => s.sha \in {0, shelf[M!FileOf(r)]}
      BY <3>2, <3>3, <3>4, <3>5, <3>7 DEF Past
    <3>9. sidecar' = [sidecar EXCEPT ![M!FileOf(r)] = s] BY <2>3
    <3> HIDE DEF s
    <3> QED BY <2>1, <2>3, <3>1, <3>3, <3>5, <3>6, <3>8, <3>9, AskGoes, SidecarStep
  <2> QED BY <1>14, <2>2, <2>3 DEF M!Save
<1>15. ASSUME NEW r \in Requests, M!Listed(r) PROVE StoreInv'
  <2> DEFINE e == [asking[r].model EXCEPT !.sha = asking[r].sha]
  <2>1. /\ UNCHANGED <<shelf, sidecar, arrived, roots>> /\ asking[r].at = "listed" /\ asking[r] \in Questions /\ M!Over(r)
        /\ list' = list \/ list' = [list EXCEPT ![asking[r].id] = e]
    BY <1>1, <1>15 DEF M!Listed, M!At
  <2>2. "listed" \in Naming /\ "listed" \in Digests BY DEF Naming, Digests
  <2>3. /\ asking[r].id \in Ids /\ asking[r].model # M!Unlisted /\ Seen(asking[r].id, asking[r].model)
        /\ Past(<<asking[r].model.dir, asking[r].id>>, asking[r].sha) /\ asking[r].model.size <= asking[r].sha
    BY <1>1, <2>1, <2>2 DEF AskFits
  <2>4. asking[r].model \in M!Entries /\ asking[r].sha \in M!Numbers BY <2>1 DEF Questions
  <2>5. e \in M!Entries /\ e.dir = asking[r].model.dir /\ e.size = asking[r].model.size /\ e.sha = asking[r].sha
    BY <2>4 DEF M!Entries
  <2> HIDE DEF e
  <2>6. e.dir \in Dirs /\ Past(<<e.dir, asking[r].id>>, e.size) BY <2>3, <2>5 DEF Seen
  <2>7. Seen(asking[r].id, e) BY <2>6 DEF Seen
  <2>8. shelf[<<e.dir, asking[r].id>>] \in Nat
    <3>1. <<e.dir, asking[r].id>> \in M!Files BY <2>3, <2>6 DEF M!Files
    <3> QED BY <3>1 DEF StoreInv, StoreTypes
  <2>9. shelf[<<e.dir, asking[r].id>>] = e.size => e.sha = e.size
    <3>1. e.size \in Nat /\ e.sha \in Nat /\ 0 < e.size BY <2>4, <2>5, <2>6 DEF M!Entries, Past
    <3> QED BY <2>3, <2>5, <2>8, <3>1 DEF Past
  <2>10. Good(asking[r].id, e) BY <2>7, <2>9 DEF Good
  <2>11. list' \in [Ids -> M!Entries] /\ \A i \in Ids : Good(i, list'[i])
    <3>1. CASE list' = list BY <1>1, <3>1
    <3>2. CASE list' = [list EXCEPT ![asking[r].id] = e]
      <4>1. list' \in [Ids -> M!Entries] BY <1>1, <2>5, <3>2
      <4>2. \A i \in Ids : list'[i] = IF i = asking[r].id THEN e ELSE list[i] BY <1>1, <3>2
      <4> QED BY <1>1, <2>10, <4>1, <4>2
    <3> QED BY <2>1, <3>1, <3>2
  <2> QED BY <1>1, <2>1, <2>11, AskOver, AskStep
<1>16. ASSUME NEW r \in Requests, M!HangUp(r) PROVE StoreInv'
  <2>1. M!Over(r) /\ UNCHANGED <<shelf, sidecar, arrived, roots, list>> BY <1>16 DEF M!HangUp
  <2> QED BY <1>1, <2>1, AskOver, AskStep
<1>17. ASSUME NEW f \in M!Files, NEW vouched \in BOOLEAN, M!Arrive(f, vouched) PROVE StoreInv'
  <2>1. /\ arrived' = arrived + 1 /\ shelf' = [shelf EXCEPT ![f] = arrived'] /\ UNCHANGED <<roots, list, asking>>
        /\ sidecar' = sidecar \/ sidecar' = [sidecar EXCEPT ![f] = [sha |-> arrived', size |-> arrived']]
    BY <1>17 DEF M!Arrive
  <2>2. arrived' \in M!Numbers /\ arrived' > 0
    BY <2>1, <1>17, StudioAssumption DEF M!Arrive, StoreInv, StoreTypes, M!Numbers
  <2>3. PICK n \in M!Numbers : n = arrived' BY <2>2
  <2> QED BY <1>1, <2>1, <2>2, <2>3, FileStep
<1>18. ASSUME NEW f \in M!Files, M!Vanish(f) PROVE StoreInv'
  <2>1. shelf' = [shelf EXCEPT ![f] = 0] /\ UNCHANGED <<sidecar, arrived, roots, list, asking>> BY <1>18 DEF M!Vanish
  <2> QED BY <1>1, <2>1, FileStep
<1> QED BY <1>2, <1>3, <1>5, <1>6, <1>7, <1>8, <1>9, <1>10, <1>11, <1>12, <1>13, <1>14, <1>15, <1>16, <1>17, <1>18
        DEF M!Next, M!Step

(* Nothing is there at first ...                                             *)
LEMMA StoreAtFirst == M!Init => StoreInv
<1> SUFFICES ASSUME M!Init PROVE StoreInv
  OBVIOUS
<1>1. /\ shelf = [f \in M!Files |-> 0] /\ sidecar = [f \in M!Files |-> M!Blank] /\ arrived = 0
      /\ roots \in RootLists /\ list = M!Nothing /\ asking = [r \in Requests |-> M!Idle]
  BY DEF M!Init
<1>2. 0 \in M!Numbers
  BY StudioAssumption DEF M!Numbers
<1>3. M!Unlisted \in M!Entries /\ M!Blank \in [sha: M!Numbers, size: M!Numbers] /\ M!Blank.size = 0 /\ M!Blank.sha = 0
  BY <1>2 DEF M!Unlisted, M!Entries, M!Blank
<1>4. M!Idle \in Questions /\ M!Idle.at = "idle" /\ M!Idle.found = M!Nothing
  BY <1>2, <1>3 DEF M!Idle, Questions, M!Steps, M!Nothing
<1>5. StoreTypes
  BY <1>1, <1>2, <1>3, <1>4 DEF StoreTypes, M!Nothing
<1>6. \A i \in Ids : Good(i, M!Nothing[i])
  BY DEF Good, Seen, M!Nothing
<1>7. AskFits(M!Idle)
  BY <1>4, <1>6 DEF AskFits, Naming, Digests
<1>8. M!BelievedIsTrue
  BY <1>1 DEF M!BelievedIsTrue
<1> QED BY <1>1, <1>3, <1>5, <1>6, <1>7, <1>8 DEF StoreInv

(* ... and what is kept makes the store safe.                                *)
LEMMA StoreIsSafe == StoreInv => M!StoreSafe
<1> SUFFICES ASSUME StoreInv PROVE M!StoreSafe
  OBVIOUS
<1>1. M!TypeOK
  <2>1. \A r \in Requests : asking[r] \in Questions BY DEF StoreInv, StoreTypes
  <2> QED BY <2>1 DEF StoreInv, StoreTypes, M!TypeOK, Questions
<1>2. M!ListedIsTrue
  BY DEF StoreInv, M!ListedIsTrue, Good
<1> QED BY <1>1, <1>2 DEF StoreInv, M!StoreSafe

-----------------------------------------------------------------------------
(* The settings. *)

(* What the parts read and apply_settings does not compare (settings_stale). *)
Unlisted == {"listen", "startup_timeout_secs", "misaka_serve_path", "misaka_tokenizer_path", "image.startup_timeout_secs"}

(* One change at a time, and none of those.                                  *)
Compared ==
  /\ \A r, s \in Changers : r = s
  /\ Varied \cap Unlisted = {}
  /\ \A set \in StartingFiles \cup CommandLines : \A f \in Unlisted \cap DOMAIN set : set[f] = "default"

Sets == {s \in [S!Fields -> UNION {S!Values(f) : f \in S!Fields}] :
           (\A f \in S!Fields : s[f] \in S!Values(f)) /\ \A f \in Unlisted : s[f] = "default"}

Applying == S!Parts \cup {"memory"}
Writing  == {"write", "rename"} \cup Applying

SettingTypes ==
  /\ up \in BOOLEAN /\ seed \in BOOLEAN /\ flags \in CommandLines
  /\ settingsFile = S!NoFile \/ (settingsFile.whole = TRUE /\ settingsFile.is \in Sets)
  /\ memory \in Sets /\ built = [p \in S!Parts |-> built[p]] /\ \A p \in S!Parts : built[p].part = p
  /\ change \in [Changers -> [at: S!Places, old: Sets \cup {<<>>}, new: Sets \cup {<<>>}]]

\* What a first start makes of no file.
Found == S!Overridden(IF settingsFile.whole THEN S!migrate(settingsFile.is) ELSE S!Defaults)

\* A part of the settings s, new or not, is what it should be.
Follows(p, s) == built[p] = S!Build(p, s)

(* A change knows what is in memory, and those of its parts that come before *)
(* the one it is at are built.                                               *)
ChangeFits(q) ==
  /\ q.at # "idle" => q.new \in Sets
  /\ q.at \in Writing => q.old = memory /\ q.new \in owed
  /\ q.at \in Applying =>
       /\ settingsFile.whole = TRUE /\ settingsFile.is = q.new
       /\ \A p \in S!Parts \ {"summarizer"} :
            S!Position(p) < S!Position(q.at) /\ S!Changed(p, memory, q.new) => Follows(p, q.new)

\* The settings a part may have been built from.
Sources == {memory} \cup failed \cup {change[r].new : r \in {s \in Changers : change[s].at \in Applying}}

SettingsInv ==
  /\ SettingTypes
  /\ settingsFile.is \in owed
  /\ \A r \in Changers : ChangeFits(change[r])
  /\ \A p \in S!Parts \ {"summarizer"} : \E s \in Sources : Follows(p, s)
  /\ failed = {} /\ (\A r \in Changers : change[r].at \notin Applying) => memory \in {settingsFile.is, Found}

(* Where the names of fields and parts belong.                               *)
LEMMA FieldsAre ==
  /\ {"schema", "network", "mining_mode", "producer_key_path", "palw_gateway_url", "listen", "llama_server_path",
      "backend.kind", "mlx_server_path", "image.kind"} \subseteq S!Fields
  /\ Unlisted \subseteq S!Fields
  /\ S!StrataFields \subseteq S!Fields /\ S!ImageFields \subseteq S!Fields /\ S!HubFields \subseteq S!Fields
  /\ {"models_dir", "strata.config_path", "record_inferences", "max_records", "summarizer_model"} \subseteq S!Fields
BY DEF S!Fields, Unlisted, S!StrataFields, S!ImageFields, S!HubFields, S!NodeFields, S!FreePromptFields, S!BackendFields,
  S!RecordFields, S!ContextFields

\* What a field may hold.
LEMMA ValuesAre ==
  /\ S!Values("schema") = {"old", "default"} /\ S!Values("network") = S!Networks /\ S!Values("mining_mode") = S!MiningModes
  /\ S!Values("producer_key_path") = {"default", "other"} /\ S!Values("llama_server_path") = {"default", "other"}
  /\ S!Values("palw_gateway_url") = {"none", "elsewhere", "default", "other"}
  /\ \A f \in Unlisted : S!Values(f) = {"default", "other"} /\ S!Default(f) = "default"
  /\ \A f : S!Default(f) \in S!Values(f)
BY DEF S!Values, S!Default, S!Listens, Unlisted, S!BackendKinds, S!Networks, S!MiningModes

\* One field set.
LEMMA SetField ==
  ASSUME NEW s \in Sets, NEW f \in S!Fields \ Unlisted, NEW v \in S!Values(f)
  PROVE  [s EXCEPT ![f] = v] \in Sets
<1> DEFINE t == [s EXCEPT ![f] = v]
<1>1. s \in [S!Fields -> UNION {S!Values(g) : g \in S!Fields}] /\ v \in UNION {S!Values(g) : g \in S!Fields}
  BY DEF Sets
<1>2. t \in [S!Fields -> UNION {S!Values(g) : g \in S!Fields}] /\ \A g \in S!Fields : t[g] = IF g = f THEN v ELSE s[g]
  BY <1>1
<1> HIDE DEF t
<1>3. \A g \in S!Fields : t[g] \in S!Values(g)
  BY <1>2 DEF Sets
<1>4. \A g \in Unlisted : t[g] = "default"
  BY <1>2, FieldsAre DEF Sets
<1> QED BY <1>2, <1>3, <1>4 DEF Sets, t

\* All fields set.
LEMMA SetAll ==
  ASSUME NEW s, s = [f \in S!Fields |-> s[f]], \A f \in S!Fields : s[f] \in S!Values(f), \A f \in Unlisted : s[f] = "default"
  PROVE  s \in Sets
<1>1. \A f \in S!Fields : s[f] \in UNION {S!Values(g) : g \in S!Fields}
  OBVIOUS
<1> QED BY <1>1 DEF Sets

\* The default settings are settings.
LEMMA DefaultsFit == S!Defaults \in Sets
<1>1. S!Defaults = [f \in S!Fields |-> S!Defaults[f]] /\ \A f \in S!Fields : S!Defaults[f] = S!Default(f)
  BY DEF S!Defaults
<1> QED BY <1>1, SetAll, ValuesAre, FieldsAre

\* An older Studio's settings, moved on.
LEMMA MigrateFits == ASSUME NEW t \in Sets PROVE S!migrate(t) \in Sets
<1>1. t["network"] \in S!Networks
  BY FieldsAre, ValuesAre DEF Sets
<1> DEFINE n == IF t["schema"] = "old" /\ t["network"] = "testnet11" THEN "testnet12" ELSE t["network"]
<1>2. n \in S!Values("network")
  BY <1>1, ValuesAre DEF S!Networks
<1>3. "network" \in S!Fields \ Unlisted /\ "schema" \in S!Fields \ Unlisted /\ "default" \in S!Values("schema")
  BY FieldsAre, ValuesAre DEF Unlisted
<1>4. [t EXCEPT !["network"] = n] \in Sets
  BY <1>2, <1>3, SetField
<1>5. [[t EXCEPT !["network"] = n] EXCEPT !["schema"] = "default"] \in Sets
  BY <1>3, <1>4, SetField
<1>6. S!migrate(t) = [[t EXCEPT !["network"] = n] EXCEPT !["schema"] = "default"]
  BY DEF S!migrate
<1> QED BY <1>5, <1>6

\* Settings under the command line's.
LEMMA OverriddenFits ==
  ASSUME Compared, flags \in CommandLines, NEW s \in Sets
  PROVE  S!Overridden(s) \in Sets
<1> DEFINE o == S!Overridden(s)
<1>1. o = [f \in S!Fields |-> o[f]] /\ \A f \in S!Fields : o[f] = IF f \in DOMAIN flags THEN flags[f] ELSE s[f]
  BY DEF S!Overridden
<1> HIDE DEF o
<1>2. Fits(flags) /\ \A f \in Unlisted \cap DOMAIN flags : flags[f] = "default"
  BY StudioAssumption DEF Compared
<1>3. \A f \in S!Fields : o[f] \in S!Values(f)
  BY <1>1, <1>2 DEF Fits, Sets
<1>4. \A f \in Unlisted : o[f] = "default"
  BY <1>1, <1>2, FieldsAre DEF Sets
<1>5. o \in Sets
  BY <1>1, <1>3, <1>4, SetAll
<1> QED BY <1>5 DEF o

(* What a start finds is settings.                                           *)
LEMMA FoundFits ==
  ASSUME Compared, SettingTypes PROVE Found \in Sets
<1> DEFINE s == IF settingsFile.whole THEN S!migrate(settingsFile.is) ELSE S!Defaults
<1>1. s \in Sets
  <2>1. CASE settingsFile = S!NoFile BY <2>1, DefaultsFit DEF S!NoFile
  <2>2. CASE settingsFile.whole = TRUE /\ settingsFile.is \in Sets BY <2>2, MigrateFits
  <2> QED BY <2>1, <2>2 DEF SettingTypes
<1> QED BY <1>1, OverriddenFits DEF Found, SettingTypes

\* Where each part stands in the order.
LEMMA OrderIs ==
  /\ S!Order \in Seq(Applying) /\ Len(S!Order) = 7
  /\ \A i \in 1 .. 7 : S!Position(S!Order[i]) = i /\ S!Order[i] \in Applying
  /\ \A p \in Applying : S!Position(p) \in 1 .. 7 /\ S!Order[S!Position(p)] = p
  /\ S!Position("memory") = 7 /\ \A p \in S!Parts : S!Position(p) \in 1 .. 6
  /\ \A i \in 1 .. 7 : S!Order[i] = "memory" <=> i = 7
<1>1. /\ Len(S!Order) = 7 /\ S!Order \in Seq(Applying)
      /\ S!Order[1] = "summarizer" /\ S!Order[2] = "backend" /\ S!Order[3] = "image" /\ S!Order[4] = "roots"
      /\ S!Order[5] = "catalog" /\ S!Order[6] = "records" /\ S!Order[7] = "memory"
  BY DEF S!Order, Applying, S!Parts
<1>2. \A i, j \in 1 .. 7 : S!Order[i] = S!Order[j] => i = j
  BY <1>1
<1>3. \A i \in 1 .. 7 : S!Position(S!Order[i]) = i
  <2> TAKE i \in 1 .. 7
  <2>0. \A p : (\E k \in 1 .. Len(S!Order) : S!Order[k] = p) => S!Position(p) \in 1 .. Len(S!Order) /\ S!Order[S!Position(p)] = p
    BY Zenon DEF S!Position
  <2>1. S!Position(S!Order[i]) \in 1 .. 7 /\ S!Order[S!Position(S!Order[i])] = S!Order[i] BY <1>1, <2>0
  <2> QED BY <1>2, <2>1
<1>4. \A p \in Applying : \E i \in 1 .. 7 : S!Order[i] = p
  BY <1>1 DEF Applying, S!Parts
<1>5. "memory" \notin S!Parts
  BY DEF S!Parts
<1>6. \A i \in 1 .. 7 : S!Order[i] = "memory" <=> i = 7
  <2>1. 7 \in 1 .. 7 OBVIOUS
  <2> QED BY <1>1, <1>2, <2>1
<1>7. \A p \in Applying : S!Position(p) \in 1 .. 7 /\ S!Order[S!Position(p)] = p
  BY <1>3, <1>4
<1>8. \A i \in 1 .. 7 : S!Order[i] \in Applying
  BY <1>1, ElementOfSeq
<1>9. S!Position("memory") = 7
  BY <1>3, <1>1
<1>10. ASSUME NEW p \in S!Parts PROVE S!Position(p) \in 1 .. 6
  <2>1. p \in Applying /\ p # "memory" BY <1>5 DEF Applying
  <2>2. S!Position(p) \in 1 .. 7 /\ S!Order[S!Position(p)] = p BY <1>7, <2>1
  <2>3. S!Position(p) # 7 BY <1>1, <2>1, <2>2
  <2> QED BY <2>2, <2>3
<1> QED BY <1>1, <1>3, <1>6, <1>7, <1>8, <1>9, <1>10

\* The next part due: what lies between has not changed.
LEMMA AfterIs ==
  ASSUME NEW n \in 0 .. 6, NEW s, NEW t
  PROVE  /\ S!After(n, s, t) \in Applying /\ S!Position(S!After(n, s, t)) > n
         /\ \A p \in S!Parts : n < S!Position(p) /\ S!Position(p) < S!Position(S!After(n, s, t)) => ~S!Changed(p, s, t)
<1> DEFINE D == {i \in n + 1 .. Len(S!Order) : S!Order[i] = "memory" \/ S!Changed(S!Order[i], s, t)}
           d == CHOOSE i \in D : \A j \in D : i <= j
<1>1. D \subseteq 1 .. 7 /\ 7 \in D /\ D \subseteq n + 1 .. 7
  BY OrderIs
<1>2. \E i \in D : \A j \in D : i <= j
  <2> HIDE DEF D
  <2>1. CASE 1 \in D BY <1>1, <2>1
  <2>2. CASE 1 \notin D /\ 2 \in D BY <1>1, <2>2
  <2>3. CASE 1 \notin D /\ 2 \notin D /\ 3 \in D BY <1>1, <2>3
  <2>4. CASE 1 \notin D /\ 2 \notin D /\ 3 \notin D /\ 4 \in D BY <1>1, <2>4
  <2>5. CASE 1 \notin D /\ 2 \notin D /\ 3 \notin D /\ 4 \notin D /\ 5 \in D BY <1>1, <2>5
  <2>6. CASE 1 \notin D /\ 2 \notin D /\ 3 \notin D /\ 4 \notin D /\ 5 \notin D /\ 6 \in D BY <1>1, <2>6
  <2>7. CASE 1 \notin D /\ 2 \notin D /\ 3 \notin D /\ 4 \notin D /\ 5 \notin D /\ 6 \notin D BY <1>1, <2>7
  <2> QED BY <2>1, <2>2, <2>3, <2>4, <2>5, <2>6, <2>7
<1>3. d \in D /\ \A j \in D : d <= j
  <2> HIDE DEF D
  <2> QED BY <1>2
<1>4. S!After(n, s, t) = S!Order[d]
  BY DEF S!After
<1>5. d \in 1 .. 7 /\ d > n
  <2> HIDE DEF D, d
  <2> QED BY <1>1, <1>3
<1>6. S!Position(S!Order[d]) = d /\ S!Order[d] \in Applying
  <2> HIDE DEF d
  <2> QED BY <1>5, OrderIs
<1>7. ASSUME NEW p \in S!Parts, n < S!Position(p), S!Position(p) < d PROVE ~S!Changed(p, s, t)
  <2>1. S!Position(p) \in 1 .. 6 /\ S!Order[S!Position(p)] = p BY OrderIs DEF Applying
  <2>2. S!Position(p) \notin D
    <3> HIDE DEF D, d
    <3> QED BY <1>3, <1>5, <1>7, <2>1
  <2>3. S!Position(p) \in n + 1 .. Len(S!Order) BY <1>7, <2>1, OrderIs
  <2> QED BY <2>1, <2>2, <2>3
<1> HIDE DEF d, D
<1> QED BY <1>4, <1>5, <1>6, <1>7

(* What a change does not touch is built as it was.                          *)
LEMMA Untouched ==
  ASSUME NEW s \in Sets, NEW t \in Sets, NEW p \in S!Parts \ {"summarizer"}, ~S!Changed(p, s, t)
  PROVE  S!Build(p, s) = S!Build(p, t)
<1>1. \A f \in S!Compared(p) : s[f] = t[f]
  BY DEF S!Changed
<1>2. \A f \in Unlisted : s[f] = t[f]
  BY DEF Sets
<1>3. ASSUME NEW F, F \subseteq S!Compared(p) \cup Unlisted PROVE S!Restricted(s, F) = S!Restricted(t, F)
  <2>1. \A f \in F : s[f] = t[f] BY <1>1, <1>2, <1>3
  <2> QED BY <2>1 DEF S!Restricted
<1>4. CASE p = "backend"
  <2>1. S!Compared(p) = {"backend.kind", "llama_server_path", "mlx_server_path", "palw_gateway_url", "mining_mode"} \cup S!StrataFields
    BY <1>4 DEF S!Compared
  <2>2. /\ s["backend.kind"] = t["backend.kind"] /\ s["mlx_server_path"] = t["mlx_server_path"]
        /\ s["palw_gateway_url"] = t["palw_gateway_url"] /\ s["listen"] = t["listen"]
    BY <1>1, <1>2, <2>1 DEF Unlisted
  <2>3. S!Engine(s) = S!Engine(t) /\ S!gateway_url(s) = S!gateway_url(t)
    BY <2>2 DEF S!Engine, S!gateway_url
  <2>4. \A e : S!EngineReads(e) \subseteq S!Compared(p) \cup Unlisted
    BY <2>1 DEF S!EngineReads, Unlisted
  <2>5. S!Restricted(s, S!EngineReads(S!Engine(s))) = S!Restricted(t, S!EngineReads(S!Engine(t)))
    BY <1>3, <2>3, <2>4
  <2>6. \A x : S!Build("backend", x) = S!Built("backend", S!Engine(x), S!Restricted(x, S!EngineReads(S!Engine(x))),
                                                IF S!Engine(x) = "gateway" THEN S!gateway_url(x) ELSE "none")
    BY DEF S!Build
  <2> QED BY <1>4, <2>3, <2>5, <2>6
<1>5. CASE p = "image"
  <2>1. S!Compared(p) = {"image.kind", "image.python_path", "diffusion_server_path", "image.device"}
    BY <1>5 DEF S!Compared
  <2>2. s["image.kind"] = t["image.kind"] BY <1>1, <2>1
  <2>3. \A k : S!ImageReads(k) \subseteq S!Compared(p) \cup Unlisted
    BY <2>1 DEF S!ImageReads, S!ImageFields, Unlisted
  <2>4. S!Restricted(s, S!ImageReads(s["image.kind"])) = S!Restricted(t, S!ImageReads(t["image.kind"]))
    BY <1>3, <2>2, <2>3
  <2>5. \A x : S!Build("image", x) = S!Built("image", x["image.kind"], S!Restricted(x, S!ImageReads(x["image.kind"])), "none")
    BY DEF S!Build
  <2> QED BY <1>5, <2>2, <2>4, <2>5
<1>6. CASE p = "roots"
  <2>1. S!Compared(p) = {"models_dir", "strata.config_path"} BY <1>6 DEF S!Compared
  <2>2. S!Restricted(s, {"models_dir", "strata.config_path"}) = S!Restricted(t, {"models_dir", "strata.config_path"}) BY <1>3, <2>1
  <2>3. \A x : S!Build("roots", x) = S!Built("roots", "roots", S!Restricted(x, {"models_dir", "strata.config_path"}), "none")
    BY DEF S!Build
  <2> QED BY <1>6, <2>2, <2>3
<1>7. CASE p = "catalog"
  <2>1. S!Compared(p) = S!HubFields BY <1>7 DEF S!Compared
  <2>2. S!Restricted(s, S!HubFields) = S!Restricted(t, S!HubFields) BY <1>3, <2>1
  <2>3. \A x : S!Build("catalog", x) = S!Built("catalog", "catalog", S!Restricted(x, S!HubFields), "none")
    BY DEF S!Build
  <2> QED BY <1>7, <2>2, <2>3
<1>8. CASE p = "records"
  <2>1. S!Compared(p) = {"record_inferences", "max_records"} BY <1>8 DEF S!Compared
  <2>2. S!Restricted(s, {"record_inferences", "max_records"}) = S!Restricted(t, {"record_inferences", "max_records"}) BY <1>3, <2>1
  <2>3. \A x : S!Build("records", x) = S!Built("records", "records", S!Restricted(x, {"record_inferences", "max_records"}), "none")
    BY DEF S!Build
  <2> QED BY <1>8, <2>2, <2>3
<1> QED BY <1>4, <1>5, <1>6, <1>7, <1>8 DEF S!Parts

\* A part that is built is the one it is.
LEMMA BuiltIs == \A p \in S!Parts : \A s : S!Build(p, s).part = p
BY DEF S!Build, S!Built, S!Parts

(* A handler asks for settings of its own.                                   *)
LEMMA AskedFor ==
  ASSUME Compared, SettingTypes, NEW r \in Changers, S!Handlers(r)
  PROVE  \E new \in Sets : S!Ask(r, new) /\ seed' \in BOOLEAN
<1>1. memory \in Sets /\ seed \in BOOLEAN
  BY DEF SettingTypes
<1>2. /\ {"schema", "mining_mode", "producer_key_path", "palw_gateway_url", "llama_server_path"} \subseteq S!Fields \ Unlisted
      /\ "listen" \in Unlisted
  BY FieldsAre DEF Unlisted
<1>3. CASE S!put_settings(r)
  <2>0. PICK f \in Varied : \E v \in S!Values(f) \ {memory[f]} :
          S!Ask(r, [memory EXCEPT ![f] = v, !["schema"] = "default"]) /\ UNCHANGED seed
    BY <1>3 DEF S!put_settings
  <2>1. PICK v \in S!Values(f) \ {memory[f]} : S!Ask(r, [memory EXCEPT ![f] = v, !["schema"] = "default"]) /\ UNCHANGED seed
    BY <2>0
  <2>2. f \in S!Fields \ Unlisted BY StudioAssumption DEF Compared
  <2>3. [memory EXCEPT ![f] = v] \in Sets BY <1>1, <2>2, SetField
  <2>4. [[memory EXCEPT ![f] = v] EXCEPT !["schema"] = "default"] \in Sets BY <1>2, <2>3, SetField, ValuesAre
  <2>5. [memory EXCEPT ![f] = v, !["schema"] = "default"] = [[memory EXCEPT ![f] = v] EXCEPT !["schema"] = "default"]
    OBVIOUS
  <2> QED BY <1>1, <2>1, <2>4, <2>5
<1>4. CASE S!reset_settings(r)
  BY <1>1, <1>4, DefaultsFit DEF S!reset_settings
<1>5. CASE S!set_mode(r)
  <2>1. PICK m \in S!MiningModes : S!Ask(r, [memory EXCEPT !["mining_mode"] = m]) /\ UNCHANGED seed
    BY <1>5 DEF S!set_mode
  <2>2. [memory EXCEPT !["mining_mode"] = m] \in Sets BY <1>1, <1>2, SetField, ValuesAre
  <2> QED BY <1>1, <2>1, <2>2
<1>6. CASE S!producer_key(r)
  <2>1. [memory EXCEPT !["producer_key_path"] = "other"] \in Sets BY <1>1, <1>2, SetField, ValuesAre
  <2> QED BY <1>6, <2>1 DEF S!producer_key
<1>7. CASE S!prompt_stack_start(r)
  <2>1. S!gateway_url(memory) \in S!Values("palw_gateway_url")
    <3>1. memory["palw_gateway_url"] \in S!Values("palw_gateway_url") /\ memory["listen"] = "default"
      BY <1>1, <1>2 DEF Sets
    <3> QED BY <3>1, ValuesAre DEF S!gateway_url
  <2>2. [memory EXCEPT !["palw_gateway_url"] = S!gateway_url(memory)] \in Sets BY <1>1, <1>2, <2>1, SetField
  <2> QED BY <1>1, <1>7, <2>2 DEF S!prompt_stack_start
<1>8. CASE S!prompt_stack_stop(r)
  <2>1. [memory EXCEPT !["palw_gateway_url"] = "none"] \in Sets BY <1>1, <1>2, SetField, ValuesAre
  <2> QED BY <1>1, <1>8, <2>1 DEF S!prompt_stack_stop
<1>9. CASE S!engine_installed(r)
  <2>1. [memory EXCEPT !["llama_server_path"] = "other"] \in Sets BY <1>1, <1>2, SetField, ValuesAre
  <2> QED BY <1>1, <1>9, <2>1 DEF S!engine_installed
<1> QED BY <1>3, <1>4, <1>5, <1>6, <1>7, <1>8, <1>9 DEF S!Handlers

Changing == [at: S!Places, old: Sets \cup {<<>>}, new: Sets \cup {<<>>}]

\* What is built is as it was, but for what the change q was at.
Rebuilt(q, b) ==
  /\ b = [p \in S!Parts |-> b[p]] /\ \A p \in S!Parts : b[p].part = p
  /\ \A p \in S!Parts \ {"summarizer"} : b[p] = built[p] \/ (q.at \in Applying /\ b[p] = S!Build(p, q.new))

\* A change q that fits what is built.
Due(q, b) ==
  /\ q.at # "idle" => q.new \in Sets
  /\ q.at \in Writing => q.old = memory
  /\ q.at \in Applying =>
       /\ settingsFile.whole = TRUE /\ settingsFile.is = q.new
       /\ \A p \in S!Parts \ {"summarizer"} :
            S!Position(p) < S!Position(q.at) /\ S!Changed(p, memory, q.new) => b[p] = S!Build(p, q.new)

\* A change goes on, or is given up.
Onward(q, t) ==
  /\ failed' = failed \/ failed' = failed \cup {q.new}
  /\ q.at \in Applying => (t.at \in Applying /\ t.new = q.new) \/ q.new \in failed'

(* A step of a change, that leaves the file and the memory.                  *)
LEMMA ChangeStep ==
  ASSUME Compared, SettingsInv, NEW r \in Changers, NEW q \in Changing,
         change' = [change EXCEPT ![r] = q], UNCHANGED <<up, flags, settingsFile, memory>>, seed' \in BOOLEAN,
         settingsFile.is \in owed', q.at \in Writing => q.new \in owed',
         Rebuilt(change[r], built'), Due(q, built'), Onward(change[r], q)
  PROVE  SettingsInv'
<1> PICK b : b = built'
  OBVIOUS
<1> Changing = [at: S!Places, old: Sets \cup {<<>>}, new: Sets \cup {<<>>}]
  BY DEF Changing
<1> USE DEF Rebuilt, Due, Onward
<1>1. SettingTypes /\ SettingTypes'
  <2>1. built' = [p \in S!Parts |-> built'[p]] /\ \A p \in S!Parts : built'[p].part = p OBVIOUS
  <2> QED BY <2>1 DEF SettingsInv, SettingTypes
<1>2. change'[r] = q /\ \A s \in Changers : s = r
  BY DEF SettingsInv, SettingTypes, Compared
<1>3. ChangeFits(q)'
  BY DEF ChangeFits, Follows
<1>4. \A s \in Changers : ChangeFits(change[s])'
  <2> TAKE s \in Changers
  <2>1. change'[s] = q BY <1>2
  <2> QED BY <1>3, <2>1 DEF ChangeFits, Follows
<1>5. ASSUME NEW p \in S!Parts \ {"summarizer"} PROVE \E s \in Sources' : b[p] = S!Build(p, s)
  <2>1. \A x : x \in Sources <=> x = memory \/ x \in failed \/ \E s \in Changers : change[s].at \in Applying /\ x = change[s].new
    BY DEF Sources
  <2>2. \A x : x \in Sources' <=> x = memory' \/ x \in failed' \/ \E s \in Changers : change'[s].at \in Applying /\ x = change'[s].new
    BY DEF Sources
  <2>3. PICK x \in Sources : built[p] = S!Build(p, x) BY DEF SettingsInv, Follows
  <2>4. change[r].at \in Applying => change[r].new \in Sources' BY <1>2, <2>2
  <2>5. x \in Sources' BY <1>2, <2>1, <2>2, <2>4
  <2> QED BY <2>3, <2>4, <2>5
<1>6. failed' = {} /\ (\A s \in Changers : change'[s].at \notin Applying) => memory' \in {settingsFile'.is, Found'}
  <2> SUFFICES ASSUME failed' = {}, \A s \in Changers : change'[s].at \notin Applying
               PROVE  memory \in {settingsFile.is, Found}
    BY DEF Found, S!Overridden
  <2>1. failed = {} /\ change[r].at \notin Applying BY <1>2
  <2> QED BY <1>2, <2>1 DEF SettingsInv
<1> QED BY <1>1, <1>4, <1>5, <1>6 DEF SettingsInv, Follows

\* One change is all there is.
LEMMA OnlyChange ==
  ASSUME Compared, NEW r \in Changers
  PROVE  \A s \in Changers : s = r
BY DEF Compared

\* Parts that nobody touched are as they were, or as the change makes them.
LEMMA StillBuilt == ASSUME SettingsInv PROVE \A q : Rebuilt(q, built)
BY DEF SettingsInv, SettingTypes, Rebuilt

\* What ends with a step that nobody finishes.
LEMMA GivenUp ==
  ASSUME Compared, SettingsInv, NEW r \in Changers, S!GiveUp(r), UNCHANGED <<up, flags, settingsFile, memory, seed, owed>>,
         Rebuilt(change[r], built')
  PROVE  SettingsInv'
<1> DEFINE q == S!NoRequest
<1>1. q \in Changing /\ q.at \notin Writing /\ q.at \notin Applying /\ q.at = "idle"
  BY DEF S!NoRequest, S!Places, Writing, Applying, S!Parts, Changing
<1>2. change' = [change EXCEPT ![r] = q] /\ failed' = failed \cup {change[r].new}
  BY DEF S!GiveUp
<1>3. seed' \in BOOLEAN /\ settingsFile.is \in owed'
  BY <1>2 DEF SettingsInv, SettingTypes
<1> HIDE DEF q
<1>4. Due(q, built') /\ Onward(change[r], q)
  BY <1>1, <1>2 DEF Due, Onward
<1> QED BY <1>1, <1>2, <1>3, <1>4, ChangeStep

(* It keeps the settings' invariant, whatever is asked for and fails.        *)
LEMMA SettingsStay ==
  ASSUME Compared, SettingsInv, S!Next
  PROVE  SettingsInv'
<1>1. /\ change \in [Changers -> Changing] /\ memory \in Sets /\ seed \in BOOLEAN
      /\ built = [p \in S!Parts |-> built[p]] /\ (\A p \in S!Parts : built[p].part = p)
      /\ settingsFile.is \in owed /\ \A r \in Changers : ChangeFits(change[r])
  BY DEF SettingsInv, SettingTypes, Changing
<1>2. /\ {"idle", "read", "write", "rename", "memory"} \subseteq S!Places /\ S!Parts \subseteq S!Places
      /\ {"idle", "read"} \cap Writing = {} /\ {"write", "rename"} \subseteq Writing /\ Applying \subseteq Writing
      /\ {"idle", "read", "write", "rename"} \cap Applying = {} /\ Applying \subseteq S!Places /\ "memory" \in Applying
      /\ S!Parts \subseteq Applying /\ "idle" \notin S!Parts
  BY DEF S!Places, Writing, Applying, S!Parts
<1>3. S!NoRequest \in Changing /\ S!NoRequest.at = "idle"
  BY <1>2 DEF S!NoRequest, Changing
<1>4. ASSUME NEW r \in Changers, S!Handlers(r) PROVE SettingsInv'
  <2>1. PICK new \in Sets : S!Ask(r, new) /\ seed' \in BOOLEAN
    BY <1>4, AskedFor DEF SettingsInv
  <2> DEFINE q == [S!NoRequest EXCEPT !.at = "read", !.new = new]
  <2>2. q \in Changing /\ q.at = "read" /\ q.new = new
    BY <1>2 DEF S!NoRequest, Changing
  <2>3. change' = [change EXCEPT ![r] = q] /\ change[r].at = "idle" /\ UNCHANGED <<up, flags, settingsFile, memory, built, owed, failed>>
    BY <2>1 DEF S!Ask
  <2> HIDE DEF q
  <2>4. Rebuilt(change[r], built') BY <2>3, StillBuilt
  <2>5. Due(q, built') /\ Onward(change[r], q) /\ q.at \notin Writing BY <1>2, <2>2, <2>3 DEF Due, Onward
  <2> QED BY <1>1, <2>1, <2>2, <2>3, <2>4, <2>5, ChangeStep
<1>5. ASSUME NEW r \in Changers, S!Begin(r) PROVE SettingsInv'
  <2>1. change[r].at = "read" /\ UNCHANGED <<up, flags, settingsFile, memory, built, seed, failed>>
    BY <1>5 DEF S!Begin
  <2>2. Rebuilt(change[r], built') BY <2>1, StillBuilt
  <2>3. CASE change' = [change EXCEPT ![r].at = "write", ![r].old = memory] /\ owed' = owed \cup {change[r].new}
    <3> DEFINE q == [change[r] EXCEPT !.at = "write", !.old = memory]
    <3>1. change[r] \in Changing /\ change[r].new \in Sets BY <1>1, <2>1 DEF ChangeFits
    <3>2. q \in Changing /\ q.at = "write" /\ q.old = memory /\ q.new = change[r].new BY <1>1, <1>2, <3>1 DEF Changing
    <3>3. change' = [change EXCEPT ![r] = q] BY <1>1, <2>3
    <3> HIDE DEF q
    <3>4. Due(q, built') /\ Onward(change[r], q) BY <1>2, <2>1, <3>1, <3>2 DEF Due, Onward
    <3>5. seed' \in BOOLEAN /\ settingsFile.is \in owed' /\ q.new \in owed' BY <1>1, <2>1, <2>3, <3>2
    <3> QED BY <2>1, <2>2, <3>2, <3>3, <3>4, <3>5, ChangeStep
  <2>4. CASE change' = [change EXCEPT ![r] = S!NoRequest] /\ UNCHANGED owed
    <3> DEFINE q == S!NoRequest
    <3>1. Due(q, built') /\ Onward(change[r], q) /\ q.at \notin Writing BY <1>2, <1>3, <2>1 DEF Due, Onward
    <3>2. q \in Changing /\ change' = [change EXCEPT ![r] = q] BY <1>3, <2>4
    <3>3. seed' \in BOOLEAN /\ settingsFile.is \in owed' BY <1>1, <2>1, <2>4
    <3> HIDE DEF q
    <3> QED BY <2>1, <2>2, <3>1, <3>2, <3>3, ChangeStep
  <2> QED BY <1>5, <2>3, <2>4 DEF S!Begin
<1>6. ASSUME NEW r \in Changers, S!Write(r) PROVE SettingsInv'
  <2> DEFINE q == [change[r] EXCEPT !.at = "rename"]
  <2>1. change[r].at = "write" /\ UNCHANGED <<up, flags, settingsFile, memory, built, seed, owed, failed>>
    BY <1>6 DEF S!Write
  <2>2. Rebuilt(change[r], built') BY <2>1, StillBuilt
  <2>3. change[r] \in Changing /\ change[r].new \in Sets /\ change[r].old = memory /\ change[r].new \in owed
    BY <1>1, <1>2, <2>1 DEF ChangeFits
  <2>4. q \in Changing /\ q.at = "rename" /\ q.old = memory /\ q.new = change[r].new BY <1>2, <2>3 DEF Changing
  <2>5. change' = [change EXCEPT ![r] = q] BY <1>6 DEF S!Write
  <2> HIDE DEF q
  <2>6. Due(q, built') /\ Onward(change[r], q) BY <1>2, <2>1, <2>3, <2>4 DEF Due, Onward
  <2>7. seed' \in BOOLEAN /\ settingsFile.is \in owed' /\ q.new \in owed' BY <1>1, <2>1, <2>3, <2>4
  <2> QED BY <2>1, <2>2, <2>4, <2>5, <2>6, <2>7, ChangeStep
<1>7. ASSUME NEW r \in Changers, S!Rename(r) PROVE SettingsInv'
  <2>1. /\ change[r].at = "rename" /\ UNCHANGED <<up, flags, memory, built, seed, owed, failed>>
        /\ settingsFile' = [whole |-> TRUE, is |-> change[r].new]
        /\ change' = [change EXCEPT ![r].at = S!After(0, change[r].old, change[r].new)]
    BY <1>7 DEF S!Rename
  <2>2. change[r] \in Changing /\ change[r].new \in Sets /\ change[r].old = memory /\ change[r].new \in owed
    BY <1>1, <1>2, <2>1 DEF ChangeFits
  <2> DEFINE place == S!After(0, memory, change[r].new)
             q == [change[r] EXCEPT !.at = place]
  <2>3. /\ place \in Applying /\ S!Position(place) > 0
        /\ \A p \in S!Parts : 0 < S!Position(p) /\ S!Position(p) < S!Position(place) => ~S!Changed(p, memory, change[r].new)
    BY AfterIs
  <2>4. change' = [change EXCEPT ![r] = q] BY <2>1, <2>2
  <2> HIDE DEF place
  <2>5. q \in Changing /\ q.at = place /\ q.old = memory /\ q.new = change[r].new BY <1>2, <2>2, <2>3 DEF Changing
  <2> HIDE DEF q
  <2>6. change'[r] = q /\ change' \in [Changers -> Changing] /\ \A s \in Changers : s = r
    BY <1>1, <2>4, <2>5, OnlyChange
  <2>7. SettingTypes'
    BY <2>1, <2>2, <2>6 DEF SettingsInv, SettingTypes, Changing
  <2>p. PICK t \in Changing : t = q BY <2>5
  <2>8. ChangeFits(t)'
    <3>1. \A p \in S!Parts : S!Position(p) > 0 BY OrderIs
    <3>2. \A p \in S!Parts : S!Position(p) < S!Position(q.at) => ~S!Changed(p, memory, q.new) BY <2>3, <2>5, <3>1
    <3>3. memory' = memory /\ settingsFile'.whole = TRUE /\ settingsFile'.is = q.new /\ q.new \in owed' BY <2>1, <2>2, <2>5
    <3> QED BY <2>p, <2>2, <2>5, <3>2, <3>3 DEF ChangeFits
  <2>9. \A s \in Changers : ChangeFits(change[s])'
    <3> TAKE s \in Changers
    <3>1. change'[s] = t BY <2>p, <2>6
    <3> QED BY <2>8, <3>1 DEF ChangeFits, Follows
  <2>10. Sources \subseteq Sources'
    <3>1. \A s \in Changers : change[s].at \notin Applying BY <1>2, <2>1, <2>6
    <3> QED BY <2>1, <3>1 DEF Sources
  <2>11. \A p \in S!Parts \ {"summarizer"} : \E s \in Sources' : built'[p] = S!Build(p, s)
    BY <2>1, <2>10 DEF SettingsInv, Follows
  <2>12. change'[r].at \in Applying BY <2>3, <2>5, <2>6
  <2>13. settingsFile'.is \in owed' BY <2>1, <2>2
  <2> QED BY <2>7, <2>9, <2>11, <2>12, <2>13 DEF SettingsInv, Follows
<1>8. ASSUME NEW r \in Changers, S!Rebuild(r) PROVE SettingsInv'
  <2> DEFINE part == change[r].at
             new == change[r].new
             b == [built EXCEPT ![part] = IF part = "summarizer" THEN S!NoEngine ELSE S!Build(part, new)]
             place == S!After(S!Position(part), memory, new)
             q == [change[r] EXCEPT !.at = place]
  <2>1. /\ part \in S!Parts /\ built' = b /\ UNCHANGED <<up, flags, settingsFile, memory, seed, owed, failed>> /\ S!Advance(r)
    BY <1>8 DEF S!Rebuild
  <2>2. /\ change[r] \in Changing /\ new \in Sets /\ change[r].old = memory /\ new \in owed /\ settingsFile.whole = TRUE
        /\ settingsFile.is = new
    BY <1>1, <1>2, <2>1 DEF ChangeFits
  <2>3. S!Position(part) \in 1 .. 6 BY <2>1, OrderIs
  <2>4. /\ place \in Applying /\ S!Position(place) > S!Position(part)
        /\ \A p \in S!Parts : S!Position(part) < S!Position(p) /\ S!Position(p) < S!Position(place) => ~S!Changed(p, memory, new)
    <3>1. PICK n \in 0 .. 6 : n = S!Position(part) BY <2>3
    <3> QED BY <3>1, AfterIs
  <2>5. change' = [change EXCEPT ![r] = q] BY <1>1, <2>1, <2>2 DEF S!Advance
  <2>6. b = [p \in S!Parts |-> b[p]] /\ \A p \in S!Parts : b[p] = IF p = part THEN (IF p = "summarizer" THEN S!NoEngine ELSE S!Build(p, new))
                                                                            ELSE built[p]
    <3>1. PICK c : c = [p \in S!Parts |-> built[p]] OBVIOUS
    <3>2. built = c BY <1>1, <3>1
    <3> QED BY <3>1, <3>2
  <2> HIDE DEF place
  <2>7. q \in Changing /\ q.at = place /\ q.old = memory /\ q.new = new BY <1>2, <2>2, <2>4 DEF Changing
  <2> HIDE DEF b, q
  <2>8. \A p \in S!Parts : b[p].part = p BY <1>1, <2>6, BuiltIs DEF S!NoEngine, S!Built
  <2>9. \A p \in S!Parts \ {"summarizer"} : b[p] = built[p] \/ (part \in Applying /\ b[p] = S!Build(p, new))
    BY <1>2, <2>1, <2>6
  <2>10. ASSUME NEW p \in S!Parts \ {"summarizer"}, S!Position(p) < S!Position(place), S!Changed(p, memory, new)
         PROVE  b[p] = S!Build(p, new)
    <3>1. CASE p = part BY <2>6, <3>1
    <3>2. CASE p # part
      <4>1. S!Position(p) # S!Position(part)
        <5>1. S!Order[S!Position(p)] = p /\ S!Order[S!Position(part)] = part BY <2>1, OrderIs DEF Applying
        <5> QED BY <3>2, <5>1
      <4>2. S!Position(p) \in 1 .. 6 BY OrderIs
      <4>3. S!Position(p) < S!Position(part) BY <2>3, <2>4, <2>10, <4>1, <4>2
      <4>4. part \in Applying BY <1>2, <2>1
      <4>5. Follows(p, new) BY <1>1, <2>10, <4>3, <4>4 DEF ChangeFits
      <4> QED BY <2>6, <3>2, <4>5 DEF Follows
    <3> QED BY <3>1, <3>2
  <2>11. part \in Applying /\ (q.at \in Applying /\ q.new = new) BY <1>2, <2>1, <2>4, <2>7
  <2>12. Rebuilt(change[r], built') BY <2>1, <2>6, <2>8, <2>9 DEF Rebuilt
  <2>13. Due(q, built') BY <2>1, <2>2, <2>7, <2>10 DEF Due
  <2>14. Onward(change[r], q) BY <2>1, <2>11 DEF Onward
  <2>15. seed' \in BOOLEAN /\ settingsFile.is \in owed' /\ q.new \in owed' BY <1>1, <2>1, <2>2, <2>7
  <2> QED BY <2>1, <2>5, <2>7, <2>12, <2>13, <2>14, <2>15, ChangeStep
<1>9. ASSUME NEW r \in Changers, S!RebuildFails(r) PROVE SettingsInv'
  <2> DEFINE part == change[r].at
             new == change[r].new
  <2>1. /\ part \in {"backend", "image", "roots"} /\ S!GiveUp(r) /\ UNCHANGED <<up, flags, settingsFile, memory, seed, owed>>
        /\ built' = built \/ (part = "roots" /\ built' = [built EXCEPT !["roots"] = S!Build("roots", new)])
    BY <1>9 DEF S!RebuildFails
  <2>2. part \in Applying BY <1>2, <2>1 DEF S!Parts
  <2>3. PICK b : b = built' OBVIOUS
  <2>4. b = [p \in S!Parts |-> b[p]] /\ \A p \in S!Parts : b[p] = built[p] \/ (p = "roots" /\ b[p] = S!Build(p, new))
    <3>1. PICK c : c = [p \in S!Parts |-> built[p]] OBVIOUS
    <3>2. built = c BY <1>1, <3>1
    <3> QED BY <2>1, <2>3, <3>1, <3>2 DEF S!Parts
  <2>5. \A p \in S!Parts : b[p].part = p BY <1>1, <2>4, BuiltIs
  <2>6. Rebuilt(change[r], built') BY <2>2, <2>3, <2>4, <2>5 DEF Rebuilt
  <2> QED BY <2>1, <2>6, GivenUp
<1>10. ASSUME NEW r \in Changers, S!Abandon(r) PROVE SettingsInv'
  <2>1. S!GiveUp(r) /\ UNCHANGED <<up, flags, settingsFile, memory, built, seed, owed>>
    BY <1>10 DEF S!Abandon
  <2>2. Rebuilt(change[r], built') BY <2>1, StillBuilt
  <2> QED BY <2>1, <2>2, GivenUp
<1>11. ASSUME NEW r \in Changers, S!Remember(r) PROVE SettingsInv'
  <2> DEFINE new == change[r].new
  <2>1. /\ change[r].at = "memory" /\ memory' = new /\ owed' = {new} /\ failed' = (IF failed \subseteq {new} THEN {} ELSE failed)
        /\ change' = [change EXCEPT ![r] = S!NoRequest] /\ UNCHANGED <<up, flags, settingsFile, built, seed>>
    BY <1>11 DEF S!Remember
  <2>2. new \in Sets /\ settingsFile.whole = TRUE /\ settingsFile.is = new
    BY <1>1, <1>2, <2>1 DEF ChangeFits
  <2>3. \A p \in S!Parts \ {"summarizer"} : S!Changed(p, memory, new) => Follows(p, new)
    <3>1. \A p \in S!Parts : S!Position(p) < S!Position("memory") BY OrderIs
    <3> QED BY <1>1, <1>2, <2>1, <3>1 DEF ChangeFits
  <2>4. change'[r] = S!NoRequest /\ (\A s \in Changers : s = r) /\ change' \in [Changers -> Changing]
    BY <1>1, <1>3, <2>1, OnlyChange
  <2>5. SettingTypes'
    BY <2>1, <2>2, <2>4 DEF SettingsInv, SettingTypes, Changing
  <2>6. \A s \in Changers : ChangeFits(change[s])'
    BY <1>2, <1>3, <2>4 DEF ChangeFits
  <2>7. \A x : x \in Sources' <=> x = new \/ x \in failed' BY <1>2, <1>3, <2>1, <2>4 DEF Sources
  <2>8. ASSUME NEW p \in S!Parts \ {"summarizer"} PROVE \E s \in Sources' : built'[p] = S!Build(p, s)
    <3>1. PICK x \in Sources : built[p] = S!Build(p, x) BY DEF SettingsInv, Follows
    <3>2. x = memory \/ x \in failed \/ x = new
      <4>1. \A s \in Changers : change[s].new = new BY <2>4
      <4> QED BY <4>1 DEF Sources
    <3>3. CASE x = memory
      <4>1. CASE S!Changed(p, memory, new) BY <2>1, <2>3, <2>7, <4>1 DEF Follows
      <4>2. CASE ~S!Changed(p, memory, new)
        <5>1. S!Build(p, memory) = S!Build(p, new) BY <1>1, <2>2, <4>2, Untouched
        <5> QED BY <2>1, <2>7, <3>1, <3>3, <5>1
      <4> QED BY <4>1, <4>2
    <3>4. CASE x \in failed \/ x = new
      <4>1. x \in Sources' BY <2>1, <2>7, <3>4
      <4> QED BY <2>1, <3>1, <4>1
    <3> QED BY <3>2, <3>3, <3>4
  <2>9. settingsFile'.is \in owed' /\ memory' = settingsFile'.is BY <2>1, <2>2
  <2> QED BY <2>5, <2>6, <2>8, <2>9 DEF SettingsInv, Follows
<1>12. ASSUME S!Boot PROVE SettingsInv'
  <2>1. /\ memory' = Found /\ failed' = {} /\ up' = TRUE /\ change' = [r \in Changers |-> S!NoRequest]
        /\ built' = [p \in S!Parts |-> IF p = "summarizer" THEN S!NoEngine ELSE S!Build(p, Found)]
        /\ UNCHANGED <<flags, settingsFile, seed, owed>>
    BY <1>12 DEF S!Boot, S!BootWith, Found
  <2>2. Found \in Sets BY FoundFits DEF SettingsInv
  <2>3. Found' = Found BY <2>1 DEF Found, S!Overridden
  <2>4. \A p \in S!Parts : built'[p] = IF p = "summarizer" THEN S!NoEngine ELSE S!Build(p, Found) BY <2>1
  <2>5. built' = [p \in S!Parts |-> built'[p]] /\ \A p \in S!Parts : built'[p].part = p
    BY <2>1, <2>4, BuiltIs DEF S!NoEngine, S!Built
  <2>6. SettingTypes' BY <1>3, <2>1, <2>2, <2>5 DEF SettingsInv, SettingTypes, Changing
  <2>7. \A r \in Changers : ChangeFits(change[r])' BY <1>2, <1>3, <2>1 DEF ChangeFits
  <2>8. Found \in Sources' BY <2>1 DEF Sources
  <2>9. \A p \in S!Parts \ {"summarizer"} : \E s \in Sources' : built'[p] = S!Build(p, s) BY <2>4, <2>8
  <2> QED BY <2>1, <2>3, <2>6, <2>7, <2>9 DEF SettingsInv, Follows
<1>13. ASSUME S!Crash PROVE SettingsInv'
  <2>1. up' = FALSE /\ UNCHANGED <<flags, settingsFile, memory, built, change, seed, owed, failed>> BY <1>13 DEF S!Crash
  <2>2. SettingTypes' BY <2>1 DEF SettingsInv, SettingTypes
  <2> QED BY <2>1, <2>2 DEF SettingsInv, ChangeFits, Follows, Sources, Found, S!Overridden
<1>14. ASSUME S!Summarize PROVE SettingsInv'
  <2>1. /\ built' = [built EXCEPT !["summarizer"] = S!Build("summarizer", memory)]
        /\ UNCHANGED <<up, flags, settingsFile, memory, change, seed, owed, failed>>
    BY <1>14 DEF S!Summarize
  <2>2. built' = [p \in S!Parts |-> built'[p]]
        /\ \A p \in S!Parts : built'[p] = IF p = "summarizer" THEN S!Build(p, memory) ELSE built[p]
    <3>1. PICK c : c = [p \in S!Parts |-> built[p]] OBVIOUS
    <3>2. built = c BY <1>1, <3>1
    <3> QED BY <2>1, <3>1, <3>2
  <2>3. SettingTypes' BY <1>1, <2>1, <2>2, BuiltIs DEF SettingsInv, SettingTypes
  <2>4. \A p \in S!Parts \ {"summarizer"} : built'[p] = built[p] BY <2>2
  <2> QED BY <2>1, <2>3, <2>4 DEF SettingsInv, ChangeFits, Follows, Sources, Found, S!Overridden
<1> QED BY <1>4, <1>5, <1>6, <1>7, <1>8, <1>9, <1>10, <1>11, <1>12, <1>13, <1>14 DEF S!Next, S!apply_settings

(* A Studio's first start ...                                                *)
LEMMA SettingsAtFirst ==
  ASSUME Compared, S!Init
  PROVE  SettingsInv
<1>1. settingsFile = S!NoFile \/ (settingsFile.whole = TRUE /\ settingsFile.is \in Sets)
  <2>1. ASSUME NEW set \in StartingFiles PROVE S!Saved(set).whole = TRUE /\ S!Saved(set).is \in Sets
    <3> DEFINE s == [f \in S!Fields |-> IF f \in DOMAIN set THEN set[f] ELSE S!Default(f)]
    <3>1. s = [f \in S!Fields |-> s[f]] /\ \A f \in S!Fields : s[f] = IF f \in DOMAIN set THEN set[f] ELSE S!Default(f)
      OBVIOUS
    <3>2. S!Saved(set).whole = TRUE /\ S!Saved(set).is = s BY DEF S!Saved
    <3> HIDE DEF s
    <3>3. Fits(set) /\ \A f \in Unlisted \cap DOMAIN set : set[f] = "default" BY StudioAssumption DEF Compared
    <3>4. (\A f \in S!Fields : s[f] \in S!Values(f)) /\ \A f \in Unlisted : s[f] = "default"
      BY <3>1, <3>3, ValuesAre, FieldsAre DEF Fits
    <3> QED BY <3>1, <3>2, <3>4, SetAll
  <2> QED BY <2>1 DEF S!Init
<1>2. /\ flags \in CommandLines /\ owed = {settingsFile.is} /\ failed = {} /\ memory = Found
      /\ built = [p \in S!Parts |-> IF p = "summarizer" THEN S!NoEngine ELSE S!Build(p, Found)]
      /\ change = [r \in Changers |-> S!NoRequest] /\ seed = FALSE
  BY DEF S!Init, Found
<1>3. up \in BOOLEAN
  BY DEF S!Init
<1>4. Found \in Sets
  <2> DEFINE s == IF settingsFile.whole THEN S!migrate(settingsFile.is) ELSE S!Defaults
  <2>1. s \in Sets BY <1>1, MigrateFits, DefaultsFit DEF S!NoFile
  <2> QED BY <1>2, <2>1, OverriddenFits DEF Found
<1>5. \A p \in S!Parts : built[p] = IF p = "summarizer" THEN S!NoEngine ELSE S!Build(p, Found)
  BY <1>2
<1>6. built = [p \in S!Parts |-> built[p]] /\ \A p \in S!Parts : built[p].part = p
  BY <1>2, <1>5, BuiltIs DEF S!NoEngine, S!Built
<1>7. S!NoRequest \in Changing /\ S!NoRequest.at = "idle" /\ "idle" \notin Writing /\ "idle" \notin Applying
  BY DEF S!NoRequest, Changing, S!Places, Writing, Applying, S!Parts
<1>8. SettingTypes
  BY <1>1, <1>2, <1>3, <1>4, <1>6, <1>7 DEF SettingTypes, Changing
<1>9. \A r \in Changers : ChangeFits(change[r])
  BY <1>2, <1>7 DEF ChangeFits
<1>10. memory \in Sources
  BY DEF Sources
<1> QED BY <1>2, <1>5, <1>8, <1>9, <1>10 DEF SettingsInv, Follows

(* ... and what is kept makes the settings safe.                             *)
LEMMA SettingsAreSafe == SettingsInv => S!SettingsSafe
<1> SUFFICES ASSUME SettingsInv PROVE S!SettingsSafe
  OBVIOUS
<1>1. S!TypeOK
  <2>1. settingsFile.whole \in BOOLEAN
    <3>1. S!NoFile.whole = FALSE BY DEF S!NoFile
    <3>2. settingsFile = S!NoFile \/ settingsFile.whole = TRUE BY DEF SettingsInv, SettingTypes
    <3> QED BY <3>1, <3>2
  <2>2. \A f \in S!Fields : memory[f] \in S!Values(f) BY DEF SettingsInv, SettingTypes, Sets
  <2> QED BY <2>1, <2>2 DEF SettingsInv, SettingTypes, S!TypeOK
<1>2. S!FileIsWhole
  BY DEF SettingsInv, SettingTypes, S!FileIsWhole
<1>3. S!PartsFollow
  <2> SUFFICES ASSUME S!AtRest
               PROVE  memory \in {settingsFile.is, Found} /\ \A p \in S!Parts \ {"summarizer"} : built[p] = S!Build(p, memory)
    BY DEF S!PartsFollow, Found
  <2>1. failed = {} /\ \A r \in Changers : change[r].at = "idle" BY DEF S!AtRest
  <2>2. "idle" \notin Applying BY DEF Applying, S!Parts
  <2>3. Sources = {memory} BY <2>1, <2>2 DEF Sources
  <2> QED BY <2>1, <2>2, <2>3 DEF SettingsInv, Follows
<1> QED BY <1>1, <1>2, <1>3 DEF S!SettingsSafe

-----------------------------------------------------------------------------
(* The Studio and its window. *)

\* A step of the Studio.
Anything == [Workspace \/ Setting \/ Engine \/ Store \/ Agent \/ Chat]_<<scene, vars, settingsVars, engineVars, storeVars, agentVars, chatVars>>

\* Its files are WorkspaceFiles'.
LEMMA ItsFiles == Behaviour => Spec
<1>1. Begin => Init
  BY DEF Begin
<1>2. Anything => [Next]_vars
  BY DEF Anything, Workspace, Setting, Engine, Store, Agent, Chat
<1> QED BY <1>1, <1>2, PTL DEF Behaviour, Spec, Anything

(* Of workspace.rs' write_atomic and remove: for any number of requests and *)
(* of deaths, a change is one step to a whole file, once for a request and  *)
(* before it is answered.                                                   *)
THEOREM FilesAreAtomic ==
  ASSUME Paths # {}
  PROVE  Behaviour => ChangesAreAtomic
<1>1. Init => FilesInv /\ Atomic!Init
  BY InitHolds, InitIsAtomic
<1>2. FilesInv /\ [Next]_vars => FilesInv' /\ [Atomic!Next]_Atomic!vars
  BY EveryStepKeeps
<1>3. QED
  BY <1>1, <1>2, ItsFiles, PTL DEF Spec, ChangesAreAtomic, Atomic!Spec

(* Of write, edit and remove: the types, and that a request which met       *)
(* nothing else replaces what it shows and keeps its mode.                  *)
THEOREM FilesAreSafe ==
  ASSUME Paths # {}
  PROVE  Behaviour => []FilesSafe
<1>1. Init => FilesInv
  BY InitHolds
<1>2. FilesInv /\ [Next]_vars => FilesInv'
  BY EveryStepKeeps
<1>3. FilesInv => TypeOK
  <2> SUFFICES ASSUME FilesInv PROVE TypeOK
    OBVIOUS
  <2>1. \A f \in Intact : IsFile(f)
    BY DEF Intact, IsFile, Authors
  <2>2. \A p \in Paths : file[p] = Absent \/ IsFile(file[p])
    BY <2>1 DEF FilesInv, Shape, Held
  <2>3. \A r \in Requests : temp[r] \in Temps /\ request[r] \in Asks
    BY DEF FilesInv, Shape
  <2>4. QED
    BY <2>2, <2>3 DEF FilesInv, Shape, TypeOK, Temps, Asks
<1>4. FilesInv => ReplacesWhatItShows
  BY DEF FilesInv, Placed, Looked, ReplacesWhatItShows
<1>5. FilesInv => ModesStay
  <2> SUFFICES ASSUME FilesInv, NEW r \in Requests, request[r].took, request[r].replaced # Absent, r \notin meddled, Now(r) # Absent,
                      Now(r).by[Len(Now(r).by)] = r
               PROVE  Now(r).mode = request[r].replaced.mode
    BY DEF ModesStay
  <2>1. request[r].path \in Paths
    BY DEF FilesInv, Shape, Asks
  <2>2. Left(r, request[r], request[r].path, Now(r))
    BY <2>1 DEF FilesInv, Now
  <2>3. QED
    BY <2>2 DEF Left, Last
<1>6. QED
  BY <1>1, <1>2, <1>3, <1>4, <1>5, ItsFiles, PTL DEF Spec, FilesSafe

(* Of EngineInstaller alone: whatever failed or died on the way, what is    *)
(* listed as installed and what the setting points at works, and Done is    *)
(* said of an engine that does.                                             *)
THEOREM InstallerIsSafe ==
  ASSUME None \notin I!Builds
  PROVE  I!Spec => []I!InstallerSafe
<1>1. I!Init => EnginesInv
  BY EnginesAtFirst
<1>2. EnginesInv /\ [I!Next]_(I!vars) => EnginesInv'
  BY EnginesStay DEF I!vars, engineVars
<1>3. QED
  BY <1>1, <1>2, EnginesAreSafe, PTL DEF I!Spec

(* Of EngineInstaller in engines.rs and ModelStore in store.rs: what is      *)
(* installed and set works, whatever failed on the way, and a digest is that *)
(* of the file it is told of, whoever else changes the directories:          *)
(* LibrarySafe.                                                              *)
THEOREM LibraryIsSafe == Behaviour => []LibrarySafe
<1> USE StudioAssumption
<1>1. None \notin I!Builds
  BY DEF I!Builds
<1>2. Begin => EnginesInv /\ StoreInv
  BY <1>1, EnginesAtFirst, StoreAtFirst DEF Begin
<1>3. EnginesInv /\ Anything => EnginesInv'
  <2>1. Anything => [I!Next]_engineVars
    BY DEF Anything, Workspace, Setting, Engine, Store, Agent, Chat
  <2> QED BY <1>1, <2>1, EnginesStay
<1>4. StoreInv /\ Anything => StoreInv'
  <2>1. Anything => M!Next \/ UNCHANGED storeVars
    BY DEF Anything, Workspace, Setting, Engine, Store, Agent, Chat
  <2>2. StoreInv /\ UNCHANGED storeVars => StoreInv'
    BY DEF storeVars, StoreInv, StoreTypes, M!BelievedIsTrue, M!Believed, Good, Seen, Past, AskFits
  <2> QED BY <2>1, <2>2, StoreStays
<1>5. EnginesInv /\ StoreInv => LibrarySafe
  BY EnginesAreSafe, StoreIsSafe DEF LibrarySafe
<1> QED BY <1>2, <1>3, <1>4, <1>5, PTL DEF Behaviour, Anything

(* Of AppState::boot, apply_settings and Settings::save, for one change at a *)
(* time of what apply_settings compares: the settings file is whole, and     *)
(* whenever nothing is under way and nothing is left half done, what is in   *)
(* memory is what is on the disk and every part was built from it:           *)
(* SettingsSafe.                                                             *)
THEOREM SettingsAreSafeThere ==
  ASSUME Compared
  PROVE  Behaviour => []SettingsSafe
<1>1. Begin => SettingsInv
  BY SettingsAtFirst DEF Begin
<1>2. SettingsInv /\ Anything => SettingsInv'
  <2>1. Anything => S!Next \/ UNCHANGED settingsVars
    BY DEF Anything, Workspace, Setting, Engine, Store, Agent, Chat
  <2>2. SettingsInv /\ UNCHANGED settingsVars => SettingsInv'
    <3> SUFFICES ASSUME SettingsInv, UNCHANGED settingsVars PROVE SettingsInv'
      OBVIOUS
    <3>1. UNCHANGED <<up, flags, settingsFile, memory, built, change, seed, owed, failed>>
      BY DEF settingsVars
    <3>2. SettingTypes'
      BY <3>1 DEF SettingsInv, SettingTypes
    <3>3. \A r \in Changers : ChangeFits(change[r])'
      BY <3>1 DEF SettingsInv, ChangeFits, Follows
    <3>4. UNCHANGED <<Sources, Found>>
      BY <3>1 DEF Sources, Found, S!Overridden
    <3> QED BY <3>1, <3>2, <3>3, <3>4 DEF SettingsInv, Follows
  <2> QED BY <2>1, <2>2, SettingsStay
<1>3. SettingsInv => SettingsSafe
  BY SettingsAreSafe DEF SettingsSafe
<1> QED BY <1>1, <1>2, <1>3, PTL DEF Behaviour, Anything
=============================================================================
