--------------------------- MODULE DownloadsProofs ---------------------------
(***************************************************************************)
(* What TLAPS proves of Downloads.                                         *)
(*   for any number of downloads at once: the types, and that every job    *)
(*     shown as running has its task;                                      *)
(*   one download at a time: every task has its running job and its flag;  *)
(*   ... of files with a digest: the destination is a whole file or none,  *)
(*     and of models, what the sidecar says of it is true;                 *)
(*   ... with no write left over by a failure: bytes received are kept.    *)
(***************************************************************************)
EXTENDS Downloads, FiniteSetTheorems, TLAPS

(* The conditions: one slot, and every digest published.                    *)
Alone == /\ \A s, t \in Slots : s = t
         /\ Digested = Ids

(* The types the argument needs. *)
Shape ==
  /\ file \in [Names -> Seq(Chunk) \cup {NoFile}]
  /\ at \in [Slots -> {"idle"} \cup Entry \cup Task]
  /\ frame \in [Slots -> Frame]
  /\ late \subseteq Write

(* A slot has an open file only while it streams, never the destination.    *)
Handles ==
  \A s \in Slots :
    /\ frame[s].to \in {"part", "gone"}
    /\ at[s] # "stream" => frame[s].fly = 0
    /\ at[s] = "stream" => file["part"] \in Seq(Chunk)
    /\ at[s] \in {"hash", "rename"} => frame[s].to = "gone"

(* A write left over goes to the .part file that is there, if to any, and   *)
(* none is left when the file is read back.                                 *)
Leftover ==
  /\ \A w \in late : /\ w.to \in {"part", "gone"}
                     /\ w.to = "part" => file["part"] \in Seq(Chunk)
  /\ \A s \in Slots : at[s] \in {"hash", "rename"} => late = {}

(* What is about to be renamed has the digest asked for.                    *)
Verified ==
  \A s \in Slots :
    /\ at[s] # "idle" => frame[s].id \in Ids /\ frame[s].want \in Contents
    /\ at[s] = "rename" => file["part"] = Whole(frame[s].want)

DownloadInv == Shape /\ Handles /\ Leftover /\ Verified /\ DestIsWhole

(* At the start there is nothing. *)
LEMMA NothingAtFirst == Init => DownloadInv
BY DEF Init, DownloadInv, Shape, Handles, Leftover, Verified, DestIsWhole, NoFrame, NoFrames,
       AllIdle, Frame, Names

(* Putting a chunk into a file gives a file. *)
LEMMA PutType ==
  ASSUME NEW f \in Seq(Chunk), NEW pos \in Nat, NEW chunk \in Chunk
  PROVE  Put(f, pos, chunk) \in Seq(Chunk)
<1>1. CASE pos = 0
  BY <1>1 DEF Put
<1>2. CASE pos # 0
  <2> DEFINE n == IF pos > Len(f) THEN pos ELSE Len(f)
  <2>1. n \in Nat
    OBVIOUS
  <2>2. Hole \in Chunk
    BY DEF Hole, Chunk
  <2>3. \A i \in 1..n : (IF i = pos THEN chunk ELSE IF i <= Len(f) THEN f[i] ELSE Hole) \in Chunk
    <3> TAKE i \in 1..n
    <3>1. i <= Len(f) => f[i] \in Chunk
      OBVIOUS
    <3>2. QED
      BY <2>2, <3>1
  <2>4. Put(f, pos, chunk)
          = [i \in 1..n |-> IF i = pos THEN chunk ELSE IF i <= Len(f) THEN f[i] ELSE Hole]
    BY <1>2 DEF Put
  <2> HIDE DEF n
  <2>5. [i \in 1..n |-> IF i = pos THEN chunk ELSE IF i <= Len(f) THEN f[i] ELSE Hole]
          \in [1..n -> Chunk]
    BY <2>3
  <2>6. QED
    BY <2>1, <2>4, <2>5
<1>3. QED
  BY <1>1, <1>2

(* A removal leaves the other file, the slots' requests and their places. *)
LEMMA UnlinkLemma ==
  ASSUME Shape, Handles, Leftover, NEW n \in Names, Unlink(n)
  PROVE  /\ late' \subseteq Write
         /\ \A w \in late' : /\ w.to \in {"part", "gone"}
                             /\ w.to = "part" => file'["part"] \in Seq(Chunk)
         /\ late = {} => late' = {}
         /\ file' = [file EXCEPT ![n] = NoFile]
         /\ file' \in [Names -> Seq(Chunk) \cup {NoFile}]
         /\ frame' \in [Slots -> Frame]
         /\ \A s \in Slots :
              /\ frame'[s].id = frame[s].id /\ frame'[s].want = frame[s].want
              /\ frame'[s].fly = frame[s].fly
              /\ frame'[s].to \in {"part", "gone"}
              /\ frame[s].to = "gone" => frame'[s].to = "gone"
<1>2. /\ file' = [file EXCEPT ![n] = NoFile]
      /\ file' \in [Names -> Seq(Chunk) \cup {NoFile}]
  BY DEF Unlink, Shape
<1> DEFINE moves == [w \in Names \cup {"gone"} |-> IF w = n THEN "gone" ELSE w]
<1>3. frame' = [s \in Slots |-> [frame[s] EXCEPT !.to = moves[@]]]
  BY DEF Unlink, Follow
<1>4. \A s \in Slots : moves[frame[s].to] = IF frame[s].to = n THEN "gone" ELSE frame[s].to
  BY DEF Handles, Names
<1>1. late' = {[w EXCEPT !.to = moves[@]] : w \in late}
  BY DEF Unlink, Follow
<1>8. \A w \in late : moves[w.to] = IF w.to = n THEN "gone" ELSE w.to
  BY DEF Leftover, Names
<1> HIDE DEF moves
<1>9. ASSUME NEW w \in late
      PROVE  /\ [w EXCEPT !.to = moves[w.to]] \in Write
             /\ [w EXCEPT !.to = moves[w.to]].to = IF w.to = n THEN "gone" ELSE w.to
  <2>1. w \in Write
    BY DEF Shape
  <2>2. moves[w.to] \in Names \cup {"gone"}
    BY <1>8, <2>1 DEF Write
  <2>3. QED
    BY <1>8, <2>1, <2>2 DEF Write
<1>10. /\ late' \subseteq Write
       /\ \A w \in late' : /\ w.to \in {"part", "gone"}
                           /\ w.to = "part" => file'["part"] \in Seq(Chunk)
       /\ late = {} => late' = {}
  <2>1. SUFFICES ASSUME NEW w \in late'
                 PROVE  /\ w \in Write /\ w.to \in {"part", "gone"}
                        /\ w.to = "part" => file'["part"] \in Seq(Chunk)
    BY <1>1
  <2>2. PICK v \in late : w = [v EXCEPT !.to = moves[v.to]]
    BY <1>1
  <2>3. w \in Write /\ w.to = IF v.to = n THEN "gone" ELSE v.to
    BY <1>9, <2>2
  <2>4. QED
    BY <1>2, <2>3 DEF Leftover, Shape, Names
<1>5. ASSUME NEW s \in Slots
      PROVE  /\ frame'[s] \in Frame
             /\ frame'[s].id = frame[s].id /\ frame'[s].want = frame[s].want
             /\ frame'[s].fly = frame[s].fly
             /\ frame'[s].to = IF frame[s].to = n THEN "gone" ELSE frame[s].to
  <2>1. frame[s] \in Frame
    BY DEF Shape
  <2>2. frame'[s] = [frame[s] EXCEPT !.to = moves[frame[s].to]]
    BY <1>3
  <2>3. moves[frame[s].to] \in Names \cup {"gone"}
    BY <1>4, <2>1 DEF Frame
  <2>4. QED
    BY <1>4, <2>1, <2>2, <2>3 DEF Frame
<1>6. frame' \in [Slots -> Frame]
  BY <1>3, <1>5
<1>7. QED
  BY <1>10, <1>2, <1>5, <1>6 DEF Handles

(* The steps that leave the files alone: they move one slot. *)
LEMMA SlotStep ==
  ASSUME Alone, DownloadInv, NEW s \in Slots,
         Ask(s) \/ Exists(s) \/ Check(s) \/ Reuse(s) \/ Keep(s) \/ Insert(s) \/ Hangup(s)
           \/ Measure(s) \/ Answer(s) \/ Refused(s) \/ Receive(s) \/ Stop(s) \/ Cut(s)
           \/ End(s) \/ Hash(s) \/ WriteSidecar(s) \/ Settle(s)
  PROVE  DownloadInv'
<1> USE DEF Shape, Handles, Leftover, Verified, Frame, Entry, Task, Transfer, Outcome, Names
<1>0. \A t \in Slots : t = s
  BY DEF Alone
<1>1. Shape /\ Handles /\ Leftover /\ Verified /\ DestIsWhole
  BY DEF DownloadInv
<1>2. file' = file
  BY DEF Ask, Request, Exists, Check, Reuse, Keep, Insert, Hangup, Measure, Answer, Partial,
         AllOfIt, NothingLeft, Refused, Receive, Stop, Cut, End, Hash, WriteSidecar, Settle
<1>3. DestIsWhole'
  BY <1>1, <1>2 DEF DestIsWhole
<1>4. SUFFICES Shape' /\ Handles' /\ Leftover' /\ Verified'
  BY <1>3 DEF DownloadInv
<1>5. CASE Ask(s)
  <2>1. PICK o \in Offers : Request(s, o[1], o[2])
    BY <1>5 DEF Ask
  <2>2. o[1] \in Ids /\ o[2] \in Contents
    BY DownloadsAssumption
  <2>3. QED
    BY <1>0, <1>1, <1>2, <2>1, <2>2 DEF Request, NoFrame, Goto
<1>6. CASE Exists(s)
  BY <1>6, <1>0, <1>1, <1>2 DEF Exists, Goto, Return, NoFrame
<1>7. CASE Check(s)
  BY <1>7, <1>0, <1>1, <1>2 DEF Check, Goto, Return, NoFrame
<1>8. CASE Reuse(s)
  BY <1>8, <1>0, <1>1, <1>2 DEF Reuse, Goto
<1>9. CASE Keep(s)
  BY <1>9, <1>0, <1>1, <1>2 DEF Keep, Goto, NoFrame
<1>10. CASE Insert(s)
  BY <1>10, <1>0, <1>1, <1>2 DEF Insert, Goto
<1>11. CASE Hangup(s)
  BY <1>11, <1>0, <1>1, <1>2 DEF Hangup, Return, Goto, NoFrame
<1>12. CASE Measure(s)
  BY <1>12, <1>0, <1>1, <1>2 DEF Measure, Goto
<1>13. CASE Partial(s)
  BY <1>13, <1>0, <1>1, <1>2 DEF Partial, Goto
<1>14. CASE AllOfIt(s)
  <2> DEFINE g == [[frame[s] EXCEPT !.from = 0] EXCEPT !.next = 1]
  <2>1. frame' = [frame EXCEPT ![s] = g]
    BY <1>14, <1>1 DEF AllOfIt
  <2>2. frame[s] \in Frame
    BY <1>1
  <2>3. [frame[s] EXCEPT !.from = 0] \in Frame
    BY <2>2
  <2>4. /\ g \in Frame /\ g.id = frame[s].id /\ g.want = frame[s].want
        /\ g.to = frame[s].to /\ g.fly = frame[s].fly
    BY <2>2, <2>3
  <2> HIDE DEF g
  <2>5. at[s] = "send" /\ at' = [at EXCEPT ![s] = "open"] /\ late' = late
    BY <1>14 DEF AllOfIt, Goto
  <2>6. QED
    BY <1>0, <1>1, <1>2, <2>1, <2>4, <2>5
<1>15. CASE NothingLeft(s)
  BY <1>15, <1>0, <1>1, <1>2 DEF NothingLeft, Goto
<1>16. CASE Refused(s)
  BY <1>16, <1>0, <1>1, <1>2 DEF Refused, Goto
<1>17. CASE Receive(s)
  <2> DEFINE g == [[frame[s] EXCEPT !.next = frame[s].next + 1] EXCEPT !.fly = frame[s].next]
  <2>1. frame' = [frame EXCEPT ![s] = g]
    BY <1>17, <1>1 DEF Receive
  <2>2. frame[s] \in Frame
    BY <1>1
  <2>3. [frame[s] EXCEPT !.next = frame[s].next + 1] \in Frame
    BY <2>2
  <2>4. /\ g \in Frame /\ g.id = frame[s].id /\ g.want = frame[s].want
        /\ g.to = frame[s].to
    BY <2>2, <2>3
  <2> HIDE DEF g
  <2>5. at[s] = "stream" /\ at' = at /\ late' = late
    BY <1>17 DEF Receive, More
  <2>6. QED
    BY <1>0, <1>1, <1>2, <2>1, <2>4, <2>5
<1>18. CASE Stop(s)
  BY <1>18, <1>0, <1>1, <1>2 DEF Stop, More, Goto
<1>19. CASE Cut(s)
  <2> DEFINE w == [to |-> frame[s].to, pos |-> Position(s), chunk |-> Flying(s)]
  <2>1. /\ at[s] = "stream" /\ at' = [at EXCEPT ![s] = "failed"]
        /\ late' = late \cup {v \in {w} : frame[s].fly # 0}
        /\ frame' = [frame EXCEPT ![s] = [frame[s] EXCEPT !.fly = 0]]
    BY <1>19, <1>1 DEF Cut, More, Goto
  <2>2. frame[s] \in Frame
    BY <1>1
  <2>3. w \in Write /\ w.to = frame[s].to
    BY <1>1, <2>2 DEF Write, Position, Flying, Chunk
  <2>4. /\ [frame[s] EXCEPT !.fly = 0] \in Frame
        /\ [frame[s] EXCEPT !.fly = 0].fly = 0
        /\ [frame[s] EXCEPT !.fly = 0].to = frame[s].to
        /\ [frame[s] EXCEPT !.fly = 0].id = frame[s].id
        /\ [frame[s] EXCEPT !.fly = 0].want = frame[s].want
    BY <2>2
  <2> HIDE DEF w
  <2>5. late' \subseteq Write /\ \A v \in late' : v \in late \/ v = w
    BY <1>1, <2>1, <2>3
  <2>6. Shape'
    BY <1>1, <1>2, <2>1, <2>4, <2>5
  <2>7. Handles' /\ Verified'
    BY <1>0, <1>1, <1>2, <2>1, <2>4
  <2>8. Leftover'
    BY <1>0, <1>1, <1>2, <2>1, <2>3, <2>5
  <2>9. QED
    BY <2>6, <2>7, <2>8
<1>20. CASE End(s)
  BY <1>20, <1>0, <1>1, <1>2 DEF End, Goto, Update, Alone
<1>21. CASE Hash(s)
  BY <1>21, <1>0, <1>1, <1>2 DEF Hash, Goto
<1>22. CASE WriteSidecar(s)
  BY <1>22, <1>0, <1>1, <1>2 DEF WriteSidecar, Goto
<1>23. CASE Settle(s)
  BY <1>23, <1>0, <1>1, <1>2 DEF Settle, Return, Goto, NoFrame
<1>24. QED
  BY <1>5, <1>6, <1>7, <1>8, <1>9, <1>10, <1>11, <1>12, <1>13, <1>14, <1>15, <1>16, <1>17,
     <1>18, <1>19, <1>20, <1>21, <1>22, <1>23
  DEF Answer

(* The steps of the one slot that change a file. *)
LEMMA FileStep ==
  ASSUME Alone, DownloadInv, NEW s \in Slots,
         Remove(s) \/ Drop(s) \/ Open(s) \/ Land(s) \/ Discard(s) \/ Rename(s)
  PROVE  DownloadInv'
<1> USE DEF Names, Entry, Task, Transfer, Outcome
<1>0. \A t \in Slots : t = s
  BY DEF Alone
<1>1. Shape /\ Handles /\ Leftover /\ Verified /\ DestIsWhole
  BY DEF DownloadInv
<1>2. CASE Remove(s)
  <2>1. CASE file["dest"] = NoFile
    <3>1. NoFrame \in Frame /\ NoFrame.to = "gone" /\ NoFrame.fly = 0
      BY DEF NoFrame, Frame
    <3>2. /\ at' = [at EXCEPT ![s] = "idle"] /\ frame' = [frame EXCEPT ![s] = NoFrame]
          /\ file' = file /\ late' = late
      BY <1>2, <2>1 DEF Remove, Return, Goto
    <3>3. QED
      BY <1>0, <1>1, <3>1, <3>2 DEF DownloadInv, Shape, Handles, Leftover, Verified, DestIsWhole
  <2>2. CASE file["dest"] # NoFile
    <3>1. Unlink("dest") /\ at[s] = "remove" /\ at' = [at EXCEPT ![s] = "check"]
      BY <1>2, <2>2 DEF Remove, Goto
    <3>2. QED
      BY <1>0, <1>1, <3>1, UnlinkLemma
      DEF DownloadInv, Shape, Handles, Leftover, Verified, DestIsWhole, Names
  <2>3. QED
    BY <2>1, <2>2
<1>3. CASE Drop(s)
  <2>1. Unlink("dest") /\ at[s] = "drop" /\ at' = [at EXCEPT ![s] = "insert"]
    BY <1>3 DEF Drop, Goto
  <2>2. QED
    BY <1>0, <1>1, <2>1, UnlinkLemma DEF DownloadInv, Shape, Handles, Leftover, Verified, DestIsWhole, Names
<1>4. CASE Discard(s)
  <2>1. Unlink("part") /\ at[s] = "discard" /\ at' = [at EXCEPT ![s] = "failed"]
    BY <1>4 DEF Discard, Goto
  <2>2. QED
    BY <1>0, <1>1, <2>1, UnlinkLemma DEF DownloadInv, Shape, Handles, Leftover, Verified, DestIsWhole, Names
<1>5. CASE Open(s)
  <2>1. /\ at[s] = "open" /\ at' = [at EXCEPT ![s] = "stream"] /\ late' = late
        /\ frame' = [frame EXCEPT ![s] = [frame[s] EXCEPT !.to = "part"]]
    BY <1>5 DEF Open, Goto
  <2>2. frame[s] \in Frame
    BY <1>1 DEF Shape
  <2>3. /\ [frame[s] EXCEPT !.to = "part"] \in Frame
        /\ [frame[s] EXCEPT !.to = "part"].to = "part"
        /\ [frame[s] EXCEPT !.to = "part"].id = frame[s].id
        /\ [frame[s] EXCEPT !.to = "part"].want = frame[s].want
    BY <2>2 DEF Frame
  <2>4. /\ file' \in [Names -> Seq(Chunk) \cup {NoFile}]
        /\ file'["part"] \in Seq(Chunk) /\ file'["dest"] = file["dest"]
    BY <1>1, <1>5 DEF Open, Shape
  <2>5. QED
    BY <1>0, <1>1, <2>1, <2>3, <2>4 DEF DownloadInv, Shape, Handles, Leftover, Verified, DestIsWhole
<1>6. CASE Land(s)
  <2>1. at[s] = "stream" /\ at' = at
    BY <1>1, <1>6 DEF Land, Handles
  <2>2. /\ file' \in [Names -> Seq(Chunk) \cup {NoFile}]
        /\ file'["part"] \in Seq(Chunk) /\ file'["dest"] = file["dest"]
    <3>1. CASE frame[s].to = "gone"
      BY <1>1, <1>6, <2>1, <3>1 DEF Land, Landed, Shape, Handles
    <3>2. CASE frame[s].to = "part"
      <4>1. file' = [file EXCEPT !["part"] = Put(file["part"], Position(s), Flying(s))]
        BY <1>6, <3>2 DEF Land, Landed
      <4>2. file["part"] \in Seq(Chunk)
        BY <1>1, <2>1, <3>2 DEF Handles, Shape, Names
      <4>3. Position(s) \in Nat /\ Flying(s) \in Chunk
        BY <1>1 DEF Shape, Frame, Position, Flying, Chunk
      <4>4. QED
        BY <1>1, <4>1, <4>2, <4>3, PutType DEF Shape, Names
    <3>3. QED
      BY <1>1, <3>1, <3>2 DEF Handles
  <2>3. frame[s] \in Frame /\ late' = late
        /\ frame' = [frame EXCEPT ![s] = [frame[s] EXCEPT !.fly = 0]]
    BY <1>1, <1>6 DEF Land, Shape
  <2>4. /\ [frame[s] EXCEPT !.fly = 0] \in Frame
        /\ [frame[s] EXCEPT !.fly = 0].to = frame[s].to
        /\ [frame[s] EXCEPT !.fly = 0].id = frame[s].id
        /\ [frame[s] EXCEPT !.fly = 0].want = frame[s].want
    BY <2>3 DEF Frame
  <2>5. QED
    BY <1>0, <1>1, <2>1, <2>2, <2>3, <2>4
    DEF DownloadInv, Shape, Handles, Leftover, Verified, DestIsWhole
<1>7. CASE Rename(s)
  <2>0. at[s] = "rename" /\ at' = [at EXCEPT ![s] = at'[s]] /\ at'[s] \in {"failed", "completed", "sidecar"}
    BY <1>1, <1>7 DEF Rename, Goto, Shape
  <2>1. CASE file["part"] = NoFile
    BY <1>0, <1>1, <1>7, <2>0, <2>1
    DEF Rename, DownloadInv, Shape, Handles, Leftover, Verified, DestIsWhole
  <2>2. CASE file["part"] # NoFile
    <3>1. /\ file' = [part |-> NoFile, dest |-> file["part"]]
          /\ Follow([w \in Names \cup {"gone"} |-> IF w = "part" THEN "dest" ELSE "gone"])
      BY <1>7, <2>2 DEF Rename
    <3>2. frame[s].to = "gone" /\ frame[s].want \in Contents /\ file["part"] = Whole(frame[s].want)
      BY <1>1, <2>0 DEF Handles, Leftover, Verified
    <3>3. DestIsWhole' /\ file' \in [Names -> Seq(Chunk) \cup {NoFile}]
      BY <1>1, <3>1, <3>2 DEF DestIsWhole, Shape
    <3>4. late' = {}
      BY <1>1, <2>0, <3>1 DEF Follow, Leftover
    <3>5. frame' = [t \in Slots |-> [frame[t] EXCEPT !.to = "gone"]]
      BY <1>0, <3>1, <3>2 DEF Follow, Names
    <3>6. \A t \in Slots : frame'[t] = frame[t]
      <4>1. frame[s] \in Frame
        BY <1>1 DEF Shape
      <4>2. [frame[s] EXCEPT !.to = "gone"] = frame[s]
        BY <3>2, <4>1 DEF Frame
      <4>3. QED
        BY <1>0, <3>5, <4>2
    <3>7. frame' = frame
      BY <1>1, <3>5, <3>6 DEF Shape
    <3>8. QED
      BY <1>0, <1>1, <2>0, <3>3, <3>4, <3>7 DEF DownloadInv, Shape, Handles, Leftover, Verified
  <2>3. QED
    BY <2>1, <2>2
<1>8. QED
  BY <1>2, <1>3, <1>4, <1>5, <1>6, <1>7

(* The handlers beside the download, and the crash. *)
LEMMA OtherStep ==
  ASSUME Alone, DownloadInv,
         \/ \E w \in late : LandLate(w)
         \/ \E id \in Ids : Cancel(id) \/ Forget(id)
         \/ CancelAll \/ Delete \/ Crash
         \/ \E w \in Waiters : Waiting(w) \/ \E id \in Ids : Wait(w, id)
         \/ \E h \in Hashers : Hashing(h)
  PROVE  DownloadInv'
<1>1. Shape /\ Handles /\ Leftover /\ Verified /\ DestIsWhole
  BY DEF DownloadInv
<1>2. CASE \E w \in late : LandLate(w)
  <2>1. PICK w \in late : LandLate(w)
    BY <1>2
  <2>2. w \in Write /\ late' \subseteq late /\ at' = at /\ frame' = frame
        /\ file' = Landed(w.to, w.pos, w.chunk)
    BY <1>1, <2>1 DEF LandLate, Shape
  <2>3. /\ file' \in [Names -> Seq(Chunk) \cup {NoFile}]
        /\ file["part"] \in Seq(Chunk) => file'["part"] \in Seq(Chunk)
        /\ file'["dest"] = file["dest"]
    <3>1. CASE w.to = "gone"
      BY <1>1, <2>2, <3>1 DEF Landed, Shape
    <3>2. CASE w.to = "part"
      <4>1. file' = [file EXCEPT !["part"] = Put(file["part"], w.pos, w.chunk)]
        BY <2>2, <3>2 DEF Landed
      <4>2. file["part"] \in Seq(Chunk)
        BY <1>1, <3>2 DEF Leftover
      <4>3. w.pos \in Nat /\ w.chunk \in Chunk
        BY <2>2 DEF Write
      <4>4. QED
        BY <1>1, <4>1, <4>2, <4>3, PutType DEF Shape, Names
    <3>3. QED
      BY <1>1, <3>1, <3>2 DEF Leftover
  <2>4. \A s \in Slots : at[s] \notin {"hash", "rename"}
    BY <1>1 DEF Leftover
  <2>5. Shape' /\ DestIsWhole'
    BY <1>1, <2>2, <2>3 DEF Shape, DestIsWhole
  <2>6. Handles' /\ Leftover' /\ Verified'
    BY <1>1, <2>2, <2>3, <2>4 DEF Handles, Leftover, Verified
  <2>7. QED
    BY <2>5, <2>6 DEF DownloadInv
<1>3. CASE Delete
  <2>1. Unlink("dest") /\ at' = at
    BY <1>3 DEF Delete
  <2>2. QED
    BY <1>1, <2>1, UnlinkLemma DEF DownloadInv, Shape, Handles, Leftover, Verified, DestIsWhole, Names
<1>4. CASE Crash
  BY <1>1, <1>4
  DEF Crash, DownloadInv, Shape, Handles, Leftover, Verified, DestIsWhole, NoFrame, NoFrames, AllIdle,
      Frame, Names
<1>5. ASSUME UNCHANGED <<file, late, at, frame>>
      PROVE  DownloadInv'
  BY <1>1, <1>5 DEF DownloadInv, Shape, Handles, Leftover, Verified, DestIsWhole
<1>6. CASE \E id \in Ids : Cancel(id) \/ Forget(id)
  BY <1>5, <1>6 DEF Cancel, Forget
<1>7. CASE CancelAll
  BY <1>5, <1>7 DEF CancelAll
<1>8. CASE \E w \in Waiters : Waiting(w) \/ \E id \in Ids : Wait(w, id)
  BY <1>5, <1>8 DEF Waiting, WaitLook, WaitHear, Wait
<1>9. CASE \E h \in Hashers : Hashing(h)
  BY <1>5, <1>9 DEF Hashing, HashBegin, HashRead, HashSave
<1>10. QED
  BY <1>2, <1>3, <1>4, <1>6, <1>7, <1>8, <1>9

(* The invariant is inductive when one download runs at a time. *)
THEOREM DownloadInductive ==
  ASSUME Alone
  PROVE  DownloadInv /\ [Next]_vars => DownloadInv'
<1> SUFFICES ASSUME DownloadInv, [Next]_vars
             PROVE  DownloadInv'
  OBVIOUS
<1>1. CASE \E s \in Slots : Ask(s) \/ Handler(s) \/ Transferring(s) \/ Accident(s)
  <2>1. PICK s \in Slots : Ask(s) \/ Handler(s) \/ Transferring(s) \/ Accident(s)
    BY <1>1
  <2>2. \/ Ask(s) \/ Exists(s) \/ Check(s) \/ Reuse(s) \/ Keep(s) \/ Insert(s) \/ Hangup(s)
           \/ Measure(s) \/ Answer(s) \/ Refused(s) \/ Receive(s) \/ Stop(s) \/ Cut(s)
           \/ End(s) \/ Hash(s) \/ WriteSidecar(s) \/ Settle(s)
        \/ Remove(s) \/ Drop(s) \/ Open(s) \/ Land(s) \/ Discard(s) \/ Rename(s)
    BY <2>1 DEF Handler, Transferring, Accident
  <2>3. QED
    BY <2>2, SlotStep, FileStep
<1>2. CASE \/ \E w \in late : LandLate(w)
           \/ \E id \in Ids : Cancel(id) \/ Forget(id)
           \/ CancelAll \/ Delete \/ Crash
           \/ \E w \in Waiters : Waiting(w) \/ \E id \in Ids : Wait(w, id)
           \/ \E h \in Hashers : Hashing(h)
  BY <1>2, OtherStep
<1>3. CASE UNCHANGED vars
  BY <1>3 DEF vars, DownloadInv, Shape, Handles, Leftover, Verified, DestIsWhole
<1>4. QED
  BY <1>1, <1>2, <1>3 DEF Next

(* One download at a time, with a published digest, never leaves anything but *)
(* a whole file at the destination (DownloadManager::run).                    *)
THEOREM WholeWhenAlone ==
  ASSUME Alone
  PROVE  Spec => []DestIsWhole
<1>1. DownloadInv => DestIsWhole
  BY DEF DownloadInv
<1>2. QED
  BY NothingAtFirst, DownloadInductive, <1>1, PTL DEF Spec

-----------------------------------------------------------------------------
(* Types, for any number of downloads at once. *)

Places == {"idle"} \cup Entry \cup Task

(* Every open file, and every write left over, is of a file that is there.   *)
FilesOK ==
  /\ file \in [Names -> Seq(Chunk) \cup {NoFile}]
  /\ late \subseteq Write
  /\ frame \in [Slots -> Frame]
  /\ \A s \in Slots, n \in Names : frame[s].to = n => file[n] \in Seq(Chunk)
  /\ \A w \in late, n \in Names : w.to = n => file[n] \in Seq(Chunk)

(* A slot in use knows what it was asked for.                               *)
PlacesOK ==
  /\ at \in [Slots -> Places]
  /\ \A s \in Slots : at[s] # "idle" => frame[s].id \in Ids /\ frame[s].want \in Contents

JobsOK ==
  /\ job \in [Ids -> {"none"} \cup Running \cup Outcome]
  /\ owner \in [Ids -> Slots \cup {NoSlot}]
  /\ cancel \in [Slots -> BOOLEAN]
  /\ wait \in [Waiters -> [at: {"idle", "look", "sleep"}, id: Ids \cup {NoId}, heard: BOOLEAN]]
  /\ left \in [{"cut", "cancel", "crash", "hangup", "delete"} -> Nat]

\* At most one, and a T.
AtMostOne(S, T) == S = {} \/ \E x \in T : S = {x}

(* A digest, recorded or on its way to be, is one or none.                  *)
SidesOK ==
  /\ AtMostOne(sidecar.digest, Seq(Chunk)) /\ AtMostOne(sidecar.size, Nat)
  /\ hash \in [Hashers -> [at: {"idle", "read", "save"}, size: Nat, digest: SUBSET Seq(Chunk)]]
  /\ \A h \in Hashers : AtMostOne(hash[h].digest, Seq(Chunk))

TypeInv == FilesOK /\ PlacesOK /\ JobsOK /\ SidesOK

(* An empty frame is a frame.                                               *)
LEMMA NoFrameType == NoFrame \in Frame /\ NoFrame.to = "gone" /\ NoFrame.fly = 0
  BY DEF NoFrame, Frame

(* The whole of a content is a file.                                        *)
LEMMA WholeType ==
  ASSUME NEW c \in Contents
  PROVE  Whole(c) \in Seq(Chunk) /\ Len(Whole(c)) = Length[c] /\ Length[c] \in Nat \ {0}
<1>1. Length[c] \in Nat \ {0}
  BY DownloadsAssumption
<1>2. \A i \in 1..Length[c] : <<c, i>> \in Chunk
  BY <1>1 DEF Chunk
<1> QED BY <1>1, <1>2 DEF Whole

(* One slot moves, and its open file stays the one it was or is closed.     *)
LEMMA Moves ==
  ASSUME FilesOK, PlacesOK, NEW s \in Slots, NEW f \in Frame, NEW p \in Places,
         file' = file, late' = late,
         frame' = [frame EXCEPT ![s] = f], at' = [at EXCEPT ![s] = p],
         f.to = frame[s].to \/ f.to = "gone",
         p # "idle" => f.id \in Ids /\ f.want \in Contents
  PROVE  FilesOK' /\ PlacesOK'
<1>1. FilesOK'
  BY DEF FilesOK, Names
<1>2. PlacesOK'
  BY DEF PlacesOK, FilesOK
<1> QED BY <1>1, <1>2

(* One slot goes elsewhere with the frame it has.                           *)
LEMMA Walks ==
  ASSUME FilesOK, PlacesOK, NEW s \in Slots, NEW p \in Places, at[s] # "idle",
         file' = file, late' = late, frame' = frame, at' = [at EXCEPT ![s] = p]
  PROVE  FilesOK' /\ PlacesOK'
<1>1. FilesOK'
  BY DEF FilesOK
<1>2. PlacesOK'
  BY DEF PlacesOK
<1> QED BY <1>1, <1>2

(* One slot is over.                                                        *)
LEMMA Ends ==
  ASSUME FilesOK, PlacesOK, NEW s \in Slots, file' = file, late' = late, Return(s)
  PROVE  FilesOK' /\ PlacesOK'
  BY NoFrameType, Moves DEF Return, Goto, Places

(* Open files that follow a move of the bytes.                              *)
LEMMA FollowTypes ==
  ASSUME FilesOK, NEW moves \in [Names \cup {"gone"} -> Names \cup {"gone"}], Follow(moves)
  PROVE  /\ frame' \in [Slots -> Frame] /\ late' \subseteq Write
         /\ \A s \in Slots :
              /\ frame'[s].to = moves[frame[s].to]
              /\ frame'[s].id = frame[s].id /\ frame'[s].want = frame[s].want
              /\ frame'[s].from = frame[s].from /\ frame'[s].next = frame[s].next
              /\ frame'[s].fly = frame[s].fly
         /\ \A w \in late' : \E v \in late : w.to = moves[v.to]
<1>1. frame' = [s \in Slots |-> [frame[s] EXCEPT !.to = moves[frame[s].to]]]
      /\ late' = {[w EXCEPT !.to = moves[w.to]] : w \in late}
  BY DEF Follow
<1>2. ASSUME NEW s \in Slots
      PROVE  /\ frame'[s] \in Frame
             /\ frame'[s].to = moves[frame[s].to]
             /\ frame'[s].id = frame[s].id /\ frame'[s].want = frame[s].want
             /\ frame'[s].from = frame[s].from /\ frame'[s].next = frame[s].next
             /\ frame'[s].fly = frame[s].fly
  <2>1. frame[s] \in Frame
    BY DEF FilesOK
  <2>2. frame'[s] = [frame[s] EXCEPT !.to = moves[frame[s].to]]
    BY <1>1
  <2>3. moves[frame[s].to] \in Names \cup {"gone"}
    BY <2>1 DEF Frame
  <2> QED BY <2>1, <2>2, <2>3 DEF Frame
<1>3. ASSUME NEW w \in late
      PROVE  /\ [w EXCEPT !.to = moves[w.to]] \in Write
             /\ [w EXCEPT !.to = moves[w.to]].to = moves[w.to]
  <2>1. w \in Write
    BY DEF FilesOK
  <2>2. moves[w.to] \in Names \cup {"gone"}
    BY <2>1 DEF Write
  <2> QED BY <2>1, <2>2 DEF Write
<1>4. frame' \in [Slots -> Frame]
  BY <1>1, <1>2
<1>5. late' \subseteq Write
  BY <1>1, <1>3
<1>6. ASSUME NEW w \in late'
      PROVE  \E v \in late : w.to = moves[v.to]
  <2>1. PICK v \in late : w = [v EXCEPT !.to = moves[v.to]]
    BY <1>1
  <2> QED BY <1>3, <2>1
<1> QED BY <1>2, <1>4, <1>5, <1>6

(* A removal takes one name away, and nobody's file with it but its own.    *)
LEMMA UnlinkTypes ==
  ASSUME FilesOK, NEW n \in Names, Unlink(n)
  PROVE  /\ FilesOK'
         /\ file' = [file EXCEPT ![n] = NoFile]
         /\ \A s \in Slots :
              /\ frame'[s].id = frame[s].id /\ frame'[s].want = frame[s].want
              /\ frame'[s].from = frame[s].from /\ frame'[s].next = frame[s].next
              /\ frame'[s].fly = frame[s].fly
              /\ frame'[s].to = IF frame[s].to = n THEN "gone" ELSE frame[s].to
         /\ late = {} => late' = {}
<1> DEFINE moves == [w \in Names \cup {"gone"} |-> IF w = n THEN "gone" ELSE w]
<1>1. /\ file' = [file EXCEPT ![n] = NoFile]
      /\ Follow(moves)
  BY DEF Unlink
<1>2. moves \in [Names \cup {"gone"} -> Names \cup {"gone"}]
  OBVIOUS
<1>3. \A w \in Names \cup {"gone"} : moves[w] = IF w = n THEN "gone" ELSE w
  OBVIOUS
<1>6. late = {} => late' = {}
  BY <1>1 DEF Follow
<1> HIDE DEF moves
<1>4. /\ \A s \in Slots : frame[s].to \in Names \cup {"gone"}
      /\ \A w \in late : w.to \in Names \cup {"gone"}
  BY DEF FilesOK, Frame, Write
<1>5. FilesOK'
  <2>1. frame' \in [Slots -> Frame] /\ late' \subseteq Write
    BY <1>1, <1>2, FollowTypes
  <2>2. file' \in [Names -> Seq(Chunk) \cup {NoFile}]
    BY <1>1 DEF FilesOK
  <2>3. \A m \in Names : m # n => file'[m] = file[m]
    BY <1>1 DEF FilesOK
  <2>4. ASSUME NEW s \in Slots, NEW m \in Names, frame'[s].to = m
        PROVE  file'[m] \in Seq(Chunk)
    <3>1. frame'[s].to = moves[frame[s].to]
      BY <1>1, <1>2, FollowTypes
    <3>2. frame[s].to = m /\ m # n
      BY <1>3, <1>4, <2>4, <3>1 DEF Names
    <3>3. file[m] \in Seq(Chunk)
      BY <3>2 DEF FilesOK
    <3> QED BY <2>3, <3>2, <3>3
  <2>5. ASSUME NEW w \in late', NEW m \in Names, w.to = m
        PROVE  file'[m] \in Seq(Chunk)
    <3>1. PICK v \in late : w.to = moves[v.to]
      BY <1>1, <1>2, <2>5, FollowTypes
    <3>2. v.to = m /\ m # n
      BY <1>3, <1>4, <2>5, <3>1 DEF Names
    <3>3. file[m] \in Seq(Chunk)
      BY <3>1, <3>2 DEF FilesOK
    <3> QED BY <2>3, <3>2, <3>3
  <2>6. \A s \in Slots, m \in Names : frame'[s].to = m => file'[m] \in Seq(Chunk)
    BY <2>4
  <2>7. \A w \in late', m \in Names : w.to = m => file'[m] \in Seq(Chunk)
    BY <2>5
  <2> QED BY <2>1, <2>2, <2>6, <2>7 DEF FilesOK
<1>7. \A s \in Slots : /\ frame'[s].to = moves[frame[s].to]
                      /\ frame'[s].id = frame[s].id /\ frame'[s].want = frame[s].want
                      /\ frame'[s].from = frame[s].from /\ frame'[s].next = frame[s].next
                      /\ frame'[s].fly = frame[s].fly
  BY <1>1, <1>2, FollowTypes
<1>8. ASSUME NEW s \in Slots
      PROVE  frame'[s].to = IF frame[s].to = n THEN "gone" ELSE frame[s].to
  BY <1>3, <1>4, <1>7
<1> QED BY <1>1, <1>5, <1>6, <1>7, <1>8

(* A chunk that lands leaves every file a file.                             *)
LEMMA LandedTypes ==
  ASSUME FilesOK, NEW to \in Names \cup {"gone"}, NEW pos \in Nat, NEW chunk \in Chunk,
         to \in Names => file[to] \in Seq(Chunk)
  PROVE  /\ Landed(to, pos, chunk) \in [Names -> Seq(Chunk) \cup {NoFile}]
         /\ \A n \in Names : file[n] \in Seq(Chunk) => Landed(to, pos, chunk)[n] \in Seq(Chunk)
<1>1. CASE to = "gone"
  BY <1>1 DEF Landed, FilesOK, Names
<1>2. CASE to \in Names
  <2>1. Landed(to, pos, chunk) = [file EXCEPT ![to] = Put(file[to], pos, chunk)]
    BY <1>2 DEF Landed, Names
  <2>2. Put(file[to], pos, chunk) \in Seq(Chunk)
    BY <1>2, PutType
  <2> QED BY <2>1, <2>2, <1>2 DEF FilesOK
<1> QED BY <1>1, <1>2

\* A step that leaves the files, and who has them open, alone.
FilesStay == UNCHANGED <<file, late, at, frame>>

(* The steps of a slot that leave the files alone.                          *)
LEMMA SlotFiles ==
  ASSUME FilesOK, PlacesOK, NEW s \in Slots,
         Ask(s) \/ Exists(s) \/ Check(s) \/ Reuse(s) \/ Keep(s) \/ Insert(s) \/ Hangup(s)
           \/ Measure(s) \/ Answer(s) \/ Refused(s) \/ Receive(s) \/ Stop(s)
           \/ End(s) \/ Hash(s) \/ WriteSidecar(s) \/ Settle(s)
  PROVE  FilesOK' /\ PlacesOK'
<1> USE DEF Places, Entry, Task, Transfer, Outcome, Goto
<1>0. /\ frame[s] \in Frame /\ frame \in [Slots -> Frame] /\ at \in [Slots -> Places]
      /\ file["part"] \in Seq(Chunk) \cup {NoFile}
  BY DEF FilesOK, PlacesOK, Names
<1>1. at[s] # "idle" => frame[s].id \in Ids /\ frame[s].want \in Contents
  BY DEF PlacesOK
<1>2. CASE Ask(s)
  <2>1. PICK o \in Offers : Request(s, o[1], o[2])
    BY <1>2 DEF Ask
  <2>2. o[1] \in Ids /\ o[2] \in Contents
    BY DownloadsAssumption
  <2> DEFINE f == [NoFrame EXCEPT !.id = o[1], !.want = o[2]]
  <2>3. f \in Frame /\ f.to = "gone" /\ f.id = o[1] /\ f.want = o[2]
    BY <2>2, NoFrameType DEF Frame, NoFrame
  <2>4. /\ frame' = [frame EXCEPT ![s] = f] /\ file' = file /\ late' = late
        /\ \E p \in Places : at' = [at EXCEPT ![s] = p]
    BY <2>1 DEF Request
  <2> HIDE DEF f
  <2> QED BY <2>2, <2>3, <2>4, Moves
<1>3. CASE Exists(s)
  <2>1. at[s] = "exists" /\ file' = file /\ late' = late
    BY <1>3 DEF Exists
  <2>2. CASE Return(s)
    BY <2>1, <2>2, Ends
  <2>3. CASE frame' = frame /\ \E p \in Places : at' = [at EXCEPT ![s] = p]
    BY <2>1, <2>3, Walks
  <2> QED BY <1>3, <2>2, <2>3 DEF Exists
<1>4. CASE Check(s)
  <2>1. at[s] = "check" /\ file' = file /\ late' = late
    BY <1>4 DEF Check
  <2>2. CASE Return(s)
    BY <2>1, <2>2, Ends
  <2>3. CASE frame' = frame /\ \E p \in Places : at' = [at EXCEPT ![s] = p]
    BY <2>1, <2>3, Walks
  <2> QED BY <1>4, <2>2, <2>3 DEF Check
<1>5. CASE Reuse(s) \/ Insert(s) \/ NothingLeft(s) \/ Refused(s) \/ Stop(s) \/ Hash(s) \/ WriteSidecar(s)
  <2>1. /\ at[s] # "idle" /\ file' = file /\ late' = late /\ frame' = frame
        /\ \E p \in Places : at' = [at EXCEPT ![s] = p]
    BY <1>5 DEF Reuse, Insert, NothingLeft, Refused, Stop, More, Hash, WriteSidecar
  <2> QED BY <2>1, Walks
<1>6. CASE Keep(s)
  <2>1. /\ file' = file /\ late' = late /\ at' = [at EXCEPT ![s] = "idle"]
        /\ frame' = [frame EXCEPT ![s] = NoFrame]
    BY <1>6 DEF Keep
  <2> QED BY <2>1, NoFrameType, Moves
<1>7. CASE Hangup(s) \/ Settle(s)
  <2>1. Return(s) /\ file' = file /\ late' = late
    BY <1>7 DEF Hangup, Settle
  <2> QED BY <2>1, Ends
<1>8. CASE Measure(s)
  <2> DEFINE n == IF file["part"] = NoFile THEN 0 ELSE Len(file["part"])
             f == [frame[s] EXCEPT !.from = n]
  <2>1. n \in Nat
    BY <1>0
  <2>2. /\ at[s] = "measure" /\ file' = file /\ late' = late
        /\ at' = [at EXCEPT ![s] = "send"] /\ frame' = [frame EXCEPT ![s] = f]
    BY <1>8 DEF Measure
  <2> HIDE DEF n
  <2>3. f \in Frame /\ f.to = frame[s].to /\ f.id = frame[s].id /\ f.want = frame[s].want
    BY <1>0, <2>1 DEF Frame
  <2> HIDE DEF f
  <2> QED BY <1>1, <2>2, <2>3, Moves
<1>9. CASE Partial(s)
  <2> DEFINE f == [frame[s] EXCEPT !.next = frame[s].from + 1]
  <2>1. /\ at[s] = "send" /\ file' = file /\ late' = late
        /\ at' = [at EXCEPT ![s] = "open"] /\ frame' = [frame EXCEPT ![s] = f]
    BY <1>9 DEF Partial
  <2>2. f \in Frame /\ f.to = frame[s].to /\ f.id = frame[s].id /\ f.want = frame[s].want
    BY <1>0 DEF Frame
  <2> HIDE DEF f
  <2> QED BY <1>1, <2>1, <2>2, Moves
<1>10. CASE AllOfIt(s)
  <2> DEFINE f == [[frame[s] EXCEPT !.from = 0] EXCEPT !.next = 1]
  <2>1. /\ at[s] = "send" /\ file' = file /\ late' = late
        /\ at' = [at EXCEPT ![s] = "open"] /\ frame' = [frame EXCEPT ![s] = f]
    BY <1>0, <1>10 DEF AllOfIt
  <2>2. [frame[s] EXCEPT !.from = 0] \in Frame
    BY <1>0 DEF Frame
  <2>3. f \in Frame /\ f.to = frame[s].to /\ f.id = frame[s].id /\ f.want = frame[s].want
    BY <1>0, <2>2 DEF Frame
  <2> HIDE DEF f
  <2> QED BY <1>1, <2>1, <2>3, Moves
<1>11. CASE Receive(s)
  <2> DEFINE f == [[frame[s] EXCEPT !.next = frame[s].next + 1] EXCEPT !.fly = frame[s].next]
  <2>1. /\ at[s] = "stream" /\ file' = file /\ late' = late
        /\ at' = [at EXCEPT ![s] = "stream"] /\ frame' = [frame EXCEPT ![s] = f]
    BY <1>0, <1>11 DEF Receive, More
  <2>2. [frame[s] EXCEPT !.next = frame[s].next + 1] \in Frame
    BY <1>0 DEF Frame
  <2>3. f \in Frame /\ f.to = frame[s].to /\ f.id = frame[s].id /\ f.want = frame[s].want
    BY <1>0, <2>2 DEF Frame
  <2> HIDE DEF f
  <2> QED BY <1>1, <2>1, <2>3, Moves
<1>12. CASE End(s)
  <2> DEFINE f == [frame[s] EXCEPT !.to = "gone"]
  <2>1. /\ at[s] = "stream" /\ file' = file /\ late' = late
        /\ frame' = [frame EXCEPT ![s] = f]
        /\ \E p \in Places : at' = [at EXCEPT ![s] = p]
    BY <1>12 DEF End
  <2>2. f \in Frame /\ f.to = "gone" /\ f.id = frame[s].id /\ f.want = frame[s].want
    BY <1>0 DEF Frame
  <2> HIDE DEF f
  <2> QED BY <1>1, <2>1, <2>2, Moves
<1> QED
  BY <1>2, <1>3, <1>4, <1>5, <1>6, <1>7, <1>8, <1>9, <1>10, <1>11, <1>12 DEF Answer

(* The steps of a slot that write, move or remove a file.                   *)
LEMMA SlotWrites ==
  ASSUME FilesOK, PlacesOK, NEW s \in Slots,
         Remove(s) \/ Drop(s) \/ Open(s) \/ Land(s) \/ Cut(s) \/ Discard(s) \/ Rename(s)
  PROVE  FilesOK' /\ PlacesOK'
<1> USE DEF Places, Entry, Task, Transfer, Outcome, Goto
<1>0. /\ frame[s] \in Frame /\ frame \in [Slots -> Frame] /\ at \in [Slots -> Places]
      /\ "part" \in Names /\ "dest" \in Names
  BY DEF FilesOK, PlacesOK, Names
<1>1. at[s] # "idle" => frame[s].id \in Ids /\ frame[s].want \in Contents
  BY DEF PlacesOK
<1>2. ASSUME NEW n \in Names, Unlink(n), NEW p \in Places, at' = [at EXCEPT ![s] = p],
             at[s] # "idle"
      PROVE  FilesOK' /\ PlacesOK'
  BY <1>2, UnlinkTypes DEF PlacesOK
<1>3. CASE Remove(s)
  <2>1. CASE file["dest"] = NoFile
    BY <1>3, <2>1, Ends DEF Remove
  <2>2. CASE file["dest"] # NoFile
    BY <1>0, <1>2, <1>3, <2>2 DEF Remove
  <2> QED BY <2>1, <2>2
<1>4. CASE Drop(s)
  BY <1>0, <1>2, <1>4 DEF Drop
<1>5. CASE Discard(s)
  BY <1>0, <1>2, <1>5 DEF Discard
<1>6. CASE Open(s)
  <2> DEFINE f == [frame[s] EXCEPT !.to = "part"]
  <2>1. /\ at[s] = "open" /\ late' = late
        /\ at' = [at EXCEPT ![s] = "stream"] /\ frame' = [frame EXCEPT ![s] = f]
    BY <1>6 DEF Open
  <2>2. f \in Frame /\ f.to = "part" /\ f.id = frame[s].id /\ f.want = frame[s].want
    BY <1>0 DEF Frame, Names
  <2>3. /\ file' \in [Names -> Seq(Chunk) \cup {NoFile}]
        /\ file'["part"] \in Seq(Chunk) /\ file'["dest"] = file["dest"]
    BY <1>0, <1>6 DEF Open, FilesOK
  <2> HIDE DEF f
  <2>4. FilesOK'
    BY <2>1, <2>2, <2>3 DEF FilesOK, Names
  <2> QED BY <1>0, <1>1, <2>1, <2>2, <2>4 DEF PlacesOK
<1>7. CASE Land(s)
  <2>2. Flying(s) \in Chunk /\ Position(s) \in Nat
    BY <1>0 DEF Position, Flying, Chunk, Frame
  <2>3. /\ file' \in [Names -> Seq(Chunk) \cup {NoFile}]
        /\ \A n \in Names : file[n] \in Seq(Chunk) => file'[n] \in Seq(Chunk)
    BY <1>0, <1>7, <2>2, LandedTypes DEF Land, FilesOK, Frame
  <2> DEFINE f == [frame[s] EXCEPT !.fly = 0]
  <2>4. late' = late /\ at' = at /\ frame' = [frame EXCEPT ![s] = f]
    BY <1>7 DEF Land
  <2>5. f \in Frame /\ f.to = frame[s].to /\ f.id = frame[s].id /\ f.want = frame[s].want
    BY <1>0 DEF Frame
  <2> HIDE DEF f
  <2>6. FilesOK'
    BY <2>3, <2>4, <2>5 DEF FilesOK
  <2> QED BY <1>0, <1>1, <2>4, <2>5, <2>6 DEF PlacesOK
<1>8. CASE Cut(s)
  <2> DEFINE w == [to |-> frame[s].to, pos |-> Position(s), chunk |-> Flying(s)]
             f == [frame[s] EXCEPT !.fly = 0]
  <2>1. /\ at[s] = "stream" /\ file' = file /\ at' = [at EXCEPT ![s] = "failed"]
        /\ late' = late \cup {v \in {w} : frame[s].fly # 0}
        /\ frame' = [frame EXCEPT ![s] = f]
    BY <1>8 DEF Cut, More
  <2>2. w \in Write /\ w.to = frame[s].to
    BY <1>0 DEF Position, Flying, Chunk, Frame, Write
  <2>3. f \in Frame /\ f.to = frame[s].to /\ f.id = frame[s].id /\ f.want = frame[s].want
    BY <1>0 DEF Frame
  <2> HIDE DEF f, w
  <2>4. \A v \in late' : v \in late \/ v = w
    BY <2>1
  <2>5. FilesOK'
    BY <2>1, <2>2, <2>3, <2>4 DEF FilesOK
  <2> QED BY <1>0, <1>1, <2>1, <2>3, <2>5 DEF PlacesOK
<1>9. CASE Rename(s)
  <2>1. CASE file["part"] = NoFile
    <3>1. at[s] # "idle" /\ at' = [at EXCEPT ![s] = "failed"] /\ UNCHANGED <<file, late, frame>>
      BY <1>9, <2>1 DEF Rename
    <3> QED BY <3>1, Walks
  <2>2. CASE file["part"] # NoFile
    <3> DEFINE moves == [w \in Names \cup {"gone"} |-> IF w = "part" THEN "dest" ELSE "gone"]
    <3>1. /\ file' = [part |-> NoFile, dest |-> file["part"]]
          /\ Follow(moves) /\ at[s] # "idle"
          /\ \E p \in Places : at' = [at EXCEPT ![s] = p]
      BY <1>9, <2>2 DEF Rename
    <3>2. moves \in [Names \cup {"gone"} -> Names \cup {"gone"}]
      BY DEF Names
    <3>3. \A w \in Names \cup {"gone"} : moves[w] = IF w = "part" THEN "dest" ELSE "gone"
      OBVIOUS
    <3> HIDE DEF moves
    <3>4. /\ \A t \in Slots : frame[t].to \in Names \cup {"gone"}
          /\ \A w \in late : w.to \in Names \cup {"gone"}
      BY DEF FilesOK, Frame, Write
    <3>5. /\ file' \in [Names -> Seq(Chunk) \cup {NoFile}]
          /\ file'["dest"] \in Seq(Chunk)
      BY <2>2, <3>1 DEF FilesOK, Names
    <3>6. frame' \in [Slots -> Frame] /\ late' \subseteq Write
      BY <3>1, <3>2, FollowTypes
    <3>7. \A t \in Slots : frame'[t].to = moves[frame[t].to] /\ frame'[t].id = frame[t].id /\ frame'[t].want = frame[t].want
      BY <3>1, <3>2, FollowTypes
    <3>8. \A w \in late' : \E v \in late : w.to = moves[v.to]
      BY <3>1, <3>2, FollowTypes
    <3>9. ASSUME NEW n \in Names, NEW m \in Names \cup {"gone"}, moves[m] = n PROVE file'[n] \in Seq(Chunk)
      BY <3>3, <3>5, <3>9 DEF Names
    <3>10. FilesOK'
      BY <3>4, <3>5, <3>6, <3>7, <3>8, <3>9 DEF FilesOK
    <3>11. PlacesOK'
      BY <3>1, <3>7 DEF PlacesOK
    <3> QED BY <3>10, <3>11
  <2> QED BY <2>1, <2>2
<1> QED BY <1>3, <1>4, <1>5, <1>6, <1>7, <1>8, <1>9

(* A late write lands in the file it was begun on.                          *)
LEMMA LateFiles ==
  ASSUME FilesOK, PlacesOK, NEW w \in late, LandLate(w)
  PROVE  FilesOK' /\ PlacesOK'
<1>1. w \in Write /\ w.to \in Names \cup {"gone"} /\ w.pos \in Nat /\ w.chunk \in Chunk
  BY DEF FilesOK, Write
<1>2. /\ file' \in [Names -> Seq(Chunk) \cup {NoFile}]
      /\ \A n \in Names : file[n] \in Seq(Chunk) => file'[n] \in Seq(Chunk)
  BY <1>1, LandedTypes DEF LandLate, FilesOK
<1>3. late' \subseteq late /\ at' = at /\ frame' = frame
  BY DEF LandLate
<1> QED BY <1>2, <1>3 DEF FilesOK, PlacesOK

(* No step breaks the files or the places.                                  *)
LEMMA FilesStep == FilesOK /\ PlacesOK /\ [Next]_vars => FilesOK' /\ PlacesOK'
<1> SUFFICES ASSUME FilesOK, PlacesOK, [Next]_vars PROVE FilesOK' /\ PlacesOK'
  OBVIOUS
<1>1. ASSUME FilesStay PROVE FilesOK' /\ PlacesOK'
  BY <1>1 DEF FilesStay, FilesOK, PlacesOK
<1>2. ASSUME NEW s \in Slots, Ask(s) \/ Handler(s) \/ Transferring(s) \/ Accident(s)
      PROVE  FilesOK' /\ PlacesOK'
  BY <1>2, SlotFiles, SlotWrites DEF Handler, Transferring, Accident
<1>3. ASSUME NEW w \in late, LandLate(w) PROVE FilesOK' /\ PlacesOK'
  BY <1>3, LateFiles
<1>4. CASE Delete
  <2>1. Unlink("dest") /\ at' = at /\ "dest" \in Names
    BY <1>4 DEF Delete, Names
  <2> QED BY <2>1, UnlinkTypes DEF PlacesOK
<1>5. CASE Crash
  <2>1. file' = file /\ late' = {} /\ at' = AllIdle /\ frame' = NoFrames
    BY <1>5 DEF Crash
  <2> QED BY <2>1, NoFrameType DEF FilesOK, PlacesOK, AllIdle, NoFrames, Places, Names
<1>6. ASSUME NEW id \in Ids, Cancel(id) \/ Forget(id) PROVE FilesStay
  BY <1>6 DEF Cancel, Forget, FilesStay
<1>7. CASE CancelAll
  BY <1>1, <1>7 DEF CancelAll, FilesStay
<1>8. ASSUME NEW w \in Waiters, Waiting(w) \/ \E id \in Ids : Wait(w, id) PROVE FilesStay
  BY <1>8 DEF Waiting, WaitLook, WaitHear, Wait, FilesStay
<1>9. ASSUME NEW h \in Hashers, Hashing(h) PROVE FilesStay
  BY <1>9 DEF Hashing, HashBegin, HashRead, HashSave, FilesStay
<1>10. CASE UNCHANGED vars
  BY <1>1, <1>10 DEF vars, FilesStay
<1> QED
  BY <1>1, <1>2, <1>3, <1>4, <1>5, <1>6, <1>7, <1>8, <1>9, <1>10 DEF Next

(* A waiter that hears keeps its place and its job.                         *)
LEMMA TellTypes == JobsOK /\ Tell => wait' \in [Waiters -> [at: {"idle", "look", "sleep"},
                                                id: Ids \cup {NoId}, heard: BOOLEAN]]
<1> SUFFICES ASSUME JobsOK, Tell
             PROVE  wait' \in [Waiters -> [at: {"idle", "look", "sleep"},
                                           id: Ids \cup {NoId}, heard: BOOLEAN]]
  OBVIOUS
<1>1. wait' = [w \in Waiters |-> [wait[w] EXCEPT !.heard = wait[w].heard \/ wait[w].at # "idle"]]
  BY DEF Tell
<1>2. ASSUME NEW w \in Waiters
      PROVE  [wait[w] EXCEPT !.heard = wait[w].heard \/ wait[w].at # "idle"]
               \in [at: {"idle", "look", "sleep"}, id: Ids \cup {NoId}, heard: BOOLEAN]
  <2>1. wait[w] \in [at: {"idle", "look", "sleep"}, id: Ids \cup {NoId}, heard: BOOLEAN]
    BY DEF JobsOK
  <2>2. (wait[w].heard \/ wait[w].at # "idle") \in BOOLEAN
    OBVIOUS
  <2> QED BY <2>1, <2>2
<1> QED BY <1>1, <1>2

(* A slot that is over leaves nobody's flag behind.                         *)
LEMMA ReturnTypes ==
  ASSUME JobsOK, NEW s \in Slots, Return(s)
  PROVE  owner' \in [Ids -> Slots \cup {NoSlot}] /\ cancel' \in [Slots -> BOOLEAN]
  BY DEF JobsOK, Return

(* An accident the bounds allow leaves a number of them.                    *)
LEMMA SpendTypes ==
  ASSUME JobsOK, NEW what \in {"cut", "cancel", "crash", "hangup", "delete"}, Spend(what)
  PROVE  left' \in [{"cut", "cancel", "crash", "hangup", "delete"} -> Nat]
<1>1. left[what] \in Nat /\ left[what] > 0
  BY DEF JobsOK, Spend
<1>2. left[what] - 1 \in Nat
  BY <1>1
<1> QED BY <1>2 DEF JobsOK, Spend

(* A job's new status is a status.                                          *)
LEMMA UpdateTypes ==
  ASSUME JobsOK, NEW id \in Ids, NEW status \in Running \cup Outcome, Update(id, status)
  PROVE  /\ job' \in [Ids -> {"none"} \cup Running \cup Outcome]
         /\ wait' \in [Waiters -> [at: {"idle", "look", "sleep"}, id: Ids \cup {NoId},
                                   heard: BOOLEAN]]
  BY TellTypes DEF JobsOK, Update

(* No step breaks the table of jobs, the flags, the waits or the bounds.    *)
LEMMA JobsStep == PlacesOK /\ JobsOK /\ [Next]_vars => JobsOK'
<1> SUFFICES ASSUME PlacesOK, JobsOK, [Next]_vars PROVE JobsOK'
  OBVIOUS
<1> USE DEF jobVars
<1>0. \A s \in Slots : at[s] # "idle" => frame[s].id \in Ids
  BY DEF PlacesOK
<1>1. ASSUME UNCHANGED <<job, owner, cancel, wait, left>> PROVE JobsOK'
  BY <1>1 DEF JobsOK
<1>2. ASSUME NEW s \in Slots, Ask(s) PROVE JobsOK'
  BY <1>1, <1>2 DEF Ask, Request
<1>3. ASSUME NEW s \in Slots,
             \/ Reuse(s) \/ Drop(s) \/ Measure(s) \/ Answer(s) \/ Open(s) \/ Receive(s)
             \/ Land(s) \/ Stop(s) \/ Hash(s) \/ Discard(s) \/ Rename(s) \/ WriteSidecar(s)
      PROVE  JobsOK'
  BY <1>1, <1>3 DEF Reuse, Drop, Measure, Answer, Partial, AllOfIt, NothingLeft, Open, Receive,
                    Land, Stop, Hash, Discard, Rename, WriteSidecar
<1>4. ASSUME NEW s \in Slots, Exists(s) \/ Remove(s) \/ Check(s) PROVE JobsOK'
  <2>1. UNCHANGED <<job, wait, left>> /\ (Return(s) \/ UNCHANGED <<owner, cancel>>)
    BY <1>4 DEF Exists, Remove, Check
  <2> QED BY <2>1, <1>1, ReturnTypes DEF JobsOK
<1>5. ASSUME NEW s \in Slots, Keep(s) PROVE JobsOK'
  <2>1. /\ job' = [job EXCEPT ![frame[s].id] = "completed"]
        /\ owner' = [owner EXCEPT ![frame[s].id] = NoSlot] /\ Tell
        /\ UNCHANGED <<cancel, left>>
    BY <1>5 DEF Keep
  <2> QED BY <2>1, TellTypes DEF JobsOK, Outcome
<1>6. ASSUME NEW s \in Slots, Insert(s) PROVE JobsOK'
  <2>1. /\ job' = [job EXCEPT ![frame[s].id] = "downloading"]
        /\ owner' = [owner EXCEPT ![frame[s].id] = s] /\ Tell
        /\ UNCHANGED <<cancel, left>>
    BY <1>6 DEF Insert
  <2> QED BY <2>1, TellTypes DEF JobsOK, Running
<1>7. ASSUME NEW s \in Slots, Hangup(s) PROVE JobsOK'
  BY <1>7, ReturnTypes, SpendTypes DEF Hangup, JobsOK
<1>8. ASSUME NEW s \in Slots, Refused(s) \/ Cut(s) PROVE JobsOK'
  BY <1>8, SpendTypes DEF Refused, Cut, JobsOK
<1>9. ASSUME NEW s \in Slots, End(s) PROVE JobsOK'
  <2>1. at[s] = "stream" /\ UNCHANGED <<owner, cancel, left>>
        /\ (Update(frame[s].id, "verifying") \/ UNCHANGED <<job, wait>>)
    BY <1>9 DEF End
  <2>2. frame[s].id \in Ids /\ "verifying" \in Running \cup Outcome
    BY <1>0, <2>1 DEF Running
  <2> QED BY <2>1, <2>2, UpdateTypes DEF JobsOK
<1>10. ASSUME NEW s \in Slots, Settle(s) PROVE JobsOK'
  <2>1. frame[s].id \in Ids /\ at[s] \in Running \cup Outcome
    BY <1>0, <1>10 DEF Settle, Outcome
  <2> QED BY <1>10, <2>1, UpdateTypes, ReturnTypes DEF Settle, JobsOK
<1>11. ASSUME NEW w \in late, LandLate(w) PROVE JobsOK'
  BY <1>1, <1>11 DEF LandLate
<1>12. ASSUME NEW id \in Ids, Cancel(id) PROVE JobsOK'
  BY <1>12, SpendTypes DEF Cancel, JobsOK
<1>13. ASSUME NEW id \in Ids, Forget(id) PROVE JobsOK'
  BY <1>13 DEF Forget, JobsOK
<1>14. CASE CancelAll
  <2>1. \A s \in Slots : (cancel[s] \/ \E id \in Ids : Active(id) /\ owner[id] = s) \in BOOLEAN
    OBVIOUS
  <2>2. cancel' \in [Slots -> BOOLEAN]
    BY <1>14, <2>1 DEF CancelAll
  <2> QED BY <1>14, <2>2, SpendTypes DEF CancelAll, JobsOK
<1>15. CASE Delete
  BY <1>15, SpendTypes DEF Delete, JobsOK
<1>16. CASE Crash
  BY <1>16, SpendTypes DEF Crash, JobsOK, NoJobs, NoOwners, NoCancel, NoWaits, NoWait
<1>17. ASSUME NEW w \in Waiters, WaitLook(w) PROVE JobsOK'
  <2>1. wait[w] \in [at: {"idle", "look", "sleep"}, id: Ids \cup {NoId}, heard: BOOLEAN]
    BY DEF JobsOK
  <2>2. [wait[w] EXCEPT !.at = "sleep"]
          \in [at: {"idle", "look", "sleep"}, id: Ids \cup {NoId}, heard: BOOLEAN]
    BY <2>1
  <2>3. UNCHANGED <<job, owner, cancel, left>>
        /\ \/ wait' = [wait EXCEPT ![w] = [wait[w] EXCEPT !.at = "sleep"]]
           \/ wait' = [wait EXCEPT ![w] = NoWait]
    BY <1>17 DEF WaitLook
  <2>4. NoWait \in [at: {"idle", "look", "sleep"}, id: Ids \cup {NoId}, heard: BOOLEAN]
    BY DEF NoWait
  <2> QED BY <2>2, <2>3, <2>4 DEF JobsOK
<1>18. ASSUME NEW w \in Waiters, WaitHear(w) PROVE JobsOK'
  <2>1. wait[w] \in [at: {"idle", "look", "sleep"}, id: Ids \cup {NoId}, heard: BOOLEAN]
    BY DEF JobsOK
  <2>2. [[wait[w] EXCEPT !.at = "look"] EXCEPT !.heard = FALSE]
          \in [at: {"idle", "look", "sleep"}, id: Ids \cup {NoId}, heard: BOOLEAN]
    BY <2>1
  <2>3. UNCHANGED <<job, owner, cancel, left>>
        /\ wait' = [wait EXCEPT ![w] = [[wait[w] EXCEPT !.at = "look"] EXCEPT !.heard = FALSE]]
    BY <1>18 DEF WaitHear, JobsOK
  <2> QED BY <2>2, <2>3 DEF JobsOK
<1>19. ASSUME NEW w \in Waiters, NEW id \in Ids, Wait(w, id) PROVE JobsOK'
  BY <1>19 DEF Wait, JobsOK
<1>20. ASSUME NEW h \in Hashers, Hashing(h) PROVE JobsOK'
  BY <1>1, <1>20 DEF Hashing, HashBegin, HashRead, HashSave
<1>21. CASE UNCHANGED vars
  BY <1>1, <1>21 DEF vars
<1> QED
  BY <1>2, <1>3, <1>4, <1>5, <1>6, <1>7, <1>8, <1>9, <1>10, <1>11, <1>12, <1>13, <1>14, <1>15,
     <1>16, <1>17, <1>18, <1>19, <1>20, <1>21
  DEF Next, Handler, Transferring, Accident, Waiting

(* The size a sidecar records is one or none.                               *)
LEMMA SizeType == FilesOK => AtMostOne(SizeOf("dest"), Nat)
  BY DEF FilesOK, Names, AtMostOne, SizeOf

(* No step records two digests, or something that is none.                  *)
LEMMA SidesStep == FilesOK /\ PlacesOK /\ SidesOK /\ [Next]_vars => SidesOK'
<1> SUFFICES ASSUME FilesOK, PlacesOK, SidesOK, [Next]_vars PROVE SidesOK'
  OBVIOUS
<1> USE DEF jobVars
<1>0. file["dest"] \in Seq(Chunk) \cup {NoFile}
  BY DEF FilesOK, Names
<1>1. ASSUME UNCHANGED <<sidecar, hash>> PROVE SidesOK'
  BY <1>1 DEF SidesOK
<1>2. ASSUME NEW s \in Slots, Ask(s) PROVE SidesOK'
  BY <1>1, <1>2 DEF Ask, Request
<1>3. ASSUME NEW s \in Slots, Handler(s) PROVE SidesOK'
  BY <1>1, <1>3 DEF Handler, Exists, Remove, Check, Reuse, Keep, Drop, Insert
<1>4. ASSUME NEW s \in Slots,
             \/ Measure(s) \/ Answer(s) \/ Open(s) \/ Receive(s) \/ Land(s) \/ Stop(s)
             \/ End(s) \/ Hash(s) \/ Discard(s) \/ Rename(s) \/ Settle(s)
      PROVE  SidesOK'
  BY <1>1, <1>4 DEF Measure, Answer, Partial, AllOfIt, NothingLeft, Open, Receive, Land, Stop,
                    End, Hash, Discard, Rename, Settle
<1>5. ASSUME NEW s \in Slots, WriteSidecar(s) PROVE SidesOK'
  <2>1. frame[s].want \in Contents
    BY <1>5 DEF WriteSidecar, PlacesOK
  <2>2. AtMostOne(sidecar'.digest, Seq(Chunk))
    BY <1>5, <2>1, WholeType DEF WriteSidecar, AtMostOne
  <2>3. AtMostOne(sidecar'.size, Nat) /\ hash' = hash
    BY <1>5, SizeType DEF WriteSidecar
  <2> QED BY <2>2, <2>3 DEF SidesOK
<1>6. ASSUME NEW s \in Slots, Accident(s) PROVE SidesOK'
  BY <1>1, <1>6 DEF Accident, Hangup, Refused, Cut
<1>7. ASSUME NEW w \in late, LandLate(w) PROVE SidesOK'
  BY <1>1, <1>7 DEF LandLate
<1>8. ASSUME NEW id \in Ids, Cancel(id) \/ Forget(id) PROVE SidesOK'
  BY <1>1, <1>8 DEF Cancel, Forget
<1>9. CASE CancelAll
  BY <1>1, <1>9 DEF CancelAll
<1>10. CASE Delete
  BY <1>10 DEF Delete, SidesOK, NoSidecar, AtMostOne
<1>11. CASE Crash
  BY <1>11 DEF Crash, SidesOK, NoHashes, NoHash, AtMostOne
<1>12. ASSUME NEW w \in Waiters, Waiting(w) \/ \E id \in Ids : Wait(w, id) PROVE SidesOK'
  BY <1>1, <1>12 DEF Waiting, WaitLook, WaitHear, Wait
<1>13. ASSUME NEW h \in Hashers, HashBegin(h) PROVE SidesOK'
  BY <1>0, <1>13 DEF HashBegin, SidesOK, AtMostOne
<1>14. ASSUME NEW h \in Hashers, HashRead(h) PROVE SidesOK'
  <2>1. CASE file["dest"] = NoFile
    BY <1>14, <2>1 DEF HashRead, SidesOK, AtMostOne, NoHash
  <2>2. CASE file["dest"] # NoFile
    <3> DEFINE r == [[hash[h] EXCEPT !.at = "save"] EXCEPT !.digest = {file["dest"]}]
    <3>1. hash[h] \in [at: {"idle", "read", "save"}, size: Nat, digest: SUBSET Seq(Chunk)]
      BY DEF SidesOK
    <3>2. {file["dest"]} \in SUBSET Seq(Chunk)
      BY <1>0, <2>2
    <3>3. /\ r \in [at: {"idle", "read", "save"}, size: Nat, digest: SUBSET Seq(Chunk)]
          /\ r.digest = {file["dest"]}
      BY <3>1, <3>2
    <3>4. hash' = [hash EXCEPT ![h] = r] /\ sidecar' = sidecar
      BY <1>14, <2>2, <3>1 DEF HashRead
    <3> HIDE DEF r
    <3> QED BY <1>0, <2>2, <3>3, <3>4 DEF SidesOK, AtMostOne
  <2> QED BY <2>1, <2>2
<1>15. ASSUME NEW h \in Hashers, HashSave(h) PROVE SidesOK'
  <2>1. /\ sidecar'.digest = hash[h].digest /\ sidecar'.size = {hash[h].size}
        /\ hash' = [hash EXCEPT ![h] = NoHash]
    BY <1>15 DEF HashSave
  <2>2. hash[h].size \in Nat
    BY DEF SidesOK
  <2> QED BY <2>1, <2>2 DEF SidesOK, AtMostOne, NoHash
<1>16. CASE UNCHANGED vars
  BY <1>1, <1>16 DEF vars
<1> QED
  BY <1>2, <1>3, <1>4, <1>5, <1>6, <1>7, <1>8, <1>9, <1>10, <1>11, <1>12, <1>13, <1>14, <1>15,
     <1>16
  DEF Next, Transferring, Hashing

(* The types hold at the start and are kept by every step.                  *)
LEMMA TypesInductive == Spec => []TypeInv
<1>1. Init => TypeInv
  <2> SUFFICES ASSUME Init PROVE TypeInv
    OBVIOUS
  <2>1. FilesOK /\ PlacesOK
    BY NoFrameType DEF Init, FilesOK, PlacesOK, Places, NoFrames, AllIdle, Names
  <2>2. JobsOK
    <3>1. /\ job \in [Ids -> {"none"} \cup Running \cup Outcome]
          /\ owner \in [Ids -> Slots \cup {NoSlot}] /\ cancel \in [Slots -> BOOLEAN]
      BY DEF Init, NoJobs, NoOwners, NoCancel
    <3>2. NoWait \in [at: {"idle", "look", "sleep"}, id: Ids \cup {NoId}, heard: BOOLEAN]
      BY DEF NoWait
    <3>3. wait \in [Waiters -> [at: {"idle", "look", "sleep"}, id: Ids \cup {NoId},
                                heard: BOOLEAN]]
      BY <3>2 DEF Init, NoWaits
    <3>4. left \in [{"cut", "cancel", "crash", "hangup", "delete"} -> Nat]
      BY DownloadsAssumption DEF Init
    <3> QED BY <3>1, <3>3, <3>4 DEF JobsOK
  <2>3. SidesOK
    BY DEF Init, SidesOK, NoSidecar, NoHashes, NoHash, AtMostOne
  <2> QED BY <2>1, <2>2, <2>3 DEF TypeInv
<1>2. TypeInv /\ [Next]_vars => TypeInv'
  BY FilesStep, JobsStep, SidesStep DEF TypeInv
<1> QED BY <1>1, <1>2, PTL DEF Spec

(* A set with at most one member counts at most one.                        *)
LEMMA OneAtMost ==
  ASSUME NEW S, NEW T, AtMostOne(S, T)
  PROVE  S \subseteq T /\ Cardinality(S) <= 1
<1>1. CASE S = {}
  BY <1>1, FS_EmptySet
<1>2. ASSUME NEW x \in T, S = {x} PROVE S \subseteq T /\ Cardinality(S) <= 1
  BY <1>2, FS_Singleton
<1> QED BY <1>1, <1>2 DEF AtMostOne

(* Every variable keeps its type, whatever number of downloads, hashes and   *)
(* waits interleave and wherever the process dies.                          *)
THEOREM DownloadTypes == Spec => []TypeOK
<1>1. TypeInv => TypeOK
  <2> SUFFICES ASSUME TypeInv PROVE TypeOK
    OBVIOUS
  <2>1. /\ sidecar.digest \subseteq Seq(Chunk) /\ sidecar.size \subseteq Nat
        /\ Cardinality(sidecar.digest) <= 1 /\ Cardinality(sidecar.size) <= 1
    BY OneAtMost DEF TypeInv, SidesOK
  <2>2. \A h \in Hashers : hash[h].at \in {"idle", "read", "save"} /\ hash[h].size \in Nat
    BY DEF TypeInv, SidesOK
  <2> QED BY <2>1, <2>2 DEF TypeOK, TypeInv, FilesOK, PlacesOK, JobsOK, Places
<1> QED BY TypesInductive, <1>1, PTL

-----------------------------------------------------------------------------
(* Jobs and tasks. *)

\* What one slot's step leaves of the others.
OthersStay(s) ==
  \A t \in Slots \ {s} : at'[t] = at[t] /\ frame'[t].id = frame[t].id

(* What a step of slot s does to the jobs: it shows one as running only when *)
(* s is its task, and s is a task to the end of its job.                    *)
Shows(s) ==
  /\ \A id \in Ids : job'[id] \in Running =>
       job[id] \in Running \/ (at'[s] \in Task /\ frame'[s].id = id)
  /\ at[s] \in Task => \/ at'[s] \in Task /\ frame'[s].id = frame[s].id
                       \/ at'[s] = "idle" /\ job'[frame[s].id] \notin Running

\* The step is not a slot's: nothing new is shown as running, and tasks stay;
\* or the process dies.
Apart ==
  /\ \A id \in Ids : job'[id] \in Running => job[id] \in Running
  /\ \/ at' = at /\ \A t \in Slots : frame'[t].id = frame[t].id
     \/ at' = AllIdle /\ job' = NoJobs

(* Every step is one of those.                                              *)
LEMMA StepShows ==
  FilesOK /\ PlacesOK /\ JobsOK /\ [Next]_vars =>
    Apart \/ \E s \in Slots : OthersStay(s) /\ Shows(s)
<1> SUFFICES ASSUME FilesOK, PlacesOK, JobsOK, [Next]_vars
             PROVE  Apart \/ \E s \in Slots : OthersStay(s) /\ Shows(s)
  OBVIOUS
<1> DEFINE Goal == Apart \/ \E s \in Slots : OthersStay(s) /\ Shows(s)
<1> USE DEF jobVars, Goto, Entry, Task, Transfer, Outcome, Running, Active
<1>0. /\ at \in [Slots -> Places] /\ frame \in [Slots -> Frame]
      /\ job \in [Ids -> {"none"} \cup Running \cup Outcome]
      /\ \A s \in Slots : at[s] # "idle" => frame[s].id \in Ids
  BY DEF FilesOK, PlacesOK, JobsOK
<1>1. ASSUME NEW n \in Names, Unlink(n)
      PROVE  \A t \in Slots : frame'[t].id = frame[t].id
  BY <1>1, UnlinkTypes
<1>2. ASSUME NEW s \in Slots, Ask(s) PROVE Goal
  BY <1>2, <1>0 DEF Ask, Request, OthersStay, Shows
<1>3. ASSUME NEW s \in Slots, Exists(s) \/ Check(s) \/ Hangup(s) PROVE Goal
  BY <1>3, <1>0 DEF Exists, Check, Hangup, Return, OthersStay, Shows
<1>4. ASSUME NEW s \in Slots, Remove(s) PROVE Goal
  <2>1. CASE file["dest"] = NoFile
    BY <1>4, <1>0, <2>1 DEF Remove, Return, OthersStay, Shows
  <2>2. CASE file["dest"] # NoFile
    <3>1. \A t \in Slots : frame'[t].id = frame[t].id
      BY <1>1, <1>4, <2>2 DEF Remove, Names
    <3> QED BY <1>4, <1>0, <2>2, <3>1 DEF Remove, OthersStay, Shows
  <2> QED BY <2>1, <2>2
<1>5. ASSUME NEW s \in Slots, Reuse(s) \/ Insert(s) PROVE Goal
  BY <1>5, <1>0 DEF Reuse, Insert, OthersStay, Shows
<1>6. ASSUME NEW s \in Slots, Keep(s) PROVE Goal
  BY <1>6, <1>0 DEF Keep, OthersStay, Shows
<1>7. ASSUME NEW s \in Slots, Drop(s) PROVE Goal
  <2>1. \A t \in Slots : frame'[t].id = frame[t].id
    BY <1>1, <1>7 DEF Drop, Names
  <2> QED BY <1>7, <1>0, <2>1 DEF Drop, OthersStay, Shows
<1>8. ASSUME NEW s \in Slots, Measure(s) PROVE Goal
  <2>1. /\ at[s] = "measure" /\ at' = [at EXCEPT ![s] = "send"] /\ job' = job
        /\ \A t \in Slots : frame'[t].id = frame[t].id
    BY <1>8, <1>0 DEF Measure, Frame
  <2> QED BY <1>0, <2>1 DEF OthersStay, Shows
<1>9. ASSUME NEW s \in Slots, Partial(s) PROVE Goal
  <2>1. /\ at[s] = "send" /\ at' = [at EXCEPT ![s] = "open"] /\ job' = job
        /\ \A t \in Slots : frame'[t].id = frame[t].id
    BY <1>9, <1>0 DEF Partial, Frame
  <2> QED BY <1>0, <2>1 DEF OthersStay, Shows
<1>10. ASSUME NEW s \in Slots, AllOfIt(s) PROVE Goal
  <2>1. /\ at[s] = "send" /\ at' = [at EXCEPT ![s] = "open"] /\ job' = job
        /\ frame' = [frame EXCEPT ![s] = [[frame[s] EXCEPT !.from = 0] EXCEPT !.next = 1]]
    BY <1>10, <1>0 DEF AllOfIt
  <2>2. frame[s] \in Frame /\ [frame[s] EXCEPT !.from = 0] \in Frame
    BY <1>0 DEF Frame
  <2>3. [[frame[s] EXCEPT !.from = 0] EXCEPT !.next = 1].id = frame[s].id
    BY <2>2 DEF Frame
  <2>4. \A t \in Slots : frame'[t].id = frame[t].id
    BY <1>0, <2>1, <2>3
  <2> QED BY <1>0, <2>1, <2>4 DEF OthersStay, Shows
<1>11. ASSUME NEW s \in Slots, NothingLeft(s) \/ Refused(s) \/ Stop(s) \/ Hash(s) \/ WriteSidecar(s)
       PROVE  Goal
  BY <1>11, <1>0 DEF NothingLeft, Refused, Stop, More, Hash, WriteSidecar, OthersStay, Shows
<1>12. ASSUME NEW s \in Slots, Open(s) PROVE Goal
  <2>1. /\ at[s] = "open" /\ at' = [at EXCEPT ![s] = "stream"] /\ job' = job
        /\ \A t \in Slots : frame'[t].id = frame[t].id
    BY <1>12, <1>0 DEF Open, Frame
  <2> QED BY <1>0, <2>1 DEF OthersStay, Shows
<1>13. ASSUME NEW s \in Slots, Receive(s) PROVE Goal
  <2>1. /\ at' = at /\ job' = job
        /\ frame' = [frame EXCEPT ![s] = [[frame[s] EXCEPT !.next = frame[s].next + 1]
                                             EXCEPT !.fly = frame[s].next]]
    BY <1>13, <1>0 DEF Receive
  <2>2. frame[s] \in Frame /\ [frame[s] EXCEPT !.next = frame[s].next + 1] \in Frame
    BY <1>0 DEF Frame
  <2>3. [[frame[s] EXCEPT !.next = frame[s].next + 1] EXCEPT !.fly = frame[s].next].id = frame[s].id
    BY <2>2 DEF Frame
  <2>4. \A t \in Slots : frame'[t].id = frame[t].id
    BY <1>0, <2>1, <2>3
  <2> QED BY <2>1, <2>4 DEF Apart
<1>14. ASSUME NEW s \in Slots, Land(s) PROVE Goal
  <2>1. at' = at /\ job' = job /\ \A t \in Slots : frame'[t].id = frame[t].id
    BY <1>14, <1>0 DEF Land, Frame
  <2> QED BY <2>1 DEF Apart
<1>15. ASSUME NEW s \in Slots, Cut(s) PROVE Goal
  <2>1. /\ at[s] = "stream" /\ at' = [at EXCEPT ![s] = "failed"] /\ job' = job
        /\ \A t \in Slots : frame'[t].id = frame[t].id
    BY <1>15, <1>0 DEF Cut, More, Frame
  <2> QED BY <1>0, <2>1 DEF OthersStay, Shows
<1>16. ASSUME NEW s \in Slots, End(s) PROVE Goal
  <2>1. /\ at[s] = "stream" /\ frame[s].id \in Ids
        /\ \A t \in Slots : frame'[t].id = frame[t].id
    BY <1>16, <1>0 DEF End, Frame
  <2>2. \/ /\ at' = [at EXCEPT ![s] = "hash"]
           /\ \A id \in Ids : job'[id] = job[id] \/ id = frame[s].id
        \/ at' = [at EXCEPT ![s] = "rename"] /\ job' = job
    BY <1>16, <1>0 DEF End, Update
  <2> QED BY <1>0, <2>1, <2>2 DEF OthersStay, Shows
<1>17. ASSUME NEW s \in Slots, Discard(s) PROVE Goal
  <2>1. \A t \in Slots : frame'[t].id = frame[t].id
    BY <1>1, <1>17 DEF Discard, Names
  <2> QED BY <1>17, <1>0, <2>1 DEF Discard, OthersStay, Shows
<1>18. ASSUME NEW s \in Slots, Rename(s) PROVE Goal
  <2>1. \A t \in Slots : frame'[t].id = frame[t].id
    <3>1. CASE file["part"] = NoFile
      BY <1>18, <3>1 DEF Rename
    <3>2. CASE file["part"] # NoFile
      <4> DEFINE moves == [w \in Names \cup {"gone"} |-> IF w = "part" THEN "dest" ELSE "gone"]
      <4>1. Follow(moves) /\ moves \in [Names \cup {"gone"} -> Names \cup {"gone"}]
        BY <1>18, <3>2 DEF Rename, Names
      <4> HIDE DEF moves
      <4> QED BY <4>1, FollowTypes
    <3> QED BY <3>1, <3>2
  <2>2. job' = job /\ at[s] \in Task /\ \E p \in Task : at' = [at EXCEPT ![s] = p]
    BY <1>18 DEF Rename
  <2> QED BY <1>0, <2>1, <2>2 DEF OthersStay, Shows
<1>19. ASSUME NEW s \in Slots, Settle(s) PROVE Goal
  <2>1. /\ at[s] \in Outcome /\ frame[s].id \in Ids
        /\ at' = [at EXCEPT ![s] = "idle"] /\ frame' = [frame EXCEPT ![s] = NoFrame]
    BY <1>19, <1>0 DEF Settle, Return
  <2>2. (job' = job /\ job[frame[s].id] = "none") \/ job' = [job EXCEPT ![frame[s].id] = at[s]]
    BY <1>19 DEF Settle, Update
  <2> QED BY <1>0, <2>1, <2>2 DEF OthersStay, Shows
<1>20. ASSUME NEW w \in late, LandLate(w) PROVE Goal
  BY <1>20 DEF LandLate, Apart
<1>21. ASSUME NEW id \in Ids, Cancel(id) \/ Forget(id) PROVE Goal
  BY <1>21, <1>0 DEF Cancel, Forget, Apart
<1>22. ASSUME CancelAll PROVE Goal
  BY <1>22 DEF CancelAll, Apart
<1>23. ASSUME Delete PROVE Goal
  BY <1>1, <1>23 DEF Delete, Names, Apart
<1>24. ASSUME Crash PROVE Goal
  BY <1>24 DEF Crash, NoJobs, Apart
<1>25. ASSUME NEW w \in Waiters, Waiting(w) \/ \E id \in Ids : Wait(w, id) PROVE Goal
  BY <1>25 DEF Waiting, WaitLook, WaitHear, Wait, Apart
<1>26. ASSUME NEW h \in Hashers, Hashing(h) PROVE Goal
  BY <1>26 DEF Hashing, HashBegin, HashRead, HashSave, Apart
<1>27. ASSUME UNCHANGED vars PROVE Goal
  BY <1>27 DEF vars, Apart
<1> HIDE DEF Goal
<1>28. Goal
  BY <1>2, <1>3, <1>4, <1>5, <1>6, <1>7, <1>8, <1>9, <1>10, <1>11, <1>12, <1>13, <1>14, <1>15,
     <1>16, <1>17, <1>18, <1>19, <1>20, <1>21, <1>22, <1>23, <1>24, <1>25, <1>26, <1>27
  DEF Next, Handler, Transferring, Accident, Answer
<1> QED BY <1>28 DEF Goal

(* A job shown as running has a task that will finish it, for any number of  *)
(* downloads of the same id or of others: nothing but a task's own steps     *)
(* shows one, and a task ends with its job's outcome.  (start, run, finish.) *)
THEOREM NoGhosts == Spec => []NoGhostJob
<1>1. Init => NoGhostJob
  BY DEF Init, NoJobs, NoGhostJob, Active, Running
<1>2. TypeInv /\ NoGhostJob /\ [Next]_vars => NoGhostJob'
  <2> SUFFICES ASSUME TypeInv, NoGhostJob, [Next]_vars, NEW id \in Ids, job'[id] \in Running
               PROVE  \E s \in Slots : at'[s] \in Task /\ frame'[s].id = id
    BY DEF NoGhostJob, Active
  <2>1. CASE Apart
    <3>1. job' # NoJobs /\ job[id] \in Running
      BY <2>1 DEF Apart, NoJobs, Running
    <3> QED BY <2>1, <3>1 DEF Apart, NoGhostJob, Active
  <2>2. ASSUME NEW s \in Slots, OthersStay(s), Shows(s)
        PROVE  \E t \in Slots : at'[t] \in Task /\ frame'[t].id = id
    <3>1. CASE at'[s] \in Task /\ frame'[s].id = id
      BY <3>1
    <3>2. CASE job[id] \in Running
      BY <2>2, <3>2 DEF OthersStay, Shows, NoGhostJob, Active
    <3> QED BY <2>2, <3>1, <3>2 DEF Shows
  <2> QED BY <2>1, <2>2, StepShows DEF TypeInv
<1> QED BY TypesInductive, <1>1, <1>2, PTL DEF Spec

\* One slot, so that no two downloads of the same file run at once.
OneSlot == \A s, t \in Slots : s = t

(* A task keeps the request it was spawned with.                            *)
LEMMA TaskKeepsId ==
  FilesOK /\ PlacesOK /\ JobsOK /\ [Next]_vars =>
    \A s \in Slots : at[s] \in Task /\ at'[s] \in Task => frame'[s].id = frame[s].id
<1> SUFFICES ASSUME FilesOK, PlacesOK, JobsOK, [Next]_vars,
                    NEW s \in Slots, at[s] \in Task, at'[s] \in Task
             PROVE  frame'[s].id = frame[s].id
  OBVIOUS
<1>1. at'[s] # "idle"
  BY DEF Task, Transfer, Outcome
<1> QED BY <1>1, StepShows DEF Apart, OthersStay, Shows, AllIdle

(* Only Insert spawns a task, and with one slot the table of jobs changes    *)
(* under a task only by its own steps and when another job is forgotten.    *)
LEMMA WhoBooks ==
  OneSlot /\ PlacesOK /\ [Next]_vars =>
    \/ UNCHANGED jobVars /\ \A s \in Slots : at'[s] \in Task => at[s] \in Task
    \/ \A s \in Slots : at'[s] \notin Task
    \/ \E s \in Slots : Insert(s) \/ End(s)
    \/ \E id \in Ids : Forget(id)
<1> SUFFICES ASSUME OneSlot, PlacesOK, [Next]_vars
             PROVE  \/ UNCHANGED jobVars /\ \A s \in Slots : at'[s] \in Task => at[s] \in Task
                    \/ \A s \in Slots : at'[s] \notin Task
                    \/ \E s \in Slots : Insert(s) \/ End(s)
                    \/ \E id \in Ids : Forget(id)
  OBVIOUS
<1> DEFINE Goal == \/ UNCHANGED jobVars /\ \A s \in Slots : at'[s] \in Task => at[s] \in Task
                   \/ \A s \in Slots : at'[s] \notin Task
                   \/ \E s \in Slots : Insert(s) \/ End(s)
                   \/ \E id \in Ids : Forget(id)
<1> USE DEF jobVars, Goto, Entry, Task, Transfer, Outcome
<1>0. at \in [Slots -> Places] /\ \A s, t \in Slots : s = t
  BY DEF PlacesOK, OneSlot
<1>1. ASSUME NEW s \in Slots, Ask(s) \/ Exists(s) \/ Remove(s) \/ Check(s) \/ Reuse(s) \/ Keep(s)
                                \/ Drop(s) \/ Hangup(s) \/ Settle(s)
      PROVE  Goal
  <2>1. at'[s] \notin Task
    BY <1>0, <1>1 DEF Ask, Request, Exists, Remove, Check, Reuse, Keep, Drop, Hangup, Settle, Return
  <2> QED BY <1>0, <2>1
<1>2. ASSUME NEW s \in Slots,
             \/ Measure(s) \/ Answer(s) \/ Open(s) \/ Stop(s) \/ Hash(s) \/ Discard(s)
             \/ Rename(s) \/ WriteSidecar(s) \/ Refused(s) \/ Cut(s)
      PROVE  Goal
  <2>1. UNCHANGED jobVars /\ at[s] \in Task
    BY <1>2 DEF Measure, Answer, Partial, AllOfIt, NothingLeft, Open, Stop, More, Hash, Discard,
                Rename, WriteSidecar, Refused, Cut
  <2> QED BY <1>0, <2>1
<1>3. ASSUME NEW s \in Slots, Receive(s) \/ Land(s) PROVE Goal
  BY <1>3 DEF Receive, Land
<1>4. ASSUME NEW s \in Slots, Insert(s) \/ End(s) PROVE Goal
  BY <1>4
<1>5. ASSUME NEW w \in late, LandLate(w) PROVE Goal
  BY <1>5 DEF LandLate
<1>6. ASSUME NEW id \in Ids, Cancel(id) \/ Forget(id) PROVE Goal
  BY <1>6 DEF Cancel
<1>7. ASSUME CancelAll \/ Delete PROVE Goal
  BY <1>7 DEF CancelAll, Delete
<1>8. ASSUME Crash PROVE Goal
  BY <1>8 DEF Crash, AllIdle
<1>9. ASSUME NEW w \in Waiters, Waiting(w) \/ \E id \in Ids : Wait(w, id) PROVE Goal
  BY <1>9 DEF Waiting, WaitLook, WaitHear, Wait
<1>10. ASSUME NEW h \in Hashers, Hashing(h) PROVE Goal
  BY <1>10 DEF Hashing, HashBegin, HashRead, HashSave
<1>11. ASSUME UNCHANGED vars PROVE Goal
  BY <1>11 DEF vars
<1> HIDE DEF Goal
<1>12. Goal
  BY <1>1, <1>2, <1>3, <1>4, <1>5, <1>6, <1>7, <1>8, <1>9, <1>10, <1>11
  DEF Next, Handler, Transferring, Accident
<1> QED BY <1>12 DEF Goal

(* With one download at a time a job is shown as running exactly while its    *)
(* task runs, and its flag is that task's: it can be seen, cancelled and not  *)
(* forgotten until it ends, through cancels, hang-ups and crashes.  (start,   *)
(* cancel, forget, finish; two starts that race are told in README.md.)       *)
THEOREM JobsTracked ==
  ASSUME OneSlot
  PROVE  Spec => []JobsAreTracked
<1>1. Init => TasksAreTracked
  BY DEF Init, AllIdle, TasksAreTracked, Task, Transfer, Outcome
<1>2. TypeInv /\ TasksAreTracked /\ [Next]_vars => TasksAreTracked'
  <2> SUFFICES ASSUME TypeInv, TasksAreTracked, [Next]_vars, NEW s \in Slots, at'[s] \in Task
               PROVE  job'[frame'[s].id] \in Running /\ owner'[frame'[s].id] = s
    BY DEF TasksAreTracked, Active
  <2>0. at[s] # "idle" => frame[s].id \in Ids
    BY DEF TypeInv, PlacesOK
  <2>1. /\ job \in [Ids -> {"none"} \cup Running \cup Outcome]
        /\ owner \in [Ids -> Slots \cup {NoSlot}]
    BY DEF TypeInv, JobsOK
  <2>2. CASE Insert(s)
    BY <2>0, <2>1, <2>2 DEF Insert, Running, Task, Transfer, Outcome
  <2>3. CASE at[s] \in Task
    <3>1. /\ frame'[s].id = frame[s].id /\ frame[s].id \in Ids
          /\ job[frame[s].id] \in Running /\ owner[frame[s].id] = s
      BY <2>0, <2>3, TaskKeepsId DEF TypeInv, TasksAreTracked, Active, Task, Transfer, Outcome
    <3>2. CASE UNCHANGED jobVars
      BY <3>1, <3>2 DEF jobVars
    <3>3. CASE End(s)
      <4>1. owner' = owner
        BY <3>3 DEF End
      <4>2. job' = job \/ job' = [job EXCEPT ![frame[s].id] = "verifying"]
        BY <3>3 DEF End, Update
      <4> QED BY <2>1, <3>1, <4>1, <4>2 DEF Running
    <3>4. ASSUME NEW id \in Ids, Forget(id)
          PROVE  job'[frame'[s].id] \in Running /\ owner'[frame'[s].id] = s
      <4>1. id # frame[s].id
        BY <3>1, <3>4 DEF Forget, Running, Outcome
      <4> QED BY <2>1, <3>1, <3>4, <4>1 DEF Forget
    <3>5. ~Insert(s)
      BY <2>3 DEF Insert, Task, Transfer, Outcome
    <3> QED BY <3>2, <3>3, <3>4, <3>5, WhoBooks DEF TypeInv, OneSlot
  <2>4. at[s] \in Task \/ Insert(s)
    <3>1. ASSUME NEW id \in Ids, Forget(id) PROVE at[s] \in Task
      BY <3>1 DEF Forget
    <3>2. ASSUME End(s) PROVE at[s] \in Task
      BY <3>2 DEF End, Task, Transfer
    <3> QED BY <3>1, <3>2, WhoBooks DEF TypeInv, OneSlot
  <2> QED BY <2>2, <2>3, <2>4
<1>3. TypeOK /\ NoGhostJob /\ TasksAreTracked => JobsAreTracked
  BY DEF JobsAreTracked
<1>4. Spec => []TasksAreTracked
  BY TypesInductive, <1>1, <1>2, PTL DEF Spec
<1> QED BY DownloadTypes, NoGhosts, <1>3, <1>4, PTL

-----------------------------------------------------------------------------
(* The digests of installed models. *)

(* Every file is a model, so an installed one is never replaced; and if      *)
(* models are deleted, none is being hashed meanwhile.                       *)
Installing == /\ Alone /\ \A id \in Ids : Kind[id] = "model"
              /\ Hashers = {} \/ MaxDeletes = 0

\* Where a slot has found nothing at the destination, and nobody else puts a file there.
Absent == {"check", "insert"} \cup (Transfer \ {"sidecar"})

(* A recorded digest, or one on its way to the record, is that of the file   *)
(* at the destination, or was recorded for none.                             *)
SidecarOK ==
  /\ sidecar.digest = {} \/ sidecar.size = {}
       \/ (file["dest"] # NoFile /\ sidecar.digest = {file["dest"]})
  /\ \A h \in Hashers :
       /\ hash[h].at # "idle" => file["dest"] # NoFile
       /\ hash[h].at = "save" => hash[h].digest = {file["dest"]}

ArriveOK ==
  /\ \A s \in Slots :
       /\ at[s] \notin {"remove", "reuse", "keep", "drop"}
       /\ at[s] \in Absent => file["dest"] = NoFile
       /\ at[s] = "sidecar" => file["dest"] \in {NoFile, Whole(frame[s].want)}
  /\ MaxDeletes = 0 => left["delete"] = 0

ArriveInv == TypeInv /\ DownloadInv /\ ArriveOK /\ SidecarOK

(* The bound on deletions is kept: only Delete spends one.                   *)
LEMMA NoDeletes ==
  ASSUME JobsOK, left["delete"] = 0, [Next]_vars
  PROVE  left'["delete"] = 0
<1> DEFINE Goal == left'["delete"] = 0
<1>1. ASSUME left' = left PROVE Goal
  BY <1>1
<1>2. ASSUME NEW what \in {"cut", "cancel", "crash", "hangup"}, Spend(what) PROVE Goal
  BY <1>2 DEF Spend, JobsOK
<1>3. ASSUME NEW s \in Slots, Ask(s) \/ Handler(s) \/ Transferring(s) PROVE Goal
  BY <1>3 DEF Ask, Request, Handler, Exists, Remove, Check, Reuse, Keep, Drop, Insert, Transferring,
              Measure, Answer, Partial, AllOfIt, NothingLeft, Open, Receive, Land, Stop, End, Hash,
              Discard, Rename, WriteSidecar, Settle
<1>4. ASSUME NEW s \in Slots, Accident(s) PROVE Goal
  BY <1>2, <1>4 DEF Accident, Hangup, Refused, Cut
<1>5. ASSUME NEW w \in late, LandLate(w) PROVE Goal
  BY <1>5 DEF LandLate
<1>6. ASSUME NEW id \in Ids, Cancel(id) \/ Forget(id) PROVE Goal
  BY <1>1, <1>2, <1>6 DEF Cancel, Forget
<1>7. ASSUME CancelAll \/ Crash PROVE Goal
  BY <1>2, <1>7 DEF CancelAll, Crash
<1>8. ASSUME Delete PROVE Goal
  BY <1>8 DEF Delete, Spend, JobsOK
<1>9. ASSUME NEW w \in Waiters, Waiting(w) \/ \E id \in Ids : Wait(w, id) PROVE Goal
  BY <1>9 DEF Waiting, WaitLook, WaitHear, Wait
<1>10. ASSUME NEW h \in Hashers, Hashing(h) PROVE Goal
  BY <1>10 DEF Hashing, HashBegin, HashRead, HashSave
<1>11. ASSUME UNCHANGED vars PROVE Goal
  BY <1>11 DEF vars
<1> HIDE DEF Goal
<1>12. Goal
  BY <1>3, <1>4, <1>5, <1>6, <1>7, <1>8, <1>9, <1>10, <1>11 DEF Next
<1> QED BY <1>12 DEF Goal

\* The destination, its record and the hashes of it are left alone.
RecordStays == UNCHANGED <<sidecar, hash>> /\ file'["dest"] = file["dest"]

(* A slot that only takes a file from the network keeps the record true.     *)
LEMMA ArriveStays ==
  ASSUME Installing, ArriveInv, [Next]_vars, RecordStays,
         \A t \in Slots : frame'[t].want = frame[t].want \/ at'[t] # "sidecar",
         \A t \in Slots : at'[t] = at[t] \/ at'[t] \in {"idle", "exists"} \cup Outcome
                            \/ (at[t] \in Absent /\ at'[t] \in Absent)
                            \/ (at'[t] = "check" /\ file["dest"] = NoFile)
  PROVE  ArriveOK' /\ SidecarOK'
<1>1. MaxDeletes = 0 => left'["delete"] = 0
  BY NoDeletes DEF ArriveInv, ArriveOK, TypeInv
<1>2. SidecarOK'
  BY DEF ArriveInv, SidecarOK, RecordStays
<1>3. ASSUME NEW t \in Slots
      PROVE  /\ at'[t] \notin {"remove", "reuse", "keep", "drop"}
             /\ at'[t] \in Absent => file'["dest"] = NoFile
             /\ at'[t] = "sidecar" => file'["dest"] \in {NoFile, Whole(frame'[t].want)}
  BY DEF ArriveInv, ArriveOK, RecordStays, Absent, Transfer, Outcome
<1> QED BY <1>1, <1>2, <1>3 DEF ArriveOK

(* No step makes the record of the destination untrue.                       *)
LEMMA ArriveStep ==
  ASSUME Installing, ArriveInv, [Next]_vars
  PROVE  ArriveOK' /\ SidecarOK'
<1> DEFINE Goal == ArriveOK' /\ SidecarOK'
<1> USE DEF Goto, Entry, Task, Transfer, Outcome, Absent
<1>0. /\ file \in [Names -> Seq(Chunk) \cup {NoFile}] /\ at \in [Slots -> Places]
      /\ frame \in [Slots -> Frame] /\ "part" \in Names /\ "dest" \in Names
      /\ hash \in [Hashers -> [at: {"idle", "read", "save"}, size: Nat, digest: SUBSET Seq(Chunk)]]
  BY DEF ArriveInv, TypeInv, FilesOK, PlacesOK, SidesOK, Names
<1>1. /\ \A s, t \in Slots : s = t
      /\ Digested = Ids /\ \A id \in Ids : Kind[id] = "model"
  BY DEF Installing, Alone
<1>2. ASSUME NEW s \in Slots
      PROVE  /\ at[s] \notin {"remove", "reuse", "keep", "drop"}
             /\ at[s] \in Absent => file["dest"] = NoFile
             /\ at[s] = "sidecar" => file["dest"] \in {NoFile, Whole(frame[s].want)}
             /\ at[s] # "idle" => frame[s].id \in Ids /\ frame[s].want \in Contents
             /\ at[s] = "rename" => file["part"] = Whole(frame[s].want)
             /\ frame[s].to \in {"part", "gone"}
  BY DEF ArriveInv, ArriveOK, DownloadInv, Verified, Handles
<1>3. ASSUME RecordStays, frame' = frame, at' = at PROVE Goal
  BY <1>3, ArriveStays
<1>4. ASSUME NEW s \in Slots, Ask(s) PROVE Goal
  <2>1. PICK o \in Offers : Request(s, o[1], o[2])
    BY <1>4 DEF Ask
  <2>2. Kind[o[1]] = "model"
    BY <1>1, DownloadsAssumption
  <2>3. at' = [at EXCEPT ![s] = "exists"] /\ RecordStays
    BY <2>1, <2>2 DEF Request, RecordStays
  <2> QED BY <1>0, <1>1, <2>3, ArriveStays
<1>5. ASSUME NEW s \in Slots, Exists(s) PROVE Goal
  <2>1. Kind[frame[s].id] = "model"
    BY <1>1, <1>2, <1>5 DEF Exists
  <2>2. /\ RecordStays
        /\ \/ file["dest"] = NoFile /\ at' = [at EXCEPT ![s] = "check"] /\ frame' = frame
           \/ at' = [at EXCEPT ![s] = "idle"]
    BY <1>5, <2>1 DEF Exists, Return, RecordStays
  <2> QED BY <1>0, <1>1, <2>2, ArriveStays
<1>6. ASSUME NEW s \in Slots, Check(s) \/ Insert(s) \/ Hash(s) PROVE Goal
  <2>1. Kind[frame[s].id] = "model"
    BY <1>1, <1>2, <1>6 DEF Check, Insert, Hash
  <2>2. /\ RecordStays /\ at[s] \in Absent
        /\ \/ at' = [at EXCEPT ![s] = at'[s]] /\ at'[s] \in Absent \cup {"failed"}
           \/ at' = [at EXCEPT ![s] = "idle"]
    BY <1>0, <1>6, <2>1 DEF Check, Insert, Hash, Return, RecordStays
  <2> QED BY <1>0, <1>1, <2>2, ArriveStays
<1>7. ASSUME NEW s \in Slots, Remove(s) \/ Reuse(s) \/ Keep(s) \/ Drop(s) PROVE Goal
  BY <1>2, <1>7 DEF Remove, Reuse, Keep, Drop
<1>8. ASSUME NEW s \in Slots, Hangup(s) \/ Settle(s) PROVE Goal
  <2>1. RecordStays /\ at' = [at EXCEPT ![s] = "idle"]
    BY <1>8 DEF Hangup, Settle, Return, RecordStays
  <2> QED BY <1>0, <1>1, <2>1, ArriveStays
<1>9. ASSUME NEW s \in Slots,
             Measure(s) \/ Answer(s) \/ Refused(s) \/ Stop(s) \/ Cut(s) \/ End(s) \/ Open(s)
      PROVE  Goal
  <2>1. /\ RecordStays /\ at[s] \in Absent
        /\ at' = [at EXCEPT ![s] = at'[s]] /\ at'[s] \in Absent \cup Outcome
    BY <1>0, <1>9 DEF Measure, Answer, Partial, AllOfIt, NothingLeft, Refused, Stop, Cut, More, End,
                      Open, RecordStays
  <2> QED BY <1>0, <1>1, <2>1, ArriveStays
<1>10. ASSUME NEW s \in Slots, Receive(s) PROVE Goal
  <2>1. RecordStays /\ at' = at /\ at[s] = "stream"
    BY <1>10 DEF Receive, More, RecordStays
  <2> QED BY <1>1, <2>1, ArriveStays
<1>11. ASSUME NEW to \in {"part", "gone"}, NEW pos, NEW chunk, file' = Landed(to, pos, chunk)
       PROVE  file'["dest"] = file["dest"]
  BY <1>0, <1>11 DEF Landed
<1>12. ASSUME NEW s \in Slots, Land(s) PROVE Goal
  <2>1. RecordStays /\ at' = at
    BY <1>2, <1>11, <1>12 DEF Land, RecordStays
  <2>2. \A t \in Slots : frame'[t].want = frame[t].want
    <3>1. frame' = [frame EXCEPT ![s] = [frame[s] EXCEPT !.fly = 0]]
      BY <1>12 DEF Land
    <3>2. [frame[s] EXCEPT !.fly = 0].want = frame[s].want
      BY <1>0 DEF Frame
    <3> QED BY <1>0, <3>1, <3>2
  <2> QED BY <2>1, <2>2, ArriveStays
<1>13. ASSUME NEW s \in Slots, Discard(s) PROVE Goal
  <2>1. /\ RecordStays /\ at' = [at EXCEPT ![s] = "failed"]
    BY <1>0, <1>13 DEF Discard, Unlink, RecordStays
  <2> QED BY <1>0, <1>1, <2>1, ArriveStays
<1>14. ASSUME NEW s \in Slots, Rename(s) PROVE Goal
  <2>1. /\ at[s] = "rename" /\ file["part"] = Whole(frame[s].want) /\ file["dest"] = NoFile
        /\ UNCHANGED <<sidecar, hash>>
    BY <1>2, <1>14 DEF Rename
  <2>2. Kind[frame[s].id] = "model"
    BY <1>1, <1>2, <2>1
  <2>3. CASE file["part"] = NoFile
    <3>1. RecordStays /\ at' = [at EXCEPT ![s] = "failed"]
      BY <1>14, <2>3 DEF Rename, RecordStays
    <3> QED BY <1>0, <1>1, <3>1, ArriveStays
  <2>4. CASE file["part"] # NoFile
    <3>1. file'["dest"] = Whole(frame[s].want) /\ at' = [at EXCEPT ![s] = "sidecar"]
      BY <1>14, <2>1, <2>2, <2>4 DEF Rename
    <3>2. frame'[s].want = frame[s].want
      <4> DEFINE moves == [w \in Names \cup {"gone"} |-> IF w = "part" THEN "dest" ELSE "gone"]
      <4>1. Follow(moves) /\ moves \in [Names \cup {"gone"} -> Names \cup {"gone"}]
        BY <1>14, <2>4 DEF Rename, Names
      <4> HIDE DEF moves
      <4> QED BY <4>1, FollowTypes DEF ArriveInv, TypeInv
    <3>3. ArriveOK'
      <4>1. MaxDeletes = 0 => left'["delete"] = 0
        BY NoDeletes DEF ArriveInv, ArriveOK, TypeInv
      <4> QED BY <1>0, <1>1, <3>1, <3>2, <4>1 DEF ArriveOK
    <3>4. SidecarOK'
      <4>1. /\ sidecar.digest = {} \/ sidecar.size = {}
            /\ \A h \in Hashers : hash[h].at = "idle"
        BY <2>1 DEF ArriveInv, SidecarOK
      <4> QED BY <2>1, <4>1 DEF SidecarOK
    <3> QED BY <3>3, <3>4
  <2> QED BY <2>3, <2>4
<1>15. ASSUME NEW s \in Slots, WriteSidecar(s) PROVE Goal
  <2>1. /\ at[s] = "sidecar" /\ at' = [at EXCEPT ![s] = "completed"]
        /\ sidecar' = [digest |-> {Whole(frame[s].want)}, size |-> SizeOf("dest")]
        /\ UNCHANGED <<file, hash, frame>>
    BY <1>1, <1>2, <1>15 DEF WriteSidecar
  <2>2. file["dest"] = NoFile => sidecar'.size = {}
    BY <2>1 DEF SizeOf
  <2>3. file["dest"] # NoFile => sidecar'.digest = {file["dest"]}
    BY <1>2, <2>1
  <2>4. SidecarOK'
    BY <2>1, <2>2, <2>3 DEF ArriveInv, SidecarOK
  <2>5. ArriveOK'
    <3>1. MaxDeletes = 0 => left'["delete"] = 0
      BY NoDeletes DEF ArriveInv, ArriveOK, TypeInv
    <3> QED BY <1>0, <1>1, <2>1, <3>1 DEF ArriveOK
  <2> QED BY <2>4, <2>5
<1>16. ASSUME NEW w \in late, LandLate(w) PROVE Goal
  <2>1. w.to \in {"part", "gone"}
    BY DEF ArriveInv, DownloadInv, Leftover
  <2>2. RecordStays /\ at' = at /\ frame' = frame
    BY <1>11, <1>16, <2>1 DEF LandLate, RecordStays
  <2> QED BY <1>3, <2>2
<1>17. ASSUME NEW id \in Ids, Cancel(id) \/ Forget(id) PROVE Goal
  BY <1>3, <1>17 DEF Cancel, Forget, RecordStays
<1>18. ASSUME CancelAll PROVE Goal
  BY <1>3, <1>18 DEF CancelAll, RecordStays
<1>19. ASSUME Delete PROVE Goal
  <2>1. /\ left["delete"] > 0 /\ Unlink("dest") /\ sidecar' = NoSidecar /\ at' = at
        /\ hash' = hash
    BY <1>19 DEF Delete, Spend
  <2>2. Hashers = {}
    BY <2>1 DEF Installing, ArriveInv, ArriveOK
  <2>3. file'["dest"] = NoFile
    BY <1>0, <2>1 DEF Unlink
  <2>4. SidecarOK'
    BY <2>1, <2>2 DEF SidecarOK, NoSidecar
  <2>5. ArriveOK'
    <3>1. MaxDeletes = 0 => left'["delete"] = 0
      BY NoDeletes DEF ArriveInv, ArriveOK, TypeInv
    <3> QED BY <1>2, <2>1, <2>3, <3>1 DEF ArriveOK
  <2> QED BY <2>4, <2>5
<1>20. ASSUME Crash PROVE Goal
  <2>1. /\ UNCHANGED <<file, sidecar>> /\ at' = AllIdle /\ hash' = NoHashes
    BY <1>20 DEF Crash
  <2>2. SidecarOK'
    BY <2>1 DEF ArriveInv, SidecarOK, NoHashes, NoHash
  <2>3. ArriveOK'
    <3>1. MaxDeletes = 0 => left'["delete"] = 0
      BY NoDeletes DEF ArriveInv, ArriveOK, TypeInv
    <3> QED BY <2>1, <3>1 DEF ArriveOK, AllIdle
  <2> QED BY <2>2, <2>3
<1>21. ASSUME NEW w \in Waiters, Waiting(w) \/ \E id \in Ids : Wait(w, id) PROVE Goal
  BY <1>3, <1>21 DEF Waiting, WaitLook, WaitHear, Wait, RecordStays
<1>22. ASSUME NEW h \in Hashers, Hashing(h) PROVE Goal
  <2>1. UNCHANGED <<file, at, frame, left>>
    BY <1>22 DEF Hashing, HashBegin, HashRead, HashSave
  <2>2. ArriveOK'
    BY <2>1 DEF ArriveInv, ArriveOK
  <2>3. CASE HashBegin(h)
    <3>1. /\ file["dest"] # NoFile /\ sidecar' = sidecar
          /\ hash' = [hash EXCEPT ![h] = [at |-> "read", size |-> Len(file["dest"]), digest |-> {}]]
      BY <2>3 DEF HashBegin
    <3> QED BY <1>0, <2>1, <2>2, <3>1 DEF ArriveInv, SidecarOK
  <2>4. CASE HashRead(h)
    <3> DEFINE g == [[hash[h] EXCEPT !.at = "save"] EXCEPT !.digest = {file["dest"]}]
    <3>1. /\ hash[h].at = "read" /\ sidecar' = sidecar
          /\ hash' = [hash EXCEPT ![h] = IF file["dest"] = NoFile THEN NoHash ELSE g]
      BY <1>0, <2>4 DEF HashRead
    <3>2. file["dest"] # NoFile
      BY <3>1 DEF ArriveInv, SidecarOK
    <3>3. g.at = "save" /\ g.digest = {file["dest"]}
      <4>1. hash[h] \in [at: {"idle", "read", "save"}, size: Nat, digest: SUBSET Seq(Chunk)]
        BY <1>0
      <4> QED BY <4>1
    <3> HIDE DEF g
    <3> QED BY <1>0, <2>1, <2>2, <3>1, <3>2, <3>3 DEF ArriveInv, SidecarOK
  <2>5. CASE HashSave(h)
    <3>1. /\ hash[h].at = "save" /\ hash' = [hash EXCEPT ![h] = NoHash]
          /\ sidecar'.digest = hash[h].digest
      BY <2>5 DEF HashSave
    <3>2. file["dest"] # NoFile /\ hash[h].digest = {file["dest"]}
      BY <3>1 DEF ArriveInv, SidecarOK
    <3> QED BY <1>0, <2>1, <2>2, <3>1, <3>2 DEF ArriveInv, SidecarOK, NoHash
  <2> QED BY <1>22, <2>3, <2>4, <2>5 DEF Hashing
<1>23. ASSUME UNCHANGED vars PROVE Goal
  BY <1>3, <1>23 DEF vars, RecordStays
<1> HIDE DEF Goal
<1>24. Goal
  BY <1>4, <1>5, <1>6, <1>7, <1>8, <1>9, <1>10, <1>12, <1>13, <1>14, <1>15, <1>16, <1>17, <1>18,
     <1>19, <1>20, <1>21, <1>22, <1>23
  DEF Next, Handler, Transferring, Accident
<1> QED BY <1>24 DEF Goal

(* With models installed one at a time, each with a published digest, and    *)
(* hashed beside it, what is at the destination is whole and what the        *)
(* sidecar says of it is true of those bytes, through cuts, cancels, crashes *)
(* and late writes (run, start, ensure_hashed, ModelStore::delete).          *)
THEOREM Arrivals ==
  ASSUME Installing
  PROVE  Spec => []ArrivedIsTrue
<1>1. Init => ArriveOK /\ SidecarOK
  BY DEF Init, AllIdle, ArriveOK, Absent, Transfer, SidecarOK, NoSidecar, NoHashes, NoHash
<1>2. ArriveInv /\ [Next]_vars => ArriveOK' /\ SidecarOK'
  BY ArriveStep
<1>3. Init => DownloadInv
  BY NothingAtFirst
<1>4. DownloadInv /\ [Next]_vars => DownloadInv'
  BY DownloadInductive DEF Installing
<1>5. ArriveInv => ArrivedIsTrue
  BY DEF ArriveInv, SidecarOK, DownloadInv, ArrivedIsTrue, DigestIsTrue, Trusted, SizeOf
<1>6. ArriveInv <=> TypeInv /\ DownloadInv /\ ArriveOK /\ SidecarOK
  BY DEF ArriveInv
<1> QED BY TypesInductive, <1>1, <1>2, <1>3, <1>4, <1>5, <1>6, PTL DEF Spec

-----------------------------------------------------------------------------
(* The bytes of a .part file. *)

\* No write outlives the failure of the task that began it.
Tidy == OneSlot /\ LateWrites = FALSE

Busy == {"send", "open", "stream", "hash", "discard"}

(* A task asks for, writes and reads back the .part as it measured it: what   *)
(* it goes on from is what is there, and each chunk it is handed is the next. *)
PartOK(s) ==
  /\ at[s] # "stream" => frame[s].fly = 0
  /\ at[s] \in {"send", "open"} /\ frame[s].from # 0 =>
       file["part"] # NoFile /\ Len(file["part"]) = frame[s].from
  /\ at[s] = "open" => /\ frame[s].next = frame[s].from + 1
                       /\ frame[s].from < Length[frame[s].want]
  /\ at[s] = "stream" =>
       /\ frame[s].to = "part" /\ file["part"] \in Seq(Chunk)
       /\ frame[s].next <= Length[frame[s].want] + 1
       /\ Len(file["part"]) + 1 = IF frame[s].fly = 0 THEN frame[s].next ELSE frame[s].fly
       /\ frame[s].fly # 0 => frame[s].next = frame[s].fly + 1
  /\ at[s] = "hash" => file["part"] \in Seq(Chunk) /\ Len(file["part"]) = Length[frame[s].want]
  /\ at[s] = "discard" => ~Of(frame[s].want, file["part"])

BytesInv == late = {} /\ PartIsPrefix /\ \A s \in Slots : PartOK(s)

(* Files of the same chunks are the same.                                    *)
LEMMA SameFile ==
  ASSUME NEW f \in Seq(Chunk), NEW g \in Seq(Chunk), Len(f) = Len(g),
         \A i \in 1..Len(f) : f[i] = g[i]
  PROVE  f = g
  OBVIOUS

(* A chunk written where the file ends is appended, whichever way it is      *)
(* written.                                                                  *)
LEMMA PutAppends ==
  ASSUME NEW f \in Seq(Chunk), NEW chunk \in Chunk, NEW pos \in {0, Len(f) + 1}
  PROVE  Put(f, pos, chunk) = Append(f, chunk)
<1>1. CASE pos = 0
  BY <1>1 DEF Put
<1>2. CASE pos # 0
  <2>1. pos = Len(f) + 1 /\ pos \in Nat /\ pos > Len(f)
    BY <1>2
  <2>2. Put(f, pos, chunk)
          = [i \in 1..(Len(f) + 1) |-> IF i = Len(f) + 1 THEN chunk
                                       ELSE IF i <= Len(f) THEN f[i] ELSE Hole]
    BY <1>2, <2>1 DEF Put
  <2>3. /\ Append(f, chunk) \in Seq(Chunk) /\ Len(Append(f, chunk)) = Len(f) + 1
        /\ \A i \in 1..(Len(f) + 1) :
             Append(f, chunk)[i] = IF i = Len(f) + 1 THEN chunk ELSE f[i]
    OBVIOUS
  <2>4. \A i \in 1..(Len(f) + 1) : i # Len(f) + 1 => i <= Len(f)
    OBVIOUS
  <2> DEFINE p == Put(f, pos, chunk)
  <2>5. /\ p \in Seq(Chunk) /\ Len(p) = Len(f) + 1
        /\ \A i \in 1..(Len(f) + 1) : p[i] = IF i = Len(f) + 1 THEN chunk ELSE f[i]
    <3>1. p \in Seq(Chunk)
      BY <2>1, PutType
    <3>2. DOMAIN p = 1..(Len(f) + 1)
      BY <2>2
    <3>3. \A i \in 1..(Len(f) + 1) : p[i] = IF i = Len(f) + 1 THEN chunk ELSE f[i]
      BY <2>2, <2>4
    <3> HIDE DEF p
    <3>4. Len(p) = Len(f) + 1
      BY <3>1, <3>2
    <3> QED BY <3>1, <3>3, <3>4
  <2>6. \A i \in 1..Len(Put(f, pos, chunk)) : Put(f, pos, chunk)[i] = Append(f, chunk)[i]
    BY <2>3, <2>5
  <2>7. Len(Put(f, pos, chunk)) = Len(Append(f, chunk))
    BY <2>3, <2>5
  <2>8. Append(f, chunk) \in Seq(Chunk) /\ Put(f, pos, chunk) \in Seq(Chunk)
    BY <2>3, <2>5
  <2> QED BY <2>6, <2>7, <2>8, SameFile
<1> QED BY <1>1, <1>2

(* A beginning of a content followed by the next chunk of one is again a     *)
(* beginning of every content it is all of.                                  *)
LEMMA AppendPrefix ==
  ASSUME NEW f \in Seq(Chunk), NEW w \in Contents, NEW i \in Nat,
         i = Len(f) + 1, i <= Length[w],
         \A c \in Contents : Of(c, f) => Starts(f, Whole(c)),
         NEW c \in Contents, Of(c, Append(f, <<w, i>>))
  PROVE  Starts(Append(f, <<w, i>>), Whole(c))
<1>1. <<w, i>> \in Chunk
  BY DEF Chunk
<1> DEFINE g == Append(f, <<w, i>>)
<1>2. /\ g \in Seq(Chunk) /\ Len(g) = i /\ g[i] = <<w, i>>
      /\ \A j \in 1..Len(f) : g[j] = f[j]
      /\ DOMAIN g = 1..i /\ DOMAIN f = 1..Len(f)
  BY <1>1
<1> HIDE DEF g
<1>3. Of(c, g)
  BY DEF g
<1>4. g[i][1] = c
  BY <1>2, <1>3 DEF Of
<1>5. w = c
  BY <1>2, <1>4
<1>6. \A j \in 1..Len(f) : j \in 1..i
  OBVIOUS
<1>7. Of(c, f)
  <2>1. f # NoFile
    BY NoFileAssumption
  <2> QED BY <1>2, <1>3, <1>6, <2>1 DEF Of
<1>8. Starts(f, Whole(c))
  BY <1>7
<1>9. Len(Whole(c)) = Length[c] /\ Length[c] \in Nat /\ Whole(c)[i] = <<c, i>>
  BY <1>5, WholeType DEF Whole
<1>10. Starts(g, Whole(c))
  <2>1. Len(g) <= Len(Whole(c))
    BY <1>2, <1>5, <1>9
  <2>2. ASSUME NEW j \in 1..Len(g) PROVE g[j] = Whole(c)[j]
    <3>1. CASE j = i
      BY <1>2, <1>5, <1>9, <3>1
    <3>2. CASE j # i
      <4>1. j \in 1..Len(f)
        BY <1>2, <3>2
      <4> QED BY <1>2, <1>8, <4>1 DEF Starts
    <3> QED BY <3>1, <3>2
  <2> QED BY <2>1, <2>2 DEF Starts
<1> QED BY <1>10 DEF g

(* A beginning of a content as long as all of it is all of it.               *)
LEMMA FullPrefix ==
  ASSUME NEW f \in Seq(Chunk), NEW c \in Contents, Len(f) = Length[c], Starts(f, Whole(c))
  PROVE  f = Whole(c)
<1>1. Whole(c) \in Seq(Chunk) /\ Len(Whole(c)) = Len(f)
  BY WholeType
<1>2. \A i \in 1..Len(f) : f[i] = Whole(c)[i]
  BY DEF Starts
<1> QED BY <1>1, <1>2

(* A step that leaves the bytes and the busy slots alone.                    *)
LEMMA BytesStay ==
  ASSUME FilesOK, FilesOK', BytesInv, file'["part"] = file["part"], late' = {},
         \A s \in Slots :
           \/ at'[s] \notin Busy /\ frame'[s].fly = 0
           \/ /\ at'[s] = at[s] /\ (frame[s].to = "part" => frame'[s].to = "part")
              /\ frame'[s].want = frame[s].want /\ frame'[s].from = frame[s].from
              /\ frame'[s].next = frame[s].next /\ frame'[s].fly = frame[s].fly
  PROVE  BytesInv'
<1>1. PartIsPrefix'
  BY DEF BytesInv, PartIsPrefix, Of
<1>2. ASSUME NEW s \in Slots, at'[s] \notin Busy, frame'[s].fly = 0 PROVE PartOK(s)'
  BY <1>2 DEF PartOK, Busy
<1>3. ASSUME NEW s \in Slots, at'[s] = at[s], frame[s].to = "part" => frame'[s].to = "part",
             frame'[s].want = frame[s].want, frame'[s].from = frame[s].from,
             frame'[s].next = frame[s].next, frame'[s].fly = frame[s].fly
      PROVE  PartOK(s)'
  <2>1. PartOK(s)
    BY DEF BytesInv
  <2> QED BY <1>3, <2>1 DEF PartOK, Of
<1> QED BY <1>1, <1>2, <1>3 DEF BytesInv

(* No step breaks it: a task that measured the .part is the only one there   *)
(* is, and it has all of its own bytes when it goes on.                      *)
LEMMA BytesStep ==
  ASSUME Tidy, TypeInv, TypeInv', BytesInv, [Next]_vars
  PROVE  BytesInv'
<1> DEFINE Goal == BytesInv'
<1> USE DEF Goto, Entry, Task, Transfer, Outcome, Busy
<1>0. /\ file \in [Names -> Seq(Chunk) \cup {NoFile}] /\ at \in [Slots -> Places]
      /\ frame \in [Slots -> Frame] /\ "part" \in Names /\ "dest" \in Names
      /\ late = {} /\ FilesOK /\ FilesOK' /\ LateWrites = FALSE
  BY DEF TypeInv, FilesOK, PlacesOK, Names, BytesInv, Tidy
<1>1. \A s, t \in Slots : s = t
  BY DEF Tidy, OneSlot
<1>2. ASSUME NEW s \in Slots
      PROVE  /\ PartOK(s) /\ frame[s] \in Frame /\ at[s] \in Places
             /\ at[s] # "idle" => frame[s].id \in Ids /\ frame[s].want \in Contents
             /\ at[s] # "idle" => Length[frame[s].want] \in Nat \ {0}
             /\ frame[s].from \in Nat /\ frame[s].next \in Nat /\ frame[s].fly \in Nat
  BY <1>0, WholeType DEF BytesInv, TypeInv, PlacesOK, Frame
<1>3. ASSUME late' = {}, file'["part"] = file["part"], at' = at, frame' = frame PROVE Goal
  BY <1>0, <1>3, BytesStay
<1>4. ASSUME NEW s \in Slots, late' = {}, file'["part"] = file["part"],
             at'[s] \notin Busy, frame'[s].fly = 0
      PROVE  Goal
  BY <1>0, <1>1, <1>4, BytesStay
<1>5. ASSUME NEW s \in Slots, Return(s), late' = {}, file'["part"] = file["part"] PROVE Goal
  <2>1. at'[s] = "idle" /\ frame'[s].fly = 0
    BY <1>0, <1>5, NoFrameType DEF Return
  <2> QED BY <1>4, <1>5, <2>1
<1>6. ASSUME NEW s \in Slots, late' = {}, PartIsPrefix', PartOK(s)' PROVE Goal
  BY <1>1, <1>6 DEF BytesInv
<1>7. ASSUME file'["part"] = file["part"] PROVE PartIsPrefix'
  BY <1>7 DEF BytesInv, PartIsPrefix, Of
<1>8. ASSUME NEW s \in Slots, Ask(s) PROVE Goal
  <2>1. PICK o \in Offers : Request(s, o[1], o[2])
    BY <1>8 DEF Ask
  <2>2. /\ late' = {} /\ file' = file /\ at'[s] \in {"check", "exists"}
        /\ frame' = [frame EXCEPT ![s] = [[NoFrame EXCEPT !.id = o[1]] EXCEPT !.want = o[2]]]
    BY <1>0, <2>1 DEF Request
  <2>3. frame'[s].fly = 0
    BY <1>0, <2>2 DEF NoFrame
  <2> QED BY <1>4, <2>2, <2>3
<1>9. ASSUME NEW s \in Slots, Exists(s) \/ Check(s) \/ Hangup(s) \/ Settle(s) PROVE Goal
  <2>1. /\ file' = file /\ late' = {} /\ frame[s].fly = 0
        /\ Return(s) \/ (frame' = frame /\ at'[s] \notin Busy)
    BY <1>0, <1>2, <1>9 DEF Exists, Check, Hangup, Settle, PartOK
  <2> QED BY <1>4, <1>5, <2>1
<1>10. ASSUME NEW s \in Slots, Remove(s) \/ Drop(s) PROVE Goal
  <2>1. CASE Return(s) /\ file' = file /\ late' = late
    BY <1>0, <1>5, <2>1
  <2>2. CASE Unlink("dest") /\ at[s] # "stream" /\ at'[s] \notin Busy
    <3>1. frame'[s].fly = frame[s].fly /\ late' = {} /\ file'["part"] = file["part"]
      BY <1>0, <2>2, UnlinkTypes
    <3> QED BY <1>2, <1>4, <2>2, <3>1 DEF PartOK
  <2> QED BY <1>0, <1>10, <2>1, <2>2 DEF Remove, Drop
<1>11. ASSUME NEW s \in Slots, Keep(s) PROVE Goal
  <2>1. late' = {} /\ file' = file /\ at'[s] = "idle" /\ frame'[s].fly = 0
    BY <1>0, <1>11, NoFrameType DEF Keep
  <2> QED BY <1>4, <2>1
<1>12. ASSUME NEW s \in Slots,
              Reuse(s) \/ Insert(s) \/ NothingLeft(s) \/ Refused(s) \/ Stop(s) \/ WriteSidecar(s)
       PROVE  Goal
  <2>1. late' = {} /\ file' = file /\ frame' = frame /\ at'[s] \notin Busy /\ frame[s].fly = 0
    BY <1>0, <1>2, <1>12 DEF Reuse, Insert, NothingLeft, Refused, Stop, WriteSidecar, PartOK
  <2> QED BY <1>4, <2>1
<1>13. ASSUME NEW s \in Slots, Measure(s) PROVE Goal
  <2> DEFINE n == IF file["part"] = NoFile THEN 0 ELSE Len(file["part"])
             f == [frame[s] EXCEPT !.from = n]
  <2>1. /\ late' = {} /\ file' = file /\ at'[s] = "send" /\ frame'[s] = f /\ at[s] = "measure"
    BY <1>0, <1>13 DEF Measure
  <2>2. f.from = n /\ f.fly = frame[s].fly
    BY <1>2 DEF Frame
  <2>3. n # 0 => file["part"] # NoFile /\ Len(file["part"]) = n
    OBVIOUS
  <2>4. frame[s].fly = 0
    BY <1>2, <2>1 DEF PartOK
  <2> HIDE DEF f, n
  <2>5. PartOK(s)'
    BY <2>1, <2>2, <2>3, <2>4 DEF PartOK
  <2> QED BY <1>6, <1>7, <2>1, <2>5
<1>14. ASSUME NEW s \in Slots, Partial(s) PROVE Goal
  <2> DEFINE f == [frame[s] EXCEPT !.next = frame[s].from + 1]
  <2>1. /\ late' = {} /\ file' = file /\ at'[s] = "open" /\ frame'[s] = f /\ at[s] = "send"
        /\ frame[s].from \in 1..(Length[frame[s].want] - 1)
    BY <1>0, <1>14 DEF Partial
  <2>2. /\ f.from = frame[s].from /\ f.next = frame[s].from + 1 /\ f.want = frame[s].want
        /\ f.fly = frame[s].fly
    BY <1>2 DEF Frame
  <2> HIDE DEF f
  <2>3. frame[s].from < Length[frame[s].want]
    BY <1>2, <2>1
  <2>4. PartOK(s)'
    BY <1>2, <2>1, <2>2, <2>3 DEF PartOK
  <2> QED BY <1>6, <1>7, <2>1, <2>4
<1>15. ASSUME NEW s \in Slots, AllOfIt(s) PROVE Goal
  <2> DEFINE f == [[frame[s] EXCEPT !.from = 0] EXCEPT !.next = 1]
  <2>1. /\ late' = {} /\ file' = file /\ at'[s] = "open" /\ frame'[s] = f /\ at[s] = "send"
    BY <1>0, <1>15 DEF AllOfIt
  <2>2. f.from = 0 /\ f.next = 1 /\ f.want = frame[s].want /\ f.fly = frame[s].fly
    BY <1>2 DEF Frame
  <2> HIDE DEF f
  <2>3. PartOK(s)'
    BY <1>2, <2>1, <2>2 DEF PartOK
  <2> QED BY <1>6, <1>7, <2>1, <2>3
<1>16. ASSUME NEW s \in Slots, Open(s) PROVE Goal
  <2> DEFINE f == [frame[s] EXCEPT !.to = "part"]
  <2>1. /\ late' = {} /\ at'[s] = "stream" /\ frame'[s] = f /\ at[s] = "open"
        /\ file'["part"] = IF frame[s].from = 0 \/ file["part"] = NoFile THEN <<>>
                           ELSE file["part"]
    BY <1>0, <1>16 DEF Open
  <2>2. /\ f.to = "part" /\ f.next = frame[s].next /\ f.want = frame[s].want
        /\ f.fly = frame[s].fly
    BY <1>2 DEF Frame
  <2> HIDE DEF f
  <2>3. /\ frame[s].fly = 0 /\ frame[s].next = frame[s].from + 1
        /\ frame[s].from < Length[frame[s].want]
        /\ frame[s].from # 0 => file["part"] # NoFile /\ Len(file["part"]) = frame[s].from
    BY <1>2, <2>1 DEF PartOK
  <2>4. /\ file'["part"] \in Seq(Chunk) /\ Len(file'["part"]) = frame[s].from
        /\ file'["part"] = <<>> \/ file'["part"] = file["part"]
    BY <1>0, <2>1, <2>3
  <2>5. frame[s].next <= Length[frame[s].want] + 1 /\ Len(file'["part"]) + 1 = frame[s].next
    BY <1>2, <2>1, <2>3, <2>4
  <2>6. PartOK(s)'
    BY <2>1, <2>2, <2>3, <2>4, <2>5 DEF PartOK
  <2>7. PartIsPrefix'
    <3>1. CASE file'["part"] = <<>>
      <4>1. \A c \in Contents : Starts(<<>>, Whole(c))
        BY WholeType DEF Starts
      <4> QED BY <3>1, <4>1 DEF PartIsPrefix
    <3> QED BY <1>7, <2>4, <3>1
  <2> QED BY <1>6, <2>1, <2>6, <2>7
<1>17. ASSUME NEW s \in Slots, Receive(s) PROVE Goal
  <2> DEFINE f == [[frame[s] EXCEPT !.next = frame[s].next + 1] EXCEPT !.fly = frame[s].next]
  <2>1. /\ late' = {} /\ file' = file /\ at' = at /\ at[s] = "stream" /\ frame'[s] = f
        /\ frame[s].fly = 0 /\ frame[s].next <= Length[frame[s].want]
    BY <1>0, <1>17 DEF Receive, More
  <2>2. /\ f.next = frame[s].next + 1 /\ f.fly = frame[s].next /\ f.want = frame[s].want
        /\ f.to = frame[s].to
    BY <1>2 DEF Frame
  <2> HIDE DEF f
  <2>3. /\ frame[s].to = "part" /\ file["part"] \in Seq(Chunk)
        /\ Len(file["part"]) + 1 = frame[s].next
    BY <1>2, <2>1 DEF PartOK
  <2>4. frame[s].next # 0 /\ frame[s].next + 1 <= Length[frame[s].want] + 1
    BY <1>2, <2>1, <2>3
  <2>5. PartOK(s)'
    BY <2>1, <2>2, <2>3, <2>4 DEF PartOK
  <2> QED BY <1>6, <1>7, <2>1, <2>5
<1>18. ASSUME NEW s \in Slots, Land(s) PROVE Goal
  <2> DEFINE f == [frame[s] EXCEPT !.fly = 0]
  <2>1. /\ late' = {} /\ at' = at /\ at[s] = "stream" /\ frame'[s] = f /\ frame[s].fly # 0
        /\ file' = Landed(frame[s].to, Position(s), Flying(s))
    BY <1>0, <1>2, <1>18 DEF Land, PartOK
  <2>2. /\ f.next = frame[s].next /\ f.fly = 0 /\ f.want = frame[s].want /\ f.to = frame[s].to
    BY <1>2 DEF Frame
  <2> HIDE DEF f
  <2>3. /\ frame[s].to = "part" /\ file["part"] \in Seq(Chunk)
        /\ Len(file["part"]) + 1 = frame[s].fly /\ frame[s].next = frame[s].fly + 1
        /\ frame[s].next <= Length[frame[s].want] + 1
    BY <1>2, <2>1 DEF PartOK
  <2>4. file'["part"] = Append(file["part"], Flying(s))
    <3>1. Position(s) \in {0, Len(file["part"]) + 1}
      BY <2>3 DEF Position
    <3>2. Flying(s) \in Chunk
      BY <1>2, <2>1 DEF Flying, Chunk
    <3>3. file'["part"] = Put(file["part"], Position(s), Flying(s))
      BY <1>0, <2>1, <2>3 DEF Landed
    <3> QED BY <2>3, <3>1, <3>2, <3>3, PutAppends
  <2>5. /\ file'["part"] \in Seq(Chunk)
        /\ Len(file'["part"]) = frame[s].fly
    <3>1. Flying(s) \in Chunk
      BY <1>2, <2>1 DEF Flying, Chunk
    <3> QED BY <2>3, <2>4, <3>1
  <2>6. PartOK(s)'
    BY <2>1, <2>2, <2>3, <2>5 DEF PartOK
  <2>7. PartIsPrefix'
    <3>1. frame[s].fly = Len(file["part"]) + 1 /\ frame[s].fly <= Length[frame[s].want]
      BY <1>2, <2>1, <2>3
    <3>2. frame[s].want \in Contents /\ frame[s].fly \in Nat
      BY <1>2, <2>1
    <3>3. \A c \in Contents : Of(c, file["part"]) => Starts(file["part"], Whole(c))
      BY DEF BytesInv, PartIsPrefix
    <3>4. \A c \in Contents : Of(c, Append(file["part"], <<frame[s].want, frame[s].fly>>))
            => Starts(Append(file["part"], <<frame[s].want, frame[s].fly>>), Whole(c))
      BY <2>3, <3>1, <3>2, <3>3, AppendPrefix
    <3> QED BY <2>4, <3>4 DEF PartIsPrefix, Flying, Of
  <2> QED BY <1>6, <2>1, <2>6, <2>7
<1>19. ASSUME NEW s \in Slots, Cut(s) PROVE Goal
  <2>1. frame[s].fly = 0 /\ file' = file /\ at'[s] = "failed"
        /\ frame'[s] = [frame[s] EXCEPT !.fly = 0]
    BY <1>0, <1>19 DEF Cut
  <2>2. late' = {}
    BY <1>0, <1>19, <2>1 DEF Cut
  <2>3. [frame[s] EXCEPT !.fly = 0].fly = 0
    BY <1>2 DEF Frame
  <2> QED BY <1>4, <2>1, <2>2, <2>3
<1>20. ASSUME NEW s \in Slots, End(s) PROVE Goal
  <2> DEFINE f == [frame[s] EXCEPT !.to = "gone"]
  <2>1. /\ late' = {} /\ file' = file /\ at[s] = "stream" /\ frame'[s] = f
        /\ at'[s] \in {"hash", "rename"}
        /\ frame[s].fly = 0 /\ ~(frame[s].next <= Length[frame[s].want])
    BY <1>0, <1>20 DEF End, More
  <2>2. f.fly = 0 /\ f.want = frame[s].want
    BY <1>2, <2>1 DEF Frame
  <2> HIDE DEF f
  <2>3. /\ file["part"] \in Seq(Chunk) /\ Len(file["part"]) + 1 = frame[s].next
        /\ frame[s].next <= Length[frame[s].want] + 1
    BY <1>2, <2>1 DEF PartOK
  <2>4. Len(file["part"]) = Length[frame[s].want]
    BY <1>2, <2>1, <2>3
  <2>5. PartOK(s)'
    BY <2>1, <2>2, <2>3, <2>4 DEF PartOK
  <2> QED BY <1>6, <1>7, <2>1, <2>5
<1>21. ASSUME NEW s \in Slots, Hash(s) PROVE Goal
  <2>1. /\ late' = {} /\ file' = file /\ at[s] = "hash" /\ frame' = frame
        /\ at'[s] = IF file["part"] = NoFile THEN "failed"
                    ELSE IF file["part"] = Whole(frame[s].want) THEN "rename" ELSE "discard"
    BY <1>0, <1>21 DEF Hash
  <2>2. /\ file["part"] \in Seq(Chunk) /\ Len(file["part"]) = Length[frame[s].want]
        /\ frame[s].fly = 0 /\ frame[s].want \in Contents
    BY <1>2, <2>1 DEF PartOK
  <2>3. CASE at'[s] # "discard"
    BY <1>4, <2>1, <2>2, <2>3
  <2>4. CASE at'[s] = "discard"
    <3>1. ~Of(frame[s].want, file["part"])
      BY <2>1, <2>2, <2>4, FullPrefix DEF BytesInv, PartIsPrefix
    <3>2. PartOK(s)'
      BY <2>1, <2>2, <2>4, <3>1 DEF PartOK, Of
    <3> QED BY <1>6, <1>7, <2>1, <3>2
  <2> QED BY <2>3, <2>4
<1>22. ASSUME file'["part"] = NoFile PROVE PartIsPrefix'
  BY <1>22 DEF PartIsPrefix, Of
<1>23. ASSUME NEW s \in Slots, Discard(s) PROVE Goal
  <2>1. at[s] = "discard" /\ at'[s] = "failed" /\ Unlink("part")
    BY <1>0, <1>23 DEF Discard
  <2>2. frame'[s].fly = frame[s].fly /\ late' = {} /\ file'["part"] = NoFile
    BY <1>0, <2>1, UnlinkTypes
  <2>3. PartOK(s)'
    BY <1>2, <2>1, <2>2 DEF PartOK
  <2> QED BY <1>6, <1>22, <2>2, <2>3
<1>24. ASSUME NEW s \in Slots, Rename(s) PROVE Goal
  <2>1. CASE file["part"] = NoFile
    <3>1. at'[s] = "failed" /\ file' = file /\ late' = {} /\ frame' = frame /\ frame[s].fly = 0
      BY <1>0, <1>2, <1>24, <2>1 DEF Rename, PartOK
    <3> QED BY <1>4, <3>1
  <2>2. CASE file["part"] # NoFile
    <3> DEFINE moves == [w \in Names \cup {"gone"} |-> IF w = "part" THEN "dest" ELSE "gone"]
    <3>1. /\ at[s] = "rename" /\ at'[s] \in {"completed", "sidecar"} /\ Follow(moves)
          /\ file'["part"] = NoFile
      BY <1>0, <1>24, <2>2 DEF Rename
    <3>2. moves \in [Names \cup {"gone"} -> Names \cup {"gone"}]
      BY DEF Names
    <3> HIDE DEF moves
    <3>3. frame'[s].fly = frame[s].fly /\ late' = {}
      BY <1>0, <3>1, <3>2, FollowTypes DEF Follow
    <3>4. PartOK(s)'
      BY <1>2, <3>1, <3>3 DEF PartOK
    <3> QED BY <1>6, <1>22, <3>1, <3>3, <3>4
  <2> QED BY <2>1, <2>2
<1>25. ASSUME Delete PROVE Goal
  <2>1. Unlink("dest") /\ at' = at
    BY <1>25 DEF Delete
  <2>2. /\ late' = {} /\ file'["part"] = file["part"]
        /\ \A s \in Slots :
             /\ frame'[s].want = frame[s].want /\ frame'[s].from = frame[s].from
             /\ frame'[s].next = frame[s].next /\ frame'[s].fly = frame[s].fly
             /\ frame'[s].to = IF frame[s].to = "dest" THEN "gone" ELSE frame[s].to
    BY <1>0, <2>1, UnlinkTypes
  <2> QED BY <1>0, <2>1, <2>2, BytesStay
<1>26. ASSUME Crash PROVE Goal
  <2>1. file' = file /\ late' = {} /\ \A s \in Slots : at'[s] \notin Busy /\ frame'[s].fly = 0
    BY <1>26, NoFrameType DEF Crash, AllIdle, NoFrames
  <2> QED BY <1>0, <2>1, BytesStay
<1>27. ASSUME NEW w \in late, LandLate(w) PROVE Goal
  BY <1>0
<1>28. ASSUME NEW id \in Ids, Cancel(id) \/ Forget(id) PROVE Goal
  BY <1>0, <1>3, <1>28 DEF Cancel, Forget
<1>29. ASSUME CancelAll PROVE Goal
  BY <1>0, <1>3, <1>29 DEF CancelAll
<1>30. ASSUME NEW w \in Waiters, Waiting(w) \/ \E id \in Ids : Wait(w, id) PROVE Goal
  BY <1>0, <1>3, <1>30 DEF Waiting, WaitLook, WaitHear, Wait
<1>31. ASSUME NEW h \in Hashers, Hashing(h) PROVE Goal
  BY <1>0, <1>3, <1>31 DEF Hashing, HashBegin, HashRead, HashSave
<1>32. ASSUME UNCHANGED vars PROVE Goal
  BY <1>0, <1>3, <1>32 DEF vars
<1> HIDE DEF Goal
<1>33. Goal
  BY <1>8, <1>9, <1>10, <1>11, <1>12, <1>13, <1>14, <1>15, <1>16, <1>17, <1>18, <1>19, <1>20,
     <1>21, <1>23, <1>24, <1>25, <1>26, <1>27, <1>28, <1>29, <1>30, <1>31, <1>32
  DEF Next, Handler, Transferring, Answer, Accident
<1> QED BY <1>33 DEF Goal

(* What happens to the .part file in a step.                                 *)
LEMMA PartSteps ==
  ASSUME Tidy, TypeInv, BytesInv, [Next]_vars
  PROVE  \/ file'["part"] = file["part"]
         \/ \E s \in Slots : Open(s) \/ Land(s) \/ Discard(s) \/ Rename(s)
<1> DEFINE Goal == \/ file'["part"] = file["part"]
                   \/ \E s \in Slots : Open(s) \/ Land(s) \/ Discard(s) \/ Rename(s)
<1>1. ASSUME NEW s \in Slots,
             \/ Ask(s) \/ Exists(s) \/ Check(s) \/ Reuse(s) \/ Keep(s) \/ Insert(s) \/ Hangup(s)
             \/ Measure(s) \/ Answer(s) \/ Refused(s) \/ Receive(s) \/ Stop(s) \/ Cut(s)
             \/ End(s) \/ Hash(s) \/ WriteSidecar(s) \/ Settle(s)
      PROVE  Goal
  BY <1>1 DEF Ask, Request, Exists, Check, Reuse, Keep, Insert, Hangup, Measure, Answer, Partial,
              AllOfIt, NothingLeft, Refused, Receive, Stop, Cut, End, Hash, WriteSidecar, Settle
<1>2. ASSUME NEW s \in Slots, Open(s) \/ Land(s) \/ Discard(s) \/ Rename(s) PROVE Goal
  BY <1>2
<1>3. ASSUME Unlink("dest") PROVE Goal
  BY <1>3 DEF Unlink, TypeInv, FilesOK, Names
<1>4. ASSUME NEW s \in Slots, Remove(s) \/ Drop(s) PROVE Goal
  BY <1>3, <1>4 DEF Remove, Drop
<1>5. ASSUME NEW w \in late, LandLate(w) PROVE Goal
  BY DEF BytesInv
<1>6. ASSUME NEW id \in Ids, Cancel(id) \/ Forget(id) PROVE Goal
  BY <1>6 DEF Cancel, Forget
<1>7. ASSUME CancelAll \/ Delete \/ Crash PROVE Goal
  BY <1>3, <1>7 DEF CancelAll, Delete, Crash
<1>8. ASSUME NEW w \in Waiters, Waiting(w) \/ \E id \in Ids : Wait(w, id) PROVE Goal
  BY <1>8 DEF Waiting, WaitLook, WaitHear, Wait
<1>9. ASSUME NEW h \in Hashers, Hashing(h) PROVE Goal
  BY <1>9 DEF Hashing, HashBegin, HashRead, HashSave
<1>10. ASSUME UNCHANGED vars PROVE Goal
  BY <1>10 DEF vars
<1> HIDE DEF Goal
<1>11. Goal
  BY <1>1, <1>2, <1>4, <1>5, <1>6, <1>7, <1>8, <1>9, <1>10
  DEF Next, Handler, Transferring, Accident
<1> QED BY <1>11 DEF Goal

(* Bytes of the content everyone is after are kept or asked for again.       *)
LEMMA BytesGrow ==
  ASSUME Tidy, TypeInv, TypeInv', BytesInv, [Next]_vars, Resumed
  PROVE  Grows
<1>0. /\ file["part"] \in Seq(Chunk) \cup {NoFile} /\ frame \in [Slots -> Frame]
      /\ at \in [Slots -> Places] /\ file \in [Names -> Seq(Chunk) \cup {NoFile}]
      /\ "part" \in Names
  BY DEF TypeInv, FilesOK, PlacesOK, Names
<1>1. PICK c \in Contents : Of(c, file["part"]) /\ \A s \in Slots : at[s] \in Task => frame[s].want = c
  BY DEF Resumed
<1>2. file["part"] # NoFile /\ file["part"] \in Seq(Chunk)
  BY <1>0, <1>1 DEF Of
<1>3. CASE file'["part"] = file["part"]
  BY <1>2, <1>3 DEF Grows, Starts
<1>4. ASSUME NEW s \in Slots PROVE PartOK(s)
  BY DEF BytesInv
<1>5. ASSUME NEW s \in Slots, Open(s) PROVE Grows
  <2>1. /\ at[s] = "open" /\ at'[s] = "stream"
        /\ file'["part"] = IF frame[s].from = 0 THEN <<>> ELSE file["part"]
    BY <1>0, <1>2, <1>5 DEF Open, Goto
  <2> QED BY <1>3, <2>1 DEF Grows
<1>6. ASSUME NEW s \in Slots, Land(s) PROVE Grows
  <2>1. at[s] = "stream" /\ frame[s].fly # 0
    BY <1>4, <1>6 DEF Land, PartOK
  <2>2. /\ frame[s].to = "part" /\ Len(file["part"]) + 1 = frame[s].fly
        /\ frame[s].want \in Contents /\ frame[s].fly \in Nat
    BY <1>0, <1>4, <2>1 DEF PartOK, TypeInv, PlacesOK, Frame
  <2>3. Flying(s) \in Chunk /\ Position(s) \in {0, Len(file["part"]) + 1}
    BY <2>2 DEF Flying, Position, Chunk
  <2>4. file'["part"] = Put(file["part"], Position(s), Flying(s))
    BY <1>0, <1>6, <2>2 DEF Land, Landed
  <2>5. file'["part"] = Append(file["part"], Flying(s))
    BY <1>2, <2>3, <2>4, PutAppends
  <2>6. /\ Len(file["part"]) <= Len(file'["part"])
        /\ \A i \in 1..Len(file["part"]) : file'["part"][i] = file["part"][i]
        /\ file'["part"] \in Seq(Chunk)
    BY <1>2, <2>3, <2>5
  <2>7. file'["part"] # NoFile
    BY <2>6, NoFileAssumption
  <2>8. Starts(file["part"], file'["part"])
    BY <2>6 DEF Starts
  <2> QED BY <2>7, <2>8 DEF Grows
<1>7. ASSUME NEW s \in Slots, Discard(s) PROVE Grows
  <2>1. at[s] = "discard" /\ at[s] \in Task
    BY <1>7 DEF Discard, Task, Transfer
  <2> QED BY <1>1, <1>4, <2>1 DEF PartOK
<1>8. ASSUME NEW s \in Slots, Rename(s) PROVE Grows
  <2>1. file' = [part |-> NoFile, dest |-> file["part"]]
    BY <1>2, <1>8 DEF Rename
  <2> QED BY <2>1 DEF Grows
<1> QED BY <1>3, <1>5, <1>6, <1>7, <1>8, PartSteps

(* With one download at a time whose writes end with it, a .part of one       *)
(* revision is a beginning of it, and its bytes are never given up: not by a  *)
(* failure, a cancel, a crash, a resume or a deletion of the model, unless    *)
(* the server sends them all again or another revision is asked for (run).    *)
THEOREM PartsAreKept ==
  ASSUME Tidy
  PROVE  Spec => BytesKept
<1>1. Init => BytesInv
  BY NoFrameType
  DEF Init, BytesInv, PartIsPrefix, Of, PartOK, AllIdle, NoFrames, Names
<1>2. TypeInv /\ TypeInv' /\ BytesInv /\ [Next]_vars => BytesInv'
  BY BytesStep
<1>3. BytesInv => PartIsPrefix
  BY DEF BytesInv
<1>4. TypeInv /\ TypeInv' /\ BytesInv /\ [Next]_vars => [Resumed => Grows]_vars
  BY BytesGrow
<1> QED BY TypesInductive, <1>1, <1>2, <1>3, <1>4, PTL DEF Spec, BytesKept
==============================================================================
