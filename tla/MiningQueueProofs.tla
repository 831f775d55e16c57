------------------------- MODULE MiningQueueProofs -------------------------
(***************************************************************************)
(* What TLAPS proves of the mining queue for any number of handlers, jobs, *)
(* attempts and crashes.  First its types, and that one job at a time is   *)
(* running, the worker's own, with the attempts its outcome will be        *)
(* settled by (IInv).  Then, on top of it (JInv), what every table a       *)
(* restart may read says of its jobs, that no waiting job is forgotten by  *)
(* the worker, and that jobs only move on.                                 *)
(***************************************************************************)
EXTENDS MiningQueue, TLAPS

(* The job a handler is about to push is nobody else's yet.                 *)
PushedIsNew ==
  \A c \in Callers : call[c].pc = "push" =>
    /\ call[c].job \in JobIds
    /\ call[c].job < nextId
    /\ call[c].job # wjob
    /\ jobs[call[c].job].status = "absent"
    /\ \A d \in Callers : call[d].pc = "push" /\ d # c => call[d].job # call[c].job

(* Between the pick and the mark the job may be dropped but not otherwise   *)
(* touched.                                                                 *)
PickedIsAsSeen ==
  /\ wpc = "mark" => \/ jobs[wjob].status = "absent"
                     \/ jobs[wjob].status = "queued" /\ jobs[wjob].attempts = wseen
  /\ wpc \in {"mark", "saveRunning", "ask", "settle", "saveOutcome"} => wjob \in JobIds

(* The worker is inside a persist only where it saves.                      *)
WorkerSaves == io[Worker].pc # "none" => wpc \in {"saveRunning", "saveOutcome"}

(* An id not yet handed out is in no table: not in memory, not in a         *)
(* snapshot, not in a file a restart may read.                              *)
Fresh(t) == \A j \in JobIds : j >= nextId => t[j].status = "absent"
FreshIds ==
  /\ wjob < nextId
  /\ Fresh(jobs)
  /\ tmp \in Table => Fresh(tmp)
  /\ disk \in Table => Fresh(disk)
  /\ \A w \in Writers : io[w].snap \in Table => Fresh(io[w].snap)

IInv == TypeOK /\ RunningIsWorkers /\ PushedIsNew /\ PickedIsAsSeen /\ WorkerSaves /\ FreshIds

-----------------------------------------------------------------------------

(* The empty slot is a job record, with no job in it.                       *)
LEMMA NoJobType == NoJob \in Job
  BY DEF NoJob, Job, Status

(* The table a start makes of no file is a table.                           *)
LEMMA EmptyType == Empty \in Table
  BY NoJobType DEF Empty, Table

(* Trimming yields a table and leaves every unfinished slot as it was.      *)
LEMMA TrimFacts ==
  ASSUME NEW t \in Table
  PROVE  /\ Trim(t) \in Table
         /\ \A j \in JobIds : Trim(t)[j] = t[j] \/ (Finished(t[j]) /\ Trim(t)[j] = NoJob)
<1> DEFINE done == {j \in JobIds : Finished(t[j])}
           Old(j) == j \in done /\ Cardinality({k \in done : k > j}) >= KeepFinished
<1>1. Trim(t) = [j \in JobIds |-> IF Old(j) THEN NoJob ELSE t[j]]
  BY DEF Trim
<1>2. \A j \in JobIds : Old(j) => Finished(t[j])
  OBVIOUS
<1> HIDE DEF Old
<1> QED BY <1>1, <1>2, NoJobType DEF Table

(* What a start makes of any file is a table in which nothing runs and      *)
(* nothing is that the file did not hold.                                   *)
LEMMA RecoverFacts ==
  ASSUME NEW t
  PROVE  /\ Recover(t) \in Table
         /\ \A j \in JobIds :
              /\ Recover(t)[j].status # "running"
              /\ t \in Table /\ t[j].status = "absent" => Recover(t)[j].status = "absent"
              /\ t \notin Table => Recover(t)[j].status = "absent"
<1>1. CASE t \notin Table
  BY <1>1, EmptyType DEF Recover, Empty, NoJob
<1>2. CASE t \in Table
  <2>1. Recover(t) = [j \in JobIds |-> IF t[j].status = "running"
                        THEN [t[j] EXCEPT !.status = "queued"] ELSE t[j]]
    BY <1>2 DEF Recover
  <2>2. \A j \in JobIds : t[j] \in Job
    BY <1>2 DEF Table
  <2>3. \A j \in JobIds : [t[j] EXCEPT !.status = "queued"] \in Job
    BY <2>2 DEF Job, Status
  <2>4. \A j \in JobIds : [t[j] EXCEPT !.status = "queued"].status = "queued"
    BY <2>2 DEF Job
  <2>5. Recover(t) \in Table
    BY <2>1, <2>2, <2>3 DEF Table
  <2>6. \A j \in JobIds : Recover(t)[j].status = IF t[j].status = "running" THEN "queued"
                                                ELSE t[j].status
    BY <2>1, <2>4
  <2> QED BY <1>2, <2>5, <2>6
<1> QED BY <1>1, <1>2

(* The records a handler and a persist move through keep their types.       *)
LEMMA CallFacts ==
  /\ NoCall \in Call
  /\ \A f \in [Callers -> Call], c \in Callers, pc \in {"idle", "push", "save", "saveWake"} :
       [f EXCEPT ![c].pc = pc] \in [Callers -> Call]
<1>1. NoCall \in Call
  BY QueueAssumption DEF NoCall, Call
<1>2. ASSUME NEW k \in Call, NEW pc \in {"idle", "push", "save", "saveWake"}
      PROVE  [k EXCEPT !.pc = pc] \in Call
  BY DEF Call
<1>3. ASSUME NEW f \in [Callers -> Call], NEW c \in Callers,
             NEW pc \in {"idle", "push", "save", "saveWake"}
      PROVE  [f EXCEPT ![c].pc = pc] \in [Callers -> Call]
  <2>1. [f[c] EXCEPT !.pc = pc] \in Call
    BY <1>2
  <2> QED BY <2>1
<1> QED BY <1>1, <1>3

(* The records of the persists keep their types, wherever one of them is.   *)
LEMMA IOFacts ==
  /\ NoIO \in IO /\ Saving \in IO
  /\ \A t \in Table : [pc |-> "open", snap |-> t, on |-> "none"] \in IO
  /\ \A k \in IO : /\ [k EXCEPT !.pc = "rename"] \in IO
                  /\ [k EXCEPT !.pc = "write", !.on = "tmp"] \in IO
                  /\ [k EXCEPT !.on = Moved(@)] \in IO
<1>1. NoIO \in IO /\ Saving \in IO
  BY DEF NoIO, Saving, IO
<1>2. \A t \in Table : [pc |-> "open", snap |-> t, on |-> "none"] \in IO
  BY DEF IO
<1>3. ASSUME NEW k \in IO
      PROVE  /\ [k EXCEPT !.pc = "rename"] \in IO
             /\ [k EXCEPT !.pc = "write", !.on = "tmp"] \in IO
  BY DEF IO
<1>4. ASSUME NEW k \in IO
      PROVE  [k EXCEPT !.on = Moved(k.on)] \in IO
  <2>1. Moved(k.on) \in {"none", "tmp", "disk", "lost"}
    BY DEF IO, Moved
  <2> QED BY <2>1 DEF IO
<1> QED BY <1>1, <1>2, <1>3, <1>4

(* Writing one field of a job keeps it a job.                               *)
LEMMA JobFacts ==
  ASSUME NEW b \in Job
  PROVE  /\ \A s \in Status : [b EXCEPT !.status = s] \in Job
         /\ [b EXCEPT !.status = "queued", !.attempts = 0] \in Job
         /\ [b EXCEPT !.status = "running", !.attempts = @ + 1] \in Job
<1>1. ASSUME NEW s \in Status PROVE [b EXCEPT !.status = s] \in Job
  BY DEF Job
<1>2. [b EXCEPT !.status = "queued", !.attempts = 0] \in Job
  BY DEF Job, Status
<1>3. [b EXCEPT !.status = "running", !.attempts = b.attempts + 1] \in Job
  <2>1. b.attempts + 1 \in Nat /\ "running" \in Status
    BY DEF Job, Status
  <2> QED BY <2>1 DEF Job
<1> QED BY <1>1, <1>2, <1>3

(* update leaves a table, changing at most the worker's job.                *)
LEMMA UpdateFacts ==
  ASSUME jobs \in Table, NEW b, b \in Job, Update(b)
  PROVE  /\ jobs' \in Table
         /\ \A j \in JobIds : j # wjob => jobs'[j] = jobs[j]
         /\ wjob \in JobIds => jobs'[wjob] = IF jobs[wjob].status = "absent" THEN jobs[wjob] ELSE b
<1>1. CASE jobs' = jobs
  BY <1>1 DEF Table, Update
<1>2. CASE jobs' = [jobs EXCEPT ![wjob] = b]
  BY <1>2 DEF Table, Update
<1> QED BY <1>1, <1>2 DEF Update

(* A first start, with an empty table and an idle worker, is in the         *)
(* invariant.                                                               *)
THEOREM InitInv == Init => IInv
<1> SUFFICES ASSUME Init PROVE IInv
  OBVIOUS
<1>1. TypeOK
  <2>1. NoCall \in Call /\ NoIO \in IO
    BY CallFacts, IOFacts
  <2>2. jobs \in Table /\ tmp \in Content /\ disk \in Content
    BY EmptyType DEF Init, Content
  <2>3. call \in [Callers -> Call] /\ io \in [Writers -> IO]
    BY <2>1 DEF Init
  <2>4. /\ nextId \in 1..(MaxJobs + 1) /\ wjob \in 0..MaxJobs
        /\ retries \in 0..MaxRetries /\ crashes \in 0..MaxCrashes /\ hangups \in 0..MaxHangups
    BY QueueAssumption DEF Init
  <2> QED BY <2>2, <2>3, <2>4 DEF Init, TypeOK
<1>2. \A j \in JobIds : jobs[j].status = "absent"
  BY DEF Init, Empty, NoJob
<1>3. \A c \in Callers : call[c].pc = "idle"
  BY DEF Init, NoCall
<1>4. FreshIds
  BY <1>2, QueueAssumption DEF Init, FreshIds, Fresh, NoIO
<1> QED BY <1>1, <1>2, <1>3, <1>4, QueueAssumption
     DEF Init, IInv, RunningIsWorkers, PushedIsNew, PickedIsAsSeen, WorkerSaves, Writers, NoIO

(* No step of a handler, the worker, a persist or a crash breaks a type.    *)
LEMMA TypeStep == IInv /\ [Next]_vars => TypeOK'
<1> SUFFICES ASSUME IInv, [Next]_vars PROVE TypeOK'
  OBVIOUS
<1> USE QueueAssumption
<1>t. TypeOK
  BY DEF IInv
<1>1. ASSUME NEW c \in Callers, NEW p \in Prompts, EnqueueCheck(c, p) PROVE TypeOK'
  <2>1. [pc |-> "push", prompt |-> p, job |-> nextId] \in Call
    BY <1>1, <1>t DEF EnqueueCheck, TypeOK, Call
  <2>2. call' \in [Callers -> Call]
    BY <1>1, <1>t, <2>1 DEF EnqueueCheck, TypeOK
  <2>3. nextId' \in 1..(MaxJobs + 1)
    BY <1>1, <1>t DEF EnqueueCheck, TypeOK
  <2> QED BY <1>1, <1>t, <2>2, <2>3 DEF EnqueueCheck, TypeOK, workVars, fileVars, boundVars
<1>2. ASSUME NEW c \in Callers, EnqueuePush(c) PROVE TypeOK'
  <2>1. [prompt |-> call[c].prompt, status |-> "queued", attempts |-> 0] \in Job
    BY <1>t DEF TypeOK, Call, Job, Status
  <2>2. [jobs EXCEPT ![call[c].job] =
           [prompt |-> call[c].prompt, status |-> "queued", attempts |-> 0]] \in Table
    BY <1>t, <2>1 DEF TypeOK, Table
  <2>3. jobs' \in Table
    BY <1>2, <2>2, TrimFacts DEF EnqueuePush
  <2>4. call' \in [Callers -> Call] /\ io' \in [Writers -> IO]
    BY <1>2, <1>t, CallFacts, IOFacts DEF EnqueuePush, TypeOK, Writers
  <2> QED BY <1>2, <1>t, <2>3, <2>4 DEF EnqueuePush, TypeOK, workVars, fileVars, boundVars
<1>3. ASSUME NEW c \in Callers, Abandon(c) PROVE TypeOK'
  <2>1. call' \in [Callers -> Call] /\ io' \in [Writers -> IO]
    BY <1>3, <1>t, CallFacts, IOFacts DEF Abandon, TypeOK, Writers
  <2>2. hangups' \in 0..MaxHangups
    BY <1>3, <1>t DEF Abandon, TypeOK
  <2> QED BY <1>3, <1>t, <2>1, <2>2 DEF Abandon, TypeOK, workVars, fileVars
<1>4. ASSUME NEW c \in Callers, NEW j \in JobIds, Remove(c, j) PROVE TypeOK'
  <2>1. call' \in [Callers -> Call] /\ io' \in [Writers -> IO]
    BY <1>4, <1>t, CallFacts, IOFacts DEF Remove, TypeOK, Writers
  <2>2. jobs' \in Table
    BY <1>4, <1>t, NoJobType DEF Remove, TypeOK, Table
  <2>3. waiting' \subseteq JobIds
    BY <1>4, <1>t DEF Remove, TypeOK
  <2> QED BY <1>4, <1>t, <2>1, <2>2, <2>3 DEF Remove, TypeOK, workVars, fileVars, boundVars
<1>5. ASSUME NEW c \in Callers, NEW j \in JobIds, Retry(c, j) PROVE TypeOK'
  <2>1. call' \in [Callers -> Call] /\ io' \in [Writers -> IO]
    BY <1>5, <1>t, CallFacts, IOFacts DEF Retry, TypeOK, Writers
  <2>2. [jobs[j] EXCEPT !.status = "queued", !.attempts = 0] \in Job
    BY <1>t, JobFacts DEF TypeOK, Table
  <2>3. jobs' = [jobs EXCEPT ![j] = [jobs[j] EXCEPT !.status = "queued", !.attempts = 0]]
    BY <1>5, <1>t DEF Retry, TypeOK, Table
  <2>4. jobs' \in Table
    BY <1>t, <2>2, <2>3 DEF TypeOK, Table
  <2>5. waiting' \subseteq JobIds /\ retries' \in 0..MaxRetries
    BY <1>5, <1>t DEF Retry, TypeOK
  <2> QED BY <1>5, <1>t, <2>1, <2>4, <2>5 DEF Retry, TypeOK, workVars, fileVars
<1>6. ASSUME NEW w \in Writers, Snapshot(w) PROVE TypeOK'
  <2>1. io' \in [Writers -> IO]
    BY <1>6, <1>t, IOFacts DEF Snapshot, TypeOK
  <2>2. overlap' \in BOOLEAN
    BY <1>6, <1>t DEF Snapshot, TypeOK
  <2> QED BY <1>6, <1>t, <2>1, <2>2 DEF Snapshot, TypeOK, workVars, boundVars
<1>7. ASSUME NEW w \in Writers, OpenTmp(w) PROVE TypeOK'
  <2>1. [io[w] EXCEPT !.pc = "write", !.on = "tmp"] \in IO
    BY <1>t, IOFacts DEF TypeOK
  <2>2. io' = [io EXCEPT ![w] = [io[w] EXCEPT !.pc = "write", !.on = "tmp"]]
    BY <1>7, <1>t DEF OpenTmp, TypeOK, IO
  <2>3. io' \in [Writers -> IO] /\ tmp' \in Content
    BY <1>7, <1>t, <2>1, <2>2 DEF OpenTmp, TypeOK, Content
  <2> QED BY <1>7, <1>t, <2>3 DEF OpenTmp, TypeOK, workVars, boundVars
<1>8. ASSUME NEW w \in Writers, WriteTmp(w) PROVE TypeOK'
  <2>1. [io[w] EXCEPT !.pc = "rename"] \in IO
    BY <1>t, IOFacts DEF TypeOK
  <2>2. io' \in [Writers -> IO]
    BY <1>8, <1>t, <2>1 DEF WriteTmp, TypeOK
  <2>4. io[w].snap \in Content
    <3>1. io[w] \in IO
      BY <1>t DEF TypeOK
    <3> QED BY <3>1 DEF IO, Content
  <2>3. tmp' \in Content /\ disk' \in Content
    BY <1>8, <1>t, <2>4 DEF WriteTmp, Written, TypeOK, Content
  <2> QED BY <1>8, <1>t, <2>2, <2>3 DEF WriteTmp, TypeOK, workVars, boundVars
<1>9. ASSUME NEW w \in Writers, Rename(w) PROVE TypeOK'
  <2>1. \A v \in Writers : [io[v] EXCEPT !.on = Moved(@)] \in IO
    BY <1>t, IOFacts DEF TypeOK
  <2>4. NoIO \in IO
    BY IOFacts
  <2>5. io' \in [Writers -> IO]
    <3>1. [io EXCEPT ![w] = NoIO] \in [Writers -> IO]
      BY <1>t, <2>4 DEF TypeOK
    <3>2. [v \in Writers |-> IF v = w THEN NoIO ELSE [io[v] EXCEPT !.on = Moved(@)]]
            \in [Writers -> IO]
      BY <2>1, <2>4
    <3> QED BY <1>9, <3>1, <3>2 DEF Rename
  <2>2. io' \in [Writers -> IO] /\ tmp' \in Content /\ disk' \in Content
    BY <1>9, <1>t, <2>5 DEF Rename, TypeOK, Content
  <2>3. /\ wpc' \in {"look", "asleep", "mark", "saveRunning", "ask", "settle", "saveOutcome"}
        /\ wjob' \in 0..MaxJobs /\ wseen' \in Nat
        /\ wake' \in BOOLEAN /\ call' \in [Callers -> Call]
    <3>1. CASE w = Worker
      BY <1>9, <1>t, <3>1 DEF Rename, Returned, TypeOK
    <3>2. CASE w # Worker
      <4>1. w \in Callers /\ NoCall \in Call
        BY <3>2, CallFacts DEF Writers
      <4>2. call' \in [Callers -> Call]
        BY <1>9, <1>t, <3>2, <4>1 DEF Rename, Returned, TypeOK
      <4>3. wake' \in BOOLEAN
        BY <1>9, <1>t, <3>2 DEF Rename, Returned, TypeOK
      <4> QED BY <1>9, <1>t, <3>2, <4>2, <4>3 DEF Rename, Returned, TypeOK
    <3> QED BY <3>1, <3>2
  <2> QED BY <1>9, <1>t, <2>2, <2>3 DEF Rename, TypeOK, boundVars
<1>10. ASSUME Look PROVE TypeOK'
  <2>1. /\ wpc' \in {"look", "asleep", "mark", "saveRunning", "ask", "settle", "saveOutcome"}
        /\ wjob' \in 0..MaxJobs /\ wseen' \in Nat
    BY <1>10, <1>t DEF Look, Ready, TypeOK, Table, Job, JobIds
  <2> QED BY <1>10, <1>t, <2>1 DEF Look, TypeOK, fileVars, boundVars
<1>11. ASSUME Woken \/ Tick PROVE TypeOK'
  BY <1>11, <1>t DEF Woken, Tick, TypeOK, fileVars, boundVars
<1>12. ASSUME MarkRunning PROVE TypeOK'
  <2>1. CASE wjob \in JobIds
    <3>1. [jobs[wjob] EXCEPT !.status = "running", !.attempts = @ + 1] \in Job
      BY <1>t, <2>1, JobFacts DEF TypeOK, Table
    <3>2. jobs' \in Table
      BY <1>12, <1>t, <3>1, UpdateFacts DEF MarkRunning, TypeOK
    <3>3. io' \in [Writers -> IO]
      BY <1>12, <1>t, IOFacts DEF MarkRunning, TypeOK, Writers
    <3> QED BY <1>12, <1>t, <3>2, <3>3 DEF MarkRunning, TypeOK, fileVars, boundVars
  <2> QED BY <1>12, <2>1 DEF IInv, PickedIsAsSeen, MarkRunning
<1>13. ASSUME NEW r \in Replies, Ask(r) PROVE TypeOK'
  <2>1. wjob \in JobIds
    BY <1>13 DEF IInv, PickedIsAsSeen, Ask
  <2>2. claims' \subseteq JobIds /\ wpass' \in {0, 1} /\ wreply' \in Reply \cup {"none"}
    BY <1>13, <1>t, <2>1 DEF Ask, TypeOK
  <2>3. wpc' \in {"look", "asleep", "mark", "saveRunning", "ask", "settle", "saveOutcome"}
    BY <1>13, <1>t DEF Ask, TypeOK
  <2> QED BY <1>13, <1>t, <2>2, <2>3 DEF Ask, TypeOK, fileVars, boundVars
<1>14. ASSUME Settle PROVE TypeOK'
  <2>1. wjob \in JobIds
    BY <1>14 DEF IInv, PickedIsAsSeen, Settle
  <2>2. \A s \in Status : [jobs[wjob] EXCEPT !.status = s] \in Job
    BY <1>t, <2>1, JobFacts DEF TypeOK, Table
  <2>3. \E s \in Status : Update([jobs[wjob] EXCEPT !.status = s])
    BY <1>14 DEF Settle, Status
  <2>4. jobs' \in Table
    BY <1>t, <2>2, <2>3, UpdateFacts DEF TypeOK
  <2>5. waiting' \subseteq JobIds
    BY <1>14, <1>t, <2>1 DEF Settle, TypeOK
  <2>6. io' \in [Writers -> IO]
    BY <1>14, <1>t, IOFacts DEF Settle, TypeOK, Writers
  <2> QED BY <1>14, <1>t, <2>4, <2>5, <2>6 DEF Settle, TypeOK, fileVars, boundVars
<1>15. ASSUME NEW j \in JobIds, BackoffElapses(j) PROVE TypeOK'
  BY <1>15, <1>t DEF BackoffElapses, TypeOK, workVars, fileVars, boundVars
<1>16. ASSUME Crash PROVE TypeOK'
  <2>1. jobs' \in Table
    BY <1>16, RecoverFacts DEF Crash
  <2>2. call' \in [Callers -> Call] /\ io' \in [Writers -> IO]
    BY <1>16, CallFacts, IOFacts DEF Crash
  <2>3. crashes' \in 0..MaxCrashes /\ waiting' \subseteq JobIds /\ wjob' \in 0..MaxJobs
    BY <1>16, <1>t DEF Crash, TypeOK
  <2> QED BY <1>16, <1>t, <2>1, <2>2, <2>3 DEF Crash, TypeOK, fileVars
<1>17. ASSUME UNCHANGED vars PROVE TypeOK'
  BY <1>17, <1>t DEF TypeOK, vars, fileVars, workVars, boundVars
<1> QED
  BY <1>1, <1>2, <1>3, <1>4, <1>5, <1>6, <1>7, <1>8, <1>9, <1>10, <1>11, <1>12, <1>13, <1>14,
     <1>15, <1>16, <1>17 DEF Next, Enqueue, Persist

-----------------------------------------------------------------------------
(* What the actions do to one slot of the table: a push fills its own slot  *)
(* and may trim finished ones.                                              *)
LEMMA PushSlot ==
  ASSUME TypeOK, NEW c \in Callers, EnqueuePush(c), NEW i \in JobIds
  PROVE  /\ i # call[c].job => \/ jobs'[i] = jobs[i]
                               \/ Finished(jobs[i]) /\ jobs'[i] = NoJob
         /\ i = call[c].job => /\ jobs'[i].status = "queued"
                               /\ jobs'[i].attempts = 0
<1> DEFINE new == [prompt |-> call[c].prompt, status |-> "queued", attempts |-> 0]
           t == [jobs EXCEPT ![call[c].job] = new]
<1>1. new \in Job
  BY DEF TypeOK, Call, Job, Status
<1>2. t \in Table /\ jobs' = Trim(t)
  BY <1>1 DEF EnqueuePush, TypeOK, Table
<1>3. jobs'[i] = t[i] \/ (Finished(t[i]) /\ jobs'[i] = NoJob)
  BY <1>2, TrimFacts
<1>4. t[i] = IF i = call[c].job THEN new ELSE jobs[i]
  BY DEF TypeOK, Table
<1>5. ~Finished(new)
  BY DEF Finished
<1> QED BY <1>3, <1>4, <1>5

(* A retry touches only the slot it reopens, which becomes queued.          *)
LEMMA RetrySlot ==
  ASSUME TypeOK, NEW c \in Callers, NEW j \in JobIds, Retry(c, j), NEW i \in JobIds
  PROVE  /\ i # j => jobs'[i] = jobs[i]
         /\ jobs'[j].status = "queued"
         /\ jobs[j].status \in {"refused", "failed"}
<1>1. jobs[j] \in Job
  BY DEF TypeOK, Table
<1>2. [jobs[j] EXCEPT !.status = "queued", !.attempts = 0].status = "queued"
  BY <1>1 DEF Job
<1>3. jobs' = [jobs EXCEPT ![j] = [jobs[j] EXCEPT !.status = "queued", !.attempts = 0]]
  BY DEF Retry, TypeOK, Table
<1> QED BY <1>2, <1>3 DEF Retry, Reopenable, TypeOK, Table

(* Marking touches at most the picked job, and only while it is there.      *)
LEMMA MarkSlot ==
  ASSUME TypeOK, wjob \in JobIds, MarkRunning, NEW i \in JobIds
  PROVE  \/ i # wjob /\ jobs'[i] = jobs[i]
         \/ i = wjob /\ jobs[i].status = "absent" /\ jobs'[i] = jobs[i]
         \/ /\ i = wjob /\ jobs[i].status # "absent"
            /\ jobs'[i].status = "running" /\ jobs'[i].attempts = jobs[i].attempts + 1
<1> DEFINE b == [jobs[wjob] EXCEPT !.status = "running", !.attempts = jobs[wjob].attempts + 1]
<1>1. jobs[wjob] \in Job
  BY DEF TypeOK, Table
<1>2. b \in Job
  BY <1>1, JobFacts
<1>3. b.status = "running" /\ b.attempts = jobs[wjob].attempts + 1
  BY <1>1 DEF Job
<1>4. Update(b)
  BY DEF MarkRunning
<1> HIDE DEF b
<1> QED BY <1>2, <1>3, <1>4, UpdateFacts DEF TypeOK

(* Settling touches at most the worker's job, which stops being running.    *)
LEMMA SettleSlot ==
  ASSUME TypeOK, wjob \in JobIds, Settle, NEW i \in JobIds
  PROVE  \/ i # wjob /\ jobs'[i] = jobs[i]
         \/ i = wjob /\ jobs[i].status = "absent" /\ jobs'[i] = jobs[i]
         \/ i = wjob /\ jobs[i].status # "absent" /\ jobs'[i].status # "running"
<1>1. jobs[wjob] \in Job
  BY DEF TypeOK, Table
<1>2. PICK s \in {"committed", "refused", "failed", "queued"} :
        Update([jobs[wjob] EXCEPT !.status = s])
  BY DEF Settle
<1> DEFINE b == [jobs[wjob] EXCEPT !.status = s]
<1>3. b \in Job
  BY <1>1, JobFacts DEF Status
<1>4. b.status # "running"
  BY <1>1 DEF Job
<1>5. Update(b)
  BY <1>2
<1> HIDE DEF b
<1> QED BY <1>3, <1>4, <1>5, UpdateFacts DEF TypeOK

-----------------------------------------------------------------------------
(* One job at a time, step by step.                                         *)
LEMMA RunningStep == IInv /\ [Next]_vars => RunningIsWorkers'
<1> SUFFICES ASSUME IInv, [Next]_vars, NEW i \in JobIds, jobs'[i].status = "running"
             PROVE  /\ wpc' \in {"saveRunning", "ask", "settle"}
                    /\ wjob' = i
                    /\ jobs'[i].attempts = wseen' + 1
  BY DEF RunningIsWorkers
<1> DEFINE Held == /\ wpc' \in {"saveRunning", "ask", "settle"}
                   /\ wjob' = i
                   /\ jobs'[i].attempts = wseen' + 1
<1>t. /\ TypeOK
      /\ jobs[i].status = "running" => /\ wpc \in {"saveRunning", "ask", "settle"}
                                       /\ wjob = i
                                       /\ jobs[i].attempts = wseen + 1
      /\ PickedIsAsSeen
      /\ WorkerSaves
  BY DEF IInv, RunningIsWorkers
<1>1. ASSUME NEW c \in Callers, NEW p \in Prompts, EnqueueCheck(c, p) PROVE Held
  BY <1>1, <1>t DEF EnqueueCheck, workVars
<1>2. ASSUME NEW c \in Callers, EnqueuePush(c) PROVE Held
  <2>1. jobs'[i] = jobs[i]
    BY <1>2, <1>t, PushSlot DEF NoJob
  <2> QED BY <1>2, <1>t, <2>1 DEF EnqueuePush, workVars
<1>3. ASSUME NEW c \in Callers, Abandon(c) PROVE Held
  BY <1>3, <1>t DEF Abandon, workVars
<1>4. ASSUME NEW c \in Callers, NEW j \in JobIds, Remove(c, j) PROVE Held
  <2>1. i # j /\ jobs'[i] = jobs[i]
    BY <1>4, <1>t DEF Remove, NoJob, TypeOK, Table
  <2> QED BY <1>4, <1>t, <2>1 DEF Remove, workVars
<1>5. ASSUME NEW c \in Callers, NEW j \in JobIds, Retry(c, j) PROVE Held
  <2>1. jobs'[i] = jobs[i]
    BY <1>5, <1>t, RetrySlot
  <2> QED BY <1>5, <1>t, <2>1 DEF Retry, workVars
<1>6. ASSUME NEW w \in Writers, Snapshot(w) \/ OpenTmp(w) \/ WriteTmp(w) PROVE Held
  BY <1>6, <1>t DEF Snapshot, OpenTmp, WriteTmp, workVars
<1>7. ASSUME NEW w \in Writers, Rename(w) PROVE Held
  <2>1. UNCHANGED jobs
    BY <1>7 DEF Rename
  <2>2. CASE w = Worker
    BY <1>7, <1>t, <2>1, <2>2 DEF Rename, Returned, WorkerSaves
  <2>3. CASE w # Worker
    BY <1>7, <1>t, <2>1, <2>3 DEF Rename, Returned
  <2> QED BY <2>2, <2>3
<1>8. ASSUME Look \/ Woken \/ Tick PROVE Held
  BY <1>8, <1>t DEF Look, Woken, Tick
<1>9. ASSUME MarkRunning PROVE Held
  <2>1. wjob \in JobIds
    BY <1>9, <1>t DEF MarkRunning, PickedIsAsSeen
  <2>2. i = wjob /\ jobs[i].status # "absent" /\ jobs'[i].attempts = jobs[i].attempts + 1
    BY <1>9, <1>t, <2>1, MarkSlot DEF MarkRunning
  <2>3. jobs[i].attempts = wseen
    BY <1>9, <1>t, <2>2 DEF MarkRunning, PickedIsAsSeen
  <2> QED BY <1>9, <2>2, <2>3 DEF MarkRunning
<1>10. ASSUME NEW r \in Replies, Ask(r) PROVE Held
  BY <1>10, <1>t DEF Ask
<1>11. ASSUME Settle PROVE Held
  <2>1. wjob \in JobIds
    BY <1>11, <1>t DEF Settle, PickedIsAsSeen
  <2>2. jobs[i].status = "running" /\ i # wjob
    BY <1>11, <1>t, <2>1, SettleSlot
  <2> QED BY <1>t, <2>2
<1>12. ASSUME NEW j \in JobIds, BackoffElapses(j) PROVE Held
  BY <1>12, <1>t DEF BackoffElapses, workVars
<1>13. ASSUME Crash PROVE Held
  BY <1>13, RecoverFacts DEF Crash
<1>14. ASSUME UNCHANGED vars PROVE Held
  BY <1>14, <1>t DEF vars, workVars
<1> QED
  BY <1>1, <1>2, <1>3, <1>4, <1>5, <1>6, <1>7, <1>8, <1>9, <1>10, <1>11, <1>12, <1>13, <1>14
  DEF Next, Enqueue, Persist

(* Fresh ids stay fresh: every table a step writes is one that was there,   *)
(* or the old one with jobs changed that were in it or just handed out.     *)
LEMMA FreshStep == IInv /\ [Next]_vars => FreshIds'
<1> SUFFICES ASSUME IInv, [Next]_vars PROVE FreshIds'
  OBVIOUS
<1>t. TypeOK /\ PushedIsNew /\ PickedIsAsSeen /\ FreshIds
  BY DEF IInv
<1>n. nextId \in Nat /\ wjob \in Nat /\ JobIds \subseteq Nat
  BY <1>t, QueueAssumption DEF TypeOK, JobIds
<1>1. ASSUME NEW e \in Callers, NEW p \in Prompts, EnqueueCheck(e, p) PROVE FreshIds'
  <2>1. nextId' = nextId + 1 /\ UNCHANGED <<wjob, jobs, tmp, disk, io>>
    BY <1>1 DEF EnqueueCheck, workVars, fileVars
  <2>2. ASSUME NEW t, Fresh(t), NEW j \in JobIds, j >= nextId' PROVE t[j].status = "absent"
    BY <1>n, <2>1, <2>2 DEF Fresh
  <2>3. \A t : Fresh(t) => Fresh(t)'
    BY <2>2 DEF Fresh
  <2>4. wjob' < nextId'
    BY <1>t, <1>n, <2>1 DEF FreshIds
  <2> HIDE DEF Fresh
  <2> QED BY <1>t, <2>1, <2>3, <2>4 DEF FreshIds
<1>2. ASSUME NEW e \in Callers, EnqueuePush(e) PROVE FreshIds'
  <2>1. UNCHANGED <<nextId, wjob, tmp, disk>>
    BY <1>2 DEF EnqueuePush, workVars, fileVars
  <2>2. \A w \in Writers : io'[w] = io[w] \/ io'[w].snap = Missing
    BY <1>2, <1>t DEF EnqueuePush, TypeOK, Saving
  <2>3. ASSUME NEW j \in JobIds, j >= nextId PROVE jobs'[j].status = "absent"
    <3>1. j # call[e].job
      BY <1>2, <1>t, <1>n, <2>3 DEF EnqueuePush, PushedIsNew
    <3> QED BY <1>2, <1>t, <2>3, <3>1, PushSlot DEF FreshIds, Fresh, NoJob
  <2> QED BY <1>t, <2>1, <2>2, <2>3, QueueAssumption DEF FreshIds, Fresh
<1>3. ASSUME NEW e \in Callers, Abandon(e) PROVE FreshIds'
  <2>1. UNCHANGED <<nextId, wjob, jobs, tmp, disk>>
    BY <1>3 DEF Abandon, workVars, fileVars
  <2>2. \A w \in Writers : io'[w] = io[w] \/ io'[w].snap = Missing
    BY <1>3, <1>t DEF Abandon, TypeOK, NoIO
  <2> QED BY <1>t, <2>1, <2>2, QueueAssumption DEF FreshIds, Fresh
<1>4. ASSUME NEW e \in Callers, NEW j \in JobIds, Remove(e, j) PROVE FreshIds'
  <2>1. UNCHANGED <<nextId, wjob, tmp, disk>>
    BY <1>4 DEF Remove, workVars, fileVars
  <2>2. \A w \in Writers : io'[w] = io[w] \/ io'[w].snap = Missing
    BY <1>4, <1>t DEF Remove, TypeOK, Saving
  <2>3. \A i \in JobIds : jobs'[i] = jobs[i] \/ jobs'[i].status = "absent"
    BY <1>4, <1>t DEF Remove, NoJob, TypeOK, Table
  <2> QED BY <1>t, <2>1, <2>2, <2>3, QueueAssumption DEF FreshIds, Fresh
<1>5. ASSUME NEW e \in Callers, NEW j \in JobIds, Retry(e, j) PROVE FreshIds'
  <2>1. UNCHANGED <<nextId, wjob, tmp, disk>>
    BY <1>5 DEF Retry, workVars, fileVars
  <2>2. \A w \in Writers : io'[w] = io[w] \/ io'[w].snap = Missing
    BY <1>5, <1>t DEF Retry, TypeOK, Saving
  <2>3. \A i \in JobIds : jobs'[i] = jobs[i] \/ jobs[i].status # "absent"
    BY <1>5, <1>t, RetrySlot
  <2> QED BY <1>t, <2>1, <2>2, <2>3, QueueAssumption DEF FreshIds, Fresh
<1>6. ASSUME NEW w \in Writers, Snapshot(w) PROVE FreshIds'
  <2>1. UNCHANGED <<nextId, wjob, jobs, tmp, disk>>
    BY <1>6 DEF Snapshot, workVars
  <2>2. \A v \in Writers : io'[v] = io[v] \/ io'[v].snap = jobs
    BY <1>6, <1>t DEF Snapshot, TypeOK
  <2> QED BY <1>t, <2>1, <2>2 DEF FreshIds, Fresh
<1>7. ASSUME NEW w \in Writers, OpenTmp(w) PROVE FreshIds'
  <2>1. UNCHANGED <<nextId, wjob, jobs, disk>> /\ tmp' = Blank
    BY <1>7 DEF OpenTmp, workVars
  <2>2. \A v \in Writers : io'[v].snap = io[v].snap
    BY <1>7, <1>t DEF OpenTmp, TypeOK, IO
  <2> QED BY <1>t, <2>1, <2>2, QueueAssumption DEF FreshIds, Fresh
<1>8. ASSUME NEW w \in Writers, WriteTmp(w) PROVE FreshIds'
  <2>1. UNCHANGED <<nextId, wjob, jobs>>
    BY <1>8 DEF WriteTmp, workVars
  <2>2. \A v \in Writers : io'[v].snap = io[v].snap
    BY <1>8, <1>t DEF WriteTmp, TypeOK, IO
  <2>3. tmp' \in {tmp, io[w].snap, Torn} /\ disk' \in {disk, io[w].snap, Torn}
    BY <1>8 DEF WriteTmp, Written
  <2> QED BY <1>t, <2>1, <2>2, <2>3, QueueAssumption DEF FreshIds, Fresh
<1>9. ASSUME NEW w \in Writers, Rename(w) PROVE FreshIds'
  <2>1. UNCHANGED <<nextId, jobs>> /\ wjob' \in {wjob, 0}
    BY <1>9 DEF Rename, Returned
  <2>2. \A v \in Writers : io'[v].snap \in {io[v].snap, Missing}
    BY <1>9, <1>t DEF Rename, NoIO, TypeOK, IO
  <2>3. tmp' \in {tmp, Missing} /\ disk' \in {disk, tmp}
    BY <1>9 DEF Rename
  <2>4. wjob' < nextId'
    BY <1>t, <1>n, <2>1 DEF FreshIds, TypeOK
  <2> QED BY <1>t, <2>1, <2>2, <2>3, <2>4, QueueAssumption DEF FreshIds, Fresh
<1>10. ASSUME Look PROVE FreshIds'
  <2>1. UNCHANGED <<nextId, jobs, tmp, disk, io>>
    BY <1>10 DEF Look, fileVars
  <2>2. wjob' < nextId'
    BY <1>10, <1>t, <1>n DEF Look, Ready, FreshIds, Fresh
  <2> QED BY <1>t, <2>1, <2>2 DEF FreshIds, Fresh
<1>11. ASSUME Woken \/ Tick \/ (\E r \in Replies : Ask(r)) \/ (\E j \in JobIds : BackoffElapses(j))
              \/ UNCHANGED vars
       PROVE  FreshIds'
  <2>1. UNCHANGED <<nextId, wjob, jobs, tmp, disk, io>>
    BY <1>11 DEF Woken, Tick, Ask, BackoffElapses, vars, fileVars, workVars
  <2> QED BY <1>t, <2>1 DEF FreshIds, Fresh
<1>12. ASSUME MarkRunning \/ Settle PROVE FreshIds'
  <2>1. UNCHANGED <<nextId, wjob, tmp, disk>>
    BY <1>12 DEF MarkRunning, Settle, fileVars
  <2>2. \A w \in Writers : io'[w] = io[w] \/ io'[w].snap = Missing
    BY <1>12, <1>t DEF MarkRunning, Settle, TypeOK, Saving
  <2>3. wjob \in JobIds
    BY <1>12, <1>t DEF MarkRunning, Settle, PickedIsAsSeen
  <2>4. \A i \in JobIds : jobs[i].status = "absent" => jobs'[i] = jobs[i]
    BY <1>12, <1>t, <2>3, MarkSlot, SettleSlot
  <2> QED BY <1>t, <2>1, <2>2, <2>4, QueueAssumption DEF FreshIds, Fresh
<1>13. ASSUME Crash PROVE FreshIds'
  <2>1. UNCHANGED <<nextId, tmp, disk>> /\ wjob' = 0 /\ \A w \in Writers : io'[w].snap = Missing
    BY <1>13 DEF Crash, fileVars, NoIO
  <2>2. \A j \in JobIds : j >= nextId => jobs'[j].status = "absent"
    BY <1>13, <1>t, RecoverFacts DEF Crash, FreshIds, Fresh
  <2> QED BY <1>t, <1>n, <2>1, <2>2, QueueAssumption DEF FreshIds, Fresh, TypeOK
<1> QED
  BY <1>1, <1>2, <1>3, <1>4, <1>5, <1>6, <1>7, <1>8, <1>9, <1>10, <1>11, <1>12, <1>13
  DEF Next, Enqueue, Persist

(* What a handler is about to push stays its own: no step fills its slot,   *)
(* hands out its id again or gives its job to the worker.                   *)
LEMMA PushedStep == IInv /\ [Next]_vars => PushedIsNew'
<1> DEFINE New(c) == /\ call'[c].job \in JobIds
                     /\ call'[c].job < nextId'
                     /\ call'[c].job # wjob'
                     /\ jobs'[call'[c].job].status = "absent"
                     /\ \A d \in Callers : call'[d].pc = "push" /\ d # c =>
                          call'[d].job # call'[c].job
<1> SUFFICES ASSUME IInv, [Next]_vars, NEW c \in Callers, call'[c].pc = "push"
             PROVE  New(c)
  BY DEF PushedIsNew
<1>t. TypeOK /\ PushedIsNew /\ PickedIsAsSeen /\ FreshIds
  BY DEF IInv
<1>n. nextId \in Nat /\ wjob \in Nat /\ JobIds \subseteq Nat
  BY <1>t, QueueAssumption DEF TypeOK, JobIds
<1>1. ASSUME NEW e \in Callers, NEW p \in Prompts, EnqueueCheck(e, p) PROVE New(c)
  <2>1. nextId \in JobIds /\ nextId' = nextId + 1 /\ UNCHANGED <<jobs, wjob>>
    BY <1>1, <1>t, QueueAssumption DEF EnqueueCheck, TypeOK, JobIds, workVars
  <2>2. wjob # nextId /\ jobs[nextId].status = "absent"
    BY <1>t, <1>n, <2>1 DEF FreshIds, Fresh
  <2>3. \A d \in Callers : call'[d] = IF d = e THEN [pc |-> "push", prompt |-> p, job |-> nextId]
                                       ELSE call[d]
    BY <1>1, <1>t DEF EnqueueCheck, TypeOK
  <2>4. CASE c = e
    BY <1>t, <1>n, <2>1, <2>2, <2>3, <2>4 DEF PushedIsNew
  <2>5. CASE c # e
    <3>1. call'[c] = call[c] /\ call[c].pc = "push"
      BY <2>3, <2>5
    <3>2. call[c].job \in Nat /\ call[c].job < nextId
      BY <1>t, <1>n, <3>1 DEF PushedIsNew
    <3>3. ASSUME NEW d \in Callers, call'[d].pc = "push", d # c
          PROVE  call'[d].job # call'[c].job
      <4>1. CASE d = e
        BY <1>n, <2>3, <3>1, <3>2, <4>1
      <4>2. CASE d # e
        BY <1>t, <2>3, <3>1, <3>3, <4>2 DEF PushedIsNew
      <4> QED BY <4>1, <4>2
    <3> QED BY <1>t, <1>n, <2>1, <3>1, <3>2, <3>3 DEF PushedIsNew
  <2> QED BY <2>4, <2>5
(* Every other step starts no push: what it leaves pending was pending.     *)
<1> DEFINE Fewer == /\ \A d \in Callers : call'[d].pc = "push" => call'[d] = call[d]
                    /\ UNCHANGED nextId
                    /\ wjob' \in {wjob, 0} \/ jobs[wjob'].status # "absent"
                    /\ \A d \in Callers :
                         call'[d].pc = "push" /\ jobs[call[d].job].status = "absent"
                           => jobs'[call[d].job].status = "absent"
<1>2. ASSUME Fewer PROVE New(c)
  <2>1. call'[c] = call[c] /\ call[c].pc = "push"
    BY <1>2
  <2>2. call[c].job \in JobIds /\ call[c].job # 0
    BY <1>t, <2>1 DEF PushedIsNew, JobIds
  <2> QED BY <1>2, <1>t, <2>1, <2>2 DEF PushedIsNew
<1>3. ASSUME NEW e \in Callers, EnqueuePush(e) PROVE Fewer
  <2>1. \A d \in Callers : d # e => call'[d] = call[d]
    BY <1>3, <1>t DEF EnqueuePush, TypeOK
  <2>2. call'[e].pc = "saveWake"
    BY <1>3, <1>t DEF EnqueuePush, TypeOK, Call
  <2>3. ASSUME NEW d \in Callers, call'[d].pc = "push" PROVE jobs'[call[d].job].status = "absent"
    <3>1. d # e /\ call[d].pc = "push" /\ call[e].pc = "push"
      BY <1>3, <2>1, <2>2, <2>3 DEF EnqueuePush
    <3>2. /\ call[d].job # call[e].job /\ call[d].job \in JobIds
          /\ jobs[call[d].job].status = "absent"
      BY <1>t, <3>1 DEF PushedIsNew
    <3> QED BY <1>3, <1>t, <3>2, PushSlot DEF NoJob
  <2> QED BY <1>3, <2>1, <2>2, <2>3 DEF EnqueuePush, workVars
<1>4. ASSUME NEW e \in Callers, Abandon(e) PROVE Fewer
  <2>1. \A d \in Callers : call'[d] = call[d] \/ call'[d].pc = "idle"
    BY <1>4, <1>t DEF Abandon, TypeOK, NoCall
  <2> QED BY <1>4, <2>1 DEF Abandon, workVars
<1>5. ASSUME NEW e \in Callers, NEW j \in JobIds, Remove(e, j) PROVE Fewer
  <2>1. \A d \in Callers : call'[d] = call[d] \/ call'[d].pc = "save"
    BY <1>5, <1>t DEF Remove, TypeOK, Call
  <2>2. \A i \in JobIds : jobs[i].status = "absent" => jobs'[i].status = "absent"
    BY <1>5, <1>t DEF Remove, TypeOK, Table, NoJob
  <2>3. \A d \in Callers : call'[d].pc = "push" => call[d].job \in JobIds
    BY <1>t, <2>1 DEF PushedIsNew
  <2> QED BY <1>5, <2>1, <2>2, <2>3 DEF Remove, workVars
<1>6. ASSUME NEW e \in Callers, NEW j \in JobIds, Retry(e, j) PROVE Fewer
  <2>1. \A d \in Callers : call'[d] = call[d] \/ call'[d].pc = "saveWake"
    BY <1>6, <1>t DEF Retry, TypeOK, Call
  <2>2. \A i \in JobIds : jobs[i].status = "absent" => jobs'[i].status = "absent"
    BY <1>6, <1>t, RetrySlot
  <2>3. \A d \in Callers : call'[d].pc = "push" => call[d].job \in JobIds
    BY <1>t, <2>1 DEF PushedIsNew
  <2> QED BY <1>6, <2>1, <2>2, <2>3 DEF Retry, workVars
<1>7. ASSUME NEW w \in Writers, Snapshot(w) \/ OpenTmp(w) \/ WriteTmp(w) PROVE Fewer
  BY <1>7 DEF Snapshot, OpenTmp, WriteTmp, workVars
<1>8. ASSUME NEW w \in Writers, Rename(w) PROVE Fewer
  <2>1. \A d \in Callers : call'[d] = call[d] \/ call'[d].pc = "idle"
    BY <1>8, <1>t DEF Rename, Returned, TypeOK, NoCall
  <2> QED BY <1>8, <2>1 DEF Rename, Returned
<1>9. ASSUME Look PROVE Fewer
  BY <1>9 DEF Look, Ready
<1>10. ASSUME Woken \/ Tick \/ (\E r \in Replies : Ask(r)) \/ (\E j \in JobIds : BackoffElapses(j))
              \/ UNCHANGED vars
       PROVE  Fewer
  BY <1>10 DEF Woken, Tick, Ask, BackoffElapses, vars, workVars
<1>11. ASSUME MarkRunning \/ Settle PROVE Fewer
  <2>1. wjob \in JobIds
    BY <1>11, <1>t DEF MarkRunning, Settle, PickedIsAsSeen
  <2>2. \A i \in JobIds : jobs[i].status = "absent" => jobs'[i].status = "absent"
    BY <1>11, <1>t, <2>1, MarkSlot, SettleSlot
  <2>3. \A d \in Callers : call[d].pc = "push" => call[d].job \in JobIds
    BY <1>t DEF PushedIsNew
  <2>4. UNCHANGED <<call, nextId, wjob>>
    BY <1>11 DEF MarkRunning, Settle
  <2> QED BY <2>2, <2>3, <2>4
<1>12. ASSUME Crash PROVE Fewer
  BY <1>12 DEF Crash, NoCall
<1> QED
  BY <1>1, <1>2, <1>3, <1>4, <1>5, <1>6, <1>7, <1>8, <1>9, <1>10, <1>11, <1>12
  DEF Next, Enqueue, Persist

(* Between the pick and the mark only a drop can touch the worker's job.    *)
LEMMA PickedStep == IInv /\ [Next]_vars => PickedIsAsSeen' /\ WorkerSaves'
<1> SUFFICES ASSUME IInv, [Next]_vars PROVE PickedIsAsSeen' /\ WorkerSaves'
  OBVIOUS
<1>t. TypeOK /\ PushedIsNew /\ PickedIsAsSeen /\ WorkerSaves
  BY DEF IInv
<1>w. Worker \notin Callers /\ Worker \in Writers
  BY QueueAssumption DEF Writers
(* Steps that leave the worker and its save alone, and the picked job if    *)
(* the worker is about to mark it.                                          *)
<1> DEFINE Apart == /\ UNCHANGED <<wpc, wjob, wseen, io[Worker].pc>>
                    /\ wpc = "mark" => \/ jobs'[wjob] = jobs[wjob]
                                       \/ jobs'[wjob].status = "absent"
<1>1. ASSUME Apart PROVE PickedIsAsSeen' /\ WorkerSaves'
  BY <1>1, <1>t DEF PickedIsAsSeen, WorkerSaves
<1>2. ASSUME NEW e \in Callers, NEW p \in Prompts, EnqueueCheck(e, p) PROVE Apart
  BY <1>2 DEF EnqueueCheck, workVars
<1>3. ASSUME NEW e \in Callers, EnqueuePush(e) PROVE Apart
  <2>1. wjob # call[e].job
    BY <1>3, <1>t DEF EnqueuePush, PushedIsNew
  <2>2. wjob \in JobIds => jobs'[wjob] = jobs[wjob] \/ jobs'[wjob].status = "absent"
    BY <1>3, <1>t, <2>1, PushSlot DEF NoJob
  <2>3. io'[Worker] = io[Worker]
    BY <1>3, <1>t, <1>w DEF EnqueuePush, TypeOK
  <2> QED BY <1>3, <1>t, <2>2, <2>3 DEF EnqueuePush, workVars, PickedIsAsSeen
<1>4. ASSUME NEW e \in Callers, Abandon(e) PROVE Apart
  BY <1>4, <1>t, <1>w DEF Abandon, workVars, TypeOK
<1>5. ASSUME NEW e \in Callers, NEW j \in JobIds, Remove(e, j) PROVE Apart
  <2>1. wjob \in JobIds => jobs'[wjob] = jobs[wjob] \/ jobs'[wjob].status = "absent"
    BY <1>5, <1>t DEF Remove, NoJob, TypeOK, Table
  <2> QED BY <1>5, <1>t, <1>w, <2>1 DEF Remove, workVars, TypeOK, PickedIsAsSeen
<1>6. ASSUME NEW e \in Callers, NEW j \in JobIds, Retry(e, j) PROVE Apart
  <2>1. wpc = "mark" => wjob \in JobIds /\ wjob # j
    BY <1>6, <1>t, RetrySlot DEF PickedIsAsSeen
  <2>2. wpc = "mark" => jobs'[wjob] = jobs[wjob]
    BY <1>6, <1>t, <2>1, RetrySlot
  <2> QED BY <1>6, <1>t, <1>w, <2>2 DEF Retry, workVars, TypeOK
<1>7. ASSUME NEW w \in Writers, Snapshot(w) \/ OpenTmp(w) \/ WriteTmp(w)
      PROVE  PickedIsAsSeen' /\ WorkerSaves'
  <2>1. UNCHANGED <<jobs, wpc, wjob, wseen>>
    BY <1>7 DEF Snapshot, OpenTmp, WriteTmp, workVars
  <2>2. io[w].pc # "none" /\ \A v \in Writers : v # w => io'[v] = io[v]
    BY <1>7, <1>t DEF Snapshot, OpenTmp, WriteTmp, TypeOK
  <2> QED BY <1>t, <1>w, <2>1, <2>2 DEF PickedIsAsSeen, WorkerSaves
<1>8. ASSUME NEW w \in Writers, Rename(w) PROVE PickedIsAsSeen' /\ WorkerSaves'
  <2>1. UNCHANGED jobs /\ io'[w].pc = "none"
    BY <1>8, <1>t DEF Rename, NoIO, TypeOK
  <2>2. \A v \in Writers : v # w => io'[v].pc = io[v].pc
    BY <1>8, <1>t DEF Rename, TypeOK, IO
  <2>3. CASE w = Worker
    <3>1. wpc \in {"saveRunning", "saveOutcome"} /\ wpc' \in {"ask", "look"}
      BY <1>8, <1>t, <2>3 DEF Rename, Returned, WorkerSaves
    <3>2. wpc' = "ask" => UNCHANGED wjob
      BY <1>8, <2>3 DEF Rename, Returned
    <3> QED BY <1>8, <1>t, <2>1, <2>3, <3>1, <3>2 DEF PickedIsAsSeen, WorkerSaves, Rename, Returned
  <2>4. CASE w # Worker
    <3>1. UNCHANGED <<wpc, wjob, wseen>>
      BY <1>8, <2>4 DEF Rename, Returned
    <3> QED BY <1>t, <1>w, <2>1, <2>2, <2>4, <3>1 DEF PickedIsAsSeen, WorkerSaves
  <2> QED BY <2>3, <2>4
<1>9. ASSUME Look PROVE PickedIsAsSeen' /\ WorkerSaves'
  BY <1>9, <1>t DEF Look, Ready, PickedIsAsSeen, WorkerSaves
<1>10. ASSUME Woken \/ Tick PROVE PickedIsAsSeen' /\ WorkerSaves'
  BY <1>10, <1>t DEF Woken, Tick, PickedIsAsSeen, WorkerSaves
<1>11. ASSUME MarkRunning \/ Settle PROVE PickedIsAsSeen' /\ WorkerSaves'
  BY <1>11, <1>t DEF MarkRunning, Settle, PickedIsAsSeen, WorkerSaves
<1>12. ASSUME NEW r \in Replies, Ask(r) PROVE PickedIsAsSeen' /\ WorkerSaves'
  BY <1>12, <1>t DEF Ask, PickedIsAsSeen, WorkerSaves
<1>13. ASSUME NEW j \in JobIds, BackoffElapses(j) PROVE Apart
  BY <1>13 DEF BackoffElapses, workVars
<1>14. ASSUME Crash PROVE PickedIsAsSeen' /\ WorkerSaves'
  BY <1>14, <1>w DEF Crash, NoIO, PickedIsAsSeen, WorkerSaves
<1>15. ASSUME UNCHANGED vars PROVE Apart
  BY <1>15 DEF vars, workVars
<1> QED
  BY <1>1, <1>2, <1>3, <1>4, <1>5, <1>6, <1>7, <1>8, <1>9, <1>10, <1>11, <1>12, <1>13, <1>14, <1>15
  DEF Next, Enqueue, Persist

-----------------------------------------------------------------------------

(* The invariant holds at the start and is kept by every step.              *)
THEOREM Inductive == Spec => []IInv
<1>1. IInv /\ [Next]_vars => IInv'
  BY TypeStep, RunningStep, PushedStep, PickedStep, FreshStep DEF IInv
<1> QED BY InitInv, <1>1, PTL DEF Spec

(* Every variable keeps its type.                                           *)
THEOREM TypeCorrect == Spec => []TypeOK
<1>1. IInv => TypeOK
  BY DEF IInv
<1> QED BY Inductive, <1>1, PTL

(* One job at a time, for any number of handlers, jobs and crashes: what    *)
(* the table calls running is the worker's job, and its attempts are the    *)
(* clone's and one more (spawn_worker, remove, open).                       *)
THEOREM OneJobAtATime == Spec => []RunningIsWorkers
<1>1. IInv => RunningIsWorkers
  BY DEF IInv
<1> QED BY Inductive, <1>1, PTL
-----------------------------------------------------------------------------
(* The second invariant: what the table says of a job is so.                *)

(* From the mark to the outcome nobody else touches the worker's job.       *)
HeldIsRunning ==
  wpc \in {"saveRunning", "ask", "settle"} => jobs[wjob].status \in {"running", "absent"}

(* What is about to be settled was answered by the gateway, and a claim was *)
(* committed before it said so.                                             *)
AnsweredIsClaimed ==
  wpc = "settle" => wreply \in Replies /\ (wreply = "committed" => wjob \in claims)

(* The tables a restart may come back to, and the one in memory.            *)
Tables == {jobs, tmp, disk} \cup {io[w].snap : w \in Writers}

(* Each counts the tries of a job as they were made, and calls committed    *)
(* only what a claim exists for.                                            *)
Counted(t) ==
  \A j \in JobIds :
    /\ t[j].attempts <= MaxAttempts + crashes
    /\ t[j].status = "queued" => t[j].attempts < MaxAttempts + crashes
    /\ t[j].status = "failed" => t[j].attempts >= MaxAttempts
Claimed(t) == \A j \in JobIds : t[j].status = "committed" => j \in claims

TablesCounted == \A t \in Tables : t \in Table => Counted(t)
TablesClaimed == "block" \notin Replies => \A t \in Tables : t \in Table => Claimed(t)

(* A backoff is of a job that was tried, and never of one being pushed.     *)
WaitingWasTried ==
  /\ \A j \in waiting : /\ j < nextId
                        /\ jobs[j].status = "queued" => jobs[j].attempts > 0
  /\ \A c \in Callers : call[c].pc = "push" => call[c].job \notin waiting

(* While persists do not overlap, one task at most is past its snapshot, it *)
(* writes the tmp alone, and what it will leave is whole; short of hang-ups *)
(* somebody has yet to save whatever the file lacks.                        *)
Past(w) == io[w].pc \in {"open", "write", "rename"}
AloneOnTmp ==
  /\ \A v, w \in Writers : Past(v) /\ Past(w) => v = w
  /\ \A w \in Writers :
       /\ Past(w) => io[w].snap \in Table
       /\ io[w].pc = "write"  => io[w].on = "tmp" /\ tmp = Blank
       /\ io[w].pc = "rename" => tmp = io[w].snap
SomebodySaves ==
  \/ Saved /\ \A w \in Writers : ~Past(w)
  \/ \E w \in Writers : io[w].pc = "snap"
  \/ \E w \in Writers : Past(w) /\ Recover(io[w].snap) = Recover(jobs)
LoneSaves ==
  ~overlap => /\ AloneOnTmp
              /\ disk \in Table \cup {Missing}
              /\ hangups = 0 => SomebodySaves

JInv == /\ HeldIsRunning /\ AnsweredIsClaimed /\ TablesCounted /\ TablesClaimed
        /\ WaitingWasTried /\ NoLostWakeup /\ LoneSaves
-----------------------------------------------------------------------------
(* From the mark to the outcome the worker's job is running or gone, and    *)
(* what is to be settled was answered.                                      *)
LEMMA HeldStep ==
  ASSUME IInv, HeldIsRunning, AnsweredIsClaimed, [Next]_vars
  PROVE  HeldIsRunning' /\ AnsweredIsClaimed'
<1>t. /\ TypeOK /\ RunningIsWorkers /\ PushedIsNew /\ PickedIsAsSeen /\ WorkerSaves
      /\ HeldIsRunning /\ AnsweredIsClaimed
  BY DEF IInv
<1> DEFINE Kept == /\ UNCHANGED <<wpc, wjob, wreply, claims>>
                   /\ jobs'[wjob].status = jobs[wjob].status
                        \/ (wpc \in {"saveRunning", "ask", "settle"} => jobs'[wjob].status \in {"running", "absent"})
<1>0. ASSUME Kept PROVE HeldIsRunning' /\ AnsweredIsClaimed'
  BY <1>0, <1>t DEF HeldIsRunning, AnsweredIsClaimed
<1>j. wpc \in {"saveRunning", "ask", "settle"} => wjob \in JobIds
  BY <1>t DEF PickedIsAsSeen
<1>1. ASSUME NEW e \in Callers, NEW p \in Prompts, EnqueueCheck(e, p) PROVE Kept
  BY <1>1 DEF EnqueueCheck, workVars
<1>2. ASSUME NEW e \in Callers, EnqueuePush(e) PROVE Kept
  <2>1. wjob # call[e].job
    BY <1>2, <1>t DEF EnqueuePush, PushedIsNew
  <2>2. wjob \in JobIds => jobs'[wjob] = jobs[wjob] \/ jobs'[wjob].status = "absent"
    BY <1>2, <1>t, <2>1, PushSlot DEF NoJob
  <2> QED BY <1>2, <1>j, <2>2 DEF EnqueuePush, workVars
<1>3. ASSUME NEW e \in Callers, Abandon(e) PROVE Kept
  BY <1>3 DEF Abandon, workVars
<1>4. ASSUME NEW e \in Callers, NEW j \in JobIds, Remove(e, j) PROVE Kept
  <2>1. wjob \in JobIds => jobs'[wjob] = jobs[wjob] \/ jobs'[wjob].status = "absent"
    BY <1>4, <1>t DEF Remove, NoJob, TypeOK, Table
  <2> QED BY <1>4, <1>j, <2>1 DEF Remove, workVars
<1>5. ASSUME NEW e \in Callers, NEW j \in JobIds, Retry(e, j) PROVE Kept
  <2>1. wpc \in {"saveRunning", "ask", "settle"} => wjob # j
    BY <1>5, <1>t, <1>j, RetrySlot DEF HeldIsRunning
  <2> QED BY <1>5, <1>t, <1>j, <2>1, RetrySlot DEF Retry, workVars, HeldIsRunning
<1>6. ASSUME NEW w \in Writers, Snapshot(w) \/ OpenTmp(w) \/ WriteTmp(w) PROVE Kept
  BY <1>6 DEF Snapshot, OpenTmp, WriteTmp, workVars
<1>7. ASSUME NEW w \in Writers, Rename(w) PROVE HeldIsRunning' /\ AnsweredIsClaimed'
  <2>1. UNCHANGED <<jobs, wreply, claims>>
    BY <1>7 DEF Rename
  <2>2. CASE w = Worker
    <3>1. io[Worker].pc # "none"
      BY <1>7, <2>2 DEF Rename
    <3>2. (wpc = "saveRunning" /\ wpc' = "ask" /\ wjob' = wjob) \/ wpc' = "look"
      BY <1>7, <2>2 DEF Rename, Returned
    <3> QED BY <1>t, <2>1, <3>2 DEF HeldIsRunning, AnsweredIsClaimed
  <2>3. CASE w # Worker
    BY <1>7, <1>t, <2>1, <2>3 DEF Rename, Returned, HeldIsRunning, AnsweredIsClaimed
  <2> QED BY <2>2, <2>3
<1>8. ASSUME Look \/ Woken \/ Tick PROVE HeldIsRunning' /\ AnsweredIsClaimed'
  BY <1>8 DEF Look, Woken, Tick, HeldIsRunning, AnsweredIsClaimed
<1>9. ASSUME MarkRunning PROVE HeldIsRunning' /\ AnsweredIsClaimed'
  <2>1. wjob \in JobIds /\ UNCHANGED wjob /\ wpc' = "saveRunning"
    BY <1>9, <1>t DEF MarkRunning, PickedIsAsSeen
  <2>2. jobs'[wjob].status \in {"running", "absent"}
    BY <1>9, <1>t, <2>1, MarkSlot
  <2> QED BY <2>1, <2>2 DEF HeldIsRunning, AnsweredIsClaimed
<1>10. ASSUME NEW r \in Replies, Ask(r) PROVE HeldIsRunning' /\ AnsweredIsClaimed'
  BY <1>10, <1>t DEF Ask, HeldIsRunning, AnsweredIsClaimed
<1>11. ASSUME Settle PROVE HeldIsRunning' /\ AnsweredIsClaimed'
  BY <1>11 DEF Settle, HeldIsRunning, AnsweredIsClaimed
<1>12. ASSUME NEW j \in JobIds, BackoffElapses(j) PROVE Kept
  BY <1>12 DEF BackoffElapses, workVars
<1>13. ASSUME Crash PROVE HeldIsRunning' /\ AnsweredIsClaimed'
  BY <1>13 DEF Crash, HeldIsRunning, AnsweredIsClaimed
<1>14. ASSUME UNCHANGED vars PROVE Kept
  BY <1>14 DEF vars, workVars
<1> HIDE DEF Kept
<1> QED
  BY <1>0, <1>1, <1>2, <1>3, <1>4, <1>5, <1>6, <1>7, <1>8, <1>9, <1>10, <1>11, <1>12, <1>13, <1>14
  DEF Next, Enqueue, Persist

-----------------------------------------------------------------------------
(* Every way a step can leave a slot of the table.                          *)
Dropped(i)  == jobs'[i].status = "absent" /\ jobs'[i].attempts = 0
Anew(i)     == jobs'[i].status = "queued" /\ jobs'[i].attempts = 0
Marked(i)   == /\ jobs[i].status = "queued" /\ jobs'[i].status = "running"
               /\ jobs'[i].attempts = jobs[i].attempts + 1
Settled(i)  == /\ wpc = "settle" /\ i = wjob /\ jobs[i].status = "running"
               /\ jobs'[i].attempts = wseen + 1
               /\ \/ jobs'[i].status = "committed" /\ Outcome(wreply) = "done"
                  \/ jobs'[i].status = "refused"
                  \/ jobs'[i].status = "failed" /\ GiveUp
                  \/ jobs'[i].status = "queued" /\ ~GiveUp
Reopened(i) == crashes' = crashes + 1 /\ jobs'[i] = Recover(disk)[i]

(* An outcome changes the worker's job only, and to what it says.           *)
LEMMA SettleSays ==
  ASSUME TypeOK, RunningIsWorkers, HeldIsRunning, wjob \in JobIds, Settle, NEW i \in JobIds
  PROVE  jobs'[i] = jobs[i] \/ Settled(i)
<1>1. jobs[wjob] \in Job
  BY DEF TypeOK, Table
<1>2. PICK s \in {"committed", "refused", "failed", "queued"} :
        /\ Update([jobs[wjob] EXCEPT !.status = s])
        /\ s = "committed" => Outcome(wreply) = "done"
        /\ s = "failed" => GiveUp
        /\ s = "queued" => ~GiveUp
  BY DEF Settle
<1> DEFINE b == [jobs[wjob] EXCEPT !.status = s]
<1>3. b \in Job
  BY <1>1, JobFacts DEF Status
<1>4. b.status = s /\ b.attempts = jobs[wjob].attempts
  BY <1>1 DEF Job
<1>5. Update(b)
  BY <1>2
<1> HIDE DEF b
<1>6. jobs'[i] = jobs[i] \/ (i = wjob /\ jobs[i].status # "absent" /\ jobs'[i] = b)
  BY <1>3, <1>5, UpdateFacts DEF TypeOK
<1>7. i = wjob /\ jobs[i].status # "absent" => jobs[i].status = "running" /\ jobs[i].attempts = wseen + 1
  BY DEF Settle, HeldIsRunning, RunningIsWorkers
<1> QED BY <1>2, <1>4, <1>6, <1>7 DEF Settled, Settle

(* So each slot is as it was or went one of these ways, a live job being     *)
(* dropped only by a handler, and while it is queued.                       *)
LEMMA SlotStep ==
  ASSUME IInv, HeldIsRunning, [Next]_vars, NEW i \in JobIds
  PROVE  \/ jobs'[i] = jobs[i]
         \/ /\ Dropped(i)
            /\ \/ Finished(jobs[i])
               \/ jobs[i].status = "queued" /\ \E c \in Callers : call[c] = NoCall /\ call'[c].pc = "save"
         \/ Anew(i) /\ jobs[i].status \in {"absent", "refused", "failed"}
         \/ Marked(i) \/ Settled(i) \/ Reopened(i)
<1> DEFINE Way == \/ jobs'[i] = jobs[i]
                  \/ /\ Dropped(i)
                     /\ \/ Finished(jobs[i])
                        \/ jobs[i].status = "queued" /\ \E c \in Callers : call[c] = NoCall /\ call'[c].pc = "save"
                  \/ Anew(i) /\ jobs[i].status \in {"absent", "refused", "failed"}
                  \/ Marked(i) \/ Settled(i) \/ Reopened(i)
<1>t. TypeOK /\ RunningIsWorkers /\ PushedIsNew /\ PickedIsAsSeen
  BY DEF IInv
<1>b. jobs[i] \in Job
  BY <1>t DEF TypeOK, Table
<1>1. ASSUME NEW c \in Callers, EnqueuePush(c) PROVE Way
  <2>1. i = call[c].job => jobs[i].status = "absent"
    BY <1>1, <1>t DEF EnqueuePush, PushedIsNew
  <2> QED BY <1>1, <1>t, <2>1, PushSlot DEF NoJob, Dropped, Anew
<1>2. ASSUME NEW c \in Callers, NEW j \in JobIds, Remove(c, j) PROVE Way
  <2>1. jobs' = [jobs EXCEPT ![j] = NoJob] /\ jobs[j].status \notin {"absent", "running"}
    BY <1>2 DEF Remove
  <2>2. call[c] = NoCall /\ call'[c].pc = "save"
    BY <1>2, <1>t DEF Remove, TypeOK, Call
  <2>3. i # j => jobs'[i] = jobs[i]
    BY <2>1, <1>t DEF TypeOK, Table
  <2>4. jobs'[j] = NoJob
    BY <2>1, <1>t DEF TypeOK, Table
  <2>5. i = j => Finished(jobs[i]) \/ jobs[i].status = "queued"
    BY <1>b, <2>1 DEF Job, Status, Finished
  <2> QED BY <2>2, <2>3, <2>4, <2>5 DEF NoJob, Dropped
<1>3. ASSUME NEW c \in Callers, NEW j \in JobIds, Retry(c, j) PROVE Way
  <2>1. jobs' = [jobs EXCEPT ![j] = [jobs[j] EXCEPT !.status = "queued", !.attempts = 0]]
    BY <1>3, <1>t DEF Retry, TypeOK, Table
  <2>2. i = j => jobs'[i].attempts = 0
    BY <1>b, <2>1, <1>t DEF TypeOK, Table, Job
  <2> QED BY <1>3, <1>t, <2>2, RetrySlot DEF Anew
<1>4. ASSUME MarkRunning PROVE Way
  <2>1. wjob \in JobIds /\ jobs[wjob].status \in {"absent", "queued"}
    BY <1>4, <1>t DEF MarkRunning, PickedIsAsSeen
  <2> QED BY <1>4, <1>t, <2>1, MarkSlot DEF Marked
<1>5. ASSUME Settle PROVE Way
  <2>1. wjob \in JobIds
    BY <1>5, <1>t DEF Settle, PickedIsAsSeen
  <2> QED BY <1>5, <1>t, <2>1, SettleSays
<1>6. ASSUME Crash PROVE Way
  BY <1>6 DEF Crash, Reopened
<1>7. ASSUME \/ UNCHANGED vars \/ Look \/ Woken \/ Tick
             \/ \E c \in Callers : Abandon(c) \/ \E p \in Prompts : EnqueueCheck(c, p)
             \/ \E w \in Writers : Persist(w)
             \/ \E r \in Replies : Ask(r)
             \/ \E j \in JobIds : BackoffElapses(j)
      PROVE  Way
  <2>1. UNCHANGED jobs
    BY <1>7 DEF vars, Look, Woken, Tick, Abandon, EnqueueCheck, Persist, Snapshot, OpenTmp, WriteTmp,
                Rename, Ask, BackoffElapses
  <2> QED BY <2>1
<1> HIDE DEF Way
<1>8. Way
  BY <1>1, <1>2, <1>3, <1>4, <1>5, <1>6, <1>7 DEF Next, Enqueue
<1> QED BY <1>8 DEF Way

(* A file and a snapshot hold no table but one that was there.              *)
LEMMA TablesStep ==
  ASSUME IInv, [Next]_vars, NEW t \in Table, t \in Tables', t # jobs'
  PROVE  t \in Tables
<1>t. TypeOK
  BY DEF IInv
<1>q. Missing \notin Table /\ Blank \notin Table /\ Torn \notin Table
  BY QueueAssumption
<1>0. ASSUME /\ tmp' \in Table => tmp' \in Tables
             /\ disk' \in Table => disk' \in Tables
             /\ \A w \in Writers : io'[w].snap \in Table => io'[w].snap \in Tables
      PROVE  t \in Tables
  BY <1>0 DEF Tables
<1>h. jobs \in Tables /\ tmp \in Tables /\ disk \in Tables /\ \A w \in Writers : io[w].snap \in Tables
  BY DEF Tables
<1> DEFINE Snaps == \A w \in Writers : io'[w].snap \in {io[w].snap, jobs, Missing}
<1>1. ASSUME Snaps, UNCHANGED <<tmp, disk>> PROVE t \in Tables
  BY <1>0, <1>1, <1>h, <1>q
<1>2. ASSUME NEW w \in Writers, Snapshot(w) PROVE t \in Tables
  <2>1. Snaps
    BY <1>2, <1>t DEF Snapshot, TypeOK
  <2> QED BY <1>1, <1>2, <2>1 DEF Snapshot
<1>3. ASSUME NEW w \in Writers, OpenTmp(w) PROVE t \in Tables
  <2>1. Snaps
    BY <1>3, <1>t DEF OpenTmp, TypeOK, IO
  <2> QED BY <1>0, <1>3, <1>h, <1>q, <2>1 DEF OpenTmp
<1>4. ASSUME NEW w \in Writers, WriteTmp(w) PROVE t \in Tables
  <2>1. Snaps
    BY <1>4, <1>t DEF WriteTmp, TypeOK, IO
  <2>2. tmp' \in {tmp, io[w].snap, Torn} /\ disk' \in {disk, io[w].snap, Torn}
    BY <1>4 DEF WriteTmp, Written
  <2> QED BY <1>0, <1>h, <1>q, <2>1, <2>2
<1>5. ASSUME NEW w \in Writers, Rename(w) PROVE t \in Tables
  <2>1. Snaps
    BY <1>5, <1>t DEF Rename, NoIO, TypeOK, IO
  <2>2. tmp' \in {tmp, Missing} /\ disk' \in {disk, tmp}
    BY <1>5 DEF Rename
  <2> QED BY <1>0, <1>h, <1>q, <2>1, <2>2
<1>6. ASSUME NEW c \in Callers, EnqueuePush(c) \/ Abandon(c) \/ \E j \in JobIds : Remove(c, j) \/ Retry(c, j)
      PROVE  t \in Tables
  <2>1. UNCHANGED <<tmp, disk>> /\ (io' = [io EXCEPT ![c] = Saving] \/ io' = [io EXCEPT ![c] = NoIO])
    BY <1>6 DEF EnqueuePush, Abandon, Remove, Retry, fileVars
  <2>2. Snaps
    BY <2>1, <1>t DEF TypeOK, Saving, NoIO
  <2> QED BY <1>1, <2>1, <2>2
<1>7. ASSUME MarkRunning \/ Settle PROVE t \in Tables
  <2>1. Snaps /\ UNCHANGED <<tmp, disk>>
    BY <1>7, <1>t DEF MarkRunning, Settle, TypeOK, Saving, fileVars
  <2> QED BY <1>1, <2>1
<1>8. ASSUME Crash PROVE t \in Tables
  BY <1>1, <1>8 DEF Crash, NoIO, fileVars
<1>9. ASSUME \/ UNCHANGED vars \/ Look \/ Woken \/ Tick
             \/ \E c \in Callers, p \in Prompts : EnqueueCheck(c, p)
             \/ \E r \in Replies : Ask(r)
             \/ \E j \in JobIds : BackoffElapses(j)
      PROVE  t \in Tables
  <2>1. UNCHANGED <<io, tmp, disk>>
    BY <1>9 DEF vars, Look, Woken, Tick, EnqueueCheck, Ask, BackoffElapses, fileVars
  <2> QED BY <1>1, <2>1
<1> QED
  BY <1>2, <1>3, <1>4, <1>5, <1>6, <1>7, <1>8, <1>9 DEF Next, Enqueue, Persist

-----------------------------------------------------------------------------
(* Claims and crashes are never taken back.                                 *)
LEMMA OnlyMore ==
  ASSUME TypeOK, [Next]_vars
  PROVE  claims \subseteq claims' /\ crashes' \in {crashes, crashes + 1} /\ crashes \in Nat
<1>1. claims \subseteq claims' /\ crashes' \in {crashes, crashes + 1}
  BY DEF Next, Enqueue, EnqueuePush, EnqueueCheck, Abandon, Remove, Retry, Persist, Snapshot, OpenTmp,
         WriteTmp, Rename, Look, Woken, Tick, MarkRunning, Settle, Ask, BackoffElapses, Crash,
         vars, workVars, boundVars
<1> QED BY <1>1, QueueAssumption DEF TypeOK

(* What is below a bound is below a greater one.                            *)
LEMMA BoundGrows ==
  ASSUME NEW m \in Nat, NEW c \in Nat, NEW d \in Nat, c <= d, NEW n \in Nat
  PROVE  /\ n <= m + c => n <= m + d
         /\ n < m => n < m + d
OBVIOUS

(* A try is counted once, and given up only when all of them were made.     *)
LEMMA CountedStep ==
  ASSUME IInv, HeldIsRunning, TablesCounted, [Next]_vars
  PROVE  TablesCounted'
<1>t. TypeOK /\ RunningIsWorkers /\ MaxAttempts \in Nat \ {0}
  BY QueueAssumption DEF IInv
<1>m. crashes' \in {crashes, crashes + 1} /\ crashes \in Nat
  BY <1>t, OnlyMore
<1>a. MaxAttempts \in Nat /\ crashes \in Nat /\ crashes' \in Nat /\ crashes <= crashes'
  BY <1>t, <1>m
<1>b. \A n \in Nat : /\ n <= MaxAttempts + crashes => n <= MaxAttempts + crashes'
                     /\ n < MaxAttempts => n < MaxAttempts + crashes'
  BY <1>a, BoundGrows
<1>1. ASSUME NEW t \in Table, Counted(t) PROVE Counted(t)'
  <2>1. \A j \in JobIds : t[j].attempts \in Nat
    BY DEF Table, Job
  <2> QED BY <1>1, <1>t, <1>m, <2>1 DEF Counted
<1>2. Counted(jobs)
  BY <1>t DEF TablesCounted, Tables, TypeOK
<1>3. ASSUME NEW i \in JobIds
      PROVE  /\ jobs'[i].attempts <= MaxAttempts + crashes'
             /\ jobs'[i].status = "queued" => jobs'[i].attempts < MaxAttempts + crashes'
             /\ jobs'[i].status = "failed" => jobs'[i].attempts >= MaxAttempts
  <2> DEFINE Good == /\ jobs'[i].attempts <= MaxAttempts + crashes'
                     /\ jobs'[i].status = "queued" => jobs'[i].attempts < MaxAttempts + crashes'
                     /\ jobs'[i].status = "failed" => jobs'[i].attempts >= MaxAttempts
  <2>b. jobs[i].attempts \in Nat
    BY <1>t DEF TypeOK, Table, Job
  <2>c. /\ jobs[i].attempts <= MaxAttempts + crashes
        /\ jobs[i].status = "queued" => jobs[i].attempts < MaxAttempts + crashes
        /\ jobs[i].status = "failed" => jobs[i].attempts >= MaxAttempts
    BY <1>2 DEF Counted
  <2>1. CASE jobs'[i] = jobs[i]
    BY <1>t, <1>m, <2>1, <2>b, <2>c
  <2>2. CASE Dropped(i) \/ Anew(i)
    BY <1>t, <1>m, <2>2 DEF Dropped, Anew
  <2>3. CASE Marked(i)
    BY <1>t, <1>m, <2>3, <2>b, <2>c DEF Marked
  <2>4. CASE Settled(i)
    <3>1. jobs[i].attempts = wseen + 1
      BY <1>t, <2>4 DEF Settled, RunningIsWorkers
    <3>2. jobs'[i].attempts = jobs[i].attempts
      BY <2>4, <3>1 DEF Settled
    <3>3. wseen \in Nat
      BY <1>t DEF TypeOK
    <3>4. jobs'[i].status = "failed" => wseen + 1 >= MaxAttempts
      BY <2>4 DEF Settled, GiveUp
    <3>5. jobs'[i].status = "queued" => ~(wseen + 1 >= MaxAttempts)
      BY <2>4 DEF Settled, GiveUp
    <3>6. jobs'[i].attempts = wseen + 1 /\ jobs'[i].attempts <= MaxAttempts + crashes
      BY <2>c, <3>1, <3>2
    <3>7. wseen + 1 \in Nat /\ (wseen + 1 >= MaxAttempts \/ wseen + 1 < MaxAttempts)
      BY <1>a, <3>3
    <3>8. jobs'[i].attempts <= MaxAttempts + crashes'
      BY <1>b, <3>6, <3>7
    <3>9. jobs'[i].status = "queued" => jobs'[i].attempts < MaxAttempts + crashes'
      BY <1>b, <3>5, <3>6, <3>7
    <3> QED BY <3>3, <3>4, <3>6, <3>8, <3>9
  <2>5. CASE Reopened(i)
    <3>1. CASE disk \notin Table
      <4>1. Recover(disk)[i] = NoJob
        BY <3>1 DEF Recover, Empty
      <4> QED BY <1>t, <1>m, <2>5, <4>1 DEF Reopened, NoJob
    <3>2. CASE disk \in Table
      <4>1. Counted(disk) /\ disk[i] \in Job
        BY <3>2 DEF TablesCounted, Tables, Table
      <4>2. Recover(disk)[i] = IF disk[i].status = "running" THEN [disk[i] EXCEPT !.status = "queued"]
                               ELSE disk[i]
        BY <3>2 DEF Recover
      <4>3. [disk[i] EXCEPT !.status = "queued"].attempts = disk[i].attempts
        BY <4>1 DEF Job
      <4>4. [disk[i] EXCEPT !.status = "queued"].status = "queued"
        BY <4>1 DEF Job
      <4>5. jobs'[i].attempts = disk[i].attempts /\ disk[i].attempts \in Nat
        BY <2>5, <4>1, <4>2, <4>3 DEF Reopened, Job
      <4>6. jobs'[i].status = "failed" => disk[i].status = "failed"
        BY <2>5, <4>2, <4>4 DEF Reopened
      <4>7. /\ disk[i].attempts <= MaxAttempts + crashes
            /\ disk[i].status = "failed" => disk[i].attempts >= MaxAttempts
        BY <4>1 DEF Counted
      <4>8. crashes' = crashes + 1
        BY <2>5 DEF Reopened
      <4> QED BY <1>t, <1>m, <4>5, <4>6, <4>7, <4>8
    <3> QED BY <3>1, <3>2
  <2> HIDE DEF Good
  <2>6. Good
    BY <2>1, <2>2, <2>3, <2>4, <2>5, SlotStep DEF Good
  <2> QED BY <2>6 DEF Good
<1>4. Counted(jobs)'
  BY <1>3 DEF Counted
<1>5. ASSUME NEW t \in Tables', t \in Table PROVE Counted(t)'
  <2>1. CASE t = jobs'
    BY <1>3, <2>1 DEF Counted
  <2>2. CASE t # jobs'
    BY <1>1, <1>5, <2>2, TablesStep DEF TablesCounted
  <2> QED BY <2>1, <2>2
<1> QED BY <1>5 DEF TablesCounted

(* Nothing is called committed before its claim.                            *)
LEMMA ClaimedStep ==
  ASSUME IInv, HeldIsRunning, AnsweredIsClaimed, TablesClaimed, [Next]_vars
  PROVE  TablesClaimed'
<1> SUFFICES ASSUME "block" \notin Replies, NEW t \in Tables', t \in Table PROVE Claimed(t)'
  BY DEF TablesClaimed
<1>t. TypeOK
  BY DEF IInv
<1>m. claims \subseteq claims'
  BY <1>t, OnlyMore
<1>1. CASE t # jobs'
  <2>1. Claimed(t)
    BY <1>1, TablesStep DEF TablesClaimed
  <2> QED BY <1>m, <2>1 DEF Claimed
<1>2. CASE t = jobs'
  <2> SUFFICES ASSUME NEW i \in JobIds, jobs'[i].status = "committed" PROVE i \in claims'
    BY <1>2 DEF Claimed
  <2>1. CASE jobs'[i] = jobs[i]
    BY <1>t, <1>m, <2>1 DEF TablesClaimed, Claimed, Tables, TypeOK
  <2>2. CASE Settled(i)
    <3>1. Outcome(wreply) = "done" /\ wreply \in Replies
      BY <2>2 DEF Settled, AnsweredIsClaimed
    <3>2. wreply = "committed"
      BY <3>1 DEF Outcome
    <3> QED BY <1>m, <2>2, <3>2 DEF Settled, AnsweredIsClaimed
  <2>3. CASE Reopened(i)
    <3>1. disk \in Table
      <4>1. ASSUME disk \notin Table PROVE FALSE
        BY <2>3, <4>1 DEF Reopened, Recover, Empty, NoJob
      <4> QED BY <4>1
    <3>2. Claimed(disk) /\ disk[i] \in Job
      BY <3>1 DEF TablesClaimed, Tables, Table
    <3>3. [disk[i] EXCEPT !.status = "queued"].status = "queued"
      BY <3>2 DEF Job
    <3>4. disk[i].status = "committed"
      BY <2>3, <3>1, <3>3 DEF Reopened, Recover
    <3> QED BY <1>m, <3>2, <3>4 DEF Claimed
  <2> QED BY <2>1, <2>2, <2>3, SlotStep DEF Dropped, Anew, Marked
<1> QED BY <1>1, <1>2

-----------------------------------------------------------------------------
(* Only what was tried waits out a backoff.                                 *)
LEMMA WaitingStep ==
  ASSUME IInv, HeldIsRunning, WaitingWasTried, [Next]_vars
  PROVE  WaitingWasTried'
<1>t. TypeOK /\ PushedIsNew /\ PickedIsAsSeen /\ FreshIds /\ RunningIsWorkers
  BY DEF IInv
<1>n. /\ nextId \in Nat /\ wjob \in Nat /\ JobIds \subseteq Nat /\ waiting \subseteq JobIds
      /\ \A j \in JobIds : jobs[j].attempts \in Nat
  BY <1>t, QueueAssumption DEF TypeOK, JobIds, Table, Job
<1>w. /\ \A j \in waiting : j < nextId /\ (jobs[j].status = "queued" => jobs[j].attempts > 0)
      /\ \A c \in Callers : call[c].pc = "push" => call[c].job \notin waiting
  BY DEF WaitingWasTried
(* A step that lets nothing wait that did not, begins no push, and queues   *)
(* again only what it takes out.                                            *)
<1> DEFINE Fewer == /\ waiting' \subseteq waiting /\ UNCHANGED nextId
                    /\ \A c \in Callers : call'[c].pc = "push" => call'[c] = call[c]
                    /\ \A j \in waiting' : jobs'[j].status = "queued" => jobs'[j].attempts > 0
<1>0. ASSUME Fewer PROVE WaitingWasTried'
  BY <1>0, <1>w DEF WaitingWasTried
<1>1. ASSUME NEW e \in Callers, NEW p \in Prompts, EnqueueCheck(e, p) PROVE WaitingWasTried'
  <2>1. nextId' = nextId + 1 /\ UNCHANGED <<jobs, waiting>>
    BY <1>1 DEF EnqueueCheck
  <2>2. \A d \in Callers : call'[d] = IF d = e THEN [pc |-> "push", prompt |-> p, job |-> nextId]
                                       ELSE call[d]
    BY <1>1, <1>t DEF EnqueueCheck, TypeOK
  <2>3. nextId \notin waiting /\ \A j \in waiting : j < nextId'
    BY <1>w, <1>n, <2>1
  <2> QED BY <1>w, <2>1, <2>2, <2>3 DEF WaitingWasTried
<1>2. ASSUME NEW e \in Callers, EnqueuePush(e) PROVE Fewer
  <2>1. \A d \in Callers : call'[d].pc = "push" => call'[d] = call[d]
    BY <1>2, <1>t DEF EnqueuePush, TypeOK, Call
  <2>2. UNCHANGED <<waiting, nextId>> /\ call[e].job \notin waiting
    BY <1>2, <1>w DEF EnqueuePush
  <2>3. \A j \in waiting : jobs'[j] = jobs[j] \/ jobs'[j] = NoJob
    BY <1>2, <1>t, <1>n, <2>2, PushSlot
  <2> QED BY <1>w, <2>1, <2>2, <2>3 DEF NoJob
<1>3. ASSUME NEW e \in Callers, Abandon(e) PROVE Fewer
  <2>1. \A d \in Callers : call'[d].pc = "push" => call'[d] = call[d]
    BY <1>3, <1>t DEF Abandon, TypeOK, NoCall
  <2> QED BY <1>3, <1>w, <2>1 DEF Abandon
<1>4. ASSUME NEW e \in Callers, NEW j \in JobIds, Remove(e, j) \/ Retry(e, j) PROVE Fewer
  <2>1. \A d \in Callers : call'[d].pc = "push" => call'[d] = call[d]
    BY <1>4, <1>t DEF Remove, Retry, TypeOK, Call
  <2>2. waiting' = waiting \ {j} /\ UNCHANGED nextId
    BY <1>4 DEF Remove, Retry
  <2>3. \A i \in JobIds : i # j => jobs'[i] = jobs[i]
    BY <1>4, <1>t DEF Remove, Retry, TypeOK, Table
  <2> QED BY <1>n, <1>w, <2>1, <2>2, <2>3
<1>5. ASSUME NEW w \in Writers, Snapshot(w) \/ OpenTmp(w) \/ WriteTmp(w) PROVE Fewer
  BY <1>5, <1>w DEF Snapshot, OpenTmp, WriteTmp
<1>6. ASSUME NEW w \in Writers, Rename(w) PROVE Fewer
  <2>1. \A d \in Callers : call'[d] = call[d] \/ call'[d].pc = "idle"
    BY <1>6, <1>t DEF Rename, Returned, TypeOK, NoCall
  <2>2. UNCHANGED <<jobs, waiting, nextId>>
    BY <1>6 DEF Rename
  <2> QED BY <1>w, <2>1, <2>2
<1>7. ASSUME \/ Look \/ Woken \/ Tick \/ (\E r \in Replies : Ask(r)) \/ (\E j \in JobIds : BackoffElapses(j))
             \/ UNCHANGED vars
      PROVE  Fewer
  <2>1. UNCHANGED <<jobs, nextId, call>> /\ waiting' \subseteq waiting
    BY <1>7 DEF Look, Woken, Tick, Ask, BackoffElapses, vars
  <2> QED BY <1>w, <2>1
<1>8. ASSUME MarkRunning PROVE Fewer
  <2>1. wjob \in JobIds /\ UNCHANGED <<waiting, nextId, call>>
    BY <1>8, <1>t DEF MarkRunning, PickedIsAsSeen
  <2>2. \A j \in JobIds : jobs'[j] = jobs[j] \/ jobs'[j].status = "running"
    BY <1>8, <1>t, <2>1, MarkSlot
  <2> QED BY <1>n, <1>w, <2>1, <2>2
<1>9. ASSUME Settle PROVE WaitingWasTried'
  <2>1. wjob \in JobIds /\ UNCHANGED <<nextId, call>> /\ waiting' \subseteq waiting \cup {wjob}
    BY <1>9, <1>t DEF Settle, PickedIsAsSeen
  <2>2. \A j \in JobIds : jobs'[j] = jobs[j] \/ Settled(j)
    BY <1>9, <1>t, <2>1, SettleSays
  <2>3. wjob < nextId /\ \A c \in Callers : call[c].pc = "push" => call[c].job # wjob
    BY <1>t DEF FreshIds, PushedIsNew
  <2>4. ASSUME NEW j \in waiting', jobs'[j].status = "queued" PROVE jobs'[j].attempts > 0
    <3>1. CASE Settled(j)
      BY <1>t, <3>1 DEF Settled, TypeOK
    <3>2. CASE ~Settled(j)
      <4>1. j \in JobIds /\ jobs'[j] = jobs[j]
        BY <1>n, <2>1, <2>2, <3>2
      <4>2. CASE j \in waiting
        BY <1>w, <2>4, <4>1, <4>2
      <4>3. CASE j \notin waiting
        <5>1. j = wjob /\ jobs[j].status # "absent"
          BY <1>9, <2>1, <2>4, <4>1, <4>3 DEF Settle
        <5>2. jobs[j].status = "running"
          BY <1>9, <5>1 DEF Settle, HeldIsRunning
        <5> QED BY <2>4, <4>1, <5>2
      <4> QED BY <4>2, <4>3
    <3> QED BY <3>1, <3>2
  <2>5. \A j \in waiting' : j < nextId'
    BY <1>w, <2>1, <2>3
  <2>6. \A c \in Callers : call'[c].pc = "push" => call'[c].job \notin waiting'
    BY <1>w, <2>1, <2>3
  <2> QED BY <2>4, <2>5, <2>6 DEF WaitingWasTried
<1>10. ASSUME Crash PROVE Fewer
  <2>1. waiting' \subseteq {j \in waiting : jobs'[j].attempts > 0}
    BY <1>10 DEF Crash
  <2> QED BY <1>10, <2>1 DEF Crash, NoCall
<1> HIDE DEF Fewer
<1> QED
  BY <1>0, <1>1, <1>2, <1>3, <1>4, <1>5, <1>6, <1>7, <1>8, <1>9, <1>10 DEF Next, Enqueue, Persist

(* What becomes ready behind a sleeping worker's back was tried before, or   *)
(* its handler is on the way to wake it.                                    *)
LEMMA WakeStep ==
  ASSUME IInv, WaitingWasTried, NoLostWakeup, [Next]_vars
  PROVE  NoLostWakeup'
<1> SUFFICES ASSUME wpc' = "asleep", hangups' = 0,
                    NEW i \in JobIds, jobs'[i].status = "queued", i \notin waiting', jobs'[i].attempts = 0
             PROVE  wake' \/ \E c \in Callers : call'[c].pc = "saveWake"
  BY DEF NoLostWakeup, Ready
<1> DEFINE Told == wake' \/ \E c \in Callers : call'[c].pc = "saveWake"
<1>t. TypeOK /\ WorkerSaves
  BY DEF IInv
<1>w. jobs[i].status = "queued" /\ i \in waiting => jobs[i].attempts > 0
  BY DEF WaitingWasTried
(* Told before, and nobody on the way is stopped.                           *)
<1>0. ASSUME wpc = "asleep", hangups = 0, jobs'[i] = jobs[i],
             wake => Told, \A c \in Callers : call[c].pc = "saveWake" => Told
      PROVE  Told
  <2>1. i \notin waiting
    BY <1>0, <1>w
  <2>2. wake \/ \E c \in Callers : call[c].pc = "saveWake"
    BY <1>0, <2>1 DEF NoLostWakeup, Ready
  <2> QED BY <1>0, <2>2
<1>1. ASSUME NEW e \in Callers, NEW p \in Prompts, EnqueueCheck(e, p) PROVE Told
  <2>1. \A c \in Callers : call[c].pc = "saveWake" => call'[c] = call[c]
    BY <1>1, <1>t DEF EnqueueCheck, TypeOK, NoCall
  <2> QED BY <1>0, <1>1, <2>1 DEF EnqueueCheck, workVars, boundVars
<1>2. ASSUME NEW e \in Callers, EnqueuePush(e) PROVE Told
  <2>1. call'[e].pc = "saveWake"
    BY <1>2, <1>t DEF EnqueuePush, TypeOK, Call
  <2> QED BY <2>1
<1>3. ASSUME NEW e \in Callers, Abandon(e) PROVE Told
  BY <1>3, <1>t, QueueAssumption DEF Abandon, TypeOK
<1>4. ASSUME NEW e \in Callers, NEW j \in JobIds, Remove(e, j) PROVE Told
  <2>1. \A c \in Callers : call[c].pc = "saveWake" => call'[c] = call[c]
    BY <1>4, <1>t DEF Remove, TypeOK, NoCall
  <2>2. jobs'[i] = jobs[i]
    BY <1>4, <1>t DEF Remove, TypeOK, Table, NoJob
  <2> QED BY <1>0, <1>4, <2>1, <2>2 DEF Remove, workVars, boundVars
<1>5. ASSUME NEW e \in Callers, NEW j \in JobIds, Retry(e, j) PROVE Told
  <2>1. call'[e].pc = "saveWake"
    BY <1>5, <1>t DEF Retry, TypeOK, Call
  <2> QED BY <2>1
<1>6. ASSUME NEW w \in Writers, Snapshot(w) \/ OpenTmp(w) \/ WriteTmp(w) PROVE Told
  BY <1>0, <1>6 DEF Snapshot, OpenTmp, WriteTmp, workVars, boundVars
<1>7. ASSUME NEW w \in Writers, Rename(w) PROVE Told
  <2>1. CASE w = Worker
    <3>1. wpc \in {"saveRunning", "saveOutcome"}
      BY <1>7, <1>t, <2>1 DEF Rename, WorkerSaves
    <3> QED BY <1>7, <2>1, <3>1 DEF Rename, Returned
  <2>2. CASE w # Worker
    <3>1. wake' = (wake \/ call[w].pc = "saveWake") /\ call' = [call EXCEPT ![w] = NoCall] /\ UNCHANGED wpc
      BY <1>7, <2>2 DEF Rename, Returned
    <3>2. \A c \in Callers : call[c].pc = "saveWake" => Told
      <4> TAKE c \in Callers
      <4>1. CASE c = w
        BY <3>1, <4>1
      <4>2. CASE c # w
        BY <3>1, <4>2, <1>t DEF TypeOK
      <4> QED BY <4>1, <4>2
    <3> QED BY <1>0, <1>7, <3>1, <3>2 DEF Rename, boundVars
  <2> QED BY <2>1, <2>2
<1>8. ASSUME Look PROVE Told
  <2>1. UNCHANGED <<jobs, waiting>> /\ Ready = {}
    BY <1>8 DEF Look
  <2> QED BY <2>1 DEF Ready
<1>9. ASSUME NEW j \in JobIds, BackoffElapses(j) PROVE Told
  BY <1>0, <1>9 DEF BackoffElapses, workVars, boundVars
<1>10. ASSUME Woken \/ Tick \/ MarkRunning \/ Settle \/ Crash \/ \E r \in Replies : Ask(r) PROVE Told
  BY <1>10 DEF Woken, Tick, MarkRunning, Settle, Crash, Ask
<1>11. ASSUME UNCHANGED vars PROVE Told
  BY <1>0, <1>11 DEF vars, workVars, boundVars
<1> HIDE DEF Told
<1>12. Told
  BY <1>1, <1>2, <1>3, <1>4, <1>5, <1>6, <1>7, <1>8, <1>9, <1>10, <1>11 DEF Next, Enqueue, Persist
<1> QED BY <1>12 DEF Told

-----------------------------------------------------------------------------
(* Reading back what a restart made of a file changes nothing more.         *)
LEMMA RecoverTwice == ASSUME NEW t PROVE Recover(Recover(t)) = Recover(t)
<1> DEFINE r == Recover(t)
<1>1. r \in Table /\ \A j \in JobIds : r[j].status # "running"
  BY RecoverFacts
<1> HIDE DEF r
<1>2. Recover(r) = [j \in JobIds |-> r[j]]
  BY <1>1 DEF Recover
<1>3. r = [j \in JobIds |-> r[j]]
  BY <1>1 DEF Table
<1> QED BY <1>2, <1>3 DEF r

(* One persist at a time saves the table.                                   *)
LEMMA LoneStep ==
  ASSUME IInv, LoneSaves, [Next]_vars
  PROVE  LoneSaves'
<1> SUFFICES ASSUME ~overlap' PROVE AloneOnTmp' /\ disk' \in Table \cup {Missing} /\ (hangups' = 0 => SomebodySaves')
  BY DEF LoneSaves
<1> DEFINE Goal == AloneOnTmp' /\ disk' \in Table \cup {Missing} /\ (hangups' = 0 => SomebodySaves')
<1>t. TypeOK /\ \A w \in Writers : io[w] \in IO
  BY DEF IInv, TypeOK
<1>o. ~overlap /\ hangups' \in {hangups, hangups + 1} /\ hangups \in Nat
  <2>1. hangups' \in {hangups, hangups + 1}
    BY DEF Next, Enqueue, EnqueuePush, EnqueueCheck, Abandon, Remove, Retry, Persist, Snapshot, OpenTmp,
           WriteTmp, Rename, Look, Woken, Tick, MarkRunning, Settle, Ask, BackoffElapses, Crash,
           vars, boundVars
  <2>2. ASSUME NEW w \in Writers, Snapshot(w) PROVE ~overlap
    BY <2>2 DEF Snapshot
  <2>3. ASSUME NEW w \in Writers, OpenTmp(w) \/ WriteTmp(w) \/ Rename(w) PROVE ~overlap
    BY <2>3 DEF OpenTmp, WriteTmp, Rename
  <2>4. ASSUME NEW c \in Callers, \/ EnqueuePush(c) \/ Abandon(c) \/ \E p \in Prompts : EnqueueCheck(c, p)
                                  \/ \E j \in JobIds : Remove(c, j) \/ Retry(c, j)
        PROVE  ~overlap
    BY <2>4 DEF EnqueuePush, Abandon, EnqueueCheck, Remove, Retry, fileVars
  <2>5. ASSUME \/ UNCHANGED vars \/ Look \/ Woken \/ Tick \/ MarkRunning \/ Settle \/ Crash
               \/ \E r \in Replies : Ask(r)
               \/ \E j \in JobIds : BackoffElapses(j)
        PROVE  ~overlap
    BY <2>5 DEF vars, Look, Woken, Tick, MarkRunning, Settle, Crash, Ask, BackoffElapses, fileVars
  <2>6. ~overlap
    BY <2>2, <2>3, <2>4, <2>5 DEF Next, Enqueue, Persist
  <2> QED BY <2>1, <2>6, <1>t, QueueAssumption DEF TypeOK
<1>l. AloneOnTmp /\ disk \in Table \cup {Missing} /\ (hangups = 0 => SomebodySaves)
  BY <1>o DEF LoneSaves
<1>h. hangups' = 0 => hangups = 0
  BY <1>o
(* A task goes into a persist, or leaves one; the others' stay.             *)
<1> DEFINE Enters(w) == /\ io' = [io EXCEPT ![w] = Saving] /\ UNCHANGED <<tmp, disk>>
           Leaves(w) == /\ io' = [io EXCEPT ![w] = NoIO] /\ UNCHANGED <<tmp, disk>>
<1>1. ASSUME NEW w \in Writers, Enters(w) PROVE Goal
  <2>1. \A v \in Writers : io'[v] = IF v = w THEN Saving ELSE io[v]
    BY <1>1, <1>t DEF TypeOK
  <2>2. AloneOnTmp'
    BY <1>1, <1>l, <2>1 DEF AloneOnTmp, Past, Saving
  <2>3. SomebodySaves'
    BY <2>1 DEF SomebodySaves, Saving
  <2> QED BY <1>1, <1>l, <2>2, <2>3
<1>2. ASSUME NEW w \in Writers, Leaves(w), hangups' > 0 PROVE Goal
  <2>1. \A v \in Writers : io'[v] = IF v = w THEN NoIO ELSE io[v]
    BY <1>2, <1>t DEF TypeOK
  <2>2. AloneOnTmp'
    BY <1>2, <1>l, <2>1 DEF AloneOnTmp, Past, NoIO
  <2> QED BY <1>2, <1>l, <1>o, <2>2
<1>3. ASSUME UNCHANGED <<jobs, io, tmp, disk>> PROVE Goal
  BY <1>3, <1>l, <1>h DEF AloneOnTmp, Past, SomebodySaves, Saved
<1>4. ASSUME NEW w \in Writers, Snapshot(w) PROVE Goal
  <2>1. \A v \in Writers : ~Past(v)
    BY <1>4 DEF Snapshot, Past
  <2>2. \A v \in Writers : io'[v] = IF v = w THEN [pc |-> "open", snap |-> jobs, on |-> "none"] ELSE io[v]
    BY <1>4, <1>t DEF Snapshot, TypeOK
  <2>3. UNCHANGED <<jobs, tmp, disk>> /\ jobs \in Table
    BY <1>4, <1>t DEF Snapshot, TypeOK
  <2>4. AloneOnTmp'
    BY <1>l, <2>1, <2>2, <2>3 DEF AloneOnTmp, Past
  <2>5. SomebodySaves'
    BY <2>2, <2>3 DEF SomebodySaves, Past
  <2> QED BY <1>l, <2>3, <2>4, <2>5
<1>5. ASSUME NEW w \in Writers, OpenTmp(w) PROVE Goal
  <2>1. Past(w) /\ \A v \in Writers : v # w => ~Past(v)
    BY <1>5, <1>l DEF OpenTmp, Past, AloneOnTmp
  <2>2. \A v \in Writers : io'[v] = IF v = w THEN [io[w] EXCEPT !.pc = "write", !.on = "tmp"] ELSE io[v]
    BY <1>5, <1>t DEF OpenTmp, TypeOK
  <2>3. /\ [io[w] EXCEPT !.pc = "write", !.on = "tmp"].pc = "write"
        /\ [io[w] EXCEPT !.pc = "write", !.on = "tmp"].on = "tmp"
        /\ [io[w] EXCEPT !.pc = "write", !.on = "tmp"].snap = io[w].snap
    BY <1>t DEF IO
  <2>4. UNCHANGED <<jobs, disk>> /\ tmp' = Blank
    BY <1>5 DEF OpenTmp
  <2>5. AloneOnTmp'
    BY <1>l, <2>1, <2>2, <2>3, <2>4 DEF AloneOnTmp, Past
  <2>6. ASSUME SomebodySaves PROVE SomebodySaves'
    <3>1. CASE \E v \in Writers : io[v].pc = "snap"
      <4>1. PICK v \in Writers : io[v].pc = "snap"
        BY <3>1
      <4>2. v # w
        BY <1>5, <4>1 DEF OpenTmp
      <4>3. io'[v].pc = "snap"
        BY <2>2, <4>1, <4>2
      <4> QED BY <4>3 DEF SomebodySaves
    <3>2. CASE \E v \in Writers : Past(v) /\ Recover(io[v].snap) = Recover(jobs)
      <4>1. Recover(io[w].snap) = Recover(jobs)
        BY <2>1, <3>2
      <4>2. io'[w].snap = io[w].snap /\ io'[w].pc = "write" /\ UNCHANGED jobs
        BY <2>2, <2>3, <2>4
      <4> QED BY <4>1, <4>2 DEF SomebodySaves, Past
    <3> QED BY <2>1, <2>6, <3>1, <3>2 DEF SomebodySaves
  <2> QED BY <1>l, <1>h, <2>4, <2>5, <2>6
<1>6. ASSUME NEW w \in Writers, WriteTmp(w) PROVE Goal
  <2>1. Past(w) /\ \A v \in Writers : v # w => ~Past(v)
    BY <1>6, <1>l DEF WriteTmp, Past, AloneOnTmp
  <2>2. \A v \in Writers : io'[v] = IF v = w THEN [io[w] EXCEPT !.pc = "rename"] ELSE io[v]
    BY <1>6, <1>t DEF WriteTmp, TypeOK
  <2>3. [io[w] EXCEPT !.pc = "rename"].pc = "rename" /\ [io[w] EXCEPT !.pc = "rename"].snap = io[w].snap
    BY <1>t DEF IO
  <2>4. io[w].on = "tmp" /\ tmp = Blank /\ io[w].snap \in Table
    BY <1>6, <1>l, <2>1 DEF WriteTmp, AloneOnTmp
  <2>5. UNCHANGED <<jobs, disk>> /\ tmp' = io[w].snap
    BY <1>6, <2>4 DEF WriteTmp, Written
  <2>6. AloneOnTmp'
    BY <1>l, <2>1, <2>2, <2>3, <2>4, <2>5 DEF AloneOnTmp, Past
  <2>7. SomebodySaves => SomebodySaves'
    BY <1>6, <2>1, <2>2, <2>3, <2>5 DEF WriteTmp, SomebodySaves, Past, Saved
  <2> QED BY <1>l, <1>h, <2>5, <2>6, <2>7
<1>7. ASSUME NEW w \in Writers, Rename(w) PROVE Goal
  <2>1. Past(w) /\ \A v \in Writers : v # w => ~Past(v)
    BY <1>7, <1>l DEF Rename, Past, AloneOnTmp
  <2>2. tmp = io[w].snap /\ io[w].snap \in Table /\ Missing \notin Table
    BY <1>7, <1>l, <2>1, QueueAssumption DEF Rename, AloneOnTmp
  <2>3. disk' = io[w].snap /\ UNCHANGED jobs
    BY <1>7, <2>2 DEF Rename
  <2>4. \A v \in Writers : io'[v].pc = IF v = w THEN "none" ELSE io[v].pc
    BY <1>7, <1>t, <2>2 DEF Rename, IO, NoIO
  <2>5. \A v \in Writers : ~Past(v)'
    BY <2>1, <2>4 DEF Past
  <2>6. AloneOnTmp'
    BY <2>5 DEF AloneOnTmp, Past
  <2>7. ASSUME SomebodySaves PROVE SomebodySaves'
    <3>1. CASE \E v \in Writers : io[v].pc = "snap"
      <4>1. PICK v \in Writers : io[v].pc = "snap"
        BY <3>1
      <4>2. io'[v].pc = "snap"
        BY <1>7, <2>4, <4>1 DEF Rename
      <4> QED BY <4>2 DEF SomebodySaves
    <3>2. CASE \E v \in Writers : Past(v) /\ Recover(io[v].snap) = Recover(jobs)
      BY <2>1, <2>3, <2>5, <3>2 DEF SomebodySaves, Saved
    <3> QED BY <2>1, <2>7, <3>1, <3>2 DEF SomebodySaves
  <2> QED BY <1>h, <1>l, <2>2, <2>3, <2>6, <2>7
<1>8. ASSUME NEW c \in Callers, EnqueuePush(c) \/ (\E j \in JobIds : Remove(c, j) \/ Retry(c, j)) PROVE Goal
  <2>1. c \in Writers /\ Enters(c)
    BY <1>8 DEF EnqueuePush, Remove, Retry, fileVars, Writers
  <2> QED BY <1>1, <2>1
<1>9. ASSUME MarkRunning \/ Settle PROVE Goal
  <2>1. Worker \in Writers /\ Enters(Worker)
    BY <1>9 DEF MarkRunning, Settle, fileVars, Writers
  <2> QED BY <1>1, <2>1
<1>10. ASSUME NEW c \in Callers, Abandon(c) PROVE Goal
  <2>1. c \in Writers /\ Leaves(c) /\ hangups' = hangups + 1
    BY <1>10 DEF Abandon, fileVars, Writers
  <2>2. hangups' > 0
    BY <1>o, <2>1
  <2> QED BY <1>2, <2>1, <2>2
<1>11. ASSUME Crash PROVE Goal
  <2>1. \A w \in Writers : io'[w] = NoIO
    BY <1>11 DEF Crash
  <2>2. jobs' = Recover(disk) /\ UNCHANGED disk
    BY <1>11 DEF Crash, fileVars
  <2>3. Saved'
    BY <2>2, RecoverTwice DEF Saved
  <2> QED BY <1>l, <2>1, <2>2, <2>3 DEF AloneOnTmp, Past, NoIO, SomebodySaves
<1>12. ASSUME \/ UNCHANGED vars \/ Look \/ Woken \/ Tick
              \/ \E c \in Callers, p \in Prompts : EnqueueCheck(c, p)
              \/ \E r \in Replies : Ask(r)
              \/ \E j \in JobIds : BackoffElapses(j)
       PROVE  Goal
  <2>1. UNCHANGED <<jobs, io, tmp, disk>>
    BY <1>12 DEF vars, Look, Woken, Tick, EnqueueCheck, Ask, BackoffElapses, fileVars
  <2> QED BY <1>3, <2>1
<1> HIDE DEF Goal
<1>13. Goal
  BY <1>4, <1>5, <1>6, <1>7, <1>8, <1>9, <1>10, <1>11, <1>12 DEF Next, Enqueue, Persist
<1> QED BY <1>13 DEF Goal

-----------------------------------------------------------------------------
(* A first start is in the second invariant too.                            *)
LEMMA InitSecond == Init => JInv
<1> SUFFICES ASSUME Init PROVE JInv
  OBVIOUS
<1>1. /\ jobs = Empty /\ tmp = Missing /\ disk = Missing /\ waiting = {} /\ wpc = "look" /\ hangups = 0
      /\ crashes = 0 /\ overlap = FALSE
      /\ \A w \in Writers : io[w] = NoIO
      /\ \A c \in Callers : call[c].pc = "idle"
  BY DEF Init, NoCall
<1>2. HeldIsRunning /\ AnsweredIsClaimed /\ WaitingWasTried /\ NoLostWakeup
  BY <1>1 DEF HeldIsRunning, AnsweredIsClaimed, WaitingWasTried, NoLostWakeup
<1>3. \A t \in Tables : t \in Table => t = Empty
  BY <1>1, QueueAssumption DEF Tables, NoIO
<1>4. Counted(Empty) /\ Claimed(Empty)
  BY <1>1, QueueAssumption DEF Counted, Claimed, Empty, NoJob
<1>5. TablesCounted /\ TablesClaimed
  BY <1>3, <1>4 DEF TablesCounted, TablesClaimed
<1>6. Recover(Missing) = Empty
  BY QueueAssumption DEF Recover
<1>7. Recover(Empty) = Empty
  BY <1>6, RecoverTwice
<1>8. LoneSaves
  BY <1>1, <1>6, <1>7 DEF LoneSaves, AloneOnTmp, Past, SomebodySaves, Saved, NoIO
<1> QED BY <1>2, <1>5, <1>8 DEF JInv

(* Both invariants hold at every step.                                      *)
THEOREM SecondInductive == Spec => [](IInv /\ JInv)
<1>1. IInv /\ JInv /\ [Next]_vars => JInv'
  BY HeldStep, CountedStep, ClaimedStep, WaitingStep, WakeStep, LoneStep DEF JInv
<1> QED BY Inductive, InitSecond, <1>1, PTL DEF Spec

(* No new prompt is left to a sleeping worker, for any number of handlers    *)
(* and jobs: enqueue and retry notify after their persist, and the worker    *)
(* looks before it sleeps.                                                  *)
THEOREM NoPromptForgotten == Spec => []NoLostWakeup
<1>1. JInv => NoLostWakeup
  BY DEF JInv
<1> QED BY SecondInductive, <1>1, PTL

(* What the table says of a job is so: tries are counted through any number  *)
(* of crashes, committed means claimed where every gateway gives a verdict,  *)
(* and a persist with no other beside it saves the table.                   *)
THEOREM TableIsTrue == ASSUME "block" \notin Replies PROVE Spec => []JobsAreTrue
<1>1. IInv /\ JInv => JobsAreTrue
  <2> SUFFICES ASSUME IInv, JInv PROVE JobsAreTrue
    OBVIOUS
  <2>1. jobs \in Tables /\ jobs \in Table
    BY DEF IInv, TypeOK, Tables
  <2>2. AttemptsBounded /\ CommittedMeansClaimed
    BY <2>1 DEF JInv, TablesCounted, TablesClaimed, Counted, Claimed, AttemptsBounded, CommittedMeansClaimed
  <2>3. LonePersistSaves
    BY DEF JInv, LoneSaves, LonePersistSaves, SomebodySaves, Quiet, NoIO, Past
  <2> QED BY <2>2, <2>3 DEF JobsAreTrue
<1> QED BY SecondInductive, <1>1, PTL

(* A live job leaves only by hand, before it started, or with the process;   *)
(* and committed is history, short of a restart from an older file.          *)
THEOREM OnlyForward == Spec => JobsMoveOn
<1> DEFINE Forward ==
      \A j \in JobIds :
       /\ Live(jobs[j]) /\ jobs'[j].status = "absent" =>
            \/ crashes' # crashes
            \/ /\ jobs[j].status = "queued"
               /\ \E c \in Callers : call[c] = NoCall /\ call'[c].pc = "save"
       /\ jobs[j].status = "committed" /\ crashes' = crashes =>
            jobs'[j].status \in {"committed", "absent"}
<1>1. IInv /\ JInv /\ [Next]_vars => [Forward]_vars
  <2> SUFFICES ASSUME IInv, JInv, [Next]_vars PROVE Forward
    OBVIOUS
  <2> SUFFICES ASSUME NEW j \in JobIds
               PROVE  /\ Live(jobs[j]) /\ jobs'[j].status = "absent" =>
                           \/ crashes' # crashes
                           \/ /\ jobs[j].status = "queued"
                              /\ \E c \in Callers : call[c] = NoCall /\ call'[c].pc = "save"
                      /\ jobs[j].status = "committed" /\ crashes' = crashes =>
                           jobs'[j].status \in {"committed", "absent"}
    OBVIOUS
  <2>1. crashes \in Nat /\ HeldIsRunning
    BY QueueAssumption DEF IInv, TypeOK, JInv
  <2> QED BY <2>1, SlotStep DEF Live, Finished, Dropped, Anew, Marked, Settled, Reopened
<1> QED BY SecondInductive, <1>1, PTL DEF Spec, JobsMoveOn
=============================================================================
