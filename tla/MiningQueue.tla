---------------------------- MODULE MiningQueue ----------------------------
(***************************************************************************)
(* The mining queue: prompts mined behind the chat                         *)
(* (crates/misaka-studio-runtime/src/mining_queue.rs).                     *)
(*                                                                         *)
(* HTTP handlers (the callers) enqueue, drop and retry jobs; one worker    *)
(* picks the oldest ready job, hands it to the slot's gateway and settles  *)
(* what came back.  Every change of the table is followed by a persist: a  *)
(* snapshot under the read lock, then <queue>.json.tmp is truncated,       *)
(* written and renamed over <queue>.json.  Nothing orders one task's       *)
(* persist against another's, and they share the one tmp name.             *)
(*                                                                         *)
(* A job id stands for its created_ms: ids are handed out in creation      *)
(* order.  The words of a job (answer, error, claim id, gateway url) are   *)
(* left out.  Of not_before_ms only whether it still lies ahead is kept:   *)
(* the set waiting.                                                        *)
(***************************************************************************)
EXTENDS Naturals, FiniteSets

CONSTANTS
  Prompts,       \* what a job may ask: its system prompt and user turn
  NoPrompt,      \* the prompt field of an empty slot
  Callers,       \* concurrent HTTP handlers
  Worker,        \* the queue's one worker
  MaxJobs,       \* bound: jobs ever created
  MaxAttempts,   \* MAX_TRANSIENT_ATTEMPTS
  KeepFinished,  \* KEEP_FINISHED
  Replies,       \* the gateway replies a run explores, from Reply below
  MaxRetries,    \* bound: times the person reopens a job
  MaxCrashes,    \* bound: times the process dies
  MaxHangups,    \* bound: HTTP clients that disconnect mid-call
  Missing, Blank, Torn   \* a file that is absent, just truncated, not JSON

Writers == Callers \cup {Worker}
JobIds  == 1..MaxJobs
Status  == {"absent", "queued", "running", "committed", "refused", "failed"}

Job   == [prompt: Prompts \cup {NoPrompt}, status: Status, attempts: Nat]
NoJob == [prompt |-> NoPrompt, status |-> "absent", attempts |-> 0]
Table == [JobIds -> Job]

Finished(job) == job.status \in {"committed", "refused", "failed"}
Live(job)     == job.status \in {"queued", "running"}

(* How the gateway can answer one request, as run_job tells replies apart. *)
Reply == {"committed",      \* a job block with committed: true
          "block",          \* a job block from a gateway older than the verdict
          "not_committed",  \* a job block with committed: false
          "no_block",       \* a chat, not a job
          "too_long",       \* 4xx naming the ceiling that would have fit
          "refused",        \* any other 4xx
          "away",           \* 5xx, 429, no connection, a timeout
          "cut_off"}        \* accepted, executed, and the answer lost

ASSUME QueueAssumption ==
  /\ NoPrompt \notin Prompts
  /\ Worker \notin Callers
  /\ MaxJobs \in Nat /\ MaxAttempts \in Nat \ {0} /\ KeepFinished \in Nat
  /\ MaxRetries \in Nat /\ MaxCrashes \in Nat /\ MaxHangups \in Nat
  /\ Replies \subseteq Reply
  /\ {Missing, Blank, Torn} \cap Table = {}
  /\ Missing # Blank /\ Missing # Torn /\ Blank # Torn

VARIABLES
  jobs,     \* MiningQueue.jobs
  waiting,  \* the jobs whose not_before_ms still lies ahead
  nextId,   \* the id the next created job gets
  wake,     \* the permit stored in MiningQueue.wake
  wpc,      \* where the worker is
  wjob,     \* the worker's clone of the job it picked: its id
  wseen,    \* ... and the attempts it had when it was picked
  wpass,    \* run_job's pass
  wreply,   \* what the gateway answered
  claims,   \* jobs the gateway has committed a claim for (external)
  call,     \* [Callers -> the call a handler is inside]
  io,       \* [Writers -> the persist a task is inside]
  tmp, disk,  \* the contents of mining-queue.json.tmp and mining-queue.json
  overlap,  \* history: some persist began while another was under way
  retries, crashes, hangups   \* spent bounds

fileVars  == <<tmp, disk, overlap>>
workVars  == <<wpc, wjob, wseen, wpass, wreply, claims>>
boundVars == <<retries, crashes, hangups>>
vars == <<jobs, waiting, nextId, wake, workVars, call, io, fileVars, boundVars>>

NoCall == [pc |-> "idle", prompt |-> NoPrompt, job |-> 0]
NoIO   == [pc |-> "none", snap |-> Missing, on |-> "none"]
Saving == [pc |-> "snap", snap |-> Missing, on |-> "none"]

Call == [pc: {"idle", "push", "save", "saveWake"},
         prompt: Prompts \cup {NoPrompt}, job: 0..MaxJobs]
IO   == [pc: {"none", "snap", "open", "write", "rename"},
         snap: Table \cup {Missing}, on: {"none", "tmp", "disk", "lost"}]
Content == Table \cup {Missing, Blank, Torn}

TypeOK ==
  /\ jobs \in Table
  /\ waiting \subseteq JobIds
  /\ nextId \in 1..(MaxJobs + 1)
  /\ wake \in BOOLEAN
  /\ wpc \in {"look", "asleep", "mark", "saveRunning", "ask", "settle", "saveOutcome"}
  /\ wjob \in 0..MaxJobs
  /\ wseen \in Nat
  /\ wpass \in {0, 1}
  /\ wreply \in Reply \cup {"none"}
  /\ claims \subseteq JobIds
  /\ call \in [Callers -> Call]
  /\ io \in [Writers -> IO]
  /\ tmp \in Content
  /\ disk \in Content
  /\ overlap \in BOOLEAN
  /\ retries \in 0..MaxRetries
  /\ crashes \in 0..MaxCrashes
  /\ hangups \in 0..MaxHangups

Empty == [j \in JobIds |-> NoJob]

Init ==
  /\ jobs = Empty /\ waiting = {} /\ nextId = 1 /\ wake = FALSE
  /\ wpc = "look" /\ wjob = 0 /\ wseen = 0 /\ wpass = 0 /\ wreply = "none"
  /\ claims = {}
  /\ call = [c \in Callers |-> NoCall]
  /\ io = [w \in Writers |-> NoIO]
  /\ tmp = Missing /\ disk = Missing /\ overlap = FALSE
  /\ retries = 0 /\ crashes = 0 /\ hangups = 0
-----------------------------------------------------------------------------
(* The callers. *)

Twin(p) == \E j \in JobIds : jobs[j].status = "queued" /\ jobs[j].prompt = p

(* Enqueue, up to the release of the read lock.  A prompt with a queued     *)
(* twin is answered by the twin and changes nothing.                        *)
EnqueueCheck(c, p) ==
  /\ call[c] = NoCall
  /\ nextId <= MaxJobs
  /\ ~Twin(p)
  /\ call' = [call EXCEPT ![c] = [pc |-> "push", prompt |-> p, job |-> nextId]]
  /\ nextId' = nextId + 1
  /\ UNCHANGED <<jobs, waiting, wake, workVars, io, fileVars, boundVars>>

\* Mutants: a trim that counts live jobs too, and one that loses the slots.
TrimAnyJob(t) ==
  [j \in JobIds |-> IF Cardinality({k \in JobIds : k > j /\ t[k] # NoJob}) >= KeepFinished
                       /\ t[j] # NoJob /\ \E k \in JobIds : k > j /\ t[k] # NoJob
                    THEN NoJob ELSE t[j]]
TrimSlots(t) == [j \in {k \in JobIds : ~Finished(t[k])} |-> t[j]]

(* Only the KeepFinished newest finished jobs stay; live ones always do.    *)
Trim(t) ==
  LET done == {j \in JobIds : Finished(t[j])}
      Old(j) == j \in done /\ Cardinality({k \in done : k > j}) >= KeepFinished
  IN  [j \in JobIds |-> IF Old(j) THEN NoJob ELSE t[j]]

(* ... and the push under the write lock.                                   *)
EnqueuePush(c) ==
  /\ call[c].pc = "push"
  /\ jobs' = Trim([jobs EXCEPT ![call[c].job] =
                     [prompt |-> call[c].prompt, status |-> "queued", attempts |-> 0]])
  /\ call' = [call EXCEPT ![c].pc = "saveWake"]
  /\ io' = [io EXCEPT ![c] = Saving]
  /\ UNCHANGED <<waiting, nextId, wake, workVars, fileVars, boundVars>>

Remove(c, j) ==
  /\ call[c] = NoCall
  /\ jobs[j].status \notin {"absent", "running"}
  /\ jobs' = [jobs EXCEPT ![j] = NoJob]
  /\ waiting' = waiting \ {j}
  /\ call' = [call EXCEPT ![c].pc = "save"]
  /\ io' = [io EXCEPT ![c] = Saving]
  /\ UNCHANGED <<nextId, wake, workVars, fileVars, boundVars>>

\* Mutant: anything finished can be retried.
ReopenAnyFinished(job) == Finished(job)

Reopenable(job) == job.status \in {"refused", "failed"}

Retry(c, j) ==
  /\ call[c] = NoCall
  /\ Reopenable(jobs[j])
  /\ retries < MaxRetries /\ retries' = retries + 1
  /\ jobs' = [jobs EXCEPT ![j].status = "queued", ![j].attempts = 0]
  /\ waiting' = waiting \ {j}
  /\ call' = [call EXCEPT ![c].pc = "saveWake"]
  /\ io' = [io EXCEPT ![c] = Saving]
  /\ UNCHANGED <<nextId, wake, workVars, fileVars, crashes, hangups>>

(* The client disconnects and axum drops the handler at an await: before    *)
(* the push, before the snapshot, or once the blocking write has finished   *)
(* and before the rename.  Nothing after the await runs.                    *)
Abandon(c) ==
  /\ \/ call[c].pc = "push"
     \/ io[c].pc \in {"snap", "rename"}
  /\ hangups < MaxHangups /\ hangups' = hangups + 1
  /\ call' = [call EXCEPT ![c] = NoCall]
  /\ io' = [io EXCEPT ![c] = NoIO]
  /\ UNCHANGED <<jobs, waiting, nextId, wake, workVars, fileVars, retries, crashes>>
-----------------------------------------------------------------------------
(* One persist, by whichever task is inside it. *)

Snapshot(w) ==
  /\ io[w].pc = "snap"
  /\ io' = [io EXCEPT ![w] = [pc |-> "open", snap |-> jobs, on |-> "none"]]
  /\ overlap' = (overlap \/ \E v \in Writers : io[v].pc \in {"open", "write", "rename"})
  /\ UNCHANGED <<jobs, waiting, nextId, wake, workVars, call, tmp, disk, boundVars>>

\* Mutant: the queue file is rewritten in place.
OpenInPlace(w) ==
  /\ io[w].pc = "open"
  /\ io' = [io EXCEPT ![w].pc = "write", ![w].on = "disk"]
  /\ disk' = Blank
  /\ UNCHANGED <<jobs, waiting, nextId, wake, workVars, call, tmp, overlap, boundVars>>

OpenTmp(w) ==
  /\ io[w].pc = "open"
  /\ io' = [io EXCEPT ![w].pc = "write", ![w].on = "tmp"]
  /\ tmp' = Blank
  /\ UNCHANGED <<jobs, waiting, nextId, wake, workVars, call, disk, overlap, boundVars>>

(* What a file holds once a whole snapshot is written from its start: a     *)
(* longer earlier text leaves its tail behind.                              *)
Written(old, snap) == IF old \in {Blank, snap} THEN {snap} ELSE {snap, Torn}

(* The handle follows its file: another task's rename may have moved it.    *)
WriteTmp(w) ==
  /\ io[w].pc = "write"
  /\ io' = [io EXCEPT ![w].pc = "rename"]
  /\ \/ io[w].on = "tmp"  /\ tmp' \in Written(tmp, io[w].snap) /\ UNCHANGED disk
     \/ io[w].on = "disk" /\ disk' \in Written(disk, io[w].snap) /\ UNCHANGED tmp
     \/ io[w].on = "lost" /\ UNCHANGED <<tmp, disk>>
  /\ UNCHANGED <<jobs, waiting, nextId, wake, workVars, call, overlap, boundVars>>

Moved(on) == CASE on = "tmp" -> "disk" [] on = "disk" -> "lost" [] OTHER -> on

\* Mutant: enqueue and retry forget to notify the worker.
ReturnedUnnotified(w) ==
  IF w = Worker
  THEN /\ IF wpc = "saveRunning"
          THEN wpc' = "ask" /\ UNCHANGED <<wjob, wseen>>
          ELSE wpc' = "look" /\ wjob' = 0 /\ wseen' = 0
       /\ UNCHANGED <<wake, call>>
  ELSE call' = [call EXCEPT ![w] = NoCall] /\ UNCHANGED <<wake, wpc, wjob, wseen>>

(* What the task does after its persist returned. *)
Returned(w) ==
  IF w = Worker
  THEN /\ IF wpc = "saveRunning"
          THEN wpc' = "ask" /\ UNCHANGED <<wjob, wseen>>
          ELSE wpc' = "look" /\ wjob' = 0 /\ wseen' = 0
       /\ UNCHANGED <<wake, call>>
  ELSE /\ wake' = (wake \/ call[w].pc = "saveWake")
       /\ call' = [call EXCEPT ![w] = NoCall]
       /\ UNCHANGED <<wpc, wjob, wseen>>

(* A rename that finds no tmp is logged and forgotten. *)
Rename(w) ==
  /\ io[w].pc = "rename"
  /\ IF tmp = Missing
     THEN io' = [io EXCEPT ![w] = NoIO] /\ UNCHANGED <<tmp, disk>>
     ELSE /\ disk' = tmp /\ tmp' = Missing
          /\ io' = [v \in Writers |-> IF v = w THEN NoIO
                                      ELSE [io[v] EXCEPT !.on = Moved(@)]]
  /\ Returned(w)
  /\ UNCHANGED <<jobs, waiting, nextId, wpass, wreply, claims, overlap, boundVars>>

Persist(w) == Snapshot(w) \/ OpenTmp(w) \/ WriteTmp(w) \/ Rename(w)
-----------------------------------------------------------------------------
(* The worker. *)

Ready == {j \in JobIds : jobs[j].status = "queued" /\ j \notin waiting}

(* next_ready: the oldest ready job, cloned; none puts the worker to sleep. *)
Look ==
  /\ wpc = "look"
  /\ \/ \E j \in Ready :
          /\ \A k \in Ready : j <= k
          /\ wjob' = j /\ wseen' = jobs[j].attempts /\ wpc' = "mark"
     \/ Ready = {} /\ wpc' = "asleep" /\ UNCHANGED <<wjob, wseen>>
  /\ UNCHANGED <<jobs, waiting, nextId, wake, wpass, wreply, claims, call, io, fileVars, boundVars>>

Woken ==
  /\ wpc = "asleep" /\ wake
  /\ wake' = FALSE /\ wpc' = "look"
  /\ UNCHANGED <<jobs, waiting, nextId, wjob, wseen, wpass, wreply, claims, call, io,
                 fileVars, boundVars>>

\* Mutant: the select has no sleep arm.
TickOnPermit ==
  /\ wpc = "asleep" /\ wake
  /\ wpc' = "look"
  /\ UNCHANGED <<jobs, waiting, nextId, wake, wjob, wseen, wpass, wreply, claims, call, io,
                 fileVars, boundVars>>

(* The 30 s tick of the same select. *)
Tick ==
  /\ wpc = "asleep"
  /\ wpc' = "look"
  /\ UNCHANGED <<jobs, waiting, nextId, wake, wjob, wseen, wpass, wreply, claims, call, io,
                 fileVars, boundVars>>

(* update: a job that is no longer in the table is passed over silently. *)
Update(new) ==
  IF jobs[wjob].status = "absent" THEN UNCHANGED jobs
  ELSE jobs' = [jobs EXCEPT ![wjob] = new]

MarkRunning ==
  /\ wpc = "mark"
  /\ Update([jobs[wjob] EXCEPT !.status = "running", !.attempts = @ + 1])
  /\ wpc' = "saveRunning" /\ wpass' = 0
  /\ io' = [io EXCEPT ![Worker] = Saving]
  /\ UNCHANGED <<waiting, nextId, wake, wjob, wseen, wreply, claims, call, fileVars, boundVars>>

(* One request to the gateway; a refusal that names the ceiling is retried  *)
(* once with it.                                                            *)
Ask(reply) ==
  /\ wpc = "ask"
  /\ IF reply = "too_long" /\ wpass = 0
     THEN wpass' = 1 /\ UNCHANGED <<wpc, wreply>>
     ELSE wpc' = "settle" /\ wreply' = reply /\ UNCHANGED wpass
  /\ claims' = IF reply \in {"committed", "cut_off"} THEN claims \cup {wjob} ELSE claims
  /\ UNCHANGED <<jobs, waiting, nextId, wake, wjob, wseen, call, io, fileVars, boundVars>>

\* Mutant: every job block counts as mined (the 2026-09-20 drill).
OutcomeAnyBlock(reply) ==
  CASE reply \in {"committed", "block", "not_committed"} -> "done"
    [] reply \in {"away", "cut_off"} -> "transient"
    [] OTHER -> "refused"

Outcome(reply) ==
  CASE reply \in {"committed", "block"} -> "done"
    [] reply \in {"away", "cut_off"}    -> "transient"
    [] OTHER                            -> "refused"

\* Mutant: the attempt being settled is not counted.
GiveUpLate == wseen >= MaxAttempts

GiveUp == wseen + 1 >= MaxAttempts

(* run_job's outcome written back.  The retry count is the clone's. *)
Settle ==
  /\ wpc = "settle"
  /\ CASE Outcome(wreply) = "done" ->
            Update([jobs[wjob] EXCEPT !.status = "committed"]) /\ UNCHANGED waiting
       [] Outcome(wreply) = "refused" ->
            Update([jobs[wjob] EXCEPT !.status = "refused"]) /\ UNCHANGED waiting
       [] OTHER ->
            IF GiveUp
            THEN Update([jobs[wjob] EXCEPT !.status = "failed"]) /\ UNCHANGED waiting
            ELSE /\ Update([jobs[wjob] EXCEPT !.status = "queued"])
                 /\ waiting' = waiting \cup ({wjob} \ {j \in JobIds : jobs[j].status = "absent"})
  /\ wpc' = "saveOutcome" /\ wpass' = 0 /\ wreply' = "none"
  /\ io' = [io EXCEPT ![Worker] = Saving]
  /\ UNCHANGED <<nextId, wake, wjob, wseen, claims, call, fileVars, boundVars>>

BackoffElapses(j) ==
  /\ j \in waiting
  /\ waiting' = waiting \ {j}
  /\ UNCHANGED <<jobs, nextId, wake, workVars, call, io, fileVars, boundVars>>
-----------------------------------------------------------------------------
\* Mutant: a running job is taken from the file as it is.
RecoverAsIs(t) == IF t \notin Table THEN Empty ELSE t

(* open: what a start makes of the file. *)
Recover(t) ==
  IF t \notin Table THEN Empty
  ELSE [j \in JobIds |-> IF t[j].status = "running" THEN [t[j] EXCEPT !.status = "queued"]
                         ELSE t[j]]

(* The process dies and the next one opens the file; any backoff may have   *)
(* elapsed meanwhile; a job the file holds as never tried has none.         *)
Crash ==
  /\ crashes < MaxCrashes /\ crashes' = crashes + 1
  /\ jobs' = Recover(disk)
  /\ waiting' \in SUBSET {j \in waiting : jobs'[j].attempts > 0}
  /\ wake' = FALSE
  /\ wpc' = "look" /\ wjob' = 0 /\ wseen' = 0 /\ wpass' = 0 /\ wreply' = "none"
  /\ call' = [c \in Callers |-> NoCall]
  /\ io' = [w \in Writers |-> NoIO]
  /\ UNCHANGED <<nextId, claims, fileVars, retries, hangups>>

Enqueue(c) == EnqueuePush(c) \/ \E p \in Prompts : EnqueueCheck(c, p)

Next ==
  \/ \E c \in Callers : Enqueue(c) \/ Abandon(c)
  \/ \E c \in Callers, j \in JobIds : Remove(c, j) \/ Retry(c, j)
  \/ \E w \in Writers : Persist(w)
  \/ Look \/ Woken \/ Tick \/ MarkRunning \/ Settle
  \/ \E r \in Replies : Ask(r)
  \/ \E j \in JobIds : BackoffElapses(j)
  \/ Crash

Spec == Init /\ [][Next]_vars

(* Tasks that can run do run; a request ends because it carries a timeout;  *)
(* clocks advance.  The person, hang-ups and crashes owe nothing.           *)
Fairness ==
  /\ \A w \in Writers : WF_vars(Persist(w))
  /\ \A c \in Callers : WF_vars(EnqueuePush(c))
  /\ WF_vars(Look) /\ WF_vars(Woken) /\ WF_vars(Tick) /\ WF_vars(MarkRunning) /\ WF_vars(Settle)
  /\ WF_vars(\E r \in Replies : Ask(r))
  /\ \A j \in JobIds : WF_vars(BackoffElapses(j))

FairSpec == Spec /\ Fairness
-----------------------------------------------------------------------------
(* Safety. *)

(* One job at a time: a job the table calls running is the one the worker   *)
(* is inside, and its attempts count the clone the outcome is settled with. *)
(* (spawn_worker, "One at a time"; open's requeue after a crash.)           *)
RunningIsWorkers ==
  \A j \in JobIds : jobs[j].status = "running" =>
    /\ wpc \in {"saveRunning", "ask", "settle"}
    /\ wjob = j
    /\ jobs[j].attempts = wseen + 1

(* A job is tried MAX_TRANSIENT_ATTEMPTS times; only a restart between the  *)
(* saved "running" and its outcome adds a try, and a job is given up only   *)
(* after all of them.  (spawn_worker's give_up, read from the clone.)       *)
AttemptsBounded ==
  \A j \in JobIds :
    /\ jobs[j].attempts <= MaxAttempts + crashes
    /\ jobs[j].status = "failed" => jobs[j].attempts >= MaxAttempts

(* Committed is said only of a prompt a claim exists for, whatever happened *)
(* in between (run_job, "A job block is not a commitment"); for gateways    *)
(* that give the verdict.                                                   *)
CommittedMeansClaimed ==
  \A j \in JobIds : jobs[j].status = "committed" => j \in claims

(* A worker asleep with a never-tried ready job has a permit waiting or a   *)
(* handler on its way to leave one: the 30 s tick is for backoffs, not for  *)
(* new prompts.  (enqueue and retry notify after the persist.)              *)
NoLostWakeup ==
  wpc = "asleep" /\ hangups = 0 =>
    \A j \in Ready : jobs[j].attempts = 0 =>
      wake \/ \E c \in Callers : call[c].pc = "saveWake"

(* A live job leaves the table only by hand, before it started, or with the *)
(* process; and a committed one is history: short of a restart from an older *)
(* file it is never queued, run or settled again.  (trim: "the queue's live  *)
(* entries are never candidates"; remove and retry refuse by status.)        *)
JobsMoveOn ==
  [][\A j \in JobIds :
       /\ Live(jobs[j]) /\ jobs'[j].status = "absent" =>
            \/ crashes' # crashes
            \/ /\ jobs[j].status = "queued"
               /\ \E c \in Callers : call[c] = NoCall /\ call'[c].pc = "save"
       /\ jobs[j].status = "committed" /\ crashes' = crashes =>
            jobs'[j].status \in {"committed", "absent"}]_vars

(* What a restart would find is what the table holds, a running job counted *)
(* as the queued one it would become.                                       *)
Quiet == /\ \A w \in Writers : io[w] = NoIO
         /\ \A c \in Callers : call[c] = NoCall

Saved == Recover(disk) = Recover(jobs)

(* While persists do not overlap and no client leaves one, a finished one   *)
(* has saved the table; and the file is never half-written at any step, so  *)
(* a crash is safe.  (persist, write_atomic.)                               *)
LonePersistSaves ==
  ~overlap => /\ hangups = 0 /\ Quiet => Saved
              /\ disk \in Table \cup {Missing}

(* What the table says of a job is so, whatever was lost on the way, and a  *)
(* crash leaves it so: the file is the table some persist saved.            *)
JobsAreTrue == AttemptsBounded /\ CommittedMeansClaimed /\ LonePersistSaves
-----------------------------------------------------------------------------
(* What the code says of itself and does not keep. *)

(* "The same prompt, still waiting, is the same job": no push adds a second *)
(* queued job for a prompt.  (enqueue.)                                     *)
NoTwinPushed ==
  [][\A j \in JobIds :
       jobs[j].status = "absent" /\ jobs'[j].status = "queued" /\ crashes' = crashes =>
         ~Twin(jobs'[j].prompt)]_vars

(* "Persistence is a single JSON file rewritten atomically": once nothing   *)
(* is being written, the file holds every live job, overlapping persists or *)
(* not.                                                                     *)
LiveJobsAreOnDisk ==
  Quiet => \A j \in JobIds : Live(jobs[j]) => Live(Recover(disk)[j])

(* "Drop a job that has not started. A running job is the gateway's now":   *)
(* what goes to the gateway is a job the table holds as running.            *)
SentIsRunning ==
  wpc = "ask" => jobs[wjob].status = "running"
-----------------------------------------------------------------------------
(* Liveness. *)

(* Every live job is settled or dropped in the end: the worker neither      *)
(* sleeps on it nor retries it for ever.                                    *)
LiveJobSettles ==
  \A j \in JobIds : Live(jobs[j]) ~> ~Live(jobs[j])
=============================================================================
