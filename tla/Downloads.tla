------------------------------ MODULE Downloads ------------------------------
(***************************************************************************)
(* The download manager (crates/misaka-studio-runtime/src/download.rs) and *)
(* what the model store does to the same file (store.rs): one destination, *)
(* its .part file and its sidecar, every handler and task that touches     *)
(* them, and the crash that ends them all.                                 *)
(*                                                                         *)
(* A slot is one call of start or fetch and the task it spawns.  A file is *)
(* the sequence of its chunks, a chunk <<c, i>> the i-th of content c; its *)
(* digest is the content itself.  An open file follows the bytes, not the  *)
(* name: a rename carries the writers along, a removal leaves them writing *)
(* to a file without a name ("gone").  Progress numbers, rates, the scan's *)
(* list and the sidecar's source are left out.                             *)
(***************************************************************************)
EXTENDS Naturals, Sequences, FiniteSets

CONSTANTS
  Slots, Hashers, Waiters,   \* downloads under way; ensure_hashed; wait
  Ids, Kind,       \* job ids, and what each installs: model, artifact, fetch
  Contents,        \* what a repository may serve for the file
  Length,          \* [Contents -> chunks of it]
  Offers,          \* the <<id, content>> that may be asked for
  Digested,        \* ids whose digest the repository publishes
  NoFile, NoSlot, NoId, NoContent,
  IgnoresRange,    \* whether a server may answer a Range request with all of it
  LateWrites,      \* whether a write begun before a failure may land after it
  MaxCuts, MaxCancels, MaxCrashes, MaxHangups, MaxDeletes   \* bounds: how often

ASSUME DownloadsAssumption ==
  /\ Kind \in [Ids -> {"model", "artifact", "fetch"}]
  /\ Length \in [Contents -> Nat \ {0}]
  /\ Offers \subseteq Ids \X Contents /\ Digested \subseteq Ids
  /\ IgnoresRange \in BOOLEAN /\ LateWrites \in BOOLEAN
  /\ {MaxCuts, MaxCancels, MaxCrashes, MaxHangups, MaxDeletes} \subseteq Nat
  /\ NoSlot \notin Slots /\ NoId \notin Ids /\ NoContent \notin Contents

VARIABLES
  file,     \* ["part", "dest" -> the chunks, or NoFile]
  late,     \* writes in flight whose writer has already failed
  sidecar,  \* the recorded digest and the size it was computed at; {} where none
  job,      \* [Ids -> status]: DownloadManager.jobs
  owner,    \* [Ids -> the slot whose cancel flag the job holds]
  cancel,   \* [Slots -> BOOLEAN]: the flag itself
  at,       \* [Slots -> where it is]
  frame,    \* [Slots -> its local variables]
  hash,     \* [Hashers -> an ensure_hashed under way]
  wait,     \* [Waiters -> a wait under way]
  left      \* what the bounds leave of each accident

jobVars  == <<job, owner>>
vars == <<file, late, sidecar, jobVars, cancel, at, frame, hash, wait, left>>

Names == {"part", "dest"}
Entry == {"exists", "remove", "check", "reuse", "keep", "drop", "insert"}
Transfer == {"measure", "send", "open", "stream", "hash", "discard", "rename", "sidecar"}
Outcome  == {"completed", "failed", "cancelled"}
Running  == {"downloading", "verifying"}
Task     == Transfer \cup Outcome

Whole(c) == [i \in 1..Length[c] |-> <<c, i>>]
Starts(f, g) == Len(f) <= Len(g) /\ \A i \in 1..Len(f) : f[i] = g[i]

\* A write: to which file, at which position (0 appends), of which chunk.
Hole   == <<NoContent, 0>>
Chunk  == (Contents \cup {NoContent}) \X Nat
Write  == [to: Names \cup {"gone"}, pos: Nat, chunk: Chunk]

ASSUME NoFileAssumption == NoFile \notin Seq(Chunk)

NoFrame == [id |-> NoId, want |-> NoContent, from |-> 0, next |-> 0, to |-> "gone", fly |-> 0]
Frame   == [id: Ids \cup {NoId}, want: Contents \cup {NoContent}, from: Nat, next: Nat,
            to: Names \cup {"gone"}, fly: Nat]

TypeOK ==
  /\ file \in [Names -> Seq(Chunk) \cup {NoFile}]
  /\ late \subseteq Write
  /\ sidecar.digest \subseteq Seq(Chunk) /\ sidecar.size \subseteq Nat
  /\ Cardinality(sidecar.digest) <= 1 /\ Cardinality(sidecar.size) <= 1
  /\ job \in [Ids -> {"none"} \cup Running \cup Outcome]
  /\ owner \in [Ids -> Slots \cup {NoSlot}]
  /\ cancel \in [Slots -> BOOLEAN]
  /\ at \in [Slots -> {"idle"} \cup Entry \cup Task]
  /\ frame \in [Slots -> Frame]
  /\ \A s \in Slots : at[s] # "idle" => frame[s].id \in Ids /\ frame[s].want \in Contents
  /\ \A h \in Hashers : hash[h].at \in {"idle", "read", "save"} /\ hash[h].size \in Nat
  /\ wait \in [Waiters -> [at: {"idle", "look", "sleep"}, id: Ids \cup {NoId}, heard: BOOLEAN]]
  /\ left \in [{"cut", "cancel", "crash", "hangup", "delete"} -> Nat]

NoHash == [at |-> "idle", size |-> 0, digest |-> {}]
NoWait == [at |-> "idle", id |-> NoId, heard |-> FALSE]
NoSidecar == [digest |-> {}, size |-> {}]

NoJobs   == [i \in Ids |-> "none"]
NoOwners == [i \in Ids |-> NoSlot]
NoCancel == [s \in Slots |-> FALSE]
AllIdle  == [s \in Slots |-> "idle"]
NoFrames == [s \in Slots |-> NoFrame]
NoHashes == [h \in Hashers |-> NoHash]
NoWaits  == [w \in Waiters |-> NoWait]

Init ==
  /\ file = [n \in Names |-> NoFile] /\ sidecar = NoSidecar /\ late = {}
  /\ job = NoJobs /\ owner = NoOwners /\ cancel = NoCancel
  /\ at = AllIdle /\ frame = NoFrames /\ hash = NoHashes /\ wait = NoWaits
  /\ left = [cut |-> MaxCuts, cancel |-> MaxCancels, crash |-> MaxCrashes,
             hangup |-> MaxHangups, delete |-> MaxDeletes]
-----------------------------------------------------------------------------
Active(id) == job[id] \in Running
Goto(s, place) == at' = [at EXCEPT ![s] = place]
Spend(what) == left[what] > 0 /\ left' = [left EXCEPT ![what] = @ - 1]

(* A job is written and its event sent, which every waiter will receive. *)
Tell == wait' = [w \in Waiters |-> [wait[w] EXCEPT !.heard = @ \/ wait[w].at # "idle"]]

(* update: only when the job is still in the table. *)
Update(id, status) ==
  IF job[id] = "none" THEN UNCHANGED <<job, wait>>
  ELSE job' = [job EXCEPT ![id] = status] /\ Tell

(* The handler or the task ends and drops its cancel flag. *)
Return(s) ==
  /\ Goto(s, "idle") /\ frame' = [frame EXCEPT ![s] = NoFrame]
  /\ cancel' = [cancel EXCEPT ![s] = FALSE]
  /\ owner' = [i \in Ids |-> IF owner[i] = s THEN NoSlot ELSE owner[i]]

(* Open files follow the bytes: what each name's writers write to from now on. *)
Follow(moves) ==
  /\ frame' = [s \in Slots |-> [frame[s] EXCEPT !.to = moves[@]]]
  /\ late'  = {[w EXCEPT !.to = moves[@]] : w \in late}

Unlink(n) ==
  /\ file' = [file EXCEPT ![n] = NoFile]
  /\ Follow([w \in Names \cup {"gone"} |-> IF w = n THEN "gone" ELSE w])

(* One chunk put into a file; a position past the end leaves a hole. *)
Put(f, pos, chunk) ==
  IF pos = 0 THEN Append(f, chunk)
  ELSE [i \in 1..(IF pos > Len(f) THEN pos ELSE Len(f)) |->
          IF i = pos THEN chunk ELSE IF i <= Len(f) THEN f[i] ELSE Hole]

Landed(to, pos, chunk) ==
  IF to = "gone" THEN file ELSE [file EXCEPT ![to] = Put(@, pos, chunk)]
-----------------------------------------------------------------------------
(* start and fetch, up to the spawned task. *)

Request(s, id, c) ==
  /\ at[s] = "idle"
  /\ frame' = [frame EXCEPT ![s] = [NoFrame EXCEPT !.id = id, !.want = c]]
  /\ Goto(s, IF Kind[id] = "fetch" THEN "check" ELSE "exists")
  /\ UNCHANGED <<file, late, sidecar, jobVars, cancel, hash, wait, left>>

\* Mutant: a model that is already there is replaced, as an artifact is.
ExistsReplaces(s) ==
  /\ at[s] = "exists"
  /\ Goto(s, IF file["dest"] = NoFile THEN "check" ELSE "remove")
  /\ UNCHANGED <<owner, cancel, frame, file, late, sidecar, job, hash, wait, left>>

(* A model that is already there is refused, an artifact replaced. *)
Exists(s) ==
  /\ at[s] = "exists"
  /\ \/ file["dest"] = NoFile /\ Goto(s, "check") /\ UNCHANGED <<owner, cancel, frame>>
     \/ /\ file["dest"] # NoFile /\ Kind[frame[s].id] = "artifact"
        /\ Goto(s, "remove") /\ UNCHANGED <<owner, cancel, frame>>
     \/ file["dest"] # NoFile /\ Kind[frame[s].id] = "model" /\ Return(s)
  /\ UNCHANGED <<file, late, sidecar, job, hash, wait, left>>

Remove(s) ==
  /\ at[s] = "remove"
  /\ IF file["dest"] = NoFile THEN Return(s) /\ UNCHANGED <<file, late>>
     ELSE Unlink("dest") /\ Goto(s, "check") /\ UNCHANGED <<owner, cancel>>
  /\ UNCHANGED <<sidecar, job, hash, wait, left>>

\* Mutant: any job of the same id is joined, a failed one too.
CheckAnyJob(s) ==
  /\ at[s] = "check"
  /\ IF job[frame[s].id] # "none" THEN Return(s)
     ELSE /\ Goto(s, IF Kind[frame[s].id] = "fetch" THEN "reuse" ELSE "insert")
          /\ UNCHANGED <<owner, cancel, frame>>
  /\ UNCHANGED <<file, late, sidecar, job, hash, wait, left>>

(* A running download of the same id is joined, not started again. *)
Check(s) ==
  /\ at[s] = "check"
  /\ IF Active(frame[s].id) THEN Return(s)
     ELSE /\ Goto(s, IF Kind[frame[s].id] = "fetch" THEN "reuse" ELSE "insert")
          /\ UNCHANGED <<owner, cancel, frame>>
  /\ UNCHANGED <<file, late, sidecar, job, hash, wait, left>>

(* fetch hashes what is there: kept when the digest matches, else replaced. *)
Reuse(s) ==
  /\ at[s] = "reuse"
  /\ Goto(s, IF file["dest"] = NoFile THEN "insert"
             ELSE IF frame[s].id \in Digested /\ file["dest"] = Whole(frame[s].want)
                  THEN "keep" ELSE "drop")
  /\ UNCHANGED <<file, late, sidecar, jobVars, cancel, frame, hash, wait, left>>

Keep(s) ==
  /\ at[s] = "keep" /\ Goto(s, "idle") /\ frame' = [frame EXCEPT ![s] = NoFrame]
  /\ job' = [job EXCEPT ![frame[s].id] = "completed"]
  /\ owner' = [owner EXCEPT ![frame[s].id] = NoSlot] /\ Tell
  /\ UNCHANGED <<file, late, sidecar, cancel, hash, left>>

Drop(s) ==
  /\ at[s] = "drop" /\ Unlink("dest") /\ Goto(s, "insert")
  /\ UNCHANGED <<sidecar, jobVars, cancel, hash, wait, left>>

(* The job enters the table and its task is spawned; no await in between. *)
Insert(s) ==
  /\ at[s] = "insert" /\ Goto(s, "measure")
  /\ job' = [job EXCEPT ![frame[s].id] = "downloading"]
  /\ owner' = [owner EXCEPT ![frame[s].id] = s] /\ Tell
  /\ UNCHANGED <<file, late, sidecar, cancel, frame, hash, left>>

(* The client disconnects and its handler is dropped at an await. *)
Hangup(s) ==
  /\ at[s] \in Entry \ {"exists"} /\ Spend("hangup") /\ Return(s)
  /\ UNCHANGED <<file, late, sidecar, job, hash, wait>>
-----------------------------------------------------------------------------
(* run, and the task around it. *)

Measure(s) ==
  /\ at[s] = "measure" /\ Goto(s, "send")
  /\ frame' = [frame EXCEPT ![s].from = IF file["part"] = NoFile THEN 0 ELSE Len(file["part"])]
  /\ UNCHANGED <<file, late, sidecar, jobVars, cancel, hash, wait, left>>

(* 206: the rest.  200: all of it, asked for or not.  416, or any other error. *)
Partial(s) ==
  /\ at[s] = "send" /\ frame[s].from \in 1..(Length[frame[s].want] - 1) /\ Goto(s, "open")
  /\ frame' = [frame EXCEPT ![s].next = frame[s].from + 1]
  /\ UNCHANGED <<file, late, sidecar, jobVars, cancel, hash, wait, left>>

\* Mutant: the answer's status is not looked at.
AllOfItAppended(s) ==
  /\ at[s] = "send" /\ (frame[s].from = 0 \/ IgnoresRange) /\ Goto(s, "open")
  /\ frame' = [frame EXCEPT ![s].next = 1]
  /\ UNCHANGED <<file, late, sidecar, jobVars, cancel, hash, wait, left>>

AllOfIt(s) ==
  /\ at[s] = "send" /\ (frame[s].from = 0 \/ IgnoresRange) /\ Goto(s, "open")
  /\ frame' = [frame EXCEPT ![s].from = 0, ![s].next = 1]
  /\ UNCHANGED <<file, late, sidecar, jobVars, cancel, hash, wait, left>>

NothingLeft(s) ==
  /\ at[s] = "send" /\ frame[s].from >= Length[frame[s].want] /\ Goto(s, "failed")
  /\ UNCHANGED <<file, late, sidecar, jobVars, cancel, frame, hash, wait, left>>

Refused(s) ==
  /\ at[s] = "send" /\ Spend("cut") /\ Goto(s, "failed")
  /\ UNCHANGED <<file, late, sidecar, jobVars, cancel, frame, hash, wait>>

\* Mutant: the file is always opened afresh.
OpenTruncates(s) ==
  /\ at[s] = "open" /\ Goto(s, "stream")
  /\ file' = [file EXCEPT !["part"] = <<>>]
  /\ frame' = [frame EXCEPT ![s].to = "part"]
  /\ UNCHANGED <<late, sidecar, jobVars, cancel, hash, wait, left>>

(* Truncated when the bytes come from the start, else appended to; created. *)
Open(s) ==
  /\ at[s] = "open" /\ Goto(s, "stream")
  /\ file' = [file EXCEPT !["part"] = IF frame[s].from = 0 \/ @ = NoFile THEN <<>> ELSE @]
  /\ frame' = [frame EXCEPT ![s].to = "part"]
  /\ UNCHANGED <<late, sidecar, jobVars, cancel, hash, wait, left>>

More(s) == at[s] = "stream" /\ frame[s].next <= Length[frame[s].want]
Position(s) == IF frame[s].from > 0 THEN 0 ELSE frame[s].fly
Flying(s)   == <<frame[s].want, frame[s].fly>>

(* write_all hands the chunk over once the one before it is on disk. *)
Receive(s) ==
  /\ More(s) /\ ~cancel[s] /\ frame[s].fly = 0
  /\ frame' = [frame EXCEPT ![s].next = @ + 1, ![s].fly = frame[s].next]
  /\ UNCHANGED <<file, late, sidecar, jobVars, cancel, at, hash, wait, left>>

Land(s) ==
  /\ frame[s].fly # 0 /\ file' = Landed(frame[s].to, Position(s), Flying(s))
  /\ frame' = [frame EXCEPT ![s].fly = 0]
  /\ UNCHANGED <<late, sidecar, jobVars, cancel, at, hash, wait, left>>

LandLate(w) ==
  /\ file' = Landed(w.to, w.pos, w.chunk) /\ late' = late \ {w}
  /\ UNCHANGED <<sidecar, jobVars, cancel, at, frame, hash, wait, left>>

(* The flag is read when a chunk arrives; the file is flushed first. *)
Stop(s) ==
  /\ More(s) /\ cancel[s] /\ frame[s].fly = 0 /\ Goto(s, "cancelled")
  /\ UNCHANGED <<file, late, sidecar, jobVars, cancel, frame, hash, wait, left>>

(* The transfer is interrupted; the file is dropped, not flushed. *)
Cut(s) ==
  /\ More(s) /\ (LateWrites \/ frame[s].fly = 0) /\ Spend("cut") /\ Goto(s, "failed")
  /\ late' = late \cup {w \in {[to |-> frame[s].to, pos |-> Position(s), chunk |-> Flying(s)]} :
                          frame[s].fly # 0}
  /\ frame' = [frame EXCEPT ![s].fly = 0]
  /\ UNCHANGED <<file, sidecar, jobVars, cancel, hash, wait>>

(* The last byte is on disk.  A write that outlives its failed task takes    *)
(* milliseconds, so it has landed before a later attempt has come this far.  *)
End(s) ==
  /\ at[s] = "stream" /\ ~More(s) /\ frame[s].fly = 0 /\ late = {}
  /\ IF frame[s].id \in Digested THEN Update(frame[s].id, "verifying") /\ Goto(s, "hash")
     ELSE Goto(s, "rename") /\ UNCHANGED <<job, wait>>
  /\ frame' = [frame EXCEPT ![s].to = "gone"]
  /\ UNCHANGED <<file, late, sidecar, owner, cancel, hash, left>>

\* Mutant: a file of the right size will do.
HashBySize(s) ==
  /\ at[s] = "hash"
  /\ Goto(s, IF file["part"] = NoFile THEN "failed"
             ELSE IF Len(file["part"]) = Length[frame[s].want] THEN "rename" ELSE "discard")
  /\ UNCHANGED <<file, late, sidecar, jobVars, cancel, frame, hash, wait, left>>

\* Mutant: a mismatch loses track of which download it is.
HashForgets(s) ==
  /\ at[s] = "hash"
  /\ IF file["part"] = Whole(frame[s].want)
     THEN Goto(s, "rename") /\ UNCHANGED frame
     ELSE Goto(s, "failed") /\ frame' = [frame EXCEPT ![s] = NoFrame]
  /\ UNCHANGED <<file, late, sidecar, jobVars, cancel, hash, wait, left>>

(* The .part file is read back by name. *)
Hash(s) ==
  /\ at[s] = "hash"
  /\ Goto(s, IF file["part"] = NoFile THEN "failed"
             ELSE IF file["part"] = Whole(frame[s].want) THEN "rename" ELSE "discard")
  /\ UNCHANGED <<file, late, sidecar, jobVars, cancel, frame, hash, wait, left>>

\* Mutant: a task whose bytes are wrong ends without a word.
DiscardGivesUp(s) ==
  /\ at[s] = "discard" /\ file' = [file EXCEPT !["part"] = NoFile] /\ Return(s)
  /\ UNCHANGED <<late, sidecar, job, hash, wait, left>>

Discard(s) ==
  /\ at[s] = "discard" /\ Unlink("part") /\ Goto(s, "failed")
  /\ UNCHANGED <<sidecar, jobVars, cancel, hash, wait, left>>

Rename(s) ==
  /\ at[s] = "rename"
  /\ IF file["part"] = NoFile THEN Goto(s, "failed") /\ UNCHANGED <<file, late, frame>>
     ELSE /\ file' = [part |-> NoFile, dest |-> file["part"]]
          /\ Follow([w \in Names \cup {"gone"} |-> IF w = "part" THEN "dest" ELSE "gone"])
          /\ Goto(s, IF Kind[frame[s].id] = "fetch" THEN "completed" ELSE "sidecar")
  /\ UNCHANGED <<sidecar, jobVars, cancel, hash, wait, left>>

SizeOf(n) == IF file[n] = NoFile THEN {} ELSE {Len(file[n])}

WriteSidecar(s) ==
  /\ at[s] = "sidecar" /\ Goto(s, "completed")
  /\ sidecar' = [digest |-> IF frame[s].id \in Digested THEN {Whole(frame[s].want)} ELSE {},
                 size |-> SizeOf("dest")]
  /\ UNCHANGED <<file, late, jobVars, cancel, frame, hash, wait, left>>

\* Mutant: the status changes and nobody is told.
SettleQuietly(s) ==
  /\ at[s] \in Outcome
  /\ job' = [job EXCEPT ![frame[s].id] = IF @ = "none" THEN "none" ELSE at[s]] /\ Return(s)
  /\ UNCHANGED <<file, late, sidecar, hash, wait, left>>

(* finish. *)
Settle(s) ==
  /\ at[s] \in Outcome /\ Update(frame[s].id, at[s]) /\ Return(s)
  /\ UNCHANGED <<file, late, sidecar, hash, left>>
-----------------------------------------------------------------------------
(* The other handlers. *)

Cancel(id) ==
  /\ owner[id] # NoSlot /\ Spend("cancel") /\ cancel' = [cancel EXCEPT ![owner[id]] = TRUE]
  /\ UNCHANGED <<file, late, sidecar, jobVars, at, frame, hash, wait>>

(* cancel_all, at shutdown. *)
CancelAll ==
  /\ Spend("cancel")
  /\ cancel' = [s \in Slots |-> cancel[s] \/ \E id \in Ids : Active(id) /\ owner[id] = s]
  /\ UNCHANGED <<file, late, sidecar, jobVars, at, frame, hash, wait>>

\* Mutant: any job may be forgotten.
ForgetAny(id) ==
  /\ job' = [job EXCEPT ![id] = "none"] /\ owner' = [owner EXCEPT ![id] = NoSlot]
  /\ UNCHANGED <<file, late, sidecar, cancel, at, frame, hash, wait, left>>

Forget(id) ==
  /\ job[id] \in Outcome
  /\ job' = [job EXCEPT ![id] = "none"] /\ owner' = [owner EXCEPT ![id] = NoSlot]
  /\ UNCHANGED <<file, late, sidecar, cancel, at, frame, hash, wait, left>>

(* wait subscribes before it looks, so an event in between wakes it. *)
Wait(w, id) ==
  /\ wait[w].at = "idle" /\ wait' = [wait EXCEPT ![w] = [at |-> "look", id |-> id, heard |-> FALSE]]
  /\ UNCHANGED <<file, late, sidecar, jobVars, cancel, at, frame, hash, left>>

WaitLook(w) ==
  /\ wait[w].at = "look"
  /\ wait' = [wait EXCEPT ![w] = IF Active(@.id) THEN [@ EXCEPT !.at = "sleep"] ELSE NoWait]
  /\ UNCHANGED <<file, late, sidecar, jobVars, cancel, at, frame, hash, left>>

WaitHear(w) ==
  /\ wait[w].at = "sleep" /\ wait[w].heard
  /\ wait' = [wait EXCEPT ![w].at = "look", ![w].heard = FALSE]
  /\ UNCHANGED <<file, late, sidecar, jobVars, cancel, at, frame, hash, left>>

(* What a scan or ensure_hashed takes for the file's digest. *)
Trusted == file["dest"] # NoFile /\ sidecar.digest # {} /\ sidecar.size = SizeOf("dest")

(* ensure_hashed: skipped when the recorded digest is for a file of this size. *)
HashBegin(h) ==
  /\ hash[h].at = "idle" /\ file["dest"] # NoFile /\ ~Trusted
  /\ hash' = [hash EXCEPT ![h] = [at |-> "read", size |-> Len(file["dest"]), digest |-> {}]]
  /\ UNCHANGED <<file, late, sidecar, jobVars, cancel, at, frame, wait, left>>

HashRead(h) ==
  /\ hash[h].at = "read"
  /\ hash' = [hash EXCEPT ![h] = IF file["dest"] = NoFile THEN NoHash
                                 ELSE [@ EXCEPT !.at = "save", !.digest = {file["dest"]}]]
  /\ UNCHANGED <<file, late, sidecar, jobVars, cancel, at, frame, wait, left>>

HashSave(h) ==
  /\ hash[h].at = "save" /\ hash' = [hash EXCEPT ![h] = NoHash]
  /\ sidecar' = [digest |-> hash[h].digest, size |-> {hash[h].size}]
  /\ UNCHANGED <<file, late, jobVars, cancel, at, frame, wait, left>>

(* ModelStore::delete: the file, then its sidecar. *)
Delete ==
  /\ file["dest"] # NoFile /\ Spend("delete") /\ Unlink("dest") /\ sidecar' = NoSidecar
  /\ UNCHANGED <<jobVars, cancel, at, hash, wait>>

(* The process dies; what was written stays. *)
Crash ==
  /\ Spend("crash") /\ late' = {}
  /\ job' = NoJobs /\ owner' = NoOwners /\ cancel' = NoCancel
  /\ at' = AllIdle /\ frame' = NoFrames /\ hash' = NoHashes /\ wait' = NoWaits
  /\ UNCHANGED <<file, sidecar>>
-----------------------------------------------------------------------------
Handler(s) == Exists(s) \/ Remove(s) \/ Check(s) \/ Reuse(s) \/ Keep(s) \/ Drop(s) \/ Insert(s)
Answer(s)  == Partial(s) \/ AllOfIt(s) \/ NothingLeft(s)
Transferring(s) ==
  \/ Measure(s) \/ Answer(s) \/ Open(s) \/ Receive(s) \/ Land(s) \/ Stop(s)
  \/ End(s) \/ Hash(s) \/ Discard(s) \/ Rename(s) \/ WriteSidecar(s) \/ Settle(s)
Accident(s) == Hangup(s) \/ Refused(s) \/ Cut(s)
Waiting(w)  == WaitLook(w) \/ WaitHear(w)
Hashing(h)  == HashBegin(h) \/ HashRead(h) \/ HashSave(h)

Ask(s) == \E o \in Offers : Request(s, o[1], o[2])

Next ==
  \/ \E s \in Slots : Ask(s) \/ Handler(s) \/ Transferring(s) \/ Accident(s)
  \/ \E w \in late : LandLate(w)
  \/ \E id \in Ids : Cancel(id) \/ Forget(id)
  \/ CancelAll \/ Delete \/ Crash
  \/ \E w \in Waiters : Waiting(w) \/ \E id \in Ids : Wait(w, id)
  \/ \E h \in Hashers : Hashing(h)

Spec == Init /\ [][Next]_vars

(* Handlers, tasks and waits are scheduled; a server goes on answering, and  *)
(* someone goes on asking for a file that is not there.                      *)
FairSpec ==
  /\ Spec
  /\ \A s \in Slots : WF_vars(Handler(s)) /\ WF_vars(Transferring(s))
  /\ \A w \in Waiters : WF_vars(Waiting(w))
  /\ WF_vars(\E w \in late : LandLate(w))

Wanted(s) == file["dest"] = NoFile /\ Ask(s)
EagerSpec == FairSpec /\ \A s \in Slots : WF_vars(Wanted(s))
-----------------------------------------------------------------------------
(* Safety.  At the destination there is a whole file or none, through every   *)
(* interruption, resume, revision change and crash: a finished file has been  *)
(* checked against the digest and nobody writes to it after (run).            *)
DestIsWhole == file["dest"] # NoFile => \E c \in Contents : file["dest"] = Whole(c)

(* A job shown as running has a task that will finish it: one without would   *)
(* be joined by every later start and never end.  And a task has a running    *)
(* job whose flag is the task's own: it can be seen, cancelled and not        *)
(* forgotten until it ends (start, cancel, forget, finish).                   *)
NoGhostJob ==
  \A id \in Ids : Active(id) => \E s \in Slots : at[s] \in Task /\ frame[s].id = id

TasksAreTracked ==
  \A s \in Slots : at[s] \in Task => Active(frame[s].id) /\ owner[frame[s].id] = s

JobsAreTracked == TypeOK /\ NoGhostJob /\ TasksAreTracked

(* A digest a scan trusts is the digest of the bytes that are there, and they *)
(* are a whole file (Sidecar, run).                                           *)
DigestIsTrue == Trusted => sidecar.digest = {file["dest"]}

ArrivedIsTrue == DestIsWhole /\ DigestIsTrue

(* Bytes received are never given up: a .part of one revision is a beginning  *)
(* of it, and only grows until it becomes the model, through failures,        *)
(* cancels and crashes, unless a server that ignored the range sends them all *)
(* again, and as long as no task resumes it for another revision (run).       *)
Of(c, f) == f # NoFile /\ \A i \in DOMAIN f : f[i][1] = c

PartIsPrefix == \A c \in Contents : Of(c, file["part"]) => Starts(file["part"], Whole(c))

Grows ==
  \/ file'["part"] = NoFile /\ file'["dest"] = file["part"]
  \/ file'["part"] # NoFile /\ Starts(file["part"], file'["part"])
  \/ \E s \in Slots : at[s] = "open" /\ at'[s] = "stream" /\ frame[s].from = 0

Resumed == \E c \in Contents : Of(c, file["part"]) /\ \A s \in Slots : at[s] \in Task => frame[s].want = c

BytesKept == []PartIsPrefix /\ [][Resumed => Grows]_vars
-----------------------------------------------------------------------------
(* What the code says of itself and does not keep, as DestIsWhole with two    *)
(* tasks, BytesKept with late writes and ArrivesInTheEnd with a crash. *)

(* No task writes to a file whose job is shown as over, and so can be forgotten *)
(* (forget).                                                                    *)
WritersAreShown == \A s \in Slots : at[s] \in Transfer => Active(frame[s].id)

(* The same once every download has come to rest: what a restart finds.        *)
RestingDigestIsTrue == (\A s \in Slots : at[s] = "idle") => DigestIsTrue

(* Liveness.  Whoever waits for a download is answered, unless it is started   *)
(* again without end, each time before the wait looks (wait, finish).           *)
WaitReturns ==
  \A w \in Waiters :
    wait[w].at # "idle" ~> (wait[w].at = "idle" \/ \E s \in Slots : at[s] = "insert")

(* A file asked for again and again arrives in the end (start, run). *)
ArrivesInTheEnd == <>(file["dest"] # NoFile)
=============================================================================
