---------------------------- MODULE WorkspaceFiles ----------------------------
(***************************************************************************)
(* Changing a workspace's files (crates/misaka-studio-runtime/src/         *)
(* workspace.rs: write, edit, remove, write_atomic; api/workspace.rs),     *)
(* beside other requests and other programs, with a process or a machine   *)
(* that may die between two system calls.                                  *)
(*                                                                         *)
(* Where a path leads is PathRules', what an edit does to a text is        *)
(* TextRules'.  Here a file's content is the changes it was made by, and a *)
(* kind that tells what the handlers look at.  A request's work runs to    *)
(* its end though the client has gone (blocking).                          *)
(***************************************************************************)
EXTENDS Naturals, Sequences, FiniteSets

CONSTANTS
  Requests, Paths,
  InFolder,              \* the paths in a folder of their own, which may not be there
  Other, Absent,         \* another program; no file
  Starts,                \* [Paths -> what may be there at first]
  MaxOthers, MaxLosses   \* bounds

Kinds == {"text", "large", "huge", "binary", "torn"}   \* large: over PREVIOUS_MAX_BYTES; huge: over WRITE_MAX_BYTES
Modes == {"plain", "program", "readonly"}
File(by, kind, mode, synced) == [by |-> by, kind |-> kind, mode |-> mode, synced |-> synced]

ASSUME FilesAssumption ==
  /\ InFolder \subseteq Paths /\ Other \notin Requests
  /\ Starts \subseteq [Paths -> {Absent} \cup [by: {<<Other>>}, kind: Kinds \ {"torn"}, mode: Modes, synced: {TRUE}]]

VARIABLES
  file,      \* [Paths -> the file, or Absent]
  past,      \* [Paths -> what may be on the disk instead]
  folder,    \* the folder of InFolder is there
  temp,      \* [Requests -> its temporary file: none, torn, whole, synced; its mode]
  request,   \* [Requests -> the request]
  meddled,   \* requests whose file something else changed since they looked
  left       \* what the bounds leave

vars == <<file, past, folder, temp, request, meddled, left>>

IsFile(f) ==
  /\ DOMAIN f = {"by", "kind", "mode", "synced"}
  /\ f.by \in Seq(Requests \cup {Other}) /\ f.kind \in Kinds /\ f.mode \in Modes /\ f.synced \in BOOLEAN

NoTemp == [is |-> "none", mode |-> "plain"]
Asked(op, p) == [op |-> op, path |-> p, at |-> "resolve", old |-> Absent, new |-> <<>>, took |-> FALSE, replaced |-> Absent]
NoAsk == [Asked("none", CHOOSE p \in Paths : TRUE) EXCEPT !.at = "none"]

Steps == {"resolve", "examine", "read", "folder", "check", "create", "write", "sync", "mode", "rename", "unlink", "clean", "reply"}

TypeOK ==
  /\ \A p \in Paths : file[p] = Absent \/ IsFile(file[p])
  /\ folder \in BOOLEAN /\ meddled \subseteq Requests
  /\ \A r \in Requests :
       /\ temp[r].is \in {"none", "torn", "whole", "synced"} /\ temp[r].mode \in Modes
       /\ request[r].op \in {"none", "write", "edit", "remove"} /\ request[r].path \in Paths
       /\ request[r].at \in {"none", "done", "refused", "lost"} \cup Steps

Init ==
  /\ file \in Starts
  /\ folder \in BOOLEAN /\ (~folder => \A p \in InFolder : file[p] = Absent)
  /\ past = [p \in Paths |-> {}]
  /\ temp = [r \in Requests |-> NoTemp]
  /\ request = [r \in Requests |-> NoAsk]
  /\ meddled = {}
  /\ left = [others |-> MaxOthers, losses |-> MaxLosses]
-----------------------------------------------------------------------------
At(r, step)  == request[r].at = step
Now(r)       == file[request[r].path]
Go(r, step)  == request' = [request EXCEPT ![r].at = step]
Refuse(r)    == Go(r, "refused")
Here(p)      == p \notin InFolder \/ folder
Meddle(p, r) == meddled' = meddled \cup {q \in Requests \ {r} : request[q].path = p /\ request[q].at \in Steps \ {"resolve"}}

Ask(r) ==
  /\ At(r, "none")
  /\ \E op \in {"write", "edit", "remove"}, p \in Paths : request' = [request EXCEPT ![r] = Asked(op, p)]
  /\ UNCHANGED <<file, past, folder, temp, meddled, left>>

\* resolve_for_change: whether the file is there decides the rest; the client's text may be too long.
Resolve(r) ==
  /\ At(r, "resolve")
  /\ CASE request[r].op = "write" -> (IF Now(r) = Absent THEN Go(r, "folder") ELSE Go(r, "examine")) \/ Refuse(r)
       [] request[r].op = "edit"  -> IF Now(r) = Absent THEN Refuse(r) ELSE Go(r, "examine")
       [] OTHER                   -> IF Now(r) = Absent THEN Refuse(r) ELSE Go(r, "unlink")
  /\ UNCHANGED <<file, past, folder, temp, meddled, left>>

\* changeable: the mode seen here is the one the new file will have.
Examine(r) ==
  /\ At(r, "examine")
  /\ IF Now(r) = Absent \/ Now(r).mode = "readonly" \/ (request[r].op = "edit" /\ Now(r).kind = "huge")
       THEN Refuse(r)
       ELSE request' = [request EXCEPT ![r].at = "read", ![r].old = Now(r)]
  /\ UNCHANGED <<file, past, folder, temp, meddled, left>>

\* The content an edit starts from; what a write shows as replaced.  An edit may not apply.
ReadOld(r) ==
  LET now  == Now(r)
      new  == IF request[r].op = "edit" THEN Append(now.by, r) ELSE <<r>>
      read == [now EXCEPT !.mode = request[r].old.mode]
  IN /\ At(r, "read")
     /\ \/ (IF now = Absent THEN TRUE ELSE now.kind = "binary" \/ request[r].op = "edit") /\ Refuse(r)
        \/ /\ now # Absent /\ now.kind # "binary" /\ (request[r].op = "edit" => now.kind # "huge")
           /\ request' = [request EXCEPT ![r].at = "create", ![r].old = read, ![r].new = new]
     /\ UNCHANGED <<file, past, folder, temp, meddled, left>>

\* create_dir_all, and where it leads looked at again.
MakeFolder(r) ==
  /\ At(r, "folder")
  /\ folder' = (folder \/ request[r].path \in InFolder)
  /\ Go(r, "check")
  /\ UNCHANGED <<file, past, temp, meddled, left>>

CheckFolder(r) ==
  /\ At(r, "check")
  /\ IF Here(request[r].path) THEN request' = [request EXCEPT ![r].at = "create", ![r].new = <<r>>] ELSE Refuse(r)
  /\ UNCHANGED <<file, past, folder, temp, meddled, left>>

(* write_atomic.  Each step may fail, on a full disk for one.               *)

Gone(r)  == ~Here(request[r].path)
Fails(r) == Go(r, "clean") /\ UNCHANGED temp

CreateTemp(r) ==
  /\ At(r, "create")
  /\ \/ ~Gone(r) /\ temp' = [temp EXCEPT ![r] = [is |-> "torn", mode |-> "plain"]] /\ Go(r, "write")
     \/ Fails(r)
  /\ UNCHANGED <<file, past, folder, meddled, left>>

WriteTemp(r) ==
  /\ At(r, "write")
  /\ \/ temp' = [temp EXCEPT ![r].is = IF @ = "torn" THEN "whole" ELSE @] /\ Go(r, "sync")
     \/ Fails(r)
  /\ UNCHANGED <<file, past, folder, meddled, left>>

\* Mutant: the file is not synced before it is renamed.
NotSynced(r) ==
  /\ At(r, "sync")
  /\ Go(r, IF request[r].old = Absent THEN "rename" ELSE "mode")
  /\ UNCHANGED <<file, past, folder, temp, meddled, left>>

Sync(r) ==
  /\ At(r, "sync")
  /\ \/ temp' = [temp EXCEPT ![r].is = IF @ = "whole" THEN "synced" ELSE @]
        /\ Go(r, IF request[r].old = Absent THEN "rename" ELSE "mode")
     \/ Fails(r)
  /\ UNCHANGED <<file, past, folder, meddled, left>>

\* Mutant: a new file keeps the mode it was made with.
ModeLeft(r) ==
  /\ At(r, "mode")
  /\ Go(r, "rename")
  /\ UNCHANGED <<file, past, folder, temp, meddled, left>>

SetMode(r) ==
  /\ At(r, "mode")
  /\ \/ temp' = [temp EXCEPT ![r].mode = request[r].old.mode] /\ Go(r, "rename")
     \/ Fails(r)
  /\ UNCHANGED <<file, past, folder, meddled, left>>

\* Renaming takes the temporary file's place in the folder it is in, whatever is there now.
Rename(r) ==
  LET p == request[r].path IN
  /\ At(r, "rename")
  /\ \/ /\ temp[r].is # "none" /\ Here(p)
        /\ file' = [file EXCEPT ![p] = File(request[r].new, "text", temp[r].mode, temp[r].is = "synced")]
        /\ past' = [past EXCEPT ![p] = @ \cup {file[p]}]
        /\ request' = [request EXCEPT ![r].at = "reply", ![r].took = TRUE, ![r].replaced = file[p]]
        /\ temp' = [temp EXCEPT ![r] = NoTemp]
        /\ Meddle(p, r)
     \/ Fails(r) /\ UNCHANGED <<file, past, meddled>>
  /\ UNCHANGED <<folder, left>>

Clean(r) ==
  /\ At(r, "clean")
  /\ temp' = [temp EXCEPT ![r] = NoTemp]
  /\ Refuse(r)
  /\ UNCHANGED <<file, past, folder, meddled, left>>

\* remove: one file, whatever its mode.
Unlink(r) ==
  LET p == request[r].path IN
  /\ At(r, "unlink")
  /\ \/ /\ file[p] # Absent
        /\ file' = [file EXCEPT ![p] = Absent]
        /\ past' = [past EXCEPT ![p] = @ \cup {file[p]}]
        /\ request' = [request EXCEPT ![r].at = "reply", ![r].took = TRUE, ![r].replaced = file[p]]
        /\ Meddle(p, r)
     \/ Refuse(r) /\ UNCHANGED <<file, past, meddled>>
  /\ UNCHANGED <<folder, temp, left>>

\* The answer, if the client is still there.
Reply(r) ==
  /\ At(r, "reply")
  /\ Go(r, "done")
  /\ UNCHANGED <<file, past, folder, temp, meddled, left>>
-----------------------------------------------------------------------------
(* Other programs, and the end of this one. *)

Others(p) ==
  /\ left.others > 0 /\ Here(p)
  /\ \E f \in {Absent} \cup {File(<<Other>>, k, "plain", TRUE) : k \in {"text", "binary"}} : file' = [file EXCEPT ![p] = f]
  /\ past' = [past EXCEPT ![p] = {}]
  /\ Meddle(p, Other)
  /\ left' = [left EXCEPT !.others = @ - 1]
  /\ UNCHANGED <<folder, temp, request>>

\* The folder goes, with all that is in it.
FolderGoes ==
  /\ left.others > 0 /\ folder
  /\ folder' = FALSE
  /\ file' = [p \in Paths |-> IF p \in InFolder THEN Absent ELSE file[p]]
  /\ past' = [p \in Paths |-> IF p \in InFolder THEN {} ELSE past[p]]
  /\ temp' = [r \in Requests |-> IF request[r].path \in InFolder THEN NoTemp ELSE temp[r]]
  /\ meddled' = meddled \cup {r \in Requests : request[r].path \in InFolder /\ request[r].at \in Steps \ {"resolve"}}
  /\ left' = [left EXCEPT !.others = @ - 1]
  /\ UNCHANGED <<request>>

Lose ==
  /\ left.losses > 0
  /\ left' = [left EXCEPT !.losses = @ - 1]
  /\ request' = [r \in Requests |-> IF request[r].at \in Steps THEN [request[r] EXCEPT !.at = "lost"] ELSE request[r]]
  /\ UNCHANGED <<folder, temp, meddled>>

Crash == Lose /\ UNCHANGED <<file, past>>

\* What was not synced may be there in part, and a renaming may not be there at all.
PowerLoss ==
  /\ Lose
  /\ \E kept \in SUBSET Paths : \E f \in [Paths \ kept -> UNION {past[p] : p \in Paths}] :
       /\ \A p \in Paths \ kept : f[p] \in past[p]
       /\ LET back(p) == IF p \in kept THEN file[p] ELSE f[p]
          IN file' = [p \in Paths |-> IF back(p) = Absent THEN Absent
                                      ELSE IF back(p).synced THEN back(p) ELSE [back(p) EXCEPT !.kind = "torn"]]
  /\ past' = [p \in Paths |-> {}]

Handler(r) ==
  Resolve(r) \/ Examine(r) \/ ReadOld(r) \/ MakeFolder(r) \/ CheckFolder(r) \/ CreateTemp(r) \/ WriteTemp(r) \/ Sync(r) \/ SetMode(r)
    \/ Rename(r) \/ Clean(r) \/ Unlink(r) \/ Reply(r)

Next == Crash \/ PowerLoss \/ FolderGoes \/ (\E p \in Paths : Others(p)) \/ \E r \in Requests : Ask(r) \/ Handler(r)
Spec == Init /\ [][Next]_vars
-----------------------------------------------------------------------------
(* Properties. *)

(* "All at once or not at all": seen by other programs a change is one step *)
(* to a whole new file, at most one for a request, none for a request that  *)
(* was refused, and done before the client is told so; a power loss brings  *)
(* back what was there, never half of what was to come (write_atomic).      *)
Bare(f) == IF f = Absent THEN Absent ELSE [by |-> f.by, kind |-> f.kind]

\* A removal leaves nothing; what is written is text, and whole.
WholeOf(r, c) == c = Absent \/ (c.kind = "text" /\ c.by # <<>> /\ c.by[Len(c.by)] = r)

Atomic == INSTANCE AtomicFiles WITH
  Contents <- [by: Seq(Requests \cup {Other}), kind: Kinds],
  None     <- Absent,
  Whole    <- WholeOf,
  held     <- [p \in Paths |-> Bare(file[p])],
  past     <- [p \in Paths |-> {Bare(f) : f \in past[p]}],
  effect   <- {r \in Requests : request[r].took},
  answered <- {r \in Requests : request[r].at = "done"}

ChangesAreAtomic == Atomic!Spec

(* What a request is shown as the text it replaced is what it replaced, and *)
(* the new file has the old one's mode, unless something else changed the   *)
(* file between the look and the renaming: an edit is never made to another *)
(* text than the one it was matched against (edit, write).  And a request   *)
(* that came to its end leaves no temporary file beside the file it was     *)
(* asked to change.                                                         *)
ReplacesWhatItShows ==
  \A r \in Requests :
    /\ request[r].took /\ request[r].op # "remove" /\ r \notin meddled =>
         request[r].old = request[r].replaced
    /\ request[r].at \in {"done", "refused"} => temp[r] = NoTemp

ModesStay ==
  \A r \in Requests :
    LET now == Now(r)
    IN request[r].took /\ request[r].replaced # Absent /\ r \notin meddled /\ now # Absent
         => (now.by[Len(now.by)] = r => now.mode = request[r].replaced.mode)

FilesSafe == TypeOK /\ ReplacesWhatItShows /\ ModesStay
=============================================================================
