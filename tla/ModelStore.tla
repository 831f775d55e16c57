------------------------------ MODULE ModelStore ------------------------------
(***************************************************************************)
(* The local models (crates/misaka-studio-runtime/src/store.rs): the       *)
(* directories watched, the list the last scan left, and the sidecar that  *)
(* keeps a file's digest with the size it had.                             *)
(*                                                                         *)
(* A file is a directory and a name; the name is the model's id, and of    *)
(* two files with one name the first directory's is listed.  The n-th      *)
(* content to arrive has size n and digest n: no size comes twice, which   *)
(* is what the sidecar's guard rests on.  How a tree is walked is          *)
(* ModelRules' scan_roots.  The list of image models, written after this   *)
(* one by the same scan, has no digests and is left out.                   *)
(***************************************************************************)
EXTENDS Naturals, Sequences, FiniteSets

CONSTANTS
  Dirs, Ids,               \* directories; names of models
  RootLists,               \* what models_dir may be set to: sequences of directories
  Requests,                \* requests at one time
  MaxContents, MaxAsks     \* bounds

Files == Dirs \X Ids

VARIABLES
  disk,       \* [Files -> the content there, 0 for none]
  sidecar,    \* [Files -> [sha, size]], 0 for what it does not say
  arrived,    \* how many contents there have been
  roots,      \* ModelStore.roots
  list,       \* ModelStore.cache
  ask,        \* the requests under way
  asksLeft    \* what the bound leaves

vars == <<disk, sidecar, arrived, roots, list, ask, asksLeft>>

Unlisted == [dir |-> "none", size |-> 0, sha |-> 0]
Blank    == [sha |-> 0, size |-> 0]
Nothing  == [i \in Ids |-> Unlisted]
Idle     == [at |-> "idle", id |-> "none", model |-> Unlisted, todo |-> <<>>, found |-> Nothing, sha |-> 0, read |-> Blank]

Numbers == 0 .. MaxContents
Entries == [dir: Dirs \cup {"none"}, size: Numbers, sha: Numbers]
Steps   == {"idle", "refresh", "scan", "check", "unlink", "unsidecar", "open", "load", "save", "listed"}

TypeOK ==
  /\ disk \in [Files -> Numbers] /\ sidecar \in [Files -> [sha: Numbers, size: Numbers]]
  /\ roots \in RootLists /\ list \in [Ids -> Entries]
  /\ \A r \in Requests : ask[r].at \in Steps /\ ask[r].model \in Entries /\ ask[r].found \in [Ids -> Entries]

Init ==
  /\ disk = [f \in Files |-> 0] /\ sidecar = [f \in Files |-> Blank] /\ arrived = 0
  /\ roots \in RootLists /\ list = Nothing
  /\ ask = [r \in Requests |-> Idle] /\ asksLeft = MaxAsks
-----------------------------------------------------------------------------
(* A sidecar is believed for the size it was taken at. *)
Believed(f) == IF sidecar[f].size = disk[f] THEN sidecar[f].sha ELSE 0
Entry(dir, i) == [dir |-> dir, size |-> disk[<<dir, i>>], sha |-> Believed(<<dir, i>>)]
FileOf(r) == <<ask[r].model.dir, ask[r].id>>

At(r, place) == ask[r].at = place
Go(r, place) == ask' = [ask EXCEPT ![r].at = place]
Over(r)      == ask' = [ask EXCEPT ![r] = Idle]
Admit(r)     == At(r, "idle") /\ asksLeft > 0 /\ asksLeft' = asksLeft - 1

\* refresh, from a request, a download's end, set_roots and delete.
Rescan(r) == Admit(r) /\ Go(r, "refresh") /\ UNCHANGED <<disk, sidecar, arrived, roots, list>>
set_roots(r, new) ==
  /\ Admit(r) /\ new # roots /\ roots' = new /\ Go(r, "refresh")
  /\ UNCHANGED <<disk, sidecar, arrived, list>>

ReadRoots(r) ==
  /\ At(r, "refresh")
  /\ ask' = [ask EXCEPT ![r].at = "scan", ![r].todo = roots, ![r].found = Nothing]
  /\ UNCHANGED <<disk, sidecar, arrived, roots, list, asksLeft>>

\* One directory of scan_roots: what is found first stays.
Scan(r) ==
  /\ At(r, "scan") /\ ask[r].todo # <<>>
  /\ LET dir == Head(ask[r].todo) IN
     ask' = [ask EXCEPT ![r].todo = Tail(@),
                        ![r].found = [i \in Ids |-> IF @[i] = Unlisted /\ disk[<<dir, i>>] > 0 THEN Entry(dir, i) ELSE @[i]]]
  /\ UNCHANGED <<disk, sidecar, arrived, roots, list, asksLeft>>

Land(r) ==
  /\ At(r, "scan") /\ ask[r].todo = <<>> /\ list' = ask[r].found /\ Over(r)
  /\ UNCHANGED <<disk, sidecar, arrived, roots, asksLeft>>

\* require: the entry as it is listed now.
Require(r, i, place) ==
  /\ Admit(r) /\ list[i] # Unlisted
  /\ ask' = [ask EXCEPT ![r].at = place, ![r].id = i, ![r].model = list[i]]
  /\ UNCHANGED <<disk, sidecar, arrived, roots, list>>
delete(r, i)        == Require(r, i, "check")
ensure_hashed(r, i) == Require(r, i, "open")

\* The file must be there, and inside a directory that is still watched.
Check(r) ==
  /\ At(r, "check")
  /\ IF disk[FileOf(r)] > 0 /\ \E n \in DOMAIN roots : roots[n] = ask[r].model.dir THEN Go(r, "unlink") ELSE Over(r)
  /\ UNCHANGED <<disk, sidecar, arrived, roots, list, asksLeft>>
Unlink(r) ==
  /\ At(r, "unlink")
  /\ \/ disk[FileOf(r)] > 0 /\ disk' = [disk EXCEPT ![FileOf(r)] = 0] /\ Go(r, "unsidecar")
     \/ Over(r) /\ UNCHANGED disk
  /\ UNCHANGED <<sidecar, arrived, roots, list, asksLeft>>
Unsidecar(r) ==
  /\ At(r, "unsidecar")
  /\ sidecar' = [sidecar EXCEPT ![FileOf(r)] = Blank] /\ Go(r, "refresh")
  /\ UNCHANGED <<disk, arrived, roots, list, asksLeft>>

\* A digest of the size listed is believed without reading; else the file is opened, and read
\* as it was then.
Open(r) ==
  LET believed == sidecar[FileOf(r)].sha > 0 /\ sidecar[FileOf(r)].size = ask[r].model.size IN
  /\ At(r, "open")
  /\ IF believed \/ disk[FileOf(r)] = 0 THEN Over(r)
     ELSE ask' = [ask EXCEPT ![r].at = "load", ![r].sha = disk[FileOf(r)]]
  /\ UNCHANGED <<disk, sidecar, arrived, roots, list, asksLeft>>
Load(r) ==
  /\ At(r, "load")
  /\ ask' = [ask EXCEPT ![r].at = "save", ![r].read = sidecar[FileOf(r)]]
  /\ UNCHANGED <<disk, sidecar, arrived, roots, list, asksLeft>>
\* Mutant: the size is read again when the digest is done.
SaveMeasured(r) ==
  /\ At(r, "save")
  /\ sidecar' = [sidecar EXCEPT ![FileOf(r)] = [ask[r].read EXCEPT !.sha = ask[r].sha, !.size = disk[FileOf(r)]]]
  /\ Go(r, "listed")
  /\ UNCHANGED <<disk, arrived, roots, list, asksLeft>>

\* The digest goes with the size that was listed when it was asked for.
Save(r) ==
  /\ At(r, "save")
  /\ \/ /\ sidecar' = [sidecar EXCEPT ![FileOf(r)] = [ask[r].read EXCEPT !.sha = ask[r].sha, !.size = ask[r].model.size]]
        /\ Go(r, "listed")
     \/ Over(r) /\ UNCHANGED sidecar
  /\ UNCHANGED <<disk, arrived, roots, list, asksLeft>>
\* The entry of that name, whichever file it is of by now, is the one hashed.
Listed(r) ==
  /\ At(r, "listed")
  /\ list' = IF list[ask[r].id] = Unlisted THEN list ELSE [list EXCEPT ![ask[r].id] = [ask[r].model EXCEPT !.sha = ask[r].sha]]
  /\ Over(r)
  /\ UNCHANGED <<disk, sidecar, arrived, roots, asksLeft>>

\* The caller is gone: nothing after the next wait happens; what is on a thread of its own goes on.
HangUp(r) ==
  /\ ask[r].at \in {"refresh", "scan", "check", "load", "listed"}
  /\ Over(r) /\ UNCHANGED <<disk, sidecar, arrived, roots, list, asksLeft>>

\* A person or a download puts a new content in place, at once; a download's sidecar comes with it.
Arrive(f, vouched) ==
  /\ arrived < MaxContents /\ arrived' = arrived + 1
  /\ disk' = [disk EXCEPT ![f] = arrived']
  /\ sidecar' = IF vouched THEN [sidecar EXCEPT ![f] = [sha |-> arrived', size |-> arrived']] ELSE sidecar
  /\ UNCHANGED <<roots, list, ask, asksLeft>>
\* A person removes a file, and not what is beside it.
Vanish(f) ==
  /\ disk[f] > 0 /\ disk' = [disk EXCEPT ![f] = 0]
  /\ UNCHANGED <<sidecar, arrived, roots, list, ask, asksLeft>>

Step(r) ==
  \/ ReadRoots(r) \/ Scan(r) \/ Land(r)
  \/ Check(r) \/ Unlink(r) \/ Unsidecar(r) \/ Open(r) \/ Load(r) \/ Save(r) \/ Listed(r)
Next ==
  \/ \E r \in Requests : Step(r) \/ Rescan(r) \/ HangUp(r)
  \/ \E r \in Requests, new \in RootLists : set_roots(r, new)
  \/ \E r \in Requests, i \in Ids : delete(r, i) \/ ensure_hashed(r, i)
  \/ \E f \in Files, vouched \in BOOLEAN : Arrive(f, vouched)
  \/ \E f \in Files : Vanish(f)
Spec == Init /\ [][Next]_vars
-----------------------------------------------------------------------------
(* A digest that would be believed is the digest of the very file beside    *)
(* it, whatever was hashed, replaced, deleted and rescanned meanwhile:      *)
(* "a stale hash is a wrong identity, which is worse than no identity"      *)
(* (ensure_hashed, Sidecar).                                                *)
BelievedIsTrue == \A f \in Files : disk[f] > 0 => Believed(f) \in {0, disk[f]}

(* A listed model that is still the file listed has its own digest or none. *)
ListedIsTrue ==
  \A i \in Ids : list[i] # Unlisted /\ disk[<<list[i].dir, i>>] = list[i].size => list[i].sha \in {0, list[i].size}

StoreSafe == TypeOK /\ BelievedIsTrue /\ ListedIsTrue

(* Two the code does not keep (README).  What is listed of a file is never  *)
(* older than what was listed before; and an entry's digest and size, which *)
(* an identity commits to together (LocalModel::identity), are one file's.  *)
ListNeverGoesBack ==
  [][\A i \in Ids : list[i].dir = list'[i].dir => list[i].size <= list'[i].size]_vars
EntriesAreOneFile == \A i \in Ids : list[i].sha \in {0, list[i].size}
=============================================================================
