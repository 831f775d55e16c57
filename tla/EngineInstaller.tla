---------------------------- MODULE EngineInstaller ----------------------------
(***************************************************************************)
(* Installing a llama.cpp build (crates/misaka-studio-runtime/src/         *)
(* engines.rs): one install at a time, from the release to the setting.    *)
(*                                                                         *)
(* A build is a tag and a flavor; its directory holds a manifest, a binary *)
(* and the libraries beside it.  Downloads are Downloads' and              *)
(* apply_settings is Settings': here each succeeds or fails.               *)
(***************************************************************************)
EXTENDS Naturals, FiniteSets

CONSTANTS
  Tags, Flavors,         \* releases, and the builds of each this machine could take
  WithCompanion,         \* the flavors whose libraries come in an archive of their own
  None,                  \* no tag, no build
  MaxInstalls, MaxCrashes   \* bounds

VARIABLES
  latest,    \* the tag upstream's latest release means
  listing,   \* EngineInstaller.listing: the tag of the last listing fetched, or None
  status,    \* InstallStatus.state
  job,       \* the install task: [at, pinned, build]
  archives,  \* downloaded archives: [build, part]
  disk,      \* [Builds -> what is in its directory]
  setting,   \* llama_server_path: the build it is in, or None
  replaced,  \* builds whose directory an install has begun to replace
  left       \* what the bounds leave

vars == <<latest, listing, status, job, archives, disk, setting, replaced, left>>

Builds == Tags \X Flavors
Files  == {"manifest", "binary", "library"}
Empty  == [files |-> {}, runs |-> FALSE]
NoJob  == [at |-> "none", pinned |-> None, flavor |-> None, build |-> None]

Active == {"Resolving", "Downloading", "Extracting", "Verifying"}

TypeOK ==
  /\ latest \in Tags /\ listing \in Tags \cup {None}
  /\ status \in {"Idle", "Done", "Failed"} \cup Active
  /\ job.at \in {"none", "resolve", "main", "companion", "remove", "extract", "beside", "probe", "manifest", "apply", "clean"}
  /\ job.build \in Builds \cup {None}
  /\ archives \subseteq [build: Builds, part: {"main", "companion"}]
  /\ disk \in [Builds -> [files: SUBSET Files, runs: BOOLEAN]]
  /\ setting \in Builds \cup {None} /\ replaced \subseteq Builds

Init ==
  /\ latest \in Tags /\ listing = None
  /\ status = "Idle" /\ job = NoJob /\ archives = {}
  /\ disk = [b \in Builds |-> Empty]
  /\ setting = None /\ replaced = {}
  /\ left = [installs |-> MaxInstalls, crashes |-> MaxCrashes]
-----------------------------------------------------------------------------
(* scan_installed: every manifest whose binary is there. *)
Installed == {b \in Builds : {"manifest", "binary"} \subseteq disk[b].files}

At(place) == job.at = place
Go(place) == job' = [job EXCEPT !.at = place]
Fail == job' = NoJob /\ status' = "Failed"

\* install: refused while another is active; the check and the claim are one write lock.
Install(flavor, pinned) ==
  /\ status \notin Active /\ left.installs > 0
  /\ status' = "Resolving"
  /\ job' = [NoJob EXCEPT !.at = "resolve", !.pinned = pinned, !.flavor = flavor]
  /\ left' = [left EXCEPT !.installs = @ - 1]
  /\ UNCHANGED <<latest, listing, archives, disk, setting, replaced>>

Release == \E t \in Tags : latest' = t /\ UNCHANGED <<listing, status, job, archives, disk, setting, replaced, left>>

\* A pinned release is fetched; the latest may be remembered.  It may not be had, or lack the asset.
Resolve ==
  /\ At("resolve")
  /\ \/ \E t \in Tags :
          /\ t = job.pinned \/ (job.pinned = None /\ t \in {latest, listing})
          /\ listing' = IF job.pinned = None THEN t ELSE listing
          /\ status' = "Downloading"
          /\ job' = [job EXCEPT !.at = "main", !.build = <<t, job.flavor>>]
     \/ Fail /\ UNCHANGED listing
  /\ UNCHANGED <<latest, archives, disk, setting, replaced, left>>

Download(part, next) ==
  /\ At(part)
  /\ \/ /\ archives' = archives \cup {[build |-> job.build, part |-> part]}
        /\ Go(next) /\ status' = IF next = "remove" THEN "Extracting" ELSE status
     \/ Fail /\ UNCHANGED archives
  /\ UNCHANGED <<latest, listing, disk, setting, replaced, left>>

DownloadMain      == Download("main", IF job.flavor \in WithCompanion THEN "companion" ELSE "remove")
DownloadCompanion == Download("companion", "remove")

\* unpack_engine: the directory is removed whole, file by file; not all of it may go.
Remove ==
  /\ At("remove")
  /\ replaced' = IF disk[job.build].files = {} THEN replaced ELSE replaced \cup {job.build}
  /\ \E rest \in SUBSET disk[job.build].files :
       /\ disk' = [disk EXCEPT ![job.build].files = rest]
       /\ \/ rest = {} /\ Go("extract") /\ UNCHANGED status
          \/ rest # {} /\ Fail
  /\ UNCHANGED <<latest, listing, archives, setting, left>>

\* The main archive, with the libraries unless they come beside it; it may be torn or hold no binary.
Extract ==
  LET all == IF job.flavor \in WithCompanion THEN {"binary"} ELSE {"binary", "library"} IN
  /\ At("extract")
  /\ \E got \in SUBSET all, runs \in BOOLEAN :
       /\ disk' = [disk EXCEPT ![job.build] = [files |-> got, runs |-> runs]]
       /\ \/ /\ got = all
             /\ Go(IF job.flavor \in WithCompanion THEN "beside" ELSE "probe")
             /\ status' = IF job.flavor \in WithCompanion THEN status ELSE "Verifying"
          \/ Fail
  /\ UNCHANGED <<latest, listing, archives, setting, replaced, left>>

Beside ==
  /\ At("beside")
  /\ \/ disk' = [disk EXCEPT ![job.build].files = @ \cup {"library"}] /\ Go("probe") /\ status' = "Verifying"
     \/ Fail /\ UNCHANGED disk
  /\ UNCHANGED <<latest, listing, archives, setting, replaced, left>>

\* Mutant: the binary is not run before the setting changes.
TakenAtItsWord ==
  /\ At("probe")
  /\ Go("manifest")
  /\ UNCHANGED <<latest, listing, status, archives, disk, setting, replaced, left>>

\* The binary is run before anything says that it is installed.
ProbeProgram ==
  /\ At("probe")
  /\ IF disk[job.build].runs THEN Go("manifest") /\ UNCHANGED status ELSE Fail
  /\ UNCHANGED <<latest, listing, archives, disk, setting, replaced, left>>

Manifest ==
  /\ At("manifest")
  /\ \/ disk' = [disk EXCEPT ![job.build].files = @ \cup {"manifest"}] /\ Go("apply") /\ UNCHANGED status
     \/ Fail /\ UNCHANGED disk
  /\ UNCHANGED <<latest, listing, archives, setting, replaced, left>>

\* The setting may be on disk though the apply failed after it was saved.
Apply ==
  /\ At("apply")
  /\ \/ setting' = job.build /\ Go("clean") /\ UNCHANGED status
     \/ setting' = job.build /\ Fail
     \/ Fail /\ UNCHANGED setting
  /\ UNCHANGED <<latest, listing, archives, disk, replaced, left>>

Clean ==
  /\ At("clean")
  /\ archives' = {a \in archives : a.build # job.build}
  /\ status' = "Done" /\ job' = NoJob
  /\ UNCHANGED <<latest, listing, disk, setting, replaced, left>>

\* The Studio dies: a removal under way stops where it is, and so does an unpacking.
Crash ==
  /\ left.crashes > 0 /\ status \in Active
  /\ CASE At("remove") -> \E rest \in SUBSET disk[job.build].files :
                             /\ disk' = [disk EXCEPT ![job.build].files = rest]
                             /\ replaced' = replaced \cup {job.build}
       [] At("extract") -> /\ \E got \in SUBSET {"binary", "library"} : disk' = [disk EXCEPT ![job.build].files = got]
                           /\ UNCHANGED replaced
       [] OTHER -> UNCHANGED <<disk, replaced>>
  /\ status' = "Idle" /\ job' = NoJob /\ listing' = None
  /\ left' = [left EXCEPT !.crashes = @ - 1]
  /\ UNCHANGED <<latest, archives, setting>>

run ==
  Resolve \/ DownloadMain \/ DownloadCompanion \/ Remove \/ Extract \/ Beside \/ ProbeProgram \/ Manifest \/ Apply \/ Clean

Next == run \/ Release \/ Crash \/ \E f \in Flavors, t \in Tags \cup {None} : Install(f, t)
Spec == Init /\ [][Next]_vars
-----------------------------------------------------------------------------
(* Properties. *)

(* What is listed as installed, and what the setting points at, is whole    *)
(* and runs, whatever failed or died on the way and whichever build was     *)
(* installed since: except a build whose own directory an install began to  *)
(* replace (run, unpack_engine).                                            *)
Works(b) == {"binary", "library"} \subseteq disk[b].files /\ disk[b].runs

ListedWorks == \A b \in (Installed \cup {setting}) \ (replaced \cup {None}) : Works(b)

\* An install that ended well leaves its build listed, chosen and working, replaced or not.
DoneMeansWorking == status = "Done" => setting \in Installed /\ Works(setting)

InstallerSafe == TypeOK /\ ListedWorks /\ DoneMeansWorking

(* "A tarball that unpacks and does not run is a failure with the binary's  *)
(* own words in it, not a setting pointing at a broken file" (engines.rs).  *)
NoBrokenSetting == setting # None => "binary" \in disk[setting].files
=============================================================================
