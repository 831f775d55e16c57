------------------------------- MODULE EngineRules -------------------------------
(***************************************************************************)
(* Which engine runs a file, which build of it, how much of the model it   *)
(* is asked to put on the GPU and what is then said of that: the builds    *)
(* and the release listing (engines.rs), the device list, the load log and *)
(* the probe (backend/devices.rs), the plan and its note (state.rs), in    *)
(* crates/misaka-studio-runtime/src.                                       *)
(*                                                                         *)
(* A tag is a sequence of characters, a path a sequence of numbers (names  *)
(* in their order), a line of an engine's output a record.  Numbers that   *)
(* may be missing are Unsaid when they are.                                *)
(***************************************************************************)
EXTENDS Naturals, Integers, Sequences, SequencesExt, FiniteSets, ModelRules

Unsaid == -1
Every  == 999                       \* llama.cpp's word for every layer
FirstOf(s, Test(_)) == IF SelectInSeq(s, Test) = 0 THEN <<>> ELSE <<s[SelectInSeq(s, Test)]>>
-----------------------------------------------------------------------------
(* Builds.  driver: the NVIDIA driver the build says it needs.              *)

Build(id, accelerator, companions, driver) ==
  [id |-> id, accelerator |-> accelerator, companions |-> companions, driver |-> driver]

MACOS         == <<Build("macos-arm64", "metal", <<>>, 0)>>
MACOS_X64     == <<Build("macos-x64", "cpu", <<>>, 0)>>
UBUNTU_X64    == <<Build("ubuntu-vulkan-x64", "vulkan", <<>>, 0), Build("ubuntu-cuda-12.8-x64", "cuda", <<"cudart-ubuntu-12.8">>, 525),
                   Build("ubuntu-cuda-13.3-x64", "cuda", <<"cudart-ubuntu-13.3">>, 580), Build("ubuntu-rocm-10.0-x64", "rocm", <<>>, 0),
                   Build("ubuntu-x64", "cpu", <<>>, 0)>>
UBUNTU_ARM64  == <<Build("ubuntu-vulkan-arm64", "vulkan", <<>>, 0), Build("ubuntu-cuda-13.3-arm64", "cuda", <<"cudart-ubuntu-arm64">>, 580),
                   Build("ubuntu-arm64", "cpu", <<>>, 0)>>
WIN_X64       == <<Build("win-cuda-12.4-x64", "cuda", <<"cudart-win-12.4">>, 527), Build("win-cuda-13.4-x64", "cuda", <<"cudart-win-13.4">>, 580),
                   Build("win-vulkan-x64", "vulkan", <<>>, 0), Build("win-rocm-10.0-x64", "rocm", <<>>, 0), Build("win-cpu-x64", "cpu", <<>>, 0)>>
WIN_ARM64     == <<Build("win-cuda-13.4-arm64", "cuda", <<>>, 580), Build("win-opencl-adreno-arm64", "opencl", <<>>, 0),
                   Build("win-cpu-arm64", "cpu", <<>>, 0)>>

flavors_for(os, arch) ==
  CASE os = "macos"   /\ arch = "aarch64" -> MACOS
    [] os = "macos"   /\ arch = "x86_64"  -> MACOS_X64
    [] os = "linux"   /\ arch = "x86_64"  -> UBUNTU_X64
    [] os = "linux"   /\ arch = "aarch64" -> UBUNTU_ARM64
    [] os = "windows" /\ arch = "x86_64"  -> WIN_X64
    [] os = "windows" /\ arch = "aarch64" -> WIN_ARM64
    [] OTHER -> <<>>

\* The builds wanted for CUDA's newer and older generation; ARM has only the newer.
Newer == <<"ubuntu-cuda-13.3-x64", "win-cuda-13.4-x64", "ubuntu-cuda-13.3-arm64", "win-cuda-13.4-arm64">>
Older == <<"ubuntu-cuda-12.8-x64", "win-cuda-12.4-x64", "ubuntu-cuda-13.3-arm64", "win-cuda-13.4-arm64">>

\* cards: what the probe found, in order: [kind, driver, usable].  <<>> or one build.
recommend(cards, os, arch) ==
  LET flavors  == flavors_for(os, arch)
      Pick(ids) == LET at == SelectInSeq(ids, LAMBDA id : \E f \in ToSet(flavors) : f.id = id)
                   IN IF at = 0 THEN <<>> ELSE FirstOf(flavors, LAMBDA f : f.id = ids[at])
      nvidia   == FirstOf(cards, LAMBDA c : c.kind = "cuda")
      cuda     == IF nvidia = <<>> THEN <<>> ELSE Pick(IF nvidia[1].driver >= 580 THEN Newer ELSE Older)
      rocm     == IF \E c \in ToSet(cards) : c.kind = "rocm" THEN Pick(<<"ubuntu-rocm-10.0-x64", "win-rocm-10.0-x64">>) ELSE <<>>
      vulkan   == FirstOf(flavors, LAMBDA f : f.accelerator = "vulkan")
      first    == SubSeq(flavors, 1, Least(1, Len(flavors)))
  IN IF os = "macos" THEN first
     ELSE FoldLeft(LAMBDA found, next : IF found = <<>> THEN next ELSE found, <<>>, <<cuda, rocm, vulkan, first>>)

\* A listing: the asset names a release has, with their sizes.
wanted(flavor) == <<flavor.id>> \o flavor.companions
download_bytes(flavor, listing) ==
  IF ToSet(wanted(flavor)) \subseteq DOMAIN listing THEN FoldLeft(LAMBDA n, a : n + listing[a], 0, wanted(flavor)) ELSE Unsaid
assets(flavor, listing) ==          \* install's: one after the other, until one is missing
  FoldLeft(LAMBDA got, a : IF got.ok /\ a \in DOMAIN listing THEN [got EXCEPT !.bytes = @ + listing[a]] ELSE [got EXCEPT !.ok = FALSE],
           [ok |-> TRUE, bytes |-> 0], wanted(flavor))

Digits == {"0", "7"}
is_build_tag(tag) == Len(tag) > 1 /\ tag[1] = "b" /\ \A i \in 2 .. Len(tag) : tag[i] \in Digits

\* pointer: what the latest release's pointer file says, <<>> when it has none.
resolve_tag(latest, recent) ==
  IF is_build_tag(latest.pointer) THEN <<latest.pointer>>
  ELSE IF is_build_tag(latest.tag) THEN <<latest.tag>>
  ELSE FirstOf(recent, is_build_tag)

\* files: [path -> "file" or "dir"].  Breadth first, in order of names, no deeper than depth.
find_file(files, name, depth) ==
  LET Children(d)  == SetToSortSeq({p \in DOMAIN files : Len(p) = Len(d) + 1 /\ Front(p) = d}, LAMBDA p, q : Last(p) < Last(q))
      Level(dirs)  == FlattenSeq([i \in DOMAIN dirs |-> Children(dirs[i])])
      Scan(st, k)  == LET level == Level(st.dirs)
                      IN IF st.found # <<>> THEN st
                         ELSE [found |-> FirstOf(level, LAMBDA p : files[p] = "file" /\ Last(p) = name),
                               dirs  |-> SelectSeq(level, LAMBDA p : files[p] = "dir")]
  IN FoldLeft(Scan, [found |-> <<>>, dirs |-> << <<>> >>], [k \in 1 .. depth + 1 |-> k]).found
-----------------------------------------------------------------------------
(* Devices.  A line: [kind |-> "header"], [kind |-> "words"] or a device    *)
(* [kind, id, memory]; an id is its prefix.                                 *)

Unknown == [known |-> FALSE, list |-> <<>>]
Listed(list) == [known |-> TRUE, list |-> list]

Backends == [MTL |-> "metal", CUDA |-> "cuda", Vulkan |-> "vulkan", HIP |-> "rocm", BLAS |-> "blas", RPC |-> "rpc", CPU |-> "cpu"]
backend_of(id) == IF id \in DOMAIN Backends THEN Backends[id] ELSE id
kind_of(backend) ==
  CASE backend = "cpu" -> "cpu" [] backend = "blas" -> "accel" [] backend = "rpc" -> "remote" [] OTHER -> "gpu"

EngineDevice(line) ==
  [id |-> line.id, backend |-> backend_of(line.id), kind |-> kind_of(backend_of(line.id)),
   total |-> IF Len(line.memory) > 0 THEN line.memory[1] ELSE Unsaid, free |-> IF Len(line.memory) > 1 THEN line.memory[2] ELSE Unsaid]

parse_list_devices(lines) ==
  LET header  == SelectInSeq(lines, LAMBDA l : l.kind = "header")
      after   == SelectSeq(SubSeq(lines, header + 1, Len(lines)), LAMBDA l : l.kind = "device")
      devices == [i \in DOMAIN after |-> EngineDevice(after[i])]
  IN IF header = 0 THEN Unknown ELSE Listed(SelectSeq(devices, LAMBDA d : d.kind # "cpu"))

first_gpu(list) == FirstOf(list, LAMBDA d : d.kind = "gpu")
usable_bytes(device) == IF device.free = Unsaid THEN Unsaid ELSE (device.free * 9) \div 10

accelerator_tag(cards) ==
  LET card == FirstOf(cards, LAMBDA c : c.kind # "cpu")
  IN IF card = <<>> THEN "cpu" ELSE IF card[1].kind \in {"cuda", "rocm", "vulkan"} THEN card[1].kind ELSE IF card[1].kind = "apple" THEN "metal" ELSE "cpu"

\* What the engine can drive, or what the machine has when the engine cannot say.
TagOf(devices, gpu, cards) ==
     CASE ~devices.known -> accelerator_tag(cards)
       [] devices.known /\ gpu = <<>> -> "cpu"
       [] OTHER -> IF gpu[1].backend \in {"metal", "cuda", "vulkan", "rocm", "sycl", "opencl"} THEN gpu[1].backend ELSE "gpu"
accelerator_tag_for(devices, cards) == TagOf(devices, first_gpu(devices.list), cards)

\* How one run of the program ended: "clean", "usage", "timeout" or "failed"; what it listed, if it did.
NotRun == [runs |-> FALSE, devices |-> Unknown]
probe_program_uncached(version, listing) ==
  IF version \in {"timeout", "failed"} THEN [probe |-> NotRun, settled |-> version = "failed"]
  ELSE [probe   |-> [runs |-> TRUE, devices |-> IF listing.ended = "clean" THEN parse_list_devices(listing.lines) ELSE Unknown],
        settled |-> listing.ended # "timeout"]

\* cache: [key -> probe]; the key is the file's path, time and length.
probe_program(cache, key, version, listing) ==
  LET run == probe_program_uncached(version, listing)
  IN IF key \in DOMAIN cache THEN [cache |-> cache, answer |-> cache[key]]
     ELSE [cache  |-> IF run.probe.runs /\ run.settled THEN cache @@ (key :> run.probe) ELSE cache, answer |-> run.probe]
-----------------------------------------------------------------------------
(* The engine for a file.  s: [engine, strata, gateway, serve, background]. *)

Artifacts == {"misaka", "gateway"}
Auto(s) == IF s.mlx THEN "mlx" ELSE "llamacpp"
backend_for(model, s) ==
  LET configured   == IF s.engine = "strata" THEN Auto(s) ELSE s.engine
      prefer_local == model.artifact /\ s.background /\ s.serve
  IN CASE model.strata -> "strata"
       [] ~model.strata /\ prefer_local /\ configured = "gateway" -> "misaka"
       [] ~model.strata /\ ~(prefer_local /\ configured = "gateway") /\ (model.artifact <=> configured \in Artifacts) -> configured
       [] OTHER -> IF ~model.artifact THEN Auto(s) ELSE IF s.gateway /\ ~prefer_local THEN "gateway" ELSE "misaka"

engine_pairing_refusal(model, backend) == model.artifact # (backend \in Artifacts)

\* setting: [kind |-> "none", "all" or "auto"], or "fixed" with its layers.
probed_budget(cards) ==
  LET usable == {c.usable : c \in {c \in ToSet(cards) : c.kind # "cpu" /\ c.usable # Unsaid}}
  IN IF usable = {} THEN Unsaid ELSE Widest(usable)

kv_cache_bytes(m, ctx) == (IF m.kv = 0 THEN DefaultKv ELSE m.kv) * ctx
plan_gpu_layers(m, cards, devices, ctx, setting) ==
  LET gpu    == first_gpu(devices.list)
      budget == CASE ~devices.known -> probed_budget(cards)
                  [] devices.known /\ gpu = <<>> -> 0
                  [] OTHER -> IF usable_bytes(gpu[1]) = Unsaid THEN probed_budget(cards) ELSE usable_bytes(gpu[1])
      all    == IF m.layers > 0 THEN m.layers + 1 ELSE Every
      room   == Minus(Minus(budget, kv_cache_bytes(m, ctx)), overhead(m.size))
  IN CASE setting.kind = "none"  -> 0
       [] setting.kind = "all"   -> all
       [] setting.kind = "fixed" -> setting.layers
       [] OTHER -> IF budget = Unsaid \/ (devices.known /\ gpu = <<>>) THEN 0
                   ELSE IF requirements(m, ctx) <= budget THEN all
                   ELSE IF m.layers = 0 THEN Unsaid
                   ELSE Least(room \div Greatest(m.size \div m.layers, 1), m.layers)

\* Only an engine that offloads is told how many.
asked_layers(m, s, cards, devices, ctx, setting) ==
  IF backend_for(m, s) \in Artifacts \cup {"strata"} THEN Unsaid ELSE plan_gpu_layers(m, cards, devices, ctx, setting)
-----------------------------------------------------------------------------
(* What became of them.  A log line: [kind |-> "offloaded", n, m],          *)
(* [kind |-> "buffer", name, bytes], [kind |-> "using", device].            *)

is_cpu_buffer(name) == name \in {"CPU", "CPU_Mapped", "CUDA_Host"}
Offload(asked, layers, device, bytes, evidence) ==
  [asked |-> asked, layers |-> layers, device |-> device, accelerator_bytes |-> bytes, evidence |-> evidence]

\* Mutant: the log's count is taken at its word, whatever buffers it lists.
CountIsTrusted(lines, asked) ==
  LET at == SelectLastInSeq(lines, LAMBDA l : l.kind = "offloaded")
  IN IF at = 0 THEN <<>> ELSE <<Offload(asked, lines[at].n, "none", 0, "log")>>

offload_from_log(lines, asked) ==
  LET at      == SelectLastInSeq(lines, LAMBDA l : l.kind = "offloaded")
      buffers == SelectSeq(SubSeq(lines, at + 1, Len(lines)), LAMBDA l : l.kind = "buffer" /\ ~is_cpu_buffer(l.name))
      bytes   == FoldLeft(LAMBDA n, b : n + b.bytes, 0, buffers)
      using   == SelectLastInSeq(lines, LAMBDA l : l.kind = "using")
      device  == IF using # 0 THEN lines[using].device ELSE buffers[1].name
  IN IF at = 0 THEN <<>>
     ELSE <<Offload(asked, IF bytes > 0 THEN lines[at].n ELSE 0, IF bytes > 0 THEN device ELSE "none", bytes, "log")>>

offload_from_devices(devices, asked) ==
  LET gpu == first_gpu(devices.list)
  IN CASE ~devices.known -> Offload(asked, asked, "none", Unsaid, "unverified")
       [] devices.known /\ gpu = <<>> -> Offload(asked, 0, "none", Unsaid, "list")
       [] OTHER -> Offload(asked, asked, gpu[1].id, Unsaid, "list")

\* The log is the first witness, the device list the next.
offload(lines, devices, asked) ==
  IF offload_from_log(lines, asked) = <<>> THEN offload_from_devices(devices, asked) ELSE offload_from_log(lines, asked)[1]

asked_but_none_landed(o) == o.asked > 0 /\ o.layers = 0
offload_note(setting, o, cards) ==
  CASE setting.kind = "none" -> "silent"
    [] setting.kind # "none" /\ o.evidence = "list" /\ asked_but_none_landed(o) -> "a CPU-only build"
    [] setting.kind = "auto" /\ o.evidence = "list" /\ o.asked = 0 -> "lists no device"
    [] setting.kind # "none" /\ o.evidence = "log" /\ asked_but_none_landed(o) -> "in system memory"
    [] setting.kind = "auto" /\ o.evidence = "log" /\ o.asked = 0 /\ o.layers = 0 ->
         IF \E c \in ToSet(cards) : c.kind # "cpu" THEN "silent" ELSE "no GPU"
    [] setting.kind # "none" /\ o.evidence = "unverified" /\ o.asked > 0 -> "unverified"
    [] OTHER -> "silent"
-----------------------------------------------------------------------------
(* The tokenizer an artifact is counted with.  files: those there are; the  *)
(* pinned one is beside the artifact, as is a plain one.                    *)

tokenizer_path_for(m, s, files) ==
  IF "chosen" \in files /\ s.tokenizer THEN <<"chosen">>
  ELSE IF ~m.artifact THEN <<>>
  ELSE FirstOf((IF m.pinned THEN <<"pinned">> ELSE <<>>) \o <<"beside">> \o (IF s.misaka THEN <<"misaka">> ELSE <<>>),
               LAMBDA p : p \in files)

\* What is loaded now, and what is fetched for next time.
prepare_tokenizer(m, s, files) ==
  LET path == tokenizer_path_for(m, s, files)
  IN [load |-> path, fetch |-> IF path = <<>> /\ s.fetch /\ m.artifact /\ m.pinned THEN <<"pinned">> ELSE <<>>]
-----------------------------------------------------------------------------
(* The engine's program, and what its banner says it is.                    *)

\* Where the user says; beside the Studio or in its engines directory; on the path; where macOS installs; or the bare name.
resolve_program(configured, places) ==
  LET at == FirstOf(<<"beside", "engines", "path", "system">>, LAMBDA place : place \in places)
  IN CASE configured # <<>> -> [program |-> configured, source |-> "configured"]
       [] configured = <<>> /\ at # <<>> -> [program |-> at, source |-> IF at = <<"engines">> THEN "beside" ELSE at[1]]
       [] OTHER -> [program |-> <<"bare name">>, source |-> "missing"]

(* A banner line: whether it is a version's, the number that follows, and the
   fields of its parenthesis, each [label, value]; a bare one has no label. *)
NoVersion == [commit |-> Unsaid, build |-> Unsaid]
Field(line, label) == LET at == SelectLastInSeq(line.fields, LAMBDA f : f.label = label) IN IF at = 0 THEN Unsaid ELSE line.fields[at].value
VersionOf(line) ==
  LET labelled == [commit |-> Field(line, "commit"), build |-> Field(line, "build")]
      bare     == [commit |-> IF line.fields = <<>> THEN Unsaid ELSE line.fields[1].value, build |-> line.number]
  IN CASE ~line.version -> NoVersion
       [] line.version /\ (\E f \in ToSet(line.fields) : f.label = "commit") /\ labelled # NoVersion -> labelled
       [] OTHER -> bare
VersionSaid(line) == IF line = <<>> THEN NoVersion ELSE VersionOf(line[1])
parse_version(lines) == VersionSaid(FirstOf(lines, LAMBDA l : VersionOf(l) # NoVersion))

\* What is bound into the runtime's identity: an engine that does not say has the literal "unknown" (here Unsaid).
descriptor(lines, tag) ==
  LET v == parse_version(lines)
  IN [commit |-> v.commit, build |-> IF v.build = Unsaid THEN 0 ELSE v.build, class |-> tag]
=============================================================================
