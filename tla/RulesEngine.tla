------------------------------- MODULE RulesEngine -------------------------------
(* Which engine, which build of it, and what it does with a model (a probe). *)
EXTENDS EngineRules, Probe

CONSTANTS Cards, Releases, TagTexts, FileTrees, DeviceTexts, DeviceLists, Runs, EngineModels, Banners, LoadWindows, OffloadSettings, LoadLogs, EarlierLogs

Platforms == {"macos", "linux", "windows", "freebsd"} \X {"aarch64", "x86_64"}

ProbeBuild ==
  \/ \E c \in Cards, p \in Platforms, r \in Releases : probe' = [rule |-> "build", cards |-> c, platform |-> p, listing |-> r]
  \/ \E t, q \in TagTexts, r \in BoundedSeq(TagTexts, 2) : probe' = [rule |-> "tag", latest |-> [tag |-> t, pointer |-> q], recent |-> r]
  \/ \E f \in FileTrees, d \in 0 .. 2 : probe' = [rule |-> "file", files |-> f, name |-> 2, depth |-> d]

ProbeDevices ==
  \/ \E l \in DeviceTexts, c \in Cards : probe' = [rule |-> "devices", lines |-> l, cards |-> c]
  \/ \E b \in Banners, l \in DeviceTexts, c \in Cards : probe' = [rule |-> "banner", banner |-> b, lines |-> l, cards |-> c]
  \/ \E c \in {<<>>, <<"mine">>}, p \in SUBSET {"beside", "engines", "path", "system"} : probe' = [rule |-> "program", configured |-> c, places |-> p]
  \/ \E r \in [1 .. 3 -> Runs] : probe' = [rule |-> "runs", runs |-> r]

ProbeOffload == \E m \in EngineModels, c \in Cards, l \in DeviceLists, w \in LoadWindows, s \in OffloadSettings, before \in EarlierLogs, now \in LoadLogs :
  probe' = [rule |-> "offload", m |-> m, cards |-> c, devices |-> parse_list_devices(l), ctx |-> w, setting |-> s, before |-> before, now |-> now]

ProbeEngine ==
  \/ \E m \in [artifact : BOOLEAN, strata : BOOLEAN], e \in {"llamacpp", "mlx", "misaka", "gateway", "strata", "mock"},
        s \in [gateway : BOOLEAN, serve : BOOLEAN, background : BOOLEAN, mlx : BOOLEAN] : probe' = [rule |-> "engine", m |-> m, s |-> s @@ [engine |-> e]]
  \/ \E m \in [artifact : BOOLEAN, pinned : BOOLEAN], s \in [tokenizer : BOOLEAN, misaka : BOOLEAN, fetch : BOOLEAN],
        f \in SUBSET {"chosen", "pinned", "beside", "misaka"} : probe' = [rule |-> "tokenizer", m |-> m, s |-> s, files |-> f]
-----------------------------------------------------------------------------
(* The build suggested is one of the platform's, and there is one wherever
   there are any; an NVIDIA card gets CUDA where upstream has it, in the newest
   build its driver can run, when there is one.  The size shown for a build is
   what installing it downloads, and no size is shown for one that an install
   would refuse.  (recommend, flavors_for, api/engines.rs size_of, install.) *)
BuildIsForTheMachine ==
  probe.rule = "build" =>
    LET flavors == ToSet(flavors_for(probe.platform[1], probe.platform[2]))
        got     == recommend(probe.cards, probe.platform[1], probe.platform[2])
        cuda    == {f \in flavors : f.accelerator = "cuda"}
        nvidia  == SelectSeq(probe.cards, LAMBDA c : c.kind = "cuda")
        runs    == {f \in cuda : f.driver <= nvidia[1].driver}
    IN /\ ToSet(got) \subseteq flavors /\ (got = <<>> <=> flavors = {})
       /\ nvidia # <<>> /\ cuda # {} => got[1] \in cuda
       /\ nvidia # <<>> /\ runs # {} => got[1] \in runs /\ (\A f \in runs : f.driver <= got[1].driver)
       /\ \A f \in flavors : LET install == assets(f, probe.listing)
                             IN download_bytes(f, probe.listing) = IF install.ok THEN install.bytes ELSE Unsaid

(* A release is looked up by a build's tag, and by the one upstream points at
   if it points at any.  (resolve_tag.) *)
TagIsABuild ==
  probe.rule = "tag" =>
    LET got   == resolve_tag(probe.latest, probe.recent)
        named == <<probe.latest.pointer, probe.latest.tag>> \o probe.recent
    IN IF \E t \in ToSet(named) : is_build_tag(t)
       THEN is_build_tag(got[1]) /\ (\A i \in DOMAIN named : is_build_tag(named[i]) => \E j \in 1 .. i : named[j] = got[1])
       ELSE got = <<>>

(* The program found in what an archive unpacked to is a file of that name, not
   deeper than asked, and none of that name is nearer the top.  (find_file.) *)
NearestIsFound ==
  probe.rule = "file" =>
    LET f    == probe.files
        got  == find_file(f, probe.name, probe.depth)
        fits == {p \in DOMAIN f : f[p] = "file" /\ Last(p) = probe.name /\ Len(p) <= probe.depth + 1}
    IN IF fits = {} THEN got = <<>> ELSE got[1] \in fits /\ \A p \in fits : Len(got[1]) <= Len(p)

(* An engine's list of devices is unknown only when there is no list; what
   answers for the arithmetic is what the layers are put on: an engine whose
   tag is "cpu" by its own list is planned no layer under Auto, and one with a
   GPU in its list is never tagged "cpu", whatever card the machine has.
   (parse_list_devices, accelerator_tag_for, plan_gpu_layers.) *)
TagIsWhatComputes ==
  probe.rule = "devices" =>
    LET devices == parse_list_devices(probe.lines)
        tag     == accelerator_tag_for(devices, probe.cards)
        plan_(m, w) == plan_gpu_layers(m, probe.cards, devices, w, [kind |-> "auto"])
        gpus    == {d \in ToSet(devices.list) : d.kind = "gpu"}
    IN /\ devices.known <=> (\E l \in ToSet(probe.lines) : l.kind = "header")
       /\ devices.known => (tag = "cpu" <=> gpus = {})
       /\ devices.known /\ tag = "cpu" => (\A m \in EngineModels, w \in LoadWindows : plan_(m, w) = 0)
       /\ \A d \in ToSet(devices.list) : d.kind # "cpu"

(* What a probe answers is what the file of that name, time and length said to
   a run of it that ended, this one or an earlier one; a run that timed out is
   asked again.  (probe_program.) *)
ProbesAreOfTheFile ==
  probe.rule = "runs" =>
    LET runs    == probe.runs
        Run(i)  == probe_program_uncached(runs[i].version, runs[i].listing)
        asked   == FoldLeft(LAMBDA st, r : LET p == probe_program(st.cache, r.key, r.version, r.listing)
                                           IN [cache |-> p.cache, answers |-> Append(st.answers, p.answer)],
                            [cache |-> <<>>, answers |-> <<>>], runs)
    IN \A i \in DOMAIN runs :
         \/ asked.answers[i] = Run(i).probe
         \/ \E j \in 1 .. i - 1 : runs[j].key = runs[i].key /\ Run(j).settled /\ Run(j).probe.runs /\ asked.answers[i] = Run(j).probe

(* What an engine is identified by is what it says of itself, in whichever form,
   the labelled one first, and never a piece of the other form's text; one that
   says nothing is "unknown".  Its class names the arithmetic it runs and not
   the machine's card.  (parse_version, descriptor.) *)
EngineIsWhatItSays ==
  probe.rule = "banner" =>
    LET said  == {l \in ToSet(probe.banner) : l.version}
        Of(l, label) == {f.value : f \in {f \in ToSet(l.fields) : f.label = label}}
    IN \A d \in {descriptor(probe.banner, accelerator_tag_for(parse_list_devices(probe.lines), probe.cards))} :
       /\ d.commit # Unsaid => \E l \in said : /\ \E f \in ToSet(l.fields) : f.value = d.commit
                                                /\ Of(l, "commit") # {} => d.commit \in Of(l, "commit")
       /\ d.build > 0 => \E l \in said : d.build \in Of(l, "build") \cup {l.number}
       /\ said = {} => d.commit = Unsaid /\ d.build = 0
       /\ parse_list_devices(probe.lines) = Listed(<<>>) => d.class = "cpu"

(* The engine that runs is one that is there, unless the user named it; the
   packaged one comes before whatever the system has.  (resolve_program_in.) *)
ProgramIsThere ==
  probe.rule = "program" =>
    LET r == resolve_program(probe.configured, probe.places)
    IN /\ r.source \notin {"configured", "missing"} => r.program[1] \in probe.places
       /\ probe.configured # <<>> => r.program = probe.configured
       /\ probe.configured = <<>> => /\ r.source = "missing" <=> probe.places = {}
                                     /\ r.source = "beside" <=> probe.places \cap {"beside", "engines"} # {}

(* A plan is one the device has room for, as far as the estimate knows: every
   layer only if the whole model fits, and otherwise as many as fit beside the
   cache and the overhead, and not one fewer.  (plan_gpu_layers.) *)
PlanFits ==
  probe.rule = "offload" /\ probe.setting.kind = "auto" =>
    LET m      == probe.m
        n      == plan_gpu_layers(m, probe.cards, probe.devices, probe.ctx, probe.setting)
        gpu    == first_gpu(probe.devices.list)
        budget == IF gpu # <<>> /\ gpu[1].free # Unsaid THEN usable_bytes(gpu[1]) ELSE probed_budget(probe.cards)
        Takes(k) == k * Greatest(m.size \div m.layers, 1) + kv_cache_bytes(m, probe.ctx) + overhead(m.size)
    IN /\ n \in 1 .. m.layers => Takes(n) <= budget
       /\ n > m.layers => requirements(m, probe.ctx) <= budget
       /\ n \in 0 .. m.layers - 1 /\ (probe.devices.known => gpu # <<>>) => Takes(n + 1) > budget

(* The count shown is not the request said back: with a log, layers are on a
   device only if a buffer of this load's is, and then the device is named; an
   earlier load's lines decide nothing once this one's are in.  A load that was
   asked for layers and put none there is explained unless none were wanted,
   and a count nothing confirms is called that.  (offload_from_log,
   offload_from_devices, offload_note.) *)
OffloadIsTold ==
  probe.rule = "offload" =>
    LET p     == probe
        asked == plan_gpu_layers(p.m, p.cards, p.devices, p.ctx, p.setting)
        o     == offload(p.before \o p.now, p.devices, asked)
        own   == offload_from_log(p.now, asked)
        note  == offload_note(p.setting, o, p.cards)
        bytes == \E l \in ToSet(p.now) : l.kind = "buffer" /\ l.bytes > 0 /\ ~is_cpu_buffer(l.name)
    IN /\ own # <<>> => /\ o.evidence = "log" /\ o.layers = own[1].layers /\ o.accelerator_bytes = own[1].accelerator_bytes
                        /\ o.layers > 0 => bytes /\ o.device # "none"
       /\ asked > 0 /\ o.layers = 0 => (note = "silent" <=> p.setting.kind = "none")
       /\ asked > 0 /\ o.evidence = "unverified" => note = "unverified"
       /\ o.layers > 0 /\ o.evidence # "unverified" => note = "silent"
       /\ note = "a CPU-only build" => p.devices.known /\ first_gpu(p.devices.list) = <<>>

(* A note that the engine lists no GPU is given only of an engine that lists
   none.  (offload_note: "Auto found nothing to offload to, from the engine's
   list.") *)
NoDeviceMeansNone ==
  probe.rule = "offload" =>
    LET p     == probe
        asked == plan_gpu_layers(p.m, p.cards, p.devices, p.ctx, p.setting)
    IN offload_note(p.setting, offload(p.now, p.devices, asked), p.cards) = "lists no device" => first_gpu(p.devices.list) = <<>>

(* Whatever engine is set, a file is given to one that reads it; in the
   background an artifact is answered here when it can be, and never by the
   gateway that mines.  (backend_for, engine_pairing_refusal.) *)
EngineReadsTheFile ==
  probe.rule = "engine" /\ ~(probe.m.strata /\ probe.m.artifact) =>
    LET b == backend_for(probe.m, probe.s)
    IN /\ ~engine_pairing_refusal(probe.m, b)
       /\ b = "strata" <=> probe.m.strata
       /\ probe.m.artifact /\ probe.s.background /\ probe.s.serve => b = "misaka"
       /\ ~probe.m.strata /\ probe.s.engine # "strata" /\ ~(b = "misaka" /\ probe.s.engine = "gateway") /\ b # probe.s.engine =>
            engine_pairing_refusal(probe.m, probe.s.engine)

(* A tokenizer is fetched only when there is none to be found, and the one that
   is fetched is the one then found and not fetched again.
   (tokenizer_path_for, prepare_tokenizer.) *)
TokenizerIsFetchedOnce ==
  probe.rule = "tokenizer" =>
    LET now  == prepare_tokenizer(probe.m, probe.s, probe.files)
        next == prepare_tokenizer(probe.m, probe.s, probe.files \cup ToSet(now.fetch))
    IN /\ now.fetch # <<>> => now.load = <<>> /\ next.load = now.fetch
       /\ next.fetch = <<>>

(* The right build of the right engine for a file, and what it then says. *)
EnginesAreFound  == BuildIsForTheMachine /\ TagIsABuild /\ NearestIsFound /\ EngineReadsTheFile /\ TokenizerIsFetchedOnce
EnginesAreHonest == TagIsWhatComputes /\ ProbesAreOfTheFile /\ EngineIsWhatItSays /\ ProgramIsThere /\ PlanFits /\ OffloadIsTold
=============================================================================
