------------------------------ MODULE RulesModel ------------------------------
(* What the core crate's rules promise, over every small input (a probe).  *)
EXTENDS ModelRules, Probe

CONSTANTS FileLists, Conversations, Records, Spoils, Machines, Models, Names, Ggufs, ModelTrees, RootOrders


ProbeClasses == \E f \in FileLists, net \in {"testnet-11", "testnet-12"} :
  probe' = [rule |-> "classes", files |-> f, network |-> net]
ProbePrompt == \E c \in Conversations : probe' = [rule |-> "prompt", messages |-> c]
ProbeRecord == \E i \in Records, s \in Spoils :
  probe' = [rule |-> "record", inputs |-> i, spoil |-> s]
ProbeFit == \E hw \in Machines, m \in Models : probe' = [rule |-> "fit", hw |-> hw, model |-> m]
ProbeName == \E n \in Names, t \in Tags : probe' = [rule |-> "name", stem |-> n, tag |-> t]
ProbeGguf == \E f \in Ggufs : \E n \in 0 .. Len(f) : probe' = [rule |-> "gguf", file |-> f, cut |-> n]
ProbeScan == \E t \in ModelTrees, o \in RootOrders : probe' = [rule |-> "scan", tree |-> t, roots |-> SelectSeq(o, LAMBDA r : r = <<>> \/ r \in DOMAIN t)]

-----------------------------------------------------------------------------
(* A class reads as present exactly when the file the scan found under its name
   has the size the class pins, a download under way is never it, and whatever
   a class calls its file is kept out of an inference engine, on every
   network: assess, exact_artifact_size, is_artifact_filename and the tokenizer
   names, which three callers use apart from each other. *)
PresentIsTheRightFile ==
  probe.rule = "classes" =>
    LET table == classes_for(probe.network)
        files == probe.files
        named(c) == {i \in DOMAIN files : files[i].name = c.artifact.filename}
        first(c) == CHOOSE i \in named(c) : \A k \in named(c) : i <= k
    IN \A n \in DOMAIN table :
         LET c     == table[n]
             state == assess(table, files, 4000)[n].readiness.state
         IN IF ~HasFile(c) THEN state = "ReadyBuiltIn"
            ELSE /\ state = "ArtifactMissing" <=> named(c) = {}
                 /\ state = "ArtifactPresent" <=>
                      named(c) # {} /\ exact_artifact_size(c) \in {0, files[first(c)].size}
                 /\ is_artifact_filename(c.artifact.filename)
                 /\ ~is_artifact_filename(Append(c.artifact.filename, "part"))
                 /\ known_classes[class_for_artifact_filename(c.artifact.filename)].tokenizer = c.tokenizer
                 /\ \A k \in DOMAIN known_classes :
                      tokenizer_filename(c) # <<>> /\ tokenizer_filename(c) = tokenizer_filename(known_classes[k])
                        => known_classes[k].artifact = c.artifact
                 /\ default_class_for(probe.network) \in ToSet(table)

(* Two conversations, or a conversation and a raw prompt, never commit to the
   same bytes: canonical_prompt_bytes and canonical_raw_prompt_bytes. *)
PromptsAreDistinct ==
  probe.rule = "prompt" =>
    LET bytes == canonical_prompt_bytes(probe.messages)
    IN /\ \A d \in Conversations : canonical_prompt_bytes(d) = bytes => d = probe.messages
       /\ \A d \in Conversations : d # <<>> => canonical_raw_prompt_bytes(d[1].content) # bytes

(* A record verifies against its own prompt and output, and against nothing
   else: change the answer, the counts, the settings, the model's digest or
   size, or the engine, and it does not.  How long it took is not committed. *)
OnlyTheTrueRecordVerifies ==
  probe.rule = "record" =>
    LET i == probe.inputs
        r == InferenceRecord(i)
        s == probe.spoil
        bad == CASE s = "tokens"  -> [r EXCEPT !.completion_tokens = @ + 1]
                 [] s = "seed"    -> [r EXCEPT !.params.seed = IF @ = NoSeed THEN 0 ELSE NoSeed]
                 [] s = "size"    -> IF r.model = NoModel THEN [r EXCEPT !.params.max_tokens = @ + 1]
                                     ELSE [r EXCEPT !.model.size = @ + 1]
                 [] s = "drop"    -> [r EXCEPT !.model = NoModel, !.prompt_tokens = IF r.model = NoModel THEN @ + 1 ELSE @]
                 [] s = "engine"  -> [r EXCEPT !.runtime.build = @ + 1]
                 [] s = "class"   -> [r EXCEPT !.runtime.class_tag = Append(@, 0)]
                 [] OTHER -> r
    IN /\ verify(r, i.prompt, i.output)
       /\ bad # r => ~verify(bad, i.prompt, i.output)
       /\ ~verify(r, Append(i.prompt, 0), i.output) /\ ~verify(r, i.prompt, Append(i.output, 0))
       /\ InferenceRecord([i EXCEPT !.duration_ms = @ + 1]).inference_hash = r.inference_hash
       /\ r.replayability = "Unrepeatable" <=> i.params.temperature # 0 /\ i.params.seed = NoSeed

(* The context a model is loaded with is one its verdict says fits, unless it is
   already the smallest one offered; it is never more than the model was trained
   on, and a smaller load never gets a worse verdict. *)
RecommendedFits ==
  probe.rule = "fit" =>
    LET m   == probe.model
        ctx == recommended_context(m, probe.hw)
        fit(c) == for_bytes(requirements(m, c), probe.hw)
        rank(v) == CASE v = "Fits" -> 3 [] v = "Tight" -> 2 [] v = "PartialOffload" -> 1 [] OTHER -> 0
    IN /\ ctx > CtxFloor => fit(ctx) \in {"Fits", "Tight"}
       /\ m.trained # 0 => ctx <= m.trained
       /\ \A c \in 1 .. ctx : rank(fit(c)) >= rank(fit(ctx))

(* A file named for its quantization is recognised as that one and not as a
   shorter label inside it. *)
LongestLabelWins ==
  probe.rule = "name" =>
    LET name == probe.stem \o <<"-">> \o probe.tag
    IN from_filename(probe.stem) = <<>> => from_filename(name) = probe.tag

(* A header cut short anywhere is refused: a download's first bytes are never
   read as a smaller model. What follows the header changes nothing. *)
CutHeaderIsRefused ==
  probe.rule = "gguf" =>
    \A whole \in {from_reader(probe.file)}, part \in {from_reader(SubSeq(probe.file, 1, probe.cut))} :
      whole.ok =>
         /\ probe.cut < whole.pos - 1 => ~part.ok
         /\ probe.cut >= whole.pos - 1 => part = whole

(* What is listed under a directory is what can be loaded: a diffusers or MLX
   directory as one model and nothing in it, a file in no such directory, no
   part but a first one, nothing under a hidden name and nothing more than
   MAX_DEPTH directories down.  No image model is listed as a chat model, and of
   one id what is listed is of the first directory that has it, or a root. *)
ScanFindsModels ==
  probe.rule = "scan" =>
    LET t == probe.tree
        roots == probe.roots
        above(p, n) == {SubSeq(p, 1, k) : k \in n .. Len(p) - 1}
        whole(p) == inspect_diffusers_dir(t, p) \/ inspect_mlx_dir(t, p)
        loadable(p) == IF IsDir(t, p) THEN whole(p) ELSE ModelFile(t, p)
        under(root) ==
          {p \in DOMAIN t : /\ Len(p) > Len(root) /\ SubSeq(p, 1, Len(root)) = root /\ Len(p) - Len(root) <= MAX_DEPTH + 1
                            /\ loadable(p) /\ \A k \in Len(root) + 1 .. Len(p) : p[k].ext # "hidden"
                            /\ \A d \in above(p, Len(root) + 1) : ~whole(d)}
        listed == scan_roots(t, roots)
    IN /\ \A i \in DOMAIN roots : IsDir(t, roots[i]) => {m.path : m \in scan_dir(t, roots[i], 0)} = under(roots[i])
       /\ \A m \in listed : m.list = "image" <=> IsDir(t, m.path) /\ inspect_diffusers_dir(t, m.path)
       /\ \A m \in listed : Last(m.path).stem \in {<<"m", "00002", "of", "00002">>} => IsDir(t, m.path)
       /\ \A m, o \in listed : m.id = o.id /\ m.list = o.list /\ m # o =>
            \E i \in DOMAIN roots : IsDir(t, roots[i]) /\ {m.path, o.path} \subseteq under(roots[i])

(* What a record commits to determines the job it records. *)
RecordsBind == PromptsAreDistinct /\ OnlyTheTrueRecordVerifies

(* What the Studio says of a model's file is so: the class it serves, the memory
   it needs, its quantization and its header; and what is listed is there. *)
ModelsAreRead == PresentIsTheRightFile /\ RecommendedFits /\ LongestLabelWins /\ CutHeaderIsRefused /\ ScanFindsModels
=============================================================================
