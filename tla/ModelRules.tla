------------------------------ MODULE ModelRules ------------------------------
(***************************************************************************)
(* What the core crate says of models: the class tables of the mining      *)
(* networks and the files they ask for, the identities a record commits    *)
(* to, the memory a model needs, the quantization a name gives away, what  *)
(* a scan of a directory finds, and the header of a GGUF file.  Sizes are  *)
(* in MiB; a byte string is a sequence of symbols, a word (u64) a sequence *)
(* of WordBytes of them.                                                   *)
(***************************************************************************)
EXTENDS Integers, Sequences, FiniteSets, SequencesExt

CONSTANTS
  WordBytes, Symbols,                            \* the bytes of a word, and how many bytes there are
  OverheadFloor, OsReserve, DefaultKv, TrainedCap, DefaultTrained, CtxFloor,
  Tags, FileTypes,                               \* quantization labels, and general.file_type -> label
  MAX_DEPTH, ShardNumbers,                       \* how deep a scan goes; the numbers of three digits and more
  MaxKv, MaxTensors, MaxString, MaxArray, Preview  \* the limits of the GGUF reader

ASSUME ModelRulesAssumption ==
  /\ WordBytes \in Nat \ {0} /\ Symbols \in Nat /\ Symbols > 1
  /\ {OverheadFloor, OsReserve, DefaultKv, TrainedCap, DefaultTrained, CtxFloor} \subseteq Nat

Least(a, b)    == IF a < b THEN a ELSE b
Greatest(a, b) == IF a < b THEN b ELSE a
Times(n)       == [i \in 1 .. n |-> i]
Minus(a, b)    == IF a < b THEN 0 ELSE a - b      \* saturating_sub

(***************************************************************************)
(* Classes and their artifacts.  A file name is the sequence of its pieces *)
(* between dots; the letter case is gone.                                  *)
(***************************************************************************)
Derived == [kind |-> "DerivedFromSeed", filename |-> <<>>, size |-> 0, exact |-> FALSE]
Download(name, size) == [kind |-> "Download", filename |-> name, size |-> size, exact |-> TRUE]
ConvertLocally(name, approx) == [kind |-> "ConvertLocally", filename |-> name, size |-> approx, exact |-> FALSE]
Class(name, artifact, tokenizer, memory) ==
  [name |-> name, artifact |-> artifact, tokenizer |-> tokenizer, min_memory |-> memory]

PALW_BASE_0 == Class("PALW-BASE-0", Derived, FALSE, 0)

TESTNET12_CLASSES == <<
  PALW_BASE_0,
  Class("PALW-QWEN25-A16-8K", Download(<<"qwen25-1", "5b-a16-8k", "palwart">>, 1716), TRUE, 3758),
  Class("PALW-QWEN25-A16-2M", Download(<<"qwen25-1", "5b-a16-2m", "palwart">>, 2736), TRUE, 11878) >>

TESTNET11_CLASSES == <<
  PALW_BASE_0,
  Class("PALW-QWEN25-A16", Download(<<"qwen25-1", "5b-a16", "palwart">>, 1712), TRUE, 0),
  Class("QWEN36", Download(<<"qwen36", "palwq36">>, 34802), FALSE, 0),
  Class("PALW-QWEN25-A16-2M", Download(<<"qwen25-1", "5b-a16-2m", "palwart">>, 2736), TRUE, 0),
  Class("QWEN36-2M", ConvertLocally(<<"qwen36-2m", "palwq36">>, 36850), FALSE, 0) >>

known_classes == TESTNET12_CLASSES \o TESTNET11_CLASSES
classes_for(network) == IF network = "testnet-11" THEN TESTNET11_CLASSES ELSE TESTNET12_CLASSES
default_class_for(network) ==
  LET name == IF network = "testnet-11" THEN "PALW-QWEN25-A16" ELSE "PALW-QWEN25-A16-8K"
      t    == classes_for(network)
  IN t[SelectInSeq(t, LAMBDA c : c.name = name)]

HasFile(class) == class.artifact.kind # "DerivedFromSeed"
file_extension(class) == Last(class.artifact.filename)
is_artifact_filename(name) ==
  \E i \in DOMAIN known_classes : HasFile(known_classes[i]) /\ Last(name) = file_extension(known_classes[i])

\* The place of the class in the tables, 0 for a name no class has.
class_for_artifact_filename(name) ==
  SelectInSeq(known_classes, LAMBDA c : HasFile(c) /\ c.artifact.filename = name)

tokenizer_filename(class) ==
  IF class.tokenizer /\ HasFile(class) THEN Front(class.artifact.filename) \o <<"tokenizer", "json">> ELSE <<>>

\* 0 where no size is pinned.
exact_artifact_size(class) == IF class.artifact.exact THEN class.artifact.size ELSE 0

\* files: what the scan of the models directory found, [name, size]; the first of a name counts.
Readiness(class, files) ==
  LET at == SelectInSeq(files, LAMBDA f : f.name = class.artifact.filename)
  IN CASE ~HasFile(class) -> [state |-> "ReadyBuiltIn"]
       [] HasFile(class) /\ at = 0 -> [state |-> "ArtifactMissing", downloadable |-> class.artifact.kind = "Download"]
       [] HasFile(class) /\ at > 0 /\ class.artifact.exact /\ files[at].size # class.artifact.size ->
            [state |-> "ArtifactMismatch", size |-> files[at].size, expected |-> class.artifact.size]
       [] OTHER -> [state |-> "ArtifactPresent", size |-> files[at].size]

assess(classes, files, memory) ==
  [i \in DOMAIN classes |->
     [name |-> classes[i].name, readiness |-> Readiness(classes[i], files),
      memory_note |-> classes[i].min_memory > memory \/ classes[i].artifact.size > memory]]

\* A published model is present when its index and every segment are, at their sizes.
published_present(wanted, files) ==
  \A w \in wanted : \E i \in DOMAIN files : files[i] = w

(***************************************************************************)
(* Identities.  The keyed hash is the pair of its key and the bytes it     *)
(* reads: two inputs that feed it the same bytes have the same digest.     *)
(***************************************************************************)
Word(n) == [i \in 1 .. WordBytes |-> (n \div Symbols ^ (i - 1)) % Symbols]
MaxWord == Symbols ^ WordBytes - 1
keyed(key, parts) == <<key, FlattenSeq(parts)>>
NoDigest == <<"zero", <<>>>>
NoModel  == [h_m |-> NoDigest]      \* a file not hashed yet
NoSeed   == -1

derive_model_weights_hash(m) ==
  keyed("model", <<m.sha, Word(m.size), m.filename, m.base_repo, m.base_revision>>)
derive_runtime_hash(r) == keyed("runtime", <<r.commit, r.patch, Word(r.build), r.profile>>)
derive_runtime_class_id(r) == keyed("class", <<r.class_tag>>)
commitment(p) ==
  keyed("params", <<Word(p.temperature), Word(p.max_tokens), <<IF p.seed = NoSeed THEN 0 ELSE 1>>,
                    Word(IF p.seed = NoSeed THEN 0 ELSE p.seed)>>)
replayability(p) ==
  CASE p.temperature = 0 -> "Deterministic"
    [] p.temperature # 0 /\ p.seed # NoSeed -> "SeededSampling"
    [] OTHER -> "Unrepeatable"

commit_prompt(bytes) == keyed("prompt", <<Word(Len(bytes)), bytes>>)
commit_output(bytes) == keyed("output", <<Word(Len(bytes)), bytes>>)
\* Mutant: a role is followed by its content without its length.
RolesRunOn(messages) ==
  LET field(m) == m.role \o Word(Len(m.content)) \o m.content
  IN Word(Len(messages)) \o FlattenSeq([i \in DOMAIN messages |-> field(messages[i])])

canonical_prompt_bytes(messages) ==
  LET field(m) == Word(Len(m.role)) \o m.role \o Word(Len(m.content)) \o m.content
  IN Word(Len(messages)) \o FlattenSeq([i \in DOMAIN messages |-> field(messages[i])])
canonical_raw_prompt_bytes(prompt) == Word(MaxWord) \o Word(Len(prompt)) \o prompt

HashOf(r) ==
  keyed("inference", << <<r.model.h_m>>, <<r.runtime.h_r>>, <<r.runtime.class_id>>,
    <<commitment(r.params)>>, <<r.prompt_commitment>>, <<r.output_commitment>>,
    Word(r.prompt_tokens), Word(r.completion_tokens) >>)

InferenceRecord(i) ==
  LET r == [model |-> i.model, runtime |-> i.runtime, params |-> i.params,
            prompt_commitment |-> commit_prompt(i.prompt), output_commitment |-> commit_output(i.output),
            prompt_tokens |-> i.prompt_tokens, completion_tokens |-> i.completion_tokens,
            replayability |-> replayability(i.params), duration_ms |-> i.duration_ms, inference_hash |-> NoDigest]
  IN [r EXCEPT !.inference_hash = HashOf(r)]

verify(r, prompt, output) ==
  /\ commit_prompt(prompt) = r.prompt_commitment /\ commit_output(output) = r.output_commitment
  /\ HashOf(r) = r.inference_hash
  /\ r.model # NoModel => r.model.h_m = derive_model_weights_hash(r.model)
  /\ r.runtime.h_r = derive_runtime_hash(r.runtime) /\ r.runtime.class_id = derive_runtime_class_id(r.runtime)

(***************************************************************************)
(* Memory.  hw is [ram, gpus]: each gpu what it can use, -1 when unknown.  *)
(***************************************************************************)
cpu_usable_memory(total) == Least(Minus(total, OsReserve), (total * 85) \div 100)
overhead(weights) == Greatest((weights * 6) \div 100, OverheadFloor)
requirements(m, ctx) ==
  m.size + (IF m.kv = 0 THEN DefaultKv ELSE m.kv) * ctx + overhead(m.size)
image_requirements(size, width, height, batch, unit) ==
  size + overhead(size) + ((width + 7) \div 8) * ((height + 7) \div 8) * Greatest(batch, 1) * unit

Usable(hw) == {g \in ToSet(hw.gpus) : g >= 0}
Widest(S)  == CHOOSE g \in S : \A h \in S : h <= g
best_usable_memory(hw) == IF Usable(hw) = {} THEN cpu_usable_memory(hw.ram) ELSE Widest(Usable(hw))

Roomy(total, budget) == IF (budget - total) * 10 >= budget THEN "Fits" ELSE "Tight"
for_bytes(total, hw) ==
  LET ram == cpu_usable_memory(hw.ram)
      gpu == Usable(hw)
  IN CASE gpu # {} /\ total <= Widest(gpu) -> Roomy(total, Widest(gpu))
       [] gpu # {} /\ total > Widest(gpu) /\ total <= ram -> "PartialOffload"
       [] gpu = {} /\ total <= ram -> Roomy(total, ram)
       [] OTHER -> "DoesNotFit"

\* The context a model is loaded with: its own, halved until it fits, never below the floor.
recommended_context(m, hw) ==
  LET trained == Least(IF m.trained = 0 THEN DefaultTrained ELSE m.trained, TrainedCap)
      halve(ctx, k) == IF ctx > CtxFloor /\ requirements(m, ctx) > best_usable_memory(hw) THEN ctx \div 2 ELSE ctx
  IN Greatest(FoldLeft(halve, trained, Times(trained)), Least(CtxFloor, trained))

(***************************************************************************)
(* Quantization: a label is a token of the name when nothing alphanumeric  *)
(* touches it; the longest label is tried first.                           *)
(***************************************************************************)
Separators == {"_", "-", "."}
contains_token(name, tag) ==
  \E i \in 1 .. Len(name) - Len(tag) + 1 :
    /\ SubSeq(name, i, i + Len(tag) - 1) = tag
    /\ i > 1 => name[i - 1] \in Separators
    /\ i + Len(tag) <= Len(name) => name[i + Len(tag)] \in Separators

all_tags == SetToSortSeq(Tags, LAMBDA s, t : Len(s) > Len(t))
from_filename(name) ==
  LET at == SelectInSeq(all_tags, LAMBDA t : contains_token(name, t)) IN IF at = 0 THEN <<>> ELSE all_tags[at]
detect(file_type, name) == IF file_type \in DOMAIN FileTypes THEN FileTypes[file_type] ELSE from_filename(name)

(***************************************************************************)
(* The scan of a directory (store.rs).  A tree is a function from paths to *)
(* what is there: "dir", "file", or "broken" for a file that does not read *)
(* as its name says.  A path is a sequence of names; a name is [stem, ext],*)
(* its stem the pieces between dashes, its ext "hidden" after a first dot. *)
(***************************************************************************)
ModelIndex == [stem |-> <<"model_index">>, ext |-> "json"]
Config     == [stem |-> <<"config">>, ext |-> "json"]

read_dir(t, d)  == {p \in DOMAIN t : Len(p) = Len(d) + 1 /\ Front(p) = d}
Readable(t, p) == p \in DOMAIN t /\ t[p] = "file"
IsDir(t, p)    == p = <<>> \/ t[p] = "dir"
Weights(t, d)  == {p \in read_dir(t, d) : Last(p).ext = "safetensors"}

\* The piece before the first "-of-" is a number other than 1, and not the first piece.
is_non_first_shard(name) ==
  LET ofs == {i \in 2 .. Len(name.stem) - 1 : name.stem[i] = "of"}
  IN \E i \in ofs :
       /\ \A j \in ofs : i <= j
       /\ i > 2 /\ name.stem[i - 1] \in DOMAIN ShardNumbers /\ ShardNumbers[name.stem[i - 1]] # 1

dir_has_safetensors(t, d) ==
  \E e \in {d} \cup {p \in read_dir(t, d) : IsDir(t, p)} : \E w \in Weights(t, e) : ~IsDir(t, w)
inspect_diffusers_dir(t, d) == Readable(t, Append(d, ModelIndex)) /\ dir_has_safetensors(t, d)
inspect_mlx_dir(t, d)       == Readable(t, Append(d, Config)) /\ Weights(t, d) # {}

\* A model is its list, its id and its path.
InList(list, t, p) ==
  [list |-> list, path |-> p, id |-> IF IsDir(t, p) /\ Last(p).ext # "" THEN Append(Last(p).stem, Last(p).ext) ELSE Last(p).stem]
ModelFile(t, p) ==
  \/ is_artifact_filename(<<Last(p).ext>>)
  \/ Last(p).ext = "gguf" /\ ~is_non_first_shard(Last(p)) /\ Readable(t, p)

RECURSIVE scan_dir(_, _, _)
ScanEntry(t, p, depth) ==
  IF Last(p).ext = "hidden" THEN {}
  ELSE IF IsDir(t, p)
       THEN IF inspect_diffusers_dir(t, p) THEN {InList("image", t, p)}
            ELSE IF inspect_mlx_dir(t, p) THEN {InList("chat", t, p)} ELSE scan_dir(t, p, depth + 1)
       ELSE IF ModelFile(t, p) THEN {InList("chat", t, p)} ELSE {}
scan_dir(t, d, depth) ==
  IF depth > MAX_DEPTH THEN {} ELSE UNION {ScanEntry(t, p, depth) : p \in read_dir(t, d)}

\* Of the files of one id the first found stays, and a root that is a file takes its place.
\* Within a directory none is first: what may be listed is a set of models, one of each id.
scan_roots(t, roots) ==
  LET same(m, S) == {o \in S : o.list = m.list /\ o.id = m.id}
      Add(found, root) ==
        IF IsDir(t, root) THEN found \cup {m \in scan_dir(t, root, 0) : same(m, found) = {}}
        ELSE IF ~Readable(t, root) \/ Last(root).ext # "gguf" THEN found
             ELSE (found \ same(InList("chat", t, root), found)) \cup {InList("chat", t, root)}
  IN FoldLeft(Add, {}, roots)

(***************************************************************************)
(* The GGUF header.  A file is a sequence of numbers, one per value read;  *)
(* strings are a length and that many numbers.  A read is [ok, pos, v].    *)
(***************************************************************************)
Got(pos, v) == [ok |-> TRUE, pos |-> pos, v |-> v]
Malformed   == [ok |-> FALSE, pos |-> 0, v |-> 0]

number(file, at)       == IF at.ok /\ at.pos <= Len(file) THEN Got(at.pos + 1, file[at.pos]) ELSE Malformed
bounded(file, at, max) == LET n == number(file, at) IN IF n.ok /\ n.v <= max THEN n ELSE Malformed
string(file, at) ==
  LET n == bounded(file, at, MaxString)
  IN IF n.ok /\ n.pos + n.v - 1 <= Len(file) THEN Got(n.pos + n.v, SubSeq(file, n.pos, n.pos + n.v - 1)) ELSE Malformed

GGUF_MAGIC == 71
StringType == 8
ArrayType  == 9
Scalars == {0, 1, 2, 3, 4, 5, 6, 7, 10, 11, 12}
scalar_of_type(file, at, ty) ==
  CASE ty = StringType -> string(file, at) [] ty \in Scalars -> number(file, at) [] OTHER -> Malformed

value(file, at) ==
  LET ty   == number(file, at)
      elem == number(file, ty)
      len  == bounded(file, elem, MaxArray)
      item(acc, i) == LET v == scalar_of_type(file, acc, elem.v)
                      IN IF v.ok THEN Got(v.pos, IF i <= Preview THEN Append(acc.v, v.v) ELSE acc.v) ELSE Malformed
  IN IF ty.ok /\ ty.v = ArrayType
     THEN IF len.ok /\ elem.v # ArrayType THEN FoldLeft(item, Got(len.pos, <<>>), [i \in 1 .. len.v |-> i]) ELSE Malformed
     ELSE IF ty.ok THEN scalar_of_type(file, ty, ty.v) ELSE Malformed

\* One metadata entry, and one tensor: the accumulated value is <<kv, parameters>>.
Entry(file, acc) ==
  LET key == string(file, acc)
      v   == value(file, key)
  IN IF key.ok /\ v.ok
     THEN Got(v.pos, <<[k \in DOMAIN acc.v[1] \cup {key.v} |-> IF k = key.v THEN v.v ELSE acc.v[1][k]], acc.v[2]>>)
     ELSE Malformed
Tensor(file, acc) ==
  LET name == string(file, acc)
      dims == bounded(file, name, 8)
      size == FoldLeft(LAMBDA d, i : LET n == number(file, d) IN IF n.ok THEN Got(n.pos, d.v * n.v) ELSE Malformed,
                       [dims EXCEPT !.v = 1], [i \in 1 .. dims.v |-> i])
      last == number(file, number(file, size))
  IN IF last.ok THEN Got(last.pos, <<acc.v[1], acc.v[2] + size.v>>) ELSE Malformed

Body(file, magic, version, tensors, kvs) ==
  LET start == IF kvs.ok /\ magic.v = GGUF_MAGIC /\ version.v \in 2 .. 3
               THEN [kvs EXCEPT !.v = <<[k \in {} |-> 0], 0>>] ELSE Malformed
      meta  == FoldLeft(LAMBDA acc, i : IF acc.ok THEN Entry(file, acc) ELSE Malformed, start, Times(kvs.v))
  IN FoldLeft(LAMBDA acc, i : IF acc.ok THEN Tensor(file, acc) ELSE Malformed, meta, Times(tensors.v))

from_reader(file) ==
  LET magic   == number(file, Got(1, 0))
      version == number(file, magic)
      tensors == bounded(file, version, MaxTensors)
  IN Body(file, magic, version, tensors, bounded(file, tensors, MaxKv))
=============================================================================
