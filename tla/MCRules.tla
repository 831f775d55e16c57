------------------------------- MODULE MCRules -------------------------------
(* Every question to the pure algorithms over small inputs; one question a
   behaviour. *)
EXTENDS RulesText, RulesPath, RulesModel, MCContext, MCMiner, MCEngine

B(S, n) == BoundedSeq(S, n)
FromPairs(S) == [p \in {x[1] : x \in S} |-> (CHOOSE x \in S : x[1] = p)[2]]

\* Text: files of up to five symbols, and longer ones that repeat.
MCContents == B({"a", "sp", LF}, 5) \cup {<<"a", CR, LF, "b", CR, LF>>, <<"a", "sp", LF, "b", CR, LF, "a">>}
MCOlds == B({"a", "sp", LF}, 3) \ {<<>>}
MCNews == {<<>>, <<LF, "b">>}
MCPatches == B({"a", LF}, 5) \cup {<<Lead, Cont, LF, Lead, Cont>>, <<"a", LF, Lead, Cont, Lead, Cont, LF>>}
Byte == {"a", LF}
Streams == {<<Lead, Cont, LF, "a">>, <<"a", Lead, Cont>>} \cup B(Byte, 3)
MCChunked == {<<s, t, u>> : s \in Streams, t \in Streams, u \in {<<>>, <<Lead, Cont>>, <<"a", "a", LF, "a">>}}

\* TreePaths: a root, a folder in it, .git, a folder outside, and two links.
MCRoot == <<"w">>
Tree == {<<<<>>, <<"dir">>>>, <<MCRoot, <<"dir">>>>, <<<<"w", "a">>, <<"file">>>>, <<<<"w", "d">>, <<"dir">>>>,
         <<<<"w", "d", "a">>, <<"file">>>>, <<<<"w", ".git">>, <<"dir">>>>, <<<<"w", ".git", "a">>, <<"file">>>>,
         <<<<"o">>, <<"dir">>>>, <<<<"o", "a">>, <<"file">>>>}
Targets == {<<"o">>, <<"o", "a">>, <<"w", "d">>, <<"w", ".git">>, <<"w", "a">>, <<"w", "gone">>, <<"o", "gone">>}
MCDisks == {FromPairs(Tree \cup {<<<<"w", "l">>, <<"link", t>>>>, <<<<"w", "d", "l">>, <<"link", u>>>>}) : t, u \in Targets}
MCParts == B({"..", "a", "d", "l", ".git", "w", "o"}, 3)
TreePaths == {<<1>>, <<2>>, <<1, 1>>, <<1, 2>>, <<2, 1>>, <<1, 3>>, <<1, 1, 1>>}
MCListings == {f \in SUBSET {[path |-> p, is_dir |-> d] : p \in TreePaths, d \in BOOLEAN} :
                /\ \A e, g \in f : e.path = g.path => e = g
                /\ \A e \in f : Len(e.path) > 1 => \E g \in f : g.path = Front(e.path) /\ g.is_dir}
Two == {"p", "q"}
MCQueries == B(Two, 3) \ {<<>>}
MCTexts == B(Two, 3) \cup {<<"q", "/">> \o t : t \in B({"p", "q", "."}, 3)} \cup {<<"p", "q", "p", "p", "q">>, <<"q", "q", ".", "p", "q">>}
MCScans == B([name : Two, hits : 0 .. 3, skipped : BOOLEAN], 2)
MCGlobRules == B([exclude : BOOLEAN, hits : {{"p"}, Two}], 2)
MCGlobLists == B({<<"a">>, <<"{", "a", ",", "a", "}">>, <<"a", "}">>, <<"{", "{", "a", " ", "}", ",", "}">>}, 3)
MCPorcelains == B({[path |-> p, orig_path |-> "none", status |-> s] : p \in Two, s \in {"Modified", "Untracked", "Conflicted"}}
                  \cup {[path |-> p, orig_path |-> q, status |-> "Renamed"] : p, q \in Two}, 3)

\* Models.
File(n, s) == [name |-> n, size |-> s]
Eight == <<"qwen25-1", "5b-a16-8k", "palwart">>
Two2M == <<"qwen25-1", "5b-a16-2m", "palwart">>
Hybrid == <<"qwen36-2m", "palwq36">>
MCFileLists == B({File(Eight, 1716), File(Eight, 900), File(Append(Eight, "part"), 900), File(Two2M, 2736),
                  File(Two2M, 1716), File(Hybrid, 5), File(<<"qwen36", "palwq36">>, 34802)}, 3)
Bits == {0, 1}
MCConversations == B([role : {<<>>, <<1>>}, content : B(Bits, 2)], 2)
Model(sha, name) ==
  LET m == [sha |-> sha, size |-> 1, filename |-> name, base_repo |-> <<>>, base_revision |-> <<1>>, h_m |-> NoDigest]
  IN [m EXCEPT !.h_m = derive_model_weights_hash(m)]
Runtime(commit, build) ==
  LET r == [commit |-> commit, patch |-> <<0>>, build |-> build, profile |-> <<1>>, class_tag |-> <<0>>,
            h_r |-> NoDigest, class_id |-> NoDigest]
  IN [r EXCEPT !.h_r = derive_runtime_hash(r), !.class_id = derive_runtime_class_id(r)]
MCRecords == [model : {NoModel, Model(<<0>>, <<1>>)}, runtime : {Runtime(<<0>>, 0), Runtime(<<1>>, 1)},
              params : [temperature : {0, 1}, max_tokens : {1}, seed : {NoSeed, 0, 1}],
              prompt : B(Bits, 1), output : B(Bits, 2), prompt_tokens : {1}, completion_tokens : {0, 1}, duration_ms : {0, 5}]
MCSpoils == {"none", "tokens", "seed", "size", "drop", "engine", "class"}
MCMachines == [ram : {8, 16, 40}, gpus : B({-1, 6, 12, 30}, 2)]
MCModels == [size : {1, 4, 10, 20}, kv : {0, 1}, trained : {0, 1, 5, 8, 30}]
Label(s) == s
MCTags == {<<"Q", "4", "_", "K">>, <<"Q", "4", "_", "K", "_", "M">>, <<"Q", "4", "_", "0">>, <<"I", "Q", "4", "_", "K">>, <<"F", "1">>}
MCNames == B({"Q", "4", "_", "K", "F"}, 4)
MCFileTypes == [t \in {1, 15} |-> IF t = 1 THEN <<"F", "1">> ELSE <<"Q", "4", "_", "K", "_", "M">>]
\* A header: magic, version, tensors, entries, then the entries and the tensors.
GgufEntries == {<<1, 65, 4, 9>>, <<1, 66, 8, 2, 1, 1>>, <<0, 9, 4, 2, 5, 5>>, <<1, 65, 9, 8, 1, 2, 3, 3>>, <<1, 65, 9, 9, 1, 1>>, <<1, 65, 99>>}
GgufTensors == {<<1, 70, 2, 3, 4, 0, 0>>, <<0, 0, 1, 5>>}
MCGgufs == {<<GGUF_MAGIC, v, Len(t), Len(k)>> \o FlattenSeq(k) \o FlattenSeq(t) \o tail :
              v \in {1, 3}, k \in B(GgufEntries, 2), t \in B(GgufTensors, 2), tail \in {<<>>, <<7>>}}

\* A directory of models: whole models, parts, weights alone, and a name that is hidden.
Named(stem, ext) == [stem |-> stem, ext |-> ext]
Dir == Named(<<"d">>, "")
GgufM == Named(<<"m">>, "gguf")
Weight == Named(<<"w">>, "safetensors")
ModelPaths == {<<GgufM>>, <<Dir>>, <<Dir, ModelIndex>>, <<Dir, Config>>, <<Dir, Weight>>, <<Dir, Dir>>, <<Dir, Dir, Weight>>, <<Dir, Dir, GgufM>>,
               <<Dir, Dir, Dir>>, <<Dir, Dir, Dir, GgufM>>, <<Dir, Named(<<"m">>, "palwart")>>, <<Named(<<"h">>, "hidden")>>, <<Named(<<"h">>, "hidden"), GgufM>>,
               <<Named(<<"m", "00002", "of", "00002">>, "gguf")>>}
DirPaths == {<<Dir>>, <<Dir, Dir>>, <<Dir, Dir, Dir>>, <<Named(<<"h">>, "hidden")>>}
MCModelTrees == {[p \in s |-> IF p \in DirPaths THEN "dir" ELSE IF Last(p) = b THEN "broken" ELSE "file"] :
                   s \in {x \in SUBSET ModelPaths : \A p \in x : Len(p) > 1 => Front(p) \in x}, b \in {Dir, GgufM, Config, ModelIndex}}
MCRootOrders == {<<<<>>>>, <<<<>>, <<GgufM>>>>, <<<<Dir>>, <<>>>>}
MCShardNumbers == [s \in {"00001", "00002"} |-> IF s = "00001" THEN 1 ELSE 2]

Init == probe = [rule |-> "none"]
Next == /\ probe.rule = "none"
        /\ \/ ProbeEdit \/ ProbeRead \/ ProbeCapture \/ ProbeExcerpt
           \/ ProbeResolve \/ ProbeTree \/ ProbeScore \/ ProbeSearch \/ ProbeGlobs \/ ProbeGit \/ ProbePrefix \/ ProbeDiff
           \/ ProbePlan \/ ProbeTokens \/ ProbeTail \/ ProbeFold \/ ProbeLoop
           \/ ProbeMiner \/ ProbeCheckpoint \/ ProbeLines \/ ProbeStack \/ ProbeNode \/ ProbeJob
           \/ ProbeBuild \/ ProbeDevices \/ ProbeOffload \/ ProbeEngine
           \/ ProbeClasses \/ ProbePrompt \/ ProbeRecord \/ ProbeFit \/ ProbeName \/ ProbeGguf \/ ProbeScan
Spec == Init /\ [][Next]_probe
-----------------------------------------------------------------------------
(* What is written and shown is the text: RulesText. *)
TextsAreExact == EditIsExact /\ CutsAreHonest
(* Names lead where they should, and lists are lists of what is there: RulesPath. *)
PathsAreTrue == NamesLeadHome /\ ListingsAreTrue
(* A model is what its record and its file say: RulesModel. *)
ModelsAreKnown == RecordsBind /\ ModelsAreRead
(* A conversation is made to fit, and followed as it arrives: RulesContext. *)
ContextFits == PlansFit /\ TextsAreFollowed
(* Miners are told one thing, and what they and the node say is read as said: RulesMiner. *)
MinersAreTrue == MinersAreTold /\ MinersAreRead
(* An engine is for its machine, and what is said of it is what it does: RulesEngine. *)
EnginesAreTrue == EnginesAreFound /\ EnginesAreHonest
=============================================================================
