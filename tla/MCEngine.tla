---- MODULE MCEngine ----
EXTENDS RulesEngine
Card(kind, driver, usable) == [kind |-> kind, driver |-> driver, usable |-> usable]
OneCard == {Card("cuda", Unsaid, 12), Card("cuda", 400, 12), Card("cuda", 550, Unsaid), Card("cuda", 580, 30), Card("rocm", Unsaid, 12), Card("apple", Unsaid, 18), Card("cpu", Unsaid, 40)}
MCCards == {<<>>} \cup {<<c>> : c \in OneCard} \cup {<<Card("cpu", Unsaid, 40), Card("rocm", Unsaid, 9), Card("cuda", 580, 12)>>}
BuildNames(f) == ToSet(wanted(f))
EveryBuild == UNION {BuildNames(f) : f \in UNION {ToSet(flavors_for(p[1], p[2])) : p \in Platforms}}
Sized(names) == [n \in names |-> 1]
MCReleases == {Sized(EveryBuild)} \cup {Sized(EveryBuild \ {n}) : n \in EveryBuild} \cup {<<>>}
MCTagTexts == {<<>>, <<"b">>, <<"b", "0">>, <<"b", "7", "0">>, <<"b", "x">>, <<"v", "7">>}
EnginePaths == {<<1>>, <<2>>, <<1, 1>>, <<1, 2>>, <<3>>, <<3, 2>>, <<1, 1, 2>>}
MCFileTrees == {f \in UNION {[s -> {"file", "dir"}] : s \in SUBSET EnginePaths} :
                  \A p \in DOMAIN f : Len(p) > 1 => Front(p) \in DOMAIN f /\ f[Front(p)] = "dir"}
Device(id, memory) == [kind |-> "device", id |-> id, memory |-> memory]
Header == [kind |-> "header"]
Shown == {Device("CUDA", <<20, 10>>), Device("MTL", <<>>), Device("BLAS", <<0, 0>>), Device("CPU", <<40, 40>>), Device("Novel", <<9, Unsaid>>), [kind |-> "words"]}
MCDeviceTexts == {<<Header>> \o s : s \in BoundedSeq(Shown, 2)} \cup {<<>>, <<Device("CUDA", <<20, 20>>)>>, <<Device("CUDA", <<20, 20>>), Header, Device("Vulkan", <<20, 20>>)>>}
MCDeviceLists == {<<>>, <<Header>>, <<Header, Device("BLAS", <<0, 0>>), Device("CUDA", <<20, 10>>)>>, <<Header, Device("MTL", <<>>)>>, <<Header, Device("CUDA", <<30, 30>>)>>}
Out(ended, lines) == [ended |-> ended, lines |-> lines]
MCRuns == [key : {"old", "new"}, version : {"clean", "timeout", "failed"},
           listing : {Out("clean", <<Header, Device("CUDA", <<20, 10>>)>>), Out("clean", <<Header>>), Out("usage", <<>>), Out("timeout", <<>>)}]
MCEngineModels == [size : {20}, kv : {0, 1}, layers : {0, 4, 7}]
MCLoadWindows == {1, 5}
MCOffloadSettings == {[kind |-> "none"], [kind |-> "all"], [kind |-> "auto"], [kind |-> "fixed", layers |-> 0], [kind |-> "fixed", layers |-> 3]}
Version(n, fields) == [version |-> TRUE, number |-> n, fields |-> fields]
Field_(l, v) == [label |-> l, value |-> v]
MCBanners == BoundedSeq({Version(Unsaid, <<Field_("build", 1), Field_("commit", 11)>>), Version(Unsaid, <<Field_("build", Unsaid), Field_("commit", Unsaid)>>), Version(4589, <<Field_("", 12)>>),
                         Version(7, <<>>), Version(Unsaid, <<>>), Version(3, <<Field_("commit", 13)>>), [version |-> FALSE, number |-> 9, fields |-> <<Field_("commit", 14)>>]}, 2)
Said(n) == [kind |-> "offloaded", n |-> n]
Buffer(name, bytes) == [kind |-> "buffer", name |-> name, bytes |-> bytes]
MCLoadLogs == {<<>>, <<Said(5), Buffer("CPU_Mapped", 4)>>, <<Said(5), Buffer("CPU_Mapped", 1), Buffer("CUDA0", 3)>>,
               <<[kind |-> "using", device |-> "CUDA0 (card)"], Said(5), Buffer("CUDA0", 0), Said(3), Buffer("CUDA_Host", 1), Buffer("CUDA0", 3)>>,
               <<Said(5), Buffer("CUDA0", 3), Said(0), Buffer("CUDA0", 0), Buffer("CPU", 4)>>}
MCEarlierLogs == {<<>>, <<[kind |-> "using", device |-> "old"], Said(4), Buffer("CUDA0", 2)>>}
====
