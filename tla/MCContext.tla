------------------------------- MODULE MCContext -------------------------------
EXTENDS RulesContext
Msg(role, id, chars, tool) == [role |-> role, id |-> id, chars |-> chars, key |-> IF chars > 60 THEN 60 ELSE chars, gist |-> IF chars > 60 THEN 50 ELSE chars, tool |-> tool]
MCHistories == {<<>>} \cup {<<Msg("user", 1, q, FALSE), Msg("assistant", 2, a, FALSE)>> : <<q, a>> \in {<<20, 600>>, <<200, 0>>, <<200, 600>>}}
MCLater == {<<>>} \cup {<<Msg("user", 3, q, t), Msg("assistant", 4, a, FALSE)>> :
                        <<q, a>> \in {<<20, 40>>, <<150, 300>>, <<20, 300>>}, t \in BOOLEAN}
MCQuestions == {<<Msg("user", 5, 30, FALSE)>>, <<Msg("user", 5, 300, FALSE)>>, <<Msg("user", 5, 60, TRUE)>>,
                <<Msg("user", 5, 30, FALSE), Msg("assistant", 6, 120, FALSE)>>}
MCSystems == {<<>>, <<Msg("system", 9, 40, FALSE)>>}
MCTalks == {s \o h \o l \o q : s \in MCSystems, h \in MCHistories, l \in MCLater, q \in MCQuestions}
MCPins == {<<>>, <<150, 10>>}
MCWindows == {0, 200, 300, 700}
MCAsks == {64, 2048}
MCScales == {1000, 1337}
MCSummaries == {<<>>, <<60>>, <<30, 200>>}
MCCharTexts == BoundedSeq({"a", "space", "lf", "digit", "han"}, 3) \cup {<<"astral">>, <<"kana", "punct">>}
MCFitTables == UNION {[0 .. n -> BOOLEAN] : n \in 0 .. 6}
M(i, c) == [role |-> "user", id |-> i, chars |-> c]
MCPrefixes == BoundedSeq({M(1, 3), M(2, 9), M(3, 30)}, 3)
MCStreamed == BoundedSeq({"a", "b", "space", "<tool>", "</tool>"}, 5) \cup {s \o <<"a", "b", "a", "b", "a">> : s \in BoundedSeq({"a", "b", "space"}, 4)}
=============================================================================
