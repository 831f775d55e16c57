--------------------------- MODULE MCModelRuntime ---------------------------
(* Small instances of ModelRuntime for TLC. *)
EXTENDS ModelRuntime, TLC

CONSTANTS l1, l2, u1, s1, s2, c1, q1, x1, m1, m2, gguf, palw

Nobody     == {}
OneLoader  == {l1}
TwoLoaders == {l1, l2}
OneUnloader == {u1}
OneSaver   == {s1}
TwoSavers  == {s1, s2}
OneChat    == {c1}
OnePoller  == {q1}
OneHasher  == {x1}

OneModel  == {m1}
TwoModels == {m1, m2}
OneKind   == {gguf}
TwoKinds  == {gguf, palw}

\* Every file is for the one engine; or each for an engine of its own.
SameKind  == [m \in TwoModels |-> gguf]
OwnKind   == m1 :> gguf @@ m2 :> palw

=============================================================================
