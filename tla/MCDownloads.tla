---------------------------- MODULE MCDownloads ----------------------------
(* Small instances of Downloads for TLC. *)
EXTENDS Downloads, TLC

CONSTANTS d1, d2, h1, w1, id1, id2, v1, v2

Nobody    == {}
OneSlot   == {d1}
TwoSlots  == {d1, d2}
OneHasher == {h1}
OneWaiter == {w1}
OneId     == {id1}
TwoIds    == {id1, id2}

AModel    == [i \in OneId |-> "model"]
AnArtifact == [i \in OneId |-> "artifact"]
AFetch    == [i \in OneId |-> "fetch"]
ArtifactAndFetch == id1 :> "artifact" @@ id2 :> "fetch"

OneContent  == {v1}
TwoContents == {v1, v2}
Short       == v1 :> 2
Long        == v1 :> 3
SameLength  == v1 :> 2 @@ v2 :> 2
Growing     == v1 :> 2 @@ v2 :> 3

OneOffer  == {<<id1, v1>>}
TwoRevisions == {<<id1, v1>>, <<id1, v2>>}
BothIds == {<<id1, v1>>, <<id1, v2>>, <<id2, v1>>}
=============================================================================
