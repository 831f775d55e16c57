------------------------------ MODULE RulesPath ------------------------------
(* What the path algorithms promise, over every small input (a probe).     *)
EXTENDS PathRules, Probe

CONSTANTS Disks, Parts, Listings, Queries, Texts, Scans, Porcelains, GlobRules, GlobLists


ProbeResolve == \E d \in Disks, p \in Parts, a \in BOOLEAN :
  probe' = [rule |-> "resolve", disk |-> d, raw |-> [absolute |-> a, parts |-> p]]
ProbeTree == \E f \in Listings : \E l \in 1 .. Cardinality(f) + 1 :
  probe' = [rule |-> "tree", found |-> f, limit |-> l]
ProbeScore == \E q \in Queries, t, u \in Texts :
  probe' = [rule |-> "score", query |-> q, text |-> t, other |-> u]
ProbeSearch == \E s \in Scans, r \in GlobRules, max \in 1 .. 3 :
  probe' = [rule |-> "search", files |-> s, globs |-> r, max |-> max]
ProbeGlobs == \E g \in GlobLists : probe' = [rule |-> "globs", globs |-> g]
ProbeGit == \E p \in Porcelains : probe' = [rule |-> "git", entries |-> p]
ProbePrefix == \E p \in {p \in Parts : Len(p) < 3}, b \in Parts :
  probe' = [rule |-> "prefix", path |-> normalize_absolute(p), base |-> normalize_absolute(b)]
ProbeDiff == \E t \in 0 .. 4, s \in BoundedSeq(0 .. 3, 3), b \in 1 .. 5, f \in 1 .. 2 :
  probe' = [rule |-> "diff", tracked |-> t, sizes |-> s, bytes |-> b, files |-> f]

-----------------------------------------------------------------------------
(* Whatever name the agent writes and whatever links the folder holds, what
   write, edit and remove change is inside the root, is not the root, and is
   not inside .git: resolve_for_change, and the entry each operation takes. *)
ChangesStayInside ==
  probe.rule = "resolve" =>
    \A r \in {Written(probe.disk, probe.raw), Edited(probe.disk, probe.raw), Removed(probe.disk, probe.raw)} :
      r.ok => LET place == real_path(probe.disk, Front(r.real)).at
              IN /\ Under(r.real, Root) /\ r.real # Root
                 /\ Under(place, Root) /\ ~touches_git(Below(r.real, Root)) /\ ~touches_git(Below(place, Root))

(* The name an answer is given under leads back to the same place: an agent
   that reuses the path it was shown means the same file. *)
NamesAreStable ==
  probe.rule = "resolve" =>
    LET r == resolve(probe.disk, probe.raw)
        again == resolve(probe.disk, [absolute |-> FALSE, parts |-> r.rel])
    IN r.ok => again.ok /\ again.real = r.real /\ again.exists = r.exists /\ again.rel = r.rel

(* A listing cut at its limit still reads as a tree: every entry's folder is
   in it, right before what is inside it. *)
ListingIsATree ==
  probe.rule = "tree" =>
    LET shown == {e \in probe.found : Visible(e, {3}, {2}, FALSE)}
        got == tree(shown, probe.limit)
        at(i) == got.entries[i].path
    IN /\ got.truncated <=> Cardinality(shown) > probe.limit
       /\ \A i \in DOMAIN got.entries : Len(at(i)) > 1 =>
            \E k \in 1 .. i - 1 : at(k) = Front(at(i)) /\ \A m \in k + 1 .. i : IsPrefix(at(k), at(m))

(* The finder's dynamic programme finds the best of all embeddings: matches and
   position bonuses (the first twice), runs rewarded, gaps paid; and what the
   limit leaves out scores no better than what is shown. *)
ScoreIsTheBest ==
  probe.rule = "score" =>
    LET q == probe.query
        t == probe.text
        maps == {f \in [DOMAIN q -> DOMAIN t] : /\ \A i \in DOMAIN q : t[f[i]] = q[i]
                                                /\ \A i \in 2 .. Len(q) : f[i] > f[i - 1]}
        worth(f) == FoldLeftDomain(LAMBDA acc, i :
                      acc + MatchScore + position_bonus(t, f[i]) +
                        (CASE i = 1 -> position_bonus(t, f[i])
                           [] i > 1 /\ f[i] = f[i - 1] + 1 -> Consecutive
                           [] OTHER -> -(GapStart + GapExtend * (f[i] - f[i - 1] - 2))), 0, q)
    IN /\ plain_score(q, t) = IF maps = {} THEN NoScore ELSE Best({worth(f) : f \in maps})
       /\ \A shown \in {files(q, {t, probe.other}, 1)}, scores \in {{score_path(q, t), score_path(q, probe.other)}} :
            /\ shown = <<>> <=> scores = {NoScore}
            /\ shown # <<>> => score_path(q, shown[1]) = Best(scores)

(* A search returns the first matches in path order, and says truncated exactly
   when there was one more. *)
TruncatedMeansMore ==
  probe.rule = "search" =>
    LET got == search(probe.files, probe.globs, probe.max)
        all == FlattenSeq([i \in DOMAIN probe.files |->
                 IF probe.files[i].skipped \/ ~allows(probe.globs, probe.files[i].name) THEN <<>> ELSE [k \in 1 .. probe.files[i].hits |-> <<probe.files[i].name, k>>]])
    IN /\ IsPrefix(got.matches, all)
       /\ got.truncated <=> Len(all) > probe.max
       /\ ~got.truncated => got.matches = all

(* What git prints about a set of changes is read back as those changes; the
   old name of a rename is never taken for a record of its own, a list of globs
   is split where its author meant it, and a path made relative leads back. *)
ListingIsReadBack ==
  /\ probe.rule = "git" =>
       LET print(e) == IF e.status = "Renamed" THEN <<<<"2", e.path>>, <<"1", e.orig_path>>>>
                       ELSE <<<<CASE e.status = "Conflicted" -> "u" [] e.status = "Untracked" -> "?" [] OTHER -> "1", e.path>>>>
       IN parse_porcelain(FlattenSeq([i \in DOMAIN probe.entries |-> print(probe.entries[i])])) = probe.entries
  /\ probe.rule = "globs" =>
       split_globs(FlattenSeq([i \in DOMAIN probe.globs |-> Append(probe.globs[i], ",")])) = probe.globs
  /\ probe.rule = "prefix" =>
       normalize_absolute(probe.base \o relative_to_root(probe.path, probe.base)) = probe.path

(* A diff says truncated exactly when something of the change is not in it, and
   never exceeds its limits. *)
ShortDiffSaysSo ==
  probe.rule = "diff" =>
    LET got  == diff(probe.tracked, probe.sizes, probe.bytes, probe.files)
        full == FoldLeft(+, probe.tracked, probe.sizes)
    IN /\ got.size <= probe.bytes /\ got.shown <= probe.files
       /\ ~got.truncated => got.size = full
       /\ got.truncated => got.size < full \/ got.shown < Len(probe.sizes)

(* Names lead where they say: ChangesStayInside for what is changed, and
   NamesAreStable for what is shown. *)
NamesLeadHome == ChangesStayInside /\ NamesAreStable

(* Listings, finds, searches and git's answers are what is on the disk, in
   order, and say when there is more. *)
ListingsAreTrue ==
  ListingIsATree /\ ScoreIsTheBest /\ TruncatedMeansMore /\ ListingIsReadBack /\ ShortDiffSaysSo
=============================================================================
