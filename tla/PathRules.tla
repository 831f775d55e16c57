------------------------------ MODULE PathRules ------------------------------
(***************************************************************************)
(* The path algorithms of the workspace: where a name the agent gives      *)
(* really is (Workspace::resolve), the tree listing, the fuzzy finder, the *)
(* search scan, and git's listings read back.  A path is the sequence of   *)
(* its components, absolute from the file system's root; a disk maps every *)
(* existing path to <<"dir">>, <<"file">> or <<"link", where it leads>>.   *)
(***************************************************************************)
EXTENDS Integers, Sequences, FiniteSets, SequencesExt

CONSTANTS
  Root,         \* the canonical root of the workspace
  GitNames,     \* the spellings of .git that touches_git knows
  MatchScore, Consecutive, GapStart, GapExtend, BoundaryBonus, DelimiterBonus, NameBonus, ExactBonus  \* the finder's weights

Under(p, top) == IsPrefix(top, p)
Below(p, top) == SubSeq(p, Len(top) + 1, Len(p))
Refused       == [ok |-> FALSE, rel |-> <<>>, real |-> <<>>, exists |-> FALSE]

(***************************************************************************)
(* Names and places.                                                       *)
(***************************************************************************)

\* ".." against the name alone; "up" marks a name that climbed out.
normalize_relative(parts) ==
  FoldLeft(LAMBDA out, c : CASE out = <<"up">> -> out
                             [] out # <<"up">> /\ c = "." -> out
                             [] out # <<"up">> /\ c = ".." -> IF out = <<>> THEN <<"up">> ELSE Front(out)
                             [] OTHER -> Append(out, c),
           <<>>, parts)

normalize_absolute(parts) ==
  FoldLeft(LAMBDA out, c : CASE c = "." -> out
                             [] c = ".." -> IF out = <<>> THEN out ELSE Front(out)
                             [] OTHER -> Append(out, c),
           <<>>, parts)

IsLink(disk, p) == p \in DOMAIN disk /\ disk[p][1] = "link"

\* Canonical as far as it exists, the missing components after that; a dangling link is missing.
real_path(disk, lexical) ==
  LET step(acc, c) ==
        LET q == Append(acc.at, c)
        IN CASE ~acc.exists -> [acc EXCEPT !.at = q]
             [] acc.exists /\ IsLink(disk, q) /\ disk[q][2] \in DOMAIN disk -> [acc EXCEPT !.at = disk[q][2]]
             [] acc.exists /\ ~IsLink(disk, q) /\ q \in DOMAIN disk -> [acc EXCEPT !.at = q]
             [] OTHER -> [at |-> q, exists |-> FALSE]
  IN FoldLeft(step, [at |-> <<>>, exists |-> TRUE], lexical)

\* raw = [absolute, parts]: the path as the agent wrote it.
Inside(lexical, place) ==
  IF ~Under(place.at, Root) THEN Refused
  ELSE [ok |-> TRUE, real |-> place.at, exists |-> place.exists,
        rel |-> Below(IF Under(lexical, Root) THEN lexical ELSE place.at, Root)]

resolve(disk, raw) ==
  LET lexical == IF raw.absolute THEN normalize_absolute(raw.parts) ELSE Root \o normalize_relative(raw.parts)
  IN IF ~raw.absolute /\ normalize_relative(raw.parts) = <<"up">> THEN Refused
     ELSE Inside(lexical, real_path(disk, lexical))

touches_git(rel) == \E i \in DOMAIN rel : rel[i] \in GitNames

\* Mutant: what a name leads to is not looked at, only the name.
ByTheName(disk, raw) ==
  LET r == resolve(disk, raw)
  IN IF ~r.ok \/ r.rel = <<>> \/ touches_git(r.rel) THEN Refused ELSE r

OutsideGit(r) == IF ~r.ok \/ r.rel = <<>> \/ touches_git(r.rel) \/ touches_git(Below(r.real, Root)) THEN Refused ELSE r
resolve_for_change(disk, raw) == OutsideGit(resolve(disk, raw))

\* The file each operation changes, or Refused.
FileAt(disk, r) ==
  IF /\ r.ok /\ (r.exists => disk[r.real] = <<"file">>)
     /\ \A n \in 1 .. Len(r.real) - 1 : SubSeq(r.real, 1, n) \in DOMAIN disk => disk[SubSeq(r.real, 1, n)] = <<"dir">>
  THEN r ELSE Refused
EntryIn(disk, r, parent) ==
  LET entry == Append(parent.real, Last(r.rel))
  IN IF parent.exists /\ entry \in DOMAIN disk /\ disk[entry] # <<"dir">> THEN [r EXCEPT !.real = entry] ELSE Refused
RemovedAt(disk, r) == IF r.ok THEN EntryIn(disk, r, resolve(disk, [absolute |-> FALSE, parts |-> Front(r.rel)])) ELSE Refused
Present(r) == IF r.exists THEN r ELSE Refused

Written(disk, raw) == FileAt(disk, resolve_for_change(disk, raw))
Edited(disk, raw)  == Present(Written(disk, raw))
Removed(disk, raw) == RemovedAt(disk, resolve_for_change(disk, raw))

\* The nearest .git at or above a directory.
find_git(disk, dir) ==
  LET tops == {n \in 0 .. Len(dir) : Append(SubSeq(dir, 1, n), ".git") \in DOMAIN disk}
  IN IF tops = {} THEN Refused
     ELSE [Refused EXCEPT !.ok = TRUE, !.real = SubSeq(dir, 1, CHOOSE n \in tops : \A k \in tops : k <= n)]

(***************************************************************************)
(* Listing, finding, searching.                                            *)
(***************************************************************************)

\* Component by component, directories before files; an entry is [path, is_dir], names are numbers.
explorer_key(e) == [i \in DOMAIN e.path |-> <<IF i = Len(e.path) /\ ~e.is_dir THEN 1 ELSE 0, e.path[i]>>]
KeyBelow(x, y) ==
  LET differ == {i \in DOMAIN x \cap DOMAIN y : x[i] # y[i]}
      i      == CHOOSE n \in differ : \A k \in differ : n <= k
  IN IF differ = {} THEN Len(x) < Len(y)
     ELSE x[i][1] < y[i][1] \/ (x[i][1] = y[i][1] /\ x[i][2] < y[i][2])
Earlier(e, f) == KeyBelow(explorer_key(e), explorer_key(f))

tree(found, limit) ==
  LET shallow == SetToSortSeq(found, LAMBDA e, f : Len(e.path) < Len(f.path)
                                                   \/ (Len(e.path) = Len(f.path) /\ Earlier(e, f)))
      kept    == IF Cardinality(found) > limit THEN ToSet(SubSeq(shallow, 1, limit)) ELSE found
  IN [entries |-> SetToSortSeq(kept, Earlier), truncated |-> kept # found]

NoScore == -1000
Best(S) == CHOOSE x \in S : \A y \in S : y <= x

\* The best embedding of query in text; bonus[j] is what position j adds to a match there.
subsequence_score(query, text, bonus) ==
  LET m == Len(query)
      n == Len(text)
      gap(row) == LET g[j \in 0 .. n] == IF j < 3 THEN NoScore ELSE Best({g[j - 1] - GapExtend, row[j - 2] - GapStart})
                  IN g
      best(row, j) == Best({gap(row)[j], IF row[j - 1] > NoScore \div 2 THEN row[j - 1] + Consecutive ELSE NoScore})
      row[i \in 1 .. m] ==
        IF i = 1 THEN [j \in 1 .. n |-> IF text[j] = query[1] THEN MatchScore + 2 * bonus[j] ELSE NoScore]
        ELSE [j \in 1 .. n |-> IF j > 1 /\ text[j] = query[i] /\ best(row[i - 1], j) > NoScore \div 2
                               THEN best(row[i - 1], j) + MatchScore + bonus[j] ELSE NoScore]
      found == {row[m][j] : j \in 1 .. n}
      Reached(score) == IF score <= NoScore \div 2 THEN NoScore ELSE score
  IN IF m = 0 \/ m > n THEN NoScore ELSE Reached(Best(found))

\* What a match at position j is worth by where it stands in the path.
position_bonus(text, j) ==
  CASE j = 1 \/ (j > 1 /\ text[j - 1] = "/") -> BoundaryBonus
    [] j > 1 /\ text[j - 1] \in {".", "_"} -> DelimiterBonus
    [] OTHER -> 0
plain_score(query, text) == subsequence_score(query, text, [j \in DOMAIN text |-> position_bonus(text, j)])

NamedScore(query, path, name, whole) ==
  LET dot   == SelectLastInSeq(name, LAMBDA c : c = ".")
      stem  == IF dot = 0 THEN name ELSE SubSeq(name, 1, dot - 1)
      best  == Best({whole} \cup {s + NameBonus : s \in {plain_score(query, name)} \ {NoScore}})
      exact == IF name = query THEN ExactBonus ELSE IF stem = query THEN (ExactBonus * 2) \div 3 ELSE 0
  IN IF whole = NoScore THEN NoScore ELSE best + exact - Len(path) \div 4

score_path(query, path) ==
  NamedScore(query, path, SubSeq(path, SelectLastInSeq(path, LAMBDA c : c = "/") + 1, Len(path)), plain_score(query, path))

\* The finder: best first, shorter first among equals.
files(query, paths, limit) ==
  LET score      == [p \in paths |-> score_path(query, p)]
      Ahead(p, q) == score[p] > score[q] \/ (score[p] = score[q] /\ Len(p) < Len(q))
      First(ps)  == SubSeq(ps, 1, IF Len(ps) < limit THEN Len(ps) ELSE limit)
  IN First(SetToSortSeq({p \in paths : score[p] # NoScore}, Ahead))

\* A search's filter: rules are [exclude, hits], hits the names the pattern matches.
allows(rules, name) ==
  LET hit(exclude) == \E r \in ToSet(rules) : r.exclude = exclude /\ name \in r.hits
  IN ~hit(TRUE) /\ ((\E r \in ToSet(rules) : ~r.exclude) => hit(FALSE))

\* Globs are separated by commas and blanks outside braces.
split_globs(spec) ==
  LET step(acc, c) ==
        CASE c = "{" -> [acc EXCEPT !.depth = @ + 1, !.word = Append(@, c)]
          [] c = "}" -> [acc EXCEPT !.depth = IF @ = 0 THEN 0 ELSE @ - 1, !.word = Append(@, c)]
          [] c \in {",", " "} /\ acc.depth = 0 -> [acc EXCEPT !.out = Append(@, acc.word), !.word = <<>>]
          [] OTHER -> [acc EXCEPT !.word = Append(@, c)]
      done == FoldLeft(step, [out |-> <<>>, word |-> <<>>, depth |-> 0], spec)
  IN SelectSeq(Append(done.out, done.word), LAMBDA w : w # <<>>)

\* What a listing shows: version control never, the heavy folders only under ignore files.
Visible(item, vcs, heavy, governed) ==
  /\ \A i \in DOMAIN item.path : item.path[i] \notin vcs
  /\ governed \/ \A i \in DOMAIN item.path :
       item.path[i] \in heavy => i = Len(item.path) /\ ~item.is_dir

\* One file, hits matching lines in it; big, binary and filtered ones are passed over.
ScanFile(scan, f, max) ==
  LET room == max - Len(scan.matches)
      took == IF f.hits <= room THEN f.hits ELSE room
  IN IF scan.stopped \/ f.skipped THEN scan
     ELSE [matches   |-> scan.matches \o [k \in 1 .. took |-> <<f.name, k>>],
           truncated |-> f.hits > room, stopped |-> f.hits > room,
           files_scanned |-> scan.files_scanned + 1]
search(found, rules, max) ==
  FoldLeft(LAMBDA scan, f : ScanFile(scan, [f EXCEPT !.skipped = @ \/ ~allows(rules, f.name)], max),
           [matches |-> <<>>, truncated |-> FALSE, stopped |-> FALSE, files_scanned |-> 0], found)

(***************************************************************************)
(* What git printed.                                                       *)
(***************************************************************************)

relative_to_root(path, base) ==
  LET common == Len(LongestCommonPrefix({path, base}))
  IN [i \in 1 .. Len(base) - common |-> ".."] \o SubSeq(path, common + 1, Len(path))

\* Fields between NULs; a record field is <<kind, path>>, the old path of a "2" follows on its own.
parse_porcelain(fields) ==
  LET entry(f, orig) == [path |-> f[2], orig_path |-> orig,
                         status |-> CASE f[1] = "u" -> "Conflicted" [] f[1] = "?" -> "Untracked"
                                      [] f[1] = "2" -> "Renamed"    [] OTHER -> "Modified"]
      step(acc, i) ==
        LET f == fields[i]
        IN CASE i \in acc.skip -> acc
             [] i \notin acc.skip /\ f[1] = "2" ->
                  [out |-> Append(acc.out, entry(f, IF i < Len(fields) THEN fields[i + 1][2] ELSE "none")),
                   skip |-> acc.skip \cup {i + 1}]
             [] i \notin acc.skip /\ f[1] \in {"1", "u", "?"} -> [acc EXCEPT !.out = Append(@, entry(f, "none"))]
             [] OTHER -> acc
  IN FoldLeftDomain(step, [out |-> <<>>, skip |-> {}], fields).out

\* counts maps a path to <<added, removed>>; renames are the pairs the diff found itself.
counts_for(counts, renames, path, from) ==
  LET own == IF path \in DOMAIN counts THEN counts[path] ELSE <<0, 0>>
  IN IF path \in DOMAIN counts /\ from \in DOMAIN counts /\ <<from, path>> \notin renames
     THEN <<own[1] + counts[from][1], own[2] + counts[from][2]>> ELSE own

\* The patch: git's own part of tracked bytes, then one part per new file while there is room.
diff(tracked, sizes, maxBytes, maxFiles) ==
  LET step(acc, i) ==
        LET room == maxBytes - acc.size
        IN CASE acc.truncated -> acc
             [] ~acc.truncated /\ (room <= 0 \/ i > maxFiles) -> [acc EXCEPT !.truncated = TRUE]
             [] OTHER -> [size |-> acc.size + (IF sizes[i] > room THEN room ELSE sizes[i]),
                          truncated |-> sizes[i] > room, shown |-> acc.shown + 1]
  IN FoldLeftDomain(step, [size |-> IF tracked > maxBytes THEN maxBytes ELSE tracked,
                           truncated |-> tracked > maxBytes, shown |-> 0], sizes)
=============================================================================
