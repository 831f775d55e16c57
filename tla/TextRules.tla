------------------------------ MODULE TextRules ------------------------------
(***************************************************************************)
(* The text algorithms of the workspace: replacing a string in a file      *)
(* (apply_edit), reading a range of lines (read), keeping the two ends of  *)
(* a command's output (Capture), the excerpt of a search hit, and the      *)
(* pieces git's output is cut into.  A text is a sequence of symbols:      *)
(* letters, blanks, the two line-ending bytes, and the two bytes of a      *)
(* two-byte character.                                                     *)
(***************************************************************************)
EXTENDS Integers, Sequences, FiniteSets, SequencesExt

CONSTANTS
  HeadCap, TailCap,   \* Capture::HEAD and Capture::TAIL
  Snap,               \* how far a cut moves to meet a line boundary
  LineChars           \* SEARCH_LINE_CHARS

ASSUME CapsAssumption  == HeadCap \in Nat /\ TailCap \in Nat /\ Snap \in Nat
ASSUME CharsAssumption == LineChars \in Nat /\ LineChars > 3

LF    == "lf"
CR    == "cr"
Blank == {"sp", "tab", CR}
White == Blank \cup {LF}
Cont  == "cont"     \* the second byte of a two-byte character
Lead  == "lead"     \* its first byte

Keep(t, Test(_)) ==
  LET kept == SelectSeq([i \in DOMAIN t |-> i], Test)
  IN [k \in DOMAIN kept |-> t[kept[k]]]

(***************************************************************************)
(* Editing.                                                                *)
(***************************************************************************)

\* Where needle occurs in text, overlapping occurrences included.
Occurs(text, needle) ==
  {i \in 1 .. Len(text) - Len(needle) + 1 : SubSeq(text, i, i + Len(needle) - 1) = needle}

\* The occurrences a left-to-right scan takes when each match is skipped whole.
LeftToRight(places, width) ==
  FoldLeft(LAMBDA taken, i : IF \A k \in taken : i >= k + width THEN taken \cup {i} ELSE taken,
           {}, SetToSortSeq(places, <))

\* text with every span <<first, after>> replaced.
Splice(text, spans, r) ==
  LET put(acc, s) == <<acc[1] \o SubSeq(text, acc[2], s[1] - 1) \o r, s[2]>>
      done == FoldLeft(put, <<<<>>, 1>>, SetToSortSeq(spans, LAMBDA s, u : s[1] < u[1]))
  IN done[1] \o SubSeq(text, done[2], Len(text))

line_endings(text) ==
  LET newlines == Cardinality(Occurs(text, <<LF>>))
      crlf     == Cardinality(Occurs(text, <<CR, LF>>))
  IN CASE newlines = 0    -> "None"
       [] newlines = crlf -> "Crlf"
       [] crlf = 0        -> "Lf"
       [] OTHER           -> "Mixed"

to_lf(text) == Keep(text, LAMBDA i : ~(text[i] = CR /\ i < Len(text) /\ text[i + 1] = LF))

to_crlf(text) ==
  LET lf == to_lf(text)
  IN FlattenSeq([i \in DOMAIN lf |-> IF lf[i] = LF THEN <<CR, LF>> ELSE <<lf[i]>>])

Failed(why)        == [res |-> why, content |-> <<>>, replacements |-> 0]
Outcome(text, n)   == [res |-> "ok", content |-> text, replacements |-> n]
NoMatch            == Failed("none")

\* One occurrence, overlapping ones counted, unless every one is asked for.
replace_exact(content, needle, r, all) ==
  LET places == Occurs(content, needle)
      n      == Cardinality(places)
      taken  == LeftToRight(places, Len(needle))
      spans(S) == {<<i, i + Len(needle)>> : i \in S}
  IN CASE n = 0 -> NoMatch
       [] n = 1 -> Outcome(Splice(content, spans(places), r), 1)
       [] n > 1 /\ all  -> Outcome(Splice(content, spans(taken), r), Cardinality(taken))
       [] OTHER -> Failed("not_unique")

\* Index i of t is blank, and so is the rest of its line.
Trailing(t, i, endsToo) ==
  /\ t[i] \in Blank
  /\ \/ \E j \in i .. Len(t) : t[j] = LF /\ \A k \in i .. j - 1 : t[k] \in Blank
     \/ endsToo /\ \A k \in i .. Len(t) : t[k] \in Blank

\* A file without line-end whitespace, with a final newline, and where each byte came from.
LooseText(content) ==
  LET kept   == SelectSeq([i \in DOMAIN content |-> i], LAMBDA i : ~Trailing(content, i, TRUE))
      ended  == content # <<>> /\ Last(content) = LF
      origin == IF ended THEN kept ELSE Append(kept, Len(content) + 1)
  IN [origin |-> origin,
      text   |-> [k \in DOMAIN origin |-> IF origin[k] > Len(content) THEN LF ELSE content[origin[k]]]]

\* Matches in the loose text, as spans of the original.
FindIn(loose, content, needle, at_line_end) ==
  LET good  == {i \in Occurs(loose.text, needle) :
                  at_line_end => /\ i + Len(needle) <= Len(loose.text)
                                 /\ loose.text[i + Len(needle)] = LF}
      past(i) == LET last == loose.origin[i + Len(needle) - 1]
                 IN IF last > Len(content) THEN Len(content) + 1 ELSE last + 1
  IN {<<loose.origin[i], past(i)>> : i \in LeftToRight(good, Len(needle))}

find_all(content, needle, at_line_end) == FindIn(LooseText(content), content, needle, at_line_end)

loose_needle(old, trim_last) ==
  LET lf == to_lf(old) IN Keep(lf, LAMBDA i : ~Trailing(lf, i, trim_last))

AllWhite(t) == \A i \in DOMAIN t : t[i] \in White

\* The spans the loose comparison replaces.
SpansOf(content, keep_last, trim_last) ==
  LET first == IF AllWhite(keep_last) THEN {} ELSE find_all(content, keep_last, FALSE)
  IN IF first # {} THEN first
     ELSE IF trim_last # keep_last /\ ~AllWhite(trim_last) THEN find_all(content, trim_last, TRUE)
     ELSE {}

LooseSpans(content, old) == SpansOf(content, loose_needle(old, FALSE), loose_needle(old, TRUE))

ReplaceSpans(content, spans, r, all) ==
  LET n == Cardinality(spans)
  IN CASE n = 0 -> NoMatch
       [] n = 1 \/ (n > 1 /\ all) -> Outcome(Splice(content, spans, r), n)
       [] OTHER -> Failed("not_unique")

replace_loose(content, old, r, all) == ReplaceSpans(content, LooseSpans(content, old), r, all)

\* new_string in the file's line endings, when the file has only one kind.
Replacement(content, new) ==
  CASE line_endings(content) = "Crlf" /\ Contains(new, LF)    -> to_crlf(new)
    [] line_endings(content) = "Lf" /\ Occurs(new, <<CR, LF>>) # {} -> to_lf(new)
    [] OTHER -> new

\* old_string in the file's line endings.
Converted(content, old) ==
  CASE line_endings(content) \in {"Crlf", "Mixed"} /\ Contains(old, LF) -> to_crlf(old)
    [] line_endings(content) = "Lf" /\ Occurs(old, <<CR, LF>>) # {}     -> to_lf(old)
    [] OTHER -> old

\* The first comparison that finds anything decides.
FirstMatch(tries) == tries[SelectInSeq(tries, LAMBDA t : t # NoMatch)]

Comparisons(content, old, other, r, all) ==
  FirstMatch(<< replace_exact(content, old, r, all),
                IF other = old THEN NoMatch ELSE replace_exact(content, other, r, all),
                replace_loose(content, old, r, all),
                Failed("not_found") >>)

apply_edit(content, old, new, all) ==
  CASE old = <<>>                -> Failed("empty")
    [] old # <<>> /\ old = new   -> Failed("identical")
    [] OTHER -> Comparisons(content, old, Converted(content, old), Replacement(content, new), all)

(***************************************************************************)
(* Reading lines.                                                          *)
(***************************************************************************)

\* Where line k of text starts, and where the next one does.
LineStarts(text) == {1} \cup {i + 1 : i \in Occurs(text, <<LF>>)}
Lines(text) ==
  LET starts == SetToSortSeq(LineStarts(text) \ {Len(text) + 1}, <)
      after(k) == IF k = Len(starts) THEN Len(text) ELSE starts[k + 1] - 1
  IN [k \in DOMAIN starts |-> SubSeq(text, starts[k], after(k))]

\* The longest prefix of at most max bytes that does not end inside a character.
utf8_floor(bytes, max) ==
  LET end == IF max < Len(bytes) THEN max ELSE Len(bytes)
      stops == {e \in 0 .. end : e = 0 \/ e = Len(bytes) \/ bytes[e + 1] # Cont}
  IN CHOOSE e \in stops : \A f \in stops : f <= e

\* Mutant: a line that does not fit is left out, and those after it are tried.
CollectWhatFits(acc, line, k, start, end, max) ==
  IF k < start \/ k > end THEN acc
  ELSE IF Len(acc.content) + Len(line) <= max
       THEN [acc EXCEPT !.content = @ \o line, !.last = k]
       ELSE [acc EXCEPT !.full = TRUE]

\* One line offered to the range being collected.
Collect(acc, line, k, start, end, max) ==
  IF acc.full \/ k < start \/ k > end THEN acc
  ELSE IF Len(acc.content) + Len(line) <= max
       THEN [acc EXCEPT !.content = @ \o line, !.last = k]
       ELSE [content |-> IF acc.content = <<>> THEN SubSeq(line, 1, utf8_floor(line, max)) ELSE acc.content,
             last    |-> IF acc.content = <<>> THEN k ELSE acc.last,
             full    |-> TRUE]

read(text, start, end, max) ==
  LET lines == Lines(text)
      got   == FoldLeftDomain(LAMBDA acc, k : Collect(acc, lines[k], k, start, end, max),
                              [content |-> <<>>, last |-> 0, full |-> FALSE], lines)
  IN [ok      |-> end >= start /\ (lines = <<>> \/ start <= Len(lines)),
      content |-> got.content, truncated |-> got.full,
      start_line |-> IF got.last = 0 THEN 0 ELSE start, end_line |-> got.last,
      total_lines |-> Len(lines)]

\* A patch cut short ends after its last whole line.
cut_at_line(patch) ==
  SubSeq(patch, 1, SelectLastInSeq(patch, LAMBDA b : b = LF))

\* The lines git counts for a new file.
count_lines(text) ==
  Cardinality(Occurs(text, <<LF>>)) + IF text # <<>> /\ Last(text) # LF THEN 1 ELSE 0

(***************************************************************************)
(* The two ends of a stream, and the window of a search hit.               *)
(***************************************************************************)

Lesser(a, b) == IF a < b THEN a ELSE b
AtLeast0(n)  == IF n < 0 THEN 0 ELSE n
LastOf(s, n) == SubSeq(s, Len(s) - Lesser(n, Len(s)) + 1, Len(s))

Capture0 == [head |-> <<>>, tail |-> <<>>, total |-> 0]

push(c, bytes) ==
  LET room == Lesser(AtLeast0(HeadCap - Len(c.head)), Len(bytes))
      rest == SubSeq(bytes, room + 1, Len(bytes))
  IN [head  |-> c.head \o SubSeq(bytes, 1, room),
      tail  |-> LastOf(c.tail \o rest, TailCap),
      total |-> c.total + Len(bytes)]

\* What is shown: the two ends, and how many bytes between them are not.
finish(c) ==
  LET n     == Len(c.head)
      m     == Len(c.tail)
      whole == n + m = c.total
      chars == IF n > 0 /\ c.head[n] = Lead THEN n - 1 ELSE n
      skip  == IF m > 0 /\ c.tail[1] = Cont THEN 1 ELSE 0
      nl    == SelectLastInSubSeq(c.head, 1, chars, LAMBDA b : b = LF)
      near  == nl > 0 /\ chars - (nl - 1) <= Snap
      first == SelectInSubSeq(c.tail, skip + 1, m, LAMBDA b : b = LF)
      cut   == IF first > 0 /\ first - skip - 1 < Snap THEN first ELSE skip
      headEnd == IF near THEN nl - 1 ELSE chars
  IN IF whole THEN [left |-> c.head \o c.tail, right |-> <<>>, omitted |-> 0, snapped |-> FALSE, truncated |-> FALSE]
     ELSE [left |-> SubSeq(c.head, 1, headEnd), right |-> SubSeq(c.tail, cut + 1, m),
           omitted |-> c.total - headEnd - (IF near THEN 1 ELSE 0) - (m - cut),
           snapped |-> near, truncated |-> TRUE]

\* The characters [first, after) of a line of n shown for a match at character m (from 0).
excerpt(n, m) ==
  LET room  == LineChars - 2
      first == Lesser(AtLeast0(m - room \div 3), n - room)
  IN IF n <= LineChars THEN [first |-> 0, after |-> n]
     ELSE [first |-> first, after |-> Lesser(first + room, n)]
=============================================================================
