------------------------------ MODULE RulesText ------------------------------
(* What the text algorithms promise, over every small input (a probe).     *)
EXTENDS TextRules, Probe

CONSTANTS Contents, Olds, News, Patches, Chunked


ProbeEdit == \E c \in Contents, o \in Olds, n \in News, all \in BOOLEAN :
  probe' = [rule |-> "edit", content |-> c, old |-> o, new |-> n, all |-> all]

ProbeRead == \E t \in Patches, s \in 1 .. 4, e \in 1 .. 4, max \in 1 .. 4 :
  probe' = [rule |-> "read", text |-> t, start |-> s, end |-> e, max |-> max]

ProbeCapture == \E chunks \in Chunked : probe' = [rule |-> "capture", chunks |-> chunks]

ProbeExcerpt == \E n \in 0 .. 3 * LineChars : \E m \in 0 .. n :
  probe' = [rule |-> "excerpt", n |-> n, m |-> m]

-----------------------------------------------------------------------------
\* A text with line-end blanks and the kind of line ending left out of account.
Bare(t) == loose_needle(t, TRUE)

\* A replaced piece of the file says what old_string says.
Says(piece, old) == piece # <<>> /\ (Bare(piece) = Bare(old) \/ Append(Bare(piece), LF) = Bare(old))

(* An edit that reports one replacement took out one piece of the file that
   differs from old_string in line endings and line-end blanks at most, put
   new_string there, and left every other byte alone: apply_edit and the
   three comparisons under it. *)
EditTouchesOnlyItsMatch ==
  probe.rule = "edit" =>
    LET c == probe.content IN
    \A out \in {apply_edit(c, probe.old, probe.new, probe.all)} :
      out.res = "ok" /\ out.replacements = 1 =>
         \E i \in 1 .. Len(c) : \E j \in i .. Len(c) :
           /\ Says(SubSeq(c, i, j), probe.old)
           /\ out.content = SubSeq(c, 1, i - 1) \o Replacement(c, probe.new) \o SubSeq(c, j + 1, Len(c))

(* A checkout with CRLF line endings is edited as the same file with LF ones
   is, as long as old_string does not begin with a line end. *)
CrlfEditedAlike ==
  probe.rule = "edit" /\ line_endings(probe.content) = "Lf" /\ ~IsPrefix(<<LF>>, Bare(probe.old)) =>
    \A lf   \in {apply_edit(probe.content, probe.old, probe.new, probe.all)},
       crlf \in {apply_edit(to_crlf(probe.content), probe.old, probe.new, probe.all)} :
      /\ crlf.res = lf.res
      /\ lf.res = "ok" => crlf.content = to_crlf(lf.content)

(* A request that matches in more than one place is refused unless every
   place is asked for, whichever comparison found the match; overlapping
   places count. *)
OneOfManyIsRefused ==
  probe.rule = "edit" /\ ~probe.all =>
    LET c == probe.content IN
    /\ apply_edit(c, probe.old, probe.new, FALSE).res = "ok"
    /\ Occurs(c, probe.old) \cup Occurs(c, Converted(c, probe.old)) = {}
    => Cardinality(Occurs(LooseText(c).text, loose_needle(probe.old, FALSE))) <= 1

(* A range that was cut short ends at the last line that fits, so asking again
   from the line after it reads the file on without a gap: read and its
   max_bytes. *)
PagesLeaveNoGap ==
  probe.rule = "read" =>
    LET t     == probe.text
        lines == Lines(t)
        got   == read(t, probe.start, probe.end, probe.max)
        size(k) == Len(FlattenSeq(SubSeq(lines, probe.start, k)))
        wanted  == probe.start .. Lesser(probe.end, Len(lines))
        fits    == {k \in wanted : size(k) <= probe.max}
    IN got.ok /\ lines # <<>> =>
         /\ got.truncated <=> fits # wanted
         /\ fits # {} => /\ \A k \in fits : k <= got.end_line
                         /\ got.end_line \in fits
                         /\ got.content = FlattenSeq(SubSeq(lines, probe.start, got.end_line))
         /\ fits = {} => IsPrefix(got.content, lines[probe.start]) /\ got.end_line = probe.start

(* Whatever way a command's output arrives in pieces, what is kept is its true
   beginning and its true end, every byte between them is counted as omitted,
   and no character is cut in two: Capture::push and finish. *)
EndsAreKept ==
  probe.rule = "capture" =>
    LET whole == FlattenSeq(probe.chunks)
        shown == finish(FoldLeft(push, Capture0, probe.chunks))
        line  == IF shown.snapped THEN 1 ELSE 0
    IN /\ ~shown.truncated => shown.left = whole
       /\ shown.truncated =>
            /\ IsPrefix(shown.left, whole) /\ IsSuffix(shown.right, whole)
            /\ Len(shown.left) + line + shown.omitted + Len(shown.right) = Len(whole)
            /\ shown.omitted > 0
            /\ shown.left # <<>> => Last(shown.left) # Lead
            /\ shown.right # <<>> => Head(shown.right) # Cont

(* The window of a long line holds the match and stays within its width, the
   two ellipses included: excerpt. *)
ExcerptShowsTheMatch ==
  probe.rule = "excerpt" =>
    LET w == excerpt(probe.n, probe.m)
    IN /\ 0 <= w.first /\ w.after <= probe.n
       /\ (w.after - w.first) + (IF w.first > 0 THEN 1 ELSE 0) + (IF w.after < probe.n THEN 1 ELSE 0) <= LineChars
       /\ probe.m < probe.n => w.first <= probe.m /\ probe.m < w.after

(* apply_edit replaces what it says it replaces, whatever the line endings. *)
EditIsExact == EditTouchesOnlyItsMatch /\ CrlfEditedAlike

(* Whatever is cut short (a range of lines, a command's output, a long line of a
   search hit) shows what it should and says that it is cut. *)
CutsAreHonest == PagesLeaveNoGap /\ EndsAreKept /\ ExcerptShowsTheMatch
=============================================================================
