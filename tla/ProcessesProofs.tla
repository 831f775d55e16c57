--------------------------- MODULE ProcessesProofs ---------------------------
(***************************************************************************)
(* Proofs about the processes the Studio runs (MCProcesses): what a command *)
(* shows is what its programs wrote and its budget allows, one miner of a   *)
(* kind runs, an answer is one stream of one engine, and the images have    *)
(* one sidecar.                                                             *)
(*                                                                          *)
(* Of each there is an invariant that every step of its own keeps; the      *)
(* steps of the others do not touch its variables.                          *)
(***************************************************************************)
EXTENDS MCProcesses, WellFoundedInduction, SequenceTheorems, FiniteSetTheorems, TLAPS

(* A set of numbers that is not empty has a least: what induction over data  *)
(* comes down to below.                                                     *)
LEMMA Least ==
  ASSUME NEW T \in SUBSET Nat, T # {}
  PROVE  \E x \in T : \A y \in T : x <= y
<1> DEFINE R == OpToRel(<, Nat)
<1>1. IsWellFoundedOn(R, Nat)
  BY NatLessThanWellFounded
<1>2. \A x, y \in Nat : x < y => <<x, y>> \in R
  BY DEF OpToRel
<1> HIDE DEF R
<1>3. \E x \in T : \A y \in T : ~(<<y, x>> \in R)
  BY <1>1, WFMin
<1>4. \A x, y \in T : x \in Nat /\ y \in Nat /\ (x <= y \/ y < x)
  OBVIOUS
<1> QED BY <1>2, <1>3, <1>4

\* The states the decoder goes through: f[n] is where it stands after n bytes of s.
Steps(p, s, f) == f = [n \in 0 .. Len(s) |-> IF n = 0 THEN [text |-> <<>>, partial |-> p] ELSE DecodeByte(f[n - 1], s[n])]

(* The recursion of Utf8Decoder has a solution for every sequence of bytes.  *)
LEMMA DecoderRuns ==
  ASSUME NEW p, NEW s, Len(s) \in Nat
  PROVE  \E f : Steps(p, s, f)
<1> DEFINE Base == [text |-> <<>>, partial |-> p]
           Up(f, k) == f = [n \in 0 .. k |-> IF n = 0 THEN Base ELSE DecodeByte(f[n - 1], s[n])]
           Bad == {k \in Nat : ~\E f : Up(f, k)}
<1>1. SUFFICES ASSUME Bad # {} PROVE FALSE
  <2>1. \E f : Up(f, Len(s)) BY <1>1
  <2> QED BY <2>1 DEF Steps
<1>2. PICK k \in Bad : \A j \in Bad : k <= j
  <2> Bad \in SUBSET Nat OBVIOUS
  <2> HIDE DEF Bad
  <2> QED BY <1>1, Least
<1>3. k # 0
  <2>1. Up([n \in 0 .. 0 |-> Base], 0) OBVIOUS
  <2> QED BY <2>1, <1>2
<1>4. k - 1 \in Nat /\ k - 1 \notin Bad
  <2>1. k \in Nat BY <1>2
  <2> HIDE DEF Bad
  <2> QED BY <1>2, <1>3, <2>1
<1>5. PICK f : Up(f, k - 1)
  BY <1>4
<1> DEFINE g == [n \in 0 .. k |-> IF n = k THEN DecodeByte(f[k - 1], s[k]) ELSE f[n]]
<1>6. \A n \in 0 .. k : g[n] = IF n = 0 THEN Base ELSE DecodeByte(g[n - 1], s[n])
  <2> TAKE n \in 0 .. k
  <2> k \in Nat BY <1>2
  <2>1. CASE n = k BY <2>1, <1>3
  <2>2. CASE n # k
    <3>1. n \in 0 .. k - 1 BY <2>2
    <3>2. f[n] = IF n = 0 THEN Base ELSE DecodeByte(f[n - 1], s[n]) BY <3>1, <1>5
    <3>3. n # 0 => g[n - 1] = f[n - 1] BY <3>1
    <3> QED BY <3>1, <3>2, <3>3
  <2> QED BY <2>1, <2>2
<1>7. Up(g, k) 
  BY <1>6
<1> QED BY <1>7, <1>2

(* And only one, so that any solution says where Utf8Decoder ends.           *)
LEMMA DecoderIsRun ==
  ASSUME NEW p, NEW s, Len(s) \in Nat, NEW f, Steps(p, s, f)
  PROVE  Utf8Decoder(p, s) = f[Len(s)]
<1> DEFINE g == CHOOSE h : Steps(p, s, h)
           Bad == {n \in 0 .. Len(s) : g[n] # f[n]}
<1>1. Steps(p, s, g)
  OBVIOUS
<1>2. Utf8Decoder(p, s) = g[Len(s)]
  BY DEF Utf8Decoder, Steps
<1> HIDE DEF g
<1>3. SUFFICES ASSUME Bad # {} PROVE FALSE
  <2>1. Len(s) \in 0 .. Len(s) /\ Len(s) \notin Bad BY <1>3
  <2> QED BY <1>2, <2>1
<1>4. PICK k \in Bad : \A j \in Bad : k <= j
  <2> Bad \in SUBSET Nat OBVIOUS
  <2> HIDE DEF Bad
  <2> QED BY <1>3, Least
<1>5. k \in 0 .. Len(s) /\ (k # 0 => k - 1 \in 0 .. Len(s) /\ k - 1 \notin Bad)
  BY <1>4
<1>6. k # 0 => g[k - 1] = f[k - 1]
  BY <1>5
<1>7. f[k] = IF k = 0 THEN [text |-> <<>>, partial |-> p] ELSE DecodeByte(f[k - 1], s[k])
  BY <1>5 DEF Steps
<1>8. g[k] = IF k = 0 THEN [text |-> <<>>, partial |-> p] ELSE DecodeByte(g[k - 1], s[k])
  BY <1>1, <1>5 DEF Steps
<1> QED BY <1>4, <1>6, <1>7, <1>8

(* Utf8Decoder on no bytes.                                                  *)
LEMMA DecodeNothing ==
  \A p : Utf8Decoder(p, <<>>) = [text |-> <<>>, partial |-> p]
<1> TAKE p
<1>1. PICK f : Steps(p, <<>>, f)
  BY DecoderRuns
<1>2. f[0] = [text |-> <<>>, partial |-> p]
  BY <1>1 DEF Steps
<1> QED BY <1>1, <1>2, DecoderIsRun

(* Utf8Decoder on one byte more.                                             *)
LEMMA DecodeMore ==
  ASSUME NEW p, NEW s \in Seq(Byte), NEW b \in Byte
  PROVE  Utf8Decoder(p, Append(s, b)) = DecodeByte(Utf8Decoder(p, s), b)
<1> DEFINE t == Append(s, b)
<1>1. t \in Seq(Byte) /\ Len(t) = Len(s) + 1 /\ t[Len(s) + 1] = b /\ (\A n \in 1 .. Len(s) : t[n] = s[n])
  BY AppendProperties
<1>2. Len(s) \in Nat
  BY LenProperties
<1> HIDE DEF t
<1>3. PICK f : Steps(p, t, f)
  <2>1. Len(t) \in Nat BY <1>1, <1>2
  <2> QED BY <2>1, DecoderRuns
<1> DEFINE g == [n \in 0 .. Len(s) |-> f[n]]
<1>4. Steps(p, s, g)
  <2> SUFFICES ASSUME NEW n \in 0 .. Len(s)
               PROVE  f[n] = IF n = 0 THEN [text |-> <<>>, partial |-> p] ELSE DecodeByte(g[n - 1], s[n])
    BY <1>2 DEF Steps
  <2>1. \A m \in 0 .. Len(t) : f[m] = IF m = 0 THEN [text |-> <<>>, partial |-> p] ELSE DecodeByte(f[m - 1], t[m])
    BY <1>3 DEF Steps
  <2>2. n \in 0 .. Len(t) /\ (n # 0 => n - 1 \in 0 .. Len(s) /\ t[n] = s[n])
    BY <1>1, <1>2
  <2> QED BY <2>1, <2>2
<1>5. Utf8Decoder(p, s) = f[Len(s)]
  <2>1. Utf8Decoder(p, s) = g[Len(s)]
    <3> HIDE DEF g
    <3> QED BY <1>2, <1>4, DecoderIsRun
  <2> QED BY <1>2, <2>1
<1>6. Utf8Decoder(p, t) = f[Len(t)]
  BY <1>1, <1>2, <1>3, DecoderIsRun
<1>7. f[Len(t)] = DecodeByte(f[Len(s)], b)
  BY <1>1, <1>2, <1>3 DEF Steps
<1> QED BY <1>5, <1>6, <1>7 DEF t

\* What the decoder has made of some bytes.
Decoded == [text: Seq(Char), partial: BOOLEAN]

(* A byte makes up to two characters.                                        *)
LEMMA EmittedTypes ==
  \A p \in BOOLEAN, b \in Byte : Emitted(p, b) \in Seq(Char)
<1> <<"bad">> \in Seq(Char) /\ <<>> \in Seq(Char) /\ <<"plain">> \in Seq(Char) /\ <<"wide">> \in Seq(Char)
    /\ <<"bad", "plain">> \in Seq(Char)
  BY DEF Char
<1> QED BY DEF Emitted

(* The decoder's states are of their type, after a byte ...                  *)
LEMMA DecodeByteTypes ==
  ASSUME NEW acc \in Decoded, NEW b \in Byte
  PROVE  DecodeByte(acc, b) \in Decoded
  BY EmittedTypes, ConcatProperties DEF DecodeByte, Decoded

(* ... and after any number of them.                                         *)
LEMMA DecodeTypes ==
  ASSUME NEW p \in BOOLEAN
  PROVE  \A s \in Seq(Byte) : Utf8Decoder(p, s) \in Decoded
<1> DEFINE Bad == {n \in Nat : \E s \in Seq(Byte) : Len(s) = n /\ Utf8Decoder(p, s) \notin Decoded}
<1>1. SUFFICES ASSUME Bad # {} PROVE FALSE
  BY LenProperties
<1>2. PICK k \in Bad : \A j \in Bad : k <= j
  <2> Bad \in SUBSET Nat OBVIOUS
  <2> HIDE DEF Bad
  <2> QED BY <1>1, Least
<1>3. PICK s \in Seq(Byte) : Len(s) = k /\ Utf8Decoder(p, s) \notin Decoded
  BY <1>2
<1>4. s # <<>>
  BY <1>3, DecodeNothing DEF Decoded
<1>5. PICK t \in Seq(Byte), b \in Byte : s = Append(t, b)
  BY <1>4, SequenceEmptyOrAppend
<1>6. Len(t) \in Nat /\ Len(s) = Len(t) + 1
  BY <1>5, AppendProperties, LenProperties
<1>7. Utf8Decoder(p, t) \in Decoded
  BY <1>2, <1>3, <1>6
<1> QED BY <1>3, <1>5, <1>7, DecodeMore, DecodeByteTypes

(* What the next byte makes does not depend on the text before it.           *)
LEMMA DecodeByteFrom ==
  ASSUME NEW d \in Decoded, NEW e \in Decoded, NEW b \in Byte, d.partial = e.partial, NEW u \in Seq(Char),
         d.text = u \o e.text
  PROVE  DecodeByte(d, b).partial = DecodeByte(e, b).partial /\ DecodeByte(d, b).text = u \o DecodeByte(e, b).text
<1>1. e.text \in Seq(Char) /\ Emitted(e.partial, b) \in Seq(Char)
  BY EmittedTypes DEF Decoded
<1>2. \A v, w \in Seq(Char) : (u \o v) \o w = u \o (v \o w)
  BY ConcatAssociative
<1> QED BY <1>1, <1>2 DEF DecodeByte

(* Reading on where the last read stopped gives what one read would have     *)
(* given: wherever the pipe's bytes are cut, and inside a character too.     *)
LEMMA DecodeConcat ==
  ASSUME NEW p \in BOOLEAN, NEW s \in Seq(Byte)
  PROVE  \A t \in Seq(Byte) :
           LET d == Utf8Decoder(p, s)
               e == Utf8Decoder(d.partial, t)
           IN Utf8Decoder(p, s \o t).partial = e.partial /\ Utf8Decoder(p, s \o t).text = d.text \o e.text
<1> DEFINE d == Utf8Decoder(p, s)
           Joins(t) == /\ Utf8Decoder(p, s \o t).partial = Utf8Decoder(d.partial, t).partial
                       /\ Utf8Decoder(p, s \o t).text = d.text \o Utf8Decoder(d.partial, t).text
           Bad == {n \in Nat : \E t \in Seq(Byte) : Len(t) = n /\ ~Joins(t)}
<1>0. d \in Decoded /\ d.text \in Seq(Char) /\ d.partial \in BOOLEAN
  BY DecodeTypes DEF Decoded
<1> HIDE DEF d
<1>1. SUFFICES ASSUME Bad # {} PROVE FALSE
  <2>1. \A t \in Seq(Byte) : Joins(t)
    <3> HIDE DEF Joins
    <3> QED BY <1>1, LenProperties
  <2> QED BY <2>1 DEF d
<1>2. PICK k \in Bad : \A j \in Bad : k <= j
  <2> Bad \in SUBSET Nat OBVIOUS
  <2> HIDE DEF Bad
  <2> QED BY <1>1, Least
<1>3. PICK t \in Seq(Byte) : Len(t) = k /\ ~Joins(t)
  BY <1>2
<1>4. t # <<>>
  <2> SUFFICES Joins(<<>>) BY <1>3
  <2>1. s \o <<>> = s /\ d.text \o <<>> = d.text BY <1>0, ConcatEmptySeq
  <2>2. Utf8Decoder(d.partial, <<>>) = [text |-> <<>>, partial |-> d.partial] BY DecodeNothing
  <2>3. Utf8Decoder(p, s \o <<>>) = d BY <2>1 DEF d
  <2>4. Utf8Decoder(d.partial, <<>>).text = <<>> /\ Utf8Decoder(d.partial, <<>>).partial = d.partial BY <2>2
  <2>5. Utf8Decoder(p, s \o <<>>).partial = Utf8Decoder(d.partial, <<>>).partial BY <2>3, <2>4
  <2>6. Utf8Decoder(p, s \o <<>>).text = d.text BY <2>3
  <2>7. d.text \o Utf8Decoder(d.partial, <<>>).text = d.text BY <2>1, <2>4
  <2> QED BY <2>5, <2>6, <2>7
<1>5. PICK r \in Seq(Byte), b \in Byte : t = Append(r, b)
  BY <1>4, SequenceEmptyOrAppend
<1>6. Len(r) \in Nat /\ Len(t) = Len(r) + 1
  BY <1>5, AppendProperties, LenProperties
<1>7. Joins(r)
  <2> HIDE DEF Joins
  <2> QED BY <1>2, <1>3, <1>6
<1>8. s \o t = Append(s \o r, b) /\ s \o r \in Seq(Byte)
  <2>1. <<b>> \in Seq(Byte) OBVIOUS
  <2>2. s \o r \in Seq(Byte) BY ConcatProperties
  <2>3. t = r \o <<b>> /\ Append(s \o r, b) = (s \o r) \o <<b>> BY <1>5, <2>2, AppendIsConcat
  <2> QED BY <2>1, <2>2, <2>3, ConcatAssociative
<1>9. /\ Utf8Decoder(p, s \o t) = DecodeByte(Utf8Decoder(p, s \o r), b)
      /\ Utf8Decoder(d.partial, t) = DecodeByte(Utf8Decoder(d.partial, r), b)
  <2>1. Utf8Decoder(p, Append(s \o r, b)) = DecodeByte(Utf8Decoder(p, s \o r), b)
    BY <1>8, DecodeMore
  <2>2. Utf8Decoder(d.partial, Append(r, b)) = DecodeByte(Utf8Decoder(d.partial, r), b)
    BY DecodeMore
  <2> QED BY <1>5, <1>8, <2>1, <2>2
<1>10. Utf8Decoder(p, s \o r) \in Decoded /\ Utf8Decoder(d.partial, r) \in Decoded
  BY <1>0, <1>8, DecodeTypes
<1> DEFINE x == Utf8Decoder(p, s \o r)
           y == Utf8Decoder(d.partial, r)
<1>11. x \in Decoded /\ y \in Decoded /\ x.partial = y.partial /\ x.text = d.text \o y.text
  BY <1>7, <1>10
<1>12. Utf8Decoder(p, s \o t) = DecodeByte(x, b) /\ Utf8Decoder(d.partial, t) = DecodeByte(y, b)
  BY <1>9
<1>13. DecodeByte(x, b).partial = DecodeByte(y, b).partial /\ DecodeByte(x, b).text = d.text \o DecodeByte(y, b).text
  <2> HIDE DEF x, y
  <2> QED BY <1>0, <1>11, DecodeByteFrom
<1> HIDE DEF x, y
<1> QED BY <1>3, <1>12, <1>13

\* The width after each character.
Measures(t, f) == f = [n \in 0 .. Len(t) |-> IF n = 0 THEN 0 ELSE f[n - 1] + Bytes(t[n])]

(* The recursion of Width has a solution ...                                 *)
LEMMA WidthRuns ==
  ASSUME NEW t, Len(t) \in Nat
  PROVE  \E f : Measures(t, f)
<1> DEFINE Up(f, k) == f = [n \in 0 .. k |-> IF n = 0 THEN 0 ELSE f[n - 1] + Bytes(t[n])]
           Bad == {k \in Nat : ~\E f : Up(f, k)}
<1>1. SUFFICES ASSUME Bad # {} PROVE FALSE
  <2>1. \E f : Up(f, Len(t)) BY <1>1
  <2> QED BY <2>1 DEF Measures
<1>2. PICK k \in Bad : \A j \in Bad : k <= j
  <2> Bad \in SUBSET Nat OBVIOUS
  <2> HIDE DEF Bad
  <2> QED BY <1>1, Least
<1>3. k # 0
  <2>1. Up([n \in 0 .. 0 |-> 0], 0) OBVIOUS
  <2> QED BY <2>1, <1>2
<1>4. k - 1 \in Nat /\ k - 1 \notin Bad
  <2>1. k \in Nat BY <1>2
  <2> HIDE DEF Bad
  <2> QED BY <1>2, <1>3, <2>1
<1>5. PICK f : Up(f, k - 1)
  BY <1>4
<1> DEFINE g == [n \in 0 .. k |-> IF n = k THEN f[k - 1] + Bytes(t[k]) ELSE f[n]]
<1>6. \A n \in 0 .. k : g[n] = IF n = 0 THEN 0 ELSE g[n - 1] + Bytes(t[n])
  <2> TAKE n \in 0 .. k
  <2> k \in Nat BY <1>2
  <2>1. CASE n = k BY <2>1, <1>3
  <2>2. CASE n # k
    <3>1. n \in 0 .. k - 1 BY <2>2
    <3>2. f[n] = IF n = 0 THEN 0 ELSE f[n - 1] + Bytes(t[n]) BY <3>1, <1>5
    <3>3. n # 0 => g[n - 1] = f[n - 1] BY <3>1
    <3> QED BY <3>1, <3>2, <3>3
  <2> QED BY <2>1, <2>2
<1>7. Up(g, k)
  BY <1>6
<1> QED BY <1>7, <1>2

(* ... and only one.                                                         *)
LEMMA WidthIsRun ==
  ASSUME NEW t, Len(t) \in Nat, NEW f, Measures(t, f)
  PROVE  Width(t) = f[Len(t)]
<1> DEFINE g == CHOOSE h : Measures(t, h)
           Bad == {n \in 0 .. Len(t) : g[n] # f[n]}
<1>1. Measures(t, g)
  OBVIOUS
<1>2. Width(t) = g[Len(t)]
  BY DEF Width, Measures
<1> HIDE DEF g
<1>3. SUFFICES ASSUME Bad # {} PROVE FALSE
  <2>1. Len(t) \in 0 .. Len(t) /\ Len(t) \notin Bad BY <1>3
  <2> QED BY <1>2, <2>1
<1>4. PICK k \in Bad : \A j \in Bad : k <= j
  <2> Bad \in SUBSET Nat OBVIOUS
  <2> HIDE DEF Bad
  <2> QED BY <1>3, Least
<1>5. k \in 0 .. Len(t) /\ (k # 0 => k - 1 \in 0 .. Len(t) /\ k - 1 \notin Bad)
  BY <1>4
<1>6. k # 0 => g[k - 1] = f[k - 1]
  BY <1>5
<1>7. f[k] = IF k = 0 THEN 0 ELSE f[k - 1] + Bytes(t[k])
  BY <1>5 DEF Measures
<1>8. g[k] = IF k = 0 THEN 0 ELSE g[k - 1] + Bytes(t[k])
  BY <1>1, <1>5 DEF Measures
<1> QED BY <1>4, <1>6, <1>7, <1>8

(* Width of no characters ...                                                *)
LEMMA WidthNothing == Width(<<>>) = 0
<1>1. PICK f : Measures(<<>>, f)
  BY WidthRuns
<1>2. f[0] = 0
  BY <1>1 DEF Measures
<1> QED BY <1>1, <1>2, WidthIsRun

(* ... and of one more.                                                      *)
LEMMA WidthMore ==
  ASSUME NEW s \in Seq(Char), NEW c \in Char
  PROVE  Width(Append(s, c)) = Width(s) + Bytes(c)
<1> DEFINE t == Append(s, c)
<1>1. t \in Seq(Char) /\ Len(t) = Len(s) + 1 /\ t[Len(s) + 1] = c /\ (\A n \in 1 .. Len(s) : t[n] = s[n])
  BY AppendProperties
<1>2. Len(s) \in Nat
  BY LenProperties
<1> HIDE DEF t
<1>3. PICK f : Measures(t, f)
  <2>1. Len(t) \in Nat BY <1>1, <1>2
  <2> QED BY <2>1, WidthRuns
<1> DEFINE g == [n \in 0 .. Len(s) |-> f[n]]
<1>4. Measures(s, g)
  <2> SUFFICES ASSUME NEW n \in 0 .. Len(s)
               PROVE  f[n] = IF n = 0 THEN 0 ELSE g[n - 1] + Bytes(s[n])
    BY <1>2 DEF Measures
  <2>1. \A m \in 0 .. Len(t) : f[m] = IF m = 0 THEN 0 ELSE f[m - 1] + Bytes(t[m])
    BY <1>3 DEF Measures
  <2>2. n \in 0 .. Len(t) /\ (n # 0 => n - 1 \in 0 .. Len(s) /\ t[n] = s[n])
    BY <1>1, <1>2
  <2> QED BY <2>1, <2>2
<1>5. Width(s) = f[Len(s)]
  <2>1. Width(s) = g[Len(s)]
    <3> HIDE DEF g
    <3> QED BY <1>2, <1>4, WidthIsRun
  <2> QED BY <1>2, <2>1
<1>6. Width(t) = f[Len(t)]
  BY <1>1, <1>2, <1>3, WidthIsRun
<1>7. f[Len(t)] = f[Len(s)] + Bytes(c)
  BY <1>1, <1>2, <1>3 DEF Measures
<1> QED BY <1>5, <1>6, <1>7 DEF t

(* Widths are numbers, and those of two texts add up.                        *)
LEMMA WidthConcat ==
  ASSUME NEW s \in Seq(Char)
  PROVE  \A t \in Seq(Char) : Width(t) \in Nat /\ Width(s \o t) = Width(s) + Width(t)
<1> DEFINE Adds(t) == Width(t) \in Nat /\ Width(s \o t) = Width(s) + Width(t)
           Bad == {n \in Nat : \E t \in Seq(Char) : Len(t) = n /\ ~Adds(t)}
<1>0. Width(s) \in Nat
  <2> DEFINE Wrong == {n \in Nat : \E t \in Seq(Char) : Len(t) = n /\ Width(t) \notin Nat}
  <2>1. SUFFICES ASSUME Wrong # {} PROVE FALSE
    BY LenProperties
  <2>2. PICK k \in Wrong : \A j \in Wrong : k <= j
    <3> Wrong \in SUBSET Nat OBVIOUS
    <3> HIDE DEF Wrong
    <3> QED BY <2>1, Least
  <2>3. PICK t \in Seq(Char) : Len(t) = k /\ Width(t) \notin Nat
    BY <2>2
  <2>4. t # <<>>
    BY <2>3, WidthNothing
  <2>5. PICK r \in Seq(Char), c \in Char : t = Append(r, c)
    BY <2>4, SequenceEmptyOrAppend
  <2>6. Len(r) \in Nat /\ Len(t) = Len(r) + 1
    BY <2>5, AppendProperties, LenProperties
  <2>7. Width(r) \in Nat
    BY <2>2, <2>3, <2>6
  <2>8. Width(t) = Width(r) + Bytes(c) /\ Bytes(c) \in Nat
    BY <2>5, WidthMore DEF Bytes, Char
  <2> QED BY <2>3, <2>7, <2>8
<1>1. SUFFICES ASSUME Bad # {} PROVE FALSE
  <2> HIDE DEF Adds
  <2>1. \A t \in Seq(Char) : Adds(t)
    BY <1>1, LenProperties
  <2> QED BY <2>1 DEF Adds
<1>2. PICK k \in Bad : \A j \in Bad : k <= j
  <2> Bad \in SUBSET Nat OBVIOUS
  <2> HIDE DEF Bad
  <2> QED BY <1>1, Least
<1>3. PICK t \in Seq(Char) : Len(t) = k /\ ~Adds(t)
  BY <1>2
<1>4. t # <<>>
  <2>1. s \o <<>> = s BY ConcatEmptySeq
  <2>2. Adds(<<>>) BY <1>0, <2>1, WidthNothing
  <2> HIDE DEF Adds
  <2> QED BY <1>3, <2>2
<1>5. PICK r \in Seq(Char), c \in Char : t = Append(r, c)
  BY <1>4, SequenceEmptyOrAppend
<1>6. Len(r) \in Nat /\ Len(t) = Len(r) + 1
  BY <1>5, AppendProperties, LenProperties
<1>7. Adds(r)
  <2> HIDE DEF Adds
  <2> QED BY <1>2, <1>3, <1>6
<1>8. s \o t = Append(s \o r, c) /\ s \o r \in Seq(Char)
  <2>1. <<c>> \in Seq(Char) OBVIOUS
  <2>2. s \o r \in Seq(Char) BY ConcatProperties
  <2>3. t = r \o <<c>> /\ Append(s \o r, c) = (s \o r) \o <<c>> BY <1>5, <2>2, AppendIsConcat
  <2> QED BY <2>1, <2>2, <2>3, ConcatAssociative
<1>9. Width(s \o t) = Width(s \o r) + Bytes(c) /\ Width(t) = Width(r) + Bytes(c) /\ Bytes(c) \in Nat
  <2>1. Width(Append(s \o r, c)) = Width(s \o r) + Bytes(c) BY <1>8, WidthMore
  <2>2. Width(Append(r, c)) = Width(r) + Bytes(c) BY WidthMore
  <2>3. Bytes(c) \in Nat BY DEF Bytes, Char
  <2> QED BY <1>5, <1>8, <2>1, <2>2, <2>3
<1> QED BY <1>0, <1>3, <1>7, <1>9

(* What OutputBudget grants is spent on a beginning of the text that fits,   *)
(* and on all of it if all of it fits.                                       *)
LEMMA CutFits ==
  ASSUME NEW text \in Seq(Char), NEW granted \in Nat
  PROVE  /\ CutTo(text, granted) \in Seq(Char) /\ Width(CutTo(text, granted)) <= granted
         /\ \E rest \in Seq(Char) : text = CutTo(text, granted) \o rest
         /\ Width(text) <= granted => CutTo(text, granted) = text
<1> DEFINE fits == {n \in 0 .. Len(text) : Width(SubSeq(text, 1, n)) <= granted}
           Room == {k \in Nat : \E m \in fits : k = Len(text) - m}
<1>0. Len(text) \in Nat
  BY LenProperties
<1>1. 0 \in fits
  <2>1. SubSeq(text, 1, 0) = <<>> BY SubSeqEmpty
  <2>2. Width(SubSeq(text, 1, 0)) <= granted
    <3>1. Width(SubSeq(text, 1, 0)) = 0 BY <2>1, WidthNothing, Zenon
    <3> QED BY <3>1
  <2>3. 0 \in 0 .. Len(text) BY <1>0
  <2> QED BY <2>2, <2>3
<1>2. PICK k \in Room : \A j \in Room : k <= j
  <2>1. Len(text) - 0 \in Room BY <1>0, <1>1
  <2> Room \in SUBSET Nat OBVIOUS
  <2> HIDE DEF Room
  <2> QED BY <2>1, Least
<1>3. PICK n \in fits : k = Len(text) - n
  BY <1>2
<1>4. \A m \in fits : m <= n
  <2> TAKE m \in fits
  <2>1. Len(text) - m \in Room BY <1>0
  <2>2. m \in 0 .. Len(text) /\ n \in 0 .. Len(text) OBVIOUS
  <2>3. k <= Len(text) - m
    <3> HIDE DEF Room, fits
    <3> QED BY <1>2, <2>1
  <2> HIDE DEF fits
  <2> QED BY <1>0, <1>3, <2>2, <2>3
<1> DEFINE c == CHOOSE x \in fits : \A m \in fits : m <= x
<1>5. c \in fits /\ \A m \in fits : m <= c
  <2> HIDE DEF fits
  <2> QED BY <1>4
<1>6. CutTo(text, granted) = SubSeq(text, 1, c)
  BY DEF CutTo
<1> HIDE DEF c
<1>7. c \in 0 .. Len(text) /\ Width(SubSeq(text, 1, c)) <= granted
  BY <1>5
<1>8. SubSeq(text, 1, c) \in Seq(Char) /\ SubSeq(text, c + 1, Len(text)) \in Seq(Char)
  BY <1>0, <1>7
<1>9. text = SubSeq(text, 1, c) \o SubSeq(text, c + 1, Len(text))
  <2>1. SubSeq(text, 1, c) \o SubSeq(text, c + 1, Len(text)) = SubSeq(text, 1, Len(text))
    <3>1. 1 \in 1 .. Len(text) + 1 /\ c \in (1 - 1) .. Len(text) /\ Len(text) \in c .. Len(text) BY <1>0, <1>7
    <3> QED BY <3>1, ConcatAdjacentSubSeq
  <2> QED BY <2>1, SubSeqFull
<1>10. Width(text) <= granted => SubSeq(text, 1, c) = text
  <2> SUFFICES ASSUME Width(text) <= granted PROVE SubSeq(text, 1, c) = text
    OBVIOUS
  <2>1. SubSeq(text, 1, Len(text)) = text BY SubSeqFull
  <2>2. Len(text) \in fits
    <3>1. Width(SubSeq(text, 1, Len(text))) <= granted BY <2>1
    <3>2. Len(text) \in 0 .. Len(text) BY <1>0
    <3> QED BY <3>1, <3>2
  <2>3. c = Len(text) BY <1>0, <1>5, <1>7, <2>2
  <2> QED BY <2>1, <2>3
<1> QED BY <1>6, <1>7, <1>8, <1>9, <1>10

(* A command's state has its type.                                           *)

Places == {"read", "push", "take", "note", "end", "lastTake", "lastNote", "done"}
Tasking == [at: Places, chunk: Seq(Byte), partial: BOOLEAN, text: Seq(Char)]
Process == [life: {"unborn", "alive", "dead"}, group: BOOLEAN, holds: SUBSET Pipes]

CommandTypes ==
  /\ kind \in Kinds /\ open \in BOOLEAN /\ armed \in BOOLEAN /\ timedOut \in BOOLEAN /\ stopped \in BOOLEAN
  /\ noted \in BOOLEAN /\ phase \in {"start", "returned"} \cup Waiting \cup Stopping
  /\ proc \in [Procs -> Process]
  /\ pipe \in [Pipes -> Seq(Byte)] /\ wrote \in [Pipes -> Seq(Byte)] /\ got \in [Pipes -> Seq(Byte \cup Char)]
  /\ \A p \in Pipes : Len(pipe[p]) <= PipeSize
  /\ reader \in [Pipes -> Tasking]
  /\ budget \in Nat /\ notes \in Nat /\ taken \subseteq Helpers
  /\ left \in [fork: Nat, byte: Nat]
  /\ kind = "stream" => \A p \in Pipes : got[p] \in Seq(Char)

(* A killed process is dead and holds nothing.                               *)
LEMMA KilledTypes ==
  ASSUME CommandTypes, NEW P
  PROVE  Killed(P) \in [Procs -> Process]
  BY DEF Killed, CommandTypes, Process, Unborn

(* The reader's next place.                                                  *)
LEMMA ReaderToTypes ==
  ASSUME CommandTypes, NEW p \in Pipes, NEW place \in Places, ReaderTo(p, place)
  PROVE  reader' \in [Pipes -> Tasking]
<1> DEFINE r == [reader[p] EXCEPT !.at = place, !.chunk = <<>>, !.text = <<>>]
<1>1. r \in Tasking
  <2>1. <<>> \in Seq(Byte) /\ <<>> \in Seq(Char) OBVIOUS
  <2> QED BY <2>1 DEF CommandTypes, Tasking
<1>2. reader' = [reader EXCEPT ![p] = r]
  BY DEF ReaderTo
<1> HIDE DEF r
<1> QED BY <1>1, <1>2 DEF CommandTypes

(* A program's step keeps the types ...                                      *)
LEMMA ProgramsTyped ==
  ASSUME CommandTypes, Programs
  PROVE  CommandTypes'
<1> USE DEF control, output
<1>0. PICK q \in Procs : \/ \E r \in Helpers : Fork(q, r)
                         \/ Leave(q) \/ Exit(q)
                         \/ \E p \in Pipes : LetGo(q, p) \/ \E b \in Byte : Write(q, p, b)
  BY DEF Programs
<1>1. ASSUME NEW r \in Helpers, Fork(q, r) PROVE CommandTypes'
  <2>1. r \in Procs BY DEF Procs
  <2>2. proc' \in [Procs -> Process] BY <1>1, <2>1 DEF Fork, CommandTypes
  <2>3. left' \in [fork: Nat, byte: Nat]
    <3>1. left.fork \in Nat /\ left.byte \in Nat /\ left = [fork |-> left.fork, byte |-> left.byte] BY DEF CommandTypes
    <3> QED BY <1>1, <3>1 DEF Fork
  <2> QED BY <1>1, <2>2, <2>3 DEF Fork, CommandTypes
<1>2. ASSUME Leave(q) PROVE CommandTypes'
  <2>1. proc' \in [Procs -> Process]
    <3>1. \A x \in Process : [x EXCEPT !.group = FALSE] \in Process BY DEF Process
    <3>2. proc \in [Procs -> Process] /\ proc' = [proc EXCEPT ![q] = [proc[q] EXCEPT !.group = FALSE]] BY <1>2 DEF Leave, CommandTypes
    <3> QED BY <3>1, <3>2
  <2> QED BY <1>2, <2>1 DEF Leave, CommandTypes
<1>3. ASSUME Exit(q) PROVE CommandTypes'
  <2>1. proc' \in [Procs -> Process] BY <1>3, KilledTypes DEF Exit
  <2> QED BY <1>3, <2>1 DEF Exit, CommandTypes
<1>4. ASSUME NEW p \in Pipes, LetGo(q, p) PROVE CommandTypes'
  <2>1. proc' \in [Procs -> Process]
    <3>1. \A x \in Process : [x EXCEPT !.holds = x.holds \ {p}] \in Process BY DEF Process
    <3>2. proc \in [Procs -> Process] /\ proc' = [proc EXCEPT ![q] = [proc[q] EXCEPT !.holds = proc[q].holds \ {p}]]
      BY <1>4 DEF LetGo, CommandTypes
    <3> QED BY <3>1, <3>2
  <2> QED BY <1>4, <2>1 DEF LetGo, CommandTypes
<1>5. ASSUME NEW p \in Pipes, NEW b \in Byte, Write(q, p, b) PROVE CommandTypes'
  <2>1. pipe[p] \in Seq(Byte) /\ wrote[p] \in Seq(Byte) BY DEF CommandTypes
  <2>2. /\ Append(pipe[p], b) \in Seq(Byte) /\ Append(wrote[p], b) \in Seq(Byte)
        /\ Len(Append(pipe[p], b)) = Len(pipe[p]) + 1 /\ Len(pipe[p]) \in Nat
    BY <2>1, AppendProperties, LenProperties
  <2>3. pipe' \in [Pipes -> Seq(Byte)] /\ wrote' \in [Pipes -> Seq(Byte)]
    BY <1>5, <2>2 DEF Write, CommandTypes
  <2>4. \A x \in Pipes : Len(pipe'[x]) <= PipeSize
    BY <1>5, <2>2, CommandsAssumption DEF Write, CommandTypes
  <2>5. left' \in [fork: Nat, byte: Nat]
    <3>1. left.fork \in Nat /\ left.byte \in Nat /\ left = [fork |-> left.fork, byte |-> left.byte] BY DEF CommandTypes
    <3> QED BY <1>5, <3>1 DEF Write
  <2> QED BY <1>5, <2>3, <2>4, <2>5 DEF Write, CommandTypes
<1> QED BY <1>0, <1>1, <1>2, <1>3, <1>4, <1>5

(* ... and a reader's ...                                                    *)
LEMMA ReaderTyped ==
  ASSUME CommandTypes, NEW p \in Pipes, Reader(p)
  PROVE  CommandTypes'
<1> USE DEF control, output
<1>0. /\ reader[p] \in Tasking /\ pipe[p] \in Seq(Byte) /\ got[p] \in Seq(Byte \cup Char)
      /\ reader[p].chunk \in Seq(Byte) /\ reader[p].text \in Seq(Char) /\ reader[p].partial \in BOOLEAN
  BY DEF CommandTypes, Tasking
<1>1. ASSUME Read(p) PROVE CommandTypes'
  <2>1. ASSUME UNCHANGED pipe, ReaderTo(p, IF kind = "stream" THEN "end" ELSE "done") PROVE CommandTypes'
    <3>1. reader' \in [Pipes -> Tasking] BY <2>1, ReaderToTypes DEF Places
    <3> QED BY <1>1, <2>1, <3>1 DEF Read, CommandTypes
  <2>2. ASSUME NEW n \in 1 .. Len(pipe[p]),
               reader' = [reader EXCEPT ![p].at = "push", ![p].chunk = SubSeq(pipe[p], 1, n)],
               pipe' = [pipe EXCEPT ![p] = SubSeq(@, n + 1, Len(@))]
        PROVE  CommandTypes'
    <3>0. Len(pipe[p]) \in Nat BY <1>0, LenProperties
    <3>1. /\ SubSeq(pipe[p], 1, n) \in Seq(Byte) /\ SubSeq(pipe[p], n + 1, Len(pipe[p])) \in Seq(Byte)
          /\ Len(SubSeq(pipe[p], n + 1, Len(pipe[p]))) <= Len(pipe[p])
      BY <1>0, <3>0
    <3> DEFINE r == [reader[p] EXCEPT !.at = "push", !.chunk = SubSeq(pipe[p], 1, n)]
    <3>2. r \in Tasking BY <1>0, <3>1 DEF Tasking, Places
    <3>3. reader' = [reader EXCEPT ![p] = r] BY <2>2 DEF CommandTypes
    <3> HIDE DEF r
    <3>4. reader' \in [Pipes -> Tasking] BY <3>2, <3>3 DEF CommandTypes
    <3>5. pipe' \in [Pipes -> Seq(Byte)] BY <2>2, <3>1 DEF CommandTypes
    <3>6. ASSUME NEW x \in Pipes PROVE Len(pipe'[x]) <= PipeSize
      <4>1. pipe'[x] = IF x = p THEN SubSeq(pipe[p], n + 1, Len(pipe[p])) ELSE pipe[x] BY <2>2 DEF CommandTypes
      <4>2. Len(pipe[p]) <= PipeSize /\ Len(pipe[x]) <= PipeSize /\ PipeSize \in Nat BY CommandsAssumption DEF CommandTypes
      <4>3. PICK m : m = Len(SubSeq(pipe[p], n + 1, Len(pipe[p]))) OBVIOUS
      <4>4. m \in Nat /\ m <= Len(pipe[p]) BY <3>1, <4>3, LenProperties
      <4>5. m <= PipeSize BY <3>0, <4>2, <4>4
      <4> QED BY <4>1, <4>2, <4>3, <4>5
    <3> QED BY <1>1, <3>4, <3>5, <3>6 DEF Read, CommandTypes
  <2> QED BY <1>1, <2>1, <2>2 DEF Read
<1>2. ASSUME PushCapture(p) PROVE CommandTypes'
  <2>1. reader' \in [Pipes -> Tasking] BY <1>2, ReaderToTypes DEF Places, PushCapture
  <2>2. got[p] \o reader[p].chunk \in Seq(Byte \cup Char)
    <3>1. reader[p].chunk \in Seq(Byte \cup Char) BY <1>0, SeqMonotonic
    <3> QED BY <1>0, <3>1, ConcatProperties
  <2>3. got' \in [Pipes -> Seq(Byte \cup Char)] BY <1>2, <2>2 DEF PushCapture, CommandTypes
  <2> QED BY <1>2, <2>1, <2>3 DEF PushCapture, CommandTypes
<1>3. ASSUME ReadCapped(p) PROVE CommandTypes'
  <2> DEFINE n    == Len(reader[p].chunk)
             room1 == GitCap - Len(got[p])
             cut  == n > room1 /\ p = "stdout"
             kept == SubSeq(reader[p].chunk, 1, IF n < room1 THEN n ELSE room1)
  <2>1. reader' \in [Pipes -> Tasking]
    <3>1. ReaderTo(p, IF cut THEN "done" ELSE "read") BY <1>3 DEF ReadCapped
    <3>2. (IF cut THEN "done" ELSE "read") \in Places BY DEF Places
    <3> HIDE DEF cut
    <3> QED BY <3>1, <3>2, ReaderToTypes
  <2>2. kept \in Seq(Byte)
    <3>1. n \in Nat /\ Len(got[p]) \in Nat /\ GitCap \in Nat BY <1>0, LenProperties, CommandsAssumption
    <3> QED BY <1>0, <3>1
  <2>3. got' \in [Pipes -> Seq(Byte \cup Char)]
    <3>1. got' = [got EXCEPT ![p] = @ \o kept] BY <1>3 DEF ReadCapped
    <3> HIDE DEF kept
    <3>2. kept \in Seq(Byte \cup Char) BY <2>2, SeqMonotonic
    <3>3. got[p] \o kept \in Seq(Byte \cup Char) BY <1>0, <3>2, ConcatProperties
    <3> QED BY <3>1, <3>3 DEF CommandTypes
  <2>4. proc' \in [Procs -> Process]
    BY <1>3, KilledTypes DEF ReadCapped, Kill, CommandTypes
  <2> QED BY <1>3, <2>1, <2>3, <2>4 DEF ReadCapped, CommandTypes
<1>4. ASSUME Push(p) PROVE CommandTypes'
  <2>1. reader' \in [Pipes -> Tasking]
    <3>1. CASE budget = 0 BY <1>4, <3>1, ReaderToTypes DEF Places, Push
    <3>2. CASE budget # 0
      <4> DEFINE d == Utf8Decoder(reader[p].partial, reader[p].chunk)
                 r == [at |-> IF d.text = <<>> THEN "read" ELSE "take", chunk |-> <<>>, partial |-> d.partial, text |-> d.text]
      <4>1. d \in Decoded BY <1>0, DecodeTypes
      <4>2. reader' = [reader EXCEPT ![p] = r] BY <1>4, <3>2 DEF Push
      <4> HIDE DEF d
      <4>3. r \in Tasking BY <4>1 DEF Decoded, Tasking, Places
      <4> HIDE DEF r
      <4> QED BY <4>2, <4>3 DEF CommandTypes
    <3> QED BY <3>1, <3>2
  <2> QED BY <1>4, <2>1 DEF Push, CommandTypes
<1>5. ASSUME End(p) PROVE CommandTypes'
  <2>1. reader' \in [Pipes -> Tasking]
    <3>1. CASE budget > 0 /\ reader[p].partial
      <4> DEFINE r == [at |-> "lastTake", chunk |-> <<>>, partial |-> FALSE, text |-> <<"bad">>]
      <4>1. r \in Tasking BY DEF Tasking, Places, Char
      <4>2. reader' = [reader EXCEPT ![p] = r] BY <1>5, <3>1 DEF End, Idle
      <4> HIDE DEF r
      <4> QED BY <4>1, <4>2 DEF CommandTypes
    <3>2. CASE ~(budget > 0 /\ reader[p].partial) BY <1>5, <3>2, ReaderToTypes DEF Places, End
    <3> QED BY <3>1, <3>2
  <2> QED BY <1>5, <2>1 DEF End, CommandTypes
<1>6. ASSUME Take(p) PROVE CommandTypes'
  <2> DEFINE wanted  == Width(reader[p].text)
             granted == IF budget < wanted THEN budget ELSE wanted
  <2>1. wanted \in Nat /\ budget \in Nat
    <3>1. <<>> \in Seq(Char) OBVIOUS
    <3> QED BY <1>0, <3>1, WidthConcat DEF CommandTypes
  <2>2. granted \in Nat /\ budget - granted \in Nat BY <2>1
  <2>3. budget' = budget - granted /\ got' = [got EXCEPT ![p] = @ \o CutTo(reader[p].text, granted)]
        /\ \E place \in Places : ReaderTo(p, place)
    <3>1. AfterTake(p) \in Places BY DEF AfterTake, Places
    <3> QED BY <1>6, <3>1 DEF Take, Places
  <2> HIDE DEF wanted, granted
  <2>4. reader' \in [Pipes -> Tasking] BY <2>3, ReaderToTypes
  <2>5. CutTo(reader[p].text, granted) \in Seq(Char) BY <1>0, <2>2, CutFits
  <2>6. got' \in [Pipes -> Seq(Byte \cup Char)]
    <3>1. CutTo(reader[p].text, granted) \in Seq(Byte \cup Char) BY <2>5, SeqMonotonic
    <3>2. got[p] \o CutTo(reader[p].text, granted) \in Seq(Byte \cup Char) BY <1>0, <3>1, ConcatProperties
    <3> QED BY <2>3, <3>2 DEF CommandTypes
  <2>7. kind = "stream" => \A x \in Pipes : got'[x] \in Seq(Char)
    BY <2>3, <2>5, ConcatProperties DEF CommandTypes
  <2> QED BY <1>6, <2>2, <2>3, <2>4, <2>6, <2>7 DEF Take, CommandTypes
<1>7. ASSUME Note(p) PROVE CommandTypes'
  <2>1. reader' \in [Pipes -> Tasking] BY <1>7, ReaderToTypes DEF Places, Note
  <2> QED BY <1>7, <2>1 DEF Note, CommandTypes
<1>8. ASSUME Abort(p) PROVE CommandTypes'
  <2>1. reader' \in [Pipes -> Tasking] BY <1>8, ReaderToTypes DEF Places, Abort
  <2> QED BY <1>8, <2>1 DEF Abort, CommandTypes
<1> QED BY <1>1, <1>2, <1>3, <1>4, <1>5, <1>6, <1>7, <1>8 DEF Reader

(* ... and the handler's, and the client's.                                  *)
LEMMA HandlerTyped ==
  ASSUME CommandTypes, phase = "drain" => ~Alive(Shell), Handler \/ HangUp
  PROVE  CommandTypes'
<1> USE DEF control, output, Quiet, Goto, Waiting, Stopping
<1>0. \A P : Killed(P) \in [Procs -> Process]
  BY KilledTypes
<1>1. ASSUME Start PROVE CommandTypes'
  <2>1. proc' \in [Procs -> Process]
    <3>1. [life |-> "alive", group |-> TRUE, holds |-> Pipes] \in Process BY DEF Process
    <3> QED BY <1>1, <3>1 DEF Start, CommandTypes
  <2> QED BY <1>1, <2>1 DEF Start, CommandTypes
<1>2. ASSUME Ended PROVE CommandTypes' BY <1>2 DEF Ended, CommandTypes
<1>3. ASSUME Timeout PROVE CommandTypes'
  <2>1. proc' \in [Procs -> Process] BY <1>0, <1>3 DEF Timeout, Term
  <2> QED BY <1>3, <2>1 DEF Timeout, CommandTypes
<1>4. ASSUME Insist("term", "reap") \/ Insist("stopTerm", "stopReap") PROVE CommandTypes'
  <2>1. proc' \in [Procs -> Process] BY <1>0, <1>4 DEF Insist, Kill
  <2> QED BY <1>4, <2>1 DEF Insist, CommandTypes
<1>5. ASSUME Reaped PROVE CommandTypes' BY <1>5 DEF Reaped, CommandTypes
<1>6. ASSUME KillHolders PROVE CommandTypes'
  <2>1. proc' \in [Procs -> Process] BY <1>0, <1>6 DEF KillHolders, Kill
  <2>2. taken' \subseteq Helpers
    \* The shell is gone, so that only helpers are taken.
    <3>1. Group \subseteq Helpers BY <1>6 DEF KillHolders, Group, Procs
    <3>2. taken' = taken \/ taken' = taken \cup {q \in Group : proc[q].holds = {}} BY <1>6 DEF KillHolders
    <3> QED BY <3>1, <3>2 DEF CommandTypes
  <2> QED BY <1>6, <2>1, <2>2 DEF KillHolders, CommandTypes
<1>7. ASSUME Disarm PROVE CommandTypes' BY <1>7 DEF Disarm, CommandTypes
<1>8. ASSUME GitDone PROVE CommandTypes' BY <1>8 DEF GitDone, CommandTypes
<1>9. ASSUME GitTimeout PROVE CommandTypes'
  <2>1. proc' \in [Procs -> Process] BY <1>0, <1>9 DEF GitTimeout, Dropped
  <2> QED BY <1>9, <2>1 DEF GitTimeout, Dropped, CommandTypes
<1>10. ASSUME Closed PROVE CommandTypes'
  <2>1. proc' \in [Procs -> Process] BY <1>0, <1>10 DEF Closed, Term
  <2> QED BY <1>10, <2>1 DEF Closed, CommandTypes
<1>11. ASSUME Stopped PROVE CommandTypes' BY <1>11 DEF Stopped, CommandTypes
<1>12. ASSUME HangUp PROVE CommandTypes'
  <2>1. proc' \in [Procs -> Process] BY <1>0, <1>12 DEF HangUp, Dropped, CommandTypes
  <2> QED BY <1>12, <2>1 DEF HangUp, Dropped, CommandTypes
<1> QED BY <1>1, <1>2, <1>3, <1>4, <1>5, <1>6, <1>7, <1>8, <1>9, <1>10, <1>11, <1>12 DEF Handler

(* The processes: all but the handler's first step let them only die, let    *)
(* go, leave the group, or start another that has no more than they have.    *)

\* Whoever is alive afterwards comes of one that was.
Descends ==
  /\ Alive(Shell)' => Alive(Shell)
  /\ \A q \in Group' : \E r \in Group : proc'[q].holds \subseteq proc[r].holds
  /\ \A p \in Pipes : Holders(p)' # {} => Holders(p) # {}
  /\ (\E q \in Procs : Alive(q)') => \E q \in Procs : Alive(q)

(* Killing some does.                                                        *)
LEMMA KilledDescends ==
  ASSUME CommandTypes, NEW P, proc' = Killed(P)
  PROVE  Descends
<1>1. \A q \in Procs : Alive(q)' => q \notin P /\ Alive(q) /\ proc'[q] = proc[q]
  BY DEF Killed, Alive, CommandTypes, Unborn
<1>2. Shell \in Procs BY DEF Procs
<1> QED BY <1>1, <1>2 DEF Descends, Group, Holders

(* Of a group that is killed nobody is left.                                 *)
LEMMA KillEmpties ==
  ASSUME CommandTypes, NEW P, Group \subseteq P, proc' = Killed(P)
  PROVE  Group' = {}
<1>1. \A q \in Procs : Alive(q)' => q \notin P /\ Alive(q) /\ proc'[q] = proc[q]
  BY DEF Killed, Alive, CommandTypes, Unborn
<1> QED BY <1>1 DEF Group

(* Letting everybody be does.                                                *)
LEMMA StayDescends == UNCHANGED proc => Descends
  BY DEF Descends, Group, Holders, Alive

(* What programs do does.                                                    *)
LEMMA ProgramsDescend ==
  ASSUME CommandTypes, Programs
  PROVE  Descends
<1> Shell \in Procs /\ Shell \notin Helpers BY CommandsAssumption DEF Procs
<1>0. PICK q \in Procs : \/ \E r \in Helpers : Fork(q, r)
                         \/ Leave(q) \/ Exit(q)
                         \/ \E p \in Pipes : LetGo(q, p) \/ \E b \in Byte : Write(q, p, b)
  BY DEF Programs
<1>1. ASSUME NEW r \in Helpers, Fork(q, r) PROVE Descends
  <2>1. r \in Procs /\ r # Shell BY DEF Procs
  <2>2. Alive(q) /\ proc' = [proc EXCEPT ![r] = proc[q]] BY <1>1 DEF Fork
  <2>3. \A s \in Procs : proc'[s] = IF s = r THEN proc[q] ELSE proc[s] BY <2>1, <2>2 DEF CommandTypes
  <2> QED BY <2>1, <2>2, <2>3 DEF Descends, Group, Holders, Alive
<1>2. ASSUME Leave(q) PROVE Descends
  <2>1. \A s \in Procs : /\ proc'[s].life = proc[s].life /\ proc'[s].holds = proc[s].holds
                         /\ proc'[s].group => proc[s].group
    BY <1>2 DEF Leave, CommandTypes, Process
  <2> QED BY <2>1 DEF Descends, Group, Holders, Alive
<1>3. ASSUME Exit(q) PROVE Descends
  BY <1>3, KilledDescends DEF Exit
<1>4. ASSUME NEW p \in Pipes, LetGo(q, p) PROVE Descends
  <2>1. \A s \in Procs : /\ proc'[s].life = proc[s].life /\ proc'[s].holds \subseteq proc[s].holds
                         /\ proc'[s].group = proc[s].group
    BY <1>4 DEF LetGo, CommandTypes, Process
  <2> QED BY <2>1 DEF Descends, Group, Holders, Alive
<1>5. ASSUME NEW p \in Pipes, NEW b \in Byte, Write(q, p, b) PROVE Descends
  BY <1>5, StayDescends DEF Write
<1> QED BY <1>0, <1>1, <1>2, <1>3, <1>4, <1>5

(* What readers do does: past its cap git is killed.                         *)
LEMMA ReaderDescends ==
  ASSUME CommandTypes, NEW p \in Pipes, Reader(p)
  PROVE  Descends
<1>1. ASSUME ReadCapped(p) PROVE Descends
  BY <1>1, KilledDescends, StayDescends DEF ReadCapped, Kill
<1>2. ASSUME Read(p) \/ PushCapture(p) \/ Push(p) \/ End(p) \/ Take(p) \/ Note(p) \/ Abort(p) PROVE Descends
  BY <1>2, StayDescends DEF Read, PushCapture, Push, End, Take, Note, Abort
<1> QED BY <1>1, <1>2 DEF Reader

(* What the handler does but for its start does.                             *)
LEMMA HandlerDescends ==
  ASSUME CommandTypes, Handler \/ HangUp, ~Start
  PROVE  Descends
<1>1. ASSUME Timeout \/ Closed PROVE Descends
  BY <1>1, KilledDescends DEF Timeout, Closed, Term
<1>2. ASSUME Insist("term", "reap") \/ Insist("stopTerm", "stopReap") \/ KillHolders PROVE Descends
  BY <1>2, KilledDescends DEF Insist, KillHolders, Kill
<1>3. ASSUME Ended \/ Reaped \/ Disarm \/ GitDone \/ Stopped PROVE Descends
  BY <1>3, StayDescends DEF Ended, Reaped, Disarm, GitDone, Stopped
<1>4. ASSUME GitTimeout PROVE Descends
  BY <1>4, KilledDescends DEF GitTimeout, Dropped
<1>5. ASSUME HangUp PROVE Descends
  BY <1>5, KilledDescends, StayDescends DEF HangUp, Dropped
<1> QED BY <1>1, <1>2, <1>3, <1>4, <1>5 DEF Handler

(* What follows for a step in which nobody new is started.                   *)
LEMMA DescendsKeeps ==
  ASSUME Descends
  PROVE  /\ ~Alive(Shell) => ~Alive(Shell)'
         /\ Group = {} => Group' = {}
         /\ (\A q \in Group : proc[q].holds = {}) => \A q \in Group' : proc'[q].holds = {}
         /\ \A p \in Pipes : Holders(p) = {} => Holders(p)' = {}
         /\ (\A q \in Procs : ~Alive(q)) => \A q \in Procs : ~Alive(q)'
  BY DEF Descends

(* Where the handler is, what it has killed and whose pipes are closed.      *)

Ending == {"end", "lastTake", "lastNote"}

PhasesAgree ==
  /\ phase = "start" => (\A q \in Procs : ~Alive(q)) /\ (\A p \in Pipes : wrote[p] = <<>> /\ reader[p].at = "read")
  /\ phase \in Waiting \cup {"stopTerm", "stopReap"} => armed
  /\ phase \in {"drain", "drainAgain", "returned"} => ~Alive(Shell)
  /\ timedOut => phase \notin {"start", "run"}
  /\ phase \in {"reap", "drainAgain", "stopReap"} \/ (timedOut /\ phase \in {"drain", "returned"}) \/ stopped => Group = {}
  /\ stopped => phase = "returned"
  /\ ~open /\ kind # "stream" => stopped

PipesClosed ==
  \A p \in Pipes :
    /\ reader[p].at # "push" => reader[p].chunk = <<>>
    /\ reader[p].at \notin {"take", "lastTake"} => reader[p].text = <<>>
    /\ kind # "stream" => reader[p].at \in {"read", "push", "done"}
    /\ reader[p].at \in Ending => pipe[p] = <<>> /\ Holders(p) = {}
    /\ reader[p].at = "done" /\ kind # "git" /\ ~stopped => pipe[p] = <<>> /\ Holders(p) = {}

NobodyReads ==
  phase = "returned" /\ ~stopped =>
    (\A p \in Pipes : reader[p].at = "done") \/ ((\A q \in Procs : ~Alive(q)) /\ \A p \in Pipes : wrote[p] = <<>>)

Left == PhasesAgree /\ PipesClosed /\ NobodyReads

(* What a reader leaves alone.                                               *)
LEMMA ReaderLeaves ==
  ASSUME CommandTypes, NEW p \in Pipes, Reader(p)
  PROVE  /\ UNCHANGED <<kind, phase, open, armed, timedOut, stopped, wrote, taken, left>> /\ reader[p].at # "done"
         /\ \A x \in Pipes \ {p} : reader'[x] = reader[x] /\ pipe'[x] = pipe[x] /\ got'[x] = got[x]
<1> DEFINE Same == /\ UNCHANGED <<kind, phase, open, armed, timedOut, stopped, wrote, taken, left>> /\ reader[p].at # "done"
                   /\ \A x \in Pipes \ {p} : reader'[x] = reader[x] /\ pipe'[x] = pipe[x] /\ got'[x] = got[x]
<1> USE DEF control, output
<1>1. ASSUME Read(p) PROVE Same BY <1>1 DEF Read, ReaderTo, CommandTypes
<1>2. ASSUME PushCapture(p) PROVE Same BY <1>2 DEF PushCapture, ReaderTo, CommandTypes
<1>3. ASSUME ReadCapped(p) PROVE Same BY <1>3 DEF ReadCapped, ReaderTo, CommandTypes
<1>4. ASSUME Push(p) PROVE Same BY <1>4 DEF Push, ReaderTo, CommandTypes
<1>5. ASSUME End(p) PROVE Same BY <1>5 DEF End, ReaderTo, CommandTypes
<1>6. ASSUME Take(p) PROVE Same BY <1>6 DEF Take, ReaderTo, CommandTypes
<1>7. ASSUME Note(p) PROVE Same BY <1>7 DEF Note, ReaderTo, CommandTypes
<1>8. ASSUME Abort(p) PROVE Same BY <1>8 DEF Abort, ReaderTo, CommandTypes
<1> HIDE DEF Same
<1> QED BY <1>1, <1>2, <1>3, <1>4, <1>5, <1>6, <1>7, <1>8 DEF Reader, Same

(* What the handler leaves alone.                                            *)
LEMMA HandlerLeaves ==
  Handler \/ HangUp => UNCHANGED <<kind, pipe, wrote, reader, budget, noted, got, notes, left>>
  BY DEF Handler, HangUp, Start, Ended, Timeout, Insist, Reaped, KillHolders, Disarm, GitDone, GitTimeout, Closed,
         Stopped, Dropped, Quiet, Goto, output

(* What programs leave alone, and what they write.                           *)
LEMMA ProgramsLeave ==
  ASSUME CommandTypes, Programs
  PROVE  /\ UNCHANGED <<kind, phase, open, armed, timedOut, stopped, reader, budget, noted, got, notes, taken>>
         /\ \A p \in Pipes : \/ pipe'[p] = pipe[p] /\ wrote'[p] = wrote[p]
                             \/ /\ Holders(p) # {} /\ reader[p].at # "done"
                                /\ \E b \in Byte : pipe'[p] = Append(pipe[p], b) /\ wrote'[p] = Append(wrote[p], b)
<1> USE DEF control, output
<1>0. PICK q \in Procs : \/ \E r \in Helpers : Fork(q, r)
                         \/ Leave(q) \/ Exit(q)
                         \/ \E p \in Pipes : LetGo(q, p) \/ \E b \in Byte : Write(q, p, b)
  BY DEF Programs
<1>1. ASSUME \/ \E r \in Helpers : Fork(q, r)
             \/ Leave(q) \/ Exit(q)
             \/ \E p \in Pipes : LetGo(q, p)
      PROVE  UNCHANGED <<kind, phase, open, armed, timedOut, stopped, reader, budget, noted, got, notes, taken, pipe, wrote>>
  BY <1>1 DEF Fork, Leave, Exit, LetGo
<1>2. ASSUME NEW p \in Pipes, NEW b \in Byte, Write(q, p, b)
      PROVE  /\ UNCHANGED <<kind, phase, open, armed, timedOut, stopped, reader, budget, noted, got, notes, taken>>
             /\ \A x \in Pipes : \/ pipe'[x] = pipe[x] /\ wrote'[x] = wrote[x]
                                 \/ /\ Holders(x) # {} /\ reader[x].at # "done"
                                    /\ pipe'[x] = Append(pipe[x], b) /\ wrote'[x] = Append(wrote[x], b)
  BY <1>2 DEF Write, CommandTypes
<1> QED BY <1>0, <1>1, <1>2

(* What each step of a reader does to it.                                    *)
LEMMA ReaderToDoes ==
  ASSUME CommandTypes, NEW p \in Pipes, NEW place, ReaderTo(p, place)
  PROVE  reader'[p].at = place /\ reader'[p].chunk = <<>> /\ reader'[p].text = <<>> /\ reader'[p].partial = reader[p].partial
<1> DEFINE r == [reader[p] EXCEPT !.at = place, !.chunk = <<>>, !.text = <<>>]
<1>1. r.at = place /\ r.chunk = <<>> /\ r.text = <<>> /\ r.partial = reader[p].partial
  BY DEF CommandTypes, Tasking
<1>2. reader' = [reader EXCEPT ![p] = r]
  BY DEF ReaderTo
<1> HIDE DEF r
<1> QED BY <1>1, <1>2 DEF CommandTypes

(* A read finds the pipe closed and empty, or takes a piece off it.          *)
LEMMA ReadDoes ==
  ASSUME CommandTypes, NEW p \in Pipes, Read(p)
  PROVE  /\ reader[p].at = "read" /\ phase # "start" /\ reader'[p].partial = reader[p].partial /\ UNCHANGED <<proc, got, budget, noted, notes>>
         /\ \/ /\ pipe[p] = <<>> /\ pipe' = pipe /\ Holders(p) = {}
               /\ reader'[p].at = (IF kind = "stream" THEN "end" ELSE "done") /\ reader'[p].chunk = <<>> /\ reader'[p].text = <<>>
            \/ /\ reader'[p].at = "push" /\ reader'[p].text = reader[p].text
               /\ reader'[p].chunk \in Seq(Byte) /\ pipe'[p] \in Seq(Byte) /\ pipe[p] = reader'[p].chunk \o pipe'[p]
<1>0. reader[p].at = "read" /\ phase # "start" /\ UNCHANGED <<proc, got, budget, noted, notes>>
  BY DEF Read, output
<1>1. ASSUME pipe[p] = <<>>, Holders(p) = {}, ReaderTo(p, IF kind = "stream" THEN "end" ELSE "done"), UNCHANGED pipe
      PROVE  /\ pipe[p] = <<>> /\ pipe' = pipe /\ Holders(p) = {} /\ reader'[p].partial = reader[p].partial
             /\ reader'[p].at = (IF kind = "stream" THEN "end" ELSE "done") /\ reader'[p].chunk = <<>> /\ reader'[p].text = <<>>
  BY <1>1, ReaderToDoes
<1>2. ASSUME NEW n \in 1 .. Len(pipe[p]),
             reader' = [reader EXCEPT ![p].at = "push", ![p].chunk = SubSeq(pipe[p], 1, n)],
             pipe' = [pipe EXCEPT ![p] = SubSeq(@, n + 1, Len(@))]
      PROVE  /\ reader'[p].at = "push" /\ reader'[p].text = reader[p].text /\ reader'[p].partial = reader[p].partial
             /\ reader'[p].chunk \in Seq(Byte) /\ pipe'[p] \in Seq(Byte) /\ pipe[p] = reader'[p].chunk \o pipe'[p]
  <2>0. pipe[p] \in Seq(Byte) /\ Len(pipe[p]) \in Nat BY LenProperties DEF CommandTypes
  <2> DEFINE r == [reader[p] EXCEPT !.at = "push", !.chunk = SubSeq(pipe[p], 1, n)]
  <2>1. r.at = "push" /\ r.chunk = SubSeq(pipe[p], 1, n) /\ r.text = reader[p].text /\ r.partial = reader[p].partial
    BY DEF CommandTypes, Tasking
  <2>2. reader' = [reader EXCEPT ![p] = r] BY <1>2 DEF CommandTypes
  <2> HIDE DEF r
  <2>3. reader'[p] = r BY <2>2 DEF CommandTypes
  <2>4. pipe'[p] = SubSeq(pipe[p], n + 1, Len(pipe[p])) BY <1>2 DEF CommandTypes
  <2>5. SubSeq(pipe[p], 1, n) \in Seq(Byte) /\ SubSeq(pipe[p], n + 1, Len(pipe[p])) \in Seq(Byte) BY <2>0
  <2>6. SubSeq(pipe[p], 1, n) \o SubSeq(pipe[p], n + 1, Len(pipe[p])) = SubSeq(pipe[p], 1, Len(pipe[p]))
    <3>1. 1 \in 1 .. Len(pipe[p]) + 1 /\ n \in (1 - 1) .. Len(pipe[p]) /\ Len(pipe[p]) \in n .. Len(pipe[p]) BY <2>0
    <3> QED BY <2>0, <3>1, ConcatAdjacentSubSeq
  <2>7. SubSeq(pipe[p], 1, Len(pipe[p])) = pipe[p] BY <2>0, SubSeqFull
  <2> QED BY <2>1, <2>3, <2>4, <2>5, <2>6, <2>7
<1> QED BY <1>0, <1>1, <1>2 DEF Read

(* A push decodes the piece, unless the budget is spent.                     *)
LEMMA PushDoes ==
  ASSUME CommandTypes, NEW p \in Pipes, Push(p)
  PROVE  LET d == Utf8Decoder(reader[p].partial, reader[p].chunk)
         IN \/ budget = 0 /\ reader'[p].at = "note" /\ reader'[p].chunk = <<>> /\ reader'[p].text = <<>>
            \/ /\ budget # 0 /\ reader'[p].at = (IF d.text = <<>> THEN "read" ELSE "take") /\ reader'[p].chunk = <<>>
               /\ reader'[p].text = d.text /\ reader'[p].partial = d.partial
<1>1. CASE budget = 0 BY <1>1, ReaderToDoes DEF Push
<1>2. CASE budget # 0
  <2> DEFINE d == Utf8Decoder(reader[p].partial, reader[p].chunk)
             r == [at |-> IF d.text = <<>> THEN "read" ELSE "take", chunk |-> <<>>, partial |-> d.partial, text |-> d.text]
  <2>1. reader' = [reader EXCEPT ![p] = r] BY <1>2 DEF Push
  <2> HIDE DEF d
  <2>2. r.at = (IF d.text = <<>> THEN "read" ELSE "take") /\ r.chunk = <<>> /\ r.text = d.text /\ r.partial = d.partial OBVIOUS
  <2> HIDE DEF r
  <2>3. reader'[p] = r BY <2>1 DEF CommandTypes
  <2> QED BY <1>2, <2>2, <2>3 DEF d
<1> QED BY <1>1, <1>2

(* The end gives half a character that was held as one that is none.         *)
LEMMA EndDoes ==
  ASSUME CommandTypes, NEW p \in Pipes, End(p)
  PROVE  \/ /\ budget > 0 /\ reader[p].partial
            /\ reader'[p].at = "lastTake" /\ reader'[p].chunk = <<>> /\ reader'[p].text = <<"bad">>
         \/ /\ ~(budget > 0 /\ reader[p].partial)
            /\ reader'[p].at = "done" /\ reader'[p].chunk = <<>> /\ reader'[p].text = <<>>
<1>1. CASE budget > 0 /\ reader[p].partial
  <2> DEFINE r == [at |-> "lastTake", chunk |-> <<>>, partial |-> FALSE, text |-> <<"bad">>]
  <2>1. reader' = [reader EXCEPT ![p] = r] BY <1>1 DEF End, Idle
  <2>2. r.at = "lastTake" /\ r.chunk = <<>> /\ r.text = <<"bad">> OBVIOUS
  <2> HIDE DEF r
  <2>3. reader'[p] = r BY <2>1 DEF CommandTypes
  <2> QED BY <1>1, <2>2, <2>3
<1>2. CASE ~(budget > 0 /\ reader[p].partial) BY <1>2, ReaderToDoes DEF End
<1> QED BY <1>1, <1>2

(* Whether what is granted is all that was wanted says where a reader goes.  *)
LEMMA TakeDoes ==
  ASSUME CommandTypes, NEW p \in Pipes, Take(p)
  PROVE  LET wanted  == Width(reader[p].text)
             granted == IF budget < wanted THEN budget ELSE wanted
         IN /\ reader[p].at \in {"take", "lastTake"}
            /\ reader'[p].at = (IF granted = wanted THEN IF reader[p].at = "take" THEN "read" ELSE "done"
                                ELSE IF reader[p].at = "take" THEN "note" ELSE "lastNote")
            /\ reader'[p].chunk = <<>> /\ reader'[p].text = <<>> /\ reader'[p].partial = reader[p].partial
            /\ got'[p] = got[p] \o CutTo(reader[p].text, granted) /\ budget' = budget - granted
            /\ UNCHANGED <<proc, pipe, noted, notes>>
<1> DEFINE wanted  == Width(reader[p].text)
           granted == IF budget < wanted THEN budget ELSE wanted
           place   == IF granted = wanted THEN IF reader[p].at = "take" THEN "read" ELSE "done"
                      ELSE IF reader[p].at = "take" THEN "note" ELSE "lastNote"
<1>1. /\ reader[p].at \in {"take", "lastTake"} /\ ReaderTo(p, place) /\ budget' = budget - granted
      /\ got' = [got EXCEPT ![p] = @ \o CutTo(reader[p].text, granted)] /\ UNCHANGED <<proc, pipe, noted, notes>>
  BY DEF Take, AfterTake
<1> HIDE DEF place, granted, wanted
<1>2. reader'[p].at = place /\ reader'[p].chunk = <<>> /\ reader'[p].text = <<>> /\ reader'[p].partial = reader[p].partial
  BY <1>1, ReaderToDoes
<1>3. got'[p] = got[p] \o CutTo(reader[p].text, granted)
  BY <1>1 DEF CommandTypes
<1> QED BY <1>1, <1>2, <1>3 DEF place, granted, wanted

(* The readers' abort, once asked for, is not taken back.                    *)
LEMMA StoppedStays ==
  ASSUME PhasesAgree, Handler \/ HangUp
  PROVE  stopped => stopped'
  BY DEF PhasesAgree, Handler, HangUp, Start, Ended, Timeout, Insist, Reaped, KillHolders, Disarm, GitDone,
         GitTimeout, Closed, Stopped, Dropped, Waiting

(* Phases agree at the start ...                                             *)
LEMMA LeftAtFirst == Init => Left
  BY DEF Init, Left, PhasesAgree, PipesClosed, NobodyReads, Alive, Unborn, Idle, Waiting, Holders, Ending

(* ... after a step of a program or a reader ...                             *)
LEMMA PhasesStay ==
  ASSUME CommandTypes, PhasesAgree, Programs \/ \E p \in Pipes : Reader(p)
  PROVE  PhasesAgree'
<1>1. Descends
  BY ProgramsDescend, ReaderDescends
<1>2. UNCHANGED <<kind, phase, open, armed, timedOut, stopped>>
  BY ProgramsLeave, ReaderLeaves
<1>3. (\A q \in Procs : ~Alive(q)) => \A p \in Pipes : wrote'[p] = wrote[p]
  <2>1. CASE Programs BY <2>1, ProgramsLeave DEF Holders
  <2>2. CASE \E p \in Pipes : Reader(p) BY <2>2, ReaderLeaves
  <2> QED BY <2>1, <2>2
<1>4. phase = "start" => \A p \in Pipes : reader'[p] = reader[p]
  <2>1. CASE Programs BY <2>1, ProgramsLeave
  <2>2. CASE \E p \in Pipes : Reader(p)
    \* Before the start no reader runs.
    <3> SUFFICES ASSUME phase = "start" PROVE FALSE OBVIOUS
    <3>1. PICK p \in Pipes : Reader(p) BY <2>2
    <3>2. reader[p].at = "read" /\ ~stopped BY DEF PhasesAgree
    <3> QED BY <3>1, <3>2 DEF Reader, Read, PushCapture, ReadCapped, Push, End, Take, Note, Abort
  <2> QED BY <2>1, <2>2
<1> QED BY <1>1, <1>2, <1>3, <1>4, DescendsKeeps DEF PhasesAgree

(* ... and of the handler or the client.                                     *)
LEMMA PhasesMove ==
  ASSUME CommandTypes, PhasesAgree, Handler \/ HangUp
  PROVE  PhasesAgree'
<1> Shell \in Procs BY DEF Procs
<1> USE DEF Goto, Waiting
<1>0. UNCHANGED <<kind, wrote, reader>>
  BY HandlerLeaves
<1>1. ASSUME Start PROVE PhasesAgree'
  <2>1. CASE phase' = "run" BY <1>0, <1>1, <2>1 DEF Start, PhasesAgree
  <2>2. CASE phase' # "run" BY <1>0, <1>1, <2>2 DEF Start, PhasesAgree, Alive, Group
  <2> QED BY <2>1, <2>2
<1>2. ASSUME ~Start PROVE PhasesAgree'
  <2>0. Descends BY <1>2, HandlerDescends
  <2>1. ASSUME Ended PROVE PhasesAgree' BY <1>0, <2>0, <2>1, DescendsKeeps DEF Ended, PhasesAgree
  <2>2. ASSUME Timeout PROVE PhasesAgree' BY <1>0, <2>0, <2>2, DescendsKeeps DEF Timeout, PhasesAgree
  <2>3. ASSUME Insist("term", "reap") \/ Insist("stopTerm", "stopReap") PROVE PhasesAgree'
    <3>1. Group' = {} BY <2>3, KillEmpties DEF Insist, Kill
    <3> QED BY <1>0, <2>0, <2>3, <3>1, DescendsKeeps DEF Insist, PhasesAgree
  <2>4. ASSUME Reaped PROVE PhasesAgree' BY <1>0, <2>0, <2>4, DescendsKeeps DEF Reaped, PhasesAgree
  <2>5. ASSUME KillHolders PROVE PhasesAgree'
    <3>1. Group' = {} BY <2>5, KillEmpties DEF KillHolders, Kill
    <3> QED BY <1>0, <2>0, <2>5, <3>1, DescendsKeeps DEF KillHolders, PhasesAgree
  <2>6. ASSUME Disarm PROVE PhasesAgree' BY <1>0, <2>0, <2>6, DescendsKeeps DEF Disarm, PhasesAgree
  <2>7. ASSUME GitDone PROVE PhasesAgree' BY <1>0, <2>0, <2>7, DescendsKeeps DEF GitDone, PhasesAgree
  <2>8. ASSUME Dropped, phase \in Waiting, open' \in BOOLEAN, timedOut' \in BOOLEAN PROVE PhasesAgree'
    <3>1. armed BY <2>8 DEF PhasesAgree
    <3>2. proc' = Killed({Shell} \cup Group) BY <2>8, <3>1 DEF Dropped
    <3>3. Group' = {} BY <3>2, KillEmpties
    <3>4. ~Alive(Shell)' BY <3>2 DEF Killed, Alive, Unborn
    <3> QED BY <1>0, <2>8, <3>3, <3>4 DEF Dropped, PhasesAgree
  <2>9. ASSUME GitTimeout PROVE PhasesAgree' BY <2>8, <2>9 DEF GitTimeout, CommandTypes
  <2>10. ASSUME Closed PROVE PhasesAgree' BY <1>0, <2>0, <2>10, DescendsKeeps DEF Closed, PhasesAgree
  <2>11. ASSUME Stopped PROVE PhasesAgree' BY <1>0, <2>0, <2>11, DescendsKeeps DEF Stopped, PhasesAgree
  <2>12. ASSUME HangUp PROVE PhasesAgree'
    <3>1. CASE kind = "stream" BY <1>0, <2>0, <2>12, <3>1, DescendsKeeps DEF HangUp, PhasesAgree
    <3>2. CASE kind # "stream" BY <2>8, <2>12, <3>2 DEF HangUp, CommandTypes
    <3> QED BY <3>1, <3>2
  <2> QED BY <1>2, <2>1, <2>2, <2>3, <2>4, <2>5, <2>6, <2>7, <2>9, <2>10, <2>11, <2>12 DEF Handler
<1> QED BY <1>1, <1>2

(* The pipes that were read to their end stay so.                            *)
LEMMA ClosedStay ==
  ASSUME CommandTypes, PhasesAgree, PipesClosed, Next
  PROVE  PipesClosed'
<1>1. ASSUME Programs PROVE PipesClosed'
  <2>1. Descends BY <1>1, ProgramsDescend
  <2> QED BY <1>1, <2>1, ProgramsLeave, DescendsKeeps DEF PipesClosed
<1>2. ASSUME Handler \/ HangUp PROVE PipesClosed'
  <2>0. UNCHANGED <<kind, pipe, reader>> BY <1>2, HandlerLeaves
  <2>1. CASE Start
    \* Before the start nobody has anything to read.
    <3>1. \A p \in Pipes : reader[p].at = "read" BY <2>1 DEF Start, PhasesAgree
    <3> QED BY <2>0, <3>1 DEF PipesClosed, Ending
  <2>2. CASE ~Start
    <3>1. Descends BY <1>2, <2>2, HandlerDescends
    <3>2. stopped => stopped' BY <1>2, StoppedStays
    <3> QED BY <2>0, <3>1, <3>2, DescendsKeeps DEF PipesClosed
  <2> QED BY <2>1, <2>2
<1>3. ASSUME NEW p \in Pipes, Reader(p) PROVE PipesClosed'
  <2>0. Descends BY <1>3, ReaderDescends
  <2> DEFINE Fine == /\ reader'[p].at # "push" => reader'[p].chunk = <<>>
                     /\ reader'[p].at \notin {"take", "lastTake"} => reader'[p].text = <<>>
                     /\ kind # "stream" => reader'[p].at \in {"read", "push", "done"}
                     /\ reader'[p].at \in Ending => pipe'[p] = <<>> /\ Holders(p) = {}
                     /\ reader'[p].at = "done" /\ kind # "git" /\ ~stopped => pipe'[p] = <<>> /\ Holders(p) = {}
  <2> USE DEF PipesClosed, Ending
  <2>1. ASSUME Read(p) PROVE Fine BY <2>1, ReadDoes
  <2>2. ASSUME PushCapture(p) PROVE Fine BY <2>2, ReaderToDoes DEF PushCapture
  <2>3. ASSUME ReadCapped(p) PROVE Fine
    <3>1. PICK place \in {"done", "read"} : ReaderTo(p, place) BY <2>3 DEF ReadCapped
    <3> QED BY <2>3, <3>1, ReaderToDoes DEF ReadCapped
  <2>4. ASSUME Push(p) PROVE Fine BY <2>4, PushDoes DEF Push
  <2>5. ASSUME End(p) PROVE Fine BY <2>5, EndDoes DEF End
  <2>6. ASSUME Take(p) PROVE Fine BY <2>6, TakeDoes
  <2>7. ASSUME Note(p) PROVE Fine BY <2>7, ReaderToDoes DEF Note
  <2>8. ASSUME Abort(p) PROVE Fine BY <2>8, ReaderToDoes DEF Abort
  <2>9. Fine
    <3> HIDE DEF Fine
    <3> QED BY <1>3, <2>1, <2>2, <2>3, <2>4, <2>5, <2>6, <2>7, <2>8 DEF Reader
  <2>10. UNCHANGED <<kind, stopped>> /\ \A x \in Pipes \ {p} : reader'[x] = reader[x] /\ pipe'[x] = pipe[x]
    BY <1>3, ReaderLeaves
  <2>11. \A x \in Pipes : Holders(x) = {} => Holders(x)' = {}
    BY <2>0, DescendsKeeps
  <2>12. PipesClosed BY DEF PipesClosed
  <2> QED BY <2>9, <2>10, <2>11, <2>12
<1> QED BY <1>1, <1>2, <1>3 DEF Next, Readers

(* Nobody is left waiting for output.                                        *)
LEMMA NobodyReadsStay ==
  ASSUME CommandTypes, PhasesAgree, NobodyReads, Next
  PROVE  NobodyReads'
<1>1. ASSUME Programs PROVE NobodyReads'
  <2>1. Descends BY <1>1, ProgramsDescend
  <2> QED BY <1>1, <2>1, ProgramsLeave, DescendsKeeps DEF NobodyReads, Holders
<1>2. ASSUME NEW p \in Pipes, Reader(p) PROVE NobodyReads'
  <2>1. Descends BY <1>2, ReaderDescends
  <2> QED BY <1>2, <2>1, ReaderLeaves, DescendsKeeps DEF NobodyReads
<1>3. ASSUME Handler \/ HangUp PROVE NobodyReads'
  <2>0. UNCHANGED <<reader, wrote>> BY <1>3, HandlerLeaves
  <2> SUFFICES ASSUME phase' = "returned", ~stopped' PROVE NobodyReads' BY DEF NobodyReads
  <2>1. ASSUME Start PROVE NobodyReads' BY <2>0, <2>1 DEF Start, Goto, NobodyReads, PhasesAgree, Alive
  <2>2. ASSUME Disarm \/ GitDone PROVE NobodyReads' BY <2>0, <2>2 DEF Disarm, GitDone, Finished, NobodyReads
  <2>3. CASE phase # "returned" /\ ~Start /\ ~Disarm /\ ~GitDone
    BY <1>3, <2>3 DEF Handler, HangUp, Ended, Timeout, Insist, Reaped, KillHolders, GitTimeout, Closed, Stopped, Dropped, Goto, Waiting
  <2>4. CASE phase = "returned" 
    BY <1>3, <2>4 DEF Handler, HangUp, Start, Disarm, GitDone, Ended, Timeout, Insist, Reaped, KillHolders, GitTimeout, Closed, Stopped, Waiting
  <2> QED BY <2>1, <2>2, <2>3, <2>4
<1> QED BY <1>1, <1>2, <1>3 DEF Next, Readers

(* What the client is shown, or the capture holds, of a pipe.                *)

Either == Byte \cup Char
Begins(s, t) == \E u \in Seq(Either) : t = s \o u

\* c has been read and passed on, or left out; a chunk is in hand; the rest is in the pipe.
Flow(p, c) == wrote[p] = (c \o reader[p].chunk) \o pipe[p]

Captured == kind = "exec" => \A p \in Pipes : Flow(p, got[p])

GitKept ==
  kind = "git" => \A p \in Pipes :
    /\ Len(got[p]) <= GitCap
    /\ \/ Flow(p, got[p]) /\ (reader[p].at = "done" => stopped \/ pipe[p] = <<>>)
       \/ Len(got[p]) = GitCap /\ Begins(got[p], wrote[p])

\* A reader is in step with what it has read, which makes t and, if h, half a character more;
\* or it has spent the budget and the client knows or will be told.
InStep(p, t, h) ==
  LET r == reader[p]
  IN /\ r.at \in {"read", "push", "end"} =>
          (got[p] = t /\ r.partial = h) \/ (noted /\ budget = 0 /\ Begins(got[p], t))
     /\ r.at = "take" => got[p] \o r.text = t /\ r.partial = h
     /\ r.at = "note" => budget = 0 /\ Begins(got[p], t)
     /\ r.at = "lastTake" => h /\ got[p] = t /\ r.text = <<"bad">>
     /\ r.at = "lastNote" => budget = 0 /\ h /\ Begins(got[p], t \o <<"bad">>)
     /\ r.at = "done" =>
          \/ Begins(got[p], t) /\ (stopped \/ noted \/ (got[p] = t /\ (budget = 0 \/ ~h)))
          \/ /\ pipe[p] = <<>> /\ h /\ Begins(got[p], t \o <<"bad">>)
             /\ noted \/ got[p] = t \o <<"bad">>

Forwards(p, c) == Flow(p, c) /\ InStep(p, Utf8Decoder(FALSE, c).text, Utf8Decoder(FALSE, c).partial)

Forwarded == kind = "stream" => \A p \in Pipes : \E c \in Seq(Byte) : Forwards(p, c)

Budgeted ==
  /\ notes <= 1 /\ (noted <=> notes = 1)
  /\ kind = "stream" => Width(got["stdout"]) + Width(got["stderr"]) + budget <= StreamCap

(* Sequences, with what the proofs below use of them.                        *)
LEMMA Joining ==
  /\ \A x, y, z \in Seq(Either) : (x \o y) \o z = x \o (y \o z)
  /\ \A x, y \in Seq(Either) : x \o y \in Seq(Either)
  /\ \A x \in Seq(Either) : x \o <<>> = x /\ <<>> \o x = x
  /\ Seq(Byte) \subseteq Seq(Either) /\ Seq(Char) \subseteq Seq(Either) /\ <<>> \in Seq(Byte) /\ <<>> \in Seq(Char)
  /\ \A x, y \in Seq(Byte) : x \o y \in Seq(Byte)
  /\ \A x \in Seq(Byte), y \in Seq(Either), b \in Byte : Append(x, b) \in Seq(Byte) /\ y \o Append(x, b) = Append(y \o x, b)
<1>1. \A x, y, z \in Seq(Either) : (x \o y) \o z = x \o (y \o z)
  BY ConcatAssociative
<1>2. \A x, y \in Seq(Either) : x \o y \in Seq(Either)
  BY ConcatProperties
<1>3. \A x \in Seq(Either) : x \o <<>> = x /\ <<>> \o x = x
  BY ConcatEmptySeq
<1>4. Seq(Byte) \subseteq Seq(Either) /\ Seq(Char) \subseteq Seq(Either) /\ <<>> \in Seq(Byte) /\ <<>> \in Seq(Char)
  BY SeqMonotonic DEF Either
<1>5. \A x, y \in Seq(Byte) : x \o y \in Seq(Byte)
  BY ConcatProperties
<1>6. ASSUME NEW x \in Seq(Byte), NEW y \in Seq(Either), NEW b \in Byte
      PROVE  Append(x, b) \in Seq(Byte) /\ y \o Append(x, b) = Append(y \o x, b)
  <2>1. Append(x, b) \in Seq(Byte) BY AppendProperties
  <2>2. x \in Seq(Either) /\ y \o x \in Seq(Either) /\ b \in Either BY <1>2, <1>4 DEF Either
  <2>3. Append(x, b) = x \o <<b>> /\ Append(y \o x, b) = (y \o x) \o <<b>> BY <2>2, AppendIsConcat
  <2>4. <<b>> \in Seq(Either) BY <2>2
  <2> QED BY <1>1, <2>1, <2>2, <2>3, <2>4
<1> QED BY <1>1, <1>2, <1>3, <1>4, <1>5, <1>6

(* A beginning of a beginning is a beginning, and a prefix.                  *)
LEMMA BeginsFacts ==
  /\ \A s \in Seq(Either) : Begins(s, s)
  /\ \A s, t \in Seq(Either) : Begins(s, s \o t)
  /\ \A s, t, u \in Seq(Either) : Begins(s, t) => Begins(s, t \o u)
  /\ \A s, t \in Seq(Either) : Begins(s, t) => IsPrefix(s, t)
  /\ \A s \in Seq(Either) : Begins(s, <<>>) => s = <<>>
<1>1. \A s, t \in Seq(Either) : Begins(s, s \o t)
  BY DEF Begins
<1>2. \A s \in Seq(Either) : Begins(s, s)
  BY Joining DEF Begins
<1>3. ASSUME NEW s \in Seq(Either), NEW t \in Seq(Either), NEW u \in Seq(Either), Begins(s, t) PROVE Begins(s, t \o u)
  <2>1. PICK v \in Seq(Either) : t = s \o v BY <1>3 DEF Begins
  <2>2. t \o u = s \o (v \o u) /\ v \o u \in Seq(Either) BY <2>1, Joining
  <2> QED BY <2>2 DEF Begins
<1>4. ASSUME NEW s \in Seq(Either), NEW t \in Seq(Either), Begins(s, t) PROVE IsPrefix(s, t)
  <2>1. PICK v \in Seq(Either) : t = s \o v BY <1>4 DEF Begins
  <2>2. Len(s) \in Nat /\ Len(v) \in Nat /\ Len(t) = Len(s) + Len(v)
    <3>1. Len(s \o v) = Len(s) + Len(v) BY ConcatProperties
    <3> QED BY <2>1, <3>1, LenProperties
  <2>3. SubSeq(t, 1, Len(s)) = SubSeq(s, 1, Len(s))
    <3>1. CASE s = <<>>
      <4>1. Len(s) = 0 BY <3>1
      <4> QED BY <4>1, SubSeqEmpty
    <3>2. CASE s # <<>>
      <4>1. 1 \in 1 .. Len(s) /\ Len(s) \in 1 .. Len(s) BY <2>2, <3>2, EmptySeq
      <4> QED BY <2>1, <4>1, SubSeqOfConcat1
    <3> QED BY <3>1, <3>2
  <2> QED BY <2>2, <2>3 DEF IsPrefix
<1>5. ASSUME NEW s \in Seq(Either), Begins(s, <<>>) PROVE s = <<>>
  <2>1. PICK v \in Seq(Either) : s \o v = <<>> BY <1>5 DEF Begins
  <2> QED BY <2>1, ConcatSimplifications
<1> QED BY <1>1, <1>2, <1>3, <1>4, <1>5

(* The flow goes on through what a program writes ...                        *)
LEMMA FlowWritten ==
  ASSUME CommandTypes, Programs, NEW p \in Pipes, NEW c \in Seq(Either), Flow(p, c)
  PROVE  Flow(p, c)'
<1>0. pipe[p] \in Seq(Byte) /\ reader[p].chunk \in Seq(Byte) /\ c \o reader[p].chunk \in Seq(Either)
  BY Joining DEF CommandTypes, Tasking
<1>1. CASE pipe'[p] = pipe[p] /\ wrote'[p] = wrote[p] BY <1>1, ProgramsLeave DEF Flow
<1>2. CASE \E b \in Byte : pipe'[p] = Append(pipe[p], b) /\ wrote'[p] = Append(wrote[p], b)
  <2>1. PICK b \in Byte : pipe'[p] = Append(pipe[p], b) /\ wrote'[p] = Append(wrote[p], b) BY <1>2
  <2>2. (c \o reader[p].chunk) \o Append(pipe[p], b) = Append((c \o reader[p].chunk) \o pipe[p], b)
    <3> DEFINE x == pipe[p]
               y == c \o reader[p].chunk
    <3>1. x \in Seq(Byte) /\ y \in Seq(Either) BY <1>0
    <3> HIDE DEF x, y
    <3>2. y \o Append(x, b) = Append(y \o x, b) BY <3>1, Joining
    <3> QED BY <3>2 DEF x, y
  <2> QED BY <2>1, <2>2, ProgramsLeave DEF Flow
<1> QED BY <1>1, <1>2, ProgramsLeave

(* ... a read ...                                                            *)
LEMMA FlowRead ==
  ASSUME CommandTypes, NEW p \in Pipes, Read(p), reader[p].chunk = <<>>, NEW c \in Seq(Either), Flow(p, c)
  PROVE  Flow(p, c)'
<1>0. wrote'[p] = wrote[p] BY DEF Read
<1>1. CASE pipe' = pipe /\ reader'[p].chunk = <<>> BY <1>0, <1>1 DEF Flow
<1>2. CASE reader'[p].chunk \in Seq(Byte) /\ pipe'[p] \in Seq(Byte) /\ pipe[p] = reader'[p].chunk \o pipe'[p]
  <2>1. reader'[p].chunk \in Seq(Either) /\ pipe'[p] \in Seq(Either) BY <1>2, Joining
  <2>2. c \o (reader'[p].chunk \o pipe'[p]) = (c \o reader'[p].chunk) \o pipe'[p]
    <3> DEFINE x == reader'[p].chunk
               y == pipe'[p]
    <3>1. x \in Seq(Either) /\ y \in Seq(Either) BY <2>1
    <3> HIDE DEF x, y
    <3>2. \A s, t, u \in Seq(Either) : (s \o t) \o u = s \o (t \o u) BY Joining
    <3>3. c \o (x \o y) = (c \o x) \o y BY <3>1, <3>2, Zenon
    <3> QED BY <3>3 DEF x, y
  <2>3. wrote[p] = c \o pipe[p] BY Joining DEF Flow
  <2> QED BY <1>0, <1>2, <2>2, <2>3 DEF Flow
<1> QED BY <1>1, <1>2, ReadDoes

(* ... and a push.                                                           *)
LEMMA FlowPushed ==
  ASSUME CommandTypes, NEW p \in Pipes, NEW c \in Seq(Either), Flow(p, c),
         reader'[p].chunk = <<>>, pipe'[p] = pipe[p], wrote'[p] = wrote[p]
  PROVE  wrote'[p] = ((c \o reader[p].chunk) \o reader'[p].chunk) \o pipe'[p]
<1>1. c \o reader[p].chunk \in Seq(Either)
  BY Joining DEF CommandTypes, Tasking
<1>2. (c \o reader[p].chunk) \o <<>> = c \o reader[p].chunk
  BY <1>1, Joining
<1> QED BY <1>2 DEF Flow

(* exec: what is captured is what was written, but for what is on its way.   *)
LEMMA CapturedStay ==
  ASSUME CommandTypes, PipesClosed, Captured, Next
  PROVE  Captured'
<1> SUFFICES ASSUME kind = "exec", kind' = "exec", NEW p \in Pipes PROVE Flow(p, got[p])'
  <2>1. kind' = kind BY ReaderLeaves, ProgramsLeave, HandlerLeaves DEF Next, Readers
  <2> QED BY <2>1 DEF Captured
<1>0. Flow(p, got[p]) /\ got[p] \in Seq(Either)
  BY DEF Captured, CommandTypes, Either
<1>1. CASE Programs
  <2>1. Flow(p, got[p]) => wrote'[p] = (got[p] \o reader'[p].chunk) \o pipe'[p] BY <1>0, <1>1, FlowWritten DEF Flow
  <2> QED BY <1>0, <1>1, <2>1, ProgramsLeave DEF Flow
<1>2. CASE Handler \/ HangUp BY <1>0, <1>2, HandlerLeaves DEF Flow
<1>3. ASSUME NEW x \in Pipes, Reader(x), x # p PROVE Flow(p, got[p])'
  BY <1>0, <1>3, ReaderLeaves DEF Flow
<1>4. ASSUME Reader(p) PROVE Flow(p, got[p])'
  <2>0. reader[p].at \in {"read", "push"} /\ wrote' = wrote
    <3>1. reader[p].at # "done" /\ wrote' = wrote BY <1>4, ReaderLeaves
    <3> QED BY <3>1 DEF PipesClosed
  <2>1. ASSUME Read(p) PROVE Flow(p, got[p])'
    <3>1. wrote'[p] = (got[p] \o reader'[p].chunk) \o pipe'[p] BY <1>0, <2>1, FlowRead, ReadDoes DEF Flow, PipesClosed
    <3>2. got' = got BY <2>1, ReadDoes
    <3> QED BY <3>1, <3>2 DEF Flow
  <2>2. ASSUME PushCapture(p) PROVE Flow(p, got[p])'
    <3>1. got'[p] = got[p] \o reader[p].chunk /\ pipe' = pipe BY <2>2 DEF PushCapture, CommandTypes
    <3>2. reader'[p].chunk = <<>> BY <2>2, ReaderToDoes DEF PushCapture
    <3> QED BY <1>0, <2>0, <3>1, <3>2, FlowPushed DEF Flow
  <2>3. ASSUME Abort(p) PROVE Flow(p, got[p])'
    <3>1. got' = got /\ pipe' = pipe BY <2>3 DEF Abort, output
    <3>2. reader'[p].chunk = <<>> /\ reader[p].chunk = <<>> BY <2>3, ReaderToDoes DEF Abort, PipesClosed
    <3> QED BY <1>0, <2>0, <3>1, <3>2 DEF Flow
  <2> QED BY <1>4, <2>0, <2>1, <2>2, <2>3 DEF Reader, ReadCapped, Push, End, Take, Note
<1> QED BY <1>1, <1>2, <1>3, <1>4 DEF Next, Readers

(* git: past its cap nothing more is kept, and up to it everything is.       *)
LEMMA GitKeptStay ==
  ASSUME CommandTypes, PhasesAgree, PipesClosed, GitKept, Next
  PROVE  GitKept'
<1> DEFINE Whole(p) == Flow(p, got[p]) /\ (reader[p].at = "done" => stopped \/ pipe[p] = <<>>)
           Full(p) == Len(got[p]) = GitCap /\ Begins(got[p], wrote[p])
<1> SUFFICES ASSUME kind = "git", kind' = "git", NEW p \in Pipes
             PROVE  Len(got'[p]) <= GitCap /\ (Whole(p)' \/ Full(p)')
  <2>1. kind' = kind BY ReaderLeaves, ProgramsLeave, HandlerLeaves DEF Next, Readers
  <2> QED BY <2>1 DEF GitKept
<1>0. Len(got[p]) <= GitCap /\ (Whole(p) \/ Full(p)) /\ got[p] \in Seq(Either) /\ wrote[p] \in Seq(Byte) /\ wrote[p] \in Seq(Either)
  BY Joining DEF GitKept, CommandTypes, Either
<1>1. CASE Programs
  <2>0. got' = got /\ reader' = reader /\ stopped' = stopped BY <1>1, ProgramsLeave
  <2>1. CASE Whole(p)
    <3>1. wrote'[p] = (got[p] \o reader'[p].chunk) \o pipe'[p] BY <1>0, <1>1, <2>1, FlowWritten DEF Flow
    <3>2. reader[p].at = "done" => pipe'[p] = pipe[p] BY <1>1, ProgramsLeave
    <3> QED BY <1>0, <2>0, <2>1, <3>1, <3>2 DEF Flow
  <2>2. CASE Full(p)
    <3>1. Begins(got[p], wrote'[p])
      <4>1. CASE wrote'[p] = wrote[p] BY <2>2, <4>1
      <4>2. CASE \E b \in Byte : wrote'[p] = Append(wrote[p], b)
        <5>1. PICK b \in Byte : wrote'[p] = Append(wrote[p], b) BY <4>2
        <5>2. b \in Either /\ Append(wrote[p], b) = wrote[p] \o <<b>> BY <1>0, AppendIsConcat DEF Either
        <5>3. <<b>> \in Seq(Either) BY <5>2
        <5> QED BY <1>0, <2>2, <5>1, <5>2, <5>3, BeginsFacts
      <4> QED BY <1>1, <4>1, <4>2, ProgramsLeave
    <3> QED BY <1>0, <2>0, <2>2, <3>1
  <2> QED BY <1>0, <2>1, <2>2
<1>2. CASE Handler \/ HangUp
  <2>1. UNCHANGED <<got, wrote, pipe, reader>> BY <1>2, HandlerLeaves
  <2>2. stopped => stopped' BY <1>2, StoppedStays
  <2> QED BY <1>0, <2>1, <2>2 DEF Flow
<1>3. ASSUME NEW x \in Pipes, Reader(x), x # p PROVE Len(got'[p]) <= GitCap /\ (Whole(p)' \/ Full(p)')
  BY <1>0, <1>3, ReaderLeaves DEF Flow
<1>4. ASSUME Reader(p) PROVE Len(got'[p]) <= GitCap /\ (Whole(p)' \/ Full(p)')
  <2>0. reader[p].at \in {"read", "push"} /\ wrote' = wrote /\ stopped' = stopped
    <3>1. reader[p].at # "done" /\ wrote' = wrote /\ stopped' = stopped BY <1>4, ReaderLeaves
    <3> QED BY <3>1 DEF PipesClosed
  <2>1. ASSUME Read(p) PROVE Len(got'[p]) <= GitCap /\ (Whole(p)' \/ Full(p)')
    <3>1. got' = got BY <2>1, ReadDoes
    <3>2. Whole(p) => wrote'[p] = (got[p] \o reader'[p].chunk) \o pipe'[p]
      BY <1>0, <2>1, FlowRead, ReadDoes DEF Flow, PipesClosed
    <3>3. reader'[p].at = "done" => pipe'[p] = <<>> BY <2>1, ReadDoes
    <3> QED BY <1>0, <2>0, <3>1, <3>2, <3>3 DEF Flow
  <2>2. ASSUME Abort(p) PROVE Len(got'[p]) <= GitCap /\ (Whole(p)' \/ Full(p)')
    <3>1. got' = got /\ pipe' = pipe /\ stopped BY <2>2 DEF Abort, output
    <3>2. reader'[p].chunk = <<>> /\ reader[p].chunk = <<>> BY <2>2, ReaderToDoes DEF Abort, PipesClosed
    <3> QED BY <1>0, <2>0, <3>1, <3>2 DEF Flow
  <2>3. ASSUME ReadCapped(p) PROVE Len(got'[p]) <= GitCap /\ (Whole(p)' \/ Full(p)')
    <3> DEFINE chunk == reader[p].chunk
               n     == Len(chunk)
               free  == GitCap - Len(got[p])
               kept  == SubSeq(chunk, 1, IF n < free THEN n ELSE free)
    <3>0. /\ chunk \in Seq(Byte) /\ n \in Nat /\ Len(got[p]) \in Nat /\ GitCap \in Nat /\ free \in Nat
      BY <1>0, LenProperties, CommandsAssumption DEF CommandTypes, Tasking
    <3>1. got'[p] = got[p] \o kept /\ pipe' = pipe BY <2>3 DEF ReadCapped, CommandTypes
    <3>2. reader'[p].chunk = <<>> /\ (reader'[p].at = "done" => n > free)
      <4>1. CASE n > free /\ p = "stdout" BY <2>3, <4>1, ReaderToDoes DEF ReadCapped
      <4>2. CASE ~(n > free /\ p = "stdout") BY <2>3, <4>2, ReaderToDoes DEF ReadCapped
      <4> QED BY <4>1, <4>2
    <3> HIDE DEF chunk
    <3>3. kept \in Seq(Byte) /\ Len(kept) = (IF n < free THEN n ELSE free) BY <3>0
    <3>4. Len(got[p] \o kept) = Len(got[p]) + Len(kept)
      <4> HIDE DEF kept
      <4>1. kept \in Seq(Either) BY <3>3, Joining
      <4> QED BY <1>0, <4>1, ConcatProperties
    <3>5. Len(got'[p]) = Len(got[p]) + (IF n < free THEN n ELSE free)
      <4> HIDE DEF kept
      <4> QED BY <3>1, <3>3, <3>4
    <3> DEFINE held == Len(got[p])
    <3>9. Len(got'[p]) <= GitCap /\ (n > free => Len(got'[p]) = GitCap)
      <4>1. free = GitCap - held /\ held \in Nat /\ free \in Nat /\ n \in Nat /\ GitCap \in Nat BY <3>0
      <4>2. Len(got'[p]) = held + (IF n < free THEN n ELSE free) BY <3>5
      <4> HIDE DEF held, free, n
      <4> QED BY <4>1, <4>2
    <3>6. CASE Whole(p) /\ n <= free
      <4>1. kept = chunk
        <5>1. (IF n < free THEN n ELSE free) = n BY <3>0, <3>6
        <5> QED BY <3>0, <5>1, SubSeqFull
      <4>2. wrote'[p] = ((got[p] \o chunk) \o reader'[p].chunk) \o pipe'[p]
        BY <1>0, <2>0, <3>1, <3>2, <3>6, FlowPushed DEF chunk
      <4>3. reader'[p].at # "done" BY <3>0, <3>2, <3>6
      <4> QED BY <3>1, <3>9, <4>1, <4>2, <4>3 DEF Flow
    <3>7. CASE Whole(p) /\ n > free
      <4>1. Len(got'[p]) = GitCap BY <3>7, <3>9
      <4> DEFINE rest == SubSeq(chunk, free + 1, n)
      <4>2. chunk = kept \o rest /\ rest \in Seq(Byte)
        <5>1. 1 \in 1 .. Len(chunk) + 1 /\ free \in (1 - 1) .. Len(chunk) /\ n \in free .. Len(chunk) BY <3>0, <3>7
        <5>2. SubSeq(chunk, 1, free) \o SubSeq(chunk, free + 1, n) = SubSeq(chunk, 1, n) BY <3>0, <5>1, ConcatAdjacentSubSeq
        <5>3. kept = SubSeq(chunk, 1, free) BY <3>0, <3>7
        <5>4. SubSeq(chunk, 1, n) = chunk BY <3>0, SubSeqFull
        <5>5. rest \in Seq(Byte) BY <3>0
        <5> QED BY <5>2, <5>3, <5>4, <5>5
      <4> HIDE DEF kept, rest
      <4>3. kept \in Seq(Either) /\ rest \in Seq(Either) /\ pipe[p] \in Seq(Either) /\ chunk \in Seq(Either)
        BY <3>0, <3>3, <4>2, Joining DEF CommandTypes
      <4>4. wrote[p] = (got[p] \o chunk) \o pipe[p] BY <3>7 DEF Flow, chunk
      <4>5. got[p] \o chunk = (got[p] \o kept) \o rest /\ got[p] \o kept \in Seq(Either) /\ got[p] \o chunk \in Seq(Either)
        <5>1. \A s, t, u \in Seq(Either) : (s \o t) \o u = s \o (t \o u) BY Joining
        <5>2. (got[p] \o kept) \o rest = got[p] \o (kept \o rest)
          <6>1. PICK x \in Seq(Either) : x = got[p] BY <1>0
          <6>2. PICK y \in Seq(Either) : y = kept BY <4>3
          <6>3. PICK z \in Seq(Either) : z = rest BY <4>3
          <6>4. (x \o y) \o z = x \o (y \o z) BY <5>1, Zenon
          <6> QED BY <6>1, <6>2, <6>3, <6>4, Zenon
        <5>3. \A s, t \in Seq(Either) : s \o t \in Seq(Either) BY Joining
        <5> QED BY <1>0, <4>2, <4>3, <5>2, <5>3
      <4>6. Begins(got'[p], wrote[p])
        <5>1. Begins(got'[p], got[p] \o chunk) BY <3>1, <4>3, <4>5, BeginsFacts
        <5>2. got'[p] \in Seq(Either) BY <3>1, <4>5
        <5> QED BY <4>3, <4>4, <4>5, <5>1, <5>2, BeginsFacts
      <4> QED BY <2>0, <3>9, <4>1, <4>6
    <3>8. CASE Full(p)
      <4>1. kept = <<>> BY <3>0, <3>8
      <4>2. got'[p] = got[p] BY <1>0, <3>1, <4>1, Joining
      <4> QED BY <2>0, <3>9, <3>8, <4>2
    <3> QED BY <1>0, <3>0, <3>6, <3>7, <3>8
  <2> QED BY <1>4, <2>0, <2>1, <2>2, <2>3 DEF Reader, PushCapture, Push, End, Take, Note
<1> QED BY <1>1, <1>2, <1>3, <1>4 DEF Next, Readers

(* A budget that is spent stays spent, and a client that was told was told.  *)
LEMMA SpentStays ==
  ASSUME CommandTypes, Next
  PROVE  (budget = 0 => budget' = 0) /\ (noted => noted')
<1>1. CASE Programs BY <1>1, ProgramsLeave
<1>2. CASE Handler \/ HangUp BY <1>2, HandlerLeaves
<1>3. ASSUME NEW x \in Pipes, Reader(x) PROVE (budget = 0 => budget' = 0) /\ (noted => noted')
  <2>1. ASSUME Take(x) PROVE (budget = 0 => budget' = 0) /\ (noted => noted')
    <3> DEFINE wanted == Width(reader[x].text)
    <3>1. wanted \in Nat /\ budget \in Nat
      <4>1. reader[x].text \in Seq(Char) BY DEF CommandTypes, Tasking
      <4> QED BY <4>1, WidthConcat DEF CommandTypes
    <3>2. budget' = budget - (IF budget < wanted THEN budget ELSE wanted) BY <2>1, TakeDoes
    <3>3. noted' = noted BY <2>1, TakeDoes
    <3>4. ASSUME budget = 0 PROVE budget' = 0
      <4> DEFINE granted == IF budget < wanted THEN budget ELSE wanted
      <4>1. granted = 0
        <5> HIDE DEF wanted
        <5> QED BY <3>1, <3>4
      <4>2. budget' = budget - granted BY <3>2
      <4> HIDE DEF granted
      <4> QED BY <3>4, <4>1, <4>2
    <3>5. noted => noted' BY <3>3, Zenon
    <3> QED BY <3>4, <3>5
  <2>2. ASSUME Note(x) PROVE (budget = 0 => budget' = 0) /\ (noted => noted') BY <2>2 DEF Note
  <2>3. ASSUME Read(x) \/ PushCapture(x) \/ ReadCapped(x) \/ Push(x) \/ End(x) \/ Abort(x)
        PROVE  (budget = 0 => budget' = 0) /\ (noted => noted')
    <3>1. UNCHANGED <<budget, noted>> BY <2>3 DEF Read, PushCapture, ReadCapped, Push, End, Abort, output
    <3> QED BY <3>1
  <2> QED BY <1>3, <2>1, <2>2, <2>3 DEF Reader
<1> QED BY <1>1, <1>2, <1>3 DEF Next, Readers

(* A reader is in step while others step ...                                 *)
LEMMA InStepStays ==
  ASSUME CommandTypes, Next, NEW p \in Pipes, NEW t, NEW h, InStep(p, t, h),
         reader'[p] = reader[p], got'[p] = got[p], reader[p].at = "done" => pipe'[p] = pipe[p], stopped => stopped'
  PROVE  InStep(p, t, h)'
  BY SpentStays DEF InStep

(* ... and after a push, with what the chunk makes.                          *)
LEMMA InStepPushed ==
  ASSUME CommandTypes, NEW p \in Pipes, NEW t \in Seq(Char), NEW h \in BOOLEAN, InStep(p, t, h), Push(p),
         kind = "stream", NEW e \in Decoded, e = Utf8Decoder(h, reader[p].chunk), NEW u \in Seq(Char), u = t \o e.text
  PROVE  InStep(p, u, e.partial)'
<1>0. /\ reader[p].at = "push" /\ got[p] \in Seq(Either) /\ t \in Seq(Either) /\ e.text \in Seq(Either)
      /\ UNCHANGED <<got, budget, noted>>
  BY Joining DEF Push, CommandTypes, Either, Decoded, output
<1>1. (got[p] = t /\ reader[p].partial = h) \/ (noted /\ budget = 0 /\ Begins(got[p], t))
  BY <1>0 DEF InStep
<1>2. Begins(got[p], u)
  BY <1>0, <1>1, BeginsFacts
<1>3. CASE budget = 0 /\ reader'[p].at = "note"
  BY <1>0, <1>2, <1>3 DEF InStep
<1>4. CASE budget # 0
  <2>1. got[p] = t /\ reader[p].partial = h BY <1>1, <1>4
  <2>2. /\ reader'[p].at = (IF e.text = <<>> THEN "read" ELSE "take")
        /\ reader'[p].text = e.text /\ reader'[p].partial = e.partial
    BY <1>4, <2>1, PushDoes
  <2>3. e.text = <<>> => u = t BY <1>0, Joining
  <2> QED BY <1>0, <2>1, <2>2, <2>3 DEF InStep
<1> QED BY <1>3, <1>4, PushDoes

(* It is after the pipe's end, a grant, the word that no more is shown and   *)
(* the abort.                                                                *)
LEMMA InStepTaken ==
  ASSUME CommandTypes, NEW p \in Pipes, NEW t \in Seq(Char), NEW h \in BOOLEAN, InStep(p, t, h), Take(p), PipesClosed
  PROVE  InStep(p, t, h)'
<1> DEFINE text    == reader[p].text
           wanted  == Width(text)
           granted == IF budget < wanted THEN budget ELSE wanted
           cut     == CutTo(text, granted)
<1>0. text \in Seq(Char) /\ budget \in Nat /\ got[p] \in Seq(Either) /\ t \in Seq(Either) /\ <<"bad">> \in Seq(Either)
  BY Joining DEF CommandTypes, Tasking, Either, Byte, Char
<1>1. wanted \in Nat /\ granted \in Nat
  <2>1. wanted \in Nat BY <1>0, WidthConcat
  <2> HIDE DEF wanted
  <2> QED BY <1>0, <2>1
<1>2. /\ reader[p].at \in {"take", "lastTake"}
      /\ reader'[p].at = (IF granted = wanted THEN IF reader[p].at = "take" THEN "read" ELSE "done"
                          ELSE IF reader[p].at = "take" THEN "note" ELSE "lastNote")
      /\ reader'[p].partial = reader[p].partial
      /\ got'[p] = got[p] \o cut /\ budget' = budget - granted /\ UNCHANGED <<pipe, noted>>
  BY TakeDoes
<1>3. granted = wanted => cut = text
  <2> HIDE DEF granted
  <2> QED BY <1>0, <1>1, CutFits
<1>4. granted # wanted => budget' = 0
  <2>1. budget' = budget - granted BY <1>2
  <2> HIDE DEF wanted
  <2> QED BY <1>0, <1>1, <2>1
<1>5. PICK rest \in Seq(Char) : text = cut \o rest /\ cut \in Seq(Char)
  <2> HIDE DEF granted
  <2> QED BY <1>0, <1>1, CutFits
<1> HIDE DEF cut, granted, wanted
<1>6. cut \in Seq(Either) /\ rest \in Seq(Either) /\ text \in Seq(Either)
  BY <1>0, <1>5, Joining
<1>7. Begins(got'[p], got[p] \o text)
  <2>1. \A x, y, z \in Seq(Either) : (x \o y) \o z = x \o (y \o z) BY Joining
  <2>2. (got[p] \o cut) \o rest = got[p] \o (cut \o rest)
    <3>1. PICK x \in Seq(Either) : x = got[p] BY <1>0
    <3>2. PICK y \in Seq(Either) : y = cut BY <1>6
    <3>3. PICK z \in Seq(Either) : z = rest BY <1>6
    <3>4. (x \o y) \o z = x \o (y \o z) BY <2>1, Zenon
    <3> QED BY <3>1, <3>2, <3>3, <3>4, Zenon
  <2>3. got[p] \o cut \in Seq(Either) BY <1>0, <1>6, Joining
  <2> QED BY <1>2, <1>5, <1>6, <2>2, <2>3, BeginsFacts
<1>8. CASE reader[p].at = "take"
  <2>1. got[p] \o text = t /\ reader[p].partial = h BY <1>8 DEF InStep
  <2>2. CASE granted = wanted BY <1>2, <1>3, <1>8, <2>1, <2>2 DEF InStep
  <2>3. CASE granted # wanted
    <3>1. reader'[p].at = "note" /\ budget' = 0 /\ Begins(got'[p], t) BY <1>2, <1>4, <1>7, <1>8, <2>1, <2>3
    <3> QED BY <3>1 DEF InStep
  <2> QED BY <2>2, <2>3
<1>9. CASE reader[p].at = "lastTake"
  <2>1. got[p] \o text = t \o <<"bad">> /\ h /\ pipe[p] = <<>>
    <3>1. h /\ got[p] = t /\ text = <<"bad">> BY <1>9 DEF InStep
    <3> QED BY <1>9, <3>1 DEF PipesClosed, Ending
  <2>2. CASE granted = wanted
    <3>1. reader'[p].at = "done" /\ got'[p] = t \o <<"bad">> BY <1>2, <1>3, <1>9, <2>1, <2>2
    <3>2. Begins(got'[p], t \o <<"bad">>) BY <1>7, <2>1
    <3>3. pipe'[p] = <<>> BY <1>2, <2>1
    <3> QED BY <2>1, <3>1, <3>2, <3>3 DEF InStep
  <2>3. CASE granted # wanted
    <3>1. reader'[p].at = "lastNote" /\ budget' = 0 /\ Begins(got'[p], t \o <<"bad">>) BY <1>2, <1>4, <1>7, <1>9, <2>1, <2>3
    <3> QED BY <2>1, <3>1 DEF InStep
  <2> QED BY <2>2, <2>3
<1> QED BY <1>2, <1>8, <1>9

(* A step of p's own reader.                                                 *)
LEMMA InStepRead ==
  ASSUME CommandTypes, PipesClosed, kind = "stream", NEW p \in Pipes, Read(p) \/ End(p) \/ Note(p) \/ Abort(p),
         NEW t \in Seq(Char), NEW h \in BOOLEAN, InStep(p, t, h)
  PROVE  InStep(p, t, h)'
<1>0. got[p] \in Seq(Either) /\ t \in Seq(Either) /\ Begins(t, t)
  BY Joining, BeginsFacts DEF CommandTypes, Either
<1>1. CASE Read(p)
  <2>1. reader'[p].at \in {"end", "push"} /\ reader'[p].partial = reader[p].partial /\ UNCHANGED <<got, budget, noted>>
    BY <1>1, ReadDoes
  <2>2. reader[p].at = "read" BY <1>1 DEF Read
  <2> QED BY <2>1, <2>2 DEF InStep
<1>2. CASE End(p)
  <2>0. reader[p].at = "end" /\ UNCHANGED <<got, budget, noted, pipe, stopped>> BY <1>2 DEF End, output
  <2>1. (got[p] = t /\ reader[p].partial = h) \/ (noted /\ budget = 0 /\ Begins(got[p], t)) BY <2>0 DEF InStep
  <2>2. CASE budget > 0 /\ reader[p].partial
    <3>1. reader'[p].at = "lastTake" /\ reader'[p].text = <<"bad">> BY <1>2, <2>2, EndDoes
    <3>2. budget # 0 BY <2>2
    <3>3. got[p] = t /\ reader[p].partial = h BY <2>1, <3>2
    <3>4. h BY <2>2, <3>3, Zenon
    <3> QED BY <2>0, <3>1, <3>3, <3>4 DEF InStep
  <2>3. CASE ~(budget > 0 /\ reader[p].partial)
    <3>1. reader'[p].at = "done" BY <1>2, <2>3, EndDoes
    <3>2. budget = 0 \/ ~reader[p].partial BY <2>3 DEF CommandTypes
    <3>3. Begins(got[p], t) BY <1>0, <2>1
    <3> QED BY <2>0, <2>1, <3>1, <3>2, <3>3 DEF InStep
  <2> QED BY <2>2, <2>3
<1>3. CASE Note(p)
  <2>0. reader[p].at \in {"note", "lastNote"} /\ noted' = TRUE /\ UNCHANGED <<got, budget, pipe, stopped>> BY <1>3 DEF Note
  <2>1. reader'[p].at = IF reader[p].at = "note" THEN "read" ELSE "done" BY <1>3, ReaderToDoes DEF Note
  <2>2. CASE reader[p].at = "note" BY <2>0, <2>1, <2>2 DEF InStep
  <2>3. CASE reader[p].at = "lastNote"
    <3>1. pipe[p] = <<>> BY <2>3 DEF PipesClosed, Ending
    <3> QED BY <2>0, <2>1, <2>3, <3>1 DEF InStep
  <2> QED BY <2>0, <2>2, <2>3
<1>4. CASE Abort(p)
  <2>0. reader[p].at = "read" /\ stopped /\ UNCHANGED <<got, budget, noted, pipe, stopped>> BY <1>4 DEF Abort, output
  <2>1. reader'[p].at = "done" BY <1>4, ReaderToDoes DEF Abort
  <2>2. Begins(got[p], t) BY <1>0, <2>0 DEF InStep
  <2> QED BY <2>0, <2>1, <2>2 DEF InStep
<1> QED BY <1>1, <1>2, <1>3, <1>4

(* The stream: what is shown goes on being in step.                          *)
LEMMA ForwardedStay ==
  ASSUME CommandTypes, PhasesAgree, PipesClosed, Forwarded, Next
  PROVE  Forwarded'
<1> SUFFICES ASSUME kind = "stream", kind' = "stream", NEW p \in Pipes
             PROVE  \E c \in Seq(Byte) : Forwards(p, c)'
  <2>1. kind' = kind BY ReaderLeaves, ProgramsLeave, HandlerLeaves DEF Next, Readers
  <2> QED BY <2>1 DEF Forwarded
<1>0. PICK c \in Seq(Byte) : Forwards(p, c)
  BY DEF Forwarded
<1> DEFINE d == Utf8Decoder(FALSE, c)
           t == d.text
           h == d.partial
<1>1. t \in Seq(Char) /\ h \in BOOLEAN
  BY DecodeTypes DEF Decoded
<1>2. Flow(p, c) /\ InStep(p, t, h) /\ c \in Seq(Either)
  BY <1>0, Joining DEF Forwards
<1>3. ASSUME Flow(p, c)', InStep(p, t, h)' PROVE \E b \in Seq(Byte) : Forwards(p, b)'
  BY <1>3 DEF Forwards
<1> HIDE DEF d, t, h
<1>4. ASSUME \/ Programs \/ Handler \/ HangUp
             \/ \E x \in Pipes : Reader(x) /\ x # p
      PROVE  \E b \in Seq(Byte) : Forwards(p, b)'
  <2>1. reader'[p] = reader[p] /\ got'[p] = got[p] /\ (reader[p].at = "done" => pipe'[p] = pipe[p])
    BY <1>4, ProgramsLeave, HandlerLeaves, ReaderLeaves
  <2>2. stopped => stopped'
    BY <1>4, ProgramsLeave, StoppedStays, ReaderLeaves
  <2>3. InStep(p, t, h)' BY <1>2, <2>1, <2>2, InStepStays
  <2>4. Flow(p, c)'
    <3>1. CASE Programs BY <1>2, <3>1, FlowWritten
    <3>2. CASE Handler \/ HangUp BY <1>2, <3>2, HandlerLeaves DEF Flow
    <3>3. CASE \E x \in Pipes : Reader(x) /\ x # p BY <1>2, <3>3, ReaderLeaves DEF Flow
    <3> QED BY <1>4, <3>1, <3>2, <3>3
  <2> QED BY <1>3, <2>3, <2>4
<1>5. CASE Push(p)
  <2>1. PICK b \in Seq(Byte) : b = c \o reader[p].chunk
    <3>1. reader[p].chunk \in Seq(Byte) BY DEF CommandTypes, Tasking
    <3> QED BY <3>1, Joining
  <2>2. Flow(p, b)'
    <3>1. reader'[p].chunk = <<>> /\ pipe'[p] = pipe[p] /\ wrote'[p] = wrote[p] BY <1>5, PushDoes DEF Push
    <3> QED BY <1>2, <2>1, <3>1, FlowPushed DEF Flow
  <2> DEFINE e == Utf8Decoder(h, reader[p].chunk)
  <2>3. PICK f \in Decoded : f = e
    <3>1. reader[p].chunk \in Seq(Byte) BY DEF CommandTypes, Tasking
    <3> QED BY <1>1, <3>1, DecodeTypes
  <2>4. PICK u \in Seq(Char) : u = t \o f.text
    BY <1>1, ConcatProperties DEF Decoded
  <2>5. Utf8Decoder(FALSE, b).text = u /\ Utf8Decoder(FALSE, b).partial = f.partial
    <3>1. reader[p].chunk \in Seq(Byte) BY DEF CommandTypes, Tasking
    <3> QED BY <2>1, <2>3, <2>4, <3>1, DecodeConcat DEF d, t, h
  <2>6. InStep(p, u, f.partial)' BY <1>1, <1>2, <1>5, <2>3, <2>4, InStepPushed
  <2> QED BY <2>2, <2>5, <2>6 DEF Forwards
<1>6. CASE Take(p)
  <2>1. InStep(p, t, h)' BY <1>1, <1>2, <1>6, InStepTaken
  <2>2. Flow(p, c)'
    <3>1. reader'[p].chunk = <<>> /\ pipe' = pipe /\ wrote' = wrote /\ reader[p].at # "push" BY <1>6, TakeDoes DEF Take
    <3> QED BY <1>2, <3>1 DEF Flow, PipesClosed
  <2> QED BY <1>3, <2>1, <2>2
<1>7. CASE Read(p) \/ End(p) \/ Note(p) \/ Abort(p)
  <2>1. InStep(p, t, h)' BY <1>1, <1>2, <1>7, InStepRead
  <2>2. Flow(p, c)'
    <3>1. CASE Read(p) BY <1>2, <3>1, FlowRead DEF Read, PipesClosed
    <3>2. CASE ~Read(p)
      <4>1. reader'[p].chunk = <<>> BY <1>7, <3>2, EndDoes, ReaderToDoes DEF Note, Abort
      <4>2. pipe' = pipe /\ wrote' = wrote /\ reader[p].at # "push" BY <1>7, <3>2 DEF End, Note, Abort
      <4> QED BY <1>2, <4>1, <4>2 DEF Flow, PipesClosed
    <3> QED BY <3>1, <3>2
  <2> QED BY <1>3, <2>1, <2>2
<1> QED BY <1>4, <1>5, <1>6, <1>7 DEF Next, Readers, Reader, PushCapture, ReadCapped

(* The budget is never overdrawn, and the client is told once.               *)
LEMMA BudgetedStay ==
  ASSUME CommandTypes, PipesClosed, Budgeted, Next
  PROVE  Budgeted'
<1>0. kind' = kind
  BY ReaderLeaves, ProgramsLeave, HandlerLeaves DEF Next, Readers
<1>1. CASE Programs
  <2>1. UNCHANGED <<got, budget, noted, notes>> BY <1>1, ProgramsLeave
  <2> QED BY <1>0, <2>1 DEF Budgeted
<1>2. CASE Handler \/ HangUp
  <2>1. UNCHANGED <<got, budget, noted, notes>> BY <1>2, HandlerLeaves
  <2> QED BY <1>0, <2>1 DEF Budgeted
<1>3. ASSUME NEW p \in Pipes, Reader(p) PROVE Budgeted'
  <2>1. CASE Read(p) \/ Push(p) \/ End(p) \/ Abort(p)
    <3>1. UNCHANGED <<got, budget, noted, notes>> BY <2>1, ReadDoes DEF Push, End, Abort, output
    <3> QED BY <1>0, <3>1 DEF Budgeted
  <2>2. CASE PushCapture(p) \/ ReadCapped(p)
    <3>1. UNCHANGED <<noted, notes>> /\ kind' # "stream" BY <1>0, <2>2 DEF PushCapture, ReadCapped
    <3> QED BY <3>1 DEF Budgeted
  <2>3. CASE Note(p) BY <1>0, <2>3 DEF Note, Budgeted, CommandTypes
  <2>4. CASE Take(p)
    <3> DEFINE text    == reader[p].text
               wanted  == Width(text)
               granted == IF budget < wanted THEN budget ELSE wanted
               cut     == CutTo(text, granted)
    <3>0. kind = "stream" /\ UNCHANGED <<noted, notes>>
      <4>1. reader[p].at \in {"take", "lastTake"} BY <2>4, TakeDoes
      <4> QED BY <2>4, <4>1, TakeDoes DEF PipesClosed
    <3>1. /\ text \in Seq(Char) /\ budget \in Nat /\ StreamCap \in Nat
          /\ \A x \in Pipes : got[x] \in Seq(Char) /\ Width(got[x]) \in Nat
      <4>1. \A x \in Pipes : got[x] \in Seq(Char) BY <3>0 DEF CommandTypes
      <4>2. <<>> \in Seq(Char) BY Joining
      <4>3. text \in Seq(Char) /\ budget \in Nat /\ StreamCap \in Nat BY CommandsAssumption DEF CommandTypes, Tasking
      <4> QED BY <4>1, <4>2, <4>3, WidthConcat
    <3>2. wanted \in Nat /\ granted \in Nat /\ granted <= budget
      <4>1. wanted \in Nat BY <3>1, WidthConcat
      <4> HIDE DEF wanted
      <4> QED BY <3>1, <4>1
    <3>3. got'[p] = got[p] \o cut /\ budget' = budget - granted BY <2>4, TakeDoes
    <3>4. cut \in Seq(Char) /\ Width(cut) <= granted
      <4> HIDE DEF granted
      <4> QED BY <3>1, <3>2, CutFits
    <3> HIDE DEF cut, granted, wanted
    <3>5. Width(cut) \in Nat /\ Width(got'[p]) = Width(got[p]) + Width(cut)
      <4>1. Width(got[p] \o cut) = Width(got[p]) + Width(cut) /\ Width(cut) \in Nat BY <3>1, <3>4, WidthConcat
      <4> QED BY <3>3, <4>1
    <3>6. \A x \in Pipes \ {p} : got'[x] = got[x] BY <1>3, ReaderLeaves
    <3>7. Width(got["stdout"]) + Width(got["stderr"]) + budget <= StreamCap BY <3>0 DEF Budgeted
    <3>8. Width(got'["stdout"]) + Width(got'["stderr"]) + budget' <= StreamCap
      <4> DEFINE w == Width(got[p])
                 v == Width(cut)
      <4>1. w \in Nat /\ v \in Nat /\ v <= granted /\ Width(got'[p]) = w + v BY <3>1, <3>4, <3>5
      <4>2. CASE p = "stdout"
        <5> DEFINE o == Width(got["stderr"])
        <5>1. o \in Nat /\ Width(got'["stderr"]) = o BY <3>1, <3>6, <4>2 DEF Pipes
        <5>2. w + o + budget <= StreamCap BY <3>7, <4>2
        <5> HIDE DEF o, w, v
        <5>3. (w + v) + o + (budget - granted) <= StreamCap BY <3>1, <3>2, <4>1, <5>1, <5>2
        <5> QED BY <3>3, <4>1, <4>2, <5>1, <5>3
      <4>3. CASE p = "stderr"
        <5> DEFINE o == Width(got["stdout"])
        <5>1. o \in Nat /\ Width(got'["stdout"]) = o BY <3>1, <3>6, <4>3 DEF Pipes
        <5>2. o + w + budget <= StreamCap BY <3>7, <4>3
        <5> HIDE DEF o, w, v
        <5>3. o + (w + v) + (budget - granted) <= StreamCap BY <3>1, <3>2, <4>1, <5>1, <5>2
        <5> QED BY <3>3, <4>1, <4>3, <5>1, <5>3
      <4> QED BY <4>2, <4>3 DEF Pipes
    <3> QED BY <1>0, <3>0, <3>8 DEF Budgeted
  <2> QED BY <1>3, <2>1, <2>2, <2>3, <2>4 DEF Reader
<1> QED BY <1>1, <1>2, <1>3 DEF Next, Readers

(* What makes a command safe, and stays true.                                *)

CommandsInv == CommandTypes /\ Left /\ Captured /\ GitKept /\ Forwarded /\ Budgeted

\* What the decoder makes of no bytes.
LEMMA DecodedNothing == Utf8Decoder(FALSE, <<>>).text = <<>> /\ Utf8Decoder(FALSE, <<>>).partial = FALSE
<1> DEFINE d == Utf8Decoder(FALSE, <<>>)
<1>1. d = [text |-> <<>>, partial |-> FALSE]
  BY DecodeNothing, Zenon
<1> HIDE DEF d
<1>2. d.text = <<>> /\ d.partial = FALSE
  BY <1>1
<1> QED BY <1>2 DEF d

(* It is true at the start ...                                               *)
LEMMA CommandsInvAtFirst == Init => CommandsInv
<1> SUFFICES ASSUME Init PROVE CommandsInv
  OBVIOUS
<1>0. /\ <<>> \in Seq(Byte) /\ <<>> \in Seq(Char) /\ <<>> \in Seq(Byte \cup Char) /\ <<>> \in Seq(Either) /\ Len(<<>>) = 0
      /\ <<>> \o <<>> = <<>>
  BY DEF Either
<1>1. /\ pipe = [p \in Pipes |-> <<>>] /\ wrote = [p \in Pipes |-> <<>>] /\ got = [p \in Pipes |-> <<>>]
      /\ \A p \in Pipes : /\ pipe[p] = <<>> /\ wrote[p] = <<>> /\ got[p] = <<>>
                          /\ reader[p].at = "read" /\ reader[p].chunk = <<>> /\ reader[p].partial = FALSE
  BY DEF Init, Idle
<1>2. CommandTypes
  <2>1. Idle \in Tasking BY <1>0 DEF Idle, Tasking, Places
  <2>2. Unborn \in Process BY DEF Unborn, Process
  <2>3. left \in [fork: Nat, byte: Nat] BY CommandsAssumption DEF Init
  <2>4. reader \in [Pipes -> Tasking] /\ proc \in [Procs -> Process] BY <2>1, <2>2 DEF Init
  <2>5. /\ pipe \in [Pipes -> Seq(Byte)] /\ wrote \in [Pipes -> Seq(Byte)] /\ got \in [Pipes -> Seq(Byte \cup Char)]
        /\ \A p \in Pipes : Len(pipe[p]) <= PipeSize /\ got[p] \in Seq(Char)
    BY <1>0, <1>1, CommandsAssumption
  <2> QED BY <2>3, <2>4, <2>5, CommandsAssumption DEF Init, CommandTypes
<1>3. \A p \in Pipes : Flow(p, got[p]) /\ Flow(p, <<>>)
  BY <1>0, <1>1 DEF Flow
<1>4. GitKept
  <2>0. \A p \in Pipes : Len(got[p]) = 0 BY <1>0, <1>1, Zenon
  <2>1. \A p \in Pipes : Len(got[p]) <= GitCap BY <2>0, CommandsAssumption
  <2> QED BY <1>1, <1>3, <2>1 DEF GitKept
<1>5. Forwarded
  <2>1. Utf8Decoder(FALSE, <<>>).text = <<>> /\ Utf8Decoder(FALSE, <<>>).partial = FALSE BY DecodedNothing
  <2>2. \A p \in Pipes : InStep(p, <<>>, FALSE) BY <1>1 DEF InStep
  <2> QED BY <1>0, <1>3, <2>1, <2>2 DEF Forwarded, Forwards
<1>6. Budgeted
  <2>1. Width(got["stdout"]) = 0 /\ Width(got["stderr"]) = 0 BY <1>1, WidthNothing DEF Pipes
  <2>2. budget = StreamCap /\ StreamCap \in Nat /\ notes = 0 /\ noted = FALSE BY CommandsAssumption DEF Init
  <2> QED BY <2>1, <2>2 DEF Budgeted
<1> QED BY <1>2, <1>3, <1>4, <1>5, <1>6, LeftAtFirst DEF CommandsInv, Captured

(* ... and after every step.                                                 *)
LEMMA CommandsInvStays == CommandsInv /\ [Next]_vars => CommandsInv'
<1> SUFFICES ASSUME CommandsInv, [Next]_vars PROVE CommandsInv'
  OBVIOUS
<1>1. CASE Next
  <2>1. CommandTypes'
    <3>1. ~Alive(Shell) \/ phase # "drain" BY DEF CommandsInv, Left, PhasesAgree
    <3> QED BY <1>1, <3>1, ProgramsTyped, ReaderTyped, HandlerTyped DEF Next, Readers, CommandsInv
  <2>2. Left'
    <3>1. PhasesAgree' BY <1>1, PhasesStay, PhasesMove DEF Next, Readers, CommandsInv, Left
    <3> QED BY <1>1, <3>1, ClosedStay, NobodyReadsStay DEF CommandsInv, Left
  <2> QED BY <1>1, <2>1, <2>2, CapturedStay, GitKeptStay, ForwardedStay, BudgetedStay DEF CommandsInv, Left
<1>2. CASE UNCHANGED vars
  <2> USE <1>2 DEF vars, control, output
  <2>1. CommandTypes' BY DEF CommandsInv, CommandTypes
  <2>2. Left' BY DEF CommandsInv, Left, PhasesAgree, PipesClosed, NobodyReads, Alive, Group, Holders
  <2>3. Captured' BY DEF CommandsInv, Captured, Flow
  <2>4. GitKept' BY DEF CommandsInv, GitKept, Flow
  <2>5. Forwarded'
    <3>1. ASSUME NEW p \in Pipes, NEW t, NEW h, InStep(p, t, h) PROVE InStep(p, t, h)' BY <3>1 DEF InStep
    <3>2. ASSUME NEW p \in Pipes, NEW c \in Seq(Byte), Forwards(p, c) PROVE Forwards(p, c)'
      <4> DEFINE t == Utf8Decoder(FALSE, c).text
                 h == Utf8Decoder(FALSE, c).partial
      <4>1. Flow(p, c)' BY <3>2 DEF Forwards, Flow
      <4>2. InStep(p, t, h) BY <3>2, Zenon DEF Forwards
      <4>3. InStep(p, t, h)'
        <5> HIDE DEF t, h
        <5> QED BY <3>1, <4>2
      <4> QED BY <4>1, <4>3, Zenon DEF Forwards
    <3>3. kind' = kind BY DEF CommandsInv
    <3> QED BY <3>2, <3>3 DEF CommandsInv, Forwarded
  <2>6. Budgeted' BY DEF CommandsInv, Budgeted
  <2> QED BY <2>1, <2>2, <2>3, <2>4, <2>5, <2>6 DEF CommandsInv
<1> QED BY <1>1, <1>2

(* What the decoder makes of a beginning is a beginning of what it makes.    *)
LEMMA DecodeBegins ==
  ASSUME NEW s \in Seq(Byte), NEW t \in Seq(Byte)
  PROVE  Begins(Utf8Decoder(FALSE, s).text, Utf8Decoder(FALSE, s \o t).text)
<1> DEFINE d == Utf8Decoder(FALSE, s)
           e == Utf8Decoder(d.partial, t)
<1>1. d \in Decoded /\ d.text \in Seq(Char) /\ d.partial \in BOOLEAN
  BY DecodeTypes DEF Decoded
<1>2. Utf8Decoder(FALSE, s \o t).text = d.text \o e.text
  BY DecodeConcat
<1>3. e.text \in Seq(Char)
  <2> HIDE DEF d
  <2> QED BY <1>1, DecodeTypes DEF Decoded
<1>4. d.text \in Seq(Either) /\ e.text \in Seq(Either)
  BY <1>1, <1>3, Joining
<1> QED BY <1>2, <1>4, BeginsFacts

(* What is shown of a pipe is a beginning of what was written to it.         *)
LEMMA ShownBegins ==
  ASSUME CommandsInv, NEW p \in Pipes
  PROVE  Begins(got[p], Shown(p)) /\ got[p] \in Seq(Either) /\ Shown(p) \in Seq(Either)
<1>0. /\ got[p] \in Seq(Either) /\ wrote[p] \in Seq(Byte) /\ wrote[p] \in Seq(Either) /\ pipe[p] \in Seq(Byte) /\ pipe[p] \in Seq(Either)
      /\ reader[p].chunk \in Seq(Byte) /\ reader[p].chunk \in Seq(Either)
  BY Joining DEF CommandsInv, CommandTypes, Tasking, Either
<1>1. CASE kind # "stream"
  <2>1. Shown(p) = wrote[p] BY <1>1 DEF Shown
  <2>2. CASE Flow(p, got[p])
    <3>1. Begins(got[p], got[p] \o reader[p].chunk) /\ got[p] \o reader[p].chunk \in Seq(Either) BY <1>0, BeginsFacts, Joining
    <3>2. Begins(got[p], (got[p] \o reader[p].chunk) \o pipe[p]) BY <1>0, <3>1, BeginsFacts
    <3> QED BY <1>0, <2>1, <2>2, <3>2 DEF Flow
  <2>3. Flow(p, got[p]) \/ Begins(got[p], wrote[p])
    BY <1>1, CommandsAssumption DEF CommandsInv, CommandTypes, Captured, GitKept
  <2> QED BY <1>0, <2>1, <2>2, <2>3
<1>2. CASE kind = "stream"
  <2>1. PICK c \in Seq(Byte) : Forwards(p, c) BY <1>2 DEF CommandsInv, Forwarded
  <2> DEFINE d    == Utf8Decoder(FALSE, c)
             whole == Utf8Decoder(FALSE, wrote[p])
             half == whole.partial /\ reader[p].at \in {"lastTake", "lastNote", "done"}
             tail == IF half THEN <<"bad">> ELSE <<>>
  <2>2. d.text \in Seq(Char) /\ d.text \in Seq(Either) /\ d.partial \in BOOLEAN BY DecodeTypes, Joining DEF Decoded
  <2>3. whole.text \in Seq(Either)
    <3>1. whole \in Decoded BY <1>0, DecodeTypes
    <3> QED BY <3>1, Joining DEF Decoded
  <2>4. Shown(p) = whole.text \o tail BY <1>2 DEF Shown
  <2>5. Begins(d.text, whole.text)
    <3> DEFINE x == reader[p].chunk
               y == pipe[p]
    <3>1. x \in Seq(Byte) /\ y \in Seq(Byte) /\ x \in Seq(Either) /\ y \in Seq(Either) /\ c \in Seq(Either) BY <1>0, Joining
    <3>2. wrote[p] = (c \o x) \o y BY <2>1 DEF Forwards, Flow
    <3> HIDE DEF x, y
    <3>3. \A r, s, t \in Seq(Either) : (r \o s) \o t = r \o (s \o t) BY Joining
    <3>4. (c \o x) \o y = c \o (x \o y) BY <3>1, <3>3, Zenon
    <3>5. x \o y \in Seq(Byte) BY <3>1, Joining
    <3>6. Begins(Utf8Decoder(FALSE, c).text, Utf8Decoder(FALSE, c \o (x \o y)).text) BY <3>5, DecodeBegins
    <3>7. wrote[p] = c \o (x \o y) BY <3>2, <3>4
    <3> QED BY <3>6, <3>7, Zenon
  <2>6. InStep(p, d.text, d.partial) BY <2>1, Zenon DEF Forwards
  <2>7. tail \in Seq(Either) /\ <<"bad">> \in Seq(Either)
    <3>1. <<"bad">> \in Seq(Either) /\ <<>> \in Seq(Either) BY DEF Either, Char
    <3> HIDE DEF half
    <3> QED BY <3>1
  <2>8. CASE Begins(got[p], d.text)
    <3>1. PICK u \in Seq(Either) : whole.text = d.text \o u BY <2>5 DEF Begins
    <3> HIDE DEF d, whole, tail
    <3>2. Begins(got[p], whole.text) BY <1>0, <2>2, <2>8, <3>1, BeginsFacts
    <3>3. Begins(got[p], whole.text \o tail) BY <1>0, <2>3, <2>7, <3>2, BeginsFacts
    <3>4. whole.text \o tail \in Seq(Either) BY <2>3, <2>7, Joining
    <3> QED BY <1>0, <2>4, <3>3, <3>4
  <2>9. CASE /\ Begins(got[p], d.text \o <<"bad">>) /\ d.partial /\ pipe[p] = <<>> /\ reader[p].chunk = <<>>
             /\ reader[p].at \in {"lastNote", "done"}
    <3>1. wrote[p] = c
      <4>1. wrote[p] = (c \o <<>>) \o <<>> BY <2>1, <2>9 DEF Forwards, Flow
      <4>2. c \in Seq(Either) BY Joining
      <4> QED BY <4>1, <4>2, Joining
    <3>2. Shown(p) = d.text \o <<"bad">> BY <2>4, <2>9, <3>1
    <3> HIDE DEF d
    <3> QED BY <1>0, <2>2, <2>7, <2>9, <3>2, Joining
  <2>10. Begins(got[p], d.text) \/ /\ Begins(got[p], d.text \o <<"bad">>) /\ d.partial /\ pipe[p] = <<>> /\ reader[p].chunk = <<>>
                                   /\ reader[p].at \in {"lastNote", "done"}
    <3> HIDE DEF d
    <3>1. got[p] = d.text => Begins(got[p], d.text) BY <1>0, BeginsFacts
    <3>2. reader[p].text \in Seq(Either) /\ (got[p] \o reader[p].text = d.text => Begins(got[p], d.text))
      <4>1. reader[p].text \in Seq(Either) BY Joining DEF CommandsInv, CommandTypes, Tasking
      <4> QED BY <1>0, <4>1, BeginsFacts
    <3>3. reader[p].at \in Places BY DEF CommandsInv, CommandTypes, Tasking
    <3>4. reader[p].at # "push" => reader[p].chunk = <<>> BY DEF CommandsInv, Left, PipesClosed
    <3>5. reader[p].at = "lastNote" => pipe[p] = <<>> BY DEF CommandsInv, Left, PipesClosed, Ending
    <3> QED BY <2>6, <3>1, <3>2, <3>3, <3>4, <3>5 DEF InStep, Places
  <2> HIDE DEF d
  <2> QED BY <2>8, <2>9, <2>10
<1> QED BY <1>1, <1>2

(* All of it, when the call is over and the client was told nothing.         *)
LEMMA ShownWhole ==
  ASSUME CommandsInv, NEW p \in Pipes, phase = "returned", ~stopped, notes = 0
  PROVE  Complete(p)
<1>0. got[p] \in Seq(Either) /\ wrote[p] \in Seq(Either) /\ ~noted
  <2>1. got[p] \in Seq(Either) /\ wrote[p] \in Seq(Either) BY Joining DEF CommandsInv, CommandTypes, Either
  <2>2. notes # 1 /\ (noted <=> notes = 1) BY DEF CommandsInv, Budgeted
  <2>3. ~noted BY <2>2, Zenon
  <2> QED BY <2>1, <2>3
<1>1. CASE wrote[p] = <<>>
  <2>1. Utf8Decoder(FALSE, wrote[p]).text = <<>> /\ ~Utf8Decoder(FALSE, wrote[p]).partial BY <1>1, DecodedNothing
  <2>2. <<>> \o <<>> = <<>> BY Joining
  <2>3. Shown(p) = <<>> BY <1>1, <2>1, <2>2 DEF Shown
  <2>4. got[p] = <<>>
    <3>1. Begins(got[p], <<>>) BY <2>3, ShownBegins
    <3> QED BY <1>0, <3>1, BeginsFacts
  <2> QED BY <2>3, <2>4 DEF Complete
<1>2. CASE reader[p].at = "done"
  <2>0. reader[p].chunk = <<>> /\ (kind # "git" => pipe[p] = <<>>) BY <1>2 DEF CommandsInv, Left, PipesClosed
  <2>1. ASSUME NEW c \in Seq(Either), Flow(p, c), pipe[p] = <<>> PROVE wrote[p] = c
    <3>1. wrote[p] = (c \o <<>>) \o <<>> BY <2>0, <2>1 DEF Flow
    <3> QED BY <3>1, Joining
  <2>2. CASE kind # "stream"
    <3>1. (Len(got[p]) = GitCap /\ kind = "git") \/ (Flow(p, got[p]) /\ pipe[p] = <<>>)
      <4>1. CASE kind = "exec" BY <2>0, <4>1 DEF CommandsInv, Captured
      <4>2. CASE kind = "git" BY <1>2, <4>2 DEF CommandsInv, GitKept
      <4> QED BY <2>2, <4>1, <4>2, CommandsAssumption DEF CommandsInv, CommandTypes
    <3> QED BY <1>0, <2>1, <2>2, <3>1 DEF Complete, Shown
  <2>3. CASE kind = "stream"
    <3>1. PICK c \in Seq(Byte) : Forwards(p, c) BY <2>3 DEF CommandsInv, Forwarded
    <3>2. wrote[p] = c
      <4>1. c \in Seq(Either) BY Joining
      <4> QED BY <2>0, <2>1, <2>3, <3>1, <4>1 DEF Forwards
    <3> DEFINE t == Utf8Decoder(FALSE, c).text
               h == Utf8Decoder(FALSE, c).partial
    <3>3. t \in Seq(Char) /\ t \in Seq(Either) /\ h \in BOOLEAN BY DecodeTypes, Joining DEF Decoded
    <3>4. Shown(p) = t \o (IF h THEN <<"bad">> ELSE <<>>) BY <1>2, <2>3, <3>2 DEF Shown
    <3>5. InStep(p, t, h) BY <3>1 DEF Forwards
    <3>6. got[p] = t => Complete(p) \/ (budget # 0 /\ h)
      <4>1. CASE budget = 0 BY <2>3, <3>2, <4>1 DEF Complete
      <4>2. CASE ~h
        <5>1. Shown(p) = t \o <<>> BY <3>4, <4>2
        <5> HIDE DEF t
        <5>2. t \o <<>> = t BY <3>3, Joining
        <5> QED BY <5>1, <5>2 DEF Complete
      <4> HIDE DEF t, h
      <4> QED BY <4>1, <4>2
    <3>7. got[p] = t \o <<"bad">> /\ h => Complete(p) BY <3>4 DEF Complete
    <3> HIDE DEF t, h
    <3> QED BY <1>0, <1>2, <3>5, <3>6, <3>7 DEF InStep
  <2> QED BY <2>2, <2>3
<1>3. reader[p].at = "done" \/ wrote[p] = <<>>
  BY DEF CommandsInv, Left, NobodyReads
<1> QED BY <1>1, <1>2, <1>3

(* So a state in which it is true is a safe one.                             *)
LEMMA CommandsInvIsSafe == CommandsInv => CommandsSafe
<1> SUFFICES ASSUME CommandsInv PROVE CommandsSafe
  OBVIOUS
<1>1. TypeOK
  <2>1. \A p \in Pipes : /\ reader[p].at \in Places /\ reader[p].chunk \in Seq(Byte) /\ reader[p].text \in Seq(Char)
                         /\ reader[p].partial \in BOOLEAN
    BY DEF CommandsInv, CommandTypes, Tasking
  <2> QED BY <2>1 DEF TypeOK, CommandsInv, CommandTypes, Places, Process
<1>2. NothingLeftBehind
  <2> SUFFICES ASSUME phase = "returned"
               PROVE  /\ ~Alive(Shell)
                      /\ timedOut \/ stopped \/ (~open /\ kind # "stream") => Group = {}
                      /\ kind # "git" => \A q \in Group : proc[q].holds = {}
    BY DEF NothingLeftBehind
  <2>1. ~Alive(Shell) /\ (timedOut \/ stopped \/ (~open /\ kind # "stream") => Group = {})
    BY DEF CommandsInv, Left, PhasesAgree
  <2>2. ASSUME kind # "git", NEW q \in Group PROVE proc[q].holds = {}
    <3>1. Alive(q) /\ q \in Procs /\ ~stopped BY <2>1, <2>2 DEF Group
    <3>2. \A p \in Pipes : reader[p].at = "done" BY <3>1 DEF CommandsInv, Left, NobodyReads
    <3>3. \A p \in Pipes : Holders(p) = {} BY <2>2, <3>1, <3>2 DEF CommandsInv, Left, PipesClosed
    <3>4. proc[q].holds \subseteq Pipes BY <3>1 DEF CommandsInv, CommandTypes, Process
    <3> QED BY <3>1, <3>3, <3>4 DEF Holders
  <2> QED BY <2>1, <2>2
<1>3. OutputIsHonest
  <2>1. \A p \in Pipes : IsPrefix(got[p], Shown(p)) BY ShownBegins, BeginsFacts
  <2>2. kind = "stream" => Width(got["stdout"]) + Width(got["stderr"]) + budget <= StreamCap /\ notes <= 1
    BY DEF CommandsInv, Budgeted
  <2> QED BY <2>1, <2>2, ShownWhole DEF OutputIsHonest
<1> QED BY <1>1, <1>2, <1>3 DEF CommandsSafe

(* A command leaves nobody of its group behind, and what a client is shown   *)
(* of it is honest (exec, exec_stream, Git::run): CommandsSafe.              *)
THEOREM CommandsAreSafe == Spec => []CommandsSafe
<1>1. Init => CommandsInv
  BY CommandsInvAtFirst
<1>2. CommandsInv /\ [Next]_vars => CommandsInv'
  BY CommandsInvStays
<1>3. CommandsInv => CommandsSafe
  BY CommandsInvIsSafe
<1> QED BY <1>1, <1>2, <1>3, PTL DEF Spec
-----------------------------------------------------------------------------
(* The supervised miners: whoever started what, and what a request has in   *)
(* hand.                                                                    *)

Requests == [doing: {"none", "start_miner", "start_stack", "stop"}, on: S!Slots, has: S!Pids \cup {S!None},
             at: {"idle", "spawn", "put", "checkRail", "identity", "take", "wait"}]
Processes == [kind: S!Slots, life: {"unborn", "running", "asked", "gone"}]

(* Where each kind of request may be, and where it has a process in hand.   *)
RequestPlaced(r) ==
  \/ r.doing = "none" /\ r.at = "idle" /\ r.has = S!None
  \/ /\ r.doing = "start_miner" /\ r.on = "miner"
     /\ (r.at = "spawn" /\ r.has = S!None) \/ (r.at = "put" /\ r.has # S!None)
  \/ /\ r.doing = "start_stack"
     /\ (r.at \in {"checkRail", "identity", "spawn"} /\ r.has = S!None) \/ (r.at = "put" /\ r.on \in {"gateway", "rail"} /\ r.has # S!None)
  \/ /\ r.doing = "stop"
     /\ (r.at = "take" /\ r.has = S!None) \/ (r.at = "wait" /\ r.has # S!None)

(* A slot, and a request that has something in hand, hold what they are for. *)
OfKind(p, s) == p # S!None => child[p].life # "unborn" /\ child[p].kind = s

Tidy ==
  /\ \A t \in Tasks : RequestPlaced(task[t]) /\ OfKind(task[t].has, task[t].on)
  /\ \A s \in S!Slots : OfKind(miner[s], s)

(* No process of a kind is alive, except perhaps one. *)
Only(s, p) == \A q \in S!Pids : S!Alive(q) /\ child[q].kind = s => q = p
AtMostOne(s) == \A p, q \in S!Pids : S!Alive(p) /\ S!Alive(q) /\ child[p].kind = s /\ child[q].kind = s => p = q

Sole(doing) == \A t, u \in Tasks : task[t].doing = doing /\ task[u].doing = doing => t = u

(* While the one start is under way its kind has no process but the one it  *)
(* has in hand; the rail's is looked at after the gateway's.                *)
MinerAlone ==
  orphans = {} /\ "start_miner" \notin overlapped =>
    /\ Sole("start_miner") /\ AtMostOne("miner")
    /\ \A t \in Tasks : task[t].doing = "start_miner" => Only("miner", task[t].has)

StackAlone ==
  orphans = {} /\ "start_stack" \notin overlapped =>
    /\ Sole("start_stack") /\ AtMostOne("gateway") /\ AtMostOne("rail")
    /\ \A t \in Tasks :
         LET r == task[t] IN
         r.doing = "start_stack" =>
           /\ r.at \in {"checkRail", "identity"} \/ (r.at = "put" /\ r.on = "gateway") => Only("gateway", r.has)
           /\ r.at \in {"identity", "spawn"} \/ (r.at = "put" /\ r.on = "gateway") => Only("rail", S!None)
           /\ r.at = "put" /\ r.on = "rail" => Only("rail", r.has)

MinersInv == S!TypeOK /\ Tidy /\ S!NothingIsLost /\ MinerAlone /\ StackAlone
-----------------------------------------------------------------------------
(* At the start there is no process and no request. *)
LEMMA MinersAtFirst == ASSUME MaxSpawns \in Nat, S!Init PROVE MinersInv
<1>1. S!TypeOK
  BY DEF S!Init, S!TypeOK, S!Pids, S!Slots, S!Unborn, S!Idle, S!None
<1>2. \A p \in S!Pids : ~S!Alive(p)
  BY DEF S!Init, S!Alive, S!Unborn
<1>3. Tidy
  BY DEF S!Init, Tidy, RequestPlaced, OfKind, S!Idle, S!None
<1>4. S!NothingIsLost
  BY <1>2 DEF S!NothingIsLost
<1>5. MinerAlone /\ StackAlone
  BY <1>2 DEF S!Init, MinerAlone, StackAlone, Sole, AtMostOne, Only, S!Idle
<1>6. QED
  BY <1>1, <1>3, <1>4, <1>5 DEF MinersInv

(* A step of a request changes its record and no other. *)
LEMMA OneRequest ==
  ASSUME S!TypeOK, NEW t \in Tasks, NEW r \in Requests, task' = [task EXCEPT ![t] = r]
  PROVE  /\ task' \in [Tasks -> Requests]
         /\ task'[t] = r
         /\ \A u \in Tasks : u # t => task'[u] = task[u]
BY DEF S!TypeOK, Requests

(* What is dropped is not alive, and nothing else changes. *)
LEMMA DropKills ==
  ASSUME S!TypeOK, NEW p \in S!Pids \cup {S!None}, child' = S!Dead(p)
  PROVE  /\ child' \in [S!Pids -> Processes]
         /\ \A q \in S!Pids : child'[q].kind = child[q].kind /\ (q # p => child'[q] = child[q])
         /\ p # S!None => child'[p].life = "gone"
         /\ \A q \in S!Pids : S!Alive(q)' <=> S!Alive(q) /\ q # p
<1>1. CASE p = S!None
  BY <1>1 DEF S!TypeOK, S!Dead, Processes, S!Alive, S!Pids, S!None
<1>2. CASE p # S!None
  BY <1>2 DEF S!TypeOK, S!Dead, Processes, S!Alive, S!Pids, S!None
<1>3. QED
  BY <1>1, <1>2

(* What is started was not there before. *)
LEMMA SpawnAdds ==
  ASSUME S!TypeOK, NEW p \in S!Fresh, NEW s \in S!Slots, child' = [child EXCEPT ![p] = [kind |-> s, life |-> "running"]]
  PROVE  /\ child' \in [S!Pids -> Processes]
         /\ child'[p].kind = s /\ child'[p].life = "running" /\ child[p].life = "unborn"
         /\ \A q \in S!Pids : q # p => child'[q] = child[q]
         /\ \A q \in S!Pids : S!Alive(q)' <=> S!Alive(q) \/ q = p
BY DEF S!TypeOK, S!Fresh, Processes, S!Alive

(* What is asked to go is alive until it goes. *)
LEMMA AskedLives ==
  ASSUME S!TypeOK, NEW p \in S!Pids,
         child' = IF S!Alive(p) THEN [child EXCEPT ![p].life = "asked"] ELSE child
  PROVE  /\ child' \in [S!Pids -> Processes]
         /\ \A q \in S!Pids : child'[q].kind = child[q].kind /\ (child'[q].life = "unborn" <=> child[q].life = "unborn")
         /\ \A q \in S!Pids : S!Alive(q)' <=> S!Alive(q)
BY DEF S!TypeOK, Processes, S!Alive
-----------------------------------------------------------------------------
(* What every step does to the processes: none is born but the one that is  *)
(* started, and none changes its kind.                                      *)
KindsKept == \A q \in S!Pids : child[q].life # "unborn" => child'[q].life # "unborn" /\ child'[q].kind = child[q].kind
Fewer == \A q \in S!Pids : S!Alive(q)' => S!Alive(q) /\ child'[q].kind = child[q].kind

(* A process dropped is one fewer, and the others are as they were.          *)
LEMMA FewerAfterDrop ==
  ASSUME S!TypeOK, NEW p \in S!Pids \cup {S!None}, child' = S!Dead(p)
  PROVE  KindsKept /\ Fewer
<1>1. /\ \A q \in S!Pids : child'[q].kind = child[q].kind /\ (q # p => child'[q] = child[q])
      /\ p # S!None => child'[p].life = "gone"
      /\ \A q \in S!Pids : S!Alive(q)' <=> S!Alive(q) /\ q # p
  BY DropKills
<1>2. S!None \notin S!Pids
  BY DEF S!Pids, S!None
<1>3. KindsKept
  BY <1>1, <1>2 DEF KindsKept
<1>4. QED
  BY <1>1, <1>3 DEF Fewer

(* What a request has and what the slots hold stay of their kinds as a       *)
(* request moves on.                                                         *)
LEMMA TidyStep ==
  ASSUME S!TypeOK, Tidy, NEW t \in Tasks, NEW r \in Requests, task' = [task EXCEPT ![t] = r], KindsKept, RequestPlaced(r),
         r.has # S!None => child'[r.has].life # "unborn" /\ child'[r.has].kind = r.on,
         \A s \in S!Slots : miner'[s] \in {S!None, miner[s]} \/ (child'[miner'[s]].life # "unborn" /\ child'[miner'[s]].kind = s)
  PROVE  Tidy'
<1>1. \A u \in Tasks : RequestPlaced(task'[u]) /\ OfKind(task[u].has, task[u].on)'
  <2> SUFFICES ASSUME NEW u \in Tasks PROVE RequestPlaced(task'[u]) /\ OfKind(task[u].has, task[u].on)'
    OBVIOUS
  <2>1. CASE u = t
    BY <2>1, OneRequest DEF OfKind
  <2>2. CASE u # t
    BY <2>2, OneRequest DEF OfKind, KindsKept, Tidy, S!TypeOK
  <2>3. QED
    BY <2>1, <2>2
<1>2. \A s \in S!Slots : OfKind(miner[s], s)'
  BY DEF OfKind, Tidy, KindsKept, S!TypeOK
<1>3. QED
  BY <1>1, <1>2 DEF Tidy, RequestPlaced

(* With no new process and no new start, one is still one. *)
LEMMA MinerStays ==
  ASSUME S!TypeOK, MinerAlone, NEW t \in Tasks, NEW r \in Requests, task' = [task EXCEPT ![t] = r], Fewer,
         r.doing = "start_miner" => task[t].doing = "start_miner" /\ r.has = task[t].has,
         UNCHANGED <<orphans, overlapped>>
  PROVE  MinerAlone'
<1> SUFFICES ASSUME orphans = {}, "start_miner" \notin overlapped
             PROVE  /\ Sole("start_miner")' /\ AtMostOne("miner")'
                    /\ \A u \in Tasks : task'[u].doing = "start_miner" => Only("miner", task[u].has)'
  BY DEF MinerAlone
<1>1. AtMostOne("miner")'
  BY DEF MinerAlone, AtMostOne, Fewer
<1>2. \A u \in Tasks : task'[u].doing = "start_miner" => task[u].doing = "start_miner" /\ task'[u].has = task[u].has
  BY OneRequest
<1>3. Sole("start_miner")'
  BY <1>2 DEF MinerAlone, Sole
<1>4. ASSUME NEW u \in Tasks, task'[u].doing = "start_miner" PROVE Only("miner", task[u].has)'
  BY <1>2, <1>4 DEF MinerAlone, Only, Fewer
<1>5. QED
  BY <1>1, <1>3, <1>4

(* A request that does not start the stack leaves it alone.                  *)
LEMMA StackStays ==
  ASSUME S!TypeOK, StackAlone, NEW t \in Tasks, NEW r \in Requests, task' = [task EXCEPT ![t] = r], Fewer,
         r.doing # "start_stack", UNCHANGED <<orphans, overlapped>>
  PROVE  StackAlone'
<1> SUFFICES ASSUME orphans = {}, "start_stack" \notin overlapped
             PROVE  StackAlone'
  BY DEF StackAlone
<1>1. AtMostOne("gateway")' /\ AtMostOne("rail")'
  BY DEF StackAlone, AtMostOne, Fewer
<1>2. \A u \in Tasks : task'[u].doing = "start_stack" => task'[u] = task[u]
  BY OneRequest
<1>3. Sole("start_stack")'
  BY <1>2 DEF StackAlone, Sole
<1>4. \A s \in S!Slots, p \in S!Pids \cup {S!None} : Only(s, p) => Only(s, p)'
  BY DEF Only, Fewer
<1>5. \A u \in Tasks : task[u].has \in S!Pids \cup {S!None}
  BY DEF S!TypeOK
<1>6. QED
  BY <1>1, <1>2, <1>3, <1>4, <1>5 DEF StackAlone, S!Slots
-----------------------------------------------------------------------------
(* One lemma an action. *)

(* The processes are as they were. *)
LEMMA SameProcesses == ASSUME UNCHANGED child PROVE KindsKept /\ Fewer /\ \A q \in S!Pids : S!Alive(q)' <=> S!Alive(q)
BY DEF KindsKept, Fewer, S!Alive

(* A request that does nothing has a request's type.                         *)
LEMMA IdleIsARequest == ASSUME MaxSpawns \in Nat PROVE S!Idle \in Requests /\ RequestPlaced(S!Idle) /\ S!Idle.has = S!None /\ S!None \notin S!Pids
BY DEF S!Idle, Requests, RequestPlaced, S!Slots, S!Pids, S!None

(* A request gives up what it has in hand, which goes with it. *)
LEMMA GiveUp ==
  ASSUME MaxSpawns \in Nat, MinersInv, NEW t \in Tasks, NEW r \in Requests, RequestPlaced(r), r.has = S!None,
         r.doing \in {"none", "stop"}, task' = [task EXCEPT ![t] = r], child' = S!Dead(task[t].has), UNCHANGED <<up, miner, overlapped, orphans>>
  PROVE  MinersInv'
<1> USE DEF MinersInv
<1>1. task[t].has \in S!Pids \cup {S!None} /\ miner' = miner
  BY DEF S!TypeOK
<1>2. KindsKept /\ Fewer
  BY <1>1, FewerAfterDrop
<1>3. S!TypeOK'
  BY <1>1, DropKills, OneRequest DEF S!TypeOK, Requests, Processes
<1>4. Tidy'
  BY <1>1, <1>2, TidyStep
<1>5. S!NothingIsLost'
  <2> SUFFICES ASSUME NEW p \in S!Pids, S!Alive(p)', p \notin orphans'
               PROVE  (\E s \in S!Slots : miner'[s] = p) \/ (\E u \in Tasks : task'[u].has = p)
    BY DEF S!NothingIsLost
  <2>1. S!Alive(p) /\ p # task[t].has
    BY <1>1, DropKills
  <2>2. QED
    BY <1>1, <2>1, OneRequest DEF S!NothingIsLost
<1>6. MinerAlone' /\ StackAlone'
  BY <1>2, MinerStays, StackStays
<1>7. QED
  BY <1>3, <1>4, <1>5, <1>6

(* A stop ends, or a request is dropped: what it had goes with it.           *)
LEMMA RequestEnds ==
  ASSUME MaxSpawns \in Nat, MinersInv, NEW t \in Tasks, S!StopEnd(t) \/ S!Drop(t)
  PROVE  MinersInv'
<1>1. S!AfterStop(task[t].on) \in Requests /\ RequestPlaced(S!AfterStop(task[t].on)) /\ S!AfterStop(task[t].on).has = S!None
      /\ S!AfterStop(task[t].on).doing \in {"none", "stop"}
  BY DEF S!AfterStop, S!Idle, Requests, RequestPlaced, S!Slots, S!Pids, S!None
<1>2. S!Idle \in Requests /\ RequestPlaced(S!Idle) /\ S!Idle.has = S!None /\ S!Idle.doing = "none"
  BY IdleIsARequest DEF S!Idle
<1>3. CASE S!StopEnd(t)
  BY <1>1, <1>3, GiveUp DEF S!StopEnd, S!Set
<1>4. CASE S!Drop(t)
  BY <1>2, <1>4, GiveUp DEF S!Drop, S!Set
<1>5. QED
  BY <1>3, <1>4

(* A stop begins.                                                            *)
LEMMA StopKeeps ==
  ASSUME MaxSpawns \in Nat, MinersInv, NEW t \in Tasks, S!Stop(t)
  PROVE  MinersInv'
<1>1. PICK first \in {"miner", "rail"} :
        /\ S!Begin(t, "stop", [S!Idle EXCEPT !.doing = "stop", !.at = "take", !.on = first])
        /\ UNCHANGED <<up, child, miner, orphans, room>>
  BY DEF S!Stop
<1> DEFINE r == [S!Idle EXCEPT !.doing = "stop", !.at = "take", !.on = first]
<1>2. r \in Requests /\ RequestPlaced(r) /\ r.has = S!None /\ r.doing \in {"none", "stop"}
  BY DEF S!Idle, Requests, RequestPlaced, S!Slots, S!Pids, S!None
<1>3. task[t].has = S!None /\ overlapped' = overlapped
  BY <1>1 DEF S!Begin, MinersInv, Tidy, RequestPlaced
<1>4. child' = S!Dead(task[t].has) /\ task' = [task EXCEPT ![t] = r]
  BY <1>1, <1>3 DEF S!Dead, S!Begin, S!Set
<1>5. QED
  BY <1>1, <1>2, <1>3, <1>4, GiveUp

(* The process goes from its slot to the request. *)
LEMMA StopTakes ==
  ASSUME MaxSpawns \in Nat, MinersInv, NEW t \in Tasks, S!StopTake(t)
  PROVE  MinersInv'
<1> USE DEF MinersInv
<1> DEFINE s == task[t].on
           r == [task[t] EXCEPT !.at = "wait", !.has = miner[s]]
<1>1. s \in S!Slots /\ task[t].has = S!None /\ task[t].doing = "stop" /\ task[t].at = "take"
  BY DEF S!StopTake, S!At, Tidy, RequestPlaced, S!TypeOK
<1>2. CASE miner[s] = S!None
  <2>1. S!AfterStop(s) \in Requests /\ RequestPlaced(S!AfterStop(s)) /\ S!AfterStop(s).has = S!None /\ S!AfterStop(s).doing \in {"none", "stop"}
    BY DEF S!AfterStop, S!Idle, Requests, RequestPlaced, S!Slots, S!Pids, S!None
  <2>2. task' = [task EXCEPT ![t] = S!AfterStop(s)] /\ child' = S!Dead(task[t].has) /\ UNCHANGED <<up, miner, overlapped, orphans>>
    BY <1>1, <1>2 DEF S!StopTake, S!Set, S!Dead
  <2>3. QED
    BY <2>1, <2>2, GiveUp
<1>3. CASE miner[s] # S!None
  <2>1. /\ task' = [task EXCEPT ![t] = r] /\ miner' = [miner EXCEPT ![s] = S!None]
        /\ child' = IF S!Alive(miner[s]) THEN [child EXCEPT ![miner[s]].life = "asked"] ELSE child
        /\ UNCHANGED <<up, overlapped, orphans>>
    BY <1>3 DEF S!StopTake, S!Set
  <2>2. miner[s] \in S!Pids
    BY <1>1, <1>3 DEF S!TypeOK
  <2>3. r \in Requests /\ r.doing = "stop" /\ r.at = "wait" /\ r.has = miner[s] /\ r.on = s
    BY <1>1, <2>2 DEF S!TypeOK, Requests
  <2>4. RequestPlaced(r)
    BY <1>3, <2>3 DEF RequestPlaced
  <2>5. /\ child' \in [S!Pids -> Processes]
        /\ \A q \in S!Pids : child'[q].kind = child[q].kind /\ (child'[q].life = "unborn" <=> child[q].life = "unborn")
        /\ \A q \in S!Pids : S!Alive(q)' <=> S!Alive(q)
    BY <2>1, <2>2, AskedLives
  <2>6. KindsKept /\ Fewer
    BY <2>5 DEF KindsKept, Fewer
  <2>7. S!TypeOK'
    BY <1>1, <2>1, <2>3, <2>5, OneRequest DEF S!TypeOK, Requests, Processes, S!Pids, S!None
  <2>8. Tidy'
    <3>1. child[miner[s]].life # "unborn" /\ child[miner[s]].kind = s
      BY <1>1, <1>3 DEF Tidy, OfKind
    <3>2. \A z \in S!Slots : miner'[z] \in {S!None, miner[z]}
      BY <2>1 DEF S!TypeOK
    <3>3. r.has # S!None => child'[r.has].life # "unborn" /\ child'[r.has].kind = r.on
      BY <2>2, <2>3, <2>5, <3>1
    <3>4. QED
      BY <2>1, <2>3, <2>4, <2>6, <3>2, <3>3, TidyStep
  <2>9. S!NothingIsLost'
    <3> SUFFICES ASSUME NEW p \in S!Pids, S!Alive(p)', p \notin orphans'
                 PROVE  (\E z \in S!Slots : miner'[z] = p) \/ (\E u \in Tasks : task'[u].has = p)
      BY DEF S!NothingIsLost
    <3>1. S!Alive(p) /\ p \notin orphans /\ p # S!None
      BY <2>1, <2>5, IdleIsARequest
    <3>2. task'[t] = r /\ \A u \in Tasks : u # t => task'[u] = task[u]
      BY <2>1, <2>3, OneRequest
    <3>3. \A z \in S!Slots : miner'[z] = IF z = s THEN S!None ELSE miner[z]
      BY <1>1, <2>1 DEF S!TypeOK
    <3>4. CASE \E z \in S!Slots : miner[z] = p
      <4>1. PICK z \in S!Slots : miner[z] = p
        BY <3>4
      <4>2. CASE z = s
        <5>1. task'[t].has = p
          BY <2>3, <3>2, <4>1, <4>2
        <5>2. QED
          BY <5>1
      <4>3. CASE z # s
        <5>1. miner'[z] = p
          BY <3>3, <4>1, <4>3
        <5>2. QED
          BY <4>1, <5>1
      <4>4. QED
        BY <4>2, <4>3
    <3>5. CASE \E u \in Tasks : task[u].has = p
      BY <1>1, <3>1, <3>2, <3>5
    <3>6. QED
      BY <3>1, <3>4, <3>5 DEF S!NothingIsLost
  <2>10. MinerAlone' /\ StackAlone'
    BY <2>1, <2>3, <2>6, MinerStays, StackStays
  <2>11. QED
    BY <2>7, <2>8, <2>9, <2>10
<1>4. QED
  BY <1>2, <1>3
-----------------------------------------------------------------------------
(* What both starts do. *)

(* Unless it is idle, a request that ends without anything in hand leaves   *)
(* everything as it is.                                                     *)
LEMMA NothingDone ==
  ASSUME MaxSpawns \in Nat, MinersInv, NEW t \in Tasks, task[t].has = S!None, S!Set(t, S!Idle),
         UNCHANGED <<up, child, miner, overlapped, orphans>>
  PROVE  MinersInv'
<1>1. child' = S!Dead(task[t].has) /\ S!Idle.doing = "none"
  BY DEF S!Dead, S!Idle
<1>2. QED
  BY <1>1, IdleIsARequest, GiveUp DEF S!Set

Started(t, p, sort, then) ==
  /\ p \in S!Fresh
  /\ child' = [child EXCEPT ![p] = [kind |-> sort, life |-> "running"]]
  /\ S!Set(t, [task[t] EXCEPT !.at = then, !.on = sort, !.has = p])

(* A process that was just started is its request's, and of the kind the     *)
(* request wants.                                                            *)
LEMMA StartedKeeps ==
  ASSUME MaxSpawns \in Nat, MinersInv, NEW t \in Tasks, NEW p, NEW sort \in S!Slots, Started(t, p, sort, "put"),
         task[t].has = S!None, UNCHANGED <<up, miner, overlapped, orphans>>,
         \/ task[t].doing = "start_miner" /\ sort = "miner"
         \/ task[t].doing = "start_stack" /\ sort \in {"gateway", "rail"}
  PROVE  /\ S!TypeOK' /\ Tidy' /\ S!NothingIsLost'
         /\ task'[t].doing = task[t].doing /\ task'[t].at = "put" /\ task'[t].on = sort /\ task'[t].has = p
         /\ \A u \in Tasks : u # t => task'[u] = task[u]
         /\ p \in S!Pids /\ child'[p].kind = sort
         /\ \A q \in S!Pids : S!Alive(q)' <=> S!Alive(q) \/ q = p
         /\ \A q \in S!Pids : q # p => child'[q] = child[q]
<1> USE DEF MinersInv
<1> DEFINE r == [task[t] EXCEPT !.at = "put", !.on = sort, !.has = p]
<1>1. p \in S!Fresh /\ p \in S!Pids /\ task' = [task EXCEPT ![t] = r]
  BY DEF Started, S!Fresh, S!Set
<1>2. r \in Requests /\ r.doing = task[t].doing /\ r.at = "put" /\ r.on = sort /\ r.has = p
  <2> HIDE DEF MinersInv
  <2>1. task[t] \in Requests
    BY DEF MinersInv, S!TypeOK, Requests
  <2>2. QED
    BY <1>1, <2>1 DEF Requests
<1>3. p # S!None
  BY <1>1, IdleIsARequest
<1>4. RequestPlaced(r)
  BY <1>2, <1>3 DEF RequestPlaced
<1>5. task'[t] = r /\ task' \in [Tasks -> Requests] /\ \A u \in Tasks : u # t => task'[u] = task[u]
  BY <1>1, <1>2, OneRequest
<1>6. /\ child' \in [S!Pids -> Processes]
      /\ child'[p].kind = sort /\ child'[p].life = "running" /\ child[p].life = "unborn"
      /\ \A q \in S!Pids : q # p => child'[q] = child[q]
      /\ \A q \in S!Pids : S!Alive(q)' <=> S!Alive(q) \/ q = p
  BY <1>1, SpawnAdds DEF Started
<1>7. S!TypeOK'
  BY <1>5, <1>6 DEF S!TypeOK, Requests, Processes
<1>8. KindsKept
  BY <1>6 DEF KindsKept
<1>9. Tidy'
  BY <1>1, <1>2, <1>3, <1>4, <1>6, <1>8, TidyStep
<1>10. S!NothingIsLost'
  <2> SUFFICES ASSUME NEW q \in S!Pids, S!Alive(q)', q \notin orphans'
               PROVE  (\E s \in S!Slots : miner'[s] = q) \/ (\E u \in Tasks : task'[u].has = q)
    BY DEF S!NothingIsLost
  <2>1. CASE q = p
    BY <1>2, <1>5, <2>1
  <2>2. CASE q # p
    <3>1. S!Alive(q) /\ q # S!None /\ q \notin orphans
      BY <1>6, <2>2, IdleIsARequest
    <3>2. QED
      BY <1>5, <3>1 DEF S!NothingIsLost
  <2>3. QED
    BY <2>1, <2>2
<1>11. QED
  BY <1>2, <1>5, <1>6, <1>7, <1>9, <1>10, <1>1

(* What a request had in hand is in its slot, and what was there is gone. *)
LEMMA SlotTakes ==
  ASSUME MaxSpawns \in Nat, MinersInv, NEW t \in Tasks, NEW r \in Requests, S!Put(t, r), RequestPlaced(r), r.has = S!None,
         task[t].has # S!None
  PROVE  /\ S!TypeOK' /\ Tidy' /\ S!NothingIsLost' /\ KindsKept /\ Fewer
         /\ task'[t] = r /\ \A u \in Tasks : u # t => task'[u] = task[u]
         /\ UNCHANGED <<orphans, overlapped>>
<1> USE DEF MinersInv
<1> DEFINE s == task[t].on
<1>1. /\ miner' = [miner EXCEPT ![s] = task[t].has] /\ child' = S!Dead(miner[s]) /\ task' = [task EXCEPT ![t] = r]
      /\ UNCHANGED <<up, overlapped, orphans, room>>
  BY DEF S!Put, S!Set
<1>2. s \in S!Slots /\ miner[s] \in S!Pids \cup {S!None} /\ task[t].has \in S!Pids
  BY DEF S!TypeOK
<1>3. task'[t] = r /\ task' \in [Tasks -> Requests] /\ \A u \in Tasks : u # t => task'[u] = task[u]
  BY <1>1, OneRequest
<1>4. KindsKept /\ Fewer
  BY <1>1, <1>2, FewerAfterDrop
<1>5. /\ child' \in [S!Pids -> Processes]
      /\ \A q \in S!Pids : S!Alive(q)' <=> S!Alive(q) /\ q # miner[s]
  BY <1>1, <1>2, DropKills
<1>6. \A z \in S!Slots : miner'[z] = IF z = s THEN task[t].has ELSE miner[z]
  BY <1>1, <1>2 DEF S!TypeOK
<1>7. S!TypeOK'
  BY <1>1, <1>2, <1>3, <1>5 DEF S!TypeOK, Requests, Processes
<1>8. Tidy'
  <2>1. child'[task[t].has].life # "unborn" /\ child'[task[t].has].kind = s
    BY <1>2, <1>4 DEF Tidy, OfKind, KindsKept
  <2>2. QED
    BY <1>1, <1>2, <1>4, <1>6, <2>1, TidyStep
<1>9. S!NothingIsLost'
  <2> SUFFICES ASSUME NEW p \in S!Pids, S!Alive(p)', p \notin orphans'
               PROVE  (\E z \in S!Slots : miner'[z] = p) \/ (\E u \in Tasks : task'[u].has = p)
    BY DEF S!NothingIsLost
  <2>1. S!Alive(p) /\ p # miner[s] /\ p \notin orphans
    BY <1>1, <1>5
  <2>2. CASE \E z \in S!Slots : miner[z] = p
    BY <1>6, <2>1, <2>2
  <2>3. CASE \E u \in Tasks : task[u].has = p
    <3>1. PICK u \in Tasks : task[u].has = p
      BY <2>3
    <3>2. CASE u = t
      BY <1>2, <1>6, <3>1, <3>2
    <3>3. CASE u # t
      BY <1>3, <3>1, <3>3
    <3>4. QED
      BY <3>2, <3>3
  <2>4. QED
    BY <2>1, <2>2, <2>3 DEF S!NothingIsLost
<1>10. QED
  BY <1>1, <1>3, <1>4, <1>7, <1>8, <1>9
(* A slot that is free and empty, with no start that has a process for it   *)
(* in hand, is of a kind none of which is alive.                            *)
LEMMA NoneOfIt ==
  ASSUME MaxSpawns \in Nat, MinersInv, orphans = {}, NEW s \in S!Slots, S!Free(s), ~S!Running(s),
         \A u \in Tasks : task[u].doing = (IF s = "miner" THEN "start_miner" ELSE "start_stack") => task[u].has = S!None
  PROVE  Only(s, S!None) /\ \A q \in S!Pids : ~(S!Alive(q) /\ child[q].kind = s)
<1> USE DEF MinersInv
<1> SUFFICES ASSUME NEW q \in S!Pids, S!Alive(q), child[q].kind = s PROVE FALSE
  BY DEF Only
<1>1. q # S!None
  BY IdleIsARequest
<1>2. CASE \E z \in S!Slots : miner[z] = q
  <2>1. PICK z \in S!Slots : miner[z] = q
    BY <1>2
  <2>2. z = s
    BY <1>1, <2>1 DEF Tidy, OfKind
  <2>3. QED
    BY <1>1, <2>1, <2>2 DEF S!Running
<1>3. CASE \E u \in Tasks : task[u].has = q
  <2>1. PICK u \in Tasks : task[u].has = q
    BY <1>3
  <2>2. task[u].on = s /\ RequestPlaced(task[u])
    BY <1>1, <2>1 DEF Tidy, OfKind
  <2>3. ~(task[u].at = "wait")
    BY <2>2 DEF S!Free
  <2>4. QED
    BY <1>1, <2>1, <2>2, <2>3 DEF RequestPlaced, S!Slots
<1>4. QED
  BY <1>2, <1>3 DEF S!NothingIsLost

(* A request that starts nothing else, and has nothing in hand, moves on. *)
LEMMA Moves ==
  ASSUME MaxSpawns \in Nat, MinersInv, NEW t \in Tasks, NEW r \in Requests, task' = [task EXCEPT ![t] = r], RequestPlaced(r),
         r.has = S!None, task[t].has = S!None, UNCHANGED <<child, orphans>>, up' \in BOOLEAN,
         \A s \in S!Slots : miner'[s] \in {S!None, miner[s]},
         \A s \in S!Slots : miner'[s] # miner[s] => ~S!Running(s),
         miner' \in [S!Slots -> S!Pids \cup {S!None}],
         overlapped' \subseteq {"start_miner", "start_stack"}
  PROVE  /\ S!TypeOK' /\ Tidy' /\ S!NothingIsLost'
         /\ task'[t] = r /\ \A u \in Tasks : u # t => task'[u] = task[u]
<1> USE DEF MinersInv
<1>1. task'[t] = r /\ task' \in [Tasks -> Requests] /\ \A u \in Tasks : u # t => task'[u] = task[u]
  BY OneRequest
<1>2. S!TypeOK'
  BY <1>1 DEF S!TypeOK, Requests, Processes
<1>3. KindsKept /\ \A q \in S!Pids : S!Alive(q)' <=> S!Alive(q)
  BY SameProcesses
<1>4. Tidy'
  BY <1>3, TidyStep
<1>5. S!NothingIsLost'
  <2> SUFFICES ASSUME NEW p \in S!Pids, S!Alive(p), p \notin orphans
               PROVE  (\E z \in S!Slots : miner'[z] = p) \/ (\E u \in Tasks : task'[u].has = p)
    BY <1>3 DEF S!NothingIsLost
  <2>1. p # S!None
    BY IdleIsARequest
  <2>2. CASE \E z \in S!Slots : miner[z] = p
    <3>1. PICK z \in S!Slots : miner[z] = p
      BY <2>2
    <3>2. miner'[z] = miner[z]
      BY <2>1, <3>1 DEF S!Running
    <3>3. QED
      BY <3>1, <3>2
  <2>3. CASE \E u \in Tasks : task[u].has = p
    BY <1>1, <2>1, <2>3
  <2>4. QED
    BY <2>2, <2>3 DEF S!NothingIsLost
<1>6. QED
  BY <1>1, <1>2, <1>4, <1>5
-----------------------------------------------------------------------------
(* The miner's start. *)

(* A start of the miner finds none running.                                  *)
LEMMA MinerStartKeeps ==
  ASSUME MaxSpawns \in Nat, MinersInv, NEW t \in Tasks, S!MinerStart(t)
  PROVE  MinersInv'
<1> DEFINE r == [S!Idle EXCEPT !.doing = "start_miner", !.at = "spawn"]
<1>1. /\ S!Free("miner") /\ ~S!Running("miner") /\ up /\ task[t].doing = "none" /\ task' = [task EXCEPT ![t] = r]
      /\ overlapped' = IF \E u \in Tasks : task[u].doing = "start_miner" THEN overlapped \cup {"start_miner"} ELSE overlapped
      /\ miner' = [miner EXCEPT !["miner"] = S!None] /\ UNCHANGED <<up, child, orphans>>
  BY DEF S!MinerStart, S!Begin, S!Set
<1>2. r \in Requests /\ RequestPlaced(r) /\ r.has = S!None /\ r.doing = "start_miner"
  BY DEF S!Idle, Requests, RequestPlaced, S!Slots, S!Pids, S!None
<1>3. task[t].has = S!None
  BY <1>1 DEF MinersInv, Tidy, RequestPlaced
<1>4. /\ miner' \in [S!Slots -> S!Pids \cup {S!None}] /\ up' \in BOOLEAN /\ overlapped' \subseteq {"start_miner", "start_stack"}
      /\ \A s \in S!Slots : miner'[s] \in {S!None, miner[s]} /\ (miner'[s] # miner[s] => ~S!Running(s))
  BY <1>1 DEF MinersInv, S!TypeOK
<1>5. /\ S!TypeOK' /\ Tidy' /\ S!NothingIsLost'
      /\ task'[t] = r /\ \A u \in Tasks : u # t => task'[u] = task[u]
  BY <1>1, <1>2, <1>3, <1>4, Moves
<1>6. MinerAlone'
  <2> SUFFICES ASSUME orphans' = {}, "start_miner" \notin overlapped' PROVE MinerAlone'
    BY DEF MinerAlone
  <2>1. orphans = {} /\ "start_miner" \notin overlapped /\ \A u \in Tasks : task[u].doing # "start_miner"
    BY <1>1
  <2>2. \A q \in S!Pids : ~(S!Alive(q) /\ child[q].kind = "miner")
    BY <1>1, <2>1, NoneOfIt DEF S!Slots
  <2>3. \A q \in S!Pids : ~(S!Alive(q)' /\ child'[q].kind = "miner")
    BY <1>1, <2>2, SameProcesses
  <2>4. \A u \in Tasks : task'[u].doing = "start_miner" => u = t
    BY <1>5, <2>1
  <2>5. QED
    BY <2>3, <2>4 DEF MinerAlone, Sole, AtMostOne, Only
<1>7. StackAlone'
  <2> SUFFICES ASSUME orphans' = {}, "start_stack" \notin overlapped' PROVE StackAlone'
    BY DEF StackAlone
  <2>1. orphans = {} /\ "start_stack" \notin overlapped
    BY <1>1
  <2>2. \A u \in Tasks : task'[u].doing = "start_stack" => task'[u] = task[u]
    BY <1>2, <1>5
  <2>3. \A q \in S!Pids : S!Alive(q)' <=> S!Alive(q)
    BY <1>1, SameProcesses
  <2>4. QED
    BY <1>1, <2>1, <2>2, <2>3 DEF MinersInv, StackAlone, Sole, AtMostOne, Only
<1>8. QED
  BY <1>5, <1>6, <1>7 DEF MinersInv

(* A spawn does one or the other. *)
LEMMA SpawnDoes ==
  ASSUME NEW t \in Tasks, NEW sort \in S!Slots, S!Spawn(t, sort, "put")
  PROVE  (\E p \in S!Pids : Started(t, p, sort, "put")) \/ (S!Set(t, S!Idle) /\ UNCHANGED child)
BY DEF S!Spawn, Started, S!Fresh

(* It spawns the miner ...                                                   *)
LEMMA MinerSpawnKeeps ==
  ASSUME MaxSpawns \in Nat, MinersInv, NEW t \in Tasks, S!MinerSpawn(t)
  PROVE  MinersInv'
<1>1. task[t].doing = "start_miner" /\ task[t].at = "spawn" /\ S!Spawn(t, "miner", "put") /\ UNCHANGED <<up, miner, overlapped, orphans>>
  BY DEF S!MinerSpawn, S!At
<1>2. task[t].has = S!None
  BY <1>1 DEF MinersInv, Tidy, RequestPlaced
<1>3. CASE S!Set(t, S!Idle) /\ UNCHANGED child
  BY <1>1, <1>2, <1>3, NothingDone
<1>4. ASSUME NEW p \in S!Pids, Started(t, p, "miner", "put") PROVE MinersInv'
  <2>1. /\ S!TypeOK' /\ Tidy' /\ S!NothingIsLost'
        /\ task'[t].doing = task[t].doing /\ task'[t].at = "put" /\ task'[t].on = "miner" /\ task'[t].has = p
        /\ \A u \in Tasks : u # t => task'[u] = task[u]
        /\ child'[p].kind = "miner"
        /\ \A q \in S!Pids : S!Alive(q)' <=> S!Alive(q) \/ q = p
        /\ \A q \in S!Pids : q # p => child'[q] = child[q]
    BY <1>1, <1>2, <1>4, StartedKeeps DEF S!Slots
  <2>2. MinerAlone'
    BY <1>1, <1>2, <2>1, IdleIsARequest DEF MinersInv, MinerAlone, Sole, AtMostOne, Only
  <2>3. StackAlone'
    <3>1. \A u \in Tasks : task'[u].doing = "start_stack" => task[u].doing = "start_stack" /\ task'[u] = task[u]
      BY <1>1, <2>1
    <3>2. \A q \in S!Pids : S!Alive(q)' /\ child'[q].kind # "miner" => S!Alive(q) /\ child'[q] = child[q]
      BY <2>1
    <3>3. \A x : \A s \in {"gateway", "rail"} : Only(s, x) => Only(s, x)'
      BY <3>2 DEF Only
    <3>4. AtMostOne("gateway") /\ AtMostOne("rail") => AtMostOne("gateway")' /\ AtMostOne("rail")'
      BY <3>2 DEF AtMostOne
    <3>5. Sole("start_stack") => Sole("start_stack")'
      BY <3>1 DEF Sole
    <3>6. QED
      BY <1>1, <3>1, <3>3, <3>4, <3>5 DEF MinersInv, StackAlone
  <2>4. QED
    BY <2>1, <2>2, <2>3 DEF MinersInv
<1>5. QED
  BY <1>1, <1>3, <1>4, SpawnDoes DEF S!Slots

(* ... and puts it in the slot.                                              *)
LEMMA MinerPutKeeps ==
  ASSUME MaxSpawns \in Nat, MinersInv, NEW t \in Tasks, S!MinerPut(t)
  PROVE  MinersInv'
<1>1. task[t].doing = "start_miner" /\ task[t].at = "put" /\ S!Put(t, S!Idle)
  BY DEF S!MinerPut, S!At
<1>2. task[t].has # S!None
  BY <1>1 DEF MinersInv, Tidy, RequestPlaced
<1>3. S!Idle \in Requests /\ RequestPlaced(S!Idle) /\ S!Idle.has = S!None /\ S!Idle.doing = "none"
  BY IdleIsARequest DEF S!Idle
<1>4. /\ S!TypeOK' /\ Tidy' /\ S!NothingIsLost' /\ KindsKept /\ Fewer
      /\ UNCHANGED <<orphans, overlapped>>
  BY <1>1, <1>2, <1>3, SlotTakes
<1>5. MinerAlone' /\ StackAlone'
  BY <1>1, <1>3, <1>4, MinerStays, StackStays DEF MinersInv, S!Put, S!Set
<1>6. QED
  BY <1>4, <1>5 DEF MinersInv
-----------------------------------------------------------------------------
(* The stack's start. *)

(* A start of the stack finds no gateway running ...                         *)
LEMMA StackStartKeeps ==
  ASSUME MaxSpawns \in Nat, MinersInv, NEW t \in Tasks, S!StackStart(t)
  PROVE  MinersInv'
<1> DEFINE r == [S!Idle EXCEPT !.doing = "start_stack", !.at = "checkRail"]
<1>1. /\ S!Free("gateway") /\ ~S!Running("gateway") /\ up /\ task[t].doing = "none" /\ task' = [task EXCEPT ![t] = r]
      /\ overlapped' = IF \E u \in Tasks : task[u].doing = "start_stack" THEN overlapped \cup {"start_stack"} ELSE overlapped
      /\ UNCHANGED <<up, child, miner, orphans>>
  BY DEF S!StackStart, S!Begin, S!Set
<1>2. r \in Requests /\ RequestPlaced(r) /\ r.has = S!None /\ r.doing = "start_stack" /\ r.at = "checkRail"
  BY DEF S!Idle, Requests, RequestPlaced, S!Slots, S!Pids, S!None
<1>3. task[t].has = S!None
  BY <1>1 DEF MinersInv, Tidy, RequestPlaced
<1>4. /\ miner' \in [S!Slots -> S!Pids \cup {S!None}] /\ up' \in BOOLEAN /\ overlapped' \subseteq {"start_miner", "start_stack"}
      /\ \A s \in S!Slots : miner'[s] = miner[s]
  BY <1>1 DEF MinersInv, S!TypeOK
<1>5. /\ S!TypeOK' /\ Tidy' /\ S!NothingIsLost'
      /\ task'[t] = r /\ \A u \in Tasks : u # t => task'[u] = task[u]
  BY <1>1, <1>2, <1>3, <1>4, Moves
<1>6. \A q \in S!Pids : S!Alive(q)' <=> S!Alive(q)
  BY <1>1, SameProcesses
<1>7. MinerAlone'
  <2> SUFFICES ASSUME orphans' = {}, "start_miner" \notin overlapped' PROVE MinerAlone'
    BY DEF MinerAlone
  <2>1. orphans = {} /\ "start_miner" \notin overlapped
    BY <1>1
  <2>2. \A u \in Tasks : task'[u].doing = "start_miner" => task'[u] = task[u]
    BY <1>2, <1>5
  <2>3. QED
    BY <1>1, <1>6, <2>1, <2>2 DEF MinersInv, MinerAlone, Sole, AtMostOne, Only
<1>8. StackAlone'
  <2> SUFFICES ASSUME orphans' = {}, "start_stack" \notin overlapped' PROVE StackAlone'
    BY DEF StackAlone
  <2>1. orphans = {} /\ "start_stack" \notin overlapped /\ \A u \in Tasks : task[u].doing # "start_stack"
    BY <1>1
  <2>2. \A q \in S!Pids : ~(S!Alive(q) /\ child[q].kind = "gateway")
    BY <1>1, <2>1, NoneOfIt DEF S!Slots
  <2>3. \A q \in S!Pids : ~(S!Alive(q)' /\ child'[q].kind = "gateway")
    BY <1>1, <1>6, <2>2
  <2>4. \A u \in Tasks : task'[u].doing = "start_stack" => u = t
    BY <1>5, <2>1
  <2>5. AtMostOne("gateway")' /\ AtMostOne("rail")'
    BY <1>1, <1>6, <2>1, <2>3 DEF MinersInv, StackAlone, AtMostOne
  <2>6. Sole("start_stack")'
    BY <2>4 DEF Sole
  <2>7. Only("gateway", S!None)'
    BY <2>3 DEF Only, S!None
  <2>8. \A u \in Tasks : task'[u].doing = "start_stack" => task'[u].at = "checkRail" /\ task'[u].has = S!None
    BY <1>2, <1>5, <2>4
  <2>9. QED
    BY <2>5, <2>6, <2>7, <2>8 DEF StackAlone, S!None
<1>9. QED
  BY <1>5, <1>7, <1>8 DEF MinersInv

(* ... and no rail ...                                                       *)
LEMMA CheckRailKeeps ==
  ASSUME MaxSpawns \in Nat, MinersInv, NEW t \in Tasks, S!StackCheckRail(t)
  PROVE  MinersInv'
<1> DEFINE r == [task[t] EXCEPT !.at = "identity"]
<1>1. task[t].doing = "start_stack" /\ task[t].at = "checkRail" /\ S!Free("rail") /\ UNCHANGED <<up, child, miner, overlapped, orphans>>
  BY DEF S!StackCheckRail, S!At
<1>2. task[t].has = S!None /\ task[t] \in Requests
  BY <1>1 DEF MinersInv, Tidy, RequestPlaced, S!TypeOK, Requests
<1>3. CASE S!Set(t, S!Idle)
  BY <1>1, <1>2, <1>3, NothingDone
<1>4. CASE ~S!Running("rail") /\ S!Set(t, r)
  <2>1. r \in Requests /\ r.doing = "start_stack" /\ r.at = "identity" /\ r.has = S!None
    BY <1>1, <1>2 DEF Requests
  <2>2. RequestPlaced(r)
    BY <2>1 DEF RequestPlaced
  <2>3. /\ miner' \in [S!Slots -> S!Pids \cup {S!None}] /\ up' \in BOOLEAN /\ overlapped' \subseteq {"start_miner", "start_stack"}
        /\ \A s \in S!Slots : miner'[s] = miner[s]
    BY <1>1 DEF MinersInv, S!TypeOK
  <2>4. /\ S!TypeOK' /\ Tidy' /\ S!NothingIsLost'
        /\ task'[t] = r /\ \A u \in Tasks : u # t => task'[u] = task[u]
    BY <1>1, <1>2, <1>4, <2>1, <2>2, <2>3, Moves DEF S!Set
  <2>5. \A q \in S!Pids : S!Alive(q)' <=> S!Alive(q)
    BY <1>1, SameProcesses
  <2>6. MinerAlone'
    <3>1. \A u \in Tasks : task'[u].doing = "start_miner" => task'[u] = task[u]
      BY <2>1, <2>4
    <3>2. QED
      BY <1>1, <2>5, <3>1 DEF MinersInv, MinerAlone, Sole, AtMostOne, Only
  <2>7. StackAlone'
    <3> SUFFICES ASSUME orphans = {}, "start_stack" \notin overlapped PROVE StackAlone'
      BY <1>1 DEF StackAlone
    <3>1. Sole("start_stack") /\ AtMostOne("gateway") /\ AtMostOne("rail") /\ Only("gateway", S!None)
      BY <1>1, <1>2 DEF MinersInv, StackAlone
    <3>2. \A u \in Tasks : task[u].doing = "start_stack" => u = t
      BY <1>1, <3>1 DEF Sole
    <3>3. Only("rail", S!None)
      BY <1>1, <1>2, <1>4, <3>2, NoneOfIt DEF S!Slots
    <3>4. \A s, x : Only(s, x) => Only(s, x)'
      BY <1>1, <2>5 DEF Only
    <3>5. Sole("start_stack")' /\ AtMostOne("gateway")' /\ AtMostOne("rail")'
      BY <1>1, <2>4, <2>5, <3>1, <3>2 DEF Sole, AtMostOne
    <3>6. \A u \in Tasks : task'[u].doing = "start_stack" => task'[u].at = "identity" /\ task'[u].has = S!None
      BY <2>1, <2>4, <3>2
    <3>7. Only("gateway", S!None)' /\ Only("rail", S!None)'
      BY <3>1, <3>3, <3>4
    <3>8. QED
      BY <3>5, <3>6, <3>7 DEF StackAlone, S!None
  <2>8. QED
    BY <2>4, <2>6, <2>7 DEF MinersInv
<1>5. QED
  BY <1>3, <1>4 DEF S!StackCheckRail

(* What the stack starts leaves the miner alone. *)
LEMMA StackLeavesMiner ==
  ASSUME MinersInv, NEW t \in Tasks, task[t].doing = "start_stack", task'[t].doing = "start_stack",
         \A u \in Tasks : u # t => task'[u] = task[u],
         \A q \in S!Pids : S!Alive(q)' /\ child'[q].kind = "miner" => S!Alive(q) /\ child[q].kind = "miner", UNCHANGED <<overlapped, orphans>>
  PROVE  MinerAlone'
<1>1. \A u \in Tasks : task'[u].doing = "start_miner" => task'[u] = task[u]
  OBVIOUS
<1>2. QED
  BY <1>1 DEF MinersInv, MinerAlone, Sole, AtMostOne, Only

(* ... spawns the one, then the other ...                                    *)
LEMMA StackSpawnKeeps ==
  ASSUME MaxSpawns \in Nat, MinersInv, NEW t \in Tasks, S!StackGateway(t) \/ S!StackRail(t)
  PROVE  MinersInv'
<1> DEFINE sort == IF task[t].at = "identity" THEN "gateway" ELSE "rail"
<1>1. task[t].doing = "start_stack" /\ task[t].at \in {"identity", "spawn"} /\ S!Spawn(t, sort, "put")
      /\ UNCHANGED <<up, miner, overlapped, orphans>>
  BY DEF S!StackGateway, S!StackRail, S!At
<1>2. task[t].has = S!None
  BY <1>1 DEF MinersInv, Tidy, RequestPlaced
<1>3. sort \in S!Slots /\ sort \in {"gateway", "rail"}
  BY DEF S!Slots
<1>4. CASE S!Set(t, S!Idle) /\ UNCHANGED child
  BY <1>1, <1>2, <1>4, NothingDone
<1>5. ASSUME NEW p \in S!Pids, Started(t, p, sort, "put") PROVE MinersInv'
  <2> HIDE DEF sort
  <2>1. /\ S!TypeOK' /\ Tidy' /\ S!NothingIsLost'
        /\ task'[t].doing = task[t].doing /\ task'[t].at = "put" /\ task'[t].on = sort /\ task'[t].has = p
        /\ \A u \in Tasks : u # t => task'[u] = task[u]
        /\ child'[p].kind = sort
        /\ \A q \in S!Pids : S!Alive(q)' <=> S!Alive(q) \/ q = p
        /\ \A q \in S!Pids : q # p => child'[q] = child[q]
    BY <1>1, <1>2, <1>3, <1>5, StartedKeeps
  <2>2. MinerAlone'
    BY <1>1, <1>3, <2>1, StackLeavesMiner
  <2>3. StackAlone'
    <3> SUFFICES ASSUME orphans = {}, "start_stack" \notin overlapped PROVE StackAlone'
      BY <1>1 DEF StackAlone
    <3>1. /\ Sole("start_stack") /\ AtMostOne("gateway") /\ AtMostOne("rail") /\ Only("rail", S!None)
          /\ task[t].at = "identity" => Only("gateway", S!None)
      BY <1>1, <1>2 DEF MinersInv, StackAlone
    <3>2. \A u \in Tasks : task'[u].doing = "start_stack" => u = t
      BY <1>1, <2>1, <3>1 DEF Sole
    <3>3. Sole("start_stack")'
      BY <3>2 DEF Sole
    <3>4. S!None \notin S!Pids
      BY IdleIsARequest
    <3>5. CASE task[t].at = "identity"
      <4>1. sort = "gateway"
        BY <3>5 DEF sort
      <4>2. Only("gateway", p)' /\ AtMostOne("gateway")'
        BY <2>1, <3>1, <3>4, <3>5, <4>1 DEF Only, AtMostOne
      <4>3. Only("rail", S!None)' /\ AtMostOne("rail")'
        BY <2>1, <3>1, <4>1 DEF Only, AtMostOne, S!None
      <4>4. \A u \in Tasks : task'[u].doing = "start_stack" => task'[u].at = "put" /\ task'[u].on = "gateway" /\ task'[u].has = p
        BY <2>1, <3>2, <4>1
      <4>5. QED
        BY <3>3, <4>2, <4>3, <4>4 DEF StackAlone
    <3>6. CASE task[t].at # "identity"
      <4>1. sort = "rail"
        BY <3>6 DEF sort
      <4>2. Only("rail", p)' /\ AtMostOne("rail")'
        BY <2>1, <3>1, <3>4, <4>1 DEF Only, AtMostOne
      <4>3. AtMostOne("gateway")'
        BY <2>1, <3>1, <4>1 DEF AtMostOne
      <4>4. \A u \in Tasks : task'[u].doing = "start_stack" => task'[u].at = "put" /\ task'[u].on = "rail" /\ task'[u].has = p
        BY <2>1, <3>2, <4>1
      <4>5. QED
        BY <3>3, <4>2, <4>3, <4>4 DEF StackAlone
    <3>7. QED
      BY <3>5, <3>6
  <2>4. QED
    BY <2>1, <2>2, <2>3 DEF MinersInv
<1>6. QED
  BY <1>1, <1>3, <1>4, <1>5, SpawnDoes

(* ... and puts each in its slot.                                            *)
LEMMA StackPutKeeps ==
  ASSUME MaxSpawns \in Nat, MinersInv, NEW t \in Tasks, S!StackPut(t)
  PROVE  MinersInv'
<1> DEFINE r == [task[t] EXCEPT !.at = "spawn", !.has = S!None]
<1>1. /\ task[t].doing = "start_stack" /\ task[t].at = "put"
      /\ S!Put(t, IF task[t].on = "gateway" THEN r ELSE S!Idle)
  BY DEF S!StackPut, S!At
<1>2. task[t].has # S!None
  BY <1>1 DEF MinersInv, Tidy, RequestPlaced
<1>3. task[t] \in Requests
  BY DEF MinersInv, S!TypeOK, Requests
<1>4. CASE task[t].on # "gateway"
  <2>1. S!Put(t, S!Idle)
    BY <1>1, <1>4
  <2>2. S!Idle \in Requests /\ RequestPlaced(S!Idle) /\ S!Idle.has = S!None /\ S!Idle.doing = "none"
    BY IdleIsARequest DEF S!Idle
  <2>3. /\ S!TypeOK' /\ Tidy' /\ S!NothingIsLost' /\ KindsKept /\ Fewer
        /\ UNCHANGED <<orphans, overlapped>>
    BY <1>2, <2>1, <2>2, SlotTakes
  <2>4. MinerAlone' /\ StackAlone'
    BY <2>1, <2>2, <2>3, MinerStays, StackStays DEF MinersInv, S!Put, S!Set
  <2>5. QED
    BY <2>3, <2>4 DEF MinersInv
<1>5. CASE task[t].on = "gateway"
  <2>1. S!Put(t, r)
    BY <1>1, <1>5
  <2>2. r \in Requests /\ r.doing = "start_stack" /\ r.at = "spawn" /\ r.has = S!None
    BY <1>1, <1>3 DEF Requests
  <2>3. RequestPlaced(r)
    BY <2>2 DEF RequestPlaced
  <2>4. /\ S!TypeOK' /\ Tidy' /\ S!NothingIsLost' /\ KindsKept /\ Fewer
        /\ task'[t] = r /\ \A u \in Tasks : u # t => task'[u] = task[u]
        /\ UNCHANGED <<orphans, overlapped>>
    BY <1>2, <2>1, <2>2, <2>3, SlotTakes
  <2>5. MinerAlone'
    BY <1>1, <2>2, <2>4, StackLeavesMiner DEF Fewer
  <2>6. StackAlone'
    <3> SUFFICES ASSUME orphans = {}, "start_stack" \notin overlapped PROVE StackAlone'
      BY <2>4 DEF StackAlone
    <3>1. Sole("start_stack") /\ AtMostOne("gateway") /\ AtMostOne("rail") /\ Only("rail", S!None)
      BY <1>1, <1>5 DEF MinersInv, StackAlone
    <3>2. \A u \in Tasks : task'[u].doing = "start_stack" => u = t
      BY <1>1, <2>4, <3>1 DEF Sole
    <3>3. Sole("start_stack")' /\ AtMostOne("gateway")' /\ AtMostOne("rail")' /\ Only("rail", S!None)'
      BY <2>4, <3>1, <3>2 DEF Sole, AtMostOne, Only, Fewer, S!None
    <3>4. \A u \in Tasks : task'[u].doing = "start_stack" => task'[u].at = "spawn"
      BY <2>2, <2>4, <3>2
    <3>5. QED
      BY <3>3, <3>4 DEF StackAlone
  <2>7. QED
    BY <2>4, <2>5, <2>6 DEF MinersInv
<1>6. QED
  BY <1>4, <1>5
-----------------------------------------------------------------------------
(* What nobody asked for. *)

(* A process exits by itself.                                                *)
LEMMA ExitKeeps ==
  ASSUME MaxSpawns \in Nat, MinersInv, NEW p \in S!Pids, S!Exit(p)
  PROVE  MinersInv'
<1>1. child' = S!Dead(p) /\ UNCHANGED <<up, miner, task, overlapped, orphans>>
  BY DEF S!Exit
<1>2. child' \in [S!Pids -> Processes] /\ KindsKept /\ Fewer
  BY <1>1, DropKills, FewerAfterDrop DEF MinersInv
<1>3. S!TypeOK'
  BY <1>1, <1>2 DEF MinersInv, S!TypeOK, Processes
<1>4. Tidy'
  BY <1>1, <1>2 DEF MinersInv, Tidy, S!TypeOK, OfKind, KindsKept, RequestPlaced
<1>5. S!NothingIsLost'
  BY <1>1, <1>2 DEF MinersInv, S!NothingIsLost, Fewer
<1>6. MinerAlone'
  BY <1>1, <1>2 DEF MinersInv, MinerAlone, Sole, AtMostOne, Only, Fewer
<1>7. StackAlone'
  <2>1. \A s, x : Only(s, x) => Only(s, x)'
    BY <1>2 DEF Only, Fewer
  <2>2. \A s : AtMostOne(s) => AtMostOne(s)'
    BY <1>2 DEF AtMostOne, Fewer
  <2>3. Sole("start_stack") => Sole("start_stack")'
    BY <1>1 DEF Sole
  <2>4. QED
    BY <1>1, <2>1, <2>2, <2>3 DEF MinersInv, StackAlone
<1>8. QED
  BY <1>3, <1>4, <1>5, <1>6, <1>7 DEF MinersInv

(* The processes a Studio died under are all that is alive. *)
LEMMA CrashKeeps ==
  ASSUME MaxSpawns \in Nat, MinersInv, S!Crash
  PROVE  MinersInv'
<1>1. /\ up' = FALSE /\ orphans' = {p \in S!Pids : S!Alive(p)} /\ UNCHANGED <<child, overlapped>>
      /\ miner' = [s \in S!Slots |-> S!None] /\ task' = [t \in Tasks |-> S!Idle]
  BY DEF S!Crash
<1>2. \A t \in Tasks : task'[t] = S!Idle
  BY <1>1
<1>3. S!Idle \in Requests /\ RequestPlaced(S!Idle) /\ S!Idle.has = S!None /\ S!Idle.doing = "none"
  BY IdleIsARequest DEF S!Idle
<1>4. S!TypeOK'
  BY <1>1, <1>3 DEF MinersInv, S!TypeOK, Requests
<1>5. Tidy'
  BY <1>1, <1>2, <1>3 DEF Tidy, OfKind, RequestPlaced
<1>6. \A q \in S!Pids : S!Alive(q)' => q \in orphans'
  BY <1>1, SameProcesses
<1>7. S!NothingIsLost' /\ MinerAlone' /\ StackAlone'
  BY <1>2, <1>3, <1>6 DEF S!NothingIsLost, MinerAlone, StackAlone, Sole, AtMostOne, Only
<1>8. QED
  BY <1>4, <1>5, <1>7 DEF MinersInv

(* A step that moves no process and no request keeps the invariant.          *)
LEMMA MinersRest ==
  ASSUME MinersInv, UNCHANGED <<child, miner, task, overlapped, orphans>>, up' \in BOOLEAN
  PROVE  MinersInv'
BY DEF MinersInv, S!TypeOK, Tidy, RequestPlaced, OfKind, S!NothingIsLost, S!Alive, MinerAlone, StackAlone, Sole, AtMostOne, Only
-----------------------------------------------------------------------------
(* Every step keeps the invariant.                                           *)
LEMMA MinersStay ==
  ASSUME MaxSpawns \in Nat, MinersInv, [S!Next]_minersVars
  PROVE  MinersInv'
<1>1. CASE UNCHANGED minersVars
  BY <1>1, MinersRest DEF minersVars, MinersInv, S!TypeOK
<1>2. CASE S!Boot
  BY <1>2, MinersRest DEF S!Boot
<1>3. CASE S!Crash
  BY <1>3, CrashKeeps
<1>4. ASSUME NEW p \in S!Pids, S!Exit(p) PROVE MinersInv'
  BY <1>4, ExitKeeps
<1>5. ASSUME NEW t \in Tasks, S!Request(t) PROVE MinersInv'
  BY <1>5, MinerStartKeeps, StackStartKeeps, StopKeeps, RequestEnds DEF S!Request
<1>6. ASSUME NEW t \in Tasks, S!Handler(t) PROVE MinersInv'
  BY <1>6, MinerSpawnKeeps, MinerPutKeeps, CheckRailKeeps, StackSpawnKeeps, StackPutKeeps, StopTakes, RequestEnds DEF S!Handler
<1>7. QED
  BY <1>1, <1>2, <1>3, <1>4, <1>5, <1>6 DEF S!Next

(* Of what is one at most, there is one at most to count. *)
LEMMA OneIsCounted ==
  ASSUME NEW s, AtMostOne(s)
  PROVE  S!OneEach(s)
<1> DEFINE Alike == {p \in S!Pids : S!Alive(p) /\ child[p].kind = s}
<1>1. CASE Alike = {}
  <2>1. Cardinality(Alike) = 0
    BY <1>1, FS_EmptySet
  <2>2. QED
    BY <2>1 DEF S!OneEach, S!Cardinality, Cardinality
<1>2. CASE Alike # {}
  <2>1. PICK p : p \in Alike
    BY <1>2
  <2>2. Alike = {p}
    BY <2>1 DEF AtMostOne
  <2>3. Cardinality(Alike) = 1
    BY <2>2, FS_Singleton
  <2>4. QED
    BY <2>3 DEF S!OneEach, S!Cardinality, Cardinality
<1>3. QED
  BY <1>1, <1>2

(* What the invariant says. *)
LEMMA MinersInvIsSafe ==
  ASSUME MinersInv
  PROVE  S!SupervisorsSafe
BY OneIsCounted DEF MinersInv, S!SupervisorsSafe, S!OneUnlessOverlapped, MinerAlone, StackAlone

(* Of the supervisors of remote_miner.rs and fp_stack.rs alone: whatever    *)
(* they started and the Studio has not died under can still be stopped, and *)
(* without two starts at once there is one process of a kind at most.       *)
THEOREM SupervisorsAreSafe ==
  ASSUME MaxSpawns \in Nat
  PROVE  S!Spec => []S!SupervisorsSafe
<1>1. S!Init => MinersInv
  BY MinersAtFirst
<1>2. MinersInv /\ [S!Next]_(S!vars) => MinersInv'
  BY MinersStay DEF S!vars, minersVars
<1>3. MinersInv => S!SupervisorsSafe
  BY MinersInvIsSafe
<1> QED BY <1>1, <1>2, <1>3, PTL DEF S!Spec
-----------------------------------------------------------------------------
(* The images' sidecars: of one lock, who holds what.                        *)

ImagePlaces == G!Locked \cup {"none", "lock", "rebuild", "generate", "base", "asked"}

Calling == [at: ImagePlaces, op: {"none", "load", "unload", "apply", "generate"}, engine: G!Engines \cup {0},
            model: Images \cup {"none"}, sidecar: G!Sidecars \cup {0}]

ImageTypes ==
  /\ current \in G!Engines /\ running \in [G!Engines -> G!Sidecars \cup {0}] /\ alive \subseteq G!Sidecars
  /\ holds \in [G!Sidecars -> Images \cup {"none"}] /\ record \in Images \cup {"none"}
  /\ call \in [Callers -> Calling] /\ torn \in BOOLEAN /\ spawned \in Nat

\* Where a caller is says what it has, and what the engine it has has.
CallFits(c) ==
  /\ call[c].engine = 0 <=> call[c].at \in {"none", "lock", "engine", "generate", "rebuild"}
  /\ call[c].engine <= current
  /\ call[c].sidecar # 0 <=> call[c].at \in {"health", "post", "put", "record"}
  /\ call[c].at \in {"spawn", "health", "post", "put", "clear"} => running[call[c].engine] = 0
  /\ call[c].at \in {"put", "record"} => holds[call[c].sidecar] = call[c].model
  /\ call[c].at = "record" => running[call[c].engine] = call[c].sidecar
  /\ call[c].at \in G!Locked /\ call[c].engine \notin {0, current} => running[current] = 0
  /\ call[c].at = "rebuild" => call[c].op = "apply"
  /\ call[c].op = "apply" => current <= MaxChanges

OneLocks   == \A c, d \in Callers : call[c].at \in G!Locked /\ call[d].at \in G!Locked => c = d
OneApplies == \A c, d \in Callers : call[c].op = "apply" /\ call[d].op = "apply" => c = d
NewIsEmpty == \A e \in G!Engines : e > current => running[e] = 0
AllAreKept == alive \subseteq G!Kept
Recorded   == ~torn /\ running[current] # 0 /\ (\A c \in Callers : call[c].at # "record") => record = holds[running[current]]

ImagesInv ==
  ImageTypes /\ (\A c \in Callers : CallFits(c)) /\ OneLocks /\ OneApplies /\ NewIsEmpty /\ AllAreKept /\ Recorded

(* A caller's step to a place ...                                            *)
LEMMA CallGoes ==
  ASSUME ImageTypes, NEW c \in Callers, NEW place \in ImagePlaces, call' = [call EXCEPT ![c].at = place]
  PROVE  /\ call' \in [Callers -> Calling] /\ \A d \in Callers \ {c} : call'[d] = call[d]
         /\ call'[c].at = place /\ call'[c].op = call[c].op /\ call'[c].engine = call[c].engine
         /\ call'[c].model = call[c].model /\ call'[c].sidecar = call[c].sidecar
<1> DEFINE r == [call[c] EXCEPT !.at = place]
<1>1. call[c] \in Calling
  BY DEF ImageTypes
<1>2. /\ r \in Calling /\ r.at = place /\ r.op = call[c].op /\ r.engine = call[c].engine
      /\ r.model = call[c].model /\ r.sidecar = call[c].sidecar
  BY <1>1 DEF Calling
<1>3. call' = [call EXCEPT ![c] = r]
  OBVIOUS
<1> HIDE DEF r
<1> QED BY <1>2, <1>3 DEF ImageTypes

(* ... and to its end.                                                       *)
LEMMA CallEnds ==
  ASSUME ImageTypes, NEW c \in Callers, call' = [call EXCEPT ![c] = G!NoCall]
  PROVE  /\ call' \in [Callers -> Calling] /\ \A d \in Callers \ {c} : call'[d] = call[d]
         /\ call'[c].at = "none" /\ call'[c].op = "none" /\ call'[c].engine = 0 /\ call'[c].sidecar = 0
<1> DEFINE r == G!NoCall
<1>1. r \in Calling /\ r.at = "none" /\ r.op = "none" /\ r.engine = 0 /\ r.sidecar = 0
  BY DEF Calling, G!NoCall, ImagePlaces
<1> HIDE DEF r
<1>2. call' = [call EXCEPT ![c] = r]
  BY DEF r
<1> QED BY <1>1, <1>2 DEF ImageTypes

(* Whatever a caller was at, ending it keeps all of it true: what it alone   *)
(* held is killed.                                                           *)
LEMMA EndKeeps ==
  ASSUME ImagesInv, NEW c \in Callers, G!Over(c), UNCHANGED <<current, running, holds, record>>,
         torn' \in BOOLEAN, torn \/ call[c].at = "record" => torn', spawned' \in Nat
  PROVE  ImagesInv'
<1>0. /\ call' \in [Callers -> Calling] /\ \A d \in Callers \ {c} : call'[d] = call[d]
      /\ call'[c].at = "none" /\ call'[c].op = "none" /\ call'[c].engine = 0 /\ call'[c].sidecar = 0
  BY CallEnds DEF G!Over, ImagesInv
<1>1. ImageTypes'
  BY <1>0 DEF ImagesInv, ImageTypes, G!Over
<1>2. ASSUME NEW d \in Callers PROVE CallFits(d)'
  <2>1. CASE d = c BY <1>0, <2>1 DEF ImagesInv, ImageTypes, CallFits, G!Engines, G!Locked
  <2>2. CASE d # c BY <1>0, <2>2 DEF ImagesInv, CallFits
  <2> QED BY <2>1, <2>2
<1>3. OneLocks' /\ OneApplies'
  BY <1>0 DEF ImagesInv, OneLocks, OneApplies, G!Locked
<1>4. NewIsEmpty' /\ AllAreKept'
  BY DEF ImagesInv, NewIsEmpty, AllAreKept, G!Over
<1>5. Recorded'
  BY <1>0 DEF ImagesInv, Recorded
<1> QED BY <1>1, <1>2, <1>3, <1>4, <1>5 DEF ImagesInv

(* A caller that goes on with what it has lets nothing go.                   *)
LEMMA GoKeepsAll ==
  ASSUME ImageTypes, AllAreKept, NEW c \in Callers, NEW place \in ImagePlaces, G!Go(c, place), UNCHANGED <<current, running>>
  PROVE  AllAreKept'
  BY CallGoes DEF AllAreKept, G!Kept, G!Held, G!Go

(* The lock: whoever takes it is alone.                                      *)
LEMMA LockKeeps ==
  ASSUME ImagesInv, NEW c \in Callers, G!Lock(c)
  PROVE  ImagesInv'
<1>0. /\ call[c].at = "lock" /\ \A d \in Callers : call[d].at \notin G!Locked
      /\ UNCHANGED <<current, running, alive, holds, record, torn, spawned>> /\ G!Go(c, "engine") /\ ImageTypes
  BY DEF G!Lock, G!At, G!Free, G!Go, G!Same, ImagesInv
<1>1. /\ call' \in [Callers -> Calling] /\ \A d \in Callers \ {c} : call'[d] = call[d]
      /\ call'[c].at = "engine" /\ call'[c].op = call[c].op /\ call'[c].engine = call[c].engine
      /\ call'[c].model = call[c].model /\ call'[c].sidecar = call[c].sidecar
  BY <1>0, CallGoes DEF G!Go, ImagePlaces, G!Locked
<1>2. ImageTypes'
  BY <1>0, <1>1 DEF ImagesInv, ImageTypes
<1>3. ASSUME NEW d \in Callers PROVE CallFits(d)'
  <2>1. CASE d = c BY <1>0, <1>1, <2>1 DEF ImagesInv, CallFits
  <2>2. CASE d # c BY <1>0, <1>1, <2>2 DEF ImagesInv, CallFits
  <2> QED BY <2>1, <2>2
<1>4. OneLocks' /\ OneApplies'
  BY <1>0, <1>1 DEF ImagesInv, OneLocks, OneApplies
<1>5. NewIsEmpty' /\ Recorded'
  BY <1>0, <1>1 DEF ImagesInv, NewIsEmpty, Recorded
<1>6. AllAreKept'
  BY <1>0, GoKeepsAll DEF ImagesInv, ImagePlaces, G!Locked
<1> QED BY <1>2, <1>3, <1>4, <1>5, <1>6 DEF ImagesInv

(* A step that leaves the rest alone and keeps what a caller holds.          *)
LEMMA StepKeeps ==
  ASSUME ImagesInv, NEW c \in Callers, ImageTypes', CallFits(c)', UNCHANGED <<current, running, holds>>,
         \A d \in Callers \ {c} : call'[d] = call[d], alive' \subseteq G!Kept',
         call[c].at \in G!Locked \/ call'[c].at \notin G!Locked, call'[c].op = "apply" => call[c].op = "apply",
         (record' = record /\ torn' = torn /\ (call[c].at = "record" => call'[c].at = "record")) \/ running[current] = 0
  PROVE  ImagesInv'
<1>1. ASSUME NEW d \in Callers PROVE CallFits(d)'
  <2>1. CASE d = c BY <2>1
  <2>2. CASE d # c BY <2>2 DEF ImagesInv, CallFits
  <2> QED BY <2>1, <2>2
<1>2. OneLocks' /\ OneApplies'
  BY DEF ImagesInv, OneLocks, OneApplies
<1>3. NewIsEmpty' /\ AllAreKept'
  BY DEF ImagesInv, NewIsEmpty, AllAreKept
<1>4. Recorded'
  BY DEF ImagesInv, Recorded
<1> QED BY <1>1, <1>2, <1>3, <1>4 DEF ImagesInv

(* The engine of now is taken.                                               *)
LEMMA TakeEngineKeeps ==
  ASSUME ImagesInv, NEW c \in Callers, G!TakeEngine(c)
  PROVE  ImagesInv'
<1>0. /\ call[c].at = "engine" /\ UNCHANGED <<current, running, holds, record, torn, spawned>> /\ ImageTypes
      /\ call[c] \in Calling
  BY DEF G!TakeEngine, G!Same, G!At, ImagesInv, ImageTypes
<1>1. CASE G!Over(c) BY <1>0, <1>1, EndKeeps DEF ImageTypes
<1>2. ASSUME NEW place \in {"replace", "take"}, alive' = alive,
             call' = [call EXCEPT ![c].engine = current, ![c].at = place]
      PROVE  ImagesInv'
  <2> DEFINE r == [call[c] EXCEPT !.engine = current, !.at = place]
  <2>1. /\ r \in Calling /\ r.at = place /\ r.op = call[c].op /\ r.engine = current /\ r.sidecar = call[c].sidecar
    BY <1>0 DEF Calling, ImagePlaces, G!Locked, ImageTypes
  <2>2. call' = [call EXCEPT ![c] = r] BY <1>2
  <2> HIDE DEF r
  <2>3. /\ call' \in [Callers -> Calling] /\ \A d \in Callers \ {c} : call'[d] = call[d]
        /\ call'[c].at = place /\ call'[c].op = call[c].op /\ call'[c].engine = current /\ call'[c].sidecar = call[c].sidecar
    BY <1>0, <2>1, <2>2 DEF ImageTypes
  <2>4. ImageTypes' BY <1>0, <1>2, <2>3 DEF ImageTypes
  <2>5. call[c].engine = 0 BY <1>0 DEF ImagesInv, CallFits
  <2>6. CallFits(c)' BY <1>0, <2>3 DEF ImagesInv, CallFits, G!Engines, ImageTypes
  <2>7. alive' \subseteq G!Kept'
    <3>1. \A e \in G!Engines : G!Held(e) => G!Held(e)'
      <4>1. 0 \notin G!Engines BY DEF G!Engines
      <4> QED BY <1>0, <2>3, <2>5, <4>1 DEF G!Held
    <3>2. \A s \in G!Sidecars : s \in G!Kept => s \in G!Kept' BY <1>0, <2>3, <3>1 DEF G!Kept
    <3> QED BY <1>2, <3>2 DEF ImagesInv, AllAreKept, ImageTypes
  <2> QED BY <1>0, <2>3, <2>4, <2>6, <2>7, StepKeeps DEF G!Locked
<1> QED BY <1>1, <1>2 DEF G!TakeEngine

(* A sidecar is taken out of its engine, and killed.                         *)
LEMMA TakeKeeps ==
  ASSUME ImagesInv, NEW c \in Callers, G!Replace(c) \/ G!Unload(c)
  PROVE  ImagesInv'
<1>1. PICK next \in {"spawn", "clear"} : call[c].at \in {"replace", "take"} /\ G!Take(c, next)
  BY DEF G!Replace, G!Unload, G!At
<1> DEFINE e == call[c].engine
<1>0. /\ UNCHANGED <<current, holds, record, torn, spawned>> /\ ImageTypes /\ call[c] \in Calling /\ e \in G!Engines
      /\ running' = [running EXCEPT ![e] = 0] /\ alive' = alive \ {running[e]}
  BY <1>1 DEF G!Take, G!Same, ImagesInv, ImageTypes, CallFits, Calling
<1>2. /\ call' \in [Callers -> Calling] /\ \A d \in Callers \ {c} : call'[d] = call[d]
      /\ call'[c].at = next /\ call'[c].op = call[c].op /\ call'[c].engine = e /\ call'[c].sidecar = call[c].sidecar
  BY <1>0, <1>1, CallGoes DEF G!Take, ImagePlaces, G!Locked
<1> HIDE DEF e
<1>3. running' \in [G!Engines -> G!Sidecars \cup {0}] /\ running'[e] = 0 /\ \A x \in G!Engines : x # e => running'[x] = running[x]
  BY <1>0 DEF ImageTypes
<1>4. ImageTypes'
  BY <1>0, <1>2, <1>3 DEF ImageTypes
<1>5. \A d \in Callers \ {c} : call[d].at \notin G!Locked
  BY <1>1 DEF ImagesInv, OneLocks, G!Locked
<1>6. e <= current /\ (e # current => running[current] = 0) /\ call[c].sidecar = 0 /\ current \in G!Engines
  BY <1>0, <1>1 DEF ImagesInv, CallFits, G!Locked, G!Engines, ImageTypes, e
<1>7. running'[current] = 0
  BY <1>3, <1>6
<1>8. ASSUME NEW d \in Callers PROVE CallFits(d)'
  <2>1. CASE d = c
    <3>1. call[c].op = "apply" => current <= MaxChanges BY DEF ImagesInv, CallFits
    <3>2. e # 0 BY <1>0 DEF G!Engines
    <3> QED BY <1>0, <1>1, <1>2, <1>3, <1>6, <1>7, <2>1, <3>1, <3>2 DEF CallFits
  <2>2. CASE d # c
    <3>1. CallFits(d) BY DEF ImagesInv
    <3> QED BY <1>0, <1>2, <1>5, <2>2, <3>1 DEF CallFits, G!Locked
  <2> QED BY <2>1, <2>2
<1>9. OneLocks' /\ OneApplies'
  BY <1>1, <1>2, <1>5 DEF ImagesInv, OneLocks, OneApplies
<1>10. NewIsEmpty'
  BY <1>0, <1>3 DEF ImagesInv, NewIsEmpty
<1>11. AllAreKept'
  <2> SUFFICES ASSUME NEW s \in alive' PROVE s \in G!Kept' BY DEF AllAreKept
  <2>1. s \in alive /\ s # running[e] /\ s \in G!Sidecars BY <1>0 DEF ImageTypes
  <2>2. s \in G!Kept BY <2>1 DEF ImagesInv, AllAreKept
  <2>3. CASE \E x \in G!Engines : running[x] = s /\ G!Held(x)
    <3>1. PICK x \in G!Engines : running[x] = s /\ G!Held(x) BY <2>3
    <3>2. running'[x] = s BY <1>3, <2>1, <3>1
    <3>3. G!Held(x)' BY <1>0, <1>2, <3>1 DEF G!Held, e
    <3> QED BY <2>1, <3>2, <3>3 DEF G!Kept
  <2>4. CASE \E d \in Callers : call[d].sidecar = s BY <1>2, <2>1, <2>4 DEF G!Kept
  <2> QED BY <2>2, <2>3, <2>4 DEF G!Kept
<1>12. Recorded'
  BY <1>0, <1>7 DEF Recorded
<1> QED BY <1>4, <1>8, <1>9, <1>10, <1>11, <1>12 DEF ImagesInv

(* The record is cleared; a change of settings lets the engine go.           *)
LEMMA ClearKeeps ==
  ASSUME ImagesInv, NEW c \in Callers, G!Clear(c)
  PROVE  ImagesInv'
<1>0. /\ call[c].at = "clear" /\ record' = "none" /\ UNCHANGED <<current, running, holds, torn, spawned>> /\ ImageTypes
      /\ call[c] \in Calling /\ running[current] = 0
  BY DEF G!Clear, G!Same, G!At, ImagesInv, ImageTypes, CallFits, G!Locked, G!Engines, Calling
<1>1. CASE call[c].op = "apply"
  <2>1. call' = [call EXCEPT ![c].at = "rebuild", ![c].engine = 0] /\ alive' = alive \cap G!Kept' BY <1>1 DEF G!Clear
  <2> DEFINE r == [call[c] EXCEPT !.at = "rebuild", !.engine = 0]
  <2>2. r \in Calling /\ r.at = "rebuild" /\ r.op = call[c].op /\ r.engine = 0 /\ r.sidecar = call[c].sidecar
    BY <1>0 DEF Calling, ImagePlaces, G!Locked, ImageTypes
  <2>3. call' = [call EXCEPT ![c] = r] BY <2>1
  <2> HIDE DEF r
  <2>4. /\ call' \in [Callers -> Calling] /\ \A d \in Callers \ {c} : call'[d] = call[d]
        /\ call'[c].at = "rebuild" /\ call'[c].op = "apply" /\ call'[c].engine = 0 /\ call'[c].sidecar = call[c].sidecar
    BY <1>0, <1>1, <2>2, <2>3 DEF ImageTypes
  <2>5. ImageTypes' BY <1>0, <2>1, <2>4 DEF ImageTypes
  <2>6. CallFits(c)' BY <1>0, <1>1, <2>4 DEF ImagesInv, CallFits, G!Engines, ImageTypes, G!Locked
  <2> QED BY <1>0, <1>1, <2>1, <2>4, <2>5, <2>6, StepKeeps DEF G!Locked
<1>2. CASE call[c].op # "apply"
  <2>1. G!Over(c) BY <1>2 DEF G!Clear
  <2>2. /\ call' \in [Callers -> Calling] /\ \A d \in Callers \ {c} : call'[d] = call[d]
        /\ call'[c].at = "none" /\ call'[c].op = "none" /\ call'[c].engine = 0 /\ call'[c].sidecar = 0
    BY <1>0, <2>1, CallEnds DEF G!Over
  <2>3. ImageTypes' BY <1>0, <2>1, <2>2 DEF ImageTypes, G!Over
  <2>4. CallFits(c)' BY <1>0, <2>2 DEF CallFits, G!Engines, ImageTypes, G!Locked
  <2> QED BY <1>0, <2>1, <2>2, <2>3, <2>4, StepKeeps DEF G!Locked, G!Over
<1> QED BY <1>1, <1>2

(* The new engine is in the old one's place, and empty.                      *)
LEMMA RebuildKeeps ==
  ASSUME MaxChanges \in Nat, ImagesInv, NEW c \in Callers, G!Rebuild(c)
  PROVE  ImagesInv'
<1>0. /\ call[c].at = "rebuild" /\ current' = current + 1 /\ UNCHANGED <<running, holds, record, torn, spawned>> /\ ImageTypes
      /\ G!Over(c) /\ alive' = alive \cap G!Kept'
  BY DEF G!Rebuild, G!Same, G!At, G!Over, ImagesInv
<1>1. current \in Nat /\ current' \in Nat /\ current' \in G!Engines /\ call[c].op = "apply"
  BY <1>0 DEF ImagesInv, CallFits, ImageTypes, G!Engines
<1>2. /\ call' \in [Callers -> Calling] /\ \A d \in Callers \ {c} : call'[d] = call[d]
      /\ call'[c].at = "none" /\ call'[c].op = "none" /\ call'[c].engine = 0 /\ call'[c].sidecar = 0
  BY <1>0, CallEnds DEF G!Over
<1>3. running[current'] = 0
  BY <1>0, <1>1 DEF ImagesInv, NewIsEmpty
<1>4. ImageTypes'
  BY <1>0, <1>1, <1>2 DEF ImageTypes
<1>5. ASSUME NEW d \in Callers PROVE CallFits(d)'
  <2>1. CASE d = c BY <1>0, <1>1, <1>2, <2>1 DEF CallFits, G!Locked
  <2>2. CASE d # c
    <3>1. CallFits(d) /\ call[d].op # "apply" BY <1>1, <2>2 DEF ImagesInv, OneApplies
    <3>2. call[d].engine \in Nat BY DEF ImagesInv, ImageTypes, Calling, G!Engines
    <3> QED BY <1>0, <1>1, <1>2, <1>3, <2>2, <3>1, <3>2 DEF CallFits
  <2> QED BY <2>1, <2>2
<1>6. OneLocks' /\ OneApplies'
  BY <1>2 DEF ImagesInv, OneLocks, OneApplies, G!Locked
<1>7. NewIsEmpty'
  BY <1>0, <1>1 DEF ImagesInv, NewIsEmpty, G!Engines
<1>8. AllAreKept' /\ Recorded'
  BY <1>0, <1>3 DEF AllAreKept, Recorded
<1> QED BY <1>4, <1>5, <1>6, <1>7, <1>8 DEF ImagesInv

(* A new sidecar is its load's.                                              *)
LEMMA SpawnKeeps ==
  ASSUME MaxSidecars \in Nat, ImagesInv, NEW c \in Callers, G!Spawn(c)
  PROVE  ImagesInv'
<1>0. /\ call[c].at = "spawn" /\ UNCHANGED <<current, running, holds, record, torn>> /\ ImageTypes /\ call[c] \in Calling
  BY DEF G!Spawn, G!At, ImagesInv, ImageTypes
<1>1. CASE G!Over(c) /\ UNCHANGED spawned BY <1>0, <1>1, EndKeeps DEF ImageTypes
<1>2. ASSUME spawned < MaxSidecars, spawned' = spawned + 1, alive' = alive \cup {spawned'},
             call' = [call EXCEPT ![c].at = "health", ![c].sidecar = spawned']
      PROVE  ImagesInv'
  <2>0. spawned' \in Nat /\ spawned' # 0 /\ spawned' \in G!Sidecars
    BY <1>0, <1>2 DEF ImageTypes, G!Sidecars
  <2> DEFINE s == spawned'
             r == [call[c] EXCEPT !.at = "health", !.sidecar = s]
  <2>1. s \in G!Sidecars /\ s # 0 BY <2>0
  <2>2. call' = [call EXCEPT ![c] = r] BY <1>2
  <2> HIDE DEF s
  <2>3. r \in Calling /\ r.at = "health" /\ r.op = call[c].op /\ r.engine = call[c].engine /\ r.sidecar = s
    BY <1>0, <2>1 DEF Calling, ImagePlaces, G!Locked
  <2> HIDE DEF r
  <2>4. /\ call' \in [Callers -> Calling] /\ \A d \in Callers \ {c} : call'[d] = call[d]
        /\ call'[c].at = "health" /\ call'[c].op = call[c].op /\ call'[c].engine = call[c].engine /\ call'[c].sidecar = s
    BY <1>0, <2>2, <2>3 DEF ImageTypes
  <2>5. alive' = alive \cup {s} BY <1>2 DEF s
  <2>6. ImageTypes' BY <1>0, <2>0, <2>1, <2>4, <2>5 DEF ImageTypes
  <2>7. CallFits(c)' BY <1>0, <2>1, <2>4 DEF ImagesInv, CallFits, G!Locked
  <2>8. alive' \subseteq G!Kept'
    <3>1. s \in G!Kept' BY <2>1, <2>4 DEF G!Kept
    <3>2. call[c].sidecar = 0 BY <1>0 DEF ImagesInv, CallFits
    <3>3. 0 \notin G!Sidecars BY DEF G!Sidecars
    <3>4. \A e \in G!Engines : G!Held(e) => G!Held(e)' BY <1>0, <2>4 DEF G!Held
    <3>5. \A x \in G!Sidecars : x \in G!Kept => x \in G!Kept' BY <1>0, <2>4, <3>2, <3>3, <3>4 DEF G!Kept
    <3> QED BY <1>0, <2>5, <3>1, <3>5 DEF ImagesInv, AllAreKept, ImageTypes
  <2> QED BY <1>0, <2>4, <2>6, <2>7, <2>8, StepKeeps DEF G!Locked
<1> QED BY <1>1, <1>2 DEF G!Spawn

(* It answers, as does one that is asked for pictures ...                    *)
LEMMA HealthKeeps ==
  ASSUME ImagesInv, NEW c \in Callers, G!Health(c) \/ G!Base(c)
  PROVE  ImagesInv'
<1>0. /\ call[c].at \in {"health", "base"} /\ UNCHANGED <<current, running, holds, record, torn, spawned>> /\ ImageTypes
  BY DEF G!Health, G!Base, G!Same, G!At, ImagesInv
<1>1. CASE G!Over(c) BY <1>0, <1>1, EndKeeps DEF ImageTypes
<1>2. ASSUME NEW place \in {"post", "asked"}, G!Go(c, place), call[c].at = (IF place = "post" THEN "health" ELSE "base")
      PROVE  ImagesInv'
  <2>0. place \in ImagePlaces BY DEF ImagePlaces, G!Locked
  <2>1. /\ call' \in [Callers -> Calling] /\ \A d \in Callers \ {c} : call'[d] = call[d]
        /\ call'[c].at = place /\ call'[c].op = call[c].op /\ call'[c].engine = call[c].engine
        /\ call'[c].model = call[c].model /\ call'[c].sidecar = call[c].sidecar
    BY <1>0, <1>2, <2>0, CallGoes DEF G!Go
  <2>2. ImageTypes' BY <1>0, <1>2, <2>1 DEF ImageTypes, G!Go
  <2>3. CallFits(c)' BY <1>0, <1>2, <2>1 DEF ImagesInv, CallFits, G!Locked
  <2>4. alive' \subseteq G!Kept' BY <1>0, <1>2, <2>0, GoKeepsAll DEF ImagesInv, AllAreKept
  <2> QED BY <1>0, <1>2, <2>1, <2>2, <2>3, <2>4, StepKeeps DEF G!Locked
<1> QED BY <1>1, <1>2 DEF G!Health, G!Base, G!At

(* ... takes the model ...                                                   *)
LEMMA PostKeeps ==
  ASSUME ImagesInv, NEW c \in Callers, G!Post(c)
  PROVE  ImagesInv'
<1>0. /\ call[c].at = "post" /\ UNCHANGED <<current, running, record, torn, spawned>> /\ ImageTypes
  BY DEF G!Post, G!Same, G!At, ImagesInv
<1>1. CASE G!Over(c) /\ UNCHANGED holds BY <1>0, <1>1, EndKeeps DEF ImageTypes
<1>2. ASSUME holds' = [holds EXCEPT ![call[c].sidecar] = call[c].model], G!Go(c, "put")
      PROVE  ImagesInv'
  <2>0. "put" \in ImagePlaces BY DEF ImagePlaces, G!Locked
  <2>1. /\ call' \in [Callers -> Calling] /\ \A d \in Callers \ {c} : call'[d] = call[d]
        /\ call'[c].at = "put" /\ call'[c].op = call[c].op /\ call'[c].engine = call[c].engine
        /\ call'[c].model = call[c].model /\ call'[c].sidecar = call[c].sidecar
    BY <1>0, <1>2, <2>0, CallGoes DEF G!Go
  <2>2. call[c].sidecar \in G!Sidecars /\ call[c].model \in Images \cup {"none"} /\ call[c].engine \in G!Engines
    BY <1>0 DEF ImagesInv, CallFits, ImageTypes, Calling
  <2>3. holds' \in [G!Sidecars -> Images \cup {"none"}] /\ holds'[call[c].sidecar] = call[c].model
    BY <1>0, <1>2, <2>2 DEF ImageTypes
  <2>4. ImageTypes' BY <1>0, <1>2, <2>1, <2>3 DEF ImageTypes, G!Go
  <2>5. \A d \in Callers \ {c} : call[d].at \notin G!Locked BY <1>0 DEF ImagesInv, OneLocks, G!Locked
  <2>6. ASSUME NEW d \in Callers PROVE CallFits(d)'
    <3>1. CASE d = c
      <4>1. CallFits(c) BY DEF ImagesInv
      <4> QED BY <1>0, <2>1, <2>3, <3>1, <4>1 DEF CallFits, G!Locked
    <3>2. CASE d # c
      <4>1. CallFits(d) BY DEF ImagesInv
      <4> QED BY <1>0, <2>1, <2>5, <3>2, <4>1 DEF CallFits, G!Locked
    <3> QED BY <3>1, <3>2
  <2>7. OneLocks' /\ OneApplies' BY <1>0, <2>1 DEF ImagesInv, OneLocks, OneApplies, G!Locked
  <2>8. NewIsEmpty' BY <1>0 DEF ImagesInv, NewIsEmpty
  <2>9. AllAreKept' BY <1>0, <1>2, <2>0, GoKeepsAll DEF ImagesInv
  <2>10. Recorded'
    <3>1. running[current] = 0 BY <1>0, <2>2 DEF ImagesInv, CallFits, G!Locked, G!Engines
    <3> QED BY <1>0, <3>1 DEF Recorded
  <2> QED BY <2>4, <2>6, <2>7, <2>8, <2>9, <2>10 DEF ImagesInv
<1> QED BY <1>1, <1>2 DEF G!Post

(* ... is put in its engine ...                                              *)
LEMMA PutKeeps ==
  ASSUME ImagesInv, NEW c \in Callers, G!Put(c)
  PROVE  ImagesInv'
<1> DEFINE e == call[c].engine
           s == call[c].sidecar
<1>0. /\ call[c].at = "put" /\ UNCHANGED <<current, holds, record, torn, spawned, alive>> /\ ImageTypes
      /\ running' = [running EXCEPT ![e] = s] /\ G!Go(c, "record")
  BY DEF G!Put, G!Same, G!At, G!Go, ImagesInv
<1>1. "record" \in ImagePlaces BY DEF ImagePlaces, G!Locked
<1>2. /\ call' \in [Callers -> Calling] /\ \A d \in Callers \ {c} : call'[d] = call[d]
      /\ call'[c].at = "record" /\ call'[c].op = call[c].op /\ call'[c].engine = e
      /\ call'[c].model = call[c].model /\ call'[c].sidecar = s
  BY <1>0, <1>1, CallGoes DEF G!Go
<1>3. s \in G!Sidecars /\ e \in G!Engines /\ running[e] = 0 /\ e <= current /\ holds[s] = call[c].model
      /\ (e # current => running[current] = 0) /\ 0 \notin G!Sidecars /\ 0 \notin G!Engines
  BY <1>0 DEF ImagesInv, CallFits, ImageTypes, Calling, G!Locked, G!Engines, G!Sidecars
<1>4. /\ running' \in [G!Engines -> G!Sidecars \cup {0}] /\ running'[e] = s
      /\ \A x \in G!Engines : x # e => running'[x] = running[x]
  BY <1>0, <1>3 DEF ImageTypes
<1>5. CallFits(c) /\ \A d \in Callers \ {c} : call[d].at \notin G!Locked
  BY <1>0 DEF ImagesInv, OneLocks, G!Locked
<1>6. current \in G!Engines BY <1>0 DEF ImageTypes
<1> HIDE DEF e, s
<1>7. ImageTypes'
  BY <1>0, <1>2, <1>4 DEF ImageTypes
<1>8. CallFits(c)'
  BY <1>0, <1>2, <1>3, <1>4, <1>5, <1>6 DEF CallFits, e, s
<1>9. ASSUME NEW d \in Callers PROVE CallFits(d)'
  <2>1. CASE d = c BY <1>8, <2>1
  <2>2. CASE d # c
    <3>1. CallFits(d) BY DEF ImagesInv
    <3> QED BY <1>0, <1>2, <1>5, <2>2, <3>1 DEF CallFits, G!Locked
  <2> QED BY <2>1, <2>2
<1>10. OneLocks' /\ OneApplies'
  BY <1>0, <1>2, <1>5 DEF ImagesInv, OneLocks, OneApplies
<1>11. NewIsEmpty'
  <2> SUFFICES ASSUME NEW x \in G!Engines, x > current PROVE running'[x] = 0
    BY <1>0 DEF NewIsEmpty
  <2>1. running[x] = 0 BY DEF ImagesInv, NewIsEmpty
  <2>2. x # e BY <1>3, <1>6 DEF G!Engines
  <2> QED BY <1>4, <2>1, <2>2
<1>12. AllAreKept'
  <2>1. \A x \in G!Engines : G!Held(x) => G!Held(x)' BY <1>0, <1>2 DEF G!Held, e
  <2>2. \A x \in G!Sidecars : x \in G!Kept => x \in G!Kept' BY <1>2, <1>3, <1>4, <2>1 DEF G!Kept, s
  <2> QED BY <1>0, <2>2 DEF ImagesInv, AllAreKept, ImageTypes
<1>13. Recorded'
  BY <1>2 DEF Recorded
<1> QED BY <1>7, <1>9, <1>10, <1>11, <1>12, <1>13 DEF ImagesInv

(* ... and the record names what it has.                                     *)
LEMMA RecordKeeps ==
  ASSUME ImagesInv, NEW c \in Callers, G!Record(c)
  PROVE  ImagesInv'
<1>0. /\ call[c].at = "record" /\ UNCHANGED <<current, running, holds, torn, spawned>> /\ ImageTypes
      /\ record' = call[c].model /\ G!Over(c)
  BY DEF G!Record, G!Same, G!At, ImagesInv
<1>1. /\ call' \in [Callers -> Calling] /\ \A d \in Callers \ {c} : call'[d] = call[d]
      /\ call'[c].at = "none" /\ call'[c].op = "none" /\ call'[c].engine = 0 /\ call'[c].sidecar = 0
  BY <1>0, CallEnds DEF G!Over
<1>2. call[c].model \in Images \cup {"none"} /\ call[c].engine \in G!Engines BY <1>0 DEF ImagesInv, CallFits, ImageTypes, Calling
<1>3. ImageTypes' BY <1>0, <1>1, <1>2 DEF ImageTypes, G!Over
<1>4. ASSUME NEW d \in Callers PROVE CallFits(d)'
  <2>1. CASE d = c BY <1>0, <1>1, <2>1 DEF CallFits, G!Engines, ImageTypes, G!Locked
  <2>2. CASE d # c BY <1>0, <1>1, <2>2 DEF ImagesInv, CallFits
  <2> QED BY <2>1, <2>2
<1>5. OneLocks' /\ OneApplies'
  BY <1>1 DEF ImagesInv, OneLocks, OneApplies, G!Locked
<1>6. NewIsEmpty' /\ AllAreKept'
  BY <1>0 DEF ImagesInv, NewIsEmpty, AllAreKept, G!Over
<1>7. Recorded'
  <2>1. call[c].engine = current => record' = holds[running[current]]
    BY <1>0 DEF ImagesInv, CallFits
  <2>2. call[c].engine # current => running[current] = 0
    BY <1>0, <1>2 DEF ImagesInv, CallFits, G!Locked, G!Engines
  <2> QED BY <1>0, <2>1, <2>2 DEF Recorded
<1> QED BY <1>3, <1>4, <1>5, <1>6, <1>7 DEF ImagesInv

(* A request begins; one for pictures takes the engine of now, and ends.     *)
LEMMA BeginKeeps ==
  ASSUME ImagesInv, NEW c \in Callers, NEW m \in Images \cup {"none"},
         NEW o \in {"load", "unload", "apply", "generate"}, NEW place \in {"lock", "generate"}, G!Begin(c, o, m, place),
         o = "apply" => current <= MaxChanges /\ \A d \in Callers : call[d].op # "apply"
  PROVE  ImagesInv'
<1>0. call[c].at = "none" /\ UNCHANGED <<current, running, alive, holds, record, torn, spawned>> /\ ImageTypes
  BY DEF G!Begin, G!At, ImagesInv
<1> DEFINE r == [G!NoCall EXCEPT !.at = place, !.op = o, !.model = m]
<1>1. r \in Calling /\ r.at = place /\ r.op = o /\ r.engine = 0 /\ r.sidecar = 0
  BY DEF G!NoCall, Calling, ImagePlaces
<1>2. call' = [call EXCEPT ![c] = r]
  BY DEF G!Begin
<1> HIDE DEF r
<1>3. /\ call' \in [Callers -> Calling] /\ \A d \in Callers \ {c} : call'[d] = call[d]
      /\ call'[c].at = place /\ call'[c].op = o /\ call'[c].engine = 0 /\ call'[c].sidecar = 0
  BY <1>0, <1>1, <1>2 DEF ImageTypes
<1>4. CallFits(c) /\ call[c].sidecar = 0 /\ call[c].engine = 0
  BY <1>0 DEF ImagesInv, CallFits
<1>5. ImageTypes'
  BY <1>0, <1>3 DEF ImageTypes
<1>6. ASSUME NEW d \in Callers PROVE CallFits(d)'
  <2>1. CASE d = c BY <1>0, <1>3, <1>4, <2>1 DEF CallFits, G!Locked
  <2>2. CASE d # c BY <1>0, <1>3, <2>2 DEF ImagesInv, CallFits
  <2> QED BY <2>1, <2>2
<1>7. OneLocks' /\ OneApplies'
  BY <1>3 DEF ImagesInv, OneLocks, OneApplies, G!Locked
<1>8. NewIsEmpty'
  BY <1>0 DEF ImagesInv, NewIsEmpty
<1>9. AllAreKept'
  <2>1. 0 \notin G!Sidecars /\ 0 \notin G!Engines BY DEF G!Sidecars, G!Engines
  <2>2. \A e \in G!Engines : G!Held(e) => G!Held(e)' BY <1>0, <1>3, <1>4, <2>1 DEF G!Held
  <2>3. \A s \in G!Sidecars : s \in G!Kept => s \in G!Kept' BY <1>0, <1>3, <1>4, <2>1, <2>2 DEF G!Kept
  <2> QED BY <1>0, <2>3 DEF ImagesInv, AllAreKept, ImageTypes
<1>10. Recorded'
  BY <1>0, <1>3 DEF ImagesInv, Recorded
<1> QED BY <1>5, <1>6, <1>7, <1>8, <1>9, <1>10 DEF ImagesInv

(* A request for pictures holds the engine it found.                         *)
LEMMA GenerateKeeps ==
  ASSUME ImagesInv, NEW c \in Callers, G!Generate(c)
  PROVE  ImagesInv'
<1>0. /\ call[c].at = "generate" /\ UNCHANGED <<current, running, alive, holds, record, torn, spawned>> /\ ImageTypes
      /\ call[c] \in Calling
  BY DEF G!Generate, G!Same, G!At, ImagesInv, ImageTypes
<1> DEFINE r == [call[c] EXCEPT !.at = "base", !.engine = current]
<1>1. r \in Calling /\ r.at = "base" /\ r.op = call[c].op /\ r.engine = current /\ r.sidecar = call[c].sidecar
  BY <1>0 DEF Calling, ImagePlaces, ImageTypes
<1>2. call' = [call EXCEPT ![c] = r]
  BY DEF G!Generate
<1> HIDE DEF r
<1>3. /\ call' \in [Callers -> Calling] /\ \A d \in Callers \ {c} : call'[d] = call[d]
      /\ call'[c].at = "base" /\ call'[c].op = call[c].op /\ call'[c].engine = current /\ call'[c].sidecar = call[c].sidecar
  BY <1>0, <1>1, <1>2 DEF ImageTypes
<1>4. CallFits(c) /\ call[c].engine = 0
  BY <1>0 DEF ImagesInv, CallFits
<1>5. ImageTypes'
  BY <1>0, <1>3 DEF ImageTypes
<1>6. CallFits(c)'
  BY <1>0, <1>3, <1>4 DEF CallFits, G!Engines, ImageTypes, G!Locked
<1>7. alive' \subseteq G!Kept'
  <2>1. 0 \notin G!Engines BY DEF G!Engines
  <2>2. \A e \in G!Engines : G!Held(e) => G!Held(e)' BY <1>0, <1>3, <1>4, <2>1 DEF G!Held
  <2>3. \A s \in G!Sidecars : s \in G!Kept => s \in G!Kept' BY <1>0, <1>3, <2>2 DEF G!Kept
  <2> QED BY <1>0, <2>3 DEF ImagesInv, AllAreKept, ImageTypes
<1> QED BY <1>0, <1>3, <1>5, <1>6, <1>7, StepKeeps DEF G!Locked

(* Every step keeps it.                                                      *)
LEMMA ImagesStay ==
  ASSUME MaxChanges \in Nat, MaxSidecars \in Nat, ImagesInv, G!Next
  PROVE  ImagesInv'
<1>1. ASSUME NEW c \in Callers, G!Answer(c) \/ G!HangUp(c) PROVE ImagesInv'
  <2>1. G!Over(c) /\ UNCHANGED <<current, running, holds, record, spawned>> BY <1>1 DEF G!Answer, G!HangUp, G!Same
  <2>2. torn' \in BOOLEAN /\ (torn \/ call[c].at = "record" => torn')
    BY <1>1 DEF G!Answer, G!HangUp, G!Same, G!At, ImagesInv, ImageTypes
  <2> QED BY <2>1, <2>2, EndKeeps DEF ImagesInv, ImageTypes
<1>2. ASSUME NEW c \in Callers, G!Step(c) PROVE ImagesInv'
  BY <1>1, <1>2, LockKeeps, TakeEngineKeeps, TakeKeeps, ClearKeeps, RebuildKeeps, SpawnKeeps, HealthKeeps, PostKeeps, PutKeeps,
     RecordKeeps, GenerateKeeps DEF G!Step
<1>3. ASSUME NEW c \in Callers, G!unload_image_model(c) \/ G!apply_settings(c) \/ G!generate_image(c) PROVE ImagesInv'
  BY <1>3, BeginKeeps DEF G!unload_image_model, G!apply_settings, G!generate_image
<1>4. ASSUME NEW c \in Callers, NEW m \in Images, G!load_image_model(c, m) PROVE ImagesInv'
  BY <1>4, BeginKeeps DEF G!load_image_model
<1>5. ASSUME G!Die PROVE ImagesInv'
  <2>1. alive' \subseteq alive /\ UNCHANGED <<current, running, holds, record, call, torn, spawned>> BY <1>5 DEF G!Die, G!Same
  <2> QED BY <2>1 DEF ImagesInv, ImageTypes, CallFits, OneLocks, OneApplies, NewIsEmpty, AllAreKept, Recorded, G!Kept, G!Held
<1> QED BY <1>1, <1>2, <1>3, <1>4, <1>5 DEF G!Next

(* It is true when nothing was asked for yet.                                *)
LEMMA ImagesAtFirst ==
  ASSUME MaxChanges \in Nat, G!Init
  PROVE  ImagesInv
<1>1. G!NoCall \in Calling /\ 1 \in G!Engines
  BY DEF Calling, G!NoCall, ImagePlaces, G!Engines
<1>2. \A c \in Callers : call[c].at = "none" /\ call[c].op = "none" /\ call[c].engine = 0 /\ call[c].sidecar = 0
  BY DEF G!Init, G!NoCall
<1>3. ImageTypes
  BY <1>1 DEF G!Init, ImageTypes
<1>4. \A c \in Callers : CallFits(c)
  BY <1>2 DEF G!Init, CallFits, G!Locked
<1>5. OneLocks /\ OneApplies
  BY <1>2 DEF OneLocks, OneApplies, G!Locked
<1>6. NewIsEmpty /\ AllAreKept /\ Recorded
  BY <1>1 DEF G!Init, NewIsEmpty, AllAreKept, Recorded
<1> QED BY <1>3, <1>4, <1>5, <1>6 DEF ImagesInv

(* Two sidecars run only while a request holds an engine that was replaced,  *)
(* and between loads the record names the one that is in the engine.         *)
LEMMA ImagesAreSafe == ImagesInv => G!SidecarsSafe
<1> SUFFICES ASSUME ImagesInv PROVE G!SidecarsSafe
  OBVIOUS
<1>1. G!TypeOK
  BY DEF ImagesInv, ImageTypes, Calling, ImagePlaces, G!TypeOK
<1>2. G!RecordNamesSidecar
  BY DEF ImagesInv, Recorded, G!RecordNamesSidecar, G!Free, G!Locked
<1>3. ASSUME \A c \in Callers : call[c].engine \in {0, current}
      PROVE  Cardinality(alive) <= 1
  <2>1. \A s, t \in alive : s = t
    <3>1. ASSUME NEW s \in alive PROVE s = running[current] \/ \E c \in Callers : call[c].sidecar = s /\ running[current] \in {0, s}
      <4>1. s \in G!Kept /\ s \in G!Sidecars BY DEF ImagesInv, AllAreKept, ImageTypes
      <4>2. s # 0 BY <4>1 DEF G!Sidecars
      <4>3. CASE \E e \in G!Engines : running[e] = s /\ G!Held(e)
        <5>1. 0 \notin G!Engines BY DEF G!Engines
        <5> QED BY <1>3, <4>3, <5>1 DEF G!Held
      <4>4. CASE \E c \in Callers : call[c].sidecar = s
        <5>1. PICK c \in Callers : call[c].sidecar = s BY <4>4
        <5>2. CallFits(c) BY DEF ImagesInv
        <5>3. call[c].at \in {"health", "post", "put", "record"} /\ call[c].engine = current
          BY <1>3, <4>2, <5>1, <5>2 DEF CallFits
        <5>4. running[current] \in {0, s} BY <5>1, <5>2, <5>3 DEF CallFits
        <5> QED BY <5>1, <5>4
      <4> QED BY <4>1, <4>3, <4>4 DEF G!Kept
    <3>2. ASSUME NEW c \in Callers, NEW d \in Callers, call[c].sidecar # 0, call[d].sidecar # 0 PROVE c = d
      BY <3>2 DEF ImagesInv, CallFits, OneLocks, G!Locked
    <3>3. 0 \notin alive BY DEF ImagesInv, ImageTypes, G!Sidecars
    <3> QED BY <3>1, <3>2, <3>3
  <2>2. CASE alive = {} BY <2>2, FS_EmptySet
  <2>3. CASE alive # {}
    <3>1. PICK s \in alive : TRUE BY <2>3
    <3>2. alive = {s} BY <2>1
    <3>3. Cardinality({s}) = 1 BY FS_Singleton
    <3> QED BY <3>2, <3>3
  <2> QED BY <2>2, <2>3
<1>4. G!OneSidecar
  BY <1>3 DEF G!OneSidecar, G!Cardinality, Cardinality
<1> QED BY <1>1, <1>2, <1>4 DEF G!SidecarsSafe

-----------------------------------------------------------------------------
(* An answer as it streams: what the parser has made of the lines so far.    *)

Parsed == [text: Nat, usage: BOOLEAN, finish: BOOLEAN, error: BOOLEAN, done: BOOLEAN]

\* Of the first d lines of s, those before the end and the end itself.
Upto(s, d) == {i \in 1 .. d : \A j \in 1 .. i - 1 : s[j] # "done"}

Fits(s, p, d) ==
  /\ p.text = Cardinality({i \in Upto(s, d) : s[i] = "text"})
  /\ p.usage <=> \E i \in Upto(s, d) : s[i] = "usage"
  /\ p.finish <=> \E i \in Upto(s, d) : s[i] = "finish"
  /\ p.error <=> \E i \in Upto(s, d) : s[i] = "error"
  /\ p.done <=> \E i \in Upto(s, d) : s[i] = "done"
  /\ p.done <=> \E i \in 1 .. d : s[i] = "done"

(* A new parser fits no lines.                                               *)
LEMMA NewFits ==
  ASSUME NEW s PROVE E!NewParser \in Parsed /\ Fits(s, E!NewParser, 0)
<1>1. Upto(s, 0) = {} /\ {i \in Upto(s, 0) : s[i] = "text"} = {}
  BY DEF Upto
<1>2. Cardinality({}) = 0
  BY FS_EmptySet
<1> QED BY <1>1, <1>2 DEF E!NewParser, Parsed, Fits

(* A line more, and it fits a line more (SseParser::push).                   *)
LEMMA ReadFits ==
  ASSUME NEW s \in Seq(E!LineKinds), NEW d \in Nat, d < Len(s), NEW p \in Parsed, Fits(s, p, d), NEW t \in Nat
  PROVE  \E q \in Parsed, u \in Nat :
           /\ E!Read([parser |-> p, texts |-> t], s[d + 1]) = [parser |-> q, texts |-> u]
           /\ Fits(s, q, d + 1)
           /\ u + p.text = t + q.text
<1> DEFINE H == Upto(s, d)
           K == Upto(s, d + 1)
           T == {i \in H : s[i] = "text"}
           line == s[d + 1]
           st == [parser |-> p, texts |-> t]
<1>0. line \in E!LineKinds /\ p.text \in Nat
  BY DEF Parsed
<1>1. CASE p.done
  <2>1. \E j \in 1 .. d : s[j] = "done" BY <1>1 DEF Fits
  <2>2. K = H BY <2>1 DEF Upto
  <2>3. \E i \in 1 .. d + 1 : s[i] = "done" BY <2>1
  <2>4. Fits(s, p, d + 1) BY <1>1, <2>1, <2>2, <2>3 DEF Fits
  <2>5. E!Read(st, line) = st BY <1>1 DEF E!Read
  <2> QED BY <2>4, <2>5
<1>2. CASE ~p.done
  <2>1. \A j \in 1 .. d : s[j] # "done" BY <1>2 DEF Fits
  <2>2. H = 1 .. d /\ K = H \cup {d + 1} /\ d + 1 \notin H BY <2>1 DEF Upto
  <2>3. IsFiniteSet(T) /\ d + 1 \notin T /\ Cardinality(T) = p.text
    <3>1. IsFiniteSet(1 .. d) BY FS_Interval
    <3>2. T \subseteq 1 .. d BY <2>2
    <3>3. IsFiniteSet(T) BY <3>1, <3>2, FS_Subset
    <3> QED BY <2>2, <3>3 DEF Fits
  <2>4. Cardinality({i \in K : s[i] = "text"}) = p.text + (IF line = "text" THEN 1 ELSE 0)
    <3>1. CASE line = "text"
      <4>1. {i \in K : s[i] = "text"} = T \cup {d + 1} BY <2>2, <3>1
      <4>2. Cardinality(T \cup {d + 1}) = Cardinality(T) + 1 BY <2>3, FS_AddElement
      <4> QED BY <2>3, <3>1, <4>1, <4>2
    <3>2. CASE line # "text"
      <4>1. {i \in K : s[i] = "text"} = T BY <2>2, <3>2
      <4>2. p.text + (IF line = "text" THEN 1 ELSE 0) = p.text BY <1>0, <3>2
      <4> HIDE DEF T, line
      <4> QED BY <2>3, <4>1, <4>2
    <3> QED BY <3>1, <3>2
  <2>5. \A k : (\E i \in K : s[i] = k) <=> (\E i \in H : s[i] = k) \/ line = k
    BY <2>2
  <2>6. (\E i \in 1 .. d + 1 : s[i] = "done") <=> (line = "done")
    BY <2>1
  <2>7. ASSUME NEW q \in Parsed,
               q.text = p.text + (IF line = "text" THEN 1 ELSE 0),
               q.usage <=> p.usage \/ line = "usage", q.finish <=> p.finish \/ line = "finish",
               q.error <=> p.error \/ line = "error", q.done <=> line = "done"
        PROVE  Fits(s, q, d + 1)
    <3> HIDE DEF H, K, T, line
    <3>1. ~\E i \in H : s[i] = "done" BY <2>1, <2>2
    <3>2. /\ p.usage <=> \E i \in H : s[i] = "usage"
          /\ p.finish <=> \E i \in H : s[i] = "finish"
          /\ p.error <=> \E i \in H : s[i] = "error"
      BY DEF Fits, H
    <3>3. q.text = Cardinality({i \in K : s[i] = "text"}) BY <2>4, <2>7
    <3>4. q.usage <=> \E i \in K : s[i] = "usage" BY <2>5, <2>7, <3>2
    <3>5. q.finish <=> \E i \in K : s[i] = "finish" BY <2>5, <2>7, <3>2
    <3>6. q.error <=> \E i \in K : s[i] = "error" BY <2>5, <2>7, <3>2
    <3>7. q.done <=> \E i \in K : s[i] = "done" BY <2>5, <2>7, <3>1
    <3>8. q.done <=> \E i \in 1 .. d + 1 : s[i] = "done" BY <2>6, <2>7
    <3> QED BY <3>3, <3>4, <3>5, <3>6, <3>7, <3>8 DEF Fits, K
  <2> HIDE DEF H, K, T
  <2>8. ASSUME NEW q \in Parsed, NEW u \in Nat, E!Read(st, line) = [parser |-> q, texts |-> u],
               q.text = p.text + (IF line = "text" THEN 1 ELSE 0), u = t + (IF line = "text" THEN 1 ELSE 0),
               q.usage <=> p.usage \/ line = "usage", q.finish <=> p.finish \/ line = "finish",
               q.error <=> p.error \/ line = "error", q.done <=> line = "done"
        PROVE  /\ E!Read(st, line) = [parser |-> q, texts |-> u] /\ Fits(s, q, d + 1) /\ u + p.text = t + q.text
    <3>1. Fits(s, q, d + 1)
      <4> HIDE DEF line, st
      <4> QED BY <2>7, <2>8
    <3>2. u + p.text = t + q.text
      <4> HIDE DEF line, st
      <4> QED BY <1>0, <2>8
    <3> QED BY <2>8, <3>1, <3>2
  <2>9. CASE line = "text"
    <3> DEFINE q == [p EXCEPT !.text = @ + 1]
    <3>1. q \in Parsed /\ t + 1 \in Nat BY DEF Parsed
    <3>2. q.text = p.text + 1 /\ q.usage = p.usage /\ q.finish = p.finish /\ q.error = p.error /\ q.done = p.done
      BY DEF Parsed
    <3>3. E!Read(st, line) = [parser |-> q, texts |-> t + 1] BY <1>2, <2>9 DEF E!Read
    <3> HIDE DEF q, st, line
    <3> QED BY <1>2, <2>8, <2>9, <3>1, <3>2, <3>3 DEF st, line
  <2>10. CASE line = "usage"
    <3> DEFINE q == [p EXCEPT !.usage = TRUE]
    <3>1. q \in Parsed BY DEF Parsed
    <3>2. q.text = p.text /\ q.usage /\ q.finish = p.finish /\ q.error = p.error /\ q.done = p.done
      BY DEF Parsed
    <3>3. E!Read(st, line) = [parser |-> q, texts |-> t] BY <1>2, <2>10 DEF E!Read
    <3> HIDE DEF q, st, line
    <3> QED BY <1>0, <1>2, <2>8, <2>10, <3>1, <3>2, <3>3 DEF st, line
  <2>11. CASE line = "finish"
    <3> DEFINE q == [p EXCEPT !.finish = TRUE]
    <3>1. q \in Parsed BY DEF Parsed
    <3>2. q.text = p.text /\ q.usage = p.usage /\ q.finish /\ q.error = p.error /\ q.done = p.done
      BY DEF Parsed
    <3>3. E!Read(st, line) = [parser |-> q, texts |-> t] BY <1>2, <2>11 DEF E!Read
    <3> HIDE DEF q, st, line
    <3> QED BY <1>0, <1>2, <2>8, <2>11, <3>1, <3>2, <3>3 DEF st, line
  <2>12. CASE line = "error"
    <3> DEFINE q == [p EXCEPT !.error = TRUE]
    <3>1. q \in Parsed BY DEF Parsed
    <3>2. q.text = p.text /\ q.usage = p.usage /\ q.finish = p.finish /\ q.error /\ q.done = p.done
      BY DEF Parsed
    <3>3. E!Read(st, line) = [parser |-> q, texts |-> t] BY <1>2, <2>12 DEF E!Read
    <3> HIDE DEF q, st, line
    <3> QED BY <1>0, <1>2, <2>8, <2>12, <3>1, <3>2, <3>3 DEF st, line
  <2>13. CASE line = "done"
    <3> DEFINE q == [p EXCEPT !.done = TRUE]
    <3>1. q \in Parsed BY DEF Parsed
    <3>2. q.text = p.text /\ q.usage = p.usage /\ q.finish = p.finish /\ q.error = p.error /\ q.done
      BY DEF Parsed
    <3>3. E!Read(st, line) = [parser |-> q, texts |-> t] BY <1>2, <2>13 DEF E!Read
    <3> HIDE DEF q, st, line
    <3> QED BY <1>0, <1>2, <2>8, <2>13, <3>1, <3>2, <3>3 DEF st, line
  <2>14. CASE line = "noise"
    <3>1. E!Read(st, line) = [parser |-> p, texts |-> t] BY <1>2, <2>14 DEF E!Read
    <3> HIDE DEF st, line
    <3> QED BY <1>0, <1>2, <2>8, <2>14, <3>1 DEF st, line
  <2> QED BY <1>0, <2>9, <2>10, <2>11, <2>12, <2>13, <2>14 DEF E!LineKinds
<1> QED BY <1>1, <1>2

\* The states the parser goes through: f[n] is where it stands after n of the lines.
Parses(p, lines, f) ==
  f = [n \in 0 .. Len(lines) |-> IF n = 0 THEN [parser |-> p, texts |-> 0] ELSE E!Read(f[n - 1], lines[n])]

(* The recursion of push has a solution.                                     *)
LEMMA ParserRuns ==
  ASSUME NEW p, NEW lines, Len(lines) \in Nat
  PROVE  \E f : Parses(p, lines, f)
<1> DEFINE Base == [parser |-> p, texts |-> 0]
           Up(f, k) == f = [n \in 0 .. k |-> IF n = 0 THEN Base ELSE E!Read(f[n - 1], lines[n])]
           Bad == {k \in Nat : ~\E f : Up(f, k)}
<1>1. SUFFICES ASSUME Bad # {} PROVE FALSE
  <2>1. \E f : Up(f, Len(lines)) BY <1>1
  <2> QED BY <2>1 DEF Parses
<1>2. PICK k \in Bad : \A j \in Bad : k <= j
  <2> Bad \in SUBSET Nat OBVIOUS
  <2> HIDE DEF Bad
  <2> QED BY <1>1, Least
<1>3. k # 0
  <2>1. Up([n \in 0 .. 0 |-> Base], 0) OBVIOUS
  <2> QED BY <2>1, <1>2
<1>4. k - 1 \in Nat /\ k - 1 \notin Bad
  <2>1. k \in Nat BY <1>2
  <2> HIDE DEF Bad
  <2> QED BY <1>2, <1>3, <2>1
<1>5. PICK f : Up(f, k - 1)
  BY <1>4
<1> DEFINE g == [n \in 0 .. k |-> IF n = k THEN E!Read(f[k - 1], lines[k]) ELSE f[n]]
<1>6. \A n \in 0 .. k : g[n] = IF n = 0 THEN Base ELSE E!Read(g[n - 1], lines[n])
  <2> TAKE n \in 0 .. k
  <2> k \in Nat BY <1>2
  <2>1. CASE n = k BY <2>1, <1>3
  <2>2. CASE n # k
    <3>1. n \in 0 .. k - 1 BY <2>2
    <3>2. f[n] = IF n = 0 THEN Base ELSE E!Read(f[n - 1], lines[n]) BY <3>1, <1>5
    <3>3. n # 0 => g[n - 1] = f[n - 1] BY <3>1
    <3> QED BY <3>1, <3>2, <3>3
  <2> QED BY <2>1, <2>2
<1>7. Up(g, k)
  BY <1>6
<1> QED BY <1>7, <1>2

(* Read in pieces, the lines say what they say: a chunk's lines, after those *)
(* the parser fits, leave it fitting them all (SseParser::push).             *)
LEMMA PushFits ==
  ASSUME NEW s \in Seq(E!LineKinds), NEW d \in Nat, NEW e \in Nat, d <= e, e <= Len(s), NEW p \in Parsed, Fits(s, p, d)
  PROVE  \E q \in Parsed, u \in Nat :
           /\ E!push(p, SubSeq(s, d + 1, e)) = [parser |-> q, texts |-> u]
           /\ Fits(s, q, e)
           /\ q.text = p.text + u
<1> DEFINE lines == SubSeq(s, d + 1, e)
           g == CHOOSE f : Parses(p, lines, f)
           Good(n) == \E q \in Parsed, u \in Nat :
                        g[n] = [parser |-> q, texts |-> u] /\ Fits(s, q, d + n) /\ q.text = p.text + u
           Bad == {n \in 0 .. e - d : ~Good(n)}
<1>1. Len(lines) = e - d /\ \A n \in 1 .. e - d : lines[n] = s[d + n]
  <2>1. Len(s) \in Nat BY LenProperties
  <2> QED BY <2>1
<1>2. E!push(p, lines) = g[Len(lines)]
  BY DEF E!push, Parses
<1>3. Parses(p, lines, g)
  <2>1. Len(lines) \in Nat BY <1>1
  <2> HIDE DEF lines
  <2>2. \E f : Parses(p, lines, f) BY <2>1, ParserRuns
  <2> QED BY <2>2
<1> HIDE DEF g, lines
<1>4. g[0] = [parser |-> p, texts |-> 0] /\ \A n \in 1 .. e - d : g[n] = E!Read(g[n - 1], s[d + n])
  BY <1>1, <1>3 DEF Parses
<1>5. SUFFICES ASSUME Bad # {} PROVE FALSE
  <2>0. e - d \in 0 .. e - d OBVIOUS
  <2> HIDE DEF Good
  <2>1. Good(e - d) BY <1>5, <2>0
  <2>2. E!push(p, lines) = g[e - d] BY <1>1, <1>2
  <2>3. d + (e - d) = e OBVIOUS
  <2> QED BY <2>1, <2>2, <2>3 DEF Good, lines
<1>6. PICK k \in Bad : \A j \in Bad : k <= j
  <2> Bad \in SUBSET Nat OBVIOUS
  <2> HIDE DEF Bad
  <2> QED BY <1>5, Least
<1>7. k # 0
  <2>1. d + 0 = d /\ p.text \in Nat BY DEF Parsed
  <2>2. p.text = p.text + 0 BY <2>1
  <2>3. Good(0) BY <1>4, <2>1, <2>2
  <2> HIDE DEF Good
  <2> QED BY <1>6, <2>3
<1> DEFINE m == k - 1
<1>8. m \in 0 .. e - d /\ k \in 1 .. e - d /\ k = m + 1 /\ m \notin Bad
  <2>1. k \in 0 .. e - d BY <1>6
  <2> HIDE DEF Bad
  <2> QED BY <1>6, <1>7, <2>1
<1>9. PICK q \in Parsed, u \in Nat : g[m] = [parser |-> q, texts |-> u] /\ Fits(s, q, d + m) /\ q.text = p.text + u
  <2>1. Good(m)
    <3> HIDE DEF Good
    <3> QED BY <1>8
  <2> QED BY <2>1
<1>10. d + m \in Nat /\ d + m < Len(s) /\ d + m + 1 = d + k
  <2>1. Len(s) \in Nat BY LenProperties
  <2> QED BY <1>8, <2>1
<1> HIDE DEF m, Good, Bad
<1>11. PICK r \in Parsed, v \in Nat :
         E!Read([parser |-> q, texts |-> u], s[d + m + 1]) = [parser |-> r, texts |-> v] /\ Fits(s, r, d + m + 1) /\ v + q.text = u + r.text
  <2> DEFINE z == d + m
  <2>1. z \in Nat /\ z < Len(s) /\ Fits(s, q, z) BY <1>9, <1>10
  <2> HIDE DEF z
  <2>2. \E r \in Parsed, v \in Nat :
          E!Read([parser |-> q, texts |-> u], s[z + 1]) = [parser |-> r, texts |-> v] /\ Fits(s, r, z + 1) /\ v + q.text = u + r.text
    BY <2>1, ReadFits
  <2> QED BY <2>2 DEF z
<1>12. g[k] = [parser |-> r, texts |-> v]
  BY <1>4, <1>8, <1>9, <1>10, <1>11
<1>13. r.text = p.text + v
  <2>1. PICK a \in Nat : a = r.text BY DEF Parsed
  <2>2. PICK b \in Nat : b = q.text BY DEF Parsed
  <2>3. PICK c \in Nat : c = p.text BY DEF Parsed
  <2>4. v + b = u + a /\ b = c + u BY <1>9, <1>11, <2>1, <2>2, <2>3
  <2>5. a = c + v BY <2>4
  <2> QED BY <2>1, <2>3, <2>5
<1>14. Fits(s, r, d + k)
  BY <1>10, <1>11
<1>15. Good(k)
  BY <1>12, <1>13, <1>14 DEF Good
<1> QED BY <1>6, <1>15 DEF Bad

-----------------------------------------------------------------------------
(* What the reader was sent, and whom it was asked of.                       *)

Words == {"text", "refused", "not accepted", "the server's error", "done, counted", "done, estimated", "incomplete",
          "unloaded", "replaced", "exited", "still running"}
Said == [what: Words, attempt: {0, 1}, from: Nat]

\* The first n pieces of the answer, of this attempt.
Pieces(o, n) == o \in Seq(Said) /\ Len(o) = n /\ \A i \in 1 .. n : o[i] = E!Event("text", i)

\* An end the parser allows.
Proper(e, p) ==
  e.what \in {"done, counted", "done, estimated"} =>
    (p.done \/ p.finish) /\ ~p.error /\ (e.what = "done, counted" <=> p.usage)

Closes(o, e) == Pieces(o, parser.text) /\ e.what # "text" /\ e.attempt = attempt /\ Proper(e, parser) /\ out = Append(o, e)

StreamTypes ==
  /\ slot \in [id: 0 .. MaxEngines, port: Ports \cup {0}, alive: BOOLEAN] /\ (slot.alive => slot.id # 0)
  /\ step \in {"post", "read", "again", "look", "over"} /\ attempt \in {0, 1}
  /\ script \in Scripts /\ halves \in 0 .. 2 * Len(script) /\ parser \in Parsed
  /\ emitted \in BOOLEAN /\ closed \in BOOLEAN /\ looked \in 0 .. Looks /\ (~E!Over => looked < Looks)
  /\ engines \in 1 .. MaxEngines /\ slot.id <= engines /\ asked.id = 1

ParserFits == Fits(script, parser, halves \div 2)

\* The end is sent when the answer is over, once, unless the reader has left.
OutFits ==
  /\ E!Over /\ ~closed => \E o \in Seq(Said), e \in Said : Closes(o, e)
  /\ ~E!Over \/ closed => Pieces(out, parser.text)
  /\ emitted <=> parser.text > 0
  /\ step \in {"post", "again"} => parser.text = 0
  /\ closed => E!Over
  /\ ~E!Over => ~parser.error /\ ~parser.done

\* An engine that was asked was at the address while it was in the slot.
PostsFit ==
  /\ posts \in Seq(Nat) /\ Len(posts) <= attempt + 1
  /\ step = "post" => posts = <<>> /\ attempt = 0
  /\ step = "read" => Len(posts) = attempt + 1
  /\ step = "again" => Len(posts) = 1 /\ attempt = 1
  /\ \A i \in 1 .. Len(posts) :
       /\ 1 <= posts[i] /\ posts[i] <= engines
       /\ slot.id # 0 => posts[i] <= slot.id
       /\ slot.id = posts[i] => slot.port = asked.port
  /\ Len(posts) = 2 => posts[1] <= posts[2]

StreamInv == StreamTypes /\ ParserFits /\ OutFits /\ PostsFit

(* The pieces of some lines more follow those of the lines before.           *)
LEMMA PiecesGrow ==
  ASSUME attempt \in {0, 1}, NEW n \in Nat, NEW o, Pieces(o, n), NEW m \in Nat
  PROVE  LET t == [i \in 1 .. m |-> E!Event("text", n + i)] IN t \in Seq(Said) /\ Pieces(o \o t, n + m)
<1> DEFINE t == [i \in 1 .. m |-> E!Event("text", n + i)]
<1>1. \A i \in Nat : E!Event("text", i) \in Said
  BY DEF E!Event, Said, Words
<1>2. t \in Seq(Said) /\ Len(t) = m /\ \A i \in 1 .. m : t[i] = E!Event("text", n + i)
  <2>1. t \in [1 .. m -> Said] BY <1>1
  <2> QED BY <2>1
<1> HIDE DEF t
<1>3. o \in Seq(Said) /\ Len(o) = n /\ \A i \in 1 .. n : o[i] = E!Event("text", i)
  BY DEF Pieces
<1>4. /\ o \o t \in Seq(Said) /\ Len(o \o t) = n + m
      /\ \A i \in 1 .. n + m : (o \o t)[i] = IF i <= n THEN o[i] ELSE t[i - n]
  BY <1>2, <1>3, ConcatProperties
<1>5. ASSUME NEW i \in 1 .. n + m PROVE (o \o t)[i] = E!Event("text", i)
  <2>1. CASE i <= n
    <3>1. (o \o t)[i] = o[i] /\ i \in 1 .. n BY <1>4, <2>1
    <3> QED BY <1>3, <3>1
  <2>2. CASE i > n
    <3>1. (o \o t)[i] = t[i - n] /\ i - n \in 1 .. m /\ n + (i - n) = i BY <1>4, <2>2
    <3>2. t[i - n] = E!Event("text", n + (i - n)) BY <1>2, <3>1
    <3> QED BY <3>1, <3>2
  <2>3. i <= n \/ i > n OBVIOUS
  <2> QED BY <2>1, <2>2, <2>3
<1> QED BY <1>2, <1>4, <1>5 DEF t, Pieces

(* The stream starts so ...                                                  *)
LEMMA StreamAtFirst == E!Init => StreamInv
<1> SUFFICES ASSUME E!Init PROVE StreamInv
  OBVIOUS
<1> USE DEF E!Init
<1>0. E!NewParser \in Parsed /\ Fits(script, parser, 0) /\ parser = E!NewParser /\ parser.text = 0 /\ ~parser.error /\ ~parser.done
  BY NewFits DEF E!NewParser
<1>1. <<>> \in Seq(Said) /\ Len(<<>>) = 0 /\ <<>> \in Seq(Nat) /\ 0 \div 2 = 0
  OBVIOUS
<1>2. PICK a \in Ports : slot = [id |-> 1, port |-> a, alive |-> TRUE]
  OBVIOUS
<1>3. StreamTypes
  <2>1. slot \in [id: 0 .. MaxEngines, port: Ports \cup {0}, alive: BOOLEAN] /\ slot.id = 1
    BY <1>2, ProcessesAssumption
  <2>2. asked.id = 1 BY <2>1
  <2>3. halves \in 0 .. 2 * Len(script) /\ script \in Scripts BY <1>1, ProcessesAssumption
  <2>4. looked < Looks /\ looked \in 0 .. Looks /\ engines \in 1 .. MaxEngines /\ slot.id <= engines
    BY <2>1, ProcessesAssumption
  <2>5. step \in {"post", "read", "again", "look", "over"} /\ attempt \in {0, 1} /\ emitted \in BOOLEAN /\ closed \in BOOLEAN
    OBVIOUS
  <2>6. slot.alive => slot.id # 0 BY <2>1
  <2> QED BY <1>0, <2>1, <2>2, <2>3, <2>4, <2>5, <2>6, Zenon DEF StreamTypes
<1>4. ParserFits
  BY <1>0, <1>1 DEF ParserFits
<1>5. Pieces(out, parser.text)
  BY <1>0, <1>1 DEF Pieces
<1>6. OutFits
  <2>1. ~E!Over BY DEF E!Over
  <2> QED BY <1>0, <1>5, <2>1 DEF OutFits
<1>7. PostsFit
  BY <1>1 DEF PostsFit
<1> QED BY <1>3, <1>4, <1>6, <1>7 DEF StreamInv

(* The end follows the pieces.                                               *)
LEMMA Closing ==
  ASSUME attempt \in {0, 1}, NEW o, NEW p, Pieces(o, p.text), NEW w \in Words \ {"text"}, NEW n \in Nat,
         Proper(E!Event(w, n), p), out' = Append(o, E!Event(w, n)), parser' = p, attempt' = attempt
  PROVE  \E q \in Seq(Said), e \in Said : Closes(q, e)'
<1>1. PICK e \in Said : e = E!Event(w, n) /\ e.what = w /\ e.what # "text" /\ e.attempt = attempt
  BY DEF E!Event, Said
<1>2. o \in Seq(Said)
  BY DEF Pieces
<1>3. Pieces(o, p.text)'
  BY DEF Pieces, E!Event
<1>4. Proper(e, p) /\ out' = Append(o, e)
  BY <1>1
<1>5. Pieces(o, parser.text)' /\ e.attempt = attempt'
  BY <1>1, <1>3 DEF Pieces, E!Event
<1>6. Proper(e, parser')
  BY <1>4
<1>7. Closes(o, e)'
  BY <1>1, <1>4, <1>5, <1>6 DEF Closes, Proper
<1> QED BY <1>1, <1>2, <1>7

(* Ended without another piece, a stream fits as well as it did.             *)
LEMMA StopFits ==
  ASSUME StreamInv, ~E!Over, NEW w \in Words \ {"text"}, NEW n \in Nat, Proper(E!Event(w, n), parser),
         E!Stop(<<E!Event(w, n)>>), UNCHANGED <<attempt, parser, emitted, closed>>
  PROVE  OutFits' /\ step' = "over"
<1> DEFINE e == E!Event(w, n)
<1>1. Pieces(out, parser.text) /\ out \in Seq(Said) /\ attempt \in {0, 1} /\ ~closed
  BY DEF StreamInv, OutFits, StreamTypes, Pieces
<1>2. e \in Said
  BY <1>1 DEF E!Event, Said
<1>3. out' = out \o <<e>> /\ step' = "over"
  BY DEF E!Stop
<1> HIDE DEF e
<1>4. out' = Append(out, e)
  BY <1>1, <1>2, <1>3, AppendIsConcat
<1>5. \E o \in Seq(Said), x \in Said : Closes(o, x)'
  BY <1>1, <1>4, Closing DEF e
<1>6. E!Over' /\ ~closed'
  BY <1>1, <1>3 DEF E!Over
<1> QED BY <1>3, <1>5, <1>6 DEF StreamInv, OutFits

\* What becomes of the engines does not touch the stream.
LEMMA OutStays ==
  ASSUME OutFits, UNCHANGED <<step, attempt, parser, emitted, out, closed>>
  PROVE  OutFits'
<1>1. \A o, n : Pieces(o, n) => Pieces(o, n)'
  BY DEF Pieces, E!Event
<1>2. \A o, e : Closes(o, e) => Closes(o, e)'
  BY <1>1 DEF Closes, Proper, Pieces, E!Event
<1>3. E!Over' = E!Over
  BY DEF E!Over
<1> QED BY <1>1, <1>2, <1>3 DEF OutFits

(* A chunk is read, and what it says sent on (ChildEngine::generate).        *)
LEMMA ChunkKeeps ==
  ASSUME StreamInv, NEW n \in 1 .. 2 * Len(script), E!Chunk(n)
  PROVE  StreamInv'
<1> DEFINE d     == halves \div 2
           e     == (halves + n) \div 2
           lines == SubSeq(script, d + 1, e)
           made   == E!push(parser, lines)
           texts == [i \in 1 .. made.texts |-> E!Event("text", parser.text + i)]
<1>1. /\ step = "read" /\ ~closed /\ halves + n <= 2 * Len(script) /\ halves' = halves + n /\ parser' = made.parser
      /\ emitted' = (emitted \/ made.texts > 0)
      /\ UNCHANGED <<slot, asked, attempt, script, looked, closed, posts, engines>>
  BY DEF E!Chunk
<1>2. IF made.parser.error THEN E!Stop(texts \o <<E!Event("the server's error", 0)>>)
      ELSE IF made.parser.done THEN E!Stop(texts \o <<E!finish(made.parser)>>)
      ELSE out' = out \o texts /\ UNCHANGED step
  BY DEF E!Chunk
<1>3. script \in Seq(E!LineKinds) /\ halves \in Nat /\ Len(script) \in Nat /\ parser \in Parsed /\ attempt \in {0, 1}
  BY ProcessesAssumption, LenProperties DEF StreamInv, StreamTypes
<1>4. d \in Nat /\ e \in Nat /\ d <= e /\ e <= Len(script) /\ Fits(script, parser, d)
  BY <1>1, <1>3 DEF StreamInv, ParserFits
<1> HIDE DEF d, e
<1>5. PICK q \in Parsed, u \in Nat : made = [parser |-> q, texts |-> u] /\ Fits(script, q, e) /\ q.text = parser.text + u
  BY <1>3, <1>4, PushFits
<1> HIDE DEF lines, made
<1>6. parser' = q /\ made.parser = q /\ made.texts = u /\ q.text \in Nat /\ parser.text \in Nat
  BY <1>1, <1>3, <1>5 DEF Parsed
<1>7. Pieces(out, parser.text) /\ texts \in Seq(Said) /\ Pieces(out \o texts, q.text)
  <2>1. Pieces(out, parser.text) BY <1>1 DEF StreamInv, OutFits, E!Over
  <2>2. texts = [i \in 1 .. u |-> E!Event("text", parser.text + i)] BY <1>6
  <2> QED BY <1>3, <1>5, <1>6, <2>1, <2>2, PiecesGrow
<1> HIDE DEF texts
<1>8. out \in Seq(Said) /\ out \o texts \in Seq(Said)
  BY <1>7 DEF Pieces
<1>9. ASSUME NEW w \in Words \ {"text"}, NEW m \in Nat, Proper(E!Event(w, m), q), E!Stop(texts \o <<E!Event(w, m)>>)
      PROVE  E!Over' /\ \E o \in Seq(Said), x \in Said : Closes(o, x)'
  <2> DEFINE x == E!Event(w, m)
  <2>1. x \in Said BY <1>3 DEF E!Event, Said
  <2>2. out' = out \o (texts \o <<x>>) /\ step' = "over" BY <1>9 DEF E!Stop
  <2> HIDE DEF x
  <2>3. <<x>> \in Seq(Said) BY <2>1
  <2>4. out' = (out \o texts) \o <<x>> BY <1>7, <1>8, <2>2, <2>3, ConcatAssociative
  <2>5. out' = Append(out \o texts, x) BY <1>8, <2>1, <2>4, AppendIsConcat
  <2> HIDE DEF Closes
  <2>6. \E o \in Seq(Said), y \in Said : Closes(o, y)' BY <1>1, <1>3, <1>6, <1>7, <1>9, <2>5, Closing DEF x
  <2> QED BY <2>2, <2>6 DEF E!Over
<1>10. /\ E!Over' => \E o \in Seq(Said), x \in Said : Closes(o, x)'
       /\ ~E!Over' => out' = out \o texts /\ ~q.error /\ ~q.done /\ step' = "read"
       /\ step' \in {"read", "over"}
  <2>1. CASE q.error
    <3>1. E!Stop(texts \o <<E!Event("the server's error", 0)>>) BY <1>2, <1>6, <2>1
    <3>2. Proper(E!Event("the server's error", 0), q) BY DEF Proper, E!Event
    <3>3. "the server's error" \in Words \ {"text"} BY DEF Words
    <3>4. step' = "over" BY <3>1 DEF E!Stop
    <3> QED BY <1>9, <3>1, <3>2, <3>3, <3>4
  <2>2. CASE ~q.error /\ q.done
    <3> DEFINE w == IF q.usage THEN "done, counted" ELSE "done, estimated"
    <3>1. E!Stop(texts \o <<E!Event(w, q.text)>>)
      <4>1. E!Stop(texts \o <<E!finish(q)>>) BY <1>2, <1>6, <2>2
      <4> QED BY <4>1 DEF E!finish
    <3>2. Proper(E!Event(w, q.text), q) BY <2>2 DEF Proper, E!Event
    <3>3. w \in Words \ {"text"} BY DEF Words
    <3>4. step' = "over" BY <3>1 DEF E!Stop
    <3> HIDE DEF w
    <3> QED BY <1>6, <1>9, <3>1, <3>2, <3>3, <3>4
  <2>3. CASE ~q.error /\ ~q.done
    <3>1. out' = out \o texts /\ step' = step BY <1>2, <1>6, <2>3
    <3> QED BY <1>1, <2>3, <3>1 DEF E!Over
  <2> QED BY <2>1, <2>2, <2>3
<1>11. StreamTypes'
  <2>1. halves' \in 0 .. 2 * Len(script') BY <1>1, <1>3
  <2>2. emitted' \in BOOLEAN BY <1>1
  <2>3. ~E!Over BY <1>1 DEF E!Over
  <2>4. step' \in {"post", "read", "again", "look", "over"} BY <1>10
  <2> QED BY <1>1, <1>6, <2>1, <2>2, <2>3, <2>4 DEF StreamInv, StreamTypes
<1>12. ParserFits'
  BY <1>1, <1>5, <1>6 DEF ParserFits, e
<1>13. OutFits'
  <2>1. emitted' <=> q.text > 0
    <3>1. emitted <=> parser.text > 0 BY DEF StreamInv, OutFits
    <3>2. emitted' <=> emitted \/ u > 0 BY <1>1, <1>6
    <3>3. parser.text > 0 \/ u > 0 <=> parser.text + u > 0 BY <1>6
    <3> QED BY <1>5, <3>1, <3>2, <3>3
  <2>2. ~E!Over' => Pieces(out, parser.text)' BY <1>1, <1>6, <1>7, <1>10 DEF Pieces, E!Event
  <2>3. ~E!Over' => ~parser'.error /\ ~parser'.done BY <1>6, <1>10
  <2>4. step' \notin {"post", "again"} BY <1>10
  <2> QED BY <1>1, <1>6, <1>10, <2>1, <2>2, <2>3, <2>4 DEF OutFits
<1>14. PostsFit'
  <2>1. step' \in {"read", "over"} /\ step = "read" BY <1>1, <1>10
  <2> QED BY <1>1, <2>1 DEF StreamInv, PostsFit
<1> QED BY <1>11, <1>12, <1>13, <1>14 DEF StreamInv

(* A request, the first or the second.                                       *)
LEMMA RequestKeeps ==
  ASSUME StreamInv, E!Post
  PROVE  StreamInv'
<1>1. step \in {"post", "again"} /\ ~closed /\ ~E!Over /\ UNCHANGED <<slot, asked, attempt, looked, closed, engines>>
  BY DEF E!Post, E!Over
<1>2. /\ Pieces(out, parser.text) /\ parser.text = 0 /\ ~emitted
  BY <1>1 DEF StreamInv, OutFits
<1>3. ASSUME E!Listening, posts' = Append(posts, slot.id), step' \in {"read", "over"}
      PROVE  PostsFit'
  <2>1. slot.id \in Nat /\ 1 <= slot.id /\ slot.id <= engines /\ slot.port = asked.port /\ slot.id # 0
    BY <1>3, ProcessesAssumption DEF E!Listening, StreamInv, StreamTypes
  <2>2. posts \in Seq(Nat) /\ Len(posts) = attempt /\ attempt \in {0, 1}
    BY <1>1 DEF StreamInv, PostsFit, StreamTypes
  <2>3. /\ posts' \in Seq(Nat) /\ Len(posts') = attempt + 1 /\ posts'[attempt + 1] = slot.id
        /\ \A i \in 1 .. attempt : posts'[i] = posts[i]
    BY <1>3, <2>1, <2>2, AppendProperties
  <2>4. \A i \in 1 .. attempt : 1 <= posts[i] /\ posts[i] <= engines /\ posts[i] <= slot.id
    BY <2>1, <2>2 DEF StreamInv, PostsFit
  <2>5. ASSUME NEW i \in 1 .. attempt + 1
        PROVE  1 <= posts'[i] /\ posts'[i] <= engines /\ posts'[i] <= slot.id
    <3>1. i = attempt + 1 \/ i \in 1 .. attempt BY <2>2
    <3> QED BY <2>1, <2>3, <2>4, <3>1
  <2>6. Len(posts') = 2 => posts'[1] <= posts'[2]
    <3>1. ASSUME Len(posts') = 2 PROVE posts'[1] <= posts'[2]
      <4>0. attempt + 1 = 2 BY <2>3, <3>1
      <4>1. attempt = 1 BY <2>2, <4>0
      <4>2. posts'[2] = slot.id /\ posts'[1] <= slot.id BY <2>2, <2>3, <2>5, <4>1
      <4> QED BY <4>2
    <3> QED BY <3>1
  <2> QED BY <1>1, <1>3, <2>1, <2>2, <2>3, <2>5, <2>6 DEF PostsFit
<1>4. CASE /\ E!Listening /\ posts' = Append(posts, slot.id) /\ script' \in Scripts /\ step' = "read" /\ halves' = 0
           /\ parser' = E!NewParser /\ emitted' = FALSE /\ UNCHANGED out
  <2>0. parser' \in Parsed /\ Fits(script', parser', 0) /\ parser'.text = 0 /\ ~parser'.error /\ ~parser'.done
    BY <1>4, NewFits DEF E!NewParser
  <2>1. script' \in Seq(E!LineKinds) /\ Len(script') \in Nat /\ halves' \div 2 = 0
    BY <1>4, ProcessesAssumption, LenProperties
  <2>2. StreamTypes'
    <3>1. halves' \in 0 .. 2 * Len(script') BY <1>4, <2>1
    <3>2. step' \in {"post", "read", "again", "look", "over"} /\ emitted' \in BOOLEAN BY <1>4
    <3> QED BY <1>1, <1>4, <2>0, <3>1, <3>2 DEF StreamInv, StreamTypes
  <2>3. ParserFits' BY <2>0, <2>1 DEF ParserFits
  <2>4. OutFits'
    <3>1. Pieces(out, parser.text)' BY <1>1, <1>2, <1>4, <2>0 DEF Pieces, E!Event
    <3>2. ~E!Over' BY <1>4 DEF E!Over
    <3> QED BY <1>1, <1>4, <2>0, <3>1, <3>2 DEF OutFits
  <2>5. PostsFit' BY <1>3, <1>4
  <2> QED BY <2>2, <2>3, <2>4, <2>5 DEF StreamInv
<1>5. ASSUME NEW w \in {"refused", "not accepted"}, E!Break(w), UNCHANGED <<script, halves, parser, emitted>>, PostsFit'
      PROVE  StreamInv'
  <2>0. w \in Words \ {"text"} BY <1>5 DEF Words
  <2>1. E!Stop(<<E!Event(w, 0)>>) /\ Proper(E!Event(w, 0), parser) BY <1>5 DEF E!Break, Proper, E!Event
  <2>2. OutFits' /\ step' = "over" BY <1>1, <1>5, <2>0, <2>1, StopFits
  <2>3. StreamTypes' BY <1>1, <1>5, <2>2 DEF StreamInv, StreamTypes
  <2>4. ParserFits' BY <1>5 DEF StreamInv, ParserFits
  <2> QED BY <1>5, <2>2, <2>3, <2>4 DEF StreamInv
<1>6. CASE E!Listening /\ posts' = Append(posts, slot.id) /\ E!Break("refused") /\ UNCHANGED <<script, halves, parser, emitted>>
  <2>1. step' = "over" BY <1>6 DEF E!Break, E!Stop
  <2> QED BY <1>3, <1>5, <1>6, <2>1
<1>7. CASE step = "post" /\ E!Break("not accepted") /\ UNCHANGED <<posts, script, halves, parser, emitted>>
  <2>1. step' = "over" BY <1>7 DEF E!Break, E!Stop
  <2>2. PostsFit' BY <1>1, <1>7, <2>1 DEF StreamInv, PostsFit
  <2> QED BY <1>5, <1>7, <2>2
<1>8. CASE step' = "look" /\ UNCHANGED <<out, posts, script, halves, parser, emitted>>
  <2>1. StreamTypes' BY <1>1, <1>8 DEF StreamInv, StreamTypes, E!Over
  <2>2. ParserFits' BY <1>8 DEF StreamInv, ParserFits
  <2>3. Pieces(out, parser.text)' BY <1>1, <1>2, <1>8 DEF Pieces, E!Event
  <2>4. OutFits' BY <1>1, <1>2, <1>8, <2>3 DEF StreamInv, OutFits, E!Over
  <2>5. PostsFit' BY <1>1, <1>8 DEF StreamInv, PostsFit
  <2> QED BY <2>1, <2>2, <2>4, <2>5 DEF StreamInv
<1> QED BY <1>1, <1>4, <1>6, <1>7, <1>8 DEF E!Post, E!Posted

(* The body ends: with the answer's end, with another request, or broken.    *)
LEMMA EndedKeeps ==
  ASSUME StreamInv, NEW broken, E!Ended(broken)
  PROVE  StreamInv'
<1>1. /\ step = "read" /\ ~closed /\ ~E!Over
      /\ UNCHANGED <<slot, asked, script, halves, parser, emitted, looked, closed, posts, engines>>
  BY DEF E!Ended, E!Over
<1>2. Pieces(out, parser.text) /\ ~parser.error /\ parser.text \in Nat
  BY <1>1 DEF StreamInv, OutFits, StreamTypes, Parsed
<1>3. ParserFits'
  BY <1>1 DEF StreamInv, ParserFits
<1>4. ASSUME NEW w \in Words \ {"text"}, NEW n \in Nat, Proper(E!Event(w, n), parser), E!Stop(<<E!Event(w, n)>>),
             attempt' = attempt
      PROVE  StreamInv'
  <2>1. OutFits' /\ step' = "over" BY <1>1, <1>4, StopFits
  <2>2. StreamTypes' BY <1>1, <1>4, <2>1 DEF StreamInv, StreamTypes
  <2>3. PostsFit' BY <1>1, <1>4, <2>1 DEF StreamInv, PostsFit
  <2> QED BY <1>3, <2>1, <2>2, <2>3 DEF StreamInv
<1>5. CASE E!is_complete(parser) /\ E!Stop(<<E!finish(parser)>>) /\ attempt' = attempt
  <2> DEFINE w == IF parser.usage THEN "done, counted" ELSE "done, estimated"
  <2>1. w \in Words \ {"text"} BY DEF Words
  <2>2. E!Stop(<<E!Event(w, parser.text)>>) BY <1>5 DEF E!finish
  <2>3. Proper(E!Event(w, parser.text), parser) BY <1>2, <1>5 DEF Proper, E!Event, E!is_complete
  <2> HIDE DEF w
  <2> QED BY <1>2, <1>4, <1>5, <2>1, <2>2, <2>3
<1>6. CASE attempt = 0 /\ ~emitted /\ step' = "again" /\ attempt' = 1 /\ out' = out
  <2>1. parser.text = 0
    <3>1. emitted <=> parser.text > 0 BY DEF StreamInv, OutFits
    <3> QED BY <1>2, <1>6, <3>1
  <2>2. Pieces(out, 0)' BY <1>2, <1>6, <2>1 DEF Pieces
  <2>3. ~E!Over' BY <1>6 DEF E!Over
  <2>4. OutFits' BY <1>1, <1>2, <1>6, <2>1, <2>2, <2>3 DEF StreamInv, OutFits
  <2>5. StreamTypes' BY <1>1, <1>6, <2>3 DEF StreamInv, StreamTypes
  <2>6. PostsFit' BY <1>1, <1>6 DEF StreamInv, PostsFit
  <2> QED BY <1>3, <2>4, <2>5, <2>6 DEF StreamInv
<1>7. CASE step' = "look" /\ out' = out /\ attempt' = attempt
  <2>1. Pieces(out, parser.text)' BY <1>1, <1>2, <1>7 DEF Pieces, E!Event
  <2>2. ~E!Over' BY <1>7 DEF E!Over
  <2>3. OutFits' BY <1>1, <1>7, <2>1, <2>2 DEF StreamInv, OutFits
  <2>4. StreamTypes' BY <1>1, <1>7, <2>2 DEF StreamInv, StreamTypes
  <2>5. PostsFit' BY <1>1, <1>7 DEF StreamInv, PostsFit
  <2> QED BY <1>3, <2>3, <2>4, <2>5 DEF StreamInv
<1>8. CASE E!Break("incomplete") /\ attempt' = attempt
  <2>1. E!Stop(<<E!Event("incomplete", 0)>>) /\ Proper(E!Event("incomplete", 0), parser) BY <1>8 DEF E!Break, Proper, E!Event
  <2>2. "incomplete" \in Words \ {"text"} BY DEF Words
  <2> QED BY <1>4, <1>8, <2>1, <2>2
<1> QED BY <1>5, <1>6, <1>7, <1>8 DEF E!Ended

(* A look at the engine whose stream broke.                                  *)
LEMMA LookKeeps ==
  ASSUME StreamInv, E!Look
  PROVE  StreamInv'
<1>1. /\ step = "look" /\ ~closed /\ ~E!Over
      /\ UNCHANGED <<slot, asked, attempt, script, halves, parser, emitted, closed, posts, engines>>
  BY DEF E!Look, E!Over
<1>2. ParserFits'
  BY <1>1 DEF StreamInv, ParserFits
<1>3. looked < Looks /\ looked \in 0 .. Looks /\ Looks \in Nat
  BY <1>1, ProcessesAssumption DEF StreamInv, StreamTypes
<1>4. ASSUME NEW w \in {"unloaded", "replaced", "exited", "still running"}, E!Break(w), looked' \in 0 .. Looks
      PROVE  StreamInv'
  <2>0. w \in Words \ {"text"} BY <1>4 DEF Words
  <2>1. E!Stop(<<E!Event(w, 0)>>) /\ Proper(E!Event(w, 0), parser) BY <1>4 DEF E!Break, Proper, E!Event
  <2>2. OutFits' /\ step' = "over" BY <1>1, <2>0, <2>1, StopFits
  <2>3. StreamTypes' BY <1>1, <1>4, <2>2 DEF StreamInv, StreamTypes, E!Over
  <2>4. PostsFit' BY <1>1, <2>2 DEF StreamInv, PostsFit
  <2> QED BY <1>2, <2>2, <2>3, <2>4 DEF StreamInv
<1>5. CASE looked' = looked + 1 /\ looked + 1 # Looks /\ UNCHANGED <<out, step>>
  <2>1. looked' \in 0 .. Looks /\ looked' < Looks BY <1>3, <1>5
  <2>2. StreamTypes' BY <1>1, <1>5, <2>1 DEF StreamInv, StreamTypes
  <2>3. OutFits' BY <1>1, <1>5, OutStays DEF StreamInv
  <2>4. PostsFit' BY <1>1, <1>5 DEF StreamInv, PostsFit
  <2> QED BY <1>2, <2>2, <2>3, <2>4 DEF StreamInv
<1>6. looked + 1 \in 0 .. Looks
  BY <1>3
<1> QED BY <1>3, <1>4, <1>5, <1>6 DEF E!Look

(* The reader leaves.                                                        *)
LEMMA LeaveKeeps ==
  ASSUME StreamInv, E!Leave
  PROVE  StreamInv'
<1>1. /\ ~closed /\ ~E!Over /\ closed' = TRUE /\ step' = "over"
      /\ UNCHANGED <<slot, asked, attempt, script, halves, parser, emitted, looked, out, posts, engines>>
  BY DEF E!Leave
<1>2. StreamTypes'
  BY <1>1 DEF StreamInv, StreamTypes
<1>3. ParserFits'
  BY <1>1 DEF StreamInv, ParserFits
<1>4. Pieces(out, parser.text)'
  BY <1>1 DEF StreamInv, OutFits, Pieces, E!Event
<1>5. OutFits'
  BY <1>1, <1>4 DEF StreamInv, OutFits, E!Over
<1>6. PostsFit'
  BY <1>1 DEF StreamInv, PostsFit
<1> QED BY <1>2, <1>3, <1>5, <1>6 DEF StreamInv

(* The engine dies, is unloaded, or is followed by the next model's.         *)
LEMMA EnginesKeep ==
  ASSUME StreamInv, E!EngineDies \/ E!Unload \/ E!Load
  PROVE  StreamInv'
<1>1. UNCHANGED <<asked, step, attempt, script, halves, parser, emitted, looked, out, closed, posts>>
  BY DEF E!EngineDies, E!Unload, E!Load
<1>2. ParserFits' /\ OutFits'
  BY <1>1, OutStays DEF StreamInv, ParserFits
<1>3. engines \in 1 .. MaxEngines /\ MaxEngines \in Nat /\ slot.id \in 0 .. MaxEngines /\ slot.id <= engines /\ (slot.alive => slot.id # 0)
  BY ProcessesAssumption DEF StreamInv, StreamTypes
<1>4. posts \in Seq(Nat) /\ Len(posts) \in Nat /\ \A i \in 1 .. Len(posts) : posts[i] \in Nat
  BY LenProperties DEF StreamInv, PostsFit
<1>5. CASE E!EngineDies
  <2>1. slot' = [slot EXCEPT !.alive = FALSE] /\ engines' = engines BY <1>5 DEF E!EngineDies
  <2>2. slot'.id = slot.id /\ slot'.port = slot.port BY <2>1 DEF StreamInv, StreamTypes
  <2>3. StreamTypes' BY <1>1, <2>1 DEF StreamInv, StreamTypes, E!Over
  <2>4. PostsFit' BY <1>1, <2>1, <2>2 DEF StreamInv, PostsFit
  <2> QED BY <1>2, <2>3, <2>4 DEF StreamInv
<1>6. CASE E!Unload
  <2>1. slot' = E!NoEngine /\ engines' = engines BY <1>6 DEF E!Unload
  <2>2. slot'.id = 0 /\ slot'.alive = FALSE /\ slot' \in [id: 0 .. MaxEngines, port: Ports \cup {0}, alive: BOOLEAN]
    BY <1>3, <2>1 DEF E!NoEngine
  <2>3. StreamTypes' BY <1>1, <1>3, <2>1, <2>2 DEF StreamInv, StreamTypes, E!Over
  <2>4. PostsFit'
    <3>1. ASSUME NEW i \in 1 .. Len(posts)
          PROVE  1 <= posts[i] /\ posts[i] <= engines /\ slot'.id # posts[i]
      <4>1. 1 <= posts[i] /\ posts[i] <= engines BY DEF StreamInv, PostsFit
      <4> QED BY <1>4, <2>2, <4>1
    <3> QED BY <1>1, <2>1, <2>2, <3>1 DEF StreamInv, PostsFit
  <2> QED BY <1>2, <2>3, <2>4 DEF StreamInv
<1>7. CASE E!Load
  <2>1. PICK p \in Ports : slot' = [id |-> engines + 1, port |-> p, alive |-> TRUE] BY <1>7 DEF E!Load
  <2>2. engines' = engines + 1 /\ engines < MaxEngines BY <1>7 DEF E!Load
  <2>3. /\ slot'.id = engines + 1 /\ slot'.id # 0 /\ engines' \in 1 .. MaxEngines /\ slot'.id <= engines'
        /\ slot' \in [id: 0 .. MaxEngines, port: Ports \cup {0}, alive: BOOLEAN]
    BY <1>3, <2>1, <2>2
  <2>4. StreamTypes' BY <1>1, <2>3 DEF StreamInv, StreamTypes, E!Over
  <2>5. PostsFit'
    <3>1. ASSUME NEW i \in 1 .. Len(posts)
          PROVE  1 <= posts[i] /\ posts[i] <= engines' /\ posts[i] <= slot'.id /\ slot'.id # posts[i]
      <4>1. 1 <= posts[i] /\ posts[i] <= engines BY DEF StreamInv, PostsFit
      <4> QED BY <1>3, <1>4, <2>2, <2>3, <4>1
    <3> QED BY <1>1, <3>1 DEF StreamInv, PostsFit
  <2> QED BY <1>2, <2>4, <2>5 DEF StreamInv
<1> QED BY <1>5, <1>6, <1>7

(* Every step of the stream's keeps it ...                                   *)
LEMMA StreamStays ==
  ASSUME StreamInv, [E!Next]_(E!vars)
  PROVE  StreamInv'
<1>1. CASE E!Answered \/ UNCHANGED E!vars
  <2>1. UNCHANGED <<slot, asked, step, attempt, script, halves, parser, emitted, looked, out, closed, posts, engines>>
    BY <1>1 DEF E!Answered, E!vars
  <2>2. OutFits' BY <2>1, OutStays DEF StreamInv
  <2>3. StreamTypes' BY <2>1 DEF StreamInv, StreamTypes, E!Over
  <2>4. ParserFits' BY <2>1 DEF StreamInv, ParserFits
  <2>5. PostsFit' BY <2>1 DEF StreamInv, PostsFit
  <2> QED BY <2>2, <2>3, <2>4, <2>5 DEF StreamInv
<1> QED BY <1>1, RequestKeeps, ChunkKeeps, EndedKeeps, LookKeeps, LeaveKeeps, EnginesKeep DEF E!Next

(* ... and makes the answer one (AnswerIsOneStream), asked for at most twice *)
(* (NotReplayedElsewhere).                                                   *)
LEMMA StreamIsSafe ==
  ASSUME StreamInv
  PROVE  E!StreamSafe
<1> DEFINE d == halves \div 2
           T == {i \in Upto(script, d) : script[i] = "text"}
<1>1. /\ script \in Seq(E!LineKinds) /\ Len(script) \in Nat /\ d \in 0 .. Len(script) /\ halves \in 0 .. 2 * Len(script)
      /\ parser \in Parsed /\ parser.text \in Nat /\ attempt \in {0, 1}
  BY ProcessesAssumption, LenProperties DEF StreamInv, StreamTypes, Parsed
<1>2. E!TypeOK
  BY <1>1 DEF StreamInv, StreamTypes, E!TypeOK, Parsed
<1> HIDE DEF d
<1>3. /\ DOMAIN E!Arrived = 1 .. d /\ \A i \in 1 .. d : E!Arrived[i] = script[i]
  BY <1>1 DEF E!Arrived, E!Whole, d
<1>4. E!Heard = Upto(script, d)
  BY <1>1, <1>3 DEF E!Heard, Upto
<1>5. /\ {i \in E!Heard : E!Arrived[i] = "text"} = T
      /\ \A k : E!Says(k) <=> \E i \in Upto(script, d) : script[i] = k
  BY <1>3, <1>4 DEF E!Says, Upto
<1>6. /\ parser.text = Cardinality(T)
      /\ parser.usage <=> E!Says("usage")
      /\ parser.finish <=> E!Says("finish")
      /\ parser.error <=> E!Says("error")
      /\ parser.done <=> E!Says("done")
  BY <1>5 DEF StreamInv, ParserFits, Fits, d
<1> HIDE DEF T
<1>7. /\ \A X : E!Cardinality(X) = Cardinality(X)
      /\ \A q : E!Last(q) = Last(q)
  BY DEF E!Cardinality, Cardinality, E!Last, Last
<1>8. \A n \in Nat : Cardinality(1 .. n) = n
  BY FS_Interval
<1>9. \A n : E!Event("text", n).what = "text" /\ E!Event("text", n).attempt = attempt /\ E!Event("text", n).from = n
  BY DEF E!Event
<1> DEFINE Goal == E!AnswerIsOneStream /\ \A i \in DOMAIN out : out[i].attempt = attempt
<1>10. ASSUME Pieces(out, parser.text), ~E!Over \/ closed PROVE Goal
  <2>1. /\ out \in Seq(Said) /\ Len(out) = parser.text
        /\ \A i \in 1 .. parser.text : out[i].what = "text" /\ out[i].attempt = attempt /\ out[i].from = i
    BY <1>9, <1>10 DEF Pieces
  <2>2. E!Texts = 1 .. parser.text BY <2>1 DEF E!Texts, E!Terminal
  <2>3. Cardinality(E!Texts) = parser.text BY <1>1, <1>8, <2>2
  <2>4. E!AnswerIsOneStream
    <3>1. \A i, j \in E!Texts : out[i].attempt = out[j].attempt BY <2>1, <2>2
    <3>2. \A i \in E!Texts : out[i].from = i BY <2>1, <2>2
    <3>3. Cardinality(E!Texts) = Cardinality({i \in E!Heard : E!Arrived[i] = "text"}) BY <1>5, <1>6, <2>3
    <3>4. \A i \in DOMAIN out : ~E!Terminal(out[i]) BY <2>1 DEF E!Terminal
    <3> QED BY <1>10, <1>7, <3>1, <3>2, <3>3, <3>4 DEF E!AnswerIsOneStream
  <2>5. \A i \in DOMAIN out : out[i].attempt = attempt BY <2>1
  <2> QED BY <2>4, <2>5
<1>11. ASSUME E!Over, ~closed PROVE Goal
  <2>0. PICK o \in Seq(Said), e \in Said : Closes(o, e)
    BY <1>11 DEF StreamInv, OutFits
  <2>1. /\ Len(o) = parser.text /\ out = Append(o, e) /\ e.what # "text" /\ e.attempt = attempt /\ Proper(e, parser)
        /\ \A i \in 1 .. parser.text : o[i].what = "text" /\ o[i].attempt = attempt /\ o[i].from = i
    BY <1>9, <2>0 DEF Closes, Pieces
  <2>2. /\ out \in Seq(Said) /\ Len(out) = parser.text + 1 /\ out[parser.text + 1] = e
        /\ \A i \in 1 .. parser.text : out[i].what = "text" /\ out[i].attempt = attempt /\ out[i].from = i
    BY <1>1, <2>1, AppendProperties
  <2>3. E!Texts = 1 .. parser.text
    <3>1. DOMAIN out = 1 .. parser.text + 1 BY <2>2
    <3>2. \A i \in 1 .. parser.text + 1 : i = parser.text + 1 \/ i \in 1 .. parser.text BY <1>1
    <3> QED BY <1>1, <2>1, <2>2, <3>1, <3>2 DEF E!Texts, E!Terminal
  <2>4. Cardinality(E!Texts) = parser.text BY <1>1, <1>8, <2>3
  <2>5. out # <<>> /\ Last(out) = e
    <3>1. out # <<>> BY <1>1, <2>2
    <3> QED BY <2>2, <3>1 DEF Last
  <2>6. E!AnswerIsOneStream
    <3>1. \A i, j \in E!Texts : out[i].attempt = out[j].attempt BY <2>2, <2>3
    <3>2. \A i \in E!Texts : out[i].from = i BY <2>2, <2>3
    <3>3. Cardinality(E!Texts) = Cardinality({i \in E!Heard : E!Arrived[i] = "text"}) BY <1>5, <1>6, <2>4
    <3>4. \A i \in DOMAIN out : E!Terminal(out[i]) => i = Len(out)
      <4>1. \A i \in DOMAIN out : i = parser.text + 1 \/ i \in 1 .. parser.text BY <1>1, <2>2
      <4>2. \A i \in 1 .. parser.text : ~E!Terminal(out[i]) BY <2>2 DEF E!Terminal
      <4> QED BY <2>2, <4>1, <4>2
    <3>5. E!Terminal(Last(out)) BY <2>1, <2>5 DEF E!Terminal
    <3>6. Last(out).what \in {"done, counted", "done, estimated"} =>
            /\ E!Says("done") \/ E!Says("finish")
            /\ ~E!Says("error")
            /\ Last(out).what = "done, counted" <=> E!Says("usage")
      BY <1>6, <2>1, <2>5 DEF Proper
    <3> QED BY <1>11, <1>7, <2>5, <3>1, <3>2, <3>3, <3>4, <3>5, <3>6 DEF E!AnswerIsOneStream
  <2>7. \A i \in DOMAIN out : out[i].attempt = attempt
    <3>1. \A i \in 1 .. parser.text + 1 : i = parser.text + 1 \/ i \in 1 .. parser.text BY <1>1
    <3> QED BY <1>1, <2>1, <2>2, <3>1
  <2> QED BY <2>6, <2>7
<1>12. Goal
  BY <1>10, <1>11 DEF StreamInv, OutFits
<1>13. E!NotReplayedElsewhere
  <2>1. posts \in Seq(Nat) /\ Len(posts) \in Nat /\ Len(posts) <= attempt + 1
    BY LenProperties DEF StreamInv, PostsFit
  <2>2. Len(posts) <= 2 BY <1>1, <2>1
  <2>3. Len(posts) = 2 => attempt = 1 BY <1>1, <2>1
  <2>4. ASSUME Len(posts) = 2, posts[1] # posts[2]
        PROVE  posts[2] > 1 /\ (slot.id = posts[2] => E!Reused)
    <3>0. 1 \in 1 .. Len(posts) /\ 2 \in 1 .. Len(posts) BY <2>4
    <3>1. posts[1] \in Nat /\ posts[2] \in Nat /\ 1 <= posts[1] /\ posts[1] <= posts[2]
      <4>1. posts[1] \in Nat /\ posts[2] \in Nat BY <2>1, <3>0
      <4>2. 1 <= posts[1] BY <3>0 DEF StreamInv, PostsFit
      <4>3. posts[1] <= posts[2] BY <2>4 DEF StreamInv, PostsFit
      <4> QED BY <4>1, <4>2, <4>3
    <3>2. posts[2] > 1 BY <2>4, <3>1
    <3>3. slot.id = posts[2] => slot.port = asked.port BY <2>1, <2>4 DEF StreamInv, PostsFit
    <3>4. asked.id = 1 BY DEF StreamInv, StreamTypes
    <3>5. slot.id = posts[2] => asked.id # slot.id BY <3>1, <3>2, <3>4
    <3> QED BY <3>2, <3>3, <3>5 DEF E!Reused
  <2> QED BY <1>12, <2>2, <2>3, <2>4 DEF E!NotReplayedElsewhere
<1> QED BY <1>2, <1>12, <1>13 DEF E!StreamSafe

-----------------------------------------------------------------------------
(* The processes of the Studio.                                              *)

(* Whatever else the Studio runs, its commands are safe: CommandsSafe.       *)
THEOREM CommandsAreSafeThere == Behaviour => []CommandsSafe
<1>1. Begin => CommandsInv
  BY CommandsInvAtFirst DEF Begin
<1>2. CommandsInv /\ [Command \/ Miners \/ Answer \/ Image]_all => CommandsInv'
  <2>1. [Command \/ Miners \/ Answer \/ Image]_all => [Next]_vars
    BY DEF Command, Miners, Answer, Image, all
  <2> QED BY <2>1, CommandsInvStays
<1>3. CommandsInv => CommandsSafe
  BY CommandsInvIsSafe
<1> QED BY <1>1, <1>2, <1>3, PTL DEF Behaviour

(* Its miners are under the supervisors' invariant (MinerSlot,               *)
(* FreePromptSlot): SupervisorsSafe.                                         *)
THEOREM MinersAreSafe == Behaviour => []SupervisorsSafe
<1>1. Begin => MinersInv
  BY MinersAtFirst, ProcessesAssumption DEF Begin
<1>2. MinersInv /\ [Command \/ Miners \/ Answer \/ Image]_all => MinersInv'
  <2>1. [Command \/ Miners \/ Answer \/ Image]_all => [S!Next]_minersVars
    BY DEF Command, Miners, Answer, Image, all
  <2> QED BY <2>1, MinersStay, ProcessesAssumption
<1>3. MinersInv => SupervisorsSafe
  BY MinersInvIsSafe DEF SupervisorsSafe
<1> QED BY <1>1, <1>2, <1>3, PTL DEF Behaviour

(* Its engines: an answer is one stream, however its bytes are cut and       *)
(* whatever becomes of its engine (ChildEngine::generate, SseParser), and    *)
(* the images have one sidecar (DiffusionSidecar::load, apply_settings):     *)
(* EnginesSafe.                                                              *)
THEOREM EnginesAreSafe == Behaviour => []EnginesSafe
<1> USE ProcessesAssumption
<1>1. Begin => StreamInv /\ ImagesInv
  BY StreamAtFirst, ImagesAtFirst DEF Begin
<1>2. StreamInv /\ [Command \/ Miners \/ Answer \/ Image]_all => StreamInv'
  <2>1. [Command \/ Miners \/ Answer \/ Image]_all => [E!Next]_(E!vars)
    BY DEF Command, Miners, Answer, Image, all, answerVars, E!vars
  <2> QED BY <2>1, StreamStays
<1>3. ImagesInv /\ [Command \/ Miners \/ Answer \/ Image]_all => ImagesInv'
  <2> SUFFICES ASSUME ImagesInv, [Command \/ Miners \/ Answer \/ Image]_all PROVE ImagesInv'
    OBVIOUS
  <2>1. CASE G!Next BY <2>1, ImagesStay
  <2>2. CASE UNCHANGED imageVars
    <3>1. UNCHANGED <<current, running, alive, holds, record, call, torn, spawned>> BY <2>2 DEF imageVars
    <3> QED BY <3>1 DEF ImagesInv, ImageTypes, CallFits, OneLocks, OneApplies, NewIsEmpty, AllAreKept, Recorded, G!Kept, G!Held
  <2>3. G!Next \/ UNCHANGED imageVars BY DEF Command, Miners, Answer, Image, all
  <2> QED BY <2>1, <2>2, <2>3
<1>4. StreamInv /\ ImagesInv => EnginesSafe
  BY StreamIsSafe, ImagesAreSafe DEF EnginesSafe
<1> QED BY <1>1, <1>2, <1>3, <1>4, PTL DEF Behaviour
=============================================================================
