---------------------------- MODULE PostReaderProofs ----------------------------
(***************************************************************************)
(* Proofs about PostReader, for every set of articles and every width:     *)
(* what the loops have collected at each character, when an article is     *)
(* refused, and that the file which Post writes of it, and what is sent    *)
(* and mailed of that file, are what the sender meant.  What FoldLeft      *)
(* computes comes from module Folding, instantiated for each operator that *)
(* the model folds with.                                                   *)
(***************************************************************************)
EXTENDS PostReader, SequenceTheorems, WellFoundedInduction, TLAPS

-----------------------------------------------------------------------------
(* What the model folds with, and the lemmas on each.                      *)
Join(p, s, t) == s \o t
Joined == INSTANCE Folding WITH Op <- Join
Parse(p, at, c) == AddCharacter(at, c)
Text == INSTANCE Folding WITH Op <- Parse
Field(p, fields, line) == AddToFields(fields, line)
Split == INSTANCE Folding WITH Op <- Field
Filter == INSTANCE Folding WITH Op <- AddNamed
Count(p, sum, line) == AddCost(sum, line)
Counted == INSTANCE Folding WITH Op <- Count
Copy(p, at, line) == Preserve(at, line)
Copied == INSTANCE Folding WITH Op <- Copy
Space(p, fields, field) == AddSpaced(fields, field)
Spacing == INSTANCE Folding WITH Op <- Space
LoadOne(p, at, line) == LoadLine(at, line)
Loading == INSTANCE Folding WITH Op <- LoadOne

-----------------------------------------------------------------------------
(* Induction.                                                              *)

\* Some number is the least.
LEMMA LeastOf ==
  ASSUME NEW T, T \subseteq Nat, T # {}
  PROVE  \E n \in T : \A m \in T : n <= m
<1>1. PICK n \in T : \A m \in T : <<m, n>> \notin OpToRel(<, Nat)
  BY NatLessThanWellFounded, WFMin
<1>2. \A m \in T : ~(m < n)
  BY <1>1 DEF OpToRel
<1> QED
  BY <1>2

\* Induction, over a set.
LEMMA Induction ==
  ASSUME NEW T, 0 \in T, \A n \in Nat : n \in T => n + 1 \in T
  PROVE  Nat \subseteq T
<1> SUFFICES ASSUME Nat \ T # {}
             PROVE  FALSE
  OBVIOUS
<1>1. PICK n \in Nat \ T : \A m \in Nat \ T : n <= m
  BY LeastOf
<1>2. n # 0 /\ n - 1 \in Nat /\ ~(n <= n - 1)
  BY <1>1
<1>3. n - 1 \in T
  BY <1>1, <1>2
<1>4. n - 1 + 1 \in T
  BY <1>2, <1>3
<1> QED
  BY <1>1, <1>4

\* The folds may rely on it.
LEMMA Numbers ==
  /\ Joined!Inductive /\ Text!Inductive /\ Split!Inductive /\ Filter!Inductive
  /\ Counted!Inductive /\ Copied!Inductive /\ Spacing!Inductive /\ Loading!Inductive
BY Induction DEF Joined!Inductive, Text!Inductive, Split!Inductive, Filter!Inductive,
   Counted!Inductive, Copied!Inductive, Spacing!Inductive, Loading!Inductive

\* Induction over sequences, that grow at their ends.
LEMMA SequenceInduction ==
  ASSUME NEW X, NEW T, << >> \in T,
         \A s \in Seq(X), x \in X : s \in T => Append(s, x) \in T
  PROVE  Seq(X) \subseteq T
<1> DEFINE N == {n \in Nat : \A s \in Seq(X) : Len(s) = n => s \in T}
<1>1. 0 \in N
  BY EmptySeq
<1>2. ASSUME NEW n \in Nat, n \in N, NEW s \in Seq(X), Len(s) = n + 1
      PROVE  s \in T
  <2>1. PICK r \in Seq(X), x \in X : s = Append(r, x)
    BY <1>2, EmptySeq, SequenceEmptyOrAppend
  <2>2. Len(r) = n
    BY <1>2, <2>1, AppendProperties, LenProperties
  <2> QED
    BY <1>2, <2>1, <2>2
<1>3. \A n \in Nat : n \in N => n + 1 \in N
  BY <1>2
<1> HIDE DEF N
<1>4. Nat \subseteq N
  BY <1>1, <1>3, Induction
<1> QED
  BY <1>4, LenProperties DEF N

-----------------------------------------------------------------------------
(* Sequences.                                                              *)

\* Parts of a sequence of sequences, one behind the other.
LEMMA FlattenedFold ==
  ASSUME NEW X, NEW ss \in Seq(Seq(X))
  PROVE  FlattenSeq(ss) = Joined!Fold(0, << >>, ss)
<1> DEFINE V == Seq(X)
           none == << >>
           p == 0
<1>1. Joined!Keeps(p, V, V) /\ none \in V /\ ss \in Seq(V)
  BY ConcatProperties, EmptySeq DEF Joined!Keeps, Join
<1>2. \E h \in [0 .. Len(ss) -> V] :
        /\ h[0] = none
        /\ \A i \in 1 .. Len(ss) : h[i] = Join(p, h[i - 1], ss[i])
        /\ Joined!Fold(p, none, ss) = h[Len(ss)]
  <2> HIDE DEF V, none, p
  <2> QED
    BY <1>1, Numbers, Joined!FoldSteps
<1>3. PICK h \in [0 .. Len(ss) -> Seq(X)] :
        /\ h[0] = << >>
        /\ \A i \in 1 .. Len(ss) : h[i] = h[i - 1] \o ss[i]
        /\ Joined!Fold(0, << >>, ss) = h[Len(ss)]
  BY <1>2 DEF Join
<1> HIDE DEF V, none, p
<1>4. PICK n \in Nat : n = Len(ss)
  BY LenProperties
<1>5. CASE n = 0
  BY <1>3, <1>4, <1>5, EmptySeq DEF FlattenSeq
<1>6. CASE n # 0
  <2> DEFINE It == CHOOSE f : f = [i \in 1 .. n |-> IF i = 1 THEN ss[i] ELSE f[i - 1] \o ss[i]]
  <2>1. FlattenSeq(ss) = It[n]
    BY <1>4, <1>6 DEF FlattenSeq
  <2>2. h[1] = ss[1]
    <3>1. 1 \in 1 .. n /\ 1 - 1 = 0 /\ ss[1] \in Seq(X)
      BY <1>4, <1>6, ElementOfSeq
    <3>2. h[1] = h[1 - 1] \o ss[1]
      BY <1>3, <1>4, <3>1
    <3>3. h[1] = << >> \o ss[1]
      BY <1>3, <3>1, <3>2
    <3> QED
      BY <3>1, <3>3, ConcatEmptySeq
  <2>3. \A i \in 1 .. n : i # 1 => i - 1 \in 1 .. n /\ h[i] = h[i - 1] \o ss[i]
    <3>1. \A i \in 1 .. n : h[i] = h[i - 1] \o ss[i]
      BY <1>3, <1>4
    <3>2. \A i \in 1 .. n : i # 1 => i - 1 \in 1 .. n
      OBVIOUS
    <3> QED
      BY <3>1, <3>2
  <2>4. \E f : f = [i \in 1 .. n |-> IF i = 1 THEN ss[i] ELSE f[i - 1] \o ss[i]]
    <3> DEFINE f == [i \in 1 .. n |-> h[i]]
    <3>1. \A i \in 1 .. n : f[i] = h[i]
      OBVIOUS
    <3>2. f = [i \in 1 .. n |-> f[i]]
      OBVIOUS
    <3> HIDE DEF f
    <3>3. ASSUME NEW i \in 1 .. n
          PROVE  f[i] = IF i = 1 THEN ss[i] ELSE f[i - 1] \o ss[i]
      BY <2>2, <2>3, <3>1
    <3>4. f = [i \in 1 .. n |-> IF i = 1 THEN ss[i] ELSE f[i - 1] \o ss[i]]
      BY <3>2, <3>3
    <3> QED
      BY <3>4
  <2>5. It = [i \in 1 .. n |-> IF i = 1 THEN ss[i] ELSE It[i - 1] \o ss[i]]
    BY <2>4
  <2> HIDE DEF It
  <2>6. \A i \in 1 .. n : It[i] = IF i = 1 THEN ss[i] ELSE It[i - 1] \o ss[i]
    BY <2>5
  <2> DEFINE T == {i \in Nat : i + 1 \in 1 .. n => It[i + 1] = h[i + 1]}
  <2>7. 0 \in T
    <3>1. 0 + 1 = 1 /\ 1 \in 1 .. n
      BY <1>6
    <3>2. It[1] = ss[1]
      BY <2>6, <3>1
    <3> QED
      BY <2>2, <3>1, <3>2
  <2>8. ASSUME NEW i \in Nat, i \in T, i + 1 + 1 \in 1 .. n
        PROVE  It[i + 1 + 1] = h[i + 1 + 1]
    <3>1. PICK j \in 1 .. n : j = i + 1 + 1
      BY <2>8
    <3>2. j - 1 = i + 1 /\ i + 1 \in 1 .. n /\ j # 1
      BY <2>8, <3>1
    <3>3. It[j - 1] = h[j - 1]
      BY <2>8, <3>2
    <3> HIDE DEF T
    <3>4. It[j] = It[j - 1] \o ss[j]
      BY <2>6, <3>2
    <3>5. h[j] = h[j - 1] \o ss[j]
      BY <2>3, <3>2
    <3>6. It[j] = h[j]
      BY <3>3, <3>4, <3>5
    <3> QED
      BY <3>1, <3>6
  <2>9. \A i \in Nat : i \in T => i + 1 \in T
    BY <2>8
  <2> HIDE DEF T
  <2>10. Nat \subseteq T
    BY <2>7, <2>9, Induction
  <2>11. n - 1 \in Nat /\ n - 1 + 1 = n /\ n \in 1 .. n
    BY <1>6
  <2> QED
    BY <1>3, <1>4, <2>1, <2>10, <2>11 DEF T
<1> QED
  BY <1>5, <1>6

\* One part more comes behind the others.
LEMMA FlattenedAppend ==
  ASSUME NEW X, NEW ss \in Seq(Seq(X))
  PROVE  /\ FlattenSeq(<< >>) = << >>
         /\ FlattenSeq(ss) \in Seq(X)
         /\ \A s \in Seq(X) : FlattenSeq(Append(ss, s)) = FlattenSeq(ss) \o s
<1> DEFINE V == Seq(X)
           none == << >>
           p == 0
<1>1. Joined!Keeps(p, V, V) /\ none \in V /\ ss \in Seq(V)
  BY ConcatProperties, EmptySeq DEF Joined!Keeps, Join
<1>2. << >> \in Seq(Seq(X)) /\ \A s \in Seq(X) : Append(ss, s) \in Seq(Seq(X))
  BY AppendProperties, EmptySeq
<1>3. /\ Joined!Fold(p, none, << >>) = none
      /\ Joined!Fold(p, none, ss) \in V
      /\ \A s \in V : Joined!Fold(p, none, Append(ss, s)) = Join(p, Joined!Fold(p, none, ss), s)
  <2> HIDE DEF V, none, p
  <2> QED
    BY <1>1, Numbers, Joined!FoldAppend
<1> QED
  BY <1>2, <1>3, FlattenedFold DEF Join

\* The first part comes first.
LEMMA FlattenedFirst ==
  ASSUME NEW X, NEW s \in Seq(X), NEW ss \in Seq(Seq(X))
  PROVE  FlattenSeq(<<s>> \o ss) = s \o FlattenSeq(ss)
<1> DEFINE T == {rr \in Seq(Seq(X)) : FlattenSeq(<<s>> \o rr) = s \o FlattenSeq(rr)}
<1>1. << >> \in T
  <2>1. << >> \in Seq(Seq(X)) /\ <<s>> \in Seq(Seq(X)) /\ <<s>> = Append(<< >>, s)
    BY EmptySeq
  <2>2. FlattenSeq(<<s>>) = << >> \o s /\ FlattenSeq(<< >>) = << >>
    BY <2>1, FlattenedAppend
  <2>3. << >> \o s = s /\ s \o << >> = s /\ <<s>> \o << >> = <<s>>
    BY <2>1, ConcatEmptySeq
  <2> QED
    BY <2>1, <2>2, <2>3
<1>2. ASSUME NEW rr \in Seq(Seq(X)), NEW r \in Seq(X), rr \in T
      PROVE  Append(rr, r) \in T
  <2>1. <<s>> \in Seq(Seq(X)) /\ Append(rr, r) \in Seq(Seq(X)) /\ <<r>> \in Seq(Seq(X))
    BY AppendProperties
  <2>2. <<s>> \o Append(rr, r) = Append(<<s>> \o rr, r) /\ <<s>> \o rr \in Seq(Seq(X))
    <3>1. Append(rr, r) = rr \o <<r>>
      BY AppendIsConcat
    <3>2. <<s>> \o rr \in Seq(Seq(X))
      BY <2>1, ConcatProperties
    <3>3. Append(<<s>> \o rr, r) = (<<s>> \o rr) \o <<r>>
      BY <3>2, AppendIsConcat
    <3> QED
      BY <2>1, <3>1, <3>2, <3>3, ConcatAssociative
  <2>3. FlattenSeq(<<s>> \o Append(rr, r)) = FlattenSeq(<<s>> \o rr) \o r
    BY <2>2, FlattenedAppend
  <2>4. FlattenSeq(rr) \in Seq(X) /\ FlattenSeq(Append(rr, r)) = FlattenSeq(rr) \o r
    BY FlattenedAppend
  <2>5. (s \o FlattenSeq(rr)) \o r = s \o (FlattenSeq(rr) \o r)
    BY <2>4, ConcatAssociative
  <2> QED
    BY <1>2, <2>1, <2>3, <2>4, <2>5
<1> HIDE DEF T
<1>3. Seq(Seq(X)) \subseteq T
  BY <1>1, <1>2, SequenceInduction
<1> QED
  BY <1>3 DEF T

\* A character is added to what has been parsed.

ConcatOf(X, s, t, q) ==
  /\ q \in Seq(X) /\ Len(q) = Len(s) + Len(t)
  /\ \A i \in 1 .. Len(s) + Len(t) : q[i] = IF i <= Len(s) THEN s[i] ELSE t[i - Len(s)]

\* What is at each position of two sequences, one behind the other.
LEMMA ConcatIs == \A X : \A s, t \in Seq(X) : ConcatOf(X, s, t, s \o t)
BY ConcatProperties DEF ConcatOf

\* An element appended to the second part is appended to the whole.
LEMMA ConcatAppend ==
  ASSUME NEW X, NEW s \in Seq(X), NEW t \in Seq(X), NEW x \in X
  PROVE  s \o Append(t, x) = Append(s \o t, x)
<1>1. Append(t, x) = t \o <<x>> /\ <<x>> \in Seq(X)
  BY AppendIsConcat
<1>2. s \o t \in Seq(X)
  BY ConcatProperties
<1>3. Append(s \o t, x) = (s \o t) \o <<x>>
  BY <1>2, AppendIsConcat
<1> QED
  BY <1>1, <1>3, ConcatAssociative

\* A sequence that is another one and one element more.
LEMMA AppendEqual ==
  ASSUME NEW X, NEW s \in Seq(X), NEW x \in X, NEW a \in Seq(X),
         Len(a) = Len(s) + 1, a[Len(s) + 1] = x, \A i \in 1 .. Len(s) : a[i] = s[i]
  PROVE  a = Append(s, x)
<1>1. /\ Append(s, x) \in Seq(X) /\ Len(Append(s, x)) = Len(s) + 1
      /\ \A i \in 1 .. Len(s) : Append(s, x)[i] = s[i]
      /\ Append(s, x)[Len(s) + 1] = x
  BY AppendProperties
<1>2. \A i \in 1 .. Len(s) + 1 : i = Len(s) + 1 \/ i \in 1 .. Len(s)
  BY LenProperties
<1>3. \A i \in 1 .. Len(a) : a[i] = Append(s, x)[i]
  BY <1>1, <1>2
<1> QED
  BY <1>1, <1>3, SeqEqual

\* What is left behind the first k elements begins with the next one.
LEMMA SubSeqFirst ==
  ASSUME NEW X, NEW s \in Seq(X), NEW k \in Nat, k < Len(s)
  PROVE  /\ SubSeq(s, k + 1, Len(s)) = <<s[k + 1]>> \o SubSeq(s, k + 2, Len(s))
         /\ SubSeq(s, k + 2, Len(s)) \in Seq(X)
         /\ SubSeq(s, k + 1, Len(s)) \in Seq(X)
<1>1. PICK n \in Nat : n = Len(s)
  BY LenProperties
<1>2. k + 1 \in 1 .. n /\ n \in k + 1 .. n /\ k + 1 + 1 = k + 2
  BY <1>1
<1>3. \A i \in k + 1 .. n : s[i] \in X
  BY <1>1, ElementOfSeq
<1> QED
  BY <1>1, <1>2, <1>3, SubSeqRecursiveFirst, SubSeqProperties

\* The first part of what is left comes first.
LEMMA FlattenedNext ==
  ASSUME NEW X, NEW ss \in Seq(Seq(X)), NEW k \in Nat, k < Len(ss)
  PROVE  FlattenSeq(SubSeq(ss, k + 1, Len(ss))) = ss[k + 1] \o FlattenSeq(SubSeq(ss, k + 2, Len(ss)))
<1>1. /\ SubSeq(ss, k + 1, Len(ss)) = <<ss[k + 1]>> \o SubSeq(ss, k + 2, Len(ss))
      /\ SubSeq(ss, k + 2, Len(ss)) \in Seq(Seq(X))
  BY SubSeqFirst
<1>2. ss[k + 1] \in Seq(X)
  <2>1. k + 1 \in 1 .. Len(ss)
    BY LenProperties
  <2> QED
    BY <2>1, ElementOfSeq
<1> QED
  BY <1>1, <1>2, FlattenedFirst

-----------------------------------------------------------------------------
(* Text.                                                                   *)

\* That a literal is a string is more than the provers know.
Char == STRING \cup Names \cup
  {"r", "n", ".", " ", "<", "0", "x", "here", "group", "newsd", "now", "peer", "number"}
At == [lines : Seq(Seq(Char)), line : Seq(Char)]
Start == [lines |-> << >>, line |-> << >>]
Parsed(text) == FoldLeft(AddCharacter, Start, text)
Plain(line) == \A j \in DOMAIN line : line[j] \notin {"r", "n"}

\* The characters that the loops look for are characters.
LEMMA LineEnds == "r" \in Char /\ "n" \in Char /\ "." \in Char /\ " " \in Char /\ STRING \subseteq Char
BY DEF Char

\* The parsed text is a fold.
LEMMA ParsedFold ==
  ASSUME NEW text
  PROVE  /\ Parsed(text) = Text!Fold(0, Start, text)
         /\ LinesOf(text) = Parsed(text).lines
BY DEF Parsed, LinesOf, Start, FoldLeft, MapThenFoldSet, Max, Parse,
       Text!Fold, Text!MapThenFoldSet, Text!Max

\* A character more leaves lines and a line.
LEMMA AddCharacterType ==
  ASSUME NEW at \in At, NEW c \in Char
  PROVE  AddCharacter(at, c) \in At
<1>1. /\ at.lines \in Seq(Seq(Char)) /\ at.line \in Seq(Char)
      /\ Append(at.lines, at.line) \in Seq(Seq(Char)) /\ Append(at.line, c) \in Seq(Char)
  BY AppendProperties DEF At
<1> QED
  BY <1>1, EmptySeq DEF AddCharacter, At

\* Parsing goes on at the end of a text.
LEMMA ParsedAppend ==
  ASSUME NEW text \in Seq(Char)
  PROVE  /\ Parsed(<< >>) = Start
         /\ Parsed(text) \in At
         /\ \A c \in Char : Parsed(Append(text, c)) = AddCharacter(Parsed(text), c)
<1> DEFINE p == 0
           V == At
           X == Char
           base == Start
<1>1. Text!Keeps(p, V, X) /\ base \in V /\ text \in Seq(X)
  BY AddCharacterType, EmptySeq DEF Text!Keeps, Parse, At, Start
<1>2. /\ Text!Fold(p, base, << >>) = base
      /\ Text!Fold(p, base, text) \in V
      /\ \A x \in X : Text!Fold(p, base, Append(text, x)) = Parse(p, Text!Fold(p, base, text), x)
  <2> HIDE DEF V, X, base, p
  <2> QED
    BY <1>1, Numbers, Text!FoldAppend
<1> QED
  BY <1>2, ParsedFold DEF Parse

\* A text without line ends is added to the line.
LEMMA ParsedLine ==
  ASSUME NEW text \in Seq(Char), NEW line \in Seq(Char), Plain(line)
  PROVE  /\ Parsed(text \o line).lines = Parsed(text).lines
         /\ Parsed(text \o line).line = Parsed(text).line \o line
<1> DEFINE Q(s) == /\ Parsed(text \o s).lines = Parsed(text).lines
                   /\ Parsed(text \o s).line = Parsed(text).line \o s
           T == {s \in Seq(Char) : Plain(s) => Q(s)}
<1>0. Parsed(text) \in At /\ Parsed(text).line \in Seq(Char)
  BY ParsedAppend DEF At
<1>1. << >> \in T
  <2>1. text \o << >> = text /\ Parsed(text).line \o << >> = Parsed(text).line
    BY <1>0, ConcatEmptySeq
  <2> QED
    BY <2>1, EmptySeq
<1>2. ASSUME NEW s \in Seq(Char), NEW c \in Char, s \in T, Plain(Append(s, c))
      PROVE  Q(Append(s, c))
  <2>1. Plain(s) /\ c \notin {"r", "n"}
    <3>1. /\ Len(Append(s, c)) = Len(s) + 1 /\ Append(s, c)[Len(s) + 1] = c
          /\ \A i \in 1 .. Len(s) : Append(s, c)[i] = s[i]
          /\ DOMAIN s = 1 .. Len(s) /\ DOMAIN Append(s, c) = 1 .. Len(s) + 1
          /\ Len(s) \in Nat
      BY AppendProperties, LenProperties
    <3>2. \A i \in 1 .. Len(s) + 1 : Append(s, c)[i] \notin {"r", "n"}
      BY <1>2, <3>1 DEF Plain
    <3>3. Len(s) + 1 \in 1 .. Len(s) + 1 /\ \A i \in 1 .. Len(s) : i \in 1 .. Len(s) + 1
      BY <3>1
    <3> QED
      BY <3>1, <3>2, <3>3 DEF Plain
  <2>2. text \o Append(s, c) = Append(text \o s, c) /\ text \o s \in Seq(Char)
    BY ConcatAppend, ConcatProperties
  <2>3. Parsed(Append(text \o s, c)) = AddCharacter(Parsed(text \o s), c) /\ Parsed(text \o s) \in At
    BY <2>2, ParsedAppend
  <2>4. /\ Parsed(Append(text \o s, c)).lines = Parsed(text \o s).lines
        /\ Parsed(Append(text \o s, c)).line = Append(Parsed(text \o s).line, c)
    BY <2>1, <2>3 DEF AddCharacter, At
  <2>5. Parsed(text).line \o Append(s, c) = Append(Parsed(text).line \o s, c)
    <3>1. PICK l \in Seq(Char) : l = Parsed(text).line
      BY <1>0
    <3>2. l \o Append(s, c) = Append(l \o s, c)
      BY ConcatAppend
    <3> QED
      BY <3>1, <3>2
  <2>6. Q(s)
    BY <1>2, <2>1
  <2> QED
    BY <2>2, <2>4, <2>5, <2>6
<1> HIDE DEF Q
<1>3. \A s \in Seq(Char), c \in Char : s \in T => Append(s, c) \in T
  BY <1>2, AppendProperties
<1> HIDE DEF T
<1>4. Seq(Char) \subseteq T
  BY <1>1, <1>3, SequenceInduction
<1> QED
  BY <1>4 DEF T, Q
\* LF, or CR and LF, ends a line.
LEMMA ParsedEnd ==
  ASSUME NEW text \in Seq(Char), NEW e \in {CRLF, <<"n">>}
  PROVE  /\ Parsed(text \o e) = [lines |-> Append(Parsed(text).lines, Parsed(text).line), line |-> << >>]
         /\ text \o e \in Seq(Char) /\ e \in Seq(Char)
<1>0. "r" \in Char /\ "n" \in Char
  BY LineEnds
<1>1. "r" \in Char /\ "n" \in Char /\ <<"r">> \in Seq(Char) /\ <<"n">> \in Seq(Char)
  BY <1>0
<1>2. /\ text \o <<"n">> = Append(text, "n") /\ text \o <<"r">> = Append(text, "r")
      /\ Append(text, "r") \in Seq(Char)
      /\ Append(text, "r") \o <<"n">> = Append(Append(text, "r"), "n")
  BY <1>1, AppendIsConcat, AppendProperties
<1>3. CRLF = <<"r">> \o <<"n">>
  BY DEF CRLF
<1>4. text \o CRLF = Append(Append(text, "r"), "n")
  BY <1>1, <1>2, <1>3, ConcatAssociative
<1>5. /\ Parsed(Append(text, "n")) = AddCharacter(Parsed(text), "n")
      /\ Parsed(Append(text, "r")) = AddCharacter(Parsed(text), "r")
      /\ Parsed(Append(Append(text, "r"), "n")) = AddCharacter(Parsed(Append(text, "r")), "n")
  BY <1>1, <1>2, ParsedAppend
<1>6. CRLF \in Seq(Char)
  BY <1>1, <1>3, ConcatProperties
<1>7. text \o e \in Seq(Char)
  BY <1>1, <1>6, ConcatProperties
<1> QED
  BY <1>1, <1>2, <1>4, <1>5, <1>6, <1>7 DEF AddCharacter

\* The lines of a text that was put together from lines.
LEMMA ParsedText ==
  ASSUME NEW lines \in Seq(Seq(Char)), \A i \in DOMAIN lines : Plain(lines[i]),
         NEW e \in {CRLF, <<"n">>}
  PROVE  /\ Parsed(FlattenSeq([i \in DOMAIN lines |-> lines[i] \o e])) = [lines |-> lines, line |-> << >>]
         /\ FlattenSeq([i \in DOMAIN lines |-> lines[i] \o e]) \in Seq(Char)
<1> DEFINE Ended(ls) == [i \in DOMAIN ls |-> ls[i] \o e]
           Plains(ls) == \A i \in DOMAIN ls : Plain(ls[i])
           Q(ls) == Parsed(FlattenSeq(Ended(ls))) = [lines |-> ls, line |-> << >>]
           T == {ls \in Seq(Seq(Char)) : Plains(ls) => Q(ls)}
<1>0. e \in Seq(Char)
  BY ParsedEnd, EmptySeq
<1>1. ASSUME NEW ls \in Seq(Seq(Char))
      PROVE  Ended(ls) \in Seq(Seq(Char)) /\ DOMAIN ls = 1 .. Len(ls) /\ Len(Ended(ls)) = Len(ls) /\ Len(ls) \in Nat
  <2>1. DOMAIN ls = 1 .. Len(ls) /\ Len(ls) \in Nat
    BY LenProperties
  <2>2. \A i \in 1 .. Len(ls) : ls[i] \o e \in Seq(Char)
    BY <1>0, ElementOfSeq, ConcatProperties
  <2> QED
    BY <2>1, <2>2
<1>2. << >> \in T
  <2>1. << >> \in Seq(Seq(Char)) /\ Ended(<< >>) = << >>
    BY EmptySeq
  <2>2. FlattenSeq(<< >>) = << >>
    BY <2>1, FlattenedAppend
  <2> QED
    BY <2>1, <2>2, ParsedAppend, EmptySeq DEF Start
<1>3. ASSUME NEW ls \in Seq(Seq(Char)), NEW l \in Seq(Char), ls \in T, Plains(Append(ls, l))
      PROVE  Q(Append(ls, l))
  <2>1. /\ Append(ls, l) \in Seq(Seq(Char)) /\ Len(Append(ls, l)) = Len(ls) + 1
        /\ Append(ls, l)[Len(ls) + 1] = l
        /\ \A i \in 1 .. Len(ls) : Append(ls, l)[i] = ls[i]
        /\ DOMAIN ls = 1 .. Len(ls) /\ DOMAIN Append(ls, l) = 1 .. Len(ls) + 1
        /\ Len(ls) \in Nat
    BY AppendProperties, LenProperties
  <2>2. Plains(ls) /\ Plain(l)
    <3>1. Len(ls) + 1 \in 1 .. Len(ls) + 1 /\ \A i \in 1 .. Len(ls) : i \in 1 .. Len(ls) + 1
      BY <2>1
    <3> QED
      BY <1>3, <2>1, <3>1
  <2>3. l \o e \in Seq(Char)
    BY <1>0, ConcatProperties
  <2>4. Ended(Append(ls, l)) = Append(Ended(ls), l \o e)
    <3> DEFINE a == Ended(Append(ls, l))
               b == Ended(ls)
    <3>1. a \in Seq(Seq(Char)) /\ Len(a) = Len(ls) + 1
      BY <1>1, <2>1
    <3>2. b \in Seq(Seq(Char)) /\ Len(b) = Len(ls)
      BY <1>1
    <3>3. \A i \in 1 .. Len(ls) : a[i] = b[i]
      BY <2>1
    <3> DEFINE r == l \o e
    <3>4. a[Len(ls) + 1] = r
      <4>1. Len(ls) + 1 \in 1 .. Len(ls) + 1
        BY <2>1
      <4> QED
        BY <2>1, <4>1
    <3>5. r \in Seq(Char)
      BY <2>3
    <3> HIDE DEF a, b, r
    <3>6. Len(a) = Len(b) + 1 /\ a[Len(b) + 1] = r /\ \A i \in 1 .. Len(b) : a[i] = b[i]
      BY <3>1, <3>2, <3>3, <3>4
    <3> DEFINE X == Seq(Char)
    <3>7. a \in Seq(X) /\ b \in Seq(X) /\ r \in X
      BY <3>1, <3>2, <3>5
    <3> HIDE DEF X
    <3>8. a = Append(b, r)
      BY <3>6, <3>7, AppendEqual
    <3> QED
      BY <3>8 DEF a, b, r
  <2>5. Ended(ls) \in Seq(Seq(Char))
    BY <1>1
  <2> DEFINE t == FlattenSeq(Ended(ls))
  <2>6. t \in Seq(Char) /\ FlattenSeq(Ended(Append(ls, l))) = t \o (l \o e)
    <3> HIDE DEF Ended
    <3> QED
      BY <2>3, <2>4, <2>5, FlattenedAppend
  <2>7. Parsed(t) = [lines |-> ls, line |-> << >>]
    BY <1>3, <2>2
  <2> HIDE DEF t, Ended
  <2>8. t \o (l \o e) = (t \o l) \o e /\ t \o l \in Seq(Char)
    <3>1. t \in Seq(Char)
      BY <2>6
    <3>2. t \o l \in Seq(Char)
      BY <3>1, ConcatProperties
    <3> QED
      BY <1>0, <3>1, <3>2, ConcatAssociative, SMTT(20)
  <2>9. Parsed(t \o l).lines = ls /\ Parsed(t \o l).line = << >> \o l
    <3>1. t \in Seq(Char) /\ Plain(l)
      BY <2>2, <2>6
    <3>2. Parsed(t \o l).lines = Parsed(t).lines /\ Parsed(t \o l).line = Parsed(t).line \o l
      BY <3>1, ParsedLine
    <3> QED
      BY <2>7, <3>2
  <2>10. << >> \o l = l
    BY ConcatEmptySeq
  <2>11. Parsed(t \o l \o e) = [lines |-> Append(ls, l), line |-> << >>]
    BY <2>8, <2>9, <2>10, ParsedEnd
  <2> QED
    BY <2>6, <2>8, <2>11
<1> HIDE DEF Q
<1>4. \A ls \in Seq(Seq(Char)), l \in Seq(Char) : ls \in T => Append(ls, l) \in T
  BY <1>3, AppendProperties
<1> HIDE DEF T
<1>5. Seq(Seq(Char)) \subseteq T
  <2> DEFINE X == Seq(Char)
  <2>1. << >> \in T /\ \A s \in Seq(X), x \in X : s \in T => Append(s, x) \in T
    BY <1>2, <1>4
  <2> HIDE DEF X
  <2>2. Seq(X) \subseteq T
    BY <2>1, SequenceInduction
  <2> QED
    BY <2>2 DEF X
<1>6. Q(lines)
  BY <1>5 DEF T
<1>7. FlattenSeq(Ended(lines)) \in Seq(Char)
  <2>1. Ended(lines) \in Seq(Seq(Char))
    BY <1>1
  <2> HIDE DEF Ended
  <2> QED
    BY <2>1, FlattenedAppend
<1> QED
  BY <1>6, <1>7 DEF Q

-----------------------------------------------------------------------------
(* What is still to be read.                                               *)

\* A first character can be read off.
LEMMA HeadTailConcat ==
  ASSUME NEW X, NEW c \in X, NEW s \in Seq(X)
  PROVE  /\ <<c>> \o s \in Seq(X) /\ <<c>> \o s # << >>
         /\ Head(<<c>> \o s) = c /\ Tail(<<c>> \o s) = s
<1>1. <<c>> \in Seq(X) /\ Len(<<c>>) = 1 /\ <<c>>[1] = c
  OBVIOUS
<1> DEFINE t == <<c>> \o s
<1>2. /\ t \in Seq(X) /\ Len(t) = 1 + Len(s) /\ Len(s) \in Nat
      /\ \A i \in 1 .. 1 + Len(s) : t[i] = IF i <= 1 THEN <<c>>[i] ELSE s[i - 1]
  BY <1>1, ConcatProperties, LenProperties
<1> HIDE DEF t
<1>3. t # << >>
  BY <1>2, EmptySeq
<1>4. Head(t) = c
  BY <1>1, <1>2, <1>3
<1>5. /\ Tail(t) \in Seq(X) /\ Len(Tail(t)) = Len(s)
      /\ \A i \in 1 .. Len(Tail(t)) : Tail(t)[i] = t[i + 1]
  BY <1>2, <1>3, HeadTailProperties
<1>6. \A i \in 1 .. Len(s) : t[i + 1] = s[i]
  BY <1>2
<1>7. Tail(t) = s
  BY <1>5, <1>6, SeqEqual
<1> QED
  BY <1>2, <1>3, <1>4, <1>7 DEF t

\* Associativity, said so that the provers apply it only where they are asked to.
Associates(X, r, s, t) == (r \o s) \o t = r \o (s \o t)

\* Concatenation is associative.
LEMMA Associate == \A X : \A r, s, t \in Seq(X) : Associates(X, r, s, t)
BY ConcatAssociative DEF Associates

AssociatesFive(X, d, l, c, f, e) ==
  (((d \o l) \o c) \o f) \o e = d \o (l \o (c \o (f \o e)))

\* ... for a dot, a line, a CR LF and what follows.
LEMMA AssociateFive ==
  ASSUME NEW X, NEW d \in Seq(X), NEW l \in Seq(X), NEW c \in Seq(X), NEW f \in Seq(X), NEW e \in Seq(X)
  PROVE  AssociatesFive(X, d, l, c, f, e)
<1>1. PICK dl \in Seq(X) : dl = d \o l
  BY ConcatProperties
<1>2. PICK fe \in Seq(X) : fe = f \o e
  BY ConcatProperties
<1>3. PICK dlc \in Seq(X) : dlc = dl \o c
  BY ConcatProperties
<1>4. PICK cfe \in Seq(X) : cfe = c \o fe
  BY ConcatProperties
<1>5. Associates(X, dlc, f, e) /\ Associates(X, dl, c, fe) /\ Associates(X, d, l, cfe)
  BY Associate
<1> QED
  BY <1>1, <1>2, <1>3, <1>4, <1>5 DEF Associates, AssociatesFive

Ends == <<".">> \o (<<"r">> \o (<<"n">> \o NextCommand))
After(lines, k) ==
  FlattenSeq(SubSeq([i \in DOMAIN lines |-> Stuffed(lines[i])], k + 1, Len(lines))) \o Ends
AfterMail(lines, k) ==
  FlattenSeq(SubSeq([i \in DOMAIN lines |-> Append(lines[i], "n")], k + 1, Len(lines)))

\* ... of line k + 1, when m characters of it have been read.
Rest(lines, k, m) ==
  SubSeq(lines[k + 1], m + 1, Len(lines[k + 1])) \o (<<"r">> \o (<<"n">> \o After(lines, k + 1)))
RestMail(lines, k, m) ==
  SubSeq(lines[k + 1], m + 1, Len(lines[k + 1])) \o (<<"n">> \o AfterMail(lines, k + 1))

Dotted(line) == line # << >> /\ line[1] = "."

\* CR and LF are read one after the other.
LEMMA CRLFConcat ==
  ASSUME NEW s \in Seq(Char)
  PROVE  /\ CRLF \o s = <<"r">> \o (<<"n">> \o s) /\ CRLF \in Seq(Char)
         /\ <<"n">> \o s \in Seq(Char) /\ <<"r">> \o (<<"n">> \o s) \in Seq(Char)
         /\ <<".">> \in Seq(Char)
<1>0. "r" \in Char /\ "n" \in Char /\ "." \in Char
  BY LineEnds
<1>1. <<"r">> \in Seq(Char) /\ <<"n">> \in Seq(Char) /\ <<".">> \in Seq(Char)
  BY <1>0
<1>2. CRLF = <<"r">> \o <<"n">>
  BY DEF CRLF
<1>3. CRLF \in Seq(Char)
  BY <1>1, <1>2, ConcatProperties
<1>4. <<"n">> \o s \in Seq(Char)
  BY <1>1, ConcatProperties
<1>5. <<"r">> \o (<<"n">> \o s) \in Seq(Char)
  BY <1>1, <1>4, ConcatProperties
<1> QED
  BY <1>1, <1>2, <1>3, <1>4, <1>5, ConcatAssociative

\* The end of a text, and the next command, are text.
LEMMA EndsType == Ends \in Seq(Char) /\ NextCommand \in Seq(Char) /\ <<".">> \o CRLF \o NextCommand = Ends
<1>1. "x" \in Char
  BY DEF Char
<1>2. << >> \in Seq(Char) /\ <<"x", "x">> \in Seq(Char)
  BY <1>1
<1>3. CRLF \in Seq(Char) /\ <<".">> \in Seq(Char)
  BY <1>2, CRLFConcat
<1>4. NextCommand \in Seq(Char)
  BY <1>2, <1>3, ConcatProperties DEF NextCommand
<1>5. /\ CRLF \o NextCommand = <<"r">> \o (<<"n">> \o NextCommand)
      /\ <<"r">> \o (<<"n">> \o NextCommand) \in Seq(Char)
  BY <1>4, CRLFConcat
<1>6. Ends \in Seq(Char)
  BY <1>3, <1>5, ConcatProperties DEF Ends
<1> DEFINE d == <<".">>
           c == CRLF
           x == NextCommand
<1>7. (d \o c) \o x = d \o (c \o x)
  <2> HIDE DEF d, c, x
  <2>1. d \in Seq(Char) /\ c \in Seq(Char) /\ x \in Seq(Char)
    BY <1>3, <1>4 DEF d, c, x
  <2> QED
    BY <2>1, ConcatAssociative
<1> QED
  BY <1>4, <1>5, <1>6, <1>7 DEF Ends

\* The lines as they are sent, by POST and by the mail system.
LEMMA StuffedLines ==
  ASSUME NEW lines \in Seq(Seq(Char))
  PROVE  /\ [i \in DOMAIN lines |-> Stuffed(lines[i])] \in Seq(Seq(Char))
         /\ [i \in DOMAIN lines |-> Append(lines[i], "n")] \in Seq(Seq(Char))
         /\ Len([i \in DOMAIN lines |-> Stuffed(lines[i])]) = Len(lines)
         /\ Len([i \in DOMAIN lines |-> Append(lines[i], "n")]) = Len(lines)
         /\ DOMAIN lines = 1 .. Len(lines) /\ Len(lines) \in Nat
<1>1. DOMAIN lines = 1 .. Len(lines) /\ Len(lines) \in Nat
  BY LenProperties
<1>2. ASSUME NEW l \in Seq(Char)
      PROVE  Stuffed(l) \in Seq(Char) /\ Append(l, "n") \in Seq(Char)
  <2>1. << >> \in Seq(Char) /\ <<".">> \in Seq(Char) /\ CRLF \in Seq(Char)
    BY EmptySeq, CRLFConcat
  <2>2. PICK d \in Seq(Char) : d = IF l # << >> /\ l[1] = "." THEN <<".">> ELSE << >>
    BY <2>1
  <2>3. d \o l \in Seq(Char)
    BY ConcatProperties
  <2>4. (d \o l) \o CRLF \in Seq(Char)
    BY <2>1, <2>3, ConcatProperties
  <2>5. Stuffed(l) = (d \o l) \o CRLF
    BY <2>2 DEF Stuffed
  <2> QED
    BY <2>4, <2>5, LineEnds, AppendProperties
<1>3. \A i \in 1 .. Len(lines) : Stuffed(lines[i]) \in Seq(Char) /\ Append(lines[i], "n") \in Seq(Char)
  BY <1>2, ElementOfSeq
<1> QED
  BY <1>1, <1>3

\* Behind line k comes line k + 1, with its dot if it is stuffed, or the end.
LEMMA AfterSteps ==
  ASSUME NEW lines \in Seq(Seq(Char)), NEW k \in 0 .. Len(lines)
  PROVE  /\ After(lines, k) \in Seq(Char)
         /\ k = Len(lines) => After(lines, k) = Ends
         /\ k < Len(lines) => After(lines, k) = IF Dotted(lines[k + 1]) THEN <<".">> \o Rest(lines, k, 0)
                                                                      ELSE Rest(lines, k, 0)
<1> DEFINE ss == [i \in DOMAIN lines |-> Stuffed(lines[i])]
<1>1. ss \in Seq(Seq(Char)) /\ Len(ss) = Len(lines) /\ Len(lines) \in Nat /\ DOMAIN lines = 1 .. Len(lines)
  BY StuffedLines
<1>2. \A i \in 1 .. Len(lines) : ss[i] = Stuffed(lines[i])
  BY <1>1
<1>3. After(lines, k) = FlattenSeq(SubSeq(ss, k + 1, Len(ss))) \o Ends
  BY <1>1 DEF After
<1>4. k < Len(lines) => After(lines, k + 1) = FlattenSeq(SubSeq(ss, k + 2, Len(ss))) \o Ends
  BY <1>1 DEF After
<1> HIDE DEF ss
<1> DEFINE r(j) == SubSeq(ss, j, Len(ss))
<1>5. r(k + 1) \in Seq(Seq(Char)) /\ r(k + 2) \in Seq(Seq(Char)) /\ (k = Len(lines) => r(k + 1) = << >>)
  <2>1. \A j \in Nat \ {0} : \A i \in j .. Len(ss) : ss[i] \in Seq(Char)
    BY <1>1, ElementOfSeq
  <2>2. k + 1 \in Nat \ {0} /\ k + 2 \in Nat \ {0} /\ Len(ss) \in Int
    BY <1>1
  <2>3. r(k + 1) \in Seq(Seq(Char)) /\ r(k + 2) \in Seq(Seq(Char))
    <3> DEFINE X == Seq(Char)
    <3>1. \A j \in Nat \ {0} : \A i \in j .. Len(ss) : ss[i] \in X
      BY <2>1
    <3> HIDE DEF X
    <3>2. SubSeq(ss, k + 1, Len(ss)) \in Seq(X)
      <4>1. k + 1 \in Int /\ \A i \in k + 1 .. Len(ss) : ss[i] \in X
        BY <2>2, <3>1
      <4> QED
        BY <2>2, <4>1, SubSeqProperties
    <3>3. SubSeq(ss, k + 2, Len(ss)) \in Seq(X)
      <4>1. k + 2 \in Int /\ k + 2 \in Nat \ {0}
        BY <2>2
      <4>2. \A i \in k + 2 .. Len(ss) : ss[i] \in X
        BY <3>1, <4>1
      <4> QED
        BY <2>2, <4>1, <4>2, SubSeqProperties
    <3> QED
      BY <3>2, <3>3 DEF X
  <2>4. k = Len(lines) => r(k + 1) = << >>
    BY <1>1, <2>2, SubSeqEmpty
  <2> QED
    BY <2>3, <2>4
<1>6. FlattenSeq(r(k + 1)) \in Seq(Char) /\ FlattenSeq(r(k + 2)) \in Seq(Char) /\ FlattenSeq(<< >>) = << >>
  <2> HIDE DEF r
  <2> QED
    BY <1>5, FlattenedAppend
<1>7. After(lines, k) \in Seq(Char)
  BY <1>3, <1>6, EndsType, ConcatProperties
<1>8. k = Len(lines) => After(lines, k) = Ends
  <2>1. << >> \o Ends = Ends
    BY EndsType, ConcatEmptySeq
  <2>2. k = Len(lines) => FlattenSeq(SubSeq(ss, k + 1, Len(ss))) = << >>
    BY <1>5, <1>6
  <2> QED
    BY <1>3, <2>1, <2>2
<1>9. ASSUME k < Len(lines)
      PROVE  After(lines, k) = IF Dotted(lines[k + 1]) THEN <<".">> \o Rest(lines, k, 0) ELSE Rest(lines, k, 0)
  <2>1. k + 1 \in 1 .. Len(lines) /\ k \in Nat
    BY <1>1, <1>9
  <2>2. PICK l \in Seq(Char) : l = lines[k + 1]
    BY <2>1, ElementOfSeq
  <2>3. PICK f \in Seq(Char) : f = FlattenSeq(r(k + 2))
    BY <1>6
  <2>4. PICK a \in Seq(Char) : a = f \o Ends
    BY EndsType, ConcatProperties
  <2>5. After(lines, k + 1) = a
    BY <1>4, <1>9, <2>3, <2>4
  <2>6. FlattenSeq(r(k + 1)) = Stuffed(l) \o f
    <3>1. FlattenSeq(SubSeq(ss, k + 1, Len(ss))) = ss[k + 1] \o FlattenSeq(SubSeq(ss, k + 2, Len(ss)))
      BY <1>1, <1>9, <2>1, FlattenedNext
    <3> QED
      BY <1>2, <2>1, <2>2, <2>3, <3>1
  <2>7. PICK d \in Seq(Char) : d = IF Dotted(l) THEN <<".">> ELSE << >>
    BY EmptySeq, CRLFConcat
  <2>8. Stuffed(l) = (d \o l) \o CRLF
    BY <2>7 DEF Stuffed, Dotted
  <2>9. PICK c \in Seq(Char) : c = CRLF
    BY EmptySeq, CRLFConcat
  <2>10. After(lines, k) = ((d \o l) \o c) \o f \o Ends
    BY <1>3, <2>6, <2>8, <2>9
  <2>11. ((d \o l) \o c) \o f \o Ends = d \o (l \o (c \o a))
    <3>1. PICK e \in Seq(Char) : e = Ends
      BY EndsType
    <3>2. AssociatesFive(Char, d, l, c, f, e)
      BY AssociateFive
    <3> QED
      BY <2>4, <3>1, <3>2 DEF AssociatesFive
  <2>12. c \o a = <<"r">> \o (<<"n">> \o a)
    BY <2>9, CRLFConcat
  <2>13. l = SubSeq(lines[k + 1], 0 + 1, Len(lines[k + 1]))
    BY <2>2, SubSeqFull
  <2>14. l \o (c \o a) = Rest(lines, k, 0)
    BY <2>5, <2>12, <2>13 DEF Rest
  <2>15. After(lines, k) = d \o Rest(lines, k, 0)
    BY <2>10, <2>11, <2>14
  <2>16. Rest(lines, k, 0) \in Seq(Char)
    <3>1. c \o a \in Seq(Char)
      BY ConcatProperties
    <3>2. l \o (c \o a) \in Seq(Char)
      BY <3>1, ConcatProperties
    <3> QED
      BY <2>14, <3>2
  <2>17. << >> \o Rest(lines, k, 0) = Rest(lines, k, 0)
    BY <2>16, ConcatEmptySeq
  <2> QED
    BY <2>2, <2>7, <2>15, <2>17
<1> QED
  BY <1>7, <1>8, <1>9

\* Where a long line is full, the next character starts the count again.
LEMMA DivNext ==
  ASSUME NEW m \in Nat, NEW d \in Nat, d > 1, m % d = d - 1
  PROVE  (m + 1) % d = 0 /\ (m + 1) \div d = m \div d + 1
<1>1. m = d * (m \div d) + (m % d)
  OBVIOUS
<1>2. PICK q \in Nat : q = m \div d
  OBVIOUS
<1>3. m + 1 = d * (q + 1)
  BY <1>1, <1>2
<1>4. (d * (q + 1)) % d = 0 /\ (d * (q + 1)) \div d = q + 1
  OBVIOUS
<1> QED
  BY <1>2, <1>3, <1>4

\* Counting characters modulo the width plus one, as the loops do.
LEMMA DivMod ==
  ASSUME NEW m \in Nat
  PROVE  /\ m % (LineWidth + 1) \in 0 .. LineWidth /\ m \div (LineWidth + 1) \in Nat
         /\ m % (LineWidth + 1) = LineWidth
              => /\ (m + 1) % (LineWidth + 1) = 0
                 /\ (m + 1) \div (LineWidth + 1) = m \div (LineWidth + 1) + 1
         /\ m % (LineWidth + 1) # LineWidth
              => /\ (m + 1) % (LineWidth + 1) = (m % (LineWidth + 1)) + 1
                 /\ (m + 1) \div (LineWidth + 1) = m \div (LineWidth + 1)
         /\ 0 % (LineWidth + 1) = 0 /\ 0 \div (LineWidth + 1) = 0
<1>1. PICK d \in Nat : d = LineWidth + 1 /\ d > 1 /\ LineWidth = d - 1
  BY LineWidthAssumption
<1>2. m % d \in 0 .. d - 1 /\ m \div d \in Nat
  BY <1>1
<1>3. ASSUME m % d = d - 1
      PROVE  (m + 1) % d = 0 /\ (m + 1) \div d = m \div d + 1
  BY <1>1, <1>3, DivNext
<1>4. m % d # d - 1 => (m + 1) % d = (m % d) + 1 /\ (m + 1) \div d = m \div d
  BY <1>1, <1>2
<1>5. 0 % d = 0 /\ 0 \div d = 0
  BY <1>1
<1> QED
  BY <1>1, <1>2, <1>3, <1>4, <1>5

\* A line from its character m + 1 on.
LEMMA Suffix ==
  ASSUME NEW X, NEW line \in Seq(X), NEW e \in Seq(X), NEW m \in 0 .. Len(line)
  PROVE  /\ SubSeq(line, m + 1, Len(line)) \o e \in Seq(X)
         /\ m < Len(line) => SubSeq(line, m + 1, Len(line)) \o e = <<line[m + 1]>> \o (SubSeq(line, m + 2, Len(line)) \o e)
         /\ m = Len(line) => SubSeq(line, m + 1, Len(line)) \o e = e
<1>1. Len(line) \in Nat /\ m \in Nat
  BY LenProperties
<1>2. SubSeq(line, m + 1, Len(line)) \in Seq(X)
  <2>1. \A i \in m + 1 .. Len(line) : line[i] \in X
    BY <1>1, ElementOfSeq
  <2> QED
    BY <1>1, <2>1, SubSeqProperties
<1>3. SubSeq(line, m + 1, Len(line)) \o e \in Seq(X)
  BY <1>2, ConcatProperties
<1>4. ASSUME m < Len(line)
      PROVE  SubSeq(line, m + 1, Len(line)) \o e = <<line[m + 1]>> \o (SubSeq(line, m + 2, Len(line)) \o e)
  <2>1. PICK r \in Seq(X) : r = SubSeq(line, m + 2, Len(line))
    BY <1>1, <1>4, SubSeqFirst
  <2>2. line[m + 1] \in X
    <3>1. m + 1 \in 1 .. Len(line)
      BY <1>1, <1>4
    <3> QED
      BY <3>1, ElementOfSeq
  <2>3. PICK c \in Seq(X) : c = <<line[m + 1]>>
    <3>1. PICK x \in X : x = line[m + 1]
      BY <2>2
    <3>2. <<x>> \in Seq(X)
      OBVIOUS
    <3> QED
      BY <3>1, <3>2
  <2>4. SubSeq(line, m + 1, Len(line)) = c \o r
    BY <1>1, <1>4, <2>1, <2>3, SubSeqFirst
  <2>5. Associates(X, c, r, e)
    BY Associate
  <2> QED
    BY <2>1, <2>3, <2>4, <2>5 DEF Associates
<1>5. m = Len(line) => SubSeq(line, m + 1, Len(line)) \o e = e
  <2>1. m = Len(line) => SubSeq(line, m + 1, Len(line)) = << >>
    BY <1>1, SubSeqEmpty
  <2>2. << >> \o e = e
    BY ConcatEmptySeq
  <2> QED
    BY <2>1, <2>2
<1> QED
  BY <1>3, <1>4, <1>5

\* In a line comes the next character, or its CR LF.
LEMMA RestSteps ==
  ASSUME NEW lines \in Seq(Seq(Char)), NEW k \in Nat, k < Len(lines), NEW m \in 0 .. Len(lines[k + 1])
  PROVE  /\ Rest(lines, k, m) \in Seq(Char)
         /\ m < Len(lines[k + 1]) => /\ Rest(lines, k, m) = <<lines[k + 1][m + 1]>> \o Rest(lines, k, m + 1)
                                     /\ Rest(lines, k, m + 1) \in Seq(Char)
         /\ m = Len(lines[k + 1]) => Rest(lines, k, m) = <<"r">> \o (<<"n">> \o After(lines, k + 1))
<1>1. Len(lines) \in Nat /\ k + 1 \in 1 .. Len(lines) /\ k + 1 \in 0 .. Len(lines)
  BY LenProperties
<1>2. PICK line \in Seq(Char) : line = lines[k + 1]
  BY <1>1, ElementOfSeq
<1>3. PICK e \in Seq(Char) : e = <<"r">> \o (<<"n">> \o After(lines, k + 1))
  BY <1>1, AfterSteps, CRLFConcat
<1>4. \A j : Rest(lines, k, j) = SubSeq(line, j + 1, Len(line)) \o e
  BY <1>2, <1>3 DEF Rest
<1>5. m \in 0 .. Len(line) /\ Len(line) \in Nat /\ m \in Nat
  BY <1>2, LenProperties
<1>6. m < Len(line) => m + 1 \in 0 .. Len(line) /\ m + 1 + 1 = m + 2
  BY <1>5
<1>7. /\ SubSeq(line, m + 1, Len(line)) \o e \in Seq(Char)
      /\ m < Len(line) => SubSeq(line, m + 1, Len(line)) \o e = <<line[m + 1]>> \o (SubSeq(line, m + 2, Len(line)) \o e)
      /\ m = Len(line) => SubSeq(line, m + 1, Len(line)) \o e = e
  BY <1>5, Suffix
<1>8. m < Len(line) => SubSeq(line, m + 1 + 1, Len(line)) \o e \in Seq(Char)
  BY <1>6, Suffix
<1> QED
  BY <1>2, <1>3, <1>4, <1>6, <1>7, <1>8

\* Behind line k of a mail comes line k + 1, or nothing.
LEMMA AfterMailSteps ==
  ASSUME NEW lines \in Seq(Seq(Char)), NEW k \in 0 .. Len(lines)
  PROVE  /\ AfterMail(lines, k) \in Seq(Char)
         /\ k = Len(lines) => AfterMail(lines, k) = << >>
         /\ k < Len(lines) => AfterMail(lines, k) = RestMail(lines, k, 0)
<1> DEFINE ss == [i \in DOMAIN lines |-> Append(lines[i], "n")]
<1>1. ss \in Seq(Seq(Char)) /\ Len(ss) = Len(lines) /\ Len(lines) \in Nat /\ DOMAIN lines = 1 .. Len(lines)
  BY StuffedLines
<1>2. \A i \in 1 .. Len(lines) : ss[i] = Append(lines[i], "n")
  BY <1>1
<1>3. AfterMail(lines, k) = FlattenSeq(SubSeq(ss, k + 1, Len(ss)))
  BY <1>1 DEF AfterMail
<1>4. k < Len(lines) => AfterMail(lines, k + 1) = FlattenSeq(SubSeq(ss, k + 2, Len(ss)))
  BY <1>1 DEF AfterMail
<1> HIDE DEF ss
<1>5. /\ SubSeq(ss, k + 1, Len(ss)) \in Seq(Seq(Char)) /\ SubSeq(ss, k + 2, Len(ss)) \in Seq(Seq(Char))
      /\ k = Len(lines) => SubSeq(ss, k + 1, Len(ss)) = << >>
  <2> DEFINE X == Seq(Char)
  <2>1. ss \in Seq(X) /\ k \in Nat
    BY <1>1
  <2>2. k = Len(lines) => SubSeq(ss, k + 1, Len(ss)) = << >> /\ SubSeq(ss, k + 2, Len(ss)) = << >>
    BY <1>1, SubSeqEmpty
  <2>3. << >> \in Seq(X)
    BY EmptySeq
  <2>4. k < Len(ss) \/ k = Len(lines)
    BY <1>1
  <2> HIDE DEF X
  <2>5. k < Len(ss) => SubSeq(ss, k + 1, Len(ss)) \in Seq(X) /\ SubSeq(ss, k + 2, Len(ss)) \in Seq(X)
    BY <2>1, SubSeqFirst
  <2>6. SubSeq(ss, k + 1, Len(ss)) \in Seq(X) /\ SubSeq(ss, k + 2, Len(ss)) \in Seq(X)
    BY <2>2, <2>3, <2>4, <2>5
  <2> QED
    BY <2>2, <2>6 DEF X
<1>6. /\ FlattenSeq(SubSeq(ss, k + 1, Len(ss))) \in Seq(Char) /\ FlattenSeq(SubSeq(ss, k + 2, Len(ss))) \in Seq(Char)
      /\ FlattenSeq(<< >>) = << >>
  BY <1>5, FlattenedAppend
<1>7. ASSUME k < Len(lines)
      PROVE  AfterMail(lines, k) = RestMail(lines, k, 0)
  <2>1. k + 1 \in 1 .. Len(lines) /\ k \in Nat
    BY <1>1, <1>7
  <2>2. PICK l \in Seq(Char) : l = lines[k + 1]
    BY <2>1, ElementOfSeq
  <2>3. PICK f \in Seq(Char) : f = AfterMail(lines, k + 1)
    BY <1>4, <1>6, <1>7
  <2>4. AfterMail(lines, k) = Append(l, "n") \o f
    <3>1. FlattenSeq(SubSeq(ss, k + 1, Len(ss))) = ss[k + 1] \o FlattenSeq(SubSeq(ss, k + 2, Len(ss)))
      BY <1>1, <1>7, <2>1, FlattenedNext
    <3> QED
      BY <1>2, <1>3, <1>4, <1>7, <2>1, <2>2, <2>3, <3>1
  <2>5. PICK e \in Seq(Char) : e = <<"n">>
    <3>1. PICK x \in Char : x = "n"
      BY LineEnds
    <3>2. <<x>> \in Seq(Char)
      OBVIOUS
    <3> QED
      BY <3>1, <3>2
  <2>6. Append(l, "n") = l \o e
    BY <2>5, LineEnds, AppendIsConcat
  <2>7. Associates(Char, l, e, f)
    BY Associate
  <2>8. l = SubSeq(lines[k + 1], 0 + 1, Len(lines[k + 1]))
    BY <2>2, SubSeqFull
  <2> QED
    BY <2>3, <2>4, <2>5, <2>6, <2>7, <2>8 DEF Associates, RestMail
<1> QED
  BY <1>3, <1>5, <1>6, <1>7

\* In a line of a mail comes the next character, or its LF.
LEMMA RestMailSteps ==
  ASSUME NEW lines \in Seq(Seq(Char)), NEW k \in Nat, k < Len(lines), NEW m \in 0 .. Len(lines[k + 1])
  PROVE  /\ RestMail(lines, k, m) \in Seq(Char)
         /\ m < Len(lines[k + 1]) => /\ RestMail(lines, k, m) = <<lines[k + 1][m + 1]>> \o RestMail(lines, k, m + 1)
                                     /\ RestMail(lines, k, m + 1) \in Seq(Char)
         /\ m = Len(lines[k + 1]) => RestMail(lines, k, m) = <<"n">> \o AfterMail(lines, k + 1)
<1>1. Len(lines) \in Nat /\ k + 1 \in 1 .. Len(lines) /\ k + 1 \in 0 .. Len(lines)
  BY LenProperties
<1>2. PICK line \in Seq(Char) : line = lines[k + 1]
  BY <1>1, ElementOfSeq
<1>3. PICK e \in Seq(Char) : e = <<"n">> \o AfterMail(lines, k + 1)
  BY <1>1, AfterMailSteps, CRLFConcat
<1>4. \A j : RestMail(lines, k, j) = SubSeq(line, j + 1, Len(line)) \o e
  BY <1>2, <1>3 DEF RestMail
<1>5. m \in 0 .. Len(line) /\ Len(line) \in Nat /\ m \in Nat
  BY <1>2, LenProperties
<1>6. m < Len(line) => m + 1 \in 0 .. Len(line) /\ m + 1 + 1 = m + 2
  BY <1>5
<1>7. /\ SubSeq(line, m + 1, Len(line)) \o e \in Seq(Char)
      /\ m < Len(line) => SubSeq(line, m + 1, Len(line)) \o e = <<line[m + 1]>> \o (SubSeq(line, m + 2, Len(line)) \o e)
      /\ m = Len(line) => SubSeq(line, m + 1, Len(line)) \o e = e
  BY <1>5, Suffix
<1>8. m < Len(line) => SubSeq(line, m + 1 + 1, Len(line)) \o e \in Seq(Char)
  BY <1>6, Suffix
<1> QED
  BY <1>2, <1>3, <1>4, <1>6, <1>7, <1>8

\* At first the whole input is to be read.
LEMMA WholeInput ==
  ASSUME NEW lines \in Seq(Seq(Char))
  PROVE  /\ WireOf(lines) \o NextCommand = After(lines, 0)
         /\ MailOf(lines) = AfterMail(lines, 0)
<1> DEFINE ss == [i \in DOMAIN lines |-> Stuffed(lines[i])]
           mm == [i \in DOMAIN lines |-> Append(lines[i], "n")]
<1>1. ss \in Seq(Seq(Char)) /\ mm \in Seq(Seq(Char)) /\ Len(ss) = Len(lines) /\ Len(mm) = Len(lines)
  BY StuffedLines
<1>2. SubSeq(ss, 0 + 1, Len(lines)) = ss /\ SubSeq(mm, 0 + 1, Len(lines)) = mm
  <2> HIDE DEF ss, mm
  <2> QED
    BY <1>1, SubSeqFull
<1>3. MailOf(lines) = AfterMail(lines, 0)
  BY <1>2 DEF MailOf, AfterMail
<1>4. PICK f \in Seq(Char) : f = FlattenSeq(ss)
  <2> HIDE DEF ss
  <2> QED
    BY <1>1, FlattenedAppend
<1>5. PICK d \in Seq(Char) : d = <<".">>
  BY CRLFConcat, EmptySeq
<1>6. PICK c \in Seq(Char) : c = CRLF
  BY CRLFConcat, EmptySeq
<1>7. PICK x \in Seq(Char) : x = NextCommand
  BY EndsType
<1>8. WireOf(lines) \o NextCommand = ((f \o d) \o c) \o x
  BY <1>4, <1>5, <1>6, <1>7 DEF WireOf
<1>9. After(lines, 0) = f \o Ends
  BY <1>2, <1>4 DEF After
<1>10. Ends = (d \o c) \o x
  BY <1>5, <1>6, <1>7, EndsType
<1>11. ((f \o d) \o c) \o x = f \o ((d \o c) \o x)
  <2>1. PICK fd \in Seq(Char) : fd = f \o d
    BY ConcatProperties
  <2>2. PICK dc \in Seq(Char) : dc = d \o c
    BY ConcatProperties
  <2>3. Associates(Char, f, d, c) /\ Associates(Char, f, dc, x)
    BY Associate
  <2> QED
    BY <2>1, <2>2, <2>3 DEF Associates
<1> QED
  BY <1>3, <1>8, <1>9, <1>10, <1>11

\* Said as Associates is.
AppendsBehind(X, s, t, x) == s \o Append(t, x) = Append(s \o t, x)

\* An element appended to the second part is appended to the whole.
LEMMA AppendBehind == \A X : \A s, t \in Seq(X), x \in X : AppendsBehind(X, s, t, x)
BY ConcatAppend DEF AppendsBehind

\* The first k + 1 elements are the first k and the next one.
LEMMA SubSeqLast ==
  ASSUME NEW X, NEW s \in Seq(X), NEW k \in Nat, k < Len(s)
  PROVE  /\ SubSeq(s, 1, k + 1) = Append(SubSeq(s, 1, k), s[k + 1])
         /\ SubSeq(s, 1, k) \in Seq(X) /\ s[k + 1] \in X
         /\ SubSeq(s, 1, 0) = << >>
<1>1. Len(s) \in Nat /\ k + 1 \in 1 .. Len(s)
  BY LenProperties
<1>2. s[k + 1] \in X /\ \A i \in 1 .. k : s[i] \in X
  BY <1>1, ElementOfSeq
<1>3. SubSeq(s, 1, k) \in Seq(X)
  BY <1>2, SubSeqProperties
<1>4. SubSeq(s, 1, k + 1) = SubSeq(s, 1, k + 1 - 1) \o <<s[k + 1]>>
  BY <1>1, SubSeqRecursiveSecond
<1>5. Append(SubSeq(s, 1, k), s[k + 1]) = SubSeq(s, 1, k) \o <<s[k + 1]>>
  BY <1>2, <1>3, AppendIsConcat
<1>6. SubSeq(s, 1, 0) = << >>
  BY SubSeqEmpty
<1> QED
  BY <1>2, <1>3, <1>4, <1>5, <1>6

\* A line costs a number of lines.
LEMMA CostType ==
  ASSUME NEW line \in Seq(Char)
  PROVE  Cost(line) \in Nat
<1>1. Len(line) \in Nat
  BY LenProperties
<1>2. Len(line) \div (LineWidth + 1) \in Nat
  BY <1>1, DivMod
<1> QED
  BY <1>2 DEF Cost

\* A line more costs what it costs.
LEMMA LineCountAppend ==
  ASSUME NEW lines \in Seq(Seq(Char))
  PROVE  /\ LineCount(<< >>) = 0 /\ LineCount(lines) \in Nat
         /\ \A line \in Seq(Char) : LineCount(Append(lines, line)) = LineCount(lines) + Cost(line)
<1> DEFINE p == 0
           V == Nat
           X == Seq(Char)
           base == 0
<1>0. \A ls : LineCount(ls) = Counted!Fold(p, base, ls)
  BY DEF LineCount, FoldLeft, MapThenFoldSet, Max, Count,
         Counted!Fold, Counted!MapThenFoldSet, Counted!Max
<1>1. Counted!Keeps(p, V, X) /\ base \in V /\ lines \in Seq(X)
  BY CostType DEF Counted!Keeps, Count, AddCost
<1>2. /\ Counted!Fold(p, base, << >>) = base
      /\ Counted!Fold(p, base, lines) \in V
      /\ \A x \in X : Counted!Fold(p, base, Append(lines, x)) = Count(p, Counted!Fold(p, base, lines), x)
  <2> HIDE DEF V, X, base, p
  <2> QED
    BY <1>1, Numbers, Counted!FoldAppend
<1> QED
  BY <1>0, <1>2 DEF Count, AddCost

\* The count of the first k + 1 lines.
LEMMA LineCountNext ==
  ASSUME NEW lines \in Seq(Seq(Char)), NEW k \in Nat, k < Len(lines)
  PROVE  /\ LineCount(SubSeq(lines, 1, k)) \in Nat
         /\ LineCount(SubSeq(lines, 1, k + 1)) = LineCount(SubSeq(lines, 1, k)) + Cost(lines[k + 1])
<1> DEFINE X == Seq(Char)
           s == SubSeq(lines, 1, k)
           x == lines[k + 1]
<1>1. lines \in Seq(X)
  OBVIOUS
<1>2. SubSeq(lines, 1, k + 1) = Append(s, x) /\ s \in Seq(X) /\ x \in X
  <2> HIDE DEF X
  <2> QED
    BY <1>1, SubSeqLast
<1> HIDE DEF s, x
<1>3. LineCount(s) \in Nat /\ LineCount(Append(s, x)) = LineCount(s) + Cost(x)
  BY <1>2, LineCountAppend
<1> QED
  BY <1>2, <1>3 DEF s, x

-----------------------------------------------------------------------------
(* What has been read.                                                     *)

Before == IF how.via = "POST" THEN << >> ELSE Gateway
LineAt(lines, k) == IF k < Len(lines) THEN lines[k + 1] ELSE << >>

\* k lines and m characters.
Read(k, m) ==
  /\ linecount = LineCount(SubSeq(sent, 1, k)) + m \div (LineWidth + 1)
  /\ linechars = m % (LineWidth + 1)
  /\ toolong <=> how.postlimit > 0 /\ linecount > how.postlimit
  /\ msg \in Seq(Char)
  /\ ~toolong => Parsed(msg) = [lines |-> Before \o SubSeq(sent, 1, k), line |-> SubSeq(LineAt(sent, k), 1, m)]

\* The gateway's fields are lines.
LEMMA GatewayType == Gateway \in Seq(Seq(Char)) /\ Before \in Seq(Seq(Char))
<1>1. \A c \in {"Newsgroups:", "X-Mail-To-News-Gateway:", " ", "group", "newsd"} : c \in Char
  BY DEF Char, Names
<1>2. \A a, b, c \in Char : <<a, b, c>> \in Seq(Char)
  OBVIOUS
<1>3. \A a, b \in Seq(Char) : <<a, b>> \in Seq(Seq(Char))
  OBVIOUS
<1>4. Gateway \in Seq(Seq(Char))
  BY <1>1, <1>2, <1>3 DEF Gateway
<1> QED
  BY <1>4, EmptySeq DEF Before

\* ... and have no line ends within.
LEMMA GatewayLines ==
  /\ DOMAIN Gateway = 1 .. 2
  /\ \A i \in 1 .. 2 : Gateway[i] \in Seq(Char) /\ Plain(Gateway[i])
<1>1. Gateway \in Seq(Seq(Char))
  BY GatewayType
<1>2. Len(Gateway) = 2
  BY DEF Gateway
<1>3. DOMAIN Gateway = 1 .. 2
  BY <1>1, <1>2, LenProperties
<1>4. \A i \in 1 .. 2 : Gateway[i] \in Seq(Char)
  BY <1>1, <1>2, ElementOfSeq
<1>5. Gateway[1] = <<"Newsgroups:", " ", "group">> /\ Gateway[2] = <<"X-Mail-To-News-Gateway:", " ", "newsd">>
  BY DEF Gateway
<1>6. ASSUME NEW a, NEW b, NEW c, a \notin {"r", "n"}, b \notin {"r", "n"}, c \notin {"r", "n"}
      PROVE  Plain(<<a, b, c>>)
  BY <1>6 DEF Plain
<1>7. Plain(Gateway[1]) /\ Plain(Gateway[2])
  BY <1>5, <1>6
<1>8. \A i \in 1 .. 2 : i = 1 \/ i = 2
  OBVIOUS
<1> QED
  BY <1>3, <1>4, <1>7, <1>8

\* The line that is parsed, replaced.
LEMMA LineReplaced ==
  ASSUME NEW b, NEW l, NEW e
  PROVE  [[lines |-> b, line |-> l] EXCEPT !.line = e] = [lines |-> b, line |-> e]
OBVIOUS

\* Collecting a character of a line.
LEMMA CollectLine ==
  ASSUME sent \in Seq(Seq(Char)), how.postlimit \in Nat, toolong \in BOOLEAN,
         NEW k \in Nat, k < Len(sent), NEW m \in Nat, m < Len(sent[k + 1]),
         sent[k + 1][m + 1] \notin {"r", "n"},
         Read(k, m), UNCHANGED <<sent, how>>,
         Collect(sent[k + 1][m + 1], <<sent[k + 1][m + 1]>>)
  PROVE  Read(k, m + 1)'
<1>0. PICK line \in Seq(Char) : line = sent[k + 1]
  <2>1. k + 1 \in 1 .. Len(sent)
    BY LenProperties
  <2> QED
    BY <2>1, ElementOfSeq
<1>1. PICK c \in Char : c = line[m + 1]
  <2>1. m + 1 \in 1 .. Len(line)
    BY <1>0, LenProperties
  <2> QED
    BY <2>1, ElementOfSeq
<1>2. SubSeq(line, 1, m + 1) = Append(SubSeq(line, 1, m), c) /\ SubSeq(line, 1, m) \in Seq(Char)
  BY <1>0, <1>1, SubSeqLast
<1>3. LineCount(SubSeq(sent, 1, k)) \in Nat
  BY LineCountNext
<1>a. /\ linecount = LineCount(SubSeq(sent, 1, k)) + m \div (LineWidth + 1)
      /\ linechars = m % (LineWidth + 1)
      /\ toolong <=> how.postlimit > 0 /\ linecount > how.postlimit
      /\ msg \in Seq(Char)
  BY DEF Read
<1>b. PICK lc \in Nat : lc = LineCount(SubSeq(sent, 1, k))
  BY <1>3
<1>4. linechars \in 0 .. LineWidth /\ linecount \in Nat /\ LineWidth \in Nat \ {0}
  <2>1. PICK r \in 0 .. LineWidth : r = m % (LineWidth + 1)
    BY DivMod
  <2>2. PICK q \in Nat : q = m \div (LineWidth + 1)
    BY DivMod
  <2>3. linechars = r /\ linecount = lc + q
    BY <1>a, <1>b, <2>1, <2>2
  <2>4. lc + q \in Nat
    BY SMTT(30)
  <2> QED
    BY <2>3, <2>4, LineWidthAssumption
<1>5. /\ linechars' = IF linechars = LineWidth THEN 0 ELSE linechars + 1
      /\ linecount' = linecount + (IF linechars = LineWidth THEN 1 ELSE 0)
  BY <1>0, <1>1, <1>4 DEF Collect
<1>6. linechars' = (m + 1) % (LineWidth + 1)
  BY <1>a, <1>5, DivMod
<1>7. linecount' = LineCount(SubSeq(sent, 1, k)) + (m + 1) \div (LineWidth + 1)
  <2>1. m \div (LineWidth + 1) \in Nat
    BY DivMod
  <2>2. (m + 1) \div (LineWidth + 1) = m \div (LineWidth + 1) + (IF linechars = LineWidth THEN 1 ELSE 0)
    <3>1. CASE linechars = LineWidth
      BY <1>a, <3>1, DivMod
    <3>2. CASE linechars # LineWidth
      <4>1. (m + 1) \div (LineWidth + 1) = m \div (LineWidth + 1)
        BY <1>a, <3>2, DivMod
      <4>2. PICK q \in Nat : q = m \div (LineWidth + 1)
        BY <2>1
      <4> QED
        BY <3>2, <4>1, <4>2
    <3> QED
      BY <3>1, <3>2
  <2> QED
    BY <1>a, <1>b, <1>5, <2>1, <2>2, SMTT(30)
<1>8. /\ toolong' = (toolong \/ (how.postlimit > 0 /\ linecount' > how.postlimit))
      /\ msg' = IF how.postlimit > 0 /\ linecount' > how.postlimit THEN msg ELSE msg \o <<c>>
  BY <1>0, <1>1 DEF Collect
<1>9. toolong' <=> how.postlimit > 0 /\ linecount' > how.postlimit
  <2> DEFINE P == how.postlimit > 0 /\ linecount > how.postlimit
             Q == how.postlimit > 0 /\ linecount' > how.postlimit
  <2>1. P => Q
    BY <1>4, <1>5
  <2>2. toolong <=> P
    BY <1>a
  <2>3. toolong' <=> toolong \/ Q
    BY <1>8
  <2> HIDE DEF P, Q
  <2>4. toolong' <=> Q
    BY <2>1, <2>2, <2>3, Zenon
  <2> QED
    BY <2>4 DEF Q
<1>10. msg \in Seq(Char) /\ msg \o <<c>> = Append(msg, c) /\ Append(msg, c) \in Seq(Char)
  BY AppendIsConcat, AppendProperties DEF Read
<1>11. ASSUME ~toolong'
       PROVE  Parsed(msg') = [lines |-> Before \o SubSeq(sent, 1, k), line |-> SubSeq(line, 1, m + 1)]
  <2>1. ~toolong /\ msg' = Append(msg, c)
    BY <1>8, <1>10, <1>11
  <2>2. Parsed(msg) = [lines |-> Before \o SubSeq(sent, 1, k), line |-> SubSeq(line, 1, m)]
    BY <1>0, <2>1 DEF Read, LineAt
  <2>3. Parsed(Append(msg, c)) = AddCharacter(Parsed(msg), c)
    BY <1>10, ParsedAppend
  <2>4. c # "r" /\ c # "n"
    BY <1>0, <1>1
  <2>5. AddCharacter(Parsed(msg), c) = [Parsed(msg) EXCEPT !.line = Append(@, c)]
    BY <2>4 DEF AddCharacter
  <2> DEFINE b == Before \o SubSeq(sent, 1, k)
             l == SubSeq(line, 1, m)
  <2>6. Parsed(msg) = [lines |-> b, line |-> l]
    BY <2>2
  <2> HIDE DEF b, l
  <2>7. [Parsed(msg) EXCEPT !.line = Append(@, c)] = [lines |-> b, line |-> Append(l, c)]
    <3>1. [Parsed(msg) EXCEPT !.line = Append(@, c)] = [[lines |-> b, line |-> l] EXCEPT !.line = Append(l, c)]
      BY <2>6
    <3> QED
      BY <3>1, LineReplaced
  <2> QED
    BY <1>2, <2>1, <2>3, <2>5, <2>7 DEF b, l
<1>12. LineAt(sent', k) = line /\ Before' = Before
  BY <1>0 DEF LineAt, Before
<1> QED
  BY <1>6, <1>7, <1>8, <1>9, <1>10, <1>11, <1>12 DEF Read

\* Collecting the end of a line.
LEMMA CollectEnd ==
  ASSUME sent \in Seq(Seq(Char)), how.postlimit \in Nat, toolong \in BOOLEAN,
         NEW k \in Nat, k < Len(sent), NEW text \in {CRLF, <<"n">>},
         Read(k, Len(sent[k + 1])), UNCHANGED <<sent, how>>, Collect("n", text)
  PROVE  Read(k + 1, 0)'
<1>0. PICK line \in Seq(Char) : line = sent[k + 1]
  <2>1. k + 1 \in 1 .. Len(sent)
    BY LenProperties
  <2> QED
    BY <2>1, ElementOfSeq
<1>1. PICK m \in Nat : m = Len(line)
  BY LenProperties
<1>2. Read(k, m)
  BY <1>0, <1>1
<1>3. LineCount(SubSeq(sent, 1, k)) \in Nat /\ LineCount(SubSeq(sent, 1, k + 1)) = LineCount(SubSeq(sent, 1, k)) + Cost(line)
  BY <1>0, LineCountNext
<1>4. m \div (LineWidth + 1) \in Nat /\ Cost(line) = 1 + m \div (LineWidth + 1)
  BY <1>1, DivMod DEF Cost
<1>5. linecount \in Nat
  BY <1>2, <1>3, <1>4, SMTT(30) DEF Read
<1>6. linechars' = 0 /\ linecount' = linecount + 1
  BY DEF Collect
<1>7. linecount' = LineCount(SubSeq(sent, 1, k + 1))
  BY <1>2, <1>3, <1>4, <1>6 DEF Read
<1>8. /\ toolong' = (toolong \/ (how.postlimit > 0 /\ linecount' > how.postlimit))
      /\ msg' = IF how.postlimit > 0 /\ linecount' > how.postlimit THEN msg ELSE msg \o text
  BY DEF Collect
<1>9. toolong' <=> how.postlimit > 0 /\ linecount' > how.postlimit
  <2> DEFINE P == how.postlimit > 0 /\ linecount > how.postlimit
             Q == how.postlimit > 0 /\ linecount' > how.postlimit
  <2>1. P => Q
    BY <1>5, <1>6
  <2>2. toolong <=> P
    BY <1>2 DEF Read
  <2>3. toolong' <=> toolong \/ Q
    BY <1>8
  <2> HIDE DEF P, Q
  <2>4. toolong' <=> Q
    BY <2>1, <2>2, <2>3, Zenon
  <2> QED
    BY <2>4 DEF Q
<1>10. msg \in Seq(Char) /\ msg \o text \in Seq(Char)
  BY <1>2, ParsedEnd DEF Read
<1>11. ASSUME ~toolong'
       PROVE  Parsed(msg') = [lines |-> Before \o SubSeq(sent, 1, k + 1), line |-> << >>]
  <2>1. ~toolong /\ msg' = msg \o text
    BY <1>8, <1>11
  <2>2. Parsed(msg) = [lines |-> Before \o SubSeq(sent, 1, k), line |-> SubSeq(line, 1, m)]
    BY <1>0, <1>2, <2>1 DEF Read, LineAt
  <2>3. SubSeq(line, 1, m) = line
    BY <1>1, SubSeqFull
  <2>4. Parsed(msg \o text) = [lines |-> Append(Before \o SubSeq(sent, 1, k), line), line |-> << >>]
    <3>1. Parsed(msg \o text) = [lines |-> Append(Parsed(msg).lines, Parsed(msg).line), line |-> << >>]
      BY <1>10, ParsedEnd
    <3>2. Parsed(msg).lines = Before \o SubSeq(sent, 1, k) /\ Parsed(msg).line = line
      BY <2>2, <2>3, SMTT(30)
    <3> QED
      BY <3>1, <3>2
  <2>5. Before \o SubSeq(sent, 1, k + 1) = Append(Before \o SubSeq(sent, 1, k), line)
    <3> DEFINE X == Seq(Char)
               s == SubSeq(sent, 1, k)
               b == Before
    <3>1. sent \in Seq(X) /\ b \in Seq(X) /\ line \in X
      BY GatewayType
    <3>2. SubSeq(sent, 1, k + 1) = Append(s, line) /\ s \in Seq(X)
      <4> HIDE DEF X
      <4> QED
        BY <1>0, <3>1, SubSeqLast
    <3>3. b \o Append(s, line) = Append(b \o s, line)
      <4> HIDE DEF X, s, b
      <4>1. AppendsBehind(X, b, s, line)
        BY <3>1, <3>2, AppendBehind
      <4> QED
        BY <4>1 DEF AppendsBehind
    <3> QED
      BY <3>2, <3>3
  <2> QED
    BY <2>1, <2>4, <2>5
<1>12. Before' = Before /\ SubSeq(LineAt(sent', k + 1), 1, 0) = << >>
  BY SubSeqEmpty DEF Before
<1>13. 0 % (LineWidth + 1) = 0 /\ 0 \div (LineWidth + 1) = 0
  BY DivMod
<1>14. LineCount(SubSeq(sent, 1, k + 1)) + 0 = LineCount(SubSeq(sent, 1, k + 1))
  BY <1>3, <1>4
<1> QED
  BY <1>6, <1>7, <1>8, <1>9, <1>10, <1>11, <1>12, <1>13, <1>14 DEF Read

-----------------------------------------------------------------------------
(* Types.                                                                  *)

\* The types of what is sent and of the way it is sent.
LEMMA SentType ==
  ASSUME TypeOK
  PROVE  /\ sent \in Seq(Seq(Char)) /\ Len(sent) \in Nat \ {0} /\ sent # << >>
         /\ how.postlimit \in Nat /\ how.via \in {"POST", "mail"}
         /\ how.postok \in BOOLEAN /\ how.ccpost \in BOOLEAN /\ how.preservedate \in BOOLEAN
         /\ \A k \in 1 .. Len(sent) : Plain(sent[k])
         /\ how.via = "POST" => ~Dotted(sent[1])
<1>1. /\ sent \in Seq(Seq(STRING)) /\ sent # << >>
      /\ \A i \in DOMAIN sent : \A j \in DOMAIN sent[i] : sent[i][j] \notin {"r", "n"}
      /\ how.via = "POST" => sent[1] = << >> \/ sent[1][1] # "."
      /\ how.postlimit \in Nat /\ how.via \in {"POST", "mail"}
      /\ how.postok \in BOOLEAN /\ how.ccpost \in BOOLEAN /\ how.preservedate \in BOOLEAN
  BY ArticlesAssumption DEF TypeOK
<1>2. DOMAIN sent = 1 .. Len(sent) /\ Len(sent) \in Nat
  BY <1>1, LenProperties
<1>3. Len(sent) # 0
  BY <1>1, EmptySeq
<1>4. \A s \in Seq(STRING) : s \in Seq(Char)
  <2> DEFINE S == STRING
  <2>1. S \subseteq Char
    BY LineEnds
  <2> HIDE DEF S
  <2>2. \A s \in Seq(S) : s \in Seq(Char)
    BY <2>1, SeqMonotonic
  <2> QED
    BY <2>2 DEF S
<1>5. Seq(STRING) \subseteq Seq(Char)
  BY <1>4
<1>6. sent \in Seq(Seq(Char))
  <2> DEFINE S == Seq(STRING)
             T == Seq(Char)
  <2>1. sent \in Seq(S) /\ S \subseteq T
    BY <1>1, <1>5
  <2> HIDE DEF S, T
  <2>2. sent \in Seq(T)
    BY <2>1, SeqMonotonic
  <2> QED
    BY <2>2 DEF T
<1> QED
  BY <1>1, <1>2, <1>3, <1>6 DEF Plain, Dotted

\* The types are right at first.
LEMMA TypeInit == Init => TypeOK
<1>1. 0 \in 0 .. LineWidth /\ 0 \in Nat
  BY LineWidthAssumption
<1> QED
  BY <1>1 DEF Init, TypeOK

\* The end leads to one of two replies.
LEMMA FinishType ==
  ASSUME Finish
  PROVE  pc' \in {"posted", "rejected"}
BY DEF Finish, FinishPost, FinishMail, Rejected, Post

\* Collecting keeps the counters' types.
LEMMA CollectType ==
  ASSUME TypeOK, NEW c, NEW text, Collect(c, text)
  PROVE  linechars' \in 0 .. LineWidth /\ linecount' \in Nat /\ toolong' \in BOOLEAN
BY LineWidthAssumption DEF TypeOK, Collect

\* No step breaks a type.
LEMMA TypeNext == TypeOK /\ [Next]_vars => TypeOK'
<1> SUFFICES ASSUME TypeOK, [Next]_vars
             PROVE  TypeOK'
  OBVIOUS
<1>1. CASE SkipCR
  BY <1>1 DEF TypeOK, SkipCR, Reading, results
<1>2. CASE SkipDot
  BY <1>2 DEF TypeOK, SkipDot, Reading, results
<1>3. CASE EndOfText
  BY <1>3, FinishType DEF TypeOK, EndOfText, Reading
<1>4. CASE Character
  BY <1>4, CollectType DEF TypeOK, Character, Reading, results
<1>5. CASE MailCharacter
  BY <1>5, CollectType DEF TypeOK, MailCharacter, Reading, results
<1>6. CASE EndOfMail
  BY <1>6, FinishType DEF TypeOK, EndOfMail
<1>7. CASE HangUp
  BY <1>7, FinishType DEF TypeOK, HangUp
<1>8. CASE UNCHANGED vars
  BY <1>8 DEF TypeOK, vars
<1> QED
  BY <1>1, <1>2, <1>3, <1>4, <1>5, <1>6, <1>7, <1>8 DEF Next

\* Every variable keeps its type, and linechars never exceeds the width.
THEOREM ReaderTypeCorrect == Spec => []TypeOK
BY TypeInit, TypeNext, PTL DEF Spec

ModeAt(k, m) ==
  IF m > 0 THEN "NORMAL" ELSE IF Dotted(sent[k + 1]) THEN "CRLF_DOT"
                         ELSE IF k = 0 THEN "NORMAL" ELSE "CRLF"

\* What is left is w: before or behind the dot that stuffs line k + 1, within the
\* line, before its LF; and the same of the dot that ends the text.
InLine(w, md, k, m) ==
  \/ w = Rest(sent, k, m) /\ md = ModeAt(k, m)
  \/ m = Len(sent[k + 1]) /\ w = <<"n">> \o After(sent, k + 1) /\ md = ModeAt(k, m)
  \/ m = 0 /\ Dotted(sent[k + 1]) /\ w = After(sent, k) /\ md = "CRLF"
AtEnd(w, md) ==
  \/ w = Ends /\ md = "CRLF"
  \/ w = <<"r">> \o (<<"n">> \o NextCommand) /\ md = "CRLF_DOT"
  \/ w = <<"n">> \o NextCommand /\ md = "CRLF_DOT"
Place(w, md, k, m) ==
  IF how.via = "POST"
  THEN IF k < Len(sent) THEN InLine(w, md, k, m) ELSE m = 0 /\ AtEnd(w, md)
  ELSE IF k < Len(sent) THEN w = RestMail(sent, k, m) ELSE m = 0 /\ w = << >>

Position(k, m) ==
  /\ k \in 0 .. Len(sent) /\ m \in Nat /\ (k < Len(sent) => m \in 0 .. Len(sent[k + 1]))
  /\ Read(k, m) /\ Place(wire, mode, k, m)

ReadInv ==
  pc = "reading" =>
    /\ ~cut /\ file = << >> /\ mailed = << >> /\ dead = << >>
    /\ \E k, m \in Nat : Position(k, m)

\* The types at a position.
LEMMA PositionType ==
  ASSUME TypeOK, NEW k \in Nat, NEW m \in Nat, Position(k, m), k < Len(sent)
  PROVE  /\ sent[k + 1] \in Seq(Char) /\ Plain(sent[k + 1])
         /\ k + 1 \in 0 .. Len(sent) /\ Len(sent[k + 1]) \in Nat
         /\ m < Len(sent[k + 1]) => sent[k + 1][m + 1] \in Char \ {"r", "n"}
<1>1. k + 1 \in 1 .. Len(sent)
  BY SentType
<1>2. sent[k + 1] \in Seq(Char) /\ Plain(sent[k + 1])
  BY <1>1, SentType, ElementOfSeq
<1>3. Len(sent[k + 1]) \in Nat /\ DOMAIN sent[k + 1] = 1 .. Len(sent[k + 1])
  BY <1>2, LenProperties
<1>4. ASSUME m < Len(sent[k + 1])
      PROVE  sent[k + 1][m + 1] \in Char \ {"r", "n"}
  <2>1. m + 1 \in 1 .. Len(sent[k + 1])
    BY <1>3, <1>4
  <2> QED
    BY <1>2, <1>3, <2>1, ElementOfSeq DEF Plain
<1> QED
  BY <1>1, <1>2, <1>3, <1>4

\* A line begins.
LEMMA LineBegins ==
  ASSUME TypeOK, NEW k \in 0 .. Len(sent), NEW w, NEW md,
         IF how.via = "POST" THEN w = After(sent, k) /\ md = (IF k = 0 THEN "NORMAL" ELSE "CRLF")
                             ELSE w = AfterMail(sent, k)
  PROVE  /\ Place(w, md, k, 0)
         /\ k < Len(sent) => 0 \in 0 .. Len(sent[k + 1])
<1>1. Len(sent) \in Nat \ {0} /\ k \in Nat /\ sent \in Seq(Seq(Char))
  BY SentType
<1>2. k < Len(sent) => 0 \in 0 .. Len(sent[k + 1])
  <2>1. k < Len(sent) => k + 1 \in 1 .. Len(sent)
    BY <1>1
  <2>2. k < Len(sent) => sent[k + 1] \in Seq(Char)
    BY <1>1, <2>1, ElementOfSeq
  <2>3. k < Len(sent) => Len(sent[k + 1]) \in Nat
    BY <2>2, LenProperties
  <2> QED
    BY <2>3
<1>3. ASSUME how.via = "POST"
      PROVE  Place(w, md, k, 0)
  <2>1. w = After(sent, k) /\ md = IF k = 0 THEN "NORMAL" ELSE "CRLF"
    BY <1>3
  <2>2. CASE k < Len(sent) /\ Dotted(sent[k + 1])
    <3>1. k # 0
      BY <1>3, <2>2, SentType
    <3> QED
      BY <1>3, <2>1, <2>2, <3>1 DEF Place, InLine
  <2>3. CASE k < Len(sent) /\ ~Dotted(sent[k + 1])
    <3>1. w = Rest(sent, k, 0)
      BY <1>1, <2>1, <2>3, AfterSteps
    <3> QED
      BY <1>3, <2>1, <2>3, <3>1 DEF Place, InLine, ModeAt
  <2>4. CASE ~(k < Len(sent))
    <3>1. k = Len(sent) /\ k # 0
      BY <1>1, <2>4
    <3>2. w = Ends
      BY <1>1, <2>1, <3>1, AfterSteps
    <3> QED
      BY <1>3, <2>1, <2>4, <3>1, <3>2 DEF Place, AtEnd
  <2> QED
    BY <2>2, <2>3, <2>4
<1>4. ASSUME how.via # "POST"
      PROVE  Place(w, md, k, 0)
  <2>1. CASE k < Len(sent)
    BY <1>1, <1>4, <2>1, AfterMailSteps DEF Place
  <2>2. CASE ~(k < Len(sent))
    <3>1. k = Len(sent)
      BY <1>1, <2>2
    <3> QED
      BY <1>1, <1>4, <2>2, <3>1, AfterMailSteps DEF Place
  <2> QED
    BY <2>1, <2>2
<1> QED
  BY <1>1, <1>2, <1>3, <1>4

\* At first nothing has been read.
LEMMA ReadInit == Init => ReadInv
<1> SUFFICES ASSUME Init
             PROVE  ReadInv
  OBVIOUS
<1>1. TypeOK
  BY TypeInit
<1>2. 0 \in 0 .. Len(sent) /\ how.via \in {"POST", "mail"} /\ how.postlimit \in Nat /\ sent \in Seq(Seq(Char))
  BY <1>1, SentType
<1>3. Read(0, 0)
  <2>1. SubSeq(sent, 1, 0) = << >> /\ SubSeq(LineAt(sent, 0), 1, 0) = << >>
    BY SubSeqEmpty
  <2>2. LineCount(<< >>) = 0
    BY <1>2, LineCountAppend
  <2>3. 0 % (LineWidth + 1) = 0 /\ 0 \div (LineWidth + 1) = 0
    BY DivMod
  <2>4. ~(how.postlimit > 0 /\ 0 > how.postlimit)
    BY <1>2
  <2>5. msg \in Seq(Char) /\ Parsed(msg) = [lines |-> Before, line |-> << >>]
    <3>1. CASE how.via = "POST"
      BY <3>1, ParsedAppend, EmptySeq DEF Init, Before, Start
    <3>2. CASE how.via # "POST"
      <4>1. msg = FlattenSeq([i \in DOMAIN Gateway |-> Append(Gateway[i], "n")])
        BY <3>2 DEF Init, MailOf
      <4>2. DOMAIN Gateway = 1 .. 2 /\ Gateway \in Seq(Seq(Char))
        BY GatewayType, GatewayLines
      <4>3. \A i \in DOMAIN Gateway : Plain(Gateway[i])
        BY GatewayLines
      <4>4. \A i \in DOMAIN Gateway : Append(Gateway[i], "n") = Gateway[i] \o <<"n">>
        BY GatewayLines, LineEnds, AppendIsConcat
      <4>5. [i \in DOMAIN Gateway |-> Append(Gateway[i], "n")] = [i \in DOMAIN Gateway |-> Gateway[i] \o <<"n">>]
        BY <4>4
      <4>6. /\ Parsed(FlattenSeq([i \in DOMAIN Gateway |-> Gateway[i] \o <<"n">>])) = [lines |-> Gateway, line |-> << >>]
            /\ FlattenSeq([i \in DOMAIN Gateway |-> Gateway[i] \o <<"n">>]) \in Seq(Char)
        BY <4>2, <4>3, ParsedText
      <4> QED
        BY <3>2, <4>1, <4>5, <4>6 DEF Before
    <3> QED
      BY <3>1, <3>2
  <2>6. Before \o << >> = Before
    BY GatewayType, ConcatEmptySeq
  <2>7. linecount = 0 /\ linechars = 0 /\ ~toolong
    BY DEF Init
  <2>8. linecount = LineCount(SubSeq(sent, 1, 0)) + 0 \div (LineWidth + 1) /\ linechars = 0 % (LineWidth + 1)
    <3>1. LineCount(SubSeq(sent, 1, 0)) = 0
      BY <2>1, <2>2
    <3>2. PICK q \in Nat : q = 0 \div (LineWidth + 1) /\ q = 0
      BY <2>3
    <3> QED
      BY <2>3, <2>7, <3>1, <3>2
  <2>9. toolong <=> how.postlimit > 0 /\ linecount > how.postlimit
    BY <2>4, <2>7
  <2>10. Parsed(msg) = [lines |-> Before \o SubSeq(sent, 1, 0), line |-> SubSeq(LineAt(sent, 0), 1, 0)]
    BY <2>1, <2>5, <2>6
  <2> QED
    BY <2>5, <2>8, <2>9, <2>10 DEF Read
<1>4. IF how.via = "POST" THEN wire = After(sent, 0) /\ mode = (IF 0 = 0 THEN "NORMAL" ELSE "CRLF")
                          ELSE wire = AfterMail(sent, 0)
  BY <1>2, WholeInput DEF Init
<1>5. Position(0, 0)
  BY <1>1, <1>2, <1>3, <1>4, LineBegins DEF Position
<1> QED
  BY <1>5 DEF Init, ReadInv

\* Where nothing is collected, what has been read stays.
LEMMA ReadUnchanged ==
  ASSUME NEW k \in Nat, NEW m \in Nat, Read(k, m),
         UNCHANGED <<how, sent, msg, linechars, linecount, toolong>>
  PROVE  Read(k, m)'
BY DEF Read, Before, LineAt

\* A first character, and what follows it.
Splits(w, c, s) == w # << >> /\ Head(w) = c /\ Tail(w) = s

\* A first character can be read off what is left.
LEMMA Splitting == \A w : \A c \in Char, s \in Seq(Char) : w = <<c>> \o s => Splits(w, c, s)
BY HeadTailConcat DEF Splits

\* Where the first character of the input leads.
LEMMA InLineNext ==
  ASSUME TypeOK, NEW k \in Nat, NEW m \in Nat, Position(k, m), how.via = "POST", k < Len(sent)
  PROVE  \/ /\ m < Len(sent[k + 1]) /\ Splits(wire, sent[k + 1][m + 1], Rest(sent, k, m + 1))
            /\ mode = ModeAt(k, m) /\ sent[k + 1][m + 1] \notin {"r", "n"}
         \/ /\ m = Len(sent[k + 1]) /\ Splits(wire, "r", <<"n">> \o After(sent, k + 1))
            /\ mode = ModeAt(k, m)
         \/ /\ m = Len(sent[k + 1]) /\ Splits(wire, "n", After(sent, k + 1))
            /\ mode = ModeAt(k, m)
         \/ /\ m = 0 /\ Dotted(sent[k + 1]) /\ Splits(wire, ".", Rest(sent, k, 0))
            /\ mode = "CRLF"
<1>1. /\ sent \in Seq(Seq(Char)) /\ k \in 0 .. Len(sent) /\ m \in 0 .. Len(sent[k + 1])
      /\ k + 1 \in 0 .. Len(sent) /\ Len(sent[k + 1]) \in Nat /\ InLine(wire, mode, k, m)
      /\ m < Len(sent[k + 1]) => sent[k + 1][m + 1] \in Char \ {"r", "n"}
  BY SentType, PositionType DEF Position, Place
<1>2. After(sent, k + 1) \in Seq(Char) /\ <<"n">> \o After(sent, k + 1) \in Seq(Char)
  BY <1>1, AfterSteps, CRLFConcat
<1>3. CASE wire = Rest(sent, k, m) /\ mode = ModeAt(k, m)
  <2>1. CASE m < Len(sent[k + 1])
    <3>1. wire = <<sent[k + 1][m + 1]>> \o Rest(sent, k, m + 1) /\ Rest(sent, k, m + 1) \in Seq(Char)
      BY <1>1, <1>3, <2>1, RestSteps
    <3>2. Splits(wire, sent[k + 1][m + 1], Rest(sent, k, m + 1))
      BY <1>1, <2>1, <3>1, Splitting
    <3> QED
      BY <1>1, <1>3, <2>1, <3>2
  <2>2. CASE m = Len(sent[k + 1])
    <3>1. wire = <<"r">> \o (<<"n">> \o After(sent, k + 1))
      BY <1>1, <1>3, <2>2, RestSteps
    <3>2. Splits(wire, "r", <<"n">> \o After(sent, k + 1))
      BY <1>2, <3>1, Splitting, LineEnds
    <3> QED
      BY <1>3, <2>2, <3>2
  <2> QED
    BY <1>1, <2>1, <2>2
<1>4. CASE m = Len(sent[k + 1]) /\ wire = <<"n">> \o After(sent, k + 1) /\ mode = ModeAt(k, m)
  <2>1. Splits(wire, "n", After(sent, k + 1))
    BY <1>2, <1>4, Splitting, LineEnds
  <2> QED
    BY <1>4, <2>1
<1>5. CASE m = 0 /\ Dotted(sent[k + 1]) /\ wire = After(sent, k) /\ mode = "CRLF"
  <2>1. wire = <<".">> \o Rest(sent, k, 0)
    BY <1>1, <1>5, AfterSteps
  <2>2. Rest(sent, k, 0) \in Seq(Char)
    BY <1>1, <1>5, RestSteps
  <2>3. Splits(wire, ".", Rest(sent, k, 0))
    BY <2>1, <2>2, Splitting, LineEnds
  <2> QED
    BY <1>5, <2>3
<1> QED
  BY <1>1, <1>3, <1>4, <1>5 DEF InLine

\* Behind the last line of POST comes the dot and its CR LF.
LEMMA AtEndNext ==
  ASSUME TypeOK, NEW k \in Nat, NEW m \in Nat, Position(k, m), how.via = "POST", ~(k < Len(sent))
  PROVE  /\ k = Len(sent) /\ m = 0
         /\ \/ /\ Splits(wire, ".", <<"r">> \o (<<"n">> \o NextCommand)) /\ mode = "CRLF"
            \/ /\ Splits(wire, "r", <<"n">> \o NextCommand) /\ mode = "CRLF_DOT"
            \/ /\ Splits(wire, "n", NextCommand) /\ mode = "CRLF_DOT"
<1>1. k = Len(sent) /\ m = 0 /\ AtEnd(wire, mode)
  BY SentType DEF Position, Place
<1>2. /\ NextCommand \in Seq(Char) /\ <<"n">> \o NextCommand \in Seq(Char)
      /\ <<"r">> \o (<<"n">> \o NextCommand) \in Seq(Char)
  BY EndsType, CRLFConcat
<1>3. CASE wire = Ends /\ mode = "CRLF"
  BY <1>1, <1>2, <1>3, Splitting, LineEnds DEF Ends
<1>4. CASE wire = <<"r">> \o (<<"n">> \o NextCommand) /\ mode = "CRLF_DOT"
  BY <1>1, <1>2, <1>4, Splitting, LineEnds
<1>5. CASE wire = <<"n">> \o NextCommand /\ mode = "CRLF_DOT"
  BY <1>1, <1>2, <1>5, Splitting, LineEnds
<1> QED
  BY <1>1, <1>3, <1>4, <1>5 DEF AtEnd

\* Where the first character of the mail leads.
LEMMA MailNext ==
  ASSUME TypeOK, NEW k \in Nat, NEW m \in Nat, Position(k, m), how.via # "POST"
  PROVE  \/ /\ k < Len(sent) /\ m < Len(sent[k + 1])
            /\ Splits(wire, sent[k + 1][m + 1], RestMail(sent, k, m + 1))
            /\ sent[k + 1][m + 1] \notin {"r", "n"}
         \/ /\ k < Len(sent) /\ m = Len(sent[k + 1])
            /\ Splits(wire, "n", AfterMail(sent, k + 1))
         \/ k = Len(sent) /\ m = 0 /\ wire = << >>
<1>1. CASE ~(k < Len(sent))
  BY <1>1, SentType DEF Position, Place
<1>2. CASE k < Len(sent)
  <2>1. /\ sent \in Seq(Seq(Char)) /\ k \in 0 .. Len(sent) /\ m \in 0 .. Len(sent[k + 1])
        /\ k + 1 \in 0 .. Len(sent) /\ Len(sent[k + 1]) \in Nat /\ wire = RestMail(sent, k, m)
        /\ m < Len(sent[k + 1]) => sent[k + 1][m + 1] \in Char \ {"r", "n"}
    BY <1>2, SentType, PositionType DEF Position, Place
  <2>2. CASE m < Len(sent[k + 1])
    <3>1. wire = <<sent[k + 1][m + 1]>> \o RestMail(sent, k, m + 1) /\ RestMail(sent, k, m + 1) \in Seq(Char)
      BY <1>2, <2>1, <2>2, RestMailSteps
    <3>2. Splits(wire, sent[k + 1][m + 1], RestMail(sent, k, m + 1))
      BY <2>1, <2>2, <3>1, Splitting
    <3> QED
      BY <1>2, <2>1, <2>2, <3>2
  <2>3. CASE m = Len(sent[k + 1])
    <3>1. wire = <<"n">> \o AfterMail(sent, k + 1) /\ AfterMail(sent, k + 1) \in Seq(Char)
      BY <1>2, <2>1, <2>3, RestMailSteps, AfterMailSteps
    <3>2. Splits(wire, "n", AfterMail(sent, k + 1))
      BY <3>1, Splitting, LineEnds
    <3> QED
      BY <1>2, <2>3, <3>2
  <2> QED
    BY <2>1, <2>2, <2>3
<1> QED
  BY <1>1, <1>2

\* The place after a step.
LEMMA PlaceNext ==
  ASSUME UNCHANGED <<sent, how>>, NEW k, NEW m, Place(wire', mode', k, m)
  PROVE  Place(wire, mode, k, m)'
BY DEF Place, InLine, AtEnd, ModeAt

\* ReadInv after a step that leads to position k, m.
LEMMA ReadNext ==
  ASSUME UNCHANGED <<sent, how, cut, file, mailed, dead>>, ~cut, file = << >>, mailed = << >>, dead = << >>,
         NEW k \in Nat, NEW m \in Nat, k \in 0 .. Len(sent), k < Len(sent) => m \in 0 .. Len(sent[k + 1]),
         Read(k, m)', Place(wire', mode', k, m)
  PROVE  ReadInv'
<1>1. Place(wire, mode, k, m)'
  BY PlaceNext
<1>2. Position(k, m)'
  BY <1>1 DEF Position
<1> QED
  BY <1>2 DEF ReadInv

\* A CR is skipped, within the end of a line only.
LEMMA SkipCRReads ==
  ASSUME TypeOK, ReadInv, SkipCR
  PROVE  ReadInv'
<1>1. /\ UNCHANGED <<how, sent, mode, msg, linechars, linecount, toolong, cut, file, mailed, dead>>
      /\ how.via = "POST" /\ pc = "reading" /\ Head(wire) = "r" /\ wire' = Tail(wire)
  BY DEF SkipCR, Reading, results
<1>2. ~cut /\ file = << >> /\ mailed = << >> /\ dead = << >>
  BY <1>1 DEF ReadInv
<1>3. PICK k \in Nat, m \in Nat : Position(k, m)
  BY <1>1 DEF ReadInv
<1>4. /\ k \in 0 .. Len(sent) /\ (k < Len(sent) => m \in 0 .. Len(sent[k + 1])) /\ Read(k, m)'
  BY <1>1, <1>3, ReadUnchanged DEF Position
<1>5. CASE k < Len(sent)
  <2>1. m = Len(sent[k + 1]) /\ wire' = <<"n">> \o After(sent, k + 1) /\ mode' = ModeAt(k, m)
    BY <1>1, <1>3, <1>5, InLineNext DEF Splits
  <2>2. Place(wire', mode', k, m)
    BY <1>1, <1>5, <2>1 DEF Place, InLine
  <2> QED
    BY <1>1, <1>2, <1>4, <2>2, ReadNext
<1>6. CASE ~(k < Len(sent))
  <2>1. m = 0 /\ wire' = <<"n">> \o NextCommand /\ mode' = "CRLF_DOT"
    BY <1>1, <1>3, <1>6, AtEndNext DEF Splits
  <2>2. Place(wire', mode', k, m)
    BY <1>1, <1>6, <2>1 DEF Place, AtEnd
  <2> QED
    BY <1>1, <1>2, <1>4, <2>2, ReadNext
<1> QED
  BY <1>5, <1>6

\* A dot is skipped where it was stuffed, or ends the text.
LEMMA SkipDotReads ==
  ASSUME TypeOK, ReadInv, SkipDot
  PROVE  ReadInv'
<1>1. /\ UNCHANGED <<how, sent, msg, linechars, linecount, toolong, cut, file, mailed, dead>>
      /\ how.via = "POST" /\ pc = "reading" /\ Head(wire) = "." /\ wire' = Tail(wire)
      /\ mode = "CRLF" /\ mode' = "CRLF_DOT"
  BY DEF SkipDot, Reading, results
<1>2. ~cut /\ file = << >> /\ mailed = << >> /\ dead = << >>
  BY <1>1 DEF ReadInv
<1>3. PICK k \in Nat, m \in Nat : Position(k, m)
  BY <1>1 DEF ReadInv
<1>4. /\ k \in 0 .. Len(sent) /\ (k < Len(sent) => m \in 0 .. Len(sent[k + 1])) /\ Read(k, m)'
  BY <1>1, <1>3, ReadUnchanged DEF Position
<1>5. CASE k < Len(sent)
  <2>1. m = 0 /\ Dotted(sent[k + 1]) /\ wire' = Rest(sent, k, 0)
    <3>1. CASE m < Len(sent[k + 1]) /\ Splits(wire, sent[k + 1][m + 1], Rest(sent, k, m + 1)) /\ mode = ModeAt(k, m)
      <4>1. m = 0 /\ ~Dotted(sent[k + 1])
        BY <1>1, <3>1 DEF ModeAt
      <4>2. sent[k + 1][1] = "."
        BY <1>1, <3>1, <4>1 DEF Splits
      <4>3. sent[k + 1] # << >>
        <5>1. Len(sent[k + 1]) # 0 /\ sent[k + 1] \in Seq(Char)
          BY <1>3, <1>5, <3>1, <4>1, PositionType
        <5> QED
          BY <5>1, EmptySeq
      <4> QED
        BY <4>1, <4>2, <4>3 DEF Dotted
    <3> QED
      BY <1>1, <1>3, <1>5, <3>1, InLineNext DEF Splits
  <2>2. mode' = ModeAt(k, m)
    BY <1>1, <2>1 DEF ModeAt
  <2>3. Place(wire', mode', k, m)
    BY <1>1, <1>5, <2>1, <2>2 DEF Place, InLine
  <2> QED
    BY <1>1, <1>2, <1>4, <2>3, ReadNext
<1>6. CASE ~(k < Len(sent))
  <2>1. m = 0 /\ wire' = <<"r">> \o (<<"n">> \o NextCommand)
    BY <1>1, <1>3, <1>6, AtEndNext DEF Splits
  <2>2. Place(wire', mode', k, m)
    BY <1>1, <1>6, <2>1 DEF Place, AtEnd
  <2> QED
    BY <1>1, <1>2, <1>4, <2>2, ReadNext
<1> QED
  BY <1>5, <1>6

\* Other characters are those of the article.
LEMMA CharacterReads ==
  ASSUME TypeOK, ReadInv, Character
  PROVE  ReadInv'
<1>1. /\ UNCHANGED <<how, sent, cut, file, mailed, dead>>
      /\ how.via = "POST" /\ pc = "reading" /\ Head(wire) # "r" /\ wire' = Tail(wire)
      /\ ~(Head(wire) = "n" /\ mode = "CRLF_DOT") /\ ~(Head(wire) = "." /\ mode = "CRLF")
      /\ mode' = (IF Head(wire) = "n" THEN "CRLF" ELSE "NORMAL")
      /\ Collect(Head(wire), <<Head(wire)>>)
  BY DEF Character, Reading, results
<1>2. ~cut /\ file = << >> /\ mailed = << >> /\ dead = << >>
  BY <1>1 DEF ReadInv
<1>3. PICK k \in Nat, m \in Nat : Position(k, m)
  BY <1>1 DEF ReadInv
<1>4. k \in 0 .. Len(sent) /\ (k < Len(sent) => m \in 0 .. Len(sent[k + 1])) /\ Read(k, m)
  BY <1>3 DEF Position
<1>5. sent \in Seq(Seq(Char)) /\ how.postlimit \in Nat /\ toolong \in BOOLEAN
  BY SentType DEF TypeOK
<1>6. k < Len(sent)
  BY <1>1, <1>3, AtEndNext DEF Splits
<1>7. CASE /\ m < Len(sent[k + 1]) /\ Splits(wire, sent[k + 1][m + 1], Rest(sent, k, m + 1))
           /\ sent[k + 1][m + 1] \notin {"r", "n"}
  <2>1. Collect(sent[k + 1][m + 1], <<sent[k + 1][m + 1]>>)
    BY <1>1, <1>7 DEF Splits
  <2>2. Read(k, m + 1)'
    BY <1>1, <1>4, <1>5, <1>6, <1>7, <2>1, CollectLine
  <2>3. wire' = Rest(sent, k, m + 1) /\ mode' = "NORMAL"
    BY <1>1, <1>7 DEF Splits
  <2>4. m + 1 \in Nat /\ m + 1 \in 0 .. Len(sent[k + 1]) /\ m + 1 > 0
    BY <1>3, <1>6, <1>7, PositionType
  <2>5. Place(wire', mode', k, m + 1)
    BY <1>1, <1>6, <2>3, <2>4 DEF Place, InLine, ModeAt
  <2> QED
    BY <1>1, <1>2, <1>4, <2>2, <2>4, <2>5, ReadNext
<1>8. CASE m = Len(sent[k + 1]) /\ Splits(wire, "n", After(sent, k + 1))
  <2>1. Collect("n", <<"n">>) /\ wire' = After(sent, k + 1) /\ mode' = "CRLF"
    BY <1>1, <1>8 DEF Splits
  <2>2. Read(k + 1, 0)'
    BY <1>1, <1>4, <1>5, <1>6, <1>8, <2>1, CollectEnd
  <2>3. k + 1 \in 0 .. Len(sent) /\ k + 1 # 0 /\ k + 1 \in Nat
    BY <1>4, <1>6, SentType
  <2>4. Place(wire', mode', k + 1, 0) /\ (k + 1 < Len(sent) => 0 \in 0 .. Len(sent[k + 1 + 1]))
    BY <1>1, <2>1, <2>3, LineBegins
  <2> QED
    BY <1>1, <1>2, <2>2, <2>3, <2>4, ReadNext
<1> QED
  BY <1>1, <1>3, <1>6, <1>7, <1>8, InLineNext DEF Splits

\* A mail's characters are those of the article.
LEMMA MailCharacterReads ==
  ASSUME TypeOK, ReadInv, MailCharacter
  PROVE  ReadInv'
<1>1. /\ UNCHANGED <<how, sent, mode, cut, file, mailed, dead>>
      /\ how.via = "mail" /\ how.via # "POST" /\ pc = "reading" /\ wire # << >> /\ wire' = Tail(wire)
      /\ Collect(Head(wire), IF Head(wire) = "n" THEN CRLF ELSE <<Head(wire)>>)
  BY DEF MailCharacter, Reading, results
<1>2. ~cut /\ file = << >> /\ mailed = << >> /\ dead = << >>
  BY <1>1 DEF ReadInv
<1>3. PICK k \in Nat, m \in Nat : Position(k, m)
  BY <1>1 DEF ReadInv
<1>4. k \in 0 .. Len(sent) /\ (k < Len(sent) => m \in 0 .. Len(sent[k + 1])) /\ Read(k, m)
  BY <1>3 DEF Position
<1>5. sent \in Seq(Seq(Char)) /\ how.postlimit \in Nat /\ toolong \in BOOLEAN
  BY SentType DEF TypeOK
<1>6. CASE /\ k < Len(sent) /\ m < Len(sent[k + 1])
           /\ Splits(wire, sent[k + 1][m + 1], RestMail(sent, k, m + 1)) /\ sent[k + 1][m + 1] \notin {"r", "n"}
  <2>1. Collect(sent[k + 1][m + 1], <<sent[k + 1][m + 1]>>)
    BY <1>1, <1>6 DEF Splits
  <2>2. Read(k, m + 1)'
    BY <1>1, <1>4, <1>5, <1>6, <2>1, CollectLine
  <2>3. wire' = RestMail(sent, k, m + 1)
    BY <1>1, <1>6 DEF Splits
  <2>4. m + 1 \in Nat /\ m + 1 \in 0 .. Len(sent[k + 1])
    BY <1>3, <1>6, PositionType
  <2>5. Place(wire', mode', k, m + 1)
    BY <1>1, <1>6, <2>3 DEF Place
  <2> QED
    BY <1>1, <1>2, <1>4, <2>2, <2>4, <2>5, ReadNext
<1>7. CASE k < Len(sent) /\ m = Len(sent[k + 1]) /\ Splits(wire, "n", AfterMail(sent, k + 1))
  <2>1. Collect("n", CRLF) /\ wire' = AfterMail(sent, k + 1)
    BY <1>1, <1>7 DEF Splits
  <2>2. Read(k + 1, 0)'
    BY <1>1, <1>4, <1>5, <1>7, <2>1, CollectEnd
  <2>3. k + 1 \in 0 .. Len(sent) /\ k + 1 \in Nat
    BY <1>4, <1>7, SentType
  <2>4. Place(wire', mode', k + 1, 0) /\ (k + 1 < Len(sent) => 0 \in 0 .. Len(sent[k + 1 + 1]))
    BY <1>1, <2>1, <2>3, LineBegins
  <2> QED
    BY <1>1, <1>2, <2>2, <2>3, <2>4, ReadNext
<1> QED
  BY <1>1, <1>3, <1>6, <1>7, MailNext

\* ReadInv is inductive.
LEMMA ReadStep == TypeOK /\ ReadInv /\ [Next]_vars => ReadInv'
<1> SUFFICES ASSUME TypeOK, ReadInv, [Next]_vars
             PROVE  ReadInv'
  OBVIOUS
<1>1. CASE EndOfText \/ EndOfMail \/ HangUp
  BY <1>1, FinishType DEF EndOfText, EndOfMail, HangUp, ReadInv
<1>2. CASE UNCHANGED vars
  <2>1. /\ UNCHANGED <<how, sent, cut, file, mailed, dead, wire, mode, pc>>
        /\ UNCHANGED <<how, sent, msg, linechars, linecount, toolong>>
    BY <1>2 DEF vars
  <2>2. CASE pc = "reading"
    <3>1. ~cut /\ file = << >> /\ mailed = << >> /\ dead = << >>
      BY <2>2 DEF ReadInv
    <3>2. PICK k \in Nat, m \in Nat : Position(k, m)
      BY <2>2 DEF ReadInv
    <3>3. /\ k \in 0 .. Len(sent) /\ (k < Len(sent) => m \in 0 .. Len(sent[k + 1])) /\ Read(k, m)
          /\ Place(wire', mode', k, m)
      BY <2>1, <3>2 DEF Position
    <3>4. Read(k, m)'
      BY <2>1, <3>3, ReadUnchanged
    <3> QED
      BY <2>1, <3>1, <3>3, <3>4, ReadNext
  <2>3. CASE pc # "reading"
    BY <2>1, <2>3 DEF ReadInv
  <2> QED
    BY <2>2, <2>3
<1> QED
  BY <1>1, <1>2, SkipCRReads, SkipDotReads, CharacterReads, MailCharacterReads DEF Next

\* At each character of the input, the loops of POST and of the gateway have
\* collected and counted exactly the part of the article that was sent so far,
\* and are in the mode that fits what comes next.
THEOREM ReaderReads == Spec => []ReadInv
BY TypeInit, TypeNext, ReadInit, ReadStep, PTL DEF Spec

-----------------------------------------------------------------------------
(* The first that.                                                         *)

IsFirst(i, T) == IF T = {} THEN i = 0 ELSE i \in T /\ \A j \in T : i <= j

\* The least position.
LEMMA MinIsFirst ==
  ASSUME NEW n \in Nat, NEW T \in SUBSET (1 .. n)
  PROVE  IsFirst(IF T # {} THEN Min(T) ELSE 0, T)
<1>1. CASE T = {}
  BY <1>1 DEF IsFirst
<1>2. CASE T # {}
  <2>1. T \subseteq Nat
    OBVIOUS
  <2>2. \E i \in T : \A j \in T : i <= j
    BY <1>2, <2>1, LeastOf
  <2>3. Min(T) \in T /\ \A j \in T : Min(T) <= j
    BY <2>2 DEF Min
  <2> QED
    BY <1>2, <2>3 DEF IsFirst
<1> QED
  BY <1>1, <1>2

Empties(s) == {j \in 1 .. Len(s) : s[j] = << >>}
FirstEmpty(s) == SelectInSeq(s, LAMBDA line : line = << >>)

\* The first empty line, or 0.
LEMMA FirstEmptyIs ==
  ASSUME NEW s, Len(s) \in Nat
  PROVE  IsFirst(FirstEmpty(s), Empties(s))
<1>1. FirstEmpty(s) = IF Empties(s) # {} THEN Min(Empties(s)) ELSE 0
  BY DEF FirstEmpty, SelectInSeq, Empties
<1>2. Empties(s) \in SUBSET (1 .. Len(s))
  BY DEF Empties
<1> QED
  BY <1>1, <1>2, MinIsFirst

FieldsNamed(s, name) == {j \in 1 .. Len(s) : IsField(s[j], name)}

\* The first line with the field, or 0.
LEMMA GetHeaderIndexIs ==
  ASSUME NEW s, NEW name, Len(s) \in Nat
  PROVE  IsFirst(GetHeaderIndex(s, name), FieldsNamed(s, name))
<1>1. GetHeaderIndex(s, name) = IF FieldsNamed(s, name) # {} THEN Min(FieldsNamed(s, name)) ELSE 0
  BY DEF GetHeaderIndex, SelectInSeq, FieldsNamed
<1>2. FieldsNamed(s, name) \in SUBSET (1 .. Len(s))
  BY DEF FieldsNamed
<1> QED
  BY <1>1, <1>2, MinIsFirst

-----------------------------------------------------------------------------
(* Header and body.                                                        *)

\* p is the first empty line.
EndsHead(s, p) == p \in 1 .. Len(s) /\ s[p] = << >> /\ \A j \in 1 .. p - 1 : s[j] # << >>

\* Header and body of a file are before and behind its first empty line.
LEMMA HeadBody ==
  ASSUME NEW X, NEW s \in Seq(X), NEW p, EndsHead(s, p)
  PROVE  /\ FirstEmpty(s) = p
         /\ HeadOf(s) = SubSeq(s, 1, p - 1) /\ Len(HeadOf(s)) = p - 1
         /\ BodyOf(s) = SubSeq(s, p + 1, Len(s))
<1>1. Len(s) \in Nat
  BY LenProperties
<1>2. p \in Empties(s) /\ \A j \in Empties(s) : ~(j < p)
  BY <1>1 DEF EndsHead, Empties
<1>3. FirstEmpty(s) = p
  <2>1. FirstEmpty(s) \in Empties(s) /\ FirstEmpty(s) <= p
    BY <1>1, <1>2, FirstEmptyIs DEF IsFirst
  <2>2. Empties(s) \subseteq Nat
    BY DEF Empties
  <2> QED
    BY <1>2, <2>1, <2>2
<1>4. p \in 1 .. Len(s) /\ p \in Nat
  BY <1>1 DEF EndsHead
<1>5. HeadOf(s) = SubSeq(s, 1, p - 1)
  BY <1>3 DEF HeadOf, FirstEmpty
<1>6. Len(HeadOf(s)) = p - 1
  <2>1. \A i \in 1 .. p - 1 : s[i] \in X
    BY <1>1, <1>4, ElementOfSeq
  <2>2. p - 1 \in Int /\ (1 <= p - 1 \/ p - 1 = 0)
    BY <1>4
  <2>3. Len(SubSeq(s, 1, p - 1)) = IF 1 <= p - 1 THEN p - 1 - 1 + 1 ELSE 0
    BY <2>1, <2>2, SubSeqProperties
  <2> QED
    BY <1>5, <2>2, <2>3
<1>7. BodyOf(s) = SubSeq(s, p + 1, Len(s))
  <2>1. Len(HeadOf(s)) + 2 = p + 1
    BY <1>4, <1>6
  <2> QED
    BY <2>1 DEF BodyOf
<1> QED
  BY <1>3, <1>5, <1>6, <1>7

\* An article's lines with the empty one behind the header: Closed.
WithEnd(lines) == IF \E k \in 2 .. Len(lines) : lines[k] = << >> THEN lines ELSE Append(lines, << >>)

\* The header that ParseArticle finds ends before an empty line, or with the
\* text.
LEMMA HeadSizeIs ==
  ASSUME NEW X, NEW lines \in Seq(X), Len(lines) # 0, << >> \in X
  PROVE  /\ HeadSize(lines) \in 1 .. Len(lines) /\ Len(lines) \in Nat
         /\ \A j \in 2 .. HeadSize(lines) : lines[j] # << >>
         /\ HeadSize(lines) # Len(lines) => lines[HeadSize(lines) + 1] = << >>
<1>1. Len(lines) \in Nat \ {0}
  BY LenProperties
<1> DEFINE r == SubSeq(lines, 2, Len(lines))
<1>2. r \in Seq(X) /\ Len(r) = Len(lines) - 1 /\ \A i \in 1 .. Len(lines) - 1 : r[i] = lines[i + 1]
  <2>1. \A i \in 2 .. Len(lines) : lines[i] \in X
    BY <1>1, ElementOfSeq
  <2>2. /\ r \in Seq(X)
        /\ Len(r) = IF 2 <= Len(lines) THEN Len(lines) - 2 + 1 ELSE 0
        /\ \A i \in 1 .. Len(lines) - 2 + 1 : r[i] = lines[2 + i - 1]
    BY <1>1, <2>1, SubSeqProperties
  <2> HIDE DEF r
  <2>3. PICK n \in Nat \ {0} : n = Len(lines)
    BY <1>1
  <2>4. Len(r) = n - 1 /\ \A i \in 1 .. n - 1 : r[i] = lines[2 + i - 1]
    <3>1. Len(r) = IF 2 <= n THEN n - 2 + 1 ELSE 0
      BY <2>2, <2>3
    <3>2. \A i \in 1 .. n - 2 + 1 : r[i] = lines[2 + i - 1]
      BY <2>2, <2>3
    <3>3. n - 2 + 1 = n - 1
      OBVIOUS
    <3> QED
      BY <3>1, <3>2, <3>3
  <2>5. \A i \in 1 .. n - 1 : 2 + i - 1 = i + 1
    OBVIOUS
  <2> QED
    BY <2>2, <2>3, <2>4, <2>5
<1>3. HeadSize(lines) = IF FirstEmpty(r) = 0 THEN Len(lines) ELSE FirstEmpty(r)
  BY DEF HeadSize, FirstEmpty
<1> HIDE DEF r
<1>4. IsFirst(FirstEmpty(r), Empties(r))
  BY <1>1, <1>2, FirstEmptyIs
<1>5. \A j \in 2 .. Len(lines) : j - 1 \in 1 .. Len(r) /\ r[j - 1] = lines[j] /\ (lines[j] = << >> => j - 1 \in Empties(r))
  <2>1. \A j \in 2 .. Len(lines) : j - 1 \in 1 .. Len(lines) - 1 /\ j - 1 + 1 = j
    BY <1>1
  <2> QED
    BY <1>2, <2>1 DEF Empties
<1>6. \A i \in Empties(r) : i \in 1 .. Len(lines) - 1 /\ lines[i + 1] = << >>
  BY <1>2 DEF Empties
<1>7. CASE Empties(r) = {}
  <2>1. HeadSize(lines) = Len(lines)
    BY <1>3, <1>4, <1>7 DEF IsFirst
  <2> QED
    BY <1>1, <1>5, <1>7, <2>1
<1>8. CASE Empties(r) # {}
  <2>1. FirstEmpty(r) \in Empties(r) /\ \A j \in Empties(r) : FirstEmpty(r) <= j
    BY <1>4, <1>8 DEF IsFirst
  <2>2. PICK k \in 1 .. Len(lines) - 1 : k = FirstEmpty(r)
    BY <1>6, <2>1
  <2>3. HeadSize(lines) = k /\ lines[k + 1] = << >>
    BY <1>1, <1>3, <1>6, <2>1, <2>2
  <2>4. \A j \in 2 .. k : lines[j] # << >>
    <3>1. \A j \in 2 .. k : j \in 2 .. Len(lines) /\ ~(k <= j - 1)
      BY <1>1
    <3> QED
      BY <1>5, <2>1, <2>2, <3>1
  <2> QED
    BY <1>1, <2>3, <2>4
<1> QED
  BY <1>7, <1>8

\* The same with an empty line behind the header in any case.
LEMMA ClosedIs ==
  ASSUME NEW X, NEW lines \in Seq(X), Len(lines) # 0, << >> \in X
  PROVE  /\ WithEnd(lines) \in Seq(X) /\ HeadSize(lines) + 1 \in 2 .. Len(WithEnd(lines))
         /\ WithEnd(lines)[HeadSize(lines) + 1] = << >>
         /\ \A j \in 1 .. HeadSize(lines) : WithEnd(lines)[j] = lines[j]
         /\ SubSeq(lines, HeadSize(lines) + 2, Len(lines))
              = SubSeq(WithEnd(lines), HeadSize(lines) + 2, Len(WithEnd(lines)))
<1>1. PICK k \in 1 .. Len(lines) : k = HeadSize(lines)
  BY HeadSizeIs
<1>2. /\ Len(lines) \in Nat \ {0} /\ (\A j \in 2 .. k : lines[j] # << >>)
      /\ k # Len(lines) => lines[k + 1] = << >>
  BY <1>1, HeadSizeIs
<1>3. CASE k = Len(lines)
  <2>1. WithEnd(lines) = Append(lines, << >>)
    BY <1>2, <1>3 DEF WithEnd
  <2>2. /\ Append(lines, << >>) \in Seq(X) /\ Len(Append(lines, << >>)) = Len(lines) + 1
        /\ \A i \in 1 .. Len(lines) : Append(lines, << >>)[i] = lines[i]
        /\ Append(lines, << >>)[Len(lines) + 1] = << >>
    BY AppendProperties
  <2>3. SubSeq(lines, k + 2, Len(lines)) = << >> /\ SubSeq(WithEnd(lines), k + 2, Len(lines) + 1) = << >>
    BY <1>2, <1>3, SubSeqEmpty
  <2>4. k + 1 \in 2 .. Len(lines) + 1
    BY <1>2, <1>3
  <2> QED
    BY <1>1, <1>3, <2>1, <2>2, <2>3, <2>4
<1>4. CASE k # Len(lines)
  <2>1. k + 1 \in 2 .. Len(lines)
    BY <1>2, <1>4
  <2>2. WithEnd(lines) = lines
    BY <1>2, <1>4, <2>1 DEF WithEnd
  <2> QED
    BY <1>1, <1>2, <1>4, <2>1, <2>2
<1> QED
  BY <1>3, <1>4

\* The header that ParseArticle finds.
LEMMA HeadIs ==
  ASSUME NEW X, NEW lines \in Seq(X), Len(lines) # 0, << >> \in X
  PROVE  SubSeq(lines, 1, HeadSize(lines))
           = IF lines[1] = << >> THEN << << >> >> \o HeadOf(Tail(WithEnd(lines))) ELSE HeadOf(WithEnd(lines))
<1>1. PICK k \in 1 .. Len(lines) : k = HeadSize(lines)
  BY HeadSizeIs
<1>2. PICK s \in Seq(X) : s = WithEnd(lines)
  BY ClosedIs
<1>3. /\ Len(lines) \in Nat \ {0} /\ (\A j \in 2 .. k : lines[j] # << >>)
      /\ Len(s) \in Nat /\ k + 1 \in 2 .. Len(s) /\ s[k + 1] = << >> /\ \A j \in 1 .. k : s[j] = lines[j]
  BY <1>1, <1>2, HeadSizeIs, ClosedIs, LenProperties
<1> DEFINE h == SubSeq(lines, 1, k)
<1>4. h \in Seq(X) /\ Len(h) = k /\ \A i \in 1 .. k : h[i] = lines[i]
  <2>1. \A i \in 1 .. k : lines[i] \in X
    BY <1>3, ElementOfSeq
  <2>2. /\ h \in Seq(X) /\ Len(h) = IF 1 <= k THEN k - 1 + 1 ELSE 0
        /\ \A i \in 1 .. k - 1 + 1 : h[i] = lines[1 + i - 1]
    BY <2>1, SubSeqProperties
  <2> HIDE DEF h
  <2>3. k - 1 + 1 = k /\ 1 <= k /\ \A i \in Nat : 1 + i - 1 = i
    BY <1>3
  <2> QED
    BY <2>2, <2>3
<1> HIDE DEF h
<1>5. ASSUME lines[1] # << >>
      PROVE  h = HeadOf(s)
  <2>1. EndsHead(s, k + 1)
    <3>1. \A j \in 1 .. k : j = 1 \/ j \in 2 .. k
      OBVIOUS
    <3>2. \A j \in 1 .. k : s[j] # << >>
      BY <1>3, <1>5, <3>1
    <3>3. k + 1 - 1 = k /\ k + 1 \in 1 .. Len(s)
      BY <1>3
    <3> QED
      BY <1>3, <3>2, <3>3 DEF EndsHead
  <2>2. HeadOf(s) = SubSeq(s, 1, k + 1 - 1) /\ k + 1 - 1 = k
    BY <1>3, <2>1, HeadBody
  <2> DEFINE g == SubSeq(s, 1, k)
  <2>3. g \in Seq(X) /\ Len(g) = k /\ \A i \in 1 .. k : g[i] = s[i]
    <3>1. \A i \in 1 .. k : s[i] \in X
      BY <1>3, ElementOfSeq
    <3>2. /\ g \in Seq(X) /\ Len(g) = IF 1 <= k THEN k - 1 + 1 ELSE 0
          /\ \A i \in 1 .. k - 1 + 1 : g[i] = s[1 + i - 1]
      BY <3>1, SubSeqProperties
    <3> HIDE DEF g
    <3>3. k - 1 + 1 = k /\ 1 <= k /\ \A i \in Nat : 1 + i - 1 = i
      BY <1>3
    <3> QED
      BY <3>2, <3>3
  <2> HIDE DEF g
  <2>4. g = h
    BY <1>3, <1>4, <2>3, SeqEqual
  <2> QED
    BY <2>2, <2>4 DEF g
<1>6. ASSUME lines[1] = << >>
      PROVE  h = << << >> >> \o HeadOf(Tail(s))
  <2>1. s # << >>
    BY <1>3, EmptySeq
  <2> DEFINE t == Tail(s)
  <2>2. t \in Seq(X) /\ Len(t) = Len(s) - 1 /\ \A i \in 1 .. Len(s) - 1 : t[i] = s[i + 1]
    BY <2>1, HeadTailProperties
  <2> HIDE DEF t
  <2>3. EndsHead(t, k)
    <3>1. k \in 1 .. Len(t) /\ t[k] = << >>
      BY <1>3, <2>2
    <3>2. \A j \in 1 .. k - 1 : j + 1 \in 2 .. k /\ j + 1 \in 1 .. k /\ j \in 1 .. Len(s) - 1
      BY <1>3
    <3> QED
      BY <1>3, <2>2, <3>1, <3>2 DEF EndsHead
  <2>4. HeadOf(t) = SubSeq(t, 1, k - 1)
    BY <2>2, <2>3, HeadBody
  <2> DEFINE g == SubSeq(t, 1, k - 1)
  <2>5. g \in Seq(X) /\ Len(g) = k - 1 /\ \A i \in 1 .. k - 1 : g[i] = lines[i + 1]
    <3>1. \A i \in 1 .. k - 1 : t[i] \in X /\ t[i] = lines[i + 1]
      <4>1. \A i \in 1 .. k - 1 : i \in 1 .. Len(t) /\ i \in 1 .. Len(s) - 1 /\ i + 1 \in 1 .. k
        BY <1>3, <2>2
      <4> QED
        BY <1>3, <2>2, <4>1, ElementOfSeq
    <3>2. /\ g \in Seq(X) /\ Len(g) = IF 1 <= k - 1 THEN k - 1 - 1 + 1 ELSE 0
          /\ \A i \in 1 .. k - 1 - 1 + 1 : g[i] = t[1 + i - 1]
      BY <3>1, SubSeqProperties
    <3> HIDE DEF g
    <3>3. k - 1 - 1 + 1 = k - 1 /\ (1 <= k - 1 \/ k - 1 = 0) /\ \A i \in Nat : 1 + i - 1 = i
      BY <1>3
    <3> QED
      BY <3>1, <3>2, <3>3
  <2> HIDE DEF g
  <2> DEFINE e == << << >> >>
  <2>6. e \in Seq(X) /\ Len(e) = 1 /\ e[1] = << >>
    OBVIOUS
  <2> HIDE DEF e
  <2> DEFINE q == e \o g
  <2>7. q \in Seq(X) /\ Len(q) = 1 + (k - 1) /\ \A i \in 1 .. 1 + (k - 1) : q[i] = IF i <= 1 THEN e[i] ELSE g[i - 1]
    <3>1. /\ q \in Seq(X) /\ Len(q) = Len(e) + Len(g)
          /\ \A i \in 1 .. Len(e) + Len(g) : q[i] = IF i <= Len(e) THEN e[i] ELSE g[i - Len(e)]
      <4>1. ConcatOf(X, e, g, q)
        BY <2>5, <2>6, ConcatIs
      <4> HIDE DEF q
      <4> QED
        BY <4>1 DEF ConcatOf
    <3> HIDE DEF q
    <3> QED
      BY <2>5, <2>6, <3>1
  <2> HIDE DEF q
  <2>8. ASSUME NEW i \in 1 .. k
        PROVE  q[i] = h[i]
    <3>1. CASE i = 1
      BY <1>3, <1>4, <1>6, <2>6, <2>7, <3>1
    <3>2. CASE i # 1
      <4>1. i - 1 \in 1 .. k - 1 /\ i - 1 + 1 = i /\ ~(i <= 1) /\ i \in 1 .. 1 + (k - 1)
        BY <3>2
      <4> QED
        BY <1>4, <2>5, <2>7, <4>1
    <3> QED
      BY <3>1, <3>2
  <2>9. Len(q) = k
    BY <1>3, <2>7
  <2>10. q = h
    BY <1>4, <2>7, <2>8, <2>9, SeqEqual
  <2> QED
    BY <2>4, <2>10 DEF q, g, e, t
<1> QED
  BY <1>1, <1>2, <1>5, <1>6 DEF h

-----------------------------------------------------------------------------
(* The fields of a header.                                                 *)

Letter == Char \ {"r", "n"}
Header == Seq(Seq(Letter))
OneField == Header \ {<< >>}

\* The first line of a field stays when the field is continued.
LEMMA FieldFirst ==
  ASSUME NEW f \in OneField, NEW line \in Seq(Letter)
  PROVE  /\ f[1] \in Seq(Letter) /\ Append(f, line) \in OneField /\ Append(f, line)[1] = f[1]
         /\ <<line>> \in OneField /\ <<line>>[1] = line /\ Len(f) \in Nat \ {0}
<1> DEFINE X == Seq(Letter)
<1>1. f \in Seq(X) /\ f # << >> /\ line \in X
  BY DEF OneField, Header
<1> HIDE DEF X
<1>2. Len(f) \in Nat \ {0}
  BY <1>1, LenProperties, EmptySeq
<1>3. f[1] \in X
  BY <1>1, <1>2, ElementOfSeq
<1>4. Append(f, line) \in Seq(X) /\ Append(f, line) # << >> /\ Append(f, line)[1] = f[1]
  <2>1. /\ Append(f, line) \in Seq(X) /\ Append(f, line) # << >>
        /\ \A i \in 1 .. Len(f) : Append(f, line)[i] = f[i]
    BY <1>1, AppendProperties
  <2>2. 1 \in 1 .. Len(f)
    BY <1>2
  <2> QED
    BY <2>1, <2>2
<1>5. <<line>> \in Seq(X) /\ <<line>> # << >> /\ <<line>>[1] = line
  BY <1>1
<1> QED
  BY <1>2, <1>3, <1>4, <1>5 DEF X, OneField, Header

\* A header's last field is continued.
LEMMA FieldGrows ==
  \A line \in Seq(Letter) :
    <<line>> \in OneField /\ \A f \in OneField : Append(f, line) \in OneField
<1>1. SUFFICES ASSUME NEW line \in Seq(Letter)
               PROVE  <<line>> \in OneField /\ \A f \in OneField : Append(f, line) \in OneField
  OBVIOUS
<1>2. \A f \in OneField : Append(f, line) \in OneField
  <2> TAKE f \in OneField
  <2> QED
    BY FieldFirst
<1>3. <<line>> \in Header /\ <<line>> # << >>
  <2> DEFINE X == Seq(Letter)
  <2>1. line \in X
    OBVIOUS
  <2> HIDE DEF X
  <2>2. <<line>> \in Seq(X) /\ <<line>> # << >>
    BY <2>1
  <2> QED
    BY <2>2 DEF X, Header
<1> QED
  BY <1>2, <1>3 DEF OneField

\* The last element of a sequence, replaced.
LEMMA LastExtended ==
  ASSUME NEW X, NEW fs \in Seq(X), NEW f \in X, NEW g
  PROVE  /\ Len(Append(fs, f)) \in 1 .. Len(Append(fs, f)) /\ Append(fs, f)[Len(Append(fs, f))] = f
         /\ g \in X => [Append(fs, f) EXCEPT ![Len(Append(fs, f))] = g] = Append(fs, g)
<1>1. PICK n \in Nat : n = Len(fs)
  BY LenProperties
<1>2. /\ Append(fs, f) \in Seq(X) /\ Len(Append(fs, f)) = n + 1 /\ Append(fs, f)[n + 1] = f
      /\ \A i \in 1 .. n : Append(fs, f)[i] = fs[i]
  BY <1>1, AppendProperties
<1>3. ASSUME g \in X
      PROVE  [Append(fs, f) EXCEPT ![n + 1] = g] = Append(fs, g)
  <2>1. /\ Append(fs, g) \in Seq(X) /\ Len(Append(fs, g)) = n + 1 /\ Append(fs, g)[n + 1] = g
        /\ \A i \in 1 .. n : Append(fs, g)[i] = fs[i]
    BY <1>1, <1>3, AppendProperties
  <2> DEFINE a == Append(fs, f)
             b == Append(fs, g)
             c == [a EXCEPT ![n + 1] = g]
  <2>2. a \in Seq(X) /\ b \in Seq(X) /\ DOMAIN a = 1 .. n + 1 /\ DOMAIN b = 1 .. n + 1
    BY <1>2, <2>1, LenProperties
  <2>3. b = [i \in 1 .. n + 1 |-> b[i]]
    BY <2>1, <2>2, LenProperties
  <2> HIDE DEF a, b
  <2>4. c = [i \in 1 .. n + 1 |-> IF i = n + 1 THEN g ELSE a[i]]
    BY <2>2
  <2>5. \A i \in 1 .. n + 1 : b[i] = IF i = n + 1 THEN g ELSE a[i]
    <3>1. \A i \in 1 .. n + 1 : i = n + 1 \/ i \in 1 .. n
      OBVIOUS
    <3> QED
      BY <1>2, <2>1, <3>1 DEF a, b
  <2> HIDE DEF c
  <2>6. c = b
    BY <2>3, <2>4, <2>5
  <2> QED
    BY <2>6 DEF a, b, c
<1> QED
  BY <1>2, <1>3

\* A line is a field of its own, or continues the last.
LEMMA AddToFieldsIs ==
  ASSUME NEW fs \in Seq(OneField), NEW line \in Seq(Letter)
  PROVE  /\ AddToFields(fs, line) \in Seq(OneField)
         /\ ~IsFold(line) \/ fs = << >> => AddToFields(fs, line) = Append(fs, <<line>>)
         /\ \A r \in Seq(OneField), f \in OneField :
              IsFold(line) /\ fs = Append(r, f) => AddToFields(fs, line) = Append(r, Append(f, line))
<1>1. <<line>> \in OneField /\ \A f \in OneField : Append(f, line) \in OneField
  BY FieldGrows
<1>2. ~IsFold(line) \/ fs = << >> => AddToFields(fs, line) = Append(fs, <<line>>)
  BY DEF AddToFields
<1>3. ASSUME NEW r \in Seq(OneField), NEW f \in OneField, IsFold(line), fs = Append(r, f)
      PROVE  AddToFields(fs, line) = Append(r, Append(f, line))
  <2>1. fs # << >>
    BY <1>3, AppendProperties
  <2>2. PICK g \in OneField : g = Append(f, line)
    BY <1>1
  <2>3. fs[Len(fs)] = f /\ [fs EXCEPT ![Len(fs)] = g] = Append(r, g)
    <3> HIDE DEF OneField
    <3>1. g \in OneField /\ r \in Seq(OneField) /\ f \in OneField
      BY <2>2
    <3>2. Append(r, f)[Len(Append(r, f))] = f /\ [Append(r, f) EXCEPT ![Len(Append(r, f))] = g] = Append(r, g)
      BY ONLY <3>1, LastExtended
    <3> QED
      BY <1>3, <3>2
  <2>4. AddToFields(fs, line) = [fs EXCEPT ![Len(fs)] = Append(fs[Len(fs)], line)]
    BY <1>3, <2>1 DEF AddToFields
  <2> QED
    BY <2>2, <2>3, <2>4
<1>4. AddToFields(fs, line) \in Seq(OneField)
  <2>1. CASE ~IsFold(line) \/ fs = << >>
    <3>1. PICK g \in OneField : g = <<line>>
      BY <1>1
    <3>2. Append(fs, g) \in Seq(OneField)
      BY <3>1, AppendProperties
    <3> QED
      BY <1>2, <2>1, <3>1, <3>2
  <2>2. CASE IsFold(line) /\ fs # << >>
    <3>1. PICK r \in Seq(OneField), f \in OneField : fs = Append(r, f)
      BY <2>2, SequenceEmptyOrAppend
    <3>2. PICK g \in OneField : g = Append(f, line)
      BY <1>1
    <3>3. Append(r, g) \in Seq(OneField)
      BY AppendProperties
    <3> QED
      BY <1>3, <2>2, <3>1, <3>2, <3>3
  <2> QED
    BY <2>1, <2>2
<1> QED
  BY <1>2, <1>3, <1>4

\* The fields of a header with one line more.
LEMMA FieldsAppend ==
  ASSUME NEW head \in Header
  PROVE  /\ Fields(<< >>) = << >> /\ Fields(head) \in Seq(OneField)
         /\ \A line \in Seq(Letter) : Fields(Append(head, line)) = AddToFields(Fields(head), line)
<1> DEFINE p == 0
           V == Seq(OneField)
           X == Seq(Letter)
           base == << >>
<1>0. \A ls : Fields(ls) = Split!Fold(p, base, ls)
  BY DEF Fields, FoldLeft, MapThenFoldSet, Max, Field,
         Split!Fold, Split!MapThenFoldSet, Split!Max
<1>1. Split!Keeps(p, V, X) /\ base \in V /\ head \in Seq(X)
  BY AddToFieldsIs, EmptySeq DEF Split!Keeps, Field, Header
<1>2. /\ Split!Fold(p, base, << >>) = base
      /\ Split!Fold(p, base, head) \in V
      /\ \A x \in X : Split!Fold(p, base, Append(head, x)) = Field(p, Split!Fold(p, base, head), x)
  <2> HIDE DEF V, X, base, p
  <2> QED
    BY <1>1, Numbers, Split!FoldAppend
<1> QED
  BY <1>0, <1>2 DEF Field

\* A field's name is one of these.
Of(names, f) == f[1] # << >> /\ f[1][1] \in names
Filtered(names, fs) == FoldLeft(LAMBDA fields, f : AddNamed(names, fields, f), << >>, fs)

\* The fields with the names, of one field more.
LEMMA FilteredAppend ==
  ASSUME NEW names, NEW fs \in Seq(OneField)
  PROVE  /\ Filtered(names, << >>) = << >> /\ Filtered(names, fs) \in Seq(OneField)
         /\ \A f \in OneField : Filtered(names, Append(fs, f))
                                  = IF Of(names, f) THEN Append(Filtered(names, fs), f) ELSE Filtered(names, fs)
<1> DEFINE V == Seq(OneField)
           X == OneField
           base == << >>
<1>0. \A ls : Filtered(names, ls) = Filter!Fold(names, base, ls)
  BY DEF Filtered, FoldLeft, MapThenFoldSet, Max,
         Filter!Fold, Filter!MapThenFoldSet, Filter!Max
<1>1. Filter!Keeps(names, V, X) /\ base \in V
  BY AppendProperties, EmptySeq DEF Filter!Keeps, AddNamed
<1>2. /\ Filter!Fold(names, base, << >>) = base
      /\ Filter!Fold(names, base, fs) \in V
      /\ \A x \in X : Filter!Fold(names, base, Append(fs, x)) = AddNamed(names, Filter!Fold(names, base, fs), x)
  <2> HIDE DEF V, X, base
  <2> QED
    BY <1>1, Numbers, Filter!FoldAppend DEF V, X
<1> QED
  BY <1>0, <1>2 DEF AddNamed, Of

\* Named filters the fields.
LEMMA NamedIs ==
  ASSUME NEW head, NEW names
  PROVE  Named(head, names) = Filtered(names, Fields(head))
BY DEF Named, Filtered

\* Names of fields begin no line that continues one.
Fieldlike(names) == " " \notin names

\* A line that continues a field has none of the names.
LEMMA FoldNames ==
  \A names, line : Fieldlike(names) /\ IsFold(line) => line[1] \notin names
BY Zenon DEF Fieldlike, IsFold

\* ... nor the one name.
LEMMA FoldName ==
  \A name, line : Fieldlike({name}) /\ IsFold(line) => ~IsField(line, name)
BY FoldNames, Zenon DEF IsField

\* A name of a field.
LEMMA OfLine ==
  ASSUME NEW line \in Seq(Letter), NEW names
  PROVE  Of(names, <<line>>) <=> line # << >> /\ line[1] \in names
<1>1. <<line>>[1] = line
  OBVIOUS
<1> QED
  BY <1>1 DEF Of

\* The fields with the names, of a header with one line more.
LEMMA NamedAppend ==
  ASSUME NEW head \in Header, NEW line \in Seq(Letter), NEW names
  PROVE  /\ Named(<< >>, names) = << >> /\ Named(head, names) \in Seq(OneField)
         /\ ~IsFold(line) => Named(Append(head, line), names)
                               = IF line # << >> /\ line[1] \in names THEN Append(Named(head, names), <<line>>)
                                                                      ELSE Named(head, names)
         /\ IsFold(line) /\ Fieldlike(names) => (Named(Append(head, line), names) = << >> <=> Named(head, names) = << >>)
<1> DEFINE F == Fields(head)
           N == Filtered(names, F)
<1>1. F \in Seq(OneField) /\ Fields(<< >>) = << >> /\ Fields(Append(head, line)) = AddToFields(F, line)
  BY FieldsAppend
<1> HIDE DEF F
<1>2. /\ Filtered(names, << >>) = << >> /\ N \in Seq(OneField)
      /\ \A f \in OneField : Filtered(names, Append(F, f)) = IF Of(names, f) THEN Append(N, f) ELSE N
  BY <1>1, FilteredAppend
<1>3. PICK f \in OneField : f = <<line>>
  BY FieldGrows
<1>4. Of(names, f) <=> line # << >> /\ line[1] \in names
  BY <1>3, OfLine
<1>5. ASSUME ~IsFold(line) \/ F = << >>
      PROVE  Filtered(names, AddToFields(F, line)) = IF Of(names, f) THEN Append(N, f) ELSE N
  BY <1>1, <1>2, <1>3, <1>5, AddToFieldsIs
<1>6. ASSUME IsFold(line), Fieldlike(names)
      PROVE  Filtered(names, AddToFields(F, line)) = << >> <=> N = << >>
  <2>1. CASE F = << >>
    <3>1. ~Of(names, f)
      BY <1>4, <1>6, FoldNames
    <3> QED
      BY <1>5, <2>1, <3>1
  <2>2. CASE F # << >>
    <3>1. PICK r \in Seq(OneField), g \in OneField : F = Append(r, g)
      BY <1>1, <2>2, SequenceEmptyOrAppend
    <3>2. PICK h \in OneField : h = Append(g, line)
      BY FieldGrows
    <3>3. AddToFields(F, line) = Append(r, h)
      <4>1. \A fs \in Seq(OneField) : \A t \in Seq(OneField), f2 \in OneField :
              IsFold(line) /\ fs = Append(t, f2) => AddToFields(fs, line) = Append(t, Append(f2, line))
        BY AddToFieldsIs
      <4> QED
        BY <1>1, <1>6, <3>1, <3>2, <4>1
    <3>4. Of(names, h) <=> Of(names, g)
      BY <3>2, FieldFirst DEF Of
    <3>5. /\ N = IF Of(names, g) THEN Append(Filtered(names, r), g) ELSE Filtered(names, r)
          /\ Filtered(names, Append(r, h)) = IF Of(names, h) THEN Append(Filtered(names, r), h) ELSE Filtered(names, r)
          /\ Filtered(names, r) \in Seq(OneField)
      BY <3>1, FilteredAppend
    <3>6. Append(Filtered(names, r), g) # << >> /\ Append(Filtered(names, r), h) # << >>
      BY <3>5, AppendProperties
    <3> QED
      BY <3>3, <3>4, <3>5, <3>6
  <2> QED
    BY <2>1, <2>2
<1>7. /\ Named(<< >>, names) = Filtered(names, << >>) /\ Named(head, names) = N
      /\ Named(Append(head, line), names) = Filtered(names, AddToFields(F, line))
  BY <1>1, NamedIs DEF F
<1> HIDE DEF N
<1> QED
  BY <1>2, <1>3, <1>4, <1>5, <1>6, <1>7

\* No line has the field.
LEMMA FieldsNamedNone == \A name : FieldsNamed(<< >>, name) = {}
<1>1. 1 .. Len(<< >>) = {}
  BY EmptySeq
<1> QED
  BY <1>1, Zenon DEF FieldsNamed

\* One line more, with the field or not.
LEMMA FieldsNamedAppend ==
  ASSUME NEW X, NEW h \in Seq(X), NEW line \in X, NEW name
  PROVE  FieldsNamed(Append(h, line), name) = {} <=> FieldsNamed(h, name) = {} /\ ~IsField(line, name)
<1>1. PICK n \in Nat : n = Len(h)
  BY LenProperties
<1> DEFINE q == Append(h, line)
<1>2. Len(q) = n + 1 /\ q[n + 1] = line /\ \A i \in 1 .. n : q[i] = h[i]
  BY <1>1, AppendProperties
<1> HIDE DEF q
<1>3. \A i : i \in 1 .. n + 1 <=> i \in 1 .. n \/ i = n + 1
  OBVIOUS
<1>4. \A i : i \in FieldsNamed(q, name) <=> i \in FieldsNamed(h, name) \/ (i = n + 1 /\ IsField(line, name))
  BY <1>1, <1>2, <1>3, Zenon DEF FieldsNamed
<1> QED
  BY <1>4 DEF q

\* Whether a header has a field.
LEMMA NamedNone ==
  ASSUME NEW head \in Header, NEW name, Fieldlike({name})
  PROVE  Named(head, {name}) = << >> <=> FieldsNamed(head, name) = {}
<1> DEFINE X == Seq(Letter)
           T == {h \in Seq(X) : Named(h, {name}) = << >> <=> FieldsNamed(h, name) = {}}
<1>1. << >> \in T
  <2>1. << >> \in Seq(X) /\ << >> \in Header /\ << >> \in Seq(Letter)
    BY EmptySeq DEF Header
  <2>2. Named(<< >>, {name}) = << >>
    <3>1. PICK names : names = {name}
      OBVIOUS
    <3>2. Named(<< >>, names) = << >>
      BY <2>1, NamedAppend
    <3> QED
      BY <3>1, <3>2
  <2>3. FieldsNamed(<< >>, name) = {}
    BY FieldsNamedNone
  <2> QED
    BY <2>1, <2>2, <2>3
<1>2. ASSUME NEW h \in Seq(X), NEW line \in X, h \in T
      PROVE  Append(h, line) \in T
  <2>1. h \in Header /\ line \in Seq(Letter) /\ (Named(h, {name}) = << >> <=> FieldsNamed(h, name) = {})
    BY <1>2 DEF Header
  <2>2. Append(h, line) \in Seq(X)
    <3> HIDE DEF X
    <3> QED
      BY <1>2, AppendProperties
  <2>3. FieldsNamed(Append(h, line), name) = {} <=> FieldsNamed(h, name) = {} /\ ~IsField(line, name)
    <3> HIDE DEF X
    <3> QED
      BY <1>2, FieldsNamedAppend
  <2>4. CASE IsFold(line)
    <3>1. ~IsField(line, name)
      BY <2>4, FoldName
    <3> QED
      BY <2>1, <2>2, <2>3, <2>4, <3>1, NamedAppend
  <2>5. CASE ~IsFold(line)
    <3>1. Named(Append(h, line), {name}) = IF IsField(line, name) THEN Append(Named(h, {name}), <<line>>)
                                                                  ELSE Named(h, {name})
      <4>1. Named(Append(h, line), {name})
              = IF line # << >> /\ line[1] \in {name} THEN Append(Named(h, {name}), <<line>>) ELSE Named(h, {name})
        <5>1. PICK names : names = {name}
          OBVIOUS
        <5>2. Named(Append(h, line), names)
                = IF line # << >> /\ line[1] \in names THEN Append(Named(h, names), <<line>>) ELSE Named(h, names)
          <6> HIDE DEF T, X
          <6>1. \A g \in Header : \A r \in Seq(Letter) :
                  ~IsFold(r) => Named(Append(g, r), names)
                                  = IF r # << >> /\ r[1] \in names THEN Append(Named(g, names), <<r>>) ELSE Named(g, names)
            BY NamedAppend
          <6> QED
            BY <2>1, <2>5, <6>1
        <5> QED
          BY <5>1, <5>2
      <4>2. line # << >> /\ line[1] \in {name} <=> IsField(line, name)
        BY DEF IsField
      <4> QED
        BY <4>1, <4>2, Zenon
    <3>2. Append(Named(h, {name}), <<line>>) # << >>
      <4>1. PICK N \in Seq(OneField), f \in OneField : N = Named(h, {name}) /\ f = <<line>>
        BY <2>1, NamedAppend, FieldGrows
      <4>2. Append(N, f) # << >>
        BY AppendProperties
      <4> QED
        BY <4>1, <4>2
    <3> QED
      BY <2>1, <2>2, <2>3, <3>1, <3>2
  <2> QED
    BY <2>4, <2>5
<1>3. Seq(X) \subseteq T
  <2> HIDE DEF X, T
  <2> QED
    BY <1>1, <1>2, SequenceInduction
<1> QED
  BY <1>3 DEF Header

\* GetHeaderIndex finds a field where there is one.
LEMMA IndexNamed ==
  ASSUME NEW head \in Header, NEW name, Fieldlike({name})
  PROVE  /\ GetHeaderIndex(head, name) \in 0 .. Len(head)
         /\ GetHeaderIndex(head, name) = 0 <=> Named(head, {name}) = << >>
         /\ GetHeaderIndex(head, name) = 0 <=> \A j \in 1 .. Len(head) : ~IsField(head[j], name)
<1>1. Len(head) \in Nat
  BY LenProperties DEF Header
<1>2. IsFirst(GetHeaderIndex(head, name), FieldsNamed(head, name))
  BY <1>1, GetHeaderIndexIs
<1>0. PICK n \in Nat : n = Len(head)
  BY <1>1
<1>3. FieldsNamed(head, name) \subseteq 1 .. n /\ 0 \notin FieldsNamed(head, name)
  <2>1. FieldsNamed(head, name) \subseteq 1 .. n
    BY <1>0 DEF FieldsNamed
  <2>2. 0 \notin 1 .. n
    OBVIOUS
  <2> QED
    BY <2>1, <2>2
<1>4. FieldsNamed(head, name) = {} <=> \A j \in 1 .. n : ~IsField(head[j], name)
  <2>1. \A j : j \in FieldsNamed(head, name) <=> j \in 1 .. n /\ IsField(head[j], name)
    BY <1>0, Zenon DEF FieldsNamed
  <2> QED
    BY <2>1, Zenon
<1>5. GetHeaderIndex(head, name) = 0 <=> FieldsNamed(head, name) = {}
  BY <1>2, <1>3 DEF IsFirst
<1>6. GetHeaderIndex(head, name) \in 0 .. n
  <2>1. CASE FieldsNamed(head, name) = {}
    <3>1. 0 \in 0 .. n
      OBVIOUS
    <3> QED
      BY <1>5, <2>1, <3>1
  <2>2. CASE FieldsNamed(head, name) # {}
    <3>1. GetHeaderIndex(head, name) \in 1 .. n
      BY <1>2, <1>3, <2>2 DEF IsFirst
    <3>2. 1 .. n \subseteq 0 .. n
      OBVIOUS
    <3> QED
      BY <3>1, <3>2
  <2> QED
    BY <2>1, <2>2
<1>7. Named(head, {name}) = << >> <=> FieldsNamed(head, name) = {}
  BY NamedNone
<1> QED
  BY <1>0, <1>4, <1>5, <1>6, <1>7

-----------------------------------------------------------------------------
(* What Finish makes of the article.                                       *)

\* A line without line ends has letters only.
LEMMA PlainLetters ==
  \A line \in Seq(Char) : Plain(line) => line \in Seq(Letter)
<1>1. SUFFICES ASSUME NEW line \in Seq(Char), Plain(line)
               PROVE  line \in Seq(Letter)
  OBVIOUS
<1>2. PICK n \in Nat : n = Len(line) /\ DOMAIN line = 1 .. n
  BY LenProperties
<1>3. \A j \in 1 .. n : line[j] \in Letter
  <2>1. \A j \in 1 .. n : line[j] \in Char
    BY <1>2, ElementOfSeq
  <2> QED
    BY <1>1, <1>2, <2>1 DEF Plain, Letter
<1>4. line = [j \in 1 .. n |-> line[j]]
  BY <1>2
<1> QED
  BY <1>3, <1>4

\* What is sent, and what the gateway puts before it, are lines of letters.
LEMMA SentHeader ==
  ASSUME TypeOK
  PROVE  sent \in Header /\ Before \in Header
<1>1. ASSUME NEW s \in Seq(Seq(Char)), \A i \in 1 .. Len(s) : Plain(s[i])
      PROVE  s \in Header
  <2>1. PICK n \in Nat : n = Len(s) /\ DOMAIN s = 1 .. n /\ s = [i \in 1 .. n |-> s[i]]
    <3> DEFINE X == Seq(Char)
    <3>1. s \in Seq(X)
      OBVIOUS
    <3> HIDE DEF X
    <3>2. PICK n \in Nat : n = Len(s) /\ DOMAIN s = 1 .. n
      BY <3>1, LenProperties
    <3>3. s = [i \in 1 .. n |-> s[i]]
      BY <3>1, <3>2
    <3> QED
      BY <3>2, <3>3
  <2>2. \A i \in 1 .. n : s[i] \in Seq(Letter)
    <3>1. \A i \in 1 .. n : s[i] \in Seq(Char)
      BY <2>1, ElementOfSeq
    <3> QED
      BY <1>1, <2>1, <3>1, PlainLetters
  <2> DEFINE Y == Seq(Letter)
  <2>3. \A i \in 1 .. n : s[i] \in Y
    BY <2>2
  <2> HIDE DEF Y
  <2>4. s \in Seq(Y)
    <3>1. s \in [1 .. n -> Y]
      BY <2>1, <2>3
    <3> HIDE DEF Y
    <3>2. [1 .. n -> Y] \subseteq Seq(Y)
      OBVIOUS
    <3> QED
      BY <3>1, <3>2
  <2> QED
    BY <2>4 DEF Y, Header
<1>2. sent \in Header
  BY <1>1, SentType
<1>3. Gateway \in Header
  BY <1>1, GatewayType, GatewayLines, LenProperties
<1>4. << >> \in Header
  BY EmptySeq DEF Header
<1> QED
  BY <1>2, <1>3, <1>4 DEF Before

\* The header and the body that the sender means are what ParseArticle finds.
LEMMA MeantIs ==
  ASSUME TypeOK
  PROVE  /\ Meant \in Header /\ Len(Meant) # 0
         /\ MeantHead \in Header /\ MeantBody \in Header
         /\ LinesOf(msg) = Meant => ParseArticle(msg).head = MeantHead /\ ParseArticle(msg).body = MeantBody
<1> DEFINE X == Seq(Letter)
<1>1. sent \in Seq(X) /\ Len(sent) \in Nat \ {0} /\ Before \in Seq(X) /\ << >> \in X
  BY SentType, SentHeader, EmptySeq DEF Header
<1>2. Meant \in Seq(X) /\ Len(Meant) # 0
  <2>1. CASE how.via = "POST"
    BY <1>1, <2>1 DEF Meant
  <2>2. CASE how.via # "POST"
    <3>1. Meant = Before \o sent
      BY <2>2 DEF Meant, Before
    <3> HIDE DEF X
    <3>2. PICK q : q = Before \o sent /\ ConcatOf(X, Before, sent, q)
      BY <1>1, ConcatIs
    <3>3. Len(Before) \in Nat
      BY <1>1, LenProperties
    <3> QED
      BY <1>1, <3>1, <3>2, <3>3 DEF ConcatOf
  <2> QED
    BY <2>1, <2>2
<1>3. PICK lines \in Seq(X) : lines = Meant /\ Len(lines) # 0
  BY <1>2
<1>4. Closed = WithEnd(lines)
  BY <1>3 DEF Closed, WithEnd
<1> DEFINE k == HeadSize(lines)
           h == SubSeq(lines, 1, k)
           b == SubSeq(lines, k + 2, Len(lines))
<1>5. h = IF lines[1] = << >> THEN << << >> >> \o HeadOf(Tail(WithEnd(lines))) ELSE HeadOf(WithEnd(lines))
  <2> HIDE DEF X
  <2> QED
    BY <1>1, <1>3, HeadIs
<1>6. MeantHead = h
  BY <1>3, <1>4, <1>5 DEF MeantHead
<1>7. k \in 1 .. Len(lines) /\ Len(lines) \in Nat
  <2> HIDE DEF X
  <2> QED
    BY <1>1, <1>3, HeadSizeIs
<1>8. \A i \in 1 .. Len(lines) : lines[i] \in X
  <2> HIDE DEF X
  <2> QED
    BY <1>3, ElementOfSeq
<1> HIDE DEF k
<1>9. h \in Seq(X) /\ Len(h) = k
  <2> HIDE DEF X
  <2>1. \A i \in 1 .. k : lines[i] \in X
    BY <1>7, <1>8
  <2>2. h \in Seq(X) /\ Len(h) = IF 1 <= k THEN k - 1 + 1 ELSE 0
    BY <1>7, <2>1, SubSeqProperties
  <2> HIDE DEF h
  <2> QED
    BY <1>7, <2>2
<1>10. b \in Seq(X)
  <2> HIDE DEF X
  <2>1. \A i \in k + 2 .. Len(lines) : lines[i] \in X
    <3>1. \A i \in k + 2 .. Len(lines) : i \in 1 .. Len(lines)
      BY <1>7
    <3> QED
      BY <1>8, <3>1
  <2> QED
    BY <1>7, <2>1, SubSeqProperties
<1>11. MeantBody = b
  <2>1. b = SubSeq(WithEnd(lines), k + 2, Len(WithEnd(lines)))
    <3> HIDE DEF X
    <3> QED
      BY <1>1, <1>3, ClosedIs DEF k
  <2>2. MeantBody = SubSeq(Closed, Len(MeantHead) + 2, Len(Closed))
    BY DEF MeantBody
  <2> HIDE DEF h, b
  <2> QED
    BY <1>4, <1>6, <1>9, <2>1, <2>2
<1>12. ASSUME LinesOf(msg) = Meant
       PROVE  ParseArticle(msg).head = MeantHead /\ ParseArticle(msg).body = MeantBody
  <2>1. ParseArticle(msg) = [head |-> h, body |-> b]
    BY <1>3, <1>12 DEF ParseArticle, k
  <2> HIDE DEF h, b
  <2> QED
    BY <1>6, <1>11, <2>1
<1> HIDE DEF h, b
<1> QED
  BY <1>2, <1>6, <1>9, <1>10, <1>11, <1>12 DEF Header

\* When all has been read, the text is what was sent, unless it was too long.
LEMMA AllReadIs ==
  ASSUME TypeOK, Read(Len(sent), 0)
  PROVE  /\ toolong <=> how.postlimit > 0 /\ LineCount(sent) > how.postlimit
         /\ ~toolong => LinesOf(msg) = Meant
<1>1. sent \in Seq(Seq(Char)) /\ Len(sent) \in Nat /\ how.postlimit \in Nat
  BY SentType
<1>2. SubSeq(sent, 1, Len(sent)) = sent
  <2> DEFINE X == Seq(Char)
  <2>1. sent \in Seq(X)
    BY <1>1
  <2> HIDE DEF X
  <2> QED
    BY <2>1, SubSeqFull
<1>3. linecount = LineCount(sent)
  <2>1. LineCount(sent) \in Nat
    BY <1>1, LineCountAppend
  <2>2. PICK q \in Nat : q = 0 \div (LineWidth + 1) /\ q = 0
    BY DivMod
  <2>3. linecount = LineCount(sent) + q
    BY <1>2, <2>2 DEF Read
  <2> QED
    BY <2>1, <2>2, <2>3
<1>4. ASSUME ~toolong
      PROVE  LinesOf(msg) = Meant
  <2>1. LinesOf(msg) = Before \o sent
    BY <1>2, <1>4, ParsedFold DEF Read
  <2>2. CASE how.via = "POST"
    BY <1>1, <2>1, <2>2, ConcatEmptySeq DEF Before, Meant
  <2>3. CASE how.via # "POST"
    BY <2>1, <2>3 DEF Before, Meant
  <2> QED
    BY <2>2, <2>3
<1> QED
  BY <1>3, <1>4 DEF Read

\* GetHeaderIndex finds the first line with the field.
LEMMA IndexNone ==
  ASSUME NEW s, NEW name, NEW n \in Nat, n = Len(s)
  PROVE  /\ GetHeaderIndex(s, name) \in 0 .. n
         /\ GetHeaderIndex(s, name) = 0 <=> \A j \in 1 .. n : ~IsField(s[j], name)
         /\ GetHeaderIndex(s, name) # 0 => /\ IsField(s[GetHeaderIndex(s, name)], name)
                                           /\ \A j \in 1 .. n : IsField(s[j], name) => GetHeaderIndex(s, name) <= j
<1> DEFINE T == FieldsNamed(s, name)
           i == GetHeaderIndex(s, name)
<1>1. IsFirst(i, T)
  BY GetHeaderIndexIs
<1>2. \A j : j \in T <=> j \in 1 .. n /\ IsField(s[j], name)
  BY Zenon DEF FieldsNamed
<1> HIDE DEF T, i
<1>3. 0 \notin 1 .. n /\ 0 \in 0 .. n /\ 1 .. n \subseteq 0 .. n
  OBVIOUS
<1>4. CASE T = {}
  <2>1. i = 0
    BY <1>1, <1>4 DEF IsFirst
  <2> QED
    BY <1>2, <1>3, <1>4, <2>1 DEF i
<1>5. CASE T # {}
  <2>1. i \in T /\ \A j \in T : i <= j
    BY <1>1, <1>5 DEF IsFirst
  <2>2. i \in 1 .. n /\ IsField(s[i], name) /\ i # 0 /\ i \in 0 .. n
    BY <1>2, <1>3, <2>1
  <2>3. \A j \in 1 .. n : IsField(s[j], name) => i <= j
    BY <1>2, <2>1
  <2> QED
    BY <2>2, <2>3 DEF i
<1> QED
  BY <1>4, <1>5

-----------------------------------------------------------------------------
(* UpdatePath.                                                             *)

\* A line of a list that this server is put before.
Rested(line) == IF Len(line) > 1 /\ line[2] = " " THEN SubSeq(line, 3, Len(line)) ELSE Tail(line)
PathLine == <<"Path:", " ", "here">>
Pathed(line) == IF IsField(line, "Path:") THEN PathLine \o Rested(line) ELSE line

\* The Path line of this server.
LEMMA PathLineType == PathLine \in Seq(Letter) /\ Len(PathLine) = 3 /\ PathLine[1] = "Path:"
<1> DEFINE a == "Path:"
           b == " "
           c == "here"
<1>1. a \in Letter /\ b \in Letter /\ c \in Letter
  BY DEF Letter, Char, Names, Mailed
<1>2. PathLine = <<a, b, c>>
  BY DEF PathLine
<1> HIDE DEF a, b, c
<1>3. <<a, b, c>> \in Seq(Letter) /\ Len(<<a, b, c>>) = 3 /\ <<a, b, c>>[1] = a
  BY <1>1
<1> QED
  BY <1>2, <1>3 DEF a

\* A line without its first character.
LEMMA TailType ==
  ASSUME NEW X, NEW line \in Seq(X), line # << >>
  PROVE  Tail(line) \in Seq(X)
BY HeadTailProperties

\* A line from a character on.
LEMMA SuffixType ==
  ASSUME NEW X, NEW line \in Seq(X), NEW i \in Nat \ {0}
  PROVE  SubSeq(line, i, Len(line)) \in Seq(X)
<1>1. PICK n \in Nat : n = Len(line)
  BY LenProperties
<1>2. \A j \in i .. n : line[j] \in X
  <2>1. \A j \in i .. n : j \in 1 .. n
    OBVIOUS
  <2> QED
    BY <1>1, <2>1, ElementOfSeq
<1> QED
  BY <1>1, <1>2, SubSeqProperties

\* A line with this server put before the list is a line of the same field.
LEMMA PathedType ==
  ASSUME NEW line \in Seq(Letter)
  PROVE  /\ Pathed(line) \in Seq(Letter)
         /\ IsField(line, "Path:") => Pathed(line) # << >> /\ Pathed(line)[1] = "Path:"
<1>1. ASSUME IsField(line, "Path:")
      PROVE  Pathed(line) \in Seq(Letter) /\ Pathed(line) # << >> /\ Pathed(line)[1] = "Path:"
  <2>1. line # << >>
    BY <1>1 DEF IsField
  <2>2. Tail(line) \in Seq(Letter) /\ SubSeq(line, 3, Len(line)) \in Seq(Letter)
    BY <2>1, TailType, SuffixType
  <2>3. Rested(line) \in Seq(Letter)
    BY <2>2, Zenon DEF Rested
  <2>4. PICK r \in Seq(Letter) : r = Rested(line)
    BY <2>3
  <2>5. PICK p \in Seq(Letter) : p = PathLine /\ Len(p) = 3 /\ p[1] = "Path:"
    BY PathLineType
  <2>6. PICK q : q = p \o r /\ ConcatOf(Letter, p, r, q)
    BY ConcatIs
  <2>7. Len(r) \in Nat
    BY LenProperties
  <2>8. q \in Seq(Letter) /\ Len(q) # 0 /\ q[1] = "Path:"
    BY <2>5, <2>6, <2>7 DEF ConcatOf
  <2>9. q # << >>
    BY <2>8, EmptySeq
  <2>10. Pathed(line) = q
    BY <1>1, <2>4, <2>5, <2>6 DEF Pathed
  <2> QED
    BY <2>8, <2>9, <2>10
<1> QED
  BY <1>1 DEF Pathed

\* A function that keeps the type of each line.
LEMMA LinesType ==
  ASSUME NEW X, NEW s \in Seq(X), NEW g, DOMAIN g = DOMAIN s, g = [t \in DOMAIN s |-> g[t]],
         \A t \in 1 .. Len(s) : g[t] \in X
  PROVE  g \in Seq(X) /\ Len(g) = Len(s)
<1>1. PICK n \in Nat : n = Len(s) /\ DOMAIN s = 1 .. n
  BY LenProperties
<1>2. g \in [1 .. n -> X]
  BY <1>1
<1> QED
  BY <1>1, <1>2

\* UpdatePath adds or takes away no field but Path.
LEMMA UpdatePathIs ==
  ASSUME NEW head \in Header
  PROVE  /\ UpdatePath(head) \in Header
         /\ \A name \in Names \ {"Path:"} :
              GetHeaderIndex(UpdatePath(head), name) = 0 <=> GetHeaderIndex(head, name) = 0
<1> DEFINE X == Seq(Letter)
           known == [t \in DOMAIN head |-> Pathed(head[t])]
           whole == UpdatePath(head)
<1>1. PICK n \in Nat : n = Len(head) /\ DOMAIN head = 1 .. n
  BY LenProperties DEF Header
<1>2. \A t \in 1 .. n : head[t] \in Seq(Letter) /\ Pathed(head[t]) \in Seq(Letter)
  <2>1. \A t \in 1 .. n : head[t] \in X
    <3>1. head \in Seq(X)
      BY DEF Header
    <3> HIDE DEF X
    <3> QED
      BY <1>1, <3>1, ElementOfSeq
  <2> QED
    BY <2>1, PathedType
<1>3. known \in Seq(X) /\ Len(known) = n /\ \A t \in 1 .. n : known[t] = Pathed(head[t])
  <2>1. head \in Seq(X) /\ \A t \in 1 .. n : Pathed(head[t]) \in X
    BY <1>2 DEF Header
  <2> HIDE DEF X
  <2>2. DOMAIN known = DOMAIN head /\ known = [t \in DOMAIN head |-> known[t]] /\ \A t \in 1 .. n : known[t] = Pathed(head[t])
    BY <1>1
  <2>3. \A t \in 1 .. Len(head) : known[t] \in X
    BY <1>1, <2>1, <2>2
  <2> HIDE DEF known
  <2> QED
    BY <1>1, <2>1, <2>2, <2>3, LinesType
<1>4. whole = IF GetHeaderIndex(head, "Path:") # 0 THEN known ELSE Append(known, PathLine)
  BY DEF UpdatePath, Pathed, Rested, PathLine
<1> HIDE DEF known, whole
<1>5. PICK line \in X : line = PathLine /\ line[1] = "Path:"
  BY PathLineType
<1>6. whole \in Seq(X) /\ Len(whole) \in Nat /\ Len(whole) \in {n, n + 1} /\ \A t \in 1 .. n : whole[t] = known[t]
  <2> HIDE DEF X
  <2>1. CASE GetHeaderIndex(head, "Path:") # 0
    BY <1>3, <1>4, <2>1
  <2>2. CASE GetHeaderIndex(head, "Path:") = 0
    BY <1>3, <1>4, <1>5, <2>2, AppendProperties
  <2> QED
    BY <2>1, <2>2
<1>7. Len(whole) = n + 1 => whole[n + 1] = PathLine
  <2> HIDE DEF X
  <2>1. CASE GetHeaderIndex(head, "Path:") # 0
    BY <1>3, <1>4, <2>1
  <2>2. CASE GetHeaderIndex(head, "Path:") = 0
    BY <1>3, <1>4, <1>5, <2>2, AppendProperties
  <2> QED
    BY <2>1, <2>2
<1>8. ASSUME NEW name \in Names \ {"Path:"}
      PROVE  GetHeaderIndex(whole, name) = 0 <=> GetHeaderIndex(head, name) = 0
  <2>1. \A t \in 1 .. n : IsField(whole[t], name) <=> IsField(head[t], name)
    <3> TAKE t \in 1 .. n
    <3>1. whole[t] = Pathed(head[t]) /\ head[t] \in Seq(Letter)
      BY <1>2, <1>3, <1>6
    <3>2. CASE IsField(head[t], "Path:")
      BY <3>1, <3>2, PathedType DEF IsField
    <3>3. CASE ~IsField(head[t], "Path:")
      BY <3>1, <3>3, Zenon DEF Pathed
    <3> QED
      BY <3>2, <3>3
  <2>2. ~IsField(PathLine, name)
    BY PathLineType DEF IsField
  <2>3. PICK m \in Nat : m = Len(whole) /\ m \in {n, n + 1}
    BY <1>6
  <2>4. /\ GetHeaderIndex(whole, name) = 0 <=> \A j \in 1 .. m : ~IsField(whole[j], name)
        /\ GetHeaderIndex(head, name) = 0 <=> \A j \in 1 .. n : ~IsField(head[j], name)
    BY <1>1, <2>3, IndexNone
  <2>5. \A j : j \in 1 .. m <=> j \in 1 .. n \/ (m = n + 1 /\ j = n + 1)
    BY <2>3
  <2>6. \A j \in 1 .. m : IsField(whole[j], name) => j \in 1 .. n
    BY <1>7, <2>2, <2>3, <2>5, Zenon
  <2> QED
    BY <2>1, <2>4, <2>5, <2>6, Zenon
<1> QED
  BY <1>6, <1>8 DEF whole, Header

\* The first lines of a header.
LEMMA PrefixType ==
  ASSUME NEW X, NEW s \in Seq(X), NEW k \in Nat, k <= Len(s)
  PROVE  SubSeq(s, 1, k) \in Seq(X)
<1>1. PICK n \in Nat : n = Len(s)
  BY LenProperties
<1>2. \A j \in 1 .. k : j \in 1 .. n
  BY <1>1
<1>3. \A j \in 1 .. k : s[j] \in X
  BY <1>1, <1>2, ElementOfSeq
<1> QED
  BY <1>3, SubSeqProperties

\* A line as the gateway renames it.
OriginalFrom == <<"X-Original-From:", " ">>
Renamed(line) == IF IsField(line, "From ") THEN OriginalFrom \o Tail(line) ELSE line

\* The name that the gateway gives the envelope's line.
LEMMA OriginalFromType ==
  OriginalFrom \in Seq(Letter) /\ Len(OriginalFrom) = 2 /\ OriginalFrom[1] = "X-Original-From:"
<1> DEFINE a == "X-Original-From:"
           b == " "
<1>1. a \in Letter /\ b \in Letter
  BY DEF Letter, Char, Names
<1>2. OriginalFrom = <<a, b>>
  BY DEF OriginalFrom
<1> HIDE DEF a, b
<1>3. <<a, b>> \in Seq(Letter) /\ Len(<<a, b>>) = 2 /\ <<a, b>>[1] = a
  BY <1>1
<1> QED
  BY <1>2, <1>3 DEF a

\* A renamed line is a line.
LEMMA RenamedType ==
  ASSUME NEW line \in Seq(Letter)
  PROVE  /\ Renamed(line) \in Seq(Letter)
         /\ IsField(line, "From ") => Renamed(line) # << >> /\ Renamed(line)[1] = "X-Original-From:"
<1>1. ASSUME IsField(line, "From ")
      PROVE  Renamed(line) \in Seq(Letter) /\ Renamed(line) # << >> /\ Renamed(line)[1] = "X-Original-From:"
  <2>1. line # << >>
    BY <1>1 DEF IsField
  <2>2. PICK r \in Seq(Letter) : r = Tail(line)
    BY <2>1, TailType
  <2>3. PICK p \in Seq(Letter) : p = OriginalFrom /\ Len(p) = 2 /\ p[1] = "X-Original-From:"
    BY OriginalFromType
  <2>4. PICK q : q = p \o r /\ ConcatOf(Letter, p, r, q)
    BY ConcatIs
  <2>5. Len(r) \in Nat
    BY LenProperties
  <2>6. q \in Seq(Letter) /\ Len(q) # 0 /\ q[1] = "X-Original-From:"
    BY <2>3, <2>4, <2>5 DEF ConcatOf
  <2>7. q # << >>
    BY <2>6, EmptySeq
  <2>8. Renamed(line) = q
    BY <1>1, <2>2, <2>3, <2>4 DEF Renamed
  <2> QED
    BY <2>6, <2>7, <2>8
<1> QED
  BY <1>1 DEF Renamed

\* The gateway renames line by line.
LEMMA MassagedIs ==
  ASSUME NEW head \in Header
  PROVE  /\ Massaged(head) \in Header /\ Len(Massaged(head)) = Len(head)
         /\ \A t \in 1 .. Len(head) : Massaged(head)[t] = Renamed(head[t])
<1> DEFINE X == Seq(Letter)
           g == [t \in DOMAIN head |-> Renamed(head[t])]
<1>1. PICK n \in Nat : n = Len(head) /\ DOMAIN head = 1 .. n
  BY LenProperties DEF Header
<1>2. \A t \in 1 .. n : Renamed(head[t]) \in X
  <2>1. \A t \in 1 .. n : head[t] \in X
    <3>1. head \in Seq(X)
      BY DEF Header
    <3> HIDE DEF X
    <3> QED
      BY <1>1, <3>1, ElementOfSeq
  <2> QED
    BY <2>1, RenamedType
<1>3. g = Massaged(head)
  BY DEF Massaged, Renamed, OriginalFrom
<1>4. head \in Seq(X)
  BY DEF Header
<1> HIDE DEF X
<1>5. DOMAIN g = DOMAIN head /\ g = [t \in DOMAIN head |-> g[t]] /\ \A t \in 1 .. n : g[t] = Renamed(head[t])
  BY <1>1
<1>6. \A t \in 1 .. Len(head) : g[t] \in X
  BY <1>1, <1>2, <1>5
<1> HIDE DEF g
<1>7. g \in Seq(X) /\ Len(g) = Len(head)
  BY <1>4, <1>5, <1>6, LinesType
<1> QED
  BY <1>1, <1>3, <1>5, <1>7 DEF X, Header

\* Two headers, one behind the other.
LEMMA HeaderConcat ==
  \A a, b \in Header : a \o b \in Header
<1> DEFINE X == Seq(Letter)
<1>1. \A a, b \in Seq(X) : a \o b \in Seq(X)
  <2> HIDE DEF X
  <2> QED
    BY ConcatProperties
<1> QED
  BY <1>1 DEF Header

\* The file has lines, one at least.
LEMMA FileOfType ==
  ASSUME NEW head \in Header, NEW body \in Header
  PROVE  FileOf(head, body) \in Header /\ FileOf(head, body) # << >>
<1> DEFINE X == Seq(Letter)
<1>1. PICK e \in X : e = << >>
  BY EmptySeq
<1>2. head \in Seq(X) /\ body \in Seq(X)
  BY DEF Header
<1> HIDE DEF X
<1> DEFINE s == <<e>>
<1>3. s \in Seq(X) /\ Len(s) = 1
  OBVIOUS
<1> HIDE DEF s
<1>4. PICK p : p = head \o s /\ ConcatOf(X, head, s, p)
  <2>1. head \in Seq(X) /\ s \in Seq(X)
    BY <1>2, <1>3
  <2>2. ConcatOf(X, head, s, head \o s)
    BY ONLY <2>1, ConcatIs
  <2> QED
    BY <2>2
<1>5. PICK q : q = p \o body /\ ConcatOf(X, p, body, q)
  <2>1. p \in Seq(X) /\ body \in Seq(X)
    BY <1>2, <1>4 DEF ConcatOf
  <2>2. ConcatOf(X, p, body, p \o body)
    BY ONLY <2>1, ConcatIs
  <2> QED
    BY <2>2
<1>6. Len(head) \in Nat /\ Len(body) \in Nat
  BY <1>2, LenProperties
<1>7. q \in Seq(X) /\ Len(q) # 0
  BY <1>3, <1>4, <1>5, <1>6 DEF ConcatOf
<1>8. q # << >>
  BY <1>7, EmptySeq
<1>9. FileOf(head, body) = q
  BY <1>1, <1>4, <1>5 DEF FileOf, s
<1> QED
  BY <1>7, <1>8, <1>9 DEF X, Header

-----------------------------------------------------------------------------
(* Which articles are refused.                                             *)

TooMany == how.postlimit > 0 /\ LineCount(sent) > how.postlimit
Loop == how.via = "mail" /\ Named(MeantHead, {"X-Loop:"}) # << >>
Lacking == how.via = "POST" /\ (~how.postok \/ Named(MeantHead, {"Newsgroups:"}) = << >>)

\* The names that the code looks for begin no line that continues another.
LEMMA FieldlikeNames == \A name \in Names : Fieldlike({name}) /\ name # " "
BY Zenon DEF Fieldlike, Names, Loaded, Mailed

\* Finish refuses an article for these reasons.
LEMMA FinishRefuses ==
  ASSUME TypeOK, Read(Len(sent), 0), dead = << >>, Finish
  PROVE  /\ pc' = "rejected" <=> TooMany \/ Loop \/ Lacking
         /\ dead' # << >> <=> Loop /\ ~TooMany
<1>1. toolong <=> TooMany
  BY AllReadIs DEF TooMany
<1>2. how.via \in {"POST", "mail"} /\ how.postok \in BOOLEAN
  BY SentType
<1>3. CASE toolong
  BY <1>1, <1>3 DEF Finish, FinishPost, FinishMail, Rejected
<1>4. CASE ~toolong
  <2>1. ParseArticle(msg).head = MeantHead /\ ParseArticle(msg).body = MeantBody /\ MeantHead \in Header /\ MeantBody \in Header
    BY <1>4, AllReadIs, MeantIs
  <2>2. CASE how.via = "POST"
    <3>1. Fieldlike({"Newsgroups:"})
      BY FieldlikeNames DEF Names
    <3>2. GetHeaderIndex(MeantHead, "Newsgroups:") = 0 <=> Named(MeantHead, {"Newsgroups:"}) = << >>
      BY <2>1, <3>1, IndexNamed
    <3>3. FinishPost
      BY <2>2 DEF Finish
    <3>4. IF GetHeaderIndex(MeantHead, "Newsgroups:") = 0 \/ ~how.postok THEN Rejected
          ELSE Post(UpdatePath(MeantHead), MeantBody, FALSE)
      BY <1>4, <2>1, <3>3 DEF FinishPost
    <3>5. dead' = dead
      BY <3>4 DEF Rejected, Post
    <3>6. pc' = "rejected" <=> GetHeaderIndex(MeantHead, "Newsgroups:") = 0 \/ ~how.postok
      BY <3>4 DEF Rejected, Post
    <3> QED
      BY <1>1, <1>4, <2>2, <3>2, <3>5, <3>6 DEF Loop, Lacking
  <2>3. CASE how.via = "mail"
    <3> DEFINE head == UpdatePath(MeantHead)
               loop == GetHeaderIndex(head, "X-Loop:")
               back == Massaged(SubSeq(head, 1, loop)) \o SubSeq(head, loop + 1, Len(head))
    <3>1. Fieldlike({"X-Loop:"}) /\ "X-Loop:" \in Names \ {"Path:"}
      BY FieldlikeNames DEF Names
    <3>2. head \in Header /\ (loop = 0 <=> Named(MeantHead, {"X-Loop:"}) = << >>)
      BY <2>1, <3>1, UpdatePathIs, IndexNamed
    <3> HIDE DEF head
    <3>3. PICK n \in Nat : n = Len(head) /\ loop \in 0 .. n
      BY <3>1, <3>2, IndexNamed, LenProperties DEF Header
    <3> HIDE DEF loop
    <3>4. back \in Header
      <4> DEFINE X == Seq(Letter)
      <4>1. head \in Seq(X)
        BY <3>2 DEF Header
      <4> HIDE DEF X
      <4>2. SubSeq(head, 1, loop) \in Seq(X)
        BY <3>3, <4>1, PrefixType
      <4>3. SubSeq(head, loop + 1, Len(head)) \in Seq(X)
        BY <3>3, <4>1, SuffixType
      <4> QED
        BY <4>2, <4>3, MassagedIs, HeaderConcat DEF X, Header
    <3> HIDE DEF back
    <3>5. FileOf(back, MeantBody) # << >>
      BY <2>1, <3>4, FileOfType
    <3>6. IF loop # 0 THEN pc' = "rejected" /\ dead' = FileOf(back, MeantBody)
                      ELSE Post(Massaged(head), MeantBody, how.preservedate)
      BY <1>4, <2>1, <2>3 DEF Finish, FinishMail, head, loop, back
    <3>7. IF loop # 0 THEN pc' = "rejected" /\ dead' # << >> ELSE pc' = "posted" /\ dead' = << >>
      BY <3>5, <3>6 DEF Post
    <3> QED
      BY <1>1, <1>4, <2>3, <3>2, <3>7 DEF Loop, Lacking
  <2> QED
    BY <1>2, <2>2, <2>3
<1> QED
  BY <1>3, <1>4

\* What has been read, when the loop ends by itself.
LEMMA EndRead ==
  ASSUME TypeOK, ReadInv, EndOfText \/ EndOfMail
  PROVE  /\ Read(Len(sent), 0) /\ Finish /\ UNCHANGED <<how, sent, cut>> /\ dead = << >>
         /\ how.via = "POST" => wire' = NextCommand
<1>1. pc = "reading" /\ Finish /\ UNCHANGED <<how, sent, cut>> /\ dead = << >>
  BY DEF EndOfText, EndOfMail, Reading, ReadInv
<1>2. PICK k \in Nat, m \in Nat : Position(k, m)
  BY <1>1 DEF ReadInv
<1>3. CASE EndOfText
  <2>1. how.via = "POST" /\ Head(wire) = "n" /\ wire' = Tail(wire) /\ mode = "CRLF_DOT"
    BY <1>3 DEF EndOfText, Reading
  <2>2. Read(k, m) /\ (k < Len(sent) => sent[k + 1] \in Seq(Char) /\ Plain(sent[k + 1]))
    BY <1>2, PositionType DEF Position
  <2>3. ~(k < Len(sent))
    <3> SUFFICES ASSUME k < Len(sent)
                 PROVE  FALSE
      OBVIOUS
    <3>1. mode = ModeAt(k, m) /\ m = Len(sent[k + 1]) => FALSE
      <4>1. mode = ModeAt(k, m) => ~(m > 0) /\ Dotted(sent[k + 1])
        BY <2>1 DEF ModeAt
      <4>2. Dotted(sent[k + 1]) => Len(sent[k + 1]) \in Nat \ {0}
        BY <2>2, LenProperties, EmptySeq DEF Dotted
      <4> QED
        BY <4>1, <4>2
    <3> QED
      BY <1>2, <2>1, <2>2, <3>1, InLineNext DEF Splits
  <2>4. k = Len(sent) /\ m = 0 /\ wire' = NextCommand
    BY <1>2, <2>1, <2>3, AtEndNext DEF Splits
  <2> QED
    BY <1>1, <2>2, <2>4
<1>4. CASE EndOfMail
  <2>1. how.via # "POST" /\ wire = << >>
    BY <1>4 DEF EndOfMail
  <2>2. k = Len(sent) /\ m = 0
    BY <1>2, <2>1, MailNext DEF Splits
  <2> QED
    BY <1>1, <1>2, <2>1, <2>2 DEF Position
<1> QED
  BY <1>3, <1>4

\* ... and so does the step that calls it.
LEMMA EndRefuses ==
  ASSUME TypeOK, ReadInv, EndOfText \/ EndOfMail
  PROVE  /\ pc' = "rejected" <=> TooMany \/ Loop \/ Lacking
         /\ dead' # << >> <=> Loop /\ ~TooMany
         /\ how.via = "POST" => wire' = NextCommand
BY EndRead, FinishRefuses

\* The property in terms of the reasons.
LEMMA RefusedExactlyIs ==
  RefusedExactly <=>
    (pc # "reading" /\ ~cut =>
       /\ pc = "rejected" <=> TooMany \/ Loop \/ Lacking
       /\ dead # << >> <=> Loop /\ ~TooMany
       /\ how.via = "POST" => wire = NextCommand)
BY Zenon DEF RefusedExactly, TooMany, Loop, Lacking

\* The reasons are a matter of what was sent and how.
LEMMA ReasonsKept ==
  ASSUME UNCHANGED <<how, sent>>
  PROVE  TooMany' = TooMany /\ Loop' = Loop /\ Lacking' = Lacking
<1>1. Meant' = Meant
  BY DEF Meant
<1>2. Closed' = Closed
  BY <1>1 DEF Closed
<1>3. MeantHead' = MeantHead
  BY <1>1, <1>2 DEF MeantHead
<1> QED
  BY <1>3 DEF TooMany, Loop, Lacking

\* No step breaks RefusedExactly.
LEMMA RefusedStep == TypeOK /\ ReadInv /\ RefusedExactly /\ [Next]_vars => RefusedExactly'
<1> SUFFICES ASSUME TypeOK, ReadInv, RefusedExactly, [Next]_vars
             PROVE  RefusedExactly'
  OBVIOUS
<1> DEFINE R == pc' # "reading" /\ ~cut' =>
                  /\ pc' = "rejected" <=> TooMany \/ Loop \/ Lacking
                  /\ dead' # << >> <=> Loop /\ ~TooMany
                  /\ how.via = "POST" => wire' = NextCommand
<1>1. UNCHANGED <<how, sent>>
  BY DEF Next, SkipCR, SkipDot, EndOfText, Character, MailCharacter, EndOfMail, HangUp, vars
<1>2. R => RefusedExactly'
  <2>1. TooMany' = TooMany /\ Loop' = Loop /\ Lacking' = Lacking
    BY <1>1, ReasonsKept
  <2>2. /\ (TooMany' <=> TooMany) /\ (Loop' <=> Loop) /\ (Lacking' <=> Lacking) /\ how' = how
    BY <1>1, <2>1
  <2>3. RefusedExactly' <=>
          (pc' # "reading" /\ ~cut' =>
             /\ pc' = "rejected" <=> TooMany' \/ Loop' \/ Lacking'
             /\ dead' # << >> <=> Loop' /\ ~TooMany'
             /\ how'.via = "POST" => wire' = NextCommand)
    BY Zenon DEF RefusedExactly, TooMany, Loop, Lacking
  <2> QED
    BY <2>2, <2>3
<1>3. CASE EndOfText \/ EndOfMail
  BY <1>2, <1>3, EndRefuses
<1>5. CASE HangUp
  BY <1>2, <1>5 DEF HangUp
<1>6. CASE SkipCR \/ SkipDot \/ Character \/ MailCharacter
  BY <1>2, <1>6 DEF SkipCR, SkipDot, Character, MailCharacter, Reading, results
<1>7. CASE UNCHANGED vars
  BY <1>2, <1>7, RefusedExactlyIs DEF vars
<1> QED
  BY <1>3, <1>5, <1>6, <1>7 DEF Next

\* An article that was sent to its end is refused exactly for the reasons that
\* POST and the gateway give, a mail that went round goes to the dead letters,
\* and POST leaves the next command to be read.
THEOREM ReaderRefuses == Spec => []RefusedExactly
<1>1. Init => RefusedExactly
  BY RefusedExactlyIs DEF Init
<1> QED
  BY <1>1, TypeInit, TypeNext, ReadInit, ReadStep, RefusedStep, PTL DEF Spec

-----------------------------------------------------------------------------
(* The file.                                                               *)

\* The header that Post is given, and the one it writes.
Given == IF how.via = "mail" THEN Massaged(UpdatePath(MeantHead)) ELSE UpdatePath(MeantHead)
Preserving == how.via = "mail" /\ how.preservedate
Full == Edited(Given, MeantBody, Preserving)

FileInv ==
  Whole => /\ file = FileOf(Full, MeantBody)
           /\ mailed = IF how.ccpost THEN FileOf(Preserved(Full), Note \o MeantBody) ELSE << >>

\* Post writes the edited header and the body that was meant.
LEMMA FinishStores ==
  ASSUME TypeOK, Read(Len(sent), 0), Finish, pc' = "posted"
  PROVE  /\ file' = FileOf(Full, MeantBody)
         /\ mailed' = IF how.ccpost THEN FileOf(Preserved(Full), Note \o MeantBody) ELSE << >>
<1>1. how.via \in {"POST", "mail"} /\ how.preservedate \in BOOLEAN
  BY SentType
<1>2. ~toolong
  BY DEF Finish, FinishPost, FinishMail, Rejected
<1>3. ParseArticle(msg).head = MeantHead /\ ParseArticle(msg).body = MeantBody
  BY <1>2, AllReadIs, MeantIs
<1>4. CASE how.via = "POST"
  <2>1. Post(UpdatePath(MeantHead), MeantBody, FALSE)
    BY <1>3, <1>4 DEF Finish, FinishPost, Rejected
  <2>2. Full = Edited(UpdatePath(MeantHead), MeantBody, FALSE)
    BY <1>4 DEF Full, Given, Preserving
  <2> QED
    BY <2>1, <2>2, Zenon DEF Post
<1>5. CASE how.via = "mail"
  <2>1. Post(Massaged(UpdatePath(MeantHead)), MeantBody, how.preservedate)
    <3> DEFINE P == Post(Massaged(UpdatePath(MeantHead)), MeantBody, how.preservedate)
               a == ParseArticle(msg)
               head == UpdatePath(a.head)
               loop == GetHeaderIndex(head, "X-Loop:")
    <3>1. FinishMail
      BY <1>5 DEF Finish
    <3>2. IF loop # 0 THEN pc' = "rejected" ELSE Post(Massaged(head), a.body, how.preservedate)
      BY <1>2, <3>1 DEF FinishMail
    <3>3. Post(Massaged(head), a.body, how.preservedate)
      BY <3>2
    <3> QED
      BY <1>3, <3>3
  <2>2. Full = Edited(Massaged(UpdatePath(MeantHead)), MeantBody, how.preservedate)
    <3>1. Preserving = how.preservedate
      BY <1>1, <1>5 DEF Preserving
    <3> QED
      BY <1>5, <3>1 DEF Full, Given
  <2> QED
    BY <2>1, <2>2, Zenon DEF Post
<1> QED
  BY <1>1, <1>4, <1>5

\* What should be stored is a matter of what was sent and how.
LEMMA FileKept ==
  ASSUME UNCHANGED <<how, sent>>
  PROVE  Full' = Full /\ MeantBody' = MeantBody /\ Note' = Note
<1>1. Meant' = Meant
  BY DEF Meant
<1>2. Closed' = Closed
  BY <1>1 DEF Closed
<1>3. MeantHead' = MeantHead
  BY <1>1, <1>2 DEF MeantHead
<1>4. MeantBody' = MeantBody
  BY <1>2, <1>3 DEF MeantBody
<1>5. Given' = Given
  BY <1>3 DEF Given
<1>6. Preserving' = Preserving
  BY DEF Preserving
<1> QED
  BY <1>4, <1>5, <1>6 DEF Full, Note

\* No step breaks FileInv.
LEMMA FileStep == TypeOK /\ ReadInv /\ FileInv /\ [Next]_vars => FileInv'
<1> SUFFICES ASSUME TypeOK, ReadInv, FileInv, [Next]_vars
             PROVE  FileInv'
  OBVIOUS
<1>0. UNCHANGED <<how, sent>>
  BY DEF Next, SkipCR, SkipDot, EndOfText, Character, MailCharacter, EndOfMail, HangUp, vars
<1> SUFFICES ASSUME pc' = "posted", ~cut'
             PROVE  /\ file' = FileOf(Full, MeantBody)
                    /\ mailed' = IF how.ccpost THEN FileOf(Preserved(Full), Note \o MeantBody) ELSE << >>
  <2>2. Full' = Full /\ MeantBody' = MeantBody /\ Note' = Note /\ how' = how
    BY <1>0, FileKept
  <2>3. FileInv' = (pc' = "posted" /\ ~cut' =>
                      /\ file' = FileOf(Full', MeantBody')
                      /\ mailed' = IF how'.ccpost THEN FileOf(Preserved(Full'), Note' \o MeantBody') ELSE << >>)
    BY Zenon DEF FileInv, Whole
  <2>4. CASE ~(pc' = "posted" /\ ~cut')
    BY <2>3, <2>4, Zenon
  <2>5. CASE pc' = "posted" /\ ~cut'
    BY <2>2, <2>3, <2>5, Zenon
  <2> QED
    BY <2>4, <2>5
<1>1. CASE EndOfText \/ EndOfMail
  BY <1>1, EndRead, FinishStores
<1>2. CASE HangUp
  BY <1>2 DEF HangUp
<1>3. CASE SkipCR \/ SkipDot \/ Character \/ MailCharacter
  BY <1>3 DEF SkipCR, SkipDot, Character, MailCharacter, Reading, results
<1>4. CASE UNCHANGED vars
  BY <1>4 DEF vars, FileInv, Whole
<1> QED
  BY <1>1, <1>2, <1>3, <1>4 DEF Next

\* The file of an acknowledged article is made of the header and the body that
\* its sender meant; the mail for ccpost is made of the same.
THEOREM ReaderStores == Spec => []FileInv
<1>1. Init => FileInv
  BY DEF Init, FileInv, Whole
<1> QED
  BY <1>1, TypeInit, TypeNext, ReadInit, ReadStep, FileStep, PTL DEF Spec

-----------------------------------------------------------------------------
(* Headers in parts.                                                       *)

\* A header with one line more.
LEMMA HeaderAppend ==
  \A h \in Header, line \in Seq(Letter) :
    /\ Append(h, line) \in Header /\ Append(h, line) # << >>
    /\ Len(h) \in Nat /\ Len(Append(h, line)) = Len(h) + 1 /\ Append(h, line)[Len(h) + 1] = line
    /\ \A i \in 1 .. Len(h) : Append(h, line)[i] = h[i]
<1> DEFINE X == Seq(Letter)
<1>1. ASSUME NEW h \in Seq(X), NEW line \in X
      PROVE  /\ Append(h, line) \in Seq(X) /\ Append(h, line) # << >>
             /\ Len(h) \in Nat /\ Len(Append(h, line)) = Len(h) + 1 /\ Append(h, line)[Len(h) + 1] = line
             /\ \A i \in 1 .. Len(h) : Append(h, line)[i] = h[i]
  <2> HIDE DEF X
  <2> QED
    BY AppendProperties, LenProperties
<1> HIDE DEF X
<1>2. \A h \in Seq(X), line \in X :
        /\ Append(h, line) \in Seq(X) /\ Append(h, line) # << >>
        /\ Len(h) \in Nat /\ Len(Append(h, line)) = Len(h) + 1 /\ Append(h, line)[Len(h) + 1] = line
        /\ \A i \in 1 .. Len(h) : Append(h, line)[i] = h[i]
  BY <1>1
<1> QED
  BY <1>2 DEF X, Header

\* Induction over headers.
LEMMA HeaderInduction ==
  ASSUME NEW T, << >> \in T, \A h \in Header, line \in Seq(Letter) : h \in T => Append(h, line) \in T
  PROVE  Header \subseteq T
<1> DEFINE X == Seq(Letter)
<1>1. \A h \in Seq(X), line \in X : h \in T => Append(h, line) \in T
  BY DEF Header
<1>2. Seq(X) \subseteq T
  <2> HIDE DEF X
  <2> QED
    BY <1>1, SequenceInduction
<1> QED
  BY <1>2 DEF Header

\* g is the field f with one line more.
Longer(f, line, g) == IsFold(line) /\ g = Append(f, line)
Extends(r, f, line, g) == Longer(f, line, g) => AddToFields(Append(r, f), line) = Append(r, g)

\* A line that continues a field is added to the last one.
LEMMA AddToFold ==
  \A r \in Seq(OneField), f, g \in OneField, line \in Seq(Letter) : Extends(r, f, line, g)
<1> TAKE r \in Seq(OneField), f, g \in OneField, line \in Seq(Letter)
<1> SUFFICES ASSUME IsFold(line), g = Append(f, line)
             PROVE  AddToFields(Append(r, f), line) = Append(r, g)
  BY DEF Extends, Longer
<1>0. PICK fs \in Seq(OneField) : fs = Append(r, f)
  BY AppendProperties
<1>1. \A t \in Seq(OneField), e \in OneField :
        IsFold(line) /\ fs = Append(t, e) => AddToFields(fs, line) = Append(t, Append(e, line))
  BY AddToFieldsIs
<1>2. AddToFields(fs, line) = Append(r, Append(f, line))
  BY <1>0, <1>1
<1> QED
  BY <1>0, <1>2

\* Only the empty header has no fields.
LEMMA FieldsNone ==
  \A h \in Header : Fields(h) = << >> <=> h = << >>
<1> DEFINE T == {h \in Header : Fields(h) = << >> <=> h = << >>}
<1>1. << >> \in Header
  BY EmptySeq DEF Header
<1>2. << >> \in T
  BY <1>1, FieldsAppend
<1>3. ASSUME NEW h \in Header, NEW line \in Seq(Letter)
      PROVE  Append(h, line) \in T
  <2>1. PICK F \in Seq(OneField) : F = Fields(h) /\ Fields(Append(h, line)) = AddToFields(F, line)
    BY FieldsAppend
  <2>2. AddToFields(F, line) # << >>
    <3>1. PICK f \in OneField : f = <<line>>
      BY FieldGrows
    <3>2. CASE ~IsFold(line) \/ F = << >>
      <4>1. AddToFields(F, line) = Append(F, f)
        BY <3>1, <3>2, AddToFieldsIs
      <4> QED
        BY <4>1, AppendProperties
    <3>3. CASE IsFold(line) /\ F # << >>
      <4>1. PICK r \in Seq(OneField), g \in OneField : F = Append(r, g)
        BY <3>3, SequenceEmptyOrAppend
      <4>2. PICK e \in OneField : e = Append(g, line)
        BY FieldGrows
      <4>3. AddToFields(F, line) = Append(r, e)
        BY <3>3, <4>1, <4>2, AddToFold DEF Extends, Longer
      <4> QED
        BY <4>3, AppendProperties
    <3> QED
      BY <3>2, <3>3
  <2> QED
    BY <2>1, <2>2, HeaderAppend
<1>4. Header \subseteq T
  <2> HIDE DEF T
  <2> QED
    BY <1>2, <1>3, HeaderInduction
<1> QED
  BY <1>4

\* One line more: a field of its own, or a part of the last one.
LEMMA FieldsGrow ==
  ASSUME NEW h \in Header, NEW line \in Seq(Letter)
  PROVE  /\ ~IsFold(line) => Fields(Append(h, line)) = Append(Fields(h), <<line>>)
         /\ h = << >> => Fields(Append(h, line)) = << <<line>> >>
         /\ IsFold(line) /\ h # << >> =>
              \E r \in Seq(OneField), f, g \in OneField :
                /\ Fields(h) = Append(r, f) /\ g = Append(f, line) /\ Fields(Append(h, line)) = Append(r, g)
                /\ g[1] = f[1]
<1>1. PICK F \in Seq(OneField) : F = Fields(h) /\ Fields(Append(h, line)) = AddToFields(F, line)
  BY FieldsAppend
<1>2. F = << >> <=> h = << >>
  BY <1>1, FieldsNone
<1>3. ~IsFold(line) => Fields(Append(h, line)) = Append(Fields(h), <<line>>)
  BY <1>1, AddToFieldsIs
<1>4. h = << >> => Fields(Append(h, line)) = << <<line>> >>
  <2> SUFFICES ASSUME h = << >>
               PROVE  Fields(Append(h, line)) = << <<line>> >>
    OBVIOUS
  <2>1. AddToFields(F, line) = Append(F, <<line>>) /\ F = << >>
    BY <1>2, AddToFieldsIs
  <2>2. \A e : Append(<< >>, e) = <<e>>
    OBVIOUS
  <2> QED
    BY <1>1, <2>1, <2>2
<1>5. ASSUME IsFold(line), h # << >>
      PROVE  \E r \in Seq(OneField), f, g \in OneField :
               /\ Fields(h) = Append(r, f) /\ g = Append(f, line) /\ Fields(Append(h, line)) = Append(r, g)
               /\ g[1] = f[1]
  <2>1. PICK r \in Seq(OneField), f \in OneField : F = Append(r, f)
    BY <1>2, <1>5, SequenceEmptyOrAppend
  <2>2. PICK g \in OneField : g = Append(f, line)
    BY FieldGrows
  <2>3. AddToFields(F, line) = Append(r, g)
    BY <1>5, <2>1, <2>2, AddToFold DEF Extends, Longer
  <2>4. g[1] = f[1]
    BY <2>2, FieldFirst
  <2> QED
    BY <1>1, <2>1, <2>2, <2>3, <2>4
<1> QED
  BY <1>3, <1>4, <1>5

\* A part that begins with a continuation.
Blank(h) == h # << >> /\ IsFold(h[1])

FieldsJoin(a, b) == Fields(a \o b) = Fields(a) \o Fields(b)

\* The fields of two parts, if the second begins with a field.
LEMMA FieldsConcat ==
  \A a, b \in Header : ~Blank(b) => FieldsJoin(a, b)
<1> TAKE a \in Header
<1> DEFINE X == Seq(Letter)
           T == {b \in Header : ~Blank(b) => FieldsJoin(a, b)}
<1>0. << >> \in Header
  BY EmptySeq DEF Header
<1>1. << >> \in T
  <2>1. a \o << >> = a
    <3> HIDE DEF X
    <3> QED
      BY ConcatEmptySeq DEF X, Header
  <2>2. Fields(<< >>) = << >> /\ Fields(a) \in Seq(OneField)
    BY FieldsAppend
  <2>3. Fields(a) \o << >> = Fields(a)
    BY <2>2, ConcatEmptySeq
  <2> QED
    BY <1>0, <2>1, <2>2, <2>3 DEF FieldsJoin
<1>2. ASSUME NEW b \in Header, NEW line \in Seq(Letter), b \in T
      PROVE  Append(b, line) \in T
  <2> SUFFICES ASSUME ~Blank(Append(b, line))
               PROVE  FieldsJoin(a, Append(b, line))
    BY HeaderAppend
  <2>1. ~Blank(b) /\ (b = << >> => ~IsFold(line))
    <3>1. CASE b = << >>
      <4>1. Len(b) = 0
        BY <3>1
      <4>2. Append(b, line)[0 + 1] = line /\ 0 + 1 = 1 /\ Append(b, line) # << >>
        BY <4>1, HeaderAppend
      <4> QED
        BY <3>1, <4>2 DEF Blank
    <3>2. CASE b # << >>
      <4>1. Len(b) # 0
        BY <3>2, EmptySeq DEF Header
      <4>2. 1 \in 1 .. Len(b)
        BY <4>1, HeaderAppend
      <4>3. Append(b, line)[1] = b[1] /\ Append(b, line) # << >>
        BY <4>2, HeaderAppend
      <4> QED
        BY <3>2, <4>3 DEF Blank
    <3> QED
      BY <3>1, <3>2
  <2>2. PICK ab \in Header : ab = a \o b /\ a \o Append(b, line) = Append(ab, line)
    <3>1. a \in Seq(X) /\ b \in Seq(X) /\ line \in X
      BY DEF Header
    <3> HIDE DEF X
    <3>2. a \o Append(b, line) = Append(a \o b, line)
      BY <3>1, AppendBehind DEF AppendsBehind
    <3> QED
      BY <3>2, HeaderConcat
  <2>3. PICK A \in Seq(OneField), B \in Seq(OneField) : A = Fields(a) /\ B = Fields(b) /\ Fields(ab) = A \o B
    <3>1. FieldsJoin(a, b)
      BY <1>2, <2>1
    <3>2. Fields(ab) = Fields(a) \o Fields(b)
      BY <2>2, <3>1 DEF FieldsJoin
    <3> QED
      BY <3>2, FieldsAppend
  <2>4. CASE ~IsFold(line)
    <3>1. PICK f \in OneField : f = <<line>>
      BY FieldGrows
    <3>2. Fields(Append(ab, line)) = Append(A \o B, f) /\ Fields(Append(b, line)) = Append(B, f)
      BY <2>3, <2>4, <3>1, FieldsGrow
    <3>3. A \o Append(B, f) = Append(A \o B, f)
      BY AppendBehind DEF AppendsBehind
    <3> QED
      BY <2>2, <2>3, <3>2, <3>3 DEF FieldsJoin
  <2>5. CASE IsFold(line)
    <3>1. b # << >>
      BY <2>1, <2>5
    <3>2. PICK r \in Seq(OneField), f \in OneField, g \in OneField :
            B = Append(r, f) /\ g = Append(f, line) /\ Fields(Append(b, line)) = Append(r, g)
      <4>1. \E r \in Seq(OneField), f, g \in OneField :
              /\ Fields(b) = Append(r, f) /\ g = Append(f, line) /\ Fields(Append(b, line)) = Append(r, g)
              /\ g[1] = f[1]
        BY <2>5, <3>1, FieldsGrow
      <4> QED
        BY <2>3, <4>1
    <3>3. PICK q \in Seq(OneField) : q = A \o r
      BY ConcatProperties
    <3>4. A \o Append(r, f) = Append(q, f) /\ A \o Append(r, g) = Append(q, g)
      BY <3>3, AppendBehind, SMTT(30) DEF AppendsBehind
    <3>5. Fields(ab) = Append(q, f)
      BY <2>3, <3>2, <3>4
    <3>6. Fields(Append(ab, line)) = AddToFields(Append(q, f), line)
      BY <3>5, FieldsAppend
    <3>7. PICK Q \in Seq(OneField) : Q = Append(q, f)
      BY AppendProperties
    <3>8. AddToFields(Q, line) = Append(q, g)
      BY <2>5, <3>2, <3>7, AddToFold DEF Extends, Longer
    <3> QED
      BY <2>2, <2>3, <3>2, <3>4, <3>6, <3>7, <3>8 DEF FieldsJoin
  <2> QED
    BY <2>4, <2>5
<1>3. Header \subseteq T
  <2> HIDE DEF T
  <2> QED
    BY <1>1, <1>2, HeaderInduction
<1> QED
  BY <1>3

FilteredJoin(names, F, G) == Filtered(names, F \o G) = Filtered(names, F) \o Filtered(names, G)

Takes(names, F, f) == Filtered(names, Append(F, f)) = Append(Filtered(names, F), f)
Leaves(names, F, f) == Filtered(names, Append(F, f)) = Filtered(names, F)

\* A field has one of the names, or has not.
LEMMA FilteredOne ==
  \A names : \A F \in Seq(OneField), f \in OneField :
    IF Of(names, f) THEN Takes(names, F, f) ELSE Leaves(names, F, f)
<1> TAKE names
<1> TAKE F \in Seq(OneField), f \in OneField
<1>1. /\ Filtered(names, << >>) = << >> /\ Filtered(names, F) \in Seq(OneField)
      /\ Filtered(names, Append(F, f)) = IF Of(names, f) THEN Append(Filtered(names, F), f) ELSE Filtered(names, F)
  BY FilteredAppend
<1> QED
  BY <1>1 DEF Takes, Leaves

\* Of no fields none has a name.
LEMMA FilteredNone == \A names : Filtered(names, << >>) = << >>
<1> TAKE names
<1>1. << >> \in Seq(OneField)
  BY EmptySeq
<1> QED
  BY <1>1, FilteredAppend

\* Of two parts.
LEMMA FilteredConcat ==
  \A names : \A F, G \in Seq(OneField) : FilteredJoin(names, F, G)
<1> TAKE names
<1> TAKE F \in Seq(OneField)
<1> DEFINE T == {G \in Seq(OneField) : FilteredJoin(names, F, G)}
<1>1. << >> \in T
  <2>1. F \o << >> = F /\ Filtered(names, F) \in Seq(OneField) /\ << >> \in Seq(OneField)
    BY ConcatEmptySeq, FilteredAppend, EmptySeq
  <2>2. Filtered(names, << >>) = << >> /\ Filtered(names, F) \o << >> = Filtered(names, F)
    BY <2>1, ConcatEmptySeq, FilteredAppend
  <2> QED
    BY <2>1, <2>2 DEF FilteredJoin
<1>2. ASSUME NEW G \in Seq(OneField), NEW f \in OneField, G \in T
      PROVE  Append(G, f) \in T
  <2>1. PICK A \in Seq(OneField), B \in Seq(OneField), Q \in Seq(OneField) :
          A = Filtered(names, F) /\ B = Filtered(names, G) /\ Q = F \o G
    BY FilteredAppend, ConcatProperties
  <2>2. Filtered(names, Q) = A \o B
    BY <1>2, <2>1 DEF FilteredJoin
  <2>3. F \o Append(G, f) = Append(Q, f) /\ A \o Append(B, f) = Append(A \o B, f)
    BY <2>1, AppendBehind, SMTT(30) DEF AppendsBehind
  <2>4. FilteredJoin(names, F, Append(G, f))
    <3>1. CASE Of(names, f)
      <4>1. Filtered(names, Append(Q, f)) = Append(A \o B, f) /\ Filtered(names, Append(G, f)) = Append(B, f)
        BY <2>1, <2>2, <3>1, FilteredOne DEF Takes, Leaves
      <4> QED
        BY <2>1, <2>3, <4>1 DEF FilteredJoin
    <3>2. CASE ~Of(names, f)
      <4>1. Filtered(names, Append(Q, f)) = A \o B /\ Filtered(names, Append(G, f)) = B
        BY <2>1, <2>2, <3>2, FilteredOne DEF Takes, Leaves
      <4> QED
        BY <2>1, <2>3, <4>1 DEF FilteredJoin
    <3> QED
      BY <3>1, <3>2
  <2> QED
    BY <2>4, AppendProperties
<1>3. Seq(OneField) \subseteq T
  <2> HIDE DEF T
  <2> QED
    BY <1>1, <1>2, SequenceInduction
<1> QED
  BY <1>3

NamedJoin(names, a, b) == Named(a \o b, names) = Named(a, names) \o Named(b, names)

\* The named fields of two parts of a header.
LEMMA NamedConcat ==
  \A names : \A a, b \in Header : ~Blank(b) => NamedJoin(names, a, b)
<1> TAKE names
<1> TAKE a, b \in Header
<1> SUFFICES ASSUME ~Blank(b)
             PROVE  NamedJoin(names, a, b)
  OBVIOUS
<1>1. PICK A \in Seq(OneField), B \in Seq(OneField) : A = Fields(a) /\ B = Fields(b)
  BY FieldsAppend
<1>2. Fields(a \o b) = A \o B
  BY <1>1, FieldsConcat DEF FieldsJoin
<1>3. Filtered(names, A \o B) = Filtered(names, A) \o Filtered(names, B)
  BY FilteredConcat DEF FilteredJoin
<1> QED
  BY <1>1, <1>2, <1>3, NamedIs DEF NamedJoin

-----------------------------------------------------------------------------
(* Where fields come from.                                                 *)

\* A field that was chosen has one of the names, and is one of the fields.
LEMMA FilteredFrom ==
  \A names : \A F \in Seq(OneField) : \A i \in 1 .. Len(Filtered(names, F)) :
    Of(names, Filtered(names, F)[i]) /\ \E j \in 1 .. Len(F) : Filtered(names, F)[i] = F[j]
<1> TAKE names
<1> DEFINE Drawn(F) == \A i \in 1 .. Len(Filtered(names, F)) :
             Of(names, Filtered(names, F)[i]) /\ \E j \in 1 .. Len(F) : Filtered(names, F)[i] = F[j]
           T == {F \in Seq(OneField) : Drawn(F)}
<1>1. << >> \in T
  <2>1. Filtered(names, << >>) = << >> /\ << >> \in Seq(OneField) /\ 1 .. Len(<< >>) = {}
    BY FilteredNone, EmptySeq
  <2> QED
    BY <2>1
<1>2. ASSUME NEW F \in Seq(OneField), NEW f \in OneField, F \in T
      PROVE  Append(F, f) \in T
  <2>1. PICK A \in Seq(OneField), Q \in Seq(OneField) : A = Filtered(names, F) /\ Q = Append(F, f)
    BY FilteredAppend, AppendProperties
  <2>2. \A i \in 1 .. Len(A) : Of(names, A[i]) /\ \E j \in 1 .. Len(F) : A[i] = F[j]
    BY <1>2, <2>1
  <2>3. PICK n \in Nat : n = Len(F) /\ Len(Q) = n + 1 /\ Q[n + 1] = f /\ \A j \in 1 .. n : Q[j] = F[j]
    BY <2>1, AppendProperties, LenProperties
  <2>4. \A i \in 1 .. Len(A) : Of(names, A[i]) /\ \E j \in 1 .. n + 1 : A[i] = Q[j]
    BY <2>2, <2>3
  <2>5. CASE ~Of(names, f)
    <3>1. Filtered(names, Q) = A
      BY <2>1, <2>5, FilteredOne DEF Takes, Leaves
    <3>2. Drawn(Q)
      BY <2>3, <2>4, <3>1
    <3> HIDE DEF Drawn
    <3> QED
      BY <2>1, <3>2
  <2>6. CASE Of(names, f)
    <3>1. PICK B \in Seq(OneField) : B = Filtered(names, Q) /\ B = Append(A, f)
      BY <2>1, <2>6, FilteredOne, FilteredAppend DEF Takes, Leaves
    <3>2. PICK m \in Nat : m = Len(A) /\ Len(B) = m + 1 /\ B[m + 1] = f /\ \A j \in 1 .. m : B[j] = A[j]
      <4>1. PICK m \in Nat : m = Len(A)
        OBVIOUS
      <4>2. /\ Len(Append(A, f)) = m + 1 /\ Append(A, f)[m + 1] = f
            /\ \A j \in 1 .. m : Append(A, f)[j] = A[j]
        BY <4>1, AppendProperties
      <4> QED
        BY <3>1, <4>1, <4>2
    <3>3. ASSUME NEW i \in 1 .. m + 1
          PROVE  Of(names, B[i]) /\ \E j \in 1 .. n + 1 : B[i] = Q[j]
      <4>1. CASE i = m + 1
        <5>1. n + 1 \in 1 .. n + 1 /\ B[i] = Q[n + 1] /\ B[i] = f
          BY <2>3, <3>2, <4>1
        <5> QED
          BY <2>6, <5>1
      <4>2. CASE i # m + 1
        <5>1. i \in 1 .. m
          BY <3>3, <4>2
        <5> QED
          BY <2>4, <3>2, <5>1
      <4> QED
        BY <4>1, <4>2
    <3>4. Drawn(Q)
      BY <2>3, <3>1, <3>2, <3>3
    <3> HIDE DEF Drawn
    <3> QED
      BY <2>1, <3>4
  <2> QED
    BY <2>5, <2>6
<1>3. Seq(OneField) \subseteq T
  <2> HIDE DEF T
  <2> QED
    BY <1>1, <1>2, SequenceInduction
<1> QED
  BY <1>3

\* A field begins with a line of the header.
LEMMA FieldsFrom ==
  \A h \in Header : \A i \in 1 .. Len(Fields(h)) : \E t \in 1 .. Len(h) : Fields(h)[i][1] = h[t]
<1> DEFINE Drawn(h) == \A i \in 1 .. Len(Fields(h)) : \E t \in 1 .. Len(h) : Fields(h)[i][1] = h[t]
           T == {h \in Header : Drawn(h)}
<1>1. << >> \in T
  <2>1. << >> \in Header /\ 1 .. Len(<< >>) = {}
    BY EmptySeq DEF Header
  <2>2. Fields(<< >>) = << >>
    BY <2>1, FieldsAppend
  <2> QED
    BY <2>1, <2>2
<1>2. ASSUME NEW h \in Header, NEW line \in Seq(Letter), h \in T
      PROVE  Append(h, line) \in T
  <2>1. PICK q \in Header : q = Append(h, line)
    BY HeaderAppend
  <2>2. PICK n \in Nat : n = Len(h) /\ Len(q) = n + 1 /\ q[n + 1] = line /\ \A t \in 1 .. n : q[t] = h[t]
    BY <2>1, HeaderAppend
  <2>3. PICK F \in Seq(OneField), G \in Seq(OneField) : F = Fields(h) /\ G = Fields(q)
    BY FieldsAppend
  <2>4. \A i \in 1 .. Len(F) : \E t \in 1 .. n + 1 : F[i][1] = q[t]
    BY <1>2, <2>2, <2>3
  <2>5. \A i \in 1 .. Len(G) : \E t \in 1 .. n + 1 : G[i][1] = q[t]
    <3>1. CASE ~IsFold(line) \/ h = << >>
      <4>1. PICK f \in OneField : f = <<line>> /\ f[1] = line
        BY FieldGrows
      <4>2. G = Append(F, f)
        <5>1. CASE ~IsFold(line)
          BY <2>1, <2>3, <4>1, <5>1, FieldsGrow
        <5>2. CASE h = << >>
          <6>1. F = << >> /\ G = <<f>>
            BY <2>1, <2>3, <4>1, <5>2, FieldsGrow, FieldsAppend
          <6> QED
            BY <6>1
        <5> QED
          BY <3>1, <5>1, <5>2
      <4>3. PICK m \in Nat : m = Len(F) /\ Len(G) = m + 1 /\ G[m + 1] = f /\ \A j \in 1 .. m : G[j] = F[j]
        BY <4>2, AppendProperties, LenProperties
      <4>4. \A i \in 1 .. m + 1 : i \in 1 .. m \/ i = m + 1
        OBVIOUS
      <4>5. n + 1 \in 1 .. n + 1
        OBVIOUS
      <4> QED
        BY <2>2, <2>4, <4>1, <4>3, <4>4, <4>5
    <3>2. CASE IsFold(line) /\ h # << >>
      <4>1. PICK r \in Seq(OneField), f, g \in OneField : F = Append(r, f) /\ G = Append(r, g) /\ g[1] = f[1]
        <5>1. \E r \in Seq(OneField), f, g \in OneField :
                /\ Fields(h) = Append(r, f) /\ g = Append(f, line) /\ Fields(Append(h, line)) = Append(r, g)
                /\ g[1] = f[1]
          BY <3>2, FieldsGrow
        <5> QED
          BY <2>1, <2>3, <5>1
      <4>2. PICK m \in Nat : /\ m = Len(r) /\ Len(F) = m + 1 /\ F[m + 1] = f /\ (\A j \in 1 .. m : F[j] = r[j])
                             /\ Len(G) = m + 1 /\ G[m + 1] = g /\ \A j \in 1 .. m : G[j] = r[j]
        BY <4>1, AppendProperties, LenProperties
      <4>3. \A i \in 1 .. m + 1 : i \in 1 .. m \/ i = m + 1
        OBVIOUS
      <4>4. \A i \in 1 .. m + 1 : G[i][1] = F[i][1]
        BY <4>1, <4>2, <4>3
      <4> QED
        BY <2>4, <4>2, <4>4
    <3> QED
      BY <3>1, <3>2
  <2> QED
    BY <2>1, <2>2, <2>3, <2>5, ZenonT(60)
<1>3. Header \subseteq T
  <2> HIDE DEF T
  <2> QED
    BY <1>1, <1>2, HeaderInduction
<1> QED
  BY <1>3

\* A line with one of the names.
In(names, line) == line # << >> /\ line[1] \in names

\* A named field begins with such a line of the header.
LEMMA NamedFrom ==
  \A names : \A h \in Header : \A i \in 1 .. Len(Named(h, names)) :
    /\ Named(h, names)[i] \in OneField
    /\ \E t \in 1 .. Len(h) : Named(h, names)[i][1] = h[t] /\ In(names, h[t])
<1> TAKE names
<1> TAKE h \in Header
<1>1. PICK F \in Seq(OneField) : F = Fields(h)
  BY FieldsAppend
<1>2. PICK N \in Seq(OneField) : N = Filtered(names, F)
  BY FilteredAppend
<1>3. Named(h, names) = N
  BY <1>1, <1>2, NamedIs
<1>4. \A i \in 1 .. Len(N) : Of(names, N[i]) /\ \E j \in 1 .. Len(F) : N[i] = F[j]
  BY <1>2, FilteredFrom
<1>5. \A j \in 1 .. Len(F) : \E t \in 1 .. Len(h) : F[j][1] = h[t]
  BY <1>1, FieldsFrom
<1>6. \A i \in 1 .. Len(N) : N[i] \in OneField
  BY ElementOfSeq
<1> QED
  BY <1>3, <1>4, <1>5, <1>6 DEF In, Of

-----------------------------------------------------------------------------
(* Headers whose lines correspond.                                         *)

Same(names, l, m) ==
  IF IsFold(m) THEN l = m ELSE ~IsFold(l) /\ (In(names, l) <=> In(names, m))
Alike(names, g, h) == Len(g) = Len(h) /\ \A t \in 1 .. Len(h) : Same(names, g[t], h[t])
Equal(names, g, h) == \A t \in 1 .. Len(h) : In(names, h[t]) => g[t] = h[t]

\* Of the fields F and G of such headers, those with the names correspond, and
\* the last ones; and are the same if e.
Matches(names, e, r, f, q, g) ==
  /\ Of(names, f) <=> Of(names, g)
  /\ Len(Filtered(names, r)) = Len(Filtered(names, q))
  /\ e => Filtered(names, r) = Filtered(names, q) /\ (Of(names, g) => f = g)
Pair(names, e, F, G) ==
  \/ F = << >> /\ G = << >>
  \/ \E r, q \in Seq(OneField), f, g \in OneField :
       F = Append(r, f) /\ G = Append(q, g) /\ Matches(names, e, r, f, q, g)

\* Fields that correspond: as many are named, or the same.
LEMMA PairFiltered ==
  ASSUME NEW names, NEW e \in BOOLEAN, NEW F \in Seq(OneField), NEW G \in Seq(OneField), Pair(names, e, F, G)
  PROVE  /\ Len(Filtered(names, F)) = Len(Filtered(names, G))
         /\ e => Filtered(names, F) = Filtered(names, G)
<1>1. CASE F = << >> /\ G = << >>
  BY <1>1
<1>2. CASE ~(F = << >> /\ G = << >>)
  <2>1. PICK r \in Seq(OneField), q \in Seq(OneField), f \in OneField, g \in OneField :
          F = Append(r, f) /\ G = Append(q, g) /\ Matches(names, e, r, f, q, g)
    BY <1>2 DEF Pair
  <2>2. PICK R \in Seq(OneField), Q \in Seq(OneField) : R = Filtered(names, r) /\ Q = Filtered(names, q)
    BY FilteredAppend
  <2>3. (Of(names, f) <=> Of(names, g)) /\ Len(R) = Len(Q) /\ (e => R = Q /\ (Of(names, g) => f = g))
    BY <2>1, <2>2 DEF Matches
  <2>4. CASE Of(names, f)
    <3>1. Filtered(names, F) = Append(R, f) /\ Filtered(names, G) = Append(Q, g)
      BY <2>1, <2>2, <2>3, <2>4, FilteredOne DEF Takes
    <3>2. Len(Append(R, f)) = Len(R) + 1 /\ Len(Append(Q, g)) = Len(Q) + 1
      BY AppendProperties
    <3> QED
      BY <2>3, <2>4, <3>1, <3>2
  <2>5. CASE ~Of(names, f)
    <3>1. Filtered(names, F) = R /\ Filtered(names, G) = Q
      BY <2>1, <2>2, <2>3, <2>5, FilteredOne DEF Leaves
    <3> QED
      BY <2>3, <3>1
  <2> QED
    BY <2>4, <2>5
<1> QED
  BY <1>1, <1>2

\* A line more on each side keeps the correspondence.
LEMMA PairGrows ==
  ASSUME NEW names, NEW e \in BOOLEAN, NEW F \in Seq(OneField), NEW G \in Seq(OneField), Pair(names, e, F, G),
         NEW l \in Seq(Letter), NEW m \in Seq(Letter), Same(names, l, m), e => (In(names, m) => l = m)
  PROVE  Pair(names, e, AddToFields(F, l), AddToFields(G, m))
<1>1. IsFold(l) <=> IsFold(m)
  BY DEF Same
<1>2. (In(names, l) <=> In(names, m)) /\ (IsFold(m) => l = m)
  BY DEF Same
<1>3. PICK f \in OneField, g \in OneField : f = <<l>> /\ g = <<m>>
  BY FieldGrows
<1>4. (Of(names, f) <=> Of(names, g)) /\ (e => (Of(names, g) => f = g))
  BY <1>2, <1>3, OfLine DEF In
<1>5. ASSUME ~IsFold(l) \/ (F = << >> /\ G = << >>)
      PROVE  Pair(names, e, AddToFields(F, l), AddToFields(G, m))
  <2>1. AddToFields(F, l) = Append(F, f)
    BY <1>3, <1>5, AddToFieldsIs
  <2>2. AddToFields(G, m) = Append(G, g)
    BY <1>1, <1>3, <1>5, AddToFieldsIs
  <2>3. Matches(names, e, F, f, G, g)
    BY <1>4, PairFiltered DEF Matches
  <2> QED
    BY <2>1, <2>2, <2>3 DEF Pair
<1>6. ASSUME IsFold(l), ~(F = << >> /\ G = << >>)
      PROVE  Pair(names, e, AddToFields(F, l), AddToFields(G, m))
  <2>1. PICK r \in Seq(OneField), q \in Seq(OneField), a \in OneField, b \in OneField :
          F = Append(r, a) /\ G = Append(q, b) /\ Matches(names, e, r, a, q, b)
    BY <1>6 DEF Pair
  <2>2. PICK c \in OneField, d \in OneField : c = Append(a, l) /\ d = Append(b, m)
    BY FieldGrows
  <2>3. AddToFields(F, l) = Append(r, c) /\ AddToFields(G, m) = Append(q, d)
    <3>1. Extends(r, a, l, c) /\ Extends(q, b, m, d)
      BY AddToFold
    <3> QED
      BY <1>1, <1>6, <2>1, <2>2, <3>1 DEF Extends, Longer
  <2>4. c[1] = a[1] /\ d[1] = b[1]
    BY <2>2, FieldFirst
  <2>5. (Of(names, c) <=> Of(names, a)) /\ (Of(names, d) <=> Of(names, b))
    BY <2>4 DEF Of
  <2>6. Matches(names, e, r, c, q, d)
    BY <1>1, <1>2, <1>6, <2>1, <2>2, <2>5 DEF Matches
  <2> QED
    BY <2>3, <2>6 DEF Pair
<1> QED
  BY <1>5, <1>6

\* Headers whose lines correspond have fields that do.
LEMMA PairAlike ==
  \A names : \A e \in BOOLEAN : \A h \in Header : \A g \in Header :
    Alike(names, g, h) /\ (e => Equal(names, g, h)) => Pair(names, e, Fields(g), Fields(h))
<1> TAKE names
<1> TAKE e \in BOOLEAN
<1> DEFINE Good(h) == \A g \in Header : Alike(names, g, h) /\ (e => Equal(names, g, h)) => Pair(names, e, Fields(g), Fields(h))
           T == {h \in Header : Good(h)}
<1>0. << >> \in Header /\ Fields(<< >>) = << >>
  <2>1. << >> \in Header
    BY EmptySeq DEF Header
  <2> QED
    BY <2>1, FieldsAppend
<1>1. << >> \in T
  <2>1. ASSUME NEW g \in Header, Alike(names, g, << >>)
        PROVE  Pair(names, e, Fields(g), Fields(<< >>))
    <3>1. Len(g) = 0
      BY <2>1 DEF Alike
    <3>2. g = << >>
      BY <3>1, EmptySeq DEF Header
    <3> QED
      BY <1>0, <3>2 DEF Pair
  <2> QED
    BY <1>0, <2>1
<1>2. ASSUME NEW h \in Header, NEW m \in Seq(Letter), h \in T
      PROVE  Append(h, m) \in T
  <2>1. PICK p \in Header : p = Append(h, m)
    BY HeaderAppend
  <2>2. ASSUME NEW q \in Header, Alike(names, q, p), e => Equal(names, q, p)
        PROVE  Pair(names, e, Fields(q), Fields(p))
    <3>1. PICK n \in Nat : n = Len(h) /\ Len(p) = n + 1 /\ p[n + 1] = m /\ \A t \in 1 .. n : p[t] = h[t]
      BY <2>1, HeaderAppend
    <3>2. q # << >>
      <4>1. Len(q) # 0
        BY <2>2, <3>1 DEF Alike
      <4> QED
        BY <4>1
    <3>3. PICK g \in Header, l \in Seq(Letter) : q = Append(g, l)
      <4> DEFINE X == Seq(Letter)
      <4>1. q \in Seq(X)
        BY DEF Header
      <4> HIDE DEF X
      <4>2. \E g \in Seq(X), l \in X : q = Append(g, l)
        BY <3>2, <4>1, SequenceEmptyOrAppend
      <4> QED
        BY <4>2 DEF X, Header
    <3>4. Len(g) = n /\ q[n + 1] = l /\ \A t \in 1 .. n : q[t] = g[t]
      <4>1. PICK k \in Nat : k = Len(g) /\ Len(q) = k + 1 /\ q[k + 1] = l /\ \A t \in 1 .. k : q[t] = g[t]
        BY <3>3, HeaderAppend
      <4>2. k + 1 = n + 1
        BY <2>2, <3>1, <4>1 DEF Alike
      <4>3. k = n
        BY <4>2
      <4> QED
        BY <4>1, <4>3
    <3>5. \A t \in 1 .. n + 1 : Same(names, q[t], p[t]) /\ (e => (In(names, p[t]) => q[t] = p[t]))
      BY <2>2, <3>1 DEF Alike, Equal
    <3>6. 1 .. n \subseteq 1 .. n + 1 /\ n + 1 \in 1 .. n + 1
      OBVIOUS
    <3>7. Same(names, l, m) /\ (e => (In(names, m) => l = m))
      BY <3>1, <3>4, <3>5, <3>6
    <3>8. Alike(names, g, h) /\ (e => Equal(names, g, h))
      BY <3>1, <3>4, <3>5, <3>6 DEF Alike, Equal
    <3>9. PICK F \in Seq(OneField), G \in Seq(OneField) :
            F = Fields(g) /\ G = Fields(h) /\ Fields(q) = AddToFields(F, l) /\ Fields(p) = AddToFields(G, m)
      BY <2>1, <3>3, FieldsAppend
    <3>10. Pair(names, e, F, G)
      BY <1>2, <3>8, <3>9
    <3> QED
      BY <3>7, <3>9, <3>10, PairGrows
  <2> QED
    BY <2>1, <2>2
<1>3. Header \subseteq T
  <2> HIDE DEF T
  <2> QED
    BY <1>1, <1>2, HeaderInduction
<1> QED
  BY <1>3

\* ... and as many named fields, or the same.
LEMMA NamedAlike ==
  ASSUME NEW names, NEW g \in Header, NEW h \in Header, Alike(names, g, h)
  PROVE  /\ Len(Named(g, names)) = Len(Named(h, names))
         /\ Equal(names, g, h) => Named(g, names) = Named(h, names)
<1>1. PICK F \in Seq(OneField), G \in Seq(OneField) : F = Fields(g) /\ G = Fields(h)
  BY FieldsAppend
<1>2. Pair(names, FALSE, F, G) /\ (Equal(names, g, h) => Pair(names, TRUE, F, G))
  BY <1>1, PairAlike
<1>3. Len(Filtered(names, F)) = Len(Filtered(names, G))
  BY <1>2, PairFiltered
<1>4. Equal(names, g, h) => Filtered(names, F) = Filtered(names, G)
  BY <1>2, PairFiltered
<1> QED
  BY <1>1, <1>3, <1>4, NamedIs

-----------------------------------------------------------------------------
(* A line that Post takes out.                                             *)

Long(N) == \E i \in 1 .. Len(N) : Len(N[i]) > 1

\* A field is folded when one of its name is long.
LEMMA FoldedIs ==
  \A h \in Header : \A name : Folded(h, name) <=> Long(Named(h, {name}))
<1> TAKE h \in Header
<1> TAKE name
<1>1. PICK N \in Seq(OneField) : N = Named(h, {name})
  <2>1. PICK F \in Seq(OneField) : F = Fields(h)
    BY FieldsAppend
  <2> QED
    BY <2>1, FilteredAppend, NamedIs
<1>2. DOMAIN N = 1 .. Len(N)
  BY LenProperties
<1> QED
  BY <1>1, <1>2 DEF Folded, Long

\* What is long stays so.
LEMMA LongAppend ==
  ASSUME NEW N \in Seq(OneField), NEW f \in OneField
  PROVE  /\ Long(N) => Long(Append(N, f))
         /\ Len(f) > 1 => Long(Append(N, f))
         /\ Long(Append(N, f)) => Long(N) \/ Len(f) > 1
<1>1. PICK n \in Nat : n = Len(N)
  BY LenProperties
<1> DEFINE Q == Append(N, f)
<1>2. Len(Q) = n + 1 /\ Q[n + 1] = f /\ \A i \in 1 .. n : Q[i] = N[i]
  BY <1>1, AppendProperties
<1> HIDE DEF Q
<1>3. \A i : i \in 1 .. n + 1 <=> i \in 1 .. n \/ i = n + 1
  OBVIOUS
<1> QED
  BY <1>1, <1>2, <1>3 DEF Long, Q

\* What is long stays so as the header grows.
LEMMA LongGrows ==
  ASSUME NEW names, NEW h \in Header, NEW line \in Seq(Letter), Long(Named(h, names))
  PROVE  Long(Named(Append(h, line), names))
<1>1. h # << >>
  <2>1. Named(<< >>, names) = << >> /\ Len(<< >>) = 0
    BY NamedIs, FilteredNone, FieldsAppend
  <2>2. ~Long(Named(<< >>, names))
    BY <2>1 DEF Long
  <2> QED
    BY <2>2
<1>2. PICK F \in Seq(OneField) : F = Fields(h)
  BY FieldsAppend
<1>3. Long(Filtered(names, F))
  BY <1>2, NamedIs
<1>4. CASE ~IsFold(line)
  <2>1. PICK f \in OneField : f = <<line>>
    BY FieldGrows
  <2>2. Fields(Append(h, line)) = Append(F, f)
    BY <1>2, <1>4, <2>1, FieldsGrow
  <2>3. PICK N \in Seq(OneField) : N = Filtered(names, F)
    BY FilteredAppend
  <2>4. Filtered(names, Append(F, f)) \in {N, Append(N, f)}
    BY <2>3, FilteredOne DEF Takes, Leaves
  <2>5. Long(N) /\ Long(Append(N, f))
    BY <1>3, <2>3, LongAppend
  <2> QED
    BY <2>2, <2>4, <2>5, NamedIs
<1>5. CASE IsFold(line)
  <2>1. \E r \in Seq(OneField), f, g \in OneField :
          /\ Fields(h) = Append(r, f) /\ g = Append(f, line) /\ Fields(Append(h, line)) = Append(r, g)
          /\ g[1] = f[1]
    BY <1>1, <1>5, FieldsGrow
  <2>2. PICK r \in Seq(OneField), f \in OneField, g \in OneField :
          F = Append(r, f) /\ g = Append(f, line) /\ Fields(Append(h, line)) = Append(r, g) /\ g[1] = f[1]
    BY <1>2, <2>1
  <2>3. Of(names, f) <=> Of(names, g)
    BY <2>2 DEF Of
  <2>4. PICK R \in Seq(OneField) : R = Filtered(names, r)
    BY FilteredAppend
  <2>5. Len(f) > 1 => Len(g) > 1
    <3>1. Len(g) = Len(f) + 1 /\ Len(f) \in Nat
      BY <2>2, HeaderAppend DEF OneField
    <3> QED
      BY <3>1
  <2>6. CASE Of(names, f)
    <3>1. Filtered(names, F) = Append(R, f) /\ Filtered(names, Append(r, g)) = Append(R, g)
      BY <2>2, <2>3, <2>4, <2>6, FilteredOne DEF Takes
    <3>2. Long(R) \/ Len(f) > 1
      BY <1>3, <3>1, LongAppend
    <3>3. Long(Append(R, g))
      BY <2>5, <3>2, LongAppend
    <3> QED
      BY <2>2, <3>1, <3>3, NamedIs
  <2>7. CASE ~Of(names, f)
    <3>1. Filtered(names, F) = R /\ Filtered(names, Append(r, g)) = R
      BY <2>2, <2>3, <2>4, <2>7, FilteredOne DEF Leaves
    <3> QED
      BY <1>3, <2>2, <3>1, NamedIs
  <2> QED
    BY <2>6, <2>7
<1> QED
  BY <1>4, <1>5

\* A line with one of the names, that the next line continues.
LEMMA LongBlank ==
  ASSUME NEW names, NEW a \in Header, NEW line \in Seq(Letter), ~IsFold(line), In(names, line)
  PROVE  \A c \in Header : Blank(c) => Long(Named(Append(a, line) \o c, names))
<1> DEFINE X == Seq(Letter)
           T == {c \in Header : Blank(c) => Long(Named(Append(a, line) \o c, names))}
<1>1. PICK p \in Header : p = Append(a, line) /\ p # << >>
  BY HeaderAppend
<1>2. << >> \in T
  BY EmptySeq DEF Header, Blank
<1>3. ASSUME NEW c \in Header, NEW m \in Seq(Letter), c \in T
      PROVE  Append(c, m) \in T
  <2> SUFFICES ASSUME Blank(Append(c, m))
               PROVE  Long(Named(p \o Append(c, m), names))
    BY <1>1, HeaderAppend
  <2>1. PICK pc1 \in Header : pc1 = p \o c /\ p \o Append(c, m) = Append(pc1, m)
    <3>1. p \in Seq(X) /\ c \in Seq(X) /\ m \in X
      BY DEF Header
    <3> HIDE DEF X
    <3>2. p \o Append(c, m) = Append(p \o c, m)
      BY <3>1, AppendBehind DEF AppendsBehind
    <3> QED
      BY <3>2, HeaderConcat
  <2>2. CASE c # << >>
    <3>1. Len(c) # 0
      BY <2>2, EmptySeq DEF Header
    <3>2. 1 \in 1 .. Len(c)
      BY <3>1, HeaderAppend
    <3>3. Append(c, m)[1] = c[1]
      BY <3>2, HeaderAppend
    <3>4. Blank(c)
      BY <2>2, <3>3 DEF Blank
    <3>5. Long(Named(pc1, names))
      BY <1>1, <1>3, <2>1, <3>4
    <3> QED
      BY <2>1, <3>5, LongGrows
  <2>3. CASE c = << >>
    <3>1. Len(c) = 0
      BY <2>3
    <3>2. Append(c, m)[0 + 1] = m /\ 0 + 1 = 1
      BY <3>1, HeaderAppend
    <3>3. IsFold(m)
      BY <3>2 DEF Blank
    <3>4. pc1 = p
      <4>1. p \in Seq(X)
        BY DEF Header
      <4> HIDE DEF X
      <4> QED
        BY <2>1, <2>3, <4>1, ConcatEmptySeq
    <3>5. PICK A \in Seq(OneField), f \in OneField : A = Fields(a) /\ f = <<line>>
      BY FieldsAppend, FieldGrows
    <3>6. Fields(p) = Append(A, f)
      BY <1>1, <3>5, FieldsGrow
    <3>7. PICK g \in OneField : g = Append(f, m)
      BY FieldGrows
    <3>8. Fields(Append(p, m)) = Append(A, g)
      <4>1. Fields(Append(p, m)) = AddToFields(Append(A, f), m)
        BY <3>6, FieldsAppend
      <4> QED
        BY <3>3, <3>7, <4>1, AddToFold DEF Extends, Longer
    <3>9. Of(names, g)
      BY <3>5, <3>7, FieldFirst DEF Of, In
    <3>10. Len(g) > 1
      <4>1. Len(g) = Len(f) + 1 /\ Len(f) = 1
        BY <3>5, <3>7, HeaderAppend DEF OneField
      <4> QED
        BY <4>1
    <3>11. PICK N \in Seq(OneField) : N = Filtered(names, A)
      BY FilteredAppend
    <3>12. Filtered(names, Append(A, g)) = Append(N, g)
      BY <3>9, <3>11, FilteredOne DEF Takes
    <3> QED
      BY <2>1, <3>4, <3>8, <3>10, <3>12, LongAppend, NamedIs
  <2> QED
    BY <2>2, <2>3
<1>4. Header \subseteq T
  <2> HIDE DEF T
  <2> QED
    BY <1>2, <1>3, HeaderInduction
<1> QED
  BY <1>4

\* A header parted at its t-th line.
Parted(h, t, a, c) ==
  /\ a \in Header /\ c \in Header /\ Len(a) = t - 1 /\ Len(c) = Len(h) - t
  /\ h = Append(a, h[t]) \o c /\ RemoveAt(h, t) = a \o c
  /\ \A j \in 1 .. t - 1 : a[j] = h[j]

\* The lines before and behind a line.
LEMMA PartedAt ==
  ASSUME NEW h \in Header, NEW t \in 1 .. Len(h)
  PROVE  Parted(h, t, SubSeq(h, 1, t - 1), SubSeq(h, t + 1, Len(h)))
<1> DEFINE X == Seq(Letter)
           a == SubSeq(h, 1, t - 1)
           c == SubSeq(h, t + 1, Len(h))
<1>1. h \in Seq(X)
  BY DEF Header
<1> HIDE DEF X
<1>2. PICK n \in Nat : n = Len(h)
  BY <1>1
<1>3. t \in 1 .. n /\ t - 1 \in Nat /\ t - 1 < n /\ (t - 1) + 1 = t /\ (t - 1) + 2 = t + 1
  BY <1>2
<1>4. SubSeq(h, t, n) = <<h[t]>> \o c /\ c \in Seq(X)
  BY <1>1, <1>2, <1>3, SubSeqFirst
<1>5. SubSeq(h, 1, t) = Append(a, h[t]) /\ a \in Seq(X) /\ h[t] \in X
  BY <1>1, <1>2, <1>3, SubSeqLast
<1>6. Len(a) = t - 1 /\ \A j \in 1 .. t - 1 : a[j] = h[j]
  BY <1>1, <1>2, <1>3
<1>7. Len(c) = n - t
  BY <1>1, <1>2, <1>3
<1>8. h = SubSeq(h, 1, t) \o c
  <2>1. Len(SubSeq(h, 1, t)) = t /\ SubSeq(h, 1, t) \in Seq(X) /\ \A j \in 1 .. t : SubSeq(h, 1, t)[j] = h[j]
    BY <1>1, <1>2, <1>3
  <2>2. \A j \in 1 .. n - t : c[j] = h[t + j]
    BY <1>1, <1>2, <1>3
  <2>11. PICK b \in Seq(X), d \in Seq(X) : b = SubSeq(h, 1, t) /\ d = c
    BY <1>4, <2>1
  <2>3. PICK q : q = b \o d
    OBVIOUS
  <2>9. \A j \in 1 .. n - t : d[j] = h[t + j]
    BY <2>2, <2>11
  <2>10. Len(b) = t /\ Len(d) = n - t /\ \A j \in 1 .. t : b[j] = h[j]
    BY <1>7, <2>1, <2>11
  <2>4. ConcatOf(X, b, d, q)
    BY <2>3, ConcatIs
  <2> HIDE DEF a, c
  <2>5. q \in Seq(X) /\ Len(q) = n
    BY <1>3, <2>4, <2>10 DEF ConcatOf
  <2>6. \A j \in 1 .. n : q[j] = h[j]
    <3> SUFFICES ASSUME NEW j \in 1 .. n PROVE q[j] = h[j]
      OBVIOUS
    <3>1. q[j] = IF j <= t THEN b[j] ELSE d[j - t]
      <4>1. j \in 1 .. t + (n - t)
        BY <1>3
      <4> QED
        BY <2>4, <2>10, <4>1 DEF ConcatOf
    <3>2. j > t => j - t \in 1 .. n - t /\ t + (j - t) = j
      BY <1>3
    <3>3. j <= t => j \in 1 .. t
      BY <1>3
    <3> QED
      BY <2>9, <2>10, <3>1, <3>2, <3>3, <1>3
  <2> QED
    BY <1>1, <1>2, <2>3, <2>5, <2>6, <2>11, SeqEqual
<1>9. RemoveAt(h, t) = a \o c
  BY DEF RemoveAt
<1>10. a \in Header /\ c \in Header
  BY <1>4, <1>5 DEF X, Header
<1> QED
  BY <1>2, <1>5, <1>6, <1>7, <1>8, <1>9, <1>10 DEF Parted

\* No line is empty.
Solid(h) == \A j \in 1 .. Len(h) : h[j] # << >>

\* A header of solid parts is solid.
LEMMA SolidConcat ==
  \A a, b \in Header : Solid(a) /\ Solid(b) => Solid(a \o b)
<1> DEFINE X == Seq(Letter)
<1> SUFFICES ASSUME NEW a \in Header, NEW b \in Header, Solid(a), Solid(b)
             PROVE  Solid(a \o b)
  OBVIOUS
<1>1. a \in Seq(X) /\ b \in Seq(X)
  BY DEF Header
<1> HIDE DEF X
<1>2. PICK q : q = a \o b
  OBVIOUS
<1>3. ConcatOf(X, a, b, q)
  BY <1>1, <1>2, ConcatIs
<1>4. PICK m \in Nat, n \in Nat : m = Len(a) /\ n = Len(b)
  BY <1>1
<1>5. ASSUME NEW j \in 1 .. Len(q) PROVE q[j] # << >>
  <2>1. j \in 1 .. m + n /\ q[j] = IF j <= m THEN a[j] ELSE b[j - m]
    BY <1>3, <1>4 DEF ConcatOf
  <2>2. j <= m => j \in 1 .. m
    BY <2>1
  <2>3. ~(j <= m) => j - m \in 1 .. n
    BY <2>1
  <2> QED
    BY <1>4, <2>1, <2>2, <2>3 DEF Solid
<1> QED
  BY <1>2, <1>5 DEF Solid

\* A line that is not empty keeps a header solid.
LEMMA SolidAppend ==
  \A h \in Header, line \in Seq(Letter) : Solid(h) /\ line # << >> => Solid(Append(h, line))
<1> SUFFICES ASSUME NEW h \in Header, NEW line \in Seq(Letter), Solid(h), line # << >>
             PROVE  Solid(Append(h, line))
  OBVIOUS
<1>1. PICK n \in Nat : n = Len(h)
  BY HeaderAppend
<1>2. Len(Append(h, line)) = n + 1 /\ Append(h, line)[n + 1] = line /\ \A i \in 1 .. n : Append(h, line)[i] = h[i]
  BY <1>1, HeaderAppend
<1>3. ASSUME NEW j \in 1 .. n + 1 PROVE Append(h, line)[j] # << >>
  <2>1. j = n + 1 \/ j \in 1 .. n
    OBVIOUS
  <2> QED
    BY <1>1, <1>2, <2>1 DEF Solid
<1> QED
  BY <1>2, <1>3 DEF Solid

\* A line that continues none is a field of its own.
NamedGrows(h, line, names) ==
  Named(Append(h, line), names) = IF In(names, line) THEN Append(Named(h, names), <<line>>) ELSE Named(h, names)

\* One line more that continues none.
LEMMA NamedLine ==
  \A h \in Header, line \in Seq(Letter) : ~IsFold(line) => \A names : NamedGrows(h, line, names)
<1> SUFFICES ASSUME NEW h \in Header, NEW line \in Seq(Letter), ~IsFold(line), NEW names
             PROVE  NamedGrows(h, line, names)
  OBVIOUS
<1>1. ~IsFold(line) => Named(Append(h, line), names)
                         = IF line # << >> /\ line[1] \in names THEN Append(Named(h, names), <<line>>)
                                                                ELSE Named(h, names)
  BY NamedAppend
<1> QED
  BY <1>1 DEF NamedGrows, In

\* A line that nothing continues is taken out of a header.
Removes(h, t, name) ==
  /\ RemoveAt(h, t) \in Header
  /\ Solid(h) => Solid(RemoveAt(h, t))
  /\ \A names : name \notin names => Named(RemoveAt(h, t), names) = Named(h, names)
  /\ Named(h, {name}) # << >> /\ Len(Named(h, {name})) \in Nat
  /\ Len(Named(RemoveAt(h, t), {name})) = Len(Named(h, {name})) - 1

\* RemoveAt takes one field, and no other.
LEMMA LineRemoved ==
  ASSUME NEW h \in Header, NEW name, Fieldlike({name}), ~Folded(h, name),
         NEW t \in 1 .. Len(h), IsField(h[t], name)
  PROVE  Removes(h, t, name)
<1> DEFINE X == Seq(OneField)
<1>1. PICK a \in Header, c \in Header : Parted(h, t, a, c)
  BY PartedAt DEF Parted
<1>2. PICK l \in Seq(Letter), p \in Header : l = h[t] /\ p = Append(a, l) /\ h = p \o c /\ RemoveAt(h, t) = a \o c
  <2>1. h[t] \in Seq(Letter)
    BY DEF Header
  <2> QED
    BY <1>1, <2>1, HeaderAppend DEF Parted
<1>3. In({name}, l) /\ ~IsFold(l)
  BY <1>2, FoldName DEF In, IsField
<1>4. ~Blank(c)
  <2>1. Blank(c) => Long(Named(p \o c, {name}))
    BY <1>2, <1>3, LongBlank
  <2> QED
    BY <1>2, <2>1, FoldedIs
<1>5. \A names : /\ Named(h, names) = Named(p, names) \o Named(c, names)
                 /\ Named(RemoveAt(h, t), names) = Named(a, names) \o Named(c, names)
  <2> SUFFICES ASSUME NEW names
               PROVE  /\ Named(h, names) = Named(p, names) \o Named(c, names)
                      /\ Named(RemoveAt(h, t), names) = Named(a, names) \o Named(c, names)
    OBVIOUS
  <2>1. NamedJoin(names, p, c) /\ NamedJoin(names, a, c)
    BY <1>4, NamedConcat
  <2> QED
    BY <1>2, <2>1 DEF NamedJoin
<1>6. \A names : Named(a, names) \in X /\ Named(c, names) \in X /\ Named(p, names) \in X
  BY NamedAppend
<1>7. \A names : Named(p, names) = IF In(names, l) THEN Append(Named(a, names), <<l>>) ELSE Named(a, names)
  <2> SUFFICES ASSUME NEW names
               PROVE  Named(p, names) = IF In(names, l) THEN Append(Named(a, names), <<l>>) ELSE Named(a, names)
    OBVIOUS
  <2>1. NamedGrows(a, l, names)
    BY <1>3, NamedLine
  <2> QED
    BY <1>2, <2>1 DEF NamedGrows
<1>8. \A names : name \notin names => Named(RemoveAt(h, t), names) = Named(h, names)
  <2>1. \A names : name \notin names => ~In(names, l)
    BY <1>3 DEF In
  <2> QED
    BY <1>5, <1>7, <2>1
<1>9. /\ Named(h, {name}) # << >> /\ Len(Named(h, {name})) \in Nat
      /\ Len(Named(RemoveAt(h, t), {name})) = Len(Named(h, {name})) - 1
  <2>1. PICK A \in X, C \in X, f \in OneField : A = Named(a, {name}) /\ C = Named(c, {name}) /\ f = <<l>>
    BY <1>6, FieldGrows
  <2>2. Named(h, {name}) = Append(A, f) \o C /\ Named(RemoveAt(h, t), {name}) = A \o C
    BY <1>3, <1>5, <1>7, <2>1
  <2> HIDE DEF X
  <2>3. PICK m \in Nat, n \in Nat : m = Len(A) /\ n = Len(C)
    BY <2>1 DEF X
  <2>4. Len(A \o C) = m + n
    BY <2>3 DEF X
  <2>5. Len(Append(A, f) \o C) = m + 1 + n
    BY <2>3 DEF X
  <2>6. m + 1 + n # 0 /\ m + n = (m + 1 + n) - 1 /\ Len(<< >>) = 0 /\ m + 1 + n \in Nat
    OBVIOUS
  <2> QED
    BY <2>2, <2>4, <2>5, <2>6
<1>10. RemoveAt(h, t) \in Header
  BY <1>2, HeaderConcat
<1>11. Solid(h) => Solid(RemoveAt(h, t))
  <2> SUFFICES ASSUME Solid(h) PROVE Solid(a \o c)
    BY <1>2
  <2>1. Solid(a)
    <3>1. \A j \in 1 .. Len(a) : j \in 1 .. Len(h) /\ a[j] = h[j]
      <4>1. PICK n \in Nat : n = Len(h)
        BY HeaderAppend
      <4>2. Len(a) = t - 1 /\ t \in 1 .. n
        BY <1>1, <4>1 DEF Parted
      <4>3. \A j \in 1 .. t - 1 : j \in 1 .. n
        BY <4>2
      <4> QED
        BY <1>1, <4>1, <4>2, <4>3 DEF Parted
    <3> QED
      BY <3>1 DEF Solid
  <2>2. Solid(c)
    <3> DEFINE Y == Seq(Letter)
    <3>1. p \in Seq(Y) /\ c \in Seq(Y)
      BY DEF Header
    <3> HIDE DEF Y
    <3>2. ConcatOf(Y, p, c, h)
      BY <1>2, <3>1, ConcatIs
    <3>3. PICK m \in Nat, n \in Nat : m = Len(p) /\ n = Len(c)
      BY <3>1
    <3>4. ASSUME NEW j \in 1 .. n PROVE c[j] # << >>
      <4>1. m + j \in 1 .. m + n /\ ~(m + j <= m) /\ (m + j) - m = j
        OBVIOUS
      <4>2. h[m + j] = c[j] /\ Len(h) = m + n
        BY <3>2, <3>3, <4>1 DEF ConcatOf
      <4> QED
        BY <4>1, <4>2 DEF Solid
    <3> QED
      BY <3>3, <3>4 DEF Solid
  <2> QED
    BY <2>1, <2>2, SolidConcat
<1> QED
  BY <1>8, <1>9, <1>10, <1>11 DEF Removes

\* Erase: the first line with the name, if there is one.
Erases(h, name) ==
  /\ Erase(h, name) \in Header
  /\ Solid(h) => Solid(Erase(h, name))
  /\ \A names : name \notin names => Named(Erase(h, name), names) = Named(h, names)
  /\ Len(Named(h, {name})) \in Nat
  /\ Len(Named(Erase(h, name), {name})) = IF Named(h, {name}) = << >> THEN 0 ELSE Len(Named(h, {name})) - 1

\* Erase takes one field, and no other.
LEMMA EraseIs ==
  ASSUME NEW h \in Header, NEW name, Fieldlike({name}), ~Folded(h, name)
  PROVE  Erases(h, name)
<1> DEFINE t == GetHeaderIndex(h, name)
<1>1. t \in 0 .. Len(h) /\ (t = 0 <=> Named(h, {name}) = << >>)
  BY IndexNamed
<1>2. t # 0 => IsField(h[t], name)
  <2>1. PICK n \in Nat : n = Len(h)
    BY HeaderAppend
  <2> QED
    BY <2>1, IndexNone
<1>3. Erase(h, name) = IF t = 0 THEN h ELSE RemoveAt(h, t)
  BY Zenon DEF Erase
<1>4. CASE t = 0
  <2>1. Erase(h, name) = h /\ Named(h, {name}) = << >> /\ Len(<< >>) = 0
    BY <1>1, <1>3, <1>4
  <2> HIDE DEF t
  <2> QED
    BY <2>1 DEF Erases
<1>5. CASE t # 0
  <2> HIDE DEF t
  <2>1. t \in 1 .. Len(h)
    <3>1. PICK n \in Nat : n = Len(h)
      BY HeaderAppend
    <3>2. t \in 0 .. n
      BY <1>1, <3>1
    <3> QED
      BY <1>5, <3>1, <3>2
  <2>2. Removes(h, t, name)
    BY <1>2, <1>5, <2>1, LineRemoved
  <2> QED
    BY <1>1, <1>3, <1>5, <2>2 DEF Removes, Erases
<1> QED
  BY <1>4, <1>5

-----------------------------------------------------------------------------
(* The header that Post is given.                                          *)

\* A line as UpdatePath and the gateway leave it, and the lines of the sender.
Changed(line) == IF how.via = "mail" THEN Renamed(Pathed(line)) ELSE Pathed(line)
Known == [t \in DOMAIN MeantHead |-> Changed(MeantHead[t])]

\* A line of the field with the name.
LineOf(line, name) == line \in Seq(Letter) /\ line # << >> /\ line[1] = name /\ ~IsFold(line)

\* The lines of fields are: a line that begins with a name continues no other.
LEMMA NamedLineOf ==
  \A name \in Names, line \in Seq(Letter) : IsField(line, name) => LineOf(line, name)
<1> SUFFICES ASSUME NEW name \in Names, NEW line \in Seq(Letter), IsField(line, name)
             PROVE  LineOf(line, name)
  OBVIOUS
<1>1. Fieldlike({name})
  BY FieldlikeNames
<1>2. ~IsFold(line)
  BY <1>1, FoldName
<1> QED
  BY <1>2 DEF LineOf, IsField

\* What becomes of a line: only those of two fields change.
LEMMA ChangedIs ==
  \A line \in Seq(Letter) :
    /\ Changed(line) \in Seq(Letter) /\ Renamed(line) \in Seq(Letter)
    /\ IsField(line, "Path:") => LineOf(Changed(line), "Path:") /\ Renamed(line) = line /\ Changed(line) = Pathed(line)
    /\ IsField(line, "From ") => LineOf(Renamed(line), "X-Original-From:")
    /\ ~IsField(line, "Path:") => Changed(line) = IF how.via = "mail" THEN Renamed(line) ELSE line
    /\ ~IsField(line, "From ") => Renamed(line) = line
<1> SUFFICES ASSUME NEW line \in Seq(Letter)
             PROVE  /\ Changed(line) \in Seq(Letter) /\ Renamed(line) \in Seq(Letter)
                    /\ IsField(line, "Path:") => LineOf(Changed(line), "Path:") /\ Renamed(line) = line /\ Changed(line) = Pathed(line)
                    /\ IsField(line, "From ") => LineOf(Renamed(line), "X-Original-From:")
                    /\ ~IsField(line, "Path:") => Changed(line) = IF how.via = "mail" THEN Renamed(line) ELSE line
                    /\ ~IsField(line, "From ") => Renamed(line) = line
  OBVIOUS
<1>1. "Path:" \in Names /\ "X-Original-From:" \in Names /\ "From " \in Names
  BY DEF Names, Mailed
<1>2. Pathed(line) \in Seq(Letter) /\ (IsField(line, "Path:") => IsField(Pathed(line), "Path:"))
  BY PathedType DEF IsField
<1>3. \A l \in Seq(Letter) : Renamed(l) \in Seq(Letter) /\ (IsField(l, "From ") => IsField(Renamed(l), "X-Original-From:"))
  BY RenamedType DEF IsField
<1>4. \A l : IsField(l, "Path:") => ~IsField(l, "From ")
  BY DEF IsField
<1>5. \A l : ~IsField(l, "From ") => Renamed(l) = l
  BY Zenon DEF Renamed
<1>6. ~IsField(line, "Path:") => Pathed(line) = line
  BY Zenon DEF Pathed
<1>7. Changed(line) = IF how.via = "mail" THEN Renamed(Pathed(line)) ELSE Pathed(line)
  BY Zenon DEF Changed
<1>8. IsField(line, "Path:") => LineOf(Pathed(line), "Path:")
  BY <1>1, <1>2, NamedLineOf
<1>9. IsField(line, "From ") => LineOf(Renamed(line), "X-Original-From:")
  BY <1>1, <1>3, NamedLineOf
<1> QED
  BY <1>2, <1>3, <1>4, <1>5, <1>6, <1>7, <1>8, <1>9

\* The lines of a header, each with its type.
LEMMA HeaderLines ==
  \A h \in Header : /\ Len(h) \in Nat /\ DOMAIN h = 1 .. Len(h)
                    /\ \A t \in 1 .. Len(h) : h[t] \in Seq(Letter)
<1> DEFINE X == Seq(Letter)
<1> SUFFICES ASSUME NEW h \in Header
             PROVE  /\ Len(h) \in Nat /\ DOMAIN h = 1 .. Len(h)
                    /\ \A t \in 1 .. Len(h) : h[t] \in X
  OBVIOUS
<1>1. h \in Seq(X)
  BY DEF Header
<1> HIDE DEF X
<1> QED
  BY <1>1, LenProperties, ElementOfSeq

\* Every line of the sender, and one more where there was none.
LEMMA GivenIs ==
  ASSUME TypeOK
  PROVE  /\ MeantHead \in Header /\ Known \in Header /\ Len(Known) = Len(MeantHead)
         /\ \A t \in 1 .. Len(MeantHead) : Known[t] = Changed(MeantHead[t])
         /\ Given = IF GetHeaderIndex(MeantHead, "Path:") # 0 THEN Known ELSE Append(Known, PathLine)
         /\ KeptHead \in Header /\ Len(KeptHead) = Len(MeantHead)
         /\ \A t \in 1 .. Len(MeantHead) : KeptHead[t] = IF how.via = "mail" THEN Renamed(MeantHead[t]) ELSE MeantHead[t]
<1> DEFINE h == MeantHead
           X == Seq(Letter)
           p == [t \in DOMAIN h |-> Pathed(h[t])]
<1>1. PICK n \in Nat : n = Len(h) /\ h \in Header /\ DOMAIN h = 1 .. n /\ \A t \in 1 .. n : h[t] \in X
  BY MeantIs, HeaderLines
<1>2. \A t \in 1 .. n : Pathed(h[t]) \in X /\ Changed(h[t]) \in X
  BY <1>1, PathedType, ChangedIs
<1>3. p \in Header /\ Len(p) = n /\ \A t \in 1 .. n : p[t] = Pathed(h[t])
  <2>1. h \in Seq(X)
    BY <1>1 DEF Header
  <2> HIDE DEF X, h
  <2>2. DOMAIN p = DOMAIN h /\ p = [t \in DOMAIN h |-> p[t]] /\ \A t \in 1 .. n : p[t] = Pathed(h[t])
    BY <1>1
  <2>3. \A t \in 1 .. Len(h) : p[t] \in X
    BY <1>1, <1>2, <2>2
  <2> HIDE DEF p
  <2>4. p \in Seq(X) /\ Len(p) = Len(h)
    BY <2>1, <2>2, <2>3, LinesType
  <2> QED
    BY <1>1, <2>2, <2>4 DEF X, Header
<1>4. Known \in Header /\ Len(Known) = n /\ \A t \in 1 .. n : Known[t] = Changed(h[t])
  <2> DEFINE k == [t \in DOMAIN h |-> Changed(h[t])]
  <2>0. k = Known
    BY DEF Known
  <2>1. h \in Seq(X)
    BY <1>1 DEF Header
  <2> HIDE DEF X, h
  <2>2. DOMAIN k = DOMAIN h /\ k = [t \in DOMAIN h |-> k[t]] /\ \A t \in 1 .. n : k[t] = Changed(h[t])
    BY <1>1
  <2>3. \A t \in 1 .. Len(h) : k[t] \in X
    BY <1>1, <1>2, <2>2
  <2> HIDE DEF k
  <2>4. k \in Seq(X) /\ Len(k) = Len(h)
    BY <2>1, <2>2, <2>3, LinesType
  <2> QED
    BY <1>1, <2>0, <2>2, <2>4 DEF X, Header
<1>5. UpdatePath(h) = IF GetHeaderIndex(h, "Path:") # 0 THEN p ELSE Append(p, PathLine)
  BY DEF UpdatePath, Pathed, Rested, PathLine
<1> HIDE DEF p, h
<1>6. PICK u \in Header : u = UpdatePath(h)
  BY <1>1, UpdatePathIs
<1>7. ASSUME how.via = "mail" PROVE Massaged(u) = IF GetHeaderIndex(h, "Path:") # 0 THEN Known ELSE Append(Known, PathLine)
  <2>1. \A t \in 1 .. n : Renamed(Pathed(h[t])) = Changed(h[t])
    BY <1>7 DEF Changed
  <2>2. PICK q \in Header : q = Massaged(u) /\ Len(q) = Len(u) /\ \A t \in 1 .. Len(u) : q[t] = Renamed(u[t])
    BY MassagedIs
  <2>3. CASE GetHeaderIndex(h, "Path:") # 0
    <3>1. u = p
      BY <1>5, <1>6, <2>3
    <3>2. Len(q) = n /\ \A t \in 1 .. n : q[t] = Known[t]
      BY <1>3, <1>4, <2>1, <2>2, <3>1
    <3>3. q = Known
      <4>1. q \in Seq(X) /\ Known \in Seq(X) /\ Len(Known) = n
        BY <1>4 DEF Header
      <4> HIDE DEF X
      <4> QED
        BY <3>2, <4>1, SeqEqual
    <3> QED
      BY <2>2, <2>3, <3>3
  <2>4. CASE GetHeaderIndex(h, "Path:") = 0
    <3>0. PICK l \in X : l = PathLine /\ l[1] = "Path:" /\ l # << >>
      <4>0. Len(PathLine) # 0
        BY PathLineType
      <4>1. PathLine # << >>
        BY <4>0, EmptySeq
      <4> QED
        BY <4>1, PathLineType
    <3>1. u = Append(p, l) /\ Len(u) = n + 1 /\ u[n + 1] = l /\ \A t \in 1 .. n : u[t] = p[t]
      BY <1>3, <1>5, <1>6, <2>4, <3>0, HeaderAppend
    <3>2. Renamed(l) = l
      <4>1. ~IsField(l, "From ")
        BY <3>0 DEF IsField
      <4> QED
        BY <4>1 DEF Renamed
    <3>3. PICK w \in Header : w = Append(Known, l) /\ Len(w) = n + 1 /\ w[n + 1] = l /\ \A t \in 1 .. n : w[t] = Known[t]
      BY <1>4, HeaderAppend
    <3>4. ASSUME NEW t \in 1 .. n + 1 PROVE q[t] = w[t]
      <4>1. t = n + 1 \/ t \in 1 .. n
        OBVIOUS
      <4>2. q[t] = Renamed(u[t])
        BY <2>2, <3>1
      <4> QED
        BY <1>3, <1>4, <2>1, <3>1, <3>2, <3>3, <4>1, <4>2
    <3>5. q = w
      <4>1. q \in Seq(X) /\ w \in Seq(X) /\ Len(w) = n + 1 /\ Len(q) = n + 1
        BY <2>2, <3>1, <3>3 DEF Header
      <4> HIDE DEF X
      <4> QED
        BY <3>4, <4>1, SeqEqual
    <3> QED
      BY <2>2, <2>4, <3>0, <3>3, <3>5
  <2> QED
    BY <2>3, <2>4
<1>8. ASSUME how.via # "mail" PROVE p = Known
  <2>1. \A t \in 1 .. n : p[t] = Known[t]
    BY <1>3, <1>4, <1>8 DEF Changed
  <2>2. p \in Seq(X) /\ Known \in Seq(X)
    BY <1>3, <1>4 DEF Header
  <2> HIDE DEF X
  <2> QED
    BY <1>3, <1>4, <2>1, <2>2, SeqEqual
<1>9. Given = IF GetHeaderIndex(h, "Path:") # 0 THEN Known ELSE Append(Known, PathLine)
  <2>1. CASE how.via = "mail"
    BY <1>6, <1>7, <2>1 DEF Given, h
  <2>2. CASE how.via # "mail"
    BY <1>5, <1>6, <1>8, <2>2 DEF Given, h
  <2> QED
    BY <2>1, <2>2
<1>10. /\ KeptHead \in Header /\ Len(KeptHead) = n
       /\ \A t \in 1 .. n : KeptHead[t] = IF how.via = "mail" THEN Renamed(h[t]) ELSE h[t]
  <2>1. CASE how.via = "mail"
    BY <1>1, <2>1, MassagedIs DEF KeptHead, h
  <2>2. CASE how.via # "mail"
    BY <1>1, <2>2 DEF KeptHead, h
  <2> QED
    BY <2>1, <2>2
<1> QED
  BY <1>1, <1>4, <1>9, <1>10 DEF h

\* A line corresponds to itself.
LEMMA SameLine == \A names, line : Same(names, line, line)
BY Zenon DEF Same

\* Lines of two fields, neither of which has one of the names.
LEMMA SameOthers ==
  \A names, l, m, a, b : LineOf(l, a) /\ LineOf(m, b) /\ a \notin names /\ b \notin names
                           => Same(names, l, m) /\ ~In(names, l) /\ ~In(names, m)
BY SMT DEF Same, LineOf, In

\* Lines of the same field.
LEMMA SameField ==
  \A names, l, m, a : LineOf(l, a) /\ LineOf(m, a) => Same(names, l, m)
BY Zenon DEF Same, LineOf, In

\* The gateway changes the fields of two names.
LEMMA KeptNamed ==
  ASSUME TypeOK, NEW names, "From " \notin names, "X-Original-From:" \notin names
  PROVE  Named(KeptHead, names) = Named(MeantHead, names)
<1>1. PICK h \in Header, g \in Header : h = MeantHead /\ g = KeptHead
  BY GivenIs
<1>2. Len(g) = Len(h) /\ \A t \in 1 .. Len(h) : g[t] = IF how.via = "mail" THEN Renamed(h[t]) ELSE h[t]
  BY <1>1, GivenIs
<1>3. ASSUME NEW t \in 1 .. Len(h) PROVE Same(names, g[t], h[t]) /\ (In(names, h[t]) => g[t] = h[t])
  <2>1. PICK m \in Seq(Letter) : m = h[t]
    BY HeaderLines
  <2>2. CASE g[t] = m
    BY <2>1, <2>2, SameLine
  <2>3. CASE g[t] # m
    <3>1. g[t] = Renamed(m) /\ Renamed(m) # m
      BY <1>2, <2>1, <2>3
    <3>2. IsField(m, "From ")
      BY <3>1, ChangedIs
    <3>3. LineOf(Renamed(m), "X-Original-From:")
      BY <3>2, ChangedIs
    <3>4. "From " \in Names
      BY DEF Names
    <3>5. LineOf(m, "From ")
      BY <3>2, <3>4, NamedLineOf
    <3> QED
      BY <2>1, <3>1, <3>3, <3>5, SameOthers
  <2> QED
    BY <2>2, <2>3
<1>4. Alike(names, g, h) /\ Equal(names, g, h)
  BY <1>2, <1>3 DEF Alike, Equal
<1> QED
  BY <1>1, <1>4, NamedAlike

\* UpdatePath changes those of one.
LEMMA KnownNamed ==
  ASSUME TypeOK
  PROVE  /\ \A names : "Path:" \notin names => Named(Known, names) = Named(KeptHead, names)
         /\ Len(Named(Known, {"Path:"})) = Len(Named(MeantHead, {"Path:"}))
<1>1. PICK h \in Header, g \in Header, k \in Header : h = MeantHead /\ g = KeptHead /\ k = Known
  BY GivenIs
<1>2. /\ Len(g) = Len(h) /\ \A t \in 1 .. Len(h) : g[t] = IF how.via = "mail" THEN Renamed(h[t]) ELSE h[t]
      /\ Len(k) = Len(h) /\ \A t \in 1 .. Len(h) : k[t] = Changed(h[t])
  BY <1>1, GivenIs
<1>3. "Path:" \in Names /\ "From " \in Names
  BY DEF Names, Mailed
<1>4. ASSUME NEW names, "Path:" \notin names PROVE Named(k, names) = Named(g, names)
  <2>1. ASSUME NEW t \in 1 .. Len(h) PROVE Same(names, k[t], g[t]) /\ (In(names, g[t]) => k[t] = g[t])
    <3>1. PICK m \in Seq(Letter) : m = h[t]
      BY HeaderLines
    <3>2. CASE IsField(m, "Path:")
      <4>1. g[t] = m /\ LineOf(k[t], "Path:")
        BY <1>2, <3>1, <3>2, ChangedIs
      <4>2. LineOf(m, "Path:")
        BY <1>3, <3>2, NamedLineOf
      <4> QED
        BY <1>4, <4>1, <4>2, SameOthers
    <3>3. CASE ~IsField(m, "Path:")
      <4>1. k[t] = g[t]
        BY <1>2, <3>1, <3>3, ChangedIs, ZenonT(60)
      <4> QED
        BY <4>1, SameLine
    <3> QED
      BY <3>2, <3>3
  <2>2. Alike(names, k, g) /\ Equal(names, k, g)
    BY <1>2, <2>1 DEF Alike, Equal
  <2> QED
    BY <2>2, NamedAlike
<1>5. Len(Named(k, {"Path:"})) = Len(Named(h, {"Path:"}))
  <2> DEFINE names == {"Path:"}
  <2>0. "From " \notin names /\ "X-Original-From:" \notin names
    OBVIOUS
  <2> HIDE DEF names
  <2>1. ASSUME NEW t \in 1 .. Len(h) PROVE Same(names, k[t], h[t])
    <3>1. PICK m \in Seq(Letter) : m = h[t]
      BY HeaderLines
    <3>2. CASE IsField(m, "Path:")
      <4>1. LineOf(k[t], "Path:")
        BY <1>2, <3>1, <3>2, ChangedIs
      <4>2. LineOf(m, "Path:")
        BY <1>3, <3>2, NamedLineOf
      <4> QED
        BY <3>1, <4>1, <4>2, SameField
    <3>3. CASE ~IsField(m, "Path:") /\ IsField(m, "From ")
      <4>1. LineOf(m, "From ") /\ LineOf(Renamed(m), "X-Original-From:")
        BY <1>3, <3>3, NamedLineOf, ChangedIs
      <4>2. k[t] = Renamed(m) \/ k[t] = m
        BY <1>2, <3>1, <3>3, ChangedIs
      <4> QED
        BY <2>0, <3>1, <4>1, <4>2, SameOthers, SameLine
    <3>4. CASE ~IsField(m, "Path:") /\ ~IsField(m, "From ")
      <4>1. k[t] = m
        BY <1>2, <3>1, <3>4, ChangedIs
      <4> QED
        BY <3>1, <4>1, SameLine
    <3> QED
      BY <3>2, <3>3, <3>4
  <2>2. Alike(names, k, h)
    BY <1>2, <2>1 DEF Alike
  <2>3. Len(Named(k, names)) = Len(Named(h, names))
    BY <2>2, NamedAlike
  <2> QED
    BY <2>3 DEF names
<1> QED
  BY <1>1, <1>4, <1>5

-----------------------------------------------------------------------------
(* A line of its own is added.                                             *)

Puts(h, line, name) ==
  /\ Append(h, line) \in Header
  /\ Solid(h) => Solid(Append(h, line))
  /\ \A names : name \notin names => Named(Append(h, line), names) = Named(h, names)
  /\ Named(Append(h, line), {name}) = Append(Named(h, {name}), <<line>>)

\* The line is the last field of its name, and changes no other.
LEMMA LinePut ==
  \A h \in Header : \A line, name : LineOf(line, name) => Puts(h, line, name)
<1> SUFFICES ASSUME NEW h \in Header, NEW line, NEW name, LineOf(line, name)
             PROVE  Puts(h, line, name)
  OBVIOUS
<1>1. line \in Seq(Letter) /\ ~IsFold(line) /\ line # << >>
  BY DEF LineOf
<1>2. \A names : NamedGrows(h, line, names)
  BY <1>1, NamedLine
<1>3. \A names : In(names, line) <=> name \in names
  BY DEF LineOf, In
<1>4. \A names : name \notin names => Named(Append(h, line), names) = Named(h, names)
  BY <1>2, <1>3, Zenon DEF NamedGrows
<1>5. Named(Append(h, line), {name}) = Append(Named(h, {name}), <<line>>)
  <2>1. In({name}, line)
    BY <1>3
  <2> QED
    BY <1>2, <2>1, Zenon DEF NamedGrows
<1>6. Append(h, line) \in Header /\ (Solid(h) => Solid(Append(h, line)))
  BY <1>1, HeaderAppend, SolidAppend
<1> QED
  BY <1>4, <1>5, <1>6 DEF Puts

\* One is appended to none.
LEMMA AppendNone == \A x : Append(<< >>, x) = <<x>>
OBVIOUS

\* This server is the first of a Path.
Ahead(line) == \E r \in Seq(Letter) : line = PathLine \o r

\* This server comes first in a Path that was there.
LEMMA PathedAhead ==
  ASSUME NEW line \in Seq(Letter), IsField(line, "Path:")
  PROVE  Ahead(Pathed(line))
<1>1. line # << >>
  BY DEF IsField
<1>2. Tail(line) \in Seq(Letter) /\ SubSeq(line, 3, Len(line)) \in Seq(Letter)
  BY <1>1, TailType, SuffixType
<1>3. Rested(line) \in Seq(Letter)
  BY <1>2, Zenon DEF Rested
<1>4. Pathed(line) = PathLine \o Rested(line)
  BY Zenon DEF Pathed
<1> QED
  BY <1>3, <1>4 DEF Ahead

\* ... and in the one that is added.
LEMMA PathLineIs == LineOf(PathLine, "Path:") /\ Ahead(PathLine)
<1>1. PICK l \in Seq(Letter) : l = PathLine /\ Len(l) = 3 /\ l[1] = "Path:"
  BY PathLineType
<1>2. l # << >>
  <2>1. Len(l) # 0
    BY <1>1
  <2> QED
    BY <2>1, EmptySeq
<1>3. "Path:" \in Names
  BY DEF Names, Mailed
<1>4. LineOf(l, "Path:")
  BY <1>1, <1>2, <1>3, NamedLineOf DEF IsField
<1>5. l = l \o << >> /\ << >> \in Seq(Letter)
  BY ConcatEmptySeq, EmptySeq
<1> QED
  BY <1>1, <1>4, <1>5 DEF Ahead

\* The header that Post is given: the sender's fields, and one Path at least.
LEMMA GivenNamed ==
  ASSUME TypeOK
  PROVE  /\ Given \in Header
         /\ \A names : "Path:" \notin names => Named(Given, names) = Named(KeptHead, names)
         /\ Len(Named(Given, {"Path:"})) = IF Named(MeantHead, {"Path:"}) = << >> THEN 1
                                           ELSE Len(Named(MeantHead, {"Path:"}))
         /\ \A t \in 1 .. Len(Given) : IsField(Given[t], "Path:") => Ahead(Given[t])
<1>0. PICK g : g = Given
  OBVIOUS
<1>1. PICK h \in Header, k \in Header : h = MeantHead /\ k = Known
  BY GivenIs
<1>2. /\ Len(k) = Len(h) /\ \A t \in 1 .. Len(h) : k[t] = Changed(h[t])
      /\ g = IF GetHeaderIndex(h, "Path:") # 0 THEN k ELSE Append(k, PathLine)
  BY <1>0, <1>1, GivenIs
<1>3. /\ \A names : "Path:" \notin names => Named(k, names) = Named(KeptHead, names)
      /\ Len(Named(k, {"Path:"})) = Len(Named(h, {"Path:"}))
  BY <1>0, <1>1, KnownNamed
<1>4. Fieldlike({"Path:"})
  BY FieldlikeNames DEF Names, Mailed
<1>5. GetHeaderIndex(h, "Path:") = 0 <=> Named(h, {"Path:"}) = << >>
  BY <1>4, IndexNamed
<1>6. \A t \in 1 .. Len(k) : IsField(k[t], "Path:") => Ahead(k[t])
  <2> SUFFICES ASSUME NEW t \in 1 .. Len(h), IsField(k[t], "Path:")
               PROVE  Ahead(k[t])
    BY <1>2
  <2>1. PICK m \in Seq(Letter) : m = h[t]
    BY HeaderLines
  <2>2. IsField(m, "Path:")
    <3> SUFFICES ASSUME ~IsField(m, "Path:") PROVE FALSE
      OBVIOUS
    <3>1. k[t] = m \/ k[t] = Renamed(m)
      BY <1>2, <2>1, ChangedIs
    <3>2. k[t] = Renamed(m) /\ Renamed(m) # m
      BY <3>1
    <3>3. LineOf(Renamed(m), "X-Original-From:")
      BY <3>2, ChangedIs
    <3> QED
      BY <3>2, <3>3 DEF LineOf, IsField
  <2>3. k[t] = Pathed(m)
    BY <1>2, <2>1, <2>2, ChangedIs
  <2> QED
    BY <2>2, <2>3, PathedAhead
<1>7. CASE GetHeaderIndex(h, "Path:") # 0
  BY <1>0, <1>1, <1>2, <1>3, <1>5, <1>6, <1>7
<1>8. CASE GetHeaderIndex(h, "Path:") = 0
  <2>1. PICK l \in Seq(Letter) : l = PathLine /\ LineOf(l, "Path:") /\ Ahead(l)
    BY PathLineIs DEF LineOf
  <2>2. g = Append(k, l)
    BY <1>2, <1>8, <2>1
  <2>3. Puts(k, l, "Path:")
    BY <2>1, LinePut
  <2>4. Len(Named(g, {"Path:"})) = 1
    <3>1. Len(Named(k, {"Path:"})) = 0 /\ Named(k, {"Path:"}) \in Seq(OneField)
      <4>1. Named(h, {"Path:"}) = << >> /\ Len(<< >>) = 0
        BY <1>5, <1>8
      <4> QED
        BY <1>3, <4>1, NamedAppend
    <3>2. Named(k, {"Path:"}) = << >>
      BY <3>1, EmptySeq
    <3>3. Named(g, {"Path:"}) = << <<l>> >>
      <4>1. Named(g, {"Path:"}) = Append(<< >>, <<l>>)
        BY <2>2, <2>3, <3>2, Zenon DEF Puts
      <4> QED
        BY <4>1, AppendNone
    <3> QED
      BY <3>3
  <2>5. \A t \in 1 .. Len(g) : IsField(g[t], "Path:") => Ahead(g[t])
    <3>1. PICK n \in Nat : n = Len(k) /\ Len(g) = n + 1 /\ g[n + 1] = l /\ \A t \in 1 .. n : g[t] = k[t]
      BY <2>2, HeaderAppend
    <3>2. \A t \in 1 .. n + 1 : t \in 1 .. n \/ t = n + 1
      OBVIOUS
    <3> QED
      BY <1>6, <2>1, <3>1, <3>2
  <2>6. \A names : "Path:" \notin names => Named(g, names) = Named(KeptHead, names)
    BY <1>3, <2>2, <2>3 DEF Puts
  <2>7. g \in Header
    BY <2>2, <2>3 DEF Puts
  <2> QED
    BY <1>0, <1>1, <1>5, <1>8, <2>4, <2>5, <2>6, <2>7
<1> QED
  BY <1>7, <1>8

-----------------------------------------------------------------------------
(* What Post adds.                                                         *)

\* A field that is added when the header has none.
Defaults(h, line, name) ==
  /\ Default(h, line) \in Header
  /\ Solid(h) => Solid(Default(h, line))
  /\ \A names : name \notin names => Named(Default(h, line), names) = Named(h, names)
  /\ Named(Default(h, line), {name}) = IF Named(h, {name}) = << >> THEN << <<line>> >> ELSE Named(h, {name})

\* A default adds one field where there is none.
LEMMA DefaultIs ==
  \A h \in Header, name \in Names : \A line : LineOf(line, name) => Defaults(h, line, name)
<1> SUFFICES ASSUME NEW h \in Header, NEW name \in Names, NEW line, LineOf(line, name)
             PROVE  Defaults(h, line, name)
  OBVIOUS
<1>1. line[1] = name
  BY DEF LineOf
<1>2. Fieldlike({name})
  BY FieldlikeNames
<1>3. GetHeaderIndex(h, name) = 0 <=> Named(h, {name}) = << >>
  BY <1>2, IndexNamed
<1>4. Default(h, line) = IF GetHeaderIndex(h, name) = 0 THEN Append(h, line) ELSE h
  BY <1>1, Zenon DEF Default
<1>5. Puts(h, line, name)
  BY LinePut
<1>6. CASE Named(h, {name}) = << >>
  <2>1. Default(h, line) = Append(h, line)
    BY <1>3, <1>4, <1>6
  <2>2. Named(Append(h, line), {name}) = << <<line>> >>
    <3>1. Named(Append(h, line), {name}) = Append(<< >>, <<line>>)
      BY <1>5, <1>6, Zenon DEF Puts
    <3> QED
      BY <3>1, AppendNone
  <2> QED
    BY <1>5, <1>6, <2>1, <2>2 DEF Puts, Defaults
<1>7. CASE Named(h, {name}) # << >>
  <2>1. Default(h, line) = h
    BY <1>3, <1>4, <1>7
  <2> QED
    BY <1>7, <2>1 DEF Defaults
<1> QED
  BY <1>6, <1>7

\* The lines of the server.
XrefLine == <<"Xref:", " ", "here", "number">>
DateLine == <<"Date:", " ", "now">>
HostLine == <<"NNTP-Posting-Host:", " ", "peer">>
IdLine == <<"Message-ID:", " ", "<", "number">>
LinesLine(n) == <<"Lines:", " ">> \o Decimal(n)

\* A text of one character.
LEMMA OneLetter == \A x \in Letter : <<x>> \in Seq(Letter) /\ Len(<<x>>) = 1 /\ <<x>>[1] = x
OBVIOUS

\* A name is a character of its own.
LEMMA NameLetter == \A name \in Names : name \in Letter
BY DEF Letter, Char, Names, Loaded, Mailed

\* Characters of such a line, and those behind its name.
LEMMA ServerLine ==
  ASSUME NEW name \in Names, NEW s \in Seq(Letter), NEW line, line = <<name>> \o s
  PROVE  LineOf(line, name)
<1>1. Fieldlike({name})
  BY FieldlikeNames
<1>2. name \in Letter
  BY NameLetter
<1>3. PICK a \in Seq(Letter) : a = <<name>> /\ Len(a) = 1 /\ a[1] = name
  BY <1>2, OneLetter
<1>4. ConcatOf(Letter, a, s, line)
  BY <1>3, ConcatIs
<1>5. Len(s) \in Nat
  BY LenProperties
<1>6. line \in Seq(Letter) /\ Len(line) # 0 /\ line[1] = name
  BY <1>3, <1>4, <1>5 DEF ConcatOf
<1>7. IsField(line, name)
  BY <1>6, EmptySeq DEF IsField
<1> QED
  BY <1>6, <1>7, NamedLineOf

\* A number has digits.
LEMMA DecimalType ==
  \A n \in Nat : Decimal(n) \in Seq(Letter) /\ Len(Decimal(n)) = n + 1
<1>1. "0" \in Letter
  BY DEF Letter, Char
<1> QED
  BY <1>1 DEF Decimal

\* The lines of the server are lines of their fields.
LEMMA ServerLines ==
  /\ LineOf(XrefLine, "Xref:") /\ LineOf(DateLine, "Date:")
  /\ LineOf(HostLine, "NNTP-Posting-Host:") /\ LineOf(IdLine, "Message-ID:")
  /\ \A n \in Nat : LineOf(LinesLine(n), "Lines:")
<1> DEFINE b == " "
<1>1. \A a, c : <<a, b, c>> = <<a>> \o <<b, c>> /\ \A d : <<a, b, c, d>> = <<a>> \o <<b, c, d>>
  <2> HIDE DEF b
  <2> QED
    OBVIOUS
<1>2. b \in Letter /\ \A c \in {"here", "number", "now", "peer", "<"} : c \in Letter
  BY DEF Letter, Char
<1>3. \A c, d \in {"here", "number", "now", "peer", "<"} : <<b, c>> \in Seq(Letter) /\ <<b, c, d>> \in Seq(Letter)
  <2> HIDE DEF b
  <2>1. \A c, d \in Letter : <<b, c>> \in Seq(Letter) /\ <<b, c, d>> \in Seq(Letter)
    BY <1>2
  <2> QED
    BY <1>2, <2>1
<1>4. "Xref:" \in Names /\ "Date:" \in Names /\ "NNTP-Posting-Host:" \in Names /\ "Message-ID:" \in Names /\ "Lines:" \in Names
  BY DEF Names, Loaded
<1>5. XrefLine = <<"Xref:">> \o <<b, "here", "number">> /\ DateLine = <<"Date:">> \o <<b, "now">>
  BY <1>1, Zenon DEF XrefLine, DateLine
<1>6. HostLine = <<"NNTP-Posting-Host:">> \o <<b, "peer">> /\ IdLine = <<"Message-ID:">> \o <<b, "<", "number">>
  BY <1>1, Zenon DEF HostLine, IdLine
<1>7. /\ <<b, "here", "number">> \in Seq(Letter) /\ <<b, "now">> \in Seq(Letter)
      /\ <<b, "peer">> \in Seq(Letter) /\ <<b, "<", "number">> \in Seq(Letter)
  BY <1>3
<1>8. ASSUME NEW n \in Nat PROVE LineOf(LinesLine(n), "Lines:")
  <2>1. PICK a : a = "Lines:" /\ a \in Names /\ a \in Letter
    BY <1>4, NameLetter
  <2>2. LinesLine(n) = <<a, b>> \o Decimal(n)
    BY <2>1 DEF LinesLine
  <2> HIDE DEF b
  <2>3. PICK d \in Seq(Letter) : d = Decimal(n)
    BY DecimalType
  <2>4. <<a>> \in Seq(Letter) /\ <<b>> \in Seq(Letter) /\ <<a, b>> = <<a>> \o <<b>>
    BY <1>2, <2>1
  <2>5. <<a, b>> \o d = <<a>> \o (<<b>> \o d)
    BY <2>4, Associate DEF Associates
  <2>6. <<b>> \o d \in Seq(Letter)
    BY <2>4, ConcatProperties
  <2>7. LinesLine(n) = <<a>> \o (<<b>> \o d)
    BY <2>2, <2>3, <2>5
  <2> QED
    BY <2>1, <2>6, <2>7, ServerLine
<1> HIDE DEF b
<1> QED
  BY <1>4, <1>5, <1>6, <1>7, <1>8, ServerLine

\* The fields that Post touches.
Touched == {"Date:", "NNTP-Posting-Host:", "Xref:", "Message-ID:", "Lines:"}

\* N with its last field f, behind one field less than there were in M.
Replaces(N, M, f) ==
  \E r \in Seq(OneField) : /\ N = Append(r, f)
                           /\ Len(r) = IF M = << >> THEN 0 ELSE Len(M) - 1

\* What Post makes of a header: g, and e with a body of n lines.
Edits(g, e, n, preserve) ==
  /\ e \in Header
  /\ Solid(g) => Solid(e)
  /\ \A names : names \cap Touched = {} => Named(e, names) = Named(g, names)
  /\ Named(e, {"Xref:"}) = Append(Named(g, {"Xref:"}), <<XrefLine>>)
  /\ Named(e, {"Message-ID:"}) = IF Named(g, {"Message-ID:"}) = << >> THEN << <<IdLine>> >> ELSE Named(g, {"Message-ID:"})
  /\ Named(e, {"Lines:"}) = IF Named(g, {"Lines:"}) = << >> THEN << <<LinesLine(n)>> >> ELSE Named(g, {"Lines:"})
  /\ IF preserve /\ Named(g, {"Date:"}) # << >> THEN Named(e, {"Date:"}) = Named(g, {"Date:"})
                                                ELSE Replaces(Named(e, {"Date:"}), Named(g, {"Date:"}), <<DateLine>>)
  /\ Replaces(Named(e, {"NNTP-Posting-Host:"}), Named(g, {"NNTP-Posting-Host:"}), <<HostLine>>)

\* The header with the line, and with the default.
LEMMA PutMade ==
  \A h \in Header : \A line, name : LineOf(line, name) => \E p \in Header : p = Append(h, line) /\ Puts(h, line, name)
<1> SUFFICES ASSUME NEW h \in Header, NEW line, NEW name, LineOf(line, name)
             PROVE  \E p \in Header : p = Append(h, line) /\ Puts(h, line, name)
  OBVIOUS
<1>1. Puts(h, line, name)
  BY LinePut
<1>2. Append(h, line) \in Header
  BY <1>1 DEF Puts
<1> QED
  BY <1>1, <1>2

\* The header with the default.
LEMMA DefaultMade ==
  \A h \in Header, name \in Names : \A line :
    LineOf(line, name) => \E p \in Header : p = Default(h, line) /\ Defaults(h, line, name)
BY DefaultIs DEF Defaults

\* Fields are given as fields.
LEMMA NamedType == \A h \in Header : \A names : Named(h, names) \in Seq(OneField)
<1>1. << >> \in Seq(Letter)
  BY EmptySeq
<1> QED
  BY <1>1, NamedAppend

\* Something without the field.
LEMMA ErasedReplaced ==
  ASSUME NEW N \in Seq(OneField), NEW M, NEW f,
         Len(N) = IF M = << >> THEN 0 ELSE Len(M) - 1
  PROVE  Replaces(Append(N, f), M, f)
BY DEF Replaces

\* What Post makes of a header without folded Date and NNTP-Posting-Host.
LEMMA EditedIs ==
  ASSUME NEW g \in Header, NEW body \in Header, NEW preserve \in BOOLEAN,
         ~Folded(g, "Date:"), ~Folded(g, "NNTP-Posting-Host:")
  PROVE  Edits(g, Edited(g, body, preserve), Len(body), preserve)
<1>1. PICK n \in Nat : n = Len(body)
  BY HeaderLines
<1>2. /\ "Xref:" \in Names /\ "Date:" \in Names /\ "NNTP-Posting-Host:" \in Names
      /\ "Message-ID:" \in Names /\ "Lines:" \in Names
  BY DEF Names, Loaded
<1>3. Fieldlike({"Date:"}) /\ Fieldlike({"NNTP-Posting-Host:"})
  BY <1>2, FieldlikeNames
<1>4. PICK D \in Header : D = IF preserve THEN g ELSE Erase(g, "Date:")
  BY <1>3, EraseIs DEF Erases
<1>5. /\ Solid(g) => Solid(D)
      /\ \A names : "Date:" \notin names => Named(D, names) = Named(g, names)
      /\ preserve => D = g
      /\ ~preserve => Len(Named(D, {"Date:"})) = IF Named(g, {"Date:"}) = << >> THEN 0 ELSE Len(Named(g, {"Date:"})) - 1
  <2>1. Erases(g, "Date:")
    BY <1>3, EraseIs
  <2> QED
    BY <1>4, <2>1 DEF Erases
<1>6. ~Folded(D, "NNTP-Posting-Host:")
  <2>1. Named(D, {"NNTP-Posting-Host:"}) = Named(g, {"NNTP-Posting-Host:"})
    BY <1>5
  <2> QED
    BY <2>1, FoldedIs
<1>7. PICK B \in Header : B = Erase(D, "NNTP-Posting-Host:") /\ Erases(D, "NNTP-Posting-Host:")
  BY <1>3, <1>6, EraseIs DEF Erases
<1>8. /\ Solid(D) => Solid(B)
      /\ \A names : "NNTP-Posting-Host:" \notin names => Named(B, names) = Named(D, names)
      /\ Len(Named(B, {"NNTP-Posting-Host:"}))
           = IF Named(D, {"NNTP-Posting-Host:"}) = << >> THEN 0 ELSE Len(Named(D, {"NNTP-Posting-Host:"})) - 1
  BY <1>7 DEF Erases
<1>9. PICK X \in Header : X = Append(B, XrefLine) /\ Puts(B, XrefLine, "Xref:")
  BY ServerLines, PutMade
<1>10. PICK W \in Header : W = Append(X, DateLine) /\ Puts(X, DateLine, "Date:")
  BY ServerLines, PutMade
<1>11. PICK dated \in BOOLEAN : /\ dated <=> GetHeaderIndex(g, "Date:") # 0
                                /\ dated <=> Named(g, {"Date:"}) # << >>
  BY <1>3, IndexNamed
<1>12. PICK Y \in Header : Y = IF preserve /\ dated THEN X ELSE W
  OBVIOUS
<1>13. PICK H \in Header : H = Append(Y, HostLine) /\ Puts(Y, HostLine, "NNTP-Posting-Host:")
  BY ServerLines, PutMade
<1>14. PICK I \in Header : I = Default(H, IdLine) /\ Defaults(H, IdLine, "Message-ID:")
  BY <1>2, ServerLines, DefaultMade
<1>15. PICK E \in Header : E = Default(I, LinesLine(n)) /\ Defaults(I, LinesLine(n), "Lines:")
  BY <1>2, ServerLines, DefaultMade
<1>16. Edited(g, body, preserve) = E
  <2>1. Append(B, XrefLine) \o (IF preserve /\ dated THEN << >> ELSE << DateLine >>) = Y
    <3> DEFINE S == Seq(Letter)
    <3>1. X \in Seq(S) /\ DateLine \in S
      BY ServerLines DEF Header, LineOf
    <3> HIDE DEF S
    <3>2. X \o << >> = X
      BY <3>1, ConcatEmptySeq
    <3>3. X \o << DateLine >> = Append(X, DateLine)
      BY <3>1
    <3> QED
      BY <1>9, <1>10, <1>12, <3>2, <3>3
  <2>2. Edited(g, body, preserve) =
          LET bare == Erase(IF preserve THEN g ELSE Erase(g, "Date:"), "NNTP-Posting-Host:")
              date == IF preserve /\ GetHeaderIndex(g, "Date:") # 0 THEN << >> ELSE << DateLine >>
              full == Append(Append(bare, XrefLine) \o date, HostLine)
          IN  Default(Default(full, IdLine), <<"Lines:", " ">> \o Decimal(Len(body)))
    BY Zenon DEF Edited, XrefLine, DateLine, HostLine, IdLine
  <2>3. LinesLine(n) = <<"Lines:", " ">> \o Decimal(n)
    BY Zenon DEF LinesLine
  <2> QED
    BY <1>1, <1>4, <1>7, <1>11, <1>13, <1>14, <1>15, <2>1, <2>2, <2>3, Zenon
<1>17. Solid(g) => Solid(E)
  <2>1. Solid(B) => Solid(X) /\ Solid(W)
    BY <1>9, <1>10 DEF Puts
  <2>2. Solid(Y) => Solid(H)
    BY <1>13 DEF Puts
  <2>3. Solid(H) => Solid(I)
    BY <1>14 DEF Defaults
  <2>4. Solid(I) => Solid(E)
    BY <1>15 DEF Defaults
  <2> QED
    BY <1>5, <1>8, <1>12, <2>1, <2>2, <2>3, <2>4
<1>18. /\ \A names : "Xref:" \notin names => Named(X, names) = Named(B, names)
       /\ Named(X, {"Xref:"}) = Append(Named(B, {"Xref:"}), <<XrefLine>>)
  BY <1>9 DEF Puts
<1>19. /\ \A names : "Date:" \notin names => Named(W, names) = Named(X, names)
       /\ Named(W, {"Date:"}) = Append(Named(X, {"Date:"}), <<DateLine>>)
  BY <1>10 DEF Puts
<1>20. \A names : "Date:" \notin names => Named(Y, names) = Named(X, names)
  BY <1>12, <1>19
<1>21. /\ \A names : "NNTP-Posting-Host:" \notin names => Named(H, names) = Named(Y, names)
       /\ Named(H, {"NNTP-Posting-Host:"}) = Append(Named(Y, {"NNTP-Posting-Host:"}), <<HostLine>>)
  BY <1>13 DEF Puts
<1>22. /\ \A names : "Message-ID:" \notin names => Named(I, names) = Named(H, names)
       /\ Named(I, {"Message-ID:"}) = IF Named(H, {"Message-ID:"}) = << >> THEN << <<IdLine>> >> ELSE Named(H, {"Message-ID:"})
  BY <1>14 DEF Defaults
<1>23. /\ \A names : "Lines:" \notin names => Named(E, names) = Named(I, names)
       /\ Named(E, {"Lines:"}) = IF Named(I, {"Lines:"}) = << >> THEN << <<LinesLine(n)>> >> ELSE Named(I, {"Lines:"})
  BY <1>15 DEF Defaults
<1> DEFINE Away(names) == names \cap Touched = {}
<1>24. \A names : Away(names) => Named(E, names) = Named(g, names)
  <2>1. \A names : Away(names) => /\ "Date:" \notin names /\ "NNTP-Posting-Host:" \notin names /\ "Xref:" \notin names
                                  /\ "Message-ID:" \notin names /\ "Lines:" \notin names
    BY DEF Touched
  <2> HIDE DEF Away
  <2> QED
    BY <1>5, <1>8, <1>18, <1>20, <1>21, <1>22, <1>23, <2>1
<1>25. Named(E, {"Xref:"}) = Append(Named(g, {"Xref:"}), <<XrefLine>>)
  <2> DEFINE S == {"Xref:"}
  <2>1. "Date:" \notin S /\ "NNTP-Posting-Host:" \notin S /\ "Message-ID:" \notin S /\ "Lines:" \notin S
    OBVIOUS
  <2>2. Named(X, S) = Append(Named(B, S), <<XrefLine>>)
    BY <1>18
  <2> HIDE DEF S
  <2>3. Named(E, S) = Named(X, S)
    BY <1>20, <1>21, <1>22, <1>23, <2>1
  <2>4. Named(B, S) = Named(g, S)
    BY <1>5, <1>8, <2>1
  <2> QED
    BY <2>2, <2>3, <2>4 DEF S
<1>26. Named(E, {"Message-ID:"}) = IF Named(g, {"Message-ID:"}) = << >> THEN << <<IdLine>> >> ELSE Named(g, {"Message-ID:"})
  <2> DEFINE S == {"Message-ID:"}
  <2>1. "Date:" \notin S /\ "NNTP-Posting-Host:" \notin S /\ "Xref:" \notin S /\ "Lines:" \notin S
    OBVIOUS
  <2>2. Named(I, S) = IF Named(H, S) = << >> THEN << <<IdLine>> >> ELSE Named(H, S)
    BY <1>22
  <2> HIDE DEF S
  <2>3. Named(E, S) = Named(I, S) /\ Named(H, S) = Named(g, S)
    BY <1>5, <1>8, <1>18, <1>20, <1>21, <1>23, <2>1
  <2> QED
    BY <2>2, <2>3 DEF S
<1>27. Named(E, {"Lines:"}) = IF Named(g, {"Lines:"}) = << >> THEN << <<LinesLine(n)>> >> ELSE Named(g, {"Lines:"})
  <2> DEFINE S == {"Lines:"}
  <2>1. "Date:" \notin S /\ "NNTP-Posting-Host:" \notin S /\ "Xref:" \notin S /\ "Message-ID:" \notin S
    OBVIOUS
  <2>2. Named(E, S) = IF Named(I, S) = << >> THEN << <<LinesLine(n)>> >> ELSE Named(I, S)
    BY <1>23
  <2> HIDE DEF S
  <2>3. Named(I, S) = Named(g, S)
    BY <1>5, <1>8, <1>18, <1>20, <1>21, <1>22, <2>1
  <2> QED
    BY <2>2, <2>3 DEF S
<1>28. IF preserve /\ Named(g, {"Date:"}) # << >> THEN Named(E, {"Date:"}) = Named(g, {"Date:"})
       ELSE Replaces(Named(E, {"Date:"}), Named(g, {"Date:"}), <<DateLine>>)
  <2> DEFINE S == {"Date:"}
  <2>1. "Lines:" \notin S /\ "NNTP-Posting-Host:" \notin S /\ "Xref:" \notin S /\ "Message-ID:" \notin S
    OBVIOUS
  <2>2. Named(W, S) = Append(Named(X, S), <<DateLine>>)
    BY <1>19
  <2>3. ~preserve => Len(Named(D, S)) = IF Named(g, S) = << >> THEN 0 ELSE Len(Named(g, S)) - 1
    BY <1>5
  <2>4. dated <=> Named(g, S) # << >>
    BY <1>11
  <2> HIDE DEF S
  <2>5. Named(E, S) = Named(Y, S) /\ Named(X, S) = Named(D, S)
    BY <1>8, <1>18, <1>21, <1>22, <1>23, <2>1
  <2>6. CASE preserve /\ dated
    BY <1>5, <1>12, <2>4, <2>5, <2>6 DEF S
  <2>7. CASE ~(preserve /\ dated)
    <3>1. PICK N \in Seq(OneField) : N = Named(D, S)
      BY NamedType
    <3>2. Len(N) = IF Named(g, S) = << >> THEN 0 ELSE Len(Named(g, S)) - 1
      <4>1. CASE preserve
        <5>1. N = << >> /\ Named(g, S) = << >> /\ Len(<< >>) = 0
          BY <1>5, <2>4, <2>7, <3>1, <4>1
        <5> QED
          BY <5>1
      <4>2. CASE ~preserve
        BY <2>3, <3>1, <4>2
      <4> QED
        BY <4>1, <4>2
    <3>3. Replaces(Append(N, <<DateLine>>), Named(g, S), <<DateLine>>)
      BY <3>2, ErasedReplaced
    <3>4. Named(E, S) = Append(N, <<DateLine>>)
      BY <1>12, <2>2, <2>5, <2>7, <3>1
    <3> QED
      BY <2>4, <2>7, <3>3, <3>4 DEF S
  <2> QED
    BY <2>6, <2>7
<1>29. Replaces(Named(E, {"NNTP-Posting-Host:"}), Named(g, {"NNTP-Posting-Host:"}), <<HostLine>>)
  <2> DEFINE S == {"NNTP-Posting-Host:"}
  <2>1. "Lines:" \notin S /\ "Date:" \notin S /\ "Xref:" \notin S /\ "Message-ID:" \notin S
    OBVIOUS
  <2>2. Named(H, S) = Append(Named(Y, S), <<HostLine>>)
    BY <1>21
  <2>3. Len(Named(B, S)) = IF Named(D, S) = << >> THEN 0 ELSE Len(Named(D, S)) - 1
    BY <1>8
  <2> HIDE DEF S
  <2>4. Named(E, S) = Named(H, S) /\ Named(Y, S) = Named(B, S) /\ Named(D, S) = Named(g, S)
    BY <1>5, <1>18, <1>20, <1>22, <1>23, <2>1
  <2>5. PICK N \in Seq(OneField) : N = Named(B, S)
    BY NamedType
  <2>6. Replaces(Append(N, <<HostLine>>), Named(g, S), <<HostLine>>)
    BY <2>3, <2>4, <2>5, ErasedReplaced
  <2> QED
    BY <2>2, <2>4, <2>5, <2>6 DEF S
<1> QED
  BY <1>1, <1>16, <1>17, <1>24, <1>25, <1>26, <1>27, <1>28, <1>29 DEF Edits

-----------------------------------------------------------------------------
(* The file and its parts.                                                 *)

\* Where no line of the header is empty, the two are found again.
LEMMA FileParts ==
  ASSUME NEW h \in Header, NEW b \in Header, Solid(h)
  PROVE  FileOf(h, b) \in Header /\ HeadOf(FileOf(h, b)) = h /\ BodyOf(FileOf(h, b)) = b
<1> DEFINE X == Seq(Letter)
<1>1. h \in Seq(X) /\ b \in Seq(X) /\ << >> \in X
  BY EmptySeq DEF Header
<1>2. FileOf(h, b) \in Header
  BY FileOfType
<1> HIDE DEF X
<1>3. PICK e \in X : e = << >>
  BY <1>1
<1>4. PICK m \in Nat, n \in Nat : m = Len(h) /\ n = Len(b)
  BY <1>1
<1>5. PICK a \in Seq(X) : a = Append(h, e) /\ Len(a) = m + 1 /\ a[m + 1] = e /\ \A j \in 1 .. m : a[j] = h[j]
  <2>1. Append(h, e) \in Seq(X) /\ Len(Append(h, e)) = Len(h) + 1
    BY <1>1, <1>3, AppendProperties
  <2>2. Append(h, e)[Len(h) + 1] = e /\ \A j \in 1 .. Len(h) : Append(h, e)[j] = h[j]
    BY <1>1, <1>3, AppendProperties
  <2> QED
    BY <1>4, <2>1, <2>2
<1>6. h \o <<e>> = a
  BY <1>1, <1>3, <1>5
<1>7. PICK f : f = FileOf(h, b)
  OBVIOUS
<1>8. f = a \o b
  BY <1>3, <1>6, <1>7 DEF FileOf
<1>9. ConcatOf(X, a, b, f)
  BY <1>1, <1>5, <1>8, ConcatIs
<1>10. /\ f \in Seq(X) /\ Len(f) = m + 1 + n
       /\ \A i \in 1 .. m + 1 + n : f[i] = IF i <= m + 1 THEN a[i] ELSE b[i - (m + 1)]
  BY <1>4, <1>5, <1>9 DEF ConcatOf
<1>11. /\ m + 1 \in 1 .. m + 1 + n
       /\ \A j \in 1 .. m : j \in 1 .. m + 1 + n /\ j <= m + 1
       /\ \A j \in 1 .. n : m + 1 + j \in 1 .. m + 1 + n /\ ~(m + 1 + j <= m + 1) /\ (m + 1 + j) - (m + 1) = j
       /\ (m + 1) - 1 = m /\ (m + 1 + n) - (m + 1) = n /\ (m + 1) + 1 = m + 2
  OBVIOUS
<1>12. /\ f[m + 1] = e /\ \A j \in 1 .. m : f[j] = h[j]
       /\ \A j \in 1 .. n : f[m + 1 + j] = b[j]
  BY <1>5, <1>10, <1>11
<1>13. EndsHead(f, m + 1)
  BY <1>3, <1>4, <1>10, <1>11, <1>12 DEF EndsHead, Solid
<1>14. HeadOf(f) = SubSeq(f, 1, m) /\ BodyOf(f) = SubSeq(f, m + 2, Len(f))
  <2>1. PICK p : p = m + 1 /\ EndsHead(f, p)
    BY <1>13
  <2>2. HeadOf(f) = SubSeq(f, 1, p - 1) /\ BodyOf(f) = SubSeq(f, p + 1, Len(f))
    BY <1>10, <2>1, HeadBody
  <2>3. p - 1 = m /\ p + 1 = m + 2
    BY <2>1
  <2> QED
    BY <2>2, <2>3
<1>15. SubSeq(f, 1, m) = h
  <2>1. SubSeq(f, 1, m) \in Seq(X) /\ Len(SubSeq(f, 1, m)) = m /\ \A j \in 1 .. m : SubSeq(f, 1, m)[j] = f[j]
    BY <1>10, <1>11
  <2> QED
    BY <1>1, <1>4, <1>12, <2>1, SeqEqual
<1>16. SubSeq(f, m + 2, Len(f)) = b
  <2>1. PICK q : q = SubSeq(f, m + 2, m + 1 + n)
    OBVIOUS
  <2>2. q \in Seq(X) /\ Len(q) = n /\ \A j \in 1 .. n : q[j] = f[m + 1 + j]
    BY <1>10, <1>11, <2>1
  <2>3. q = b
    BY <1>1, <1>4, <1>12, <2>2, SeqEqual
  <2> QED
    BY <1>10, <2>1, <2>3
<1> QED
  BY <1>2, <1>7, <1>14, <1>15, <1>16

\* A header that begins with a line that is not empty has no empty lines.
LEMMA MeantSolid ==
  ASSUME TypeOK, Meant[1] # << >>
  PROVE  Solid(MeantHead)
<1> DEFINE X == Seq(Letter)
<1>1. PICK lines \in Seq(X) : lines = Meant /\ Len(lines) # 0 /\ << >> \in X
  BY MeantIs, EmptySeq DEF Header
<1> HIDE DEF X
<1>2. Closed = WithEnd(lines)
  BY <1>1 DEF Closed, WithEnd
<1> DEFINE k == HeadSize(lines)
<1>3. MeantHead = SubSeq(lines, 1, k)
  BY <1>1, <1>2, HeadIs DEF MeantHead
<1>4. k \in 1 .. Len(lines) /\ Len(lines) \in Nat /\ \A j \in 2 .. k : lines[j] # << >>
  BY <1>1, HeadSizeIs
<1> HIDE DEF k
<1>5. PICK n \in Nat : n = Len(lines) /\ k \in 1 .. n
  BY <1>4
<1>6. Len(SubSeq(lines, 1, k)) = k /\ \A j \in 1 .. k : SubSeq(lines, 1, k)[j] = lines[j]
  BY <1>1, <1>5
<1>7. \A j \in 1 .. k : j = 1 \/ j \in 2 .. k
  BY <1>5
<1> QED
  BY <1>1, <1>3, <1>4, <1>6, <1>7 DEF Solid

\* UpdatePath and the gateway leave no line empty.
LEMMA GivenSolid ==
  ASSUME TypeOK, Meant[1] # << >>
  PROVE  Solid(Given)
<1>1. PICK h \in Header, k \in Header : h = MeantHead /\ k = Known
  BY GivenIs
<1>2. /\ Len(k) = Len(h) /\ \A t \in 1 .. Len(h) : k[t] = Changed(h[t])
      /\ Given = IF GetHeaderIndex(h, "Path:") # 0 THEN k ELSE Append(k, PathLine)
  BY <1>1, GivenIs
<1>3. Solid(h)
  BY <1>1, MeantSolid
<1>4. Solid(k)
  <2> SUFFICES ASSUME NEW t \in 1 .. Len(h) PROVE k[t] # << >>
    BY <1>2 DEF Solid
  <2>1. PICK m \in Seq(Letter) : m = h[t] /\ m # << >>
    BY <1>3, HeaderLines DEF Solid
  <2>2. k[t] = Changed(m)
    BY <1>2, <2>1
  <2>3. CASE IsField(m, "Path:")
    BY <2>2, <2>3, ChangedIs DEF LineOf
  <2>4. CASE ~IsField(m, "Path:")
    <3>1. k[t] = m \/ k[t] = Renamed(m)
      BY <2>2, <2>4, ChangedIs
    <3>2. Renamed(m) # << >>
      BY <2>1, ChangedIs DEF LineOf
    <3> QED
      BY <2>1, <3>1, <3>2
  <2> QED
    BY <2>3, <2>4
<1>5. Solid(Append(k, PathLine))
  BY <1>4, PathLineIs, LinePut DEF Puts
<1> QED
  BY <1>2, <1>4, <1>5

\* The header in the file of a proper article: what Post made of its lines.
LEMMA FullIs ==
  ASSUME TypeOK, Proper
  PROVE  /\ Given \in Header /\ Edits(Given, Full, Len(MeantBody), Preserving)
         /\ Full \in Header /\ Solid(Full) /\ MeantBody \in Header
<1>1. Given \in Header /\ MeantBody \in Header /\ Preserving \in BOOLEAN
  <2>1. how.preservedate \in BOOLEAN
    BY SentType
  <2> QED
    BY <2>1, GivenNamed, MeantIs DEF Preserving
<1>2. Solid(Given)
  BY GivenSolid DEF Proper
<1>3. PICK h \in Header, g \in Header : h = MeantHead /\ g = Given
  BY <1>1, GivenIs
<1>4. Named(g, {"Date:"}) = Named(h, {"Date:"}) /\ Named(g, {"NNTP-Posting-Host:"}) = Named(h, {"NNTP-Posting-Host:"})
  BY <1>3, GivenNamed, KeptNamed
<1>5. ~Folded(h, "Date:") /\ ~Folded(h, "NNTP-Posting-Host:")
  BY <1>3 DEF Proper
<1>6. ~Folded(g, "Date:") /\ ~Folded(g, "NNTP-Posting-Host:")
  BY <1>4, <1>5, FoldedIs
<1>7. Edits(g, Edited(g, MeantBody, Preserving), Len(MeantBody), Preserving)
  BY <1>1, <1>6, EditedIs
<1>8. Full = Edited(g, MeantBody, Preserving)
  BY <1>3 DEF Full
<1> QED
  BY <1>1, <1>2, <1>3, <1>7, <1>8 DEF Edits

\* The parts of the file.
LEMMA StoredParts ==
  ASSUME TypeOK, FileInv, Whole, Proper
  PROVE  file = FileOf(Full, MeantBody) /\ HeadOf(file) = Full /\ BodyOf(file) = MeantBody /\ file \in Header
<1>1. file = FileOf(Full, MeantBody)
  BY DEF FileInv
<1> QED
  BY <1>1, FullIs, FileParts

-----------------------------------------------------------------------------
(* White space.                                                            *)

White(c) == c = " "
Visible(s) == {j \in 1 .. Len(s) : ~White(s[j])}

\* Trim looks for the first character that is not white.
LEMMA TrimFirst ==
  ASSUME NEW s, Len(s) \in Nat
  PROVE  \E i : /\ IsFirst(i, Visible(s))
                /\ Trim(s) = IF i = 0 THEN << >> ELSE SubSeq(s, i, Len(s))
<1> DEFINE i == SelectInSeq(s, LAMBDA c : c # " ")
<1>1. i = IF Visible(s) # {} THEN Min(Visible(s)) ELSE 0
  BY DEF SelectInSeq, Visible, White
<1>2. Visible(s) \in SUBSET (1 .. Len(s))
  BY DEF Visible
<1>3. IsFirst(i, Visible(s))
  BY <1>1, <1>2, MinIsFirst
<1>4. Trim(s) = IF i = 0 THEN << >> ELSE SubSeq(s, i, Len(s))
  BY Zenon DEF Trim
<1> HIDE DEF i
<1> QED
  BY <1>3, <1>4

\* What follows the white space that a text begins with.
LEMMA TrimIs ==
  ASSUME NEW s, NEW n \in Nat, n = Len(s)
  PROVE  /\ (\A j \in 1 .. n : White(s[j])) => Trim(s) = << >>
         /\ \A i \in 1 .. n : ~White(s[i]) /\ (\A j \in 1 .. i - 1 : White(s[j])) => Trim(s) = SubSeq(s, i, n)
<1>1. PICK p : IsFirst(p, Visible(s)) /\ Trim(s) = IF p = 0 THEN << >> ELSE SubSeq(s, p, n)
  BY TrimFirst
<1>2. \A j : j \in Visible(s) <=> j \in 1 .. n /\ ~White(s[j])
  BY DEF Visible
<1>3. CASE \A j \in 1 .. n : White(s[j])
  <2>1. Visible(s) = {}
    BY <1>2, <1>3
  <2> QED
    BY <1>1, <1>2, <1>3, <2>1 DEF IsFirst
<1>4. ASSUME NEW i \in 1 .. n, ~White(s[i]), \A j \in 1 .. i - 1 : White(s[j])
      PROVE  Trim(s) = SubSeq(s, i, n)
  <2>1. i \in Visible(s)
    BY <1>2, <1>4
  <2>2. p \in 1 .. n /\ ~White(s[p]) /\ p <= i
    BY <1>1, <1>2, <2>1 DEF IsFirst
  <2>3. p = i
    <3>1. p \notin 1 .. i - 1
      BY <1>4, <2>2
    <3> QED
      BY <2>2, <3>1
  <2> QED
    BY <1>1, <2>2, <2>3
<1> QED
  BY <1>3, <1>4

\* Which characters are white.
LEMMA WhiteIs == White(" ") /\ \A c \in {"here", "number", "now", "peer", "0", "<"} : ~White(c)
BY DEF White

-----------------------------------------------------------------------------
(* Values.                                                                 *)

\* A field's text is that of its first line, and of those behind.
LEMMA FieldText ==
  ASSUME NEW f \in OneField
  PROVE  /\ f[1] \in Seq(Letter) /\ FlattenSeq(f) \in Seq(Letter)
         /\ \E r \in Seq(Letter) : /\ FlattenSeq(f) = f[1] \o r
                                   /\ Len(f) = 1 => r = << >>
<1> DEFINE X == Seq(Letter)
<1>1. f \in Seq(X) /\ f # << >>
  BY DEF OneField, Header
<1>2. FlattenSeq(f) \in Seq(Letter) /\ FlattenSeq(<< >>) = << >>
  BY <1>1, FlattenedAppend
<1> HIDE DEF X
<1>3. PICK n \in Nat : n = Len(f) /\ n # 0 /\ f[1] \in X
  <2>1. Len(f) \in Nat /\ Len(f) # 0
    BY <1>1, EmptySeq, LenProperties
  <2>2. 1 \in 1 .. Len(f)
    BY <2>1
  <2> QED
    BY <1>1, <2>1, <2>2, ElementOfSeq
<1> DEFINE R == SubSeq(f, 2, n)
<1>4. FlattenSeq(f) = f[1] \o FlattenSeq(R)
  <2>0. PICK k \in Nat : k = 0 /\ k + 1 = 1 /\ k + 2 = 2 /\ k < Len(f)
    BY <1>3
  <2>1. FlattenSeq(SubSeq(f, k + 1, Len(f))) = f[k + 1] \o FlattenSeq(SubSeq(f, k + 2, Len(f)))
    BY <1>1, <2>0, FlattenedNext DEF X
  <2>2. SubSeq(f, 1, n) = f
    BY <1>1, <1>3
  <2> QED
    BY <1>3, <2>0, <2>1, <2>2
<1>5. R \in Seq(X)
  BY <1>1, <1>3, SuffixType
<1>6. FlattenSeq(R) \in Seq(Letter)
  BY <1>5, FlattenedAppend DEF X
<1>7. n = 1 => R = << >>
  BY <1>1, <1>3
<1> HIDE DEF R
<1> QED
  BY <1>2, <1>3, <1>4, <1>6, <1>7 DEF X

\* The value of a field is the text behind its name.
LEMMA ValueIs ==
  ASSUME NEW f \in OneField, NEW line \in Seq(Letter), NEW r \in Seq(Letter),
         f[1] = line, line # << >>, FlattenSeq(f) = line \o r
  PROVE  Value(f) = Trim(Tail(line) \o r) /\ Tail(line) \in Seq(Letter)
<1>1. Tail(line) \in Seq(Letter)
  BY TailType
<1>2. PICK a : a \in Letter /\ a = Head(line)
  BY HeadTailProperties
<1>3. line = <<a>> \o Tail(line)
  BY <1>2
<1>4. PICK t \in Seq(Letter) : t = Tail(line)
  BY <1>1
<1>5. <<a>> \in Seq(Letter)
  BY <1>2, OneLetter
<1>6. Associates(Letter, <<a>>, t, r)
  BY <1>4, <1>5, Associate
<1>7. PICK u \in Seq(Letter) : u = t \o r
  BY <1>4, ConcatProperties
<1>8. line \o r = <<a>> \o u
  BY <1>3, <1>4, <1>6, <1>7 DEF Associates
<1>9. Tail(<<a>> \o u) = u
  BY <1>2, <1>7, HeadTailConcat
<1>10. Value(f) = Trim(Tail(FlattenSeq(f)))
  BY Zenon DEF Value
<1> QED
  BY <1>1, <1>4, <1>7, <1>8, <1>9, <1>10

\* A text of two characters, and a first character.
LEMMA TwoLetters ==
  \A b, c \in Letter : <<b, c>> \in Seq(Letter) /\ Len(<<b, c>>) = 2 /\ <<b, c>>[1] = b /\ <<b, c>>[2] = c
OBVIOUS

\* A text's first character.
LEMMA FirstOnly ==
  \A s \in Seq(Letter) : 1 <= Len(s) => SubSeq(s, 1, 1) = <<s[1]>>
<1> SUFFICES ASSUME NEW s \in Seq(Letter), 1 <= Len(s) PROVE SubSeq(s, 1, 1) = <<s[1]>>
  OBVIOUS
<1>1. PICK k \in Nat : k = 0 /\ k + 1 = 1 /\ k < Len(s)
  BY LenProperties
<1>2. SubSeq(s, 1, k + 1) = Append(SubSeq(s, 1, k), s[k + 1]) /\ SubSeq(s, 1, 0) = << >>
  BY <1>1, SubSeqLast
<1> QED
  BY <1>1, <1>2, AppendNone

\* This server is the first of the Path.
LEMMA AheadFirst ==
  ASSUME NEW f \in OneField, Ahead(f[1])
  PROVE  IsPrefix(<<"here">>, Value(f))
<1>1. PICK b \in Letter, c \in Letter : b = " " /\ c = "here" /\ White(b) /\ ~White(c)
  BY WhiteIs DEF Letter, Char
<1>2. PICK line \in Seq(Letter), r \in Seq(Letter) : line = f[1] /\ FlattenSeq(f) = line \o r
  BY FieldText
<1>3. PICK q \in Seq(Letter) : line = PathLine \o q
  BY <1>2 DEF Ahead
<1>4. PICK a \in Letter : PathLine = <<a, b, c>>
  <2>1. "Path:" \in Letter
    BY NameLetter DEF Names, Mailed
  <2> QED
    BY <1>1, <2>1 DEF PathLine
<1>5. PICK w \in Seq(Letter) : w = <<b, c>> \o q
  <2>1. <<b, c>> \in Seq(Letter)
    OBVIOUS
  <2> QED
    BY <2>1, ConcatProperties
<1>6. line = <<a>> \o w
  <2>1. <<a>> \in Seq(Letter) /\ <<b, c>> \in Seq(Letter) /\ <<a, b, c>> = <<a>> \o <<b, c>>
    OBVIOUS
  <2>2. Associates(Letter, <<a>>, <<b, c>>, q)
    BY <2>1, Associate
  <2> QED
    BY <1>3, <1>4, <1>5, <2>1, <2>2 DEF Associates
<1>7. line # << >> /\ Tail(line) = w
  BY <1>5, <1>6, HeadTailConcat
<1>8. Value(f) = Trim(w \o r)
  BY <1>2, <1>7, ValueIs
<1>9. PICK v \in Seq(Letter) : v = w \o r
  BY ConcatProperties
<1>10. PICK n \in Nat : n = Len(v) /\ 2 <= n /\ v[1] = b /\ v[2] = c
  <2>1. PICK d \in Seq(Letter) : d = <<b, c>> /\ Len(d) = 2 /\ d[1] = b /\ d[2] = c
    BY TwoLetters, ZenonT(60)
  <2>2. PICK k \in Nat, j \in Nat : k = Len(q) /\ j = Len(r)
    BY LenProperties
  <2>3. ConcatOf(Letter, d, q, w)
    BY <1>5, <2>1, ConcatIs
  <2>4. ConcatOf(Letter, w, r, v)
    BY <1>9, ConcatIs
  <2>5. Len(w) = 2 + k /\ w[1] = b /\ w[2] = c
    BY <2>1, <2>2, <2>3 DEF ConcatOf
  <2>6. Len(v) = 2 + k + j /\ v[1] = b /\ v[2] = c
    BY <2>2, <2>4, <2>5 DEF ConcatOf
  <2> QED
    BY <2>2, <2>6
<1>11. Trim(v) = SubSeq(v, 2, n)
  <2>1. 2 \in 1 .. n /\ \A j \in 1 .. 2 - 1 : j = 1
    BY <1>10
  <2> QED
    BY <1>1, <1>10, <2>1, TrimIs
<1>12. PICK u : u = SubSeq(v, 2, n) /\ u \in Seq(Letter) /\ Len(u) = n - 1 /\ u[1] = c
  <2>1. SubSeq(v, 2, n) \in Seq(Letter)
    BY <1>10, SuffixType
  <2>2. Len(SubSeq(v, 2, n)) = n - 1 /\ SubSeq(v, 2, n)[1] = v[2]
    BY <1>10
  <2> QED
    BY <1>10, <2>1, <2>2
<1>13. IsPrefix(<<c>>, u)
  <2>1. Len(<<c>>) = 1 /\ SubSeq(<<c>>, 1, 1) = <<c>>
    <3>1. PICK s \in Seq(Letter) : s = <<c>> /\ Len(s) = 1 /\ s[1] = c
      BY OneLetter
    <3>2. SubSeq(s, 1, 1) = <<s[1]>>
      <4>1. 1 <= Len(s)
        BY <3>1
      <4> QED
        BY <4>1, FirstOnly, Zenon
    <3> QED
      BY <3>1, <3>2
  <2>2. SubSeq(u, 1, 1) = <<c>> /\ 1 <= Len(u)
    <3>1. 1 <= Len(u)
      BY <1>10, <1>12
    <3> QED
      BY <1>12, <3>1, FirstOnly
  <2> QED
    BY <2>1, <2>2 DEF IsPrefix
<1> QED
  BY <1>1, <1>8, <1>9, <1>11, <1>12, <1>13

\* One field more than those that were left.
LEMMA ReplacedLen ==
  ASSUME NEW N, NEW M \in Seq(OneField), NEW f \in OneField, Replaces(N, M, f)
  PROVE  Len(N) = IF M = << >> THEN 1 ELSE Len(M)
<1>1. PICK r \in Seq(OneField) : N = Append(r, f) /\ Len(r) = IF M = << >> THEN 0 ELSE Len(M) - 1
  BY DEF Replaces
<1>2. PICK m \in Nat : m = Len(M) /\ (M # << >> => m # 0)
  BY LenProperties, EmptySeq
<1>3. Len(N) = Len(r) + 1
  BY <1>1, AppendProperties
<1> QED
  BY <1>1, <1>2, <1>3

\* As many fields with a name as the sender has, or else one.
AsMany(n) ==
  Len(Named(Full, {n})) = IF Named(MeantHead, {n}) = << >> THEN 1 ELSE Len(Named(MeantHead, {n}))

\* As many as the sender's, or else one.
LEMMA DefaultLen ==
  ASSUME NEW N, NEW M, NEW f, N = IF M = << >> THEN <<f>> ELSE M
  PROVE  Len(N) = IF M = << >> THEN 1 ELSE Len(M)
<1>1. Len(<<f>>) = 1
  OBVIOUS
<1> QED
  BY <1>1

\* The fields of the server.
LEMMA OursCounted ==
  ASSUME TypeOK, Proper
  PROVE  \A n \in Ours \ {"Xref:"} : AsMany(n)
<1>1. PICK h \in Header, g \in Header, e \in Header :
        h = MeantHead /\ g = Given /\ e = Full /\ Edits(g, e, Len(MeantBody), Preserving)
  BY FullIs, GivenIs
<1>2. \A names : "Path:" \notin names /\ "From " \notin names /\ "X-Original-From:" \notin names
                   => Named(g, names) = Named(h, names)
  BY <1>1, GivenNamed, KeptNamed
<1>3. AsMany("Path:")
  <2> DEFINE S == {"Path:"}
  <2>1. S \cap Touched = {}
    BY DEF Touched
  <2>2. Len(Named(g, S)) = IF Named(h, S) = << >> THEN 1 ELSE Len(Named(h, S))
    BY <1>1, GivenNamed
  <2> HIDE DEF S
  <2>3. Named(e, S) = Named(g, S)
    BY <1>1, <2>1 DEF Edits
  <2> QED
    BY <1>1, <2>2, <2>3 DEF AsMany, S
<1>4. AsMany("Message-ID:") /\ AsMany("Lines:")
  <2>1. Named(g, {"Message-ID:"}) = Named(h, {"Message-ID:"}) /\ Named(g, {"Lines:"}) = Named(h, {"Lines:"})
    BY <1>2
  <2>2. /\ Named(e, {"Message-ID:"}) = IF Named(h, {"Message-ID:"}) = << >> THEN << <<IdLine>> >> ELSE Named(h, {"Message-ID:"})
        /\ Named(e, {"Lines:"}) = IF Named(h, {"Lines:"}) = << >> THEN << <<LinesLine(Len(MeantBody))>> >>
                                  ELSE Named(h, {"Lines:"})
    BY <1>1, <2>1 DEF Edits
  <2> QED
    BY <1>1, <2>2, DefaultLen DEF AsMany
<1>5. AsMany("NNTP-Posting-Host:") /\ AsMany("Date:")
  <2>1. /\ Named(g, {"NNTP-Posting-Host:"}) = Named(h, {"NNTP-Posting-Host:"})
        /\ Named(g, {"Date:"}) = Named(h, {"Date:"})
    BY <1>2
  <2>2. PICK x \in OneField, y \in OneField : x = <<HostLine>> /\ y = <<DateLine>>
    BY ServerLines, FieldGrows DEF LineOf
  <2>3. PICK P \in Seq(OneField), D \in Seq(OneField) : P = Named(h, {"NNTP-Posting-Host:"}) /\ D = Named(h, {"Date:"})
    BY NamedType
  <2>4. Replaces(Named(e, {"NNTP-Posting-Host:"}), P, x)
    BY <1>1, <2>1, <2>2, <2>3 DEF Edits
  <2>5. (Named(e, {"Date:"}) = D /\ D # << >>) \/ Replaces(Named(e, {"Date:"}), D, y)
    BY <1>1, <2>1, <2>2, <2>3 DEF Edits
  <2>6. Len(Named(e, {"Date:"})) = IF D = << >> THEN 1 ELSE Len(D)
    BY <2>5, ReplacedLen
  <2>7. Len(Named(e, {"NNTP-Posting-Host:"})) = IF P = << >> THEN 1 ELSE Len(P)
    BY <2>4, ReplacedLen
  <2> QED
    BY <1>1, <2>3, <2>6, <2>7 DEF AsMany
<1> QED
  BY <1>3, <1>4, <1>5 DEF Ours

\* The Path of the file begins with this server.
LEMMA PathAhead ==
  ASSUME TypeOK, Proper
  PROVE  IsPrefix(<<"here">>, Value(Named(Full, {"Path:"})[1]))
<1> DEFINE S == {"Path:"}
<1>1. PICK g \in Header, e \in Header : g = Given /\ e = Full /\ Edits(g, e, Len(MeantBody), Preserving)
  BY FullIs
<1>2. Named(e, S) = Named(g, S)
  <2>1. S \cap Touched = {}
    BY DEF Touched
  <2> HIDE DEF S
  <2> QED
    BY <1>1, <2>1 DEF Edits
<1>3. PICK N \in Seq(OneField) : N = Named(g, S)
  BY NamedType
<1>4. PICK n \in Nat : n = Len(N) /\ n # 0
  <2>1. Len(Named(Given, S)) = IF Named(MeantHead, S) = << >> THEN 1 ELSE Len(Named(MeantHead, S))
    BY GivenNamed
  <2>2. PICK M \in Seq(OneField) : M = Named(MeantHead, S)
    BY GivenIs, NamedType
  <2>3. Len(M) \in Nat /\ (M # << >> => Len(M) # 0)
    BY LenProperties, EmptySeq
  <2> QED
    BY <1>1, <1>3, <2>1, <2>2, <2>3
<1>5. 1 \in 1 .. Len(N)
  BY <1>4
<1>6. PICK f \in OneField, t \in 1 .. Len(g) : f = N[1] /\ f[1] = g[t] /\ In(S, g[t])
  BY <1>3, <1>5, NamedFrom
<1>7. IsField(g[t], "Path:")
  BY <1>6 DEF In, IsField
<1>8. Ahead(f[1])
  BY <1>1, <1>6, <1>7, GivenNamed
<1>9. IsPrefix(<<"here">>, Value(f))
  BY <1>8, AheadFirst
<1> QED
  BY <1>1, <1>2, <1>3, <1>6, <1>9

\* StoredAsMeant is a matter of the header and body that Post was given.
LEMMA StoredIs == TypeOK /\ FileInv => StoredAsMeant
<1> SUFFICES ASSUME TypeOK, FileInv, Whole, Proper
             PROVE  /\ BodyOf(file) = MeantBody
                    /\ Named(HeadOf(file), Names \ Ours) = Named(KeptHead, Names \ Ours)
                    /\ \A n \in Ours \ {"Xref:"} :
                         Len(Named(HeadOf(file), {n})) = IF Named(MeantHead, {n}) = << >> THEN 1 ELSE Len(Named(MeantHead, {n}))
                    /\ IsPrefix(<<"here">>, Value(Named(HeadOf(file), {"Path:"})[1]))
  BY DEF StoredAsMeant
<1>1. HeadOf(file) = Full /\ BodyOf(file) = MeantBody
  BY StoredParts
<1>2. Named(Full, Names \ Ours) = Named(KeptHead, Names \ Ours)
  <2> DEFINE S == Names \ Ours
  <2>1. S \cap Touched = {} /\ "Path:" \notin S
    BY DEF Touched, Ours
  <2> HIDE DEF S
  <2>2. Edits(Given, Full, Len(MeantBody), Preserving)
    BY FullIs
  <2>3. Named(Full, S) = Named(Given, S)
    BY <2>1, <2>2 DEF Edits
  <2> QED
    BY <2>1, <2>3, GivenNamed DEF S
<1>3. \A n \in Ours \ {"Xref:"} :
        Len(Named(Full, {n})) = IF Named(MeantHead, {n}) = << >> THEN 1 ELSE Len(Named(MeantHead, {n}))
  BY OursCounted DEF AsMany
<1> QED
  BY <1>1, <1>2, <1>3, PathAhead

\* Every article that is acknowledged has its body and fields in the file as the
\* sender meant them, and this server's fields beside them.
THEOREM ReaderStoresAsMeant == Spec => []StoredAsMeant
BY ReaderStores, ReaderTypeCorrect, StoredIs, PTL

-----------------------------------------------------------------------------
(* What a client makes of a reply.                                         *)

\* A line with its stuffed dot, and the lines of a text so.
Stuff(line) == (IF line # << >> /\ line[1] = "." THEN <<".">> ELSE << >>) \o line
Stuffs(lines) == [i \in DOMAIN lines |-> Stuff(lines[i])]
Unstuff(line) == IF line # << >> /\ line[1] = "." THEN Tail(line) ELSE line
Dot == <<".">>

\* A line of letters has no line ends.
LEMMA LetterPlain ==
  \A line \in Seq(Letter) : line \in Seq(Char) /\ Plain(line)
<1> SUFFICES ASSUME NEW line \in Seq(Letter) PROVE line \in Seq(Char) /\ Plain(line)
  OBVIOUS
<1>1. DOMAIN line = 1 .. Len(line) /\ Len(line) \in Nat /\ \A j \in 1 .. Len(line) : line[j] \in Letter
  BY LenProperties, ElementOfSeq
<1>2. \A c \in Letter : c \in Char /\ c \notin {"r", "n"}
  BY DEF Letter
<1>3. Plain(line)
  BY <1>1, <1>2 DEF Plain
<1>4. \A j \in 1 .. Len(line) : line[j] \in Char
  BY <1>1, <1>2
<1>5. line \in [1 .. Len(line) -> Char]
  BY <1>1, <1>4
<1> QED
  BY <1>1, <1>3, <1>5

\* The single dot.
LEMMA DotType == Dot \in Seq(Letter) /\ Len(Dot) = 1 /\ Dot # << >> /\ Dot[1] = "."
<1>1. "." \in Letter
  BY DEF Letter, Char
<1> QED
  BY <1>1 DEF Dot

\* Stuffing is undone, and no stuffed line is the single dot.
LEMMA StuffIs ==
  ASSUME NEW line \in Seq(Letter)
  PROVE  /\ Stuff(line) \in Seq(Letter) /\ Unstuff(Stuff(line)) = line /\ Stuff(line) # Dot
         /\ Stuffed(line) = Stuff(line) \o CRLF
<1>1. Stuffed(line) = Stuff(line) \o CRLF
  BY DEF Stuffed, Stuff
<1>2. CASE line # << >> /\ line[1] = "."
  <2>1. PICK c \in Letter : c = "."
    BY <1>2, DotType, ElementOfSeq DEF Dot, Letter, Char
  <2>2. Stuff(line) = <<c>> \o line
    BY <1>2, <2>1 DEF Stuff
  <2>3. PICK s \in Seq(Letter) : s = <<c>> \o line /\ s # << >> /\ Head(s) = c /\ Tail(s) = line
    BY HeadTailConcat
  <2>4. s[1] = c
    BY <2>3
  <2>5. Unstuff(s) = line
    BY <2>1, <2>3, <2>4 DEF Unstuff
  <2>6. s # Dot
    <3>1. Tail(Dot) = << >>
      BY DEF Dot
    <3> QED
      BY <1>2, <2>3, <3>1
  <2> QED
    BY <1>1, <2>2, <2>3, <2>5, <2>6
<1>3. CASE ~(line # << >> /\ line[1] = ".")
  <2>1. Stuff(line) = << >> \o line
    BY <1>3, Zenon DEF Stuff
  <2>2. << >> \o line = line
    BY ConcatEmptySeq
  <2>3. line # Dot
    BY <1>3, DotType
  <2>4. Unstuff(line) = line
    BY <1>3, Zenon DEF Unstuff
  <2> QED
    BY <1>1, <2>1, <2>2, <2>3, <2>4
<1> QED
  BY <1>2, <1>3

\* Stuffing line by line.
LEMMA StuffsIs ==
  ASSUME NEW lines \in Header
  PROVE  /\ Stuffs(lines) \in Header /\ Len(Stuffs(lines)) = Len(lines)
         /\ \A i \in 1 .. Len(lines) : Stuffs(lines)[i] = Stuff(lines[i])
<1> DEFINE X == Seq(Letter)
<1>1. PICK n \in Nat : n = Len(lines) /\ DOMAIN lines = 1 .. n /\ \A i \in 1 .. n : lines[i] \in Seq(Letter)
  BY HeaderLines
<1>2. \A i \in 1 .. n : Stuff(lines[i]) \in X
  BY <1>1, StuffIs
<1>3. DOMAIN Stuffs(lines) = DOMAIN lines /\ Stuffs(lines) = [i \in DOMAIN lines |-> Stuffs(lines)[i]]
  BY DEF Stuffs
<1>4. \A i \in 1 .. n : Stuffs(lines)[i] = Stuff(lines[i])
  BY <1>1 DEF Stuffs
<1>5. lines \in Seq(X)
  BY DEF Header
<1> HIDE DEF X
<1>6. Stuffs(lines) \in Seq(X) /\ Len(Stuffs(lines)) = Len(lines)
  BY <1>1, <1>2, <1>3, <1>4, <1>5, LinesType
<1> QED
  BY <1>1, <1>4, <1>6 DEF X, Header

\* The lines before the single dot.
LEMMA DotFound ==
  ASSUME NEW lines \in Header
  PROVE  SelectInSeq(Append(Stuffs(lines), Dot), LAMBDA line : line = Dot) = Len(lines) + 1
<1> DEFINE L == Append(Stuffs(lines), Dot)
           T == {j \in 1 .. Len(L) : L[j] = Dot}
           i == SelectInSeq(L, LAMBDA line : line = Dot)
<1>1. PICK n \in Nat : n = Len(lines)
  BY HeaderLines
<1>2. /\ Len(L) = n + 1 /\ L[n + 1] = Dot
      /\ \A j \in 1 .. n : L[j] = Stuff(lines[j])
  BY <1>1, StuffsIs, DotType, HeaderAppend
<1>3. \A j \in 1 .. n : L[j] # Dot
  BY <1>1, <1>2, HeaderLines, StuffIs
<1>4. i = IF T # {} THEN Min(T) ELSE 0
  BY DEF SelectInSeq
<1> HIDE DEF L, i
<1>5. T \in SUBSET (1 .. n + 1) /\ n + 1 \in Nat
  BY <1>2
<1>6. IsFirst(i, T)
  BY <1>4, <1>5, MinIsFirst
<1>7. n + 1 \in T
  BY <1>2
<1>8. i \in T
  BY <1>6, <1>7 DEF IsFirst
<1>9. i \in 1 .. n + 1 /\ L[i] = Dot
  BY <1>2, <1>8
<1>10. i \notin 1 .. n
  BY <1>3, <1>9
<1>11. i = n + 1
  BY <1>9, <1>10
<1> QED
  BY <1>1, <1>11 DEF i, L

\* A text of stuffed lines is received as those lines.
LEMMA ReceivedIs ==
  ASSUME NEW lines \in Header, NEW text \in Seq(Char),
         Parsed(text) = [lines |-> Stuffs(lines), line |-> << >>]
  PROVE  Received((text \o Dot) \o CRLF) = lines
<1> DEFINE X == Seq(Letter)
<1>1. PICK n \in Nat : n = Len(lines) /\ DOMAIN lines = 1 .. n /\ \A i \in 1 .. n : lines[i] \in Seq(Letter)
  BY HeaderLines
<1>2. Dot \in Seq(Char) /\ Plain(Dot)
  BY DotType, LetterPlain
<1>3. PICK t \in Seq(Char) : t = text \o Dot /\ Parsed(t).lines = Stuffs(lines) /\ Parsed(t).line = Dot
  <2>1. Parsed(text \o Dot).lines = Parsed(text).lines /\ Parsed(text \o Dot).line = Parsed(text).line \o Dot
    BY <1>2, ParsedLine
  <2>2. Parsed(text).lines = Stuffs(lines) /\ Parsed(text).line = << >>
    OBVIOUS
  <2>3. << >> \o Dot = Dot
    BY <1>2, ConcatEmptySeq
  <2>4. text \o Dot \in Seq(Char)
    BY <1>2, ConcatProperties
  <2> QED
    BY <2>1, <2>2, <2>3, <2>4
<1>4. Parsed(t \o CRLF) = [lines |-> Append(Parsed(t).lines, Parsed(t).line), line |-> << >>]
  BY ParsedEnd
<1>5. LinesOf(t \o CRLF) = Append(Stuffs(lines), Dot)
  <2>1. Parsed(t \o CRLF).lines = Append(Stuffs(lines), Dot)
    BY <1>3, <1>4
  <2> QED
    BY <2>1, ParsedFold
<1> DEFINE L == Append(Stuffs(lines), Dot)
<1>6. Received(t \o CRLF) = [i \in 1 .. (n + 1) - 1 |-> Unstuff(L[i])]
  <2>1. Received(t \o CRLF) =
          LET ls == LinesOf(t \o CRLF)
              dot == SelectInSeq(ls, LAMBDA line : line = Dot)
          IN  [i \in 1 .. dot - 1 |-> Unstuff(ls[i])]
    BY DEF Received, Unstuff, Dot
  <2>2. SelectInSeq(L, LAMBDA line : line = Dot) = n + 1
    BY <1>1, DotFound
  <2> QED
    BY <1>5, <2>1, <2>2
<1>7. \A i \in 1 .. n : L[i] = Stuff(lines[i])
  <2>1. PICK S \in Header : S = Stuffs(lines) /\ Len(S) = n /\ \A i \in 1 .. n : S[i] = Stuff(lines[i])
    BY <1>1, StuffsIs
  <2>2. \A i \in 1 .. n : Append(S, Dot)[i] = S[i]
    BY <2>1, DotType, HeaderAppend
  <2> QED
    BY <2>1, <2>2
<1>8. \A i \in 1 .. n : Unstuff(L[i]) = lines[i]
  BY <1>1, <1>7, StuffIs
<1> HIDE DEF L
<1>9. [i \in 1 .. (n + 1) - 1 |-> Unstuff(L[i])] = [i \in 1 .. n |-> lines[i]]
  BY <1>8
<1>10. [i \in 1 .. n |-> lines[i]] = lines
  BY <1>1, HeaderLines DEF Header
<1> QED
  BY <1>3, <1>6, <1>9, <1>10

\* The lines as SendArticle sends them.
LEMMA SendIs ==
  ASSUME NEW lines \in Header
  PROVE  SendArticle(lines) \in Seq(Char) /\ Parsed(SendArticle(lines)) = [lines |-> Stuffs(lines), line |-> << >>]
<1> DEFINE X == Seq(Char)
<1>1. PICK n \in Nat : n = Len(lines) /\ DOMAIN lines = 1 .. n /\ \A i \in 1 .. n : lines[i] \in Seq(Letter)
  BY HeaderLines
<1>2. PICK s \in Header : s = Stuffs(lines) /\ Len(s) = n /\ DOMAIN s = 1 .. n /\ \A i \in 1 .. n : s[i] = Stuff(lines[i])
  BY <1>1, StuffsIs, HeaderLines
<1>3. \A i \in 1 .. n : s[i] \in X /\ Plain(s[i])
  BY <1>2, HeaderLines, LetterPlain
<1>4. s \in Seq(X)
  <2> HIDE DEF X
  <2>1. s = [i \in 1 .. n |-> s[i]]
    BY <1>1, <1>2 DEF Stuffs
  <2>2. s \in [1 .. n -> X]
    BY <1>3, <2>1
  <2> QED
    BY <2>2
<1>5. [i \in DOMAIN lines |-> Stuffed(lines[i])] = [i \in DOMAIN s |-> s[i] \o CRLF]
  <2>1. \A i \in 1 .. n : Stuffed(lines[i]) = Stuff(lines[i]) \o CRLF
    BY <1>1, StuffIs
  <2>2. \A i \in 1 .. n : Stuffed(lines[i]) = s[i] \o CRLF
    BY <1>2, <2>1
  <2>3. [i \in 1 .. n |-> Stuffed(lines[i])] = [i \in 1 .. n |-> s[i] \o CRLF]
    BY <2>2, Zenon
  <2> QED
    BY <1>1, <1>2, <2>3
<1>6. /\ Parsed(FlattenSeq([i \in DOMAIN s |-> s[i] \o CRLF])) = [lines |-> s, line |-> << >>]
      /\ FlattenSeq([i \in DOMAIN s |-> s[i] \o CRLF]) \in Seq(Char)
  BY <1>2, <1>3, <1>4, ParsedText
<1> QED
  BY <1>2, <1>5, <1>6 DEF SendArticle

\* A reply of lines, and one with an empty line behind them.
LEMMA ReplyReceived ==
  ASSUME NEW lines \in Header
  PROVE  /\ Received(SendArticle(lines) \o <<".">> \o CRLF) = lines
         /\ Received((SendArticle(lines) \o CRLF) \o <<".">> \o CRLF) = Append(lines, << >>)
<1>1. PICK text \in Seq(Char) : text = SendArticle(lines) /\ Parsed(text) = [lines |-> Stuffs(lines), line |-> << >>]
  BY SendIs
<1>2. Received((text \o Dot) \o CRLF) = lines
  BY <1>1, ReceivedIs
<1>3. PICK e \in Seq(Letter) : e = << >>
  BY EmptySeq
<1>4. PICK more \in Header : more = Append(lines, e)
  BY HeaderAppend
<1>5. PICK t \in Seq(Char) : t = text \o CRLF /\ Parsed(t) = [lines |-> Append(Parsed(text).lines, Parsed(text).line), line |-> << >>]
  BY ParsedEnd
<1>6. Parsed(t).lines = Append(Stuffs(lines), e) /\ Parsed(t) = [lines |-> Append(Stuffs(lines), e), line |-> << >>]
  <2>1. Parsed(text).lines = Stuffs(lines) /\ Parsed(text).line = e
    BY <1>1, <1>3
  <2> QED
    BY <1>5, <2>1
<1>7. Stuffs(more) = Append(Stuffs(lines), e)
  <2> DEFINE X == Seq(Letter)
  <2>1. Stuff(e) = e
    <3>1. Stuff(e) = << >> \o e
      BY <1>3, Zenon DEF Stuff
    <3> QED
      BY <1>3, <3>1, ConcatEmptySeq
  <2>2. PICK n \in Nat : n = Len(lines) /\ Len(more) = n + 1 /\ more[n + 1] = e /\ \A i \in 1 .. n : more[i] = lines[i]
    BY <1>4, HeaderAppend
  <2>3. PICK S \in Header : S = Stuffs(lines) /\ Len(S) = n /\ \A i \in 1 .. n : S[i] = Stuff(lines[i])
    BY <2>2, StuffsIs
  <2>4. PICK A \in Header : A = Append(S, e) /\ Len(A) = n + 1 /\ A[n + 1] = e /\ \A i \in 1 .. n : A[i] = S[i]
    BY <2>3, HeaderAppend
  <2>5. PICK M \in Header : M = Stuffs(more) /\ Len(M) = n + 1 /\ \A i \in 1 .. n + 1 : M[i] = Stuff(more[i])
    BY <2>2, StuffsIs
  <2>6. \A i \in 1 .. n + 1 : i = n + 1 \/ i \in 1 .. n
    OBVIOUS
  <2>7. \A i \in 1 .. n + 1 : M[i] = A[i]
    BY <2>1, <2>2, <2>3, <2>4, <2>5, <2>6
  <2>8. M \in Seq(X) /\ A \in Seq(X)
    BY DEF Header
  <2> HIDE DEF X
  <2>9. M = A
    BY <2>4, <2>5, <2>7, <2>8, SeqEqual
  <2> QED
    BY <2>3, <2>4, <2>5, <2>9
<1>8. Received((t \o Dot) \o CRLF) = more
  BY <1>6, <1>7, ReceivedIs
<1> QED
  BY <1>1, <1>2, <1>3, <1>4, <1>5, <1>8 DEF Dot

\* The three replies.
LEMMA SentIs == TypeOK /\ FileInv => SentAsReceived
<1> SUFFICES ASSUME TypeOK, FileInv, Whole, Proper
             PROVE  /\ Received(Reply("ARTICLE")) = file
                    /\ Received(Reply("HEAD")) \o << << >> >> \o Received(Reply("BODY")) = Append(file, << >>)
                    /\ Received(Reply("BODY")) = Append(MeantBody, << >>)
  BY DEF SentAsReceived
<1>1. PICK h \in Header, b \in Header, f \in Header :
        /\ h = Full /\ b = MeantBody /\ f = file
        /\ f = FileOf(h, b) /\ HeadOf(f) = h /\ BodyOf(f) = b
  BY StoredParts, FullIs
<1>2. Reply("ARTICLE") = SendArticle(f) \o <<".">> \o CRLF
  BY <1>1 DEF Reply
<1>3. Reply("HEAD") = SendArticle(h) \o <<".">> \o CRLF
  BY <1>1 DEF Reply
<1>4. Reply("BODY") = (SendArticle(b) \o CRLF) \o <<".">> \o CRLF
  BY <1>1 DEF Reply
<1>5. /\ Received(Reply("ARTICLE")) = f /\ Received(Reply("HEAD")) = h
      /\ Received(Reply("BODY")) = Append(b, << >>)
  BY <1>2, <1>3, <1>4, ReplyReceived
<1>6. (h \o << << >> >>) \o Append(b, << >>) = Append(f, << >>)
  <2> DEFINE X == Seq(Letter)
  <2>1. h \in Seq(X) /\ b \in Seq(X) /\ << >> \in X
    BY EmptySeq DEF Header
  <2> HIDE DEF X
  <2>2. PICK e \in X : e = << >>
    BY <2>1
  <2>3. PICK a \in Seq(X) : a = h \o <<e>>
    <3>1. <<e>> \in Seq(X)
      OBVIOUS
    <3> QED
      BY <2>1, <3>1, ConcatProperties
  <2>4. AppendsBehind(X, a, b, e)
    BY <2>1, AppendBehind
  <2>5. f = a \o b
    BY <1>1, <2>2, <2>3 DEF FileOf
  <2> QED
    BY <2>2, <2>3, <2>4, <2>5 DEF AppendsBehind
<1> QED
  BY <1>1, <1>5, <1>6

\* ARTICLE, HEAD and BODY bring every stored line to the client.
THEOREM ReaderSends == Spec => []SentAsReceived
BY ReaderStores, ReaderTypeCorrect, SentIs, PTL

-----------------------------------------------------------------------------
(* The copy that is mailed.                                                *)

\* The fields that are kept: those of Mailed whose name a space follows.
Carried(f) == Of(Mailed, f) /\ Len(f[1]) > 1 /\ f[1][2] = " "
Carries(line) == \E n \in Mailed : IsField(line, n) /\ Len(line) > 1 /\ line[2] = " "
Chosen(F) == Spaced(Filtered(Mailed, F))

\* One field more, with a space behind its name or not.
LEMMA SpacedAppend ==
  ASSUME NEW fs \in Seq(OneField)
  PROVE  /\ Spaced(<< >>) = << >> /\ Spaced(fs) \in Seq(OneField)
         /\ \A f \in OneField : Spaced(Append(fs, f)) = AddSpaced(Spaced(fs), f)
<1> DEFINE p == 0
           V == Seq(OneField)
           X == OneField
           base == << >>
<1>0. \A ls : Spaced(ls) = Spacing!Fold(p, base, ls)
  BY DEF Spaced, FoldLeft, MapThenFoldSet, Max, Space,
         Spacing!Fold, Spacing!MapThenFoldSet, Spacing!Max
<1>1. Spacing!Keeps(p, V, X) /\ base \in V /\ fs \in Seq(X)
  <2>1. \A v \in V, x \in X : AddSpaced(v, x) \in V
    <3>1. \A v \in V, x \in X : Append(v, x) \in V
      BY AppendProperties
    <3> HIDE DEF V, X
    <3> QED
      BY <3>1, Zenon DEF AddSpaced
  <2> QED
    BY <2>1, EmptySeq DEF Spacing!Keeps, Space
<1>2. /\ Spacing!Fold(p, base, << >>) = base
      /\ Spacing!Fold(p, base, fs) \in V
      /\ \A x \in X : Spacing!Fold(p, base, Append(fs, x)) = Space(p, Spacing!Fold(p, base, fs), x)
  <2> HIDE DEF V, X, base, p
  <2> QED
    BY <1>1, Numbers, Spacing!FoldAppend
<1> QED
  BY <1>0, <1>2 DEF Space

\* One field more.
Chooses(F, f) == Chosen(Append(F, f)) = Append(Chosen(F), f)
Omits(F, f) == Chosen(Append(F, f)) = Chosen(F)

\* A field more is chosen or not.
LEMMA ChosenOne ==
  \A F \in Seq(OneField), f \in OneField :
    /\ Chosen(F) \in Seq(OneField) /\ Chosen(<< >>) = << >>
    /\ IF Carried(f) THEN Chooses(F, f) ELSE Omits(F, f)
<1> TAKE F \in Seq(OneField), f \in OneField
<1>1. PICK N \in Seq(OneField) : N = Filtered(Mailed, F)
  BY FilteredAppend
<1>2. Chosen(F) = Spaced(N) /\ Spaced(N) \in Seq(OneField)
  BY <1>1, SpacedAppend DEF Chosen
<1>3. Chosen(<< >>) = << >>
  BY <1>1, FilteredNone, SpacedAppend DEF Chosen
<1>4. CASE ~Of(Mailed, f)
  <2>1. Filtered(Mailed, Append(F, f)) = N
    BY <1>1, <1>4, FilteredOne DEF Leaves
  <2> QED
    BY <1>2, <1>3, <1>4, <2>1 DEF Chosen, Carried, Omits
<1>5. CASE Of(Mailed, f)
  <2>1. Filtered(Mailed, Append(F, f)) = Append(N, f)
    BY <1>1, <1>5, FilteredOne DEF Takes
  <2>2. Chosen(Append(F, f)) = AddSpaced(Spaced(N), f)
    BY <2>1, SpacedAppend DEF Chosen
  <2>3. AddSpaced(Spaced(N), f) = IF Carried(f) THEN Append(Spaced(N), f) ELSE Spaced(N)
    BY <1>5, Zenon DEF AddSpaced, Carried
  <2> QED
    BY <1>2, <1>3, <2>2, <2>3, Zenon DEF Chooses, Omits
<1> QED
  BY <1>4, <1>5

\* What has been copied of a header.
Copy1 == [pflag : BOOLEAN, lines : Header]
CopyStart == [pflag |-> FALSE, lines |-> << >>]
CopyOf(h) == FoldLeft(Preserve, CopyStart, h)

\* The copy of one line more.
LEMMA CopyOne ==
  \A at \in Copy1, line \in Seq(Letter) :
    LET keep == IF IsFold(line) THEN at.pflag ELSE Carries(line) IN
    /\ Preserve(at, line) = [pflag |-> keep, lines |-> IF keep THEN Append(at.lines, line) ELSE at.lines]
    /\ Preserve(at, line) \in Copy1
<1> TAKE at \in Copy1, line \in Seq(Letter)
<1> DEFINE keep == IF IsFold(line) THEN at.pflag ELSE Carries(line)
<1>1. Preserve(at, line) = [pflag |-> keep, lines |-> IF keep THEN Append(at.lines, line) ELSE at.lines]
  BY Zenon DEF Preserve, Carries
<1>2. at.pflag \in BOOLEAN /\ at.lines \in Header /\ Append(at.lines, line) \in Header
  BY HeaderAppend DEF Copy1
<1>3. keep \in BOOLEAN
  BY <1>2 DEF Carries
<1> HIDE DEF keep
<1> QED
  BY <1>1, <1>2, <1>3 DEF keep, Copy1

\* The copy goes on at the end of a header.
LEMMA CopyAppend ==
  ASSUME NEW h \in Header
  PROVE  /\ CopyOf(<< >>) = CopyStart /\ CopyOf(h) \in Copy1
         /\ \A line \in Seq(Letter) : CopyOf(Append(h, line)) = Preserve(CopyOf(h), line)
         /\ Preserved(h) = CopyOf(h).lines
<1> DEFINE p == 0
           V == Copy1
           X == Seq(Letter)
           base == CopyStart
<1>0. \A ls : CopyOf(ls) = Copied!Fold(p, base, ls)
  BY DEF CopyOf, FoldLeft, MapThenFoldSet, Max, Copy,
         Copied!Fold, Copied!MapThenFoldSet, Copied!Max
<1>1. Copied!Keeps(p, V, X) /\ base \in V /\ h \in Seq(X)
  BY CopyOne, EmptySeq DEF Copied!Keeps, Copy, Header, Copy1, CopyStart
<1>2. /\ Copied!Fold(p, base, << >>) = base
      /\ Copied!Fold(p, base, h) \in V
      /\ \A x \in X : Copied!Fold(p, base, Append(h, x)) = Copy(p, Copied!Fold(p, base, h), x)
  <2> HIDE DEF V, X, base, p
  <2> QED
    BY <1>1, Numbers, Copied!FoldAppend
<1>3. Preserved(h) = CopyOf(h).lines
  BY Zenon DEF Preserved, CopyOf, CopyStart
<1> QED
  BY <1>0, <1>2, <1>3 DEF Copy

\* The copy's fields are those chosen, and the flag tells of the last field.
CopyGood(h) ==
  /\ Fields(CopyOf(h).lines) = Chosen(Fields(h))
  /\ h = << >> => ~CopyOf(h).pflag
  /\ \A r \in Seq(OneField), f \in OneField : Fields(h) = Append(r, f) => (CopyOf(h).pflag <=> Carried(f))
  /\ Solid(h) => Solid(CopyOf(h).lines)

\* A field is the last one in one way.
LEMMA LastField ==
  \A r, q \in Seq(OneField), f, g \in OneField : Append(r, f) = Append(q, g) => r = q /\ f = g
<1> DEFINE X == OneField
<1>1. \A r, q \in Seq(X), f, g \in X : Append(r, f) = Append(q, g) => r = q /\ f = g
  <2> HIDE DEF X
  <2> QED
    BY AppendInjective
<1> QED
  BY <1>1

\* A line is kept for its own field, if it begins one.
LEMMA CarriedLine ==
  \A line \in Seq(Letter) : /\ Carried(<<line>>) <=> Carries(line)
                            /\ Carries(line) => ~IsFold(line)
<1> TAKE line \in Seq(Letter)
<1>1. Fieldlike(Mailed)
  <2>1. Mailed \subseteq Names
    BY DEF Names
  <2> QED
    BY <2>1, FieldlikeNames, Zenon DEF Fieldlike
<1>2. <<line>>[1] = line
  OBVIOUS
<1>3. Carried(<<line>>) <=> In(Mailed, line) /\ Len(line) > 1 /\ line[2] = " "
  BY <1>2, Zenon DEF Carried, Of, In
<1>4. Carries(line) <=> In(Mailed, line) /\ Len(line) > 1 /\ line[2] = " "
  BY Zenon DEF Carries, In, IsField
<1>5. IsFold(line) => ~In(Mailed, line)
  BY <1>1, FoldNames DEF In
<1> QED
  BY <1>3, <1>4, <1>5

\* CopyGood is kept by each line.
LEMMA CopyStep ==
  ASSUME NEW h \in Header, NEW line \in Seq(Letter), CopyGood(h)
  PROVE  CopyGood(Append(h, line))
<1> DEFINE p == Append(h, line)
           at == CopyOf(h)
           to == CopyOf(p)
           keep == IF IsFold(line) THEN at.pflag ELSE Carries(line)
<1>1. at \in Copy1 /\ to = Preserve(at, line)
  BY CopyAppend
<1>2. PICK L \in Header : L = at.lines /\ at.pflag \in BOOLEAN
  BY <1>1 DEF Copy1
<1>3. to = [pflag |-> keep, lines |-> IF keep THEN Append(L, line) ELSE L]
  BY <1>1, <1>2, CopyOne
<1>4. to.pflag = keep /\ to.lines = IF keep THEN Append(L, line) ELSE L
  BY <1>3
<1>5. Fields(L) = Chosen(Fields(h)) /\ (h = << >> => ~at.pflag) /\ (Solid(h) => Solid(L))
  BY <1>2 DEF CopyGood
<1>6. \A r \in Seq(OneField), f \in OneField : Fields(h) = Append(r, f) => (at.pflag <=> Carried(f))
  BY DEF CopyGood
<1>7. p \in Header /\ p # << >>
  BY HeaderAppend
<1>8. Solid(p) => Solid(to.lines)
  <2> SUFFICES ASSUME Solid(p) PROVE Solid(to.lines)
    OBVIOUS
  <2>1. PICK n \in Nat : n = Len(h) /\ Len(p) = n + 1 /\ p[n + 1] = line /\ \A i \in 1 .. n : p[i] = h[i]
    BY HeaderAppend
  <2>2. Solid(h) /\ line # << >>
    <3>1. \A i \in 1 .. n + 1 : p[i] # << >>
      BY <2>1 DEF Solid
    <3>2. n + 1 \in 1 .. n + 1 /\ \A i \in 1 .. n : i \in 1 .. n + 1
      OBVIOUS
    <3> QED
      BY <2>1, <3>1, <3>2 DEF Solid
  <2>3. Solid(L) /\ Solid(Append(L, line))
    BY <1>5, <2>2, SolidAppend
  <2> QED
    BY <1>4, <2>3
<1>9. PICK F \in Seq(OneField), C \in Seq(OneField) : F = Fields(h) /\ C = Chosen(F) /\ Fields(L) = C
  BY <1>5, FieldsAppend, ChosenOne, FieldGrows
<1> HIDE DEF p, at, to, keep
<1>10. CASE IsFold(line) /\ h # << >>
  <2>1. \E r \in Seq(OneField), f, g \in OneField :
          /\ Fields(h) = Append(r, f) /\ g = Append(f, line) /\ Fields(Append(h, line)) = Append(r, g)
          /\ g[1] = f[1]
    BY <1>10, FieldsGrow
  <2>2. PICK r \in Seq(OneField), f \in OneField, g \in OneField :
          F = Append(r, f) /\ g = Append(f, line) /\ Fields(p) = Append(r, g) /\ g[1] = f[1]
    BY <1>9, <2>1 DEF p
  <2>3. Carried(g) <=> Carried(f)
    BY <2>2, Zenon DEF Carried, Of
  <2>4. keep <=> Carried(f)
    BY <1>6, <1>9, <1>10, <2>2 DEF keep
  <2>5. PICK R \in Seq(OneField) : R = Chosen(r)
    BY ChosenOne
  <2>6. Fields(to.lines) = Chosen(Fields(p))
    <3>1. CASE Carried(f)
      <4>1. C = Append(R, f) /\ Chosen(Fields(p)) = Append(R, g)
        BY <1>9, <2>2, <2>3, <2>5, <3>1, ChosenOne DEF Chooses
      <4>2. to.lines = Append(L, line)
        BY <1>4, <2>4, <3>1
      <4>3. Fields(Append(L, line)) = AddToFields(Append(R, f), line)
        BY <1>9, <4>1, FieldsAppend
      <4>4. AddToFields(Append(R, f), line) = Append(R, g)
        BY <1>10, <2>2, AddToFold DEF Extends, Longer
      <4> QED
        BY <4>1, <4>2, <4>3, <4>4
    <3>2. CASE ~Carried(f)
      <4>1. C = R /\ Chosen(Fields(p)) = R
        BY <1>9, <2>2, <2>3, <2>5, <3>2, ChosenOne DEF Omits
      <4>2. to.lines = L
        BY <1>4, <2>4, <3>2
      <4> QED
        BY <1>9, <4>1, <4>2
    <3> QED
      BY <3>1, <3>2
  <2>7. \A q \in Seq(OneField), e \in OneField : Fields(p) = Append(q, e) => (to.pflag <=> Carried(e))
    <3> SUFFICES ASSUME NEW q \in Seq(OneField), NEW e \in OneField, Fields(p) = Append(q, e)
                 PROVE  to.pflag <=> Carried(e)
      OBVIOUS
    <3>1. Append(r, g) = Append(q, e)
      BY <2>2
    <3>2. e = g
      BY <3>1, LastField, Zenon
    <3> QED
      BY <1>4, <2>3, <2>4, <3>2
  <2> QED
    BY <1>7, <1>8, <2>6, <2>7 DEF CopyGood, p, to
<1>11. CASE ~(IsFold(line) /\ h # << >>)
  <2>1. PICK f \in OneField : f = <<line>>
    BY FieldGrows
  <2>2. Fields(p) = Append(F, f)
    <3>1. CASE ~IsFold(line)
      BY <1>9, <2>1, <3>1, FieldsGrow DEF p
    <3>2. CASE h = << >>
      <4>1. Fields(p) = << f >> /\ F = << >>
        BY <1>9, <2>1, <3>2, FieldsGrow, FieldsAppend DEF p
      <4> QED
        BY <4>1, AppendNone
    <3> QED
      BY <1>11, <3>1, <3>2
  <2>3. keep <=> Carried(f)
    <3>1. CASE ~IsFold(line)
      BY <2>1, <3>1, CarriedLine DEF keep
    <3>2. CASE IsFold(line)
      BY <1>5, <1>11, <2>1, <3>2, CarriedLine DEF keep
    <3> QED
      BY <3>1, <3>2
  <2>4. Fields(to.lines) = Chosen(Fields(p))
    <3>1. CASE Carried(f)
      <4>1. Chosen(Fields(p)) = Append(C, f)
        BY <1>9, <2>2, <3>1, ChosenOne DEF Chooses
      <4>2. to.lines = Append(L, line) /\ ~IsFold(line)
        BY <1>4, <2>1, <2>3, <3>1, CarriedLine
      <4>3. Fields(Append(L, line)) = Append(C, f)
        BY <1>9, <2>1, <4>2, FieldsGrow
      <4> QED
        BY <4>1, <4>2, <4>3
    <3>2. CASE ~Carried(f)
      <4>1. Chosen(Fields(p)) = C
        BY <1>9, <2>2, <3>2, ChosenOne DEF Omits
      <4>2. to.lines = L
        BY <1>4, <2>3, <3>2
      <4> QED
        BY <1>9, <4>1, <4>2
    <3> QED
      BY <3>1, <3>2
  <2>5. \A q \in Seq(OneField), e \in OneField : Fields(p) = Append(q, e) => (to.pflag <=> Carried(e))
    <3> SUFFICES ASSUME NEW q \in Seq(OneField), NEW e \in OneField, Fields(p) = Append(q, e)
                 PROVE  to.pflag <=> Carried(e)
      OBVIOUS
    <3>1. Append(F, f) = Append(q, e)
      BY <2>2
    <3>2. e = f
      BY <3>1, LastField, Zenon
    <3> QED
      BY <1>4, <2>3, <3>2
  <2> QED
    BY <1>7, <1>8, <2>4, <2>5 DEF CopyGood, p, to
<1> QED
  BY <1>10, <1>11

\* The copy of a header has its chosen fields.
LEMMA PreservedIs ==
  \A h \in Header : /\ Preserved(h) \in Header /\ Fields(Preserved(h)) = Chosen(Fields(h))
                    /\ Solid(h) => Solid(Preserved(h))
<1> DEFINE T == {h \in Header : CopyGood(h)}
<1>1. << >> \in Header
  BY EmptySeq DEF Header
<1>2. CopyGood(<< >>)
  <2>1. CopyOf(<< >>).lines = << >> /\ ~CopyOf(<< >>).pflag
    BY <1>1, CopyAppend DEF CopyStart
  <2>2. Fields(<< >>) = << >> /\ Chosen(<< >>) = << >>
    <3>1. PICK f \in OneField, F \in Seq(OneField) : F = << >>
      BY FieldGrows, EmptySeq
    <3> QED
      BY <1>1, <3>1, FieldsAppend, ChosenOne
  <2>3. \A r \in Seq(OneField), f \in OneField : Append(r, f) # << >>
    BY AppendProperties
  <2> QED
    BY <2>1, <2>2, <2>3 DEF CopyGood
<1>3. Header \subseteq T
  <2>1. << >> \in T /\ \A h \in Header, line \in Seq(Letter) : h \in T => Append(h, line) \in T
    BY <1>1, <1>2, CopyStep, HeaderAppend
  <2> HIDE DEF T
  <2> QED
    BY <2>1, HeaderInduction
<1> SUFFICES ASSUME NEW h \in Header
             PROVE  /\ Preserved(h) \in Header /\ Fields(Preserved(h)) = Chosen(Fields(h))
                    /\ Solid(h) => Solid(Preserved(h))
  OBVIOUS
<1>4. CopyGood(h)
  BY <1>3
<1>5. Preserved(h) = CopyOf(h).lines /\ CopyOf(h).lines \in Header
  BY CopyAppend DEF Copy1
<1> QED
  BY <1>4, <1>5 DEF CopyGood

\* The mail.
LEMMA MailedIs == TypeOK /\ FileInv => MailedWhole
<1> SUFFICES ASSUME TypeOK, FileInv, Whole, Proper, how.ccpost
             PROVE  /\ Fields(HeadOf(mailed)) = Spaced(Named(HeadOf(file), Mailed))
                    /\ BodyOf(mailed) = Note \o MeantBody
  BY DEF MailedWhole
<1>1. PICK h \in Header, b \in Header : h = Full /\ b = MeantBody /\ HeadOf(file) = h /\ Solid(h)
  BY StoredParts, FullIs
<1>2. PICK c \in Header : c = Note \o b
  <2> DEFINE X == Seq(Letter)
  <2>1. Note \in Header
    <3>1. PICK w \in X, e \in X : w = <<"x">> /\ e = << >>
      <4>1. "x" \in Letter
        BY DEF Letter, Char
      <4> QED
        BY <4>1, OneLetter, EmptySeq
    <3> HIDE DEF X
    <3>2. <<w, e>> \in Seq(X) /\ << >> \in Seq(X)
      BY EmptySeq
    <3>3. Note \in Seq(X)
      BY <3>1, <3>2, Zenon DEF Note
    <3> QED
      BY <3>3 DEF X, Header
  <2> QED
    BY <2>1, HeaderConcat
<1>3. PICK k \in Header : k = Preserved(h) /\ Fields(k) = Chosen(Fields(h)) /\ Solid(k)
  BY <1>1, PreservedIs
<1>4. mailed = FileOf(k, c)
  BY <1>1, <1>2, <1>3 DEF FileInv
<1>5. HeadOf(mailed) = k /\ BodyOf(mailed) = c
  BY <1>3, <1>4, FileParts
<1>6. Chosen(Fields(h)) = Spaced(Named(h, Mailed))
  BY NamedIs DEF Chosen
<1> QED
  BY <1>1, <1>2, <1>3, <1>5, <1>6

\* The copy for ccpost has the fields it should, whole, and the body.
THEOREM ReaderMails == Spec => []MailedWhole
BY ReaderStores, ReaderTypeCorrect, MailedIs, PTL

-----------------------------------------------------------------------------
(* White space before a text.                                              *)

AllWhite(s) == \A j \in 1 .. Len(s) : White(s[j])

\* A text is its first white space and the rest.
LEMMA TrimSplit ==
  \A s \in Seq(Letter) : /\ Trim(s) \in Seq(Letter)
                         /\ \E a \in Seq(Letter) : AllWhite(a) /\ s = a \o Trim(s)
<1> SUFFICES ASSUME NEW s \in Seq(Letter)
             PROVE  /\ Trim(s) \in Seq(Letter)
                    /\ \E a \in Seq(Letter) : AllWhite(a) /\ s = a \o Trim(s)
  OBVIOUS
<1>1. PICK n \in Nat : n = Len(s)
  BY LenProperties
<1>2. PICK p : IsFirst(p, Visible(s)) /\ Trim(s) = IF p = 0 THEN << >> ELSE SubSeq(s, p, n)
  BY <1>1, TrimFirst
<1>3. \A j : j \in Visible(s) <=> j \in 1 .. n /\ ~White(s[j])
  BY <1>1 DEF Visible
<1>4. CASE Visible(s) = {}
  <2>1. Trim(s) = << >>
    BY <1>2, <1>4 DEF IsFirst
  <2>2. AllWhite(s)
    BY <1>1, <1>3, <1>4 DEF AllWhite
  <2>3. s \o << >> = s /\ << >> \in Seq(Letter)
    BY ConcatEmptySeq, EmptySeq
  <2> QED
    BY <2>1, <2>2, <2>3
<1>5. CASE Visible(s) # {}
  <2>1. p \in 1 .. n /\ \A j \in Visible(s) : p <= j
    BY <1>2, <1>3, <1>5 DEF IsFirst
  <2>2. Trim(s) = SubSeq(s, p, n)
    BY <1>2, <2>1
  <2>3. PICK b \in Seq(Letter) : b = SubSeq(s, p, n)
    <3>1. p \in Nat \ {0}
      BY <2>1
    <3> QED
      BY <1>1, <3>1, SuffixType
  <2>4. PICK a \in Seq(Letter) : a = SubSeq(s, 1, p - 1)
    <3>1. p - 1 \in Nat /\ p - 1 <= Len(s)
      BY <1>1, <2>1
    <3> QED
      BY <3>1, PrefixType
  <2>5. Len(a) = p - 1 /\ \A j \in 1 .. p - 1 : a[j] = s[j]
    BY <1>1, <2>1, <2>4
  <2>6. Len(b) = n - p + 1 /\ \A j \in 1 .. n - p + 1 : b[j] = s[p - 1 + j]
    BY <1>1, <2>1, <2>3
  <2>7. AllWhite(a)
    <3> SUFFICES ASSUME NEW j \in 1 .. p - 1 PROVE White(s[j])
      BY <2>5 DEF AllWhite
    <3>1. j \in 1 .. n /\ ~(p <= j)
      BY <2>1
    <3> QED
      BY <1>3, <2>1, <3>1
  <2>8. PICK q : q = a \o b
    OBVIOUS
  <2>9. ConcatOf(Letter, a, b, q)
    BY <2>8, ConcatIs
  <2>10. /\ q \in Seq(Letter) /\ Len(q) = n
         /\ \A i \in 1 .. n : q[i] = IF i <= p - 1 THEN a[i] ELSE b[i - (p - 1)]
    <3>1. (p - 1) + (n - p + 1) = n
      BY <2>1
    <3> QED
      BY <2>5, <2>6, <2>9, <3>1 DEF ConcatOf
  <2>11. \A i \in 1 .. n : q[i] = s[i]
    <3> SUFFICES ASSUME NEW i \in 1 .. n PROVE q[i] = s[i]
      OBVIOUS
    <3>1. i <= p - 1 => i \in 1 .. p - 1
      BY <2>1
    <3>2. ~(i <= p - 1) => i - (p - 1) \in 1 .. n - p + 1 /\ p - 1 + (i - (p - 1)) = i
      BY <2>1
    <3> QED
      BY <2>5, <2>6, <2>10, <3>1, <3>2
  <2>12. q = s
    BY <1>1, <2>10, <2>11, SeqEqual
  <2> QED
    BY <2>2, <2>3, <2>7, <2>8, <2>12
<1> QED
  BY <1>4, <1>5

\* White space before a text makes no difference.
LEMMA TrimWhite ==
  \A a, b \in Seq(Letter) : AllWhite(a) => Trim(a \o b) = Trim(b)
<1> SUFFICES ASSUME NEW a \in Seq(Letter), NEW b \in Seq(Letter), AllWhite(a)
             PROVE  Trim(a \o b) = Trim(b)
  OBVIOUS
<1>1. PICK m \in Nat, n \in Nat : m = Len(a) /\ n = Len(b)
  BY LenProperties
<1>2. PICK q : q = a \o b
  OBVIOUS
<1>3. ConcatOf(Letter, a, b, q)
  BY <1>2, ConcatIs
<1>4. /\ q \in Seq(Letter) /\ Len(q) = m + n
      /\ \A i \in 1 .. m + n : q[i] = IF i <= m THEN a[i] ELSE b[i - m]
  BY <1>1, <1>3 DEF ConcatOf
<1>5. \A i \in 1 .. m : q[i] = a[i] /\ White(q[i])
  <2>1. \A i \in 1 .. m : i \in 1 .. m + n /\ i <= m
    OBVIOUS
  <2> QED
    BY <1>1, <1>4, <2>1 DEF AllWhite
<1>6. \A i \in 1 .. n : q[m + i] = b[i]
  <2>1. \A i \in 1 .. n : m + i \in 1 .. m + n /\ ~(m + i <= m) /\ (m + i) - m = i
    OBVIOUS
  <2> QED
    BY <1>4, <2>1
<1>7. \A i \in 1 .. m + n : i \in 1 .. m \/ (i - m \in 1 .. n /\ m + (i - m) = i)
  OBVIOUS
<1>8. CASE \A j \in 1 .. n : White(b[j])
  <2>1. \A i \in 1 .. m + n : White(q[i])
    BY <1>5, <1>6, <1>7, <1>8
  <2>2. Trim(b) = << >>
    BY <1>1, <1>8, TrimIs
  <2>3. PICK k \in Nat : k = Len(q) /\ \A i \in 1 .. k : White(q[i])
    BY <1>4, <2>1
  <2>4. Trim(q) = << >>
    BY <2>3, TrimIs
  <2> QED
    BY <1>2, <2>2, <2>4
<1>9. CASE ~(\A j \in 1 .. n : White(b[j]))
  <2>1. PICK p : IsFirst(p, Visible(b))
    BY <1>1, TrimFirst
  <2>2. \A j : j \in Visible(b) <=> j \in 1 .. n /\ ~White(b[j])
    BY <1>1 DEF Visible
  <2>3. p \in 1 .. n /\ ~White(b[p]) /\ \A j \in Visible(b) : p <= j
    BY <1>9, <2>1, <2>2 DEF IsFirst
  <2>4. \A j \in 1 .. p - 1 : White(b[j])
    <3>1. \A j \in 1 .. p - 1 : j \in 1 .. n /\ ~(p <= j)
      BY <2>3
    <3> QED
      BY <2>2, <2>3, <3>1
  <2>5. Trim(b) = SubSeq(b, p, n)
    BY <1>1, <2>3, <2>4, TrimIs
  <2>6. Trim(q) = SubSeq(q, m + p, m + n)
    <3>1. m + p \in 1 .. m + n
      BY <2>3
    <3>2. ~White(q[m + p])
      BY <1>6, <2>3
    <3>3. \A i \in 1 .. (m + p) - 1 : White(q[i])
      <4> SUFFICES ASSUME NEW i \in 1 .. (m + p) - 1 PROVE White(q[i])
        OBVIOUS
      <4>1. i \in 1 .. m \/ (i - m \in 1 .. p - 1 /\ i - m \in 1 .. n /\ m + (i - m) = i)
        BY <2>3
      <4> QED
        BY <1>5, <1>6, <2>4, <4>1
    <3>4. PICK k \in Nat, i \in Nat : k = m + n /\ i = m + p /\ i \in 1 .. k
      BY <3>1
    <3>6. k = Len(q) /\ ~White(q[i]) /\ \A j \in 1 .. i - 1 : White(q[j])
      BY <1>4, <3>2, <3>3, <3>4
    <3>5. Trim(q) = SubSeq(q, i, k)
      BY <3>4, <3>6, TrimIs
    <3> QED
      BY <3>4, <3>5
  <2>7. PICK u \in Seq(Letter), v \in Seq(Letter) : u = SubSeq(b, p, n) /\ v = SubSeq(q, m + p, m + n)
    <3>1. p \in Nat \ {0} /\ m + p \in Nat \ {0}
      BY <2>3
    <3> QED
      BY <1>1, <1>4, <3>1, SuffixType
  <2>8. Len(u) = n - p + 1 /\ \A j \in 1 .. n - p + 1 : u[j] = b[p - 1 + j]
    BY <1>1, <2>3, <2>7
  <2>9. Len(v) = n - p + 1 /\ \A j \in 1 .. n - p + 1 : v[j] = q[m + (p - 1 + j)]
    BY <1>4, <2>3, <2>7
  <2>10. \A j \in 1 .. n - p + 1 : p - 1 + j \in 1 .. n
    BY <2>3
  <2>11. u = v
    <3>1. \A j \in 1 .. n - p + 1 : u[j] = v[j]
      BY <1>6, <2>8, <2>9, <2>10
    <3> QED
      BY <2>8, <2>9, <3>1, SeqEqual
  <2> QED
    BY <1>2, <2>5, <2>6, <2>7, <2>11
<1> QED
  BY <1>8, <1>9

\* ... nor does it make one whether it is taken away before more is added.
LEMMA TrimTwice ==
  \A s, t \in Seq(Letter) : Trim(Trim(s) \o t) = Trim(s \o t)
<1> SUFFICES ASSUME NEW s \in Seq(Letter), NEW t \in Seq(Letter)
             PROVE  Trim(Trim(s) \o t) = Trim(s \o t)
  OBVIOUS
<1>1. PICK a \in Seq(Letter), b \in Seq(Letter) : b = Trim(s) /\ AllWhite(a) /\ s = a \o b
  BY TrimSplit
<1>2. Associates(Letter, a, b, t)
  BY Associate
<1>3. PICK c \in Seq(Letter) : c = b \o t
  BY ConcatProperties
<1>4. Trim(a \o c) = Trim(c)
  BY <1>1, TrimWhite
<1> QED
  BY <1>1, <1>2, <1>3, <1>4 DEF Associates

\* A text that begins with something else is left as it is.
LEMMA TrimVisible ==
  \A s \in Seq(Letter) : s # << >> /\ ~White(s[1]) => Trim(s) = s
<1> SUFFICES ASSUME NEW s \in Seq(Letter), s # << >>, ~White(s[1])
             PROVE  Trim(s) = s
  OBVIOUS
<1>1. PICK n \in Nat : n = Len(s) /\ n # 0
  BY LenProperties, EmptySeq
<1>2. 1 \in 1 .. n /\ 1 .. 1 - 1 = {}
  BY <1>1
<1>3. Trim(s) = SubSeq(s, 1, n)
  BY <1>1, <1>2, TrimIs
<1>4. SubSeq(s, 1, n) = s
  BY <1>1
<1> QED
  BY <1>3, <1>4

-----------------------------------------------------------------------------
(* A field as Article::Load keeps it.                                      *)

Behind(f) == FlattenSeq(Tail(f))
Raw(f) == Trim(Tail(f[1])) \o Behind(f)

\* A field's lines: the first, and those behind it.
LEMMA FieldLines ==
  \A f \in OneField :
    /\ f[1] \in Seq(Letter) /\ Behind(f) \in Seq(Letter)
    /\ FlattenSeq(f) = f[1] \o Behind(f)
    /\ Len(f) \in Nat \ {0}
    /\ Len(f) = 1 => Behind(f) = << >>
    /\ \A line \in Seq(Letter) : Behind(Append(f, line)) = Behind(f) \o line /\ Append(f, line)[1] = f[1]
    /\ Solid(f) => (Behind(f) = << >> <=> Len(f) = 1)
<1> DEFINE X == Seq(Letter)
<1> SUFFICES ASSUME NEW f \in OneField
             PROVE  /\ f[1] \in X /\ Behind(f) \in Seq(Letter)
                    /\ FlattenSeq(f) = f[1] \o Behind(f)
                    /\ Len(f) \in Nat \ {0}
                    /\ Len(f) = 1 => Behind(f) = << >>
                    /\ \A line \in X : Behind(Append(f, line)) = Behind(f) \o line /\ Append(f, line)[1] = f[1]
                    /\ Solid(f) => (Behind(f) = << >> <=> Len(f) = 1)
  OBVIOUS
<1>1. f \in Seq(X) /\ f # << >> /\ << >> \in Seq(X)
  BY EmptySeq DEF OneField, Header
<1>2. \A s \in Seq(X) : FlattenSeq(s) \in Seq(Letter) /\ FlattenSeq(<< >>) = << >>
                        /\ \A x \in X : FlattenSeq(Append(s, x)) = FlattenSeq(s) \o x
  BY FlattenedAppend
<1>3. \A x \in X, s \in Seq(X) : FlattenSeq(<<x>> \o s) = x \o FlattenSeq(s)
  BY FlattenedFirst
<1> HIDE DEF X
<1>4. PICK n \in Nat : n = Len(f) /\ n # 0
  BY <1>1, LenProperties, EmptySeq
<1>5. PICK a \in X, t \in Seq(X) : a = f[1] /\ t = Tail(f) /\ f = <<a>> \o t /\ Len(t) = n - 1
  <2>1. f[1] = Head(f) /\ Head(f) \in X /\ Tail(f) \in Seq(X) /\ Len(Tail(f)) = Len(f) - 1
    BY <1>1, HeadTailProperties
  <2>2. f = <<Head(f)>> \o Tail(f)
    BY <1>1
  <2> QED
    BY <1>4, <2>1, <2>2
<1>6. FlattenSeq(f) = a \o FlattenSeq(t)
  BY <1>3, <1>5
<1>7. n = 1 => FlattenSeq(t) = << >>
  <2>1. n = 1 => t = << >>
    BY <1>5, EmptySeq
  <2> QED
    BY <1>1, <1>2, <2>1
<1>8. ASSUME NEW line \in X
      PROVE  Behind(Append(f, line)) = Behind(f) \o line /\ Append(f, line)[1] = f[1]
  <2>1. Tail(Append(f, line)) = Append(t, line)
    BY <1>1, <1>5
  <2>2. Append(f, line)[1] = f[1]
    BY <1>1, <1>4, AppendProperties
  <2> QED
    BY <1>2, <1>5, <2>1, <2>2 DEF Behind
<1>9. ASSUME Solid(f), n # 1 PROVE FlattenSeq(t) # << >>
  <2>1. t # << >>
    <3>1. Len(t) # 0
      BY <1>4, <1>5, <1>9
    <3> QED
      BY <3>1, EmptySeq
  <2>2. PICK b \in X, u \in Seq(X) : b = t[1] /\ t = <<b>> \o u
    <3>1. t[1] = Head(t) /\ Head(t) \in X /\ Tail(t) \in Seq(X)
      BY <2>1, HeadTailProperties
    <3>2. t = <<Head(t)>> \o Tail(t)
      BY <2>1
    <3> QED
      BY <3>1, <3>2
  <2>3. b = f[2] /\ 2 \in 1 .. n
    BY <1>1, <1>4, <1>5, <1>9, <2>1, <2>2
  <2>4. b # << >>
    BY <1>4, <1>9, <2>3 DEF Solid
  <2>5. FlattenSeq(t) = b \o FlattenSeq(u) /\ FlattenSeq(u) \in Seq(Letter)
    BY <1>2, <1>3, <2>2
  <2>6. PICK v \in Seq(Letter) : v = FlattenSeq(u)
    BY <2>5
  <2> DEFINE q == b \o v
  <2>7. ConcatOf(Letter, b, v, q)
    BY <2>6, ConcatIs DEF X
  <2>8. Len(b) \in Nat \ {0} /\ Len(v) \in Nat
    BY <2>4, LenProperties, EmptySeq DEF X
  <2>9. Len(q) # 0
    BY <2>7, <2>8 DEF ConcatOf
  <2> QED
    BY <2>5, <2>6, <2>9, EmptySeq
<1> QED
  BY <1>2, <1>4, <1>5, <1>6, <1>7, <1>8, <1>9 DEF Behind

\* The field as it grows.
LEMMA RawIs ==
  \A f \in OneField : f[1] # << >> =>
    /\ Raw(f) \in Seq(Letter)
    /\ Len(f) = 1 => Raw(f) = Trim(Tail(f[1]))
    /\ \A line \in Seq(Letter) : Raw(Append(f, line)) = Raw(f) \o line
<1> SUFFICES ASSUME NEW f \in OneField, f[1] # << >>
             PROVE  /\ Raw(f) \in Seq(Letter)
                    /\ Len(f) = 1 => Raw(f) = Trim(Tail(f[1]))
                    /\ \A line \in Seq(Letter) : Raw(Append(f, line)) = Raw(f) \o line
  OBVIOUS
<1>1. PICK a \in Seq(Letter), t \in Seq(Letter) : a = Trim(Tail(f[1])) /\ t = Behind(f)
  <2>1. f[1] \in Seq(Letter) /\ Behind(f) \in Seq(Letter)
    BY FieldLines
  <2>2. Trim(Tail(f[1])) \in Seq(Letter)
    BY <2>1, TailType, TrimSplit
  <2> QED
    BY <2>1, <2>2
<1>2. Raw(f) = a \o t
  BY <1>1 DEF Raw
<1>3. Raw(f) \in Seq(Letter)
  BY <1>2, ConcatProperties
<1>4. Len(f) = 1 => Raw(f) = a
  BY <1>1, <1>2, FieldLines, ConcatEmptySeq
<1>5. ASSUME NEW line \in Seq(Letter) PROVE Raw(Append(f, line)) = Raw(f) \o line
  <2>1. Behind(Append(f, line)) = t \o line /\ Append(f, line)[1] = f[1]
    BY <1>1, FieldLines
  <2>2. Raw(Append(f, line)) = a \o (t \o line)
    BY <1>1, <2>1 DEF Raw
  <2>3. Associates(Letter, a, t, line)
    BY Associate
  <2> QED
    BY <1>2, <2>2, <2>3 DEF Associates
<1> QED
  BY <1>1, <1>3, <1>4, <1>5

\* What is kept, without the white space before it, is the field's value.
LEMMA RawValue ==
  \A f \in OneField : f[1] # << >> =>
    /\ Trim(Raw(f)) = Value(f)
    /\ Solid(f) => (Raw(f) # << >> <=> Value(f) # << >> \/ Len(f) > 1)
    /\ Solid(f) => (Raw(f) = Trim(Tail(f[1])) <=> ~(Len(f) > 1))
<1> SUFFICES ASSUME NEW f \in OneField, f[1] # << >>
             PROVE  /\ Trim(Raw(f)) = Value(f)
                    /\ Solid(f) => (Raw(f) # << >> <=> Value(f) # << >> \/ Len(f) > 1)
                    /\ Solid(f) => (Raw(f) = Trim(Tail(f[1])) <=> ~(Len(f) > 1))
  OBVIOUS
<1>1. PICK line \in Seq(Letter), r \in Seq(Letter) : line = f[1] /\ r = Behind(f) /\ FlattenSeq(f) = line \o r
  BY FieldLines
<1>2. PICK t \in Seq(Letter) : t = Tail(line) /\ Value(f) = Trim(t \o r)
  BY <1>1, ValueIs
<1>3. Raw(f) = Trim(t) \o r
  BY <1>1, <1>2 DEF Raw
<1>4. Trim(Raw(f)) = Value(f)
  BY <1>2, <1>3, TrimTwice
<1>5. PICK n \in Nat : n = Len(f) /\ n # 0
  BY FieldLines
<1>6. PICK s \in Seq(Letter) : s = Trim(t)
  BY TrimSplit
<1>7. n = 1 => Raw(f) = s
  BY <1>1, <1>2, <1>5, <1>6, RawIs
<1>8. PICK q : q = s \o r /\ ConcatOf(Letter, s, r, q) /\ q = Raw(f)
  BY <1>3, <1>6, ConcatIs
<1>9. PICK i \in Nat, j \in Nat : i = Len(s) /\ j = Len(r) /\ Len(q) = i + j
  BY <1>8, LenProperties DEF ConcatOf
<1>10. ASSUME Solid(f), n # 1 PROVE Raw(f) # << >> /\ Raw(f) # s
  <2>1. r # << >>
    BY <1>1, <1>5, <1>10, FieldLines
  <2>2. j # 0
    BY <1>9, <2>1, EmptySeq
  <2>3. Len(q) # 0 /\ Len(q) # Len(s)
    BY <1>9, <2>2
  <2> QED
    BY <1>8, <2>3, EmptySeq
<1>11. n = 1 => (Raw(f) # << >> <=> Value(f) # << >>)
  <2>1. n = 1 => r = << >>
    BY <1>1, <1>5, FieldLines
  <2>2. r = << >> => t \o r = t
    BY ConcatEmptySeq
  <2> QED
    BY <1>2, <1>6, <1>7, <2>1, <2>2
<1>12. n # 1 <=> n > 1
  <2>1. \A k \in Nat : k # 0 => (k # 1 <=> k > 1)
    OBVIOUS
  <2> QED
    BY <1>5, <2>1, Zenon
<1>13. Solid(f) => (Raw(f) # << >> <=> Value(f) # << >> \/ Len(f) > 1)
  BY <1>5, <1>10, <1>11, <1>12
<1>14. Solid(f) => (Raw(f) = Trim(Tail(f[1])) <=> ~(Len(f) > 1))
  <2>1. Trim(Tail(f[1])) = s
    BY <1>1, <1>2, <1>6
  <2> QED
    BY <1>5, <1>7, <1>10, <1>12, <2>1
<1> QED
  BY <1>4, <1>13, <1>14

-----------------------------------------------------------------------------
(* Article::Load.                                                          *)

\* A header of lines that are not empty.
Line == Seq(Letter) \ {<< >>}
\* The lines of a solid header are not empty.
LEMMA SolidLines ==
  /\ \A h \in Header : Solid(h) => h \in Seq(Line)
  /\ \A h \in Header, line \in Seq(Letter) : Solid(Append(h, line)) => Solid(h) /\ line \in Line
<1>1. ASSUME NEW h \in Header, Solid(h) PROVE h \in Seq(Line)
  <2>1. h \in Seq(Seq(Letter))
    BY DEF Header
  <2>2. PICK n \in Nat : n = Len(h) /\ DOMAIN h = 1 .. n /\ \A i \in 1 .. n : h[i] \in Seq(Letter)
    BY HeaderLines
  <2>3. \A i \in 1 .. n : h[i] \in Line
    BY <1>1, <2>2 DEF Solid, Line
  <2>4. h = [i \in 1 .. n |-> h[i]]
    BY <2>1, <2>2
  <2>5. h \in [1 .. n -> Line]
    BY <2>3, <2>4
  <2> QED
    BY <2>5, SeqDef
<1>2. ASSUME NEW h \in Header, NEW line \in Seq(Letter), Solid(Append(h, line))
      PROVE  Solid(h) /\ line \in Line
  <2>1. PICK n \in Nat : /\ n = Len(h) /\ Len(Append(h, line)) = n + 1 /\ Append(h, line)[n + 1] = line
                         /\ \A i \in 1 .. n : Append(h, line)[i] = h[i]
    BY HeaderAppend
  <2>2. \A i \in 1 .. n + 1 : Append(h, line)[i] # << >>
    BY <1>2, <2>1 DEF Solid
  <2>3. n + 1 \in 1 .. n + 1 /\ \A i \in 1 .. n : i \in 1 .. n + 1
    OBVIOUS
  <2> QED
    BY <2>1, <2>2, <2>3 DEF Solid, Line
<1> QED
  BY <1>1, <1>2

\* What has been loaded of a header; no name at first.
Key == Letter \cup {""}
Content == Seq(Letter) \cup Nat
Load1 == [fields : [Loaded -> Content], key : Key, val : Seq(Letter)]
LoadStart == [fields |-> [n \in Loaded |-> Kept(n, << >>)], key |-> "", val |-> << >>]
LoadOf(h) == FoldLeft(LoadLine, LoadStart, h)

\* A line's name and the text behind it.
LEMMA LineText ==
  \A line \in Line : line \in Seq(Letter) /\ line[1] \in Letter /\ Trim(Tail(line)) \in Seq(Letter)
<1> TAKE line \in Line
<1>1. line \in Seq(Letter) /\ line # << >>
  BY DEF Line
<1>2. line[1] \in Letter
  <2> DEFINE X == Letter
  <2>1. line \in Seq(X)
    BY <1>1
  <2> HIDE DEF X
  <2>2. Len(line) \in Nat /\ Len(line) # 0
    BY <1>1, <2>1, LenProperties, EmptySeq
  <2>3. line[1] \in X
    BY <2>1, <2>2, ElementOfSeq
  <2> QED
    BY <2>3 DEF X
<1>3. Tail(line) \in Seq(Letter)
  BY <1>1, TailType
<1> QED
  BY <1>1, <1>2, <1>3, TrimSplit

\* The digits that a text begins with.
LEMMA DigitsEnd ==
  ASSUME NEW s \in Seq(Letter)
  PROVE  \E d \in Nat :
           /\ d <= Len(s)
           /\ \A j \in 1 .. d : s[j] = "0"
           /\ d = Len(s) \/ s[d + 1] # "0"
           /\ d = SelectInSeq(Append(s, "end"), LAMBDA c : c # "0") - 1
<1> DEFINE X == Letter \cup {"end"}
           e == Append(s, "end")
           D == {j \in 1 .. Len(e) : e[j] # "0"}
           i == SelectInSeq(e, LAMBDA c : c # "0")
<1>1. PICK n \in Nat : n = Len(s)
  BY LenProperties
<1>2. Len(e) = n + 1 /\ e[n + 1] = "end" /\ \A j \in 1 .. n : e[j] = s[j]
  <2>1. s \in Seq(X) /\ "end" \in X
    <3>1. Letter \subseteq X
      OBVIOUS
    <3> HIDE DEF X
    <3>2. s \in Seq(X)
      BY <3>1
    <3> QED
      BY <3>2 DEF X
  <2> HIDE DEF X
  <2> QED
    BY <1>1, <2>1, AppendProperties
<1>3. i = IF D # {} THEN Min(D) ELSE 0
  BY DEF SelectInSeq
<1> HIDE DEF i, e, X
<1>4. D \in SUBSET (1 .. Len(e)) /\ Len(e) \in Nat
  BY <1>1, <1>2
<1>5. IsFirst(i, D)
  BY <1>3, <1>4, MinIsFirst
<1>6. n + 1 \in D
  BY <1>1, <1>2
<1>7. i \in 1 .. n + 1 /\ e[i] # "0" /\ \A j \in D : i <= j
  BY <1>2, <1>5, <1>6 DEF IsFirst
<1>8. PICK d \in Nat : d = i - 1 /\ d <= n /\ d + 1 = i
  BY <1>7
<1>9. \A j \in 1 .. d : s[j] = "0"
  <2> TAKE j \in 1 .. d
  <2>1. j \in 1 .. n /\ j \in 1 .. n + 1 /\ ~(i <= j)
    BY <1>8
  <2> QED
    BY <1>2, <1>7, <2>1
<1>10. d = n \/ s[d + 1] # "0"
  <2>1. d # n => d + 1 \in 1 .. n
    BY <1>8
  <2> QED
    BY <1>2, <1>7, <1>8, <2>1
<1> QED
  BY <1>1, <1>8, <1>9, <1>10 DEF i, e

\* A number is read from the digits that a text begins with behind white space.
LEMMA AtoiIs ==
  \A s \in Seq(Letter) :
    /\ Atoi(s) \in Nat
    /\ \E d \in Nat :
         /\ d <= Len(Trim(s))
         /\ \A j \in 1 .. d : Trim(s)[j] = "0"
         /\ d = Len(Trim(s)) \/ Trim(s)[d + 1] # "0"
         /\ Atoi(s) = IF d = 0 THEN 0 ELSE d - 1
<1> TAKE s \in Seq(Letter)
<1>1. PICK t \in Seq(Letter) : t = Trim(s)
  BY TrimSplit
<1>2. PICK d \in Nat :
        /\ d <= Len(t)
        /\ \A j \in 1 .. d : t[j] = "0"
        /\ d = Len(t) \/ t[d + 1] # "0"
        /\ d = SelectInSeq(Append(t, "end"), LAMBDA c : c # "0") - 1
  BY DigitsEnd
<1>3. Atoi(s) = IF d = 0 THEN 0 ELSE d - 1
  BY <1>1, <1>2, Zenon DEF Atoi
<1>4. (IF d = 0 THEN 0 ELSE d - 1) \in Nat
  OBVIOUS
<1> QED
  BY <1>1, <1>2, <1>3, <1>4

\* What is kept of a field is its text, or of Lines: the number.
LEMMA KeptType ==
  \A n, s : s \in Seq(Letter) =>
    /\ Kept(n, s) \in Content
    /\ n # "Lines:" => Kept(n, s) = s
    /\ n = "Lines:" => Kept(n, s) = Atoi(s)
BY AtoiIs DEF Kept, Content

\* Load of one line more.
LEMMA LoadOne1 ==
  \A at \in Load1, line \in Line :
    /\ ParseHeader(at) \in [Loaded -> Content]
    /\ \A n \in Loaded : ParseHeader(at)[n] = IF n = at.key THEN Kept(n, at.val) ELSE at.fields[n]
    /\ IsFold(line) => LoadLine(at, line) = [fields |-> at.fields, key |-> at.key, val |-> at.val \o line]
    /\ ~IsFold(line) => LoadLine(at, line) = [fields |-> ParseHeader(at), key |-> line[1], val |-> Trim(Tail(line))]
    /\ LoadLine(at, line) \in Load1
<1> TAKE at \in Load1, line \in Line
<1>1. /\ at.fields \in [Loaded -> Content] /\ at.key \in Key /\ at.val \in Seq(Letter)
      /\ at = [fields |-> at.fields, key |-> at.key, val |-> at.val]
  BY DEF Load1
<1>2. line \in Seq(Letter) /\ line[1] \in Key /\ Trim(Tail(line)) \in Seq(Letter)
  BY LineText DEF Key
<1>3. PICK fields \in [Loaded -> Content], key \in Key, val \in Seq(Letter) :
        fields = at.fields /\ key = at.key /\ val = at.val
  BY <1>1
<1>4. PICK X, T, kept : X = Loaded /\ T = Content /\ kept = Kept(key, val)
  OBVIOUS
<1>5. ParseHeader(at) = IF key \in X THEN [fields EXCEPT ![key] = kept] ELSE fields
  BY <1>3, <1>4, Zenon DEF ParseHeader
<1>6. fields \in [X -> T] /\ kept \in T
  BY <1>3, <1>4, KeptType
<1>7. /\ ParseHeader(at) \in [X -> T]
      /\ \A n \in X : ParseHeader(at)[n] = IF n = key THEN kept ELSE fields[n]
  BY <1>5, <1>6
<1>8. IsFold(line) => LoadLine(at, line) = [fields |-> fields, key |-> key, val |-> val \o line]
  <2>1. IsFold(line) => LoadLine(at, line) = [at EXCEPT !.val = @ \o line]
    BY Zenon DEF LoadLine
  <2>2. [at EXCEPT !.val = @ \o line] = [fields |-> fields, key |-> key, val |-> val \o line]
    <3>1. at = [fields |-> fields, key |-> key, val |-> val] /\ at.val = val
      BY <1>1, <1>3
    <3>2. \A w : [[fields |-> fields, key |-> key, val |-> val] EXCEPT !.val = w]
                  = [fields |-> fields, key |-> key, val |-> w]
      OBVIOUS
    <3> QED
      BY <3>1, <3>2, Zenon
  <2> QED
    BY <2>1, <2>2
<1>9. ~IsFold(line) => LoadLine(at, line) = [fields |-> ParseHeader(at), key |-> line[1], val |-> Trim(Tail(line))]
  BY Zenon DEF LoadLine
<1>10. val \o line \in Seq(Letter)
  BY <1>2, <1>3, ConcatProperties
<1>11. ParseHeader(at) \in [Loaded -> Content]
  BY <1>4, <1>7
<1>12. LoadLine(at, line) \in Load1
  <2>1. CASE IsFold(line)
    <3>1. PICK v \in Seq(Letter) : LoadLine(at, line) = [fields |-> fields, key |-> key, val |-> v]
      BY <1>8, <1>10, <2>1
    <3> QED
      BY <1>3, <3>1 DEF Load1
  <2>2. CASE ~IsFold(line)
    BY <1>2, <1>9, <1>11, <2>2 DEF Load1
  <2> QED
    BY <2>1, <2>2
<1>13. \A n \in Loaded : ParseHeader(at)[n] = IF n = at.key THEN Kept(n, at.val) ELSE at.fields[n]
  BY <1>3, <1>4, <1>7
<1> QED
  BY <1>3, <1>8, <1>9, <1>11, <1>12, <1>13

\* Load goes on at the end of a header.
LEMMA LoadAppend ==
  ASSUME NEW h \in Seq(Line)
  PROVE  /\ LoadOf(<< >>) = LoadStart /\ LoadOf(h) \in Load1 /\ LoadStart \in Load1
         /\ \A line \in Line : LoadOf(Append(h, line)) = LoadLine(LoadOf(h), line)
<1> DEFINE p == 0
           V == Load1
           X == Line
           base == LoadStart
<1>0. \A ls : LoadOf(ls) = Loading!Fold(p, base, ls)
  BY DEF LoadOf, FoldLeft, MapThenFoldSet, Max, LoadOne,
         Loading!Fold, Loading!MapThenFoldSet, Loading!Max
<1>1. Loading!Keeps(p, V, X) /\ base \in V /\ h \in Seq(X)
  <2>1. base \in V
    <3>1. << >> \in Seq(Letter)
      BY EmptySeq
    <3>2. \A n : Kept(n, << >>) \in Content
      BY <3>1, KeptType
    <3> QED
      BY <3>1, <3>2 DEF Load1, LoadStart, Key
  <2> QED
    BY <2>1, LoadOne1 DEF Loading!Keeps, LoadOne
<1>2. /\ Loading!Fold(p, base, << >>) = base
      /\ Loading!Fold(p, base, h) \in V
      /\ \A x \in X : Loading!Fold(p, base, Append(h, x)) = LoadOne(p, Loading!Fold(p, base, h), x)
  <2> HIDE DEF V, X, base, p
  <2> QED
    BY <1>1, Numbers, Loading!FoldAppend
<1> QED
  BY <1>0, <1>1, <1>2 DEF LoadOne

\* What Load tells of a field: what it keeps of the last one with the name.
Told(n, F) ==
  Kept(n, IF Filtered({n}, F) = << >> THEN << >> ELSE Raw(Last(Filtered({n}, F))))
Tells(n, F, f) == Told(n, Append(F, f)) = IF Of({n}, f) THEN Kept(n, Raw(f)) ELSE Told(n, F)
\* The last field is the one that was appended.
LEMMA LastAppend ==
  \A fs \in Seq(OneField), f \in OneField : Last(Append(fs, f)) = f /\ Append(fs, f) # << >>
BY AppendProperties, LenProperties DEF Last

\* A field more is told in the place of those before it with its name.
LEMMA ToldOne ==
  \A n : Told(n, << >>) = Kept(n, << >>) /\ \A F \in Seq(OneField), f \in OneField : Tells(n, F, f)
<1> TAKE n
<1>1. Told(n, << >>) = Kept(n, << >>)
  BY FilteredNone DEF Told
<1>2. ASSUME NEW F \in Seq(OneField), NEW f \in OneField PROVE Tells(n, F, f)
  <2>1. PICK R \in Seq(OneField) : R = Filtered({n}, F)
    BY FilteredAppend
  <2>2. IF Of({n}, f) THEN Filtered({n}, Append(F, f)) = Append(R, f) ELSE Filtered({n}, Append(F, f)) = R
    BY <2>1, FilteredOne DEF Takes, Leaves
  <2>3. Append(R, f) # << >> /\ Last(Append(R, f)) = f
    BY LastAppend
  <2> QED
    BY <2>1, <2>2, <2>3, Zenon DEF Tells, Told
<1> QED
  BY <1>1, <1>2

\* What has been loaded of a header: its last field, if Load keeps it, and of
\* the fields before it the last one of each name.
Keyed(at, f) ==
  IF Of(Loaded, f) THEN at.key = f[1][1] /\ at.val = Raw(f) ELSE at.key \notin Loaded
LoadsFields(h) ==
  /\ h = << >> => LoadOf(h) = LoadStart
  /\ \A r \in Seq(OneField), f \in OneField : Fields(h) = Append(r, f) =>
       Keyed(LoadOf(h), f) /\ \A n \in Loaded : LoadOf(h).fields[n] = Told(n, r)

\* Names that Load keeps begin no line that continues one.
LEMMA LoadedNames ==
  /\ Fieldlike(Loaded) /\ "" \notin Loaded
  /\ \A n \in Loaded : n \in Names
  /\ \A n \in Loaded : \A f : Of({n}, f) <=> Of(Loaded, f) /\ f[1][1] = n
<1>1. Loaded \subseteq Names
  BY DEF Names
<1>2. Fieldlike(Loaded)
  BY <1>1, FieldlikeNames, Zenon DEF Fieldlike
<1>3. "" \notin Loaded
  BY Zenon DEF Loaded
<1>4. \A n \in Loaded : \A f : Of({n}, f) <=> Of(Loaded, f) /\ f[1][1] = n
  BY Zenon DEF Of
<1> QED
  BY <1>1, <1>2, <1>3, <1>4

\* With its last field, the fields of a header are as they should be.
LEMMA LoadsEnd ==
  ASSUME NEW h \in Header, Solid(h), LoadsFields(h)
  PROVE  ParseHeader(LoadOf(h)) = [n \in Loaded |-> Told(n, Fields(h))]
<1>1. h \in Seq(Line)
  BY SolidLines
<1>2. PICK at \in Load1 : at = LoadOf(h)
  BY <1>1, LoadAppend
<1>3. PICK line \in Line : line = <<"x">>
  <2>1. "x" \in Letter
    BY DEF Letter, Char
  <2>2. PICK w \in Seq(Letter) : w = <<"x">> /\ Len(w) = 1
    BY <2>1, OneLetter
  <2>3. w # << >>
    BY <2>2, EmptySeq
  <2> QED
    BY <2>2, <2>3 DEF Line
<1>4. /\ ParseHeader(at) \in [Loaded -> Content]
      /\ \A n \in Loaded : ParseHeader(at)[n] = IF n = at.key THEN Kept(n, at.val) ELSE at.fields[n]
  BY LoadOne1
<1>5. PICK F \in Seq(OneField) : F = Fields(h)
  BY FieldsAppend
<1>6. CASE h = << >>
  <2>1. F = << >>
    BY <1>5, <1>6, FieldsNone
  <2>2. at = LoadStart
    BY <1>2, <1>6 DEF LoadsFields
  <2>3. \A n \in Loaded : n # at.key /\ at.fields[n] = Kept(n, << >>)
    BY <2>2, LoadedNames, Zenon DEF LoadStart
  <2>4. \A n \in Loaded : ParseHeader(at)[n] = Told(n, F)
    BY <1>4, <2>1, <2>3, ToldOne
  <2> QED
    BY <1>2, <1>4, <1>5, <2>4
<1>7. CASE h # << >>
  <2>1. F # << >>
    BY <1>5, <1>7, FieldsNone
  <2>2. PICK r \in Seq(OneField), f \in OneField : F = Append(r, f)
    <3> DEFINE X == OneField
    <3>1. \E r \in Seq(X), f \in X : F = Append(r, f)
      <4> HIDE DEF X
      <4>1. F \in Seq(X)
        BY DEF X
      <4> QED
        BY <2>1, <4>1, SequenceEmptyOrAppend
    <3> QED
      BY <3>1
  <2>3. Keyed(at, f) /\ \A n \in Loaded : at.fields[n] = Told(n, r)
    BY <1>2, <1>5, <2>2 DEF LoadsFields
  <2>4. ASSUME NEW n \in Loaded PROVE ParseHeader(at)[n] = Told(n, F)
    <3>1. Told(n, F) = IF Of({n}, f) THEN Kept(n, Raw(f)) ELSE Told(n, r)
      BY <2>2, ToldOne DEF Tells
    <3>2. Of({n}, f) <=> n = at.key
      BY <2>3, LoadedNames, Zenon DEF Keyed
    <3>3. Of({n}, f) => at.val = Raw(f)
      BY <2>3, LoadedNames, Zenon DEF Keyed
    <3> QED
      BY <1>4, <2>3, <3>1, <3>2, <3>3
  <2> QED
    BY <1>2, <1>4, <1>5, <2>4
<1> QED
  BY <1>6, <1>7

\* LoadsFields is kept by each line.
LEMMA LoadsStep ==
  ASSUME NEW h \in Header, NEW line \in Seq(Letter), Solid(Append(h, line)), LoadsFields(h)
  PROVE  LoadsFields(Append(h, line))
<1> DEFINE p == Append(h, line)
<1>1. Solid(h) /\ line \in Line /\ line # << >> /\ h \in Seq(Line)
  <2>1. Solid(h) /\ line \in Line
    BY SolidLines
  <2> QED
    BY <2>1, SolidLines DEF Line
<1>2. PICK at \in Load1, to \in Load1 : at = LoadOf(h) /\ to = LoadOf(p) /\ to = LoadLine(at, line)
  <2>1. LoadOf(h) \in Load1 /\ LoadOf(p) = LoadLine(LoadOf(h), line)
    BY <1>1, LoadAppend
  <2>2. LoadLine(LoadOf(h), line) \in Load1
    BY <1>1, <2>1, LoadOne1
  <2> QED
    BY <2>1, <2>2
<1>3. p \in Header /\ p # << >>
  BY HeaderAppend
<1>4. PICK F \in Seq(OneField) : F = Fields(h)
  BY FieldsAppend
<1> HIDE DEF p
<1>5. SUFFICES \E r \in Seq(OneField), f \in OneField :
                 Fields(p) = Append(r, f) /\ Keyed(to, f) /\ \A n \in Loaded : to.fields[n] = Told(n, r)
  <2>1. PICK r \in Seq(OneField), f \in OneField :
          Fields(p) = Append(r, f) /\ Keyed(to, f) /\ \A n \in Loaded : to.fields[n] = Told(n, r)
    BY <1>5
  <2>2. ASSUME NEW q \in Seq(OneField), NEW e \in OneField, Fields(p) = Append(q, e)
        PROVE  q = r /\ e = f
    <3>1. Append(r, f) = Append(q, e)
      BY <2>1, <2>2
    <3> QED
      BY <3>1, LastField, Zenon
  <2>3. LoadsFields(p)
    BY <1>2, <1>3, <2>1, <2>2 DEF LoadsFields
  <2> QED
    BY <2>3 DEF p
<1>6. CASE IsFold(line) /\ h # << >>
  <2>1. \E r \in Seq(OneField), f, g \in OneField :
          /\ Fields(h) = Append(r, f) /\ g = Append(f, line) /\ Fields(Append(h, line)) = Append(r, g)
          /\ g[1] = f[1]
    BY <1>6, FieldsGrow
  <2>2. PICK r \in Seq(OneField), f \in OneField, g \in OneField :
          F = Append(r, f) /\ g = Append(f, line) /\ Fields(p) = Append(r, g) /\ g[1] = f[1]
    BY <1>4, <2>1 DEF p
  <2>3. Keyed(at, f) /\ \A n \in Loaded : at.fields[n] = Told(n, r)
    BY <1>2, <1>4, <2>2 DEF LoadsFields
  <2>4. to = [fields |-> at.fields, key |-> at.key, val |-> at.val \o line]
    BY <1>1, <1>2, <1>6, LoadOne1
  <2>5. to.fields = at.fields /\ to.key = at.key /\ to.val = at.val \o line
    BY <2>4
  <2>6. Of(Loaded, g) <=> Of(Loaded, f)
    BY <2>2, Zenon DEF Of
  <2>7. Of(Loaded, f) => Raw(g) = Raw(f) \o line
    <3>1. Of(Loaded, f) => f[1] # << >>
      BY DEF Of
    <3> QED
      BY <2>2, <3>1, RawIs
  <2>8. Keyed(to, g)
    BY <2>2, <2>3, <2>5, <2>6, <2>7, Zenon DEF Keyed
  <2> QED
    BY <2>2, <2>3, <2>5, <2>8, Zenon
<1>7. CASE IsFold(line) /\ h = << >>
  <2>1. PICK f \in OneField, r \in Seq(OneField) : f = <<line>> /\ r = << >>
    BY FieldGrows, EmptySeq
  <2>2. Fields(p) = Append(r, f)
    <3>1. Fields(p) = << f >>
      BY <1>7, <2>1, FieldsGrow DEF p
    <3> QED
      BY <2>1, <3>1, AppendNone
  <2>3. at = LoadStart
    BY <1>2, <1>7 DEF LoadsFields
  <2>4. to = [fields |-> at.fields, key |-> at.key, val |-> at.val \o line]
    BY <1>1, <1>2, <1>7, LoadOne1
  <2>5. to.fields = at.fields /\ to.key = at.key
    BY <2>4
  <2>6. to.key \notin Loaded /\ \A n \in Loaded : to.fields[n] = Kept(n, << >>)
    <3>1. LoadStart.key = "" /\ LoadStart.fields = [n \in Loaded |-> Kept(n, << >>)]
      BY DEF LoadStart
    <3>2. to.key \notin Loaded
      <4>1. to.key = LoadStart.key
        BY <2>3, <2>5
      <4>2. "" \notin Loaded
        BY LoadedNames
      <4>3. PICK e : e = ""
        OBVIOUS
      <4>4. to.key = e /\ e \notin Loaded
        BY <3>1, <4>1, <4>2, <4>3, Zenon
      <4> QED
        BY <4>4
    <3>3. \A n \in Loaded : LoadStart.fields[n] = Kept(n, << >>)
      BY <3>1
    <3> QED
      BY <2>3, <2>5, <3>2, <3>3, Zenon
  <2>7. f[1] = line
    BY <2>1
  <2>8. ~Of(Loaded, f)
    BY <1>7, <2>7, LoadedNames, FoldNames DEF Of
  <2> QED
    BY <2>1, <2>2, <2>6, <2>8, ToldOne, Zenon DEF Keyed
<1>8. CASE ~IsFold(line)
  <2>1. PICK f \in OneField : f = <<line>> /\ f[1] = line /\ Len(f) = 1
    BY FieldGrows
  <2>2. Fields(p) = Append(F, f)
    BY <1>4, <1>8, <2>1, FieldsGrow DEF p
  <2>3. to = [fields |-> ParseHeader(at), key |-> line[1], val |-> Trim(Tail(line))]
    BY <1>1, <1>2, <1>8, LoadOne1
  <2>4. to.fields = ParseHeader(at) /\ to.key = line[1] /\ to.val = Trim(Tail(line))
    BY <2>3
  <2>5. ParseHeader(at) = [n \in Loaded |-> Told(n, F)]
    BY <1>1, <1>2, <1>4, LoadsEnd
  <2>6. \A n \in Loaded : to.fields[n] = Told(n, F)
    BY <2>4, <2>5
  <2>7. Raw(f) = Trim(Tail(line))
    BY <1>1, <2>1, RawIs
  <2>8. Keyed(to, f)
    <3>1. Of(Loaded, f) <=> line[1] \in Loaded
      BY <1>1, <2>1 DEF Of
    <3> QED
      BY <2>1, <2>4, <2>7, <3>1, Zenon DEF Keyed
  <2> QED
    BY <2>2, <2>6, <2>8
<1> QED
  BY <1>6, <1>7, <1>8

\* Load tells of a header the last field of each name.
LEMMA LoadedIs ==
  \A h \in Header : Solid(h) => ParseHeader(LoadOf(h)) = [n \in Loaded |-> Told(n, Fields(h))]
<1> DEFINE T == {h \in Header : Solid(h) => LoadsFields(h)}
<1>1. << >> \in T
  <2>1. << >> \in Header /\ << >> \in Seq(Line)
    BY EmptySeq DEF Header
  <2>2. LoadOf(<< >>) = LoadStart
    BY <2>1, LoadAppend
  <2>3. Fields(<< >>) = << >>
    BY <2>1, FieldsAppend
  <2>4. \A r \in Seq(OneField), f \in OneField : Append(r, f) # << >>
    BY LastAppend
  <2> QED
    BY <2>1, <2>2, <2>3, <2>4 DEF LoadsFields
<1>2. ASSUME NEW h \in Header, NEW line \in Seq(Letter), h \in T PROVE Append(h, line) \in T
  <2>1. Solid(Append(h, line)) => Solid(h)
    BY SolidLines
  <2>2. Solid(Append(h, line)) => LoadsFields(Append(h, line))
    BY <1>2, <2>1, LoadsStep
  <2> QED
    BY <2>2, HeaderAppend
<1>3. Header \subseteq T
  <2> HIDE DEF T
  <2> QED
    BY <1>1, <1>2, HeaderInduction
<1> QED
  BY <1>3, LoadsEnd

-----------------------------------------------------------------------------
(* What is told of an article.                                             *)

\* No field has an empty line.
AllSolid(F) == \A i \in 1 .. Len(F) : Solid(F[i])
\* One field more.
LEMMA AllSolidAppend ==
  \A F \in Seq(OneField), f \in OneField : AllSolid(Append(F, f)) <=> AllSolid(F) /\ Solid(f)
<1> TAKE F \in Seq(OneField), f \in OneField
<1>1. PICK n \in Nat : n = Len(F) /\ Len(Append(F, f)) = n + 1 /\ Append(F, f)[n + 1] = f
                       /\ \A i \in 1 .. n : Append(F, f)[i] = F[i]
  BY AppendProperties, LenProperties
<1>2. 1 .. n + 1 = (1 .. n) \cup {n + 1}
  OBVIOUS
<1> QED
  BY <1>1, <1>2 DEF AllSolid

\* The fields of a solid header have no empty line.
LEMMA FieldsSolid ==
  \A h \in Header : Solid(h) => AllSolid(Fields(h))
<1> DEFINE T == {h \in Header : Solid(h) => AllSolid(Fields(h))}
<1>1. << >> \in T
  <2>1. << >> \in Header
    BY EmptySeq DEF Header
  <2>2. Fields(<< >>) = << >>
    BY <2>1, FieldsAppend
  <2>3. Len(<< >>) = 0 /\ 1 .. 0 = {}
    BY EmptySeq
  <2> QED
    BY <2>1, <2>2, <2>3 DEF AllSolid
<1>2. ASSUME NEW h \in Header, NEW line \in Seq(Letter), h \in T PROVE Append(h, line) \in T
  <2> SUFFICES ASSUME Solid(Append(h, line)) PROVE AllSolid(Fields(Append(h, line)))
    BY HeaderAppend
  <2>1. Solid(h) /\ line # << >>
    BY SolidLines DEF Line
  <2>2. PICK F \in Seq(OneField) : F = Fields(h) /\ AllSolid(F)
    BY <1>2, <2>1, FieldsAppend
  <2>3. PICK e \in OneField : e = <<line>> /\ Solid(e)
    <3>1. <<line>> \in OneField
      BY FieldGrows
    <3>2. Len(<<line>>) = 1 /\ <<line>>[1] = line
      OBVIOUS
    <3> QED
      BY <2>1, <3>1, <3>2 DEF Solid
  <2>4. CASE ~IsFold(line)
    <3>1. Fields(Append(h, line)) = Append(F, e)
      BY <2>2, <2>3, <2>4, FieldsGrow
    <3> QED
      BY <2>2, <2>3, <3>1, AllSolidAppend
  <2>5. CASE h = << >>
    <3>1. Fields(Append(h, line)) = <<e>>
      BY <2>3, <2>5, FieldsGrow
    <3>2. Len(<<e>>) = 1 /\ <<e>>[1] = e
      OBVIOUS
    <3> QED
      BY <2>3, <3>1, <3>2 DEF AllSolid
  <2>6. CASE IsFold(line) /\ h # << >>
    <3>0. \E r \in Seq(OneField), f, g \in OneField :
            /\ Fields(h) = Append(r, f) /\ g = Append(f, line) /\ Fields(Append(h, line)) = Append(r, g)
            /\ g[1] = f[1]
      BY <2>6, FieldsGrow
    <3>1. PICK r \in Seq(OneField), f \in OneField, g \in OneField :
            F = Append(r, f) /\ g = Append(f, line) /\ Fields(Append(h, line)) = Append(r, g)
      BY <2>2, <3>0
    <3>2. AllSolid(r) /\ Solid(f)
      BY <2>2, <3>1, AllSolidAppend
    <3>3. Solid(g)
      <4>1. f \in Header
        BY DEF OneField
      <4> QED
        BY <2>1, <3>1, <3>2, <4>1, SolidAppend
    <3> QED
      BY <3>1, <3>2, <3>3, AllSolidAppend
  <2> QED
    BY <2>4, <2>5, <2>6
<1>3. Header \subseteq T
  <2> HIDE DEF T
  <2> QED
    BY <1>1, <1>2, HeaderInduction
<1> QED
  BY <1>3

\* The last of the fields with a name.
LEMMA LastNamed ==
  ASSUME NEW h \in Header, Solid(h), NEW n, Named(h, {n}) # << >>
  PROVE  /\ Last(Named(h, {n})) \in OneField /\ Solid(Last(Named(h, {n})))
         /\ Last(Named(h, {n}))[1] # << >>
<1>1. PICK N \in Seq(OneField) : N = Named(h, {n}) /\ N # << >>
  BY NamedType
<1>2. PICK F \in Seq(OneField) : F = Fields(h) /\ AllSolid(F)
  BY FieldsAppend, FieldsSolid
<1>3. PICK k \in Nat : k = Len(N) /\ k \in 1 .. k
  <2>1. Len(N) \in Nat /\ Len(N) # 0
    BY <1>1, LenProperties, EmptySeq
  <2> QED
    BY <2>1
<1>4. N = Filtered({n}, F)
  BY <1>1, <1>2, NamedIs
<1>5. N[k] \in OneField /\ Of({n}, N[k]) /\ \E j \in 1 .. Len(F) : N[k] = F[j]
  <2>1. k \in 1 .. Len(N)
    BY <1>3
  <2>2. Of({n}, N[k]) /\ \E j \in 1 .. Len(F) : N[k] = F[j]
    <3>1. PICK S : S = {n}
      OBVIOUS
    <3>2. \A i \in 1 .. Len(Filtered(S, F)) :
            Of(S, Filtered(S, F)[i]) /\ \E j \in 1 .. Len(F) : Filtered(S, F)[i] = F[j]
      BY FilteredFrom
    <3> QED
      BY <1>4, <2>1, <3>1, <3>2
  <2>3. N[k] \in OneField
    <3> DEFINE X == OneField
    <3>1. N \in Seq(X)
      OBVIOUS
    <3> HIDE DEF X
    <3>2. N[k] \in X
      BY <2>1, <3>1, ElementOfSeq
    <3> QED
      BY <3>2 DEF X
  <2> QED
    BY <1>4, <2>2, <2>3
<1>6. Last(N) = N[k]
  BY <1>3 DEF Last
<1> QED
  BY <1>1, <1>2, <1>5, <1>6 DEF AllSolid, Of

\* The text of a field in the file of a proper article, and what Load tells of it.
RawOf(n) == IF Named(Full, {n}) = << >> THEN << >> ELSE Raw(Last(Named(Full, {n})))
Tale(n) == Load(file)[n]
TaleIs(n) ==
  /\ RawOf(n) \in Seq(Letter) /\ Tale(n) = Kept(n, RawOf(n))
  /\ Named(Full, {n}) = << >> => RawOf(n) = << >> /\ Trim(RawOf(n)) = << >>
  /\ Named(Full, {n}) # << >> =>
       /\ RawOf(n) = Raw(Last(Named(Full, {n})))
       /\ Trim(RawOf(n)) = Value(Last(Named(Full, {n})))
       /\ RawOf(n) # << >> <=> \/ Value(Last(Named(Full, {n}))) # << >>
                               \/ Len(Last(Named(Full, {n}))) > 1
\* Load tells of each name the last field with it.
LEMMA TaleTold ==
  ASSUME TypeOK, FileInv, Whole, Proper
  PROVE  \A n \in Loaded : TaleIs(n)
<1>1. PICK h \in Header : h = Full /\ Solid(h) /\ HeadOf(file) = h
  BY FullIs, StoredParts
<1>2. Load(file) = ParseHeader(LoadOf(h))
  BY <1>1, Zenon DEF Load, LoadOf, LoadStart
<1>3. Load(file) = [n \in Loaded |-> Told(n, Fields(h))]
  BY <1>1, <1>2, LoadedIs
<1> SUFFICES ASSUME NEW n \in Loaded PROVE TaleIs(n)
  OBVIOUS
<1>4. PICK N : N = Named(h, {n}) /\ N = Filtered({n}, Fields(h))
  BY NamedIs
<1>5. RawOf(n) = IF N = << >> THEN << >> ELSE Raw(Last(N))
  BY <1>1, <1>4, Zenon DEF RawOf
<1>6. Tale(n) = Kept(n, RawOf(n))
  <2>1. Tale(n) = Told(n, Fields(h))
    BY <1>3 DEF Tale
  <2>2. Told(n, Fields(h)) = Kept(n, IF N = << >> THEN << >> ELSE Raw(Last(N)))
    BY <1>4, Zenon DEF Told
  <2> QED
    BY <1>5, <2>1, <2>2, Zenon
<1>7. Trim(<< >>) = << >>
  <2>1. Len(<< >>) = 0 /\ 1 .. 0 = {}
    BY EmptySeq
  <2>2. PICK k \in Nat : k = 0
    OBVIOUS
  <2> QED
    BY <2>1, <2>2, TrimIs
<1>8. ASSUME N # << >>
      PROVE  /\ RawOf(n) \in Seq(Letter)
             /\ Trim(RawOf(n)) = Value(Last(N))
             /\ RawOf(n) # << >> <=> Value(Last(N)) # << >> \/ Len(Last(N)) > 1
  <2>1. PICK f \in OneField : f = Last(N) /\ Solid(f) /\ f[1] # << >>
    <3>1. Named(h, {n}) # << >>
      BY <1>4, <1>8
    <3>2. /\ Last(Named(h, {n})) \in OneField /\ Solid(Last(Named(h, {n})))
          /\ Last(Named(h, {n}))[1] # << >>
      BY <1>1, <3>1, LastNamed
    <3> QED
      BY <1>4, <3>2
  <2>2. RawOf(n) = Raw(f)
    BY <1>5, <1>8, <2>1
  <2>3. Raw(f) \in Seq(Letter)
    BY <2>1, RawIs
  <2> QED
    BY <2>1, <2>2, <2>3, RawValue
<1>9. N = << >> => RawOf(n) \in Seq(Letter) /\ RawOf(n) = << >>
  <2>1. << >> \in Seq(Letter)
    BY EmptySeq
  <2> QED
    BY <1>5, <2>1
<1> QED
  BY <1>1, <1>4, <1>5, <1>6, <1>7, <1>8, <1>9, Zenon DEF TaleIs

-----------------------------------------------------------------------------
(* The values of the server's fields.                                      *)

\* Two characters are one and one.
LEMMA TwoOfOne == \A x, y \in Letter : <<x, y>> = <<x>> \o <<y>>
<1> TAKE x, y \in Letter
<1>1. PICK a \in Seq(Letter), b \in Seq(Letter), c \in Seq(Letter) : a = <<x>> /\ b = <<y>> /\ c = <<x, y>>
  BY OneLetter, TwoLetters
<1>2. PICK d : d = a \o b
  OBVIOUS
<1>3. ConcatOf(Letter, a, b, d)
  BY <1>2, ConcatIs
<1>4. /\ Len(a) = 1 /\ a[1] = x /\ Len(b) = 1 /\ b[1] = y
      /\ Len(c) = 2 /\ c[1] = x /\ c[2] = y
  BY <1>1, OneLetter, TwoLetters
<1>5. d \in Seq(Letter) /\ Len(d) = 2 /\ d[1] = x /\ d[2] = y
  BY <1>3, <1>4 DEF ConcatOf
<1>6. c = d
  <2>1. \A j \in 1 .. 2 : j = 1 \/ j = 2
    OBVIOUS
  <2>2. \A j \in 1 .. 2 : c[j] = d[j]
    BY <1>4, <1>5, <2>1
  <2> QED
    BY <1>1, <1>4, <1>5, <2>2, SeqEqual
<1> QED
  BY <1>1, <1>2, <1>6

\* A value behind the name and a space.
Speaks(line, name, b, s) == White(b) /\ s # << >> /\ ~White(s[1]) /\ line = <<name, b>> \o s
\* A value behind the name and a space is told as it is.
LEMMA ServerValue ==
  \A line : \A name, b \in Letter, s \in Seq(Letter) : Speaks(line, name, b, s) => Value(<<line>>) = s
<1> SUFFICES ASSUME NEW line, NEW name \in Letter, NEW b \in Letter, NEW s \in Seq(Letter),
                    White(b), s # << >>, ~White(s[1]), line = <<name, b>> \o s
             PROVE  Value(<<line>>) = s
  BY DEF Speaks
<1>1. PICK w \in Seq(Letter) : w = <<b>> /\ Len(w) = 1 /\ w[1] = b
  BY OneLetter
<1>2. PICK a \in Seq(Letter) : a = <<name>>
  BY OneLetter
<1>3. PICK v \in Seq(Letter) : v = w \o s
  BY ConcatProperties
<1>4. line = <<name>> \o v
  <2>1. <<name, b>> = a \o w
    BY <1>1, <1>2, TwoOfOne
  <2>2. Associates(Letter, a, w, s)
    BY Associate
  <2> QED
    BY <1>2, <1>3, <2>1, <2>2 DEF Associates
<1>5. line \in Seq(Letter) /\ line # << >> /\ Tail(line) = v
  BY <1>4, HeadTailConcat
<1>6. PICK f \in OneField : f = <<line>> /\ f[1] = line /\ Len(f) = 1
  BY <1>5, FieldGrows
<1>7. PICK r \in Seq(Letter) : r = << >> /\ FlattenSeq(f) = line \o r
  BY <1>6, FieldText
<1>8. Value(f) = Trim(v \o r)
  BY <1>5, <1>6, <1>7, ValueIs
<1>9. v \o r = v
  BY <1>7, ConcatEmptySeq
<1>10. Trim(v) = Trim(s)
  <2>1. AllWhite(w)
    <3>1. \A j \in 1 .. 1 : j = 1
      OBVIOUS
    <3> QED
      BY <1>1, <3>1 DEF AllWhite
  <2> QED
    BY <1>3, <2>1, TrimWhite
<1>11. Trim(s) = s
  BY TrimVisible
<1> QED
  BY <1>6, <1>8, <1>9, <1>10, <1>11

\* The values of the server's fields.
LEMMA ServerValues ==
  /\ Value(<<XrefLine>>) = <<"here", "number">> /\ Value(<<DateLine>>) = <<"now">>
  /\ Value(<<IdLine>>) = <<"<", "number">>
  /\ \A n \in Nat : Value(<<LinesLine(n)>>) = Decimal(n)
<1>1. PICK b \in Letter : b = " " /\ White(b)
  BY WhiteIs DEF Letter, Char
<1>2. \A c \in {"here", "number", "now", "0", "<"} : c \in Letter /\ ~White(c)
  BY WhiteIs DEF Letter, Char
<1>3. "Xref:" \in Letter /\ "Date:" \in Letter /\ "Message-ID:" \in Letter /\ "Lines:" \in Letter
  BY NameLetter DEF Names, Loaded
<1>4. \A a, c, d : <<a, b, c>> = <<a, b>> \o <<c>> /\ <<a, b, c, d>> = <<a, b>> \o <<c, d>>
  OBVIOUS
<1>5. \A c \in Letter : <<c>> \in Seq(Letter) /\ <<c>> # << >> /\ <<c>>[1] = c
  BY OneLetter
<1>6. \A c, d \in Letter : <<c, d>> \in Seq(Letter) /\ <<c, d>> # << >> /\ <<c, d>>[1] = c
  OBVIOUS
<1>7. DateLine = <<"Date:", b>> \o <<"now">> /\ IdLine = <<"Message-ID:", b>> \o <<"<", "number">>
      /\ XrefLine = <<"Xref:", b>> \o <<"here", "number">>
  BY <1>1, <1>4, Zenon DEF DateLine, IdLine, XrefLine
<1>8. Value(<<DateLine>>) = <<"now">>
  <2>1. PICK s \in Seq(Letter) : s = <<"now">> /\ s # << >> /\ ~White(s[1])
    BY <1>2, <1>5
  <2>2. PICK a \in Letter : a = "Date:"
    BY <1>3
  <2>3. Speaks(DateLine, a, b, s)
    BY <1>1, <1>7, <2>1, <2>2, Zenon DEF Speaks
  <2> QED
    BY <2>1, <2>3, ServerValue
<1>9. Value(<<IdLine>>) = <<"<", "number">>
  <2>1. PICK s \in Seq(Letter) : s = <<"<", "number">> /\ s # << >> /\ ~White(s[1])
    BY <1>2, <1>6
  <2>2. PICK a \in Letter : a = "Message-ID:"
    BY <1>3
  <2>3. Speaks(IdLine, a, b, s)
    BY <1>1, <1>7, <2>1, <2>2, Zenon DEF Speaks
  <2> QED
    BY <2>1, <2>3, ServerValue
<1>10. Value(<<XrefLine>>) = <<"here", "number">>
  <2>1. PICK s \in Seq(Letter) : s = <<"here", "number">> /\ s # << >> /\ ~White(s[1])
    BY <1>2, <1>6
  <2>2. PICK a \in Letter : a = "Xref:"
    BY <1>3
  <2>3. Speaks(XrefLine, a, b, s)
    BY <1>1, <1>7, <2>1, <2>2, Zenon DEF Speaks
  <2> QED
    BY <2>1, <2>3, ServerValue
<1>11. ASSUME NEW n \in Nat PROVE Value(<<LinesLine(n)>>) = Decimal(n)
  <2>1. PICK s \in Seq(Letter) : s = Decimal(n) /\ Len(s) = n + 1
    BY DecimalType
  <2>2. s # << >>
    <3>1. Len(s) # 0
      BY <2>1
    <3> QED
      BY <3>1, EmptySeq
  <2>3. ~White(s[1])
    <3>1. s[1] = "0"
      BY <2>1 DEF Decimal
    <3> QED
      BY <1>2, <3>1
  <2>4. PICK a \in Letter : a = "Lines:"
    BY <1>3
  <2>5. LinesLine(n) = <<a, b>> \o s
    BY <1>1, <2>1, <2>4, Zenon DEF LinesLine
  <2>6. Speaks(LinesLine(n), a, b, s)
    BY <1>1, <2>2, <2>3, <2>5, Zenon DEF Speaks
  <2> QED
    BY <2>1, <2>6, ServerValue
<1> QED
  BY <1>8, <1>9, <1>10, <1>11

-----------------------------------------------------------------------------
(* What Load tells is what the sender meant.                               *)

\* The fields with a name are the sender's, or else the server's.
SenderOr(n, f) ==
  Named(Full, {n}) = IF Named(MeantHead, {n}) = << >> THEN <<f>> ELSE Named(MeantHead, {n})

\* The fields of the file are the sender's, and the server's.
LEMMA FullNamed ==
  ASSUME TypeOK, Proper
  PROVE  /\ Named(Full, {"Subject:"}) = Named(MeantHead, {"Subject:"})
         /\ Named(Full, {"From:"}) = Named(MeantHead, {"From:"})
         /\ Named(Full, {"References:"}) = Named(MeantHead, {"References:"})
         /\ SenderOr("Message-ID:", <<IdLine>>)
         /\ SenderOr("Lines:", <<LinesLine(Len(MeantBody))>>)
         /\ IF Preserving /\ Named(MeantHead, {"Date:"}) # << >>
            THEN Named(Full, {"Date:"}) = Named(MeantHead, {"Date:"})
            ELSE \E r \in Seq(OneField) : Named(Full, {"Date:"}) = Append(r, <<DateLine>>)
         /\ \E r \in Seq(OneField) : Named(Full, {"Xref:"}) = Append(r, <<XrefLine>>)
<1>1. PICK h \in Header, g \in Header, e \in Header :
        h = MeantHead /\ g = Given /\ e = Full /\ Edits(g, e, Len(MeantBody), Preserving)
  BY FullIs, GivenIs
<1>2. \A names : "Path:" \notin names /\ "From " \notin names /\ "X-Original-From:" \notin names
                   => Named(g, names) = Named(h, names)
  BY <1>1, GivenNamed, KeptNamed
<1>3. \A names : names \cap Touched = {} => Named(e, names) = Named(g, names)
  BY <1>1 DEF Edits
<1>4. \A n \in {"Subject:", "From:", "References:"} : Named(e, {n}) = Named(h, {n})
  <2> TAKE n \in {"Subject:", "From:", "References:"}
  <2>1. PICK names : names = {n}
    OBVIOUS
  <2>2. names \cap Touched = {}
    BY <2>1 DEF Touched
  <2>3. Named(g, names) = Named(h, names)
    BY <1>2, <2>1
  <2>4. Named(e, names) = Named(g, names)
    BY <1>3, <2>2
  <2> QED
    BY <2>1, <2>3, <2>4
<1>5. /\ Named(g, {"Message-ID:"}) = Named(h, {"Message-ID:"}) /\ Named(g, {"Lines:"}) = Named(h, {"Lines:"})
      /\ Named(g, {"Date:"}) = Named(h, {"Date:"})
  BY <1>2
<1>6. SenderOr("Message-ID:", <<IdLine>>) /\ SenderOr("Lines:", <<LinesLine(Len(MeantBody))>>)
  BY <1>1, <1>5 DEF Edits, SenderOr
<1>7. IF Preserving /\ Named(h, {"Date:"}) # << >>
      THEN Named(e, {"Date:"}) = Named(h, {"Date:"})
      ELSE \E r \in Seq(OneField) : Named(e, {"Date:"}) = Append(r, <<DateLine>>)
  BY <1>1, <1>5 DEF Edits, Replaces
<1>8. \E r \in Seq(OneField) : Named(e, {"Xref:"}) = Append(r, <<XrefLine>>)
  <2>1. Named(g, {"Xref:"}) \in Seq(OneField)
    BY NamedType
  <2>2. Named(e, {"Xref:"}) = Append(Named(g, {"Xref:"}), <<XrefLine>>)
    BY <1>1 DEF Edits
  <2> QED
    BY <2>1, <2>2
<1> QED
  BY <1>1, <1>4, <1>6, <1>7, <1>8

\* The server's lines are fields.
LEMMA ServerFields ==
  /\ <<XrefLine>> \in OneField /\ <<DateLine>> \in OneField /\ <<IdLine>> \in OneField
  /\ \A n \in Nat : <<LinesLine(n)>> \in OneField
BY ServerLines, FieldGrows DEF LineOf

\* A value that is told.
Tells1(n, v) == Trim(RawOf(n)) = v
\* What is told is the value of the last field.
LEMMA TellsSender ==
  ASSUME TypeOK, FileInv, Whole, Proper, NEW n \in Loaded
  PROVE  /\ Named(Full, {n}) = Named(MeantHead, {n}) => Tells1(n, Or(n, << >>))
         /\ \A f \in OneField : SenderOr(n, f) => Tells1(n, Or(n, Value(f)))
         /\ \A r \in Seq(OneField), f \in OneField : Named(Full, {n}) = Append(r, f) => Tells1(n, Value(f))
         /\ Named(Full, {n}) = Named(MeantHead, {n}) /\ Named(MeantHead, {n}) # << >>
              => \A v : Tells1(n, Or(n, v))
<1>1. TaleIs(n)
  BY TaleTold
<1>2. PICK N, M : N = Named(Full, {n}) /\ M = Named(MeantHead, {n})
  OBVIOUS
<1>3. Tells1(n, IF N = << >> THEN << >> ELSE Value(Last(N)))
  BY <1>1, <1>2, Zenon DEF TaleIs, Tells1
<1>4. \A v : Or(n, v) = IF M # << >> THEN Value(Last(M)) ELSE v
  BY <1>2, Zenon DEF Or
<1>5. N = M => Tells1(n, Or(n, << >>))
  BY <1>3, <1>4, Zenon
<1>6. ASSUME NEW f \in OneField, SenderOr(n, f) PROVE Tells1(n, Or(n, Value(f)))
  <2>1. N = IF M = << >> THEN <<f>> ELSE M
    BY <1>2, <1>6, Zenon DEF SenderOr
  <2>2. <<f>> # << >> /\ Last(<<f>>) = f
    <3>1. PICK r \in Seq(OneField) : r = << >>
      BY EmptySeq
    <3>2. Append(r, f) = <<f>>
      BY <3>1, AppendNone
    <3> QED
      BY <3>2, LastAppend
  <2>3. CASE M = << >>
    <3>1. N = <<f>> /\ Or(n, Value(f)) = Value(f)
      BY <1>4, <2>1, <2>3, Zenon
    <3>2. Tells1(n, Value(f))
      BY <1>3, <2>2, <3>1, Zenon
    <3> QED
      BY <3>1, <3>2, Zenon
  <2>4. CASE M # << >>
    <3>1. N = M
      BY <2>1, <2>4, Zenon
    <3> QED
      BY <1>3, <1>4, <2>4, <3>1, Zenon
  <2> QED
    BY <2>3, <2>4, Zenon
<1>7. ASSUME NEW r \in Seq(OneField), NEW f \in OneField, N = Append(r, f) PROVE Tells1(n, Value(f))
  <2>1. N # << >> /\ Last(N) = f
    BY <1>7, LastAppend
  <2> QED
    BY <1>3, <2>1, Zenon
<1>8. N = M /\ M # << >> => \A v : Tells1(n, Or(n, v))
  BY <1>3, <1>4, Zenon
<1> QED
  BY <1>2, <1>5, <1>6, <1>7, <1>8

\* The columns of the overview.
LEMMA OverviewColumns ==
  \A c : c = Overview(file) =>
    /\ c[1] = Tale("Subject:") /\ c[2] = Tale("From:") /\ c[3] = Tale("Date:")
    /\ c[4] = Tale("Message-ID:") /\ c[5] = Tale("References:")
    /\ c[7] = IF Tale("Lines:") > 0 THEN Decimal(Tale("Lines:")) ELSE << >>
    /\ c[8] = IF Tale("Xref:") # << >> THEN <<"Xref:", " ">> \o Tale("Xref:") ELSE << >>
<1>1. PICK o : o = <<"Xref:", " ">> \o Tale("Xref:")
  OBVIOUS
<1>2. PICK l : l = Decimal(Tale("Lines:"))
  OBVIOUS
<1>3. PICK e, g : /\ e = IF Tale("Lines:") > 0 THEN l ELSE << >>
                 /\ g = IF Tale("Xref:") # << >> THEN o ELSE << >>
  OBVIOUS
<1>4. Overview(file) =
        << Tale("Subject:"), Tale("From:"), Tale("Date:"), Tale("Message-ID:"), Tale("References:"), << >>, e, g >>
  BY <1>1, <1>2, <1>3, Zenon DEF Overview, Tale
<1> SUFFICES ASSUME NEW c, c = Overview(file)
             PROVE  /\ c[1] = Tale("Subject:") /\ c[2] = Tale("From:") /\ c[3] = Tale("Date:")
                    /\ c[4] = Tale("Message-ID:") /\ c[5] = Tale("References:")
                    /\ c[7] = e /\ c[8] = g
  BY <1>1, <1>2, <1>3, Zenon
<1>5. PICK a1, a2, a3, a4, a5, a6 :
        /\ a1 = Tale("Subject:") /\ a2 = Tale("From:") /\ a3 = Tale("Date:")
        /\ a4 = Tale("Message-ID:") /\ a5 = Tale("References:") /\ a6 = << >>
  OBVIOUS
<1>6. c = <<a1, a2, a3, a4, a5, a6, e, g>>
  BY <1>4, <1>5, Zenon
<1>7. c[1] = a1 /\ c[2] = a2 /\ c[3] = a3 /\ c[4] = a4 /\ c[5] = a5 /\ c[7] = e /\ c[8] = g
  BY <1>6
<1> QED
  BY <1>5, <1>7, Zenon

\* A field of one line is kept as its value.
LEMMA OneLineRaw ==
  \A f \in OneField : Len(f) = 1 /\ f[1] # << >> => Raw(f) = Value(f)
<1> SUFFICES ASSUME NEW f \in OneField, Len(f) = 1, f[1] # << >>
             PROVE  Raw(f) = Value(f)
  OBVIOUS
<1>1. PICK line \in Seq(Letter), r \in Seq(Letter) : line = f[1] /\ FlattenSeq(f) = line \o r /\ r = << >>
  BY FieldText
<1>2. PICK t \in Seq(Letter) : t = Tail(line) /\ Value(f) = Trim(t \o r)
  BY <1>1, ValueIs
<1>3. t \o r = t
  BY <1>1, ConcatEmptySeq
<1>4. Raw(f) = Trim(t)
  BY <1>1, <1>2, RawIs
<1> QED
  BY <1>2, <1>3, <1>4

\* The column with the number of lines.
LEMMA LinesColumn ==
  ASSUME NEW s \in Seq(Letter), NEW value, value = Trim(s),
         NEW column, column = IF Atoi(s) > 0 THEN Decimal(Atoi(s)) ELSE << >>
  PROVE  TellsLines(value, Trim(column))
<1>1. PICK v \in Seq(Letter) : v = value
  BY TrimSplit
<1>2. PICK n \in Nat : n = Len(v)
  BY LenProperties
<1>3. PICK d \in Nat :
        /\ d <= n
        /\ \A j \in 1 .. d : v[j] = "0"
        /\ d = n \/ v[d + 1] # "0"
        /\ Atoi(s) = IF d = 0 THEN 0 ELSE d - 1
  BY <1>1, <1>2, AtoiIs
<1>3a. d <= n
  BY <1>3, Zenon
<1>3b. (\A j \in 1 .. d : v[j] = "0") /\ (d = n \/ v[d + 1] # "0")
  BY <1>3, Zenon
<1> SUFFICES ASSUME NEW k \in 0 .. n, \A j \in 1 .. k : v[j] = "0", k = n \/ v[k + 1] # "0"
             PROVE  Trim(column) = IF k > 1 THEN SubSeq(v, 1, k) ELSE << >>
  BY <1>1, <1>2 DEF TellsLines
<1>4. k = d
  <2>1. ~(k < d)
    <3> SUFFICES ASSUME k < d PROVE FALSE
      OBVIOUS
    <3>1. k + 1 \in 1 .. d /\ k # n
      BY <1>3a
    <3> QED
      BY <1>3b, <3>1
  <2>2. ~(d < k)
    <3> SUFFICES ASSUME d < k PROVE FALSE
      OBVIOUS
    <3>1. d + 1 \in 1 .. k /\ d # n
      BY <1>3a
    <3> QED
      BY <1>3b, <3>1
  <2> QED
    BY <2>1, <2>2
<1>5. CASE ~(k > 1)
  <2>1. ~(Atoi(s) > 0)
    BY <1>3, <1>4, <1>5
  <2>2. column = << >>
    BY <2>1
  <2>3. Trim(<< >>) = << >>
    <3>1. Len(<< >>) = 0 /\ 1 .. 0 = {}
      BY EmptySeq
    <3>2. PICK z \in Nat : z = 0
      OBVIOUS
    <3> QED
      BY <3>1, <3>2, TrimIs
  <2> QED
    BY <1>5, <2>2, <2>3
<1>6. CASE k > 1
  <2>1. PICK m \in Nat : m = k - 1 /\ m > 0 /\ m + 1 = k /\ Atoi(s) = m
    BY <1>3, <1>4, <1>6
  <2>2. PICK u \in Seq(Letter) : u = Decimal(m) /\ column = u /\ Len(u) = k /\ \A j \in 1 .. k : u[j] = "0"
    <3>1. Decimal(m) \in Seq(Letter) /\ Len(Decimal(m)) = m + 1
      BY DecimalType
    <3>2. \A j \in 1 .. k : Decimal(m)[j] = "0"
      BY <2>1 DEF Decimal
    <3> QED
      BY <2>1, <3>1, <3>2
  <2>3. Trim(u) = u
    <3>1. u # << >> /\ ~White(u[1])
      <4>1. Len(u) # 0 /\ u[1] = "0"
        BY <1>6, <2>2
      <4> QED
        BY <4>1, WhiteIs, EmptySeq
    <3> QED
      BY <3>1, TrimVisible
  <2>4. PICK w \in Seq(Letter) : w = SubSeq(v, 1, k) /\ Len(w) = k /\ \A j \in 1 .. k : w[j] = "0"
    <3> DEFINE X == Letter
    <3>1. v \in Seq(X) /\ k \in 1 .. Len(v)
      BY <1>1, <1>2, <1>6
    <3> HIDE DEF X
    <3>2. SubSeq(v, 1, k) \in Seq(X) /\ Len(SubSeq(v, 1, k)) = k /\ \A j \in 1 .. k : SubSeq(v, 1, k)[j] = v[j]
      BY <3>1
    <3> QED
      BY <3>2 DEF X
  <2>5. w = u
    BY <2>2, <2>4, SeqEqual
  <2> QED
    BY <1>6, <2>2, <2>3, <2>4, <2>5
<1> QED
  BY <1>5, <1>6

\* OverviewRight follows from the file.
LEMMA OverviewIs == TypeOK /\ FileInv => OverviewRight
<1> SUFFICES ASSUME TypeOK, FileInv, Whole, Proper
             PROVE  OverviewRight
  BY DEF OverviewRight
<1>1. PICK x \in OneField, d \in OneField, i \in OneField : x = <<XrefLine>> /\ d = <<DateLine>> /\ i = <<IdLine>>
  BY ServerFields
<1>2. Value(x) = <<"here", "number">> /\ Value(d) = <<"now">> /\ Value(i) = <<"<", "number">>
  BY <1>1, ServerValues, Zenon
<1>3. PICK l \in OneField : l = <<LinesLine(Len(MeantBody))>> /\ Value(l) = Decimal(Len(MeantBody))
  <2>1. PICK n \in Nat : n = Len(MeantBody)
    <3>1. MeantBody \in Header
      BY FullIs
    <3> QED
      BY <3>1, HeaderLines
  <2> QED
    BY <2>1, ServerFields, ServerValues
<1>4. /\ "Subject:" \in Loaded /\ "From:" \in Loaded /\ "Message-ID:" \in Loaded /\ "References:" \in Loaded
      /\ "Lines:" \in Loaded /\ "Date:" \in Loaded /\ "Xref:" \in Loaded
  BY DEF Loaded
<1>5. /\ Tells1("Subject:", Or("Subject:", << >>)) /\ Tells1("From:", Or("From:", << >>))
      /\ Tells1("References:", Or("References:", << >>))
  <2>1. /\ Named(Full, {"Subject:"}) = Named(MeantHead, {"Subject:"})
        /\ Named(Full, {"From:"}) = Named(MeantHead, {"From:"})
        /\ Named(Full, {"References:"}) = Named(MeantHead, {"References:"})
    BY FullNamed
  <2> QED
    BY <1>4, <2>1, TellsSender, Zenon
<1>6. Tells1("Message-ID:", Or("Message-ID:", <<"<", "number">>)) /\ Tells1("Lines:", Or("Lines:", Decimal(Len(MeantBody))))
  <2>1. SenderOr("Message-ID:", i) /\ SenderOr("Lines:", l)
    BY <1>1, <1>3, FullNamed
  <2>2. Tells1("Message-ID:", Or("Message-ID:", Value(i))) /\ Tells1("Lines:", Or("Lines:", Value(l)))
    BY <1>4, <2>1, TellsSender, Zenon
  <2> QED
    BY <1>2, <1>3, <2>2, Zenon
<1>7. Tells1("Date:", IF Preserving THEN Or("Date:", <<"now">>) ELSE <<"now">>)
  <2>1. CASE Preserving /\ Named(MeantHead, {"Date:"}) # << >>
    <3>1. Named(Full, {"Date:"}) = Named(MeantHead, {"Date:"})
      BY <2>1, FullNamed
    <3>2. Tells1("Date:", Or("Date:", <<"now">>))
      BY <1>4, <2>1, <3>1, TellsSender, Zenon
    <3> QED
      BY <2>1, <3>2, Zenon
  <2>2. CASE ~(Preserving /\ Named(MeantHead, {"Date:"}) # << >>)
    <3>1. \E r \in Seq(OneField) : Named(Full, {"Date:"}) = Append(r, d)
      BY <1>1, <2>2, FullNamed
    <3>2. Tells1("Date:", Value(d))
      BY <1>4, <3>1, TellsSender, Zenon
    <3>3. Preserving => Or("Date:", <<"now">>) = <<"now">>
      BY <2>2, Zenon DEF Or
    <3> QED
      BY <1>2, <3>2, <3>3, Zenon
  <2> QED
    BY <2>1, <2>2
<1>8. RawOf("Xref:") = <<"here", "number">>
  <2>1. PICK r \in Seq(OneField) : Named(Full, {"Xref:"}) = Append(r, x)
    BY <1>1, FullNamed
  <2>2. Named(Full, {"Xref:"}) # << >> /\ Last(Named(Full, {"Xref:"})) = x
    BY <2>1, LastAppend
  <2>3. RawOf("Xref:") = Raw(x)
    BY <2>2, Zenon DEF RawOf
  <2>4. Len(x) = 1 /\ x[1] # << >>
    BY <1>1 DEF XrefLine
  <2> QED
    BY <1>2, <2>3, <2>4, OneLineRaw
<1>9. \A n \in Loaded : /\ RawOf(n) \in Seq(Letter)
                         /\ Tale(n) = IF n = "Lines:" THEN Atoi(RawOf(n)) ELSE RawOf(n)
  <2> TAKE n \in Loaded
  <2>1. RawOf(n) \in Seq(Letter) /\ Tale(n) = Kept(n, RawOf(n))
    BY TaleTold, Zenon DEF TaleIs
  <2> QED
    BY <2>1, Zenon DEF Kept
<1>10. PICK c : c = Overview(file)
  OBVIOUS
<1>11. /\ c[1] = RawOf("Subject:") /\ c[2] = RawOf("From:") /\ c[3] = RawOf("Date:")
       /\ c[4] = RawOf("Message-ID:") /\ c[5] = RawOf("References:")
  <2>1. /\ Tale("Subject:") = RawOf("Subject:") /\ Tale("From:") = RawOf("From:") /\ Tale("Date:") = RawOf("Date:")
        /\ Tale("Message-ID:") = RawOf("Message-ID:") /\ Tale("References:") = RawOf("References:")
    BY <1>4, <1>9
  <2> QED
    BY <1>10, <2>1, OverviewColumns, Zenon
<1>12. TellsLines(Or("Lines:", Decimal(Len(MeantBody))), Trim(c[7]))
  <2>1. PICK s \in Seq(Letter) : s = RawOf("Lines:") /\ Tale("Lines:") = Atoi(s)
    BY <1>4, <1>9
  <2>2. PICK column : column = IF Atoi(s) > 0 THEN Decimal(Atoi(s)) ELSE << >>
    OBVIOUS
  <2>3. c[7] = column
    BY <1>10, <2>1, <2>2, OverviewColumns, Zenon
  <2>4. Or("Lines:", Decimal(Len(MeantBody))) = Trim(s)
    BY <1>6, <2>1, Zenon DEF Tells1
  <2>5. PICK value : value = Trim(s)
    OBVIOUS
  <2>6. TellsLines(value, Trim(column))
    BY <2>2, <2>5, LinesColumn
  <2> QED
    BY <2>3, <2>4, <2>5, <2>6, Zenon
<1>13. Trim(c[8]) = <<"Xref:", " ", "here", "number">>
  <2>1. Tale("Xref:") = <<"here", "number">>
    BY <1>4, <1>8, <1>9
  <2>2. c[8] = IF Tale("Xref:") # << >> THEN <<"Xref:", " ">> \o Tale("Xref:") ELSE << >>
    BY <1>10, OverviewColumns, Zenon
  <2>3. <<"here", "number">> # << >>
    OBVIOUS
  <2>3a. c[8] = <<"Xref:", " ">> \o <<"here", "number">>
    BY <2>1, <2>2, <2>3, Zenon
  <2>3b. \A a, b, g, e : <<a, b, g, e>> = <<a, b>> \o <<g, e>>
    OBVIOUS
  <2>3c. <<"Xref:", " ", "here", "number">> = <<"Xref:", " ">> \o <<"here", "number">>
    <3>1. PICK a, b, g, e : a = "Xref:" /\ b = " " /\ g = "here" /\ e = "number"
      OBVIOUS
    <3>2. <<a, b, g, e>> = <<a, b>> \o <<g, e>>
      BY <2>3b
    <3> QED
      BY <3>1, <3>2
  <2>4. c[8] = XrefLine
    BY <2>3a, <2>3c, Zenon DEF XrefLine
  <2>5. XrefLine \in Seq(Letter)
    BY ServerLines DEF LineOf
  <2>6. XrefLine # << >> /\ ~White(XrefLine[1])
    BY DEF XrefLine, White
  <2>7. Trim(XrefLine) = XrefLine
    BY <2>5, <2>6, TrimVisible
  <2> QED
    BY <2>4, <2>7 DEF XrefLine
<1> QED
  <2> DEFINE told == [k \in 1 .. 8 |-> Trim(c[k])]
  <2>1. \A k \in 1 .. 8 : told[k] = Trim(c[k])
    OBVIOUS
  <2>2. 1 \in 1 .. 8 /\ 2 \in 1 .. 8 /\ 3 \in 1 .. 8 /\ 4 \in 1 .. 8 /\ 5 \in 1 .. 8 /\ 7 \in 1 .. 8 /\ 8 \in 1 .. 8
    OBVIOUS
  <2> HIDE DEF told
  <2>3. /\ told[1] = Or("Subject:", << >>) /\ told[2] = Or("From:", << >>)
        /\ told[3] = IF Preserving THEN Or("Date:", <<"now">>) ELSE <<"now">>
        /\ told[4] = Or("Message-ID:", <<"<", "number">>) /\ told[5] = Or("References:", << >>)
    BY <1>5, <1>6, <1>7, <1>11, <2>1, <2>2, Zenon DEF Tells1
  <2>4. /\ TellsLines(Or("Lines:", Decimal(Len(MeantBody))), told[7])
        /\ told[8] = <<"Xref:", " ", "here", "number">>
    BY <1>12, <1>13, <2>1, <2>2, Zenon
  <2> QED
    BY <1>10, <2>3, <2>4, Zenon DEF OverviewRight, Preserving, told

\* What the overview tells of an article that is acknowledged is what its sender
\* wrote, or the server's value where the sender gave none.
THEOREM ReaderTells == Spec => []OverviewRight
BY ReaderStores, ReaderTypeCorrect, OverviewIs, PTL

-----------------------------------------------------------------------------
(* Which articles can be read again.                                       *)

\* A header that begins with an empty line.
Headless(h) == h # << >> /\ h[1] = << >>

\* It stays the first, whatever is added or taken out.
LEMMA HeadlessAppend ==
  \A h \in Header, line \in Seq(Letter) : Headless(h) => Append(h, line) \in Header /\ Headless(Append(h, line))
<1> SUFFICES ASSUME NEW h \in Header, NEW line \in Seq(Letter), Headless(h)
             PROVE  Append(h, line) \in Header /\ Headless(Append(h, line))
  OBVIOUS
<1>1. PICK n \in Nat : n = Len(h) /\ n # 0
  <2>1. Len(h) \in Nat
    BY HeaderAppend
  <2>2. Len(h) # 0
    <3> DEFINE X == Seq(Letter)
    <3>1. h \in Seq(X) /\ h # << >>
      BY DEF Header, Headless
    <3> HIDE DEF X
    <3> QED
      BY <3>1, EmptySeq
  <2> QED
    BY <2>1, <2>2
<1>2. 1 \in 1 .. n
  BY <1>1
<1>3. Append(h, line)[1] = h[1]
  BY <1>1, <1>2, HeaderAppend
<1> QED
  BY <1>3, HeaderAppend DEF Headless

\* ... whatever comes behind it.
LEMMA HeadlessConcat ==
  \A a, c \in Header : Headless(a) => a \o c \in Header /\ Headless(a \o c)
<1> DEFINE X == Seq(Letter)
<1> SUFFICES ASSUME NEW a \in Seq(X), NEW c \in Seq(X), Headless(a)
             PROVE  a \o c \in Header /\ Headless(a \o c)
  BY DEF Header
<1>1. a \o c \in Header
  BY HeaderConcat DEF Header
<1> HIDE DEF X
<1>2. PICK m \in Nat, n \in Nat : m = Len(a) /\ n = Len(c)
  OBVIOUS
<1>3. m # 0
  BY <1>2, EmptySeq DEF Headless
<1>4. PICK q : q = a \o c
  OBVIOUS
<1>5. q \in Seq(X) /\ Len(q) = m + n /\ \A i \in 1 .. m + n : q[i] = IF i <= m THEN a[i] ELSE c[i - m]
  BY <1>2, <1>4, ConcatIs DEF ConcatOf
<1>6. 1 \in 1 .. m + n /\ 1 <= m /\ m + n # 0
  BY <1>2, <1>3
<1>7. q[1] = a[1]
  BY <1>5, <1>6
<1>8. q # << >>
  <2>1. Len(<< >>) = 0
    BY EmptySeq
  <2> QED
    BY <1>5, <1>6, <2>1
<1> QED
  BY <1>1, <1>4, <1>7, <1>8 DEF Headless

\* ... whatever field is taken out.
LEMMA HeadlessErase ==
  \A h \in Header : \A name : Headless(h) => Erase(h, name) \in Header /\ Headless(Erase(h, name))
<1> SUFFICES ASSUME NEW h \in Header, NEW name, Headless(h)
             PROVE  Erase(h, name) \in Header /\ Headless(Erase(h, name))
  OBVIOUS
<1>1. PICK n \in Nat : n = Len(h)
  BY HeaderAppend
<1>2. PICK t \in 0 .. n : t = GetHeaderIndex(h, name) /\ (t # 0 => IsField(h[t], name))
  BY <1>1, IndexNone
<1>3. Erase(h, name) = IF t = 0 THEN h ELSE RemoveAt(h, t)
  BY <1>2, Zenon DEF Erase
<1>4. CASE t = 0
  BY <1>3, <1>4
<1>5. CASE t # 0
  <2>1. t # 1
    BY <1>2, <1>5 DEF IsField, Headless
  <2>2. t \in 1 .. Len(h)
    BY <1>1, <1>2, <1>5
  <2>3. PICK a \in Header, c \in Header : Parted(h, t, a, c)
    BY <2>2, PartedAt DEF Parted
  <2>4. Len(a) = t - 1 /\ RemoveAt(h, t) = a \o c /\ \A j \in 1 .. t - 1 : a[j] = h[j]
    BY <2>3 DEF Parted
  <2>5. 1 \in 1 .. t - 1 /\ t - 1 # 0
    BY <1>2, <1>5, <2>1
  <2>6. a # << >>
    <3>1. Len(<< >>) = 0
      BY EmptySeq
    <3> QED
      BY <2>4, <2>5, <3>1
  <2>7. Headless(a)
    BY <2>4, <2>5, <2>6 DEF Headless
  <2> QED
    BY <1>3, <1>5, <2>4, <2>7, HeadlessConcat
<1> QED
  BY <1>4, <1>5

\* ... whatever default is added.
LEMMA HeadlessDefault ==
  \A h \in Header, line \in Seq(Letter) : Headless(h) => Default(h, line) \in Header /\ Headless(Default(h, line))
BY HeadlessAppend DEF Default

\* The header of an article that begins with an empty line.
LEMMA HeadlessMeant ==
  ASSUME TypeOK, Meant[1] = << >>
  PROVE  MeantHead \in Header /\ Headless(MeantHead)
<1> DEFINE X == Seq(Letter)
<1>1. PICK lines \in Seq(X) : lines = Meant /\ Len(lines) # 0 /\ << >> \in X
  BY MeantIs, EmptySeq DEF Header
<1> HIDE DEF X
<1>2. Closed = WithEnd(lines)
  BY <1>1 DEF Closed, WithEnd
<1> DEFINE k == HeadSize(lines)
<1>3. MeantHead = SubSeq(lines, 1, k)
  BY <1>1, <1>2, HeadIs DEF MeantHead
<1>4. k \in 1 .. Len(lines) /\ Len(lines) \in Nat
  BY <1>1, HeadSizeIs
<1> HIDE DEF k
<1>5. PICK n \in Nat : n = Len(lines) /\ k \in 1 .. n
  BY <1>4
<1>6. Len(SubSeq(lines, 1, k)) = k /\ \A j \in 1 .. k : SubSeq(lines, 1, k)[j] = lines[j]
  BY <1>1, <1>5
<1>7. 1 \in 1 .. k /\ k # 0 /\ Len(<< >>) = 0
  BY <1>5, EmptySeq
<1>8. MeantHead # << >> /\ MeantHead[1] = << >>
  BY <1>1, <1>3, <1>6, <1>7
<1> QED
  BY <1>8, MeantIs DEF Headless

\* ... and what Post is given of it.
LEMMA HeadlessGiven ==
  ASSUME TypeOK, Meant[1] = << >>
  PROVE  Given \in Header /\ Headless(Given)
<1>1. PICK h \in Header, k \in Header : h = MeantHead /\ k = Known
  BY GivenIs
<1>2. /\ Len(k) = Len(h) /\ \A t \in 1 .. Len(h) : k[t] = Changed(h[t])
      /\ Given = IF GetHeaderIndex(h, "Path:") # 0 THEN k ELSE Append(k, PathLine)
  BY <1>1, GivenIs
<1>3. h # << >> /\ h[1] = << >>
  BY <1>1, HeadlessMeant DEF Headless
<1>4. PICK n \in Nat : n = Len(h) /\ n # 0
  <2> DEFINE X == Seq(Letter)
  <2>1. h \in Seq(X)
    BY DEF Header
  <2> HIDE DEF X
  <2> QED
    BY <1>3, <2>1, EmptySeq
<1>5. k[1] = << >>
  <2>1. PICK e \in Seq(Letter) : e = << >>
    BY EmptySeq
  <2>2. ~IsField(e, "Path:") /\ ~IsField(e, "From ")
    BY <2>1 DEF IsField
  <2>3. Changed(e) = e
    BY <2>2, ChangedIs
  <2>4. 1 \in 1 .. n
    BY <1>4
  <2> QED
    BY <1>2, <1>3, <1>4, <2>1, <2>3, <2>4
<1>6. k # << >>
  <2>1. Len(<< >>) = 0
    BY EmptySeq
  <2> QED
    BY <1>2, <1>4, <2>1
<1>7. Headless(k)
  BY <1>5, <1>6 DEF Headless
<1> QED
  BY <1>2, <1>7, HeadlessAppend, PathLineType

\* ... and what Post makes of it.
LEMMA HeadlessEdited ==
  ASSUME NEW g \in Header, NEW body \in Header, NEW preserve, Headless(g)
  PROVE  Edited(g, body, preserve) \in Header /\ Headless(Edited(g, body, preserve))
<1>1. PICK n \in Nat : n = Len(body)
  BY HeaderLines
<1>2. /\ XrefLine \in Seq(Letter) /\ DateLine \in Seq(Letter) /\ HostLine \in Seq(Letter)
      /\ IdLine \in Seq(Letter) /\ LinesLine(n) \in Seq(Letter)
  BY ServerLines DEF LineOf
<1>3. PICK D \in Header : D = (IF preserve THEN g ELSE Erase(g, "Date:")) /\ Headless(D)
  BY HeadlessErase
<1>4. PICK B \in Header : B = Erase(D, "NNTP-Posting-Host:") /\ Headless(B)
  BY <1>3, HeadlessErase
<1>5. PICK X \in Header : X = Append(B, XrefLine) /\ Headless(X)
  BY <1>2, <1>4, HeadlessAppend
<1>6. PICK W \in Header : W = Append(X, DateLine) /\ Headless(W)
  BY <1>2, <1>5, HeadlessAppend
<1>7. PICK d : d = (preserve /\ GetHeaderIndex(g, "Date:") # 0)
  OBVIOUS
<1>8. PICK Y \in Header : Y = (IF d THEN X ELSE W) /\ Headless(Y)
  BY <1>5, <1>6
<1>9. PICK H \in Header : H = Append(Y, HostLine) /\ Headless(H)
  BY <1>2, <1>8, HeadlessAppend
<1>10. PICK I \in Header : I = Default(H, IdLine) /\ Headless(I)
  BY <1>2, <1>9, HeadlessDefault
<1>11. PICK E \in Header : E = Default(I, LinesLine(n)) /\ Headless(E)
  BY <1>2, <1>10, HeadlessDefault
<1>12. Append(B, XrefLine) \o (IF d THEN << >> ELSE << DateLine >>) = Y
  <2> DEFINE S == Seq(Letter)
  <2>1. X \in Seq(S) /\ DateLine \in S
    BY <1>2 DEF Header
  <2> HIDE DEF S
  <2>2. X \o << >> = X
    BY <2>1, ConcatEmptySeq
  <2>3. X \o << DateLine >> = Append(X, DateLine)
    BY <2>1
  <2> QED
    BY <1>5, <1>6, <1>8, <2>2, <2>3
<1>13. Edited(g, body, preserve) =
          LET bare == Erase(IF preserve THEN g ELSE Erase(g, "Date:"), "NNTP-Posting-Host:")
              date == IF preserve /\ GetHeaderIndex(g, "Date:") # 0 THEN << >> ELSE << DateLine >>
              full == Append(Append(bare, XrefLine) \o date, HostLine)
          IN  Default(Default(full, IdLine), <<"Lines:", " ">> \o Decimal(Len(body)))
  BY Zenon DEF Edited, XrefLine, DateLine, HostLine, IdLine
<1>14. LinesLine(n) = <<"Lines:", " ">> \o Decimal(n)
  BY Zenon DEF LinesLine
<1>15. Edited(g, body, preserve) = E
  BY <1>1, <1>3, <1>4, <1>7, <1>9, <1>10, <1>11, <1>12, <1>13, <1>14, Zenon
<1> QED
  BY <1>11, <1>15

\* Load finds nothing behind a first empty line.
LEMMA HeadlessFile ==
  ASSUME NEW e \in Header, NEW body \in Header, Headless(e)
  PROVE  ~Loads(FileOf(e, body))
<1> DEFINE X == Seq(Letter)
<1>1. PICK f \in Header : f = FileOf(e, body) /\ Headless(f)
  <2>1. << << >> >> \o body \in Header /\ e \o << << >> >> \in Header
    <3>1. << << >> >> \in Header
      BY EmptySeq DEF Header
    <3> QED
      BY <3>1, HeaderConcat
  <2>2. (e \o << << >> >>) \o body \in Header /\ Headless((e \o << << >> >>) \o body)
    <3>1. << << >> >> \in Header
      BY EmptySeq DEF Header
    <3>2. PICK a \in Header : a = e \o << << >> >> /\ Headless(a)
      BY <3>1, HeadlessConcat
    <3> QED
      BY <3>2, HeadlessConcat
  <2> QED
    BY <2>2 DEF FileOf
<1>2. PICK k \in Nat : k = Len(f) /\ k # 0
  <2>1. f \in Seq(X) /\ f # << >>
    BY <1>1 DEF Header, Headless
  <2> HIDE DEF X
  <2> QED
    BY <2>1, EmptySeq
<1>3. EndsHead(f, 1)
  <2>1. 1 \in 1 .. k /\ 1 .. 1 - 1 = {}
    BY <1>2
  <2> QED
    BY <1>1, <1>2, <2>1 DEF EndsHead, Headless
<1>4. HeadOf(f) = << >>
  <2>1. f \in Seq(X)
    BY DEF Header
  <2> HIDE DEF X
  <2>2. PICK p \in Nat : p = 1
    OBVIOUS
  <2>3. HeadOf(f) = SubSeq(f, 1, p - 1)
    BY <1>3, <2>1, <2>2, HeadBody
  <2>4. p - 1 = 0
    BY <2>2
  <2>5. SubSeq(f, 1, 0) = << >>
    BY <1>2, <2>1, SubSeqLast
  <2> QED
    BY <2>3, <2>4, <2>5
<1>5. Load(f) = ParseHeader(LoadOf(<< >>))
  BY <1>4, Zenon DEF Load, LoadOf, LoadStart
<1>6. LoadOf(<< >>) = LoadStart /\ LoadStart \in Load1
  <2>1. PICK h \in Seq(Line) : h = << >>
    BY EmptySeq
  <2> QED
    BY <2>1, LoadAppend
<1>7. \A n \in Loaded : ParseHeader(LoadStart)[n] = Kept(n, << >>)
  <2>1. \A n \in Loaded : ParseHeader(LoadStart)[n] = IF n = LoadStart.key THEN Kept(n, LoadStart.val) ELSE LoadStart.fields[n]
    <3>1. PathLine \in Line
      <4>1. PathLine # << >>
        BY PathLineType, EmptySeq
      <4> QED
        BY <4>1, PathLineType DEF Line
    <3>2. PICK at \in Load1 : at = LoadStart
      BY <1>6
    <3>3. \A n \in Loaded : ParseHeader(at)[n] = IF n = at.key THEN Kept(n, at.val) ELSE at.fields[n]
      BY <3>1, LoadOne1
    <3> QED
      BY <3>2, <3>3, Zenon
  <2>2. LoadStart.val = << >> /\ \A n \in Loaded : LoadStart.fields[n] = Kept(n, << >>)
    BY DEF LoadStart
  <2> QED
    BY <2>1, <2>2, Zenon
<1>8. "From:" \in Loaded /\ "From:" # "Lines:"
  BY DEF Loaded
<1>9. Kept("From:", << >>) = << >>
  BY <1>8, Zenon DEF Kept
<1> QED
  BY <1>1, <1>5, <1>6, <1>7, <1>8, <1>9, Zenon DEF Loads

\* Something is told, where the sender or the server says something.
Says(n) == Tale(n) # << >>

\* An article that begins with a line that is not empty.
LEMMA LoadsNamed ==
  ASSUME TypeOK, FileInv, Whole, Proper
  PROVE  Loads(file) <=> /\ Has(MeantHead, "From:")
                         /\ Named(MeantHead, {"Message-ID:"}) # << >> => Has(MeantHead, "Message-ID:")
<1>1. "From:" \in Loaded /\ "Message-ID:" \in Loaded /\ "From:" # "Lines:" /\ "Message-ID:" # "Lines:"
  BY DEF Loaded
<1>2. PICK F, M, G, I :
        /\ F = Named(MeantHead, {"From:"}) /\ M = Named(MeantHead, {"Message-ID:"})
        /\ G = Named(Full, {"From:"}) /\ I = Named(Full, {"Message-ID:"})
  OBVIOUS
<1>3. Loads(file) <=> Says("Message-ID:") /\ Says("From:")
  BY Zenon DEF Loads, Says, Tale
<1>4. /\ Has(MeantHead, "From:") <=> F # << >> /\ (Value(Last(F)) # << >> \/ Len(Last(F)) > 1)
      /\ Has(MeantHead, "Message-ID:") <=> M # << >> /\ (Value(Last(M)) # << >> \/ Len(Last(M)) > 1)
  BY <1>2, Zenon DEF Has
<1>5. /\ G = << >> => ~Says("From:")
      /\ G # << >> => (Says("From:") <=> Value(Last(G)) # << >> \/ Len(Last(G)) > 1)
  <2>1. TaleIs("From:")
    BY <1>1, TaleTold
  <2> QED
    BY <1>1, <1>2, <2>1, Zenon DEF TaleIs, Says, Kept
<1>6. I # << >> => (Says("Message-ID:") <=> Value(Last(I)) # << >> \/ Len(Last(I)) > 1)
  <2>1. TaleIs("Message-ID:")
    BY <1>1, TaleTold
  <2> QED
    BY <1>1, <1>2, <2>1, Zenon DEF TaleIs, Says, Kept
<1>7. G = F /\ I = IF M = << >> THEN << <<IdLine>> >> ELSE M
  BY <1>2, FullNamed, Zenon DEF SenderOr
<1>8. M = << >> => Says("Message-ID:")
  <2> SUFFICES ASSUME M = << >> PROVE Says("Message-ID:")
    OBVIOUS
  <2>1. PICK f \in OneField : f = <<IdLine>>
    BY ServerFields
  <2>2. <<f>> # << >> /\ Last(<<f>>) = f
    <3>1. PICK r \in Seq(OneField) : r = << >>
      BY EmptySeq
    <3>2. Append(r, f) = <<f>>
      BY <3>1, AppendNone
    <3> QED
      BY <3>2, LastAppend
  <2>3. I = <<f>>
    BY <1>7, <2>1, Zenon
  <2>4. Value(f) = <<"<", "number">>
    BY <2>1, ServerValues, Zenon
  <2>5. <<"<", "number">> # << >>
    OBVIOUS
  <2> QED
    BY <1>6, <2>2, <2>3, <2>4, <2>5, Zenon
<1>9. M # << >> => I = M
  BY <1>7, Zenon
<1> QED
  BY <1>2, <1>3, <1>4, <1>5, <1>6, <1>7, <1>8, <1>9, Zenon

\* LoadsIffNamed follows from the file.
LEMMA LoadsIs == TypeOK /\ FileInv => LoadsIffNamed
<1> SUFFICES ASSUME TypeOK, FileInv, Whole, Meant[1] # << >> => Proper
             PROVE  Loads(file) <=> /\ Meant[1] # << >>
                                    /\ Has(MeantHead, "From:")
                                    /\ Named(MeantHead, {"Message-ID:"}) # << >> => Has(MeantHead, "Message-ID:")
  BY Zenon DEF LoadsIffNamed
<1>1. CASE Meant[1] # << >>
  <2>1. Proper
    BY <1>1
  <2>2. Loads(file) <=> /\ Has(MeantHead, "From:")
                        /\ Named(MeantHead, {"Message-ID:"}) # << >> => Has(MeantHead, "Message-ID:")
    BY <2>1, LoadsNamed
  <2> QED
    BY <1>1, <2>2, Zenon
<1>2. CASE Meant[1] = << >>
  <2>1. Given \in Header /\ Headless(Given) /\ MeantBody \in Header
    BY <1>2, HeadlessGiven, MeantIs
  <2>2. PICK e \in Header : e = Full /\ Headless(e)
    BY <2>1, HeadlessEdited DEF Full
  <2>3. file = FileOf(e, MeantBody)
    BY <2>2 DEF FileInv
  <2>4. ~Loads(file)
    BY <2>1, <2>2, <2>3, HeadlessFile
  <2> QED
    BY <1>2, <2>4, Zenon
<1> QED
  BY <1>1, <1>2

\* Of the articles that are acknowledged, those can be read again that have what
\* Article::Load asks for.
THEOREM ReaderLoads == Spec => []LoadsIffNamed
BY ReaderStores, ReaderTypeCorrect, LoadsIs, PTL

-----------------------------------------------------------------------------
(* The Message-ID that is searched.                                        *)

\* The line is the first of a field.
Begun(N, l) == \E i \in 1 .. Len(N) : N[i][1] = l

\* One field more.
LEMMA BegunAppend ==
  \A N \in Seq(OneField), f \in OneField : \A l : Begun(Append(N, f), l) <=> Begun(N, l) \/ f[1] = l
<1> SUFFICES ASSUME NEW N \in Seq(OneField), NEW f \in OneField, NEW l
             PROVE  Begun(Append(N, f), l) <=> Begun(N, l) \/ f[1] = l
  OBVIOUS
<1>1. PICK n \in Nat : n = Len(N)
  OBVIOUS
<1>2. Len(Append(N, f)) = n + 1 /\ Append(N, f)[n + 1] = f /\ \A i \in 1 .. n : Append(N, f)[i] = N[i]
  BY <1>1, AppendProperties
<1>3. \A i : i \in 1 .. n + 1 <=> i \in 1 .. n \/ i = n + 1
  OBVIOUS
<1> QED
  BY <1>1, <1>2, <1>3, Zenon DEF Begun

\* It stays one when the header grows.
LEMMA BegunGrows ==
  ASSUME NEW h \in Header, NEW line \in Seq(Letter), NEW names, NEW l, Begun(Named(h, names), l)
  PROVE  Begun(Named(Append(h, line), names), l)
<1>1. PICK N \in Seq(OneField) : N = Named(h, names)
  BY NamedType
<1>2. CASE ~IsFold(line)
  <2>1. NamedGrows(h, line, names)
    BY <1>2, NamedLine
  <2>2. <<line>> \in OneField
    BY FieldGrows
  <2>3. Begun(Append(N, <<line>>), l)
    BY <1>1, <2>2, BegunAppend
  <2> QED
    BY <1>1, <2>1, <2>3, Zenon DEF NamedGrows
<1>3. CASE IsFold(line)
  <2>1. h # << >>
    <3>1. Named(<< >>, names) = << >>
      BY NamedAppend
    <3>2. 1 .. Len(<< >>) = {}
      BY EmptySeq
    <3>3. ~Begun(<< >>, l)
      BY <3>2 DEF Begun
    <3> QED
      BY <3>1, <3>3, Zenon
  <2>2. \E r \in Seq(OneField), f, g \in OneField :
                /\ Fields(h) = Append(r, f) /\ g = Append(f, line) /\ Fields(Append(h, line)) = Append(r, g)
                /\ g[1] = f[1]
    BY <1>3, <2>1, FieldsGrow
  <2>3. PICK r \in Seq(OneField), f \in OneField, g \in OneField :
                /\ Fields(h) = Append(r, f) /\ g = Append(f, line) /\ Fields(Append(h, line)) = Append(r, g)
                /\ g[1] = f[1]
    BY <2>2
  <2>4. Of(names, f) <=> Of(names, g)
    BY <2>3, Zenon DEF Of
  <2>5. PICK R \in Seq(OneField) : R = Filtered(names, r)
    BY FilteredAppend
  <2>6. /\ Named(h, names) = Filtered(names, Append(r, f))
        /\ Named(Append(h, line), names) = Filtered(names, Append(r, g))
    BY <2>3, NamedIs
  <2>7. CASE Of(names, f)
    <3>1. Named(h, names) = Append(R, f) /\ Named(Append(h, line), names) = Append(R, g)
      <4>1. Takes(names, r, f) /\ Takes(names, r, g)
        BY <2>4, <2>7, FilteredOne
      <4> QED
        BY <2>5, <2>6, <4>1, Zenon DEF Takes
    <3>2. Begun(R, l) \/ f[1] = l
      BY <3>1, BegunAppend
    <3>3. Begun(Append(R, g), l)
      BY <2>3, <3>2, BegunAppend
    <3> QED
      BY <3>1, <3>3, Zenon
  <2>8. CASE ~Of(names, f)
    <3>1. Leaves(names, r, f) /\ Leaves(names, r, g)
      BY <2>4, <2>8, FilteredOne
    <3> QED
      BY <2>6, <3>1, Zenon DEF Leaves
  <2> QED
    BY <2>7, <2>8
<1> QED
  BY <1>2, <1>3

\* Every line with the name begins a field with it.
LEMMA LineBegun ==
  ASSUME NEW name, Fieldlike({name})
  PROVE  \A h \in Header : \A t \in 1 .. Len(h) : IsField(h[t], name) => Begun(Named(h, {name}), h[t])
<1> DEFINE T == {h \in Header : \A t \in 1 .. Len(h) : IsField(h[t], name) => Begun(Named(h, {name}), h[t])}
<1>1. << >> \in T
  <2>1. << >> \in Header /\ 1 .. Len(<< >>) = {}
    BY EmptySeq DEF Header
  <2> QED
    BY <2>1
<1>2. ASSUME NEW h \in Header, NEW line \in Seq(Letter), h \in T
      PROVE  Append(h, line) \in T
  <2>1. PICK k \in Header : k = Append(h, line)
    BY HeaderAppend
  <2>2. PICK n \in Nat : n = Len(h)
    BY HeaderAppend
  <2>3. Len(k) = n + 1 /\ k[n + 1] = line /\ \A i \in 1 .. n : k[i] = h[i]
    BY <2>1, <2>2, HeaderAppend
  <2>4. ASSUME NEW t \in 1 .. n + 1, IsField(k[t], name)
        PROVE  Begun(Named(k, {name}), k[t])
    <3>1. CASE t \in 1 .. n
      <4>1. Begun(Named(h, {name}), h[t]) /\ k[t] = h[t]
        BY <1>2, <2>2, <2>3, <2>4, <3>1
      <4>2. Begun(Named(Append(h, line), {name}), h[t])
        BY <4>1, BegunGrows
      <4> QED
        BY <2>1, <4>1, <4>2, Zenon
    <3>2. CASE t = n + 1
      <4>1. k[t] = line /\ In({name}, line) /\ ~IsFold(line)
        BY <2>3, <2>4, <3>2, FoldName DEF In, IsField
      <4>2. NamedGrows(h, line, {name})
        BY <4>1, NamedLine
      <4>3. PICK N \in Seq(OneField) : N = Named(h, {name})
        BY NamedType
      <4>4. <<line>> \in OneField /\ <<line>>[1] = line
        BY FieldGrows
      <4>5. Begun(Append(N, <<line>>), line)
        BY <4>4, BegunAppend
      <4> QED
        BY <2>1, <4>1, <4>2, <4>3, <4>5, Zenon DEF NamedGrows
    <3> QED
      BY <3>1, <3>2
  <2> QED
    BY <2>1, <2>3, <2>4
<1> HIDE DEF T
<1>3. Header \subseteq T
  BY <1>1, <1>2, HeaderInduction
<1> QED
  BY <1>3 DEF T

\* A line of the header in the file.
LEMMA FileLine ==
  \A h, b \in Header : \A t \in 1 .. Len(h) : FileOf(h, b)[t] = h[t]
<1> DEFINE X == Seq(Letter)
<1> SUFFICES ASSUME NEW h \in Seq(X), NEW b \in Seq(X), NEW t \in 1 .. Len(h)
             PROVE  FileOf(h, b)[t] = h[t]
  BY DEF Header
<1>1. PICK e \in X : e = << >>
  BY EmptySeq
<1> HIDE DEF X
<1>2. PICK m \in Nat, n \in Nat : m = Len(h) /\ n = Len(b)
  OBVIOUS
<1>3. PICK a \in Seq(X) : a = h \o <<e>> /\ Len(a) = m + 1 /\ a[t] = h[t]
  <2>1. h \o <<e>> = Append(h, e)
    OBVIOUS
  <2>2. Append(h, e) \in Seq(X) /\ Len(Append(h, e)) = m + 1 /\ Append(h, e)[t] = h[t]
    BY <1>2, AppendProperties
  <2> QED
    BY <2>1, <2>2
<1>4. FileOf(h, b) = a \o b
  BY <1>1, <1>3 DEF FileOf
<1>5. ConcatOf(X, a, b, a \o b)
  BY ConcatIs
<1>6. t \in 1 .. m + 1 + n /\ t <= m + 1
  BY <1>2
<1>7. (a \o b)[t] = a[t]
  BY <1>2, <1>3, <1>5, <1>6 DEF ConcatOf
<1> QED
  BY <1>3, <1>4, <1>7

\* The one field with a name that a header has is the one that is found.
LEMMA OneFound ==
  ASSUME NEW h \in Header, NEW name, Fieldlike({name}), NEW f \in OneField, Named(h, {name}) = <<f>>
  PROVE  /\ GetHeaderIndex(h, name) \in 1 .. Len(h)
         /\ h[GetHeaderIndex(h, name)] = f[1]
<1>1. PICK n \in Nat : n = Len(h)
  BY HeaderAppend
<1>2. PICK t \in 0 .. n : t = GetHeaderIndex(h, name) /\ (t # 0 => IsField(h[t], name))
  BY <1>1, IndexNone
<1>3. PICK F \in Seq(OneField) : F = << >> /\ Append(F, f) = <<f>>
  <2>1. PICK F \in Seq(OneField) : F = << >>
    BY EmptySeq
  <2> QED
    BY <2>1, AppendNone
<1>4. t # 0
  <2>1. <<f>> # << >>
    BY <1>3, LastAppend
  <2> QED
    BY <1>2, <2>1, IndexNamed
<1>5. t \in 1 .. Len(h)
  BY <1>1, <1>2, <1>4
<1>6. Begun(Append(F, f), h[t])
  <2>1. Begun(Named(h, {name}), h[t])
    BY <1>2, <1>4, <1>5, LineBegun
  <2> QED
    BY <1>3, <2>1, Zenon
<1>7. ~Begun(F, h[t])
  <2>1. 1 .. Len(<< >>) = {}
    BY EmptySeq
  <2> QED
    BY <1>3, <2>1 DEF Begun
<1>8. f[1] = h[t]
  BY <1>6, <1>7, BegunAppend
<1> QED
  BY <1>2, <1>5, <1>8

\* Those without a field, and with one.
LEMMA FewerThanTwo ==
  \A N \in Seq(OneField) : Len(N) < 2 => N = << >> \/ \E f \in OneField : N = <<f>>
<1> SUFFICES ASSUME NEW N \in Seq(OneField), Len(N) < 2, N # << >>
             PROVE  \E f \in OneField : N = <<f>>
  OBVIOUS
<1>1. Len(N) = 1
  <2>1. PICK n \in Nat : n = Len(N)
    OBVIOUS
  <2>2. n # 0 /\ n < 2
    BY <2>1, EmptySeq
  <2>3. n = 1
    BY <2>2
  <2> QED
    BY <2>1, <2>3
<1>2. PICK f \in OneField : f = N[1]
  BY <1>1
<1>3. PICK F \in Seq(OneField) : F = << >> /\ Append(F, f) = <<f>>
  <2>1. PICK F \in Seq(OneField) : F = << >>
    BY EmptySeq
  <2> QED
    BY <2>1, AppendNone
<1>4. N = Append(F, f)
  <2>1. Len(F) = 0
    BY <1>3, EmptySeq
  <2>2. \A i \in 1 .. Len(F) : N[i] = F[i]
    BY <2>1
  <2>3. Len(N) = Len(F) + 1 /\ N[Len(F) + 1] = f
    BY <1>1, <1>2, <2>1
  <2> QED
    BY <2>2, <2>3, AppendEqual
<1> QED
  BY <1>3, <1>4, Zenon

\* A field that is alone is the last one.
LEMMA OneLast ==
  \A f \in OneField : <<f>> # << >> /\ Last(<<f>>) = f
<1> TAKE f \in OneField
<1>1. PICK F \in Seq(OneField) : F = << >> /\ Append(F, f) = <<f>>
  <2>1. PICK F \in Seq(OneField) : F = << >>
    BY EmptySeq
  <2> QED
    BY <2>1, AppendNone
<1> QED
  BY <1>1, LastAppend, Zenon

\* What stands behind a field's first line begins with white space.
Continued(f) == Behind(f) = << >> \/ White(Behind(f)[1])
AllContinued(F) == \A i \in 1 .. Len(F) : Continued(F[i])
LEMMA AllContinuedAppend ==
  \A F \in Seq(OneField), f \in OneField : AllContinued(Append(F, f)) <=> AllContinued(F) /\ Continued(f)
<1> TAKE F \in Seq(OneField), f \in OneField
<1>1. PICK n \in Nat : n = Len(F) /\ Len(Append(F, f)) = n + 1 /\ Append(F, f)[n + 1] = f
                       /\ \A i \in 1 .. n : Append(F, f)[i] = F[i]
  BY AppendProperties, LenProperties
<1>2. 1 .. n + 1 = (1 .. n) \cup {n + 1}
  OBVIOUS
<1> QED
  BY <1>1, <1>2 DEF AllContinued

\* A line that continues the field begins with white space.
LEMMA ContinuedGrows ==
  ASSUME NEW f \in OneField, NEW line \in Seq(Letter), Continued(f), IsFold(line)
  PROVE  Continued(Append(f, line))
<1>1. PICK r \in Seq(Letter) : r = Behind(f) /\ Behind(Append(f, line)) = r \o line
  BY FieldLines
<1>2. line # << >> /\ White(line[1])
  BY DEF IsFold, White
<1>3. CASE r = << >>
  <2>1. r \o line = line
    BY <1>3, ConcatEmptySeq
  <2> QED
    BY <1>1, <1>2, <2>1 DEF Continued
<1>4. CASE r # << >>
  <2>1. PICK q : q = r \o line /\ ConcatOf(Letter, r, line, q)
    BY ConcatIs
  <2>2. PICK m \in Nat, n \in Nat : m = Len(r) /\ n = Len(line) /\ m # 0
    BY <1>4, LenProperties, EmptySeq
  <2>3. 1 \in 1 .. m + n /\ 1 <= m
    BY <2>2
  <2>4. q[1] = r[1]
    BY <2>1, <2>2, <2>3 DEF ConcatOf
  <2>5. White(r[1])
    BY <1>1, <1>4 DEF Continued
  <2> QED
    BY <1>1, <2>1, <2>4, <2>5, Zenon DEF Continued
<1> QED
  BY <1>3, <1>4

\* So it is for every field of a header.
LEMMA FieldsContinued == \A h \in Header : AllContinued(Fields(h))
<1> DEFINE T == {h \in Header : AllContinued(Fields(h))}
<1>1. << >> \in T
  <2>1. << >> \in Header
    BY EmptySeq DEF Header
  <2>2. Fields(<< >>) = << >>
    BY <2>1, FieldsAppend
  <2>3. Len(<< >>) = 0 /\ 1 .. 0 = {}
    BY EmptySeq
  <2> QED
    BY <2>1, <2>2, <2>3 DEF AllContinued
<1>2. ASSUME NEW h \in Header, NEW line \in Seq(Letter), h \in T PROVE Append(h, line) \in T
  <2> SUFFICES AllContinued(Fields(Append(h, line)))
    BY HeaderAppend
  <2>1. PICK F \in Seq(OneField) : F = Fields(h) /\ AllContinued(F)
    BY <1>2, FieldsAppend
  <2>2. PICK e \in OneField : e = <<line>> /\ Continued(e)
    <3>1. <<line>> \in OneField
      BY FieldGrows
    <3>2. Len(<<line>>) = 1
      OBVIOUS
    <3> QED
      BY <3>1, <3>2, FieldLines DEF Continued
  <2>3. CASE ~IsFold(line)
    <3>1. Fields(Append(h, line)) = Append(F, e)
      BY <2>1, <2>2, <2>3, FieldsGrow
    <3> QED
      BY <2>1, <2>2, <3>1, AllContinuedAppend
  <2>4. CASE h = << >>
    <3>1. Fields(Append(h, line)) = <<e>>
      BY <2>2, <2>4, FieldsGrow
    <3>2. Len(<<e>>) = 1 /\ <<e>>[1] = e
      OBVIOUS
    <3> QED
      BY <2>2, <3>1, <3>2 DEF AllContinued
  <2>5. CASE IsFold(line) /\ h # << >>
    <3>0. \E r \in Seq(OneField), f, g \in OneField :
            /\ Fields(h) = Append(r, f) /\ g = Append(f, line) /\ Fields(Append(h, line)) = Append(r, g)
            /\ g[1] = f[1]
      BY <2>5, FieldsGrow
    <3>1. PICK r \in Seq(OneField), f \in OneField, g \in OneField :
            F = Append(r, f) /\ g = Append(f, line) /\ Fields(Append(h, line)) = Append(r, g)
      BY <2>1, <3>0
    <3>2. AllContinued(r) /\ Continued(f)
      BY <2>1, <3>1, AllContinuedAppend
    <3>3. Continued(g)
      BY <2>5, <3>1, <3>2, ContinuedGrows
    <3> QED
      BY <3>1, <3>2, <3>3, AllContinuedAppend
  <2> QED
    BY <2>3, <2>4, <2>5
<1>3. Header \subseteq T
  <2> HIDE DEF T
  <2> QED
    BY <1>1, <1>2, HeaderInduction
<1> QED
  BY <1>3

\* ... and for one that is found by its name.
LEMMA NamedContinued ==
  ASSUME NEW h \in Header, NEW name, NEW f \in OneField, Named(h, {name}) = <<f>>
  PROVE  Continued(f)
<1>1. PICK F \in Seq(OneField) : F = Fields(h) /\ AllContinued(F)
  BY FieldsAppend, FieldsContinued
<1>2. PICK S : S = {name}
  OBVIOUS
<1>3. Filtered(S, F) = <<f>>
  BY <1>1, <1>2, NamedIs
<1>4. \A i \in 1 .. Len(Filtered(S, F)) : \E j \in 1 .. Len(F) : Filtered(S, F)[i] = F[j]
  BY FilteredFrom
<1>5. Len(<<f>>) = 1 /\ <<f>>[1] = f /\ 1 \in 1 .. 1
  OBVIOUS
<1>6. \E j \in 1 .. Len(F) : f = F[j]
  BY <1>3, <1>4, <1>5
<1> QED
  BY <1>1, <1>6 DEF AllContinued

-----------------------------------------------------------------------------
(* The argument of a command.                                              *)

\* It ends before the first white space behind its beginning.
Blanks(s) == {j \in 1 .. Len(s) : White(s[j])}
LEMMA ArgumentFirst ==
  \A s \in Seq(Letter) :
    \E i : /\ IsFirst(i, Blanks(Trim(s)))
           /\ Argument(s) = IF i = 0 THEN Trim(s) ELSE SubSeq(Trim(s), 1, i - 1)
<1> TAKE s \in Seq(Letter)
<1>1. PICK t \in Seq(Letter) : t = Trim(s)
  BY TrimSplit
<1> DEFINE i == SelectInSeq(t, LAMBDA c : c = " ")
<1>2. i = IF Blanks(t) # {} THEN Min(Blanks(t)) ELSE 0
  BY DEF SelectInSeq, Blanks, White
<1>3. Blanks(t) \in SUBSET (1 .. Len(t)) /\ Len(t) \in Nat
  BY LenProperties DEF Blanks
<1>4. IsFirst(i, Blanks(t))
  BY <1>2, <1>3, MinIsFirst
<1>5. Argument(s) = IF i = 0 THEN t ELSE SubSeq(t, 1, i - 1)
  BY <1>1, Zenon DEF Argument
<1> HIDE DEF i
<1> QED
  BY <1>1, <1>4, <1>5

\* It has no white space; and a word without any is taken whole.
LEMMA ArgumentIs ==
  ASSUME NEW a \in Seq(Letter), NEW r \in Seq(Letter), r = << >> \/ White(r[1])
  PROVE  /\ \A i \in 1 .. Len(Argument(a \o r)) : ~White(Argument(a \o r)[i])
         /\ a # << >> /\ (\A i \in 1 .. Len(a) : ~White(a[i])) => Argument(a \o r) = a
<1>1. PICK q \in Seq(Letter) : q = a \o r /\ ConcatOf(Letter, a, r, q)
  BY ConcatIs, ConcatProperties
<1>2. PICK t \in Seq(Letter) : t = Trim(q)
  BY TrimSplit
<1>3. PICK n \in Nat : n = Len(t)
  BY LenProperties
<1>4. PICK i : /\ IsFirst(i, Blanks(t))
               /\ Argument(q) = IF i = 0 THEN t ELSE SubSeq(t, 1, i - 1)
  BY <1>2, ArgumentFirst
<1>5. \A j : j \in Blanks(t) <=> j \in 1 .. n /\ White(t[j])
  BY <1>3 DEF Blanks
<1>6. \A k \in Nat : k <= n =>
        SubSeq(t, 1, k) \in Seq(Letter) /\ Len(SubSeq(t, 1, k)) = k /\ \A j \in 1 .. k : SubSeq(t, 1, k)[j] = t[j]
  <2> DEFINE X == Letter
  <2>1. t \in Seq(X)
    OBVIOUS
  <2> HIDE DEF X
  <2>2. \A k \in Nat : k <= Len(t) =>
          SubSeq(t, 1, k) \in Seq(X) /\ Len(SubSeq(t, 1, k)) = k /\ \A j \in 1 .. k : SubSeq(t, 1, k)[j] = t[j]
    BY <2>1
  <2> QED
    BY <1>3, <2>2 DEF X
<1>7. \A j \in 1 .. Len(Argument(q)) : ~White(Argument(q)[j])
  <2>1. CASE i = 0
    <3>1. Blanks(t) = {}
      BY <1>4, <1>5, <2>1 DEF IsFirst
    <3> QED
      BY <1>3, <1>4, <1>5, <2>1, <3>1
  <2>2. CASE i # 0
    <3>1. i \in 1 .. n /\ \A j \in Blanks(t) : i <= j
      BY <1>4, <1>5, <2>2 DEF IsFirst
    <3>2. PICK k \in Nat : k = i - 1 /\ k <= n
      BY <3>1
    <3>3. Argument(q) = SubSeq(t, 1, k)
      BY <1>4, <2>2, <3>2
    <3>4. \A j \in 1 .. k : ~White(t[j])
      <4> TAKE j \in 1 .. k
      <4>1. j \in 1 .. n /\ ~(i <= j)
        BY <3>1, <3>2
      <4> QED
        BY <1>5, <3>1, <4>1
    <3> QED
      BY <1>6, <3>2, <3>3, <3>4
  <2> QED
    BY <2>1, <2>2
<1>8. ASSUME a # << >>, \A j \in 1 .. Len(a) : ~White(a[j]) PROVE Argument(q) = a
  <2>1. PICK m \in Nat, k \in Nat : m = Len(a) /\ k = Len(r) /\ m # 0
    BY <1>8, LenProperties, EmptySeq
  <2>2. /\ Len(q) = m + k
        /\ \A j \in 1 .. m : q[j] = a[j] /\ ~White(q[j])
        /\ k # 0 => q[m + 1] = r[1]
    <3>1. Len(q) = m + k /\ \A j \in 1 .. m + k : q[j] = IF j <= m THEN a[j] ELSE r[j - m]
      BY <1>1, <2>1 DEF ConcatOf
    <3>2. \A j \in 1 .. m : j \in 1 .. m + k /\ j <= m
      OBVIOUS
    <3>3. k # 0 => m + 1 \in 1 .. m + k /\ ~(m + 1 <= m) /\ m + 1 - m = 1
      OBVIOUS
    <3> QED
      BY <1>8, <2>1, <3>1, <3>2, <3>3
  <2>3. t = q /\ n = m + k
    <3>1. q # << >>
      BY <2>1, <2>2, EmptySeq
    <3>2. ~White(q[1])
      BY <2>1, <2>2
    <3> QED
      BY <1>2, <1>3, <2>2, <3>1, <3>2, TrimVisible
  <2>4. CASE k = 0
    <3>1. r = << >>
      BY <2>1, <2>4, EmptySeq
    <3>2. q = a
      BY <1>1, <3>1, ConcatEmptySeq
    <3>3. Blanks(t) = {}
      BY <1>5, <2>2, <2>3, <2>4
    <3>4. i = 0
      BY <1>4, <3>3 DEF IsFirst
    <3> QED
      BY <1>4, <2>3, <3>2, <3>4
  <2>5. CASE k # 0
    <3>1. White(q[m + 1])
      <4>1. r # << >>
        BY <2>1, <2>5, EmptySeq
      <4> QED
        BY <2>2, <2>5, <4>1
    <3>2. m + 1 \in Blanks(t)
      BY <1>5, <2>3, <2>5, <3>1
    <3>3. i \in Blanks(t) /\ i <= m + 1
      BY <1>4, <3>2 DEF IsFirst
    <3>4. i \in 1 .. n /\ White(q[i])
      BY <1>5, <2>3, <3>3
    <3>5. i \notin 1 .. m
      BY <2>2, <3>4
    <3>6. i = m + 1 /\ i # 0 /\ i - 1 = m
      BY <3>3, <3>4, <3>5
    <3>7. Argument(q) = SubSeq(t, 1, m)
      BY <1>4, <3>6
    <3>8. m <= n
      BY <2>3
    <3>9. PICK w \in Seq(Letter) : w = SubSeq(t, 1, m) /\ Len(w) = m /\ \A j \in 1 .. m : w[j] = t[j]
      BY <1>6, <3>8
    <3>10. w = a
      BY <2>1, <2>2, <2>3, <3>9, SeqEqual
    <3> QED
      BY <3>7, <3>9, <3>10
  <2> QED
    BY <2>4, <2>5
<1> QED
  BY <1>1, <1>7, <1>8

\* The identifier that is told and the one that is searched.
LEMMA FoundIs == TypeOK /\ FileInv => FoundById
<1> DEFINE id == "Message-ID:"
           M == Named(MeantHead, {id})
           v == IF M = << >> THEN <<"<", "number">> ELSE Value(<<Last(M)[1]>>)
<1> SUFFICES ASSUME TypeOK, FileInv, Whole, Proper, Len(M) < 2
             PROVE  Finds(file, Load(file)[id]) <=>
                      v # << >> /\ v[1] = "<" /\ \A i \in 1 .. Len(v) : v[i] # " "
  BY Zenon DEF FoundById
<1>1. id \in Loaded /\ Fieldlike({id}) /\ id \in Names /\ id # "Lines:"
  <2>1. id \in Loaded /\ id \in Names
    BY DEF Loaded, Names
  <2> QED
    BY <2>1, FieldlikeNames
<1>2. PICK h \in Header, b \in Header : h = Full /\ b = MeantBody /\ Solid(h) /\ HeadOf(file) = h /\ file = FileOf(h, b)
  BY FullIs, StoredParts
<1>3. M \in Seq(OneField)
  <2>1. PICK m \in Header : m = MeantHead
    BY GivenIs
  <2> QED
    BY <2>1, NamedType
<1>4. Named(h, {id}) = IF M = << >> THEN << <<IdLine>> >> ELSE M
  BY <1>2, FullNamed, Zenon DEF SenderOr
<1> HIDE DEF M
<1>5. PICK f \in OneField : Named(h, {id}) = <<f>> /\ IF M = << >> THEN f = <<IdLine>> ELSE M = <<f>>
  <2>1. CASE M = << >>
    BY <1>4, <2>1, ServerFields, Zenon
  <2>2. CASE M # << >>
    <3>1. PICK f \in OneField : M = <<f>>
      BY <1>3, <2>2, FewerThanTwo
    <3> QED
      BY <1>4, <2>2, <3>1, Zenon
  <2> QED
    BY <2>1, <2>2
<1> HIDE DEF id
<1>6. PICK t \in 1 .. Len(h) : t = GetHeaderIndex(h, id) /\ h[t] = f[1]
  BY <1>1, <1>5, OneFound
<1>7. t # 0
  <2>1. PICK n \in Nat : n = Len(h)
    BY HeaderAppend
  <2> QED
    BY <2>1
<1>8. <<f>> # << >> /\ Last(<<f>>) = f
  BY OneLast
<1>9. f[1] # << >>
  BY <1>2, <1>5, <1>8, LastNamed
<1>10. PICK a \in Seq(Letter), r \in Seq(Letter) : a = Trim(Tail(f[1])) /\ r = Behind(f)
  <2>1. f[1] \in Seq(Letter) /\ Behind(f) \in Seq(Letter)
    BY FieldLines
  <2> QED
    BY <1>9, <2>1, TailType, TrimSplit
<1>11. GetMessageID(file) = a
  <2>1. GetMessageID(file) = Trim(Tail(file[t]))
    BY <1>2, <1>6, <1>7, Zenon DEF GetMessageID, id
  <2>2. file[t] = f[1]
    BY <1>2, <1>6, FileLine
  <2> QED
    BY <1>10, <2>1, <2>2
<1>12. Load(file)[id] = a \o r
  <2>1. Tale(id) = Kept(id, RawOf(id))
    BY <1>1, TaleTold DEF TaleIs
  <2>2. RawOf(id) = Raw(f)
    BY <1>2, <1>5, <1>8, Zenon DEF RawOf
  <2>3. Tale(id) = Raw(f)
    BY <1>1, <2>1, <2>2, Zenon DEF Kept
  <2> QED
    BY <1>10, <2>3, Zenon DEF Tale, Raw
<1>13. v = a
  <2>1. CASE M = << >>
    <3>1. f = <<IdLine>> /\ Len(f) = 1 /\ v = <<"<", "number">>
      <4>1. f = <<IdLine>> /\ v = <<"<", "number">>
        BY <1>5, <2>1, Zenon
      <4>2. Len(<<IdLine>>) = 1
        OBVIOUS
      <4> QED
        BY <4>1, <4>2
    <3>2. Value(f) = v
      BY <3>1, ServerValues, Zenon
    <3>3. Raw(f) = Value(f) /\ Raw(f) = Trim(Tail(f[1]))
      BY <1>9, <3>1, OneLineRaw, RawIs
    <3> QED
      BY <1>10, <3>2, <3>3
  <2>2. CASE M # << >>
    <3>1. M = <<f>> /\ v = Value(<<f[1]>>)
      BY <1>5, <1>8, <2>2, Zenon
    <3>2. PICK line \in Seq(Letter) : line = f[1] /\ line # << >>
      BY <1>9, FieldLines
    <3>3. PICK e \in OneField : e = <<line>> /\ e[1] = line /\ Len(e) = 1
      BY FieldGrows
    <3>4. Raw(e) = Value(e) /\ Raw(e) = Trim(Tail(line))
      BY <3>2, <3>3, OneLineRaw, RawIs
    <3> QED
      BY <1>10, <3>1, <3>2, <3>3, <3>4
  <2> QED
    BY <2>1, <2>2
<1> HIDE DEF v
<1>14. r = << >> \/ White(r[1])
  <2>1. Continued(f)
    BY <1>5, NamedContinued
  <2> QED
    BY <1>10, <2>1 DEF Continued
<1>15. PICK g : g = Argument(a \o r)
  OBVIOUS
<1>16. Finds(file, Load(file)[id]) <=> g # << >> /\ g[1] = "<" /\ a = g
  BY <1>11, <1>12, <1>15, Zenon DEF Finds
<1>17. /\ \A i \in 1 .. Len(g) : g[i] # " "
       /\ a # << >> /\ (\A i \in 1 .. Len(a) : a[i] # " ") => g = a
  BY <1>14, <1>15, ArgumentIs DEF White
<1>18. Finds(file, Load(file)[id]) <=> a # << >> /\ a[1] = "<" /\ \A i \in 1 .. Len(a) : a[i] # " "
  BY <1>16, <1>17, Zenon
<1> QED
  BY <1>13, <1>18, Zenon

\* The search by Message-ID finds an article that has one such field by what is
\* told of it exactly when the line with the field's name has one word that
\* begins with "<".
THEOREM ReaderFinds == Spec => []FoundById
BY ReaderStores, ReaderTypeCorrect, FoundIs, PTL
==============================================================================
