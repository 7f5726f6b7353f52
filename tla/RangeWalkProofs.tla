---------------------------- MODULE RangeWalkProofs ----------------------------
(***************************************************************************)
(* Proofs about RangeWalk, for every size of a number, every range of a    *)
(* group and every argument of XOVER.                                      *)
(***************************************************************************)
EXTENDS RangeWalk, FiniteSetTheorems, TLAPS

\* The numbers XOVER walks over.
Lo == Clamp(Parsed[1], Parsed[2])[1]
Hi == Clamp(Parsed[1], Parsed[2])[2]

\* What never changes, and that files only go.
Setting ==
  /\ End \in Ends /\ (Start = 0 => End = 0)
  /\ seen \subseteq 1 .. End /\ files \subseteq seen
  /\ kind = "id" => result \in {"begun", "looking", "found", "missing"} /\ tried = {}
  /\ kind = "xover" => result \in {"begun", "looking", "listed"}

\* A lookup has left no match behind above artnum.  Where artnum wraps, which it
\* does with Start() = 0, there is no file at all.
IdWalk ==
  kind = "id" /\ result = "looking" => \A n \in files \cap (Start .. End) : n <= artnum

\* XOVER has opened the numbers from Lo up to artnum, and answered with those
\* that still have a file.
XoverWalk ==
  kind = "xover" =>
    /\ result = "begun" => tried = {}
    /\ result # "begun" =>
         /\ until = Hi /\ artnum \in Lo .. Hi + 1
         /\ tried = Lo .. artnum - 1
         /\ files \cap tried \subseteq sent
    /\ result = "listed" => artnum = Hi + 1

WalkInv == TypeOK /\ Setting /\ IdWalk /\ XoverWalk /\ LookupRight

\* The range that XOVER walks lies within the group's and is never empty; of a
\* damaged group it is its last number.
LEMMA ClampBounds ==
  ASSUME TypeOK, End \in Ends
  PROVE  /\ Lo \in Ulong /\ Hi \in Ulong /\ Lo <= Hi /\ Hi <= End
         /\ Start <= End => Start <= Lo
         /\ End < Start => Lo = End
<1>1. Parsed[1] \in Nat /\ Parsed[2] \in Nat
  <2>1. Start \in Nat /\ End \in Nat /\ first \in Nat /\ last \in Nat
    BY DEF TypeOK, Ulong
  <2>2. CASE form = "n-m"
    BY <2>1, <2>2 DEF Parsed
  <2>3. CASE form \in {"n", "n-"}
    BY <2>1, <2>3 DEF Parsed
  <2>4. CASE form = ""
    BY <2>1, <2>4 DEF Parsed
  <2>5. CASE form = "junk"
    BY <2>1, <2>5 DEF Parsed
  <2> QED
    BY <2>2, <2>3, <2>4, <2>5 DEF TypeOK, Forms
<1> DEFINE s == Parsed[1]
           e == Parsed[2]
           in(n) == Lower(Higher(n, Start), End)
<1>2. Lo = Lower(in(s), in(e)) /\ Hi = in(e)
  BY DEF Lo, Hi, Clamp
<1>3. Start \in Nat /\ End \in Nat /\ MaxUlong \in Nat /\ End < MaxUlong
  BY MaxUlongAssumption DEF TypeOK, Ulong, Ends
<1> HIDE DEF s, e
<1>4. \A n \in Nat : /\ in(n) \in Nat /\ in(n) <= End
                     /\ Start <= End => Start <= in(n)
                     /\ End < Start => in(n) = End
  BY <1>3 DEF Lower, Higher
<1>5. s \in Nat /\ e \in Nat
  BY <1>1 DEF s, e
<1> HIDE DEF in
<1> QED
  BY <1>2, <1>3, <1>4, <1>5 DEF Lower, Ulong

\* The initial states begin a walk.
LEMMA WalkInit == Init => WalkInv
<1> SUFFICES ASSUME Init PROVE WalkInv
  OBVIOUS
<1> USE MaxUlongAssumption
<1>1. files \subseteq 1 .. End /\ seen = files
  BY DEF Init
<1>2. TypeOK
  <2>1. End \in Ends
    BY Zenon DEF Init
  <2>2. /\ Start \in Ulong
        /\ (form = "" /\ first = 0 /\ last = 0) \/ (form \in Forms /\ first \in Ulong /\ last \in Ulong)
        /\ kind \in {"id", "xover"}
    BY Zenon DEF Init
  <2>3. artnum = 0 /\ until = 0 /\ result = "begun" /\ tried = {} /\ sent = {}
    BY Zenon DEF Init
  <2> QED
    <3>1. End \in Ulong /\ files \subseteq Ulong /\ seen \subseteq Ulong /\ 0 \in Ulong
      BY <1>1, <2>1 DEF Ulong, Ends
    <3>2. form \in Forms /\ first \in Ulong /\ last \in Ulong
      BY <2>2, <3>1 DEF Forms
    <3> QED
      BY <2>2, <2>3, <3>1, <3>2 DEF TypeOK
<1>3. Setting
  BY <1>1 DEF Init, Setting
<1>4. IdWalk /\ XoverWalk /\ LookupRight
  BY DEF Init, IdWalk, XoverWalk, LookupRight
<1> QED
  BY <1>2, <1>3, <1>4 DEF WalkInv

\* What XOVER walks over is fixed by what the client asked and the group's range.
LEMMA RangeFixed == UNCHANGED query => Lo' = Lo /\ Hi' = Hi
BY DEF query, Lo, Hi, Clamp, Parsed, Lower, Higher

\* A step of a lookup keeps the invariant.
LEMMA WalkId ==
  ASSUME WalkInv, IdBegin \/ Hit \/ Miss \/ GiveUp
  PROVE  WalkInv'
<1> USE MaxUlongAssumption
<1>1. CASE IdBegin
  <2>1. TypeOK' /\ Setting'
    BY <1>1 DEF WalkInv, TypeOK, Setting, IdBegin, query
  <2>2. IdWalk' /\ XoverWalk' /\ LookupRight'
    BY <1>1 DEF WalkInv, TypeOK, Ulong, IdBegin, query, IdWalk, XoverWalk, LookupRight
  <2> QED
    BY <2>1, <2>2 DEF WalkInv
<1>2. CASE Hit
  <2>1. TypeOK' /\ Setting'
    BY <1>2 DEF WalkInv, TypeOK, Setting, Hit, query
  <2>2. artnum \in seen /\ Start <= artnum /\ artnum <= End
    BY <1>2 DEF WalkInv, TypeOK, Setting, Ulong, Hit, More
  <2>3. IdWalk' /\ XoverWalk' /\ LookupRight'
    BY <1>2, <2>2 DEF WalkInv, TypeOK, Ulong, Hit, query, IdWalk, XoverWalk, LookupRight
  <2> QED
    BY <2>1, <2>3 DEF WalkInv
<1>3. CASE Miss
  <2>1. TypeOK' /\ Setting'
    BY <1>3 DEF WalkInv, TypeOK, Setting, Miss, query, Ulong
  <2>2. CASE artnum = 0
    <3>1. files = {}
      BY <1>3, <2>2 DEF WalkInv, TypeOK, Setting, Miss, More, Ulong
    <3> QED
      BY <1>3, <2>1, <3>1 DEF WalkInv, Miss, query, IdWalk, XoverWalk, LookupRight
  <2>3. CASE artnum # 0
    <3>1. \A n \in files \cap (Start .. End) : n <= artnum - 1
      BY <1>3, <2>3 DEF WalkInv, TypeOK, Ulong, IdWalk, Miss
    <3> QED
      BY <1>3, <2>1, <2>3, <3>1 DEF WalkInv, Miss, query, IdWalk, XoverWalk, LookupRight
  <2> QED
    BY <2>2, <2>3
<1>4. CASE GiveUp
  <2>1. TypeOK' /\ Setting'
    BY <1>4 DEF WalkInv, TypeOK, Setting, GiveUp, query
  <2>2. files \cap (Start .. End) = {}
    BY <1>4 DEF WalkInv, TypeOK, Ulong, IdWalk, GiveUp, More
  <2>3. IdWalk' /\ XoverWalk' /\ LookupRight'
    BY <1>4, <2>2 DEF WalkInv, GiveUp, query, IdWalk, XoverWalk, LookupRight
  <2> QED
    BY <2>1, <2>3 DEF WalkInv
<1> QED
  BY <1>1, <1>2, <1>3, <1>4

\* So does a step of XOVER.
LEMMA WalkXover ==
  ASSUME WalkInv, XoverBegin \/ XoverLine \/ XoverEnd
  PROVE  WalkInv'
<1> USE MaxUlongAssumption
<1>1. /\ Lo \in Ulong /\ Hi \in Ulong /\ Lo <= Hi /\ Hi <= End
      /\ End < MaxUlong /\ End \in Nat
  BY ClampBounds DEF WalkInv, Setting, Ends
<1>2. Lo' = Lo /\ Hi' = Hi
  BY RangeFixed DEF XoverBegin, XoverLine, XoverEnd
<1>3. CASE XoverBegin
  <2>1. artnum' = Lo /\ until' = Hi /\ result' = "looking" /\ kind = "xover"
    BY <1>3 DEF XoverBegin, Lo, Hi
  <2>2. UNCHANGED <<query, files, tried, sent>> /\ tried = {}
    BY <1>3 DEF XoverBegin, WalkInv, XoverWalk
  <2>3. TypeOK' /\ Setting'
    BY <1>1, <2>1, <2>2 DEF WalkInv, TypeOK, Setting, query
  <2>4. XoverWalk'
    BY <1>1, <1>2, <2>1, <2>2 DEF XoverWalk, query, Ulong
  <2>5. IdWalk' /\ LookupRight'
    BY <2>1, <2>2 DEF IdWalk, LookupRight, query
  <2> QED
    BY <2>3, <2>4, <2>5 DEF WalkInv
<1>4. CASE XoverLine
  <2>1. /\ kind = "xover" /\ result = "looking" /\ result' = result
        /\ UNCHANGED <<query, files, until>>
    BY <1>4 DEF XoverLine
  <2>2. until = Hi /\ artnum \in Lo .. Hi /\ tried = Lo .. artnum - 1 /\ files \cap tried \subseteq sent
    BY <1>1, <1>4 DEF XoverLine, WalkInv, XoverWalk, TypeOK, Ulong
  <2>3. artnum' = artnum + 1 /\ artnum' \in Ulong
    BY <1>1, <1>4, <2>2 DEF XoverLine, Ulong
  <2>4. tried' = Lo .. artnum' - 1 /\ files' \cap tried' \subseteq sent'
    BY <1>1, <1>4, <2>1, <2>2, <2>3 DEF XoverLine, Ulong
  <2>5. TypeOK' /\ Setting'
    <3>1. tried' \subseteq Ulong /\ sent' \subseteq Ulong
      BY <1>4, <2>2 DEF XoverLine, WalkInv, TypeOK
    <3> QED
      BY <2>1, <2>3, <3>1 DEF WalkInv, TypeOK, Setting, query
  <2>6. XoverWalk'
    BY <1>1, <1>2, <2>1, <2>2, <2>3, <2>4 DEF XoverWalk, Ulong
  <2>7. IdWalk' /\ LookupRight'
    BY <2>1 DEF IdWalk, LookupRight, query
  <2> QED
    BY <2>5, <2>6, <2>7 DEF WalkInv
<1>5. CASE XoverEnd
  <2>1. TypeOK' /\ Setting'
    BY <1>5 DEF XoverEnd, WalkInv, TypeOK, Setting, query
  <2>2. XoverWalk'
    BY <1>1, <1>2, <1>5 DEF XoverEnd, WalkInv, TypeOK, XoverWalk, query, Ulong
  <2>3. IdWalk' /\ LookupRight'
    BY <1>5 DEF XoverEnd, IdWalk, LookupRight, query
  <2> QED
    BY <2>1, <2>2, <2>3 DEF WalkInv
<1> QED
  BY <1>3, <1>4, <1>5

\* And so does the removal of a file.
LEMMA WalkRemove == ASSUME WalkInv, Remove PROVE WalkInv'
<1>1. files' \subseteq files /\ UNCHANGED <<query, artnum, result, until, tried, sent>>
  BY DEF Remove
<1>2. Lo' = Lo /\ Hi' = Hi
  BY <1>1, RangeFixed
<1>3. result \in {"begun", "looking"}
  BY DEF Remove
<1>4. TypeOK' /\ Setting'
  BY <1>1 DEF WalkInv, TypeOK, Setting, query
<1>5. IdWalk' /\ LookupRight'
  BY <1>1, <1>3 DEF WalkInv, IdWalk, LookupRight, query
<1>6. XoverWalk'
  BY <1>1, <1>2 DEF WalkInv, XoverWalk, query
<1> QED
  BY <1>4, <1>5, <1>6 DEF WalkInv

LEMMA WalkStutter == WalkInv /\ UNCHANGED vars => WalkInv'
<1> SUFFICES ASSUME WalkInv, UNCHANGED vars PROVE WalkInv'
  OBVIOUS
<1>1. Lo' = Lo /\ Hi' = Hi
  BY RangeFixed DEF vars, query
<1>2. TypeOK' /\ Setting'
  BY DEF WalkInv, vars, TypeOK, Setting
<1>3. IdWalk' /\ XoverWalk' /\ LookupRight'
  BY <1>1 DEF WalkInv, vars, IdWalk, XoverWalk, LookupRight
<1> QED
  BY <1>2, <1>3 DEF WalkInv

LEMMA WalkInvariant == Spec => []WalkInv
<1>1. WalkInv /\ [Next]_vars => WalkInv'
  BY WalkId, WalkXover, WalkRemove, WalkStutter DEF Next, Walk
<1> QED
  BY WalkInit, <1>1, PTL DEF Spec

-----------------------------------------------------------------------------
\* What was asked for and is in the group lies between Lo and Hi.
LEMMA WantedWalked ==
  ASSUME TypeOK, End \in Ends, Start <= End
  PROVE  Wanted \cap (Start .. End) \subseteq Lo .. Hi
<1> SUFFICES ASSUME NEW n \in Wanted \cap (Start .. End) PROVE n \in Lo .. Hi
  OBVIOUS
<1>1. n \in Nat /\ Start <= n /\ n <= End /\ Start \in Nat /\ End \in Nat
  BY DEF TypeOK, Ulong
<1>2. \E s, e \in Nat : /\ Lo = Clamp(s, e)[1] /\ Hi = Clamp(s, e)[2]
                        /\ s <= n /\ n <= e
  <2>1. CASE form = "n-m"
    BY <1>1, <2>1 DEF TypeOK, Ulong, Wanted, Parsed, Lo, Hi
  <2>2. CASE form \in {"n", "n-"}
    <3>1. Lo = Clamp(first, End)[1] /\ Hi = Clamp(first, End)[2]
      BY <2>2 DEF Parsed, Lo, Hi
    <3>2. first \in Nat
      BY DEF TypeOK, Ulong
    <3>3. CASE form = "n"
      BY <1>1, <3>1, <3>2, <3>3 DEF Wanted
    <3>4. CASE form = "n-"
      <4>1. first <= n
        BY <3>4 DEF Wanted
      <4> QED
        BY <1>1, <3>1, <3>2, <4>1
    <3> QED
      BY <2>2, <3>3, <3>4
  <2>3. CASE form = ""
    BY <1>1, <2>3 DEF TypeOK, Ulong, Wanted, Parsed, Lo, Hi
  <2>4. form # "junk"
    BY DEF Wanted
  <2> QED
    BY <2>1, <2>2, <2>3, <2>4 DEF TypeOK, Forms
<1> QED
  BY <1>1, <1>2 DEF Clamp, Lower, Higher

\* The range that the argument is taken for is walked over exactly, or misses
\* the group.
LEMMA ExactOrOne ==
  ASSUME TypeOK, End \in Ends, Start <= End
  PROVE  Lo .. Hi \subseteq Taken \/ (Taken \cap (Start .. End) = {} /\ Lo = Hi)
<1> DEFINE Exact == Lo .. Hi \subseteq Taken \/ (Taken \cap (Start .. End) = {} /\ Lo = Hi)
<1>1. /\ first \in Nat /\ last \in Nat /\ Start \in Nat /\ End \in Nat
      /\ MaxUlong \in Nat /\ End <= MaxUlong
  BY MaxUlongAssumption DEF TypeOK, Ulong
<1>2. CASE form = "n-m"
  <2>1. Taken = first .. last /\ Lo = Clamp(first, last)[1] /\ Hi = Clamp(first, last)[2]
    BY <1>2 DEF Taken, Wanted, Parsed, Lo, Hi
  <2> QED
    BY <1>1, <2>1 DEF Clamp, Lower, Higher
<1>3. CASE form \in {"n", "n-"}
  <2>1. /\ Taken = {n \in Ulong : first <= n}
        /\ Lo = Clamp(first, End)[1] /\ Hi = Clamp(first, End)[2]
    BY <1>3 DEF Taken, Wanted, Parsed, Lo, Hi
  <2> QED
    BY <1>1, <2>1 DEF Clamp, Lower, Higher, Ulong
<1>4. CASE form = ""
  <2>1. Taken = Ulong
    BY <1>4 DEF Taken, Wanted
  <2>2. Lo \in Nat /\ Hi \in Nat /\ Hi <= End
    BY ClampBounds DEF Ulong
  <2> QED
    BY <1>1, <2>1, <2>2 DEF Ulong
<1>5. CASE form = "junk"
  <2>1. Taken = {} /\ Lo = Clamp(Start, Start)[1] /\ Hi = Clamp(Start, Start)[2]
    BY <1>5 DEF Taken, Wanted, Parsed, Lo, Hi
  <2> QED
    BY <1>1, <2>1 DEF Clamp, Lower, Higher
<1> QED
  BY <1>2, <1>3, <1>4, <1>5 DEF TypeOK, Forms

LEMMA WalkLists == WalkInv => ListsTheRange
<1> SUFFICES ASSUME WalkInv PROVE ListsTheRange
  OBVIOUS
<1> USE MaxUlongAssumption
<1>1. TypeOK /\ End \in Ends /\ Start \in Nat /\ End \in Nat /\ artnum \in Nat
  BY DEF WalkInv, Setting, TypeOK, Ulong
<1>2. /\ Lo \in Nat /\ Hi \in Nat /\ Lo <= Hi /\ Hi <= End
      /\ Start <= End => Start <= Lo
      /\ End < Start => Lo = End
  BY <1>1, ClampBounds DEF Ulong
<1>3. End < Start => tried \subseteq {End}
  <2>1. CASE tried = {}
    BY <2>1
  <2>2. CASE tried # {}
    <3>1. kind = "xover" /\ result # "begun"
      BY <2>2 DEF WalkInv, XoverWalk, Setting, TypeOK
    <3>2. tried = Lo .. artnum - 1 /\ artnum \in Lo .. Hi + 1
      BY <3>1 DEF WalkInv, XoverWalk
    <3> QED
      BY <1>1, <1>2, <3>2
  <2> QED
    BY <2>1, <2>2
<1>4. ASSUME result = "listed", Start <= End
      PROVE  /\ files \cap Wanted \cap (Start .. End) \subseteq sent
             /\ tried \subseteq Start .. End
             /\ tried \subseteq Taken
                  \/ (Taken \cap (Start .. End) = {} /\ Cardinality(tried) = 1)
  <2>1. tried = Lo .. Hi /\ files \cap tried \subseteq sent
    BY <1>2, <1>4 DEF WalkInv, XoverWalk, Setting, TypeOK
  <2>2. files \cap Wanted \cap (Start .. End) \subseteq sent
    BY <1>1, <1>4, <2>1, WantedWalked
  <2>3. tried \subseteq Start .. End
    BY <1>1, <1>2, <1>4, <2>1
  <2>4. Lo = Hi => Cardinality(tried) = 1
    <3>1. Lo = Hi => tried = {Lo}
      BY <1>2, <2>1
    <3> QED
      BY <3>1, FS_Singleton
  <2>5. tried \subseteq Taken \/ (Taken \cap (Start .. End) = {} /\ Cardinality(tried) = 1)
    BY <1>1, <1>4, <2>1, <2>4, ExactOrOne
  <2> QED
    BY <2>2, <2>3, <2>5
<1> QED
  BY <1>3, <1>4 DEF ListsTheRange

-----------------------------------------------------------------------------
\* Every variable keeps its type.
LEMMA WalkTypes == WalkInv => TypeOK
BY DEF WalkInv

\* XOVER's loop variable never wraps to 0, as End() is not the largest number:
\* each step opens the number after the one before.
THEOREM XoverNeverWraps == Spec => [][XoverLine => artnum' = artnum + 1]_vars
<1>1. WalkInv /\ [Next]_vars => [XoverLine => artnum' = artnum + 1]_vars
  <2> SUFFICES ASSUME WalkInv, XoverLine PROVE artnum' = artnum + 1
    OBVIOUS
  <2>1. until = Hi
    BY DEF WalkInv, XoverWalk, XoverLine
  <2>2. Hi <= End /\ End < MaxUlong /\ End \in Nat /\ Hi \in Nat
    BY ClampBounds, MaxUlongAssumption DEF WalkInv, Setting, Ends, Ulong
  <2>3. artnum \in Nat /\ artnum <= until
    BY DEF XoverLine, WalkInv, TypeOK, Ulong
  <2> QED
    BY <2>1, <2>2, <2>3, MaxUlongAssumption DEF XoverLine
<1> QED
  BY WalkInvariant, <1>1, PTL DEF Spec

\* FindArticleByMessageID finds the latest of the matching articles that stay,
\* and misses none, for every range of a group and whatever is removed.
THEOREM LookupCorrect == Spec => []LookupRight
<1>1. WalkInv => LookupRight
  BY DEF WalkInv
<1> QED
  BY WalkInvariant, <1>1, PTL

\* XOVER lists what it was asked for, and no more than what it takes its
\* argument for, for every argument and range.
THEOREM XoverListsTheRange == Spec => []ListsTheRange
BY WalkInvariant, WalkLists, PTL
=============================================================================
