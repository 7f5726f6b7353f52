------------------------------- MODULE RangeWalk -------------------------------
(***************************************************************************)
(* The two commands that walk over the article numbers of the session's    *)
(* group, one file per step, while files are removed:                      *)
(*                                                                         *)
(*   "id"     Group::FindArticleByMessageID, from End() down to Start()    *)
(*   "xover"  XOVER (Server.C), over the range that its argument gives,    *)
(*            parsed by two calls of sscanf and clamped to the group's     *)
(*                                                                         *)
(* Numbers are unsigned and wrap (ulong in the code).  Files that          *)
(* are added meanwhile lie beyond the copy of End() that the session has.  *)
(***************************************************************************)
EXTENDS Integers, FiniteSets

CONSTANT
  MaxUlong     \* the largest number (ULONG_MAX)

Ulong == 0 .. MaxUlong
\* Bound: End() is never the largest number there is.
Ends == 0 .. MaxUlong - 1

ASSUME MaxUlongAssumption == MaxUlong \in Nat \ {0}

VARIABLES
  Start, End,  \* of the session's Group
  kind,        \* "id" or "xover"
  form,        \* of XOVER's argument: "", "n", "n-", "n-m", or other text
  first, last, \* ... and its n and m
  files,       \* the files that have the id asked for, or an overview
  artnum,      \* the loop variable (XOVER: t)
  result,      \* "begun", "looking", then "found", "missing" or "listed"
  until,       \* earticle
  seen,        \* history: the files there were at first
  tried, sent  \* history: the numbers XOVER opened, and those it answered with

query == <<Start, End, kind, form, first, last, seen>>
vars == <<Start, End, kind, form, first, last, files, artnum, result, until,
          seen, tried, sent>>

Forms == {"", "n", "n-", "n-m", "junk"}

\* Every variable keeps its type: numbers stay within an ulong.
TypeOK ==
  /\ Start \in Ulong /\ End \in Ulong /\ artnum \in Ulong /\ until \in Ulong
  /\ kind \in {"id", "xover"} /\ form \in Forms
  /\ first \in Ulong /\ last \in Ulong
  /\ files \subseteq Ulong /\ seen \subseteq Ulong
  /\ tried \subseteq Ulong /\ sent \subseteq Ulong
  /\ result \in {"begun", "looking", "found", "missing", "listed"}

\* Two articles may have the same Message-ID; a single file shows whether
\* XOVER answers with it.  A group that was never posted to has Start() = End()
\* = 0 and no files; End() < Start() only when .info was damaged.
Init ==
  /\ End \in Ends
  /\ \/ /\ kind = "id" /\ Start \in Ulong
        /\ form = "" /\ first = 0 /\ last = 0
        /\ files \in {S \in SUBSET (1 .. End) : Cardinality(S) <= 2}
     \/ /\ kind = "xover" /\ Start \in Ulong
        /\ form \in Forms /\ first \in Ulong /\ last \in Ulong
        /\ form \notin {"n", "n-", "n-m"} => first = 0
        /\ form # "n-m" => last = 0
        /\ files \in {{}} \cup {{n} : n \in 1 .. End}
  /\ Start = 0 => End = 0
  /\ seen = files
  /\ artnum = 0 /\ until = 0 /\ result = "begun" /\ tried = {} /\ sent = {}

-----------------------------------------------------------------------------
\* FindArticleByMessageID.

IdBegin ==
  /\ kind = "id" /\ result = "begun"
  /\ artnum' = End /\ result' = "looking"
  /\ UNCHANGED <<query, files, until, tried, sent>>

MoreAbove == artnum > Start              \* faulty: the first article is left out
MoreUnsigned == artnum >= 0              \* faulty: always true
More == artnum >= Start

\* GetMessageID finds the id in the file.
Hit ==
  /\ kind = "id" /\ result = "looking" /\ More
  /\ artnum \in files
  /\ result' = "found"
  /\ UNCHANGED <<query, files, artnum, until, tried, sent>>

\* Faulty: the loop variable is decremented twice.
MissTwo ==
  /\ kind = "id" /\ result = "looking" /\ More
  /\ artnum \notin files
  /\ artnum' = artnum - 2
  /\ UNCHANGED <<query, files, result, until, tried, sent>>

\* No such file, or another id: artnum--.
Miss ==
  /\ kind = "id" /\ result = "looking" /\ More
  /\ artnum \notin files
  /\ artnum' = IF artnum = 0 THEN MaxUlong ELSE artnum - 1
  /\ UNCHANGED <<query, files, result, until, tried, sent>>

GiveUp ==
  /\ kind = "id" /\ result = "looking" /\ ~More
  /\ result' = "missing"
  /\ UNCHANGED <<query, files, artnum, until, tried, sent>>

-----------------------------------------------------------------------------
\* XOVER.

\* sscanf("%lu-%lu") == 2, else sscanf("%lu-") == 1, which is so without a "-"
\* as well; else both are whatever sarticle was.
Parsed ==
  CASE form = "n-m"          -> <<first, last>>
    [] form \in {"n", "n-"}  -> <<first, End>>
    [] form = ""             -> <<Start, End>>
    [] form = "junk"         -> <<Start, Start>>

Lower(a, b) == IF a < b THEN a ELSE b
Higher(a, b) == IF a < b THEN b ELSE a

\* Faulty: the lower bound is not applied.
ClampNoLow(s, e) == <<Lower(Lower(s, End), Lower(e, End)), Lower(e, End)>>

\* SANITIZE ARTICLE NUMBERS: first up to Start(), then down to End().
Clamp(s, e) ==
  LET inside(n) == Lower(Higher(n, Start), End)
  IN  <<Lower(inside(s), inside(e)), inside(e)>>

XoverBegin ==
  /\ kind = "xover" /\ result = "begun"
  /\ LET range == Clamp(Parsed[1], Parsed[2]) IN
       artnum' = range[1] /\ until' = range[2]
  /\ result' = "looking"
  /\ UNCHANGED <<query, files, tried, sent>>

\* A file that is not there, or that Load refuses, is passed over.
XoverLine ==
  /\ kind = "xover" /\ result = "looking"
  /\ artnum <= until
  /\ tried' = tried \cup {artnum}
  /\ sent' = sent \cup ({artnum} \cap files)
  /\ artnum' = IF artnum = MaxUlong THEN 0 ELSE artnum + 1
  /\ UNCHANGED <<query, files, result, until>>

XoverEnd ==
  /\ kind = "xover" /\ result = "looking"
  /\ artnum > until
  /\ result' = "listed"
  /\ UNCHANGED <<query, files, artnum, until, tried, sent>>

-----------------------------------------------------------------------------
Remove ==
  /\ result \in {"begun", "looking"}
  /\ \E n \in files : files' = files \ {n}
  /\ UNCHANGED <<query, artnum, result, until, tried, sent>>

Walk == IdBegin \/ Hit \/ Miss \/ GiveUp \/ XoverBegin \/ XoverLine \/ XoverEnd
Next == Walk \/ Remove
Spec == Init /\ [][Next]_vars /\ WF_vars(Walk)

-----------------------------------------------------------------------------
(* Properties.                                                             *)

\* The article found is the most recent of those that match and were not
\* removed before the walk came to them, and is in the client's range; "not
\* found" is said only when no file in that range matches any more.
LookupRight ==
  LET inrange == Start .. End IN
  /\ result = "found" =>
       artnum \in seen \cap inrange /\ \A n \in files \cap inrange : n <= artnum
  /\ result = "missing" => files \cap inrange = {}

\* The numbers that XOVER's argument asks for.
Wanted ==
  CASE form = "n-m"  -> first .. last
    [] form = "n"    -> {first}
    [] form = "n-"   -> {n \in Ulong : first <= n}
    [] form = ""     -> Ulong
    [] form = "junk" -> {}

\* ... and those it takes the argument for: n as well as n- (Server.C, the
\* second sscanf).
Taken == IF form = "n" THEN {n \in Ulong : first <= n} ELSE Wanted

\* XOVER leaves out no article that was asked for and is there all the time,
\* opens none outside the group's range, and none outside what it takes its
\* argument for but a single one when that misses the group.  XOVER n lists from
\* n up to End().  With a damaged .info (End() < Start()) it opens one file at
\* most, and does not run over the numbers in between.
ListsTheRange ==
  /\ End < Start => tried \subseteq {End}
  /\ result = "listed" /\ Start <= End =>
       /\ files \cap Wanted \cap (Start .. End) \subseteq sent
       /\ tried \subseteq Start .. End
       /\ tried \subseteq Taken \/ (Taken \cap (Start .. End) = {} /\ Cardinality(tried) = 1)

\* XOVER returns, and a lookup in a group that was posted to, whatever is removed
\* meanwhile, with the largest number next to the range or not.  Of a lookup
\* with Start() = 0 nothing is said: every number is >= 0, and the -1 that
\* Group.C:455 gives for a failure does not come.
WalkReturns ==
  kind = "xover" \/ Start > 0 => <>(result \in {"found", "missing", "listed"})
=============================================================================
