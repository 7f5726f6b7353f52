--------------------------- MODULE GroupSpoolProofs ---------------------------
(***************************************************************************)
(* Proofs about GroupSpool, for every set of sessions and articles: types; *)
(* that every acknowledged article stays; what the spool announces (the    *)
(* lock excludes, .info covers the articles, numbers are not reused, spam  *)
(* stays out); and that GroupSpool implements ArticleStore, as every step  *)
(* of the spool is a step of the store or none.                            *)
(***************************************************************************)
EXTENDS GroupSpool, FiniteSetTheorems, WellFoundedInduction, TLAPS

\* The points of Post from which on `cand' is an article number, and those from
\* which on the file exists.
Numbered == {"post_open", "post_write", "post_save", "post_flush",
             "post_unlock", "post_reply"}
Filed == Numbered \ {"post_open"}

\* A process inside Post has an article, and its candidate is a number.
Posting ==
  \A p \in Session :
    /\ pc[p] \in PostPC => msg[p] \in Msg
    /\ pc[p] \in Numbered => cand[p] # 0

TypeInv == TypeOK /\ Posting

-----------------------------------------------------------------------------
(* Lemmas about the operators.                                             *)

\* What fopen(".info", "w") leaves is a file of no lines.
LEMMA EmptyType == DOMAIN Empty \subseteq Field /\ Empty \in [DOMAIN Empty -> Nat]
BY DEF Empty

\* Group's constructor, LoadInfo's parse, the counters after Post and the
\* counters that BuildInfo finds are all counters.
LEMMA ZeroType == Zero \in Counters
BY DEF Zero, Counters

LEMMA ParsedType ==
  ASSUME NEW old \in Counters, DOMAIN info \subseteq Field, info \in [DOMAIN info -> Nat]
  PROVE  Parsed(old) \in Counters
BY DEF Parsed, Counters

LEMMA CountedType ==
  ASSUME NEW c \in Counters, NEW n \in Nat
  PROVE  Counted(c, n) \in Counters
BY DEF Counted, Counters, Field

\* What ScanAndTruncate leaves behind is well typed.
LEMMA ScanType ==
  ASSUME TypeOK, NEW p \in Session, ScanAndTruncate(p)
  PROVE  /\ obj' \in [Session -> Counters]
         /\ DOMAIN info' \subseteq Field /\ info' \in [DOMAIN info' -> Nat]
         /\ hasInfo' \in BOOLEAN
<1>1. PICK lo \in Bounds, hi \in Bounds :
        Set(p, [f \in Field |-> CASE f = "start" -> lo
                                  [] f = "end"   -> hi
                                  [] f = "total" -> Cardinality(DOMAIN article)])
  BY DEF ScanAndTruncate
<1>2. lo \in Nat /\ hi \in Nat
  BY DEF TypeOK, Bounds
<1>3. Cardinality(DOMAIN article) \in Nat
  BY FS_CardinalityType DEF TypeOK
<1>4. [f \in Field |-> CASE f = "start" -> lo
                         [] f = "end"   -> hi
                         [] f = "total" -> Cardinality(DOMAIN article)] \in Counters
  BY <1>2, <1>3 DEF Counters, Field
<1>5. obj' \in [Session -> Counters]
  BY <1>1, <1>4 DEF Set, TypeOK
<1>6. info' = Empty /\ hasInfo' = TRUE
  BY DEF ScanAndTruncate
<1> QED
  BY <1>5, <1>6 DEF Empty

\* SaveInfo writes an object's counters, or nothing.
LEMMA SaveType ==
  ASSUME TypeOK, NEW p \in Session, FinishSave(p)
  PROVE  /\ DOMAIN info' \subseteq Field /\ info' \in [DOMAIN info' -> Nat]
         /\ UNCHANGED <<article, hasInfo>>
<1>1. CASE info' = obj[p]
  <2>1. obj[p] \in [Field -> Nat]
    BY DEF TypeOK, Counters
  <2> QED
    BY <1>1, <2>1 DEF FinishSave
<1>2. CASE info' = Empty
  BY <1>2, EmptyType DEF FinishSave
<1> QED
  BY <1>1, <1>2 DEF FinishSave

\* flock changes the holders of the lock by this process only.
LEMMA UnlockType ==
  ASSUME TypeOK, NEW p \in Session, Unlock(p)
  PROVE  exlock' \subseteq Session /\ shlock' \subseteq Session
BY DEF Unlock, TypeOK

\* A process that returns from an operation is idle, with its locals reset.
LEMMA ReturnType ==
  ASSUME TypeInv, NEW p \in Session, Return(p)
  PROVE  /\ pc' \in [Session -> {"idle"} \cup PostPC \cup LoadPC]
         /\ obj' \in [Session -> Counters]
         /\ cand' \in [Session -> Nat]
         /\ msg' \in [Session -> Msg \cup {NoMsg}]
         /\ known' \in [Session -> SUBSET Msg]
         /\ making' \subseteq Session
         /\ Posting'
         /\ \A q \in Session \ {p} : pc'[q] = pc[q] /\ cand'[q] = cand[q] /\ msg'[q] = msg[q]
         /\ pc'[p] = "idle"
<1> USE DEF TypeInv, TypeOK, Return
<1>1. /\ pc' \in [Session -> {"idle"} \cup PostPC \cup LoadPC]
      /\ cand' \in [Session -> Nat]
      /\ msg' \in [Session -> Msg \cup {NoMsg}]
      /\ known' \in [Session -> SUBSET Msg]
      /\ making' \subseteq Session
  OBVIOUS
<1>2. obj' \in [Session -> Counters]
  BY ZeroType
<1>3. \A q \in Session \ {p} : pc'[q] = pc[q] /\ cand'[q] = cand[q] /\ msg'[q] = msg[q]
  OBVIOUS
<1>4. pc'[p] = "idle"
  OBVIOUS
<1>5. Posting'
  BY <1>3, <1>4 DEF Posting, PostPC, Numbered
<1> QED
  BY <1>1, <1>2, <1>3, <1>4, <1>5
-----------------------------------------------------------------------------
(* Type correctness.                                                       *)

\* The lock's holders, the files and the history, as far as a step that moves
\* one process along leaves them alone.
LEMMA GoType ==
  ASSUME TypeInv, NEW p \in Session, NEW from, NEW to \in {"idle"} \cup PostPC \cup LoadPC,
         Go(p, from, to), UNCHANGED <<msg, cand>>,
         to \in PostPC => from \in PostPC,
         to \in Numbered => from \in Numbered
  PROVE  pc' \in [Session -> {"idle"} \cup PostPC \cup LoadPC] /\ Posting'
BY DEF TypeInv, TypeOK, Posting, Go

\* The initial state is well typed.
LEMMA TypeInit == Init => TypeInv
<1> SUFFICES ASSUME Init PROVE TypeInv
  OBVIOUS
<1>1. DOMAIN article = {} /\ IsFiniteSet(DOMAIN article)
  BY FS_EmptySet DEF Init
<1>2. DOMAIN info \subseteq Field /\ info \in [DOMAIN info -> Nat]
  BY EmptyType, ZeroType DEF Init, Counters
<1>3. Posting
  BY DEF Init, Posting, PostPC, Numbered
<1> QED
  BY <1>1, <1>2, <1>3, ZeroType, InfoAtStartAssumption
  DEF Init, TypeInv, TypeOK, PostPC, LoadPC, Stages, ArticleFile, FilterState, Verdicts

\* The steps of Post keep the types.
LEMMA PostTypes ==
  ASSUME TypeInv, NEW p \in Session,
         \/ \E m \in Msg : BeginPost(p, m)
         \/ PostLock(p) \/ PostLoad(p) \/ PostBuild(p) \/ PostBuilt(p)
         \/ PostFilter(p) \/ PostClose(p) \/ Sigcld(p) \/ FilterEnds(p) \/ PostReject(p)
         \/ PostRefuse(p) \/ PostAccept(p) \/ PostSkip(p) \/ PostCreate(p)
         \/ PostWrite(p) \/ PostSave(p) \/ PostSaveFails(p) \/ PostFlush(p)
         \/ PostUnlock(p) \/ PostReply(p)
  PROVE  TypeInv'
<1> USE DEF disk, locks, own, history, spam
<1> DEFINE PCs == {"idle"} \cup PostPC \cup LoadPC
<1>1. ASSUME NEW m \in Msg, BeginPost(p, m) PROVE TypeInv'
  BY <1>1 DEF BeginPost, Go, Mark, TypeInv, TypeOK, Posting, PostPC, Numbered, Stages
<1>2. CASE PostLock(p)
  <2>1. exlock' \subseteq Session /\ shlock' \subseteq Session
    BY <1>2 DEF PostLock, LockEx, TypeInv, TypeOK
  <2>2. pc' \in [Session -> PCs] /\ Posting'
    BY <1>2, GoType DEF PostLock, PostPC, Numbered
  <2> QED
    BY <1>2, <2>1, <2>2 DEF PostLock, TypeInv, TypeOK
<1>3. CASE PostLoad(p)
  <2>1. obj' \in [Session -> Counters]
    BY <1>3, ParsedType DEF PostLoad, Set, TypeInv, TypeOK
  <2>2. pc' \in [Session -> PCs] /\ Posting'
    BY <1>3, GoType DEF PostLoad, PostPC, Numbered
  <2> QED
    BY <1>3, <2>1, <2>2 DEF PostLoad, TypeInv, TypeOK
<1>4. CASE PostBuild(p)
  <2>1. pc' \in [Session -> PCs] /\ Posting'
    BY <1>4, GoType DEF PostBuild, PostPC, Numbered
  <2> QED
    BY <1>4, <2>1, ScanType DEF PostBuild, TypeInv, TypeOK
<1>5. CASE PostBuilt(p)
  <2>1. pc' \in [Session -> PCs] /\ Posting'
    BY <1>5, GoType DEF PostBuilt, PostPC, Numbered
  <2> QED
    BY <1>5, <2>1, SaveType DEF PostBuilt, TypeInv, TypeOK
<1>6. CASE PostRefuse(p)
  BY <1>6, UnlockType, ReturnType DEF PostRefuse, Mark, TypeInv, TypeOK, Stages
<1>7. CASE PostAccept(p)
  <2>1. obj[p]["end"] + 1 \in Nat \ {0}
    BY DEF TypeInv, TypeOK, Counters, Field
  <2>2. cand' \in [Session -> Nat] /\ cand'[p] # 0
    BY <1>7, <2>1 DEF PostAccept, TypeInv, TypeOK
  <2>3. pc[p] \in PostPC
    BY <1>7 DEF PostAccept, Passed, PostPC
  <2>4. pc' \in [Session -> PCs] /\ Posting'
    BY <1>7, <2>2, <2>3 DEF PostAccept, TypeInv, TypeOK, Posting, PostPC
  <2>5. filter' \in [Session -> FilterState]
    BY <1>7 DEF PostAccept, TypeInv, TypeOK, FilterState
  <2> QED
    BY <1>7, <2>2, <2>4, <2>5 DEF PostAccept, TypeInv, TypeOK
<1>8. CASE PostSkip(p)
  BY <1>8 DEF PostSkip, TypeInv, TypeOK, Posting, PostPC, Numbered
<1>9. CASE PostCreate(p)
  <2>1. cand[p] \in Nat \ {0} /\ msg[p] \in Msg
    BY <1>9 DEF PostCreate, Go, TypeInv, TypeOK, Posting, PostPC, Numbered
  <2>2. /\ DOMAIN article' \subseteq Nat \ {0} /\ IsFiniteSet(DOMAIN article')
        /\ article' \in [DOMAIN article' -> ArticleFile]
    <3>1. DOMAIN article' = DOMAIN article \cup {cand[p]}
      BY <1>9 DEF PostCreate
    <3>2. IsFiniteSet(DOMAIN article')
      <4>1. IsFiniteSet(DOMAIN article)
        BY DEF TypeInv, TypeOK
      <4> QED
        BY <3>1, <4>1, FS_AddElement
    <3>3. article' \in [DOMAIN article' -> ArticleFile]
      BY <1>9, <2>1 DEF PostCreate, TypeInv, TypeOK, ArticleFile
    <3> QED
      BY <2>1, <3>1, <3>2, <3>3 DEF TypeInv, TypeOK
  <2>3. pc' \in [Session -> PCs] /\ Posting'
    BY <1>9, GoType DEF PostCreate, PostPC, Numbered
  <2> QED
    BY <1>9, <2>1, <2>2, <2>3 DEF PostCreate, Mark, TypeInv, TypeOK, Stages
<1>10. CASE PostWrite(p)
  <2>1. pc' \in [Session -> PCs] /\ Posting'
    BY <1>10, GoType DEF PostWrite, PostPC, Numbered
  <2>2. /\ DOMAIN article' = DOMAIN article
        /\ article' \in [DOMAIN article -> ArticleFile]
    <3>1. article \in [DOMAIN article -> ArticleFile]
      BY DEF TypeInv, TypeOK
    <3>2. CASE article' = [article EXCEPT ![cand[p]].whole = TRUE]
      BY <3>1, <3>2 DEF ArticleFile
    <3>3. CASE UNCHANGED article
      BY <3>1, <3>3
    <3> QED
      BY <1>10, <3>2, <3>3 DEF PostWrite
  <2> QED
    BY <1>10, <2>1, <2>2 DEF PostWrite, TypeInv, TypeOK
<1>11. CASE PostSave(p)
  <2>1. pc' \in [Session -> PCs] /\ Posting'
    BY <1>11, GoType DEF PostSave, PostPC, Numbered
  <2>2. obj' \in [Session -> Counters]
    BY <1>11, CountedType DEF PostSave, Set, TypeInv, TypeOK
  <2> QED
    BY <1>11, <2>1, <2>2, EmptyType DEF PostSave, Mark, TypeInv, TypeOK, Stages
<1>12. CASE PostSaveFails(p)
  BY <1>12, UnlockType, ReturnType DEF PostSaveFails, Mark, TypeInv, TypeOK, Stages
<1>13. CASE PostFlush(p)
  <2>1. pc' \in [Session -> PCs] /\ Posting'
    BY <1>13, GoType DEF PostFlush, PostPC, Numbered
  <2> QED
    BY <1>13, <2>1, SaveType DEF PostFlush, TypeInv, TypeOK
<1>14. CASE PostUnlock(p)
  <2>1. pc' \in [Session -> PCs] /\ Posting'
    BY <1>14, GoType DEF PostUnlock, PostPC, Numbered
  <2> QED
    BY <1>14, <2>1, UnlockType DEF PostUnlock, TypeInv, TypeOK
<1>15. CASE PostReply(p)
  BY <1>15, ReturnType DEF PostReply, Mark, TypeInv, TypeOK, Stages
<1>16. CASE PostFilter(p)
  <2>1. pc' \in [Session -> PCs] /\ Posting'
    BY <1>16, GoType DEF PostFilter, PostPC, Numbered
  <2>2. filter' \in [Session -> FilterState]
    BY <1>16 DEF PostFilter, TypeInv, TypeOK, FilterState
  <2> QED
    BY <1>16, <2>1, <2>2 DEF PostFilter, TypeInv, TypeOK
<1>17. CASE PostClose(p)
  <2>1. pc' \in [Session -> PCs] /\ Posting'
    BY <1>17, GoType DEF PostClose, PostPC, Numbered
  <2> QED
    BY <1>17, <2>1 DEF PostClose, TypeInv, TypeOK
<1>18. CASE Sigcld(p)
  <2>1. filter' \in [Session -> FilterState]
    BY <1>18 DEF Sigcld, TypeInv, TypeOK, FilterState
  <2>2. Posting'
    BY <1>18 DEF Sigcld, TypeInv, Posting
  <2> QED
    BY <1>18, <2>1, <2>2 DEF Sigcld, TypeInv, TypeOK
<1>19. CASE FilterEnds(p)
  <2>1. filter' \in [Session -> FilterState]
    BY <1>19 DEF FilterEnds, TypeInv, TypeOK, FilterState
  <2>2. verdict' \in [Msg -> Verdicts]
    BY <1>19 DEF FilterEnds, TypeInv, TypeOK, Verdicts
  <2>3. exlock' \subseteq Session /\ shlock' \subseteq Session
    BY <1>19, UnlockType DEF FilterEnds, TypeInv, TypeOK
  <2>4. Posting'
    BY <1>19 DEF FilterEnds, TypeInv, Posting
  <2> QED
    BY <1>19, <2>1, <2>2, <2>3, <2>4 DEF FilterEnds, TypeInv, TypeOK
<1>20. CASE PostReject(p)
  <2>1. filter' \in [Session -> FilterState]
    BY <1>20 DEF PostReject, TypeInv, TypeOK, FilterState
  <2> QED
    BY <1>20, <2>1, UnlockType, ReturnType DEF PostReject, Mark, TypeInv, TypeOK, Stages
<1> QED
  BY <1>1, <1>2, <1>3, <1>4, <1>5, <1>6, <1>7, <1>8, <1>9, <1>10, <1>11, <1>12,
     <1>13, <1>14, <1>15, <1>16, <1>17, <1>18, <1>19, <1>20

\* So do those of LoadInfo and BuildInfo.
LEMMA LoadTypes ==
  ASSUME TypeInv, NEW p \in Session,
         \/ BeginLoad(p) \/ BeginRebuild(p) \/ LoadOpen(p) \/ SaveUnlocked(p) \/ LoadLock(p)
         \/ ConfigLock(p)
         \/ LoadRead(p) \/ LoadReturn(p) \/ LoadFails(p) \/ RebuildReturn(p)
         \/ BuildLock(p) \/ SaveLock(p) \/ BuildScan(p) \/ BuildFlush(p) \/ BuildUnlock(p)
         \/ SaveUnlock(p)
  PROVE  TypeInv'
<1> USE DEF disk, locks, own, history, spam
<1> DEFINE PCs == {"idle"} \cup PostPC \cup LoadPC
<1>1. CASE BeginLoad(p)
  <2>1. pc' \in [Session -> PCs] /\ Posting'
    BY <1>1, GoType DEF BeginLoad, LoadPC, PostPC, Numbered
  <2>2. obj' \in [Session -> Counters]
    BY <1>1, ZeroType DEF BeginLoad, Set, TypeInv, TypeOK
  <2> QED
    BY <1>1, <2>1, <2>2 DEF BeginLoad, Acked, TypeInv, TypeOK
<1>2. CASE BeginRebuild(p)
  <2>1. pc' \in [Session -> PCs] /\ Posting'
    BY <1>2, GoType DEF BeginRebuild, LoadPC, PostPC, Numbered
  <2> QED
    BY <1>2, <2>1 DEF BeginRebuild, Acked, TypeInv, TypeOK
<1>3. CASE LoadOpen(p) \/ SaveUnlocked(p)
  <2>1. pc' \in [Session -> PCs] /\ Posting'
    BY <1>3, GoType DEF LoadOpen, SaveUnlocked, LoadPC, PostPC, Numbered
  <2> QED
    BY <1>3, <2>1 DEF LoadOpen, SaveUnlocked, TypeInv, TypeOK
<1>4. CASE LoadLock(p) \/ ConfigLock(p)
  <2>1. pc' \in [Session -> PCs] /\ Posting'
    BY <1>4, GoType DEF LoadLock, ConfigLock, LoadPC, PostPC, Numbered
  <2> QED
    BY <1>4, <2>1 DEF LoadLock, ConfigLock, LockSh, TypeInv, TypeOK
<1>5. CASE LoadRead(p)
  <2>1. pc' \in [Session -> PCs] /\ Posting'
    BY <1>5, GoType DEF LoadRead, LoadPC, PostPC, Numbered
  <2>2. obj' \in [Session -> Counters]
    BY <1>5, ParsedType DEF LoadRead, Set, TypeInv, TypeOK
  <2> QED
    BY <1>5, <2>1, <2>2, UnlockType DEF LoadRead, TypeInv, TypeOK
<1>6. CASE LoadReturn(p)
  <2>1. current' \in [Session -> Counters]
    BY <1>6 DEF LoadReturn, TypeInv, TypeOK
  <2> QED
    BY <1>6, <2>1, UnlockType, ReturnType DEF LoadReturn, TypeInv, TypeOK
<1>7. CASE LoadFails(p) \/ RebuildReturn(p)
  BY <1>7, UnlockType, ReturnType DEF LoadFails, RebuildReturn, TypeInv, TypeOK
<1>8. CASE BuildLock(p) \/ SaveLock(p)
  <2>1. pc' \in [Session -> PCs] /\ Posting'
    BY <1>8, GoType DEF BuildLock, SaveLock, LoadPC, PostPC, Numbered
  <2>2. exlock' \subseteq Session /\ shlock' \subseteq Session
    BY <1>8 DEF BuildLock, SaveLock, LockEx, TypeInv, TypeOK
  <2> QED
    BY <1>8, <2>1, <2>2 DEF BuildLock, SaveLock, TypeInv, TypeOK
<1>9. CASE BuildScan(p)
  <2>1. pc' \in [Session -> PCs] /\ Posting'
    BY <1>9, GoType DEF BuildScan, LoadPC, PostPC, Numbered
  <2> QED
    BY <1>9, <2>1, ScanType DEF BuildScan, TypeInv, TypeOK
<1>10. CASE BuildFlush(p)
  <2>1. pc' \in [Session -> PCs] /\ Posting'
    BY <1>10, GoType DEF BuildFlush, LoadPC, PostPC, Numbered
  <2> QED
    BY <1>10, <2>1, SaveType DEF BuildFlush, TypeInv, TypeOK
<1>11. CASE BuildUnlock(p) \/ SaveUnlock(p)
  <2>1. pc' \in [Session -> PCs] /\ Posting'
    BY <1>11, GoType DEF BuildUnlock, SaveUnlock, LoadPC, PostPC, Numbered
  <2> QED
    BY <1>11, <2>1, UnlockType DEF BuildUnlock, SaveUnlock, TypeInv, TypeOK
<1> QED
  BY <1>1, <1>2, <1>3, <1>4, <1>5, <1>6, <1>7, <1>8, <1>9, <1>10, <1>11

\* So do the end of a process and the removal of a file.
LEMMA FaultTypes ==
  ASSUME TypeInv,
         \/ \E p \in Session : Crash(p)
         \/ \E n \in DOMAIN article : Expire(n)
  PROVE  TypeInv'
<1> USE DEF disk, locks, own, history, spam
<1>1. ASSUME NEW p \in Session, Crash(p) PROVE TypeInv'
  <2>1. DOMAIN info' \subseteq Field /\ info' \in [DOMAIN info' -> Nat]
    <3>1. obj[p] \in [Field -> Nat]
      BY DEF TypeInv, TypeOK, Counters
    <3>2. CASE info' = obj[p]
      BY <3>1, <3>2
    <3>3. CASE info' \in Torn(obj[p])
      <4>1. PICK F \in {{}, {"start"}, {"start", "end"}} :
              info' = [f \in F |-> obj[p][f]]
        BY <3>3 DEF Torn
      <4>2. F \subseteq Field
        BY <4>1 DEF Field
      <4> QED
        BY <3>1, <4>1, <4>2
    <3>4. CASE UNCHANGED info
      BY <3>4 DEF TypeInv, TypeOK
    <3> QED
      BY <1>1, <3>2, <3>3, <3>4 DEF Crash
  <2>2. current' \in [Session -> Counters]
    BY <1>1, ZeroType DEF Crash, TypeInv, TypeOK
  <2>3. exlock' \subseteq Session /\ shlock' \subseteq Session
    BY <1>1, UnlockType DEF Crash, TypeInv, TypeOK
  <2>4. filter' \in [Session -> FilterState]
    BY <1>1 DEF Crash, TypeInv, TypeOK, FilterState
  <2> QED
    BY <1>1, <2>1, <2>2, <2>3, <2>4, ReturnType DEF Crash, TypeInv, TypeOK
<1>2. ASSUME NEW n \in DOMAIN article, Expire(n) PROVE TypeInv'
  <2>1. DOMAIN article' = DOMAIN article \ {n}
    BY <1>2 DEF Expire
  <2>2. IsFiniteSet(DOMAIN article')
    BY <2>1, FS_RemoveElement DEF TypeInv, TypeOK
  <2>3. article' \in [DOMAIN article' -> ArticleFile]
    BY <1>2, <2>1 DEF Expire, TypeInv, TypeOK
  <2>4. article[n].msg \in Msg
    BY DEF TypeInv, TypeOK, ArticleFile
  <2>5. Posting'
    BY <1>2 DEF Expire, TypeInv, Posting
  <2> QED
    BY <1>2, <2>1, <2>2, <2>3, <2>4, <2>5 DEF Expire, TypeInv, TypeOK
<1> QED
  BY <1>1, <1>2

\* Every step keeps the types.
LEMMA TypeStep == TypeInv /\ [Next]_vars => TypeInv'
<1> SUFFICES ASSUME TypeInv, [Next]_vars PROVE TypeInv'
  OBVIOUS
<1>1. CASE Next
  BY <1>1, PostTypes, LoadTypes, FaultTypes DEF Next, Step, Waits, Begins
<1>2. CASE UNCHANGED vars
  BY <1>2 DEF vars, TypeInv, TypeOK, Posting
<1> QED
  BY <1>1, <1>2

\* The spool's files, .info, locks and objects are well typed in every state;
\* article numbers start at 1, although .info and the objects start at 0.
THEOREM TypeCorrect == Spec => []TypeOK
<1>1. Init => TypeInv
  BY TypeInit
<1>2. TypeInv /\ [Next]_vars => TypeInv'
  BY TypeStep
<1>3. TypeInv => TypeOK
  BY DEF TypeInv
<1> QED
  BY <1>1, <1>2, <1>3, PTL DEF Spec
-----------------------------------------------------------------------------
(* Durability of acknowledged articles.                                    *)

\* m's file is there under m's number, or was removed by the administrator ...
Kept(m) == m \in removed \/ PostedAt(m)
\* ... and is complete.
Safe(m) == m \in removed \/ (PostedAt(m) /\ article[number[m]].whole)

\* The article of a process inside Post is neither unsent nor acknowledged.
InFlight ==
  \A p \in Session : pc[p] \in PostPC => stage[msg[p]] \in {"sent", "stored", "published"}

\* No two processes post the same article.
Distinct ==
  \A p, q \in Session :
    p # q /\ pc[p] \in PostPC /\ pc[q] \in PostPC => msg[p] # msg[q]

\* From the creation of the file on, a process has it under its candidate
\* number, and from PostWrite on the file is whole.
Filing ==
  \A p \in Session : pc[p] \in Filed =>
    /\ number[msg[p]] = cand[p]
    /\ Kept(msg[p])
    /\ pc[p] # "post_write" => Safe(msg[p])

\* AckedDurable is not inductive: that an article is safe when PostReply
\* acknowledges it is what Filing carries along from PostCreate, and that no
\* other step of Post disturbs it is what Distinct and O_EXCL give.
DurableInv == TypeInv /\ InFlight /\ Distinct /\ Filing /\ \A m \in Acked : Safe(m)

\* A step of one process that leaves the files and their numbers alone, gives
\* its process no file it had not, and acknowledges only from post_reply.
LEMMA DurableMove ==
  ASSUME DurableInv, TypeInv', NEW p \in Session,
         UNCHANGED <<article, number, removed>>,
         \A q \in Session \ {p} : pc'[q] = pc[q] /\ cand'[q] = cand[q] /\ msg'[q] = msg[q],
         \A m \in Msg :
           \/ stage'[m] = stage[m]
           \/ /\ pc[p] \in PostPC /\ m = msg[p]
              /\ stage'[m] = "acked" => pc[p] = "post_reply",
         pc'[p] \in PostPC =>
           /\ pc[p] \in PostPC /\ msg'[p] = msg[p]
           /\ stage'[msg[p]] \in {"sent", "stored", "published"},
         pc'[p] \in Filed =>
           /\ pc[p] \in Filed /\ cand'[p] = cand[p]
           /\ pc[p] = "post_write" => pc'[p] = "post_write"
  PROVE  DurableInv'
<1> USE DEF DurableInv
<1>1. \A m \in Msg : (Kept(m) => Kept(m)') /\ (Safe(m) => Safe(m)')
  BY DEF Kept, Safe, PostedAt
<1>2. \A q \in Session : pc[q] \in PostPC => msg[q] \in Msg
  BY DEF TypeInv, Posting
<1>3. Filed \subseteq PostPC
  BY DEF Filed, Numbered, PostPC
<1>4. Distinct'
  BY DEF Distinct
<1>5. InFlight'
  <2> SUFFICES ASSUME NEW q \in Session, pc'[q] \in PostPC
               PROVE  stage'[msg'[q]] \in {"sent", "stored", "published"}
    BY DEF InFlight
  <2>1. CASE q = p
    BY <2>1
  <2>2. CASE q # p
    <3>1. pc[q] \in PostPC /\ msg'[q] = msg[q] /\ msg[q] \in Msg
      BY <1>2, <2>2
    <3>2. stage'[msg[q]] = stage[msg[q]]
      BY <2>2, <3>1 DEF Distinct
    <3> QED
      BY <3>1, <3>2 DEF InFlight
  <2> QED
    BY <2>1, <2>2
<1>6. Filing'
  <2> SUFFICES ASSUME NEW q \in Session, pc'[q] \in Filed
               PROVE  /\ number'[msg'[q]] = cand'[q]
                      /\ Kept(msg[q])'
                      /\ (pc[q] # "post_write" => Safe(msg[q]))'
    BY DEF Filing
  <2>1. /\ pc[q] \in Filed /\ msg'[q] = msg[q] /\ cand'[q] = cand[q]
        /\ pc'[q] # "post_write" => pc[q] # "post_write"
    BY <1>3
  <2>2. msg[q] \in Msg
    BY <1>2, <1>3, <2>1
  <2>3. number[msg[q]] = cand[q] /\ Kept(msg[q]) /\ (pc[q] # "post_write" => Safe(msg[q]))
    BY <2>1 DEF Filing
  <2> QED
    BY <1>1, <2>1, <2>2, <2>3 DEF Kept, Safe, PostedAt
<1>7. \A m \in Acked' : Safe(m)'
  <2> SUFFICES ASSUME NEW m \in Msg, stage'[m] = "acked" PROVE Safe(m)'
    BY DEF Acked
  <2>1. CASE stage[m] = "acked"
    BY <1>1, <2>1 DEF Acked
  <2>2. CASE pc[p] = "post_reply" /\ m = msg[p]
    <3>1. Safe(m)
      BY <2>2 DEF Filing, Filed, Numbered
    <3> QED
      BY <1>1, <3>1
  <2> QED
    BY <2>1, <2>2
<1> QED
  BY <1>4, <1>5, <1>6, <1>7

\* The initial state has no articles.
LEMMA DurableInit == Init => DurableInv
BY TypeInit DEF Init, DurableInv, InFlight, Distinct, Filing, Acked, PostPC, Filed, Numbered

\* A client that sends its article is the only one that posts it.
LEMMA DurableBegin ==
  ASSUME DurableInv, TypeInv', NEW p \in Session, NEW m \in Msg, BeginPost(p, m)
  PROVE  DurableInv'
<1> USE DEF DurableInv, BeginPost, disk, locks, Go, Mark
<1>1. /\ pc'[p] = "post_lock" /\ msg'[p] = m /\ stage'[m] = "sent"
      /\ \A q \in Session \ {p} : pc'[q] = pc[q] /\ msg'[q] = msg[q]
      /\ \A k \in Msg \ {m} : stage'[k] = stage[k]
  BY DEF TypeInv, TypeOK
<1>2. \A q \in Session : pc[q] \in PostPC => msg[q] \in Msg \ {m}
  BY DEF InFlight, TypeInv, Posting
<1>3. \A k \in Msg : (Kept(k) => Kept(k)') /\ (Safe(k) => Safe(k)')
  BY DEF Kept, Safe, PostedAt
<1>4. Filed \subseteq PostPC /\ "post_lock" \notin Filed
  BY DEF Filed, Numbered, PostPC
<1>5. Distinct'
  BY <1>1, <1>2 DEF Distinct
<1>6. InFlight'
  BY <1>1, <1>2 DEF InFlight
<1>7. Filing'
  <2> SUFFICES ASSUME NEW q \in Session, pc'[q] \in Filed
               PROVE  /\ number'[msg'[q]] = cand'[q]
                      /\ Kept(msg[q])'
                      /\ (pc[q] # "post_write" => Safe(msg[q]))'
    BY DEF Filing
  <2>1. q # p /\ pc'[q] = pc[q] /\ msg'[q] = msg[q] /\ msg[q] \in Msg
    BY <1>1, <1>2, <1>4
  <2> QED
    BY <1>3, <2>1 DEF Filing
<1>8. \A k \in Acked' : Safe(k)'
  BY <1>1, <1>3 DEF Acked
<1> QED
  BY <1>5, <1>6, <1>7, <1>8

\* O_EXCL: the new file takes nobody's place.
LEMMA DurableCreate ==
  ASSUME DurableInv, TypeInv', NEW p \in Session, PostCreate(p)
  PROVE  DurableInv'
<1> USE DEF DurableInv, PostCreate, Go, Mark, locks, own
<1> DEFINE m == msg[p]
<1>1. /\ pc[p] \in PostPC /\ m \in Msg /\ cand[p] \in Nat
      /\ pc' = [pc EXCEPT ![p] = "post_write"]
      /\ UNCHANGED <<msg, cand, removed>>
  BY DEF TypeInv, TypeOK, Posting, PostPC
<1>2. /\ stage'[m] = "stored" /\ number'[m] = cand[p]
      /\ \A k \in Msg \ {m} : stage'[k] = stage[k] /\ number'[k] = number[k]
  BY <1>1 DEF TypeInv, TypeOK
<1>3. /\ DOMAIN article' = DOMAIN article \cup {cand[p]}
      /\ article'[cand[p]].msg = m
      /\ \A n \in DOMAIN article : article'[n] = article[n]
  OBVIOUS
<1>4. PostedAt(m)'
  BY <1>2, <1>3 DEF PostedAt
<1>5. \A k \in Msg \ {m} : (Kept(k) => Kept(k)') /\ (Safe(k) => Safe(k)')
  BY <1>1, <1>2, <1>3 DEF Kept, Safe, PostedAt
<1>6. \A q \in Session \ {p} : pc[q] \in PostPC => msg[q] \in Msg \ {m}
  BY <1>1 DEF Distinct, TypeInv, Posting
<1>7. Filed \subseteq PostPC /\ "post_write" \in PostPC
  BY DEF Filed, Numbered, PostPC
<1>8. pc'[p] = "post_write" /\ \A q \in Session \ {p} : pc'[q] = pc[q]
  BY <1>1 DEF TypeInv, TypeOK
<1>9. Distinct'
  BY <1>1, <1>6, <1>8 DEF Distinct
<1>10. InFlight'
  BY <1>1, <1>2, <1>6, <1>8 DEF InFlight
<1>11. Filing'
  <2> SUFFICES ASSUME NEW q \in Session, pc'[q] \in Filed
               PROVE  /\ number'[msg[q]] = cand[q]
                      /\ Kept(msg[q])'
                      /\ pc'[q] # "post_write" => Safe(msg[q])'
    BY <1>1 DEF Filing, Kept, Safe, PostedAt
  <2>1. CASE q = p
    BY <1>2, <1>4, <1>8, <2>1 DEF Kept
  <2>2. CASE q # p
    <3>1. pc[q] \in Filed /\ msg[q] \in Msg \ {m}
      BY <1>6, <1>7, <1>8, <2>2
    <3> QED
      BY <1>2, <1>5, <1>8, <2>2, <3>1 DEF Filing
  <2> QED
    BY <2>1, <2>2
<1>12. \A k \in Acked' : Safe(k)'
  BY <1>2, <1>5 DEF Acked
<1> QED
  BY <1>9, <1>10, <1>11, <1>12

\* Without write errors PostWrite completes the file, and only completes files.
LEMMA DurableWrite ==
  ASSUME DurableInv, TypeInv', "writeError" \notin Faults, NEW p \in Session, PostWrite(p)
  PROVE  DurableInv'
<1> USE DEF DurableInv, PostWrite, Go, locks, own, history
<1>1. /\ pc'[p] = "post_save" /\ pc[p] = "post_write"
      /\ \A q \in Session \ {p} : pc'[q] = pc[q]
      /\ UNCHANGED <<msg, cand, stage, number, removed>>
  BY DEF TypeInv, TypeOK
<1>2. article \in [DOMAIN article -> ArticleFile]
  BY DEF TypeInv, TypeOK
<1>3. /\ DOMAIN article' = DOMAIN article
      /\ \A n \in DOMAIN article :
           /\ article'[n].msg = article[n].msg
           /\ article[n].whole => article'[n].whole
           /\ n = cand[p] => article'[n].whole
  <2>1. article' = [article EXCEPT ![cand[p]].whole = TRUE]
    OBVIOUS
  <2> QED
    BY <1>2, <2>1 DEF ArticleFile
<1>4. \A k \in Msg : (Kept(k) => Kept(k)') /\ (Safe(k) => Safe(k)')
  BY <1>1, <1>3 DEF Kept, Safe, PostedAt
<1>5. number[msg[p]] = cand[p] /\ Kept(msg[p]) /\ msg[p] \in Msg
  BY <1>1 DEF Filing, Filed, Numbered, TypeInv, Posting, PostPC
<1>6. Safe(msg[p])'
  BY <1>1, <1>3, <1>5 DEF Kept, Safe, PostedAt
<1>7. {"post_write", "post_save"} \subseteq Filed \cap PostPC /\ Filed \subseteq PostPC
  BY DEF Filed, Numbered, PostPC
<1>8. Distinct' /\ InFlight'
  BY <1>1, <1>7 DEF Distinct, InFlight
<1>9. Filing'
  <2> SUFFICES ASSUME NEW q \in Session, pc'[q] \in Filed
               PROVE  /\ number[msg[q]] = cand[q]
                      /\ Kept(msg[q])'
                      /\ pc'[q] # "post_write" => Safe(msg[q])'
    BY <1>1 DEF Filing, Kept, Safe, PostedAt
  <2>1. CASE q = p
    BY <1>4, <1>5, <1>6, <2>1
  <2>2. CASE q # p
    BY <1>1, <1>4, <1>7, <2>2 DEF Filing, TypeInv, Posting
  <2> QED
    BY <2>1, <2>2
<1>10. \A k \in Acked' : Safe(k)'
  BY <1>1, <1>4 DEF Acked
<1> QED
  BY <1>8, <1>9, <1>10

\* What the administrator removes is recorded, and nothing else changes.
LEMMA DurableExpire ==
  ASSUME DurableInv, TypeInv', NEW n \in DOMAIN article, Expire(n)
  PROVE  DurableInv'
<1> USE DEF DurableInv, Expire, locks, own
<1>1. UNCHANGED <<pc, msg, cand, stage, number>>
  OBVIOUS
<1>2. \A k \in Msg : (Kept(k) => Kept(k)') /\ (Safe(k) => Safe(k)')
  BY DEF Kept, Safe, PostedAt
<1>3. Distinct' /\ InFlight'
  BY <1>1 DEF Distinct, InFlight
<1>4. \A q \in Session : pc[q] \in Filed => msg[q] \in Msg
  BY DEF TypeInv, Posting, PostPC, Filed, Numbered
<1>5. Filing'
  <2> SUFFICES ASSUME NEW q \in Session, pc[q] \in Filed
               PROVE  /\ number[msg[q]] = cand[q]
                      /\ Kept(msg[q])'
                      /\ pc[q] # "post_write" => Safe(msg[q])'
    BY <1>1 DEF Filing, Kept, Safe, PostedAt
  <2> QED
    BY <1>2, <1>4 DEF Filing
<1>6. \A k \in Acked' : Safe(k)'
  BY <1>1, <1>2 DEF Acked
<1> QED
  BY <1>3, <1>5, <1>6

\* The steps of Post that leave the files alone.
LEMMA DurablePost ==
  ASSUME DurableInv, TypeInv', NEW p \in Session,
         \/ PostLock(p) \/ PostLoad(p) \/ PostBuild(p) \/ PostBuilt(p)
         \/ PostFilter(p) \/ PostClose(p) \/ Sigcld(p) \/ FilterEnds(p) \/ PostReject(p)
         \/ PostRefuse(p) \/ PostAccept(p) \/ PostSkip(p) \/ PostSave(p)
         \/ PostSaveFails(p) \/ PostFlush(p) \/ PostUnlock(p) \/ PostReply(p)
  PROVE  DurableInv'
<1> USE DEF disk, locks, own, history, spam, PostPC, Filed, Numbered
<1>1. /\ TypeInv /\ pc \in [Session -> {"idle"} \cup PostPC \cup LoadPC]
      /\ stage \in [Msg -> Stages] /\ cand \in [Session -> Nat]
  BY DEF DurableInv, TypeInv, TypeOK
<1>2. pc[p] \in PostPC =>
        msg[p] \in Msg /\ stage[msg[p]] \in {"sent", "stored", "published"}
  BY <1>1 DEF DurableInv, InFlight, TypeInv, Posting
<1>3. CASE PostLock(p)
  BY <1>1, <1>2, <1>3, DurableMove DEF PostLock, Go
<1>4. CASE PostLoad(p)
  BY <1>1, <1>2, <1>4, DurableMove DEF PostLoad, Go
<1>5. CASE PostBuild(p)
  BY <1>1, <1>2, <1>5, DurableMove DEF PostBuild, Go
<1>6. CASE PostBuilt(p)
  BY <1>1, <1>2, <1>6, DurableMove DEF PostBuilt, Go, FinishSave
<1>7. CASE PostRefuse(p)
  BY <1>1, <1>2, <1>7, ReturnType, DurableMove DEF PostRefuse, Mark
<1>8. CASE PostAccept(p)
  BY <1>1, <1>2, <1>8, DurableMove DEF PostAccept, Passed
<1>9. CASE PostSkip(p)
  BY <1>1, <1>2, <1>9, DurableMove DEF PostSkip
<1>10. CASE PostSave(p)
  BY <1>1, <1>2, <1>10, DurableMove DEF PostSave, Go, Mark
<1>11. CASE PostSaveFails(p)
  BY <1>1, <1>2, <1>11, ReturnType, DurableMove DEF PostSaveFails, Mark
<1>12. CASE PostFlush(p)
  BY <1>1, <1>2, <1>12, DurableMove DEF PostFlush, Go, FinishSave
<1>13. CASE PostUnlock(p)
  BY <1>1, <1>2, <1>13, DurableMove DEF PostUnlock, Go
<1>14. CASE PostReply(p)
  BY <1>1, <1>2, <1>14, ReturnType, DurableMove DEF PostReply, Mark
<1>15. CASE PostFilter(p)
  BY <1>1, <1>2, <1>15, DurableMove DEF PostFilter, Go
<1>16. CASE PostClose(p)
  BY <1>1, <1>2, <1>16, DurableMove DEF PostClose, Go
<1>17. CASE Sigcld(p)
  BY <1>1, <1>2, <1>17, DurableMove DEF Sigcld
<1>18. CASE FilterEnds(p)
  BY <1>1, <1>2, <1>18, DurableMove DEF FilterEnds
<1>19. CASE PostReject(p)
  BY <1>1, <1>2, <1>19, ReturnType, DurableMove DEF PostReject, Mark
<1> QED
  BY <1>3, <1>4, <1>5, <1>6, <1>7, <1>8, <1>9, <1>10, <1>11, <1>12, <1>13, <1>14,
     <1>15, <1>16, <1>17, <1>18, <1>19

\* Loads, rebuilds of .info and the end of a process touch no article file.
LEMMA DurableLoad ==
  ASSUME DurableInv, TypeInv', NEW p \in Session,
         \/ BeginLoad(p) \/ BeginRebuild(p) \/ LoadOpen(p) \/ SaveUnlocked(p) \/ LoadLock(p)
         \/ ConfigLock(p)
         \/ LoadRead(p) \/ LoadReturn(p) \/ LoadFails(p) \/ RebuildReturn(p)
         \/ BuildLock(p) \/ SaveLock(p) \/ BuildScan(p) \/ BuildFlush(p) \/ BuildUnlock(p)
         \/ SaveUnlock(p)
         \/ Crash(p)
  PROVE  DurableInv'
<1> USE DEF disk, locks, own, history, spam, PostPC, Filed, Numbered
<1>1. TypeInv /\ pc \in [Session -> {"idle"} \cup PostPC \cup LoadPC]
  BY DEF DurableInv, TypeInv, TypeOK
<1>2. UNCHANGED <<article, number, removed, stage>>
  BY
  DEF BeginLoad, BeginRebuild, LoadOpen, SaveUnlocked, LoadLock, ConfigLock, LoadRead,
      LoadReturn, LoadFails, RebuildReturn, BuildLock, SaveLock, BuildScan, BuildFlush,
      BuildUnlock, SaveUnlock, Crash, FinishSave
<1>3. /\ pc'[p] \notin PostPC
      /\ \A q \in Session \ {p} : pc'[q] = pc[q] /\ cand'[q] = cand[q] /\ msg'[q] = msg[q]
  <2>1. CASE LoadReturn(p) \/ LoadFails(p) \/ RebuildReturn(p) \/ Crash(p)
    BY <1>1, <2>1, ReturnType DEF LoadReturn, LoadFails, RebuildReturn, Crash
  <2>2. CASE BeginLoad(p) \/ BeginRebuild(p) \/ LoadOpen(p) \/ SaveUnlocked(p)
             \/ LoadLock(p) \/ ConfigLock(p) \/ LoadRead(p)
    BY <1>1, <2>2
    DEF BeginLoad, BeginRebuild, LoadOpen, SaveUnlocked, LoadLock, ConfigLock, LoadRead, Go
  <2>3. CASE BuildLock(p) \/ SaveLock(p) \/ BuildScan(p) \/ BuildFlush(p) \/ BuildUnlock(p)
             \/ SaveUnlock(p)
    BY <1>1, <2>3 DEF BuildLock, SaveLock, BuildScan, BuildFlush, BuildUnlock, SaveUnlock, Go
  <2> QED
    BY <2>1, <2>2, <2>3
<1> QED
  BY <1>2, <1>3, DurableMove

\* Every step keeps DurableInv.
LEMMA DurableStep ==
  ASSUME "writeError" \notin Faults, DurableInv, [Next]_vars
  PROVE  DurableInv'
<1>1. TypeInv'
  BY TypeStep DEF DurableInv
<1>2. ASSUME NEW p \in Session,
             Step(p) \/ Waits(p) \/ FilterEnds(p) \/ Begins(p) \/ Crash(p)
      PROVE  DurableInv'
  BY <1>1, <1>2, DurableBegin, DurableCreate, DurableWrite, DurablePost, DurableLoad
  DEF Step, Waits, Begins
<1>3. ASSUME NEW n \in DOMAIN article, Expire(n) PROVE DurableInv'
  BY <1>1, <1>3, DurableExpire
<1>4. CASE UNCHANGED vars
  BY <1>1, <1>4 DEF vars, DurableInv, InFlight, Distinct, Filing, Acked, Kept, Safe, PostedAt
<1> QED
  BY <1>2, <1>3, <1>4 DEF Next

\* An article whose client got 240 stays in the spool, whole and under its
\* number, for any number of posting, reading, rebuilding and dying processes,
\* as long as writes do not fail unnoticed: only the
\* administrator removes it.
THEOREM AckedStayStored ==
  ASSUME "writeError" \notin Faults
  PROVE  Spec => []AckedDurable
<1>1. Init => DurableInv
  BY DurableInit
<1>2. DurableInv /\ [Next]_vars => DurableInv'
  BY DurableStep
<1>3. DurableInv => AckedDurable
  BY DEF DurableInv, Safe, AckedDurable
<1> QED
  BY <1>1, <1>2, <1>3, PTL DEF Spec

-----------------------------------------------------------------------------
(* The lock.                                                               *)

\* What a step of p leaves alone: what is q's.
Alone(q) ==
  /\ pc'[q] = pc[q] /\ obj'[q] = obj[q] /\ current'[q] = current[q]
  /\ cand'[q] = cand[q] /\ msg'[q] = msg[q] /\ known'[q] = known[q]
  /\ filter'[q] = filter[q]

Others(p) == \A q \in Session \ {p} : Alone(q)

\* Every step of a process is a step of its own: it leaves the others' places,
\* objects and filters alone.
LEMMA OthersAlone ==
  ASSUME TypeInv, NEW p \in Session,
         Step(p) \/ Waits(p) \/ FilterEnds(p) \/ Begins(p) \/ Crash(p)
  PROVE  Others(p)
<1> USE DEF TypeInv, TypeOK, Others, Alone, disk, locks, own, history, spam
<1>1. CASE Waits(p) \/ FilterEnds(p)
  BY <1>1 DEF Waits, PostLock, LoadLock, ConfigLock, BuildLock, SaveLock, Go, FilterEnds
<1>2. CASE Begins(p)
  BY <1>2 DEF Begins, BeginPost, BeginLoad, BeginRebuild, Go, Set
<1>3. CASE Crash(p)
  BY <1>3 DEF Crash, Return
<1>4. CASE PostLoad(p) \/ PostBuild(p) \/ PostBuilt(p) \/ PostFilter(p) \/ PostClose(p)
           \/ Sigcld(p) \/ PostAccept(p) \/ PostSkip(p) \/ PostCreate(p)
  BY <1>4 DEF PostLoad, PostBuild, PostBuilt, PostFilter, PostClose, Sigcld, PostAccept,
              PostSkip, PostCreate, Go, Set, ScanAndTruncate
<1>5. CASE PostWrite(p) \/ PostSave(p) \/ PostFlush(p) \/ PostUnlock(p)
  BY <1>5 DEF PostWrite, PostSave, PostFlush, PostUnlock, Go, Set
<1>6. CASE PostRefuse(p) \/ PostReject(p) \/ PostSaveFails(p) \/ PostReply(p)
           \/ LoadReturn(p) \/ LoadFails(p) \/ RebuildReturn(p)
  BY <1>6
  DEF PostRefuse, PostReject, PostSaveFails, PostReply, LoadReturn, LoadFails, RebuildReturn,
      Return
<1>7. CASE LoadOpen(p) \/ SaveUnlocked(p) \/ LoadRead(p) \/ BuildScan(p) \/ BuildFlush(p)
           \/ BuildUnlock(p) \/ SaveUnlock(p)
  BY <1>7
  DEF LoadOpen, SaveUnlocked, LoadRead, BuildScan, BuildFlush, BuildUnlock, SaveUnlock, Go,
      Set, ScanAndTruncate
<1> QED
  BY <1>1, <1>2, <1>3, <1>4, <1>5, <1>6, <1>7 DEF Step

\* Where a process has a spam filter.
FilterPC == {"post_filter", "post_wait"}

\* A process holds the exclusive lock exactly between its flock and its unlock,
\* or by a filter that it left behind; the shared lock while it reads .info.
Holding(p) ==
  /\ p \in exlock <=> pc[p] \in HoldsEx \/ filter[p] = "orphan"
  /\ p \in shlock <=> pc[p] \in {"load_read", "config_read"}
  /\ pc[p] \in FilterPC <=> filter[p] \in {"runs", "ended", "reaped"}
  /\ filter[p] = "orphan" => pc[p] = "idle"

LockInv ==
  /\ \A p \in Session : Holding(p)
  /\ \A p, q \in exlock : p = q
  /\ exlock = {} \/ shlock = {}

\* A step of p that takes a lock takes one that is free, and keeps p Holding
\* what its place says, keeps the lock exclusive.
LEMMA LockMove ==
  ASSUME LockInv, TypeInv, TypeInv', NEW p \in Session, Others(p), Holding(p)',
         exlock' \in {exlock, exlock \ {p}} \/ (exlock = {} /\ shlock = {} /\ exlock' = {p}),
         shlock' \in {shlock, shlock \ {p}}
           \/ (exlock = {} /\ exlock' = exlock /\ shlock' = shlock \cup {p})
  PROVE  LockInv'
<1>1. exlock \subseteq Session /\ shlock \subseteq Session
  BY DEF TypeInv, TypeOK
<1>2. \A q \in Session : Holding(q)'
  BY <1>1 DEF LockInv, Holding, Others, Alone
<1>3. \A q, r \in exlock' : q = r
  BY DEF LockInv
<1>4. exlock' = {} \/ shlock' = {}
  <2>1. CASE exlock = {} /\ shlock = {} /\ exlock' = {p} /\ shlock' \subseteq shlock
    BY <2>1
  <2>2. CASE exlock' \in {exlock, exlock \ {p}}
    BY <2>2 DEF LockInv
  <2> QED
    BY <2>1, <2>2 DEF LockInv
<1> QED
  BY <1>2, <1>3, <1>4 DEF LockInv

\* At first nobody holds it.
LEMMA LockInit == Init => LockInv
BY DEF Init, LockInv, Holding, HoldsEx, FilterPC

\* Every step keeps it so.
LEMMA LockStep ==
  ASSUME LockInv, TypeInv, TypeInv', NEW p \in Session,
         Step(p) \/ Waits(p) \/ FilterEnds(p) \/ Begins(p) \/ Crash(p)
  PROVE  LockInv'
<1> USE DEF disk, locks, own, history, spam
<1>1. Others(p) /\ Holding(p)
  BY OthersAlone DEF LockInv
<1>2. pc \in [Session -> {"idle"} \cup PostPC \cup LoadPC] /\ filter \in [Session -> FilterState]
  BY DEF TypeInv, TypeOK
<1>3. CASE PostLock(p) \/ LoadLock(p) \/ ConfigLock(p) \/ BuildLock(p) \/ SaveLock(p)
  BY <1>1, <1>2, <1>3, LockMove
  DEF PostLock, LoadLock, ConfigLock, BuildLock, SaveLock, LockEx, LockSh, Go, Holding,
      HoldsEx, FilterPC, LockInv
<1>4. CASE Begins(p) \/ LoadOpen(p) \/ SaveUnlocked(p)
  BY <1>1, <1>2, <1>4, LockMove
  DEF Begins, BeginPost, BeginLoad, BeginRebuild, LoadOpen, SaveUnlocked, Go, Holding,
      HoldsEx, FilterPC
<1>5. CASE PostLoad(p) \/ PostBuild(p) \/ PostBuilt(p) \/ PostSkip(p) \/ PostCreate(p)
           \/ PostWrite(p) \/ PostSave(p) \/ PostFlush(p) \/ BuildScan(p) \/ BuildFlush(p)
  BY <1>1, <1>2, <1>5, LockMove
  DEF PostLoad, PostBuild, PostBuilt, PostSkip, PostCreate, PostWrite, PostSave, PostFlush,
      BuildScan, BuildFlush, Go, Holding, HoldsEx, FilterPC
<1>6. CASE PostFilter(p) \/ PostClose(p) \/ Sigcld(p) \/ PostAccept(p)
  BY <1>1, <1>2, <1>6, LockMove
  DEF PostFilter, PostClose, Sigcld, PostAccept, Passed, Go, Holding, HoldsEx, FilterPC
<1>7. CASE FilterEnds(p)
  BY <1>1, <1>2, <1>7, LockMove DEF FilterEnds, Unlock, Holding, HoldsEx, FilterPC
<1>8. CASE PostRefuse(p) \/ PostReject(p) \/ PostSaveFails(p) \/ PostReply(p)
           \/ LoadReturn(p) \/ LoadFails(p) \/ RebuildReturn(p)
  BY <1>1, <1>2, <1>8, LockMove
  DEF PostRefuse, PostReject, PostSaveFails, PostReply, LoadReturn, LoadFails, RebuildReturn,
      Return, Unlock, Holding, HoldsEx, FilterPC
<1>9. CASE PostUnlock(p) \/ LoadRead(p) \/ BuildUnlock(p) \/ SaveUnlock(p)
  BY <1>1, <1>2, <1>9, LockMove
  DEF PostUnlock, LoadRead, BuildUnlock, SaveUnlock, Unlock, Go, Holding, HoldsEx, FilterPC
<1>10. CASE Crash(p)
  BY <1>1, <1>2, <1>10, LockMove DEF Crash, Return, Unlock, Holding, HoldsEx, FilterPC
<1> QED
  BY <1>3, <1>4, <1>5, <1>6, <1>7, <1>8, <1>9, <1>10 DEF Step, Waits

-----------------------------------------------------------------------------
(* Articles, their numbers and what became of them.                        *)

Unfiled == PostPC \ Filed

\* How far the article of a process inside Post has come.
StageAt(p) ==
  /\ pc[p] \in Unfiled => stage[msg[p]] = "sent"
  /\ pc[p] \in Writing => stage[msg[p]] = "stored" /\ cand[p] \in DOMAIN article
                                                  /\ article[cand[p]].msg = msg[p]
  /\ pc[p] \in Filed \ Writing => stage[msg[p]] = "published"
  /\ pc[p] \in Filed => number[msg[p]] = cand[p]

\* Files bear the number their article was given, and articles that were stored
\* have their file until it is removed.
FilesRight ==
  /\ \A n \in DOMAIN article :
       LET m == article[n].msg IN
       number[m] = n /\ m \notin removed /\ stage[m] \notin {"unsent", "sent"}
  /\ \A m \in Msg : stage[m] \in {"stored", "published", "acked"} => Kept(m)
  /\ \A m \in removed : stage[m] \notin {"unsent", "sent"}
  /\ forgotten \subseteq removed

StoreInv == Distinct /\ (\A p \in Session : StageAt(p)) /\ FilesRight

LEMMA PostPoints ==
  /\ Filed \subseteq PostPC /\ Writing \subseteq Filed /\ Unfiled \subseteq PostPC
  /\ PostPC = Unfiled \cup Filed
  /\ "idle" \notin PostPC /\ LoadPC \cap PostPC = {}
BY DEF Filed, Numbered, Writing, Unfiled, PostPC, LoadPC

\* A step that leaves the files and their numbers alone, and takes p's own
\* article to the stage that p's place calls for.
LEMMA StoreMove ==
  ASSUME StoreInv, TypeInv, TypeInv', NEW p \in Session, Others(p),
         UNCHANGED <<article, number, removed>>,
         forgotten' \in {forgotten, removed},
         \A m \in Msg :
           \/ stage'[m] = stage[m]
           \/ /\ pc[p] \in PostPC /\ m = msg[p]
              /\ \/ stage'[m] = "refused"
                 \/ pc[p] \in Filed /\ stage'[m] \in {"published", "acked"},
         pc'[p] \in PostPC => pc[p] \in PostPC /\ msg'[p] = msg[p],
         StageAt(p)'
  PROVE  StoreInv'
<1> USE PostPoints DEF StoreInv
<1>1. \A q \in Session : pc[q] \in PostPC => msg[q] \in Msg
  BY DEF TypeInv, Posting
<1>2. Distinct'
  BY DEF Distinct, Others, Alone
<1>3. ASSUME NEW q \in Session \ {p} PROVE StageAt(q)'
  <2>1. pc'[q] = pc[q] /\ msg'[q] = msg[q] /\ cand'[q] = cand[q]
    BY DEF Others, Alone
  <2>2. pc[q] \in PostPC => msg[q] \in Msg /\ stage'[msg[q]] = stage[msg[q]]
    BY <1>1 DEF Distinct
  <2> QED
    BY <2>1, <2>2 DEF StageAt
<1>4. FilesRight'
  <2>1. \A n \in DOMAIN article : article[n].msg \in Msg
    BY DEF TypeInv, TypeOK, ArticleFile
  <2>2. removed \subseteq Msg
    BY DEF TypeInv, TypeOK
  <2>3. pc[p] \in Filed => Kept(msg[p])
    BY <1>1 DEF FilesRight, StageAt
  <2>4. \A m \in Msg : Kept(m) => Kept(m)'
    BY DEF Kept, PostedAt
  <2>5. ASSUME NEW n \in DOMAIN article'
        PROVE  LET m == article'[n].msg IN
               number'[m] = n /\ m \notin removed' /\ stage'[m] \notin {"unsent", "sent"}
    BY <2>1 DEF FilesRight
  <2>6. ASSUME NEW m \in Msg, stage'[m] \in {"stored", "published", "acked"}
        PROVE  Kept(m)'
    BY <2>3, <2>4, <2>6 DEF FilesRight
  <2>7. \A m \in removed' : stage'[m] \notin {"unsent", "sent"}
    BY <2>2 DEF FilesRight
  <2> QED
    BY <2>5, <2>6, <2>7 DEF FilesRight
<1> QED
  BY <1>2, <1>3, <1>4

\* At first there are no files.
LEMMA StoreInit == Init => StoreInv
BY PostPoints DEF Init, StoreInv, Distinct, StageAt, FilesRight

\* An article that was not sent yet is in no file and in no other process.
LEMMA StoreBegin ==
  ASSUME StoreInv, TypeInv, TypeInv', NEW p \in Session, Others(p),
         NEW m \in Msg, BeginPost(p, m)
  PROVE  StoreInv'
<1> USE PostPoints DEF StoreInv, BeginPost, disk, Go, Mark
<1>1. /\ pc'[p] = "post_lock" /\ msg'[p] = m /\ stage'[m] = "sent" /\ stage[m] = "unsent"
      /\ \A k \in Msg \ {m} : stage'[k] = stage[k]
      /\ UNCHANGED <<article, number, removed, forgotten>>
  BY DEF TypeInv, TypeOK
<1>2. ASSUME NEW q \in Session, pc[q] \in PostPC PROVE msg[q] \in Msg \ {m}
  BY <1>1, <1>2 DEF StageAt, TypeInv, Posting
<1>3. Distinct'
  BY <1>1, <1>2 DEF Distinct, Others, Alone
<1>4. StageAt(p)'
  BY <1>1 DEF StageAt, Filed, Numbered, Writing
<1>5. ASSUME NEW q \in Session \ {p} PROVE StageAt(q)'
  <2>1. pc'[q] = pc[q] /\ msg'[q] = msg[q] /\ cand'[q] = cand[q]
    BY DEF Others, Alone
  <2> QED
    BY <1>1, <1>2, <2>1 DEF StageAt
<1>6. FilesRight'
  <2>1. \A n \in DOMAIN article : article[n].msg \in Msg \ {m}
    BY <1>1 DEF FilesRight, TypeInv, TypeOK, ArticleFile
  <2>2. removed \subseteq Msg \ {m}
    BY <1>1 DEF FilesRight, TypeInv, TypeOK
  <2>3. \A k \in Msg : Kept(k) => Kept(k)'
    BY <1>1 DEF Kept, PostedAt
  <2>4. \A k \in Msg : stage'[k] \in {"stored", "published", "acked"} => Kept(k)'
    BY <1>1, <2>3 DEF FilesRight
  <2> QED
    BY <1>1, <2>1, <2>2, <2>4 DEF FilesRight
<1> QED
  BY <1>3, <1>4, <1>5, <1>6

\* O_EXCL: the file is a new one.
LEMMA StoreCreate ==
  ASSUME StoreInv, TypeInv, TypeInv', NEW p \in Session, Others(p), PostCreate(p)
  PROVE  StoreInv'
<1> USE PostPoints DEF StoreInv, PostCreate, Go, Mark, own
<1> DEFINE m == msg[p]
<1>1. /\ pc[p] = "post_open" /\ pc'[p] = "post_write" /\ m \in Msg
      /\ UNCHANGED <<msg, cand, removed, forgotten>>
      /\ stage'[m] = "stored" /\ number'[m] = cand[p]
      /\ \A k \in Msg \ {m} : stage'[k] = stage[k] /\ number'[k] = number[k]
  BY DEF TypeInv, TypeOK, Posting, PostPC
<1>2. /\ DOMAIN article' = DOMAIN article \cup {cand[p]}
      /\ cand[p] \notin DOMAIN article
      /\ article'[cand[p]].msg = m
      /\ \A n \in DOMAIN article : article'[n] = article[n]
  OBVIOUS
<1>3. stage[m] = "sent"
  BY <1>1 DEF StageAt, Unfiled, Filed, Numbered, PostPC
<1>4. ASSUME NEW q \in Session \ {p}, pc[q] \in PostPC PROVE msg[q] \in Msg \ {m}
  BY <1>1, <1>4 DEF Distinct, TypeInv, Posting, Unfiled, Filed, Numbered, PostPC
<1>5. Distinct'
  BY <1>1 DEF Distinct, Others, Alone, PostPC
<1>6. StageAt(p)'
  BY <1>1, <1>2 DEF StageAt, Writing, Unfiled, Filed, Numbered, PostPC
<1>7. ASSUME NEW q \in Session \ {p} PROVE StageAt(q)'
  <2>1. pc'[q] = pc[q] /\ msg'[q] = msg[q] /\ cand'[q] = cand[q]
    BY DEF Others, Alone
  <2> QED
    BY <1>1, <1>2, <1>4, <2>1 DEF StageAt
<1>8. FilesRight'
  <2>1. \A n \in DOMAIN article : article[n].msg \in Msg \ {m}
    BY <1>3 DEF FilesRight, TypeInv, TypeOK, ArticleFile
  <2>2. removed \subseteq Msg \ {m}
    BY <1>3 DEF FilesRight, TypeInv, TypeOK
  <2>3. \A k \in Msg \ {m} : Kept(k) => Kept(k)'
    BY <1>1, <1>2 DEF Kept, PostedAt
  <2>4. Kept(m)'
    BY <1>1, <1>2 DEF Kept, PostedAt
  <2>5. \A k \in Msg : stage'[k] \in {"stored", "published", "acked"} => Kept(k)'
    BY <1>1, <2>3, <2>4 DEF FilesRight
  <2>6. ASSUME NEW n \in DOMAIN article'
        PROVE  LET k == article'[n].msg IN
               number'[k] = n /\ k \notin removed' /\ stage'[k] \notin {"unsent", "sent"}
    BY <1>1, <1>2, <2>1, <2>2 DEF FilesRight
  <2>7. \A k \in removed' : stage'[k] \notin {"unsent", "sent"}
    BY <1>1, <2>2 DEF FilesRight
  <2> QED
    BY <1>1, <2>5, <2>6, <2>7 DEF FilesRight
<1> QED
  BY <1>5, <1>6, <1>7, <1>8

\* Writing changes no file's article.
LEMMA StoreWrite ==
  ASSUME StoreInv, TypeInv, TypeInv', NEW p \in Session, Others(p), PostWrite(p)
  PROVE  StoreInv'
<1> USE PostPoints DEF StoreInv, PostWrite, Go, own, history
<1>1. /\ pc[p] = "post_write" /\ pc'[p] = "post_save"
      /\ UNCHANGED <<msg, cand, removed, forgotten, stage, number>>
  BY DEF TypeInv, TypeOK
<1>2. /\ DOMAIN article' = DOMAIN article
      /\ \A n \in DOMAIN article : article'[n].msg = article[n].msg
  <2>1. article \in [DOMAIN article -> ArticleFile]
    BY DEF TypeInv, TypeOK
  <2> QED
    BY <2>1 DEF ArticleFile
<1>3. Distinct'
  BY <1>1 DEF Distinct, Others, Alone, PostPC
<1>4. StageAt(p)'
  BY <1>1, <1>2 DEF StageAt, Writing, Unfiled, Filed, Numbered, PostPC
<1>5. ASSUME NEW q \in Session \ {p} PROVE StageAt(q)'
  BY <1>1, <1>2 DEF Others, Alone, StageAt
<1>6. FilesRight'
  BY <1>1, <1>2 DEF FilesRight, Kept, PostedAt
<1> QED
  BY <1>3, <1>4, <1>5, <1>6

\* The administrator removes no file that is being written.
LEMMA StoreExpire ==
  ASSUME StoreInv, TypeInv, TypeInv', NEW n \in DOMAIN article, Expire(n)
  PROVE  StoreInv'
<1> USE PostPoints DEF StoreInv, Expire, own
<1>1. /\ UNCHANGED <<pc, msg, cand, stage, number, forgotten>>
      /\ DOMAIN article' = DOMAIN article \ {n}
      /\ \A k \in DOMAIN article' : article'[k] = article[k]
      /\ removed' = removed \cup {article[n].msg}
  OBVIOUS
<1>2. Distinct'
  BY <1>1 DEF Distinct
<1>3. ASSUME NEW q \in Session PROVE StageAt(q)'
  BY <1>1 DEF StageAt
<1>4. FilesRight'
  <2>1. \A m \in Msg : Kept(m) => Kept(m)'
    BY <1>1 DEF Kept, PostedAt
  <2>2. \A k \in DOMAIN article' : article'[k].msg \notin removed'
    BY <1>1 DEF FilesRight
  <2> QED
    BY <1>1, <2>1, <2>2 DEF FilesRight
<1> QED
  BY <1>2, <1>3, <1>4

\* The other steps change no file.
LEMMA StoreOther ==
  ASSUME StoreInv, TypeInv, TypeInv', NEW p \in Session, Others(p),
         \/ Waits(p) \/ FilterEnds(p) \/ Crash(p)
         \/ BeginLoad(p) \/ BeginRebuild(p)
         \/ Step(p) /\ ~PostCreate(p) /\ ~PostWrite(p)
  PROVE  StoreInv'
<1> USE DEF disk, locks, own, history, spam, PostPC, Filed, Numbered, Unfiled, Writing, LoadPC
<1>1. /\ pc \in [Session -> {"idle"} \cup PostPC \cup LoadPC]
      /\ stage \in [Msg -> Stages] /\ StageAt(p)
      /\ pc[p] \in PostPC => msg[p] \in Msg
  BY DEF TypeInv, TypeOK, StoreInv, Posting
<1>2. CASE Waits(p)
  BY <1>1, <1>2, StoreMove
  DEF Waits, PostLock, LoadLock, ConfigLock, BuildLock, SaveLock, Go, StageAt
<1>3. CASE FilterEnds(p) \/ Sigcld(p)
  BY <1>1, <1>3, StoreMove DEF FilterEnds, Sigcld, StageAt
<1>4. CASE Crash(p) \/ LoadReturn(p) \/ LoadFails(p) \/ RebuildReturn(p)
  BY <1>1, <1>4, StoreMove DEF Crash, LoadReturn, LoadFails, RebuildReturn, Return, StageAt
<1>5. CASE BeginLoad(p) \/ BeginRebuild(p) \/ LoadOpen(p) \/ SaveUnlocked(p) \/ LoadRead(p)
  BY <1>1, <1>5, StoreMove
  DEF BeginLoad, BeginRebuild, LoadOpen, SaveUnlocked, LoadRead, Go, StageAt
<1>6. CASE BuildScan(p) \/ BuildFlush(p) \/ BuildUnlock(p) \/ SaveUnlock(p)
  BY <1>1, <1>6, StoreMove
  DEF BuildScan, BuildFlush, BuildUnlock, SaveUnlock, FinishSave, Go, StageAt
<1>7. CASE PostLoad(p) \/ PostBuild(p) \/ PostBuilt(p)
  BY <1>1, <1>7, StoreMove DEF PostLoad, PostBuild, PostBuilt, FinishSave, Go, StageAt
<1>8. CASE PostFilter(p) \/ PostClose(p) \/ PostAccept(p) \/ PostSkip(p)
  BY <1>1, <1>8, StoreMove DEF PostFilter, PostClose, PostAccept, Passed, PostSkip, Go, StageAt
<1>9. CASE PostFlush(p) \/ PostUnlock(p)
  BY <1>1, <1>9, StoreMove DEF PostFlush, PostUnlock, FinishSave, Go, StageAt
<1>10. CASE PostSave(p)
  BY <1>1, <1>10, StoreMove DEF PostSave, Go, Mark, StageAt
<1>11. CASE PostRefuse(p) \/ PostReject(p) \/ PostSaveFails(p) \/ PostReply(p)
  BY <1>1, <1>11, StoreMove
  DEF PostRefuse, PostReject, PostSaveFails, PostReply, Return, Mark, StageAt
<1> QED
  BY <1>2, <1>3, <1>4, <1>5, <1>6, <1>7, <1>8, <1>9, <1>10, <1>11 DEF Step

\* What holds whatever fails.
Base == TypeInv /\ LockInv /\ StoreInv

LEMMA BaseInit == Init => Base
BY TypeInit, LockInit, StoreInit DEF Base

LEMMA BaseStep == Base /\ [Next]_vars => Base'
<1> SUFFICES ASSUME Base, [Next]_vars PROVE Base'
  OBVIOUS
<1>1. TypeInv'
  BY TypeStep DEF Base
<1>2. ASSUME NEW p \in Session,
             Step(p) \/ Waits(p) \/ FilterEnds(p) \/ Begins(p) \/ Crash(p)
      PROVE  Base'
  <2>1. Others(p)
    BY <1>2, OthersAlone DEF Base
  <2>2. LockInv'
    BY <1>1, <1>2, LockStep DEF Base
  <2>3. CASE \E m \in Msg : BeginPost(p, m)
    BY <1>1, <2>1, <2>2, <2>3, StoreBegin DEF Base
  <2>4. CASE PostCreate(p)
    BY <1>1, <2>1, <2>2, <2>4, StoreCreate DEF Base
  <2>5. CASE PostWrite(p)
    BY <1>1, <2>1, <2>2, <2>5, StoreWrite DEF Base
  <2> QED
    BY <1>1, <1>2, <2>1, <2>2, <2>3, <2>4, <2>5, StoreOther DEF Base, Begins
<1>3. ASSUME NEW n \in DOMAIN article, Expire(n) PROVE Base'
  <2>1. LockInv'
    BY <1>3 DEF Base, LockInv, Holding, Expire, locks, spam
  <2> QED
    BY <1>1, <1>3, <2>1, StoreExpire DEF Base
<1>4. CASE UNCHANGED vars
  BY <1>1, <1>4
  DEF vars, Base, LockInv, Holding, StoreInv, Distinct, StageAt, FilesRight, Kept, PostedAt
<1> QED
  BY <1>2, <1>3, <1>4 DEF Next

\* Where a process holds either lock.
Inside == HoldsEx \cup {"load_read", "config_read"}

\* While a process is anywhere between its flock(LOCK_EX) and its unlock, no
\* other one is, and none reads .info or .config: also when a process died and a spam
\* filter that it started holds the lock in its place.
THEOREM LockExcludes ==
  Spec => [](\A p, q \in Session :
               pc[p] \in HoldsEx /\ pc[q] \in Inside => p = q)
<1> DEFINE Excludes == \A p, q \in Session :
             pc[p] \in HoldsEx /\ pc[q] \in Inside => p = q
<1>1. Base => Excludes
  <2> SUFFICES ASSUME Base, NEW p \in Session, NEW q \in Session,
                      pc[p] \in HoldsEx, pc[q] \in Inside
               PROVE  p = q
    OBVIOUS
  <2>1. p \in exlock /\ (q \in exlock \/ q \in shlock)
    BY DEF Base, LockInv, Holding, Inside
  <2> QED
    BY <2>1 DEF Base, LockInv
<1> HIDE DEF Excludes
<1>2. Spec => []Excludes
  BY <1>1, BaseInit, BaseStep, PTL DEF Spec
<1> QED
  BY <1>2 DEF Excludes

-----------------------------------------------------------------------------
(* The spam filter.                                                        *)

FilterInv ==
  Filtering =>
    /\ \A n \in DOMAIN article : verdict[article[n].msg] = "ham"
    /\ \A p \in Session : pc[p] = "post_open" => verdict[msg[p]] = "ham"

LEMMA FilterStep ==
  ASSUME Base, Base', FilterInv, [Next]_vars
  PROVE  FilterInv'
<1> USE DEF Base, disk, locks, own, history, spam
<1> DEFINE Ham(m) == verdict[m] = "ham"
<1> SUFFICES ASSUME Filtering
             PROVE  /\ \A n \in DOMAIN article' : Ham(article[n].msg)'
                    /\ \A p \in Session : pc'[p] = "post_open" => Ham(msg[p])'
  BY DEF FilterInv
<1>1. /\ \A n \in DOMAIN article : Ham(article[n].msg) /\ article[n].msg \in Msg
      /\ \A p \in Session : pc[p] = "post_open" => Ham(msg[p]) /\ msg[p] \in Msg
  BY DEF FilterInv, TypeInv, TypeOK, ArticleFile, Posting, PostPC
<1>2. ASSUME NEW p \in Session,
             Step(p) \/ Waits(p) \/ FilterEnds(p) \/ Begins(p) \/ Crash(p)
      PROVE  /\ \A n \in DOMAIN article' : Ham(article[n].msg)'
             /\ \A q \in Session : pc'[q] = "post_open" => Ham(msg[q])'
  <2>1. \A q \in Session \ {p} : pc'[q] = pc[q] /\ msg'[q] = msg[q]
    BY <1>2, OthersAlone DEF Others, Alone
  <2>2. /\ pc \in [Session -> {"idle"} \cup PostPC \cup LoadPC]
        /\ verdict \in [Msg -> Verdicts]
        /\ article \in [DOMAIN article -> ArticleFile]
    BY DEF TypeInv, TypeOK
  <2>3. CASE FilterEnds(p)
    <3>1. UNCHANGED <<pc, msg, article>>
      BY <2>3 DEF FilterEnds
    <3>2. CASE UNCHANGED verdict
      BY <1>1, <3>1, <3>2
    <3>3. CASE filter[p] = "runs"
      <4>1. pc[p] \in FilterPC
        BY <3>3 DEF LockInv, Holding
      <4>2. stage[msg[p]] = "sent" /\ pc[p] \in PostPC
        BY <4>1, PostPoints DEF FilterPC, StoreInv, StageAt, Unfiled, PostPC, Filed, Numbered
      <4>3. \A n \in DOMAIN article : article[n].msg # msg[p]
        BY <4>2 DEF StoreInv, FilesRight
      <4>4. \A q \in Session : pc[q] = "post_open" => msg[q] # msg[p]
        BY <4>1, <4>2 DEF FilterPC, StoreInv, Distinct, PostPC
      <4>5. \A m \in Msg \ {msg[p]} : verdict'[m] = verdict[m]
        BY <2>2, <2>3, <3>3 DEF FilterEnds
      <4> QED
        BY <1>1, <3>1, <4>3, <4>4, <4>5
    <3> QED
      BY <2>3, <3>2, <3>3 DEF FilterEnds
  <2>4. CASE PostAccept(p)
    BY <1>1, <2>1, <2>2, <2>4 DEF PostAccept, Passed
  <2>5. CASE PostCreate(p)
    BY <1>1, <2>1, <2>2, <2>5 DEF PostCreate, Go
  <2>6. CASE PostWrite(p)
    <3>1. /\ DOMAIN article' = DOMAIN article
          /\ \A n \in DOMAIN article : article'[n].msg = article[n].msg
      BY <2>2, <2>6 DEF PostWrite, ArticleFile
    <3> QED
      BY <1>1, <2>1, <2>2, <2>6, <3>1 DEF PostWrite, Go
  <2>7. CASE Waits(p) \/ Begins(p) \/ Crash(p)
    BY <1>1, <2>1, <2>2, <2>7
    DEF Waits, PostLock, LoadLock, ConfigLock, BuildLock, SaveLock, Begins, BeginPost,
        BeginLoad, BeginRebuild, Crash, Return, Go
  <2>8. CASE Step(p) /\ ~PostAccept(p) /\ ~PostCreate(p) /\ ~PostWrite(p)
    <3>1. UNCHANGED <<article, verdict>>
      BY <2>8 DEF Step, PostLoad, PostBuild, PostBuilt, PostRefuse, PostFilter, PostClose,
                  PostReject, Sigcld, PostSkip, PostSave, PostSaveFails, PostFlush,
                  PostUnlock, PostReply, LoadOpen, SaveUnlocked, LoadRead, LoadReturn,
                  LoadFails, RebuildReturn,
                  BuildScan, BuildFlush, BuildUnlock, SaveUnlock, FinishSave
    <3>2. pc'[p] = "post_open" => pc[p] = "post_open" /\ msg'[p] = msg[p]
      BY <2>2, <2>8
      DEF Step, PostLoad, PostBuild, PostBuilt, PostRefuse, PostFilter, PostClose, PostReject,
          Sigcld, PostSkip, PostSave, PostSaveFails, PostFlush, PostUnlock, PostReply,
          LoadOpen, SaveUnlocked, LoadRead, LoadReturn, LoadFails, RebuildReturn, BuildScan,
          BuildFlush, BuildUnlock, SaveUnlock, Go, Return
    <3> QED
      BY <1>1, <2>1, <3>1, <3>2
  <2> QED
    BY <1>2, <2>3, <2>4, <2>5, <2>6, <2>7, <2>8
<1>3. ASSUME NEW n \in DOMAIN article, Expire(n)
      PROVE  /\ \A k \in DOMAIN article' : Ham(article[k].msg)'
             /\ \A q \in Session : pc'[q] = "post_open" => Ham(msg[q])'
  BY <1>1, <1>3 DEF Expire
<1>4. CASE UNCHANGED vars
  BY <1>1, <1>4 DEF vars
<1> QED
  BY <1>2, <1>3, <1>4 DEF Next

\* With a spam filter, no article is in the spool that the filter did not pass:
\* whatever dies, is refused, or collects the filter's status first.
THEOREM SpamKeptOut == Spec => []SpamStaysOut
<1>1. Init => FilterInv
  BY DEF Init, FilterInv
<1>2. Base /\ FilterInv /\ [Next]_vars => Base' /\ FilterInv'
  BY BaseStep, FilterStep
<1>3. FilterInv => SpamStaysOut
  BY DEF FilterInv, SpamStaysOut
<1> QED
  BY <1>1, <1>2, <1>3, BaseInit, PTL DEF Spec

-----------------------------------------------------------------------------
(* .info, when it is not cut short.                                        *)

\* Where Post works with the counters of .info.
Loaded == {"post_check", "post_filter", "post_wait", "post_open", "post_write", "post_save"}
Scanned == {"build_flush", "build_unlock", "config_lock", "config_read"}

\* c is what .info says, or what a process is about to write into it.
InfoIs(c) ==
  /\ \A p \in Session : pc[p] \in Saving => obj[p] = c /\ hasInfo
  /\ hasInfo /\ (\A p \in Session : pc[p] \notin Saving) => info = c
  /\ ~hasInfo => c = Zero /\ Published = {}

\* c covers all published articles; a number above c's was never given.
Covering(c) ==
  /\ c["start"] <= c["end"]
  /\ \A m \in Published \ removed : c["start"] <= number[m]
  /\ \A m \in Published \ forgotten : number[m] <= c["end"]
  /\ removed = {} => c["end"] \in DOMAIN article \cup {0}

\* What a process knows of it.
Knows(p, c) ==
  /\ pc[p] \in Loaded => obj[p] = c /\ hasInfo
  /\ pc[p] \in {"post_open"} \cup Writing => c["end"] < cand[p]
  /\ pc[p] \in {"load_lock", "load_read"} => hasInfo
  /\ known[p] \subseteq Acked
  /\ pc[p] \in Scanned => \A m \in known[p] \ removed : Covers(obj[p], m)
  /\ forgotten = {} => obj[p]["end"] <= c["end"] /\ current[p]["end"] <= c["end"]

InfoInv == \E c \in Counters : InfoIs(c) /\ Covering(c) /\ \A p \in Session : Knows(p, c)

LEMMA CounterFields ==
  ASSUME NEW c \in Counters
  PROVE  DOMAIN c = Field /\ c["start"] \in Nat /\ c["end"] \in Nat /\ c["total"] \in Nat
BY DEF Counters, Field

\* The lock keeps the others from .info while p is inside it.
LEMMA AloneInside ==
  ASSUME Base, NEW p \in Session, pc[p] \in HoldsEx \cup {"load_read"},
         NEW q \in Session, q # p
  PROVE  pc[q] \notin HoldsEx /\ pc[q] \notin Saving /\ pc[q] \notin Loaded
<1>1. (p \in exlock \/ p \in shlock) /\ q \notin exlock
  BY DEF Base, LockInv, Holding
<1>2. pc[q] \notin HoldsEx
  BY <1>1 DEF Base, LockInv, Holding
<1> QED
  BY <1>2 DEF HoldsEx, Saving, Loaded

\* The articles that were published have a number from 1 on ...
LEMMA PublishedKept ==
  ASSUME Base
  PROVE  /\ Acked \subseteq Published /\ Published \subseteq Msg
         /\ \A m \in Published : number[m] \in Nat
         /\ \A m \in Published \ removed : number[m] \in DOMAIN article /\ number[m] > 0
         /\ forgotten \subseteq removed
<1>1. \A m \in Published : m \in Msg /\ (m \in removed \/ PostedAt(m))
  BY DEF Base, StoreInv, FilesRight, Kept, Published
<1>2. DOMAIN article \subseteq Nat \ {0} /\ number \in [Msg -> Nat]
  BY DEF Base, TypeInv, TypeOK
<1>3. forgotten \subseteq removed
  BY DEF Base, StoreInv, FilesRight
<1> QED
  BY <1>1, <1>2, <1>3 DEF Acked, Published, PostedAt

\* A step that neither counts an article nor scans the directory.
LEMMA InfoMove ==
  ASSUME Base, NEW c \in Counters, InfoIs(c), Covering(c), \A q \in Session : Knows(q, c),
         NEW p \in Session, Others(p),
         UNCHANGED <<hasInfo, removed, forgotten>>, DOMAIN article \subseteq DOMAIN article',
         Published' = Published, Acked \subseteq Acked',
         \A m \in Published : number'[m] = number[m],
         IF pc[p] \in Saving THEN info' = obj[p] ELSE info' = info,
         pc'[p] \notin Saving,
         Knows(p, c)'
  PROVE  InfoIs(c)' /\ Covering(c)' /\ \A q \in Session : Knows(q, c)'
<1>1. \A q \in Session \ {p} :
        /\ pc'[q] = pc[q] /\ obj'[q] = obj[q] /\ current'[q] = current[q]
        /\ cand'[q] = cand[q] /\ known'[q] = known[q]
  BY DEF Others, Alone
<1>2. InfoIs(c)'
  BY <1>1 DEF InfoIs
<1>3. Covering(c)'
  BY DEF Covering
<1>4. ASSUME NEW q \in Session \ {p} PROVE Knows(q, c)'
  <2>1. \A m \in known[q] : number'[m] = number[m] /\ m \in Acked'
    BY PublishedKept DEF Knows
  <2> QED
    BY <1>1, <2>1 DEF Knows, Covers
<1> QED
  BY <1>2, <1>3, <1>4

\* Post counts its article: the new counters cover it and all before it.
LEMMA InfoSave ==
  ASSUME Base, Base', NEW c \in Counters, InfoIs(c), Covering(c), \A q \in Session : Knows(q, c),
         NEW p \in Session, Others(p), PostSave(p)
  PROVE  \E d \in Counters : InfoIs(d)' /\ Covering(d)' /\ \A q \in Session : Knows(q, d)'
<1> DEFINE n == cand[p]
           d == Counted(c, n)
<1> USE DEF PostSave, Go, Set, Mark
<1>1. /\ pc[p] = "post_save" /\ pc'[p] = "post_flush"
      /\ UNCHANGED <<article, current, cand, msg, number, removed, known, forgotten>>
      /\ info' = Empty /\ hasInfo'
      /\ msg[p] \in Msg /\ n \in Nat \ {0}
  BY DEF Base, TypeInv, TypeOK, Posting, PostPC, Numbered
<1>2. obj[p] = c /\ c["end"] < n
  BY <1>1 DEF Knows, Loaded, Writing
<1>3. d \in Counters /\ obj'[p] = d
  BY <1>1, <1>2, CountedType DEF Base, TypeInv, TypeOK
<1>4. /\ d["end"] = n
      /\ d["start"] \in {1, c["start"]}
  BY DEF Counted, Field
<1>5. c["start"] \in Nat /\ c["end"] \in Nat
  BY CounterFields
<1>6. Published' = Published \cup {msg[p]} /\ Acked' = Acked
  BY <1>1 DEF Published, Acked, Base, TypeInv, TypeOK, StoreInv, StageAt, Writing
<1>7. number[msg[p]] = n /\ n \in DOMAIN article
  BY <1>1 DEF Base, StoreInv, StageAt, Filed, Numbered, Writing
<1>8. ASSUME NEW q \in Session \ {p}
      PROVE  /\ pc'[q] = pc[q] /\ obj'[q] = obj[q]
             /\ pc[q] \notin Saving /\ pc[q] \notin Loaded
             /\ pc[q] \notin {"post_open"} \cup Writing
  BY <1>1, AloneInside DEF Others, Alone, HoldsEx, Loaded, Writing
<1>9. InfoIs(d)'
  BY <1>1, <1>3, <1>8 DEF InfoIs, Saving
<1>10. Covering(d)'
  <2>1. d["start"] <= d["end"]
    BY <1>1, <1>2, <1>4, <1>5 DEF Covering
  <2>2. ASSUME NEW m \in Published \ removed PROVE d["start"] <= number[m]
    BY <1>4, <1>5, PublishedKept DEF Covering
  <2>3. ASSUME NEW m \in Published \ forgotten PROVE number[m] <= d["end"]
    BY <1>1, <1>2, <1>4, <1>5, PublishedKept DEF Covering
  <2> QED
    BY <1>1, <1>4, <1>6, <1>7, <2>1, <2>2, <2>3 DEF Covering
<1>11. ASSUME NEW q \in Session PROVE Knows(q, d)'
  <2>1. forgotten = {} => current[q]["end"] <= n /\ obj[q]["end"] <= n
    <3>1. current[q]["end"] \in Nat /\ obj[q]["end"] \in Nat
      BY CounterFields DEF Base, TypeInv, TypeOK
    <3> QED
      BY <1>1, <1>2, <1>5, <3>1 DEF Knows
  <2>2. CASE q = p
    BY <1>1, <1>3, <1>4, <1>6, <2>1, <2>2 DEF Knows, Loaded, Writing, Scanned
  <2>3. CASE q # p
    BY <1>1, <1>4, <1>6, <1>8, <2>1, <2>3 DEF Knows, Covers
  <2> QED
    BY <2>2, <2>3
<1> QED
  BY <1>3, <1>9, <1>10, <1>11

\* A scan: the new counters cover the files that are there.
LEMMA InfoScan ==
  ASSUME Base, Base', NEW c \in Counters, InfoIs(c), Covering(c), \A q \in Session : Knows(q, c),
         NEW p \in Session, Others(p), PostBuild(p) \/ BuildScan(p)
  PROVE  \E d \in Counters : InfoIs(d)' /\ Covering(d)' /\ \A q \in Session : Knows(q, d)'
<1>0. PICK d \in Counters : d = obj'[p]
  BY DEF Base, TypeInv, TypeOK
<1>1. /\ pc[p] \in HoldsEx /\ pc'[p] \in Saving /\ pc'[p] \notin Loaded
      /\ pc'[p] \notin {"load_lock", "load_read", "post_open"} \cup Writing
      /\ UNCHANGED <<article, current, cand, msg, number, removed, known, stage>>
      /\ forgotten' = removed
      /\ info' = Empty /\ hasInfo'
  BY DEF PostBuild, BuildScan, Go, ScanAndTruncate, HoldsEx, Saving, Loaded, Writing, Base,
         TypeInv, TypeOK
<1>3. Scan(d)
  BY <1>0 DEF PostBuild, BuildScan, ScanAndTruncate, Set, Base, TypeInv, TypeOK
<1>4. /\ d["start"] <= d["end"]
      /\ \A n \in DOMAIN article : d["start"] <= n /\ n <= d["end"]
      /\ d["end"] \in DOMAIN article \cup {0}
  BY <1>3, CounterFields DEF Scan
<1>5. Published' = Published /\ Acked' = Acked
  BY <1>1 DEF Published, Acked
<1>6. ASSUME NEW q \in Session \ {p}
      PROVE  /\ pc'[q] = pc[q] /\ obj'[q] = obj[q]
             /\ pc[q] \notin Saving /\ pc[q] \notin Loaded
             /\ pc[q] \notin {"post_open"} \cup Writing
  BY <1>1, AloneInside DEF Others, Alone, HoldsEx, Loaded, Writing
<1>7. InfoIs(d)'
  BY <1>0, <1>1, <1>6 DEF InfoIs
<1>8. Covering(d)'
  BY <1>1, <1>4, <1>5, PublishedKept DEF Covering
<1>9. ASSUME NEW q \in Session PROVE Knows(q, d)'
  <2>1. removed = {} => current[q]["end"] <= d["end"] /\ obj'[q]["end"] <= d["end"]
    <3>1. SUFFICES ASSUME removed = {}
                   PROVE  current[q]["end"] <= d["end"] /\ obj'[q]["end"] <= d["end"]
      OBVIOUS
    <3>2. c["end"] <= d["end"] /\ forgotten = {}
      BY <1>4, <3>1, CounterFields, PublishedKept DEF Covering
    <3>3. /\ current[q]["end"] \in Nat /\ obj[q]["end"] \in Nat
          /\ c["end"] \in Nat /\ d["end"] \in Nat
      BY CounterFields DEF Base, TypeInv, TypeOK
    <3>4. current[q]["end"] <= c["end"] /\ obj[q]["end"] <= c["end"]
      BY <3>2 DEF Knows
    <3> QED
      BY <1>0, <1>6, <3>2, <3>3, <3>4
  <2>2. CASE q = p
    <3>1. \A m \in known[p] \ removed : d["start"] <= number[m] /\ number[m] <= d["end"]
      BY <1>4, PublishedKept DEF Knows
    <3>2. known[p] \subseteq Acked
      BY DEF Knows
    <3> QED
      BY <1>0, <1>1, <1>5, <2>1, <2>2, <3>1, <3>2 DEF Knows, Covers
  <2>3. CASE q # p
    BY <1>1, <1>5, <1>6, <2>1, <2>3 DEF Knows, Covers
  <2> QED
    BY <2>2, <2>3
<1> QED
  BY <1>7, <1>8, <1>9

\* The steps of Post that change no counters.
LEMMA InfoPost ==
  ASSUME Base, Base', NEW c \in Counters, InfoIs(c), Covering(c), \A q \in Session : Knows(q, c),
         "writeError" \notin Faults, NEW p \in Session, Others(p),
         \/ \E m \in Msg : BeginPost(p, m)
         \/ PostLock(p) \/ PostLoad(p) \/ PostBuilt(p) \/ PostFilter(p) \/ PostClose(p)
         \/ FilterEnds(p) \/ Sigcld(p) \/ PostReject(p) \/ PostRefuse(p) \/ PostAccept(p)
         \/ PostSkip(p) \/ PostCreate(p) \/ PostWrite(p) \/ PostSaveFails(p)
         \/ PostFlush(p) \/ PostUnlock(p) \/ PostReply(p)
  PROVE  InfoIs(c)' /\ Covering(c)' /\ \A q \in Session : Knows(q, c)'
<1> USE DEF disk, locks, own, history, spam
<1>1. /\ pc \in [Session -> {"idle"} \cup PostPC \cup LoadPC]
      /\ stage \in [Msg -> Stages] /\ number \in [Msg -> Nat]
      /\ pc[p] \in PostPC => msg[p] \in Msg
      /\ StageAt(p) /\ Knows(p, c)
      /\ obj \in [Session -> Counters] /\ current \in [Session -> Counters]
      /\ cand \in [Session -> Nat] /\ known \in [Session -> SUBSET Msg]
  BY DEF Base, TypeInv, TypeOK, StoreInv, Posting
<1>2. /\ c["start"] \in Nat /\ c["end"] \in Nat /\ DOMAIN c = Field
      /\ c \in [Field -> Nat]
  BY CounterFields DEF Counters
<1>3. \A m \in Msg : m \in Acked => m \in Published
  BY PublishedKept
<1>4. ASSUME NEW m \in Msg, BeginPost(p, m)
      PROVE  InfoIs(c)' /\ Covering(c)' /\ \A q \in Session : Knows(q, c)'
  <2>1. Published' = Published /\ Acked' = Acked
    BY <1>1, <1>4 DEF BeginPost, Mark, Published, Acked
  <2> QED
    BY <1>1, <1>4, <2>1, InfoMove
    DEF BeginPost, Go, Knows, Loaded, Saving, Scanned, Writing
<1>5. CASE PostLock(p) \/ PostFilter(p) \/ PostClose(p) \/ FilterEnds(p) \/ Sigcld(p)
  <2>1. Published' = Published /\ Acked' = Acked
    BY <1>5 DEF PostLock, PostFilter, PostClose, FilterEnds, Sigcld, Published, Acked
  <2>2. Knows(p, c)' /\ pc'[p] \notin Saving /\ pc[p] \notin Saving
    <3>1. CASE FilterEnds(p) \/ Sigcld(p)
      <4>1. pc[p] \notin Saving
        BY <3>1 DEF FilterEnds, Sigcld, Base, LockInv, Holding, FilterPC, Saving
      <4> QED
        BY <1>1, <2>1, <3>1, <4>1 DEF FilterEnds, Sigcld, Knows, Covers
    <3>2. CASE PostLock(p) \/ PostFilter(p) \/ PostClose(p)
      BY <1>1, <2>1, <3>2
      DEF PostLock, PostFilter, PostClose, Go, Knows, Loaded, Saving, Scanned, Writing
    <3> QED
      BY <1>5, <3>1, <3>2
  <2> QED
    BY <1>1, <1>5, <2>1, <2>2, InfoMove
    DEF PostLock, PostFilter, PostClose, FilterEnds, Sigcld, Go
<1>6. CASE PostLoad(p)
  <2>1. Published' = Published /\ Acked' = Acked
    BY <1>6 DEF PostLoad, Published, Acked
  <2>2. info = c
    <3>1. pc[p] \in HoldsEx /\ pc[p] \notin Saving
      BY <1>6 DEF PostLoad, Go, HoldsEx, Saving
    <3> QED
      BY <1>6, <3>1, AloneInside DEF PostLoad, InfoIs
  <2>3. Parsed(obj[p]) = c
    BY <1>2, <2>2 DEF Parsed
  <2>4. Knows(p, c)' /\ pc'[p] \notin Saving /\ pc[p] \notin Saving
    BY <1>1, <1>2, <1>6, <2>1, <2>3
    DEF PostLoad, Go, Set, Knows, Loaded, Saving, Scanned, Writing
  <2> QED
    BY <1>6, <2>1, <2>4, InfoMove DEF PostLoad
<1>7. CASE PostBuilt(p) \/ PostFlush(p)
  <2>1. Published' = Published /\ Acked' = Acked
    BY <1>7 DEF PostBuilt, PostFlush, Published, Acked
  <2>2. pc[p] \in Saving /\ info' = obj[p] /\ hasInfo
    BY <1>7 DEF PostBuilt, PostFlush, Go, FinishSave, Saving, InfoIs
  <2>3. obj[p] = c
    BY <2>2 DEF InfoIs
  <2>4. Knows(p, c)' /\ pc'[p] \notin Saving
    BY <1>1, <1>7, <2>1, <2>2, <2>3
    DEF PostBuilt, PostFlush, FinishSave, Go, Knows, Loaded, Saving, Scanned, Writing
  <2> QED
    BY <1>7, <2>1, <2>2, <2>4, InfoMove DEF PostBuilt, PostFlush, FinishSave
<1>8. CASE PostAccept(p) \/ PostSkip(p)
  <2>1. Published' = Published /\ Acked' = Acked
    BY <1>8 DEF PostAccept, PostSkip, Published, Acked
  <2>2. pc[p] \in Loaded /\ pc'[p] = "post_open" /\ pc[p] \notin Saving
    BY <1>1, <1>8 DEF PostAccept, PostSkip, Passed, Loaded, Saving
  <2>3. c["end"] < cand'[p]
    <3>1. CASE PostAccept(p)
      BY <1>1, <1>2, <2>2, <3>1 DEF PostAccept, Knows
    <3>2. CASE PostSkip(p)
      BY <1>1, <1>2, <3>2 DEF PostSkip, Knows
    <3> QED
      BY <1>8, <3>1, <3>2
  <2>4. Knows(p, c)' /\ pc'[p] \notin Saving
    BY <1>1, <1>8, <2>1, <2>2, <2>3
    DEF PostAccept, PostSkip, Knows, Loaded, Saving, Scanned, Writing
  <2> QED
    BY <1>8, <2>1, <2>2, <2>4, InfoMove DEF PostAccept, PostSkip
<1>9. CASE PostCreate(p) \/ PostWrite(p)
  <2>1. stage[msg[p]] \in {"sent", "stored"} /\ msg[p] \in Msg
    BY <1>1, <1>9 DEF PostCreate, PostWrite, Go, StageAt, Unfiled, Filed, Numbered, Writing, PostPC
  <2>2. Published' = Published /\ Acked' = Acked
    BY <1>1, <1>9, <2>1 DEF PostCreate, PostWrite, Mark, Published, Acked
  <2>3. \A m \in Published : number'[m] = number[m]
    BY <1>1, <1>9, <2>1 DEF PostCreate, PostWrite, Published
  <2>4. DOMAIN article \subseteq DOMAIN article'
    BY <1>9 DEF PostCreate, PostWrite
  <2>5. Knows(p, c)' /\ pc'[p] \notin Saving /\ pc[p] \notin Saving
    BY <1>1, <1>9, <2>2
    DEF PostCreate, PostWrite, Go, Knows, Loaded, Saving, Scanned, Writing
  <2> QED
    BY <1>9, <2>2, <2>3, <2>4, <2>5, InfoMove DEF PostCreate, PostWrite
<1>10. CASE PostReject(p) \/ PostRefuse(p) \/ PostSaveFails(p) \/ PostReply(p)
  <2>1. /\ pc'[p] = "idle" /\ pc[p] \notin Saving /\ known'[p] = {} /\ obj'[p] = Zero
        /\ current' = current
    BY <1>1, <1>10 DEF PostReject, PostRefuse, PostSaveFails, PostReply, Return, Saving
  <2>2. CASE PostReply(p)
    <3>1. stage[msg[p]] = "published" /\ msg[p] \in Msg
      BY <1>1, <2>2 DEF PostReply, StageAt, Filed, Numbered, Writing, PostPC
    <3>2. Published' = Published /\ Acked \subseteq Acked'
      BY <1>1, <2>2, <3>1 DEF PostReply, Mark, Published, Acked
    <3>3. Knows(p, c)'
      BY <1>1, <1>2, <2>1, <2>2 DEF PostReply, Knows, Zero, Field, Loaded, Writing, Scanned
    <3> QED
      BY <2>1, <2>2, <3>2, <3>3, InfoMove DEF PostReply, Saving
  <2>3. CASE PostReject(p) \/ PostRefuse(p) \/ PostSaveFails(p)
    <3>1. stage[msg[p]] \in {"sent", "stored"} /\ msg[p] \in Msg
      BY <1>1, <2>3
      DEF PostReject, PostRefuse, PostSaveFails, StageAt, Unfiled, Filed, Numbered, Writing,
          PostPC
    <3>2. Published' = Published /\ Acked' = Acked
      BY <1>1, <2>3, <3>1
      DEF PostReject, PostRefuse, PostSaveFails, Mark, Published, Acked
    <3>3. Knows(p, c)'
      BY <1>1, <1>2, <2>1, <2>3
      DEF PostReject, PostRefuse, PostSaveFails, Knows, Zero, Field, Loaded, Writing, Scanned
    <3> QED
      BY <2>1, <2>3, <3>2, <3>3, InfoMove DEF PostReject, PostRefuse, PostSaveFails, Saving
  <2> QED
    BY <1>10, <2>2, <2>3
<1>11. CASE PostUnlock(p)
  <2>1. Published' = Published /\ Acked' = Acked
    BY <1>11 DEF PostUnlock, Published, Acked
  <2>2. Knows(p, c)' /\ pc'[p] \notin Saving /\ pc[p] \notin Saving
    BY <1>1, <1>11, <2>1 DEF PostUnlock, Go, Knows, Loaded, Saving, Scanned, Writing
  <2> QED
    BY <1>11, <2>1, <2>2, InfoMove DEF PostUnlock
<1> QED
  BY <1>4, <1>5, <1>6, <1>7, <1>8, <1>9, <1>10, <1>11

\* Those of LoadInfo and BuildInfo, and the end of a process.
LEMMA InfoLoad ==
  ASSUME Base, Base', NEW c \in Counters, InfoIs(c), Covering(c), \A q \in Session : Knows(q, c),
         "writeError" \notin Faults, "tornInfo" \notin Faults, NEW p \in Session, Others(p),
         \/ BeginLoad(p) \/ BeginRebuild(p) \/ LoadOpen(p) \/ SaveUnlocked(p) \/ LoadLock(p)
         \/ ConfigLock(p) \/ LoadRead(p)
         \/ LoadReturn(p) \/ LoadFails(p) \/ RebuildReturn(p) \/ BuildLock(p) \/ SaveLock(p)
         \/ BuildFlush(p)
         \/ BuildUnlock(p) \/ SaveUnlock(p) \/ Crash(p)
  PROVE  InfoIs(c)' /\ Covering(c)' /\ \A q \in Session : Knows(q, c)'
<1> USE DEF disk, locks, own, history, spam
<1>1. /\ pc \in [Session -> {"idle"} \cup PostPC \cup LoadPC]
      /\ Knows(p, c)
      /\ obj \in [Session -> Counters] /\ current \in [Session -> Counters]
      /\ known \in [Session -> SUBSET Msg]
  BY DEF Base, TypeInv, TypeOK
<1>2. /\ c["start"] \in Nat /\ c["end"] \in Nat /\ DOMAIN c = Field
      /\ c \in [Field -> Nat]
      /\ Zero["end"] = 0
  BY CounterFields DEF Counters, Zero, Field
<1>3. Published' = Published /\ Acked' = Acked
  BY
  DEF BeginLoad, BeginRebuild, LoadOpen, SaveUnlocked, LoadLock, ConfigLock, LoadRead,
      LoadReturn, LoadFails, RebuildReturn, BuildLock, SaveLock, BuildFlush, BuildUnlock,
      SaveUnlock, Crash, Published, Acked
<1>4. CASE BeginLoad(p) \/ BeginRebuild(p)
  <2>1. Knows(p, c)' /\ pc'[p] \notin Saving /\ pc[p] \notin Saving
    BY <1>1, <1>2, <1>3, <1>4
    DEF BeginLoad, BeginRebuild, Go, Set, Knows, Loaded, Saving, Scanned, Writing
  <2> QED
    BY <1>3, <1>4, <2>1, InfoMove DEF BeginLoad, BeginRebuild
<1>5. CASE LoadOpen(p) \/ SaveUnlocked(p) \/ LoadLock(p) \/ ConfigLock(p)
           \/ BuildLock(p) \/ SaveLock(p)
  <2>1. UNCHANGED <<disk, own, history>>
    BY <1>5 DEF LoadOpen, SaveUnlocked, LoadLock, ConfigLock, BuildLock, SaveLock
  <2>2. \/ pc[p] = "config_lock" /\ pc'[p] = "config_read"
        \/ pc[p] \in {"save_lock", "load_open", "build_lock"}
           /\ pc'[p] \in {"build_lock", "save_write", "build_scan"}
        \/ pc'[p] \in {"load_lock", "load_read"} /\ (hasInfo \/ pc[p] = "load_lock")
    BY <1>1, <1>5
    DEF LoadOpen, SaveUnlocked, LoadLock, ConfigLock, BuildLock, SaveLock, Go
  <2>3. pc'[p] \notin Saving /\ pc[p] \notin Saving
    BY <1>1, <1>5
    DEF LoadOpen, SaveUnlocked, LoadLock, ConfigLock, BuildLock, SaveLock, Go, Saving
  <2>4. Knows(p, c)'
    BY <1>1, <1>3, <2>1, <2>2 DEF Knows, Covers, Loaded, Scanned, Writing
  <2> QED
    BY <1>3, <2>1, <2>3, <2>4, InfoMove
<1>6. CASE LoadRead(p)
  <2>1. info = c
    <3>1. pc[p] = "load_read" /\ hasInfo
      BY <1>6 DEF LoadRead, Go, Knows
    <3>2. \A q \in Session : pc[q] \notin Saving
      BY <3>1, AloneInside DEF Saving
    <3> QED
      BY <3>1, <3>2 DEF InfoIs
  <2>2. Parsed(obj[p]) = c
    BY <1>2, <2>1 DEF Parsed
  <2>3. \A m \in known[p] \ removed : c["start"] <= number[m] /\ number[m] <= c["end"]
    BY PublishedKept DEF Knows, Covering
  <2>4. Knows(p, c)' /\ pc'[p] \notin Saving /\ pc[p] \notin Saving
    BY <1>1, <1>2, <1>3, <1>6, <2>2, <2>3
    DEF LoadRead, Go, Set, Knows, Covers, Loaded, Saving, Scanned, Writing
  <2> QED
    BY <1>3, <1>6, <2>4, InfoMove DEF LoadRead
<1>7. CASE LoadReturn(p) \/ LoadFails(p) \/ RebuildReturn(p)
  <2>1. Knows(p, c)' /\ pc'[p] \notin Saving /\ pc[p] \notin Saving
    BY <1>1, <1>2, <1>3, <1>7
    DEF LoadReturn, LoadFails, RebuildReturn, Return, Knows, Loaded, Saving, Scanned, Writing
  <2> QED
    BY <1>3, <1>7, <2>1, InfoMove DEF LoadReturn, LoadFails, RebuildReturn
<1>8. CASE BuildFlush(p)
  <2>1. pc[p] \in Saving /\ info' = obj[p]
    BY <1>8 DEF BuildFlush, Go, FinishSave, Saving
  <2>2. Knows(p, c)' /\ pc'[p] \notin Saving
    BY <1>1, <1>3, <1>8
    DEF BuildFlush, Go, FinishSave, Knows, Covers, Loaded, Saving, Scanned, Writing
  <2> QED
    BY <1>3, <1>8, <2>1, <2>2, InfoMove DEF BuildFlush, FinishSave
<1>9. CASE BuildUnlock(p) \/ SaveUnlock(p)
  <2>1. Knows(p, c)' /\ pc'[p] \notin Saving /\ pc[p] \notin Saving
    BY <1>1, <1>3, <1>9
    DEF BuildUnlock, SaveUnlock, Go, Knows, Covers, Loaded, Saving, Scanned, Writing
  <2> QED
    BY <1>3, <1>9, <2>1, InfoMove DEF BuildUnlock, SaveUnlock
<1>10. CASE Crash(p)
  <2>1. IF pc[p] \in Saving THEN info' = obj[p] ELSE info' = info
    BY <1>10 DEF Crash
  <2>2. Knows(p, c)' /\ pc'[p] \notin Saving
    BY <1>1, <1>2, <1>3, <1>10 DEF Crash, Return, Knows, Loaded, Saving, Scanned, Writing
  <2> QED
    BY <1>3, <1>10, <2>1, <2>2, InfoMove DEF Crash
<1> QED
  BY <1>4, <1>5, <1>6, <1>7, <1>8, <1>9, <1>10

\* A removal takes nothing out of .info.
LEMMA InfoExpire ==
  ASSUME Base, NEW c \in Counters, InfoIs(c), Covering(c), \A q \in Session : Knows(q, c),
         NEW n \in DOMAIN article, Expire(n)
  PROVE  InfoIs(c)' /\ Covering(c)' /\ \A q \in Session : Knows(q, c)'
<1>1. /\ UNCHANGED <<info, hasInfo, pc, obj, current, cand, stage, number, known, forgotten>>
      /\ removed \subseteq removed' /\ removed' # {}
  BY DEF Expire, own
<1>2. Published' = Published /\ Acked' = Acked
  BY <1>1 DEF Published, Acked
<1>3. InfoIs(c)' /\ Covering(c)'
  BY <1>1, <1>2 DEF InfoIs, Covering
<1>4. \A q \in Session : Knows(q, c)'
  BY <1>1, <1>2 DEF Knows, Covers
<1> QED
  BY <1>3, <1>4

\* At first .info says 0, or does not exist.
LEMMA InfoInit == Init => InfoInv
<1> SUFFICES ASSUME Init PROVE InfoIs(Zero) /\ Covering(Zero) /\ \A q \in Session : Knows(q, Zero)
  BY ZeroType DEF InfoInv
<1>1. Published = {} /\ Acked = {} /\ DOMAIN article = {}
  BY DEF Init, Published, Acked
<1>2. Zero["start"] = 0 /\ Zero["end"] = 0
  BY DEF Zero, Field
<1>3. InfoIs(Zero) /\ Covering(Zero)
  BY <1>1, <1>2 DEF Init, InfoIs, Covering, Saving
<1>4. \A q \in Session : Knows(q, Zero)
  BY <1>1, <1>2 DEF Init, Knows, Loaded, Writing, Scanned
<1> QED
  BY <1>3, <1>4

LEMMA InfoStep ==
  ASSUME "writeError" \notin Faults, "tornInfo" \notin Faults,
         Base, Base', InfoInv, [Next]_vars
  PROVE  InfoInv'
<1>1. PICK c \in Counters : InfoIs(c) /\ Covering(c) /\ \A q \in Session : Knows(q, c)
  BY DEF InfoInv
<1> SUFFICES \E d \in Counters : InfoIs(d)' /\ Covering(d)' /\ \A q \in Session : Knows(q, d)'
  BY DEF InfoInv
<1>2. ASSUME NEW p \in Session,
             Step(p) \/ Waits(p) \/ FilterEnds(p) \/ Begins(p) \/ Crash(p)
      PROVE  \E d \in Counters : InfoIs(d)' /\ Covering(d)' /\ \A q \in Session : Knows(q, d)'
  <2>1. Others(p)
    BY <1>2, OthersAlone DEF Base
  <2>2. CASE PostSave(p)
    BY <1>1, <2>1, <2>2, InfoSave
  <2>3. CASE PostBuild(p) \/ BuildScan(p)
    BY <1>1, <2>1, <2>3, InfoScan
  <2>4. CASE ~PostSave(p) /\ ~PostBuild(p) /\ ~BuildScan(p)
    BY <1>1, <1>2, <2>1, <2>4, InfoPost, InfoLoad DEF Step, Waits, Begins
  <2> QED
    BY <2>2, <2>3, <2>4
<1>3. ASSUME NEW n \in DOMAIN article, Expire(n)
      PROVE  \E d \in Counters : InfoIs(d)' /\ Covering(d)' /\ \A q \in Session : Knows(q, d)'
  BY <1>1, <1>3, InfoExpire
<1>4. CASE UNCHANGED vars
  <2>1. InfoIs(c)' /\ Covering(c)' /\ \A q \in Session : Knows(q, c)'
    BY <1>1, <1>4 DEF vars, InfoIs, Covering, Knows, Covers, Published, Acked
  <2> QED
    BY <2>1
<1> QED
  BY <1>2, <1>3, <1>4 DEF Next

\* InfoInv is what makes AckedAnnounced inductive: between SaveInfo's two ends
\* .info says nothing, and what it is about to say is in the object of the
\* process that has the lock.
Announced == Base /\ InfoInv

LEMMA AnnouncedAlways ==
  ASSUME "writeError" \notin Faults, "tornInfo" \notin Faults
  PROVE  Spec => []Announced
<1>1. Init => Announced
  BY BaseInit, InfoInit DEF Announced
<1>2. Announced /\ [Next]_vars => Announced'
  BY BaseStep, InfoStep DEF Announced
<1> QED
  BY <1>1, <1>2, PTL DEF Spec

\* As long as .info is not cut short, whenever the exclusive lock is free the
\* range it announces contains every acknowledged article that is there.
THEOREM AckedAreAnnounced ==
  ASSUME "writeError" \notin Faults, "tornInfo" \notin Faults
  PROVE  Spec => []AckedAnnounced
<1>1. Announced => AckedAnnounced
  <2> SUFFICES ASSUME Announced, exlock = {}, NEW m \in Acked \ removed
               PROVE  DOMAIN info = Field /\ Covers(info, m)
    BY DEF AckedAnnounced
  <2>1. PICK c \in Counters : InfoIs(c) /\ Covering(c)
    BY DEF Announced, InfoInv
  <2>2. m \in Published \ removed /\ m \in Published \ forgotten
    BY PublishedKept DEF Announced
  <2>3. \A p \in Session : pc[p] \notin Saving
    BY DEF Announced, Base, LockInv, Holding, HoldsEx, Saving
  <2>4. info = c
    BY <2>1, <2>2, <2>3 DEF InfoIs
  <2> QED
    BY <2>1, <2>2, <2>4, CounterFields DEF Covering, Covers
<1> QED
  BY <1>1, AnnouncedAlways, PTL

\* What a load read contains every article that had been acknowledged when it
\* began, whatever truncates and rewrites .info between its fopen and its lock,
\* as long as .info is not cut short.
THEOREM LoadsCoverAcked ==
  ASSUME "writeError" \notin Faults, "tornInfo" \notin Faults
  PROVE  Spec => []LoadCoversAcked
<1>1. Announced => LoadCoversAcked
  BY DEF Announced, InfoInv, Knows, Scanned, LoadCoversAcked
<1> QED
  BY <1>1, AnnouncedAlways, PTL

\* No reader is told of an article that is still being written.
THEOREM UnwrittenStayUnannounced ==
  ASSUME "writeError" \notin Faults, "tornInfo" \notin Faults
  PROVE  Spec => []UnwrittenUnannounced
<1>1. Announced => UnwrittenUnannounced
  <2> SUFFICES ASSUME Announced, NEW p \in Session, pc[p] = "post_write"
               PROVE  /\ info["end"] < cand[p]
                      /\ forgotten = {} => \A q \in Session : current[q]["end"] < cand[p]
    BY DEF UnwrittenUnannounced
  <2>1. PICK c \in Counters : InfoIs(c) /\ \A q \in Session : Knows(q, c)
    BY DEF Announced, InfoInv
  <2>2. hasInfo /\ c["end"] < cand[p]
    BY <2>1 DEF Knows, Loaded, Writing
  <2>3. \A q \in Session : pc[q] \notin Saving
    BY AloneInside DEF Announced, HoldsEx, Saving
  <2>4. info = c
    BY <2>1, <2>2, <2>3 DEF InfoIs
  <2>5. /\ c["end"] \in Nat /\ cand[p] \in Nat
        /\ \A q \in Session : current[q]["end"] \in Nat
    BY CounterFields DEF Announced, Base, TypeInv, TypeOK
  <2> QED
    BY <2>1, <2>2, <2>4, <2>5 DEF Knows
<1> QED
  BY <1>1, AnnouncedAlways, PTL

\* The number of an acknowledged article is never given again, unless the
\* directory was scanned after the file was removed, as long as .info is not
\* cut short.
THEOREM NumbersNotReused ==
  ASSUME "writeError" \notin Faults, "tornInfo" \notin Faults
  PROVE  Spec => AckedNumberNotReused
<1>1. Announced /\ [Next]_vars =>
        [\A m \in Msg : number'[m] # number[m] =>
           \A k \in Acked \ forgotten : number[k] # number'[m]]_vars
  <2> SUFFICES ASSUME Announced, Next, NEW m \in Msg, number'[m] # number[m],
                      NEW k \in Acked \ forgotten
               PROVE  number[k] # number'[m]
    OBVIOUS
  <2>1. PICK p \in Session : PostCreate(p)
    BY DEF Next, Step, Waits, Begins, Crash, Expire, FilterEnds, BeginPost, PostLock,
           PostLoad, PostBuild, PostBuilt, PostFilter, PostClose, Sigcld, PostReject,
           PostRefuse, PostAccept, PostSkip, PostWrite, PostSave, PostSaveFails, PostFlush,
           PostUnlock, PostReply, BeginLoad, BeginRebuild, LoadOpen, SaveUnlocked, LoadLock,
           ConfigLock, LoadRead, BuildLock, SaveLock, BuildScan, BuildFlush, BuildUnlock,
           SaveUnlock, LoadReturn, LoadFails, RebuildReturn, history
  <2>2. PICK c \in Counters : Covering(c) /\ Knows(p, c)
    BY DEF Announced, InfoInv
  <2>3. number'[m] = cand[p] /\ c["end"] < cand[p]
    BY <2>1, <2>2 DEF PostCreate, Go, Knows, Announced, Base, TypeInv, TypeOK
  <2>4. number[k] <= c["end"] /\ number[k] \in Nat
    BY <2>2, PublishedKept DEF Covering, Announced
  <2>5. c["end"] \in Nat /\ cand[p] \in Nat
    BY CounterFields DEF Announced, Base, TypeInv, TypeOK
  <2> QED
    BY <2>3, <2>4, <2>5
<1> QED
  BY <1>1, AnnouncedAlways, PTL DEF Spec, AckedNumberNotReused

-----------------------------------------------------------------------------
(* .info, when it may be cut short and nothing is removed.                 *)

Ends == DOMAIN article \cup {0}

Healing(p) ==
  /\ obj[p]["start"] <= 1 /\ obj[p]["end"] \in Ends
  /\ current[p]["start"] <= 1 /\ current[p]["end"] \in Ends
  /\ pc[p] = "post_open" => \A i \in 1 .. cand[p] - 1 : i \in DOMAIN article
  /\ pc[p] \in Filed \ {"post_reply"} =>
       cand[p] \in DOMAIN article /\ \A n \in DOMAIN article : n <= cand[p]
  /\ pc[p] \in {"post_flush", "post_unlock"} => obj[p]["end"] = cand[p]
  /\ pc[p] = "post_unlock" => info = obj[p]

\* The files are numbered without gaps, and .info, whatever is left of it, ends
\* at one of them.
HealInv ==
  removed = {} =>
    /\ \A n \in DOMAIN article : \A i \in 1 .. n : i \in DOMAIN article
    /\ "start" \in DOMAIN info => info["start"] <= 1
    /\ "end" \in DOMAIN info => info["end"] \in Ends
    /\ \A p \in Session : Healing(p)

\* A step of p that leaves the files alone, and changes .info only under the lock.
LEMMA HealMove ==
  ASSUME Base, removed' = {} => removed = {} /\ HealInv, NEW p \in Session, Others(p),
         UNCHANGED article,
         info' = info \/ pc[p] \in HoldsEx,
         removed = {} =>
           /\ "start" \in DOMAIN info' => info'["start"] <= 1
           /\ "end" \in DOMAIN info' => info'["end"] \in Ends
           /\ Healing(p)'
  PROVE  HealInv'
<1> SUFFICES ASSUME removed' = {}
             PROVE  /\ \A n \in DOMAIN article' : \A i \in 1 .. n : i \in DOMAIN article'
                    /\ "start" \in DOMAIN info' => info'["start"] <= 1
                    /\ "end" \in DOMAIN info' => info'["end"] \in Ends'
                    /\ \A q \in Session : Healing(q)'
  BY DEF HealInv
<1>1. Ends' = Ends
  BY DEF Ends
<1>2. ASSUME NEW q \in Session \ {p} PROVE Healing(q)'
  <2>1. pc[q] = "post_unlock" => info' = info
    BY AloneInside DEF HoldsEx
  <2>2. /\ pc'[q] = pc[q] /\ obj'[q] = obj[q] /\ current'[q] = current[q]
        /\ cand'[q] = cand[q]
    BY DEF Others, Alone
  <2>3. Healing(q)
    BY DEF HealInv
  <2> QED
    BY <1>1, <2>1, <2>2, <2>3 DEF Healing
<1> QED
  BY <1>1, <1>2 DEF HealInv

LEMMA HealInit == Init => HealInv
<1>1. Zero["start"] = 0 /\ Zero["end"] = 0
  BY DEF Zero, Field
<1> QED
  BY <1>1 DEF Init, HealInv, Healing, Ends, Empty, Filed, Numbered

\* The walk over EEXIST stopped at the first number that is free: the files have
\* no gap below it and none is above.
LEMMA HealCreate ==
  ASSUME Base, Base', HealInv, NEW p \in Session, Others(p), PostCreate(p)
  PROVE  HealInv'
<1> USE DEF PostCreate, Go, own
<1> DEFINE k == cand[p]
<1> SUFFICES ASSUME removed = {} PROVE HealInv'
  BY DEF HealInv
<1>1. /\ DOMAIN article' = DOMAIN article \cup {k} /\ k \notin DOMAIN article
      /\ DOMAIN article \subseteq Nat \ {0} /\ k \in Nat \ {0}
      /\ pc[p] = "post_open" /\ pc'[p] = "post_write"
      /\ UNCHANGED <<info, obj, current, cand, msg, removed>>
  BY DEF Base, TypeInv, TypeOK, Posting, Numbered, PostPC
<1>2. /\ \A n \in DOMAIN article : \A i \in 1 .. n : i \in DOMAIN article
      /\ \A i \in 1 .. k - 1 : i \in DOMAIN article
  BY <1>1 DEF HealInv, Healing
<1>3. \A n \in DOMAIN article' : n <= k
  <2> SUFFICES ASSUME NEW n \in DOMAIN article, k < n PROVE FALSE
    BY <1>1
  <2>1. k \in 1 .. n
    BY <1>1
  <2> QED
    BY <1>1, <1>2, <2>1
<1>4. \A n \in DOMAIN article' : \A i \in 1 .. n : i \in DOMAIN article'
  <2> SUFFICES ASSUME NEW i \in 1 .. k PROVE i \in DOMAIN article'
    BY <1>1, <1>2
  <2>1. i = k \/ i \in 1 .. k - 1
    BY <1>1
  <2> QED
    BY <1>1, <1>2, <2>1
<1>5. Ends \subseteq Ends'
  BY <1>1 DEF Ends
<1>6. Healing(p)'
  BY <1>1, <1>3, <1>5 DEF HealInv, Healing, Filed, Numbered
<1>7. ASSUME NEW q \in Session \ {p} PROVE Healing(q)'
  <2>1. pc[q] \notin HoldsEx
    BY <1>1, AloneInside DEF HoldsEx
  <2>2. pc'[q] = pc[q]
    BY DEF Others, Alone
  <2> QED
    BY <1>1, <1>5, <2>1, <2>2 DEF HealInv, Healing, HoldsEx, Filed, Numbered
<1> QED
  BY <1>1, <1>4, <1>5, <1>6, <1>7 DEF HealInv

\* Completing a file changes none of their numbers.
LEMMA HealWrite ==
  ASSUME Base, HealInv, NEW p \in Session, Others(p), PostWrite(p)
  PROVE  HealInv'
<1> USE DEF PostWrite, Go, own, history
<1>1. /\ UNCHANGED <<info, obj, current, cand, removed>>
      /\ pc[p] = "post_write" /\ pc'[p] = "post_save"
      /\ DOMAIN article' = DOMAIN article
  BY DEF Base, TypeInv, TypeOK
<1>2. Ends' = Ends
  BY <1>1 DEF Ends
<1>3. ASSUME NEW q \in Session, Healing(q) PROVE Healing(q)'
  BY <1>1, <1>2, <1>3 DEF Healing, Filed, Numbered, Others, Alone
<1> QED
  BY <1>1, <1>2, <1>3 DEF HealInv

\* A scan finds 1 or nothing, and the highest number.
LEMMA HealScan ==
  ASSUME Base, Base', HealInv, NEW p \in Session, Others(p), PostBuild(p) \/ BuildScan(p)
  PROVE  HealInv'
<1>1. /\ UNCHANGED <<article, current, removed>>
      /\ info' = Empty
      /\ pc[p] \in HoldsEx /\ pc'[p] \in {"post_build", "build_flush"}
  BY DEF PostBuild, BuildScan, ScanAndTruncate, Go, HoldsEx, Base, TypeInv, TypeOK
<1>2. PICK d \in Counters : d = obj'[p]
  BY DEF Base, TypeInv, TypeOK
<1>3. Scan(d)
  BY <1>2 DEF PostBuild, BuildScan, ScanAndTruncate, Set, Base, TypeInv, TypeOK
<1>4. ASSUME removed = {} PROVE d["start"] <= 1 /\ d["end"] \in Ends
  <2>1. CASE DOMAIN article = {}
    BY <1>3, <2>1 DEF Scan, Ends
  <2>2. CASE DOMAIN article # {}
    <3>1. /\ d["start"] \in DOMAIN article /\ d["end"] \in DOMAIN article
          /\ \A n \in DOMAIN article : d["start"] <= n
      BY <1>3, <2>2 DEF Scan
    <3>2. 1 \in 1 .. d["start"]
      BY <3>1 DEF Base, TypeInv, TypeOK
    <3>3. 1 \in DOMAIN article
      BY <1>4, <3>1, <3>2 DEF HealInv
    <3> QED
      BY <3>1, <3>3 DEF Ends
  <2> QED
    BY <2>1, <2>2
<1>5. removed = {} => Healing(p)'
  BY <1>1, <1>2, <1>4 DEF HealInv, Healing, Ends, Filed, Numbered
<1> QED
  BY <1>1, <1>5, HealMove DEF Empty

\* Post's own article is the last one.
LEMMA HealSave ==
  ASSUME Base, Base', HealInv, NEW p \in Session, Others(p), PostSave(p)
  PROVE  HealInv'
<1>1. /\ UNCHANGED <<article, current, cand, removed>>
      /\ info' = Empty /\ pc[p] = "post_save" /\ pc'[p] = "post_flush"
      /\ obj'[p] = Counted(obj[p], cand[p])
  BY DEF PostSave, Go, Set, Base, TypeInv, TypeOK
<1>2. /\ obj'[p]["start"] \in {1, obj[p]["start"]}
      /\ obj'[p]["end"] = cand[p]
  BY <1>1 DEF Counted, Field
<1>3. removed = {} => Healing(p)'
  BY <1>1, <1>2 DEF HealInv, Healing, Ends, Filed, Numbered
<1>4. pc[p] \in HoldsEx
  BY <1>1 DEF HoldsEx
<1> QED
  BY <1>1, <1>3, <1>4, HealMove DEF Empty

\* The other steps of Post.
LEMMA HealPost ==
  ASSUME Base, Base', HealInv, "writeError" \notin Faults, NEW p \in Session, Others(p),
         \/ \E m \in Msg : BeginPost(p, m)
         \/ PostLock(p) \/ PostLoad(p) \/ PostBuilt(p) \/ PostFilter(p) \/ PostClose(p)
         \/ FilterEnds(p) \/ Sigcld(p) \/ PostReject(p) \/ PostRefuse(p) \/ PostAccept(p)
         \/ PostSkip(p) \/ PostSaveFails(p) \/ PostFlush(p) \/ PostUnlock(p) \/ PostReply(p)
  PROVE  HealInv'
<1> USE DEF disk, locks, own, history, spam
<1>1. /\ pc \in [Session -> {"idle"} \cup PostPC \cup LoadPC]
      /\ obj \in [Session -> Counters] /\ current \in [Session -> Counters]
      /\ cand \in [Session -> Nat]
      /\ DOMAIN article \subseteq Nat \ {0}
  BY DEF Base, TypeInv, TypeOK
<1>2. UNCHANGED <<article, current, removed>>
  BY DEF BeginPost, PostLock, PostLoad, PostBuilt, PostFilter, PostClose, FilterEnds, Sigcld,
         PostReject, PostRefuse, PostAccept, PostSkip, PostSaveFails, PostFlush, PostUnlock,
         PostReply, FinishSave
<1>3. Ends' = Ends /\ 0 \in Ends
  BY <1>2 DEF Ends
<1>4. removed = {} => Healing(p)
  BY DEF HealInv
<1>5. CASE \E m \in Msg : BeginPost(p, m)
  BY <1>1, <1>2, <1>3, <1>4, <1>5, HealMove DEF HealInv, BeginPost, Go, Healing, Filed, Numbered
<1>6. CASE PostLock(p) \/ PostFilter(p) \/ PostClose(p) \/ FilterEnds(p) \/ Sigcld(p)
           \/ PostUnlock(p)
  <2>1. UNCHANGED info
    BY <1>6 DEF PostLock, PostFilter, PostClose, FilterEnds, Sigcld, PostUnlock
  <2>2. removed = {} => Healing(p)'
    BY <1>1, <1>2, <1>3, <1>4, <1>6
    DEF PostLock, PostFilter, PostClose, FilterEnds, Sigcld, PostUnlock, Go, Healing, Filed,
        Numbered
  <2> QED
    BY <1>2, <2>1, <2>2, HealMove DEF HealInv
<1>7. CASE PostLoad(p)
  <2>1. UNCHANGED info /\ pc'[p] = "post_check" /\ obj'[p] = Parsed(obj[p])
    BY <1>1, <1>7 DEF PostLoad, Go, Set
  <2>2. removed = {} => obj'[p]["start"] <= 1 /\ obj'[p]["end"] \in Ends
    BY <1>4, <2>1 DEF HealInv, Healing, Parsed, Field
  <2>3. removed = {} => Healing(p)'
    BY <1>2, <1>3, <1>4, <2>1, <2>2 DEF Healing, Filed, Numbered
  <2> QED
    BY <1>2, <2>1, <2>3, HealMove DEF HealInv
<1>8. CASE PostBuilt(p) \/ PostFlush(p)
  <2>1. pc[p] \in HoldsEx /\ info' = obj[p] /\ obj' = obj /\ cand' = cand
    BY <1>8 DEF PostBuilt, PostFlush, Go, FinishSave, HoldsEx
  <2>2. removed = {} => Healing(p)'
    BY <1>1, <1>2, <1>3, <1>4, <1>8, <2>1
    DEF PostBuilt, PostFlush, Go, Healing, Filed, Numbered
  <2> QED
    BY <1>2, <1>4, <2>1, <2>2, HealMove DEF Healing
<1>9. CASE PostAccept(p) \/ PostSkip(p)
  <2>1. UNCHANGED <<info, obj>> /\ pc'[p] = "post_open"
    BY <1>1, <1>9 DEF PostAccept, PostSkip
  <2>2. ASSUME removed = {}, NEW i \in 1 .. cand'[p] - 1 PROVE i \in DOMAIN article
    <3>1. CASE PostAccept(p)
      <4>1. cand'[p] - 1 = obj[p]["end"] /\ obj[p]["end"] \in Ends
        BY <1>1, <1>4, <2>2, <3>1, CounterFields DEF PostAccept, Healing
      <4> QED
        BY <1>1, <2>2, <4>1 DEF HealInv, Ends
    <3>2. CASE PostSkip(p)
      <4>1. cand'[p] - 1 = cand[p] /\ cand[p] \in DOMAIN article
        BY <1>1, <3>2 DEF PostSkip
      <4> QED
        BY <2>2, <4>1 DEF HealInv
    <3> QED
      BY <1>9, <3>1, <3>2
  <2>3. removed = {} => Healing(p)'
    BY <1>2, <1>3, <1>4, <2>1, <2>2 DEF Healing, Filed, Numbered
  <2> QED
    BY <1>2, <2>1, <2>3, HealMove DEF HealInv
<1>10. CASE PostReject(p) \/ PostRefuse(p) \/ PostSaveFails(p) \/ PostReply(p)
  <2>1. UNCHANGED info /\ pc'[p] = "idle" /\ obj'[p] = Zero
    BY <1>1, <1>10 DEF PostReject, PostRefuse, PostSaveFails, PostReply, Return
  <2>2. Zero["start"] = 0 /\ Zero["end"] = 0
    BY DEF Zero, Field
  <2>3. removed = {} => Healing(p)'
    BY <1>2, <1>3, <1>4, <2>1, <2>2 DEF Healing, Filed, Numbered
  <2> QED
    BY <1>2, <2>1, <2>3, HealMove DEF HealInv
<1> QED
  BY <1>5, <1>6, <1>7, <1>8, <1>9, <1>10

\* Those of LoadInfo and BuildInfo, and the end of a process, which may leave a
\* part of .info.
LEMMA HealLoad ==
  ASSUME Base, Base', HealInv, "writeError" \notin Faults, NEW p \in Session, Others(p),
         \/ BeginLoad(p) \/ BeginRebuild(p) \/ LoadOpen(p) \/ SaveUnlocked(p) \/ LoadLock(p)
         \/ ConfigLock(p) \/ LoadRead(p)
         \/ LoadReturn(p) \/ LoadFails(p) \/ RebuildReturn(p) \/ BuildLock(p) \/ SaveLock(p)
         \/ BuildFlush(p)
         \/ BuildUnlock(p) \/ SaveUnlock(p) \/ Crash(p)
  PROVE  HealInv'
<1> USE DEF disk, locks, own, history, spam
<1>1. /\ pc \in [Session -> {"idle"} \cup PostPC \cup LoadPC]
      /\ obj \in [Session -> Counters] /\ current \in [Session -> Counters]
      /\ cand \in [Session -> Nat]
  BY DEF Base, TypeInv, TypeOK
<1>2. UNCHANGED <<article, removed>>
  BY
  DEF BeginLoad, BeginRebuild, LoadOpen, SaveUnlocked, LoadLock, ConfigLock, LoadRead,
      LoadReturn, LoadFails, RebuildReturn, BuildLock, SaveLock, BuildFlush, BuildUnlock,
      SaveUnlock, Crash, FinishSave
<1>3. Ends' = Ends /\ 0 \in Ends
  BY <1>2 DEF Ends
<1>4. removed = {} => Healing(p)
  BY DEF HealInv
<1>5. Zero["start"] = 0 /\ Zero["end"] = 0
  BY DEF Zero, Field
<1>6. CASE BeginLoad(p) \/ BeginRebuild(p) \/ LoadOpen(p) \/ SaveUnlocked(p) \/ LoadLock(p)
           \/ ConfigLock(p) \/ BuildLock(p) \/ SaveLock(p)
           \/ BuildUnlock(p) \/ SaveUnlock(p) \/ LoadReturn(p) \/ LoadFails(p)
           \/ RebuildReturn(p)
  <2>1. UNCHANGED info
    BY <1>6
    DEF BeginLoad, BeginRebuild, LoadOpen, SaveUnlocked, LoadLock, ConfigLock, BuildLock,
        SaveLock, BuildUnlock, SaveUnlock, LoadReturn, LoadFails, RebuildReturn
  <2>2. CASE BeginLoad(p) \/ BeginRebuild(p) \/ LoadReturn(p) \/ LoadFails(p)
             \/ RebuildReturn(p)
    <3>1. removed = {} => Healing(p)'
      BY <1>1, <1>2, <1>3, <1>4, <1>5, <2>2
      DEF BeginLoad, BeginRebuild, LoadReturn, LoadFails, RebuildReturn, Go, Set, Return,
          Healing, Filed, Numbered
    <3> QED
      BY <1>2, <2>1, <3>1, HealMove DEF HealInv
  <2>3. CASE LoadOpen(p) \/ SaveUnlocked(p) \/ LoadLock(p) \/ ConfigLock(p) \/ BuildLock(p)
             \/ SaveLock(p) \/ BuildUnlock(p) \/ SaveUnlock(p)
    <3>1. removed = {} => Healing(p)'
      BY <1>1, <1>2, <1>3, <1>4, <2>3
      DEF LoadOpen, SaveUnlocked, LoadLock, ConfigLock, BuildLock, SaveLock, BuildUnlock,
          SaveUnlock, Go, Healing, Filed, Numbered
    <3> QED
      BY <1>2, <2>1, <3>1, HealMove DEF HealInv
  <2> QED
    BY <1>6, <2>2, <2>3
<1>7. CASE LoadRead(p)
  <2>1. /\ UNCHANGED <<info, current>> /\ pc'[p] = "config_lock"
        /\ obj'[p] = Parsed(obj[p])
    BY <1>1, <1>7 DEF LoadRead, Go, Set
  <2>2. removed = {} => obj'[p]["start"] <= 1 /\ obj'[p]["end"] \in Ends
    BY <1>4, <2>1 DEF HealInv, Healing, Parsed, Field
  <2>3. removed = {} => Healing(p)'
    BY <1>2, <1>3, <1>4, <2>1, <2>2 DEF Healing, Filed, Numbered
  <2> QED
    BY <1>2, <2>1, <2>3, HealMove DEF HealInv
<1>8. CASE BuildFlush(p)
  <2>1. /\ pc[p] \in HoldsEx /\ pc'[p] = "build_unlock"
        /\ info' = obj[p] /\ UNCHANGED <<obj, current>>
    BY <1>1, <1>8 DEF BuildFlush, Go, FinishSave, HoldsEx
  <2>2. removed = {} => Healing(p)'
    BY <1>2, <1>3, <1>4, <2>1 DEF Healing, Filed, Numbered
  <2> QED
    BY <1>2, <1>4, <2>1, <2>2, HealMove DEF Healing
<1>9. CASE Crash(p)
  <2>1. pc'[p] = "idle" /\ obj'[p] = Zero /\ current'[p] = Zero
    BY <1>1, <1>9 DEF Crash, Return
  <2>2. removed = {} => Healing(p)'
    BY <1>2, <1>3, <1>5, <2>1 DEF Healing, Filed, Numbered
  <2>3. info' = info \/ pc[p] \in HoldsEx
    BY <1>9 DEF Crash, Saving, HoldsEx
  <2>4. \A f \in DOMAIN info' : f \in {"start", "end"} =>
          (f \in DOMAIN info /\ info'[f] = info[f]) \/ info'[f] = obj[p][f]
    <3>1. CASE info' = info \/ info' = obj[p]
      BY <3>1
    <3>2. CASE info' \in Torn(obj[p])
      BY <3>2 DEF Torn
    <3> QED
      BY <1>9, <3>1, <3>2 DEF Crash
  <2> QED
    BY <1>2, <1>4, <2>2, <2>3, <2>4, HealMove DEF HealInv, Healing
<1> QED
  BY <1>6, <1>7, <1>8, <1>9

\* However many posts died with .info cut short, the next post that gets
\* through ends with an .info that covers every file.
THEOREM PostHeals ==
  ASSUME "writeError" \notin Faults
  PROVE  Spec => []PostHealsInfo
<1>1. Init => Base /\ HealInv
  BY BaseInit, HealInit
<1>2. Base /\ HealInv /\ [Next]_vars => Base' /\ HealInv'
  <2> SUFFICES ASSUME Base, HealInv, [Next]_vars PROVE Base' /\ HealInv'
    OBVIOUS
  <2>1. Base'
    BY BaseStep
  <2>2. ASSUME NEW p \in Session,
               Step(p) \/ Waits(p) \/ FilterEnds(p) \/ Begins(p) \/ Crash(p)
        PROVE  HealInv'
    <3>1. Others(p)
      BY <2>2, OthersAlone DEF Base
    <3>2. CASE PostCreate(p)
      BY <2>1, <3>1, <3>2, HealCreate
    <3>3. CASE PostWrite(p) \/ PostSave(p) \/ PostBuild(p) \/ BuildScan(p)
      BY <2>1, <3>1, <3>3, HealWrite, HealSave, HealScan
    <3>4. CASE ~PostCreate(p) /\ ~PostWrite(p) /\ ~PostSave(p) /\ ~PostBuild(p) /\ ~BuildScan(p)
      BY <2>1, <2>2, <3>1, <3>4, HealPost, HealLoad DEF Step, Waits, Begins
    <3> QED
      BY <3>2, <3>3, <3>4
  <2>3. ASSUME NEW n \in DOMAIN article, Expire(n) PROVE HealInv'
    BY <2>3 DEF Expire, HealInv
  <2>4. CASE UNCHANGED vars
    <3>1. /\ info' = info /\ pc' = pc /\ obj' = obj /\ current' = current /\ cand' = cand
          /\ removed' = removed /\ DOMAIN article' = DOMAIN article
      BY <2>4 DEF vars
    <3>2. Ends' = Ends
      BY <3>1 DEF Ends
    <3>3. ASSUME NEW p \in Session, Healing(p) PROVE Healing(p)'
      BY <3>1, <3>2, <3>3 DEF Healing
    <3> QED
      BY <2>1, <3>1, <3>2, <3>3 DEF HealInv
  <2> QED
    BY <2>1, <2>2, <2>3, <2>4 DEF Next
<1>3. Base /\ HealInv => PostHealsInfo
  <2> SUFFICES ASSUME Base, HealInv, NEW p \in Session, pc[p] = "post_unlock", removed = {},
                      NEW n \in DOMAIN article
               PROVE  info["start"] <= n /\ n <= info["end"]
    BY DEF PostHealsInfo
  <2>1. Healing(p)
    BY DEF HealInv
  <2>2. info = obj[p] /\ info["start"] <= 1 /\ info["end"] = cand[p] /\ n <= cand[p]
    BY <2>1 DEF Healing, Filed, Numbered
  <2>3. n \in Nat \ {0} /\ info["start"] \in Nat
    BY <2>2, CounterFields DEF Base, TypeInv, TypeOK
  <2> QED
    BY <2>2, <2>3
<1> QED
  BY <1>1, <1>2, <1>3, PTL DEF Spec

-----------------------------------------------------------------------------
(* Least and greatest numbers.  (Induction over the numbers, by way of the *)
(* least element of a well-founded relation.)                              *)

LEMMA LeastNumber ==
  ASSUME NEW S \in SUBSET Nat, S # {}
  PROVE  \E n \in S : \A k \in S : n <= k
<1> DEFINE R == {ss \in Nat \X Nat : ss[1] < ss[2]}
<1>1. OpToRel(<, Nat) = R
  BY Zenon DEF OpToRel
<1>2. IsWellFoundedOn(R, Nat)
  BY <1>1, NatLessThanWellFounded, Zenon
<1>3. PICK x \in S : \A y \in S : ~ (<<y, x>> \in R)
  BY <1>2, WFMin, Zenon
<1>4. ASSUME NEW y \in S, ~(x <= y)
      PROVE  FALSE
  <2>1. x \in Nat /\ y \in Nat
    OBVIOUS
  <2>2. y < x
    BY <2>1, <1>4
  <2>3. <<y, x>> \in Nat \X Nat /\ <<y, x>>[1] = y /\ <<y, x>>[2] = x
    BY <2>1
  <2>4. <<y, x>> \in R
    BY <2>2, <2>3
  <2> QED
    BY <1>3, <2>4
<1> QED
  BY <1>4

\* A set of numbers with a bound has a greatest element.
LEMMA GreatestNumber ==
  ASSUME NEW S \in SUBSET Nat, S # {}, NEW b \in Nat, \A n \in S : n <= b
  PROVE  \E n \in S : \A k \in S : k <= n
<1> DEFINE T == {k \in Nat : b - k \in S}
<1>1. \A n \in S : b - n \in T
  OBVIOUS
<1>2. T \in SUBSET Nat /\ T # {}
  BY <1>1
<1>3. PICK d \in T : \A k \in T : d <= k
  BY <1>2, LeastNumber
<1>4. \A k \in S : k <= b - d
  BY <1>1, <1>3
<1> QED
  BY <1>3, <1>4

\* ... and only one.
LEMMA GreatestUnique ==
  ASSUME NEW S \in SUBSET Nat, NEW n \in S, \A k \in S : k <= n
  PROVE  (CHOOSE j \in S : \A k \in S : k <= j) = n
<1> DEFINE g == CHOOSE j \in S : \A k \in S : k <= j
<1>1. g \in S /\ \A k \in S : k <= g
  OBVIOUS
<1>2. g <= n /\ n <= g /\ g \in Nat /\ n \in Nat
  BY <1>1
<1> QED
  BY <1>2

-----------------------------------------------------------------------------
(* The refinement mapping.                                                 *)

\* The numbers given out are numbers, and one of them is the last.
LEMMA GivenBounded ==
  ASSUME Announced
  PROVE  /\ GivenNumbers \in SUBSET Nat
         /\ Last \in GivenNumbers /\ \A k \in GivenNumbers : k <= Last
<1>1. PICK c \in Counters : Covering(c)
  BY DEF Announced, InfoInv
<1>2. GivenNumbers \in SUBSET Nat /\ GivenNumbers # {}
  BY PublishedKept DEF Announced, GivenNumbers
<1>3. c["end"] \in Nat /\ \A k \in GivenNumbers : k <= c["end"]
  BY <1>1, CounterFields DEF Covering, GivenNumbers
<1>4. \E n \in GivenNumbers : \A k \in GivenNumbers : k <= n
  BY <1>2, <1>3, GreatestNumber
<1> QED
  BY <1>2, <1>4 DEF Last

\* A live number is that of a published article that was not removed.
LEMMA LiveNumber ==
  ASSUME Base, NEW n
  PROVE  n \in LiveNumbers <=> \E m \in Published \ removed : number[m] = n
<1>1. ASSUME n \in LiveNumbers PROVE \E m \in Published \ removed : number[m] = n
  BY <1>1 DEF LiveNumbers, Base, StoreInv, FilesRight
<1>2. ASSUME NEW m \in Published \ removed, number[m] = n PROVE n \in LiveNumbers
  BY <1>2 DEF LiveNumbers, Published, Base, StoreInv, FilesRight, Kept, PostedAt
<1> QED
  BY <1>1, <1>2

\* What the store sees is unchanged while the published articles and their
\* numbers are.
LEMMA Unseen ==
  ASSUME Published' = Published, forgotten' = forgotten,
         \A m \in Published : number'[m] = number[m],
         LiveNumbers' = LiveNumbers, \A n \in LiveNumbers : article'[n] = article[n]
  PROVE  Live' = Live /\ Last' = Last
<1>1. GivenNumbers' = GivenNumbers
  BY DEF GivenNumbers
<1> QED
  BY <1>1 DEF Last, Live

\* Whatever touches neither files nor stages.
LEMMA Unrelated ==
  ASSUME UNCHANGED <<article, stage, number, forgotten>>
  PROVE  UNCHANGED Store!vars
<1>1. Published' = Published /\ Done' = Done /\ LiveNumbers' = LiveNumbers
  BY DEF Published, Done, LiveNumbers
<1> QED
  BY <1>1, Unseen DEF Store!vars

LEMMA GivenBoundedNext ==
  Announced' => /\ GivenNumbers' \in SUBSET Nat
                /\ Last' \in GivenNumbers' /\ \A k \in GivenNumbers' : k <= Last'
<1> DEFINE Bounded == /\ GivenNumbers \in SUBSET Nat
                      /\ Last \in GivenNumbers /\ \A k \in GivenNumbers : k <= Last
<1>1. Announced => Bounded
  BY GivenBounded
<1>2. Announced' => Bounded'
  <2> HIDE DEF Bounded
  <2> QED
    BY <1>1, PTL
<1> QED
  BY <1>2

-----------------------------------------------------------------------------
(* The steps.                                                              *)

\* The initial spool is the initial store.
LEMMA InitMaps == Init => Store!Init
<1> SUFFICES ASSUME Init PROVE Store!Init
  OBVIOUS
<1>1. Published = {} /\ LiveNumbers = {} /\ Done = {}
  BY DEF Init, Published, LiveNumbers, Done
<1>2. Live = [n \in {} |-> 0]
  BY <1>1 DEF Live
<1>3. GivenNumbers = {0}
  BY <1>1 DEF GivenNumbers
<1>4. Last = 0
  BY <1>3, GreatestUnique DEF Last
<1> QED
  BY <1>1, <1>2, <1>4 DEF Store!Init

\* A file is created or completed: its article is not published yet.
LEMMA WriteMaps ==
  ASSUME Base, Base', NEW p \in Session, PostCreate(p) \/ PostWrite(p)
  PROVE  UNCHANGED Store!vars
<1> USE DEF own, history
<1>1. /\ msg[p] \in Msg /\ UNCHANGED <<forgotten, msg, cand>>
      /\ stage \in [Msg -> Stages] /\ number \in [Msg -> Nat]
      /\ article \in [DOMAIN article -> ArticleFile]
  BY DEF PostCreate, PostWrite, Go, Base, TypeInv, TypeOK, Posting, PostPC
<1>2. stage[msg[p]] \in {"sent", "stored"} /\ stage'[msg[p]] = "stored"
  BY <1>1 DEF PostCreate, PostWrite, Go, Mark, Base, StoreInv, StageAt, Unfiled, Filed, Numbered,
              Writing, PostPC
<1>3. \A m \in Msg \ {msg[p]} : stage'[m] = stage[m] /\ number'[m] = number[m]
  BY <1>1 DEF PostCreate, PostWrite, Mark
<1>4. Published' = Published /\ Done' = Done /\ msg[p] \notin Published
  BY <1>2, <1>3 DEF Published, Done
<1>5. /\ DOMAIN article' = DOMAIN article \cup {cand[p]}
      /\ article'[cand[p]].msg = msg[p]
      /\ \A n \in DOMAIN article \ {cand[p]} : article'[n] = article[n]
      /\ cand[p] \in DOMAIN article => article[cand[p]].msg = msg[p]
  <2>1. CASE PostCreate(p)
    BY <2>1 DEF PostCreate
  <2>2. CASE PostWrite(p)
    <3>1. cand[p] \in DOMAIN article /\ article[cand[p]].msg = msg[p]
      BY <2>2 DEF PostWrite, Go, Base, StoreInv, StageAt, Writing
    <3> QED
      BY <1>1, <2>2, <3>1 DEF PostWrite, ArticleFile
  <2> QED
    BY <2>1, <2>2
<1>6. LiveNumbers' = LiveNumbers /\ \A n \in LiveNumbers : article'[n] = article[n]
  BY <1>4, <1>5 DEF LiveNumbers
<1>7. \A m \in Published : number'[m] = number[m]
  BY <1>3, <1>4 DEF Published
<1> QED
  BY <1>1, <1>4, <1>6, <1>7, Unseen DEF Store!vars

\* PostSave publishes: the article is whole, and its number is above all others.
LEMMA SaveMaps ==
  ASSUME Announced, Announced', DurableInv, NEW p \in Session, PostSave(p)
  PROVE  Store!Publish(msg[p])
<1> DEFINE m == msg[p]
           n == cand[p]
<1> USE DEF PostSave, Go, Mark
<1>1. /\ pc[p] = "post_save" /\ m \in Msg /\ n \in Nat
      /\ UNCHANGED <<article, msg, cand, number, removed, forgotten>>
      /\ stage \in [Msg -> Stages]
  BY DEF Announced, Base, TypeInv, TypeOK, Posting, PostPC
<1>2. /\ stage[m] = "stored" /\ number[m] = n
      /\ n \in DOMAIN article /\ article[n].msg = m
  BY <1>1 DEF Announced, Base, StoreInv, StageAt, Filed, Numbered, Writing
<1>3. m \notin removed /\ m \notin forgotten
  BY <1>2 DEF Announced, Base, StoreInv, FilesRight
<1>4. article[n].whole
  <2>1. Safe(m)
    BY <1>1 DEF DurableInv, Filing, Filed, Numbered
  <2> QED
    BY <1>2, <1>3, <2>1 DEF Safe
<1>5. /\ Published' = Published \cup {m} /\ m \notin Published
      /\ Done' = Done \cup {m} /\ m \notin Done
  BY <1>1, <1>2 DEF Published, Done
<1>6. \A k \in DOMAIN article : article[k].msg = m => k = n
  BY <1>2 DEF Announced, Base, StoreInv, FilesRight
<1>7. LiveNumbers' = LiveNumbers \cup {n} /\ n \notin LiveNumbers
  BY <1>1, <1>2, <1>5, <1>6 DEF LiveNumbers
<1>8. GivenNumbers' = GivenNumbers \cup {n}
  <2>1. GivenNumbers' = {number[k] : k \in (Published \cup {m}) \ forgotten} \cup {0}
    BY <1>1, <1>5 DEF GivenNumbers
  <2>2. (Published \cup {m}) \ forgotten = (Published \ forgotten) \cup {m}
    BY <1>3
  <2> QED
    BY <1>2, <2>1, <2>2 DEF GivenNumbers
<1>9. \A k \in GivenNumbers : k < n
  <2>1. PICK c \in Counters : Covering(c) /\ Knows(p, c)
    BY DEF Announced, InfoInv
  <2>2. c["end"] < n /\ c["end"] \in Nat
    BY <1>1, <2>1, CounterFields DEF Knows, Writing
  <2>3. \A k \in GivenNumbers : k <= c["end"] /\ k \in Nat
    BY <2>1, <2>2, GivenBounded DEF Covering, GivenNumbers
  <2> QED
    BY <1>1, <2>2, <2>3
<1>10. Last' = n /\ Last < n
  <2>1. GivenNumbers \in SUBSET Nat /\ Last \in GivenNumbers
    BY GivenBounded
  <2>2. \A k \in GivenNumbers' : k <= n
    BY <1>1, <1>8, <1>9, <2>1
  <2>3. GivenNumbers' \in SUBSET Nat /\ n \in GivenNumbers'
    BY <1>1, <1>8, <2>1
  <2>4. Last' = n
    BY <2>2, <2>3, GreatestUnique DEF Last
  <2> QED
    BY <1>9, <2>1, <2>4
<1>11. DOMAIN Live = LiveNumbers
  BY DEF Live
<1>12. Live' = [k \in DOMAIN Live \cup {Last'} |-> IF k = Last' THEN m ELSE Live[k]]
  BY <1>1, <1>2, <1>4, <1>7, <1>10, <1>11 DEF Live
<1>13. Last' \in Nat /\ Last' > Last
  BY <1>1, <1>10
<1> QED
  BY <1>5, <1>12, <1>13 DEF Store!Publish

\* A refusal gives up on an article that is not published.
LEMMA RefuseMaps ==
  ASSUME Base, NEW p \in Session, PostRefuse(p) \/ PostReject(p) \/ PostSaveFails(p)
  PROVE  Store!GiveUp(msg[p])
<1>1. /\ msg[p] \in Msg /\ stage \in [Msg -> Stages]
      /\ UNCHANGED <<article, number, forgotten>>
      /\ stage' = [stage EXCEPT ![msg[p]] = "refused"]
  BY DEF PostRefuse, PostReject, PostSaveFails, Mark, disk, spam, Base, TypeInv, TypeOK,
         Posting, PostPC
<1>2. stage[msg[p]] \in {"sent", "stored"}
  BY DEF PostRefuse, PostReject, PostSaveFails, Base, StoreInv, StageAt, Unfiled, Filed,
         Numbered, Writing, PostPC
<1>3. /\ Published' = Published /\ Done' = Done \cup {msg[p]} /\ msg[p] \notin Done
  BY <1>1, <1>2 DEF Published, Done
<1>4. LiveNumbers' = LiveNumbers
  BY <1>1, <1>3 DEF LiveNumbers
<1> QED
  BY <1>1, <1>3, <1>4, Unseen DEF Store!GiveUp

\* The reply shows nothing new.
LEMMA ReplyMaps ==
  ASSUME Base, NEW p \in Session, PostReply(p)
  PROVE  UNCHANGED Store!vars
<1>1. /\ msg[p] \in Msg /\ stage \in [Msg -> Stages]
      /\ UNCHANGED <<article, number, forgotten>>
      /\ stage' = [stage EXCEPT ![msg[p]] = "acked"]
  BY DEF PostReply, Mark, disk, spam, Base, TypeInv, TypeOK, Posting, PostPC
<1>2. stage[msg[p]] = "published"
  BY DEF PostReply, Base, StoreInv, StageAt, Filed, Numbered, Writing, PostPC
<1>3. /\ Published' = Published /\ Done' = Done
  BY <1>1, <1>2 DEF Published, Done
<1>4. LiveNumbers' = LiveNumbers
  BY <1>1, <1>3 DEF LiveNumbers
<1> QED
  BY <1>1, <1>3, <1>4, Unseen DEF Store!vars

\* A scan forgets the articles that were removed, and no other.
LEMMA ScanMaps ==
  ASSUME Announced, Announced', NEW p \in Session, PostBuild(p) \/ BuildScan(p)
  PROVE  Store!Recount
<1>1. UNCHANGED <<article, stage, number, removed>> /\ forgotten' = removed
  BY DEF PostBuild, BuildScan
<1>2. Published' = Published /\ Done' = Done
  BY <1>1 DEF Published, Done
<1>3. LiveNumbers' = LiveNumbers
  BY <1>1, <1>2 DEF LiveNumbers
<1>4. Live' = Live /\ DOMAIN Live = LiveNumbers
  BY <1>1, <1>3 DEF Live
<1>5. GivenNumbers' = LiveNumbers \cup {0}
  <2>1. GivenNumbers' = {number[m] : m \in Published \ removed} \cup {0}
    BY <1>1, <1>2 DEF GivenNumbers
  <2>2. LiveNumbers = {number[m] : m \in Published \ removed}
    BY LiveNumber DEF Announced
  <2> QED
    BY <2>1, <2>2
<1>6. Last' \in LiveNumbers \cup {0} /\ \A n \in LiveNumbers : n <= Last'
  BY <1>5, GivenBoundedNext
<1> QED
  BY <1>2, <1>4, <1>6 DEF Store!Recount

\* A removal takes away one published article, or one that nobody saw.
LEMMA ExpireMaps ==
  ASSUME Base, NEW n \in DOMAIN article, Expire(n)
  PROVE  (Store!Remove(n) /\ n \in DOMAIN Live) \/ UNCHANGED Store!vars
<1>1. /\ UNCHANGED <<stage, number, forgotten>>
      /\ DOMAIN article' = DOMAIN article \ {n}
      /\ \A k \in DOMAIN article' : article'[k] = article[k]
  BY DEF Expire
<1>2. Published' = Published /\ Done' = Done
  BY <1>1 DEF Published, Done
<1>3. LiveNumbers' = LiveNumbers \ {n}
  BY <1>1, <1>2 DEF LiveNumbers
<1>4. Last' = Last
  BY <1>1, <1>2 DEF Last, GivenNumbers
<1>5. DOMAIN Live = LiveNumbers
  BY DEF Live
<1>6. \A k \in LiveNumbers' : article'[k] = article[k]
  BY <1>1, <1>3 DEF LiveNumbers
<1>7. Live' = [k \in DOMAIN Live \ {n} |-> Live[k]]
  BY <1>3, <1>5, <1>6 DEF Live
<1>8. CASE n \in LiveNumbers
  BY <1>2, <1>4, <1>5, <1>7, <1>8 DEF Store!Remove
<1>9. CASE n \notin LiveNumbers
  <2>1. Live' = Live
    BY <1>3, <1>6, <1>9 DEF Live
  <2> QED
    BY <1>2, <1>4, <2>1 DEF Store!vars
<1> QED
  BY <1>8, <1>9

\* The beginning of a post is not seen.
LEMMA BeginMaps ==
  ASSUME Base, NEW p \in Session, NEW m \in Msg, BeginPost(p, m)
  PROVE  UNCHANGED Store!vars
<1>1. /\ UNCHANGED <<article, number, forgotten>>
      /\ stage \in [Msg -> Stages] /\ stage[m] = "unsent"
      /\ stage' = [stage EXCEPT ![m] = "sent"]
  BY DEF BeginPost, Mark, disk, Base, TypeInv, TypeOK
<1>2. Published' = Published /\ Done' = Done
  BY <1>1 DEF Published, Done
<1>3. LiveNumbers' = LiveNumbers
  BY <1>1, <1>2 DEF LiveNumbers
<1> QED
  BY <1>1, <1>2, <1>3, Unseen DEF Store!vars

\* Nor are the steps that change neither files nor stages.
LEMMA OtherMaps ==
  ASSUME NEW p \in Session,
         \/ Waits(p) \/ FilterEnds(p) \/ Crash(p) \/ BeginLoad(p) \/ BeginRebuild(p)
         \/ PostLoad(p) \/ PostBuilt(p) \/ PostFilter(p) \/ PostClose(p) \/ Sigcld(p)
         \/ PostAccept(p) \/ PostSkip(p) \/ PostFlush(p) \/ PostUnlock(p)
         \/ LoadOpen(p) \/ SaveUnlocked(p) \/ LoadRead(p) \/ LoadReturn(p) \/ LoadFails(p)
         \/ RebuildReturn(p)
         \/ BuildFlush(p) \/ BuildUnlock(p) \/ SaveUnlock(p)
  PROVE  UNCHANGED Store!vars
<1>1. UNCHANGED <<article, stage, number, forgotten>>
  BY
  DEF Waits, PostLock, LoadLock, ConfigLock, BuildLock, SaveLock, FilterEnds, Crash,
      BeginLoad, BeginRebuild, PostLoad, PostBuilt, PostFilter, PostClose, Sigcld, PostAccept,
      PostSkip, PostFlush, PostUnlock, LoadOpen, SaveUnlocked, LoadRead, LoadReturn,
      LoadFails, RebuildReturn, BuildFlush, BuildUnlock, SaveUnlock, FinishSave, disk, history
<1> QED
  BY <1>1, Unrelated

\* Seen from outside, and as long as .info is not cut short, a post publishes
\* its whole article in one step under a number above all earlier ones or not at
\* all, and an article leaves only when the administrator removes it.
THEOREM SpoolImplementsStore ==
  ASSUME "writeError" \notin Faults, "tornInfo" \notin Faults
  PROVE  Spec => ImplementsStore
<1> DEFINE Inv == Announced /\ DurableInv
<1>1. Init => Inv
  BY BaseInit, InfoInit, DurableInit DEF Announced
<1>2. Inv /\ [Next]_vars => Inv'
  BY BaseStep, InfoStep, DurableStep DEF Announced
<1>3. Inv /\ Inv' /\ [Next]_vars => [Store!Next]_(Store!vars)
  <2> SUFFICES ASSUME Inv, Inv', [Next]_vars PROVE Store!Next \/ UNCHANGED Store!vars
    OBVIOUS
  <2> USE DEF Announced
  <2>1. ASSUME NEW p \in Session,
               Step(p) \/ Waits(p) \/ FilterEnds(p) \/ Begins(p) \/ Crash(p)
        PROVE  Store!Next \/ UNCHANGED Store!vars
    <3>1. CASE PostSave(p)
      <4>1. msg[p] \in Msg
        BY <3>1 DEF PostSave, Go, Base, TypeInv, Posting, PostPC
      <4> QED
        BY <3>1, <4>1, SaveMaps DEF Store!Next
    <3>2. CASE PostRefuse(p) \/ PostReject(p) \/ PostSaveFails(p)
      <4>1. msg[p] \in Msg
        BY <3>2 DEF PostRefuse, PostReject, PostSaveFails, Base, TypeInv, Posting, PostPC
      <4> QED
        BY <3>2, <4>1, RefuseMaps DEF Store!Next
    <3>3. CASE PostBuild(p) \/ BuildScan(p)
      BY <3>3, ScanMaps DEF Store!Next
    <3>4. CASE PostCreate(p) \/ PostWrite(p) \/ PostReply(p)
      BY <3>4, WriteMaps, ReplyMaps
    <3>5. CASE \E m \in Msg : BeginPost(p, m)
      BY <3>5, BeginMaps
    <3> QED
      BY <2>1, <3>1, <3>2, <3>3, <3>4, <3>5, OtherMaps DEF Step, Begins
  <2>2. ASSUME NEW n \in DOMAIN article, Expire(n)
        PROVE  Store!Next \/ UNCHANGED Store!vars
    BY <2>2, ExpireMaps DEF Store!Next
  <2>3. CASE UNCHANGED vars
    BY <2>3, Unrelated DEF vars
  <2> QED
    BY <2>1, <2>2, <2>3 DEF Next
<1> QED
  BY <1>1, <1>2, <1>3, InitMaps, PTL DEF Spec, ImplementsStore, Store!Spec
=============================================================================
