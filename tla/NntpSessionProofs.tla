---------------------------- MODULE NntpSessionProofs ----------------------------
(***************************************************************************)
(* Proofs about NntpSession, for every set of groups, every limit and      *)
(* every choice of what Auth.Protect protects.                             *)
(***************************************************************************)
EXTENDS NntpSession, TLAPS

Group0 == Group \cup {NoGroup}
GroupType == [name : Group0, valid : BOOLEAN, start : 0 .. MaxNum, end : 0 .. MaxNum, limit : Nat]
ArticleType == [group : Group0, number : 0 .. MaxNum, valid : BOOLEAN]
ToldType == [name : Group0, start : 0 .. MaxNum, end : 0 .. MaxNum]
RangeType == [start : 0 .. MaxNum, end : 0 .. MaxNum]

\* What a session may do follows from how its last login went, if logins are on.
\* A login gives everything that is protected; a failure takes it away.
LoginInv == AuthOn => flags = {} \/ (flags = Protect /\ login = "ok")

SessionInv == TypeOK /\ LoginInv

-----------------------------------------------------------------------------
(* Lemmas about the operators.                                             *)

\* LoadInfo and LoadConfig give a group its range and a limit that is a number.
LEMMA InfoLoadedType ==
  ASSUME TypeOK, NEW g \in Group
  PROVE  InfoLoaded(g) \in GroupType /\ InfoLoaded(g).valid /\ InfoLoaded(g).name = g
<1>1. Limit[g] = Missing \/ Limit[g] \in Nat
  BY LimitAssumption
<1>2. range[g].start \in 0 .. MaxNum /\ range[g].end \in 0 .. MaxNum
  BY DEF TypeOK
<1>3. group.limit \in Nat
  BY DEF TypeOK
<1> QED
  BY <1>1, <1>2, <1>3 DEF InfoLoaded, GroupType, Group0

\* Article::Load of a number in range gives an article.
LEMMA ArticleLoadedType ==
  ASSUME NEW g \in Group0, NEW n \in 0 .. MaxNum
  PROVE  ArticleLoaded(g, n) \in ArticleType
BY DEF ArticleLoaded, ArticleType

\* A number inside the session's range is one of an article.
LEMMA InRangeNumber ==
  ASSUME TypeOK, NEW n \in Int, InRange(n)
  PROVE  n \in 0 .. MaxNum
<1>1. group.start \in 0 .. MaxNum /\ group.end \in 0 .. MaxNum
  BY DEF TypeOK
<1> QED
  BY <1>1, MaxNumAssumption DEF InRange

\* A reply is one, whatever its code.
LEMMA ReplyType ==
  ASSUME NEW op \in Operations, NEW n, Reply(op, n)
  PROVE  reply' \in [op : Operations, denied : BOOLEAN]
BY DEF Reply

LEMMA OperationNames ==
  /\ "read" \in Operations /\ "post" \in Operations /\ "login" \in Operations
  /\ Hello \in [op : Operations, denied : BOOLEAN]
  /\ Silence \in [op : Operations, denied : BOOLEAN]
BY DEF Operations, Hello, Silence

\* A 211 tells a range.
LEMMA AnnounceType ==
  ASSUME NEW g \in Group, NEW start \in 0 .. MaxNum, NEW end \in 0 .. MaxNum,
         Announce(g, start, end)
  PROVE  told' \in ToldType /\ lost' \in BOOLEAN
BY DEF Announce, ToldType, Group0

\* Post keeps the directory well typed.
LEMMA StoreType ==
  ASSUME TypeOK, NEW g \in Group, NEW from \in BOOLEAN, Store(g, from)
  PROVE  /\ arts' \in [Group -> SUBSET Num] /\ mute' \in [Group -> SUBSET Num]
         /\ range' \in [Group -> RangeType]
<1> DEFINE n == range[g].end + 1
           r == [start |-> IF range[g].start = 0 THEN 1 ELSE range[g].start, end |-> n]
<1>1. range[g] \in RangeType /\ range \in [Group -> RangeType]
  BY DEF TypeOK, RangeType
<1>2. range[g].start \in 0 .. MaxNum /\ range[g].end \in 0 .. MaxNum
  BY <1>1 DEF RangeType
<1>3. n \in 1 .. MaxNum
  BY <1>2, MaxNumAssumption DEF Store
<1>4. (IF range[g].start = 0 THEN 1 ELSE range[g].start) \in 0 .. MaxNum
  BY <1>2, <1>3, MaxNumAssumption
<1>5. r \in RangeType
  BY <1>3, <1>4 DEF RangeType
<1>6. range' = [range EXCEPT ![g] = r]
  BY <1>1 DEF Store
<1> HIDE DEF r
<1>7. range' \in [Group -> RangeType]
  BY <1>1, <1>5, <1>6
<1>8. arts \in [Group -> SUBSET Num] /\ mute \in [Group -> SUBSET Num]
  BY DEF TypeOK
<1>9. arts[g] \cup {n} \in SUBSET Num /\ mute[g] \cup {n} \in SUBSET Num
  BY <1>3, <1>8 DEF Num
<1>10. \/ arts' = [arts EXCEPT ![g] = arts[g] \cup {n}] /\ mute' = mute
       \/ mute' = [mute EXCEPT ![g] = mute[g] \cup {n}] /\ arts' = arts
  BY DEF Store
<1> HIDE DEF n
<1>11. arts' \in [Group -> SUBSET Num] /\ mute' \in [Group -> SUBSET Num]
  BY <1>8, <1>9, <1>10
<1> QED
  BY <1>7, <1>11

-----------------------------------------------------------------------------
(* Types and logins, part by part: the spool, the session's copies, the    *)
(* login and the reply.                                                    *)

SpoolTyped ==
  /\ dir \subseteq Group
  /\ arts \in [Group -> SUBSET Num] /\ mute \in [Group -> SUBSET Num]
  /\ range \in [Group -> RangeType]

CursorTyped ==
  /\ group \in GroupType /\ article \in ArticleType
  /\ told \in ToldType /\ lost \in BOOLEAN

LoginTyped ==
  /\ flags \subseteq {"read", "post"} \/ flags = NoAuth
  /\ simple \in BOOLEAN
  /\ user \in {"", "right", "wrong"}
  /\ login \in {"none", "ok", "failed"}
  /\ LoginInv

ReplyTyped == reply \in [op : Operations, denied : BOOLEAN]

LEMMA SessionParts == SessionInv <=> SpoolTyped /\ CursorTyped /\ LoginTyped /\ ReplyTyped
BY DEF SessionInv, TypeOK, SpoolTyped, CursorTyped, LoginTyped, ReplyTyped, RangeType,
       GroupType, ArticleType, ToldType, Group0

LEMMA SessionPartsNext == SpoolTyped' /\ CursorTyped' /\ LoginTyped' /\ ReplyTyped' => SessionInv'
BY DEF SessionInv, TypeOK, SpoolTyped, CursorTyped, LoginTyped, ReplyTyped, RangeType,
       GroupType, ArticleType, ToldType, Group0

\* The parts a step leaves alone stay as they are.
LEMMA SpoolSame == SpoolTyped /\ UNCHANGED spool => SpoolTyped'
BY DEF SpoolTyped, spool

LEMMA CursorSame == CursorTyped /\ UNCHANGED cursor => CursorTyped'
BY DEF CursorTyped, cursor, heard

LEMMA LoginSame == LoginTyped /\ UNCHANGED auth => LoginTyped'
BY DEF LoginTyped, auth, LoginInv, AuthOn

LEMMA SessionInit == Init => SessionInv
<1> SUFFICES ASSUME Init PROVE SpoolTyped /\ CursorTyped /\ LoginTyped /\ ReplyTyped
  BY SessionParts
<1>1. 0 \in 0 .. MaxNum
  BY MaxNumAssumption
<1>2. SpoolTyped
  <2>1. [start |-> 0, end |-> 0] \in RangeType
    BY <1>1 DEF RangeType
  <2> QED
    BY <2>1 DEF Init, SpoolTyped
<1>3. CursorTyped
  BY <1>1 DEF Init, CursorTyped, NewGroup, NewArticle, Nothing, GroupType, ArticleType,
              ToldType, Group0
<1>4. LoginTyped
  <2>1. flags = {} \/ flags = NoAuth
    BY DEF Init
  <2>2. simple \in BOOLEAN
    BY DEF Init
  <2>3. user = "" /\ login = "none"
    BY DEF Init
  <2> QED
    BY <2>1, <2>2, <2>3 DEF LoginTyped, LoginInv, AuthOn
<1>5. ReplyTyped
  BY OperationNames DEF Init, ReplyTyped
<1> QED
  BY <1>2, <1>3, <1>4, <1>5

\* What the session's copies hold, and what a command can make of them.
LEMMA CursorFacts ==
  ASSUME SessionInv
  PROVE  /\ group \in GroupType /\ article \in ArticleType
         /\ told \in ToldType /\ lost \in BOOLEAN
         /\ group.name \in Group0 /\ article.group \in Group0
         /\ article.number \in 0 .. MaxNum
         /\ group.start \in 0 .. MaxNum /\ group.end \in 0 .. MaxNum
         /\ \A g \in Group : range[g].start \in 0 .. MaxNum /\ range[g].end \in 0 .. MaxNum
BY DEF SessionInv, TypeOK, GroupType, ArticleType, ToldType, Group0

\* A command changes the session's copies only, and replies.
Reads == CursorTyped' /\ ReplyTyped' /\ UNCHANGED spool /\ UNCHANGED auth

LEMMA LoadFirstType ==
  ASSUME SessionInv, NEW first \in 0 .. MaxNum, LoadFirst(first)
  PROVE  article' \in ArticleType
BY CursorFacts, ArticleLoadedType DEF LoadFirst

LEMMA NotInGroupReads ==
  ASSUME SessionInv, NotInGroup
  PROVE  CursorTyped' /\ ReplyTyped'
<1>1. UNCHANGED cursor /\ Reply("read", 412)
  BY DEF NotInGroup
<1> QED
  BY <1>1, CursorSame, SessionParts, ReplyType, OperationNames DEF ReplyTyped

LEMMA RetrieveReads ==
  ASSUME SessionInv, NEW n \in Int, NEW restore \in BOOLEAN, Retrieve(n, restore)
  PROVE  CursorTyped' /\ ReplyTyped'
<1>1. group' = group /\ told' = told /\ lost' = lost
  BY DEF Retrieve, heard
<1>2. InRange(n) => ArticleLoaded(group.name, n) \in ArticleType
  BY CursorFacts, InRangeNumber, ArticleLoadedType DEF SessionInv
<1>3. article' \in ArticleType
  BY <1>2, CursorFacts DEF Retrieve
<1>4. \E k : Reply("read", k)
  BY DEF Retrieve
<1> QED
  BY <1>1, <1>3, <1>4, CursorFacts, ReplyType, OperationNames DEF CursorTyped, ReplyTyped

LEMMA DenyReads ==
  ASSUME SessionInv, NEW op \in Operations, Deny(op)
  PROVE  Reads
BY CursorSame, SessionParts, ReplyType DEF Deny, ReplyTyped, Reads

LEMMA SelectGroupReads ==
  ASSUME SessionInv, NEW g \in Group, SelectGroup(g)
  PROVE  Reads
<1>1. UNCHANGED spool /\ UNCHANGED auth
  BY DEF SelectGroup
<1>2. \E k : Reply("read", k)
  BY DEF SelectGroup
<1>3. ArticleLoaded(g, range[g].start) \in ArticleType
  BY CursorFacts, ArticleLoadedType DEF Group0
<1>4. CursorTyped'
  <2>1. CASE UNCHANGED cursor
    BY <2>1, CursorSame, SessionParts
  <2>2. CASE /\ group' = InfoLoaded(g) /\ article' = ArticleLoaded(g, range[g].start)
             /\ Announce(g, range[g].start, range[g].end)
    BY <2>2, <1>3, CursorFacts, InfoLoadedType, AnnounceType DEF SessionInv, CursorTyped
  <2> QED
    BY <2>1, <2>2 DEF SelectGroup
<1> QED
  BY <1>1, <1>2, <1>4, ReplyType, OperationNames DEF ReplyTyped, Reads

LEMMA ListGroupReads ==
  ASSUME SessionInv, NEW g \in Group, ListGroup(g)
  PROVE  Reads
<1>1. UNCHANGED spool /\ UNCHANGED auth
  BY DEF ListGroup
<1>2. \E k : Reply("read", k)
  BY DEF ListGroup
<1>3. CursorTyped'
  <2>1. CASE UNCHANGED cursor
    BY <2>1, CursorSame, SessionParts
  <2>2. CASE /\ group' = InfoLoaded(g) /\ LoadFirst(range[g].start)
             /\ Announce(g, range[g].start, range[g].end)
    <3>1. article' \in ArticleType
      BY <2>2, CursorFacts, LoadFirstType
    <3> QED
      BY <2>2, <3>1, CursorFacts, InfoLoadedType, AnnounceType DEF SessionInv, CursorTyped
  <2> QED
    BY <2>1, <2>2 DEF ListGroup
<1> QED
  BY <1>1, <1>2, <1>3, ReplyType, OperationNames DEF ReplyTyped, Reads

LEMMA ListThisGroupReads ==
  ASSUME SessionInv, ListThisGroup
  PROVE  Reads
<1>1. UNCHANGED spool /\ UNCHANGED auth
  BY DEF ListThisGroup
<1>2. \E k : Reply("read", k)
  BY DEF ListThisGroup
<1>3. CursorTyped'
  <2>1. CASE UNCHANGED cursor
    BY <2>1, CursorSame, SessionParts
  <2>2. CASE /\ group' = group /\ lost' = lost /\ LoadFirst(group.start)
             /\ told' = [name |-> group.name, start |-> group.start, end |-> group.end]
    <3>1. article' \in ArticleType
      BY <2>2, CursorFacts, LoadFirstType
    <3>2. told' \in ToldType
      BY <2>2, CursorFacts DEF ToldType
    <3> QED
      BY <2>2, <3>1, <3>2, CursorFacts DEF CursorTyped
  <2> QED
    BY <2>1, <2>2 DEF ListThisGroup
<1> QED
  BY <1>1, <1>2, <1>3, ReplyType, OperationNames DEF ReplyTyped, Reads

LEMMA NextArticleReads ==
  ASSUME SessionInv, NextArticle
  PROVE  Reads
<1> DEFINE n == article.number + 1
<1>1. UNCHANGED spool /\ UNCHANGED auth
  BY DEF NextArticle
<1>2. n \in Int
  BY CursorFacts
<1>3. \E k : Reply("read", k)
  BY DEF NextArticle
<1>4. CursorTyped'
  <2>1. CASE UNCHANGED cursor
    BY <2>1, CursorSame, SessionParts
  <2>2. CASE /\ InRange(n) /\ article' = ArticleLoaded(group.name, n)
             /\ group' = group /\ told' = told /\ lost' = lost
    <3>1. ArticleLoaded(group.name, n) \in ArticleType
      BY <1>2, <2>2, CursorFacts, InRangeNumber, ArticleLoadedType DEF SessionInv
    <3> QED
      BY <2>2, <3>1, CursorFacts DEF CursorTyped
  <2> QED
    BY <2>1, <2>2 DEF NextArticle, heard
<1> QED
  BY <1>1, <1>3, <1>4, ReplyType, OperationNames DEF ReplyTyped, Reads

LEMMA RetrievalReads ==
  ASSUME SessionInv,
         \/ RetrieveCurrent
         \/ \E n \in 0 .. MaxNum + 1 : RetrieveNumber(n)
         \/ \E g \in Group, n \in Num : RetrieveId(g, n)
  PROVE  Reads
<1>1. CASE RetrieveCurrent
  <2>1. article.number \in Int
    BY CursorFacts
  <2>2. CursorTyped' /\ ReplyTyped'
    BY <1>1, <2>1, NotInGroupReads, RetrieveReads DEF RetrieveCurrent
  <2> QED
    BY <1>1, <2>2 DEF RetrieveCurrent, Reads
<1>2. ASSUME NEW n \in 0 .. MaxNum + 1, RetrieveNumber(n) PROVE Reads
  <2>1. n \in Int
    BY MaxNumAssumption
  <2>2. CursorTyped' /\ ReplyTyped'
    BY <1>2, <2>1, NotInGroupReads, RetrieveReads DEF RetrieveNumber
  <2> QED
    BY <1>2, <2>2 DEF RetrieveNumber, Reads
<1>3. ASSUME NEW g \in Group, NEW n \in Num, RetrieveId(g, n) PROVE Reads
  <2>1. n \in Int
    BY DEF Num
  <2>2. NotInGroup \/ Retrieve(n, TRUE) \/ (Reply("read", 430) /\ UNCHANGED cursor)
    BY <1>3 DEF RetrieveId
  <2>3. ASSUME Reply("read", 430), UNCHANGED cursor
        PROVE  CursorTyped' /\ ReplyTyped'
    BY <2>3, CursorSame, SessionParts, ReplyType, OperationNames DEF ReplyTyped
  <2>4. CursorTyped' /\ ReplyTyped'
    BY <2>1, <2>2, <2>3, NotInGroupReads, RetrieveReads
  <2> QED
    BY <1>3, <2>4 DEF RetrieveId, Reads
<1> QED
  BY <1>1, <1>2, <1>3

\* The commands that leave spool and login alone.
LEMMA CommandStep ==
  ASSUME SessionInv,
         \/ Deny("read") \/ Deny("post")
         \/ \E g \in Group : SelectGroup(g) \/ ListGroup(g)
         \/ ListThisGroup \/ NextArticle \/ RetrieveCurrent
         \/ \E n \in 0 .. MaxNum + 1 : RetrieveNumber(n)
         \/ \E g \in Group, n \in Num : RetrieveId(g, n)
  PROVE  SessionInv'
<1>1. Reads
  BY OperationNames, DenyReads, SelectGroupReads, ListGroupReads, ListThisGroupReads,
     NextArticleReads, RetrievalReads
<1> QED
  BY <1>1, SessionParts, SessionPartsNext, SpoolSame, LoginSame DEF Reads

\* POST answers, and changes the directory of the group posted to.
LEMMA PostStep ==
  ASSUME SessionInv, NEW g \in Group, NEW lines \in Lines, NEW from \in BOOLEAN,
         Post(g, lines, from)
  PROVE  SessionInv'
<1>1. UNCHANGED cursor /\ UNCHANGED auth
  BY DEF Post
<1>2. ReplyTyped'
  BY ReplyType, OperationNames DEF Post, ReplyTyped
<1>3. SpoolTyped'
  <2>1. CASE UNCHANGED spool
    BY <2>1, SpoolSame, SessionParts
  <2>2. CASE Store(g, from) /\ dir' = dir
    BY <2>2, StoreType, SessionParts DEF SessionInv, SpoolTyped
  <2> QED
    BY <2>1, <2>2 DEF Post
<1> QED
  BY <1>1, <1>2, <1>3, SessionParts, SessionPartsNext, CursorSame, LoginSame

\* AuthLogin: what is protected is given by a login that succeeds, to no other.
LEMMA AuthLoginTyped ==
  ASSUME LoginTyped, NEW right \in BOOLEAN, AuthLogin(right),
         simple' \in BOOLEAN, user' \in {"", "right", "wrong"}
  PROVE  LoginTyped'
<1>1. flags' = {} \/ (flags' = Protect /\ login' = "ok")
  BY DEF AuthLogin
<1>2. login' \in {"none", "ok", "failed"}
  BY DEF AuthLogin
<1> QED
  BY <1>1, <1>2, ProtectAssumption DEF LoginTyped, LoginInv, AuthOn

\* AUTHINFO, and the line after AUTHINFO SIMPLE.
LEMMA AuthInfoStep ==
  ASSUME SessionInv,
         \/ AuthSimple \/ AuthNotNeeded
         \/ \E right \in BOOLEAN :
              \/ AuthUser(right) \/ AuthPass(right)
              \/ \E words \in 1 .. 2 : AuthSimpleLine(words, right)
  PROVE  SessionInv'
<1>1. LoginTyped
  BY SessionParts
<1> DEFINE Answer == /\ UNCHANGED spool /\ UNCHANGED cursor
                     /\ ReplyTyped'
<1>2. ASSUME NEW k, Reply("login", k) PROVE ReplyTyped'
  BY <1>2, ReplyType, OperationNames DEF ReplyTyped
<1>3. ASSUME AuthSimple PROVE Answer /\ LoginTyped'
  <2>1. Answer
    BY <1>2, <1>3 DEF AuthSimple
  <2>2. LoginTyped'
    BY <1>1, <1>3 DEF AuthSimple, LoginTyped, LoginInv, AuthOn
  <2> QED
    BY <2>1, <2>2
<1>4. ASSUME AuthNotNeeded PROVE Answer /\ LoginTyped'
  <2>1. Answer
    BY <1>2, <1>4 DEF AuthNotNeeded
  <2>2. LoginTyped'
    BY <1>1, <1>4, LoginSame DEF AuthNotNeeded
  <2> QED
    BY <2>1, <2>2
<1>5. ASSUME NEW right \in BOOLEAN, AuthUser(right) PROVE Answer /\ LoginTyped'
  <2>1. Answer
    BY <1>2, <1>5 DEF AuthUser
  <2>2. LoginTyped'
    BY <1>1, <1>5 DEF AuthUser, LoginTyped, LoginInv, AuthOn
  <2> QED
    BY <2>1, <2>2
<1>6. ASSUME NEW right \in BOOLEAN, AuthPass(right) PROVE Answer /\ LoginTyped'
  <2> DEFINE known == user = "right" /\ right
  <2>1. Answer
    BY <1>2, <1>6 DEF AuthPass
  <2>2. LoginTyped'
    <3>1. CASE UNCHANGED <<flags, user, login>>
      BY <1>1, <1>6, <3>1 DEF AuthPass, LoginTyped, LoginInv, AuthOn
    <3>2. CASE AuthLogin(known) /\ user' = ""
      <4>1. known \in BOOLEAN
        OBVIOUS
      <4>2. simple' \in BOOLEAN
        BY <1>1, <1>6 DEF AuthPass, LoginTyped
      <4> HIDE DEF known
      <4> QED
        BY <1>1, <3>2, <4>1, <4>2, AuthLoginTyped
    <3> QED
      BY <1>6, <3>1, <3>2 DEF AuthPass
  <2> QED
    BY <2>1, <2>2
<1>7. ASSUME NEW right \in BOOLEAN, NEW words \in 1 .. 2, AuthSimpleLine(words, right)
      PROVE  Answer /\ LoginTyped'
  <2>1. Answer
    BY <1>2, <1>7 DEF AuthSimpleLine
  <2>2. simple' \in BOOLEAN
    BY <1>7 DEF AuthSimpleLine
  <2>3. ASSUME UNCHANGED <<flags, user, login>> PROVE LoginTyped'
    BY <1>1, <2>2, <2>3 DEF LoginTyped, LoginInv, AuthOn
  <2>4. ASSUME AuthLogin(right), user' = "" PROVE LoginTyped'
    BY <1>1, <2>2, <2>4, AuthLoginTyped
  <2> QED
    BY <1>7, <2>1, <2>3, <2>4 DEF AuthSimpleLine
<1>8. Answer /\ LoginTyped'
  BY <1>3, <1>4, <1>5, <1>6, <1>7
<1> QED
  BY <1>8, SessionParts, SessionPartsNext, SpoolSame, CursorSame

\* The next client has a process of its own.
LEMMA EndStep ==
  ASSUME SessionInv, EndSession
  PROVE  SessionInv'
<1>1. 0 \in 0 .. MaxNum
  BY MaxNumAssumption
<1>2. CursorTyped'
  BY <1>1 DEF EndSession, CursorTyped, NewGroup, NewArticle, Nothing, GroupType, ArticleType,
              ToldType, Group0
<1>3. LoginTyped'
  <2>1. flags' = {} \/ flags' = NoAuth
    BY DEF EndSession, NoAuth
  <2> QED
    <3>1. simple' \in BOOLEAN
      BY DEF EndSession
    <3>2. user' = "" /\ login' = "none"
      BY DEF EndSession
    <3> QED
      BY <2>1, <3>1, <3>2 DEF LoginTyped, LoginInv, AuthOn
<1>4. ReplyTyped'
  BY OperationNames DEF EndSession, ReplyTyped
<1>5. SpoolTyped'
  BY SessionParts, SpoolSame DEF EndSession
<1> QED
  BY <1>2, <1>3, <1>4, <1>5, SessionPartsNext

\* What everybody else does.
LEMMA OtherStep ==
  ASSUME SessionInv,
         \/ \E g \in Group : OtherPost(g) \/ RemoveGroup(g) \/ MakeGroup(g) \/ Recount(g)
         \/ \E g \in Group, n \in Num : Expire(g, n)
  PROVE  SessionInv'
<1>1. SpoolTyped /\ CursorTyped
  BY SessionParts
<1> DEFINE Else == UNCHANGED auth /\ reply' = Silence
<1>2. ASSUME NEW g \in Group, OtherPost(g) PROVE SpoolTyped' /\ CursorTyped' /\ Else
  BY <1>1, <1>2, StoreType, CursorSame DEF OtherPost, SpoolTyped, SessionInv
<1>3. ASSUME NEW g \in Group, RemoveGroup(g) PROVE SpoolTyped' /\ CursorTyped' /\ Else
  <2>1. [start |-> 0, end |-> 0] \in RangeType
    BY MaxNumAssumption DEF RangeType
  <2>2. SpoolTyped'
    BY <1>1, <1>3, <2>1 DEF RemoveGroup, SpoolTyped
  <2>3. CursorTyped'
    BY <1>1, <1>3 DEF RemoveGroup, CursorTyped
  <2> QED
    BY <1>3, <2>2, <2>3 DEF RemoveGroup
<1>4. ASSUME NEW g \in Group, MakeGroup(g) PROVE SpoolTyped' /\ CursorTyped' /\ Else
  <2>1. SpoolTyped'
    BY <1>1, <1>4 DEF MakeGroup, SpoolTyped
  <2> QED
    BY <1>1, <1>4, <2>1, CursorSame DEF MakeGroup
<1>5. ASSUME NEW g \in Group, Recount(g) PROVE SpoolTyped' /\ CursorTyped' /\ Else
  <2>1. PICK lo \in 0 .. MaxNum, hi \in 0 .. MaxNum :
          range' = [range EXCEPT ![g] = [start |-> lo, end |-> hi]]
    BY <1>5 DEF Recount
  <2>2. SpoolTyped'
    BY <1>1, <1>5, <2>1 DEF Recount, SpoolTyped, RangeType
  <2>3. CursorTyped'
    BY <1>1, <1>5 DEF Recount, CursorTyped
  <2> QED
    BY <1>5, <2>2, <2>3 DEF Recount
<1>6. ASSUME NEW g \in Group, NEW n \in Num, Expire(g, n)
      PROVE  SpoolTyped' /\ CursorTyped' /\ Else
  <2>1. SpoolTyped'
    BY <1>1, <1>6 DEF Expire, SpoolTyped
  <2> QED
    BY <1>1, <1>6, <2>1, CursorSame DEF Expire
<1>7. SpoolTyped' /\ CursorTyped' /\ Else
  BY <1>2, <1>3, <1>4, <1>5, <1>6
<1>8. ReplyTyped'
  BY <1>7, OperationNames DEF ReplyTyped
<1> QED
  BY <1>7, <1>8, SessionParts, SessionPartsNext, LoginSame

LEMMA SessionStep == SessionInv /\ [Next]_vars => SessionInv'
<1> SUFFICES ASSUME SessionInv, [Next]_vars PROVE SessionInv'
  OBVIOUS
<1>1. CASE Next
  BY <1>1, CommandStep, PostStep, AuthInfoStep, EndStep, OtherStep DEF Next
<1>2. CASE UNCHANGED vars
  BY <1>2, SessionParts, SessionPartsNext, SpoolSame, CursorSame, LoginSame
     DEF vars, spool, cursor, heard, auth, ReplyTyped
<1> QED
  BY <1>1, <1>2

\* The session's copies hold numbers and names, whatever LoadInfo, LoadConfig
\* and Article::Load did not find.
THEOREM SessionTypeCorrect == Spec => []TypeOK
<1>1. SessionInv => TypeOK
  BY DEF SessionInv
<1> QED
  BY <1>1, SessionInit, SessionStep, PTL DEF Spec

-----------------------------------------------------------------------------
(* What the client was told.                                               *)

\* ToldHolds, and a session has a group only after a 211.
ToldInv == ToldHolds /\ (told.name = NoGroup => ~group.valid)

\* Nothing happened to the session's copy, and the group's range only grew.
LEMMA ToldKept ==
  ASSUME SessionInv, ToldInv, UNCHANGED <<group, told>>, lost' = lost,
         told.name # NoGroup => range[told.name].end <= range'[told.name].end,
         range' \in [Group -> RangeType]
  PROVE  ToldInv'
<1>1. told.end \in Int
  BY CursorFacts DEF ToldType
<1>2. told.name \in Group0
  BY CursorFacts DEF ToldType
<1>3. ASSUME told.name # NoGroup
      PROVE  range[told.name].end \in Int /\ range'[told.name].end \in Int
  BY <1>2, <1>3, CursorFacts DEF Group0, RangeType
<1> QED
  BY <1>1, <1>3 DEF ToldInv, ToldHolds

\* The spool stays as it is, and so does the session's copy.
LEMMA ToldSame ==
  ASSUME SessionInv, ToldInv, UNCHANGED <<group, told, lost, range>>
  PROVE  ToldInv'
BY DEF ToldInv, ToldHolds

\* LoadInfo succeeded: the client is told what the session took.
LEMMA ToldAnnounced ==
  ASSUME SessionInv, NEW g \in Group, group' = InfoLoaded(g), range' = range,
         Announce(g, range[g].start, range[g].end)
  PROVE  ToldInv'
<1>1. g # NoGroup
  BY NoGroupAssumption
<1>2. range[g].end \in Int
  BY CursorFacts
<1> QED
  BY <1>1, <1>2 DEF ToldInv, ToldHolds, Announce, InfoLoaded

\* A post only moves End up.
LEMMA StoreGrows ==
  ASSUME SessionInv, NEW g \in Group, NEW from \in BOOLEAN, Store(g, from)
  PROVE  \A h \in Group : range[h].end <= range'[h].end
<1>1. range \in [Group -> RangeType]
  BY DEF SessionInv, TypeOK, RangeType
<1>2. \A h \in Group : range[h].end \in Int
  BY CursorFacts
<1>3. range' = [range EXCEPT ![g] = [start |-> IF range[g].start = 0 THEN 1 ELSE range[g].start,
                                     end |-> range[g].end + 1]]
  BY <1>1 DEF Store
<1> QED
  BY <1>1, <1>2, <1>3

\* The administrator's changes of a range are noted, if it is the one told.
LEMMA ToldLost ==
  ASSUME SessionInv, ToldInv, NEW g \in Group, NEW r,
         range' = [range EXCEPT ![g] = r],
         lost' = (lost \/ g = told.name), UNCHANGED <<group, told>>
  PROVE  ToldInv'
<1>1. range \in [Group -> RangeType]
  BY DEF SessionInv, TypeOK, RangeType
<1>2. told.name \in Group0
  BY CursorFacts DEF ToldType
<1>3. ASSUME told.name # NoGroup, ~lost' PROVE range'[told.name] = range[told.name]
  BY <1>1, <1>2, <1>3 DEF Group0
<1> QED
  BY <1>3 DEF ToldInv, ToldHolds

\* Every step keeps it.
LEMMA ToldStep == SessionInv /\ ToldInv /\ [Next]_vars => ToldInv'
<1> SUFFICES ASSUME SessionInv, ToldInv, [Next]_vars PROVE ToldInv'
  OBVIOUS
<1>1. range \in [Group -> RangeType] /\ told.name \in Group0
  BY CursorFacts DEF SessionInv, TypeOK, RangeType, ToldType
<1>2. CASE UNCHANGED vars
  BY <1>2, ToldSame DEF vars
<1>3. ASSUME UNCHANGED cursor, UNCHANGED spool PROVE ToldInv'
  BY <1>3, ToldSame DEF cursor, heard, spool
<1>4. ASSUME Deny("read") \/ Deny("post") PROVE ToldInv'
  BY <1>3, <1>4 DEF Deny
<1>5. ASSUME NEW g \in Group, SelectGroup(g) \/ ListGroup(g) PROVE ToldInv'
  <2>1. UNCHANGED spool
    BY <1>5 DEF SelectGroup, ListGroup
  <2>2. \/ UNCHANGED cursor
        \/ group' = InfoLoaded(g) /\ Announce(g, range[g].start, range[g].end)
    BY <1>5 DEF SelectGroup, ListGroup
  <2> QED
    BY <1>3, <2>1, <2>2, ToldAnnounced DEF spool
<1>6. ASSUME ListThisGroup PROVE ToldInv'
  <2>1. UNCHANGED spool
    BY <1>6 DEF ListThisGroup
  <2>2. CASE UNCHANGED cursor
    BY <1>3, <2>1, <2>2
  <2>3. CASE /\ group.valid /\ group' = group /\ lost' = lost
             /\ told' = [name |-> group.name, start |-> group.start, end |-> group.end]
    <3>1. told.name # NoGroup
      BY <2>3 DEF ToldInv
    <3>2. group.name = told.name /\ group.start = told.start /\ group.end = told.end
      BY <3>1 DEF ToldInv, ToldHolds
    <3> QED
      BY <2>1, <2>3, <3>1, <3>2 DEF ToldInv, ToldHolds, spool
  <2> QED
    BY <1>6, <2>2, <2>3 DEF ListThisGroup
<1>7. ASSUME UNCHANGED spool, UNCHANGED <<group, heard>> PROVE ToldInv'
  BY <1>7, ToldSame DEF spool, heard
<1>8. ASSUME NextArticle PROVE ToldInv'
  BY <1>3, <1>7, <1>8 DEF NextArticle
<1>9. ASSUME NotInGroup \/ (Reply("read", 430) /\ UNCHANGED cursor), UNCHANGED spool PROVE ToldInv'
  BY <1>3, <1>9 DEF NotInGroup
<1>10. ASSUME NEW n, NEW restore, Retrieve(n, restore), UNCHANGED spool PROVE ToldInv'
  BY <1>7, <1>10 DEF Retrieve
<1>11. ASSUME RetrieveCurrent PROVE ToldInv'
  BY <1>9, <1>10, <1>11 DEF RetrieveCurrent
<1>12. ASSUME NEW n \in 0 .. MaxNum + 1, RetrieveNumber(n) PROVE ToldInv'
  BY <1>9, <1>10, <1>12 DEF RetrieveNumber
<1>13. ASSUME NEW g \in Group, NEW n \in Num, RetrieveId(g, n) PROVE ToldInv'
  BY <1>9, <1>10, <1>13 DEF RetrieveId
<1>14. ASSUME NEW g \in Group, NEW from \in BOOLEAN, Store(g, from), UNCHANGED cursor
       PROVE  ToldInv'
  <2>1. range' \in [Group -> RangeType]
    BY <1>14, StoreType DEF SessionInv
  <2>2. told.name # NoGroup => range[told.name].end <= range'[told.name].end
    BY <1>1, <1>14, StoreGrows DEF Group0
  <2> QED
    BY <1>14, <2>1, <2>2, ToldKept DEF cursor, heard
<1>15. ASSUME NEW g \in Group, NEW lines \in Lines, NEW from \in BOOLEAN, Post(g, lines, from)
       PROVE  ToldInv'
  BY <1>3, <1>14, <1>15 DEF Post
<1>16. ASSUME NEW g \in Group, OtherPost(g) PROVE ToldInv'
  BY <1>14, <1>16 DEF OtherPost
<1>17. ASSUME \/ AuthSimple \/ AuthNotNeeded
              \/ \E right \in BOOLEAN :
                   \/ AuthUser(right) \/ AuthPass(right)
                   \/ \E words \in 1 .. 2 : AuthSimpleLine(words, right)
       PROVE  ToldInv'
  BY <1>3, <1>17 DEF AuthSimple, AuthNotNeeded, AuthUser, AuthPass, AuthSimpleLine
<1>18. ASSUME EndSession PROVE ToldInv'
  BY <1>18 DEF EndSession, ToldInv, ToldHolds, Nothing, NewGroup
<1>19. ASSUME NEW g \in Group, RemoveGroup(g) PROVE ToldInv'
  BY <1>19, ToldLost DEF RemoveGroup
<1>20. ASSUME NEW g \in Group, Recount(g) PROVE ToldInv'
  <2>1. PICK r : range' = [range EXCEPT ![g] = r]
    BY <1>20 DEF Recount
  <2> QED
    BY <1>20, <2>1, ToldLost DEF Recount
<1>21. ASSUME NEW g \in Group, MakeGroup(g) PROVE ToldInv'
  BY <1>21, ToldSame DEF MakeGroup, cursor, heard
<1>22. ASSUME NEW g \in Group, NEW n \in Num, Expire(g, n) PROVE ToldInv'
  BY <1>22, ToldSame DEF Expire, cursor, heard
<1> QED
  BY <1>2, <1>4, <1>5, <1>6, <1>8, <1>11, <1>12, <1>13, <1>15, <1>16, <1>17, <1>18, <1>19,
     <1>20, <1>21, <1>22 DEF Next

\* What the last 211 told the client stays true of the session's copy, and of
\* the group's own range as long as the administrator leaves that alone.
THEOREM ToldStaysTrue == Spec => []ToldHolds
<1>1. ASSUME Init PROVE ToldInv
  <2>1. told.name = NoGroup /\ told.start = 0 /\ told.end = 0
    BY <1>1 DEF Init, Nothing
  <2>2. group.valid = FALSE
    BY <1>1 DEF Init, NewGroup
  <2> QED
    BY <2>1, <2>2, NoGroupAssumption DEF ToldInv, ToldHolds
<1>2. ToldInv => ToldHolds
  BY DEF ToldInv
<1> QED
  BY <1>1, <1>2, SessionInit, SessionStep, ToldStep, PTL DEF Spec

-----------------------------------------------------------------------------
(* Who is answered.                                                        *)

LEMMA ReplySays ==
  ASSUME NEW op, NEW n, Reply(op, n)
  PROVE  reply'.op = op /\ reply'.denied = (n = 480)
BY DEF Reply

\* A step answers for an operation that is allowed, or it refuses, or what it
\* answers needs no login.
LEMMA StepKinds ==
  ASSUME Next
  PROVE  \/ reply'.denied
         \/ reply'.op \in {"login", "hello", "none"}
         \/ reply'.op = "read" /\ May("read")
         \/ reply'.op = "post" /\ May("post")
<1>1. ASSUME NEW op, Deny(op) PROVE reply'.denied
  BY <1>1, ReplySays DEF Deny
<1>2. Silence.op = "none" /\ Hello.op = "hello"
  BY DEF Silence, Hello
<1>3. ASSUME \/ \E g \in Group : OtherPost(g) \/ RemoveGroup(g) \/ MakeGroup(g) \/ Recount(g)
             \/ \E g \in Group, n \in Num : Expire(g, n)
      PROVE  reply'.op = "none"
  BY <1>2, <1>3 DEF OtherPost, RemoveGroup, MakeGroup, Recount, Expire
<1>4. ASSUME EndSession PROVE reply'.op = "hello"
  BY <1>2, <1>4 DEF EndSession
<1>5. ASSUME \/ AuthSimple \/ AuthNotNeeded
             \/ \E right \in BOOLEAN :
                  \/ AuthUser(right) \/ AuthPass(right)
                  \/ \E words \in 1 .. 2 : AuthSimpleLine(words, right)
      PROVE  reply'.op = "login"
  <2>1. ASSUME AuthSimple \/ AuthNotNeeded PROVE reply'.op = "login"
    BY <2>1, ReplySays DEF AuthSimple, AuthNotNeeded
  <2>2. ASSUME NEW right \in BOOLEAN, AuthUser(right) PROVE reply'.op = "login"
    BY <2>2, ReplySays DEF AuthUser
  <2>3. ASSUME NEW right \in BOOLEAN, AuthPass(right) PROVE reply'.op = "login"
    BY <2>3, ReplySays DEF AuthPass
  <2>4. ASSUME NEW words \in 1 .. 2, NEW right \in BOOLEAN, AuthSimpleLine(words, right)
        PROVE  reply'.op = "login"
    <3>1. \E n : Reply("login", n)
      BY <2>4 DEF AuthSimpleLine
    <3> QED
      BY <3>1, ReplySays
  <2> QED
    BY <1>5, <2>1, <2>2, <2>3, <2>4
<1>6. ASSUME \E g \in Group : SelectGroup(g) \/ ListGroup(g)
      PROVE  reply'.op = "read" /\ May("read")
  BY <1>6, ReplySays DEF SelectGroup, ListGroup
<1>7. ASSUME ListThisGroup \/ NextArticle PROVE reply'.op = "read" /\ May("read")
  BY <1>7, ReplySays DEF ListThisGroup, NextArticle
<1>8. ASSUME NEW n, NEW restore,
             NotInGroup \/ Retrieve(n, restore) \/ (Reply("read", 430) /\ UNCHANGED cursor)
      PROVE  reply'.op = "read"
  BY <1>8, ReplySays DEF NotInGroup, Retrieve
<1>9. ASSUME \/ RetrieveCurrent
             \/ \E n \in 0 .. MaxNum + 1 : RetrieveNumber(n)
             \/ \E g \in Group, n \in Num : RetrieveId(g, n)
      PROVE  reply'.op = "read" /\ May("read")
  BY <1>8, <1>9 DEF RetrieveCurrent, RetrieveNumber, RetrieveId
<1>10. ASSUME \E g \in Group, lines \in Lines, from \in BOOLEAN : Post(g, lines, from)
       PROVE  reply'.op = "post" /\ May("post")
  BY <1>10, ReplySays DEF Post
<1> QED
  BY <1>1, <1>3, <1>4, <1>5, <1>6, <1>7, <1>9, <1>10 DEF Next

\* What Auth.Protect protects is answered to nobody whose last login failed.
THEOREM LoginGuardsProtected == Spec => ProtectedNeedsLogin
<1> DEFINE Guarded == AuthOn /\ reply' # reply /\ reply'.op \in Protect /\ ~reply'.denied
                        => login = "ok"
<1>1. ASSUME SessionInv, NEW op, May(op), AuthOn, op \in Protect
      PROVE  login = "ok"
  BY <1>1 DEF SessionInv, LoginInv, May, IsAuthAllowed
<1>2. SessionInv /\ Next => Guarded
  <2> SUFFICES ASSUME SessionInv, Next, AuthOn, reply'.op \in Protect, ~reply'.denied
               PROVE  login = "ok"
    OBVIOUS
  <2>1. reply'.op \notin {"login", "hello", "none"}
    BY ProtectAssumption
  <2> QED
    BY <1>1, <2>1, StepKinds
<1>3. SessionInv /\ [Next]_vars => [Guarded]_vars
  BY <1>2
<1>4. Spec => [][Guarded]_vars
  BY <1>3, SessionInit, SessionStep, PTL DEF Spec
<1> QED
  BY <1>4 DEF ProtectedNeedsLogin
=============================================================================
