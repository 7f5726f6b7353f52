------------------------------ MODULE NntpSession ------------------------------
(***************************************************************************)
(* One NNTP session (Server::CommandLoop) over a spool that other sessions *)
(* and the administrator change meanwhile: the current group, the current  *)
(* article and the authentication state, command by command.  A command is *)
(* one action, its reply is the value of `reply'.                          *)
(*                                                                         *)
(* The session's Group is a copy of .info and .config taken by its last    *)
(* GROUP or LISTGROUP; commands work on the copy, and find out that an     *)
(* article is gone only when they open its file.                           *)
(***************************************************************************)
EXTENDS Integers

CONSTANTS
  Group,       \* the newsgroups there may be
  NoGroup,     \* the empty name of a fresh Group or Article
  Limit,       \* postlimit in each .config, or Missing when the line is not there
  MaxNum,      \* bound: the highest article number in a group
  Protect      \* Auth.Protect: a subset of {"read", "post"}

Missing == -1

ASSUME NoGroupAssumption == NoGroup \notin Group
ASSUME LimitAssumption == Limit \in [Group -> Nat \cup {Missing}]
ASSUME MaxNumAssumption == MaxNum \in Nat
ASSUME ProtectAssumption == Protect \subseteq {"read", "post"}

VARIABLES
  dir,       \* the groups that have a directory, with .config and .info in it
  arts,      \* the numbers of each group's articles that Article::Load accepts
  mute,      \* ... and of those it does not, as they have no From:
  range,     \* each group's .info: start, end
  group,     \* the session's Group
  article,   \* the session's Article
  flags,     \* auth_flags: the operations logged in for, or AUTH_NOAUTH
  simple,    \* auth_simple: the next line continues AUTHINFO SIMPLE
  user,      \* auth_user_save: "" or whether it is the user of Auth.User
  reply,     \* what the last step answered, and whether it refused
  login,     \* history: how the last AuthLogin of the session went
  told,      \* history: group and range of the client's last 211
  lost       \* history: its directory was removed, or counted again, since

spool == <<dir, arts, mute, range>>
heard == <<told, lost>>
cursor == <<group, article, heard>>
auth == <<flags, simple, user, login>>
vars == <<dir, arts, mute, range, group, article, flags, simple, user, reply, login,
          told, lost>>

Num == 1 .. MaxNum
Range == [start : Nat, end : Nat]

NewGroup == [name |-> NoGroup, valid |-> FALSE, start |-> 0, end |-> 0, limit |-> 0]
NewArticle == [group |-> NoGroup, number |-> 0, valid |-> FALSE]
\* auth_flags when Auth.User or Auth.Pass is "-".
NoAuth == {"noauth"}
AuthOn == flags # NoAuth
\* What `reply' may answer: a command that reads, POST, a command or line that
\* logs in, a new connection, or nothing.
Operations == {"read", "post", "login", "hello", "none"}
Hello == [op |-> "hello", denied |-> FALSE]
Silence == [op |-> "none", denied |-> FALSE]
\* What the client knows of a group before its first 211.
Nothing == [name |-> NoGroup, start |-> 0, end |-> 0]

\* Every variable keeps its type: the session's copies of a group and of an
\* article hold numbers, whatever LoadInfo and LoadConfig did not find.
TypeOK ==
  /\ dir \subseteq Group
  /\ arts \in [Group -> SUBSET Num] /\ mute \in [Group -> SUBSET Num]
  /\ range \in [Group -> [start : 0 .. MaxNum, end : 0 .. MaxNum]]
  /\ group \in [name : Group \cup {NoGroup}, valid : BOOLEAN,
                start : 0 .. MaxNum, end : 0 .. MaxNum, limit : Nat]
  /\ article \in [group : Group \cup {NoGroup}, number : 0 .. MaxNum, valid : BOOLEAN]
  /\ flags \subseteq {"read", "post"} \/ flags = NoAuth
  /\ simple \in BOOLEAN
  /\ user \in {"", "right", "wrong"}
  /\ reply \in [op : Operations, denied : BOOLEAN]
  /\ login \in {"none", "ok", "failed"}
  /\ told \in [name : Group \cup {NoGroup}, start : 0 .. MaxNum, end : 0 .. MaxNum]
  /\ lost \in BOOLEAN

Init ==
  /\ dir = Group
  /\ arts = [g \in Group |-> {}] /\ mute = [g \in Group |-> {}]
  /\ range = [g \in Group |-> [start |-> 0, end |-> 0]]
  /\ group = NewGroup /\ article = NewArticle
  /\ flags \in {{}, NoAuth}
  /\ simple = FALSE /\ user = "" /\ login = "none"
  /\ reply = Hello
  /\ told = Nothing /\ lost = FALSE

-----------------------------------------------------------------------------
\* Helpers.

\* Of the code `n' it only matters whether it is "480 Authentication required".
Reply(op, n) == reply' = [op |-> op, denied |-> n = 480]

\* Configuration::IsAuthAllowed.
IsAuthAllowed(op) == ~AuthOn \/ op \notin Protect \/ op \in flags

\* The line is a command, not the continuation of AUTHINFO SIMPLE.
Command == ~simple

\* What Group::LoadInfo(g) of the session's own object cannot do without.  The
\* directory it stats is the one of the group that is current so far: `name' is
\* set afterwards.  It may fail all the same: .info, .config or .lock cannot be
\* opened or locked, or there is no .config.
CanLoadInfo(g) ==
  /\ group.name = NoGroup \/ group.name \in dir
  /\ g \in dir

\* Faulty: the limit that is not there is taken for one.
InfoLoadedRaw(g) ==
  [name |-> g, valid |-> TRUE, start |-> range[g].start, end |-> range[g].end,
   limit |-> Limit[g]]

\* What it leaves behind; LoadConfig keeps what .config does not mention.
InfoLoaded(g) ==
  [name |-> g, valid |-> TRUE, start |-> range[g].start, end |-> range[g].end,
   limit |-> IF Limit[g] = Missing THEN group.limit ELSE Limit[g]]

\* "211": the client is told the range.
Announce(g, start, end) ==
  told' = [name |-> g, start |-> start, end |-> end] /\ lost' = FALSE

\* Article::Load(g, n): number and group are set in any case.
ArticleLoaded(g, n) ==
  [group |-> g, number |-> n, valid |-> g \in dir /\ n \in arts[g]]

\* Group::Post's change of the group's directory.
Store(g, from) ==
  LET n == range[g].end + 1 IN
  /\ range[g].end < MaxNum
  /\ range' = [range EXCEPT ![g] = [start |-> IF @.start = 0 THEN 1 ELSE @.start,
                                    end |-> n]]
  /\ IF from THEN arts' = [arts EXCEPT ![g] = @ \cup {n}] /\ UNCHANGED mute
             ELSE mute' = [mute EXCEPT ![g] = @ \cup {n}] /\ UNCHANGED arts

\* "480 Authentication required"
Deny(op) ==
  /\ Command /\ ~IsAuthAllowed(op)
  /\ Reply(op, 480)
  /\ UNCHANGED <<spool, cursor, auth>>

May(op) == Command /\ IsAuthAllowed(op)

-----------------------------------------------------------------------------
\* Commands on the current group and article.

\* Faulty: the failed LoadInfo's object is kept (name set, valid = 0).
SelectGroupNoRestore(g) ==
  /\ May("read")
  /\ \/ /\ CanLoadInfo(g)
        /\ group' = InfoLoaded(g)
        /\ article' = ArticleLoaded(g, range[g].start)
        /\ Announce(g, range[g].start, range[g].end)
        /\ Reply("read", 211)
     \/ /\ group' = [group EXCEPT !.name = g, !.valid = FALSE]
        /\ Reply("read", 411)
        /\ UNCHANGED <<article, heard>>
  /\ UNCHANGED <<spool, auth>>

\* GROUP g
SelectGroup(g) ==
  /\ May("read")
  /\ \/ /\ CanLoadInfo(g)
        /\ group' = InfoLoaded(g)
        /\ article' = ArticleLoaded(g, range[g].start)
        /\ Announce(g, range[g].start, range[g].end)
        /\ Reply("read", 211)
     \/ /\ Reply("read", 411)       \* `group' is restored
        /\ UNCHANGED cursor
  /\ UNCHANGED <<spool, auth>>

\* article.Load(group.Start()): of the group the Article is of.
LoadFirst(first) ==
  article' = IF article.group = NoGroup THEN article
                                        ELSE ArticleLoaded(article.group, first)

\* LISTGROUP g, LISTGROUP
ListGroup(g) ==
  /\ May("read")
  /\ \/ /\ CanLoadInfo(g)
        /\ group' = InfoLoaded(g)
        /\ LoadFirst(range[g].start)
        /\ Announce(g, range[g].start, range[g].end)
        /\ Reply("read", 211)
     \/ /\ Reply("read", 411)
        /\ UNCHANGED cursor
  /\ UNCHANGED <<spool, auth>>

ListThisGroup ==
  /\ May("read")
  /\ \/ /\ group.valid
        /\ LoadFirst(group.start)
        /\ told' = [name |-> group.name, start |-> group.start, end |-> group.end]
        /\ Reply("read", 211)
        /\ UNCHANGED <<group, lost>>
     \/ /\ ~group.valid
        /\ Reply("read", 412)
        /\ UNCHANGED cursor
  /\ UNCHANGED <<spool, auth>>

InRange(n) == group.start <= n /\ n <= group.end

\* NEXT
NextArticle ==
  LET n == article.number + 1 IN
  /\ May("read")
  /\ \/ /\ ~group.valid /\ Reply("read", 412)
        /\ UNCHANGED cursor
     \/ /\ group.valid /\ ~article.valid /\ Reply("read", 420)
        /\ UNCHANGED cursor
     \/ /\ group.valid /\ article.valid
        /\ ~InRange(n) \/ ~ArticleLoaded(group.name, n).valid   \* restored
        /\ Reply("read", 421)
        /\ UNCHANGED cursor
     \/ /\ group.valid /\ article.valid
        /\ InRange(n) /\ ArticleLoaded(group.name, n).valid
        /\ article' = ArticleLoaded(group.name, n)
        /\ Reply("read", 223)
        /\ UNCHANGED <<group, heard>>
  /\ UNCHANGED <<spool, auth>>

\* ARTICLE, HEAD, BODY and STAT with article number n; `restore' says whether
\* the current article is put back at the end: only when Article::Load succeeds,
\* since the command returns before that when it fails.
Retrieve(n, restore) ==
  /\ \/ /\ ~InRange(n) /\ Reply("read", 423)
        /\ UNCHANGED article
     \/ /\ InRange(n) /\ ~ArticleLoaded(group.name, n).valid
        /\ Reply("read", 430)
        /\ article' = ArticleLoaded(group.name, n)
     \/ /\ InRange(n) /\ ArticleLoaded(group.name, n).valid
        /\ Reply("read", 220)
        /\ article' = IF restore THEN article ELSE ArticleLoaded(group.name, n)
  /\ UNCHANGED <<group, heard>>

NotInGroup == ~group.valid /\ Reply("read", 412) /\ UNCHANGED cursor

RetrieveNumber(n) ==
  /\ May("read")
  /\ \/ NotInGroup
     \/ group.valid /\ Retrieve(n, FALSE)
  /\ UNCHANGED <<spool, auth>>

RetrieveCurrent ==
  /\ May("read")
  /\ \/ NotInGroup
     \/ group.valid /\ Retrieve(article.number, TRUE)
  /\ UNCHANGED <<spool, auth>>

\* The message-id of an article file g:n, or of none: FindArticleByMessageID
\* looks in the current group, whether Article::Load likes the file or not.
Found(g, n) ==
  /\ g = group.name /\ g \in dir
  /\ InRange(n) /\ n \in arts[g] \cup mute[g]

\* With start = 0 a search that fails does not end (module RangeWalk): that
\* is EndSession.
RetrieveId(g, n) ==
  /\ May("read")
  /\ \/ NotInGroup
     \/ /\ group.valid /\ Found(g, n)
        /\ Retrieve(n, TRUE)
     \/ /\ group.valid /\ ~Found(g, n) /\ group.start > 0
        /\ Reply("read", 430)
        /\ UNCHANGED cursor
  /\ UNCHANGED <<spool, auth>>

-----------------------------------------------------------------------------
\* POST of an article of `lines' lines to group g, with a From: line or not.
\* The limit is the one of the session's Group; Post works on another object.
Post(g, lines, from) ==
  /\ May("post")
  /\ \/ /\ group.limit > 0 /\ lines > group.limit
        /\ Reply("post", 411)
        /\ UNCHANGED spool
     \/ /\ group.limit = 0 \/ lines <= group.limit
        /\ Reply("post", 441)        \* no such group, or Post fails otherwise
        /\ UNCHANGED spool
     \/ /\ group.limit = 0 \/ lines <= group.limit
        /\ g \in dir
        /\ Store(g, from)
        /\ Reply("post", 240)
        /\ UNCHANGED dir
  /\ UNCHANGED <<cursor, auth>>

-----------------------------------------------------------------------------
\* AUTHINFO.  `right' says whether user and password are the configured ones.

\* Configuration::AuthLogin
AuthLoginKeeps(right) ==                \* faulty: a failure changes nothing
  /\ flags' = IF right THEN Protect ELSE flags
  /\ login' = IF right THEN "ok" ELSE "failed"
AuthLogin(right) ==
  /\ flags' = IF right THEN Protect ELSE {}
  /\ login' = IF right THEN "ok" ELSE "failed"

AuthSimple ==
  /\ Command /\ AuthOn
  /\ simple' = TRUE
  /\ Reply("login", 350)
  /\ UNCHANGED <<spool, cursor, flags, user, login>>

\* The line after it, whatever it is: two words are user and password.
AuthSimpleLine(words, right) ==
  /\ simple
  /\ simple' = FALSE
  /\ \/ /\ words < 2
        /\ Reply("login", 501)
        /\ UNCHANGED <<flags, user, login>>
     \/ /\ words >= 2
        /\ AuthLogin(right)
        /\ user' = ""
        /\ Reply("login", IF right THEN 250 ELSE 452)
  /\ UNCHANGED <<spool, cursor>>

AuthUser(right) ==
  /\ Command /\ AuthOn
  /\ user' = IF right THEN "right" ELSE "wrong"
  /\ Reply("login", 381)
  /\ UNCHANGED <<spool, cursor, flags, simple, login>>

AuthPass(right) ==
  /\ Command /\ AuthOn
  /\ \/ /\ user = ""
        /\ Reply("login", 482)
        /\ UNCHANGED <<flags, user, login>>
     \/ /\ user # ""
        /\ AuthLogin(user = "right" /\ right)
        /\ user' = ""
        /\ Reply("login", IF user = "right" /\ right THEN 281 ELSE 482)
  /\ UNCHANGED <<spool, cursor, simple>>

AuthNotNeeded ==
  /\ Command /\ ~AuthOn
  /\ Reply("login", 281)
  /\ UNCHANGED <<spool, cursor, auth>>

\* QUIT, a closed connection, the timeout: the next client has a new process.
EndSession ==
  /\ group' = NewGroup /\ article' = NewArticle
  /\ flags' = flags \cap NoAuth /\ simple' = FALSE /\ user' = "" /\ login' = "none"
  /\ reply' = Hello
  /\ told' = Nothing /\ lost' = FALSE
  /\ UNCHANGED spool

-----------------------------------------------------------------------------
\* Everybody else.

OtherPost(g) ==
  /\ g \in dir
  /\ Store(g, TRUE)
  /\ reply' = Silence
  /\ UNCHANGED <<dir, cursor, auth>>

\* The administrator removes an article; .info stays.
Expire(g, n) ==
  /\ n \in arts[g]
  /\ arts' = [arts EXCEPT ![g] = @ \ {n}]
  /\ reply' = Silence
  /\ UNCHANGED <<dir, mute, range, cursor, auth>>

\* rm -rf of a group's directory; newsd -newgroup.
RemoveGroup(g) ==
  /\ g \in dir
  /\ dir' = dir \ {g}
  /\ arts' = [arts EXCEPT ![g] = {}] /\ mute' = [mute EXCEPT ![g] = {}]
  /\ range' = [range EXCEPT ![g] = [start |-> 0, end |-> 0]]
  /\ lost' = (lost \/ g = told.name)
  /\ reply' = Silence
  /\ UNCHANGED <<group, article, told, auth>>

MakeGroup(g) ==
  /\ g \notin dir
  /\ dir' = dir \cup {g}
  /\ reply' = Silence
  /\ UNCHANGED <<arts, mute, range, cursor, auth>>

\* newsd -newgroup on a group that exists builds .info from the files.
Recount(g) ==
  LET files == arts[g] \cup mute[g] IN
  /\ g \in dir
  /\ \E lo, hi \in 0 .. MaxNum :
       /\ range' = [range EXCEPT ![g] = [start |-> lo, end |-> hi]]
       /\ \/ files = {} /\ lo = 0 /\ hi = 0
          \/ lo \in files /\ hi \in files /\ files \subseteq lo .. hi
  /\ lost' = (lost \/ g = told.name)
  /\ reply' = Silence
  /\ UNCHANGED <<dir, arts, mute, group, article, told, auth>>

Lines == 1 .. 2

Next ==
  \/ Deny("read") \/ Deny("post")
  \/ \E g \in Group : SelectGroup(g) \/ ListGroup(g)
  \/ ListThisGroup \/ NextArticle \/ RetrieveCurrent
  \/ \E n \in 0 .. MaxNum + 1 : RetrieveNumber(n)
  \/ \E g \in Group, n \in Num : RetrieveId(g, n)
  \/ \E g \in Group, lines \in Lines, from \in BOOLEAN : Post(g, lines, from)
  \/ AuthSimple \/ AuthNotNeeded \/ EndSession
  \/ \E right \in BOOLEAN :
       \/ AuthUser(right) \/ AuthPass(right)
       \/ \E words \in 1 .. 2 : AuthSimpleLine(words, right)
  \/ \E g \in Group : OtherPost(g) \/ RemoveGroup(g) \/ MakeGroup(g) \/ Recount(g)
  \/ \E g \in Group, n \in Num : Expire(g, n)

Spec == Init /\ [][Next]_vars

-----------------------------------------------------------------------------
(* Properties.                                                             *)

\* What the client was told by its last 211 stays true: the session still works
\* on that group and range, although LoadInfo has renamed and invalidated the
\* object by the time a later GROUP or LISTGROUP fails; and whatever others post
\* or remove, that range stays inside the one the group really has, so that no
\* later article gets a number in it.  This ends when the administrator removes
\* the group, or builds its .info anew.
ToldHolds ==
  told.name # NoGroup =>
    /\ group.valid /\ group.name = told.name
    /\ group.start = told.start /\ group.end = told.end
    /\ ~lost => told.end <= range[told.name].end

\* What Auth.Protect protects is answered only when the last login of the
\* session succeeded; a failed one takes away what an earlier one gave.
ProtectedNeedsLogin ==
  [][AuthOn /\ reply' # reply /\ reply'.op \in Protect /\ ~reply'.denied =>
       login = "ok"]_vars
=============================================================================
