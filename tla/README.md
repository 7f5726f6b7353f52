# Verification of newsd in TLA+

newsd is a small NNTP server in C++: one daemon accepts connections and forks
one process per client; the processes share nothing but a spool directory and a
log file. This directory models its parts in TLA+, checks them with TLC and
proves the most important invariants with TLAPS. Line numbers refer to `../src`.

## 1. Inventory

### Components, state, operations

| component | state | operations |
|---|---|---|
| Group spool (`Group.C`) | per newsgroup a directory: article files `1`, `2`, ..., `.info` (start, end, total), `.config`, `.lock` | `Post`, `LoadInfo`, `BuildInfo`, `SaveInfo`, `LoadConfig`, `SaveConfig`, `NewGroup`, `WriteLock`/`ReadLock`/`Unlock` |
| Spam filter (`Group.C`) | a child process of Post, its exit status | `popen` ... `pclose` |
| Message-ID lookup (`Group.C`) | the walk's position | `FindArticleByMessageID`, `GetMessageID` |
| Daemon (`newsd.C`) | `G_numclients`, the child processes | the accept loop, `sigcld_handler` |
| NNTP session (`Server.C`) | current `Group` and `Article` (copies), authentication, the pending AUTHINFO | one branch of `CommandLoop` per command |
| Article text (`Server.C`, `Group.C`, `Article.C`) | the text while it is read; the file | POST's reader, `ParseArticle`, `SendArticle`, `Article::Load` |
| Header rewriting (`Group.C`) | none | `UpdatePath`, the fields Post erases and adds |
| Mail gateway (`newsd.C`, `Server.C`) | the mail; the dead letters | `MailGateway`, the mail to CCPost |
| Authentication (`Configuration.[CH]`) | `auth_flags` | `AuthLogin`, `IsAuthAllowed` |
| Group list (`Server.C`) | none of its own | `AllGroups`, LIST, NEWGROUPS |
| Log (`Configuration.C`) | the log file, the open file and `log_ino` of each process, the lock on it | `LogMessage`, `Rotate`, `OpenLogAppend`, `WasLogRotated` |
| Configuration file, helpers, scripts | | read once, or pure |

### How they interact

* The daemon forks a session process per connection. The only message back is
  SIGCHLD, which does not queue. A session inherits the handler for it, and the
  daemon's open log file.
* Sessions call the group spool. They meet in the file system only: `flock` on
  `.lock` orders them, and `.info` tells a session the range of articles. The
  session works on its copy of that range until its next GROUP or LISTGROUP.
* A session opens article files without any lock. Whether an article is there
  it finds out when it opens the file.
* The spam filter is a child of the session that posts, and inherits the
  descriptor that holds the group's lock.
* All processes, and `newsd -rotate`, write to one log; each finds out by itself
  that another renamed it.
* The administrator takes part: removing article files, making and removing
  groups by hand, `newsd -newgroup` also on groups that exist.
* `SIGALRM` (idle time-out), signals and the end of the machine end a process
  at any instruction; the kernel drops its locks.

### What is hard, and what makes each part correct

* **Spool**: two or more processes inside Post, LoadInfo and BuildInfo at once;
  `.info` truncated and refilled while others have it open; a process that ends
  between writing an article and recording it; the lock taken by Post before
  it calls a function that locks. Correct: an acknowledged article is never
  lost or overwritten, its number never given again, it is in the range others
  are told, and nobody waits for ever.
* **Spam filter**: a SIGCHLD handler that steals the status; a filter that
  outlives its session and keeps the lock. Correct: what the filter refused is
  not stored, what it passed is not refused, and nobody waits for ever.
* **Daemon**: the handler interrupts the loop between any two instructions.
  Correct: the limit is kept, ended children are reaped.
* **Session**: copies become stale; LoadInfo and Article::Load change the
  object and then fail. Correct: the current group and article mean what the
  replies said, protected operations need a login.
* **Article text and headers**: dot-stuffing, a text cut anywhere, folded
  fields, fields that are missing, empty or come twice. Correct: what is sent
  back is what was sent, and what is told of an article is what is in it.
* **Group list**: directories come and go while LIST walks them, and again
  before it loads what it found. Correct: what was there all the time is listed
  once, with what its own `.config` says.
* **Lookup, XOVER**: unsigned arithmetic at the bounds, files that go.
* **Log**: a lock that follows an open file description, a rename under other
  processes' feet. Correct: messages go to the log, it stays bounded, its name
  comes back, nobody is locked out.

`PROJECT.json` lists each hazard at its line with the properties about it.

## 2. Modules

| module | models | relation to the code |
|---|---|---|
| `GroupSpool` | the spool of one group and all processes on it, spam filters included | one action per stretch from one system call that others can observe to the next; `pc` names the place. `Step(p)` are moves a process makes by itself, `Waits(p)` the five calls of `flock` that block: Post's, LoadInfo's, LoadConfig's, SaveConfig's and BuildInfo's |
| `ArticleStore` | what a group promises, without files or locks | the abstract specification that `GroupSpool` implements |
| `Daemon` | accept loop, children, `sigcld_handler` | `G_numclients ++` is a load and a store, as the compiler emits it; the handler is one action, as SIGCHLD does not interrupt it |
| `NntpSession` | one session, everybody else as environment | a command is one action, its reply is in `reply` |
| `RangeWalk` | the two walks over article numbers, `FindArticleByMessageID` and XOVER | one file per step, numbers up to `MaxUlong` that wrap; XOVER's argument is `Parsed` and then put through `Clamp`, in the code's order |
| `Headers` | ParseArticle, UpdatePath, the fields Post and the gateway change, `Article::Load` and `Overview` with `atoi`, `GetMessageID`, the argument of ARTICLE | operators on texts and lines |
| `PostReader` | POST's reader and the gateway's, Post, the file, `SendArticle`, the mail copy | one character per step, with `Headers` for what becomes of the text |
| `Catalog` | LIST over a tree of directories, NewGroup, SaveConfig, LoadConfig | one directory entry, open or lock per step |
| `LogRotation` | the log as the daemon, sessions and `newsd -rotate` use it | one system call per step; open file descriptions and inodes are explicit |
| `MC...` | values of constants for TLC | |
| `GroupSpoolProofs` | theorems about the spool: durability, the lock, `.info`, the spam filter, the refinement | |
| `PostReaderProofs` | theorems about what becomes of an article | instantiates `Folding` once for each operator that the texts are folded with |
| `Folding` | what `FoldLeft` computes, for any operator | |
| `DaemonProofs`, `RangeWalkProofs`, `NntpSessionProofs`, `CatalogProofs`, `LogRotationProofs` | theorems about the module each is named for | |

Operators whose comment says *faulty* are variants of the code with a plausible
mistake; nothing uses them. Each property is known to fail for one of them.

### GroupSpool in more detail

`article`, `info`, `hasInfo`, `exlock`, `shlock` are on disk or in the kernel.
`obj[p]` are the counters of the `Group` object the running operation uses:
for Post a local (`tgroup`), for GROUP the session's own, whose counters
survive as `current[p]`. `cand[p]` is Post's `msgnum`.

* Post: lock (`PostLock`), `LoadInfo(name, 0)` (`PostLoad`, or `PostBuild` and
  `PostBuilt` when there is no `.info`), the spam filter (`FilterEnds`, and the
  status as `pclose` or `sigcld_handler` gets it), `End()+1` (`PostAccept`), the
  walk over existing files (`PostSkip`), `O_CREAT|O_EXCL` (`PostCreate`), the
  writes (`PostWrite`), the counters and `SaveInfo`'s `fopen(.., "w")`
  (`PostSave`), its buffered lines (`PostFlush`), unlock, reply. Every early
  return is `PostRefuse` or `PostSaveFails`.
* LoadInfo: open (`LoadOpen`), lock, read and unlock, then LoadConfig, which
  locks once more (`ConfigLock`), return. Without `.info`: BuildInfo(1), with its
  own lock, and LoadConfig. Where a call may fail is in `LoadFails`.
* `-newgroup` on a group that exists (`making`): SaveConfig under its lock, or
  without it when WriteLock fails, since it does not look (`SaveUnlocked`), then
  BuildInfo(1) (`RebuildReturn`). What is in `.config` is Catalog's.
* `Crash` ends a process at any point. Inside SaveInfo the buffer is flushed
  (`exit` in `sigalrm_handler`) or, with `"tornInfo"`, a prefix of the lines
  reaches the disk (none of them, when it died before it wrote any). A running
  filter becomes an `"orphan"` that keeps the lock.
* `Faults` selects what may happen in a run: `crash`, `tornInfo`, `infoError`
  (fopen for writing fails), `writeError`, `expire` (files removed), `rebuild`
  (`-newgroup` on the existing group).
* History variables `stage`, `number`, `removed`, `known`, `forgotten`,
  `verdict` say what clients and filters were told; no guard reads them but
  `BeginPost`'s (each article is sent once).

Modulus directories (another path to the same number) are left out.

### NntpSession

ARTICLE, HEAD, BODY and STAT share their code and are one action per form of
argument. The environment posts (`OtherPost`), removes articles and groups, and
makes groups. `mute` holds articles without From:, which the server stores and
cannot load. The session's limit and range are copies, the spool's are not.
A message-ID stands for the file `g:n` that has it. `flags` starts as `NoAuth`
(Auth.User or Auth.Pass is `-`) or empty, so that a run covers servers with
authentication and without. A command may fail for other reasons than those the
state shows: LoadInfo and LoadConfig on a lock, an open or a missing `.config`
(411), Post likewise (441), and the model allows that at any time. `Recount` is
`-newgroup` on a group that exists. `told` and `lost` are history: the group and
range of the client's last 211, and whether the administrator removed that group
or counted it again since.

### Headers and PostReader

A text is a sequence of characters; the name of a header field with its colon
counts as one. `Articles` gives for each way into the server (POST, or mail; a
limit; posting disabled; CCPost; the mail's date preserved) the texts to try.
The properties compare the file, the overview data and the replies with what
the sender meant, which `Meant`, `Fields`, `Named` and `Value` say without using
the operators of the code. Of several fields with one name `Article::Load` tells
the last, and `Or` and `Has` say so. A number is written with as many digits `0`
as it takes to tell it from others, one for zero (`Decimal`), and `Atoi` reads
what a text begins with in this writing: `Lines: x` is 0. `Overview` makes the
columns of XOVER, where a number of lines that is not positive is an empty one.
`Argument` is what `sscanf`'s `%s` leaves of a command's argument, and `Finds`
what ARTICLE does with it: only behind a `<` it is an identifier. `LINE_LEN` and
`FIELD_MAX` are left out.

### Catalog

A directory that is removed and made again is another one (`gen`), so that a
lock or an open file of the old one has no effect on the new. `walk[l]` is
AllGroups' stack of open directories, `names[l]` the list it makes, `tgroup[l]`
the group that LIST loads. `.info` is only there or not; what it holds is
`GroupSpool`'s. `stable` and `had` are history.

### LogRotation

Inode numbers are ages: the n-th log file has n. `inode` says which file an open
file description is of, `log` which description a process has, `locked` which
are locked. Only the file with the log's name has a size. A child inherits the
description: `shared` remembers that. `Faults` has sessions that end inside
LogMessage, a failing fopen, and `renameError`: rename fails though the log is
there (no permission). `refused` counts these failures of one log; `MaxRefused`
ends the run. In a rotation `rclose` and `ropen` are the places where the log has
no name (`InGap`).

## 3. Runs

| run | question | bounds |
|---|---|---|
| SpoolFaults | are acknowledged articles durable under crashes, torn `.info`, removals; does Post repair a torn `.info` | 2 posters, 1 reader, 3 articles |
| SpoolStore | do `.info` and GROUP cover them; does the spool implement `ArticleStore`; are numbers never reused; is nothing half-written announced | same, from a directory without `.info` |
| SpoolLive | do operations end, with a spam filter, whoever dies; is spam kept out | 3 processes, of which 2 post and 2 load, 2 articles |
| DaemonCap | limit, counter, reaping | MaxClients 4 |
| SessionCommands | does what the client was told stay true; is a login needed | 2 groups, 2 articles each; one group with a limit of 1 line, one without a `postlimit` line |
| WalkRanges | lookup and XOVER | numbers 0 to 7, at most 2 matches |
| ReaderStores | article text, headers, line limit, mail | up to 4 lines from 7 shapes, letters with every field present, folded, late, empty, white or twice, after an envelope line too; Lines and References of the sender, identifiers without `<` or of two words; width 3, limits 0 and 3 |
| LogMessages | where messages go, size, name and lock of the log | daemon, 1 session and 1 `-rotate`, each any number of times; maxlogsize 1; up to 3 logs, and 2 failed renames of one, before the last call begins |
| Catalog | what LIST says, and whether it ends | 3 directories, one inside another, 1 lister, 2 changes by the administrator |

Two posters and a reader give every pair of operations at once, and a third
article lets a post follow on a crash and on a post that succeeded, which is
the longest dependency in the code (a post reads only what the last writer of
`.info` and the directory left). Articles and posters are interchangeable, so
that symmetry is sound for the safety runs; SpoolLive goes without. It has two
that load, since one alone cannot keep the shared lock taken by turns, and one
of them posts too. `"writeError"` is in no run: after it nothing is claimed but
what the proofs say for any faults.
In Daemon the number of children is bounded by the property under check itself;
`ReapLimit` is the code's 100. In NntpSession two articles per group give a
first, a last and one that is neither current nor next. In RangeWalk the eight
numbers leave room below, inside and above a range and for the wrap above
`MaxUlong`; `Ends` leaves out the largest number as End(). In PostReader no
decision of the code looks further back than `mode`, one line, and the field
that a line continues. In LogRotation three processes are one that renames, one
that has the old file and one that shares it. In Catalog two changes remove a
group and make it again while it is listed. All bounds are constants in the
`.cfg` files; `MaxFiles`, `MaxRefused` and `MaxChanges` are there only to end the
run.

In SpoolStore `.info` is written as a whole or not at all: when it may be torn,
announcing does not hold, and PostHealsInfo and AckedDurable are what remains.
Catalog's SaveConfig always gets its lock, although the code writes without it
when it does not (`Group.C:316`); LinesTrue is said of the former.

`CHECK_DEADLOCK FALSE` is said only for the two modules that model a single
request (`RangeWalk`, `PostReader`), which ends. In the other runs somebody can
always move, the log's included: nobody is locked out of it altogether.

### Where code and documents disagree

Runs that expect a violation, each quoted in `PROJECT.json`:

| run | what the code does |
|---|---|
| DaemonRefusal | a child reaped before it is counted stays counted for ever, so clients are refused below MaxClients |
| SpoolFilter | the inherited SIGCHLD handler takes the filter's status, and Post rejects an article that is not spam |
| LogTwice | two sessions that share the daemon's open log do not exclude each other, and the second renames the new, small log over the old one |

Observations made while modelling, which the models contain as the code has
them and no violation run is about.

Groups and sessions:

* After the current group was removed every GROUP of the session fails, for any
  group: `LoadInfo(name)` stats the group that is current so far
  (`Group.C:357`; `CanLoadInfo`), although `newsd.pod:119-120` says of `rm -rf` that
  newsd "will detect this automatically".
* Shared locks that overlap keep a Post, a BuildInfo or a SaveConfig waiting as
  long as they do: `flock` prefers nobody. OperationsEnd excepts just that.
* POST applies the limit of the session's current group, not of the group posted
  to (`Server.C:951`; `newsd.conf.pod:283`).
* A lookup that finds nothing in a group never posted to (Start is 0) does not
  end (`Group.C:466`), although `Group.C:455-457` gives -1 for a failure.
  WalkReturns says nothing of such a lookup.
* `-newgroup` on an existing group whose last article is gone lowers End, and
  Post reuses its number (`Group.C:92`); `CHANGES:105` has this as fixed for
  Post. AckedNumberNotReused says that this is the only way as long as `.info`
  is written whole. A death inside SaveInfo may leave no End in it; the next
  Post then starts at 1 and takes the first number that was removed.
* Post does not look at the results of `write` (`Group.C:813`): with a full disk
  the client gets 240. AckedDurable is therefore checked without `"writeError"`,
  and no property catches it.
* `ARTICLE n` of an article that `Article::Load` refuses leaves it current, and
  invalid (`Server.C:845`), although `Server.C:824` says "affect current article if
  valid". So does `ARTICLE <id>`, as the 430 comes before the article is restored
  (`Server.C:894`), although `Server.C:818` says "do not affect current article".
* NEXT answers 421 at an article that was removed, though there are later ones,
  and stays where it is (`Server.C:777-788`).
* `LISTGROUP b` after `GROUP a` loads the current article from `a`
  (`Server.C:557`), although line 556 says "SET CURRENT ARTICLE TO FIRST".
* A `.config` without a `postlimit` line leaves the limit of the group loaded
  before, or none (`Group.C:234-304`, `Group.H:97`); `newsd.conf.pod:285` says 1000.
* `XOVER 5` is taken for `XOVER 5-`, as `sscanf` returns 1 for both
  (`Server.C:605`; `Parsed`, and `Taken` in ListsTheRange).
* LIST ACTIVE sends Total() where RFC 977 has the last number, NEWGROUPS looks
  at no date, and LIST ACTIVE.TIMES tells the spool directory's time for every
  group (`Group.C:357,367`). No property is about these fields.
* A group removed and made again while a Post waits for the lock: the Post gets
  the lock of the old `.lock`. A `.config` made by hand is written without a lock.
* SaveConfig does not look whether it got its lock (`Group.C:316`).

Article texts and headers:

* Neither POST nor the gateway checks From and Message-ID, though the gateway
  has a step "VERIFY HEADER INTEGRITY" (`newsd.C:265`); `Article::Load` insists
  on both, so that an acknowledged article may be unreadable, as it is when the
  text begins with an empty line: LoadsIffNamed says exactly when.
* Of a folded Date or NNTP-Posting-Host Post erases the first line only
  (`Group.C:763`), and the rest continues the field before.
* Some identifiers are told to clients and not found by `ARTICLE`: one on a second
  line (`Group.C:436`), one that does not begin with `<` (`Server.C:811`), one with
  white space inside, as `sscanf` cuts the argument there (`Server.C:302`).
  FoundById says exactly which. Of two Message-ID fields the first is searched
  (`Group.C:436`) and the last is told (`Article.C:139`), so that such an article
  is found by what is told only if both say the same; FoundById says nothing of
  these.
* A sender's `Lines:` is kept although it may be wrong (`Group.C:799`); XOVER tells
  its number, and nothing for `x` or 0 (`Article.C:303`). `overview[]` announces
  Reply-To (`newsd.C:62`), for which XOVER has no column (`Article.C:287-321`).
* The reply to BODY has an empty line more than the body: SentAsReceived.
* Mail copies carry no `X-Newsd-Loop`, though `CHANGES:155` speaks of one.
* A connection lost in the middle of a text posts what came so far
  (`Server.C:922`; `HangUp` in PostReader). The properties of PostReader speak
  of texts that were sent to the end.
* The text reader starts in `MODE_NORMAL` (`Server.C:918`): a period that comes
  first of all does not end the text. PostReader's articles have a first line.
* DeadLetter locks `fileno(NULL)` when its file cannot be opened.

Log:

* A shared open file keeps its lock after `fclose`; the comments say that locks
  are unlocked automatically. `newsd -rotate` and sessions with their own open
  file then wait until the others that share it unlock or end. No liveness is
  claimed for the log; LockHasWorker says where a lock may stay.
* LogMessage may be called with the group's lock held, which it then extends.
* After a failed fopen, or an exit between rename and fopen, nobody makes the log
  again (`unmade` in NameComesBack): WasLogRotated takes a missing file for one
  that was not rotated.
* A message written while another process is between rename and fopen, or after
  it renamed a log just reopened, goes to the renamed file; MessageInCurrentLog
  is said of messages during which nobody else renamed the log.
* As long as rename fails with the log in place, for want of permission, say
  (`Configuration.C:627`), each message adds two lines to the full log, which has
  no limit then. LogBounded counts them.
* Rotate returns 0 where its comment promises 1.

### Fairness

* `GroupSpool`: weak fairness for every process' own next step on the way
  forward (the operating system runs it), strong fairness for the five waits
  (`flock` wakes waiters; without it two processes could pass the lock to and
  fro). That is no help to a process that wants the lock alone while readers'
  shared locks overlap, so that OperationsEnd leaves this case out. Weak
  fairness for the filter's end: a filter that does not end holds the group's
  lock, and the code has no time-out for it. No fairness makes a client start, a
  call fail or a process die.
* `Daemon`: the pending signal is delivered, the loop runs; clients connect and
  leave as they like.
* `Catalog`: a session that lists runs, and so does a SaveConfig that began,
  since it holds a lock LIST waits for. The administrator's changes are bounded,
  so that weak fairness is enough for the wait.
* `RangeWalk`: the loop runs.

## 4. Proofs

`GroupSpoolProofs`, for any sets of sessions, posters, articles and any faults,
with a filter or without:

* `TypeCorrect`. `TypeOK` alone is not inductive: that the file PostCreate makes
  has an article number and an article needs `Posting`, which says that a
  process inside Post has an article, and from `PostAccept` on a candidate other
  than 0.
* `AckedStayStored`, assuming `"writeError" \notin Faults` (which is
  needed, see the observations). `AckedDurable` speaks only of articles with a 240. The
  invariant `DurableInv` follows an article through Post: `Filing` (from
  PostCreate on the process' candidate is the number of its article, whose file
  is there unless it was removed, and whole after PostWrite), `Distinct` and
  `InFlight` (no two processes, and no acknowledged article, are affected by
  another's step). No lock is needed for it: `O_EXCL` alone protects the files.
  The proof shows just that, as it never mentions `exlock`.
* `LockExcludes`, for any faults, from `LockInv`: a process holds the exclusive
  lock exactly from its `flock` to its unlock, or through a filter it left
  behind. A lock taken twice, or a return that forgets to unlock, breaks
  `Holding`. Most of what follows rests on it.
* `StoreInv` says what stage an article is at, from the place of the process
  that posts it, and that each file has the number its article was given.
* `SpamKeptOut`, for any faults, from `FilterInv`: the process that runs a filter
  has an article that is nowhere yet, and goes on only when the verdict was ham,
  however `pclose` and `sigcld_handler` share the status between them.
* `AckedAreAnnounced`, `LoadsCoverAcked`, `UnwrittenStayUnannounced` and
  `NumbersNotReused`, assuming that `.info` is not cut short (neither
  `"writeError"` nor `"tornInfo"` in `Faults`). None is inductive:
  between SaveInfo's `fopen` and its `fclose` `.info` says nothing at all, and
  whoever opened it before waits for the lock. `InfoInv` therefore speaks of
  *the* counters c of the group, which `.info` has, or the process that is
  writing them (`InfoIs`): they cover what was published (`Covering`), and each
  process knows of them what its place says (`Knows`: from PostLoad to PostSave
  Post has them, as it holds the lock; a load covers what was acknowledged when
  it began, except what was removed since). Both hypotheses are needed: a torn
  `.info` has lost the end of the range, and a write that failed unnoticed
  leaves an empty one.
* `PostHeals`, with `.info` torn at any line, from `HealInv`: as long as nothing
  is removed the files are numbered without a gap, every `end` that a process
  or `.info` still has is the number of a file or 0, so that the walk of
  `PostSkip` from it stops above all of them, and `.info` then says so. It
  assumes `"writeError" \notin Faults`, since that also cuts short the `.info`
  of the post itself.

* `SpoolImplementsStore`, from `InfoInv` and under its assumptions. The mapping
  is `Store`'s in `GroupSpool`: `Live` are the files that are whole and have been
  recorded, `GivenNumbers` the numbers of published articles that no scan has
  forgotten, `Last` the greatest of them. `PostSave` is `Publish`, with a number
  above `Last` since c covers all of them; `PostRefuse`, `PostReject` and
  `PostSaveFails` are `GiveUp`; `Expire` of a recorded article is `Remove`;
  `PostBuild` and `BuildScan` are `Recount`; everything else stutters, PostCreate
  and PostWrite included, because nobody is told of the file before. That a set
  of numbers with a bound has a greatest element needs induction: `LeastNumber`
  takes it from the well-foundedness of `<`.

`DaemonProofs`, for every MaxClients and ReapLimit:

* `CounterCovers`, `ClientLimit`, `DaemonTypeCorrect` from `CountInv`: children
  never exceed the counter plus the one not yet counted, nor the register plus
  one before the store (`RegisterCovers`), and a child about to be forked still
  fits (`WithinLimit`).

`RangeWalkProofs`, for every size of a number, every range of a group, every
argument and every set of files that goes meanwhile:

* `LookupCorrect`, `XoverListsTheRange`, `XoverNeverWraps` (the loop's `artnum++`,
  which the model computes modulo the width, never wraps) from `WalkInv`, and the
  types, lemma `WalkTypes`. Its parts: `IdWalk` (a lookup has left no match behind
  above `artnum`), `XoverWalk` (XOVER opened exactly the numbers from `Lo` to
  `artnum - 1`, and sent those that still have a file), `Setting` (files only go). That `Clamp` yields a range
  inside the group's, of a damaged group its last number, is lemma `ClampBounds`.

`LogRotationProofs`, for any number of sessions, of runs of `-rotate` and of
log files, any maxlogsize and any faults:

* `LogTypeCorrect`, `LogNameComesBack`, `LogLockHasWorker`,
  `LogMessageInCurrentLog` from `LogInv`. What a process has open depends on its
  place (`ClosedThere`), `log_ino` is right about it (`InoRight`), two processes
  have the same only by inheritance (`SharedKnown`), and a process that nobody
  disturbed since it called LogMessage finds the log's name in place and, from
  its check on, has that file open (`Undisturbed`). That a process without a log
  always gets a description of its own (`FreeOfdExists`) is a pigeonhole argument
  over the other processes. There is a lemma for each thing a process may do to
  its open file, and the actions use them.
* `LogStaysBounded` from `SizeInv`, which counts debts: a process that rotates
  still owes two lines, one that passed its check owes one, and the size with
  all that is owed stays within the bound. LogBounded alone is not inductive: a
  process that found the log small may write much later. A rename that fails
  with the log in place raises the bound by the two lines it adds (`SizeRefused`).

`NntpSessionProofs`, for every set of groups, limits and choice of what is
protected: `SessionTypeCorrect`, `ToldStaysTrue` and `LoginGuardsProtected` from
`SessionInv`. To the types it adds `LoginInv`: with authentication on, the flags are
empty, or all that is protected and the last login succeeded; AUTHINFO's three
ways to fail keep it because each clears the flags. `ToldStaysTrue` needs `ToldInv`,
which says of a client that was told nothing yet that its session has no valid
group; that posts only raise End is `StoreGrows`. LoginGuardsProtected is about
single steps, which `StepKinds` sorts into commands that answer, refusals by 480,
and what others do.

`CatalogProofs`, for every tree of directories, any number of sessions that list
and any number of changes:

* `CatalogTypeCorrect` and `LinesAreTrue` from `CatalogInv`. `ConfigInv`: a
  `.config` is empty only while the administrator saves it, and a directory not
  made yet has none. `LockInv`: locks of one directory exclude each other, and
  locks of the directory that was there before do not count. Together
  (`ReadContent`): LoadConfig, which opens the file before it locks, reads no
  half `.config` all the same. Either the directory is still the one it found and
  nobody writes it, or that one was removed and nobody will any more. What it
  then reads has been in `had` since (`OpenedAt`): the list began later than the
  file was written, or the write was noted.
* `NamedOnce` (ListedOnce) from `ListedInv`. While AllGroups walks, for each
  stable group d the first k directories that are open lead to d
  (`WalkingTo`): the way through the first k - 1 was taken, and the way through
  the k-th is ahead and d not named yet, or was taken and d is named once; what
  is open above them is not on the way. An entry that is made or removed beside
  the way does not disturb this, and with a directory on it d goes too and is
  stable no more. After the walk d is named once in the names or in the reply
  (`Answering`). That a directory has only one entry on the way to d needs that
  the directories are a tree (`TreeAssumption`).

`PostReaderProofs`, for every set of articles of any length and lines of any
width, POST or mail, any limit, any line width, and whether or not the input may break off (what
is then posted is not what the sender meant, and the properties leave it out):

* `ReaderTypeCorrect` and `ReaderReads`. `ReadInv` says where the loop stands:
  k lines and m characters of the next one have been read. Then `msg` is what
  these are (`Read`, which also says what `linecount` and `linechars` have come
  to), and what is left on the wire, with `mode`, is one of few forms (`Place`):
  before or behind the dot that stuffs a line, inside the line, before its LF,
  before or behind the dot that ends the text. From this a text ends nowhere but
  at its own dot.
* `ReaderRefuses` (RefusedExactly), from `ReadInv` at the end, and from what the
  header of the parsed text is (`MeantHead`).
* `ReaderStores`: `FileInv` says that the file of an acknowledged article is
  `FileOf(Edited(..), MeantBody)`, and the mail that of `Preserved`. The
  theorems that follow are about these two alone.
* `ReaderStoresAsMeant` (StoredAsMeant) needs what each change of the header does
  to its fields. A header that is put behind another adds its fields
  (`FieldsJoin`, `NamedJoin`), unless it begins with a continuation. A line that
  is changed and keeps its name changes no other field (`Same`, `Alike`: UpdatePath
  and the gateway). A line that nothing continues takes its field with it and no
  other (`Removes`, `Erases`): this is where `Proper` is needed, which says that
  the sender's Date and NNTP-Posting-Host are not folded. `Edits` puts this
  together for all that Post does.
* `ReaderSends` (SentAsReceived): what a client parses of a text that was stuffed
  are its lines, and the first single dot is the last.
* `ReaderMails` (MailedWhole) from `CopyGood`, an invariant of the copying loop:
  its lines are the fields chosen so far, and `pflag` says whether the last field
  was one of them.
* `ReaderTells` (OverviewRight) and `ReaderLoads` (LoadsIffNamed) from
  `LoadsFields`, an invariant of `Article::Load`'s loop: the key and value are
  those of the last field, and what is kept is of the fields before it the last
  one with each name (`Told`). The loop keeps a field as its own line trimmed and
  the others as they are (`Raw`), and the property trims the whole: the two agree
  but where the first line says nothing (`RawOf`). What `Overview` makes of each
  column is `OverviewColumns`; of the number of lines, whose text `Atoi` reads and
  `Decimal` writes again, `LinesColumn`. An article whose first line is empty
  (`Headless`) has an empty head for Load, so that nothing is found.
* `ReaderFinds` (FoundById): GetMessageID finds the first line that begins with
  the name; if there is one such field this line is its first (`Begun`), and
  what Load tells of the field is the same if the field has no other line. If it
  has, what Load tells has the space in it that a continuation begins with
  (`Continued`), which ends the command's argument (`ArgumentFirst`): the word
  before it is what is searched. So the article is found exactly if the line is
  one word that begins with `<` (`FoundIs`).

The assumptions are `LineWidthAssumption`, which the code's 80 meets, and
`ArticlesAssumption`: lines have no CR and LF of their own, and a text has a first
line, which in POST does not begin with a dot (see the observations).

These are about folds over texts, whose length is not bounded. What a fold
computes for every text is an induction, and the library's induction theorems,
being about any operator, cannot be applied to one. `Folding` says it of an
operator that is a *constant* of the module; `PostReaderProofs` instantiates it
for each operator that the model folds with, so that `FoldAppend` (one element
more is one step more) and `FoldSteps` (the values on the way, as a function of
the position) are there for each. Induction over numbers is stated there as
a formula about sets (`Inductive`) that the theorems have as a hypothesis, so that
an instance need not take the library along; `Numbers` proves it for each
instance from the well-foundedness of `<`. An invariant of such a loop is then
proved for all prefixes, position by position.

Assumptions are the `ASSUME`s of the modules, and where a theorem says so that a
fault does not happen. All invariants and step properties of the runs that pass
are proved, and the refinement. What is model-checked only is liveness
(OperationsEnd and the like), which is out of the prover's reach.

## 5. Not modelled, and what is left

Not modelled: configuration parsing (read once by one process), helpers and
scripts (no state), the commands DATE, HELP and MODE (no state), what LIST
NEWSGROUPS, LIST ACTIVE.TIMES and NEWGROUPS print (they walk as LIST ACTIVE
does), sendmail, lines longer than `LINE_LEN`, overflow of article numbers in
Post, and modulus directories.

Left for later, in this order:

1. The removal of a whole group under a waiting Post (`Group.C:517`): `gen` as in
   Catalog, inside GroupSpool.
2. Composition of `Daemon` with sessions on two groups of `GroupSpool`.
