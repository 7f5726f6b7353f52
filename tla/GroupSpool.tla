------------------------------- MODULE GroupSpool -------------------------------
(***************************************************************************)
(* The spool directory of one newsgroup, as the processes of newsd use it  *)
(* (Group.C).  Every client has a process of its own (a Session); what the *)
(* processes share is on disk:                                             *)
(*                                                                         *)
(*   article   the article files: number -> whose text it is, and whether  *)
(*             all of it has been written                                  *)
(*   info      the lines of ".info" (start, end, total), which may be torn *)
(*   hasInfo   whether ".info" exists                                      *)
(*   exlock, shlock   the holders of flock(".lock", LOCK_EX / LOCK_SH)     *)
(*                                                                         *)
(* A session runs one operation at a time: Group::Post, Group::LoadInfo    *)
(* (GROUP, LISTGROUP, LIST) or, as "newsd -newgroup" run on a group that   *)
(* exists, the end of Group::NewGroup.  pc[p] says where it is; every step *)
(* from one system call that others can observe to the next is one action. *)
(***************************************************************************)
EXTENDS Integers, FiniteSets

CONSTANTS
  Session,      \* the processes
  Poster, Loader,   \* those whose client posts, those whose client reads
  Msg,          \* the articles clients send, each once
  NoMsg,        \* no article
  Faults,       \* what may go wrong or be done by hand, a subset of AllFaults
  InfoAtStart,  \* whether ".info" exists at first (FALSE: just before the
                \* BuildInfo of NewGroup, or an imported group)
  Filtering     \* whether G_conf.SpamFilter() names a command

AllFaults ==
  { "crash",      \* a process ends at any point (SIGALRM's exit(1), killall)
    "tornInfo",   \* ... and, inside SaveInfo, leaves a prefix of .info
    "infoError",  \* fopen of .info for writing fails
    "writeError", \* write(2) fails (disk full); its result is not looked at
    "expire",     \* the administrator removes article files
    "rebuild" }   \* the administrator runs -newgroup on the existing group

ASSUME SessionAssumption == Poster \subseteq Session /\ Loader \subseteq Session
ASSUME FaultsAssumption == Faults \subseteq AllFaults
ASSUME InfoAtStartAssumption == InfoAtStart \in BOOLEAN
ASSUME FilteringAssumption == Filtering \in BOOLEAN
ASSUME NoMsgAssumption == NoMsg \notin Msg

VARIABLES
  article, info, hasInfo, exlock, shlock,
  pc,        \* where each process is
  obj,       \* the counters of the Group object it is working on
  current,   \* the counters of the session's own `group'
  cand,      \* msgnum of Post: the candidate article number
  msg,       \* the article it is posting
  making,    \* the processes that run NewGroup
  filter,    \* the spam filter it started
  stage,     \* history: what became of each article sent
  number,    \* history: the number each article was stored under (0: none)
  removed,   \* history: the articles the administrator removed
  known,     \* history: the articles acknowledged when a load began
  forgotten, \* history: those removed when a directory was last scanned
  verdict    \* history: what the spam filter said of each article

disk == <<article, info, hasInfo>>
locks == <<exlock, shlock>>
own == <<obj, current, cand, msg, making>>
history == <<stage, number, removed, known, forgotten>>
spam == <<filter, verdict>>
vars == <<article, info, hasInfo, exlock, shlock, pc, obj, current, cand, msg, making,
          filter, stage, number, removed, known, forgotten, verdict>>

-----------------------------------------------------------------------------
\* Types.

Field == {"start", "end", "total"}
Counters == [Field -> Nat]
ArticleFile == [msg : Msg, whole : BOOLEAN]

\* Group's constructor.
Zero == [f \in Field |-> 0]
\* ".info" after fopen(path, "w").
Empty == [f \in {} |-> 0]

PostPC == {"post_lock", "post_load", "post_build", "post_check", "post_filter",
           "post_wait", "post_open", "post_write", "post_save", "post_flush",
           "post_unlock", "post_reply"}
LoadPC == {"load_open", "load_lock", "load_read", "config_lock", "config_read",
           "save_lock", "save_write",
           "build_lock", "build_scan", "build_flush", "build_unlock"}
\* No filter; it runs; it ended, and its status waits to be collected;
\* sigcld_handler collected the status; it runs on after its parent's end.
FilterState == {"none", "runs", "ended", "reaped", "orphan"}
Verdicts == {"none", "ham", "spam"}
Stages == {"unsent", "sent", "stored", "published", "acked", "refused"}

\* Every variable keeps its type: files are numbered from 1, .info holds
\* counters or a part of them, and a session is at one place of one operation.
TypeOK ==
  /\ DOMAIN article \subseteq Nat \ {0} /\ IsFiniteSet(DOMAIN article)
  /\ article \in [DOMAIN article -> ArticleFile]
  /\ DOMAIN info \subseteq Field /\ info \in [DOMAIN info -> Nat]
  /\ hasInfo \in BOOLEAN
  /\ exlock \subseteq Session
  /\ shlock \subseteq Session
  /\ pc \in [Session -> {"idle"} \cup PostPC \cup LoadPC]
  /\ obj \in [Session -> Counters]
  /\ current \in [Session -> Counters]
  /\ cand \in [Session -> Nat]
  /\ msg \in [Session -> Msg \cup {NoMsg}]
  /\ making \subseteq Session
  /\ stage \in [Msg -> Stages]
  /\ number \in [Msg -> Nat]
  /\ removed \subseteq Msg
  /\ known \in [Session -> SUBSET Msg]
  /\ filter \in [Session -> FilterState]
  /\ forgotten \subseteq Msg
  /\ verdict \in [Msg -> Verdicts]

\* The points at which a process holds the exclusive lock, and those between
\* SaveInfo's fopen(path, "w") and its fclose.
HoldsEx == {"post_load", "post_build", "post_check", "post_filter", "post_wait",
            "post_open", "post_write", "post_save", "post_flush", "post_unlock",
            "save_write", "build_scan", "build_flush", "build_unlock"}
Saving == {"post_build", "post_flush", "build_flush"}
\* The points at which Post is still writing its article file.
Writing == {"post_write", "post_save"}

-----------------------------------------------------------------------------
\* Helpers.

Go(p, from, to) == pc[p] = from /\ pc' = [pc EXCEPT ![p] = to]
Set(p, counters) == obj' = [obj EXCEPT ![p] = counters]
Mark(m, s) == stage' = [stage EXCEPT ![m] = s]

\* flock(fd, LOCK_EX), flock(fd, LOCK_SH): granted only when compatible.
LockEx(p) == exlock = {} /\ shlock = {} /\ exlock' = {p} /\ UNCHANGED shlock
LockShAtOnce(p) == shlock' = shlock \cup {p} /\ UNCHANGED exlock  \* faulty
LockSh(p) == exlock = {} /\ shlock' = shlock \cup {p} /\ UNCHANGED exlock
\* flock(fd, LOCK_UN), or the process' end.
Unlock(p) == exlock' = exlock \ {p} /\ shlock' = shlock \ {p}

\* LoadInfo's parse: a line that is missing leaves the object's field alone.
Parsed(old) == [f \in Field |-> IF f \in DOMAIN info THEN info[f] ELSE old[f]]

\* SaveInfo writes start, end, total in this order through one stdio buffer:
\* what is on disk when it is cut short is a prefix of the lines.
Torn(counters) ==
  {[f \in F |-> counters[f]] : F \in {{}, {"start"}, {"start", "end"}}}

\* BuildInfo's directory scan, `c' being what it counts.
Scan(c) ==
  LET N == DOMAIN article IN
  /\ c["total"] = Cardinality(N)
  /\ \/ N = {} /\ c["start"] = 0 /\ c["end"] = 0
     \/ /\ c["start"] \in N /\ c["end"] \in N
        /\ \A n \in N : c["start"] <= n /\ n <= c["end"]

Bounds == DOMAIN article \cup {0}

\* BuildInfo up to SaveInfo's fopen(path, "w").
ScanAndTruncate(p) ==
  /\ \E lo, hi \in Bounds :
       LET c == [f \in Field |-> CASE f = "start" -> lo
                                   [] f = "end"   -> hi
                                   [] f = "total" -> Cardinality(DOMAIN article)]
       IN  Scan(c) /\ Set(p, c)
  /\ info' = Empty /\ hasInfo' = TRUE

\* The rest of SaveInfo: WriteString three times, fflush, fsync, fclose, with
\* the results of the writes not looked at.
FinishSave(p) ==
  /\ \/ info' = obj[p]
     \/ "writeError" \in Faults /\ info' = Empty
  /\ UNCHANGED <<article, hasInfo>>

-----------------------------------------------------------------------------
Init ==
  /\ article = [n \in {} |-> NoMsg]
  /\ hasInfo = InfoAtStart
  /\ info = IF InfoAtStart THEN Zero ELSE Empty
  /\ exlock = {} /\ shlock = {}
  /\ pc = [p \in Session |-> "idle"]
  /\ obj = [p \in Session |-> Zero]
  /\ current = [p \in Session |-> Zero]
  /\ cand = [p \in Session |-> 0]
  /\ msg = [p \in Session |-> NoMsg]
  /\ making = {}
  /\ stage = [m \in Msg |-> "unsent"]
  /\ number = [m \in Msg |-> 0]
  /\ removed = {}
  /\ known = [p \in Session |-> {}]
  /\ filter = [p \in Session |-> "none"]
  /\ forgotten = {}
  /\ verdict = [m \in Msg |-> "none"]

\* An operation returns: its locals are gone.
Return(p) ==
  /\ pc' = [pc EXCEPT ![p] = "idle"]
  /\ obj' = [obj EXCEPT ![p] = Zero]
  /\ cand' = [cand EXCEPT ![p] = 0]
  /\ msg' = [msg EXCEPT ![p] = NoMsg]
  /\ making' = making \ {p}
  /\ known' = [known EXCEPT ![p] = {}]

-----------------------------------------------------------------------------
(* Group::Post.  The Group is a fresh object (tgroup, a local of CommandLoop).*)

BeginPost(p, m) ==
  /\ filter[p] = "none"
  /\ stage[m] = "unsent"
  /\ Go(p, "idle", "post_lock")
  /\ msg' = [msg EXCEPT ![p] = m]
  /\ Mark(m, "sent")
  /\ UNCHANGED <<disk, locks, obj, current, cand, making, number, removed, known, forgotten, spam>>

\* Faulty: the lock does not exclude a second poster.
PostLockFree(p) ==
  /\ Go(p, "post_lock", "post_load")
  /\ exlock' = exlock \cup {p} /\ UNCHANGED shlock
  /\ UNCHANGED <<disk, own, history, spam>>

PostLock(p) ==
  /\ Go(p, "post_lock", "post_load")
  /\ LockEx(p)
  /\ UNCHANGED <<disk, own, history, spam>>

\* Faulty: LoadInfo(postgroup, 1), which waits for a lock of its own.
PostLoadLocks(p) ==
  /\ hasInfo /\ exlock = {}
  /\ Go(p, "post_load", "post_check")
  /\ Set(p, Parsed(obj[p]))
  /\ UNCHANGED <<disk, locks, current, cand, msg, making, history, spam>>

\* LoadInfo(postgroup, 0): the lock is already held.
PostLoad(p) ==
  /\ hasInfo
  /\ Go(p, "post_load", "post_check")
  /\ Set(p, Parsed(obj[p]))
  /\ UNCHANGED <<disk, locks, current, cand, msg, making, history, spam>>

\* ... which builds .info from the directory when there is none.
PostBuild(p) ==
  /\ ~hasInfo
  /\ Go(p, "post_load", "post_build")
  /\ ScanAndTruncate(p)
  /\ forgotten' = removed
  /\ UNCHANGED <<article, locks, current, cand, msg, making, stage, number, removed, known, spam>>

PostBuilt(p) ==
  /\ Go(p, "post_build", "post_check")
  /\ FinishSave(p)
  /\ UNCHANGED <<locks, own, history, spam>>

\* popen of the spam filter; the article is written to it, under the lock.
PostFilter(p) ==
  /\ Filtering
  /\ Go(p, "post_check", "post_filter")
  /\ filter' = [filter EXCEPT ![p] = "runs"]
  /\ UNCHANGED <<disk, locks, own, history, verdict>>

\* pclose closes the pipe and goes to sleep in waitpid.
PostClose(p) ==
  /\ Go(p, "post_filter", "post_wait")
  /\ UNCHANGED <<disk, locks, own, history, spam>>

\* The filter ends with an exit status; one that outlived the process that
\* started it lets go of the lock, whose descriptor it inherited.
FilterEnds(p) ==
  /\ \/ /\ filter[p] = "runs"
        /\ \E v \in {"ham", "spam"} : verdict' = [verdict EXCEPT ![msg[p]] = v]
        /\ filter' = [filter EXCEPT ![p] = "ended"]
        /\ UNCHANGED locks
     \/ /\ filter[p] = "orphan"
        /\ filter' = [filter EXCEPT ![p] = "none"]
        /\ Unlock(p)
        /\ UNCHANGED verdict
  /\ UNCHANGED <<disk, pc, own, history>>

\* sigcld_handler, which the session inherited from the daemon, collects the
\* status before pclose does.  (Once asleep in waitpid, pclose comes first.)
Sigcld(p) ==
  /\ pc[p] = "post_filter" /\ filter[p] = "ended"
  /\ filter' = [filter EXCEPT ![p] = "reaped"]
  /\ UNCHANGED <<disk, locks, pc, own, history, verdict>>

\* pclose's status is not 0: the filter's own, or -1 as there is none any more.
PostReject(p) ==
  /\ pc[p] = "post_wait"
  /\ \/ filter[p] = "ended" /\ verdict[msg[p]] = "spam"
     \/ filter[p] = "reaped"
  /\ filter' = [filter EXCEPT ![p] = "none"]
  /\ Unlock(p)
  /\ Mark(msg[p], "refused")
  /\ Return(p)
  /\ UNCHANGED <<disk, current, number, removed, forgotten, verdict>>

\* An early return, each after Unlock(plock), with a 441 reply: the lock or
\* LoadInfo fails, posting is disabled, the filter cannot be started, a modulus
\* directory or the article cannot be created.
PostRefuse(p) ==
  /\ pc[p] \in {"post_lock", "post_load", "post_check", "post_open"}
  /\ Unlock(p)
  /\ Mark(msg[p], "refused")
  /\ Return(p)
  /\ UNCHANGED <<disk, current, number, removed, forgotten, spam>>

\* There is no filter, or pclose's status is 0.  Faulty: any status will do.
PassedAnyway(p) ==
  IF Filtering THEN pc[p] = "post_wait" /\ filter[p] \in {"ended", "reaped"}
               ELSE pc[p] = "post_check"
Passed(p) ==
  IF Filtering
  THEN pc[p] = "post_wait" /\ filter[p] = "ended" /\ verdict[msg[p]] = "ham"
  ELSE pc[p] = "post_check"

\* Faulty: the search for a number starts at the beginning, or at End().
PostAcceptFromOne(p) ==
  /\ Passed(p)
  /\ pc' = [pc EXCEPT ![p] = "post_open"]
  /\ filter' = [filter EXCEPT ![p] = "none"]
  /\ cand' = [cand EXCEPT ![p] = 1]
  /\ UNCHANGED <<disk, locks, obj, current, msg, making, history, verdict>>
PostAcceptFromEnd(p) ==
  /\ Passed(p)
  /\ pc' = [pc EXCEPT ![p] = "post_open"]
  /\ filter' = [filter EXCEPT ![p] = "none"]
  /\ cand' = [cand EXCEPT ![p] = obj[p]["end"]]
  /\ UNCHANGED <<disk, locks, obj, current, msg, making, history, verdict>>

PostAccept(p) ==
  /\ Passed(p)
  /\ pc' = [pc EXCEPT ![p] = "post_open"]
  /\ filter' = [filter EXCEPT ![p] = "none"]
  /\ cand' = [cand EXCEPT ![p] = obj[p]["end"] + 1]
  /\ UNCHANGED <<disk, locks, obj, current, msg, making, history, verdict>>

\* open(path, O_CREAT|O_EXCL) gives EEXIST: the next number is tried.
PostSkip(p) ==
  /\ pc[p] = "post_open"
  /\ cand[p] \in DOMAIN article
  /\ cand' = [cand EXCEPT ![p] = cand[p] + 1]
  /\ UNCHANGED <<disk, locks, pc, obj, current, msg, making, history, spam>>

\* Faulty: no O_EXCL.
PostCreateOver(p) ==
  /\ Go(p, "post_open", "post_write")
  /\ article' = [n \in DOMAIN article \cup {cand[p]} |->
                   IF n = cand[p] THEN [msg |-> msg[p], whole |-> FALSE]
                                  ELSE article[n]]
  /\ Mark(msg[p], "stored")
  /\ number' = [number EXCEPT ![msg[p]] = cand[p]]
  /\ UNCHANGED <<info, hasInfo, locks, own, removed, known, forgotten, spam>>

PostCreate(p) ==
  /\ Go(p, "post_open", "post_write")
  /\ cand[p] \notin DOMAIN article
  /\ article' = [n \in DOMAIN article \cup {cand[p]} |->
                   IF n = cand[p] THEN [msg |-> msg[p], whole |-> FALSE]
                                  ELSE article[n]]
  /\ Mark(msg[p], "stored")
  /\ number' = [number EXCEPT ![msg[p]] = cand[p]]
  /\ UNCHANGED <<info, hasInfo, locks, own, removed, known, forgotten, spam>>

\* The header, a separator and the body; failures are not looked at.
PostWrite(p) ==
  /\ Go(p, "post_write", "post_save")
  /\ \/ article' = [article EXCEPT ![cand[p]].whole = TRUE]
     \/ "writeError" \in Faults /\ UNCHANGED article
  /\ UNCHANGED <<info, hasInfo, locks, own, history, spam>>

\* Faulty: End()+1 instead of the number that was free.
CountedNext(c, n) ==
  [f \in Field |->
     CASE f = "start" -> IF c["total"] = 0 /\ c["start"] = 0 THEN 1 ELSE c["start"]
       [] f = "end"   -> c["end"] + 1
       [] f = "total" -> c["total"] + 1]

\* The counters after the article at `n' was added.
Counted(c, n) ==
  [f \in Field |->
     CASE f = "start" -> IF c["total"] = 0 /\ c["start"] = 0 THEN 1 ELSE c["start"]
       [] f = "end"   -> n
       [] f = "total" -> c["total"] + 1]

\* Start(1) for the first, End(msgnum), Total(Total()+1), SaveInfo's fopen.
PostSave(p) ==
  /\ Go(p, "post_save", "post_flush")
  /\ Set(p, Counted(obj[p], cand[p]))
  /\ info' = Empty /\ hasInfo' = TRUE
  /\ Mark(msg[p], "published")
  /\ UNCHANGED <<article, locks, current, cand, msg, making, number, removed, known, forgotten, spam>>

\* SaveInfo cannot open .info: the article stays, the client is told 441.
PostSaveFails(p) ==
  /\ "infoError" \in Faults
  /\ pc[p] = "post_save"
  /\ Unlock(p)
  /\ Mark(msg[p], "refused")
  /\ Return(p)
  /\ UNCHANGED <<disk, current, number, removed, forgotten, spam>>

PostFlush(p) ==
  /\ Go(p, "post_flush", "post_unlock")
  /\ FinishSave(p)
  /\ UNCHANGED <<locks, own, history, spam>>

PostUnlock(p) ==
  /\ Go(p, "post_unlock", "post_reply")
  /\ Unlock(p)
  /\ UNCHANGED <<disk, own, history, spam>>

\* "240 Article posted successfully."
PostReply(p) ==
  /\ pc[p] = "post_reply"
  /\ Mark(msg[p], "acked")
  /\ Return(p)
  /\ UNCHANGED <<disk, locks, current, number, removed, forgotten, spam>>

-----------------------------------------------------------------------------
(* Group::LoadInfo(1), the end of Group::NewGroup, and the BuildInfo(1)    *)
(* that both may come to.                                                  *)

Acked == {m \in Msg : stage[m] = "acked"}

\* GROUP and LISTGROUP load into the session's own object, whose counters are
\* those of an earlier load; LIST, NEWGROUPS load into a fresh one.
BeginLoad(p) ==
  /\ filter[p] = "none"
  /\ Go(p, "idle", "load_open")
  /\ \E c \in {current[p], Zero} : Set(p, c)
  /\ known' = [known EXCEPT ![p] = Acked]
  /\ UNCHANGED <<disk, locks, current, cand, msg, making, stage, number, removed, forgotten, spam>>

\* NewGroup on a group that exists: SaveConfig ...
BeginRebuild(p) ==
  /\ filter[p] = "none"
  /\ "rebuild" \in Faults
  /\ Go(p, "idle", "save_lock")
  /\ making' = making \cup {p}
  /\ UNCHANGED <<disk, locks, obj, current, cand, msg, history, spam>>

SaveLock(p) ==
  /\ Go(p, "save_lock", "save_write")
  /\ LockEx(p)
  /\ UNCHANGED <<disk, own, history, spam>>

\* ... which writes .config all the same when WriteLock gives -1 ...
SaveUnlocked(p) ==
  /\ Go(p, "save_lock", "build_lock")
  /\ UNCHANGED <<disk, locks, own, history, spam>>

\* ... and then BuildInfo(1).
SaveUnlock(p) ==
  /\ Go(p, "save_write", "build_lock")
  /\ Unlock(p)
  /\ UNCHANGED <<disk, own, history, spam>>

\* fopen(".info", "r") comes before ReadLock; without .info, BuildInfo(1).
LoadOpen(p) ==
  /\ Go(p, "load_open", IF hasInfo THEN "load_lock" ELSE "build_lock")
  /\ UNCHANGED <<disk, locks, own, history, spam>>

LoadLock(p) ==
  /\ Go(p, "load_lock", "load_read")
  /\ LockSh(p)
  /\ UNCHANGED <<disk, own, history, spam>>

LoadRead(p) ==
  /\ Go(p, "load_read", "config_lock")
  /\ Set(p, Parsed(obj[p]))
  /\ Unlock(p)
  /\ UNCHANGED <<disk, current, cand, msg, making, history, spam>>

\* Faulty: BuildInfo(0), which takes no lock.
BuildUnlocked(p) ==
  /\ Go(p, "build_lock", "build_scan")
  /\ UNCHANGED <<disk, locks, own, history, spam>>

BuildLock(p) ==
  /\ Go(p, "build_lock", "build_scan")
  /\ LockEx(p)
  /\ UNCHANGED <<disk, own, history, spam>>

BuildScan(p) ==
  /\ Go(p, "build_scan", "build_flush")
  /\ ScanAndTruncate(p)
  /\ forgotten' = removed
  /\ UNCHANGED <<article, locks, current, cand, msg, making, stage, number, removed, known, spam>>

BuildFlush(p) ==
  /\ Go(p, "build_flush", "build_unlock")
  /\ FinishSave(p)
  /\ UNCHANGED <<locks, own, history, spam>>

BuildUnlock(p) ==
  /\ p \notin making
  /\ Go(p, "build_unlock", "config_lock")
  /\ Unlock(p)
  /\ UNCHANGED <<disk, own, history, spam>>

\* NewGroup ends here.
RebuildReturn(p) ==
  /\ p \in making
  /\ pc[p] = "build_unlock"
  /\ Unlock(p)
  /\ Return(p)
  /\ UNCHANGED <<disk, current, stage, number, removed, forgotten, spam>>

\* LoadConfig's ReadLock, for .config.
ConfigLock(p) ==
  /\ Go(p, "config_lock", "config_read")
  /\ LockSh(p)
  /\ UNCHANGED <<disk, own, history, spam>>

\* LoadConfig unlocks and LoadInfo returns 0: the Group is the session's own, or
\* is thrown away.
LoadReturn(p) ==
  /\ pc[p] = "config_read"
  /\ Unlock(p)
  /\ \/ current' = [current EXCEPT ![p] = obj[p]]
     \/ UNCHANGED current
  /\ Return(p)
  /\ UNCHANGED <<disk, stage, number, removed, forgotten, spam>>

\* -1, as a file cannot be opened or locked: the session restores the copy of
\* its Group it made before; NewGroup gives up.
LoadFails(p) ==
  /\ \/ pc[p] \in {"load_open", "load_lock", "config_lock", "save_write", "build_lock"}
     \/ pc[p] = "build_scan" /\ "infoError" \in Faults
  /\ Unlock(p)
  /\ Return(p)
  /\ UNCHANGED <<disk, current, stage, number, removed, forgotten, spam>>

-----------------------------------------------------------------------------
(* What happens to a process, and what the administrator does.             *)

\* The process ends (exit(1) in sigalrm_handler, or a signal).  The kernel
\* drops its locks, but a spam filter that still runs has inherited the lock's
\* descriptor; exit flushes what SaveInfo had put into the buffer.
Crash(p) ==
  /\ "crash" \in Faults
  /\ pc[p] # "idle"
  /\ IF pc[p] \in Saving
     THEN info' \in {obj[p]} \cup (IF "tornInfo" \in Faults THEN Torn(obj[p]) ELSE {})
     ELSE UNCHANGED info
  /\ IF filter[p] = "runs"
     THEN filter' = [filter EXCEPT ![p] = "orphan"] /\ UNCHANGED locks
     ELSE filter' = [filter EXCEPT ![p] = "none"] /\ Unlock(p)
  /\ current' = [current EXCEPT ![p] = Zero]
  /\ Return(p)
  /\ UNCHANGED <<article, hasInfo, stage, number, removed, forgotten, verdict>>

\* rm of an article file, except one that Post is writing.
Expire(n) ==
  /\ "expire" \in Faults
  /\ n \in DOMAIN article
  /\ ~ \E p \in Session : pc[p] \in Writing /\ cand[p] = n
  /\ article' = [k \in DOMAIN article \ {n} |-> article[k]]
  /\ removed' = removed \cup {article[n].msg}
  /\ UNCHANGED <<info, hasInfo, locks, pc, own, stage, number, known, forgotten, spam>>

-----------------------------------------------------------------------------
\* The steps a process takes by itself once an operation began, other than
\* those that wait for the lock.
Step(p) ==
  \/ PostLoad(p) \/ PostBuild(p) \/ PostBuilt(p) \/ PostRefuse(p) \/ PostFilter(p)
  \/ PostClose(p) \/ PostReject(p) \/ Sigcld(p) \/ PostAccept(p)
  \/ PostSkip(p) \/ PostCreate(p) \/ PostWrite(p) \/ PostSave(p) \/ PostSaveFails(p)
  \/ PostFlush(p) \/ PostUnlock(p) \/ PostReply(p)
  \/ LoadOpen(p) \/ LoadRead(p) \/ LoadReturn(p) \/ LoadFails(p)
  \/ SaveUnlocked(p) \/ SaveUnlock(p)
  \/ BuildScan(p) \/ BuildFlush(p) \/ BuildUnlock(p) \/ RebuildReturn(p)

Waits(p) == PostLock(p) \/ LoadLock(p) \/ ConfigLock(p) \/ SaveLock(p) \/ BuildLock(p)

Begins(p) ==
  \/ p \in Poster /\ \E m \in Msg : BeginPost(p, m)
  \/ p \in Loader /\ (BeginLoad(p) \/ BeginRebuild(p))

Next ==
  \/ \E p \in Session : Step(p) \/ Waits(p) \/ FilterEnds(p) \/ Begins(p) \/ Crash(p)
  \/ \E n \in DOMAIN article : Expire(n)

Spec == Init /\ [][Next]_vars

\* The way forward of an operation: no early return, no failure.
Proceed(p) ==
  \/ PostLoad(p) \/ PostBuild(p) \/ PostBuilt(p) \/ PostAccept(p) \/ PostSkip(p)
  \/ PostFilter(p) \/ PostClose(p) \/ PostReject(p)
  \/ PostCreate(p) \/ PostWrite(p) \/ PostSave(p) \/ PostFlush(p) \/ PostUnlock(p)
  \/ PostReply(p)
  \/ LoadOpen(p) \/ LoadRead(p) \/ LoadReturn(p)
  \/ SaveUnlock(p) \/ BuildScan(p) \/ BuildFlush(p) \/ BuildUnlock(p) \/ RebuildReturn(p)

\* A process that can run does, flock does not pass over a waiter for ever
\* whose lock is to be had again and again, and a spam filter ends.  Nothing
\* makes a client begin, a lock fail or a process die.
Fairness ==
  \A p \in Session : WF_vars(Proceed(p)) /\ SF_vars(Waits(p)) /\ WF_vars(FilterEnds(p))

FairSpec == Spec /\ Fairness

-----------------------------------------------------------------------------
(* Properties.                                                             *)

PostedAt(m) == number[m] \in DOMAIN article /\ article[number[m]].msg = m

\* An article whose client got 240 (Post returned 0) stays in the spool, whole
\* and under its number, whoever crashes, posts or rebuilds .info meanwhile:
\* it goes only when the administrator removes it.
AckedDurable ==
  \A m \in Acked \ removed : PostedAt(m) /\ article[number[m]].whole

\* An article that Post is still writing is outside the range that .info
\* announces and outside every range a client was told: Post writes the file
\* before it moves End, and holds the lock from End()+1 on.  (A client may have
\* been told a range that a later scan of the directory took back.)
UnwrittenUnannounced ==
  \A p \in Session : pc[p] = "post_write" =>
    /\ "end" \in DOMAIN info => info["end"] < cand[p]
    /\ forgotten = {} => \A q \in Session : current[q]["end"] < cand[p]

Covers(c, m) == c["start"] <= number[m] /\ number[m] <= c["end"]

\* Whenever nobody holds the exclusive lock, the range in .info contains every
\* acknowledged article that was not removed, also after crashed posts left
\* files behind and after .info was rebuilt from the directory.  A process that
\* dies inside SaveInfo must leave .info whole for it (no "tornInfo"): Crash
\* writes what the buffer held, while a death before that leaves .info empty.
AckedAnnounced ==
  exlock = {} =>
    \A m \in Acked \ removed : DOMAIN info = Field /\ Covers(info, m)

\* What LoadInfo read contains every article that had been acknowledged
\* when the load began: a client that was told 240 sees its article in its
\* next GROUP, although LoadInfo opens .info before it takes the lock and
\* other processes truncate and rewrite the file.
LoadCoversAcked ==
  \A p \in Session : pc[p] \in {"config_lock", "config_read"} =>
    \A m \in known[p] \ removed : Covers(obj[p], m)

\* When Post is about to return, its .info covers every file in the directory,
\* even if an earlier SaveInfo was cut short and .info had lost its lines:
\* Post's walk over EEXIST finds the true end again.  (It stops at the first
\* gap, so this is said of directories from which nothing was removed.)
PostHealsInfo ==
  \A p \in Session : pc[p] = "post_unlock" /\ removed = {} =>
    \A n \in DOMAIN article : info["start"] <= n /\ n <= info["end"]

\* The number of an acknowledged article is never given to another one, not
\* even when the file was removed (CHANGES, STR #3), unless the directory was
\* scanned since (after a scan, End is the highest number that is left), or a
\* process died inside SaveInfo and left no End in .info: the next Post starts
\* at 1 then and takes the first number that was removed.  So this is said, as
\* AckedAnnounced is, of deaths that leave .info whole (no "tornInfo").
AckedNumberNotReused ==
  [][\A m \in Msg : number'[m] # number[m] =>
        \A k \in Acked \ forgotten : number[k] # number'[m]]_vars

\* What is in the spool has passed the spam filter, whatever happens to the
\* session while the filter runs or its status is under way.
SpamStaysOut ==
  Filtering => \A n \in DOMAIN article : verdict[article[n].msg] = "ham"

\* newsd.conf: the filter "should return 0 if the message is OK and non-zero if
\* it is spam": what Post rejects as spam is spam.
FilterDecides ==
  [][\A p \in Poster :
       pc[p] = "post_wait" /\ stage[msg[p]] # "refused" /\ stage'[msg[p]] = "refused" =>
         verdict[msg[p]] = "spam"]_vars

\* Where a process sleeps in flock(fd, LOCK_EX).
AwaitsEx == {"post_lock", "save_lock", "build_lock"}

\* A post and a load that began come to an end, unless the process waits for
\* LOCK_EX while readers' shared locks overlap for ever, which flock lets them
\* do.  Nothing else keeps it: posters do not starve posters or readers, Post
\* does not wait for the lock it holds itself (dolock = 0), the search for a
\* free number stops, a filter left behind lets go of the lock.
OperationsEnd ==
  \A p \in Session :
    []<>(pc[p] = "idle") \/ <>[](pc[p] \in AwaitsEx /\ shlock # {})

\* The published articles, as the abstract store sees them.
Published == {m \in Msg : stage[m] \in {"published", "acked"}}
LiveNumbers == {n \in DOMAIN article : article[n].msg \in Published}

Live == [n \in LiveNumbers |-> IF article[n].whole THEN article[n].msg ELSE NoMsg]

\* The numbers ever given out, as far as no later scan forgot them.
GivenNumbers == {number[m] : m \in Published \ forgotten} \cup {0}
Last == CHOOSE n \in GivenNumbers : \A k \in GivenNumbers : k <= n

Done == {m \in Msg : stage[m] \in {"published", "acked", "refused"}}

Store == INSTANCE ArticleStore WITH live <- Live, last <- Last, out <- Done

\* Post, seen from outside, publishes a whole article in one step under a
\* number above all earlier ones, and a post that was refused never shows.
ImplementsStore == Store!Spec
=============================================================================
