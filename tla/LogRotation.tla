------------------------------ MODULE LogRotation ------------------------------
(***************************************************************************)
(* The log file, as the daemon, its sessions and "newsd -rotate" use it    *)
(* (Configuration.C): LogMessage locks the log, reopens it when somebody   *)
(* renamed it, renames it when it has grown too large, writes and unlocks. *)
(*                                                                         *)
(* A session inherits the daemon's open file (fork), so that they share    *)
(* one open file description until the session opens the log itself, and   *)
(* flock locks open file descriptions: processes that share one do not     *)
(* exclude each other, and closing a shared one does not unlock it.        *)
(***************************************************************************)
EXTENDS Integers, FiniteSets

CONSTANTS
  Daemon,      \* the daemon
  Session,     \* its children, each forked and ended any number of times
  Rotator,     \* runs of "newsd -rotate"
  Ofd,         \* open file descriptions
  MaxFiles,    \* bound: the number of log files after which nobody starts to log
  MaxRefused,  \* bound: the failed renames of one log, likewise
  MaxLogSize,  \* maxlogsize, in lines; 0: no automatic rotation
  Faults       \* what may go wrong, a subset of AllFaults

Process == {Daemon} \cup Session \cup Rotator

AllFaults ==
  { "exit",       \* a session ends inside LogMessage (SIGALRM's exit(1))
    "gapExit",    \* ... even between rename and fopen
    "openError",  \* fopen of the log fails
    "renameError" } \* rename of the log fails, for want of permission

ASSUME ProcessAssumption ==
  /\ Daemon \notin Session \cup Rotator /\ Session \cap Rotator = {}
  /\ IsFiniteSet(Session) /\ IsFiniteSet(Rotator)
\* Every process has at most one file open.
ASSUME OfdAssumption ==
  /\ Ofd \subseteq Nat \ {0} /\ IsFiniteSet(Ofd)
  /\ Cardinality(Ofd) >= Cardinality(Process)
ASSUME MaxFilesAssumption == MaxFiles \in Nat \ {0}
ASSUME MaxRefusedAssumption == MaxRefused \in Nat
ASSUME MaxLogSizeAssumption == MaxLogSize \in Nat
ASSUME LogFaultsAssumption == Faults \subseteq AllFaults

VARIABLES
  path,     \* the inode that the name ErrorLog() has; 0: the name is not there
  made,     \* the number of log files made so far, which is the last one's inode
  size,     \* the lines in the file at `path' (no other file's size is read)
  inode,    \* open file description -> inode; 0: not in use
  locked,   \* the open file descriptions with LOCK_EX
  log,      \* `log' of each process: an open file description, or Stderr
  log_ino,  \* `log_ino' of each process
  pc,       \* where each process is
  quiet,    \* history: nobody else renamed the log, and it was there, since
            \* the process called LogMessage
  unmade,   \* history: whoever renamed the log failed to make the new one
  shared,   \* history: the open file descriptions in use that were inherited
  refused   \* history: how often the log at `path' could not be renamed

files == <<path, made, size, inode, locked, unmade, shared, refused>>
vars == <<path, made, size, inode, locked, log, log_ino, pc, quiet, unmade,
          shared, refused>>

-----------------------------------------------------------------------------
Closed == 0     \* log == 0, or no such process
Stderr == -1

LogPC == {"lock", "check", "close", "open", "relock", "size", "write", "unlock"}
RotatePC == {"rename", "rclose", "ropen", "rlock", "new"}
InitPC == {"initopen", "initlock"}

\* Every variable keeps its type; an open file description is in use exactly
\* when a process has it, and only one in use is locked.
TypeOK ==
  /\ path \in {0, made} /\ made \in Nat \ {0}
  /\ size \in Nat
  /\ inode \in [Ofd -> 0 .. made]
  /\ \A o \in Ofd : inode[o] = 0 <=> \A p \in Process : log[p] # o
  /\ locked \subseteq {o \in Ofd : inode[o] # 0}
  /\ log \in [Process -> Ofd \cup {Closed, Stderr}]
  /\ log_ino \in [Process -> 0 .. made]
  /\ pc \in [Process -> {"absent", "idle"} \cup LogPC \cup RotatePC \cup InitPC]
  /\ quiet \in [Process -> BOOLEAN]
  /\ unmade \in BOOLEAN
  /\ shared \subseteq {o \in Ofd : inode[o] # 0}
  /\ refused \in Nat

-----------------------------------------------------------------------------
\* The kernel's part.

Go(p, from, to) == pc[p] = from /\ pc' = [pc EXCEPT ![p] = to]

FreeOfd == CHOOSE o \in Ofd : inode[o] = 0

\* Faulty: the description goes although another process has it.
DropAlways(p) ==
  LET o == log[p] IN
  /\ inode' = IF o \in Ofd THEN [inode EXCEPT ![o] = 0] ELSE inode
  /\ locked' = locked \ {o} /\ shared' = shared \ {o}

\* fclose, or the process' end: the description goes, with its lock, when the
\* last process that has it closes it.
Drop(p) ==
  LET o == log[p]
      last == o \in Ofd /\ \A q \in Process \ {p} : log[q] # o
  IN  /\ inode' = IF last THEN [inode EXCEPT ![o] = 0] ELSE inode
      /\ locked' = IF last THEN locked \ {o} ELSE locked
      /\ shared' = IF last THEN shared \ {o} ELSE shared

\* fopen(errorlog, "a"), and fstat for log_ino.
OpenLog(p) ==
  LET i == IF path = 0 THEN made + 1 ELSE path IN
  /\ path' = i /\ made' = IF path = 0 THEN i ELSE made
  /\ size' = IF path = 0 THEN 0 ELSE size
  /\ inode' = [inode EXCEPT ![FreeOfd] = i]
  /\ log' = [log EXCEPT ![p] = FreeOfd]
  /\ log_ino' = [log_ino EXCEPT ![p] = i]
  /\ unmade' = FALSE
  /\ UNCHANGED <<locked, quiet, shared, refused>>

\* ... which fails: the log is stderr, log_ino is what it was.
OpenError(p) ==
  /\ "openError" \in Faults
  /\ log' = [log EXCEPT ![p] = Stderr]
  /\ unmade' = (unmade \/ (path = 0 /\ pc[p] = "ropen"))
  /\ UNCHANGED <<path, made, size, inode, locked, log_ino, quiet, shared,
                 refused>>

\* DateStampedMessage(log, ...): one line at the end of the file.
WriteLine(p) ==
  /\ size' = IF log[p] \in Ofd /\ inode[log[p]] = path THEN size + 1 ELSE size
  /\ UNCHANGED <<path, made, inode, locked, log, log_ino, unmade, shared>>

\* LogLock: nothing when there never was a log file; stderr is nobody else's
\* affair; a description that is locked already is granted again.
HasLog(p) == log_ino[p] # 0 /\ log[p] \in Ofd
Grants(p) ==
  HasLog(p) => \A other \in locked \ {log[p]} : inode[other] # inode[log[p]]
LogLock(p) ==
  /\ Grants(p)
  /\ locked' = IF HasLog(p) THEN locked \cup {log[p]} ELSE locked
  /\ UNCHANGED <<path, made, size, inode, log, log_ino, quiet, unmade, shared,
                 refused>>

\* LogUnlock: also if another process that shares it is not done yet.
LogUnlock(p) ==
  /\ locked' = IF log_ino[p] # 0 THEN locked \ {log[p]} ELSE locked
  /\ UNCHANGED <<path, made, size, inode, log, log_ino, unmade, shared, refused>>

-----------------------------------------------------------------------------
FirstOfd == CHOOSE o \in Ofd : TRUE

\* The daemon has opened the log; nothing else runs yet.
Init ==
  /\ path = 1 /\ made = 1 /\ size = 0
  /\ inode = [o \in Ofd |-> IF o = FirstOfd THEN path ELSE 0]
  /\ locked = {}
  /\ log = [p \in Process |-> IF p = Daemon THEN FirstOfd ELSE Closed]
  /\ log_ino = [p \in Process |-> IF p = Daemon THEN path ELSE 0]
  /\ unmade = FALSE /\ shared = {} /\ refused = 0
  /\ pc = [p \in Process |-> IF p = Daemon THEN "idle" ELSE "absent"]
  /\ quiet = [p \in Process |-> FALSE]

\* fork(): the child has the daemon's open file description.
Fork(s) ==
  /\ pc[Daemon] = "idle"
  /\ Go(s, "absent", "idle")
  /\ log' = [log EXCEPT ![s] = log[Daemon]]
  /\ log_ino' = [log_ino EXCEPT ![s] = log_ino[Daemon]]
  /\ shared' = shared \cup ({log[Daemon]} \cap Ofd)
  /\ UNCHANGED <<path, made, size, inode, locked, unmade, quiet, refused>>

\* Where a process renamed the log and has not made the new one.
InGap == {"rclose", "ropen"}

End(p) ==
  /\ pc' = [pc EXCEPT ![p] = "absent"]
  /\ Drop(p)
  /\ log' = [log EXCEPT ![p] = Closed]
  /\ log_ino' = [log_ino EXCEPT ![p] = 0]
  /\ quiet' = [quiet EXCEPT ![p] = FALSE]
  /\ unmade' = (unmade \/ (path = 0 /\ pc[p] \in InGap))
  /\ UNCHANGED <<path, made, size, refused>>

Exit(s) ==
  /\ \/ pc[s] = "idle"
     \/ "exit" \in Faults /\ pc[s] \in (LogPC \cup RotatePC) \ InGap
     \/ "gapExit" \in Faults /\ pc[s] \in InGap
  /\ End(s)

-----------------------------------------------------------------------------
(* LogMessage.                                                             *)

BeginLog(p) ==
  /\ made < MaxFiles /\ refused < MaxRefused
  /\ Go(p, "idle", "lock")
  /\ quiet' = [quiet EXCEPT ![p] = path # 0]
  /\ UNCHANGED <<files, log, log_ino>>

Lock(p) == Go(p, "lock", "check") /\ LogLock(p)

\* Faulty: the log is never found to have been rotated.
NeverRotated(p) == FALSE

\* When stat finds no file, the answer is no.
WasLogRotated(p) == log_ino[p] # 0 /\ path # 0 /\ path # log_ino[p]

Check(p) ==
  /\ Go(p, "check", IF WasLogRotated(p) THEN "close" ELSE "size")
  /\ UNCHANGED <<files, log, log_ino, quiet>>

Close(p, from, to) ==
  /\ Go(p, from, to)
  /\ Drop(p)
  /\ log' = [log EXCEPT ![p] = Closed]
  /\ UNCHANGED <<path, made, size, log_ino, quiet, unmade, refused>>

Reopen(p) == Go(p, "open", "relock") /\ (OpenLog(p) \/ OpenError(p))
Relock(p) == Go(p, "relock", "size") /\ LogLock(p)

\* Faulty: the log is never too large.
NeverTooLarge(p) == FALSE

\* Rotate(false) goes on to rename: the file that has the name now is too
\* large, whichever file the process has open.
TooLarge(p) == MaxLogSize > 0 /\ log_ino[p] # 0 /\ path # 0 /\ size > MaxLogSize

\* ... or writes that there is no such file (to the log it has).
Size(p) ==
  /\ Go(p, "size", IF TooLarge(p) THEN "rename" ELSE "write")
  /\ IF MaxLogSize > 0 /\ log_ino[p] # 0 /\ path = 0
     THEN WriteLine(p) ELSE UNCHANGED <<files, log, log_ino>>
  /\ UNCHANGED <<quiet, refused>>

Write(p) ==
  /\ Go(p, "write", "unlock")
  /\ WriteLine(p)
  /\ UNCHANGED <<quiet, refused>>

\* Faulty: returns without LogUnlock.
KeepLock(p) ==
  /\ p \notin Rotator
  /\ Go(p, "unlock", "idle")
  /\ quiet' = [quiet EXCEPT ![p] = FALSE]
  /\ UNCHANGED <<files, log, log_ino>>

Unlock(p) ==
  /\ Go(p, "unlock", "idle")
  /\ p \notin Rotator
  /\ LogUnlock(p)
  /\ quiet' = [quiet EXCEPT ![p] = FALSE]

-----------------------------------------------------------------------------
(* Rotate, from rename on.                                                 *)

AfterRotate(p) == IF p \in Rotator THEN "unlock" ELSE "write"

\* rename(errorlog, errorlog.O)
Rename(p) ==
  /\ path # 0
  /\ Go(p, "rename", "rclose")
  /\ path' = 0 /\ size' = 0 /\ refused' = 0
  /\ quiet' = [q \in Process |-> quiet[q] /\ q = p]
  /\ UNCHANGED <<made, inode, locked, log, log_ino, unmade, shared>>

\* ... which fails: another process took the name meanwhile, or the directory
\* may not be written to, and the log stays; in either case it gets a line more.
RenameFails(p) ==
  /\ path = 0 \/ "renameError" \in Faults
  /\ Go(p, "rename", AfterRotate(p))
  /\ WriteLine(p) /\ UNCHANGED quiet
  /\ refused' = IF path = 0 THEN refused ELSE refused + 1

\* The line "*** Log file rotated. ***" goes to a file that is not the log any
\* more; then OpenLogAppend's fclose.
RotateClose(p) == Close(p, "rclose", "ropen")

\* Faulty: the file is not opened again, as after a failed fopen.
KeepStderr(p) ==
  /\ Go(p, "ropen", AfterRotate(p))
  /\ log' = [log EXCEPT ![p] = Stderr] /\ UNCHANGED <<files, log_ino, quiet>>

RotateOpen(p) ==
  \/ Go(p, "ropen", "rlock") /\ OpenLog(p)
  \/ Go(p, "ropen", AfterRotate(p)) /\ OpenError(p)

RotateLock(p) == Go(p, "rlock", "new") /\ LogLock(p)
MarkNew(p) ==
  /\ Go(p, "new", AfterRotate(p))
  /\ WriteLine(p)
  /\ UNCHANGED <<quiet, refused>>

-----------------------------------------------------------------------------
(* newsd -rotate: InitLog, LogLock, Rotate(true), LogUnlock, exit.         *)

BeginRotate(r) ==
  /\ made < MaxFiles /\ refused < MaxRefused
  /\ Go(r, "absent", "initopen")
  /\ UNCHANGED <<files, log, log_ino, quiet>>

InitLog(r) == Go(r, "initopen", "initlock") /\ (OpenLog(r) \/ OpenError(r))

\* Without a log file nothing is renamed.
InitLock(r) ==
  /\ Go(r, "initlock", IF log_ino[r] # 0 THEN "rename" ELSE "unlock")
  /\ LogLock(r)

EndRotate(r) ==
  /\ r \in Rotator /\ pc[r] = "unlock"
  /\ End(r)

-----------------------------------------------------------------------------
\* The steps that may wait for the lock, and the others of a call.
Waits(p) == Lock(p) \/ Relock(p) \/ RotateLock(p) \/ InitLock(p)
Step(p) ==
  \/ Check(p) \/ Close(p, "close", "open") \/ Reopen(p) \/ Size(p) \/ Write(p)
  \/ Unlock(p) \/ Rename(p) \/ RenameFails(p) \/ RotateClose(p)
  \/ RotateOpen(p) \/ MarkNew(p) \/ InitLog(p) \/ EndRotate(p)

Next ==
  \/ \E p \in Process : Step(p) \/ Waits(p) \/ BeginLog(p)
  \/ \E s \in Session : Fork(s) \/ Exit(s)
  \/ \E r \in Rotator : BeginRotate(r)

Spec == Init /\ [][Next]_vars

-----------------------------------------------------------------------------
(* Properties.                                                             *)

\* A message goes to the file that is the log now, if nobody else renamed it
\* while the message was being logged: a process whose file was renamed earlier,
\* by anybody, finds that out and reopens, and a process that rotates goes on
\* with the new file.
MessageInCurrentLog ==
  [][\A p \in Process :
       pc[p] = "write" /\ pc'[p] = "unlock" /\ quiet[p] /\ log[p] # Stderr =>
         inode[log[p]] = path]_vars

\* The log outgrows MaxLogSize by no more than the two lines each process may
\* still write between its check and its return (a message, and the
\* "*** Log was rotated. ***" of its own rotation), and the two of each call
\* that could not rename it (a message, and the one about the failure).  So it
\* has no limit where the daemon may not rename it, and only there.
LogBounded ==
  MaxLogSize > 0 =>
    size <= MaxLogSize + 2 * Cardinality(Process) + 2 * refused

\* When the log's name is gone, a process is about to create it anew, unless
\* that one failed or ended: no order of rotations, early exits outside the
\* gap, and reopenings loses the name for good.
NameComesBack == path = 0 => unmade \/ \E p \in Process : pc[p] \in InGap

\* A process works under a lock once LogLock returned.
WaitPC == {"lock", "relock", "rlock", "initlock"}
Works(p, o) == log[p] = o /\ pc[p] \notin {"absent", "idle"} \cup WaitPC

\* Nobody is locked out of the log: every lock is held by a process that is at
\* work and does not wait for another lock, also after rotations, failures and
\* early exits.  Only on an open file description that was inherited can a lock
\* be left behind: until the daemon logs something itself, or ends.
LockHasWorker ==
  \A o \in locked \ shared : \E p \in Process : Works(p, o)

\* "false = rotate only if logsize > maxlogsize" (Rotate's comment): the log
\* that an automatic rotation renames is too large.
RotatesLargeOnly ==
  [][\A p \in Process \ Rotator :
       pc[p] = "rename" /\ pc'[p] = "rclose" => size > MaxLogSize]_vars
=============================================================================
