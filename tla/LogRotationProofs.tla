--------------------------- MODULE LogRotationProofs ---------------------------
(***************************************************************************)
(* Proofs about LogRotation, for any number of sessions and of runs of     *)
(* "newsd -rotate", any maxlogsize and any faults.                         *)
(***************************************************************************)
EXTENDS LogRotation, FiniteSetTheorems, TLAPS

\* Where a process has no log open, not even stderr.
NoLogPC == {"absent", "open", "ropen", "initopen"}

ClosedThere == \A p \in Process : log[p] = Closed <=> pc[p] \in NoLogPC

\* log_ino is right about the file that is open.
InoRight == \A p \in Process : log[p] \in Ofd => inode[log[p]] = log_ino[p]

\* A description that two processes have was inherited.
SharedKnown ==
  \A p, q \in Process : p # q /\ log[p] = log[q] /\ log[p] \in Ofd => log[p] \in shared

\* A process that nobody disturbs finds the log's name in place, unless it is
\* rotating itself or failed to, and from its check on it has the log itself open.
CheckedPC == {"relock", "size", "write", "rename", "rlock", "new"}
UndisturbedAt(p) ==
  quiet[p] =>
    /\ pc[p] \notin {"absent", "idle"} \cup InitPC
    /\ pc[p] \notin InGap /\ (log[p] # Stderr \/ pc[p] = "close") => path # 0
    /\ pc[p] \in CheckedPC /\ log[p] \in Ofd => inode[log[p]] = path
Undisturbed == \A p \in Process : UndisturbedAt(p)

LogInv ==
  /\ TypeOK /\ ClosedThere /\ InoRight /\ SharedKnown /\ Undisturbed
  /\ NameComesBack /\ LockHasWorker

Everywhere == {"absent", "idle"} \cup LogPC \cup RotatePC \cup InitPC

\* Where a process does not work, whatever it has open.
Resting == {"absent", "idle"} \cup WaitPC

-----------------------------------------------------------------------------
LEMMA ProcessFinite == IsFiniteSet(Process)
<1>1. IsFiniteSet({Daemon})
  BY FS_Singleton
<1>2. IsFiniteSet(Session \cup Rotator)
  BY FS_Union, ProcessAssumption
<1>3. Process = {Daemon} \cup (Session \cup Rotator)
  BY DEF Process
<1> QED
  BY <1>1, <1>2, <1>3, FS_Union

\* A process that has no file open can always get a description that nobody
\* has: otherwise the other processes would share fewer than they have.
LEMMA FreeOfdExists ==
  ASSUME TypeOK, NEW p \in Process, log[p] \notin Ofd
  PROVE  FreeOfd \in Ofd /\ inode[FreeOfd] = 0
<1> DEFINE Others == Process \ {p}
           Owner == [o \in Ofd |-> CHOOSE q \in Others : log[q] = o]
<1>1. IsFiniteSet(Others) /\ Cardinality(Others) = Cardinality(Process) - 1
  BY ProcessFinite, FS_RemoveElement
<1>2. Cardinality(Others) < Cardinality(Ofd)
  <2>1. Cardinality(Process) \in Nat /\ Cardinality(Ofd) \in Nat
    BY ProcessFinite, OfdAssumption, FS_CardinalityType
  <2> QED
    BY <1>1, <2>1, OfdAssumption
<1>3. \E o \in Ofd : inode[o] = 0
  <2> SUFFICES ASSUME \A o \in Ofd : inode[o] # 0
               PROVE  FALSE
    OBVIOUS
  <2>1. \A o \in Ofd : \E q \in Others : log[q] = o
    BY DEF TypeOK
  <2>2. \A o \in Ofd : Owner[o] \in Others /\ log[Owner[o]] = o
    BY <2>1
  <2>3. Owner \in [Ofd -> Others]
    BY <2>2
  <2> HIDE DEF Owner, Others
  <2>4. IsFiniteSet(Ofd) /\ IsFiniteSet(Others)
    BY <1>1, OfdAssumption
  <2>5. \E x, y \in Ofd : x # y /\ Owner[x] = Owner[y]
    BY <1>2, <2>3, <2>4, FS_PigeonHole, Zenon
  <2> QED
    BY <2>2, <2>5
<1> QED
  BY <1>3 DEF FreeOfd

-----------------------------------------------------------------------------
\* A step of p that leaves every open file alone keeps the invariant if p stays
\* what it was: with or without a log, in or out of the gap, at work or not.
LEMMA PlainStep ==
  ASSUME LogInv, NEW p \in Process, NEW to \in Everywhere,
         pc' = [pc EXCEPT ![p] = to],
         to \in NoLogPC <=> pc[p] \in NoLogPC,
         to \in InGap <=> pc[p] \in InGap,
         pc[p] \in Resting \/ to \notin Resting,
         UNCHANGED <<path, made, inode, locked, log, log_ino, unmade, shared>>,
         size' \in Nat, refused' \in Nat, quiet' \in [Process -> BOOLEAN],
         \A q \in Process \ {p} : quiet'[q] => quiet[q],
         UndisturbedAt(p)'
  PROVE  LogInv'
<1> USE DEF LogInv
<1>1. TypeOK'
  BY DEF TypeOK, Everywhere
<1>2. ClosedThere'
  BY DEF ClosedThere, TypeOK
<1>3. InoRight' /\ SharedKnown'
  BY DEF InoRight, SharedKnown
<1>4. Undisturbed'
  <2> SUFFICES ASSUME NEW q \in Process, q # p
               PROVE  UndisturbedAt(q)'
    BY DEF Undisturbed
  <2>1. UndisturbedAt(q) /\ pc'[q] = pc[q] /\ (quiet'[q] => quiet[q])
    BY DEF Undisturbed, TypeOK
  <2> QED
    BY <2>1 DEF UndisturbedAt
<1>5. NameComesBack'
  BY DEF NameComesBack, TypeOK
<1>6. LockHasWorker'
  <2> SUFFICES ASSUME NEW o \in locked \ shared
               PROVE  \E q \in Process : Works(q, o)'
    BY DEF LockHasWorker
  <2>1. PICK q \in Process : Works(q, o)
    BY DEF LockHasWorker
  <2>2. Works(q, o)'
    BY <2>1 DEF Works, Resting, TypeOK
  <2> QED
    BY <2>2
<1> QED
  BY <1>1, <1>2, <1>3, <1>4, <1>5, <1>6

\* LogLock, from a place where p waits for it to one where it works.
LEMMA LockStep ==
  ASSUME LogInv, NEW p \in Process, NEW to \in Everywhere,
         pc[p] \in WaitPC, pc' = [pc EXCEPT ![p] = to],
         to \notin Resting \cup NoLogPC \cup InGap \cup InitPC \cup {"close"},
         to \in CheckedPC => pc[p] \in CheckedPC \cup InitPC,
         LogLock(p)
  PROVE  LogInv'
<1> USE DEF LogInv
<1>1. TypeOK'
  BY DEF TypeOK, LogLock, HasLog, Everywhere
<1>2. ClosedThere'
  BY DEF ClosedThere, TypeOK, LogLock, WaitPC, NoLogPC
<1>3. InoRight' /\ SharedKnown'
  BY DEF InoRight, SharedKnown, LogLock
<1>4. Undisturbed'
  <2> SUFFICES ASSUME NEW q \in Process
               PROVE  UndisturbedAt(q)'
    BY DEF Undisturbed
  <2>1. UndisturbedAt(q)
    BY DEF Undisturbed
  <2>2. CASE q # p
    BY <2>1, <2>2 DEF UndisturbedAt, TypeOK, LogLock
  <2>3. CASE q = p
    <3>1. pc'[p] = to /\ UNCHANGED <<path, inode, log, quiet>>
      BY DEF TypeOK, LogLock
    <3>2. pc[p] \notin InGap /\ to # "close"
      BY DEF WaitPC, InGap, Everywhere
    <3> QED
      BY <2>1, <2>3, <3>1, <3>2 DEF UndisturbedAt, Resting, InitPC
  <2> QED
    BY <2>2, <2>3
<1>5. NameComesBack'
  BY DEF NameComesBack, TypeOK, LogLock, WaitPC, InGap
<1>6. LockHasWorker'
  <2> SUFFICES ASSUME NEW o \in locked' \ shared
               PROVE  \E q \in Process : Works(q, o)'
    BY DEF LockHasWorker, LogLock
  <2>1. CASE o = log[p]
    <3>1. Works(p, o)'
      BY <2>1 DEF Works, LogLock, Resting, TypeOK
    <3> QED
      BY <3>1
  <2>2. CASE o # log[p]
    <3>1. o \in locked \ shared
      BY <2>2 DEF LogLock
    <3>2. PICK q \in Process : Works(q, o)
      BY <3>1 DEF LockHasWorker
    <3>3. Works(q, o)'
      BY <2>2, <3>2 DEF Works, LogLock, TypeOK
    <3> QED
      BY <3>3
  <2> QED
    BY <2>1, <2>2
<1> QED
  BY <1>1, <1>2, <1>3, <1>4, <1>5, <1>6

\* fclose: whoever else has the file keeps it, with its lock, and then it is shared.
LEMMA DropStep ==
  ASSUME LogInv, NEW p \in Process, NEW to \in NoLogPC,
         pc[p] \notin {"absent"} \cup InitPC, pc' = [pc EXCEPT ![p] = to],
         Drop(p), log' = [log EXCEPT ![p] = Closed],
         log_ino' \in {log_ino, [log_ino EXCEPT ![p] = 0]},
         quiet' \in [Process -> BOOLEAN], \A q \in Process : quiet'[q] => quiet[q],
         unmade' \in BOOLEAN, UNCHANGED <<path, made, size, refused>>,
         \/ to = "open" /\ pc[p] = "close" /\ unmade' = unmade
         \/ to = "ropen" /\ pc[p] = "rclose" /\ unmade' = unmade
         \/ to = "absent" /\ ~quiet'[p] /\ unmade' = (unmade \/ (path = 0 /\ pc[p] \in InGap))
  PROVE  LogInv'
<1> USE DEF LogInv
<1>0. Closed \notin Ofd
  BY OfdAssumption DEF Closed
<1>1. /\ log'[p] = Closed /\ pc'[p] = to
      /\ \A q \in Process \ {p} : log'[q] = log[q] /\ pc'[q] = pc[q] /\ log_ino'[q] = log_ino[q]
  BY DEF TypeOK
\* A description that somebody has keeps its file and its lock; that of p goes
\* with its lock if nobody else has it.
<1>2. /\ \A q \in Process : log'[q] \in Ofd =>
             /\ inode'[log'[q]] = inode[log'[q]]
             /\ log'[q] \in locked' <=> log'[q] \in locked
             /\ log'[q] \in shared' <=> log'[q] \in shared
      /\ \A o \in Ofd : (\A q \in Process : log'[q] # o) <=> inode'[o] = 0
      /\ inode' \in [Ofd -> 0 .. made]
  <2>1. CASE log[p] \in Ofd /\ \A q \in Process \ {p} : log[q] # log[p]
    BY <1>0, <1>1, <2>1 DEF Drop, TypeOK
  <2>2. CASE ~(log[p] \in Ofd /\ \A q \in Process \ {p} : log[q] # log[p])
    <3>1. UNCHANGED <<inode, locked, shared>>
      BY <2>2 DEF Drop
    <3> QED
      BY <1>0, <1>1, <2>2, <3>1 DEF TypeOK
  <2> QED
    BY <2>1, <2>2
<1>3. locked' \subseteq locked /\ shared' \subseteq shared
  BY DEF Drop
<1>4. \A o \in locked' \cup shared' : inode'[o] # 0
  BY DEF Drop, TypeOK
<1>5. TypeOK'
  <2>1. pc' \in [Process -> Everywhere]
    BY DEF TypeOK, NoLogPC, Everywhere, LogPC, RotatePC, InitPC
  <2>2. log' \in [Process -> Ofd \cup {Closed, Stderr}] /\ log_ino' \in [Process -> 0 .. made]
    BY DEF TypeOK
  <2> QED
    BY <1>2, <1>3, <1>4, <2>1, <2>2 DEF TypeOK, Everywhere
<1>6. ClosedThere'
  BY <1>1 DEF ClosedThere
<1>7. InoRight'
  BY <1>0, <1>1, <1>2 DEF InoRight
<1>8. SharedKnown'
  BY <1>0, <1>1, <1>2 DEF SharedKnown
<1>9. Undisturbed'
  <2> SUFFICES ASSUME NEW q \in Process
               PROVE  UndisturbedAt(q)'
    BY DEF Undisturbed
  <2>1. UndisturbedAt(q)
    BY DEF Undisturbed
  <2>2. CASE q # p
    BY <1>1, <1>2, <2>1, <2>2 DEF UndisturbedAt
  <2>3. CASE q = p
    BY <1>1, <1>0, <2>1, <2>3 DEF UndisturbedAt, InGap, CheckedPC, InitPC
  <2> QED
    BY <2>2, <2>3
<1>10. NameComesBack'
  BY <1>1 DEF NameComesBack, InGap
<1>11. LockHasWorker'
  <2> SUFFICES ASSUME NEW o \in locked' \ shared'
               PROVE  \E q \in Process : Works(q, o)'
    BY DEF LockHasWorker
  <2>1. o \in Ofd /\ o \in locked
    BY <1>3 DEF TypeOK
  \* The description was not shared before either, or p closed the last one.
  <2>2. o \notin shared /\ o # log[p]
    BY <2>1 DEF Drop, SharedKnown, TypeOK
  <2>3. PICK q \in Process : Works(q, o)
    BY <2>1, <2>2 DEF LockHasWorker
  <2>4. q # p /\ Works(q, o)'
    BY <1>1, <2>2, <2>3 DEF Works
  <2> QED
    BY <2>4
<1> QED
  BY <1>5, <1>6, <1>7, <1>8, <1>9, <1>10, <1>11

\* fopen succeeds: p has a description of its own, of the file with the log's name.
LEMMA OpenStep ==
  ASSUME LogInv, NEW p \in Process, pc[p] \in NoLogPC, NEW to \in WaitPC \ {"lock"},
         to = "initlock" => pc[p] = "initopen",
         pc' = [pc EXCEPT ![p] = to], OpenLog(p)
  PROVE  LogInv'
<1> USE DEF LogInv
<1> DEFINE i == IF path = 0 THEN made + 1 ELSE path
           new == FreeOfd
<1>0. log[p] \notin Ofd
  BY OfdAssumption DEF ClosedThere, Closed
<1>1. new \in Ofd /\ inode[new] = 0 /\ \A q \in Process : log[q] # new
  BY <1>0, FreeOfdExists DEF TypeOK
<1> HIDE DEF new
<1>2. /\ i \in Nat \ {0} /\ path' = i /\ made' = i /\ made <= i
      /\ path # 0 => path' = path
      /\ size' \in Nat
  BY DEF OpenLog, TypeOK
<1> HIDE DEF i
<1>3. /\ log'[p] = new /\ log_ino'[p] = i /\ pc'[p] = to /\ inode'[new] = i
      /\ \A o \in Ofd \ {new} : inode'[o] = inode[o]
      /\ \A q \in Process \ {p} :
           log'[q] = log[q] /\ log_ino'[q] = log_ino[q] /\ pc'[q] = pc[q]
      /\ inode' = [inode EXCEPT ![new] = i] /\ log' = [log EXCEPT ![p] = new]
      /\ log_ino' = [log_ino EXCEPT ![p] = i]
      /\ UNCHANGED <<locked, shared, quiet, refused>> /\ unmade' = FALSE
  BY <1>1 DEF OpenLog, TypeOK, new, i
<1>4. TypeOK'
  <2>1. pc' \in [Process -> Everywhere]
    BY DEF TypeOK, WaitPC, Everywhere, LogPC, RotatePC, InitPC
  <2>2. inode' \in [Ofd -> 0 .. made'] /\ log_ino' \in [Process -> 0 .. made']
    BY <1>1, <1>2, <1>3 DEF TypeOK
  <2>3. log' \in [Process -> Ofd \cup {Closed, Stderr}]
    BY <1>1, <1>3 DEF TypeOK
  <2>4. \A o \in Ofd : inode'[o] = 0 <=> \A q \in Process : log'[q] # o
    BY <1>0, <1>1, <1>2, <1>3 DEF TypeOK
  <2>5. locked' \subseteq {o \in Ofd : inode'[o] # 0} /\ shared' \subseteq {o \in Ofd : inode'[o] # 0}
    BY <1>1, <1>3 DEF TypeOK
  <2> QED
    BY <1>2, <1>3, <2>1, <2>2, <2>3, <2>4, <2>5 DEF TypeOK, Everywhere
<1>5. ClosedThere'
  <2>1. new # Closed /\ to \notin NoLogPC
    BY <1>1, OfdAssumption DEF Closed, WaitPC, NoLogPC
  <2> QED
    BY <1>3, <2>1 DEF ClosedThere
<1>6. InoRight'
  BY <1>1, <1>3 DEF InoRight
<1>7. SharedKnown'
  BY <1>1, <1>3 DEF SharedKnown
<1>8. Undisturbed'
  <2> SUFFICES ASSUME NEW q \in Process
               PROVE  UndisturbedAt(q)'
    BY DEF Undisturbed
  <2>1. UndisturbedAt(q)
    BY DEF Undisturbed
  <2>2. CASE q # p
    <3>1. quiet[q] /\ pc[q] \in CheckedPC /\ log[q] \in Ofd => inode[log[q]] = path /\ path # 0
      BY <2>1 DEF UndisturbedAt, TypeOK
    <3> QED
      BY <1>1, <1>2, <1>3, <2>1, <2>2, <3>1 DEF UndisturbedAt
  <2>3. CASE q = p
    <3>1. quiet[p] => to # "initlock"
      BY <2>1, <2>3 DEF UndisturbedAt, InitPC
    <3> QED
      BY <1>2, <1>3, <2>3, <3>1 DEF UndisturbedAt, WaitPC, InitPC
  <2> QED
    BY <2>2, <2>3
<1>9. NameComesBack'
  BY <1>2 DEF NameComesBack
<1>10. LockHasWorker'
  <2> SUFFICES ASSUME NEW o \in locked \ shared
               PROVE  \E q \in Process : Works(q, o)'
    BY <1>3 DEF LockHasWorker
  <2>1. PICK q \in Process : Works(q, o)
    BY DEF LockHasWorker
  <2>2. q # p
    BY <1>0, <2>1 DEF Works, TypeOK
  <2> QED
    BY <1>3, <2>1, <2>2 DEF Works
<1> QED
  BY <1>4, <1>5, <1>6, <1>7, <1>8, <1>9, <1>10

\* fopen fails: the log of p is stderr.  In the middle of a rotation that is
\* remembered.
LEMMA OpenErrorStep ==
  ASSUME LogInv, NEW p \in Process, NEW to \in Everywhere,
         pc[p] \in NoLogPC \ {"absent"}, pc' = [pc EXCEPT ![p] = to],
         to \notin NoLogPC \cup InGap \cup {"idle", "close"},
         to = "initlock" => pc[p] = "initopen",
         OpenError(p)
  PROVE  LogInv'
<1> USE DEF LogInv
<1>0. log[p] \notin Ofd /\ Stderr \notin Ofd /\ Stderr # Closed
  BY OfdAssumption DEF ClosedThere, Closed, Stderr
<1>1. /\ log'[p] = Stderr /\ pc'[p] = to
      /\ \A q \in Process \ {p} : log'[q] = log[q] /\ pc'[q] = pc[q]
      /\ UNCHANGED <<path, made, size, inode, locked, log_ino, quiet, shared, refused>>
  BY DEF OpenError, TypeOK
<1>2. TypeOK'
  BY <1>0, <1>1 DEF TypeOK, OpenError, Everywhere
<1>3. ClosedThere'
  BY <1>0, <1>1 DEF ClosedThere
<1>4. InoRight' /\ SharedKnown'
  BY <1>0, <1>1 DEF InoRight, SharedKnown
<1>5. Undisturbed'
  <2> SUFFICES ASSUME NEW q \in Process
               PROVE  UndisturbedAt(q)'
    BY DEF Undisturbed
  <2>1. UndisturbedAt(q)
    BY DEF Undisturbed
  <2>2. CASE q # p
    BY <1>1, <2>1, <2>2 DEF UndisturbedAt
  <2>3. CASE q = p
    <3>1. quiet[p] => to \notin {"absent", "idle"} \cup InitPC
      <4>1. to # "initopen" /\ to # "absent"
        BY DEF NoLogPC
      <4> QED
        BY <2>1, <2>3, <4>1 DEF UndisturbedAt, InitPC
    <3> QED
      BY <1>0, <1>1, <2>3, <3>1 DEF UndisturbedAt
  <2> QED
    BY <2>2, <2>3
<1>6. NameComesBack'
  BY <1>1 DEF NameComesBack, OpenError, InGap, NoLogPC
<1>7. LockHasWorker'
  BY <1>0, <1>1 DEF LockHasWorker, Works, TypeOK
<1> QED
  BY <1>2, <1>3, <1>4, <1>5, <1>6, <1>7

\* LogUnlock: if nobody else has the description, its lock is gone.
LEMMA UnlockStep ==
  ASSUME LogInv, NEW p \in Process, Unlock(p)
  PROVE  LogInv'
<1> USE DEF LogInv
<1>1. /\ pc[p] = "unlock" /\ pc'[p] = "idle" /\ ~quiet'[p]
      /\ \A q \in Process \ {p} : pc'[q] = pc[q] /\ quiet'[q] = quiet[q]
      /\ UNCHANGED <<path, made, size, inode, log, log_ino, unmade, shared, refused>>
      /\ locked' \subseteq locked
  BY DEF Unlock, Go, LogUnlock, TypeOK
<1>2. TypeOK'
  BY <1>1 DEF TypeOK, Unlock, Go
<1>3. ClosedThere'
  BY <1>1 DEF ClosedThere, NoLogPC
<1>4. InoRight' /\ SharedKnown'
  BY <1>1 DEF InoRight, SharedKnown
<1>5. Undisturbed'
  BY <1>1 DEF Undisturbed, UndisturbedAt
<1>6. NameComesBack'
  BY <1>1 DEF NameComesBack, InGap
<1>7. LockHasWorker'
  <2> SUFFICES ASSUME NEW o \in locked' \ shared
               PROVE  \E q \in Process : Works(q, o)'
    BY <1>1 DEF LockHasWorker
  <2>1. o \in locked /\ o \in Ofd
    BY <1>1 DEF TypeOK
  <2>2. o # log[p]
    BY <2>1 DEF Unlock, LogUnlock, InoRight, TypeOK
  <2>3. PICK q \in Process : Works(q, o)
    BY <2>1 DEF LockHasWorker
  <2>4. q # p
    BY <2>2, <2>3 DEF Works
  <2> QED
    BY <1>1, <2>3, <2>4 DEF Works
<1> QED
  BY <1>2, <1>3, <1>4, <1>5, <1>6, <1>7

LEMMA RenameStep ==
  ASSUME LogInv, NEW p \in Process, Rename(p)
  PROVE  LogInv'
<1> USE DEF LogInv
<1>1. /\ pc[p] = "rename" /\ pc'[p] = "rclose"
      /\ \A q \in Process \ {p} : pc'[q] = pc[q] /\ ~quiet'[q]
      /\ path' = 0 /\ size' = 0 /\ refused' = 0
      /\ UNCHANGED <<made, inode, locked, log, log_ino, unmade, shared>>
  BY DEF Rename, Go, TypeOK
<1>2. TypeOK'
  BY <1>1 DEF TypeOK, Rename, Go, RotatePC
<1>3. ClosedThere'
  BY <1>1 DEF ClosedThere, NoLogPC
<1>4. InoRight' /\ SharedKnown'
  BY <1>1 DEF InoRight, SharedKnown
<1>5. Undisturbed'
  BY <1>1 DEF Undisturbed, UndisturbedAt, InGap, CheckedPC, InitPC
<1>6. NameComesBack'
  BY <1>1 DEF NameComesBack, InGap
<1>7. LockHasWorker'
  BY <1>1 DEF LockHasWorker, Works, WaitPC
<1> QED
  BY <1>2, <1>3, <1>4, <1>5, <1>6, <1>7

\* fork: the child rests, with a description that counts as shared.
LEMMA ForkStep ==
  ASSUME LogInv, NEW s \in Session, Fork(s)
  PROVE  LogInv'
<1> USE DEF LogInv
<1>0. s \in Process /\ Daemon \in Process /\ s # Daemon
  BY ProcessAssumption DEF Process
<1>1. /\ pc[s] = "absent" /\ pc'[s] = "idle" /\ pc[Daemon] = "idle"
      /\ log'[s] = log[Daemon] /\ log_ino'[s] = log_ino[Daemon]
      /\ \A q \in Process \ {s} :
           pc'[q] = pc[q] /\ log'[q] = log[q] /\ log_ino'[q] = log_ino[q]
      /\ shared \subseteq shared' /\ (log[Daemon] \in Ofd => log[Daemon] \in shared')
      /\ UNCHANGED <<path, made, size, inode, locked, unmade, quiet, refused>>
  BY <1>0 DEF Fork, Go, TypeOK
<1>2. log[s] \notin Ofd
  BY <1>0, <1>1, OfdAssumption DEF ClosedThere, Closed, NoLogPC
<1>3. TypeOK'
  <2>1. pc' \in [Process -> Everywhere]
    BY DEF TypeOK, Fork, Go, Everywhere
  <2>2. log' \in [Process -> Ofd \cup {Closed, Stderr}] /\ log_ino' \in [Process -> 0 .. made]
    BY <1>0 DEF Fork, TypeOK
  <2>3. \A o \in Ofd : inode[o] = 0 <=> \A q \in Process : log'[q] # o
    BY <1>0, <1>1, <1>2 DEF TypeOK
  <2>4. shared' \subseteq {o \in Ofd : inode[o] # 0}
    BY <1>0 DEF Fork, TypeOK
  <2> QED
    BY <1>1, <2>1, <2>2, <2>3, <2>4 DEF TypeOK, Everywhere
<1>4. ClosedThere'
  BY <1>0, <1>1 DEF ClosedThere, NoLogPC
<1>5. InoRight'
  BY <1>0, <1>1 DEF InoRight
<1>6. SharedKnown'
  BY <1>0, <1>1 DEF SharedKnown
<1>7. Undisturbed'
  BY <1>0, <1>1 DEF Undisturbed, UndisturbedAt
<1>8. NameComesBack'
  BY <1>1 DEF NameComesBack, InGap
<1>9. LockHasWorker'
  BY <1>1 DEF LockHasWorker, Works
<1> QED
  BY <1>3, <1>4, <1>5, <1>6, <1>7, <1>8, <1>9

-----------------------------------------------------------------------------
LEMMA LogInit == Init => LogInv
<1> SUFFICES ASSUME Init
             PROVE  LogInv
  OBVIOUS
<1>0. Daemon \in Process
  BY DEF Process
<1>1. FirstOfd \in Ofd
  <2>1. Cardinality(Process) # 0
    BY <1>0, ProcessFinite, FS_EmptySet
  <2>2. Cardinality(Process) \in Nat /\ Cardinality(Ofd) \in Nat
    BY ProcessFinite, OfdAssumption, FS_CardinalityType
  <2>3. Ofd # {}
    BY <2>1, <2>2, OfdAssumption, FS_EmptySet
  <2> QED
    BY <2>3 DEF FirstOfd
<1>2. FirstOfd # Closed
  BY <1>1, OfdAssumption DEF Closed
<1>3. TypeOK
  <2>1. \A o \in Ofd : inode[o] = 0 <=> \A p \in Process : log[p] # o
    BY <1>0, <1>1, OfdAssumption DEF Init, Closed
  <2>2. log \in [Process -> Ofd \cup {Closed, Stderr}]
    BY <1>1 DEF Init
  <2>3. inode \in [Ofd -> 0 .. made] /\ log_ino \in [Process -> 0 .. made]
    BY DEF Init
  <2>4. pc \in [Process -> {"absent", "idle"} \cup LogPC \cup RotatePC \cup InitPC]
    BY DEF Init
  <2>5. path = 1 /\ made = 1 /\ size = 0 /\ refused = 0
    BY DEF Init
  <2>6. path \in {0, made} /\ made \in Nat \ {0} /\ size \in Nat /\ refused \in Nat
    BY <2>5
  <2>7. locked = {} /\ shared = {} /\ unmade \in BOOLEAN /\ quiet \in [Process -> BOOLEAN]
    BY DEF Init
  <2>8. locked \subseteq {o \in Ofd : inode[o] # 0} /\ shared \subseteq {o \in Ofd : inode[o] # 0}
    BY <2>7
  <2> QED
    BY <2>1, <2>2, <2>3, <2>4, <2>6, <2>7, <2>8, Zenon DEF TypeOK
<1>4. ClosedThere
  BY <1>2 DEF Init, ClosedThere, NoLogPC
<1>5. InoRight /\ SharedKnown
  BY <1>1, OfdAssumption DEF Init, InoRight, SharedKnown, Closed
<1>6. Undisturbed /\ NameComesBack /\ LockHasWorker
  BY DEF Init, Undisturbed, UndisturbedAt, NameComesBack, LockHasWorker
<1> QED
  BY <1>3, <1>4, <1>5, <1>6 DEF LogInv

LEMMA StepKeepsLogInv ==
  ASSUME LogInv, NEW p \in Process, Step(p) \/ Waits(p) \/ BeginLog(p)
  PROVE  LogInv'
<1> USE DEF NoLogPC, InGap, Resting, WaitPC, Everywhere, LogPC, RotatePC, InitPC, CheckedPC
<1>0. UndisturbedAt(p) /\ TypeOK
  BY DEF LogInv, Undisturbed
<1>w. ASSUME WriteLine(p)
      PROVE  size' \in Nat
  BY <1>0, <1>w DEF WriteLine, TypeOK
<1>1. CASE Lock(p) \/ Relock(p) \/ RotateLock(p) \/ InitLock(p)
  <2>1. CASE Lock(p)
    BY <2>1, LockStep DEF Lock, Go
  <2>2. CASE Relock(p)
    BY <2>2, LockStep DEF Relock, Go
  <2>3. CASE RotateLock(p)
    BY <2>3, LockStep DEF RotateLock, Go
  <2>4. CASE InitLock(p)
    <3>1. PICK to \in {"rename", "unlock"} : pc' = [pc EXCEPT ![p] = to]
      BY <2>4 DEF InitLock, Go
    <3> QED
      BY <2>4, <3>1, LockStep DEF InitLock, Go
  <2> QED
    BY <1>1, <2>1, <2>2, <2>3, <2>4
<1>2. CASE BeginLog(p)
  <2>1. quiet' \in [Process -> BOOLEAN] /\ pc'[p] = "lock" /\ quiet'[p] = (path # 0)
        /\ \A q \in Process \ {p} : quiet'[q] = quiet[q]
    BY <1>0, <1>2 DEF BeginLog, Go, TypeOK
  <2>2. UndisturbedAt(p)'
    BY <1>2, <2>1 DEF UndisturbedAt, BeginLog, files
  <2> QED
    BY <1>0, <1>2, <2>1, <2>2, PlainStep DEF BeginLog, Go, files, TypeOK
<1>3. CASE Check(p)
  <2> DEFINE to == IF WasLogRotated(p) THEN "close" ELSE "size"
  <2>1. pc[p] = "check" /\ pc' = [pc EXCEPT ![p] = to] /\ pc'[p] = to
        /\ UNCHANGED <<path, made, size, inode, locked, log, log_ino, unmade, shared, quiet, refused>>
    BY <1>0, <1>3 DEF Check, Go, files, TypeOK
  <2>2. to \in {"close", "size"} /\ (to = "close" => path # 0)
        /\ (to = "size" /\ path # 0 /\ log[p] \in Ofd => inode[log[p]] = path)
    BY <1>0 DEF WasLogRotated, LogInv, InoRight, TypeOK
  <2> HIDE DEF to
  <2>3. UndisturbedAt(p)'
    <3>1. log[p] \in Ofd => log[p] # Stderr
      BY OfdAssumption DEF Stderr
    <3> QED
      BY <1>0, <2>1, <2>2, <3>1 DEF UndisturbedAt
  <2> QED
    BY <1>0, <2>1, <2>2, <2>3, PlainStep DEF TypeOK
<1>4. CASE Close(p, "close", "open") \/ RotateClose(p)
  <2>1. CASE Close(p, "close", "open")
    <3>1. pc[p] = "close" /\ pc' = [pc EXCEPT ![p] = "open"]
          /\ Drop(p) /\ log' = [log EXCEPT ![p] = Closed]
          /\ UNCHANGED <<path, made, size, log_ino, quiet, unmade, refused>>
      BY <2>1 DEF Close, Go
    <3>2. quiet' \in [Process -> BOOLEAN] /\ unmade' \in BOOLEAN
      BY <1>0, <3>1 DEF TypeOK
    <3> QED
      BY <3>1, <3>2, DropStep
  <2>2. CASE RotateClose(p)
    <3>1. pc[p] = "rclose" /\ pc' = [pc EXCEPT ![p] = "ropen"]
          /\ Drop(p) /\ log' = [log EXCEPT ![p] = Closed]
          /\ UNCHANGED <<path, made, size, log_ino, quiet, unmade, refused>>
      BY <2>2 DEF RotateClose, Close, Go
    <3>2. quiet' \in [Process -> BOOLEAN] /\ unmade' \in BOOLEAN
      BY <1>0, <3>1 DEF TypeOK
    <3> QED
      BY <3>1, <3>2, DropStep
  <2> QED
    BY <1>4, <2>1, <2>2
<1>5. CASE Reopen(p) \/ InitLog(p) \/ RotateOpen(p)
  <2>1. ASSUME NEW from \in {"open", "ropen", "initopen"},
               NEW to \in {"relock", "rlock", "initlock"},
               Go(p, from, to), OpenLog(p), to = "initlock" => from = "initopen"
        PROVE  LogInv'
    BY <2>1, OpenStep DEF Go
  <2>2. ASSUME NEW from \in {"open", "ropen", "initopen"},
               NEW to \in {"relock", "write", "unlock", "initlock"},
               Go(p, from, to), OpenError(p), to = "initlock" => from = "initopen"
        PROVE  LogInv'
    BY <2>2, OpenErrorStep DEF Go
  <2>3. CASE Reopen(p)
    BY <2>1, <2>2, <2>3 DEF Reopen
  <2>4. CASE InitLog(p)
    BY <2>1, <2>2, <2>4 DEF InitLog
  <2>5. CASE RotateOpen(p)
    <3>1. AfterRotate(p) \in {"write", "unlock"}
      BY DEF AfterRotate
    <3> QED
      BY <2>1, <2>2, <2>5, <3>1 DEF RotateOpen
  <2> QED
    BY <1>5, <2>3, <2>4, <2>5
<1>6. CASE Size(p)
  <2> DEFINE to == IF TooLarge(p) THEN "rename" ELSE "write"
  <2>1. pc[p] = "size" /\ pc' = [pc EXCEPT ![p] = to] /\ pc'[p] = to /\ size' \in Nat
        /\ UNCHANGED <<path, made, inode, locked, log, log_ino, unmade, shared, quiet, refused>>
    BY <1>0, <1>6, <1>w DEF Size, Go, files, TypeOK, WriteLine
  <2>2. to \in {"rename", "write"}
    OBVIOUS
  <2> HIDE DEF to
  <2>3. UndisturbedAt(p)'
    BY <1>0, <2>1, <2>2 DEF UndisturbedAt
  <2> QED
    BY <1>0, <2>1, <2>2, <2>3, PlainStep DEF TypeOK
<1>7. CASE Write(p) \/ RenameFails(p) \/ MarkNew(p)
  <2>1. PICK to \in {"unlock", "write"} :
             /\ pc[p] \in {"write", "rename", "new"} /\ pc' = [pc EXCEPT ![p] = to]
             /\ pc[p] = "write" => to = "unlock"
    BY <1>7 DEF Write, RenameFails, MarkNew, Go, AfterRotate
  <2>2. pc'[p] = to /\ size' \in Nat /\ refused' \in Nat
        /\ UNCHANGED <<path, made, inode, locked, log, log_ino, unmade, shared, quiet>>
    BY <1>0, <1>7, <1>w, <2>1 DEF Write, RenameFails, MarkNew, WriteLine, TypeOK
  <2>3. UndisturbedAt(p)'
    BY <1>0, <2>1, <2>2 DEF UndisturbedAt
  <2> QED
    BY <1>0, <2>1, <2>2, <2>3, PlainStep DEF TypeOK
<1>8. CASE Unlock(p)
  BY <1>8, UnlockStep
<1>9. CASE Rename(p)
  BY <1>9, RenameStep
<1>10. CASE EndRotate(p)
  <2>1. quiet' = [quiet EXCEPT ![p] = FALSE]
    BY <1>10 DEF EndRotate, End
  <2> QED
    BY <1>0, <1>10, <2>1, DropStep DEF EndRotate, End, TypeOK
<1> QED
  BY <1>1, <1>2, <1>3, <1>4, <1>5, <1>6, <1>7, <1>8, <1>9, <1>10 DEF Step, Waits

LEMMA NextKeepsLogInv == LogInv /\ [Next]_vars => LogInv'
<1> SUFFICES ASSUME LogInv, [Next]_vars
             PROVE  LogInv'
  OBVIOUS
<1>1. CASE UNCHANGED vars
  BY <1>1 DEF vars, LogInv, TypeOK, ClosedThere, InoRight, SharedKnown, Undisturbed,
    UndisturbedAt, NameComesBack, LockHasWorker, Works
<1>2. CASE \E p \in Process : Step(p) \/ Waits(p) \/ BeginLog(p)
  BY <1>2, StepKeepsLogInv
<1>3. ASSUME NEW s \in Session, Fork(s)
      PROVE  LogInv'
  BY <1>3, ForkStep
<1>4. ASSUME NEW s \in Session, Exit(s)
      PROVE  LogInv'
  <2>1. s \in Process /\ TypeOK
    BY DEF Process, LogInv
  <2>2. pc[s] \notin {"absent"} \cup InitPC
    BY <1>4 DEF Exit, InitPC, LogPC, RotatePC, InGap
  <2>3. quiet' = [quiet EXCEPT ![s] = FALSE]
    BY <1>4 DEF Exit, End
  <2> QED
    <3>1. /\ pc' = [pc EXCEPT ![s] = "absent"] /\ Drop(s) /\ log' = [log EXCEPT ![s] = Closed]
          /\ log_ino' = [log_ino EXCEPT ![s] = 0] /\ UNCHANGED <<path, made, size, refused>>
          /\ unmade' = (unmade \/ (path = 0 /\ pc[s] \in InGap))
      BY <1>4 DEF Exit, End
    <3>2. quiet' \in [Process -> BOOLEAN] /\ ~quiet'[s] /\ unmade' \in BOOLEAN
          /\ \A q \in Process : quiet'[q] => quiet[q]
      BY <2>1, <2>3, <3>1 DEF TypeOK
    <3>3. "absent" \in NoLogPC
      BY DEF NoLogPC
    <3> QED
      BY <2>1, <2>2, <3>1, <3>2, <3>3, DropStep
<1>5. ASSUME NEW r \in Rotator, BeginRotate(r)
      PROVE  LogInv'
  <2>1. r \in Process /\ TypeOK /\ UndisturbedAt(r)
    BY DEF Process, LogInv, Undisturbed
  <2>2. pc[r] = "absent" /\ pc' = [pc EXCEPT ![r] = "initopen"] /\ pc'[r] = "initopen"
        /\ UNCHANGED <<path, made, size, inode, locked, log, log_ino, unmade, shared, quiet, refused>>
    BY <1>5, <2>1 DEF BeginRotate, Go, files, TypeOK
  <2>3. UndisturbedAt(r)'
    BY <2>1, <2>2 DEF UndisturbedAt
  <2> QED
    BY <2>1, <2>2, <2>3, PlainStep
    DEF TypeOK, Everywhere, InitPC, NoLogPC, InGap, Resting
<1> QED
  BY <1>1, <1>2, <1>3, <1>4, <1>5 DEF Next

LEMMA LogInvHolds == Spec => []LogInv
<1> QED
  BY LogInit, NextKeepsLogInv, PTL DEF Spec

-----------------------------------------------------------------------------
\* Every variable keeps its type, and an open file description is in use exactly
\* when a process has it (OpenLogAppend, fork and exit).
THEOREM LogTypeCorrect == Spec => []TypeOK
<1>1. LogInv => TypeOK
  BY DEF LogInv
<1> QED
  BY <1>1, LogInvHolds, PTL

\* Whoever renames the log makes it anew, unless that failed (Rotate).
THEOREM LogNameComesBack == Spec => []NameComesBack
<1>1. LogInv => NameComesBack
  BY DEF LogInv
<1> QED
  BY <1>1, LogInvHolds, PTL

\* No lock of the log is left behind by rotations, failures and early exits,
\* except on an open file description that was inherited (LogLock, LogUnlock).
THEOREM LogLockHasWorker == Spec => []LockHasWorker
<1>1. LogInv => LockHasWorker
  BY DEF LogInv
<1> QED
  BY <1>1, LogInvHolds, PTL

\* A message goes to the file that is the log now, if nobody else renamed it
\* while the message was being logged (LogMessage, WasLogRotated).
THEOREM LogMessageInCurrentLog == Spec => MessageInCurrentLog
<1>1. ASSUME LogInv, [Next]_vars,
             NEW p \in Process, pc[p] = "write", pc'[p] = "unlock",
             quiet[p], log[p] # Stderr
      PROVE  inode[log[p]] = path
  <2>1. log[p] \in Ofd
    BY <1>1 DEF LogInv, ClosedThere, NoLogPC, TypeOK
  <2> QED
    BY <1>1, <2>1 DEF LogInv, Undisturbed, UndisturbedAt, CheckedPC
<1>2. LogInv /\ [Next]_vars =>
        [\A p \in Process :
           pc[p] = "write" /\ pc'[p] = "unlock" /\ quiet[p] /\ log[p] # Stderr =>
             inode[log[p]] = path]_vars
  BY <1>1
<1> QED
  BY <1>2, LogInvHolds, PTL DEF Spec, MessageInCurrentLog

-----------------------------------------------------------------------------
(* The size of the log.                                                    *)

\* Who rotates owes two lines, the one about the new log and its message; who
\* is about to write owes the message.  What goes to stderr is nobody's debt.
RotatingPC == {"rclose", "ropen", "rlock", "new"}
Rotating == {p \in Process : pc[p] \in RotatingPC}
Owing == {p \in Process : pc[p] \in RotatingPC \/ (pc[p] = "write" /\ log_ino[p] # 0)}

\* A log that is not there is empty; the lines in it and the lines still owed
\* stay below the bound: a check finds the log small or has it renamed.
SizeInv ==
  /\ path = 0 => size = 0
  /\ MaxLogSize > 0 =>
       size + Cardinality(Owing) + Cardinality(Rotating)
         <= MaxLogSize + 2 * Cardinality(Process) + 2 * refused

LEMMA DebtsFinite ==
  /\ IsFiniteSet(Owing) /\ IsFiniteSet(Rotating)
  /\ Cardinality(Process) \in Nat
  /\ Cardinality(Owing) \in 0 .. Cardinality(Process)
  /\ Cardinality(Rotating) \in 0 .. Cardinality(Process)
<1>1. Owing \subseteq Process /\ Rotating \subseteq Process
  BY DEF Owing, Rotating
<1>2. Cardinality(Process) \in Nat
  BY ProcessFinite, FS_CardinalityType
<1>3. /\ IsFiniteSet(Owing) /\ Cardinality(Owing) <= Cardinality(Process)
      /\ IsFiniteSet(Rotating) /\ Cardinality(Rotating) <= Cardinality(Process)
  BY <1>1, ProcessFinite, FS_Subset
<1>4. Cardinality(Owing) \in Nat /\ Cardinality(Rotating) \in Nat
  BY <1>3, FS_CardinalityType
<1> QED
  BY <1>2, <1>3, <1>4

LEMMA DebtsFiniteNext ==
  /\ IsFiniteSet(Owing') /\ IsFiniteSet(Rotating')
  /\ Cardinality(Owing') \in 0 .. Cardinality(Process)
  /\ Cardinality(Rotating') \in 0 .. Cardinality(Process)
<1>1. Owing' \subseteq Process /\ Rotating' \subseteq Process
  BY DEF Owing, Rotating
<1>2. /\ IsFiniteSet(Owing') /\ Cardinality(Owing') <= Cardinality(Process)
      /\ IsFiniteSet(Rotating') /\ Cardinality(Rotating') <= Cardinality(Process)
  BY <1>1, ProcessFinite, FS_Subset
<1>3. /\ Cardinality(Process) \in Nat
      /\ Cardinality(Owing') \in Nat /\ Cardinality(Rotating') \in Nat
  BY <1>2, ProcessFinite, FS_CardinalityType
<1> QED
  BY <1>2, <1>3

\* A step that adds no line and no debt.
LEMMA SizeSame ==
  ASSUME SizeInv, size \in Nat, size' \in Nat, size' <= size, path' = 0 => size' = 0,
         refused \in Nat, refused' = refused,
         Owing' \subseteq Owing, Rotating' \subseteq Rotating
  PROVE  SizeInv'
<1>1. Cardinality(Owing') <= Cardinality(Owing) /\ Cardinality(Rotating') <= Cardinality(Rotating)
  BY DebtsFinite, FS_Subset
<1> QED
  BY <1>1, DebtsFinite, DebtsFiniteNext, MaxLogSizeAssumption DEF SizeInv

\* A step after which the log is small: whatever is owed fits.
LEMMA SizeSmall ==
  ASSUME size' \in Nat, MaxLogSize > 0 => size' <= MaxLogSize, path' = 0 => size' = 0,
         refused' \in Nat
  PROVE  SizeInv'
BY DebtsFinite, DebtsFiniteNext, MaxLogSizeAssumption DEF SizeInv

\* A line is written by one who owed it.
LEMMA SizePaid ==
  ASSUME SizeInv, size \in Nat, size' \in Nat, size' <= size + 1, path' = 0 => size' = 0,
         refused \in Nat, refused' = refused,
         NEW p \in Process, Owing' \subseteq Owing, Rotating' \subseteq Rotating,
         \/ p \in Owing /\ p \notin Owing'
         \/ p \in Rotating /\ p \notin Rotating'
  PROVE  SizeInv'
<1>1. Cardinality(Owing') <= Cardinality(Owing) /\ Cardinality(Rotating') <= Cardinality(Rotating)
  BY DebtsFinite, FS_Subset
<1>2. ASSUME p \in Owing, p \notin Owing' PROVE Cardinality(Owing') < Cardinality(Owing)
  <2>1. Owing' # Owing
    BY <1>2
  <2> QED
    BY <2>1, DebtsFinite, DebtsFiniteNext, <1>1, FS_Subset
<1>3. ASSUME p \in Rotating, p \notin Rotating' PROVE Cardinality(Rotating') < Cardinality(Rotating)
  <2>1. Rotating' # Rotating
    BY <1>3
  <2> QED
    BY <2>1, DebtsFinite, DebtsFiniteNext, <1>1, FS_Subset
<1> QED
  BY <1>1, <1>2, <1>3, DebtsFinite, DebtsFiniteNext, MaxLogSizeAssumption DEF SizeInv

\* The line about a rename that failed, by one who will write its message too.
LEMMA SizeRefused ==
  ASSUME SizeInv, size \in Nat, size' \in Nat, size' <= size + 1, path' # 0,
         refused \in Nat, refused' = refused + 1,
         NEW p \in Process, Owing' \subseteq Owing \cup {p}, Rotating' \subseteq Rotating
  PROVE  SizeInv'
<1>1. Cardinality(Rotating') <= Cardinality(Rotating)
  BY DebtsFinite, FS_Subset
<1>2. IsFiniteSet(Owing \cup {p}) /\ Cardinality(Owing \cup {p}) <= Cardinality(Owing) + 1
  <2>1. IsFiniteSet(Owing) /\ Cardinality(Owing) \in Nat
    BY DebtsFinite, FS_CardinalityType
  <2>2. CASE p \in Owing
    <3>1. Owing \cup {p} = Owing
      BY <2>2
    <3>2. IsFiniteSet(Owing \cup {p}) /\ Cardinality(Owing \cup {p}) = Cardinality(Owing)
      BY <2>1, <3>1, Zenon
    <3> QED
      BY <2>1, <3>2
  <2>3. CASE p \notin Owing
    <3>1. IsFiniteSet(Owing \cup {p}) /\ Cardinality(Owing \cup {p}) = Cardinality(Owing) + 1
      BY <2>1, <2>3, FS_AddElement
    <3> QED
      BY <2>1, <3>1
  <2> QED
    BY <2>2, <2>3
<1>3. Cardinality(Owing') <= Cardinality(Owing) + 1
  <2>1. Cardinality(Owing') <= Cardinality(Owing \cup {p})
    BY <1>2, FS_Subset
  <2>2. Cardinality(Owing \cup {p}) \in Nat
    BY <1>2, FS_CardinalityType
  <2> QED
    BY <1>2, <2>1, <2>2, DebtsFinite, DebtsFiniteNext
<1> QED
  BY <1>1, <1>3, DebtsFinite, DebtsFiniteNext, MaxLogSizeAssumption DEF SizeInv

\* A process that goes to a place where it owes nothing new takes no debt on.
LEMMA NoNewDebt ==
  ASSUME TypeOK, NEW p \in Process, NEW to, pc' = [pc EXCEPT ![p] = to],
         \A q \in Process \ {p} : log_ino'[q] = log_ino[q],
         to \in RotatingPC => pc[p] \in RotatingPC,
         to = "write" => pc[p] \in RotatingPC \/ log_ino'[p] = 0
  PROVE  Owing' \subseteq Owing /\ Rotating' \subseteq Rotating
<1>1. \A q \in Process \ {p} : pc'[q] = pc[q]
  BY DEF TypeOK
<1>2. pc'[p] = to
  BY DEF TypeOK
<1> QED
  BY <1>1, <1>2 DEF Owing, Rotating

\* A process at work has the log open that log_ino tells, or none.
LEMMA WriteLineSize ==
  ASSUME LogInv, NEW p \in Process, WriteLine(p)
  PROVE  /\ size' \in Nat /\ size' <= size + 1 /\ path' = path
         /\ UNCHANGED <<log, log_ino>>
         /\ path = 0 \/ log_ino[p] = 0 => size' = size
<1>1. path \in Nat /\ size \in Nat
  BY DEF LogInv, TypeOK
<1>2. log[p] \in Ofd => inode[log[p]] # 0 /\ inode[log[p]] = log_ino[p]
  BY DEF LogInv, TypeOK, InoRight
<1> QED
  BY <1>1, <1>2 DEF WriteLine

LEMMA StepKeepsSize ==
  ASSUME LogInv, SizeInv, NEW p \in Process, Step(p) \/ Waits(p) \/ BeginLog(p)
  PROVE  SizeInv'
<1> USE DEF LogInv
<1>0. TypeOK /\ size \in Nat /\ path \in Nat /\ made \in Nat /\ refused \in Nat
      /\ (path = 0 => size = 0)
  BY DEF TypeOK, SizeInv
<1>free. \A to \in {"rename", "write", "unlock", "absent"} : to \notin RotatingPC
  BY DEF RotatingPC
\* The steps between which the log does not grow and nothing is promised.
<1>1. ASSUME NEW to, pc' = [pc EXCEPT ![p] = to], size' \in Nat, size' <= size,
             path' = 0 => size' = 0, refused' = refused,
             \A q \in Process \ {p} : log_ino'[q] = log_ino[q],
             to \in RotatingPC => pc[p] \in RotatingPC,
             to = "write" => pc[p] \in RotatingPC \/ log_ino'[p] = 0
      PROVE  SizeInv'
  BY <1>0, <1>1, NoNewDebt, SizeSame
<1>same. UNCHANGED <<path, size>> => size' \in Nat /\ size' <= size /\ (path' = 0 => size' = 0)
  BY <1>0
<1>2. CASE Waits(p) \/ BeginLog(p) \/ Check(p)
  <2>1. PICK to \in {"check", "size", "new", "rename", "unlock", "lock", "close"} :
             /\ pc' = [pc EXCEPT ![p] = to]
             /\ to = "new" => pc[p] = "rlock"
    BY <1>2 DEF Waits, Lock, Relock, RotateLock, InitLock, BeginLog, Check, Go
  <2>2. UNCHANGED <<path, size, log_ino, refused>>
    BY <1>2 DEF Waits, Lock, Relock, RotateLock, InitLock, BeginLog, Check, LogLock, files
  <2>3. /\ to \in RotatingPC => pc[p] \in RotatingPC
        /\ to # "write"
    BY <2>1 DEF RotatingPC
  <2> QED
    BY <1>1, <1>same, <2>1, <2>2, <2>3
<1>3. CASE Close(p, "close", "open") \/ RotateClose(p)
  <2>1. PICK to \in {"open", "ropen"} :
             pc' = [pc EXCEPT ![p] = to] /\ (to = "ropen" => pc[p] = "rclose")
    BY <1>3 DEF Close, RotateClose, Go
  <2>2. UNCHANGED <<path, size, log_ino, refused>>
    BY <1>3 DEF Close, RotateClose
  <2>3. /\ to \in RotatingPC => pc[p] \in RotatingPC
        /\ to # "write"
    BY <2>1 DEF RotatingPC
  <2> QED
    BY <1>1, <1>same, <2>1, <2>2, <2>3
<1>4. CASE Reopen(p) \/ InitLog(p) \/ RotateOpen(p)
  <2>1. PICK to \in {"relock", "initlock", "rlock", "write", "unlock"} :
             /\ pc' = [pc EXCEPT ![p] = to]
             /\ to \in {"rlock", "write", "unlock"} => pc[p] = "ropen"
    BY <1>4 DEF Reopen, InitLog, RotateOpen, Go, AfterRotate
  <2>2. OpenLog(p) \/ OpenError(p)
    BY <1>4 DEF Reopen, InitLog, RotateOpen
  <2>3. /\ size' \in Nat /\ size' <= size /\ (path' = 0 => size' = 0)
        /\ refused' = refused
        /\ \A q \in Process \ {p} : log_ino'[q] = log_ino[q]
    <3>1. CASE OpenLog(p)
      BY <1>0, <3>1 DEF OpenLog, TypeOK
    <3>2. CASE OpenError(p)
      BY <1>0, <3>2 DEF OpenError
    <3> QED
      BY <2>2, <3>1, <3>2
  <2> QED
    BY <1>1, <2>1, <2>3 DEF RotatingPC
\* The check: the log is small, or not there, or goes to be renamed, or the
\* process has none to write to.
<1>5. CASE Size(p)
  <2>r. refused' = refused
    BY <1>5 DEF Size
  <2>1. UNCHANGED <<path, log_ino>> /\ size' \in Nat /\ (path = 0 => size' = 0)
        /\ (path # 0 => size' = size)
    <3>1. CASE MaxLogSize > 0 /\ log_ino[p] # 0 /\ path = 0
      <4>1. WriteLine(p)
        BY <1>5, <3>1 DEF Size
      <4> QED
        BY <1>0, <3>1, <4>1, WriteLineSize
    <3>2. CASE ~(MaxLogSize > 0 /\ log_ino[p] # 0 /\ path = 0)
      <4>1. UNCHANGED <<files, log_ino>>
        BY <1>5, <3>2 DEF Size
      <4> QED
        BY <1>0, <4>1 DEF files
    <3> QED
      BY <3>1, <3>2
  <2>4. size' \in Nat /\ size' <= size /\ (path' = 0 => size' = 0)
    BY <1>0, <2>1
  <2>2. CASE TooLarge(p)
    <3>1. pc' = [pc EXCEPT ![p] = "rename"]
      BY <1>5, <2>2 DEF Size, Go
    <3> QED
      BY <1>1, <1>free, <2>r, <2>1, <2>4, <3>1
  <2>3. CASE ~TooLarge(p)
    <3>1. pc' = [pc EXCEPT ![p] = "write"]
      BY <1>5, <2>3 DEF Size, Go
    <3>2. CASE log_ino[p] = 0
      BY <1>1, <1>free, <2>r, <2>1, <2>4, <3>1, <3>2
    <3>3. CASE log_ino[p] # 0
      <4>1. MaxLogSize > 0 => size' <= MaxLogSize
        BY <1>0, <2>1, <2>3, <3>3, MaxLogSizeAssumption DEF TooLarge
      <4> QED
        BY <1>0, <2>r, <2>1, <4>1, SizeSmall
    <3> QED
      BY <3>2, <3>3
  <2> QED
    BY <2>2, <2>3
<1>6. CASE Write(p)
  <2>1. pc[p] = "write" /\ pc' = [pc EXCEPT ![p] = "unlock"] /\ WriteLine(p)
        /\ refused' = refused
    BY <1>6 DEF Write, Go
  <2>2. CASE log_ino[p] = 0 \/ path = 0
    <3>1. UNCHANGED <<path, size, log_ino>>
      BY <2>1, <2>2, WriteLineSize
    <3> QED
      BY <1>1, <1>free, <1>same, <2>1, <3>1
  <2>3. CASE log_ino[p] # 0 /\ path # 0
    <3>1. Owing' \subseteq Owing /\ Rotating' \subseteq Rotating
      BY <1>0, <2>1, WriteLineSize, NoNewDebt DEF RotatingPC
    <3>2. p \in Owing /\ p \notin Owing'
      BY <1>0, <2>1, <2>3 DEF Owing, RotatingPC, TypeOK
    <3> QED
      BY <1>0, <2>1, <2>3, <3>1, <3>2, WriteLineSize, SizePaid
  <2> QED
    BY <2>2, <2>3
<1>7. CASE MarkNew(p)
  <2>1. PICK to \in {"unlock", "write"} : pc' = [pc EXCEPT ![p] = to]
    BY <1>7 DEF MarkNew, Go, AfterRotate
  <2>2. pc[p] = "new" /\ WriteLine(p) /\ refused' = refused
    BY <1>7 DEF MarkNew, Go
  <2>3. Owing' \subseteq Owing /\ Rotating' \subseteq Rotating
    BY <1>0, <2>1, <2>2, WriteLineSize, NoNewDebt DEF RotatingPC
  <2>4. p \in Rotating /\ p \notin Rotating'
    BY <1>0, <2>1, <2>2 DEF Rotating, RotatingPC, TypeOK
  <2>5. path' = 0 => size' = 0
    BY <1>0, <2>2, WriteLineSize
  <2> QED
    BY <1>0, <2>2, <2>3, <2>4, <2>5, WriteLineSize, SizePaid
<1>8. CASE Rename(p)
  <2>1. size' = 0 /\ refused' = 0
    BY <1>8 DEF Rename
  <2> QED
    BY <2>1, MaxLogSizeAssumption, SizeSmall
<1>11. CASE RenameFails(p)
  <2>1. PICK to \in {"write", "unlock"} : pc' = [pc EXCEPT ![p] = to]
    BY <1>11 DEF RenameFails, Go, AfterRotate
  <2>2. WriteLine(p) /\ refused' = IF path = 0 THEN refused ELSE refused + 1
    BY <1>11 DEF RenameFails
  <2>3. CASE path = 0
    <3>1. size' = 0 /\ refused' \in Nat
      BY <1>0, <2>2, <2>3, WriteLineSize
    <3> QED
      BY <3>1, MaxLogSizeAssumption, SizeSmall
  <2>4. CASE path # 0
    <3>1. /\ \A q \in Process \ {p} : pc'[q] = pc[q]
          /\ pc'[p] = to /\ to \notin RotatingPC /\ log_ino' = log_ino
      BY <1>0, <2>1, <2>2, WriteLineSize DEF RotatingPC, TypeOK
    <3>2. Owing' \subseteq Owing \cup {p} /\ Rotating' \subseteq Rotating
      BY <3>1 DEF Owing, Rotating
    <3>3. size' \in Nat /\ size' <= size + 1 /\ path' # 0 /\ refused' = refused + 1
      BY <2>2, <2>4, WriteLineSize
    <3> QED
      BY <1>0, <3>2, <3>3, SizeRefused
  <2> QED
    BY <2>3, <2>4
<1>9. CASE Unlock(p)
  <2>1. pc' = [pc EXCEPT ![p] = "idle"] /\ UNCHANGED <<path, size, log_ino, refused>>
    BY <1>9 DEF Unlock, Go, LogUnlock
  <2> QED
    <3>1. size' \in Nat /\ size' <= size /\ (path' = 0 => size' = 0)
      BY <1>same, <2>1
    <3>2. "idle" \notin RotatingPC
      BY DEF RotatingPC
    <3> QED
      BY <1>1, <2>1, <3>1, <3>2
<1>10. CASE EndRotate(p)
  <2>1. pc' = [pc EXCEPT ![p] = "absent"] /\ UNCHANGED <<path, size, refused>>
        /\ log_ino' = [log_ino EXCEPT ![p] = 0]
    BY <1>10 DEF EndRotate, End
  <2>2. \A q \in Process \ {p} : log_ino'[q] = log_ino[q]
    BY <1>0, <2>1 DEF TypeOK
  <2> QED
    BY <1>1, <1>free, <1>same, <2>1, <2>2
<1> QED
  BY <1>2, <1>3, <1>4, <1>5, <1>6, <1>7, <1>8, <1>9, <1>10, <1>11 DEF Step

LEMMA SizeInit == Init => SizeInv
<1> SUFFICES ASSUME Init PROVE SizeInv
  OBVIOUS
<1>1. size = 0 /\ refused = 0 /\ Rotating = {} /\ Owing = {}
  BY DEF Init, Rotating, Owing, RotatingPC
<1> QED
  BY <1>1, DebtsFinite, MaxLogSizeAssumption, FS_EmptySet DEF SizeInv

LEMMA NextKeepsSize == LogInv /\ SizeInv /\ [Next]_vars => SizeInv'
<1> SUFFICES ASSUME LogInv, SizeInv, [Next]_vars PROVE SizeInv'
  OBVIOUS
<1>0. TypeOK /\ size \in Nat /\ path \in Nat /\ refused \in Nat /\ (path = 0 => size = 0)
  BY DEF LogInv, TypeOK, SizeInv
<1>1. CASE UNCHANGED vars
  BY <1>1 DEF vars, SizeInv, Owing, Rotating
<1>2. CASE \E p \in Process : Step(p) \/ Waits(p) \/ BeginLog(p)
  BY <1>2, StepKeepsSize
<1>3. ASSUME NEW p \in Process, NEW to \in {"idle", "absent", "initopen"},
             pc' = [pc EXCEPT ![p] = to], UNCHANGED <<path, size, refused>>,
             \A q \in Process \ {p} : log_ino'[q] = log_ino[q]
      PROVE  SizeInv'
  <2>1. Owing' \subseteq Owing /\ Rotating' \subseteq Rotating
    BY <1>0, <1>3, NoNewDebt DEF RotatingPC
  <2> QED
    BY <1>0, <1>3, <2>1, SizeSame
<1>4. ASSUME NEW s \in Session, Fork(s) \/ Exit(s)
      PROVE  SizeInv'
  <2>1. s \in Process
    BY DEF Process
  <2>2. PICK to \in {"idle", "absent"} : pc' = [pc EXCEPT ![s] = to]
    BY <1>4 DEF Fork, Go, Exit, End
  <2>3. UNCHANGED <<path, size, refused>> /\ \A q \in Process \ {s} : log_ino'[q] = log_ino[q]
    BY <1>0, <1>4 DEF Fork, Exit, End, TypeOK
  <2> QED
    BY <1>3, <2>1, <2>2, <2>3
<1>5. ASSUME NEW r \in Rotator, BeginRotate(r)
      PROVE  SizeInv'
  <2>1. r \in Process
    BY DEF Process
  <2>2. pc' = [pc EXCEPT ![r] = "initopen"] /\ UNCHANGED <<path, size, log_ino, refused>>
    BY <1>5 DEF BeginRotate, Go, files
  <2> QED
    BY <1>3, <2>1, <2>2
<1> QED
  BY <1>1, <1>2, <1>4, <1>5 DEF Next

\* The log outgrows maxlogsize by what was owed when it was checked last, two
\* lines for each process, and by two for each rename of it that failed
\* (LogMessage, Rotate).
THEOREM LogStaysBounded == Spec => []LogBounded
<1>1. LogInv /\ SizeInv => LogBounded
  <2> SUFFICES ASSUME LogInv, SizeInv PROVE LogBounded
    OBVIOUS
  <2>1. size \in Nat /\ refused \in Nat
    BY DEF LogInv, TypeOK
  <2> QED
    BY <2>1, DebtsFinite, MaxLogSizeAssumption DEF SizeInv, LogBounded
<1> QED
  BY <1>1, LogInvHolds, SizeInit, NextKeepsSize, PTL DEF Spec
=============================================================================
