-------------------------------- MODULE Catalog --------------------------------
(***************************************************************************)
(* The list of groups.  LIST walks the spool directory (AllGroups) for     *)
(* directories with a .config file and then loads each group it found,     *)
(* while the administrator makes groups ("newsd -newgroup", or by hand as  *)
(* README.md says) and removes them with rm -rf.                           *)
(*                                                                         *)
(* A directory that is removed and made again is another one: gen counts   *)
(* them, and files and locks are told apart by it, as the inodes are.      *)
(* What .info holds, and the readers and writers of it, are the matter of  *)
(* module GroupSpool: here it is there or not, and read in one step.       *)
(* rm -rf and a group made by hand take one step each.                     *)
(***************************************************************************)
EXTENDS Integers, Sequences, FiniteSets, SequencesExt

CONSTANTS
  Dir,              \* the directories below the spool directory
  Within,           \* Within[d]: the directories d is in, the spool directory excepted
  Lister,           \* the sessions that list
  NoRecurse,        \* what NoRecurseMsgDir of newsd.conf may be
  MaxChanges        \* bound: how often the administrator changes something

ASSUME WithinAssumption ==
  /\ Within \in [Dir -> SUBSET Dir]
  /\ \A d \in Dir : d \notin Within[d] /\ \A e \in Within[d] : Within[e] \subseteq Within[d]
\* Of any directories that one is in, one is the outermost.
ASSUME TreeAssumption ==
  \A d \in Dir : \A S \in SUBSET Within[d] :
    S # {} => \E e \in S : \A f \in S \ {e} : e \in Within[f]
\* The spool directory is "/", and the administrator lists nothing.
ASSUME NamesAssumption == "/" \notin Dir /\ "admin" \notin Lister
ASSUME NoRecurseAssumption == NoRecurse \subseteq BOOLEAN
ASSUME MaxChangesAssumption == MaxChanges \in Nat

\* What a .config says: posting is allowed; nothing on it, and then it is not;
\* it is still empty, as SaveConfig truncates it before it writes; or there is
\* no such file.
Content == {"y", "-"}
Files == Content \cup {"empty", "none"}

VARIABLES
  NoRecurseMsgDir,
  dirs,     \* the directories that exist
  gen,      \* gen[d]: how often d was removed
  config,   \* config[d][g]: the .config of the g-th d
  info,     \* the directories with an .info
  locks,    \* who holds a lock: [by, dir, gen, kind]
  admin,    \* the administrator: pc, the group's directory, the new content
  changes,  \* bound: what the administrator did
  pc,       \* pc[l]: where the session is
  walk,     \* walk[l]: the directories that are open, the innermost last
  names,    \* names[l]: groupnames
  tgroup,   \* tgroup[l]: the group that is loaded: its .config and its PostOK()
  reply,    \* reply[l]: the lines sent
  stable,   \* stable[l], history: groups to be found all the time since LIST began
  had       \* had[l][d], history: what .config of d said since then

disk == <<dirs, gen, config, info>>
administration == <<admin, changes>>
session == <<NoRecurseMsgDir, pc, walk, names, tgroup, reply>>
history == <<stable, had>>
vars == <<disk, locks, administration, session, history>>

Administrator == "admin"

Config(d) == config[d][gen[d]]
IsValidGroup(d) == d \in dirs /\ Config(d) # "none"

\* Some groups are there from the start, made by newsd -newgroup.
Init ==
  /\ NoRecurseMsgDir \in NoRecurse
  /\ \E groups \in SUBSET Dir :
       /\ dirs = groups \cup UNION {Within[d] : d \in groups}
       /\ info = groups
       /\ config = [d \in Dir |-> [g \in 0 .. MaxChanges |->
                      IF d \in groups /\ g = 0 THEN "y" ELSE "none"]]
  /\ gen = [d \in Dir |-> 0]
  /\ locks = {}
  /\ admin = [pc |-> "idle"] /\ changes = 0
  /\ pc = [l \in Lister |-> "idle"]
  /\ walk = [l \in Lister |-> << >>] /\ names = [l \in Lister |-> << >>]
  /\ tgroup = [l \in Lister |-> << >>] /\ reply = [l \in Lister |-> << >>]
  /\ stable = [l \in Lister |-> {}] /\ had = [l \in Lister |-> [d \in Dir |-> {}]]

-----------------------------------------------------------------------------
\* Locks: one file .lock in each directory.

Free(d, kind) ==
  \A k \in locks : k.dir = d /\ k.gen = gen[d] => kind = "SH" /\ k.kind = "SH"
Held(by) == {k \in locks : k.by = by}
Take(by, d, kind) ==
  /\ Free(d, kind)
  /\ locks' = locks \cup {[by |-> by, dir |-> d, gen |-> gen[d], kind |-> kind]}
Release(by) == locks' = locks \ Held(by)

-----------------------------------------------------------------------------
\* The administrator.

\* A group that AllGroups finds: one within another group's directory it does
\* not, as NoRecurseMsgDir has it.
Listable(d) ==
  IsValidGroup(d) /\ (NoRecurseMsgDir => \A e \in Within[d] : ~IsValidGroup(e))

Below(d) == {e \in Dir : e = d \/ d \in Within[e]}

\* mkdir -p.
NewGroup(d, content) ==
  /\ admin.pc = "idle" /\ changes < MaxChanges
  /\ changes' = changes + 1
  /\ dirs' = dirs \cup {d} \cup Within[d]
  /\ admin' = [pc |-> "lock", dir |-> d, content |-> content]
  /\ UNCHANGED <<gen, config, info, locks, session, history>>

\* SaveConfig's WriteLock.  That it goes on, and writes without the lock, when
\* .lock cannot be opened or locked is left out.
SaveLock ==
  /\ admin.pc = "lock"
  /\ Take(Administrator, admin.dir, "EX")
  /\ admin' = [admin EXCEPT !.pc = "open"]
  /\ UNCHANGED <<disk, changes, session, history>>

\* fopen(path, "w"): a new group shows from now on, and hides those within.
SaveOpen ==
  LET d == admin.dir IN
  /\ admin.pc = "open"
  /\ config' = [config EXCEPT ![d][gen[d]] = "empty"]
  /\ stable' = [l \in Lister |-> IF NoRecurseMsgDir THEN stable[l] \ (Below(d) \ {d}) ELSE stable[l]]
  /\ admin' = [admin EXCEPT !.pc = "write"]
  /\ UNCHANGED <<dirs, gen, info, locks, changes, session, had>>

\* What a session may see while it lists.
Said(d, content) ==
  [l \in Lister |-> IF pc[l] = "idle" THEN had[l] ELSE [had[l] EXCEPT ![d] = @ \cup {content}]]

SaveWrite ==
  LET d == admin.dir IN
  /\ admin.pc = "write"
  /\ config' = [config EXCEPT ![d][gen[d]] = admin.content]
  /\ had' = Said(d, admin.content)
  /\ Release(Administrator)
  /\ admin' = [admin EXCEPT !.pc = "build"]
  /\ UNCHANGED <<dirs, gen, info, changes, session, stable>>

\* BuildInfo(1).
NewInfo ==
  /\ admin.pc = "build"
  /\ Free(admin.dir, "EX")
  /\ info' = info \cup {admin.dir}
  /\ admin' = [pc |-> "idle"]
  /\ UNCHANGED <<dirs, gen, config, locks, changes, session, history>>

\* mkdir and echo, without an .info.
MakeByHand(d, content) ==
  /\ admin.pc = "idle" /\ changes < MaxChanges /\ ~IsValidGroup(d)
  /\ changes' = changes + 1
  /\ dirs' = dirs \cup {d} \cup Within[d]
  /\ config' = [config EXCEPT ![d][gen[d]] = content]
  /\ had' = Said(d, content)
  /\ stable' = [l \in Lister |-> IF NoRecurseMsgDir THEN stable[l] \ Below(d) ELSE stable[l]]
  /\ UNCHANGED <<gen, info, locks, admin, session>>

\* rm -rf.
RemoveGroup(d) ==
  /\ admin.pc = "idle" /\ changes < MaxChanges /\ d \in dirs
  /\ changes' = changes + 1
  /\ dirs' = dirs \ Below(d)
  /\ gen' = [e \in Dir |-> IF e \in Below(d) /\ e \in dirs THEN gen[e] + 1 ELSE gen[e]]
  /\ info' = info \ Below(d)
  /\ stable' = [l \in Lister |-> stable[l] \ Below(d)]
  /\ UNCHANGED <<config, locks, admin, session, had>>

-----------------------------------------------------------------------------
\* AllGroups: readdir returns what was in the directory all the time once, and
\* what was made or removed meanwhile once or not at all.

\* The entries of a directory; the spool directory is "/".
Entries(d) ==
  {e \in dirs : IF d = "/" THEN Within[e] = {} ELSE d \in Within[e] /\ Within[e] \subseteq Within[d] \cup {d}}
Inode(d) == <<d, IF d = "/" THEN 0 ELSE gen[d]>>
Open(d) == [of |-> Inode(d), left |-> {Inode(e) : e \in Entries(d)}, seen |-> {}]

BeginList(l) ==
  /\ pc[l] = "idle"
  /\ pc' = [pc EXCEPT ![l] = "walk"]
  /\ walk' = [walk EXCEPT ![l] = <<Open("/")>>]
  /\ stable' = [stable EXCEPT ![l] = {d \in Dir : Listable(d)}]
  /\ had' = [had EXCEPT ![l] = [d \in Dir |-> IF d \in dirs THEN {Config(d)} \cap Content ELSE {}]]
  /\ UNCHANGED <<NoRecurseMsgDir, disk, locks, administration, names, tgroup, reply>>

\* The next entry: e as it was when the directory was opened, or made since.
Innermost(l) == Last(walk[l])
Unread(l) ==
  Innermost(l).left \cup
  ({Inode(e) : e \in IF Inode(Innermost(l).of[1]) = Innermost(l).of THEN Entries(Innermost(l).of[1]) ELSE {}}
   \ Innermost(l).seen)

\* Faulty: the search goes into groups and no other directory.
DeeperGroups(d) == IsValidGroup(d)

\* The search goes into directories, and into groups unless NoRecurseMsgDir.
Deeper(d) == ~IsValidGroup(d) \/ ~NoRecurseMsgDir

ReadEntry(l, e) ==
  LET d == e[1]
      here == [Innermost(l) EXCEPT !.left = @ \ {e}, !.seen = @ \cup {e}]
  IN
  /\ pc[l] = "walk" /\ walk[l] # << >>
  /\ e \in Unread(l)
  /\ names' = [names EXCEPT ![l] = IF IsValidGroup(d) THEN Append(@, d) ELSE @]
  /\ walk' = [walk EXCEPT ![l] = Append(Front(@), here) \o
                                  (IF d \in dirs /\ Deeper(d) THEN <<Open(d)>> ELSE << >>)]
  /\ UNCHANGED <<NoRecurseMsgDir, disk, locks, administration, pc, tgroup, reply, history>>

EndDir(l) ==
  /\ pc[l] = "walk" /\ walk[l] # << >>
  /\ ~\E e \in Innermost(l).left : e[1] \in dirs /\ Inode(e[1]) = e
  /\ walk' = [walk EXCEPT ![l] = Front(@)]
  /\ pc' = [pc EXCEPT ![l] = IF Len(walk[l]) = 1 THEN "load" ELSE @]
  /\ UNCHANGED <<NoRecurseMsgDir, disk, locks, administration, names, tgroup, reply, history>>

-----------------------------------------------------------------------------
\* LoadInfo(name) of the next name, into a Group of its own.

At(l, where) == pc[l] = where
Goto(l, where) == pc' = [pc EXCEPT ![l] = where]
Named(l) == Head(names[l])

\* Errors: the group is left out.
Skip(l) ==
  /\ names' = [names EXCEPT ![l] = Tail(@)]
  /\ Goto(l, "load")

\* Faulty: a group that is gone is tried again.
LoadOpenAgain(l) ==
  /\ At(l, "load") /\ names[l] # << >>
  /\ tgroup' = [tgroup EXCEPT ![l] = [opened |-> << >>, postok |-> "n"]]
  /\ IF Named(l) \in info THEN Goto(l, "info")
     ELSE IF IsValidGroup(Named(l)) THEN Goto(l, "build")
     ELSE Goto(l, "load")
  /\ UNCHANGED <<NoRecurseMsgDir, disk, locks, administration, walk, names, reply, history>>

\* The constructor, and fopen of .info, or IsValidGroup.
LoadOpen(l) ==
  /\ At(l, "load") /\ names[l] # << >>
  /\ tgroup' = [tgroup EXCEPT ![l] = [opened |-> << >>, postok |-> "n"]]
  /\ IF Named(l) \in info THEN Goto(l, "info") /\ UNCHANGED names
     ELSE IF IsValidGroup(Named(l)) THEN Goto(l, "build") /\ UNCHANGED names
     ELSE Skip(l)
  /\ UNCHANGED <<NoRecurseMsgDir, disk, locks, administration, walk, reply, history>>

\* The lock cannot be opened in a directory that was removed.
LockFails(l) ==
  /\ pc[l] \in {"info", "build", "configlock"}
  /\ Named(l) \notin dirs
  /\ Skip(l)
  /\ UNCHANGED <<NoRecurseMsgDir, disk, locks, administration, walk, tgroup, reply, history>>

\* ReadLock, the lines of .info, Unlock.
LoadInfo(l) ==
  /\ At(l, "info") /\ Named(l) \in dirs
  /\ Free(Named(l), "SH")
  /\ Goto(l, "config")
  /\ UNCHANGED <<NoRecurseMsgDir, disk, locks, administration, walk, names, tgroup, reply, history>>

\* WriteLock, BuildInfo, Unlock.
BuildInfo(l) ==
  /\ At(l, "build") /\ Named(l) \in dirs
  /\ Free(Named(l), "EX")
  /\ info' = info \cup {Named(l)}
  /\ Goto(l, "config")
  /\ UNCHANGED <<NoRecurseMsgDir, dirs, gen, config, locks, administration, walk, names, tgroup, reply, history>>

\* LoadConfig opens the file before it takes the lock.
ConfigOpen(l) ==
  /\ At(l, "config")
  /\ IF IsValidGroup(Named(l))
     THEN /\ tgroup' = [tgroup EXCEPT ![l].opened = Inode(Named(l))]
          /\ Goto(l, "configlock") /\ UNCHANGED names
     ELSE Skip(l) /\ UNCHANGED tgroup
  /\ UNCHANGED <<NoRecurseMsgDir, disk, locks, administration, walk, reply, history>>

\* Faulty: no lock.
ConfigUnlocked(l) ==
  /\ At(l, "configlock") /\ Named(l) \in dirs
  /\ Goto(l, "read")
  /\ UNCHANGED <<NoRecurseMsgDir, disk, locks, administration, walk, names, tgroup, reply, history>>

ConfigLock(l) ==
  /\ At(l, "configlock") /\ Named(l) \in dirs
  /\ Take(l, Named(l), "SH")
  /\ Goto(l, "read")
  /\ UNCHANGED <<NoRecurseMsgDir, disk, administration, walk, names, tgroup, reply, history>>

\* Faulty: the lock is not released.
ConfigReadKeeps(l) ==
  LET f == tgroup[l].opened IN
  /\ At(l, "read")
  /\ tgroup' = [tgroup EXCEPT ![l].postok = IF config[f[1]][f[2]] = "y" THEN "y" ELSE @]
  /\ Goto(l, "reply")
  /\ UNCHANGED <<NoRecurseMsgDir, disk, locks, administration, walk, names, reply, history>>

\* A field without a line keeps its value.
ConfigRead(l) ==
  LET f == tgroup[l].opened
      text == config[f[1]][f[2]]
  IN
  /\ At(l, "read")
  /\ tgroup' = [tgroup EXCEPT ![l].postok = IF text = "y" THEN "y" ELSE @]
  /\ Release(l)
  /\ Goto(l, "reply")
  /\ UNCHANGED <<NoRecurseMsgDir, disk, administration, walk, names, reply, history>>

Reply(l) ==
  /\ At(l, "reply")
  /\ reply' = [reply EXCEPT ![l] = Append(@, [name |-> Named(l), postok |-> tgroup[l].postok])]
  /\ Skip(l)
  /\ UNCHANGED <<NoRecurseMsgDir, disk, locks, administration, walk, tgroup, history>>

EndList(l) ==
  /\ At(l, "load") /\ names[l] = << >>
  /\ Goto(l, "done")
  /\ UNCHANGED <<NoRecurseMsgDir, disk, locks, administration, walk, names, tgroup, reply, history>>

Again(l) ==
  /\ At(l, "done")
  /\ Goto(l, "idle")
  /\ tgroup' = [tgroup EXCEPT ![l] = << >>] /\ reply' = [reply EXCEPT ![l] = << >>]
  /\ stable' = [stable EXCEPT ![l] = {}] /\ had' = [had EXCEPT ![l] = [d \in Dir |-> {}]]
  /\ UNCHANGED <<NoRecurseMsgDir, disk, locks, administration, walk, names>>

-----------------------------------------------------------------------------
List(l) ==
  \/ BeginList(l)
  \/ \E e \in Dir \X (0 .. MaxChanges) : ReadEntry(l, e)
  \/ EndDir(l)
  \/ LoadOpen(l) \/ LockFails(l) \/ LoadInfo(l) \/ BuildInfo(l)
  \/ ConfigOpen(l) \/ ConfigLock(l) \/ ConfigRead(l) \/ Reply(l)
  \/ EndList(l) \/ Again(l)

Save == SaveLock \/ SaveOpen \/ SaveWrite \/ NewInfo

Administer ==
  \/ \E d \in Dir, content \in Content : NewGroup(d, content) \/ MakeByHand(d, content)
  \/ \E d \in Dir : RemoveGroup(d)
  \/ Save

Next == Administer \/ \E l \in Lister : List(l)
Spec == Init /\ [][Next]_vars
FairSpec == Spec /\ WF_vars(Save) /\ \A l \in Lister : WF_vars(List(l))

-----------------------------------------------------------------------------
(* Properties.                                                             *)

\* Every variable keeps its type, and only those in LoadConfig and SaveConfig
\* hold a lock.
TypeOK ==
  /\ dirs \subseteq Dir /\ info \subseteq dirs
  /\ gen \in [Dir -> 0 .. MaxChanges]
  /\ config \in [Dir -> [0 .. MaxChanges -> Files]]
  /\ pc \in [Lister -> {"idle", "walk", "load", "info", "build", "config", "configlock", "read", "reply", "done"}]
  /\ \A l \in Lister : names[l] \in Seq(Dir)
  /\ \A k \in locks : IF k.by = Administrator THEN admin.pc \in {"open", "write"} /\ k.kind = "EX"
                                              ELSE pc[k.by] = "read" /\ k.kind = "SH"

Lines(l, d) == {i \in DOMAIN reply[l] : reply[l][i].name = d}

\* LIST names each group once that could be found all the time, whatever groups
\* are made and removed meanwhile.
ListedOnce ==
  \A l \in Lister : pc[l] = "done" => \A d \in stable[l] : Cardinality(Lines(l, d)) = 1

\* A line of the reply says of a group what its own .config said while the list
\* was made, or the default when that said nothing; never half a .config, nor
\* that of the group before.
Says(content) == IF content = "-" THEN "n" ELSE content
LinesTrue ==
  \A l \in Lister : \A i \in DOMAIN reply[l] :
    reply[l][i].postok \in {Says(c) : c \in had[l][reply[l][i].name]}

\* LIST ends, for all that happens meanwhile.
ListEnds == \A l \in Lister : pc[l] = "walk" ~> pc[l] = "done"
=============================================================================
