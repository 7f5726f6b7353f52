----------------------------- MODULE CatalogProofs -----------------------------
(***************************************************************************)
(* Proofs about Catalog, for any directories, however nested, any number   *)
(* of sessions that list and any number of changes.                        *)
(***************************************************************************)
EXTENDS Catalog, FiniteSetTheorems, SequenceTheorems, TLAPS

Places == {"idle", "walk", "load", "info", "build", "config", "configlock", "read", "reply", "done"}
\* Where a session has a name to load, and where its group is as it was made.
Loading == {"info", "build", "config", "configlock", "read", "reply"}
Fresh == {"info", "build", "config", "configlock", "read"}
Line == [name : Dir, postok : {"y", "n"}]
LockOf(by, d, g, kind) == [by |-> by, dir |-> d, gen |-> g, kind |-> kind]

CatalogType ==
  /\ dirs \subseteq Dir /\ info \subseteq dirs
  /\ changes \in 0 .. MaxChanges
  /\ gen \in [Dir -> 0 .. MaxChanges] /\ \A d \in Dir : gen[d] <= changes
  /\ config \in [Dir -> [0 .. MaxChanges -> Files]]
  /\ locks \subseteq [by : Lister \cup {Administrator}, dir : Dir, gen : 0 .. MaxChanges,
                      kind : {"SH", "EX"}]
  /\ pc \in [Lister -> Places]
  /\ names \in [Lister -> Seq(Dir)]
  /\ reply \in [Lister -> Seq(Line)]
  /\ had \in [Lister -> [Dir -> SUBSET Content]]
  /\ tgroup = [l \in Lister |-> tgroup[l]]

\* While the administrator saves a .config, the directory is there.
AdminInv ==
  \/ admin = [pc |-> "idle"]
  \/ /\ admin \in [pc : {"lock", "open", "write", "build"}, dir : Dir, content : Content]
     /\ admin.dir \in dirs

\* A directory that was not made yet has no .config, and one that is empty is
\* being saved.
ConfigInv ==
  \A d \in Dir, g \in 0 .. MaxChanges :
    /\ g > gen[d] \/ (g = gen[d] /\ d \notin dirs) => config[d][g] = "none"
    /\ config[d][g] = "empty" => admin.pc = "write" /\ admin.dir = d /\ g = gen[d]

\* Who has which lock, and that locks exclude each other.
LockInv ==
  /\ \A k \in locks :
       \/ /\ k.by = Administrator /\ admin.pc \in {"open", "write"}
          /\ k = LockOf(Administrator, admin.dir, gen[admin.dir], "EX")
       \/ /\ k.by \in Lister /\ pc[k.by] = "read"
          /\ k.kind = "SH" /\ k.dir = Named(k.by) /\ k.gen <= gen[k.dir]
  /\ admin.pc \in {"open", "write"} =>
       LockOf(Administrator, admin.dir, gen[admin.dir], "EX") \in locks
  /\ \A k1, k2 \in locks :
       k1 # k2 /\ k1.dir = k2.dir /\ k1.gen = k2.gen => k1.kind = "SH" /\ k2.kind = "SH"

\* The .config that l has open is that of the group it loads, of the directory
\* that was there then, and was there since LIST began if it says something.
OpenedAt(l, g) ==
  /\ tgroup[l].opened = <<Named(l), g>>
  /\ config[Named(l)][g] # "none"
  /\ config[Named(l)][g] \in Content => config[Named(l)][g] \in had[l][Named(l)]

ListInv(l) ==
  /\ pc[l] \in Loading =>
       /\ names[l] # << >>
       /\ tgroup[l] = [opened |-> tgroup[l].opened, postok |-> tgroup[l].postok]
  /\ pc[l] \in Fresh => tgroup[l].postok = "n"
  /\ pc[l] = "configlock" => \E g \in 0 .. gen[Named(l)] : OpenedAt(l, g)
  /\ pc[l] = "read" =>
       \E h \in 0 .. gen[Named(l)] :
         LockOf(l, Named(l), h, "SH") \in locks /\ \E g \in 0 .. h : OpenedAt(l, g)
  /\ pc[l] = "reply" => \E t \in had[l][Named(l)] : tgroup[l].postok = Says(t)
  /\ pc[l] = "idle" => reply[l] = << >>
  /\ pc[l] # "idle" => \A d \in dirs : Config(d) \in Content => Config(d) \in had[l][d]
  /\ \A i \in DOMAIN reply[l] : \E t \in had[l][reply[l][i].name] : reply[l][i].postok = Says(t)

CatalogInv ==
  CatalogType /\ AdminInv /\ ConfigInv /\ LockInv /\ \A l \in Lister : ListInv(l)

-----------------------------------------------------------------------------
(* Lemmas about the parts.                                                 *)

\* A session that loads has a name to load.
LEMMA NamedType ==
  ASSUME CatalogType, NEW l \in Lister, names[l] # << >>
  PROVE  Named(l) \in Dir /\ Named(l) # "/" /\ Tail(names[l]) \in Seq(Dir)
<1>1. names[l] \in Seq(Dir)
  BY DEF CatalogType
<1> QED
  BY <1>1, HeadTailProperties, NamesAssumption DEF Named

LEMMA SaysLine ==
  ASSUME NEW content \in Content
  PROVE  Says(content) \in {"y", "n"}
BY DEF Says, Content

\* What a session knows stays true when only others change something.
LEMMA ListSame ==
  ASSUME CatalogInv, NEW l \in Lister,
         pc'[l] = pc[l], names'[l] = names[l], tgroup'[l] = tgroup[l],
         reply'[l] = reply[l], had'[l] = had[l],
         UNCHANGED <<dirs, gen, config>>,
         \A k \in locks : k.by = l => k \in locks'
  PROVE  ListInv(l)'
<1>1. ListInv(l) /\ Named(l)' = Named(l)
  BY DEF CatalogInv, Named
<1>2. \A g : OpenedAt(l, g) => OpenedAt(l, g)'
  BY <1>1 DEF OpenedAt
<1>3. \A h : LockOf(l, Named(l), h, "SH") \in locks => LockOf(l, Named(l), h, "SH") \in locks'
  BY DEF LockOf
<1>4. \A d \in Dir : Config(d)' = Config(d)
  BY DEF Config
<1> QED
  BY <1>1, <1>2, <1>3, <1>4 DEF ListInv, CatalogInv, CatalogType

\* A step of one session that takes no lock and has none.
LEMMA PrivateStep ==
  ASSUME CatalogInv, NEW l \in Lister,
         UNCHANGED <<dirs, gen, config, locks, admin, changes, had>>,
         info' \subseteq dirs,
         pc' \in [Lister -> Places], names' \in [Lister -> Seq(Dir)],
         reply' \in [Lister -> Seq(Line)], tgroup' = [k \in Lister |-> tgroup'[k]],
         \A k \in Lister \ {l} : /\ pc'[k] = pc[k] /\ names'[k] = names[k]
                                 /\ tgroup'[k] = tgroup[k] /\ reply'[k] = reply[k],
         pc[l] # "read", ListInv(l)'
  PROVE  CatalogInv'
<1>1. CatalogType /\ AdminInv /\ ConfigInv /\ LockInv
  BY DEF CatalogInv
<1>2. CatalogType'
  BY <1>1 DEF CatalogType
<1>3. AdminInv'
  BY <1>1 DEF AdminInv
<1>4. ConfigInv'
  BY <1>1 DEF ConfigInv
<1>5. LockInv'
  <2>1. \A k \in locks : k.by \in Lister => k.by # l /\ pc'[k.by] = pc[k.by] /\ Named(k.by)' = Named(k.by)
    BY <1>1, NamesAssumption DEF LockInv, Named, Administrator, LockOf
  <2>2. ASSUME NEW k \in locks
        PROVE  \/ /\ k.by = Administrator /\ admin.pc \in {"open", "write"}
                  /\ k = LockOf(Administrator, admin.dir, gen[admin.dir], "EX")
               \/ /\ k.by \in Lister /\ pc'[k.by] = "read"
                  /\ k.kind = "SH" /\ k.dir = Named(k.by)' /\ k.gen <= gen[k.dir]
    BY <1>1, <2>1 DEF LockInv
  <2> QED
    BY <1>1, <2>2 DEF LockInv
<1>6. ASSUME NEW k \in Lister PROVE ListInv(k)'
  BY ListSame
<1> QED
  BY <1>2, <1>3, <1>4, <1>5, <1>6 DEF CatalogInv

\* Between the groups nothing is loaded.
LEMMA BetweenGroups ==
  ASSUME CatalogInv, NEW l \in Lister, pc[l] # "idle", pc'[l] \in {"walk", "load", "done"},
         reply'[l] = reply[l], had'[l] = had[l], UNCHANGED <<dirs, gen, config>>
  PROVE  ListInv(l)'
<1>1. ListInv(l)
  BY DEF CatalogInv
<1>2. \A d \in Dir : Config(d)' = Config(d)
  BY DEF Config
<1>3. dirs \subseteq Dir
  BY DEF CatalogInv, CatalogType
<1> QED
  BY <1>1, <1>2, <1>3 DEF ListInv, Loading, Fresh

-----------------------------------------------------------------------------
LEMMA CatalogInit == Init => CatalogInv
<1> SUFFICES ASSUME Init PROVE CatalogInv
  OBVIOUS
<1>0. 0 \in 0 .. MaxChanges
  BY MaxChangesAssumption
<1>1. PICK groups \in SUBSET Dir :
         /\ dirs = groups \cup UNION {Within[d] : d \in groups}
         /\ info = groups
         /\ config = [d \in Dir |-> [g \in 0 .. MaxChanges |->
                        IF d \in groups /\ g = 0 THEN "y" ELSE "none"]]
  BY DEF Init
<1>2. CatalogType
  <2>1. dirs \subseteq Dir /\ info \subseteq dirs
    BY <1>1, WithinAssumption
  <2>2. config \in [Dir -> [0 .. MaxChanges -> Files]]
    BY <1>1 DEF Files, Content
  <2>3. << >> \in Seq(Dir) /\ << >> \in Seq(Line)
    BY EmptySeq
  <2>4. /\ names \in [Lister -> Seq(Dir)] /\ reply \in [Lister -> Seq(Line)]
        /\ tgroup = [l \in Lister |-> tgroup[l]]
    BY <2>3 DEF Init
  <2>5. gen = [d \in Dir |-> 0] /\ changes = 0 /\ locks = {}
    BY DEF Init
  <2>6. /\ pc \in [Lister -> Places]
        /\ had \in [Lister -> [Dir -> SUBSET Content]]
    BY DEF Init, Places
  <2> QED
    BY <1>0, <2>1, <2>2, <2>4, <2>5, <2>6 DEF CatalogType
<1>3. AdminInv
  BY DEF Init, AdminInv
<1>4. ConfigInv
  <2>1. \A d \in Dir, g \in 0 .. MaxChanges :
           config[d][g] = (IF d \in groups /\ g = 0 THEN "y" ELSE "none") /\ gen[d] = 0
    BY <1>1 DEF Init
  <2>2. groups \subseteq dirs
    BY <1>1
  <2> QED
    BY <2>1, <2>2 DEF ConfigInv
<1>5. LockInv
  BY DEF Init, LockInv
<1>6. ASSUME NEW l \in Lister PROVE ListInv(l)
  <2>1. pc[l] = "idle" /\ reply[l] = << >>
    BY DEF Init
  <2> QED
    BY <2>1 DEF ListInv, Loading, Fresh
<1> QED
  BY <1>2, <1>3, <1>4, <1>5, <1>6 DEF CatalogInv

-----------------------------------------------------------------------------
(* The steps of a session.                                                 *)

\* Where the pc and the names go.
LEMMA Going ==
  ASSUME CatalogType, NEW l \in Lister, NEW to \in Places, Goto(l, to)
  PROVE  /\ pc' \in [Lister -> Places] /\ pc'[l] = to
         /\ \A k \in Lister \ {l} : pc'[k] = pc[k]
BY DEF Goto, CatalogType

LEMMA Skipping ==
  ASSUME CatalogType, NEW l \in Lister, names[l] # << >>, Skip(l)
  PROVE  /\ pc' \in [Lister -> Places] /\ pc'[l] = "load"
         /\ names' \in [Lister -> Seq(Dir)]
         /\ \A k \in Lister \ {l} : pc'[k] = pc[k] /\ names'[k] = names[k]
<1>1. "load" \in Places
  BY DEF Places
<1>2. names' = [names EXCEPT ![l] = Tail(names[l])] /\ Tail(names[l]) \in Seq(Dir)
  BY NamedType DEF Skip
<1> QED
  BY <1>1, <1>2, Going DEF Skip, CatalogType

\* What stays when a session only walks, or goes on with its names.
Private(l) ==
  /\ UNCHANGED <<dirs, gen, config, locks, admin, changes, had>>
  /\ info' \subseteq dirs
  /\ pc' \in [Lister -> Places] /\ names' \in [Lister -> Seq(Dir)]
  /\ reply' \in [Lister -> Seq(Line)] /\ tgroup' = [k \in Lister |-> tgroup'[k]]
  /\ \A k \in Lister \ {l} : /\ pc'[k] = pc[k] /\ names'[k] = names[k]
                             /\ tgroup'[k] = tgroup[k] /\ reply'[k] = reply[k]

LEMMA WalkStep ==
  ASSUME CatalogInv, NEW l \in Lister,
         (\E e \in Dir \X (0 .. MaxChanges) : ReadEntry(l, e)) \/ EndDir(l) \/ EndList(l)
  PROVE  CatalogInv'
<1>0. CatalogType
  BY DEF CatalogInv
<1>1. /\ UNCHANGED <<dirs, gen, config, info, locks, admin, changes, had, tgroup, reply>>
      /\ pc[l] \in {"walk", "load"}
  BY DEF ReadEntry, EndDir, EndList, At, disk, administration, history
<1>2. /\ pc' \in [Lister -> Places] /\ pc'[l] \in {"walk", "load", "done"}
      /\ \A k \in Lister \ {l} : pc'[k] = pc[k]
  <2>1. CASE \E e \in Dir \X (0 .. MaxChanges) : ReadEntry(l, e)
    BY <1>0, <2>1 DEF ReadEntry, CatalogType
  <2>2. CASE EndDir(l)
    <3>1. pc[l] = "walk" /\ (pc' = [pc EXCEPT ![l] = "load"] \/ pc' = [pc EXCEPT ![l] = "walk"])
      BY <1>0, <2>2 DEF EndDir, CatalogType
    <3> QED
      BY <1>0, <3>1 DEF CatalogType, Places
  <2>3. CASE EndList(l)
    <3>1. "done" \in Places
      BY DEF Places
    <3> QED
      BY <1>0, <2>3, <3>1, Going DEF EndList
  <2> QED
    BY <2>1, <2>2, <2>3
<1>3. names' \in [Lister -> Seq(Dir)] /\ \A k \in Lister \ {l} : names'[k] = names[k]
  <2>1. ASSUME NEW e \in Dir \X (0 .. MaxChanges), ReadEntry(l, e)
        PROVE  names' \in [Lister -> Seq(Dir)] /\ \A k \in Lister \ {l} : names'[k] = names[k]
    <3>1. e[1] \in Dir /\ names[l] \in Seq(Dir)
      BY <1>0 DEF CatalogType
    <3>2. PICK ns \in {names[l], Append(names[l], e[1])} : names' = [names EXCEPT ![l] = ns]
      BY <1>0, <2>1 DEF ReadEntry, CatalogType
    <3>3. Append(names[l], e[1]) \in Seq(Dir)
      BY <3>1, AppendProperties
    <3>4. ns \in Seq(Dir)
      BY <3>1, <3>2, <3>3
    <3> QED
      BY <1>0, <3>2, <3>4 DEF CatalogType
  <2>2. CASE names' = names
    BY <1>0, <2>2 DEF CatalogType
  <2> QED
    BY <2>1, <2>2 DEF EndDir, EndList
<1>4. ListInv(l)'
  BY <1>1, <1>2, BetweenGroups
<1>5. Private(l) /\ pc[l] # "read"
  BY <1>0, <1>1, <1>2, <1>3 DEF Private, CatalogType
<1> QED
  BY <1>4, <1>5, PrivateStep DEF Private

\* LoadInfo up to LoadConfig: the group is as it was made.
LEMMA LoadOpenStep ==
  ASSUME CatalogInv, NEW l \in Lister, LoadOpen(l)
  PROVE  CatalogInv'
<1> DEFINE new == [opened |-> << >>, postok |-> "n"]
<1>0. CatalogType /\ ListInv(l)
  BY DEF CatalogInv
<1>1. /\ UNCHANGED <<dirs, gen, config, info, locks, admin, changes, had, reply>>
      /\ pc[l] = "load" /\ names[l] # << >>
      /\ tgroup' = [tgroup EXCEPT ![l] = new]
  BY DEF LoadOpen, At, disk, administration, history
<1>2. tgroup' = [k \in Lister |-> tgroup'[k]] /\ tgroup'[l] = new
      /\ \A k \in Lister \ {l} : tgroup'[k] = tgroup[k]
  BY <1>0, <1>1 DEF CatalogType
<1>3. CASE Skip(l)
  <2>1. Private(l)
    BY <1>0, <1>1, <1>2, <1>3, Skipping DEF Private, CatalogType
  <2>2. ListInv(l)'
    BY <1>0, <1>1, <1>3, Skipping, BetweenGroups
  <2> QED
    BY <1>1, <2>1, <2>2, PrivateStep DEF Private
<1>4. ASSUME NEW to \in {"info", "build"}, Goto(l, to), names' = names
      PROVE  CatalogInv'
  <2>1. /\ pc' \in [Lister -> Places] /\ pc'[l] = to
        /\ \A k \in Lister \ {l} : pc'[k] = pc[k]
    BY <1>0, <1>4, Going DEF Places
  <2>2. Private(l)
    BY <1>0, <1>1, <1>2, <1>4, <2>1 DEF Private, CatalogType
  <2>3. tgroup'[l].postok = "n"
        /\ tgroup'[l] = [opened |-> tgroup'[l].opened, postok |-> tgroup'[l].postok]
    BY <1>2
  <2>4. \A d \in dirs : Config(d)' = Config(d)
    BY <1>1 DEF Config
  <2>5. ListInv(l)'
    BY <1>0, <1>1, <1>4, <2>1, <2>3, <2>4 DEF ListInv, Loading, Fresh
  <2> QED
    BY <1>1, <2>2, <2>5, PrivateStep DEF Private
<1> QED
  BY <1>3, <1>4 DEF LoadOpen

LEMMA SkipStep ==
  ASSUME CatalogInv, NEW l \in Lister, LockFails(l)
  PROVE  CatalogInv'
<1>0. CatalogType /\ ListInv(l)
  BY DEF CatalogInv
<1>1. /\ UNCHANGED <<dirs, gen, config, info, locks, admin, changes, had, reply, tgroup>>
      /\ pc[l] \in {"info", "build", "configlock"} /\ Skip(l)
  BY DEF LockFails, disk, administration, history
<1>2. names[l] # << >>
  BY <1>0, <1>1 DEF ListInv, Loading
<1>3. Private(l)
  BY <1>0, <1>1, <1>2, Skipping DEF Private, CatalogType
<1>4. ListInv(l)'
  BY <1>0, <1>1, <1>2, Skipping, BetweenGroups
<1> QED
  BY <1>1, <1>3, <1>4, PrivateStep DEF Private

LEMMA LoadInfoStep ==
  ASSUME CatalogInv, NEW l \in Lister, LoadInfo(l) \/ BuildInfo(l)
  PROVE  CatalogInv'
<1>0. CatalogType /\ ListInv(l)
  BY DEF CatalogInv
<1>1. /\ UNCHANGED <<dirs, gen, config, locks, admin, changes, had, reply, tgroup, names>>
      /\ info' \subseteq dirs
      /\ pc[l] \in {"info", "build"} /\ Goto(l, "config")
  BY <1>0 DEF LoadInfo, BuildInfo, At, disk, administration, history, CatalogType
<1>2. /\ pc' \in [Lister -> Places] /\ pc'[l] = "config"
      /\ \A k \in Lister \ {l} : pc'[k] = pc[k]
  <2>1. "config" \in Places
    BY DEF Places
  <2> QED
    BY <1>0, <1>1, <2>1, Going
<1>3. Private(l)
  BY <1>0, <1>1, <1>2 DEF Private, CatalogType
<1>4. \A d \in dirs : Config(d)' = Config(d)
  BY <1>1 DEF Config
<1>5. ListInv(l)'
  BY <1>0, <1>1, <1>2, <1>4 DEF ListInv, Loading, Fresh
<1> QED
  BY <1>1, <1>3, <1>5, PrivateStep DEF Private

\* fopen of .config: what it says was there since LIST began.
LEMMA ConfigOpenStep ==
  ASSUME CatalogInv, NEW l \in Lister, ConfigOpen(l)
  PROVE  CatalogInv'
<1>0. CatalogType /\ ListInv(l)
  BY DEF CatalogInv
<1>1. /\ UNCHANGED <<dirs, gen, config, info, locks, admin, changes, had, reply>>
      /\ pc[l] = "config"
  BY DEF ConfigOpen, At, disk, administration, history
<1>2. names[l] # << >> /\ tgroup[l] = [opened |-> tgroup[l].opened, postok |-> "n"]
  BY <1>0, <1>1 DEF ListInv, Loading, Fresh
<1>3. CASE ~IsValidGroup(Named(l))
  <2>1. Skip(l) /\ tgroup' = tgroup
    BY <1>3 DEF ConfigOpen
  <2>2. Private(l)
    BY <1>0, <1>1, <1>2, <2>1, Skipping DEF Private, CatalogType
  <2>3. ListInv(l)'
    BY <1>0, <1>1, <1>2, <2>1, Skipping, BetweenGroups
  <2> QED
    BY <1>1, <2>2, <2>3, PrivateStep DEF Private
<1>4. CASE IsValidGroup(Named(l))
  <2> DEFINE d == Named(l)
             file == <<d, gen[d]>>
  <2>1. d \in Dir /\ d # "/" /\ gen[d] \in Nat
    BY <1>0, <1>2, NamedType DEF CatalogType
  <2>2. /\ Goto(l, "configlock") /\ names' = names
        /\ tgroup' = [tgroup EXCEPT ![l].opened = file]
    BY <1>4, <2>1 DEF ConfigOpen, Inode
  <2>3. /\ tgroup' = [k \in Lister |-> tgroup'[k]]
        /\ tgroup'[l] = [opened |-> file, postok |-> "n"]
        /\ \A k \in Lister \ {l} : tgroup'[k] = tgroup[k]
    <3>1. [tgroup[l] EXCEPT !.opened = file] = [opened |-> file, postok |-> "n"]
      BY <1>2
    <3>2. tgroup' = [tgroup EXCEPT ![l] = [tgroup[l] EXCEPT !.opened = file]]
      BY <2>2
    <3> HIDE DEF file
    <3>3. tgroup' = [tgroup EXCEPT ![l] = [opened |-> file, postok |-> "n"]]
      BY <3>1, <3>2
    <3> QED
      BY <1>0, <3>3 DEF CatalogType
  <2>4. /\ pc' \in [Lister -> Places] /\ pc'[l] = "configlock"
        /\ \A k \in Lister \ {l} : pc'[k] = pc[k]
    BY <1>0, <2>2, Going DEF Places
  <2>5. Private(l)
    BY <1>0, <1>1, <2>2, <2>3, <2>4 DEF Private, CatalogType
  <2>6. \A e \in dirs : Config(e)' = Config(e)
    BY <1>1 DEF Config
  <2>7. OpenedAt(l, gen[d])'
    <3>1. config[d][gen[d]] # "none" /\ d \in dirs
      BY <1>4 DEF IsValidGroup, Config
    <3>2. config[d][gen[d]] \in Content => config[d][gen[d]] \in had[l][d]
      BY <1>0, <1>1, <3>1 DEF ListInv, Config
    <3>3. Named(l)' = d
      BY <2>2 DEF Named
    <3> QED
      BY <1>1, <2>3, <3>1, <3>2, <3>3 DEF OpenedAt
  <2>8. Named(l)' = d /\ gen[d] \in 0 .. gen[d] /\ gen' = gen
    BY <1>1, <2>1, <2>2 DEF Named
  <2>9. ListInv(l)'
    <3>1. \E g \in 0 .. gen'[Named(l)'] : OpenedAt(l, g)'
      BY <2>7, <2>8
    <3>2. tgroup'[l].postok = "n"
          /\ tgroup'[l] = [opened |-> tgroup'[l].opened, postok |-> tgroup'[l].postok]
      BY <2>3
    <3> HIDE DEF d, file
    <3> QED
      BY <1>0, <1>1, <1>2, <2>2, <2>4, <2>6, <3>1, <3>2 DEF ListInv, Loading, Fresh
  <2> QED
    BY <1>1, <2>5, <2>9, PrivateStep DEF Private
<1> QED
  BY <1>3, <1>4

\* ReadLock of .config is granted: nobody is writing the file that is there now.
LEMMA ConfigLockStep ==
  ASSUME CatalogInv, NEW l \in Lister, ConfigLock(l)
  PROVE  CatalogInv'
<1> DEFINE d == Named(l)
           new == LockOf(l, d, gen[d], "SH")
<1>0. /\ CatalogType /\ AdminInv /\ ConfigInv /\ LockInv /\ ListInv(l)
      /\ l # Administrator
  BY NamesAssumption DEF CatalogInv, Administrator
<1>1. /\ UNCHANGED <<dirs, gen, config, info, admin, changes, had, reply, names, tgroup>>
      /\ pc[l] = "configlock" /\ Goto(l, "read")
      /\ Free(d, "SH") /\ locks' = locks \cup {new}
  BY DEF ConfigLock, At, Take, LockOf, disk, administration, history
<1>2. /\ pc' \in [Lister -> Places] /\ pc'[l] = "read"
      /\ \A k \in Lister \ {l} : pc'[k] = pc[k]
  BY <1>0, <1>1, Going DEF Places
<1>3. d \in Dir /\ gen[d] \in 0 .. MaxChanges
  <2>1. names[l] # << >>
    BY <1>0, <1>1 DEF ListInv, Loading
  <2> QED
    BY <1>0, <2>1, NamedType DEF CatalogType
<1>4. CatalogType'
  <2>1. new \in [by : Lister \cup {Administrator}, dir : Dir, gen : 0 .. MaxChanges, kind : {"SH", "EX"}]
    BY <1>3 DEF LockOf
  <2> HIDE DEF new
  <2> QED
    BY <1>0, <1>1, <1>2, <2>1 DEF CatalogType
<1>5. AdminInv' /\ ConfigInv'
  BY <1>0, <1>1 DEF AdminInv, ConfigInv
<1>6. new.by = l /\ new.dir = d /\ new.gen = gen[d] /\ new.kind = "SH"
  BY DEF LockOf
<1>7. \A k \in Lister : Named(k)' = Named(k)
  BY <1>1 DEF Named
<1>8. LockInv'
  <2>1. ASSUME NEW k \in locks'
        PROVE  \/ /\ k.by = Administrator /\ admin.pc \in {"open", "write"}
                  /\ k = LockOf(Administrator, admin.dir, gen[admin.dir], "EX")
               \/ /\ k.by \in Lister /\ pc'[k.by] = "read"
                  /\ k.kind = "SH" /\ k.dir = Named(k.by) /\ k.gen <= gen[k.dir]
    <3>1. CASE k = new
      <4>1. gen[d] <= gen[d]
        BY <1>3
      <4> HIDE DEF new, d
      <4> QED
        BY <1>2, <1>6, <3>1, <4>1 DEF d
    <3>2. CASE k \in locks
      BY <1>0, <1>1, <1>2, <3>2 DEF LockInv
    <3> QED
      BY <1>1, <2>1, <3>1, <3>2
  <2>2. admin.pc \in {"open", "write"} =>
          LockOf(Administrator, admin.dir, gen[admin.dir], "EX") \in locks'
    BY <1>0, <1>1 DEF LockInv
  <2>3. ASSUME NEW k1 \in locks', NEW k2 \in locks', k1 # k2, k1.dir = k2.dir, k1.gen = k2.gen
        PROVE  k1.kind = "SH" /\ k2.kind = "SH"
    <3>1. \A k \in locks : k.dir = d /\ k.gen = gen[d] => k.kind = "SH"
      BY <1>1 DEF Free
    <3>2. CASE k1 = new \/ k2 = new
      <4> HIDE DEF new, d
      <4> QED
        BY <1>1, <1>6, <2>3, <3>1, <3>2
    <3>3. CASE k1 \in locks /\ k2 \in locks
      BY <1>0, <2>3, <3>3 DEF LockInv
    <3> QED
      BY <1>1, <2>3, <3>2, <3>3
  <2> QED
    BY <1>1, <1>7, <2>1, <2>2, <2>3 DEF LockInv
<1>9. ASSUME NEW k \in Lister PROVE ListInv(k)'
  <2>1. CASE k # l
    BY <1>1, <1>2, <2>1, ListSame
  <2>2. CASE k = l
    <3>1. PICK g \in 0 .. gen[d] : OpenedAt(l, g)
      BY <1>0, <1>1 DEF ListInv
    <3>2. OpenedAt(l, g)'
      BY <1>1, <1>7, <3>1 DEF OpenedAt
    <3>3. new \in locks' /\ gen[d] \in 0 .. gen'[d]
      BY <1>1, <1>3
    <3>4. \E h \in 0 .. gen'[Named(l)'] :
            LockOf(l, Named(l)', h, "SH") \in locks' /\ \E i \in 0 .. h : OpenedAt(l, i)'
      BY <1>1, <1>7, <3>2, <3>3
    <3>5. \A e \in dirs : Config(e)' = Config(e)
      BY <1>1 DEF Config
    <3> HIDE DEF d, new
    <3> QED
      BY <1>0, <1>1, <1>2, <1>7, <2>2, <3>4, <3>5 DEF ListInv, Loading, Fresh
  <2> QED
    BY <2>1, <2>2
<1> QED
  BY <1>4, <1>5, <1>8, <1>9 DEF CatalogInv

\* LoadConfig reads under the lock: no half .config, and what this one says.
LEMMA ReadContent ==
  ASSUME CatalogInv, NEW l \in Lister, pc[l] = "read"
  PROVE  \E g \in 0 .. MaxChanges :
           /\ tgroup[l].opened = <<Named(l), g>>
           /\ config[Named(l)][g] \in Content
           /\ config[Named(l)][g] \in had[l][Named(l)]
<1> DEFINE d == Named(l)
<1>0. /\ CatalogType /\ ConfigInv /\ LockInv /\ ListInv(l)
      /\ l # Administrator
  BY NamesAssumption DEF CatalogInv, Administrator
<1>1. d \in Dir /\ gen[d] \in 0 .. MaxChanges
  <2>1. names[l] # << >>
    BY <1>0 DEF ListInv, Loading
  <2> QED
    BY <1>0, <2>1, NamedType DEF CatalogType
<1>2. PICK h \in 0 .. gen[d] :
        LockOf(l, d, h, "SH") \in locks /\ \E g \in 0 .. h : OpenedAt(l, g)
  BY <1>0 DEF ListInv
<1>3. PICK g \in 0 .. h : OpenedAt(l, g)
  BY <1>2
<1>4. g \in 0 .. MaxChanges /\ g <= h /\ h <= gen[d]
  BY <1>1, <1>2, <1>3, MaxChangesAssumption
<1>5. config[d][g] # "empty"
  <2> SUFFICES ASSUME config[d][g] = "empty" PROVE FALSE
    OBVIOUS
  <2>1. admin.pc = "write" /\ admin.dir = d /\ g = gen[d]
    BY <1>0, <1>1, <1>4 DEF ConfigInv
  <2>2. h = gen[d]
    BY <1>1, <1>2, <1>4, <2>1, MaxChangesAssumption
  <2> DEFINE k1 == LockOf(Administrator, d, gen[d], "EX")
             k2 == LockOf(l, d, gen[d], "SH")
  <2>3. k1 \in locks /\ k2 \in locks
    BY <1>0, <1>2, <2>1, <2>2 DEF LockInv
  <2>4. k1 # k2 /\ k1.dir = k2.dir /\ k1.gen = k2.gen /\ k1.kind = "EX"
    BY <1>0 DEF LockOf
  <2> HIDE DEF k1, k2
  <2> QED
    BY <1>0, <2>3, <2>4 DEF LockInv
<1>6. config[d][g] \in Files
  <2>1. config[d] \in [0 .. MaxChanges -> Files]
    BY <1>0, <1>1 DEF CatalogType
  <2> HIDE DEF d
  <2> QED
    BY <1>4, <2>1
<1> QED
  BY <1>3, <1>4, <1>5, <1>6 DEF OpenedAt, Files, Content

LEMMA ConfigReadStep ==
  ASSUME CatalogInv, NEW l \in Lister, ConfigRead(l)
  PROVE  CatalogInv'
<1>0. /\ CatalogType /\ AdminInv /\ ConfigInv /\ LockInv /\ ListInv(l)
      /\ l # Administrator
  BY NamesAssumption DEF CatalogInv, Administrator
<1>1. /\ UNCHANGED <<dirs, gen, config, info, admin, changes, had, reply, names>>
      /\ pc[l] = "read" /\ Goto(l, "reply")
      /\ locks' = {k \in locks : k.by # l}
  BY DEF ConfigRead, At, Release, Held, disk, administration, history
<1>2. /\ pc' \in [Lister -> Places] /\ pc'[l] = "reply"
      /\ \A k \in Lister \ {l} : pc'[k] = pc[k]
  BY <1>0, <1>1, Going DEF Places
<1>3. /\ names[l] # << >> /\ tgroup[l].postok = "n"
      /\ tgroup[l] = [opened |-> tgroup[l].opened, postok |-> tgroup[l].postok]
  BY <1>0, <1>1 DEF ListInv, Loading, Fresh
<1>4. PICK g \in 0 .. MaxChanges :
        /\ tgroup[l].opened = <<Named(l), g>>
        /\ config[Named(l)][g] \in Content
        /\ config[Named(l)][g] \in had[l][Named(l)]
  BY <1>1, ReadContent
<1> DEFINE text == config[Named(l)][g]
<1>5. /\ tgroup' = [k \in Lister |-> tgroup'[k]]
      /\ tgroup'[l] = [opened |-> tgroup[l].opened, postok |-> Says(text)]
      /\ \A k \in Lister \ {l} : tgroup'[k] = tgroup[k]
  <2> DEFINE f == tgroup[l].opened
             said == IF config[f[1]][f[2]] = "y" THEN "y" ELSE tgroup[l].postok
  <2>1. tgroup' = [tgroup EXCEPT ![l] = [tgroup[l] EXCEPT !.postok = said]]
    BY DEF ConfigRead
  <2>2. f[1] = Named(l) /\ f[2] = g
    BY <1>4
  <2>3. said = Says(text)
    BY <1>3, <1>4, <2>2 DEF Says, Content
  <2>4. [tgroup[l] EXCEPT !.postok = said] = [opened |-> tgroup[l].opened, postok |-> said]
    BY <1>3
  <2> HIDE DEF said, f, text
  <2> QED
    BY <1>0, <2>1, <2>3, <2>4 DEF CatalogType
<1>6. \A k \in Lister : Named(k)' = Named(k)
  BY <1>1 DEF Named
<1>7. CatalogType' /\ AdminInv' /\ ConfigInv'
  BY <1>0, <1>1, <1>2, <1>5 DEF CatalogType, AdminInv, ConfigInv
<1>8. LockInv'
  <2>1. ASSUME NEW k \in locks'
        PROVE  \/ /\ k.by = Administrator /\ admin.pc \in {"open", "write"}
                  /\ k = LockOf(Administrator, admin.dir, gen[admin.dir], "EX")
               \/ /\ k.by \in Lister /\ pc'[k.by] = "read"
                  /\ k.kind = "SH" /\ k.dir = Named(k.by) /\ k.gen <= gen[k.dir]
    BY <1>0, <1>1, <1>2 DEF LockInv
  <2>2. admin.pc \in {"open", "write"} =>
          LockOf(Administrator, admin.dir, gen[admin.dir], "EX") \in locks'
    BY <1>0, <1>1 DEF LockInv, LockOf
  <2>3. \A k1, k2 \in locks' :
          k1 # k2 /\ k1.dir = k2.dir /\ k1.gen = k2.gen => k1.kind = "SH" /\ k2.kind = "SH"
    BY <1>0, <1>1 DEF LockInv
  <2> QED
    BY <1>1, <1>6, <2>1, <2>2, <2>3 DEF LockInv
<1>9. ASSUME NEW k \in Lister PROVE ListInv(k)'
  <2>1. CASE k # l
    BY <1>1, <1>2, <1>5, <2>1, ListSame
  <2>2. CASE k = l
    <3>1. \E t \in had'[l][Named(l)'] : tgroup'[l].postok = Says(t)
      BY <1>1, <1>4, <1>5, <1>6
    <3>2. tgroup'[l] = [opened |-> tgroup'[l].opened, postok |-> tgroup'[l].postok]
      BY <1>5
    <3>3. \A e \in dirs : Config(e)' = Config(e)
      BY <1>1 DEF Config
    <3> QED
      BY <1>0, <1>1, <1>2, <1>3, <2>2, <3>1, <3>2, <3>3 DEF ListInv, Loading, Fresh
  <2> QED
    BY <2>1, <2>2
<1> QED
  BY <1>7, <1>8, <1>9 DEF CatalogInv

LEMMA ReplyStep ==
  ASSUME CatalogInv, NEW l \in Lister, Reply(l)
  PROVE  CatalogInv'
<1> DEFINE line == [name |-> Named(l), postok |-> tgroup[l].postok]
<1>0. CatalogType /\ ListInv(l)
  BY DEF CatalogInv
<1>1. /\ UNCHANGED <<dirs, gen, config, info, locks, admin, changes, had, tgroup>>
      /\ pc[l] = "reply" /\ Skip(l)
      /\ reply' = [reply EXCEPT ![l] = Append(reply[l], line)]
  BY DEF Reply, At, disk, administration, history
<1>2. names[l] # << >> /\ Named(l) \in Dir
  BY <1>0, <1>1, NamedType DEF ListInv, Loading
<1>3. PICK t \in had[l][Named(l)] : tgroup[l].postok = Says(t)
  BY <1>0, <1>1 DEF ListInv
<1>4. line \in Line
  <2>1. t \in Content
    BY <1>0, <1>2, <1>3 DEF CatalogType
  <2> QED
    BY <1>2, <1>3, <2>1, SaysLine DEF Line
<1>5. line.name = Named(l) /\ line.postok = Says(t)
  BY <1>3
<1> HIDE DEF line
<1>6. /\ Append(reply[l], line) \in Seq(Line)
      /\ \A i \in 1 .. Len(reply[l]) : Append(reply[l], line)[i] = reply[l][i]
      /\ Append(reply[l], line)[Len(reply[l]) + 1] = line
      /\ Len(Append(reply[l], line)) = Len(reply[l]) + 1
      /\ DOMAIN reply[l] = 1 .. Len(reply[l]) /\ Len(reply[l]) \in Nat
  BY <1>0, <1>4, AppendProperties, LenProperties DEF CatalogType
<1>7. /\ reply' \in [Lister -> Seq(Line)] /\ reply'[l] = Append(reply[l], line)
      /\ \A k \in Lister \ {l} : reply'[k] = reply[k]
  BY <1>0, <1>1, <1>6 DEF CatalogType
<1>8. DOMAIN reply'[l] = 1 .. Len(reply[l]) + 1
  BY <1>6, <1>7, LenProperties
<1>9. ASSUME NEW i \in DOMAIN reply'[l]
      PROVE  \E u \in had[l][reply'[l][i].name] : reply'[l][i].postok = Says(u)
  <2>1. CASE i \in 1 .. Len(reply[l])
    BY <1>0, <1>6, <1>7, <2>1 DEF ListInv
  <2>2. CASE i = Len(reply[l]) + 1
    <3>1. reply'[l][i] = line
      BY <1>6, <1>7, <2>2
    <3> QED
      BY <1>3, <1>5, <3>1
  <2> QED
    BY <1>6, <1>8, <2>1, <2>2
<1>10. Private(l)
  BY <1>0, <1>1, <1>2, <1>7, Skipping DEF Private, CatalogType
<1>11. \A e \in dirs : Config(e)' = Config(e)
  BY <1>1 DEF Config
<1>12. ListInv(l)'
  <2>1. pc'[l] = "load"
    BY <1>0, <1>1, <1>2, Skipping
  <2> QED
    BY <1>0, <1>1, <1>9, <1>11, <2>1 DEF ListInv, Loading, Fresh
<1> QED
  BY <1>1, <1>10, <1>12, PrivateStep DEF Private

\* LIST begins: what each .config says now is noted.
LEMMA BeginListStep ==
  ASSUME CatalogInv, NEW l \in Lister, BeginList(l)
  PROVE  CatalogInv'
<1>0. CatalogType /\ AdminInv /\ ConfigInv /\ LockInv /\ ListInv(l)
  BY DEF CatalogInv
<1> DEFINE now == [d \in Dir |-> IF d \in dirs THEN {Config(d)} \cap Content ELSE {}]
<1>1. /\ UNCHANGED <<dirs, gen, config, info, locks, admin, changes, reply, tgroup, names>>
      /\ pc[l] = "idle" /\ pc' = [pc EXCEPT ![l] = "walk"]
      /\ had' = [had EXCEPT ![l] = now]
  BY DEF BeginList, disk, administration
<1>2. now \in [Dir -> SUBSET Content] /\ \A d \in dirs : Config(d) \in Content => Config(d) \in now[d]
  BY <1>0 DEF CatalogType
<1> HIDE DEF now
<1>3. /\ had' \in [Lister -> [Dir -> SUBSET Content]] /\ had'[l] = now
      /\ \A k \in Lister \ {l} : had'[k] = had[k]
  BY <1>0, <1>1, <1>2 DEF CatalogType
<1>4. /\ pc' \in [Lister -> Places] /\ pc'[l] = "walk"
      /\ \A k \in Lister \ {l} : pc'[k] = pc[k]
  BY <1>0, <1>1 DEF CatalogType, Places
<1>5. CatalogType' /\ AdminInv' /\ ConfigInv'
  BY <1>0, <1>1, <1>3, <1>4 DEF CatalogType, AdminInv, ConfigInv
<1>6. LockInv'
  <2>1. \A k \in Lister : Named(k)' = Named(k)
    BY <1>1 DEF Named
  <2>2. \A k \in Lister : pc[k] = "read" => pc'[k] = "read"
    BY <1>1, <1>4
  <2> QED
    BY <1>0, <1>1, <2>1, <2>2 DEF LockInv
<1>7. ASSUME NEW k \in Lister PROVE ListInv(k)'
  <2>1. CASE k # l
    BY <1>1, <1>3, <1>4, <2>1, ListSame
  <2>2. CASE k = l
    <3>1. \A d \in dirs : Config(d)' = Config(d)
      BY <1>1 DEF Config
    <3>2. reply'[l] = << >>
      BY <1>0, <1>1 DEF ListInv
    <3>3. DOMAIN reply'[l] = {}
      BY <3>2
    <3> QED
      BY <1>1, <1>2, <1>3, <1>4, <2>2, <3>1, <3>2, <3>3 DEF ListInv, Loading, Fresh
  <2> QED
    BY <2>1, <2>2
<1> QED
  BY <1>5, <1>6, <1>7 DEF CatalogInv

LEMMA AgainStep ==
  ASSUME CatalogInv, NEW l \in Lister, Again(l)
  PROVE  CatalogInv'
<1>0. CatalogType /\ AdminInv /\ ConfigInv /\ LockInv /\ ListInv(l)
  BY DEF CatalogInv
<1>1. /\ UNCHANGED <<dirs, gen, config, info, locks, admin, changes, names>>
      /\ pc[l] = "done" /\ Goto(l, "idle")
      /\ tgroup' = [tgroup EXCEPT ![l] = << >>] /\ reply' = [reply EXCEPT ![l] = << >>]
      /\ had' = [had EXCEPT ![l] = [d \in Dir |-> {}]]
  BY DEF Again, At, disk, administration
<1>2. /\ had' \in [Lister -> [Dir -> SUBSET Content]]
      /\ reply' \in [Lister -> Seq(Line)] /\ reply'[l] = << >>
      /\ tgroup' = [k \in Lister |-> tgroup'[k]]
      /\ \A k \in Lister \ {l} :
           had'[k] = had[k] /\ reply'[k] = reply[k] /\ tgroup'[k] = tgroup[k]
  <2>1. << >> \in Seq(Line) /\ [d \in Dir |-> {}] \in [Dir -> SUBSET Content]
    BY EmptySeq
  <2> QED
    BY <1>0, <1>1, <2>1 DEF CatalogType
<1>3. /\ pc' \in [Lister -> Places] /\ pc'[l] = "idle"
      /\ \A k \in Lister \ {l} : pc'[k] = pc[k]
  BY <1>0, <1>1, Going DEF Places
<1>4. CatalogType' /\ AdminInv' /\ ConfigInv'
  BY <1>0, <1>1, <1>2, <1>3 DEF CatalogType, AdminInv, ConfigInv
<1>5. LockInv'
  <2>1. \A k \in Lister : Named(k)' = Named(k)
    BY <1>1 DEF Named
  <2>2. \A k \in Lister : pc[k] = "read" => pc'[k] = "read"
    BY <1>1, <1>3
  <2> QED
    BY <1>0, <1>1, <2>1, <2>2 DEF LockInv
<1>6. ASSUME NEW k \in Lister PROVE ListInv(k)'
  <2>1. CASE k # l
    BY <1>1, <1>2, <1>3, <2>1, ListSame
  <2>2. CASE k = l
    <3>1. DOMAIN reply'[l] = {}
      BY <1>2
    <3> QED
      BY <1>2, <1>3, <2>2, <3>1 DEF ListInv, Loading, Fresh
  <2> QED
    BY <2>1, <2>2
<1> QED
  BY <1>4, <1>5, <1>6 DEF CatalogInv

-----------------------------------------------------------------------------
(* The administrator's steps.                                              *)

\* What a session knows stays true when directories and files change: a
\* directory is not given back its number, and new content is noted.
LEMMA ListDisk ==
  ASSUME CatalogInv, NEW l \in Lister, UNCHANGED <<pc, names, tgroup, reply>>,
         \A d \in Dir : gen'[d] \in Nat /\ gen[d] <= gen'[d] /\ had[l][d] \subseteq had'[l][d],
         \A d \in Dir, g \in 0 .. MaxChanges :
           \/ config'[d][g] = config[d][g]
           \/ /\ config'[d][g] # "none"
              /\ pc[l] # "idle" /\ config'[d][g] \in Content => config'[d][g] \in had'[l][d],
         dirs' \subseteq Dir,
         pc[l] # "idle" =>
           \A d \in dirs' : config'[d][gen'[d]] \in Content => config'[d][gen'[d]] \in had'[l][d],
         \A k \in locks : k.by = l => k \in locks'
  PROVE  ListInv(l)'
<1>0. CatalogType /\ ListInv(l) /\ Named(l)' = Named(l)
  BY DEF CatalogInv, Named
<1>1. ASSUME pc[l] \in Loading
      PROVE  Named(l) \in Dir /\ gen[Named(l)] \in 0 .. MaxChanges
  BY <1>0, <1>1, NamedType DEF ListInv, CatalogType
<1>2. ASSUME pc[l] \in Loading, NEW g \in 0 .. MaxChanges, OpenedAt(l, g)
      PROVE  OpenedAt(l, g)'
  <2> DEFINE d == Named(l)
  <2>1. d \in Dir /\ had[l][d] \subseteq had'[l][d] /\ pc[l] # "idle"
    BY <1>1, <1>2 DEF Loading
  <2>2. /\ tgroup[l].opened = <<d, g>>
        /\ config[d][g] # "none"
        /\ config[d][g] \in Content => config[d][g] \in had[l][d]
    BY <1>2 DEF OpenedAt
  <2>3. /\ config'[d][g] # "none"
        /\ config'[d][g] \in Content => config'[d][g] \in had'[l][d]
    BY <2>1, <2>2
  <2> QED
    BY <1>0, <2>2, <2>3 DEF OpenedAt
<1>3. /\ pc'[l] \in Loading =>
           /\ names'[l] # << >>
           /\ tgroup'[l] = [opened |-> tgroup'[l].opened, postok |-> tgroup'[l].postok]
      /\ pc'[l] \in Fresh => tgroup'[l].postok = "n"
      /\ pc'[l] = "idle" => reply'[l] = << >>
  BY <1>0 DEF ListInv
<1>4. ASSUME pc[l] = "configlock"
      PROVE  \E g \in 0 .. gen'[Named(l)] : OpenedAt(l, g)'
  <2>1. pc[l] \in Loading
    BY <1>4 DEF Loading
  <2>2. PICK g \in 0 .. gen[Named(l)] : OpenedAt(l, g)
    BY <1>0, <1>4 DEF ListInv
  <2>3. g \in 0 .. MaxChanges /\ g \in 0 .. gen'[Named(l)]
    BY <1>1, <2>1, <2>2, MaxChangesAssumption
  <2> QED
    BY <1>2, <2>1, <2>2, <2>3
<1>5. ASSUME pc[l] = "read"
      PROVE  \E h \in 0 .. gen'[Named(l)] :
               LockOf(l, Named(l), h, "SH") \in locks' /\ \E g \in 0 .. h : OpenedAt(l, g)'
  <2>1. pc[l] \in Loading
    BY <1>5 DEF Loading
  <2>2. PICK h \in 0 .. gen[Named(l)] :
          LockOf(l, Named(l), h, "SH") \in locks /\ \E g \in 0 .. h : OpenedAt(l, g)
    BY <1>0, <1>5 DEF ListInv
  <2>3. PICK g \in 0 .. h : OpenedAt(l, g)
    BY <2>2
  <2>4. g \in 0 .. MaxChanges /\ h \in 0 .. gen'[Named(l)]
    BY <1>1, <2>1, <2>2, <2>3, MaxChangesAssumption
  <2>5. LockOf(l, Named(l), h, "SH") \in locks'
    BY <2>2 DEF LockOf
  <2> QED
    BY <1>2, <2>1, <2>3, <2>4, <2>5
<1>6. ASSUME pc[l] = "reply"
      PROVE  \E t \in had'[l][Named(l)] : tgroup[l].postok = Says(t)
  <2>1. PICK t \in had[l][Named(l)] : tgroup[l].postok = Says(t)
    BY <1>0, <1>6 DEF ListInv
  <2>2. Named(l) \in Dir
    BY <1>1, <1>6 DEF Loading
  <2> QED
    BY <2>1, <2>2
<1>7. ASSUME NEW i \in DOMAIN reply[l]
      PROVE  \E t \in had'[l][reply[l][i].name] : reply[l][i].postok = Says(t)
  <2>1. PICK t \in had[l][reply[l][i].name] : reply[l][i].postok = Says(t)
    BY <1>0 DEF ListInv
  <2>2. reply[l][i] \in Line
    BY <1>0, ElementOfSeq, LenProperties DEF CatalogType
  <2> QED
    BY <2>1, <2>2 DEF Line
<1>8. pc[l] # "idle" => \A d \in dirs' : Config(d)' \in Content => Config(d)' \in had'[l][d]
  BY DEF Config
<1> QED
  BY <1>0, <1>3, <1>4, <1>5, <1>6, <1>7, <1>8 DEF ListInv

\* The locks while the administrator takes, has or gives back none.
LEMMA LocksSame ==
  ASSUME CatalogInv, UNCHANGED <<locks, pc, names>>,
         \A d \in Dir : gen'[d] \in Nat /\ gen[d] <= gen'[d],
         \/ admin.pc \notin {"open", "write"} /\ admin'.pc \notin {"open", "write"}
         \/ /\ admin.pc \in {"open", "write"} /\ admin'.pc \in {"open", "write"}
            /\ admin'.dir = admin.dir /\ gen' = gen
  PROVE  LockInv'
<1>0. CatalogType /\ LockInv /\ \A l \in Lister : Named(l)' = Named(l)
  BY DEF CatalogInv, Named
<1>1. ASSUME NEW k \in locks, k.gen <= gen[k.dir]
      PROVE  k.gen <= gen'[k.dir]
  <2>1. k.dir \in Dir /\ k.gen \in 0 .. MaxChanges /\ gen[k.dir] \in 0 .. MaxChanges
    BY <1>0 DEF CatalogType
  <2> QED
    BY <1>1, <2>1, MaxChangesAssumption
<1>2. ASSUME NEW k \in locks
      PROVE  \/ /\ k.by = Administrator /\ admin'.pc \in {"open", "write"}
                /\ k = LockOf(Administrator, admin'.dir, gen'[admin'.dir], "EX")
             \/ /\ k.by \in Lister /\ pc[k.by] = "read"
                /\ k.kind = "SH" /\ k.dir = Named(k.by) /\ k.gen <= gen'[k.dir]
  BY <1>0, <1>1 DEF LockInv
<1>3. admin'.pc \in {"open", "write"} =>
        LockOf(Administrator, admin'.dir, gen'[admin'.dir], "EX") \in locks
  BY <1>0 DEF LockInv
<1> QED
  BY <1>0, <1>2, <1>3 DEF LockInv

\* One .config gets another text.
LEMMA ConfigSet ==
  ASSUME CatalogType, NEW d \in Dir, NEW text \in Files,
         config' = [config EXCEPT ![d][gen[d]] = text]
  PROVE  /\ config' \in [Dir -> [0 .. MaxChanges -> Files]]
         /\ config'[d][gen[d]] = text
         /\ \A e \in Dir, g \in 0 .. MaxChanges :
              ~(e = d /\ g = gen[d]) => config'[e][g] = config[e][g]
<1>1. config[d] \in [0 .. MaxChanges -> Files] /\ gen[d] \in 0 .. MaxChanges
  BY DEF CatalogType
<1> DEFINE texts == [config[d] EXCEPT ![gen[d]] = text]
<1>2. texts \in [0 .. MaxChanges -> Files]
  BY <1>1
<1>3. config' = [config EXCEPT ![d] = texts]
  BY DEF CatalogType
<1>4. texts[gen[d]] = text /\ \A g \in 0 .. MaxChanges : g # gen[d] => texts[g] = config[d][g]
  BY <1>1
<1> HIDE DEF texts
<1> QED
  BY <1>2, <1>3, <1>4 DEF CatalogType

\* What a .config says is noted for every session that lists.
LEMMA SaidNotes ==
  ASSUME CatalogType, NEW d \in Dir, NEW content \in Content, had' = Said(d, content)
  PROVE  /\ had' \in [Lister -> [Dir -> SUBSET Content]]
         /\ \A l \in Lister :
              /\ pc[l] # "idle" => content \in had'[l][d]
              /\ \A e \in Dir : had[l][e] \subseteq had'[l][e]
<1>1. ASSUME NEW l \in Lister
      PROVE  /\ had'[l] \in [Dir -> SUBSET Content]
             /\ pc[l] # "idle" => content \in had'[l][d]
             /\ \A e \in Dir : had[l][e] \subseteq had'[l][e]
  <2>1. had[l] \in [Dir -> SUBSET Content]
    BY DEF CatalogType
  <2>2. had'[l] = IF pc[l] = "idle" THEN had[l] ELSE [had[l] EXCEPT ![d] = had[l][d] \cup {content}]
    BY DEF Said
  <2> QED
    BY <2>1, <2>2
<1>2. had' = [l \in Lister |-> had'[l]]
  BY DEF Said
<1> QED
  BY <1>1, <1>2

LEMMA NewGroupStep ==
  ASSUME CatalogInv, NEW d \in Dir, NEW content \in Content, NewGroup(d, content)
  PROVE  CatalogInv'
<1>0. CatalogType /\ AdminInv /\ ConfigInv /\ LockInv
  BY DEF CatalogInv
<1>1. /\ UNCHANGED <<gen, config, info, locks, pc, names, tgroup, reply, had>>
      /\ admin.pc = "idle" /\ changes < MaxChanges /\ changes' = changes + 1
      /\ dirs' = dirs \cup {d} \cup Within[d]
      /\ admin' = [pc |-> "lock", dir |-> d, content |-> content]
  BY DEF NewGroup, session, history
<1>2. dirs \subseteq dirs' /\ dirs' \subseteq Dir /\ d \in dirs'
  BY <1>0, <1>1, WithinAssumption DEF CatalogType
<1>3. changes' \in 0 .. MaxChanges /\ \A e \in Dir : gen[e] \in Nat /\ gen[e] <= changes'
  BY <1>0, <1>1, MaxChangesAssumption DEF CatalogType
<1>4. CatalogType'
  BY <1>0, <1>1, <1>2, <1>3 DEF CatalogType
<1>5. AdminInv'
  BY <1>1, <1>2 DEF AdminInv
<1>6. ConfigInv'
  BY <1>0, <1>1, <1>2 DEF ConfigInv
<1>7. LockInv'
  BY <1>1, <1>3, LocksSame
<1>8. ASSUME NEW l \in Lister PROVE ListInv(l)'
  <2>1. ASSUME pc[l] # "idle", NEW e \in dirs', config[e][gen[e]] \in Content
        PROVE  config[e][gen[e]] \in had[l][e]
    <3>1. e \in Dir /\ gen[e] \in 0 .. MaxChanges
      BY <1>0, <1>2 DEF CatalogType
    <3>2. e \in dirs
      BY <1>0, <2>1, <3>1 DEF ConfigInv, Content
    <3> QED
      BY <2>1, <3>2 DEF CatalogInv, ListInv, Config
  <2> QED
    BY <1>1, <1>2, <1>3, <2>1, ListDisk
<1> QED
  BY <1>4, <1>5, <1>6, <1>7, <1>8 DEF CatalogInv

LEMMA SaveLockStep ==
  ASSUME CatalogInv, SaveLock
  PROVE  CatalogInv'
<1> DEFINE new == LockOf(Administrator, admin.dir, gen[admin.dir], "EX")
<1>0. CatalogType /\ AdminInv /\ ConfigInv /\ LockInv
  BY DEF CatalogInv
<1>1. /\ UNCHANGED <<dirs, gen, config, info, changes, pc, names, tgroup, reply, had>>
      /\ admin.pc = "lock" /\ admin' = [admin EXCEPT !.pc = "open"]
      /\ Free(admin.dir, "EX") /\ locks' = locks \cup {new}
  BY DEF SaveLock, Take, LockOf, disk, session, history
<1>2. /\ admin \in [pc : {"lock", "open", "write", "build"}, dir : Dir, content : Content]
      /\ admin.dir \in dirs
  BY <1>0, <1>1 DEF AdminInv
<1>3. /\ admin' \in [pc : {"lock", "open", "write", "build"}, dir : Dir, content : Content]
      /\ admin'.pc = "open" /\ admin'.dir = admin.dir
  BY <1>1, <1>2
<1>4. CatalogType'
  <2>1. gen[admin.dir] \in 0 .. MaxChanges
    BY <1>0, <1>2 DEF CatalogType
  <2>2. new \in [by : Lister \cup {Administrator}, dir : Dir, gen : 0 .. MaxChanges,
                 kind : {"SH", "EX"}]
    BY <1>2, <2>1 DEF LockOf
  <2> HIDE DEF new
  <2> QED
    BY <1>0, <1>1, <2>2 DEF CatalogType
<1>5. AdminInv'
  BY <1>1, <1>2, <1>3 DEF AdminInv
<1>6. ConfigInv'
  BY <1>0, <1>1 DEF ConfigInv
<1>7. LockInv'
  <2>1. new.by = Administrator /\ new.dir = admin.dir /\ new.gen = gen[admin.dir]
    BY DEF LockOf
  <2>2. \A k \in locks : ~(k.dir = new.dir /\ k.gen = new.gen)
    BY <1>1, <2>1 DEF Free
  <2>3. \A k \in locks : k.by \in Lister /\ pc[k.by] = "read"
                         /\ k.kind = "SH" /\ k.dir = Named(k.by) /\ k.gen <= gen[k.dir]
    BY <1>0, <1>1 DEF LockInv
  <2>4. \A l \in Lister : Named(l)' = Named(l)
    BY <1>1 DEF Named
  <2>5. new = LockOf(Administrator, admin'.dir, gen'[admin'.dir], "EX")
    BY <1>1, <1>3
  <2> HIDE DEF new
  <2>6. ASSUME NEW k \in locks'
        PROVE  \/ /\ k.by = Administrator /\ admin'.pc \in {"open", "write"}
                  /\ k = LockOf(Administrator, admin'.dir, gen'[admin'.dir], "EX")
               \/ /\ k.by \in Lister /\ pc'[k.by] = "read"
                  /\ k.kind = "SH" /\ k.dir = Named(k.by)' /\ k.gen <= gen'[k.dir]
    BY <1>1, <1>3, <2>1, <2>3, <2>4, <2>5
  <2>7. \A k1, k2 \in locks' :
          k1 # k2 /\ k1.dir = k2.dir /\ k1.gen = k2.gen => k1.kind = "SH" /\ k2.kind = "SH"
    BY <1>0, <1>1, <2>2 DEF LockInv
  <2> QED
    BY <1>1, <2>5, <2>6, <2>7 DEF LockInv
<1>8. ASSUME NEW l \in Lister PROVE ListInv(l)'
  BY <1>1, ListSame
<1> QED
  BY <1>4, <1>5, <1>6, <1>7, <1>8 DEF CatalogInv

LEMMA SaveOpenStep ==
  ASSUME CatalogInv, SaveOpen
  PROVE  CatalogInv'
<1> DEFINE d == admin.dir
<1>0. CatalogType /\ AdminInv /\ ConfigInv /\ LockInv
  BY DEF CatalogInv
<1>1. /\ UNCHANGED <<dirs, gen, info, locks, changes, pc, names, tgroup, reply, had>>
      /\ admin.pc = "open" /\ admin' = [admin EXCEPT !.pc = "write"]
      /\ config' = [config EXCEPT ![d][gen[d]] = "empty"]
  BY DEF SaveOpen, session
<1>2. /\ admin \in [pc : {"lock", "open", "write", "build"}, dir : Dir, content : Content]
      /\ d \in dirs /\ d \in Dir
  BY <1>0, <1>1 DEF AdminInv
<1>3. /\ admin' \in [pc : {"lock", "open", "write", "build"}, dir : Dir, content : Content]
      /\ admin'.pc = "write" /\ admin'.dir = d
  BY <1>1, <1>2
<1>4. /\ config' \in [Dir -> [0 .. MaxChanges -> Files]]
      /\ config'[d][gen[d]] = "empty"
      /\ \A e \in Dir, g \in 0 .. MaxChanges :
           ~(e = d /\ g = gen[d]) => config'[e][g] = config[e][g]
  <2>1. "empty" \in Files
    BY DEF Files
  <2> QED
    BY <1>0, <1>1, <1>2, <2>1, ConfigSet
<1> HIDE DEF d
<1>5. \A e \in Dir : gen[e] \in 0 .. MaxChanges /\ gen[e] \in Nat
  BY <1>0, MaxChangesAssumption DEF CatalogType
<1>6. CatalogType'
  BY <1>0, <1>1, <1>4 DEF CatalogType
<1>7. AdminInv'
  BY <1>1, <1>2, <1>3 DEF AdminInv
<1>8. ConfigInv'
  <2>1. ASSUME NEW e \in Dir, NEW g \in 0 .. MaxChanges
        PROVE  /\ g > gen[e] \/ (g = gen[e] /\ e \notin dirs) => config'[e][g] = "none"
               /\ config'[e][g] = "empty" => e = d /\ g = gen[e]
    <3>1. CASE e = d /\ g = gen[d]
      BY <1>2, <1>5, <3>1
    <3>2. CASE ~(e = d /\ g = gen[d])
      BY <1>0, <1>1, <1>4, <3>2 DEF ConfigInv
    <3> QED
      BY <3>1, <3>2
  <2> QED
    BY <1>1, <1>3, <2>1 DEF ConfigInv
<1>9. LockInv'
  BY <1>1, <1>3, <1>5, LocksSame DEF d
<1>10. ASSUME NEW l \in Lister PROVE ListInv(l)'
  <2>1. \A e \in Dir, g \in 0 .. MaxChanges :
          \/ config'[e][g] = config[e][g]
          \/ config'[e][g] # "none" /\ config'[e][g] \notin Content
    BY <1>4 DEF Content
  <2>2. ASSUME pc[l] # "idle", NEW e \in dirs, config'[e][gen[e]] \in Content
        PROVE  config'[e][gen[e]] \in had[l][e]
    <3>1. e \in Dir
      BY <1>0 DEF CatalogType
    <3>2. config'[e][gen[e]] = config[e][gen[e]]
      BY <1>5, <2>1, <2>2, <3>1
    <3> QED
      BY <2>2, <3>2 DEF CatalogInv, ListInv, Config
  <2>3. /\ \A e \in Dir : gen'[e] \in Nat /\ gen[e] <= gen'[e] /\ had[l][e] \subseteq had'[l][e]
        /\ dirs' \subseteq Dir /\ UNCHANGED <<pc, names, tgroup, reply>>
        /\ \A k \in locks : k.by = l => k \in locks'
    BY <1>0, <1>1, <1>5 DEF CatalogType
  <2>4. pc[l] # "idle" =>
          \A e \in dirs' : config'[e][gen'[e]] \in Content => config'[e][gen'[e]] \in had'[l][e]
    BY <1>1, <2>2
  <2> QED
    BY <2>1, <2>3, <2>4, ListDisk
<1> QED
  BY <1>6, <1>7, <1>8, <1>9, <1>10 DEF CatalogInv

LEMMA SaveWriteStep ==
  ASSUME CatalogInv, SaveWrite
  PROVE  CatalogInv'
<1> DEFINE d == admin.dir
           text == admin.content
<1>0. CatalogType /\ AdminInv /\ ConfigInv /\ LockInv
  BY DEF CatalogInv
<1>1. /\ UNCHANGED <<dirs, gen, info, changes, pc, names, tgroup, reply>>
      /\ admin.pc = "write" /\ admin' = [admin EXCEPT !.pc = "build"]
      /\ config' = [config EXCEPT ![d][gen[d]] = text]
      /\ had' = Said(d, text)
      /\ locks' = {k \in locks : k.by # Administrator}
  BY DEF SaveWrite, Release, Held, session
<1>2. /\ admin \in [pc : {"lock", "open", "write", "build"}, dir : Dir, content : Content]
      /\ d \in dirs /\ d \in Dir /\ text \in Content
  BY <1>0, <1>1 DEF AdminInv
<1>3. /\ admin' \in [pc : {"lock", "open", "write", "build"}, dir : Dir, content : Content]
      /\ admin'.pc = "build" /\ admin'.dir = d
  BY <1>1, <1>2
<1>4. /\ config' \in [Dir -> [0 .. MaxChanges -> Files]]
      /\ config'[d][gen[d]] = text
      /\ \A e \in Dir, g \in 0 .. MaxChanges :
           ~(e = d /\ g = gen[d]) => config'[e][g] = config[e][g]
  <2>1. text \in Files
    BY <1>2 DEF Files
  <2> QED
    BY <1>0, <1>1, <1>2, <2>1, ConfigSet
<1>5. /\ had' \in [Lister -> [Dir -> SUBSET Content]]
      /\ \A l \in Lister : /\ pc[l] # "idle" => text \in had'[l][d]
                           /\ \A e \in Dir : had[l][e] \subseteq had'[l][e]
  BY <1>0, <1>1, <1>2, SaidNotes
<1>6. text # "none" /\ text # "empty"
  BY <1>2 DEF Content
<1> HIDE DEF d, text
<1>7. \A e \in Dir : gen[e] \in 0 .. MaxChanges /\ gen[e] \in Nat
  BY <1>0, MaxChangesAssumption DEF CatalogType
<1>8. CatalogType'
  BY <1>0, <1>1, <1>4, <1>5 DEF CatalogType
<1>9. AdminInv'
  BY <1>1, <1>2, <1>3 DEF AdminInv
<1>10. ConfigInv'
  <2>1. ASSUME NEW e \in Dir, NEW g \in 0 .. MaxChanges
        PROVE  /\ g > gen[e] \/ (g = gen[e] /\ e \notin dirs) => config'[e][g] = "none"
               /\ config'[e][g] # "empty"
    <3>1. CASE e = d /\ g = gen[d]
      BY <1>2, <1>4, <1>6, <1>7, <3>1
    <3>2. CASE ~(e = d /\ g = gen[d])
      BY <1>0, <1>4, <3>2 DEF ConfigInv, d
    <3> QED
      BY <3>1, <3>2
  <2> QED
    BY <1>1, <2>1 DEF ConfigInv
<1>11. LockInv'
  <2>1. \A l \in Lister : Named(l)' = Named(l)
    BY <1>1 DEF Named
  <2>2. \A k \in locks' : k \in locks /\ k.by # Administrator
    BY <1>1
  <2> QED
    BY <1>0, <1>1, <1>3, <2>1, <2>2 DEF LockInv
<1>12. ASSUME NEW l \in Lister PROVE ListInv(l)'
  <2>1. ASSUME NEW e \in Dir, NEW g \in 0 .. MaxChanges
        PROVE  \/ config'[e][g] = config[e][g]
               \/ /\ config'[e][g] # "none"
                  /\ (pc[l] # "idle" /\ config'[e][g] \in Content) => config'[e][g] \in had'[l][e]
    BY <1>4, <1>5, <1>6
  <2>2. ASSUME pc[l] # "idle", NEW e \in dirs', config'[e][gen[e]] \in Content
        PROVE  config'[e][gen[e]] \in had'[l][e]
    <3>1. e \in Dir /\ e \in dirs
      BY <1>0, <1>1 DEF CatalogType
    <3>2. CASE config'[e][gen[e]] = config[e][gen[e]]
      BY <1>5, <2>2, <3>1, <3>2 DEF CatalogInv, ListInv, Config
    <3> QED
      BY <1>7, <2>1, <2>2, <3>1, <3>2
  <2>3. /\ \A e \in Dir : gen'[e] \in Nat /\ gen[e] <= gen'[e] /\ had[l][e] \subseteq had'[l][e]
        /\ dirs' \subseteq Dir /\ UNCHANGED <<pc, names, tgroup, reply>>
        /\ \A k \in locks : k.by = l => k \in locks'
    BY <1>0, <1>1, <1>5, <1>7, NamesAssumption DEF CatalogType, Administrator
  <2>4. pc[l] # "idle" =>
          \A e \in dirs' : config'[e][gen'[e]] \in Content => config'[e][gen'[e]] \in had'[l][e]
    BY <1>1, <2>2
  <2> QED
    BY <2>1, <2>3, <2>4, ListDisk
<1> QED
  BY <1>8, <1>9, <1>10, <1>11, <1>12 DEF CatalogInv

LEMMA NewInfoStep ==
  ASSUME CatalogInv, NewInfo
  PROVE  CatalogInv'
<1>0. CatalogType /\ AdminInv /\ ConfigInv /\ LockInv
  BY DEF CatalogInv
<1>1. /\ UNCHANGED <<dirs, gen, config, locks, changes, pc, names, tgroup, reply, had>>
      /\ admin.pc = "build" /\ admin' = [pc |-> "idle"]
      /\ info' = info \cup {admin.dir}
  BY DEF NewInfo, session, history
<1>2. admin.dir \in dirs
  BY <1>0, <1>1 DEF AdminInv
<1>3. CatalogType' /\ AdminInv' /\ ConfigInv'
  BY <1>0, <1>1, <1>2 DEF CatalogType, AdminInv, ConfigInv
<1>4. LockInv'
  <2>1. \A d \in Dir : gen'[d] \in Nat /\ gen[d] <= gen'[d]
    BY <1>0, <1>1 DEF CatalogType
  <2> QED
    BY <1>1, <2>1, LocksSame
<1>5. ASSUME NEW l \in Lister PROVE ListInv(l)'
  BY <1>1, ListSame
<1> QED
  BY <1>3, <1>4, <1>5 DEF CatalogInv

LEMMA MakeByHandStep ==
  ASSUME CatalogInv, NEW d \in Dir, NEW content \in Content, MakeByHand(d, content)
  PROVE  CatalogInv'
<1>0. CatalogType /\ AdminInv /\ ConfigInv /\ LockInv
  BY DEF CatalogInv
<1>1. /\ UNCHANGED <<gen, info, locks, admin, pc, names, tgroup, reply>>
      /\ admin.pc = "idle" /\ changes < MaxChanges /\ changes' = changes + 1
      /\ dirs' = dirs \cup {d} \cup Within[d]
      /\ config' = [config EXCEPT ![d][gen[d]] = content]
      /\ had' = Said(d, content)
  BY DEF MakeByHand, session
<1>2. dirs \subseteq dirs' /\ dirs' \subseteq Dir /\ d \in dirs'
  BY <1>0, <1>1, WithinAssumption DEF CatalogType
<1>3. /\ changes' \in 0 .. MaxChanges
      /\ \A e \in Dir : gen[e] \in 0 .. MaxChanges /\ gen[e] \in Nat /\ gen[e] <= changes'
  BY <1>0, <1>1, MaxChangesAssumption DEF CatalogType
<1>4. /\ config' \in [Dir -> [0 .. MaxChanges -> Files]]
      /\ config'[d][gen[d]] = content
      /\ \A e \in Dir, g \in 0 .. MaxChanges :
           ~(e = d /\ g = gen[d]) => config'[e][g] = config[e][g]
  <2>1. content \in Files
    BY DEF Files
  <2> QED
    BY <1>0, <1>1, <2>1, ConfigSet
<1>5. /\ had' \in [Lister -> [Dir -> SUBSET Content]]
      /\ \A l \in Lister : /\ pc[l] # "idle" => content \in had'[l][d]
                           /\ \A e \in Dir : had[l][e] \subseteq had'[l][e]
  BY <1>0, <1>1, SaidNotes
<1>6. content # "none" /\ content # "empty"
  BY DEF Content
<1>7. CatalogType'
  BY <1>0, <1>1, <1>2, <1>3, <1>4, <1>5 DEF CatalogType
<1>8. AdminInv'
  BY <1>0, <1>1, <1>2 DEF AdminInv
<1>9. ConfigInv'
  <2>1. ASSUME NEW e \in Dir, NEW g \in 0 .. MaxChanges
        PROVE  /\ g > gen[e] \/ (g = gen[e] /\ e \notin dirs') => config'[e][g] = "none"
               /\ config'[e][g] # "empty"
    <3>1. CASE e = d /\ g = gen[d]
      BY <1>2, <1>3, <1>4, <1>6, <3>1
    <3>2. CASE ~(e = d /\ g = gen[d])
      BY <1>0, <1>1, <1>2, <1>4, <3>2 DEF ConfigInv
    <3> QED
      BY <3>1, <3>2
  <2> QED
    BY <1>1, <2>1 DEF ConfigInv
<1>10. LockInv'
  BY <1>1, <1>3, LocksSame
<1>11. ASSUME NEW l \in Lister PROVE ListInv(l)'
  <2>1. ASSUME NEW e \in Dir, NEW g \in 0 .. MaxChanges
        PROVE  \/ config'[e][g] = config[e][g]
               \/ /\ config'[e][g] # "none"
                  /\ (pc[l] # "idle" /\ config'[e][g] \in Content) => config'[e][g] \in had'[l][e]
    BY <1>4, <1>5, <1>6
  <2>2. ASSUME pc[l] # "idle", NEW e \in dirs', config'[e][gen[e]] \in Content
        PROVE  config'[e][gen[e]] \in had'[l][e]
    <3>1. e \in Dir
      BY <1>2
    <3>2. CASE config'[e][gen[e]] = config[e][gen[e]]
      <4>1. e \in dirs
        BY <1>0, <1>3, <2>2, <3>1, <3>2 DEF ConfigInv, Content
      <4> QED
        BY <1>5, <2>2, <3>1, <3>2, <4>1 DEF CatalogInv, ListInv, Config
    <3> QED
      BY <1>3, <2>1, <2>2, <3>1, <3>2
  <2>3. /\ \A e \in Dir : gen'[e] \in Nat /\ gen[e] <= gen'[e] /\ had[l][e] \subseteq had'[l][e]
        /\ dirs' \subseteq Dir /\ UNCHANGED <<pc, names, tgroup, reply>>
        /\ \A k \in locks : k.by = l => k \in locks'
    BY <1>1, <1>2, <1>3, <1>5
  <2>4. pc[l] # "idle" =>
          \A e \in dirs' : config'[e][gen'[e]] \in Content => config'[e][gen'[e]] \in had'[l][e]
    BY <1>1, <2>2
  <2> QED
    BY <2>1, <2>3, <2>4, ListDisk
<1> QED
  BY <1>7, <1>8, <1>9, <1>10, <1>11 DEF CatalogInv

\* rm -rf: the next directory of that name has another number.
LEMMA RemoveGroupStep ==
  ASSUME CatalogInv, NEW d \in Dir, RemoveGroup(d)
  PROVE  CatalogInv'
<1>0. CatalogType /\ AdminInv /\ ConfigInv /\ LockInv
  BY DEF CatalogInv
<1>1. /\ UNCHANGED <<config, locks, admin, pc, names, tgroup, reply, had>>
      /\ admin.pc = "idle" /\ changes < MaxChanges /\ changes' = changes + 1
      /\ dirs' = dirs \ Below(d) /\ info' = info \ Below(d)
      /\ gen' = [e \in Dir |-> IF e \in Below(d) /\ e \in dirs THEN gen[e] + 1 ELSE gen[e]]
  BY DEF RemoveGroup, session
<1>2. changes' \in 0 .. MaxChanges
  BY <1>0, <1>1, MaxChangesAssumption DEF CatalogType
<1>3. ASSUME NEW e \in Dir
      PROVE  /\ gen[e] \in Nat /\ gen'[e] \in 0 .. MaxChanges /\ gen'[e] \in Nat
             /\ gen[e] <= gen'[e] /\ gen'[e] <= changes'
             /\ gen'[e] = gen[e] \/ (gen'[e] = gen[e] + 1 /\ e \notin dirs')
             /\ e \notin dirs' => e \notin dirs \/ gen'[e] = gen[e] + 1
  BY <1>0, <1>1, MaxChangesAssumption DEF CatalogType
<1>4. CatalogType'
  <2>1. gen' \in [Dir -> 0 .. MaxChanges]
    BY <1>1, <1>3
  <2> QED
    BY <1>0, <1>1, <1>2, <1>3, <2>1 DEF CatalogType
<1>5. AdminInv'
  BY <1>0, <1>1 DEF AdminInv
<1>6. ConfigInv'
  <2>1. ASSUME NEW e \in Dir, NEW g \in 0 .. MaxChanges
        PROVE  /\ g > gen'[e] \/ (g = gen'[e] /\ e \notin dirs') => config[e][g] = "none"
               /\ config[e][g] # "empty"
    <3>1. g > gen'[e] \/ (g = gen'[e] /\ e \notin dirs') => g > gen[e] \/ (g = gen[e] /\ e \notin dirs)
      BY <1>3, MaxChangesAssumption
    <3> QED
      BY <1>0, <1>1, <3>1 DEF ConfigInv
  <2> QED
    BY <1>1, <2>1 DEF ConfigInv
<1>7. LockInv'
  BY <1>1, <1>3, LocksSame
<1>8. ASSUME NEW l \in Lister PROVE ListInv(l)'
  <2>1. ASSUME pc[l] # "idle", NEW e \in dirs', config[e][gen'[e]] \in Content
        PROVE  config[e][gen'[e]] \in had[l][e]
    <3>1. e \in Dir /\ e \in dirs /\ gen'[e] = gen[e]
      BY <1>0, <1>1, <1>3 DEF CatalogType
    <3> QED
      BY <2>1, <3>1 DEF CatalogInv, ListInv, Config
  <2>2. /\ \A e \in Dir : gen'[e] \in Nat /\ gen[e] <= gen'[e] /\ had[l][e] \subseteq had'[l][e]
        /\ dirs' \subseteq Dir /\ UNCHANGED <<pc, names, tgroup, reply>>
        /\ \A k \in locks : k.by = l => k \in locks'
    BY <1>1, <1>3, <1>4 DEF CatalogType
  <2>3. pc[l] # "idle" =>
          \A e \in dirs' : config'[e][gen'[e]] \in Content => config'[e][gen'[e]] \in had'[l][e]
    BY <1>1, <2>1
  <2>4. \A e \in Dir, g \in 0 .. MaxChanges : config'[e][g] = config[e][g]
    BY <1>1
  <2> QED
    BY <2>2, <2>3, <2>4, ListDisk
<1> QED
  BY <1>4, <1>5, <1>6, <1>7, <1>8 DEF CatalogInv

-----------------------------------------------------------------------------
(* The theorems.                                                           *)

LEMMA CatalogNext == CatalogInv /\ [Next]_vars => CatalogInv'
<1> SUFFICES ASSUME CatalogInv, [Next]_vars PROVE CatalogInv'
  OBVIOUS
<1>1. CASE UNCHANGED vars
  <2>1. UNCHANGED <<dirs, gen, config, info, locks, admin, changes, pc, names, tgroup, reply, had>>
    BY <1>1 DEF vars, disk, administration, session, history
  <2>2. CatalogType' /\ AdminInv' /\ ConfigInv'
    BY <2>1 DEF CatalogInv, CatalogType, AdminInv, ConfigInv
  <2>3. \A l \in Lister : Named(l)' = Named(l)
    BY <2>1 DEF Named
  <2>4. LockInv'
    BY <2>1, <2>3 DEF CatalogInv, LockInv
  <2>5. \A l \in Lister : ListInv(l)'
    BY <2>1, ListSame
  <2> QED
    BY <2>2, <2>4, <2>5 DEF CatalogInv
<1>2. CASE Administer
  <2>1. CASE \E d \in Dir, content \in Content : NewGroup(d, content) \/ MakeByHand(d, content)
    BY <2>1, NewGroupStep, MakeByHandStep
  <2>2. CASE \E d \in Dir : RemoveGroup(d)
    BY <2>2, RemoveGroupStep
  <2>3. CASE Save
    BY <2>3, SaveLockStep, SaveOpenStep, SaveWriteStep, NewInfoStep DEF Save
  <2> QED
    BY <1>2, <2>1, <2>2, <2>3 DEF Administer
<1>3. ASSUME NEW l \in Lister, List(l) PROVE CatalogInv'
  <2>1. CASE \/ \E e \in Dir \X (0 .. MaxChanges) : ReadEntry(l, e)
             \/ EndDir(l) \/ EndList(l)
    BY <2>1, WalkStep
  <2>2. CASE BeginList(l) \/ Again(l)
    BY <2>2, BeginListStep, AgainStep
  <2>3. CASE LoadOpen(l) \/ LockFails(l) \/ LoadInfo(l) \/ BuildInfo(l)
    BY <2>3, LoadOpenStep, SkipStep, LoadInfoStep
  <2>4. CASE ConfigOpen(l) \/ ConfigLock(l) \/ ConfigRead(l) \/ Reply(l)
    BY <2>4, ConfigOpenStep, ConfigLockStep, ConfigReadStep, ReplyStep
  <2> QED
    BY <1>3, <2>1, <2>2, <2>3, <2>4 DEF List
<1> QED
  BY <1>1, <1>2, <1>3 DEF Next

LEMMA CatalogInvariant == Spec => []CatalogInv
BY CatalogInit, CatalogNext, PTL DEF Spec

\* Every variable of the list of groups keeps its type, and a lock is held only
\* by a session in LoadConfig or by the administrator in SaveConfig.
THEOREM CatalogTypeCorrect == Spec => []TypeOK
<1>1. CatalogInv => TypeOK
  <2> SUFFICES ASSUME CatalogInv PROVE TypeOK
    OBVIOUS
  <2>1. CatalogType /\ LockInv
    BY DEF CatalogInv
  <2>2. \A l \in Lister : names[l] \in Seq(Dir)
    BY <2>1 DEF CatalogType
  <2>3. ASSUME NEW k \in locks
        PROVE  IF k.by = Administrator THEN admin.pc \in {"open", "write"} /\ k.kind = "EX"
                                       ELSE pc[k.by] = "read" /\ k.kind = "SH"
    BY <2>1, NamesAssumption DEF LockInv, LockOf, Administrator
  <2> QED
    BY <2>1, <2>2, <2>3 DEF TypeOK, CatalogType, Places
<1> QED
  BY <1>1, CatalogInvariant, PTL

\* A line of LIST says what the group's own .config said while the list was
\* made: the session reads the file under the lock that SaveConfig writes it
\* under, and from the directory that it found.
THEOREM LinesAreTrue == Spec => []LinesTrue
<1>1. CatalogInv => LinesTrue
  BY DEF CatalogInv, ListInv, LinesTrue
<1> QED
  BY <1>1, CatalogInvariant, PTL

-----------------------------------------------------------------------------
(* The tree.                                                               *)

\* e is an entry of d; the way to d leads through the directories above it.
EntryOf(e, d) ==
  IF d = "/" THEN Within[e] = {} ELSE d \in Within[e] /\ Within[e] \subseteq Within[d] \cup {d}
Way(d) == Within[d] \cup {d}
Above(d) == Within[d] \cup {"/"}

\* What a directory is in is a directory, and is in no more than it.
LEMMA Inside ==
  ASSUME NEW d \in Dir, NEW e \in Within[d]
  PROVE  /\ e \in Dir /\ e # d /\ e # "/" /\ d \notin Within[e] /\ e \notin Within[e]
         /\ Within[e] \subseteq Within[d]
BY WithinAssumption, NamesAssumption

\* Of two directories that one is in, one is in the other.
LEMMA Nested ==
  ASSUME NEW d \in Dir, NEW e \in Way(d), NEW f \in Way(d), e # f
  PROVE  e \in Within[f] \/ f \in Within[e]
<1>1. CASE e \in Within[d] /\ f \in Within[d]
  <2> DEFINE S == {e, f}
  <2>1. S \in SUBSET Within[d] /\ S # {}
    BY <1>1
  <2>2. \E o \in S : \A g \in S \ {o} : o \in Within[g]
    BY <2>1, TreeAssumption, Zenon
  <2> QED
    BY <2>2
<1> QED
  BY <1>1 DEF Way

\* The way leads through one entry of each directory on it.
LEMMA OneEntry ==
  ASSUME NEW d \in Dir, NEW x, NEW y \in Way(d), NEW z \in Way(d), EntryOf(y, x), EntryOf(z, x)
  PROVE  y = z
<1>1. ASSUME NEW e \in Way(d), NEW f \in Way(d), EntryOf(e, x), EntryOf(f, x), e \in Within[f]
      PROVE  FALSE
  <2>1. x # "/" /\ x \in Within[e] /\ x \in Within[f] /\ Within[f] \subseteq Within[x] \cup {x}
    BY <1>1 DEF EntryOf
  <2>2. f \in Dir /\ e \in Dir
    BY Inside DEF Way
  <2>3. x \in Dir /\ e \notin Within[x] /\ e # x
    BY <2>1, <2>2, Inside
  <2> QED
    BY <1>1, <2>1, <2>3
<1> QED
  BY <1>1, Nested

\* The root and each directory above d has an entry that leads to d.
LEMMA SomeEntry ==
  ASSUME NEW d \in Dir, NEW x \in Above(d)
  PROVE  \E y \in Way(d) : EntryOf(y, x)
<1> DEFINE T == {z \in Way(d) : x = "/" \/ x \in Within[z]}
<1>1. PICK y \in T : \A z \in T \ {y} : y \in Within[z]
  <2>1. d \in T
    BY DEF Way, Above
  <2>2. CASE T \ {d} = {}
    BY <2>1, <2>2
  <2>3. CASE T \ {d} # {}
    <3>1. T \ {d} \in SUBSET Within[d]
      BY DEF Way
    <3>2. PICK y \in T \ {d} : \A z \in (T \ {d}) \ {y} : y \in Within[z]
      BY <2>3, <3>1, TreeAssumption
    <3>3. y \in Within[d]
      BY <3>1, <3>2
    <3> HIDE DEF T
    <3> QED
      BY <3>2, <3>3
  <2> QED
    BY <2>2, <2>3
<1>2. y \in Dir /\ y \in Way(d)
  BY Inside DEF Way
<1>3. ASSUME NEW z \in Within[y]
      PROVE  z \in Way(d) /\ y \notin Within[z]
  BY <1>2, Inside DEF Way
<1>4. ASSUME NEW z \in Within[y], x = "/" \/ x \in Within[z]
      PROVE  FALSE
  <2>1. z \in T /\ z # y
    BY <1>2, <1>3, <1>4, Inside
  <2> QED
    BY <1>1, <1>3, <2>1
<1>5. CASE x = "/"
  BY <1>2, <1>4, <1>5 DEF EntryOf
<1>6. CASE x # "/"
  <2>1. x \in Within[y]
    BY <1>6
  <2>2. ASSUME NEW z \in Within[y], z # x
        PROVE  z \in Within[x]
    BY <1>2, <1>4, <2>1, <2>2, Nested DEF Way
  <2> QED
    BY <1>2, <1>6, <2>1, <2>2 DEF EntryOf
<1> QED
  BY <1>5, <1>6

-----------------------------------------------------------------------------
(* Names that come once in a list.                                         *)

Never(s, d) == \A i \in DOMAIN s : s[i] # d
Once(s, d) == \E i \in DOMAIN s : \A j \in DOMAIN s : s[j] = d <=> j = i

\* A name is added to a list.
LEMMA AppendNames ==
  ASSUME NEW s \in Seq(Dir), NEW e \in Dir, NEW d \in Dir
  PROVE  /\ Never(s, d) /\ e # d => Never(Append(s, e), d)
         /\ Never(s, d) /\ e = d => Once(Append(s, e), d)
         /\ Once(s, d) /\ e # d => Once(Append(s, e), d)
<1> DEFINE t == Append(s, e)
           n == Len(s)
<1>1. /\ n \in Nat /\ DOMAIN s = 1 .. n /\ DOMAIN t = 1 .. n + 1
      /\ \A i \in 1 .. n : t[i] = s[i]
      /\ t[n + 1] = e
  <2>1. t \in Seq(Dir) /\ Len(t) = n + 1
    BY AppendProperties
  <2> QED
    BY <2>1, AppendProperties, LenProperties
<1> HIDE DEF t, n
<1>2. \A i \in DOMAIN t : i \in DOMAIN s \/ i = n + 1
  BY <1>1
<1>3. n + 1 \notin DOMAIN s /\ \A i \in DOMAIN s : i \in DOMAIN t /\ t[i] = s[i]
  BY <1>1
<1>4. Never(s, d) /\ e # d => Never(t, d)
  BY <1>1, <1>2, <1>3 DEF Never
<1>5. Never(s, d) /\ e = d => Once(t, d)
  BY <1>1, <1>2, <1>3 DEF Never, Once
<1>6. Once(s, d) /\ e # d => Once(t, d)
  BY <1>1, <1>2, <1>3 DEF Once
<1> QED
  BY <1>4, <1>5, <1>6 DEF t

\* The first name of a list is taken off.
LEMMA TailNames ==
  ASSUME NEW s \in Seq(Dir), s # << >>, NEW d \in Dir
  PROVE  /\ Never(s, d) => Never(Tail(s), d) /\ Head(s) # d
         /\ Once(s, d) /\ Head(s) = d => Never(Tail(s), d)
         /\ Once(s, d) /\ Head(s) # d => Once(Tail(s), d)
<1> DEFINE t == Tail(s)
           n == Len(t)
<1>1. /\ n \in Nat /\ DOMAIN t = 1 .. n /\ DOMAIN s = 1 .. n + 1
      /\ \A i \in 1 .. n : t[i] = s[i + 1]
      /\ Head(s) = s[1]
  BY HeadTailProperties, LenProperties
<1> HIDE DEF t, n
<1>2. 1 \in DOMAIN s /\ \A i \in DOMAIN t : i + 1 \in DOMAIN s /\ i + 1 # 1
  BY <1>1
<1>3. Never(s, d) => Never(t, d) /\ Head(s) # d
  BY <1>1, <1>2 DEF Never
<1>4. ASSUME NEW k \in DOMAIN s, \A j \in DOMAIN s : s[j] = d <=> j = k
      PROVE  IF Head(s) = d THEN Never(t, d) ELSE Once(t, d)
  <2>1. CASE Head(s) = d
    BY <1>1, <1>2, <1>4, <2>1 DEF Never
  <2>2. CASE Head(s) # d
    <3>1. k - 1 \in DOMAIN t /\ k \in Int
      BY <1>1, <1>2, <1>4, <2>2
    <3>2. \A j \in DOMAIN t : t[j] = d <=> j = k - 1
      BY <1>1, <1>2, <1>4, <3>1
    <3> QED
      BY <2>2, <3>1, <3>2 DEF Once
  <2> QED
    BY <2>1, <2>2
<1> QED
  BY <1>3, <1>4 DEF Once, t

-----------------------------------------------------------------------------
(* The stack of open directories.                                          *)

Level == [of : (Dir \cup {"/"}) \X (0 .. MaxChanges),
          left : SUBSET (Dir \X (0 .. MaxChanges)), seen : SUBSET (Dir \X (0 .. MaxChanges))]
OnWay(level, d) == {e \in level.left \cup level.seen : e[1] \in Way(d)}
Ahead(level, e) == e \in level.left /\ e \notin level.seen
Past(level, e) == e \in level.seen /\ e \notin level.left

\* The way to d goes on through y, the only entry of its directory on the way.
Guides(level, d, y) == EntryOf(y, level.of[1]) /\ OnWay(level, d) = {Inode(y)}
\* The directory is not on the way.
Beside(level, d) == level.of[1] \notin Above(d) /\ OnWay(level, d) = {}

\* The first k directories of the stack lead to d: the way through the first
\* k - 1 was taken; the way through the k-th is still to take, or was taken and
\* has led to d.
WalkingTo(s, ns, d, k) ==
  /\ \A i \in 1 .. k - 1 : \E y \in Way(d) : Guides(s[i], d, y) /\ Past(s[i], Inode(y))
  /\ \E y \in Way(d) :
       /\ Guides(s[k], d, y)
       /\ \/ Ahead(s[k], Inode(y)) /\ Never(ns, d)
          \/ Past(s[k], Inode(y)) /\ Once(ns, d)
  /\ \A i \in k + 1 .. Len(s) : Beside(s[i], d)

\* The innermost directory, and those below it.
LEMMA StackTop ==
  ASSUME NEW s \in Seq(Level), s # << >>
  PROVE  /\ Len(s) \in Nat /\ Len(s) >= 1 /\ DOMAIN s = 1 .. Len(s)
         /\ Last(s) = s[Len(s)] /\ Last(s) \in Level
         /\ Front(s) \in Seq(Level) /\ Len(Front(s)) = Len(s) - 1
         /\ \A i \in 1 .. Len(s) - 1 : Front(s)[i] = s[i]
<1>1. Len(s) \in Nat /\ Len(s) >= 1 /\ DOMAIN s = 1 .. Len(s)
  BY EmptySeq, LenProperties
<1>2. Last(s) = s[Len(s)] /\ Last(s) \in Level
  BY <1>1, ElementOfSeq DEF Last
<1>3. Front(s) = SubSeq(s, 1, Len(s) - 1)
  BY DEF Front
<1> QED
  BY <1>1, <1>2, <1>3, SubSeqProperties

\* The innermost directory is replaced, and another one put on it.
LEMMA StackPush ==
  ASSUME NEW s \in Seq(Level), s # << >>, NEW v \in Level, NEW u \in Level
  PROVE  LET r == Append(Front(s), v)
             n == Len(s) IN
         /\ r \in Seq(Level) /\ Len(r) = n
         /\ r[n] = v /\ \A i \in 1 .. n - 1 : r[i] = s[i]
         /\ r \o <<u>> \in Seq(Level) /\ Len(r \o <<u>>) = n + 1
         /\ (r \o <<u>>)[n + 1] = u /\ \A i \in 1 .. n : (r \o <<u>>)[i] = r[i]
         /\ r \o << >> = r
<1> DEFINE r == Append(Front(s), v)
           n == Len(s)
<1>1. n \in Nat /\ n >= 1 /\ Front(s) \in Seq(Level) /\ Len(Front(s)) = n - 1
      /\ \A i \in 1 .. n - 1 : Front(s)[i] = s[i]
  BY StackTop
<1>2. /\ r \in Seq(Level) /\ Len(r) = n
      /\ r[n] = v /\ \A i \in 1 .. n - 1 : r[i] = s[i]
  BY <1>1, AppendProperties
<1> HIDE DEF r, n
<1>3. r \o <<u>> = Append(r, u)
  BY <1>2, AppendIsConcat
<1>4. /\ Append(r, u) \in Seq(Level) /\ Len(Append(r, u)) = n + 1
      /\ Append(r, u)[n + 1] = u /\ \A i \in 1 .. n : Append(r, u)[i] = r[i]
  BY <1>1, <1>2, AppendProperties
<1>5. r \o << >> = r
  BY <1>2, ConcatEmptySeq
<1> QED
  BY <1>2, <1>3, <1>4, <1>5 DEF r, n

\* A directory that is just opened has all of its entries ahead.
LEMMA OpenLevel ==
  ASSUME CatalogType, NEW x \in Dir \cup {"/"}
  PROVE  Open(x) \in Level /\ Open(x).of[1] = x /\ Open(x).seen = {}
         /\ Open(x).left = {Inode(e) : e \in Entries(x)}
<1>1. \A e \in Dir \cup {"/"} : Inode(e) \in (Dir \cup {"/"}) \X (0 .. MaxChanges) /\ Inode(e)[1] = e
  <2>1. 0 \in 0 .. MaxChanges /\ \A e \in Dir : gen[e] \in 0 .. MaxChanges
    BY MaxChangesAssumption DEF CatalogType
  <2> QED
    BY <2>1 DEF Inode
<1>2. Entries(x) \subseteq Dir
  BY DEF Entries, CatalogType
<1>3. {Inode(e) : e \in Entries(x)} \in SUBSET (Dir \X (0 .. MaxChanges))
  <2>1. \A e \in Dir : Inode(e) \in Dir \X (0 .. MaxChanges)
    BY NamesAssumption DEF Inode, CatalogType
  <2> QED
    BY <1>2, <2>1
<1> QED
  BY <1>1, <1>3 DEF Open, Level

DirsClosed == \A d \in dirs : Within[d] \subseteq dirs

\* A directory above d, just opened, has the entry that leads on to d ahead.
LEMMA OpenAbove ==
  ASSUME CatalogType, DirsClosed, NEW d \in dirs, NEW x \in Above(d)
  PROVE  \E y \in Way(d) : Guides(Open(x), d, y) /\ Ahead(Open(x), Inode(y))
<1>1. d \in Dir /\ Way(d) \subseteq dirs /\ x \in Dir \cup {"/"}
  BY Inside DEF CatalogType, DirsClosed, Way, Above
<1>2. PICK y \in Way(d) : EntryOf(y, x)
  BY <1>1, SomeEntry
<1>3. /\ Open(x).of[1] = x /\ Open(x).seen = {}
      /\ Open(x).left = {Inode(e) : e \in Entries(x)}
  BY <1>1, OpenLevel
<1>4. \A e : e \in Entries(x) <=> e \in dirs /\ EntryOf(e, x)
  BY DEF Entries, EntryOf
<1>5. \A e : Inode(e)[1] = e
  BY DEF Inode
<1>6. OnWay(Open(x), d) = {Inode(y)}
  <2>1. ASSUME NEW e \in OnWay(Open(x), d)
        PROVE  e = Inode(y)
    <3>1. PICK z \in Entries(x) : e = Inode(z)
      BY <1>3, <2>1 DEF OnWay
    <3>2. z \in Way(d)
      BY <1>5, <3>1 DEF OnWay
    <3> QED
      BY <1>1, <1>2, <1>4, <3>1, <3>2, OneEntry
  <2>2. Inode(y) \in OnWay(Open(x), d)
    BY <1>1, <1>2, <1>3, <1>4, <1>5 DEF OnWay
  <2> QED
    BY <2>1, <2>2
<1> QED
  BY <1>1, <1>2, <1>3, <1>4, <1>6 DEF Guides, Ahead

\* One that is not above d has nothing on the way.
LEMMA OpenBeside ==
  ASSUME CatalogType, NEW d \in Dir, NEW x \in Dir, x \notin Within[d]
  PROVE  Beside(Open(x), d)
<1>1. x # "/"
  BY NamesAssumption
<1>2. Open(x).of[1] = x /\ Open(x).seen = {} /\ Open(x).left = {Inode(e) : e \in Entries(x)}
  BY OpenLevel
<1>3. \A e \in Entries(x) : x \in Within[e] /\ Inode(e)[1] = e
  BY <1>1 DEF Entries, Inode
<1>4. \A e \in Way(d) : x \notin Within[e]
  BY Inside DEF Way
<1> QED
  BY <1>1, <1>2, <1>3, <1>4 DEF Beside, OnWay, Above

-----------------------------------------------------------------------------
(* What LIST names.                                                        *)

Walking(l, d) == \E k \in 1 .. Len(walk[l]) : WalkingTo(walk[l], names[l], d, k)

\* After the walk the name is still to load, or in the reply.
Sent(l) == [i \in DOMAIN reply[l] |-> reply[l][i].name]
Answering(l, d) ==
  \/ Once(names[l], d) /\ Never(Sent(l), d)
  \/ Never(names[l], d) /\ Once(Sent(l), d)

Listed(l) ==
  /\ pc[l] = "idle" => stable[l] = {}
  /\ pc[l] \in {"idle", "done"} => names[l] = << >>
  /\ pc[l] \in {"idle", "walk"} => reply[l] = << >>
  /\ \A d \in stable[l] :
       /\ Listable(d)
       /\ pc[l] = "walk" => Walking(l, d)
       /\ pc[l] \notin {"idle", "walk"} => Answering(l, d)

\* The file that is being saved is there.
SavingInv == admin.pc = "write" => IsValidGroup(admin.dir)

ListedInv ==
  /\ CatalogInv
  /\ walk \in [Lister -> Seq(Level)]
  /\ stable \in [Lister -> SUBSET Dir]
  /\ DirsClosed /\ SavingInv
  /\ \A l \in Lister : Listed(l)

\* What a session listed stays right when nothing happens on the way to what is
\* stable.
LEMMA ListedSame ==
  ASSUME ListedInv, NEW l \in Lister,
         pc'[l] = pc[l], names'[l] = names[l], walk'[l] = walk[l], reply'[l] = reply[l],
         stable'[l] \subseteq stable[l],
         \A d \in stable'[l] : Listable(d)' /\ \A y \in Way(d) : gen'[y] = gen[y]
  PROVE  Listed(l)'
<1>0. Listed(l)
  BY DEF ListedInv
<1>1. ASSUME NEW d \in stable'[l], Walking(l, d)
      PROVE  Walking(l, d)'
  <2>1. \A y \in Way(d) : Inode(y)' = Inode(y)
    BY DEF Inode
  <2>2. PICK k \in 1 .. Len(walk[l]) : WalkingTo(walk[l], names[l], d, k)
    BY <1>1 DEF Walking
  <2> DEFINE s == walk[l]
             ns == names[l]
  <2>3. \A level, y : y \in Way(d) /\ Guides(level, d, y) => Guides(level, d, y)'
    BY <2>1 DEF Guides
  <2>4. WalkingTo(s, ns, d, k)'
    BY <2>1, <2>2, <2>3 DEF WalkingTo
  <2> QED
    BY <2>2, <2>4 DEF Walking
<1>2. \A d : Answering(l, d) => Answering(l, d)'
  BY DEF Answering, Sent
<1> QED
  BY <1>0, <1>1, <1>2 DEF Listed

\* A step of one session.
Only(l) ==
  /\ UNCHANGED <<dirs, gen, config, admin, NoRecurseMsgDir>>
  /\ \A k \in Lister \ {l} : /\ pc'[k] = pc[k] /\ names'[k] = names[k] /\ walk'[k] = walk[k]
                             /\ reply'[k] = reply[k] /\ stable'[k] = stable[k]

\* A group stays listable while the directories and their .config stay.
LEMMA ListableSame ==
  ASSUME UNCHANGED <<dirs, gen, config, NoRecurseMsgDir>>
  PROVE  \A d : Listable(d)' = Listable(d)
BY DEF Listable, IsValidGroup, Config

\* A step of one session leaves the lists of the others alone.
LEMMA OnlyStep ==
  ASSUME ListedInv, CatalogInv', NEW l \in Lister, Only(l),
         walk' \in [Lister -> Seq(Level)], stable' \in [Lister -> SUBSET Dir], Listed(l)'
  PROVE  ListedInv'
<1>1. DirsClosed' /\ SavingInv'
  BY DEF ListedInv, DirsClosed, SavingInv, IsValidGroup, Config, Only
<1>2. ASSUME NEW k \in Lister \ {l} PROVE Listed(k)'
  <2>1. \A d \in stable[k] : Listable(d)' /\ \A y \in Way(d) : gen'[y] = gen[y]
    BY ListableSame DEF ListedInv, Listed, Only
  <2> QED
    BY <2>1, ListedSame DEF Only
<1> QED
  BY <1>1, <1>2 DEF ListedInv

\* At first nothing is listed.
LEMMA ListedInit == Init => ListedInv
<1> SUFFICES ASSUME Init PROVE ListedInv
  OBVIOUS
<1>1. CatalogInv
  BY CatalogInit
<1>2. walk \in [Lister -> Seq(Level)] /\ stable \in [Lister -> SUBSET Dir]
  <2>1. << >> \in Seq(Level)
    BY EmptySeq
  <2> QED
    BY <2>1 DEF Init
<1>3. DirsClosed
  <2>1. PICK groups \in SUBSET Dir : dirs = groups \cup UNION {Within[d] : d \in groups}
    BY DEF Init
  <2>2. ASSUME NEW d \in dirs, NEW e \in Within[d]
        PROVE  e \in dirs
    <3>1. PICK g \in groups : d = g \/ d \in Within[g]
      BY <2>1
    <3>2. e \in Within[g]
      BY <2>2, <3>1, Inside
    <3> QED
      BY <2>1, <3>2
  <2> QED
    BY <2>2 DEF DirsClosed
<1>4. SavingInv /\ \A l \in Lister : Listed(l)
  BY DEF Init, Listed, SavingInv
<1> QED
  BY <1>1, <1>2, <1>3, <1>4 DEF ListedInv

-----------------------------------------------------------------------------
(* The administrator.                                                      *)

\* What the administrator changes is not stable, or leaves the walk alone.
LEMMA ListedAdminister ==
  ASSUME ListedInv, CatalogInv', Administer
  PROVE  ListedInv'
<1>0. CatalogType /\ AdminInv /\ ConfigInv
  BY DEF ListedInv, CatalogInv
<1>1. UNCHANGED <<NoRecurseMsgDir, pc, names, walk, reply>>
  BY DEF Administer, Save, NewGroup, MakeByHand, RemoveGroup, SaveLock, SaveOpen, SaveWrite,
         NewInfo, session
<1>2. ASSUME stable' \in [Lister -> SUBSET Dir], DirsClosed', SavingInv',
             \A l \in Lister : stable'[l] \subseteq stable[l],
             \A l \in Lister : \A d \in stable'[l] :
               Listable(d)' /\ \A y \in Way(d) : gen'[y] = gen[y]
      PROVE  ListedInv'
  BY <1>1, <1>2, ListedSame DEF ListedInv
<1>3. /\ stable \in [Lister -> SUBSET Dir] /\ DirsClosed /\ SavingInv
      /\ \A l \in Lister : \A d \in stable[l] : Listable(d)
  BY DEF ListedInv, Listed
<1>4. CASE SaveLock \/ NewInfo
  <2>1. UNCHANGED <<dirs, gen, config, stable>> /\ admin'.pc # "write"
    BY <1>0, <1>4 DEF SaveLock, NewInfo, disk, history, AdminInv
  <2>2. DirsClosed' /\ SavingInv'
    BY <1>3, <2>1 DEF DirsClosed, SavingInv
  <2> QED
    BY <1>1, <1>2, <1>3, <2>1, <2>2, ListableSame
<1>5. ASSUME NEW d \in Dir, NEW content \in Content, NewGroup(d, content)
      PROVE  ListedInv'
  <2>1. dirs' = dirs \cup {d} \cup Within[d] /\ UNCHANGED <<gen, config, stable>>
        /\ admin'.pc = "lock"
    BY <1>5 DEF NewGroup, history
  <2>2. DirsClosed' /\ SavingInv'
    BY <1>3, <2>1, Inside DEF DirsClosed, SavingInv
  <2>3. \A e \in Dir : IsValidGroup(e)' = IsValidGroup(e)
    BY <1>0, <1>3, <2>1 DEF IsValidGroup, Config, ConfigInv, CatalogType
  <2>4. \A e \in Dir : Listable(e)' = Listable(e)
    BY <1>1, <2>3, Inside DEF Listable
  <2> QED
    BY <1>2, <1>3, <2>1, <2>2, <2>4
<1>6. ASSUME NEW d \in Dir, NEW text \in Files, text # "none",
             config' = [config EXCEPT ![d][gen[d]] = text], UNCHANGED gen,
             d \in dirs', dirs \subseteq dirs', \A e \in Dir \ dirs : Config(e) = "none"
      PROVE  \A e \in Dir : IsValidGroup(e)' <=> IsValidGroup(e) \/ e = d
  <2>1. /\ config'[d][gen[d]] = text
        /\ \A e \in Dir, g \in 0 .. MaxChanges : e # d => config'[e][g] = config[e][g]
    BY <1>0, <1>6, ConfigSet
  <2> QED
    BY <1>0, <1>6, <2>1 DEF IsValidGroup, Config, CatalogType
<1>7. \A e \in Dir \ dirs : Config(e) = "none"
  BY <1>0 DEF ConfigInv, CatalogType, Config
<1>8. CASE SaveOpen
  <2> DEFINE d == admin.dir
  <2>1. /\ config' = [config EXCEPT ![d][gen[d]] = "empty"] /\ UNCHANGED <<dirs, gen>>
        /\ stable' = [l \in Lister |-> IF NoRecurseMsgDir THEN stable[l] \ (Below(d) \ {d}) ELSE stable[l]]
        /\ d \in Dir /\ d \in dirs /\ admin'.dir = d
    BY <1>0, <1>8 DEF SaveOpen, AdminInv
  <2>2. \A e \in Dir : IsValidGroup(e)' <=> IsValidGroup(e) \/ e = d
    <3>1. "empty" \in Files /\ "empty" # "none"
      BY DEF Files
    <3> QED
      BY <1>6, <1>7, <2>1, <3>1
  <2>3. stable' \in [Lister -> SUBSET Dir] /\ DirsClosed' /\ SavingInv'
    BY <1>3, <2>1, <2>2 DEF DirsClosed, SavingInv
  <2>4. ASSUME NEW l \in Lister, NEW e \in stable'[l]
        PROVE  e \in stable[l] /\ Listable(e)'
    <3>1. e \in stable[l] /\ e \in Dir /\ Listable(e)
      BY <1>3, <2>1, <2>4
    <3>2. NoRecurseMsgDir => d \notin Within[e]
      BY <2>1, <2>4, <3>1, Inside DEF Below
    <3> HIDE DEF d
    <3> QED
      BY <1>1, <2>2, <3>1, <3>2, Inside DEF Listable
  <2> QED
    BY <1>2, <2>1, <2>3, <2>4
<1>9. CASE SaveWrite
  <2> DEFINE d == admin.dir
  <2>1. /\ config' = [config EXCEPT ![d][gen[d]] = admin.content] /\ UNCHANGED <<dirs, gen, stable>>
        /\ d \in Dir /\ d \in dirs /\ admin.content \in Content /\ admin'.pc = "build"
    BY <1>0, <1>9 DEF SaveWrite, AdminInv
  <2>2. IsValidGroup(d)
    BY <1>3, <1>9 DEF SaveWrite, SavingInv
  <2>3. \A e \in Dir : IsValidGroup(e)' <=> IsValidGroup(e)
    <3>1. admin.content \in Files /\ admin.content # "none"
      BY <2>1 DEF Files, Content
    <3> HIDE DEF d
    <3> QED
      BY <1>6, <1>7, <2>1, <2>2, <3>1
  <2>4. \A e \in Dir : Listable(e)' <=> Listable(e)
    BY <1>1, <2>3, Inside DEF Listable
  <2>5. DirsClosed' /\ SavingInv'
    BY <1>3, <2>1 DEF DirsClosed, SavingInv
  <2> QED
    BY <1>2, <1>3, <2>1, <2>4, <2>5
<1>10. ASSUME NEW d \in Dir, NEW content \in Content, MakeByHand(d, content)
       PROVE  ListedInv'
  <2>1. /\ config' = [config EXCEPT ![d][gen[d]] = content] /\ UNCHANGED <<gen, admin>>
        /\ dirs' = dirs \cup {d} \cup Within[d] /\ admin.pc = "idle" /\ ~IsValidGroup(d)
        /\ stable' = [l \in Lister |-> IF NoRecurseMsgDir THEN stable[l] \ Below(d) ELSE stable[l]]
    BY <1>10 DEF MakeByHand
  <2>2. \A e \in Dir : IsValidGroup(e)' <=> IsValidGroup(e) \/ e = d
    <3>1. content \in Files /\ content # "none"
      BY DEF Files, Content
    <3> QED
      BY <1>6, <1>7, <2>1, <3>1
  <2>3. stable' \in [Lister -> SUBSET Dir] /\ DirsClosed' /\ SavingInv'
    BY <1>3, <2>1, Inside DEF DirsClosed, SavingInv
  <2>4. ASSUME NEW l \in Lister, NEW e \in stable'[l]
        PROVE  e \in stable[l] /\ Listable(e)'
    <3>1. e \in stable[l] /\ e \in Dir /\ Listable(e)
      BY <1>3, <2>1, <2>4
    <3>2. NoRecurseMsgDir => d \notin Within[e]
      BY <2>1, <2>4, <3>1 DEF Below
    <3> QED
      BY <1>1, <2>2, <3>1, <3>2, Inside DEF Listable
  <2> QED
    BY <1>2, <2>1, <2>3, <2>4
<1>11. ASSUME NEW d \in Dir, RemoveGroup(d)
       PROVE  ListedInv'
  <2>1. /\ UNCHANGED <<config, admin>> /\ admin.pc = "idle" /\ dirs' = dirs \ Below(d)
        /\ gen' = [e \in Dir |-> IF e \in Below(d) /\ e \in dirs THEN gen[e] + 1 ELSE gen[e]]
        /\ stable' = [l \in Lister |-> stable[l] \ Below(d)]
    BY <1>11 DEF RemoveGroup
  <2>2. \A e \in Dir \ Below(d) : gen'[e] = gen[e] /\ (e \in dirs' <=> e \in dirs)
    BY <2>1
  <2>3. ASSUME NEW e \in Dir \ Below(d), NEW y \in Way(e)
        PROVE  y \in Dir \ Below(d)
    BY <2>3, Inside DEF Way, Below
  <2>4. DirsClosed' /\ SavingInv'
    <3>1. \A e \in dirs' : e \in Dir \ Below(d)
      BY <1>0, <2>1 DEF CatalogType
    <3> QED
      BY <1>3, <2>1, <2>3, <3>1 DEF DirsClosed, SavingInv, Way
  <2>5. \A e \in Dir \ Below(d) : IsValidGroup(e)' = IsValidGroup(e)
    BY <2>1, <2>2 DEF IsValidGroup, Config
  <2>6. \A e \in Dir \ Below(d) : Listable(e)' = Listable(e)
    BY <1>1, <2>3, <2>5 DEF Listable, Way
  <2>7. ASSUME NEW l \in Lister, NEW e \in stable'[l]
        PROVE  /\ e \in stable[l] /\ Listable(e)'
               /\ \A y \in Way(e) : gen'[y] = gen[y]
    <3>1. e \in stable[l] /\ e \in Dir \ Below(d)
      BY <1>3, <2>1, <2>7
    <3> QED
      BY <1>3, <2>2, <2>3, <2>6, <3>1
  <2>8. stable' \in [Lister -> SUBSET Dir]
    BY <1>3, <2>1
  <2> QED
    BY <1>2, <2>4, <2>7, <2>8
<1> QED
  BY <1>4, <1>5, <1>8, <1>9, <1>10, <1>11 DEF Administer, Save

-----------------------------------------------------------------------------
(* A session loads what it named.                                          *)

\* What every step of a session after the walk has in common.
After(l) ==
  /\ Only(l) /\ UNCHANGED <<walk, stable>>
  /\ pc[l] \notin {"idle", "walk", "done"} /\ pc'[l] \notin {"idle", "walk"}
  /\ pc'[l] = "done" => names'[l] = << >>

\* After the walk only Answering counts.
LEMMA AfterStep ==
  ASSUME ListedInv, CatalogInv', NEW l \in Lister, After(l),
         \A d \in stable[l] : Answering(l, d)'
  PROVE  ListedInv'
<1>1. \A d \in stable[l] : Listable(d)'
  BY ListableSame DEF ListedInv, Listed, After, Only
<1>2. Listed(l)'
  BY <1>1 DEF Listed, After
<1> QED
  BY <1>2, OnlyStep DEF After, ListedInv

\* After the walk a stable group is still to load, or in the reply.
LEMMA AnsweringNow ==
  ASSUME ListedInv, NEW l \in Lister, pc[l] \notin {"idle", "walk"}, NEW d \in stable[l]
  PROVE  Answering(l, d) /\ IsValidGroup(d) /\ d \in Dir
BY DEF ListedInv, Listed, Listable

\* A step to another place.
LEMMA MoveListed ==
  ASSUME ListedInv, CatalogInv', NEW l \in Lister, After(l),
         names'[l] = names[l], reply'[l] = reply[l]
  PROVE  ListedInv'
<1>1. \A d \in stable[l] : Answering(l, d)'
  BY AnsweringNow DEF Answering, Sent, After
<1> QED
  BY <1>1, AfterStep

\* A group that is left out is none that is stable.
LEMMA SkipListed ==
  ASSUME ListedInv, CatalogInv', NEW l \in Lister, After(l), names[l] # << >>,
         ~IsValidGroup(Named(l)), names'[l] = Tail(names[l]), reply'[l] = reply[l]
  PROVE  ListedInv'
<1>1. ASSUME NEW d \in stable[l]
      PROVE  Answering(l, d)'
  <2>1. Answering(l, d) /\ d \in Dir /\ Head(names[l]) # d
    BY AnsweringNow DEF After, Named
  <2>2. names[l] \in Seq(Dir)
    BY DEF ListedInv, CatalogInv, CatalogType
  <2>3. Sent(l)' = Sent(l)
    BY DEF Sent
  <2> QED
    BY <2>1, <2>2, <2>3, TailNames DEF Answering
<1> QED
  BY <1>1, AfterStep

\* A group that is loaded goes from the names to the reply.
LEMMA ReplyListed ==
  ASSUME ListedInv, CatalogInv', NEW l \in Lister, After(l), names[l] # << >>,
         names'[l] = Tail(names[l]), NEW line \in Line, line.name = Named(l),
         reply'[l] = Append(reply[l], line)
  PROVE  ListedInv'
<1>0. CatalogType /\ names[l] \in Seq(Dir) /\ reply[l] \in Seq(Line)
  BY DEF ListedInv, CatalogInv, CatalogType
<1>1. Named(l) \in Dir
  BY <1>0, NamedType
<1>2. Sent(l) \in Seq(Dir) /\ Sent(l)' = Append(Sent(l), Named(l))
  <2> DEFINE n == Len(reply[l])
  <2>1. n \in Nat /\ DOMAIN reply[l] = 1 .. n /\ \A i \in 1 .. n : reply[l][i] \in Line
    BY <1>0, LenProperties, ElementOfSeq
  <2>2. Sent(l) = [i \in 1 .. n |-> reply[l][i].name] /\ \A i \in 1 .. n : reply[l][i].name \in Dir
    BY <2>1 DEF Sent, Line
  <2>3. Sent(l) \in Seq(Dir) /\ Len(Sent(l)) = n
    BY <2>1, <2>2, IsASeq, LenProperties
  <2>4. /\ Append(reply[l], line) \in Seq(Line) /\ Len(Append(reply[l], line)) = n + 1
        /\ Append(reply[l], line)[n + 1] = line
        /\ \A i \in 1 .. n : Append(reply[l], line)[i] = reply[l][i]
    BY <1>0, AppendProperties
  <2>5. DOMAIN reply'[l] = 1 .. n + 1
    BY <2>4, LenProperties
  <2> HIDE DEF n
  <2>6. Sent(l)' = [i \in 1 .. n + 1 |-> reply'[l][i].name]
    BY <2>5 DEF Sent
  <2>7. /\ Append(Sent(l), Named(l)) \in Seq(Dir) /\ Len(Append(Sent(l), Named(l))) = n + 1
        /\ Append(Sent(l), Named(l))[n + 1] = Named(l)
        /\ \A i \in 1 .. n : Append(Sent(l), Named(l))[i] = Sent(l)[i]
    BY <1>1, <2>3, AppendProperties
  <2>8. Append(Sent(l), Named(l)) = [i \in 1 .. n + 1 |-> Append(Sent(l), Named(l))[i]]
    BY <2>7, LenProperties
  <2>9. \A i \in 1 .. n + 1 : reply'[l][i].name = Append(Sent(l), Named(l))[i]
    <3>1. \A i \in 1 .. n + 1 : i \in 1 .. n \/ i = n + 1
      BY <2>1
    <3> QED
      BY <2>2, <2>4, <2>7, <3>1
  <2> QED
    BY <2>3, <2>6, <2>8, <2>9
<1>3. ASSUME NEW d \in stable[l]
      PROVE  Answering(l, d)'
  <2>1. Answering(l, d) /\ d \in Dir
    BY AnsweringNow DEF After
  <2>2. /\ Never(names[l], d) => Never(Tail(names[l]), d) /\ Named(l) # d
        /\ Once(names[l], d) => IF Named(l) = d THEN Never(Tail(names[l]), d)
                                                ELSE Once(Tail(names[l]), d)
    BY <1>0, <2>1, TailNames DEF Named
  <2>3. /\ Never(Sent(l), d) => IF Named(l) = d THEN Once(Append(Sent(l), Named(l)), d)
                                                ELSE Never(Append(Sent(l), Named(l)), d)
        /\ Once(Sent(l), d) /\ Named(l) # d => Once(Append(Sent(l), Named(l)), d)
    BY <1>1, <1>2, <2>1, AppendNames
  <2> QED
    BY <1>2, <2>1, <2>2, <2>3 DEF Answering
<1> QED
  BY <1>3, AfterStep

\* The groups are loaded and answered, one by one.
LEMMA ListedLoad ==
  ASSUME ListedInv, CatalogInv', NEW l \in Lister,
         \/ LoadOpen(l) \/ LockFails(l) \/ LoadInfo(l) \/ BuildInfo(l)
         \/ ConfigOpen(l) \/ ConfigLock(l) \/ ConfigRead(l) \/ Reply(l) \/ EndList(l)
  PROVE  ListedInv'
<1>0. CatalogType /\ ListInv(l)
  BY DEF ListedInv, CatalogInv
<1>1. /\ UNCHANGED <<dirs, gen, config, admin, NoRecurseMsgDir, walk, stable>>
      /\ pc[l] \in {"load", "info", "build", "config", "configlock", "read", "reply"}
  BY DEF LoadOpen, LockFails, LoadInfo, BuildInfo, ConfigOpen, ConfigLock, ConfigRead, Reply,
         EndList, At, disk, administration, history
<1>2. PICK to \in {"load", "info", "build", "config", "configlock", "read", "reply", "done"} : Goto(l, to)
  BY DEF LoadOpen, LockFails, LoadInfo, BuildInfo, ConfigOpen, ConfigLock, ConfigRead, Reply,
         EndList, Skip
<1>3. pc'[l] = to /\ \A k \in Lister \ {l} : pc'[k] = pc[k]
  <2>1. to \in Places
    BY DEF Places
  <2> QED
    BY <1>0, <1>2, <2>1, Going
<1>4. ASSUME UNCHANGED <<names, reply>>, to = "done" => names[l] = << >>
      PROVE  ListedInv'
  <2>1. After(l)
    BY <1>1, <1>3, <1>4 DEF After, Only
  <2> QED
    BY <1>4, <2>1, MoveListed
<1>5. ASSUME Skip(l), UNCHANGED reply, names[l] # << >>, ~IsValidGroup(Named(l))
      PROVE  ListedInv'
  <2>1. /\ pc'[l] = "load" /\ \A k \in Lister \ {l} : names'[k] = names[k]
        /\ names'[l] = Tail(names[l])
    BY <1>0, <1>5, Skipping DEF Skip, CatalogType
  <2>2. After(l)
    BY <1>1, <1>3, <1>5, <2>1 DEF After, Only
  <2> QED
    BY <1>5, <2>1, <2>2, SkipListed
<1>6. CASE LoadInfo(l) \/ BuildInfo(l) \/ ConfigLock(l) \/ ConfigRead(l) \/ EndList(l)
  <2>1. UNCHANGED <<names, reply>>
    BY <1>6 DEF LoadInfo, BuildInfo, ConfigLock, ConfigRead, EndList
  <2>2. to = "done" => names[l] = << >>
    <3>1. \A where : Goto(l, where) => pc'[l] = where
      BY <1>0 DEF Goto, CatalogType
    <3> QED
      BY <1>3, <1>6, <3>1 DEF LoadInfo, BuildInfo, ConfigLock, ConfigRead, EndList
  <2> QED
    BY <1>4, <2>1, <2>2
<1>7. CASE LoadOpen(l)
  <2>1. UNCHANGED reply /\ names[l] # << >>
    BY <1>7 DEF LoadOpen
  <2>2. CASE Skip(l) /\ ~IsValidGroup(Named(l))
    BY <1>5, <2>1, <2>2
  <2>3. CASE names' = names /\ (Goto(l, "info") \/ Goto(l, "build"))
    <3>1. \A where : Goto(l, where) => pc'[l] = where
      BY <1>0 DEF Goto, CatalogType
    <3> QED
      BY <1>3, <1>4, <2>1, <2>3, <3>1
  <2> QED
    BY <1>7, <2>2, <2>3 DEF LoadOpen
<1>8. CASE LockFails(l)
  <2>1. names[l] # << >> /\ ~IsValidGroup(Named(l)) /\ Skip(l) /\ UNCHANGED reply
    BY <1>0, <1>8 DEF LockFails, ListInv, Loading, IsValidGroup
  <2> QED
    BY <1>5, <2>1
<1>9. CASE ConfigOpen(l)
  <2>1. names[l] # << >> /\ UNCHANGED reply
    BY <1>0, <1>9 DEF ConfigOpen, At, ListInv, Loading
  <2>2. CASE Skip(l) /\ ~IsValidGroup(Named(l))
    BY <1>5, <2>1, <2>2
  <2>3. CASE names' = names /\ Goto(l, "configlock")
    <3>1. \A where : Goto(l, where) => pc'[l] = where
      BY <1>0 DEF Goto, CatalogType
    <3> QED
      BY <1>3, <1>4, <2>1, <2>3, <3>1
  <2> QED
    BY <1>9, <2>2, <2>3 DEF ConfigOpen
<1>10. CASE Reply(l)
  <2> DEFINE line == [name |-> Named(l), postok |-> tgroup[l].postok]
  <2>1. names[l] # << >> /\ Skip(l) /\ reply' = [reply EXCEPT ![l] = Append(@, line)]
    BY <1>0, <1>10 DEF Reply, At, ListInv, Loading
  <2>2. line \in Line /\ line.name = Named(l)
    <3>1. PICK said \in had[l][Named(l)] : tgroup[l].postok = Says(said)
      BY <1>0, <1>10 DEF Reply, At, ListInv
    <3>2. Named(l) \in Dir /\ said \in Content
      BY <1>0, <2>1, <3>1, NamedType DEF CatalogType
    <3> QED
      BY <3>1, <3>2, SaysLine DEF Line
  <2>3. /\ pc'[l] = "load" /\ \A k \in Lister \ {l} : names'[k] = names[k]
        /\ names'[l] = Tail(names[l])
    BY <1>0, <2>1, Skipping DEF Skip, CatalogType
  <2> HIDE DEF line
  <2>4. reply'[l] = Append(reply[l], line) /\ \A k \in Lister \ {l} : reply'[k] = reply[k]
    BY <1>0, <2>1 DEF CatalogType
  <2>5. After(l)
    BY <1>1, <1>3, <2>3, <2>4 DEF After, Only
  <2> QED
    BY <2>1, <2>2, <2>3, <2>4, <2>5, ReplyListed
<1> QED
  BY <1>6, <1>7, <1>8, <1>9, <1>10

-----------------------------------------------------------------------------
(* A session walks.                                                        *)

\* LIST begins: the root has the way to every stable group ahead.
LEMMA BeginListed ==
  ASSUME ListedInv, CatalogInv', NEW l \in Lister, BeginList(l)
  PROVE  ListedInv'
<1>0. CatalogType /\ Listed(l) /\ DirsClosed
      /\ walk \in [Lister -> Seq(Level)] /\ stable \in [Lister -> SUBSET Dir]
  BY DEF ListedInv, CatalogInv
<1>1. /\ pc[l] = "idle" /\ pc' = [pc EXCEPT ![l] = "walk"]
      /\ walk' = [walk EXCEPT ![l] = <<Open("/")>>]
      /\ stable' = [stable EXCEPT ![l] = {d \in Dir : Listable(d)}]
      /\ UNCHANGED <<dirs, gen, config, admin, NoRecurseMsgDir, names, reply>>
  BY DEF BeginList, disk, administration
<1>2. names[l] = << >> /\ reply[l] = << >>
  BY <1>0, <1>1 DEF Listed
<1>3. Open("/") \in Level
  BY <1>0, OpenLevel
<1>4. /\ walk' \in [Lister -> Seq(Level)] /\ walk'[l] = <<Open("/")>>
      /\ stable' \in [Lister -> SUBSET Dir] /\ stable'[l] = {d \in Dir : Listable(d)}
      /\ pc'[l] = "walk"
      /\ \A k \in Lister \ {l} : walk'[k] = walk[k] /\ stable'[k] = stable[k] /\ pc'[k] = pc[k]
  <2>1. <<Open("/")>> \in Seq(Level)
    BY <1>3
  <2> QED
    BY <1>0, <1>1, <2>1 DEF CatalogType
<1>5. ASSUME NEW d \in stable'[l]
      PROVE  Listable(d)' /\ Walking(l, d)'
  <2>1. d \in dirs /\ d \in Dir /\ Listable(d)'
    BY <1>1, <1>4, ListableSame DEF Listable, IsValidGroup
  <2>2. PICK y \in Way(d) : Guides(Open("/"), d, y) /\ Ahead(Open("/"), Inode(y))
    BY <1>0, <2>1, OpenAbove DEF Above
  <2>3. Len(<<Open("/")>>) = 1 /\ <<Open("/")>>[1] = Open("/")
    OBVIOUS
  <2>4. Never(names[l], d)
    BY <1>2 DEF Never
  <2> DEFINE s == <<Open("/")>>
  <2>5. WalkingTo(s, names[l], d, 1)
    BY <2>2, <2>3, <2>4 DEF WalkingTo
  <2>6. Inode(y)' = Inode(y) /\ \A e : Inode(e)' = Inode(e)
    BY <1>1 DEF Inode
  <2>7. \A level, e : Guides(level, d, e)' = Guides(level, d, e)
    BY <2>6 DEF Guides
  <2>8. walk'[l] = s /\ names'[l] = names[l]
    BY <1>1, <1>4
  <2> HIDE DEF s
  <2>9. WalkingTo(walk[l], names[l], d, 1)'
    BY <2>5, <2>6, <2>7, <2>8 DEF WalkingTo
  <2>10. 1 \in 1 .. Len(walk'[l])
    BY <2>3, <2>8 DEF s
  <2> QED
    BY <2>1, <2>9, <2>10 DEF Walking
<1>6. Listed(l)'
  BY <1>1, <1>2, <1>4, <1>5 DEF Listed
<1>7. Only(l)
  BY <1>1, <1>4 DEF Only
<1> QED
  BY <1>4, <1>6, <1>7, OnlyStep

\* The session is ready for the next LIST: nothing is stable or listed.
LEMMA AgainListed ==
  ASSUME ListedInv, CatalogInv', NEW l \in Lister, Again(l)
  PROVE  ListedInv'
<1>0. CatalogType /\ Listed(l)
      /\ walk \in [Lister -> Seq(Level)] /\ stable \in [Lister -> SUBSET Dir]
  BY DEF ListedInv, CatalogInv
<1>1. /\ pc[l] = "done" /\ pc' = [pc EXCEPT ![l] = "idle"]
      /\ reply' = [reply EXCEPT ![l] = << >>] /\ stable' = [stable EXCEPT ![l] = {}]
      /\ UNCHANGED <<dirs, gen, config, admin, NoRecurseMsgDir, names, walk>>
  BY DEF Again, At, Goto, disk, administration
<1>2. /\ stable' \in [Lister -> SUBSET Dir] /\ stable'[l] = {}
      /\ pc'[l] = "idle" /\ reply'[l] = << >>
      /\ \A k \in Lister \ {l} : reply'[k] = reply[k] /\ stable'[k] = stable[k] /\ pc'[k] = pc[k]
  BY <1>0, <1>1 DEF CatalogType
<1>3. Listed(l)'
  BY <1>0, <1>1, <1>2 DEF Listed
<1>4. Only(l)
  BY <1>1, <1>2 DEF Only
<1> QED
  BY <1>0, <1>1, <1>2, <1>3, <1>4, OnlyStep

\* A directory is read to its end: what is on the way was taken.
LEMMA EndDirListed ==
  ASSUME ListedInv, CatalogInv', NEW l \in Lister, EndDir(l)
  PROVE  ListedInv'
<1> DEFINE s == walk[l]
           n == Len(s)
<1>0. CatalogType /\ Listed(l) /\ DirsClosed
      /\ walk \in [Lister -> Seq(Level)] /\ stable \in [Lister -> SUBSET Dir]
  BY DEF ListedInv, CatalogInv
<1>1. /\ pc[l] = "walk" /\ s # << >>
      /\ ~\E e \in Last(s).left : e[1] \in dirs /\ Inode(e[1]) = e
      /\ walk' = [walk EXCEPT ![l] = Front(s)]
      /\ pc' = [pc EXCEPT ![l] = IF n = 1 THEN "load" ELSE "walk"]
      /\ UNCHANGED <<dirs, gen, config, admin, NoRecurseMsgDir, names, reply, stable>>
  BY DEF EndDir, Innermost, disk, administration, history
<1>2. /\ s \in Seq(Level) /\ n = Len(s) /\ n \in Nat /\ n >= 1 /\ Last(s) = s[n]
      /\ Front(s) \in Seq(Level) /\ Len(Front(s)) = n - 1
      /\ \A i \in 1 .. n - 1 : Front(s)[i] = s[i]
  BY <1>0, <1>1, StackTop
<1>3. /\ walk' \in [Lister -> Seq(Level)] /\ walk'[l] = Front(s)
      /\ pc'[l] = IF n = 1 THEN "load" ELSE "walk"
      /\ \A k \in Lister \ {l} : walk'[k] = walk[k] /\ pc'[k] = pc[k]
  BY <1>0, <1>1, <1>2 DEF CatalogType
<1> HIDE DEF s, n
<1>4. ASSUME NEW d \in stable[l]
      PROVE  IF n = 1 THEN Once(names[l], d) ELSE Walking(l, d)'
  <2>1. d \in dirs /\ d \in Dir /\ Walking(l, d) /\ Way(d) \subseteq dirs
    BY <1>0, <1>1 DEF Listed, Listable, IsValidGroup, DirsClosed, Way
  <2>2. PICK k \in 1 .. n : WalkingTo(s, names[l], d, k)
    BY <2>1 DEF Walking, s, n
  <2>3. PICK y \in Way(d) :
          /\ Guides(s[k], d, y)
          /\ \/ Ahead(s[k], Inode(y)) /\ Never(names[l], d)
             \/ Past(s[k], Inode(y)) /\ Once(names[l], d)
    BY <2>2 DEF WalkingTo
  <2>4. \A e : Inode(e)[1] = e /\ Inode(e)' = Inode(e)
    BY <1>1 DEF Inode
  <2>5. \A level, e : Guides(level, d, e)' = Guides(level, d, e)
    BY <2>4 DEF Guides
  <2>6. CASE k = n
    <3>1. Past(s[k], Inode(y)) /\ Once(names[l], d)
      BY <1>1, <1>2, <2>1, <2>3, <2>4, <2>6 DEF Ahead
    <3>2. ASSUME n # 1
          PROVE  Walking(l, d)'
      <4>0. PICK j \in 1 .. n - 1 : j = n - 1
        BY <1>2, <3>2
      <4>1. /\ j \in 1 .. n - 1 /\ walk'[l][j] = s[j] /\ j \in 1 .. Len(walk'[l])
            /\ \A i \in 1 .. j - 1 : walk'[l][i] = s[i]
        BY <1>2, <1>3, <4>0
      <4>2. PICK z \in Way(d) : Guides(s[j], d, z) /\ Past(s[j], Inode(z))
        BY <2>2, <2>6, <4>0, <4>1 DEF WalkingTo
      <4>3. \A i \in 1 .. j - 1 :
              \E x \in Way(d) : Guides(walk'[l][i], d, x) /\ Past(walk'[l][i], Inode(x))
        <5>1. \A i \in 1 .. j - 1 : i \in 1 .. n - 1
          BY <1>2, <4>0
        <5> QED
          BY <2>2, <2>6, <4>1, <5>1 DEF WalkingTo
      <4>4. \A i \in j + 1 .. Len(walk'[l]) : FALSE
        BY <1>2, <1>3, <4>0
      <4>5. WalkingTo(walk[l], names[l], d, j)'
        BY <1>1, <2>4, <2>5, <3>1, <4>1, <4>2, <4>3, <4>4 DEF WalkingTo
      <4> QED
        BY <4>1, <4>5 DEF Walking
    <3> QED
      BY <3>1, <3>2
  <2>7. CASE k # n
    <3>1. k \in 1 .. n - 1 /\ n # 1 /\ \A i \in 1 .. n - 1 : walk'[l][i] = s[i]
      BY <1>2, <1>3, <2>7
    <3>2. \A i \in 1 .. k - 1 :
            \E x \in Way(d) : Guides(walk'[l][i], d, x) /\ Past(walk'[l][i], Inode(x))
      <4>1. \A i \in 1 .. k - 1 : i \in 1 .. n - 1
        BY <1>2, <3>1
      <4>2. \A i \in 1 .. k - 1 : \E x \in Way(d) : Guides(s[i], d, x) /\ Past(s[i], Inode(x))
        BY <2>2 DEF WalkingTo
      <4> QED
        BY <3>1, <4>1, <4>2
    <3>3. \A i \in k + 1 .. Len(walk'[l]) : Beside(walk'[l][i], d)
      <4>1. \A i \in k + 1 .. n : Beside(s[i], d)
        BY <1>2, <2>2 DEF WalkingTo
      <4>2. Len(walk'[l]) = n - 1
        BY <1>2, <1>3
      <4>3. \A i \in k + 1 .. n - 1 : i \in k + 1 .. n /\ i \in 1 .. n - 1
        BY <1>2, <3>1
      <4> QED
        BY <3>1, <4>1, <4>2, <4>3
    <3>4. WalkingTo(walk[l], names[l], d, k)'
      BY <1>1, <2>3, <2>4, <2>5, <3>1, <3>2, <3>3 DEF WalkingTo
    <3>5. k \in 1 .. Len(walk'[l])
      BY <1>2, <1>3, <3>1
    <3> QED
      BY <3>1, <3>4, <3>5 DEF Walking
  <2> QED
    BY <2>6, <2>7
<1>5. \A d \in stable[l] : Listable(d)'
  BY <1>0, <1>1, ListableSame DEF Listed
<1>6. Listed(l)'
  <2>1. reply'[l] = << >>
    BY <1>0, <1>1 DEF Listed
  <2>2. \A d : Never(Sent(l)', d)
    BY <2>1 DEF Never, Sent
  <2>3. \A d \in stable'[l] : pc'[l] # "walk" => Answering(l, d)'
    BY <1>1, <1>3, <1>4, <2>2 DEF Answering
  <2>4. \A d \in stable'[l] : pc'[l] = "walk" => Walking(l, d)'
    BY <1>1, <1>3, <1>4
  <2> QED
    BY <1>0, <1>1, <1>3, <1>5, <2>1, <2>3, <2>4 DEF Listed
<1>7. Only(l)
  BY <1>1, <1>3 DEF Only
<1> QED
  BY <1>0, <1>1, <1>3, <1>6, <1>7, OnlyStep

\* The levels after an entry was read, without and with the one it leads to.
LevelsAfter(r, s, n, e) ==
  /\ r \in Seq(Level) /\ Len(r) = n /\ r \o << >> = r
  /\ \A i \in 1 .. n - 1 : r[i] = s[i]
  /\ r[n].of = s[n].of /\ r[n].left = s[n].left \ {e} /\ r[n].seen = s[n].seen \cup {e}
  /\ r \o <<Open(e[1])>> \in Seq(Level) /\ Len(r \o <<Open(e[1])>>) = n + 1
  /\ \A i \in 1 .. n : (r \o <<Open(e[1])>>)[i] = r[i]
  /\ (r \o <<Open(e[1])>>)[n + 1] = Open(e[1])

\* An entry that was read leaves such levels.
LEMMA ReadLevels ==
  ASSUME CatalogType, NEW s \in Seq(Level), s # << >>, NEW n \in Nat, n = Len(s),
         NEW e \in Dir \X (0 .. MaxChanges), NEW r,
         r = Append(Front(s), [Last(s) EXCEPT !.left = @ \ {e}, !.seen = @ \cup {e}])
  PROVE  LevelsAfter(r, s, n, e)
<1> DEFINE here == [Last(s) EXCEPT !.left = @ \ {e}, !.seen = @ \cup {e}]
<1>1. /\ Last(s) = s[n] /\ Last(s) \in Level /\ n >= 1
  BY StackTop
<1>2. /\ here \in Level /\ here.of = s[n].of
      /\ here.left = s[n].left \ {e} /\ here.seen = s[n].seen \cup {e}
  BY <1>1 DEF Level
<1>3. Open(e[1]) \in Level
  BY OpenLevel
<1> DEFINE r0 == Append(Front(s), here)
<1>4. r = r0
  OBVIOUS
<1> HIDE DEF here
<1>5. /\ r0 \in Seq(Level) /\ Len(r0) = n /\ r0[n] = here /\ \A i \in 1 .. n - 1 : r0[i] = s[i]
      /\ r0 \o <<Open(e[1])>> \in Seq(Level) /\ Len(r0 \o <<Open(e[1])>>) = n + 1
      /\ (r0 \o <<Open(e[1])>>)[n + 1] = Open(e[1])
      /\ \A i \in 1 .. n : (r0 \o <<Open(e[1])>>)[i] = r0[i]
      /\ r0 \o << >> = r0
  BY <1>2, <1>3, StackPush
<1> HIDE DEF r0
<1> QED
  BY <1>2, <1>4, <1>5 DEF LevelsAfter

\* An entry is read: one on the way leads on to d, or is d; others do not matter.
LEMMA ReadListed ==
  ASSUME ListedInv, CatalogInv', NEW l \in Lister,
         NEW e \in Dir \X (0 .. MaxChanges), ReadEntry(l, e)
  PROVE  ListedInv'
<1> DEFINE s == walk[l]
           x == e[1]
           deeper == x \in dirs /\ Deeper(x)
<1>0. CatalogType /\ Listed(l) /\ DirsClosed
      /\ walk \in [Lister -> Seq(Level)] /\ stable \in [Lister -> SUBSET Dir]
  BY DEF ListedInv, CatalogInv
<1>1. PICK n \in Nat : n = Len(s)
  BY <1>0, LenProperties
<1>2. /\ pc[l] = "walk" /\ s # << >> /\ s \in Seq(Level) /\ e \in Unread(l) /\ x \in Dir
      /\ names' = [names EXCEPT ![l] = IF IsValidGroup(x) THEN Append(@, x) ELSE @]
      /\ UNCHANGED <<dirs, gen, config, admin, NoRecurseMsgDir, pc, reply, stable>>
  BY <1>0 DEF ReadEntry, disk, administration, history
<1>3. PICK r \in Seq(Level) :
        /\ walk' = [walk EXCEPT ![l] = r]
        /\ Len(r) = IF deeper THEN n + 1 ELSE n
        /\ \A i \in 1 .. n - 1 : r[i] = s[i]
        /\ r[n].of = s[n].of /\ r[n].left = s[n].left \ {e} /\ r[n].seen = s[n].seen \cup {e}
        /\ deeper => r[n + 1] = Open(x)
  <2>1. walk' = [walk EXCEPT ![l] =
                   Append(Front(s), [Last(s) EXCEPT !.left = @ \ {e}, !.seen = @ \cup {e}])
                     \o (IF deeper THEN <<Open(x)>> ELSE << >>)]
    BY DEF ReadEntry, Innermost
  <2> HIDE DEF deeper, s
  <2>2. PICK r : r = Append(Front(s), [Last(s) EXCEPT !.left = @ \ {e}, !.seen = @ \cup {e}])
    OBVIOUS
  <2>3. /\ r \in Seq(Level) /\ Len(r) = n /\ r \o << >> = r
        /\ \A i \in 1 .. n - 1 : r[i] = s[i]
        /\ r[n].of = s[n].of /\ r[n].left = s[n].left \ {e} /\ r[n].seen = s[n].seen \cup {e}
        /\ r \o <<Open(e[1])>> \in Seq(Level) /\ Len(r \o <<Open(e[1])>>) = n + 1
        /\ \A i \in 1 .. n : (r \o <<Open(e[1])>>)[i] = r[i]
        /\ (r \o <<Open(e[1])>>)[n + 1] = Open(e[1])
    <3>1. CatalogType /\ s \in Seq(Level) /\ s # << >> /\ e \in Dir \X (0 .. MaxChanges)
      BY <1>0, <1>2
    <3>2. \A t \in Seq(Level) : t # << >> /\ n = Len(t) =>
            \A q : q = Append(Front(t), [Last(t) EXCEPT !.left = @ \ {e}, !.seen = @ \cup {e}])
                     => LevelsAfter(q, t, n, e)
      BY <3>1, ReadLevels
    <3>3. LevelsAfter(r, s, n, e)
      BY <1>1, <2>2, <3>1, <3>2
    <3> QED
      BY <3>3 DEF LevelsAfter
  <2>4. n >= 1
    BY <1>1, <1>2, StackTop
  <2>5. CASE deeper
    <3>1. walk' = [walk EXCEPT ![l] = r \o <<Open(e[1])>>]
      BY <2>1, <2>2, <2>5
    <3>2. /\ \A i \in 1 .. n - 1 : (r \o <<Open(e[1])>>)[i] = s[i]
          /\ (r \o <<Open(e[1])>>)[n] = r[n]
      BY <2>3, <2>4
    <3> QED
      BY <2>3, <2>5, <3>1, <3>2
  <2>6. CASE ~deeper
    <3>1. walk' = [walk EXCEPT ![l] = r]
      BY <2>1, <2>2, <2>3, <2>6
    <3> QED
      BY <2>3, <2>6, <3>1
  <2> QED
    BY <2>5, <2>6
<1>4. /\ walk' \in [Lister -> Seq(Level)] /\ walk'[l] = r
      /\ names'[l] = IF IsValidGroup(x) THEN Append(names[l], x) ELSE names[l]
      /\ names[l] \in Seq(Dir)
      /\ \A k \in Lister \ {l} : walk'[k] = walk[k] /\ names'[k] = names[k]
  BY <1>0, <1>2, <1>3 DEF CatalogType
<1>5. /\ n >= 1 /\ Last(s) = s[n]
      /\ e \in s[n].left \/ (e = Inode(x) /\ EntryOf(x, s[n].of[1]) /\ e \notin s[n].seen)
  <2>1. n >= 1 /\ Last(s) = s[n]
    BY <1>1, <1>2, StackTop
  <2>2. e \in s[n].left \/ \E z \in Entries(s[n].of[1]) : e = Inode(z) /\ e \notin s[n].seen
    BY <1>2, <2>1 DEF Unread, Innermost
  <2>3. \A z : Inode(z)[1] = z
    BY DEF Inode
  <2> QED
    BY <2>1, <2>2, <2>3 DEF Entries, EntryOf
<1>6. \A y : Inode(y)' = Inode(y) /\ Inode(y)[1] = y
  BY <1>2 DEF Inode
<1>7. /\ \A level, d, y : Guides(level, d, y)' = Guides(level, d, y)
      /\ \A level, y : Past(level, Inode(y))' = Past(level, Inode(y))
      /\ \A level, y : Ahead(level, Inode(y))' = Ahead(level, Inode(y))
  BY <1>6 DEF Guides, Past, Ahead
<1> HIDE DEF s, x, deeper
<1>8. ASSUME NEW d \in stable[l]
      PROVE  Walking(l, d)'
  <2>1. d \in dirs /\ d \in Dir /\ IsValidGroup(d) /\ Way(d) \subseteq dirs /\ Walking(l, d)
    BY <1>0, <1>2 DEF Listed, Listable, IsValidGroup, DirsClosed, Way
  <2>2. PICK k \in 1 .. n : WalkingTo(s, names[l], d, k)
    BY <1>1, <2>1 DEF Walking, s
  <2>3. PICK y \in Way(d) :
          /\ Guides(s[k], d, y)
          /\ \/ Ahead(s[k], Inode(y)) /\ Never(names[l], d)
             \/ Past(s[k], Inode(y)) /\ Once(names[l], d)
    BY <2>2 DEF WalkingTo
  <2>4. /\ \A i \in 1 .. k - 1 : \E z \in Way(d) : Guides(s[i], d, z) /\ Past(s[i], Inode(z))
        /\ \A i \in k + 1 .. n : Beside(s[i], d)
    BY <1>1, <2>2 DEF WalkingTo
  <2>5. \A i \in 1 .. k - 1 : i \in 1 .. n - 1 /\ r[i] = s[i]
    BY <1>3
  <2>6. \A i \in 1 .. k - 1 : \E z \in Way(d) : (Guides(r[i], d, z) /\ Past(r[i], Inode(z)))'
    BY <1>7, <2>4, <2>5
  <2>7. CASE x \notin Way(d)
    <3>1. x # d /\ x \notin Within[d]
      BY <2>7 DEF Way
    <3>2. \A level : level.of = s[n].of /\ level.left = s[n].left \ {e} /\ level.seen = s[n].seen \cup {e}
             => OnWay(level, d) = OnWay(s[n], d)
      BY <2>7 DEF OnWay, x
    <3>3. OnWay(r[n], d) = OnWay(s[n], d)
      BY <1>3, <3>2
    <3>4. \A i \in k + 1 .. Len(r) : Beside(r[i], d)
      <4>1. ASSUME NEW i \in k + 1 .. n
            PROVE  Beside(r[i], d)
        <5>1. Beside(s[i], d)
          BY <2>4
        <5>2. CASE i = n
          BY <1>3, <3>3, <5>1, <5>2 DEF Beside
        <5>3. CASE i # n
          BY <1>3, <5>1, <5>3
        <5> QED
          BY <5>2, <5>3
      <4>2. deeper => Beside(r[n + 1], d)
        BY <1>0, <1>2, <1>3, <2>1, <3>1, OpenBeside
      <4>3. \A i \in k + 1 .. Len(r) : i \in k + 1 .. n \/ (deeper /\ i = n + 1)
        BY <1>3
      <4> QED
        BY <4>1, <4>2, <4>3
    <3>5. Guides(r[k], d, y) /\ (Ahead(r[k], Inode(y)) <=> Ahead(s[k], Inode(y)))
          /\ (Past(r[k], Inode(y)) <=> Past(s[k], Inode(y)))
      <4>1. CASE k = n
        <5>1. Inode(y) # e
          BY <1>6, <2>3, <2>7 DEF x
        <5> QED
          BY <1>3, <2>3, <3>3, <4>1, <5>1 DEF Guides, Ahead, Past
      <4>2. CASE k # n
        BY <1>3, <2>3, <4>2
      <4> QED
        BY <4>1, <4>2
    <3>6. /\ Never(names[l], d) => Never(names'[l], d)
          /\ Once(names[l], d) => Once(names'[l], d)
      BY <1>2, <1>4, <2>1, <3>1, AppendNames
    <3>7. \/ Ahead(r[k], Inode(y))' /\ Never(names'[l], d)
          \/ Past(r[k], Inode(y))' /\ Once(names'[l], d)
      BY <1>7, <2>3, <3>5, <3>6
    <3>8. WalkingTo(walk[l], names[l], d, k)'
      BY <1>4, <1>7, <2>6, <3>4, <3>5, <3>7 DEF WalkingTo
    <3>9. k \in 1 .. Len(walk'[l])
      BY <1>3, <1>4
    <3> QED
      BY <3>8, <3>9 DEF Walking
  <2>8. CASE x \in Way(d)
    <3>1. k = n
      <4> SUFFICES ASSUME k # n PROVE FALSE
        OBVIOUS
      <4>1. n \in k + 1 .. n
        BY <1>1
      <4>2. s[n].of[1] \notin Above(d) /\ OnWay(s[n], d) = {}
        BY <2>4, <4>1 DEF Beside
      <4>3. e \notin s[n].left
        BY <2>8, <4>2 DEF OnWay, x
      <4>4. EntryOf(x, s[n].of[1])
        BY <1>5, <4>3
      <4>5. s[n].of[1] \in Above(d)
        BY <2>1, <2>8, <4>4, Inside DEF EntryOf, Above, Way
      <4> QED
        BY <4>2, <4>5
    <3>2. y = x /\ e = Inode(y) /\ Ahead(s[n], e) /\ Never(names[l], d)
      <4>1. EntryOf(y, s[n].of[1]) /\ OnWay(s[n], d) = {Inode(y)}
        BY <2>3, <3>1 DEF Guides
      <4>2. CASE e \in s[n].left
        <5>1. e = Inode(y)
          BY <2>8, <4>1, <4>2 DEF OnWay, x
        <5>2. x = y
          BY <1>6, <5>1 DEF x
        <5> QED
          BY <2>3, <3>1, <4>2, <5>1, <5>2 DEF Past
      <4>3. CASE e = Inode(x) /\ EntryOf(x, s[n].of[1]) /\ e \notin s[n].seen
        <5>1. x = y
          BY <2>1, <2>8, <4>1, <4>3, OneEntry
        <5> QED
          BY <2>3, <3>1, <4>3, <5>1 DEF Past
      <4> QED
        BY <1>5, <4>2, <4>3
    <3>3. Guides(r[n], d, y) /\ Past(r[n], Inode(y))
      BY <1>3, <2>3, <2>8, <3>1, <3>2 DEF Guides, Past, Ahead, OnWay
    <3>4. CASE x = d
      <4>1. Once(names'[l], d)
        BY <1>2, <1>4, <2>1, <3>2, <3>4, AppendNames
      <4>2. deeper => Beside(r[n + 1], d)
        BY <1>0, <1>2, <1>3, <2>1, <3>4, OpenBeside, WithinAssumption
      <4>3. \A i \in n + 1 .. Len(r) : deeper /\ i = n + 1
        BY <1>1, <1>3
      <4>4. \A i \in n + 1 .. Len(r) : Beside(r[i], d)
        BY <4>2, <4>3
      <4>5. WalkingTo(walk[l], names[l], d, n)'
        BY <1>4, <1>7, <2>6, <3>1, <3>3, <4>1, <4>4 DEF WalkingTo
      <4>6. n \in 1 .. Len(walk'[l])
        BY <1>3, <1>4, <1>5
      <4> QED
        BY <4>5, <4>6 DEF Walking
    <3>5. CASE x # d
      <4>1. x \in Within[d] /\ x \in Above(d) /\ x \in dirs
        BY <2>1, <2>8, <3>5 DEF Way, Above
      <4>2. deeper
        BY <1>0, <4>1 DEF deeper, Deeper, Listed, Listable
      <4>3. PICK z \in Way(d) : Guides(r[n + 1], d, z) /\ Ahead(r[n + 1], Inode(z))
        BY <1>0, <1>3, <2>1, <4>1, <4>2, OpenAbove
      <4>4. Never(names'[l], d)
        BY <1>2, <1>4, <2>1, <3>2, <3>5, AppendNames
      <4>5. PICK m \in Nat : m = n + 1
        OBVIOUS
      <4>6. /\ \A i \in 1 .. m - 1 : i \in 1 .. k - 1 \/ i = n
            /\ \A i \in m + 1 .. Len(r) : FALSE
            /\ m \in 1 .. Len(r)
        BY <1>3, <3>1, <4>2, <4>5
      <4>7. \A i \in 1 .. m - 1 : \E w \in Way(d) : (Guides(r[i], d, w) /\ Past(r[i], Inode(w)))'
        BY <1>7, <2>6, <3>3, <4>6
      <4>8. WalkingTo(walk[l], names[l], d, m)'
        BY <1>4, <1>7, <4>3, <4>4, <4>5, <4>6, <4>7 DEF WalkingTo
      <4> QED
        BY <1>4, <4>6, <4>8 DEF Walking
    <3> QED
      BY <3>4, <3>5
  <2> QED
    BY <2>7, <2>8
<1>9. \A d \in stable[l] : Listable(d)'
  BY <1>0, <1>2, ListableSame DEF Listed
<1>10. Listed(l)'
  BY <1>0, <1>2, <1>8, <1>9 DEF Listed
<1>11. Only(l)
  BY <1>2, <1>4 DEF Only
<1> QED
  BY <1>0, <1>2, <1>4, <1>10, <1>11, OnlyStep

-----------------------------------------------------------------------------
\* Every step keeps the invariant.
LEMMA ListedNext == ListedInv /\ [Next]_vars => ListedInv'
<1> SUFFICES ASSUME ListedInv, [Next]_vars PROVE ListedInv'
  OBVIOUS
<1>0. CatalogInv'
  BY CatalogNext DEF ListedInv
<1>1. CASE UNCHANGED vars
  <2>1. UNCHANGED <<dirs, gen, config, admin, NoRecurseMsgDir, pc, names, walk, reply, stable>>
    BY <1>1 DEF vars, disk, administration, session, history
  <2>2. DirsClosed' /\ SavingInv'
    BY <2>1 DEF ListedInv, DirsClosed, SavingInv, IsValidGroup, Config
  <2>3. ASSUME NEW l \in Lister PROVE Listed(l)'
    BY <2>1, ListableSame, ListedSame DEF ListedInv, Listed
  <2> QED
    BY <1>0, <2>1, <2>2, <2>3 DEF ListedInv
<1>2. ASSUME NEW l \in Lister, List(l) PROVE ListedInv'
  <2>1. CASE BeginList(l) \/ Again(l) \/ EndDir(l)
    BY <1>0, <2>1, BeginListed, AgainListed, EndDirListed
  <2>2. CASE \E e \in Dir \X (0 .. MaxChanges) : ReadEntry(l, e)
    BY <1>0, <2>2, ReadListed
  <2> QED
    BY <1>0, <1>2, <2>1, <2>2, ListedLoad DEF List
<1> QED
  BY <1>0, <1>1, <1>2, ListedAdminister DEF Next

\* A group that could be found from the beginning of LIST to its end is in the
\* reply once: AllGroups' walk names each directory once, whatever is made and
\* removed beside it, and LIST loads and prints each name once.
THEOREM NamedOnce == Spec => []ListedOnce
<1>1. ListedInv => ListedOnce
  <2> SUFFICES ASSUME ListedInv, NEW l \in Lister, pc[l] = "done", NEW d \in stable[l]
               PROVE  Cardinality(Lines(l, d)) = 1
    BY DEF ListedOnce
  <2>1. names[l] = << >> /\ Answering(l, d)
    BY DEF ListedInv, Listed
  <2>2. ~Once(names[l], d)
    BY <2>1 DEF Once
  <2>3. PICK i \in DOMAIN Sent(l) : \A j \in DOMAIN Sent(l) : Sent(l)[j] = d <=> j = i
    BY <2>1, <2>2 DEF Answering, Once
  <2>4. Lines(l, d) = {i}
    BY <2>3 DEF Lines, Sent
  <2> QED
    BY <2>4, FS_Singleton
<1> QED
  BY <1>1, ListedInit, ListedNext, PTL DEF Spec
=============================================================================
