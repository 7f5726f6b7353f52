----------------------------- MODULE DaemonProofs -----------------------------
(***************************************************************************)
(* Proofs about Daemon, for every MaxClients and ReapLimit.                *)
(***************************************************************************)
EXTENDS Daemon, TLAPS

\* The children there are, and the one that is about to be forked.
Children == live + zombies
Coming == IF pc = "fork" THEN 1 ELSE 0

\* While the loop holds the counter in its register, the handler may lower the
\* counter and the number of children; the register stays an upper bound.
RegisterCovers == pc = "store" => Children <= reg + 1

\* MaxClients bounds all children, the one under way included: it was admitted
\* when the counter, and so the children, were fewer than MaxClients.
WithinLimit == MaxClients # 0 => Children + Coming <= MaxClients

CountInv == TypeOK /\ NeverUndercounts /\ RegisterCovers /\ WithinLimit

\* The initial state has no children.
LEMMA CountInit == Init => CountInv
<1> SUFFICES ASSUME Init PROVE CountInv
  OBVIOUS
<1>1. sigchld \in BOOLEAN
  BY Zenon DEF Init
<1>2. TypeOK
  BY <1>1 DEF Init, TypeOK, PC
<1>3. NeverUndercounts /\ RegisterCovers /\ WithinLimit
  BY MaxClientsAssumption
  DEF Init, NeverUndercounts, RegisterCovers, WithinLimit, Children, Coming, Uncounted
<1> QED
  BY <1>2, <1>3 DEF CountInv

\* One run of the handler takes the children it reaps from the counter, which
\* it does not lower below 0.
LEMMA CountReap == ASSUME CountInv, Reap PROVE CountInv'
<1> USE DEF CountInv, TypeOK
<1> DEFINE n == Least(zombies, ReapLimit)
<1>1. n \in Nat /\ n <= zombies
  BY ReapLimitAssumption DEF Least
<1>2. /\ zombies' = zombies - n
      /\ G_numclients' = IF G_numclients > n THEN G_numclients - n ELSE 0
      /\ UNCHANGED <<pc, reg, live>> /\ sigchld' = FALSE
  BY DEF Reap
<1>3. TypeOK'
  <2>1. sigchld' \in BOOLEAN
    BY <1>2, Zenon
  <2>2. zombies' \in Nat /\ G_numclients' \in Nat
    BY <1>1, <1>2
  <2> QED
    BY <1>2, <2>1, <2>2
<1>4. NeverUndercounts'
  BY <1>1, <1>2 DEF NeverUndercounts, Uncounted
<1>5. RegisterCovers' /\ WithinLimit'
  BY <1>1, <1>2, MaxClientsAssumption DEF RegisterCovers, WithinLimit, Children, Coming
<1> QED
  BY <1>3, <1>4, <1>5

\* The accept loop counts a child after it forked it.
LEMMA CountMain == ASSUME CountInv, Main PROVE CountInv'
<1> USE MaxClientsAssumption
        DEF CountInv, TypeOK, PC, NeverUndercounts, RegisterCovers, WithinLimit,
            Children, Coming, Uncounted, Go, children
<1>1. CASE Accept
  BY <1>1 DEF Accept
<1>2. CASE Refuse
  BY <1>2 DEF Refuse
<1>3. CASE Admit
  BY <1>3 DEF Admit, Full
<1>4. CASE Fork
  BY <1>4 DEF Fork
<1>5. CASE Load
  BY <1>5 DEF Load
<1>6. CASE Store
  BY <1>6 DEF Store
<1> QED
  BY <1>1, <1>2, <1>3, <1>4, <1>5, <1>6 DEF Main

\* The invariant holds in every reachable state.
LEMMA CountAlways == Spec => []CountInv
<1>1. CountInv /\ [Next]_vars => CountInv'
  <2> SUFFICES ASSUME CountInv, [Next]_vars PROVE CountInv'
    OBVIOUS
  <2>1. CASE Exit
    BY <2>1, MaxClientsAssumption
    DEF Exit, CountInv, TypeOK, NeverUndercounts, RegisterCovers, WithinLimit,
        Children, Coming, Uncounted
  <2>2. CASE UNCHANGED vars
    BY <2>2 DEF vars, CountInv, TypeOK, NeverUndercounts, RegisterCovers,
                WithinLimit, Children, Coming, Uncounted
  <2> QED
    BY <2>1, <2>2, CountMain, CountReap DEF Next
<1> QED
  BY <1>1, CountInit, PTL DEF Spec

\* The counter never goes below 0 and the pc stays in the loop.
THEOREM DaemonTypeCorrect == Spec => []TypeOK
<1>1. CountInv => TypeOK
  BY DEF CountInv
<1> QED
  BY <1>1, CountAlways, PTL

\* The counter, with the increment under way, never falls below the number of
\* children, wherever sigcld_handler interrupts the accept loop.
THEOREM CounterCovers == Spec => []NeverUndercounts
<1>1. CountInv => NeverUndercounts
  BY DEF CountInv
<1> QED
  BY <1>1, CountAlways, PTL

\* No more than MaxClients clients are served, although the loop counts a child
\* after it has forked it and by steps that the handler separates.
THEOREM ClientLimit == Spec => []MaxClientsHold
<1>1. CountInv => MaxClientsHold
  BY MaxClientsAssumption DEF CountInv, TypeOK, WithinLimit, Children, Coming, MaxClientsHold
<1> QED
  BY <1>1, CountAlways, PTL
=============================================================================
