-------------------------------- MODULE Daemon --------------------------------
(***************************************************************************)
(* The accept loop of the daemon (newsd.C, main), the processes it forks   *)
(* and sigcld_handler, which interrupts the loop between any two machine   *)
(* instructions.                                                           *)
(*                                                                         *)
(* The counter G_numclients limits the clients to MaxClients.  The handler *)
(* decrements it; the loop increments it after fork, by a load, an add and *)
(* a store of which the handler may separate any two.                      *)
(***************************************************************************)
EXTENDS Integers

CONSTANTS
  MaxClients,   \* newsd.conf MaxClients; 0: no limit
  ReapLimit     \* how many children one run of the handler reaps (100)

ASSUME MaxClientsAssumption == MaxClients \in Nat
ASSUME ReapLimitAssumption == ReapLimit \in Nat \ {0}

VARIABLES
  pc,             \* where the accept loop is
  G_numclients,
  reg,            \* the register of G_numclients ++
  live,           \* how many child processes serve a client
  zombies,        \* how many ended and were not waited for
  sigchld         \* whether SIGCHLD is pending

vars == <<pc, G_numclients, reg, live, zombies, sigchld>>
children == <<live, zombies, sigchld>>

PC == {"accept", "check", "fork", "load", "store"}

\* Every variable keeps its type; G_numclients, which is unsigned, does not go
\* below 0 although the handler may decrement it before it was incremented.
TypeOK ==
  /\ pc \in PC
  /\ G_numclients \in Nat
  /\ reg \in Nat
  /\ live \in Nat
  /\ zombies \in Nat
  /\ sigchld \in BOOLEAN

Init ==
  /\ pc = "accept" /\ G_numclients = 0 /\ reg = 0
  /\ live = 0 /\ zombies = 0 /\ sigchld = FALSE

Go(from, to) == pc = from /\ pc' = to

-----------------------------------------------------------------------------
\* accept(2) returns a connection.
Accept ==
  /\ Go("accept", "check")
  /\ UNCHANGED <<G_numclients, reg, children>>

FullLate == MaxClients # 0 /\ G_numclients > MaxClients       \* faulty
Full == MaxClients # 0 /\ G_numclients >= MaxClients

\* "400 Server has too many connections open -- try again later"
Refuse ==
  /\ Full
  /\ Go("check", "accept")
  /\ UNCHANGED <<G_numclients, reg, children>>

Admit ==
  /\ ~Full
  /\ Go("check", "fork")
  /\ UNCHANGED <<G_numclients, reg, children>>

\* fork(2).  When it fails it is tried again every 10 seconds, with no change
\* of state, until it succeeds.
Fork ==
  /\ Go("fork", "load")
  /\ live' = live + 1
  /\ UNCHANGED <<G_numclients, reg, zombies, sigchld>>

\* G_numclients ++ in the parent.
Load ==
  /\ Go("load", "store")
  /\ reg' = G_numclients
  /\ UNCHANGED <<G_numclients, children>>

Store ==
  /\ Go("store", "accept")
  /\ G_numclients' = reg + 1
  /\ UNCHANGED <<reg, children>>

\* A child ends: QUIT, the connection closed, a timeout, a signal.
Exit ==
  /\ live > 0
  /\ live' = live - 1 /\ zombies' = zombies + 1 /\ sigchld' = TRUE
  /\ UNCHANGED <<pc, G_numclients, reg>>

Least(a, b) == IF a < b THEN a ELSE b

\* Faulty: one child is reaped for a signal.
ReapOne ==
  /\ sigchld
  /\ zombies' = zombies - 1
  /\ G_numclients' = IF G_numclients > 1 THEN G_numclients - 1 ELSE 0
  /\ sigchld' = FALSE
  /\ UNCHANGED <<pc, reg, live>>

\* Faulty: the handler does not look whether the counter is 0 already.
ReapBelowZero ==
  /\ sigchld
  /\ LET n == Least(zombies, ReapLimit) IN
       /\ zombies' = zombies - n
       /\ G_numclients' = G_numclients - n
  /\ sigchld' = FALSE
  /\ UNCHANGED <<pc, reg, live>>

\* Faulty: the count is reset when the last zombie is gone.
ReapReset ==
  /\ sigchld
  /\ zombies' = 0 /\ G_numclients' = 0
  /\ sigchld' = FALSE
  /\ UNCHANGED <<pc, reg, live>>

\* sigcld_handler: SIGCHLD does not interrupt it, and does not queue.
Reap ==
  /\ sigchld
  /\ LET n == Least(zombies, ReapLimit) IN
       /\ zombies' = zombies - n
       /\ G_numclients' = IF G_numclients > n THEN G_numclients - n ELSE 0
  /\ sigchld' = FALSE
  /\ UNCHANGED <<pc, reg, live>>

Main == Accept \/ Refuse \/ Admit \/ Fork \/ Load \/ Store

Next == Main \/ Exit \/ Reap

Spec == Init /\ [][Next]_vars

\* A pending signal is delivered and the loop runs on; that clients connect or
\* leave is not assumed.
FairSpec ==
  /\ Spec
  /\ WF_vars(Reap) /\ WF_vars(Refuse \/ Admit \/ Fork \/ Load \/ Store)

-----------------------------------------------------------------------------
(* Properties.                                                             *)

\* The child just forked that G_numclients does not count yet.
Uncounted == IF pc \in {"load", "store"} THEN 1 ELSE 0

\* No more clients are served than MaxClients (newsd.conf.pod), whenever the
\* handler runs: the counter may be too high, never too low.
MaxClientsHold == MaxClients # 0 => live <= MaxClients

\* The counter, the increment under way included, never falls below the number
\* of children that were not reaped.
NeverUndercounts == live + zombies <= G_numclients + Uncounted

\* A client is turned away only while MaxClients others are being served or
\* have just left (newsd.conf.pod: MaxClients is a number of simultaneous
\* clients; 400 says "try again later").
RefusedOnlyWhenFull ==
  [][pc = "check" /\ pc' = "accept" => live + zombies >= MaxClients]_vars

\* Children that ended do not stay zombies, although SIGCHLD is sent once for
\* several that end together.
ZombiesReaped == []<>(zombies = 0)
=============================================================================
