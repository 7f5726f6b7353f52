------------------------------ MODULE ArticleStore ------------------------------
(***************************************************************************)
(* What one newsgroup promises its readers and posters, without files,     *)
(* locks or processes: an article is published in one step, under a number *)
(* above every number published before; an article never changes, and only *)
(* the administrator removes one.  Numbers may be passed over but are never*)
(* given twice, except those of removed articles that were forgotten.      *)
(***************************************************************************)
EXTENDS Integers

CONSTANT Msg

VARIABLES
  live,   \* the published articles that were not removed: number -> article
  last,   \* the highest number published
  out     \* the articles published or given up

vars == <<live, last, out>>

Init == live = [n \in {} |-> 0] /\ last = 0 /\ out = {}

\* The article appears, with a new number, last'.
Publish(m) ==
  /\ m \notin out
  /\ last' \in Nat /\ last' > last
  /\ live' = [n \in DOMAIN live \cup {last'} |-> IF n = last' THEN m ELSE live[n]]
  /\ out' = out \cup {m}

\* The server gives up on an article it has not published.
GiveUp(m) ==
  /\ m \notin out
  /\ out' = out \cup {m}
  /\ UNCHANGED <<live, last>>

Remove(n) ==
  /\ n \in DOMAIN live
  /\ live' = [k \in DOMAIN live \ {n} |-> live[k]]
  /\ UNCHANGED <<last, out>>

\* The directory is looked through: what was removed above the last article
\* there is forgotten.
Recount ==
  /\ last' \in DOMAIN live \cup {0}
  /\ \A n \in DOMAIN live : n <= last'
  /\ UNCHANGED <<live, out>>

Next ==
  \/ Recount
  \/ \E m \in Msg : Publish(m) \/ GiveUp(m)
  \/ \E n \in DOMAIN live : Remove(n)

Spec == Init /\ [][Next]_vars
=============================================================================
