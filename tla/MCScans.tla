------------------------------ MODULE MCScans ------------------------------
(* A small instance of Scans: a new organisation, or one with an audit that  *)
(* found nothing.                                                           *)
EXTENDS Scans

MCBefore ==
  {<<>>, <<[kind |-> "before", type |-> "audit", status |-> "completed", found |-> {}]>>}

\* A restart while nothing is under way would change nothing but its count.
RestartsMatter == restarts' # restarts => Live # {}

MCSpec == Init /\ [][Next /\ RestartsMatter]_vars /\ Fairness

=============================================================================
