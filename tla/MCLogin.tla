------------------------------ MODULE MCLogin ------------------------------
(* What guards the login: small instances of TwoFactor and of RateLimit.     *)
(* They share no state, so a behaviour is of one part, chosen at the start,  *)
(* and the other rests.  Requests about the second factor are                *)
(* interchangeable, and so are the recovery codes of one setup.              *)
EXTENDS TwoFactor, RateLimit, TLC

VARIABLE part

MCInit == Init /\ LimiterInit /\ part \in {"second factor", "limiter"}

MCNext ==
  /\ part' = part
  /\ \/ part = "second factor" /\ Next /\ UNCHANGED limiterVars
     \/ part = "limiter" /\ LimiterNext /\ UNCHANGED vars

MCSpec == MCInit /\ [][MCNext]_<<part, vars, limiterVars>>

Symmetry == Permutations(Requests) \cup Permutations(Slots)

\* What the invariants of TwoFactor promise ends with the first write on a stale row:
\* the states after it are not explored.
Untorn == ~torn

=============================================================================
