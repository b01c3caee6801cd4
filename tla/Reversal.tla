------------------------------ MODULE Reversal ------------------------------
(***************************************************************************)
(* What the record of remote fixes promises: a fix is undone by one person *)
(* at a time, an undo that failed can be tried again, and one that is done *)
(* is done for good.                                                       *)
(***************************************************************************)
CONSTANT Fixes

VARIABLE state      \* what has become of each fix

TypeOK == state \in [Fixes -> {"none", "applied", "undoing", "undone"}]

Init == state = [f \in Fixes |-> "none"]

\* Only the fix f moves, from one state to the next.
Move(f, from, to) == state[f] = from /\ state' = [state EXCEPT ![f] = to]

Apply(f)    == Move(f, "none", "applied")
Claim(f)    == Move(f, "applied", "undoing")
Finish(f)   == Move(f, "undoing", "undone")
GiveBack(f) == Move(f, "undoing", "applied")

Next == \E f \in Fixes : Apply(f) \/ Claim(f) \/ Finish(f) \/ GiveBack(f)

Spec == Init /\ [][Next]_state

=============================================================================
