----------------------------- MODULE MCAccounts -----------------------------
(* Small instances of Accounts.  Users, session ids and request slots are    *)
(* interchangeable: no row exists before the superadmin creates one.         *)
EXTENDS Accounts, TLC

Symmetry ==
  Permutations(Users) \cup Permutations(Jtis) \cup Permutations(Requests)

=============================================================================
