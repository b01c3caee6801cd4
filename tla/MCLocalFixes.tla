---------------------------- MODULE MCLocalFixes ----------------------------
(* Small instances of LocalFixes.  Requests are interchangeable, and so are  *)
(* the options of sshd.                                                      *)
EXTENDS LocalFixes, TLC

Symmetry == Permutations(Requests) \cup Permutations(Options)

=============================================================================
