--------------------------- MODULE MCRemoteFixes ---------------------------
(* Small instances of RemoteFixes.  Requests are interchangeable.            *)
EXTENDS RemoteFixes, TLC

Symmetry == Permutations(Requests)

=============================================================================
