--------------------------- MODULE MCBackendPool ---------------------------
(* Small instances of BackendPool for TLC.                                 *)
EXTENDS BackendPool, TLC

Symmetry == Permutations(Http) \cup Permutations(Backend) \cup Permutations(Path)
=============================================================================
