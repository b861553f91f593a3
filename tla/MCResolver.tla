---------------------------- MODULE MCResolver ----------------------------
(* Small instances of Resolver for TLC.                                    *)
EXTENDS Resolver, TLC

Symmetry == Permutations(Client) \cup Permutations(Host) \cup Permutations(Id)

\* A part of the state graph that is enough for a counterexample: nothing is
\* cached, nobody leaves.
EarlyOnly == newC = {} /\ \A h \in Host : cache[h] = None
=============================================================================
