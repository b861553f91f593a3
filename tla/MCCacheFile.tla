---------------------------- MODULE MCCacheFile ----------------------------
(* Instances of CacheFile: which ETags the origin sends with its versions. *)
EXTENDS CacheFile, TLC

ETag(n, s) == [name |-> n, size |-> s]

\* A short one, the longest that is stored, and one too long for the format.
Tagged == [v \in Version |-> CASE v = 1 -> ETag("a", 10) [] v = 2 -> ETag("b", 127) [] v = 3 -> ETag("c", 256)]

\* One version is published without an ETag.
Untagged == [v \in Version |-> IF v = 1 THEN ETag("a", 10) ELSE NoTag]

\* An ETag of 200 characters.
Wide == [v \in Version |-> ETag("a", 200)]

Symmetry == Permutations(Client) \cup Permutations(Random)
=============================================================================
