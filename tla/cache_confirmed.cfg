\* Cache.cpp:24 against the code: a version without ETag between two that have one.
SPECIFICATION Spec
CONSTANTS
  Client = {c1, c2}
  Version = {1, 2}
  Random = {r1, r2, r3, r4, r5}
  Tag <- Untagged
SYMMETRY Symmetry
INVARIANT FreshBody
