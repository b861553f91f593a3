\* Three versions with ETags, two browsers.
SPECIFICATION Spec
CONSTANTS
  Client = {c1, c2}
  Version = {1, 2, 3}
  Random = {r1, r2, r3, r4, r5}
  Tag <- Tagged
SYMMETRY Symmetry
INVARIANTS TypeOK FreshBody SameMeansSame
PROPERTY AskedOnlyWhenStale
