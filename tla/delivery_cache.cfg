\* Cache.cpp:22-31 and Http.cpp:1950-1951 against the code.
SPECIFICATION Spec
CONSTANTS
  Client = {c1}
  Blocks = 2
SYMMETRY Symmetry
INVARIANT CacheIsWhole
