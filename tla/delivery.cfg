\* Four clients of one download, and of the file it leaves.
SPECIFICATION Spec
CONSTANTS
  Client = {c1, c2, c3, c4}
  Blocks = 2
SYMMETRY Symmetry
VIEW View
INVARIANTS TypeOK ListAgrees LoopsMissFew
PROPERTY EndIsWhole
