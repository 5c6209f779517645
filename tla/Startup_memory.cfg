\* Up to three commands, here_doc, and an allocation that may fail at each call.
SPECIFICATION Spec
CONSTANTS
  Argcs = {4, 5, 6}
  Words = {0, 1, 2}
  Dirs <- ThreeDirs
INVARIANTS LeftBehind FindsFirst AllSet StructInv
