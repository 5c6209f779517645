\* Two runs of two lines, killed or not, one after the other or at the same time.
SPECIFICATION Spec
CONSTANTS
  Runs = {1, 2}
  Size = 2
INVARIANTS OwnText NoStaleLine FileInv
