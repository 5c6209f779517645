\* Two descriptors whose calls are mixed and may fail; the caller reads both
\* until NULL.
SPECIFICATION FairSpec
CONSTANTS
  Fds = {0, 3}
  Inputs <- TextInputs
  BufferSize = 2
  Faults <- AllFaults
  Null = Null
PROPERTY StreamSpec
