\* The text of a here_doc, with every failure in every combination.
SPECIFICATION HereDocSpec
CONSTANTS
  Fds = {0}
  Inputs <- DocInputs
  BufferSize = 2
  Faults <- AllFaults
  Null = Null
  Delimiter <- TheDelimiter
  WriteFails = TRUE
INVARIANTS LineInv NothingLost LinesWhole EndsClean TempIsText LookAheadBounded
PROPERTY InputEnds
