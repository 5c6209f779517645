\* A command line with an argument that holds no word.
SPECIFICATION Spec
CONSTANTS
  MaxFd = 7
  Argcs = {5, 6}
  Flags = {TRUE, FALSE}
  MaxCmds = 3
  InErrs = {}
  OutErrs = {}
  CmdCodes = {0}
  Faults = {"empty"}
INVARIANT InvalidCommandIsNotFound
