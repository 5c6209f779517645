\* The reuse of the two pipe slots over five commands, and two to four; every
\* fork and every pipe of ft_malcolm may fail.
SPECIFICATION Spec
CONSTANTS
  MaxFd = 7
  Argcs = {5, 6, 7, 8}
  Flags = {TRUE, FALSE}
  MaxCmds = 5
  InErrs = {2}
  OutErrs = {13}
  CmdCodes = {0}
  Faults = {"fork", "nocmd", "pipe"}
INVARIANTS PipexInv Plumbing NoStrayEnds
