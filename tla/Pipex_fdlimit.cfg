\* A descriptor table too small for the two pipes and a file.
SPECIFICATION Spec
CONSTANTS
  MaxFd = 6
  Argcs = {5, 6, 7}
  Flags = {TRUE, FALSE}
  MaxCmds = 4
  InErrs = {2}
  OutErrs = {13}
  CmdCodes = {0, 1}
  Faults = {"fork", "nocmd", "noexec"}
INVARIANT PipexInv
