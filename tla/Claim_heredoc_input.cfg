\* Opening files never fails; commands may not exist.
SPECIFICATION Spec
CONSTANTS
  MaxFd = 7
  Argcs = {6}
  Flags = {TRUE, FALSE}
  MaxCmds = 3
  InErrs = {}
  OutErrs = {}
  CmdCodes = {0}
  Faults = {"nocmd"}
INVARIANT HereDocFeedsFirst
