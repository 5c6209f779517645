\* Opening the temporary file may fail.
SPECIFICATION Spec
CONSTANTS
  MaxFd = 7
  Argcs = {6}
  Flags = {TRUE, FALSE}
  MaxCmds = 3
  InErrs = {13}
  OutErrs = {}
  CmdCodes = {0}
  Faults = {"nocmd"}
INVARIANT HereDocBlamesTempFile
