\* What flows through two to four commands, any of which may stop early; every
\* pipe of ft_malcolm and every fork may fail.
\* pipex comes to an end or hangs, so the last state has no successor.
SPECIFICATION PSpec
CONSTANTS
  MaxFd = 7
  Argcs = {6, 7}
  Flags = {TRUE, FALSE}
  MaxCmds = 4
  InErrs = {2}
  OutErrs = {13}
  CmdCodes = {0, 1}
  Faults = {"fork", "nocmd", "pipe", "signal"}
  InputLen = 2
  Capacity = 1
  Lazy = {0, 1, 2}
CHECK_DEADLOCK FALSE
INVARIANTS InOrder Conserved Delivered
PROPERTY HangsOnlyOnLostPipe
