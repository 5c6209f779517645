\* Every way in which a call can fail, up to three commands, and here_doc.
SPECIFICATION FairSpec
CONSTANTS
  MaxFd = 7
  Argcs = {4, 5, 6}
  Flags = {TRUE, FALSE}
  MaxCmds = 3
  InErrs = {2, 13}
  OutErrs = {13, 21}
  CmdCodes = {0, 1}
  Faults <- AllFaults
INVARIANTS TypeOK NoOrphans ExitTruth ReportTruth TempGone AnswerInv
PROPERTIES VerdictSticks Contract
