------------------------------- MODULE MCPipex -------------------------------
(* Values for the constants of Pipex, for model checking. *)
EXTENDS PipexContract, PipexInvariants, PipexClaims

AllFaults    == FaultKinds
NoPipeFaults == FaultKinds \ {"pipe"}

=============================================================================
