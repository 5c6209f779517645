--------------------------- MODULE PipexContract ---------------------------
(***************************************************************************)
(* pipex implements PipelineContract: the refinement mapping, and the      *)
(* fairness it takes for pipex to answer.  The scheduler runs every        *)
(* process that can run; that a started command ends is assumed here and   *)
(* shown, for commands that read to the end of file, in module Pipeline.   *)
(***************************************************************************)
EXTENDS Pipex

FairSpec ==
  /\ Spec
  /\ WF_vars(MainStep)
  /\ \A k \in Cmds : WF_vars(ChildStep(k))
  /\ \A k \in Cmds : WF_vars(CommandEnds(k) /\ ParentIdle)

PhaseOf(k) ==
  IF child_pids[k] = -1 THEN "skipped"
  ELSE IF cpc[k] \in {"forked", "exec", "run"} THEN "live"
  ELSE IF cpc[k] \in {"zombie", "reaped"} THEN "ended"
  ELSE "idle"

Abstract == INSTANCE PipelineContract WITH
  size <- nb_cmds,
  phase <- [k \in Cmds |-> PhaseOf(k)],
  result <- status,
  answer <- IF main = "exited" THEN code ELSE -1

(***************************************************************************)
(* Commands start in order, pipex answers exactly once and only when every *)
(* command it started has ended, with their verdict (ft_wait_error), and   *)
(* it does answer.                                                         *)
(***************************************************************************)
Contract == Abstract!Spec

=============================================================================
