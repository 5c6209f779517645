-------------------------- MODULE PipelineContract --------------------------
(***************************************************************************)
(* What a user of pipex may rely on, with no process, descriptor or wait   *)
(* in sight: the commands of a pipeline are started in order, each of them *)
(* at most once; pipex answers once, when every command it started has     *)
(* ended; and the answer is the verdict on how they ended.  A command      *)
(* whose fork failed is skipped, and then the answer is only one of the    *)
(* verdicts there are.                                                     *)
(***************************************************************************)
EXTENDS ExitStatus

CONSTANT MaxCmds

Cmds == 0 .. MaxCmds - 1

Undecided == -1

VARIABLES
  size,      \* the number of commands, 0 until the command line is accepted
  phase,     \* "idle", "live", "ended" or "skipped"
  result,    \* the wait status of a command that has ended
  answer     \* the exit status of pipex, or Undecided

vars == <<size, phase, result, answer>>

Init ==
  /\ size = 0 /\ answer = Undecided
  /\ phase = [k \in Cmds |-> "idle"]
  /\ result = [k \in Cmds |-> 0]

Accept ==
  /\ size = 0 /\ answer = Undecided
  /\ size' \in 2 .. MaxCmds
  /\ UNCHANGED <<phase, result, answer>>

(* Nothing was started: pipex may give up for reasons of its own. *)
Refuse ==
  /\ answer = Undecided
  /\ \A k \in Cmds : phase[k] = "idle"
  /\ answer' \in Status
  /\ size' \in 0 .. MaxCmds /\ (size # 0 => size' = size)
  /\ \/ UNCHANGED phase
     \/ phase' = [phase EXCEPT ![0] = "skipped"]
  /\ UNCHANGED result

Start(k) ==
  /\ answer = Undecided
  /\ k < size /\ phase[k] = "idle"
  /\ \A j \in 0 .. k - 1 : phase[j] # "idle"
  /\ \E p \in {"live", "skipped"} : phase' = [phase EXCEPT ![k] = p]
  /\ UNCHANGED <<size, result, answer>>

End(k) ==
  /\ phase[k] = "live"
  /\ phase' = [phase EXCEPT ![k] = "ended"]
  /\ \E st \in Status : result' = [result EXCEPT ![k] = st]
  /\ UNCHANGED <<size, answer>>

Decide ==
  /\ answer = Undecided /\ size > 0
  /\ \A k \in 0 .. size - 1 : phase[k] \in {"ended", "skipped"}
  /\ answer' = Verdict(size, result)
       \/ (answer' \in {0, 1, NotFound} /\ \E k \in 0 .. size - 1 : phase[k] = "skipped")
  /\ UNCHANGED <<size, phase, result>>

Next == Accept \/ Refuse \/ (\E k \in Cmds : Start(k) \/ End(k)) \/ Decide

(* What may happen, and what must: every started command ends, an answer is given. *)
Safety == Init /\ [][Next]_vars
Spec   == Safety /\ WF_vars(Next)

=============================================================================
