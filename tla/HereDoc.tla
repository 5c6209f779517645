------------------------------ MODULE HereDoc ------------------------------
(***************************************************************************)
(* Several runs of pipex here_doc in one directory, at the same time or    *)
(* one after the other, any process of which may be killed at any moment.  *)
(* They share one name, TEMP_FILE.  Of each run only what touches that     *)
(* name is left: the parent that writes it and unlinks it on each way out, *)
(* the first child that reads it, and the last child, which may unlink it  *)
(* when its command is not found.  The rest of a run is in module Pipex.   *)
(***************************************************************************)
EXTENDS Integers, SequencesExt

CONSTANTS
  Runs,     \* a finite set of numbers
  Size      \* bound on the lines of text a run is given

ASSUME RunsAssumption == Runs \subseteq Nat \ {0} /\ IsFiniteSet(Runs) /\ Size \in Nat

Procs == {"parent", "first", "last"}

VARIABLES
  name,     \* the file TEMP_FILE names, 0 for none
  file,     \* file[n]: its content; a line is <<run, number>>, a hole <<0, 0>>
  pc,       \* pc[r][p]
  out,      \* out[r]: file the parent writes, with its offset: <<file, offset>>
  inp,      \* inp[r]: the file cmd1 has for standard input, 0 before the open
  got,      \* got[r]: what cmd1 has read
  killed,   \* the runs whose parent was killed (history)
  alone,    \* alone[r]: no process of another run that opened TEMP_FILE to write
            \* was there with it (history)
  before    \* before[r]: runs whose parent was gone when r began (history)

vars == <<name, file, pc, out, inp, got, killed, alone, before>>

(* A file and what is read of it are lines of the texts of the runs, or    *)
(* holes.  "exec" is a command that runs, "eof" one that read to the end.  *)
Lines == (Runs \X (1 .. Size)) \cup {<<0, 0>>}

TypeOK ==
  /\ name \in {0} \cup Runs
  /\ file \in [Runs -> Seq(Lines)] /\ got \in [Runs -> Seq(Lines)]
  /\ pc \in [Runs -> [Procs -> {"new", "write", "fork", "exec", "eof", "wait", "gone"}]]
  /\ out \in [Runs -> ({0} \cup Runs) \X (0 .. Size)] /\ inp \in [Runs -> {0} \cup Runs]
  /\ killed \subseteq Runs
  /\ alone \in [Runs -> BOOLEAN] /\ before \in [Runs -> SUBSET Runs]

Init ==
  /\ name = 0
  /\ file = [r \in Runs |-> << >>]
  /\ pc = [r \in Runs |-> [p \in Procs |-> "new"]]
  /\ out = [r \in Runs |-> <<0, 0>>]
  /\ inp = [r \in Runs |-> 0]
  /\ got = [r \in Runs |-> << >>]
  /\ killed = {}
  /\ alone = [r \in Runs |-> TRUE]
  /\ before = [r \in Runs |-> {}]

\* a run is alive as long as one of its processes is, orphans included
Alive(r) == \E p \in Procs : pc[r][p] \notin {"new", "gone"}

Move(r, p, to) == pc' = [pc EXCEPT ![r][p] = to]

\* mutant: without O_TRUNC
OpenedUncut(content) == content

\* mutant: pipex leaves without unlink
UnlinkedNever == name

-----------------------------------------------------------------------------
\* ft_cleanup_exit: whatever TEMP_FILE names now
Unlinked == 0

\* the start-up of a run, or its open, fails
GiveUp(r) ==
  /\ pc[r]["parent"] = "new" /\ Move(r, "parent", "gone")
  /\ name' = Unlinked
  /\ UNCHANGED <<file, out, inp, got, killed, alone, before>>

\* open with O_TRUNC
Opened(content) == << >>

\* ft_here_doc_inp, the open: a file of its own if there is none of the name
Create(r) ==
  LET f      == IF name = 0 THEN r ELSE name
      others == {s \in Runs \ {r} : Alive(s)}
  IN
  /\ pc[r]["parent"] = "new"
  /\ Move(r, "parent", "write")
  /\ name' = f
  /\ file' = [file EXCEPT ![f] = IF name = 0 THEN << >> ELSE Opened(@)]
  /\ out' = [out EXCEPT ![r] = <<f, 0>>]
  /\ alone' = [s \in Runs |-> IF s = r THEN others = {} ELSE alone[s] /\ s \notin others]
  /\ before' = [before EXCEPT ![r] = {s \in Runs : pc[s]["parent"] = "gone"}]
  /\ UNCHANGED <<inp, got, killed>>

\* its loop: one line at the offset of the parent, behind whatever is there now
Write(r) ==
  LET f == out[r][1]
      k == out[r][2] + 1
  IN
  /\ pc[r]["parent"] = "write" /\ out[r][2] < Size
  /\ file' = [file EXCEPT ![f] =
       [i \in 1 .. (IF Len(@) > k THEN Len(@) ELSE k) |->
          IF i = k THEN <<r, k>> ELSE IF i <= Len(@) THEN @[i] ELSE <<0, 0>>]]
  /\ out' = [out EXCEPT ![r][2] = k]
  /\ UNCHANGED <<name, pc, inp, got, killed, alone, before>>

\* the next line is the delimiter; both children are forked, or only the first
Fork(r) ==
  /\ pc[r]["parent"] = "write"
  /\ \E last \in {"fork", "gone"} :
       pc' = [pc EXCEPT ![r] = [p \in Procs |-> IF p = "parent" THEN "wait"
                                                ELSE IF p = "first" THEN "fork" ELSE last]]
  /\ UNCHANGED <<name, file, out, inp, got, killed, alone, before>>

\* ft_fork_first_child finds that there is no first child
ForkFails(r) ==
  /\ pc[r]["parent"] = "write" /\ Move(r, "parent", "gone")
  /\ name' = Unlinked
  /\ UNCHANGED <<file, out, inp, got, killed, alone, before>>

\* ft_here_doc: reopen; a command that is not found takes the same way out
OpenTemp(r) ==
  /\ pc[r]["first"] = "fork"
  /\ inp' = [inp EXCEPT ![r] = name]
  /\ \/ name # 0 /\ Move(r, "first", "exec") /\ UNCHANGED name
     \/ Move(r, "first", "gone") /\ name' = Unlinked
  /\ UNCHANGED <<file, out, got, killed, alone, before>>

\* cmd1 reads on in the file it was given
ReadTemp(r) ==
  /\ pc[r]["first"] = "exec"
  /\ IF Len(got[r]) < Len(file[inp[r]])
     THEN got' = [got EXCEPT ![r] = Append(@, file[inp[r]][Len(@) + 1])] /\ UNCHANGED pc
     ELSE Move(r, "first", "eof") /\ UNCHANGED got
  /\ UNCHANGED <<name, file, out, inp, killed, alone, before>>

CmdEnds(r) ==
  /\ \/ pc[r]["first"] = "eof" /\ Move(r, "first", "gone")
     \/ pc[r]["last"] = "exec" /\ Move(r, "last", "gone")
  /\ UNCHANGED <<name, file, out, inp, got, killed, alone, before>>

\* ft_parent_process: execve, or the way out through ft_cleanup_exit
LastChild(r) ==
  /\ pc[r]["last"] = "fork"
  /\ \/ Move(r, "last", "exec") /\ UNCHANGED name
     \/ Move(r, "last", "gone") /\ name' = Unlinked
  /\ UNCHANGED <<file, out, inp, got, killed, alone, before>>

\* ft_wait_error and the end of pipex
Finish(r) ==
  /\ pc[r]["parent"] = "wait" /\ pc[r]["first"] = "gone" /\ pc[r]["last"] = "gone"
  /\ Move(r, "parent", "gone")
  /\ name' = Unlinked
  /\ UNCHANGED <<file, out, inp, got, killed, alone, before>>

\* a signal; the children of a killed parent live on
Kill(r) ==
  \E p \in Procs :
    /\ pc[r][p] \notin {"new", "gone"}
    /\ Move(r, p, "gone")
    /\ killed' = IF p = "parent" THEN killed \cup {r} ELSE killed
    /\ UNCHANGED <<name, file, out, inp, got, alone, before>>

AllGone == \A r \in Runs : pc[r]["parent"] # "new" /\ ~Alive(r)

Next ==
  \/ \E r \in Runs : \/ GiveUp(r) \/ Create(r) \/ Write(r) \/ Fork(r) \/ ForkFails(r)
                     \/ OpenTemp(r) \/ ReadTemp(r) \/ CmdEnds(r) \/ LastChild(r)
                     \/ Finish(r) \/ Kill(r)
  \/ AllGone /\ UNCHANGED vars

Spec == Init /\ [][Next]_vars

-----------------------------------------------------------------------------
Text(r) == [k \in 1 .. out[r][2] |-> <<r, k>>]

(* A run with which no process of another writer was alive gives cmd1 its  *)
(* own text from the first line to the last, whatever runs that were       *)
(* killed before it have left in TEMP_FILE; unless its own last child, or  *)
(* a run that came no further than its start-up, unlinked the file first:  *)
(* then cmd1 does not start.                                               *)
OwnText ==
  \A r \in Runs : alone[r] =>
    /\ IsPrefix(got[r], Text(r))
    /\ pc[r]["first"] = "eof" => got[r] = Text(r)

(* Even of runs that overlap none reads a line of a run whose parent was   *)
(* gone when it began.                                                     *)
NoStaleLine ==
  \A r \in Runs : \A i \in DOMAIN got[r] : got[r][i][1] \notin before[r]

(* TEMP_FILE names a file only as long as the parent of a run that opened  *)
(* this very file lives, or after it was killed.                           *)
LeftByKilled ==
  name # 0 =>
    \E r \in Runs :
      /\ out[r][1] = name
      /\ r \in killed \/ pc[r]["parent"] \in {"write", "wait"}

(* The file system and the processes keep their type, and TEMP_FILE its    *)
(* owner.                                                                  *)
FileInv == TypeOK /\ LeftByKilled
=============================================================================
