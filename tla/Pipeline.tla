------------------------------ MODULE Pipeline ------------------------------
(***************************************************************************)
(* Pipex with the data: what the commands read and write through the       *)
(* descriptors pipex has set up for them, with pipes of bounded capacity,  *)
(* end of file, and SIGPIPE.  The commands themselves are outside the      *)
(* repository.  They are filters that pass on what they read and end well  *)
(* at end of file; those in Lazy may also stop before they have read it    *)
(* all.                                                                    *)
(***************************************************************************)
EXTENDS PipexInvariants

CONSTANTS
  InputLen,   \* number of items in the input of the pipeline
  Capacity,   \* how many items a pipe can hold
  Lazy        \* the commands that may stop early, a subset of Cmds

(* A command may exit with 0, and be ended by SIGPIPE. *)
ASSUME PipelineAssumption ==
  /\ InputLen \in Nat /\ Capacity \in Nat \ {0} /\ Lazy \subseteq Cmds
  /\ 0 \in CmdCodes /\ "signal" \in Faults

Nothing == 0
Old     == InputLen + 1         \* what the outfile held before this run

(* The items a + 1 .. b, in this order. *)
Stretch(a, b) == [n \in 1 .. b - a |-> a + n]

Input == Stretch(0, InputLen)

VARIABLES
  source,    \* what is still to be read from the infile or TEMP_FILE
  buffer,    \* the contents of every pipe
  held,      \* the item a command has read and not yet written
  out,       \* the contents of the outfile
  taken,     \* history: how many items a command has read
  drained    \* history: the command has read to the end of its input

data  == <<source, buffer, held, out, taken, drained>>
pvars == <<vars, data>>

PipeNo == 1 .. MaxCmds + 1

PInit ==
  /\ Init
  /\ source = Input /\ buffer = [p \in PipeNo |-> <<>>]
  /\ held = [k \in Cmds |-> Nothing] /\ out = <<Old>>
  /\ taken = [k \in Cmds |-> 0] /\ drained = [k \in Cmds |-> FALSE]

(* Does some process still hold this end of a pipe? *)
Held(d) == Holds(fd, d) \/ \E k \in Cmds : Holds(cfd[k], d)

-----------------------------------------------------------------------------
(***************************************************************************)
(* The commands.  Reading a terminal is taken to meet the end of file.     *)
(***************************************************************************)
In(k)  == cfd[k][STDIN]
Out(k) == cfd[k][STDOUT]
ReadsPipe(k, p)  == p \in PipeNo /\ In(k) = ReadEnd(p)
WritesPipe(k, p) == p \in PipeNo /\ Out(k) = WriteEnd(p)
ReadsFile(k) == In(k) \in {Infile, TempOf(0), TempOf(1)}

CommandReads(k) ==
  /\ cpc[k] = "run" /\ held[k] = Nothing
  /\ \/ /\ ReadsFile(k) /\ source # <<>>
        /\ held' = [held EXCEPT ![k] = Head(source)]
        /\ source' = Tail(source) /\ UNCHANGED buffer
     \/ \E p \in PipeNo :
          /\ ReadsPipe(k, p) /\ buffer[p] # <<>>
          /\ held' = [held EXCEPT ![k] = Head(buffer[p])]
          /\ buffer' = [buffer EXCEPT ![p] = Tail(@)] /\ UNCHANGED source
  /\ taken' = [taken EXCEPT ![k] = @ + 1]
  /\ UNCHANGED <<vars, out, drained>>

AtEndOfFile(k) ==
  \/ ReadsFile(k) /\ source = <<>>
  \/ In(k) = Terminal
  \/ \E p \in PipeNo : ReadsPipe(k, p) /\ buffer[p] = <<>> /\ ~Held(WriteEnd(p))

CommandWrites(k) ==
  /\ cpc[k] = "run" /\ held[k] # Nothing
  /\ \/ Out(k) = Outfile /\ out' = Append(out, held[k]) /\ UNCHANGED buffer
     \/ Out(k) = Terminal /\ UNCHANGED <<out, buffer>>
     \/ \E p \in PipeNo :
          /\ WritesPipe(k, p) /\ Held(ReadEnd(p)) /\ Len(buffer[p]) < Capacity
          /\ buffer' = [buffer EXCEPT ![p] = Append(@, held[k])] /\ UNCHANGED out
  /\ held' = [held EXCEPT ![k] = Nothing]
  /\ UNCHANGED <<vars, source, taken, drained>>

CommandOver(k, st) ==
  ChildEnds(k, st, "ran") /\ ParentIdle /\ UNCHANGED <<cpipe, temp>>

EndsAtEof(k) ==
  /\ cpc[k] = "run" /\ held[k] = Nothing /\ AtEndOfFile(k)
  /\ CommandOver(k, 0)
  /\ drained' = [drained EXCEPT ![k] = TRUE]
  /\ UNCHANGED <<source, buffer, held, out, taken>>

BrokenPipe(k) ==
  /\ cpc[k] = "run" /\ held[k] # Nothing
  /\ \E p \in PipeNo : WritesPipe(k, p) /\ ~Held(ReadEnd(p))
  /\ CommandOver(k, Killed) /\ UNCHANGED data

StopsEarly(k) ==
  /\ k \in Lazy /\ cpc[k] = "run"
  /\ \E st \in CmdCodes : CommandOver(k, st)
  /\ UNCHANGED data

CommandStep(k) == CommandReads(k) \/ CommandWrites(k) \/ EndsAtEof(k) \/ BrokenPipe(k)

-----------------------------------------------------------------------------
(***************************************************************************)
(* The steps of pipex.  ft_parent_process opens the outfile with O_TRUNC,  *)
(* or in here_doc mode with O_APPEND.                                      *)
(***************************************************************************)
OpensOutfile(k) == k = nb_cmds - 1 /\ cpc[k] = "forked" /\ cpc'[k] = "exec"

PipexMainStep == MainStep /\ UNCHANGED data

(* Mutant: no O_TRUNC. *)
PipexChildStepKeepingOutfile(k) == ChildStep(k) /\ UNCHANGED data

PipexChildStep(k) ==
  /\ ChildStep(k)
  /\ out' = IF OpensOutfile(k) /\ mode = "regular" THEN <<>> ELSE out
  /\ UNCHANGED <<source, buffer, held, taken, drained>>

PNext ==
  \/ PipexMainStep
  \/ \E k \in Cmds : PipexChildStep(k) \/ CommandStep(k) \/ StopsEarly(k)

(* Every process that can take a step is scheduled at last; none has to stop early. *)
PSpec ==
  /\ PInit /\ [][PNext]_pvars
  /\ WF_pvars(PipexMainStep)
  /\ \A k \in Cmds : WF_pvars(PipexChildStep(k)) /\ WF_pvars(CommandStep(k))

-----------------------------------------------------------------------------
(***************************************************************************)
(* Properties.                                                             *)
(***************************************************************************)
(* The outfile as this run found it: truncated, or kept in here_doc mode. *)
Kept == IF mode = "here_doc" THEN <<Old>> ELSE <<>>

(***************************************************************************)
(* Nothing is reordered, duplicated or mixed in on its way through the     *)
(* chain: the outfile is as it was, or what pipex keeps of it followed by  *)
(* an initial part of the input.                                           *)
(***************************************************************************)
InOrder ==
  \/ out = <<Old>>
  \/ \E n \in 0 .. InputLen : out = Kept \o Stretch(0, n)

(* How many items command k has written. *)
Passed(k) == IF held[k] = Nothing THEN taken[k] ELSE taken[k] - 1

(***************************************************************************)
(* Every item of the input is in one place: what has left one place has    *)
(* arrived in the next, from the input over the pipes, Link(k) before      *)
(* command k, to the outfile.                                              *)
(***************************************************************************)
InOnePlace ==
  /\ source = Stretch(taken[0], InputLen)
  /\ \A k \in 1 .. nb_cmds - 1 :
       taken[k] <= Passed(k - 1) /\ buffer[Link(k)] = Stretch(taken[k], Passed(k - 1))
  /\ \/ out = <<Old>> /\ Passed(nb_cmds - 1) = 0
     \/ out = Kept \o Stretch(0, Passed(nb_cmds - 1))

(***************************************************************************)
(* A pipe with something in it is never without a read end, and so its     *)
(* contents are not thrown away, until the command that is to read it has  *)
(* ended or could not be forked: while ft_malcolm closes and renews the    *)
(* slots the read end is in pipex or in a child that is not yet set up,    *)
(* however far the command that writes has come by then.                   *)
(***************************************************************************)
KeptForReader ==
  \A k \in 1 .. nb_cmds - 1 :
    buffer[Link(k)] # <<>> /\ child_pids[k] # -1 /\ cpc[k] \notin {"zombie", "reaped"}
      => Held(ReadEnd(Link(k)))

(***************************************************************************)
(* As long as no pipe was refused every item is in one place, and a pipe   *)
(* keeps it for its reader.  Pipes and files that the children have taken  *)
(* over from pipex lose and repeat nothing, also while neighbours are      *)
(* still being forked, when a fork has failed and when a command has died  *)
(* with what it held.                                                      *)
(***************************************************************************)
Conserved ==
  ~PipeLost =>
    /\ nb_cmds >= 2 => InOnePlace
    /\ main # "exited" => KeptForReader

(***************************************************************************)
(* If every command has read its input to the end, all of the input is in  *)
(* the outfile and pipex answers 0.                                        *)
(***************************************************************************)
Delivered ==
  (/\ ~PipeLost /\ Waited
   /\ \A k \in 0 .. nb_cmds - 1 : drained[k])
  => out = Kept \o Input /\ code = 0

(***************************************************************************)
(* pipex comes to an end, unless a pipe was refused: no command waits for  *)
(* ever for an end of file that a forgotten descriptor holds back, and the *)
(* parent waits for every child in turn without holding up any of them.    *)
(***************************************************************************)
HangsOnlyOnLostPipe == <>(main = "exited" \/ PipeLost)

=============================================================================
