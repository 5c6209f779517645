---------------------------- MODULE PipelineProofs ----------------------------
(***************************************************************************)
(* Proofs about the data: what the commands write through the descriptors  *)
(* pipex has given them arrives in the outfile, in order and completely,   *)
(* for any number of commands, any input, pipes of any capacity, and       *)
(* whichever commands stop early.                                          *)
(***************************************************************************)
EXTENDS Pipeline, PlumbingProofs, SequenceTheorems

(***************************************************************************)
(* Stretches of the input.                                                 *)
(***************************************************************************)

(* A stretch is a sequence; it is empty when it ends where it begins. *)
LEMMA StretchIsSeq ==
  ASSUME NEW a \in Nat, NEW b \in Nat, a <= b
  PROVE  /\ Stretch(a, b) \in Seq(Nat) /\ Len(Stretch(a, b)) = b - a
         /\ \A n \in 1 .. b - a : Stretch(a, b)[n] = a + n
         /\ Stretch(a, b) = <<>> <=> a = b
<1>1. b - a \in Nat /\ Stretch(a, b) \in [1 .. b - a -> Nat]
  BY DEF Stretch
<1>2. Stretch(a, b) \in Seq(Nat)
  BY <1>1, SeqDef
<1>3. Len(Stretch(a, b)) = b - a
  BY <1>1, <1>2, LenProperties DEF Stretch
<1>4. Stretch(a, b) = <<>> <=> a = b
  <2>1. CASE a = b
    BY <1>2, <1>3, <2>1, EmptySeq
  <2>2. CASE a # b
    BY <1>2, <1>3, <2>2, EmptySeq
  <2>3. QED
    BY <2>1, <2>2
<1>5. QED
  BY <1>2, <1>3, <1>4 DEF Stretch

(* Reading takes the foremost item of a stretch. *)
LEMMA StretchRead ==
  ASSUME NEW a \in Nat, NEW b \in Nat, a <= b, Stretch(a, b) # <<>>
  PROVE  /\ a + 1 <= b /\ Head(Stretch(a, b)) = a + 1
         /\ Tail(Stretch(a, b)) = Stretch(a + 1, b)
<1>1. a + 1 <= b
  BY StretchIsSeq
<1> DEFINE s == Stretch(a, b)
           t == Stretch(a + 1, b)
<1>2. /\ s \in Seq(Nat) /\ Len(s) = b - a /\ t \in Seq(Nat) /\ Len(t) = b - (a + 1)
      /\ \A n \in 1 .. b - a : s[n] = a + n
      /\ \A n \in 1 .. b - (a + 1) : t[n] = a + 1 + n
  <2>1. a + 1 \in Nat
    OBVIOUS
  <2>2. QED
    BY <1>1, <2>1, StretchIsSeq
<1>3. s # <<>>
  OBVIOUS
<1> HIDE DEF s, t
<1>4. Tail(s) \in Seq(Nat) /\ Len(Tail(s)) = Len(s) - 1
      /\ \A n \in 1 .. Len(Tail(s)) : Tail(s)[n] = s[n + 1]
  BY <1>2, <1>3, HeadTailProperties
<1>5. Tail(s) = t
  <2>1. Len(Tail(s)) = Len(t)
    BY <1>2, <1>4
  <2>2. \A n \in 1 .. Len(Tail(s)) : Tail(s)[n] = t[n]
    BY <1>1, <1>2, <1>4
  <2>3. QED
    BY <1>2, <1>4, <2>1, <2>2, SeqEqual
<1>6. Head(s) = s[1] /\ s[1] = a + 1
  <2>1. 1 \in 1 .. b - a
    BY <1>1
  <2>2. s[1] = a + 1
    BY <1>2, <2>1
  <2>3. Head(s) = s[1]
    OBVIOUS
  <2>4. QED
    BY <2>2, <2>3
<1>7. QED
  BY <1>1, <1>5, <1>6 DEF s, t

(* Writing adds the next item to a stretch. *)
LEMMA StretchWrite ==
  ASSUME NEW a \in Nat, NEW b \in Nat, a <= b
  PROVE  Append(Stretch(a, b), b + 1) = Stretch(a, b + 1)
<1> DEFINE s == Stretch(a, b)
           t == Stretch(a, b + 1)
<1>1. /\ s \in Seq(Nat) /\ Len(s) = b - a /\ t \in Seq(Nat) /\ Len(t) = b + 1 - a
      /\ \A n \in 1 .. b - a : s[n] = a + n
      /\ \A n \in 1 .. b + 1 - a : t[n] = a + n
  <2>1. b + 1 \in Nat /\ a <= b + 1
    OBVIOUS
  <2>2. s \in Seq(Nat) /\ Len(s) = b - a /\ \A n \in 1 .. b - a : s[n] = a + n
    BY StretchIsSeq
  <2>3. /\ t \in Seq(Nat) /\ Len(t) = b + 1 - a
        /\ \A n \in 1 .. b + 1 - a : t[n] = a + n
    BY <2>1, StretchIsSeq
  <2>4. QED
    BY <2>2, <2>3
<1> HIDE DEF s, t
<1>2. /\ Append(s, b + 1) \in Seq(Nat) /\ Len(Append(s, b + 1)) = Len(s) + 1
      /\ \A n \in 1 .. Len(s) : Append(s, b + 1)[n] = s[n]
      /\ Append(s, b + 1)[Len(s) + 1] = b + 1
  <2>1. b + 1 \in Nat /\ s \in Seq(Nat)
    BY <1>1
  <2>2. QED
    BY <2>1, AppendProperties
<1>3. Len(Append(s, b + 1)) = Len(t)
  BY <1>1, <1>2
<1>4. \A n \in 1 .. Len(t) : Append(s, b + 1)[n] = t[n]
  <2> SUFFICES ASSUME NEW n \in 1 .. Len(t) PROVE Append(s, b + 1)[n] = t[n]
    OBVIOUS
  <2>1. CASE n <= Len(s)
    BY <1>1, <1>2, <2>1
  <2>2. CASE n = Len(s) + 1
    BY <1>1, <1>2, <2>2
  <2>3. QED
    BY <1>1, <2>1, <2>2
<1>5. Append(s, b + 1) = t
  BY <1>1, <1>2, <1>3, <1>4, SeqEqual
<1>6. QED
  BY <1>5 DEF s, t

(* The same behind what pipex has kept of the outfile. *)
LEMMA OutfileWrite ==
  ASSUME NEW b \in Nat, InputLen \in Nat
  PROVE  /\ Append(Kept \o Stretch(0, b), b + 1) = Kept \o Stretch(0, b + 1)
         /\ Kept \o Stretch(0, 0) = Kept
<1>1. Kept \in Seq(Nat)
  BY DEF Kept, Old
<1>2. Stretch(0, b) \in Seq(Nat) /\ Stretch(0, 0) = <<>>
  BY StretchIsSeq
<1>3. <<b + 1>> \in Seq(Nat)
  OBVIOUS
<1>4. Append(Kept \o Stretch(0, b), b + 1) = (Kept \o Stretch(0, b)) \o <<b + 1>>
  BY <1>1, <1>2, ConcatProperties, AppendIsConcat
<1>5. (Kept \o Stretch(0, b)) \o <<b + 1>> = Kept \o (Stretch(0, b) \o <<b + 1>>)
  BY <1>1, <1>2, <1>3, ConcatAssociative
<1>6. Stretch(0, b) \o <<b + 1>> = Append(Stretch(0, b), b + 1)
  BY <1>2, AppendIsConcat
<1>7. Append(Stretch(0, b), b + 1) = Stretch(0, b + 1)
  BY StretchWrite
<1>8. Kept \o Stretch(0, 0) = Kept
  BY <1>1, <1>2, ConcatEmptySeq
<1>9. QED
  BY <1>4, <1>5, <1>6, <1>7, <1>8

-----------------------------------------------------------------------------
(***************************************************************************)
(* Pipeline is Pipex with more to see: what has been proved of Pipex holds *)
(* of it.                                                                  *)
(***************************************************************************)
LEMMA CommandOverEnds ==
  ASSUME NEW k \in Cmds, cpc[k] = "run", NEW st \in CmdCodes \cup {Killed}, CommandOver(k, st)
  PROVE  CommandEnds(k) /\ ParentIdle
BY PipelineAssumption DEF CommandOver, CommandEnds

(* A step of Pipeline is a step of Pipex, or one of a command that pipex does not see. *)
LEMMA PipelineStep ==
  ASSUME [PNext]_pvars
  PROVE  [Next]_vars
<1>1. CASE PipexMainStep
  BY <1>1 DEF PipexMainStep, Next
<1>2. ASSUME NEW k \in Cmds, PipexChildStep(k) PROVE [Next]_vars
  BY <1>2 DEF PipexChildStep, Next
<1>3. ASSUME NEW k \in Cmds, CommandReads(k) \/ CommandWrites(k) PROVE [Next]_vars
  BY <1>3 DEF CommandReads, CommandWrites
<1>4. ASSUME NEW k \in Cmds, EndsAtEof(k) \/ BrokenPipe(k) \/ StopsEarly(k) PROVE [Next]_vars
  <2>1. cpc[k] = "run" /\ \E st \in CmdCodes \cup {Killed} : CommandOver(k, st)
    BY <1>4, PipelineAssumption DEF EndsAtEof, BrokenPipe, StopsEarly
  <2>2. QED
    BY <2>1, CommandOverEnds DEF Next
<1>5. CASE UNCHANGED pvars
  BY <1>5 DEF pvars
<1>6. QED
  BY <1>1, <1>2, <1>3, <1>4, <1>5 DEF PNext, CommandStep

(***************************************************************************)
(* Commands that read and write do nothing that the commands of Pipex      *)
(* could not do, so every property of Pipex is one of Pipeline.            *)
(***************************************************************************)
THEOREM PipelineIsPipex == PSpec => Spec
<1>1. PInit => Init
  BY DEF PInit
<1>2. [PNext]_pvars => [Next]_vars
  BY PipelineStep
<1>3. QED
  BY <1>1, <1>2, PTL DEF PSpec, Spec

-----------------------------------------------------------------------------
(***************************************************************************)
(* The life of a child.                                                    *)
(***************************************************************************)
Moved(k) ==
  \/ cpc'[k] = cpc[k] /\ status'[k] = status[k]
  \/ cpc[k] = "none" /\ cpc'[k] = "forked" /\ status'[k] = status[k]
  \/ cpc[k] = "forked" /\ cpc'[k] \in {"exec", "zombie"}
  \/ cpc[k] = "exec" /\ cpc'[k] \in {"run", "zombie"}
  \/ cpc[k] = "run" /\ cpc'[k] = "zombie"
  \/ cpc[k] = "zombie" /\ cpc'[k] = "reaped" /\ status'[k] = status[k]

(* No step takes a child anywhere else, and a pid once recorded stays. *)
LEMMA EveryMove ==
  ASSUME CoreInv, [Next]_vars, NEW k \in Cmds
  PROVE  Moved(k) /\ (child_pids'[k] = child_pids[k] \/ child_pids[k] = 0)
<1> USE DEF CoreInv, TypeOK
<1>1. CASE UNCHANGED <<cpc, status, child_pids>>
  BY <1>1 DEF Moved
<1>2. ASSUME NEW n \in Cmds, ForkChild(n) \/ ForkFails(n), child_pids[n] = 0
      PROVE  Moved(k) /\ (child_pids'[k] = child_pids[k] \/ child_pids[k] = 0)
  <2>1. cpc[n] = "none"
    BY <1>2 DEF ChildInv, Cmds
  <2>2. QED
    BY <1>2, <2>1 DEF ForkChild, ForkFails, children, Moved
<1>3. CASE ForkFirstChild \/ Malcolm \/ ForkLastChild
  <2>1. ASSUME NEW n \in Cmds, n = Forked PROVE child_pids[n] = 0
    BY <1>3, <2>1 DEF ForkFirstChild, Malcolm, ForkLastChild, ChildInv, Cmds
  <2>2. nb_cmds \in Nat /\ nb_cmds <= MaxCmds /\ i \in Nat /\ MaxCmds \in Nat /\ MaxCmds >= 2
    BY PipexAssumption
  <2>3. CASE ForkFirstChild
    <3>1. Forked = 0 /\ 0 \in Cmds
      BY <2>2, <2>3 DEF ForkFirstChild, Forked, BeforeForks, Cmds
    <3>2. QED
      BY <1>2, <2>1, <2>3, <3>1 DEF ForkFirstChild
  <2>4. CASE Malcolm
    <3>1. Forked = i + 1
      BY <2>4 DEF Malcolm, Forked, BeforeForks, BeforeParse
    <3>2. CASE i + 1 < nb_cmds - 1 /\ (ForkChild(i + 1) \/ ForkFails(i + 1))
      <4>1. i + 1 \in Cmds
        BY <2>2, <3>2 DEF Cmds
      <4>2. QED
        BY <1>2, <2>1, <3>1, <3>2, <4>1
    <3>3. CASE UNCHANGED <<child_pids, children>>
      BY <1>1, <3>3 DEF children
    <3>4. QED
      BY <2>4, <3>2, <3>3 DEF Malcolm
  <2>5. CASE ForkLastChild
    <3>1. Forked = i /\ i \in Cmds
      BY <2>2, <2>5 DEF ForkLastChild, Forked, BeforeForks, BeforeParse, Cmds, PhaseInv
    <3>2. QED
      BY <1>2, <2>1, <2>5, <3>1 DEF ForkLastChild
  <2>6. QED
    BY <1>3, <2>3, <2>4, <2>5
<1>4. ASSUME NEW n \in Cmds, WaitChild(n)
      PROVE  Moved(k) /\ (child_pids'[k] = child_pids[k] \/ child_pids[k] = 0)
  BY <1>4 DEF WaitChild, Moved
<1>5. ASSUME NEW n \in Cmds, ChildStep(n) \/ (CommandEnds(n) /\ ParentIdle)
      PROVE  Moved(k) /\ (child_pids'[k] = child_pids[k] \/ child_pids[k] = 0)
  BY <1>5
     DEF ChildStep, SetUp, FirstChild, MiddleChild, LastChild, SearchAndExec, CommandEnds, ToExec,
         FailToOpen, ChildCleanupExit, ChildEnds, ParentIdle, Moved
<1>6. CASE OpenPipe(0) \/ OpenPipe(1) \/ ValidateArgs \/ ParseCmds \/ GrabEnvp \/ HereDocInp
           \/ RenewPipe \/ CloseInParent \/ WaitNobody \/ Finish \/ UNCHANGED vars
  BY <1>1, <1>6
     DEF OpenPipe, ValidateArgs, ParseCmds, GrabEnvp, HereDocInp, RenewPipe, CloseInParent,
         WaitNobody, Finish, ParentOnly, children, vars
<1>7. QED
  BY <1>3, <1>4, <1>5, <1>6 DEF Next, MainStep, AllDone

(* The mode and the number of commands are settled before the first fork. *)
LEMMA SettledEarly ==
  ASSUME CoreInv, [Next]_vars
  PROVE  \/ UNCHANGED <<mode, nb_cmds>>
         \/ /\ nb_cmds = 0 /\ \A k \in Cmds : cpc[k] = "none" /\ cpc'[k] = "none"
            /\ nb_cmds' = 0 \/ nb_cmds' >= 2
<1>1. CASE ValidateArgs \/ ParseCmds
  <2>1. main \in BeforeParse /\ cpc' = cpc
    BY <1>1 DEF ValidateArgs, ParseCmds, ParentOnly, children, BeforeParse
  <2>2. nb_cmds = 0 /\ \A k \in Cmds : cpc[k] = "none"
    BY <2>1 DEF CoreInv, PhaseInv, ChildInv, Forked, BeforeForks, Cmds
  <2>3. nb_cmds' = 0 \/ nb_cmds' >= 2
    <3>1. CASE ValidateArgs
      BY <2>2, <3>1 DEF ValidateArgs
    <3>2. CASE ParseCmds
      <4>1. /\ argc \in Nat /\ argc >= 5 /\ (mode = "here_doc" => argc = 6)
            /\ nb_cmds' = argc - 3 \/ (nb_cmds' = argc - 4 /\ mode = "here_doc")
        BY <3>2, PipexAssumption DEF ParseCmds, CoreInv, TypeOK, PhaseInv
      <4>2. QED
        BY <4>1
    <3>3. QED
      BY <1>1, <3>1, <3>2
  <2>4. QED
    BY <2>1, <2>2, <2>3
<1>2. CASE ~(ValidateArgs \/ ParseCmds)
  BY <1>2, ChildAndTemp
     DEF Next, MainStep, AllDone, vars, parse, OpenPipe, GrabEnvp, HereDocInp, ForkFirstChild,
         Malcolm, ForkLastChild, RenewPipe, CloseInParent, WaitChild, WaitNobody, Finish,
         ParentOnly, ParentIdle
<1>3. QED
  BY <1>1, <1>2

-----------------------------------------------------------------------------
(***************************************************************************)
(* The inductive invariant.                                                *)
(***************************************************************************)
Waiting(k) == cpc[k] \in {"none", "forked", "exec"}
Gone(k)    == cpc[k] \in {"zombie", "reaped"} \/ child_pids[k] = -1

(***************************************************************************)
(* Where the items are in a pipeline that is joined up to command n: from  *)
(* one command to the next as InOnePlace says; a command has read no more  *)
(* than there is, holds at most the last item it has read, and has read    *)
(* nothing before it runs, or behind n.                                    *)
(***************************************************************************)
Flow(n) ==
  /\ taken \in [Cmds -> Nat] /\ held \in [Cmds -> Nat] /\ buffer \in [PipeNo -> Seq(Nat)]
  /\ \A k \in Cmds : held[k] \in {Nothing, taken[k]} /\ (Waiting(k) => taken[k] = 0)
  /\ \A k \in Cmds : taken[k] <= InputLen /\ (k > n => taken[k] = 0)
  /\ source = Stretch(taken[0], InputLen)
  /\ \A k \in 1 .. n :
       taken[k] <= Passed(k - 1) /\ buffer[Link(k)] = Stretch(taken[k], Passed(k - 1))
  /\ \A p \in PipeNo : (\A k \in 1 .. n : p # Link(k)) => buffer[p] = <<>>

(* As long as no pipe is lost all commands are joined. *)
FlowInv == Flow(nb_cmds - 1)

(* The outfile is as it was until the last command opens it. *)
OutInv ==
  /\ nb_cmds # 1 /\ (nb_cmds = 0 => out = <<Old>>)
  /\ nb_cmds >= 2 =>
       LET last == nb_cmds - 1
       IN \/ out = <<Old>> /\ Passed(last) = 0 /\ ~Ready(last) /\ ~drained[last]
          \/ out = Kept \o Stretch(0, Passed(last)) /\ cpc[last] \notin {"none", "forked"}

(* A command that has met the end of its input has ended, and well. *)
EofInv ==
  /\ drained \in [Cmds -> BOOLEAN]
  /\ \A k \in Cmds : drained[k] =>
       k < nb_cmds /\ cpc[k] \in {"zombie", "reaped"} /\ held[k] = Nothing /\ status[k] = 0

(***************************************************************************)
(* It has passed on all there was to read, because nobody was left who     *)
(* could have written more of it.                                          *)
(***************************************************************************)
DrainInv ==
  /\ \A k \in Cmds : drained[k] /\ k > 0 => Gone(k - 1) /\ taken[k] = Passed(k - 1)
  /\ \A k \in Cmds : (\A j \in 0 .. k : drained[j]) => taken[k] = InputLen

(* After a lost pipe the items flow as far as the pipeline goes. *)
DataInv ==
  /\ OutInv /\ EofInv
  /\ ~PipeLost => FlowInv /\ DrainInv
  /\ PipeLost => \E c \in Cmds : Severed(c) /\ Flow(c)

(* Link(k) is the number of a pipe, and no other command reads the same pipe. *)
LEMMA LinkIsPipe ==
  ASSUME NEW k \in 1 .. MaxCmds - 1
  PROVE  /\ k \in Cmds /\ k - 1 \in Cmds /\ Link(k) \in PipeNo
         /\ \A j \in 1 .. MaxCmds - 1 : Link(j) = Link(k) => j = k
BY PipexAssumption DEF Link, PipeNo, Cmds

(* The indices of n commands are indices of the arrays. *)
LEMMA IndicesOf ==
  ASSUME NEW n \in 0 .. MaxCmds
  PROVE  /\ n >= 1 => n - 1 \in Cmds
         /\ \A k \in 1 .. n - 1 : k \in 1 .. MaxCmds - 1 /\ k \in Cmds /\ k - 1 \in Cmds
BY PipexAssumption DEF Cmds

(* The number of commands is within bounds. *)
LEMMA CmdsInBounds ==
  ASSUME CoreInv
  PROVE  /\ nb_cmds \in Nat /\ nb_cmds <= MaxCmds /\ MaxCmds \in Nat /\ 0 \in Cmds
         /\ \A k \in 1 .. nb_cmds - 1 : k \in 1 .. MaxCmds - 1 /\ k \in Cmds /\ k - 1 \in Cmds
         /\ nb_cmds >= 1 => nb_cmds - 1 \in Cmds
BY PipexAssumption DEF CoreInv, TypeOK, Cmds

(* What a command has written is what it has read, or one item less. *)
LEMMA PassedIsNat ==
  ASSUME NEW n, Flow(n), NEW k \in Cmds
  PROVE  /\ Passed(k) \in Nat /\ taken[k] \in Nat
         /\ held[k] = Nothing => Passed(k) = taken[k]
         /\ held[k] # Nothing => Passed(k) + 1 = taken[k] /\ held[k] = taken[k]
         /\ Waiting(k) => held[k] = Nothing /\ taken[k] = 0 /\ Passed(k) = 0
BY DEF Flow, Passed, Nothing

-----------------------------------------------------------------------------
(***************************************************************************)
(* Steps that move no item.                                                *)
(***************************************************************************)
LEMMA FlowFrame ==
  ASSUME CoreInv, [Next]_vars, NEW n, Flow(n), UNCHANGED <<source, buffer, held, taken>>
  PROVE  Flow(n)'
<1>1. \A k \in Cmds : Waiting(k)' => Waiting(k)
  BY EveryMove DEF Moved, Waiting
<1>2. \A k \in 1 .. n : Passed(k - 1)' = Passed(k - 1)
  BY DEF Passed
<1>3. QED
  BY <1>1, <1>2 DEF Flow

(* Commands that do not run yet may be counted in, or left out. *)
LEMMA FlowResized ==
  ASSUME NEW n \in -1 .. MaxCmds - 1, NEW m \in -1 .. MaxCmds - 1, Flow(n),
         \A k \in Cmds : k >= n \/ k >= m => Waiting(k)
  PROVE  Flow(m)
<1>1. n \in Int /\ m \in Int /\ n <= MaxCmds - 1 /\ m <= MaxCmds - 1 /\ MaxCmds \in Nat
  BY PipexAssumption
<1>2. ASSUME NEW k \in 1 .. MaxCmds - 1, k > n \/ k > m
      PROVE  taken[k] = 0 /\ Passed(k - 1) = 0
  <2>1. k \in Cmds /\ k - 1 \in Cmds /\ (k - 1 >= n \/ k - 1 >= m)
    BY <1>1, <1>2, LinkIsPipe
  <2>2. k >= n \/ k >= m
    BY <1>1, <1>2
  <2>3. QED
    BY <2>1, <2>2, PassedIsNat
<1>3. Stretch(0, 0) = <<>>
  BY StretchIsSeq
<1>4. ASSUME NEW k \in 1 .. m
      PROVE  taken[k] <= Passed(k - 1) /\ buffer[Link(k)] = Stretch(taken[k], Passed(k - 1))
  <2>1. k \in 1 .. MaxCmds - 1
    BY <1>1
  <2>2. CASE k <= n
    BY <1>1, <2>2 DEF Flow
  <2>3. CASE k > n
    <3>1. taken[k] = 0 /\ Passed(k - 1) = 0
      BY <1>2, <2>1, <2>3
    <3>2. Link(k) \in PipeNo /\ \A j \in 1 .. n : Link(k) # Link(j)
      BY <1>1, <2>1, <2>3, LinkIsPipe
    <3>3. buffer[Link(k)] = <<>>
      BY <3>2 DEF Flow
    <3>4. QED
      BY <1>3, <3>1, <3>3
  <2>4. QED
    BY <1>1, <2>2, <2>3
<1>5. ASSUME NEW p \in PipeNo, \A k \in 1 .. m : p # Link(k) PROVE buffer[p] = <<>>
  <2>1. CASE \A k \in 1 .. n : p # Link(k)
    BY <2>1 DEF Flow
  <2>2. ASSUME NEW k \in 1 .. n, p = Link(k) PROVE buffer[p] = <<>>
    <3>1. k > m /\ k \in 1 .. MaxCmds - 1
      BY <1>1, <1>5, <2>2
    <3>2. taken[k] = 0 /\ Passed(k - 1) = 0
      BY <1>2, <3>1
    <3>3. QED
      BY <1>3, <2>2, <3>2 DEF Flow
  <2>3. QED
    BY <2>1, <2>2
<1>6. \A k \in Cmds : k > m => taken[k] = 0
  BY <1>1, PassedIsNat, PipexAssumption DEF Cmds
<1>7. QED
  BY <1>4, <1>5, <1>6 DEF Flow

(* A command that has met the end of its input stays as it was then. *)
LEMMA DrainFrame ==
  ASSUME CoreInv, [Next]_vars, EofInv, UNCHANGED <<held, taken, drained>>
  PROVE  EofInv' /\ (DrainInv => DrainInv')
<1>1. EofInv'
  <2> SUFFICES ASSUME NEW k \in Cmds, drained[k]
               PROVE  k < nb_cmds' /\ cpc'[k] \in {"zombie", "reaped"} /\ status'[k] = 0
    BY DEF EofInv
  <2>1. k < nb_cmds /\ cpc[k] \in {"zombie", "reaped"} /\ status[k] = 0
    BY DEF EofInv
  <2>2. cpc'[k] \in {"zombie", "reaped"} /\ status'[k] = 0
    BY <2>1, EveryMove DEF Moved
  <2>3. nb_cmds' = nb_cmds
    BY <2>1, SettledEarly
  <2>4. QED
    BY <2>1, <2>2, <2>3
<1>2. ASSUME DrainInv PROVE DrainInv'
  <2> SUFFICES ASSUME NEW k \in Cmds, drained[k], k > 0
               PROVE  Gone(k - 1)' /\ taken'[k] = Passed(k - 1)'
    BY <1>2 DEF DrainInv
  <2>1. k - 1 \in Cmds
    BY PipexAssumption DEF Cmds
  <2>2. Gone(k - 1) /\ taken[k] = Passed(k - 1)
    BY <1>2 DEF DrainInv
  <2>3. Gone(k - 1)'
    BY <2>1, <2>2, EveryMove DEF Moved, Gone
  <2>4. QED
    BY <2>2, <2>3 DEF Passed
<1>3. QED
  BY <1>1, <1>2

(* The outfile stays as it is unless the last command opens it. *)
LEMMA OutFrame ==
  ASSUME CoreInv, [Next]_vars, NEW n, Flow(n), OutInv, EofInv,
         UNCHANGED <<held, taken, drained, out>>,
         nb_cmds >= 1 => ~(cpc[nb_cmds - 1] = "forked" /\ cpc'[nb_cmds - 1] = "exec")
  PROVE  OutInv'
<1>1. \A k \in Cmds : Passed(k)' = Passed(k)
  BY DEF Passed
<1>2. CASE UNCHANGED <<mode, nb_cmds>>
  <2>1. CASE nb_cmds >= 2
    <3> DEFINE last == nb_cmds - 1
    <3>1. last \in Cmds
      BY <2>1, CmdsInBounds
    <3>2. Passed(last)' = Passed(last) /\ Kept' = Kept
      BY <1>2 DEF Passed, Kept, Old
    <3>3. Moved(last) /\ ~(cpc[last] = "forked" /\ cpc'[last] = "exec")
      BY <2>1, <3>1, EveryMove, CmdsInBounds
    <3>4. cpc[last] \notin {"none", "forked"} => cpc'[last] \notin {"none", "forked"}
      BY <3>3 DEF Moved
    <3>5. ~(cpc[last] \in {"exec", "run"}) => ~(cpc'[last] \in {"exec", "run"})
      BY <3>3 DEF Moved
    <3>6. \/ out = <<Old>> /\ Passed(last) = 0 /\ ~Ready(last) /\ ~drained[last]
          \/ out = Kept \o Stretch(0, Passed(last)) /\ cpc[last] \notin {"none", "forked"}
      BY <2>1 DEF OutInv
    <3> HIDE DEF last
    <3>7. \/ out' = <<Old>> /\ Passed(last)' = 0 /\ ~(cpc'[last] \in {"exec", "run"}) /\ ~drained'[last]
          \/ out' = Kept' \o Stretch(0, Passed(last)') /\ cpc'[last] \notin {"none", "forked"}
      BY <3>2, <3>4, <3>5, <3>6 DEF Ready
    <3>8. QED
      BY <1>2, <2>1, <3>7 DEF OutInv, Ready, last, Passed
  <2>2. CASE nb_cmds = 0
    BY <1>2, <2>2 DEF OutInv
  <2>3. CASE nb_cmds = 1
    BY <1>2, <2>3 DEF OutInv
  <2>4. QED
    BY <2>1, <2>2, <2>3, CmdsInBounds
<1>3. CASE nb_cmds = 0 /\ \A k \in Cmds : cpc[k] = "none" /\ cpc'[k] = "none"
  <2>1. out' = <<Old>>
    BY <1>3 DEF OutInv, Old
  <2>2. ASSUME nb_cmds' >= 2
        PROVE  (Passed(nb_cmds - 1) = 0 /\ ~Ready(nb_cmds - 1) /\ ~drained[nb_cmds - 1])'
    <3>1. nb_cmds' - 1 \in Cmds
      <4>1. nb_cmds' \in 0 .. MaxCmds /\ nb_cmds' >= 1
        BY <2>2, CoreStep DEF CoreInv, TypeOK
      <4>2. QED
        BY <4>1, IndicesOf
    <3>2. PICK l \in Cmds : l = nb_cmds' - 1
      BY <3>1
    <3>3. cpc'[l] = "none" /\ ~drained[l]
      BY <1>3 DEF EofInv
    <3>4. taken[l] = 0 /\ held[l] = Nothing
      BY <1>3, PassedIsNat DEF Waiting
    <3>5. QED
      BY <3>2, <3>3, <3>4 DEF Passed, Ready
  <2>3. nb_cmds' = 0 \/ nb_cmds' >= 2
    BY <1>3, SettledEarly
  <2>4. QED
    BY <2>1, <2>2, <2>3 DEF OutInv, Old
<1>4. QED
  BY <1>2, <1>3, SettledEarly

(* Opening the outfile truncates it, or in here_doc mode keeps it. *)
LEMMA OutfileOpened ==
  ASSUME CoreInv, EndInv, OutInv, NEW k \in Cmds, PipexChildStep(k), OpensOutfile(k)
  PROVE  OutInv'
<1>1. /\ k = nb_cmds - 1 /\ cpc[k] = "forked" /\ cpc'[k] = "exec"
      /\ out' = IF mode = "regular" THEN <<>> ELSE out
      /\ UNCHANGED <<mode, nb_cmds, main, held, taken>>
  BY DEF OpensOutfile, PipexChildStep, ChildStep, ParentIdle, parse
<1>2. nb_cmds >= 2 /\ nb_cmds \in Nat
  BY <1>1, CmdsInBounds DEF CoreInv, ChildInv, Cmds
<1>3. mode \in {"regular", "here_doc"}
  <2>1. main # "exited"
    BY <1>1 DEF EndInv, NoOrphans
  <2>2. QED
    BY <1>2, <2>1 DEF CoreInv, PhaseInv, BeforeParse
<1>4. out = <<Old>> /\ Passed(k) = 0 /\ Passed(k)' = 0
  BY <1>1, <1>2 DEF OutInv, Passed
<1>5. out' = Kept' /\ Kept' = Kept
  BY <1>1, <1>3, <1>4 DEF Kept, Old
<1>6. out' = Kept' \o Stretch(0, Passed(k)')
  <2>1. Kept \o Stretch(0, 0) = Kept
    BY OutfileWrite, PipelineAssumption
  <2>2. QED
    BY <1>4, <1>5, <2>1
<1>7. nb_cmds' = nb_cmds /\ nb_cmds' - 1 = k /\ cpc'[nb_cmds' - 1] = "exec"
  BY <1>1, <1>2
<1>8. (Passed(nb_cmds - 1) = Passed(k))'
  BY <1>7 DEF Passed
<1>9. (out = Kept \o Stretch(0, Passed(nb_cmds - 1)))'
  BY <1>6, <1>8
<1>10. QED
  BY <1>2, <1>7, <1>9 DEF OutInv

(* main forks children and reaps them; it does nothing else to them. *)
LEMMA MainMoves ==
  ASSUME MainStep
  PROVE  cpc' = cpc \/ \E n, v : v \in {"forked", "reaped"} /\ cpc' = [cpc EXCEPT ![n] = v]
<1>1. CASE ForkFirstChild
  BY <1>1 DEF ForkFirstChild, ForkChild, ForkFails, children
<1>2. CASE Malcolm
  BY <1>2 DEF Malcolm, ForkChild, ForkFails, children
<1>3. CASE ForkLastChild
  BY <1>3 DEF ForkLastChild, ForkChild, ForkFails, children
<1>4. ASSUME NEW n \in Cmds, WaitChild(n)
      PROVE  \E m, v : v \in {"forked", "reaped"} /\ cpc' = [cpc EXCEPT ![m] = v]
  BY <1>4 DEF WaitChild
<1>5. CASE OpenPipe(0) \/ OpenPipe(1) \/ ValidateArgs \/ ParseCmds \/ GrabEnvp \/ HereDocInp
           \/ RenewPipe \/ CloseInParent \/ WaitNobody \/ Finish
  BY <1>5
     DEF OpenPipe, ValidateArgs, ParseCmds, GrabEnvp, HereDocInp, RenewPipe, CloseInParent,
         WaitNobody, Finish, ParentOnly, children
<1>6. QED
  BY <1>1, <1>2, <1>3, <1>4, <1>5 DEF MainStep

(* Whatever pipex and the children do up to execve leaves the data alone. *)
LEMMA PipexStepKeepsData ==
  ASSUME CoreInv, EndInv, NEW n, Flow(n), OutInv, EofInv,
         PipexMainStep \/ \E k \in Cmds : PipexChildStep(k)
  PROVE  Flow(n)' /\ OutInv' /\ EofInv' /\ (DrainInv => DrainInv')
<1>1. [Next]_vars /\ UNCHANGED <<source, buffer, held, taken, drained>>
  BY DEF PipexMainStep, PipexChildStep, Next, data
<1>2. Flow(n)' /\ EofInv' /\ (DrainInv => DrainInv')
  BY <1>1, FlowFrame, DrainFrame
<1>3. CASE PipexMainStep
  <2>1. UNCHANGED <<held, taken, drained, out>>
    BY <1>3 DEF PipexMainStep, data
  <2>2. nb_cmds >= 1 => ~(cpc[nb_cmds - 1] = "forked" /\ cpc'[nb_cmds - 1] = "exec")
    <3>1. ASSUME NEW k \in Cmds, cpc[k] = "forked" PROVE cpc'[k] # "exec"
      BY <1>3, <3>1, MainMoves DEF PipexMainStep, CoreInv, TypeOK
    <3>2. QED
      BY <3>1, CmdsInBounds
  <2>3. [Next]_vars
    BY <1>1
  <2>4. QED
    BY <1>2, <2>1, <2>2, <2>3, OutFrame
<1>4. ASSUME NEW k \in Cmds, PipexChildStep(k) PROVE OutInv'
  <2>1. CASE OpensOutfile(k)
    BY <1>4, <2>1, OutfileOpened
  <2>2. CASE ~OpensOutfile(k)
    <3>1. out' = out /\ ChildStep(k)
      BY <1>4, <2>2 DEF PipexChildStep
    <3>2. nb_cmds >= 1 => ~(cpc[nb_cmds - 1] = "forked" /\ cpc'[nb_cmds - 1] = "exec")
      <4>1. \A j \in Cmds : j # k => cpc'[j] = cpc[j]
        BY <3>1, ChildStepIsOwn
      <4>2. QED
        BY <2>2, <4>1, CmdsInBounds DEF OpensOutfile
    <3>3. QED
      BY <1>1, <3>1, <3>2, OutFrame
  <2>3. QED
    BY <2>1, <2>2
<1>5. QED
  BY <1>2, <1>3, <1>4

-----------------------------------------------------------------------------
(***************************************************************************)
(* What a running command reads and writes.                                *)
(***************************************************************************)
LEMMA RunningIsForked ==
  ASSUME CoreInv, NEW k \in Cmds, cpc[k] = "run"
  PROVE  /\ k < nb_cmds /\ nb_cmds >= 2 /\ child_pids[k] = k + 1
         /\ nb_cmds \in Nat /\ nb_cmds <= MaxCmds /\ MaxCmds \in Nat /\ k \in Nat
<1>1. child_pids[k] = k + 1
  BY DEF CoreInv, ChildInv
<1>2. k < nb_cmds /\ nb_cmds >= 2
  BY <1>1, PipexAssumption DEF CoreInv, ChildInv, Cmds
<1>3. QED
  BY <1>1, <1>2, CmdsInBounds DEF Cmds

(***************************************************************************)
(* The commands that run read and write as they should in a pipeline that  *)
(* ends at command n.                                                      *)
(***************************************************************************)
Wired(n) ==
  \A k \in Cmds : cpc[k] = "run" =>
    /\ n \in 1 .. nb_cmds - 1
    /\ k = 0 => In(k) = IF mode = "here_doc" THEN TempOf(1) ELSE Infile
    /\ k > 0 /\ k <= n => In(k) = ReadEnd(Link(k))
    /\ k > n => n >= 2 /\ Beyond(In(k), n)
    /\ k < n => Out(k) = WriteEnd(Link(k + 1))
    /\ k = n => Out(k) = IF n = nb_cmds - 1 THEN Outfile ELSE Terminal

(* Streams wire a command in front of the end, and the last one. *)
LEMMA WiredUnlessLost ==
  ASSUME CoreInv, ChildPlumbing, NEW n \in 1 .. nb_cmds - 1,
         \A k \in Cmds : cpc[k] = "run" => k < n \/ n = nb_cmds - 1
  PROVE  Wired(n)
<1> SUFFICES ASSUME NEW k \in Cmds, cpc[k] = "run"
             PROVE  /\ n \in 1 .. nb_cmds - 1
                    /\ k = 0 => In(k) = IF mode = "here_doc" THEN TempOf(1) ELSE Infile
                    /\ k > 0 /\ k <= n => In(k) = ReadEnd(Link(k))
                    /\ k > n => n >= 2 /\ Beyond(In(k), n)
                    /\ k < n => Out(k) = WriteEnd(Link(k + 1))
                    /\ k = n => Out(k) = IF n = nb_cmds - 1 THEN Outfile ELSE Terminal
  BY DEF Wired
<1>1. Streams(cfd[k], k)
  BY DEF ChildPlumbing, Ready
<1>2. k < nb_cmds /\ nb_cmds \in Nat /\ k \in Nat /\ (k < n \/ n = nb_cmds - 1)
  BY RunningIsForked
<1>3. k <= n
  BY <1>2
<1>4. QED
  BY <1>1, <1>2, <1>3 DEF Streams, In, Out

(* When the pipeline is cut it is wired up to there. *)
LEMMA WiredWhenSevered ==
  ASSUME CoreInv, NEW c \in Cmds, Severed(c)
  PROVE  Wired(c)
<1>1. c \in 2 .. nb_cmds - 1 /\ nb_cmds \in Nat
  BY CmdsInBounds DEF Severed
<1> SUFFICES ASSUME NEW k \in Cmds, cpc[k] = "run"
             PROVE  /\ c \in 1 .. nb_cmds - 1
                    /\ k = 0 => In(k) = IF mode = "here_doc" THEN TempOf(1) ELSE Infile
                    /\ k > 0 /\ k <= c => In(k) = ReadEnd(Link(k))
                    /\ k > c => c >= 2 /\ Beyond(In(k), c)
                    /\ k < c => Out(k) = WriteEnd(Link(k + 1))
                    /\ k = c => Out(k) = IF c = nb_cmds - 1 THEN Outfile ELSE Terminal
  BY DEF Wired
<1>2. Joined(c, k) /\ Ready(k) /\ k \in Nat
  BY PipexAssumption DEF Severed, Ready, Cmds
<1>3. CASE k < c
  BY <1>1, <1>2, <1>3 DEF Joined, Streams, In, Out
<1>4. CASE k = c
  BY <1>1, <1>2, <1>4 DEF Joined, In, Out
<1>5. CASE k > c
  BY <1>1, <1>2, <1>5 DEF Joined, In, Out
<1>6. QED
  BY <1>1, <1>2, <1>3, <1>4, <1>5

(* The first command reads a file, the others no file, and no pipe but that of their link. *)
LEMMA WhatIsRead ==
  ASSUME CoreInv, NEW n, Wired(n), NEW k \in Cmds, cpc[k] = "run"
  PROVE  /\ k <= n => In(k) # Terminal
         /\ k = 0 => \A p \in PipeNo : ~ReadsPipe(k, p)
         /\ k > 0 => ~ReadsFile(k)
         /\ k > 0 /\ k <= n => \A p \in PipeNo : ReadsPipe(k, p) => p = Link(k)
         /\ k > n => \A p \in PipeNo : ReadsPipe(k, p) => \A j \in 1 .. n : p # Link(j)
<1>1. k \in Nat /\ n \in Nat \ {0}
  BY RunningIsForked, CmdsInBounds DEF Wired
<1>2. CASE k = 0
  BY <1>1, <1>2 DEF Wired, ReadsPipe, Terminal, TempOf, Infile, ReadEnd
<1>3. CASE k > 0 /\ k <= n
  <2>1. In(k) = ReadEnd(Link(k)) /\ Link(k) \in Nat
    BY <1>1, <1>3, LinkNumbers DEF Wired
  <2>2. QED
    BY <1>1, <1>3, <2>1 DEF ReadsPipe, ReadsFile, Terminal, TempOf, Infile, ReadEnd
<1>4. CASE k > n
  <2>1. n >= 2 /\ Beyond(In(k), n)
    BY <1>4 DEF Wired
  <2>2. ASSUME NEW p \in PipeNo, ReadsPipe(k, p), NEW j \in 1 .. n PROVE p # Link(j)
    <3>1. p > n
      BY <2>1, <2>2 DEF ReadsPipe, Beyond, ReadEnd, Closed, Terminal
    <3>2. Link(j) <= n
      BY <1>1, <2>1 DEF Link
    <3>3. p \in Nat /\ Link(j) \in Nat
      BY <1>1, LinkNumbers DEF PipeNo
    <3>4. QED
      BY <1>1, <3>1, <3>2, <3>3
  <2>3. ~ReadsFile(k)
    BY <2>1 DEF ReadsFile, Beyond, Closed, Terminal, TempOf, Infile
  <2>4. QED
    BY <1>1, <1>4, <2>2, <2>3
<1>5. QED
  BY <1>1, <1>2, <1>3, <1>4

(* Up to the end of the pipeline a command writes the pipe of the next link. *)
LEMMA WhatIsWritten ==
  ASSUME CoreInv, NEW n, Wired(n), NEW k \in Cmds, cpc[k] = "run"
  PROVE  /\ k < n => /\ Out(k) # Terminal /\ Out(k) # Outfile
                     /\ \A p \in PipeNo : WritesPipe(k, p) => p = Link(k + 1)
         /\ k = n => \A p \in PipeNo : ~WritesPipe(k, p)
         /\ k = n /\ n = nb_cmds - 1 => Out(k) = Outfile
         /\ k = n /\ n # nb_cmds - 1 => Out(k) = Terminal
<1>1. CASE k < n
  <2>1. Out(k) = WriteEnd(Link(k + 1))
    BY <1>1 DEF Wired
  <2>2. QED
    BY <1>1, <2>1, RunningIsForked DEF WritesPipe, Terminal, Outfile, WriteEnd, Wired
<1>2. CASE k = n
  <2>1. Out(k) = IF n = nb_cmds - 1 THEN Outfile ELSE Terminal
    BY <1>2 DEF Wired
  <2>2. Out(k) \in {Outfile, Terminal}
    BY <2>1
  <2>3. \A p \in PipeNo : ~WritesPipe(k, p)
    BY <2>2 DEF WritesPipe, Terminal, Outfile, WriteEnd
  <2>4. ~(k < n)
    BY <1>2, RunningIsForked
  <2>5. QED
    BY <1>2, <2>1, <2>3, <2>4
<1>3. CASE k > n
  BY <1>3, RunningIsForked DEF Wired
<1>4. QED
  BY <1>1, <1>2, <1>3, RunningIsForked DEF Wired

-----------------------------------------------------------------------------
(***************************************************************************)
(* A command reads: the item leaves the source, or the pipe before it, and *)
(* is held by the command.                                                 *)
(***************************************************************************)
LEMMA ReadStep ==
  ASSUME CoreInv, NEW n, Wired(n), Flow(n), OutInv, EofInv, NEW k \in Cmds, CommandReads(k)
  PROVE  Flow(n)' /\ OutInv' /\ EofInv' /\ (DrainInv => DrainInv')
<1>1. /\ cpc[k] = "run" /\ held[k] = Nothing
      /\ taken' = [taken EXCEPT ![k] = @ + 1]
      /\ UNCHANGED <<vars, out, drained>>
  BY DEF CommandReads
<1>2. UNCHANGED <<nb_cmds, mode, cpc, child_pids, status>>
  BY <1>1 DEF vars, parse, children
<1>3. /\ k < nb_cmds /\ nb_cmds >= 2 /\ child_pids[k] = k + 1
      /\ nb_cmds \in Nat /\ nb_cmds <= MaxCmds /\ MaxCmds \in Nat /\ k \in Nat
      /\ n \in 1 .. nb_cmds - 1 /\ n \in Nat
      /\ \A j \in 1 .. n : j \in 1 .. MaxCmds - 1 /\ j \in Cmds /\ j - 1 \in Cmds
  <2>1. n \in 1 .. nb_cmds - 1
    BY <1>1 DEF Wired
  <2>2. QED
    BY <1>1, <2>1, RunningIsForked, CmdsInBounds
<1>4. taken \in [Cmds -> Nat] /\ held \in [Cmds -> Nat] /\ buffer \in [PipeNo -> Seq(Nat)]
  BY DEF Flow
<1>5. ~drained[k]
  BY <1>1 DEF EofInv
<1>6. ASSUME held' = [held EXCEPT ![k] = taken[k] + 1]
      PROVE  /\ taken' \in [Cmds -> Nat] /\ held' \in [Cmds -> Nat]
             /\ \A j \in Cmds : held'[j] \in {Nothing, taken'[j]} /\ (Waiting(j)' => taken'[j] = 0)
             /\ \A j \in Cmds : Passed(j)' = Passed(j)
  <2>1. taken[k] + 1 \in Nat /\ taken[k] + 1 - 1 = taken[k] /\ taken[k] + 1 # 0
    BY <1>4
  <2>2. \A j \in Cmds : j # k => taken'[j] = taken[j] /\ held'[j] = held[j]
    BY <1>1, <1>4, <1>6
  <2>3. taken'[k] = taken[k] + 1 /\ held'[k] = taken[k] + 1
    BY <1>1, <1>4, <1>6
  <2>4. taken' \in [Cmds -> Nat] /\ held' \in [Cmds -> Nat]
    BY <1>1, <1>4, <1>6, <2>1
  <2>5. \A j \in Cmds : Waiting(j)' => Waiting(j) /\ j # k
    BY <1>1, <1>2 DEF Waiting
  <2>6. \A j \in Cmds : Passed(j)' = Passed(j)
    <3>1. Passed(k) = taken[k]
      BY <1>1 DEF Passed
    <3>2. held'[k] # Nothing
      BY <2>1, <2>3 DEF Nothing
    <3>3. Passed(k)' = taken'[k] - 1
      BY <3>2 DEF Passed, Nothing
    <3>4. taken'[k] - 1 = taken[k]
      BY <1>4, <2>3
    <3>5. QED
      BY <2>2, <3>1, <3>3, <3>4 DEF Passed
  <2>7. QED
    BY <2>2, <2>3, <2>4, <2>5, <2>6 DEF Flow
<1>7. ASSUME \A j \in Cmds : Passed(j)' = Passed(j) PROVE OutInv'
  <2> DEFINE last == nb_cmds - 1
  <2>1. last \in Cmds
    BY <1>3, CmdsInBounds
  <2>2. Passed(last)' = Passed(last)
    BY <1>2, <1>7, <2>1 DEF Passed
  <2>3. Kept' = Kept /\ (Ready(last) <=> Ready(last)')
    BY <1>2 DEF Kept, Ready
  <2>4. QED
    BY <1>1, <1>2, <1>3, <2>2, <2>3 DEF OutInv
<1>8. ASSUME \A j \in Cmds : Passed(j)' = Passed(j), held' = [held EXCEPT ![k] = taken[k] + 1]
      PROVE  EofInv' /\ (DrainInv => DrainInv')
  <2>1. \A j \in Cmds : drained[j] => j # k /\ held'[j] = held[j] /\ taken'[j] = taken[j]
    BY <1>1, <1>4, <1>5, <1>8
  <2>2. EofInv'
    BY <1>1, <1>2, <2>1 DEF EofInv
  <2>3. ASSUME DrainInv, NEW j \in Cmds, drained[j], j > 0
        PROVE  Gone(j - 1)' /\ taken'[j] = Passed(j - 1)'
    <3>1. j - 1 \in Cmds
      BY <2>3, PipexAssumption DEF Cmds
    <3>2. Passed(j - 1)' = Passed(j - 1)
      BY <1>8, <3>1
    <3>3. Gone(j - 1) /\ taken[j] = Passed(j - 1)
      BY <2>3 DEF DrainInv
    <3>4. QED
      BY <1>2, <2>1, <2>3, <3>2, <3>3 DEF Gone
  <2>4. ASSUME DrainInv, NEW m \in Cmds, \A j \in 0 .. m : drained[j] PROVE taken'[m] = InputLen
    <3>1. m \in 0 .. m
      BY PipexAssumption DEF Cmds
    <3>2. taken'[m] = taken[m]
      BY <2>1, <2>4, <3>1
    <3>3. taken[m] = InputLen
      BY <2>4 DEF DrainInv
    <3>4. QED
      BY <3>2, <3>3
  <2>5. DrainInv => DrainInv'
    BY <1>1, <2>3, <2>4 DEF DrainInv
  <2>6. QED
    BY <2>2, <2>5
<1>9. CASE k = 0
  <2>1. source # <<>> /\ held' = [held EXCEPT ![k] = Head(source)] /\ source' = Tail(source)
        /\ UNCHANGED buffer
    BY <1>1, <1>9, WhatIsRead DEF CommandReads
  <2>2. taken[0] \in Nat /\ taken[0] <= InputLen /\ source = Stretch(taken[0], InputLen)
    BY <1>4, <1>9, CmdsInBounds DEF Flow
  <2>3. /\ taken[0] + 1 <= InputLen /\ Head(source) = taken[0] + 1
        /\ Tail(source) = Stretch(taken[0] + 1, InputLen)
    BY <2>1, <2>2, StretchRead, PipelineAssumption
  <2>4. held' = [held EXCEPT ![k] = taken[k] + 1]
    BY <1>9, <2>1, <2>3
  <2>5. taken'[0] = taken[0] + 1 /\ \A j \in Cmds : j # 0 => taken'[j] = taken[j]
    BY <1>1, <1>4, <1>9
  <2>6. taken'[0] <= InputLen /\ source' = Stretch(taken'[0], InputLen)
    BY <2>1, <2>3, <2>5
  <2>7. \A j \in 1 .. n :
          taken'[j] <= Passed(j - 1)' /\ buffer'[Link(j)] = Stretch(taken'[j], Passed(j - 1)')
    <3> SUFFICES ASSUME NEW j \in 1 .. n
                 PROVE  taken'[j] <= Passed(j - 1)'
                        /\ buffer'[Link(j)] = Stretch(taken'[j], Passed(j - 1)')
      OBVIOUS
    <3>1. j \in Cmds /\ j - 1 \in Cmds /\ j # 0
      BY <1>3
    <3>2. Passed(j - 1)' = Passed(j - 1) /\ taken'[j] = taken[j]
      BY <1>6, <2>4, <2>5, <3>1
    <3>3. taken[j] <= Passed(j - 1) /\ buffer[Link(j)] = Stretch(taken[j], Passed(j - 1))
      BY DEF Flow
    <3>4. QED
      BY <2>1, <3>2, <3>3
  <2>8. \A j \in Cmds : taken'[j] <= InputLen /\ (j > n => taken'[j] = 0)
    BY <1>3, <2>5, <2>6 DEF Flow
  <2>9. Flow(n)'
    BY <1>2, <1>3, <1>4, <1>6, <2>1, <2>4, <2>6, <2>7, <2>8 DEF Flow
  <2>10. QED
    BY <1>6, <1>7, <1>8, <2>4, <2>9
<1>10. CASE k > 0 /\ k <= n
  <2>1. k \in 1 .. MaxCmds - 1 /\ k \in 1 .. n
    BY <1>3, <1>10
  <2>2. k - 1 \in Cmds /\ Link(k) \in PipeNo
    BY <2>1, LinkIsPipe
  <2>3. /\ buffer[Link(k)] # <<>> /\ held' = [held EXCEPT ![k] = Head(buffer[Link(k)])]
        /\ buffer' = [buffer EXCEPT ![Link(k)] = Tail(@)] /\ UNCHANGED source
    BY <1>1, <1>10, WhatIsRead DEF CommandReads
  <2>4. /\ taken[k] \in Nat /\ Passed(k - 1) \in Nat /\ taken[k] <= Passed(k - 1)
        /\ buffer[Link(k)] = Stretch(taken[k], Passed(k - 1))
    BY <1>4, <2>1, <2>2, PassedIsNat DEF Flow
  <2>5. /\ taken[k] + 1 <= Passed(k - 1) /\ Head(buffer[Link(k)]) = taken[k] + 1
        /\ Tail(buffer[Link(k)]) = Stretch(taken[k] + 1, Passed(k - 1))
    BY <2>3, <2>4, StretchRead
  <2>6. held' = [held EXCEPT ![k] = taken[k] + 1]
    BY <2>3, <2>5
  <2>7. taken'[k] = taken[k] + 1 /\ \A j \in Cmds : j # k => taken'[j] = taken[j]
    BY <1>1, <1>4
  <2>8. taken'[0] = taken[0]
    BY <1>10, <2>7, CmdsInBounds
  <2>9. /\ buffer' \in [PipeNo -> Seq(Nat)] /\ buffer'[Link(k)] = Tail(buffer[Link(k)])
        /\ \A p \in PipeNo : p # Link(k) => buffer'[p] = buffer[p]
    <3>1. Tail(buffer[Link(k)]) \in Seq(Nat)
      BY <1>4, <2>2, <2>3, HeadTailProperties
    <3>2. QED
      BY <1>4, <2>2, <2>3, <3>1
  <2>10. \A j \in 1 .. n :
           taken'[j] <= Passed(j - 1)' /\ buffer'[Link(j)] = Stretch(taken'[j], Passed(j - 1)')
    <3> SUFFICES ASSUME NEW j \in 1 .. n
                 PROVE  taken'[j] <= Passed(j - 1)'
                        /\ buffer'[Link(j)] = Stretch(taken'[j], Passed(j - 1)')
      OBVIOUS
    <3>1. j \in Cmds /\ j - 1 \in Cmds /\ j \in 1 .. MaxCmds - 1
      BY <1>3
    <3>2. Passed(j - 1)' = Passed(j - 1)
      BY <1>6, <2>6, <3>1
    <3>3. CASE j = k
      BY <2>5, <2>7, <2>9, <3>2, <3>3
    <3>4. CASE j # k
      <4>1. Link(j) # Link(k) /\ Link(j) \in PipeNo
        BY <2>1, <3>1, <3>4, LinkIsPipe
      <4>2. taken[j] <= Passed(j - 1) /\ buffer[Link(j)] = Stretch(taken[j], Passed(j - 1))
        BY DEF Flow
      <4>3. taken'[j] = taken[j] /\ buffer'[Link(j)] = buffer[Link(j)]
        BY <2>7, <2>9, <3>1, <3>4, <4>1
      <4>4. QED
        BY <3>2, <4>2, <4>3
    <3>5. QED
      BY <3>3, <3>4
  <2>11. source' = Stretch(taken'[0], InputLen)
    BY <2>3, <2>8 DEF Flow
  <2>12. \A j \in Cmds : taken'[j] <= InputLen /\ (j > n => taken'[j] = 0)
    <3>1. taken[k - 1] \in Nat /\ Passed(k - 1) <= taken[k - 1]
      BY <2>2, PassedIsNat
    <3>2. taken[k - 1] <= InputLen
      BY <2>2 DEF Flow
    <3>3. taken'[k] <= InputLen
      BY <2>4, <2>5, <2>7, <3>1, <3>2, PipelineAssumption
    <3>4. ~(k > n)
      BY <1>3, <1>10
    <3>5. \A j \in Cmds : taken[j] <= InputLen /\ (j > n => taken[j] = 0)
      BY DEF Flow
    <3>6. QED
      BY <2>7, <3>3, <3>4, <3>5
  <2>13. Flow(n)'
    <3>1. \A p \in PipeNo : (\A j \in 1 .. n : p # Link(j)) => buffer'[p] = <<>>
      BY <2>1, <2>9 DEF Flow
    <3>2. QED
      BY <1>2, <1>3, <1>6, <2>6, <2>9, <2>10, <2>11, <2>12, <3>1 DEF Flow
  <2>14. QED
    BY <1>6, <1>7, <1>8, <2>6, <2>13
<1>11. CASE k > n
  <2>1. ~ReadsFile(k)
    BY <1>1, <1>3, <1>11, WhatIsRead
  <2>2. \A p \in PipeNo : ReadsPipe(k, p) => buffer[p] = <<>>
    BY <1>1, <1>11, WhatIsRead DEF Flow
  <2>3. QED
    BY <2>1, <2>2 DEF CommandReads
<1>12. QED
  BY <1>3, <1>9, <1>10, <1>11

(***************************************************************************)
(* A command writes: what it holds is added to the pipe behind it, or to   *)
(* the outfile.  Nobody has yet seen the end of that pipe.                 *)
(***************************************************************************)
LEMMA WriteStep ==
  ASSUME CoreInv, NEW n, Wired(n), Flow(n), OutInv, EofInv, NEW k \in Cmds, CommandWrites(k)
  PROVE  Flow(n)' /\ OutInv' /\ EofInv' /\ (DrainInv => DrainInv')
<1>1. /\ cpc[k] = "run" /\ held[k] # Nothing
      /\ held' = [held EXCEPT ![k] = Nothing]
      /\ UNCHANGED <<vars, source, taken, drained>>
  BY DEF CommandWrites
<1>2. UNCHANGED <<nb_cmds, mode, cpc, child_pids, status>>
  BY <1>1 DEF vars, parse, children
<1>3. /\ k < nb_cmds /\ nb_cmds >= 2 /\ child_pids[k] = k + 1
      /\ nb_cmds \in Nat /\ nb_cmds <= MaxCmds /\ MaxCmds \in Nat /\ k \in Nat
      /\ n \in 1 .. nb_cmds - 1 /\ n \in Nat
      /\ \A j \in 1 .. n : j \in 1 .. MaxCmds - 1 /\ j \in Cmds /\ j - 1 \in Cmds
  <2>1. n \in 1 .. nb_cmds - 1
    BY <1>1 DEF Wired
  <2>2. QED
    BY <1>1, <2>1, RunningIsForked, CmdsInBounds
<1>4. taken \in [Cmds -> Nat] /\ held \in [Cmds -> Nat] /\ buffer \in [PipeNo -> Seq(Nat)]
  BY DEF Flow
<1>5. /\ held[k] = taken[k] /\ Passed(k) + 1 = taken[k] /\ Passed(k) \in Nat
      /\ held'[k] = Nothing /\ Passed(k)' = taken[k]
  <2>1. held'[k] = Nothing
    BY <1>1, <1>4
  <2>2. Passed(k)' = taken[k]
    BY <1>1, <2>1 DEF Passed
  <2>3. QED
    BY <1>1, <2>1, <2>2, PassedIsNat
<1>6. \A j \in Cmds : j # k => held'[j] = held[j] /\ Passed(j)' = Passed(j)
  BY <1>1, <1>4 DEF Passed
<1>7. /\ held' \in [Cmds -> Nat]
      /\ \A j \in Cmds : held'[j] \in {Nothing, taken'[j]} /\ (Waiting(j)' => taken'[j] = 0)
  <2>1. Nothing \in Nat
    BY DEF Nothing
  <2>2. held' \in [Cmds -> Nat]
    BY <1>1, <1>4, <2>1
  <2>3. \A j \in Cmds : Waiting(j)' => Waiting(j)
    BY <1>2 DEF Waiting
  <2>4. QED
    BY <1>1, <1>5, <1>6, <2>2, <2>3 DEF Flow
<1>8. ~drained[k]
  BY <1>1 DEF EofInv
<1>9. EofInv' /\ (DrainInv => DrainInv')
  <2>1. EofInv'
    BY <1>1, <1>2, <1>6, <1>8 DEF EofInv
  <2>2. ASSUME DrainInv, NEW j \in Cmds, drained[j], j > 0
        PROVE  Gone(j - 1)' /\ taken[j] = Passed(j - 1)'
    <3>1. j - 1 \in Cmds
      BY <2>2, PipexAssumption DEF Cmds
    <3>2. Gone(j - 1) /\ taken[j] = Passed(j - 1)
      BY <2>2 DEF DrainInv
    <3>3. j - 1 # k
      BY <1>1, <1>3, <3>2 DEF Gone
    <3>4. QED
      BY <1>2, <1>6, <3>1, <3>2, <3>3 DEF Gone
  <2>3. DrainInv => DrainInv'
    BY <1>1, <2>2 DEF DrainInv
  <2>4. QED
    BY <2>1, <2>3
<1>10. k <= n
  BY <1>1, <1>3 DEF Flow, Nothing
<1>11. ASSUME k = n, UNCHANGED buffer PROVE Flow(n)'
  <2>1. \A j \in 1 .. n : Passed(j - 1)' = Passed(j - 1)
    BY <1>3, <1>6, <1>11
  <2>2. QED
    BY <1>1, <1>3, <1>7, <1>11, <2>1 DEF Flow
<1>12. ASSUME k # nb_cmds - 1, UNCHANGED out PROVE OutInv'
  <2> DEFINE last == nb_cmds - 1
  <2>1. last \in Cmds /\ last # k
    BY <1>3, <1>12, CmdsInBounds
  <2>2. Passed(last)' = Passed(last)
    BY <1>2, <1>6, <2>1 DEF Passed
  <2>3. Kept' = Kept /\ (Ready(last) <=> Ready(last)')
    BY <1>2 DEF Kept, Ready
  <2>4. QED
    BY <1>1, <1>2, <1>3, <1>12, <2>2, <2>3 DEF OutInv
<1>13. CASE k = n /\ n = nb_cmds - 1
  <2>1. out' = Append(out, held[k]) /\ UNCHANGED buffer
    BY <1>1, <1>13, WhatIsWritten DEF CommandWrites, Outfile, Terminal
  <2>2. out = Kept \o Stretch(0, Passed(k))
    BY <1>1, <1>3, <1>13 DEF OutInv, Ready
  <2>3. out' = Kept \o Stretch(0, Passed(k) + 1)
    BY <1>5, <2>1, <2>2, OutfileWrite, PipelineAssumption
  <2>4. out' = Kept' \o Stretch(0, Passed(k)')
    <3>1. Kept' = Kept
      BY <1>2 DEF Kept
    <3>2. Passed(k)' = Passed(k) + 1
      BY <1>5
    <3>3. QED
      BY <2>3, <3>1, <3>2
  <2>5. nb_cmds' - 1 = k /\ nb_cmds' \notin {0, 1} /\ cpc'[k] = "run"
    BY <1>1, <1>2, <1>3, <1>13
  <2>6. (Passed(nb_cmds - 1) = Passed(k))'
    BY <2>5 DEF Passed
  <2>7. (out = Kept \o Stretch(0, Passed(nb_cmds - 1)))'
    BY <2>4, <2>6
  <2>8. OutInv'
    BY <2>5, <2>7 DEF OutInv
  <2>9. QED
    BY <1>9, <1>11, <1>13, <2>1, <2>8
<1>14. CASE k = n /\ n # nb_cmds - 1
  <2>1. UNCHANGED <<out, buffer>>
    BY <1>1, <1>14, WhatIsWritten DEF CommandWrites, Outfile, Terminal
  <2>2. OutInv'
    BY <1>3, <1>14, <1>12, <2>1
  <2>3. QED
    BY <1>9, <1>11, <1>14, <2>1, <2>2
<1>15. CASE k < n
  <2> DEFINE l == k + 1
  <2>1. l \in 1 .. n /\ l \in 1 .. MaxCmds - 1 /\ l \in Cmds /\ l - 1 = k
    BY <1>3, <1>15
  <2>2. Link(l) \in PipeNo
    BY <2>1, LinkIsPipe
  <2>3. buffer' = [buffer EXCEPT ![Link(l)] = Append(@, held[k])] /\ UNCHANGED out
    BY <1>1, <1>15, WhatIsWritten DEF CommandWrites
  <2>4. taken[l] \in Nat /\ taken[l] <= Passed(k) /\ buffer[Link(l)] = Stretch(taken[l], Passed(k))
    BY <1>4, <2>1 DEF Flow
  <2>5. Append(buffer[Link(l)], held[k]) = Stretch(taken[l], Passed(k) + 1)
    BY <1>5, <2>4, StretchWrite
  <2>6. /\ buffer' \in [PipeNo -> Seq(Nat)] /\ buffer'[Link(l)] = Append(buffer[Link(l)], held[k])
        /\ \A p \in PipeNo : p # Link(l) => buffer'[p] = buffer[p]
    <3>1. Append(buffer[Link(l)], held[k]) \in Seq(Nat)
      BY <1>4, <2>2, AppendProperties
    <3>2. QED
      BY <1>4, <2>2, <2>3, <3>1
  <2>7. \A j \in 1 .. n :
          taken'[j] <= Passed(j - 1)' /\ buffer'[Link(j)] = Stretch(taken'[j], Passed(j - 1)')
    <3> SUFFICES ASSUME NEW j \in 1 .. n
                 PROVE  taken'[j] <= Passed(j - 1)'
                        /\ buffer'[Link(j)] = Stretch(taken'[j], Passed(j - 1)')
      OBVIOUS
    <3>1. j \in Cmds /\ j - 1 \in Cmds /\ j \in 1 .. MaxCmds - 1
      BY <1>3
    <3>2. CASE j = l
      <4>1. Passed(k)' = Passed(k) + 1
        BY <1>5
      <4>2. taken[l] <= Passed(k)' /\ buffer'[Link(l)] = Stretch(taken[l], Passed(k)')
        BY <1>5, <2>4, <2>5, <2>6, <4>1
      <4>3. j - 1 = k
        BY <2>1, <3>2
      <4>4. QED
        BY <1>1, <3>2, <4>2, <4>3 DEF Passed
    <3>3. CASE j # l
      <4>1. Link(j) # Link(l) /\ Link(j) \in PipeNo /\ j - 1 # k
        BY <2>1, <3>1, <3>3, LinkIsPipe
      <4>2. taken[j] <= Passed(j - 1) /\ buffer[Link(j)] = Stretch(taken[j], Passed(j - 1))
        BY DEF Flow
      <4>3. Passed(j - 1)' = Passed(j - 1) /\ buffer'[Link(j)] = buffer[Link(j)]
        BY <1>6, <2>6, <3>1, <4>1
      <4>4. QED
        BY <1>1, <4>2, <4>3
    <3>4. QED
      BY <3>2, <3>3
  <2>8. Flow(n)'
    <3>1. \A p \in PipeNo : (\A j \in 1 .. n : p # Link(j)) => buffer'[p] = <<>>
      BY <2>1, <2>6 DEF Flow
    <3>2. QED
      BY <1>1, <1>2, <1>3, <1>7, <2>6, <2>7, <3>1 DEF Flow
  <2>9. OutInv'
    BY <1>3, <1>12, <1>15, <2>3
  <2>10. QED
    BY <1>9, <2>8, <2>9
<1>16. QED
  BY <1>3, <1>10, <1>13, <1>14, <1>15

-----------------------------------------------------------------------------
(***************************************************************************)
(* End of file.  Whoever still holds the write end of the pipe before      *)
(* command k is its neighbour, which has not ended: so if nobody holds it  *)
(* the neighbour is gone, and an empty pipe will stay empty.               *)
(***************************************************************************)
LEMMA NobodyWrites ==
  ASSUME CoreInv, ChildPlumbing, EndInv, NEW k \in Cmds, k > 0, cpc[k] = "run",
         ~Held(WriteEnd(Link(k)))
  PROVE  Gone(k - 1)
<1> DEFINE j == k - 1
<1>1. /\ k < nb_cmds /\ child_pids[k] = k + 1 /\ nb_cmds \in Nat /\ k \in Nat
      /\ j \in Cmds /\ j + 1 = k /\ j # nb_cmds - 1 /\ j \in Nat
  BY RunningIsForked, CmdsInBounds, PipexAssumption DEF Cmds
<1>2. child_pids[j] # 0
  <2>1. main # "exited"
    BY DEF EndInv, NoOrphans
  <2>2. Forked \in Nat
    BY DEF Forked, CoreInv, TypeOK
  <2>3. ~(k >= Forked)
    BY <1>1, <2>1 DEF CoreInv, ChildInv
  <2>4. ~(j >= Forked)
    BY <1>1, <2>2, <2>3
  <2>5. QED
    BY <1>1, <2>1, <2>4 DEF CoreInv, ChildInv
<1> HIDE DEF j
<1>3. CASE child_pids[j] = -1
  BY <1>3 DEF Gone, j
<1>4. CASE child_pids[j] = j + 1
  <2>1. cpc[j] # "none"
    BY <1>1, <1>4 DEF CoreInv, ChildInv
  <2>2. ~Holds(cfd[j], WriteEnd(Link(k)))
    BY <1>1 DEF Held
  <2>3. cpc[j] # "forked"
    <3> SUFFICES ASSUME cpc[j] = "forked" PROVE FALSE
      OBVIOUS
    <3>1. Layout(cfd[j], cpipe[j], j)
      BY <1>1 DEF ChildPlumbing
    <3>2. cfd[j][cpipe[j][(j + 1) % 2][1]] = WriteEnd(Link(k))
      BY <1>1, <3>1 DEF Layout
    <3>3. cpipe[j][(j + 1) % 2][1] \in Fd
      <4>1. (j + 1) % 2 \in 0 .. 1
        BY <1>1
      <4>2. cpipe[j] \in [0 .. 1 -> [0 .. 1 -> Fd]]
        BY <1>1 DEF CoreInv, TypeOK
      <4>3. QED
        BY <4>1, <4>2
    <3>4. QED
      BY <2>2, <3>2, <3>3 DEF Holds
  <2>4. ~Ready(j)
    <3> SUFFICES ASSUME Ready(j) PROVE FALSE
      OBVIOUS
    <3>1. Streams(cfd[j], j)
      BY <1>1 DEF ChildPlumbing
    <3>2. cfd[j][STDOUT] = WriteEnd(Link(k))
      BY <1>1, <3>1 DEF Streams
    <3>3. QED
      BY <2>2, <3>2, StandardDistinct DEF Holds
  <2>5. cpc[j] \in {"zombie", "reaped"}
    BY <1>1, <2>1, <2>3, <2>4 DEF Ready, CoreInv, TypeOK, ChildStates
  <2>6. QED
    BY <2>5 DEF Gone, j
<1>5. QED
  BY <1>1, <1>2, <1>3, <1>4 DEF CoreInv, ChildInv

(* A command that is at the end of its input has read all that came its way. *)
LEMMA AllRead ==
  ASSUME CoreInv, ChildPlumbing, EndInv, FlowInv, NEW k \in Cmds, cpc[k] = "run", AtEndOfFile(k)
  PROVE  /\ k = 0 => taken[0] = InputLen
         /\ k > 0 => Gone(k - 1) /\ taken[k] = Passed(k - 1)
<1>0. k \in Nat /\ k <= nb_cmds - 1 /\ nb_cmds - 1 \in 1 .. nb_cmds - 1 /\ Wired(nb_cmds - 1)
  <2>1. k \in Nat /\ k <= nb_cmds - 1 /\ nb_cmds - 1 \in 1 .. nb_cmds - 1
    BY RunningIsForked
  <2>2. QED
    BY <2>1, WiredUnlessLost
<1>1. ASSUME k = 0 PROVE taken[0] = InputLen
  <2>1. source = <<>>
    BY <1>0, <1>1, WhatIsRead DEF AtEndOfFile
  <2>2. taken[0] \in Nat /\ taken[0] <= InputLen /\ source = Stretch(taken[0], InputLen)
    <3>1. 0 \in Cmds
      BY CmdsInBounds
    <3>2. QED
      BY <3>1 DEF FlowInv, Flow
  <2>3. QED
    BY <2>1, <2>2, StretchIsSeq, PipelineAssumption
<1>2. ASSUME k > 0 PROVE Gone(k - 1) /\ taken[k] = Passed(k - 1)
  <2>1. buffer[Link(k)] = <<>> /\ ~Held(WriteEnd(Link(k)))
    BY <1>0, <1>2, WhatIsRead DEF AtEndOfFile
  <2>2. k \in 1 .. nb_cmds - 1
    BY <1>0, <1>2
  <2>3. k - 1 \in Cmds
    BY <2>2, CmdsInBounds
  <2>4. /\ taken[k] \in Nat /\ Passed(k - 1) \in Nat /\ taken[k] <= Passed(k - 1)
        /\ buffer[Link(k)] = Stretch(taken[k], Passed(k - 1))
    BY <2>2, <2>3, PassedIsNat DEF FlowInv, Flow
  <2>5. taken[k] = Passed(k - 1)
    BY <2>1, <2>4, StretchIsSeq
  <2>6. QED
    BY <1>2, <2>1, <2>5, NobodyWrites
<1>3. QED
  BY <1>1, <1>2

(* A command ends at the end of its input. *)
LEMMA EofStep ==
  ASSUME CoreInv, NEW n, Flow(n), OutInv, EofInv, NEW k \in Cmds, EndsAtEof(k)
  PROVE  Flow(n)' /\ OutInv' /\ EofInv'
<1>1. /\ cpc[k] = "run" /\ held[k] = Nothing
      /\ CommandOver(k, 0) /\ drained' = [drained EXCEPT ![k] = TRUE]
      /\ UNCHANGED <<source, buffer, held, out, taken>>
  BY DEF EndsAtEof
<1>2. UNCHANGED <<nb_cmds, mode, child_pids>>
  BY <1>1 DEF CommandOver, ParentIdle, parse
<1>3. /\ cpc' = [cpc EXCEPT ![k] = "zombie"] /\ status' = [status EXCEPT ![k] = 0]
      /\ cpc \in [Cmds -> ChildStates] /\ status \in [Cmds -> Status]
  BY <1>1 DEF CommandOver, ChildEnds, CoreInv, TypeOK
<1>4. /\ cpc'[k] = "zombie" /\ status'[k] = 0
      /\ \A j \in Cmds : j # k => cpc'[j] = cpc[j] /\ status'[j] = status[j]
  BY <1>3
<1>5. /\ k < nb_cmds /\ nb_cmds >= 2 /\ nb_cmds \in Nat
  BY <1>1, RunningIsForked
<1>6. Flow(n)'
  <2>1. [Next]_vars
    BY <1>1, CommandOverEnds, PipelineAssumption DEF Next
  <2>2. QED
    BY <1>1, <2>1, FlowFrame
<1>7. OutInv'
  <2> DEFINE last == nb_cmds - 1
  <2>1. last \in Cmds
    BY <1>5, CmdsInBounds
  <2>2. (Passed(last) = 0 <=> Passed(last)' = 0) /\ Kept' = Kept /\ Passed(last)' = Passed(last)
    BY <1>1, <1>2 DEF Passed, Kept
  <2>3. CASE last = k
    <3>1. out = Kept \o Stretch(0, Passed(last))
      BY <1>1, <1>5, <2>3 DEF OutInv, Ready
    <3>2. cpc'[last] \notin {"none", "forked"}
      BY <1>4, <2>3
    <3>3. QED
      BY <1>1, <1>2, <1>5, <2>2, <3>1, <3>2 DEF OutInv
  <2>4. CASE last # k
    <3>1. cpc'[last] = cpc[last] /\ (Ready(last)' <=> Ready(last))
      BY <1>2, <1>4, <2>1, <2>4 DEF Ready
    <3>2. drained'[last] = drained[last]
      BY <1>1, <2>1, <2>4 DEF EofInv
    <3>3. QED
      BY <1>1, <1>2, <1>5, <2>2, <3>1, <3>2 DEF OutInv
  <2>5. QED
    BY <2>3, <2>4
<1>8. EofInv'
  <2>1. /\ drained' \in [Cmds -> BOOLEAN]
        /\ \A j \in Cmds : j # k => drained'[j] = drained[j]
    BY <1>1 DEF EofInv
  <2>2. QED
    BY <1>1, <1>2, <1>4, <1>5, <2>1 DEF EofInv
<1>9. QED
  BY <1>6, <1>7, <1>8

(* As long as no pipe is lost it has then passed on all there was. *)
LEMMA EofDrains ==
  ASSUME CoreInv, ChildPlumbing, EndInv, FlowInv, EofInv, DrainInv, NEW k \in Cmds, EndsAtEof(k)
  PROVE  DrainInv'
<1>1. /\ cpc[k] = "run" /\ held[k] = Nothing /\ AtEndOfFile(k)
      /\ CommandOver(k, 0) /\ drained' = [drained EXCEPT ![k] = TRUE]
      /\ UNCHANGED <<held, taken>>
  BY DEF EndsAtEof
<1>2. UNCHANGED <<nb_cmds, mode, child_pids>>
  BY <1>1 DEF CommandOver, ParentIdle, parse
<1>3. cpc'[k] = "zombie" /\ \A j \in Cmds : j # k => cpc'[j] = cpc[j]
  BY <1>1 DEF CommandOver, ChildEnds, CoreInv, TypeOK
<1>4. /\ k < nb_cmds /\ nb_cmds >= 2 /\ child_pids[k] = k + 1
      /\ nb_cmds \in Nat /\ nb_cmds <= MaxCmds /\ MaxCmds \in Nat /\ k \in Nat
  BY <1>1, RunningIsForked
<1>5. /\ drained'[k]
      /\ \A j \in Cmds : j # k => drained'[j] = drained[j]
  BY <1>1 DEF EofInv
<1>6. ~Gone(k)
  BY <1>1, <1>4 DEF Gone
<1>7. /\ k = 0 => taken[0] = InputLen
      /\ k > 0 => Gone(k - 1) /\ taken[k] = Passed(k - 1)
  BY <1>1, AllRead
<1>8. \A j \in Cmds : (Gone(j) => Gone(j)') /\ Passed(j)' = Passed(j)
  BY <1>1, <1>2, <1>3 DEF Gone, Passed
<1>9. ASSUME NEW j \in Cmds, drained'[j], j > 0
       PROVE  Gone(j - 1)' /\ taken[j] = Passed(j - 1)'
  <2>1. Gone(j - 1) /\ taken[j] = Passed(j - 1)
    BY <1>5, <1>7, <1>9 DEF DrainInv
  <2>2. j - 1 \in Cmds
    BY <1>9, PipexAssumption DEF Cmds
  <2>3. QED
    BY <1>8, <2>1, <2>2
<1>10. ASSUME NEW m \in Cmds, \A j \in 0 .. m : drained'[j] PROVE taken[m] = InputLen
  <2>0. m \in Nat /\ \A j \in 0 .. m : j \in Cmds
    BY PipexAssumption DEF Cmds
  <2>1. CASE m < k
    <3>1. \A j \in 0 .. m : drained[j]
      BY <1>4, <1>5, <1>10, <2>0, <2>1
    <3>2. QED
      BY <3>1 DEF DrainInv
  <2>2. CASE m = k
    <3>1. CASE k = 0
      BY <1>7, <2>2, <3>1
    <3>2. CASE k > 0
      <4>1. k - 1 \in Cmds /\ k - 1 \in Nat /\ k - 1 \in 0 .. k - 1
        BY <1>4, <3>2, PipexAssumption DEF Cmds
      <4>2. \A j \in 0 .. k - 1 : drained[j]
        BY <1>4, <1>5, <1>10, <2>0, <2>2, <3>2
      <4>3. taken[k - 1] = InputLen /\ held[k - 1] = Nothing
        BY <4>1, <4>2 DEF DrainInv, EofInv
      <4>4. Passed(k - 1) = InputLen
        BY <4>3 DEF Passed
      <4>5. QED
        BY <1>7, <2>2, <3>2, <4>4
    <3>3. QED
      BY <1>4, <3>1, <3>2
  <2>3. CASE m > k
    <3>1. k + 1 \in 0 .. m /\ k + 1 # k /\ k + 1 > 0 /\ (k + 1) - 1 = k
      BY <1>4, <2>0, <2>3
    <3>2. k + 1 \in Cmds /\ drained[k + 1]
      BY <1>5, <1>10, <2>0, <3>1
    <3>3. Gone((k + 1) - 1)
      BY <3>1, <3>2 DEF DrainInv
    <3>4. QED
      BY <1>6, <3>1, <3>3
  <2>4. QED
    BY <1>4, <2>0, <2>1, <2>2, <2>3
<1>11. QED
  BY <1>1, <1>9, <1>10 DEF DrainInv

(* A command that dies or stops early leaves everything where it is. *)
LEMMA OverStep ==
  ASSUME CoreInv, NEW n, Flow(n), OutInv, EofInv, NEW k \in Cmds, BrokenPipe(k) \/ StopsEarly(k)
  PROVE  Flow(n)' /\ OutInv' /\ EofInv' /\ (DrainInv => DrainInv')
<1>1. /\ cpc[k] = "run" /\ UNCHANGED data
      /\ \E st \in CmdCodes \cup {Killed} : CommandOver(k, st)
  BY DEF BrokenPipe, StopsEarly
<1>2. [Next]_vars
  BY <1>1, CommandOverEnds DEF Next
<1>3. cpc' = [cpc EXCEPT ![k] = "zombie"] /\ cpc \in [Cmds -> ChildStates]
  BY <1>1 DEF CommandOver, ChildEnds, CoreInv, TypeOK
<1>4. UNCHANGED <<source, buffer, held, taken, drained, out>>
  BY <1>1 DEF data
<1>5. nb_cmds >= 1 => ~(cpc[nb_cmds - 1] = "forked" /\ cpc'[nb_cmds - 1] = "exec")
  BY <1>3, CmdsInBounds
<1>6. QED
  BY <1>2, <1>4, <1>5, FlowFrame, DrainFrame, OutFrame

-----------------------------------------------------------------------------
(* At the start all of the input is in the source. *)
LEMMA DataInit ==
  ASSUME PInit
  PROVE  DataInv
<1>1. /\ nb_cmds = 0 /\ source = Stretch(0, InputLen) /\ buffer = [p \in PipeNo |-> <<>>]
      /\ held = [k \in Cmds |-> Nothing] /\ out = <<Old>>
      /\ taken = [k \in Cmds |-> 0] /\ drained = [k \in Cmds |-> FALSE]
  BY DEF PInit, Init, Input
<1>2. 0 \in Cmds /\ InputLen \in Nat /\ ~PipeLost
  BY PipexAssumption, PipelineAssumption DEF Cmds, PInit, Init, PipeLost, Waited
<1>3. FlowInv
  <2>1. taken \in [Cmds -> Nat] /\ held \in [Cmds -> Nat] /\ buffer \in [PipeNo -> Seq(Nat)]
    BY <1>1 DEF Nothing
  <2>2. \A k \in 1 .. nb_cmds - 1 : FALSE
    BY <1>1
  <2>3. QED
    BY <1>1, <1>2, <2>1, <2>2 DEF FlowInv, Flow
<1>4. OutInv /\ EofInv
  BY <1>1 DEF OutInv, EofInv
<1>5. DrainInv
  <2>1. \A k \in Cmds : 0 \in 0 .. k
    BY PipexAssumption DEF Cmds
  <2>2. QED
    BY <1>1, <1>2, <2>1 DEF DrainInv
<1>6. QED
  BY <1>2, <1>3, <1>4, <1>5 DEF DataInv

(* Every step keeps the flow up to the end of the pipeline, wherever that is. *)
LEMMA FlowStep ==
  ASSUME CoreInv, EndInv, NEW n, Wired(n), Flow(n), OutInv, EofInv, [PNext]_pvars
  PROVE  /\ Flow(n)' /\ OutInv' /\ EofInv'
         /\ DrainInv => DrainInv' \/ \E k \in Cmds : EndsAtEof(k)
<1>1. CASE PipexMainStep \/ \E k \in Cmds : PipexChildStep(k)
  BY <1>1, PipexStepKeepsData
<1>2. ASSUME NEW k \in Cmds, CommandStep(k) \/ StopsEarly(k)
      PROVE  /\ Flow(n)' /\ OutInv' /\ EofInv'
             /\ DrainInv => DrainInv' \/ EndsAtEof(k)
  BY <1>2, ReadStep, WriteStep, EofStep, OverStep DEF CommandStep
<1>3. CASE UNCHANGED pvars
  <2>1. [Next]_vars /\ UNCHANGED <<source, buffer, held, taken, drained, out, cpc>>
    BY <1>3 DEF pvars, data, vars, children
  <2>2. nb_cmds >= 1 => ~(cpc[nb_cmds - 1] = "forked" /\ cpc'[nb_cmds - 1] = "exec")
    BY <2>1
  <2>3. QED
    BY <2>1, <2>2, FlowFrame, DrainFrame, OutFrame
<1>4. QED
  BY <1>1, <1>2, <1>3 DEF PNext

(* Every step keeps the invariant while no pipe is lost. *)
LEMMA JoinedDataStep ==
  ASSUME PipexInv, AnswerInv, DataInv, ~PipeLost, ~PipeLost', [PNext]_pvars
  PROVE  DataInv'
<1>1. CoreInv /\ EndInv /\ ChildPlumbing /\ FlowInv /\ OutInv /\ EofInv /\ DrainInv
  BY DEF PipexInv, AnswerInv, DataInv
<1>2. [Next]_vars
  BY PipelineStep
<1>3. PICK n : n = nb_cmds' - 1
  OBVIOUS
<1>4. Flow(n) /\ Wired(n)
  <2>1. CASE UNCHANGED <<mode, nb_cmds>>
    <3>1. n = nb_cmds - 1 /\ Flow(n)
      BY <1>1, <1>3, <2>1 DEF FlowInv
    <3>2. CASE nb_cmds >= 2
      <4>1. n \in 1 .. nb_cmds - 1
        BY <1>1, <3>1, <3>2, CmdsInBounds
      <4>2. QED
        BY <1>1, <3>1, <4>1, WiredUnlessLost
    <3>3. CASE ~(nb_cmds >= 2)
      BY <1>1, <3>1, <3>3, RunningIsForked DEF Wired
    <3>4. QED
      BY <3>1, <3>2, <3>3
  <2>2. CASE nb_cmds = 0 /\ \A k \in Cmds : cpc[k] = "none"
    <3>1. nb_cmds' \in 0 .. MaxCmds /\ MaxCmds \in Nat
      BY <1>1, <1>2, CoreStep, CmdsInBounds DEF CoreInv, TypeOK
    <3>2. n \in -1 .. MaxCmds - 1 /\ -1 \in -1 .. MaxCmds - 1 /\ nb_cmds - 1 = -1
      <4>1. PICK m \in 0 .. MaxCmds : m = nb_cmds'
        BY <3>1
      <4>2. n = m - 1
        BY <1>3, <4>1
      <4>3. QED
        BY <2>2, <3>1, <4>2
    <3>3. Flow(-1)
      BY <1>1, <3>2 DEF FlowInv
    <3>4. Flow(n)
      BY <2>2, <3>2, <3>3, FlowResized DEF Waiting
    <3>5. QED
      BY <2>2, <3>4 DEF Wired
  <2>3. QED
    BY <1>1, <1>2, <2>1, <2>2, SettledEarly
<1>5. /\ Flow(n)' /\ OutInv' /\ EofInv'
      /\ DrainInv' \/ \E k \in Cmds : EndsAtEof(k)
  BY <1>1, <1>4, FlowStep
<1>6. FlowInv'
  BY <1>3, <1>5 DEF FlowInv
<1>7. DrainInv'
  BY <1>1, <1>5, EofDrains
<1>8. QED
  BY <1>5, <1>6, <1>7 DEF DataInv

(* The step that loses a pipe cuts the flow before anything has got there. *)
LEMMA CutDataStep ==
  ASSUME PipexInv, AnswerInv, DataInv, ~PipeLost, PipeLost', [PNext]_pvars
  PROVE  DataInv'
<1>1. CoreInv /\ EndInv /\ ParentPlumbing /\ ChildPlumbing /\ FlowInv /\ OutInv /\ EofInv
  BY DEF PipexInv, AnswerInv, DataInv
<1>2. [Next]_vars
  BY PipelineStep
<1>3. RenewPipe
  BY <1>1, <1>2, LossStep
<1>4. PICK c \in Cmds : Severed(c)' /\ \A k \in Cmds : k >= c => cpc[k] = "none"
  BY <1>1, <1>2, LossStep
<1>5. PICK n : n = nb_cmds - 1
  OBVIOUS
<1>6. /\ c \in 2 .. nb_cmds - 1 /\ nb_cmds \in Nat /\ nb_cmds <= MaxCmds /\ MaxCmds \in Nat
      /\ c \in -1 .. MaxCmds - 1 /\ n \in -1 .. MaxCmds - 1 /\ c <= n
  <2>1. nb_cmds' = nb_cmds
    BY <1>3 DEF RenewPipe, parse
  <2>2. c \in 2 .. nb_cmds - 1
    BY <1>4, <2>1 DEF Severed
  <2>3. QED
    BY <1>1, <1>5, <2>2, CmdsInBounds
<1>7. Flow(c)
  <2>1. Flow(n)
    BY <1>1, <1>5 DEF FlowInv
  <2>2. \A k \in Cmds : k >= n \/ k >= c => Waiting(k)
    BY <1>4, <1>6, PipexAssumption DEF Waiting, Cmds
  <2>3. QED
    BY <1>6, <2>1, <2>2, FlowResized
<1>8. Wired(c)
  <2>1. \A k \in Cmds : cpc[k] = "run" => k < c
    BY <1>4, <1>6, PipexAssumption DEF Cmds
  <2>2. c \in 1 .. nb_cmds - 1
    BY <1>6
  <2>3. QED
    BY <1>1, <2>1, <2>2, WiredUnlessLost
<1>9. Flow(c)' /\ OutInv' /\ EofInv'
  BY <1>1, <1>7, <1>8, FlowStep
<1>10. QED
  BY <1>4, <1>9 DEF DataInv

(* After that the pipeline ends where it was cut. *)
LEMMA SeveredDataStep ==
  ASSUME PipexInv, AnswerInv, DataInv, PipeLost, [PNext]_pvars
  PROVE  DataInv'
<1>1. CoreInv /\ TempInv /\ EndInv /\ OutInv /\ EofInv
  BY DEF PipexInv, AnswerInv, DataInv
<1>2. PICK c \in Cmds : Severed(c) /\ Flow(c)
  BY DEF DataInv
<1>3. Wired(c)
  BY <1>1, <1>2, WiredWhenSevered
<1>4. Flow(c)' /\ OutInv' /\ EofInv'
  BY <1>1, <1>2, <1>3, FlowStep
<1>5. [Next]_vars
  BY PipelineStep
<1>6. Severed(c)'
  BY <1>1, <1>2, <1>5, SeveredStep
<1>7. PipeLost'
  BY <1>1, <1>5, LostForGood
<1>8. QED
  BY <1>2, <1>4, <1>6, <1>7 DEF DataInv

(* The inductive invariants together, over the specification with the data. *)
LEMMA DataInvariance == PSpec => [](PipexInv /\ AnswerInv /\ DataInv)
<1>1. PInit => DataInv
  BY DataInit
<1>2. PipexInv /\ AnswerInv /\ DataInv /\ [PNext]_pvars => DataInv'
  BY JoinedDataStep, CutDataStep, SeveredDataStep
<1>3. QED
  BY PipelineIsPipex, Invariance, AnswerInvariance, <1>1, <1>2, PTL DEF PSpec

(* Both slots of a layout have their read ends. *)
LEMMA LayoutHasReadEnds ==
  ASSUME NEW t \in Table, NEW p \in PipeArrays, NEW k \in Nat, Layout(t, p, k)
  PROVE  Holds(t, ReadEnd(Link(k))) /\ Holds(t, ReadEnd(Link(k + 1)))
<1>1. k % 2 \in 0 .. 1 /\ (k + 1) % 2 \in 0 .. 1
  BY ParityOfSlots
<1>2. p[k % 2][0] \in Fd /\ p[(k + 1) % 2][0] \in Fd
  BY <1>1 DEF PipeArrays
<1>3. QED
  BY <1>2 DEF Layout, Holds

(* Where the read end is: with pipex until it has forked the reader, and then with the reader. *)
LEMMA ReadEndIsHeld ==
  ASSUME CoreInv, ParentPlumbing, ChildPlumbing, main # "exited",
         NEW k \in Cmds, 0 < k, k < nb_cmds, cpc[k - 1] # "none",
         child_pids[k] # -1, cpc[k] \notin {"zombie", "reaped"}
  PROVE  Held(ReadEnd(Link(k)))
<1>1. k \in Nat /\ k - 1 \in Cmds /\ nb_cmds \in Nat /\ i \in Nat
  BY CmdsInBounds, PipexAssumption DEF Cmds, CoreInv, TypeOK
<1>2. fd \in Table /\ pipe \in PipeArrays /\ cfd[k] \in Table /\ cpipe[k] \in PipeArrays
  BY DEF CoreInv, TypeOK, PipeArrays
<1>3. child_pids[k - 1] = k /\ k - 1 < Forked
  <2>1. child_pids[k - 1] = k - 1 + 1
    BY <1>1 DEF CoreInv, ChildInv
  <2>2. child_pids[k - 1] # 0
    BY <1>1, <2>1
  <2>3. ~(k - 1 >= Forked)
    BY <1>1, <2>2 DEF CoreInv, ChildInv
  <2>4. Forked \in Nat
    BY <1>1 DEF Forked
  <2>5. QED
    BY <1>1, <2>1, <2>3, <2>4
<1>4. CASE k < Forked
  <2>1. child_pids[k] = k + 1
    <3>1. ~(k >= Forked)
      BY <1>1, <1>4 DEF Forked
    <3>2. QED
      BY <3>1 DEF CoreInv, ChildInv
  <2>2. cpc[k] = "forked" \/ Ready(k)
    BY <2>1 DEF CoreInv, TypeOK, ChildInv, ChildStates, Ready
  <2>3. CASE cpc[k] = "forked"
    <3>1. Layout(cfd[k], cpipe[k], k)
      BY <2>3 DEF ChildPlumbing
    <3>2. QED
      BY <1>1, <1>2, <3>1, LayoutHasReadEnds DEF Held
  <2>4. CASE Ready(k)
    <3>1. cfd[k][STDIN] = ReadEnd(Link(k))
      BY <1>1, <2>4 DEF ChildPlumbing, Streams
    <3>2. QED
      BY <3>1, StreamNumbers DEF Held, Holds
  <2>5. QED
    BY <2>2, <2>3, <2>4
<1>5. CASE k = Forked
  <2>1. \/ main = "malcolm" /\ k = i + 1
        \/ main = "renew" /\ k = i + 1
        \/ main = "fork_last" /\ k = i
    BY <1>1, <1>5 DEF Forked
  <2>2. \/ Layout(fd, pipe, k)
        \/ k = i + 1 /\ Layout(fd, pipe, i)
    BY <2>1 DEF ParentPlumbing
  <2>3. QED
    BY <1>1, <1>2, <2>2, LayoutHasReadEnds DEF Held
<1>6. QED
  BY <1>1, <1>3, <1>4, <1>5 DEF Forked

(* What is in a pipe was written by a command that was forked. *)
LEMMA NothingDiscarded ==
  PipexInv /\ DataInv /\ ~PipeLost /\ main # "exited" => KeptForReader
<1> SUFFICES ASSUME PipexInv, DataInv, ~PipeLost, main # "exited",
                    NEW k \in 1 .. nb_cmds - 1, buffer[Link(k)] # <<>>,
                    child_pids[k] # -1, cpc[k] \notin {"zombie", "reaped"}
             PROVE  Held(ReadEnd(Link(k)))
  BY DEF KeptForReader
<1>1. CoreInv /\ ParentPlumbing /\ ChildPlumbing /\ Flow(nb_cmds - 1)
  BY DEF PipexInv, DataInv, FlowInv
<1>2. k \in Cmds /\ k - 1 \in Cmds /\ k \in Nat /\ 0 < k /\ k < nb_cmds
  BY <1>1, CmdsInBounds DEF Cmds
<1>3. buffer[Link(k)] = Stretch(taken[k], Passed(k - 1)) /\ taken[k] <= Passed(k - 1)
  BY <1>1 DEF Flow
<1>4. /\ taken[k] \in Nat /\ taken[k - 1] \in Nat
      /\ Passed(k - 1) \in Nat /\ Passed(k - 1) <= taken[k - 1]
  <2>1. PICK j \in Cmds : j = k - 1
    BY <1>2
  <2>2. /\ Passed(j) \in Nat /\ taken[j] \in Nat
        /\ held[j] = Nothing => Passed(j) = taken[j]
        /\ held[j] # Nothing => Passed(j) + 1 = taken[j]
    BY <1>1, PassedIsNat
  <2>3. Passed(j) <= taken[j]
    BY <2>2
  <2>4. taken[k] \in Nat
    BY <1>1, <1>2 DEF Flow
  <2>5. QED
    BY <2>1, <2>2, <2>3, <2>4
<1>5. taken[k - 1] # 0
  <2>1. taken[k] # Passed(k - 1)
    BY <1>3, <1>4, StretchIsSeq
  <2>2. QED
    BY <1>3, <1>4, <2>1
<1>6. cpc[k - 1] # "none"
  BY <1>1, <1>2, <1>5 DEF Flow, Waiting
<1>7. QED
  BY <1>1, <1>2, <1>6, ReadEndIsHeld

(***************************************************************************)
(* Conserved, for every number of commands, every input and every capacity *)
(* of the pipes, and with any faults.                                      *)
(***************************************************************************)
THEOREM ConservedCorrect == PSpec => []Conserved
<1>1. PipexInv /\ DataInv => Conserved
  <2>1. DataInv /\ ~PipeLost /\ nb_cmds >= 2 => InOnePlace
    BY DEF DataInv, FlowInv, Flow, OutInv, InOnePlace
  <2>2. QED
    BY <2>1, NothingDiscarded DEF Conserved
<1>2. QED
  BY DataInvariance, <1>1, PTL

(***************************************************************************)
(* InOrder: whatever fails, and also when a pipe is lost, the outfile      *)
(* holds what it held before, or an initial part of the input behind what  *)
(* pipex keeps of the outfile.                                             *)
(***************************************************************************)
THEOREM InOrderCorrect == PSpec => []InOrder
<1>1. CoreInv /\ DataInv => InOrder
  <2> SUFFICES ASSUME CoreInv, DataInv PROVE InOrder
    OBVIOUS
  <2>0. OutInv /\ \E n : Flow(n)
    BY DEF DataInv, FlowInv
  <2>1. CASE nb_cmds = 0
    BY <2>0, <2>1 DEF OutInv, InOrder
  <2>2. CASE nb_cmds >= 2
    <3>1. PICK last \in Cmds : last = nb_cmds - 1
      BY <2>2, CmdsInBounds
    <3>2. out = <<Old>> \/ out = Kept \o Stretch(0, Passed(last))
      BY <2>0, <2>2, <3>1 DEF OutInv
    <3>3. Passed(last) \in 0 .. InputLen
      <4>1. Passed(last) \in Nat /\ Passed(last) <= taken[last] /\ taken[last] \in Nat
        BY <2>0, PassedIsNat
      <4>2. taken[last] <= InputLen
        BY <2>0 DEF Flow
      <4>3. QED
        BY <4>1, <4>2, PipelineAssumption
    <3>4. QED
      BY <3>2, <3>3 DEF InOrder
  <2>3. QED
    BY <2>0, <2>1, <2>2, CmdsInBounds DEF OutInv
<1>2. QED
  BY DataInvariance, <1>1, PTL DEF PipexInv

(***************************************************************************)
(* Delivered: a pipeline whose commands have all read to the end has put   *)
(* all of the input into the outfile, and pipex answers 0.                 *)
(***************************************************************************)
THEOREM DeliveredCorrect == PSpec => []Delivered
<1>1. AnswerInv /\ DataInv => Delivered
  <2> SUFFICES ASSUME AnswerInv, FlowInv, OutInv, EofInv, DrainInv, Waited,
                      \A k \in 0 .. nb_cmds - 1 : drained[k]
               PROVE  out = Kept \o Input /\ code = 0
    BY DEF DataInv, Delivered
  <2>1. CoreInv /\ EndInv
    BY DEF AnswerInv
  <2>2. PICK last \in Cmds : last = nb_cmds - 1
    BY <2>1, CmdsInBounds DEF Waited
  <2>3. nb_cmds >= 2 /\ nb_cmds \in Nat
    BY <2>1, <2>2, CmdsInBounds DEF Waited, CoreInv, ChildInv
  <2>4. \A k \in 0 .. last : drained[k]
    BY <2>2
  <2>5. last \in 0 .. last
    BY <2>2, <2>3
  <2>6. taken[last] = InputLen /\ held[last] = Nothing
    BY <2>4, <2>5 DEF DrainInv, EofInv
  <2>7. Passed(last) = InputLen
    BY <2>6 DEF Passed
  <2>8. out = Kept \o Stretch(0, Passed(last))
    BY <2>2, <2>3, <2>4, <2>5 DEF OutInv
  <2>9. out = Kept \o Input
    BY <2>7, <2>8 DEF Input
  <2>10. \A k \in Cmds : k < nb_cmds => k \in 0 .. nb_cmds - 1
    BY <2>3, PipexAssumption DEF Cmds
  <2>11. NoForkFailed
    <3> SUFFICES ASSUME NEW k \in Cmds PROVE child_pids[k] # -1
      BY DEF NoForkFailed
    <3>1. CASE drained[k]
      <4>1. cpc[k] \in {"zombie", "reaped"}
        BY <3>1 DEF EofInv
      <4>2. child_pids[k] = k + 1
        BY <2>1, <4>1 DEF CoreInv, ChildInv
      <4>3. QED
        BY <4>2, PipexAssumption DEF Cmds
    <3>2. CASE ~drained[k]
      <4>1. child_pids[k] = 0
        BY <2>1, <2>10, <3>2 DEF CoreInv, ChildInv
      <4>2. QED
        BY <4>1
    <3>3. QED
      BY <3>1, <3>2
  <2>12. \A k \in 0 .. nb_cmds - 1 : status[k] = 0
    <3>1. \A k \in 0 .. nb_cmds - 1 : k \in Cmds
      BY <2>1, CmdsInBounds DEF Cmds
    <3>2. QED
      BY <3>1 DEF EofInv
  <2>13. code = Verdict(nb_cmds, status)
    BY <2>1, <2>11 DEF EndInv
  <2>14. Verdict(nb_cmds, status) = 0
    <3>1. status[nb_cmds - 1] = 0 /\ \A j \in 1 .. nb_cmds - 1 : status[j] = 0
      BY <2>3, <2>12
    <3>2. QED
      BY <3>1 DEF Verdict, Partial, Failure, NotFound, ENOENT, EACCES
  <2>15. QED
    BY <2>9, <2>13, <2>14
<1>2. QED
  BY DataInvariance, <1>1, PTL

=============================================================================
