---------------------------- MODULE HereDocProofs ----------------------------
(***************************************************************************)
(* Proofs about the runs of pipex here_doc that share TEMP_FILE: for any   *)
(* finite number of runs and texts of any length, whoever is killed and    *)
(* when.                                                                   *)
(***************************************************************************)
EXTENDS HereDoc, SequenceTheorems, TLAPS

(***************************************************************************)
(* The inductive invariant.  The processes of a run come into being one    *)
(* after the other, and a parent that works has opened a file.             *)
(***************************************************************************)
ProcInv ==
  \A r \in Runs :
    /\ pc[r]["parent"] \in {"new", "write", "wait", "gone"}
    /\ pc[r]["parent"] \in {"new", "write"} =>
         pc[r]["first"] = "new" /\ pc[r]["last"] = "new"
    /\ pc[r]["parent"] \in {"write", "wait"} => out[r][1] \in Runs
    /\ pc[r]["first"] \in {"new", "fork"} => got[r] = << >> /\ inp[r] = 0
    /\ pc[r]["first"] \in {"exec", "eof"} => inp[r] \in Runs

(* No line of file f is from a run whose parent was gone when r began. *)
NoneBefore(r, f) == \A i \in DOMAIN file[f] : file[f][i][1] \notin before[r]

(***************************************************************************)
(* Whatever TEMP_FILE names since r began has been created or truncated    *)
(* since then, and so has the file that the first command of r reads.      *)
(***************************************************************************)
StaleInv ==
  \A r \in Runs :
    /\ \A s \in before[r] : pc[s]["parent"] = "gone"
    /\ pc[r]["parent"] # "new" =>
         /\ name # 0 => NoneBefore(r, name)
         /\ inp[r] # 0 => NoneBefore(r, inp[r])
    /\ \A i \in DOMAIN got[r] : got[r][i][1] \notin before[r]

(* The sequence c is the first n lines of the text of r. *)
Holds(c, r, n) == Len(c) = n /\ \A k \in 1 .. n : c[k] = <<r, k>>

(***************************************************************************)
(* As long as a run that is alone lives nobody else does, and the file its *)
(* parent has written holds its text, and is the only one that TEMP_FILE   *)
(* can name and that its first command can have for standard input.        *)
(***************************************************************************)
AloneInv ==
  \A r \in Runs : alone[r] =>
    /\ Alive(r) =>
         /\ \A s \in Runs \ {r} : ~Alive(s)
         /\ Holds(file[out[r][1]], r, out[r][2])
         /\ name \in {0, out[r][1]}
         /\ pc[r]["first"] \in {"exec", "eof"} => inp[r] = out[r][1]
    /\ Len(got[r]) <= out[r][2] /\ Holds(got[r], r, Len(got[r]))
    /\ pc[r]["first"] = "eof" => Len(got[r]) = out[r][2]

HereDocInv == TypeOK /\ LeftByKilled /\ ProcInv /\ StaleInv /\ AloneInv

-----------------------------------------------------------------------------
(***************************************************************************)
(* Data.                                                                   *)
(***************************************************************************)

(* A text is a sequence of as many lines as the parent has written. *)
LEMMA TextIsSeq ==
  ASSUME TypeOK, NEW r \in Runs
  PROVE  /\ out[r] = <<out[r][1], out[r][2]>> /\ out[r][1] \in {0} \cup Runs /\ out[r][2] \in 0 .. Size
         /\ Text(r) \in Seq(Lines) /\ Len(Text(r)) = out[r][2]
         /\ \A k \in 1 .. out[r][2] : Text(r)[k] = <<r, k>>
<1>1. out[r] = <<out[r][1], out[r][2]>> /\ out[r][1] \in {0} \cup Runs /\ out[r][2] \in 0 .. Size
  BY DEF TypeOK
<1>2. out[r][2] \in Nat /\ Size \in Nat
  BY <1>1, RunsAssumption
<1>3. \A k \in 1 .. out[r][2] : <<r, k>> \in Lines
  BY <1>1, <1>2 DEF Lines
<1>4. Text(r) \in [1 .. out[r][2] -> Lines]
  BY <1>3 DEF Text
<1>5. Text(r) \in Seq(Lines)
  BY <1>2, <1>4, SeqDef
<1>6. Len(Text(r)) = out[r][2]
  BY <1>2, <1>4, <1>5, LenProperties
<1>7. QED
  BY <1>1, <1>5, <1>6 DEF Text

(* The file after a line has been written behind what was there. *)
Written(content, r, k) ==
  [i \in 1 .. (IF Len(content) > k THEN Len(content) ELSE k) |->
     IF i = k THEN <<r, k>> ELSE IF i <= Len(content) THEN content[i] ELSE <<0, 0>>]

(* It holds the new line, those that were there before, and holes. *)
LEMMA WrittenLines ==
  ASSUME NEW c \in Seq(Lines), NEW r \in Runs, NEW k \in 1 .. Size
  PROVE  /\ Written(c, r, k) \in Seq(Lines)
         /\ \A i \in DOMAIN Written(c, r, k) :
              \/ Written(c, r, k)[i] \in {<<r, k>>, <<0, 0>>}
              \/ i \in DOMAIN c /\ Written(c, r, k)[i] = c[i]
<1> DEFINE n == IF Len(c) > k THEN Len(c) ELSE k
           w == Written(c, r, k)
<1>1. Len(c) \in Nat /\ n \in Nat /\ k \in Nat /\ k <= n /\ Len(c) <= n /\ DOMAIN c = 1 .. Len(c)
  BY RunsAssumption, LenProperties
<1>2. w = [i \in 1 .. n |-> IF i = k THEN <<r, k>> ELSE IF i <= Len(c) THEN c[i] ELSE <<0, 0>>]
  BY DEF Written
<1> HIDE DEF n, w
<1>3. \A i \in 1 .. n : \/ w[i] \in {<<r, k>>, <<0, 0>>}
                        \/ i \in 1 .. Len(c) /\ w[i] = c[i]
  BY <1>1, <1>2
<1>4. \A i \in 1 .. Len(c) : c[i] \in Lines
  BY <1>1, ElementOfSeq
<1>5. <<r, k>> \in Lines /\ <<0, 0>> \in Lines
  BY DEF Lines
<1>6. w \in [1 .. n -> Lines]
  BY <1>2, <1>3, <1>4, <1>5
<1>7. w \in Seq(Lines)
  BY <1>1, <1>6, SeqDef
<1>8. QED
  BY <1>1, <1>3, <1>6, <1>7 DEF w

(* Written behind the text so far, a line makes it one longer. *)
LEMMA WrittenHolds ==
  ASSUME NEW c \in Seq(Lines), NEW r \in Runs, NEW k \in 1 .. Size, Holds(c, r, k - 1)
  PROVE  Holds(Written(c, r, k), r, k)
<1>1. k \in Nat /\ Len(c) = k - 1 /\ ~(Len(c) > k) /\ Size \in Nat
  BY RunsAssumption DEF Holds
<1>2. Written(c, r, k) = [i \in 1 .. k |-> IF i = k THEN <<r, k>> ELSE IF i <= Len(c) THEN c[i] ELSE <<0, 0>>]
  BY <1>1 DEF Written
<1>3. Written(c, r, k) \in Seq(Lines)
  BY WrittenLines
<1>4. Len(Written(c, r, k)) = k
  BY <1>1, <1>2, <1>3, LenProperties
<1>5. ASSUME NEW i \in 1 .. k PROVE Written(c, r, k)[i] = <<r, i>>
  <2>1. CASE i = k
    BY <1>2, <2>1
  <2>2. CASE i # k
    <3>1. i \in 1 .. k - 1 /\ i <= Len(c)
      BY <1>1, <2>2
    <3>2. Written(c, r, k)[i] = c[i]
      BY <1>2, <2>2, <3>1
    <3>3. QED
      BY <3>1, <3>2 DEF Holds
  <2>3. QED
    BY <2>1, <2>2
<1>6. QED
  BY <1>4, <1>5 DEF Holds

(* A write moves the offset of the parent by one line. *)
LEMMA OffsetMoves ==
  ASSUME TypeOK, ProcInv, NEW r \in Runs, Write(r)
  PROVE  /\ out[r][1] \in Runs /\ out[r][2] + 1 \in 1 .. Size
         /\ out' = [out EXCEPT ![r] = <<out[r][1], out[r][2] + 1>>]
         /\ file' = [file EXCEPT ![out[r][1]] = Written(@, r, out[r][2] + 1)]
         /\ out' \in [Runs -> ({0} \cup Runs) \X (0 .. Size)] /\ file' \in [Runs -> Seq(Lines)]
         /\ \A s \in Runs : out'[s][1] = out[s][1] /\ (s # r => out'[s] = out[s])
<1>1. out[r][1] \in Runs /\ out[r][2] + 1 \in 1 .. Size
  BY RunsAssumption DEF Write, TypeOK, ProcInv
<1>2. out[r] = <<out[r][1], out[r][2]>>
  BY TextIsSeq
<1>3. [out[r] EXCEPT ![2] = out[r][2] + 1] = <<out[r][1], out[r][2] + 1>>
  BY <1>2
<1>4. out' = [out EXCEPT ![r] = <<out[r][1], out[r][2] + 1>>]
  BY <1>3 DEF Write
<1> DEFINE f == out[r][1]
           k == out[r][2] + 1
<1>5. f \in Runs /\ k \in 1 .. Size /\ k \in 0 .. Size
  BY <1>1, RunsAssumption
<1>6. file' = [file EXCEPT ![f] = Written(@, r, k)]
  BY DEF Write, Written
<1>7. out' = [out EXCEPT ![r] = <<f, k>>]
  BY <1>4
<1> HIDE DEF k
<1>8. file \in [Runs -> Seq(Lines)] /\ out \in [Runs -> ({0} \cup Runs) \X (0 .. Size)]
  BY DEF TypeOK
<1>9. file' \in [Runs -> Seq(Lines)]
  <2>1. Written(file[f], r, k) \in Seq(Lines)
    BY <1>5, <1>8, WrittenLines
  <2>2. QED
    BY <1>5, <1>6, <1>8, <2>1
<1>10. out' \in [Runs -> ({0} \cup Runs) \X (0 .. Size)]
  <2>1. <<f, k>> \in ({0} \cup Runs) \X (0 .. Size)
    BY <1>5
  <2>2. QED
    BY <1>7, <1>8, <2>1
<1>11. \A s \in Runs : out'[s][1] = out[s][1] /\ (s # r => out'[s] = out[s])
  BY <1>7, <1>8
<1>12. QED
  BY <1>1, <1>4, <1>6, <1>9, <1>10, <1>11 DEF k

States == {"new", "write", "fork", "exec", "eof", "wait", "gone"}

(* A move changes the state of one process. *)
LEMMA MoveOne ==
  ASSUME TypeOK, NEW r \in Runs, NEW p \in Procs, NEW to \in States, Move(r, p, to)
  PROVE  /\ pc' \in [Runs -> [Procs -> States]] /\ pc'[r][p] = to
         /\ \A q \in Procs : q # p => pc'[r][q] = pc[r][q]
         /\ \A s \in Runs : s # r => pc'[s] = pc[s]
<1>1. pc \in [Runs -> [Procs -> States]]
  BY DEF TypeOK, States
<1>2. [pc[r] EXCEPT ![p] = to] \in [Procs -> States]
  BY <1>1
<1>3. pc' = [pc EXCEPT ![r] = [pc[r] EXCEPT ![p] = to]]
  BY DEF Move
<1>4. QED
  BY <1>1, <1>2, <1>3

(* Which process of a run moves, by the actions that move only one. *)
LEMMA WhoMoves ==
  ASSUME TypeOK, ProcInv, NEW r \in Runs
  PROVE  /\ GiveUp(r) => pc[r]["parent"] = "new" /\ Move(r, "parent", "gone")
         /\ Create(r) => Move(r, "parent", "write")
         /\ ForkFails(r) => pc[r]["parent"] = "write" /\ Move(r, "parent", "gone")
         /\ ReadTemp(r) => pc[r]["first"] = "exec" /\ (pc' = pc \/ Move(r, "first", "eof"))
         /\ OpenTemp(r) => pc[r]["first"] = "fork" /\ \E to \in {"exec", "gone"} : Move(r, "first", to)
         /\ CmdEnds(r) => \E p \in {"first", "last"} : pc[r][p] \in {"eof", "exec"} /\ Move(r, p, "gone")
         /\ LastChild(r) => pc[r]["last"] = "fork" /\ \E to \in {"exec", "gone"} : Move(r, "last", to)
         /\ Finish(r) => /\ pc[r]["parent"] = "wait" /\ pc[r]["first"] = "gone" /\ pc[r]["last"] = "gone"
                         /\ Move(r, "parent", "gone")
         /\ Kill(r) => \E p \in Procs : /\ pc[r][p] \notin {"new", "gone"} /\ Move(r, p, "gone")
                                        /\ p = "parent" => killed' = killed \cup {r}
                                        /\ p # "parent" => killed' = killed
BY DEF GiveUp, Create, ReadTemp, OpenTemp, CmdEnds, LastChild, Finish, ForkFails, Kill

-----------------------------------------------------------------------------
(***************************************************************************)
(* The types.                                                              *)
(***************************************************************************)
LEMMA TypeStep ==
  ASSUME TypeOK, ProcInv, [Next]_vars
  PROVE  TypeOK'
<1> USE DEF Procs, States
<1>1. ASSUME NEW r \in Runs, Create(r) PROVE TypeOK'
  <2>1. << >> \in Seq(Lines)
    BY EmptySeq
  <2>2. (IF name = 0 THEN r ELSE name) \in Runs /\ 0 \in 0 .. Size
    BY RunsAssumption DEF TypeOK
  <2>3. file' \in [Runs -> Seq(Lines)]
    BY <1>1, <2>1, <2>2 DEF Create, Opened, TypeOK
  <2>4. alone' \in [Runs -> BOOLEAN]
    BY <1>1 DEF Create, Alive, TypeOK
  <2>5. out' \in [Runs -> ({0} \cup Runs) \X (0 .. Size)]
    BY <1>1, <2>2 DEF Create, TypeOK
  <2>6. before' \in [Runs -> SUBSET Runs]
    BY <1>1 DEF Create, TypeOK
  <2>7. pc' \in [Runs -> [Procs -> States]]
    BY <1>1, WhoMoves, MoveOne
  <2>8. QED
    BY <1>1, <2>2, <2>3, <2>4, <2>5, <2>6, <2>7 DEF Create, TypeOK
<1>2. ASSUME NEW r \in Runs, Write(r) PROVE TypeOK'
  BY <1>2, OffsetMoves DEF Write, TypeOK
<1>3. ASSUME NEW r \in Runs, ReadTemp(r) PROVE TypeOK'
  <2>1. inp[r] \in Runs /\ got[r] \in Seq(Lines) /\ file[inp[r]] \in Seq(Lines)
    BY <1>3 DEF ReadTemp, ProcInv, TypeOK
  <2>2. CASE Len(got[r]) < Len(file[inp[r]])
    <3>1. Len(got[r]) + 1 \in 1 .. Len(file[inp[r]])
      BY <2>1, <2>2, LenProperties
    <3>2. file[inp[r]][Len(got[r]) + 1] \in Lines
      BY <2>1, <3>1, ElementOfSeq
    <3>3. Append(got[r], file[inp[r]][Len(got[r]) + 1]) \in Seq(Lines)
      BY <2>1, <3>2, AppendProperties
    <3>4. QED
      BY <1>3, <2>2, <3>3 DEF ReadTemp, TypeOK
  <2>3. CASE ~(Len(got[r]) < Len(file[inp[r]]))
    <3>1. pc' \in [Runs -> [Procs -> States]]
      BY <1>3, <2>3, MoveOne DEF ReadTemp
    <3>2. QED
      BY <1>3, <2>3, <3>1 DEF ReadTemp, TypeOK
  <2>4. QED
    BY <2>2, <2>3
<1>4. ASSUME NEW r \in Runs, Fork(r) PROVE TypeOK'
  BY <1>4 DEF Fork, TypeOK
<1>5. ASSUME NEW r \in Runs,
             \/ GiveUp(r) \/ OpenTemp(r) \/ CmdEnds(r) \/ LastChild(r)
             \/ Finish(r) \/ ForkFails(r) \/ Kill(r)
      PROVE  TypeOK'
  <2>1. pc' \in [Runs -> [Procs -> States]]
    BY <1>5, WhoMoves, MoveOne
  <2>2. QED
    BY <1>5, <2>1 DEF GiveUp, OpenTemp, CmdEnds, LastChild, Finish, ForkFails, Kill, Unlinked, TypeOK
<1>6. CASE UNCHANGED vars
  BY <1>6 DEF vars, TypeOK
<1>7. QED
  BY <1>1, <1>2, <1>3, <1>4, <1>5, <1>6 DEF Next

-----------------------------------------------------------------------------
(***************************************************************************)
(* Who takes a step, and how far.                                          *)
(***************************************************************************)
LEMMA ProcStep ==
  ASSUME TypeOK, ProcInv, [Next]_vars
  PROVE  ProcInv'
<1> USE DEF Procs, States
<1>1. ASSUME NEW r \in Runs, Create(r) PROVE ProcInv'
  <2>1. (IF name = 0 THEN r ELSE name) \in Runs
    BY DEF TypeOK
  <2>2. out'[r][1] \in Runs /\ \A s \in Runs : s # r => out'[s] = out[s]
    BY <1>1, <2>1 DEF Create, TypeOK
  <2>3. /\ pc'[r]["parent"] = "write" /\ pc'[r]["first"] = pc[r]["first"]
        /\ pc'[r]["last"] = pc[r]["last"] /\ \A s \in Runs : s # r => pc'[s] = pc[s]
    BY <1>1, WhoMoves, MoveOne
  <2>4. pc[r]["parent"] = "new" /\ UNCHANGED <<got, inp>>
    BY <1>1 DEF Create
  <2>5. QED
    BY <2>2, <2>3, <2>4 DEF ProcInv
<1>9. ASSUME NEW r \in Runs, GiveUp(r) PROVE ProcInv'
  <2>1. /\ pc[r]["parent"] = "new" /\ pc'[r]["parent"] = "gone" /\ pc'[r]["first"] = pc[r]["first"]
        /\ \A s \in Runs : s # r => pc'[s] = pc[s]
    BY <1>9, WhoMoves, MoveOne
  <2>2. UNCHANGED <<out, got, inp>>
    BY <1>9 DEF GiveUp
  <2>3. QED
    BY <2>1, <2>2 DEF ProcInv
<1>2. ASSUME NEW r \in Runs, Write(r) PROVE ProcInv'
  <2>1. \A s \in Runs : out'[s][1] = out[s][1]
    BY <1>2, OffsetMoves
  <2>2. QED
    BY <1>2, <2>1 DEF Write, ProcInv
<1>3. ASSUME NEW r \in Runs, ReadTemp(r) PROVE ProcInv'
  <2>1. \A s \in Runs : s # r => got'[s] = got[s]
    BY <1>3 DEF ReadTemp, TypeOK
  <2>2. /\ pc[r]["first"] = "exec" /\ pc'[r]["first"] \in {"exec", "eof"}
        /\ pc'[r]["parent"] = pc[r]["parent"] /\ pc'[r]["last"] = pc[r]["last"]
        /\ \A s \in Runs : s # r => pc'[s] = pc[s]
    BY <1>3, WhoMoves, MoveOne
  <2>3. UNCHANGED <<out, inp>>
    BY <1>3 DEF ReadTemp
  <2>4. QED
    BY <2>1, <2>2, <2>3 DEF ProcInv
<1>4. ASSUME NEW r \in Runs, Fork(r) PROVE ProcInv'
  BY <1>4 DEF Fork, ProcInv, TypeOK
<1>5. ASSUME NEW r \in Runs, OpenTemp(r) PROVE ProcInv'
  <2>1. /\ pc[r]["first"] = "fork" /\ pc'[r]["first"] \in {"exec", "gone"}
        /\ pc'[r]["parent"] = pc[r]["parent"] /\ pc'[r]["last"] = pc[r]["last"]
        /\ \A s \in Runs : s # r => pc'[s] = pc[s]
    BY <1>5, WhoMoves, MoveOne
  <2>2. pc'[r]["first"] = "exec" => name # 0
    BY <1>5, MoveOne DEF OpenTemp
  <2>3. inp'[r] = name /\ \A s \in Runs : s # r => inp'[s] = inp[s]
    BY <1>5 DEF OpenTemp, TypeOK
  <2>4. UNCHANGED <<out, got>>
    BY <1>5 DEF OpenTemp
  <2>5. QED
    BY <2>1, <2>2, <2>3, <2>4 DEF ProcInv, TypeOK
<1>6. ASSUME NEW r \in Runs, CmdEnds(r) \/ LastChild(r) \/ Finish(r) \/ ForkFails(r) \/ Kill(r) PROVE ProcInv'
  <2>1. PICK p \in Procs : \E to \in {"exec", "gone"} :
          /\ Move(r, p, to) /\ pc[r][p] \notin {"new", "gone"} /\ (to = "exec" => p = "last")
    BY <1>6, WhoMoves
  <2>2. /\ pc'[r][p] \in {"exec", "gone"} /\ (pc'[r][p] = "exec" => p = "last")
        /\ \A q \in Procs : q # p => pc'[r][q] = pc[r][q]
        /\ \A s \in Runs : s # r => pc'[s] = pc[s]
    BY <2>1, MoveOne
  <2>3. UNCHANGED <<out, got, inp>>
    BY <1>6 DEF CmdEnds, LastChild, Finish, ForkFails, Kill
  <2>4. QED
    BY <2>1, <2>2, <2>3 DEF ProcInv
<1>7. CASE UNCHANGED vars
  BY <1>7 DEF vars, ProcInv
<1>8. QED
  BY <1>1, <1>2, <1>3, <1>4, <1>5, <1>6, <1>7, <1>9 DEF Next

(***************************************************************************)
(* The parent of a run that has left does not come back, and leaves only   *)
(* with an unlink or because it was killed.                                *)
(***************************************************************************)
LEMMA ParentMoves ==
  ASSUME TypeOK, ProcInv, [Next]_vars, NEW s \in Runs
  PROVE  /\ pc[s]["parent"] = "gone" => pc'[s]["parent"] = "gone"
         /\ pc[s]["parent"] # "new" => pc'[s]["parent"] # "new"
         /\ pc[s]["parent"] \in {"write", "wait"} =>
              \/ pc'[s]["parent"] \in {"write", "wait"}
              \/ s \in killed' \/ name' = 0
<1> USE DEF Procs, States
<1> DEFINE Fine == /\ pc[s]["parent"] = "gone" => pc'[s]["parent"] = "gone"
                   /\ pc[s]["parent"] # "new" => pc'[s]["parent"] # "new"
                   /\ pc[s]["parent"] \in {"write", "wait"} =>
                        \/ pc'[s]["parent"] \in {"write", "wait"}
                        \/ s \in killed' \/ name' = 0
<1>1. ASSUME pc'[s]["parent"] = pc[s]["parent"] PROVE Fine
  BY <1>1
<1>2. ASSUME NEW r \in Runs, r # s, NEW p \in Procs, NEW to \in States, Move(r, p, to) PROVE Fine
  BY <1>1, <1>2, MoveOne
<1>3. ASSUME NEW p \in Procs, p # "parent", NEW to \in States, Move(s, p, to) PROVE Fine
  BY <1>1, <1>3, MoveOne
<1>4. ASSUME NEW r \in Runs, Create(r) PROVE Fine
  <2>1. pc[r]["parent"] = "new" /\ (r = s => pc'[s]["parent"] = "write")
    BY <1>4, WhoMoves, MoveOne DEF Create
  <2>2. QED
    BY <1>2, <1>4, <2>1, WhoMoves
<1>5. ASSUME NEW r \in Runs, Write(r) PROVE Fine
  BY <1>1, <1>5 DEF Write
<1>6. ASSUME NEW r \in Runs, ReadTemp(r) \/ OpenTemp(r) \/ CmdEnds(r) \/ LastChild(r) PROVE Fine
  <2>1. pc' = pc \/ \E p \in {"first", "last"}, to \in States : Move(r, p, to)
    BY <1>6, WhoMoves
  <2>2. QED
    BY <1>1, <1>2, <1>3, <2>1
<1>7. ASSUME NEW r \in Runs, Fork(r) PROVE Fine
  BY <1>7 DEF Fork, TypeOK
<1>8. ASSUME NEW r \in Runs, GiveUp(r) \/ Finish(r) \/ ForkFails(r) PROVE Fine
  <2>1. name' = 0 /\ (r = s => pc'[s]["parent"] = "gone")
    BY <1>8, WhoMoves, MoveOne DEF GiveUp, Finish, ForkFails, Unlinked
  <2>2. QED
    BY <1>2, <1>8, <2>1, WhoMoves
<1>9. ASSUME NEW r \in Runs, Kill(r) PROVE Fine
  <2>1. PICK p \in Procs : /\ pc[r][p] \notin {"new", "gone"} /\ Move(r, p, "gone")
                           /\ p = "parent" => killed' = killed \cup {r}
    BY <1>9, WhoMoves
  <2>2. CASE r = s /\ p = "parent"
    <3>1. s \in killed' /\ pc'[s]["parent"] = "gone"
      BY <2>1, <2>2, MoveOne
    <3>2. QED
      BY <2>1, <2>2, <3>1
  <2>3. QED
    BY <1>2, <1>3, <2>1, <2>2
<1>10. CASE UNCHANGED vars
  BY <1>1, <1>10 DEF vars
<1>11. QED
  BY <1>4, <1>5, <1>6, <1>7, <1>8, <1>9, <1>10 DEF Next

-----------------------------------------------------------------------------
(***************************************************************************)
(* TEMP_FILE and its owner.                                                *)
(***************************************************************************)
LEMMA OwnerStep ==
  ASSUME TypeOK, ProcInv, LeftByKilled, [Next]_vars
  PROVE  LeftByKilled'
<1>1. ASSUME NEW r \in Runs, Create(r) PROVE LeftByKilled'
  <2>1. name' = out'[r][1]
    BY <1>1 DEF Create, TypeOK
  <2>2. pc'[r]["parent"] = "write"
    BY <1>1, WhoMoves, MoveOne DEF Procs, States
  <2>3. QED
    BY <2>1, <2>2 DEF LeftByKilled
<1>2. CASE name' = 0
  BY <1>2 DEF LeftByKilled
<1>3. ASSUME name' = name, killed \subseteq killed', \A s \in Runs : out'[s][1] = out[s][1]
      PROVE  LeftByKilled'
  BY <1>2, <1>3, ParentMoves DEF LeftByKilled
<1>4. ASSUME NEW r \in Runs, Write(r) PROVE LeftByKilled'
  <2>1. \A s \in Runs : out'[s][1] = out[s][1]
    BY <1>4, OffsetMoves
  <2>2. QED
    BY <1>3, <1>4, <2>1 DEF Write
<1>5. ASSUME NEW r \in Runs, Fork(r) \/ ReadTemp(r) \/ CmdEnds(r) \/ Kill(r) PROVE LeftByKilled'
  BY <1>3, <1>5 DEF Fork, ReadTemp, CmdEnds, Kill
<1>6. ASSUME NEW r \in Runs,
             GiveUp(r) \/ OpenTemp(r) \/ LastChild(r) \/ Finish(r) \/ ForkFails(r)
      PROVE  LeftByKilled'
  BY <1>2, <1>3, <1>6 DEF GiveUp, OpenTemp, LastChild, Finish, ForkFails, Unlinked
<1>7. CASE UNCHANGED vars
  BY <1>7 DEF vars, LeftByKilled
<1>8. QED
  BY <1>1, <1>4, <1>5, <1>6, <1>7 DEF Next

-----------------------------------------------------------------------------
(***************************************************************************)
(* No stale line.                                                          *)
(***************************************************************************)
LEMMA StaleStep ==
  ASSUME TypeOK, ProcInv, StaleInv, [Next]_vars
  PROVE  StaleInv'
<1> DEFINE Good(t) ==
      /\ \A s \in before[t] : pc[s]["parent"] = "gone"
      /\ pc[t]["parent"] # "new" =>
           /\ name # 0 => NoneBefore(t, name)
           /\ inp[t] # 0 => NoneBefore(t, inp[t])
      /\ \A i \in DOMAIN got[t] : got[t][i][1] \notin before[t]
<1> USE DEF Procs, States
<1>1. ASSUME NEW r \in Runs, Create(r), NEW t \in Runs PROVE Good(t)'
  <2>1. PICK f \in Runs : /\ name' = f /\ f # 0 /\ UNCHANGED <<got, inp>>
                          /\ file'[f] = << >> /\ \A g \in Runs : g # f => file'[g] = file[g]
    <3>1. (IF name = 0 THEN r ELSE name) \in Runs
      BY DEF TypeOK
    <3>2. QED
      BY <1>1, <3>1, RunsAssumption DEF Create, Opened, TypeOK
  <2>3. NoneBefore(t, f)'
    BY <2>1, EmptySeq DEF NoneBefore
  <2>4. CASE t = r
    <3>1. before'[t] = {s \in Runs : pc[s]["parent"] = "gone"}
      BY <1>1, <2>4 DEF Create, TypeOK
    <3>2. got[t] = << >> /\ inp[t] = 0
      BY <1>1, <2>4 DEF Create, ProcInv
    <3>3. \A s \in before'[t] : pc'[s]["parent"] = "gone"
      BY <3>1, ParentMoves
    <3>4. \A i \in DOMAIN got'[t] : got'[t][i][1] \notin before'[t]
      BY <2>1, <3>2, EmptySeq
    <3>5. inp'[t] = 0 /\ (name' # 0 => NoneBefore(t, name)')
      BY <2>1, <2>3, <3>2 DEF NoneBefore
    <3>6. QED
      BY <3>3, <3>4, <3>5
  <2>5. CASE t # r
    <3>1. before'[t] = before[t] /\ pc'[t] = pc[t]
      <4>1. before'[t] = before[t]
        BY <1>1, <2>5 DEF Create, TypeOK
      <4>2. pc'[t] = pc[t]
        BY <1>1, <2>5, WhoMoves, MoveOne
      <4>3. QED
        BY <4>1, <4>2
    <3>2. \A s \in before'[t] : pc'[s]["parent"] = "gone"
      BY <3>1, ParentMoves DEF StaleInv, TypeOK
    <3>3. ASSUME inp[t] # 0, pc[t]["parent"] # "new" PROVE NoneBefore(t, inp[t])'
      <4>1. CASE inp[t] = f
        BY <2>1, <2>3, <4>1 DEF NoneBefore
      <4>2. CASE inp[t] # f
        <5>1. file'[inp[t]] = file[inp[t]] /\ inp'[t] = inp[t]
          BY <2>1, <3>3, <4>2 DEF TypeOK
        <5>2. NoneBefore(t, inp[t])
          BY <3>3 DEF StaleInv
        <5>3. QED
          BY <3>1, <5>1, <5>2 DEF NoneBefore
      <4>3. QED
        BY <4>1, <4>2
    <3>4. NoneBefore(t, name)'
      BY <2>1, <2>3 DEF NoneBefore
    <3>5. QED
      BY <2>1, <3>1, <3>2, <3>3, <3>4 DEF StaleInv
  <2>6. QED
    BY <2>4, <2>5
<1>2. ASSUME NEW r \in Runs, Write(r), NEW t \in Runs PROVE Good(t)'
  <2> DEFINE f == out[r][1]
             k == out[r][2] + 1
  <2>1. /\ f \in Runs /\ k \in 1 .. Size /\ file' = [file EXCEPT ![f] = Written(@, r, k)]
        /\ pc[r]["parent"] = "write" /\ UNCHANGED <<name, pc, inp, got, before>>
    BY <1>2, OffsetMoves DEF Write
  <2>2. r \notin before[t] /\ 0 \notin before[t]
    BY <2>1, RunsAssumption DEF StaleInv, TypeOK
  <2> HIDE DEF f, k
  <2>3. ASSUME NEW g \in Runs, NoneBefore(t, g) PROVE NoneBefore(t, g)'
    <3>1. CASE g # f
      BY <2>1, <2>3, <3>1 DEF NoneBefore, TypeOK
    <3>2. CASE g = f
      <4>1. file'[f] = Written(file[f], r, k) /\ file[f] \in Seq(Lines)
        BY <2>1 DEF TypeOK
      <4>2. ASSUME NEW n \in DOMAIN Written(file[f], r, k)
            PROVE  Written(file[f], r, k)[n][1] \notin before[t]
        <5>0. \A c \in Seq(Lines) : \A m \in DOMAIN Written(c, r, k) :
                \/ Written(c, r, k)[m] \in {<<r, k>>, <<0, 0>>}
                \/ m \in DOMAIN c /\ Written(c, r, k)[m] = c[m]
          BY <2>1, WrittenLines
        <5>1. \/ Written(file[f], r, k)[n] \in {<<r, k>>, <<0, 0>>}
              \/ n \in DOMAIN file[f] /\ Written(file[f], r, k)[n] = file[f][n]
          BY <4>1, <4>2, <5>0
        <5>2. QED
          BY <2>2, <2>3, <3>2, <5>1 DEF NoneBefore
      <4>3. QED
        BY <2>1, <3>2, <4>1, <4>2 DEF NoneBefore
    <3>3. QED
      BY <3>1, <3>2
  <2>4. name # 0 /\ NoneBefore(t, name) => NoneBefore(t, name)'
    <3>1. name # 0 => name \in Runs
      BY DEF TypeOK
    <3>2. QED
      BY <2>1, <2>3, <3>1 DEF NoneBefore
  <2>5. inp[t] # 0 /\ NoneBefore(t, inp[t]) => NoneBefore(t, inp[t])'
    <3>1. inp[t] # 0 => inp[t] \in Runs
      BY DEF TypeOK
    <3>2. QED
      BY <2>1, <2>3, <3>1 DEF NoneBefore
  <2>6. QED
    BY <2>1, <2>4, <2>5 DEF StaleInv
<1>3. ASSUME NEW r \in Runs, ReadTemp(r), NEW t \in Runs PROVE Good(t)'
  <2>1. UNCHANGED <<name, file, inp, before>>
    BY <1>3 DEF ReadTemp
  <2>2. pc'[t]["parent"] = pc[t]["parent"] /\ \A s \in Runs : pc'[s]["parent"] = pc[s]["parent"]
    BY <1>3, WhoMoves, MoveOne
  <2>3. \A i \in DOMAIN got'[t] : got'[t][i][1] \notin before[t]
    <3>1. CASE got'[t] = got[t]
      BY <3>1 DEF StaleInv
    <3>2. CASE got'[t] # got[t]
      <4> DEFINE x == file[inp[r]][Len(got[r]) + 1]
      <4>1. t = r /\ Len(got[r]) < Len(file[inp[r]]) /\ got' = [got EXCEPT ![r] = Append(@, x)]
        BY <1>3, <3>2 DEF ReadTemp, TypeOK
      <4>2. inp[r] \in Runs /\ got[r] \in Seq(Lines) /\ file[inp[r]] \in Seq(Lines)
            /\ pc[r]["parent"] # "new" /\ inp[r] # 0
        BY <1>3, RunsAssumption DEF ReadTemp, ProcInv, TypeOK
      <4>3. Len(got[r]) + 1 \in DOMAIN file[inp[r]]
        BY <4>1, <4>2, LenProperties
      <4>4. x[1] \notin before[r] /\ x \in Lines
        <5>1. NoneBefore(r, inp[r])
          BY <4>2 DEF StaleInv
        <5>2. DOMAIN file[inp[r]] = 1 .. Len(file[inp[r]])
          BY <4>2, LenProperties
        <5>3. x \in Lines
          BY <4>2, <4>3, <5>2, ElementOfSeq
        <5>4. QED
          BY <4>3, <5>1, <5>3 DEF NoneBefore
      <4> HIDE DEF x
      <4>5. /\ got'[r] \in Seq(Lines) /\ Len(got'[r]) = Len(got[r]) + 1
            /\ \A i \in 1 .. Len(got[r]) : got'[r][i] = got[r][i]
            /\ got'[r][Len(got[r]) + 1] = x
        <5>1. got'[r] = Append(got[r], x)
          BY <4>1 DEF TypeOK
        <5>2. QED
          BY <4>2, <4>4, <5>1, AppendProperties
      <4>6. DOMAIN got'[r] = 1 .. Len(got[r]) + 1 /\ DOMAIN got[r] = 1 .. Len(got[r])
            /\ Len(got[r]) \in Nat
        BY <4>2, <4>5, LenProperties
      <4>7. \A i \in 1 .. Len(got[r]) : got[r][i][1] \notin before[r]
        BY <4>6 DEF StaleInv
      <4>8. QED
        BY <4>1, <4>4, <4>5, <4>6, <4>7
    <3>3. QED
      BY <3>1, <3>2
  <2>4. QED
    BY <2>1, <2>2, <2>3 DEF StaleInv, NoneBefore, TypeOK
<1>4. ASSUME NEW r \in Runs, OpenTemp(r), NEW t \in Runs PROVE Good(t)'
  <2>1. /\ name' \in {0, name} /\ UNCHANGED <<file, got, before>>
        /\ inp' = [inp EXCEPT ![r] = name] /\ pc[r]["first"] = "fork"
    BY <1>4 DEF OpenTemp, Unlinked
  <2>2. \A s \in Runs : pc'[s]["parent"] = pc[s]["parent"]
    BY <1>4, WhoMoves, MoveOne
  <2>3. inp'[t] = IF t = r THEN name ELSE inp[t]
    BY <2>1 DEF TypeOK
  <2>4. \A s \in before[t] : s \in Runs
    BY DEF TypeOK
  <2>5. QED
    BY <2>1, <2>2, <2>3, <2>4 DEF StaleInv, NoneBefore
<1>5. ASSUME name' \in {0, name}, UNCHANGED <<file, got, inp, before>>, NEW t \in Runs,
             pc'[t]["parent"] = "new" <=> pc[t]["parent"] = "new"
      PROVE  Good(t)'
  <2>1. \A s \in before[t] : pc'[s]["parent"] = "gone"
    BY ParentMoves DEF StaleInv, TypeOK
  <2>2. QED
    BY <1>5, <2>1 DEF StaleInv, NoneBefore
<1>6. ASSUME NEW r \in Runs, Fork(r) \/ CmdEnds(r) \/ LastChild(r) \/ Finish(r) \/ ForkFails(r) \/ Kill(r),
             NEW t \in Runs
      PROVE  Good(t)'
  <2>1. name' \in {0, name} /\ UNCHANGED <<file, got, inp, before>>
    BY <1>6 DEF Fork, CmdEnds, LastChild, Finish, ForkFails, Kill, Unlinked
  <2>2. pc'[t]["parent"] = "new" <=> pc[t]["parent"] = "new"
    <3>1. CASE Fork(r)
      BY <3>1 DEF Fork, TypeOK
    <3>2. CASE ~Fork(r)
      <4>1. PICK p \in Procs, to \in States \ {"new"} : pc[r][p] # "new" /\ Move(r, p, to)
        BY <1>6, <3>2, WhoMoves
      <4>2. QED
        BY <4>1, MoveOne
    <3>3. QED
      BY <3>1, <3>2
  <2>3. QED
    BY <1>5, <2>1, <2>2
<1>10. ASSUME NEW r \in Runs, GiveUp(r), NEW t \in Runs PROVE Good(t)'
  <2>1. name' = 0 /\ UNCHANGED <<file, got, inp, before>>
    BY <1>10 DEF GiveUp, Unlinked
  <2>2. \A s \in before[t] : pc'[s]["parent"] = "gone"
    BY ParentMoves DEF StaleInv, TypeOK
  <2>3. inp[t] # 0 => pc[t]["parent"] # "new"
    BY DEF ProcInv
  <2>4. QED
    BY <2>1, <2>2, <2>3 DEF StaleInv, NoneBefore
<1>7. CASE UNCHANGED vars
  BY <1>7 DEF vars, StaleInv, NoneBefore
<1>8. CASE Next
  <2>1. \A t \in Runs : Good(t)'
    BY <1>1, <1>2, <1>3, <1>4, <1>6, <1>8, <1>7, <1>10 DEF Next, vars, StaleInv, NoneBefore
  <2>2. QED
    BY <2>1 DEF StaleInv
<1>9. QED
  BY <1>7, <1>8

-----------------------------------------------------------------------------
(***************************************************************************)
(* The text of a run that is alone.                                        *)
(***************************************************************************)

(* Whoever takes a step is alive, and leaves the other runs what they are. *)
LEMMA Bystanders ==
  ASSUME TypeOK, ProcInv, NEW r \in Runs,
         \/ Write(r) \/ Fork(r) \/ OpenTemp(r) \/ ReadTemp(r)
         \/ CmdEnds(r) \/ LastChild(r) \/ Finish(r) \/ ForkFails(r) \/ Kill(r)
  PROVE  /\ Alive(r) /\ alone' = alone
         /\ \A s \in Runs \ {r} : pc'[s] = pc[s] /\ got'[s] = got[s] /\ out'[s] = out[s]
<1> USE DEF Procs, States
<1>1. Alive(r)
  BY DEF Write, Fork, OpenTemp, ReadTemp, CmdEnds, LastChild, Finish, ForkFails, Kill, Alive
<1>2. alone' = alone
  BY DEF Write, Fork, OpenTemp, ReadTemp, CmdEnds, LastChild, Finish, ForkFails, Kill
<1>3. \A s \in Runs \ {r} : out'[s] = out[s]
  BY OffsetMoves DEF Fork, OpenTemp, ReadTemp, CmdEnds, LastChild, Finish, ForkFails, Kill
<1>4. \A s \in Runs \ {r} : got'[s] = got[s]
  BY DEF Write, Fork, OpenTemp, ReadTemp, CmdEnds, LastChild, Finish, ForkFails, Kill, TypeOK
<1>5. \A s \in Runs \ {r} : pc'[s] = pc[s]
  <2>1. CASE Write(r) \/ Fork(r)
    BY <2>1 DEF Write, Fork, TypeOK
  <2>2. CASE ~(Write(r) \/ Fork(r))
    <3>1. pc' = pc \/ \E p \in Procs, to \in States : Move(r, p, to)
      BY <2>2, WhoMoves
    <3>2. QED
      BY <3>1, MoveOne
  <2>3. QED
    BY <2>1, <2>2
<1>6. QED
  BY <1>1, <1>2, <1>3, <1>4, <1>5

LEMMA AloneStep ==
  ASSUME TypeOK, ProcInv, AloneInv, [Next]_vars
  PROVE  AloneInv'
<1> DEFINE Own(t) ==
      /\ Alive(t) =>
           /\ \A s \in Runs \ {t} : ~Alive(s)
           /\ Holds(file[out[t][1]], t, out[t][2])
           /\ name \in {0, out[t][1]}
           /\ pc[t]["first"] \in {"exec", "eof"} => inp[t] = out[t][1]
      /\ Len(got[t]) <= out[t][2] /\ Holds(got[t], t, Len(got[t]))
      /\ pc[t]["first"] = "eof" => Len(got[t]) = out[t][2]
<1> USE DEF Procs, States
\* a run that is not alive stays as it is when another one takes a step
<1>1. ASSUME NEW t \in Runs, alone[t], ~Alive(t), pc'[t] = pc[t], got'[t] = got[t], out'[t] = out[t]
      PROVE  Own(t)'
  BY <1>1 DEF AloneInv, Alive, Holds
\* what a step of r itself has to keep
<1>2. ASSUME NEW r \in Runs, alone[r], Alive(r), \A s \in Runs \ {r} : pc'[s] = pc[s],
             Holds(file'[out'[r][1]], r, out'[r][2]), name' \in {0, out'[r][1]},
             pc'[r]["first"] \in {"exec", "eof"} => inp'[r] = out'[r][1],
             Len(got'[r]) <= out'[r][2], Holds(got'[r], r, Len(got'[r])),
             pc'[r]["first"] = "eof" => Len(got'[r]) = out'[r][2]
      PROVE  Own(r)'
  <2>1. \A s \in Runs \ {r} : ~Alive(s)
    BY <1>2 DEF AloneInv
  <2>2. \A s \in Runs \ {r} : ~Alive(s)'
    BY <1>2, <2>1 DEF Alive
  <2>3. QED
    BY <1>2, <2>2 DEF Holds
<1>3. ASSUME NEW r \in Runs, Create(r), NEW t \in Runs, alone'[t] PROVE Own(t)'
  <2>1. \A s \in Runs \ {r} : pc'[s] = pc[s]
    BY <1>3, WhoMoves, MoveOne
  <2>2. \A s \in Runs \ {r} : out'[s] = out[s] /\ got' = got
    BY <1>3 DEF Create, TypeOK
  <2>3. CASE t # r
    <3>1. alone[t] /\ ~Alive(t)
      BY <1>3, <2>3 DEF Create, TypeOK
    <3>2. QED
      BY <1>1, <2>1, <2>2, <2>3, <3>1
  <2>4. CASE t = r
    <3>1. PICK f \in Runs : name' = f /\ out'[r] = <<f, 0>> /\ file'[f] = << >>
      <4>1. (IF name = 0 THEN r ELSE name) \in Runs
        BY DEF TypeOK
      <4>2. QED
        BY <1>3, <4>1 DEF Create, Opened, TypeOK
    <3>2. \A s \in Runs \ {r} : ~Alive(s)
      BY <1>3, <2>4 DEF Create
    <3>3. \A s \in Runs \ {r} : ~Alive(s)'
      BY <2>1, <3>2 DEF Alive
    <3>4. got'[r] = << >> /\ pc'[r]["first"] = "new"
      BY <1>3, <2>2, WhoMoves, MoveOne DEF Create, ProcInv
    <3>5. out'[r][1] = f /\ out'[r][2] = 0
      BY <3>1
    <3>6. Holds(<< >>, r, 0) /\ Len(<< >>) = 0
      BY EmptySeq DEF Holds
    <3>7. QED
      BY <2>4, <3>1, <3>3, <3>4, <3>5, <3>6 DEF Holds
  <2>5. QED
    BY <2>3, <2>4
<1>4. ASSUME NEW r \in Runs, Write(r), alone[r] PROVE Own(r)'
  <2> DEFINE f == out[r][1]
             k == out[r][2] + 1
  <2>1. /\ f \in Runs /\ k \in 1 .. Size /\ out[r][2] = k - 1 /\ out'[r] = <<f, k>>
        /\ file'[f] = Written(file[f], r, k) /\ file[f] \in Seq(Lines)
    <3>1. /\ f \in Runs /\ k \in 1 .. Size /\ out' = [out EXCEPT ![r] = <<f, k>>]
          /\ file' = [file EXCEPT ![f] = Written(@, r, k)]
      BY <1>4, OffsetMoves
    <3>2. out[r][2] = k - 1
      BY TextIsSeq, RunsAssumption
    <3> HIDE DEF f, k
    <3>3. out'[r] = <<f, k>> /\ file'[f] = Written(file[f], r, k) /\ file[f] \in Seq(Lines)
      BY <3>1 DEF TypeOK
    <3>4. QED
      BY <3>1, <3>2, <3>3
  <2>2. Alive(r) /\ \A s \in Runs \ {r} : pc'[s] = pc[s]
    BY <1>4, Bystanders
  <2>3. Holds(file[f], r, out[r][2]) /\ name \in {0, f}
    BY <1>4, <2>2 DEF AloneInv
  <2> HIDE DEF f, k
  <2>4. Holds(file'[f], r, k)
    BY <2>1, <2>3, WrittenHolds
  <2>5. pc[r]["first"] = "new" /\ got[r] = << >> /\ UNCHANGED <<name, pc, got>>
    BY <1>4 DEF Write, ProcInv
  <2>6. Holds(<< >>, r, 0) /\ Len(<< >>) = 0 /\ 0 <= k
    BY <2>1, EmptySeq, RunsAssumption DEF Holds
  <2>7. out'[r][1] = f /\ out'[r][2] = k
    BY <2>1
  <2>8. QED
    BY <1>2, <1>4, <2>2, <2>3, <2>4, <2>5, <2>6, <2>7
<1>5. ASSUME NEW r \in Runs, ReadTemp(r), alone[r] PROVE Own(r)'
  <2>1. /\ pc[r]["first"] = "exec" /\ UNCHANGED <<name, file, out, inp>>
        /\ pc'[r]["first"] \in {"exec", "eof"} /\ \A s \in Runs \ {r} : pc'[s] = pc[s]
    BY <1>5, WhoMoves, MoveOne DEF ReadTemp
  <2>2. Alive(r)
    BY <1>5, Bystanders
  <2>3. /\ inp[r] = out[r][1] /\ name \in {0, out[r][1]} /\ inp[r] \in Runs
        /\ Holds(file[inp[r]], r, out[r][2])
        /\ Holds(got[r], r, Len(got[r])) /\ Len(got[r]) <= out[r][2]
    BY <1>5, <2>1, <2>2 DEF AloneInv, ProcInv
  <2>4. out[r][2] \in Nat /\ Len(file[inp[r]]) = out[r][2] /\ Len(got[r]) \in Nat /\ got[r] \in Seq(Lines)
    BY <2>3, TextIsSeq, RunsAssumption, LenProperties DEF Holds, TypeOK
  <2>5. CASE Len(got[r]) < Len(file[inp[r]])
    <3> DEFINE x == file[inp[r]][Len(got[r]) + 1]
               n == Len(got[r]) + 1
    <3>1. got' = [got EXCEPT ![r] = Append(@, x)] /\ pc' = pc
      BY <1>5, <2>5 DEF ReadTemp
    <3>2. n \in 1 .. out[r][2] /\ Len(got[r]) = n - 1 /\ n \in Nat
      BY <2>4, <2>5
    <3>3. x = <<r, n>>
      BY <2>3, <3>2 DEF Holds
    <3>4. x \in Lines
      <4>1. file[inp[r]] \in Seq(Lines)
        BY <2>3 DEF TypeOK
      <4>2. QED
        BY <2>4, <3>2, <4>1, ElementOfSeq
    <3>5. got'[r] = Append(got[r], x)
      BY <3>1 DEF TypeOK
    <3> HIDE DEF x, n
    <3>6. Len(got'[r]) = n /\ got'[r][n] = x /\ \A k \in 1 .. n - 1 : got'[r][k] = got[r][k]
      BY <2>4, <3>2, <3>4, <3>5, AppendProperties
    <3>7. \A k \in 1 .. n : got'[r][k] = <<r, k>>
      <4>1. \A k \in 1 .. n - 1 : got[r][k] = <<r, k>>
        BY <2>3, <3>2 DEF Holds
      <4>2. QED
        BY <3>2, <3>3, <3>6, <4>1
    <3>8. Holds(got'[r], r, Len(got'[r])) /\ Len(got'[r]) <= out[r][2]
      BY <3>2, <3>6, <3>7 DEF Holds
    <3>9. pc'[r]["first"] = "exec"
      BY <2>1, <3>1
    <3>10. QED
      BY <1>2, <1>5, <2>1, <2>2, <2>3, <3>8, <3>9
  <2>6. CASE ~(Len(got[r]) < Len(file[inp[r]]))
    <3>1. got' = got
      BY <1>5, <2>6 DEF ReadTemp
    <3>2. Len(got[r]) = out[r][2]
      BY <2>3, <2>4, <2>6
    <3>3. QED
      BY <1>2, <1>5, <2>1, <2>2, <2>3, <3>1, <3>2
  <2>7. QED
    BY <2>5, <2>6
<1>6. ASSUME NEW r \in Runs, OpenTemp(r), alone[r] PROVE Own(r)'
  <2>1. /\ pc[r]["first"] = "fork" /\ UNCHANGED <<file, out, got>> /\ name' \in {0, name}
        /\ inp'[r] = name /\ (pc'[r]["first"] = "exec" => name # 0)
    BY <1>6, MoveOne DEF OpenTemp, Unlinked, TypeOK
  <2>2. pc'[r]["first"] \in {"exec", "gone"}
    BY <1>6, WhoMoves, MoveOne
  <2>3. Alive(r) /\ \A s \in Runs \ {r} : pc'[s] = pc[s]
    BY <1>6, Bystanders
  <2>4. /\ Holds(file[out[r][1]], r, out[r][2]) /\ name \in {0, out[r][1]}
        /\ Holds(got[r], r, Len(got[r])) /\ Len(got[r]) <= out[r][2]
    BY <1>6, <2>3 DEF AloneInv
  <2>5. QED
    BY <1>2, <1>6, <2>1, <2>2, <2>3, <2>4
<1>7. ASSUME NEW r \in Runs, Fork(r) \/ CmdEnds(r) \/ LastChild(r) \/ Finish(r) \/ ForkFails(r) \/ Kill(r), alone[r]
      PROVE  Own(r)'
  <2>1. UNCHANGED <<file, out, inp, got>> /\ name' \in {0, name}
    BY <1>7 DEF Fork, CmdEnds, LastChild, Finish, ForkFails, Kill, Unlinked
  <2>2. Alive(r) /\ \A s \in Runs \ {r} : pc'[s] = pc[s]
    BY <1>7, Bystanders
  <2>3. pc'[r]["first"] \in {pc[r]["first"], "fork", "gone"}
    <3>1. CASE Fork(r)
      BY <3>1 DEF Fork, TypeOK
    <3>2. CASE CmdEnds(r) \/ LastChild(r) \/ Finish(r) \/ ForkFails(r) \/ Kill(r)
      <4>1. \E p \in Procs, to \in {"exec", "gone"} : Move(r, p, to) /\ (to = "exec" => p = "last")
        BY <3>2, WhoMoves
      <4>2. QED
        BY <4>1, MoveOne
    <3>3. QED
      BY <1>7, <3>1, <3>2
  <2>4. /\ Holds(file[out[r][1]], r, out[r][2]) /\ name \in {0, out[r][1]}
        /\ Holds(got[r], r, Len(got[r])) /\ Len(got[r]) <= out[r][2]
        /\ pc[r]["first"] \in {"exec", "eof"} => inp[r] = out[r][1]
        /\ pc[r]["first"] = "eof" => Len(got[r]) = out[r][2]
    BY <1>7, <2>2 DEF AloneInv
  <2>5. QED
    BY <1>2, <1>7, <2>1, <2>2, <2>3, <2>4
<1>8. ASSUME NEW r \in Runs,
             \/ Write(r) \/ Fork(r) \/ OpenTemp(r) \/ ReadTemp(r)
             \/ CmdEnds(r) \/ LastChild(r) \/ Finish(r) \/ ForkFails(r) \/ Kill(r),
             NEW t \in Runs, alone'[t]
      PROVE  Own(t)'
  <2>1. /\ Alive(r) /\ alone[t]
        /\ t # r => pc'[t] = pc[t] /\ got'[t] = got[t] /\ out'[t] = out[t]
    BY <1>8, Bystanders
  <2>2. CASE t = r
    BY <1>4, <1>5, <1>6, <1>7, <1>8, <2>1, <2>2
  <2>3. CASE t # r
    <3>1. ~Alive(t)
      BY <2>1, <2>3 DEF AloneInv
    <3>2. QED
      BY <1>1, <2>1, <2>3, <3>1
  <2>4. QED
    BY <2>2, <2>3
<1>12. ASSUME NEW r \in Runs, GiveUp(r), NEW t \in Runs, alone'[t] PROVE Own(t)'
  <2>1. name' = 0 /\ UNCHANGED <<file, out, inp, got, alone>>
    BY <1>12 DEF GiveUp, Unlinked
  <2>2. /\ pc[r]["first"] = "new" /\ pc[r]["last"] = "new"
        /\ pc'[r] = [pc[r] EXCEPT !["parent"] = "gone"] /\ \A s \in Runs \ {r} : pc'[s] = pc[s]
    BY <1>12 DEF GiveUp, Move, TypeOK, ProcInv
  <2>3. ~Alive(r)' /\ \A s \in Runs \ {r} : Alive(s)' <=> Alive(s)
    BY <2>2 DEF Alive, TypeOK
  <2>4. pc'[t]["first"] = pc[t]["first"]
    <3>1. pc'[r]["first"] = pc[r]["first"]
      BY <1>12, WhoMoves, MoveOne
    <3>2. QED
      BY <2>2, <3>1
  <2>5. CASE t = r
    BY <1>12, <2>1, <2>3, <2>4, <2>5 DEF AloneInv, Holds
  <2>6. CASE t # r
    BY <1>12, <2>1, <2>3, <2>4, <2>6 DEF AloneInv, Holds
  <2>7. QED
    BY <2>5, <2>6
<1>9. CASE UNCHANGED vars
  BY <1>9 DEF vars, AloneInv, Alive, Holds
<1>10. CASE Next
  <2>1. CASE \E r \in Runs : \/ GiveUp(r) \/ Create(r) \/ Write(r) \/ Fork(r) \/ ForkFails(r)
                             \/ OpenTemp(r) \/ ReadTemp(r) \/ CmdEnds(r) \/ LastChild(r)
                             \/ Finish(r) \/ Kill(r)
    <3>1. \A t \in Runs : alone'[t] => Own(t)'
      BY <1>3, <1>8, <1>12, <2>1
    <3>2. QED
      BY <3>1 DEF AloneInv
  <2>2. QED
    BY <1>9, <1>10, <2>1 DEF Next
<1>11. QED
  BY <1>9, <1>10

-----------------------------------------------------------------------------
(***************************************************************************)
(* The theorems.                                                           *)
(***************************************************************************)

(* No run has begun, and TEMP_FILE names nothing. *)
LEMMA InitHolds ==
  Init => HereDocInv
<1> SUFFICES ASSUME Init PROVE HereDocInv
  OBVIOUS
<1> USE DEF Procs
<1>1. << >> \in Seq(Lines) /\ Len(<< >>) = 0 /\ DOMAIN << >> = {} /\ 0 \in 0 .. Size
  BY EmptySeq, RunsAssumption
<1>2. TypeOK
  BY <1>1 DEF Init, TypeOK
<1>3. LeftByKilled /\ ProcInv
  BY DEF Init, LeftByKilled, ProcInv
<1>4. StaleInv
  BY <1>1 DEF Init, StaleInv
<1>5. AloneInv
  <2>1. \A r \in Runs : ~Alive(r)
    BY DEF Init, Alive
  <2>2. \A r \in Runs : Holds(<< >>, r, 0)
    BY <1>1 DEF Holds
  <2>3. \A r \in Runs : got[r] = << >> /\ pc[r]["first"] = "new" /\ out[r][2] = 0
    BY DEF Init
  <2>4. QED
    BY <1>1, <2>1, <2>2, <2>3 DEF AloneInv
<1>6. QED
  BY <1>2, <1>3, <1>4, <1>5 DEF HereDocInv

(* Every reachable state satisfies the invariant. *)
LEMMA HereDocInvariance == Spec => []HereDocInv
<1>1. HereDocInv /\ [Next]_vars => HereDocInv'
  BY TypeStep, ProcStep, OwnerStep, StaleStep, AloneStep DEF HereDocInv
<1>2. QED
  BY InitHolds, <1>1, PTL DEF Spec

(***************************************************************************)
(* The file system keeps its type, and TEMP_FILE names a file only as long *)
(* as the parent of a run that opened it lives, or was killed before its   *)
(* unlink (ft_cleanup_exit).                                               *)
(***************************************************************************)
THEOREM FileInvCorrect == Spec => []FileInv
<1>1. HereDocInv => FileInv
  BY DEF HereDocInv, FileInv
<1>2. QED
  BY <1>1, HereDocInvariance, PTL

(***************************************************************************)
(* No run reads a line of a run that was over when it began: the O_TRUNC   *)
(* of ft_here_doc_inp is enough for that, however the runs overlap.        *)
(***************************************************************************)
THEOREM NoStaleLineCorrect == Spec => []NoStaleLine
<1>1. HereDocInv => NoStaleLine
  BY DEF HereDocInv, StaleInv, NoStaleLine
<1>2. QED
  BY <1>1, HereDocInvariance, PTL

(***************************************************************************)
(* A run with which no process of another writer was alive gives its first *)
(* command the lines its parent has read, in order, and all of them when   *)
(* the command reads to the end.                                           *)
(***************************************************************************)
THEOREM OwnTextCorrect == Spec => []OwnText
<1>1. ASSUME HereDocInv PROVE OwnText
  <2>1. SUFFICES ASSUME NEW r \in Runs, alone[r]
                 PROVE  /\ IsPrefix(got[r], Text(r))
                        /\ pc[r]["first"] = "eof" => got[r] = Text(r)
    BY DEF OwnText
  <2> DEFINE s == got[r]
             t == Text(r)
  <2>2. /\ s \in Seq(Lines) /\ t \in Seq(Lines) /\ Len(t) = out[r][2]
        /\ \A k \in 1 .. Len(t) : t[k] = <<r, k>>
    BY <1>1, TextIsSeq DEF HereDocInv, TypeOK
  <2>3. /\ Len(s) <= Len(t) /\ \A k \in 1 .. Len(s) : s[k] = <<r, k>>
        /\ pc[r]["first"] = "eof" => Len(s) = Len(t)
    BY <1>1, <2>1, <2>2 DEF HereDocInv, AloneInv, Holds
  <2> HIDE DEF s, t
  <2>4. Len(s) \in Nat /\ Len(t) \in Nat
    BY <2>2, LenProperties
  <2>5. ASSUME NEW k \in 1 .. Len(s) PROVE s[k] = t[k]
    <3>1. s[k] = <<r, k>>
      BY <2>3
    <3>2. k \in 1 .. Len(t)
      BY <2>3, <2>4
    <3>3. QED
      BY <2>2, <3>1, <3>2
  <2>6. SubSeq(s, 1, Len(s)) = SubSeq(t, 1, Len(s))
    <3> DEFINE n == Len(s)
               u == SubSeq(t, 1, n)
    <3>1. SubSeq(s, 1, n) = s
      BY <2>2, SubSeqFull
    <3>2. u \in Seq(Lines) /\ Len(u) = n /\ \A k \in 1 .. n : u[k] = t[k]
      <4>1. \A k \in 1 .. n + 1 : k \in 1 .. Len(t) + 1
        BY <2>3, <2>4
      <4>2. /\ u \in Seq(Lines) /\ Len(u) = IF 1 <= n THEN n - 1 + 1 ELSE 0
            /\ \A k \in 1 .. n - 1 + 1 : u[k] = t[1 + k - 1]
        BY <2>2, <2>3, <2>4, SubSeqProperties
      <4>3. QED
        BY <2>4, <4>2
    <3> HIDE DEF u
    <3>3. u = s
      BY <2>2, <2>5, <3>2, SeqEqual
    <3>4. QED
      BY <3>1, <3>3 DEF u
  <2>7. IsPrefix(s, t)
    BY <2>3, <2>6 DEF IsPrefix
  <2>8. pc[r]["first"] = "eof" => s = t
    BY <2>2, <2>3, <2>4, <2>5, SeqEqual
  <2>9. QED
    BY <2>7, <2>8 DEF s, t
<1>2. QED
  BY <1>1, HereDocInvariance, PTL

=============================================================================
