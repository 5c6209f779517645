----------------------------- MODULE PipexProofs -----------------------------
(***************************************************************************)
(* Proofs about Pipex, for pipelines of every length, every size of the    *)
(* descriptor table and every set of faults.  First, what every step       *)
(* keeps; then the end of a run: ft_wait_error waits for every child and   *)
(* computes the exit status and the messages that the statuses of the      *)
(* commands call for, whatever order they end in; TEMP_FILE is gone when   *)
(* pipex has left; and what a user sees of pipex is what PipelineContract  *)
(* allows.                                                                 *)
(***************************************************************************)
EXTENDS PipexContract, PipexInvariants, TLAPS

(***************************************************************************)
(* The operators on descriptor tables stay within the tables.              *)
(***************************************************************************)

(* Every open file named in Descriptors is a File. *)
LEMMA FilesAreFiles ==
  /\ Closed \in File /\ Terminal \in File /\ Infile \in File /\ Outfile \in File
  /\ \A n \in Nat : ReadEnd(n) \in File /\ WriteEnd(n) \in File /\ TempOf(n) \in File
BY DEF Closed, Terminal, Infile, Outfile, ReadEnd, WriteEnd, TempOf, File

(* The empty table and the one pipex starts with are tables. *)
LEMMA StandardTables == NoFds \in Table /\ StdFds \in Table
BY FilesAreFiles DEF NoFds, StdFds, Table

(* A chain of closes, close || close || ..., leaves a table a table. *)
LEMMA CloseChainTable ==
  ASSUME NEW t \in Table, NEW s
  PROVE  CloseChain(t, s) \in Table
BY FilesAreFiles DEF CloseChain, Table

(* So does dup2. *)
LEMMA Dup2Table ==
  ASSUME NEW t \in Table, NEW old \in Fd, NEW new \in Fd
  PROVE  Dup2(t, old, new) \in Table
BY DEF Dup2, Table

(* So does close. *)
LEMMA CloseTable ==
  ASSUME NEW t \in Table, NEW f \in Fd
  PROVE  Close(t, f) \in Table
BY FilesAreFiles DEF Close, Table

(* So does opening a file and moving it to a standard stream. *)
LEMMA RedirectTable ==
  ASSUME NEW t \in Table, NEW f \in Fd, NEW std \in Fd, NEW name \in File
  PROVE  Redirect(t, f, name, std) \in Table
<1>1. [t EXCEPT ![f] = name] \in Table
  BY DEF Table
<1>2. QED
  BY <1>1, Dup2Table DEF Redirect

(* Every table has room for the three standard streams. *)
LEMMA StreamNumbers == STDIN \in Fd /\ STDOUT \in Fd /\ STDERR \in Fd
BY MaxFdAssumption DEF Fd, STDIN, STDOUT, STDERR

(* pipe(2) fills two slots of a table and of the array pipe. *)
LEMMA CreatePipeTable ==
  ASSUME NEW t \in Table, NEW n \in 0 .. 1, NEW q, CreatePipe(t, n, q),
         npipe \in Nat, pipe \in [0 .. 1 -> [0 .. 1 -> Fd]]
  PROVE  fd' \in Table /\ pipe' \in [0 .. 1 -> [0 .. 1 -> Fd]] /\ npipe' \in Nat
<1>1. PICK r \in Fd, w \in Fd :
        /\ fd' = [t EXCEPT ![r] = ReadEnd(npipe + 1), ![w] = WriteEnd(npipe + 1)]
        /\ pipe' = [pipe EXCEPT ![n] = [e \in 0 .. 1 |-> IF e = 0 THEN r ELSE w]]
  BY DEF CreatePipe
<1>2. ReadEnd(npipe + 1) \in File /\ WriteEnd(npipe + 1) \in File
  BY FilesAreFiles
<1>3. QED
  BY <1>1, <1>2 DEF CreatePipe, Table

-----------------------------------------------------------------------------
(***************************************************************************)
(* Type correctness.                                                       *)
(***************************************************************************)
LEMMA CoreInit == Init => CoreInv
<1> SUFFICES ASSUME Init PROVE CoreInv
  OBVIOUS
<1>1. StdFds \in Table /\ NoFds \in Table /\ 0 \in Fd /\ 0 \in Status /\ 0 \in Code
  BY StandardTables, MaxFdAssumption DEF Fd, Status, Code
<1>2. TypeOK
  BY <1>1, PipexAssumption DEF Init, TypeOK, MainPoints, ChildStates, Fates
<1>3. PhaseInv
  BY DEF Init, PhaseInv, BeforeParse, BeforeForks
<1>4. ChildInv
  BY DEF Init, ChildInv, Forked, BeforeParse, BeforeForks, Cmds
<1>5. QED
  BY <1>2, <1>3, <1>4 DEF CoreInv

(* exit(n) yields a code, also for the -1 of a failed execve. *)
LEMMA ExitCodes ==
  /\ \A n \in Int : ExitCode(n) \in Code
  /\ {ENOENT, ENOMEM, EACCES, EMFILE, EPIPE, NotFound, 0, 1, 2} \subseteq Code
  /\ Code \subseteq Status /\ Killed \in Status /\ Code \subseteq Int
BY DEF ExitCode, Code, Status, Killed, ENOENT, ENOMEM, EACCES, EMFILE, EPIPE, NotFound

(* A child that ends keeps the arrays of the children well typed. *)
LEMMA ChildEndsTyped ==
  ASSUME TypeOK, NEW k \in Cmds, NEW st \in Status, NEW f \in Fates, ChildEnds(k, st, f)
  PROVE  /\ cpc' \in [Cmds -> ChildStates] /\ cfd' \in [Cmds -> Table]
         /\ status' \in [Cmds -> Status] /\ fate' \in [Cmds -> Fates]
BY StandardTables DEF TypeOK, ChildEnds, ChildStates

(* fork, or its failure, keeps the types of the children. *)
LEMMA ForkTyped ==
  ASSUME TypeOK, NEW k \in Cmds, ForkChild(k) \/ ForkFails(k)
  PROVE  /\ cpc' \in [Cmds -> ChildStates] /\ cfd' \in [Cmds -> Table]
         /\ status' \in [Cmds -> Status] /\ fate' \in [Cmds -> Fates]
         /\ cpipe' \in [Cmds -> [0 .. 1 -> [0 .. 1 -> Fd]]]
         /\ child_pids' \in [Cmds -> Int]
BY DEF TypeOK, ForkChild, ForkFails, ChildStates, Cmds, children

(* Forking the next command keeps what is known of the children. *)
LEMMA ForkKeepsChildInv ==
  ASSUME TypeOK, ChildInv, NEW k \in Cmds, ForkChild(k) \/ ForkFails(k),
         \A j \in Cmds : child_pids[j] = 0 <=> j >= k,
         k < nb_cmds, nb_cmds >= 2, nb_cmds' = nb_cmds,
         main' # "exited" => Forked' = k + 1
  PROVE  ChildInv'
<1>1. k \in Nat /\ cpc[k] = "none"
  BY DEF ChildInv, Cmds
<1>2. PICK p \in {-1, k + 1} :
        /\ child_pids' = [child_pids EXCEPT ![k] = p]
        /\ cpc' = IF p = -1 THEN cpc ELSE [cpc EXCEPT ![k] = "forked"]
  BY <1>1 DEF ForkChild, ForkFails, children
<1>3. /\ child_pids'[k] = p /\ p # 0
      /\ \A j \in Cmds : j # k => child_pids'[j] = child_pids[j] /\ cpc'[j] = cpc[j]
      /\ cpc'[k] = IF p = -1 THEN "none" ELSE "forked"
  BY <1>1, <1>2 DEF TypeOK
<1>4. \A j \in Cmds : child_pids'[j] \in {-1, 0, j + 1}
  BY <1>1, <1>3 DEF ChildInv
<1>5. \A j \in Cmds : cpc'[j] = "none" <=> child_pids'[j] # j + 1
  BY <1>1, <1>3 DEF ChildInv
<1>6. \A j \in Cmds : child_pids'[j] = 0 <=> j >= k + 1
  BY <1>1, <1>3 DEF Cmds
<1>7. \A j \in Cmds : child_pids'[j] # 0 => j < nb_cmds
  BY <1>3 DEF ChildInv
<1>8. QED
  BY <1>4, <1>5, <1>6, <1>7 DEF ChildInv

(* One turn of the loop in ft_wait_error keeps the types. *)
LEMMA RecordTyped ==
  ASSUME CoreInv, NEW st \in Status, Record(st), i < nb_cmds
  PROVE  /\ child_ret' \in [Cmds -> Status] /\ err' \in Code /\ i' \in 0 .. MaxCmds
         /\ reports' \subseteq Cmds \X {"command", "(null)", "infile", "outfile"}
         /\ i' <= nb_cmds
<1> USE DEF CoreInv, TypeOK, Record
<1>1. i \in Cmds /\ i' \in 0 .. MaxCmds /\ i' <= nb_cmds
  BY PipexAssumption DEF Cmds
<1>2. err' \in Code
  BY DEF NextErr, Errno1213, Errno127, Code, NotFound
<1>3. BlamedFile(i, mode) \in {"(null)", "infile", "outfile"}
  BY <1>1 DEF BlamedFile, Cmds
<1>4. Reports(i, st, mode, IF i < parsed THEN "command" ELSE "(null)")
        \subseteq Cmds \X {"command", "(null)", "infile", "outfile"}
  BY <1>1, <1>3 DEF Reports
<1>5. QED
  BY <1>1, <1>2, <1>4

(* What a child copied from its parent holds descriptors. *)
LEMMA CopyTyped ==
  ASSUME TypeOK, NEW k \in Cmds, NEW a \in 0 .. 1, NEW b \in 0 .. 1
  PROVE  cpipe[k][a][b] \in Fd /\ pipe[a][b] \in Fd /\ cfd[k] \in Table
BY DEF TypeOK

(* What becomes of a child that has set up its streams. *)
LEMMA SetUpTyped ==
  ASSUME TypeOK, NEW k \in Cmds, SetUp(k)
  PROVE  /\ cpc' \in [Cmds -> ChildStates] /\ cfd' \in [Cmds -> Table]
         /\ status' \in [Cmds -> Status] /\ fate' \in [Cmds -> Fates]
         /\ temp' \in {"absent", "stale", "doc"} /\ cpipe' = cpipe
<1>1. ASSUME NEW t \in Table, ToExec(k, t)
      PROVE  /\ cpc' \in [Cmds -> ChildStates] /\ cfd' \in [Cmds -> Table]
             /\ status' = status /\ fate' = fate /\ temp' = temp /\ cpipe' = cpipe
  BY <1>1 DEF ToExec, TypeOK, ChildStates
<1>2. ASSUME NEW e \in Code, FailToOpen(k, e)
      PROVE  /\ cpc' \in [Cmds -> ChildStates] /\ cfd' \in [Cmds -> Table]
             /\ status' \in [Cmds -> Status] /\ fate' \in [Cmds -> Fates]
             /\ temp' \in {"absent", "stale", "doc"} /\ cpipe' = cpipe
  <2>1. ChildEnds(k, ExitCode(e), "no_file") /\ temp' = Unlinked /\ cpipe' = cpipe
    BY <1>2 DEF FailToOpen, ChildCleanupExit
  <2>2. ExitCode(e) \in Status
    BY ExitCodes
  <2>3. temp' \in {"absent", "stale", "doc"}
    BY <2>1 DEF Unlinked, TypeOK
  <2>4. QED
    BY <2>1, <2>2, <2>3, ChildEndsTyped DEF Fates
<1>3. CASE k = 0 /\ FirstChild
  <2>1. CASE \E f \in Fd :
               LET name == IF mode = "here_doc" THEN TempOf(IF temp = "doc" THEN 1 ELSE 0)
                                                ELSE Infile
                   t == Dup2(Redirect(cfd[0], f, name, STDIN), cpipe[0][1][1], STDOUT)
               IN ToExec(0, CloseAllFds(Close(t, f), cpipe[0]))
    <3>1. PICK f \in Fd :
            LET name == IF mode = "here_doc" THEN TempOf(IF temp = "doc" THEN 1 ELSE 0)
                                             ELSE Infile
                t == Dup2(Redirect(cfd[0], f, name, STDIN), cpipe[0][1][1], STDOUT)
            IN ToExec(0, CloseAllFds(Close(t, f), cpipe[0]))
      BY <2>1
    <3> DEFINE name == IF mode = "here_doc" THEN TempOf(IF temp = "doc" THEN 1 ELSE 0)
                                            ELSE Infile
               r == Redirect(cfd[0], f, name, STDIN)
               t == Dup2(r, cpipe[0][1][1], STDOUT)
    <3>2. name \in File
      BY FilesAreFiles
    <3>3. r \in Table
      BY <3>2, <1>3, CopyTyped, RedirectTable, StreamNumbers
    <3>4. t \in Table
      BY <3>3, <1>3, CopyTyped, Dup2Table, StreamNumbers
    <3>5. CloseAllFds(Close(t, f), cpipe[0]) \in Table
      BY <3>4, CloseTable, CloseChainTable DEF CloseAllFds
    <3>6. QED
      BY <3>1, <3>5, <1>1, <1>3 DEF TypeOK
  <2>2. CASE \E e \in Code : FailToOpen(0, e)
    BY <2>2, <1>2, <1>3
  <2>3. QED
    <3>1. \A e \in OpenErrors(0, InErrs) : e \in Code
      BY PipexAssumption, ExitCodes DEF OpenErrors
    <3>2. ENOENT \in Code
      BY ExitCodes
    <3>3. QED
      BY <1>3, <2>1, <2>2, <3>1, <3>2 DEF FirstChild
<1>4. CASE MiddleChild(k)
  <2> DEFINE t == Dup2(cfd[k], cpipe[k][k % 2][0], STDIN)
             u == Dup2(t, cpipe[k][(k + 1) % 2][1], STDOUT)
  <2>1. k % 2 \in 0 .. 1 /\ (k + 1) % 2 \in 0 .. 1
    BY DEF Cmds
  <2>2. t \in Table
    BY <2>1, CopyTyped, Dup2Table, StreamNumbers
  <2>3. u \in Table
    BY <2>1, <2>2, CopyTyped, Dup2Table, StreamNumbers
  <2>4. CloseAllFds(u, cpipe[k]) \in Table
    BY <2>3, CloseChainTable DEF CloseAllFds
  <2>5. ToExec(k, CloseAllFds(u, cpipe[k]))
    BY <1>4 DEF MiddleChild
  <2>6. QED
    BY <2>4, <2>5, <1>1 DEF TypeOK
<1>5. CASE LastChild(k)
  <2>1. ASSUME NEW f \in Fd,
               LET t == Close(Redirect(cfd[k], f, Outfile, STDOUT), f)
                   u == Dup2(t, cpipe[k][(nb_cmds - 1) % 2][0], STDIN)
               IN ToExec(k, CloseAllFds(u, cpipe[k]))
        PROVE  \E t \in Table : ToExec(k, t)
    <3> DEFINE t == Close(Redirect(cfd[k], f, Outfile, STDOUT), f)
               u == Dup2(t, cpipe[k][(nb_cmds - 1) % 2][0], STDIN)
    <3>1. (nb_cmds - 1) % 2 \in 0 .. 1
      BY PipexAssumption DEF TypeOK
    <3>2. t \in Table
      BY CopyTyped, RedirectTable, CloseTable, StreamNumbers, FilesAreFiles
    <3>3. u \in Table
      BY <3>1, <3>2, CopyTyped, Dup2Table, StreamNumbers
    <3>4. CloseAllFds(u, cpipe[k]) \in Table
      BY <3>3, CloseChainTable DEF CloseAllFds
    <3>5. QED
      BY <2>1, <3>4
  <2>2. \A e \in OpenErrors(k, OutErrs) : e \in Code
    BY PipexAssumption, ExitCodes DEF OpenErrors
  <2>3. (\E t \in Table : ToExec(k, t)) \/ (\E e \in Code : FailToOpen(k, e))
    BY <1>5, <2>1, <2>2 DEF LastChild
  <2>4. QED
    BY <2>3, <1>1, <1>2 DEF TypeOK
<1>6. QED
  BY <1>3, <1>4, <1>5 DEF SetUp

(* Every step of pipex and of its children keeps CoreInv. *)
LEMMA CoreStep == CoreInv /\ [Next]_vars => CoreInv'
<1> SUFFICES ASSUME CoreInv, [Next]_vars PROVE CoreInv'
  OBVIOUS
<1> USE DEF CoreInv
<1>1. MaxCmds \in Nat /\ MaxCmds >= 2
  BY PipexAssumption
<1>2. \A n \in 0 .. 255 : n \in Code /\ n \in Status
  BY DEF Code, Status
<1>3. NoFds \in Table /\ Killed \in Status
  BY StandardTables, ExitCodes
<1>4. ASSUME NEW n \in 0 .. 1, OpenPipe(n) PROVE CoreInv'
  <2>1. fd' \in Table /\ pipe' \in [0 .. 1 -> [0 .. 1 -> Fd]] /\ npipe' \in Nat
    BY <1>3, <1>4, CreatePipeTable DEF OpenPipe, MainExit, TypeOK
  <2>2. code' \in Status /\ main' \in {"pipe1", "validate", "exited"}
    BY <1>2, <1>4 DEF OpenPipe, MainExit, CreatePipe, EPIPE, TypeOK
  <2>3. TypeOK'
    BY <1>4, <2>1, <2>2
       DEF TypeOK, OpenPipe, ParentOnly, args, children, waiting, parse, MainPoints
  <2>4. PhaseInv'
    BY <1>4, <2>2
       DEF PhaseInv, OpenPipe, ParentOnly, args, parse, BeforeParse, BeforeForks
  <2>5. ChildInv'
    BY <1>4, <2>2
       DEF ChildInv, OpenPipe, ParentOnly, parse, children, Forked, BeforeParse, BeforeForks
  <2>6. QED
    BY <2>3, <2>4, <2>5
<1>5. CASE ValidateArgs
  <2>1. TypeOK'
    BY <1>2, <1>3, <1>5
       DEF TypeOK, ValidateArgs, MainExit, ParentOnly, args, children, waiting, MainPoints
  <2>2. PhaseInv'
    BY <1>5, PipexAssumption
       DEF TypeOK, PhaseInv, ValidateArgs, MainExit, ParentOnly, args, children, waiting,
           BeforeParse, BeforeForks
  <2>3. ChildInv'
    BY <1>5
       DEF ChildInv, ValidateArgs, MainExit, ParentOnly, children, Forked, BeforeParse, BeforeForks
  <2>4. QED
    BY <2>1, <2>2, <2>3
<1>6. CASE ParseCmds
  <2>1. argc >= 5 /\ argc - 3 <= MaxCmds /\ argc \in Nat /\ nb_cmds = 0 /\ i = 0
    BY <1>6, PipexAssumption DEF ParseCmds, TypeOK, PhaseInv, BeforeParse, BeforeForks
  <2>2. /\ mode = "here_doc" => argc = 6
        /\ nb_cmds' = argc - 3 - (IF mode = "here_doc" THEN 1 ELSE 0)
    BY <1>6 DEF ParseCmds, PhaseInv
  <2>3. nb_cmds' \in 0 .. MaxCmds
    BY <1>1, <2>1, <2>2
  <2>4. /\ main' \in {"envp", "exited"} /\ code' \in Status
        /\ fd' \in Table /\ temp' \in {"absent", "stale", "doc"}
    BY <1>3, <1>6, ExitCodes
       DEF ParseCmds, MainCleanupExit, MainExit, Unlinked, TypeOK, ENOMEM
  <2>5. parsed' \in 0 .. nb_cmds'
    BY <1>6, <2>1, <2>3 DEF ParseCmds, TypeOK
  <2>6. TypeOK'
    BY <1>6, <2>3, <2>4, <2>5
       DEF TypeOK, ParseCmds, ParentOnly, args, children, waiting, MainPoints
  <2>7. PhaseInv'
    BY <1>6, <2>1, <2>2, <2>4
       DEF PhaseInv, ParseCmds, ParentOnly, args, BeforeParse, BeforeForks
  <2>8. ChildInv'
    BY <1>6, <2>1, <2>3, <2>4
       DEF ChildInv, ParseCmds, ParentOnly, children, Forked, BeforeParse, BeforeForks, Cmds
  <2>9. QED
    BY <2>6, <2>7, <2>8
<1>7. CASE GrabEnvp
  <2>1. TypeOK'
    BY <1>3, <1>7
       DEF TypeOK, GrabEnvp, MainExit, ParentOnly, args, children, waiting, MainPoints
  <2>2. PhaseInv'
    BY <1>7
       DEF PhaseInv, GrabEnvp, MainExit, ParentOnly, args, BeforeParse, BeforeForks
  <2>3. ChildInv'
    BY <1>7
       DEF ChildInv, GrabEnvp, MainExit, ParentOnly, children, Forked, BeforeParse, BeforeForks
  <2>4. QED
    BY <2>1, <2>2, <2>3
<1>8. CASE HereDocInp
  <2>1. /\ main' \in {"fork_first", "exited"} /\ code' \in Status
        /\ fd' \in Table /\ temp' \in {"absent", "stale", "doc"}
    <3>1. Killed \in Status /\ \A e \in InErrs \cup {EMFILE} : ExitCode(e) \in Status
      BY ExitCodes, PipexAssumption
    <3>2. QED
      BY <1>3, <1>8, <3>1
         DEF HereDocInp, MainCleanupExit, MainExit, Unlinked, TypeOK
  <2>2. TypeOK'
    BY <1>8, <2>1
       DEF TypeOK, HereDocInp, ParentOnly, parse, args, children, waiting, MainPoints
  <2>3. PhaseInv'
    BY <1>8, <2>1
       DEF PhaseInv, HereDocInp, ParentOnly, parse, args, BeforeParse, BeforeForks
  <2>4. ChildInv'
    BY <1>8, <2>1
       DEF ChildInv, HereDocInp, ParentOnly, parse, children, Forked, BeforeParse, BeforeForks
  <2>5. QED
    BY <2>2, <2>3, <2>4
<1>9. CASE ForkFirstChild
  <2>1. /\ main' \in {"malcolm", "fork_last", "exited"} /\ code' \in Status
        /\ fd' \in Table /\ temp' \in {"absent", "stale", "doc"}
    BY <1>3, <1>9, ExitCodes
       DEF ForkFirstChild, MainCleanupExit, MainExit, Unlinked, TypeOK, EPIPE
  <2>2. nb_cmds >= 2 /\ i = 0 /\ nb_cmds \in Nat
    BY <1>1, <1>9, PipexAssumption
       DEF ForkFirstChild, PhaseInv, TypeOK, BeforeParse, BeforeForks
  <2>3. i' \in 0 .. MaxCmds
    BY <1>1, <1>9, <2>2 DEF ForkFirstChild
  <2>4. 0 \in Cmds /\ (ForkChild(0) \/ ForkFails(0))
    BY <1>1, <1>9 DEF Cmds, ForkFirstChild
  <2>5. cpipe' \in [Cmds -> [0 .. 1 -> [0 .. 1 -> Fd]]] /\ child_pids' \in [Cmds -> Int]
    BY <2>4, ForkTyped
  <2>6. TypeOK'
    BY <1>9, <2>1, <2>3, <2>4, <2>5, ForkTyped
       DEF TypeOK, ForkFirstChild, parse, args, waiting, MainPoints
  <2>7. PhaseInv'
    BY <1>9, <2>1, <2>2
       DEF PhaseInv, ForkFirstChild, MainCleanupExit, MainExit, parse, args,
           BeforeParse, BeforeForks
  <2>8. ChildInv'
    <3>1. main' # "exited" => Forked' = 1
      BY <1>9, <2>1, <2>2 DEF ForkFirstChild, MainCleanupExit, MainExit, Forked, BeforeParse, BeforeForks
    <3>2. \A k \in Cmds : child_pids[k] = 0 <=> k >= 0
      BY <1>9, <2>2 DEF ForkFirstChild, ChildInv, Forked, BeforeForks, BeforeParse, Cmds
    <3>3. nb_cmds' = nb_cmds
      BY <1>9 DEF ForkFirstChild, parse
    <3>4. QED
      BY <2>2, <2>4, <3>1, <3>2, <3>3, ForkKeepsChildInv
  <2>9. QED
    BY <2>6, <2>7, <2>8
<1>10. CASE Malcolm
  <2>1. /\ nb_cmds > 2 /\ i <= nb_cmds - 2 /\ i \in Nat /\ nb_cmds \in Nat
        /\ nb_cmds <= MaxCmds /\ main = "malcolm"
    BY <1>1, <1>10 DEF Malcolm, PhaseInv, TypeOK
  <2>2. i' = i + 1 /\ i' \in 0 .. MaxCmds
    BY <1>1, <1>10, <2>1 DEF Malcolm
  <2>3. child_pids[i] # 0
    BY <1>1, <2>1 DEF ChildInv, Forked, BeforeForks, BeforeParse, Cmds
  <2>4. /\ cpc' \in [Cmds -> ChildStates] /\ cfd' \in [Cmds -> Table]
        /\ status' \in [Cmds -> Status] /\ fate' \in [Cmds -> Fates]
        /\ cpipe' \in [Cmds -> [0 .. 1 -> [0 .. 1 -> Fd]]]
        /\ child_pids' \in [Cmds -> Int]
    <3>1. CASE i + 1 < nb_cmds - 1 /\ (ForkChild(i + 1) \/ ForkFails(i + 1))
      <4>1. i + 1 \in Cmds
        BY <1>1, <2>1, <3>1 DEF Cmds
      <4>2. QED
        BY <3>1, <4>1, ForkTyped
    <3>2. CASE UNCHANGED <<child_pids, children>>
      BY <3>2 DEF TypeOK, children
    <3>3. QED
      BY <1>10, <3>1, <3>2 DEF Malcolm
  <2>5. main' \in {"renew", "fork_last"}
    BY <1>10 DEF Malcolm
  <2>6. TypeOK'
    BY <1>10, <2>2, <2>4, <2>5
       DEF TypeOK, Malcolm, parse, args, waiting, parentFd, MainPoints
  <2>7. /\ main' = "renew" => i' <= nb_cmds - 2 /\ i' > 0
        /\ main' = "fork_last" => i' = nb_cmds - 1
    BY <1>10, <2>1, <2>2, <2>3 DEF Malcolm
  <2>8. PhaseInv'
    BY <1>10, <2>1, <2>2, <2>5, <2>7
       DEF PhaseInv, Malcolm, parse, args, BeforeParse, BeforeForks
  <2>9. ChildInv'
    <3>1. \A k \in Cmds : child_pids[k] = 0 <=> k >= i + 1
      BY <2>1 DEF ChildInv, Forked, BeforeForks, BeforeParse
    <3>2. CASE i + 1 < nb_cmds - 1 /\ (ForkChild(i + 1) \/ ForkFails(i + 1)) /\ main' = "renew"
      <4>1. Forked' = i + 2
        BY <2>1, <2>2, <3>2 DEF Forked, BeforeForks, BeforeParse
      <4>2. i + 1 \in Cmds /\ nb_cmds' = nb_cmds
        BY <1>1, <1>10, <2>1, <3>2 DEF Cmds, Malcolm, parse
      <4>3. QED
        BY <2>1, <3>1, <3>2, <4>1, <4>2, ForkKeepsChildInv
    <3>3. CASE main' = "fork_last" /\ UNCHANGED <<child_pids, children>>
      <4>1. Forked' = i + 1
        BY <2>1, <2>2, <3>3 DEF Forked, BeforeForks, BeforeParse
      <4>2. QED
        BY <1>10, <2>1, <3>1, <3>3, <4>1 DEF ChildInv, Malcolm, parse, children
    <3>4. QED
      BY <1>10, <3>2, <3>3 DEF Malcolm
  <2>10. QED
    BY <2>6, <2>8, <2>9
<1>11. CASE RenewPipe
  <2> DEFINE n == i % 2
             t == CloseChain(fd, <<pipe[n][0], pipe[n][1]>>)
  <2>1. n \in 0 .. 1 /\ t \in Table
    BY CloseChainTable DEF TypeOK
  <2>2. /\ fd' \in Table /\ pipe' \in [0 .. 1 -> [0 .. 1 -> Fd]] /\ npipe' \in Nat
        /\ main' = "malcolm" /\ main = "renew"
    <3>1. CASE CreatePipe(t, n, "malcolm")
      BY <1>11, <2>1, <3>1, CreatePipeTable DEF RenewPipe, CreatePipe, TypeOK
    <3>2. CASE fd' = t /\ main' = "malcolm" /\ UNCHANGED <<pipe, npipe>>
      BY <1>11, <2>1, <3>2 DEF RenewPipe, TypeOK
    <3>3. QED
      BY <1>11, <3>1, <3>2 DEF RenewPipe
  <2>3. UNCHANGED <<args, parse, children, waiting, child_pids, i, code, temp>>
    BY <1>11 DEF RenewPipe, ParentOnly
  <2>4. TypeOK'
    BY <2>2, <2>3 DEF TypeOK, args, parse, children, waiting, MainPoints
  <2>5. PhaseInv'
    BY <2>2, <2>3 DEF PhaseInv, args, parse, BeforeParse, BeforeForks
  <2>6. ChildInv'
    BY <2>2, <2>3 DEF ChildInv, Forked, parse, children, BeforeParse, BeforeForks
  <2>7. QED
    BY <2>4, <2>5, <2>6
<1>12. CASE ForkLastChild
  <2>1. i = nb_cmds - 1 /\ nb_cmds >= 2 /\ nb_cmds \in Nat /\ nb_cmds <= MaxCmds /\ i \in Cmds
    BY <1>1, <1>12, PipexAssumption
       DEF ForkLastChild, PhaseInv, TypeOK, BeforeParse, Cmds
  <2>2. TypeOK'
    BY <1>12, <2>1, ForkTyped
       DEF TypeOK, ForkLastChild, parse, args, waiting, parentFd, MainPoints
  <2>3. PhaseInv'
    BY <1>12 DEF PhaseInv, ForkLastChild, parse, args, BeforeParse, BeforeForks
  <2>4. ChildInv'
    <3>1. \A k \in Cmds : child_pids[k] = 0 <=> k >= i
      BY <1>12 DEF ForkLastChild, ChildInv, Forked, BeforeForks, BeforeParse
    <3>2. nb_cmds' = nb_cmds /\ Forked' = i + 1
      BY <1>12, <2>1 DEF ForkLastChild, Forked, parse, BeforeForks, BeforeParse
    <3>3. ForkChild(i) \/ ForkFails(i)
      BY <1>12 DEF ForkLastChild
    <3>4. QED
      BY <2>1, <3>1, <3>2, <3>3, ForkKeepsChildInv
  <2>5. QED
    BY <2>2, <2>3, <2>4
<1>13. CASE CloseInParent
  <2>1. fd' \in Table
    BY <1>13, CloseChainTable DEF CloseInParent, CloseAllFds, TypeOK
  <2>2. TypeOK'
    BY <1>1, <1>2, <1>13, <2>1 DEF TypeOK, CloseInParent, args, parse, children, MainPoints
  <2>3. PhaseInv'
    BY <1>13 DEF PhaseInv, CloseInParent, TypeOK, args, parse, BeforeParse, BeforeForks
  <2>4. ChildInv'
    BY <1>13
       DEF ChildInv, CloseInParent, Forked, parse, children, BeforeParse, BeforeForks
  <2>5. QED
    BY <2>2, <2>3, <2>4
<1>14. ASSUME NEW st \in Status, Record(st), main = "wait", i < nb_cmds,
              UNCHANGED <<args, parse, parentFd, child_pids, main, code, cfd, cpipe,
                          status, fate, temp>>,
              \/ cpc' = cpc
              \/ \E k \in Cmds : cpc[k] = "zombie" /\ cpc' = [cpc EXCEPT ![k] = "reaped"]
       PROVE  CoreInv'
  <2>1. TypeOK'
    BY <1>14, RecordTyped DEF TypeOK, args, parse, parentFd, MainPoints, ChildStates
  <2>2. PhaseInv'
    BY <1>14, RecordTyped DEF PhaseInv, args, parse, BeforeParse, BeforeForks
  <2>3. ChildInv'
    BY <1>14 DEF ChildInv, Forked, parse, BeforeParse, BeforeForks, TypeOK
  <2>4. QED
    BY <2>1, <2>2, <2>3
<1>15. ASSUME NEW k \in Cmds, WaitChild(k) PROVE CoreInv'
  BY <1>14, <1>15 DEF WaitChild, TypeOK
<1>16. CASE WaitNobody
  <2>1. 0 \in Status
    BY <1>2
  <2>2. QED
    BY <1>14, <1>16, <2>1 DEF WaitNobody, children
<1>17. CASE Finish
  <2>1. /\ main' = "exited" /\ code' \in Status
        /\ fd' \in Table /\ temp' \in {"absent", "stale", "doc"}
    <3>1. ExitCode(err) \in Status
      BY ExitCodes DEF TypeOK
    <3>2. QED
      BY <1>3, <1>17, <3>1 DEF Finish, MainCleanupExit, MainExit, Unlinked, TypeOK
  <2>2. TypeOK'
    BY <1>17, <2>1 DEF TypeOK, Finish, args, parse, children, waiting, MainPoints
  <2>3. PhaseInv'
    BY <1>17, <2>1 DEF PhaseInv, Finish, args, parse, BeforeParse, BeforeForks
  <2>4. ChildInv'
    BY <1>17, <2>1 DEF ChildInv, Finish, parse, children
  <2>5. QED
    BY <2>2, <2>3, <2>4
<1>18. ASSUME NEW k \in Cmds, ParentIdle,
              cpc[k] # "none",
              \E s \in ChildStates \ {"none"} : cpc' = [cpc EXCEPT ![k] = s],
              cfd' \in [Cmds -> Table], cpipe' = cpipe,
              status' \in [Cmds -> Status], fate' \in [Cmds -> Fates],
              temp' \in {"absent", "stale", "doc"}
       PROVE  CoreInv'
  <2>1. TypeOK'
    BY <1>18 DEF TypeOK, ParentIdle, args, parse, parentFd, waiting
  <2>2. PhaseInv'
    BY <1>18 DEF PhaseInv, ParentIdle, args, parse
  <2>3. ChildInv'
    BY <1>18 DEF ChildInv, Forked, ParentIdle, parse, TypeOK
  <2>4. QED
    BY <2>1, <2>2, <2>3
<1>19. ASSUME NEW k \in Cmds, ChildStep(k) PROVE CoreInv'
  <2>1. CASE SetUp(k)
    <3>1. cpc[k] # "none" /\ \E s \in ChildStates \ {"none"} : cpc' = [cpc EXCEPT ![k] = s]
      BY <2>1 DEF SetUp, FirstChild, MiddleChild, LastChild, ToExec, FailToOpen,
                  ChildCleanupExit, ChildEnds, ChildStates
    <3>2. QED
      BY <1>18, <1>19, <2>1, <3>1, SetUpTyped DEF ChildStep
  <2>2. CASE SearchAndExec(k)
    <3>1. CASE cpc[k] = "exec" /\ UNCHANGED <<cpipe, temp, cfd, status>>
               /\ cpc' = [cpc EXCEPT ![k] = "run"] /\ fate' = [fate EXCEPT ![k] = "ran"]
      BY <1>18, <1>19, <3>1 DEF ChildStep, TypeOK, Fates, ChildStates
    <3>2. CASE /\ cpc[k] = "exec" /\ UNCHANGED cpipe /\ temp' \in {temp, Unlinked}
               /\ \E st \in Status, f \in Fates : ChildEnds(k, st, f)
      <4>1. \E s \in ChildStates \ {"none"} : cpc' = [cpc EXCEPT ![k] = s]
        BY <3>2 DEF ChildEnds, ChildStates
      <4>2. temp' \in {"absent", "stale", "doc"}
        BY <3>2 DEF TypeOK, Unlinked
      <4>3. QED
        BY <1>18, <1>19, <3>2, <4>1, <4>2, ChildEndsTyped DEF ChildStep
    <3>3. ExitCode(NotFound) \in Status /\ ExitCode(ENOMEM) \in Status /\ ExitCode(-1) \in Status
      BY ExitCodes, -1 \in Int DEF NotFound, ENOMEM
    <3>4. QED
      BY <1>3, <2>2, <3>1, <3>2, <3>3 DEF SearchAndExec, ChildCleanupExit, Fates
  <2>3. QED
    BY <1>19, <2>1, <2>2 DEF ChildStep
<1>20. ASSUME NEW k \in Cmds, CommandEnds(k), ParentIdle PROVE CoreInv'
  <2>1. PICK st \in Status : ChildEnds(k, st, "ran")
    BY <1>20, <1>3, ExitCodes, PipexAssumption DEF CommandEnds
  <2>2. \E s \in ChildStates \ {"none"} : cpc' = [cpc EXCEPT ![k] = s]
    BY <2>1 DEF ChildEnds, ChildStates
  <2>3. QED
    BY <1>18, <1>20, <2>1, <2>2, ChildEndsTyped DEF CommandEnds, Fates, TypeOK
<1>21. CASE UNCHANGED vars
  BY <1>21 DEF vars, args, parse, parentFd, children, waiting, TypeOK, PhaseInv, ChildInv, Forked
<1>22. QED
  BY <1>4, <1>5, <1>6, <1>7, <1>8, <1>9, <1>10, <1>11, <1>12, <1>13, <1>15, <1>16, <1>17,
     <1>19, <1>20, <1>21
     DEF Next, MainStep, AllDone

(***************************************************************************)
(* Every variable keeps its type: in particular no index leaves the        *)
(* arrays, and whatever goes wrong err and code are exit statuses.         *)
(***************************************************************************)
THEOREM TypeCorrect == Spec => []TypeOK
<1>1. Init => CoreInv
  BY CoreInit
<1>2. CoreInv /\ [Next]_vars => CoreInv'
  BY CoreStep
<1>3. CoreInv => TypeOK
  BY DEF CoreInv
<1>4. QED
  BY <1>1, <1>2, <1>3, PTL DEF Spec

-----------------------------------------------------------------------------
(***************************************************************************)
(* TEMP_FILE.                                                              *)
(***************************************************************************)

(* A child leaves TEMP_FILE alone or, through ft_cleanup_exit, unlinks it. *)
LEMMA ChildAndTemp ==
  ASSUME NEW k \in Cmds, ChildStep(k) \/ (CommandEnds(k) /\ ParentIdle)
  PROVE  temp' \in {temp, Unlinked} /\ ParentIdle
BY DEF ChildStep, SetUp, FirstChild, MiddleChild, LastChild, SearchAndExec, CommandEnds,
       ToExec, FailToOpen, ChildCleanupExit

(* Every step keeps the stale TEMP_FILE away from the first child. *)
LEMMA TempStep ==
  ASSUME CoreInv, TempInv, [Next]_vars
  PROVE  TempInv'
<1> USE DEF CoreInv, TempInv
<1>1. 0 \in Cmds /\ temp \in {"absent", "stale", "doc"}
  BY PipexAssumption DEF Cmds, TypeOK
<1>2. main \in BeforeForks => child_pids[0] = 0
  BY <1>1 DEF ChildInv, Forked, BeforeForks, BeforeParse, Cmds
<1>3. ASSUME NEW n \in 0 .. 1, OpenPipe(n) PROVE TempInv'
  BY <1>3 DEF OpenPipe, CreatePipe, MainExit, ParentOnly, parse
<1>4. CASE ValidateArgs
  BY <1>2, <1>4 DEF ValidateArgs, MainExit, ParentOnly, BeforeForks, BeforeParse
<1>5. CASE ParseCmds
  BY <1>2, <1>5
     DEF ParseCmds, MainCleanupExit, MainExit, ParentOnly, BeforeForks, BeforeParse
<1>6. CASE GrabEnvp
  BY <1>2, <1>6 DEF GrabEnvp, MainExit, ParentOnly, BeforeForks, BeforeParse
<1>7. CASE HereDocInp
  BY <1>2, <1>7 DEF HereDocInp, MainCleanupExit, MainExit, ParentOnly, BeforeForks, BeforeParse
<1>8. CASE ForkFirstChild
  BY <1>8 DEF ForkFirstChild, MainCleanupExit, MainExit, Unlinked, parse
<1>9. CASE Malcolm
  <2>1. child_pids[0] # 0
    BY <1>1, <1>9
       DEF Malcolm, ChildInv, Forked, BeforeForks, BeforeParse, TypeOK
  <2>2. QED
    BY <1>9, <2>1 DEF Malcolm, parse
<1>10. CASE RenewPipe
  BY <1>10 DEF RenewPipe, CreatePipe, ParentOnly, parse
<1>11. CASE ForkLastChild
  <2>1. child_pids[0] # 0
    BY <1>1, <1>11, PipexAssumption
       DEF ForkLastChild, PhaseInv, ChildInv, Forked, BeforeForks, BeforeParse, TypeOK
  <2>2. QED
    BY <1>11, <2>1 DEF ForkLastChild, parse
<1>12. CASE CloseInParent
  BY <1>12 DEF CloseInParent, parse
<1>13. CASE (\E k \in Cmds : WaitChild(k)) \/ WaitNobody
  BY <1>13 DEF WaitChild, WaitNobody, parse
<1>14. CASE Finish
  BY <1>14 DEF Finish, MainCleanupExit, MainExit, Unlinked, parse
<1>15. ASSUME NEW k \in Cmds, ChildStep(k) \/ (CommandEnds(k) /\ ParentIdle) PROVE TempInv'
  BY <1>15, ChildAndTemp DEF ParentIdle, parse, Unlinked
<1>16. CASE UNCHANGED vars
  BY <1>16 DEF vars, parse
<1>17. QED
  BY <1>3, <1>4, <1>5, <1>6, <1>7, <1>8, <1>9, <1>10, <1>11, <1>12, <1>13, <1>14, <1>15, <1>16
     DEF Next, MainStep, AllDone

-----------------------------------------------------------------------------

(***************************************************************************)
(* One turn of the loop in ft_wait_error takes the verdict on i commands   *)
(* to the verdict on i + 1.                                                *)
(***************************************************************************)
LEMMA VerdictOfOneMore ==
  ASSUME NEW n \in Nat, n >= 2, NEW m \in Nat, m < n, n <= MaxCmds, MaxCmds \in Nat,
         NEW ret \in [Cmds -> Status], NEW st \in Status
  PROVE  LET nxt == [ret EXCEPT ![m] = st]
         IN Partial(m + 1, n, nxt) = NextErr(m, st, n, Partial(m, n, ret))
<1> DEFINE nxt == [ret EXCEPT ![m] = st]
           Fails(r, u) == \E j \in 1 .. (u - 1) : r[j] \in Failure
<1>1. m \in Cmds /\ nxt[m] = st /\ \A j \in 1 .. (m - 1) : nxt[j] = ret[j]
  BY DEF Cmds
<1>2. Fails(nxt, m + 1) <=> Fails(ret, m) \/ (m # 0 /\ st \in Failure)
  <2>1. \A j \in 1 .. (m + 1 - 1) : j \in 1 .. (m - 1) \/ j = m
    OBVIOUS
  <2>2. m # 0 => m \in 1 .. (m + 1 - 1)
    OBVIOUS
  <2>3. \A j \in 1 .. (m - 1) : j \in 1 .. (m + 1 - 1)
    OBVIOUS
  <2>4. QED
    BY <1>1, <2>1, <2>2, <2>3
<1>3. m = 0 => ~Fails(ret, m)
  OBVIOUS
<1>4. Partial(m, n, ret) = IF Fails(ret, m) THEN 1 ELSE 0
  BY DEF Partial
<1>5. Partial(m + 1, n, nxt)
        = IF m + 1 = n /\ st = NotFound THEN NotFound
          ELSE IF Fails(nxt, m + 1) THEN 1 ELSE 0
  <2>1. m + 1 = n => nxt[n - 1] = st
    BY <1>1
  <2>2. QED
    BY <2>1 DEF Partial
<1> SUFFICES Partial(m + 1, n, nxt) = NextErr(m, st, n, Partial(m, n, ret))
  OBVIOUS
<1> HIDE DEF Fails, nxt
<1>6. CASE st = Killed
  BY <1>2, <1>4, <1>5, <1>6
     DEF NextErr, WIFEXITED, Failure, Killed, NotFound, ENOENT, EACCES
<1>7. CASE st # Killed
  <2>1. st \in 0 .. 255
    BY <1>7 DEF Status, Code
  <2>2. CASE st = NotFound
    BY <1>2, <1>3, <1>4, <1>5, <1>7, <2>2
       DEF NextErr, WIFEXITED, Errno127, Errno1213, Failure, NotFound, ENOENT, EACCES
  <2>3. CASE st \in {1, ENOENT, EACCES}
    BY <1>2, <1>3, <1>4, <1>5, <1>7, <2>3
       DEF NextErr, WIFEXITED, Errno127, Errno1213, Failure, NotFound, ENOENT, EACCES
  <2>4. CASE st \notin {1, ENOENT, EACCES, NotFound}
    BY <1>2, <1>3, <1>4, <1>5, <1>7, <2>4
       DEF NextErr, WIFEXITED, Errno127, Errno1213, Failure, NotFound, ENOENT, EACCES
  <2>5. QED
    BY <2>2, <2>3, <2>4
<1>8. QED
  BY <1>6, <1>7

(* Two records of the same statuses give the same verdict. *)
LEMMA SameVerdict ==
  ASSUME NEW n \in Nat, n >= 2, NEW r, NEW q, \A k \in 0 .. n - 1 : r[k] = q[k]
  PROVE  Verdict(n, r) = Verdict(n, q)
<1>1. r[n - 1] = q[n - 1] /\ \A j \in 1 .. (n - 1) : r[j] = q[j]
  OBVIOUS
<1>2. QED
  BY <1>1 DEF Verdict, Partial

-----------------------------------------------------------------------------
(***************************************************************************)
(* The loop.                                                               *)
(***************************************************************************)

(* While main waits every command has been forked, or its fork has failed. *)
LEMMA WaitingForAll ==
  ASSUME CoreInv, main = "wait"
  PROVE  /\ nb_cmds \in Nat /\ nb_cmds >= 2 /\ nb_cmds <= MaxCmds /\ MaxCmds \in Nat
         /\ i \in Nat
         /\ \A k \in Cmds : k < nb_cmds => child_pids[k] \in {-1, k + 1}
         /\ \A k \in Cmds : k < nb_cmds /\ NoForkFailed => child_pids[k] = k + 1
<1>1. nb_cmds \in Nat /\ nb_cmds <= MaxCmds /\ MaxCmds \in Nat /\ i \in Nat
  BY PipexAssumption DEF CoreInv, TypeOK
<1>2. nb_cmds >= 2
  BY PipexAssumption DEF CoreInv, PhaseInv, TypeOK, BeforeParse
<1>3. \A k \in Cmds : k < nb_cmds => child_pids[k] # 0
  <2>1. Forked = nb_cmds
    BY DEF Forked, BeforeForks, BeforeParse
  <2>2. QED
    BY <1>1, <2>1 DEF CoreInv, ChildInv, Cmds
<1>4. QED
  BY <1>1, <1>2, <1>3 DEF CoreInv, ChildInv, NoForkFailed

(* One turn of the loop in ft_wait_error extends verdict and reports by one command. *)
LEMMA RecordKeeps ==
  ASSUME CoreInv, WaitInv, main = "wait", i < nb_cmds, NEW st \in Status, Record(st),
         UNCHANGED <<mode, nb_cmds, parsed, child_pids, main, status>>,
         \A k \in Cmds : cpc'[k] = cpc[k] \/ cpc'[k] = "reaped",
         child_pids[i] = i + 1 => cpc'[i] = "reaped",
         NoForkFailed => st = status[i],
         \A k \in Cmds : cpc'[k] = "reaped" /\ NoForkFailed => cpc[k] = "reaped" \/ k = i
  PROVE  WaitInv'
<1>1. /\ i' = i + 1 /\ i \in Cmds /\ i \in Nat
      /\ nb_cmds \in Nat /\ nb_cmds >= 2 /\ nb_cmds <= MaxCmds /\ MaxCmds \in Nat
  BY WaitingForAll DEF Record, Cmds
<1>2. /\ child_ret' = [child_ret EXCEPT ![i] = st] /\ child_ret \in [Cmds -> Status]
      /\ child_ret'[i] = st /\ \A k \in Cmds : k # i => child_ret'[k] = child_ret[k]
  BY <1>1 DEF CoreInv, TypeOK, Record
<1>3. NoForkFailed' <=> NoForkFailed
  BY DEF NoForkFailed
<1>4. \A k \in Cmds : k < i' <=> k < i \/ k = i
  BY <1>1 DEF Cmds
<1>5. err' = Partial(i', nb_cmds', child_ret')
  <2>1. err = Partial(i, nb_cmds, child_ret)
    BY DEF WaitInv
  <2>2. Partial(i + 1, nb_cmds, child_ret') = NextErr(i, st, nb_cmds, Partial(i, nb_cmds, child_ret))
    BY <1>1, <1>2, VerdictOfOneMore
  <2>3. err' = NextErr(i, st, nb_cmds, err) /\ nb_cmds' = nb_cmds
    BY DEF Record
  <2>4. QED
    BY <1>1, <2>1, <2>2, <2>3
<1>6. Reported(i, child_ret)'
  <2>1. ASSUME NEW k \in Cmds, k < i'
        PROVE  Reports(k, child_ret'[k], mode, IF k < parsed THEN "command" ELSE "(null)")
                 \subseteq reports'
    BY <1>2, <1>4, <2>1 DEF WaitInv, Reported, Record
  <2>2. QED
    BY <2>1 DEF Reported
<1>7. \A k \in Cmds : k < i' /\ child_pids'[k] = k + 1 => cpc'[k] = "reaped"
  BY <1>4 DEF WaitInv
<1>8. NoForkFailed' => \A k \in Cmds : k < i' => child_ret'[k] = status'[k]
  BY <1>2, <1>3, <1>4 DEF WaitInv
<1>9. \A k \in Cmds : cpc'[k] = "reaped" =>
        main' \in {"wait", "exited"} /\ (NoForkFailed' /\ main' = "wait" => k < i')
  BY <1>3, <1>4 DEF WaitInv
<1>10. QED
  BY <1>5, <1>6, <1>7, <1>8, <1>9 DEF WaitInv

(* A child that is still a process of its own takes a step. *)
LEMMA ChildMoveKeepsWaitInv ==
  ASSUME CoreInv, WaitInv, ParentIdle, NEW k \in Cmds,
         cpc[k] # "reaped", cpc'[k] # "reaped",
         \A j \in Cmds : j # k => cpc'[j] = cpc[j] /\ status'[j] = status[j]
  PROVE  WaitInv'
<1>1. UNCHANGED <<main, i, err, child_ret, child_pids, nb_cmds, mode, parsed, reports>>
  BY DEF ParentIdle, parse, waiting
<1>2. NoForkFailed' <=> NoForkFailed
  BY <1>1 DEF NoForkFailed
<1>3. Reported(i, child_ret)' <=> Reported(i, child_ret)
  BY <1>1 DEF Reported
<1>4. ASSUME main = "wait", NoForkFailed, NEW j \in Cmds, j < i
      PROVE  child_ret[j] = status'[j]
  <2>1. i <= nb_cmds
    BY <1>4 DEF CoreInv, PhaseInv
  <2>2. child_pids[j] = j + 1
    BY <1>4, <2>1, WaitingForAll DEF Cmds
  <2>3. QED
    BY <1>4, <2>2 DEF WaitInv
<1>5. \A j \in Cmds : cpc'[j] = "reaped" <=> cpc[j] = "reaped"
  OBVIOUS
<1>6. main' = "wait" =>
        /\ err' = Partial(i', nb_cmds', child_ret')
        /\ Reported(i, child_ret)'
        /\ \A j \in Cmds : j < i' /\ child_pids'[j] = j + 1 => cpc'[j] = "reaped"
        /\ NoForkFailed' => \A j \in Cmds : j < i' => child_ret'[j] = status'[j]
  BY <1>1, <1>2, <1>3, <1>4, <1>5 DEF WaitInv
<1>7. \A j \in Cmds : cpc'[j] = "reaped" =>
        main' \in {"wait", "exited"} /\ (NoForkFailed' /\ main' = "wait" => j < i')
  BY <1>1, <1>2, <1>5 DEF WaitInv
<1>8. QED
  BY <1>6, <1>7 DEF WaitInv

(* Until main waits nothing has been reaped. *)
LEMMA NothingReapedYet ==
  ASSUME WaitInv, main \notin {"wait", "exited"}, main' # "wait",
         \A k \in Cmds : cpc'[k] = "reaped" => cpc[k] = "reaped"
  PROVE  WaitInv'
BY DEF WaitInv

(* How a child step changes the arrays: only its own entries. *)
LEMMA ChildStepIsOwn ==
  ASSUME CoreInv, NEW k \in Cmds, ChildStep(k) \/ (CommandEnds(k) /\ ParentIdle)
  PROVE  /\ ParentIdle
         /\ cpc[k] \in {"forked", "exec", "run"} /\ cpc'[k] \in {"exec", "run", "zombie"}
         /\ \A j \in Cmds : j # k => cpc'[j] = cpc[j] /\ status'[j] = status[j] /\ fate'[j] = fate[j]
         /\ fate'[k] = "no_cmd" => status'[k] = NotFound \/ (fate[k] = "no_cmd" /\ status'[k] = status[k])
<1>1. ExitCode(NotFound) = NotFound
  BY DEF ExitCode, NotFound
<1>2. CASE SetUp(k) /\ ParentIdle
  BY <1>2
     DEF SetUp, FirstChild, MiddleChild, LastChild, ToExec, FailToOpen, ChildCleanupExit,
         ChildEnds, CoreInv, TypeOK
<1>3. CASE SearchAndExec(k) /\ ParentIdle
  BY <1>1, <1>3
     DEF SearchAndExec, ChildCleanupExit, ChildEnds, CoreInv, TypeOK
<1>4. CASE CommandEnds(k) /\ ParentIdle
  BY <1>4 DEF CommandEnds, ChildEnds, CoreInv, TypeOK
<1>5. QED
  BY <1>2, <1>3, <1>4 DEF ChildStep

(* Every step keeps WaitInv. *)
LEMMA WaitStep ==
  ASSUME CoreInv, WaitInv, [Next]_vars
  PROVE  WaitInv'
<1>1. CASE OpenPipe(0) \/ OpenPipe(1) \/ ValidateArgs \/ ParseCmds \/ GrabEnvp \/ HereDocInp
           \/ RenewPipe
  BY <1>1, NothingReapedYet
     DEF OpenPipe, CreatePipe, ValidateArgs, ParseCmds, GrabEnvp, HereDocInp, RenewPipe,
         MainCleanupExit, MainExit, ParentOnly, children
<1>2. CASE ForkFirstChild \/ Malcolm \/ ForkLastChild
  <2>1. main \notin {"wait", "exited"} /\ main' # "wait"
    BY <1>2 DEF ForkFirstChild, Malcolm, ForkLastChild, MainCleanupExit, MainExit
  <2>2. ASSUME NEW n, ForkChild(n) \/ ForkFails(n) \/ UNCHANGED children
        PROVE  \A k \in Cmds : cpc'[k] = "reaped" => cpc[k] = "reaped"
    BY <2>2 DEF ForkChild, ForkFails, children, CoreInv, TypeOK
  <2>3. \A k \in Cmds : cpc'[k] = "reaped" => cpc[k] = "reaped"
    BY <1>2, <2>2 DEF ForkFirstChild, Malcolm, ForkLastChild
  <2>4. QED
    BY <2>1, <2>3, NothingReapedYet
<1>3. CASE CloseInParent
  <2>1. /\ main = "close" /\ main' = "wait" /\ i' = 0 /\ err' = 0 /\ cpc' = cpc
        /\ nb_cmds' = nb_cmds /\ nb_cmds \in Nat /\ nb_cmds >= 2
    BY <1>3, PipexAssumption
       DEF CloseInParent, children, parse, CoreInv, PhaseInv, TypeOK, BeforeParse
  <2>2. Partial(0, nb_cmds, child_ret') = 0
    BY <2>1 DEF Partial
  <2>3. \A k \in Cmds : ~(k < 0)
    BY DEF Cmds
  <2>4. Reported(i, child_ret)'
    BY <2>1, <2>3 DEF Reported
  <2>5. \A k \in Cmds : cpc'[k] # "reaped"
    BY <2>1 DEF WaitInv
  <2>6. QED
    BY <2>1, <2>2, <2>3, <2>4, <2>5 DEF WaitInv
<1>4. ASSUME NEW k \in Cmds, WaitChild(k) PROVE WaitInv'
  <2>1. /\ main = "wait" /\ i < nb_cmds /\ child_pids[i] \in {k + 1, -1}
        /\ cpc' = [cpc EXCEPT ![k] = "reaped"] /\ Record(status[k]) /\ status[k] \in Status
        /\ UNCHANGED <<mode, nb_cmds, parsed, child_pids, main, status>>
    BY <1>4 DEF WaitChild, parse, CoreInv, TypeOK
  <2>2. i \in Cmds /\ i \in Nat /\ k \in Nat
    BY <2>1, WaitingForAll DEF Cmds
  <2>3. child_pids[i] = i + 1 => k = i
    BY <2>1, <2>2
  <2>4. NoForkFailed => k = i
    BY <2>1, <2>2, <2>3, WaitingForAll
  <2>5. \A j \in Cmds : cpc'[j] = IF j = k THEN "reaped" ELSE cpc[j]
    BY <2>1 DEF CoreInv, TypeOK
  <2>6. QED
    BY <2>1, <2>2, <2>3, <2>4, <2>5, RecordKeeps
<1>5. CASE WaitNobody
  <2>1. /\ main = "wait" /\ i < nb_cmds /\ NoSuchChild(child_pids[i])
        /\ cpc' = cpc /\ Record(0) /\ 0 \in Status
        /\ UNCHANGED <<mode, nb_cmds, parsed, child_pids, main, status>>
    BY <1>5 DEF WaitNobody, parse, children, Status, Code
  <2>2. i \in Cmds /\ i \in Nat
    BY <2>1, WaitingForAll DEF Cmds
  <2>3. child_pids[i] = i + 1 => cpc[i] = "reaped"
    BY <2>1, <2>2 DEF NoSuchChild, CoreInv, ChildInv
  <2>4. ~NoForkFailed
    <3>1. NoForkFailed => cpc[i] = "reaped"
      BY <2>1, <2>2, <2>3, WaitingForAll
    <3>2. QED
      BY <2>1, <2>2, <3>1 DEF WaitInv
  <2>5. QED
    BY <2>1, <2>3, <2>4, RecordKeeps
<1>6. CASE Finish
  <2>1. main = "wait" /\ main' = "exited" /\ cpc' = cpc
    BY <1>6 DEF Finish, MainCleanupExit, MainExit, children
  <2>2. QED
    BY <2>1 DEF WaitInv
<1>7. ASSUME NEW k \in Cmds, ChildStep(k) \/ (CommandEnds(k) /\ ParentIdle) PROVE WaitInv'
  BY <1>7, ChildStepIsOwn, ChildMoveKeepsWaitInv
<1>8. CASE UNCHANGED vars
  BY <1>8 DEF vars, parse, children, waiting, WaitInv, Reported, NoForkFailed
<1>9. QED
  BY <1>1, <1>2, <1>3, <1>4, <1>5, <1>6, <1>7, <1>8 DEF Next, MainStep, AllDone

(* Every step keeps FateInv. *)
LEMMA FateStep ==
  ASSUME CoreInv, FateInv, [Next]_vars
  PROVE  FateInv'
<1>1. CASE UNCHANGED <<status, fate>>
  BY <1>1 DEF FateInv
<1>2. ASSUME NEW k \in Cmds, ChildStep(k) \/ (CommandEnds(k) /\ ParentIdle) PROVE FateInv'
  BY <1>2, ChildStepIsOwn DEF FateInv
<1>3. QED
  BY <1>1, <1>2
     DEF Next, MainStep, AllDone, vars, children, OpenPipe, ValidateArgs, ParseCmds, GrabEnvp,
         HereDocInp, ForkFirstChild, Malcolm, ForkLastChild, ForkChild, ForkFails, RenewPipe,
         CloseInParent, WaitChild, WaitNobody, Finish, ParentOnly

-----------------------------------------------------------------------------
(***************************************************************************)
(* The end.                                                                *)
(***************************************************************************)

(* main leaves before it has forked anything, or having failed to. *)
LEMMA EarlyExit ==
  ASSUME CoreInv, main \in BeforeForks, main' = "exited", cpc' = cpc,
         nb_cmds' \in 0 .. MaxCmds,
         child_pids' = child_pids \/ (\E k \in Cmds : ForkFails(k))
  PROVE  EndInv'
<1>1. \A k \in Cmds : child_pids[k] = 0 /\ cpc[k] = "none"
  BY DEF CoreInv, ChildInv, Forked, Cmds, BeforeForks, BeforeParse
<1>2. NoOrphans'
  BY <1>1 DEF NoOrphans
<1>3. CASE child_pids' = child_pids
  <2>1. ~Waited'
    BY <1>1, <1>3, PipexAssumption DEF Waited, Cmds
  <2>2. QED
    BY <1>2, <2>1 DEF EndInv
<1>4. CASE \E k \in Cmds : ForkFails(k)
  <2>1. ~NoForkFailed'
    BY <1>4 DEF ForkFails, NoForkFailed, CoreInv, TypeOK
  <2>2. QED
    BY <1>2, <2>1 DEF EndInv
<1>5. QED
  BY <1>3, <1>4

(* Leaving ft_wait_error establishes EndInv. *)
LEMMA FinishEnds ==
  ASSUME CoreInv, WaitInv, Finish
  PROVE  EndInv'
<1>1. /\ main = "wait" /\ i = nb_cmds /\ main' = "exited" /\ code' = ExitCode(err)
      /\ UNCHANGED <<cpc, status, nb_cmds, child_pids, mode, parsed, reports>>
  BY DEF Finish, MainCleanupExit, MainExit, children, parse, waiting
<1>2. nb_cmds \in Nat /\ nb_cmds >= 2 /\ nb_cmds <= MaxCmds /\ MaxCmds \in Nat
  BY <1>1, WaitingForAll
<1>3. NoOrphans'
  <2>1. ASSUME NEW k \in Cmds, cpc[k] # "none" PROVE cpc[k] = "reaped"
    <3>1. child_pids[k] = k + 1 /\ k < nb_cmds
      BY <2>1 DEF CoreInv, ChildInv, Cmds
    <3>2. QED
      BY <1>1, <3>1 DEF WaitInv
  <2>2. QED
    BY <1>1, <2>1 DEF NoOrphans
<1>4. ASSUME NoForkFailed
      PROVE  code' = Verdict(nb_cmds, status) /\ Reported(nb_cmds, status)
  <2>1. \A k \in Cmds : k < nb_cmds => child_ret[k] = status[k]
    BY <1>1, <1>4 DEF WaitInv
  <2>2. \A k \in 0 .. nb_cmds - 1 : child_ret[k] = status[k]
    BY <1>2, <2>1 DEF Cmds
  <2>3. err = Verdict(nb_cmds, status)
    <3>1. err = Verdict(nb_cmds, child_ret)
      BY <1>1 DEF WaitInv, Verdict
    <3>2. QED
      BY <1>2, <2>2, <3>1, SameVerdict
  <2>4. ExitCode(err) = err
    <3>1. err \in 0 .. 255
      BY DEF CoreInv, TypeOK, Code
    <3>2. QED
      BY <3>1 DEF ExitCode
  <2>5. Reported(nb_cmds, status)
    BY <1>1, <2>1 DEF WaitInv, Reported
  <2>6. QED
    BY <1>1, <2>3, <2>4, <2>5
<1>5. NoForkFailed' => NoForkFailed
  BY <1>1 DEF NoForkFailed
<1>6. Reported(nb_cmds, status)' <=> Reported(nb_cmds, status)
  BY <1>1 DEF Reported
<1>7. QED
  BY <1>1, <1>3, <1>4, <1>5, <1>6 DEF EndInv

(* Every step keeps EndInv. *)
LEMMA EndStep ==
  ASSUME CoreInv, WaitInv, EndInv, [Next]_vars
  PROVE  EndInv'
<1>1. CASE OpenPipe(0) \/ OpenPipe(1) \/ ValidateArgs \/ ParseCmds \/ GrabEnvp \/ HereDocInp
  <2>1. main \in BeforeForks /\ cpc' = cpc /\ child_pids' = child_pids
    BY <1>1
       DEF OpenPipe, ValidateArgs, ParseCmds, GrabEnvp, HereDocInp, ParentOnly, children,
           BeforeForks, BeforeParse
  <2>2. nb_cmds' \in 0 .. MaxCmds
    BY CoreStep DEF CoreInv, TypeOK
  <2>3. CASE main' = "exited"
    BY <2>1, <2>2, <2>3, EarlyExit
  <2>4. CASE main' # "exited"
    BY <2>4 DEF EndInv, NoOrphans, Waited
  <2>5. QED
    BY <2>3, <2>4
<1>2. CASE ForkFirstChild
  <2>1. CASE main' = "exited"
    <3>1. ForkFails(0) /\ 0 \in Cmds
      BY <1>2, <2>1, PipexAssumption DEF ForkFirstChild, Cmds
    <3>2. cpc' = cpc /\ main \in BeforeForks /\ nb_cmds' \in 0 .. MaxCmds
      BY <1>2, <3>1
         DEF ForkFirstChild, ForkFails, children, parse, BeforeForks, BeforeParse, CoreInv, TypeOK
    <3>3. QED
      BY <2>1, <3>1, <3>2, EarlyExit
  <2>2. CASE main' # "exited"
    BY <2>2 DEF EndInv, NoOrphans, Waited
  <2>3. QED
    BY <2>1, <2>2
<1>3. CASE Malcolm \/ RenewPipe \/ ForkLastChild \/ CloseInParent \/ WaitNobody
           \/ \E k \in Cmds : WaitChild(k)
  <2>1. main' # "exited"
    BY <1>3
       DEF Malcolm, RenewPipe, CreatePipe, ForkLastChild, CloseInParent, WaitNobody, WaitChild
  <2>2. QED
    BY <2>1 DEF EndInv, NoOrphans, Waited
<1>4. CASE Finish
  BY <1>4, FinishEnds
<1>5. ASSUME NEW k \in Cmds, ChildStep(k) \/ (CommandEnds(k) /\ ParentIdle) PROVE EndInv'
  <2>1. main' = main /\ cpc[k] \in {"forked", "exec", "run"}
    BY <1>5, ChildStepIsOwn DEF ParentIdle
  <2>2. main # "exited"
    BY <2>1 DEF EndInv, NoOrphans
  <2>3. QED
    BY <2>1, <2>2 DEF EndInv, NoOrphans, Waited
<1>6. CASE UNCHANGED vars
  BY <1>6
     DEF vars, children, parse, waiting, EndInv, NoOrphans, Waited, NoForkFailed, Reported
<1>7. QED
  BY <1>1, <1>2, <1>3, <1>4, <1>5, <1>6 DEF Next, MainStep, AllDone

(* AnswerInv holds at the start. *)
LEMMA AnswerInvInit == Init => AnswerInv
<1> SUFFICES ASSUME Init PROVE AnswerInv
  OBVIOUS
<1>1. CoreInv
  BY CoreInit
<1>2. WaitInv /\ FateInv
  BY DEF Init, WaitInv, FateInv
<1>3. EndInv
  BY DEF Init, EndInv, NoOrphans, Waited
<1>4. QED
  BY <1>1, <1>2, <1>3 DEF AnswerInv

(* Every step keeps AnswerInv. *)
LEMMA AnswerInvStep == AnswerInv /\ [Next]_vars => AnswerInv'
BY CoreStep, WaitStep, FateStep, EndStep DEF AnswerInv

(* AnswerInv holds throughout every run of pipex. *)
LEMMA AnswerInvariance == Spec => []AnswerInv
BY AnswerInvInit, AnswerInvStep, PTL DEF Spec

(***************************************************************************)
(* ft_wait_error leaves no child behind, and no other exit of the parent   *)
(* does, even when forks fail.                                             *)
(***************************************************************************)
THEOREM NoOrphansCorrect == Spec => []NoOrphans
<1>1. AnswerInv => NoOrphans
  BY DEF AnswerInv, EndInv
<1>2. QED
  BY AnswerInvariance, <1>1, PTL

(***************************************************************************)
(* The exit status is the verdict on the statuses of the commands.         *)
(***************************************************************************)
THEOREM ExitTruthCorrect == Spec => []ExitTruth
<1>1. AnswerInv => ExitTruth
  BY DEF AnswerInv, EndInv, ExitTruth
<1>2. QED
  BY AnswerInvariance, <1>1, PTL

(***************************************************************************)
(* What ft_errno_127 and ft_errno_1_2_13 have to report they report, for   *)
(* the command it is about.                                                *)
(***************************************************************************)
THEOREM ReportTruthCorrect == Spec => []ReportTruth
<1>1. AnswerInv => ReportTruth
  <2> SUFFICES ASSUME AnswerInv, Waited, NoForkFailed, NEW k \in 0 .. nb_cmds - 1
               PROVE  /\ fate[k] = "no_cmd"
                           => <<k, IF k < parsed THEN "command" ELSE "(null)">> \in reports
                      /\ fate[k] = "no_file" /\ status[k] \in {ENOENT, EACCES} /\ mode = "regular"
                           => <<k, IF k = 0 THEN "infile" ELSE "outfile">> \in reports
    BY DEF ReportTruth
  <2>1. k \in Cmds /\ k < nb_cmds
    BY PipexAssumption DEF AnswerInv, CoreInv, TypeOK, Cmds
  <2>2. Reports(k, status[k], mode, IF k < parsed THEN "command" ELSE "(null)") \subseteq reports
    BY <2>1 DEF AnswerInv, EndInv, Reported
  <2>3. fate[k] = "no_cmd" => status[k] = NotFound
    BY <2>1 DEF AnswerInv, FateInv
  <2>4. NotFound \notin {ENOENT, EACCES}
    BY DEF NotFound, ENOENT, EACCES
  <2>5. QED
    BY <2>2, <2>3, <2>4 DEF Reports, BlamedFile
<1>2. QED
  BY AnswerInvariance, <1>1, PTL

(***************************************************************************)
(* Once ft_wait_error has seen a failure it never goes back to 0, although *)
(* ft_errno_1_2_13 has a branch that sets err to 0.                        *)
(***************************************************************************)
THEOREM VerdictSticksCorrect == Spec => VerdictSticks
<1>1. ASSUME AnswerInv, [Next]_vars, main = "wait", err # 0 PROVE err' # 0
  <2>1. CASE err' = err
    BY <1>1, <2>1
  <2>2. ASSUME NEW st, Record(st), i < nb_cmds PROVE err' # 0
    <3>1. i # 0
      <4>1. Partial(0, nb_cmds, child_ret) = 0
        BY <1>1, WaitingForAll DEF Partial, AnswerInv
      <4>2. QED
        BY <1>1, <4>1 DEF AnswerInv, WaitInv
    <3>2. err' = NextErr(i, st, nb_cmds, err)
      BY <2>2 DEF Record
    <3>3. QED
      BY <1>1, <3>1, <3>2 DEF NextErr, Errno127, Errno1213, NotFound
  <2>3. ASSUME NEW k \in Cmds, ChildStep(k) \/ (CommandEnds(k) /\ ParentIdle) PROVE err' = err
    BY <1>1, <2>3, ChildStepIsOwn DEF AnswerInv, ParentIdle, waiting
  <2>4. CASE Finish \/ UNCHANGED vars
    BY <2>1, <2>4 DEF Finish, vars, waiting
  <2>5. CASE WaitNobody \/ \E k \in Cmds : WaitChild(k)
    BY <2>2, <2>5 DEF WaitNobody, WaitChild
  <2>6. CASE OpenPipe(0) \/ OpenPipe(1) \/ ValidateArgs \/ ParseCmds \/ GrabEnvp \/ HereDocInp
             \/ ForkFirstChild \/ Malcolm \/ RenewPipe \/ ForkLastChild \/ CloseInParent
    BY <1>1, <2>6
       DEF OpenPipe, ValidateArgs, ParseCmds, GrabEnvp, HereDocInp, ForkFirstChild, Malcolm,
           RenewPipe, ForkLastChild, CloseInParent
  <2>7. QED
    BY <1>1, <2>1, <2>3, <2>4, <2>5, <2>6 DEF Next, MainStep, AllDone
<1>2. AnswerInv /\ [Next]_vars => [main = "wait" /\ err # 0 => err' # 0]_vars
  BY <1>1
<1>3. QED
  BY AnswerInvariance, <1>2, PTL DEF Spec, VerdictSticks

-----------------------------------------------------------------------------
(***************************************************************************)
(* When pipex has left by itself in here_doc mode TEMP_FILE is gone:       *)
(* every exit after ft_validate_args goes through ft_cleanup_exit.         *)
(***************************************************************************)
THEOREM TempGoneCorrect == Spec => []TempGone
<1> DEFINE Inv == CoreInv /\ TempGone
<1>1. Init => Inv
  BY CoreInit DEF Init, TempGone
<1>2. ASSUME Inv, [Next]_vars PROVE TempGone'
  <2> USE DEF TempGone
  <2>1. CASE OpenPipe(0) \/ OpenPipe(1) \/ ValidateArgs
    BY <1>2, <2>1
       DEF OpenPipe, CreatePipe, MainExit, ValidateArgs, parse, CoreInv, PhaseInv
  <2>2. CASE ParseCmds \/ GrabEnvp \/ HereDocInp \/ ForkFirstChild \/ Finish
    BY <2>2
       DEF ParseCmds, GrabEnvp, HereDocInp, ForkFirstChild, Finish, MainCleanupExit, MainExit,
           Unlinked, parse
  <2>3. CASE Malcolm \/ RenewPipe \/ ForkLastChild \/ CloseInParent \/ WaitNobody
             \/ \E k \in Cmds : WaitChild(k)
    BY <2>3
       DEF Malcolm, RenewPipe, CreatePipe, ForkLastChild, CloseInParent, WaitNobody, WaitChild
  <2>4. ASSUME NEW k \in Cmds, ChildStep(k) \/ (CommandEnds(k) /\ ParentIdle) PROVE TempGone'
    BY <1>2, <2>4, ChildAndTemp DEF ParentIdle, parse, Unlinked
  <2>5. CASE UNCHANGED vars
    BY <1>2, <2>5 DEF vars, parse
  <2>6. QED
    BY <1>2, <2>1, <2>2, <2>3, <2>4, <2>5 DEF Next, MainStep, AllDone
<1>3. Inv /\ [Next]_vars => Inv'
  BY <1>2, CoreStep
<1>4. QED
  BY <1>1, <1>3, PTL DEF Spec

-----------------------------------------------------------------------------
(***************************************************************************)
(* Every step of pipex is a step of PipelineContract, or none that a user  *)
(* can see.                                                                *)
(***************************************************************************)
(* What the refinement mapping shows of the children and of the answer. *)
Phases  == [k \in Cmds |-> PhaseOf(k)]
Answer  == IF main = "exited" THEN code ELSE -1
Visible == <<nb_cmds, Phases, status, Answer>>

-----------------------------------------------------------------------------
(***************************************************************************)
(* The actions of the contract in the terms of the refinement mapping.     *)
(***************************************************************************)
LEMMA SameSets ==
  /\ Abstract!Cmds = Cmds /\ Abstract!Status = Status /\ Abstract!Undecided = -1
  /\ Abstract!NotFound = NotFound
  /\ \A n, ret : Abstract!Verdict(n, ret) = Verdict(n, ret)
BY DEF Abstract!Cmds, Cmds, Abstract!Status, Status, Abstract!Code, Code, Abstract!Killed, Killed,
       Abstract!Undecided, Abstract!NotFound, NotFound, Abstract!Verdict, Verdict,
       Abstract!Partial, Partial, Abstract!Failure, Failure, Abstract!ENOENT, ENOENT,
       Abstract!EACCES, EACCES

LEMMA StutterMaps ==
  ASSUME UNCHANGED <<nb_cmds, status>>, Phases' = Phases, Answer' = Answer
  PROVE  UNCHANGED Abstract!vars
BY DEF Abstract!vars, Phases, Answer

LEMMA RefuseMaps ==
  ASSUME main # "exited", main' = "exited", \A k \in Cmds : Phases[k] = "idle",
         code' \in Status, nb_cmds' \in 0 .. MaxCmds, nb_cmds # 0 => nb_cmds' = nb_cmds,
         Phases' \in {Phases, [Phases EXCEPT ![0] = "skipped"]}, status' = status
  PROVE  Abstract!Refuse
BY SameSets DEF Abstract!Refuse, Phases, Answer

LEMMA StartMaps ==
  ASSUME main # "exited", main' # "exited", NEW k \in Cmds, k < nb_cmds, Phases[k] = "idle",
         \A j \in 0 .. k - 1 : Phases[j] # "idle",
         \E p \in {"live", "skipped"} : Phases' = [Phases EXCEPT ![k] = p],
         UNCHANGED <<nb_cmds, status>>
  PROVE  Abstract!Start(k)
BY SameSets DEF Abstract!Start, Phases, Answer

(* A command starts when its fork succeeds, or is skipped when it does not. *)
LEMMA ForkMaps ==
  ASSUME CoreInv, NEW k \in Cmds, ForkChild(k) \/ ForkFails(k), child_pids[k] = 0
  PROVE  /\ Phases[k] = "idle"
         /\ ForkFails(k) => Phases' = [Phases EXCEPT ![k] = "skipped"]
         /\ \E p \in {"live", "skipped"} : Phases' = [Phases EXCEPT ![k] = p]
         /\ status' = status
<1>1. cpc[k] = "none" /\ cpc \in [Cmds -> ChildStates] /\ child_pids \in [Cmds -> Int]
  BY DEF CoreInv, ChildInv, TypeOK, Cmds
<1>2. Phases[k] = "idle"
  BY <1>1 DEF Phases, PhaseOf
<1>3. CASE ForkChild(k)
  <2>1. k \in Nat /\ k + 1 # -1
    BY DEF Cmds
  <2>2. \A j \in Cmds : PhaseOf(j)' = IF j = k THEN "live" ELSE PhaseOf(j)
    BY <1>1, <1>3, <2>1 DEF ForkChild, PhaseOf
  <2>3. Phases' = [Phases EXCEPT ![k] = "live"]
    BY <2>2 DEF Phases
  <2>4. ~ForkFails(k)
    BY <1>1, <1>3, <2>1 DEF ForkChild, ForkFails
  <2>5. QED
    BY <1>2, <1>3, <2>3, <2>4 DEF ForkChild
<1>4. CASE ForkFails(k)
  <2>1. \A j \in Cmds : PhaseOf(j)' = IF j = k THEN "skipped" ELSE PhaseOf(j)
    BY <1>1, <1>4 DEF ForkFails, PhaseOf, children
  <2>2. Phases' = [Phases EXCEPT ![k] = "skipped"]
    BY <2>1 DEF Phases
  <2>3. QED
    BY <1>2, <1>4, <2>2 DEF ForkFails, children
<1>5. QED
  BY <1>3, <1>4

(* The commands below Forked are no longer idle, the others still are. *)
LEMMA IdleOnes ==
  ASSUME CoreInv, main # "exited", NEW k \in Cmds
  PROVE  Phases[k] = "idle" <=> k >= Forked
<1>1. child_pids[k] \in {-1, 0, k + 1} /\ k \in Nat
  BY DEF CoreInv, ChildInv, Cmds
<1>2. cpc[k] \in ChildStates
  BY DEF CoreInv, TypeOK
<1>3. child_pids[k] = 0 <=> k >= Forked
  BY DEF CoreInv, ChildInv
<1>4. cpc[k] = "none" <=> child_pids[k] # k + 1
  BY DEF CoreInv, ChildInv
<1>5. QED
  BY <1>1, <1>2, <1>3, <1>4 DEF Phases, PhaseOf, ChildStates

(* A step that changes neither the children nor their pids changes no phase. *)
LEMMA SamePhases ==
  ASSUME UNCHANGED <<cpc, child_pids>>
  PROVE  Phases' = Phases
BY DEF Phases, PhaseOf

-----------------------------------------------------------------------------
(***************************************************************************)
(* The steps of pipex, one by one.                                         *)
(***************************************************************************)

(* Before the first fork pipex refuses, accepts, or does what nobody sees. *)
LEMMA SetUpMaps ==
  ASSUME CoreInv, CoreInv',
         OpenPipe(0) \/ OpenPipe(1) \/ ValidateArgs \/ ParseCmds \/ GrabEnvp \/ HereDocInp
  PROVE  [Abstract!Next]_(Abstract!vars)
<1>1. main \in BeforeForks /\ UNCHANGED <<cpc, child_pids, status>>
  BY DEF OpenPipe, ValidateArgs, ParseCmds, GrabEnvp, HereDocInp, ParentOnly, children,
         BeforeForks, BeforeParse
<1>2. Phases' = Phases /\ status' = status
  BY <1>1, SamePhases
<1>3. \A k \in Cmds : Phases[k] = "idle"
  BY <1>1, IdleOnes DEF Forked, BeforeForks, BeforeParse, Cmds
<1>4. main # "exited" /\ code' \in Status /\ nb_cmds' \in 0 .. MaxCmds
  BY <1>1 DEF BeforeForks, BeforeParse, CoreInv, TypeOK
<1>5. nb_cmds # 0 => nb_cmds' = nb_cmds
  BY DEF OpenPipe, ValidateArgs, ParseCmds, GrabEnvp, HereDocInp, parse, CoreInv, PhaseInv,
         BeforeParse
<1>6. CASE main' = "exited"
  BY <1>2, <1>3, <1>4, <1>5, <1>6, RefuseMaps DEF Abstract!Next
<1>7. CASE main' # "exited" /\ ParseCmds
  <2>1. nb_cmds = 0
    BY <1>7 DEF ParseCmds, CoreInv, PhaseInv, BeforeParse
  <2>2. main' = "envp"
    BY <1>7 DEF ParseCmds, MainCleanupExit, MainExit
  <2>3. nb_cmds' >= 2
    <3>1. argc' \in Nat /\ argc' >= 5 /\ (mode' = "here_doc" => argc' = 6)
      BY <2>2, PipexAssumption DEF CoreInv, TypeOK, PhaseInv
    <3>2. nb_cmds' = argc' - 3 \/ (nb_cmds' = argc' - 4 /\ mode' = "here_doc")
      BY <2>2, <3>1 DEF CoreInv, PhaseInv, BeforeParse
    <3>3. QED
      BY <3>1, <3>2
  <2>4. Answer = -1 /\ Answer' = Answer
    BY <1>4, <1>7 DEF Answer
  <2>5. Abstract!Accept
    BY <1>2, <1>4, <2>1, <2>3, <2>4, PipexAssumption, SameSets DEF Abstract!Accept, Phases, Answer
  <2>6. QED
    BY <2>5 DEF Abstract!Next
<1>8. CASE main' # "exited" /\ ~ParseCmds
  <2>1. nb_cmds' = nb_cmds
    BY <1>8 DEF OpenPipe, ValidateArgs, GrabEnvp, HereDocInp, parse
  <2>2. Answer' = Answer
    BY <1>4, <1>8 DEF Answer
  <2>3. QED
    BY <1>2, <2>1, <2>2, StutterMaps
<1>9. QED
  BY <1>6, <1>7, <1>8

(* A fork starts the next command in order; without the first one pipex refuses. *)
LEMMA ForkingMaps ==
  ASSUME CoreInv, CoreInv', ForkFirstChild \/ Malcolm \/ ForkLastChild
  PROVE  [Abstract!Next]_(Abstract!vars)
<1>1. /\ main \in {"fork_first", "malcolm", "fork_last"}
      /\ nb_cmds \in Nat /\ nb_cmds <= MaxCmds /\ nb_cmds >= 2 /\ i \in Nat /\ MaxCmds \in Nat
      /\ UNCHANGED nb_cmds
  BY PipexAssumption
     DEF ForkFirstChild, Malcolm, ForkLastChild, parse, CoreInv, TypeOK, PhaseInv, BeforeParse
<1>2. ASSUME NEW k \in Cmds, ForkChild(k) \/ ForkFails(k), k = Forked, k < nb_cmds,
             main' # "exited"
      PROVE  Abstract!Start(k)
  <2>1. child_pids[k] = 0
    BY <1>1, <1>2 DEF CoreInv, ChildInv, Cmds
  <2>2. \A j \in 0 .. k - 1 : Phases[j] # "idle"
    BY <1>1, <1>2, IdleOnes DEF Cmds
  <2>3. QED
    BY <1>1, <1>2, <2>1, <2>2, ForkMaps, StartMaps
<1>3. CASE ForkFirstChild
  <2>1. Forked = 0 /\ 0 \in Cmds
    BY <1>1, <1>3 DEF ForkFirstChild, Forked, BeforeForks, Cmds
  <2>2. CASE main' # "exited"
    <3>1. ForkChild(0) \/ ForkFails(0)
      BY <1>3 DEF ForkFirstChild
    <3>2. QED
      BY <1>1, <1>2, <2>1, <2>2, <3>1, SameSets DEF Abstract!Next
  <2>3. CASE main' = "exited"
    <3>1. ForkFails(0)
      BY <1>3, <2>3 DEF ForkFirstChild
    <3>2. child_pids[0] = 0
      BY <1>1, <2>1 DEF CoreInv, ChildInv, Cmds
    <3>3. Phases' = [Phases EXCEPT ![0] = "skipped"] /\ status' = status
      BY <2>1, <3>1, <3>2, ForkMaps
    <3>4. \A k \in Cmds : Phases[k] = "idle"
      BY <1>1, <2>1, IdleOnes DEF Cmds
    <3>5. code' \in Status /\ nb_cmds' \in 0 .. MaxCmds
      BY DEF CoreInv, TypeOK
    <3>6. QED
      BY <1>1, <2>3, <3>3, <3>4, <3>5, RefuseMaps DEF Abstract!Next
  <2>4. QED
    BY <2>2, <2>3
<1>4. CASE Malcolm
  <2>1. main' # "exited" /\ Forked = i + 1
    BY <1>4 DEF Malcolm, Forked, BeforeForks, BeforeParse
  <2>2. CASE i + 1 < nb_cmds - 1 /\ (ForkChild(i + 1) \/ ForkFails(i + 1))
    <3>1. i + 1 \in Cmds /\ i + 1 < nb_cmds
      BY <1>1, <2>2 DEF Cmds
    <3>2. QED
      BY <1>2, <2>1, <2>2, <3>1, SameSets DEF Abstract!Next
  <2>3. CASE UNCHANGED <<child_pids, children>>
    <3>1. Phases' = Phases /\ status' = status /\ Answer' = Answer
      BY <1>1, <2>1, <2>3, SamePhases DEF children, Answer
    <3>2. QED
      BY <1>1, <3>1, StutterMaps
  <2>4. QED
    BY <1>4, <2>2, <2>3 DEF Malcolm
<1>5. CASE ForkLastChild
  <2>1. main' # "exited" /\ Forked = i /\ i \in Cmds /\ i < nb_cmds
    BY <1>1, <1>5 DEF ForkLastChild, Forked, BeforeForks, BeforeParse, Cmds, CoreInv, PhaseInv
  <2>2. ForkChild(i) \/ ForkFails(i)
    BY <1>5 DEF ForkLastChild
  <2>3. QED
    BY <1>2, <2>1, <2>2, SameSets DEF Abstract!Next
<1>6. QED
  BY <1>3, <1>4, <1>5

(* A child that ends on its way to execve, or as a command, ends with a status. *)
LEMMA ChildMaps ==
  ASSUME CoreInv, CoreInv', NEW k \in Cmds, ChildStep(k) \/ (CommandEnds(k) /\ ParentIdle)
  PROVE  [Abstract!Next]_(Abstract!vars)
<1>1. /\ UNCHANGED <<main, code, nb_cmds, child_pids>>
      /\ cpc[k] \in {"forked", "exec", "run"} /\ cpc'[k] \in {"exec", "run", "zombie"}
      /\ \A j \in Cmds : j # k => cpc'[j] = cpc[j] /\ status'[j] = status[j]
  BY ChildStepIsOwn DEF ParentIdle, parse
<1>2. child_pids[k] # -1
  BY <1>1 DEF CoreInv, ChildInv, Cmds
<1>3. Answer' = Answer
  BY <1>1 DEF Answer
<1>4. status \in [Cmds -> Status] /\ status' \in [Cmds -> Status]
  BY DEF CoreInv, TypeOK
<1>5. CASE cpc'[k] = "zombie"
  <2>1. \A j \in Cmds : PhaseOf(j)' = IF j = k THEN "ended" ELSE PhaseOf(j)
    BY <1>1, <1>2, <1>5 DEF PhaseOf
  <2>2. Phases[k] = "live" /\ Phases' = [Phases EXCEPT ![k] = "ended"]
    BY <1>1, <1>2, <2>1 DEF Phases, PhaseOf
  <2>3. status' = [status EXCEPT ![k] = status'[k]]
    BY <1>1, <1>4
  <2>4. \E st \in Status : status' = [status EXCEPT ![k] = st]
    BY <1>4, <2>3
  <2>5. Abstract!End(k)
    BY <1>1, <1>3, <2>2, <2>4, SameSets DEF Abstract!End, Phases, Answer
  <2>6. QED
    BY <2>5, SameSets DEF Abstract!Next
<1>6. CASE cpc'[k] # "zombie"
  <2>1. \A j \in Cmds : PhaseOf(j)' = PhaseOf(j)
    BY <1>1, <1>2, <1>6 DEF PhaseOf
  <2>2. Phases' = Phases
    BY <2>1 DEF Phases
  <2>3. status' = status
    <3>1. status'[k] = status[k]
      BY <1>1, <1>6
         DEF ChildStep, SetUp, FirstChild, MiddleChild, LastChild, SearchAndExec, CommandEnds,
             ToExec, FailToOpen, ChildCleanupExit, ChildEnds, CoreInv, TypeOK
    <3>2. QED
      BY <1>1, <1>4, <3>1
  <2>4. QED
    BY <1>1, <1>3, <2>2, <2>3, StutterMaps
<1>7. QED
  BY <1>5, <1>6

(* Waiting for a child that has ended is nothing a user sees. *)
LEMMA WaitMaps ==
  ASSUME CoreInv, WaitNobody \/ \E k \in Cmds : WaitChild(k)
  PROVE  UNCHANGED Abstract!vars
<1>1. UNCHANGED <<nb_cmds, status, main, code, child_pids>>
  BY DEF WaitNobody, WaitChild, parse, children
<1>2. cpc' = cpc \/ \E k \in Cmds : cpc[k] = "zombie" /\ cpc' = [cpc EXCEPT ![k] = "reaped"]
  BY DEF WaitNobody, WaitChild, children
<1>3. \A j \in Cmds : PhaseOf(j)' = PhaseOf(j)
  BY <1>1, <1>2 DEF PhaseOf, CoreInv, TypeOK
<1>4. Phases' = Phases /\ Answer' = Answer
  BY <1>1, <1>3 DEF Phases, Answer
<1>5. QED
  BY <1>1, <1>4, StutterMaps

(* Leaving ft_wait_error is the one answer pipex gives once a command was started. *)
LEMMA FinishMaps ==
  ASSUME AnswerInv, Finish
  PROVE  Abstract!Decide
<1>1. /\ main = "wait" /\ main' = "exited" /\ code' = ExitCode(err) /\ i = nb_cmds
      /\ UNCHANGED <<cpc, status, nb_cmds, child_pids>>
  BY DEF Finish, MainCleanupExit, MainExit, children, parse
<1>2. nb_cmds \in Nat /\ nb_cmds >= 2 /\ nb_cmds <= MaxCmds /\ MaxCmds \in Nat
  BY <1>1, WaitingForAll DEF AnswerInv
<1>3. EndInv'
  BY FinishEnds DEF AnswerInv
<1>4. \A k \in 0 .. nb_cmds - 1 : Phases[k] \in {"ended", "skipped"}
  <2> SUFFICES ASSUME NEW k \in 0 .. nb_cmds - 1 PROVE Phases[k] \in {"ended", "skipped"}
    OBVIOUS
  <2>1. k \in Cmds /\ k < nb_cmds
    BY <1>2 DEF Cmds
  <2>2. cpc[k] \in {"none", "reaped"}
    BY <1>1, <1>3, <2>1 DEF EndInv, NoOrphans
  <2>3. child_pids[k] \in {-1, k + 1}
    BY <1>1, <2>1, WaitingForAll DEF AnswerInv
  <2>4. child_pids[k] = k + 1 => cpc[k] = "reaped"
    BY <2>1, <2>2 DEF AnswerInv, CoreInv, ChildInv
  <2>5. QED
    BY <2>1, <2>3, <2>4 DEF Phases, PhaseOf
<1>5. \/ code' = Verdict(nb_cmds, status)
      \/ code' \in {0, 1, NotFound} /\ \E k \in 0 .. nb_cmds - 1 : Phases[k] = "skipped"
  <2>1. CASE NoForkFailed
    <3>1. NoForkFailed'
      BY <1>1, <2>1 DEF NoForkFailed
    <3>2. nb_cmds - 1 \in Cmds /\ nb_cmds - 1 < nb_cmds
      BY <1>2 DEF Cmds
    <3>3. child_pids[nb_cmds - 1] # 0
      BY <1>1, <1>2, <3>2, WaitingForAll DEF AnswerInv
    <3>4. Waited'
      BY <1>1, <1>2, <3>3 DEF Waited
    <3>5. QED
      BY <1>1, <1>3, <3>1, <3>4 DEF EndInv
  <2>2. CASE ~NoForkFailed
    <3>1. PICK k \in Cmds : child_pids[k] = -1
      BY <2>2 DEF NoForkFailed
    <3>2. k \in 0 .. nb_cmds - 1 /\ Phases[k] = "skipped"
      BY <1>2, <3>1 DEF Cmds, AnswerInv, CoreInv, ChildInv, Phases, PhaseOf
    <3>3. err \in {0, 1, NotFound}
      BY <1>1 DEF AnswerInv, WaitInv, Partial
    <3>4. ExitCode(err) = err
      BY <3>3 DEF ExitCode, NotFound
    <3>5. QED
      BY <1>1, <3>2, <3>3, <3>4
  <2>3. QED
    BY <2>1, <2>2
<1>6. Phases' = Phases
  BY <1>1, SamePhases
<1>7. QED
  BY <1>1, <1>2, <1>4, <1>5, <1>6, SameSets DEF Abstract!Decide, Phases, Answer

-----------------------------------------------------------------------------
(* Every step of pipex is a step of the contract or leaves what it speaks of alone. *)
LEMMA ContractStep == AnswerInv /\ [Next]_vars => [Abstract!Next]_(Abstract!vars)
<1> SUFFICES ASSUME AnswerInv, [Next]_vars PROVE [Abstract!Next]_(Abstract!vars)
  OBVIOUS
<1>1. CoreInv /\ CoreInv'
  BY CoreStep DEF AnswerInv
<1>2. CASE OpenPipe(0) \/ OpenPipe(1) \/ ValidateArgs \/ ParseCmds \/ GrabEnvp \/ HereDocInp
  BY <1>1, <1>2, SetUpMaps
<1>3. CASE ForkFirstChild \/ Malcolm \/ ForkLastChild
  BY <1>1, <1>3, ForkingMaps
<1>4. CASE RenewPipe \/ CloseInParent
  <2>1. main # "exited" /\ main' # "exited" /\ UNCHANGED <<nb_cmds, status, cpc, child_pids>>
    BY <1>4 DEF RenewPipe, CreatePipe, CloseInParent, ParentOnly, parse, children
  <2>2. QED
    BY <2>1, SamePhases, StutterMaps DEF Answer
<1>5. CASE WaitNobody \/ \E k \in Cmds : WaitChild(k)
  BY <1>1, <1>5, WaitMaps
<1>6. CASE Finish
  BY <1>6, FinishMaps DEF Abstract!Next
<1>7. ASSUME NEW k \in Cmds, ChildStep(k) \/ (CommandEnds(k) /\ ParentIdle)
      PROVE  [Abstract!Next]_(Abstract!vars)
  BY <1>1, <1>7, ChildMaps
<1>8. CASE UNCHANGED vars
  <2>1. UNCHANGED <<nb_cmds, status, cpc, child_pids, main, code>>
    BY <1>8 DEF vars, parse, children
  <2>2. QED
    BY <2>1, SamePhases, StutterMaps DEF Answer
<1>9. QED
  BY <1>2, <1>3, <1>4, <1>5, <1>6, <1>7, <1>8 DEF Next, MainStep, AllDone

(* pipex starts with nothing accepted, started or answered. *)
LEMMA ContractInit == Init => Abstract!Init
<1> SUFFICES ASSUME Init PROVE Abstract!Init
  OBVIOUS
<1>1. \A k \in Cmds : PhaseOf(k) = "idle"
  BY DEF Init, PhaseOf
<1>2. QED
  BY <1>1, SameSets DEF Init, Abstract!Init

(***************************************************************************)
(* pipex keeps the safety part of PipelineContract: it starts the commands *)
(* in order and each at most once, answers at most once, not before every  *)
(* command it started has ended, and with the verdict on how they ended.   *)
(***************************************************************************)
THEOREM ContractSafety == Spec => Abstract!Safety
<1>1. Spec => [][Abstract!Next]_(Abstract!vars)
  BY AnswerInvariance, ContractStep, PTL DEF Spec
<1>2. QED
  BY <1>1, ContractInit, PTL DEF Spec, Abstract!Safety
=============================================================================
