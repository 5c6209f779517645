------------------------------- MODULE Pipex -------------------------------
(***************************************************************************)
(* The pipex process and the children it forks: main, ft_pipex_init,       *)
(* ft_fork_first_child, ft_malcolm, the three child functions, and         *)
(* ft_wait_error.  Every process has a descriptor table and, from fork on, *)
(* its own copy of struct s_pipex.  What a command does after execve is    *)
(* not part of the repository; here it may end at any time with any        *)
(* status (module Pipeline makes it read and write).                       *)
(***************************************************************************)
EXTENDS Descriptors, ExitStatus

CONSTANTS
  Argcs,     \* the values of argc to start with
  Flags,     \* is argv[1] taken for the here_doc flag? a subset of BOOLEAN
  MaxCmds,   \* bound on nb_cmds, for the arrays indexed by a command
  InErrs,    \* errno values with which opening the input of the pipeline may fail
  OutErrs,   \* the same for the outfile
  CmdCodes,  \* exit codes a command may choose for itself
  Faults     \* which other things may go wrong, a subset of FaultKinds

FaultKinds == {"pipe", "fork", "malloc", "empty", "nopath", "nocmd", "noexec", "signal"}

ASSUME PipexAssumption ==
  /\ Argcs \subseteq Nat /\ Flags \subseteq BOOLEAN
  /\ MaxCmds \in Nat \ {0, 1} /\ \A a \in Argcs : a - 3 <= MaxCmds
  /\ InErrs \subseteq Code \ {0} /\ OutErrs \subseteq Code \ {0}
  /\ CmdCodes \subseteq Code
  /\ Faults \subseteq FaultKinds

Cmds == 0 .. MaxCmds - 1      \* indices into cmds, child_pids, child_ret

VARIABLES
  argc, flag,                 \* the command line
  mode, nb_cmds, pipe,        \* fields of struct s_pipex in the parent
  child_pids, child_ret,
  parsed,                     \* cmds[0 .. parsed - 1] are set, the others NULL
  path,                       \* pipex->path: "dirs", "empty" or "null"
  main, i, err, code,         \* program point, locals and exit status of the parent
  fd, npipe,                  \* the parent's descriptors; pipes created so far
  cpc, cfd, cpipe, status,    \* the children: state, descriptors, copy of pipe, status
  fate,                       \* history: how far the command of a child got
  temp,                       \* TEMP_FILE: "absent", "stale" (an earlier run) or "doc"
  reports                     \* the messages printed by ft_wait_error

args     == <<argc, flag>>
parse    == <<mode, nb_cmds, parsed, path>>
parentFd == <<pipe, fd, npipe>>
children == <<cpc, cfd, cpipe, status, fate>>
waiting  == <<child_ret, err, reports>>
vars == <<args, parse, parentFd, child_pids, main, i, code, children, waiting, temp>>

MainPoints == {"pipe0", "pipe1", "validate", "parse", "envp", "heredoc", "fork_first",
               "malcolm", "renew", "fork_last", "close", "wait", "exited"}
ChildStates == {"none", "forked", "exec", "run", "zombie", "reaped"}
Fates == {"none", "no_file", "no_cmd", "no_exec", "no_memory", "crashed", "ran"}

Init ==
  /\ argc \in Argcs /\ flag \in Flags
  /\ mode = "error" /\ nb_cmds = 0 /\ parsed = 0 /\ path = "null"
  /\ pipe = [n \in 0 .. 1 |-> [e \in 0 .. 1 |-> 0]]
  /\ fd = StdFds /\ npipe = 0
  /\ child_pids = [k \in Cmds |-> 0] /\ child_ret = [k \in Cmds |-> 0]
  /\ main = "pipe0" /\ i = 0 /\ err = 0 /\ code = 0
  /\ cpc = [k \in Cmds |-> "none"] /\ cfd = [k \in Cmds |-> NoFds]
  /\ cpipe = [k \in Cmds |-> pipe] /\ status = [k \in Cmds |-> 0]
  /\ fate = [k \in Cmds |-> "none"]
  /\ temp \in {"absent", "stale"} /\ reports = {}

-----------------------------------------------------------------------------
(***************************************************************************)
(* ft_cleanup_exit, exit and the signals that end a process.  In here_doc  *)
(* mode every process that leaves through ft_cleanup_exit unlinks          *)
(* TEMP_FILE, whichever of them it is.                                     *)
(***************************************************************************)
UnlinkedNever == temp                                            \* mutant: no unlink
Unlinked == IF mode = "here_doc" THEN "absent" ELSE temp

MainExit(st) ==
  /\ main' = "exited" /\ code' = st /\ fd' = NoFds

MainCleanupExit(n) == MainExit(ExitCode(n)) /\ temp' = Unlinked

ChildEnds(k, st, f) ==
  /\ cpc' = [cpc EXCEPT ![k] = "zombie"]
  /\ status' = [status EXCEPT ![k] = st]
  /\ cfd' = [cfd EXCEPT ![k] = NoFds]
  /\ fate' = [fate EXCEPT ![k] = f]

ChildCleanupExit(k, n, f) == ChildEnds(k, ExitCode(n), f) /\ temp' = Unlinked

ParentOnly == UNCHANGED <<args, children, waiting, child_pids>>

-----------------------------------------------------------------------------
(***************************************************************************)
(* ft_pipex_init.                                                          *)
(***************************************************************************)

(* pipe(pipex->pipe[n]) for the given table, the result at program point q. *)
CreatePipe(t, n, q) ==
  /\ \E r, w \in Fd :
       /\ IsPipePair(t, r, w)
       /\ fd' = [t EXCEPT ![r] = ReadEnd(npipe + 1), ![w] = WriteEnd(npipe + 1)]
       /\ pipe' = [pipe EXCEPT ![n] = [e \in 0 .. 1 |-> IF e = 0 THEN r ELSE w]]
  /\ npipe' = npipe + 1
  /\ main' = q

PipeFails(t) ==
  \/ "pipe" \in Faults
  \/ ~ \E r, w \in Fd : IsFree(t, r) /\ IsFree(t, w) /\ r # w

(* The first two pipes; if one cannot be made pipex exits with 32. *)
OpenPipe(n) ==
  /\ main = IF n = 0 THEN "pipe0" ELSE "pipe1"
  /\ \/ CreatePipe(fd, n, IF n = 0 THEN "pipe1" ELSE "validate") /\ UNCHANGED code
     \/ PipeFails(fd) /\ MainExit(EPIPE) /\ UNCHANGED <<pipe, npipe>>
  /\ ParentOnly /\ UNCHANGED <<parse, i, temp>>

ValidateArgs ==
  /\ main = "validate"
  /\ \/ /\ argc < 5 /\ MainExit(1) /\ mode' = "error"
     \/ /\ argc >= 5 /\ flag /\ argc # 6 /\ MainExit(2) /\ UNCHANGED mode
     \/ /\ argc >= 5 /\ (flag => argc = 6)
        /\ mode' = IF flag THEN "here_doc" ELSE "regular"
        /\ main' = "parse" /\ UNCHANGED <<code, fd>>
  /\ ParentOnly /\ UNCHANGED <<nb_cmds, parsed, path, pipe, npipe, i, temp>>

(***************************************************************************)
(* ft_parse_cmds.  If the struct cannot be allocated pipex leaves through  *)
(* ft_cleanup_exit, which frees pointers that ft_init_env has not set when *)
(* the first allocation is the one that fails.  A command without a word,  *)
(* or one that cannot be copied, makes ft_parse_cmds return ENOMEM;        *)
(* ft_pipex_init tests for -1 and goes on with that command and all later  *)
(* ones not parsed.                                                        *)
(***************************************************************************)
ParseCmds ==
  /\ main = "parse"
  /\ nb_cmds' = argc - 3 - (IF mode = "here_doc" THEN 1 ELSE 0)
  /\ \/ /\ "malloc" \in Faults
        /\ MainCleanupExit(ENOMEM) \/ (MainExit(Killed) /\ UNCHANGED temp)
        /\ UNCHANGED parsed
     \/ /\ parsed' \in IF Faults \cap {"empty", "malloc"} # {} THEN 0 .. nb_cmds' ELSE {nb_cmds'}
        /\ main' = "envp" /\ UNCHANGED <<code, fd, temp>>
  /\ ParentOnly /\ UNCHANGED <<mode, path, pipe, npipe, i>>

(***************************************************************************)
(* ft_grab_envp: without a PATH in the environment it reads behind the     *)
(* NULL that ends envp and dies; a PATH of no directory gives an empty     *)
(* list, and so does a first directory that cannot be copied (it ends the  *)
(* list, which is otherwise no different).                                 *)
(***************************************************************************)
GrabEnvp ==
  /\ main = "envp"
  /\ \/ /\ \/ path' = "dirs"
           \/ path' = "empty" /\ Faults \cap {"nopath", "malloc"} # {}
           \/ path' = "null" /\ "malloc" \in Faults
        /\ main' = IF mode = "here_doc" THEN "heredoc" ELSE "fork_first"
        /\ UNCHANGED <<code, fd>>
     \/ /\ "nopath" \in Faults /\ MainExit(Killed) /\ UNCHANGED path
  /\ ParentOnly /\ UNCHANGED <<mode, nb_cmds, parsed, pipe, npipe, i, temp>>

(***************************************************************************)
(* ft_here_doc_inp: TEMP_FILE is created or truncated, filled and closed,  *)
(* unless ft_get_next_line dies of a malloc that failed in ft_read.        *)
(***************************************************************************)
HereDocInp ==
  /\ main = "heredoc"
  /\ \/ /\ \E f \in Fd : IsLowest(fd, f)
        /\ temp' = "doc"
        /\ \/ main' = "fork_first" /\ UNCHANGED <<code, fd>>
           \/ "malloc" \in Faults /\ MainExit(Killed)
     \/ \E e \in InErrs : MainCleanupExit(e)
     \/ /\ TableFull(fd)
        /\ MainCleanupExit(EMFILE)
  /\ ParentOnly /\ UNCHANGED <<parse, pipe, npipe, i>>

-----------------------------------------------------------------------------
(***************************************************************************)
(* Forking.  The child gets a copy of the descriptors and of pipe[2][2].   *)
(***************************************************************************)
ForkChild(k) ==
  /\ child_pids' = [child_pids EXCEPT ![k] = k + 1]
  /\ cpc' = [cpc EXCEPT ![k] = "forked"]
  /\ cfd' = [cfd EXCEPT ![k] = fd]
  /\ cpipe' = [cpipe EXCEPT ![k] = pipe]
  /\ UNCHANGED <<status, fate>>

ForkFails(k) ==
  /\ "fork" \in Faults
  /\ child_pids' = [child_pids EXCEPT ![k] = -1]
  /\ UNCHANGED children

ForkFirstChild ==
  /\ main = "fork_first"
  /\ \/ /\ ForkChild(0)
        /\ IF nb_cmds > 2 THEN main' = "malcolm" /\ i' = i
                          ELSE main' = "fork_last" /\ i' = i + 1
        /\ UNCHANGED <<code, fd, temp>>
     \/ /\ ForkFails(0) /\ MainCleanupExit(EPIPE) /\ UNCHANGED i
  /\ UNCHANGED <<args, parse, pipe, npipe, waiting>>

(* The head of the loop in ft_malcolm, and the fork in its body. *)
Malcolm ==
  /\ main = "malcolm"
  /\ i' = i + 1
  /\ \/ /\ child_pids[i] # 0 /\ i + 1 < nb_cmds - 1
        /\ ForkChild(i + 1) \/ ForkFails(i + 1)
        /\ main' = "renew"
     \/ /\ child_pids[i] = 0 \/ i + 1 >= nb_cmds - 1
        /\ main' = "fork_last" /\ UNCHANGED <<child_pids, children>>
  /\ UNCHANGED <<args, parse, parentFd, code, waiting, temp>>

(* Mutant: the slot that is still needed is closed and made anew. *)
RenewOtherPipe ==
  LET n == (i + 1) % 2
      t == CloseChain(fd, <<pipe[n][0], pipe[n][1]>>)
  IN /\ main = "renew"
     /\ CreatePipe(t, n, "malcolm")
     /\ ParentOnly /\ UNCHANGED <<parse, i, code, temp>>

(* The rest of the body; the result of pipe(2) is not looked at. *)
RenewPipe ==
  LET n == i % 2
      t == CloseChain(fd, <<pipe[n][0], pipe[n][1]>>)
  IN /\ main = "renew"
     /\ \/ CreatePipe(t, n, "malcolm")
        \/ PipeFails(t) /\ fd' = t /\ main' = "malcolm" /\ UNCHANGED <<pipe, npipe>>
     /\ ParentOnly /\ UNCHANGED <<parse, i, code, temp>>

ForkLastChild ==
  /\ main = "fork_last"
  /\ ForkChild(i) \/ ForkFails(i)
  /\ main' = "close"
  /\ UNCHANGED <<args, parse, parentFd, i, code, waiting, temp>>

(* Mutant: the last write end is forgotten. *)
CloseThreeFds(t, p) == CloseChain(t, <<p[0][0], p[0][1], p[1][0]>>)

(* ft_close_all_fds on table t, with the pipe array p. *)
CloseAllFds(t, p) == CloseChain(t, <<p[0][0], p[0][1], p[1][0], p[1][1]>>)

(* Mutant: the parent goes on to wait with its pipes open. *)
WaitWithPipesOpen ==
  /\ main = "close"
  /\ main' = "wait" /\ i' = 0 /\ err' = 0
  /\ UNCHANGED <<args, parse, parentFd, child_pids, code, children, child_ret, reports, temp>>

CloseInParent ==
  /\ main = "close"
  /\ fd' = CloseAllFds(fd, pipe)
  /\ main' = "wait" /\ i' = 0 /\ err' = 0
  /\ UNCHANGED <<args, parse, pipe, npipe, child_pids, code, children, child_ret, reports, temp>>

-----------------------------------------------------------------------------
(***************************************************************************)
(* The children up to execve.  Descriptors are private to a process, so    *)
(* one step covers the open, the dup2s and the closes of a child function; *)
(* what others see of it, pipe ends that go away, goes away all the same.  *)
(***************************************************************************)
ToExec(k, t) ==
  /\ cpc' = [cpc EXCEPT ![k] = "exec"]
  /\ cfd' = [cfd EXCEPT ![k] = t]
  /\ UNCHANGED <<cpipe, status, fate, temp>>

FailToOpen(k, e) == ChildCleanupExit(k, e, "no_file") /\ UNCHANGED cpipe

OpenErrors(k, errs) == errs \cup (IF TableFull(cfd[k]) THEN {EMFILE} ELSE {})

(* open(name), dup2 onto the standard stream std, and close. *)
Redirect(t, f, name, std) == Dup2([t EXCEPT ![f] = name], f, std)

(* Mutant: standard output is left alone. *)
FirstChildToTerminal ==
  /\ cpc[0] = "forked"
  /\ \E f \in Fd :
       /\ IsLowest(cfd[0], f)
       /\ ToExec(0, CloseAllFds(Close(Redirect(cfd[0], f, Infile, STDIN), f), cpipe[0]))

(* ft_first_child and ft_here_doc: they differ in the file that is opened. *)
FirstChild ==
  /\ cpc[0] = "forked"
  /\ \/ /\ mode = "here_doc" => temp # "absent"
        /\ \E f \in Fd :
             LET name == IF mode = "here_doc" THEN TempOf(IF temp = "doc" THEN 1 ELSE 0)
                                              ELSE Infile
                 t == Dup2(Redirect(cfd[0], f, name, STDIN), cpipe[0][1][1], STDOUT)
             IN /\ IsLowest(cfd[0], f)
                /\ ToExec(0, CloseAllFds(Close(t, f), cpipe[0]))
     \/ \E e \in OpenErrors(0, InErrs) : FailToOpen(0, e)
     \/ /\ mode = "here_doc" /\ temp = "absent"
        /\ FailToOpen(0, ENOENT)

(* ft_child(pipex, k + 1) *)
MiddleChild(k) ==
  /\ k > 0 /\ k < nb_cmds - 1 /\ cpc[k] = "forked"
  /\ LET t == Dup2(cfd[k], cpipe[k][k % 2][0], STDIN)
         u == Dup2(t, cpipe[k][(k + 1) % 2][1], STDOUT)
     IN ToExec(k, CloseAllFds(u, cpipe[k]))

(* ft_parent_process, which is run by the last child. *)
LastChild(k) ==
  /\ k > 0 /\ k = nb_cmds - 1 /\ cpc[k] = "forked"
  /\ \/ \E f \in Fd :
          LET t == Close(Redirect(cfd[k], f, Outfile, STDOUT), f)
              u == Dup2(t, cpipe[k][(nb_cmds - 1) % 2][0], STDIN)
          IN IsLowest(cfd[k], f) /\ ToExec(k, CloseAllFds(u, cpipe[k]))
     \/ \E e \in OpenErrors(k, OutErrs) : FailToOpen(k, e)

(***************************************************************************)
(* ft_search_cmd and execve.  The search reads path[0] of a NULL path, or  *)
(* joins a directory with a NULL command, and the child dies of it.  If    *)
(* execve fails its result, -1, becomes the exit status.                   *)
(***************************************************************************)
SearchCrashes(k) == path = "null" \/ (path = "dirs" /\ k >= parsed)

SearchAndExec(k) ==
  /\ cpc[k] = "exec"
  /\ \/ /\ SearchCrashes(k)
        /\ ChildEnds(k, Killed, "crashed") /\ UNCHANGED temp
     \/ /\ ~SearchCrashes(k) /\ (path = "empty" \/ "nocmd" \in Faults)
        /\ ChildCleanupExit(k, NotFound, "no_cmd")
     \/ /\ ~SearchCrashes(k) /\ path = "dirs"
        /\ \/ "malloc" \in Faults /\ ChildCleanupExit(k, ENOMEM, "no_memory")
           \/ "noexec" \in Faults /\ ChildCleanupExit(k, -1, "no_exec")
           \/ /\ cpc' = [cpc EXCEPT ![k] = "run"]
              /\ fate' = [fate EXCEPT ![k] = "ran"]
              /\ UNCHANGED <<cfd, status, temp>>
  /\ UNCHANGED cpipe

(* The command itself ends; it does not run any code of pipex. *)
CommandEnds(k) ==
  /\ cpc[k] = "run"
  /\ \E st \in CmdCodes \cup (IF "signal" \in Faults THEN {Killed} ELSE {}) :
       ChildEnds(k, st, "ran")
  /\ UNCHANGED <<cpipe, temp>>

ParentIdle == UNCHANGED <<args, parse, parentFd, child_pids, main, i, code, waiting>>

SetUp(k) == (k = 0 /\ FirstChild) \/ MiddleChild(k) \/ LastChild(k)

ChildStep(k) == (SetUp(k) \/ SearchAndExec(k)) /\ ParentIdle

-----------------------------------------------------------------------------
(***************************************************************************)
(* ft_wait_error.  waitpid with the pid -1 that a failed fork has left     *)
(* takes any child.  When there is nothing to wait for child_ret stays 0.  *)
(***************************************************************************)
Record(st) ==
  /\ child_ret' = [child_ret EXCEPT ![i] = st]
  /\ err' = NextErr(i, st, nb_cmds, err)
  /\ reports' = reports \cup Reports(i, st, mode, IF i < parsed THEN "command" ELSE "(null)")
  /\ i' = i + 1

(* Mutant: wait(2) in place of waitpid(2). *)
WaitAnyChild(k) ==
  /\ main = "wait" /\ i < nb_cmds /\ cpc[k] = "zombie"
  /\ cpc' = [cpc EXCEPT ![k] = "reaped"]
  /\ Record(status[k])
  /\ UNCHANGED <<args, parse, parentFd, child_pids, main, code, cfd, cpipe, status, fate, temp>>

WaitChild(k) ==
  /\ main = "wait" /\ i < nb_cmds
  /\ child_pids[i] \in {k + 1, -1} /\ cpc[k] = "zombie"
  /\ cpc' = [cpc EXCEPT ![k] = "reaped"]
  /\ Record(status[k])
  /\ UNCHANGED <<args, parse, parentFd, child_pids, main, code, cfd, cpipe, status, fate, temp>>

NoSuchChild(pid) ==
  \A k \in Cmds : pid \in {k + 1, -1} => cpc[k] \in {"none", "reaped"}

WaitNobody ==
  /\ main = "wait" /\ i < nb_cmds
  /\ NoSuchChild(child_pids[i])
  /\ Record(0)
  /\ UNCHANGED <<args, parse, parentFd, child_pids, main, code, children, temp>>

(* Mutant: the last child is not waited for. *)
FinishEarly ==
  /\ main = "wait" /\ i = nb_cmds - 1
  /\ MainCleanupExit(err)
  /\ UNCHANGED <<args, parse, pipe, npipe, child_pids, i, children, waiting>>

Finish ==
  /\ main = "wait" /\ i = nb_cmds
  /\ MainCleanupExit(err)
  /\ UNCHANGED <<args, parse, pipe, npipe, child_pids, i, children, waiting>>

-----------------------------------------------------------------------------
MainStep ==
  \/ OpenPipe(0) \/ OpenPipe(1) \/ ValidateArgs \/ ParseCmds \/ GrabEnvp \/ HereDocInp
  \/ ForkFirstChild \/ Malcolm \/ RenewPipe \/ ForkLastChild \/ CloseInParent
  \/ (\E k \in Cmds : WaitChild(k)) \/ WaitNobody \/ Finish

(* All processes are gone; anything else that stops is a deadlock. *)
AllDone ==
  /\ main = "exited" /\ \A k \in Cmds : cpc[k] \in {"none", "reaped"}
  /\ UNCHANGED vars

Next ==
  \/ MainStep
  \/ \E k \in Cmds : ChildStep(k) \/ (CommandEnds(k) /\ ParentIdle)
  \/ AllDone

Spec == Init /\ [][Next]_vars

-----------------------------------------------------------------------------
(***************************************************************************)
(* Properties.                                                             *)
(***************************************************************************)

(* The values every variable may take, over all of main's program points. *)
TypeOK ==
  /\ argc \in Argcs /\ flag \in Flags
  /\ mode \in {"error", "regular", "here_doc"} /\ nb_cmds \in 0 .. MaxCmds
  /\ parsed \in 0 .. nb_cmds /\ path \in {"dirs", "empty", "null"}
  /\ pipe \in [0 .. 1 -> [0 .. 1 -> Fd]] /\ fd \in Table /\ npipe \in Nat
  /\ child_pids \in [Cmds -> Int] /\ child_ret \in [Cmds -> Status]
  /\ main \in MainPoints /\ i \in 0 .. MaxCmds /\ err \in Code /\ code \in Status
  /\ cpc \in [Cmds -> ChildStates] /\ cfd \in [Cmds -> Table]
  /\ cpipe \in [Cmds -> [0 .. 1 -> [0 .. 1 -> Fd]]] /\ status \in [Cmds -> Status]
  /\ fate \in [Cmds -> Fates]
  /\ temp \in {"absent", "stale", "doc"}
  /\ reports \subseteq Cmds \X {"command", "(null)", "infile", "outfile"}

Ready(k) == cpc[k] \in {"exec", "run"}

(* Has the parent left through ft_wait_error? *)
Waited == main = "exited" /\ nb_cmds > 0 /\ child_pids[nb_cmds - 1] # 0

NoForkFailed == \A k \in Cmds : child_pids[k] # -1

(* Was pipe(2) refused to ft_malcolm, which does not look at its result? *)
PipeLost ==
  \/ main = "renew" /\ npipe < i + 1
  \/ main = "malcolm" /\ npipe < i + 2
  \/ (main \in {"fork_last", "close", "wait"} \/ Waited) /\ npipe < nb_cmds

(***************************************************************************)
(* The two pipe[2][2] slots, reused by parity while ft_malcolm forks, join *)
(* every command to its neighbour and to no other: standard output of one  *)
(* is the write end of the very pipe whose read end is standard input of   *)
(* the next; the first reads the input of this run, the last one writes    *)
(* the outfile.  A pipe that was refused spoils it for good.               *)
(***************************************************************************)
Plumbing ==
  ~PipeLost =>
    \A k \in Cmds : Ready(k) =>
      /\ k = 0 => cfd[k][STDIN] = IF mode = "here_doc" THEN TempOf(1) ELSE Infile
      /\ k = nb_cmds - 1 => cfd[k][STDOUT] = Outfile
      /\ \A l \in Cmds : Ready(l) /\ l = k + 1 =>
           \E p \in 1 .. npipe : cfd[k][STDOUT] = WriteEnd(p) /\ cfd[l][STDIN] = ReadEnd(p)

(***************************************************************************)
(* End of file can reach every command: a command that runs has nothing    *)
(* open but its three streams, no two of them hold the same end of a pipe, *)
(* and the parent holds no end of any pipe while it waits.                 *)
(***************************************************************************)
NoStrayEnds ==
  ~PipeLost =>
    /\ main = "wait" => \A f \in Fd : fd[f] \in {Closed, Terminal}
    /\ \A k \in Cmds : Ready(k) => \A f \in Fd : f > STDERR => cfd[k][f] = Closed
    /\ \A k, l \in Cmds : Ready(k) /\ Ready(l) /\ k # l =>
         \A p \in 1 .. npipe : ~(Holds(cfd[k], WriteEnd(p)) /\ Holds(cfd[l], WriteEnd(p)))

(* pipex does not leave before every child it forked has been waited for. *)
NoOrphans == main = "exited" => \A k \in Cmds : cpc[k] \in {"none", "reaped"}

(***************************************************************************)
(* When every fork succeeded the exit status is the one the statuses of    *)
(* the commands call for, whatever the order in which they ended.          *)
(***************************************************************************)
ExitTruth == Waited /\ NoForkFailed => code = Verdict(nb_cmds, status)

(***************************************************************************)
(* A command that was not found is reported, under its own index, and so   *)
(* is a file the first or the last command could not open.                 *)
(***************************************************************************)
ReportTruth ==
  Waited /\ NoForkFailed =>
    \A k \in 0 .. nb_cmds - 1 :
      /\ fate[k] = "no_cmd" => <<k, IF k < parsed THEN "command" ELSE "(null)">> \in reports
      /\ fate[k] = "no_file" /\ status[k] \in {ENOENT, EACCES} /\ mode = "regular"
           => <<k, IF k = 0 THEN "infile" ELSE "outfile">> \in reports

(* In here_doc mode TEMP_FILE is gone when pipex has left by itself. *)
TempGone == main = "exited" /\ mode = "here_doc" /\ code # Killed => temp = "absent"

(* A failure that ft_wait_error has seen is not forgotten later in its loop. *)
VerdictSticks == [][main = "wait" /\ err # 0 => err' # 0]_vars

=============================================================================
