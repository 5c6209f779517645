-------------------------- MODULE PipexInvariants --------------------------
(***************************************************************************)
(* The inductive invariants behind the properties of Pipex.  TLC checks    *)
(* them on small pipelines; PipexProofs (CoreInv, AnswerInv) and           *)
(* PlumbingProofs (PipexInv) prove them for all.                           *)
(***************************************************************************)
EXTENDS Pipex

(* The program points of main, in the order in which it passes them. *)
BeforeParse == {"pipe0", "pipe1", "validate", "parse"}
BeforeForks == BeforeParse \cup {"envp", "heredoc", "fork_first"}

(***************************************************************************)
(* What the program point of main says of the command line and of i.       *)
(***************************************************************************)
PhaseInv ==
  /\ main \notin {"pipe0", "pipe1", "validate", "exited"} =>
       /\ argc >= 5 /\ mode \in {"regular", "here_doc"}
       /\ mode = "here_doc" => argc = 6
  /\ main \notin BeforeParse \cup {"exited"} =>
       nb_cmds = argc - 3 - (IF mode = "here_doc" THEN 1 ELSE 0)
  /\ main \in {"pipe0", "pipe1", "validate"} => mode = "error"
  /\ main \in BeforeParse => nb_cmds = 0
  /\ main \in BeforeForks => i = 0
  /\ main \in {"malcolm", "renew"} => nb_cmds > 2 /\ i <= nb_cmds - 2
  /\ main = "renew" => i > 0
  /\ main \in {"fork_last", "close"} => i = nb_cmds - 1
  /\ main = "wait" => i <= nb_cmds
  /\ main = "heredoc" => mode = "here_doc"

(***************************************************************************)
(* Which children there are: the parent has forked, or tried to fork, the  *)
(* commands below Forked, and no others.                                   *)
(***************************************************************************)
Forked ==
  IF main \in BeforeForks THEN 0
  ELSE IF main \in {"malcolm", "renew"} THEN i + 1
  ELSE IF main = "fork_last" THEN i
  ELSE nb_cmds

ChildInv ==
  /\ \A k \in Cmds : child_pids[k] \in {-1, 0, k + 1}
  /\ \A k \in Cmds : cpc[k] = "none" <=> child_pids[k] # k + 1
  /\ main # "exited" => \A k \in Cmds : child_pids[k] = 0 <=> k >= Forked
  /\ \A k \in Cmds : child_pids[k] # 0 => k < nb_cmds /\ nb_cmds >= 2

CoreInv == TypeOK /\ PhaseInv /\ ChildInv

-----------------------------------------------------------------------------
(***************************************************************************)
(* Pipes are numbered as they are created: pipe[0] first, pipe[1] second,  *)
(* then one for every turn of ft_malcolm.  Link(k) is the number of the    *)
(* pipe from command k - 1 to command k.                                   *)
(***************************************************************************)
Link(k) == IF k = 1 THEN 2 ELSE IF k \in {0, 2} THEN 1 ELSE k

(***************************************************************************)
(* Table t and pipe array p as the child for command k needs them: slot    *)
(* k % 2 is the pipe it reads, the other slot the pipe it writes, and      *)
(* besides these four descriptors only the standard streams are open.      *)
(***************************************************************************)
PipeFds(p) == {p[0][0], p[0][1], p[1][0], p[1][1]}

Layout(t, p, k) ==
  /\ p[0][0] # p[0][1] /\ p[1][0] # p[1][1]
  /\ {p[0][0], p[0][1]} \cap {p[1][0], p[1][1]} = {}
  /\ \A f \in PipeFds(p) : f > STDERR
  /\ t[p[k % 2][0]] = ReadEnd(Link(k)) /\ t[p[k % 2][1]] = WriteEnd(Link(k))
  /\ t[p[(k + 1) % 2][0]] = ReadEnd(Link(k + 1)) /\ t[p[(k + 1) % 2][1]] = WriteEnd(Link(k + 1))
  /\ \A f \in Fd : f <= STDERR => t[f] = Terminal
  /\ \A f \in Fd : f > STDERR /\ f \notin PipeFds(p) => t[f] = Closed

(* The table of a command that is ready to run. *)
Streams(t, k) ==
  /\ t[STDIN] = IF k = 0 THEN (IF mode = "here_doc" THEN TempOf(1) ELSE Infile)
                         ELSE ReadEnd(Link(k))
  /\ t[STDOUT] = IF k = nb_cmds - 1 THEN Outfile ELSE WriteEnd(Link(k + 1))
  /\ t[STDERR] = Terminal
  /\ \A f \in Fd : f > STDERR => t[f] = Closed

ParentPlumbing ==
  /\ main = "pipe0" => fd = StdFds /\ npipe = 0
  /\ main = "pipe1" =>
       /\ npipe = 1 /\ pipe[0][0] # pipe[0][1]
       /\ pipe[0][0] > STDERR /\ pipe[0][1] > STDERR
       /\ fd = [StdFds EXCEPT ![pipe[0][0]] = ReadEnd(1), ![pipe[0][1]] = WriteEnd(1)]
  /\ main \in BeforeForks \ {"pipe0", "pipe1"} => npipe = 2 /\ Layout(fd, pipe, 0)
  /\ main = "malcolm" => npipe = i + 2 /\ Layout(fd, pipe, i + 1)
  /\ main = "renew" => npipe = i + 1 /\ Layout(fd, pipe, i)
  /\ main \in {"fork_last", "close"} =>
       /\ npipe = IF nb_cmds = 2 THEN 2 ELSE nb_cmds
       /\ Layout(fd, pipe, i)
  /\ main = "wait" => \A f \in Fd : fd[f] \in {Closed, Terminal}

ChildPlumbing ==
  \A k \in Cmds :
    /\ cpc[k] = "forked" => Layout(cfd[k], cpipe[k], k)
    /\ Ready(k) => Streams(cfd[k], k)
    /\ cpc[k] # "none" /\ k < nb_cmds - 1 => Link(k + 1) <= npipe

(* TEMP_FILE of an earlier run is never there when the first child opens it. *)
TempInv ==
  mode = "here_doc" /\ (main = "fork_first" \/ child_pids[0] # 0) => temp # "stale"

(***************************************************************************)
(* What a pipe that was refused leaves.  When ft_malcolm does not get the  *)
(* pipe behind command c, slot c % 2 is the pipe that command c reads and  *)
(* the numbers in the other slot are closed (Torn).  After command c there *)
(* is nothing left of the pipes up to c: slots may hold the same numbers,  *)
(* the numbers may be closed, but no table holds anything older (Adrift).  *)
(***************************************************************************)
Torn(t, p, c) ==
  /\ \A f \in PipeFds(p) : f > STDERR
  /\ p[c % 2][0] # p[c % 2][1]
  /\ p[(c + 1) % 2][1] \notin {p[c % 2][0], p[c % 2][1]}
  /\ t[p[c % 2][0]] = ReadEnd(Link(c)) /\ t[p[c % 2][1]] = WriteEnd(Link(c))
  /\ \A f \in Fd : f <= STDERR => t[f] = Terminal
  /\ \A f \in Fd : f > STDERR /\ f \notin {p[c % 2][0], p[c % 2][1]} => t[f] = Closed

Beyond(file, c) ==
  file \in {Closed, Terminal} \/ (file \in {"read", "write"} \X Nat /\ file[2] > c)

Adrift(t, p, c) ==
  /\ \A f \in PipeFds(p) : f > STDERR
  /\ \A f \in Fd : f <= STDERR => t[f] = Terminal
  /\ \A f \in Fd : f > STDERR => Beyond(t[f], c)

(* What command k gets when c is the last command that is joined to the one before it. *)
Handed(t, p, c, k) ==
  /\ k < c => Layout(t, p, k)
  /\ k = c => Torn(t, p, c)
  /\ k > c => Adrift(t, p, c)

(***************************************************************************)
(* A command in front of c is joined to its neighbours as it should be; c  *)
(* reads its pipe and writes a terminal, or the outfile if it is the last; *)
(* and one behind c reads no file, and no pipe of a link up to c.          *)
(***************************************************************************)
Joined(c, k) ==
  /\ cpc[k] = "forked" => Handed(cfd[k], cpipe[k], c, k)
  /\ Ready(k) =>
       /\ k < c => Streams(cfd[k], k)
       /\ k = c => /\ cfd[k][STDIN] = ReadEnd(Link(c))
                   /\ cfd[k][STDOUT] = IF c = nb_cmds - 1 THEN Outfile ELSE Terminal
       /\ k > c => Beyond(cfd[k][STDIN], c)

(* The pipeline ends at command c. *)
Severed(c) ==
  /\ c \in 2 .. nb_cmds - 1 /\ npipe >= c
  /\ main = "malcolm" => i + 1 >= c /\ Handed(fd, pipe, c, i + 1)
  /\ main \in {"renew", "fork_last"} => i >= c /\ Handed(fd, pipe, c, i)
  /\ \A k \in Cmds : Joined(c, k)

(***************************************************************************)
(* All of it.  No pipe is refused for want of room in the table.           *)
(***************************************************************************)
PipexInv ==
  /\ CoreInv /\ TempInv
  /\ ~PipeLost => ParentPlumbing /\ ChildPlumbing
  /\ PipeLost => \E c \in Cmds : Severed(c)
  /\ "pipe" \notin Faults => ~PipeLost

-----------------------------------------------------------------------------
(* The messages the statuses ret of the first m commands call for are printed. *)
Reported(m, ret) ==
  \A k \in Cmds : k < m =>
    Reports(k, ret[k], mode, IF k < parsed THEN "command" ELSE "(null)") \subseteq reports

(***************************************************************************)
(* The loop of ft_wait_error: the commands below i have been waited for,   *)
(* their statuses have been recorded and reported, err is the verdict on   *)
(* them; and no child is reaped out of its turn unless a fork failed.      *)
(***************************************************************************)
WaitInv ==
  /\ main = "wait" =>
       /\ err = Partial(i, nb_cmds, child_ret)
       /\ Reported(i, child_ret)
       /\ \A k \in Cmds : k < i /\ child_pids[k] = k + 1 => cpc[k] = "reaped"
       /\ NoForkFailed => \A k \in Cmds : k < i => child_ret[k] = status[k]
  /\ \A k \in Cmds : cpc[k] = "reaped" =>
       /\ main \in {"wait", "exited"}
       /\ NoForkFailed /\ main = "wait" => k < i

(* A command that was not found says so with its status. *)
FateInv == \A k \in Cmds : fate[k] = "no_cmd" => status[k] = NotFound

(* What holds for good once the parent has left. *)
EndInv ==
  /\ NoOrphans
  /\ Waited /\ NoForkFailed => code = Verdict(nb_cmds, status) /\ Reported(nb_cmds, status)

(* What is known of ft_wait_error: the exit status, the messages, the reaping. *)
AnswerInv == CoreInv /\ WaitInv /\ FateInv /\ EndInv

=============================================================================
