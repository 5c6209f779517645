----------------------------- MODULE ExitStatus -----------------------------
(***************************************************************************)
(* pipex_error.c: how the wait statuses of the commands become the exit    *)
(* status of pipex and the messages it prints.  A wait status is the exit  *)
(* code 0 .. 255, or Killed when the child was ended by a signal, which is *)
(* all that WIFEXITED and WEXITSTATUS tell apart.                          *)
(***************************************************************************)
EXTENDS Integers

ENOENT == 2
ENOMEM == 12
EACCES == 13
EMFILE == 24
EPIPE  == 32
NotFound == 127

Killed == 256
Code   == 0 .. 255
Status == Code \cup {Killed}

(* exit(n) keeps the low eight bits of n; exit(-1) is 255. *)
ExitCodeUncut(n) == n                                      \* mutant: all the bits
ExitCode(n) == n % 256

WIFEXITED(st) == st # Killed

(***************************************************************************)
(* ft_errno_127 and ft_errno_1_2_13, in the order ft_wait_error calls them *)
(* for the i-th of n commands, e being the verdict so far.                 *)
(***************************************************************************)
(* Mutant: the two tests in the other order, so that 1 overwrites 127. *)
Errno127Reversed(i, st, n, e) == IF st = NotFound /\ i # 0 THEN 1 ELSE e

Errno127(i, st, n, e) ==
  IF st = NotFound /\ i = n - 1 THEN NotFound
  ELSE IF st = NotFound /\ i # 0 THEN 1
  ELSE e

(* Mutant: an exit code 1 clears the verdict for every command. *)
Errno1213Clears(i, st, e) ==
  IF st \in {ENOENT, EACCES} /\ i # 0 THEN 1
  ELSE IF st = 1 THEN 0
  ELSE e

Errno1213(i, st, e) ==
  IF st \in {1, ENOENT, EACCES} /\ i # 0 THEN 1
  ELSE IF st = 1 THEN 0
  ELSE e

NextErr(i, st, n, e) ==
  IF WIFEXITED(st) THEN Errno1213(i, st, Errno127(i, st, n, e)) ELSE e

(***************************************************************************)
(* The file name ft_errno_1_2_13 puts in its message.  The second branch   *)
(* is in the code and cannot be taken; in here_doc mode infile is NULL,    *)
(* which is printed as (null).                                             *)
(***************************************************************************)
BlamedFileFromOne(i, mode) == IF i = 1 THEN "infile" ELSE "outfile"   \* mutant: off by one
BlamedFile(i, mode) ==
  IF i = 0 THEN (IF mode = "here_doc" THEN "(null)" ELSE "infile")
  ELSE IF i = 0 /\ mode = "here_doc" THEN "TEMP_FILE"
  ELSE "outfile"

(* The messages printed for the i-th command; cmd is cmds[i] or "(null)". *)
Reports(i, st, mode, cmd) ==
  IF st = NotFound THEN {<<i, cmd>>}
  ELSE IF st \in {ENOENT, EACCES} THEN {<<i, BlamedFile(i, mode)>>}
  ELSE {}

-----------------------------------------------------------------------------
(***************************************************************************)
(* What the loop amounts to, without the loop: the last command decides    *)
(* with 127 or with 1, 2 or 13; a failed command strictly between the      *)
(* first and the last one makes it 1; the first command never counts.      *)
(* Partial is the verdict after the first m of n statuses.                 *)
(***************************************************************************)
Failure == {1, ENOENT, EACCES, NotFound}

Partial(m, n, ret) ==
  IF m = n /\ ret[n - 1] = NotFound THEN NotFound
  ELSE IF \E j \in 1 .. (m - 1) : ret[j] \in Failure THEN 1 ELSE 0

Verdict(n, ret) == Partial(n, n, ret)

=============================================================================
