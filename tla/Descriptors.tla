---------------------------- MODULE Descriptors ----------------------------
(***************************************************************************)
(* The descriptor table of one Unix process, as pipex uses it: open(2),    *)
(* pipe(2), dup2(2), close(2) and the inheritance of the table by fork(2). *)
(* The kernel is not part of the repository: these operators say what the  *)
(* calls in src/ rely on.  A table maps every descriptor number to the     *)
(* open file behind it, or to Closed.                                      *)
(***************************************************************************)
EXTENDS Integers, Sequences

CONSTANT MaxFd            \* the largest descriptor number a process may hold

ASSUME MaxFdAssumption == MaxFd \in Nat /\ MaxFd >= 2

Fd == 0 .. MaxFd

STDIN  == 0
STDOUT == 1
STDERR == 2

(***************************************************************************)
(* What a descriptor can refer to.  Pipes are numbered in the order in     *)
(* which main creates them, from 1.  <<"temp", 0>> is a TEMP_FILE left by  *)
(* an earlier run, <<"temp", 1>> the one this run has written.             *)
(***************************************************************************)
Closed   == <<"closed", 0>>
Terminal == <<"terminal", 0>>
Infile   == <<"infile", 0>>
Outfile  == <<"outfile", 0>>
TempOf(v)   == <<"temp", v>>
ReadEnd(p)  == <<"read", p>>
WriteEnd(p) == <<"write", p>>

File == {"closed", "terminal", "infile", "outfile", "temp", "read", "write"} \X Nat

Table == [Fd -> File]

NoFds == [f \in Fd |-> Closed]

(* The table pipex is started with: the three standard streams. *)
StdFds == [f \in Fd |-> IF f <= STDERR THEN Terminal ELSE Closed]

IsFree(t, f) == f \in Fd /\ t[f] = Closed

(* The kernel hands out the lowest free number. *)
IsLowest(t, f) == IsFree(t, f) /\ \A g \in Fd : IsFree(t, g) => f <= g

TableFull(t) == ~ \E f \in Fd : IsFree(t, f)

(* pipe(2): r and w are the two lowest free numbers, r the lower one. *)
IsPipePair(t, r, w) ==
  /\ IsLowest(t, r)
  /\ IsFree(t, w) /\ r # w
  /\ \A g \in Fd : IsFree(t, g) /\ g # r => w <= g

(* dup2(2): a closed source leaves the table alone (EBADF). *)
Dup2(t, old, new) == IF t[old] = Closed THEN t ELSE [t EXCEPT ![new] = t[old]]

Close(t, f) == [t EXCEPT ![f] = Closed]

(***************************************************************************)
(* close(s[1]) || close(s[2]) || ... : the chain stops at the first close  *)
(* that fails, which is the first descriptor that is not open any more.    *)
(***************************************************************************)
CloseChain(t, s) ==
  LET Open(j) == t[s[j]] # Closed /\ \A l \in 1 .. (j - 1) : s[l] # s[j]
      Done(j) == \A m \in 1 .. j : Open(m)
  IN [f \in Fd |-> IF \E j \in 1 .. Len(s) : s[j] = f /\ Done(j) THEN Closed ELSE t[f]]

(* Does a process with table t hold the open file d? *)
Holds(t, d) == \E f \in Fd : t[f] = d

=============================================================================
