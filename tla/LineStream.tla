----------------------------- MODULE LineStream -----------------------------
(***************************************************************************)
(* What a caller of ft_get_next_line relies on: each call hands out the    *)
(* next line of the descriptor, from the first byte not yet handed out to  *)
(* the next newline or to the end of the input, and NULL comes only when   *)
(* there is nothing left.  Once something has failed a caller may get less *)
(* but never a byte twice or out of order.  A line is the sequence of the  *)
(* positions of its bytes, so that a byte lost, repeated or moved shows.   *)
(***************************************************************************)
EXTENDS Naturals, Sequences, FiniteSetsExt

CONSTANTS
  Fds,      \* descriptors
  Inputs    \* what may be read from one, a set of sequences over Byte

Byte == {"d", "x", "nl", "nul"}      \* newline, zero and two others

VARIABLES
  input,    \* input[fd]: all that will ever be read from fd
  out,      \* out[fd]: the lines handed out so far
  ended,    \* ended[fd]: NULL was returned for fd
  failed    \* the failures so far, of any call

vars == <<input, out, ended, failed>>

Init ==
  /\ input \in [Fds -> Inputs]
  /\ out = [fd \in Fds |-> << >>]
  /\ ended = [fd \in Fds |-> FALSE]
  /\ failed = {}

Given(fd) ==
  LET lines == out[fd]
      line  == lines[Len(lines)]
  IN  IF lines = << >> THEN 0 ELSE line[Len(line)]

EndOfLine(text, n) ==
  Min({Len(text)} \cup {p \in n + 1 .. Len(text) : text[p] = "nl"})

Deliver(fd) ==
  /\ failed = {} /\ ~ended[fd] /\ Given(fd) < Len(input[fd])
  /\ LET n == Given(fd)
         e == EndOfLine(input[fd], n)
     IN  out' = [out EXCEPT ![fd] = Append(@, [i \in 1 .. e - n |-> n + i])]
  /\ UNCHANGED <<input, ended, failed>>

End(fd) ==
  /\ failed = {} /\ ~ended[fd] /\ Given(fd) = Len(input[fd])
  /\ ended' = [ended EXCEPT ![fd] = TRUE]
  /\ UNCHANGED <<input, out, failed>>

\* lines is longer than before by nothing, or by bytes that come later
Shortened(fd, lines) ==
  \/ lines = out[fd]
  \/ LET line == lines[Len(lines)]
     IN  /\ lines = Append(out[fd], line)
         /\ \A i \in DOMAIN line :
              line[i] \in (IF i = 1 THEN Given(fd) ELSE line[i - 1]) + 1 .. Len(input[fd])

Fail(fd) ==
  /\ failed' # {} /\ failed \subseteq failed'
  /\ ~ended[fd] /\ Shortened(fd, out'[fd])
  /\ out' = [out EXCEPT ![fd] = out'[fd]]
  /\ ended' \in {ended, [ended EXCEPT ![fd] = TRUE]}
  /\ UNCHANGED input

Next == \E fd \in Fds : Deliver(fd) \/ End(fd) \/ Fail(fd)

Safety == Init /\ [][Next]_vars

Spec == Safety /\ \A fd \in Fds : WF_vars(Deliver(fd) \/ End(fd))
=============================================================================
