---------------------------- MODULE GetNextLine ----------------------------
(***************************************************************************)
(* ft_get_next_line: one static buffer per descriptor that keeps what was  *)
(* read behind the last line, reads of any size up to BUFFER_SIZE, and a   *)
(* malloc that may fail at each of its five calls.  A string is the        *)
(* sequence of the positions of its bytes in the input; what the C string  *)
(* functions do with a zero byte is in CString.  Calls come one at a time, *)
(* for any descriptor, until NULL is returned for it.                      *)
(***************************************************************************)
EXTENDS Integers, Sequences, SequencesExt

CONSTANTS
  Fds, Inputs,   \* see LineStream
  BufferSize,    \* BUFFER_SIZE of libft.h
  Faults,        \* what may go wrong, a subset of FaultKinds
  Null           \* the pointer

Byte == {"d", "x", "nl", "nul"}      \* newline, zero and two others

\* "eof" is a read that returns 0 before the end, as a terminal does on ^D
FaultKinds == {"malloc", "read", "eof"}

ASSUME LineAssumption ==
  /\ BufferSize \in Nat \ {0} /\ Faults \subseteq FaultKinds
  /\ Inputs \subseteq Seq(Byte)
  /\ Null \notin Seq(Nat)

VARIABLES
  input,      \* input[fd]: the bytes of the descriptor
  rd,         \* rd[fd]: how many of them read() has handed over
  stbuff,     \* the static array: stbuff[fd] is Null or a string
  pc,         \* "idle", "read", "split" or "crashed"
  cur,        \* the descriptor of the call in progress
  full_buff,  \* local of ft_read_if_no_nl
  res_read,   \* local of ft_read_if_no_nl
  ret,        \* ret[fd]: what the last call returned
  out,        \* out[fd]: the lines returned so far (history)
  failed      \* what has gone wrong so far (history)

vars == <<input, rd, stbuff, pc, cur, full_buff, res_read, ret, out, failed>>

Strings == Seq(Nat \ {0})
Pointers == {Null} \cup Strings

(* The buffers hold bytes of the input or are NULL, and no read hands over *)
(* more than BUFFER_SIZE bytes.                                            *)
TypeOK ==
  /\ input \in [Fds -> Inputs]
  /\ rd \in [Fds -> Nat] /\ \A fd \in Fds : rd[fd] <= Len(input[fd])
  /\ pc \in {"idle", "read", "split", "crashed"}
  /\ cur \in Fds
  /\ stbuff \in [Fds -> Pointers] /\ ret \in [Fds -> Pointers] /\ full_buff \in Pointers
  /\ out \in [Fds -> Seq(Strings)]
  /\ res_read \in -1 .. BufferSize
  /\ failed \subseteq FaultKinds

Init ==
  /\ input \in [Fds -> Inputs]
  /\ rd = [fd \in Fds |-> 0]
  /\ stbuff = [fd \in Fds |-> Null]
  /\ pc = "idle" /\ cur \in Fds /\ full_buff = Null /\ res_read = 0
  /\ ret = [fd \in Fds |-> << >>]
  /\ out = [fd \in Fds |-> << >>]
  /\ failed = {}

-----------------------------------------------------------------------------
(* strings *)

\* what ft_strlen, ft_strjoin and ft_strchr see of a chunk: up to the first zero
CString(fd, s) ==
  LET z == SelectInSeq(s, LAMBDA p : input[fd][p] = "nul") IN IF z = 0 THEN s ELSE SubSeq(s, 1, z - 1)

\* 1 + the offset of the first newline, 0 when ft_strchr returns NULL
NewLine(fd, s) == SelectInSeq(s, LAMBDA p : input[fd][p] = "nl")

MayFail(f) == {FALSE} \cup (IF f \in Faults THEN {TRUE} ELSE {})

Blame(f, bad) == failed' = IF bad THEN failed \cup {f} ELSE failed

-----------------------------------------------------------------------------
(* ft_get_next_line up to the call of ft_read_if_no_nl *)
Call(fd) ==
  /\ pc = "idle" /\ ret[fd] # Null
  /\ cur' = fd
  /\ \E bad \in MayFail("malloc") :
       LET fresh == stbuff[fd] = Null
           start == IF fresh THEN << >> ELSE stbuff[fd]
       IN  /\ bad => fresh
           /\ Blame("malloc", bad)
           /\ IF bad
              THEN /\ ret' = [ret EXCEPT ![fd] = Null]
                   /\ UNCHANGED <<stbuff, pc, full_buff, res_read>>
              ELSE /\ stbuff' = [stbuff EXCEPT ![fd] = start]
                   /\ full_buff' = start /\ res_read' = 1 /\ pc' = "read"
                   /\ UNCHANGED ret
  /\ UNCHANGED <<input, rd, out>>

\* mutant: read() is given the room of the terminator as well
ReadSizesPlusOne == 1 .. BufferSize + 1

\* the byte counts read() may return, the size of the chunk being BufferSize + 1
ReadSizes == 1 .. BufferSize

\* mutant: end of file does not end the loop
KeepReadingAtEof == NewLine(cur, full_buff) = 0 /\ res_read >= 0

\* the loop condition of ft_read_if_no_nl
KeepReading == NewLine(cur, full_buff) = 0 /\ res_read > 0

\* one turn of the loop: ft_read
Read ==
  LET text == input[cur] IN
  /\ pc = "read" /\ full_buff # Null /\ KeepReading
  /\ \/ /\ "malloc" \in Faults           \* no memory for the chunk
        /\ full_buff' = Null
        /\ Blame("malloc", TRUE)
        /\ UNCHANGED <<rd, res_read>>
     \/ \E n \in ReadSizes, bad \in MayFail("malloc") :    \* bytes, and ft_strjoin
        /\ rd[cur] + n <= Len(text)
        /\ rd' = [rd EXCEPT ![cur] = @ + n]
        /\ res_read' = n
        /\ LET chunk == [i \in 1 .. n |-> rd[cur] + i]
           IN  full_buff' = IF bad THEN Null ELSE full_buff \o CString(cur, chunk)
        /\ Blame("malloc", bad)
     \/ /\ rd[cur] = Len(text) \/ "eof" \in Faults
        /\ res_read' = 0
        /\ Blame("eof", rd[cur] < Len(text))
        /\ UNCHANGED <<rd, full_buff>>
     \/ /\ "read" \in Faults
        /\ res_read' = -1
        /\ Blame("read", TRUE)
        /\ UNCHANGED <<rd, full_buff>>
  /\ UNCHANGED <<input, stbuff, pc, cur, ret, out>>

\* the loop condition applies ft_strchr to what ft_read returned
Crash ==
  /\ pc = "read" /\ full_buff = Null
  /\ pc' = "crashed"
  /\ UNCHANGED <<input, rd, stbuff, cur, full_buff, res_read, ret, out, failed>>

\* mutant: a read that failed is not the end
AtEndUnlessError == res_read = 0 /\ full_buff = << >>

\* ft_read_if_no_nl frees the buffer and returns NULL
AtEnd == res_read = -1 \/ (res_read = 0 /\ full_buff = << >>)

\* mutant: a NULL is not stored, and the freed buffer stays in the array
StoredUnlessNull == IF AtEnd THEN stbuff[cur] ELSE full_buff

\* what the caller stores in stbuff
Stored == IF AtEnd THEN Null ELSE full_buff

\* ft_read_if_no_nl behind its loop
LoopDone ==
  /\ pc = "read" /\ full_buff # Null /\ ~KeepReading
  /\ stbuff' = [stbuff EXCEPT ![cur] = Stored]
  /\ full_buff' = Null
  /\ ret' = IF AtEnd THEN [ret EXCEPT ![cur] = Null] ELSE ret
  /\ pc' = IF AtEnd THEN "idle" ELSE "split"
  /\ UNCHANGED <<input, rd, cur, res_read, out, failed>>

\* ft_ret_val: the line, or Null; and nbr_nl, here 0 where the code has -1
RetVal(s) ==
  LET nl == NewLine(cur, s) IN IF nl = 0 THEN s ELSE SubSeq(s, 1, nl)

\* mutant: the newline stays in the buffer, and the next call returns it again
FillBufferFromNewline(s) ==
  LET nl == NewLine(cur, s)
  IN  IF nl = 0 \/ nl = Len(s) THEN Null ELSE SubSeq(s, nl, Len(s))

\* mutant: the rest behind the line is not kept
FillBufferNone(s) == Null

\* ft_fill_buffer: what stays behind the newline; no empty string is kept
FillBuffer(s) ==
  LET nl == NewLine(cur, s)
  IN  IF nl = 0 \/ nl = Len(s) THEN Null ELSE SubSeq(s, nl + 1, Len(s))

\* the two ft_substr, each with a malloc that may fail
Split ==
  LET s    == stbuff[cur]
      rest == FillBuffer(s)
  IN
  /\ pc = "split" /\ pc' = "idle"
  /\ \E noLine, noRest \in MayFail("malloc") :
       /\ noRest => rest # Null
       /\ ret' = [ret EXCEPT ![cur] = IF noLine THEN Null ELSE RetVal(s)]
       /\ out' = IF noLine THEN out ELSE [out EXCEPT ![cur] = Append(@, RetVal(s))]
       /\ stbuff' = [stbuff EXCEPT ![cur] = IF noRest THEN Null ELSE rest]
       /\ Blame("malloc", noLine \/ noRest)
  /\ UNCHANGED <<input, rd, cur, full_buff, res_read>>

Finished == pc = "crashed" \/ (pc = "idle" /\ \A fd \in Fds : ret[fd] = Null)

Step == (\E fd \in Fds : Call(fd)) \/ Read \/ Crash \/ LoopDone \/ Split

Next == Step \/ (Finished /\ UNCHANGED vars)

Spec == Init /\ [][Next]_vars

\* a caller that goes on until it gets NULL, and a process that is scheduled and
\* need not fail to get on
FairSpec == Spec /\ WF_vars(Step /\ failed' = failed)

-----------------------------------------------------------------------------
\* the bytes of fd that were read and wait for a later call, or the end of this one
Held(fd) ==
  LET s == IF pc \in {"read", "crashed"} /\ cur = fd THEN full_buff ELSE stbuff[fd]
  IN  IF s = Null THEN << >> ELSE s

InFront(s, t) == \A i \in DOMAIN s, j \in DOMAIN t : s[i] < t[j]

Sorted(fd, s) ==
  \A i \in DOMAIN s : s[i] <= rd[fd] /\ \A j \in DOMAIN s : i < j => s[i] < s[j]

(* Whatever fails and wherever a call is, the bytes returned and the bytes *)
(* buffered are in the order of the input, none twice, and no byte that    *)
(* was not read yet is among them.                                         *)
LinesInOrder ==
  \A fd \in Fds :
    /\ Sorted(fd, Held(fd))
    /\ \A n \in DOMAIN out[fd] :
         /\ Sorted(fd, out[fd][n]) /\ InFront(out[fd][n], Held(fd))
         /\ \A m \in 1 .. n - 1 : InFront(out[fd][m], out[fd][n])

(* The invariant to build on.                                              *)
LineInv == TypeOK /\ LinesInOrder

(* Unless a malloc or a read fails, a byte that was read is returned or    *)
(* buffered.  The exception is a chunk with a zero byte: ft_strjoin stops  *)
(* there, and the zero and the rest of the chunk are dropped.              *)
NothingLost ==
  failed \subseteq {"eof"} =>
    \A fd \in Fds : \A p \in 1 .. rd[fd] :
      \/ p \in ToSet(Held(fd)) \/ \E n \in DOMAIN out[fd] : p \in ToSet(out[fd][n])
      \/ \E q \in p - BufferSize + 1 .. p : q > 0 /\ input[fd][q] = "nul"

(* What is returned is a line: not empty, a newline nowhere but at its     *)
(* end, and without one only if the input ended there.                     *)
LinesWhole ==
  \A fd \in Fds : \A n \in DOMAIN out[fd] :
    LET line == out[fd][n] IN
    /\ line # << >>
    /\ \A i \in 1 .. Len(line) - 1 : input[fd][line[i]] # "nl"
    /\ \/ input[fd][line[Len(line)]] = "nl"
       \/ n = Len(out[fd]) /\ rd[fd] = Len(input[fd])
       \/ "eof" \in failed

(* NULL means the end: the input was read to its end unless something      *)
(* failed, the static buffer was released unless a malloc failed, and the  *)
(* NULL of a failed malloc is all that ft_strchr can crash on.             *)
EndsClean ==
  /\ \A fd \in Fds : pc = "idle" /\ ret[fd] = Null =>
       /\ failed = {} => rd[fd] = Len(input[fd])
       /\ "malloc" \notin failed => stbuff[fd] = Null
  /\ pc = "crashed" => "malloc" \in failed

(* Without zero bytes ft_get_next_line implements LineStream, for several  *)
(* descriptors whose calls are mixed: line by line to the end while        *)
(* nothing has failed, and nothing twice or out of order afterwards.       *)
Stream == INSTANCE LineStream WITH ended <- [fd \in Fds |-> ret[fd] = Null]

StreamSpec == Stream!Spec
=============================================================================
