-------------------------- MODULE GetNextLineProofs --------------------------
(***************************************************************************)
(* Proofs about ft_get_next_line and about ft_here_doc_inp, which calls    *)
(* it: for inputs of any length, any BUFFER_SIZE, any set of descriptors   *)
(* whose calls are mixed, and every failure the model has.                 *)
(***************************************************************************)
EXTENDS HereDocInput, SequenceTheorems, WellFoundedInduction, TLAPS

(***************************************************************************)
(* The inductive invariant.  What a call knows of its own progress: a NULL *)
(* buffer is a malloc that failed, a read that brought nothing is the end  *)
(* or a failure, and what is split is a line or all there is.              *)
(***************************************************************************)
CallInv ==
  /\ pc \in {"idle", "split"} => full_buff = Null
  /\ pc \in {"read", "split"} => ret[cur] # Null
  /\ pc = "read" /\ full_buff = Null => "malloc" \in failed
  /\ pc = "crashed" => full_buff = Null /\ "malloc" \in failed
  /\ pc = "read" /\ res_read = -1 => "read" \in failed
  /\ pc = "read" /\ res_read = 0 => rd[cur] = Len(input[cur]) \/ "eof" \in failed
  /\ pc = "split" =>
       /\ stbuff[cur] # Null /\ stbuff[cur] # << >>
       /\ \/ NewLine(cur, stbuff[cur]) # 0
          \/ rd[cur] = Len(input[cur]) \/ "eof" \in failed

(* NULL was returned: for any of them, at any time from then on. *)
NullInv ==
  \A fd \in Fds : ret[fd] = Null =>
    /\ failed = {} => rd[fd] = Len(input[fd])
    /\ "malloc" \notin failed => stbuff[fd] = Null

(***************************************************************************)
(* A line without a newline is the last one that can come: nothing waits   *)
(* behind it and nothing is left to read.                                  *)
(***************************************************************************)
WholeInv ==
  \A fd \in Fds : \A n \in DOMAIN out[fd] :
    LET line == out[fd][n] IN
    /\ line # << >>
    /\ \A i \in 1 .. Len(line) - 1 : input[fd][line[i]] # "nl"
    /\ \/ input[fd][line[Len(line)]] = "nl"
       \/ n = Len(out[fd]) /\ rd[fd] = Len(input[fd]) /\ Held(fd) = << >>
       \/ "eof" \in failed

InCall(fd) == pc \in {"read", "split"} /\ cur = fd

(* Between two calls less than one buffer waits, and during one less than  *)
(* one buffer behind any newline.                                          *)
TightInv ==
  \A fd \in Fds :
    LET s == Held(fd) IN
    \/ Len(s) < BufferSize
    \/ InCall(fd) /\ \A k \in 1 .. Len(s) : input[fd][s[k]] = "nl" => Len(s) - k < BufferSize

(***************************************************************************)
(* Without zero bytes and before a malloc or a read has failed what waits  *)
(* is all that was read behind the last byte that was returned.            *)
(***************************************************************************)
LastByte(o) == IF o = << >> THEN 0 ELSE o[Len(o)][Len(o[Len(o)])]

GapInv ==
  \A fd \in Fds :
    failed \subseteq {"eof"} /\ (\A p \in 1 .. Len(input[fd]) : input[fd][p] # "nul") =>
      /\ Len(Held(fd)) = rd[fd] - LastByte(out[fd])
      /\ \A i \in 1 .. Len(Held(fd)) : Held(fd)[i] = LastByte(out[fd]) + i

Inv == TypeOK /\ CallInv /\ NullInv /\ WholeInv /\ LinesInOrder /\ NothingLost /\ TightInv /\ GapInv

-----------------------------------------------------------------------------
(***************************************************************************)
(* Strings.                                                                *)
(***************************************************************************)

(* NULL is no string, and a string holds positions. *)
LEMMA StringIs ==
  ASSUME NEW s \in Strings
  PROVE  /\ s # Null /\ s \in Seq(Nat) /\ Len(s) \in Nat /\ DOMAIN s = 1 .. Len(s)
         /\ \A i \in 1 .. Len(s) : s[i] \in Nat \ {0}
         /\ s # << >> <=> Len(s) > 0
<1>1. s \in Seq(Nat \ {0})
  BY DEF Strings
<1>2. Len(s) \in Nat /\ DOMAIN s = 1 .. Len(s) /\ s \in [1 .. Len(s) -> Nat \ {0}]
  BY <1>1, LenProperties
<1>3. s \in [1 .. Len(s) -> Nat]
  BY <1>2
<1>4. s \in Seq(Nat)
  BY <1>2, <1>3, SeqDef
<1>5. s # Null
  BY <1>4, LineAssumption
<1>6. \A i \in 1 .. Len(s) : s[i] \in Nat \ {0}
  BY <1>2
<1>7. s # << >> <=> Len(s) > 0
  BY <1>1, <1>2, EmptySeq
<1>8. QED
  BY <1>2, <1>4, <1>5, <1>6, <1>7

(* Part of a string. *)
LEMMA PartIs ==
  ASSUME NEW s \in Strings, NEW a \in 0 .. Len(s), NEW b \in a .. Len(s)
  PROVE  /\ SubSeq(s, a + 1, b) \in Strings /\ Len(SubSeq(s, a + 1, b)) = b - a
         /\ \A i \in 1 .. b - a : SubSeq(s, a + 1, b)[i] = s[a + i]
<1>1. /\ Len(s) \in Nat /\ a \in Nat /\ b \in Nat /\ a <= b /\ b <= Len(s)
      /\ a + 1 \in Int /\ b \in Int
  BY StringIs
<1>2. \A i \in a + 1 .. b : s[i] \in Nat \ {0}
  <2>1. ASSUME NEW i \in a + 1 .. b PROVE i \in 1 .. Len(s)
    BY <1>1
  <2>2. QED
    BY <2>1, StringIs
<1> DEFINE w == SubSeq(s, a + 1, b)
<1>3. /\ w \in Seq(Nat \ {0}) /\ Len(w) = IF a + 1 <= b THEN b - (a + 1) + 1 ELSE 0
      /\ \A i \in 1 .. b - (a + 1) + 1 : w[i] = s[a + 1 + i - 1]
  BY <1>1, <1>2, SubSeqProperties
<1> HIDE DEF w
<1>4. Len(w) = b - a /\ b - (a + 1) + 1 = b - a
  BY <1>1, <1>3
<1>5. ASSUME NEW i \in 1 .. b - a PROVE w[i] = s[a + i]
  <2>1. a + 1 + i - 1 = a + i
    BY <1>1
  <2>2. QED
    BY <1>3, <1>4, <2>1
<1>6. QED
  BY <1>3, <1>4, <1>5 DEF w, Strings

(* A set of indices has a least one, and it is what Min chooses. *)
LEMMA LeastIndex ==
  ASSUME NEW n \in Nat, NEW I \in SUBSET (1 .. n), I # {}
  PROVE  Min(I) \in I /\ \A y \in I : Min(I) <= y
<1> DEFINE R == OpToRel(<, Nat)
<1>1. \A x, y \in Nat : <<y, x>> \in R <=> y < x
  BY DEF OpToRel
<1>2. IsWellFoundedOn(R, Nat)
  BY NatLessThanWellFounded
<1> HIDE DEF R
<1>3. I \subseteq Nat /\ I # {}
  OBVIOUS
<1>4. PICK k \in I : \A y \in I : ~(<<y, k>> \in R)
  BY <1>2, <1>3, WFMin
<1>5. \A y \in I : k <= y
  <2>1. ASSUME NEW y \in I PROVE k <= y
    <3>1. k \in Nat /\ y \in Nat /\ ~(y < k)
      BY <1>1, <1>3, <1>4
    <3>2. QED
      BY <3>1
  <2>2. QED
    BY <2>1
<1>6. QED
  BY <1>5 DEF Min

(* The first newline of a string, 0 if it has none. *)
LEMMA NewLineIs ==
  ASSUME NEW fd, NEW s \in Strings
  PROVE  /\ NewLine(fd, s) \in 0 .. Len(s)
         /\ NewLine(fd, s) = 0 => \A i \in 1 .. Len(s) : input[fd][s[i]] # "nl"
         /\ NewLine(fd, s) # 0 => /\ input[fd][s[NewLine(fd, s)]] = "nl"
                                  /\ \A i \in 1 .. NewLine(fd, s) - 1 : input[fd][s[i]] # "nl"
<1> DEFINE I == {i \in 1..Len(s) : input[fd][s[i]] = "nl"}
           z == Min(I)
<1>1. NewLine(fd, s) = IF I # {} THEN z ELSE 0
  BY DEF NewLine, SelectInSeq
<1>2. Len(s) \in Nat
  BY StringIs
<1>3. I # {} => z \in I /\ \A y \in I : z <= y
  BY <1>2, LeastIndex
<1> HIDE DEF z
<1>4. CASE I = {}
  BY <1>1, <1>2, <1>4
<1>5. CASE I # {}
  <2>1. /\ NewLine(fd, s) = z /\ z \in 1 .. Len(s) /\ input[fd][s[z]] = "nl"
        /\ \A i \in 1 .. Len(s) : input[fd][s[i]] = "nl" => z <= i
    BY <1>1, <1>3, <1>5
  <2>2. ASSUME NEW i \in 1 .. z - 1 PROVE input[fd][s[i]] # "nl"
    <3>1. i \in 1 .. Len(s) /\ ~(z <= i)
      BY <1>2, <2>1
    <3>2. QED
      BY <2>1, <3>1
  <2>3. QED
    BY <1>2, <2>1, <2>2
<1>6. QED
  BY <1>4, <1>5

(* A chunk loses its first zero byte and what is behind it. *)
LEMMA CStringIs ==
  ASSUME NEW fd, NEW s \in Strings
  PROVE  \E m \in 0 .. Len(s) :
           /\ CString(fd, s) \in Strings /\ Len(CString(fd, s)) = m
           /\ \A i \in 1 .. m : CString(fd, s)[i] = s[i]
           /\ m = Len(s) \/ (m + 1 <= Len(s) /\ input[fd][s[m + 1]] = "nul")
<1> DEFINE I == {i \in 1..Len(s) : input[fd][s[i]] = "nul"}
           z == Min(I)
<1>1. CString(fd, s) = LET y == IF I # {} THEN z ELSE 0 IN IF y = 0 THEN s ELSE SubSeq(s, 1, y - 1)
  BY DEF CString, SelectInSeq
<1>2. Len(s) \in Nat
  BY StringIs
<1>3. I # {} => z \in I
  BY <1>2, LeastIndex
<1> HIDE DEF z
<1>4. CASE I = {}
  <2>1. CString(fd, s) = s
    BY <1>1, <1>4
  <2>2. QED
    BY <1>2, <2>1
<1>5. CASE I # {}
  <2>1. z \in 1 .. Len(s) /\ input[fd][s[z]] = "nul" /\ z # 0
    BY <1>3, <1>5
  <2>2. PICK m \in 0 .. Len(s) : m = z - 1 /\ m + 1 = z /\ m + 1 <= Len(s)
    BY <1>2, <2>1
  <2>3. CString(fd, s) = SubSeq(s, 0 + 1, m)
    BY <1>1, <1>5, <2>1, <2>2
  <2>4. 0 \in 0 .. Len(s) /\ m \in 0 .. Len(s) /\ m - 0 = m
    BY <1>2, <2>2
  <2>5. /\ CString(fd, s) \in Strings /\ Len(CString(fd, s)) = m - 0
        /\ \A i \in 1 .. m - 0 : CString(fd, s)[i] = s[0 + i]
    BY <2>3, <2>4, PartIs
  <2>6. \A i \in 1 .. m : CString(fd, s)[i] = s[i]
    <3>1. ASSUME NEW i \in 1 .. m PROVE 0 + i = i
      OBVIOUS
    <3>2. QED
      BY <2>4, <2>5, <3>1
  <2>7. QED
    BY <2>1, <2>2, <2>4, <2>5, <2>6
<1>6. QED
  BY <1>4, <1>5

(* Where the first line of a string ends. *)
Cut(s) == IF NewLine(cur, s) = 0 THEN Len(s) ELSE NewLine(cur, s)

Rest(s) == IF FillBuffer(s) = Null THEN << >> ELSE FillBuffer(s)

(* The line and the rest are the two parts of the string. *)
LEMMA SplitIs ==
  ASSUME NEW s \in Strings, s # << >>
  PROVE  /\ Cut(s) \in 1 .. Len(s) /\ RetVal(s) \in Strings /\ Len(RetVal(s)) = Cut(s)
         /\ \A i \in 1 .. Cut(s) : RetVal(s)[i] = s[i]
         /\ Rest(s) \in Strings /\ Len(Rest(s)) = Len(s) - Cut(s)
         /\ \A i \in 1 .. Len(s) - Cut(s) : Rest(s)[i] = s[Cut(s) + i]
         /\ FillBuffer(s) \in Pointers
<1>1. Len(s) \in Nat /\ Len(s) > 0 /\ s \in Seq(Nat) /\ s # Null
  BY StringIs
<1>2. NewLine(cur, s) \in 0 .. Len(s)
  BY NewLineIs
<1> DEFINE k == Cut(s)
<1>3. k \in 1 .. Len(s)
  BY <1>1, <1>2 DEF Cut
<1>4. RetVal(s) \in Strings /\ Len(RetVal(s)) = k /\ \A i \in 1 .. k : RetVal(s)[i] = s[i]
  <2>1. CASE NewLine(cur, s) = 0
    <3>1. RetVal(s) = s /\ k = Len(s)
      BY <2>1 DEF RetVal, Cut
    <3>2. QED
      BY <3>1
  <2>2. CASE NewLine(cur, s) # 0
    <3>0. RetVal(s) = SubSeq(s, 1, k)
      BY <2>2 DEF RetVal, Cut
    <3> HIDE DEF k
    <3>1. RetVal(s) = SubSeq(s, 0 + 1, k)
      BY <3>0
    <3>2. 0 \in 0 .. Len(s) /\ k \in 0 .. Len(s) /\ k - 0 = k /\ \A i \in 1 .. k : 0 + i = i
      BY <1>1, <1>3
    <3>3. QED
      BY <3>1, <3>2, PartIs
  <2>3. QED
    BY <2>1, <2>2
<1>5. << >> \in Strings /\ Len(<< >>) = 0
  BY EmptySeq DEF Strings
<1>6. /\ Rest(s) \in Strings /\ Len(Rest(s)) = Len(s) - k
      /\ \A i \in 1 .. Len(s) - k : Rest(s)[i] = s[k + i]
      /\ FillBuffer(s) \in Pointers
  <2>1. CASE k = Len(s)
    <3>1. FillBuffer(s) = Null
      BY <2>1 DEF FillBuffer, Cut
    <3>2. Rest(s) = << >> /\ Len(s) - k = 0
      BY <1>1, <2>1, <3>1 DEF Rest
    <3>3. QED
      BY <1>5, <3>1, <3>2 DEF Pointers
  <2>2. CASE k # Len(s)
    <3>1. FillBuffer(s) = SubSeq(s, k + 1, Len(s))
      BY <2>2 DEF FillBuffer, Cut
    <3> HIDE DEF k
    <3>2. k \in 0 .. Len(s) /\ Len(s) \in k .. Len(s)
      BY <1>1, <1>3
    <3>3. /\ FillBuffer(s) \in Strings /\ Len(FillBuffer(s)) = Len(s) - k
          /\ \A i \in 1 .. Len(s) - k : FillBuffer(s)[i] = s[k + i]
      BY <3>1, <3>2, PartIs
    <3>4. Rest(s) = FillBuffer(s)
      BY <3>3, StringIs DEF Rest
    <3>5. QED
      BY <3>3, <3>4 DEF Pointers
  <2>3. QED
    BY <2>1, <2>2
<1>7. QED
  BY <1>3, <1>4, <1>6

-----------------------------------------------------------------------------
(***************************************************************************)
(* What a step does to a descriptor.                                       *)
(***************************************************************************)
Chunk(fd, n) == [i \in 1 .. n |-> rd[fd] + i]

\* nothing; a call that ends has nothing buffered
Same(fd) ==
  /\ Held(fd)' = Held(fd) /\ out'[fd] = out[fd] /\ rd'[fd] = rd[fd]
  /\ InCall(fd) => InCall(fd)' \/ Held(fd) = << >>

\* the buffer is lost to a failure
Dropped(fd) ==
  /\ Held(fd)' = << >> /\ out'[fd] = out[fd] /\ rd[fd] <= rd'[fd]
  /\ ~(failed' \subseteq {"eof"})

\* a chunk is read and joined to the buffer
Grown(fd) ==
  /\ InCall(fd) /\ InCall(fd)' /\ NewLine(fd, Held(fd)) = 0
  /\ \E n \in ReadSizes :
       /\ rd[fd] + n <= Len(input[fd]) /\ rd'[fd] = rd[fd] + n
       /\ Held(fd)' = Held(fd) \o CString(fd, Chunk(fd, n))
  /\ out'[fd] = out[fd]

\* the buffer is split into a line and a rest, either of which a malloc may lose
Returned(fd) ==
  /\ pc = "split" /\ fd = cur /\ Held(fd) = stbuff[fd] /\ Held(fd) # << >>
  /\ rd'[fd] = rd[fd]
  /\ \/ out'[fd] = Append(out[fd], RetVal(Held(fd)))
     \/ out'[fd] = out[fd] /\ "malloc" \in failed'
  /\ \/ Held(fd)' = Rest(Held(fd))
     \/ Held(fd)' = << >> /\ "malloc" \in failed'

(* What waits is a string. *)
LEMMA HeldIs ==
  ASSUME TypeOK, NEW fd \in Fds
  PROVE  Held(fd) \in Strings /\ << >> \in Strings /\ << >> # Null
<1>1. << >> \in Strings /\ << >> # Null
  <2>1. << >> \in Strings
    BY EmptySeq DEF Strings
  <2>2. QED
    BY <2>1, StringIs
<1>2. (IF pc \in {"read", "crashed"} /\ cur = fd THEN full_buff ELSE stbuff[fd]) \in Pointers
  BY DEF TypeOK
<1>3. QED
  BY <1>1, <1>2 DEF Held, Pointers

(* A chunk is a string, and joined to the buffer it makes a string. *)
LEMMA GrownIs ==
  ASSUME TypeOK, NEW fd \in Fds, NEW s \in Strings, NEW n \in ReadSizes
  PROVE  /\ Chunk(fd, n) \in Strings /\ Len(Chunk(fd, n)) = n /\ n \in Nat /\ n <= BufferSize
         /\ CString(fd, Chunk(fd, n)) \in Strings
         /\ s \o CString(fd, Chunk(fd, n)) \in Strings
<1>1. n \in Nat /\ rd[fd] \in Nat /\ n <= BufferSize
  BY LineAssumption DEF ReadSizes, TypeOK
<1>2. Chunk(fd, n) \in [1 .. n -> Nat \ {0}]
  BY <1>1 DEF Chunk
<1>3. Chunk(fd, n) \in Strings
  BY <1>1, <1>2, SeqDef DEF Strings
<1>4. Len(Chunk(fd, n)) = n
  BY <1>1, <1>2, <1>3, LenProperties DEF Strings
<1>5. CString(fd, Chunk(fd, n)) \in Strings
  BY <1>3, CStringIs
<1>6. s \o CString(fd, Chunk(fd, n)) \in Strings
  BY <1>5, ConcatProperties DEF Strings
<1>7. QED
  BY <1>1, <1>3, <1>4, <1>5, <1>6

LEMMA TypeStep ==
  ASSUME TypeOK, CallInv, [Next]_vars
  PROVE  TypeOK'
<1>1. << >> \in Strings /\ << >> # Null /\ Null \in Pointers /\ << >> \in Pointers
      /\ \A s \in Strings : s \in Pointers
  BY HeldIs DEF TypeOK, Pointers
<1>2. BufferSize \in Nat /\ BufferSize > 0
  BY LineAssumption
<1>3. ASSUME NEW f \in FaultKinds, NEW bad \in BOOLEAN, Blame(f, bad) PROVE failed' \subseteq FaultKinds
  BY <1>3 DEF Blame, TypeOK
<1>4. \A f : MayFail(f) \subseteq BOOLEAN
  BY DEF MayFail
<1>5. ASSUME NEW fd \in Fds, Call(fd) PROVE TypeOK'
  <2>1. PICK bad \in MayFail("malloc") :
          LET unset == stbuff[fd] = Null
              start == IF unset THEN << >> ELSE stbuff[fd]
          IN  /\ bad => unset
              /\ Blame("malloc", bad)
              /\ IF bad
                 THEN /\ ret' = [ret EXCEPT ![fd] = Null]
                      /\ UNCHANGED <<stbuff, pc, full_buff, res_read>>
                 ELSE /\ stbuff' = [stbuff EXCEPT ![fd] = start]
                      /\ full_buff' = start /\ res_read' = 1 /\ pc' = "read"
                      /\ UNCHANGED ret
    BY <1>5 DEF Call
  <2>2. failed' \subseteq FaultKinds
    BY <1>3, <1>4, <2>1 DEF FaultKinds
  <2>3. (IF stbuff[fd] = Null THEN << >> ELSE stbuff[fd]) \in Pointers
    BY <1>1 DEF TypeOK
  <2>4. cur' = fd /\ UNCHANGED <<input, rd, out>>
    BY <1>5 DEF Call
  <2>5. ret' \in [Fds -> Pointers] /\ stbuff' \in [Fds -> Pointers] /\ full_buff' \in Pointers
    BY <1>1, <2>1, <2>3 DEF TypeOK
  <2>6. res_read' \in -1 .. BufferSize /\ pc' \in {"idle", "read", "split", "crashed"}
    BY <1>2, <2>1 DEF TypeOK
  <2>7. QED
    BY <2>2, <2>4, <2>5, <2>6 DEF TypeOK
<1>6. CASE Read
  <2>1. cur \in Fds /\ full_buff \in Strings /\ UNCHANGED <<input, stbuff, pc, cur, ret, out>>
    BY <1>6 DEF Read, TypeOK, Pointers
  <2>2. SUFFICES /\ rd' \in [Fds -> Nat] /\ \A fd \in Fds : rd'[fd] <= Len(input[fd])
                 /\ full_buff' \in Pointers /\ res_read' \in -1 .. BufferSize
                 /\ failed' \subseteq FaultKinds
    BY <2>1 DEF TypeOK
  <2>3. ASSUME UNCHANGED <<rd>>
        PROVE  rd' \in [Fds -> Nat] /\ \A fd \in Fds : rd'[fd] <= Len(input[fd])
    BY <2>3 DEF TypeOK
  <2>4. CASE full_buff' = Null /\ Blame("malloc", TRUE) /\ UNCHANGED <<rd, res_read>>
    BY <1>1, <1>3, <2>3, <2>4 DEF TypeOK, FaultKinds
  <2>5. ASSUME NEW n \in ReadSizes, NEW bad \in MayFail("malloc"),
               rd[cur] + n <= Len(input[cur]), rd' = [rd EXCEPT ![cur] = @ + n], res_read' = n,
               full_buff' = IF bad THEN Null ELSE full_buff \o CString(cur, Chunk(cur, n)),
               Blame("malloc", bad)
        PROVE  /\ rd' \in [Fds -> Nat] /\ \A fd \in Fds : rd'[fd] <= Len(input[fd])
               /\ full_buff' \in Pointers /\ res_read' \in -1 .. BufferSize
               /\ failed' \subseteq FaultKinds
    <3>1. n \in Nat /\ n <= BufferSize /\ full_buff \o CString(cur, Chunk(cur, n)) \in Strings
      BY <2>1, GrownIs
    <3>2. rd' \in [Fds -> Nat] /\ \A fd \in Fds : rd'[fd] <= Len(input[fd])
      BY <2>1, <2>5, <3>1 DEF TypeOK
    <3>3. failed' \subseteq FaultKinds
      BY <1>3, <1>4, <2>5 DEF FaultKinds
    <3>4. full_buff' \in Pointers
      BY <1>1, <2>5, <3>1
    <3>5. res_read' \in -1 .. BufferSize
      BY <1>2, <2>5, <3>1
    <3>6. QED
      BY <3>2, <3>3, <3>4, <3>5
  <2>6. CASE /\ res_read' = 0 /\ Blame("eof", rd[cur] < Len(input[cur])) /\ UNCHANGED <<rd, full_buff>>
    <3>1. (rd[cur] < Len(input[cur])) \in BOOLEAN
      OBVIOUS
    <3>2. failed' \subseteq FaultKinds
      BY <1>3, <2>6, <3>1 DEF FaultKinds
    <3>3. QED
      BY <1>2, <2>3, <2>6, <3>2 DEF TypeOK
  <2>7. CASE res_read' = -1 /\ Blame("read", TRUE) /\ UNCHANGED <<rd, full_buff>>
    <3>1. failed' \subseteq FaultKinds
      BY <1>3, <2>7 DEF FaultKinds
    <3>2. QED
      BY <1>2, <2>3, <2>7, <3>1 DEF TypeOK
  <2>8. QED
    BY <1>6, <2>4, <2>5, <2>6, <2>7 DEF Read, Chunk
<1>7. CASE Crash
  BY <1>7 DEF Crash, TypeOK
<1>8. CASE LoopDone
  <2>1. Stored \in Pointers
    BY <1>1 DEF Stored, TypeOK
  <2>2. QED
    BY <1>1, <1>8, <2>1 DEF LoopDone, TypeOK
<1>9. CASE Split
  <2>1. cur \in Fds /\ stbuff[cur] \in Strings /\ stbuff[cur] # << >>
    BY <1>9 DEF Split, CallInv, TypeOK, Pointers
  <2>2. RetVal(stbuff[cur]) \in Strings /\ FillBuffer(stbuff[cur]) \in Pointers
    BY <2>1, SplitIs
  <2>3. PICK noLine, noRest \in MayFail("malloc") :
       /\ ret' = [ret EXCEPT ![cur] = IF noLine THEN Null ELSE RetVal(stbuff[cur])]
       /\ out' = IF noLine THEN out ELSE [out EXCEPT ![cur] = Append(@, RetVal(stbuff[cur]))]
       /\ stbuff' = [stbuff EXCEPT ![cur] = IF noRest THEN Null ELSE FillBuffer(stbuff[cur])]
       /\ Blame("malloc", noLine \/ noRest)
    BY <1>9 DEF Split
  <2>4. failed' \subseteq FaultKinds
    BY <1>3, <1>4, <2>3 DEF FaultKinds
  <2>5. out[cur] \in Seq(Strings) /\ Append(out[cur], RetVal(stbuff[cur])) \in Seq(Strings)
    BY <2>1, <2>2, AppendProperties DEF TypeOK
  <2>6. out' \in [Fds -> Seq(Strings)]
    BY <2>1, <2>3, <2>5 DEF TypeOK
  <2>7. QED
    BY <1>1, <1>9, <2>1, <2>2, <2>3, <2>4, <2>6 DEF Split, TypeOK
<1>10. CASE UNCHANGED vars
  BY <1>10 DEF vars, TypeOK
<1>11. QED
  BY <1>5, <1>6, <1>7, <1>8, <1>9, <1>10 DEF Next, Step

(* The control of a call, and what NULL means. *)
LEMMA CallStep ==
  ASSUME TypeOK, CallInv, NullInv, [Next]_vars
  PROVE  CallInv' /\ NullInv' /\ failed \subseteq failed' /\ input' = input
<1>1. << >> # Null /\ \A s \in Strings : s # Null
  BY HeldIs, StringIs DEF TypeOK
<1>2. ASSUME NEW f, NEW bad, Blame(f, bad)
      PROVE  failed \subseteq failed' /\ (bad => f \in failed') /\ (~bad => failed' = failed)
  BY <1>2 DEF Blame
<1>3. ASSUME NEW fd \in Fds, Call(fd)
      PROVE  CallInv' /\ NullInv' /\ failed \subseteq failed' /\ input' = input
  <2>1. PICK bad \in MayFail("malloc") :
          LET unset == stbuff[fd] = Null
              start == IF unset THEN << >> ELSE stbuff[fd]
          IN  /\ bad => unset
              /\ Blame("malloc", bad)
              /\ IF bad
                 THEN /\ ret' = [ret EXCEPT ![fd] = Null]
                      /\ UNCHANGED <<stbuff, pc, full_buff, res_read>>
                 ELSE /\ stbuff' = [stbuff EXCEPT ![fd] = start]
                      /\ full_buff' = start /\ res_read' = 1 /\ pc' = "read"
                      /\ UNCHANGED ret
    BY <1>3 DEF Call
  <2>2. pc = "idle" /\ ret[fd] # Null /\ cur' = fd /\ UNCHANGED <<input, rd, out>>
    BY <1>3 DEF Call
  <2>3. failed \subseteq failed'
    BY <1>2, <2>1
  <2>4. CASE bad
    <3>1. "malloc" \in failed' /\ ret' = [ret EXCEPT ![fd] = Null]
          /\ UNCHANGED <<stbuff, pc, full_buff, res_read>>
      BY <1>2, <2>1, <2>4
    <3>2. CallInv'
      BY <2>2, <3>1 DEF CallInv
    <3>3. NullInv'
      BY <2>2, <2>3, <3>1 DEF NullInv, TypeOK
    <3>4. QED
      BY <2>2, <2>3, <3>2, <3>3
  <2>5. CASE ~bad
    <3>1. /\ failed' = failed /\ pc' = "read" /\ ret' = ret /\ res_read' = 1
          /\ full_buff' = (IF stbuff[fd] = Null THEN << >> ELSE stbuff[fd])
          /\ stbuff' = [stbuff EXCEPT ![fd] = IF stbuff[fd] = Null THEN << >> ELSE stbuff[fd]]
      BY <1>2, <2>1, <2>5
    <3>2. full_buff' # Null
      BY <1>1, <3>1
    <3>3. CallInv'
      BY <2>2, <3>1, <3>2 DEF CallInv
    <3>4. \A g \in Fds : g # fd => stbuff'[g] = stbuff[g]
      BY <3>1 DEF TypeOK
    <3>5. NullInv'
      BY <2>2, <3>1, <3>4 DEF NullInv
    <3>6. QED
      BY <2>2, <2>3, <3>3, <3>5
  <2>6. QED
    BY <2>4, <2>5
<1>4. CASE Read
  <2>1. pc = "read" /\ full_buff \in Strings /\ UNCHANGED <<input, stbuff, pc, cur, ret, out>>
    BY <1>4 DEF Read, TypeOK, Pointers
  <2>2. /\ rd' = rd \/ (\E n \in ReadSizes : rd' = [rd EXCEPT ![cur] = @ + n])
        /\ failed \subseteq failed'
        /\ full_buff' = Null => "malloc" \in failed'
        /\ res_read' = -1 => "read" \in failed'
        /\ res_read' = 0 => rd'[cur] = Len(input[cur]) \/ "eof" \in failed'
    <3>1. CASE full_buff' = Null /\ Blame("malloc", TRUE) /\ UNCHANGED <<rd, res_read>>
      <4>1. res_read > 0
        BY <1>4 DEF Read, KeepReading
      <4>2. res_read # 0 /\ res_read # -1
        BY <4>1
      <4>3. QED
        BY <1>2, <3>1, <4>2
    <3>2. ASSUME NEW n \in ReadSizes, NEW bad \in MayFail("malloc"), rd' = [rd EXCEPT ![cur] = @ + n],
                 res_read' = n,
                 full_buff' = IF bad THEN Null ELSE full_buff \o CString(cur, Chunk(cur, n)),
                 Blame("malloc", bad)
          PROVE  /\ rd' = rd \/ (\E k \in ReadSizes : rd' = [rd EXCEPT ![cur] = @ + k])
                 /\ failed \subseteq failed'
                 /\ full_buff' = Null => "malloc" \in failed'
                 /\ res_read' = -1 => "read" \in failed'
                 /\ res_read' = 0 => rd'[cur] = Len(input[cur]) \/ "eof" \in failed'
      <4>1. cur \in Fds
        BY DEF TypeOK
      <4>2. full_buff \o CString(cur, Chunk(cur, n)) # Null
        BY <1>1, <2>1, <4>1, GrownIs
      <4>3. n # 0 /\ n # -1
        BY LineAssumption DEF ReadSizes
      <4>4. QED
        BY <1>2, <3>2, <4>2, <4>3
    <3>3. CASE /\ res_read' = 0 /\ Blame("eof", rd[cur] < Len(input[cur])) /\ UNCHANGED <<rd, full_buff>>
      <4>1. rd[cur] = Len(input[cur]) \/ rd[cur] < Len(input[cur])
        <5>1. cur \in Fds /\ input[cur] \in Seq(Byte)
          BY LineAssumption DEF TypeOK
        <5>2. rd[cur] \in Nat /\ Len(input[cur]) \in Nat /\ rd[cur] <= Len(input[cur])
          BY <5>1, LenProperties DEF TypeOK
        <5>3. QED
          BY <5>2
      <4>2. full_buff' # Null
        BY <1>1, <2>1, <3>3
      <4>3. failed' = IF rd[cur] < Len(input[cur]) THEN failed \cup {"eof"} ELSE failed
        BY <3>3 DEF Blame
      <4>4. QED
        BY <3>3, <4>1, <4>2, <4>3
    <3>4. CASE res_read' = -1 /\ Blame("read", TRUE) /\ UNCHANGED <<rd, full_buff>>
      <4>1. failed' = failed \cup {"read"}
        BY <3>4 DEF Blame
      <4>2. QED
        BY <1>1, <2>1, <3>4, <4>1
    <3>5. QED
      BY <1>4, <3>1, <3>2, <3>3, <3>4 DEF Read, Chunk
  <2>3. CallInv'
    BY <2>1, <2>2 DEF CallInv
  <2>4. NullInv'
    <3>1. ASSUME NEW fd \in Fds, ret[fd] = Null PROVE fd # cur /\ rd'[fd] = rd[fd]
      <4>1. fd # cur
        BY <2>1, <3>1 DEF CallInv
      <4>2. QED
        BY <2>2, <4>1 DEF TypeOK
    <3>2. QED
      BY <2>1, <2>2, <3>1 DEF NullInv
  <2>5. QED
    BY <2>1, <2>2, <2>3, <2>4
<1>5. CASE Crash
  <2>1. CallInv'
    BY <1>5 DEF Crash, CallInv
  <2>2. QED
    BY <1>5, <2>1 DEF Crash, NullInv
<1>6. CASE LoopDone
  <2>1. /\ pc = "read" /\ full_buff \in Strings /\ ~KeepReading /\ full_buff' = Null
        /\ stbuff' = [stbuff EXCEPT ![cur] = Stored] /\ cur \in Fds /\ ret[cur] # Null
        /\ UNCHANGED <<input, rd, cur, res_read, out, failed>>
    BY <1>6 DEF LoopDone, TypeOK, Pointers, CallInv
  <2>2. \A fd \in Fds : fd # cur => stbuff'[fd] = stbuff[fd]
    BY <2>1 DEF TypeOK
  <2>3. CASE AtEnd
    <3>1. ret' = [ret EXCEPT ![cur] = Null] /\ pc' = "idle" /\ stbuff'[cur] = Null
      BY <1>6, <2>1, <2>3 DEF LoopDone, Stored, TypeOK
    <3>2. failed = {} => rd[cur] = Len(input[cur])
      BY <2>1, <2>3 DEF AtEnd, CallInv
    <3>3. CallInv'
      BY <2>1, <3>1 DEF CallInv
    <3>4. NullInv'
      BY <2>1, <2>2, <3>1, <3>2 DEF NullInv, TypeOK
    <3>5. QED
      BY <2>1, <3>3, <3>4
  <2>4. CASE ~AtEnd
    <3>1. ret' = ret /\ pc' = "split" /\ stbuff'[cur] = full_buff
      BY <1>6, <2>1, <2>4 DEF LoopDone, Stored, TypeOK
    <3>2. full_buff # << >> /\ (NewLine(cur, full_buff) # 0 \/ rd[cur] = Len(input[cur]) \/ "eof" \in failed)
      <4>1. CASE NewLine(cur, full_buff) # 0
        <5>1. NewLine(cur, full_buff) \in 0 .. Len(full_buff) /\ Len(full_buff) \in Nat
          BY <2>1, NewLineIs, StringIs
        <5>2. Len(full_buff) > 0
          BY <4>1, <5>1
        <5>3. QED
          BY <2>1, <4>1, <5>2, StringIs
      <4>2. CASE NewLine(cur, full_buff) = 0
        <5>1. res_read = 0
          BY <2>1, <2>4, <4>2 DEF KeepReading, AtEnd, TypeOK
        <5>2. QED
          BY <2>1, <2>4, <5>1 DEF AtEnd, CallInv
      <4>3. QED
        BY <4>1, <4>2
    <3>3. NewLine(cur, stbuff[cur])' = NewLine(cur, full_buff)
      <4>1. stbuff'[cur'] = full_buff /\ cur' = cur /\ input' = input
        BY <2>1, <3>1
      <4>2. {i \in 1 .. Len(stbuff'[cur']) : input'[cur'][stbuff'[cur'][i]] = "nl"}
              = {i \in 1 .. Len(full_buff) : input[cur][full_buff[i]] = "nl"}
        BY <4>1
      <4>3. QED
        BY <4>2 DEF NewLine, SelectInSeq
    <3>4. CallInv'
      BY <1>1, <2>1, <3>1, <3>2, <3>3 DEF CallInv
    <3>5. NullInv'
      BY <2>1, <2>2, <3>1 DEF NullInv
    <3>6. QED
      BY <2>1, <3>4, <3>5
  <2>5. QED
    BY <2>3, <2>4
<1>7. CASE Split
  <2>1. PICK noLine, noRest \in MayFail("malloc") :
       /\ ret' = [ret EXCEPT ![cur] = IF noLine THEN Null ELSE RetVal(stbuff[cur])]
       /\ stbuff' = [stbuff EXCEPT ![cur] = IF noRest THEN Null ELSE FillBuffer(stbuff[cur])]
       /\ Blame("malloc", noLine \/ noRest)
    BY <1>7 DEF Split
  <2>2. /\ pc = "split" /\ pc' = "idle" /\ cur \in Fds /\ UNCHANGED <<input, rd, cur, full_buff, res_read>>
        /\ stbuff[cur] \in Strings /\ stbuff[cur] # << >>
    BY <1>7 DEF Split, CallInv, TypeOK, Pointers
  <2>3. failed \subseteq failed' /\ (noLine => "malloc" \in failed')
    BY <1>2, <2>1
  <2>4. CallInv'
    BY <2>2 DEF CallInv
  <2>5. /\ \A fd \in Fds : fd # cur => stbuff'[fd] = stbuff[fd] /\ ret'[fd] = ret[fd]
        /\ ret'[cur] = IF noLine THEN Null ELSE RetVal(stbuff[cur])
    BY <2>1, <2>2 DEF TypeOK
  <2>6. ret'[cur] = Null => noLine
    <3>1. RetVal(stbuff[cur]) # Null
      BY <1>1, <2>2, SplitIs
    <3>2. QED
      BY <2>5, <3>1
  <2>7. ASSUME NEW fd \in Fds, ret'[fd] = Null
        PROVE  /\ failed' = {} => rd'[fd] = Len(input'[fd])
               /\ "malloc" \notin failed' => stbuff'[fd] = Null
    <3>1. CASE fd = cur
      BY <2>3, <2>6, <2>7, <3>1
    <3>2. CASE fd # cur
      BY <2>2, <2>3, <2>5, <2>7, <3>2 DEF NullInv
    <3>3. QED
      BY <3>1, <3>2
  <2>8. NullInv'
    BY <2>7 DEF NullInv
  <2>9. QED
    BY <2>2, <2>3, <2>4, <2>8
<1>8. CASE UNCHANGED vars
  <2>1. CallInv'
    BY <1>8 DEF vars, CallInv, NewLine, SelectInSeq
  <2>2. QED
    BY <1>8, <2>1 DEF vars, NullInv
<1>9. QED
  BY <1>3, <1>4, <1>5, <1>6, <1>7, <1>8 DEF Next, Step

(* Every step has one of the four effects on a descriptor. *)
LEMMA Effects ==
  ASSUME TypeOK, CallInv, [Next]_vars, NEW fd \in Fds
  PROVE  Same(fd) \/ Dropped(fd) \/ Grown(fd) \/ Returned(fd)
<1>1. << >> # Null /\ \A s \in Strings : s # Null
  BY HeldIs, StringIs DEF TypeOK
<1>2. cur \in Fds /\ rd[fd] \in Nat /\ rd[fd] <= rd[fd]
  BY DEF TypeOK
\* a descriptor that no call is about
<1>3. ASSUME ~(pc \in {"read", "crashed"} /\ cur = fd), ~(pc' \in {"read", "crashed"} /\ cur' = fd),
             ~InCall(fd), stbuff'[fd] = stbuff[fd], out'[fd] = out[fd], rd'[fd] = rd[fd]
      PROVE  Same(fd)
  BY <1>3 DEF Same, Held
<1>4. ASSUME NEW g \in Fds, Call(g) PROVE Same(fd)
  <2>1. /\ pc = "idle" /\ cur' = g /\ UNCHANGED <<rd, out>> /\ ~InCall(fd)
        /\ \/ stbuff' = stbuff /\ pc' = pc
           \/ LET start == IF stbuff[g] = Null THEN << >> ELSE stbuff[g]
              IN  stbuff' = [stbuff EXCEPT ![g] = start] /\ full_buff' = start /\ pc' = "read"
    BY <1>4 DEF Call, InCall
  <2>2. CASE stbuff' = stbuff /\ pc' = pc
    BY <1>3, <2>1, <2>2
  <2>3. CASE pc' = "read" /\ full_buff' = (IF stbuff[g] = Null THEN << >> ELSE stbuff[g])
             /\ stbuff' = [stbuff EXCEPT ![g] = IF stbuff[g] = Null THEN << >> ELSE stbuff[g]]
    <3>1. CASE fd = g
      <4>1. Held(fd)' = Held(fd)
        BY <1>1, <2>1, <2>3, <3>1 DEF Held
      <4>2. QED
        BY <2>1, <4>1 DEF Same
    <3>2. CASE fd # g
      BY <1>3, <2>1, <2>3, <3>2 DEF TypeOK
    <3>3. QED
      BY <3>1, <3>2
  <2>4. QED
    BY <2>1, <2>2, <2>3
<1>5. CASE Read
  <2>1. pc = "read" /\ full_buff \in Strings /\ KeepReading /\ UNCHANGED <<input, stbuff, pc, cur, ret, out>>
    BY <1>5 DEF Read, TypeOK, Pointers
  <2>2. CASE fd # cur
    <3>1. rd'[fd] = rd[fd]
      BY <1>5, <2>2 DEF Read, TypeOK
    <3>2. QED
      BY <1>3, <2>1, <2>2, <3>1 DEF InCall
  <2>3. CASE fd = cur
    <3>1. /\ Held(fd) = full_buff /\ InCall(fd) /\ InCall(fd)' /\ NewLine(fd, Held(fd)) = 0
          /\ Held(fd)' = IF full_buff' = Null THEN << >> ELSE full_buff'
      BY <1>1, <2>1, <2>3 DEF Held, InCall, KeepReading
    <3>2. CASE full_buff' = Null /\ Blame("malloc", TRUE) /\ UNCHANGED <<rd, res_read>>
      BY <1>2, <2>1, <3>1, <3>2 DEF Blame, Dropped
    <3>3. ASSUME NEW n \in ReadSizes, NEW bad \in MayFail("malloc"), rd[cur] + n <= Len(input[cur]),
                 rd' = [rd EXCEPT ![cur] = @ + n],
                 full_buff' = IF bad THEN Null ELSE full_buff \o CString(cur, Chunk(cur, n)),
                 Blame("malloc", bad)
          PROVE  Dropped(fd) \/ Grown(fd)
      <4>1. rd'[fd] = rd[fd] + n /\ n \in Nat /\ rd[fd] <= rd'[fd]
        BY <1>2, <2>3, <3>3 DEF ReadSizes, TypeOK
      <4>2. CASE bad
        BY <2>1, <3>1, <3>3, <4>1, <4>2 DEF Blame, Dropped
      <4>3. CASE ~bad
        <5>1. full_buff \o CString(cur, Chunk(cur, n)) # Null
          BY <1>1, <1>2, <2>1, GrownIs
        <5>2. Held(fd)' = Held(fd) \o CString(fd, Chunk(fd, n))
          BY <2>3, <3>1, <3>3, <4>3, <5>1
        <5>3. QED
          BY <2>1, <2>3, <3>1, <3>3, <4>1, <5>2 DEF Grown
      <4>4. QED
        BY <4>2, <4>3
    <3>4. CASE UNCHANGED <<rd, full_buff>>
      BY <1>1, <2>1, <3>1, <3>4 DEF Same
    <3>5. QED
      BY <1>5, <3>2, <3>3, <3>4 DEF Read, Chunk
  <2>4. QED
    BY <2>2, <2>3
<1>6. CASE Crash
  BY <1>6 DEF Crash, Same, Held, InCall
<1>7. CASE LoopDone
  <2>1. /\ pc = "read" /\ full_buff \in Strings /\ full_buff # Null
        /\ stbuff' = [stbuff EXCEPT ![cur] = Stored]
        /\ UNCHANGED <<input, rd, cur, res_read, out, failed>>
        /\ pc' = IF AtEnd THEN "idle" ELSE "split"
    BY <1>7 DEF LoopDone, TypeOK, Pointers
  <2>2. CASE fd # cur
    BY <1>3, <2>1, <2>2 DEF InCall, TypeOK
  <2>3. CASE fd = cur
    <3>1. Held(fd) = full_buff /\ Held(fd)' = IF Stored = Null THEN << >> ELSE Stored
      BY <1>2, <2>1, <2>3 DEF Held, TypeOK
    <3>2. CASE AtEnd /\ res_read = -1
      <4>1. "read" \in failed'
        BY <2>1, <3>2 DEF CallInv
      <4>2. Held(fd)' = << >>
        BY <3>1, <3>2 DEF Stored
      <4>3. QED
        BY <1>2, <2>1, <4>1, <4>2 DEF Dropped
    <3>3. CASE AtEnd /\ res_read # -1
      <4>1. Held(fd)' = << >> /\ Held(fd) = << >>
        BY <3>1, <3>3 DEF Stored, AtEnd
      <4>2. QED
        BY <2>1, <4>1 DEF Same
    <3>4. CASE ~AtEnd
      <4>1. Held(fd)' = Held(fd) /\ InCall(fd)'
        BY <2>1, <2>3, <3>1, <3>4 DEF Stored, InCall
      <4>2. QED
        BY <2>1, <4>1 DEF Same
    <3>5. QED
      BY <3>2, <3>3, <3>4
  <2>4. QED
    BY <2>2, <2>3
<1>8. CASE Split
  <2>1. PICK noLine, noRest \in MayFail("malloc") :
       /\ noRest => FillBuffer(stbuff[cur]) # Null
       /\ out' = IF noLine THEN out ELSE [out EXCEPT ![cur] = Append(@, RetVal(stbuff[cur]))]
       /\ stbuff' = [stbuff EXCEPT ![cur] = IF noRest THEN Null ELSE FillBuffer(stbuff[cur])]
       /\ Blame("malloc", noLine \/ noRest)
    BY <1>8 DEF Split
  <2>2. /\ pc = "split" /\ pc' = "idle" /\ UNCHANGED <<input, rd, cur, full_buff, res_read>>
        /\ stbuff[cur] \in Strings /\ stbuff[cur] # << >> /\ stbuff[cur] # Null
    BY <1>1, <1>8 DEF Split, CallInv, TypeOK, Pointers
  <2>3. CASE fd # cur
    <3>1. out'[fd] = out[fd] /\ stbuff'[fd] = stbuff[fd]
      BY <2>1, <2>3 DEF TypeOK
    <3>2. QED
      BY <1>3, <2>2, <2>3, <3>1 DEF InCall
  <2>4. CASE fd = cur
    <3>1. Held(fd) = stbuff[fd] /\ Held(fd) # << >>
      BY <2>2, <2>4 DEF Held
    <3>2. noLine \/ noRest => "malloc" \in failed'
      BY <2>1 DEF Blame
    <3>3. \/ out'[fd] = Append(out[fd], RetVal(Held(fd)))
          \/ out'[fd] = out[fd] /\ "malloc" \in failed'
      BY <1>2, <2>1, <2>4, <3>1, <3>2 DEF TypeOK
    <3>4. stbuff'[fd] = IF noRest THEN Null ELSE FillBuffer(stbuff[fd])
      BY <1>2, <2>1, <2>4 DEF TypeOK
    <3>5. Held(fd)' = IF stbuff'[fd] = Null THEN << >> ELSE stbuff'[fd]
      BY <2>2 DEF Held
    <3>6. \/ Held(fd)' = Rest(Held(fd))
          \/ Held(fd)' = << >> /\ "malloc" \in failed'
      BY <3>1, <3>2, <3>4, <3>5 DEF Rest
    <3>7. QED
      BY <2>2, <2>4, <3>1, <3>3, <3>6 DEF Returned
  <2>5. QED
    BY <2>3, <2>4
<1>9. CASE UNCHANGED vars
  BY <1>9 DEF vars, Same, Held, InCall
<1>10. QED
  BY <1>4, <1>5, <1>6, <1>7, <1>8, <1>9 DEF Next, Step

(* The first k bytes of h, and those behind them. *)
Parts(h, k, l, t) ==
  /\ Len(l) = k /\ \A i \in 1 .. k : l[i] = h[i]
  /\ Len(t) = Len(h) - k /\ \A i \in 1 .. Len(h) - k : t[i] = h[k + i]

(* The line and the rest are parts of the buffer. *)
LEMMA PartsOf ==
  ASSUME NEW h \in Strings, h # << >>
  PROVE  \E k \in 1 .. Len(h), l \in Strings, t \in Strings :
           k = Cut(h) /\ l = RetVal(h) /\ t = Rest(h) /\ Parts(h, k, l, t)
<1>1. Cut(h) \in 1 .. Len(h) /\ RetVal(h) \in Strings /\ Rest(h) \in Strings
  BY SplitIs
<1>2. Parts(h, Cut(h), RetVal(h), Rest(h))
  BY SplitIs DEF Parts
<1>3. QED
  BY <1>1, <1>2

(* The facts about a descriptor that every case below starts from. *)
LEMMA Around ==
  ASSUME TypeOK, TypeOK', input' = input, NEW fd \in Fds
  PROVE  /\ Held(fd) \in Strings /\ Held(fd)' \in Strings
         /\ out[fd] \in Seq(Strings) /\ out'[fd] \in Seq(Strings)
         /\ rd[fd] \in Nat /\ rd'[fd] \in Nat /\ Len(input[fd]) \in Nat
         /\ rd[fd] <= Len(input[fd]) /\ rd'[fd] <= Len(input[fd])
<1>1. << >> \in Strings
  BY HeldIs
<1>2. (IF pc \in {"read", "crashed"} /\ cur = fd THEN full_buff ELSE stbuff[fd])' \in Pointers
  BY DEF TypeOK
<1>3. Held(fd)' \in Strings
  BY <1>1, <1>2 DEF Held, Pointers
<1>4. input[fd] \in Seq(Byte)
  BY LineAssumption DEF TypeOK
<1>5. QED
  BY <1>3, <1>4, HeldIs, LenProperties DEF TypeOK

(* The lines returned so far and one more. *)
LEMMA OneMore ==
  ASSUME NEW o \in Seq(Strings), NEW l \in Strings
  PROVE  /\ Append(o, l) \in Seq(Strings) /\ Len(o) \in Nat /\ Len(Append(o, l)) = Len(o) + 1
         /\ DOMAIN o = 1 .. Len(o) /\ DOMAIN Append(o, l) = 1 .. Len(o) + 1
         /\ \A n \in 1 .. Len(o) : Append(o, l)[n] = o[n] /\ o[n] \in Strings
         /\ Append(o, l)[Len(o) + 1] = l
<1>1. /\ Append(o, l) \in Seq(Strings) /\ Len(Append(o, l)) = Len(o) + 1
      /\ \A n \in 1 .. Len(o) : Append(o, l)[n] = o[n]
      /\ Append(o, l)[Len(o) + 1] = l
  BY AppendProperties
<1>2. Len(o) \in Nat /\ DOMAIN o = 1 .. Len(o) /\ DOMAIN Append(o, l) = 1 .. Len(Append(o, l))
  BY <1>1, LenProperties
<1>3. \A n \in 1 .. Len(o) : o[n] \in Strings
  BY ElementOfSeq
<1>4. QED
  BY <1>1, <1>2, <1>3

-----------------------------------------------------------------------------
(***************************************************************************)
(* The order of the bytes: o are the lines returned, h is what waits, and  *)
(* r bytes were read.                                                      *)
(***************************************************************************)
Up(s, r) == \A i \in DOMAIN s : s[i] <= r /\ \A j \in DOMAIN s : i < j => s[i] < s[j]

Ordered(o, h, r) ==
  /\ Up(h, r)
  /\ \A n \in DOMAIN o :
       /\ Up(o[n], r) /\ InFront(o[n], h)
       /\ \A m \in 1 .. n - 1 : InFront(o[m], o[n])

(* What was read does not become less. *)
LEMMA UpTo ==
  ASSUME NEW s \in Strings, NEW r \in Nat, NEW r2 \in Nat, r <= r2, Up(s, r)
  PROVE  Up(s, r2)
<1>1. ASSUME NEW i \in DOMAIN s PROVE s[i] <= r2
  <2>1. s[i] <= r /\ s[i] \in Nat
    BY StringIs DEF Up
  <2>2. QED
    BY <2>1
<1>2. QED
  BY <1>1 DEF Up

(* The buffer is lost. *)
LEMMA OrderedDrop ==
  ASSUME NEW o \in Seq(Strings), NEW h, NEW r \in Nat, NEW r2 \in Nat, r <= r2, Ordered(o, h, r)
  PROVE  Ordered(o, << >>, r2)
<1>1. \A n \in DOMAIN o : o[n] \in Strings
  BY LenProperties, ElementOfSeq
<1>2. DOMAIN << >> = {}
  BY EmptySeq
<1>3. Up(<< >>, r2) /\ \A n \in DOMAIN o : InFront(o[n], << >>)
  BY <1>2 DEF Up, InFront
<1>4. \A n \in DOMAIN o : Up(o[n], r2)
  BY <1>1, UpTo DEF Ordered
<1>5. QED
  BY <1>3, <1>4 DEF Ordered

(* A chunk is joined to the buffer. *)
LEMMA OrderedGrow ==
  ASSUME NEW o \in Seq(Strings), NEW h \in Strings, NEW c \in Strings,
         NEW r \in Nat, NEW n \in Nat, Len(c) <= n, \A i \in 1 .. Len(c) : c[i] = r + i,
         Ordered(o, h, r)
  PROVE  Ordered(o, h \o c, r + n)
<1> DEFINE w == h \o c
           a == Len(h)
           b == Len(c)
<1>1. a \in Nat /\ b \in Nat /\ b <= n /\ DOMAIN h = 1 .. a /\ r + n \in Nat /\ r <= r + n
  BY StringIs
<1>2. /\ w \in Strings /\ Len(w) = a + b /\ \A i \in 1 .. a : w[i] = h[i]
      /\ \A i \in a + 1 .. a + b : w[i] = r + (i - a)
  <2>1. /\ w \in Strings /\ Len(w) = a + b
        /\ \A i \in 1 .. a + b : w[i] = IF i <= a THEN h[i] ELSE c[i - a]
    BY ConcatProperties DEF Strings
  <2> HIDE DEF w, a, b
  <2>2. \A i \in 1 .. a : w[i] = h[i]
    BY <1>1, <2>1
  <2>3. ASSUME NEW i \in a + 1 .. a + b PROVE w[i] = r + (i - a)
    <3>1. i \in 1 .. a + b /\ ~(i <= a) /\ i - a \in 1 .. b
      BY <1>1
    <3>2. QED
      BY <2>1, <3>1 DEF b
  <2>4. QED
    BY <2>1, <2>2, <2>3
<1>3. DOMAIN w = 1 .. a + b /\ \A i \in 1 .. a : h[i] \in Nat /\ h[i] <= r
  BY <1>1, <1>2, StringIs DEF Ordered, Up
<1>4. \A i, j \in 1 .. a : i < j => h[i] < h[j]
  BY <1>1 DEF Ordered, Up
<1> HIDE DEF w, a, b
<1>5. Up(w, r + n)
  <2>1. ASSUME NEW i \in 1 .. a + b PROVE w[i] <= r + n
    <3>1. CASE i <= a
      BY <1>1, <1>2, <1>3, <3>1
    <3>2. CASE ~(i <= a)
      BY <1>1, <1>2, <3>2
    <3>3. QED
      BY <3>1, <3>2
  <2>2. ASSUME NEW i \in 1 .. a + b, NEW j \in 1 .. a + b, i < j PROVE w[i] < w[j]
    <3>1. CASE j <= a
      <4>1. i \in 1 .. a /\ j \in 1 .. a
        BY <1>1, <2>2, <3>1
      <4>2. QED
        BY <1>2, <1>4, <2>2, <4>1
    <3>2. CASE i <= a /\ ~(j <= a)
      <4>1. i \in 1 .. a /\ j \in a + 1 .. a + b
        BY <1>1, <2>2, <3>2
      <4>2. w[i] = h[i] /\ h[i] \in Nat /\ h[i] <= r /\ w[j] = r + (j - a)
        BY <1>2, <1>3, <4>1
      <4>3. QED
        BY <1>1, <3>2, <4>1, <4>2
    <3>3. CASE ~(i <= a) /\ ~(j <= a)
      <4>1. i \in a + 1 .. a + b /\ j \in a + 1 .. a + b
        BY <1>1, <2>2, <3>3
      <4>2. w[i] = r + (i - a) /\ w[j] = r + (j - a)
        BY <1>2, <4>1
      <4>3. QED
        BY <1>1, <2>2, <4>1, <4>2
    <3>4. QED
      BY <1>1, <2>2, <3>1, <3>2, <3>3
  <2>3. QED
    BY <1>3, <2>1, <2>2 DEF Up
<1>6. ASSUME NEW m \in DOMAIN o PROVE Up(o[m], r + n) /\ InFront(o[m], w)
  <2>1. o[m] \in Strings /\ Up(o[m], r) /\ InFront(o[m], h)
    BY LenProperties, ElementOfSeq DEF Ordered
  <2>2. Up(o[m], r + n)
    BY <1>1, <2>1, UpTo
  <2>3. ASSUME NEW i \in DOMAIN o[m], NEW j \in 1 .. a + b PROVE o[m][i] < w[j]
    <3>1. o[m][i] \in Nat /\ o[m][i] <= r
      BY <2>1, StringIs DEF Up
    <3>2. CASE j <= a
      <4>1. j \in 1 .. a
        BY <1>1, <3>2
      <4>2. QED
        BY <1>1, <1>2, <2>1, <4>1 DEF InFront
    <3>3. CASE ~(j <= a)
      <4>1. j \in a + 1 .. a + b
        BY <1>1, <3>3
      <4>2. w[j] = r + (j - a)
        BY <1>2, <4>1
      <4>3. QED
        BY <1>1, <3>1, <3>3, <4>2
    <3>4. QED
      BY <3>2, <3>3
  <2>4. QED
    BY <1>3, <2>2, <2>3 DEF InFront
<1>7. QED
  BY <1>5, <1>6 DEF Ordered, w

(* The buffer is split, and the line returned or lost. *)
LEMMA OrderedSplit ==
  ASSUME NEW o \in Seq(Strings), NEW h \in Strings, NEW l \in Strings, NEW t \in Strings,
         NEW r \in Nat, NEW k \in 1 .. Len(h), Parts(h, k, l, t), Ordered(o, h, r)
  PROVE  Ordered(Append(o, l), t, r) /\ Ordered(o, t, r)
<1>0. /\ Len(l) = k /\ \A i \in 1 .. k : l[i] = h[i]
      /\ Len(t) = Len(h) - k /\ \A i \in 1 .. Len(h) - k : t[i] = h[k + i]
  BY DEF Parts
<1>1. /\ Len(h) \in Nat /\ DOMAIN h = 1 .. Len(h) /\ DOMAIN l = 1 .. k /\ DOMAIN t = 1 .. Len(h) - k
      /\ k \in Nat /\ k <= Len(h)
  BY <1>0, StringIs
<1>2. \A i \in 1 .. k : i \in 1 .. Len(h)
  BY <1>1
<1>3. \A i \in 1 .. Len(h) - k : k + i \in 1 .. Len(h)
  BY <1>1
<1>4. Up(h, r)
  BY DEF Ordered
<1>5. Up(l, r)
  BY <1>0, <1>1, <1>2, <1>4 DEF Up
<1>6. Up(t, r)
  <2>1. ASSUME NEW i \in 1 .. Len(h) - k PROVE t[i] <= r
    BY <1>0, <1>1, <1>3, <1>4 DEF Up
  <2>2. ASSUME NEW i \in 1 .. Len(h) - k, NEW j \in 1 .. Len(h) - k, i < j PROVE t[i] < t[j]
    <3>1. k + i < k + j /\ k + i \in 1 .. Len(h) /\ k + j \in 1 .. Len(h)
      BY <1>1, <1>3, <2>2
    <3>2. t[i] = h[k + i] /\ t[j] = h[k + j]
      BY <1>0
    <3>3. QED
      BY <1>1, <1>4, <3>1, <3>2 DEF Up
  <2>3. QED
    BY <1>1, <2>1, <2>2 DEF Up
<1>7. InFront(l, t)
  <2>1. ASSUME NEW i \in 1 .. k, NEW j \in 1 .. Len(h) - k PROVE l[i] < t[j]
    <3>1. i < k + j /\ i \in 1 .. Len(h) /\ k + j \in 1 .. Len(h)
      BY <1>1
    <3>2. l[i] = h[i] /\ t[j] = h[k + j]
      BY <1>0
    <3>3. QED
      BY <1>1, <1>4, <3>1, <3>2 DEF Up
  <2>2. QED
    BY <1>1, <2>1 DEF InFront
<1>8. ASSUME NEW n \in DOMAIN o
      PROVE  /\ Up(o[n], r) /\ InFront(o[n], l) /\ InFront(o[n], t)
             /\ \A m \in 1 .. n - 1 : InFront(o[m], o[n])
  <2>1. Up(o[n], r) /\ InFront(o[n], h) /\ \A m \in 1 .. n - 1 : InFront(o[m], o[n])
    BY DEF Ordered
  <2>2. InFront(o[n], l)
    BY <1>0, <1>1, <1>2, <2>1 DEF InFront
  <2>3. InFront(o[n], t)
    BY <1>0, <1>1, <1>3, <2>1 DEF InFront
  <2>4. QED
    BY <2>1, <2>2, <2>3
<1>9. Ordered(o, t, r)
  BY <1>6, <1>8 DEF Ordered
<1>10. Ordered(Append(o, l), t, r)
  <2> DEFINE q == Append(o, l)
             d == Len(o)
  <2>1. /\ d \in Nat /\ DOMAIN o = 1 .. d /\ DOMAIN q = 1 .. d + 1
        /\ \A n \in 1 .. d : q[n] = o[n] /\ q[d + 1] = l
    BY OneMore
  <2>2. q[d + 1] = l
    BY OneMore
  <2> HIDE DEF q, d
  <2>3. ASSUME NEW n \in 1 .. d + 1
        PROVE  Up(q[n], r) /\ InFront(q[n], t) /\ \A m \in 1 .. n - 1 : InFront(q[m], q[n])
    <3>1. CASE n = d + 1
      <4>1. q[n] = l
        BY <2>2, <3>1
      <4>2. ASSUME NEW m \in 1 .. n - 1 PROVE InFront(q[m], l)
        <5>1. m \in 1 .. d
          BY <2>1, <3>1
        <5>2. QED
          BY <1>8, <2>1, <5>1
      <4>3. QED
        BY <1>5, <1>7, <4>1, <4>2
    <3>2. CASE n # d + 1
      <4>1. n \in 1 .. d /\ n \in DOMAIN o
        BY <2>1, <3>2
      <4>2. \A m \in 1 .. n - 1 : m \in 1 .. d
        BY <2>1, <4>1
      <4>3. QED
        BY <1>8, <2>1, <4>1, <4>2
    <3>3. QED
      BY <3>1, <3>2
  <2>4. QED
    BY <1>6, <2>1, <2>3 DEF Ordered, q
<1>11. QED
  BY <1>9, <1>10

(* The order is kept. *)
LEMMA OrderStep ==
  ASSUME TypeOK, TypeOK', CallInv, input' = input, LinesInOrder, [Next]_vars
  PROVE  LinesInOrder'
<1>1. \A fd \in Fds : Ordered(out[fd], Held(fd), rd[fd])
  BY DEF LinesInOrder, Ordered, Sorted, Up
<1>2. ASSUME NEW fd \in Fds PROVE Ordered(out'[fd], Held(fd)', rd'[fd])
  <2>1. PICK h \in Strings, h2 \in Strings, o \in Seq(Strings), o2 \in Seq(Strings), r \in Nat, r2 \in Nat :
          h = Held(fd) /\ h2 = Held(fd)' /\ o = out[fd] /\ o2 = out'[fd] /\ r = rd[fd] /\ r2 = rd'[fd]
    BY Around
  <2>2. Ordered(o, h, r)
    BY <1>1, <2>1
  <2>3. CASE Same(fd)
    BY <2>1, <2>2, <2>3 DEF Same
  <2>4. CASE Dropped(fd)
    <3>1. h2 = << >> /\ o2 = o /\ r <= r2
      BY <2>1, <2>4 DEF Dropped
    <3>2. QED
      BY <2>1, <2>2, <3>1, OrderedDrop
  <2>5. CASE Grown(fd)
    <3>1. PICK n \in ReadSizes : r2 = r + n /\ h2 = h \o CString(fd, Chunk(fd, n)) /\ o2 = o
      BY <2>1, <2>5 DEF Grown
    <3>2. Chunk(fd, n) \in Strings /\ Len(Chunk(fd, n)) = n /\ n \in Nat
      BY GrownIs
    <3>3. PICK c \in Strings : /\ c = CString(fd, Chunk(fd, n)) /\ Len(c) <= n
                               /\ \A i \in 1 .. Len(c) : c[i] = r + i
      <4>1. PICK m \in 0 .. n : /\ CString(fd, Chunk(fd, n)) \in Strings /\ Len(CString(fd, Chunk(fd, n))) = m
                                /\ \A i \in 1 .. m : CString(fd, Chunk(fd, n))[i] = Chunk(fd, n)[i]
        BY <3>2, CStringIs
      <4>2. m <= n /\ \A i \in 1 .. m : Chunk(fd, n)[i] = r + i
        BY <2>1, <3>2 DEF Chunk
      <4>3. QED
        BY <4>1, <4>2
    <3>4. QED
      BY <2>1, <2>2, <3>1, <3>2, <3>3, OrderedGrow
  <2>6. CASE Returned(fd)
    <3>1. h # << >> /\ r2 = r
      BY <2>1, <2>6 DEF Returned
    <3>2. PICK k \in 1 .. Len(h), l \in Strings, t \in Strings :
            l = RetVal(h) /\ t = Rest(h) /\ Parts(h, k, l, t)
      BY <3>1, PartsOf
    <3>3. Ordered(Append(o, l), t, r) /\ Ordered(o, t, r)
      BY <2>2, <3>2, OrderedSplit
    <3>4. Ordered(Append(o, l), << >>, r) /\ Ordered(o, << >>, r)
      <4>1. r <= r /\ Append(o, l) \in Seq(Strings)
        BY OneMore
      <4>2. QED
        BY <3>3, <4>1, OrderedDrop
    <3>5. o2 \in {o, Append(o, l)} /\ h2 \in {t, << >>}
      BY <2>1, <2>6, <3>2 DEF Returned
    <3>6. QED
      BY <2>1, <3>1, <3>3, <3>4, <3>5
  <2>7. QED
    BY <2>3, <2>4, <2>5, <2>6, Effects
<1>3. QED
  BY <1>2 DEF LinesInOrder, Ordered, Sorted, Up

-----------------------------------------------------------------------------
(***************************************************************************)
(* Nothing is lost: what the first r bytes of text have become.            *)
(***************************************************************************)
Covered(o, h, r, text) ==
  \A p \in 1 .. r :
    \/ p \in ToSet(h) \/ \E n \in DOMAIN o : p \in ToSet(o[n])
    \/ \E q \in p - BufferSize + 1 .. p : q > 0 /\ text[q] = "nul"

(* A chunk up to its first zero byte is joined to the buffer. *)
LEMMA CoveredGrow ==
  ASSUME NEW o \in Seq(Strings), NEW h \in Strings, NEW c \in Strings, NEW text,
         NEW r \in Nat, NEW n \in Nat, n <= BufferSize, NEW m \in 0 .. n,
         Len(c) = m, \A i \in 1 .. m : c[i] = r + i,
         m = n \/ text[r + m + 1] = "nul",
         Covered(o, h, r, text)
  PROVE  Covered(o, h \o c, r + n, text)
<1> DEFINE w == h \o c
           a == Len(h)
<1>1. /\ w \in Strings /\ Len(w) = a + m
      /\ \A i \in 1 .. a + m : w[i] = IF i <= a THEN h[i] ELSE c[i - a]
  BY ConcatProperties DEF Strings
<1>2. a \in Nat /\ m \in Nat /\ m <= n /\ DOMAIN h = 1 .. a /\ DOMAIN w = 1 .. a + m /\ BufferSize \in Nat
  BY <1>1, StringIs, LineAssumption
<1> HIDE DEF w, a
<1>3. \A i \in 1 .. a : i \in 1 .. a + m /\ w[i] = h[i]
  BY <1>1, <1>2
<1>4. \A i \in 1 .. m : a + i \in 1 .. a + m /\ w[a + i] = r + i
  <2>1. ASSUME NEW i \in 1 .. m PROVE a + i \in 1 .. a + m /\ w[a + i] = r + i
    <3>1. a + i \in 1 .. a + m /\ ~(a + i <= a) /\ (a + i) - a = i
      BY <1>2
    <3>2. QED
      BY <1>1, <3>1
  <2>2. QED
    BY <2>1
<1>5. ASSUME NEW p \in 1 .. r + n
      PROVE  \/ p \in ToSet(w) \/ \E k \in DOMAIN o : p \in ToSet(o[k])
             \/ \E q \in p - BufferSize + 1 .. p : q > 0 /\ text[q] = "nul"
  <2>1. CASE p <= r
    <3>1. p \in 1 .. r
      BY <2>1
    <3>2. ToSet(h) \subseteq ToSet(w)
      BY <1>2, <1>3 DEF ToSet
    <3>3. QED
      BY <3>1, <3>2 DEF Covered
  <2>2. CASE r < p /\ p <= r + m
    <3>1. p - r \in 1 .. m /\ r + (p - r) = p
      BY <1>2, <2>2
    <3>2. a + (p - r) \in DOMAIN w /\ w[a + (p - r)] = p
      BY <1>2, <1>4, <3>1
    <3>3. QED
      BY <3>2 DEF ToSet
  <2>3. CASE r + m < p
    <3>1. m # n
      BY <1>2, <2>3
    <3>2. r + m + 1 \in p - BufferSize + 1 .. p /\ r + m + 1 > 0
      BY <1>2, <2>3
    <3>3. QED
      BY <3>1, <3>2
  <2>4. QED
    BY <1>2, <2>1, <2>2, <2>3
<1>6. QED
  BY <1>5 DEF Covered, w

(* The buffer is split and its line returned. *)
LEMMA CoveredSplit ==
  ASSUME NEW o \in Seq(Strings), NEW h \in Strings, NEW l \in Strings, NEW t \in Strings, NEW text,
         NEW r \in Nat, NEW k \in 1 .. Len(h), Parts(h, k, l, t), Covered(o, h, r, text)
  PROVE  Covered(Append(o, l), t, r, text)
<1>1. /\ Len(h) \in Nat /\ DOMAIN h = 1 .. Len(h) /\ DOMAIN l = 1 .. k /\ DOMAIN t = 1 .. Len(h) - k
      /\ k \in Nat /\ k <= Len(h)
  BY StringIs DEF Parts
<1>2. ASSUME NEW i \in 1 .. Len(h) PROVE h[i] \in ToSet(l) \/ h[i] \in ToSet(t)
  <2>1. CASE i <= k
    <3>1. i \in 1 .. k
      BY <1>1, <2>1
    <3>2. QED
      BY <1>1, <3>1 DEF Parts, ToSet
  <2>2. CASE ~(i <= k)
    <3>1. i - k \in 1 .. Len(h) - k /\ k + (i - k) = i
      BY <1>1, <2>2
    <3>2. t[i - k] = h[i]
      BY <3>1 DEF Parts
    <3>3. QED
      BY <1>1, <3>1, <3>2 DEF ToSet
  <2>3. QED
    BY <2>1, <2>2
<1>3. \A p \in ToSet(h) : p \in ToSet(l) \/ p \in ToSet(t)
  BY <1>1, <1>2 DEF ToSet
<1> DEFINE q == Append(o, l)
<1>4. /\ \A n \in DOMAIN o : n \in DOMAIN q /\ q[n] = o[n]
      /\ Len(o) + 1 \in DOMAIN q /\ q[Len(o) + 1] = l
  <2>1. /\ Len(o) \in Nat /\ DOMAIN o = 1 .. Len(o) /\ DOMAIN q = 1 .. Len(o) + 1
        /\ \A n \in 1 .. Len(o) : q[n] = o[n]
    BY OneMore
  <2>2. q[Len(o) + 1] = l
    BY OneMore
  <2> HIDE DEF q
  <2>3. QED
    BY <2>1, <2>2
<1> HIDE DEF q
<1>5. QED
  BY <1>3, <1>4 DEF Covered, q

(* A chunk as it is joined to the buffer, up to its first zero byte. *)
LEMMA ChunkIs ==
  ASSUME TypeOK, NEW fd \in Fds, NEW n \in ReadSizes
  PROVE  \E m \in 0 .. n, c \in Strings :
           /\ c = CString(fd, Chunk(fd, n)) /\ Len(c) = m
           /\ \A i \in 1 .. m : c[i] = rd[fd] + i
           /\ m = n \/ (m + 1 <= n /\ input[fd][rd[fd] + m + 1] = "nul")
<1>1. Chunk(fd, n) \in Strings /\ Len(Chunk(fd, n)) = n /\ n \in Nat /\ rd[fd] \in Nat
      /\ CString(fd, Chunk(fd, n)) \in Strings
  BY HeldIs, GrownIs DEF TypeOK
<1>2. \A i \in 1 .. n : Chunk(fd, n)[i] = rd[fd] + i
  BY DEF Chunk
<1>3. PICK m \in 0 .. n :
        /\ Len(CString(fd, Chunk(fd, n))) = m
        /\ \A i \in 1 .. m : CString(fd, Chunk(fd, n))[i] = Chunk(fd, n)[i]
        /\ m = n \/ (m + 1 <= n /\ input[fd][Chunk(fd, n)[m + 1]] = "nul")
  BY <1>1, CStringIs
<1>4. \A i \in 1 .. m : CString(fd, Chunk(fd, n))[i] = rd[fd] + i
  <2>1. \A i \in 1 .. m : i \in 1 .. n
    BY <1>1
  <2>2. QED
    BY <1>2, <1>3, <2>1
<1>5. m = n \/ (m + 1 <= n /\ input[fd][rd[fd] + m + 1] = "nul")
  <2>1. CASE m + 1 <= n
    <3>1. m + 1 \in 1 .. n /\ rd[fd] + (m + 1) = rd[fd] + m + 1
      BY <1>1, <2>1
    <3>2. Chunk(fd, n)[m + 1] = rd[fd] + m + 1
      BY <1>2, <3>1
    <3>3. QED
      BY <1>3, <3>2
  <2>2. QED
    BY <1>3, <2>1
<1>6. QED
  BY <1>1, <1>3, <1>4, <1>5

(* No byte is lost unless a malloc or a read fails. *)
LEMMA LostStep ==
  ASSUME TypeOK, TypeOK', CallInv, input' = input, failed \subseteq failed', NothingLost, [Next]_vars
  PROVE  NothingLost'
<1>1. failed \subseteq {"eof"} => \A fd \in Fds : Covered(out[fd], Held(fd), rd[fd], input[fd])
  BY DEF NothingLost, Covered
<1>2. ASSUME failed' \subseteq {"eof"}, NEW fd \in Fds
      PROVE  Covered(out'[fd], Held(fd)', rd'[fd], input[fd])
  <2>1. PICK h \in Strings, h2 \in Strings, o \in Seq(Strings), o2 \in Seq(Strings), r \in Nat, r2 \in Nat :
          h = Held(fd) /\ h2 = Held(fd)' /\ o = out[fd] /\ o2 = out'[fd] /\ r = rd[fd] /\ r2 = rd'[fd]
    BY Around
  <2>2. Covered(o, h, r, input[fd])
    BY <1>1, <1>2, <2>1
  <2>3. CASE Same(fd)
    BY <2>1, <2>2, <2>3 DEF Same
  <2>4. CASE Dropped(fd)
    BY <1>2, <2>4 DEF Dropped
  <2>5. CASE Grown(fd)
    <3>1. PICK n \in ReadSizes : r2 = r + n /\ h2 = h \o CString(fd, Chunk(fd, n)) /\ o2 = o
      BY <2>1, <2>5 DEF Grown
    <3>2. n \in Nat /\ n <= BufferSize
      BY GrownIs
    <3>3. PICK m \in 0 .. n, c \in Strings :
            /\ c = CString(fd, Chunk(fd, n)) /\ Len(c) = m /\ \A i \in 1 .. m : c[i] = r + i
            /\ m = n \/ (m + 1 <= n /\ input[fd][r + m + 1] = "nul")
      BY <2>1, ChunkIs
    <3>4. Covered(o, h \o c, r + n, input[fd])
      BY <2>2, <3>2, <3>3, CoveredGrow
    <3>5. QED
      BY <2>1, <3>1, <3>3, <3>4
  <2>6. CASE Returned(fd)
    <3>1. h # << >> /\ r2 = r /\ o2 = Append(o, RetVal(h)) /\ h2 = Rest(h)
      BY <1>2, <2>1, <2>6 DEF Returned
    <3>2. PICK k \in 1 .. Len(h), l \in Strings, t \in Strings :
            l = RetVal(h) /\ t = Rest(h) /\ Parts(h, k, l, t)
      BY <3>1, PartsOf
    <3>3. Covered(Append(o, l), t, r, input[fd])
      BY <2>2, <3>2, CoveredSplit
    <3>4. QED
      BY <2>1, <3>1, <3>2, <3>3
  <2>7. QED
    BY <2>3, <2>4, <2>5, <2>6, Effects
<1>3. QED
  BY <1>2 DEF NothingLost, Covered

-----------------------------------------------------------------------------
(***************************************************************************)
(* Whole lines.                                                            *)
(***************************************************************************)
IsLine(text, line) ==
  line # << >> /\ \A i \in 1 .. Len(line) - 1 : text[line[i]] # "nl"

Ended(text, line) == text[line[Len(line)]] = "nl"

(* The first part of a buffer is a line, and without a newline at its end  *)
(* it is all of the buffer.                                                *)
LEMMA FirstLine ==
  ASSUME TypeOK, NEW h \in Strings, NEW l \in Strings, NEW t \in Strings, NEW k \in 1 .. Len(h),
         k = Cut(h), Parts(h, k, l, t)
  PROVE  /\ IsLine(input[cur], l)
         /\ Ended(input[cur], l) \/ (NewLine(cur, h) = 0 /\ k = Len(h) /\ t = << >>)
<1>1. Len(h) \in Nat /\ Len(l) = k /\ k \in Nat /\ k <= Len(h) /\ (l # << >> <=> Len(l) > 0)
      /\ (t # << >> <=> Len(t) > 0) /\ Len(t) = Len(h) - k
  BY StringIs DEF Parts
<1>2. ASSUME NEW i \in 1 .. k - 1 PROVE input[cur][l[i]] # "nl"
  <2>1. i \in 1 .. k /\ l[i] = h[i] /\ i \in 1 .. Len(h)
    BY <1>1 DEF Parts
  <2>2. CASE NewLine(cur, h) = 0
    BY <2>1, <2>2, NewLineIs
  <2>3. CASE NewLine(cur, h) # 0
    <3>1. k = NewLine(cur, h)
      BY <2>3 DEF Cut
    <3>2. QED
      BY <2>1, <2>3, <3>1, NewLineIs
  <2>4. QED
    BY <2>2, <2>3
<1>3. CASE NewLine(cur, h) = 0
  <2>1. k = Len(h) /\ Len(t) = 0
    BY <1>1, <1>3 DEF Cut
  <2>2. QED
    BY <1>1, <1>2, <1>3, <2>1 DEF IsLine
<1>4. CASE NewLine(cur, h) # 0
  <2>1. k = NewLine(cur, h) /\ input[cur][h[k]] = "nl"
    BY <1>4, NewLineIs DEF Cut
  <2>2. l[Len(l)] = h[k]
    BY <1>1 DEF Parts
  <2>3. QED
    BY <1>1, <1>2, <2>1, <2>2 DEF IsLine, Ended
<1>5. QED
  BY <1>3, <1>4

(* A line without a newline stays the last one. *)
LEMMA WholeStep ==
  ASSUME TypeOK, TypeOK', CallInv, input' = input, failed \subseteq failed', WholeInv, [Next]_vars
  PROVE  WholeInv'
<1> DEFINE Good(fd, n) ==
      /\ IsLine(input[fd], out[fd][n])
      /\ \/ Ended(input[fd], out[fd][n])
         \/ n = Len(out[fd]) /\ rd[fd] = Len(input[fd]) /\ Held(fd) = << >>
         \/ "eof" \in failed
<1>1. \A fd \in Fds : \A n \in DOMAIN out[fd] : Good(fd, n)
  BY DEF WholeInv, IsLine, Ended
<1>2. ASSUME NEW fd \in Fds, NEW n \in DOMAIN out'[fd]
      PROVE  /\ IsLine(input[fd], out'[fd][n])
             /\ \/ Ended(input[fd], out'[fd][n])
                \/ n = Len(out'[fd]) /\ rd'[fd] = Len(input[fd]) /\ Held(fd)' = << >>
                \/ "eof" \in failed'
  <2>1. /\ Held(fd) \in Strings /\ Held(fd)' \in Strings /\ out[fd] \in Seq(Strings)
        /\ rd[fd] \in Nat /\ rd'[fd] \in Nat /\ Len(input[fd]) \in Nat
        /\ rd[fd] <= Len(input[fd]) /\ rd'[fd] <= Len(input[fd])
    BY Around
  <2>2. CASE out'[fd] = out[fd] /\ (rd[fd] = Len(input[fd]) /\ Held(fd) = << >> =>
                                    rd'[fd] = Len(input[fd]) /\ Held(fd)' = << >>)
    BY <1>1, <1>2, <2>2
  <2>3. CASE Same(fd)
    BY <2>2, <2>3 DEF Same
  <2>4. CASE Dropped(fd)
    BY <2>1, <2>2, <2>4 DEF Dropped
  <2>5. CASE Grown(fd)
    <3>1. PICK k \in ReadSizes : rd[fd] + k <= Len(input[fd]) /\ out'[fd] = out[fd]
      BY <2>5 DEF Grown
    <3>2. k \in Nat /\ k > 0
      BY LineAssumption DEF ReadSizes
    <3>3. rd[fd] # Len(input[fd])
      BY <2>1, <3>1, <3>2
    <3>4. QED
      BY <2>2, <3>1, <3>3
  <2>6. CASE Returned(fd)
    <3>1. PICK h \in Strings, o \in Seq(Strings) : h = Held(fd) /\ o = out[fd]
      BY <2>1
    <3>2. /\ h # << >> /\ rd'[fd] = rd[fd] /\ fd = cur /\ pc = "split" /\ h = stbuff[cur]
          /\ out'[fd] \in {o, Append(o, RetVal(h))} /\ Held(fd)' \in {Rest(h), << >>}
      BY <2>6, <3>1 DEF Returned
    <3>3. CASE out'[fd] = o
      BY <2>2, <3>1, <3>2, <3>3
    <3>4. CASE out'[fd] = Append(o, RetVal(h))
      <4>1. PICK k \in 1 .. Len(h), l \in Strings, t \in Strings :
              k = Cut(h) /\ l = RetVal(h) /\ t = Rest(h) /\ Parts(h, k, l, t)
        BY <3>2, PartsOf
      <4>2. /\ out'[fd] = Append(o, l) /\ Len(o) \in Nat /\ DOMAIN o = 1 .. Len(o)
            /\ Len(out'[fd]) = Len(o) + 1 /\ n \in 1 .. Len(o) + 1
            /\ \A m \in 1 .. Len(o) : out'[fd][m] = o[m]
            /\ out'[fd][Len(o) + 1] = l
        BY <1>2, <3>4, <4>1, OneMore
      <4>3. CASE n = Len(o) + 1
        <5>1. IsLine(input[fd], l) /\ (Ended(input[fd], l) \/ (NewLine(cur, h) = 0 /\ t = << >>))
          BY <3>2, <4>1, FirstLine
        <5>2. NewLine(cur, h) = 0 => rd[fd] = Len(input[fd]) \/ "eof" \in failed
          BY <3>2 DEF CallInv
        <5>3. t = << >> => Held(fd)' = << >>
          BY <3>2, <4>1
        <5>4. QED
          BY <3>2, <4>2, <4>3, <5>1, <5>2, <5>3
      <4>4. CASE n # Len(o) + 1
        <5>1. n \in 1 .. Len(o) /\ n \in DOMAIN out[fd]
          BY <3>1, <4>2, <4>4
        <5>2. out'[fd][n] = out[fd][n]
          BY <3>1, <4>2, <5>1
        <5>3. IsLine(input[fd], out[fd][n]) /\ (Ended(input[fd], out[fd][n]) \/ "eof" \in failed)
          BY <1>1, <3>1, <3>2, <5>1
        <5>4. QED
          BY <5>2, <5>3
      <4>5. QED
        BY <4>3, <4>4
    <3>5. QED
      BY <3>2, <3>3, <3>4
  <2>7. QED
    BY <2>3, <2>4, <2>5, <2>6, Effects
<1>3. QED
  BY <1>2 DEF WholeInv, IsLine, Ended

-----------------------------------------------------------------------------
(***************************************************************************)
(* How much waits.                                                         *)
(***************************************************************************)
Tight(text, h) == \A k \in 1 .. Len(h) : text[h[k]] = "nl" => Len(h) - k < BufferSize

(* Less than one buffer waits behind a newline. *)
LEMMA TightStep ==
  ASSUME TypeOK, TypeOK', CallInv, input' = input, TightInv, [Next]_vars
  PROVE  TightInv'
<1>1. \A fd \in Fds : Len(Held(fd)) < BufferSize \/ (InCall(fd) /\ Tight(input[fd], Held(fd)))
  BY DEF TightInv, Tight
<1>2. BufferSize \in Nat /\ 0 < BufferSize /\ Len(<< >>) = 0
  BY LineAssumption, EmptySeq
<1>3. ASSUME NEW fd \in Fds
      PROVE  Len(Held(fd)') < BufferSize \/ (InCall(fd)' /\ Tight(input[fd], Held(fd)'))
  <2>1. PICK h \in Strings, h2 \in Strings : h = Held(fd) /\ h2 = Held(fd)'
    BY Around
  <2>2. Len(h) < BufferSize \/ (InCall(fd) /\ Tight(input[fd], h))
    BY <1>1, <2>1
  <2>3. CASE Same(fd)
    <3>1. h2 = h /\ (InCall(fd) => InCall(fd)' \/ h = << >>)
      BY <2>1, <2>3 DEF Same
    <3>2. QED
      BY <1>2, <2>1, <2>2, <3>1
  <2>4. CASE Dropped(fd)
    BY <1>2, <2>4 DEF Dropped
  <2>5. CASE Grown(fd)
    <3>1. PICK n \in ReadSizes : h2 = h \o CString(fd, Chunk(fd, n)) /\ NewLine(fd, h) = 0 /\ InCall(fd)'
      BY <2>1, <2>5 DEF Grown
    <3>2. PICK m \in 0 .. n, c \in Strings : c = CString(fd, Chunk(fd, n)) /\ Len(c) = m
      BY ChunkIs
    <3>3. n \in Nat /\ n <= BufferSize /\ m \in Nat /\ m <= n /\ Len(h) \in Nat
      BY <3>2, GrownIs, StringIs
    <3>4. /\ Len(h2) = Len(h) + m
          /\ \A i \in 1 .. Len(h) + m : h2[i] = IF i <= Len(h) THEN h[i] ELSE c[i - Len(h)]
      BY <3>1, <3>2, ConcatProperties DEF Strings
    <3>5. ASSUME NEW k \in 1 .. Len(h2), input[fd][h2[k]] = "nl" PROVE Len(h2) - k < BufferSize
      <4>1. ~(k <= Len(h))
        <5>1. SUFFICES ASSUME k <= Len(h) PROVE FALSE
          OBVIOUS
        <5>2. k \in 1 .. Len(h) /\ h2[k] = h[k]
          BY <3>3, <3>4, <5>1
        <5>3. input[fd][h[k]] # "nl"
          BY <3>1, <5>2, NewLineIs
        <5>4. QED
          BY <3>5, <5>2, <5>3
      <4>2. QED
        BY <1>2, <3>3, <3>4, <4>1
    <3>6. QED
      BY <2>1, <3>1, <3>5 DEF Tight
  <2>6. CASE Returned(fd)
    <3>1. h # << >> /\ fd = cur /\ h2 \in {Rest(h), << >>}
      BY <2>1, <2>6 DEF Returned
    <3>2. PICK k \in 1 .. Len(h), l \in Strings, t \in Strings :
            k = Cut(h) /\ t = Rest(h) /\ Parts(h, k, l, t)
      BY <3>1, PartsOf
    <3>3. Len(t) = Len(h) - k /\ Len(h) \in Nat /\ k \in Nat /\ k > 0 /\ k <= Len(h)
      BY <3>2, StringIs DEF Parts
    <3>4. Len(h) - k < BufferSize
      <4>1. CASE Len(h) < BufferSize
        BY <1>2, <3>3, <4>1
      <4>2. CASE Tight(input[fd], h)
        <5>1. CASE NewLine(cur, h) = 0
          BY <1>2, <3>2, <3>3, <5>1 DEF Cut
        <5>2. CASE NewLine(cur, h) # 0
          <6>1. k = NewLine(cur, h) /\ input[fd][h[k]] = "nl"
            BY <3>1, <3>2, <5>2, NewLineIs DEF Cut
          <6>2. QED
            BY <4>2, <6>1 DEF Tight
        <5>3. QED
          BY <5>1, <5>2
      <4>3. QED
        BY <2>2, <4>1, <4>2
    <3>5. QED
      BY <1>2, <2>1, <3>1, <3>2, <3>3, <3>4
  <2>7. QED
    BY <2>3, <2>4, <2>5, <2>6, Effects
<1>4. QED
  BY <1>3 DEF TightInv, Tight

(* The last byte returned, 0 before the first. *)
LEMMA LastByteIs ==
  ASSUME NEW o \in Seq(Strings), \A n \in DOMAIN o : o[n] # << >>
  PROVE  /\ LastByte(o) \in Nat
         /\ o # << >> => /\ Len(o) \in DOMAIN o /\ o[Len(o)] \in Strings /\ Len(o[Len(o)]) > 0
                         /\ LastByte(o) = o[Len(o)][Len(o[Len(o)])]
<1>1. CASE o = << >>
  BY <1>1 DEF LastByte
<1>2. CASE o # << >>
  <2>1. Len(o) \in Nat /\ DOMAIN o = 1 .. Len(o) /\ Len(o) > 0
    BY <1>2, LenProperties, EmptySeq
  <2>2. Len(o) \in 1 .. Len(o)
    BY <2>1
  <2>3. o[Len(o)] \in Strings /\ o[Len(o)] # << >>
    BY <2>1, <2>2, ElementOfSeq
  <2>4. Len(o[Len(o)]) \in 1 .. Len(o[Len(o)]) /\ Len(o[Len(o)]) > 0
    BY <2>3, StringIs
  <2>5. QED
    BY <1>2, <2>1, <2>2, <2>3, <2>4, StringIs DEF LastByte
<1>3. QED
  BY <1>1, <1>2

Gap(o, h, r) == Len(h) = r - LastByte(o) /\ \A i \in 1 .. Len(h) : h[i] = LastByte(o) + i

(* What waits is what was read and not returned. *)
LEMMA GapStep ==
  ASSUME TypeOK, TypeOK', CallInv, input' = input, failed \subseteq failed', WholeInv, GapInv, [Next]_vars
  PROVE  GapInv'
<1> DEFINE Clean(fd) == \A p \in 1 .. Len(input[fd]) : input[fd][p] # "nul"
<1>1. \A fd \in Fds : failed \subseteq {"eof"} /\ Clean(fd) => Gap(out[fd], Held(fd), rd[fd])
  BY DEF GapInv, Gap
<1>2. ASSUME NEW fd \in Fds, failed' \subseteq {"eof"}, Clean(fd)
      PROVE  Gap(out'[fd], Held(fd)', rd'[fd])
  <2>1. PICK h \in Strings, h2 \in Strings, o \in Seq(Strings), o2 \in Seq(Strings), r \in Nat, r2 \in Nat :
          h = Held(fd) /\ h2 = Held(fd)' /\ o = out[fd] /\ o2 = out'[fd] /\ r = rd[fd] /\ r2 = rd'[fd]
    BY Around
  <2>2. Gap(o, h, r) /\ LastByte(o) \in Nat /\ Len(h) \in Nat
    <3>1. \A n \in DOMAIN o : o[n] # << >>
      BY <2>1 DEF WholeInv
    <3>2. QED
      BY <1>1, <1>2, <2>1, <3>1, LastByteIs, StringIs
  <2>3. CASE Same(fd)
    BY <2>1, <2>2, <2>3 DEF Same
  <2>4. CASE Dropped(fd)
    BY <1>2, <2>4 DEF Dropped
  <2>5. CASE Grown(fd)
    <3>1. PICK n \in ReadSizes : /\ r + n <= Len(input[fd]) /\ r2 = r + n /\ o2 = o
                                 /\ h2 = h \o CString(fd, Chunk(fd, n))
      BY <2>1, <2>5 DEF Grown
    <3>2. PICK m \in 0 .. n, c \in Strings :
            /\ c = CString(fd, Chunk(fd, n)) /\ Len(c) = m /\ \A i \in 1 .. m : c[i] = r + i
            /\ m = n \/ (m + 1 <= n /\ input[fd][r + m + 1] = "nul")
      BY <2>1, ChunkIs
    <3>3. n \in Nat /\ Len(input[fd]) \in Nat
      <4>1. n \in Nat
        BY LineAssumption DEF ReadSizes
      <4>2. QED
        BY <4>1, Around
    <3>4. m = n
      <4>1. m + 1 <= n => r + m + 1 \in 1 .. Len(input[fd])
        BY <3>1, <3>3
      <4>2. QED
        BY <1>2, <3>2, <4>1
    <3>5. /\ Len(h2) = Len(h) + n
          /\ \A i \in 1 .. Len(h) + n : h2[i] = IF i <= Len(h) THEN h[i] ELSE c[i - Len(h)]
      <4>1. h2 = h \o c /\ Len(c) = n
        BY <3>1, <3>2, <3>4
      <4>2. QED
        BY <4>1, ConcatProperties DEF Strings
    <3>6. PICK g \in Nat : g = LastByte(o) /\ Len(h) = r - g /\ \A i \in 1 .. Len(h) : h[i] = g + i
      BY <2>2 DEF Gap
    <3>7. ASSUME NEW i \in 1 .. Len(h2) PROVE h2[i] = g + i
      <4>1. CASE i <= Len(h)
        <5>1. i \in 1 .. Len(h)
          BY <2>2, <3>3, <3>5, <4>1
        <5>2. QED
          BY <2>2, <3>3, <3>5, <3>6, <4>1, <5>1
      <4>2. CASE ~(i <= Len(h))
        <5>1. i - Len(h) \in 1 .. m
          BY <2>2, <3>3, <3>4, <3>5, <4>2
        <5>2. c[i - Len(h)] = r + (i - Len(h))
          BY <3>2, <5>1
        <5>3. h2[i] = r + (i - Len(h))
          BY <2>2, <3>3, <3>5, <4>2, <5>2
        <5>4. QED
          BY <2>2, <3>3, <3>6, <5>3
      <4>3. QED
        BY <4>1, <4>2
    <3>8. Len(h2) = r2 - g
      BY <2>2, <3>1, <3>3, <3>5, <3>6
    <3>9. QED
      BY <2>1, <3>1, <3>6, <3>7, <3>8 DEF Gap
  <2>6. CASE Returned(fd)
    <3>1. h # << >> /\ r2 = r /\ o2 = Append(o, RetVal(h)) /\ h2 = Rest(h)
      BY <1>2, <2>1, <2>6 DEF Returned
    <3>2. PICK k \in 1 .. Len(h), l \in Strings, t \in Strings :
            l = RetVal(h) /\ t = Rest(h) /\ Parts(h, k, l, t)
      BY <3>1, PartsOf
    <3>3. PICK g \in Nat : g = LastByte(o) /\ Len(h) = r - g /\ \A i \in 1 .. Len(h) : h[i] = g + i
      BY <2>2 DEF Gap
    <3>4. LastByte(o2) = g + k
      <4>1. Len(o2) = Len(o) + 1 /\ o2[Len(o) + 1] = l /\ Len(o) \in Nat
        BY <3>1, <3>2, OneMore
      <4>2. o2 # << >> /\ o2[Len(o2)] = l
        <5>1. Len(<< >>) = 0 /\ Len(o2) # 0
          BY <4>1, EmptySeq
        <5>2. QED
          BY <4>1, <5>1
      <4>3. Len(l) = k /\ l[k] = h[k]
        BY <3>2 DEF Parts
      <4>4. QED
        BY <3>3, <4>2, <4>3 DEF LastByte
    <3>5. Len(t) = Len(h) - k /\ \A i \in 1 .. Len(t) : t[i] = h[k + i]
      BY <3>2 DEF Parts
    <3>6. ASSUME NEW i \in 1 .. Len(t) PROVE t[i] = (g + k) + i
      <4>1. k + i \in 1 .. Len(h)
        BY <2>2, <3>5
      <4>2. h[k + i] = g + (k + i)
        BY <3>3, <4>1
      <4>3. QED
        BY <3>5, <4>2
    <3>7. Len(t) = r - (g + k)
      BY <2>1, <2>2, <3>3, <3>5
    <3>8. QED
      BY <2>1, <3>1, <3>2, <3>4, <3>6, <3>7 DEF Gap
  <2>7. QED
    BY <2>3, <2>4, <2>5, <2>6, Effects
<1>3. QED
  BY <1>2 DEF GapInv, Gap

-----------------------------------------------------------------------------
(***************************************************************************)
(* The theorems about ft_get_next_line.                                    *)
(***************************************************************************)

(* Nothing was read or returned. *)
LEMMA InitHolds ==
  ASSUME Init
  PROVE  Inv
<1>1. << >> \in Strings /\ << >> # Null /\ << >> \in Seq(Strings)
  <2>1. << >> \in Strings /\ << >> \in Seq(Strings)
    BY EmptySeq DEF Strings
  <2>2. QED
    BY <2>1, StringIs
<1>2. BufferSize \in Nat /\ 0 < BufferSize /\ Len(<< >>) = 0 /\ DOMAIN << >> = {}
  BY LineAssumption, EmptySeq
<1>3. \A fd \in Fds : /\ Len(input[fd]) \in Nat /\ rd[fd] = 0 /\ Held(fd) = << >>
                      /\ out[fd] = << >> /\ ret[fd] # Null
  <2>1. ASSUME NEW fd \in Fds PROVE Len(input[fd]) \in Nat
    <3>1. input[fd] \in Seq(Byte)
      BY LineAssumption DEF Init
    <3>2. QED
      BY <3>1, LenProperties
  <2>2. QED
    BY <1>1, <2>1 DEF Init, Held
<1>4. TypeOK
  BY <1>1, <1>2, <1>3 DEF Init, TypeOK, Pointers
<1>5. CallInv /\ NullInv
  BY <1>3 DEF Init, CallInv, NullInv
<1>6. WholeInv /\ LinesInOrder /\ NothingLost
  BY <1>2, <1>3 DEF WholeInv, LinesInOrder, NothingLost, Sorted
<1>7. TightInv
  BY <1>2, <1>3 DEF TightInv
<1>8. GapInv
  <2>1. \A fd \in Fds : LastByte(out[fd]) = 0
    BY <1>3 DEF LastByte
  <2>2. QED
    BY <1>2, <1>3, <2>1 DEF GapInv
<1>9. QED
  BY <1>4, <1>5, <1>6, <1>7, <1>8 DEF Inv

(* Every step keeps the invariant. *)
LEMMA NextHolds ==
  ASSUME Inv, [Next]_vars
  PROVE  Inv'
<1>1. TypeOK' /\ CallInv' /\ NullInv' /\ failed \subseteq failed' /\ input' = input
  BY TypeStep, CallStep DEF Inv
<1>2. LinesInOrder' /\ NothingLost' /\ WholeInv' /\ TightInv' /\ GapInv'
  BY <1>1, OrderStep, LostStep, WholeStep, TightStep, GapStep DEF Inv
<1>3. QED
  BY <1>1, <1>2 DEF Inv

(* What the invariant says of the lines and of NULL. *)
LEMMA Consequences ==
  Inv => LineInv /\ NothingLost /\ LinesWhole /\ EndsClean
<1>1. Inv => LineInv /\ NothingLost
  BY DEF Inv, LineInv
<1>2. Inv => LinesWhole
  BY DEF Inv, WholeInv, LinesWhole
<1>3. Inv => EndsClean
  BY DEF Inv, NullInv, CallInv, EndsClean
<1>4. QED
  BY <1>1, <1>2, <1>3

(* Every reachable state satisfies the invariant. *)
LEMMA Invariance == Spec => []Inv
<1>1. Init => Inv
  BY InitHolds
<1>2. Inv /\ [Next]_vars => Inv'
  BY NextHolds
<1>3. QED
  BY <1>1, <1>2, PTL DEF Spec

(***************************************************************************)
(* Calls for several descriptors can be mixed and anything can fail: bytes *)
(* come in the order of the input, none twice and none before it was read. *)
(***************************************************************************)
THEOREM LineInvCorrect == Spec => []LineInv
BY Invariance, Consequences, PTL

(* Unless a malloc or a read fails, only zero bytes make bytes vanish. *)
THEOREM NothingLostCorrect == Spec => []NothingLost
BY Invariance, Consequences, PTL

(* What ft_get_next_line returns is a line, whatever the reads bring. *)
THEOREM LinesWholeCorrect == Spec => []LinesWhole
BY Invariance, Consequences, PTL

(* NULL means the end or a failure, and nothing stays behind in stbuff. *)
THEOREM EndsCleanCorrect == Spec => []EndsClean
BY Invariance, Consequences, PTL

-----------------------------------------------------------------------------
(***************************************************************************)
(* ft_get_next_line implements LineStream.                                 *)
(***************************************************************************)
EndedFds == [fd \in Fds |-> ret[fd] = Null]

NoZeros == \A t \in Inputs : \A p \in 1 .. Len(t) : t[p] # "nul"

(* The least element of a set. *)
LEMMA MinIs ==
  ASSUME NEW S \in SUBSET Nat, NEW x \in S, \A y \in S : x <= y
  PROVE  x = CHOOSE z \in S : \A y \in S : z =< y
<1>1. \A z \in S : (\A y \in S : z <= y) => z = x
  <2>1. ASSUME NEW z \in S, \A y \in S : z <= y PROVE z = x
    <3>1. z <= x /\ x <= z /\ x \in Nat /\ z \in Nat
      BY <2>1
    <3>2. QED
      BY <3>1
  <2>2. QED
    BY <2>1
<1>2. QED
  BY <1>1

(* A step that changes nothing the caller sees. *)
LEMMA Unseen ==
  ASSUME UNCHANGED <<input, out, failed, ret>>
  PROVE  UNCHANGED Stream!vars
BY DEF Stream!vars

(* A failure in a call for f that returns no line. *)
LEMMA FailMaps ==
  ASSUME TypeOK, NEW f \in Fds, ret[f] # Null, failed' # {}, failed \subseteq failed',
         UNCHANGED <<input, out>>, ret' \in {ret, [ret EXCEPT ![f] = Null]}
  PROVE  Stream!Next
<1>1. EndedFds' \in {EndedFds, [EndedFds EXCEPT ![f] = TRUE]}
  BY DEF EndedFds, TypeOK
<1>2. EndedFds[f] = FALSE /\ out' = [out EXCEPT ![f] = out'[f]] /\ out'[f] = out[f]
  BY DEF EndedFds, TypeOK
<1>3. Stream!Fail(f)
  BY <1>1, <1>2 DEF EndedFds, Stream!Fail, Stream!Shortened
<1>4. QED
  BY <1>3 DEF Stream!Next

(* The byte behind the last one that was returned. *)
LEMMA GivenIs ==
  ASSUME Inv, NEW f \in Fds
  PROVE  /\ Stream!Given(f) = LastByte(out[f]) /\ LastByte(out[f]) \in Nat
         /\ \A i \in 1 .. Len(Held(f)) : LastByte(out[f]) < Held(f)[i]
<1>1. Stream!Given(f) = LastByte(out[f])
  BY DEF Stream!Given, LastByte
<1>2. out[f] \in Seq(Strings) /\ Held(f) \in Strings
  BY HeldIs DEF Inv, TypeOK
<1>3. \A n \in DOMAIN out[f] : out[f][n] # << >>
  BY DEF Inv, WholeInv
<1>4. LastByte(out[f]) \in Nat
  BY <1>2, <1>3, LastByteIs
<1>5. ASSUME NEW i \in 1 .. Len(Held(f)) PROVE LastByte(out[f]) < Held(f)[i]
  <2>1. Held(f)[i] \in Nat \ {0} /\ DOMAIN Held(f) = 1 .. Len(Held(f))
    BY <1>2, StringIs
  <2>2. CASE out[f] = << >>
    BY <2>1, <2>2 DEF LastByte
  <2>3. CASE out[f] # << >>
    <3>1. /\ Len(out[f]) \in DOMAIN out[f] /\ out[f][Len(out[f])] \in Strings
          /\ Len(out[f][Len(out[f])]) > 0
          /\ LastByte(out[f]) = out[f][Len(out[f])][Len(out[f][Len(out[f])])]
      BY <1>2, <1>3, <2>3, LastByteIs
    <3>2. InFront(out[f][Len(out[f])], Held(f))
      BY <3>1 DEF Inv, LinesInOrder
    <3>3. Len(out[f][Len(out[f])]) \in DOMAIN out[f][Len(out[f])]
      BY <3>1, StringIs
    <3>4. QED
      BY <2>1, <3>1, <3>2, <3>3 DEF InFront
  <2>4. QED
    BY <2>2, <2>3
<1>6. QED
  BY <1>1, <1>4, <1>5

(* What Split works on. *)
LEMMA SplitFacts ==
  ASSUME Inv, Split
  PROVE  /\ cur \in Fds /\ stbuff[cur] \in Strings /\ stbuff[cur] # << >> /\ Held(cur) = stbuff[cur]
         /\ rd[cur] \in Nat /\ Len(input[cur]) \in Nat /\ rd[cur] <= Len(input[cur])
         /\ UNCHANGED <<input, rd>> /\ ret[cur] # Null
         /\ \/ NewLine(cur, stbuff[cur]) # 0
            \/ rd[cur] = Len(input[cur]) \/ "eof" \in failed
<1>1. /\ pc = "split" /\ cur \in Fds /\ stbuff[cur] \in Strings /\ stbuff[cur] # << >> /\ stbuff[cur] # Null
      /\ ret[cur] # Null
      /\ \/ NewLine(cur, stbuff[cur]) # 0
         \/ rd[cur] = Len(input[cur]) \/ "eof" \in failed
  BY DEF Split, Inv, CallInv, TypeOK, Pointers
<1>2. Held(cur) = stbuff[cur] /\ UNCHANGED <<input, rd>>
  BY <1>1 DEF Held, Split
<1>3. input[cur] \in Seq(Byte)
  BY <1>1, LineAssumption DEF Inv, TypeOK
<1>4. QED
  BY <1>1, <1>2, <1>3, LenProperties DEF Inv, TypeOK

(* A line is returned before anything has failed. *)
LEMMA DeliverMaps ==
  ASSUME Inv, NoZeros, Split, failed = {}, failed' = {}, ret' = [ret EXCEPT ![cur] = RetVal(stbuff[cur])],
         out' = [out EXCEPT ![cur] = Append(@, RetVal(stbuff[cur]))]
  PROVE  Stream!Next
<1>1. PICK f \in Fds, h \in Strings : f = cur /\ h = stbuff[cur] /\ h = Held(f) /\ h # << >>
  BY SplitFacts
<1>2. PICK k \in 1 .. Len(h), l \in Strings, t \in Strings :
        k = Cut(h) /\ l = RetVal(h) /\ t = Rest(h) /\ Parts(h, k, l, t)
  BY <1>1, PartsOf
<1>3. PICK g \in Nat, r \in Nat, n \in Nat :
        /\ g = LastByte(out[f]) /\ r = rd[f] /\ n = Len(input[f]) /\ r <= n /\ Stream!Given(f) = g
        /\ Len(h) = r - g /\ \A i \in 1 .. Len(h) : h[i] = g + i
  <2>1. \A p \in 1 .. Len(input[f]) : input[f][p] # "nul"
    BY DEF NoZeros, Inv, TypeOK
  <2>2. Len(h) = rd[f] - LastByte(out[f]) /\ \A i \in 1 .. Len(h) : h[i] = LastByte(out[f]) + i
    BY <1>1, <2>1 DEF Inv, GapInv
  <2>3. QED
    BY <1>1, <2>2, GivenIs, SplitFacts
<1>4. Len(h) \in Nat /\ k \in Nat /\ k > 0 /\ k <= Len(h) /\ g + k <= r /\ g < n
  BY <1>2, <1>3, StringIs
<1>5. l = [i \in 1 .. k |-> g + i]
  <2>1. l \in [1 .. k -> Nat \ {0}] /\ \A i \in 1 .. k : l[i] = h[i]
    BY <1>2, LenProperties DEF Parts, Strings
  <2>2. \A i \in 1 .. k : h[i] = g + i
    BY <1>3, <1>4
  <2>3. QED
    BY <2>1, <2>2
<1>6. /\ \A i \in 1 .. k - 1 : input[f][g + i] # "nl"
      /\ input[f][g + k] = "nl" \/ g + k = n
  <2>1. IsLine(input[f], l) /\ (Ended(input[f], l) \/ (NewLine(cur, h) = 0 /\ k = Len(h)))
    BY <1>1, <1>2, FirstLine DEF Inv
  <2>2. Len(l) = k
    BY <1>2 DEF Parts
  <2>3. ASSUME NEW i \in 1 .. k - 1 PROVE input[f][g + i] # "nl"
    <3>1. l[i] = g + i
      BY <1>4, <1>5
    <3>2. QED
      BY <2>1, <2>2, <3>1 DEF IsLine
  <2>4. l[k] = g + k
    BY <1>4, <1>5
  <2>5. NewLine(cur, h) = 0 => r = n
    BY <1>1, <1>3, SplitFacts
  <2>6. QED
    BY <1>3, <1>4, <2>1, <2>2, <2>3, <2>4, <2>5 DEF Ended
<1> DEFINE S == {n} \cup {p \in g + 1 .. n : input[f][p] = "nl"}
<1>7. g + k = CHOOSE z \in S : \A y \in S : z =< y
  <2>1. S \in SUBSET Nat /\ g + k \in S
    BY <1>3, <1>4, <1>6
  <2>2. ASSUME NEW y \in S PROVE g + k <= y
    <3>1. CASE y = n
      BY <1>3, <1>4, <3>1
    <3>2. CASE y # n
      <4>1. y \in g + 1 .. n /\ input[f][y] = "nl"
        BY <3>2
      <4>2. ASSUME y < g + k PROVE FALSE
        <5>1. y - g \in 1 .. k - 1 /\ g + (y - g) = y
          BY <1>4, <4>1, <4>2
        <5>2. QED
          BY <1>6, <4>1, <5>1
      <4>3. QED
        BY <1>4, <4>1, <4>2
    <3>3. QED
      BY <3>1, <3>2
  <2> HIDE DEF S
  <2>3. QED
    BY <2>1, <2>2, MinIs
<1>8. Stream!EndOfLine(input[f], g) = g + k
  BY <1>3, <1>7 DEF Stream!EndOfLine, Stream!Min
<1>9. out' = [out EXCEPT ![f] = Append(@, [i \in 1 .. (g + k) - g |-> g + i])]
  <2>1. (g + k) - g = k
    BY <1>4
  <2>2. QED
    BY <1>1, <1>2, <1>5, <2>1
<1>10. EndedFds' = EndedFds /\ EndedFds[f] = FALSE
  <2>1. l # Null /\ ret[f] # Null
    BY <1>1, SplitFacts, StringIs
  <2>2. \A fd \in Fds : (ret'[fd] = Null) <=> (ret[fd] = Null)
    BY <1>1, <1>2, <2>1 DEF Inv, TypeOK
  <2>3. QED
    BY <1>1, <2>1, <2>2 DEF EndedFds
<1>11. Stream!Deliver(f)
  <2>1. PICK n0 : n0 = Stream!Given(f)
    OBVIOUS
  <2>2. PICK e0 : e0 = Stream!EndOfLine(input[f], n0)
    OBVIOUS
  <2>3. n0 = g /\ e0 = g + k
    BY <1>3, <1>8, <2>1, <2>2
  <2>4. out' = [out EXCEPT ![f] = Append(@, [i \in 1 .. e0 - n0 |-> n0 + i])]
    BY <1>9, <2>3
  <2>5. out' = [out EXCEPT ![f] = Append(@, [i \in 1 .. Stream!EndOfLine(input[f], Stream!Given(f)) - Stream!Given(f)
                                              |-> Stream!Given(f) + i])]
    BY <2>1, <2>2, <2>4
  <2>6. failed = {} /\ UNCHANGED <<input, failed>>
    BY SplitFacts
  <2>7. UNCHANGED [fd \in Fds |-> ret[fd] = Null] /\ ~[fd \in Fds |-> ret[fd] = Null][f]
    BY <1>10 DEF EndedFds
  <2>8. Stream!Given(f) < Len(input[f])
    BY <1>3, <1>4
  <2>9. QED
    BY <2>5, <2>6, <2>7, <2>8 DEF Stream!Deliver
<1>12. QED
  BY <1>11 DEF Stream!Next

(* A line is returned after something has failed. *)
LEMMA ShortMaps ==
  ASSUME Inv, Split, failed' # {}, failed \subseteq failed', ret' = [ret EXCEPT ![cur] = RetVal(stbuff[cur])],
         out' = [out EXCEPT ![cur] = Append(@, RetVal(stbuff[cur]))]
  PROVE  Stream!Next
<1>1. PICK f \in Fds, h \in Strings : f = cur /\ h = stbuff[cur] /\ h = Held(f) /\ h # << >>
  BY SplitFacts
<1>2. PICK k \in 1 .. Len(h), l \in Strings, t \in Strings :
        k = Cut(h) /\ l = RetVal(h) /\ t = Rest(h) /\ Parts(h, k, l, t)
  BY <1>1, PartsOf
<1>3. PICK o \in Seq(Strings) : o = out[f] /\ out'[f] = Append(o, l) /\ out' = [out EXCEPT ![f] = out'[f]]
  BY <1>1, <1>2 DEF Inv, TypeOK
<1>4. out'[f][Len(out'[f])] = l
  <2>1. Len(Append(o, l)) = Len(o) + 1 /\ Append(o, l)[Len(o) + 1] = l
    BY OneMore
  <2>2. QED
    BY <1>3, <2>1
<1>5. PICK g \in Nat, r \in Nat, n \in Nat :
        /\ g = Stream!Given(f) /\ r = rd[f] /\ n = Len(input[f]) /\ r <= n
        /\ \A i \in 1 .. Len(h) : g < h[i]
  BY <1>1, GivenIs, SplitFacts
<1>6. /\ Len(h) \in Nat /\ k \in Nat /\ k <= Len(h) /\ DOMAIN l = 1 .. k /\ DOMAIN h = 1 .. Len(h)
      /\ \A i \in 1 .. k : l[i] = h[i]
      /\ \A i \in 1 .. Len(h) : h[i] \in Nat
  BY <1>2, StringIs DEF Parts
<1>7. \A i \in 1 .. Len(h) : h[i] <= r /\ \A j \in 1 .. Len(h) : i < j => h[i] < h[j]
  BY <1>1, <1>5, <1>6 DEF Inv, LinesInOrder, Sorted
<1>8. ASSUME NEW i \in DOMAIN l
      PROVE  l[i] \in (IF i = 1 THEN Stream!Given(f) ELSE l[i - 1]) + 1 .. Len(input[f])
  <2>1. i \in 1 .. Len(h) /\ i \in 1 .. k /\ l[i] = h[i] /\ h[i] \in Nat /\ h[i] <= n /\ g < h[i]
    BY <1>5, <1>6, <1>7
  <2>2. CASE i = 1
    BY <1>5, <2>1, <2>2
  <2>3. CASE i # 1
    <3>1. i - 1 \in 1 .. Len(h) /\ i - 1 \in 1 .. k /\ i - 1 < i
      BY <1>6, <2>1, <2>3
    <3>2. l[i - 1] = h[i - 1] /\ h[i - 1] \in Nat /\ h[i - 1] < h[i]
      BY <1>6, <1>7, <2>1, <3>1
    <3>3. QED
      BY <1>5, <2>1, <2>3, <3>2
  <2>4. QED
    BY <2>2, <2>3
<1>9. Stream!Shortened(f, out'[f])
  BY <1>3, <1>4, <1>8 DEF Stream!Shortened
<1>10. EndedFds' = EndedFds /\ EndedFds[f] = FALSE
  <2>1. l # Null /\ ret[f] # Null
    BY <1>1, SplitFacts, StringIs
  <2>2. \A fd \in Fds : (ret'[fd] = Null) <=> (ret[fd] = Null)
    BY <1>1, <1>2, <2>1 DEF Inv, TypeOK
  <2>3. QED
    BY <1>1, <2>1, <2>2 DEF EndedFds
<1>11. Stream!Fail(f)
  BY <1>3, <1>9, <1>10, SplitFacts DEF EndedFds, Stream!Fail
<1>12. QED
  BY <1>11 DEF Stream!Next

(* NULL is returned before anything has failed. *)
LEMMA EndMaps ==
  ASSUME Inv, NoZeros, LoopDone, AtEnd, failed = {}
  PROVE  Stream!Next
<1>1. /\ pc = "read" /\ cur \in Fds /\ full_buff = << >> /\ rd[cur] = Len(input[cur]) /\ ret[cur] # Null
      /\ ret' = [ret EXCEPT ![cur] = Null] /\ UNCHANGED <<input, out, failed>>
  BY DEF LoopDone, AtEnd, Inv, CallInv, TypeOK
<1>2. PICK f \in Fds : f = cur
  BY <1>1
<1>3. Held(cur) = << >> /\ Len(<< >>) = 0
  BY <1>1 DEF Held
<1>4. \A p \in 1 .. Len(input[cur]) : input[cur][p] # "nul"
  BY <1>1 DEF NoZeros, Inv, TypeOK
<1>5. PICK g \in Nat, r \in Nat : g = LastByte(out[cur]) /\ r = rd[cur] /\ Stream!Given(cur) = g
  BY <1>1, GivenIs DEF Inv, TypeOK
<1>6. 0 = r - g
  BY <1>1, <1>3, <1>4, <1>5 DEF Inv, GapInv
<1>7. Stream!Given(cur) = Len(input[cur])
  BY <1>1, <1>5, <1>6
<1>8. EndedFds[cur] = FALSE /\ EndedFds' = [EndedFds EXCEPT ![cur] = TRUE]
  BY <1>1 DEF EndedFds, Inv, TypeOK
<1>9. Stream!End(f)
  BY <1>1, <1>2, <1>7, <1>8 DEF EndedFds, Stream!End
<1>10. QED
  BY <1>9 DEF Stream!Next

(* One step of a call is one step of LineStream or none at all. *)
LEMMA StreamStep ==
  ASSUME Inv, NoZeros, [Next]_vars
  PROVE  [Stream!Next]_(Stream!vars)
<1>1. TypeOK /\ cur \in Fds
  BY DEF Inv, TypeOK
<1>2. ASSUME NEW fd \in Fds, Call(fd) PROVE [Stream!Next]_(Stream!vars)
  <2>1. /\ ret[fd] # Null /\ UNCHANGED <<input, out>>
        /\ \/ failed' = failed /\ UNCHANGED ret
           \/ failed' = failed \cup {"malloc"} /\ ret' = [ret EXCEPT ![fd] = Null]
    BY <1>2 DEF Call, Blame
  <2>2. CASE failed' = failed /\ UNCHANGED ret
    BY <2>1, <2>2, Unseen
  <2>3. CASE failed' = failed \cup {"malloc"} /\ ret' = [ret EXCEPT ![fd] = Null]
    <3>1. failed' # {} /\ failed \subseteq failed' /\ ret' \in {ret, [ret EXCEPT ![fd] = Null]}
      BY <2>3
    <3>2. QED
      BY <1>1, <2>1, <3>1, FailMaps
  <2>4. QED
    BY <2>1, <2>2, <2>3
<1>3. CASE Read
  <2>1. /\ UNCHANGED <<input, out, ret>> /\ ret[cur] # Null
        /\ failed \subseteq failed' /\ (failed' = failed \/ failed' # {})
    BY <1>3 DEF Read, Blame, Inv, CallInv
  <2>2. CASE failed' = failed
    BY <2>1, <2>2, Unseen
  <2>3. CASE failed' # {}
    <3>1. ret' \in {ret, [ret EXCEPT ![cur] = Null]}
      BY <2>1
    <3>2. QED
      BY <1>1, <2>1, <2>3, <3>1, FailMaps
  <2>4. QED
    BY <2>1, <2>2, <2>3
<1>4. CASE Crash
  BY <1>4, Unseen DEF Crash
<1>5. CASE LoopDone
  <2>1. /\ UNCHANGED <<input, out, failed>> /\ ret[cur] # Null
        /\ ret' = IF AtEnd THEN [ret EXCEPT ![cur] = Null] ELSE ret
    BY <1>5 DEF LoopDone, Inv, CallInv
  <2>2. CASE ~AtEnd
    BY <2>1, <2>2, Unseen
  <2>3. CASE AtEnd /\ failed = {}
    BY <1>5, <2>3, EndMaps
  <2>4. CASE AtEnd /\ failed # {}
    <3>1. failed' # {} /\ failed \subseteq failed' /\ ret' \in {ret, [ret EXCEPT ![cur] = Null]}
      BY <2>1, <2>4
    <3>2. QED
      BY <1>1, <2>1, <3>1, FailMaps
  <2>5. QED
    BY <2>2, <2>3, <2>4
<1>6. CASE Split
  <2>1. PICK noLine \in BOOLEAN, noRest \in BOOLEAN :
          /\ ret' = [ret EXCEPT ![cur] = IF noLine THEN Null ELSE RetVal(stbuff[cur])]
          /\ out' = IF noLine THEN out ELSE [out EXCEPT ![cur] = Append(@, RetVal(stbuff[cur]))]
          /\ failed' = IF noLine \/ noRest THEN failed \cup {"malloc"} ELSE failed
    BY <1>6 DEF Split, MayFail, Blame
  <2>2. ret[cur] # Null /\ UNCHANGED input
    BY <1>6, SplitFacts
  <2>3. failed \subseteq failed'
    BY <2>1
  <2>4. CASE noLine
    <3>1. ret' = [ret EXCEPT ![cur] = Null] /\ UNCHANGED out /\ failed' # {}
      BY <2>1, <2>4
    <3>2. ret' \in {ret, [ret EXCEPT ![cur] = Null]}
      BY <3>1
    <3>3. QED
      BY <1>1, <2>2, <2>3, <3>1, <3>2, FailMaps
  <2>5. CASE ~noLine
    <3>1. /\ ret' = [ret EXCEPT ![cur] = RetVal(stbuff[cur])]
          /\ out' = [out EXCEPT ![cur] = Append(@, RetVal(stbuff[cur]))]
      BY <2>1, <2>5
    <3>2. CASE failed' = {}
      <4>1. failed = {}
        BY <2>3, <3>2
      <4>2. QED
        BY <1>6, <3>1, <3>2, <4>1, DeliverMaps
    <3>3. CASE failed' # {}
      BY <1>6, <2>3, <3>1, <3>3, ShortMaps
    <3>4. QED
      BY <3>2, <3>3
  <2>6. QED
    BY <2>4, <2>5
<1>7. CASE UNCHANGED vars
  BY <1>7, Unseen DEF vars
<1>8. QED
  BY <1>2, <1>3, <1>4, <1>5, <1>6, <1>7 DEF Next, Step

(***************************************************************************)
(* Without zero bytes ft_get_next_line implements LineStream: whatever the *)
(* sizes of the reads, each call returns the next line of its descriptor   *)
(* until something fails, and NULL only at the end; once something has     *)
(* failed, a caller gets less, and still nothing twice or out of order.    *)
(***************************************************************************)
THEOREM StreamSafety ==
  ASSUME NoZeros
  PROVE  Spec => Stream!Safety
<1>1. Init => Stream!Init
  <2>1. ASSUME Init PROVE Stream!Init
    <3>1. << >> # Null
      <4>1. << >> \in Seq(Nat)
        OBVIOUS
      <4>2. QED
        BY <4>1, LineAssumption
    <3>2. EndedFds = [fd \in Fds |-> FALSE]
      BY <2>1, <3>1 DEF EndedFds, Init
    <3>3. QED
      BY <2>1, <3>2 DEF EndedFds, Init, Stream!Init
  <2>2. QED
    BY <2>1
<1>2. Inv /\ [Next]_vars => [Stream!Next]_(Stream!vars)
  BY StreamStep
<1>3. QED
  BY <1>1, <1>2, Invariance, PTL DEF Spec, Stream!Safety

-----------------------------------------------------------------------------
(***************************************************************************)
(* ft_here_doc_inp.  Its steps are calls of ft_get_next_line on standard   *)
(* input and steps that leave ft_get_next_line alone, so that everything   *)
(* above holds of it.  The invariant says where the copying of lines is:   *)
(* a line that was returned and not looked at yet is the one behind the    *)
(* text in TEMP_FILE.                                                      *)
(***************************************************************************)
FlowInv ==
  /\ hpc \in {"open", "loop", "done"} /\ fresh \in BOOLEAN /\ unsaved \in BOOLEAN
  /\ temp \in Strings
  /\ pc # "idle" => hpc = "loop" /\ fresh /\ cur = Stdin
  /\ hpc = "open" => temp = << >> /\ out[Stdin] = << >> /\ ~fresh
  /\ hpc = "done" => ~fresh

\* ft_get_next_line has returned a line, and the loop condition was not evaluated yet
Waiting == hpc = "loop" /\ fresh /\ pc = "idle" /\ ret[Stdin] # Null

WholeText == failed = {} /\ ~unsaved /\ \A p \in 1 .. Len(Text) : Text[p] # "nul"

CopyInv ==
  WholeText =>
    /\ \A i \in 1 .. Len(temp) : temp[i] = i
    /\ Len(temp) <= Len(Text)
    /\ Len(temp) = 0 \/ Len(temp) = Len(Text) \/ Text[Len(temp)] = "nl"
    /\ \A p \in DelimiterLines : Len(temp) < p
    /\ hpc = "done" => Len(temp) = Len(Text) \/ Len(temp) + 1 \in DelimiterLines
    /\ hpc # "done" /\ ~Waiting => Len(temp) = LastByte(out[Stdin])
    /\ Waiting =>
         /\ out[Stdin] # << >> /\ ret[Stdin] = out[Stdin][Len(out[Stdin])]
         /\ \A i \in 1 .. Len(ret[Stdin]) : ret[Stdin][i] = Len(temp) + i

HereDocInv == Inv /\ FlowInv /\ CopyInv

(* A step of ft_here_doc_inp is one of ft_get_next_line, or none of it. *)
LEMMA HereDocSteps ==
  ASSUME [HereDocNext]_<<vars, hvars>>
  PROVE  [Next]_vars
<1>1. Stdin \in Fds
  BY HereDocAssumption
<1>2. CASE Open \/ Take \/ (HereDocFinished /\ UNCHANGED <<vars, hvars>>) \/ UNCHANGED <<vars, hvars>>
  BY <1>2 DEF Open, Take
<1>3. CASE Ask
  BY <1>1, <1>3 DEF Ask, Next, Step
<1>4. CASE Answering
  BY <1>4 DEF Answering, Next, Step
<1>5. QED
  BY <1>2, <1>3, <1>4 DEF HereDocNext, HereDocStep

(* Standard input and the buffer of the loop. *)
LEMMA TextIs ==
  ASSUME Inv
  PROVE  /\ Stdin \in Fds /\ Text \in Seq(Byte) /\ Len(Text) \in Nat /\ DOMAIN Text = 1 .. Len(Text)
         /\ rd[Stdin] \in Nat /\ rd[Stdin] <= Len(Text)
         /\ ret[Stdin] \in Pointers /\ out[Stdin] \in Seq(Strings)
<1>1. Stdin \in Fds
  BY HereDocAssumption
<1>2. Text \in Seq(Byte)
  BY <1>1, LineAssumption DEF Text, Inv, TypeOK
<1>3. QED
  BY <1>1, <1>2, LenProperties DEF Text, Inv, TypeOK

(* The loop and ft_get_next_line take turns. *)
LEMMA FlowStep ==
  ASSUME Inv, FlowInv, [HereDocNext]_<<vars, hvars>>
  PROVE  FlowInv'
<1>1. CASE Open
  BY <1>1 DEF Open, FlowInv, vars
<1>2. CASE Ask
  BY <1>2 DEF Ask, Call, FlowInv
<1>3. CASE Answering
  <2>1. pc # "idle" /\ hpc = "loop" /\ fresh /\ cur = Stdin /\ UNCHANGED <<hpc, fresh, temp, unsaved>>
    BY <1>3 DEF Answering, hvars, Read, Crash, LoopDone, Split, FlowInv
  <2>2. UNCHANGED cur
    BY <1>3 DEF Answering, Read, Crash, LoopDone, Split
  <2>3. QED
    BY <2>1, <2>2 DEF FlowInv
<1>4. CASE Take
  <2>1. ret[Stdin] # Null => temp \o ret[Stdin] \in Strings
    <3>1. ASSUME ret[Stdin] # Null PROVE temp \o ret[Stdin] \in Strings
      <4>1. temp \in Strings /\ ret[Stdin] \in Strings
        BY <3>1, TextIs DEF FlowInv, Pointers
      <4>2. QED
        BY <4>1, ConcatProperties DEF Strings
    <3>2. QED
      BY <3>1
  <2>2. QED
    BY <1>4, <2>1 DEF Take, FlowInv, vars
<1>5. CASE UNCHANGED <<vars, hvars>>
  BY <1>5 DEF FlowInv, vars, hvars
<1>6. QED
  BY <1>1, <1>2, <1>3, <1>4, <1>5 DEF HereDocNext, HereDocStep

(* Where the only line starts lie in a stretch that is one line. *)
LEMMA LineBehind ==
  ASSUME NEW T \in Seq(Byte), NEW t \in Nat, NEW m \in Nat \ {0}, t + m <= Len(T),
         \A i \in 1 .. m - 1 : T[t + i] # "nl", T[t + m] = "nl" \/ t + m = Len(T),
         NEW p \in 1 .. Len(T), t < p, p <= t + m, p = 1 \/ T[p - 1] = "nl",
         p + Len(Delimiter) - 1 <= Len(T),
         \A i \in DOMAIN Delimiter : T[p + i - 1] = Delimiter[i]
  PROVE  p = t + 1 /\ Len(Delimiter) <= m /\ \A i \in DOMAIN Delimiter : T[t + i] = Delimiter[i]
<1>1. Len(T) \in Nat /\ p \in Nat
  BY LenProperties
<1>2. Len(Delimiter) \in Nat /\ DOMAIN Delimiter = 1 .. Len(Delimiter)
      /\ \A i \in 1 .. Len(Delimiter) : Delimiter[i] # "nl"
  <2>1. Delimiter \in Seq(Byte \ {"nl", "nul"})
    BY HereDocAssumption
  <2>2. Delimiter \in [1 .. Len(Delimiter) -> Byte \ {"nl", "nul"}] /\ Len(Delimiter) \in Nat
    BY <2>1, LenProperties
  <2>3. QED
    BY <2>2
<1>3. p = t + 1
  <2>1. ASSUME p # t + 1 PROVE FALSE
    <3>1. p - 1 - t \in 1 .. m - 1 /\ t + (p - 1 - t) = p - 1 /\ p # 1
      BY <1>1, <2>1
    <3>2. QED
      BY <3>1
  <2>2. QED
    BY <2>1
<1>4. \A i \in DOMAIN Delimiter : T[t + i] = Delimiter[i]
  <2>1. ASSUME NEW i \in DOMAIN Delimiter PROVE T[t + i] = Delimiter[i]
    <3>1. t + 1 + i - 1 = t + i
      BY <1>2, <2>1
    <3>2. QED
      BY <1>3, <3>1
  <2>2. QED
    BY <2>1
<1>5. ASSUME m < Len(Delimiter) PROVE FALSE
  <2>1. m \in DOMAIN Delimiter
    BY <1>2, <1>5
  <2>2. T[t + m] # "nl"
    BY <1>2, <1>4, <2>1
  <2>3. t + m = Len(T) /\ t + Len(Delimiter) <= Len(T)
    BY <1>1, <1>2, <1>3, <2>2
  <2>4. QED
    BY <1>1, <1>2, <1>5, <2>3
<1>6. QED
  BY <1>2, <1>3, <1>4, <1>5

(* Before anything has failed the bytes behind the last one returned wait. *)
LEMMA BehindIs ==
  ASSUME Inv, WholeText
  PROVE  /\ LastByte(out[Stdin]) \in Nat /\ LastByte(out[Stdin]) <= rd[Stdin]
         /\ Held(Stdin) = << >> => LastByte(out[Stdin]) = rd[Stdin]
<1>1. Stdin \in Fds /\ rd[Stdin] \in Nat
  BY TextIs
<1>2. LastByte(out[Stdin]) \in Nat
  BY <1>1, GivenIs
<1>3. Held(Stdin) \in Strings
  BY <1>1, HeldIs DEF Inv
<1>4. Len(Held(Stdin)) = rd[Stdin] - LastByte(out[Stdin])
  BY <1>1 DEF WholeText, Text, Inv, GapInv
<1>5. Len(Held(Stdin)) \in Nat /\ (Held(Stdin) = << >> => Len(Held(Stdin)) = 0)
  BY <1>3, StringIs
<1>6. QED
  BY <1>1, <1>2, <1>4, <1>5

(* The line that waits to be looked at. *)
LEMMA WaitingIs ==
  ASSUME Inv, FlowInv, CopyInv, WholeText, Waiting
  PROVE  \E t \in Nat, m \in Nat \ {0}, l \in Strings :
           /\ t = Len(temp) /\ l = ret[Stdin] /\ m = Len(l)
           /\ t + m <= Len(Text) /\ LastByte(out[Stdin]) = t + m
           /\ \A i \in 1 .. m : l[i] = t + i
           /\ \A i \in 1 .. m - 1 : Text[t + i] # "nl"
           /\ Text[t + m] = "nl" \/ t + m = Len(Text)
<1>1. PICK l \in Strings, t \in Nat, o \in Seq(Strings) : l = ret[Stdin] /\ t = Len(temp) /\ o = out[Stdin]
  BY TextIs, StringIs DEF Waiting, Pointers, FlowInv
<1>2. o # << >> /\ l = o[Len(o)] /\ \A i \in 1 .. Len(l) : l[i] = t + i
  BY <1>1 DEF CopyInv
<1>3. Len(o) \in DOMAIN o
  BY <1>2, LenProperties, EmptySeq
<1>4. /\ l # << >> /\ \A i \in 1 .. Len(l) - 1 : Text[l[i]] # "nl"
      /\ Text[l[Len(l)]] = "nl" \/ (rd[Stdin] = Len(Text) /\ Held(Stdin) = << >>)
  BY <1>1, <1>2, <1>3, TextIs DEF Inv, WholeInv, WholeText, Text
<1>5. PICK m \in Nat \ {0} : m = Len(l)
  BY <1>4, StringIs
<1>6. l[m] = t + m /\ \A i \in 1 .. m - 1 : l[i] = t + i
  BY <1>2, <1>5
<1>7. LastByte(out[Stdin]) = t + m
  BY <1>1, <1>2, <1>5, <1>6 DEF LastByte
<1>8. t + m <= Len(Text)
  BY <1>7, BehindIs, TextIs
<1>9. Text[t + m] = "nl" \/ t + m = Len(Text)
  BY <1>4, <1>5, <1>6, <1>7, BehindIs
<1>10. \A i \in 1 .. m - 1 : Text[t + i] # "nl"
  BY <1>4, <1>5, <1>6
<1>11. QED
  BY <1>1, <1>2, <1>5, <1>7, <1>8, <1>9, <1>10

(* Text that nothing has been added to stays a beginning of the input. *)
LEMMA CopySame ==
  ASSUME CopyInv, UNCHANGED <<input, temp>>, WholeText' => WholeText, hpc' = "done" => hpc = "done",
         WholeText' /\ hpc' # "done" => ~Waiting' /\ ~Waiting /\ hpc # "done" /\ UNCHANGED out
  PROVE  CopyInv'
<1>1. ASSUME WholeText', hpc' # "done" PROVE ~Waiting' /\ LastByte(out[Stdin])' = Len(temp)
  <2>1. ~Waiting' /\ Len(temp) = LastByte(out[Stdin]) /\ out' = out
    BY <1>1 DEF CopyInv
  <2>2. QED
    BY <2>1
<1>2. hpc' = "done" => ~Waiting'
  BY DEF Waiting
<1>3. Text' = Text /\ DelimiterLines' = DelimiterLines /\ temp' = temp
  BY DEF Text, DelimiterLines, LineStarts
<1>4. QED
  BY <1>1, <1>2, <1>3 DEF CopyInv

(* The history of failures only grows. *)
LEMMA WholeBefore ==
  ASSUME [HereDocNext]_<<vars, hvars>>, FlowInv
  PROVE  WholeText' => WholeText /\ UNCHANGED <<input, failed, unsaved>>
<1>1. failed \subseteq failed' /\ UNCHANGED input
  <2>1. [Next]_vars
    BY HereDocSteps
  <2>2. QED
    BY <2>1 DEF Next, Step, Call, Read, Crash, LoopDone, Split, Blame, vars
<1>2. unsaved \in BOOLEAN /\ unsaved' \in {unsaved, TRUE}
  BY DEF HereDocNext, HereDocStep, Open, Ask, Answering, Take, hvars, FlowInv
<1>3. ASSUME WholeText' PROVE WholeText /\ UNCHANGED <<input, failed, unsaved>>
  BY <1>1, <1>2, <1>3 DEF WholeText, Text
<1>4. QED
  BY <1>3

(* The line that ft_get_next_line returns is the one behind TEMP_FILE. *)
LEMMA CopySplit ==
  ASSUME Inv, FlowInv, CopyInv, Answering, Split
  PROVE  CopyInv'
<1>1. hpc = "loop" /\ cur = Stdin /\ fresh /\ pc = "split" /\ UNCHANGED <<hpc, fresh, temp, unsaved, input>> /\ ~Waiting
  BY DEF FlowInv, Split, Answering, hvars, Waiting
<1>2. SUFFICES ASSUME WholeText' PROVE CopyInv'
  BY DEF CopyInv
<1>3. WholeText /\ UNCHANGED failed
  <2>1. [HereDocNext]_<<vars, hvars>>
    BY DEF HereDocNext, HereDocStep
  <2>2. QED
    BY <1>2, <2>1, WholeBefore
<1>4. PICK h \in Strings : h = stbuff[Stdin] /\ h = Held(Stdin) /\ h # << >>
  BY <1>1, SplitFacts
<1>5. PICK k \in 1 .. Len(h), l \in Strings, t \in Strings :
        k = Cut(h) /\ l = RetVal(h) /\ t = Rest(h) /\ Parts(h, k, l, t)
  BY <1>1, <1>4, PartsOf
<1>6. ret' = [ret EXCEPT ![Stdin] = l] /\ out' = [out EXCEPT ![Stdin] = Append(@, l)]
  <2>1. PICK noLine \in BOOLEAN, noRest \in BOOLEAN :
          /\ ret' = [ret EXCEPT ![cur] = IF noLine THEN Null ELSE RetVal(stbuff[cur])]
          /\ out' = IF noLine THEN out ELSE [out EXCEPT ![cur] = Append(@, RetVal(stbuff[cur]))]
          /\ failed' = IF noLine \/ noRest THEN failed \cup {"malloc"} ELSE failed
    BY DEF Split, MayFail, Blame
  <2>2. ~noLine
    BY <1>3, <2>1 DEF WholeText
  <2>3. QED
    BY <1>1, <1>4, <1>5, <2>1, <2>2
<1>7. PICK g \in Nat : g = LastByte(out[Stdin]) /\ g = Len(temp) /\ \A i \in 1 .. Len(h) : h[i] = g + i
  <2>1. LastByte(out[Stdin]) \in Nat /\ LastByte(out[Stdin]) = Len(temp)
    BY <1>1, <1>3, BehindIs DEF CopyInv
  <2>2. \A i \in 1 .. Len(h) : h[i] = LastByte(out[Stdin]) + i
    BY <1>3, <1>4, TextIs DEF Inv, GapInv, WholeText, Text
  <2>3. QED
    BY <2>1, <2>2
<1>8. \A i \in 1 .. Len(l) : l[i] = g + i
  <2>1. Len(l) = k /\ Len(h) \in Nat /\ \A i \in 1 .. k : l[i] = h[i]
    BY <1>5, StringIs DEF Parts
  <2>2. \A i \in 1 .. k : i \in 1 .. Len(h)
    BY <2>1
  <2>3. QED
    BY <1>7, <2>1, <2>2
<1>9. PICK o \in Seq(Strings) : o = out[Stdin] /\ out'[Stdin] = Append(o, l) /\ ret'[Stdin] = l
  BY <1>6, TextIs DEF Inv, TypeOK
<1>10. Append(o, l) # << >> /\ Append(o, l)[Len(Append(o, l))] = l
  BY <1>9, AppendProperties
<1>11. l # Null
  BY <1>5, StringIs
<1>12. Waiting'
  BY <1>1, <1>9, <1>11 DEF Waiting, Split
<1>13. Text' = Text /\ DelimiterLines' = DelimiterLines /\ temp' = temp
  BY <1>1 DEF Text, DelimiterLines, LineStarts
<1>14. out'[Stdin] # << >> /\ ret'[Stdin] = out'[Stdin][Len(out'[Stdin])]
       /\ \A i \in 1 .. Len(ret'[Stdin]) : ret'[Stdin][i] = Len(temp) + i
  BY <1>7, <1>8, <1>9, <1>10
<1>15. QED
  BY <1>1, <1>3, <1>12, <1>13, <1>14 DEF CopyInv

(* No line that begins with the delimiter is skipped. *)
LEMMA NothingSkipped ==
  ASSUME Inv, FlowInv, CopyInv, WholeText, Waiting, NEW p \in DelimiterLines,
         p <= Len(temp) + Len(ret[Stdin])
  PROVE  IsDelimiter(ret[Stdin])
<1>1. PICK t \in Nat, m \in Nat \ {0}, l \in Strings :
        /\ t = Len(temp) /\ l = ret[Stdin] /\ m = Len(l)
        /\ t + m <= Len(Text) /\ LastByte(out[Stdin]) = t + m
        /\ \A i \in 1 .. m : l[i] = t + i
        /\ \A i \in 1 .. m - 1 : Text[t + i] # "nl"
        /\ Text[t + m] = "nl" \/ t + m = Len(Text)
  BY WaitingIs
<1>2. PICK T \in Seq(Byte) : T = Text
  BY TextIs
<1>3. /\ p \in 1 .. Len(T) /\ t < p /\ p <= t + m /\ (p = 1 \/ T[p - 1] = "nl")
      /\ p + Len(Delimiter) - 1 <= Len(T)
      /\ \A i \in DOMAIN Delimiter : T[p + i - 1] = Delimiter[i]
  BY <1>1, <1>2 DEF CopyInv, DelimiterLines, LineStarts
<1>4. Len(Delimiter) <= m /\ \A i \in DOMAIN Delimiter : T[t + i] = Delimiter[i]
  BY <1>1, <1>2, <1>3, LineBehind
<1>5. DOMAIN Delimiter = 1 .. Len(Delimiter) /\ Len(Delimiter) \in Nat
  BY HereDocAssumption, LenProperties
<1>6. ASSUME NEW i \in DOMAIN Delimiter PROVE Text[l[i]] = Delimiter[i]
  <2>1. i \in 1 .. m
    BY <1>4, <1>5
  <2>2. l[i] = t + i
    BY <1>1, <2>1
  <2>3. QED
    BY <1>2, <1>4, <2>2
<1>7. QED
  BY <1>1, <1>4, <1>6 DEF IsDelimiter, Text

(* The loop ends at a line that begins with the delimiter, or adds the line. *)
LEMMA CopyTake ==
  ASSUME Inv, FlowInv, CopyInv, Take
  PROVE  CopyInv'
<1>1. SUFFICES ASSUME WholeText' PROVE CopyInv'
  BY DEF CopyInv
<1>2. hpc = "loop" /\ pc = "idle" /\ fresh /\ ~fresh' /\ UNCHANGED <<input, ret, out, rd, stbuff, pc, failed>>
  BY DEF Take, vars
<1>3. WholeText /\ UNCHANGED unsaved
  <2>1. [HereDocNext]_<<vars, hvars>>
    BY DEF HereDocNext, HereDocStep
  <2>2. QED
    BY <1>1, <2>1, WholeBefore
<1>4. Text' = Text /\ DelimiterLines' = DelimiterLines /\ ~Waiting'
  BY <1>2 DEF Text, DelimiterLines, LineStarts, Waiting
<1>5. Len(temp) \in Nat
  BY StringIs DEF FlowInv
<1>6. CASE ret[Stdin] = Null
  <2>1. hpc' = "done" /\ temp' = temp
    BY <1>6 DEF Take
  <2>2. Len(temp) = LastByte(out[Stdin])
    BY <1>2, <1>3, <1>6 DEF Waiting, CopyInv
  <2>3. rd[Stdin] = Len(Text) /\ Held(Stdin) = << >>
    BY <1>2, <1>3, <1>6, TextIs DEF Inv, NullInv, WholeText, Text, Held
  <2>4. Len(temp) = Len(Text)
    BY <1>3, <2>2, <2>3, BehindIs
  <2>5. QED
    BY <1>3, <1>4, <2>1, <2>4 DEF CopyInv
<1>7. CASE ret[Stdin] # Null
  <2>1. Waiting
    BY <1>2, <1>7 DEF Waiting
  <2>2. PICK t \in Nat, m \in Nat \ {0}, l \in Strings :
          /\ t = Len(temp) /\ l = ret[Stdin] /\ m = Len(l)
          /\ t + m <= Len(Text) /\ LastByte(out[Stdin]) = t + m
          /\ \A i \in 1 .. m : l[i] = t + i
          /\ \A i \in 1 .. m - 1 : Text[t + i] # "nl"
          /\ Text[t + m] = "nl" \/ t + m = Len(Text)
    BY <1>3, <2>1, WaitingIs
  <2>3. PICK n \in Nat : n = Len(Text)
    BY TextIs
  <2>4. CASE IsDelimiter(l)
    <3>1. hpc' = "done" /\ temp' = temp
      BY <2>2, <2>4 DEF Take
    <3>2. Len(Delimiter) \in Nat /\ DOMAIN Delimiter = 1 .. Len(Delimiter)
      BY HereDocAssumption, LenProperties
    <3>3. Len(Delimiter) <= m /\ \A i \in DOMAIN Delimiter : Text[l[i]] = Delimiter[i]
      BY <2>2, <2>4 DEF IsDelimiter, Text
    <3>4. ASSUME NEW i \in DOMAIN Delimiter PROVE Text[t + 1 + i - 1] = Delimiter[i]
      <4>1. i \in 1 .. m /\ t + 1 + i - 1 = t + i
        BY <2>2, <3>2, <3>3
      <4>2. QED
        BY <2>2, <3>3, <4>1
    <3>5. t = 0 \/ Text[t] = "nl"
      <4>1. t # Len(Text)
        <5>1. t + m <= n
          BY <2>2, <2>3
        <5>2. QED
          BY <2>3, <5>1
      <4>2. QED
        BY <1>3, <2>2, <4>1 DEF CopyInv
    <3>6. t + 1 \in LineStarts
      <4>1. t + m <= n
        BY <2>2, <2>3
      <4>2. t + 1 \in 1 .. n /\ t + 1 - 1 = t /\ (t = 0 => t + 1 = 1)
        BY <4>1
      <4>3. QED
        BY <2>3, <3>5, <4>2 DEF LineStarts
    <3>7. t + 1 \in DelimiterLines
      <4>1. t + m <= n
        BY <2>2, <2>3
      <4>2. t + 1 + Len(Delimiter) - 1 <= n
        BY <3>2, <3>3, <4>1
      <4>3. QED
        BY <2>3, <3>4, <3>6, <4>2 DEF DelimiterLines
    <3>8. QED
      BY <1>3, <1>4, <2>2, <3>1, <3>7 DEF CopyInv
  <2>5. CASE ~IsDelimiter(l)
    <3>1. hpc' = "loop" /\ temp' = temp \o l
      BY <1>1, <1>2, <1>3, <1>7, <2>2, <2>5 DEF Take, WholeText
    <3>2. Len(temp') = t + m /\ \A i \in 1 .. t + m : temp'[i] = i
      <4>1. PICK s \in Seq(Nat \ {0}) : s = temp /\ Len(s) = t
        BY <2>2 DEF FlowInv, Strings
      <4>2. /\ Len(s \o l) = t + m
            /\ \A i \in 1 .. t + m : (s \o l)[i] = IF i <= t THEN s[i] ELSE l[i - t]
        BY <2>2, <4>1, ConcatProperties DEF Strings
      <4>3. \A i \in 1 .. t : s[i] = i
        BY <1>3, <4>1 DEF CopyInv
      <4>4. ASSUME NEW i \in 1 .. t + m PROVE (s \o l)[i] = i
        <5>1. CASE i <= t
          BY <4>2, <4>3, <5>1
        <5>2. CASE ~(i <= t)
          <6>1. i - t \in 1 .. m /\ t + (i - t) = i
            BY <2>2, <5>2
          <6>2. l[i - t] = i
            BY <2>2, <6>1
          <6>3. QED
            BY <4>2, <5>2, <6>2
        <5>3. QED
          BY <5>1, <5>2
      <4>5. QED
        BY <3>1, <4>1, <4>2, <4>4
    <3>3. ASSUME NEW p \in DelimiterLines PROVE t + m < p
      <4>1. p \in Nat
        BY TextIs DEF DelimiterLines, LineStarts
      <4>2. ~(p <= t + m)
        BY <1>3, <2>1, <2>2, <2>5, NothingSkipped
      <4>3. QED
        BY <2>2, <4>1, <4>2
    <3>4. LastByte(out'[Stdin]) = t + m
      <4>1. out' = out
        BY <1>2
      <4>2. QED
        BY <2>2, <4>1
    <3>5. /\ t + m <= Len(Text')
          /\ Text'[t + m] = "nl" \/ t + m = Len(Text')
          /\ \A p \in DelimiterLines' : t + m < p
      BY <1>4, <2>2, <3>3
    <3>6. QED
      BY <1>4, <3>1, <3>2, <3>4, <3>5 DEF CopyInv
  <2>6. QED
    BY <2>4, <2>5
<1>8. QED
  BY <1>6, <1>7

(* Each step of the loop keeps TEMP_FILE a beginning of the text. *)
LEMMA CopyStep ==
  ASSUME Inv, FlowInv, CopyInv, [HereDocNext]_<<vars, hvars>>
  PROVE  CopyInv'
<1>1. WholeText' => WholeText /\ UNCHANGED <<input, failed, unsaved>>
  BY WholeBefore
<1>2. UNCHANGED input
  <2>1. [Next]_vars
    BY HereDocSteps
  <2>2. QED
    BY <2>1 DEF Next, Step, Call, Read, Crash, LoopDone, Split, vars
<1>3. CASE Open
  <2>1. SUFFICES ASSUME WholeText' PROVE CopyInv'
    BY DEF CopyInv
  <2>2. hpc = "open" /\ hpc' = "loop" /\ ~Waiting /\ ~Waiting' /\ UNCHANGED <<input, temp, out>>
    BY <1>3, <2>1 DEF Open, FlowInv, vars, Waiting, WholeText
  <2>3. QED
    BY <1>1, <2>1, <2>2, CopySame
<1>4. CASE Ask
  <2>1. SUFFICES ASSUME WholeText' PROVE CopyInv'
    BY DEF CopyInv
  <2>2. pc' = "read"
    BY <1>4, <2>1 DEF Ask, Call, Blame, MayFail, WholeText
  <2>3. hpc = "loop" /\ hpc' = "loop" /\ ~Waiting /\ ~Waiting' /\ UNCHANGED <<input, temp, out>>
    BY <1>4, <2>2 DEF Ask, Call, Waiting
  <2>4. QED
    BY <1>1, <2>1, <2>3, CopySame
<1>5. CASE Answering /\ (Read \/ Crash \/ LoopDone)
  <2>1. hpc = "loop" /\ hpc' = "loop" /\ pc # "idle" /\ cur = Stdin /\ UNCHANGED <<input, temp, out>>
    BY <1>5 DEF Answering, Read, Crash, LoopDone, hvars, FlowInv
  <2>2. ~Waiting /\ ~Waiting'
    <3>1. ~Waiting
      BY <2>1 DEF Waiting
    <3>2. CASE Read \/ Crash
      BY <2>1, <3>2 DEF Waiting, Read, Crash
    <3>3. CASE LoopDone
      <4>1. Stdin \in Fds /\ ret \in [Fds -> Pointers]
        BY HereDocAssumption DEF Inv, TypeOK
      <4>2. pc' = "idle" => ret'[Stdin] = Null
        BY <2>1, <3>3, <4>1 DEF LoopDone
      <4>3. QED
        BY <3>1, <4>2 DEF Waiting
    <3>4. QED
      BY <1>5, <3>1, <3>2, <3>3
  <2>3. QED
    BY <1>1, <2>1, <2>2, CopySame
<1>6. CASE Answering /\ Split
  BY <1>6, CopySplit
<1>7. CASE Take
  BY <1>7, CopyTake
<1>8. CASE UNCHANGED <<vars, hvars>>
  <2>1. UNCHANGED <<input, temp, out, hpc, fresh, pc, ret, failed, unsaved>>
    BY <1>8 DEF vars, hvars
  <2>2. /\ Text' = Text /\ DelimiterLines' = DelimiterLines /\ Waiting' = Waiting
        /\ WholeText' = WholeText /\ temp' = temp /\ hpc' = hpc /\ out' = out /\ ret' = ret
    BY <2>1 DEF Text, DelimiterLines, LineStarts, Waiting, WholeText
  <2>3. QED
    BY <2>2 DEF CopyInv
<1>9. QED
  BY <1>3, <1>4, <1>5, <1>6, <1>7, <1>8 DEF HereDocNext, HereDocStep, Answering

(* Every reachable state of ft_here_doc_inp satisfies the invariant. *)
LEMMA HereDocInvariance == HereDocSpec => []HereDocInv
<1>1. HereDocInit => HereDocInv
  <2>1. SUFFICES ASSUME HereDocInit PROVE HereDocInv
    OBVIOUS
  <2>2. Inv
    BY <2>1, InitHolds DEF HereDocInit
  <2>3. << >> \in Strings
    BY DEF Strings
  <2>4. Stdin \in Fds
    BY HereDocAssumption
  <2>5. FlowInv
    BY <2>1, <2>3, <2>4 DEF HereDocInit, Init, FlowInv
  <2>6. temp = << >> /\ out[Stdin] = << >> /\ hpc = "open" /\ ~Waiting
    BY <2>1, <2>4 DEF HereDocInit, Init, Waiting
  <2>7. Len(temp) = 0 /\ LastByte(out[Stdin]) = 0
    BY <2>6 DEF LastByte
  <2>8. Len(Text) \in Nat /\ \A p \in DelimiterLines : p \in 1 .. Len(Text)
    BY <2>2, TextIs DEF DelimiterLines, LineStarts
  <2>9. CopyInv
    BY <2>6, <2>7, <2>8 DEF CopyInv
  <2>10. QED
    BY <2>2, <2>5, <2>9 DEF HereDocInv
<1>2. HereDocInv /\ [HereDocNext]_<<vars, hvars>> => HereDocInv'
  <2>1. SUFFICES ASSUME Inv, FlowInv, CopyInv, [HereDocNext]_<<vars, hvars>> PROVE HereDocInv'
    BY DEF HereDocInv
  <2>2. Inv'
    BY <2>1, HereDocSteps, NextHolds
  <2>3. FlowInv'
    BY <2>1, FlowStep
  <2>4. CopyInv'
    BY <2>1, CopyStep
  <2>5. QED
    BY <2>2, <2>3, <2>4 DEF HereDocInv
<1>3. QED
  BY <1>1, <1>2, PTL DEF HereDocSpec

(* Where the text to be copied ends. *)
LEMMA WantedIs ==
  ASSUME Inv, NEW t \in Nat, t <= Len(Text), \A p \in DelimiterLines : t < p
  PROVE  t <= Wanted /\ (t = Len(Text) \/ t + 1 \in DelimiterLines => t = Wanted)
<1>1. PICK n \in Nat : n = Len(Text)
  BY TextIs
<1> DEFINE I == {n + 1} \cup DelimiterLines
<1>2. I \in SUBSET (1 .. n + 1) /\ I # {}
  BY <1>1 DEF DelimiterLines, LineStarts
<1>3. (t = n \/ t + 1 \in DelimiterLines) => t + 1 \in I
  OBVIOUS
<1>4. \A y \in I : t < y
  BY <1>1
<1>5. Wanted = Min(I) - 1
  BY <1>1 DEF Wanted
<1> HIDE DEF I
<1>6. Min(I) \in I /\ \A y \in I : Min(I) <= y
  <2>1. n + 1 \in Nat
    BY <1>1
  <2>2. QED
    BY <1>2, <2>1, LeastIndex
<1>7. PICK x \in Nat : x = Min(I)
  <2>1. I \subseteq Nat
    BY <1>2
  <2>2. Min(I) \in Nat
    BY <1>6, <2>1
  <2>3. QED
    BY <2>2
<1>8. t < x /\ (t + 1 \in I => x <= t + 1)
  BY <1>4, <1>6, <1>7
<1>9. QED
  BY <1>1, <1>3, <1>5, <1>7, <1>8

(***************************************************************************)
(* TEMP_FILE is the text in front of the delimiter, for every text, every  *)
(* delimiter and every BUFFER_SIZE, while nothing fails.                   *)
(***************************************************************************)
THEOREM TempIsTextCorrect == HereDocSpec => []TempIsText
<1>1. HereDocInv => TempIsText
  <2>1. SUFFICES ASSUME HereDocInv, failed = {}, ~unsaved, "nul" \notin ToSet(Text)
                 PROVE  /\ Len(temp) <= Wanted /\ \A i \in DOMAIN temp : temp[i] = i
                        /\ hpc = "done" => Len(temp) = Wanted
    BY DEF TempIsText
  <2>2. Inv /\ WholeText
    <3>1. Inv /\ DOMAIN Text = 1 .. Len(Text)
      BY <2>1, TextIs DEF HereDocInv
    <3>2. QED
      BY <2>1, <3>1 DEF WholeText, ToSet
  <2>3. PICK t \in Nat : t = Len(temp) /\ DOMAIN temp = 1 .. t
    BY <2>1, StringIs DEF HereDocInv, FlowInv
  <2>4. /\ \A i \in 1 .. t : temp[i] = i
        /\ t <= Len(Text) /\ \A p \in DelimiterLines : t < p
        /\ hpc = "done" => t = Len(Text) \/ t + 1 \in DelimiterLines
    BY <2>1, <2>2, <2>3 DEF HereDocInv, CopyInv
  <2>5. t <= Wanted /\ (t = Len(Text) \/ t + 1 \in DelimiterLines => t = Wanted)
    BY <2>2, <2>4, WantedIs
  <2>6. QED
    BY <2>3, <2>4, <2>5
<1>2. QED
  BY <1>1, HereDocInvariance, PTL

(***************************************************************************)
(* Less than one buffer of the input behind the line that ended the loop   *)
(* is gone with the static buffer.                                         *)
(***************************************************************************)
THEOREM LookAheadCorrect == HereDocSpec => []LookAheadBounded
<1>1. HereDocInv => LookAheadBounded
  <2>1. SUFFICES ASSUME HereDocInv, hpc = "done", failed \subseteq {"eof"}, "nul" \notin ToSet(Text),
                        out[Stdin] # << >>
                 PROVE  LET line == out[Stdin][Len(out[Stdin])] IN rd[Stdin] - line[Len(line)] < BufferSize
    BY DEF LookAheadBounded
  <2>2. Inv /\ pc = "idle" /\ Stdin \in Fds
    BY <2>1, HereDocAssumption DEF HereDocInv, FlowInv
  <2>3. \A p \in 1 .. Len(Text) : Text[p] # "nul"
    <3>1. DOMAIN Text = 1 .. Len(Text)
      BY <2>2, TextIs
    <3>2. QED
      BY <2>1, <3>1 DEF ToSet
  <2>4. Len(Held(Stdin)) = rd[Stdin] - LastByte(out[Stdin])
    BY <2>1, <2>2, <2>3 DEF Inv, GapInv, Text
  <2>5. Len(Held(Stdin)) < BufferSize
    BY <2>2 DEF Inv, TightInv, InCall
  <2>6. LastByte(out[Stdin]) = out[Stdin][Len(out[Stdin])][Len(out[Stdin][Len(out[Stdin])])]
    BY <2>1 DEF LastByte
  <2>7. QED
    BY <2>4, <2>5, <2>6
<1>2. QED
  BY <1>1, HereDocInvariance, PTL

(***************************************************************************)
(* ft_here_doc_inp calls ft_get_next_line as it wants to be called: what   *)
(* is proved of all callers holds of this one.                             *)
(***************************************************************************)
THEOREM HereDocCalls == HereDocSpec => Spec
<1>1. HereDocInit => Init
  BY DEF HereDocInit
<1>2. [HereDocNext]_<<vars, hvars>> => [Next]_vars
  BY HereDocSteps
<1>3. QED
  BY <1>1, <1>2, PTL DEF HereDocSpec, Spec
=============================================================================
