--------------------------- MODULE PlumbingProofs ---------------------------
(***************************************************************************)
(* Proofs that pipex joins the commands as it should, for any number of    *)
(* commands, and leaves no end of a pipe open that could hold back an end  *)
(* of file, as long as no pipe is refused to ft_malcolm; and that a pipe   *)
(* that is refused cuts the pipeline there and leaves what is in front of  *)
(* the cut as it was.  The heart of it is Layout: which pipe is in which   *)
(* of the two slots when a child is forked; and for the rest Severed.      *)
(***************************************************************************)
EXTENDS PipexProofs

(***************************************************************************)
(* Open files that differ, and the numbering of the pipes.                 *)
(***************************************************************************)
LEMMA FilesDiffer ==
  /\ Terminal # Closed /\ Infile # Closed /\ Outfile # Closed
  /\ \A n \in Nat : ReadEnd(n) # Closed /\ WriteEnd(n) # Closed /\ TempOf(n) # Closed
  /\ \A n, m \in Nat : WriteEnd(n) = WriteEnd(m) => n = m
  /\ \A n, m \in Nat : /\ WriteEnd(n) # ReadEnd(m) /\ WriteEnd(n) # TempOf(m)
                       /\ WriteEnd(n) # Terminal /\ WriteEnd(n) # Infile
                       /\ WriteEnd(n) # Outfile
BY DEF Closed, Terminal, Infile, Outfile, ReadEnd, WriteEnd, TempOf

(* Link numbers the pipes behind the commands 1, 2, ... without using a number twice. *)
LEMMA LinkNumbers ==
  /\ Link(0) = 1 /\ Link(1) = 2 /\ Link(2) = 1
  /\ \A k \in Nat : k >= 3 => Link(k) = k
  /\ \A k \in Nat : Link(k) \in Nat \ {0}
  /\ \A k, l \in Nat \ {0} : Link(k) = Link(l) => k = l
BY DEF Link

PipeArrays == [0 .. 1 -> [0 .. 1 -> Fd]]

(* Neighbouring commands use the two slots of pipe[2][2] the other way round. *)
LEMMA ParityOfSlots ==
  ASSUME NEW k \in Nat
  PROVE  /\ k % 2 \in 0 .. 1 /\ (k + 1) % 2 \in 0 .. 1 /\ (k + 2) % 2 = k % 2
         /\ k % 2 # (k + 1) % 2
         /\ k % 2 = 0 => (k + 1) % 2 = 1
         /\ k % 2 = 1 => (k + 1) % 2 = 0
OBVIOUS

(***************************************************************************)
(* close || close || ... reaches its end when all descriptors are open.    *)
(***************************************************************************)
LEMMA CloseTwo ==
  ASSUME NEW t \in Table, NEW a \in Fd, NEW b \in Fd,
         a # b, t[a] # Closed, t[b] # Closed
  PROVE  CloseChain(t, <<a, b>>) = [f \in Fd |-> IF f \in {a, b} THEN Closed ELSE t[f]]
<1> DEFINE s == <<a, b>>
           Open(j) == t[s[j]] # Closed /\ \A l \in 1 .. (j - 1) : s[l] # s[j]
           Done(j) == \A m \in 1 .. j : Open(m)
<1>1. Len(s) = 2 /\ s[1] = a /\ s[2] = b
  OBVIOUS
<1>2. Open(1) /\ Open(2)
  BY <1>1
<1>3. \A j \in 1 .. Len(s) : Done(j)
  BY <1>1, <1>2
<1>4. \A f \in Fd : (\E j \in 1 .. Len(s) : s[j] = f /\ Done(j)) <=> f \in {a, b}
  <2> HIDE DEF Done
  <2>1. QED
    BY <1>1, <1>3
<1>5. CloseChain(t, s) =
        [f \in Fd |-> IF \E j \in 1 .. Len(s) : s[j] = f /\ Done(j) THEN Closed ELSE t[f]]
  BY DEF CloseChain
<1> HIDE DEF Done, s
<1>6. QED
  BY <1>4, <1>5 DEF s

(* ft_close_all_fds closes the four pipe ends when all of them are open. *)
LEMMA CloseFour ==
  ASSUME NEW t \in Table, NEW a \in Fd, NEW b \in Fd, NEW c \in Fd, NEW d \in Fd,
         a # b, a # c, a # d, b # c, b # d, c # d,
         t[a] # Closed, t[b] # Closed, t[c] # Closed, t[d] # Closed
  PROVE  CloseChain(t, <<a, b, c, d>>)
           = [f \in Fd |-> IF f \in {a, b, c, d} THEN Closed ELSE t[f]]
<1> DEFINE s == <<a, b, c, d>>
           Open(j) == t[s[j]] # Closed /\ \A l \in 1 .. (j - 1) : s[l] # s[j]
           Done(j) == \A m \in 1 .. j : Open(m)
<1>1. Len(s) = 4 /\ s[1] = a /\ s[2] = b /\ s[3] = c /\ s[4] = d
  OBVIOUS
<1>2. Open(1) /\ Open(2) /\ Open(3) /\ Open(4)
  BY <1>1
<1>3. \A j \in 1 .. Len(s) : Done(j)
  BY <1>1, <1>2
<1>4. \A f \in Fd : (\E j \in 1 .. Len(s) : s[j] = f /\ Done(j)) <=> f \in {a, b, c, d}
  <2> HIDE DEF Done
  <2>1. QED
    BY <1>1, <1>3
<1>5. CloseChain(t, s) =
        [f \in Fd |-> IF \E j \in 1 .. Len(s) : s[j] = f /\ Done(j) THEN Closed ELSE t[f]]
  BY DEF CloseChain
<1> HIDE DEF Done, s
<1>6. QED
  BY <1>4, <1>5 DEF s

(***************************************************************************)
(* The four descriptors of a Layout are distinct and open.                 *)
(***************************************************************************)
LEMMA LayoutFds ==
  ASSUME NEW t \in Table, NEW p \in PipeArrays, NEW k \in Nat, Layout(t, p, k)
  PROVE  /\ p[0][0] \in Fd /\ p[0][1] \in Fd /\ p[1][0] \in Fd /\ p[1][1] \in Fd
         /\ p[0][0] # p[0][1] /\ p[0][0] # p[1][0] /\ p[0][0] # p[1][1]
         /\ p[0][1] # p[1][0] /\ p[0][1] # p[1][1] /\ p[1][0] # p[1][1]
         /\ t[p[0][0]] # Closed /\ t[p[0][1]] # Closed
         /\ t[p[1][0]] # Closed /\ t[p[1][1]] # Closed
<1>1. p[0][0] \in Fd /\ p[0][1] \in Fd /\ p[1][0] \in Fd /\ p[1][1] \in Fd
  BY DEF PipeArrays
<1>2. \A n \in {k, k + 1} : Link(n) \in Nat
  BY LinkNumbers
<1>3. /\ t[p[k % 2][0]] # Closed /\ t[p[k % 2][1]] # Closed
      /\ t[p[(k + 1) % 2][0]] # Closed /\ t[p[(k + 1) % 2][1]] # Closed
  BY <1>2, FilesDiffer DEF Layout
<1>4. \/ k % 2 = 0 /\ (k + 1) % 2 = 1
      \/ k % 2 = 1 /\ (k + 1) % 2 = 0
  OBVIOUS
<1>5. /\ t[p[0][0]] # Closed /\ t[p[0][1]] # Closed
      /\ t[p[1][0]] # Closed /\ t[p[1][1]] # Closed
  BY <1>3, <1>4
<1>6. QED
  BY <1>1, <1>5 DEF Layout

(***************************************************************************)
(* ft_close_all_fds leaves just the three streams, whatever they are.      *)
(***************************************************************************)
LEMMA CloseAllLeavesStreams ==
  ASSUME NEW t \in Table, NEW u \in Table, NEW p \in PipeArrays, NEW k \in Nat,
         Layout(t, p, k),
         \A f \in Fd : f > STDERR => u[f] = t[f]
  PROVE  CloseAllFds(u, p) = [f \in Fd |-> IF f > STDERR THEN Closed ELSE u[f]]
<1>1. /\ u[p[0][0]] # Closed /\ u[p[0][1]] # Closed
      /\ u[p[1][0]] # Closed /\ u[p[1][1]] # Closed
  BY LayoutFds DEF Layout, PipeFds
<1>2. CloseAllFds(u, p) = [f \in Fd |-> IF f \in PipeFds(p) THEN Closed ELSE u[f]]
  BY <1>1, LayoutFds, CloseFour DEF CloseAllFds, PipeFds
<1>3. ASSUME NEW f \in Fd
      PROVE  (IF f \in PipeFds(p) THEN Closed ELSE u[f]) = IF f > STDERR THEN Closed ELSE u[f]
  BY DEF Layout
<1>4. QED
  BY <1>2, <1>3

-----------------------------------------------------------------------------
(***************************************************************************)
(* The parent: the first two pipes, and the turn of a slot in ft_malcolm.  *)
(***************************************************************************)
LEMMA FirstPipe ==
  ASSUME TypeOK, NEW q, fd = StdFds, npipe = 0, CreatePipe(fd, 0, q)
  PROVE  /\ npipe' = 1 /\ pipe'[0][0] # pipe'[0][1]
         /\ pipe'[0][0] > STDERR /\ pipe'[0][1] > STDERR
         /\ fd' = [StdFds EXCEPT ![pipe'[0][0]] = ReadEnd(1), ![pipe'[0][1]] = WriteEnd(1)]
<1>1. PICK r \in Fd, w \in Fd :
        /\ IsPipePair(fd, r, w)
        /\ fd' = [fd EXCEPT ![r] = ReadEnd(npipe + 1), ![w] = WriteEnd(npipe + 1)]
        /\ pipe' = [pipe EXCEPT ![0] = [e \in 0 .. 1 |-> IF e = 0 THEN r ELSE w]]
  BY DEF CreatePipe
<1>2. pipe'[0][0] = r /\ pipe'[0][1] = w
  BY <1>1 DEF TypeOK
<1>3. r > STDERR /\ w > STDERR /\ r # w
  BY <1>1, FilesDiffer DEF IsPipePair, IsLowest, IsFree, StdFds, Fd, STDERR
<1>4. npipe' = 1 /\ npipe + 1 = 1
  BY DEF CreatePipe
<1>5. fd' = [StdFds EXCEPT ![r] = ReadEnd(1), ![w] = WriteEnd(1)]
  BY <1>1, <1>4
<1>6. QED
  BY <1>2, <1>3, <1>4, <1>5

(* After the second pipe the parent has the layout the first child needs. *)
LEMMA SecondPipe ==
  ASSUME TypeOK, NEW q, CreatePipe(fd, 1, q),
         npipe = 1, pipe[0][0] # pipe[0][1], pipe[0][0] > STDERR, pipe[0][1] > STDERR,
         fd = [StdFds EXCEPT ![pipe[0][0]] = ReadEnd(1), ![pipe[0][1]] = WriteEnd(1)]
  PROVE  npipe' = 2 /\ Layout(fd', pipe', 0)
<1> DEFINE a == pipe[0][0]
           b == pipe[0][1]
<1>1. PICK r \in Fd, w \in Fd :
        /\ IsPipePair(fd, r, w)
        /\ fd' = [fd EXCEPT ![r] = ReadEnd(npipe + 1), ![w] = WriteEnd(npipe + 1)]
        /\ pipe' = [pipe EXCEPT ![1] = [e \in 0 .. 1 |-> IF e = 0 THEN r ELSE w]]
  BY DEF CreatePipe
<1>2. /\ pipe'[0][0] = a /\ pipe'[0][1] = b /\ pipe'[1][0] = r /\ pipe'[1][1] = w
      /\ a \in Fd /\ b \in Fd
  BY <1>1 DEF TypeOK
<1>3. fd[a] = ReadEnd(1) /\ fd[b] = WriteEnd(1) /\ fd \in Table
  BY <1>2 DEF StdFds, TypeOK
<1>4. \A f \in Fd : f # a /\ f # b => fd[f] = IF f <= STDERR THEN Terminal ELSE Closed
  BY <1>2 DEF StdFds
<1> a > STDERR /\ b > STDERR
  OBVIOUS
<1> HIDE DEF a, b
<1>5. fd[r] = Closed /\ fd[w] = Closed /\ r # w
  BY <1>1 DEF IsPipePair, IsLowest, IsFree
<1>6. r > STDERR /\ w > STDERR /\ {a, b} \cap {r, w} = {}
  <2>1. fd[a] # Closed /\ fd[b] # Closed
    BY <1>3, FilesDiffer
  <2>2. {a, b} \cap {r, w} = {}
    BY <1>5, <2>1
  <2>3. QED
    BY <1>4, <1>5, <2>2, FilesDiffer DEF Fd, STDERR
<1>7. /\ fd'[r] = ReadEnd(2) /\ fd'[w] = WriteEnd(2)
      /\ \A f \in Fd : f # r /\ f # w => fd'[f] = fd[f]
  <2>1. npipe + 1 = 2
    OBVIOUS
  <2>2. QED
    BY <1>1, <1>3, <1>5, <2>1 DEF Table
<1>8. /\ 0 % 2 = 0 /\ (0 + 1) % 2 = 1 /\ Link(0) = 1 /\ Link(0 + 1) = 2
  BY LinkNumbers
<1>9. /\ fd'[a] = ReadEnd(1) /\ fd'[b] = WriteEnd(1)
  BY <1>2, <1>3, <1>6, <1>7
<1>10. /\ fd'[pipe'[0 % 2][0]] = ReadEnd(Link(0)) /\ fd'[pipe'[0 % 2][1]] = WriteEnd(Link(0))
       /\ fd'[pipe'[(0 + 1) % 2][0]] = ReadEnd(Link(0 + 1))
       /\ fd'[pipe'[(0 + 1) % 2][1]] = WriteEnd(Link(0 + 1))
  BY <1>2, <1>7, <1>8, <1>9
<1>11. ASSUME NEW f \in Fd, f <= STDERR PROVE fd'[f] = Terminal
  <2>1. f \notin {a, b, r, w}
    BY <1>6, <1>11, MaxFdAssumption DEF Fd, STDERR
  <2>2. fd[f] = Terminal
    BY <1>4, <1>11, <2>1
  <2>3. QED
    BY <1>7, <2>1, <2>2
<1>12. ASSUME NEW f \in Fd, f > STDERR, f \notin {a, b, r, w} PROVE fd'[f] = Closed
  <2>1. ~(f <= STDERR)
    BY <1>12, MaxFdAssumption DEF Fd, STDERR
  <2>2. fd[f] = Closed
    BY <1>4, <1>12, <2>1
  <2>3. QED
    BY <1>7, <1>12, <2>2
<1>13. PipeFds(pipe') = {a, b, r, w}
  BY <1>2 DEF PipeFds
<1>14. a # b
  BY DEF a, b
<1>15. npipe' = 2
  BY DEF CreatePipe
<1>16. /\ pipe'[0][0] # pipe'[0][1] /\ pipe'[1][0] # pipe'[1][1]
       /\ {pipe'[0][0], pipe'[0][1]} \cap {pipe'[1][0], pipe'[1][1]} = {}
       /\ \A f \in PipeFds(pipe') : f > STDERR
  BY <1>2, <1>5, <1>6, <1>13, <1>14
<1>17. QED
  BY <1>10, <1>11, <1>12, <1>13, <1>15, <1>16 DEF Layout

(* Two consecutive commands around the first fork see the same Layout. *)
LEMMA LayoutZeroIsOne ==
  ASSUME NEW t, NEW p, Layout(t, p, 0)
  PROVE  Layout(t, p, 1)
<1>1. /\ 0 % 2 = 0 /\ (0 + 1) % 2 = 1 /\ 1 % 2 = 1 /\ (1 + 1) % 2 = 0
      /\ Link(0) = Link(1 + 1) /\ Link(0 + 1) = Link(1)
  BY LinkNumbers
<1>2. QED
  BY <1>1 DEF Layout

(***************************************************************************)
(* ft_malcolm, after the fork of command k: the slot k % 2, which command  *)
(* k reads, is closed and made anew, and is then what command k + 1        *)
(* writes.                                                                 *)
(***************************************************************************)
LEMMA RenewedSlot ==
  ASSUME TypeOK, NEW k \in Nat \ {0}, Layout(fd, pipe, k), npipe = k + 1, NEW q,
         CreatePipe(CloseChain(fd, <<pipe[k % 2][0], pipe[k % 2][1]>>), k % 2, q)
  PROVE  npipe' = k + 2 /\ Layout(fd', pipe', k + 1)
<1> DEFINE m == k % 2
           n == (k + 1) % 2
           a == pipe[m][0]
           b == pipe[m][1]
           c == pipe[n][0]
           d == pipe[n][1]
           t == CloseChain(fd, <<a, b>>)
<1>1. /\ m \in 0 .. 1 /\ n \in 0 .. 1 /\ m # n /\ (k + 2) % 2 = m
      /\ (m = 0 /\ n = 1) \/ (m = 1 /\ n = 0)
  OBVIOUS
<1>2. a \in Fd /\ b \in Fd /\ c \in Fd /\ d \in Fd
  BY <1>1 DEF TypeOK
<1>3. /\ a # b /\ a # c /\ a # d /\ b # c /\ b # d /\ c # d
      /\ fd[a] # Closed /\ fd[b] # Closed /\ fd[c] # Closed /\ fd[d] # Closed
      /\ PipeFds(pipe) = {a, b, c, d}
  BY <1>1, LayoutFds DEF TypeOK, PipeArrays, PipeFds
<1>4. t = [f \in Fd |-> IF f \in {a, b} THEN Closed ELSE fd[f]]
  <2>1. fd \in Table
    BY DEF TypeOK
  <2> HIDE DEF a, b
  <2>2. QED
    BY <1>2, <1>3, <2>1, CloseTwo
<1> HIDE DEF t
<1>5. PICK r \in Fd, w \in Fd :
        /\ IsPipePair(t, r, w)
        /\ fd' = [t EXCEPT ![r] = ReadEnd(npipe + 1), ![w] = WriteEnd(npipe + 1)]
        /\ pipe' = [pipe EXCEPT ![m] = [e \in 0 .. 1 |-> IF e = 0 THEN r ELSE w]]
  BY DEF CreatePipe, t
<1>6. r # w /\ t[r] = Closed /\ t[w] = Closed
  BY <1>5 DEF IsPipePair, IsLowest, IsFree
<1>7. \A f \in Fd : f <= STDERR => fd[f] = Terminal /\ f \notin {a, b, c, d}
  BY <1>2, <1>3 DEF Layout, Fd, STDERR
<1>8. r > STDERR /\ w > STDERR /\ {c, d} \cap {r, w} = {}
  BY <1>2, <1>3, <1>4, <1>6, <1>7, FilesDiffer DEF Fd, STDERR
<1>9. /\ pipe'[m][0] = r /\ pipe'[m][1] = w /\ pipe'[n][0] = c /\ pipe'[n][1] = d
  BY <1>1, <1>5 DEF TypeOK
<1>10. /\ fd'[r] = ReadEnd(k + 2) /\ fd'[w] = WriteEnd(k + 2)
       /\ \A f \in Fd : f # r /\ f # w => fd'[f] = t[f]
  BY <1>4, <1>5, <1>6
<1>11. Link(k + 2) = k + 2
  BY LinkNumbers
<1>12. /\ fd'[pipe'[(k + 1) % 2][0]] = ReadEnd(Link(k + 1))
       /\ fd'[pipe'[(k + 1) % 2][1]] = WriteEnd(Link(k + 1))
  <2>1. fd[c] = ReadEnd(Link(k + 1)) /\ fd[d] = WriteEnd(Link(k + 1))
    BY DEF Layout
  <2>2. t[c] = fd[c] /\ t[d] = fd[d]
    BY <1>2, <1>3, <1>4
  <2>3. QED
    BY <1>2, <1>8, <1>9, <1>10, <2>1, <2>2
<1>13. /\ fd'[pipe'[(k + 1 + 1) % 2][0]] = ReadEnd(Link(k + 1 + 1))
       /\ fd'[pipe'[(k + 1 + 1) % 2][1]] = WriteEnd(Link(k + 1 + 1))
  <2>1. (k + 1 + 1) % 2 = m /\ k + 1 + 1 = k + 2
    BY <1>1
  <2>2. QED
    BY <1>9, <1>10, <1>11, <2>1
<1>14. \A f \in Fd : f <= STDERR => fd'[f] = Terminal
  BY <1>4, <1>7, <1>8, <1>10 DEF Fd, STDERR
<1>15. \A f \in Fd : f > STDERR /\ f \notin {r, w, c, d} => fd'[f] = Closed
  BY <1>3, <1>4, <1>10 DEF Layout
<1>16. PipeFds(pipe') = {r, w, c, d}
  BY <1>1, <1>9 DEF PipeFds
<1>17. c > STDERR /\ d > STDERR
  BY <1>2, <1>3 DEF Layout
<1>18. /\ pipe'[0][0] # pipe'[0][1] /\ pipe'[1][0] # pipe'[1][1]
       /\ {pipe'[0][0], pipe'[0][1]} \cap {pipe'[1][0], pipe'[1][1]} = {}
       /\ \A f \in PipeFds(pipe') : f > STDERR
  BY <1>1, <1>3, <1>6, <1>8, <1>9, <1>16, <1>17
<1>19. npipe' = k + 2
  BY DEF CreatePipe
<1>20. QED
  BY <1>12, <1>13, <1>14, <1>15, <1>16, <1>18, <1>19 DEF Layout

(* After the two closes there is room for a pipe. *)
LEMMA RenewSucceeds ==
  ASSUME TypeOK, NEW k \in Nat, Layout(fd, pipe, k), "pipe" \notin Faults
  PROVE  ~PipeFails(CloseChain(fd, <<pipe[k % 2][0], pipe[k % 2][1]>>))
<1> DEFINE a == pipe[k % 2][0]
           b == pipe[k % 2][1]
<1>1. k % 2 = 0 \/ k % 2 = 1
  OBVIOUS
<1>2. a \in Fd /\ b \in Fd /\ a # b /\ fd[a] # Closed /\ fd[b] # Closed
  BY <1>1, LayoutFds DEF TypeOK, PipeArrays
<1>3. CloseChain(fd, <<a, b>>) = [f \in Fd |-> IF f \in {a, b} THEN Closed ELSE fd[f]]
  <2>1. fd \in Table
    BY DEF TypeOK
  <2> HIDE DEF a, b
  <2>2. QED
    BY <1>2, <2>1, CloseTwo
<1> HIDE DEF a, b
<1>4. QED
  BY <1>2, <1>3 DEF PipeFails, IsFree, a, b

-----------------------------------------------------------------------------
(***************************************************************************)
(* The children: from the Layout at the fork to the three streams.         *)
(***************************************************************************)

(* A free descriptor is not a stream and not one of the four of the pipes. *)
LEMMA FreeInLayout ==
  ASSUME NEW t \in Table, NEW p \in PipeArrays, NEW k \in Nat, Layout(t, p, k),
         NEW f \in Fd, IsFree(t, f)
  PROVE  f > STDERR /\ f \notin PipeFds(p)
<1>1. t[f] = Closed
  BY DEF IsFree
<1>2. f \notin PipeFds(p)
  BY <1>1, LayoutFds DEF PipeFds
<1>3. ~(f <= STDERR)
  BY <1>1, FilesDiffer DEF Layout
<1>4. QED
  BY <1>2, <1>3, MaxFdAssumption DEF Fd, STDERR

(* The standard streams are three different descriptors. *)
LEMMA StandardDistinct ==
  /\ STDIN \in Fd /\ STDOUT \in Fd /\ STDERR \in Fd
  /\ STDIN # STDOUT /\ STDIN # STDERR /\ STDOUT # STDERR
  /\ \A f \in Fd : f > STDERR => f # STDIN /\ f # STDOUT /\ f # STDERR
  /\ \A f \in Fd : f > STDERR <=> ~(f <= STDERR)
  /\ \A f \in Fd : f <= STDERR <=> f \in {STDIN, STDOUT, STDERR}
  /\ ~(STDIN > STDERR) /\ ~(STDOUT > STDERR) /\ ~(STDERR > STDERR)
BY MaxFdAssumption DEF Fd, STDIN, STDOUT, STDERR

(***************************************************************************)
(* Standard input and output of a table that has been left with only its   *)
(* streams by ft_close_all_fds.                                            *)
(***************************************************************************)
LEMMA OnlyStreams ==
  ASSUME NEW t \in Table, NEW u \in Table, NEW p \in PipeArrays, NEW k \in Nat,
         Layout(t, p, k),
         \A f \in Fd : f > STDERR => u[f] = t[f],
         u[STDERR] = Terminal
  PROVE  LET v == CloseAllFds(u, p)
         IN /\ v \in Table
            /\ v[STDIN] = u[STDIN] /\ v[STDOUT] = u[STDOUT] /\ v[STDERR] = Terminal
            /\ \A f \in Fd : f > STDERR => v[f] = Closed
<1>1. CloseAllFds(u, p) = [f \in Fd |-> IF f > STDERR THEN Closed ELSE u[f]]
  BY CloseAllLeavesStreams
<1>2. CloseAllFds(u, p) \in Table
  BY CloseChainTable DEF CloseAllFds
<1>3. QED
  BY <1>1, <1>2, StandardDistinct

(* ft_first_child and ft_here_doc, given the file that was opened. *)
LEMMA FirstChildStreams ==
  ASSUME NEW t \in Table, NEW p \in PipeArrays, Layout(t, p, 0),
         NEW f \in Fd, IsFree(t, f), NEW name \in File, name # Closed
  PROVE  LET u == Close(Dup2(Redirect(t, f, name, STDIN), p[1][1], STDOUT), f)
             v == CloseAllFds(u, p)
         IN /\ v[STDIN] = name /\ v[STDOUT] = WriteEnd(Link(1)) /\ v[STDERR] = Terminal
            /\ \A g \in Fd : g > STDERR => v[g] = Closed
<1> DEFINE r == Redirect(t, f, name, STDIN)
           d == Dup2(r, p[1][1], STDOUT)
           u == Close(d, f)
<1>1. f > STDERR /\ f \notin PipeFds(p)
  BY FreeInLayout
<1>2. /\ p[1][1] \in Fd /\ p[1][1] \in PipeFds(p) /\ p[1][1] > STDERR
      /\ t[p[1][1]] = WriteEnd(Link(1)) /\ WriteEnd(Link(1)) # Closed
  <2>1. (0 + 1) % 2 = 1 /\ 0 + 1 = 1
    OBVIOUS
  <2>2. Link(1) \in Nat
    BY LinkNumbers
  <2>3. QED
    BY <2>1, <2>2, LayoutFds, FilesDiffer DEF Layout, PipeFds
<1>3. r = [t EXCEPT ![f] = name, ![STDIN] = name]
  BY <1>1, StandardDistinct DEF Redirect, Dup2, Table
<1>4. r \in Table /\ r[p[1][1]] = WriteEnd(Link(1))
  BY <1>1, <1>2, <1>3, StandardDistinct DEF Table
<1>5. d = [r EXCEPT ![STDOUT] = WriteEnd(Link(1))]
  BY <1>2, <1>4 DEF Dup2
<1> HIDE DEF r
<1>6. u = [r EXCEPT ![STDOUT] = WriteEnd(Link(1)), ![f] = Closed]
  BY <1>5 DEF Close
<1> HIDE DEF d, u
<1>7. /\ u[STDIN] = name /\ u[STDOUT] = WriteEnd(Link(1)) /\ u[STDERR] = t[STDERR]
      /\ \A g \in Fd : g > STDERR => u[g] = t[g]
  <2>1. t[f] = Closed
    BY DEF IsFree
  <2>2. QED
    BY <1>1, <1>3, <1>4, <1>6, <2>1, StandardDistinct DEF Table
<1>8. t[STDERR] = Terminal
  BY StandardDistinct DEF Layout
<1>9. u \in Table
  <2>1. d \in Table
    BY <1>2, <1>4, Dup2Table, StandardDistinct DEF d
  <2>2. QED
    BY <2>1, CloseTable DEF u
<1>10. QED
  BY <1>7, <1>8, <1>9, OnlyStreams DEF u, d, r

(* ft_child *)
LEMMA MiddleChildStreams ==
  ASSUME NEW t \in Table, NEW p \in PipeArrays, NEW k \in Nat, Layout(t, p, k)
  PROVE  LET u == Dup2(Dup2(t, p[k % 2][0], STDIN), p[(k + 1) % 2][1], STDOUT)
             v == CloseAllFds(u, p)
         IN /\ v[STDIN] = ReadEnd(Link(k)) /\ v[STDOUT] = WriteEnd(Link(k + 1))
            /\ v[STDERR] = Terminal
            /\ \A g \in Fd : g > STDERR => v[g] = Closed
<1> DEFINE a == p[k % 2][0]
           b == p[(k + 1) % 2][1]
           c == Dup2(t, a, STDIN)
           u == Dup2(c, b, STDOUT)
<1>1. /\ a \in Fd /\ b \in Fd /\ a > STDERR /\ b > STDERR
      /\ t[a] = ReadEnd(Link(k)) /\ t[b] = WriteEnd(Link(k + 1))
      /\ t[a] # Closed /\ t[b] # Closed
  <2>1. (k % 2 = 0 /\ (k + 1) % 2 = 1) \/ (k % 2 = 1 /\ (k + 1) % 2 = 0)
    OBVIOUS
  <2>2. Link(k) \in Nat /\ Link(k + 1) \in Nat
    BY LinkNumbers
  <2>3. QED
    BY <2>1, <2>2, LayoutFds, FilesDiffer DEF Layout, PipeFds
<1> HIDE DEF a, b
<1>2. c = [t EXCEPT ![STDIN] = ReadEnd(Link(k))]
  BY <1>1 DEF Dup2
<1>3. c \in Table /\ c[b] = t[b]
  BY <1>1, <1>2, Dup2Table, StandardDistinct DEF Table
<1> HIDE DEF c
<1>4. u = [c EXCEPT ![STDOUT] = WriteEnd(Link(k + 1))] /\ u \in Table
  BY <1>1, <1>3, Dup2Table, StandardDistinct DEF Dup2
<1> HIDE DEF u
<1>5. /\ u[STDIN] = ReadEnd(Link(k)) /\ u[STDOUT] = WriteEnd(Link(k + 1))
      /\ u[STDERR] = t[STDERR] /\ \A g \in Fd : g > STDERR => u[g] = t[g]
  BY <1>2, <1>3, <1>4, StandardDistinct DEF Table
<1>6. t[STDERR] = Terminal
  BY StandardDistinct DEF Layout
<1>7. QED
  BY <1>4, <1>5, <1>6, OnlyStreams DEF u, c, a, b

(* ft_parent_process, run by the last child. *)
LEMMA LastChildStreams ==
  ASSUME NEW t \in Table, NEW p \in PipeArrays, NEW k \in Nat, Layout(t, p, k),
         NEW f \in Fd, IsFree(t, f)
  PROVE  LET u == Dup2(Close(Redirect(t, f, Outfile, STDOUT), f), p[k % 2][0], STDIN)
             v == CloseAllFds(u, p)
         IN /\ v[STDIN] = ReadEnd(Link(k)) /\ v[STDOUT] = Outfile
            /\ v[STDERR] = Terminal
            /\ \A g \in Fd : g > STDERR => v[g] = Closed
<1> DEFINE a == p[k % 2][0]
           r == Redirect(t, f, Outfile, STDOUT)
           c == Close(r, f)
           u == Dup2(c, a, STDIN)
<1>1. f > STDERR /\ f \notin PipeFds(p) /\ t[f] = Closed
  BY FreeInLayout DEF IsFree
<1>2. /\ a \in Fd /\ a > STDERR /\ a # f
      /\ t[a] = ReadEnd(Link(k)) /\ t[a] # Closed
  <2>1. k % 2 = 0 \/ k % 2 = 1
    OBVIOUS
  <2>2. Link(k) \in Nat
    BY LinkNumbers
  <2>3. QED
    BY <1>1, <2>1, <2>2, LayoutFds, FilesDiffer DEF Layout, PipeFds
<1> HIDE DEF a
<1>3. r = [t EXCEPT ![f] = Outfile, ![STDOUT] = Outfile]
  BY <1>1, FilesDiffer, StandardDistinct DEF Redirect, Dup2, Table
<1>4. r \in Table
  BY RedirectTable, FilesAreFiles, StandardDistinct
<1> HIDE DEF r
<1>5. c = [r EXCEPT ![f] = Closed] /\ c \in Table
  BY <1>4, CloseTable DEF Close
<1> HIDE DEF c
<1>6. c[a] = t[a]
  BY <1>2, <1>3, <1>4, <1>5, StandardDistinct DEF Table
<1>7. u = [c EXCEPT ![STDIN] = ReadEnd(Link(k))] /\ u \in Table
  BY <1>2, <1>5, <1>6, Dup2Table, StandardDistinct DEF Dup2
<1> HIDE DEF u
<1>8. /\ u[STDIN] = ReadEnd(Link(k)) /\ u[STDOUT] = Outfile
      /\ u[STDERR] = t[STDERR] /\ \A g \in Fd : g > STDERR => u[g] = t[g]
  BY <1>1, <1>3, <1>4, <1>5, <1>7, StandardDistinct DEF Table
<1>9. t[STDERR] = Terminal
  BY StandardDistinct DEF Layout
<1>10. QED
  BY <1>7, <1>8, <1>9, OnlyStreams DEF u, c, r, a

-----------------------------------------------------------------------------
(***************************************************************************)
(* The parent's half of the invariant.                                     *)
(***************************************************************************)

(* What the children do, and what the parent does for good, loses no pipe. *)
LEMMA LostUnseen ==
  ASSUME CoreInv,
         \/ UNCHANGED <<main, i, npipe, nb_cmds, child_pids>>
         \/ main = "wait" /\ UNCHANGED <<main, npipe, nb_cmds, child_pids>>
         \/ ForkLastChild \/ CloseInParent \/ Finish
  PROVE  PipeLost' <=> PipeLost
<1>1. CASE UNCHANGED <<main, i, npipe, nb_cmds, child_pids>>
  BY <1>1 DEF PipeLost, Waited
<1>2. CASE main = "wait" /\ UNCHANGED <<main, npipe, nb_cmds, child_pids>>
  BY <1>2 DEF PipeLost, Waited
<1>3. CASE ForkLastChild \/ CloseInParent
  <2>1. /\ main \in {"fork_last", "close"} /\ main' \in {"close", "wait"}
        /\ UNCHANGED <<npipe, nb_cmds>>
    BY <1>3 DEF ForkLastChild, CloseInParent, parentFd, parse
  <2>2. QED
    BY <2>1 DEF PipeLost, Waited
<1>4. CASE Finish
  <2>1. /\ main = "wait" /\ main' = "exited" /\ UNCHANGED <<npipe, nb_cmds, child_pids>>
    BY <1>4 DEF Finish, MainCleanupExit, MainExit, parse
  <2>2. nb_cmds > 0 /\ child_pids[nb_cmds - 1] # 0
    <3>1. nb_cmds \in Nat /\ nb_cmds <= MaxCmds /\ MaxCmds \in Nat /\ nb_cmds >= 2
      BY <2>1, PipexAssumption DEF CoreInv, TypeOK, PhaseInv, BeforeParse
    <3>2. nb_cmds - 1 \in Cmds
      BY <3>1 DEF Cmds
    <3>3. Forked = nb_cmds
      BY <2>1 DEF Forked, BeforeForks, BeforeParse
    <3>4. QED
      BY <2>1, <3>1, <3>2, <3>3 DEF CoreInv, ChildInv
  <2>3. QED
    BY <2>1, <2>2 DEF PipeLost, Waited
<1>5. QED
  BY <1>1, <1>2, <1>3, <1>4

(* Until the first fork there is no pipe to lose. *)
LEMMA NothingToLose ==
  ASSUME main \in BeforeForks
  PROVE  ~PipeLost
BY DEF PipeLost, Waited, BeforeForks, BeforeParse

(* ft_malcolm counts on one more pipe with every turn. *)
LEMMA MalcolmLoses ==
  ASSUME CoreInv, Malcolm
  PROVE  PipeLost' <=> PipeLost
<1>1. /\ main = "malcolm" /\ i' = i + 1 /\ UNCHANGED <<npipe, nb_cmds>>
      /\ main' \in {"renew", "fork_last"} /\ i \in Nat /\ npipe \in Nat /\ nb_cmds \in Nat
  BY PipexAssumption DEF Malcolm, parentFd, parse, CoreInv, TypeOK
<1>2. main' = "fork_last" => i' = nb_cmds - 1
  <2>1. CoreInv'
    BY CoreStep DEF Next, MainStep
  <2>2. QED
    BY <1>1, <2>1 DEF CoreInv, PhaseInv
<1>3. PipeLost <=> npipe < i + 2
  BY <1>1 DEF PipeLost, Waited
<1>4. CASE main' = "renew"
  <2>1. PipeLost' <=> npipe' < i' + 1
    BY <1>4 DEF PipeLost, Waited
  <2>2. QED
    BY <1>1, <1>3, <2>1
<1>5. CASE main' = "fork_last"
  <2>1. PipeLost' <=> npipe' < nb_cmds'
    BY <1>5 DEF PipeLost, Waited
  <2>2. nb_cmds' = i + 2
    BY <1>1, <1>2, <1>5
  <2>3. QED
    BY <1>1, <1>3, <2>1, <2>2
<1>6. QED
  BY <1>1, <1>4, <1>5

(* A pipe that ft_malcolm was refused is never made up for. *)
LEMMA LostForGood ==
  ASSUME CoreInv, [Next]_vars, ~PipeLost'
  PROVE  ~PipeLost
<1>1. CASE main \in BeforeForks
  BY <1>1, NothingToLose
<1>2. CASE Malcolm
  BY <1>2, MalcolmLoses
<1>3. CASE RenewPipe
  <2>1. /\ main = "renew" /\ main' = "malcolm" /\ i' = i /\ i \in Nat /\ npipe \in Nat
        /\ npipe' \in {npipe, npipe + 1}
    BY <1>3 DEF RenewPipe, CreatePipe, ParentOnly, CoreInv, TypeOK
  <2>2. (PipeLost <=> npipe < i + 1) /\ (PipeLost' <=> npipe' < i' + 2)
    BY <2>1 DEF PipeLost, Waited
  <2>3. QED
    BY <2>1, <2>2
<1>4. CASE ForkLastChild \/ CloseInParent \/ Finish
  BY <1>4, LostUnseen
<1>5. CASE WaitNobody \/ \E k \in Cmds : WaitChild(k)
  <2>1. main = "wait" /\ UNCHANGED <<main, npipe, nb_cmds, child_pids>>
    BY <1>5 DEF WaitNobody, WaitChild, parentFd, parse
  <2>2. QED
    BY <2>1, LostUnseen
<1>6. CASE UNCHANGED vars \/ \E k \in Cmds : ChildStep(k) \/ (CommandEnds(k) /\ ParentIdle)
  <2>1. UNCHANGED <<main, i, npipe, nb_cmds, child_pids>>
    BY <1>6, ChildAndTemp DEF vars, ParentIdle, parse, parentFd
  <2>2. QED
    BY <2>1, LostUnseen
<1>7. QED
  BY <1>1, <1>2, <1>3, <1>4, <1>5, <1>6
     DEF Next, MainStep, AllDone, OpenPipe, ValidateArgs, ParseCmds, GrabEnvp, HereDocInp,
         ForkFirstChild, BeforeForks, BeforeParse

LEMMA ParentStep ==
  ASSUME CoreInv, ParentPlumbing, ~PipeLost', [Next]_vars
  PROVE  ParentPlumbing'
<1> USE DEF CoreInv
<1>1. i \in Nat /\ nb_cmds \in Nat
  BY PipexAssumption DEF TypeOK
<1>2. CASE OpenPipe(0)
  <2>1. CASE CreatePipe(fd, 0, "pipe1")
    <3>1. fd = StdFds /\ npipe = 0 /\ main' = "pipe1"
      BY <1>2, <2>1 DEF OpenPipe, CreatePipe, ParentPlumbing
    <3>2. QED
      BY <2>1, <3>1, FirstPipe DEF ParentPlumbing, BeforeForks, BeforeParse
  <2>2. CASE main' = "exited"
    BY <2>2 DEF ParentPlumbing, BeforeForks, BeforeParse
  <2>3. QED
    BY <1>2, <2>1, <2>2 DEF OpenPipe, MainExit
<1>3. CASE OpenPipe(1)
  <2>1. CASE CreatePipe(fd, 1, "validate")
    <3>1. /\ npipe = 1 /\ pipe[0][0] # pipe[0][1]
          /\ pipe[0][0] > STDERR /\ pipe[0][1] > STDERR
          /\ fd = [StdFds EXCEPT ![pipe[0][0]] = ReadEnd(1), ![pipe[0][1]] = WriteEnd(1)]
          /\ main' = "validate"
      BY <1>3, <2>1 DEF OpenPipe, CreatePipe, ParentPlumbing
    <3>2. QED
      BY <2>1, <3>1, SecondPipe DEF ParentPlumbing, BeforeForks, BeforeParse
  <2>2. CASE main' = "exited"
    BY <2>2 DEF ParentPlumbing, BeforeForks, BeforeParse
  <2>3. QED
    BY <1>3, <2>1, <2>2 DEF OpenPipe, MainExit
<1>4. CASE ValidateArgs \/ ParseCmds \/ GrabEnvp \/ HereDocInp
  <2>1. CASE main' = "exited"
    BY <2>1 DEF ParentPlumbing, BeforeForks, BeforeParse
  <2>2. CASE /\ main \in BeforeForks \ {"pipe0", "pipe1"}
             /\ main' \in BeforeForks \ {"pipe0", "pipe1"} /\ UNCHANGED <<fd, pipe, npipe>>
    BY <2>2 DEF ParentPlumbing, BeforeForks, BeforeParse
  <2>3. QED
    BY <1>4, <2>1, <2>2
       DEF ValidateArgs, ParseCmds, GrabEnvp, HereDocInp, MainCleanupExit, MainExit,
           BeforeForks, BeforeParse
<1>5. CASE ForkFirstChild
  <2>1. CASE main' = "exited"
    BY <2>1 DEF ParentPlumbing, BeforeForks, BeforeParse
  <2>2. CASE UNCHANGED <<fd, pipe, npipe>> /\ main' # "exited"
    <3>1. npipe = 2 /\ Layout(fd, pipe, 0) /\ Layout(fd, pipe, 1) /\ i = 0
      BY <1>5, LayoutZeroIsOne
         DEF ForkFirstChild, ParentPlumbing, PhaseInv, BeforeForks, BeforeParse
    <3>2. CASE main' = "malcolm" /\ i' = i
      BY <2>2, <3>1, <3>2 DEF ParentPlumbing, BeforeForks, BeforeParse
    <3>3. CASE main' = "fork_last" /\ i' = i + 1 /\ nb_cmds' = 2
      BY <2>2, <3>1, <3>3 DEF ParentPlumbing, BeforeForks, BeforeParse
    <3>4. nb_cmds > 2 \/ nb_cmds = 2
      BY <1>1, <1>5, PipexAssumption DEF ForkFirstChild, PhaseInv, TypeOK, BeforeParse
    <3>5. QED
      BY <1>5, <2>2, <3>2, <3>3, <3>4 DEF ForkFirstChild, MainCleanupExit, MainExit, parse
  <2>3. QED
    BY <1>5, <2>1, <2>2 DEF ForkFirstChild, MainCleanupExit, MainExit
<1>6. CASE Malcolm
  <2>1. /\ UNCHANGED <<fd, pipe, npipe>> /\ i' = i + 1 /\ nb_cmds' = nb_cmds
        /\ main' \in {"renew", "fork_last"} /\ main = "malcolm"
    BY <1>6 DEF Malcolm, parentFd, parse
  <2>2. npipe = i + 2 /\ Layout(fd, pipe, i + 1) /\ nb_cmds > 2
    BY <2>1 DEF ParentPlumbing, PhaseInv
  <2>3. main' = "fork_last" => i' = nb_cmds - 1
    <3>1. PhaseInv'
      BY CoreStep
    <3>2. QED
      BY <2>1, <3>1 DEF PhaseInv
  <2>4. npipe' = i' + 1 /\ Layout(fd', pipe', i')
    BY <1>1, <2>1, <2>2
  <2>5. CASE main' = "renew"
    BY <2>4, <2>5 DEF ParentPlumbing, BeforeForks, BeforeParse
  <2>6. CASE main' = "fork_last"
    <3>1. npipe' = nb_cmds' /\ nb_cmds' # 2
      BY <1>1, <2>1, <2>2, <2>3, <2>4, <2>6
    <3>2. QED
      BY <2>4, <2>6, <3>1 DEF ParentPlumbing, BeforeForks, BeforeParse
  <2>7. QED
    BY <2>1, <2>5, <2>6
<1>7. CASE RenewPipe
  <2>1. i \in Nat \ {0} /\ Layout(fd, pipe, i) /\ npipe = i + 1 /\ i' = i
    BY <1>1, <1>7 DEF RenewPipe, PhaseInv, ParentPlumbing
  <2>2. CreatePipe(CloseChain(fd, <<pipe[i % 2][0], pipe[i % 2][1]>>), i % 2, "malcolm")
    <3>1. main' = "malcolm" /\ npipe' = npipe => PipeLost'
      BY <1>1, <2>1 DEF PipeLost
    <3>2. QED
      BY <1>7, <3>1 DEF RenewPipe
  <2>3. npipe' = i + 2 /\ Layout(fd', pipe', i + 1) /\ main' = "malcolm"
    BY <2>1, <2>2, RenewedSlot DEF CreatePipe
  <2>4. QED
    BY <2>1, <2>3 DEF ParentPlumbing, BeforeForks, BeforeParse
<1>8. CASE ForkLastChild
  BY <1>8 DEF ForkLastChild, ParentPlumbing, parentFd, parse, BeforeForks, BeforeParse
<1>9. CASE CloseInParent
  <2>1. main' = "wait" /\ fd' = CloseAllFds(fd, pipe) /\ Layout(fd, pipe, i)
    BY <1>9 DEF CloseInParent, ParentPlumbing
  <2>2. fd' = [f \in Fd |-> IF f > STDERR THEN Closed ELSE fd[f]]
    BY <1>1, <2>1, CloseAllLeavesStreams DEF TypeOK, PipeArrays
  <2>3. \A f \in Fd : fd'[f] \in {Closed, Terminal}
    BY <2>1, <2>2, StandardDistinct DEF Layout
  <2>4. QED
    BY <2>1, <2>3 DEF ParentPlumbing, BeforeForks, BeforeParse
<1>10. CASE (\E k \in Cmds : WaitChild(k)) \/ WaitNobody
  BY <1>10
     DEF WaitChild, WaitNobody, ParentPlumbing, parentFd, parse, BeforeForks, BeforeParse
<1>11. CASE Finish
  BY <1>11 DEF Finish, MainCleanupExit, MainExit, ParentPlumbing, BeforeForks, BeforeParse
<1>12. ASSUME NEW k \in Cmds, ChildStep(k) \/ (CommandEnds(k) /\ ParentIdle)
       PROVE  ParentPlumbing'
  BY <1>12, ChildAndTemp DEF ParentIdle, ParentPlumbing, parentFd, parse
<1>13. CASE UNCHANGED vars
  BY <1>13 DEF vars, ParentPlumbing, parentFd, parse
<1>14. QED
  BY <1>2, <1>3, <1>4, <1>5, <1>6, <1>7, <1>8, <1>9, <1>10, <1>11, <1>12, <1>13
     DEF Next, MainStep, AllDone

-----------------------------------------------------------------------------
(***************************************************************************)
(* The children's half.                                                    *)
(***************************************************************************)

(* Steps of the parent that fork nothing. *)
LEMMA ChildrenUndisturbed ==
  ASSUME TypeOK, ChildPlumbing,
         \A k \in Cmds : cpc'[k] \in {cpc[k], "reaped"} /\ (cpc'[k] # cpc[k] => cpc[k] = "zombie"),
         UNCHANGED <<cfd, cpipe>>, npipe' \in Nat, npipe' >= npipe,
         \/ UNCHANGED <<mode, nb_cmds>>
         \/ \A k \in Cmds : cpc[k] = "none"
  PROVE  ChildPlumbing'
<1>1. ASSUME NEW k \in Cmds
      PROVE  /\ cpc'[k] = "forked" => Layout(cfd'[k], cpipe'[k], k)
             /\ Ready(k)' => Streams(cfd[k], k)'
             /\ cpc'[k] # "none" /\ k < nb_cmds' - 1 => Link(k + 1) <= npipe'
  <2>1. CASE cpc[k] = "none"
    BY <2>1 DEF Ready
  <2>2. CASE cpc[k] # "none" /\ UNCHANGED <<mode, nb_cmds>>
    <3>1. Link(k + 1) \in Nat
      BY LinkNumbers DEF Cmds
    <3>2. cpc[k] # "none" /\ k < nb_cmds - 1 => Link(k + 1) <= npipe
      BY DEF ChildPlumbing
    <3>3. cpc'[k] # "none" /\ k < nb_cmds' - 1 => Link(k + 1) <= npipe'
      BY <2>2, <3>1, <3>2 DEF TypeOK
    <3>4. Ready(k)' => Streams(cfd[k], k)'
      BY <2>2 DEF Ready, Streams, ChildPlumbing
    <3>5. QED
      BY <2>2, <3>3, <3>4 DEF ChildPlumbing
  <2>3. QED
    BY <2>1, <2>2
<1>2. QED
  BY <1>1 DEF ChildPlumbing

(* A forked child has the layout its parent had at that moment. *)
LEMMA ForkedAsLaidOut ==
  ASSUME TypeOK, ChildPlumbing, NEW k \in Cmds, ForkChild(k) \/ ForkFails(k),
         cpc[k] = "none", Layout(fd, pipe, k), k < nb_cmds - 1 => Link(k + 1) <= npipe,
         UNCHANGED <<mode, nb_cmds, npipe>>
  PROVE  ChildPlumbing'
<1>1. ASSUME NEW j \in Cmds
      PROVE  /\ cpc'[j] = "forked" => Layout(cfd'[j], cpipe'[j], j)
             /\ Ready(j)' => Streams(cfd[j], j)'
             /\ cpc'[j] # "none" /\ j < nb_cmds' - 1 => Link(j + 1) <= npipe'
  <2>1. CASE j = k
    BY <2>1 DEF ForkChild, ForkFails, children, Ready, TypeOK
  <2>2. CASE j # k
    <3>1. cpc'[j] = cpc[j] /\ cfd'[j] = cfd[j] /\ cpipe'[j] = cpipe[j]
      BY <2>2 DEF ForkChild, ForkFails, children, TypeOK
    <3>2. QED
      BY <3>1 DEF ChildPlumbing, Ready, Streams
  <2>3. QED
    BY <2>1, <2>2
<1>2. QED
  BY <1>1 DEF ChildPlumbing

(* One child moves on, the others and the parent stay as they are. *)
LEMMA OneChildMoves ==
  ASSUME TypeOK, ChildPlumbing, NEW k \in Cmds, ParentIdle, cpipe' = cpipe,
         cpc[k] # "none", cpc'[k] # "forked",
         \A j \in Cmds : j # k => cpc'[j] = cpc[j] /\ cfd'[j] = cfd[j],
         Ready(k)' => Streams(cfd[k], k)'
  PROVE  ChildPlumbing'
<1>1. UNCHANGED <<mode, nb_cmds, npipe>>
  BY DEF ParentIdle, parse, parentFd
<1>2. ASSUME NEW j \in Cmds
      PROVE  /\ cpc'[j] = "forked" => Layout(cfd'[j], cpipe'[j], j)
             /\ Ready(j)' => Streams(cfd[j], j)'
             /\ cpc'[j] # "none" /\ j < nb_cmds' - 1 => Link(j + 1) <= npipe'
  <2>1. CASE j = k
    BY <1>1, <2>1 DEF ChildPlumbing
  <2>2. CASE j # k
    BY <1>1, <2>2 DEF ChildPlumbing, Ready, Streams
  <2>3. QED
    BY <2>1, <2>2
<1>3. QED
  BY <1>2 DEF ChildPlumbing

(* A child that has set up its streams has the right ones. *)
LEMMA SetUpStreams ==
  ASSUME CoreInv, TempInv, NEW k \in Cmds, SetUp(k), Layout(cfd[k], cpipe[k], k)
  PROVE  cpc'[k] = "exec" => Streams(cfd'[k], k)
<1> SUFFICES ASSUME cpc'[k] = "exec" PROVE Streams(cfd'[k], k)
  OBVIOUS
<1> USE DEF CoreInv
<1>1. /\ cpc[k] = "forked" /\ cfd[k] \in Table /\ cpipe[k] \in PipeArrays /\ k \in Nat
      /\ Layout(cfd[k], cpipe[k], k)
  BY DEF SetUp, FirstChild, MiddleChild, LastChild, TypeOK, PipeArrays, Cmds
<1>2. nb_cmds >= 2 /\ child_pids[k] # 0 /\ nb_cmds \in Nat
  <2>1. child_pids[k] = k + 1
    BY <1>1 DEF ChildInv
  <2>2. child_pids[k] # 0
    BY <1>1, <2>1
  <2>3. nb_cmds >= 2
    BY <2>2 DEF ChildInv
  <2>4. nb_cmds \in Nat
    BY PipexAssumption DEF TypeOK
  <2>5. QED
    BY <2>2, <2>3, <2>4
<1>3. ASSUME NEW t, ToExec(k, t) PROVE cfd'[k] = t
  BY <1>3 DEF ToExec, TypeOK
<1>4. \A e : ~FailToOpen(k, e)
  BY DEF FailToOpen, ChildCleanupExit, ChildEnds, TypeOK
<1>5. CASE k = 0 /\ FirstChild
  <2> DEFINE name == IF mode = "here_doc" THEN TempOf(IF temp = "doc" THEN 1 ELSE 0)
                                          ELSE Infile
  <2>1. PICK f \in Fd :
          /\ mode = "here_doc" => temp # "absent"
          /\ IsLowest(cfd[0], f)
          /\ ToExec(0, CloseAllFds(Close(Dup2(Redirect(cfd[0], f, name, STDIN),
                                              cpipe[0][1][1], STDOUT), f), cpipe[0]))
    BY <1>4, <1>5 DEF FirstChild
  <2>2. name = IF mode = "here_doc" THEN TempOf(1) ELSE Infile
    BY <1>2, <1>5, <2>1 DEF TempInv, TypeOK
  <2>3. name \in File /\ name # Closed
    BY <2>2, FilesAreFiles, FilesDiffer
  <2> HIDE DEF name
  <2>4. /\ cfd'[0][STDIN] = name /\ cfd'[0][STDOUT] = WriteEnd(Link(1))
        /\ cfd'[0][STDERR] = Terminal
        /\ \A g \in Fd : g > STDERR => cfd'[0][g] = Closed
    BY <1>1, <1>3, <1>5, <2>1, <2>3, FirstChildStreams DEF IsLowest
  <2>5. QED
    BY <1>2, <1>5, <2>2, <2>4 DEF Streams
<1>6. CASE MiddleChild(k)
  <2>1. ToExec(k, CloseAllFds(Dup2(Dup2(cfd[k], cpipe[k][k % 2][0], STDIN),
                                   cpipe[k][(k + 1) % 2][1], STDOUT), cpipe[k]))
    BY <1>6 DEF MiddleChild
  <2>2. /\ cfd'[k][STDIN] = ReadEnd(Link(k)) /\ cfd'[k][STDOUT] = WriteEnd(Link(k + 1))
        /\ cfd'[k][STDERR] = Terminal
        /\ \A g \in Fd : g > STDERR => cfd'[k][g] = Closed
    BY <1>1, <1>3, <2>1, MiddleChildStreams
  <2>3. k # 0 /\ k # nb_cmds - 1
    BY <1>1, <1>2, <1>6 DEF MiddleChild
  <2>4. QED
    BY <2>2, <2>3 DEF Streams
<1>7. CASE LastChild(k)
  <2>1. PICK f \in Fd :
          /\ IsLowest(cfd[k], f)
          /\ ToExec(k, CloseAllFds(Dup2(Close(Redirect(cfd[k], f, Outfile, STDOUT), f),
                                        cpipe[k][(nb_cmds - 1) % 2][0], STDIN), cpipe[k]))
    BY <1>4, <1>7 DEF LastChild
  <2>2. nb_cmds - 1 = k /\ k # 0
    BY <1>1, <1>7 DEF LastChild
  <2>3. /\ cfd'[k][STDIN] = ReadEnd(Link(k)) /\ cfd'[k][STDOUT] = Outfile
        /\ cfd'[k][STDERR] = Terminal
        /\ \A g \in Fd : g > STDERR => cfd'[k][g] = Closed
    BY <1>1, <1>3, <2>1, <2>2, LastChildStreams DEF IsLowest
  <2>4. QED
    BY <2>2, <2>3 DEF Streams
<1>8. QED
  BY <1>5, <1>6, <1>7 DEF SetUp

(* Every step keeps what is known of the descriptors of the children. *)
LEMMA ChildrenStep ==
  ASSUME CoreInv, TempInv, ParentPlumbing, ChildPlumbing, [Next]_vars
  PROVE  ChildPlumbing'
<1> USE DEF CoreInv
<1>1. i \in Nat /\ nb_cmds \in Nat /\ npipe \in Nat /\ npipe' \in Nat /\ MaxCmds \in Nat
  BY CoreStep, PipexAssumption DEF TypeOK
<1>2. main \in BeforeForks => \A k \in Cmds : cpc[k] = "none"
  BY DEF ChildInv, Forked, BeforeForks, BeforeParse, Cmds
<1>3. CASE OpenPipe(0) \/ OpenPipe(1) \/ ValidateArgs \/ ParseCmds \/ GrabEnvp \/ HereDocInp
  <2>1. /\ main \in BeforeForks /\ UNCHANGED <<cpc, cfd, cpipe>>
        /\ npipe' >= npipe
    BY <1>1, <1>3
       DEF OpenPipe, CreatePipe, ValidateArgs, ParseCmds, GrabEnvp, HereDocInp, ParentOnly,
           MainCleanupExit, MainExit, children, parentFd, BeforeForks, BeforeParse
  <2>2. QED
    BY <1>1, <1>2, <2>1, ChildrenUndisturbed
<1>4. CASE ForkFirstChild
  <2>1. /\ main \in BeforeForks /\ npipe = 2 /\ Layout(fd, pipe, 0) /\ 0 \in Cmds
        /\ ForkChild(0) \/ ForkFails(0)
        /\ UNCHANGED <<mode, nb_cmds, npipe>>
    BY <1>4, PipexAssumption
       DEF ForkFirstChild, ParentPlumbing, parse, BeforeForks, BeforeParse, Cmds
  <2>2. cpc[0] = "none" /\ Link(0 + 1) <= npipe
    BY <1>2, <2>1, LinkNumbers
  <2>3. QED
    BY <2>1, <2>2, ForkedAsLaidOut
<1>5. CASE Malcolm
  <2>1. /\ npipe = i + 2 /\ Layout(fd, pipe, i + 1) /\ i <= nb_cmds - 2
        /\ UNCHANGED <<mode, nb_cmds, npipe>> /\ nb_cmds <= MaxCmds
        /\ \A k \in Cmds : child_pids[k] = 0 <=> k >= i + 1
    BY <1>5
       DEF Malcolm, ParentPlumbing, PhaseInv, ChildInv, Forked, BeforeForks, BeforeParse,
           parse, parentFd, TypeOK
  <2>2. CASE ForkChild(i + 1) \/ ForkFails(i + 1)
    <3>1. i + 1 \in Cmds /\ i + 1 \in Nat
      BY <1>1, <2>1 DEF Cmds
    <3>2. cpc[i + 1] = "none"
      BY <1>1, <2>1, <3>1 DEF ChildInv
    <3>3. Link(i + 1 + 1) <= npipe
      <4>1. CASE i = 0
        BY <2>1, <4>1, LinkNumbers
      <4>2. CASE i > 0
        <5>1. Link(i + 2) = i + 2 \/ Link(i + 2) = 1
          BY <1>1, LinkNumbers
        <5>2. i + 1 + 1 = i + 2
          BY <1>1
        <5>3. QED
          BY <1>1, <2>1, <5>1, <5>2
      <4>3. QED
        BY <1>1, <4>1, <4>2
    <3>4. QED
      BY <2>1, <2>2, <3>1, <3>2, <3>3, ForkedAsLaidOut
  <2>3. CASE UNCHANGED children
    <3>1. UNCHANGED <<cpc, cfd, cpipe>>
      BY <2>3 DEF children
    <3>2. QED
      BY <1>1, <2>1, <3>1, ChildrenUndisturbed
  <2>4. QED
    BY <1>5, <2>2, <2>3 DEF Malcolm
<1>6. CASE RenewPipe
  <2>1. UNCHANGED <<cpc, cfd, cpipe, mode, nb_cmds>> /\ npipe' >= npipe
    BY <1>1, <1>6 DEF RenewPipe, CreatePipe, ParentOnly, children, parse
  <2>2. QED
    BY <1>1, <2>1, ChildrenUndisturbed
<1>7. CASE ForkLastChild
  <2>1. /\ i = nb_cmds - 1 /\ Layout(fd, pipe, i) /\ i \in Cmds
        /\ ForkChild(i) \/ ForkFails(i)
        /\ UNCHANGED <<mode, nb_cmds, npipe>>
        /\ \A k \in Cmds : child_pids[k] = 0 <=> k >= i
    BY <1>1, <1>7
       DEF ForkLastChild, ParentPlumbing, PhaseInv, ChildInv, Forked, BeforeForks, BeforeParse,
           parse, parentFd, TypeOK, Cmds
  <2>2. cpc[i] = "none"
    BY <1>1, <2>1 DEF ChildInv
  <2>3. QED
    BY <1>1, <2>1, <2>2, ForkedAsLaidOut
<1>8. CASE CloseInParent \/ Finish
  <2>1. UNCHANGED <<cpc, cfd, cpipe, mode, nb_cmds, npipe>>
    BY <1>8 DEF CloseInParent, Finish, children, parse
  <2>2. QED
    BY <1>1, <2>1, ChildrenUndisturbed
<1>9. CASE (\E k \in Cmds : WaitChild(k)) \/ WaitNobody
  <2>1. UNCHANGED <<cfd, cpipe, mode, nb_cmds, npipe>>
    BY <1>9 DEF WaitChild, WaitNobody, children, parse, parentFd
  <2>2. \A k \in Cmds : cpc'[k] \in {cpc[k], "reaped"} /\ (cpc'[k] # cpc[k] => cpc[k] = "zombie")
    BY <1>9 DEF WaitChild, WaitNobody, children, TypeOK
  <2>3. QED
    BY <1>1, <2>1, <2>2, ChildrenUndisturbed
<1>10. ASSUME NEW k \in Cmds, ChildStep(k) PROVE ChildPlumbing'
  <2>1. ParentIdle /\ cpipe' = cpipe /\ cpc[k] # "none" /\ cpc'[k] # "forked"
    BY <1>10
       DEF ChildStep, SetUp, FirstChild, MiddleChild, LastChild, SearchAndExec, ToExec,
           FailToOpen, ChildCleanupExit, ChildEnds, TypeOK
  <2>2. \A j \in Cmds : j # k => cpc'[j] = cpc[j] /\ cfd'[j] = cfd[j]
    BY <1>10
       DEF ChildStep, SetUp, FirstChild, MiddleChild, LastChild, SearchAndExec, ToExec,
           FailToOpen, ChildCleanupExit, ChildEnds, TypeOK
  <2>3. UNCHANGED <<mode, nb_cmds>>
    BY <2>1 DEF ParentIdle, parse
  <2>4. Ready(k)' => Streams(cfd'[k], k)
    <3>1. CASE SetUp(k)
      <4>1. cpc'[k] \in {"exec", "zombie"}
        BY <3>1 DEF SetUp, FirstChild, MiddleChild, LastChild, ToExec, FailToOpen,
                    ChildCleanupExit, ChildEnds, TypeOK
      <4>2. Layout(cfd[k], cpipe[k], k)
        BY <3>1 DEF SetUp, FirstChild, MiddleChild, LastChild, ChildPlumbing
      <4>3. QED
        BY <3>1, <4>1, <4>2, SetUpStreams DEF Ready
    <3>2. CASE SearchAndExec(k)
      <4>1. cpc[k] = "exec" /\ (cpc'[k] = "zombie" \/ (cpc'[k] = "run" /\ cfd' = cfd))
        BY <3>2 DEF SearchAndExec, ChildCleanupExit, ChildEnds, TypeOK
      <4>2. QED
        BY <4>1 DEF Ready, ChildPlumbing
    <3>3. QED
      BY <1>10, <3>1, <3>2 DEF ChildStep
  <2>5. Ready(k)' => Streams(cfd[k], k)'
    BY <2>3, <2>4 DEF Streams
  <2>6. QED
    BY <2>1, <2>2, <2>5, OneChildMoves
<1>11. ASSUME NEW k \in Cmds, CommandEnds(k), ParentIdle PROVE ChildPlumbing'
  <2>1. /\ cpipe' = cpipe /\ cpc[k] # "none" /\ cpc'[k] = "zombie"
        /\ \A j \in Cmds : j # k => cpc'[j] = cpc[j] /\ cfd'[j] = cfd[j]
    BY <1>11 DEF CommandEnds, ChildEnds, TypeOK
  <2>2. QED
    BY <1>11, <2>1, OneChildMoves DEF Ready
<1>12. CASE UNCHANGED vars
  <2>1. UNCHANGED <<cpc, cfd, cpipe, mode, nb_cmds, npipe>>
    BY <1>12 DEF vars, children, parse, parentFd
  <2>2. QED
    BY <1>1, <2>1, ChildrenUndisturbed
<1>13. QED
  BY <1>3, <1>4, <1>5, <1>6, <1>7, <1>8, <1>9, <1>10, <1>11, <1>12
     DEF Next, MainStep, AllDone

-----------------------------------------------------------------------------
(* A pipe can only be lost where ft_malcolm makes a slot anew. *)
LEMMA WhereLost ==
  ASSUME CoreInv, ParentPlumbing, ~PipeLost, [Next]_vars, ~RenewPipe
  PROVE  ~PipeLost'
<1>1. CASE OpenPipe(0) \/ OpenPipe(1) \/ ValidateArgs \/ ParseCmds \/ GrabEnvp \/ HereDocInp
  <2>1. child_pids' = child_pids /\ main \in BeforeForks
    BY <1>1
       DEF OpenPipe, ValidateArgs, ParseCmds, GrabEnvp, HereDocInp, ParentOnly, BeforeForks,
           BeforeParse
  <2>2. \A k \in Cmds : child_pids'[k] = 0
    BY <2>1 DEF CoreInv, ChildInv, Forked, BeforeForks, BeforeParse, Cmds
  <2>3. nb_cmds' \in 0 .. MaxCmds /\ MaxCmds \in Nat
    BY CoreStep, PipexAssumption DEF CoreInv, TypeOK
  <2>4. ~Waited'
    <3>1. \A n \in 0 .. MaxCmds : n > 0 => n - 1 \in Cmds
      BY <2>3 DEF Cmds
    <3>2. QED
      BY <2>2, <2>3, <3>1 DEF Waited
  <2>5. main' \in BeforeForks \cup {"exited"}
    BY <1>1
       DEF OpenPipe, CreatePipe, ValidateArgs, ParseCmds, GrabEnvp, HereDocInp, MainCleanupExit,
           MainExit, BeforeForks, BeforeParse
  <2>6. QED
    BY <2>4, <2>5 DEF PipeLost, BeforeForks, BeforeParse
<1>2. CASE ForkFirstChild
  <2>1. /\ main = "fork_first" /\ npipe = 2 /\ UNCHANGED <<npipe, nb_cmds>>
        /\ nb_cmds \in Nat /\ nb_cmds >= 2 /\ nb_cmds <= MaxCmds /\ MaxCmds \in Nat /\ i = 0
    BY <1>2, PipexAssumption
       DEF ForkFirstChild, ParentPlumbing, CoreInv, TypeOK, PhaseInv, parse, BeforeForks,
           BeforeParse
  <2>2. CASE main' = "exited"
    <3>1. child_pids' = [child_pids EXCEPT ![0] = -1]
      BY <1>2, <2>2 DEF ForkFirstChild, ForkFails
    <3>2. nb_cmds - 1 \in Cmds /\ nb_cmds - 1 # 0 /\ nb_cmds - 1 >= 0
      BY <2>1 DEF Cmds
    <3>3. child_pids[nb_cmds - 1] = 0
      <4>1. Forked = 0
        BY <2>1 DEF Forked, BeforeForks
      <4>2. QED
        BY <2>1, <3>2, <4>1 DEF CoreInv, ChildInv
    <3>4. child_pids'[nb_cmds' - 1] = 0
      BY <2>1, <3>1, <3>2, <3>3 DEF CoreInv, TypeOK
    <3>5. QED
      BY <2>2, <3>4 DEF PipeLost, Waited
  <2>3. CASE main' = "malcolm" /\ i' = i
    BY <2>1, <2>3 DEF PipeLost, Waited
  <2>4. CASE main' = "fork_last" /\ ~(nb_cmds > 2)
    BY <2>1, <2>4 DEF PipeLost, Waited
  <2>5. QED
    BY <1>2, <2>2, <2>3, <2>4 DEF ForkFirstChild, MainCleanupExit, MainExit
<1>3. CASE Malcolm
  BY <1>3, MalcolmLoses
<1>4. CASE ForkLastChild \/ CloseInParent \/ Finish
  BY <1>4, LostUnseen
<1>5. CASE WaitNobody \/ \E k \in Cmds : WaitChild(k)
  <2>1. main = "wait" /\ UNCHANGED <<main, npipe, nb_cmds, child_pids>>
    BY <1>5 DEF WaitNobody, WaitChild, parentFd, parse
  <2>2. QED
    BY <2>1, LostUnseen
<1>6. CASE UNCHANGED vars \/ \E k \in Cmds : ChildStep(k) \/ (CommandEnds(k) /\ ParentIdle)
  <2>1. UNCHANGED <<main, i, npipe, nb_cmds, child_pids>>
    BY <1>6, ChildAndTemp DEF vars, ParentIdle, parse, parentFd
  <2>2. QED
    BY <2>1, LostUnseen
<1>7. QED
  BY <1>1, <1>2, <1>3, <1>4, <1>5, <1>6 DEF Next, MainStep, AllDone

(* When pipe(2) does not fail by itself there is room for every pipe. *)
LEMMA NothingRefused ==
  ASSUME CoreInv, ParentPlumbing, ~PipeLost, "pipe" \notin Faults, [Next]_vars
  PROVE  ~PipeLost'
<1>1. CASE RenewPipe
  <2>1. i \in Nat \ {0} /\ Layout(fd, pipe, i) /\ npipe = i + 1 /\ i' = i
    BY <1>1 DEF RenewPipe, PhaseInv, ParentPlumbing, CoreInv, TypeOK
  <2>2. CreatePipe(CloseChain(fd, <<pipe[i % 2][0], pipe[i % 2][1]>>), i % 2, "malcolm")
    BY <1>1, <2>1, RenewSucceeds DEF RenewPipe, CoreInv
  <2>3. main' = "malcolm" /\ npipe' = i' + 2
    BY <2>1, <2>2 DEF CreatePipe
  <2>4. QED
    BY <2>1, <2>3 DEF PipeLost, Waited
<1>2. CASE ~RenewPipe
  BY <1>2, WhereLost
<1>3. QED
  BY <1>1, <1>2

-----------------------------------------------------------------------------
(***************************************************************************)
(* A pipe that is refused to ft_malcolm: the pipeline ends there.          *)
(***************************************************************************)

(* What is open at a number beyond a lost pipe. *)
LEMMA BeyondFiles ==
  ASSUME NEW c \in Nat
  PROVE  /\ Beyond(Closed, c) /\ Beyond(Terminal, c)
         /\ \A n \in Nat : n > c => Beyond(ReadEnd(n), c) /\ Beyond(WriteEnd(n), c)
BY DEF Beyond, ReadEnd, WriteEnd

(* A close chain closes what it closes, and leaves the rest alone. *)
LEMMA CloseChainFrame ==
  ASSUME NEW t \in Table, NEW s, NEW f \in Fd
  PROVE  CloseChain(t, s)[f] \in {t[f], Closed}
BY DEF CloseChain

LEMMA CloseTwoFrame ==
  ASSUME NEW t \in Table, NEW a \in Fd, NEW b \in Fd, NEW f \in Fd, f \notin {a, b}
  PROVE  CloseChain(t, <<a, b>>)[f] = t[f]
<1>1. \A j \in 1 .. Len(<<a, b>>) : <<a, b>>[j] # f
  OBVIOUS
<1>2. QED
  BY <1>1 DEF CloseChain

LEMMA CloseFourFrame ==
  ASSUME NEW t \in Table, NEW p \in PipeArrays, NEW f \in Fd, f \notin PipeFds(p)
  PROVE  CloseAllFds(t, p)[f] = t[f]
<1> DEFINE s == <<p[0][0], p[0][1], p[1][0], p[1][1]>>
<1>1. \A j \in 1 .. Len(s) : s[j] # f
  BY DEF PipeFds
<1> HIDE DEF s
<1>2. CloseChain(t, s)[f] = t[f]
  BY <1>1 DEF CloseChain
<1>3. QED
  BY <1>2 DEF CloseAllFds, s

(* When all numbers are beyond the streams the three streams stay as they are. *)
LEMMA StreamsOutliveCloses ==
  ASSUME NEW t \in Table, NEW p \in PipeArrays, \A f \in PipeFds(p) : f > STDERR,
         NEW g \in Fd, g <= STDERR
  PROVE  CloseAllFds(t, p)[g] = t[g]
<1>1. g \notin PipeFds(p)
  BY StandardDistinct
<1>2. QED
  BY <1>1, CloseFourFrame

(* A slot made anew, or not, when there is nothing left of the pipes up to c. *)
LEMMA RenewedAdrift ==
  ASSUME TypeOK, NEW c \in Nat, npipe >= c, NEW n \in 0 .. 1, NEW t \in Table, NEW q,
         \A f \in PipeFds(pipe) : f > STDERR,
         \A f \in Fd : f <= STDERR => t[f] = Terminal,
         \A f \in Fd : f > STDERR => Beyond(t[f], c),
         CreatePipe(t, n, q) \/ (fd' = t /\ UNCHANGED <<pipe, npipe>>)
  PROVE  Adrift(fd', pipe', c) /\ npipe' >= c
<1>1. CASE fd' = t /\ UNCHANGED <<pipe, npipe>>
  BY <1>1 DEF Adrift, PipeFds
<1>2. CASE CreatePipe(t, n, q)
  <2>1. PICK r \in Fd, w \in Fd :
          /\ IsPipePair(t, r, w)
          /\ fd' = [t EXCEPT ![r] = ReadEnd(npipe + 1), ![w] = WriteEnd(npipe + 1)]
          /\ pipe' = [pipe EXCEPT ![n] = [e \in 0 .. 1 |-> IF e = 0 THEN r ELSE w]]
    BY <1>2 DEF CreatePipe
  <2>2. t[r] = Closed /\ t[w] = Closed /\ r # w
    BY <2>1 DEF IsPipePair, IsLowest, IsFree
  <2>3. r > STDERR /\ w > STDERR
    BY <2>2, FilesDiffer, StandardDistinct
  <2>4. PipeFds(pipe') \subseteq PipeFds(pipe) \cup {r, w}
    BY <2>1 DEF PipeFds, TypeOK
  <2>5. \A f \in PipeFds(pipe') : f > STDERR
    BY <2>3, <2>4
  <2>6. npipe' = npipe + 1 /\ npipe \in Nat
    BY <1>2 DEF CreatePipe, TypeOK
  <2>7. Beyond(ReadEnd(npipe + 1), c) /\ Beyond(WriteEnd(npipe + 1), c)
    BY <2>6, BeyondFiles
  <2>8. \A f \in Fd : fd'[f] = IF f = w THEN WriteEnd(npipe + 1)
                               ELSE IF f = r THEN ReadEnd(npipe + 1) ELSE t[f]
    BY <2>1 DEF Table
  <2>9. \A f \in Fd : f <= STDERR => fd'[f] = Terminal
    BY <2>3, <2>8, StandardDistinct
  <2>10. \A f \in Fd : f > STDERR => Beyond(fd'[f], c)
    BY <2>7, <2>8
  <2>11. QED
    BY <2>5, <2>6, <2>9, <2>10 DEF Adrift
<1>3. QED
  BY <1>1, <1>2

(* The turn of a slot behind the lost pipe. *)
LEMMA RenewBehind ==
  ASSUME TypeOK, NEW c \in Nat, npipe >= c, NEW q, i >= c,
         (Torn(fd, pipe, c) /\ i = c) \/ Adrift(fd, pipe, c),
         LET t == CloseChain(fd, <<pipe[i % 2][0], pipe[i % 2][1]>>)
         IN CreatePipe(t, i % 2, q) \/ (fd' = t /\ UNCHANGED <<pipe, npipe>>)
  PROVE  Adrift(fd', pipe', c) /\ npipe' >= c
<1> DEFINE a == pipe[i % 2][0]
           b == pipe[i % 2][1]
           t == CloseChain(fd, <<a, b>>)
<1>0. i \in Nat /\ i % 2 \in 0 .. 1 /\ fd \in Table
  BY PipexAssumption DEF TypeOK
<1>1. a \in Fd /\ b \in Fd /\ a \in PipeFds(pipe) /\ b \in PipeFds(pipe)
  BY <1>0 DEF TypeOK, PipeFds
<1>2. /\ \A f \in PipeFds(pipe) : f > STDERR
      /\ \A f \in Fd : f <= STDERR => fd[f] = Terminal
  BY DEF Torn, Adrift
<1> HIDE DEF a, b
<1>3. t \in Table
  BY <1>0, CloseChainTable
<1>4. \A f \in Fd : f <= STDERR => t[f] = Terminal
  <2> SUFFICES ASSUME NEW f \in Fd, f <= STDERR PROVE t[f] = Terminal
    OBVIOUS
  <2>1. f \notin {a, b}
    BY <1>1, <1>2, StandardDistinct
  <2>2. QED
    BY <1>0, <1>1, <1>2, <2>1, CloseTwoFrame
<1>5. \A f \in Fd : f > STDERR => Beyond(t[f], c)
  <2> SUFFICES ASSUME NEW f \in Fd, f > STDERR PROVE Beyond(t[f], c)
    OBVIOUS
  <2>1. CASE Adrift(fd, pipe, c)
    <3>1. t[f] \in {fd[f], Closed}
      BY <1>0, CloseChainFrame
    <3>2. Beyond(fd[f], c)
      BY <2>1 DEF Adrift
    <3>3. QED
      BY <3>1, <3>2, BeyondFiles
  <2>2. CASE Torn(fd, pipe, c) /\ i = c
    <3>1. /\ a # b /\ fd[a] = ReadEnd(Link(c)) /\ fd[b] = WriteEnd(Link(c))
          /\ \A g \in Fd : g > STDERR /\ g \notin {a, b} => fd[g] = Closed
      BY <2>2 DEF Torn, a, b
    <3>2. fd[a] # Closed /\ fd[b] # Closed
      BY <3>1, LinkNumbers, FilesDiffer
    <3>3. t = [g \in Fd |-> IF g \in {a, b} THEN Closed ELSE fd[g]]
      BY <1>0, <1>1, <3>1, <3>2, CloseTwo
    <3>4. t[f] = Closed
      BY <3>1, <3>3
    <3>5. QED
      BY <3>4, BeyondFiles
  <2>3. QED
    BY <2>1, <2>2
<1>6. CreatePipe(t, i % 2, q) \/ (fd' = t /\ UNCHANGED <<pipe, npipe>>)
  BY DEF a, b
<1> HIDE DEF t
<1>7. QED
  BY <1>0, <1>2, <1>3, <1>4, <1>5, <1>6, RenewedAdrift

(***************************************************************************)
(* The children at the lost pipe and behind it.                            *)
(***************************************************************************)
Stdio(t, u, v) == t[STDIN] = u /\ t[STDOUT] = v

(* ft_child for the command at which the pipeline ends. *)
LEMMA TornMiddle ==
  ASSUME NEW t \in Table, NEW p \in PipeArrays, NEW c \in Nat, Torn(t, p, c)
  PROVE  LET u == Dup2(Dup2(t, p[c % 2][0], STDIN), p[(c + 1) % 2][1], STDOUT)
         IN Stdio(CloseAllFds(u, p), ReadEnd(Link(c)), Terminal)
<1> DEFINE a == p[c % 2][0]
           b == p[(c + 1) % 2][1]
           d == Dup2(t, a, STDIN)
           u == Dup2(d, b, STDOUT)
<1>1. /\ a \in Fd /\ b \in Fd /\ a \in PipeFds(p) /\ b \in PipeFds(p)
      /\ c % 2 \in 0 .. 1 /\ p[c % 2][1] \in Fd
  <2>1. (c % 2 = 0 /\ (c + 1) % 2 = 1) \/ (c % 2 = 1 /\ (c + 1) % 2 = 0)
    OBVIOUS
  <2>2. QED
    BY <2>1 DEF PipeArrays, PipeFds
<1>2. a > STDERR /\ b > STDERR /\ t[a] = ReadEnd(Link(c)) /\ t[a] # Closed
  BY <1>1, LinkNumbers, FilesDiffer DEF Torn
<1>3. t[b] = Closed /\ t[STDOUT] = Terminal
  BY <1>1, <1>2, StandardDistinct DEF Torn
<1> HIDE DEF a, b
<1>4. d = [t EXCEPT ![STDIN] = ReadEnd(Link(c))]
  BY <1>2 DEF Dup2
<1>5. d \in Table /\ d[b] = Closed
  BY <1>1, <1>2, <1>3, <1>4, Dup2Table, StandardDistinct DEF Table
<1>6. u = d
  BY <1>5 DEF Dup2
<1>7. u \in Table /\ u[STDIN] = ReadEnd(Link(c)) /\ u[STDOUT] = Terminal
  BY <1>3, <1>4, <1>5, <1>6, StandardDistinct DEF Table
<1> HIDE DEF d, u
<1>8. \A f \in PipeFds(p) : f > STDERR
  BY DEF Torn
<1>9. CloseAllFds(u, p)[STDIN] = u[STDIN] /\ CloseAllFds(u, p)[STDOUT] = u[STDOUT]
  BY <1>7, <1>8, StreamsOutliveCloses, StandardDistinct
<1>10. QED
  BY <1>7, <1>9 DEF Stdio, u, d, a, b

(* ft_parent_process, when the pipe that is lost is the one behind the last command. *)
LEMMA TornLast ==
  ASSUME NEW t \in Table, NEW p \in PipeArrays, NEW c \in Nat, Torn(t, p, c),
         NEW f \in Fd, IsFree(t, f)
  PROVE  LET u == Dup2(Close(Redirect(t, f, Outfile, STDOUT), f), p[c % 2][0], STDIN)
         IN Stdio(CloseAllFds(u, p), ReadEnd(Link(c)), Outfile)
<1> DEFINE a == p[c % 2][0]
           r == Redirect(t, f, Outfile, STDOUT)
           d == Close(r, f)
           u == Dup2(d, a, STDIN)
<1>1. a \in Fd /\ a \in PipeFds(p)
  <2>1. c % 2 = 0 \/ c % 2 = 1
    OBVIOUS
  <2>2. QED
    BY <2>1 DEF PipeArrays, PipeFds
<1>2. a > STDERR /\ t[a] = ReadEnd(Link(c)) /\ t[a] # Closed
  BY <1>1, LinkNumbers, FilesDiffer DEF Torn
<1>3. f > STDERR /\ a # f /\ t[f] = Closed
  BY <1>2, FilesDiffer, StandardDistinct DEF Torn, IsFree
<1> HIDE DEF a
<1>4. r = [t EXCEPT ![f] = Outfile, ![STDOUT] = Outfile]
  BY <1>3, FilesDiffer, StandardDistinct DEF Redirect, Dup2, Table
<1>5. r \in Table
  BY RedirectTable, FilesAreFiles, StandardDistinct
<1> HIDE DEF r
<1>6. d = [r EXCEPT ![f] = Closed] /\ d \in Table
  BY <1>5, CloseTable DEF Close
<1> HIDE DEF d
<1>7. d[a] = t[a] /\ d[STDOUT] = Outfile
  BY <1>1, <1>2, <1>3, <1>4, <1>5, <1>6, StandardDistinct DEF Table
<1>8. u = [d EXCEPT ![STDIN] = ReadEnd(Link(c))] /\ u \in Table
  BY <1>1, <1>2, <1>6, <1>7, Dup2Table, StandardDistinct DEF Dup2
<1>9. u[STDIN] = ReadEnd(Link(c)) /\ u[STDOUT] = Outfile
  BY <1>6, <1>7, <1>8, StandardDistinct DEF Table
<1> HIDE DEF u
<1>10. \A g \in PipeFds(p) : g > STDERR
  BY DEF Torn
<1>11. CloseAllFds(u, p)[STDIN] = u[STDIN] /\ CloseAllFds(u, p)[STDOUT] = u[STDOUT]
  BY <1>8, <1>10, StreamsOutliveCloses, StandardDistinct
<1>12. QED
  BY <1>9, <1>11 DEF Stdio, u, d, r, a

(* Standard input of a command behind the lost pipe, from any number of the array. *)
LEMMA AdriftInput ==
  ASSUME NEW t \in Table, NEW p \in PipeArrays, NEW c \in Nat, NEW a \in PipeFds(p),
         \A f \in PipeFds(p) : f > STDERR,
         Beyond(t[a], c), Beyond(t[STDIN], c)
  PROVE  Beyond(Dup2(t, a, STDIN)[STDIN], c)
BY StandardDistinct DEF Dup2, Table

LEMMA AdriftMiddle ==
  ASSUME NEW t \in Table, NEW p \in PipeArrays, NEW c \in Nat, NEW k \in Nat, Adrift(t, p, c)
  PROVE  LET u == Dup2(Dup2(t, p[k % 2][0], STDIN), p[(k + 1) % 2][1], STDOUT)
         IN Beyond(CloseAllFds(u, p)[STDIN], c)
<1> DEFINE a == p[k % 2][0]
           b == p[(k + 1) % 2][1]
           d == Dup2(t, a, STDIN)
           u == Dup2(d, b, STDOUT)
<1>1. a \in Fd /\ b \in Fd /\ a \in PipeFds(p)
  <2>1. (k % 2 = 0 /\ (k + 1) % 2 = 1) \/ (k % 2 = 1 /\ (k + 1) % 2 = 0)
    OBVIOUS
  <2>2. QED
    BY <2>1 DEF PipeArrays, PipeFds
<1>2. (\A f \in PipeFds(p) : f > STDERR) /\ Beyond(t[a], c) /\ Beyond(t[STDIN], c)
  BY <1>1, BeyondFiles, StandardDistinct DEF Adrift
<1> HIDE DEF a, b
<1>3. d \in Table /\ Beyond(d[STDIN], c)
  BY <1>1, <1>2, AdriftInput, Dup2Table, StandardDistinct
<1> HIDE DEF d
<1>4. u \in Table /\ u[STDIN] = d[STDIN]
  BY <1>1, <1>3, Dup2Table, StandardDistinct DEF Dup2, Table
<1> HIDE DEF u
<1>5. CloseAllFds(u, p)[STDIN] = u[STDIN]
  BY <1>2, <1>4, StreamsOutliveCloses, StandardDistinct
<1>6. QED
  BY <1>3, <1>4, <1>5 DEF u, d, a, b

LEMMA AdriftLast ==
  ASSUME NEW t \in Table, NEW p \in PipeArrays, NEW c \in Nat, NEW k \in Nat, Adrift(t, p, c),
         NEW f \in Fd, IsFree(t, f)
  PROVE  LET u == Dup2(Close(Redirect(t, f, Outfile, STDOUT), f), p[k % 2][0], STDIN)
         IN Beyond(CloseAllFds(u, p)[STDIN], c)
<1> DEFINE a == p[k % 2][0]
           r == Redirect(t, f, Outfile, STDOUT)
           d == Close(r, f)
           u == Dup2(d, a, STDIN)
<1>1. a \in Fd /\ a \in PipeFds(p)
  <2>1. k % 2 = 0 \/ k % 2 = 1
    OBVIOUS
  <2>2. QED
    BY <2>1 DEF PipeArrays, PipeFds
<1>2. /\ \A g \in PipeFds(p) : g > STDERR
      /\ a > STDERR /\ Beyond(t[a], c) /\ Beyond(t[STDIN], c)
  BY <1>1, BeyondFiles, StandardDistinct DEF Adrift
<1>3. f > STDERR
  BY FilesDiffer, StandardDistinct DEF Adrift, IsFree
<1> HIDE DEF a
<1>4. r = [t EXCEPT ![f] = Outfile, ![STDOUT] = Outfile]
  BY <1>3, FilesDiffer, StandardDistinct DEF Redirect, Dup2, Table
<1>5. r \in Table
  BY RedirectTable, FilesAreFiles, StandardDistinct
<1> HIDE DEF r
<1>6. d = [r EXCEPT ![f] = Closed] /\ d \in Table
  BY <1>5, CloseTable DEF Close
<1> HIDE DEF d
<1>7. Beyond(d[a], c) /\ Beyond(d[STDIN], c)
  <2>1. d[STDIN] = t[STDIN]
    BY <1>3, <1>4, <1>5, <1>6, StandardDistinct DEF Table
  <2>2. CASE a = f
    BY <1>2, <1>5, <1>6, <2>1, <2>2, BeyondFiles DEF Table
  <2>3. CASE a # f
    <3>1. d[a] = t[a]
      BY <1>1, <1>2, <1>4, <1>5, <1>6, <2>3, StandardDistinct DEF Table
    <3>2. QED
      BY <1>2, <2>1, <3>1
  <2>4. QED
    BY <2>2, <2>3
<1>8. u \in Table /\ Beyond(u[STDIN], c)
  BY <1>1, <1>2, <1>6, <1>7, AdriftInput, Dup2Table, StandardDistinct
<1> HIDE DEF u
<1>9. CloseAllFds(u, p)[STDIN] = u[STDIN]
  BY <1>2, <1>8, StreamsOutliveCloses, StandardDistinct
<1>10. QED
  BY <1>8, <1>9 DEF u, d, r, a

(***************************************************************************)
(* The pipeline stays cut where it was cut.                                *)
(***************************************************************************)

(* A child that nobody moves, or that is only waited for, stays joined as it was. *)
LEMMA JoinedFrame ==
  ASSUME NEW c, NEW k \in Cmds, Joined(c, k), UNCHANGED <<mode, nb_cmds>>,
         \/ cpc'[k] = cpc[k] /\ cfd'[k] = cfd[k] /\ cpipe'[k] = cpipe[k]
         \/ cpc'[k] \in {"zombie", "reaped"}
  PROVE  Joined(c, k)'
<1>1. CASE cpc'[k] \in {"zombie", "reaped"}
  BY <1>1 DEF Joined, Ready
<1>2. CASE cpc'[k] = cpc[k] /\ cfd'[k] = cfd[k] /\ cpipe'[k] = cpipe[k]
  <2>1. Ready(k)' <=> Ready(k)
    BY <1>2 DEF Ready
  <2>2. cpc'[k] = "forked" => Handed(cfd[k], cpipe[k], c, k)'
    BY <1>2 DEF Joined, Handed, Layout, Torn, Adrift
  <2>3. k < c /\ Ready(k) => Streams(cfd[k], k)'
    BY <1>2 DEF Joined, Streams
  <2>4. QED
    BY <1>2, <2>1, <2>2, <2>3 DEF Joined
<1>3. QED
  BY <1>1, <1>2

(* The child that is forked gets what the parent has. *)
LEMMA JoinedFork ==
  ASSUME TypeOK, NEW c, NEW k \in Cmds, NEW j \in Cmds, Joined(c, k),
         ForkChild(j) \/ ForkFails(j), UNCHANGED <<mode, nb_cmds>>, Handed(fd, pipe, c, j)
  PROVE  Joined(c, k)'
<1>1. CASE k = j /\ ForkChild(j)
  <2>1. cpc'[k] = "forked" /\ cfd'[k] = fd /\ cpipe'[k] = pipe
    BY <1>1 DEF ForkChild, TypeOK
  <2>2. Handed(cfd[k], cpipe[k], c, k)'
    BY <1>1, <2>1 DEF Handed, Layout, Torn, Adrift
  <2>3. QED
    BY <2>1, <2>2 DEF Joined, Ready
<1>2. CASE k # j \/ ForkFails(j)
  <2>1. cpc'[k] = cpc[k] /\ cfd'[k] = cfd[k] /\ cpipe'[k] = cpipe[k]
    BY <1>2 DEF ForkChild, ForkFails, children, TypeOK
  <2>2. QED
    BY <2>1, JoinedFrame
<1>3. QED
  BY <1>1, <1>2

(* A child gets its streams ready. *)
LEMMA JoinedSetUp ==
  ASSUME CoreInv, TempInv, NEW c \in 2 .. nb_cmds - 1, NEW k \in Cmds, Joined(c, k),
         SetUp(k), UNCHANGED <<mode, nb_cmds>>, cpc'[k] = "exec"
  PROVE  Joined(c, k)'
<1> USE DEF CoreInv
<1>1. /\ cpc[k] = "forked" /\ cfd[k] \in Table /\ cpipe[k] \in PipeArrays /\ k \in Nat
      /\ nb_cmds \in Nat /\ c \in Nat
  BY PipexAssumption
     DEF SetUp, FirstChild, MiddleChild, LastChild, TypeOK, PipeArrays, Cmds
<1>2. Handed(cfd[k], cpipe[k], c, k)
  BY <1>1 DEF Joined
<1>3. ASSUME NEW t, ToExec(k, t) PROVE cfd'[k] = t
  BY <1>3 DEF ToExec, TypeOK
<1>4. \A e : ~FailToOpen(k, e)
  BY DEF FailToOpen, ChildCleanupExit, ChildEnds, TypeOK
<1>5. CASE k < c
  <2>1. Streams(cfd'[k], k)
    BY <1>2, <1>5, SetUpStreams DEF Handed
  <2>2. Streams(cfd[k], k)'
    BY <2>1 DEF Streams
  <2>3. QED
    BY <1>1, <1>5, <2>2 DEF Joined
<1>6. ASSUME k >= c, k < nb_cmds - 1
      PROVE  cfd'[k] = CloseAllFds(Dup2(Dup2(cfd[k], cpipe[k][k % 2][0], STDIN),
                                        cpipe[k][(k + 1) % 2][1], STDOUT), cpipe[k])
  <2>1. MiddleChild(k)
    BY <1>1, <1>6 DEF SetUp, LastChild
  <2>2. QED
    BY <1>3, <2>1 DEF MiddleChild
<1>7. ASSUME k >= c, ~(k < nb_cmds - 1)
      PROVE  /\ k = nb_cmds - 1
             /\ \E f \in Fd :
                  /\ IsFree(cfd[k], f)
                  /\ cfd'[k] = CloseAllFds(Dup2(Close(Redirect(cfd[k], f, Outfile, STDOUT), f),
                                                cpipe[k][k % 2][0], STDIN), cpipe[k])
  <2>1. LastChild(k)
    BY <1>1, <1>7 DEF SetUp, MiddleChild
  <2>2. k = nb_cmds - 1
    BY <2>1 DEF LastChild
  <2>3. PICK f \in Fd :
          /\ IsLowest(cfd[k], f)
          /\ ToExec(k, CloseAllFds(Dup2(Close(Redirect(cfd[k], f, Outfile, STDOUT), f),
                                        cpipe[k][(nb_cmds - 1) % 2][0], STDIN), cpipe[k]))
    BY <1>4, <2>1 DEF LastChild
  <2>4. QED
    BY <1>3, <2>2, <2>3 DEF IsLowest
<1>8. CASE k = c
  <2>1. Torn(cfd[k], cpipe[k], k)
    BY <1>2, <1>8 DEF Handed
  <2>2. CASE k < nb_cmds - 1
    <3>1. Stdio(cfd'[k], ReadEnd(Link(k)), Terminal)
      BY <1>1, <1>6, <1>8, <2>1, <2>2, TornMiddle
    <3>2. QED
      BY <1>1, <1>8, <2>2, <3>1 DEF Stdio, Joined
  <2>3. CASE ~(k < nb_cmds - 1)
    <3>1. k = nb_cmds - 1 /\ Stdio(cfd'[k], ReadEnd(Link(k)), Outfile)
      BY <1>1, <1>7, <1>8, <2>1, <2>3, TornLast
    <3>2. QED
      BY <1>1, <1>8, <2>3, <3>1 DEF Stdio, Joined
  <2>4. QED
    BY <2>2, <2>3
<1>9. CASE k > c
  <2>1. Adrift(cfd[k], cpipe[k], c)
    BY <1>2, <1>9 DEF Handed
  <2>2. Beyond(cfd'[k][STDIN], c)
    BY <1>1, <1>6, <1>7, <1>9, <2>1, AdriftMiddle, AdriftLast
  <2>3. QED
    BY <1>1, <1>9, <2>2 DEF Joined
<1>10. QED
  BY <1>1, <1>5, <1>8, <1>9

(* No step joins again what has been cut, and none cuts it elsewhere. *)
LEMMA SeveredStep ==
  ASSUME CoreInv, TempInv, PipeLost, NEW c, Severed(c), [Next]_vars
  PROVE  Severed(c)'
<1> USE DEF CoreInv
<1>1. /\ main \notin BeforeForks /\ c \in Nat /\ i \in Nat /\ npipe \in Nat /\ nb_cmds \in Nat
      /\ c \in 2 .. nb_cmds - 1 /\ npipe >= c /\ MaxCmds \in Nat /\ nb_cmds <= MaxCmds
  BY NothingToLose, PipexAssumption DEF Severed, TypeOK
<1>2. CASE Malcolm
  <2>1. /\ main = "malcolm" /\ main' \in {"renew", "fork_last"} /\ i' = i + 1
        /\ i + 1 >= c /\ Handed(fd, pipe, c, i + 1)
        /\ UNCHANGED <<mode, nb_cmds, fd, pipe, npipe>>
    BY <1>2 DEF Malcolm, Severed, parse, parentFd
  <2>2. Handed(fd, pipe, c, i)'
    BY <2>1 DEF Handed, Layout, Torn, Adrift
  <2>3. ASSUME NEW k \in Cmds PROVE Joined(c, k)'
    <3>1. CASE UNCHANGED children
      BY <2>1, <2>3, <3>1, JoinedFrame DEF Severed, children
    <3>2. CASE i + 1 < nb_cmds - 1 /\ (ForkChild(i + 1) \/ ForkFails(i + 1))
      <4>1. i + 1 \in Cmds
        BY <1>1, <3>2 DEF Cmds
      <4>2. QED
        BY <2>1, <2>3, <3>2, <4>1, JoinedFork DEF Severed
    <3>3. QED
      BY <1>2, <3>1, <3>2 DEF Malcolm
  <2>4. QED
    BY <1>1, <2>1, <2>2, <2>3 DEF Severed
<1>3. CASE RenewPipe
  <2>1. /\ main = "renew" /\ main' = "malcolm" /\ i' = i /\ i >= c /\ Handed(fd, pipe, c, i)
        /\ UNCHANGED <<mode, nb_cmds, children>>
        /\ LET t == CloseChain(fd, <<pipe[i % 2][0], pipe[i % 2][1]>>)
           IN CreatePipe(t, i % 2, "malcolm") \/ (fd' = t /\ UNCHANGED <<pipe, npipe>>)
    BY <1>3 DEF RenewPipe, CreatePipe, ParentOnly, Severed, parse
  <2>2. (Torn(fd, pipe, c) /\ i = c) \/ Adrift(fd, pipe, c)
    BY <1>1, <2>1 DEF Handed
  <2>3. Adrift(fd', pipe', c) /\ npipe' >= c
    BY <1>1, <2>1, <2>2, RenewBehind
  <2>4. i' + 1 >= c /\ Handed(fd', pipe', c, i' + 1)
    BY <1>1, <2>1, <2>3 DEF Handed
  <2>5. Handed(fd, pipe, c, i + 1)'
    BY <2>4 DEF Handed, Layout, Torn, Adrift
  <2>6. ASSUME NEW k \in Cmds PROVE Joined(c, k)'
    BY <2>1, <2>6, JoinedFrame DEF Severed, children
  <2>7. QED
    BY <1>1, <2>1, <2>3, <2>4, <2>5, <2>6 DEF Severed
<1>4. CASE ForkLastChild
  <2>1. /\ main' = "close" /\ UNCHANGED <<mode, nb_cmds, npipe>> /\ Handed(fd, pipe, c, i)
        /\ i \in Cmds /\ (ForkChild(i) \/ ForkFails(i))
    BY <1>1, <1>4
       DEF ForkLastChild, Severed, parse, parentFd, PhaseInv, Cmds
  <2>2. ASSUME NEW k \in Cmds PROVE Joined(c, k)'
    BY <2>1, <2>2, JoinedFork DEF Severed
  <2>3. QED
    BY <1>1, <2>1, <2>2 DEF Severed
<1>5. CASE CloseInParent \/ Finish \/ WaitNobody \/ \E k \in Cmds : WaitChild(k)
  <2>1. /\ main' \in {"wait", "exited"} /\ UNCHANGED <<mode, nb_cmds, npipe, cfd, cpipe>>
        /\ \A k \in Cmds : cpc'[k] = cpc[k] \/ cpc'[k] = "reaped"
    BY <1>5
       DEF CloseInParent, Finish, WaitNobody, WaitChild, MainCleanupExit, MainExit, parse,
           parentFd, children, TypeOK
  <2>2. ASSUME NEW k \in Cmds PROVE Joined(c, k)'
    BY <2>1, <2>2, JoinedFrame DEF Severed
  <2>3. QED
    BY <1>1, <2>1, <2>2 DEF Severed
<1>6. ASSUME UNCHANGED <<mode, nb_cmds, main, i, fd, pipe, npipe>>,
             \A k \in Cmds : Joined(c, k)'
      PROVE  Severed(c)'
  BY <1>1, <1>6 DEF Severed, Handed, Layout, Torn, Adrift
<1>7. ASSUME NEW k \in Cmds, ChildStep(k) \/ (CommandEnds(k) /\ ParentIdle) PROVE Severed(c)'
  <2>1. UNCHANGED <<mode, nb_cmds, main, i, fd, pipe, npipe>>
    BY <1>7 DEF ChildStep, ParentIdle, parse, parentFd
  <2>2. \A j \in Cmds : j # k => cpc'[j] = cpc[j] /\ cfd'[j] = cfd[j] /\ cpipe'[j] = cpipe[j]
    BY <1>7
       DEF ChildStep, SetUp, FirstChild, MiddleChild, LastChild, SearchAndExec, CommandEnds,
           ToExec, FailToOpen, ChildCleanupExit, ChildEnds, TypeOK
  <2>3. Joined(c, k)'
    <3>1. CASE SetUp(k) /\ cpc'[k] = "exec"
      BY <1>1, <2>1, <3>1, JoinedSetUp DEF Severed
    <3>2. CASE SetUp(k) /\ cpc'[k] # "exec"
      <4>1. cpc'[k] = "zombie"
        BY <3>2
           DEF SetUp, FirstChild, MiddleChild, LastChild, ToExec, FailToOpen, ChildCleanupExit,
               ChildEnds, TypeOK
      <4>2. QED
        BY <2>1, <4>1, JoinedFrame DEF Severed
    <3>3. CASE SearchAndExec(k)
      <4>1. CASE cpc'[k] = "run" /\ cfd' = cfd /\ cpc[k] = "exec"
        <5>1. Streams(cfd[k], k)' <=> Streams(cfd[k], k)
          BY <2>1, <4>1 DEF Streams
        <5>2. QED
          BY <2>1, <4>1, <5>1 DEF Severed, Joined, Ready
      <4>2. CASE cpc'[k] = "zombie"
        BY <2>1, <4>2, JoinedFrame DEF Severed
      <4>3. QED
        BY <3>3, <4>1, <4>2 DEF SearchAndExec, ChildCleanupExit, ChildEnds, TypeOK
    <3>4. CASE CommandEnds(k)
      <4>1. cpc'[k] = "zombie"
        BY <3>4 DEF CommandEnds, ChildEnds, TypeOK
      <4>2. QED
        BY <2>1, <4>1, JoinedFrame DEF Severed
    <3>5. QED
      BY <1>7, <3>1, <3>2, <3>3, <3>4 DEF ChildStep
  <2>4. \A j \in Cmds : Joined(c, j)'
    BY <2>1, <2>2, <2>3, JoinedFrame DEF Severed
  <2>5. QED
    BY <1>6, <2>1, <2>4
<1>8. CASE UNCHANGED vars
  <2>1. UNCHANGED <<mode, nb_cmds, main, i, fd, pipe, npipe, cpc, cfd, cpipe>>
    BY <1>8 DEF vars, parse, parentFd, children
  <2>2. \A k \in Cmds : Joined(c, k)'
    BY <2>1, JoinedFrame DEF Severed
  <2>3. QED
    BY <1>6, <2>1, <2>2
<1>9. QED
  BY <1>1, <1>2, <1>3, <1>4, <1>5, <1>7, <1>8
     DEF Next, MainStep, AllDone, OpenPipe, ValidateArgs, ParseCmds, GrabEnvp, HereDocInp,
         ForkFirstChild, BeforeForks, BeforeParse

(* A pipe is lost: the command that is forked next reads the last pipe there is. *)
LEMMA LossStep ==
  ASSUME CoreInv, ParentPlumbing, ChildPlumbing, ~PipeLost, PipeLost', [Next]_vars
  PROVE  RenewPipe /\ \E c \in Cmds : Severed(c)' /\ \A k \in Cmds : k >= c => cpc[k] = "none"
<1> USE DEF CoreInv
<1>0. PICK c : c = i + 1
  OBVIOUS
<1> DEFINE a == pipe[i % 2][0]
           b == pipe[i % 2][1]
           t == CloseChain(fd, <<a, b>>)
<1>1. RenewPipe
  BY WhereLost
<1>2. /\ main = "renew" /\ main' = "malcolm" /\ i' = i /\ i \in Nat \ {0} /\ i <= nb_cmds - 2
      /\ npipe = i + 1 /\ Layout(fd, pipe, i) /\ UNCHANGED <<mode, nb_cmds, cpc, cfd, cpipe>>
      /\ nb_cmds \in Nat /\ nb_cmds <= MaxCmds /\ MaxCmds \in Nat
  BY <1>1, PipexAssumption
     DEF RenewPipe, CreatePipe, ParentOnly, children, parse, PhaseInv, ParentPlumbing, TypeOK
<1>3. fd' = t /\ UNCHANGED <<pipe, npipe>>
  <2>1. ~(npipe' = npipe + 1)
    BY <1>2 DEF PipeLost, Waited
  <2>2. QED
    BY <1>1, <2>1 DEF RenewPipe, CreatePipe
<1>4. c \in Cmds /\ c \in 2 .. nb_cmds - 1 /\ c % 2 \in 0 .. 1 /\ i % 2 \in 0 .. 1
      /\ (c + 1) % 2 = i % 2 /\ c % 2 # i % 2
  BY <1>0, <1>2 DEF Cmds
<1> DEFINE r == pipe[c % 2][0]
           w == pipe[c % 2][1]
<1>5. /\ a \in Fd /\ b \in Fd /\ r \in Fd /\ w \in Fd
      /\ a # b /\ a # r /\ a # w /\ b # r /\ b # w /\ r # w
      /\ fd[a] # Closed /\ fd[b] # Closed
      /\ PipeFds(pipe) = {a, b, r, w}
  <2>1. (i % 2 = 0 /\ c % 2 = 1) \/ (i % 2 = 1 /\ c % 2 = 0)
    BY <1>4
  <2>2. QED
    BY <1>2, <2>1, LayoutFds DEF TypeOK, PipeArrays, PipeFds
<1>6. fd[r] = ReadEnd(Link(c)) /\ fd[w] = WriteEnd(Link(c))
  BY <1>0, <1>2 DEF Layout
<1>7. t = [f \in Fd |-> IF f \in {a, b} THEN Closed ELSE fd[f]]
  <2>1. fd \in Table
    BY DEF TypeOK
  <2> HIDE DEF a, b
  <2>2. QED
    BY <1>5, <2>1, CloseTwo
<1>8. pipe[(c + 1) % 2][1] = b
  BY <1>4
<1>9. \A f \in PipeFds(pipe) : f > STDERR
  BY <1>2 DEF Layout
<1>10. \A f \in Fd : f <= STDERR => fd[f] = Terminal /\ f \notin {a, b}
  BY <1>2, <1>5, <1>9, StandardDistinct DEF Layout
<1>11. \A f \in Fd : f > STDERR /\ f \notin {a, b, r, w} => fd[f] = Closed
  BY <1>2, <1>5 DEF Layout
<1>12. Torn(t, pipe, c)
  <2> HIDE DEF t, a, b
  <2>1. t[r] = ReadEnd(Link(c)) /\ t[w] = WriteEnd(Link(c))
    BY <1>5, <1>6, <1>7
  <2>2. \A f \in Fd : f <= STDERR => t[f] = Terminal
    BY <1>7, <1>10
  <2>3. \A f \in Fd : f > STDERR /\ f \notin {r, w} => t[f] = Closed
    BY <1>7, <1>11
  <2>4. QED
    BY <1>5, <1>8, <1>9, <2>1, <2>2, <2>3 DEF Torn
<1> HIDE DEF a, b, t, r, w
<1>13. \A k \in Cmds : k >= c => cpc[k] = "none"
  <2>1. \A k \in Cmds : child_pids[k] = 0 <=> k >= c
    BY <1>0, <1>2 DEF ChildInv, Forked, BeforeForks, BeforeParse
  <2>2. QED
    BY <2>1 DEF ChildInv, Cmds
<1>14. ASSUME NEW k \in Cmds PROVE Joined(c, k)
  <2>1. CASE k >= c
    BY <1>13, <2>1 DEF Joined, Ready
  <2>2. CASE k < c
    <3>1. k # c /\ ~(k > c)
      BY <1>4, <2>2 DEF Cmds
    <3>2. QED
      BY <2>2, <3>1 DEF ChildPlumbing, Joined, Handed
  <2>3. QED
    BY <1>4, <2>1, <2>2 DEF Cmds
<1>15. \A k \in Cmds : Joined(c, k)'
  <2> SUFFICES ASSUME NEW k \in Cmds PROVE Joined(c, k)'
    OBVIOUS
  <2>1. Joined(c, k)' <=> Joined(c, k)
    BY <1>2 DEF Joined, Handed, Layout, Torn, Adrift, Streams, Ready
  <2>2. QED
    BY <1>14, <2>1
<1>16. i' + 1 = c /\ npipe >= c
  BY <1>0, <1>2
<1>17. Handed(fd', pipe', c, c)
  BY <1>3, <1>4, <1>12 DEF Handed
<1>18. Severed(c)'
  <2>1. Handed(fd, pipe, c, c)'
    BY <1>17 DEF Handed, Layout, Torn, Adrift
  <2>2. main' = "malcolm" /\ i' + 1 = c /\ npipe' >= c /\ c \in 2 .. nb_cmds' - 1
    BY <1>2, <1>3, <1>4, <1>16
  <2>3. (main = "malcolm" => i + 1 >= c /\ Handed(fd, pipe, c, i + 1))'
    BY <1>4, <2>1, <2>2
  <2>4. (main \notin {"renew", "fork_last"})'
    BY <2>2
  <2>5. QED
    BY <1>15, <2>2, <2>3, <2>4 DEF Severed
<1>19. QED
  BY <1>1, <1>4, <1>13, <1>18

-----------------------------------------------------------------------------
(* PipexInv holds at the start. *)
LEMMA PipexInvInit == Init => PipexInv
<1> SUFFICES ASSUME Init PROVE PipexInv
  OBVIOUS
<1>1. CoreInv /\ 0 \in Cmds
  BY CoreInit, PipexAssumption DEF Cmds
<1>2. TempInv
  BY DEF Init, TempInv
<1>3. ParentPlumbing
  BY DEF Init, ParentPlumbing, BeforeForks, BeforeParse
<1>4. ChildPlumbing
  BY DEF Init, ChildPlumbing, Ready
<1>5. ~PipeLost
  BY DEF Init, PipeLost, Waited
<1>6. QED
  BY <1>1, <1>2, <1>3, <1>4, <1>5 DEF PipexInv

(* Every step keeps PipexInv. *)
LEMMA PipexInvStep == PipexInv /\ [Next]_vars => PipexInv'
<1> SUFFICES ASSUME PipexInv, [Next]_vars PROVE PipexInv'
  OBVIOUS
<1>1. CoreInv'
  BY CoreStep DEF PipexInv
<1>2. TempInv'
  BY TempStep DEF PipexInv
<1>3. ~PipeLost' => ParentPlumbing' /\ ChildPlumbing'
  BY LostForGood, ParentStep, ChildrenStep DEF PipexInv
<1>4. "pipe" \notin Faults => ~PipeLost'
  BY NothingRefused DEF PipexInv
<1>5. PipeLost' => \E c \in Cmds : Severed(c)'
  BY LossStep, SeveredStep DEF PipexInv
<1>6. QED
  BY <1>1, <1>2, <1>3, <1>4, <1>5 DEF PipexInv

(* PipexInv holds throughout every run of pipex. *)
LEMMA Invariance == Spec => []PipexInv
BY PipexInvInit, PipexInvStep, PTL DEF Spec

(***************************************************************************)
(* Every command is joined to its neighbours and to nothing else, in       *)
(* pipelines of any length: what ft_malcolm's reuse of two pipe slots by   *)
(* parity is meant to achieve.                                             *)
(***************************************************************************)
THEOREM PlumbingCorrect == Spec => []Plumbing
<1>1. PipexInv => Plumbing
  <2> SUFFICES ASSUME PipexInv, ~PipeLost, NEW k \in Cmds, Ready(k)
               PROVE  /\ k = 0 => cfd[k][STDIN] = IF mode = "here_doc" THEN TempOf(1) ELSE Infile
                      /\ k = nb_cmds - 1 => cfd[k][STDOUT] = Outfile
                      /\ \A l \in Cmds : Ready(l) /\ l = k + 1 =>
                           \E p \in 1 .. npipe : /\ cfd[k][STDOUT] = WriteEnd(p)
                                                 /\ cfd[l][STDIN] = ReadEnd(p)
    BY DEF Plumbing
  <2>1. Streams(cfd[k], k)
    BY DEF PipexInv, ChildPlumbing
  <2>2. ASSUME NEW l \in Cmds, Ready(l), l = k + 1
        PROVE  \E p \in 1 .. npipe : cfd[k][STDOUT] = WriteEnd(p) /\ cfd[l][STDIN] = ReadEnd(p)
    <3>1. Streams(cfd[l], l)
      BY <2>2 DEF PipexInv, ChildPlumbing
    <3>2. l < nb_cmds /\ nb_cmds \in Nat /\ k \in Nat /\ npipe \in Nat
      <4>1. child_pids[l] # 0
        BY <2>2 DEF PipexInv, CoreInv, ChildInv, Ready, Cmds
      <4>2. QED
        BY <4>1, PipexAssumption DEF PipexInv, CoreInv, ChildInv, TypeOK, Cmds
    <3>3. k # nb_cmds - 1 /\ l # 0 /\ k < nb_cmds - 1
      BY <2>2, <3>2
    <3>4. cfd[k][STDOUT] = WriteEnd(Link(l)) /\ cfd[l][STDIN] = ReadEnd(Link(l))
      BY <2>1, <2>2, <3>1, <3>3 DEF Streams
    <3>5. Link(l) \in Nat \ {0} /\ Link(l) <= npipe
      BY <2>2, <3>2, <3>3, LinkNumbers DEF PipexInv, ChildPlumbing, Ready
    <3>6. Link(l) \in 1 .. npipe
      BY <3>2, <3>5
    <3>7. QED
      BY <3>4, <3>6
  <2>3. QED
    BY <2>1, <2>2 DEF Streams
<1>2. QED
  BY Invariance, <1>1, PTL

(***************************************************************************)
(* No command and no parent keeps an end of a pipe that could hold back    *)
(* the end of file of another command: ft_close_all_fds closes enough in   *)
(* every process, however many pipes ft_malcolm has gone through.          *)
(***************************************************************************)
THEOREM NoStrayEndsCorrect == Spec => []NoStrayEnds
<1>1. PipexInv => NoStrayEnds
  <2> SUFFICES ASSUME PipexInv, ~PipeLost
               PROVE  /\ main = "wait" => \A f \in Fd : fd[f] \in {Closed, Terminal}
                      /\ \A k \in Cmds : Ready(k) => \A f \in Fd : f > STDERR => cfd[k][f] = Closed
                      /\ \A k, l \in Cmds : Ready(k) /\ Ready(l) /\ k # l =>
                           \A p \in 1 .. npipe :
                             ~(Holds(cfd[k], WriteEnd(p)) /\ Holds(cfd[l], WriteEnd(p)))
    BY DEF NoStrayEnds
  <2>1. \A k \in Cmds : Ready(k) => Streams(cfd[k], k)
    BY DEF PipexInv, ChildPlumbing
  <2>2. ASSUME NEW k \in Cmds, Ready(k), NEW p \in 1 .. npipe, Holds(cfd[k], WriteEnd(p))
        PROVE  p = Link(k + 1)
    <3>1. PICK f \in Fd : cfd[k][f] = WriteEnd(p)
      BY <2>2 DEF Holds
    <3>2. p \in Nat /\ Link(k) \in Nat /\ Link(k + 1) \in Nat
      BY LinkNumbers DEF Cmds
    <3>3. f \in {STDIN, STDOUT, STDERR}
      BY <2>1, <2>2, <3>1, <3>2, FilesDiffer, StandardDistinct DEF Streams
    <3>4. f # STDIN /\ f # STDERR
      BY <2>1, <2>2, <3>1, <3>2, FilesDiffer DEF Streams
    <3>5. WriteEnd(p) = WriteEnd(Link(k + 1))
      BY <2>1, <2>2, <3>1, <3>2, <3>3, <3>4, FilesDiffer DEF Streams
    <3>6. QED
      BY <3>2, <3>5, FilesDiffer
  <2>3. ASSUME NEW k \in Cmds, NEW l \in Cmds, Ready(k), Ready(l), k # l, NEW p \in 1 .. npipe
        PROVE  ~(Holds(cfd[k], WriteEnd(p)) /\ Holds(cfd[l], WriteEnd(p)))
    <3>1. k + 1 \in Nat \ {0} /\ l + 1 \in Nat \ {0} /\ k + 1 # l + 1
      BY <2>3 DEF Cmds
    <3>2. Link(k + 1) # Link(l + 1)
      BY <3>1, LinkNumbers
    <3>3. QED
      BY <2>2, <2>3, <3>2
  <2>4. \A k \in Cmds : Ready(k) => \A f \in Fd : f > STDERR => cfd[k][f] = Closed
    BY <2>1 DEF Streams
  <2>5. main = "wait" => \A f \in Fd : fd[f] \in {Closed, Terminal}
    BY DEF PipexInv, ParentPlumbing
  <2>6. QED
    BY <2>3, <2>4, <2>5
<1>2. QED
  BY Invariance, <1>1, PTL

=============================================================================
