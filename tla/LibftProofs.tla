----------------------------- MODULE LibftProofs -----------------------------
(***************************************************************************)
(* Proofs about functions of libft: for numbers of any width, memories and *)
(* strings of any size, and any arguments.                                 *)
(***************************************************************************)
EXTENDS Libft, SequenceTheorems, FiniteSetTheorems, FunctionTheorems, WellFoundedInduction,
        TLAPS

(***************************************************************************)
(* A caller gives arguments once, and they are one of the kinds of Libft.  *)
(***************************************************************************)
ArgsInv == args = [to |-> "lists"] \/ Arguments

LEMMA ArgsInvariance == LibftSpec => []ArgsInv
<1>1. LibftInit => ArgsInv
  BY DEF LibftInit, ArgsInv
<1>2. ArgsInv /\ [LibftNext]_<<vars, args>> => ArgsInv'
  <2>1. [LibftNext]_<<vars, args>> => UNCHANGED args
    BY DEF LibftNext
  <2>2. ArgsInv /\ UNCHANGED args => ArgsInv'
    BY DEF ArgsInv, Arguments
  <2>3. QED
    BY <2>1, <2>2
<1>3. QED
  BY <1>1, <1>2, PTL DEF LibftSpec

-----------------------------------------------------------------------------
(***************************************************************************)
(* ft_calloc.                                                              *)
(***************************************************************************)
(* The remainder of a product of two numbers below w tells whether it fits. *)
LEMMA ProductFits ==
  ASSUME NEW w \in Nat \ {0}, NEW n \in 0 .. w - 1, NEW sz \in 0 .. w - 1,
         NEW res, res = (n * sz) % w
  PROVE  /\ n * sz < w => res = n * sz /\ (n # 0 => res \div n = sz)
         /\ n * sz >= w => n # 0 /\ res \div n # sz
<1>1. n \in Nat /\ sz \in Nat /\ n * sz \in Nat /\ res \in 0 .. w - 1
  OBVIOUS
<1>2. CASE n * sz < w
  <2>1. res = n * sz
    BY <1>1, <1>2
  <2>2. ASSUME n # 0 PROVE res \div n = sz
    BY <1>1, <2>1, <2>2
  <2>3. QED
    BY <1>2, <2>1, <2>2
<1>3. CASE n * sz >= w
  <2>1. n # 0
    BY <1>1, <1>3
  <2>2. res < n * sz
    BY <1>1, <1>3
  <2>3. n * (res \div n) <= res
    BY <1>1, <2>1
  <2>4. res \div n # sz
    BY <1>1, <2>1, <2>2, <2>3
  <2>5. QED
    BY <1>3, <2>1, <2>4
<1>4. QED
  BY <1>1, <1>2, <1>3

(***************************************************************************)
(* For every width of size_t: ft_ovfh notices every product that does not  *)
(* fit, and no other, so the block of ft_calloc is never too short.        *)
(***************************************************************************)
THEOREM NoShortBlockCorrect == LibftSpec => []NoShortBlock
<1>1. ASSUME ArgsInv PROVE NoShortBlock
  <2>1. SUFFICES ASSUME args.to = "calloc" PROVE P!NoShortBlock(args.nmemb, args.size)
    BY DEF NoShortBlock
  <2>2. PICK n, sz \in 0 .. 2 ^ Width - 1 : args.nmemb = n /\ args.size = sz
    BY <1>1, <2>1 DEF ArgsInv, Arguments
  <2>3. PICK w \in Nat \ {0} : w = 2 ^ Width
    BY <2>2, LibftAssumption
  <2>4. PICK res : res = (n * sz) % w
    OBVIOUS
  <2>5. P!Unsigned(n * sz, Width) = res /\ P!NULL = -1
    BY <2>3, <2>4 DEF P!Unsigned, P!NULL
  <2>6. P!Calloc(n, sz) = IF n # 0 /\ res \div n # sz THEN P!NULL ELSE res
    BY <2>5 DEF P!Calloc, P!Ovfh
  <2>7. n \in 0 .. w - 1 /\ sz \in 0 .. w - 1
    BY <2>2, <2>3
  <2>8. /\ n * sz < w => res = n * sz /\ (n # 0 => res \div n = sz)
        /\ n * sz >= w => n # 0 /\ res \div n # sz
    BY <2>4, <2>7, ProductFits, Zenon
  <2>9. n * sz < w \/ n * sz >= w
    BY <2>7
  <2>10. P!NoShortBlock(n, sz)
    <3>1. n * sz >= w => ~(n * sz < w)
      BY <2>7
    <3>2. QED
      BY <2>3, <2>6, <2>8, <2>9, <3>1 DEF P!NoShortBlock
  <2>11. QED
    BY <2>2, <2>10
<1>2. QED
  BY <1>1, ArgsInvariance, PTL

-----------------------------------------------------------------------------
(***************************************************************************)
(* Loops.                                                                  *)
(***************************************************************************)
(* A set of natural numbers has a least one. *)
LEMMA LeastOf ==
  ASSUME NEW T, T \subseteq Nat, T # {}
  PROVE  \E x \in T : \A y \in T : x <= y
<1> DEFINE R == OpToRel(<, Nat)
<1>1. \A x, y \in Nat : <<y, x>> \in R <=> y < x
  BY DEF OpToRel
<1>2. IsWellFoundedOn(R, Nat)
  BY NatLessThanWellFounded
<1> HIDE DEF R
<1>3. PICK x \in T : \A y \in T : ~(<<y, x>> \in R)
  BY <1>2, WFMin
<1>4. \A y \in T : x \in Nat /\ y \in Nat /\ ~(y < x)
  BY <1>1, <1>3
<1>5. \A y \in T : x <= y
  BY <1>4
<1>6. QED
  BY <1>5

(* Two loops that begin and go on in the same way end in the same way. *)
LEMMA SameTurns ==
  ASSUME NEW n \in Nat, NEW f, NEW g,
         f[0] = g[0], \A i \in 1 .. n : f[i - 1] = g[i - 1] => f[i] = g[i]
  PROVE  f[n] = g[n]
<1> DEFINE T == {i \in 0 .. n : f[i] # g[i]}
<1>1. SUFFICES ASSUME T # {} PROVE FALSE
  OBVIOUS
<1>2. PICK x \in T : \A y \in T : x <= y
  <2>1. T \subseteq Nat
    OBVIOUS
  <2>2. QED
    BY <1>1, <2>1, LeastOf
<1>3. x \in 1 .. n
  BY <1>2
<1>4. x - 1 \in 0 .. n /\ x - 1 \notin T
  BY <1>2, <1>3
<1>5. QED
  BY <1>2, <1>3, <1>4

-----------------------------------------------------------------------------
(***************************************************************************)
(* The memory functions.                                                   *)
(***************************************************************************)
Copied(mem, dest, src, n) ==
  [a \in DOMAIN mem |-> IF a \in M!Region(dest, n) THEN mem[a - dest + src] ELSE mem[a]]

Inside(mem, d, n) == \A k \in 0 .. n - 1 : d + k \in DOMAIN mem

(* ft_memmove copies as if through a buffer. *)
LEMMA MemmoveIs ==
  ASSUME NEW mem, mem = [a \in DOMAIN mem |-> mem[a]], DOMAIN mem \subseteq Int,
         NEW dest \in Nat, NEW src \in Nat, NEW n \in Nat,
         Inside(mem, dest, n), Inside(mem, src, n)
  PROVE  M!Memmove(mem, dest, src, n) = Copied(mem, dest, src, n)
<1>1. CASE src = dest
  <2>1. M!Memmove(mem, dest, src, n) = mem
    BY <1>1 DEF M!Memmove
  <2>2. \A a \in DOMAIN mem : a - dest + src = a
    BY <1>1
  <2>3. QED
    BY <2>1, <2>2 DEF Copied
<1>2. CASE src # dest
  <2> DEFINE Index(i) == M!MoveIndex(dest, src, n, i)
             Turns(f) == [i \in 0 .. n |-> IF i = 0 THEN mem
                            ELSE [f[i - 1] EXCEPT ![dest + Index(i - 1)] = f[i - 1][src + Index(i - 1)]]]
             loop == CHOOSE f : f = Turns(f)
             Moved(i) == IF src < dest THEN dest + n - i .. dest + n - 1 ELSE dest .. dest + i - 1
             Done(i) == [a \in DOMAIN mem |-> IF a \in Moved(i) THEN mem[a - dest + src] ELSE mem[a]]
             w == [i \in 0 .. n |-> Done(i)]
  <2>1. M!Memmove(mem, dest, src, n) = loop[n]
    BY <1>2 DEF M!Memmove, M!Loop
  <2>2. Done(0) = mem
    <3>1. Moved(0) = {}
      OBVIOUS
    <3>2. QED
      BY <3>1
  <2>3. ASSUME NEW i \in 1 .. n
        PROVE  Done(i) = [Done(i - 1) EXCEPT ![dest + Index(i - 1)] = Done(i - 1)[src + Index(i - 1)]]
    <3> DEFINE k == IF src < dest THEN n - i ELSE i - 1
    <3>1. Index(i - 1) = k /\ k \in 0 .. n - 1
      BY DEF M!MoveIndex
    <3>2. dest + k \in DOMAIN mem /\ src + k \in DOMAIN mem
      BY <3>1 DEF Inside
    <3>3. \A a \in Int : a \in Moved(i) <=> a \in Moved(i - 1) \/ a = dest + k
      OBVIOUS
    <3>4. src + k \notin Moved(i - 1)
      BY <1>2
    <3>5. Done(i - 1)[src + k] = mem[src + k]
      BY <3>2, <3>4
    <3>6. (dest + k) - dest + src = src + k
      BY <3>1
    <3> HIDE DEF k
    <3>7. ASSUME NEW a \in DOMAIN mem
          PROVE  Done(i)[a] = [Done(i - 1) EXCEPT ![dest + k] = mem[src + k]][a]
      <4>1. a \in Moved(i) <=> a \in Moved(i - 1) \/ a = dest + k
        BY <3>3
      <4> HIDE DEF Moved
      <4>2. QED
        BY <3>6, <4>1
    <3>8. Done(i) = [Done(i - 1) EXCEPT ![dest + k] = mem[src + k]]
      BY <3>7
    <3>9. QED
      BY <3>1, <3>5, <3>8
  <2> HIDE DEF Done, Index
  <2>4. w = Turns(w)
    <3>1. ASSUME NEW i \in 0 .. n
          PROVE  w[i] = IF i = 0 THEN mem
                        ELSE [w[i - 1] EXCEPT ![dest + Index(i - 1)] = w[i - 1][src + Index(i - 1)]]
      <4>1. CASE i = 0
        BY <2>2, <4>1
      <4>2. CASE i # 0
        <5>1. i \in 1 .. n /\ i - 1 \in 0 .. n
          BY <4>2
        <5>2. w[i - 1] = Done(i - 1) /\ w[i] = Done(i)
          BY <5>1
        <5>3. QED
          BY <2>3, <4>2, <5>1, <5>2
      <4>3. QED
        BY <4>1, <4>2
    <3>2. QED
      BY <3>1
  <2>5. loop = Turns(loop)
    <3> HIDE DEF w, Turns
    <3>1. QED
      BY <2>4
  <2>6. loop[n] = w[n]
    <3>1. loop[0] = w[0]
      <4>1. 0 \in 0 .. n
        OBVIOUS
      <4>2. w[0] = mem
        BY <2>2, <4>1
      <4> HIDE DEF loop
      <4>3. loop[0] = mem
        BY <2>5, <4>1
      <4>4. QED
        BY <4>2, <4>3
    <3>2. ASSUME NEW i \in 1 .. n, loop[i - 1] = w[i - 1] PROVE loop[i] = w[i]
      <4>1. i \in 0 .. n /\ i # 0
        OBVIOUS
      <4> DEFINE Turn(m) == [m EXCEPT ![dest + Index(i - 1)] = m[src + Index(i - 1)]]
      <4>2. loop[i] = Turn(loop[i - 1]) /\ w[i] = Turn(w[i - 1])
        <5> HIDE DEF w, loop
        <5>1. QED
          BY <2>4, <2>5, <4>1
      <4> HIDE DEF loop, w
      <4>3. QED
        BY <3>2, <4>2
    <3> HIDE DEF loop, w, Turns
    <3>3. \A i \in 1 .. n : loop[i - 1] = w[i - 1] => loop[i] = w[i]
      BY <3>2
    <3>4. QED
      BY <3>1, <3>3, SameTurns
  <2>7. loop[n] = Done(n)
    <3>1. n \in 0 .. n
      OBVIOUS
    <3> HIDE DEF loop
    <3>2. QED
      BY <2>6, <3>1
  <2>8. Done(n) = Copied(mem, dest, src, n)
    <3>1. Moved(n) = M!Region(dest, n)
      BY DEF M!Region
    <3>2. QED
      BY <3>1 DEF Done, Copied
  <2>9. QED
    BY <2>1, <2>7, <2>8
<1>3. QED
  BY <1>1, <1>2

(* ft_memcpy does so when nothing is overwritten before it is copied. *)
LEMMA MemcpyIs ==
  ASSUME NEW mem, mem = [a \in DOMAIN mem |-> mem[a]], DOMAIN mem \subseteq Int,
         NEW dest \in Nat, NEW src \in Nat, NEW n \in Nat,
         Inside(mem, dest, n), Inside(mem, src, n),
         dest <= src \/ M!Region(dest, n) \cap M!Region(src, n) = {}
  PROVE  M!Memcpy(mem, dest, src, n) = Copied(mem, dest, src, n)
<1> DEFINE Turns(f) == [i \in 0 .. n |-> IF i = 0 THEN mem
                          ELSE [f[i - 1] EXCEPT ![dest + (i - 1)] = f[i - 1][src + (i - 1)]]]
           loop == CHOOSE f : f = Turns(f)
           Moved(i) == dest .. dest + i - 1
           Done(i) == [a \in DOMAIN mem |-> IF a \in Moved(i) THEN mem[a - dest + src] ELSE mem[a]]
           w == [i \in 0 .. n |-> Done(i)]
<1>1. M!Memcpy(mem, dest, src, n) = loop[n]
  BY DEF M!Memcpy, M!Loop
<1>2. Done(0) = mem
  <2>1. Moved(0) = {}
    OBVIOUS
  <2>2. QED
    BY <2>1
<1>3. ASSUME NEW i \in 1 .. n
      PROVE  Done(i) = [Done(i - 1) EXCEPT ![dest + (i - 1)] = Done(i - 1)[src + (i - 1)]]
  <2>1. PICK k \in 0 .. n - 1 : k = i - 1
    OBVIOUS
  <2>2. dest + k \in DOMAIN mem /\ src + k \in DOMAIN mem
    BY DEF Inside
  <2>3. \A a \in Int : a \in Moved(i) <=> a \in Moved(i - 1) \/ a = dest + k
    BY <2>1
  <2>4. src + k \notin Moved(i - 1)
    <3>1. CASE dest <= src
      BY <2>1, <3>1
    <3>2. CASE M!Region(dest, n) \cap M!Region(src, n) = {}
      <4>1. src + k \notin M!Region(dest, n)
        BY <3>2 DEF M!Region
      <4>2. Moved(i - 1) \subseteq M!Region(dest, n)
        BY DEF M!Region
      <4>3. QED
        BY <4>1, <4>2
    <3>3. QED
      BY <3>1, <3>2
  <2>5. Done(i - 1)[src + k] = mem[src + k]
    BY <2>2, <2>4
  <2>6. (dest + k) - dest + src = src + k
    OBVIOUS
  <2>7. ASSUME NEW a \in DOMAIN mem
        PROVE  Done(i)[a] = [Done(i - 1) EXCEPT ![dest + k] = mem[src + k]][a]
    <3>1. a \in Moved(i) <=> a \in Moved(i - 1) \/ a = dest + k
      BY <2>3
    <3> HIDE DEF Moved
    <3>2. QED
      BY <2>6, <3>1
  <2>8. Done(i) = [Done(i - 1) EXCEPT ![dest + k] = mem[src + k]]
    BY <2>7
  <2>9. QED
    BY <2>1, <2>5, <2>8
<1> HIDE DEF Done
<1>4. w = Turns(w)
  <2>1. ASSUME NEW i \in 0 .. n
        PROVE  w[i] = IF i = 0 THEN mem ELSE [w[i - 1] EXCEPT ![dest + (i - 1)] = w[i - 1][src + (i - 1)]]
    <3>1. CASE i = 0
      BY <1>2, <3>1
    <3>2. CASE i # 0
      <4>1. i \in 1 .. n /\ i - 1 \in 0 .. n
        BY <3>2
      <4>2. w[i - 1] = Done(i - 1) /\ w[i] = Done(i)
        BY <4>1
      <4>3. QED
        BY <1>3, <3>2, <4>1, <4>2
    <3>3. QED
      BY <3>1, <3>2
  <2>2. QED
    BY <2>1
<1>5. loop = Turns(loop)
  <2> HIDE DEF w, Turns
  <2>1. QED
    BY <1>4
<1>6. loop[n] = w[n]
  <2>1. loop[0] = w[0]
    <3>1. 0 \in 0 .. n
      OBVIOUS
    <3>2. w[0] = mem
      BY <1>2, <3>1
    <3> HIDE DEF loop
    <3>3. loop[0] = mem
      BY <1>5, <3>1
    <3>4. QED
      BY <3>2, <3>3
  <2>2. ASSUME NEW i \in 1 .. n, loop[i - 1] = w[i - 1] PROVE loop[i] = w[i]
    <3>1. i \in 0 .. n /\ i # 0
      OBVIOUS
    <3> DEFINE Turn(m) == [m EXCEPT ![dest + (i - 1)] = m[src + (i - 1)]]
    <3>2. loop[i] = Turn(loop[i - 1]) /\ w[i] = Turn(w[i - 1])
      <4> HIDE DEF w, loop
      <4>1. QED
        BY <1>4, <1>5, <3>1
    <3> HIDE DEF loop, w
    <3>3. QED
      BY <2>2, <3>2
  <2> HIDE DEF loop, w, Turns
  <2>3. \A i \in 1 .. n : loop[i - 1] = w[i - 1] => loop[i] = w[i]
    BY <2>2
  <2>4. QED
    BY <2>1, <2>3, SameTurns
<1>7. loop[n] = Done(n)
  <2>1. n \in 0 .. n
    OBVIOUS
  <2> HIDE DEF loop
  <2>2. QED
    BY <1>6, <2>1
<1>8. Done(n) = Copied(mem, dest, src, n)
  BY DEF Done, Copied, M!Region
<1>9. QED
  BY <1>1, <1>7, <1>8

(* ft_memset fills its region and changes nothing else. *)
LEMMA MemsetIs ==
  ASSUME NEW mem, mem = [a \in DOMAIN mem |-> mem[a]], DOMAIN mem \subseteq Int,
         NEW dest \in Nat, NEW n \in Nat, NEW c, Inside(mem, dest, n)
  PROVE  M!Memset(mem, dest, c, n)
           = [a \in DOMAIN mem |-> IF a \in M!Region(dest, n) THEN c ELSE mem[a]]
<1> DEFINE Turns(f) == [i \in 0 .. n |-> IF i = 0 THEN mem
                          ELSE [f[i - 1] EXCEPT ![dest + (i - 1)] = c]]
           loop == CHOOSE f : f = Turns(f)
           Filled(i) == dest .. dest + i - 1
           Done(i) == [a \in DOMAIN mem |-> IF a \in Filled(i) THEN c ELSE mem[a]]
           w == [i \in 0 .. n |-> Done(i)]
<1>1. M!Memset(mem, dest, c, n) = loop[n]
  BY DEF M!Memset, M!Loop
<1>2. Done(0) = mem
  <2>1. Filled(0) = {}
    OBVIOUS
  <2>2. QED
    BY <2>1
<1>3. ASSUME NEW i \in 1 .. n
      PROVE  Done(i) = [Done(i - 1) EXCEPT ![dest + (i - 1)] = c]
  <2>1. dest + (i - 1) \in DOMAIN mem
    BY DEF Inside
  <2>2. \A a \in Int : a \in Filled(i) <=> a \in Filled(i - 1) \/ a = dest + (i - 1)
    OBVIOUS
  <2>3. \A a \in DOMAIN mem : a \in Filled(i) <=> a \in Filled(i - 1) \/ a = dest + (i - 1)
    BY <2>2
  <2> HIDE DEF Filled
  <2>4. \A a \in DOMAIN mem : Done(i)[a] = [Done(i - 1) EXCEPT ![dest + (i - 1)] = c][a]
    BY <2>3
  <2>5. QED
    BY <2>4
<1> HIDE DEF Done
<1>4. w = Turns(w)
  <2>1. ASSUME NEW i \in 0 .. n
        PROVE  w[i] = IF i = 0 THEN mem ELSE [w[i - 1] EXCEPT ![dest + (i - 1)] = c]
    <3>1. CASE i = 0
      BY <1>2, <3>1
    <3>2. CASE i # 0
      <4>1. i \in 1 .. n /\ i - 1 \in 0 .. n
        BY <3>2
      <4>2. w[i - 1] = Done(i - 1) /\ w[i] = Done(i)
        BY <4>1
      <4>3. QED
        BY <1>3, <3>2, <4>1, <4>2
    <3>3. QED
      BY <3>1, <3>2
  <2>2. QED
    BY <2>1
<1>5. loop = Turns(loop)
  <2> HIDE DEF w, Turns
  <2>1. QED
    BY <1>4
<1>6. loop[n] = w[n]
  <2>1. loop[0] = w[0]
    <3>1. 0 \in 0 .. n
      OBVIOUS
    <3>2. w[0] = mem
      BY <1>2, <3>1
    <3> HIDE DEF loop
    <3>3. loop[0] = mem
      BY <1>5, <3>1
    <3>4. QED
      BY <3>2, <3>3
  <2>2. ASSUME NEW i \in 1 .. n, loop[i - 1] = w[i - 1] PROVE loop[i] = w[i]
    <3>1. i \in 0 .. n /\ i # 0
      OBVIOUS
    <3> DEFINE Turn(m) == [m EXCEPT ![dest + (i - 1)] = c]
    <3>2. loop[i] = Turn(loop[i - 1]) /\ w[i] = Turn(w[i - 1])
      <4> HIDE DEF w, loop
      <4>1. QED
        BY <1>4, <1>5, <3>1
    <3> HIDE DEF loop, w
    <3>3. QED
      BY <2>2, <3>2
  <2> HIDE DEF loop, w, Turns
  <2>3. \A i \in 1 .. n : loop[i - 1] = w[i - 1] => loop[i] = w[i]
    BY <2>2
  <2>4. QED
    BY <2>1, <2>3, SameTurns
<1>7. loop[n] = Done(n)
  <2>1. n \in 0 .. n
    OBVIOUS
  <2> HIDE DEF loop
  <2>2. QED
    BY <1>6, <2>1
<1>8. QED
  BY <1>1, <1>7 DEF Done, M!Region

(* The least element of a set, as Min chooses it. *)
LEMMA MinIs ==
  ASSUME NEW T, T \subseteq Nat, T # {}
  PROVE  /\ Min(T) \in T /\ \A y \in T : Min(T) <= y
         /\ M!Min(T) = Min(T) /\ S!Min(T) = Min(T) /\ S!NULL = -1 /\ M!NULL = -1
<1>1. PICK x \in T : \A y \in T : x <= y
  BY LeastOf
<1>2. Min(T) \in T /\ \A y \in T : Min(T) <= y
  BY <1>1 DEF Min
<1>3. M!Min(T) = Min(T) /\ S!Min(T) = Min(T)
  BY DEF Min, M!Min, S!Min
<1>4. QED
  BY <1>2, <1>3 DEF S!NULL, M!NULL

(* ft_memchr finds the first place, or none. *)
FirstPlace(r, mem, d, c, n) ==
  \/ r = -1 /\ \A k \in 0 .. n - 1 : mem[d + k] # c
  \/ \E x \in 0 .. n - 1 : r = d + x /\ mem[d + x] = c /\ \A k \in 0 .. x - 1 : mem[d + k] # c

LEMMA MemchrIs ==
  ASSUME NEW mem, NEW d \in Nat, NEW n \in Nat, NEW c
  PROVE  FirstPlace(M!Memchr(mem, d, c, n), mem, d, c, n)
<1> DEFINE T == {n} \cup {k \in 0 .. n - 1 : mem[d + k] = c}
<1>1. PICK x : x = Min(T)
  OBVIOUS
<1>2. x \in T /\ (\A y \in T : x <= y) /\ M!Min(T) = x /\ M!NULL = -1
  <2>1. T \subseteq Nat /\ T # {}
    OBVIOUS
  <2> HIDE DEF T
  <2>2. QED
    BY <1>1, <2>1, MinIs
<1>3. M!Memchr(mem, d, c, n) = IF x < n THEN d + x ELSE -1
  <2>1. M!Memchr(mem, d, c, n) = IF M!Min(T) < n THEN d + M!Min(T) ELSE M!NULL
    BY DEF M!Memchr, M!FirstTurn
  <2>2. QED
    BY <1>2, <2>1
<1>4. CASE x = n
  <2>1. \A k \in 0 .. n - 1 : mem[d + k] # c
    BY <1>2, <1>4
  <2>2. QED
    BY <1>3, <1>4, <2>1 DEF FirstPlace
<1>5. CASE x # n
  <2>1. x \in 0 .. n - 1 /\ mem[d + x] = c
    BY <1>2, <1>5
  <2>2. \A k \in 0 .. x - 1 : mem[d + k] # c
    BY <1>2, <2>1
  <2>3. M!Memchr(mem, d, c, n) = d + x
    BY <1>3, <2>1
  <2>4. QED
    BY <2>1, <2>2, <2>3 DEF FirstPlace
<1>6. QED
  BY <1>4, <1>5

(* ft_memcmp returns the first difference, or zero. *)
LEMMA MemcmpIs ==
  ASSUME NEW mem, NEW d \in Nat, NEW s \in Nat, NEW n \in Nat,
         \A k \in 0 .. n - 1 : mem[d + k] \in Int /\ mem[s + k] \in Int
  PROVE  /\ M!Memcmp(mem, d, s, n) \in Int
         /\ M!Memcmp(mem, d, s, n) = 0 <=> \A k \in 0 .. n - 1 : mem[d + k] = mem[s + k]
         /\ M!Memcmp(mem, d, s, n) = -M!Memcmp(mem, s, d, n)
<1> DEFINE T == {n} \cup {k \in 0 .. n - 1 : mem[d + k] # mem[s + k]}
           V == {n} \cup {k \in 0 .. n - 1 : mem[s + k] # mem[d + k]}
<1>1. PICK x : x = Min(T)
  OBVIOUS
<1>2. x \in T /\ (\A y \in T : x <= y) /\ M!Min(T) = x
  <2>1. T \subseteq Nat /\ T # {}
    OBVIOUS
  <2> HIDE DEF T
  <2>2. QED
    BY <1>1, <2>1, MinIs
<1>3. V = T
  OBVIOUS
<1>4. M!Memcmp(mem, d, s, n) = IF x < n THEN mem[d + x] - mem[s + x] ELSE 0
  <2>1. M!Memcmp(mem, d, s, n) = IF M!Min(T) < n THEN mem[d + M!Min(T)] - mem[s + M!Min(T)] ELSE 0
    BY DEF M!Memcmp, M!FirstTurn
  <2>2. QED
    BY <1>2, <2>1
<1>5. M!Memcmp(mem, s, d, n) = IF x < n THEN mem[s + x] - mem[d + x] ELSE 0
  <2>1. M!Memcmp(mem, s, d, n) = IF M!Min(V) < n THEN mem[s + M!Min(V)] - mem[d + M!Min(V)] ELSE 0
    BY DEF M!Memcmp, M!FirstTurn
  <2> HIDE DEF V, T
  <2>2. QED
    BY <1>2, <1>3, <2>1
<1>6. CASE x = n
  BY <1>2, <1>4, <1>5, <1>6
<1>7. CASE x # n
  <2>1. x \in 0 .. n - 1 /\ mem[d + x] # mem[s + x]
    BY <1>2, <1>7
  <2>2. mem[d + x] \in Int /\ mem[s + x] \in Int /\ x < n
    BY <2>1
  <2>3. M!Memcmp(mem, d, s, n) = mem[d + x] - mem[s + x] /\ M!Memcmp(mem, s, d, n) = mem[s + x] - mem[d + x]
    BY <1>4, <1>5, <2>2
  <2>4. QED
    BY <2>1, <2>2, <2>3
<1>8. QED
  BY <1>6, <1>7

(***************************************************************************)
(* For memories of any size: ft_memmove copies as if through a buffer,     *)
(* however the two regions overlap, ft_memcpy does so if they do not or    *)
(* dest is in front; and the others fill, find and compare what they are   *)
(* asked to and nothing else.                                              *)
(***************************************************************************)
THEOREM MemoryCorrect == LibftSpec => []MemoryRight
<1>1. ASSUME ArgsInv PROVE MemoryRight
  <2>1. SUFFICES ASSUME args.to = "memory"
                 PROVE  /\ M!CopiesAll(args.mem, args.dest, args.src, args.n)
                        /\ M!LooksAndFills(args.mem, args.dest, args.src, args.n, args.c)
    BY DEF MemoryRight
  <2>2. PICK mem \in Memory, d \in 0 .. Size, s \in 0 .. Size, n \in 0 .. Size, c \in Byte :
          /\ d + n <= Size /\ s + n <= Size
          /\ args = [to |-> "memory", mem |-> mem, dest |-> d, src |-> s, n |-> n, c |-> c]
    BY <1>1, <2>1 DEF ArgsInv, Arguments
  <2>3. d \in Nat /\ s \in Nat /\ n \in Nat /\ Size \in Nat /\ Byte \subseteq Int
    BY <2>2, LibftAssumption
  <2>4. mem = [a \in DOMAIN mem |-> mem[a]] /\ DOMAIN mem = 0 .. Size - 1 /\ DOMAIN mem \subseteq Int
    BY <2>2 DEF Memory
  <2>5. Inside(mem, d, n) /\ Inside(mem, s, n)
    BY <2>2, <2>3, <2>4 DEF Inside
  <2>6. \A k \in 0 .. n - 1 : mem[d + k] \in Int /\ mem[s + k] \in Int
    <3>1. \A k \in 0 .. n - 1 : d + k \in 0 .. Size - 1 /\ s + k \in 0 .. Size - 1
      BY <2>4, <2>5 DEF Inside
    <3>2. QED
      BY <2>2, <2>3, <3>1 DEF Memory
  <2>7. M!CopiesAll(mem, d, s, n)
    <3>1. M!Memmove(mem, d, s, n) = Copied(mem, d, s, n)
      BY <2>3, <2>4, <2>5, MemmoveIs
    <3>2. d <= s \/ M!Region(d, n) \cap M!Region(s, n) = {} => M!Memcpy(mem, d, s, n) = Copied(mem, d, s, n)
      BY <2>3, <2>4, <2>5, MemcpyIs
    <3>3. QED
      BY <3>1, <3>2 DEF M!CopiesAll, Copied
  <2>8. M!LooksAndFills(mem, d, s, n, c)
    <3> DEFINE at1 == M!Memchr(mem, d, c, n)
               before == IF at1 = M!NULL THEN M!Region(d, n) ELSE d .. at1 - 1
    <3>1. \A a \in DOMAIN mem :
            M!Memset(mem, d, c, n)[a] = IF a \in M!Region(d, n) THEN c ELSE mem[a]
      <4>1. M!Memset(mem, d, c, n) = [a \in DOMAIN mem |-> IF a \in M!Region(d, n) THEN c ELSE mem[a]]
        BY <2>3, <2>4, <2>5, MemsetIs
      <4>2. QED
        BY <4>1
    <3>2. M!Bzero(mem, d, n) = M!Memset(mem, d, 0, n)
      BY DEF M!Bzero, M!Memset, M!Loop
    <3>3. /\ at1 # M!NULL => at1 \in M!Region(d, n) /\ mem[at1] = c
          /\ \A a \in before : mem[a] # c
      <4>1. M!NULL = -1
        BY DEF M!NULL
      <4>2. CASE at1 = -1 /\ \A k \in 0 .. n - 1 : mem[d + k] # c
        <5>1. \A a \in M!Region(d, n) : a - d \in 0 .. n - 1 /\ a = d + (a - d)
          BY <2>3 DEF M!Region
        <5>2. before = M!Region(d, n)
          BY <4>1, <4>2
        <5> HIDE DEF before, at1
        <5>3. QED
          BY <4>1, <4>2, <5>1, <5>2
      <4>3. ASSUME NEW x \in 0 .. n - 1, at1 = d + x, mem[d + x] = c, \A k \in 0 .. x - 1 : mem[d + k] # c
            PROVE  /\ at1 # M!NULL => at1 \in M!Region(d, n) /\ mem[at1] = c
                   /\ \A a \in before : mem[a] # c
        <5>1. at1 # -1 /\ d + x \in M!Region(d, n)
          BY <2>3, <4>3 DEF M!Region
        <5>2. before = d .. d + x - 1
          BY <4>1, <4>3, <5>1
        <5>3. \A a \in d .. d + x - 1 : a - d \in 0 .. x - 1 /\ a = d + (a - d)
          BY <2>3
        <5> HIDE DEF before, at1
        <5>4. QED
          BY <4>1, <4>3, <5>1, <5>2, <5>3
      <4>4. \/ at1 = -1 /\ \A k \in 0 .. n - 1 : mem[d + k] # c
            \/ \E x \in 0 .. n - 1 : at1 = d + x /\ mem[d + x] = c /\ \A k \in 0 .. x - 1 : mem[d + k] # c
        <5>1. FirstPlace(at1, mem, d, c, n)
          BY <2>3, MemchrIs
        <5> HIDE DEF at1
        <5>2. QED
          BY <5>1 DEF FirstPlace
      <4>5. CASE \E x \in 0 .. n - 1 : at1 = d + x /\ mem[d + x] = c /\ \A k \in 0 .. x - 1 : mem[d + k] # c
        <5>1. PICK x \in 0 .. n - 1 : at1 = d + x /\ mem[d + x] = c /\ \A k \in 0 .. x - 1 : mem[d + k] # c
          BY <4>5
        <5>2. QED
          BY <5>1, <4>3
      <4> HIDE DEF at1, before
      <4>6. QED
        BY <4>2, <4>4, <4>5
    <3>4. /\ (M!Memcmp(mem, d, s, n) = 0) = (\A k \in 0 .. n - 1 : mem[d + k] = mem[s + k])
          /\ M!Memcmp(mem, d, s, n) = -M!Memcmp(mem, s, d, n)
      <4>1. /\ M!Memcmp(mem, d, s, n) = 0 <=> \A k \in 0 .. n - 1 : mem[d + k] = mem[s + k]
            /\ M!Memcmp(mem, d, s, n) = -M!Memcmp(mem, s, d, n)
        BY <2>3, <2>6, MemcmpIs
      <4>2. (M!Memcmp(mem, d, s, n) = 0) = (\A k \in 0 .. n - 1 : mem[d + k] = mem[s + k])
        BY <4>1, Zenon
      <4>3. QED
        BY <4>1, <4>2
    <3>5. QED
      BY <3>1, <3>2, <3>3, <3>4 DEF M!LooksAndFills
  <2>9. QED
    BY <2>2, <2>7, <2>8
<1>2. QED
  BY <1>1, ArgsInvariance, PTL

-----------------------------------------------------------------------------
(***************************************************************************)
(* The string functions.                                                   *)
(***************************************************************************)
Chars  == 1 .. 255
String == Seq(Chars)

(* A string is a function from its indices to bytes other than zero. *)
LEMMA StringFacts ==
  ASSUME NEW s \in String
  PROVE  /\ Len(s) \in Nat /\ DOMAIN s = 1 .. Len(s) /\ s = [i \in 1 .. Len(s) |-> s[i]]
         /\ \A i \in 1 .. Len(s) : s[i] \in Chars /\ s[i] \in Nat /\ s[i] # 0
<1>1. Len(s) \in Nat /\ s \in [1 .. Len(s) -> Chars]
  BY LenProperties DEF String
<1>2. \A c \in Chars : c \in Nat /\ c # 0
  BY DEF Chars
<1>3. QED
  BY <1>1, <1>2

(* So is whatever is one. *)
LEMMA MakesString ==
  ASSUME NEW n \in Nat, NEW s, s = [i \in 1 .. n |-> s[i]], \A i \in 1 .. n : s[i] \in Chars
  PROVE  s \in String /\ Len(s) = n
<1>1. s \in [1 .. n -> Chars]
  OBVIOUS
<1>2. s \in String
  BY <1>1, SeqDef DEF String
<1>3. QED
  BY <1>1, <1>2, LenProperties DEF String

(* Strings are equal that have the same bytes. *)
LEMMA SameString ==
  ASSUME NEW s \in String, NEW t \in String, Len(s) = Len(t), \A i \in 1 .. Len(s) : s[i] = t[i]
  PROVE  s = t
BY SeqEqual DEF String

(* The strings that are given are strings, and sequences of bytes. *)
LEMMA StringIs ==
  ASSUME NEW k \in Nat, NEW s \in Strings(k)
  PROVE  /\ s \in String /\ Len(s) \in Nat
         /\ \A i \in 1 .. Len(s) : s[i] \in StringBytes
<1>1. PICK m \in 0 .. k : s \in [1 .. m -> StringBytes]
  BY DEF Strings, BoundedSeq, SeqOf
<1>2. StringBytes \subseteq Chars
  BY LibftAssumption DEF Chars
<1>3. m \in Nat /\ s = [i \in 1 .. m |-> s[i]] /\ \A i \in 1 .. m : s[i] \in Chars
  BY <1>1, <1>2
<1>4. s \in String /\ Len(s) = m
  BY <1>3, MakesString
<1>5. QED
  BY <1>1, <1>3, <1>4

(* What C sees at an index: a byte of the string, or the zero behind it. *)
LEMMA AtIs ==
  ASSUME NEW s \in String, NEW i \in 0 .. Len(s)
  PROVE  /\ i < Len(s) => S!At(s, i) = s[i + 1] /\ s[i + 1] \in Nat /\ s[i + 1] # 0
         /\ i = Len(s) => S!At(s, i) = 0
<1>1. Len(s) \in Nat /\ \A k \in 1 .. Len(s) : s[k] \in Nat /\ s[k] # 0
  BY StringFacts
<1>2. i < Len(s) => i # Len(s) /\ i + 1 \in 1 .. Len(s)
  BY <1>1
<1>3. QED
  BY <1>1, <1>2 DEF S!At

(* ft_strlen finds the zero behind the string. *)
LEMMA StrlenIs ==
  ASSUME NEW s \in String
  PROVE  S!Strlen(s) = Len(s)
<1> DEFINE T == {a \in 0 .. Len(s) : S!At(s, a) = 0}
<1>1. Len(s) \in Nat
  BY StringFacts
<1>2. \A a \in 0 .. Len(s) : S!At(s, a) = 0 <=> a = Len(s)
  <2>1. ASSUME NEW a \in 0 .. Len(s) PROVE S!At(s, a) = 0 <=> a = Len(s)
    BY <1>1, AtIs
  <2>2. QED
    BY <2>1
<1>3. T = {Len(s)}
  BY <1>1, <1>2
<1>4. S!Strlen(s) = IF T = {} THEN S!NULL ELSE S!Min(T)
  BY DEF S!Strlen, S!Least
<1> HIDE DEF T
<1>5. S!Min(T) = Min(T) /\ Min(T) \in T
  BY <1>1, <1>3, MinIs
<1>6. QED
  BY <1>3, <1>4, <1>5

(* ft_strdup copies the string. *)
LEMMA StrdupIs ==
  ASSUME NEW s \in String
  PROVE  S!Strdup(s) = s
<1>1. Len(s) \in Nat /\ s = [i \in 1 .. Len(s) |-> s[i]]
  BY StringFacts
<1>2. \A i \in 1 .. Len(s) : S!At(s, i - 1) = s[i]
  <2>1. ASSUME NEW i \in 1 .. Len(s) PROVE S!At(s, i - 1) = s[i]
    <3>1. i - 1 \in 0 .. Len(s) /\ i - 1 < Len(s) /\ (i - 1) + 1 = i
      BY <1>1
    <3>2. QED
      BY <3>1, AtIs
  <2>2. QED
    BY <2>1
<1>3. S!Strdup(s) = [i \in 1 .. Len(s) |-> S!At(s, i - 1)]
  BY StrlenIs DEF S!Strdup
<1>4. QED
  BY <1>1, <1>2, <1>3

(* The lesser of two numbers. *)
LEMMA MinOfTwo ==
  ASSUME NEW a \in Nat, NEW b \in Nat
  PROVE  Min({a, b}) = (IF a < b THEN a ELSE b) /\ S!Min({a, b}) = Min({a, b})
<1>1. {a, b} \subseteq Nat /\ {a, b} # {}
  OBVIOUS
<1>2. Min({a, b}) \in {a, b} /\ Min({a, b}) <= a /\ Min({a, b}) <= b /\ S!Min({a, b}) = Min({a, b})
  BY <1>1, MinIs
<1>3. QED
  BY <1>2

(* The bytes of s from start on, at most len of them. *)
Piece(s, start, len) ==
  LET kept == IF Len(s) < start THEN 0 ELSE IF Len(s) - start < len THEN Len(s) - start ELSE len
  IN  [i \in 1 .. kept |-> s[start + i]]

LEMMA SubstrIs ==
  ASSUME NEW s \in String, NEW start \in Nat, NEW len \in Nat
  PROVE  S!Substr(s, start, len) = [str |-> Piece(s, start, len), size |-> Len(Piece(s, start, len)) + 1]
<1>1. Len(s) \in Nat /\ S!Strlen(s) = Len(s)
  BY StrlenIs, StringFacts
<1>2. PICK rest : rest = Len(s) - start
  OBVIOUS
<1>3. rest \in Int
  BY <1>1, <1>2
<1>4. CASE rest < 0
  <2>1. S!Substr(s, start, len) = [str |-> << >>, size |-> 1]
    BY <1>1, <1>2, <1>4 DEF S!Substr
  <2>2. Piece(s, start, len) = << >>
    BY <1>1, <1>2, <1>4 DEF Piece
  <2>3. QED
    BY <2>1, <2>2
<1>5. CASE rest >= 0
  <2>1. PICK kept \in Nat : kept = IF rest < len THEN rest ELSE len
    BY <1>3, <1>5
  <2>2. S!Min({rest, len}) = kept
    BY <1>3, <1>5, <2>1, MinOfTwo
  <2>3. S!Substr(s, start, len) =
          [str |-> [i \in 1 .. kept |-> S!At(s, start + i - 1)], size |-> kept + 1]
    <3>1. S!SubstrSize(rest, len) = kept + 1
      BY <2>1 DEF S!SubstrSize
    <3>2. ~(rest < 0)
      BY <1>3, <1>5
    <3>3. QED
      BY <1>1, <1>2, <2>2, <3>1, <3>2 DEF S!Substr
  <2>4. \A i \in 1 .. kept : S!At(s, start + i - 1) = s[start + i]
    <3>1. ASSUME NEW i \in 1 .. kept PROVE S!At(s, start + i - 1) = s[start + i]
      <4>1. start + i - 1 \in 0 .. Len(s) /\ start + i - 1 < Len(s) /\ (start + i - 1) + 1 = start + i
        BY <1>1, <1>2, <2>1
      <4>2. QED
        BY <4>1, AtIs
    <3>2. QED
      BY <3>1
  <2>5. Piece(s, start, len) = [i \in 1 .. kept |-> s[start + i]]
    BY <1>1, <1>2, <1>5, <2>1 DEF Piece
  <2>6. [i \in 1 .. kept |-> S!At(s, start + i - 1)] = Piece(s, start, len)
    BY <2>4, <2>5
  <2>7. Len(Piece(s, start, len)) = kept
    BY <2>5
  <2>8. QED
    BY <2>3, <2>6, <2>7
<1>6. QED
  BY <1>3, <1>4, <1>5

(* A string cut at any place is the two pieces. *)
LEMMA CutIs ==
  ASSUME NEW s \in String, NEW n \in Nat
  PROVE  Piece(s, 0, n) \o Piece(s, n, Len(s)) = s
<1>1. Len(s) \in Nat /\ s = [i \in 1 .. Len(s) |-> s[i]] /\ \A i \in 1 .. Len(s) : s[i] \in Chars
  BY StringFacts
<1>2. PICK k \in 0 .. Len(s) : k = IF n < Len(s) THEN n ELSE Len(s)
  BY <1>1
<1>3. Piece(s, 0, n) = [i \in 1 .. k |-> s[i]]
  BY <1>1, <1>2 DEF Piece
<1>4. Piece(s, n, Len(s)) = [i \in 1 .. Len(s) - k |-> s[k + i]]
  <2>1. CASE n < Len(s)
    BY <1>1, <1>2, <2>1 DEF Piece
  <2>2. CASE ~(n < Len(s))
    <3>1. k = Len(s) /\ 1 .. Len(s) - k = {}
      BY <1>1, <1>2, <2>2
    <3>2. Piece(s, n, Len(s)) = [i \in {} |-> s[n + i]]
      <4>1. (IF Len(s) < n THEN 0 ELSE IF Len(s) - n < Len(s) THEN Len(s) - n ELSE Len(s)) = 0
        BY <1>1, <2>2
      <4>2. 1 .. 0 = {}
        OBVIOUS
      <4>3. QED
        BY <4>1, <4>2 DEF Piece
    <3>3. QED
      BY <3>1, <3>2
  <2>3. QED
    BY <2>1, <2>2
<1> DEFINE a == [i \in 1 .. k |-> s[i]]
           b == [i \in 1 .. Len(s) - k |-> s[k + i]]
<1>5. a \in String /\ b \in String /\ Len(a) = k /\ Len(b) = Len(s) - k
  <2>1. k \in Nat /\ a = [i \in 1 .. k |-> a[i]] /\ \A i \in 1 .. k : a[i] \in Chars
    BY <1>1
  <2>2. Len(s) - k \in Nat /\ b = [i \in 1 .. Len(s) - k |-> b[i]] /\ \A i \in 1 .. Len(s) - k : b[i] \in Chars
    BY <1>1
  <2> HIDE DEF a, b
  <2>3. a \in String /\ Len(a) = k
    BY <2>1, MakesString
  <2>4. b \in String /\ Len(b) = Len(s) - k
    BY <2>2, MakesString
  <2>5. QED
    BY <2>3, <2>4
<1> DEFINE w == a \o b
<1>6. w \in String /\ Len(w) = Len(s)
     /\ \A i \in 1 .. Len(s) : w[i] = IF i <= k THEN a[i] ELSE b[i - k]
  BY <1>1, <1>5, ConcatProperties DEF String
<1>7. \A i \in 1 .. Len(s) : w[i] = s[i]
  BY <1>1, <1>6
<1> HIDE DEF w, a, b
<1>8. w = s
  BY <1>6, <1>7, SameString
<1>9. QED
  BY <1>3, <1>4, <1>8 DEF w, a, b

(***************************************************************************)
(* For strings of any length and any place to cut: the two pieces that     *)
(* ft_substr makes are joined to the old string by ft_strjoin, and each    *)
(* block is just as large as its piece needs.                              *)
(***************************************************************************)
THEOREM CutAndJoinCorrect == LibftSpec => []CutAndJoin
<1>1. ASSUME ArgsInv PROVE CutAndJoin
  <2>1. SUFFICES ASSUME args.to = "strings" PROVE S!CutAndJoin(args.s, args.t, args.n)
    BY DEF CutAndJoin
  <2>2. PICK s \in Strings(MaxString), t \in Strings(MaxString - 1), n \in 0 .. MaxString + 2 :
          args = [to |-> "strings", s |-> s, t |-> t, n |-> n]
    BY <1>1, <2>1 DEF ArgsInv, Arguments
  <2>3. s \in String /\ t \in String /\ n \in Nat /\ Len(s) \in Nat /\ Len(t) \in Nat
    BY <2>2, StringIs, LibftAssumption
  <2>4. S!Strjoin(S!Substr(s, 0, n).str, S!Substr(s, n, Len(s)).str) = S!Strdup(s)
    <3>1. S!Substr(s, 0, n).str = Piece(s, 0, n) /\ S!Substr(s, n, Len(s)).str = Piece(s, n, Len(s))
      <4>1. \A start, len \in Nat : S!Substr(s, start, len).str = Piece(s, start, len)
        <5>1. ASSUME NEW start \in Nat, NEW len \in Nat PROVE S!Substr(s, start, len).str = Piece(s, start, len)
          <6>1. S!Substr(s, start, len) = [str |-> Piece(s, start, len), size |-> Len(Piece(s, start, len)) + 1]
            BY <2>3, SubstrIs
          <6>2. QED
            BY <6>1
        <5>2. QED
          BY <5>1
      <4>2. 0 \in Nat
        OBVIOUS
      <4>3. QED
        BY <2>3, <4>1, <4>2
    <3>2. Piece(s, 0, n) \o Piece(s, n, Len(s)) = s /\ S!Strdup(s) = s
      BY <2>3, CutIs, StrdupIs
    <3>3. QED
      BY <3>1, <3>2 DEF S!Strjoin
  <2>5. \A start, len \in Nat : S!Substr(s, start, len).size = Len(S!Substr(s, start, len).str) + 1
    <3>1. ASSUME NEW start \in Nat, NEW len \in Nat
          PROVE  S!Substr(s, start, len).size = Len(S!Substr(s, start, len).str) + 1
      <4>1. S!Substr(s, start, len) = [str |-> Piece(s, start, len), size |-> Len(Piece(s, start, len)) + 1]
        BY <2>3, SubstrIs
      <4>2. QED
        BY <4>1
    <3>2. QED
      BY <3>1
  <2>6. S!CutAndJoin(s, t, n)
    BY <2>3, <2>4, <2>5 DEF S!CutAndJoin
  <2>7. QED
    BY <2>2, <2>6
<1>2. QED
  BY <1>1, ArgsInvariance, PTL
-----------------------------------------------------------------------------
(* The least of a set, or none; the greatest. *)
LEMMA LeastIs ==
  ASSUME NEW T, T \subseteq Nat, NEW none
  PROVE  /\ T = {} => S!Least(T, none) = none
         /\ T # {} => S!Least(T, none) \in T /\ \A y \in T : S!Least(T, none) <= y
         /\ \A x \in T : (\A y \in T : x <= y) => S!Least(T, none) = x
<1>1. T = {} => S!Least(T, none) = none
  BY DEF S!Least
<1>2. ASSUME T # {} PROVE S!Least(T, none) \in T /\ \A y \in T : S!Least(T, none) <= y
  <2>1. S!Least(T, none) = Min(T)
    BY <1>2, MinIs DEF S!Least
  <2>2. QED
    BY <1>2, <2>1, MinIs
<1>3. ASSUME NEW x \in T, \A y \in T : x <= y PROVE S!Least(T, none) = x
  <2>1. PICK z : z = S!Least(T, none)
    OBVIOUS
  <2>2. z \in T /\ z <= x /\ x <= z /\ x \in Nat /\ z \in Nat
    BY <1>2, <1>3, <2>1
  <2>3. z = x
    BY <2>2
  <2>4. QED
    BY <2>1, <2>3
<1>4. QED
  BY <1>1, <1>2, <1>3

LEMMA MaxIs ==
  ASSUME NEW n \in Nat, NEW T \in SUBSET (0 .. n), T # {}
  PROVE  S!Max(T) \in T /\ \A y \in T : y <= S!Max(T)
<1>1. PICK U : U = {n - y : y \in T}
  OBVIOUS
<1>2. U \subseteq Nat /\ U # {}
  <2>1. \A y \in T : y \in 0 .. n /\ n - y \in Nat
    OBVIOUS
  <2>2. \A v \in U : \E y \in T : v = n - y
    BY <1>1
  <2>3. \A v \in U : v \in Nat
    BY <2>1, <2>2
  <2>4. PICK y \in T : TRUE
    OBVIOUS
  <2>5. n - y \in U
    BY <1>1, <2>4
  <2>6. QED
    BY <2>3, <2>5
<1>3. PICK u \in U : \A v \in U : u <= v
  BY <1>2, LeastOf
<1>4. PICK x \in T : u = n - x
  BY <1>1, <1>3
<1>5. ASSUME NEW y \in T PROVE y <= x
  <2>1. n - y \in U
    BY <1>1
  <2>2. n - x <= n - y /\ x \in Nat /\ y \in Nat
    BY <1>3, <1>4, <2>1
  <2>3. QED
    BY <2>2
<1>6. S!Max(T) = CHOOSE z \in T : \A y \in T : z >= y
  BY DEF S!Max
<1>7. x >= x /\ \A y \in T : x >= y
  BY <1>5
<1>8. S!Max(T) \in T /\ \A y \in T : S!Max(T) >= y
  BY <1>6, <1>7
<1>9. QED
  BY <1>8

-----------------------------------------------------------------------------
(* ft_strncmp: where the strings differ, or end, or n bytes are compared. *)
Stops(k, s, t, n) ==
  /\ k \in 0 .. n /\ k <= Len(s) /\ k <= Len(t)
  /\ \A i \in 1 .. k : s[i] = t[i]
  /\ k < n => S!At(s, k) # S!At(t, k) \/ S!At(s, k) = 0

LEMMA StrncmpIs ==
  ASSUME NEW s \in String, NEW t \in String, NEW n \in Nat
  PROVE  \E k : /\ Stops(k, s, t, n)
                /\ S!Strncmp(s, t, n) = IF k = n THEN 0 ELSE S!At(s, k) - S!At(t, k)
                /\ S!Strncmp(t, s, n) = IF k = n THEN 0 ELSE S!At(t, k) - S!At(s, k)
<1> DEFINE Ends(x, y) == {i \in 0 .. Len(x) : i <= Len(y) /\ (S!At(x, i) # S!At(y, i) \/ S!At(x, i) = 0)}
<1>1. Len(s) \in Nat /\ Len(t) \in Nat
  BY StringFacts
<1>2. Ends(s, t) = Ends(t, s)
  BY <1>1
<1>3. PICK m \in Nat : m = IF Len(s) < Len(t) THEN Len(s) ELSE Len(t)
  BY <1>1
<1>4. m \in Ends(s, t)
  <2>1. CASE Len(s) < Len(t)
    <3>1. S!At(s, m) = 0
      BY <1>1, <1>3, <2>1, AtIs
    <3>2. QED
      BY <1>1, <1>3, <2>1, <3>1
  <2>2. CASE ~(Len(s) < Len(t))
    <3>1. S!At(t, m) = 0 /\ m <= Len(s) /\ m <= Len(t)
      BY <1>1, <1>3, <2>2, AtIs
    <3>2. QED
      BY <1>1, <1>3, <3>1
  <2>3. QED
    BY <2>1, <2>2
<1>5. PICK T : T = {n} \cup Ends(s, t)
  OBVIOUS
<1>6. T \subseteq Nat /\ T # {}
  BY <1>1, <1>5
<1>7. PICK k : k = S!Min(T)
  OBVIOUS
<1>8. k \in T /\ \A y \in T : k <= y
  BY <1>6, <1>7, MinIs
<1>9. k \in Nat /\ k <= n /\ k <= m /\ n \in T
  BY <1>4, <1>5, <1>6, <1>8
<1>10. \A i \in 1 .. k : s[i] = t[i]
  <2>1. ASSUME NEW i \in 1 .. k PROVE s[i] = t[i]
    <3>1. i - 1 \notin T /\ i - 1 \in 0 .. Len(s) /\ i - 1 < Len(s) /\ i - 1 < Len(t) /\ i - 1 \in 0 .. Len(t)
          /\ (i - 1) + 1 = i
      BY <1>1, <1>3, <1>8, <1>9
    <3>2. S!At(s, i - 1) = S!At(t, i - 1)
      BY <1>5, <3>1
    <3>3. QED
      BY <3>1, <3>2, AtIs
  <2>2. QED
    BY <2>1
<1>11. k < n => S!At(s, k) # S!At(t, k) \/ S!At(s, k) = 0
  BY <1>5, <1>8, <1>9
<1>12. Stops(k, s, t, n)
  BY <1>1, <1>3, <1>9, <1>10, <1>11 DEF Stops
<1>13. S!Strncmp(s, t, n) = IF k = n THEN 0 ELSE S!At(s, k) - S!At(t, k)
  BY <1>5, <1>7 DEF S!Strncmp
<1>14. S!Strncmp(t, s, n) = IF k = n THEN 0 ELSE S!At(t, k) - S!At(s, k)
  <2>1. S!Min({n} \cup Ends(t, s)) = k
    BY <1>2, <1>5, <1>7
  <2>2. QED
    BY <2>1 DEF S!Strncmp
<1>15. QED
  BY <1>12, <1>13, <1>14

(* A part of a sequence. *)
LEMMA SubSeqIs ==
  ASSUME NEW U, NEW s \in Seq(U), NEW m \in Nat \ {0}, NEW n \in Nat, m - 1 <= n, n <= Len(s)
  PROVE  /\ SubSeq(s, m, n) \in Seq(U)
         /\ Len(SubSeq(s, m, n)) = n - m + 1
         /\ \A i \in 1 .. n - m + 1 : SubSeq(s, m, n)[i] = s[m + i - 1]
<1>1. Len(s) \in Nat /\ \A i \in 1 .. Len(s) : s[i] \in U
  OBVIOUS
<1>2. \A i \in m .. n : s[i] \in U
  <2>1. \A i \in m .. n : i \in 1 .. Len(s)
    BY <1>1
  <2>2. QED
    BY <1>1, <2>1
<1>3. m \in Int /\ n \in Int
  OBVIOUS
<1>4. /\ SubSeq(s, m, n) \in Seq(U)
      /\ Len(SubSeq(s, m, n)) = IF m <= n THEN n - m + 1 ELSE 0
      /\ \A i \in 1 .. n - m + 1 : SubSeq(s, m, n)[i] = s[m + i - 1]
  BY <1>2, <1>3, SubSeqProperties
<1>5. (IF m <= n THEN n - m + 1 ELSE 0) = n - m + 1
  BY <1>3
<1>6. QED
  BY <1>4, <1>5

(* The first n bytes of a string, or all of it. *)
First(s, n) == SubSeq(s, 1, S!Min({n, Len(s)}))

LEMMA FirstIs ==
  ASSUME NEW s \in String, NEW n \in Nat
  PROVE  /\ First(s, n) \in String
         /\ Len(First(s, n)) = IF n < Len(s) THEN n ELSE Len(s)
         /\ \A i \in 1 .. Len(First(s, n)) : First(s, n)[i] = s[i] /\ s[i] \in Nat
<1>1. Len(s) \in Nat /\ \A i \in 1 .. Len(s) : s[i] \in Nat
  BY StringFacts
<1>2. PICK m : m = S!Min({n, Len(s)})
  OBVIOUS
<1>3. m = IF n < Len(s) THEN n ELSE Len(s)
  BY <1>1, <1>2, MinOfTwo
<1>4. m \in Nat /\ m <= Len(s) /\ 1 \in Nat \ {0} /\ 1 - 1 <= m
  BY <1>1, <1>3
<1>5. PICK p : p = SubSeq(s, 1, m)
  OBVIOUS
<1>6. p \in Seq(Chars) /\ Len(p) = m - 1 + 1 /\ \A i \in 1 .. m - 1 + 1 : p[i] = s[1 + i - 1]
  BY <1>4, <1>5, SubSeqIs DEF String
<1>7. p \in String /\ Len(p) = m
  BY <1>4, <1>6 DEF String
<1>8. \A i \in 1 .. m : i \in 1 .. Len(s) /\ i \in 1 .. m - 1 + 1 /\ 1 + i - 1 = i
  BY <1>1, <1>4
<1>9. \A i \in 1 .. m : p[i] = s[i] /\ s[i] \in Nat
  BY <1>1, <1>6, <1>8
<1>10. First(s, n) = p
  BY <1>2, <1>5 DEF First
<1>11. QED
  BY <1>3, <1>7, <1>9, <1>10

(* One string before another, at their first difference k. *)
Less(p, q) ==
  \/ S!IsStrictPrefix(p, q)
  \/ \E i \in DOMAIN p \cap DOMAIN q : p[i] < q[i] /\ \A j \in 1 .. i - 1 : p[j] = q[j]

LEMMA LessIs ==
  ASSUME NEW p \in String, NEW q \in String, NEW k \in Nat, k <= Len(p), k <= Len(q),
         \A i \in 1 .. k : p[i] = q[i]
  PROVE  /\ k < Len(p) /\ k < Len(q) /\ p[k + 1] # q[k + 1] => p # q /\ (Less(p, q) <=> p[k + 1] < q[k + 1])
         /\ k = Len(p) /\ k < Len(q) => p # q /\ Less(p, q)
         /\ k < Len(p) /\ k = Len(q) => p # q /\ ~Less(p, q)
         /\ k = Len(p) /\ k = Len(q) => p = q /\ ~Less(p, q)
<1>1. /\ Len(p) \in Nat /\ Len(q) \in Nat /\ DOMAIN p = 1 .. Len(p) /\ DOMAIN q = 1 .. Len(q)
      /\ \A i \in 1 .. Len(p) : p[i] \in Nat
      /\ \A i \in 1 .. Len(q) : q[i] \in Nat
  BY StringFacts
<1>2. \A i \in 1 .. k : ~(p[i] < q[i])
  <2>1. \A i \in 1 .. k : i \in 1 .. Len(p) /\ i \in 1 .. Len(q)
    BY <1>1
  <2>2. QED
    BY <1>1, <2>1
<1>3. ASSUME k < Len(p), k < Len(q), p[k + 1] # q[k + 1]
      PROVE  p # q /\ (Less(p, q) <=> p[k + 1] < q[k + 1])
  <2>1. k + 1 \in 1 .. Len(p) /\ k + 1 \in 1 .. Len(q) /\ p[k + 1] \in Nat /\ q[k + 1] \in Nat
    BY <1>1, <1>3
  <2>2. ~S!IsPrefix(p, q)
    <3>1. SUFFICES ASSUME Len(p) <= Len(q), SubSeq(p, 1, Len(p)) = SubSeq(q, 1, Len(p)) PROVE FALSE
      BY DEF S!IsPrefix
    <3>2. p \in Seq(Chars) /\ q \in Seq(Chars) /\ 1 \in Nat \ {0} /\ 1 - 1 <= Len(p) /\ Len(p) <= Len(p)
      BY <1>1 DEF String
    <3>3. \A i \in 1 .. Len(p) - 1 + 1 : SubSeq(p, 1, Len(p))[i] = p[1 + i - 1]
      BY <1>1, <3>2, SubSeqIs
    <3>4. \A i \in 1 .. Len(p) - 1 + 1 : SubSeq(q, 1, Len(p))[i] = q[1 + i - 1]
      BY <1>1, <3>1, <3>2, SubSeqIs
    <3>5. k + 1 \in 1 .. Len(p) - 1 + 1 /\ 1 + (k + 1) - 1 = k + 1
      BY <1>1, <2>1
    <3>6. QED
      BY <1>3, <3>1, <3>3, <3>4, <3>5
  <2>3. ~S!IsStrictPrefix(p, q)
    BY <2>2 DEF S!IsStrictPrefix
  <2>4. ASSUME p[k + 1] < q[k + 1] PROVE Less(p, q)
    <3>1. k + 1 \in DOMAIN p \cap DOMAIN q /\ (k + 1) - 1 = k
      BY <1>1, <2>1
    <3>2. \A j \in 1 .. (k + 1) - 1 : p[j] = q[j]
      BY <3>1
    <3>3. QED
      BY <2>4, <3>1, <3>2 DEF Less
  <2>5. ASSUME Less(p, q) PROVE p[k + 1] < q[k + 1]
    <3>1. PICK i \in DOMAIN p \cap DOMAIN q : p[i] < q[i] /\ \A j \in 1 .. i - 1 : p[j] = q[j]
      BY <2>3, <2>5 DEF Less
    <3>2. i \in Nat /\ i >= 1 /\ i \notin 1 .. k
      BY <1>1, <1>2, <3>1
    <3>3. k + 1 \notin 1 .. i - 1
      BY <1>3, <3>1
    <3>4. i = k + 1
      BY <3>2, <3>3
    <3>5. QED
      BY <3>1, <3>4
  <2>6. QED
    BY <1>3, <2>4, <2>5
<1>4. ASSUME k = Len(p)
      PROVE  /\ k < Len(q) => p # q /\ Less(p, q)
             /\ k = Len(q) => p = q /\ ~Less(p, q)
  <2>1. k = Len(p)
    BY <1>4
  <2>2. ~\E i \in DOMAIN p \cap DOMAIN q : p[i] < q[i] /\ \A j \in 1 .. i - 1 : p[j] = q[j]
    BY <1>1, <1>2, <2>1
  <2>3. ASSUME k = Len(q) PROVE p = q /\ ~Less(p, q)
    <3>1. p = q
      BY <2>1, <2>3, SameString
    <3>2. ~S!IsStrictPrefix(p, q)
      BY <3>1 DEF S!IsStrictPrefix
    <3>3. ~Less(p, q)
      BY <2>2, <3>2 DEF Less
    <3>4. QED
      BY <3>1, <3>3
  <2>4. ASSUME k < Len(q) PROVE p # q /\ Less(p, q)
    <3>1. p # q
      BY <1>1, <2>1, <2>4
    <3>2. p \in Seq(Chars) /\ q \in Seq(Chars) /\ 1 \in Nat \ {0} /\ 1 - 1 <= k /\ k <= Len(p) /\ k <= Len(q)
      BY <1>1 DEF String
    <3>3. PICK x : x = SubSeq(p, 1, k)
      OBVIOUS
    <3>4. PICK y : y = SubSeq(q, 1, k)
      OBVIOUS
    <3>5. x \in Seq(Chars) /\ Len(x) = k - 1 + 1 /\ \A i \in 1 .. k - 1 + 1 : x[i] = p[1 + i - 1]
      BY <3>2, <3>3, SubSeqIs
    <3>6. y \in Seq(Chars) /\ Len(y) = k - 1 + 1 /\ \A i \in 1 .. k - 1 + 1 : y[i] = q[1 + i - 1]
      BY <3>2, <3>4, SubSeqIs
    <3>7. \A i \in 1 .. Len(x) : x[i] = y[i]
      <4>1. \A i \in 1 .. Len(x) : i \in 1 .. k /\ i \in 1 .. k - 1 + 1 /\ 1 + i - 1 = i
        BY <3>5
      <4>2. QED
        BY <3>5, <3>6, <4>1
    <3>8. x = y
      BY <3>5, <3>6, <3>7, SameString DEF String
    <3>9. S!IsPrefix(p, q)
      BY <1>1, <2>1, <3>2, <3>3, <3>4, <3>8 DEF S!IsPrefix
    <3>10. Less(p, q)
      BY <3>1, <3>9 DEF S!IsStrictPrefix, Less
    <3>11. QED
      BY <3>1, <3>10
  <2>5. QED
    BY <2>3, <2>4
<1>5. ASSUME k < Len(p), k = Len(q) PROVE p # q /\ ~Less(p, q)
  <2>1. k = Len(q)
    BY <1>5
  <2>2. ~\E i \in DOMAIN p \cap DOMAIN q : p[i] < q[i] /\ \A j \in 1 .. i - 1 : p[j] = q[j]
    BY <1>1, <1>2, <2>1
  <2>3. ~(Len(p) <= Len(q))
    BY <1>1, <1>5, <2>1
  <2>4. ~S!IsStrictPrefix(p, q)
    BY <2>3 DEF S!IsStrictPrefix, S!IsPrefix
  <2>5. ~Less(p, q) /\ p # q
    BY <1>1, <2>2, <2>3, <2>4 DEF Less
  <2>6. QED
    BY <2>5
<1>6. QED
  BY <1>3, <1>4, <1>5

LEMMA NoSign ==
  ASSUME NEW d, NEW e, d = 0, e = 0
  PROVE  d \in Int /\ d = -e /\ d = 0 /\ ~(d < 0)
<1>1. \A x, y \in Int : x + y = 0 => x = -y
  OBVIOUS
<1>2. d \in Int /\ e \in Int /\ d + e = 0 /\ ~(d < 0)
  OBVIOUS
<1>3. QED
  BY <1>1, <1>2

(* ft_strncmp is that order on the first n bytes. *)
LEMMA CompareIs ==
  ASSUME NEW s \in String, NEW t \in String, NEW n \in Nat
  PROVE  S!CompareIsOrder(s, t, n)
<1>1. PICK p, q : p = First(s, n) /\ q = First(t, n)
  OBVIOUS
<1>2. PICK a, b : a = Len(s) /\ b = Len(t) /\ a \in Nat /\ b \in Nat
  BY StringFacts
<1>3. /\ p \in String /\ Len(p) = (IF n < a THEN n ELSE a) /\ \A i \in 1 .. Len(p) : p[i] = s[i] /\ s[i] \in Nat
      /\ q \in String /\ Len(q) = (IF n < b THEN n ELSE b) /\ \A i \in 1 .. Len(q) : q[i] = t[i] /\ t[i] \in Nat
  BY <1>1, <1>2, FirstIs
<1>4. PICK k : /\ Stops(k, s, t, n)
               /\ S!Strncmp(s, t, n) = IF k = n THEN 0 ELSE S!At(s, k) - S!At(t, k)
               /\ S!Strncmp(t, s, n) = IF k = n THEN 0 ELSE S!At(t, k) - S!At(s, k)
  BY StrncmpIs
<1>5. k \in Nat /\ k <= n /\ k <= a /\ k <= b /\ k <= Len(p) /\ k <= Len(q)
  BY <1>2, <1>3, <1>4 DEF Stops
<1>6. \A i \in 1 .. k : p[i] = q[i]
  <2>1. \A i \in 1 .. k : i \in 1 .. Len(p) /\ i \in 1 .. Len(q)
    BY <1>2, <1>3, <1>5
  <2>2. QED
    BY <1>3, <1>4, <2>1 DEF Stops
<1>7. /\ k < Len(p) /\ k < Len(q) /\ p[k + 1] # q[k + 1] => p # q /\ (Less(p, q) <=> p[k + 1] < q[k + 1])
      /\ k = Len(p) /\ k < Len(q) => p # q /\ Less(p, q)
      /\ k < Len(p) /\ k = Len(q) => p # q /\ ~Less(p, q)
      /\ k = Len(p) /\ k = Len(q) => p = q /\ ~Less(p, q)
  BY <1>3, <1>5, <1>6, LessIs
<1>8. PICK d, e : d = S!Strncmp(s, t, n) /\ e = S!Strncmp(t, s, n)
  OBVIOUS
<1> DEFINE Agrees == d \in Int /\ d = -e /\ (d = 0 <=> p = q) /\ (d < 0 <=> Less(p, q))
<1> HIDE DEF Agrees
<1>9. Agrees
  <2>1. CASE k = n
    <3>1. d = 0 /\ e = 0
      BY <1>4, <1>8, <2>1
    <3>2. k = Len(p) /\ k = Len(q)
      BY <1>2, <1>3, <1>5, <2>1
    <3>3. p = q /\ ~Less(p, q)
      BY <1>7, <3>2
    <3>4. d \in Int /\ d = -e /\ d = 0 /\ ~(d < 0)
      BY <3>1, NoSign
    <3>5. QED
      BY <3>3, <3>4, Zenon DEF Agrees
  <2>2. CASE k < n
    <3>1. PICK x, y : x = S!At(s, k) /\ y = S!At(t, k)
      OBVIOUS
    <3>2. k \in 0 .. Len(s) /\ k \in 0 .. Len(t)
      BY <1>2, <1>5
    <3>3. k < a => x = s[k + 1] /\ s[k + 1] \in Nat /\ x # 0
      BY <1>2, <3>1, <3>2, AtIs
    <3>4. k < b => y = t[k + 1] /\ t[k + 1] \in Nat /\ y # 0
      BY <1>2, <3>1, <3>2, AtIs
    <3>5. (k = a => x = 0) /\ (k = b => y = 0)
      BY <1>2, <3>1, <3>2, AtIs
    <3>6. x \in Nat /\ y \in Nat
      BY <1>2, <1>5, <3>3, <3>4, <3>5
    <3>7. d = x - y /\ e = y - x
      BY <1>4, <1>5, <1>8, <2>2, <3>1
    <3>8. x # y \/ x = 0
      BY <1>4, <2>2, <3>1 DEF Stops
    <3>9. CASE k < a /\ k < b
      <4>1. k < Len(p) /\ k < Len(q) /\ k + 1 \in 1 .. Len(p) /\ k + 1 \in 1 .. Len(q)
        BY <1>2, <1>3, <1>5, <2>2, <3>9
      <4>2. p[k + 1] = x /\ q[k + 1] = y /\ x # y
        BY <1>3, <3>3, <3>4, <3>8, <3>9, <4>1
      <4>3. p # q /\ (Less(p, q) <=> x < y)
        BY <1>7, <4>1, <4>2
      <4>4. QED
        BY <3>6, <3>7, <4>2, <4>3 DEF Agrees
    <3>10. CASE k = a /\ k < b
      <4>1. k = Len(p) /\ k < Len(q)
        BY <1>2, <1>3, <1>5, <2>2, <3>10
      <4>2. x = 0 /\ y # 0
        BY <3>4, <3>5, <3>10
      <4>3. p # q /\ Less(p, q)
        BY <1>7, <4>1
      <4>4. QED
        BY <3>6, <3>7, <4>2, <4>3 DEF Agrees
    <3>11. CASE k < a /\ k = b
      <4>1. k < Len(p) /\ k = Len(q)
        BY <1>2, <1>3, <1>5, <2>2, <3>11
      <4>2. x # 0 /\ y = 0
        BY <3>3, <3>5, <3>11
      <4>3. p # q /\ ~Less(p, q)
        BY <1>7, <4>1
      <4>4. QED
        BY <3>6, <3>7, <4>2, <4>3 DEF Agrees
    <3>12. CASE k = a /\ k = b
      <4>1. k = Len(p) /\ k = Len(q)
        BY <1>2, <1>3, <1>5, <2>2, <3>12
      <4>2. x = 0 /\ y = 0
        BY <3>5, <3>12
      <4>3. p = q /\ ~Less(p, q)
        BY <1>7, <4>1
      <4>4. d = 0 /\ e = 0
        BY <3>7, <4>2
      <4>5. d \in Int /\ d = -e /\ d = 0 /\ ~(d < 0)
        BY <4>4, NoSign
      <4>6. QED
        BY <4>3, <4>5, Zenon DEF Agrees
    <3>13. QED
      BY <1>2, <1>5, <3>9, <3>10, <3>11, <3>12
  <2>3. QED
    BY <1>5, <2>1, <2>2
<1>10. ((d = 0) = (p = q)) /\ ((d < 0) = Less(p, q))
  <2>1. Less(p, q) \in BOOLEAN
    BY DEF Less, S!IsStrictPrefix
  <2>2. QED
    BY <1>9, <2>1 DEF Agrees
<1>11. S!CompareIsOrder(s, t, n)
  BY <1>1, <1>8, <1>9, <1>10 DEF S!CompareIsOrder, First, Less, Agrees
<1>12. QED
  BY <1>11

-----------------------------------------------------------------------------
(* The index at which ft_strchr, and ft_strrchr, find a byte. *)
FirstAt(s, c, r) ==
  \/ r = -1 /\ \A i \in 1 .. Len(s) : s[i] # c
  \/ r \in Nat /\ r < Len(s) /\ s[r + 1] = c /\ \A i \in 1 .. r : s[i] # c

LastAt(s, c, r) ==
  \/ r = -1 /\ \A i \in 1 .. Len(s) : s[i] # c
  \/ r \in Nat /\ r < Len(s) /\ s[r + 1] = c /\ \A i \in r + 2 .. Len(s) : s[i] # c

(* A byte other than zero is found in the string, not behind it. *)
LEMMA FoundAt ==
  ASSUME NEW s \in String, NEW c \in Chars
  PROVE  /\ {i \in 0 .. Len(s) : S!At(s, i) = c} = {i \in 0 .. Len(s) - 1 : s[i + 1] = c}
         /\ {i \in 0 .. Len(s) - 1 : s[i + 1] = c} \subseteq Nat
<1>1. PICK a \in Nat : a = Len(s)
  BY StringFacts
<1>2. \A i \in 0 .. a : /\ i < a => S!At(s, i) = s[i + 1]
                        /\ i = a => S!At(s, i) = 0
  BY <1>1, AtIs
<1>3. c # 0
  BY DEF Chars
<1>4. ASSUME NEW i \in 0 .. a PROVE S!At(s, i) = c <=> i \in 0 .. a - 1 /\ s[i + 1] = c
  <2>1. CASE i < a
    BY <1>2, <2>1
  <2>2. CASE i = a
    BY <1>1, <1>2, <1>3, <2>2
  <2>3. QED
    BY <1>1, <2>1, <2>2
<1>5. 0 .. a - 1 \subseteq 0 .. a /\ 0 .. a - 1 \subseteq Nat
  BY <1>1
<1>6. QED
  BY <1>1, <1>4, <1>5

LEMMA StrchrIs ==
  ASSUME NEW s \in String, NEW c \in Chars
  PROVE  FirstAt(s, c, S!Strchr(s, c)) /\ S!Strchr(s, 0) = S!Strlen(s)
<1>1. PICK a \in Nat : a = Len(s)
  BY StringFacts
<1>2. PICK T : T = {i \in 0 .. a - 1 : s[i + 1] = c}
  OBVIOUS
<1>3. PICK r : r = S!Least(T, -1)
  OBVIOUS
<1>4. S!Strchr(s, c) = r
  <2>1. S!NULL = -1
    BY DEF S!NULL
  <2>2. QED
    BY <1>1, <1>2, <1>3, <2>1, FoundAt DEF S!Strchr
<1>5. T \subseteq Nat
  BY <1>1, <1>2, FoundAt
<1>6. CASE T = {}
  <2>1. r = -1
    BY <1>3, <1>5, <1>6, LeastIs
  <2>2. ASSUME NEW i \in 1 .. a PROVE s[i] # c
    <3>1. i - 1 \in 0 .. a - 1 /\ (i - 1) + 1 = i
      BY <1>1
    <3>2. QED
      BY <1>2, <1>6, <3>1
  <2>3. QED
    BY <1>1, <1>4, <2>1, <2>2 DEF FirstAt, S!Strchr, S!Strlen
<1>7. CASE T # {}
  <2>1. r \in T /\ \A y \in T : r <= y
    BY <1>3, <1>5, <1>7, LeastIs
  <2>2. r \in Nat /\ r < a /\ s[r + 1] = c
    BY <1>1, <1>2, <2>1
  <2>3. ASSUME NEW i \in 1 .. r PROVE s[i] # c
    <3>1. i - 1 \in 0 .. a - 1 /\ (i - 1) + 1 = i /\ ~(r <= i - 1)
      BY <1>1, <2>2
    <3>2. QED
      BY <1>2, <2>1, <3>1
  <2>4. QED
    BY <1>1, <1>4, <2>2, <2>3 DEF FirstAt, S!Strchr, S!Strlen
<1>8. QED
  BY <1>6, <1>7

LEMMA StrrchrIs ==
  ASSUME NEW s \in String, NEW c \in Chars
  PROVE  LastAt(s, c, S!Strrchr(s, c))
<1>1. PICK a \in Nat : a = Len(s)
  BY StringFacts
<1>2. PICK T : T = {i \in 0 .. a - 1 : s[i + 1] = c}
  OBVIOUS
<1>3. PICK r : r = IF T = {} THEN -1 ELSE S!Max(T)
  OBVIOUS
<1>4. S!Strrchr(s, c) = r
  <2>1. S!NULL = -1
    BY DEF S!NULL
  <2>2. QED
    BY <1>1, <1>2, <1>3, <2>1, FoundAt, StrlenIs DEF S!Strrchr
<1>5. T \in SUBSET (0 .. a)
  BY <1>1, <1>2
<1>6. CASE T = {}
  <2>1. r = -1
    BY <1>3, <1>6
  <2>2. ASSUME NEW i \in 1 .. a PROVE s[i] # c
    <3>1. i - 1 \in 0 .. a - 1 /\ (i - 1) + 1 = i
      BY <1>1
    <3>2. QED
      BY <1>2, <1>6, <3>1
  <2>3. QED
    BY <1>1, <1>4, <2>1, <2>2 DEF LastAt
<1>7. CASE T # {}
  <2>1. r \in T /\ \A y \in T : y <= r
    BY <1>3, <1>5, <1>7, MaxIs
  <2>2. r \in Nat /\ r < a /\ s[r + 1] = c
    BY <1>1, <1>2, <2>1
  <2>3. ASSUME NEW i \in r + 2 .. a PROVE s[i] # c
    <3>1. i - 1 \in 0 .. a - 1 /\ (i - 1) + 1 = i /\ ~(i - 1 <= r)
      BY <1>1, <2>2
    <3>2. QED
      BY <1>2, <2>1, <3>1
  <2>4. QED
    BY <1>1, <1>4, <2>2, <2>3 DEF LastAt
<1>8. QED
  BY <1>6, <1>7

(* The last occurrence is the first one from the right. *)
LEMMA FromTheRight ==
  ASSUME NEW s \in String, NEW c \in Chars
  PROVE  S!Strrchr(s, c) = IF S!Strchr(s, c) = S!NULL THEN S!NULL
                           ELSE Len(s) - 1 - S!Strchr(S!Reverse(s), c)
<1>1. PICK a \in Nat : a = Len(s)
  BY StringFacts
<1>2. \A i \in 1 .. a : s[i] \in Chars
  BY <1>1, StringFacts
<1>3. PICK left : left = [i \in 1 .. a |-> s[(a - i) + 1]]
  OBVIOUS
<1>4. S!Reverse(s) = left
  BY <1>1, <1>3 DEF S!Reverse
<1>5. left = [i \in 1 .. a |-> left[i]] /\ \A i \in 1 .. a : left[i] = s[(a - i) + 1] /\ left[i] \in Chars
  <2>1. \A i \in 1 .. a : (a - i) + 1 \in 1 .. a
    BY <1>1
  <2>2. QED
    BY <1>2, <1>3, <2>1
<1>6. left \in String /\ Len(left) = a
  BY <1>1, <1>5, MakesString
<1>7. PICK f, l, r : f = S!Strchr(s, c) /\ r = S!Strchr(left, c) /\ l = S!Strrchr(s, c)
  OBVIOUS
<1>8. FirstAt(s, c, f) /\ FirstAt(left, c, r) /\ LastAt(s, c, l)
  BY <1>6, <1>7, StrchrIs, StrrchrIs
<1>9. \A i \in 1 .. a : (a - i) + 1 \in 1 .. a /\ s[i] = left[(a - i) + 1]
  <2>1. ASSUME NEW i \in 1 .. a PROVE (a - i) + 1 \in 1 .. a /\ s[i] = left[(a - i) + 1]
    <3>1. (a - i) + 1 \in 1 .. a /\ (a - ((a - i) + 1)) + 1 = i
      BY <1>1
    <3>2. QED
      BY <1>5, <3>1
  <2>2. QED
    BY <2>1
<1>10. CASE f = -1
  <2>1. \A i \in 1 .. a : s[i] # c
    BY <1>1, <1>8, <1>10 DEF FirstAt
  <2>2. l = -1
    <3>1. SUFFICES ASSUME l \in Nat, l < a, s[l + 1] = c PROVE FALSE
      BY <1>1, <1>8 DEF LastAt
    <3>2. l + 1 \in 1 .. a
      BY <1>1, <3>1
    <3>3. QED
      BY <2>1, <3>1, <3>2
  <2>3. QED
    BY <1>7, <1>10, <2>2 DEF S!NULL
<1>11. CASE f # -1
  <2>1. f \in Nat /\ f < a /\ s[f + 1] = c
    BY <1>1, <1>8, <1>11 DEF FirstAt
  <2>2. f + 1 \in 1 .. a /\ l # -1
    BY <1>1, <1>8, <2>1 DEF LastAt
  <2>3. l \in Nat /\ l < a /\ s[l + 1] = c /\ \A i \in l + 2 .. a : s[i] # c
    BY <1>1, <1>8, <2>2 DEF LastAt
  <2>4. (a - (l + 1)) + 1 \in 1 .. a /\ left[(a - (l + 1)) + 1] = c
    <3>1. l + 1 \in 1 .. a
      BY <1>1, <2>3
    <3>2. QED
      BY <1>9, <2>3, <3>1
  <2>5. r # -1
    BY <1>6, <1>8, <2>4 DEF FirstAt
  <2>6. r \in Nat /\ r < a /\ left[r + 1] = c /\ \A i \in 1 .. r : left[i] # c
    BY <1>6, <1>8, <2>5 DEF FirstAt
  <2>7. ~(a - (l + 1) + 1 <= r)
    BY <2>4, <2>6
  <2>8. (a - (r + 1)) + 1 \in 1 .. a /\ s[(a - (r + 1)) + 1] = c
    <3>1. r + 1 \in 1 .. a
      BY <1>1, <2>6
    <3>2. (a - (r + 1)) + 1 \in 1 .. a
      BY <1>1, <3>1
    <3>3. QED
      BY <1>5, <2>6, <3>1, <3>2
  <2>9. ~(l + 2 <= (a - (r + 1)) + 1)
    BY <2>3, <2>8
  <2>10. l = a - 1 - r
    BY <1>1, <2>3, <2>6, <2>7, <2>9
  <2>11. QED
    BY <1>1, <1>4, <1>7, <1>11, <2>10 DEF S!NULL
<1>12. QED
  BY <1>10, <1>11

-----------------------------------------------------------------------------
(* Bytes in memory: strings, and the zeros behind them. *)
Bytes == Seq(0 .. 255)

LEMMA StringsAreBytes ==
  ASSUME NEW s \in String
  PROVE  s \in Bytes /\ Append(s, 0) \in Bytes /\ <<0>> \in Bytes
<1>1. Chars \subseteq 0 .. 255 /\ 0 \in 0 .. 255
  BY DEF Chars
<1>2. s \in Bytes
  <2>1. Len(s) \in Nat /\ s = [i \in 1 .. Len(s) |-> s[i]] /\ \A i \in 1 .. Len(s) : s[i] \in 0 .. 255
    BY <1>1, StringFacts
  <2>2. s \in [1 .. Len(s) -> 0 .. 255]
    BY <2>1
  <2>3. QED
    BY <2>1, <2>2, SeqDef DEF Bytes
<1>3. QED
  BY <1>1, <1>2 DEF Bytes

(* A string in memory, its zero, and what stands behind it. *)
LEMMA MemoryIs ==
  ASSUME NEW s \in String, NEW u \in Bytes
  PROVE  LET mem == s \o <<0>> \o u IN
         /\ mem \in Bytes /\ Len(mem) = Len(s) + 1 + Len(u)
         /\ \A i \in 1 .. Len(s) : mem[i] = s[i]
         /\ mem[Len(s) + 1] = 0
         /\ \A i \in 1 .. Len(u) : mem[Len(s) + 1 + i] = u[i]
<1>1. s \in Bytes /\ <<0>> \in Bytes
  BY StringsAreBytes
<1>2. PICK a, b \in Nat : a = Len(s) /\ b = Len(u)
  BY <1>1, LenProperties DEF Bytes
<1>3. PICK x : x = s \o <<0>>
  OBVIOUS
<1>4. Len(<<0>>) = 1 /\ <<0>>[1] = 0
  OBVIOUS
<1>5. x \in Bytes /\ Len(x) = a + 1 /\ \A i \in 1 .. a + 1 : x[i] = IF i <= a THEN s[i] ELSE <<0>>[i - a]
  BY <1>1, <1>2, <1>3, <1>4, ConcatProperties DEF Bytes
<1>6. x[a + 1] = 0 /\ \A i \in 1 .. a : x[i] = s[i]
  <2>1. a + 1 \in 1 .. a + 1 /\ ~(a + 1 <= a) /\ (a + 1) - a = 1
    BY <1>2
  <2>2. \A i \in 1 .. a : i \in 1 .. a + 1 /\ i <= a
    BY <1>2
  <2>3. QED
    BY <1>4, <1>5, <2>1, <2>2
<1>7. PICK mem : mem = x \o u
  OBVIOUS
<1>8. /\ mem \in Bytes /\ Len(mem) = (a + 1) + b
      /\ \A i \in 1 .. (a + 1) + b : mem[i] = IF i <= a + 1 THEN x[i] ELSE u[i - (a + 1)]
  <2>1. PICK c : c = a + 1
    OBVIOUS
  <2>2. x \in Seq(0 .. 255) /\ u \in Seq(0 .. 255) /\ Len(x) = c /\ Len(u) = b
    BY <1>2, <1>5, <2>1 DEF Bytes
  <2>3. /\ mem \in Seq(0 .. 255) /\ Len(mem) = c + b
        /\ \A i \in 1 .. c + b : mem[i] = IF i <= c THEN x[i] ELSE u[i - c]
    BY <1>7, <2>2, ConcatProperties
  <2>4. QED
    BY <2>1, <2>3 DEF Bytes
<1>9. \A i \in 1 .. a + 1 : mem[i] = x[i]
  <2>1. \A i \in 1 .. a + 1 : i \in 1 .. (a + 1) + b /\ i <= a + 1
    BY <1>2
  <2>2. QED
    BY <1>8, <2>1
<1>10. \A i \in 1 .. b : mem[a + 1 + i] = u[i]
  <2>1. \A i \in 1 .. b : a + 1 + i \in 1 .. (a + 1) + b /\ ~(a + 1 + i <= a + 1) /\ (a + 1 + i) - (a + 1) = i
    BY <1>2
  <2>2. QED
    BY <1>8, <2>1
<1>11. mem[a + 1] = 0 /\ \A i \in 1 .. a : mem[i] = s[i]
  <2>1. a + 1 \in 1 .. a + 1 /\ \A i \in 1 .. a : i \in 1 .. a + 1
    BY <1>2
  <2>2. QED
    BY <1>6, <1>9, <2>1
<1>12. s \o <<0>> \o u = mem
  BY <1>3, <1>7
<1>13. QED
  BY <1>2, <1>8, <1>10, <1>11, <1>12

(* Where a string occurs whole in the first n bytes of another. *)
Hits(s, u, n) ==
  {k \in 0 .. n : k + Len(u) <= S!Min({n, Len(s)}) /\ SubSeq(s, k + 1, k + Len(u)) = u}

OccursAt(s, u, n, k) ==
  k + Len(u) <= n /\ k + Len(u) <= Len(s) /\ \A j \in 1 .. Len(u) : s[k + j] = u[j]

LEMMA HitIs ==
  ASSUME NEW s \in String, NEW u \in String, NEW n \in Nat, NEW k \in Nat
  PROVE  k \in Hits(s, u, n) <=> OccursAt(s, u, n, k)
<1>1. PICK a, b \in Nat : a = Len(s) /\ b = Len(u)
  BY StringFacts
<1>2. PICK m : m = S!Min({n, a})
  OBVIOUS
<1>3. m = IF n < a THEN n ELSE a
  BY <1>1, <1>2, MinOfTwo
<1>4. k + b <= m <=> k + b <= n /\ k + b <= a
  BY <1>1, <1>3
<1>5. k + b <= n => k \in 0 .. n
  BY <1>1
<1>6. ASSUME k + b <= a
      PROVE  SubSeq(s, k + 1, k + b) = u <=> \A j \in 1 .. b : s[k + j] = u[j]
  <2>1. PICK p : p = SubSeq(s, k + 1, k + b)
    OBVIOUS
  <2>2. k + 1 \in Nat \ {0} /\ k + b \in Nat /\ (k + 1) - 1 <= k + b /\ (k + b) - (k + 1) + 1 = b
    BY <1>1
  <2>3. p \in Seq(Chars) /\ Len(p) = (k + b) - (k + 1) + 1
        /\ \A j \in 1 .. (k + b) - (k + 1) + 1 : p[j] = s[(k + 1) + j - 1]
    BY <1>1, <1>6, <2>1, <2>2, SubSeqIs DEF String
  <2>4. \A j \in 1 .. b : p[j] = s[k + j]
    <3>1. \A j \in 1 .. b : (k + 1) + j - 1 = k + j
      BY <1>1
    <3>2. QED
      BY <2>2, <2>3, <3>1
  <2>5. p \in String /\ Len(p) = b
    BY <2>2, <2>3 DEF String
  <2>6. ASSUME \A j \in 1 .. b : s[k + j] = u[j] PROVE p = u
    BY <1>1, <2>4, <2>5, <2>6, SameString
  <2>7. QED
    BY <2>1, <2>4, <2>6
<1>7. k \in Hits(s, u, n) <=> k \in 0 .. n /\ k + b <= m /\ SubSeq(s, k + 1, k + b) = u
  BY <1>1, <1>2 DEF Hits
<1>8. QED
  BY <1>1, <1>4, <1>5, <1>6, <1>7 DEF OccursAt

(* ft_strnstr finds the first of these, as long as it stays in the string. *)
LEMMA StrnstrIs ==
  ASSUME NEW s \in String, NEW t \in String, NEW u \in String, NEW n \in Nat, n <= Len(s) + 1
  PROVE  S!Strnstr(s \o <<0>> \o t, u, n) = S!Least(Hits(s, u, n), S!NULL)
<1>1. PICK a, b \in Nat : a = Len(s) /\ b = Len(u)
  BY StringFacts
<1>2. PICK mem : mem = s \o <<0>> \o t
  OBVIOUS
<1>3. t \in Bytes /\ Len(t) \in Nat
  BY StringsAreBytes, StringFacts
<1>4. Len(mem) \in Nat /\ Len(mem) >= a + 1 /\ (\A i \in 1 .. a : mem[i] = s[i]) /\ mem[a + 1] = 0
  <2>1. Len(mem) = a + 1 + Len(t) /\ (\A i \in 1 .. a : mem[i] = s[i]) /\ mem[a + 1] = 0
    BY <1>1, <1>2, <1>3, MemoryIs
  <2>2. QED
    BY <1>1, <1>3, <2>1
<1>5. (\A i \in 1 .. a : s[i] # 0) /\ (\A i \in 1 .. b : u[i] # 0) /\ (u = << >> <=> b = 0)
  BY <1>1, StringFacts
<1>6. PICK H : H = Hits(s, u, n)
  OBVIOUS
<1>7. H \subseteq Nat
  BY <1>6 DEF Hits
<1>8. \A k \in Nat : k \in H <=> k + b <= n /\ k + b <= a /\ \A j \in 1 .. b : s[k + j] = u[j]
  <2>1. \A k \in Nat : k \in H <=> OccursAt(s, u, n, k)
    BY <1>6, HitIs
  <2>2. QED
    BY <1>1, <2>1 DEF OccursAt
<1>9. CASE b = 0
  <2>1. 0 \in H /\ \A y \in H : 0 <= y
    <3>1. 0 + b <= n /\ 0 + b <= a /\ 1 .. b = {}
      BY <1>1, <1>9
    <3>2. QED
      BY <1>7, <1>8, <3>1
  <2>2. S!Least(H, S!NULL) = 0
    BY <1>7, <2>1, LeastIs
  <2>3. S!Strnstr(mem, u, n) = 0
    BY <1>5, <1>9 DEF S!Strnstr
  <2>4. QED
    BY <1>2, <1>6, <2>2, <2>3
<1>10. CASE b # 0 /\ mem[1] = 0
  <2>1. a = 0
    <3>1. 1 \notin 1 .. a
      BY <1>4, <1>5, <1>10
    <3>2. QED
      BY <1>1, <3>1
  <2>2. H = {}
    <3>1. \A k \in Nat : ~(k + b <= a)
      BY <1>1, <1>10, <2>1
    <3>2. QED
      BY <1>7, <1>8, <3>1
  <2>3. S!Least(H, S!NULL) = S!NULL
    BY <1>7, <2>2, LeastIs
  <2>4. S!Strnstr(mem, u, n) = S!NULL
    BY <1>5, <1>10 DEF S!Strnstr
  <2>5. QED
    BY <1>2, <1>6, <2>3, <2>4
<1>11. CASE b # 0 /\ mem[1] # 0
  <2> DEFINE Matches(k) == /\ mem[k + 1] = u[1] /\ Len(u) <= n - k
                           /\ \A j \in 1 .. Len(u) : k + j <= Len(mem) /\ mem[k + j] = u[j]
  <2>1. S!Strnstr(mem, u, n) = S!Least({k \in 0 .. n - 1 : Matches(k)}, S!NULL)
    BY <1>5, <1>11 DEF S!Strnstr
  <2>2. ASSUME NEW k \in 0 .. n - 1, Matches(k) PROVE k \in H
    <3>1. k \in Nat /\ k + b <= n /\ k + b <= a + 1
      BY <1>1, <2>2
    <3>2. \A j \in 1 .. b : mem[k + j] = u[j]
      BY <1>1, <2>2
    <3>3. k + b # a + 1
      <4>1. b \in 1 .. b
        BY <1>1, <1>11
      <4>2. QED
        BY <1>4, <1>5, <3>2, <4>1
    <3>4. k + b <= a
      BY <1>1, <3>1, <3>3
    <3>5. \A j \in 1 .. b : s[k + j] = u[j]
      <4>1. \A j \in 1 .. b : k + j \in 1 .. a
        BY <1>1, <3>1, <3>4
      <4>2. QED
        BY <1>4, <3>2, <4>1
    <3>6. QED
      BY <1>8, <3>1, <3>4, <3>5
  <2>3. ASSUME NEW k \in H PROVE k \in 0 .. n - 1 /\ Matches(k)
    <3>1. k \in Nat /\ k + b <= n /\ k + b <= a /\ \A j \in 1 .. b : s[k + j] = u[j]
      BY <1>7, <1>8, <2>3
    <3>2. k \in 0 .. n - 1 /\ Len(u) <= n - k
      BY <1>1, <1>11, <3>1
    <3>3. \A j \in 1 .. b : k + j <= Len(mem) /\ mem[k + j] = u[j]
      <4>1. \A j \in 1 .. b : k + j \in 1 .. a /\ k + j <= Len(mem)
        BY <1>1, <1>4, <3>1
      <4>2. QED
        BY <1>4, <3>1, <4>1
    <3>4. mem[k + 1] = u[1]
      <4>1. 1 \in 1 .. b
        BY <1>1, <1>11
      <4>2. QED
        BY <3>3, <4>1
    <3>5. QED
      BY <1>1, <3>2, <3>3, <3>4
  <2> HIDE DEF Matches
  <2>4. {k \in 0 .. n - 1 : Matches(k)} = H
    BY <2>2, <2>3
  <2>5. QED
    BY <1>2, <1>6, <2>1, <2>4
<1>12. QED
  BY <1>9, <1>10, <1>11

(* With a string of one byte it is ft_strchr. *)
LEMMA StrnstrOfOne ==
  ASSUME NEW s \in String, NEW t \in String, NEW c \in Chars
  PROVE  S!Strnstr(s \o <<0>> \o t, <<c>>, Len(s)) = S!Strchr(s, c)
<1>1. PICK a \in Nat : a = Len(s)
  BY StringFacts
<1>2. PICK u : u = <<c>>
  OBVIOUS
<1>3. u \in String /\ Len(u) = 1 /\ u[1] = c
  BY <1>2 DEF String
<1>4. PICK T : T = {i \in 0 .. a - 1 : s[i + 1] = c}
  OBVIOUS
<1>5. S!Strchr(s, c) = S!Least(T, S!NULL)
  BY <1>1, <1>4, FoundAt DEF S!Strchr
<1>6. PICK H : H = Hits(s, u, a)
  OBVIOUS
<1>7. \A k \in Nat : k \in H <=> k + 1 <= a /\ \A j \in 1 .. 1 : s[k + j] = u[j]
  <2>1. \A k \in Nat : k \in H <=> OccursAt(s, u, a, k)
    BY <1>3, <1>6, HitIs
  <2>2. QED
    BY <1>1, <1>3, <2>1 DEF OccursAt
<1>8. H \subseteq Nat
  BY <1>6 DEF Hits
<1>9. ASSUME NEW k \in Nat PROVE k \in H <=> k \in T
  <2>1. 1 .. 1 = {1}
    OBVIOUS
  <2>2. (\A j \in 1 .. 1 : s[k + j] = u[j]) <=> s[k + 1] = c
    BY <1>3, <2>1
  <2>3. k \in 0 .. a - 1 <=> k + 1 <= a
    BY <1>1
  <2>4. QED
    BY <1>4, <1>7, <2>2, <2>3
<1>10. T \subseteq Nat
  BY <1>1, <1>4
<1>11. H = T
  BY <1>8, <1>9, <1>10
<1>12. S!Strnstr(s \o <<0>> \o t, u, a) = S!Least(H, S!NULL)
  BY <1>1, <1>3, <1>6, StrnstrIs
<1>13. QED
  BY <1>1, <1>2, <1>5, <1>11, <1>12

LEMMA SearchesAre ==
  ASSUME NEW s \in String, NEW t \in String, NEW c \in Chars, NEW n \in Nat
  PROVE  S!SearchesAgree(s, t, c, n)
<1>1. S!Strrchr(s, c) = IF S!Strchr(s, c) = S!NULL THEN S!NULL
                        ELSE Len(s) - 1 - S!Strchr(S!Reverse(s), c)
  BY FromTheRight
<1>2. S!Strchr(s, 0) = S!Strlen(s)
  BY StrchrIs
<1>3. S!Strnstr(s \o <<0>> \o t, <<c>>, Len(s)) = S!Strchr(s, c)
  BY StrnstrOfOne
<1>4. n <= Len(s) + 1 => S!Strnstr(s \o <<0>> \o t, t, n) = S!Least(Hits(s, t, n), S!NULL)
  BY StrnstrIs
<1>5. QED
  BY <1>1, <1>2, <1>3, <1>4 DEF S!SearchesAgree, Hits

-----------------------------------------------------------------------------
LEMMA SpanIs ==
  ASSUME NEW a \in Int, NEW b \in Int
  PROVE  S!Span(a, b) = IF a > b THEN 0 ELSE b - a + 1
<1>1. S!Span(a, b) = Cardinality(a .. b)
  BY DEF S!Span, S!Cardinality, Cardinality
<1>2. QED
  BY <1>1, FS_Interval

(* ft_strtrim returns the stretch from the first to the last byte that is  *)
(* not in the set.                                                         *)
LEMMA TrimIs ==
  ASSUME NEW s \in String, NEW set, NEW below \in Nat
  PROVE  LET r == S!Strtrim(s, set, below) IN
         \/ r = << >> /\ \A j \in 1 .. Len(s) : s[j] \in set
         \/ \E x \in Nat, y \in Nat :
              /\ x <= y /\ y < Len(s) /\ s[x + 1] \notin set /\ s[y + 1] \notin set
              /\ \A j \in 1 .. Len(s) : j <= x \/ j > y + 1 => s[j] \in set
              /\ r = [i \in 1 .. y - x + 1 |-> s[x + i]]
<1>1. PICK a \in Nat : a = Len(s)
  BY StringFacts
<1>2. \A i \in 0 .. a - 1 : S!At(s, i) = s[i + 1]
  <2>1. ASSUME NEW i \in 0 .. a - 1 PROVE S!At(s, i) = s[i + 1]
    <3>1. i \in 0 .. Len(s) /\ i < Len(s)
      BY <1>1
    <3>2. QED
      BY <3>1, AtIs
  <2>2. QED
    BY <2>1
<1>3. PICK T : T = {i \in 0 .. a - 1 : ~(S!At(s, i) \in set)}
  OBVIOUS
<1>4. T \subseteq Nat /\ T \in SUBSET (0 .. a) /\ T = {i \in 0 .. a - 1 : s[i + 1] \notin set}
  BY <1>1, <1>2, <1>3
<1>5. PICK start, end, len : /\ start = S!Least(T, a)
                             /\ end = IF T = {} THEN -1 - below ELSE S!Max(T)
                             /\ len = S!Span(start, end)
  OBVIOUS
<1>6. S!Strtrim(s, set, below) =
        IF s = << >> THEN << >> ELSE [i \in 1 .. len |-> S!At(s, start + i - 1)]
  BY <1>1, <1>3, <1>5 DEF S!Strtrim
<1>7. CASE T = {}
  <2>1. \A j \in 1 .. a : s[j] \in set
    <3>1. \A j \in 1 .. a : j - 1 \in 0 .. a - 1 /\ (j - 1) + 1 = j
      BY <1>1
    <3>2. QED
      BY <1>4, <1>7, <3>1
  <2>2. start = a /\ end = -1 - below
    BY <1>4, <1>5, <1>7, LeastIs
  <2>3. start \in Int /\ end \in Int /\ start > end
    BY <1>1, <2>2
  <2>4. len = 0
    BY <1>5, <2>3, SpanIs
  <2>5. S!Strtrim(s, set, below) = << >>
    BY <1>6, <2>4
  <2>6. QED
    BY <1>1, <2>1, <2>5
<1>8. CASE T # {}
  <2>1. /\ start \in T /\ \A y \in T : start <= y
        /\ end \in T /\ \A y \in T : y <= end
    <3>1. start \in T /\ \A y \in T : start <= y
      BY <1>4, <1>5, <1>8, LeastIs
    <3>2. end = S!Max(T)
      BY <1>5, <1>8
    <3>3. end \in T /\ \A y \in T : y <= end
      BY <1>4, <1>8, <3>2, MaxIs
    <3>4. QED
      BY <3>1, <3>3
  <2>2. start \in Nat /\ end \in Nat /\ start <= end /\ end < a /\ s[start + 1] \notin set /\ s[end + 1] \notin set
    BY <1>1, <1>4, <2>1
  <2>3. len = end - start + 1
    <3>1. start \in Int /\ end \in Int /\ ~(start > end)
      BY <2>2
    <3>2. QED
      BY <1>5, <3>1, SpanIs
  <2>4. s # << >>
    BY <1>1, <2>2
  <2>5. \A i \in 1 .. len : S!At(s, start + i - 1) = s[start + i]
    <3>1. \A i \in 1 .. len : start + i - 1 \in 0 .. a - 1 /\ (start + i - 1) + 1 = start + i
      BY <1>1, <2>2, <2>3
    <3>2. QED
      BY <1>2, <3>1
  <2>6. S!Strtrim(s, set, below) = [i \in 1 .. end - start + 1 |-> s[start + i]]
    BY <1>6, <2>3, <2>4, <2>5
  <2>7. \A j \in 1 .. a : j <= start \/ j > end + 1 => s[j] \in set
    <3>1. ASSUME NEW j \in 1 .. a, j <= start \/ j > end + 1 PROVE s[j] \in set
      <4>1. j - 1 \in 0 .. a - 1 /\ (j - 1) + 1 = j
        BY <1>1
      <4>2. ~(start <= j - 1) \/ ~(j - 1 <= end)
        BY <2>2, <3>1
      <4>3. j - 1 \notin T
        BY <2>1, <4>2
      <4>4. QED
        BY <1>4, <4>1, <4>3
    <3>2. QED
      BY <3>1
  <2>8. QED
    BY <1>1, <2>2, <2>6, <2>7
<1>9. QED
  BY <1>7, <1>8

LEMMA TrimmedIs ==
  ASSUME NEW s \in String, NEW t \in String
  PROVE  S!TrimmedBothEnds(s, t)
<1> DEFINE set == S!ToSet(t)
<1>1. SUFFICES ASSUME NEW below \in 0 .. 2
               PROVE  LET r == S!Strtrim(s, set, below) IN
                      /\ r # << >> => r[1] \notin set /\ r[Len(r)] \notin set
                      /\ \E i \in 0 .. Len(s) :
                           /\ SubSeq(s, i + 1, i + Len(r)) = r
                           /\ \A j \in 1 .. Len(s) : j <= i \/ j > i + Len(r) => s[j] \in set
  BY DEF S!TrimmedBothEnds
<1> HIDE DEF set
<1> below \in Nat
  OBVIOUS
<1>2. PICK r : r = S!Strtrim(s, set, below)
  OBVIOUS
<1>3. PICK a \in Nat : a = Len(s) /\ s \in Seq(Chars) /\ \A i \in 1 .. a : s[i] \in Chars
  BY StringFacts DEF String
<1>4. CASE r = << >> /\ \A j \in 1 .. Len(s) : s[j] \in set
  <2>1. Len(r) = 0 /\ 0 \in 0 .. a
    BY <1>3, <1>4
  <2>2. SubSeq(s, 0 + 1, 0 + 0) = << >>
    BY SubSeqEmpty
  <2>3. SubSeq(s, 0 + 1, 0 + Len(r)) = r
    BY <1>4, <2>1, <2>2
  <2>4. QED
    BY <1>2, <1>3, <1>4, <2>1, <2>3
<1>5. ASSUME NEW x \in Nat, NEW y \in Nat,
             x <= y, y < Len(s), s[x + 1] \notin set, s[y + 1] \notin set,
             \A j \in 1 .. Len(s) : j <= x \/ j > y + 1 => s[j] \in set,
             r = [i \in 1 .. y - x + 1 |-> s[x + i]]
      PROVE  /\ r[1] \notin set /\ r[Len(r)] \notin set
             /\ \E i \in 0 .. Len(s) :
                  /\ SubSeq(s, i + 1, i + Len(r)) = r
                  /\ \A j \in 1 .. Len(s) : j <= i \/ j > i + Len(r) => s[j] \in set
  <2>1. PICK n \in Nat : n = y - x + 1
    BY <1>5
  <2>2. \A i \in 1 .. n : x + i \in 1 .. a
    BY <1>3, <1>5, <2>1
  <2>3. r = [i \in 1 .. n |-> r[i]] /\ \A i \in 1 .. n : r[i] = s[x + i] /\ r[i] \in Chars
    BY <1>3, <1>5, <2>1, <2>2
  <2>4. r \in String /\ Len(r) = n
    BY <2>3, MakesString
  <2>5. 1 \in 1 .. n /\ n \in 1 .. n /\ x + n = y + 1
    BY <1>5, <2>1
  <2>6. r[1] \notin set /\ r[Len(r)] \notin set
    BY <1>5, <2>3, <2>4, <2>5
  <2>7. PICK p : p = SubSeq(s, x + 1, x + n)
    OBVIOUS
  <2>8. x + 1 \in Nat \ {0} /\ x + n \in Nat /\ (x + 1) - 1 <= x + n /\ x + n <= a /\ (x + n) - (x + 1) + 1 = n
    BY <1>3, <1>5, <2>1
  <2>9. p \in Seq(Chars) /\ Len(p) = (x + n) - (x + 1) + 1
        /\ \A i \in 1 .. (x + n) - (x + 1) + 1 : p[i] = s[(x + 1) + i - 1]
    BY <1>3, <2>7, <2>8, SubSeqIs
  <2>10. p \in String /\ Len(p) = n
    BY <2>8, <2>9 DEF String
  <2>11. \A i \in 1 .. n : p[i] = r[i]
    <3>1. \A i \in 1 .. n : (x + 1) + i - 1 = x + i
      BY <2>1
    <3>2. \A i \in 1 .. n : p[i] = s[(x + 1) + i - 1]
      BY <2>8, <2>9
    <3>3. QED
      BY <2>3, <3>1, <3>2
  <2>12. p = r
    BY <2>4, <2>10, <2>11, SameString
  <2>13. x \in 0 .. Len(s) /\ SubSeq(s, x + 1, x + Len(r)) = r
    <3>1. x <= y /\ y < a
      BY <1>3, <1>5
    <3>2. x \in 0 .. a
      BY <3>1
    <3>3. QED
      BY <1>3, <2>4, <2>7, <2>12, <3>2
  <2>14. \A j \in 1 .. Len(s) : j <= x \/ j > x + Len(r) => s[j] \in set
    BY <1>5, <2>4, <2>5
  <2>15. QED
    BY <2>6, <2>13, <2>14
<1>6. QED
  BY <1>2, <1>4, <1>5, TrimIs

-----------------------------------------------------------------------------
(* An array of bytes that holds a string at its start is one of which the  *)
(* first bytes are the string and a zero.                                  *)
Holds(d, str) == SubSeq(d, 1, Len(str) + 1) = Append(str, 0)

LEMMA HoldsIs ==
  ASSUME NEW d \in Bytes, NEW str \in String, Len(str) < Len(d),
         \A i \in 1 .. Len(str) : d[i] = str[i], d[Len(str) + 1] = 0
  PROVE  Holds(d, str)
<1>1. PICK m, n \in Nat : m = Len(str) /\ n = Len(d)
  BY StringFacts, LenProperties DEF Bytes
<1>2. PICK x, y : x = SubSeq(d, 1, m + 1) /\ y = Append(str, 0)
  OBVIOUS
<1>3. 1 \in Nat \ {0} /\ m + 1 \in Nat /\ 1 - 1 <= m + 1 /\ m + 1 <= n /\ (m + 1) - 1 + 1 = m + 1
  BY <1>1
<1>4. x \in Bytes /\ Len(x) = (m + 1) - 1 + 1 /\ \A i \in 1 .. (m + 1) - 1 + 1 : x[i] = d[1 + i - 1]
  <2>1. PICK h \in Nat : h = m + 1
    BY <1>3
  <2>2. d \in Seq(0 .. 255) /\ 1 - 1 <= h /\ h <= Len(d)
    BY <1>1, <1>3, <2>1 DEF Bytes
  <2>3. /\ SubSeq(d, 1, h) \in Seq(0 .. 255) /\ Len(SubSeq(d, 1, h)) = h - 1 + 1
        /\ \A i \in 1 .. h - 1 + 1 : SubSeq(d, 1, h)[i] = d[1 + i - 1]
    <3>1. PICK U : U = 0 .. 255
      OBVIOUS
    <3>2. d \in Seq(U) /\ 1 \in Nat \ {0}
      BY <2>2, <3>1
    <3>3. /\ SubSeq(d, 1, h) \in Seq(U) /\ Len(SubSeq(d, 1, h)) = h - 1 + 1
          /\ \A i \in 1 .. h - 1 + 1 : SubSeq(d, 1, h)[i] = d[1 + i - 1]
      BY <2>2, <3>2, SubSeqIs
    <3>4. QED
      BY <3>1, <3>3
  <2>4. QED
    BY <1>2, <2>1, <2>3 DEF Bytes
<1>5. str \in Bytes /\ 0 \in 0 .. 255
  BY StringsAreBytes
<1>6. y \in Bytes /\ Len(y) = m + 1 /\ (\A i \in 1 .. m : y[i] = str[i]) /\ y[m + 1] = 0
  BY <1>1, <1>2, <1>5, AppendProperties DEF Bytes
<1>7. ASSUME NEW i \in 1 .. m + 1 PROVE x[i] = y[i]
  <2>1. x[i] = d[i]
    <3>1. 1 + i - 1 = i /\ i \in 1 .. (m + 1) - 1 + 1
      BY <1>3
    <3>2. QED
      BY <1>4, <3>1
  <2>2. CASE i \in 1 .. m
    BY <1>1, <1>6, <2>1, <2>2
  <2>3. CASE i = m + 1
    BY <1>1, <1>6, <2>1, <2>3
  <2>4. QED
    BY <1>1, <2>2, <2>3
<1>8. x = y
  BY <1>3, <1>4, <1>6, <1>7, SeqEqual DEF Bytes
<1>9. QED
  BY <1>1, <1>2, <1>8 DEF Holds

(* A change of an array of bytes is one again. *)
LEMMA ChangedArray ==
  ASSUME NEW d \in Bytes, NEW e, e = [i \in DOMAIN d |-> e[i]], \A i \in DOMAIN d : e[i] \in 0 .. 255
  PROVE  e \in Bytes /\ Len(e) = Len(d)
<1>1. PICK n \in Nat : n = Len(d) /\ DOMAIN d = 1 .. n
  BY LenProperties DEF Bytes
<1>2. e \in [1 .. n -> 0 .. 255]
  BY <1>1
<1>3. e \in Seq(0 .. 255)
  BY <1>2, SeqDef
<1>4. QED
  BY <1>1, <1>2, <1>3, LenProperties DEF Bytes

(* ft_strlcpy writes the string, cut to size, and nothing behind it. *)
LEMMA StrlcpyIs ==
  ASSUME NEW d \in Bytes, NEW s \in String, NEW n \in Nat, Len(s) < Len(d)
  PROVE  /\ S!Strlcpy(d, s, n).ret = Len(s)
         /\ \A i \in DOMAIN d : i > n => S!Strlcpy(d, s, n).dst[i] = d[i]
         /\ n > 0 => Holds(S!Strlcpy(d, s, n).dst, First(s, n - 1))
<1>1. PICK a, b \in Nat : a = Len(s) /\ b = Len(d) /\ DOMAIN d = 1 .. b /\ a < b
  BY StringFacts, LenProperties DEF Bytes
<1>2. PICK m : m = S!Min({n - 1, a})
  OBVIOUS
<1>3. PICK e : e = IF n = 0 THEN d
                   ELSE [i \in DOMAIN d |-> IF i <= m THEN s[i] ELSE IF i = m + 1 THEN 0 ELSE d[i]]
  OBVIOUS
<1>4. S!Strlcpy(d, s, n).ret = a /\ S!Strlcpy(d, s, n).dst = e
  BY <1>1, <1>2, <1>3, StrlenIs DEF S!Strlcpy
<1>5. CASE n = 0
  <2>1. e = d /\ ~(n > 0)
    BY <1>3, <1>5
  <2>2. QED
    BY <1>1, <1>4, <2>1
<1>6. CASE n > 0
  <2>1. n - 1 \in Nat
    BY <1>6
  <2>2. m = (IF n - 1 < a THEN n - 1 ELSE a) /\ m \in Nat /\ m <= a /\ m < n
    <3>1. m = IF n - 1 < a THEN n - 1 ELSE a
      <4>1. PICK l \in Nat : l = n - 1
        BY <2>1
      <4>2. S!Min({l, a}) = IF l < a THEN l ELSE a
        BY <1>1, MinOfTwo
      <4>3. QED
        BY <1>2, <4>1, <4>2
    <3>2. QED
      BY <1>1, <1>6, <2>1, <3>1
  <2>3. e = [i \in DOMAIN d |-> e[i]]
        /\ \A i \in 1 .. b : e[i] = IF i <= m THEN s[i] ELSE IF i = m + 1 THEN 0 ELSE d[i]
    <3>1. e = [i \in 1 .. b |-> IF i <= m THEN s[i] ELSE IF i = m + 1 THEN 0 ELSE d[i]]
      BY <1>1, <1>3, <1>6
    <3>2. QED
      BY <1>1, <3>1
  <2>4. \A i \in 1 .. b : i > n => e[i] = d[i]
    <3>1. \A i \in 1 .. b : i > n => ~(i <= m) /\ i # m + 1
      BY <1>1, <2>2
    <3>2. QED
      BY <2>3, <3>1
  <2>5. (\A i \in 1 .. m : e[i] = s[i]) /\ e[m + 1] = 0
    <3>1. m + 1 \in 1 .. b /\ ~(m + 1 <= m) /\ \A i \in 1 .. m : i \in 1 .. b /\ i <= m
      BY <1>1, <2>2
    <3>2. QED
      BY <2>3, <3>1
  <2>6. e \in Bytes /\ Len(e) = b
    <3>1. \A i \in 1 .. b : d[i] \in 0 .. 255 /\ 0 \in 0 .. 255
      BY <1>1 DEF Bytes
    <3>2. \A i \in 1 .. b : i <= m => s[i] \in 0 .. 255
      <4>1. \A i \in 1 .. a : s[i] \in Chars
        BY <1>1, StringFacts
      <4>2. \A i \in 1 .. b : i <= m => i \in 1 .. a
        BY <1>1, <2>2
      <4>3. QED
        BY <4>1, <4>2 DEF Chars
    <3>3. \A i \in DOMAIN d : e[i] \in 0 .. 255
      BY <1>1, <2>3, <3>1, <3>2
    <3>4. QED
      BY <1>1, <2>3, <3>3, ChangedArray
  <2>7. PICK p : p = First(s, n - 1)
    OBVIOUS
  <2>8. p \in String /\ Len(p) = m /\ \A i \in 1 .. m : p[i] = s[i]
    <3>1. p \in String /\ Len(p) = (IF n - 1 < Len(s) THEN n - 1 ELSE Len(s)) /\ \A i \in 1 .. Len(p) : p[i] = s[i]
      BY <2>1, <2>7, FirstIs
    <3>2. QED
      BY <1>1, <2>2, <3>1
  <2>9. Holds(e, p)
    <3>1. m < b
      BY <1>1, <2>2
    <3>2. Len(p) < Len(e) /\ (\A i \in 1 .. Len(p) : e[i] = p[i]) /\ e[Len(p) + 1] = 0
      BY <2>5, <2>6, <2>8, <3>1
    <3>3. QED
      BY <2>6, <2>8, <3>2, HoldsIs
  <2>10. QED
    BY <1>1, <1>4, <2>4, <2>7, <2>9
<1>7. QED
  BY <1>5, <1>6

(* ft_strlcat writes it behind the string that is there. *)
LEMMA StrlcatIs ==
  ASSUME NEW d \in Bytes, NEW s \in String, NEW t \in String, NEW n \in Nat,
         Len(t) + Len(s) < Len(d), \A i \in 1 .. Len(t) : d[i] = t[i], d[Len(t) + 1] = 0
  PROVE  /\ S!Strlcat(d, s, n).ret = Len(s) + S!Min({n, Len(t)})
         /\ \A i \in DOMAIN d : i > n => S!Strlcat(d, s, n).dst[i] = d[i]
         /\ n > Len(t) => Holds(S!Strlcat(d, s, n).dst, SubSeq(t \o s, 1, S!Min({n - 1, Len(t) + Len(s)})))
<1>1. PICK a, b, c \in Nat : /\ a = Len(s) /\ b = Len(d) /\ c = Len(t)
                             /\ DOMAIN d = 1 .. b /\ c + a < b /\ d[c + 1] = 0
  BY StringFacts, LenProperties DEF Bytes
<1>2. \A i \in 1 .. c : d[i] = t[i] /\ t[i] # 0 /\ t[i] \in Chars
  BY <1>1, StringFacts
<1>3. PICK old : old = S!Min({i \in DOMAIN d : d[i] = 0}) - 1
  OBVIOUS
<1>4. old = c
  <2>1. PICK Z : Z = {i \in 1 .. b : d[i] = 0}
    OBVIOUS
  <2>2. c + 1 \in Z /\ Z \subseteq Nat
    BY <1>1, <2>1
  <2>3. PICK z : z = S!Min(Z)
    OBVIOUS
  <2>4. z \in Z /\ z <= c + 1
    BY <2>2, <2>3, MinIs
  <2>5. z \in Nat /\ z >= 1 /\ z \notin 1 .. c
    BY <1>2, <2>1, <2>4
  <2>6. z = c + 1
    BY <1>1, <2>4, <2>5
  <2>7. old = z - 1
    BY <1>1, <1>3, <2>1, <2>3
  <2>8. QED
    BY <1>1, <2>6, <2>7
<1>5. PICK room, m : room = n - c /\ m = S!Min({room - 1, a})
  OBVIOUS
<1>6. PICK e : e = IF n < c THEN d ELSE IF room = 0 THEN d
                   ELSE [i \in DOMAIN d |-> IF i > c /\ i <= c + m THEN s[i - c]
                                            ELSE IF i = c + m + 1 THEN 0 ELSE d[i]]
  OBVIOUS
<1>7. S!Strlcat(d, s, n) = IF n < c THEN [ret |-> a + n, dst |-> d] ELSE [ret |-> c + a, dst |-> e]
  <2>1. S!Strlcat(d, s, n) =
          IF n < old THEN [ret |-> a + n, dst |-> d]
          ELSE [ret |-> old + a,
                dst |-> IF n - old = 0 THEN d
                        ELSE [i \in DOMAIN d |->
                                IF i > old /\ i <= old + S!Min({n - old - 1, a}) THEN s[i - old]
                                ELSE IF i = old + S!Min({n - old - 1, a}) + 1 THEN 0 ELSE d[i]]]
    BY <1>1, <1>3, StrlenIs DEF S!Strlcat
  <2>2. CASE n < c
    BY <1>4, <2>1, <2>2
  <2>3. CASE ~(n < c)
    BY <1>4, <1>5, <1>6, <2>1, <2>3
  <2>4. QED
    BY <2>2, <2>3
<1>8. S!Strlcat(d, s, n).dst = e
  BY <1>6, <1>7
<1>9. S!Strlcat(d, s, n).ret = a + S!Min({n, c})
  <2>1. S!Min({n, c}) = IF n < c THEN n ELSE c
    BY <1>1, MinOfTwo
  <2>2. CASE n < c
    BY <1>7, <2>1, <2>2
  <2>3. CASE ~(n < c)
    <3>1. S!Strlcat(d, s, n).ret = c + a
      BY <1>7, <2>3
    <3>2. QED
      BY <1>1, <2>1, <2>3, <3>1
  <2>4. QED
    BY <2>2, <2>3
<1>10. CASE n <= c
  <2>1. n < c \/ room = 0
    BY <1>1, <1>5, <1>10
  <2>2. e = d /\ ~(n > c)
    BY <1>1, <1>6, <1>10, <2>1
  <2>3. QED
    BY <1>1, <1>8, <1>9, <2>2
<1>11. CASE n > c
  <2>1. room - 1 \in Nat /\ room # 0 /\ ~(n < c)
    BY <1>1, <1>5, <1>11
  <2>2. m = (IF room - 1 < a THEN room - 1 ELSE a) /\ m \in Nat /\ m <= a /\ c + m < n
    <3>1. m = IF room - 1 < a THEN room - 1 ELSE a
      <4>1. PICK l \in Nat : l = room - 1
        BY <2>1
      <4>2. S!Min({l, a}) = IF l < a THEN l ELSE a
        BY <1>1, MinOfTwo
      <4>3. QED
        BY <1>5, <4>1, <4>2
    <3>2. QED
      BY <1>1, <1>5, <2>1, <3>1
  <2>3. e = [i \in DOMAIN d |-> e[i]]
        /\ \A i \in 1 .. b : e[i] = IF i > c /\ i <= c + m THEN s[i - c] ELSE IF i = c + m + 1 THEN 0 ELSE d[i]
    <3>1. e = [i \in 1 .. b |-> IF i > c /\ i <= c + m THEN s[i - c] ELSE IF i = c + m + 1 THEN 0 ELSE d[i]]
      BY <1>1, <1>6, <2>1
    <3>2. QED
      BY <1>1, <3>1
  <2>4. \A i \in 1 .. b : i > n => e[i] = d[i]
    <3>1. \A i \in 1 .. b : i > n => ~(i <= c + m) /\ i # c + m + 1
      BY <1>1, <2>2
    <3>2. QED
      BY <2>3, <3>1
  <2>5. \A i \in 1 .. m : c + i \in 1 .. b /\ c + i > c /\ c + i <= c + m /\ (c + i) - c = i /\ i \in 1 .. a
    BY <1>1, <2>2
  <2>6. /\ \A i \in 1 .. c : e[i] = t[i]
        /\ \A i \in 1 .. m : e[c + i] = s[i]
        /\ e[c + m + 1] = 0
    <3>1. \A i \in 1 .. c : i \in 1 .. b /\ ~(i > c) /\ i # c + m + 1
      BY <1>1, <2>2
    <3>2. c + m + 1 \in 1 .. b /\ ~(c + m + 1 <= c + m)
      BY <1>1, <2>2
    <3>3. \A i \in 1 .. c : e[i] = t[i]
      BY <1>2, <2>3, <3>1
    <3>4. \A i \in 1 .. m : e[c + i] = s[i]
      <4>1. ASSUME NEW i \in 1 .. m PROVE e[c + i] = s[i]
        <5>1. c + i \in 1 .. b /\ c + i > c /\ c + i <= c + m /\ (c + i) - c = i
          BY <2>5
        <5>2. e[c + i] = s[(c + i) - c]
          BY <2>3, <5>1
        <5>3. QED
          BY <5>1, <5>2
      <4>2. QED
        BY <4>1
    <3>5. e[c + m + 1] = 0
      BY <2>3, <3>2
    <3>6. QED
      BY <3>3, <3>4, <3>5
  <2>7. e \in Bytes /\ Len(e) = b
    <3>1. \A i \in 1 .. b : d[i] \in 0 .. 255 /\ 0 \in 0 .. 255
      BY <1>1 DEF Bytes
    <3>2. \A i \in 1 .. b : i > c /\ i <= c + m => s[i - c] \in 0 .. 255
      <4>1. \A i \in 1 .. a : s[i] \in Chars
        BY <1>1, StringFacts
      <4>2. \A i \in 1 .. b : i > c /\ i <= c + m => i - c \in 1 .. a
        BY <1>1, <2>2
      <4>3. QED
        BY <4>1, <4>2 DEF Chars
    <3>3. \A i \in DOMAIN d : e[i] \in 0 .. 255
      BY <1>1, <2>3, <3>1, <3>2
    <3>4. QED
      BY <1>1, <2>3, <3>3, ChangedArray
  <2>8. PICK w : w = t \o s
    OBVIOUS
  <2>9. w \in Seq(Chars) /\ Len(w) = c + a /\ \A i \in 1 .. c + a : w[i] = IF i <= c THEN t[i] ELSE s[i - c]
    <3>1. t \in Seq(Chars) /\ s \in Seq(Chars)
      BY DEF String
    <3>2. QED
      BY <1>1, <2>8, <3>1, ConcatProperties
  <2>10. S!Min({n - 1, c + a}) = c + m
    <3>1. n - 1 \in Nat /\ c + a \in Nat
      BY <1>1, <1>11
    <3>2. S!Min({n - 1, c + a}) = IF n - 1 < c + a THEN n - 1 ELSE c + a
      BY <3>1, MinOfTwo
    <3>3. QED
      BY <1>1, <1>5, <2>1, <2>2, <3>2
  <2>11. PICK p : p = SubSeq(w, 1, c + m)
    OBVIOUS
  <2>12. 1 \in Nat \ {0} /\ c + m \in Nat /\ 1 - 1 <= c + m /\ c + m <= c + a /\ (c + m) - 1 + 1 = c + m
    BY <1>1, <2>2
  <2>13. p \in Seq(Chars) /\ Len(p) = (c + m) - 1 + 1 /\ \A i \in 1 .. (c + m) - 1 + 1 : p[i] = w[1 + i - 1]
    BY <2>9, <2>11, <2>12, SubSeqIs
  <2>14. p \in String /\ Len(p) = c + m
    BY <2>12, <2>13 DEF String
  <2>15. ASSUME NEW i \in 1 .. c + m PROVE e[i] = p[i]
    <3>1. 1 + i - 1 = i /\ i \in 1 .. (c + m) - 1 + 1 /\ i \in 1 .. c + a
      BY <1>1, <2>2, <2>12
    <3>2. p[i] = IF i <= c THEN t[i] ELSE s[i - c]
      BY <2>9, <2>13, <3>1
    <3>3. CASE i <= c
      <4>1. i \in 1 .. c
        BY <1>1, <3>3
      <4>2. QED
        BY <2>6, <3>2, <3>3, <4>1
    <3>4. CASE ~(i <= c)
      <4>1. i - c \in 1 .. m /\ c + (i - c) = i
        BY <1>1, <2>2, <3>4
      <4>2. QED
        BY <2>6, <3>2, <3>4, <4>1
    <3>5. QED
      BY <3>3, <3>4
  <2>16. Holds(e, p)
    <3>1. c + m < b
      BY <1>1, <2>2
    <3>2. Len(p) < Len(e) /\ (\A i \in 1 .. Len(p) : e[i] = p[i]) /\ e[Len(p) + 1] = 0
      BY <2>6, <2>7, <2>14, <2>15, <3>1
    <3>3. QED
      BY <2>7, <2>14, <3>2, HoldsIs
  <2>17. Holds(e, SubSeq(t \o s, 1, S!Min({n - 1, c + a})))
    BY <2>8, <2>10, <2>11, <2>16
  <2>18. QED
    BY <1>1, <1>8, <1>9, <2>4, <2>17
<1>12. QED
  BY <1>1, <1>10, <1>11

LEMMA CopiesAre ==
  ASSUME NEW s \in String, NEW t \in String, NEW n \in Nat
  PROVE  S!BoundedCopy(s, t, n)
<1>1. PICK a, c \in Nat : a = Len(s) /\ c = Len(t)
  BY StringFacts
<1>2. PICK u : u = [i \in 1 .. a + 2 |-> 9]
  OBVIOUS
<1>3. u \in Bytes /\ Len(u) = a + 2
  <2>1. a + 2 \in Nat /\ u \in [1 .. a + 2 -> 0 .. 255]
    BY <1>1, <1>2
  <2>2. u \in Seq(0 .. 255)
    BY <2>1, SeqDef
  <2>3. QED
    BY <2>1, <2>2, LenProperties DEF Bytes
<1>4. PICK d : d = t \o <<0>> \o u
  OBVIOUS
<1>5. d \in Bytes /\ Len(d) = c + 1 + (a + 2) /\ (\A i \in 1 .. c : d[i] = t[i]) /\ d[c + 1] = 0
  BY <1>1, <1>3, <1>4, MemoryIs
<1>6. Len(s) < Len(d) /\ Len(t) + Len(s) < Len(d)
  BY <1>1, <1>5
<1>7. PICK cpy, cat : cpy = S!Strlcpy(d, s, n) /\ cat = S!Strlcat(d, s, n)
  OBVIOUS
<1>8. /\ cpy.ret = Len(s)
      /\ \A i \in DOMAIN d : i > n => cpy.dst[i] = d[i]
      /\ n > 0 => Holds(cpy.dst, First(s, n - 1))
  BY <1>5, <1>6, <1>7, StrlcpyIs
<1>9. /\ cat.ret = Len(s) + S!Min({n, Len(t)})
      /\ \A i \in DOMAIN d : i > n => cat.dst[i] = d[i]
      /\ n > Len(t) => Holds(cat.dst, SubSeq(t \o s, 1, S!Min({n - 1, Len(t) + Len(s)})))
  BY <1>1, <1>5, <1>6, <1>7, StrlcatIs
<1>10. d = t \o <<0>> \o [i \in 1 .. Len(s) + 2 |-> 9]
  BY <1>1, <1>2, <1>4
<1>11. QED
  BY <1>7, <1>8, <1>9, <1>10 DEF S!BoundedCopy, Holds, First

(***************************************************************************)
(* For strings of any length: ft_strncmp orders their first bytes as       *)
(* unsigned numbers, a shorter string first; the searches find the first,  *)
(* or the last, occurrence; ft_strtrim drops what is in the set at both    *)
(* ends, whatever stands in front of the string; and ft_strlcpy and        *)
(* ft_strlcat leave a string, cut to size, and no byte changed behind it.  *)
(***************************************************************************)
THEOREM StringsRightCorrect == LibftSpec => []StringsRight
<1>1. ASSUME ArgsInv PROVE StringsRight
  <2>1. SUFFICES ASSUME args.to = "strings"
                 PROVE  /\ S!CompareIsOrder(args.s, args.t, args.n)
                        /\ \A c \in StringBytes : S!SearchesAgree(args.s, args.t, c, args.n)
                        /\ S!TrimmedBothEnds(args.s, args.t)
                        /\ S!BoundedCopy(args.s, args.t, args.n)
    BY DEF StringsRight
  <2>2. PICK s \in Strings(MaxString), t \in Strings(MaxString - 1), n \in 0 .. MaxString + 2 :
          args = [to |-> "strings", s |-> s, t |-> t, n |-> n]
    BY <1>1, <2>1 DEF ArgsInv, Arguments
  <2>3. s \in String /\ t \in String /\ n \in Nat
    BY <2>2, StringIs, LibftAssumption
  <2>4. args.s = s /\ args.t = t /\ args.n = n
    BY <2>2
  <2>5. StringBytes \subseteq Chars
    BY LibftAssumption DEF Chars
  <2>6. \A c \in StringBytes : S!SearchesAgree(s, t, c, n)
    BY <2>3, <2>5, SearchesAre
  <2>7. S!CompareIsOrder(s, t, n) /\ S!TrimmedBothEnds(s, t) /\ S!BoundedCopy(s, t, n)
    BY <2>3, CompareIs, TrimmedIs, CopiesAre
  <2>8. QED
    BY <2>4, <2>6, <2>7
<1>2. QED
  BY <1>1, ArgsInvariance, PTL

-----------------------------------------------------------------------------
(* The places where a run of bytes other than the delimiter ends, and      *)
(* begins; a run with both.                                                *)
Ends(s, c)   == {p \in 1 .. Len(s) : s[p] # c /\ (p = Len(s) \/ s[p + 1] = c)}
Begins(s, c) == {p \in 1 .. Len(s) : s[p] # c /\ (p = 1 \/ s[p - 1] = c)}

IsRun(s, c, x, y) ==
  /\ x \in Begins(s, c) /\ y \in Ends(s, c) /\ x <= y
  /\ \A i \in x .. y : s[i] # c

(* What a byte at an index is, with the zero at the end. *)
LEMMA DelimiterAt ==
  ASSUME NEW s \in String, NEW c \in Chars
  PROVE  \A p \in 0 .. Len(s) :
           /\ S!At(s, p) = c <=> p < Len(s) /\ s[p + 1] = c
           /\ S!At(s, p) \in {c, 0} <=> p = Len(s) \/ s[p + 1] = c
<1>1. PICK a \in Nat : a = Len(s)
  BY StringFacts
<1>2. c # 0
  BY DEF Chars
<1>3. SUFFICES ASSUME NEW p \in 0 .. a
               PROVE  /\ S!At(s, p) = c <=> p < a /\ s[p + 1] = c
                      /\ S!At(s, p) \in {c, 0} <=> p = a \/ s[p + 1] = c
  BY <1>1
<1>4. CASE p = a
  BY <1>1, <1>2, <1>4, AtIs
<1>5. CASE p < a
  <2>1. S!At(s, p) = s[p + 1] /\ s[p + 1] # 0
    BY <1>1, <1>5, AtIs
  <2>2. QED
    BY <1>1, <1>5, <2>1
<1>6. QED
  BY <1>1, <1>4, <1>5

(* ft_str_len_count, in mode 1, counts the ends of words. *)
LEMMA WordCountIs ==
  ASSUME NEW s \in String, NEW c \in Chars
  PROVE  /\ S!WordCount(s, c) = Cardinality(Ends(s, c)) /\ S!WordCount(s, c) \in Nat
         /\ IsFiniteSet(Ends(s, c)) /\ IsFiniteSet(Begins(s, c))
         /\ S!Countwords(s, c) = Cardinality(Begins(s, c))
<1>1. PICK a \in Nat : a = Len(s) /\ (s = << >> <=> a = 0)
  BY StringFacts
<1>2. Ends(s, c) \in SUBSET (1 .. a) /\ Begins(s, c) \in SUBSET (1 .. a)
  BY <1>1 DEF Ends, Begins
<1>3. IsFiniteSet(1 .. a)
  <2>1. 1 \in Int /\ a \in Int
    OBVIOUS
  <2>2. QED
    BY <2>1, FS_Interval
<1>4. IsFiniteSet(Ends(s, c)) /\ IsFiniteSet(Begins(s, c))
  BY <1>2, <1>3, FS_Subset
<1>5. Cardinality(Ends(s, c)) \in Nat
  BY <1>4, FS_CardinalityType
<1>6. \A T : S!Cardinality(T) = Cardinality(T)
  BY DEF S!Cardinality, Cardinality
<1>7. PICK T : T = {p \in 1 .. a : /\ p = a \/ S!At(s, p) = c
                                   /\ S!At(s, p - 1) # c}
  OBVIOUS
<1>8. S!WordCount(s, c) = IF s = << >> THEN 0 ELSE Cardinality(T)
  BY <1>1, <1>6, <1>7 DEF S!WordCount
<1>9. ASSUME NEW p \in 1 .. a PROVE p \in T <=> p \in Ends(s, c)
  <2>1. p \in 0 .. Len(s) /\ p - 1 \in 0 .. Len(s) /\ p - 1 < Len(s) /\ (p - 1) + 1 = p
    BY <1>1
  <2>2. S!At(s, p - 1) = c <=> s[p] = c
    BY <2>1, DelimiterAt
  <2>3. S!At(s, p) = c <=> p < a /\ s[p + 1] = c
    BY <1>1, <2>1, DelimiterAt
  <2>4. QED
    BY <1>1, <1>7, <2>2, <2>3 DEF Ends
<1>10. T = Ends(s, c)
  BY <1>2, <1>7, <1>9
<1>11. s = << >> => Cardinality(Ends(s, c)) = 0
  <2>1. ASSUME s = << >> PROVE Ends(s, c) = {}
    BY <1>1, <1>2, <2>1
  <2>2. QED
    BY <2>1, FS_EmptySet
<1>12. S!WordCount(s, c) = Cardinality(Ends(s, c))
  BY <1>8, <1>10, <1>11
<1>13. S!Countwords(s, c) = Cardinality(Begins(s, c))
  <2>1. {i \in 1 .. a : s[i] # c /\ (i = 1 \/ s[i - 1] = c)} = Begins(s, c)
    BY <1>1 DEF Begins
  <2>2. QED
    BY <1>1, <1>6, <2>1 DEF S!Countwords
<1>14. QED
  BY <1>4, <1>5, <1>12, <1>13

(* From k on, if there is a word left, ft_core comes to its start and end. *)
LEMMA NextWord ==
  ASSUME NEW s \in String, NEW c \in Chars, NEW k \in 0 .. Len(s),
         NEW p \in Ends(s, c), k < p
  PROVE  LET b == S!WordStart(s, c, k)
             e == S!WordEnd(s, c, b)
         IN  /\ b \in Nat /\ e \in Ends(s, c) /\ k <= b /\ b < e /\ e <= p
             /\ \A i \in k + 1 .. b : s[i] = c
             /\ \A i \in b + 1 .. e : s[i] # c
<1>1. PICK a \in Nat : a = Len(s)
  BY StringFacts
<1>2. p \in 1 .. a /\ s[p] # c /\ (p = a \/ s[p + 1] = c) /\ k \in Nat
  BY <1>1 DEF Ends
<1>3. PICK B : B = {b \in k .. a : S!At(s, b) # c \/ c = 0}
  OBVIOUS
<1>4. PICK b : b = S!Min(B)
  OBVIOUS
<1>5. c # 0
  BY DEF Chars
<1>6. \A q \in 0 .. a : /\ S!At(s, q) = c <=> q < a /\ s[q + 1] = c
                        /\ S!At(s, q) \in {c, 0} <=> q = a \/ s[q + 1] = c
  BY <1>1, DelimiterAt
<1>7. p - 1 \in B
  <2>1. p - 1 \in k .. a /\ p - 1 \in 0 .. a /\ (p - 1) + 1 = p
    BY <1>1, <1>2
  <2>2. S!At(s, p - 1) # c
    BY <1>2, <1>6, <2>1
  <2>3. QED
    BY <1>3, <2>1, <2>2
<1>8. B \subseteq Nat
  BY <1>1, <1>2, <1>3
<1>9. b \in B /\ \A y \in B : b <= y
  BY <1>4, <1>7, <1>8, MinIs
<1>10. b \in Nat /\ k <= b /\ b < p /\ b \in 0 .. a /\ S!At(s, b) # c
  BY <1>1, <1>2, <1>3, <1>5, <1>7, <1>8, <1>9
<1>11. ASSUME NEW i \in k + 1 .. b PROVE s[i] = c
  <2>1. i - 1 \in k .. a /\ i - 1 \in 0 .. a /\ (i - 1) + 1 = i /\ ~(b <= i - 1)
    BY <1>1, <1>2, <1>10
  <2>2. S!At(s, i - 1) = c
    BY <1>3, <1>9, <2>1
  <2>3. QED
    BY <1>6, <2>1, <2>2
<1>12. s[b + 1] # c
  BY <1>2, <1>6, <1>10
<1>13. PICK E : E = {e \in b .. a : S!At(s, e) \in {c, 0}}
  OBVIOUS
<1>14. PICK e : e = S!Min(E)
  OBVIOUS
<1>15. p \in E /\ E \subseteq Nat
  <2>1. p \in b .. a /\ p \in 0 .. a
    BY <1>1, <1>2, <1>10
  <2>2. QED
    BY <1>2, <1>6, <1>10, <1>13, <2>1
<1>16. e \in E /\ \A y \in E : e <= y
  BY <1>14, <1>15, MinIs
<1>17. e \in b .. a /\ e \in 0 .. a /\ e <= p /\ (e = a \/ s[e + 1] = c)
  <2>1. e \in b .. a /\ e \in 0 .. a /\ e <= p /\ S!At(s, e) \in {c, 0}
    BY <1>10, <1>13, <1>15, <1>16
  <2>2. QED
    BY <1>6, <2>1
<1>18. e # b
  BY <1>2, <1>10, <1>12, <1>17
<1>19. ASSUME NEW i \in b + 1 .. e PROVE s[i] # c
  <2>1. i - 1 \in b .. a /\ i - 1 \in 0 .. a /\ (i - 1) + 1 = i /\ ~(e <= i - 1)
    BY <1>1, <1>10, <1>17
  <2>2. S!At(s, i - 1) \notin {c, 0}
    BY <1>13, <1>16, <2>1
  <2>3. QED
    BY <1>6, <2>1, <2>2
<1>20. e \in Ends(s, c)
  <2>1. e \in 1 .. a /\ e \in b + 1 .. e
    BY <1>1, <1>10, <1>17, <1>18
  <2>2. QED
    BY <1>1, <1>17, <1>19, <2>1 DEF Ends
<1>21. b = S!WordStart(s, c, k)
  BY <1>1, <1>3, <1>4 DEF S!WordStart
<1>22. e = S!WordEnd(s, c, b)
  BY <1>1, <1>13, <1>14 DEF S!WordEnd
<1>23. b < e
  BY <1>10, <1>17, <1>18
<1>24. QED
  BY <1>10, <1>11, <1>17, <1>19, <1>20, <1>21, <1>22, <1>23

(* How many words end up to an index. *)
Rank(s, c, x) == Cardinality({p \in Ends(s, c) : p <= x})

NextEnd(s, c, k) == S!WordEnd(s, c, S!WordStart(s, c, k))

LEMMA RankIs ==
  ASSUME NEW s \in String, NEW c \in Chars
  PROVE  /\ Rank(s, c, 0) = 0
         /\ \A x, y \in Nat : x <= y => Rank(s, c, x) <= Rank(s, c, y)
         /\ \A x \in Nat : /\ Rank(s, c, x) \in Nat
                           /\ Rank(s, c, x) < S!WordCount(s, c) => \E p \in Ends(s, c) : x < p
<1>1. PICK E : E = Ends(s, c)
  OBVIOUS
<1>2. /\ IsFiniteSet(E) /\ S!WordCount(s, c) = Cardinality(E) /\ S!WordCount(s, c) \in Nat
      /\ \A p \in E : p \in Nat /\ ~(p <= 0)
  BY <1>1, WordCountIs DEF Ends
<1>3. \A x \in Nat : IsFiniteSet({p \in E : p <= x}) /\ Rank(s, c, x) = Cardinality({p \in E : p <= x})
                     /\ Rank(s, c, x) \in Nat
  <2>1. ASSUME NEW x \in Nat PROVE IsFiniteSet({p \in E : p <= x})
    BY <1>2, FS_Subset
  <2>2. ASSUME NEW x \in Nat PROVE Cardinality({p \in E : p <= x}) \in Nat
    BY <2>1, FS_CardinalityType
  <2>3. QED
    BY <1>1, <2>1, <2>2 DEF Rank
<1>4. Rank(s, c, 0) = 0
  <2>1. {p \in E : p <= 0} = {}
    BY <1>2
  <2>2. QED
    BY <1>3, <2>1, FS_EmptySet
<1>5. ASSUME NEW x \in Nat, NEW y \in Nat, x <= y PROVE Rank(s, c, x) <= Rank(s, c, y)
  <2>1. PICK X, Y : X = {p \in E : p <= x} /\ Y = {p \in E : p <= y}
    OBVIOUS
  <2>2. X \in SUBSET Y
    <3>1. \A p \in E : p \in Nat /\ (p <= x => p <= y)
      BY <1>2, <1>5
    <3>2. QED
      BY <2>1, <3>1
  <2>3. IsFiniteSet(Y) /\ Rank(s, c, x) = Cardinality(X) /\ Rank(s, c, y) = Cardinality(Y)
    BY <1>3, <2>1
  <2>4. QED
    BY <2>2, <2>3, FS_Subset
<1>6. ASSUME NEW x \in Nat, Rank(s, c, x) < S!WordCount(s, c) PROVE \E p \in E : x < p
  <2>1. SUFFICES ASSUME \A p \in E : ~(x < p) PROVE FALSE
    OBVIOUS
  <2>2. {p \in E : p <= x} = E
    <3>1. \A p \in E : p <= x
      <4>1. ASSUME NEW p \in E PROVE p <= x
        BY <1>2, <2>1
      <4>2. QED
        BY <4>1
    <3>2. QED
      BY <3>1
  <2>3. Rank(s, c, x) = S!WordCount(s, c)
    BY <1>2, <1>3, <2>2
  <2>4. QED
    BY <1>2, <1>6, <2>3
<1>7. QED
  BY <1>1, <1>3, <1>4, <1>5, <1>6

(* The next word is the next in rank. *)
LEMMA NextRank ==
  ASSUME NEW s \in String, NEW c \in Chars, NEW k \in 0 .. Len(s), Rank(s, c, k) < S!WordCount(s, c)
  PROVE  Rank(s, c, NextEnd(s, c, k)) = Rank(s, c, k) + 1
<1>1. PICK a \in Nat : a = Len(s)
  BY StringFacts
<1>2. k \in Nat
  OBVIOUS
<1>3. PICK p \in Ends(s, c) : k < p
  BY <1>2, RankIs
<1>4. PICK b, e : b = S!WordStart(s, c, k) /\ e = S!WordEnd(s, c, b)
  OBVIOUS
<1>5. /\ b \in Nat /\ e \in Ends(s, c) /\ k <= b /\ b < e
      /\ \A i \in k + 1 .. b : s[i] = c
      /\ \A i \in b + 1 .. e : s[i] # c
  BY <1>3, <1>4, NextWord
<1>6. PICK X, Y : X = {q \in Ends(s, c) : q <= k} /\ Y = {q \in Ends(s, c) : q <= e}
  OBVIOUS
<1>7. e \in Nat /\ e \notin X
  BY <1>2, <1>5, <1>6 DEF Ends
<1>8. Y = X \cup {e}
  <2>1. ASSUME NEW q \in Ends(s, c), q <= e, ~(q <= k) PROVE q = e
    <3>1. q \in Nat /\ s[q] # c /\ (q = a \/ s[q + 1] = c) /\ q <= a
      BY <1>1 DEF Ends
    <3>2. q > b
      <4>1. q \notin k + 1 .. b
        BY <1>5, <3>1
      <4>2. QED
        BY <1>2, <1>5, <2>1, <3>1, <4>1
    <3>3. e <= a
      BY <1>1, <1>5 DEF Ends
    <3>4. CASE q = a
      BY <1>1, <1>7, <2>1, <3>1, <3>3, <3>4
    <3>5. CASE s[q + 1] = c
      <4>1. q + 1 \notin b + 1 .. e
        BY <1>5, <3>5
      <4>2. QED
        BY <1>5, <1>7, <2>1, <3>1, <3>2, <4>1
    <3>6. QED
      BY <3>1, <3>4, <3>5
  <2>2. \A q \in Ends(s, c) : q <= k => q <= e
    <3>1. \A q \in Ends(s, c) : q \in Nat
      BY DEF Ends
    <3>2. QED
      BY <1>2, <1>5, <1>7, <3>1
  <2>3. e <= e
    BY <1>7
  <2>4. QED
    BY <1>5, <1>6, <2>1, <2>2, <2>3
<1>9. IsFiniteSet(X)
  <2>1. X \in SUBSET Ends(s, c) /\ IsFiniteSet(Ends(s, c))
    BY <1>6, WordCountIs
  <2>2. QED
    BY <2>1, FS_Subset
<1>10. Cardinality(Y) = Cardinality(X) + 1
  BY <1>7, <1>8, <1>9, FS_AddElement
<1>11. QED
  BY <1>4, <1>6, <1>10 DEF Rank, NextEnd

(* The words, one after the other, as a function of their number. *)
Steps(s, c, n, f) == f = [i \in 0 .. n |-> IF i = 0 THEN 0 ELSE NextEnd(s, c, f[i - 1])]

LEMMA StepsExist ==
  ASSUME NEW s, NEW c, NEW n \in Nat
  PROVE  \E f : Steps(s, c, n, f)
<1> DEFINE Bad == {m \in Nat : ~\E f : Steps(s, c, m, f)}
<1>1. SUFFICES ASSUME Bad # {} PROVE FALSE
  OBVIOUS
<1>2. PICK m \in Bad : \A y \in Bad : m <= y
  <2>1. Bad \subseteq Nat
    OBVIOUS
  <2>2. QED
    BY <1>1, <2>1, LeastOf
<1>3. CASE m = 0
  <2>1. PICK f : f = [i \in 0 .. 0 |-> 0]
    OBVIOUS
  <2>2. \A i \in 0 .. 0 : i = 0
    OBVIOUS
  <2>3. Steps(s, c, 0, f)
    BY <2>1, <2>2 DEF Steps
  <2>4. QED
    BY <1>2, <1>3, <2>3
<1>4. CASE m # 0
  <2>1. m \in Nat /\ m - 1 \in Nat /\ ~(m <= m - 1)
    BY <1>2, <1>4
  <2>2. PICK g : Steps(s, c, m - 1, g)
    BY <1>2, <2>1
  <2>3. PICK f : f = [i \in 0 .. m |-> IF i < m THEN g[i] ELSE NextEnd(s, c, g[m - 1])]
    OBVIOUS
  <2>4. ASSUME NEW i \in 0 .. m PROVE f[i] = IF i = 0 THEN 0 ELSE NextEnd(s, c, f[i - 1])
    <3>1. CASE i = 0
      <4>1. f[0] = g[0] /\ 0 \in 0 .. m - 1
        BY <2>1, <2>3
      <4>2. g[0] = 0
        BY <2>2, <4>1 DEF Steps
      <4>3. QED
        BY <3>1, <4>1, <4>2
    <3>2. CASE i # 0 /\ i < m
      <4>1. f[i] = g[i] /\ f[i - 1] = g[i - 1] /\ i \in 0 .. m - 1
        BY <2>1, <2>3, <3>2
      <4>2. g[i] = NextEnd(s, c, g[i - 1])
        BY <2>2, <3>2, <4>1 DEF Steps
      <4>3. QED
        BY <3>2, <4>1, <4>2
    <3>3. CASE i = m
      <4>1. f[i] = NextEnd(s, c, g[m - 1]) /\ f[i - 1] = g[m - 1] /\ i # 0
        BY <1>4, <2>1, <2>3, <3>3
      <4>2. QED
        BY <4>1
    <3>4. QED
      BY <2>1, <3>1, <3>2, <3>3
  <2>5. f = [i \in 0 .. m |-> f[i]]
    BY <2>3
  <2>6. Steps(s, c, m, f)
    BY <2>4, <2>5 DEF Steps
  <2>7. QED
    BY <1>2, <2>6
<1>5. QED
  BY <1>3, <1>4

(* The word of number i is a run, and it is the next one behind word i - 1. *)
NthWord(s, c, f, i) ==
  LET b == S!WordStart(s, c, f[i - 1])
  IN  b \in Nat /\ f[i - 1] <= b /\ IsRun(s, c, b + 1, f[i])

LEMMA StepsAreRuns ==
  ASSUME NEW s \in String, NEW c \in Chars, NEW f, Steps(s, c, S!WordCount(s, c), f)
  PROVE  /\ \A i \in 0 .. S!WordCount(s, c) : f[i] \in 0 .. Len(s) /\ Rank(s, c, f[i]) = i
         /\ \A i \in 1 .. S!WordCount(s, c) : NthWord(s, c, f, i)
<1>1. PICK a, n \in Nat : a = Len(s) /\ n = S!WordCount(s, c)
  BY StringFacts, WordCountIs
<1>2. \A i \in 0 .. n : f[i] = IF i = 0 THEN 0 ELSE NextEnd(s, c, f[i - 1])
  BY <1>1 DEF Steps
<1> DEFINE Right(i) == /\ f[i] \in 0 .. a /\ Rank(s, c, f[i]) = i
                       /\ i = 0 \/ f[i] \in Ends(s, c)
           Bad == {i \in 0 .. n : ~Right(i)}
<1>3. Right(0)
  <2>1. f[0] = 0
    BY <1>1, <1>2
  <2>2. QED
    BY <1>1, <2>1, RankIs
<1>4. ASSUME NEW i \in 1 .. n, Right(i - 1)
      PROVE  Right(i) /\ NthWord(s, c, f, i)
  <2>1. i - 1 \in 0 .. n /\ i \in 0 .. n /\ i # 0 /\ i - 1 < n
    BY <1>1
  <2>2. PICK k : k = f[i - 1]
    OBVIOUS
  <2>3. k \in 0 .. Len(s) /\ Rank(s, c, k) = i - 1 /\ Rank(s, c, k) < S!WordCount(s, c) /\ k \in Nat
        /\ (i - 1 = 0 \/ k \in Ends(s, c))
    BY <1>1, <1>4, <2>1, <2>2
  <2>4. PICK p \in Ends(s, c) : k < p
    BY <2>3, RankIs
  <2>5. PICK b, e : b = S!WordStart(s, c, k) /\ e = S!WordEnd(s, c, b)
    OBVIOUS
  <2>6. /\ b \in Nat /\ e \in Ends(s, c) /\ k <= b /\ b < e
        /\ \A j \in k + 1 .. b : s[j] = c
        /\ \A j \in b + 1 .. e : s[j] # c
    BY <2>3, <2>4, <2>5, NextWord
  <2>7. e \in 1 .. a
    BY <1>1, <2>6 DEF Ends
  <2>8. f[i] = e /\ Rank(s, c, e) = (i - 1) + 1
    <3>1. e = NextEnd(s, c, k) /\ f[i] = NextEnd(s, c, k)
      BY <1>2, <2>1, <2>2, <2>5 DEF NextEnd
    <3>2. QED
      BY <2>3, <3>1, NextRank
  <2>9. Right(i)
    BY <1>1, <2>1, <2>6, <2>7, <2>8
  <2>10. b + 1 \in 1 .. a /\ s[b + 1] # c
    BY <2>6, <2>7
  <2>11. b + 1 = 1 \/ s[b] = c
    <3>1. CASE b # k
      <4>1. b \in k + 1 .. b
        BY <2>3, <2>6, <3>1
      <4>2. QED
        BY <2>6, <4>1
    <3>2. CASE b = k /\ i - 1 = 0
      <4>1. k = 0
        BY <1>1, <1>2, <2>1, <2>2, <3>2
      <4>2. QED
        BY <3>2, <4>1
    <3>3. CASE b = k /\ k \in Ends(s, c)
      <4>1. k # Len(s)
        BY <1>1, <2>6, <2>7, <3>3
      <4>2. s[k + 1] = c
        BY <3>3, <4>1 DEF Ends
      <4>3. QED
        BY <2>10, <3>3, <4>2
    <3>4. QED
      BY <2>3, <3>1, <3>2, <3>3
  <2>12. b + 1 \in Begins(s, c)
    <3>1. (b + 1) - 1 = b
      BY <2>6
    <3>2. QED
      BY <1>1, <2>10, <2>11, <3>1 DEF Begins
  <2>13. IsRun(s, c, b + 1, e)
    <3>1. b + 1 <= e
      BY <2>6, <2>7
    <3>2. QED
      BY <2>6, <2>12, <3>1 DEF IsRun
  <2>14. NthWord(s, c, f, i)
    BY <2>2, <2>5, <2>6, <2>8, <2>13 DEF NthWord
  <2>15. QED
    BY <2>9, <2>14
<1>5. \A i \in 0 .. n : Right(i)
  <2>1. SUFFICES ASSUME Bad # {} PROVE FALSE
    OBVIOUS
  <2>2. Bad \subseteq Nat
    OBVIOUS
  <2>3. PICK x \in Bad : \A y \in Bad : x <= y
    BY <2>1, <2>2, LeastOf
  <2>4. x \in 1 .. n /\ x - 1 \in 0 .. n /\ ~(x <= x - 1) /\ ~Right(x)
    BY <1>1, <1>3, <2>3
  <2>5. Right(x - 1)
    BY <2>3, <2>4
  <2>6. QED
    BY <1>4, <2>4, <2>5
<1>6. ASSUME NEW i \in 1 .. n PROVE NthWord(s, c, f, i)
  <2>1. i - 1 \in 0 .. n
    BY <1>1
  <2>2. Right(i - 1)
    BY <1>5, <2>1
  <2>3. QED
    BY <1>4, <2>2
<1>7. QED
  BY <1>1, <1>5, <1>6

(* Sets are of one size if there is a function that takes each element of  *)
(* the one to another element of the other, and leaves none out.           *)
LEMMA SameSize ==
  ASSUME NEW A, NEW B, IsFiniteSet(B), NEW f \in [A -> B],
         \A x, y \in A : f[x] = f[y] => x = y, \A b \in B : \E x \in A : f[x] = b
  PROVE  IsFiniteSet(A) /\ Cardinality(A) = Cardinality(B)
<1>1. f \in Bijection(A, B)
  BY DEF Bijection, Injection, Surjection, IsInjective
<1>2. ExistsBijection(A, B)
  BY <1>1, Fun_ExistsBij
<1>3. ExistsBijection(B, A)
  BY <1>2, Fun_ExistsBijSymmetric
<1>4. QED
  BY <1>3, FS_Bijection

(* Each run is found by its end, or by its start. *)
LEMMA RunsAre ==
  ASSUME NEW s \in String, NEW c \in Chars,
         NEW R, R = {r \in (1 .. Len(s)) \X (1 .. Len(s)) : IsRun(s, c, r[1], r[2])}
  PROVE  Cardinality(R) = Cardinality(Ends(s, c)) /\ Cardinality(R) = Cardinality(Begins(s, c))
<1>1. PICK a \in Nat : a = Len(s)
  BY StringFacts
<1>2. \A r \in R : /\ r = <<r[1], r[2]>> /\ r[1] \in 1 .. a /\ r[2] \in 1 .. a
                   /\ IsRun(s, c, r[1], r[2])
  BY <1>1
<1>3. \A x, y \in 1 .. a : IsRun(s, c, x, y) => <<x, y>> \in R /\ <<x, y>>[1] = x /\ <<x, y>>[2] = y
  BY <1>1
<1>4. IsFiniteSet(Ends(s, c)) /\ IsFiniteSet(Begins(s, c))
  BY WordCountIs
<1>5. ASSUME NEW x \in 1 .. a, NEW y \in 1 .. a, NEW z \in 1 .. a, IsRun(s, c, x, z), IsRun(s, c, y, z)
      PROVE  ~(x < y)
  <2>1. SUFFICES ASSUME x < y PROVE FALSE
    OBVIOUS
  <2>2. y - 1 \in x .. z /\ y # 1
    BY <2>1, <1>5 DEF IsRun
  <2>3. s[y - 1] = c /\ s[y - 1] # c
    BY <1>5, <2>2 DEF IsRun, Begins
  <2>4. QED
    BY <2>3
<1>6. ASSUME NEW x \in 1 .. a, NEW y \in 1 .. a, NEW z \in 1 .. a, IsRun(s, c, z, x), IsRun(s, c, z, y)
      PROVE  ~(x < y)
  <2>1. SUFFICES ASSUME x < y PROVE FALSE
    OBVIOUS
  <2>2. x + 1 \in z .. y /\ x # Len(s)
    BY <1>1, <2>1, <1>6 DEF IsRun
  <2>3. s[x + 1] = c /\ s[x + 1] # c
    BY <1>6, <2>2 DEF IsRun, Ends
  <2>4. QED
    BY <2>3
<1>7. ASSUME NEW y \in Ends(s, c) PROVE \E x \in 1 .. a : IsRun(s, c, x, y)
  <2>1. y \in 1 .. a /\ s[y] # c
    BY <1>1 DEF Ends
  <2>2. PICK T : T = {x \in 1 .. y : \A i \in x .. y : s[i] # c}
    OBVIOUS
  <2>3. y \in T /\ T \subseteq Nat
    <3>1. y .. y = {y} /\ y \in 1 .. y
      BY <2>1
    <3>2. QED
      BY <2>1, <2>2, <3>1
  <2>4. PICK x \in T : \A z \in T : x <= z
    BY <2>3, LeastOf
  <2>5. x \in 1 .. y /\ x \in 1 .. a /\ x <= y /\ \A i \in x .. y : s[i] # c
    BY <2>1, <2>2, <2>4
  <2>6. x = 1 \/ s[x - 1] = c
    <3>1. SUFFICES ASSUME x # 1, s[x - 1] # c PROVE FALSE
      OBVIOUS
    <3>2. x - 1 \in 1 .. y /\ ~(x <= x - 1)
      BY <2>1, <2>5, <3>1
    <3>3. \A i \in x - 1 .. y : i = x - 1 \/ i \in x .. y
      BY <2>1, <2>5
    <3>4. x - 1 \in T
      BY <2>2, <2>5, <3>1, <3>2, <3>3
    <3>5. QED
      BY <2>4, <3>2, <3>4
  <2>7. x \in Begins(s, c)
    <3>1. x \in x .. y
      BY <2>5
    <3>2. QED
      BY <1>1, <2>5, <2>6, <3>1 DEF Begins
  <2>8. QED
    BY <2>5, <2>7 DEF IsRun
<1>8. ASSUME NEW x \in Begins(s, c) PROVE \E y \in 1 .. a : IsRun(s, c, x, y)
  <2>1. x \in 1 .. a /\ s[x] # c
    BY <1>1 DEF Begins
  <2>2. PICK T : T = {y \in x .. a : y = a \/ s[y + 1] = c}
    OBVIOUS
  <2>3. a \in T /\ T \subseteq Nat
    BY <2>1, <2>2
  <2>4. PICK y \in T : \A z \in T : y <= z
    BY <2>3, LeastOf
  <2>5. y \in x .. a /\ y \in 1 .. a /\ x <= y /\ (y = a \/ s[y + 1] = c)
    BY <2>1, <2>2, <2>4
  <2>6. ASSUME NEW i \in x .. y PROVE s[i] # c
    <3>1. CASE i = x
      BY <2>1, <3>1
    <3>2. CASE i # x
      <4>1. i - 1 \in x .. a /\ ~(y <= i - 1) /\ (i - 1) + 1 = i
        BY <2>1, <2>5, <3>2
      <4>2. QED
        BY <2>2, <2>4, <4>1
    <3>3. QED
      BY <3>1, <3>2
  <2>7. y \in Ends(s, c)
    <3>1. y \in x .. y
      BY <2>5
    <3>2. QED
      BY <1>1, <2>5, <2>6, <3>1 DEF Ends
  <2>8. QED
    BY <2>5, <2>6, <2>7 DEF IsRun
<1>9. Cardinality(R) = Cardinality(Ends(s, c))
  <2>1. PICK f : f = [r \in R |-> r[2]]
    OBVIOUS
  <2>2. f \in [R -> Ends(s, c)]
    BY <1>2, <2>1 DEF IsRun
  <2>3. ASSUME NEW q \in R, NEW r \in R, f[q] = f[r] PROVE q = r
    <3>1. q[2] = r[2] /\ IsRun(s, c, q[1], q[2]) /\ IsRun(s, c, r[1], r[2])
      BY <1>2, <2>1, <2>3
    <3>2. ~(q[1] < r[1]) /\ ~(r[1] < q[1])
      BY <1>2, <1>5, <3>1
    <3>3. q[1] = r[1]
      BY <1>2, <3>2
    <3>4. QED
      BY <1>2, <3>1, <3>3
  <2>4. ASSUME NEW y \in Ends(s, c) PROVE \E r \in R : f[r] = y
    <3>1. PICK x \in 1 .. a : IsRun(s, c, x, y)
      BY <1>7
    <3>2. y \in 1 .. a
      BY <1>1 DEF Ends
    <3>3. <<x, y>> \in R /\ <<x, y>>[2] = y
      BY <1>3, <3>1, <3>2
    <3>4. QED
      BY <2>1, <3>3
  <2>5. QED
    BY <1>4, <2>2, <2>3, <2>4, SameSize
<1>10. Cardinality(R) = Cardinality(Begins(s, c))
  <2>1. PICK f : f = [r \in R |-> r[1]]
    OBVIOUS
  <2>2. f \in [R -> Begins(s, c)]
    BY <1>2, <2>1 DEF IsRun
  <2>3. ASSUME NEW q \in R, NEW r \in R, f[q] = f[r] PROVE q = r
    <3>1. q[1] = r[1] /\ IsRun(s, c, q[1], q[2]) /\ IsRun(s, c, r[1], r[2])
      BY <1>2, <2>1, <2>3
    <3>2. ~(q[2] < r[2]) /\ ~(r[2] < q[2])
      BY <1>2, <1>6, <3>1
    <3>3. q[2] = r[2]
      BY <1>2, <3>2
    <3>4. QED
      BY <1>2, <3>1, <3>3
  <2>4. ASSUME NEW x \in Begins(s, c) PROVE \E r \in R : f[r] = x
    <3>1. PICK y \in 1 .. a : IsRun(s, c, x, y)
      BY <1>8
    <3>2. x \in 1 .. a
      BY <1>1 DEF Begins
    <3>3. <<x, y>> \in R /\ <<x, y>>[1] = x
      BY <1>3, <3>1, <3>2
    <3>4. QED
      BY <2>1, <3>3
  <2>5. PICK B : B = Begins(s, c)
    OBVIOUS
  <2>6. IsFiniteSet(B) /\ f \in [R -> B] /\ \A x \in B : \E r \in R : f[r] = x
    BY <1>4, <2>2, <2>4, <2>5
  <2>7. \A q, r \in R : f[q] = f[r] => q = r
    BY <2>3
  <2>8. Cardinality(R) = Cardinality(B)
    BY <2>6, <2>7, SameSize
  <2>9. QED
    BY <2>5, <2>8
<1>11. QED
  BY <1>9, <1>10

(* ft_split, whatever fails, from the words of ft_core. *)
LEMMA WordsAre ==
  ASSUME NEW s \in String, NEW c \in Chars
  PROVE  LET n == S!WordCount(s, c) IN
         \E f : /\ S!Words(s, c) = [i \in 1 .. n |-> SubSeq(s, S!WordStart(s, c, f[i - 1]) + 1, f[i])]
                /\ \A i \in 0 .. n : f[i] \in 0 .. Len(s) /\ Rank(s, c, f[i]) = i
                /\ \A i \in 1 .. n : NthWord(s, c, f, i)
<1>1. PICK n \in Nat : n = S!WordCount(s, c)
  BY WordCountIs
<1> DEFINE f == CHOOSE g : g = [i \in 0 .. n |->
                     IF i = 0 THEN 0 ELSE S!WordEnd(s, c, S!WordStart(s, c, g[i - 1]))]
<1>2. S!Words(s, c) = [i \in 1 .. n |-> SubSeq(s, S!WordStart(s, c, f[i - 1]) + 1, f[i])]
  BY <1>1 DEF S!Words
<1>3. Steps(s, c, n, f)
  <2>1. \E g : Steps(s, c, n, g)
    BY StepsExist
  <2>2. QED
    BY <2>1 DEF Steps, NextEnd
<1> HIDE DEF f
<1>4. QED
  BY <1>1, <1>2, <1>3, StepsAreRuns

(* The words are those of the runs, in their order. *)
LEMMA SplitWordsIs ==
  ASSUME NEW s \in String, NEW c \in Chars
  PROVE  S!SplitWords(s, c)
<1>1. PICK a, n \in Nat : a = Len(s) /\ n = S!WordCount(s, c)
  BY StringFacts, WordCountIs
<1>2. PICK f : /\ S!Words(s, c) = [i \in 1 .. n |-> SubSeq(s, S!WordStart(s, c, f[i - 1]) + 1, f[i])]
               /\ \A i \in 0 .. n : f[i] \in 0 .. a /\ Rank(s, c, f[i]) = i
               /\ \A i \in 1 .. n : NthWord(s, c, f, i)
  BY <1>1, WordsAre
<1> DEFINE Word(x, y) == /\ \A i \in x .. y : s[i] # c
                         /\ x = 1 \/ s[x - 1] = c
                         /\ y = Len(s) \/ s[y + 1] = c
           runs == {r \in (1 .. Len(s)) \X (1 .. Len(s)) : r[1] <= r[2] /\ Word(r[1], r[2])}
<1>3. ASSUME NEW x \in 1 .. a, NEW y \in 1 .. a PROVE IsRun(s, c, x, y) <=> x <= y /\ Word(x, y)
  <2>1. ASSUME IsRun(s, c, x, y) PROVE x <= y /\ Word(x, y)
    BY <1>1, <2>1 DEF IsRun, Begins, Ends
  <2>2. ASSUME x <= y, Word(x, y) PROVE IsRun(s, c, x, y)
    <3>1. x \in x .. y /\ y \in x .. y
      BY <2>2
    <3>2. s[x] # c /\ s[y] # c
      BY <2>2, <3>1
    <3>3. QED
      BY <1>1, <2>2, <3>2 DEF IsRun, Begins, Ends
  <2>3. QED
    BY <2>1, <2>2
<1>4. PICK R : R = {r \in (1 .. Len(s)) \X (1 .. Len(s)) : IsRun(s, c, r[1], r[2])}
  OBVIOUS
<1>5. runs = R
  <2>1. \A r \in (1 .. Len(s)) \X (1 .. Len(s)) : r[1] \in 1 .. a /\ r[2] \in 1 .. a
    BY <1>1
  <2>2. \A r \in (1 .. Len(s)) \X (1 .. Len(s)) : IsRun(s, c, r[1], r[2]) <=> r[1] <= r[2] /\ Word(r[1], r[2])
    BY <1>3, <2>1
  <2> HIDE DEF Word
  <2>3. QED
    BY <1>4, <2>2
<1>6. Cardinality(R) = n /\ S!Countwords(s, c) = n
  BY <1>1, <1>4, RunsAre, WordCountIs
<1>7. S!Cardinality(runs) = n
  <2>1. S!Cardinality(runs) = Cardinality(runs)
    BY DEF S!Cardinality, Cardinality
  <2>2. QED
    BY <1>5, <1>6, <2>1
<1>8. PICK run : run = [i \in 1 .. n |-> <<S!WordStart(s, c, f[i - 1]) + 1, f[i]>>]
  OBVIOUS
<1>9. ASSUME NEW i \in 1 .. n
      PROVE  /\ run[i] \in R /\ run[i][1] = S!WordStart(s, c, f[i - 1]) + 1 /\ run[i][2] = f[i]
             /\ f[i] \in Nat /\ f[i - 1] \in Nat /\ S!WordStart(s, c, f[i - 1]) \in Nat
             /\ f[i - 1] <= S!WordStart(s, c, f[i - 1])
  <2>1. PICK b : b = S!WordStart(s, c, f[i - 1])
    OBVIOUS
  <2>2. b \in Nat /\ f[i - 1] <= b /\ IsRun(s, c, b + 1, f[i])
    BY <1>2, <2>1 DEF NthWord
  <2>3. run[i] = <<b + 1, f[i]>>
    BY <1>8, <2>1
  <2>4. b + 1 \in 1 .. Len(s) /\ f[i] \in 1 .. Len(s)
    BY <2>2 DEF IsRun, Begins, Ends
  <2>5. i - 1 \in 0 .. n /\ i \in 0 .. n
    BY <1>1
  <2>6. f[i] \in Nat /\ f[i - 1] \in Nat
    BY <1>1, <1>2, <2>5
  <2>7. QED
    BY <1>4, <2>1, <2>2, <2>3, <2>4, <2>6
<1>10. ASSUME NEW i \in 1 .. n, NEW j \in 1 .. n, i < j PROVE run[i][2] < run[j][1]
  <2>1. i \in 0 .. n /\ j - 1 \in 0 .. n
    BY <1>1
  <2>2. Rank(s, c, f[i]) = i /\ Rank(s, c, f[j - 1]) = j - 1
    BY <1>2, <2>1
  <2>3. f[i] \in Nat /\ f[j - 1] \in Nat
    BY <1>9
  <2>4. f[i] <= f[j - 1]
    <3>1. SUFFICES ASSUME f[j - 1] <= f[i], f[j - 1] # f[i] PROVE FALSE
      BY <2>3
    <3>2. Rank(s, c, f[j - 1]) <= Rank(s, c, f[i])
      BY <2>3, <3>1, RankIs
    <3>3. j - 1 = i
      BY <1>10, <2>2, <3>2
    <3>4. QED
      BY <3>1, <3>3
  <2>5. PICK b : b = S!WordStart(s, c, f[j - 1])
    OBVIOUS
  <2>6. run[i][2] = f[i] /\ run[j][1] = b + 1 /\ b \in Nat /\ f[j - 1] <= b
    BY <1>9, <2>5
  <2>7. QED
    BY <2>3, <2>4, <2>6
<1>11. S!Words(s, c) = [i \in 1 .. n |-> SubSeq(s, run[i][1], run[i][2])]
  <2>1. \A i \in 1 .. n : SubSeq(s, run[i][1], run[i][2]) = SubSeq(s, S!WordStart(s, c, f[i - 1]) + 1, f[i])
    BY <1>9
  <2>2. QED
    BY <1>2, <2>1
<1>12. run \in [1 .. n -> runs]
  BY <1>5, <1>8, <1>9
<1>13. Len(S!Words(s, c)) = n
  BY <1>1, <1>2
<1> HIDE DEF runs
<1>14. /\ \E g \in [1 .. S!Cardinality(runs) -> runs] :
            /\ \A i, j \in 1 .. S!Cardinality(runs) : i < j => g[i][2] < g[j][1]
            /\ S!Words(s, c) = [i \in 1 .. S!Cardinality(runs) |-> SubSeq(s, g[i][1], g[i][2])]
       /\ S!Countwords(s, c) = Len(S!Words(s, c))
  BY <1>6, <1>7, <1>10, <1>11, <1>12, <1>13
<1>15. QED
  BY <1>14 DEF S!SplitWords, runs

(* No word is empty, so that ft_free stops behind the last, not before. *)
LEMMA WordsNotEmpty ==
  ASSUME NEW s \in String, NEW c \in Chars
  PROVE  /\ S!Words(s, c) \in Seq(String) /\ Len(S!Words(s, c)) = S!WordCount(s, c)
         /\ \A i \in 1 .. S!WordCount(s, c) : S!Words(s, c)[i] # << >>
<1>1. PICK a, n \in Nat : a = Len(s) /\ n = S!WordCount(s, c)
  BY StringFacts, WordCountIs
<1>2. PICK f : /\ S!Words(s, c) = [i \in 1 .. n |-> SubSeq(s, S!WordStart(s, c, f[i - 1]) + 1, f[i])]
               /\ \A i \in 1 .. n : NthWord(s, c, f, i)
  BY <1>1, WordsAre
<1>3. PICK w : w = S!Words(s, c)
  OBVIOUS
<1>4. ASSUME NEW i \in 1 .. n PROVE w[i] \in String /\ w[i] # << >>
  <2>1. PICK b : b = S!WordStart(s, c, f[i - 1])
    OBVIOUS
  <2>2. b \in Nat /\ IsRun(s, c, b + 1, f[i])
    BY <1>2, <2>1 DEF NthWord
  <2>3. PICK e : e = f[i]
    OBVIOUS
  <2>4. e \in Nat /\ b + 1 \in Nat \ {0} /\ (b + 1) - 1 <= e /\ e <= Len(s) /\ e - (b + 1) + 1 >= 1
    BY <1>1, <2>2, <2>3 DEF IsRun, Ends
  <2>5. PICK x : x = SubSeq(s, b + 1, e)
    OBVIOUS
  <2>6. s \in Seq(Chars)
    BY DEF String
  <2>7. x \in Seq(Chars) /\ Len(x) = e - (b + 1) + 1
    BY <2>4, <2>5, <2>6, SubSeqIs
  <2>8. x # << >>
    BY <2>4, <2>7
  <2>9. w[i] = x
    BY <1>2, <1>3, <2>1, <2>3, <2>5
  <2>10. QED
    BY <2>7, <2>8, <2>9 DEF String
<1>5. w = [i \in 1 .. n |-> w[i]]
  BY <1>2, <1>3
<1>6. w \in [1 .. n -> String]
  BY <1>4, <1>5
<1>7. w \in Seq(String)
  BY <1>1, <1>6, SeqDef
<1>8. QED
  BY <1>1, <1>3, <1>4, <1>6, <1>7, LenProperties

LEMMA AllOrNothingIs ==
  ASSUME NEW s \in String, NEW c \in Chars, NEW fails \in Nat
  PROVE  S!SplitAllOrNothing(s, c, fails)
<1>1. PICK w, n : w = S!Words(s, c) /\ n = S!WordCount(s, c)
  OBVIOUS
<1>2. n \in Nat /\ w \in Seq(String) /\ Len(w) = n /\ \A i \in 1 .. n : w[i] # << >> /\ w[i] \in String
  <2>1. n \in Nat /\ w \in Seq(String) /\ Len(w) = n /\ \A i \in 1 .. n : w[i] # << >>
    BY <1>1, WordCountIs, WordsNotEmpty
  <2>2. \A i \in 1 .. n : w[i] \in String
    BY <2>1
  <2>3. QED
    BY <2>1, <2>2
<1>3. PICK r : r = S!Split(s, c, fails)
  OBVIOUS
<1>4. CASE fails = 1
  <2>1. r = [ok |-> FALSE, words |-> << >>, live |-> {}]
    BY <1>1, <1>3, <1>4 DEF S!Split
  <2>2. fails \in 1 .. Len(w) + 1 /\ ~r.ok /\ r.live = {}
    BY <1>2, <1>4, <2>1
  <2>3. QED
    BY <1>1, <1>3, <2>2 DEF S!SplitAllOrNothing
<1>5. CASE fails \in 2 .. n + 1
  <2>1. PICK m \in Nat : m = fails - 2 /\ m < n
    BY <1>2, <1>5
  <2>2. PICK p : p = SubSeq(w, 1, m)
    OBVIOUS
  <2>3. 1 \in Nat \ {0} /\ 1 - 1 <= m /\ m <= Len(w) /\ m - 1 + 1 = m
    BY <1>2, <2>1
  <2>4. p \in Seq(String) /\ Len(p) = m - 1 + 1 /\ \A i \in 1 .. m - 1 + 1 : p[i] = w[1 + i - 1]
    BY <1>2, <2>2, <2>3, SubSeqIs
  <2>5. \A i \in 1 .. m : p[i] # << >>
    <3>1. \A i \in 1 .. m : 1 + i - 1 = i /\ i \in 1 .. m - 1 + 1 /\ i \in 1 .. n
      <4>1. n \in Nat
        BY <1>2
      <4>2. QED
        BY <2>1, <4>1
    <3>2. QED
      BY <1>2, <2>4, <3>1
  <2>6. PICK given : given = p \o << << >> >>
    OBVIOUS
  <2>7. << << >> >> \in Seq(String) /\ Len(<< << >> >>) = 1
    <3>1. << >> \in String
      BY DEF String
    <3>2. QED
      BY <3>1
  <2>8. given \in Seq(String) /\ Len(given) = m + 1
        /\ \A i \in 1 .. m + 1 : given[i] = IF i <= m THEN p[i] ELSE << << >> >>[i - m]
    BY <2>1, <2>3, <2>4, <2>6, <2>7, ConcatProperties
  <2>9. \A i \in 1 .. m : i \in DOMAIN given /\ given[i] # << >>
    <3>1. \A i \in 1 .. m : i \in 1 .. m + 1 /\ i <= m
      BY <2>1
    <3>2. DOMAIN given = 1 .. m + 1
      BY <2>8
    <3>3. QED
      BY <2>5, <2>8, <3>1, <3>2
  <2>10. 0 .. m \subseteq S!FreeArray(given)
    <3>1. ASSUME NEW i \in 1 .. m PROVE i \in S!FreeArray(given)
      <4>1. \A j \in 1 .. i : j \in 1 .. m
        BY <2>1
      <4>2. \A j \in 1 .. i : given[j] # << >>
        BY <2>9, <4>1
      <4>3. QED
        BY <2>9, <4>2 DEF S!FreeArray
    <3>2. 0 \in S!FreeArray(given)
      BY DEF S!FreeArray
    <3>3. \A i \in 0 .. m : i = 0 \/ i \in 1 .. m
      BY <2>1
    <3>4. QED
      BY <3>1, <3>2, <3>3
  <2>11. r = [ok |-> FALSE, words |-> << >>, live |-> (0 .. m) \ S!FreeArray(given)]
    <3>1. fails # 1 /\ fails \in 2 .. Len(w) + 1
      BY <1>2, <1>5
    <3>2. QED
      BY <1>1, <1>3, <2>1, <2>2, <2>6, <3>1 DEF S!Split
  <2>12. fails \in 1 .. Len(w) + 1 /\ ~r.ok /\ r.live = {}
    BY <1>2, <1>5, <2>10, <2>11
  <2>13. QED
    BY <1>1, <1>3, <2>12 DEF S!SplitAllOrNothing
<1>6. CASE fails # 1 /\ fails \notin 2 .. n + 1
  <2>1. r = [ok |-> TRUE, words |-> w, live |-> 0 .. n]
    BY <1>1, <1>2, <1>3, <1>6 DEF S!Split
  <2>2. fails \notin 1 .. Len(w) + 1
    BY <1>2, <1>6
  <2>3. S!Cardinality(0 .. n) = n + 1
    <3>1. S!Cardinality(0 .. n) = Cardinality(0 .. n)
      BY DEF S!Cardinality, Cardinality
    <3>2. 0 \in Int /\ n \in Int /\ ~(0 > n) /\ n - 0 + 1 = n + 1
      BY <1>2
    <3>3. QED
      BY <3>1, <3>2, FS_Interval
  <2>4. r.ok /\ S!Cardinality(r.live) = Len(r.words) + 1
    BY <1>2, <2>1, <2>3
  <2>5. QED
    BY <1>1, <1>3, <2>2, <2>4 DEF S!SplitAllOrNothing
<1>7. QED
  BY <1>4, <1>5, <1>6

(***************************************************************************)
(* For strings of any length: ft_split returns the maximal runs of bytes   *)
(* other than the delimiter, in order, as many as it made room for.        *)
(***************************************************************************)
THEOREM SplitWordsCorrect == LibftSpec => []SplitWords
<1>1. ASSUME ArgsInv PROVE SplitWords
  <2>1. SUFFICES ASSUME args.to = "split" PROVE S!SplitWords(args.s, args.c)
    BY DEF SplitWords
  <2>2. PICK s \in Strings(MaxString), c \in StringBytes, failing \in 0 .. MaxString + 1 :
          args = [to |-> "split", s |-> s, c |-> c, failing |-> failing]
    BY <1>1, <2>1 DEF ArgsInv, Arguments
  <2>3. s \in String /\ c \in Chars
    BY <2>2, StringIs, LibftAssumption DEF Chars
  <2>4. S!SplitWords(s, c)
    BY <2>3, SplitWordsIs
  <2>5. QED
    BY <2>2, <2>4
<1>2. QED
  BY <1>1, ArgsInvariance, PTL

(***************************************************************************)
(* And whichever of its allocations fails, it returns NULL and leaves no   *)
(* block behind; else all of the blocks are in the result.                 *)
(***************************************************************************)
THEOREM SplitAllOrNothingCorrect == LibftSpec => []SplitAllOrNothing
<1>1. ASSUME ArgsInv PROVE SplitAllOrNothing
  <2>1. SUFFICES ASSUME args.to = "split" PROVE S!SplitAllOrNothing(args.s, args.c, args.failing)
    BY DEF SplitAllOrNothing
  <2>2. PICK s \in Strings(MaxString), c \in StringBytes, failing \in 0 .. MaxString + 1 :
          args = [to |-> "split", s |-> s, c |-> c, failing |-> failing]
    BY <1>1, <2>1 DEF ArgsInv, Arguments
  <2>3. s \in String /\ c \in Chars /\ failing \in Nat
    BY <2>2, StringIs, LibftAssumption DEF Chars
  <2>4. S!SplitAllOrNothing(s, c, failing)
    BY <2>3, AllOrNothingIs
  <2>5. QED
    BY <2>2, <2>4
<1>2. QED
  BY <1>1, ArgsInvariance, PTL
-----------------------------------------------------------------------------
(***************************************************************************)
(* Characters, and the check of a base.                                    *)
(***************************************************************************)
(* The classes fit together for every number of a character, not only for  *)
(* those that Libft lists.                                                 *)
LEMMA ClassesAreOne ==
  ASSUME NEW c \in Int
  PROVE  C!ClassesAgree(c)
<1>1. \A d \in Int : C!Tolower(d) = IF d \in 65 .. 90 THEN d + 32 ELSE d
  BY DEF C!Tolower
<1>2. \A d \in Int : C!Toupper(d) = IF d \in 97 .. 122 THEN d - 32 ELSE d
  BY DEF C!Toupper
<1>3. /\ (C!Isalpha(c) # 0) <=> (c \in 97 .. 122 \/ c \in 65 .. 90)
      /\ (C!Isdigit(c) # 0) <=> c \in 48 .. 57
      /\ (C!Isalnum(c) # 0) <=> (c \in 97 .. 122 \/ c \in 65 .. 90 \/ c \in 48 .. 57)
      /\ (C!Isprint(c) # 0) <=> c \in 32 .. 126
  BY DEF C!Isalpha, C!Isdigit, C!Isalnum, C!Isprint, C!InClass
<1>4. (C!Isascii(c) # 0) <=> (0 <= c /\ c <= 127)
  BY DEF C!Isascii
<1>5. C!Tolower(c) # c <=> c \in 65 .. 90
  BY <1>1
<1>6. C!Toupper(c) # c <=> c \in 97 .. 122
  BY <1>2
<1>7. C!Tolower(c) # c => C!Toupper(C!Tolower(c)) = c
  BY <1>1, <1>2
<1>8. C!Toupper(c) # c => C!Tolower(C!Toupper(c)) = c
  BY <1>1, <1>2
<1>9. (C!Isalpha(c) # 0) = (C!Tolower(c) # c \/ C!Toupper(c) # c)
  BY <1>3, <1>5, <1>6
<1>10. (C!Isalnum(c) # 0) = (C!Isalpha(c) # 0 \/ C!Isdigit(c) # 0)
  BY <1>3
<1>11. (C!Isascii(c) # 0) = (0 <= c /\ c <= 127)
  BY <1>4
<1>12. /\ C!Isalnum(c) # 0 => C!Isprint(c) # 0
       /\ C!Isprint(c) # 0 => C!Isascii(c) # 0
  BY <1>3, <1>4
<1>13. QED
  BY <1>7, <1>8, <1>9, <1>10, <1>11, <1>12 DEF C!ClassesAgree

(***************************************************************************)
(* The case and class functions of libft agree with each other for every   *)
(* character and EOF (a part of OutputRight).                              *)
(***************************************************************************)
THEOREM ClassesCorrect ==
  LibftSpec => [](args.to = "character" => C!ClassesAgree(args.c))
<1>1. ASSUME ArgsInv PROVE args.to = "character" => C!ClassesAgree(args.c)
  <2>1. SUFFICES ASSUME args.to = "character" PROVE C!ClassesAgree(args.c)
    OBVIOUS
  <2>2. PICK c \in -1 .. 255 : args = [to |-> "character", c |-> c]
    BY <1>1, <2>1 DEF ArgsInv, Arguments
  <2>3. C!ClassesAgree(c)
    BY <2>2, ClassesAreOne
  <2>4. QED
    BY <2>2, <2>3
<1>2. QED
  BY <1>1, ArgsInvariance, PTL

(* A sequence has as many elements as places exactly if none comes twice. *)
LEMMA NoneTwice ==
  ASSUME NEW s, NEW a \in Nat, DOMAIN s = 1 .. a
  PROVE  (Cardinality({s[i] : i \in 1 .. a}) = a) <=>
           \A i, j \in 1 .. a : s[i] = s[j] => i = j
<1>1. PICK T : T = {s[i] : i \in 1 .. a}
  OBVIOUS
<1>2. PICK f : f = [i \in 1 .. a |-> s[i]]
  OBVIOUS
<1>3. f \in Surjection(1 .. a, T)
  BY <1>1, <1>2 DEF Surjection
<1>4. IsFiniteSet(1 .. a) /\ Cardinality(1 .. a) = a
  BY FS_Interval
<1>5. Cardinality(T) = a <=> f \in Injection(1 .. a, T)
  BY <1>3, <1>4, FS_Surjection
<1>6. f \in Injection(1 .. a, T) <=> \A i, j \in 1 .. a : s[i] = s[j] => i = j
  BY <1>1, <1>2 DEF Injection, IsInjective
<1>7. QED
  BY <1>1, <1>5, <1>6

(* The loops of ft_strlen_check look at each pair of places. *)
LEMMA BaseIsChecked ==
  ASSUME NEW s \in String
  PROVE  P!BaseChecked(s)
<1>1. PICK a \in Nat : a = Len(s) /\ DOMAIN s = 1 .. a
  BY DEF String
<1>2. PICK T : T = {s[i] : i \in 1 .. a}
  OBVIOUS
<1>3. P!ToSet(s) = T
  BY <1>1, <1>2 DEF P!ToSet
<1>4. P!Cardinality(T) = Cardinality(T)
  BY DEF P!Cardinality, Cardinality
<1>5. Cardinality(T) = a <=> \A i, j \in 1 .. a : s[i] = s[j] => i = j
  BY <1>1, <1>2, NoneTwice
<1>6. (\E i \in 1 .. a : \E j \in i + 1 .. a : s[j] = s[i]) <=>
        ~ \A i, j \in 1 .. a : s[i] = s[j] => i = j
  OBVIOUS
<1>7. (\E i \in 1 .. a : s[i] \in {P!Minus, P!Plus}) <=> {P!Minus, P!Plus} \cap T # {}
  BY <1>2
<1>8. P!StrlenCheck(s) = -1 <=>
        \/ a < 2
        \/ \E i \in 1 .. a : s[i] \in {P!Minus, P!Plus}
        \/ \E i \in 1 .. a : \E j \in i + 1 .. a : s[j] = s[i]
  <2>1. P!StrlenCheck(s) =
          IF \/ a <= 1
             \/ \E i \in 1 .. a : \/ s[i] \in {P!Minus, P!Plus}
                                  \/ \E j \in i + 1 .. a : s[j] = s[i]
          THEN -1 ELSE a
    BY <1>1 DEF P!StrlenCheck
  <2>2. a # -1 /\ (a <= 1 <=> a < 2)
    BY <1>1
  <2>3. QED
    BY <2>1, <2>2
<1>9. (P!StrlenCheck(s) = -1) <=>
        (a < 2 \/ Cardinality(T) # a \/ {P!Minus, P!Plus} \cap T # {})
  BY <1>5, <1>6, <1>7, <1>8
<1>10. (P!StrlenCheck(s) = -1) =
        (Len(s) < 2 \/ P!Cardinality(P!ToSet(s)) # Len(s) \/ {P!Minus, P!Plus} \cap P!ToSet(s) # {})
  BY <1>1, <1>3, <1>4, <1>9
<1>11. QED
  BY <1>10 DEF P!BaseChecked

(***************************************************************************)
(* For texts of any length: ft_strlen_check refuses a base exactly if two  *)
(* of its digits are the same, or one is a sign, or there are less than    *)
(* two (a part of NumbersRight).                                           *)
(***************************************************************************)
THEOREM BaseCorrect == LibftSpec => [](args.to = "text" => P!BaseChecked(args.text))
<1>1. ASSUME ArgsInv PROVE args.to = "text" => P!BaseChecked(args.text)
  <2>1. SUFFICES ASSUME args.to = "text" PROVE P!BaseChecked(args.text)
    OBVIOUS
  <2>2. PICK text \in BoundedSeq(TextBytes, MaxDigits) : args = [to |-> "text", text |-> text]
    BY <1>1, <2>1 DEF ArgsInv, Arguments
  <2>3. text \in String
    <3>1. PICK m \in 0 .. MaxDigits : text \in [1 .. m -> TextBytes]
      BY <2>2 DEF BoundedSeq, SeqOf
    <3>2. TextBytes \subseteq Chars
      BY LibftAssumption DEF Chars
    <3>3. MaxDigits \in Nat
      BY LibftAssumption
    <3>4. m \in Nat /\ text = [i \in 1 .. m |-> text[i]] /\ \A i \in 1 .. m : text[i] \in Chars
      BY <3>1, <3>2, <3>3
    <3>5. QED
      BY <3>4, MakesString
  <2>4. P!BaseChecked(text)
    BY <2>3, BaseIsChecked
  <2>5. QED
    BY <2>2, <2>4
<1>2. QED
  BY <1>1, ArgsInvariance, PTL
=============================================================================
