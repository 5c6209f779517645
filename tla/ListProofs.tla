----------------------------- MODULE ListProofs -----------------------------
(***************************************************************************)
(* Proofs about the linked lists, for any number of nodes and contents.    *)
(* The invariant is ListInv: the nodes reached from the caller's list and  *)
(* from the copy are two sequences, and every call is a change of these,   *)
(* a node added in front or behind or the first one taken away.            *)
(***************************************************************************)
EXTENDS LibftProofs

(***************************************************************************)
(* A list stands for the sequence of its nodes.                            *)
(***************************************************************************)
\* the node at a place, NULL behind the last
NodeAt(p, k) == IF k \in DOMAIN p THEN p[k] ELSE NULL

\* with the next fields nx, the nodes from n on are those of p, in that order
Linked(nx, n, p) ==
  /\ p \in Seq(Nodes)
  /\ n = NodeAt(p, 1)
  /\ \A k \in DOMAIN p : nx[p[k]] = NodeAt(p, k + 1)

Alone(n) == IF n = NULL THEN << >> ELSE <<n>>

\* three lists without a node in common, or twice in one of them
Apart(f, l, c) ==
  /\ IsInjective(f) /\ IsInjective(l) /\ IsInjective(c)
  /\ ToSet(f) \cap ToSet(l) = {} /\ ToSet(f) \cap ToSet(c) = {} /\ ToSet(l) \cap ToSet(c) = {}

\* contents as the caller makes them, and as the function of ft_lstmap does
Plain(m)  == {<<k>> : k \in 1 .. m}
Applied   == {Append(c, "f") : c \in Plain(Contents)} \cup {None}

ListTypes ==
  /\ next \in [Nodes -> Int] /\ cont \in [Nodes -> Plain(Contents) \cup Applied]
  /\ made \in 0 .. Contents
  /\ pc \in {"idle", "map", "clearlst", "clearcopy", "walk"}
  /\ seen \in Seq(Nodes)
  /\ want \in Seq(Plain(Contents)) /\ mapped \in Seq(Plain(Contents))

\* l and c are the sequences of nodes of the list and of its copy
Lists(l, c) ==
  /\ Linked(next, fresh, Alone(fresh)) /\ Linked(next, Roots[2], l) /\ Linked(next, Roots[3], c)
  /\ Apart(Alone(fresh), l, c)
  /\ live = ToSet(Alone(fresh)) \cup ToSet(l) \cup ToSet(c)

\* each content in one node, none of them lost or freed too early
OneEach(ct, nodes, contents) ==
  /\ \A n, m \in nodes : ct[n] = ct[m] /\ ct[n] # None => n = m
  /\ {ct[n] : n \in nodes} \ {None} = contents

\* the lists' own contents are as the caller made them
Held(l, c) ==
  /\ OneEach(cont, live, blocks)
  /\ \A n \in ToSet(Alone(fresh)) \cup ToSet(l) : cont[n] \in Plain(made)
  /\ \A n \in ToSet(c) : cont[n] \in Applied

\* the list is the history of what was added to it
InOrder(l) == pc # "clearlst" => Len(l) = Len(want) /\ \A k \in DOMAIN l : cont[l[k]] = want[k]

\* the copy is what ft_lstmap has mapped, or all of it
Mapping(c) ==
  pc # "clearcopy" =>
    /\ Len(c) <= Len(mapped)
    /\ \A k \in DOMAIN c : cont[c[k]] \in {Append(mapped[k], "f"), None}
    /\ pc # "map" /\ c # << >> => Len(c) = Len(mapped)

\* a loop that runs has come to the node behind those it has done
Going(l, c) ==
  /\ pc = "map" => mapped = want /\ at = NodeAt(l, Len(c) + 1)
  /\ pc = "walk" => /\ Len(seen) <= Len(l) /\ \A k \in DOMAIN seen : seen[k] = l[k]
                    /\ at = NodeAt(l, Len(seen) + 1)

Stands(l, c) == Lists(l, c) /\ Held(l, c) /\ InOrder(l) /\ Mapping(c) /\ Going(l, c)

Before(l, c) == ListTypes /\ Stands(l, c)

ListInv == ListTypes /\ Stands(Path(Roots[2]), Path(Roots[3]))

-----------------------------------------------------------------------------
(* NULL is no address of a node. *)
LEMMA NullIsNoNode == NULL \notin Nodes /\ Nodes \subseteq Nat
  BY ListAssumption DEF NULL

\* what a sequence of nodes is
LEMMA SeqIs ==
  ASSUME NEW p \in Seq(Nodes)
  PROVE  /\ Len(p) \in Nat /\ DOMAIN p = 1 .. Len(p)
         /\ p = [k \in 1 .. Len(p) |-> p[k]]
         /\ \A k \in 1 .. Len(p) : p[k] \in Nodes
         /\ p = << >> <=> Len(p) = 0
  OBVIOUS

\* a sequence without repetition is no longer than there are nodes
LEMMA NoLonger ==
  ASSUME NEW p \in Seq(Nodes), IsInjective(p)
  PROVE  Cardinality(Nodes) \in Nat /\ Len(p) <= Cardinality(Nodes)
<1>1. IsFiniteSet(Nodes) /\ Cardinality(Nodes) \in Nat
  BY ListAssumption, FS_CardinalityType
<1>2. Len(p) \in Nat /\ p \in [1 .. Len(p) -> Nodes]
  BY SeqIs
<1>3. IsFiniteSet(1 .. Len(p)) /\ Cardinality(1 .. Len(p)) = Len(p)
  <2>1. 1 \in Int /\ Len(p) \in Int
    BY <1>2
  <2>2. Cardinality(1 .. Len(p)) = IF 1 > Len(p) THEN 0 ELSE Len(p) - 1 + 1
    BY <2>1, FS_Interval
  <2>3. QED
    BY <1>2, <2>1, <2>2, FS_Interval
<1>4. CASE Len(p) > Cardinality(Nodes)
  <2>1. PICK x, y \in 1 .. Len(p) : x # y /\ p[x] = p[y]
    BY <1>1, <1>2, <1>3, <1>4, FS_PigeonHole
  <2>2. QED
    BY <1>2, <2>1 DEF IsInjective
<1>5. QED
  BY <1>1, <1>2, <1>4

(* The loop over the nodes finds those of the sequence, and no circle. *)
LEMMA PathIs ==
  ASSUME NEW nx, NEW n, NEW p, Linked(nx, n, p), IsInjective(p)
  PROVE  PathIn(nx, n) = p
<1> DEFINE Turns(f) == [k \in Nat |-> IF k = 0 THEN n
                          ELSE IF f[k - 1] \in Nodes THEN nx[f[k - 1]] ELSE NULL]
           node == CHOOSE f : f = Turns(f)
           w == [k \in Nat |-> NodeAt(p, k + 1)]
           card == Cardinality(Nodes)
           ends == {k \in 0 .. card : node[k] = NULL}
           all == ends \cup {card + 1}
<1>1. p \in Seq(Nodes) /\ Len(p) \in Nat /\ DOMAIN p = 1 .. Len(p) /\ n = NodeAt(p, 1)
      /\ \A k \in DOMAIN p : nx[p[k]] = NodeAt(p, k + 1) /\ p[k] \in Nodes
  BY SeqIs DEF Linked
<1>2. w = Turns(w)
  <2>1. ASSUME NEW k \in Nat
        PROVE  w[k] = IF k = 0 THEN n ELSE IF w[k - 1] \in Nodes THEN nx[w[k - 1]] ELSE NULL
    <3>1. CASE k = 0
      BY <1>1, <3>1
    <3>2. CASE k # 0
      <4>1. k - 1 \in Nat /\ w[k - 1] = NodeAt(p, k) /\ w[k] = NodeAt(p, k + 1)
        BY <3>2
      <4>2. CASE k \in DOMAIN p
        BY <1>1, <3>2, <4>1, <4>2 DEF NodeAt
      <4>3. CASE k \notin DOMAIN p
        <5>1. NodeAt(p, k) = NULL /\ NodeAt(p, k + 1) = NULL
          BY <1>1, <3>2, <4>3 DEF NodeAt
        <5>2. QED
          BY <3>2, <4>1, <5>1, NullIsNoNode
      <4>4. QED
        BY <4>2, <4>3
    <3>3. QED
      BY <3>1, <3>2
  <2> HIDE DEF w
  <2>2. w = [k \in Nat |-> w[k]]
    BY DEF w
  <2>3. QED
    BY <2>1, <2>2
<1>3. node = Turns(node)
  <2> HIDE DEF w, Turns
  <2>1. QED
    BY <1>2
<1>4. ASSUME NEW k \in Nat PROVE node[k] = NodeAt(p, k + 1)
  <2> HIDE DEF node, w
  <2>1. node[0] = w[0]
    <3>1. node[0] = n
      BY <1>3
    <3>2. w[0] = n
      BY <1>2
    <3>3. QED
      BY <3>1, <3>2
  <2>2. ASSUME NEW i \in 1 .. k, node[i - 1] = w[i - 1] PROVE node[i] = w[i]
    <3>1. i \in Nat /\ i # 0
      OBVIOUS
    <3>2. node[i] = IF node[i - 1] \in Nodes THEN nx[node[i - 1]] ELSE NULL
      BY <1>3, <3>1
    <3>3. w[i] = IF w[i - 1] \in Nodes THEN nx[w[i - 1]] ELSE NULL
      BY <1>2, <3>1
    <3>4. QED
      BY <2>2, <3>2, <3>3
  <2>3. node[k] = w[k]
    BY <2>1, <2>2, SameTurns
  <2>4. QED
    BY <2>3 DEF w
<1>5. card \in Nat /\ Len(p) <= card
  BY <1>1, NoLonger
<1>6. Len(p) \in all /\ \A k \in all : Len(p) <= k
  <2> HIDE DEF node, card
  <2>1. ASSUME NEW k \in 0 .. card PROVE node[k] = NULL <=> Len(p) <= k
    <3>1. node[k] = NodeAt(p, k + 1)
      BY <1>4
    <3>2. CASE k + 1 \in DOMAIN p
      <4>1. NodeAt(p, k + 1) \in Nodes
        BY <1>1, <3>2 DEF NodeAt
      <4>2. QED
        BY <1>1, <3>1, <3>2, <4>1, NullIsNoNode
    <3>3. CASE k + 1 \notin DOMAIN p
      BY <1>1, <3>1, <3>3 DEF NodeAt
    <3>4. QED
      BY <3>2, <3>3
  <2>2. Len(p) \in ends
    BY <1>1, <1>5, <2>1
  <2>3. \A k \in ends : Len(p) <= k
    BY <2>1
  <2>4. Len(p) <= card + 1
    BY <1>1, <1>5
  <2> HIDE DEF ends
  <2>5. QED
    BY <2>2, <2>3, <2>4
<1>7. Min(all) = Len(p)
  <2>1. all \subseteq Nat
    BY <1>5
  <2> HIDE DEF all
  <2>2. Min(all) \in all /\ \A k \in all : Min(all) <= k
    BY <1>6, <2>1, MinIs
  <2>3. Len(p) <= Min(all) /\ Min(all) <= Len(p) /\ Min(all) \in Nat /\ Len(p) \in Nat
    BY <1>1, <1>6, <2>1, <2>2
  <2>4. QED
    BY <2>3
<1>8. PathIn(nx, n) = [k \in 1 .. Min(all) |-> node[k - 1]]
  BY DEF PathIn
<1> HIDE DEF node, all
<1>9. \A k \in 1 .. Len(p) : node[k - 1] = p[k]
  <2>1. ASSUME NEW k \in 1 .. Len(p) PROVE node[k - 1] = p[k]
    <3>1. k - 1 \in Nat /\ (k - 1) + 1 = k
      BY <1>1
    <3>2. node[k - 1] = NodeAt(p, k)
      BY <1>4, <3>1
    <3>3. QED
      BY <1>1, <3>2 DEF NodeAt
  <2>2. QED
    BY <2>1
<1>10. QED
  BY <1>1, <1>7, <1>8, <1>9, SeqIs

(* What is not in a list may change. *)
LEMMA LinkedSame ==
  ASSUME NEW nx, NEW ny, NEW n, NEW p, Linked(nx, n, p), \A m \in ToSet(p) : ny[m] = nx[m]
  PROVE  Linked(ny, n, p)
BY DEF Linked, ToSet

(* NULL is the empty list. *)
LEMMA LinkedEmpty ==
  ASSUME NEW nx, NEW p, Linked(nx, NULL, p)
  PROVE  p = << >>
<1>1. p \in Seq(Nodes) /\ NULL = NodeAt(p, 1)
  BY DEF Linked
<1>2. 1 \notin DOMAIN p
  BY <1>1, SeqIs, NullIsNoNode DEF NodeAt
<1>3. QED
  BY <1>1, <1>2, SeqIs

(* The first node of a list, and the list without it. *)
LEMMA LinkedHead ==
  ASSUME NEW nx, NEW n, NEW p, Linked(nx, n, p), n # NULL, IsInjective(p)
  PROVE  /\ n \in Nodes /\ p # << >> /\ p[1] = n /\ 1 \in DOMAIN p
         /\ Linked(nx, nx[n], Tail(p)) /\ IsInjective(Tail(p))
         /\ ToSet(p) = {n} \cup ToSet(Tail(p)) /\ n \notin ToSet(Tail(p))
         /\ Len(Tail(p)) = Len(p) - 1 /\ \A k \in DOMAIN Tail(p) : k + 1 \in DOMAIN p /\ Tail(p)[k] = p[k + 1]
<1>1. /\ p \in Seq(Nodes) /\ Len(p) \in Nat /\ DOMAIN p = 1 .. Len(p) /\ n = NodeAt(p, 1)
      /\ \A k \in DOMAIN p : nx[p[k]] = NodeAt(p, k + 1) /\ p[k] \in Nodes
      /\ \A i, j \in DOMAIN p : p[i] = p[j] => i = j
  BY SeqIs DEF Linked, IsInjective
<1>2. 1 \in DOMAIN p /\ p[1] = n /\ n \in Nodes /\ p # << >>
  BY <1>1 DEF NodeAt
<1>3. PICK q : q = Tail(p)
  OBVIOUS
<1>4. /\ q \in Seq(Nodes) /\ Len(q) = Len(p) - 1 /\ DOMAIN q = 1 .. Len(p) - 1
      /\ \A k \in 1 .. Len(p) - 1 : q[k] = p[k + 1]
  <2>1. q \in Seq(Nodes) /\ Len(q) = Len(p) - 1 /\ \A k \in 1 .. Len(q) : q[k] = p[k + 1]
    BY <1>1, <1>2, <1>3, HeadTailProperties
  <2>2. QED
    BY <2>1
<1>5. Linked(nx, nx[n], q)
  <2>1. nx[n] = NodeAt(q, 1)
    <3>1. nx[n] = NodeAt(p, 2)
      BY <1>1, <1>2
    <3>2. QED
      BY <1>1, <1>4, <3>1 DEF NodeAt
  <2>2. ASSUME NEW k \in DOMAIN q PROVE nx[q[k]] = NodeAt(q, k + 1)
    <3>1. k \in 1 .. Len(p) - 1 /\ k + 1 \in DOMAIN p /\ (k + 1) + 1 = k + 2
      BY <1>1, <1>4
    <3>2. nx[q[k]] = NodeAt(p, k + 2)
      BY <1>1, <1>4, <3>1
    <3>3. k + 1 \in DOMAIN q <=> k + 2 \in DOMAIN p
      BY <1>1, <1>4, <3>1
    <3>4. k + 1 \in DOMAIN q => q[k + 1] = p[k + 2]
      BY <1>1, <1>4, <3>1
    <3>5. QED
      BY <3>2, <3>3, <3>4 DEF NodeAt
  <2>3. QED
    BY <1>4, <2>1, <2>2 DEF Linked
<1>6. IsInjective(q)
  <2>1. ASSUME NEW i \in DOMAIN q, NEW j \in DOMAIN q, q[i] = q[j] PROVE i = j
    <3>1. i \in 1 .. Len(p) - 1 /\ j \in 1 .. Len(p) - 1 /\ i + 1 \in DOMAIN p /\ j + 1 \in DOMAIN p
      BY <1>1, <1>4
    <3>2. p[i + 1] = p[j + 1]
      BY <1>4, <2>1, <3>1
    <3>3. i + 1 = j + 1
      BY <1>1, <3>1, <3>2
    <3>4. QED
      BY <3>1, <3>3
  <2>2. QED
    BY <2>1 DEF IsInjective
<1>7. ToSet(p) = {n} \cup ToSet(q)
  <2>1. ASSUME NEW m \in ToSet(p) PROVE m \in {n} \cup ToSet(q)
    <3>1. PICK k \in DOMAIN p : m = p[k]
      BY DEF ToSet
    <3>2. CASE k = 1
      BY <1>2, <3>1, <3>2
    <3>3. CASE k # 1
      <4>1. k - 1 \in DOMAIN q /\ q[k - 1] = m
        BY <1>1, <1>4, <3>1, <3>3
      <4>2. QED
        BY <4>1 DEF ToSet
    <3>4. QED
      BY <3>2, <3>3
  <2>2. ASSUME NEW m \in ToSet(q) PROVE m \in ToSet(p)
    <3>1. PICK k \in DOMAIN q : m = q[k]
      BY DEF ToSet
    <3>2. k + 1 \in DOMAIN p /\ p[k + 1] = m
      BY <1>1, <1>4, <3>1
    <3>3. QED
      BY <3>2 DEF ToSet
  <2>3. n \in ToSet(p)
    BY <1>2 DEF ToSet
  <2>4. QED
    BY <2>1, <2>2, <2>3
<1>8. n \notin ToSet(q)
  <2>1. ASSUME NEW k \in DOMAIN q, q[k] = n PROVE FALSE
    <3>1. k + 1 \in DOMAIN p /\ p[k + 1] = p[1] /\ k \in Nat /\ k >= 1
      BY <1>1, <1>2, <1>4, <2>1
    <3>2. k + 1 = 1
      BY <1>1, <1>2, <3>1
    <3>3. QED
      BY <3>1, <3>2
  <2>2. QED
    BY <2>1 DEF ToSet
<1>9. Len(q) = Len(p) - 1 /\ \A k \in DOMAIN q : k + 1 \in DOMAIN p /\ q[k] = p[k + 1]
  BY <1>1, <1>4
<1>10. QED
  BY <1>2, <1>3, <1>5, <1>6, <1>7, <1>8, <1>9

(* A list with a node more in front of it, as ft_lstadd_front makes it. *)
LEMMA LinkedFront ==
  ASSUME NEW nx, NEW n, NEW p, Linked(nx, n, p), IsInjective(p), NEW m \in Nodes, m \notin ToSet(p),
         nx[m] = n
  PROVE  \E q \in Seq(Nodes) :
            /\ Linked(nx, m, q) /\ IsInjective(q) /\ ToSet(q) = {m} \cup ToSet(p)
            /\ Len(q) = Len(p) + 1 /\ q[1] = m /\ \A k \in 1 .. Len(p) : q[k + 1] = p[k]
<1>1. /\ p \in Seq(Nodes) /\ Len(p) \in Nat /\ DOMAIN p = 1 .. Len(p) /\ n = NodeAt(p, 1)
      /\ \A k \in 1 .. Len(p) : nx[p[k]] = NodeAt(p, k + 1) /\ p[k] \in Nodes /\ p[k] # m
      /\ \A i, j \in 1 .. Len(p) : p[i] = p[j] => i = j
  BY SeqIs DEF Linked, IsInjective, ToSet
<1>2. PICK q : q = [k \in 1 .. Len(p) + 1 |-> IF k = 1 THEN m ELSE p[k - 1]]
  OBVIOUS
<1>3. /\ q \in Seq(Nodes) /\ Len(q) = Len(p) + 1 /\ DOMAIN q = 1 .. Len(p) + 1 /\ q[1] = m
      /\ \A k \in 1 .. Len(p) : q[k + 1] = p[k]
      /\ \A k \in 2 .. Len(p) + 1 : q[k] = p[k - 1]
  BY <1>1, <1>2
<1>4. Linked(nx, m, q)
  <2>1. m = NodeAt(q, 1)
    BY <1>1, <1>3 DEF NodeAt
  <2>2. ASSUME NEW k \in DOMAIN q PROVE nx[q[k]] = NodeAt(q, k + 1)
    <3>1. NodeAt(q, k + 1) = NodeAt(p, k)
      <4>1. k + 1 \in DOMAIN q <=> k \in DOMAIN p
        BY <1>1, <1>3
      <4>2. k \in DOMAIN p => q[k + 1] = p[k]
        BY <1>1, <1>3
      <4>3. QED
        BY <4>1, <4>2 DEF NodeAt
    <3>2. CASE k = 1
      BY <1>1, <1>3, <3>1, <3>2
    <3>3. CASE k # 1
      <4>1. k - 1 \in 1 .. Len(p) /\ q[k] = p[k - 1] /\ (k - 1) + 1 = k
        BY <1>1, <1>3, <3>3
      <4>2. nx[q[k]] = NodeAt(p, k)
        BY <1>1, <4>1
      <4>3. QED
        BY <3>1, <4>2
    <3>4. QED
      BY <3>2, <3>3
  <2>3. QED
    BY <1>3, <2>1, <2>2 DEF Linked
<1>5. IsInjective(q)
  <2>1. ASSUME NEW i \in DOMAIN q, NEW j \in DOMAIN q, q[i] = q[j] PROVE i = j
    <3>1. i \in 1 .. Len(p) + 1 /\ j \in 1 .. Len(p) + 1
      BY <1>3
    <3>2. CASE i = 1
      <4>1. CASE j = 1
        BY <3>2, <4>1
      <4>2. CASE j # 1
        <5>1. j - 1 \in 1 .. Len(p) /\ q[j] = p[j - 1]
          BY <1>1, <1>3, <3>1, <4>2
        <5>2. QED
          BY <1>1, <1>3, <2>1, <3>2, <5>1
      <4>3. QED
        BY <4>1, <4>2
    <3>3. CASE i # 1
      <4>1. i - 1 \in 1 .. Len(p) /\ q[i] = p[i - 1]
        BY <1>1, <1>3, <3>1, <3>3
      <4>2. j # 1
        BY <1>1, <1>3, <2>1, <4>1
      <4>3. j - 1 \in 1 .. Len(p) /\ q[j] = p[j - 1]
        BY <1>1, <1>3, <3>1, <4>2
      <4>4. i - 1 = j - 1
        BY <1>1, <2>1, <4>1, <4>3
      <4>5. QED
        BY <3>1, <4>4
    <3>4. QED
      BY <3>2, <3>3
  <2>2. QED
    BY <2>1 DEF IsInjective
<1>6. ToSet(q) = {m} \cup ToSet(p)
  <2>1. ASSUME NEW o \in ToSet(q) PROVE o \in {m} \cup ToSet(p)
    <3>1. PICK k \in DOMAIN q : o = q[k]
      BY DEF ToSet
    <3>2. k = 1 \/ (k - 1 \in DOMAIN p /\ q[k] = p[k - 1])
      BY <1>1, <1>3
    <3>3. QED
      BY <1>3, <3>1, <3>2 DEF ToSet
  <2>2. ASSUME NEW o \in ToSet(p) PROVE o \in ToSet(q)
    <3>1. PICK k \in DOMAIN p : o = p[k]
      BY DEF ToSet
    <3>2. k + 1 \in DOMAIN q /\ q[k + 1] = o
      BY <1>1, <1>3, <3>1
    <3>3. QED
      BY <3>2 DEF ToSet
  <2>3. m \in ToSet(q)
    <3>1. 1 \in DOMAIN q /\ q[1] = m
      BY <1>1, <1>3
    <3>2. QED
      BY <3>1 DEF ToSet
  <2>4. QED
    BY <2>1, <2>2, <2>3
<1>7. QED
  BY <1>3, <1>4, <1>5, <1>6

\* the list p with the node m behind it
WithLast(ny, h, nx, p, m) ==
  /\ ny \in [Nodes -> Int]
  /\ \A o \in Nodes : o \notin ToSet(p) => ny[o] = nx[o]
  /\ \E q \in Seq(Nodes) :
       /\ Linked(ny, h, q) /\ IsInjective(q) /\ ToSet(q) = {m} \cup ToSet(p)
       /\ Len(q) = Len(p) + 1 /\ q[Len(p) + 1] = m /\ \A k \in 1 .. Len(p) : q[k] = p[k]

(* That is what ft_lstadd_back makes. *)
LEMMA LinkedBack ==
  ASSUME NEW nx \in [Nodes -> Int], NEW n, NEW p, Linked(nx, n, p), IsInjective(p),
         NEW m \in Nodes, m \notin ToSet(p), nx[m] = NULL
  PROVE  WithLast(AddedBack(nx, n, m).next, AddedBack(nx, n, m).head, nx, p, m)
<1>1. /\ p \in Seq(Nodes) /\ Len(p) \in Nat /\ DOMAIN p = 1 .. Len(p) /\ n = NodeAt(p, 1)
      /\ \A k \in 1 .. Len(p) : nx[p[k]] = NodeAt(p, k + 1) /\ p[k] \in Nodes /\ p[k] # m
      /\ \A i, j \in 1 .. Len(p) : p[i] = p[j] => i = j
  BY SeqIs DEF Linked, IsInjective, ToSet
<1>2. PICK q : q = [k \in 1 .. Len(p) + 1 |-> IF k = Len(p) + 1 THEN m ELSE p[k]]
  OBVIOUS
<1>3. /\ q \in Seq(Nodes) /\ Len(q) = Len(p) + 1 /\ DOMAIN q = 1 .. Len(p) + 1 /\ q[Len(p) + 1] = m
      /\ \A k \in 1 .. Len(p) : q[k] = p[k]
  BY <1>1, <1>2
<1>4. PICK ny, h : ny = AddedBack(nx, n, m).next /\ h = AddedBack(nx, n, m).head
  OBVIOUS
<1>5. /\ ny \in [Nodes -> Int]
      /\ \A o \in Nodes : (Len(p) = 0 \/ o # p[Len(p)]) => ny[o] = nx[o]
      /\ Len(p) > 0 => ny[p[Len(p)]] = m
      /\ h = q[1]
  <2>1. CASE n = NULL
    <3>1. ny = nx /\ h = m
      BY <1>4, <2>1 DEF AddedBack
    <3>2. Len(p) = 0
      BY <1>1, <2>1, LinkedEmpty, SeqIs
    <3>3. q[1] = m
      BY <1>1, <1>3, <3>2
    <3>4. ny \in [Nodes -> Int] /\ ~(Len(p) > 0) /\ \A o \in Nodes : ny[o] = nx[o]
      BY <3>1, <3>2
    <3>5. QED
      BY <3>1, <3>3, <3>4
  <2>2. CASE n # NULL
    <3>1. PathIn(nx, n) = p
      BY PathIs
    <3>2. Len(p) > 0 /\ p[1] = n
      BY <1>1, <2>2 DEF NodeAt
    <3>3. PICK z : z = p[Len(p)]
      OBVIOUS
    <3>4. Last(PathIn(nx, n)) = z /\ z \in Nodes
      BY <1>1, <3>1, <3>2, <3>3 DEF Last
    <3>5. ny = [nx EXCEPT ![z] = m] /\ h = n
      BY <1>4, <2>2, <3>4 DEF AddedBack
    <3>6. m \in Int
      BY NullIsNoNode
    <3>7. ny \in [Nodes -> Int] /\ ny[z] = m /\ \A o \in Nodes : o # z => ny[o] = nx[o]
      BY <3>4, <3>5, <3>6
    <3>8. h = q[1]
      BY <1>1, <1>3, <3>2, <3>5
    <3>9. Len(p) # 0
      BY <3>2
    <3>10. QED
      BY <3>3, <3>7, <3>8, <3>9
  <2>3. QED
    BY <2>1, <2>2
<1>6. Linked(ny, h, q)
  <2>1. h = NodeAt(q, 1)
    BY <1>1, <1>3, <1>5 DEF NodeAt
  <2>2. ASSUME NEW k \in DOMAIN q PROVE ny[q[k]] = NodeAt(q, k + 1)
    <3>1. CASE k = Len(p) + 1
      <4>1. q[k] = m /\ k + 1 \notin DOMAIN q
        BY <1>1, <1>3, <3>1
      <4>2. Len(p) = 0 \/ m # p[Len(p)]
        BY <1>1
      <4>3. ny[m] = NULL
        BY <1>5, <4>2
      <4>4. QED
        BY <4>1, <4>3 DEF NodeAt
    <3>2. CASE k = Len(p)
      <4>1. Len(p) > 0 /\ q[k] = p[Len(p)] /\ k + 1 \in DOMAIN q /\ q[k + 1] = m
        BY <1>1, <1>3, <3>2
      <4>2. QED
        BY <1>5, <4>1 DEF NodeAt
    <3>3. CASE k # Len(p) + 1 /\ k # Len(p)
      <4>1. k \in 1 .. Len(p) /\ k + 1 \in 1 .. Len(p) /\ q[k] = p[k] /\ q[k + 1] = p[k + 1]
            /\ k + 1 \in DOMAIN q
        BY <1>1, <1>3, <3>3
      <4>2. p[k] # p[Len(p)]
        BY <1>1, <3>3, <4>1
      <4>3. ny[p[k]] = nx[p[k]]
        BY <1>1, <1>5, <4>1, <4>2
      <4>4. nx[p[k]] = p[k + 1]
        BY <1>1, <4>1 DEF NodeAt
      <4>5. QED
        BY <4>1, <4>3, <4>4 DEF NodeAt
    <3>4. QED
      BY <3>1, <3>2, <3>3
  <2>3. QED
    BY <1>3, <2>1, <2>2 DEF Linked
<1>7. IsInjective(q)
  <2>1. ASSUME NEW i \in DOMAIN q, NEW j \in DOMAIN q, q[i] = q[j] PROVE i = j
    <3>1. CASE i \in 1 .. Len(p) /\ j \in 1 .. Len(p)
      BY <1>1, <1>3, <2>1, <3>1
    <3>2. CASE i \notin 1 .. Len(p)
      <4>1. i = Len(p) + 1 /\ q[i] = m
        BY <1>1, <1>3, <3>2
      <4>2. j \notin 1 .. Len(p)
        BY <1>1, <1>3, <2>1, <4>1
      <4>3. QED
        BY <1>1, <1>3, <4>1, <4>2
    <3>3. CASE j \notin 1 .. Len(p)
      <4>1. j = Len(p) + 1 /\ q[j] = m
        BY <1>1, <1>3, <3>3
      <4>2. i \notin 1 .. Len(p)
        BY <1>1, <1>3, <2>1, <4>1
      <4>3. QED
        BY <1>1, <1>3, <4>1, <4>2
    <3>4. QED
      BY <3>1, <3>2, <3>3
  <2>2. QED
    BY <2>1 DEF IsInjective
<1>8. ToSet(q) = {m} \cup ToSet(p)
  <2>1. ASSUME NEW o \in ToSet(q) PROVE o \in {m} \cup ToSet(p)
    <3>1. PICK k \in DOMAIN q : o = q[k]
      BY DEF ToSet
    <3>2. k = Len(p) + 1 \/ k \in DOMAIN p
      BY <1>1, <1>3
    <3>3. QED
      BY <1>1, <1>3, <3>1, <3>2 DEF ToSet
  <2>2. ASSUME NEW o \in ToSet(p) PROVE o \in ToSet(q)
    <3>1. PICK k \in DOMAIN p : o = p[k]
      BY DEF ToSet
    <3>2. k \in DOMAIN q /\ q[k] = o
      BY <1>1, <1>3, <3>1
    <3>3. QED
      BY <3>2 DEF ToSet
  <2>3. m \in ToSet(q)
    <3>1. Len(p) + 1 \in DOMAIN q
      BY <1>1, <1>3
    <3>2. QED
      BY <1>3, <3>1 DEF ToSet
  <2>4. QED
    BY <2>1, <2>2, <2>3
<1>9. \A o \in Nodes : o \notin ToSet(p) => ny[o] = nx[o]
  <2>1. ASSUME NEW o \in Nodes, o \notin ToSet(p) PROVE ny[o] = nx[o]
    <3>1. Len(p) = 0 \/ o # p[Len(p)]
      BY <1>1, <2>1 DEF ToSet
    <3>2. QED
      BY <1>5, <3>1
  <2>2. QED
    BY <2>1
<1>10. WithLast(ny, h, nx, p, m)
  BY <1>3, <1>5, <1>6, <1>7, <1>8, <1>9 DEF WithLast
<1>11. QED
  BY <1>4, <1>10

-----------------------------------------------------------------------------
(* The sequences of the invariant are what the loops find. *)
LEMMA PathsAre ==
  ASSUME NEW l, NEW c, Lists(l, c)
  PROVE  /\ l \in Seq(Nodes) /\ c \in Seq(Nodes) /\ Alone(fresh) \in Seq(Nodes)
         /\ Path(Roots[1]) = Alone(fresh) /\ Path(Roots[2]) = l /\ Path(Roots[3]) = c
<1>1. Roots[1] = fresh
  BY DEF Roots
<1>2. QED
  BY <1>1, PathIs DEF Lists, Apart, Path, Linked

(* Two lists without a common node, one behind the other. *)
LEMMA ConcatApart ==
  ASSUME NEW p \in Seq(Nodes), NEW q \in Seq(Nodes), IsInjective(p), IsInjective(q),
         ToSet(p) \cap ToSet(q) = {}
  PROVE  p \o q \in Seq(Nodes) /\ IsInjective(p \o q) /\ ToSet(p \o q) = ToSet(p) \cup ToSet(q)
<1>1. PICK r : r = p \o q
  OBVIOUS
<1>2. /\ r \in Seq(Nodes) /\ Len(p) \in Nat /\ Len(q) \in Nat
      /\ DOMAIN p = 1 .. Len(p) /\ DOMAIN q = 1 .. Len(q) /\ DOMAIN r = 1 .. Len(p) + Len(q)
      /\ \A i \in 1 .. Len(p) : r[i] = p[i]
      /\ \A i \in Len(p) + 1 .. Len(p) + Len(q) : r[i] = q[i - Len(p)]
  <2>1. /\ r \in Seq(Nodes) /\ Len(r) = Len(p) + Len(q)
        /\ \A i \in 1 .. Len(p) + Len(q) : r[i] = IF i <= Len(p) THEN p[i] ELSE q[i - Len(p)]
    BY <1>1, ConcatProperties
  <2>2. QED
    BY <2>1, SeqIs
<1>3. ASSUME NEW i \in DOMAIN r
      PROVE  \/ i \in DOMAIN p /\ r[i] = p[i]
             \/ i - Len(p) \in DOMAIN q /\ r[i] = q[i - Len(p)]
  BY <1>2
<1>4. IsInjective(r)
  <2>1. ASSUME NEW i \in DOMAIN r, NEW j \in DOMAIN r, r[i] = r[j] PROVE i = j
    <3>1. \A a \in DOMAIN p, b \in DOMAIN q : p[a] # q[b]
      BY DEF ToSet
    <3>2. CASE i \in DOMAIN p /\ r[i] = p[i]
      <4>1. j \in DOMAIN p /\ r[j] = p[j]
        BY <1>3, <2>1, <3>1, <3>2
      <4>2. QED
        BY <2>1, <3>2, <4>1 DEF IsInjective
    <3>3. CASE i - Len(p) \in DOMAIN q /\ r[i] = q[i - Len(p)]
      <4>1. j - Len(p) \in DOMAIN q /\ r[j] = q[j - Len(p)]
        BY <1>3, <2>1, <3>1, <3>3
      <4>2. i - Len(p) = j - Len(p)
        BY <2>1, <3>3, <4>1 DEF IsInjective
      <4>3. i \in Int /\ j \in Int
        BY <1>2
      <4>4. QED
        BY <1>2, <4>2, <4>3
    <3>4. QED
      BY <1>3, <3>2, <3>3
  <2>2. QED
    BY <2>1 DEF IsInjective
<1>5. ToSet(r) = ToSet(p) \cup ToSet(q)
  <2>1. ToSet(r) \subseteq ToSet(p) \cup ToSet(q)
    BY <1>3 DEF ToSet
  <2>2. ASSUME NEW i \in DOMAIN p PROVE p[i] \in ToSet(r)
    BY <1>2 DEF ToSet
  <2>3. ASSUME NEW i \in DOMAIN q PROVE q[i] \in ToSet(r)
    <3>1. i + Len(p) \in DOMAIN r /\ i + Len(p) \in Len(p) + 1 .. Len(p) + Len(q) /\ (i + Len(p)) - Len(p) = i
      BY <1>2
    <3>2. r[i + Len(p)] = q[i]
      BY <1>2, <3>1
    <3>3. QED
      BY <3>1, <3>2 DEF ToSet
  <2>4. QED
    BY <2>1, <2>2, <2>3 DEF ToSet
<1>6. QED
  BY <1>1, <1>2, <1>4, <1>5

(* The properties follow from the invariant. *)
LEMMA ListsFromInv == ListInv => ListsRight
<1> SUFFICES ASSUME ListInv PROVE ListsRight
  OBVIOUS
<1>1. PICK l, c : l = Path(Roots[2]) /\ c = Path(Roots[3])
  OBVIOUS
<1>2. Stands(l, c) /\ ListTypes
  BY <1>1 DEF ListInv
<1>3. Lists(l, c) /\ Held(l, c) /\ InOrder(l) /\ Mapping(c) /\ Going(l, c)
  BY <1>2 DEF Stands
<1>4. PICK f : f = Alone(fresh)
  OBVIOUS
<1>5. /\ f \in Seq(Nodes) /\ l \in Seq(Nodes) /\ c \in Seq(Nodes)
      /\ Path(Roots[1]) = f /\ Path(Roots[2]) = l /\ Path(Roots[3]) = c
  BY <1>3, <1>4, PathsAre
<1>6. Apart(f, l, c) /\ live = ToSet(f) \cup ToSet(l) \cup ToSet(c)
  BY <1>3, <1>4 DEF Lists
<1>7. EachInOnePlace
  <2>1. /\ f \o l \in Seq(Nodes) /\ IsInjective(f \o l) /\ ToSet(f \o l) = ToSet(f) \cup ToSet(l)
    BY <1>5, <1>6, ConcatApart DEF Apart
  <2>2. PICK fl : fl = f \o l
    OBVIOUS
  <2>3. ToSet(fl) \cap ToSet(c) = {}
    BY <1>6, <2>1, <2>2 DEF Apart
  <2>4. IsInjective(fl \o c) /\ ToSet(fl \o c) = ToSet(fl) \cup ToSet(c)
    BY <1>5, <1>6, <2>1, <2>2, <2>3, ConcatApart DEF Apart
  <2>5. ToSet(fl \o c) = live
    BY <1>6, <2>1, <2>2, <2>4
  <2>6. Path(Roots[1]) \o Path(Roots[2]) \o Path(Roots[3]) = fl \o c
    BY <1>5, <2>2
  <2>7. QED
    BY <1>3, <2>4, <2>5, <2>6 DEF EachInOnePlace, Held, OneEach
<1>8. ListIsSequence
  <2>1. SUFFICES ASSUME pc # "clearlst" PROVE Contained(Path(lst)) = want
    BY DEF ListIsSequence
  <2>2. Path(lst) = l
    BY <1>5, <2>1 DEF Roots
  <2>3. Len(l) = Len(want) /\ \A k \in DOMAIN l : cont[l[k]] = want[k]
    BY <1>3, <2>1 DEF InOrder
  <2>4. Contained(l) = [k \in DOMAIN l |-> cont[l[k]]]
    BY DEF Contained
  <2>5. want \in Seq(Plain(Contents)) /\ want = [k \in 1 .. Len(want) |-> want[k]]
    BY <1>2 DEF ListTypes
  <2>6. DOMAIN l = 1 .. Len(want)
    BY <1>5, <2>3, SeqIs
  <2>7. QED
    BY <2>2, <2>3, <2>4, <2>5, <2>6
<1>9. MapIsWhole
  <2>1. SUFFICES ASSUME pc # "clearcopy", copy # NULL
                 PROVE  LET d == Contained(Path(copy)) IN
                        /\ Len(d) <= Len(mapped) /\ \A k \in DOMAIN d : d[k] \in {Append(mapped[k], "f"), None}
                        /\ pc # "map" => Len(d) = Len(mapped)
    BY DEF MapIsWhole
  <2>2. Path(copy) = c
    BY <1>5, <2>1 DEF Roots
  <2>3. PICK d : d = Contained(c)
    OBVIOUS
  <2>4. Len(d) = Len(c) /\ DOMAIN d = DOMAIN c /\ \A k \in DOMAIN c : d[k] = cont[c[k]]
    BY <1>5, <2>3, SeqIs DEF Contained
  <2>5. c # << >>
    <3>1. Linked(next, copy, c)
      BY <1>3, <2>1 DEF Lists, Roots
    <3>2. copy = NodeAt(c, 1)
      BY <3>1 DEF Linked
    <3>3. QED
      BY <1>5, <2>1, <3>2, SeqIs DEF NodeAt
  <2>6. QED
    BY <1>3, <2>1, <2>2, <2>3, <2>4, <2>5 DEF Mapping
<1>10. WalkSeesAll
  <2>1. SUFFICES ASSUME pc = "walk", at = NULL
                 PROVE  /\ Contained(seen) = want
                        /\ Lstsize = Len(want)
                        /\ want # << >> => cont[Lstlast] = Last(want)
    BY DEF WalkSeesAll, MoreToWalk
  <2>2. /\ Len(seen) <= Len(l) /\ \A k \in DOMAIN seen : seen[k] = l[k]
        /\ NULL = NodeAt(l, Len(seen) + 1)
        /\ Len(l) = Len(want) /\ \A k \in DOMAIN l : cont[l[k]] = want[k]
    BY <1>3, <2>1 DEF Going, InOrder
  <2>3. /\ seen \in Seq(Nodes) /\ want \in Seq(Plain(Contents))
        /\ want = [k \in 1 .. Len(want) |-> want[k]] /\ Len(want) \in Nat
    BY <1>2 DEF ListTypes
  <2>4. Len(seen) \in Nat /\ DOMAIN seen = 1 .. Len(seen) /\ Len(l) \in Nat /\ DOMAIN l = 1 .. Len(l)
        /\ \A k \in 1 .. Len(l) : l[k] \in Nodes
    BY <1>5, <2>3, SeqIs
  <2>5. Len(seen) + 1 \notin DOMAIN l
    BY <2>2, <2>4, NullIsNoNode DEF NodeAt
  <2>6. Len(seen) = Len(want)
    <3>1. PICK a, b \in Nat : a = Len(seen) /\ b = Len(l)
      BY <2>4
    <3>2. a <= b /\ a + 1 \notin 1 .. b
      BY <2>2, <2>4, <2>5, <3>1
    <3>3. a = b
      BY <3>1, <3>2
    <3>4. QED
      BY <2>2, <3>1, <3>3
  <2>7. \A k \in 1 .. Len(want) : cont[seen[k]] = want[k]
    BY <2>2, <2>4, <2>6
  <2>8. Contained(seen) = want
    BY <2>3, <2>4, <2>6, <2>7 DEF Contained
  <2>9. ASSUME want # << >> PROVE cont[Lstlast] = Last(want)
    <3>1. Len(want) # 0 /\ seen # << >>
      BY <2>3, <2>4, <2>6, <2>9
    <3>2. Lstlast = seen[Len(seen)] /\ Last(want) = want[Len(want)]
      BY <3>1 DEF Lstlast, Last
    <3>3. Len(want) \in 1 .. Len(want)
      BY <2>3, <3>1
    <3>4. QED
      BY <2>6, <2>7, <3>2, <3>3
  <2>10. QED
    BY <2>6, <2>8, <2>9 DEF Lstsize
<1>11. QED
  BY <1>7, <1>8, <1>9, <1>10 DEF ListsRight

-----------------------------------------------------------------------------
(* The caller makes each content once. *)
LEMMA PlainIs ==
  /\ \A m \in Nat : None \notin Plain(m) /\ <<m + 1>> \in Plain(m + 1) /\ <<m + 1>> \notin Plain(m)
  /\ \A m, n \in Nat : m <= n => Plain(m) \subseteq Plain(n)
<1>1. \A i, j : <<i>> = <<j>> => i = j
  OBVIOUS
<1>2. ASSUME NEW m \in Nat
      PROVE  None \notin Plain(m) /\ <<m + 1>> \in Plain(m + 1) /\ <<m + 1>> \notin Plain(m)
  <2>1. \A k : <<k>> # << >>
    OBVIOUS
  <2>2. None \notin Plain(m)
    BY <2>1 DEF Plain, None
  <2>3. <<m + 1>> \in Plain(m + 1)
    BY DEF Plain
  <2>4. ASSUME <<m + 1>> \in Plain(m) PROVE FALSE
    <3>1. PICK k \in 1 .. m : <<m + 1>> = <<k>>
      BY <2>4 DEF Plain
    <3>2. k = m + 1
      BY <1>1, <3>1
    <3>3. QED
      BY <3>2
  <2>5. QED
    BY <2>2, <2>3, <2>4
<1>3. \A m, n \in Nat : m <= n => Plain(m) \subseteq Plain(n)
  BY DEF Plain
<1>4. QED
  BY <1>2, <1>3

(* What the function of ft_lstmap makes of it is new, and different for each. *)
LEMMA AppliedIs ==
  /\ \A m \in Nat : Plain(m) \cap Applied = {}
  /\ \A c \in Plain(Contents) :
       Append(c, "f") \in Applied /\ Append(c, "f") # None /\ Append(c, "f") \notin Plain(Contents)
  /\ \A c, d \in Plain(Contents) : Append(c, "f") = Append(d, "f") => c = d
<1> DEFINE Symbol == Nat \cup {"f"}
<1>1. ASSUME NEW m \in Nat, NEW c \in Plain(m) PROVE c \in Seq(Symbol) /\ Len(c) = 1 /\ c # << >>
  <2>1. PICK k \in 1 .. m : c = <<k>>
    BY DEF Plain
  <2>2. k \in Symbol
    OBVIOUS
  <2> HIDE DEF Symbol
  <2>3. QED
    BY <2>1, <2>2
<1>2. "f" \in Symbol /\ Contents \in Nat
  BY ListAssumption
<1>3. ASSUME NEW c \in Plain(Contents) PROVE Len(Append(c, "f")) = 2 /\ Append(c, "f") # << >>
  <2>1. c \in Seq(Symbol) /\ Len(c) = 1
    BY <1>1, <1>2
  <2>2. "f" \in Symbol
    OBVIOUS
  <2> HIDE DEF Symbol
  <2>3. Len(Append(c, "f")) = Len(c) + 1 /\ Append(c, "f") # << >>
    BY <2>1, <2>2, AppendProperties
  <2>4. QED
    BY <2>1, <2>3
<1>4. ASSUME NEW m \in Nat, NEW c \in Plain(m) PROVE c \notin Applied
  <2>1. Len(c) = 1 /\ c # << >>
    BY <1>1, <1>4
  <2>2. ASSUME NEW d \in Plain(Contents), c = Append(d, "f") PROVE FALSE
    BY <1>3, <2>1, <2>2
  <2>3. QED
    BY <2>1, <2>2 DEF Applied, None
<1>5. ASSUME NEW c \in Plain(Contents), NEW d \in Plain(Contents), Append(c, "f") = Append(d, "f")
      PROVE  c = d
  <2>1. c \in Seq(Symbol) /\ d \in Seq(Symbol)
    BY <1>1, <1>2
  <2> HIDE DEF Symbol
  <2>2. QED
    BY <1>2, <1>5, <2>1, AppendInjective
<1>6. ASSUME NEW c \in Plain(Contents)
      PROVE  Append(c, "f") \in Applied /\ Append(c, "f") # None /\ Append(c, "f") \notin Plain(Contents)
  <2>1. Append(c, "f") \in Applied
    BY DEF Applied
  <2>2. Append(c, "f") \notin Plain(Contents)
    BY <1>2, <1>4, <2>1
  <2>3. QED
    BY <1>3, <2>1, <2>2 DEF None
<1>7. QED
  BY <1>4, <1>5, <1>6

(* A node more, with a content that no other node has. *)
LEMMA OneMore ==
  ASSUME NEW T, NEW ct \in [Nodes -> T], NEW nodes \in SUBSET Nodes, NEW contents,
         OneEach(ct, nodes, contents),
         NEW n \in Nodes, n \notin nodes, NEW x, x = None \/ \A m \in nodes : ct[m] # x
  PROVE  OneEach([ct EXCEPT ![n] = x], nodes \cup {n}, contents \cup ({x} \ {None}))
<1>1. PICK d : d = [ct EXCEPT ![n] = x]
  OBVIOUS
<1>2. d[n] = x /\ \A m \in nodes : d[m] = ct[m] /\ m # n
  BY <1>1
<1>3. \A k, m \in nodes \cup {n} : d[k] = d[m] /\ d[k] # None => k = m
  BY <1>2 DEF OneEach
<1>4. {d[m] : m \in nodes \cup {n}} = {ct[m] : m \in nodes} \cup {x}
  BY <1>2
<1>5. {d[m] : m \in nodes \cup {n}} \ {None} = contents \cup ({x} \ {None})
  BY <1>4 DEF OneEach
<1>6. QED
  BY <1>1, <1>3, <1>5 DEF OneEach

(* A node less, and its content. *)
LEMMA OneLess ==
  ASSUME NEW T, NEW ct \in [Nodes -> T], NEW nodes \in SUBSET Nodes, NEW contents,
         OneEach(ct, nodes, contents), NEW n \in nodes
  PROVE  OneEach([ct EXCEPT ![n] = None], nodes \ {n}, contents \ {ct[n]})
<1>1. PICK d : d = [ct EXCEPT ![n] = None]
  OBVIOUS
<1>2. \A m \in nodes \ {n} : d[m] = ct[m]
  BY <1>1
<1>3. \A k, m \in nodes \ {n} : d[k] = d[m] /\ d[k] # None => k = m
  BY <1>2 DEF OneEach
<1>4. {d[m] : m \in nodes \ {n}} = {ct[m] : m \in nodes \ {n}}
  BY <1>2
<1>5. \A m \in nodes \ {n} : ct[m] # None => ct[m] # ct[n]
  BY DEF OneEach
<1>6. {ct[m] : m \in nodes \ {n}} \ {None} = contents \ {ct[n]}
  <2>1. ASSUME NEW v \in {ct[m] : m \in nodes \ {n}} \ {None} PROVE v \in contents \ {ct[n]}
    BY <1>5 DEF OneEach
  <2>2. ASSUME NEW v \in contents \ {ct[n]} PROVE v \in {ct[m] : m \in nodes \ {n}} \ {None}
    <3>1. v # None /\ v # ct[n] /\ \E m \in nodes : v = ct[m]
      BY DEF OneEach
    <3>2. QED
      BY <3>1
  <2>3. QED
    BY <2>1, <2>2
<1>7. QED
  BY <1>1, <1>3, <1>4, <1>6 DEF OneEach

\* malloc gives a node that is not in use
LEMMA MallocIs ==
  ASSUME HasRoom, live \subseteq Nodes
  PROVE  Malloc \in Nodes /\ Malloc \notin live
<1>1. PICK T : T = Nodes \ live
  OBVIOUS
<1>2. T \subseteq Nat /\ T # {}
  BY <1>1, NullIsNoNode DEF HasRoom
<1>3. Min(T) \in T
  BY <1>2, MinIs
<1>4. QED
  BY <1>1, <1>3 DEF Malloc

-----------------------------------------------------------------------------
(* The steps, first those that change no memory. *)
LEMMA ListsSame ==
  ASSUME NEW l, NEW c, Lists(l, c), UNCHANGED <<next, live, fresh>>,
         (Roots[2])' = Roots[2], (Roots[3])' = Roots[3]
  PROVE  Lists(l, c)'
BY DEF Lists

(* What no step touches stays. *)
LEMMA HeldSame ==
  ASSUME NEW l, NEW c, Held(l, c), UNCHANGED <<memory, fresh, made>>
  PROVE  Held(l, c)'
BY DEF Held, memory

(* ft_lstmap is called. *)
LEMMA MapKeeps ==
  ASSUME NEW l, NEW c, Before(l, c), Map
  PROVE  Before(l, c)'
<1>1. ListTypes /\ Lists(l, c) /\ Held(l, c) /\ InOrder(l) /\ Mapping(c) /\ Going(l, c)
  BY DEF Before, Stands
<1>2. ListTypes'
  BY <1>1 DEF Map, ListTypes, memory
<1>3. Lists(l, c)'
  BY <1>1, ListsSame DEF Map, Roots, memory
<1>4. Held(l, c)'
  BY <1>1, HeldSame DEF Map
<1>5. InOrder(l)'
  BY <1>1 DEF InOrder, Map, memory
<1>6. c = << >>
  BY <1>1, LinkedEmpty DEF Lists, Roots, Map
<1>7. Len(c) = 0 /\ DOMAIN c = {}
  BY <1>6
<1>8. Mapping(c)'
  BY <1>1, <1>6, <1>7 DEF Mapping, Map, ListTypes
<1>9. Going(l, c)'
  <2>1. lst = NodeAt(l, 1)
    BY <1>1 DEF Lists, Linked, Roots, Map
  <2>2. QED
    BY <1>7, <2>1 DEF Going, Map
<1>10. QED
  BY <1>2, <1>3, <1>4, <1>5, <1>8, <1>9 DEF Before, Stands

(* ft_lstmap has come to the end of the list: the copy is as long. *)
LEMMA MapEndKeeps ==
  ASSUME NEW l, NEW c, Before(l, c), MapEnd
  PROVE  Before(l, c)'
<1>1. ListTypes /\ Lists(l, c) /\ Held(l, c) /\ InOrder(l) /\ Mapping(c) /\ Going(l, c)
  BY DEF Before, Stands
<1>2. ListTypes'
  BY <1>1 DEF MapEnd, ListTypes, memory
<1>3. Lists(l, c)'
  BY <1>1, ListsSame DEF MapEnd, Roots, memory
<1>4. Held(l, c)'
  BY <1>1, HeldSame DEF MapEnd
<1>5. InOrder(l)'
  BY <1>1 DEF InOrder, MapEnd, memory
<1>6. Len(c) = Len(mapped)
  <2>1. NULL = NodeAt(l, Len(c) + 1) /\ mapped = want /\ Len(l) = Len(want)
    BY <1>1 DEF Going, InOrder, MapEnd
  <2>2. l \in Seq(Nodes) /\ c \in Seq(Nodes)
    BY <1>1 DEF Lists, Linked
  <2>3. /\ Len(l) \in Nat /\ DOMAIN l = 1 .. Len(l) /\ \A k \in 1 .. Len(l) : l[k] \in Nodes
        /\ Len(c) \in Nat
    BY <2>2, SeqIs
  <2>4. Len(c) + 1 \notin 1 .. Len(l)
    BY <2>1, <2>3, NullIsNoNode DEF NodeAt
  <2>5. Len(c) <= Len(l)
    BY <1>1, <2>1 DEF Mapping, MapEnd
  <2>6. Len(c) = Len(l)
    BY <2>3, <2>4, <2>5
  <2>7. QED
    BY <2>1, <2>6
<1>7. Mapping(c)'
  BY <1>1, <1>6 DEF Mapping, MapEnd, memory
<1>8. Going(l, c)'
  BY DEF Going, MapEnd
<1>9. QED
  BY <1>2, <1>3, <1>4, <1>5, <1>7, <1>8 DEF Before, Stands

(* ft_lstclear is called. *)
LEMMA ClearKeeps ==
  ASSUME NEW l, NEW c, Before(l, c), Clear
  PROVE  Before(l, c)'
<1>1. ListTypes /\ Lists(l, c) /\ Held(l, c) /\ InOrder(l) /\ Mapping(c) /\ Going(l, c)
  BY DEF Before, Stands
<1>2. ListTypes'
  BY <1>1 DEF Clear, ListTypes, memory
<1>3. Lists(l, c)'
  BY <1>1, ListsSame DEF Clear, Roots, memory
<1>4. Held(l, c)'
  BY <1>1, HeldSame DEF Clear
<1>5. InOrder(l)'
  BY <1>1 DEF InOrder, Clear, memory
<1>6. Mapping(c)'
  BY <1>1 DEF Mapping, Clear, memory
<1>7. Going(l, c)'
  BY DEF Going, Clear
<1>8. QED
  BY <1>2, <1>3, <1>4, <1>5, <1>6, <1>7 DEF Before, Stands

(* ft_lstclear has freed all. *)
LEMMA ClearEndKeeps ==
  ASSUME NEW l, NEW c, Before(l, c), ClearEnd
  PROVE  Before(l, c)'
<1>1. ListTypes /\ Lists(l, c) /\ Held(l, c) /\ InOrder(l) /\ Mapping(c) /\ Going(l, c)
  BY DEF Before, Stands
<1>2. << >> \in Seq(Plain(Contents)) /\ Len(<< >>) = 0 /\ DOMAIN << >> = {}
  OBVIOUS
<1>3. ListTypes'
  BY <1>1, <1>2 DEF ClearEnd, ListTypes, memory
<1>4. Lists(l, c)'
  BY <1>1, ListsSame DEF ClearEnd, Roots, memory
<1>5. Held(l, c)'
  BY <1>1, HeldSame DEF ClearEnd
<1>6. InOrder(l)'
  <2>1. CASE pc = "clearlst"
    <3>1. Linked(next, NULL, l)
      BY <1>1, <2>1 DEF Lists, Roots, ClearEnd
    <3>2. l = << >>
      BY <3>1, LinkedEmpty
    <3>3. QED
      BY <1>2, <2>1, <3>2 DEF InOrder, ClearEnd
  <2>2. CASE pc # "clearlst"
    BY <1>1, <2>2 DEF InOrder, ClearEnd, memory
  <2>3. QED
    BY <2>1, <2>2
<1>7. Mapping(c)'
  <2>1. CASE pc = "clearcopy"
    <3>1. Linked(next, NULL, c)
      BY <1>1, <2>1 DEF Lists, Roots, ClearEnd
    <3>2. c = << >>
      BY <3>1, LinkedEmpty
    <3>3. QED
      BY <1>1, <1>2, <2>1, <3>2 DEF Mapping, ClearEnd, ListTypes
  <2>2. CASE pc # "clearcopy"
    BY <1>1, <2>2 DEF Mapping, ClearEnd, memory
  <2>3. QED
    BY <2>1, <2>2
<1>8. Going(l, c)'
  BY DEF Going, ClearEnd
<1>9. QED
  BY <1>3, <1>4, <1>5, <1>6, <1>7, <1>8 DEF Before, Stands

(* A loop over the list, from its call to its end. *)
LEMMA WalkKeeps ==
  ASSUME NEW l, NEW c, Before(l, c), Walk \/ WalkTurn \/ WalkEnd
  PROVE  Before(l, c)'
<1>1. ListTypes /\ Lists(l, c) /\ Held(l, c) /\ InOrder(l) /\ Mapping(c) /\ Going(l, c)
  BY DEF Before, Stands
<1>2. l \in Seq(Nodes) /\ seen \in Seq(Nodes) /\ lst = NodeAt(l, 1)
      /\ \A k \in DOMAIN l : next[l[k]] = NodeAt(l, k + 1)
  BY <1>1 DEF Lists, Linked, ListTypes, Roots, Walk, WalkTurn, WalkEnd
<1>3. /\ Len(l) \in Nat /\ DOMAIN l = 1 .. Len(l) /\ \A k \in 1 .. Len(l) : l[k] \in Nodes
      /\ Len(seen) \in Nat /\ DOMAIN seen = 1 .. Len(seen)
  BY <1>2, SeqIs
<1>4. PICK s : s = seen'
  OBVIOUS
<1>5. s \in Seq(Nodes) /\ Going(l, c)'
  <2>1. CASE Walk
    <3>1. s = << >> /\ at' = lst /\ pc' = "walk"
      BY <1>4, <2>1 DEF Walk
    <3>2. s \in Seq(Nodes) /\ Len(s) = 0 /\ DOMAIN s = {}
      BY <3>1
    <3>3. QED
      BY <1>2, <1>3, <1>4, <3>1, <3>2 DEF Going
  <2>2. CASE WalkTurn
    <3>1. pc = "walk" /\ pc' = "walk" /\ at # NULL /\ s = Append(seen, at) /\ at' = next[at]
      BY <1>4, <2>2 DEF WalkTurn, MoreToWalk
    <3>2. /\ Len(seen) <= Len(l) /\ \A k \in DOMAIN seen : seen[k] = l[k]
          /\ at = NodeAt(l, Len(seen) + 1)
      BY <1>1, <3>1 DEF Going
    <3>3. Len(seen) + 1 \in DOMAIN l /\ at = l[Len(seen) + 1] /\ at \in Nodes
      BY <1>3, <3>1, <3>2 DEF NodeAt
    <3>4. /\ s \in Seq(Nodes) /\ Len(s) = Len(seen) + 1
          /\ \A k \in 1 .. Len(seen) : s[k] = seen[k] /\ s[Len(seen) + 1] = at
      BY <1>2, <3>1, <3>3, AppendProperties
    <3>5. s[Len(seen) + 1] = at
      BY <1>2, <3>1, <3>3, AppendProperties
    <3>6. at' = NodeAt(l, Len(s) + 1)
      BY <1>2, <3>1, <3>3, <3>4
    <3>7. Len(s) <= Len(l)
      BY <1>3, <3>3, <3>4
    <3>8. ASSUME NEW k \in DOMAIN s PROVE s[k] = l[k]
      <4>1. k \in 1 .. Len(seen) \/ k = Len(seen) + 1
        BY <1>3, <3>4, SeqIs
      <4>2. QED
        BY <1>3, <3>2, <3>3, <3>4, <3>5, <4>1
    <3>9. QED
      BY <1>4, <3>1, <3>4, <3>6, <3>7, <3>8 DEF Going
  <2>3. CASE WalkEnd
    BY <1>2, <1>4, <2>3 DEF Going, WalkEnd
  <2>4. QED
    BY <2>1, <2>2, <2>3
<1>6. ListTypes'
  BY <1>1, <1>4, <1>5 DEF Walk, WalkTurn, WalkEnd, ListTypes, memory
<1>7. Lists(l, c)'
  BY <1>1, ListsSame DEF Walk, WalkTurn, WalkEnd, Roots, memory
<1>8. Held(l, c)'
  BY <1>1, HeldSame DEF Walk, WalkTurn, WalkEnd
<1>9. InOrder(l)'
  BY <1>1 DEF InOrder, Walk, WalkTurn, WalkEnd, memory
<1>10. Mapping(c)'
  BY <1>1 DEF Mapping, Walk, WalkTurn, WalkEnd, memory
<1>11. QED
  BY <1>5, <1>6, <1>7, <1>8, <1>9, <1>10 DEF Before, Stands

-----------------------------------------------------------------------------
(* The steps that change the memory. *)
LEMMA AloneIs ==
  ASSUME NEW n \in Nodes, NEW nx, nx[n] = NULL
  PROVE  Linked(nx, n, Alone(n)) /\ IsInjective(Alone(n)) /\ ToSet(Alone(n)) = {n}
<1>1. n # NULL /\ Alone(n) = <<n>>
  BY NullIsNoNode DEF Alone
<1>2. <<n>> \in Seq(Nodes) /\ DOMAIN <<n>> = {1} /\ <<n>>[1] = n
  OBVIOUS
<1>3. QED
  BY <1>1, <1>2 DEF Linked, NodeAt, IsInjective, ToSet

(* No node is the empty list. *)
LEMMA NoneAlone ==
  ASSUME NEW nx
  PROVE  Linked(nx, NULL, Alone(NULL)) /\ IsInjective(Alone(NULL)) /\ ToSet(Alone(NULL)) = {}
<1>1. Alone(NULL) = << >> /\ << >> \in Seq(Nodes) /\ DOMAIN << >> = {}
  BY DEF Alone
<1>2. QED
  BY <1>1 DEF Linked, NodeAt, IsInjective, ToSet

(* What Lists says of a single node. *)
LEMMA ListsKnown ==
  ASSUME NEW l, NEW c, Lists(l, c)
  PROVE  /\ l \in Seq(Nodes) /\ c \in Seq(Nodes) /\ live \subseteq Nodes
         /\ IsInjective(l) /\ IsInjective(c) /\ ToSet(l) \cap ToSet(c) = {}
         /\ live = ToSet(Alone(fresh)) \cup ToSet(l) \cup ToSet(c)
         /\ fresh = NULL => ToSet(Alone(fresh)) = {}
         /\ fresh # NULL => /\ fresh \in Nodes /\ next[fresh] = NULL /\ ToSet(Alone(fresh)) = {fresh}
                            /\ fresh \notin ToSet(l) /\ fresh \notin ToSet(c)
<1>1. /\ l \in Seq(Nodes) /\ c \in Seq(Nodes) /\ Alone(fresh) \in Seq(Nodes)
      /\ IsInjective(l) /\ IsInjective(c) /\ ToSet(l) \cap ToSet(c) = {}
      /\ live = ToSet(Alone(fresh)) \cup ToSet(l) \cup ToSet(c)
  BY DEF Lists, Linked, Apart
<1>2. \A p \in Seq(Nodes) : ToSet(p) \subseteq Nodes
  BY SeqIs DEF ToSet
<1>3. fresh = NULL => ToSet(Alone(fresh)) = {}
  BY NoneAlone
<1>4. ASSUME fresh # NULL
      PROVE  /\ fresh \in Nodes /\ next[fresh] = NULL /\ ToSet(Alone(fresh)) = {fresh}
             /\ fresh \notin ToSet(l) /\ fresh \notin ToSet(c)
  <2>1. Alone(fresh) = <<fresh>>
    BY <1>4 DEF Alone
  <2>2. DOMAIN <<fresh>> = {1} /\ <<fresh>>[1] = fresh /\ fresh \in Nodes
    BY <1>1, <2>1
  <2>3. ToSet(Alone(fresh)) = {fresh}
    BY <2>1, <2>2 DEF ToSet
  <2>4. next[fresh] = NULL
    BY <2>1, <2>2 DEF Lists, Linked, NodeAt
  <2>5. QED
    BY <2>2, <2>3, <2>4 DEF Lists, Apart
<1>5. QED
  BY <1>1, <1>2, <1>3, <1>4

(* The list is in order as long as its contents stay. *)
LEMMA OrderSame ==
  ASSUME NEW l, InOrder(l), UNCHANGED <<pc, want>>, \A m \in ToSet(l) : cont'[m] = cont[m]
  PROVE  InOrder(l)'
BY DEF InOrder, ToSet

(* So is the copy. *)
LEMMA MappingSame ==
  ASSUME NEW c, Mapping(c), UNCHANGED <<pc, mapped>>, \A m \in ToSet(c) : cont'[m] = cont[m]
  PROVE  Mapping(c)'
BY DEF Mapping, ToSet

(* ft_lstnew, with memory and without. *)
LEMMA NewKeeps ==
  ASSUME NEW l, NEW c, Before(l, c), New
  PROVE  Before(l, c)'
<1>1. ListTypes /\ Lists(l, c) /\ Held(l, c) /\ InOrder(l) /\ Mapping(c) /\ Going(l, c)
  BY DEF Before, Stands
<1>2. /\ pc = "idle" /\ pc' = "idle" /\ fresh = NULL /\ made \in 0 .. Contents - 1 /\ made' = made + 1
      /\ UNCHANGED <<lst, copy, pc, at, seen, want, mapped>> /\ Contents \in Nat
  BY <1>1, ListAssumption DEF New, ListTypes
<1>3. Going(l, c)'
  BY <1>2 DEF Going
<1>4. Plain(made) \subseteq Plain(made')
  BY <1>2, PlainIs
<1>5. CASE UNCHANGED <<memory, fresh>>
  <2>1. ListTypes'
    BY <1>1, <1>2, <1>5 DEF ListTypes, memory
  <2>2. Lists(l, c)'
    BY <1>1, <1>2, <1>5, ListsSame DEF Roots, memory
  <2>3. Held(l, c)'
    BY <1>1, <1>4, <1>5 DEF Held, memory
  <2>4. InOrder(l)' /\ Mapping(c)'
    BY <1>1, <1>2, <1>5, OrderSame, MappingSame DEF memory
  <2>5. QED
    BY <1>3, <2>1, <2>2, <2>3, <2>4 DEF Before, Stands
<1>6. CASE Lstnew(<<made + 1>>) /\ next' = [next EXCEPT ![Malloc] = NULL] /\ fresh' = Malloc
  <2>1. PICK n, x : n = Malloc /\ x = <<made + 1>>
    OBVIOUS
  <2>2. /\ l \in Seq(Nodes) /\ c \in Seq(Nodes) /\ live \subseteq Nodes
        /\ IsInjective(l) /\ IsInjective(c) /\ ToSet(l) \cap ToSet(c) = {}
        /\ live = ToSet(l) \cup ToSet(c)
    BY <1>1, <1>2, ListsKnown
  <2>3. n \in Nodes /\ n \notin live
    BY <1>6, <2>1, <2>2, MallocIs DEF Lstnew
  <2>4. /\ cont' = [cont EXCEPT ![n] = x] /\ live' = live \cup {n}
        /\ blocks' = blocks \cup ({x} \ {None}) /\ next' = [next EXCEPT ![n] = NULL] /\ fresh' = n
    BY <1>6, <2>1 DEF Lstnew
  <2>5. x \in Plain(made') /\ x \notin Plain(made) /\ x \in Plain(Contents) /\ x \notin Applied
    <3>1. x \in Plain(made + 1) /\ x \notin Plain(made) /\ made + 1 \in Nat /\ made + 1 <= Contents
      BY <1>2, <2>1, PlainIs
    <3>2. x \in Plain(Contents)
      BY <1>2, <3>1, PlainIs
    <3>3. QED
      BY <1>2, <3>1, <3>2, AppliedIs
  <2>6. /\ next \in [Nodes -> Int] /\ cont \in [Nodes -> Plain(Contents) \cup Applied]
        /\ NULL \in Int
    BY <1>1 DEF ListTypes, NULL
  <2>7. /\ next' \in [Nodes -> Int] /\ cont' \in [Nodes -> Plain(Contents) \cup Applied]
        /\ next'[n] = NULL /\ cont'[n] = x
        /\ \A m \in live : next'[m] = next[m] /\ cont'[m] = cont[m]
    BY <2>2, <2>3, <2>4, <2>5, <2>6
  <2>8. ListTypes'
    BY <1>1, <1>2, <2>7 DEF ListTypes
  <2>9. Lists(l, c)'
    <3>1. Linked(next', fresh', Alone(fresh')) /\ IsInjective(Alone(fresh')) /\ ToSet(Alone(fresh')) = {n}
      BY <2>3, <2>4, <2>7, AloneIs
    <3>2. Linked(next', Roots[2], l) /\ Linked(next', Roots[3], c)
      BY <1>1, <2>2, <2>7, LinkedSame DEF Lists
    <3>3. (Roots[2])' = Roots[2] /\ (Roots[3])' = Roots[3]
      BY <1>2 DEF Roots
    <3>4. QED
      BY <2>2, <2>3, <2>4, <3>1, <3>2, <3>3 DEF Lists, Apart
  <2>10. Held(l, c)'
    <3>1. ToSet(Alone(fresh')) = {n}
      BY <2>3, <2>4, <2>7, AloneIs
    <3>2. \A m \in live : cont[m] # x
      BY <1>1, <2>2, <2>5 DEF Held
    <3>3. OneEach(cont', live', blocks')
      BY <1>1, <2>2, <2>3, <2>4, <2>6, <3>2, OneMore DEF Held
    <3>4. \A m \in ToSet(l) : cont'[m] \in Plain(made')
      BY <1>1, <1>4, <2>2, <2>7 DEF Held
    <3>5. \A m \in ToSet(c) : cont'[m] \in Applied
      BY <1>1, <2>2, <2>7 DEF Held
    <3>6. QED
      BY <2>5, <2>7, <3>1, <3>3, <3>4, <3>5 DEF Held
  <2>11. InOrder(l)' /\ Mapping(c)'
    BY <1>1, <1>2, <2>2, <2>7, OrderSame, MappingSame
  <2>12. QED
    BY <1>3, <2>8, <2>9, <2>10, <2>11 DEF Before, Stands
<1>7. QED
  BY <1>5, <1>6 DEF New

(* ft_lstadd_front. *)
LEMMA AddFrontKeeps ==
  ASSUME NEW l, NEW c, Before(l, c), AddFront
  PROVE  \E q : Before(q, c)'
<1>1. ListTypes /\ Lists(l, c) /\ Held(l, c) /\ InOrder(l) /\ Mapping(c) /\ Going(l, c)
  BY DEF Before, Stands
<1>2. PICK n : n = fresh
  OBVIOUS
<1>3. /\ pc = "idle" /\ pc' = "idle" /\ n # NULL /\ next' = [next EXCEPT ![n] = lst]
      /\ lst' = n /\ fresh' = NULL /\ want' = <<cont[n]>> \o want
      /\ UNCHANGED <<cont, live, blocks, copy, pc, at, seen, made, mapped>>
  BY <1>2 DEF AddFront
<1>4. /\ l \in Seq(Nodes) /\ c \in Seq(Nodes) /\ live \subseteq Nodes
      /\ IsInjective(l) /\ IsInjective(c) /\ ToSet(l) \cap ToSet(c) = {}
      /\ live = {n} \cup ToSet(l) \cup ToSet(c) /\ ToSet(Alone(fresh)) = {n}
      /\ n \in Nodes /\ n \notin ToSet(l) /\ n \notin ToSet(c)
  BY <1>1, <1>2, <1>3, ListsKnown
<1>5. /\ next \in [Nodes -> Int] /\ cont \in [Nodes -> Plain(Contents) \cup Applied]
      /\ want \in Seq(Plain(Contents)) /\ made \in 0 .. Contents
  BY <1>1 DEF ListTypes
<1>6. Linked(next, lst, l) /\ Linked(next, copy, c) /\ Roots[2] = lst /\ Roots[3] = copy
      /\ (Roots[2])' = n /\ (Roots[3])' = copy
  BY <1>1, <1>3 DEF Lists, Roots
<1>7. lst \in Int
  <2>1. lst = NodeAt(l, 1)
    BY <1>6 DEF Linked
  <2>2. QED
    BY <1>4, <2>1, SeqIs, NullIsNoNode DEF NodeAt, NULL
<1>8. next' \in [Nodes -> Int] /\ next'[n] = lst /\ \A m \in live : m # n => next'[m] = next[m]
  BY <1>3, <1>4, <1>5, <1>7
<1>9. Linked(next', lst, l) /\ Linked(next', copy, c)
  BY <1>4, <1>6, <1>8, LinkedSame
<1>10. PICK q \in Seq(Nodes) :
            /\ Linked(next', n, q) /\ IsInjective(q) /\ ToSet(q) = {n} \cup ToSet(l)
            /\ Len(q) = Len(l) + 1 /\ q[1] = n /\ \A k \in 1 .. Len(l) : q[k + 1] = l[k]
  <2>1. PICK nx, h : nx = next' /\ h = lst
    OBVIOUS
  <2>2. Linked(nx, h, l) /\ nx[n] = h
    BY <1>8, <1>9, <2>1
  <2>3. \E q \in Seq(Nodes) :
            /\ Linked(nx, n, q) /\ IsInjective(q) /\ ToSet(q) = {n} \cup ToSet(l)
            /\ Len(q) = Len(l) + 1 /\ q[1] = n /\ \A k \in 1 .. Len(l) : q[k + 1] = l[k]
    BY <1>4, <2>2, LinkedFront
  <2>4. QED
    BY <2>1, <2>3
<1>11. Linked(next', NULL, Alone(NULL)) /\ IsInjective(Alone(NULL)) /\ ToSet(Alone(NULL)) = {}
  BY NoneAlone
<1>12. Lists(q, c)'
  BY <1>3, <1>4, <1>6, <1>9, <1>10, <1>11 DEF Lists, Apart
<1>13. cont[n] \in Plain(made) /\ Plain(made) \subseteq Plain(Contents)
  BY <1>1, <1>4, <1>5, PlainIs, ListAssumption DEF Held
<1>14. PICK w : w = want'
  OBVIOUS
<1>15. /\ w \in Seq(Plain(Contents)) /\ Len(want) \in Nat /\ Len(w) = Len(want) + 1 /\ w[1] = cont[n]
       /\ \A k \in 1 .. Len(want) : w[k + 1] = want[k]
  <2>1. PICK x \in Plain(Contents) : x = cont[n]
    BY <1>13
  <2>2. <<x>> \in Seq(Plain(Contents)) /\ Len(<<x>>) = 1 /\ <<x>>[1] = x
    OBVIOUS
  <2>3. PICK y : y = <<x>>
    OBVIOUS
  <2>4. w = y \o want
    BY <1>3, <1>14, <2>1, <2>3
  <2>5. /\ y \o want \in Seq(Plain(Contents)) /\ Len(y \o want) = Len(y) + Len(want)
        /\ \A i \in 1 .. Len(y) + Len(want) : (y \o want)[i] = IF i <= Len(y) THEN y[i] ELSE want[i - Len(y)]
    BY <1>5, <2>2, <2>3, ConcatProperties
  <2>6. Len(want) \in Nat
    BY <1>5
  <2>7. w \in Seq(Plain(Contents)) /\ Len(w) = 1 + Len(want)
        /\ \A i \in 1 .. 1 + Len(want) : w[i] = IF i <= 1 THEN y[i] ELSE want[i - 1]
    BY <2>2, <2>3, <2>4, <2>5
  <2>8. w[1] = x
    BY <2>2, <2>3, <2>6, <2>7
  <2>9. \A k \in 1 .. Len(want) : w[k + 1] = want[k]
    BY <2>6, <2>7
  <2>10. QED
    BY <2>1, <2>6, <2>7, <2>8, <2>9
<1>16. ListTypes'
  BY <1>1, <1>3, <1>8, <1>14, <1>15 DEF ListTypes
<1>17. Held(q, c)'
  BY <1>1, <1>3, <1>4, <1>10, <1>11, <1>13 DEF Held
<1>18. InOrder(q)'
  <2>1. Len(l) = Len(want) /\ \A k \in DOMAIN l : cont[l[k]] = want[k]
    BY <1>1, <1>3 DEF InOrder
  <2>2. DOMAIN l = 1 .. Len(l) /\ DOMAIN q = 1 .. Len(q)
    BY <1>4, <1>10, SeqIs
  <2>3. ASSUME NEW k \in DOMAIN q PROVE cont[q[k]] = w[k]
    <3>1. CASE k = 1
      BY <1>10, <1>15, <3>1
    <3>2. CASE k # 1
      <4>1. k - 1 \in 1 .. Len(l) /\ (k - 1) + 1 = k
        BY <1>10, <1>15, <2>1, <2>2, <3>2
      <4>2. q[k] = l[k - 1] /\ w[k] = want[k - 1]
        BY <1>10, <1>15, <2>1, <4>1
      <4>3. QED
        BY <2>1, <2>2, <4>1, <4>2
    <3>3. QED
      BY <3>1, <3>2
  <2>4. Len(q) = Len(w)
    BY <1>10, <1>15, <2>1
  <2>5. QED
    BY <1>3, <1>14, <2>3, <2>4 DEF InOrder
<1>19. Mapping(c)'
  BY <1>1, <1>3, MappingSame
<1>20. Going(q, c)'
  BY <1>3 DEF Going
<1>21. QED
  BY <1>12, <1>16, <1>17, <1>18, <1>19, <1>20 DEF Before, Stands

(* ft_lstadd_back. *)
LEMMA AddBackKeeps ==
  ASSUME NEW l, NEW c, Before(l, c), AddBack
  PROVE  \E q : Before(q, c)'
<1>1. ListTypes /\ Lists(l, c) /\ Held(l, c) /\ InOrder(l) /\ Mapping(c) /\ Going(l, c)
  BY DEF Before, Stands
<1>2. PICK n, nx, h : n = fresh /\ nx = next /\ h = lst
  OBVIOUS
<1>3. /\ pc = "idle" /\ pc' = "idle" /\ n # NULL
      /\ next' = AddedBack(nx, h, n).next /\ lst' = AddedBack(nx, h, n).head
      /\ fresh' = NULL /\ want' = Append(want, cont[n])
      /\ UNCHANGED <<cont, live, blocks, copy, pc, at, seen, made, mapped>>
  BY <1>2 DEF AddBack
<1>4. /\ l \in Seq(Nodes) /\ c \in Seq(Nodes) /\ live \subseteq Nodes
      /\ IsInjective(l) /\ IsInjective(c) /\ ToSet(l) \cap ToSet(c) = {}
      /\ live = {n} \cup ToSet(l) \cup ToSet(c) /\ ToSet(Alone(fresh)) = {n}
      /\ n \in Nodes /\ n \notin ToSet(l) /\ n \notin ToSet(c) /\ nx[n] = NULL
  BY <1>1, <1>2, <1>3, ListsKnown
<1>5. /\ nx \in [Nodes -> Int] /\ cont \in [Nodes -> Plain(Contents) \cup Applied]
      /\ want \in Seq(Plain(Contents)) /\ made \in 0 .. Contents
  BY <1>1, <1>2 DEF ListTypes
<1>6. Linked(nx, h, l) /\ Linked(nx, copy, c) /\ (Roots[2])' = lst' /\ (Roots[3])' = copy
  BY <1>1, <1>2, <1>3 DEF Lists, Roots
<1>7. /\ next' \in [Nodes -> Int] /\ \A m \in Nodes : m \notin ToSet(l) => next'[m] = nx[m]
      /\ \E q \in Seq(Nodes) :
            /\ Linked(next', lst', q) /\ IsInjective(q) /\ ToSet(q) = {n} \cup ToSet(l)
            /\ Len(q) = Len(l) + 1 /\ q[Len(l) + 1] = n /\ \A k \in 1 .. Len(l) : q[k] = l[k]
  <2>1. WithLast(AddedBack(nx, h, n).next, AddedBack(nx, h, n).head, nx, l, n)
    BY <1>4, <1>5, <1>6, LinkedBack
  <2>2. WithLast(next', lst', nx, l, n)
    BY <1>3, <2>1
  <2>3. QED
    BY <2>2 DEF WithLast
<1>8. PICK q \in Seq(Nodes) :
            /\ Linked(next', lst', q) /\ IsInjective(q) /\ ToSet(q) = {n} \cup ToSet(l)
            /\ Len(q) = Len(l) + 1 /\ q[Len(l) + 1] = n /\ \A k \in 1 .. Len(l) : q[k] = l[k]
  BY <1>7
<1>9. Linked(next', copy, c)
  <2>1. \A m \in ToSet(c) : m \in Nodes /\ m \notin ToSet(l)
    BY <1>4
  <2>2. QED
    BY <1>6, <1>7, <2>1, LinkedSame
<1>10. Linked(next', NULL, Alone(NULL)) /\ IsInjective(Alone(NULL)) /\ ToSet(Alone(NULL)) = {}
  BY NoneAlone
<1>11. Lists(q, c)'
  BY <1>3, <1>4, <1>6, <1>8, <1>9, <1>10 DEF Lists, Apart
<1>12. cont[n] \in Plain(made) /\ Plain(made) \subseteq Plain(Contents)
  BY <1>1, <1>4, <1>5, PlainIs, ListAssumption DEF Held
<1>13. PICK w : w = want'
  OBVIOUS
<1>14. /\ w \in Seq(Plain(Contents)) /\ Len(want) \in Nat /\ Len(w) = Len(want) + 1
       /\ w[Len(want) + 1] = cont[n] /\ \A k \in 1 .. Len(want) : w[k] = want[k]
  <2>1. cont[n] \in Plain(Contents)
    BY <1>12
  <2>2. Len(want) \in Nat
    BY <1>5
  <2>3. QED
    BY <1>3, <1>5, <1>13, <2>1, <2>2, AppendProperties
<1>15. ListTypes'
  BY <1>1, <1>3, <1>7, <1>13, <1>14 DEF ListTypes
<1>16. Held(q, c)'
  BY <1>1, <1>3, <1>4, <1>8, <1>10, <1>12 DEF Held
<1>17. InOrder(q)'
  <2>1. Len(l) = Len(want) /\ \A k \in DOMAIN l : cont[l[k]] = want[k]
    BY <1>1, <1>3 DEF InOrder
  <2>2. DOMAIN l = 1 .. Len(l) /\ DOMAIN q = 1 .. Len(q)
    BY <1>4, <1>8, SeqIs
  <2>3. ASSUME NEW k \in DOMAIN q PROVE cont[q[k]] = w[k]
    <3>1. CASE k = Len(l) + 1
      BY <1>8, <1>14, <2>1, <3>1
    <3>2. CASE k # Len(l) + 1
      <4>1. k \in 1 .. Len(l)
        BY <1>8, <1>14, <2>1, <2>2, <3>2
      <4>2. q[k] = l[k] /\ w[k] = want[k]
        BY <1>8, <1>14, <2>1, <4>1
      <4>3. QED
        BY <2>1, <2>2, <4>1, <4>2
    <3>3. QED
      BY <3>1, <3>2
  <2>4. Len(q) = Len(w)
    BY <1>8, <1>14, <2>1
  <2>5. QED
    BY <1>3, <1>13, <2>3, <2>4 DEF InOrder
<1>18. Mapping(c)'
  BY <1>1, <1>3, MappingSame
<1>19. Going(q, c)'
  BY <1>3 DEF Going
<1>20. QED
  BY <1>11, <1>15, <1>16, <1>17, <1>18, <1>19 DEF Before, Stands

(* ft_lstmap without memory: what it has made is now to be cleared. *)
LEMMA GiveUpKeeps ==
  ASSUME NEW l, NEW c, Before(l, c), pc = "map", GiveUp, UNCHANGED memory,
         UNCHANGED <<lst, fresh, seen, made, want, mapped>>
  PROVE  Before(l, c)'
<1>1. ListTypes /\ Lists(l, c) /\ Held(l, c) /\ InOrder(l) /\ Mapping(c) /\ Going(l, c)
  BY DEF Before, Stands
<1>2. ListTypes'
  BY <1>1 DEF GiveUp, ListTypes, memory
<1>3. Lists(l, c)'
  BY <1>1, ListsSame DEF GiveUp, Roots, memory
<1>4. Held(l, c)'
  BY <1>1, HeldSame
<1>5. InOrder(l)'
  BY <1>1 DEF InOrder, GiveUp, memory
<1>6. Mapping(c)' /\ Going(l, c)'
  BY DEF Mapping, Going, GiveUp
<1>7. QED
  BY <1>2, <1>3, <1>4, <1>5, <1>6 DEF Before, Stands

(* A turn of ft_lstmap: the content it makes is in no other node. *)
LEMMA MapTurnKeeps ==
  ASSUME NEW l, NEW c, Before(l, c), MapTurn
  PROVE  \E q : Before(l, q)'
<1>1. ListTypes /\ Lists(l, c) /\ Held(l, c) /\ InOrder(l) /\ Mapping(c) /\ Going(l, c)
  BY DEF Before, Stands
<1>2. CASE GiveUp /\ UNCHANGED memory
  BY <1>2, GiveUpKeeps DEF MapTurn
<1>3. ASSUME NEW x \in {Append(cont[at], "f"), None}, Lstnew(x),
             next' = AddedBack([next EXCEPT ![Malloc] = NULL], copy, Malloc).next,
             copy' = AddedBack([next EXCEPT ![Malloc] = NULL], copy, Malloc).head,
             at' = next[at], UNCHANGED pc
      PROVE  \E q : Before(l, q)'
  <2>1. PICK n, nx, h : n = Malloc /\ nx = [next EXCEPT ![n] = NULL] /\ h = copy
    OBVIOUS
  <2>2. /\ l \in Seq(Nodes) /\ c \in Seq(Nodes) /\ live \subseteq Nodes
        /\ IsInjective(l) /\ IsInjective(c) /\ ToSet(l) \cap ToSet(c) = {}
        /\ live = ToSet(Alone(fresh)) \cup ToSet(l) \cup ToSet(c)
    BY <1>1, ListsKnown
  <2>3. n \in Nodes /\ n \notin live
    BY <1>3, <2>1, <2>2, MallocIs DEF Lstnew
  <2>4. /\ pc = "map" /\ pc' = "map" /\ at # NULL /\ UNCHANGED <<lst, fresh, seen, made, want, mapped>>
        /\ cont' = [cont EXCEPT ![n] = x] /\ live' = live \cup {n}
        /\ blocks' = blocks \cup ({x} \ {None})
        /\ next' = AddedBack(nx, h, n).next /\ copy' = AddedBack(nx, h, n).head
    BY <1>3, <2>1 DEF Lstnew, MapTurn
  <2>5. /\ next \in [Nodes -> Int] /\ cont \in [Nodes -> Plain(Contents) \cup Applied]
        /\ NULL \in Int /\ made \in 0 .. Contents /\ mapped \in Seq(Plain(Contents))
    BY <1>1 DEF ListTypes, NULL
  <2>6. /\ mapped = want /\ at = NodeAt(l, Len(c) + 1)
        /\ Len(l) = Len(want) /\ \A k \in DOMAIN l : cont[l[k]] = want[k]
        /\ Len(c) <= Len(mapped) /\ \A k \in DOMAIN c : cont[c[k]] \in {Append(mapped[k], "f"), None}
    BY <1>1, <2>4 DEF Going, InOrder, Mapping
  <2>7. /\ Len(l) \in Nat /\ DOMAIN l = 1 .. Len(l) /\ \A k \in 1 .. Len(l) : l[k] \in Nodes
        /\ Len(c) \in Nat /\ DOMAIN c = 1 .. Len(c)
    BY <2>2, SeqIs
  <2>8. Len(c) + 1 \in DOMAIN l /\ at = l[Len(c) + 1] /\ at \in Nodes
    BY <2>4, <2>6, <2>7 DEF NodeAt
  <2>9. /\ \A k \in DOMAIN l : cont[l[k]] \in Plain(made)
        /\ cont[at] = mapped[Len(c) + 1] /\ cont[at] \in Plain(Contents)
        /\ Plain(made) \subseteq Plain(Contents)
    <3>1. \A k \in DOMAIN l : cont[l[k]] \in Plain(made)
      BY <1>1 DEF Held, ToSet
    <3>2. Plain(made) \subseteq Plain(Contents)
      BY <2>5, PlainIs, ListAssumption
    <3>3. QED
      BY <2>6, <2>8, <3>1, <3>2
  <2>10. x \in Applied /\ (x = None \/ \A m \in live : cont[m] # x)
    <3>1. x \in Applied
      BY <2>9, AppliedIs DEF Applied
    <3>2. ASSUME x # None, NEW m \in live PROVE cont[m] # x
      <4>1. x = Append(cont[at], "f")
        BY <3>2
      <4>2. CASE m \in ToSet(Alone(fresh)) \cup ToSet(l)
        <5>1. cont[m] \in Plain(Contents)
          BY <1>1, <2>9, <4>2 DEF Held
        <5>2. QED
          BY <2>9, <4>1, <5>1, AppliedIs
      <4>3. CASE m \in ToSet(c)
        <5>1. PICK k \in DOMAIN c : m = c[k]
          BY <4>3 DEF ToSet
        <5>2. SUFFICES ASSUME cont[m] = x PROVE FALSE
          OBVIOUS
        <5>3. Append(mapped[k], "f") = Append(cont[at], "f")
          BY <2>6, <3>2, <4>1, <5>1, <5>2
        <5>4. k \in DOMAIN l /\ cont[l[k]] = mapped[k] /\ k # Len(c) + 1
          <6>1. k \in 1 .. Len(c)
            BY <2>7, <5>1
          <6>2. QED
            BY <2>6, <2>7, <6>1
        <5>5. mapped[k] \in Plain(Contents)
          BY <2>9, <5>4
        <5>6. mapped[k] = cont[at]
          BY <2>9, <5>3, <5>5, AppliedIs
        <5>7. cont[l[k]] = cont[at] /\ cont[at] # None /\ l[k] \in live /\ at \in live
          <6>1. None \notin Plain(Contents)
            BY PlainIs, ListAssumption
          <6>2. l[k] \in ToSet(l) /\ at \in ToSet(l)
            BY <2>8, <5>4 DEF ToSet
          <6>3. QED
            BY <2>2, <2>9, <5>4, <5>6, <6>1, <6>2
        <5>8. l[k] = at
          BY <1>1, <5>7 DEF Held, OneEach
        <5>9. QED
          BY <2>2, <2>8, <5>4, <5>8 DEF IsInjective
      <4>4. QED
        BY <2>2, <4>2, <4>3
    <3>3. QED
      BY <3>1, <3>2
  <2>11. /\ cont' \in [Nodes -> Plain(Contents) \cup Applied] /\ cont'[n] = x
         /\ nx \in [Nodes -> Int] /\ nx[n] = NULL
         /\ \A m \in live : cont'[m] = cont[m] /\ nx[m] = next[m]
    BY <2>1, <2>2, <2>3, <2>4, <2>5, <2>10
  <2>12. /\ Linked(next, fresh, Alone(fresh)) /\ Linked(next, lst, l) /\ Linked(next, h, c)
         /\ (Roots[2])' = lst /\ (Roots[3])' = copy'
    BY <1>1, <2>1, <2>4 DEF Lists, Roots
  <2>13. Linked(nx, fresh, Alone(fresh)) /\ Linked(nx, lst, l) /\ Linked(nx, h, c)
    BY <2>2, <2>11, <2>12, LinkedSame
  <2>14. /\ next' \in [Nodes -> Int] /\ \A m \in Nodes : m \notin ToSet(c) => next'[m] = nx[m]
         /\ \E q \in Seq(Nodes) :
              /\ Linked(next', copy', q) /\ IsInjective(q) /\ ToSet(q) = {n} \cup ToSet(c)
              /\ Len(q) = Len(c) + 1 /\ q[Len(c) + 1] = n /\ \A k \in 1 .. Len(c) : q[k] = c[k]
    <3>1. WithLast(AddedBack(nx, h, n).next, AddedBack(nx, h, n).head, nx, c, n)
      <4>1. n \notin ToSet(c)
        BY <2>2, <2>3
      <4>2. QED
        BY <2>2, <2>3, <2>11, <2>13, <4>1, LinkedBack
    <3>2. WithLast(next', copy', nx, c, n)
      BY <2>4, <3>1
    <3>3. QED
      BY <3>2 DEF WithLast
  <2>15. PICK q \in Seq(Nodes) :
              /\ Linked(next', copy', q) /\ IsInjective(q) /\ ToSet(q) = {n} \cup ToSet(c)
              /\ Len(q) = Len(c) + 1 /\ q[Len(c) + 1] = n /\ \A k \in 1 .. Len(c) : q[k] = c[k]
    BY <2>14
  <2>16. ToSet(Alone(fresh)) \cap ToSet(c) = {} /\ IsInjective(Alone(fresh))
         /\ ToSet(Alone(fresh)) \cap ToSet(l) = {}
    BY <1>1 DEF Lists, Apart
  <2>17. Linked(next', fresh, Alone(fresh)) /\ Linked(next', lst, l)
    <3>1. \A m \in ToSet(l) \cup ToSet(Alone(fresh)) : m \in Nodes /\ m \notin ToSet(c)
      BY <2>2, <2>16
    <3>2. QED
      BY <2>13, <2>14, <3>1, LinkedSame
  <2>18. Lists(l, q)'
    BY <2>2, <2>3, <2>4, <2>12, <2>15, <2>16, <2>17 DEF Lists, Apart
  <2>19. ListTypes'
    BY <1>1, <2>4, <2>11, <2>14 DEF ListTypes
  <2>20. Held(l, q)'
    <3>1. OneEach(cont', live', blocks')
      BY <1>1, <2>2, <2>3, <2>4, <2>5, <2>10, OneMore DEF Held
    <3>2. \A m \in ToSet(Alone(fresh)) \cup ToSet(l) : cont'[m] \in Plain(made)
      BY <1>1, <2>2, <2>11 DEF Held
    <3>3. \A m \in ToSet(q) : cont'[m] \in Applied
      BY <1>1, <2>2, <2>10, <2>11, <2>15 DEF Held
    <3>4. QED
      BY <2>4, <3>1, <3>2, <3>3 DEF Held
  <2>21. InOrder(l)'
    BY <1>1, <2>2, <2>4, <2>11, OrderSame
  <2>22. Mapping(q)'
    <3>1. Len(q) <= Len(mapped)
      BY <2>6, <2>7, <2>8, <2>15
    <3>2. DOMAIN q = 1 .. Len(c) + 1
      BY <2>15, SeqIs
    <3>3. ASSUME NEW k \in DOMAIN q PROVE cont'[q[k]] \in {Append(mapped[k], "f"), None}
      <4>1. CASE k = Len(c) + 1
        BY <2>9, <2>11, <2>15, <4>1
      <4>2. CASE k # Len(c) + 1
        <5>1. k \in 1 .. Len(c)
          BY <2>7, <3>2, <4>2
        <5>2. q[k] = c[k] /\ c[k] \in live
          BY <2>2, <2>7, <2>15, <5>1 DEF ToSet
        <5>3. QED
          BY <2>6, <2>7, <2>11, <5>1, <5>2
      <4>3. QED
        BY <4>1, <4>2
    <3>4. QED
      BY <2>4, <3>1, <3>3 DEF Mapping
  <2>23. Going(l, q)'
    <3>1. at' = NodeAt(l, Len(q) + 1)
      <4>1. next[at] = NodeAt(l, (Len(c) + 1) + 1)
        BY <2>8, <2>12 DEF Linked
      <4>2. QED
        BY <1>3, <2>15, <4>1
    <3>2. QED
      BY <2>4, <2>6, <3>1 DEF Going
  <2>24. QED
    BY <2>18, <2>19, <2>20, <2>21, <2>22, <2>23 DEF Before, Stands
<1>4. QED
  BY <1>2, <1>3 DEF MapTurn

(* The first node of a list is freed, with its content. *)
LEMMA FirstGone ==
  ASSUME NEW nx \in [Nodes -> Int], NEW n, NEW p, Linked(nx, n, p), IsInjective(p), n # NULL,
         NEW ny, ny = [nx EXCEPT ![n] = Junk]
  PROVE  /\ Linked(ny, nx[n], Tail(p)) /\ ny \in [Nodes -> Int]
         /\ \A q \in Seq(Nodes) : n \notin ToSet(q) =>
              \A m : Linked(nx, m, q) => Linked(ny, m, q)
<1>1. /\ n \in Nodes /\ Linked(nx, nx[n], Tail(p)) /\ n \notin ToSet(Tail(p))
  BY LinkedHead
<1>2. ny \in [Nodes -> Int] /\ \A m \in Nodes : m # n => ny[m] = nx[m]
  BY <1>1 DEF Junk
<1>3. ASSUME NEW q \in Seq(Nodes), n \notin ToSet(q), NEW m, Linked(nx, m, q) PROVE Linked(ny, m, q)
  <2>1. \A o \in ToSet(q) : o \in Nodes /\ o # n
    BY <1>3, SeqIs DEF ToSet
  <2>2. QED
    BY <1>2, <1>3, <2>1, LinkedSame
<1>4. Linked(ny, nx[n], Tail(p))
  <2>1. Tail(p) \in Seq(Nodes)
    BY <1>1 DEF Linked
  <2>2. QED
    BY <1>1, <1>3, <2>1
<1>5. QED
  BY <1>2, <1>3, <1>4

(* A node is freed with its content, and the others keep theirs. *)
LEMMA HeldLess ==
  ASSUME NEW l, NEW c, Lists(l, c), Held(l, c), ListTypes, NEW n \in live, Lstdelone(n), fresh # n,
         UNCHANGED <<fresh, made>>,
         NEW q, NEW d, ToSet(q) \subseteq ToSet(l) \ {n}, ToSet(d) \subseteq ToSet(c) \ {n}
  PROVE  /\ Held(q, d)' /\ cont' \in [Nodes -> Plain(Contents) \cup Applied]
         /\ \A m \in Nodes : m # n => cont'[m] = cont[m]
<1>1. /\ live \subseteq Nodes /\ live = ToSet(Alone(fresh)) \cup ToSet(l) \cup ToSet(c)
      /\ n \notin ToSet(Alone(fresh))
  BY ListsKnown
<1>2. cont \in [Nodes -> Plain(Contents) \cup Applied] /\ None \in Applied
  BY DEF ListTypes, Applied
<1>3. /\ cont' = [cont EXCEPT ![n] = None] /\ live' = live \ {n} /\ blocks' = blocks \ {cont[n]}
  BY DEF Lstdelone
<1>4. OneEach(cont', live', blocks')
  BY <1>1, <1>2, <1>3, OneLess DEF Held
<1>5. /\ cont' \in [Nodes -> Plain(Contents) \cup Applied]
      /\ \A m \in Nodes : m # n => cont'[m] = cont[m]
  BY <1>1, <1>2, <1>3
<1>6. \A m \in ToSet(Alone(fresh)) \cup ToSet(q) : cont'[m] \in Plain(made)
  <2>1. \A m \in ToSet(Alone(fresh)) \cup ToSet(q) :
           m \in Nodes /\ m # n /\ m \in ToSet(Alone(fresh)) \cup ToSet(l)
    BY <1>1
  <2>2. QED
    BY <1>5, <2>1 DEF Held
<1>7. \A m \in ToSet(d) : cont'[m] \in Applied
  <2>1. \A m \in ToSet(d) : m \in Nodes /\ m # n /\ m \in ToSet(c)
    BY <1>1
  <2>2. QED
    BY <1>5, <2>1 DEF Held
<1>8. QED
  BY <1>4, <1>5, <1>6, <1>7 DEF Held

(* The caller takes the first node out. *)
LEMMA PopKeeps ==
  ASSUME NEW l, NEW c, Before(l, c), Pop
  PROVE  \E q : Before(q, c)'
<1>1. ListTypes /\ Lists(l, c) /\ Held(l, c) /\ InOrder(l) /\ Mapping(c) /\ Going(l, c)
  BY DEF Before, Stands
<1>2. PICK n, nx, q : n = lst /\ nx = next /\ q = Tail(l)
  OBVIOUS
<1>3. /\ pc = "idle" /\ pc' = "idle" /\ n # NULL /\ Lstdelone(n)
      /\ lst' = nx[n] /\ want' = Tail(want)
      /\ UNCHANGED <<fresh, copy, pc, at, seen, made, mapped>>
  BY <1>2 DEF Pop
<1>4. /\ l \in Seq(Nodes) /\ c \in Seq(Nodes) /\ live \subseteq Nodes
      /\ IsInjective(l) /\ IsInjective(c) /\ ToSet(l) \cap ToSet(c) = {}
      /\ live = ToSet(Alone(fresh)) \cup ToSet(l) \cup ToSet(c)
      /\ ToSet(Alone(fresh)) \cap ToSet(l) = {} /\ ToSet(Alone(fresh)) \cap ToSet(c) = {}
      /\ IsInjective(Alone(fresh)) /\ Alone(fresh) \in Seq(Nodes)
      /\ (fresh = NULL \/ fresh \notin ToSet(l))
  BY <1>1, ListsKnown DEF Lists, Apart, Linked
<1>5. /\ nx \in [Nodes -> Int] /\ want \in Seq(Plain(Contents))
  BY <1>1, <1>2 DEF ListTypes
<1>6. /\ Linked(nx, n, l) /\ Linked(nx, copy, c) /\ Linked(nx, fresh, Alone(fresh))
      /\ (Roots[2])' = lst' /\ (Roots[3])' = copy
  BY <1>1, <1>2, <1>3 DEF Lists, Roots
<1>7. /\ n \in Nodes /\ l # << >> /\ l[1] = n /\ Linked(nx, nx[n], q) /\ IsInjective(q)
      /\ ToSet(l) = {n} \cup ToSet(q) /\ n \notin ToSet(q)
      /\ Len(q) = Len(l) - 1 /\ \A k \in DOMAIN q : k + 1 \in DOMAIN l /\ q[k] = l[k + 1]
  BY <1>2, <1>3, <1>4, <1>6, LinkedHead
<1>8. next' = [nx EXCEPT ![n] = Junk] /\ live' = live \ {n}
  BY <1>2, <1>3 DEF Lstdelone
<1>9. /\ Linked(next', lst', q) /\ Linked(next', copy, c) /\ Linked(next', fresh, Alone(fresh))
      /\ next' \in [Nodes -> Int]
  <2>1. n \notin ToSet(c) /\ n \notin ToSet(Alone(fresh))
    BY <1>4, <1>7
  <2>2. PICK ny : ny = next'
    OBVIOUS
  <2>3. /\ Linked(ny, nx[n], Tail(l)) /\ ny \in [Nodes -> Int]
        /\ \A p \in Seq(Nodes) : n \notin ToSet(p) =>
             \A m : Linked(nx, m, p) => Linked(ny, m, p)
    BY <1>3, <1>4, <1>5, <1>6, <1>8, <2>2, FirstGone
  <2>4. QED
    BY <1>2, <1>3, <1>4, <1>6, <2>1, <2>2, <2>3
<1>10. Lists(q, c)'
  BY <1>3, <1>4, <1>6, <1>7, <1>8, <1>9 DEF Lists, Apart
<1>11. /\ Held(q, c)' /\ cont' \in [Nodes -> Plain(Contents) \cup Applied]
       /\ \A m \in Nodes : m # n => cont'[m] = cont[m]
  <2>1. n \in live /\ fresh # n /\ ToSet(q) \subseteq ToSet(l) \ {n} /\ ToSet(c) \subseteq ToSet(c) \ {n}
    BY <1>3, <1>4, <1>7
  <2>2. Lstdelone(n) /\ UNCHANGED <<fresh, made>> /\ Lists(l, c) /\ Held(l, c) /\ ListTypes
    BY <1>1, <1>3
  <2>3. QED
    BY <2>1, <2>2, HeldLess
<1>12. PICK w : w = want'
  OBVIOUS
<1>13. Len(l) = Len(want) /\ \A k \in DOMAIN l : cont[l[k]] = want[k]
  BY <1>1, <1>3 DEF InOrder
<1>14. /\ Len(l) \in Nat \ {0} /\ DOMAIN l = 1 .. Len(l) /\ q \in Seq(Nodes) /\ DOMAIN q = 1 .. Len(q)
  <2>1. q \in Seq(Nodes)
    BY <1>7 DEF Linked
  <2>2. QED
    BY <1>4, <1>7, <2>1, SeqIs
<1>15. /\ w \in Seq(Plain(Contents)) /\ Len(w) = Len(want) - 1
       /\ \A k \in 1 .. Len(w) : w[k] = want[k + 1]
  <2>1. want # << >>
    BY <1>5, <1>13, <1>14
  <2>2. QED
    BY <1>3, <1>5, <1>12, <2>1, HeadTailProperties
<1>16. InOrder(q)'
  <2>1. Len(q) = Len(w)
    BY <1>7, <1>13, <1>15
  <2>2. ASSUME NEW k \in DOMAIN q PROVE cont'[q[k]] = w[k]
    <3>1. k + 1 \in DOMAIN l /\ q[k] = l[k + 1] /\ q[k] \in ToSet(q) /\ k \in 1 .. Len(w)
      BY <1>7, <1>14, <2>1 DEF ToSet
    <3>2. q[k] \in Nodes /\ q[k] # n
      BY <1>7, <1>14, <3>1, SeqIs
    <3>3. QED
      BY <1>11, <1>13, <1>15, <3>1, <3>2
  <2>3. QED
    BY <1>12, <2>1, <2>2 DEF InOrder
<1>17. Mapping(c)'
  <2>1. \A m \in ToSet(c) : m \in Nodes /\ m # n
    BY <1>4, <1>7
  <2>2. QED
    BY <1>1, <1>3, <1>11, <2>1, MappingSame
<1>18. Going(q, c)'
  BY <1>3 DEF Going
<1>19. ListTypes'
  BY <1>1, <1>3, <1>9, <1>11, <1>12, <1>15 DEF ListTypes
<1>20. QED
  BY <1>10, <1>11, <1>16, <1>17, <1>18, <1>19 DEF Before, Stands

(* A turn of ft_lstclear. *)
LEMMA ClearTurnKeeps ==
  ASSUME NEW l, NEW c, Before(l, c), ClearTurn
  PROVE  \E q, d : Before(q, d)'
<1>1. ListTypes /\ Lists(l, c) /\ Held(l, c) /\ InOrder(l) /\ Mapping(c) /\ Going(l, c)
  BY DEF Before, Stands
<1>2. PICK n, nx, f : n = at /\ nx = next /\ f = Alone(fresh)
  OBVIOUS
<1>3. /\ pc \in {"clearlst", "clearcopy"} /\ n # NULL /\ Lstdelone(n) /\ at' = nx[n]
      /\ UNCHANGED <<lst, fresh, copy, pc, seen, made, want, mapped>>
  BY <1>2 DEF ClearTurn
<1>4. /\ l \in Seq(Nodes) /\ c \in Seq(Nodes) /\ f \in Seq(Nodes) /\ live \subseteq Nodes
      /\ IsInjective(l) /\ IsInjective(c) /\ IsInjective(f)
      /\ ToSet(l) \cap ToSet(c) = {} /\ ToSet(f) \cap ToSet(l) = {} /\ ToSet(f) \cap ToSet(c) = {}
      /\ live = ToSet(f) \cup ToSet(l) \cup ToSet(c)
      /\ (fresh = NULL \/ (fresh \notin ToSet(l) /\ fresh \notin ToSet(c)))
      /\ nx \in [Nodes -> Int] /\ Linked(nx, fresh, f) /\ f = Alone(fresh)
  BY <1>1, <1>2, ListsKnown DEF Lists, Apart, Linked, ListTypes
<1>5. next' = [nx EXCEPT ![n] = Junk] /\ live' = live \ {n}
  BY <1>2, <1>3 DEF Lstdelone
<1>6. Going(l, c)' /\ Going(Tail(l), c)' /\ Going(l, Tail(c))'
  BY <1>3 DEF Going
<1>7. CASE pc = "clearlst"
  <2>1. PICK q : q = Tail(l)
    OBVIOUS
  <2>2. Linked(nx, n, l) /\ Linked(nx, copy, c) /\ (Roots[2])' = at' /\ (Roots[3])' = copy
    BY <1>1, <1>2, <1>3, <1>7 DEF Lists, Roots
  <2>3. /\ n \in Nodes /\ Linked(nx, nx[n], q) /\ IsInjective(q)
        /\ ToSet(l) = {n} \cup ToSet(q) /\ n \notin ToSet(q)
    BY <1>3, <1>4, <2>1, <2>2, LinkedHead
  <2>4. n \notin ToSet(c) /\ n \notin ToSet(f) /\ n \in live /\ fresh # n
    BY <1>3, <1>4, <2>3
  <2>5. Linked(next', at', q) /\ Linked(next', copy, c) /\ Linked(next', fresh, f) /\ next' \in [Nodes -> Int]
    <3>1. PICK ny : ny = next'
      OBVIOUS
    <3>2. /\ Linked(ny, nx[n], Tail(l)) /\ ny \in [Nodes -> Int]
          /\ \A p \in Seq(Nodes) : n \notin ToSet(p) =>
               \A m : Linked(nx, m, p) => Linked(ny, m, p)
      BY <1>3, <1>4, <1>5, <2>2, <3>1, FirstGone
    <3>3. QED
      BY <1>3, <1>4, <2>1, <2>2, <2>4, <3>1, <3>2
  <2>6. Lists(q, c)'
    BY <1>3, <1>4, <1>5, <2>2, <2>3, <2>4, <2>5 DEF Lists, Apart
  <2>7. /\ Held(q, c)' /\ cont' \in [Nodes -> Plain(Contents) \cup Applied]
        /\ \A m \in Nodes : m # n => cont'[m] = cont[m]
    <3>1. ToSet(q) \subseteq ToSet(l) \ {n} /\ ToSet(c) \subseteq ToSet(c) \ {n}
      BY <2>3, <2>4
    <3>2. QED
      BY <1>1, <1>3, <2>4, <3>1, HeldLess
  <2>8. InOrder(q)'
    BY <1>3, <1>7 DEF InOrder
  <2>9. Mapping(c)'
    <3>1. \A m \in ToSet(c) : m \in Nodes /\ m # n
      BY <1>4, <2>4
    <3>2. QED
      BY <1>1, <1>3, <2>7, <3>1, MappingSame
  <2>10. ListTypes'
    BY <1>1, <1>3, <2>5, <2>7 DEF ListTypes
  <2>11. QED
    BY <1>6, <2>1, <2>6, <2>7, <2>8, <2>9, <2>10 DEF Before, Stands
<1>8. CASE pc = "clearcopy"
  <2>1. PICK d : d = Tail(c)
    OBVIOUS
  <2>2. Linked(nx, n, c) /\ Linked(nx, lst, l) /\ (Roots[2])' = lst /\ (Roots[3])' = at'
    BY <1>1, <1>2, <1>3, <1>8 DEF Lists, Roots
  <2>3. /\ n \in Nodes /\ Linked(nx, nx[n], d) /\ IsInjective(d)
        /\ ToSet(c) = {n} \cup ToSet(d) /\ n \notin ToSet(d)
    BY <1>3, <1>4, <2>1, <2>2, LinkedHead
  <2>4. n \notin ToSet(l) /\ n \notin ToSet(f) /\ n \in live /\ fresh # n
    BY <1>3, <1>4, <2>3
  <2>5. Linked(next', at', d) /\ Linked(next', lst, l) /\ Linked(next', fresh, f) /\ next' \in [Nodes -> Int]
    <3>1. PICK ny : ny = next'
      OBVIOUS
    <3>2. /\ Linked(ny, nx[n], Tail(c)) /\ ny \in [Nodes -> Int]
          /\ \A p \in Seq(Nodes) : n \notin ToSet(p) =>
               \A m : Linked(nx, m, p) => Linked(ny, m, p)
      BY <1>3, <1>4, <1>5, <2>2, <3>1, FirstGone
    <3>3. QED
      BY <1>3, <1>4, <2>1, <2>2, <2>4, <3>1, <3>2
  <2>6. Lists(l, d)'
    BY <1>3, <1>4, <1>5, <2>2, <2>3, <2>4, <2>5 DEF Lists, Apart
  <2>7. /\ Held(l, d)' /\ cont' \in [Nodes -> Plain(Contents) \cup Applied]
        /\ \A m \in Nodes : m # n => cont'[m] = cont[m]
    <3>1. ToSet(d) \subseteq ToSet(c) \ {n} /\ ToSet(l) \subseteq ToSet(l) \ {n}
      BY <2>3, <2>4
    <3>2. QED
      BY <1>1, <1>3, <2>4, <3>1, HeldLess
  <2>8. InOrder(l)'
    <3>1. \A m \in ToSet(l) : m \in Nodes /\ m # n
      BY <1>4, <2>4
    <3>2. QED
      BY <1>1, <1>3, <2>7, <3>1, OrderSame
  <2>9. Mapping(d)'
    BY <1>3, <1>8 DEF Mapping
  <2>10. ListTypes'
    BY <1>1, <1>3, <2>5, <2>7 DEF ListTypes
  <2>11. QED
    BY <1>6, <2>1, <2>6, <2>7, <2>8, <2>9, <2>10 DEF Before, Stands
<1>9. QED
  BY <1>3, <1>7, <1>8

-----------------------------------------------------------------------------
(* The invariant holds at first, *)
LEMMA ListInit == Init => ListInv
<1> SUFFICES ASSUME Init PROVE ListInv
  OBVIOUS
<1>1. PICK e : e = << >>
  OBVIOUS
<1>2. /\ e \in Seq(Nodes) /\ e \in Seq(Plain(Contents)) /\ Len(e) = 0 /\ DOMAIN e = {}
      /\ IsInjective(e) /\ ToSet(e) = {} /\ None \in Applied /\ 0 \in 0 .. Contents
  BY <1>1, ListAssumption DEF IsInjective, ToSet, Applied
<1>3. ListTypes
  BY <1>1, <1>2 DEF Init, ListTypes, Junk
<1>4. Roots[2] = NULL /\ Roots[3] = NULL /\ fresh = NULL /\ Alone(fresh) = e
  BY <1>1 DEF Init, Roots, Alone
<1>5. Linked(next, NULL, e)
  BY <1>2 DEF Linked, NodeAt
<1>6. Path(Roots[2]) = e /\ Path(Roots[3]) = e
  BY <1>2, <1>4, <1>5, PathIs DEF Path
<1>7. Lists(e, e)
  BY <1>2, <1>4, <1>5 DEF Lists, Apart, Init
<1>8. Held(e, e)
  BY <1>2, <1>4 DEF Held, OneEach, Init
<1>9. InOrder(e) /\ Mapping(e) /\ Going(e, e)
  BY <1>1, <1>2 DEF InOrder, Mapping, Going, Init
<1>10. QED
  BY <1>3, <1>6, <1>7, <1>8, <1>9 DEF ListInv, Stands

(* every step keeps it, *)
LEMMA ListStep == ListInv /\ Next => ListInv'
<1> SUFFICES ASSUME ListInv, Next PROVE ListInv'
  OBVIOUS
<1>1. PICK l, c : l = Path(Roots[2]) /\ c = Path(Roots[3])
  OBVIOUS
<1>2. Before(l, c)
  BY <1>1 DEF ListInv, Before
<1>3. \E q, d : Before(q, d)'
  <2>1. CASE New
    BY <1>2, <2>1, NewKeeps
  <2>2. CASE AddFront
    BY <1>2, <2>2, AddFrontKeeps
  <2>3. CASE AddBack
    BY <1>2, <2>3, AddBackKeeps
  <2>4. CASE Map
    BY <1>2, <2>4, MapKeeps
  <2>5. CASE MapTurn
    BY <1>2, <2>5, MapTurnKeeps
  <2>6. CASE MapEnd
    BY <1>2, <2>6, MapEndKeeps
  <2>7. CASE Pop
    BY <1>2, <2>7, PopKeeps
  <2>8. CASE Clear
    BY <1>2, <2>8, ClearKeeps
  <2>9. CASE ClearTurn
    BY <1>2, <2>9, ClearTurnKeeps
  <2>10. CASE ClearEnd
    BY <1>2, <2>10, ClearEndKeeps
  <2>11. CASE Walk \/ WalkTurn \/ WalkEnd
    BY <1>2, <2>11, WalkKeeps
  <2>12. QED
    BY <2>1, <2>2, <2>3, <2>4, <2>5, <2>6, <2>7, <2>8, <2>9, <2>10, <2>11 DEF Next
<1>4. PICK q, d : Before(q, d)'
  BY <1>3
<1>5. (Path(Roots[2]))' = q /\ (Path(Roots[3]))' = d
  <2>1. Linked(next', (Roots[2])', q) /\ Linked(next', (Roots[3])', d) /\ IsInjective(q) /\ IsInjective(d)
    BY <1>4 DEF Before, Stands, Lists, Apart
  <2>2. QED
    BY <2>1, PathIs DEF Path
<1>6. QED
  BY <1>4, <1>5 DEF ListInv, Before

(* and so does a step of others. *)
LEMMA ListSame == ListInv /\ UNCHANGED vars => ListInv'
<1> SUFFICES ASSUME ListInv, UNCHANGED vars PROVE ListInv'
  OBVIOUS
<1>1. PICK l, c : l = Path(Roots[2]) /\ c = Path(Roots[3])
  OBVIOUS
<1>2. Roots' = Roots
  BY DEF vars, Roots
<1>3. (Path(Roots[2]))' = l /\ (Path(Roots[3]))' = c
  BY <1>1, <1>2 DEF Path, vars
<1>4. ListTypes' /\ Stands(l, c)'
  BY <1>1, <1>2 DEF ListInv, vars, ListTypes, Stands, Lists, Held, InOrder, Mapping, Going
<1>5. QED
  BY <1>3, <1>4 DEF ListInv

(* The linked lists: whatever is called in whatever order, and wherever a  *)
(* malloc fails, each node and each content is in one place, the list is   *)
(* what was added to it, ft_lstmap maps all of it or nothing, and the      *)
(* loops over it see every node once.                                      *)
THEOREM ListsCorrect == LibftSpec => []ListsRight
<1>1. LibftInit => ListInv
  BY ListInit DEF LibftInit
<1>2. ListInv /\ [LibftNext]_<<vars, args>> => ListInv'
  BY ListStep, ListSame DEF LibftNext
<1>3. ListInv => ListsRight
  BY ListsFromInv
<1>4. QED
  BY <1>1, <1>2, <1>3, PTL DEF LibftSpec
=============================================================================
