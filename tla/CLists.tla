------------------------------- MODULE CLists -------------------------------
(***************************************************************************)
(* The linked lists of libft, as a caller uses them: a list of its own,    *)
(* and the one that ft_lstmap made of it.  Loops take one turn at a time.  *)
(* Addresses are numbers; malloc gives the lowest free one, so that freed  *)
(* memory is used again.  A content is a block of the caller's: <<k>> was  *)
(* made by the caller, <<k, "f">> by the function that ft_lstmap applies;  *)
(* del is given, and frees it.                                             *)
(***************************************************************************)
EXTENDS Integers, Sequences, SequencesExt

CONSTANTS
  Nodes,     \* addresses, positive numbers
  Contents   \* how many contents the caller makes

ASSUME ListAssumption == Nodes \subseteq Nat \ {0} /\ IsFiniteSet(Nodes) /\ Contents \in Nat

NULL == 0
None == << >>      \* the NULL of a content
Junk == -1         \* what is left in freed memory

VARIABLES
  next, cont,   \* the two fields of a node
  live,         \* nodes allocated and not freed
  blocks,       \* contents allocated and not freed
  lst,          \* the caller's list
  fresh,        \* a node from ft_lstnew that is in no list yet
  copy,         \* flst of ft_lstmap, then its result
  pc,           \* "idle", or the loop that runs: "map", "clearlst", "clearcopy", "walk"
  at,           \* the node that loop has come to
  seen,         \* the nodes a walk has visited
  made,         \* how many contents the caller has made
  want,         \* the contents lst should have, in order (history)
  mapped        \* what want was when ft_lstmap was called (history)

vars == <<next, cont, live, blocks, lst, fresh, copy, pc, at, seen, made, want, mapped>>

memory == <<next, cont, live, blocks>>

Init ==
  /\ next = [n \in Nodes |-> Junk] /\ cont = [n \in Nodes |-> None]
  /\ live = {} /\ blocks = {}
  /\ lst = NULL /\ fresh = NULL /\ copy = NULL
  /\ pc = "idle" /\ at = NULL /\ seen = << >>
  /\ made = 0 /\ want = << >> /\ mapped = << >>

\* the nodes from n on, with one more than there are if they run in a circle
PathIn(nx, n) ==
  LET node[k \in Nat] == IF k = 0 THEN n
                         ELSE IF node[k - 1] \in Nodes THEN nx[node[k - 1]] ELSE NULL
      ends == {k \in 0 .. Cardinality(Nodes) : node[k] = NULL}
  IN  [k \in 1 .. Min(ends \cup {Cardinality(Nodes) + 1}) |-> node[k - 1]]

Path(n) == PathIn(next, n)

-----------------------------------------------------------------------------
HasRoom == live # Nodes
Malloc  == Min(Nodes \ live)

\* ft_lstnew, with memory, and the content that goes with it
Lstnew(c) ==
  /\ HasRoom
  /\ live' = live \cup {Malloc}
  /\ cont' = [cont EXCEPT ![Malloc] = c]
  /\ blocks' = blocks \cup ({c} \ {None})

\* the caller has a content; without memory for the node it frees it
New ==
  /\ pc = "idle" /\ fresh = NULL /\ made < Contents
  /\ made' = made + 1
  /\ \/ Lstnew(<<made + 1>>) /\ next' = [next EXCEPT ![Malloc] = NULL] /\ fresh' = Malloc
     \/ UNCHANGED <<memory, fresh>>
  /\ UNCHANGED <<lst, copy, pc, at, seen, want, mapped>>

\* ft_lstadd_front
AddFront ==
  /\ pc = "idle" /\ fresh # NULL
  /\ next' = [next EXCEPT ![fresh] = lst]
  /\ lst' = fresh /\ fresh' = NULL
  /\ want' = <<cont[fresh]>> \o want
  /\ UNCHANGED <<cont, live, blocks, copy, pc, at, seen, made, mapped>>

\* ft_lstadd_back
AddedBack(nx, head, n) ==
  IF head = NULL THEN [head |-> n, next |-> nx]
  ELSE [head |-> head, next |-> [nx EXCEPT ![Last(PathIn(nx, head))] = n]]

AddBack ==
  LET r == AddedBack(next, lst, fresh) IN
  /\ pc = "idle" /\ fresh # NULL
  /\ next' = r.next /\ lst' = r.head /\ fresh' = NULL
  /\ want' = Append(want, cont[fresh])
  /\ UNCHANGED <<cont, live, blocks, copy, pc, at, seen, made, mapped>>

-----------------------------------------------------------------------------
\* ft_lstmap, when the caller has freed its earlier result
Map ==
  /\ pc = "idle" /\ copy = NULL /\ lst # NULL
  /\ pc' = "map" /\ at' = lst /\ mapped' = want
  /\ UNCHANGED <<memory, lst, fresh, copy, seen, made, want>>

\* mutant: return (NULL), and nothing else
GiveUpAtOnce == pc' = "idle" /\ at' = NULL /\ copy' = NULL

\* ft_lstclear(&flst), and NULL
GiveUp == pc' = "clearcopy" /\ at' = copy /\ UNCHANGED copy

\* one turn of its loop; the function it applies may fail, too, and return NULL
MapTurn ==
  /\ pc = "map" /\ at # NULL
  /\ \/ /\ \E c \in {Append(cont[at], "f"), None} : Lstnew(c)
        /\ LET r == AddedBack([next EXCEPT ![Malloc] = NULL], copy, Malloc)
           IN  next' = r.next /\ copy' = r.head
        /\ at' = next[at] /\ UNCHANGED pc
     \/ GiveUp /\ UNCHANGED memory
  /\ UNCHANGED <<lst, fresh, seen, made, want, mapped>>

MapEnd ==
  /\ pc = "map" /\ at = NULL /\ pc' = "idle"
  /\ UNCHANGED <<memory, lst, fresh, copy, at, seen, made, want, mapped>>

-----------------------------------------------------------------------------
\* ft_lstdelone, with del: a content that is NULL is not freed
Lstdelone(n) ==
  /\ live' = live \ {n}
  /\ blocks' = blocks \ {cont[n]}
  /\ next' = [next EXCEPT ![n] = Junk] /\ cont' = [cont EXCEPT ![n] = None]

\* the caller takes the first node out
Pop ==
  /\ pc = "idle" /\ lst # NULL
  /\ Lstdelone(lst)
  /\ lst' = next[lst] /\ want' = Tail(want)
  /\ UNCHANGED <<fresh, copy, pc, at, seen, made, mapped>>

\* ft_lstclear
Clear ==
  /\ pc = "idle"
  /\ \/ lst # NULL /\ pc' = "clearlst" /\ at' = lst
     \/ copy # NULL /\ pc' = "clearcopy" /\ at' = copy
  /\ UNCHANGED <<memory, lst, fresh, copy, seen, made, want, mapped>>

ClearTurn ==
  /\ pc \in {"clearlst", "clearcopy"} /\ at # NULL
  /\ Lstdelone(at) /\ at' = next[at]
  /\ UNCHANGED <<lst, fresh, copy, pc, seen, made, want, mapped>>

ClearEnd ==
  /\ pc \in {"clearlst", "clearcopy"} /\ at = NULL /\ pc' = "idle"
  /\ IF pc = "clearlst" THEN lst' = NULL /\ want' = << >> /\ UNCHANGED copy
     ELSE copy' = NULL /\ UNCHANGED <<lst, want>>
  /\ UNCHANGED <<memory, fresh, at, seen, made, mapped>>

-----------------------------------------------------------------------------
\* ft_lstiter, ft_lstsize and ft_lstlast go over the list in the same way
Walk ==
  /\ pc = "idle" /\ pc' = "walk" /\ at' = lst /\ seen' = << >>
  /\ UNCHANGED <<memory, lst, fresh, copy, made, want, mapped>>

MoreToWalk == at # NULL

WalkTurn ==
  /\ pc = "walk" /\ MoreToWalk
  /\ seen' = Append(seen, at) /\ at' = next[at]
  /\ UNCHANGED <<memory, lst, fresh, copy, pc, made, want, mapped>>

WalkEnd ==
  /\ pc = "walk" /\ ~MoreToWalk
  /\ pc' = "idle" /\ at' = NULL
  /\ UNCHANGED <<memory, lst, fresh, copy, seen, made, want, mapped>>

Lstsize == Len(seen)
Lstlast == IF seen = << >> THEN NULL ELSE Last(seen)

Next ==
  \/ New \/ AddFront \/ AddBack \/ Map \/ MapTurn \/ MapEnd
  \/ Pop \/ Clear \/ ClearTurn \/ ClearEnd \/ Walk \/ WalkTurn \/ WalkEnd

Spec == Init /\ [][Next]_vars

-----------------------------------------------------------------------------
Contained(p) == [k \in DOMAIN p |-> cont[p[k]]]

\* the lists and the node that memory may be reached from, what is being freed included
Roots == <<fresh, IF pc = "clearlst" THEN at ELSE lst, IF pc = "clearcopy" THEN at ELSE copy>>

(* At every moment, and wherever a malloc failed, each allocated node is   *)
(* in one list and in one place of it, and each content in one node: no    *)
(* circle, no node shared by a list and its copy, nothing leaked, nothing  *)
(* freed that is still in a list.                                          *)
EachInOnePlace ==
  LET all == Path(Roots[1]) \o Path(Roots[2]) \o Path(Roots[3])
  IN  /\ IsInjective(all) /\ ToSet(all) = live
      /\ \A n, m \in live : cont[n] = cont[m] /\ cont[n] # None => n = m
      /\ {cont[n] : n \in live} \ {None} = blocks

(* The list is the sequence of what was added to its front and back, and   *)
(* ft_lstmap, whether it succeeds or fails, leaves it as it is.            *)
ListIsSequence == pc # "clearlst" => Contained(Path(lst)) = want

(* The result of ft_lstmap is the whole list, mapped, in order; while it   *)
(* is built it is the beginning of that.  A content that the function      *)
(* could not make is NULL there.                                           *)
MapIsWhole ==
  pc # "clearcopy" /\ copy # NULL =>
    LET c == Contained(Path(copy)) IN
    /\ Len(c) <= Len(mapped) /\ \A k \in DOMAIN c : c[k] \in {Append(mapped[k], "f"), None}
    /\ pc # "map" => Len(c) = Len(mapped)

(* The loops over the list see every node once, in order, and its last.    *)
WalkSeesAll ==
  pc = "walk" /\ ~MoreToWalk =>
    /\ Contained(seen) = want
    /\ Lstsize = Len(want)
    /\ want # << >> => cont[Lstlast] = Last(want)
=============================================================================
