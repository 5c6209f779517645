------------------------------ MODULE CMemory ------------------------------
(***************************************************************************)
(* The memory functions of libft on a small memory, a function from        *)
(* addresses to bytes.  Regions may overlap.  What each function promises  *)
(* stands at the end; Libft checks it.                                     *)
(***************************************************************************)
EXTENDS Integers, FiniteSets, FiniteSetsExt

NULL == -1

\* n turns of a loop whose turn number i stores Byte(m, i) in m at Addr(i)
Loop(mem, n, Addr(_), Byte(_, _)) ==
  LET after[i \in 0 .. n] ==
        IF i = 0 THEN mem
        ELSE [after[i - 1] EXCEPT ![Addr(i - 1)] = Byte(after[i - 1], i - 1)]
  IN  after[n]

\* mutant: from the front in every case
MoveIndexUp(dest, src, n, i) == i

\* the index of the byte that turn i of ft_memmove copies
MoveIndex(dest, src, n, i) == IF src < dest THEN n - 1 - i ELSE i

Memmove(mem, dest, src, n) ==
  IF src = dest THEN mem
  ELSE LET At(i) == MoveIndex(dest, src, n, i)
       IN  Loop(mem, n, LAMBDA i : dest + At(i), LAMBDA m, i : m[src + At(i)])

Memcpy(mem, dest, src, n) ==
  Loop(mem, n, LAMBDA i : dest + i, LAMBDA m, i : m[src + i])

Memset(mem, s, c, n) == Loop(mem, n, LAMBDA i : s + i, LAMBDA m, i : c)

Bzero(mem, s, n) == Loop(mem, n, LAMBDA i : s + i, LAMBDA m, i : 0)

\* the first turn at which the loop stops, n if it does not
FirstTurn(n, Stop(_)) == Min({n} \cup {i \in 0 .. n - 1 : Stop(i)})

Memchr(mem, s, c, n) ==
  LET i == FirstTurn(n, LAMBDA k : mem[s + k] = c) IN IF i < n THEN s + i ELSE NULL

Memcmp(mem, s1, s2, n) ==
  LET i == FirstTurn(n, LAMBDA k : mem[s1 + k] # mem[s2 + k])
  IN  IF i < n THEN mem[s1 + i] - mem[s2 + i] ELSE 0

-----------------------------------------------------------------------------
Region(a, n) == a .. a + n - 1

(* ft_memmove copies as if through a buffer, however the regions overlap,  *)
(* and changes nothing else; ft_memcpy does so if they do not overlap or   *)
(* dest is in front.                                                       *)
CopiesAll(mem, dest, src, n) ==
  LET copied == [a \in DOMAIN mem |-> IF a \in Region(dest, n) THEN mem[a - dest + src] ELSE mem[a]]
  IN  /\ Memmove(mem, dest, src, n) = copied
      /\ dest <= src \/ Region(dest, n) \cap Region(src, n) = {}
           => Memcpy(mem, dest, src, n) = copied

(* ft_memset fills its region and nothing else, ft_bzero is ft_memset with *)
(* zero; ft_memchr finds the first place; ft_memcmp is zero for equal      *)
(* regions only and its sign turns with the arguments.                     *)
LooksAndFills(mem, dest, src, n, c) ==
  LET at == Memchr(mem, dest, c, n)
      before == IF at = NULL THEN Region(dest, n) ELSE dest .. at - 1
  IN  /\ \A a \in DOMAIN mem :
           Memset(mem, dest, c, n)[a] = IF a \in Region(dest, n) THEN c ELSE mem[a]
      /\ Bzero(mem, dest, n) = Memset(mem, dest, 0, n)
      /\ at # NULL => at \in Region(dest, n) /\ mem[at] = c
      /\ \A a \in before : mem[a] # c
      /\ (Memcmp(mem, dest, src, n) = 0) = (\A k \in 0 .. n - 1 : mem[dest + k] = mem[src + k])
      /\ Memcmp(mem, dest, src, n) = -Memcmp(mem, src, dest, n)
=============================================================================
