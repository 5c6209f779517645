------------------------------- MODULE Libft -------------------------------
(***************************************************************************)
(* libft as its callers meet it.  A caller uses the linked lists, call by  *)
(* call, in any order; or it calls one of the functions of CStrings,       *)
(* CNumbers, CMemory, CChars and CPrintf, which keep no state, with the    *)
(* arguments in args.                                                      *)
(***************************************************************************)
EXTENDS CLists

CONSTANTS
  Width,       \* bits of an int
  CharWidth,   \* bits of a char that ft_printf is given as an int
  StringBytes, \* bytes of strings, none of them zero, some above 127
  MaxString,   \* bound on the length of strings
  TextBytes,   \* bytes of the texts that are read as numbers
  MaxDigits,   \* bound on their length
  Size, Byte,  \* addresses and values of the bytes of a memory
  Escapes,     \* bytes of the texts for ft_putstr_non_printable
  Formats,     \* formats of ft_printf
  Null

ASSUME LibftAssumption ==
  /\ {Width, CharWidth, MaxString, MaxDigits, Size} \subseteq Nat \ {0}
  /\ StringBytes \subseteq 1 .. 255 /\ TextBytes \subseteq 1 .. 127
  /\ Byte \subseteq 0 .. 255 /\ Escapes \subseteq 0 .. 255

S == INSTANCE CStrings
M == INSTANCE CMemory
C == INSTANCE CChars
P == INSTANCE CPrintf      \* and CNumbers

ASSUME FormatAssumption == Formats \subseteq Seq(P!Letters) /\ Null \notin Formats

VARIABLE args

Strings(k) == BoundedSeq(StringBytes, k)

Memory == [0 .. Size - 1 -> Byte]

\* what is given for each conversion: the ends of its range, and two strings
Values(type) ==
  IF type = "s" THEN {Null, << >>, <<97, 98>>}
  ELSE {P!IntMin(Width), -1, 0, 10, P!IntMax(Width)}

ArgLists(f) ==
  LET takers == P!Takers(f)
      n      == Cardinality(takers)
      letter(k) == f[1 + CHOOSE i \in takers : Cardinality({j \in takers : j <= i}) = k]
  IN  IF n = 0 THEN {<< >>}
      ELSE IF n = 1 THEN {<<v>> : v \in Values(letter(1))}
      ELSE {<<v, w>> : v \in Values(letter(1)), w \in Values(letter(2))}

\* the calls of the functions without state
Arguments ==
  \/ \E s \in Strings(MaxString), c \in StringBytes, failing \in 0 .. MaxString + 1 :
       args = [to |-> "split", s |-> s, c |-> c, failing |-> failing]
  \/ \E s \in Strings(MaxString), t \in Strings(MaxString - 1), n \in 0 .. MaxString + 2 :
       args = [to |-> "strings", s |-> s, t |-> t, n |-> n]
  \/ \E num \in P!IntMin(2 * Width) .. P!IntMax(2 * Width) : args = [to |-> "number", num |-> num]
  \/ \E text \in BoundedSeq(TextBytes, MaxDigits) : args = [to |-> "text", text |-> text]
  \/ \E nmemb, size \in 0 .. 2 ^ Width - 1 : args = [to |-> "calloc", nmemb |-> nmemb, size |-> size]
  \/ \E m \in Memory, d, s, n \in 0 .. Size, c \in Byte :
       /\ d + n <= Size /\ s + n <= Size
       /\ args = [to |-> "memory", mem |-> m, dest |-> d, src |-> s, n |-> n, c |-> c]
  \/ \E c \in -1 .. 255 : args = [to |-> "character", c |-> c]
  \/ \E text \in BoundedSeq(Escapes, 3) : args = [to |-> "escape", text |-> text]
  \/ \E f \in Formats : \E a \in ArgLists(f) : args = [to |-> "printf", s |-> f, values |-> a]
  \/ args = [to |-> "printf", s |-> Null, values |-> << >>]

LibftInit == Init /\ (args = [to |-> "lists"] \/ Arguments)

LibftNext ==
  \/ args.to = "lists" /\ Next /\ UNCHANGED args
  \/ args.to # "lists" /\ UNCHANGED <<vars, args>>

LibftSpec == LibftInit /\ [][LibftNext]_<<vars, args>>

-----------------------------------------------------------------------------
(* ft_split returns the maximal runs of bytes other than the delimiter, in *)
(* order, as many as it made room for, and ft_countwords counts the same.  *)
SplitWords == args.to = "split" => S!SplitWords(args.s, args.c)

(* ft_split is all or nothing: whichever allocation fails, it returns NULL *)
(* and leaves no block behind; else every block it made is in the result.  *)
SplitAllOrNothing == args.to = "split" => S!SplitAllOrNothing(args.s, args.c, args.failing)

(* What ft_get_next_line does with its buffer: cut at any place, ft_substr *)
(* gives two strings that ft_strjoin makes the old one of, each of them in *)
(* a block of just its length.                                             *)
CutAndJoin == args.to = "strings" => S!CutAndJoin(args.s, args.t, args.n)

(* The other string functions are what the predicates at the end of        *)
(* CStrings say: ft_strncmp orders unsigned bytes, the searches agree with *)
(* each other, ft_strtrim reads below a string without harm, and           *)
(* ft_strlcpy and ft_strlcat keep to their size.                           *)
StringsRight ==
  args.to = "strings" =>
    /\ S!CompareIsOrder(args.s, args.t, args.n)
    /\ \A c \in StringBytes : S!SearchesAgree(args.s, args.t, c, args.n)
    /\ S!TrimmedBothEnds(args.s, args.t)
    /\ S!BoundedCopy(args.s, args.t, args.n)

(* Every way to write a number writes the same, the smallest number        *)
(* included; what is written is read back; and what ft_atoi and ft_atol    *)
(* read is what stands there, but for a zero in front of a number with as  *)
(* many digits as there can be.                                            *)
NumbersRight ==
  /\ args.to = "number" =>
       /\ P!RoundTrip(args.num) /\ P!WritesNumber(args.num) /\ P!CountsDigits(args.num)
  /\ args.to = "text" => P!ReadsNumber(args.text) /\ P!BaseChecked(args.text)

(* ft_calloc never returns a block that is smaller than asked for.         *)
NoShortBlock == args.to = "calloc" => P!NoShortBlock(args.nmemb, args.size)

(* However two regions overlap, ft_memmove copies as if through a buffer;  *)
(* the others keep to their region, look at unsigned bytes and change      *)
(* nothing when they only look.                                            *)
MemoryRight ==
  args.to = "memory" =>
    /\ M!CopiesAll(args.mem, args.dest, args.src, args.n)
    /\ M!LooksAndFills(args.mem, args.dest, args.src, args.n, args.c)

(* The printf functions count the bytes they write, on the descriptor they *)
(* were given, and render each argument once and in order; classes and     *)
(* cases of characters fit together, and escapes can be read back.         *)
OutputRight ==
  /\ args.to = "printf" =>
       \A r \in {P!FtPrintf(args.s, args.values), P!FtPrintfErr(args.s, args.values),
                 P!FtFprintf(5, args.s, args.values)} :
         P!CountIsBytes(r, args.s) /\ P!RendersAll(r, args.s, args.values)
  /\ args.to = "character" => C!ClassesAgree(args.c)
  /\ args.to = "escape" => C!EscapesReadable(args.text)

(* The lists of CLists: every node and every content is in one place,      *)
(* wherever a malloc fails; the list is what was added to it, ft_lstmap    *)
(* maps all of it or gives up cleanly, and walks see every node once.      *)
ListsRight == EachInOnePlace /\ ListIsSequence /\ MapIsWhole /\ WalkSeesAll
=============================================================================
