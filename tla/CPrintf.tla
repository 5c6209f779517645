------------------------------ MODULE CPrintf ------------------------------
(***************************************************************************)
(* ft_printf, ft_printf_err and ft_fprintf, whose code differs in the      *)
(* descriptor only.  A format is a sequence of conversion letters, "%",    *)
(* "t" for any other text and "o" for a letter that is no conversion; args *)
(* is what va_arg hands out.  What is written are byte values; the text    *)
(* "t" is the byte 1.  Writes succeed.                                     *)
(***************************************************************************)
EXTENDS CNumbers

CONSTANTS
  CharWidth,   \* bits of a char, fewer than those of an int
  Null         \* the pointer, as a format or as the argument of %s

Numeric     == {"c", "d", "i", "u", "x", "X", "p"}
Conversions == Numeric \cup {"s"}
Letters     == Conversions \cup {"t", "%", "o"}

Upper == Ten \o [k \in 1 .. 6 |-> 64 + k]

-----------------------------------------------------------------------------
\* ft_putstr_fd_ret and ft_putchar_fd_ret
PutstrRet(str) ==
  LET bytes == IF str = Null THEN <<40, 110, 117, 108, 108, 41>> ELSE str
  IN  [out |-> bytes, ret |-> Len(bytes)]

PutcharRet(b) == [out |-> <<b>>, ret |-> 1]

Nil == <<40, 110, 105, 108, 41>>

\* mutant: the 0x is not counted
PointerUncounted(v) ==
  LET hex == PnbBFd(v, Sixteen, FALSE)
  IN  IF v = 0 THEN PutstrRet(Nil)
      ELSE [out |-> <<48, 120>> \o hex.out, ret |-> hex.ret]

\* ft_p
Pointer(v) ==
  LET hex == PnbBFd(v, Sixteen, FALSE)
  IN  IF v = 0 THEN PutstrRet(Nil)
      ELSE [out |-> <<48, 120>> \o hex.out, ret |-> 2 + hex.ret]

\* (long) va_arg(ar, unsigned int)
UnsignedArg(v) == Unsigned(v, Width)

\* ft_core: a letter and its argument
Convert(type, v) ==
  CASE type = "c" -> PutcharRet(Unsigned(v, CharWidth))     \* an int becomes a char
    [] type = "s" -> PutstrRet(v)
    [] type \in {"d", "i"} -> PnbBFd(v, Ten, TRUE)
    [] type = "u" -> PnbBFd(UnsignedArg(v), Ten, TRUE)
    [] type = "p" -> Pointer(v)
    [] type = "x" -> PnbBFdS(v, Sixteen, FALSE)
    [] type = "X" -> PnbBFdS(v, Upper, FALSE)

Nothing == [out |-> << >>, ret |-> 0, lone |-> FALSE]

\* what is written and counted first, then the turns behind it
Then(r, rest) == [out |-> r.out \o rest.out, ret |-> r.ret + rest.ret, lone |-> rest.lone]

\* the loop: from s[i], with the arguments behind the first used ones
Turns(s, args) ==
  LET turn[i \in 1 .. Len(s) + 1, used \in 0 .. Len(args)] ==
        CASE i > Len(s)  -> Nothing
          [] i <= Len(s) /\ s[i] # "%" -> Then(PutcharRet(1), turn[i + 1, used])
          [] i = Len(s) /\ s[i] = "%" -> [Nothing EXCEPT !.lone = TRUE]
          [] i < Len(s) /\ s[i] = "%" ->
               IF s[i + 1] \in Conversions
               THEN Then(Convert(s[i + 1], args[used + 1]), turn[i + 2, used + 1])
               ELSE Then(PutcharRet(37), turn[i + 2, used])     \* a percent sign
  IN  turn[1, 0]

\* NULL is -1, too, as is a format that ends in a lone percent sign
Printf(fd, s, args) ==
  IF s = Null THEN [fd |-> fd, out |-> << >>, ret |-> -1]
  ELSE LET r == Turns(s, args)
       IN  [fd |-> fd, out |-> r.out, ret |-> IF r.lone THEN -1 ELSE r.ret]

FtPrintf(s, args)      == Printf(1, s, args)
FtPrintfErr(s, args)   == Printf(2, s, args)
FtFprintf(fd, s, args) == Printf(fd, s, args)

-----------------------------------------------------------------------------
\* the percent signs that begin a conversion: an even number of others in front
Starts(s) ==
  {i \in DOMAIN s : s[i] = "%" /\
     Cardinality({k \in 1 .. i - 1 : \A j \in k .. i - 1 : s[j] = "%"}) % 2 = 0}

(* What is returned is the number of bytes written, except for a NULL      *)
(* format and one that ends where a conversion begins: -1, and in the      *)
(* latter case what came before has been written.                          *)
CountIsBytes(r, s) ==
  IF s = Null THEN r.ret = -1 /\ r.out = << >>
  ELSE r.ret = IF Len(s) \in Starts(s) THEN -1 ELSE Len(r.out)

\* the digits of a non-negative number, the last one first cut off
Digits(base, u) ==
  LET from[v \in Nat] == IF v < Len(base) THEN <<base[v + 1]>>
                         ELSE Append(from[v \div Len(base)], base[(v % Len(base)) + 1])
  IN  from[u]

\* the text an argument stands for
Rendered(type, v) ==
  CASE type = "c" -> <<CHOOSE b \in 0 .. 2 ^ CharWidth - 1 : (v - b) % 2 ^ CharWidth = 0>>
    [] type = "s" -> IF v = Null THEN PutstrRet(Null).out ELSE v
    [] type \in {"d", "i"} -> IF v < 0 THEN <<Minus>> \o Digits(Ten, -v) ELSE Digits(Ten, v)
    [] type = "u" -> Digits(Ten, v % 2 ^ Width)
    [] type = "x" -> Digits(Sixteen, v % 2 ^ Width)
    [] type = "X" -> Digits(Upper, v % 2 ^ Width)
    [] type = "p" -> IF v = 0 THEN Nil ELSE <<48, 120>> \o Digits(Sixteen, v % 2 ^ (2 * Width))

\* those that take an argument
Takers(s) == {i \in Starts(s) : i < Len(s) /\ s[i + 1] \in Conversions}

(* The text between conversions and the arguments come out in order, each  *)
(* argument once and as the number or string it is; what is no conversion  *)
(* gives a percent sign and consumes no argument.                          *)
RendersAll(r, s, args) ==
  LET piece(i) ==
        CASE i \in Takers(s) -> Rendered(s[i + 1], args[Cardinality({k \in Takers(s) : k <= i})])
          [] i \in Starts(s) \ Takers(s) -> IF i = Len(s) THEN << >> ELSE <<37>>
          [] i \notin Starts(s) -> IF i - 1 \in Starts(s) THEN << >> ELSE <<1>>
  IN  s # Null => r.out = FlattenSeq([i \in DOMAIN s |-> piece(i)])
=============================================================================
