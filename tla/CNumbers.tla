------------------------------ MODULE CNumbers ------------------------------
(***************************************************************************)
(* The functions of libft that convert numbers, on integers of Width bits  *)
(* (int, size_t) and twice as many (long).  Signed overflow wraps, as it   *)
(* does in the build of the Makefile, which asks for no optimisation.      *)
(* What each function promises stands at the end; Libft checks it.         *)
(***************************************************************************)
EXTENDS Integers, Sequences, SequencesExt

CONSTANT Width      \* bits of an int

IntMin(w)  == -(2 ^ (w - 1))
IntMax(w)  == 2 ^ (w - 1) - 1
Wrap(x, w) == ((x - IntMin(w)) % 2 ^ w) + IntMin(w)
Unsigned(x, w) == x % 2 ^ w

\* division and remainder of C
Quot(a, b) == IF a < 0 THEN -((-a) \div b) ELSE a \div b
Rem(a, b)  == a - b * Quot(a, b)

Digit(d) == 48 + d
IsDigit(b) == b \in 48 .. 57
Minus == 45
Plus  == 43

Ten     == [k \in 1 .. 10 |-> 47 + k]
Sixteen == Ten \o [k \in 1 .. 6 |-> 96 + k]

NULL == -1

Abs(a) == IF a < 0 THEN Wrap(-a, Width) ELSE a

-----------------------------------------------------------------------------
At(str, i) == IF i < Len(str) THEN str[i + 1] ELSE 0

Weight(more, w) == Wrap(10 ^ more, w)

\* ft_core of ft_atoi and ft_atol: digits is the weight of the first digit, wrapped,
\* and the loop runs as long as it is positive
Core(str, w) ==
  LET more   == Min({i \in 1 .. Len(str) : ~IsDigit(At(str, i))} \cup {Len(str)}) - 1
      digits == Weight(more, w)
      nb[i \in Nat] ==
        LET weight == digits \div 10 ^ i
        IN  IF weight <= 0 THEN 0
            ELSE (At(str, i) - 48) * weight + nb[i + 1]
  IN  IF digits <= 0 THEN 0 ELSE Wrap(nb[0], w)

IsSpace(b) == b \in {32, 9, 10, 11, 12, 13}

Dropped(str, k) == SubSeq(str, k + 1, Len(str))

\* ft_atoi with Width, ft_atol with twice that
ToNumber(str, w) ==
  LET blank  == Min({i \in 0 .. Len(str) : ~IsSpace(At(str, i))})
      sign   == IF At(str, blank) = Minus THEN -1 ELSE 1
      begin  == IF At(str, blank) \in {Minus, Plus} THEN blank + 1 ELSE blank
      zeros  == Min({i \in begin .. Len(str) : At(str, i) # 48 \/ At(str, i + 1) # 48})
  IN  IF IsDigit(At(str, zeros)) THEN Wrap(sign * Core(Dropped(str, zeros), w), w) ELSE 0

Atoi(str) == ToNumber(str, Width)
Atol(str) == ToNumber(str, 2 * Width)

\* the number of digits, and each of them, as the loops of ft_special and ft_itoa find them
DigitCount(nb) ==
  LET count[x \in Int] == IF -10 < x /\ x < 10 THEN 1 ELSE 1 + count[Quot(x, 10)]
  IN  count[nb]

DigitsOf(nb, count) ==
  [k \in 1 .. count |->
    LET r == Rem(Quot(nb, 10 ^ (count - k)), 10) IN Digit(IF r < 0 THEN -r ELSE r)]

\* what ft_special asks malloc for
ItoaSize(nb) == DigitCount(nb) + IF nb < 0 THEN 2 ELSE 1

Itoa(nb) ==
  [str  |-> (IF nb < 0 THEN <<Minus>> ELSE << >>) \o DigitsOf(nb, DigitCount(nb)),
   size |-> ItoaSize(nb)]

\* what the loops of ft_putnbr_fd write: for a negative number one byte of a buffer
\* that nothing was stored in
PutDigits(nb) == IF nb < 0 THEN <<NULL>> ELSE DigitsOf(nb, DigitCount(nb))

\* mutant: without the case of the smallest int
PutnbrNegated(nb) ==
  IF nb < 0 THEN <<Minus>> \o PutDigits(Wrap(-nb, Width)) ELSE PutDigits(nb)

\* ft_putnbr_fd: the smallest int is written as its first digit and the rest
Putnbr(nb) ==
  LET least == IntMin(Width)
      first == 10 ^ (DigitCount(least) - 1)
  IN  CASE nb = least -> <<Minus, Digit(-Quot(least, first))>> \o PutDigits(-Rem(least, first))
        [] nb < 0 /\ nb # least -> <<Minus>> \o PutDigits(-nb)
        [] OTHER -> PutDigits(nb)

-----------------------------------------------------------------------------
\* ft_strlen_check of a base: its length, or -1
StrlenCheck(base) ==
  IF \/ Len(base) <= 1
     \/ \E i \in DOMAIN base : \/ base[i] \in {Minus, Plus}
                               \/ \E j \in i + 1 .. Len(base) : base[j] = base[i]
  THEN -1 ELSE Len(base)

Power(u, b) ==
  LET power[x \in Nat] == IF x < b THEN 0 ELSE 1 + power[x \div b]
  IN  power[u]

Neg(nbr, negp, w) == Unsigned(IF nbr < 0 /\ negp THEN Wrap(-nbr, w) ELSE nbr, w)

\* what ft_ret makes of it; the comparison takes u_inp for a signed number
Ret(nbr, u, b, w) == Power(u, b) + (IF nbr # Wrap(u, w) THEN 2 ELSE 1)

PnbB(nbr, base, negp, w) ==
  LET b == StrlenCheck(base)
      u == Neg(nbr, negp, w)
      p == Power(u, b)
  IN  IF b < 0 THEN [out |-> << >>, ret |-> -1]
      ELSE [out |-> (IF nbr < 0 /\ negp THEN <<Minus>> ELSE << >>) \o
                    [k \in 1 .. p + 1 |-> base[((u \div b ^ (p + 1 - k)) % b) + 1]],
            ret |-> Ret(nbr, u, b, w)]

\* the former takes a long, the latter an int
PnbBFd(nbr, base, negp)  == PnbB(nbr, base, negp, 2 * Width)
PnbBFdS(nbr, base, negp) == PnbB(nbr, base, negp, Width)

\* mutant: only a product of zero is suspicious
OvfhZero(n, sz) ==
  LET res == Unsigned(n * sz, Width) IN IF n # 0 /\ sz # 0 /\ res = 0 THEN NULL ELSE res

-----------------------------------------------------------------------------
\* ft_ovfh: the product in Width bits, and whether it is the product
Ovfh(n, sz) ==
  LET res == Unsigned(n * sz, Width)
  IN  IF n # 0 /\ res \div n # sz THEN NULL ELSE res

\* the number of bytes that ft_calloc gets and clears, or NULL
Calloc(n, sz) == Ovfh(n, sz)

-----------------------------------------------------------------------------
IsInt(x) == x \in IntMin(Width) .. IntMax(Width)

-----------------------------------------------------------------------------
(* ft_itoa and ft_putnbr_fd write the same for every int, the smallest     *)
(* included, and ft_atoi reads it back; the block of ft_itoa is just large *)
(* enough.                                                                 *)
RoundTrip(num) ==
  IsInt(num) =>
    /\ Atoi(Itoa(num).str) = num
    /\ Itoa(num).size = Len(Itoa(num).str) + 1
    /\ Putnbr(num) = Itoa(num).str
    /\ num > IntMin(Width) => Abs(num) = Atoi(Itoa(Abs(num)).str) /\ Abs(num) >= 0

\* the number a text stands for, and whether a zero stands in front of it
Meaning(str) ==
  LET body == Dropped(str, Min({i \in 0 .. Len(str) : ~IsSpace(At(str, i))}))
      bare == IF At(body, 0) \in {Minus, Plus} THEN Tail(body) ELSE body
      run  == SubSeq(bare, 1, Min({i \in 0 .. Len(bare) : ~IsDigit(At(bare, i))}))
      sum  == FoldLeft(LAMBDA acc, b : 10 * acc + b - 48, 0, run)
  IN  [value |-> IF At(body, 0) = Minus THEN -sum ELSE sum, zero |-> At(run, 0) = 48]

Fits(x, w) == x \in IntMin(w) .. IntMax(w)

(* ft_atoi and ft_atol read blanks, a sign, zeros and digits for what they *)
(* stand for, whatever follows, if the number has an int or a long; except *)
(* when a zero stands in front of a number with all the digits an int or a *)
(* long can have, because the last zero is not skipped.                    *)
ReadsNumber(text) ==
  \A w \in {Width, 2 * Width} :
    LET m == Meaning(text) IN
    Fits(m.value, w) /\ (m.zero => DigitCount(m.value) < DigitCount(IntMax(w)))
      => m.value = IF w = Width THEN Atoi(text) ELSE Atol(text)

(* The count that ft_pnb_b_fd and ft_pnb_b_fd_s return is the number of    *)
(* bytes they write, but for the smallest number with a sign: its sign is  *)
(* not counted.  ft_printf has no conversion that gets there.              *)
CountsDigits(num) ==
  \A base \in {Ten, Sixteen}, negp \in BOOLEAN :
    \A w \in {2 * Width} \cup (IF IsInt(num) THEN {Width} ELSE {}) :
      LET r == PnbB(num, base, negp, w)
      IN  r.ret = Len(r.out) - (IF negp /\ num = IntMin(w) THEN 1 ELSE 0)

(* What they write is the number, in the base, without leading zeros.      *)
WritesNumber(num) ==
  \A base \in {Ten, Sixteen}, negp \in BOOLEAN :
    LET out   == PnbB(num, base, negp, 2 * Width).out
        signed == negp /\ num < 0
        digits == IF signed THEN Tail(out) ELSE out
        value  == FoldLeft(LAMBDA acc, b : Len(base) * acc + CHOOSE d \in 0 .. Len(base) - 1 : base[d + 1] = b,
                           0, digits)
    IN  /\ signed => out[1] = Minus
        /\ value = IF signed THEN -num ELSE Unsigned(num, 2 * Width)
        /\ Len(digits) > 1 => digits[1] # base[1]

(* A base is refused exactly if its digits could not be told apart from    *)
(* each other or from a sign.                                              *)
BaseChecked(text) ==
  (StrlenCheck(text) = -1) =
    (Len(text) < 2 \/ Cardinality(ToSet(text)) # Len(text) \/ {Minus, Plus} \cap ToSet(text) # {})

(* ft_calloc never returns a block that is smaller than asked for.         *)
NoShortBlock(nmemb, size) ==
  IF nmemb * size < 2 ^ Width
  THEN Calloc(nmemb, size) = nmemb * size ELSE Calloc(nmemb, size) = NULL
=============================================================================
