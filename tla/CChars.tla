------------------------------- MODULE CChars -------------------------------
(***************************************************************************)
(* The character functions of libft and ft_putstr_non_printable.  A class  *)
(* test returns 0 for a character that is not in the class, and otherwise  *)
(* what the code does.  Libft checks the predicates at the end.            *)
(***************************************************************************)
EXTENDS Integers, Sequences, SequencesExt

InClass(c, set) == IF c \in set THEN c ELSE 0

Isalpha(c) == InClass(c, 97 .. 122 \cup 65 .. 90)
Isdigit(c) == InClass(c, 48 .. 57)
Isalnum(c) == InClass(c, 97 .. 122 \cup 65 .. 90 \cup 48 .. 57)
Isprint(c) == InClass(c, 32 .. 126)

Isascii(c) == IF c \in 0 .. 127 THEN 100 + c ELSE 0

Tolower(ch) == IF ch \in 65 .. 90 THEN ch + 32 ELSE ch
Toupper(ch) == IF ch \in 97 .. 122 THEN ch - 32 ELSE ch

-----------------------------------------------------------------------------
Char(b) == IF b > 127 THEN b - 256 ELSE b      \* char is signed

\* ft_asciin
Asciin(b) == IF Char(b) < 0 THEN -Char(b) ELSE Char(b)

\* ft_hexchar, and the digits in ft_hex
Hexchar(d) == IF d < 10 THEN 48 + d ELSE 97 + d - 10

\* ft_hex
Hex(ch) == <<92, Hexchar(ch \div 16), Hexchar(ch % 16)>>

\* ft_putstr_non_printable: what it writes
PutstrNonPrintable(str) ==
  FlattenSeq([k \in DOMAIN str |->
    IF Char(str[k]) <= 31 \/ str[k] = 127 THEN Hex(Asciin(str[k])) ELSE <<str[k]>>])

-----------------------------------------------------------------------------
(* The classes fit together for every character and for EOF: letters are   *)
(* the characters that have another case, and those have just one other;   *)
(* letters or digits are the alphanumeric ones; and what is printable is   *)
(* ASCII, as is everything but EOF and the bytes above 127.                *)
ClassesAgree(c) ==
  /\ (Isalpha(c) # 0) = (Tolower(c) # c \/ Toupper(c) # c)
  /\ Tolower(c) # c => Toupper(Tolower(c)) = c
  /\ Toupper(c) # c => Tolower(Toupper(c)) = c
  /\ (Isalnum(c) # 0) = (Isalpha(c) # 0 \/ Isdigit(c) # 0)
  /\ Isalnum(c) # 0 => Isprint(c) # 0
  /\ (Isascii(c) # 0) = (0 <= c /\ c <= 127)
  /\ Isprint(c) # 0 => Isascii(c) # 0

HexValue(b) == IF b < 58 THEN b - 48 ELSE b - 87

\* what a reader makes of the escapes
Read(out) ==
  LET from[k \in Nat] ==
        IF k > Len(out) THEN << >>
        ELSE IF out[k] = 92 THEN <<16 * HexValue(out[k + 1]) + HexValue(out[k + 2])>> \o from[k + 3]
        ELSE <<out[k]>> \o from[k + 1]
  IN  from[1]

(* All that ft_putstr_non_printable writes is printable, and a reader can  *)
(* tell from it what the text was, as long as the text has no backslash    *)
(* and no byte above 127: 255 is written as \01, like the byte 1.          *)
EscapesReadable(text) ==
  LET out == PutstrNonPrintable(text) IN
  /\ \A k \in DOMAIN out : out[k] \in 32 .. 126
  /\ 92 \notin ToSet(text) => Read(out) = [k \in DOMAIN text |-> Asciin(text[k])]
  /\ ToSet(text) \subseteq (0 .. 127) \ {92} => Read(out) = text
=============================================================================
