------------------------------ MODULE CStrings ------------------------------
(***************************************************************************)
(* The string functions of libft.  A string is the sequence of its bytes   *)
(* without the terminating zero; C's s[i] is At(s, i).  A loop that stops  *)
(* at the first index with some property is the least such index.  NULL is *)
(* -1 where a position is returned.  What each function promises stands at *)
(* the end, as a predicate on its arguments; Libft checks them.            *)
(***************************************************************************)
EXTENDS Integers, Sequences, SequencesExt

At(str, i) == IF i = Len(str) THEN 0 ELSE str[i + 1]

NULL == -1

Least(set, none) == IF set = {} THEN none ELSE Min(set)

-----------------------------------------------------------------------------
Strlen(str) == Least({a \in 0 .. Len(str) : At(str, a) = 0}, NULL)

\* (char)c = 0 is found at the end
Strchr(str, ch) == Least({i \in 0 .. Len(str) : At(str, i) = ch}, NULL)

Strrchr(str, ch) ==
  LET found == {i \in 0 .. Strlen(str) : At(str, i) = ch}
  IN  IF found = {} THEN NULL ELSE Max(found)

\* mutant: as without the cast to unsigned char
StrncmpSigned(s1, s2, len) ==
  LET k == Min({len} \cup {i \in 0 .. Len(s1) : i <= Len(s2) /\
                             (At(s1, i) # At(s2, i) \/ At(s1, i) = 0)})
      Char(b) == IF b > 127 THEN b - 256 ELSE b
  IN  IF k = len THEN 0 ELSE Char(At(s1, k)) - Char(At(s2, k))

Strncmp(s1, s2, len) ==
  LET k == Min({len} \cup {i \in 0 .. Len(s1) : i <= Len(s2) /\
                             (At(s1, i) # At(s2, i) \/ At(s1, i) = 0)})
  IN  IF k = len THEN 0 ELSE At(s1, k) - At(s2, k)

Strjoin(s1, s2) == s1 \o s2

Strdup(src) == [i \in 1 .. Strlen(src) |-> At(src, i - 1)]

\* mutant: the block is as large as what is asked for, not as what there is
SubstrSizeAsked(rest, len) == len + 1

SubstrSize(rest, len) == IF rest < len THEN rest + 1 ELSE len + 1

\* the result and the size of the block it is written to
Substr(str, start, len) ==
  LET rest == Strlen(str) - start
      kept == Min({rest, len})
  IN  IF rest < 0 THEN [str |-> << >>, size |-> 1]
      ELSE [str  |-> [i \in 1 .. kept |-> At(str, start + i - 1)],
            size |-> SubstrSize(rest, len)]

-----------------------------------------------------------------------------
\* where little begins in the first len bytes at big; mem is big, its zero and what follows
Strnstr(mem, little, len) ==
  LET Matches(k) == /\ mem[k + 1] = little[1] /\ Len(little) <= len - k
                    /\ \A j \in 1 .. Len(little) :
                          k + j <= Len(mem) /\ mem[k + j] = little[j]
  IN  CASE little = << >> -> 0
        [] little # << >> /\ mem[1] = 0 -> NULL
        [] OTHER -> Least({k \in 0 .. len - 1 : Matches(k)}, NULL)

\* ft_calc_len
Span(start, end) == Cardinality(start .. end)

\* below is how many bytes in front of the string are members of set, too:
\* end runs into them when all of the string is in set
Strtrim(str, set, below) ==
  LET in(i)  == At(str, i) \in set
      start  == Least({i \in 0 .. Len(str) - 1 : ~in(i)}, Len(str))
      inside == {i \in 0 .. Len(str) - 1 : ~in(i)}
      end    == IF inside = {} THEN -1 - below ELSE Max(inside)
      len    == Span(start, end)
  IN  IF str = << >> THEN << >> ELSE [i \in 1 .. len |-> At(str, start + i - 1)]

\* dst is an array of bytes, changed up to size; the result is what was asked for
Strlcpy(dst, src, size) ==
  LET m == Min({size - 1, Strlen(src)})
  IN  [ret |-> Strlen(src),
       dst |-> IF size = 0 THEN dst
               ELSE [i \in DOMAIN dst |-> IF i <= m THEN src[i]
                                          ELSE IF i = m + 1 THEN 0 ELSE dst[i]]]

Strlcat(dst, src, size) ==
  LET old  == Min({i \in DOMAIN dst : dst[i] = 0}) - 1
      room == size - old
      m    == Min({room - 1, Strlen(src)})
  IN  IF size < old THEN [ret |-> Strlen(src) + size, dst |-> dst]
      ELSE [ret |-> old + Strlen(src),
            dst |-> IF room = 0 THEN dst
                    ELSE [i \in DOMAIN dst |->
                            IF i > old /\ i <= old + m THEN src[i - old]
                            ELSE IF i = old + m + 1 THEN 0 ELSE dst[i]]]

\* mutant: the word that ends the string is not counted
WordCountInner(str, del) ==
  Cardinality({p \in 1 .. Len(str) - 1 : At(str, p) = del /\ At(str, p - 1) # del})

-----------------------------------------------------------------------------
\* ft_str_len_count in mode 1: ends of words
WordCount(str, del) ==
  IF str = << >> THEN 0
  ELSE Cardinality({p \in 1 .. Len(str) : /\ p = Len(str) \/ At(str, p) = del
                                          /\ At(str, p - 1) # del})

\* ft_str_len_count in mode 2, from k on
WordEnd(str, del, k) == Min({e \in k .. Len(str) : At(str, e) \in {del, 0}})

\* where ft_core stops skipping delimiters, from k on
WordStart(str, del, k) == Min({b \in k .. Len(str) : At(str, b) # del \/ del = 0})

\* ft_core and ft_strdup_split: as many words as were counted; k after each of them
Words(str, del) ==
  LET k[i \in 0 .. WordCount(str, del)] ==
        IF i = 0 THEN 0 ELSE WordEnd(str, del, WordStart(str, del, k[i - 1]))
  IN  [i \in 1 .. WordCount(str, del) |->
         SubSeq(str, WordStart(str, del, k[i - 1]) + 1, k[i])]

\* mutant: the array itself is forgotten
FreeEntries(arr) == {i \in DOMAIN arr : \A j \in 1 .. i : arr[j] # << >>}

\* ft_free: the entries in front of the first NULL, and the array, block 0
FreeArray(arr) ==
  {0} \cup {i \in DOMAIN arr : \A j \in 1 .. i : arr[j] # << >>}

\* fails is the number of the allocation that fails, 0 for none: 1 is the array,
\* k + 1 the word k.  live are the blocks that are left
Split(str, del, fails) ==
  LET words == Words(str, del)
      made  == SubSeq(words, 1, fails - 2) \o << << >> >>     \* and the NULL
  IN  CASE fails = 1 -> [ok |-> FALSE, words |-> << >>, live |-> {}]
        [] fails \in 2 .. Len(words) + 1 ->
             [ok |-> FALSE, words |-> << >>, live |-> (0 .. fails - 2) \ FreeArray(made)]
        [] OTHER -> [ok |-> TRUE, words |-> words, live |-> 0 .. Len(words)]

Countwords(str, del) ==
  Cardinality({i \in 1 .. Len(str) : str[i] # del /\ (i = 1 \/ str[i - 1] = del)})

-----------------------------------------------------------------------------
(* ft_split returns the maximal runs of bytes other than the delimiter, in *)
(* order, as many as it counted and made room for, none of them empty.     *)
SplitWords(s, c) ==
  LET Word(a, b) == /\ \A i \in a .. b : s[i] # c
                    /\ a = 1 \/ s[a - 1] = c
                    /\ b = Len(s) \/ s[b + 1] = c
      runs == {r \in (1 .. Len(s)) \X (1 .. Len(s)) : r[1] <= r[2] /\ Word(r[1], r[2])}
      many == Cardinality(runs)
  IN  /\ \E run \in [1 .. many -> runs] :
           /\ \A i, j \in 1 .. many : i < j => run[i][2] < run[j][1]
           /\ Words(s, c) = [i \in 1 .. many |-> SubSeq(s, run[i][1], run[i][2])]
      /\ Countwords(s, c) = Len(Words(s, c))

(* ft_split is all or nothing: if one of its allocations fails it returns  *)
(* NULL and no block is left, else every block it made is in the result.   *)
SplitAllOrNothing(s, c, failing) ==
  LET r == Split(s, c, failing) IN
  IF failing \in 1 .. Len(Words(s, c)) + 1
  THEN ~r.ok /\ r.live = {}
  ELSE r.ok /\ Cardinality(r.live) = Len(r.words) + 1

(* ft_strncmp orders the first n bytes as unsigned numbers: it is zero     *)
(* exactly for equal prefixes, and its sign is that of the first           *)
(* difference, a shorter string first.                                     *)
CompareIsOrder(s, t, n) ==
  LET p == SubSeq(s, 1, Min({n, Len(s)}))
      q == SubSeq(t, 1, Min({n, Len(t)}))
      less == \/ IsStrictPrefix(p, q)
              \/ \E i \in DOMAIN p \cap DOMAIN q :
                    p[i] < q[i] /\ \A j \in 1 .. i - 1 : p[j] = q[j]
  IN  /\ (Strncmp(s, t, n) = 0) = (p = q)
      /\ (Strncmp(s, t, n) < 0) = less
      /\ Strncmp(s, t, n) = -Strncmp(t, s, n)

(* What ft_get_next_line does with a buffer: cut at any place, ft_substr   *)
(* gives two strings that ft_strjoin makes the old one of, each of them in *)
(* a block of just its length.                                             *)
CutAndJoin(s, t, n) ==
  LET head == Substr(s, 0, n)
      tail == Substr(s, n, Len(s))
  IN  /\ Strjoin(head.str, tail.str) = Strdup(s)
      /\ \A r \in {head, tail, Substr(s, n, Len(t))} : r.size = Len(r.str) + 1

(* The searches agree with each other and with the definition of the first *)
(* and last occurrence.  ft_strnstr is right as long as len is not beyond  *)
(* the zero of big: then it goes on behind it, whatever stands there.      *)
SearchesAgree(s, t, c, n) ==
  LET mem  == s \o <<0>> \o t
      left == Reverse(s)
      hits == {k \in 0 .. n : k + Len(t) <= Min({n, Len(s)}) /\ SubSeq(s, k + 1, k + Len(t)) = t}
  IN  /\ Strrchr(s, c) = IF Strchr(s, c) = NULL THEN NULL ELSE Len(s) - 1 - Strchr(left, c)
      /\ Strchr(s, 0) = Strlen(s)
      /\ n <= Len(s) + 1 => /\ Strnstr(mem, t, n) = Least(hits, NULL)
                            /\ Strnstr(mem, <<c>>, Len(s)) = Strchr(s, c)

(* ft_strtrim drops the longest prefix and suffix over the set and nothing *)
(* else, and the bytes in front of the string, which it reads when all of  *)
(* it is dropped, do not matter.                                           *)
TrimmedBothEnds(s, t) ==
  \A below \in 0 .. 2 :
    LET set == ToSet(t)
        r   == Strtrim(s, set, below)
    IN  /\ r # << >> => r[1] \notin set /\ r[Len(r)] \notin set
        /\ \E i \in 0 .. Len(s) :
             /\ SubSeq(s, i + 1, i + Len(r)) = r
             /\ \A j \in 1 .. Len(s) : j <= i \/ j > i + Len(r) => s[j] \in set

(* ft_strlcpy and ft_strlcat change no byte behind size, leave a string if *)
(* they had room for one, and return the length they would have needed.    *)
BoundedCopy(s, t, n) ==
  LET array == t \o <<0>> \o [i \in 1 .. Len(s) + 2 |-> 9]
      cpy   == Strlcpy(array, s, n)
      cat   == Strlcat(array, s, n)
      IsStr(r, str) == SubSeq(r.dst, 1, Len(str) + 1) = Append(str, 0)
  IN  /\ \A r \in {cpy, cat} : \A i \in DOMAIN array : i > n => r.dst[i] = array[i]
      /\ n > 0 => IsStr(cpy, SubSeq(s, 1, Min({n - 1, Len(s)})))
      /\ n > Len(t) => IsStr(cat, SubSeq(t \o s, 1, Min({n - 1, Len(t) + Len(s)})))
      /\ cpy.ret = Len(s)
      /\ cat.ret = Len(s) + Min({n, Len(t)})
=============================================================================
