---------------------------- MODULE HereDocInput ----------------------------
(***************************************************************************)
(* ft_here_doc_inp: lines of standard input go to TEMP_FILE until one      *)
(* begins with the delimiter or ft_get_next_line returns NULL.  The calls  *)
(* are those of GetNextLine, with its buffer, its reads and its faults.    *)
(***************************************************************************)
EXTENDS GetNextLine

CONSTANTS
  Delimiter,    \* argv[2], a sequence over Byte without newline and zero
  WriteFails    \* may a write to TEMP_FILE fail? its result is not looked at

Stdin == 0

ASSUME HereDocAssumption == Stdin \in Fds /\ Delimiter \in Seq(Byte \ {"nl", "nul"})

VARIABLES
  hpc,      \* "open", "loop" or "done"
  fresh,    \* buff is a line not looked at yet
  temp,     \* the content of TEMP_FILE, positions of the input
  unsaved   \* a write or the open failed (history)

hvars == <<hpc, fresh, temp, unsaved>>

HereDocInit ==
  /\ Init
  /\ hpc = "open" /\ fresh = FALSE /\ temp = << >> /\ unsaved = FALSE

\* O_CREAT | O_TRUNC, or ft_cleanup_exit
Open ==
  /\ hpc = "open"
  /\ \/ hpc' = "loop" /\ UNCHANGED unsaved
     \/ WriteFails /\ hpc' = "done" /\ unsaved' = TRUE
  /\ UNCHANGED <<vars, fresh, temp>>

Ask ==
  /\ hpc = "loop" /\ ~fresh
  /\ Call(Stdin)
  /\ fresh' = TRUE
  /\ UNCHANGED <<hpc, temp, unsaved>>

Answering == hpc = "loop" /\ (Read \/ Crash \/ LoopDone \/ Split) /\ UNCHANGED hvars

\* mutant: the whole line is compared, with its newline
IsDelimiterExactly(line) ==
  [i \in DOMAIN line |-> input[Stdin][line[i]]] = Delimiter

\* ft_strncmp(delimiter, buff, ft_strlen(delimiter)) == 0
IsDelimiter(line) ==
  /\ Len(line) >= Len(Delimiter)
  /\ \A i \in DOMAIN Delimiter : input[Stdin][line[i]] = Delimiter[i]

\* one evaluation of the loop condition, and the body
Take ==
  /\ hpc = "loop" /\ pc = "idle" /\ fresh
  /\ fresh' = FALSE
  /\ IF ret[Stdin] = Null \/ IsDelimiter(ret[Stdin])
     THEN hpc' = "done" /\ UNCHANGED <<temp, unsaved>>
     ELSE /\ UNCHANGED hpc
          /\ \/ temp' = temp \o ret[Stdin] /\ UNCHANGED unsaved
             \/ WriteFails /\ unsaved' = TRUE /\ UNCHANGED temp
  /\ UNCHANGED vars

HereDocFinished == hpc = "done" \/ pc = "crashed"

HereDocStep == Open \/ Ask \/ Answering \/ Take

HereDocNext == HereDocStep \/ (HereDocFinished /\ UNCHANGED <<vars, hvars>>)

\* the process runs, and need not fail to get on
HereDocSpec ==
  /\ HereDocInit /\ [][HereDocNext]_<<vars, hvars>>
  /\ WF_<<vars, hvars>>(HereDocStep /\ failed' = failed /\ unsaved' = unsaved)

-----------------------------------------------------------------------------
Text == input[Stdin]

LineStarts == {p \in 1 .. Len(Text) : p = 1 \/ Text[p - 1] = "nl"}

DelimiterLines ==
  {p \in LineStarts : /\ p + Len(Delimiter) - 1 <= Len(Text)
                      /\ \A i \in DOMAIN Delimiter : Text[p + i - 1] = Delimiter[i]}

\* the number of bytes in front of the first line that begins with the delimiter
Wanted == Min({Len(Text) + 1} \cup DelimiterLines) - 1

(* TEMP_FILE is at every moment the beginning of the text in front of the  *)
(* delimiter, and at the end it is that text, unless something failed: a   *)
(* malloc, a read or a write that fails truncates it without a word, and   *)
(* so does a zero byte.                                                    *)
TempIsText ==
  failed = {} /\ ~unsaved /\ "nul" \notin ToSet(Text) =>
    /\ Len(temp) <= Wanted /\ \A i \in DOMAIN temp : temp[i] = i
    /\ hpc = "done" => Len(temp) = Wanted

(* What the static buffer holds when the loop ends was taken from whoever  *)
(* shares standard input; it is less than one buffer behind the line that  *)
(* ended the loop, unless zero bytes made more of it vanish.               *)
LookAheadBounded ==
  hpc = "done" /\ failed \subseteq {"eof"} /\ "nul" \notin ToSet(Text) /\ out[Stdin] # << >> =>
    LET line == out[Stdin][Len(out[Stdin])] IN rd[Stdin] - line[Len(line)] < BufferSize

(* Reading the text ends, however the bytes come.                          *)
InputEnds == <>HereDocFinished
=============================================================================
