--------------------------- MODULE StartupProofs ---------------------------
(***************************************************************************)
(* Proofs about the start-up: for any number of commands and of words in   *)
(* them, any PATH, and whichever allocations fail, the struct has room for *)
(* the pipeline that is started, a child finds the first command in PATH,  *)
(* and it is known what parent and child leave allocated at the end.       *)
(***************************************************************************)
EXTENDS Startup, SequenceTheorems, TLAPS

(***************************************************************************)
(* How far ft_pipex_init has got and what it has set by then.              *)
(***************************************************************************)
Allocated == pc \in {"cmds", "path", "input", "run", "exec"}

Ended == pc \in {"exited", "crashed", "replaced"}

OrderInv ==
  /\ pc \in {"pipes", "args", "env"} => live = {}
  /\ pc \in {"pipes", "args", "env", "alloc"} =>
       short = {} /\ at = 0 /\ \A f \in Six : ptr[f] # "set"
  /\ pc \in {"pipes", "args", "env", "alloc", "cmds", "path"} => dir = << >> /\ ptr["path"] = "null"
  /\ pc = "env" => argc >= 5
  /\ pc = "input" => mode = here_doc
  /\ at <= nb_cmds

(* A command is searched only by a child, and but once. *)
SearchInv ==
  /\ pc \notin {"exec", "leave"} /\ ~Ended => found = -1 /\ child = 0
  /\ found > 0 => child > 0

(* ft_alloc_t_pipex tries all six, so that none of them stays unset. *)
SetInv ==
  /\ \A f \in Early : ptr[f] # "unset"
  /\ Allocated => \A f \in Six : ptr[f] = "set" /\ slots[f] = Length(f)
  /\ pc = "leave" => short = {"name"} \/ \A f \in Fields : ptr[f] # "unset"

(***************************************************************************)
(* Which blocks are live: the two outside the struct, and those a pointer  *)
(* of the struct leads to, the strings of cmds and cmd_args without a gap  *)
(* in front of them.  The loop over the commands has filled the slots in   *)
(* front of at, and of slot at no more than cmd_args.                      *)
(***************************************************************************)
Owned(b) ==
  \/ \E f \in Fields : b = <<f>> /\ ptr[f] = "set"
  \/ b = <<"cmdpath">> /\ child > 0 /\ found > 0
  \/ b = <<"stbuff">> /\ mode = here_doc
  \/ \E i \in DOMAIN dir : b = <<"path", i>> /\ dir[i] # "null" /\ ptr["path"] = "set"
  \/ \E k \in 0 .. at - 1 : b = <<"cmds", k>> /\ ptr["cmds"] = "set"
  \/ \E k \in 0 .. at : /\ b = <<"cmd_args", k>> \/ \E j \in Nat : b = <<"cmd_args", k, j>>
                        /\ ptr["cmd_args"] = "set"
                        /\ k = at => <<"cmd_args", at>> \in live

Filled(k) == <<"cmds", k>> \in live /\ <<"cmd_args", k>> \in live /\ <<"cmd_args", k, 0>> \in live

LiveInv ==
  ~Ended =>
    (\A b \in live : Owned(b)) /\ (\A k \in 0 .. at - 1 : Filled(k))

(* Which directories and commands there are. *)
ReadyInv ==
  /\ ptr["path"] = "set" => \A i \in DOMAIN dir : dir[i] \in {"slash", "null"}
  /\ ptr["path"] = "set" => DOMAIN dir = DOMAIN Dirs
  /\ pc \in {"input", "run"} /\ short = {} =>
       /\ ptr["path"] = "set"
       /\ DOMAIN dir = DOMAIN Dirs /\ \A i \in DOMAIN dir : dir[i] = "slash"
  /\ pc \in {"path", "input", "run"} /\ short = {} /\ (\A k \in 0 .. nb_cmds - 1 : words[k] > 0) =>
       at = nb_cmds

Inv ==
  TypeOK /\ OrderInv /\ SearchInv /\ SetInv /\ LiveInv /\ LeftBehind /\ ReadyInv
  /\ FirstInPath /\ CrashHasCause

-----------------------------------------------------------------------------
(* The largest argc. *)
LEMMA MaxIs ==
  MaxCmds \in Nat /\ MaxCmds > 0 /\ \A a \in Argcs : a \in Nat /\ a - 3 <= MaxCmds
<1>1. PICK m \in Argcs : m \in Nat /\ m > 3 /\ Argcs \subseteq 0 .. m
  BY StartupAssumption
<1>2. \A a \in Argcs : a \in Nat /\ a <= m
  BY <1>1
<1>3. \A x \in Argcs : (\A y \in Argcs : x >= y) <=> x = m
  BY <1>1, <1>2
<1>4. Max(Argcs) = m
  BY <1>1, <1>2, <1>3 DEF Max
<1>5. QED
  BY <1>1, <1>2, <1>4 DEF MaxCmds

(* What the lengths of the arrays are. *)
LEMMA LengthIs ==
  ASSUME TypeOK
  PROVE  \A f \in Fields : Length(f) \in 0 .. MaxCmds + 2
<1>1. MaxCmds \in Nat /\ nb_cmds \in 0 .. MaxCmds /\ mode \in 0 .. 2
  BY MaxIs DEF TypeOK
<1>2. PICK n \in Nat, m \in 0 .. 2 : n = nb_cmds /\ m = mode /\ n <= MaxCmds
  BY <1>1
<1>3. ASSUME NEW f \in Fields PROVE Length(f) \in {n + 2, n - m + 2, n + 1, 0}
  BY <1>2 DEF Length
<1>4. n + 2 \in 0 .. MaxCmds + 2 /\ n - m + 2 \in 0 .. MaxCmds + 2 /\ n + 1 \in 0 .. MaxCmds + 2
      /\ 0 \in 0 .. MaxCmds + 2
  BY <1>1, <1>2
<1>5. QED
  BY <1>3, <1>4

(* The actions that only move on. *)
OnlyOn ==
  /\ ~Ended
  /\ pc' \in {"args", "path", "leave", "exited", "crashed"}
  /\ UNCHANGED <<args, mode, nb_cmds, at, ptr, slots, dir, live, short, search>>

(* What is left unchanged when the struct is ready. *)
Ready ==
  /\ pc \in {"input", "run", "exec"}
  /\ pc' \in {"run", "exec", "leave", "crashed", "replaced"}
  /\ pc' = "run" => pc = "input" /\ short' = short
  /\ short' \in {short, short \cup {"search"}}
  /\ UNCHANGED <<args, mode, nb_cmds, at, ptr, slots, dir>>

(* The actions after it: the input, and a child up to execve. *)
LEMMA ReadyActions ==
  ASSUME TypeOK, OrderInv, SearchInv,
         Input \/ OpenFails \/ (\E n \in 1 .. MaxCmds : SearchCmd(n)) \/ Exec
  PROVE  /\ Ready
         /\ found = -1 \/ UNCHANGED search
         /\ child' \in 0 .. MaxCmds /\ holds' \subseteq DOMAIN Dirs
         /\ found' \in {-1, 0} \cup holds'
         /\ SearchInv'
         /\ \A b \in live' : \/ b \in live
                             \/ b = <<"cmdpath">> /\ child' > 0 /\ found' > 0
                             \/ b = <<"stbuff">> /\ mode = here_doc
         /\ ~Ended' => live \subseteq live'
<1>1. CASE Input
  <2>1. Ready /\ pc = "input" /\ pc' \in {"leave", "run", "crashed"} /\ UNCHANGED search
    BY <1>1 DEF Input, Ready
  <2>2. \A b \in live' : b \in live \/ b = <<"stbuff">>
    BY <1>1 DEF Input
  <2>3. live \subseteq live'
    BY <1>1 DEF Input
  <2>4. SearchInv'
    BY <2>1 DEF SearchInv, search, Ended
  <2>5. QED
    BY <2>1, <2>2, <2>3, <2>4 DEF TypeOK, OrderInv, search
<1>2. CASE OpenFails
  <2>1. Ready /\ pc = "run" /\ pc' = "leave" /\ UNCHANGED <<live, holds, found>> /\ child' \in {1, nb_cmds}
    BY <1>2 DEF OpenFails, Ready
  <2>2. found = -1
    BY <2>1 DEF SearchInv, Ended
  <2>3. child' \in 0 .. MaxCmds
    BY <2>1, MaxIs DEF TypeOK
  <2>4. SearchInv'
    BY <2>1, <2>2 DEF SearchInv, Ended
  <2>5. QED
    BY <2>1, <2>2, <2>3, <2>4 DEF TypeOK
<1>3. ASSUME NEW n \in 1 .. MaxCmds, SearchCmd(n)
      PROVE  /\ Ready /\ found = -1
             /\ child' \in 0 .. MaxCmds /\ child' > 0 /\ holds' \subseteq DOMAIN Dirs
             /\ found' \in {-1, 0} \cup holds'
             /\ SearchInv'
             /\ \A b \in live' : b \in live \/ (b = <<"cmdpath">> /\ found' > 0)
             /\ live \subseteq live'
  <2>1. pc = "run" /\ child' = n /\ pc' \in {"crashed", "leave", "exec"} /\ holds' \subseteq DOMAIN Dirs
        /\ UNCHANGED <<args, mode, nb_cmds, at, ptr, slots, dir>> /\ short' \in {short, short \cup {"search"}}
    BY <1>3 DEF SearchCmd
  <2>2. found = -1
    BY <2>1 DEF SearchInv, Ended
  <2>3. \/ found' \in {-1, 0} /\ live' = live
        \/ found' \in Listed \cap holds' /\ live' = live \cup {<<"cmdpath">>}
    BY <1>3, <2>2 DEF SearchCmd
  <2>4. \A i \in Listed : i > 0
    <3>1. DOMAIN dir = 1 .. Len(dir) /\ Len(dir) \in Nat
      BY LenProperties DEF TypeOK
    <3>2. QED
      BY <3>1 DEF Listed
  <2>5. child' \in 0 .. MaxCmds /\ child' > 0
    BY <2>1, MaxIs
  <2>6. SearchInv'
    BY <2>1, <2>2, <2>3, <2>5 DEF SearchInv, Ended
  <2>7. Ready
    BY <2>1 DEF Ready
  <2>8. QED
    BY <2>1, <2>2, <2>3, <2>4, <2>5, <2>6, <2>7
<1>4. CASE Exec
  <2>1. Ready /\ pc = "exec" /\ UNCHANGED search
        /\ ((pc' = "replaced" /\ live' = {}) \/ (pc' = "leave" /\ live' = live))
    BY <1>4 DEF Exec, Ready
  <2>2. SearchInv'
    BY <2>1 DEF SearchInv, search, Ended
  <2>3. QED
    BY <2>1, <2>2 DEF TypeOK, search, Ended
<1>5. QED
  BY <1>1, <1>2, <1>3, <1>4

(* The struct keeps its type. *)
LEMMA TypeStep ==
  ASSUME TypeOK, OrderInv, SearchInv, [Next]_vars
  PROVE  TypeOK'
<1>1. CASE OnlyOn
  BY <1>1 DEF OnlyOn, TypeOK, args, search
<1>0. CASE Input \/ OpenFails \/ (\E n \in 1 .. MaxCmds : SearchCmd(n)) \/ Exec
  <2>1. \A b \in live' : b[1] \in Fields \cup Others
    <3>1. \A b \in live' : b \in live \/ b = <<"cmdpath">> \/ b = <<"stbuff">>
      BY <1>0, ReadyActions
    <3>2. QED
      BY <3>1 DEF TypeOK, Others
  <2>2. Ready /\ child' \in 0 .. MaxCmds /\ holds' \subseteq DOMAIN Dirs /\ found' \in {-1, 0} \cup holds'
    BY <1>0, ReadyActions
  <2>3. QED
    BY <2>1, <2>2 DEF Ready, TypeOK, args
<1>2. CASE ValidateArgs
  BY <1>2 DEF ValidateArgs, TypeOK, args, search, regular_case, here_doc
<1>3. CASE SetParseEnv
  <2>1. CmdCount \in 0 .. MaxCmds
    <3>1. argc \in Nat /\ argc >= 5 /\ argc - 3 <= MaxCmds
      BY <1>3, MaxIs DEF SetParseEnv, TypeOK, OrderInv
    <3>2. CmdCount \in {argc - 3, argc - 4}
      BY <3>1 DEF CmdCount
    <3>3. QED
      BY <3>1, <3>2, MaxIs
  <2>2. PICK f \in {"delimiter", "infile"} :
          /\ ptr' \in {ptr, [ptr EXCEPT ![f] = "set"]}
          /\ live' \in {live, live \cup {<<f>>}}
          /\ pc' \in {"alloc", "leave"}
    BY <1>3 DEF SetParseEnv
  <2>3. f \in Fields
    BY DEF Fields, Early
  <2>4. ptr' \in [Fields -> {"unset", "null", "set"}]
    BY <2>2, <2>3 DEF TypeOK
  <2>5. \A b \in live' : b[1] \in Fields \cup Others
    BY <2>2, <2>3 DEF TypeOK
  <2>6. QED
    BY <1>3, <2>1, <2>2, <2>4, <2>5 DEF SetParseEnv, TypeOK, args, search
<1>4. CASE AllocTPipex
  <2>1. PICK none \in SUBSET Six :
          /\ ptr' = [f \in Fields |-> IF f \notin Six THEN ptr[f] ELSE IF f \in none THEN "null" ELSE "set"]
          /\ live' = live \cup {<<f>> : f \in Six \ none}
          /\ slots' = [f \in Fields |-> IF f \in Six \ none THEN Length(f) ELSE 0]
          /\ pc' \in {"cmds", "leave"}
    BY <1>4 DEF AllocTPipex, Tried
  <2>2. ptr' \in [Fields -> {"unset", "null", "set"}]
    BY <2>1 DEF TypeOK
  <2>3. slots' \in [Fields -> 0 .. MaxCmds + 2]
    BY <2>1, LengthIs, MaxIs
  <2>4. \A b \in live' : b[1] \in Fields \cup Others
    <3>1. \A f \in Six : <<f>>[1] \in Fields
      BY DEF Six, Fields, Early, Late
    <3>2. QED
      BY <2>1, <3>1 DEF TypeOK
  <2>5. QED
    BY <1>4, <2>1, <2>2, <2>3, <2>4 DEF AllocTPipex, TypeOK, args, search
<1>5. CASE ParseCmd
  <2>1. at' \in {at, at + 1} /\ at < nb_cmds /\ pc' \in {"path", "cmds"}
    BY <1>5 DEF ParseCmd
  <2>2. at' \in 0 .. MaxCmds
    <3>1. at \in 0 .. MaxCmds /\ nb_cmds \in 0 .. MaxCmds /\ MaxCmds \in Nat
      BY MaxIs DEF TypeOK
    <3>2. QED
      BY <2>1, <3>1
  <2>3. \A b \in live' : b \in live \/ b = <<"cmd_args", at>> \/ b = <<"cmds", at>>
                         \/ \E j \in 0 .. words[at] - 1 : b = <<"cmd_args", at, j>>
    BY <1>5 DEF ParseCmd
  <2>4. \A b \in live' : b[1] \in Fields \cup Others
    BY <2>3 DEF TypeOK, Fields, Early
  <2>5. QED
    BY <1>5, <2>1, <2>2, <2>4 DEF ParseCmd, TypeOK, args, search
<1>6. CASE GrabEnvp
  <2>1. /\ ptr' \in {[ptr EXCEPT !["path"] = "null"], [ptr EXCEPT !["path"] = "set"]}
        /\ pc' \in {"input", "run"}
        /\ \A b \in live' : b \in live \/ b = <<"path">> \/ \E i \in DOMAIN Dirs : b = <<"path", i>>
    BY <1>6 DEF GrabEnvp
  <2>2. ptr' \in [Fields -> {"unset", "null", "set"}]
    BY <2>1 DEF TypeOK
  <2>3. \A b \in live' : b[1] \in Fields \cup Others
    BY <2>1 DEF TypeOK, Fields, Early
  <2>4. dir' \in Seq({"plain", "slash", "null"})
    <3>1. Len(Dirs) \in Nat /\ DOMAIN Dirs = 1 .. Len(Dirs)
      BY StartupAssumption, LenProperties
    <3>2. dir' = dir \/ dir' \in [1 .. Len(Dirs) -> {"plain", "slash", "null"}]
      BY <1>6, <3>1 DEF GrabEnvp, WithSlash
    <3>3. QED
      BY <3>1, <3>2, SeqDef DEF TypeOK
  <2>5. QED
    BY <1>6, <2>1, <2>2, <2>3, <2>4 DEF GrabEnvp, TypeOK, args, search
<1>7. CASE CleanupExit
  BY <1>7 DEF CleanupExit, TypeOK, args, search
<1>8. CASE UNCHANGED vars
  BY <1>8 DEF vars, search, TypeOK
<1>9. QED
  BY <1>0, <1>1, <1>2, <1>3, <1>4, <1>5, <1>6, <1>7, <1>8
     DEF Next, OnlyOn, Ended, Pipes, CmdsParsed, GrabNothing, Leave

(* What ft_pipex_init has set goes with how far it has got. *)
LEMMA OrderStep ==
  ASSUME TypeOK, OrderInv, SearchInv, [Next]_vars
  PROVE  OrderInv'
<1>0. CASE Input \/ OpenFails \/ (\E n \in 1 .. MaxCmds : SearchCmd(n)) \/ Exec
  <2>1. Ready
    BY <1>0, ReadyActions
  <2>2. QED
    BY <2>1 DEF Ready, OrderInv
<1>1. CASE OnlyOn /\ pc \notin {"pipes", "args", "env", "alloc"} /\ pc' # "args"
           /\ (pc' = "path" => pc = "cmds")
  BY <1>1 DEF OnlyOn, OrderInv
<1>2. CASE Pipes
  BY <1>2 DEF Pipes, OrderInv
<1>3. CASE ValidateArgs
  <2>1. argc \in Nat
    BY MaxIs DEF TypeOK
  <2>2. pc' = "env" => argc >= 5
    BY <1>3, <2>1 DEF ValidateArgs
  <2>3. QED
    BY <1>3, <2>2 DEF ValidateArgs, OrderInv, args
<1>4. CASE SetParseEnv
  <2>1. PICK f \in {"delimiter", "infile"} : ptr' \in {ptr, [ptr EXCEPT ![f] = "set"]}
    BY <1>4 DEF SetParseEnv
  <2>2. /\ pc = "env" /\ pc' \in {"alloc", "leave"} /\ nb_cmds' = CmdCount
        /\ UNCHANGED <<at, dir>> /\ (pc' = "alloc" => UNCHANGED short)
    BY <1>4 DEF SetParseEnv
  <2>3. at' <= nb_cmds'
    <3>1. argc \in Nat /\ argc >= 5 /\ at = 0
      BY <2>2, MaxIs DEF TypeOK, OrderInv
    <3>2. CmdCount \in {argc - 3, argc - 4}
      BY <3>1 DEF CmdCount
    <3>3. QED
      BY <2>2, <3>1, <3>2
  <2>4. ptr' \in [Fields -> {"unset", "null", "set"}] /\ ptr'["path"] = "null" /\ \A g \in Six : ptr'[g] # "set"
    <3>1. \A g \in Six \cup {"path"} : g # f /\ g \in Fields
      BY DEF Six, Fields, Early, Late
    <3>2. f \in Fields
      BY DEF Fields, Early
    <3>3. QED
      BY <2>1, <2>2, <3>1, <3>2 DEF TypeOK, OrderInv
  <2>5. QED
    BY <2>2, <2>3, <2>4 DEF OrderInv
<1>5. CASE AllocTPipex
  <2>1. "path" \in Fields \ Six
    BY DEF Fields, Early, Six
  <2>2. ptr'["path"] = ptr["path"]
    BY <1>5, <2>1 DEF AllocTPipex, Tried
  <2>3. QED
    BY <1>5, <2>2 DEF AllocTPipex, OrderInv
<1>6. CASE ParseCmd
  <2>1. /\ at' \in {at, at + 1} /\ at < nb_cmds /\ pc' \in {"path", "cmds"} /\ pc = "cmds"
        /\ UNCHANGED <<nb_cmds, dir, ptr>>
    BY <1>6 DEF ParseCmd
  <2>2. at' <= nb_cmds'
    BY <2>1, MaxIs DEF TypeOK
  <2>3. QED
    BY <2>1, <2>2 DEF OrderInv
<1>7. CASE GrabEnvp
  BY <1>7 DEF GrabEnvp, OrderInv
<1>8. CASE CleanupExit
  BY <1>8 DEF CleanupExit, OrderInv
<1>9. CASE UNCHANGED vars
  BY <1>9 DEF vars, OrderInv
<1>10. QED
  BY <1>0, <1>1, <1>2, <1>3, <1>4, <1>5, <1>6, <1>7, <1>8, <1>9
     DEF Next, OnlyOn, Ended, CmdsParsed, GrabNothing, Leave

(* The command is searched once the struct is ready. *)
LEMMA SearchStep ==
  ASSUME TypeOK, OrderInv, SearchInv, [Next]_vars
  PROVE  SearchInv'
<1>1. CASE Input \/ OpenFails \/ (\E n \in 1 .. MaxCmds : SearchCmd(n)) \/ Exec
  BY <1>1, ReadyActions
<1>2. CASE UNCHANGED vars
  BY <1>2 DEF vars, search, SearchInv, Ended
<1>3. CASE CleanupExit
  BY <1>3 DEF CleanupExit, search, SearchInv, Ended
<1>4. CASE /\ UNCHANGED search
           /\ pc \in {"pipes", "args", "env", "alloc", "cmds", "path", "run"}
  BY <1>4 DEF search, SearchInv, Ended
<1>5. QED
  BY <1>1, <1>2, <1>3, <1>4
     DEF Next, Pipes, ValidateArgs, SetParseEnv, AllocTPipex, ParseCmd, CmdsParsed, GrabEnvp, GrabNothing, Leave

(* After ft_alloc_t_pipex each pointer is set or NULL. *)
LEMMA SetStep ==
  ASSUME TypeOK, OrderInv, SearchInv, SetInv, [Next]_vars
  PROVE  SetInv'
<1>0. CASE Input \/ OpenFails \/ (\E n \in 1 .. MaxCmds : SearchCmd(n)) \/ Exec
  <2>1. Ready
    BY <1>0, ReadyActions
  <2>2. UNCHANGED <<ptr, slots, nb_cmds, mode>> /\ Allocated
    BY <2>1 DEF Ready, Allocated
  <2>3. \A f \in Fields : ptr[f] # "unset"
    <3>1. \A f \in Fields : f \in Early \/ f \in Six
      BY DEF Fields, Early, Late, Six
    <3>2. QED
      BY <2>2, <3>1 DEF SetInv
  <2>4. QED
    BY <2>2, <2>3 DEF SetInv, Length
<1>1. CASE OnlyOn /\ (pc' \in {"path", "leave"} => Allocated)
  <2>1. pc' = "leave" => \A f \in Fields : ptr[f] # "unset"
    <3>1. \A f \in Fields : f \in Early \/ f \in Six
      BY DEF Fields, Early, Late, Six
    <3>2. QED
      BY <1>1, <3>1 DEF SetInv, OnlyOn
  <2>2. UNCHANGED <<ptr, slots, short, nb_cmds, mode>>
    BY <1>1 DEF OnlyOn
  <2>3. QED
    BY <1>1, <2>1, <2>2 DEF OnlyOn, SetInv, Allocated, Length
<1>2. CASE Pipes
  BY <1>2 DEF Pipes, SetInv, Allocated
<1>3. CASE ValidateArgs
  BY <1>3 DEF ValidateArgs, SetInv, Allocated
<1>4. CASE SetParseEnv
  <2>1. PICK f \in {"delimiter", "infile"} : ptr' \in {ptr, [ptr EXCEPT ![f] = "set"]}
    BY <1>4 DEF SetParseEnv
  <2>2. pc = "env" /\ (pc' = "alloc" \/ (pc' = "leave" /\ short' = {} \cup {"name"}))
    BY <1>4 DEF SetParseEnv, OrderInv
  <2>3. \A g \in Early : ptr'[g] # "unset"
    BY <2>1 DEF SetInv, TypeOK, Fields
  <2>4. QED
    BY <2>2, <2>3 DEF SetInv, Allocated
<1>5. CASE AllocTPipex
  <2>1. PICK none \in SUBSET Six :
          /\ ptr' = [f \in Fields |-> IF f \notin Six THEN ptr[f] ELSE IF f \in none THEN "null" ELSE "set"]
          /\ slots' = [f \in Fields |-> IF f \in Six \ none THEN Length(f) ELSE 0]
          /\ pc' = IF none = {} THEN "cmds" ELSE "leave"
    BY <1>5 DEF AllocTPipex, Tried
  <2>2. \A f \in Fields : f \in Early \/ f \in Six
    BY DEF Fields, Early, Late, Six
  <2>3. \A f \in Fields : ptr'[f] # "unset"
    BY <2>1, <2>2 DEF SetInv
  <2>4. Six \subseteq Fields /\ Early \subseteq Fields
    BY DEF Six, Fields, Early, Late
  <2>5. \A f \in Six : Length(f)' = Length(f)
    BY <1>5 DEF AllocTPipex, Length
  <2>6. ASSUME pc' # "leave", NEW f \in Six PROVE ptr'[f] = "set" /\ slots'[f] = Length(f)
    <3>1. none = {}
      BY <2>1, <2>6
    <3>2. QED
      BY <2>1, <2>4, <3>1
  <2>7. QED
    BY <2>3, <2>4, <2>5, <2>6 DEF SetInv, Allocated
<1>6. CASE ParseCmd
  <2>1. Allocated /\ pc' \in {"path", "cmds"} /\ UNCHANGED <<ptr, slots, nb_cmds, mode>>
    BY <1>6 DEF ParseCmd, Allocated
  <2>2. QED
    BY <2>1 DEF SetInv, Length
<1>7. CASE GrabEnvp
  <2>1. /\ Allocated /\ pc' \in {"input", "run"} /\ UNCHANGED <<slots, nb_cmds, mode>>
        /\ ptr' \in {[ptr EXCEPT !["path"] = "null"], [ptr EXCEPT !["path"] = "set"]}
    BY <1>7 DEF GrabEnvp, Allocated
  <2>2. "path" \notin Six /\ Six \subseteq Fields /\ Early \subseteq Fields
    BY DEF Six, Fields, Early, Late
  <2>3. (\A f \in Early : ptr'[f] # "unset") /\ \A f \in Six : ptr'[f] = ptr[f]
    BY <2>1, <2>2 DEF SetInv, TypeOK
  <2>4. \A f \in Six : Length(f)' = Length(f) /\ slots'[f] = slots[f]
    BY <2>1 DEF Length
  <2>5. QED
    BY <2>1, <2>3, <2>4 DEF SetInv
<1>8. CASE CleanupExit
  BY <1>8 DEF CleanupExit, SetInv, Allocated
<1>9. CASE UNCHANGED vars
  <2>1. UNCHANGED <<ptr, slots, nb_cmds, mode, pc, short>>
    BY <1>9 DEF vars
  <2>2. QED
    BY <2>1 DEF SetInv, Allocated, Length
<1>10. QED
  BY <1>0, <1>1, <1>2, <1>3, <1>4, <1>5, <1>6, <1>7, <1>8, <1>9
     DEF Next, OnlyOn, Ended, CmdsParsed, GrabNothing, Leave, Allocated

(* The directories and the commands that were found without a failure. *)
LEMMA ReadyStep ==
  ASSUME TypeOK, OrderInv, SearchInv, SetInv, ReadyInv, [Next]_vars
  PROVE  ReadyInv'
<1>0. CASE Input \/ OpenFails \/ (\E n \in 1 .. MaxCmds : SearchCmd(n)) \/ Exec
  <2>1. Ready
    BY <1>0, ReadyActions
  <2>2. QED
    BY <2>1 DEF Ready, ReadyInv, args
<1>1. CASE OnlyOn /\ pc # "cmds" /\ pc' # "path"
  BY <1>1 DEF OnlyOn, ReadyInv, args
<1>2. CASE CmdsParsed
  BY <1>2 DEF CmdsParsed, ReadyInv, args
<1>3. CASE ValidateArgs \/ SetParseEnv \/ AllocTPipex
  <2>1. ptr'["path"] # "set"
    <3>1. OrderInv' /\ pc' \in {"exited", "env", "alloc", "cmds", "leave"}
      BY <1>3, OrderStep DEF ValidateArgs, SetParseEnv, AllocTPipex
    <3>2. ptr["path"] = "null"
      BY <1>3 DEF OrderInv, ValidateArgs, SetParseEnv, AllocTPipex
    <3>3. "path" \in Fields \ Six /\ "path" \notin {"delimiter", "infile"}
      BY DEF Fields, Early, Six
    <3>4. ptr'["path"] = ptr["path"]
      BY <1>3, <3>3 DEF ValidateArgs, SetParseEnv, AllocTPipex, Tried, TypeOK
    <3>5. QED
      BY <3>2, <3>4
  <2>2. pc' \notin {"path", "input", "run"}
    BY <1>3 DEF ValidateArgs, SetParseEnv, AllocTPipex
  <2>3. QED
    BY <2>1, <2>2 DEF ReadyInv
<1>4. CASE ParseCmd
  <2>1. pc = "cmds" /\ at < nb_cmds /\ pc' \in {"path", "cmds"} /\ UNCHANGED <<ptr, dir, nb_cmds, words>> /\ dir = << >>
    BY <1>4 DEF ParseCmd, args, OrderInv
  <2>2. short \subseteq short' /\ (pc' = "path" => words[at] = 0 \/ short' # {})
    BY <1>4 DEF ParseCmd
  <2>3. at \in 0 .. nb_cmds - 1
    BY <2>1, MaxIs DEF TypeOK
  <2>4. pc' = "path" /\ short' = {} => ~\A k \in 0 .. nb_cmds - 1 : words[k] > 0
    BY <2>2, <2>3
  <2>5. QED
    BY <2>1, <2>4 DEF ReadyInv
<1>5. CASE GrabEnvp
  <2>1. pc = "path" /\ pc' \in {"input", "run"} /\ UNCHANGED <<at, nb_cmds, words>> /\ short \subseteq short' /\ dir = << >>
    BY <1>5 DEF GrabEnvp, args, OrderInv
  <2>2. CASE short' = short \cup {"path"} /\ ptr' = [ptr EXCEPT !["path"] = "null"]
    <3>1. ptr'["path"] # "set"
      BY <2>2 DEF TypeOK, Fields, Early
    <3>2. QED
      BY <2>1, <2>2, <3>1 DEF ReadyInv
  <2>3. ASSUME NEW none \in SUBSET {i \in DOMAIN Dirs : Dirs[i] = "plain"},
               dir' = [i \in DOMAIN Dirs |-> IF i \in none THEN "null" ELSE WithSlash(Dirs[i])],
               ptr' = [ptr EXCEPT !["path"] = "set"],
               short' = IF none = {} THEN short ELSE short \cup {"dir"}
        PROVE  ReadyInv'
    <3>1. DOMAIN dir' = DOMAIN Dirs /\ \A i \in DOMAIN dir' : dir'[i] \in {"slash", "null"}
      BY <2>3 DEF WithSlash
    <3>2. short' = {} => DOMAIN dir' = DOMAIN Dirs /\ \A i \in DOMAIN dir' : dir'[i] = "slash"
      BY <2>3 DEF WithSlash
    <3>3. short' = {} => short = {}
      BY <2>1
    <3>4. ptr'["path"] = "set"
      BY <2>3 DEF TypeOK, Fields, Early
    <3>5. QED
      BY <2>1, <3>1, <3>2, <3>3, <3>4 DEF ReadyInv
  <2>4. QED
    BY <1>5, <2>2, <2>3 DEF GrabEnvp
<1>6. CASE CleanupExit
  BY <1>6 DEF CleanupExit, ReadyInv
<1>7. CASE UNCHANGED vars
  BY <1>7 DEF vars, ReadyInv
<1>8. QED
  BY <1>0, <1>1, <1>2, <1>3, <1>4, <1>5, <1>6, <1>7
     DEF Next, OnlyOn, Ended, Pipes, GrabNothing, Leave

(* The slots filled before and after one turn of ft_parse_cmds. *)
LEMMA OneTurn ==
  ASSUME NEW x \in Nat, NEW y \in {x, x + 1}
  PROVE  /\ \A k \in 0 .. x - 1 : k \in 0 .. y - 1
         /\ \A k \in 0 .. y - 1 : k \in 0 .. x - 1 \/ (k = x /\ y = x + 1)
OBVIOUS

(* Every live block can be reached from the struct, up to ft_cleanup_exit. *)
LEMMA LiveStep ==
  ASSUME TypeOK, OrderInv, SearchInv, SetInv, LiveInv, [Next]_vars
  PROVE  LiveInv'
<1>0. CASE (Input \/ OpenFails \/ (\E n \in 1 .. MaxCmds : SearchCmd(n)) \/ Exec) /\ ~Ended'
  <2>1. UNCHANGED <<ptr, at, dir, mode>> /\ ~Ended
    <3>1. Ready
      BY <1>0, ReadyActions
    <3>2. QED
      BY <3>1 DEF Ready, Ended
  <2>2. /\ live \subseteq live' /\ (found = -1 \/ UNCHANGED <<child, found>>)
        /\ \A b \in live' : \/ b \in live
                            \/ b = <<"cmdpath">> /\ child' > 0 /\ found' > 0
                            \/ b = <<"stbuff">> /\ mode = here_doc
    BY <1>0, ReadyActions DEF search
  <2>3. ASSUME NEW b \in live' PROVE Owned(b)'
    <3>1. CASE b \in live
      <4>1. Owned(b)
        BY <2>1, <3>1 DEF LiveInv
      <4>2. CASE b = <<"cmdpath">> /\ child > 0 /\ found > 0
        <5>1. UNCHANGED <<child, found>>
          BY <2>2, <4>2
        <5>2. QED
          BY <4>2, <5>1 DEF Owned
      <4>3. CASE \E k \in 0 .. at : /\ b = <<"cmd_args", k>> \/ \E j \in Nat : b = <<"cmd_args", k, j>>
                                    /\ ptr["cmd_args"] = "set"
                                    /\ k = at => <<"cmd_args", at>> \in live
        BY <2>1, <2>2, <4>3 DEF Owned
      <4>4. QED
        BY <2>1, <4>1, <4>2, <4>3 DEF Owned, here_doc
    <3>2. QED
      BY <2>1, <2>2, <3>1 DEF Owned, here_doc
  <2>4. \A k \in 0 .. at' - 1 : Filled(k)'
    BY <2>1, <2>2 DEF LiveInv, Filled
  <2>5. QED
    BY <2>3, <2>4 DEF LiveInv
<1>1. CASE OnlyOn \/ UNCHANGED vars
  <2>1. UNCHANGED <<ptr, at, dir, live, mode, child, found>> /\ (~Ended' => ~Ended)
    BY <1>1 DEF OnlyOn, vars, search, Ended
  <2>2. QED
    BY <2>1 DEF LiveInv, Owned, Filled, here_doc
<1>2. CASE ValidateArgs
  <2>1. live' = {} /\ \A k \in 0 .. at' - 1 : FALSE
    BY <1>2 DEF ValidateArgs, OrderInv
  <2>2. QED
    BY <2>1 DEF LiveInv
<1>3. CASE SetParseEnv
  <2>1. pc = "env" /\ live = {} /\ at' = 0
    BY <1>3 DEF SetParseEnv, OrderInv
  <2>2. PICK f \in {"delimiter", "infile"} :
          live' = {} \/ (live' = live \cup {<<f>>} /\ ptr' = [ptr EXCEPT ![f] = "set"])
    BY <1>3, <2>1 DEF SetParseEnv
  <2>3. f \in Fields /\ ptr \in [Fields -> {"unset", "null", "set"}]
    BY DEF Fields, Early, TypeOK
  <2>4. \A b \in live' : b = <<f>> /\ ptr'[f] = "set"
    BY <2>1, <2>2, <2>3
  <2>5. \A b \in live' : Owned(b)'
    BY <2>3, <2>4 DEF Owned
  <2>6. \A k \in 0 .. at' - 1 : FALSE
    BY <2>1
  <2>7. QED
    BY <2>5, <2>6 DEF LiveInv
<1>4. CASE AllocTPipex
  <2>1. PICK none \in SUBSET Six :
          /\ ptr' = [f \in Fields |-> IF f \notin Six THEN ptr[f] ELSE IF f \in none THEN "null" ELSE "set"]
          /\ live' = live \cup {<<f>> : f \in Six \ none}
    BY <1>4 DEF AllocTPipex, Tried
  <2>2. pc = "alloc" /\ at' = 0 /\ at = 0 /\ dir = << >> /\ \A f \in Six : ptr[f] # "set"
    BY <1>4 DEF AllocTPipex, OrderInv
  <2>3. Six \subseteq Fields /\ {"cmds", "cmd_args"} \subseteq Six
    BY DEF Six, Fields, Early, Late
  <2>8. UNCHANGED <<mode, child, found>>
    BY <1>4 DEF AllocTPipex, search
  <2>5. ASSUME NEW b \in live' PROVE Owned(b)'
    <3>1. CASE b \in live
      <4>1. Owned(b)
        BY <2>2, <3>1 DEF LiveInv, Ended
      <4>2. DOMAIN dir = {}
        BY <2>2
      <4>3. CASE \E f \in Fields : b = <<f>> /\ ptr[f] = "set"
        BY <2>1, <2>2, <4>3 DEF Owned
      <4>4. CASE (b = <<"cmdpath">> /\ child > 0 /\ found > 0) \/ (b = <<"stbuff">> /\ mode = here_doc)
        BY <2>8, <4>4 DEF Owned, here_doc
      <4>5. QED
        BY <2>2, <2>3, <4>1, <4>2, <4>3, <4>4 DEF Owned
    <3>2. CASE b \notin live
      BY <2>1, <2>3, <3>2 DEF Owned
    <3>3. QED
      BY <3>1, <3>2
  <2>6. \A k \in 0 .. at' - 1 : FALSE
    BY <2>2
  <2>7. QED
    BY <2>5, <2>6 DEF LiveInv
<1>5. CASE ParseCmd
  <2>1. /\ pc = "cmds" /\ UNCHANGED <<ptr, dir, mode, child, found>> /\ live \subseteq live'
        /\ at' = at + 1 =>
             <<"cmds", at>> \in live' /\ <<"cmd_args", at>> \in live' /\ <<"cmd_args", at, 0>> \in live'
        /\ \A b \in live' :
             \/ b \in live
             \/ (b = <<"cmd_args", at>> \/ \E j \in Nat : b = <<"cmd_args", at, j>>) /\ <<"cmd_args", at>> \in live'
             \/ b = <<"cmds", at>> /\ at' = at + 1
    <3>1. at < nb_cmds /\ at \in Nat /\ nb_cmds \in 0 .. MaxCmds
      BY <1>5, MaxIs DEF ParseCmd, TypeOK
    <3>2. words[at] \in Nat
      <4>1. at \in 0 .. MaxCmds - 1
        BY <3>1, MaxIs
      <4>2. words[at] \in Words
        BY <4>1 DEF TypeOK
      <4>3. QED
        BY <4>2, StartupAssumption
    <3>3. PICK n \in Nat, a \in Nat : n = words[at] /\ a = at
      BY <3>1, <3>2
    <3>4. \A j \in 0 .. n - 1 : j \in Nat
      OBVIOUS
    <3>5. n > 0 => 0 \in 0 .. n - 1
      OBVIOUS
    <3>6. a + 1 # a
      OBVIOUS
    <3>7. QED
      BY <1>5, <3>3, <3>4, <3>5, <3>6 DEF ParseCmd, search
  <2>2. at \in Nat /\ at' \in {at, at + 1}
    BY <1>5, MaxIs DEF ParseCmd, TypeOK
  <2>3. PICK x \in Nat, y \in Nat : x = at /\ y = at' /\ y \in {x, x + 1}
    BY <2>2
  <2>4. ptr["cmds"] = "set" /\ ptr["cmd_args"] = "set"
    BY <2>1 DEF SetInv, Allocated, Six
  <2>5. ASSUME NEW b \in live' PROVE Owned(b)'
    <3>1. CASE b \in live
      <4>1. Owned(b)
        BY <2>1, <3>1 DEF LiveInv, Ended
      <4>0. CASE (b = <<"cmdpath">> /\ child > 0 /\ found > 0) \/ (b = <<"stbuff">> /\ mode = here_doc)
        BY <2>1, <4>0 DEF Owned, here_doc
      <4>2. CASE \E f \in Fields : b = <<f>> /\ ptr[f] = "set"
        BY <2>1, <4>2 DEF Owned
      <4>3. CASE \E i \in DOMAIN dir : b = <<"path", i>> /\ dir[i] # "null" /\ ptr["path"] = "set"
        BY <2>1, <4>3 DEF Owned
      <4>4. CASE \E k \in 0 .. at - 1 : b = <<"cmds", k>> /\ ptr["cmds"] = "set"
        <5>1. PICK k \in 0 .. at - 1 : b = <<"cmds", k>>
          BY <4>4
        <5>2. k \in 0 .. at' - 1
          <6>1. k \in 0 .. x - 1
            BY <2>3, <5>1
          <6>2. k \in 0 .. y - 1
            BY <2>3, <6>1, OneTurn
          <6>3. QED
            BY <2>3, <6>2
        <5>3. QED
          BY <2>1, <2>4, <5>1, <5>2 DEF Owned
      <4>5. CASE \E k \in 0 .. at : /\ b = <<"cmd_args", k>> \/ \E j \in Nat : b = <<"cmd_args", k, j>>
                                    /\ ptr["cmd_args"] = "set"
                                    /\ k = at => <<"cmd_args", at>> \in live
        <5>1. PICK k \in 0 .. at : /\ b = <<"cmd_args", k>> \/ \E j \in Nat : b = <<"cmd_args", k, j>>
                                   /\ k = at => <<"cmd_args", at>> \in live
          BY <4>5
        <5>2. k \in 0 .. at' /\ (k = at' => k = at /\ at' = at)
          BY <2>2
        <5>3. k = at' => <<"cmd_args", at'>> \in live'
          BY <2>1, <5>1, <5>2
        <5>4. QED
          BY <2>1, <2>4, <5>1, <5>2, <5>3 DEF Owned
      <4>6. QED
        BY <4>0, <4>1, <4>2, <4>3, <4>4, <4>5 DEF Owned
    <3>2. CASE (b = <<"cmd_args", at>> \/ \E j \in Nat : b = <<"cmd_args", at, j>>) /\ <<"cmd_args", at>> \in live'
      <4>1. at \in 0 .. at' /\ (at = at' => <<"cmd_args", at'>> \in live')
        BY <2>2, <3>2
      <4>2. QED
        BY <2>1, <2>4, <3>2, <4>1 DEF Owned
    <3>3. CASE b = <<"cmds", at>> /\ at' = at + 1
      <4>1. at \in 0 .. at' - 1
        BY <2>2, <3>3
      <4>2. QED
        BY <2>1, <2>4, <3>3, <4>1 DEF Owned
    <3>4. QED
      BY <2>1, <3>1, <3>2, <3>3
  <2>6. ASSUME NEW k \in 0 .. at' - 1 PROVE Filled(k)'
    <3>1. k \in 0 .. y - 1
      BY <2>3
    <3>2. k \in 0 .. x - 1 \/ (k = x /\ y = x + 1)
      BY <2>3, <3>1, OneTurn
    <3>3. CASE k \in 0 .. x - 1
      BY <2>1, <2>3, <3>3 DEF LiveInv, Filled, Ended
    <3>4. CASE k = x /\ y = x + 1
      BY <2>1, <2>3, <3>4 DEF Filled
    <3>5. QED
      BY <3>2, <3>3, <3>4
  <2>7. QED
    BY <2>5, <2>6 DEF LiveInv
<1>6. CASE GrabEnvp
  <2>1. pc = "path" /\ ptr["path"] = "null" /\ dir = << >> /\ UNCHANGED at
    BY <1>6 DEF GrabEnvp, OrderInv
  <2>2. /\ ptr' \in {[ptr EXCEPT !["path"] = "null"], [ptr EXCEPT !["path"] = "set"]}
        /\ live \subseteq live'
        /\ \A b \in live' : \/ b \in live
                            \/ b = <<"path">> /\ ptr' = [ptr EXCEPT !["path"] = "set"]
                            \/ \E i \in DOMAIN dir' : /\ b = <<"path", i>> /\ dir'[i] # "null"
                                                     /\ ptr' = [ptr EXCEPT !["path"] = "set"]
        /\ UNCHANGED <<mode, child, found>>
    BY <1>6 DEF GrabEnvp, WithSlash, search
  <2>3. "path" \in Fields /\ "cmds" # "path" /\ "cmd_args" # "path" /\ ptr \in [Fields -> {"unset", "null", "set"}]
        /\ {"cmds", "cmd_args"} \subseteq Fields
    BY DEF Fields, Early, TypeOK
  <2>4. /\ \A f \in Fields : ptr[f] = "set" => ptr'[f] = "set"
        /\ ptr' = [ptr EXCEPT !["path"] = "set"] => ptr'["path"] = "set"
    BY <2>1, <2>2, <2>3
  <2>5. ASSUME NEW b \in live' PROVE Owned(b)'
    <3>1. CASE b \in live
      <4>1. Owned(b)
        BY <2>1, <3>1 DEF LiveInv, Ended
      <4>2. at' = at /\ DOMAIN dir = {}
        BY <2>1
      <4>3. QED
        BY <2>2, <2>3, <2>4, <4>1, <4>2 DEF Owned, here_doc
    <3>2. CASE b \notin live
      BY <2>2, <2>3, <2>4, <3>2 DEF Owned
    <3>3. QED
      BY <3>1, <3>2
  <2>6. \A k \in 0 .. at' - 1 : Filled(k)'
    BY <2>1, <2>2 DEF LiveInv, Filled, Ended
  <2>7. QED
    BY <2>5, <2>6 DEF LiveInv
<1>7. CASE CleanupExit \/ Ended'
  BY <1>7 DEF CleanupExit, LiveInv, Ended
<1>8. QED
  BY <1>0, <1>1, <1>2, <1>3, <1>4, <1>5, <1>6, <1>7
     DEF Next, OnlyOn, Ended, Pipes, CmdsParsed, GrabNothing, Leave

(* What LeftBehind lets a process keep. *)
Kept(b) ==
  \/ b = <<"cmdpath">> /\ child > 0 /\ found > 0
  \/ b = <<"stbuff">> /\ mode = here_doc
  \/ \E i, j \in DOMAIN dir : b = <<"path", i>> /\ j < i /\ dir[j] = "null"

(* ft_cleanup_exit frees whatever it may not keep. *)
LEMMA FreedAll ==
  ASSUME TypeOK, LiveInv, pc = "leave"
  PROVE  \A b \in live \ UNION {Freed(f) : f \in Fields} : Kept(b)
<1>1. SUFFICES ASSUME NEW b \in live, ~Kept(b) PROVE \E f \in Fields : b \in Freed(f)
  OBVIOUS
<1>2. Owned(b) /\ \A k \in 0 .. at - 1 : Filled(k)
  BY DEF LiveInv, Ended
<1>3. at \in Nat
  BY MaxIs DEF TypeOK
<1>4. {"path", "cmds", "cmd_args"} \subseteq Fields
  BY DEF Fields, Early
<1>5. CASE \E f \in Fields : b = <<f>> /\ ptr[f] = "set"
  <2>1. PICK f \in Fields : b = <<f>> /\ ptr[f] = "set"
    BY <1>5
  <2>2. b \in Freed(f)
    BY <2>1 DEF Freed, Free2dPath, Free2dCmds, Free3d
  <2>3. QED
    BY <2>2
<1>6. CASE \E i \in DOMAIN dir : b = <<"path", i>> /\ dir[i] # "null" /\ ptr["path"] = "set"
  <2>1. PICK i \in DOMAIN dir : b = <<"path", i>> /\ dir[i] # "null" /\ ptr["path"] = "set"
    BY <1>6
  <2>2. DOMAIN dir = 1 .. Len(dir) /\ Len(dir) \in Nat
    BY LenProperties DEF TypeOK
  <2>3. i \in Listed
    <3>1. \A j \in 1 .. i : j \in DOMAIN dir /\ (j = i \/ j < i)
      BY <2>2
    <3>2. \A j \in 1 .. i : dir[j] # "null"
      BY <1>1, <2>1, <3>1 DEF Kept
    <3>3. QED
      BY <3>2 DEF Listed
  <2>4. b \in Freed("path")
    BY <2>1, <2>3 DEF Freed, Free2dPath
  <2>5. QED
    BY <1>4, <2>4
<1>7. CASE \E k \in 0 .. at - 1 : b = <<"cmds", k>> /\ ptr["cmds"] = "set"
  <2>1. PICK k \in 0 .. at - 1 : b = <<"cmds", k>> /\ ptr["cmds"] = "set"
    BY <1>7
  <2>2. \A j \in 0 .. k : j \in 0 .. at - 1
    BY <1>3
  <2>3. \A j \in 0 .. k : <<"cmds", j>> \in live
    BY <1>2, <2>2 DEF Filled
  <2>4. b[1] = "cmds" /\ Len(b) = 2 /\ b[2] = k
    BY <2>1
  <2>5. b \in Free2dCmds
    BY <2>3, <2>4 DEF Free2dCmds
  <2>6. b \in Freed("cmds")
    BY <2>1, <2>5 DEF Freed
  <2>7. QED
    BY <1>4, <2>6
<1>8. CASE \E k \in 0 .. at : /\ b = <<"cmd_args", k>> \/ \E j \in Nat : b = <<"cmd_args", k, j>>
                              /\ ptr["cmd_args"] = "set"
                              /\ k = at => <<"cmd_args", at>> \in live
  <2>1. PICK k \in 0 .. at : /\ b = <<"cmd_args", k>> \/ \E j \in Nat : b = <<"cmd_args", k, j>>
                             /\ ptr["cmd_args"] = "set"
                             /\ k = at => <<"cmd_args", at>> \in live
    BY <1>8
  <2>2. ASSUME NEW j \in 0 .. k PROVE <<"cmd_args", j>> \in live
    <3>1. j \in 0 .. at - 1 \/ (j = at /\ k = at)
      BY <1>3
    <3>2. QED
      BY <1>2, <2>1, <3>1 DEF Filled
  <2>3. b[1] = "cmd_args" /\ Len(b) > 1 /\ b[2] = k
    BY <2>1
  <2>4. b \in Free3d
    BY <2>2, <2>3 DEF Free3d
  <2>5. b \in Freed("cmd_args")
    BY <2>1, <2>4 DEF Freed
  <2>6. QED
    BY <1>4, <2>5
<1>9. QED
  BY <1>1, <1>2, <1>5, <1>6, <1>7, <1>8 DEF Owned, Kept

(* What is left allocated at the end. *)
LEMMA LeftStep ==
  ASSUME TypeOK, OrderInv, SearchInv, LiveInv, LeftBehind, [Next]_vars
  PROVE  LeftBehind'
<1>1. CASE CleanupExit
  <2>1. SUFFICES ASSUME pc' = "exited" PROVE \A b \in live' : Kept(b)'
    BY DEF LeftBehind, Kept
  <2>2. /\ pc = "leave" /\ live' = live \ UNION {Freed(f) : f \in Fields}
        /\ UNCHANGED <<child, found, mode, dir>>
    BY <1>1, <2>1 DEF CleanupExit, search
  <2>3. \A b \in live' : Kept(b)
    BY <2>2, FreedAll
  <2>4. QED
    BY <2>2, <2>3 DEF Kept, here_doc
<1>2. CASE Pipes \/ ValidateArgs
  BY <1>2 DEF Pipes, ValidateArgs, OrderInv, LeftBehind
<1>3. CASE SetParseEnv \/ AllocTPipex \/ ParseCmd \/ CmdsParsed \/ GrabEnvp \/ GrabNothing \/ Leave
  BY <1>3 DEF SetParseEnv, AllocTPipex, ParseCmd, CmdsParsed, GrabEnvp, GrabNothing, Leave, LeftBehind
<1>4. CASE Input \/ OpenFails \/ (\E n \in 1 .. MaxCmds : SearchCmd(n)) \/ Exec
  <2>1. Ready
    BY <1>4, ReadyActions
  <2>2. QED
    BY <2>1 DEF Ready, LeftBehind
<1>5. CASE UNCHANGED vars
  <2>1. UNCHANGED <<pc, live, child, found, mode, dir>>
    BY <1>5 DEF vars, search
  <2>2. QED
    BY <2>1 DEF LeftBehind, here_doc
<1>6. QED
  BY <1>1, <1>2, <1>3, <1>4, <1>5 DEF Next

(* The search of one child, in the directories in front of the first NULL. *)
LEMMA SearchFinds ==
  ASSUME TypeOK, SearchInv, SetInv, ReadyInv, pc = "run", NEW n \in 1 .. MaxCmds, SearchCmd(n)
  PROVE  FirstInPath'
<1>1. found = -1 /\ dir' = dir /\ holds' \subseteq DOMAIN Dirs
  BY DEF SearchInv, Ended, SearchCmd
<1>2. DOMAIN dir = 1 .. Len(dir) /\ Len(dir) \in Nat
  BY LenProperties DEF TypeOK
<1>3. CASE found' = found
  BY <1>1, <1>3 DEF FirstInPath
<1>4. ASSUME ~SearchCrashes(n)
      PROVE  DOMAIN dir = DOMAIN Dirs /\ \A i \in DOMAIN dir : dir[i] \in {"slash", "null"}
  <2>1. ptr["path"] = "set"
    BY <1>4 DEF SearchCrashes, SetInv, Early, TypeOK, Fields
  <2>2. QED
    BY <2>1 DEF ReadyInv
<1>5. ASSUME ~SearchCrashes(n), NEW i \in holds', i \notin {h \in Listed \cap holds' : dir[h] = "slash"}
      PROVE  \E j \in DOMAIN dir : j <= i /\ dir[j] = "null"
  <2>1. i \in DOMAIN dir
    BY <1>1, <1>4, <1>5
  <2>2. PICK j \in 1 .. i : dir[j] = "null"
    <3>1. i \in 1 .. i
      BY <1>2, <2>1
    <3>2. i \notin Listed \/ dir[i] = "null"
      BY <1>4, <1>5, <2>1
    <3>3. QED
      BY <2>1, <3>1, <3>2 DEF Listed
  <2>3. j \in DOMAIN dir /\ j <= i
    BY <1>2, <2>1
  <2>4. QED
    BY <2>2, <2>3
<1>6. ASSUME ~SearchCrashes(n), found' = 0, {h \in Listed \cap holds' : dir[h] = "slash"} = {}
      PROVE  FirstInPath'
  BY <1>1, <1>5, <1>6 DEF FirstInPath
<1>7. ASSUME ~SearchCrashes(n), found' \in {h \in Listed \cap holds' : dir[h] = "slash"},
             \A i \in {h \in Listed \cap holds' : dir[h] = "slash"} : found' <= i
      PROVE  FirstInPath'
  <2>1. PICK x \in DOMAIN dir : x = found' /\ x \in Listed /\ x > 0
    BY <1>2, <1>7 DEF Listed
  <2>2. ASSUME NEW i \in holds' PROVE x <= i
    <3>1. CASE i \in {h \in Listed \cap holds' : dir[h] = "slash"}
      BY <1>7, <2>1, <3>1
    <3>2. CASE i \notin {h \in Listed \cap holds' : dir[h] = "slash"}
      <4>1. PICK j \in DOMAIN dir : j <= i /\ dir[j] = "null"
        BY <1>5, <1>7, <3>2
      <4>2. i \in DOMAIN dir
        BY <1>1, <1>4, <1>7
      <4>3. j \notin 1 .. x
        BY <2>1, <4>1 DEF Listed
      <4>4. QED
        BY <1>2, <2>1, <4>1, <4>2, <4>3
    <3>3. QED
      BY <3>1, <3>2
  <2>3. found' > 0 /\ found' \in holds'
    BY <1>7, <2>1
  <2>4. QED
    BY <2>1, <2>2, <2>3 DEF FirstInPath
<1>8. QED
  BY <1>3, <1>6, <1>7 DEF SearchCmd

(* A child runs the first command that PATH has. *)
LEMMA FindsStep ==
  ASSUME TypeOK, OrderInv, SearchInv, SetInv, ReadyInv, FirstInPath, [Next]_vars
  PROVE  FirstInPath'
<1>1. ASSUME NEW n \in 1 .. MaxCmds, SearchCmd(n) PROVE FirstInPath'
  BY <1>1, SearchFinds DEF SearchCmd
<1>2. CASE UNCHANGED <<dir, found, holds>>
  BY <1>2 DEF FirstInPath
<1>3. CASE GrabEnvp
  <2>1. found' = -1
    BY <1>3 DEF GrabEnvp, search, SearchInv, Ended
  <2>2. QED
    BY <2>1 DEF FirstInPath
<1>4. QED
  BY <1>1, <1>2, <1>3
     DEF Next, vars, search, Pipes, ValidateArgs, SetParseEnv, AllocTPipex, ParseCmd, CmdsParsed,
         GrabNothing, Input, Leave, OpenFails, Exec, CleanupExit

(* In a pipeline that was started without a failure no search meets a NULL. *)
LEMMA NothingMissing ==
  ASSUME TypeOK, LiveInv, ReadyInv, pc = "run", short = {},
         \A k \in 0 .. nb_cmds - 1 : words[k] > 0, NEW n \in 1 .. MaxCmds, n <= nb_cmds
  PROVE  ~SearchCrashes(n)
<1>1. ptr["path"] = "set" /\ at = nb_cmds
  BY DEF ReadyInv
<1>2. nb_cmds \in Nat /\ n - 1 \in 0 .. nb_cmds - 1
  BY MaxIs DEF TypeOK
<1>3. Filled(n - 1)
  BY <1>1, <1>2 DEF LiveInv, Ended
<1>4. QED
  BY <1>1, <1>3 DEF SearchCrashes, Filled

(* A child that dies has met a NULL, or frees what was never set. *)
LEMMA CrashStep ==
  ASSUME TypeOK, SearchInv, SetInv, LiveInv, ReadyInv, CrashHasCause, [Next]_vars
  PROVE  CrashHasCause'
<1>1. ASSUME NEW n \in 1 .. MaxCmds, SearchCmd(n) PROVE CrashHasCause'
  <2>1. pc = "run" /\ UNCHANGED <<nb_cmds, words>> /\ n \in 1 .. nb_cmds
    BY <1>1 DEF SearchCmd, args
  <2>2. pc' = "crashed" => SearchCrashes(n) /\ short' = short
    BY <1>1 DEF SearchCmd
  <2>3. n <= nb_cmds /\ \A k \in 0 .. nb_cmds - 1 : words[k] > 0 \/ words[k] = 0
    <3>1. nb_cmds \in 0 .. MaxCmds /\ MaxCmds \in Nat /\ \A k \in 0 .. MaxCmds - 1 : words[k] \in Nat
      BY MaxIs, StartupAssumption DEF TypeOK
    <3>2. QED
      BY <2>1, <3>1
  <2>4. QED
    BY <2>1, <2>2, <2>3, NothingMissing DEF CrashHasCause
<1>2. CASE CleanupExit
  <2>1. pc = "leave" /\ short' = short
        /\ (pc' = "crashed" => \E f \in Fields : ptr[f] = "unset")
    BY <1>2 DEF CleanupExit
  <2>2. pc' = "crashed" => short' = {"name"}
    BY <2>1 DEF SetInv
  <2>3. QED
    BY <2>2 DEF CrashHasCause
<1>3. CASE Input \/ GrabNothing
  <2>1. child' = 0
    BY <1>3 DEF Input, GrabNothing, SearchInv, Ended, search
  <2>2. QED
    BY <2>1 DEF CrashHasCause
<1>4. CASE UNCHANGED vars
  BY <1>4 DEF vars, search, args, CrashHasCause
<1>5. CASE pc' # "crashed"
  BY <1>5 DEF CrashHasCause
<1>6. QED
  BY <1>1, <1>2, <1>3, <1>4, <1>5
     DEF Next, Pipes, ValidateArgs, SetParseEnv, AllocTPipex, ParseCmd, CmdsParsed, GrabEnvp,
         Leave, OpenFails, Exec

-----------------------------------------------------------------------------
(* ft_init_env. *)
LEMMA InitHolds ==
  ASSUME Init
  PROVE  Inv
<1>1. MaxCmds \in Nat
  BY MaxIs
<1>2. TypeOK
  <2>1. slots \in [Fields -> 0 .. MaxCmds + 2] /\ ptr \in [Fields -> {"unset", "null", "set"}] /\ 0 \in 0 .. MaxCmds
    BY <1>1 DEF Init
  <2>2. << >> \in Seq({"plain", "slash", "null"})
    OBVIOUS
  <2>3. QED
    BY <2>1, <2>2 DEF Init, TypeOK
<1>3. OrderInv
  BY DEF Init, OrderInv, Six, Fields, Early, Late
<1>4. SetInv /\ SearchInv
  BY DEF Init, SetInv, SearchInv, Fields, Allocated
<1>5. LiveInv
  <2>1. \A k \in 0 .. at - 1 : FALSE
    BY DEF Init
  <2>2. QED
    BY <2>1 DEF Init, LiveInv
<1>6. LeftBehind /\ ReadyInv /\ FirstInPath /\ CrashHasCause
  <2>1. DOMAIN << >> = {}
    OBVIOUS
  <2>2. QED
    BY <2>1 DEF Init, LeftBehind, ReadyInv, FirstInPath, CrashHasCause, Fields, Early
<1>7. QED
  BY <1>2, <1>3, <1>4, <1>5, <1>6 DEF Inv

(* Every reachable state satisfies the invariant. *)
LEMMA Invariance == Spec => []Inv
<1>1. Init => Inv
  BY InitHolds
<1>2. Inv /\ [Next]_vars => Inv'
  BY TypeStep, OrderStep, SearchStep, SetStep, LiveStep, LeftStep, ReadyStep, FindsStep, CrashStep
  DEF Inv
<1>3. QED
  BY <1>1, <1>2, PTL DEF Spec

(***************************************************************************)
(* Whichever allocations fail, parent and child leave nothing of the       *)
(* struct allocated but directories behind one whose copy failed, and      *)
(* outside it only the name of a command that could not be run and the     *)
(* look-ahead of the here_doc input.                                       *)
(***************************************************************************)
THEOREM LeftBehindCorrect == Spec => []LeftBehind
BY Invariance, PTL DEF Inv

(***************************************************************************)
(* A command is run from the first directory that has it, for any PATH; it *)
(* is missed only behind a directory whose copy failed, and a child dies   *)
(* of its search only after a failure or for an argument without a word.   *)
(***************************************************************************)
THEOREM FindsFirstCorrect == Spec => []FindsFirst
BY Invariance, PTL DEF Inv, FindsFirst

(* ft_cleanup_exit reads pointers that were set, but for one way to it. *)
THEOREM AllSetCorrect == Spec => []AllSet
<1>1. Inv => AllSet
  BY DEF Inv, SetInv, AllSet
<1>2. QED
  BY <1>1, Invariance, PTL

(* The arrays have room for every command, however many there are. *)
THEOREM StructCorrect == Spec => []StructInv
<1>1. Inv => StructInv
  <2>1. SUFFICES ASSUME Inv, pc = "run"
                 PROVE  /\ \A f \in {"child_pids", "child_ret"} : nb_cmds <= slots[f]
                        /\ \A f \in {"cmds", "cmd_args"} : nb_cmds < slots[f]
    BY DEF Inv, StructInv, RoomForAll
  <2>2. PICK n \in Nat, m \in 0 .. 2 : n = nb_cmds /\ m = mode
    <3>1. nb_cmds \in 0 .. MaxCmds /\ mode \in 0 .. 2
      BY <2>1 DEF Inv, TypeOK
    <3>2. QED
      BY <3>1, MaxIs
  <2>3. \A f \in Six : slots[f] = Length(f)
    BY <2>1 DEF Inv, SetInv, Allocated
  <2>4. /\ \A f \in {"child_pids", "child_ret"} : slots[f] = n - m + 2
        /\ \A f \in {"cmds", "cmd_args"} : slots[f] = n + 1
    BY <2>2, <2>3 DEF Six, Length
  <2>5. n <= n - m + 2 /\ n < n + 1
    BY <2>2
  <2>6. QED
    BY <2>2, <2>4, <2>5
<1>2. QED
  BY <1>1, Invariance, PTL
=============================================================================
