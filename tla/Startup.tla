------------------------------ MODULE Startup ------------------------------
(***************************************************************************)
(* The memory of one process of pipex from ft_init_env to ft_cleanup_exit: *)
(* which pointer of struct s_pipex is not set yet, which is NULL, and which *)
(* blocks are live.  The process is the parent, or becomes the child for   *)
(* one command, with its own copy of the memory.  Every malloc may fail.   *)
(* A block is known by the place its pointer is kept in: <<"cmds">> is the *)
(* array, <<"cmds", 0>> the string in its first slot; outside the struct   *)
(* <<"cmdpath">> is what ft_search_cmd returns, and <<"stbuff">> the look-  *)
(* ahead of ft_get_next_line.                                              *)
(***************************************************************************)
EXTENDS Integers, FiniteSets, FiniteSetsExt, Sequences

CONSTANTS
  Argcs,      \* values of argc
  Words,      \* how many words a command argument may have
  Dirs        \* the directories of PATH: a sequence of "plain" and "slash"

ASSUME StartupAssumption ==
  /\ \E most \in Argcs : most \in Nat /\ most > 3 /\ Argcs \subseteq 0 .. most
  /\ Words \subseteq Nat
  /\ Dirs \in Seq({"plain", "slash"})

Early == {"delimiter", "infile", "outfile", "cmds", "cmd_args", "path"}  \* set by ft_init_env
Late  == {"cmd_ret", "child_ret", "child_pids"}                          \* not set by it
Fields == Early \cup Late

Others == {"cmdpath", "stbuff"}      \* kept outside the struct

VARIABLES
  argc, argv1,    \* argv1 is "flag" (here_doc), "begins" (here_doc...) or "other"
  words,          \* words[k]: the words of command k
  pc,             \* the next thing ft_pipex_init does
  mode, nb_cmds,
  at,             \* the i of ft_parse_cmds
  ptr,            \* ptr[f]: "unset", "null" or "set"
  slots,          \* slots[f]: length of the array f as allocated
  dir,            \* dir[i]: path[i], one of "plain", "slash", "null"
  live,           \* the blocks allocated and not freed
  short,          \* the calls that found no memory (history)
  child,          \* the command this process is the child for, from 1; 0 in the parent
  holds,          \* the directories of PATH in which that command is executable
  found           \* what ft_search_cmd returned: a directory, 0 for NULL, -1 not yet

search == <<child, holds, found>>

vars == <<argc, argv1, words, pc, mode, nb_cmds, at, ptr, slots, dir, live, short, search>>

args == <<argc, argv1, words>>

MaxCmds == Max(Argcs) - 3

(* The struct keeps its type: mode and counts stay within what argc allows. *)
TypeOK ==
  /\ argc \in Argcs /\ argv1 \in {"flag", "begins", "other"}
  /\ words \in [0 .. MaxCmds - 1 -> Words]
  /\ mode \in 0 .. 2 /\ nb_cmds \in 0 .. MaxCmds /\ at \in 0 .. MaxCmds
  /\ ptr \in [Fields -> {"unset", "null", "set"}]
  /\ slots \in [Fields -> 0 .. MaxCmds + 2]
  /\ dir \in Seq({"plain", "slash", "null"})
  /\ \A b \in live : b[1] \in Fields \cup Others
  /\ pc \in {"pipes", "args", "env", "alloc", "cmds", "path", "input", "run", "exec", "leave",
             "exited", "crashed", "replaced"}
  /\ child \in 0 .. MaxCmds /\ holds \subseteq DOMAIN Dirs /\ found \in {-1, 0} \cup holds

\* ft_init_env
Init ==
  /\ argc \in Argcs /\ argv1 \in {"flag", "begins", "other"}
  /\ words \in [0 .. MaxCmds - 1 -> Words]
  /\ pc = "pipes" /\ mode = 0 /\ nb_cmds = 0 /\ at = 0
  /\ ptr = [f \in Fields |-> IF f \in Early THEN "null" ELSE "unset"]
  /\ slots = [f \in Fields |-> 0]
  /\ dir = << >> /\ live = {} /\ short = {}
  /\ child = 0 /\ holds = {} /\ found = -1

-----------------------------------------------------------------------------
regular_case == 1
here_doc == 2

\* pipe() fails: exit(32)
Pipes ==
  /\ pc = "pipes" /\ pc' \in {"args", "exited"}
  /\ UNCHANGED <<args, mode, nb_cmds, at, ptr, slots, dir, live, short, search>>

\* ft_strncmp(argv[1], "here_doc", 8) == 0
IsFlag == argv1 \in {"flag", "begins"}

ValidateArgs ==
  /\ pc = "args"
  /\ IF argc < 5 \/ (IsFlag /\ argc # 6)
     THEN pc' = "exited" /\ UNCHANGED mode
     ELSE pc' = "env" /\ mode' = IF IsFlag THEN here_doc ELSE regular_case
  /\ UNCHANGED <<args, nb_cmds, at, ptr, slots, dir, live, short, search>>

CmdCount == argc - 3 - (IF mode = here_doc THEN 1 ELSE 0)

SetParseEnv ==
  LET f == IF mode = here_doc THEN "delimiter" ELSE "infile" IN
  /\ pc = "env"
  /\ nb_cmds' = CmdCount
  /\ \/ /\ pc' = "alloc" /\ ptr' = [ptr EXCEPT ![f] = "set"]
        /\ live' = live \cup {<<f>>} /\ UNCHANGED short
     \/ pc' = "leave" /\ short' = short \cup {"name"} /\ UNCHANGED <<ptr, live>>
  /\ UNCHANGED <<args, mode, at, slots, dir, search>>

\* mutant: the room for child_pids and child_ret is one too small
LengthLessOne(f) ==
  CASE f = "cmd_ret" -> nb_cmds + 2
    [] f \in {"child_ret", "child_pids"} -> nb_cmds - mode + 1
    [] f \in {"cmds", "cmd_args"} -> nb_cmds + 1
    [] OTHER -> 0

\* the lengths ft_alloc_t_pipex asks for; the outfile is no array
Length(f) ==
  CASE f = "cmd_ret" -> nb_cmds + 2
    [] f \in {"child_ret", "child_pids"} -> nb_cmds - mode + 2
    [] f \in {"cmds", "cmd_args"} -> nb_cmds + 1
    [] OTHER -> 0

Six == {"cmd_ret", "child_ret", "child_pids", "outfile", "cmd_args", "cmds"}

\* mutant: back at the first that fails; only cmd_ret comes before child_ret
TriedToFirst(none) ==
  IF "cmd_ret" \in none THEN {"cmd_ret"}
  ELSE IF "child_ret" \in none THEN {"cmd_ret", "child_ret"} ELSE Six

\* the allocations that are tried when those in none fail
Tried(none) == Six

AllocTPipex ==
  /\ pc = "alloc"
  /\ \E none \in SUBSET Six :
       LET made == Tried(none) \ none IN
       /\ ptr' = [f \in Fields |-> IF f \notin Tried(none) THEN ptr[f]
                                   ELSE IF f \in none THEN "null" ELSE "set"]
       /\ live' = live \cup {<<f>> : f \in made}
       /\ slots' = [f \in Fields |-> IF f \in made THEN Length(f) ELSE 0]
       /\ short' = IF none = {} THEN short ELSE short \cup {"struct"}
       /\ pc' = IF none = {} THEN "cmds" ELSE "leave"
  /\ UNCHANGED <<args, mode, nb_cmds, at, dir, search>>

\* one turn of the loop of ft_parse_cmds; its ENOMEM is not the -1 that
\* ft_pipex_init looks for, so that whatever comes next is "path"
ParseCmd ==
  LET n     == words[at]
      split == {<<"cmd_args", at>>} \cup {<<"cmd_args", at, j>> : j \in 0 .. n - 1}
  IN
  /\ pc = "cmds" /\ at < nb_cmds
  /\ \/ pc' = "path" /\ short' = short \cup {"split"} /\ UNCHANGED <<at, live>>
     \/ /\ n = 0
        /\ pc' = "path" /\ live' = live \cup split /\ UNCHANGED <<at, short>>
     \/ /\ n > 0
        /\ \/ at' = at + 1 /\ live' = live \cup split \cup {<<"cmds", at>>}
              /\ UNCHANGED <<pc, short>>
           \/ pc' = "path" /\ live' = live \cup split
              /\ short' = short \cup {"word"} /\ UNCHANGED at
  /\ UNCHANGED <<args, mode, nb_cmds, ptr, slots, dir, search>>

CmdsParsed ==
  /\ pc = "cmds" /\ at = nb_cmds /\ pc' = "path"
  /\ UNCHANGED <<args, mode, nb_cmds, at, ptr, slots, dir, live, short, search>>

\* mutant: ft_strjoin(paths[i], "\0/")
WithSlashBehindZero(d) == d

WithSlash(d) == "slash"

\* ft_grab_envp: a directory without a slash is copied to get one; the copies
\* that fail leave NULL, and the loop goes on behind it
GrabEnvp ==
  /\ pc = "path"
  /\ pc' = IF mode = here_doc THEN "input" ELSE "run"
  /\ \/ /\ ptr' = [ptr EXCEPT !["path"] = "null"]
        /\ short' = short \cup {"path"} /\ UNCHANGED <<dir, live>>
     \/ \E none \in SUBSET {i \in DOMAIN Dirs : Dirs[i] = "plain"} :
        /\ ptr' = [ptr EXCEPT !["path"] = "set"]
        /\ dir' = [i \in DOMAIN Dirs |-> IF i \in none THEN "null" ELSE WithSlash(Dirs[i])]
        /\ live' = live \cup {<<"path">>} \cup {<<"path", i>> : i \in DOMAIN Dirs \ none}
        /\ short' = IF none = {} THEN short ELSE short \cup {"dir"}
  /\ UNCHANGED <<args, mode, nb_cmds, at, slots, search>>

\* no PATH= in the environment: ft_split is given &NULL[5]
GrabNothing ==
  /\ pc = "path" /\ pc' = "crashed"
  /\ UNCHANGED <<args, mode, nb_cmds, at, ptr, slots, dir, live, short, search>>

\* ft_here_doc_inp: the text read behind the last line may stay in the static buffer
\* of ft_get_next_line, which dies if ft_read finds no memory
Input ==
  /\ pc = "input"
  /\ \/ pc' = "leave" /\ UNCHANGED live
     \/ pc' = "run" /\ live' \in {live, live \cup {<<"stbuff">>}}
     \/ pc' = "crashed" /\ UNCHANGED live
  /\ UNCHANGED <<args, mode, nb_cmds, at, ptr, slots, dir, short, search>>

-----------------------------------------------------------------------------
\* the parent, after ft_wait_error or a first fork that failed
Leave ==
  /\ pc = "run" /\ pc' = "leave"
  /\ UNCHANGED <<args, mode, nb_cmds, at, ptr, slots, dir, live, short, search>>

\* a child that cannot open its file
OpenFails ==
  /\ pc = "run" /\ pc' = "leave" /\ child' \in {1, nb_cmds}
  /\ UNCHANGED <<args, mode, nb_cmds, at, ptr, slots, dir, live, short, holds, found>>

\* the entries in front of the first NULL, as ft_search_cmd and ft_free_2d see them
Listed == {i \in DOMAIN dir : \A j \in 1 .. i : dir[j] # "null"}

\* path[0] of a NULL path, or the NULL in cmds that ft_strjoin reads
SearchCrashes(n) == ptr["path"] = "null" \/ (Listed # {} /\ <<"cmds", n - 1>> \notin live)

\* ft_search_cmd in the child for command n; the names it tries and frees again leave
\* nothing, the one it returns is not freed any more
SearchCmd(n) ==
  /\ pc = "run" /\ n \in 1 .. nb_cmds
  /\ child' = n /\ holds' \in SUBSET DOMAIN Dirs
  /\ LET hits == {i \in Listed \cap holds' : dir[i] = "slash"} IN
     \/ SearchCrashes(n) /\ pc' = "crashed" /\ UNCHANGED <<live, short, found>>
     \/ /\ ~SearchCrashes(n) /\ Listed # {}
        /\ pc' = "leave" /\ short' = short \cup {"search"} /\ UNCHANGED <<live, found>>
     \/ /\ ~SearchCrashes(n) /\ hits = {}
        /\ pc' = "leave" /\ found' = 0 /\ UNCHANGED <<live, short>>
     \/ /\ ~SearchCrashes(n) /\ pc' = "exec"
        /\ found' \in hits /\ \A i \in hits : found' <= i
        /\ live' = live \cup {<<"cmdpath">>} /\ UNCHANGED short
  /\ UNCHANGED <<args, mode, nb_cmds, at, ptr, slots, dir>>

\* execve: the command takes the place of this memory, or it cannot be run
Exec ==
  /\ pc = "exec"
  /\ \/ pc' = "replaced" /\ live' = {}
     \/ pc' = "leave" /\ UNCHANGED live
  /\ UNCHANGED <<args, mode, nb_cmds, at, ptr, slots, dir, short, search>>

-----------------------------------------------------------------------------
\* what ft_free_2d(path), ft_free_2d(cmds) and ft_free_3d(cmd_args) free
Free2dPath == {<<"path">>} \cup {<<"path", i>> : i \in Listed}
Free2dCmds ==
  {<<"cmds">>} \cup
  {b \in live : b[1] = "cmds" /\ Len(b) = 2 /\ \A j \in 0 .. b[2] : <<"cmds", j>> \in live}

\* mutant: the arrays of words are freed, the words are not
Free3dRows ==
  {<<"cmd_args">>} \cup
  {b \in live : b[1] = "cmd_args" /\ Len(b) = 2 /\ \A j \in 0 .. b[2] : <<"cmd_args", j>> \in live}

Free3d ==
  {<<"cmd_args">>} \cup
  {b \in live : b[1] = "cmd_args" /\ Len(b) > 1 /\ \A j \in 0 .. b[2] : <<"cmd_args", j>> \in live}

Freed(f) ==
  CASE ptr[f] # "set"  -> {}
    [] f = "path"      -> Free2dPath
    [] f = "cmds"      -> Free2dCmds
    [] f = "cmd_args"  -> Free3d
    [] OTHER           -> {<<f>>}

\* a pointer that was never set may hold anything: NULL, or what free() dies of
CleanupExit ==
  /\ pc = "leave"
  /\ \/ pc' = "exited" /\ live' = live \ UNION {Freed(f) : f \in Fields}
     \/ pc' = "crashed" /\ (\E f \in Fields : ptr[f] = "unset") /\ UNCHANGED live
  /\ UNCHANGED <<args, mode, nb_cmds, at, ptr, slots, dir, short, search>>

Next ==
  \/ Pipes \/ ValidateArgs \/ SetParseEnv \/ AllocTPipex \/ ParseCmd \/ CmdsParsed
  \/ GrabEnvp \/ GrabNothing \/ Input
  \/ Leave \/ OpenFails \/ (\E n \in 1 .. MaxCmds : SearchCmd(n)) \/ Exec
  \/ CleanupExit
  \/ pc \in {"exited", "crashed", "replaced"} /\ UNCHANGED vars

Spec == Init /\ [][Next]_vars

-----------------------------------------------------------------------------
(* Wherever an allocation failed, parent and child end with everything of  *)
(* the struct freed, and keep only the name of a command that could not be *)
(* run, the look-ahead of the here_doc input, and the directories of PATH  *)
(* behind one whose copy failed: the freeing loop stops at its NULL.       *)
LeftBehind ==
  pc = "exited" => \A b \in live :
    \/ b = <<"cmdpath">> /\ child > 0 /\ found > 0
    \/ b = <<"stbuff">> /\ mode = here_doc
    \/ \E i, j \in DOMAIN dir : b = <<"path", i>> /\ j < i /\ dir[j] = "null"

(* The directory a child has found is the first of PATH that has its       *)
(* command; it has found none only if none has it or the copy of a         *)
(* directory in front of it failed.                                        *)
FirstInPath ==
  /\ found > 0 => found \in holds /\ \A i \in holds : found <= i
  /\ found = 0 => \A i \in holds : \E j \in DOMAIN dir : j <= i /\ dir[j] = "null"

(* A pipeline that is started without a failure has all its commands.      *)
CrashHasCause ==
  pc = "crashed" /\ child > 0 => short # {} \/ \E k \in 0 .. nb_cmds - 1 : words[k] = 0

(* A child runs its command from the first directory of PATH that has it,  *)
(* and does not die on the way there unless an allocation failed or an     *)
(* argument has no word.                                                   *)
FindsFirst == FirstInPath /\ CrashHasCause

(* ft_cleanup_exit reads a pointer that was never set only if the copy of  *)
(* the infile or delimiter found no memory.                                *)
AllSet ==
  pc = "leave" /\ (\E f \in Fields : ptr[f] = "unset") => short = {"name"}

(* A pipeline that is started has room for the pid and the status of each  *)
(* command and for the NULL behind the last one, in both modes.            *)
RoomForAll ==
  pc = "run" =>
    /\ \A f \in {"child_pids", "child_ret"} : nb_cmds <= slots[f]
    /\ \A f \in {"cmds", "cmd_args"} : nb_cmds < slots[f]

(* The struct keeps its type, and the arrays in it their room.             *)
StructInv == TypeOK /\ RoomForAll
=============================================================================
