----------------------------- MODULE PipexClaims -----------------------------
(***************************************************************************)
(* What comments and branches of the code say of pipex and the code does   *)
(* not do.  Each of these is violated by a run of TLC.                     *)
(***************************************************************************)
EXTENDS Pipex

(***************************************************************************)
(* The usage in pipex.c: "./pipex here_doc LIMITER cmd1 cmd2 outfile".     *)
(* When nothing is wrong with TEMP_FILE itself, cmd1 gets the text read    *)
(* up to LIMITER: ft_here_doc can open the file ft_here_doc_inp has        *)
(* written.                                                                *)
(***************************************************************************)
HereDocFeedsFirst == mode = "here_doc" => fate[0] # "no_file"

(***************************************************************************)
(* ft_errno_1_2_13 has a branch for the first command of a here_doc, which *)
(* names TEMP_FILE as the file that could not be opened.                   *)
(***************************************************************************)
HereDocBlamesTempFile ==
  mode = "here_doc" =>
    \A m \in reports : m[1] = 0 /\ fate[0] = "no_file" => m[2] = "TEMP_FILE"

(***************************************************************************)
(* ft_search_cmd checks whether the command given as an argument is valid: *)
(* an invalid one is answered with NULL and 127, it does not crash the     *)
(* child.                                                                  *)
(***************************************************************************)
InvalidCommandIsNotFound == \A k \in Cmds : fate[k] # "crashed"

=============================================================================
