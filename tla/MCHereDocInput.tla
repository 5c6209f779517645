--------------------------- MODULE MCHereDocInput ---------------------------
(* Values to model-check HereDocInput with. *)
EXTENDS HereDocInput

\* texts in which the delimiter is a line, begins one, or stands in the middle of
\* one, and texts with zero bytes
DocInputs == BoundedSeq({"d", "x", "nl"}, 5) \cup BoundedSeq({"x", "nl", "nul"}, 4)
AllFaults == FaultKinds
TheDelimiter == <<"d", "x">>
=============================================================================
