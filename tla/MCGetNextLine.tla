--------------------------- MODULE MCGetNextLine ---------------------------
(* Inputs to model-check GetNextLine with. *)
EXTENDS GetNextLine

TextInputs == BoundedSeq({"x", "nl"}, 3)
AllFaults == FaultKinds
=============================================================================
