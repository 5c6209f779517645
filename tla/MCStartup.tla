----------------------------- MODULE MCStartup -----------------------------
(* Values to model-check Startup with. *)
EXTENDS Startup

ThreeDirs == <<"plain", "slash", "plain">>
=============================================================================
