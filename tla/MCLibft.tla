------------------------------ MODULE MCLibft ------------------------------
(* Values to model-check Libft with. *)
EXTENDS Libft

FewFormats == BoundedSeq(P!Letters, 3) \cup {<<"%", a, "%", b>> : a, b \in P!Letters}
=============================================================================
