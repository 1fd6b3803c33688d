------------------------------- MODULE MCNames -------------------------------
(* Spelling with one letter in two cases. *)
EXTENDS Spelling

MCLowerOf == "A" :> "a"

=============================================================================
