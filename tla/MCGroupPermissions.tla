------------------------- MODULE MCGroupPermissions -------------------------
(* A small instance of GroupPermissions. *)
EXTENDS GroupPermissions, TLC

CONSTANTS npm, team, two

MCSeeds == <<npm>>

\* The group named "2" is taken for the group with id 2.
MCNumeral == [n \in Repository \cup Group |-> IF n = two THEN 2 ELSE 0]

\* Nothing tells two users or two clerks apart.
ClerkUserSymmetry == Permutations(Clerk) \cup Permutations(User)

=============================================================================
