----------------------------- MODULE MCMetadata -----------------------------
(* A small instance of Metadata. *)
EXTENDS Metadata

CONSTANTS npm, pypi, team, two

MCSeeds == <<npm>>

\* The group named "2" is taken for the group with id 2.
MCNumeral == [n \in Repository \cup Group |-> IF n = two THEN 2 ELSE 0]

=============================================================================
