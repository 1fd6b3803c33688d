---------------------------- MODULE MCNpmService ----------------------------
(* A small instance of NpmService. *)
EXTENDS NpmService, TLC

CONSTANTS acme_foo, at_acme_foo, acme, v1, v2, one, two, three

\* "acme-foo" goes where the header says, "@acme/foo" always under its scope,
\* where the two share their keys.
Clashing      == {acme_foo, at_acme_foo}
ClashingScope == acme_foo :> NoScope @@ at_acme_foo :> acme
ClashingSafe  == acme_foo :> acme_foo @@ at_acme_foo :> acme_foo

\* Publishes of the first version disagree.
Builds == [r \in RowId |-> IF r.version = v1 THEN {one, two} ELSE {three}]

Clients == Permutations(Publisher)

=============================================================================
