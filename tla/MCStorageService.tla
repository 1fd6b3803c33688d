-------------------------- MODULE MCStorageService --------------------------
(* A small instance: a key, and one below it. *)
EXTENDS StorageService, TLC

CONSTANTS a, ab, one, two, empty

NestedKey   == {a, ab}
NestedAbove == a :> {} @@ ab :> {a}

MCBlob == {one, two, empty}
MCSize == one :> 1 @@ two :> 2 @@ empty :> 0

\* Neither handlers nor unused temporary names can be told apart.
Names == Permutations(Worker) \cup Permutations(Temp)

=============================================================================
