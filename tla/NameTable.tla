------------------------------ MODULE NameTable ------------------------------
(***************************************************************************)
(* A table of metadata-service with an id that a BIGSERIAL sequence hands  *)
(* out and a UNIQUE name: the repositories and the package groups, whose   *)
(* statements are the same.  An action is one SQL statement, and leaves    *)
(* the table as it was where the code answers ErrNotFound or ErrDuplicate. *)
(***************************************************************************)
EXTENDS Naturals, Sequences

CONSTANTS
  Names,    \* values of the name column
  NoName,   \* the name of an id without a row
  Numeral,  \* name -> the number it spells if it is all digits, or 0
  Seeds,    \* the names the migration inserts, in order
  MaxId     \* bound: ids the sequence hands out

VARIABLES rows, seq

Ids == 1 .. MaxId

Exists(i)  == rows[i] # NoName
Free(n)    == \A i \in Ids : rows[i] # n
ByName(n)  == {i \in Ids : rows[i] = n}
ById(i)    == {j \in Ids : j = i /\ Exists(j)}

\* GET /{idOrName}: a path value of digits is an id, whatever names there are.
Get(n) == IF Numeral[n] # 0 THEN ById(Numeral[n]) ELSE ByName(n)

\* INSERT of some names: the sequence advances even for a name that is taken.
Insert(names) ==
  /\ seq + Len(names) <= MaxId
  /\ seq' = seq + Len(names)
  /\ rows' = [i \in Ids |->
       IF i \in seq + 1 .. seq + Len(names) /\ Free(names[i - seq])
       THEN names[i - seq] ELSE rows[i]]

Create(n) == Insert(<<n>>)

\* Mutant: no UNIQUE constraint on the name.
Update_NotUnique(i, n) ==
  /\ rows' = IF Exists(i) THEN [rows EXCEPT ![i] = n] ELSE rows
  /\ UNCHANGED seq

Update(i, n) ==
  /\ rows' = IF Exists(i) /\ (Free(n) \/ rows[i] = n) THEN [rows EXCEPT ![i] = n] ELSE rows
  /\ UNCHANGED seq

Delete(i) ==
  /\ rows' = [rows EXCEPT ![i] = NoName]
  /\ UNCHANGED seq

\* The table after the first migration.
Init ==
  /\ rows = [i \in Ids |-> IF i <= Len(Seeds) THEN Seeds[i] ELSE NoName]
  /\ seq = Len(Seeds)

\* ON CONFLICT (name) DO NOTHING: every boot runs the migration again.
Migrate == Insert(Seeds)

TypeOK ==
  /\ rows \in [Ids -> Names \cup {NoName}]
  /\ seq \in 0 .. MaxId

UniqueNames == \A i, j \in Ids : Exists(i) /\ rows[i] = rows[j] => i = j
IssuedOnly  == \A i \in Ids : Exists(i) => i <= seq

=============================================================================
