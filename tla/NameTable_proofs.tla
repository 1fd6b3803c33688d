--------------------------- MODULE NameTable_proofs ---------------------------
(***************************************************************************)
(* Each statement on a name table keeps its names unique and within the    *)
(* ids handed out, and never gives out again an id whose row is gone.      *)
(***************************************************************************)
EXTENDS NameTable, TLAPS

Valid == TypeOK /\ UniqueNames /\ IssuedOnly

Distinct(names) == \A i, j \in 1 .. Len(names) : names[i] = names[j] => i = j

\* Rows that are gone stay gone, and a row that is there is not removed.
Frozen == \A i \in Ids : i <= seq /\ ~Exists(i) => rows'[i] = NoName
Kept   == \A i \in Ids : Exists(i) => rows'[i] # NoName

\* The migration leaves a valid table, whatever names it inserts.
LEMMA InitValid ==
  ASSUME NoName \notin Names, MaxId \in Nat,
         Seeds \in Seq(Names), Distinct(Seeds), Len(Seeds) <= MaxId, Init
  PROVE  Valid
<1>1. Len(Seeds) \in Nat /\ \A i \in 1 .. Len(Seeds) : Seeds[i] \in Names
  OBVIOUS
<1>2. TypeOK
  BY <1>1 DEF Init, TypeOK, Ids
<1>3. \A i \in Ids : Exists(i) => i <= Len(Seeds) /\ rows[i] = Seeds[i]
  BY <1>1 DEF Init, Exists, Ids
<1>4. UniqueNames
  BY <1>1, <1>3 DEF UniqueNames, Distinct, Ids, Init
<1>5. IssuedOnly
  BY <1>3 DEF IssuedOnly, Init
<1> QED BY <1>2, <1>4, <1>5 DEF Valid

\* An INSERT of several names, some of them perhaps taken, creates rows only at
\* ids that have not been handed out.
LEMMA InsertSafe ==
  ASSUME NoName \notin Names, MaxId \in Nat, Valid,
         NEW names \in Seq(Names), Distinct(names), Insert(names)
  PROVE  Valid' /\ Frozen /\ Kept
<1> DEFINE new == seq + 1 .. seq + Len(names)
<1>1. /\ Len(names) \in Nat /\ seq \in Nat /\ seq' \in 0 .. MaxId
      /\ \A i \in new : i - seq \in 1 .. Len(names) /\ names[i - seq] \in Names
  BY DEF Valid, TypeOK, Insert
<1>2. \A i \in Ids : i \in Nat /\ rows[i] \in Names \cup {NoName}
  BY DEF Valid, TypeOK, Ids
<1>3. rows' = [i \in Ids |-> IF i \in new /\ Free(names[i - seq]) THEN names[i - seq] ELSE rows[i]]
  BY DEF Insert
<1> HIDE DEF new
<1>4. \A i \in Ids : rows'[i] = IF i \in new /\ Free(names[i - seq]) THEN names[i - seq] ELSE rows[i]
  BY <1>3
<1>5. TypeOK'
  <2>1. \A i \in Ids : rows'[i] \in Names \cup {NoName}
    BY <1>1, <1>2, <1>4
  <2> QED BY <2>1, <1>1, <1>3 DEF TypeOK, Ids
<1>6. \A i \in new : i > seq /\ i <= seq'
  BY <1>1 DEF Insert, new
<1>7. IssuedOnly'
  <2>1. seq <= seq'
    BY <1>1 DEF Insert
  <2>2. \A i \in Ids : rows[i] # NoName => i <= seq
    BY DEF Valid, IssuedOnly, Exists
  <2> QED BY <1>1, <1>2, <1>4, <1>6, <2>1, <2>2 DEF IssuedOnly, Exists, Ids
<1>8. UniqueNames'
  <2> SUFFICES ASSUME NEW i \in Ids, NEW j \in Ids, rows'[i] # NoName, rows'[i] = rows'[j]
               PROVE  i = j
    BY DEF UniqueNames, Exists, Ids
  <2>1. CASE i \in new /\ Free(names[i - seq]) /\ j \in new /\ Free(names[j - seq])
    <3>1. names[i - seq] = names[j - seq]
      BY <2>1, <1>4
    <3>2. i - seq = j - seq
      BY <3>1, <2>1, <1>1 DEF Distinct
    <3> QED BY <3>2, <1>1, <1>2
  <2>2. CASE i \in new /\ Free(names[i - seq]) /\ ~(j \in new /\ Free(names[j - seq]))
    BY <2>2, <1>4 DEF Free
  <2>3. CASE ~(i \in new /\ Free(names[i - seq])) /\ j \in new /\ Free(names[j - seq])
    BY <2>3, <1>4 DEF Free
  <2>4. CASE ~(i \in new /\ Free(names[i - seq])) /\ ~(j \in new /\ Free(names[j - seq]))
    BY <2>4, <1>4 DEF Valid, UniqueNames, Exists
  <2> QED BY <2>1, <2>2, <2>3, <2>4
<1>9. Frozen
  BY <1>1, <1>2, <1>4, <1>6 DEF Frozen, Exists
<1>10. Kept
  BY <1>1, <1>4 DEF Kept, Exists
<1> QED BY <1>5, <1>7, <1>8, <1>9, <1>10 DEF Valid

\* So does an UPDATE, which a name that is taken refuses.
LEMMA UpdateSafe ==
  ASSUME NoName \notin Names, Valid, NEW k \in Ids, NEW n \in Names, Update(k, n)
  PROVE  Valid' /\ Frozen /\ Kept
<1>1. CASE Exists(k) /\ (Free(n) \/ rows[k] = n)
  <2>1. rows' = [rows EXCEPT ![k] = n] /\ seq' = seq
    BY <1>1 DEF Update
  <2>2. \A i \in Ids : rows'[i] = IF i = k THEN n ELSE rows[i]
    BY <2>1 DEF Valid, TypeOK
  <2>3. TypeOK'
    BY <2>1 DEF Valid, TypeOK, Ids
  <2>4. UniqueNames'
    <3> SUFFICES ASSUME NEW i \in Ids, NEW j \in Ids, rows'[i] # NoName, rows'[i] = rows'[j]
                 PROVE  i = j
      BY DEF UniqueNames, Exists, Ids
    <3> QED BY <1>1, <2>2 DEF Valid, UniqueNames, Exists, Free
  <2>5. IssuedOnly'
    BY <1>1, <2>1, <2>2 DEF Valid, IssuedOnly, Exists, Ids
  <2> QED BY <1>1, <2>2, <2>3, <2>4, <2>5 DEF Valid, Frozen, Kept, Exists
<1>2. CASE ~(Exists(k) /\ (Free(n) \/ rows[k] = n))
  <2>1. rows' = rows /\ seq' = seq
    BY <1>2 DEF Update
  <2> QED BY <2>1 DEF Valid, TypeOK, UniqueNames, IssuedOnly, Exists, Frozen, Kept, Ids
<1> QED BY <1>1, <1>2

\* A DELETE removes the one row.
LEMMA DeleteSafe ==
  ASSUME Valid, NEW k \in Ids, Delete(k)
  PROVE  /\ Valid' /\ Frozen /\ rows'[k] = NoName
         /\ \A i \in Ids \ {k} : rows'[i] = rows[i]
<1>1. rows' = [rows EXCEPT ![k] = NoName] /\ seq' = seq
  BY DEF Delete
<1>2. \A i \in Ids : rows'[i] = IF i = k THEN NoName ELSE rows[i]
  BY <1>1 DEF Valid, TypeOK
<1>3. TypeOK'
  BY <1>1 DEF Valid, TypeOK, Ids
<1>4. UniqueNames'
  BY <1>2 DEF Valid, UniqueNames, Exists, Ids
<1>5. IssuedOnly'
  BY <1>1, <1>2 DEF Valid, IssuedOnly, Exists, Ids
<1> QED BY <1>2, <1>3, <1>4, <1>5 DEF Valid, Frozen, Exists

=============================================================================
