-------------------------- MODULE NpmService_proofs --------------------------
(***************************************************************************)
(* Proofs about NpmService: type correctness, every recorded version can   *)
(* be downloaded, records agree with the objects unless their publish was  *)
(* crossed, downloads with the documents unless publishes disagreed, and   *)
(* the documents are those of a Listing.                                   *)
(***************************************************************************)
EXTENDS NpmService, TLAPS

RowAt(p, v) == [name |-> publish[p].name, version |-> v, group |-> publish[p].group]

\* A publish in flight files what its client may publish, under rows that exist.
ShapeOf(p) ==
  publish[p].pc # "idle" =>
    /\ publish[p].name \in Name
    /\ \A v \in Version : RowAt(p, v) \in RowId
    /\ \A v \in DOMAIN publish[p].left :
         publish[p].left[v] \in Build[RowAt(p, v)] \cup {Absent}
    /\ Calling(p) => publish[p].version \in DOMAIN publish[p].left /\ Content(p) # Absent
PublishesOK == \A p \in Publisher : ShapeOf(p)

\* A row names its own key and the tarball of some publish of it.
RowsOK == \A r \in Recorded : package[r].storage_key = KeyOf(r) /\ package[r].integrity \in Build[r]

WireOK == \A m \in wire : m.tarball \in Build[m.row]

\* An object is there before the row that names it is sent.
StoredOK ==
  /\ \A r \in Recorded : blob[KeyOf(r)] # Absent
  /\ \A p \in Publisher : publish[p].pc = "record" => blob[KeyOf(RowOf(p))] # Absent
  /\ \A m \in wire : m.to = "record" => blob[KeyOf(m.row)] # Absent

\* A reader holds an integrity and a key of the same name and version.
ReadsVersion(c, r, s) ==
  /\ r.name = reader[c].name /\ s.name = reader[c].name /\ r.version = s.version
  /\ reader[c].integrity \in Build[r]
  /\ reader[c].key = KeyOf(s)
ReadersOK ==
  \A c \in Reader : reader[c].pc # "idle" =>
    /\ \E r, s \in RowId : ReadsVersion(c, r, s)
    /\ blob[reader[c].key] # Absent

IInv == StateOK /\ PublishesOK /\ RowsOK /\ WireOK /\ StoredOK /\ ReadersOK

-----------------------------------------------------------------------------
LEMMA KeyType == \A r \in RowId : KeyOf(r) \in Key
  BY DEF RowId, KeyOf, storageKey, Key, Safe

\* The row and the tarball of the call a publish has in flight.
LEMMA CallType ==
  ASSUME IInv, NEW p \in Publisher, Calling(p)
  PROVE  /\ RowOf(p) \in RowId
         /\ Content(p) \in Tarball
         /\ Content(p) \in Build[RowOf(p)]
<1>1. publish[p].pc # "idle" /\ ShapeOf(p)
  BY DEF IInv, PublishesOK, Calling
<1>2. DOMAIN publish[p].left \subseteq Version
  BY DEF IInv, StateOK, PublishRecord, Attachments
<1>3. publish[p].version \in DOMAIN publish[p].left /\ Content(p) # Absent
  BY <1>1 DEF ShapeOf
<1>4. RowOf(p) = RowAt(p, publish[p].version)
  BY DEF RowOf, RowAt
<1>5. RowOf(p) \in RowId
  BY <1>1, <1>2, <1>3, <1>4 DEF ShapeOf
<1>6. Content(p) \in Build[RowOf(p)]
  BY <1>1, <1>3, <1>4 DEF ShapeOf, Content
<1> QED
  BY <1>5, <1>6, NpmAssumption

LEMMA InitOK == Init => IInv
<1> SUFFICES ASSUME Init PROVE IInv
  OBVIOUS
<1> USE DEF Init
<1>1. [v \in {} |-> Absent] \in Attachments
  <2>1. [v \in {} |-> Absent] \in [{} -> Tarball \cup {Absent}] /\ {} \in SUBSET Version
    OBVIOUS
  <2> QED BY <2>1 DEF Attachments
<1>2. StateOK
  BY <1>1 DEF StateOK, PublishRecord, Idle, ReaderRecord, NotReading, Row, NoRow, WireCall
<1>3. Recorded = {}
  BY DEF Recorded
<1>4. PublishesOK /\ RowsOK /\ WireOK /\ StoredOK /\ ReadersOK
  BY <1>3 DEF PublishesOK, ShapeOf, RowsOK, WireOK, StoredOK, ReadersOK, Idle, NotReading
<1> QED BY <1>2, <1>4 DEF IInv

-----------------------------------------------------------------------------
(* One lemma per kind of step *)

LEMMA BeginOK ==
  ASSUME IInv, NEW p \in Publisher, NEW name \in Name, NEW header \in Header \cup {NoHeader},
         NEW left \in Attachments, Begin(p, name, header, left)
  PROVE  IInv'
<1> DEFINE group == packageGroup(name, header)
           new == [pc |-> "next", name |-> name, group |-> group, version |-> Absent, left |-> left]
<1>1. UNCHANGED <<blob, package, wire, reader, failures>> /\ publishes' = publishes + 1
  BY DEF Begin
<1>2. publish' = [publish EXCEPT ![p] = new]
  BY DEF Begin
<1>3. group \in Group
  BY DEF Group
<1>4. \A v \in Version : [name |-> name, version |-> v, group |-> group] \in RowId
  BY <1>3 DEF RowId
<1>5. new \in PublishRecord
  BY <1>3 DEF PublishRecord
<1>6. StateOK'
  BY <1>1, <1>2, <1>5 DEF IInv, StateOK
<1>7. ASSUME NEW q \in Publisher PROVE ShapeOf(q)'
  <2>1. CASE q = p
    <3>1. publish'[p] = new
      BY <1>2 DEF IInv, StateOK
    <3>2. \A v \in DOMAIN left :
            left[v] \in Build[[name |-> name, version |-> v, group |-> group]] \cup {Absent}
      BY DEF Begin
    <3> QED BY <2>1, <3>1, <3>2, <1>4 DEF ShapeOf, RowAt, Calling
  <2>2. CASE q # p
    BY <2>2, <1>2 DEF IInv, StateOK, PublishesOK, ShapeOf, RowAt, Calling, Content
  <2> QED BY <2>1, <2>2
<1>8. RowsOK' /\ WireOK' /\ ReadersOK'
  BY <1>1 DEF IInv, RowsOK, WireOK, ReadersOK, ReadsVersion, Recorded
<1>9. StoredOK'
  <2>1. \A q \in Publisher : publish'[q].pc = "record" => q # p
    BY <1>2 DEF IInv, StateOK
  <2>2. \A q \in Publisher \ {p} : publish'[q] = publish[q]
    BY <1>2 DEF IInv, StateOK
  <2> QED BY <1>1, <2>1, <2>2 DEF IInv, StoredOK, Recorded, RowOf
<1> QED BY <1>6, <1>7, <1>8, <1>9 DEF IInv, PublishesOK

LEMMA NextVersionOK ==
  ASSUME IInv, NEW p \in Publisher, NEW v \in Version, NextVersion(p, v)
  PROVE  IInv'
<1>1. UNCHANGED <<blob, package, wire, reader, publishes, failures>>
  BY DEF NextVersion
<1>2. \A q \in Publisher \ {p} : publish'[q] = publish[q]
  BY DEF NextVersion, IInv, StateOK
<1>3. publish[p].pc = "next" /\ v \in DOMAIN publish[p].left
  BY DEF NextVersion
<1>4. publish'[p] = IF publish[p].left[v] = Absent THEN Idle
                    ELSE [publish[p] EXCEPT !.pc = "upload", !.version = v]
  BY DEF NextVersion, IInv, StateOK
<1>5. publish[p] \in PublishRecord
  BY DEF IInv, StateOK
<1>6. Idle \in PublishRecord
  <2>1. [w \in {} |-> Absent] \in [{} -> Tarball \cup {Absent}] /\ {} \in SUBSET Version
    OBVIOUS
  <2>2. [w \in {} |-> Absent] \in Attachments
    BY <2>1 DEF Attachments
  <2> QED BY <2>2 DEF Idle, PublishRecord
<1>7. publish'[p] \in PublishRecord
  BY <1>4, <1>5, <1>6 DEF PublishRecord
<1>8. StateOK'
  BY <1>1, <1>7 DEF NextVersion, IInv, StateOK
<1>9. ShapeOf(p)'
  <2>1. CASE publish[p].left[v] = Absent
    BY <2>1, <1>4 DEF ShapeOf, Idle
  <2>2. CASE publish[p].left[v] # Absent
    <3>1. ShapeOf(p) /\ publish[p].pc # "idle"
      BY <1>3 DEF IInv, PublishesOK
    <3>2. /\ publish'[p].name = publish[p].name /\ publish'[p].group = publish[p].group
          /\ publish'[p].left = publish[p].left /\ publish'[p].version = v
      BY <2>2, <1>4, <1>5 DEF PublishRecord
    <3> QED BY <3>1, <3>2, <2>2, <1>3 DEF ShapeOf, RowAt, Content
  <2> QED BY <2>1, <2>2
<1>10. PublishesOK'
  BY <1>2, <1>9 DEF IInv, PublishesOK, ShapeOf, RowAt, Calling, Content
<1>11. RowsOK' /\ WireOK' /\ ReadersOK'
  BY <1>1 DEF IInv, RowsOK, WireOK, ReadersOK, ReadsVersion, Recorded
<1>12. StoredOK'
  <2>1. publish'[p].pc # "record"
    BY <1>4, <1>5 DEF Idle, PublishRecord
  <2> QED BY <1>1, <1>2, <2>1 DEF IInv, StoredOK, Recorded, RowOf
<1> QED BY <1>8, <1>10, <1>11, <1>12 DEF IInv

\* An upload overwrites, and removes nothing.
LEMMA StoreEffect ==
  ASSUME IInv, NEW r \in RowId, NEW t \in Tarball, Store(r, t)
  PROVE  /\ blob' \in [Key -> Tarball \cup {Absent}]
         /\ blob'[KeyOf(r)] = t
         /\ \A k \in Key \ {KeyOf(r)} : blob'[k] = blob[k]
         /\ \A k \in Key : blob[k] # Absent => blob'[k] # Absent
         /\ blob'[KeyOf(r)] # Absent
BY KeyType, NpmAssumption DEF IInv, StateOK, Store

\* An upsert records one more row, with its own key.
LEMMA UpsertEffect ==
  ASSUME IInv, NEW r \in RowId, NEW t \in Build[r], Upsert(r, t)
  PROVE  /\ package' \in [RowId -> Row \cup {NoRow}]
         /\ RowsOK'
         /\ Recorded' \subseteq Recorded \cup {r}
<1>1. t \in Tarball
  BY NpmAssumption
<1>2. [integrity |-> t, storage_key |-> KeyOf(r)] \in Row
  BY <1>1, KeyType DEF Row
<1>3. package' = [package EXCEPT ![r] = [integrity |-> t, storage_key |-> KeyOf(r)]]
  BY DEF Upsert
<1>4. \A s \in RowId \ {r} : package'[s] = package[s]
  BY <1>3 DEF IInv, StateOK
<1>5. package'[r] = [integrity |-> t, storage_key |-> KeyOf(r)]
  BY <1>3 DEF IInv, StateOK
<1> QED BY <1>2, <1>3, <1>4, <1>5 DEF IInv, StateOK, RowsOK, Recorded

\* What readers hold stays good while objects are only added.
LEMMA ReadersKept ==
  ASSUME IInv, \A k \in Key : blob[k] # Absent => blob'[k] # Absent, UNCHANGED reader
  PROVE  ReadersOK'
<1> SUFFICES ASSUME NEW c \in Reader, reader[c].pc # "idle"
             PROVE  /\ \E r, s \in RowId : ReadsVersion(c, r, s)
                    /\ blob'[reader[c].key] # Absent
  BY DEF ReadersOK, ReadsVersion
<1>1. PICK r \in RowId, s \in RowId : ReadsVersion(c, r, s)
  BY DEF IInv, ReadersOK
<1>2. reader[c].key \in Key
  BY <1>1, KeyType DEF ReadsVersion
<1> QED BY <1>1, <1>2 DEF IInv, ReadersOK

LEMMA UploadOK ==
  ASSUME IInv, NEW p \in Publisher, Upload(p)
  PROVE  IInv'
<1>1. UNCHANGED <<package, wire, reader, publishes, failures>>
  BY DEF Upload
<1>2. publish[p].pc = "upload" /\ Calling(p) /\ publish[p] \in PublishRecord
  BY DEF Upload, Calling, IInv, StateOK
<1>3. RowOf(p) \in RowId /\ Content(p) \in Tarball /\ Store(RowOf(p), Content(p))
  BY <1>2, CallType DEF Upload
<1>4. /\ blob' \in [Key -> Tarball \cup {Absent}]
      /\ \A k \in Key : blob[k] # Absent => blob'[k] # Absent
      /\ blob'[KeyOf(RowOf(p))] # Absent
  BY <1>3, StoreEffect
<1>5. /\ \A q \in Publisher \ {p} : publish'[q] = publish[q]
      /\ publish'[p] = [publish[p] EXCEPT !.pc = "record"]
      /\ publish' = [publish EXCEPT ![p] = publish'[p]]
  BY DEF Upload, IInv, StateOK
<1>6. publish'[p] \in PublishRecord
  BY <1>2, <1>5 DEF PublishRecord
<1>7. StateOK'
  BY <1>1, <1>4, <1>5, <1>6 DEF IInv, StateOK
<1>8. /\ publish'[p].name = publish[p].name /\ publish'[p].group = publish[p].group
      /\ publish'[p].left = publish[p].left /\ publish'[p].version = publish[p].version
  BY <1>2, <1>5 DEF PublishRecord
<1>9. PublishesOK'
  <2>1. ShapeOf(p)'
    BY <1>2, <1>8 DEF IInv, PublishesOK, ShapeOf, RowAt, Content, Calling
  <2> QED BY <2>1, <1>5 DEF IInv, PublishesOK, ShapeOf, RowAt, Calling, Content
<1>10. RowsOK' /\ WireOK'
  BY <1>1 DEF IInv, RowsOK, WireOK, Recorded
<1>11. StoredOK'
  <2>1. \A r \in Recorded' : blob'[KeyOf(r)] # Absent
    BY <1>1, <1>4, KeyType DEF IInv, StoredOK, Recorded
  <2>2. \A m \in wire' : m.to = "record" => blob'[KeyOf(m.row)] # Absent
    BY <1>1, <1>4, KeyType DEF IInv, StateOK, WireCall, StoredOK
  <2>3. ASSUME NEW q \in Publisher, publish'[q].pc = "record"
        PROVE  blob'[KeyOf(RowOf(q)')] # Absent
    <3>1. CASE q = p
      BY <3>1, <1>4, <1>8 DEF RowOf
    <3>2. CASE q # p
      <4>1. publish[q].pc = "record" /\ RowOf(q)' = RowOf(q)
        BY <2>3, <3>2, <1>5 DEF RowOf
      <4>2. RowOf(q) \in RowId
        BY <4>1, CallType DEF Calling
      <4> QED BY <4>1, <4>2, <1>4, KeyType DEF IInv, StoredOK
    <3> QED BY <3>1, <3>2
  <2> QED BY <2>1, <2>2, <2>3 DEF StoredOK, RowOf, KeyOf
<1> QED BY <1>1, <1>4, <1>7, <1>9, <1>10, <1>11, ReadersKept DEF IInv

LEMMA AddPackageOK ==
  ASSUME IInv, NEW p \in Publisher, AddPackage(p)
  PROVE  IInv'
<1> DEFINE rest == Without(publish[p].left, publish[p].version)
<1>1. UNCHANGED <<blob, wire, reader, publishes, failures>>
  BY DEF AddPackage
<1>2. publish[p].pc = "record" /\ Calling(p) /\ publish[p] \in PublishRecord
  BY DEF AddPackage, Calling, IInv, StateOK
<1>3. /\ RowOf(p) \in RowId /\ Content(p) \in Build[RowOf(p)]
      /\ Upsert(RowOf(p), Content(p))
  BY <1>2, CallType DEF AddPackage
<1>4. /\ package' \in [RowId -> Row \cup {NoRow}]
      /\ RowsOK'
      /\ Recorded' \subseteq Recorded \cup {RowOf(p)}
  BY <1>3, UpsertEffect
<1>5. /\ \A q \in Publisher \ {p} : publish'[q] = publish[q]
      /\ publish' = [publish EXCEPT ![p] = publish'[p]]
      /\ publish'[p] = IF DOMAIN rest = {} THEN Idle
                       ELSE [publish[p] EXCEPT !.pc = "next", !.left = rest]
  BY DEF AddPackage, IInv, StateOK
<1>6. rest \in Attachments
  <2>1. PICK V \in SUBSET Version : publish[p].left \in [V -> Tarball \cup {Absent}]
    BY <1>2 DEF PublishRecord, Attachments
  <2>2. rest \in [V \ {publish[p].version} -> Tarball \cup {Absent}]
    BY <2>1 DEF Without
  <2>3. V \ {publish[p].version} \in SUBSET Version
    OBVIOUS
  <2> HIDE DEF rest
  <2> QED BY <2>2, <2>3 DEF Attachments
<1>7. Idle \in PublishRecord
  <2>1. [w \in {} |-> Absent] \in [{} -> Tarball \cup {Absent}] /\ {} \in SUBSET Version
    OBVIOUS
  <2>2. [w \in {} |-> Absent] \in Attachments
    BY <2>1 DEF Attachments
  <2> QED BY <2>2 DEF Idle, PublishRecord
<1>8. publish'[p] \in PublishRecord
  <2> HIDE DEF rest
  <2> QED BY <1>2, <1>5, <1>6, <1>7 DEF PublishRecord
<1>9. StateOK'
  BY <1>1, <1>4, <1>5, <1>8 DEF IInv, StateOK
<1>10. ShapeOf(p)'
  <2>1. CASE DOMAIN rest = {}
    BY <2>1, <1>5 DEF ShapeOf, Idle
  <2>2. CASE DOMAIN rest # {}
    <3>1. /\ publish'[p].name = publish[p].name /\ publish'[p].group = publish[p].group
          /\ publish'[p].left = rest /\ publish'[p].pc = "next"
      BY <2>2, <1>2, <1>5 DEF PublishRecord
    <3>2. \A v \in DOMAIN rest : v \in DOMAIN publish[p].left /\ rest[v] = publish[p].left[v]
      BY DEF Without
    <3>3. ShapeOf(p)
      BY DEF IInv, PublishesOK
    <3> HIDE DEF rest
    <3> QED BY <3>1, <3>2, <3>3, <1>2 DEF ShapeOf, RowAt, Calling
  <2> QED BY <2>1, <2>2
<1>11. PublishesOK'
  BY <1>5, <1>10 DEF IInv, PublishesOK, ShapeOf, RowAt, Calling, Content
<1>12. WireOK' /\ ReadersOK'
  BY <1>1 DEF IInv, WireOK, ReadersOK, ReadsVersion
<1>13. StoredOK'
  <2>1. publish'[p].pc # "record"
    BY <1>2, <1>5 DEF Idle, PublishRecord
  <2>2. blob[KeyOf(RowOf(p))] # Absent
    BY <1>2 DEF IInv, StoredOK
  <2> QED BY <1>1, <1>4, <1>5, <2>1, <2>2 DEF IInv, StoredOK, RowOf
<1> QED BY <1>4, <1>9, <1>11, <1>12, <1>13 DEF IInv

LEMMA CallFailsOK ==
  ASSUME IInv, NEW p \in Publisher, CallFails(p)
  PROVE  IInv'
<1>1. UNCHANGED <<blob, package, reader, publishes>> /\ failures' = failures + 1
  BY DEF CallFails
<1>2. Calling(p) /\ wire' = wire \cup {CallOf(p)}
  BY DEF CallFails
<1>3. RowOf(p) \in RowId /\ Content(p) \in Tarball /\ Content(p) \in Build[RowOf(p)]
  BY <1>2, CallType
<1>4. CallOf(p) \in WireCall
  BY <1>2, <1>3 DEF CallOf, WireCall, Calling, IInv, StateOK
<1>5. /\ \A q \in Publisher \ {p} : publish'[q] = publish[q]
      /\ publish' = [publish EXCEPT ![p] = Idle]
      /\ publish'[p] = Idle
  BY DEF CallFails, IInv, StateOK
<1>6. Idle \in PublishRecord
  <2>1. [w \in {} |-> Absent] \in [{} -> Tarball \cup {Absent}] /\ {} \in SUBSET Version
    OBVIOUS
  <2>2. [w \in {} |-> Absent] \in Attachments
    BY <2>1 DEF Attachments
  <2> QED BY <2>2 DEF Idle, PublishRecord
<1>7. StateOK'
  BY <1>1, <1>2, <1>4, <1>5, <1>6 DEF IInv, StateOK
<1>8. PublishesOK'
  BY <1>5 DEF IInv, PublishesOK, ShapeOf, RowAt, Calling, Content, Idle
<1>9. RowsOK' /\ ReadersOK'
  BY <1>1 DEF IInv, RowsOK, ReadersOK, ReadsVersion, Recorded
<1>10. WireOK'
  BY <1>2, <1>3 DEF IInv, WireOK, CallOf
<1>11. StoredOK'
  BY <1>1, <1>2, <1>5 DEF IInv, StoredOK, Recorded, RowOf, CallOf, Idle
<1> QED BY <1>7, <1>8, <1>9, <1>10, <1>11 DEF IInv

LEMMA LateOK ==
  ASSUME IInv, NEW m \in wire, Late(m)
  PROVE  IInv'
<1>1. UNCHANGED <<publish, reader, publishes, failures>> /\ wire' = wire \ {m}
  BY DEF Late
<1>2. m \in WireCall /\ m.row \in RowId /\ m.tarball \in Tarball /\ m.tarball \in Build[m.row]
  BY DEF IInv, StateOK, WireOK, WireCall
<1>3. PublishesOK' /\ WireOK'
  BY <1>1 DEF IInv, PublishesOK, ShapeOf, RowAt, Calling, Content, WireOK
<1>4. CASE m.to = "upload"
  <2>1. Store(m.row, m.tarball) /\ UNCHANGED package
    BY <1>4 DEF Late
  <2>2. /\ blob' \in [Key -> Tarball \cup {Absent}]
        /\ \A k \in Key : blob[k] # Absent => blob'[k] # Absent
    BY <1>2, <2>1, StoreEffect
  <2>3. StateOK' /\ RowsOK'
    BY <1>1, <2>1, <2>2 DEF IInv, StateOK, RowsOK, Recorded
  <2>4. \A q \in Publisher : publish[q].pc = "record" => RowOf(q) \in RowId
    BY CallType DEF Calling
  <2>5. StoredOK'
    BY <1>1, <2>1, <2>2, <2>4, KeyType DEF IInv, StateOK, WireCall, StoredOK, Recorded, RowOf
  <2> QED BY <1>1, <1>3, <2>2, <2>3, <2>5, ReadersKept DEF IInv
<1>5. CASE m.to = "record"
  <2>1. Upsert(m.row, m.tarball) /\ UNCHANGED blob
    BY <1>5 DEF Late
  <2>2. /\ package' \in [RowId -> Row \cup {NoRow}]
        /\ RowsOK'
        /\ Recorded' \subseteq Recorded \cup {m.row}
    BY <1>2, <2>1, UpsertEffect
  <2>3. StateOK'
    BY <1>1, <2>1, <2>2 DEF IInv, StateOK
  <2>4. StoredOK'
    BY <1>1, <1>5, <2>1, <2>2 DEF IInv, StoredOK, RowOf
  <2>5. ReadersOK'
    BY <1>1, <2>1 DEF IInv, ReadersOK, ReadsVersion
  <2> QED BY <1>3, <2>2, <2>3, <2>4, <2>5 DEF IInv
<1> QED BY <1>2, <1>4, <1>5 DEF WireCall

LEMMA LostOK ==
  ASSUME IInv, NEW m \in wire, Lost(m)
  PROVE  IInv'
<1> USE DEF Lost, IInv
<1>1. StateOK'
  BY DEF StateOK
<1>2. PublishesOK' /\ RowsOK' /\ WireOK' /\ StoredOK' /\ ReadersOK'
  BY DEF PublishesOK, ShapeOf, RowAt, Calling, Content, RowsOK, WireOK, StoredOK,
         ReadersOK, ReadsVersion, Recorded, RowOf
<1> QED BY <1>1, <1>2

LEMMA DeletePackageOK ==
  ASSUME IInv, NEW r \in RowId, DeletePackage(r)
  PROVE  IInv'
<1> USE DEF DeletePackage, IInv
<1>1. StateOK'
  BY DEF StateOK
<1>2. Recorded' \subseteq Recorded /\ \A s \in Recorded' : package'[s] = package[s]
  BY DEF StateOK, Recorded
<1>3. PublishesOK' /\ RowsOK' /\ WireOK' /\ StoredOK' /\ ReadersOK'
  BY <1>2 DEF PublishesOK, ShapeOf, RowAt, Calling, Content, RowsOK, WireOK, StoredOK,
         ReadersOK, ReadsVersion, RowOf
<1> QED BY <1>1, <1>3

\* What the steps of a reader leave alone.
LEMMA ReadLeaves ==
  ASSUME IInv, UNCHANGED <<blob, package, publish, wire, publishes, failures>>,
         reader' \in [Reader -> ReaderRecord], ReadersOK'
  PROVE  IInv'
<1> USE DEF IInv
<1>1. StateOK'
  BY DEF StateOK
<1> QED
  BY <1>1 DEF PublishesOK, ShapeOf, RowAt, Calling, Content, RowsOK, WireOK, StoredOK,
              Recorded, RowOf

LEMMA MetadataOK ==
  ASSUME IInv, NEW c \in Reader, NEW name \in Name, Metadata(c, name)
  PROVE  IInv'
<1>1. PICK r \in PackagesByName(name) :
        reader' = [reader EXCEPT ![c] =
          [pc |-> "lookup", name |-> name, integrity |-> package[r].integrity,
           key |-> package[r].storage_key]]
  BY DEF Metadata
<1>2. UNCHANGED <<blob, package, publish, wire, publishes, failures>>
  BY DEF Metadata
<1>3. r \in RowId /\ r \in Recorded /\ r.name = name /\ package[r] \in Row
  BY DEF PackagesByName, Recorded, IInv, StateOK
<1>4. /\ package[r].storage_key = KeyOf(r) /\ package[r].integrity \in Build[r]
      /\ blob[KeyOf(r)] # Absent
  BY <1>3 DEF IInv, RowsOK, StoredOK
<1>5. reader' \in [Reader -> ReaderRecord]
  BY <1>1, <1>3 DEF IInv, StateOK, ReaderRecord, Row
<1>6. ASSUME NEW d \in Reader, reader'[d].pc # "idle"
      PROVE  (\E i, j \in RowId : ReadsVersion(d, i, j)') /\ blob'[reader'[d].key] # Absent
  <2>1. CASE d = c
    <3>1. reader'[d] = [pc |-> "lookup", name |-> name, integrity |-> package[r].integrity,
                        key |-> package[r].storage_key]
      BY <2>1, <1>1 DEF IInv, StateOK
    <3>2. ReadsVersion(d, r, r)'
      BY <3>1, <1>3, <1>4 DEF ReadsVersion
    <3> QED BY <3>1, <3>2, <1>2, <1>3, <1>4
  <2>2. CASE d # c
    BY <2>2, <1>1, <1>2, <1>6 DEF IInv, StateOK, ReadersOK, ReadsVersion
  <2> QED BY <2>1, <2>2
<1> QED BY <1>2, <1>5, <1>6, ReadLeaves DEF ReadersOK

LEMMA LookupOK ==
  ASSUME IInv, NEW c \in Reader, Lookup(c)
  PROVE  IInv'
<1> DEFINE found == {r \in PackagesByName(reader[c].name) : FileMatches(r, c)}
<1>1. UNCHANGED <<blob, package, publish, wire, publishes, failures>> /\ reader[c].pc = "lookup"
  BY DEF Lookup
<1>2. CASE reader' = [reader EXCEPT ![c] = NotReading]
  <2>1. reader' \in [Reader -> ReaderRecord]
    BY <1>2 DEF IInv, StateOK, ReaderRecord, NotReading
  <2>2. ReadersOK'
    BY <1>1, <1>2 DEF IInv, StateOK, ReadersOK, ReadsVersion, NotReading
  <2> QED BY <1>1, <2>1, <2>2, ReadLeaves
<1>3. ASSUME NEW s \in found,
             reader' = [reader EXCEPT ![c] =
               [@ EXCEPT !.pc = "download", !.key = package[s].storage_key]]
      PROVE  IInv'
  <2>1. /\ s \in RowId /\ s \in Recorded /\ s.name = reader[c].name
        /\ package[s] \in Row /\ Base(package[s].storage_key) = Base(reader[c].key)
    BY DEF PackagesByName, Recorded, FileMatches, IInv, StateOK
  <2>2. package[s].storage_key = KeyOf(s) /\ blob[KeyOf(s)] # Absent
    BY <2>1 DEF IInv, RowsOK, StoredOK
  <2>3. PICK r \in RowId, t \in RowId : ReadsVersion(c, r, t)
    BY <1>1 DEF IInv, ReadersOK
  <2>4. s.version = r.version
    BY <2>1, <2>2, <2>3 DEF ReadsVersion, Base, KeyOf, storageKey
  <2>5. reader[c] \in ReaderRecord
    BY DEF IInv, StateOK
  <2>6. /\ reader'[c].name = reader[c].name /\ reader'[c].integrity = reader[c].integrity
        /\ reader'[c].key = KeyOf(s) /\ reader'[c] \in ReaderRecord
    BY <1>3, <2>1, <2>2, <2>5 DEF IInv, StateOK, ReaderRecord, Row
  <2>7. reader' \in [Reader -> ReaderRecord]
    BY <1>3, <2>6 DEF IInv, StateOK
  <2>8. ReadsVersion(c, r, s)'
    BY <2>1, <2>3, <2>4, <2>6 DEF ReadsVersion
  <2>9. ASSUME NEW d \in Reader, reader'[d].pc # "idle"
        PROVE  (\E i, j \in RowId : ReadsVersion(d, i, j)') /\ blob'[reader'[d].key] # Absent
    <3>1. CASE d = c
      BY <3>1, <1>1, <2>1, <2>2, <2>6, <2>8
    <3>2. CASE d # c
      BY <3>2, <1>1, <1>3, <2>9 DEF IInv, StateOK, ReadersOK, ReadsVersion
    <3> QED BY <3>1, <3>2
  <2> QED BY <1>1, <2>7, <2>9, ReadLeaves DEF ReadersOK
<1> QED BY <1>2, <1>3 DEF Lookup

LEMMA DownloadOK ==
  ASSUME IInv, NEW c \in Reader, Download(c)
  PROVE  IInv'
<1>1. /\ UNCHANGED <<blob, package, publish, wire, publishes, failures>>
      /\ reader' = [reader EXCEPT ![c] = NotReading]
  BY DEF Download
<1>2. reader' \in [Reader -> ReaderRecord]
  BY <1>1 DEF IInv, StateOK, ReaderRecord, NotReading
<1>3. ReadersOK'
  BY <1>1 DEF IInv, StateOK, ReadersOK, ReadsVersion, NotReading
<1> QED BY <1>1, <1>2, <1>3, ReadLeaves

LEMMA StepOK == IInv /\ [Next]_vars => IInv'
<1> SUFFICES ASSUME IInv, [Next]_vars PROVE IInv'
  OBVIOUS
<1>1. CASE UNCHANGED vars
  <2> USE DEF vars, IInv
  <2>1. StateOK'
    BY <1>1 DEF StateOK
  <2>2. PublishesOK' /\ RowsOK' /\ WireOK' /\ StoredOK' /\ ReadersOK'
    BY <1>1 DEF PublishesOK, ShapeOf, RowAt, Calling, Content, RowsOK, WireOK, StoredOK,
                ReadersOK, ReadsVersion, Recorded, RowOf
  <2> QED BY <2>1, <2>2
<1>2. CASE Next
  <2>1. ASSUME NEW p \in Publisher, Publish(p) PROVE IInv'
    BY <2>1, BeginOK, NextVersionOK, UploadOK, AddPackageOK, CallFailsOK DEF Publish
  <2>2. ASSUME NEW m \in wire, Late(m) \/ Lost(m) PROVE IInv'
    BY <2>2, LateOK, LostOK
  <2>3. ASSUME NEW c \in Reader, Read(c) PROVE IInv'
    BY <2>3, MetadataOK, LookupOK, DownloadOK DEF Read
  <2> QED BY <1>2, <2>1, <2>2, <2>3, DeletePackageOK DEF Next
<1> QED BY <1>1, <1>2

\* The inductive invariant holds for ever.
LEMMA Invariance == Spec => []IInv
<1> QED BY InitOK, StepOK, PTL DEF Spec

\* A version that metadata lists can be downloaded, whatever calls failed,
\* landed late or were repeated: Publish records nothing it has not stored.
THEOREM RecordedCanBeDownloaded == Spec => []RecordHasBlob
<1>1. IInv => RecordHasBlob
  BY DEF IInv, RowsOK, StoredOK, RecordHasBlob
<1> QED BY <1>1, Invariance, PTL

-----------------------------------------------------------------------------
(* What was sent *)

\* Whatever is on its way, stored, recorded or promised to a reader was sent as
\* the file it is under.
SentAs(r) == sent[Base(KeyOf(r))]
BlobsSent    == \A k \in Key : blob[k] \in sent[Base(k)] \cup {Absent}
RowsSent     == \A r \in Recorded : package[r].integrity \in SentAs(r)
CallsSent    == \A p \in Publisher : Calling(p) => Content(p) \in SentAs(RowOf(p))
WireSent     == \A m \in wire : m.tarball \in SentAs(m.row)
PromisesSent ==
  \A c \in Reader : reader[c].pc # "idle" => reader[c].integrity \in sent[Base(reader[c].key)]

\* Between its two calls a publish finds its own object, unless it was crossed.
OwnObjects ==
  \A p \in Publisher :
    publish[p].pc = "record" /\ p \notin crossed => blob[KeyOf(RowOf(p))] = Content(p)

HInv == HistoryOK /\ BlobsSent /\ RowsSent /\ CallsSent /\ WireSent /\ PromisesSent /\ OwnObjects

LEMMA FileType == \A k \in Key : Base(k) \in File
  BY DEF Key, Base, File

LEMMA FileOfRow == \A r \in RowId : Base(KeyOf(r)) = FileOf(r.name, r.version)
  BY DEF Base, KeyOf, storageKey, FileOf

LEMMA RowSentType == \A r \in RowId : Base(KeyOf(r)) \in File
  BY KeyType, FileType

\* What was sent stays sent.
LEMMA SentGrows ==
  ASSUME IInv, HInv, [Next]_vars
  PROVE  /\ HistoryOK'
         /\ \A f \in File : sent[f] \subseteq sent'[f]
<1>1. ASSUME NEW p \in Publisher, NEW v \in Version, NextVersion(p, v)
      PROVE  HistoryOK' /\ \A f \in File : sent[f] \subseteq sent'[f]
  <2>0. publish[p] \in PublishRecord
    BY DEF IInv, StateOK
  <2>1. PICK V \in SUBSET Version : publish[p].left \in [V -> Tarball \cup {Absent}]
    BY <2>0 DEF PublishRecord, Attachments
  <2>2. {publish[p].left[v]} \ {Absent} \in SUBSET Tarball
    BY <1>1, <2>1 DEF NextVersion
  <2> QED BY <1>1, <2>2 DEF NextVersion, HInv, HistoryOK
<1>2. ASSUME NEW p \in Publisher, Upload(p) \/ AddPackage(p) \/ CallFails(p)
      PROVE  HistoryOK' /\ UNCHANGED sent
  BY <1>2 DEF Upload, AddPackage, CallFails, Store, Halfway, HInv, HistoryOK
<1>3. ASSUME NEW m \in wire, Late(m) PROVE HistoryOK' /\ UNCHANGED sent
  BY <1>3 DEF Late, Store, Halfway, HInv, HistoryOK
<1>4. CASE UNCHANGED <<sent, crossed>>
  BY <1>4 DEF HInv, HistoryOK
<1> QED
  BY <1>1, <1>2, <1>3, <1>4 DEF Next, vars, Publish, Begin, Lost, DeletePackage, Read,
     Metadata, Lookup, Download

\* A publish that is calling in the next state is calling now with the same row
\* and content, or has just begun its call.
LEMMA CallsStep ==
  ASSUME IInv, HInv, [Next]_vars, NEW p \in Publisher, Calling(p)'
  PROVE  \/ /\ Calling(p) /\ RowOf(p)' = RowOf(p) /\ Content(p)' = Content(p)
            /\ publish'[p].pc = "record" =>
                 publish[p].pc = "record" \/ (publish[p].pc = "upload" /\ Upload(p))
         \/ \E v \in Version : NextVersion(p, v) /\ publish'[p].version = v
<1>1. CASE UNCHANGED publish
  BY <1>1 DEF Calling, RowOf, Content
<1>2. ASSUME NEW q \in Publisher, Publish(q), q # p
      PROVE  publish'[p] = publish[p]
  BY <1>2 DEF Publish, Begin, NextVersion, Upload, AddPackage, CallFails, IInv, StateOK
<1>3. CASE publish'[p] = publish[p]
  BY <1>3 DEF Calling, RowOf, Content
<1>4. publish[p] \in PublishRecord
  BY DEF IInv, StateOK
<1>5. CASE Upload(p)
  <2>1. publish'[p] = [publish[p] EXCEPT !.pc = "record"]
    BY <1>5 DEF Upload, IInv, StateOK
  <2>2. /\ publish'[p].name = publish[p].name /\ publish'[p].group = publish[p].group
        /\ publish'[p].left = publish[p].left /\ publish'[p].version = publish[p].version
    BY <1>4, <2>1 DEF PublishRecord
  <2> QED BY <1>5, <2>2 DEF Upload, Calling, RowOf, Content
<1>6. ASSUME NEW v \in Version, NextVersion(p, v)
      PROVE  publish'[p].version = v
  <2>1. publish'[p] = IF publish[p].left[v] = Absent THEN Idle
                      ELSE [publish[p] EXCEPT !.pc = "upload", !.version = v]
    BY <1>6 DEF NextVersion, IInv, StateOK
  <2>2. publish'[p].pc # "idle"
    BY DEF Calling
  <2> QED BY <1>4, <2>1, <2>2 DEF Idle, PublishRecord
<1>7. CASE AddPackage(p)
  BY <1>7, <1>4 DEF AddPackage, IInv, StateOK, Calling, Idle, PublishRecord
<1>8. CASE CallFails(p)
  BY <1>8 DEF CallFails, IInv, StateOK, Calling, Idle
<1>9. ASSUME NEW name \in Name, NEW header \in Header \cup {NoHeader},
             NEW left \in Attachments, Begin(p, name, header, left)
      PROVE  FALSE
  <2>1. publish'[p].pc = "next"
    BY <1>9 DEF Begin, IInv, StateOK
  <2> QED BY <2>1 DEF Calling
<1>10. CASE Publish(p)
  BY <1>5, <1>6, <1>7, <1>8, <1>9, <1>10 DEF Publish
<1> QED
  BY <1>1, <1>2, <1>3, <1>10 DEF Next, vars, Late, Lost, DeletePackage, Read, Metadata,
     Lookup, Download

\* What a publish holds and is about to record or store was sent as its file.
LEMMA CallsSentStep == ASSUME IInv, HInv, [Next]_vars PROVE CallsSent'
<1> SUFFICES ASSUME NEW p \in Publisher, Calling(p)' PROVE Content(p)' \in SentAs(RowOf(p))'
  BY DEF CallsSent
<1>1. CASE Calling(p) /\ RowOf(p)' = RowOf(p) /\ Content(p)' = Content(p)
  <2>1. Content(p) \in SentAs(RowOf(p)) /\ Base(KeyOf(RowOf(p))) \in File
    BY <1>1, CallType, RowSentType DEF HInv, CallsSent
  <2>2. sent[Base(KeyOf(RowOf(p)))] \subseteq sent'[Base(KeyOf(RowOf(p)))]
    BY <2>1, SentGrows
  <2> QED BY <1>1, <2>1, <2>2 DEF SentAs, KeyOf, storageKey, Base
<1>2. ASSUME NEW v \in Version, NextVersion(p, v), publish'[p].version = v
      PROVE  Content(p)' \in SentAs(RowOf(p))'
  <2>1. publish[p] \in PublishRecord /\ publish[p].pc = "next" /\ v \in DOMAIN publish[p].left
    BY <1>2 DEF IInv, StateOK, NextVersion
  <2>2. publish'[p] = IF publish[p].left[v] = Absent THEN Idle
                      ELSE [publish[p] EXCEPT !.pc = "upload", !.version = v]
    BY <1>2 DEF NextVersion, IInv, StateOK
  <2>3. publish[p].left[v] # Absent
    BY <2>2 DEF Calling, Idle
  <2>4. /\ publish'[p].name = publish[p].name /\ publish'[p].group = publish[p].group
        /\ publish'[p].left = publish[p].left /\ publish'[p].version = v
    BY <2>1, <2>2, <2>3 DEF PublishRecord
  <2>5. publish[p].name \in Name /\ RowAt(p, v) \in RowId
    BY <2>1 DEF IInv, PublishesOK, ShapeOf
  <2> DEFINE file == FileOf(publish[p].name, v)
  <2>6. file \in File
    BY <2>5 DEF File, FileOf, Safe
  <2>7. publish[p].left[v] \in sent'[file]
    BY <1>2, <2>3, <2>6 DEF NextVersion, HInv, HistoryOK
  <2>8. RowOf(p)' = RowAt(p, v)
    BY <2>4 DEF RowOf, RowAt
  <2>9. Base(KeyOf(RowAt(p, v))) = file
    BY <2>5, FileOfRow DEF RowAt
  <2>10. Content(p)' = publish[p].left[v]
    BY <2>4 DEF Content
  <2> HIDE DEF file
  <2> QED BY <2>7, <2>8, <2>9, <2>10 DEF SentAs, KeyOf, storageKey, Base
<1> QED BY <1>1, <1>2, CallsStep

LEMMA BlobsSentStep == ASSUME IInv, HInv, [Next]_vars PROVE BlobsSent'
<1>1. ASSUME NEW r \in RowId, NEW t \in Tarball, t \in SentAs(r), Store(r, t) PROVE BlobsSent'
  <2>1. blob'[KeyOf(r)] = t /\ \A k \in Key \ {KeyOf(r)} : blob'[k] = blob[k]
    BY <1>1, StoreEffect
  <2> SUFFICES ASSUME NEW k \in Key PROVE blob'[k] \in sent'[Base(k)] \cup {Absent}
    BY DEF BlobsSent, Base
  <2>2. sent[Base(k)] \subseteq sent'[Base(k)]
    BY SentGrows, FileType
  <2> QED BY <1>1, <2>1, <2>2 DEF HInv, BlobsSent, SentAs
<1>2. ASSUME NEW p \in Publisher, Upload(p) PROVE BlobsSent'
  <2>1. Calling(p) /\ Store(RowOf(p), Content(p))
    BY <1>2 DEF Upload, Calling
  <2> QED BY <1>1, <2>1, CallType DEF HInv, CallsSent
<1>3. ASSUME NEW m \in wire, Late(m), m.to = "upload" PROVE BlobsSent'
  <2>1. m.row \in RowId /\ m.tarball \in Tarball /\ m.tarball \in SentAs(m.row)
    BY DEF IInv, StateOK, WireCall, HInv, WireSent
  <2> QED BY <1>1, <1>3, <2>1 DEF Late
<1>4. CASE UNCHANGED blob
  BY <1>4, SentGrows, FileType DEF HInv, BlobsSent, Base
<1> QED
  BY <1>2, <1>3, <1>4 DEF Next, vars, Publish, Begin, NextVersion, AddPackage, CallFails,
     Late, Lost, DeletePackage, Read, Metadata, Lookup, Download

LEMMA RowsSentStep == ASSUME IInv, HInv, [Next]_vars PROVE RowsSent'
<1>1. ASSUME NEW s \in RowId PROVE SentAs(s) \subseteq SentAs(s)'
  BY SentGrows, RowSentType DEF SentAs, KeyOf, storageKey, Base
<1>2. ASSUME NEW r \in RowId, NEW t \in Tarball, t \in SentAs(r), Upsert(r, t) PROVE RowsSent'
  <2> SUFFICES ASSUME NEW s \in Recorded' PROVE package'[s].integrity \in SentAs(s)'
    BY DEF RowsSent
  <2>1. s \in RowId /\ (s # r => s \in Recorded /\ package'[s] = package[s])
    BY <1>2 DEF Recorded, Upsert, IInv, StateOK
  <2>2. CASE s = r
    <3>1. package'[r].integrity = t
      BY <1>2 DEF Upsert, IInv, StateOK
    <3> QED BY <1>1, <1>2, <2>1, <2>2, <3>1
  <2>3. CASE s # r
    BY <1>1, <2>1, <2>3 DEF HInv, RowsSent
  <2> QED BY <2>2, <2>3
<1>3. ASSUME NEW p \in Publisher, AddPackage(p) PROVE RowsSent'
  <2>1. Calling(p) /\ Upsert(RowOf(p), Content(p))
    BY <1>3 DEF AddPackage, Calling
  <2> QED BY <1>2, <2>1, CallType DEF HInv, CallsSent
<1>4. ASSUME NEW m \in wire, Late(m), m.to # "upload" PROVE RowsSent'
  <2>1. m.row \in RowId /\ m.tarball \in Tarball /\ m.tarball \in SentAs(m.row)
    BY DEF IInv, StateOK, WireCall, HInv, WireSent
  <2> QED BY <1>2, <1>4, <2>1 DEF Late
<1>5. ASSUME NEW r \in RowId, DeletePackage(r) PROVE RowsSent'
  <2>1. Recorded' \subseteq Recorded /\ \A s \in Recorded' : package'[s] = package[s]
    BY <1>5 DEF DeletePackage, Recorded, IInv, StateOK
  <2> QED BY <1>1, <2>1 DEF HInv, RowsSent, Recorded
<1>6. CASE UNCHANGED package
  BY <1>1, <1>6 DEF HInv, RowsSent, Recorded
<1> QED
  BY <1>3, <1>4, <1>5, <1>6 DEF Next, vars, Publish, Begin, NextVersion, Upload, CallFails,
     Late, Lost, Read, Metadata, Lookup, Download

LEMMA WireSentStep == ASSUME IInv, HInv, [Next]_vars PROVE WireSent'
<1> SUFFICES ASSUME NEW m \in wire' PROVE m.tarball \in SentAs(m.row)'
  BY DEF WireSent
<1>1. ASSUME NEW p \in Publisher, CallFails(p), m = CallOf(p)
      PROVE  m.row \in RowId /\ m.tarball \in SentAs(m.row)
  BY <1>1, CallType DEF CallFails, CallOf, HInv, CallsSent
<1>2. m \in wire => m.row \in RowId /\ m.tarball \in SentAs(m.row)
  BY DEF IInv, StateOK, WireCall, HInv, WireSent
<1>3. m \in wire \/ \E p \in Publisher : CallFails(p) /\ m = CallOf(p)
  BY DEF Next, vars, Publish, Begin, NextVersion, Upload, AddPackage, CallFails, Late, Lost,
     DeletePackage, Read, Metadata, Lookup, Download
<1>4. m.row \in RowId /\ m.tarball \in SentAs(m.row)
  BY <1>1, <1>2, <1>3
<1>5. sent[Base(KeyOf(m.row))] \subseteq sent'[Base(KeyOf(m.row))]
  BY <1>4, SentGrows, RowSentType
<1> QED BY <1>4, <1>5 DEF SentAs, KeyOf, storageKey, Base

LEMMA PromisesSentStep == ASSUME IInv, HInv, [Next]_vars PROVE PromisesSent'
<1>1. ASSUME NEW k \in Key PROVE sent[Base(k)] \subseteq sent'[Base(k)]
  BY SentGrows, FileType
<1>2. ASSUME NEW d \in Reader, reader[d].pc # "idle" PROVE reader[d].key \in Key
  <2>1. PICK r \in RowId, s \in RowId : ReadsVersion(d, r, s)
    BY <1>2 DEF IInv, ReadersOK
  <2> QED BY <2>1, KeyType DEF ReadsVersion
<1> SUFFICES ASSUME NEW d \in Reader, reader'[d].pc # "idle"
             PROVE  reader'[d].integrity \in sent'[Base(reader'[d].key)]
  BY DEF PromisesSent, Base
<1>3. CASE reader'[d] = reader[d]
  BY <1>1, <1>2, <1>3 DEF HInv, PromisesSent
<1>4. ASSUME NEW name \in Name, Metadata(d, name)
      PROVE  reader'[d].integrity \in sent'[Base(reader'[d].key)]
  <2>1. PICK r \in Recorded : reader'[d].integrity = package[r].integrity
                              /\ reader'[d].key = package[r].storage_key
    BY <1>4 DEF Metadata, PackagesByName, IInv, StateOK
  <2>2. r \in RowId /\ package[r].storage_key = KeyOf(r) /\ package[r].integrity \in SentAs(r)
    BY <2>1 DEF Recorded, IInv, RowsOK, HInv, RowsSent
  <2> QED BY <2>1, <2>2, <1>1, KeyType DEF SentAs
<1>5. CASE Lookup(d)
  <2>1. PICK s \in Recorded : /\ Base(package[s].storage_key) = Base(reader[d].key)
                              /\ reader'[d].key = package[s].storage_key
                              /\ reader'[d].integrity = reader[d].integrity
    <3>1. reader[d] \in ReaderRecord
      BY DEF IInv, StateOK
    <3>2. reader'[d] # NotReading
      BY DEF NotReading
    <3>3. PICK s \in PackagesByName(reader[d].name) :
            /\ FileMatches(s, d)
            /\ reader'[d] = [reader[d] EXCEPT !.pc = "download", !.key = package[s].storage_key]
      BY <1>5, <3>2 DEF Lookup, IInv, StateOK
    <3> QED BY <3>1, <3>3 DEF PackagesByName, FileMatches, ReaderRecord
  <2>2. reader[d].integrity \in sent[Base(reader[d].key)]
    BY <1>5 DEF Lookup, HInv, PromisesSent
  <2> QED BY <2>1, <2>2, <1>1, <1>2, <1>5 DEF Lookup
<1>6. CASE Download(d)
  BY <1>6 DEF Download, IInv, StateOK, NotReading
<1>7. ASSUME NEW c \in Reader, c # d, Read(c) PROVE reader'[d] = reader[d]
  BY <1>7 DEF Read, Metadata, Lookup, Download, IInv, StateOK
<1> QED
  BY <1>3, <1>4, <1>5, <1>6, <1>7 DEF Next, vars, Publish, Begin, NextVersion, Upload,
     AddPackage, CallFails, Late, Lost, DeletePackage, Read

\* A store under the key of a publish between its calls marks it as crossed.
LEMMA OwnObjectsStep == ASSUME IInv, HInv, [Next]_vars PROVE OwnObjects'
<1> SUFFICES ASSUME NEW p \in Publisher, publish'[p].pc = "record", p \notin crossed'
             PROVE  blob'[KeyOf(RowOf(p)')] = Content(p)'
  BY DEF OwnObjects, KeyOf, storageKey
<1>1. Calling(p)'
  BY DEF Calling
<1>2. ~ \E v \in Version : NextVersion(p, v)
  <2> SUFFICES ASSUME NEW v \in Version, NextVersion(p, v) PROVE FALSE
    OBVIOUS
  <2>1. publish[p] \in PublishRecord
    BY DEF IInv, StateOK
  <2>2. publish'[p] = IF publish[p].left[v] = Absent THEN Idle
                      ELSE [publish[p] EXCEPT !.pc = "upload", !.version = v]
    BY DEF NextVersion, IInv, StateOK
  <2> QED BY <2>1, <2>2 DEF Idle, PublishRecord
<1>3. /\ Calling(p) /\ RowOf(p)' = RowOf(p) /\ Content(p)' = Content(p)
      /\ publish[p].pc = "record" \/ (publish[p].pc = "upload" /\ Upload(p))
  BY <1>1, <1>2, CallsStep
<1>4. RowOf(p) \in RowId /\ KeyOf(RowOf(p)) \in Key
  BY <1>3, CallType, KeyType
<1>5. CASE publish[p].pc = "upload" /\ Upload(p)
  <2>1. Store(RowOf(p), Content(p))
    BY <1>5 DEF Upload
  <2> QED BY <1>3, <1>4, <2>1, CallType, StoreEffect
<1>6. CASE publish[p].pc = "record"
  <2>1. ASSUME NEW r \in RowId, NEW t \in Tarball, Store(r, t)
        PROVE  blob'[KeyOf(RowOf(p))] = blob[KeyOf(RowOf(p))] /\ p \notin crossed
    <3>1. p \notin crossed /\ KeyOf(RowOf(p)) # KeyOf(r)
      BY <1>6, <2>1 DEF Store, Halfway
    <3> QED BY <1>4, <2>1, <3>1, StoreEffect
  <2>2. ASSUME NEW q \in Publisher, Upload(q)
        PROVE  blob'[KeyOf(RowOf(p))] = blob[KeyOf(RowOf(p))] /\ p \notin crossed
    <3>1. Calling(q) /\ Store(RowOf(q), Content(q))
      BY <2>2 DEF Upload, Calling
    <3> QED BY <2>1, <3>1, CallType
  <2>3. ASSUME NEW q \in Publisher, AddPackage(q) \/ CallFails(q)
        PROVE  blob' = blob /\ p \notin crossed
    <3>1. blob' = blob /\ crossed' = crossed \ {q}
      BY <2>3 DEF AddPackage, CallFails
    <3>2. p # q
      <4>1. publish[p] \in PublishRecord
        BY DEF IInv, StateOK
      <4>2. AddPackage(p) => publish'[p].pc # "record"
        BY <4>1 DEF AddPackage, IInv, StateOK, Idle, PublishRecord
      <4>3. CallFails(p) => publish'[p].pc # "record"
        BY DEF CallFails, IInv, StateOK, Idle
      <4> QED BY <2>3, <4>2, <4>3
    <3> QED BY <3>1, <3>2
  <2>4. ASSUME NEW m \in wire, Late(m)
        PROVE  blob'[KeyOf(RowOf(p))] = blob[KeyOf(RowOf(p))] /\ p \notin crossed
    BY <2>1, <2>4 DEF Late, IInv, StateOK, WireCall
  <2>5. CASE UNCHANGED <<blob, crossed>>
    BY <1>3, <1>6, <2>5 DEF HInv, OwnObjects
  <2>6. blob'[KeyOf(RowOf(p))] = blob[KeyOf(RowOf(p))] /\ p \notin crossed
    BY <2>2, <2>3, <2>4, <2>5 DEF Next, vars, Publish, Begin, NextVersion, Lost,
       DeletePackage, Read, Metadata, Lookup, Download
  <2> QED BY <1>3, <1>6, <2>6 DEF HInv, OwnObjects
<1> QED BY <1>3, <1>5, <1>6

LEMMA HistoryInvariance == Spec => [](IInv /\ HInv)
<1>1. Init => HInv
  <2> SUFFICES ASSUME Init PROVE HInv
    OBVIOUS
  <2>1. HistoryOK /\ BlobsSent
    BY FileType DEF Init, HistoryOK, BlobsSent
  <2>2. RowsSent /\ CallsSent /\ WireSent /\ PromisesSent /\ OwnObjects
    BY DEF Init, RowsSent, Recorded, CallsSent, Calling, Idle, WireSent, PromisesSent,
           NotReading, OwnObjects
  <2> QED BY <2>1, <2>2 DEF HInv
<1>2. IInv /\ HInv /\ [Next]_vars => HInv'
  BY SentGrows, BlobsSentStep, RowsSentStep, CallsSentStep, WireSentStep, PromisesSentStep,
     OwnObjectsStep DEF HInv
<1> QED BY <1>1, <1>2, InitOK, StepOK, PTL DEF Spec

\* Every variable keeps its type, for any number of clients and versions.
THEOREM TypeCorrect == Spec => []TypeOK
<1>1. IInv /\ HInv => TypeOK
  BY DEF IInv, HInv, TypeOK
<1> QED BY <1>1, HistoryInvariance, PTL

\* Whatever other publishes, deletions, failures and late calls do, a record
\* carries the integrity of the object under its key at the instant it is made,
\* unless another call stored an object there between the two calls of its
\* publish.  Nothing is assumed of what clients publish or of how names clash.
THEOREM RecordsAgree == Spec => RecordsOwnUpload
<1>1. ASSUME IInv, HInv, NEW p \in Publisher, AddPackage(p), p \notin crossed
      PROVE  package'[RowOf(p)].integrity = blob'[KeyOf(RowOf(p))]
  <2>1. publish[p].pc = "record" /\ Calling(p) /\ Upsert(RowOf(p), Content(p)) /\ blob' = blob
    BY <1>1 DEF AddPackage, Calling
  <2>2. RowOf(p) \in RowId
    BY <1>1, <2>1, CallType
  <2>3. package'[RowOf(p)].integrity = Content(p)
    BY <1>1, <2>1, <2>2 DEF Upsert, IInv, StateOK
  <2>4. blob[KeyOf(RowOf(p))] = Content(p)
    BY <1>1, <2>1 DEF HInv, OwnObjects
  <2> QED BY <2>1, <2>3, <2>4
<1>2. IInv /\ HInv /\ [Next]_vars =>
        [\A p \in Publisher : AddPackage(p) /\ p \notin crossed =>
           package'[RowOf(p)].integrity = blob'[KeyOf(RowOf(p))]]_vars
  BY <1>1
<1> QED BY <1>2, HistoryInvariance, PTL DEF Spec, RecordsOwnUpload

\* A download finds an object, and one with another integrity than the package
\* document promised proves that two publishes disagreed about that file.
THEOREM DownloadsVerify == Spec => DownloadVerifies
<1>1. ASSUME IInv, HInv, NEW c \in Reader, Download(c)
      PROVE  /\ blob[reader[c].key] # Absent
             /\ Agreed(Base(reader[c].key)) => blob[reader[c].key] = reader[c].integrity
  <2>1. reader[c].pc # "idle"
    BY <1>1 DEF Download
  <2>2. PICK r \in RowId, s \in RowId : ReadsVersion(c, r, s)
    BY <1>1, <2>1 DEF IInv, ReadersOK
  <2>3. blob[reader[c].key] # Absent /\ reader[c].key \in Key
    BY <1>1, <2>1, <2>2, KeyType DEF IInv, ReadersOK, ReadsVersion
  <2>4. /\ blob[reader[c].key] \in sent[Base(reader[c].key)]
        /\ reader[c].integrity \in sent[Base(reader[c].key)]
    BY <1>1, <2>1, <2>3 DEF HInv, BlobsSent, PromisesSent
  <2> QED BY <2>3, <2>4 DEF Agreed
<1>2. IInv /\ HInv /\ [Next]_vars =>
        [\A c \in Reader : Download(c) =>
           /\ blob[reader[c].key] # Absent
           /\ Agreed(Base(reader[c].key)) => blob[reader[c].key] = reader[c].integrity]_vars
  BY <1>1
<1> QED BY <1>2, HistoryInvariance, PTL DEF Spec, DownloadVerifies

-----------------------------------------------------------------------------
(* The pages *)

\* A row that is alone shares its key with no other.
LEMMA LoneKeys ==
  ASSUME NEW r \in Lone, NEW s \in RowId, KeyOf(s) = KeyOf(r)
  PROVE  s = r
BY DEF Lone, KeyOf, storageKey

\* The object of a row that is alone was published as it.
BlobsOK == \A r \in Lone : blob[KeyOf(r)] \in Build[r] \cup {Absent}

LEMMA BlobsStep ==
  ASSUME IInv, BlobsOK, [Next]_vars
  PROVE  BlobsOK'
<1>1. ASSUME NEW r \in RowId, NEW t \in Build[r], Store(r, t) PROVE BlobsOK'
  <2>1. t \in Tarball
    BY <1>1, NpmAssumption
  <2>2. /\ blob'[KeyOf(r)] = t
        /\ \A k \in Key \ {KeyOf(r)} : blob'[k] = blob[k]
    BY <1>1, <2>1, StoreEffect
  <2> SUFFICES ASSUME NEW s \in Lone PROVE blob'[KeyOf(s)] \in Build[s] \cup {Absent}
    BY DEF BlobsOK, KeyOf, storageKey, Lone
  <2>3. CASE KeyOf(s) = KeyOf(r)
    BY <2>2, <2>3, LoneKeys
  <2>4. CASE KeyOf(s) # KeyOf(r)
    BY <2>2, <2>4, KeyType DEF BlobsOK, Lone
  <2> QED BY <2>3, <2>4
<1>2. ASSUME NEW p \in Publisher, Upload(p) PROVE BlobsOK'
  <2>1. Calling(p) /\ Store(RowOf(p), Content(p))
    BY <1>2 DEF Upload, Calling
  <2> QED BY <1>1, <2>1, CallType
<1>3. ASSUME NEW m \in wire, Late(m) PROVE BlobsOK'
  <2>1. m.row \in RowId /\ m.tarball \in Build[m.row]
    BY DEF IInv, StateOK, WireOK, WireCall
  <2>2. Store(m.row, m.tarball) \/ UNCHANGED blob
    BY <1>3 DEF Late
  <2> QED BY <1>1, <2>1, <2>2 DEF BlobsOK
<1>4. CASE UNCHANGED blob
  BY <1>4 DEF BlobsOK
<1> QED
  BY <1>2, <1>3, <1>4 DEF Next, vars, Publish, Begin, NextVersion, AddPackage, CallFails,
     Lost, DeletePackage, Read, Metadata, Lookup, Download

LEMMA BlobsInvariance == Spec => [](IInv /\ BlobsOK)
<1>1. Init => BlobsOK
  BY KeyType DEF Init, BlobsOK, Lone
<1>2. IInv /\ BlobsOK /\ [Next]_vars => BlobsOK'
  BY BlobsStep
<1> QED BY <1>1, <1>2, InitOK, StepOK, PTL DEF Spec

\* A tarball that arrives shows if its row is on the page ...
LEMMA StoreShows ==
  ASSUME IInv, BlobsOK, NEW r \in RowId, NEW t \in Build[r],
         Store(r, t), UNCHANGED package
  PROVE  [Pages!Next]_Shown
<1> DEFINE listed == Recorded \cap Lone
<1>0. t \in Tarball
  BY NpmAssumption
<1>1. blob'[KeyOf(r)] = t /\ \A k \in Key \ {KeyOf(r)} : blob'[k] = blob[k]
  BY <1>0, StoreEffect
<1>2. \A s \in listed : package[s].storage_key = KeyOf(s) /\ s \in Lone /\ KeyOf(s) \in Key
  BY KeyType DEF IInv, RowsOK, Recorded
<1>3. \A s \in listed \ {r} : blob'[KeyOf(s)] = blob[KeyOf(s)]
  BY <1>1, <1>2, LoneKeys
<1>4. Shown = [s \in listed |-> blob[KeyOf(s)]]
  BY <1>2 DEF Shown
<1>5. Shown' = [s \in listed |-> blob'[package[s].storage_key]]
  BY DEF Shown, Recorded, Lone
<1>6. Shown' = [s \in listed |-> blob'[KeyOf(s)]]
  BY <1>2, <1>5
<1> HIDE DEF listed
<1>7. CASE r \in listed
  <2>1. r \in Lone
    BY <1>2, <1>7
  <2>2. Shown' = [s \in DOMAIN Shown \cup {r} |-> IF s = r THEN t ELSE Shown[s]]
    BY <1>1, <1>3, <1>4, <1>6, <1>7
  <2>3. Pages!Publish(r)
    BY <2>2 DEF Pages!Publish
  <2> QED BY <2>1, <2>3 DEF Pages!Next
<1>8. CASE r \notin listed
  <2>1. Shown' = Shown
    BY <1>3, <1>4, <1>6, <1>8
  <2> QED BY <2>1
<1> QED BY <1>7, <1>8

\* ... and a record shows the tarball that is there.
LEMMA UpsertShows ==
  ASSUME IInv, BlobsOK, NEW r \in RowId, NEW t \in Build[r],
         Upsert(r, t), UNCHANGED blob, blob[KeyOf(r)] # Absent
  PROVE  [Pages!Next]_Shown
<1>1. t \in Tarball /\ KeyOf(r) \in Key
  BY NpmAssumption, KeyType
<1>2. package \in [RowId -> Row \cup {NoRow}]
  BY DEF IInv, StateOK
<1> DEFINE row == [integrity |-> t, storage_key |-> KeyOf(r)]
           listed == Recorded \cap Lone
           listedNext == Recorded' \cap Lone
<1>3. package' = [package EXCEPT ![r] = row]
  BY DEF Upsert
<1>4. row # NoRow /\ row.storage_key = KeyOf(r)
  BY <1>1, NpmAssumption DEF NoRow
<1> HIDE DEF row
<1>5. /\ package'[r] = row
      /\ \A s \in RowId \ {r} : package'[s] = package[s]
  BY <1>2, <1>3
<1>6. Recorded' = Recorded \cup {r}
  BY <1>4, <1>5 DEF Recorded
<1>7. \A s \in listed \ {r} : package'[s] = package[s]
  BY <1>5 DEF Recorded
<1>8. /\ Shown = [s \in listed |-> blob[package[s].storage_key]]
      /\ Shown' = [s \in listedNext |-> blob[package'[s].storage_key]]
  BY DEF Shown, Lone
<1>9. CASE r \in Lone
  <2>1. listedNext = listed \cup {r}
    BY <1>6, <1>9
  <2> HIDE DEF listed, listedNext
  <2>2. Shown' = [s \in DOMAIN Shown \cup {r} |-> IF s = r THEN blob[KeyOf(r)] ELSE Shown[s]]
    BY <1>4, <1>5, <1>7, <1>8, <2>1
  <2>3. Pages!Publish(r)
    BY <2>2, <1>9 DEF Pages!Publish, BlobsOK
  <2> QED BY <2>3, <1>9 DEF Pages!Next
<1>10. CASE r \notin Lone
  <2>1. listedNext = listed /\ r \notin listed
    BY <1>6, <1>10
  <2> HIDE DEF listed, listedNext
  <2>2. Shown' = Shown
    BY <1>7, <1>8, <2>1
  <2> QED BY <2>2
<1> QED BY <1>9, <1>10

LEMMA ShownStep ==
  ASSUME IInv, BlobsOK, [Next]_vars
  PROVE  [Pages!Next]_Shown
<1>1. ASSUME NEW p \in Publisher, Upload(p) PROVE [Pages!Next]_Shown
  <2>1. Calling(p) /\ Store(RowOf(p), Content(p)) /\ UNCHANGED package
    BY <1>1 DEF Upload, Calling
  <2> QED BY <2>1, CallType, StoreShows
<1>2. ASSUME NEW p \in Publisher, AddPackage(p) PROVE [Pages!Next]_Shown
  <2>1. /\ Calling(p) /\ publish[p].pc = "record"
        /\ Upsert(RowOf(p), Content(p)) /\ UNCHANGED blob
    BY <1>2 DEF AddPackage, Calling
  <2>2. blob[KeyOf(RowOf(p))] # Absent
    BY <2>1 DEF IInv, StoredOK
  <2> QED BY <2>1, <2>2, CallType, UpsertShows
<1>3. ASSUME NEW m \in wire, Late(m) PROVE [Pages!Next]_Shown
  <2>1. m.row \in RowId /\ m.tarball \in Build[m.row] /\ m.to \in {"upload", "record"}
    BY DEF IInv, StateOK, WireOK, WireCall
  <2>2. CASE m.to = "upload"
    BY <1>3, <2>1, <2>2, StoreShows DEF Late
  <2>3. CASE m.to = "record"
    <3>1. blob[KeyOf(m.row)] # Absent
      BY <2>3 DEF IInv, StoredOK
    <3> QED BY <1>3, <2>1, <2>3, <3>1, UpsertShows DEF Late
  <2> QED BY <2>1, <2>2, <2>3
<1>4. ASSUME NEW r \in RowId, DeletePackage(r) PROVE [Pages!Next]_Shown
  <2>1. package' = [package EXCEPT ![r] = NoRow] /\ UNCHANGED blob
    BY <1>4 DEF DeletePackage
  <2>2. package \in [RowId -> Row \cup {NoRow}]
    BY DEF IInv, StateOK
  <2>3. Recorded' = Recorded \ {r} /\ \A s \in Recorded' : package'[s] = package[s]
    BY <2>1, <2>2 DEF Recorded
  <2>4. Shown' = [s \in DOMAIN Shown \ {r} |-> Shown[s]]
    BY <2>1, <2>3 DEF Shown, Lone
  <2>5. CASE r \in Lone
    <3>1. Pages!Withdraw(r)
      BY <2>4 DEF Pages!Withdraw
    <3> QED BY <2>5, <3>1 DEF Pages!Next
  <2>6. CASE r \notin Lone
    <3>1. r \notin DOMAIN Shown
      BY <2>6 DEF Shown
    <3>2. Shown' = Shown
      BY <2>4, <3>1 DEF Shown
    <3> QED BY <3>2
  <2> QED BY <2>5, <2>6
<1>5. CASE UNCHANGED <<blob, package>>
  BY <1>5 DEF Shown, Recorded, Lone
<1> QED
  BY <1>1, <1>2, <1>3, <1>4, <1>5 DEF Next, vars, Publish, Begin, NextVersion, CallFails,
     Lost, Read, Metadata, Lookup, Download

\* The pages of npm change one row at a time, and a row shows a whole tarball that
\* was published as it, whether or not its publishes agree, as long as its key
\* is its own.
THEOREM ListingImplemented == Spec => ImplementsListing
<1>1. Init => Pages!Init
  <2>1. Init => Recorded = {}
    BY DEF Init, Recorded
  <2> QED BY <2>1 DEF Pages!Init, Shown
<1>2. IInv /\ BlobsOK /\ [Next]_vars => [Pages!Next]_Shown
  BY ShownStep
<1> QED BY <1>1, <1>2, BlobsInvariance, PTL DEF Spec, ImplementsListing, Pages!Spec

=============================================================================
