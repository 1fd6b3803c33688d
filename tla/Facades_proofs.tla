--------------------------- MODULE Facades_proofs ---------------------------
(***************************************************************************)
(* The Composer, PyPI and Go facades, for any number of publishers,        *)
(* readers, names, failures, late calls and deletions, whatever builds the *)
(* publishes carry and however names clash: what they list after uploading *)
(* it is in storage and was uploaded as that, or as what the keys do not   *)
(* tell from it.  The second part is about the conversions themselves,     *)
(* which Spelling states.                                                  *)
(***************************************************************************)
EXTENDS Facades, Spelling, FiniteSetTheorems, TLAPS

\* An entry lists proper files under proper keys, those of its row if uploaded.
EntryOK(row, e) ==
  /\ IsEntry(row, e)
  /\ row.repo = "go" => "zip" \in DOMAIN e.keys
  /\ e.uploaded => /\ DOMAIN e.keys # {}
                   /\ \A f \in DOMAIN e.keys : e.keys[f] = storageKey(row, f)

\* The files of an entry, or those not still to be uploaded, are in storage.
Stored(e, left) == e.uploaded => \A f \in DOMAIN e.keys \ left : e.keys[f] \in DOMAIN blob

\* What is known of a publish in flight and of a call.
PublishOK(r) ==
  r.pc = "busy" =>
    /\ r.row \in RowId /\ EntryOK(r.row, r.entry)
    /\ r.left \subseteq DOMAIN r.entry.keys
    /\ r.entry.uploaded => r.build \in Build
    /\ r.left # {} => r.entry.uploaded
    /\ Stored(r.entry, r.left)
CallOK(m) ==
  /\ m.row \in RowId
  /\ m.to = "storage" => m.file \in FilesOf(m.row.repo) /\ m.build \in Build
  /\ m.to # "storage" => EntryOK(m.row, m.entry) /\ Stored(m.entry, {})

\* A key holds a file that was uploaded under it.
KeyHolds(k, x) == x \in Content /\ k \in Key /\ storageKey(x.row, x.file) = k
BlobOK == \A k \in DOMAIN blob : KeyHolds(k, blob[k])

PackageOK == \A r \in Recorded : r \in RowId /\ EntryOK(r, package[r]) /\ Stored(package[r], {})

PublishesOK ==
  /\ publish = [p \in Publisher |-> publish[p]]
  /\ \A p \in Publisher : publish[p].pc \in {"idle", "busy"} /\ PublishOK(publish[p])
                          /\ publish[p].row \in RowId \cup {Nothing}

WireOK == \A m \in wire : CallOK(m)

\* A reader with an uploaded key has that of its file in a row of its version.
ReadOK(r) ==
  r.pc = "fetch" /\ r.uploaded =>
    /\ r.key \in DOMAIN blob
    /\ \E s \in RowId : /\ r.file \in FilesOf(s.repo) /\ r.key = storageKey(s, r.file)
                        /\ s.repo = r.repo /\ s.name = r.name /\ s.version = r.version
ReadersOK == reader \in [Reader -> ReaderRecord] /\ \A c \in Reader : ReadOK(reader[c])

CountersOK == publishes \in Nat /\ failures \in Nat /\ deletes \in Nat

\* A publish that was not crossed has its own files in storage.
OwnFiles(p) ==
  LET r == publish[p] IN
  r.pc = "busy" /\ r.entry.uploaded /\ p \notin crossed =>
    \A f \in DOMAIN r.entry.keys \ r.left : At(r.entry.keys[f]) = ContentOf(r.row, f, r.build)
OwnOK == crossed \in SUBSET Publisher /\ \A p \in Publisher : OwnFiles(p)

Inv == BlobOK /\ PackageOK /\ PublishesOK /\ WireOK /\ ReadersOK /\ CountersOK /\ OwnOK

-----------------------------------------------------------------------------
(* Rows, keys and files *)

LEMMA RowType ==
  ASSUME NEW r \in RowId
  PROVE  /\ r.repo \in Repo /\ r.group \in Group /\ r.version \in Version
         /\ r.name \in NamesIn(r.repo) /\ r.name \in Project
         /\ r = [repo |-> r.repo, group |-> r.group, name |-> r.name, version |-> r.version]
BY FacadesAssumption DEF RowId, NamesIn, Repo

LEMMA RowsAre ==
  ASSUME NEW repo \in Repo, NEW g \in Group, NEW n \in NamesIn(repo), NEW v \in Version
  PROVE  [repo |-> repo, group |-> g, name |-> n, version |-> v] \in RowId
BY DEF RowId

LEMMA FileType ==
  ASSUME NEW repo \in Repo
  PROVE  FilesOf(repo) \subseteq File
BY DEF FilesOf, File, Repo

LEMMA KeyType ==
  ASSUME NEW r \in RowId, NEW f \in FilesOf(r.repo)
  PROVE  storageKey(r, f) \in Key
BY DEF Key

LEMMA ContentType ==
  ASSUME NEW r \in RowId, NEW f \in FilesOf(r.repo), NEW b \in Build
  PROVE  /\ ContentOf(r, f, b) \in Content
         /\ ContentOf(r, f, b).row = r /\ ContentOf(r, f, b).file = f
BY DEF ContentOf, Content

\* A file in storage is of a row and says so.
LEMMA ContentIs ==
  ASSUME NEW x \in Content
  PROVE  /\ x.row \in RowId /\ x.file \in FilesOf(x.row.repo) /\ x.build \in Build
         /\ x = ContentOf(x.row, x.file, x.build)
BY DEF Content, ContentOf

\* Files of the same key are the same file of rows that are Twins.
LEMMA KeysTellApart ==
  ASSUME NEW r \in RowId, NEW s \in RowId, NEW f, NEW g, storageKey(r, f) = storageKey(s, g)
  PROVE  f = g /\ Twin(r, s)
<1>1. r.repo = s.repo /\ f = g /\ Layout(r) = Layout(s) /\ r.repo \in Repo
  BY RowType DEF storageKey
<1>2. CASE r.repo = "pypi"
  BY <1>1, <1>2 DEF Layout, Twin, SameName, SameText
<1>3. CASE r.repo = "go"
  BY <1>1, <1>3 DEF Layout, Twin, SameName, SameText
<1>4. CASE r.repo = "php"
  BY <1>1, <1>4 DEF Layout, Twin, SameName, SameText
<1> QED BY <1>1, <1>2, <1>3, <1>4 DEF Repo

\* A fresh entry of uploaded files.
LEMMA EntryIs ==
  ASSUME NEW r \in RowId, NEW F \in SUBSET FilesOf(r.repo), F # {},
         r.repo = "go" => "zip" \in F
  PROVE  /\ EntryOK(r, EntryOf(r, F)) /\ EntryOf(r, F).uploaded
         /\ DOMAIN EntryOf(r, F).keys = F
<1>1. \A f \in F : storageKey(r, f) \in Key
  BY KeyType
<1>2. /\ EntryOf(r, F).keys = [f \in F |-> storageKey(r, f)]
      /\ EntryOf(r, F).uploaded = TRUE
  BY DEF EntryOf
<1> QED BY <1>1, <1>2 DEF EntryOK, IsEntry

\* The entry of a JSON publish, whatever its key.
LEMMA JsonEntryIs ==
  ASSUME NEW r \in RowId, r.repo = "php", NEW key \in Key
  PROVE  EntryOK(r, JsonEntry(key)) /\ ~JsonEntry(key).uploaded
<1>1. /\ JsonEntry(key).keys = [f \in {"dist"} |-> key]
      /\ JsonEntry(key).uploaded = FALSE
  BY DEF JsonEntry
<1>2. FilesOf(r.repo) = {"dist"}
  BY DEF FilesOf
<1> QED BY <1>1, <1>2 DEF EntryOK, IsEntry

LEMMA NotReadingType ==
  NotReading \in ReaderRecord /\ ReadOK(NotReading)
BY DEF NotReading, ReaderRecord, Repo, ReadOK

\* Of the files left one is next, and the zip before any other.
LEMMA FirstIs ==
  ASSUME NEW left, left # {}
  PROVE  FirstOf(left) \in left
<1>1. \E f \in left : "zip" \in left => f = "zip"
  OBVIOUS
<1> QED BY <1>1 DEF FirstOf

-----------------------------------------------------------------------------
(* The effects of calls *)

\* What is stored stays stored while storage grows.
Grows == \A k \in DOMAIN blob : k \in DOMAIN blob'

LEMMA StoreIs ==
  ASSUME Inv, NEW row \in RowId, NEW file \in FilesOf(row.repo), NEW build \in Build,
         Store(row, file, build)
  PROVE  /\ BlobOK' /\ Grows
         /\ storageKey(row, file) \in DOMAIN blob'
         /\ blob'[storageKey(row, file)] = ContentOf(row, file, build)
         /\ \A k \in DOMAIN blob : k # storageKey(row, file) => blob'[k] = blob[k]
         /\ crossed' = crossed \cup Halfway(storageKey(row, file))
<1> DEFINE key == storageKey(row, file)
           x   == ContentOf(row, file, build)
<1>1. blob' = [k \in DOMAIN blob \cup {key} |-> IF k = key THEN x ELSE blob[k]]
  BY DEF Store, Put
<1>2. x \in Content /\ x.row = row /\ x.file = file /\ key \in Key
  BY ContentType, KeyType
<1>3. crossed' = crossed \cup Halfway(key)
  BY DEF Store
<1>4. KeyHolds(key, x)
  BY <1>2 DEF KeyHolds
<1> HIDE DEF key, x
<1>5. /\ DOMAIN blob' = DOMAIN blob \cup {key} /\ blob'[key] = x
      /\ \A k \in DOMAIN blob : k # key => blob'[k] = blob[k]
  BY <1>1
<1>6. \A k \in DOMAIN blob' : KeyHolds(k, blob'[k])
  BY <1>4, <1>5 DEF Inv, BlobOK
<1>7. BlobOK'
  BY <1>6 DEF BlobOK, KeyHolds, storageKey, Layout
<1> QED BY <1>3, <1>5, <1>7 DEF Grows, key, x

LEMMA AddPackageIs ==
  ASSUME Inv, NEW row \in RowId, NEW entry, EntryOK(row, entry), Stored(entry, {}),
         AddPackage(row, entry), blob' = blob
  PROVE  PackageOK'
<1>1. package' = [r \in DOMAIN package \cup {row} |-> IF r = row THEN entry ELSE package[r]]
  BY DEF AddPackage, Put
<1>2. \A r \in DOMAIN package' : r \in RowId /\ EntryOK(r, package'[r]) /\ Stored(package'[r], {})
  BY <1>1 DEF Inv, PackageOK, Recorded
<1> QED BY <1>2 DEF PackageOK, Recorded, Stored, EntryOK, IsEntry

\* What only storage can disturb, when it grows.
LEMMA GrowsKeeps ==
  ASSUME Inv, Grows
  PROVE  /\ \A e, left : Stored(e, left) => Stored(e, left)'
         /\ \A r : PublishOK(r) => PublishOK(r)'
         /\ \A m : CallOK(m) => CallOK(m)'
         /\ package' = package => PackageOK'
         /\ \A r : ReadOK(r) => ReadOK(r)'
<1>1. \A e, left : Stored(e, left) => Stored(e, left)'
  BY DEF Grows, Stored
<1>2. \A r, e : EntryOK(r, e)' <=> EntryOK(r, e)
  BY DEF EntryOK, IsEntry, storageKey, Layout
<1>3. \A r : PublishOK(r) => PublishOK(r)'
  BY <1>1, <1>2 DEF PublishOK
<1>4. \A m : CallOK(m) => CallOK(m)'
  BY <1>1, <1>2 DEF CallOK
<1>5. package' = package => PackageOK'
  BY <1>1, <1>2 DEF Inv, PackageOK, Recorded
<1>6. \A r : ReadOK(r) => ReadOK(r)'
  BY DEF Grows, ReadOK, storageKey, Layout
<1> QED BY <1>1, <1>3, <1>4, <1>5, <1>6

\* A store crosses those publishes whose file it overwrites.
LEMMA StoreCrosses ==
  ASSUME Inv, NEW row \in RowId, NEW file \in FilesOf(row.repo), NEW build \in Build,
         Store(row, file, build), NEW p \in Publisher, publish'[p] = publish[p]
  PROVE  OwnFiles(p)'
<1> DEFINE r == publish[p]
<1> SUFFICES ASSUME r.pc = "busy", r.entry.uploaded, p \notin crossed',
                    NEW f \in DOMAIN r.entry.keys \ r.left
             PROVE  At(r.entry.keys[f])' = ContentOf(r.row, f, r.build)
  BY DEF OwnFiles, At, ContentOf
<1>1. crossed' = crossed \cup Halfway(storageKey(row, file))
  BY StoreIs
<1>2. p \notin crossed /\ r.entry.keys[f] # storageKey(row, file)
  BY <1>1 DEF Halfway
<1>3. At(r.entry.keys[f]) = ContentOf(r.row, f, r.build)
  BY <1>2 DEF Inv, OwnOK, OwnFiles
<1>4. r.entry.keys[f] \in DOMAIN blob
  BY DEF Inv, PublishesOK, PublishOK, Stored
<1> QED BY <1>2, <1>3, <1>4, StoreIs DEF At, Grows

-----------------------------------------------------------------------------
(* Publishing *)

\* A publish that begins, whatever its repository.
Begins(p, row, left, build, entry) ==
  /\ Begin(p, row, left, build, entry)
  /\ row \in RowId /\ EntryOK(row, entry)
  /\ \/ entry.uploaded /\ left = DOMAIN entry.keys /\ build \in Build
     \/ ~entry.uploaded /\ left = {}

LEMMA FilesBegin ==
  ASSUME NEW p, NEW row \in RowId, NEW F \in SUBSET FilesOf(row.repo), F # {},
         row.repo = "go" => "zip" \in F, NEW build \in Build,
         Begin(p, row, F, build, EntryOf(row, F))
  PROVE  Begins(p, row, F, build, EntryOf(row, F))
BY EntryIs DEF Begins

LEMMA ComposerRowType ==
  ASSUME NEW name \in projects["php"], NEW version \in Version,
         NEW header \in Optional, NEW form \in Optional
  PROVE  /\ ComposerRow(name, version, header, form) \in RowId
         /\ ComposerRow(name, version, header, form).repo = "php"
<1>1. resolveGroup(header, form, name) \in Group
  BY FacadesAssumption DEF resolveGroup, Optional, Repo
<1> QED BY <1>1, RowsAre DEF ComposerRow, NamesIn, Repo

LEMMA StartShape ==
  ASSUME NEW p \in Publisher, Start(p)
  PROVE  \E row, left, build, entry : Begins(p, row, left, build, entry)
<1> PICK version \in Version, form \in Optional :
      \/ \E name \in projects["pypi"], file \in Distribution, build \in Build :
           PypiUpload(p, name, version, form, file, build)
      \/ \E name \in projects["go"], withMod \in BOOLEAN, build \in Build :
           GoUpload(p, name, version, form, withMod, build)
      \/ \E name \in projects["php"], header \in Optional :
           \/ \E build \in Build : publishMultipart(p, name, version, header, form, build)
           \/ \E key \in JsonKey \cup {None} : publishJSON(p, name, version, header, form, key)
  BY DEF Start
<1>1. FormGroup(form) \in Group
  BY FacadesAssumption DEF FormGroup, Optional
<1>2. ASSUME NEW name \in projects["pypi"], NEW file \in Distribution, NEW build \in Build,
             PypiUpload(p, name, version, form, file, build)
      PROVE  \E row, left, b, entry : Begins(p, row, left, b, entry)
  <2> DEFINE row == [repo |-> "pypi", group |-> FormGroup(form),
                     name |-> normalized[name], version |-> version]
  <2>1. row \in RowId
    BY <1>1, RowsAre DEF NamesIn, Repo
  <2>2. row.repo = "pypi" /\ file \in FilesOf(row.repo)
    BY DEF FilesOf
  <2>3. Begin(p, row, {file}, build, EntryOf(row, {file}))
    BY <1>2 DEF PypiUpload
  <2> HIDE DEF row
  <2>4. Begins(p, row, {file}, build, EntryOf(row, {file}))
    BY <2>1, <2>2, <2>3, FilesBegin
  <2> QED BY <2>4
<1>3. ASSUME NEW name \in projects["go"], NEW withMod \in BOOLEAN, NEW build \in Build,
             GoUpload(p, name, version, form, withMod, build)
      PROVE  \E row, left, b, entry : Begins(p, row, left, b, entry)
  <2> DEFINE row   == [repo |-> "go", group |-> FormGroup(form), name |-> name, version |-> version]
             files == IF withMod THEN {"zip", "mod"} ELSE {"zip"}
  <2>1. row \in RowId
    BY <1>1, RowsAre DEF NamesIn, Repo
  <2>2. files \in SUBSET FilesOf(row.repo) /\ files # {} /\ "zip" \in files
    BY DEF FilesOf
  <2>3. Begin(p, row, files, build, EntryOf(row, files))
    BY <1>3 DEF GoUpload
  <2> HIDE DEF row, files
  <2>4. Begins(p, row, files, build, EntryOf(row, files))
    BY <2>1, <2>2, <2>3, FilesBegin
  <2> QED BY <2>4
<1>4. ASSUME NEW name \in projects["php"], NEW header \in Optional, NEW build \in Build,
             publishMultipart(p, name, version, header, form, build)
      PROVE  \E row, left, b, entry : Begins(p, row, left, b, entry)
  <2> DEFINE row == ComposerRow(name, version, header, form)
  <2>1. row \in RowId /\ row.repo = "php"
    BY ComposerRowType
  <2>2. Begin(p, row, {"dist"}, build, EntryOf(row, {"dist"}))
    BY <1>4 DEF publishMultipart
  <2> HIDE DEF row
  <2>3. "dist" \in FilesOf(row.repo)
    BY <2>1 DEF FilesOf
  <2>4. Begins(p, row, {"dist"}, build, EntryOf(row, {"dist"}))
    BY <2>1, <2>2, <2>3, FilesBegin
  <2> QED BY <2>4
<1>5. ASSUME NEW name \in projects["php"], NEW header \in Optional,
             NEW given \in JsonKey \cup {None},
             publishJSON(p, name, version, header, form, given)
      PROVE  \E row, left, b, entry : Begins(p, row, left, b, entry)
  <2> DEFINE row == ComposerRow(name, version, header, form)
             key == IF given = None THEN storageKey(row, "dist") ELSE given
  <2>1. row \in RowId /\ row.repo = "php"
    BY ComposerRowType
  <2>2. Begin(p, row, {}, Nothing, JsonEntry(key))
    BY <1>5 DEF publishJSON
  <2>3. key \in Key
    <3> HIDE DEF row
    <3>1. "dist" \in FilesOf(row.repo)
      BY <2>1 DEF FilesOf
    <3> QED BY <2>1, <3>1, KeyType, JsonAssumption
  <2> HIDE DEF row, key
  <2>4. Begins(p, row, {}, Nothing, JsonEntry(key))
    BY <2>1, <2>2, <2>3, JsonEntryIs DEF Begins
  <2> QED BY <2>4
<1> QED BY <1>2, <1>3, <1>4, <1>5

LEMMA InitOK == Init => Inv
<1> SUFFICES ASSUME Init PROVE Inv
  OBVIOUS
<1>1. blob = <<>> /\ package = <<>> /\ wire = {} /\ crossed = {}
  BY DEF Init
<1>2. DOMAIN blob = {} /\ DOMAIN package = {}
  BY <1>1
<1>3. publish = [p \in Publisher |-> Idle] /\ reader = [c \in Reader |-> NotReading]
  BY DEF Init
<1>4. BlobOK /\ PackageOK /\ WireOK
  BY <1>1, <1>2 DEF BlobOK, PackageOK, Recorded, WireOK
<1>5. PublishesOK /\ OwnOK
  BY <1>1, <1>3 DEF PublishesOK, PublishOK, Idle, OwnOK, OwnFiles
<1>6. ReadersOK
  BY <1>3, NotReadingType DEF ReadersOK
<1>7. CountersOK
  BY DEF Init, CountersOK
<1> QED BY <1>4, <1>5, <1>6, <1>7 DEF Inv

\* One publish changes, and neither storage nor metadata.
LEMMA PublishKeeps ==
  ASSUME Inv, UNCHANGED <<blob, package, reader, deletes>>, WireOK', CountersOK',
         NEW p \in Publisher, NEW x, publish' = [publish EXCEPT ![p] = x],
         x.pc \in {"idle", "busy"}, x.row \in RowId \cup {Nothing}, PublishOK(x),
         \/ x.pc = "idle"
         \/ ~x.entry.uploaded
         \/ x.left = DOMAIN x.entry.keys,
         crossed' = crossed \/ crossed' = crossed \ {p}
  PROVE  Inv'
<1>1. Grows
  BY DEF Grows
<1>2. BlobOK' /\ PackageOK' /\ ReadersOK'
  BY <1>1, GrowsKeeps DEF Inv, BlobOK, KeyHolds, storageKey, Layout, ReadersOK
<1>3. /\ publish' = [q \in Publisher |-> publish'[q]] /\ publish'[p] = x
      /\ \A q \in Publisher \ {p} : publish'[q] = publish[q]
  BY DEF Inv, PublishesOK
<1>4. PublishesOK'
  BY <1>1, <1>3, GrowsKeeps DEF Inv, PublishesOK
<1>5. OwnFiles(p)'
  BY <1>3 DEF OwnFiles
<1>6. ASSUME NEW q \in Publisher \ {p} PROVE OwnFiles(q)'
  BY <1>3 DEF Inv, OwnOK, OwnFiles, At, ContentOf
<1>7. OwnOK'
  BY <1>5, <1>6 DEF Inv, OwnOK
<1> QED BY <1>2, <1>4, <1>7 DEF Inv

LEMMA BeginStep ==
  ASSUME Inv, NEW p \in Publisher, NEW row, NEW left, NEW build, NEW entry,
         Begins(p, row, left, build, entry)
  PROVE  Inv'
<1> DEFINE x == [pc |-> "busy", row |-> row, left |-> left, build |-> build, entry |-> entry]
<1>1. /\ UNCHANGED <<blob, package, wire, reader, failures, deletes, crossed>>
      /\ publishes' = publishes + 1 /\ publish' = [publish EXCEPT ![p] = x]
  BY DEF Begins, Begin
<1>2. /\ x.pc = "busy" /\ x.row = row /\ x.left = left /\ x.build = build /\ x.entry = entry
  OBVIOUS
<1> HIDE DEF x
<1>3. PublishOK(x)
  BY <1>2 DEF Begins, PublishOK, Stored
<1>4. WireOK' /\ CountersOK'
  BY <1>1, GrowsKeeps DEF Inv, WireOK, CountersOK, Grows
<1>5. row \in RowId /\ (~x.entry.uploaded \/ x.left = DOMAIN x.entry.keys)
  BY <1>2 DEF Begins
<1> QED BY <1>1, <1>2, <1>3, <1>4, <1>5, PublishKeeps

LEMMA CallIs ==
  ASSUME Inv, NEW p \in Publisher, publish[p].pc = "busy"
  PROVE  CallOK(CallOf(p))
<1> DEFINE r == publish[p]
<1>1. PublishOK(r)
  BY DEF Inv, PublishesOK
<1>2. CASE Sending(p)
  <2>1. FirstOf(r.left) \in FilesOf(r.row.repo) /\ r.build \in Build /\ r.row \in RowId
    BY <1>1, <1>2, FirstIs DEF Sending, PublishOK, EntryOK, IsEntry
  <2>2. /\ CallOf(p).to = "storage" /\ CallOf(p).row = r.row
        /\ CallOf(p).file = FirstOf(r.left) /\ CallOf(p).build = r.build
    BY <1>2 DEF CallOf
  <2> QED BY <2>1, <2>2 DEF CallOK
<1>3. CASE ~Sending(p)
  <2>1. r.left = {} /\ r.row \in RowId /\ EntryOK(r.row, r.entry) /\ Stored(r.entry, {})
    BY <1>1, <1>3 DEF Sending, PublishOK
  <2>2. CallOf(p).to = "metadata" /\ CallOf(p).row = r.row /\ CallOf(p).entry = r.entry
    BY <1>3 DEF CallOf
  <2> QED BY <2>1, <2>2 DEF CallOK
<1> QED BY <1>2, <1>3

LEMMA CallFailsStep ==
  ASSUME Inv, NEW p \in Publisher, CallFails(p)
  PROVE  Inv'
<1>1. /\ UNCHANGED <<blob, package, reader, publishes, deletes>>
      /\ publish' = [publish EXCEPT ![p] = Idle]
      /\ wire' = wire \cup {CallOf(p)} /\ crossed' = crossed \ {p} /\ failures' = failures + 1
  BY DEF CallFails
<1>2. \A m \in wire' : CallOK(m)
  BY <1>1, CallIs DEF CallFails, Inv, WireOK
<1>3. WireOK' /\ CountersOK'
  BY <1>1, <1>2, GrowsKeeps DEF Inv, WireOK, CountersOK, Grows
<1>4. Idle.pc = "idle" /\ Idle.row = Nothing /\ PublishOK(Idle)
  BY DEF Idle, PublishOK
<1> QED BY <1>1, <1>3, <1>4, PublishKeeps

\* A file is uploaded: what changes besides storage is the publish that sent it.
LEMMA StoreKeeps ==
  ASSUME Inv, NEW row \in RowId, NEW file \in FilesOf(row.repo), NEW build \in Build,
         Store(row, file, build), UNCHANGED <<package, reader, failures, deletes>>,
         wire' \in SUBSET wire, publishes' \in Nat
  PROVE  /\ BlobOK' /\ PackageOK' /\ WireOK' /\ ReadersOK' /\ CountersOK'
         /\ crossed' \in SUBSET Publisher
<1>1. BlobOK' /\ Grows /\ crossed' = crossed \cup Halfway(storageKey(row, file))
  BY StoreIs
<1>2. PackageOK' /\ WireOK' /\ ReadersOK'
  BY <1>1, GrowsKeeps DEF Inv, WireOK, ReadersOK
<1> QED BY <1>1, <1>2 DEF Inv, CountersOK, OwnOK, Halfway

LEMMA UploadKeeps ==
  ASSUME Inv, NEW p \in Publisher, NEW row \in RowId, NEW left, NEW file \in left,
         NEW build \in Build, NEW entry, NEW x,
         EntryOK(row, entry), entry.uploaded, left \subseteq DOMAIN entry.keys, Stored(entry, left),
         publish[p].pc = "busy", publish[p].row = row, publish[p].left = left,
         publish[p].build = build, publish[p].entry = entry,
         x.pc = "busy", x.row = row, x.left = left \ {file}, x.build = build, x.entry = entry,
         Store(row, file, build), publish' = [publish EXCEPT ![p] = x],
         UNCHANGED <<package, wire, reader, publishes, failures, deletes>>
  PROVE  Inv'
<1> DEFINE key == storageKey(row, file)
<1>1. file \in FilesOf(row.repo) /\ entry.keys[file] = key
  BY DEF EntryOK, IsEntry
<1>2. /\ BlobOK' /\ Grows /\ key \in DOMAIN blob' /\ blob'[key] = ContentOf(row, file, build)
      /\ \A k \in DOMAIN blob : k # key => blob'[k] = blob[k]
      /\ crossed' = crossed \cup Halfway(key)
  BY <1>1, StoreIs
<1>3. PackageOK' /\ WireOK' /\ ReadersOK' /\ CountersOK' /\ crossed' \in SUBSET Publisher
  <2>1. publishes' \in Nat
    BY DEF Inv, CountersOK
  <2> QED BY <1>1, <2>1, StoreKeeps
<1>4. /\ publish' = [q \in Publisher |-> publish'[q]] /\ publish'[p] = x
      /\ \A q \in Publisher \ {p} : publish'[q] = publish[q]
  BY DEF Inv, PublishesOK
<1> HIDE DEF key
<1>5. PublishOK(x)'
  <2>1. \A f \in DOMAIN entry.keys \ (left \ {file}) : entry.keys[f] \in DOMAIN blob'
    BY <1>1, <1>2 DEF Stored, Grows
  <2>2. Stored(x.entry, x.left)'
    BY <2>1 DEF Stored
  <2>3. EntryOK(x.row, x.entry)'
    BY DEF EntryOK, IsEntry, storageKey, Layout
  <2> QED BY <2>2, <2>3 DEF PublishOK
<1>6. PublishesOK'
  BY <1>2, <1>4, <1>5, GrowsKeeps DEF Inv, PublishesOK
<1>7. ASSUME NEW q \in Publisher \ {p} PROVE OwnFiles(q)'
  BY <1>1, <1>4, StoreCrosses
<1>8. OwnFiles(p)'
  <2> SUFFICES ASSUME p \notin crossed', NEW f \in DOMAIN entry.keys \ (left \ {file})
               PROVE  At(entry.keys[f])' = ContentOf(row, f, build)
    BY <1>4 DEF OwnFiles, At, ContentOf
  <2>1. CASE f = file
    BY <1>1, <1>2, <2>1 DEF At
  <2>2. CASE f # file
    <3>1. f \in DOMAIN entry.keys \ left /\ p \notin crossed
      BY <1>2, <2>2
    <3>2. At(entry.keys[f]) = ContentOf(row, f, build) /\ entry.keys[f] \in DOMAIN blob
      BY <3>1 DEF Inv, OwnOK, OwnFiles, Stored
    <3>3. entry.keys[f] # key
      <4>1. storageKey(row, f).file = f /\ storageKey(row, file).file = file
        BY DEF storageKey
      <4>2. entry.keys[f] = storageKey(row, f)
        BY <3>1 DEF EntryOK
      <4> QED BY <2>2, <4>1, <4>2 DEF key
    <3> QED BY <1>2, <2>2, <3>2, <3>3 DEF At, Grows
  <2> QED BY <2>1, <2>2
<1>9. OwnOK'
  BY <1>3, <1>7, <1>8 DEF OwnOK
<1> QED BY <1>2, <1>3, <1>6, <1>9 DEF Inv

LEMMA UploadStep ==
  ASSUME Inv, NEW p \in Publisher, Upload(p)
  PROVE  Inv'
<1> DEFINE r == publish[p]
           file == FirstOf(r.left)
<1>1. /\ UNCHANGED <<package, wire, reader, publishes, failures, deletes>>
      /\ publish' = [publish EXCEPT ![p] = Sent(p)]
      /\ r.pc = "busy" /\ r.left # {} /\ Store(r.row, file, r.build)
  BY DEF Upload, Sending
<1>2. /\ r.row \in RowId /\ EntryOK(r.row, r.entry) /\ r.build \in Build /\ r.entry.uploaded
      /\ r.left \subseteq DOMAIN r.entry.keys /\ Stored(r.entry, r.left)
  BY <1>1 DEF Inv, PublishesOK, PublishOK
<1>3. file \in r.left
  BY <1>1, FirstIs
<1>4. /\ Sent(p).pc = "busy" /\ Sent(p).row = r.row /\ Sent(p).left = r.left \ {file}
      /\ Sent(p).build = r.build /\ Sent(p).entry = r.entry
  BY DEF Sent
<1> QED BY <1>1, <1>2, <1>3, <1>4, UploadKeeps

LEMMA PutDistStep ==
  ASSUME Inv, NEW name \in projects["php"], NEW version \in Version, NEW header \in Optional,
         NEW form \in Optional, NEW build \in Build, PutDist(name, version, header, form, build)
  PROVE  Inv'
<1> DEFINE row == ComposerRow(name, version, header, form)
<1>1. row \in RowId /\ row.repo = "php"
  BY ComposerRowType
<1>2. /\ Store(row, "dist", build) /\ publishes' = publishes + 1
      /\ UNCHANGED <<package, publish, wire, reader, failures, deletes>>
  BY DEF PutDist
<1> HIDE DEF row
<1>3. "dist" \in FilesOf(row.repo) /\ publishes' \in Nat
  BY <1>1, <1>2 DEF FilesOf, Inv, CountersOK
<1>4. BlobOK' /\ Grows
  BY <1>1, <1>2, <1>3, StoreIs
<1>5. /\ PackageOK' /\ WireOK' /\ ReadersOK' /\ CountersOK' /\ crossed' \in SUBSET Publisher
  BY <1>1, <1>2, <1>3, StoreKeeps
<1>6. PublishesOK'
  BY <1>2, <1>4, GrowsKeeps DEF Inv, PublishesOK
<1>7. OwnOK'
  BY <1>1, <1>2, <1>3, <1>5, StoreCrosses DEF OwnOK
<1> QED BY <1>4, <1>5, <1>6, <1>7 DEF Inv

LEMMA RegisterStep ==
  ASSUME Inv, NEW p \in Publisher, Register(p)
  PROVE  Inv'
<1> DEFINE r == publish[p]
<1>1. /\ UNCHANGED <<blob, wire, reader, publishes, failures, deletes>>
      /\ publish' = [publish EXCEPT ![p] = Idle] /\ crossed' = crossed \ {p}
      /\ r.pc = "busy" /\ r.left = {} /\ AddPackage(r.row, r.entry)
  BY DEF Register, Recording
<1>2. r.row \in RowId /\ EntryOK(r.row, r.entry) /\ Stored(r.entry, {})
  BY <1>1 DEF Inv, PublishesOK, PublishOK
<1>3. PackageOK'
  BY <1>1, <1>2, AddPackageIs
<1>4. BlobOK' /\ WireOK' /\ ReadersOK' /\ CountersOK'
  BY <1>1, GrowsKeeps DEF Inv, BlobOK, KeyHolds, storageKey, Layout, WireOK, ReadersOK,
     CountersOK, Grows
<1>5. /\ publish' = [q \in Publisher |-> publish'[q]] /\ publish'[p] = Idle
      /\ \A q \in Publisher \ {p} : publish'[q] = publish[q]
  BY <1>1 DEF Inv, PublishesOK
<1>6. PublishesOK'
  <2>1. Idle.pc = "idle" /\ Idle.row = Nothing /\ PublishOK(Idle)'
    BY DEF Idle, PublishOK
  <2> QED BY <1>1, <1>5, <2>1, GrowsKeeps DEF Inv, PublishesOK, Grows
<1>7. ASSUME NEW q \in Publisher PROVE OwnFiles(q)'
  BY <1>1, <1>5 DEF Inv, OwnOK, OwnFiles, At, ContentOf, Idle
<1> QED BY <1>1, <1>3, <1>4, <1>6, <1>7 DEF Inv, OwnOK

LEMMA LateStep ==
  ASSUME Inv, NEW m \in wire, Late(m)
  PROVE  Inv'
<1>1. /\ UNCHANGED <<publish, reader, publishes, failures, deletes>> /\ wire' = wire \ {m}
      /\ CallOK(m)
  BY DEF Late, Inv, WireOK
<1>2. CASE m.to = "storage"
  <2>1. /\ Store(m.row, m.file, m.build) /\ UNCHANGED package
        /\ m.row \in RowId /\ m.file \in FilesOf(m.row.repo) /\ m.build \in Build
    BY <1>1, <1>2 DEF Late, CallOK
  <2>2. BlobOK' /\ Grows
    BY <2>1, StoreIs
  <2>3. wire' \in SUBSET wire /\ publishes' \in Nat
    BY <1>1 DEF Inv, CountersOK
  <2>4. /\ PackageOK' /\ WireOK' /\ ReadersOK' /\ CountersOK' /\ crossed' \in SUBSET Publisher
    BY <1>1, <2>1, <2>3, StoreKeeps
  <2>5. PublishesOK'
    BY <1>1, <2>2, GrowsKeeps DEF Inv, PublishesOK
  <2>6. OwnOK'
    BY <1>1, <2>1, <2>4, StoreCrosses DEF OwnOK
  <2> QED BY <2>2, <2>4, <2>5, <2>6 DEF Inv
<1>3. CASE m.to # "storage"
  <2>1. /\ AddPackage(m.row, m.entry) /\ UNCHANGED <<blob, crossed>>
        /\ m.row \in RowId /\ EntryOK(m.row, m.entry) /\ Stored(m.entry, {})
    BY <1>1, <1>3 DEF Late, CallOK
  <2>2. PackageOK'
    BY <2>1, AddPackageIs
  <2>3. BlobOK' /\ WireOK' /\ ReadersOK' /\ CountersOK' /\ PublishesOK'
    BY <1>1, <2>1, GrowsKeeps DEF Inv, BlobOK, KeyHolds, storageKey, Layout, WireOK, ReadersOK,
       CountersOK, PublishesOK, Grows
  <2>4. OwnOK'
    BY <1>1, <2>1 DEF Inv, OwnOK, OwnFiles, At, ContentOf
  <2> QED BY <2>2, <2>3, <2>4 DEF Inv
<1> QED BY <1>2, <1>3

\* What the other steps that publish nothing leave alone.
LEMMA QuietStep ==
  ASSUME Inv, UNCHANGED <<blob, publish, publishes, failures, crossed>>,
         wire' \in SUBSET wire, PackageOK', ReadersOK', deletes' \in Nat
  PROVE  Inv'
<1>1. BlobOK' /\ WireOK' /\ CountersOK' /\ PublishesOK'
  BY GrowsKeeps DEF Inv, BlobOK, KeyHolds, storageKey, Layout, WireOK, CountersOK,
     PublishesOK, Grows
<1>2. OwnOK'
  BY DEF Inv, OwnOK, OwnFiles, At, ContentOf
<1> QED BY <1>1, <1>2 DEF Inv

LEMMA DeleteStep ==
  ASSUME Inv, NEW r \in Recorded, DeletePackage(r)
  PROVE  Inv'
<1>1. /\ package' = [s \in Recorded \ {r} |-> package[s]] /\ deletes' = deletes + 1
      /\ UNCHANGED <<blob, publish, wire, reader, publishes, failures, crossed>>
  BY DEF DeletePackage
<1>2. PackageOK'
  BY <1>1 DEF Inv, PackageOK, Recorded, EntryOK, IsEntry, Stored, storageKey, Layout
<1>3. ReadersOK'
  BY <1>1, GrowsKeeps DEF Inv, ReadersOK, Grows
<1>4. deletes' \in Nat
  BY <1>1 DEF Inv, CountersOK
<1> QED BY <1>1, <1>2, <1>3, <1>4, QuietStep

-----------------------------------------------------------------------------
(* Reading *)

LEMMA FetchingIs ==
  ASSUME Inv, NEW r \in Recorded, NEW f \in DOMAIN package[r].keys, NEW version \in Version,
         version = r.version
  PROVE  Fetching(r, version, f) \in ReaderRecord /\ ReadOK(Fetching(r, version, f))
<1> DEFINE x == Fetching(r, version, f)
<1>1. r \in RowId /\ EntryOK(r, package[r]) /\ Stored(package[r], {})
  BY DEF Inv, PackageOK
<1>2. r.repo \in Repo /\ r.name \in Project
  BY <1>1, RowType
<1>3. /\ f \in FilesOf(r.repo) /\ package[r].keys[f] \in Key /\ package[r].uploaded \in BOOLEAN
      /\ package[r].uploaded => /\ package[r].keys[f] = storageKey(r, f)
                                /\ package[r].keys[f] \in DOMAIN blob
  BY <1>1 DEF EntryOK, IsEntry, Stored
<1>4. f \in File
  BY <1>2, <1>3, FileType
<1>5. x \in ReaderRecord
  BY <1>2, <1>3, <1>4 DEF Fetching, ReaderRecord
<1>6. /\ x.uploaded = package[r].uploaded /\ x.key = package[r].keys[f] /\ x.file = f
      /\ x.repo = r.repo /\ x.name = r.name /\ x.version = version
  BY DEF Fetching
<1> HIDE DEF x
<1>7. ReadOK(x)
  BY <1>1, <1>3, <1>6 DEF ReadOK
<1> QED BY <1>5, <1>7 DEF x

LEMMA ThenZipType ==
  ASSUME NEW name \in Project \cup {Nothing}, NEW version \in Version \cup {Nothing}
  PROVE  ThenZip(name, version) \in ReaderRecord /\ ReadOK(ThenZip(name, version))
BY DEF ThenZip, ReaderRecord, Repo, ReadOK

LEMMA ReadStep ==
  ASSUME Inv, NEW c \in Reader, Read(c)
  PROVE  Inv'
<1>1. UNCHANGED <<blob, package, publish, wire, publishes, failures, deletes, crossed>>
  BY DEF Read, P2, handleFileList, handleMod, handleZip, FetchMod, Fetch
<1> DEFINE Reads == \E x \in ReaderRecord : ReadOK(x) /\ reader' = [reader EXCEPT ![c] = x]
<1>2. Reads
  <2>1. /\ reader[c] \in ReaderRecord
        /\ \A r \in Recorded : r \in RowId /\ EntryOK(r, package[r])
    BY DEF Inv, ReadersOK, PackageOK
  <2>2. ASSUME NEW r \in Recorded, Take(c, r) PROVE Reads
    <3>1. r.version \in Version
      BY <2>1, RowType
    <3> QED BY <2>2, <3>1, FetchingIs DEF Take
  <2>3. ASSUME NEW name \in projects["php"], P2(c, name) PROVE Reads
    BY <2>2, <2>3 DEF P2
  <2>4. ASSUME NEW name \in projects["pypi"], handleFileList(c, name) PROVE Reads
    BY <2>2, <2>4 DEF handleFileList
  <2>5. ASSUME NEW path \in DOMAIN decoded, NEW version \in Version,
               handleMod(c, decoded[path], version)
        PROVE  Reads
    <3>1. PICK r \in findVersion(decoded[path], version) :
            reader' = [reader EXCEPT ![c] =
              IF "mod" \in DOMAIN package[r].keys THEN Fetching(r, version, "mod")
              ELSE ThenZip(decoded[path], version)]
      BY <2>5 DEF handleMod
    <3>2. r \in Recorded /\ r.version = version /\ decoded[path] \in Project
      BY FacadesAssumption DEF findVersion, Repo
    <3>3. ThenZip(decoded[path], version) \in ReaderRecord /\ ReadOK(ThenZip(decoded[path], version))
      BY <3>2, ThenZipType
    <3>4. "mod" \in DOMAIN package[r].keys =>
            Fetching(r, version, "mod") \in ReaderRecord /\ ReadOK(Fetching(r, version, "mod"))
      BY <3>2, FetchingIs
    <3> QED BY <3>1, <3>3, <3>4
  <2>6. ASSUME handleZip(c) PROVE Reads
    <3>1. CASE reader' = [reader EXCEPT ![c] = NotReading]
      BY <3>1, NotReadingType
    <3>2. ASSUME NEW r \in findVersion(reader[c].name, reader[c].version),
                 reader' = [reader EXCEPT ![c] = Fetching(r, reader[c].version, "zip")]
          PROVE  Reads
      <4>1. r \in Recorded /\ r.version = reader[c].version /\ r.repo = "go" /\ r.version \in Version
        BY <2>1, RowType DEF findVersion
      <4>2. "zip" \in DOMAIN package[r].keys
        BY <2>1, <4>1 DEF EntryOK
      <4> QED BY <4>1, <4>2, <3>2, FetchingIs
    <3> QED BY <2>6, <3>1, <3>2 DEF handleZip
  <2>7. ASSUME FetchMod(c) PROVE Reads
    <3>1. reader[c].name \in Project \cup {Nothing} /\ reader[c].version \in Version \cup {Nothing}
      BY <2>1 DEF ReaderRecord
    <3> QED BY <2>7, <3>1, ThenZipType DEF FetchMod
  <2>8. ASSUME Fetch(c) PROVE Reads
    BY <2>8, NotReadingType DEF Fetch
  <2> QED BY <2>3, <2>4, <2>5, <2>6, <2>7, <2>8 DEF Read
<1>3. PICK x \in ReaderRecord : ReadOK(x) /\ reader' = [reader EXCEPT ![c] = x]
  BY <1>2
<1>4. Grows
  BY <1>1 DEF Grows
<1>5. /\ reader' \in [Reader -> ReaderRecord] /\ reader'[c] = x
      /\ \A d \in Reader \ {c} : reader'[d] = reader[d]
  BY <1>3 DEF Inv, ReadersOK
<1>6. ReadOK(x)' /\ \A d \in Reader : ReadOK(reader[d]) /\ reader'[d] = reader[d] => ReadOK(reader[d])'
  BY <1>3, <1>4, <1>5, GrowsKeeps
<1>7. ReadersOK'
  BY <1>5, <1>6 DEF Inv, ReadersOK
<1>8. PackageOK' /\ deletes' \in Nat
  BY <1>1, <1>4, GrowsKeeps DEF Inv, CountersOK
<1> QED BY <1>1, <1>7, <1>8, QuietStep

-----------------------------------------------------------------------------
LEMMA StepOK == Inv /\ [Next]_vars => Inv'
<1> SUFFICES ASSUME Inv, [Next]_vars PROVE Inv'
  OBVIOUS
<1>1. ASSUME NEW p \in Publisher, Publish(p) PROVE Inv'
  <2>1. CASE Start(p)
    <3>1. PICK row, left, build, entry : Begins(p, row, left, build, entry)
      BY <2>1, StartShape
    <3> QED BY <3>1, BeginStep
  <2> QED BY <1>1, <2>1, UploadStep, RegisterStep, CallFailsStep DEF Publish
<1>2. ASSUME NEW name \in projects["php"], NEW version \in Version, NEW header \in Optional,
             NEW form \in Optional, NEW build \in Build, PutDist(name, version, header, form, build)
      PROVE  Inv'
  BY <1>2, PutDistStep
<1>3. ASSUME NEW m \in wire, Lost(m) PROVE Inv'
  <2>1. PackageOK' /\ ReadersOK' /\ deletes' \in Nat
    BY <1>3, GrowsKeeps DEF Lost, Inv, ReadersOK, CountersOK, Grows
  <2> QED BY <1>3, <2>1, QuietStep DEF Lost
<1>4. CASE UNCHANGED vars
  <2>1. PackageOK' /\ ReadersOK' /\ deletes' \in Nat
    BY <1>4, GrowsKeeps DEF vars, Inv, ReadersOK, CountersOK, Grows
  <2> QED BY <1>4, <2>1, QuietStep DEF vars
<1> QED BY <1>1, <1>2, <1>3, <1>4, LateStep, DeleteStep, ReadStep DEF Next

LEMMA Invariance == Spec => []Inv
BY InitOK, StepOK, PTL DEF Spec

-----------------------------------------------------------------------------
\* Every variable keeps its type: the index lists files of its repositories at
\* keys of theirs, and a reader only fetches what a row lists.
THEOREM TypeCorrect == Spec => []TypeOK
<1>1. Inv => TypeOK
  BY DEF Inv, TypeOK, BlobOK, KeyHolds, PackageOK, EntryOK, PublishesOK, ReadersOK, CountersOK, OwnOK
<1> QED BY <1>1, Invariance, PTL

\* Whatever a facade lists after uploading it is in storage, with any number of
\* publishes cut short after any of their calls, of others that overwrite their
\* files, and of calls that land late.
THEOREM ListedFilesAreStored == Spec => []ListedIsStored
<1>1. Inv => ListedIsStored
  BY DEF Inv, PackageOK, ListedIsStored, Stored
<1> QED BY <1>1, Invariance, PTL

\* What is stored where a row says is the file named there, of that row or of one
\* that the keys do not tell from it: conversions that map two names to one are
\* the only way to get another's file.
THEOREM ListedFilesAreGenuine == Spec => []ListedIsGenuine
<1>1. Inv => ListedIsGenuine
  <2> SUFFICES ASSUME Inv, NEW r \in Recorded, package[r].uploaded,
                      NEW f \in DOMAIN package[r].keys, At(package[r].keys[f]) # Nothing
               PROVE  At(package[r].keys[f]).file = f /\ Twin(At(package[r].keys[f]).row, r)
    BY DEF ListedIsGenuine
  <2> DEFINE key == package[r].keys[f]
             x   == blob[key]
  <2>1. r \in RowId /\ key = storageKey(r, f)
    BY DEF Inv, PackageOK, EntryOK
  <2>2. key \in DOMAIN blob /\ At(key) = x
    BY DEF At
  <2>3. x \in Content /\ storageKey(x.row, x.file) = key
    BY <2>2 DEF Inv, BlobOK, KeyHolds
  <2>4. x.row \in RowId
    BY <2>3, ContentIs
  <2> HIDE DEF key, x
  <2>5. x.file = f /\ Twin(x.row, r)
    BY <2>1, <2>3, <2>4, KeysTellApart
  <2> QED BY <2>2, <2>5 DEF key
<1> QED BY <1>1, Invariance, PTL

\* A record says what its own publish uploaded, however many publishes of other
\* builds cross it, if no call but its own has written to its keys meanwhile.
THEOREM RecordsAgree == Spec => RecordsOwnUploads
<1> DEFINE Own ==
      \A p \in Publisher : Register(p) /\ p \notin crossed =>
        LET made == publish[p] IN
        made.entry.uploaded => \A f \in DOMAIN made.entry.keys :
          At(made.entry.keys[f]) = ContentOf(made.row, f, made.build)
<1>1. Inv => Own
  BY DEF Inv, OwnOK, OwnFiles, Register, Recording
<1>2. Inv /\ [Next]_vars => [Own]_vars
  BY <1>1
<1> HIDE DEF Own
<1>3. Spec => [][Own]_vars
  BY <1>2, Invariance, PTL DEF Spec
<1> QED BY <1>3 DEF RecordsOwnUploads, Own

\* A download is of the release and the kind of file its client asked for, up to
\* what the keys do not tell apart, however many publishes of other builds,
\* deletions and late calls fall between its requests.
THEOREM DownloadsVerify == Spec => DownloadVerifies
<1> DEFINE Verified ==
      \A c \in Reader : (Fetch(c) \/ FetchMod(c)) /\ reader[c].uploaded =>
        LET asked == reader[c]  served == At(asked.key) IN
        /\ served # Nothing
        /\ served.file = asked.file /\ served.row.repo = asked.repo
        /\ SameName(asked.repo, served.row.name, asked.name)
        /\ SameText(asked.repo, served.row.version, asked.version)
<1>1. Inv => Verified
  <2> SUFFICES ASSUME Inv, NEW c \in Reader, reader[c].pc = "fetch", reader[c].uploaded
               PROVE  LET asked == reader[c]  served == At(asked.key) IN
                      /\ served # Nothing
                      /\ served.file = asked.file /\ served.row.repo = asked.repo
                      /\ SameName(asked.repo, served.row.name, asked.name)
                      /\ SameText(asked.repo, served.row.version, asked.version)
    BY DEF Fetch, FetchMod
  <2> DEFINE asked == reader[c]
             x     == blob[asked.key]
  <2>1. ReadOK(asked)
    BY DEF Inv, ReadersOK
  <2>2. PICK s \in RowId : /\ asked.file \in FilesOf(s.repo) /\ asked.key = storageKey(s, asked.file)
                           /\ s.repo = asked.repo /\ s.name = asked.name /\ s.version = asked.version
    BY <2>1 DEF ReadOK
  <2>3. asked.key \in DOMAIN blob /\ At(asked.key) = x
    BY <2>1 DEF ReadOK, At
  <2>4. x \in Content /\ storageKey(x.row, x.file) = asked.key
    BY <2>3 DEF Inv, BlobOK, KeyHolds
  <2>5. x.row \in RowId /\ x # Nothing
    BY <2>4, ContentIs, NothingIsNoFile
  <2> HIDE DEF x
  <2>6. x.file = asked.file /\ Twin(x.row, s)
    BY <2>2, <2>4, <2>5, KeysTellApart
  <2> QED BY <2>2, <2>3, <2>5, <2>6 DEF Twin
<1>2. Inv /\ [Next]_vars => [Verified]_vars
  BY <1>1
<1> HIDE DEF Verified
<1>3. Spec => [][Verified]_vars
  BY <1>2, Invariance, PTL DEF Spec
<1> QED BY <1>3 DEF DownloadVerifies, Verified

-----------------------------------------------------------------------------
(* The pages *)

\* The rows on the page, and what it shows of one.
OnPage == {s \in Recorded \cap Lone : package[s].uploaded}
PageOf(r) == [f \in DOMAIN package[r].keys |-> At(package[r].keys[f])]

LEMMA ShownIs == Shown = [r \in OnPage |-> PageOf(r)]
BY DEF Shown, OnPage, PageOf

\* Each file of a row on the page is that file of that row.
LEMMA FilesOnPage ==
  ASSUME Inv, NEW r \in OnPage, NEW f \in DOMAIN package[r].keys
  PROVE  /\ r \in RowId /\ f \in FilesOf(r.repo)
         /\ package[r].keys[f] = storageKey(r, f) /\ package[r].keys[f] \in DOMAIN blob
         /\ \E b \in Build : At(package[r].keys[f]) = ContentOf(r, f, b)
<1> DEFINE key == package[r].keys[f]
           x   == blob[key]
<1>1. /\ r \in RowId /\ f \in FilesOf(r.repo) /\ key = storageKey(r, f) /\ key \in DOMAIN blob
  BY DEF Inv, PackageOK, EntryOK, IsEntry, Stored, OnPage
<1>2. x \in Content /\ storageKey(x.row, x.file) = key
  BY <1>1 DEF Inv, BlobOK, KeyHolds
<1>3. /\ x.row \in RowId /\ x.build \in Build /\ x = ContentOf(x.row, x.file, x.build)
  BY <1>2, ContentIs
<1>4. At(key) = x
  BY <1>1 DEF At
<1> HIDE DEF key, x
<1>5. x.file = f /\ Twin(r, x.row)
  BY <1>1, <1>2, <1>3, KeysTellApart
<1>6. x.row = r
  BY <1>3, <1>5 DEF OnPage, Lone
<1> QED BY <1>1, <1>3, <1>4, <1>5, <1>6 DEF key

LEMMA ReleaseIs ==
  ASSUME NEW r \in RowId, NEW D \in SUBSET FilesOf(r.repo), D # {}, NEW built \in [D -> Build]
  PROVE  [f \in D |-> ContentOf(r, f, built[f])] \in Releases[r]
<1> DEFINE Of(files) == {[f \in files |-> ContentOf(r, f, build[f])] : build \in [files -> Build]}
           all == (SUBSET FilesOf(r.repo)) \ {{}}
<1>1. Releases[r] = UNION {Of(files) : files \in all}
  BY DEF Releases
<1>2. [f \in D |-> ContentOf(r, f, built[f])] \in Of(D)
  <2> DEFINE F(build) == [f \in D |-> ContentOf(r, f, build[f])]
  <2>1. Of(D) = {F(build) : build \in [D -> Build]}
    OBVIOUS
  <2> HIDE DEF Of
  <2>2. F(built) \in Of(D)
    <3> HIDE DEF F
    <3> QED BY <2>1
  <2> QED BY <2>2
<1>3. D \in all
  <2> HIDE DEF Of
  <2>1. D \in SUBSET FilesOf(r.repo) /\ D \notin {{}}
    OBVIOUS
  <2> QED BY <2>1
<1> HIDE DEF Of, all
<1> QED BY <1>1, <1>2, <1>3

PagesOK == \A r \in OnPage : PageOf(r) \in Releases[r]

LEMMA PagesAreReleases == Inv => PagesOK
<1> SUFFICES ASSUME Inv, NEW r \in OnPage PROVE PageOf(r) \in Releases[r]
  BY DEF PagesOK
<1> DEFINE D == DOMAIN package[r].keys
           built == [f \in D |-> CHOOSE b \in Build : At(package[r].keys[f]) = ContentOf(r, f, b)]
<1>1. r \in RowId /\ D # {} /\ D \in SUBSET FilesOf(r.repo)
  BY DEF Inv, PackageOK, EntryOK, IsEntry, OnPage
<1>2. \A f \in D : built[f] \in Build /\ At(package[r].keys[f]) = ContentOf(r, f, built[f])
  BY FilesOnPage
<1>3. built \in [D -> Build]
  BY <1>2
<1>4. PageOf(r) = [f \in D |-> ContentOf(r, f, built[f])]
  BY <1>2 DEF PageOf
<1> HIDE DEF D, built
<1> QED BY <1>1, <1>3, <1>4, ReleaseIs

\* A step that changes at most what is shown of one row is a step of the Listing.
LEMMA OneRowChanges ==
  ASSUME PagesOK', NEW row \in RowId, OnPage' \ {row} = OnPage \ {row},
         \A s \in OnPage \ {row} : PageOf(s)' = PageOf(s)
  PROVE  [Pages!Next]_Shown
<1> DEFINE old == [s \in OnPage |-> PageOf(s)]
           new == [s \in OnPage' |-> PageOf(s)']
<1>1. Shown = old /\ Shown' = new
  <2>1. Shown' = [s \in OnPage' |-> PageOf(s)']
    BY DEF Shown, OnPage, PageOf
  <2> QED BY <2>1, ShownIs
<1>2. CASE row \in OnPage'
  <2>1. PageOf(row)' \in Releases'[row]
    BY <1>2 DEF PagesOK
  <2>2. Releases' = Releases
    BY DEF Releases, ContentOf
  <2>3. new = [s \in DOMAIN old \cup {row} |-> IF s = row THEN PageOf(row)' ELSE old[s]]
    BY <1>2
  <2>4. Pages!Publish(row) /\ row \in Lone
    BY <1>1, <1>2, <2>1, <2>2, <2>3 DEF Pages!Publish, OnPage
  <2> QED BY <2>4 DEF Pages!Next
<1>3. CASE row \notin OnPage' /\ row \in OnPage
  <2>1. new = [s \in DOMAIN old \ {row} |-> old[s]]
    BY <1>3
  <2>2. Pages!Withdraw(row) /\ row \in Lone
    BY <1>1, <1>3, <2>1 DEF Pages!Withdraw, OnPage
  <2> QED BY <2>2 DEF Pages!Next
<1>4. CASE row \notin OnPage' /\ row \notin OnPage
  BY <1>1, <1>4
<1> QED BY <1>2, <1>3, <1>4

\* A file that is stored shows on the page of its own row, if of any.
LEMMA StoreShows ==
  ASSUME Inv, PagesOK', NEW row \in RowId, NEW file \in FilesOf(row.repo), NEW build \in Build,
         Store(row, file, build), UNCHANGED package
  PROVE  [Pages!Next]_Shown
<1>1. \A k \in DOMAIN blob : k # storageKey(row, file) => k \in DOMAIN blob' /\ blob'[k] = blob[k]
  BY StoreIs DEF Grows
<1>2. OnPage' = OnPage
  BY DEF OnPage, Recorded
<1>3. ASSUME NEW s \in OnPage \ {row} PROVE PageOf(s)' = PageOf(s)
  <2>1. ASSUME NEW f \in DOMAIN package[s].keys
        PROVE  At(package[s].keys[f])' = At(package[s].keys[f])
    <3>1. /\ s \in RowId /\ f \in FilesOf(s.repo)
          /\ package[s].keys[f] = storageKey(s, f) /\ package[s].keys[f] \in DOMAIN blob
      BY FilesOnPage
    <3>2. storageKey(s, f) # storageKey(row, file)
      BY <3>1, KeysTellApart DEF OnPage, Lone
    <3> QED BY <1>1, <3>1, <3>2 DEF At
  <2> QED BY <2>1 DEF PageOf
<1> QED BY <1>2, <1>3, OneRowChanges

LEMMA RecordShows ==
  ASSUME PagesOK', NEW row \in RowId, NEW entry, AddPackage(row, entry), UNCHANGED blob
  PROVE  [Pages!Next]_Shown
<1>1. /\ Recorded' = Recorded \cup {row}
      /\ \A s \in Recorded \ {row} : package'[s] = package[s]
  BY DEF AddPackage, Put, Recorded
<1>2. OnPage' \ {row} = OnPage \ {row}
  BY <1>1 DEF OnPage
<1>3. \A s \in OnPage \ {row} : PageOf(s)' = PageOf(s)
  BY <1>1 DEF OnPage, PageOf, At
<1> QED BY <1>2, <1>3, OneRowChanges

LEMMA DeletionShows ==
  ASSUME Inv, PagesOK', NEW row \in Recorded, DeletePackage(row)
  PROVE  [Pages!Next]_Shown
<1>1. /\ Recorded' = Recorded \ {row} /\ blob' = blob
      /\ \A s \in Recorded \ {row} : package'[s] = package[s]
  BY DEF DeletePackage, Recorded
<1>2. OnPage' \ {row} = OnPage \ {row}
  BY <1>1 DEF OnPage
<1>3. \A s \in OnPage \ {row} : PageOf(s)' = PageOf(s)
  BY <1>1 DEF OnPage, PageOf, At
<1>4. row \in RowId
  BY DEF Inv, PackageOK
<1> QED BY <1>2, <1>3, <1>4, OneRowChanges

LEMMA ShownStep ==
  ASSUME Inv, PagesOK', [Next]_vars
  PROVE  [Pages!Next]_Shown
<1>1. CASE UNCHANGED <<blob, package>>
  <2>1. Shown' = Shown
    BY <1>1 DEF Shown, Recorded, At
  <2> QED BY <2>1
<1>2. ASSUME NEW p \in Publisher, Publish(p) PROVE [Pages!Next]_Shown
  <2>1. CASE Start(p)
    <3>1. UNCHANGED <<blob, package>>
      BY <2>1, StartShape DEF Begins, Begin
    <3> QED BY <1>1, <3>1
  <2> DEFINE r == publish[p]
  <2>2. CASE Upload(p)
    <3>1. /\ r.row \in RowId /\ r.build \in Build /\ FirstOf(r.left) \in FilesOf(r.row.repo)
      BY <2>2, FirstIs DEF Upload, Sending, Inv, PublishesOK, PublishOK, EntryOK, IsEntry
    <3>2. Store(r.row, FirstOf(r.left), r.build) /\ UNCHANGED package
      BY <2>2 DEF Upload
    <3> HIDE DEF r
    <3> QED BY <3>1, <3>2, StoreShows
  <2>3. CASE Register(p)
    <3>1. r.row \in RowId /\ AddPackage(r.row, r.entry) /\ UNCHANGED blob
      BY <2>3 DEF Register, Recording, Inv, PublishesOK, PublishOK
    <3> HIDE DEF r
    <3> QED BY <3>1, RecordShows
  <2>4. CASE CallFails(p)
    BY <1>1, <2>4 DEF CallFails
  <2> QED BY <1>2, <2>1, <2>2, <2>3, <2>4 DEF Publish
<1>3. ASSUME NEW name \in projects["php"], NEW version \in Version, NEW header \in Optional,
             NEW form \in Optional, NEW build \in Build, PutDist(name, version, header, form, build)
      PROVE  [Pages!Next]_Shown
  <2> DEFINE row == ComposerRow(name, version, header, form)
  <2>1. row \in RowId /\ "dist" \in FilesOf(row.repo) /\ Store(row, "dist", build) /\ UNCHANGED package
    BY <1>3, ComposerRowType DEF PutDist, FilesOf
  <2> HIDE DEF row
  <2> QED BY <2>1, StoreShows
<1>4. ASSUME NEW m \in wire, Late(m) PROVE [Pages!Next]_Shown
  <2>1. CallOK(m)
    BY DEF Inv, WireOK
  <2>2. CASE m.to = "storage"
    BY <1>4, <2>1, <2>2, StoreShows DEF Late, CallOK
  <2>3. CASE m.to # "storage"
    BY <1>4, <2>1, <2>3, RecordShows DEF Late, CallOK
  <2> QED BY <2>2, <2>3
<1>5. ASSUME NEW m \in wire, Lost(m) PROVE [Pages!Next]_Shown
  BY <1>1, <1>5 DEF Lost
<1>6. ASSUME NEW c \in Reader, Read(c) PROVE [Pages!Next]_Shown
  BY <1>1, <1>6 DEF Read, P2, handleFileList, handleMod, handleZip, FetchMod, Fetch
<1>7. CASE UNCHANGED vars
  BY <1>1, <1>7 DEF vars
<1> QED BY <1>2, <1>3, <1>4, <1>5, <1>6, <1>7, DeletionShows DEF Next

\* The three facades keep the promise of a Listing to rows without a Twin: between
\* a row and its files in storage no reader finds a publish half done.
THEOREM ListingImplemented == Spec => ImplementsListing
<1>1. Init => Pages!Init
  <2>1. Init => Recorded = {}
    BY DEF Init, Recorded
  <2> QED BY <2>1 DEF Pages!Init, Shown
<1>2. Inv /\ PagesOK' /\ [Next]_vars => [Pages!Next]_Shown
  BY ShownStep
<1> QED BY <1>1, <1>2, PagesAreReleases, Invariance, PTL DEF Spec, ImplementsListing, Pages!Spec

-----------------------------------------------------------------------------
(***************************************************************************)
(* What the conversions compute, of names and lists of any length.  A      *)
(* conversion is a pass of Names, and what a pass computes is shown by     *)
(* induction, stated of the set of the sequences that have a property: a   *)
(* set that is closed under successor has all numbers because on the       *)
(* numbers up to one that it lacks the successor would map a finite set    *)
(* one to one into a smaller one.                                          *)
(***************************************************************************)

\* A set with 0 and the successors of its numbers has all numbers ...
LEMMA SetInduction ==
  ASSUME NEW S, 0 \in S, \A n \in Nat : n \in S => n + 1 \in S
  PROVE  Nat \subseteq S
<1> SUFFICES ASSUME NEW m \in Nat, m \notin S PROVE FALSE
  OBVIOUS
<1> DEFINE A == {n \in 0 .. m : n \in S}
           next == [n \in A |-> n + 1]
<1>1. IsFiniteSet(A) /\ 0 \in A
  <2>1. IsFiniteSet(0 .. m)
    BY FS_Interval
  <2> QED BY <2>1, FS_Subset
<1>2. next \in [A -> A \ {0}]
  <2>1. ASSUME NEW n \in A PROVE n + 1 \in A \ {0}
    <3>1. n \in Nat /\ n <= m /\ n \in S /\ n # m
      OBVIOUS
    <3>2. n + 1 \in S /\ n + 1 \in 0 .. m /\ n + 1 # 0
      BY <3>1
    <3> QED BY <3>2
  <2> QED BY <2>1
<1>3. \A x, y \in A : next[x] = next[y] => x = y
  OBVIOUS
<1>4. IsFiniteSet(A \ {0}) /\ Cardinality(A \ {0}) = Cardinality(A) - 1 /\ Cardinality(A) \in Nat
  BY <1>1, FS_RemoveElement, FS_CardinalityType
<1>5. \E x, y \in A : x # y /\ next[x] = next[y]
  <2>1. Cardinality(A \ {0}) < Cardinality(A)
    BY <1>4
  <2> HIDE DEF A, next
  <2> QED BY <1>1, <1>2, <1>4, <2>1, FS_PigeonHole
<1> QED BY <1>3, <1>5

\* ... and so does one that has <<>> and every extension of its sequences over C.
LEMMA SeqInduction ==
  ASSUME NEW C, NEW S, <<>> \in S, \A s \in Seq(C), c \in C : s \in S => Append(s, c) \in S
  PROVE  Seq(C) \subseteq S
<1> DEFINE Lengths == {n \in Nat : \A s \in Seq(C) : Len(s) = n => s \in S}
<1>1. 0 \in Lengths
  OBVIOUS
<1>2. ASSUME NEW n \in Nat, n \in Lengths PROVE n + 1 \in Lengths
  <2> SUFFICES ASSUME NEW s \in Seq(C), Len(s) = n + 1 PROVE s \in S
    OBVIOUS
  <2>1. SubSeq(s, 1, n) \in Seq(C) /\ Len(SubSeq(s, 1, n)) = n /\ s[n + 1] \in C
    OBVIOUS
  <2>2. s = Append(SubSeq(s, 1, n), s[n + 1])
    OBVIOUS
  <2> QED BY <1>2, <2>1, <2>2
<1>3. Nat \subseteq Lengths
  <2> HIDE DEF Lengths
  <2> QED BY <1>1, <1>2, SetInduction
<1> QED BY <1>3

\* A pass is well defined: each element is taken once, in its turn.
Traces(after, step, start, seq) ==
  /\ after[0] = start
  /\ \A i \in 1 .. Len(seq) : after[i] = step[after[i - 1]][seq[i]]

LEMMA PassIs ==
  ASSUME NEW step, NEW start, NEW seq, Len(seq) \in Nat
  PROVE  \E after : Traces(after, step, start, seq) /\ Pass(step, start, seq) = after[Len(seq)]
<1> DEFINE Is(f, n) == f = [i \in 0 .. n |-> IF i = 0 THEN start ELSE step[f[i - 1]][seq[i]]]
           Reached == {n \in Nat : \E f : Is(f, n)}
<1>1. 0 \in Reached
  <2>1. Is([i \in 0 .. 0 |-> start], 0)
    OBVIOUS
  <2> QED BY <2>1
<1>2. ASSUME NEW n \in Nat, n \in Reached PROVE n + 1 \in Reached
  <2>1. PICK f : Is(f, n)
    BY <1>2
  <2>2. \A i \in 0 .. n : f[i] = IF i = 0 THEN start ELSE step[f[i - 1]][seq[i]]
    BY <2>1
  <2> DEFINE g == [i \in 0 .. n + 1 |-> IF i <= n THEN f[i] ELSE step[f[n]][seq[n + 1]]]
  <2>3. ASSUME NEW i \in 0 .. n + 1 PROVE g[i] = IF i = 0 THEN start ELSE step[g[i - 1]][seq[i]]
    <3>1. CASE i = 0
      BY <2>2, <3>1
    <3>2. CASE i \in 1 .. n
      <4>1. g[i] = f[i] /\ g[i - 1] = f[i - 1]
        BY <3>2
      <4> QED BY <2>2, <3>2, <4>1
    <3>3. CASE i = n + 1
      <4>1. g[i] = step[f[n]][seq[n + 1]] /\ g[i - 1] = f[n] /\ i # 0
        BY <3>3
      <4> QED BY <3>3, <4>1
    <3> QED BY <3>1, <3>2, <3>3
  <2>4. g = [i \in 0 .. n + 1 |-> g[i]]
    OBVIOUS
  <2> HIDE DEF g
  <2>5. Is(g, n + 1)
    BY <2>3, <2>4
  <2> HIDE DEF Is
  <2> QED BY <2>5
<1>3. Nat \subseteq Reached
  <2> HIDE DEF Reached
  <2> QED BY <1>1, <1>2, SetInduction
<1> DEFINE after == CHOOSE f : Is(f, Len(seq))
<1>4. Is(after, Len(seq))
  <2> HIDE DEF Is
  <2> QED BY <1>3
<1>5. Pass(step, start, seq) = after[Len(seq)]
  BY DEF Pass
<1> HIDE DEF after
<1>6. Traces(after, step, start, seq)
  BY <1>4 DEF Traces
<1> QED BY <1>5, <1>6

\* A step from A to A by the elements of C.
IsStep(step, A, C) == step \in [A -> [C -> A]]

\* Nothing read leaves the start, and one more element takes one more step.
LEMMA PassUnfold ==
  ASSUME NEW A, NEW C, NEW step, IsStep(step, A, C), NEW start \in A
  PROVE  /\ Pass(step, start, <<>>) = start
         /\ \A s \in Seq(C) : Pass(step, start, s) \in A
         /\ \A s \in Seq(C), c \in C :
              Pass(step, start, Append(s, c)) = step[Pass(step, start, s)][c]
<1>2. Pass(step, start, <<>>) = start
  <2>1. PICK f : Traces(f, step, start, <<>>) /\ Pass(step, start, <<>>) = f[Len(<<>>)]
    BY PassIs
  <2> QED BY <2>1 DEF Traces
<1>3. ASSUME NEW s \in Seq(C), NEW c \in C
      PROVE  Pass(step, start, Append(s, c)) = step[Pass(step, start, s)][c]
  <2> DEFINE t == Append(s, c)
  <2>1. t \in Seq(C) /\ Len(t) = Len(s) + 1 /\ Len(s) \in Nat /\ t[Len(t)] = c
        /\ \A i \in 1 .. Len(s) : t[i] = s[i]
    OBVIOUS
  <2>n. Len(s) \in Nat /\ Len(t) \in Nat
    BY <2>1
  <2> HIDE DEF t
  <2>2. PICK f : Traces(f, step, start, s) /\ Pass(step, start, s) = f[Len(s)]
    BY <2>1, PassIs
  <2>3. PICK g : Traces(g, step, start, t) /\ Pass(step, start, t) = g[Len(t)]
    BY <2>n, PassIs
  <2> DEFINE Same == {i \in Nat : i <= Len(s) => f[i] = g[i]}
  <2>4. 0 \in Same
    BY <2>2, <2>3 DEF Traces
  <2>5. ASSUME NEW i \in Nat, i \in Same PROVE i + 1 \in Same
    <3> SUFFICES ASSUME i + 1 <= Len(s) PROVE f[i + 1] = g[i + 1]
      OBVIOUS
    <3>1. i + 1 \in 1 .. Len(s) /\ (i + 1) - 1 = i /\ i <= Len(s)
      BY <2>n
    <3>2. f[i + 1] = step[f[i]][s[i + 1]] /\ g[i + 1] = step[g[i]][t[i + 1]]
      <4>1. i + 1 \in 1 .. Len(t)
        BY <2>1, <3>1
      <4> QED BY <2>2, <2>3, <3>1, <4>1 DEF Traces
    <3>3. f[i] = g[i] /\ s[i + 1] = t[i + 1]
      BY <2>1, <2>5, <3>1
    <3> QED BY <3>2, <3>3
  <2>6. Nat \subseteq Same
    <3> HIDE DEF Same
    <3> QED BY <2>4, <2>5, SetInduction
  <2>7. f[Len(s)] = g[Len(s)]
    BY <2>1, <2>6
  <2>8. g[Len(t)] = step[g[Len(s)]][c]
    <3>1. Len(t) \in 1 .. Len(t) /\ Len(t) - 1 = Len(s)
      BY <2>1
    <3> QED BY <2>1, <2>3, <3>1 DEF Traces
  <2> QED BY <2>2, <2>3, <2>7, <2>8 DEF t
<1>4. \A s \in Seq(C) : Pass(step, start, s) \in A
  <2> DEFINE Typed == {s \in Seq(C) : Pass(step, start, s) \in A}
  <2>1. <<>> \in Typed
    BY <1>2
  <2>2. ASSUME NEW s \in Seq(C), NEW c \in C, s \in Typed PROVE Append(s, c) \in Typed
    BY <1>3, <2>2 DEF IsStep
  <2>3. Seq(C) \subseteq Typed
    <3> HIDE DEF Typed
    <3> QED BY <2>1, <2>2, SeqInduction
  <2> QED BY <2>3
<1> QED BY <1>2, <1>3, <1>4

-----------------------------------------------------------------------------
(* Characters *)

LEMMA CharIs ==
  /\ Char = Lower \cup Upper \cup Digit \cup Other \cup Separator \cup {"!"}
  /\ Lower \cap Upper = {} /\ "!" \notin Lower \cup Upper \cup Digit \cup Separator
  /\ "!" \in Char /\ Separator = {"-", "_", "."}
  /\ Separator \cap (Lower \cup Upper \cup Digit) = {}
  /\ Upper \cap Digit = {}
BY CharAssumption DEF Char, Separator

LEMMA LetterIs ==
  /\ \A c \in Upper : lowerOf[c] \in Lower /\ upperOf(lowerOf[c]) = c
  /\ \A c \in Lower : upperOf(c) \in Upper /\ lowerOf[upperOf(c)] = c
<1>1. /\ lowerOf \in [Upper -> Lower]
      /\ \A c \in Lower : \E u \in Upper : lowerOf[u] = c
      /\ \A u, w \in Upper : lowerOf[u] = lowerOf[w] => u = w
  BY CharAssumption DEF Bijection, Injection, Surjection, IsInjective
<1>2. ASSUME NEW c \in Lower PROVE upperOf(c) \in Upper /\ lowerOf[upperOf(c)] = c
  BY <1>1 DEF upperOf
<1>3. ASSUME NEW c \in Upper PROVE lowerOf[c] \in Lower /\ upperOf(lowerOf[c]) = c
  <2>1. lowerOf[c] \in Lower
    BY <1>1
  <2>2. upperOf(lowerOf[c]) \in Upper /\ lowerOf[upperOf(lowerOf[c])] = lowerOf[c]
    BY <1>2, <2>1
  <2> HIDE DEF upperOf
  <2> QED BY <1>1, <2>1, <2>2
<1> QED BY <1>2, <1>3

LEMMA ToLowerIs ==
  ASSUME NEW c \in Char
  PROVE  /\ ToLower(c) \in Char /\ ToLower(c) \notin Upper
         /\ c \notin Upper => ToLower(c) = c
         /\ ToLower(c) \in Separator <=> c \in Separator
BY CharIs, LetterIs DEF ToLower

LEMMA LastIs ==
  ASSUME NEW C, NEW s \in Seq(C), NEW c \in C
  PROVE  /\ Last(Append(s, c)) = c /\ Append(s, c) # <<>>
         /\ s # <<>> => Last(s) = s[Len(s)] /\ Last(s) \in C /\ Len(s) \in Nat \ {0}
<1>1. Append(s, c) \in Seq(C) /\ Len(Append(s, c)) = Len(s) + 1 /\ Append(s, c)[Len(s) + 1] = c
      /\ Append(s, c) # <<>>
  OBVIOUS
<1>2. s # <<>> => Len(s) \in Nat \ {0} /\ s[Len(s)] \in C
  OBVIOUS
<1> QED BY <1>1, <1>2 DEF Last

\* Nowhere in s does a "-" follow a "-".
SingleDashes(s) == \A i \in 1 .. Len(s) - 1 : ~(s[i] = "-" /\ s[i + 1] = "-")

\* A "-" may be put after whatever does not end in one.
LEMMA SingleAppend ==
  ASSUME NEW C, NEW s \in Seq(C), NEW c \in C
  PROVE  SingleDashes(Append(s, c)) <=> SingleDashes(s) /\ ~(c = "-" /\ IsLast(s, "-"))
<1> DEFINE t == Append(s, c)
<1>1. t \in Seq(C) /\ Len(t) = Len(s) + 1 /\ Len(s) \in Nat /\ t[Len(s) + 1] = c
      /\ \A i \in 1 .. Len(s) : t[i] = s[i]
  OBVIOUS
<1> HIDE DEF t
<1>2. s = <<>> <=> Len(s) = 0
  OBVIOUS
<1>3. IsLast(s, "-") <=> Len(s) # 0 /\ s[Len(s)] = "-"
  BY <1>2 DEF IsLast, Last
<1>4. ASSUME SingleDashes(t) PROVE SingleDashes(s) /\ ~(c = "-" /\ IsLast(s, "-"))
  <2>1. \A i \in 1 .. Len(s) : ~(t[i] = "-" /\ t[i + 1] = "-")
    BY <1>1, <1>4 DEF SingleDashes
  <2>2. SingleDashes(s)
    <3> SUFFICES ASSUME NEW i \in 1 .. Len(s) - 1 PROVE ~(s[i] = "-" /\ s[i + 1] = "-")
      BY DEF SingleDashes
    <3>1. i \in 1 .. Len(s) /\ i + 1 \in 1 .. Len(s)
      BY <1>1
    <3> QED BY <1>1, <2>1, <3>1
  <2>3. ~(c = "-" /\ Len(s) # 0 /\ s[Len(s)] = "-")
    <3> SUFFICES ASSUME Len(s) # 0 PROVE ~(s[Len(s)] = "-" /\ c = "-")
      OBVIOUS
    <3>1. Len(s) \in 1 .. Len(s)
      BY <1>1
    <3> QED BY <1>1, <2>1, <3>1
  <2> QED BY <1>3, <2>2, <2>3
<1>5. ASSUME SingleDashes(s), ~(c = "-" /\ IsLast(s, "-")) PROVE SingleDashes(t)
  <2> SUFFICES ASSUME NEW i \in 1 .. Len(s) PROVE ~(t[i] = "-" /\ t[i + 1] = "-")
    BY <1>1 DEF SingleDashes
  <2>1. CASE i = Len(s)
    BY <1>1, <1>3, <1>5, <2>1
  <2>2. CASE i \in 1 .. Len(s) - 1
    <3>1. i + 1 \in 1 .. Len(s)
      BY <1>1, <2>2
    <3> QED BY <1>1, <1>5, <2>2, <3>1 DEF SingleDashes
  <2> QED BY <1>1, <2>1, <2>2
<1> QED BY <1>4, <1>5 DEF t

-----------------------------------------------------------------------------
(* PyPI *)

LEMMA NormalizeUnfold ==
  /\ normalizeName(<<>>) = <<>>
  /\ \A s \in Seq(Char) : normalizeName(s) \in Seq(Char)
  /\ \A s \in Seq(Char), c \in Char :
       normalizeName(Append(s, c)) =
         IF c \notin Separator THEN Append(normalizeName(s), ToLower(c))
         ELSE IF IsLast(normalizeName(s), "-") THEN normalizeName(s)
         ELSE Append(normalizeName(s), "-")
<1>1. ASSUME NEW out \in Seq(Char), NEW c \in Char
      PROVE  (IF c \notin Separator THEN Append(out, ToLower(c))
              ELSE IF IsLast(out, "-") THEN out ELSE Append(out, "-")) \in Seq(Char)
  <2>1. ToLower(c) \in Char /\ "-" \in Char
    BY ToLowerIs, CharIs
  <2> QED BY <2>1
<1>2. IsStep(normalizeStep, Seq(Char), Char)
  BY <1>1 DEF normalizeStep, IsStep
<1>3. <<>> \in Seq(Char)
  OBVIOUS
<1>4. \A out \in Seq(Char), c \in Char :
        normalizeStep[out][c] = IF c \notin Separator THEN Append(out, ToLower(c))
                                ELSE IF IsLast(out, "-") THEN out ELSE Append(out, "-")
  BY DEF normalizeStep
<1> HIDE DEF normalizeStep
<1>5. /\ Pass(normalizeStep, <<>>, <<>>) = <<>>
      /\ \A s \in Seq(Char) : Pass(normalizeStep, <<>>, s) \in Seq(Char)
      /\ \A s \in Seq(Char), c \in Char :
           Pass(normalizeStep, <<>>, Append(s, c)) = normalizeStep[Pass(normalizeStep, <<>>, s)][c]
  BY <1>2, <1>3, PassUnfold
<1> QED BY <1>4, <1>5 DEF normalizeName

\* Names in lower case with "-" as their only separator.
NormalChar == Char \ (Upper \cup {"_", "."})

\* One more character is kept unless it is a separator after a separator.
LEMMA KeptAppend ==
  ASSUME NEW name \in Seq(Char), NEW c \in Char
  PROVE  /\ Kept(name) \subseteq 1 .. Len(name)
         /\ Kept(Append(name, c)) = IF c \in Separator /\ name # <<>> /\ Last(name) \in Separator
                                    THEN Kept(name) ELSE Kept(name) \cup {Len(name) + 1}
<1> DEFINE t == Append(name, c)
<1>1. t \in Seq(Char) /\ Len(t) = Len(name) + 1 /\ Len(name) \in Nat /\ t[Len(name) + 1] = c
      /\ (\A i \in 1 .. Len(name) : t[i] = name[i])
      /\ DOMAIN t = 1 .. Len(name) + 1 /\ DOMAIN name = 1 .. Len(name)
  OBVIOUS
<1>2. name = <<>> <=> Len(name) = 0
  OBVIOUS
<1>3. name # <<>> => Last(name) = name[Len(name)]
  BY DEF Last
<1> HIDE DEF t
<1>4. ASSUME NEW i \in 1 .. Len(name) PROVE i \in Kept(t) <=> i \in Kept(name)
  <2>1. i = 1 \/ (i - 1 \in 1 .. Len(name))
    BY <1>1
  <2> QED BY <1>1, <2>1 DEF Kept
<1>5. Len(name) + 1 \in Kept(t) <=> c \notin Separator \/ name = <<>> \/ Last(name) \notin Separator
  <2>1. CASE Len(name) = 0
    BY <1>1, <1>2, <2>1 DEF Kept
  <2>2. CASE Len(name) # 0
    <3>1. Len(name) \in 1 .. Len(name) /\ (Len(name) + 1) - 1 = Len(name) /\ Len(name) + 1 # 1
      BY <1>1, <2>2
    <3> QED BY <1>1, <1>2, <1>3, <2>2, <3>1 DEF Kept
  <2> QED BY <2>1, <2>2
<1>6. Kept(t) \subseteq 1 .. Len(name) + 1 /\ Kept(name) \subseteq 1 .. Len(name)
  BY <1>1 DEF Kept
<1>7. \A i \in 1 .. Len(name) + 1 : i \in 1 .. Len(name) \/ i = Len(name) + 1
  BY <1>1
<1>8. Kept(name) \cup {Len(name) + 1} \subseteq 1 .. Len(name) + 1
  BY <1>1, <1>6
<1>9. ASSUME NEW K, K \subseteq 1 .. Len(name) + 1,
             \A i \in 1 .. Len(name) : i \in K <=> i \in Kept(name)
      PROVE  K = IF Len(name) + 1 \in K THEN Kept(name) \cup {Len(name) + 1} ELSE Kept(name)
  <2>1. Len(name) + 1 \notin Kept(name)
    BY <1>1, <1>6
  <2>2. \A i : i \in K <=> i \in Kept(name) \/ (i = Len(name) + 1 /\ Len(name) + 1 \in K)
    BY <1>6, <1>7, <1>9, <2>1
  <2> QED BY <2>2
<1>a. Kept(t) = IF Len(name) + 1 \in Kept(t) THEN Kept(name) \cup {Len(name) + 1} ELSE Kept(name)
  BY <1>4, <1>6, <1>9
<1> QED BY <1>5, <1>6, <1>a DEF t

\* Of some numbers, how many are at most i.
Rank(k, i) == Cardinality({j \in k : j <= i})

\* A larger number changes no rank but its own, which is the last.
LEMMA RankIs ==
  ASSUME NEW m \in Nat, NEW k \in SUBSET (1 .. m)
  PROVE  /\ IsFiniteSet(k) /\ Cardinality(k) \in Nat
         /\ Cardinality(k \cup {m + 1}) = Cardinality(k) + 1
         /\ \A i \in k : /\ Rank(k, i) \in 1 .. Cardinality(k)
                         /\ Rank(k \cup {m + 1}, i) = Rank(k, i)
         /\ Rank(k \cup {m + 1}, m + 1) = Cardinality(k) + 1
<1>1. IsFiniteSet(k) /\ Cardinality(k) \in Nat
  <2>1. IsFiniteSet(1 .. m)
    BY FS_Interval
  <2> QED BY <2>1, FS_Subset, FS_CardinalityType
<1>2. Cardinality(k \cup {m + 1}) = Cardinality(k) + 1
  <2>1. m + 1 \notin k
    OBVIOUS
  <2> QED BY <1>1, <2>1, FS_AddElement
<1>3. ASSUME NEW i \in k
      PROVE  Rank(k, i) \in 1 .. Cardinality(k) /\ Rank(k \cup {m + 1}, i) = Rank(k, i)
  <2> DEFINE below == {j \in k : j <= i}
  <2>1. IsFiniteSet(below) /\ Cardinality(below) <= Cardinality(k) /\ Cardinality(below) \in Nat
    BY <1>1, FS_Subset, FS_CardinalityType
  <2>2. i \in below
    OBVIOUS
  <2>3. Cardinality(below) # 0
    BY <2>1, <2>2, FS_EmptySet
  <2>4. {j \in k \cup {m + 1} : j <= i} = below
    <3>1. i \in Nat /\ ~(m + 1 <= i)
      OBVIOUS
    <3> QED BY <3>1
  <2> HIDE DEF below
  <2>5. Cardinality(below) \in 1 .. Cardinality(k)
    BY <1>1, <2>1, <2>3
  <2>6. Rank(k, i) = Cardinality(below)
    BY DEF Rank, below
  <2>7. Rank(k \cup {m + 1}, i) = Cardinality(below)
    BY <2>4 DEF Rank
  <2> QED BY <2>5, <2>6, <2>7
<1>4. Rank(k \cup {m + 1}, m + 1) = Cardinality(k) + 1
  <2>1. \A j \in k \cup {m + 1} : j <= m + 1
    OBVIOUS
  <2>2. {j \in k \cup {m + 1} : j <= m + 1} = k \cup {m + 1}
    BY <2>1
  <2> QED BY <1>2, <2>2 DEF Rank
<1> QED BY <1>1, <1>2, <1>3, <1>4

\* What normalizeName has made of a name: the characters kept of it, in order.
Normalised(name, n) ==
  /\ n \in Seq(NormalChar) /\ SingleDashes(n)
  /\ IsLast(n, "-") <=> name # <<>> /\ Last(name) \in Separator
  /\ Len(n) = Cardinality(Kept(name))
  /\ \A i \in Kept(name) : n[Rank(Kept(name), i)] =
       IF name[i] \in Separator THEN "-" ELSE ToLower(name[i])

\* The element that a longer name puts after those of n.
LEMMA KeptGrows ==
  ASSUME NEW name \in Seq(Char), NEW n \in Seq(NormalChar), NEW c \in Char, NEW d \in NormalChar,
         Normalised(name, n),
         d = IF c \in Separator THEN "-" ELSE ToLower(c),
         Kept(Append(name, c)) = Kept(name) \cup {Len(name) + 1}
  PROVE  /\ Len(Append(n, d)) = Cardinality(Kept(Append(name, c)))
         /\ \A i \in Kept(Append(name, c)) : Append(n, d)[Rank(Kept(Append(name, c)), i)] =
              IF Append(name, c)[i] \in Separator THEN "-" ELSE ToLower(Append(name, c)[i])
<1> DEFINE t == Append(name, c)
           k == Kept(name)
           l == Len(name) + 1
<1>1. Len(name) \in Nat /\ (\A i \in 1 .. Len(name) : t[i] = name[i]) /\ t[l] = c
  OBVIOUS
<1>2. k \in SUBSET (1 .. Len(name))
  BY KeptAppend
<1> HIDE DEF t, k
<1>3. /\ IsFiniteSet(k) /\ Cardinality(k) \in Nat
      /\ Cardinality(k \cup {l}) = Cardinality(k) + 1
      /\ \A i \in k : Rank(k, i) \in 1 .. Cardinality(k) /\ Rank(k \cup {l}, i) = Rank(k, i)
      /\ Rank(k \cup {l}, l) = Cardinality(k) + 1
  BY <1>1, <1>2, RankIs
<1>4. Len(n) = Cardinality(k)
  BY DEF Normalised, k
<1>5. Len(Append(n, d)) = Len(n) + 1 /\ Append(n, d)[Len(n) + 1] = d
      /\ \A i \in 1 .. Len(n) : Append(n, d)[i] = n[i]
  OBVIOUS
<1>6. Kept(t) = k \cup {l}
  BY DEF t, k
<1>7. ASSUME NEW i \in Kept(t)
      PROVE  Append(n, d)[Rank(Kept(t), i)] = IF t[i] \in Separator THEN "-" ELSE ToLower(t[i])
  <2>1. CASE i \in k
    <3>1. Append(n, d)[Rank(Kept(t), i)] = n[Rank(k, i)]
      BY <1>3, <1>4, <1>5, <1>6, <2>1
    <3>2. t[i] = name[i]
      BY <1>1, <1>2, <2>1
    <3> QED BY <2>1, <3>1, <3>2 DEF Normalised, k
  <2>2. CASE i = l
    <3>1. Append(n, d)[Rank(Kept(t), i)] = d
      BY <1>3, <1>4, <1>5, <1>6, <2>2
    <3> QED BY <1>1, <2>2, <3>1
  <2> QED BY <1>6, <1>7, <2>1, <2>2
<1> QED BY <1>3, <1>4, <1>5, <1>6, <1>7 DEF t

\* The pass of normalizeName keeps, of each prefix, what Kept names.
LEMMA NamesAreNormalised ==
  \A name \in Seq(Char) : Normalised(name, normalizeName(name))
<1> DEFINE Done == {name \in Seq(Char) : Normalised(name, normalizeName(name))}
<1>1. <<>> \in Done
  <2>1. Kept(<<>>) = {} /\ Cardinality({}) = 0
    BY FS_EmptySet DEF Kept
  <2>2. Normalised(<<>>, <<>>)
    BY <2>1 DEF Normalised, SingleDashes, IsLast
  <2> QED BY <2>2, NormalizeUnfold
<1>2. ASSUME NEW name \in Seq(Char), NEW c \in Char, name \in Done PROVE Append(name, c) \in Done
  <2> DEFINE t == Append(name, c)
             n == normalizeName(name)
             d == IF c \in Separator THEN "-" ELSE ToLower(c)
  <2>1. Normalised(name, n)
    BY <1>2
  <2>2. t \in Seq(Char) /\ t # <<>> /\ Last(t) = c
    BY LastIs
  <2>3. d \in NormalChar /\ (d = "-" <=> c \in Separator)
    BY CharIs, ToLowerIs DEF NormalChar
  <2>4. n \in Seq(NormalChar)
    BY <2>1 DEF Normalised
  <2>5. normalizeName(t) = IF c \in Separator /\ IsLast(n, "-") THEN n ELSE Append(n, d)
    BY NormalizeUnfold
  <2> HIDE DEF t, n, d
  <2>6. CASE c \in Separator /\ IsLast(n, "-")
    <3>1. Kept(t) = Kept(name)
      BY <2>1, <2>6, KeptAppend DEF Normalised, t
    <3>2. \A i \in Kept(name) : t[i] = name[i]
      <4>1. \A i \in 1 .. Len(name) : t[i] = name[i]
        BY DEF t
      <4> QED BY <4>1, KeptAppend
    <3>3. Normalised(t, n)
      BY <2>1, <2>2, <2>6, <3>1, <3>2 DEF Normalised
    <3> QED BY <2>2, <2>5, <2>6, <3>3 DEF t
  <2>7. CASE ~(c \in Separator /\ IsLast(n, "-"))
    <3>1. Kept(t) = Kept(name) \cup {Len(name) + 1}
      BY <2>1, <2>7, KeptAppend DEF Normalised, t
    <3>2. /\ Len(Append(n, d)) = Cardinality(Kept(t))
          /\ \A i \in Kept(t) : Append(n, d)[Rank(Kept(t), i)] =
               IF t[i] \in Separator THEN "-" ELSE ToLower(t[i])
      BY <2>1, <2>3, <2>4, <3>1, KeptGrows DEF t, d
    <3>3. Append(n, d) \in Seq(NormalChar) /\ SingleDashes(Append(n, d))
      BY <2>1, <2>3, <2>4, <2>7, SingleAppend DEF Normalised
    <3>4. IsLast(Append(n, d), "-") <=> c \in Separator
      BY <2>3, <2>4, LastIs DEF IsLast
    <3>5. Normalised(t, Append(n, d))
      BY <2>2, <3>2, <3>3, <3>4 DEF Normalised
    <3> QED BY <2>2, <2>5, <2>7, <3>5 DEF t
  <2> QED BY <2>6, <2>7
<1>3. Seq(Char) \subseteq Done
  <2> HIDE DEF Done
  <2> QED BY <1>1, <1>2, SeqInduction
<1> QED BY <1>3

\* ... and has nothing to change in a normal name.
LEMMA NormalNamesStay ==
  \A s \in Seq(NormalChar) : SingleDashes(s) => normalizeName(s) = s
<1> DEFINE Stays == {s \in Seq(NormalChar) : SingleDashes(s) => normalizeName(s) = s}
<1>1. <<>> \in Stays
  BY NormalizeUnfold
<1>2. ASSUME NEW s \in Seq(NormalChar), NEW c \in NormalChar, s \in Stays
      PROVE  Append(s, c) \in Stays
  <2> SUFFICES ASSUME SingleDashes(Append(s, c)) PROVE normalizeName(Append(s, c)) = Append(s, c)
    OBVIOUS
  <2>1. SingleDashes(s) /\ ~(c = "-" /\ IsLast(s, "-"))
    BY SingleAppend
  <2>2. normalizeName(s) = s
    BY <1>2, <2>1
  <2>3. c \in Char /\ ToLower(c) = c /\ (c \in Separator => c = "-")
    BY CharIs, ToLowerIs DEF NormalChar
  <2>4. s \in Seq(Char)
    <3>1. NormalChar \subseteq Char
      BY DEF NormalChar
    <3> HIDE DEF NormalChar
    <3> QED BY <3>1
  <2> QED BY <2>1, <2>2, <2>3, <2>4, NormalizeUnfold
<1>3. Seq(NormalChar) \subseteq Stays
  <2> HIDE DEF Stays
  <2> QED BY <1>1, <1>2, SeqInduction
<1> QED BY <1>3

-----------------------------------------------------------------------------
(* Composer *)

LEMMA SafeIs ==
  /\ SafeChar \subseteq Char /\ Separator \subseteq SafeChar /\ "-" \in Separator
  /\ \A c \in Char : safeOf(c) \in SafeChar
  /\ \A c \in SafeChar : safeOf(c) = c
<1>1. /\ SafeChar \subseteq Char /\ Separator \subseteq SafeChar /\ "-" \in Separator
      /\ SafeChar \cap Upper = {}
  BY CharIs DEF SafeChar
<1>2. \A c \in SafeChar : ToLower(c) = c
  BY <1>1, ToLowerIs
<1> HIDE DEF SafeChar
<1> QED BY <1>1, <1>2 DEF safeOf

LEMMA SanitizeUnfold ==
  /\ Pass(sanitizeStep, <<>>, <<>>) = <<>>
  /\ \A s \in Seq(Char) : Pass(sanitizeStep, <<>>, s) \in Seq(Char)
  /\ \A s \in Seq(Char), c \in Char :
       Pass(sanitizeStep, <<>>, Append(s, c)) =
         IF safeOf(c) = "-" /\ IsLast(Pass(sanitizeStep, <<>>, s), "-")
         THEN Pass(sanitizeStep, <<>>, s)
         ELSE Append(Pass(sanitizeStep, <<>>, s), safeOf(c))
<1>1. ASSUME NEW out \in Seq(Char), NEW c \in Char
      PROVE  (IF safeOf(c) = "-" /\ IsLast(out, "-") THEN out ELSE Append(out, safeOf(c)))
               \in Seq(Char)
  <2>1. safeOf(c) \in Char
    BY SafeIs
  <2> QED BY <2>1
<1>2. IsStep(sanitizeStep, Seq(Char), Char)
  BY <1>1 DEF sanitizeStep, IsStep
<1>3. <<>> \in Seq(Char)
  OBVIOUS
<1>4. \A out \in Seq(Char), c \in Char :
        sanitizeStep[out][c] =
          IF safeOf(c) = "-" /\ IsLast(out, "-") THEN out ELSE Append(out, safeOf(c))
  BY DEF sanitizeStep
<1> HIDE DEF sanitizeStep
<1>5. /\ Pass(sanitizeStep, <<>>, <<>>) = <<>>
      /\ \A s \in Seq(Char) : Pass(sanitizeStep, <<>>, s) \in Seq(Char)
      /\ \A s \in Seq(Char), c \in Char :
           Pass(sanitizeStep, <<>>, Append(s, c)) = sanitizeStep[Pass(sanitizeStep, <<>>, s)][c]
  BY <1>2, <1>3, PassUnfold
<1> QED BY <1>4, <1>5

\* A sequence of safe characters in which no "-" follows a "-".
Clean(s) == s \in Seq(SafeChar) /\ SingleDashes(s)

\* The pass of sanitizeName leaves safe characters and no two dashes in a row ...
LEMMA PassesAreClean ==
  \A name \in Seq(Char) : Clean(Pass(sanitizeStep, <<>>, name))
<1> DEFINE Done == {name \in Seq(Char) : Clean(Pass(sanitizeStep, <<>>, name))}
<1>1. <<>> \in Done
  <2>1. Clean(<<>>) /\ <<>> \in Seq(Char)
    BY DEF Clean, SingleDashes
  <2> QED BY <2>1, SanitizeUnfold
<1>2. ASSUME NEW name \in Seq(Char), NEW c \in Char, name \in Done PROVE Append(name, c) \in Done
  <2> DEFINE out == Pass(sanitizeStep, <<>>, name)
  <2>1. out \in Seq(SafeChar) /\ SingleDashes(out) /\ safeOf(c) \in SafeChar
    BY <1>2, SafeIs DEF Clean
  <2>2. Pass(sanitizeStep, <<>>, Append(name, c)) =
          IF safeOf(c) = "-" /\ IsLast(out, "-") THEN out ELSE Append(out, safeOf(c))
    BY SanitizeUnfold
  <2> HIDE DEF out
  <2>3. CASE safeOf(c) = "-" /\ IsLast(out, "-")
    BY <2>1, <2>2, <2>3 DEF Clean
  <2>4. CASE ~(safeOf(c) = "-" /\ IsLast(out, "-"))
    <3>1. Append(out, safeOf(c)) \in Seq(SafeChar) /\ SingleDashes(Append(out, safeOf(c)))
      BY <2>1, <2>4, SingleAppend
    <3>2. Pass(sanitizeStep, <<>>, Append(name, c)) = Append(out, safeOf(c))
      BY <2>2, <2>4
    <3>3. Append(name, c) \in Seq(Char)
      OBVIOUS
    <3> QED BY <3>1, <3>2, <3>3 DEF Clean
  <2> QED BY <2>3, <2>4
<1>3. Seq(Char) \subseteq Done
  <2> HIDE DEF Done
  <2> QED BY <1>1, <1>2, SeqInduction
<1> QED BY <1>3

\* ... and what is so already as it is.
LEMMA CleanNamesStay ==
  ASSUME NEW name, Clean(name)
  PROVE  Pass(sanitizeStep, <<>>, name) = name
<1> DEFINE Stays == {s \in Seq(SafeChar) : SingleDashes(s) => Pass(sanitizeStep, <<>>, s) = s}
<1>1. <<>> \in Stays
  BY SanitizeUnfold
<1>2. ASSUME NEW s \in Seq(SafeChar), NEW c \in SafeChar, s \in Stays PROVE Append(s, c) \in Stays
  <2> SUFFICES ASSUME SingleDashes(Append(s, c))
               PROVE  Pass(sanitizeStep, <<>>, Append(s, c)) = Append(s, c)
    OBVIOUS
  <2>1. SingleDashes(s) /\ ~(c = "-" /\ IsLast(s, "-"))
    BY SingleAppend
  <2>2. Pass(sanitizeStep, <<>>, s) = s
    BY <1>2, <2>1
  <2>3. c \in Char /\ safeOf(c) = c
    BY SafeIs
  <2>4. s \in Seq(Char)
    BY SafeIs
  <2> QED BY <2>1, <2>2, <2>3, <2>4, SanitizeUnfold
<1>3. Seq(SafeChar) \subseteq Stays
  <2> HIDE DEF Stays
  <2> QED BY <1>1, <1>2, SeqInduction
<1> QED BY <1>3 DEF Clean

\* A set of some numbers up to m has a least and a greatest one.
LEMMA BoundsAre ==
  ASSUME NEW m \in Nat, NEW k \in SUBSET (1 .. m), k # {}
  PROVE  /\ Min(k) \in k /\ \A i \in k : Min(k) <= i
         /\ Max(k) \in k /\ \A i \in k : i <= Max(k)
<1>1. \E i \in k : \A j \in k : i <= j
  <2> SUFFICES ASSUME \A i \in k : \E j \in k : j < i PROVE FALSE
    OBVIOUS
  <2> DEFINE Above == {n \in Nat : \A i \in k : n < i}
  <2>1. 0 \in Above
    OBVIOUS
  <2>2. ASSUME NEW n \in Nat, n \in Above PROVE n + 1 \in Above
    <3> SUFFICES ASSUME NEW i \in k PROVE n + 1 < i
      OBVIOUS
    <3>1. PICK j \in k : j < i
      OBVIOUS
    <3> QED BY <2>2, <3>1
  <2>3. Nat \subseteq Above
    <3> HIDE DEF Above
    <3> QED BY <2>1, <2>2, SetInduction
  <2>4. PICK i \in k : TRUE
    OBVIOUS
  <2>5. m \in Above
    BY <2>3
  <2>6. m < i /\ i \in 1 .. m
    BY <2>5
  <2> QED BY <2>6
<1>2. \E i \in k : \A j \in k : j <= i
  <2> SUFFICES ASSUME \A i \in k : \E j \in k : i < j PROVE FALSE
    OBVIOUS
  <2> DEFINE Below == {n \in Nat : \A i \in k : i + n <= m}
  <2>1. 0 \in Below
    OBVIOUS
  <2>2. ASSUME NEW n \in Nat, n \in Below PROVE n + 1 \in Below
    <3> SUFFICES ASSUME NEW i \in k PROVE i + (n + 1) <= m
      OBVIOUS
    <3>1. PICK j \in k : i < j
      OBVIOUS
    <3>2. j + n <= m
      BY <2>2
    <3> QED BY <3>1, <3>2
  <2>3. Nat \subseteq Below
    <3> HIDE DEF Below
    <3> QED BY <2>1, <2>2, SetInduction
  <2>4. PICK i \in k : TRUE
    OBVIOUS
  <2>5. m \in Below
    BY <2>3
  <2>6. i + m <= m /\ i \in 1 .. m
    BY <2>5
  <2> QED BY <2>6
<1>3. \A i, j \in k : i <= j <=> j >= i
  OBVIOUS
<1> QED BY <1>1, <1>2, <1>3 DEF Min, Max

\* A trimmed name is a clean one with a character other than a separator at each end.
Trimmed(s) == s # <<>> /\ Clean(s) /\ s[1] \notin Separator /\ Last(s) \notin Separator

\* Trimming leaves nothing or a trimmed name, and that as it is.
LEMMA TrimIs ==
  ASSUME NEW s, Clean(s)
  PROVE  /\ TrimSeparators(s) = <<>> \/ Trimmed(TrimSeparators(s))
         /\ Trimmed(s) => TrimSeparators(s) = s
<1> DEFINE inner == {i \in DOMAIN s : s[i] \notin Separator}
           a == Min(inner)
           b == Max(inner)
<1>1. s \in Seq(SafeChar) /\ SingleDashes(s)
  BY DEF Clean
<1>2. Len(s) \in Nat /\ DOMAIN s = 1 .. Len(s) /\ \A i \in 1 .. Len(s) : s[i] \in SafeChar
  BY <1>1
<1>3. inner \in SUBSET (1 .. Len(s))
  BY <1>2
<1>4. TrimSeparators(s) = IF inner = {} THEN <<>> ELSE SubSeq(s, a, b)
  BY DEF TrimSeparators
<1>5. ASSUME inner # {}
      PROVE  /\ a \in 1 .. Len(s) /\ b \in 1 .. Len(s) /\ a <= b
             /\ s[a] \notin Separator /\ s[b] \notin Separator
             /\ \A i \in inner : a <= i /\ i <= b
  <2>1. a \in inner /\ b \in inner /\ \A i \in inner : a <= i /\ i <= b
    <3> HIDE DEF inner
    <3> QED BY <1>2, <1>3, <1>5, BoundsAre
  <2> QED BY <1>2, <2>1
<1>6. ASSUME inner # {} PROVE Trimmed(SubSeq(s, a, b))
  <2> DEFINE t == SubSeq(s, a, b)
             n == b + 1 - a
  <2>1. a \in 1 .. Len(s) /\ b \in 1 .. Len(s) /\ a <= b
        /\ s[a] \notin Separator /\ s[b] \notin Separator
    BY <1>5, <1>6
  <2> HIDE DEF inner, a, b
  <2>2. n \in Nat \ {0} /\ (\A i \in 1 .. n : a + i - 1 \in 1 .. Len(s))
        /\ a + 1 - 1 = a /\ a + n - 1 = b
    BY <1>2, <2>1
  <2>3. t \in Seq(SafeChar) /\ Len(t) = n /\ \A i \in 1 .. n : t[i] = s[a + i - 1]
    BY <1>1, <1>2, <2>1
  <2> HIDE DEF t, n
  <2>4. t # <<>> /\ t[1] = s[a] /\ Last(t) = s[b]
    BY <2>2, <2>3 DEF Last
  <2>5. SingleDashes(t)
    <3> SUFFICES ASSUME NEW i \in 1 .. n - 1 PROVE ~(t[i] = "-" /\ t[i + 1] = "-")
      BY <2>3 DEF SingleDashes
    <3>1. i \in 1 .. n /\ i + 1 \in 1 .. n /\ (a + (i + 1)) - 1 = (a + i - 1) + 1
          /\ a + i - 1 \in 1 .. Len(s) - 1
      BY <1>2, <2>1, <2>2 DEF n
    <3>2. t[i] = s[a + i - 1] /\ t[i + 1] = s[(a + i - 1) + 1]
      <4>1. ASSUME NEW j, j = i + 1 PROVE t[j] = s[(a + i - 1) + 1]
        <5>1. j \in 1 .. n /\ a + j - 1 = (a + i - 1) + 1
          <6>1. a \in Nat /\ i \in Nat
            BY <2>1, <1>2
          <6>2. j \in 1 .. n
            BY <3>1, <4>1
          <6>3. a + j - 1 = (a + i - 1) + 1
            BY <4>1, <6>1
          <6> QED BY <6>2, <6>3
        <5>2. t[j] = s[a + j - 1]
          BY <2>3, <5>1
        <5> QED BY <5>1, <5>2
      <4> QED BY <2>3, <3>1, <4>1
    <3> QED BY <1>1, <3>1, <3>2 DEF SingleDashes
  <2> QED BY <2>1, <2>3, <2>4, <2>5 DEF Trimmed, Clean, t
<1>7. ASSUME Trimmed(s) PROVE inner # {} /\ SubSeq(s, a, b) = s
  <2>1. Len(s) # 0 /\ s[1] \notin Separator /\ s[Len(s)] \notin Separator
    BY <1>1, <1>7 DEF Trimmed, Last
  <2>2. 1 \in inner /\ Len(s) \in inner
    BY <1>2, <2>1
  <2>3. a = 1 /\ b = Len(s)
    <3> HIDE DEF a, b, inner
    <3>1. inner # {}
      BY <2>2
    <3> QED BY <1>2, <1>5, <2>2, <3>1
  <2> HIDE DEF a, b, inner
  <2> QED BY <1>1, <2>2, <2>3
<1> HIDE DEF inner, a, b
<1> QED BY <1>4, <1>6, <1>7

LEMMA SanitizedNames ==
  ASSUME NEW name \in Seq(Char)
  PROVE  \/ sanitizeName(name) = <<"package">>
         \/ Trimmed(sanitizeName(name)) /\ sanitizeName(sanitizeName(name)) = sanitizeName(name)
<1> DEFINE n == TrimSeparators(Pass(sanitizeStep, <<>>, name))
<1>1. n = <<>> \/ Trimmed(n)
  BY PassesAreClean, TrimIs
<1>2. sanitizeName(name) = IF n = <<>> THEN <<"package">> ELSE n
  BY DEF sanitizeName, orPackage
<1> HIDE DEF n
<1>3. ASSUME Trimmed(n) PROVE sanitizeName(n) = n
  <2>1. Pass(sanitizeStep, <<>>, n) = n /\ TrimSeparators(n) = n /\ n # <<>>
    BY <1>3, CleanNamesStay, TrimIs DEF Trimmed
  <2> QED BY <2>1 DEF sanitizeName, orPackage
<1> QED BY <1>1, <1>2, <1>3

-----------------------------------------------------------------------------
(* Go *)

LEMMA EncodeUnfold ==
  /\ encodeModulePath(<<>>) = <<>>
  /\ \A s \in Seq(Char) : encodeModulePath(s) \in Seq(Char)
  /\ \A s \in Seq(Char), c \in Char :
       encodeModulePath(Append(s, c)) =
         IF c \in Upper THEN Append(Append(encodeModulePath(s), "!"), lowerOf[c])
         ELSE Append(encodeModulePath(s), c)
<1>1. ASSUME NEW out \in Seq(Char), NEW c \in Char
      PROVE  /\ (IF c \in Upper THEN out \o <<"!", lowerOf[c]>> ELSE Append(out, c)) \in Seq(Char)
             /\ c \in Upper => out \o <<"!", lowerOf[c]>> = Append(Append(out, "!"), lowerOf[c])
  <2>1. "!" \in Char /\ (c \in Upper => lowerOf[c] \in Char)
    BY CharIs, LetterIs
  <2> QED BY <2>1
<1>2. IsStep(encodeStep, Seq(Char), Char)
  BY <1>1 DEF encodeStep, IsStep
<1>3. <<>> \in Seq(Char)
  OBVIOUS
<1>4. \A out \in Seq(Char), c \in Char :
        encodeStep[out][c] = IF c \in Upper THEN Append(Append(out, "!"), lowerOf[c])
                             ELSE Append(out, c)
  BY <1>1 DEF encodeStep
<1> HIDE DEF encodeStep
<1>5. /\ Pass(encodeStep, <<>>, <<>>) = <<>>
      /\ \A s \in Seq(Char) : Pass(encodeStep, <<>>, s) \in Seq(Char)
      /\ \A s \in Seq(Char), c \in Char :
           Pass(encodeStep, <<>>, Append(s, c)) = encodeStep[Pass(encodeStep, <<>>, s)][c]
  BY <1>2, <1>3, PassUnfold
<1> QED BY <1>4, <1>5 DEF encodeModulePath

\* Where decoding stands after the characters of s.
ReadUpTo(s) == Pass(decodeStep, NotRead, s)

LEMMA DecodeUnfold ==
  /\ ReadUpTo(<<>>) = NotRead
  /\ \A s \in Seq(Char) : ReadUpTo(s) \in Decoding
  /\ \A s \in Seq(Char), c \in Char :
       ReadUpTo(Append(s, c)) = decodeChar(ReadUpTo(s), c)
<1>1. ASSUME NEW s \in Decoding, NEW c \in Char
      PROVE  decodeChar(s, c) \in Decoding
  <2>1. c \in Lower => upperOf(c) \in Char
    BY CharIs, LetterIs
  <2>2. s.out \in Seq(Char) /\ s.escape \in BOOLEAN /\ s.ok \in BOOLEAN
    BY DEF Decoding
  <2>3. (IF c \in Lower THEN Append(s.out, upperOf(c)) ELSE s.out) \in Seq(Char)
        /\ Append(s.out, c) \in Seq(Char)
    BY <2>1, <2>2
  <2>4. (s.ok /\ c \in Lower) \in BOOLEAN /\ (s.ok /\ c \notin Upper) \in BOOLEAN
    OBVIOUS
  <2>5. Escaped(s, c) \in Decoding
    BY <2>3, <2>4 DEF Escaped, Decoding
  <2> QED BY <2>2, <2>3, <2>4, <2>5 DEF decodeChar, Decoding
<1>2. IsStep(decodeStep, Decoding, Char)
  BY <1>1 DEF decodeStep, IsStep
<1>3. NotRead \in Decoding
  BY DEF NotRead, Decoding
<1>4. \A s \in Decoding, c \in Char :
        decodeStep[s][c] = decodeChar(s, c)
  BY DEF decodeStep
<1> HIDE DEF decodeStep, Decoding, NotRead
<1>5. /\ Pass(decodeStep, NotRead, <<>>) = NotRead
      /\ \A s \in Seq(Char) : Pass(decodeStep, NotRead, s) \in Decoding
      /\ \A s \in Seq(Char), c \in Char :
           Pass(decodeStep, NotRead, Append(s, c)) = decodeStep[Pass(decodeStep, NotRead, s)][c]
  BY <1>2, <1>3, PassUnfold
<1> QED BY <1>4, <1>5 DEF ReadUpTo

\* The three kinds of step, each with what it leaves.
LEMMA DecodingStep ==
  ASSUME NEW s \in Seq(Char), NEW c \in Char
  PROVE  /\ ReadUpTo(s).out \in Seq(Char)
         /\ ReadUpTo(s).escape =>
              /\ ~ReadUpTo(Append(s, c)).escape
              /\ ReadUpTo(Append(s, c)).ok <=> ReadUpTo(s).ok /\ c \in Lower
              /\ c \in Lower => ReadUpTo(Append(s, c)).out = Append(ReadUpTo(s).out, upperOf(c))
         /\ ~ReadUpTo(s).escape /\ c = "!" =>
              /\ ReadUpTo(Append(s, c)).escape
              /\ ReadUpTo(Append(s, c)).ok <=> ReadUpTo(s).ok
              /\ ReadUpTo(Append(s, c)).out = ReadUpTo(s).out
         /\ ~ReadUpTo(s).escape /\ c # "!" =>
              /\ ~ReadUpTo(Append(s, c)).escape
              /\ ReadUpTo(Append(s, c)).ok <=> ReadUpTo(s).ok /\ c \notin Upper
              /\ ReadUpTo(Append(s, c)).out = Append(ReadUpTo(s).out, c)
<1> DEFINE r == ReadUpTo(s)
           q == ReadUpTo(Append(s, c))
<1>1. r \in Decoding
  BY DecodeUnfold
<1>2. q = decodeChar(r, c)
  BY DecodeUnfold
<1> HIDE DEF r, q
<1>3. r.out \in Seq(Char)
  BY <1>1 DEF Decoding
<1>4. ASSUME r.escape
      PROVE  ~q.escape /\ (q.ok <=> r.ok /\ c \in Lower)
             /\ (c \in Lower => q.out = Append(r.out, upperOf(c)))
  BY <1>2, <1>4 DEF decodeChar, Escaped
<1>5. ASSUME ~r.escape, c = "!" PROVE q.escape /\ (q.ok <=> r.ok) /\ q.out = r.out
  BY <1>1, <1>2, <1>5 DEF decodeChar, Decoding
<1>6. ASSUME ~r.escape, c # "!"
      PROVE  ~q.escape /\ (q.ok <=> r.ok /\ c \notin Upper) /\ q.out = Append(r.out, c)
  BY <1>1, <1>2, <1>6 DEF decodeChar, Decoding
<1> QED BY <1>3, <1>4, <1>5, <1>6 DEF r, q

\* Decoding what was encoded ends without an error, with the path.
LEMMA EncodedPathsDecode ==
  \A path \in Seq(Char \ {"!"}) : decodeModulePath(encodeModulePath(path)) = path
<1> DEFINE Plain == Char \ {"!"}
           enc(s) == encodeModulePath(s)
           Back == {s \in Seq(Plain) : /\ ReadUpTo(enc(s)).out = s
                                       /\ ReadUpTo(enc(s)).ok /\ ~ReadUpTo(enc(s)).escape}
<1>1. <<>> \in Back
  <2>1. ReadUpTo(<<>>).out = <<>> /\ ReadUpTo(<<>>).ok /\ ~ReadUpTo(<<>>).escape
    <3>1. ReadUpTo(<<>>) = NotRead
      BY DecodeUnfold
    <3> QED BY <3>1 DEF NotRead
  <2> QED BY <2>1, EncodeUnfold
<1>2. ASSUME NEW s \in Seq(Plain), NEW c \in Plain, s \in Back PROVE Append(s, c) \in Back
  <2>1. s \in Seq(Char) /\ c \in Char /\ c # "!" /\ Append(s, c) \in Seq(Plain)
    OBVIOUS
  <2>2. enc(s) \in Seq(Char) /\ Append(enc(s), "!") \in Seq(Char) /\ "!" \in Char
    <3>1. enc(s) \in Seq(Char) /\ "!" \in Char
      BY <2>1, CharIs, EncodeUnfold
    <3> HIDE DEF enc
    <3> QED BY <3>1
  <2>3. ReadUpTo(enc(s)).out = s /\ ReadUpTo(enc(s)).ok /\ ~ReadUpTo(enc(s)).escape
    BY <1>2
  <2>4. CASE c \in Upper
    <3> DEFINE half == Append(enc(s), "!")
    <3>1. lowerOf[c] \in Lower /\ lowerOf[c] \in Char /\ upperOf(lowerOf[c]) = c
      BY <2>4, CharIs, LetterIs
    <3>2. enc(Append(s, c)) = Append(half, lowerOf[c])
      BY <2>1, <2>4, EncodeUnfold
    <3>3. ReadUpTo(half).out = s /\ ReadUpTo(half).ok /\ ReadUpTo(half).escape
      BY <2>2, <2>3, DecodingStep
    <3> HIDE DEF half
    <3>4. half \in Seq(Char)
      BY <2>2 DEF half
    <3>5. /\ ~ReadUpTo(Append(half, lowerOf[c])).escape
          /\ ReadUpTo(Append(half, lowerOf[c])).ok
          /\ ReadUpTo(Append(half, lowerOf[c])).out = Append(s, c)
      BY <3>1, <3>3, <3>4, DecodingStep
    <3> QED BY <2>1, <3>2, <3>5
  <2>5. CASE c \notin Upper
    <3>1. enc(Append(s, c)) = Append(enc(s), c)
      BY <2>1, <2>5, EncodeUnfold
    <3>2. /\ ~ReadUpTo(Append(enc(s), c)).escape
          /\ ReadUpTo(Append(enc(s), c)).ok
          /\ ReadUpTo(Append(enc(s), c)).out = Append(s, c)
      BY <2>1, <2>2, <2>3, <2>5, DecodingStep
    <3> QED BY <2>1, <3>1, <3>2
  <2> QED BY <2>4, <2>5
<1>3. Seq(Plain) \subseteq Back
  <2> HIDE DEF Back, Plain
  <2> QED BY <1>1, <1>2, SeqInduction
<1> QED BY <1>3 DEF decodeModulePath, Decoded, ReadUpTo

\* While it has met no error, decoding has read the encoding of what it has written.
LEMMA DecodedPathsEncode ==
  ASSUME NEW enc \in Seq(Char), decodeModulePath(enc) # Invalid
  PROVE  encodeModulePath(decodeModulePath(enc)) = enc
<1> DEFINE written(s) == encodeModulePath(ReadUpTo(s).out)
           Back == {s \in Seq(Char) : ReadUpTo(s).ok =>
                      s = IF ReadUpTo(s).escape THEN Append(written(s), "!") ELSE written(s)}
<1>1. <<>> \in Back
  <2>1. ReadUpTo(<<>>).out = <<>> /\ ~ReadUpTo(<<>>).escape
    <3>1. ReadUpTo(<<>>) = NotRead
      BY DecodeUnfold
    <3> QED BY <3>1 DEF NotRead
  <2> QED BY <2>1, EncodeUnfold
<1>2. ASSUME NEW s \in Seq(Char), NEW c \in Char, s \in Back PROVE Append(s, c) \in Back
  <2> DEFINE t == Append(s, c)
  <2>1. t \in Seq(Char) /\ ReadUpTo(s).out \in Seq(Char)
    BY DecodingStep
  <2> SUFFICES ASSUME ReadUpTo(t).ok
               PROVE  t = IF ReadUpTo(t).escape THEN Append(written(t), "!") ELSE written(t)
    BY <2>1
  <2>2. CASE ReadUpTo(s).escape
    <3>1. /\ ReadUpTo(s).ok /\ ~ReadUpTo(t).escape /\ c \in Lower
          /\ ReadUpTo(t).out = Append(ReadUpTo(s).out, upperOf(c))
      BY <2>2, DecodingStep
    <3>2. upperOf(c) \in Upper /\ upperOf(c) \in Char /\ lowerOf[upperOf(c)] = c
      BY <3>1, CharIs, LetterIs
    <3>3. written(t) = Append(Append(written(s), "!"), c)
      BY <2>1, <3>1, <3>2, EncodeUnfold
    <3>4. s = Append(written(s), "!")
      BY <1>2, <2>2, <3>1
    <3> QED BY <3>1, <3>3, <3>4
  <2>3. CASE ~ReadUpTo(s).escape /\ c = "!"
    <3>1. ReadUpTo(s).ok /\ ReadUpTo(t).escape /\ ReadUpTo(t).out = ReadUpTo(s).out
      BY <2>3, DecodingStep
    <3> QED BY <1>2, <2>3, <3>1
  <2>4. CASE ~ReadUpTo(s).escape /\ c # "!"
    <3>1. /\ ReadUpTo(s).ok /\ ~ReadUpTo(t).escape /\ c \notin Upper
          /\ ReadUpTo(t).out = Append(ReadUpTo(s).out, c)
      BY <2>4, DecodingStep
    <3>2. written(t) = Append(written(s), c)
      BY <2>1, <3>1, EncodeUnfold
    <3>3. s = written(s)
      BY <1>2, <2>4, <3>1
    <3> QED BY <3>1, <3>2, <3>3
  <2> QED BY <2>2, <2>3, <2>4
<1>3. Seq(Char) \subseteq Back
  <2> HIDE DEF Back
  <2> QED BY <1>1, <1>2, SeqInduction
<1>4. ReadUpTo(enc).ok /\ ~ReadUpTo(enc).escape /\ decodeModulePath(enc) = ReadUpTo(enc).out
  BY DEF decodeModulePath, Decoded, ReadUpTo
<1> QED BY <1>3, <1>4

-----------------------------------------------------------------------------
(* Versions *)

LEMMA SemverIs ==
  /\ NoVersion \in Semver /\ ~NoVersion.valid
  /\ \A s \in Semver : /\ s.valid \in BOOLEAN /\ s.prefixed \in BOOLEAN
                       /\ s.number \in Nat /\ s.pre \in Nat /\ s.build \in Nat
BY VersionAssumption DEF Semver, Raw, NoVersion

\* What putting the "v" on and off leaves alone.
LEMMA SpellingIs ==
  ASSUME NEW s \in Semver
  PROVE  /\ WithV(s) \in Semver /\ WithV(s).prefixed /\ WithV(s).valid = s.valid
         /\ WithV(s).number = s.number /\ WithV(s).pre = s.pre
         /\ WithoutV(s) \in Semver /\ ~WithoutV(s).prefixed /\ WithoutV(s).valid = s.valid
         /\ WithoutV(s).number = s.number /\ WithoutV(s).pre = s.pre
         /\ ~s.prefixed => WithoutV(WithV(s)) = s
         /\ s.prefixed => WithV(s) = s
         /\ WithV(WithoutV(WithV(s))) = WithV(s)
<1> DEFINE with(t, p) == [prefixed |-> p, valid |-> t.valid, number |-> t.number,
                          pre |-> t.pre, build |-> t.build]
<1>1. ASSUME NEW t \in Semver
      PROVE  /\ t = with(t, t.prefixed)
             /\ WithV(t) = with(t, TRUE) /\ WithoutV(t) = with(t, FALSE)
             /\ with(t, TRUE) \in Semver /\ with(t, FALSE) \in Semver
  <2>1. t \in Raw /\ (~t.valid => t.number = 0 /\ t.pre = 0)
    BY DEF Semver
  <2>2. t = with(t, t.prefixed)
    BY <2>1 DEF Raw
  <2>3. WithV(t) = with(t, TRUE) /\ WithoutV(t) = with(t, FALSE)
    BY DEF WithV, WithoutV, Listed
  <2>4. with(t, TRUE) \in Semver /\ with(t, FALSE) \in Semver
    BY <2>1 DEF Semver, Raw
  <2> QED BY <2>2, <2>3, <2>4
<1>2. WithV(s) \in Semver /\ WithoutV(s) \in Semver
  BY <1>1
<1>3. /\ WithV(s) = with(s, TRUE) /\ WithoutV(s) = with(s, FALSE) /\ s = with(s, s.prefixed)
      /\ WithoutV(WithV(s)) = with(WithV(s), FALSE)
      /\ WithV(WithoutV(WithV(s))) = with(WithoutV(WithV(s)), TRUE)
  <2>1. WithoutV(WithV(s)) \in Semver
    BY <1>1, <1>2
  <2> QED BY <1>1, <1>2, <2>1
<1>4. s.prefixed \in BOOLEAN
  BY SemverIs
<1>5. /\ WithV(s).prefixed /\ WithV(s).valid = s.valid
      /\ WithV(s).number = s.number /\ WithV(s).pre = s.pre /\ WithV(s).build = s.build
      /\ ~WithoutV(s).prefixed /\ WithoutV(s).valid = s.valid
      /\ WithoutV(s).number = s.number /\ WithoutV(s).pre = s.pre /\ WithoutV(s).build = s.build
  BY <1>3
<1>6. ASSUME s.prefixed PROVE WithV(s) = s
  BY <1>3, <1>4, <1>6
<1>7. ASSUME ~s.prefixed PROVE WithoutV(WithV(s)) = s
  <2>1. s.prefixed = FALSE
    BY <1>4, <1>7
  <2> QED BY <1>3, <1>5, <2>1
<1>8. WithV(WithoutV(WithV(s))) = WithV(s)
  <2>1. /\ WithoutV(WithV(s)).valid = s.valid /\ WithoutV(WithV(s)).number = s.number
        /\ WithoutV(WithV(s)).pre = s.pre /\ WithoutV(WithV(s)).build = s.build
    BY <1>3, <1>5
  <2> QED BY <1>3, <2>1
<1> QED BY <1>2, <1>5, <1>6, <1>7, <1>8

\* Precedence is a strict weak order, as sort.SliceStable and the loops need it.
LEMMA PrecedenceIs ==
  ASSUME NEW a \in Semver, NEW b \in Semver, NEW c \in Semver
  PROVE  /\ ~Precedes(a, a)
         /\ ~(Precedes(a, b) /\ Precedes(b, a))
         /\ Precedes(a, b) => Precedes(a, c) \/ Precedes(c, b)
BY SemverIs DEF Precedes

LEMMA TextIs ==
  ASSUME NEW a \in Semver, NEW b \in Semver, NEW c \in Semver
  PROVE  /\ ~(TextBefore(a, b) /\ TextBefore(b, a))
         /\ TextBefore(a, b) => TextBefore(a, c) \/ TextBefore(c, b)
BY SemverIs DEF TextBefore

LEMMA SortingIs ==
  ASSUME NEW a \in Semver, NEW b \in Semver, NEW c \in Semver
  PROVE  /\ ~(SortsBefore(a, b) /\ SortsBefore(b, a))
         /\ SortsBefore(a, b) => SortsBefore(a, c) \/ SortsBefore(c, b)
<1>1. /\ IsValid(a) \in BOOLEAN /\ IsValid(b) \in BOOLEAN /\ IsValid(c) \in BOOLEAN
  BY SemverIs DEF IsValid
<1>2. /\ ~(Precedes(a, b) /\ Precedes(b, a))
      /\ Precedes(a, b) => Precedes(a, c) \/ Precedes(c, b)
  BY PrecedenceIs
<1>3. /\ ~(TextBefore(a, b) /\ TextBefore(b, a))
      /\ TextBefore(a, b) => TextBefore(a, c) \/ TextBefore(c, b)
  BY TextIs
<1> QED BY <1>1, <1>2, <1>3 DEF SortsBefore

\* best is a highest of the versions in S, or none if there is none.
BestOf(best, S) ==
  IF S = {} THEN best = NoVersion ELSE best \in S /\ \A v \in S : ~Precedes(best, v)

\* The better of a highest version and another is a highest one of both.
LEMMA BetterIs ==
  ASSUME NEW S, S \subseteq {v \in Semver : v.valid}, NEW best, BestOf(best, S),
         NEW v \in Semver, v.valid
  PROVE  BestOf(Better(best, v), S \cup {v})
<1>1. ~Precedes(v, v)
  BY PrecedenceIs
<1>2. CASE S = {}
  BY <1>1, <1>2 DEF BestOf, Better
<1>3. CASE S # {}
  <2>1. best \in S /\ best \in Semver /\ best # NoVersion /\ \A w \in S : ~Precedes(best, w)
    BY <1>3, SemverIs DEF BestOf
  <2>2. CASE Precedes(best, v)
    <3>1. ASSUME NEW w \in S PROVE ~Precedes(v, w)
      <4>1. w \in Semver /\ ~Precedes(best, w)
        BY <2>1
      <4>2. Precedes(best, v) => Precedes(best, w) \/ Precedes(w, v)
        BY <2>1, <4>1, PrecedenceIs
      <4>3. ~(Precedes(v, w) /\ Precedes(w, v))
        BY <4>1, PrecedenceIs
      <4> QED BY <2>2, <4>1, <4>2, <4>3
    <3> QED BY <1>1, <2>2, <3>1 DEF BestOf, Better
  <2>3. CASE ~Precedes(best, v)
    BY <2>1, <2>3 DEF BestOf, Better
  <2> QED BY <2>2, <2>3
<1> QED BY <1>2, <1>3

Valid(vs)  == {v \in Range(vs) : IsValid(v)}
Finals(vs) == {v \in Valid(vs) : v.pre = 0}

\* What npm compares.
Named(vs) == {WithV(v) : v \in {w \in Range(vs) : w.valid}}

LEMMA RangeIs ==
  ASSUME NEW vs \in Seq(Semver), NEW v \in Semver
  PROVE  /\ Range(vs) \subseteq Semver
         /\ Range(Append(vs, v)) = Range(vs) \cup {v}
         /\ vs # <<>> => Last(vs) \in Range(vs)
<1>1. /\ DOMAIN Append(vs, v) = 1 .. Len(vs) + 1 /\ DOMAIN vs = 1 .. Len(vs) /\ Len(vs) \in Nat
      /\ Append(vs, v)[Len(vs) + 1] = v
      /\ \A i \in 1 .. Len(vs) : Append(vs, v)[i] = vs[i] /\ vs[i] \in Semver
  OBVIOUS
<1>2. 1 .. Len(vs) + 1 = (1 .. Len(vs)) \cup {Len(vs) + 1}
  BY <1>1
<1>3. vs # <<>> => Len(vs) \in 1 .. Len(vs)
  OBVIOUS
<1>5. Range(Append(vs, v)) = Range(vs) \cup {v}
  BY <1>1, <1>2 DEF Range
<1>6. Range(vs) \subseteq Semver /\ (vs # <<>> => Last(vs) \in Range(vs))
  BY <1>1, <1>3 DEF Range, Last
<1> QED BY <1>5, <1>6

LEMMA LatestUnfold ==
  /\ Pass(latestStep, [any |-> NoVersion, release |-> NoVersion], <<>>)
       = [any |-> NoVersion, release |-> NoVersion]
  /\ \A vs \in Seq(Semver) :
       Pass(latestStep, [any |-> NoVersion, release |-> NoVersion], vs) \in Best
  /\ \A vs \in Seq(Semver), v \in Semver :
       Pass(latestStep, [any |-> NoVersion, release |-> NoVersion], Append(vs, v)) =
         latestStep[Pass(latestStep, [any |-> NoVersion, release |-> NoVersion], vs)][v]
<1>1. ASSUME NEW best \in Best, NEW v \in Semver
      PROVE  (IF ~IsValid(v) THEN best
              ELSE [any     |-> Better(best.any, v),
                    release |-> IF v.pre = 0 THEN Better(best.release, v) ELSE best.release])
               \in Best
  BY DEF Best, Better
<1>2. IsStep(latestStep, Best, Semver)
  BY <1>1 DEF latestStep, IsStep
<1>3. [any |-> NoVersion, release |-> NoVersion] \in Best
  BY SemverIs DEF Best
<1> QED BY <1>2, <1>3, PassUnfold

LEMMA TagUnfold ==
  /\ Pass(npmStep, NoVersion, <<>>) = NoVersion
  /\ \A vs \in Seq(Semver) : Pass(npmStep, NoVersion, vs) \in Semver
  /\ \A vs \in Seq(Semver), v \in Semver :
       Pass(npmStep, NoVersion, Append(vs, v)) = npmStep[Pass(npmStep, NoVersion, vs)][v]
<1>1. \A v \in Semver : WithV(v) \in Semver
  BY SpellingIs
<1>2. IsStep(npmStep, Semver, Semver)
  BY <1>1 DEF npmStep, Better, IsStep
<1>3. NoVersion \in Semver
  BY SemverIs
<1> QED BY <1>2, <1>3, PassUnfold

\* Where goproxy's latestVersion stands after the versions of a list.
Found(vs) == Pass(latestStep, [any |-> NoVersion, release |-> NoVersion], vs)

\* The loop of goproxy keeps a highest version and a highest release.
LEMMA LatestIsBest ==
  \A vs \in Seq(Semver) : /\ BestOf(Found(vs).any, Valid(vs))
                          /\ BestOf(Found(vs).release, Finals(vs))
<1> DEFINE Done == {vs \in Seq(Semver) : /\ BestOf(Found(vs).any, Valid(vs))
                                         /\ BestOf(Found(vs).release, Finals(vs))}
<1>1. <<>> \in Done
  <2>1. Valid(<<>>) = {} /\ Finals(<<>>) = {}
    BY DEF Range, Valid, Finals
  <2>2. Found(<<>>).any = NoVersion /\ Found(<<>>).release = NoVersion
    BY LatestUnfold DEF Found
  <2> QED BY <2>1, <2>2 DEF BestOf
<1>2. ASSUME NEW vs \in Seq(Semver), NEW v \in Semver, vs \in Done PROVE Append(vs, v) \in Done
  <2> DEFINE ws == Append(vs, v)
             f == Found(vs)
             g == Found(ws)
  <2>1. ws \in Seq(Semver)
    OBVIOUS
  <2>2. BestOf(f.any, Valid(vs)) /\ BestOf(f.release, Finals(vs))
    BY <1>2
  <2>3. f \in Best
    BY LatestUnfold DEF Found
  <2>4. g = IF ~IsValid(v) THEN f
            ELSE [any     |-> Better(f.any, v),
                  release |-> IF v.pre = 0 THEN Better(f.release, v) ELSE f.release]
    <3>1. g = latestStep[f][v]
      BY LatestUnfold DEF Found
    <3> HIDE DEF f, g
    <3> QED BY <2>3, <3>1 DEF latestStep
  <2>5. Range(ws) = Range(vs) \cup {v} /\ Range(vs) \subseteq Semver
    BY RangeIs
  <2>6. /\ Valid(ws) = IF IsValid(v) THEN Valid(vs) \cup {v} ELSE Valid(vs)
        /\ Finals(ws) = IF IsValid(v) /\ v.pre = 0 THEN Finals(vs) \cup {v} ELSE Finals(vs)
        /\ Valid(vs) \subseteq {w \in Semver : w.valid}
        /\ Finals(vs) \subseteq {w \in Semver : w.valid}
    <3> HIDE DEF ws
    <3> QED BY <2>5 DEF Valid, Finals, IsValid
  <2> HIDE DEF ws, f, g
  <2>7. CASE ~IsValid(v)
    BY <2>1, <2>2, <2>4, <2>6, <2>7 DEF ws, g
  <2>8. CASE IsValid(v)
    <3>1. g.any = Better(f.any, v)
          /\ g.release = IF v.pre = 0 THEN Better(f.release, v) ELSE f.release
      BY <2>4, <2>8
    <3> USE DEF IsValid
    <3>2. BestOf(g.any, Valid(ws))
      BY <2>2, <2>6, <2>8, <3>1, BetterIs
    <3>3. BestOf(g.release, Finals(ws))
      BY <2>2, <2>6, <2>8, <3>1, BetterIs
    <3> QED BY <2>1, <3>2, <3>3 DEF ws, g
  <2> QED BY <2>7, <2>8
<1>3. Seq(Semver) \subseteq Done
  <2> HIDE DEF Done
  <2> QED BY <1>1, <1>2, SeqInduction
<1> QED BY <1>3

\* The loop of npm keeps a highest version, with its "v".
LEMMA TagIsBest ==
  \A vs \in Seq(Semver) : BestOf(Pass(npmStep, NoVersion, vs), Named(vs))
<1> DEFINE best(vs) == Pass(npmStep, NoVersion, vs)
           Done == {vs \in Seq(Semver) : BestOf(best(vs), Named(vs))}
<1>1. <<>> \in Done
  <2>1. Named(<<>>) = {}
    BY DEF Range, Named
  <2> QED BY <2>1, TagUnfold DEF BestOf
<1>2. ASSUME NEW vs \in Seq(Semver), NEW v \in Semver, vs \in Done PROVE Append(vs, v) \in Done
  <2> DEFINE ws == Append(vs, v)
             w  == WithV(v)
  <2>1. ws \in Seq(Semver) /\ BestOf(best(vs), Named(vs))
    BY <1>2
  <2>2. w \in Semver /\ w.valid = v.valid /\ IsValid(w) = v.valid
    BY SpellingIs, SemverIs DEF IsValid
  <2>3. best(ws) = IF v.valid THEN Better(best(vs), w) ELSE best(vs)
    <3>1. best(ws) = npmStep[best(vs)][v] /\ best(vs) \in Semver
      BY TagUnfold
    <3> HIDE DEF best, ws
    <3> QED BY <2>2, <3>1 DEF npmStep
  <2>4. Range(ws) = Range(vs) \cup {v} /\ Range(vs) \subseteq Semver
    BY RangeIs
  <2> HIDE DEF ws, best, w
  <2>5. Named(ws) = IF v.valid THEN Named(vs) \cup {w} ELSE Named(vs)
    BY <2>4 DEF Named, w
  <2>6. Named(vs) \subseteq {u \in Semver : u.valid}
    BY <2>4, SpellingIs DEF Named
  <2>7. BestOf(best(ws), Named(ws))
    BY <2>1, <2>2, <2>3, <2>5, <2>6, BetterIs
  <2> QED BY <2>1, <2>7 DEF ws
<1>3. Seq(Semver) \subseteq Done
  <2> HIDE DEF Done
  <2> QED BY <1>1, <1>2, SeqInduction
<1> QED BY <1>3

-----------------------------------------------------------------------------
(* The theorems *)

LEMMA Spelled == Spelling => [](spelled \in Seq(Char) /\ versions \in Seq(Semver))
<1> DEFINE Typed == spelled \in Seq(Char) /\ versions \in Seq(Semver)
<1>1. Blank => Typed
  BY DEF Blank
<1>2. Typed /\ [Spell]_<<spelled, versions>> => Typed'
  <2> SUFFICES ASSUME Typed, [Spell]_<<spelled, versions>> PROVE Typed'
    OBVIOUS
  <2>1. CASE UNCHANGED <<spelled, versions>>
    BY <2>1
  <2>2. ASSUME NEW c \in Char, AddChar(c) PROVE Typed'
    BY <2>2 DEF AddChar
  <2>3. ASSUME NEW v \in Semver, AddVersion(v) PROVE Typed'
    BY <2>3 DEF AddVersion
  <2> QED BY <2>1, <2>2, <2>3 DEF Spell
<1> QED BY <1>1, <1>2, PTL DEF Spelling

\* normalizeName is a canonical form of every name, of any length.
THEOREM NormalisedOnce == Spelling => []NamesNormalise
<1>1. spelled \in Seq(Char) => NamesNormalise
  <2> SUFFICES ASSUME spelled \in Seq(Char) PROVE NamesNormalise
    OBVIOUS
  <2> DEFINE n == normalizeName(spelled)
  <2>1. Normalised(spelled, n)
    BY NamesAreNormalised
  <2> HIDE DEF n
  <2>2. normalizeName(n) = n
    BY <2>1, NormalNamesStay DEF Normalised
  <2> QED BY <2>1, <2>2 DEF NamesNormalise, Normalised, Rank, n
<1> QED BY <1>1, Spelled, PTL

\* sanitizeName makes one proper path component of every name, and only once.
THEOREM SanitisedNamesAreComponents == Spelling => []NamesAreComponents
<1>1. spelled \in Seq(Char) => NamesAreComponents
  <2> SUFFICES ASSUME spelled \in Seq(Char) PROVE NamesAreComponents
    OBVIOUS
  <2> DEFINE n == sanitizeName(spelled)
  <2>1. n = <<"package">> \/ (Trimmed(n) /\ sanitizeName(n) = n)
    BY SanitizedNames
  <2> HIDE DEF n
  <2>2. ASSUME Trimmed(n)
        PROVE  /\ n # <<>> /\ \A i \in DOMAIN n : n[i] \in SafeChar
               /\ n[1] \notin Separator /\ Last(n) \notin Separator
               /\ \A i \in 1 .. Len(n) - 1 : ~(n[i] = "-" /\ n[i + 1] = "-")
    BY <2>2 DEF Trimmed, Clean, SingleDashes
  <2> QED BY <2>1, <2>2 DEF NamesAreComponents, n
<1> QED BY <1>1, Spelled, PTL

\* Module paths and their encodings correspond one to one, whatever their length.
THEOREM PathsCorrespond == Spelling => []PathsRoundTrip
<1>1. spelled \in Seq(Char) => PathsRoundTrip
  <2> SUFFICES ASSUME spelled \in Seq(Char) PROVE PathsRoundTrip
    OBVIOUS
  <2>1. ASSUME "!" \notin Range(spelled) PROVE spelled \in Seq(Char \ {"!"})
    <3>1. \A i \in 1 .. Len(spelled) : spelled[i] \in Char \ {"!"}
      BY <2>1 DEF Range
    <3> QED BY <3>1
  <2> QED BY <2>1, EncodedPathsDecode, DecodedPathsEncode DEF PathsRoundTrip
<1> QED BY <1>1, Spelled, PTL

\* @latest and, but for its "v", the tag "latest" are highest versions of every
\* list, in any order and however they are spelled.
THEOREM LatestVersionsAreHighest == Spelling => []LatestIsHighest
<1>1. versions \in Seq(Semver) => LatestIsHighest
  <2> SUFFICES ASSUME versions \in Seq(Semver) PROVE LatestIsHighest
    OBVIOUS
  <2> DEFINE listed == Range(versions)
             valid == Valid(versions)
             releases == Finals(versions)
             among == IF releases = {} THEN valid ELSE releases
             tagged == {s \in listed : s.valid}
             f == Found(versions)
             best == Pass(npmStep, NoVersion, versions)
             tag == npmLatestVersion(versions)
  <2>1. listed \subseteq Semver /\ (versions # <<>> => Last(versions) \in listed)
    BY RangeIs, SemverIs
  <2>2. BestOf(f.any, valid) /\ BestOf(f.release, releases) /\ BestOf(best, Named(versions))
    BY LatestIsBest, TagIsBest
  <2>3. latestVersion(versions) = IF f.release # NoVersion THEN f.release ELSE f.any
    BY DEF latestVersion, Found
  <2>4. tag = IF best # NoVersion THEN WithoutV(best)
              ELSE IF versions # <<>> THEN Last(versions) ELSE NoVersion
    BY DEF npmLatestVersion
  <2>5. valid \subseteq listed /\ (\A v \in valid : v.valid) /\ releases \subseteq valid
        /\ NoVersion \notin valid
    BY SemverIs DEF Valid, Finals, IsValid
  <2>6. valid = {s \in listed : IsValid(s)} /\ releases = {s \in valid : s.pre = 0}
    BY DEF Valid, Finals
  <2>7. Named(versions) = {WithV(s) : s \in tagged}
    BY DEF Named
  <2> HIDE DEF valid, releases, f, best, tag, listed
  <2>8. IF valid = {} THEN latestVersion(versions) = NoVersion
        ELSE /\ latestVersion(versions) \in among
             /\ \A v \in among : ~Precedes(latestVersion(versions), v)
    BY <2>2, <2>3, <2>5 DEF BestOf
  <2>9. ASSUME tagged # {}
        PROVE  /\ ~tag.prefixed /\ (tag \in listed \/ WithV(tag) \in listed)
               /\ tag.valid /\ \A s \in tagged : ~Precedes(tag, s)
    <3>1. PICK s \in tagged : best = WithV(s)
      BY <2>2, <2>7, <2>9 DEF BestOf
    <3>2. s \in Semver /\ s \in listed /\ s.valid /\ best \in Semver /\ best # NoVersion
      BY <2>1, <3>1, SpellingIs, SemverIs
    <3>3. tag = WithoutV(WithV(s))
      BY <2>4, <3>1, <3>2
    <3>4. ~tag.prefixed /\ tag.valid /\ (tag \in listed \/ WithV(tag) \in listed)
      <4>1. CASE s.prefixed
        BY <3>1, <3>2, <3>3, <4>1, SpellingIs
      <4>2. CASE ~s.prefixed
        BY <3>2, <3>3, <4>2, SpellingIs
      <4> QED BY <3>2, <4>1, <4>2, SemverIs
    <3>5. ASSUME NEW t \in tagged PROVE ~Precedes(tag, t)
      <4>1. ~Precedes(best, WithV(t))
        BY <2>2, <2>7 DEF BestOf
      <4>2. t \in Semver
        BY <2>1
      <4>3. /\ tag.number = best.number /\ tag.pre = best.pre
            /\ WithV(t).number = t.number /\ WithV(t).pre = t.pre
        BY <3>1, <3>2, <3>3, <4>2, SpellingIs
      <4> QED BY <4>1, <4>3 DEF Precedes
    <3> QED BY <3>4, <3>5
  <2>10. ASSUME tagged = {}, versions # <<>> PROVE tag = Last(versions)
    BY <2>2, <2>4, <2>7, <2>10 DEF BestOf
  <2>11. \A a, b, c \in listed :
          /\ ~(SortsBefore(a, b) /\ SortsBefore(b, a))
          /\ SortsBefore(a, b) => SortsBefore(a, c) \/ SortsBefore(c, b)
    BY <2>1, SortingIs
  <2>12. IF tagged # {}
            THEN /\ ~tag.prefixed /\ (tag \in listed \/ WithV(tag) \in listed)
                 /\ tag.valid /\ \A s \in tagged : ~Precedes(tag, s)
            ELSE versions # <<>> => tag = Last(versions)
    BY <2>9, <2>10
  <2> QED BY <2>6, <2>8, <2>11, <2>12 DEF LatestIsHighest, listed, tag
<1> QED BY <1>1, Spelled, PTL

\* Go paths without "!" have no Twin: if "encoded" holds what encodeModulePath
\* makes of them, then what a Go client is served is of the module, the group
\* and the version it asked for.
THEOREM GoPathsTellApart ==
  ASSUME NEW chars,
         \A n \in projects["go"] : /\ chars[n] \in Seq(Char \ {"!"})
                                   /\ chars[encoded[n]] = encodeModulePath(chars[n]),
         \A m, n \in projects["go"] : chars[m] = chars[n] => m = n
  PROVE  \A r, s \in RowId : r.repo = "go" /\ Twin(r, s) => r = s
<1> SUFFICES ASSUME NEW r \in RowId, NEW s \in RowId, r.repo = "go", Twin(r, s)
             PROVE  r = s
  OBVIOUS
<1>1. /\ s.repo = "go" /\ encoded[r.name] = encoded[s.name]
      /\ r.group = s.group /\ r.version = s.version
  BY DEF Twin, SameName, SameText
<1>2. r.name \in projects["go"] /\ s.name \in projects["go"]
  BY <1>1, RowType DEF NamesIn
<1>3. encodeModulePath(chars[r.name]) = encodeModulePath(chars[s.name])
  BY <1>1, <1>2
<1>4. /\ decodeModulePath(encodeModulePath(chars[r.name])) = chars[r.name]
      /\ decodeModulePath(encodeModulePath(chars[s.name])) = chars[s.name]
  BY <1>2, EncodedPathsDecode
<1>5. r.name = s.name
  BY <1>2, <1>3, <1>4
<1> QED BY <1>1, <1>5, RowType

=============================================================================
