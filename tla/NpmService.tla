----------------------------- MODULE NpmService -----------------------------
(***************************************************************************)
(* npm-service over metadata-service and storage-service, one call between *)
(* services per step.                                                      *)
(*                                                                         *)
(* The facade keeps no state: a publish is a loop of two calls for each    *)
(* version, PUT /object to storage and then POST /package to metadata, and *)
(* nothing ties the two together.  Each call takes effect at one instant   *)
(* (BlobStore says so of storage, one upsert statement of metadata), but   *)
(* its caller may give up on it and leave it on the wire, where it may     *)
(* still take effect later.  Readers ask metadata for the document of a    *)
(* package, then metadata again and storage for the tarball.               *)
(*                                                                         *)
(* A tarball stands for its own hash.  Objects are never deleted here: no  *)
(* service or command of the repository calls DELETE /object.              *)
(***************************************************************************)
EXTENDS Naturals

CONSTANTS
  Publisher, Reader,  \* npm clients
  Name, Version,
  Tarball,
  Build,         \* name, version, group -> the tarballs a client may publish as it
  Header,        \* values of x-package-group
  NoHeader,      \* the header is missing
  PublicGroup,
  scopeOf,       \* name -> its scope, or NoScope
  NoScope,
  safeName,      \* name -> "@" dropped and "/" turned into "-"
  Absent,        \* no object, no row, no attachment
  MaxPublishes,  \* bound: publishes begun
  MaxFailures    \* bound: calls whose caller gives up

\* packageGroup: a scoped name is filed under its scope whatever the header says.
packageGroup(name, header) ==
  IF scopeOf[name] # NoScope THEN scopeOf[name]
  ELSE IF header # NoHeader THEN header ELSE PublicGroup

Group == {packageGroup(n, h) : n \in Name, h \in Header \cup {NoHeader}}

\* The UNIQUE columns of a row of the repository "npm", as a publish fills them.
RowId == {r \in [name : Name, version : Version, group : Group] :
            \E h \in Header \cup {NoHeader} : r.group = packageGroup(r.name, h)}

ASSUME NpmAssumption ==
  /\ Build \in [RowId -> SUBSET Tarball]
  /\ Absent \notin Tarball
  /\ MaxPublishes \in Nat /\ MaxFailures \in Nat

VARIABLES
  blob,       \* storage-service: key -> tarball, or Absent
  package,    \* metadata-service: row id -> [integrity, storage_key], or NoRow
  publish,    \* the publishes in flight
  wire,       \* calls whose caller has given up
  reader,     \* the downloads in flight
  publishes, failures,
  sent,       \* history: file name -> tarballs that publishes set out to store as it
  crossed     \* history: publishes whose object may be another's when they record it

vars == <<blob, package, publish, wire, reader, publishes, failures, sent, crossed>>

-----------------------------------------------------------------------------
(* Keys and rows *)

\* npm/{group}/{safe}/{version}/{safe}-{version}.tgz
storageKey(group, name, version) ==
  [group |-> group, safe |-> safeName[name], version |-> version]

FileOf(name, version) == [safe |-> safeName[name], version |-> version]
Base(key) == [safe |-> key.safe, version |-> key.version]

Safe == {safeName[n] : n \in Name}
Key  == [group : Group, safe : Safe, version : Version]
File == [safe : Safe, version : Version]

NoRow == [integrity |-> Absent, storage_key |-> Absent]
Row   == [integrity : Tarball, storage_key : Key]

Recorded == {r \in RowId : package[r] # NoRow}

\* GET /package/npm/by-name: the rows of all groups, ordered by version only.
PackagesByName(name) == {r \in Recorded : r.name = name}

-----------------------------------------------------------------------------
(* PUT /{package}: Publish *)

\* What is left of a request: versions with their attachment, or Absent.
Attachments == UNION {[V -> Tarball \cup {Absent}] : V \in SUBSET Version}

PublishRecord == [pc : {"idle", "next", "upload", "record"},
                  name : Name \cup {Absent}, group : Group \cup {Absent},
                  version : Version \cup {Absent}, left : Attachments]

Idle == [pc |-> "idle", name |-> Absent, group |-> Absent, version |-> Absent,
         left |-> [v \in {} |-> Absent]]

Calling(p)    == publish[p].pc \in {"upload", "record"}
RowOf(p)      == [name |-> publish[p].name, version |-> publish[p].version,
                  group |-> publish[p].group]
KeyOf(r)      == storageKey(r.group, r.name, r.version)
Content(p)    == publish[p].left[publish[p].version]
Without(f, v) == [w \in DOMAIN f \ {v} |-> f[w]]

\* A call left behind: an object for storage, or a row for metadata.
CallOf(p) == [to |-> publish[p].pc, id |-> failures, row |-> RowOf(p),
              tarball |-> Content(p)]
WireCall  == [to : {"upload", "record"}, id : Nat, row : RowId, tarball : Tarball]

\* The publishes between their two calls for the key of r.
Halfway(r) == {p \in Publisher : publish[p].pc = "record" /\ KeyOf(RowOf(p)) = KeyOf(r)}

\* PUT /object/{key} and POST /package/npm, where they take effect.
Store(r, t)  == blob' = [blob EXCEPT ![KeyOf(r)] = t] /\ crossed' = crossed \cup Halfway(r)
Upsert(r, t) == package' = [package EXCEPT ![r] = [integrity |-> t, storage_key |-> KeyOf(r)]]

\* The request is decoded, its token accepted and its user not the public one.
Begin(p, name, header, left) ==
  LET group == packageGroup(name, header) IN
  /\ publish[p].pc = "idle"
  /\ publishes < MaxPublishes
  /\ publishes' = publishes + 1
  /\ DOMAIN left # {}
  /\ \A v \in DOMAIN left :
       left[v] \in Build[[name |-> name, version |-> v, group |-> group]] \cup {Absent}
  /\ publish' = [publish EXCEPT ![p] =
       [pc |-> "next", name |-> name, group |-> group, version |-> Absent, left |-> left]]
  /\ UNCHANGED <<blob, package, wire, reader, failures, sent, crossed>>

\* Mutant: a missing attachment is taken for an empty one.
NextVersion_Unchecked(p, v) ==
  /\ publish[p].pc = "next" /\ v \in DOMAIN publish[p].left
  /\ publish' = [publish EXCEPT ![p] = [@ EXCEPT !.pc = "upload", !.version = v]]
  /\ UNCHANGED <<blob, package, wire, reader, publishes, failures, sent, crossed>>

\* The loop visits the versions in any order.  A version without attachment
\* ends the request with 422, whatever was published before it.
NextVersion(p, v) ==
  /\ publish[p].pc = "next" /\ v \in DOMAIN publish[p].left
  /\ publish' = [publish EXCEPT ![p] =
       IF publish[p].left[v] = Absent THEN Idle
       ELSE [@ EXCEPT !.pc = "upload", !.version = v]]
  /\ sent' = [sent EXCEPT ![FileOf(publish[p].name, v)] =
                @ \cup ({publish[p].left[v]} \ {Absent})]
  /\ UNCHANGED <<blob, package, wire, reader, publishes, failures, crossed>>

Upload(p) ==
  /\ publish[p].pc = "upload"
  /\ Store(RowOf(p), Content(p))
  /\ publish' = [publish EXCEPT ![p] = [@ EXCEPT !.pc = "record"]]
  /\ UNCHANGED <<package, wire, reader, publishes, failures, sent>>

\* After the last version the client is answered 201.
AddPackage(p) ==
  LET rest == Without(publish[p].left, publish[p].version) IN
  /\ publish[p].pc = "record"
  /\ Upsert(RowOf(p), Content(p))
  /\ publish' = [publish EXCEPT ![p] =
       IF DOMAIN rest = {} THEN Idle ELSE [@ EXCEPT !.pc = "next", !.left = rest]]
  /\ crossed' = crossed \ {p}
  /\ UNCHANGED <<blob, wire, reader, publishes, failures, sent>>

\* Mutant: the error of Upload is dropped.
CallFails_Ignored(p) ==
  /\ Calling(p)
  /\ failures < MaxFailures
  /\ failures' = failures + 1
  /\ wire' = wire \cup {CallOf(p)}
  /\ publish' = [publish EXCEPT ![p] =
       IF publish[p].pc = "upload" THEN [@ EXCEPT !.pc = "record"] ELSE Idle]
  /\ crossed' = crossed \ {p}
  /\ UNCHANGED <<blob, package, reader, publishes, sent>>

\* The call was refused (a token expired meanwhile, a service down) or its
\* answer was lost, the client went away, the facade crashed: the publish
\* ends, and nothing it did before is undone.  Whether the call takes effect
\* is for Late and Lost to say.
CallFails(p) ==
  /\ Calling(p)
  /\ failures < MaxFailures
  /\ failures' = failures + 1
  /\ wire' = wire \cup {CallOf(p)}
  /\ publish' = [publish EXCEPT ![p] = Idle]
  /\ crossed' = crossed \ {p}
  /\ UNCHANGED <<blob, package, reader, publishes, sent>>

Late(m) ==
  /\ m \in wire
  /\ wire' = wire \ {m}
  /\ IF m.to = "upload" THEN Store(m.row, m.tarball) /\ UNCHANGED package
                        ELSE Upsert(m.row, m.tarball) /\ UNCHANGED <<blob, crossed>>
  /\ UNCHANGED <<publish, reader, publishes, failures, sent>>

Lost(m) ==
  /\ m \in wire
  /\ wire' = wire \ {m}
  /\ UNCHANGED <<blob, package, publish, reader, publishes, failures, sent, crossed>>

\* Mutant: the rows of every version go.
DeletePackage_AllVersions(r) ==
  /\ r \in Recorded
  /\ package' = [s \in RowId |-> IF s.name = r.name /\ s.group = r.group THEN NoRow ELSE package[s]]
  /\ UNCHANGED <<blob, publish, wire, reader, publishes, failures, sent, crossed>>

\* DELETE /package/npm/{id}, sent to metadata-service; the object stays.
DeletePackage(r) ==
  /\ r \in Recorded
  /\ package' = [package EXCEPT ![r] = NoRow]
  /\ UNCHANGED <<blob, publish, wire, reader, publishes, failures, sent, crossed>>

-----------------------------------------------------------------------------
(* GET /{package} and GET /{package}/-/{file}.tgz *)

ReaderRecord == [pc : {"idle", "lookup", "download"}, name : Name \cup {Absent},
                 integrity : Tarball \cup {Absent}, key : Key \cup {Absent}]
NotReading == [pc |-> "idle", name |-> Absent, integrity |-> Absent, key |-> Absent]

\* The document has one entry for a version, that of the last row listed.
\* The client takes a version, with its integrity and its tarball's URL.
Metadata(c, name) ==
  /\ reader[c].pc = "idle"
  /\ \E r \in PackagesByName(name) :
       reader' = [reader EXCEPT ![c] =
         [pc |-> "lookup", name |-> name, integrity |-> package[r].integrity,
          key |-> package[r].storage_key]]
  /\ UNCHANGED <<blob, package, publish, wire, publishes, failures, sent, crossed>>

\* Mutant: the file name is ignored.
FileMatches_AnyFile(r, c) == TRUE

\* The first row whose key ends in the name the client asked for is taken.
FileMatches(r, c) == Base(package[r].storage_key) = Base(reader[c].key)

Lookup(c) ==
  LET found == {r \in PackagesByName(reader[c].name) : FileMatches(r, c)} IN
  /\ reader[c].pc = "lookup"
  /\ \/ /\ found = {}
        /\ reader' = [reader EXCEPT ![c] = NotReading]
     \/ \E r \in found :
          reader' = [reader EXCEPT ![c] =
            [@ EXCEPT !.pc = "download", !.key = package[r].storage_key]]
  /\ UNCHANGED <<blob, package, publish, wire, publishes, failures, sent, crossed>>

Download(c) ==
  /\ reader[c].pc = "download"
  /\ reader' = [reader EXCEPT ![c] = NotReading]
  /\ UNCHANGED <<blob, package, publish, wire, publishes, failures, sent, crossed>>

-----------------------------------------------------------------------------
Init ==
  /\ blob = [k \in Key |-> Absent]
  /\ package = [r \in RowId |-> NoRow]
  /\ publish = [p \in Publisher |-> Idle]
  /\ wire = {}
  /\ reader = [c \in Reader |-> NotReading]
  /\ publishes = 0 /\ failures = 0
  /\ sent = [f \in File |-> {}]
  /\ crossed = {}

Publish(p) ==
  \/ \E name \in Name, header \in Header \cup {NoHeader}, left \in Attachments :
       Begin(p, name, header, left)
  \/ \E v \in Version : NextVersion(p, v)
  \/ Upload(p) \/ AddPackage(p) \/ CallFails(p)

Read(c) == (\E name \in Name : Metadata(c, name)) \/ Lookup(c) \/ Download(c)

Next ==
  \/ \E p \in Publisher : Publish(p)
  \/ \E m \in wire : Late(m) \/ Lost(m)
  \/ \E r \in RowId : DeletePackage(r)
  \/ \E c \in Reader : Read(c)

Spec == Init /\ [][Next]_vars

-----------------------------------------------------------------------------
(* Properties *)

StateOK ==
  /\ blob \in [Key -> Tarball \cup {Absent}]
  /\ package \in [RowId -> Row \cup {NoRow}]
  /\ publish \in [Publisher -> PublishRecord]
  /\ wire \in SUBSET WireCall
  /\ reader \in [Reader -> ReaderRecord]
  /\ publishes \in Nat /\ failures \in Nat
HistoryOK ==
  /\ sent \in [File -> SUBSET Tarball]
  /\ crossed \in SUBSET Publisher
TypeOK == StateOK /\ HistoryOK

\* A version that metadata lists can be downloaded: its key names an object,
\* although a publish may stop anywhere, be retried, and leave calls behind.
RecordHasBlob == \A r \in Recorded : blob[package[r].storage_key] # Absent

\* A publish records the integrity of the object that is stored at that instant,
\* unless another call stored one under its key between its own two calls.
RecordsOwnUpload ==
  [][\A p \in Publisher : AddPackage(p) /\ p \notin crossed =>
       package'[RowOf(p)].integrity = blob'[KeyOf(RowOf(p))]]_vars

\* A download that the client asked for succeeds, although the lookup behind it
\* may find another row than the document did, and what it brings has the
\* integrity the document promised unless, at some time and under whatever
\* name or group, two publishes set out to store different tarballs as that file.
Agreed(file) == \A t, u \in sent[file] : t = u
DownloadVerifies ==
  [][\A c \in Reader : Download(c) =>
       /\ blob[reader[c].key] # Absent
       /\ Agreed(Base(reader[c].key)) => blob[reader[c].key] = reader[c].integrity]_vars

\* The documents of npm are those of a Listing: a version shows a tarball that is
\* in storage and was published as it, even when publishes disagree about it,
\* and one row changes at one instant.  Rows whose key is another's too, as
\* those of "acme-foo" and "@acme/foo" in one group, are left out: they show
\* what was last stored under either.
Lone == {r \in RowId : \A s \in RowId :
           s.group = r.group /\ s.version = r.version /\ safeName[s.name] = safeName[r.name]
             => s = r}
Shown == [r \in Recorded \cap Lone |-> blob[package[r].storage_key]]
Pages == INSTANCE Listing WITH Row <- Lone, releases <- Build, shown <- Shown
ImplementsListing == Pages!Spec

=============================================================================
