------------------------------- MODULE Facades -------------------------------
(***************************************************************************)
(* The Composer, PyPI and Go facades over metadata-service and             *)
(* storage-service, one call between services per step.                    *)
(*                                                                         *)
(* Like npm-service they keep no state and publish by uploading files and  *)
(* then recording a row, but each in its own way: PyPI uploads one of the  *)
(* files of a release in each request, Go one or two files, and Composer   *)
(* one or, with a JSON body, none at all.  Their readers differ, too:      *)
(* Composer and pip get a document and then fetch from storage, while the  *)
(* go command asks for .mod and .zip apart, and either request looks the   *)
(* version up again.                                                       *)
(*                                                                         *)
(* A call takes effect at one instant, but its caller may give up on it    *)
(* and leave it on the wire.  Clients may publish different builds of one  *)
(* release, and name releases that the keys do not tell apart.             *)
(***************************************************************************)
EXTENDS Naturals

CONSTANTS
  Publisher, Reader,
  Project,                \* names
  projects,               \* repository -> the names its clients use
  Version, Group,
  None,                   \* no header, no form value, no vendor
  PublicGroup,
  vendorOf,               \* name -> its part before "/", or None
  sanitized,              \* name, group or version -> sanitizeName of it
  normalized,             \* name -> normalizeName of it
  encoded,                \* name -> encodeModulePath of it
  decoded,                \* module in a GOPROXY request -> decodeModulePath of it
  JsonKey,                \* keys that the clients of a JSON publish may name
  Distribution,           \* the files of a PyPI release
  Build,                  \* what tells two builds of a release apart
  Nothing,                \* no file, no row
  MaxPublishes,           \* bound: publishes begun
  MaxFailures,            \* bound: calls whose caller gives up
  MaxDeletes              \* bound: rows deleted

Repo == {"php", "pypi", "go"}
FilesOf(repo) == CASE repo = "php" -> {"dist"}
                   [] repo = "pypi" -> Distribution
                   [] repo = "go" -> {"zip", "mod"}
File == Distribution \cup {"dist", "zip", "mod"}

ASSUME FacadesAssumption ==
  /\ PublicGroup \in Group /\ None \notin Group
  /\ \A n \in Project : vendorOf[n] \in Group \cup {None}
  /\ \A repo \in Repo : projects[repo] \subseteq Project
  /\ \A n \in projects["pypi"] : normalized[n] \in Project
  /\ \A path \in DOMAIN decoded : decoded[path] \in projects["go"]
  /\ Distribution \cap {"dist", "zip", "mod"} = {}
  /\ MaxPublishes \in Nat /\ MaxFailures \in Nat /\ MaxDeletes \in Nat

VARIABLES
  blob,      \* storage-service: key -> file
  package,   \* metadata-service: row id -> the keys of its files
  publish,   \* the publishes in flight
  wire,      \* calls whose caller has given up
  reader,    \* the downloads in flight
  publishes, failures, deletes,
  crossed    \* history: publishes one of whose files was overwritten before they recorded it

vars == <<blob, package, publish, wire, reader, publishes, failures, deletes, crossed>>

-----------------------------------------------------------------------------
(* Groups, rows and keys *)

\* Composer: the form, the header, the vendor, "public", in this order.
resolveGroup(header, form, name) ==
  IF form # None THEN form
  ELSE IF header # None THEN header
  ELSE IF vendorOf[name] # None THEN vendorOf[name]
  ELSE PublicGroup

FormGroup(form) == IF form # None THEN form ELSE PublicGroup

\* The names of a repository, and the UNIQUE columns of a row.
NamesIn(repo) == IF repo = "pypi" THEN {normalized[n] : n \in projects[repo]} ELSE projects[repo]
RowId == UNION {[repo : {repo}, group : Group, name : NamesIn(repo), version : Version] :
                repo \in Repo}

\* Mutant: the Go layout forgets the version.
Layout_NoVersion(row) ==
  CASE row.repo = "php"  -> <<sanitized[row.group], sanitized[row.name], sanitized[row.version]>>
    [] row.repo = "pypi" -> <<row.group, row.name, row.version>>
    [] row.repo = "go"   -> <<row.group, encoded[row.name], PublicGroup>>

\* The directory of a row's files.
Layout(row) ==
  CASE row.repo = "php"  -> <<sanitized[row.group], sanitized[row.name], sanitized[row.version]>>
    [] row.repo = "pypi" -> <<row.group, row.name, row.version>>
    [] row.repo = "go"   -> <<row.group, encoded[row.name], row.version>>

storageKey(row, file) == [repo |-> row.repo, path |-> Layout(row), file |-> file]

Key == UNION {{storageKey(r, f) : f \in FilesOf(r.repo)} : r \in RowId}
ASSUME JsonAssumption == JsonKey \subseteq Key

\* A file says as what it was uploaded, wherever it is stored.
Content == UNION {[row : {r}, file : FilesOf(r.repo), build : Build] : r \in RowId}
ASSUME NothingIsNoFile == Nothing \notin Content

Put(f, k, v) == [x \in DOMAIN f \cup {k} |-> IF x = k THEN v ELSE f[x]]
At(key) == IF key \in DOMAIN blob THEN blob[key] ELSE Nothing
ContentOf(row, file, build) == [row |-> row, file |-> file, build |-> build]

\* What metadata records: a key for each file, and (history) whether the publish
\* that recorded them uploaded the files, as all but those with JSON do.
EntryOf(row, files) ==
  [keys |-> [f \in files |-> storageKey(row, f)], uploaded |-> TRUE]
JsonEntry(key) == [keys |-> [f \in {"dist"} |-> key], uploaded |-> FALSE]
IsEntry(row, e) ==
  /\ e.uploaded \in BOOLEAN
  /\ DOMAIN e.keys \subseteq FilesOf(row.repo)
  /\ \A f \in DOMAIN e.keys : e.keys[f] \in Key

Recorded == DOMAIN package

-----------------------------------------------------------------------------
(* Publishing *)

\* left holds the files still to be uploaded, entry what will be recorded.
Idle == [pc |-> "idle", row |-> Nothing, left |-> {}, build |-> Nothing, entry |-> Nothing]

\* The form is valid and the user is not the public one.
Begin(p, row, left, build, entry) ==
  /\ publish[p].pc = "idle"
  /\ publishes < MaxPublishes /\ publishes' = publishes + 1
  /\ publish' = [publish EXCEPT ![p] =
       [pc |-> "busy", row |-> row, left |-> left, build |-> build, entry |-> entry]]
  /\ UNCHANGED <<blob, package, wire, reader, failures, deletes, crossed>>

\* Mutant: the row has the name as the client spells it.
PypiUpload_AsSpelled(p, name, version, form, file, build) ==
  LET row == [repo |-> "pypi", group |-> FormGroup(form), name |-> name, version |-> version] IN
  Begin(p, row, {file}, build, EntryOf(row, {file}))

\* POST /upload of PyPI: one file, and the row will list just that one.
PypiUpload(p, name, version, form, file, build) ==
  LET row == [repo |-> "pypi", group |-> FormGroup(form),
              name |-> normalized[name], version |-> version] IN
  Begin(p, row, {file}, build, EntryOf(row, {file}))

\* POST /upload of Go: the zip and, if the form has one, go.mod.
GoUpload(p, name, version, form, withMod, build) ==
  LET row   == [repo |-> "go", group |-> FormGroup(form), name |-> name, version |-> version]
      files == IF withMod THEN {"zip", "mod"} ELSE {"zip"}
  IN Begin(p, row, files, build, EntryOf(row, files))

ComposerRow(name, version, header, form) ==
  [repo |-> "php", group |-> resolveGroup(header, form, name),
   name |-> name, version |-> version]

publishMultipart(p, name, version, header, form, build) ==
  LET row == ComposerRow(name, version, header, form) IN
  Begin(p, row, {"dist"}, build, EntryOf(row, {"dist"}))

\* A record only, of the key the client names or else the row's own.  Nobody
\* looks whether storage has it.
publishJSON(p, name, version, header, form, storage_key) ==
  LET row == ComposerRow(name, version, header, form)
      key == IF storage_key = None THEN storageKey(row, "dist") ELSE storage_key
  IN Begin(p, row, {}, Nothing, JsonEntry(key))

\* A call for storage, with a file, or for metadata, with an entry.
Sending(p)  == publish[p].pc = "busy" /\ publish[p].left # {}
Recording(p) == publish[p].pc = "busy" /\ publish[p].left = {}

\* The zip of a module goes before its go.mod.
FirstOf(left) == CHOOSE f \in left : "zip" \in left => f = "zip"
CallOf(p) ==
  LET r == publish[p] IN
  IF Sending(p)
  THEN [to |-> "storage", id |-> failures, row |-> r.row, file |-> FirstOf(r.left),
        build |-> r.build, entry |-> Nothing]
  ELSE [to |-> "metadata", id |-> failures, row |-> r.row, file |-> Nothing,
        build |-> Nothing, entry |-> r.entry]

\* The publishes that have uploaded a file under the key and not recorded it yet.
Halfway(key) ==
  {p \in Publisher : /\ publish[p].pc = "busy" /\ publish[p].entry.uploaded
                     /\ \E f \in DOMAIN publish[p].entry.keys \ publish[p].left :
                          publish[p].entry.keys[f] = key}

\* PUT /object/{key} and POST /package/{repo}, where they take effect.
Store(row, file, build) ==
  /\ blob' = Put(blob, storageKey(row, file), ContentOf(row, file, build))
  /\ crossed' = crossed \cup Halfway(storageKey(row, file))
AddPackage(row, entry) == package' = Put(package, row, entry)

\* PUT /object/{key} by a client that is to publish with JSON.
PutDist(name, version, header, form, build) ==
  /\ publishes < MaxPublishes /\ publishes' = publishes + 1
  /\ Store(ComposerRow(name, version, header, form), "dist", build)
  /\ UNCHANGED <<package, publish, wire, reader, failures, deletes>>

Sent(p) ==
  LET r == publish[p] IN
  [pc |-> "busy", row |-> r.row, left |-> r.left \ {FirstOf(r.left)},
   build |-> r.build, entry |-> r.entry]

Upload(p) ==
  /\ Sending(p)
  /\ Store(publish[p].row, FirstOf(publish[p].left), publish[p].build)
  /\ publish' = [publish EXCEPT ![p] = Sent(p)]
  /\ UNCHANGED <<package, wire, reader, publishes, failures, deletes>>

Register(p) ==
  /\ Recording(p)
  /\ AddPackage(publish[p].row, publish[p].entry)
  /\ publish' = [publish EXCEPT ![p] = Idle]
  /\ crossed' = crossed \ {p}
  /\ UNCHANGED <<blob, wire, reader, publishes, failures, deletes>>

\* Mutant: the error of an upload is dropped.
CallFails_Ignored(p) ==
  /\ publish[p].pc = "busy"
  /\ failures < MaxFailures /\ failures' = failures + 1
  /\ wire' = wire \cup {CallOf(p)}
  /\ publish' = [publish EXCEPT ![p] = IF Sending(p) THEN Sent(p) ELSE Idle]
  /\ UNCHANGED <<blob, package, reader, publishes, deletes, crossed>>

\* Mutant: the go.mod is optional, so an error of its upload is let pass.
CallFails_OptionalMod(p) ==
  /\ publish[p].pc = "busy"
  /\ failures < MaxFailures /\ failures' = failures + 1
  /\ wire' = wire \cup {CallOf(p)}
  /\ publish' = [publish EXCEPT ![p] = IF CallOf(p).file = "mod" THEN Sent(p) ELSE Idle]
  /\ UNCHANGED <<blob, package, reader, publishes, deletes, crossed>>

\* The call was refused, its answer was lost, or the facade stopped: the
\* publish ends there, and nothing is undone.
CallFails(p) ==
  /\ publish[p].pc = "busy"
  /\ failures < MaxFailures /\ failures' = failures + 1
  /\ wire' = wire \cup {CallOf(p)}
  /\ publish' = [publish EXCEPT ![p] = Idle]
  /\ crossed' = crossed \ {p}
  /\ UNCHANGED <<blob, package, reader, publishes, deletes>>

Late(m) ==
  /\ m \in wire
  /\ wire' = wire \ {m}
  /\ IF m.to = "storage"
     THEN Store(m.row, m.file, m.build) /\ UNCHANGED package
     ELSE AddPackage(m.row, m.entry) /\ UNCHANGED <<blob, crossed>>
  /\ UNCHANGED <<publish, reader, publishes, failures, deletes>>

Lost(m) ==
  /\ m \in wire
  /\ wire' = wire \ {m}
  /\ UNCHANGED <<blob, package, publish, reader, publishes, failures, deletes, crossed>>

\* Mutant: the rows of the version go in every group.
DeletePackage_EveryGroup(r) ==
  /\ deletes < MaxDeletes /\ deletes' = deletes + 1
  /\ LET kept == {s \in Recorded : s.repo # r.repo \/ s.name # r.name \/ s.version # r.version}
     IN package' = [s \in kept |-> package[s]]
  /\ UNCHANGED <<blob, publish, wire, reader, publishes, failures, crossed>>

\* DELETE /package/{repo}/{id}, sent to metadata-service; the files stay.
DeletePackage(r) ==
  /\ deletes < MaxDeletes /\ deletes' = deletes + 1
  /\ package' = [s \in Recorded \ {r} |-> package[s]]
  /\ UNCHANGED <<blob, publish, wire, reader, publishes, failures, crossed>>

-----------------------------------------------------------------------------
(* Reading *)

\* uploaded tells of the entry that the key comes from.
ReaderRecord == [pc : {"idle", "fetch", "lookup"}, repo : Repo, name : Project \cup {Nothing},
                 version : Version \cup {Nothing}, file : File \cup {Nothing},
                 key : Key \cup {Nothing}, uploaded : BOOLEAN]
NotReading == [pc |-> "idle", repo |-> "go", name |-> Nothing, version |-> Nothing,
               file |-> Nothing, key |-> Nothing, uploaded |-> FALSE]

\* A client that asked for a version is to fetch a file of the row r.
Fetching(r, version, f) ==
  [pc |-> "fetch", repo |-> r.repo, name |-> r.name, version |-> version, file |-> f,
   key |-> package[r].keys[f], uploaded |-> package[r].uploaded]

\* The client takes one of the files that its document lists for a row.
Take(c, r) ==
  \E f \in DOMAIN package[r].keys : reader' = [reader EXCEPT ![c] = Fetching(r, r.version, f)]

\* GET /p2/{name}.json of Composer: a dist.url for each version.
P2(c, name) ==
  /\ reader[c].pc = "idle"
  /\ \E r \in Recorded : r.repo = "php" /\ r.name = name /\ Take(c, r)
  /\ UNCHANGED <<blob, package, publish, wire, publishes, failures, deletes, crossed>>

\* GET /simple/{package}/ of PyPI: an anchor with its sha256 for each row.
handleFileList(c, name) ==
  /\ reader[c].pc = "idle"
  /\ \E r \in Recorded : r.repo = "pypi" /\ r.name = normalized[name] /\ Take(c, r)
  /\ UNCHANGED <<blob, package, publish, wire, publishes, failures, deletes, crossed>>

\* Mutant: a row of any version will do.
findVersion_AnyVersion(name, version) == {r \in Recorded : r.repo = "go" /\ r.name = name}

\* The first row of the version is taken, and rows of several groups come in no
\* order.
findVersion(name, version) ==
  {r \in Recorded : r.repo = "go" /\ r.name = name /\ r.version = version}

\* The go command has its go.mod and wants the zip.
ThenZip(name, version) ==
  [pc |-> "lookup", repo |-> "go", name |-> name, version |-> version,
   file |-> Nothing, key |-> Nothing, uploaded |-> FALSE]

\* GET .../@v/{version}.mod: without a go.mod in the row one is made up.
handleMod(c, name, version) ==
  /\ reader[c].pc = "idle"
  /\ \E r \in findVersion(name, version) :
       reader' = [reader EXCEPT ![c] =
         IF "mod" \in DOMAIN package[r].keys THEN Fetching(r, version, "mod")
         ELSE ThenZip(name, version)]
  /\ UNCHANGED <<blob, package, publish, wire, publishes, failures, deletes, crossed>>

\* GET .../@v/{version}.zip, by the same client.
handleZip(c) ==
  LET found == findVersion(reader[c].name, reader[c].version) IN
  /\ reader[c].pc = "lookup"
  /\ \/ found = {} /\ reader' = [reader EXCEPT ![c] = NotReading]
     \/ \E r \in found :
          reader' = [reader EXCEPT ![c] = Fetching(r, reader[c].version, "zip")]
  /\ UNCHANGED <<blob, package, publish, wire, publishes, failures, deletes, crossed>>

\* The go.mod is served, or made up if storage does not answer.
FetchMod(c) ==
  /\ reader[c].pc = "fetch" /\ reader[c].file = "mod"
  /\ reader' = [reader EXCEPT ![c] = ThenZip(reader[c].name, reader[c].version)]
  /\ UNCHANGED <<blob, package, publish, wire, publishes, failures, deletes, crossed>>

Fetch(c) ==
  /\ reader[c].pc = "fetch" /\ reader[c].file # "mod"
  /\ reader' = [reader EXCEPT ![c] = NotReading]
  /\ UNCHANGED <<blob, package, publish, wire, publishes, failures, deletes, crossed>>

-----------------------------------------------------------------------------
Init ==
  /\ blob = <<>> /\ package = <<>>
  /\ publish = [p \in Publisher |-> Idle]
  /\ wire = {}
  /\ reader = [c \in Reader |-> NotReading]
  /\ publishes = 0 /\ failures = 0 /\ deletes = 0
  /\ crossed = {}

Optional == Group \cup {None}

Start(p) ==
  \E version \in Version, form \in Optional :
    \/ \E name \in projects["pypi"], file \in Distribution, build \in Build :
         PypiUpload(p, name, version, form, file, build)
    \/ \E name \in projects["go"], withMod \in BOOLEAN, build \in Build :
         GoUpload(p, name, version, form, withMod, build)
    \/ \E name \in projects["php"], header \in Optional :
         \/ \E build \in Build : publishMultipart(p, name, version, header, form, build)
         \/ \E key \in JsonKey \cup {None} : publishJSON(p, name, version, header, form, key)

Publish(p) == Start(p) \/ Upload(p) \/ Register(p) \/ CallFails(p)

Read(c) ==
  \/ \E name \in projects["php"] : P2(c, name)
  \/ \E name \in projects["pypi"] : handleFileList(c, name)
  \/ \E path \in DOMAIN decoded, version \in Version : handleMod(c, decoded[path], version)
  \/ handleZip(c) \/ FetchMod(c) \/ Fetch(c)

Next ==
  \/ \E p \in Publisher : Publish(p)
  \/ \E name \in projects["php"], version \in Version, header, form \in Optional, build \in Build :
       PutDist(name, version, header, form, build)
  \/ \E m \in wire : Late(m) \/ Lost(m)
  \/ \E r \in Recorded : DeletePackage(r)
  \/ \E c \in Reader : Read(c)

Spec == Init /\ [][Next]_vars

-----------------------------------------------------------------------------
(* Properties *)

\* Every variable has its type; a row lists files of its repository only.
TypeOK ==
  /\ DOMAIN blob \subseteq Key /\ Recorded \subseteq RowId
  /\ \A k \in DOMAIN blob : blob[k] \in Content
  /\ \A r \in Recorded : IsEntry(r, package[r])
  /\ \A p \in Publisher : publish[p].pc \in {"idle", "busy"} /\ publish[p].row \in RowId \cup {Nothing}
  /\ \A c \in Reader : reader[c] \in ReaderRecord
  /\ publishes \in Nat /\ failures \in Nat /\ deletes \in Nat
  /\ crossed \in SUBSET Publisher

\* The releases that their repository's keys do not tell apart: Composer names,
\* groups and versions that are sanitised to the same, and Go paths with "!".
SameText(repo, a, b) == IF repo = "php" THEN sanitized[a] = sanitized[b] ELSE a = b
SameName(repo, m, n) == IF repo = "go" THEN encoded[m] = encoded[n] ELSE SameText(repo, m, n)
Twin(r, s) ==
  /\ r.repo = s.repo /\ SameName(r.repo, r.name, s.name)
  /\ SameText(r.repo, r.group, s.group) /\ SameText(r.repo, r.version, s.version)

\* Whatever a facade lists after uploading it is in storage, however a publish
\* of two or three calls was cut short, retried or crossed by another, and
\* although calls land late.  Of what a JSON publish lists nothing is known.
ListedIsStored ==
  \A r \in Recorded : package[r].uploaded =>
    \A f \in DOMAIN package[r].keys : package[r].keys[f] \in DOMAIN blob

\* What is in storage under such a key was uploaded as that file of that row or
\* of a Twin, whoever published what in the meantime.
ListedIsGenuine ==
  \A r \in Recorded : package[r].uploaded =>
    \A f \in DOMAIN package[r].keys :
      LET stored == At(package[r].keys[f]) IN
      stored # Nothing => stored.file = f /\ Twin(stored.row, r)

\* When a row is recorded storage has just the files that its publish uploaded,
\* all of one build, unless one was overwritten meanwhile by another call.
RecordsOwnUploads ==
  [][\A p \in Publisher : Register(p) /\ p \notin crossed =>
       LET made == publish[p] IN
       made.entry.uploaded => \A f \in DOMAIN made.entry.keys :
         At(made.entry.keys[f]) = ContentOf(made.row, f, made.build)]_vars

\* A client gets the kind of file it asked for, uploaded as the release it asked
\* for or one that the keys do not tell from it, although the go command's two
\* requests look its version up twice and the rows of several groups have it.
DownloadVerifies ==
  [][\A c \in Reader : (Fetch(c) \/ FetchMod(c)) /\ reader[c].uploaded =>
       LET asked == reader[c]  served == At(asked.key) IN
       /\ served # Nothing
       /\ served.file = asked.file /\ served.row.repo = asked.repo
       /\ SameName(asked.repo, served.row.name, asked.name)
       /\ SameText(asked.repo, served.row.version, asked.version)]_vars

\* When nothing is in flight the page of a PyPI project has an anchor for every
\* file of it in storage.
Quiet == wire = {} /\ \A p \in Publisher : publish[p].pc = "idle"
EveryFileListed ==
  Quiet => \A k \in DOMAIN blob : k.repo = "pypi" =>
             \E r \in Recorded : \E f \in DOMAIN package[r].keys : package[r].keys[f] = k

\* The pages, of the rows that were uploaded and have no Twin, are those of a
\* Listing: a row shows files that are all in storage and were uploaded as its
\* own, if not by one publish, and one row changes at one instant, whatever
\* the calls of the publishes in flight do in between.
Lone == {r \in RowId : \A s \in RowId : Twin(r, s) => s = r}
Releases == [r \in RowId |->
  UNION {{[f \in files |-> ContentOf(r, f, build[f])] : build \in [files -> Build]} :
         files \in (SUBSET FilesOf(r.repo)) \ {{}}}]
Shown == [r \in {s \in Recorded \cap Lone : package[s].uploaded} |->
            [f \in DOMAIN package[r].keys |-> At(package[r].keys[f])]]
Pages == INSTANCE Listing WITH Row <- Lone, releases <- Releases, shown <- Shown
ImplementsListing == Pages!Spec

=============================================================================
