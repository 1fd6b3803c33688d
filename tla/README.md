# RepoRangler in TLA+

RepoRangler is a multi-service package registry: an auth-service, a
metadata-service and a storage-service, and one stateless facade for each
packaging ecosystem (npm, Composer, PyPI, Go).  This directory holds TLA+
models of its state-changing parts, the TLC runs that check them, and the
theorems TLAPS proves about them.  Paths are relative to the repository root.

## 1. Inventory

| Part | State it keeps | Operations | Talks to |
|---|---|---|---|
| auth-service (`src/internal/auth`, `src/cmd/auth`) | Postgres: `user`, `login_tokens`, `access_tokens`, `capability`, `capability_map` | login, token check, user CRUD, access tokens, grant/revoke administrator, package-group join/leave/protect/unprotect, seed administrator at boot | metadata-service, to resolve group and repository names |
| metadata-service (`src/internal/metadata`) | Postgres: `repository`, `package_group`, `package` | upsert/list/by-name/delete package, CRUD of groups and repositories | auth-service (every request) |
| storage-service (`src/internal/storage`) | files below one directory | PUT, GET, DELETE, exists, list | auth-service (PUT, GET, DELETE) |
| npm facade (`src/internal/npm`) | none | publish, package document, tarball, `/-/all` | auth, metadata, storage |
| Composer facade (`src/internal/php`) | none | publish with or without the zip, `packages.json`, `/p2` | auth, metadata, storage |
| PyPI facade (`src/internal/pypi`) | none | upload, simple index, file list, download | auth, metadata, storage |
| Go facade (`src/internal/goproxy`) | none | upload, list, info, mod, zip, latest | auth, metadata, storage |
| clients and middleware (`src/internal/*client`, `src/internal/middleware`) | none | one HTTP call per method; the `auth:token` and `auth:repo` guards | the services |
| CLI (`src/cmd/cli`) | one configuration file | login, user and package management, publish | auth, metadata, facades |
| plumbing (`src/internal/pg`, `httpx`, `config`) | none | connect, migrate, JSON envelopes, environment | - |

What makes the system hard to get right:

- **No transactions.**  Every service runs its SQL statement by statement on a
  connection pool.  Checks and the writes they guard are separate statements
  (the administrator count and the DELETE, the duplicate check and the INSERT),
  and handlers run concurrently.
- **Half-done work stays.**  The request context cancels a statement when the
  client goes away; what earlier statements did is kept.  The same holds
  between services: a publish is an upload followed by a record.
- **Schema against code.**  What the foreign keys and unique constraints
  enforce differs from what comments say they enforce.
- **Files.**  Uploads stream to a temporary file and are renamed; deletes look
  first and remove later; keys nest, so that one key may be a directory of
  another.
- **Restarts.**  The seed administrator is created in several statements at
  every boot, over a database that users, renames and deletions have changed.
- **Late calls.**  A facade that gave up on a call, or was told of an error,
  cannot know whether it took effect.

Correctness, part by part: auth must change its administrators only by an
authority and a check that held when they were made, hand credentials and
capabilities only to users that exist, and repair itself at boot; storage
must be an atomic map of whole blobs whatever runs at the same time; a publish
must never leave a record that cannot be downloaded, and a record and a download
must be of what was published, as far as storage keys and the publishes that
cross allow; metadata must keep one row for each version and
group, in a repository that exists, through every rename and deletion;
package-group permissions must change only by somebody's authority over the
group they are about; the conversions of names and versions must be what their
formats define; the CLI must leave one login's token and user id behind, and
send what the services take.

## 2. Modules

| Module | What it is |
|---|---|
| `AdminRegistry` | abstract: administrators that change only by licences given beforehand |
| `AuthService` | auth-service, one SQL statement per step |
| `AuthService_proofs` | its theorems |
| `MCAuthService` | its small instances |
| `BlobStore` | abstract: a concurrent map from keys to whole blobs |
| `StorageService` | storage-service, one file system call per step |
| `StorageService_proofs` | its theorems |
| `MCStorageService` | its small instances |
| `Listing` | abstract: pages on which a row shows files that were published as its own, or is not there |
| `NpmService` | the npm facade over metadata and storage, one service call per step |
| `NpmService_proofs` | its theorems |
| `MCNpmService` | its small instance |
| `NameTable` | a table with a sequence and a UNIQUE name, one SQL statement per action |
| `Metadata` | metadata-service, one SQL statement per step, over two `NameTable`s |
| `NameTable_proofs`, `Metadata_proofs` | their lemmas and theorems |
| `MCMetadata` | its small instance |
| `Access` | operators: what a user's rows allow, and who may administer a group |
| `GroupAuthority` | abstract: access changes only under a mandate over the group |
| `GroupPermissions` | the permission requests of auth-service over metadata's `NameTable`s |
| `GroupPermissions_proofs` | its theorems |
| `MCGroupPermissions` | its small instance |
| `Facades` | the Composer, PyPI and Go facades over metadata and storage, one service call per step |
| `Facades_proofs` | its theorems |
| `MCFacades` | its small instances |
| `Names` | operators: name normalisation, sanitising, module path encoding, latest version |
| `Spelling` | what they are to compute, of the names and lists that a machine spells out |
| `MCNames` | its small instance |
| `Cli` | the CLI: its requests, the routes, and the configuration file |
| `Cli_proofs` | its theorems |
| `MCCli` | its small instance |

`StorageService` implements `BlobStore`; `NpmService` and `Facades` take from
it that a PUT and a GET each take effect at one instant, and implement `Listing`,
each with its own idea of what a row may show.  `AuthService` implements
`AdminRegistry`; `GroupPermissions` implements `GroupAuthority`, and takes from
`AuthService` only that users and administrators change, and that ids are not
issued again.  `MCFacades` assumes of its tables of names that they are what
`Names` computes, so TLC evaluates the conversions there, too.

Where the code lets something go wrong, a model lets it go wrong as well, and a
history variable says of whom it is true: `overtaken` (the requests between a
check and its write that another write has come before), `crossed` (the
publishes whose object another call has overwritten before they recorded it),
`sent` (what was published under a file name).  No action reads them.

Operators ending in `_Something` preceded by a comment "Mutant: ..." are
plausible mistakes; they are no part of the specification and show that the
properties notice them.

### AuthService

State: the tables `user`, `login_tokens`, `access_tokens` and
`capability_map`, the id sequence, the requests in flight (`req`, a program
counter naming the next statement, with the decoded call and the caller that
RequireToken found) and the start-up sequence (`boot`).  Actions, by handler:

| Handler | Actions |
|---|---|
| `GET /login/api` | `LoginSelect`, `LoginInsert` |
| `GET /login/token` and RequireToken | `TokenSelect`, `LoadCaller`; `Expire`, `TokenExpired` |
| `POST /user` | `CreateCheck`, `CreateInsert`, `CreateGrantRest` |
| `PUT`, `DELETE /user/{id}` | `Update`; `Delete` |
| `PUT /permission/user/admin/{id}` | `GrantUser`, `GrantCaps`, `Grant` |
| `DELETE /permission/user/admin/{id}` | `RevokeUser`, `RevokeCaps`, `RevokeCount`, `Revoke` |
| `POST`, `DELETE /access-token/...` | `UpsertAccess`; `DropAccess` |
| boot (`EnsureAdmin`, or without ADMIN_USERNAME nothing) | `SeedSelect`, `SeedInsert`, `SeedGrantAdmin`, `SeedGrantRest`; `SkipSeed` |
| cancelled request or failed statement; crash | `Abort`; `Crash` |

Abstractions: `capability_map` is a set of pairs (no statement tells one row
from two equal ones) and holds only the capabilities without constraint;
whether a password matches is a nondeterministic choice (a login that fails
changes nothing); requests refused by validation or with 401/403 change nothing
and are stutters; the reads that only build an answer are left out; the
constraints of `migrations/0001_init.sql` (UNIQUE on the pair, the two
cascading foreign keys) act inside the statements they guard; tokens are never
issued twice (32 random bytes).

A handler reads the capabilities of its caller once, and `RevokeAdmin` counts in
one statement and deletes in the next.  `AdminRegistry` says what is left of
that when any number of handlers do it at once: whoever appoints or dismisses
holds a licence, given when there was an administrator to ask for it and when
the one appointed existed or the one dismissed was not alone; the licence is used
up later, when all that may have changed.  It does not say that an administrator
remains, which is false; `GuardHolds` says which revokes can be to blame.

### StorageService and BlobStore

State: the file of each key, the directories, the temporary files by name, and
the handlers in flight.  A PUT is `Begin`, `Resolve`, `Mkdir`, `Resolve` again,
`CreateTemp`, `CopyChunk`s, `CopyEnds` or `CopyFails`, `Rename`, and on each
error path after `CreateTemp` a `Discard`, the os.Remove of the file; a GET is
`Begin`, `Resolve`, `Open`; a DELETE is `Begin`, `Resolve`, `Stat`, `Remove`.
`Crash` ends all of them.

A file that carries a key is never written again, so what a reader opened is
what it sends: `Open` is where a GET takes effect.  MkdirAll is one step.  Keys
are those `cleanKey` accepts; `Resolve` fails on a path that leads through a
file (EvalSymlinks returns ENOTDIR).  There are no symbolic links below the
root, and a crash is one of the process: what was written stays.  `Exists` and
`List` only read and are left out.  `cleanKey` accepts the name of a temporary
file as a key, too, one that would name an unfinished upload.  Such keys are not
among the model's.

Refinement: a key's object is the blob whose chunks its file holds, a call is
pending from `Begin` to the step that answers it; a PUT takes effect at
`Rename`, a GET at `Open`, a DELETE at `Remove`, or at `Stat` when there was
nothing to delete.

### NpmService

State: the objects, the `package` rows of the repository `npm`, the publishes
in flight, the calls whose caller gave up (`wire`) and the downloads in flight.
`Begin`, then `NextVersion`, `Upload`, `AddPackage` for each version in any
order (a Go map is ranged over); `CallFails` ends a publish at a call, which
`Late` may still bring to effect and `Lost` drops.  `Metadata`, `Lookup` and
`Download` are a client that reads the document and then the tarball it chose.
`DeletePackage` is sent to metadata directly.

A tarball stands for its hash.  `scopeOf` and `safeName` are constants that
give a name's scope and sanitised form, so that an instance chooses whether
two names collide, and `Build` says what clients may publish as a version: its
publishes may disagree.  Rows of equal version come from Postgres in no
particular order, so a choice among them is nondeterministic.  No code in the
repository calls `DELETE /object`, so objects are not deleted, and nobody but
the facade calls `PUT /object` for the repository npm.  A version is a model
value: that a name or version with "/" in it could change the shape of a key is
not modelled, here or in `Facades`.

### NameTable and Metadata

State: the tables `repository`, `package_group` and `package`, their sequences,
and the requests in flight.  An INSERT advances the sequence even when ON
CONFLICT or the UNIQUE constraint refuses the row, as a BIGSERIAL does.

| Handler | Actions |
|---|---|
| RequireAuth, RequireAdmin | `Arrive` |
| `POST /package/{repo}` | `RepositoryByName`, `UpsertPackage` |
| `DELETE /package/{repo}/{id}` | `RepositoryByName`, `DeletePackage` |
| `POST`, `PUT`, `DELETE` of `/repository` | `CreateRepository`, `UpdateRepository`, `DeleteRepository` |
| `POST`, `PUT`, `DELETE` of `/package-group` | `CreatePackageGroup`, `UpdatePackageGroup`, `DeletePackageGroup` |
| cancelled request or failed statement; restart | `Cancel`; `Restart`, with the migration's seeds |

A package row refers to its repository by a foreign key with ON DELETE CASCADE
and to its group by name.  The other columns are followed in `NpmService` and
`Facades`; reads and listings change nothing and are left out.  Of the two that
list packages, `ListPackages` filters the rows by the reader's groups
(`acl.go:20-52`); `PackagesByName` (`handlers.go:105-121`), which the facades
use, returns the rows of every group, although `routes.go:21` calls the reads
"ACL-filtered".

### Access, GroupPermissions and GroupAuthority

State: metadata's two name tables, and of auth-service the users, the
administrators, the PACKAGE_GROUP_ACCESS rows and the requests in flight.
`LoadCaller` is RequireToken, then decodePGPerm is `TargetUser`,
`resolveGroup` and `resolveRepo` (with the check of the caller's authority),
and the last statement is `PackageGroupJoin`, `PackageGroupLeave` or
`setProtected`.  In between, `ChangePackageGroup` and `ChangeRepository`
rename, delete and create what was resolved, and `ChangeAccount` and
`ChangeAdmins` create and delete users and make and unmake administrators, with
no guard: the statement of a GrantAdmin or RevokeAdmin may come late, and
EnsureAdmin makes an administrator at a start without anybody's word.

A request that has loaded its caller holds the set of groups it may change: the
caller's authority was read once, as in the code, and may be gone when it is
used.  Where a user has two rows for one group, one with and one without admin,
ComputeDerived lets the last row read win; Postgres gives no order, so either
may.  The flags `protected` and `approved` are left out: no code reads the
first and the second is always true.  The abstract `GroupAuthority` keeps, for
each clerk, a mandate over groups; access to a group changes only in a step that
uses one up.

### Facades

State: the objects, the package rows (each with the keys of the files it lists),
the publishes in flight, the calls whose caller gave up, the downloads in
flight.  A publish is one of `publishMultipart`, `publishJSON`, `PypiUpload`,
`GoUpload`, then an `Upload` for each of its files (the zip of a module before
its go.mod) and at last `Register`.  `CallFails` ends it at a call which `Late`
may still bring to effect and `Lost` drops.  Readers are Composer (`P2`), pip
(`handleFileList`) and the go command (`handleMod`, `FetchMod`, `handleZip`),
each followed by `Fetch`.  `PutDist` is a client that puts a Composer zip into
storage itself before `publishJSON`, and `DeletePackage` is sent to metadata
directly.

A file says of which row, as which file and of which build it was uploaded,
wherever it is stored.  Names, groups and versions are short strings;
`sanitized`, `normalized` and `encoded` are tables, and releases that the keys do
not tell apart are each other's `Twin`.  `publishJSON` uploads nothing and looks
at nothing: it records the row's own key or any key the client names, whether or
not there is a file.  The history flag `uploaded` of an entry tells such rows
from those whose publish did upload; `ListedIsStored` and `ListedIsGenuine` speak
of the latter, and say that JSON publishes spoil none of them.  Digests are not
modelled: PyPI keeps a sha256 that the form gives and nobody verifies
(`pypi.go:272-276`), the Composer document has none, and the go command asks its
own checksum database.

### Names

Strings are sequences of characters, of the classes the code tells apart.  Each
conversion is a `Pass`, the loop of the code: a step for each element, from what
the elements before it have left.  `Pass` is a recursive function and a step a
function of a function (`step[left][element]`), which the provers can reason
about, where they cannot about an operator that is an argument.
`decodeModulePath` is partial; versions are records of whether they begin with
"v", whether they are semver if that is seen to, and of what precedence and
build metadata tell apart.  `Spelling` states what is to come of it without a
scan.  The npm facade puts the "v" in front of a version to compare it and takes
it off the highest: of a listed `v1.0.0` the tag `latest` is `1.0.0`, which is no
listed version.  The comment at `npm.go:93-95` takes it that npm versions have no
"v", and then the tag is one.

### Cli

State: the configuration file (its text and length), a command in each process,
and the tokens auth-service issued.  `Start` is ensureConfig; `Request` any
command but login; a login is `Login`, `SaveConfig` (which opens and truncates)
and `WriteFile`.  `Overwritten` is what a write from the start leaves of a
longer text that another process wrote in between.  A flag that the CLI does not
require may be missing (`create-user` has a request without email).  The routes
and the requests of the commands are sets: each `Route` has the fields its handler requires, each
`Ask` the command that makes it and the fields it sends.

## 3. Runs

| Run | Question and answer | Instance |
|---|---|---|
| `auth_handlers` | Two handlers, both of which revoke: do administrators change only by a licence whose conditions held, and only a revoke that another overtook empty the table; can a credential outlive its user, or a new user be born with capabilities? They do, and neither can: `ImplementsRegistry`, `GuardHolds`, `CredentialsOwned`, `UnissuedIdsBare` | 3 ids, 2 handlers, one that also grants and creates, one that also deletes; 2 interchangeable tokens (symmetry) |
| `auth_boot` | Does every boot finish, and each that seeds with an administrator that exists? Yes: `BootRestoresAdmin`, `BootCompletes` | 3 ids, 1 handler, 1 crash |
| `auth_ghost_admin` | Does the guard keep an administrator that exists? **No**, not even with one request at a time | 2 ids, 1 handler |
| `storage_linear` | Is the service an atomic map of whole blobs, with no temporary file left but by a crash, and its directories a tree? Yes: `ImplementsBlobStore`, `WholeBlobs`, `NoLeakedTemps`, `TreeOK` | 2 handlers, nested keys, bodies of 0, 1, 2 chunks, 4 names of temporary files (handlers and names interchangeable: symmetry), 1 crash |
| `npm_publish` | Two publishes with different tarballs of one version, under two groups and two names with one key: can whatever is recorded be downloaded, is a record of the object then stored unless a publish crossed it, is a download as promised unless publishes of that file disagreed, and does no document show a publish half done? Yes: `RecordHasBlob`, `RecordsOwnUpload`, `DownloadVerifies`, `ImplementsListing` | 2 publishes, 1 reader, names `acme-foo` and `@acme/foo`, 2 groups, 2 versions, 3 tarballs, 2 failures |
| `package_index` | Is every package filed under a repository that exists, is a deleted repository gone for good, does a row leave only by its own deletion? Yes, although requests hold ids looked up before: `NoOrphans`, `DeletedIsFinal`, `RowsAreKept` | 2 handlers, 2 names of repositories over 3 ids, one seeded, 2 groups, 3 package ids; each restart uses up an id of the seeded table, so at most two after the first boot |
| `group_permissions` | Does access change only by an authority over the very group, whatever is renamed, deleted, appointed or deposed meanwhile? Yes: `ImplementsAuthority`, `UnissuedHaveNoAccess` | 2 requests, 2 users (both interchangeable: symmetry), 2 groups, one named `2`, 1 repository, 2 access rows, 1 change of a user or administrator |
| `names` | Do the conversions do what PEP 503, the module proxy protocol and semver define? Yes: `NamesNormalise`, `NamesAreComponents`, `PathsRoundTrip`, `LatestIsHighest` | all names of up to 5 characters of 8 classes, all lists of up to 3 versions, with and without "v" |
| `facades` | Publishes of two builds, of names, groups and versions that share keys, JSON publishes of their own or another's key: is what is listed after an upload in storage, uploaded as that file of that release or of a twin; is a record of one build unless crossed; is a download the file asked for; does no page without twins show what was not uploaded as its own? Yes: `ListedIsStored`, `ListedIsGenuine`, `RecordsOwnUploads`, `DownloadVerifies`, `ImplementsListing` | 2 publishes, 1 failed call, 1 deletion, 1 reader, 5 names, 2 groups, 2 versions, 2 builds, 2 files of a PyPI release |
| `pypi_hidden_file` | Does a PyPI page have an anchor for every file of a release? **No**, the last one uploaded only | 2 uploads |
| `cli` | Does the configuration file keep the token and user id of one login, the last one saved? Yes: `TokenAndUserAgree`, `FileIsLastLogin` | 2 processes (interchangeable: symmetry), 3 logins, 2 users whose ids differ in length by 2, 1 process killed |
| `cli_commands` | Does every command send what a route takes? **No**, eight do not, nor does `create-user` without email | the same |

Every **No** is a run that TLC must refute, with the sentence of the source it
contradicts in `PROJECT.json` ("findings").  Each property of the other runs has
a mutant there, a plausible mistake in one definition that TLC finds by it.

Why these bounds are enough: every race of the services is between two
handlers, or between one and another service's tables; two ids beside the seed
let an administrator be replaced and deleted; one crash between any two
statements leaves every partial state a second one could, since recovery starts
from the tables alone; four temporary names are those of two uploads that a crash
ended and of the two after it; three repository ids let a name be deleted and made
again while a request holds the old id; two access rows are a user's contradictory
pair, or two users' rows in one group; two publishes, one of them cut short, are
a retry, a crossing or an overwriting.  Where it matters that no larger instance
differs, the property is proved (section 5).  Bounds are constants named
`Max...` and sit in the guards of the actions that count.

Deadlock is checked for storage, metadata and the CLI.  The others stop where
their bounds are used up: no token is left to log in with, no publish to begin,
no user to ask for anything.

Symmetry is used in runs without liveness properties only.

Larger instances were run once and not kept for the time they take:
`CheckHolds` with two handlers that create and one of them renames (4.4 million
states), and `group_permissions` with two changes of users (3.4 million).

Known to be false, which is why the properties above say what they say:

- that an administrator row remains: two revokes at once each count two and
  delete one (`GuardHolds` without its exemption);
- that usernames, or emails, are unique: two creations at once, or a creation
  beside a rename (`CheckHolds` without its exemption), and a restart that
  inserts the seed again when somebody else has taken ADMIN_EMAIL; the UNIQUE
  constraint is on the pair.  So a login may find two rows;
- that a record has the integrity of its object, where two publishes of one key
  cross, one stops half way, or one repeats another with a different tarball;
- that a Composer row published with JSON lists a file that is in storage, or its
  own;
- that a key tells two Composer names apart, or two Go paths of which one has a
  "!": what was stored last under either is what both rows list;
- that a Go zip is of the build of the go.mod served before it: a republish
  changes the zip before the go.mod, may stop between them, and rows of two
  groups are looked up in no order;
- with a third storage handler, that a DELETE removes what its Stat saw: it may
  remove an empty directory that has taken the place of the file;
- that `latest` of npm is a listed version, if a listed version begins with "v".

## 4. Fairness and liveness

Only the boot of auth-service is required to make progress: `FairSpec` adds
weak fairness of `Boot`.  The process that is down is started again by its
supervisor, and its start-up code waits for nobody.  Crashes are finitely many.
Nothing is assumed of clients or handlers.  `BootCompletes` ([]<>Serving) then
says that no state the users can bring about makes EnsureAdmin fail for ever;
it would if usernames or emails were unique on their own.

## 5. Theorems

All theorems hold for every value of the constants that satisfies the ASSUME of
the module: any number of handlers, users, tokens, keys, bodies, publishers,
versions, crashes and failures.

**AuthService.**  `TypeCorrect`, `CredentialsAreOwned`, `NewIdsAreBare` are
invariants of `Spec`; the inductive invariant adds what is known of a request
from its program counter: an id past the sequence is nobody's caller or target
where a capability is about to be written.  Nothing is assumed of who may
revoke, create or rename.

`GuardIsSound` and `ChecksAreSound` say what the two checks are worth between
any number of handlers.  They share an invariant (`CountOK`, `SelectOK`): a
request about to run the DELETE has another administrator row beside its target,
and one about to run the INSERT duplicates nobody, unless it is in `overtaken`.  Every other
step keeps this, since grants only add rows and deletions of users only free
names; a revoke, an insert and a rename put all those they may overtake into
`overtaken`.  The seed's own INSERT needs no exemption: no request is in flight
at a start (`BootOK`).  `CheckHolds` is in no run (section 3).

`RegistryImplemented` maps each step to one of `AdminRegistry` or a stutter.  A
step that reads makes or drops a licence and a step that writes uses it up; the
caller's own capability, read earlier, is what makes the registry's `Ask`
possible at that instant.

`RestartRepairs` adds to the invariant what the start-up code knows: between two
of its statements no handler runs (`StartUpIsAlone`), and the row it found or
inserted still has the seed's name (`SeedOK`), so that its two grants reach the
user that the property looks for.

**StorageService.**  One inductive invariant: types, the tree, whole blobs, for
each handler what its program counter implies (a handler about to rename has
copied all of a non-empty body), and that a temporary file is held by one
handler at most and lies where that handler's object goes.  `TreeIsKept` and
`BlobsAreWhole` follow.  `TempsAreRemoved` looks at each step at which a handler
lets go of a temporary file: it renames or removes it.  `BlobStoreImplemented`
maps each step to a step of `BlobStore` or a stutter.

**NpmService.**  No theorem assumes anything of what clients publish or of how
names clash.  `RecordedCanBeDownloaded` needs that a publish at its second call,
a record call left on the wire and every row point to an object that exists;
objects are only overwritten.  `RecordsAgree` needs of a publish between its
calls that the object is its own unless it is in `crossed` (`OwnObjects`).
`DownloadsVerify` rests on the other history (`HInv`): whatever is stored under a
key, recorded in a row, on the wire or promised to a reader was sent as that
file, so that two different ones are two publishes that disagreed.
`ListingImplemented` is about the rows whose key no other row has: an upload
changes what its row shows if the row is there and nothing if it is not, and a
record shows the tarball that is there, of whichever publish.

**Metadata.**  `PackagesHaveRepositories`, `DeletionIsFinal` and `RowsStay` rest
on one inductive invariant: the types, the unique columns, `NoOrphans` itself,
and that no row of any table has an id its sequence has not handed out.  The
last part is needed because a request holds an id looked up before: only if no
INSERT can take that id again does the late UPSERT or DELETE meet the repository
it meant, or none.  `NameTable_proofs` proves once what INSERT, UPDATE and
DELETE keep of a name table, and is instantiated for both tables.

**GroupPermissions.**  The inductive invariant adds to the types what the next
step of a request says of it: a target that was found has an issued id, a
request about to write has a group and a repository that had rows, and a clerk
at rest has no authority.  `AuthorityImplemented` maps each step to one of
`GroupAuthority`; its core is that whatever order a user's rows are read in, an
"admin" comes from a row with admin set.  The tables' part is `NameTable_proofs`
again.

**Facades.**  No theorem assumes anything of the tables of names beyond their
types, nor that builds agree.  `ListedFilesAreStored` needs what
`RecordedCanBeDownloaded` does, with one difference: a row lists several files
and a publish may be between them, so a publish in flight has each file of its
entry in storage or still to upload, and only a record with nothing left to
upload may be left on the wire.  `TypeCorrect` needs that every Go row lists a
zip, since the zip route takes it unasked.  `ListedFilesAreGenuine` and
`DownloadsVerify` follow from two facts: every object is a file whose own key it
lies under (`KeyHolds`), and files of one key are the same file of twins
(`KeysTellApart`).  A reader between go.mod and zip asks by name and version
again, so the row it met first may be gone.  `RecordsAgree` needs of a publish
in flight that what it has uploaded is still there unless it is in `crossed`
(`OwnFiles`).  `ListingImplemented` maps the rows without twin that were
uploaded to a `Listing`, whose releases are any files of the row, each of any
build: an upload over a listed file changes that one row, a record or a deletion
changes one row, and everything else is a stutter.

**Cli.**  The inductive invariant says of a file and of every process's config
that its token was answered to its user; that a process about to write the file,
if no other is, finds it truncated; and that a file that is not the last login
saved is garbled, by somebody still writing it, a crossing or a crash.

**Names and Spelling** (second part of `Facades_proofs`).  The four properties
of `Spelling` hold of names and lists of any length, for any characters of which
each is of one kind (`CharAssumption`: two cases of the letters, digits,
separators, "!", others), any number of releases and ranks of pre-releases.  Each needs an induction
over a sequence.  The library's induction theorems take a predicate as an
operator, which no prover here can instantiate, so the induction is stated of a
set: a set with 0 and the successor of each of its numbers has all numbers
(`SetInduction`).  If it lacked m, the successor would map its numbers below m
one to one into those without 0, against the pigeonhole principle of
FiniteSetTheorems.  `SeqInduction` follows, by length, and then `PassUnfold`:
the recursive function of a pass exists, is typed, and takes one step for one
more element.  With these:

- `NormalisedOnce`: the k-th character of a normalised name is the k-th one kept
  of the name; a name without upper case, "_", "." and "--" stays as it is, and
  a normalised name is one.
- `SanitisedNamesAreComponents`: the pass leaves a `Clean` sequence, trimming
  keeps it clean, and a clean and trimmed sequence goes through both unchanged.
- `PathsCorrespond`: decoding what was encoded of s has s written and no "!"
  pending; conversely, while decoding has met no error, what it has written,
  encoded (and a "!", if one is pending), is what it has read.
- `LatestVersionsAreHighest`: `Better` keeps a highest element (`BestOf`), since
  precedence is a strict weak order; for npm the highest is one of the listed
  strings with the "v" put in front.

`GoPathsTellApart` takes this back to the facades: if the table `encoded` is what
`encodeModulePath` computes, a Go module whose path has no "!" has no twin, so
that what the theorems above say of a release or its twins is then said of the
release.  An upload does not refuse a "!"; `PROJECT.json` lists the line as a
hazard.

Only model-checked: `BootCompletes`, which is liveness and needs ENABLED, and
the counterexamples (`RevokeLeavesAdmin`, `EveryFileListed`, `CommandsServed`).

## 6. Not modelled, and the plan

Not modelled, because it changes no state or none that a property is about:

- listings and documents that only build a response (`packages.json`, `/-/all`,
  the PyPI index, `.info`, `@v/list`, `GET /objects`), the anonymous listing of
  the public group, and the filter of `ListPackages`;
- raw PUTs to keys of npm, PyPI or Go by a client that goes round the facade
  (storage lets any user do it), and digests;
- the flags `protected` and `approved` of a permission;
- password hashing and the randomness of tokens (assumed), header parsing, CORS,
  JSON envelopes, environment and connection plumbing;
- the endpoints in the CLI's file and what it prints;
- durability under power loss: a crash is one of the process.

Left to do: `Metadata` under `NpmService` and `Facades`, one index instead of a
row variable in each, with a refinement from the three tables to that variable.
