------------------------------- MODULE Metadata -------------------------------
(***************************************************************************)
(* metadata-service: its three tables and the handlers that change them,   *)
(* one SQL statement per step.                                             *)
(*                                                                         *)
(* A package handler looks the repository up by its name and then works on *)
(* the id it found; an administrator may rename or delete the repository   *)
(* in between.  A package row names its repository by a foreign key and    *)
(* its group by a plain string.  The contents of a row are left out        *)
(* (NpmService follows them), and so are the reads.                        *)
(***************************************************************************)
EXTENDS Naturals, Sequences

CONSTANTS
  Handler,       \* request goroutines of metadata-service
  Repository,    \* names of repositories
  Group,         \* names of package groups
  NoName,
  Numeral,       \* name -> the number it spells if it is all digits, or 0
  Seeds,         \* the repositories the migration inserts
  Artifact,      \* a package name with a version
  MaxRepository, MaxGroup, MaxPackage  \* bounds: ids each sequence hands out

ASSUME MetadataAssumption ==
  /\ NoName \notin Group \cup Repository
  /\ Seeds \in Seq(Repository)
  /\ \A i, j \in 1 .. Len(Seeds) : Seeds[i] = Seeds[j] => i = j
  /\ Len(Seeds) <= MaxRepository
  /\ MaxRepository \in Nat /\ MaxGroup \in Nat /\ MaxPackage \in Nat

VARIABLES
  repository, repositorySeq,  \* the table repository and its sequence
  group, groupSeq,            \* the table package_group and its sequence
  package, packageSeq,        \* the rows of package and its sequence
  request                     \* handler -> the request in flight

vars ==
  <<repository, repositorySeq, group, groupSeq, package, packageSeq, request>>

Repo == INSTANCE NameTable WITH
          Names <- Repository, MaxId <- MaxRepository,
          rows <- repository, seq <- repositorySeq
Grp  == INSTANCE NameTable WITH
          Names <- Group, MaxId <- MaxGroup, Seeds <- <<>>,
          rows <- group, seq <- groupSeq

PackageRow == [id : 1 .. MaxPackage, artifact : Artifact,
               repository_id : Repo!Ids, package_group : Group]

UniqueColumns(p) == <<p.artifact, p.repository_id, p.package_group>>

\* Requests that work on a repository's packages, and those that requireAdmin.
PackageOp == {"UpsertPackage", "DeletePackage"}
TableOp   == {"ChangeRepository", "ChangePackageGroup"}
NoRepo    == 0

RequestRecord == [op : PackageOp \cup TableOp \cup {"none"}, repo : Repo!Ids \cup {NoRepo}]
Idle == [op |-> "none", repo |-> NoRepo]

Done(h) == request' = [request EXCEPT ![h] = Idle]

-----------------------------------------------------------------------------
(* Handlers *)

\* The guard of the route passed: metadata keeps whether the caller is an
\* administrator.
Arrive(h, op, isAdmin) ==
  /\ request[h].op = "none"
  /\ op \in TableOp => isAdmin
  /\ request' = [request EXCEPT ![h].op = op]
  /\ UNCHANGED <<repository, repositorySeq, group, groupSeq, package, packageSeq>>

RepositoryByName(h, n) ==
  /\ request[h].op \in PackageOp /\ request[h].repo = NoRepo
  /\ IF Repo!ByName(n) = {} THEN Done(h)
     ELSE \E i \in Repo!ByName(n) : request' = [request EXCEPT ![h].repo = i]
  /\ UNCHANGED <<repository, repositorySeq, group, groupSeq, package, packageSeq>>

InRepo(i) == {p \in package : p.repository_id = i}

\* Mutant: nothing checks that the repository is still there.
UpsertPackage_NoForeignKey(h, a, g) ==
  LET i == request[h].repo IN
  /\ request[h].op = "UpsertPackage" /\ i # NoRepo
  /\ packageSeq < MaxPackage
  /\ packageSeq' = packageSeq + 1
  /\ package' = package \cup {[id |-> packageSeq + 1, artifact |-> a,
                               repository_id |-> i, package_group |-> g]}
  /\ Done(h)
  /\ UNCHANGED <<repository, repositorySeq, group, groupSeq>>

\* Mutant: INSERT without ON CONFLICT and without the UNIQUE constraint.
UpsertPackage_NewRow(h, a, g) ==
  LET i == request[h].repo IN
  /\ request[h].op = "UpsertPackage" /\ i # NoRepo
  /\ packageSeq < MaxPackage
  /\ packageSeq' = packageSeq + 1
  /\ package' = IF ~Repo!Exists(i) THEN package
                ELSE package \cup {[id |-> packageSeq + 1, artifact |-> a,
                                    repository_id |-> i, package_group |-> g]}
  /\ Done(h)
  /\ UNCHANGED <<repository, repositorySeq, group, groupSeq>>

\* INSERT ... ON CONFLICT (name, version, repository_id, package_group) DO
\* UPDATE; the foreign key refuses the id of a repository that is gone.
UpsertPackage(h, a, g) ==
  LET i == request[h].repo
      listed == \E p \in InRepo(i) : p.artifact = a /\ p.package_group = g
  IN
  /\ request[h].op = "UpsertPackage" /\ i # NoRepo
  /\ packageSeq < MaxPackage
  /\ packageSeq' = packageSeq + 1
  /\ package' = IF listed \/ ~Repo!Exists(i) THEN package
                ELSE package \cup {[id |-> packageSeq + 1, artifact |-> a,
                                    repository_id |-> i, package_group |-> g]}
  /\ Done(h)
  /\ UNCHANGED <<repository, repositorySeq, group, groupSeq>>

\* Mutant: the repository in the path is not part of the condition.
DeletePackage_AnyRepository(h, id) ==
  /\ request[h].op = "DeletePackage" /\ request[h].repo # NoRepo
  /\ package' = {p \in package : p.id # id}
  /\ Done(h)
  /\ UNCHANGED <<repository, repositorySeq, group, groupSeq, packageSeq>>

DeletePackage(h, id) ==
  /\ request[h].op = "DeletePackage" /\ request[h].repo # NoRepo
  /\ package' = {p \in package : ~(p.repository_id = request[h].repo /\ p.id = id)}
  /\ Done(h)
  /\ UNCHANGED <<repository, repositorySeq, group, groupSeq, packageSeq>>

CreateRepository(h, n) ==
  /\ request[h].op = "ChangeRepository"
  /\ Repo!Create(n)
  /\ Done(h)
  /\ UNCHANGED <<group, groupSeq, package, packageSeq>>

\* The packages follow, as they are filed under the id.
UpdateRepository(h, i, n) ==
  /\ request[h].op = "ChangeRepository"
  /\ Repo!Update(i, n)
  /\ Done(h)
  /\ UNCHANGED <<group, groupSeq, package, packageSeq>>

\* Mutant: the packages stay.
DeleteRepository_NoCascade(h, i) ==
  /\ request[h].op = "ChangeRepository"
  /\ Repo!Delete(i)
  /\ Done(h)
  /\ UNCHANGED <<group, groupSeq, package, packageSeq>>

\* ON DELETE CASCADE.
DeleteRepository(h, i) ==
  /\ request[h].op = "ChangeRepository"
  /\ Repo!Delete(i)
  /\ package' = package \ InRepo(i)
  /\ Done(h)
  /\ UNCHANGED <<group, groupSeq, packageSeq>>

CreatePackageGroup(h, n) ==
  /\ request[h].op = "ChangePackageGroup"
  /\ Grp!Create(n)
  /\ Done(h)
  /\ UNCHANGED <<repository, repositorySeq, package, packageSeq>>

\* Neither the packages nor the permissions that name the group are touched.
UpdatePackageGroup(h, i, n) ==
  /\ request[h].op = "ChangePackageGroup"
  /\ Grp!Update(i, n)
  /\ Done(h)
  /\ UNCHANGED <<repository, repositorySeq, package, packageSeq>>

DeletePackageGroup(h, i) ==
  /\ request[h].op = "ChangePackageGroup"
  /\ Grp!Delete(i)
  /\ Done(h)
  /\ UNCHANGED <<repository, repositorySeq, package, packageSeq>>

\* The client gives up, a statement fails.
Cancel(h) ==
  /\ request[h].op # "none"
  /\ Done(h)
  /\ UNCHANGED <<repository, repositorySeq, group, groupSeq, package, packageSeq>>

\* The process stops, and boots again.
Restart ==
  /\ Repo!Migrate
  /\ request' = [h \in Handler |-> Idle]
  /\ UNCHANGED <<group, groupSeq, package, packageSeq>>

-----------------------------------------------------------------------------
Init ==
  /\ Repo!Init /\ Grp!Init
  /\ package = {} /\ packageSeq = 0
  /\ request = [h \in Handler |-> Idle]

Handle(h) ==
  \/ \E n \in Repository : RepositoryByName(h, n)
  \/ \E a \in Artifact, g \in Group : UpsertPackage(h, a, g)
  \/ \E id \in 1 .. MaxPackage : DeletePackage(h, id)
  \/ \E n \in Repository : CreateRepository(h, n)
  \/ \E i \in Repo!Ids, n \in Repository : UpdateRepository(h, i, n)
  \/ \E i \in Repo!Ids : DeleteRepository(h, i)
  \/ \E n \in Group : CreatePackageGroup(h, n)
  \/ \E i \in Grp!Ids, n \in Group : UpdatePackageGroup(h, i, n)
  \/ \E i \in Grp!Ids : DeletePackageGroup(h, i)
  \/ Cancel(h)

Next ==
  \/ \E h \in Handler, op \in PackageOp \cup TableOp, isAdmin \in BOOLEAN :
       Arrive(h, op, isAdmin)
  \/ \E h \in Handler : Handle(h)
  \/ Restart

Spec == Init /\ [][Next]_vars

-----------------------------------------------------------------------------
(* Properties *)

\* Every variable has its type, no row has an id the sequence has not handed
\* out, and the UNIQUE columns are unique.
TypeOK ==
  /\ Repo!TypeOK /\ Repo!UniqueNames /\ Repo!IssuedOnly
  /\ Grp!TypeOK /\ Grp!UniqueNames /\ Grp!IssuedOnly
  /\ package \subseteq PackageRow /\ packageSeq \in 0 .. MaxPackage
  /\ \A p, q \in package :
       p.id = q.id \/ UniqueColumns(p) = UniqueColumns(q) => p = q
  /\ request \in [Handler -> RequestRecord]

\* Every listed package belongs to a repository that exists, although a request
\* files a package under an id that it looked up before a deletion.
NoOrphans == \A p \in package : Repo!Exists(p.repository_id)

\* A deleted repository is gone for good: no later one takes over its id, and a
\* request that still holds the id puts nothing into a repository made since.
DeletedIsFinal ==
  [][\A i \in Repo!Ids : i <= repositorySeq /\ ~Repo!Exists(i) =>
       repository'[i] = NoName /\ \A p \in package' : p.repository_id # i]_vars

\* A row leaves the index only by a deletion that looked up its own repository,
\* or with that repository, whatever names repositories take meanwhile.
RowsAreKept ==
  [][\A p \in package \ package' :
       \/ repository'[p.repository_id] = NoName
       \/ \E h \in Handler : request[h] = [op |-> "DeletePackage", repo |-> p.repository_id]]_vars

=============================================================================
