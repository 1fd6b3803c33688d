--------------------------- MODULE Metadata_proofs ---------------------------
(***************************************************************************)
(* metadata-service: no package without its repository, for any number of  *)
(* names, requests and restarts.                                           *)
(***************************************************************************)
EXTENDS Metadata, TLAPS

RepoT == INSTANCE NameTable_proofs WITH
           Names <- Repository, MaxId <- MaxRepository,
           rows <- repository, seq <- repositorySeq
GrpT  == INSTANCE NameTable_proofs WITH
           Names <- Group, MaxId <- MaxGroup, Seeds <- <<>>,
           rows <- group, seq <- groupSeq

\* What TypeOK and NoOrphans lack: a package has an id that was handed out.
PackagesIssued == \A p \in package : p.id <= packageSeq

Tables == RepoT!Valid /\ GrpT!Valid
PackagesOK ==
  /\ package \subseteq PackageRow /\ packageSeq \in 0 .. MaxPackage
  /\ \A p, q \in package :
       p.id = q.id \/ UniqueColumns(p) = UniqueColumns(q) => p = q
  /\ PackagesIssued /\ NoOrphans
RequestsOK == request \in [Handler -> RequestRecord]

IInv == Tables /\ PackagesOK /\ RequestsOK

\* What every step keeps to, given IInv.
FinalStep ==
  \A i \in Repo!Ids : i <= repositorySeq /\ ~Repo!Exists(i) =>
    repository'[i] = NoName /\ \A p \in package' : p.repository_id # i
KeepStep ==
  \A p \in package \ package' :
    \/ repository'[p.repository_id] = NoName
    \/ \E h \in Handler : request[h] = [op |-> "DeletePackage", repo |-> p.repository_id]

LEMMA InvHasTypes == IInv <=> TypeOK /\ PackagesIssued /\ NoOrphans
BY DEF IInv, Tables, PackagesOK, RequestsOK, TypeOK, RepoT!Valid, GrpT!Valid,
       Repo!TypeOK, Repo!UniqueNames, Repo!IssuedOnly, RepoT!TypeOK, RepoT!UniqueNames, RepoT!IssuedOnly,
       Grp!TypeOK, Grp!UniqueNames, Grp!IssuedOnly, GrpT!TypeOK, GrpT!UniqueNames, GrpT!IssuedOnly,
       Repo!Exists, RepoT!Exists, Repo!Ids, RepoT!Ids, Grp!Exists, GrpT!Exists, Grp!Ids, GrpT!Ids

-----------------------------------------------------------------------------
(* The tables *)

LEMMA InitOK == Init => IInv
<1> SUFFICES ASSUME Init PROVE IInv
  OBVIOUS
<1>1. RepoT!Valid
  <2>1. RepoT!Distinct(Seeds)
    BY MetadataAssumption DEF RepoT!Distinct
  <2>2. RepoT!Init
    BY DEF Init, Repo!Init, RepoT!Init, Repo!Ids, RepoT!Ids
  <2> QED BY <2>1, <2>2, MetadataAssumption, RepoT!InitValid
<1>2. GrpT!Valid
  <2>1. <<>> \in Seq(Group) /\ Len(<<>>) = 0 /\ GrpT!Distinct(<<>>)
    BY DEF GrpT!Distinct
  <2>2. GrpT!Init
    BY DEF Init, Grp!Init, GrpT!Init, Grp!Ids, GrpT!Ids
  <2> QED BY <2>1, <2>2, MetadataAssumption, GrpT!InitValid
<1>3. PackagesOK
  BY MetadataAssumption DEF Init, PackagesOK, PackagesIssued, NoOrphans
<1>4. RequestsOK
  BY DEF Init, RequestsOK, RequestRecord, Idle, NoRepo
<1> QED BY <1>1, <1>2, <1>3, <1>4 DEF IInv, Tables

\* An INSERT, an UPDATE or a boot keeps every repository.
LEMMA RepoKeeps ==
  ASSUME RepoT!Valid,
         \/ \E n \in Repository : Repo!Create(n)
         \/ \E i \in Repo!Ids, n \in Repository : Repo!Update(i, n)
         \/ Repo!Migrate
  PROVE  RepoT!Valid' /\ RepoT!Frozen /\ RepoT!Kept
<1>1. ASSUME NEW n \in Repository, Repo!Create(n)
      PROVE  RepoT!Valid' /\ RepoT!Frozen /\ RepoT!Kept
  <2>1. <<n>> \in Seq(Repository) /\ RepoT!Distinct(<<n>>)
    BY DEF RepoT!Distinct
  <2>2. RepoT!Insert(<<n>>)
    BY <1>1 DEF Repo!Create, Repo!Insert, RepoT!Insert, Repo!Ids, RepoT!Ids, Repo!Free, RepoT!Free
  <2> QED BY <2>1, <2>2, MetadataAssumption, RepoT!InsertSafe
<1>2. ASSUME NEW i \in Repo!Ids, NEW n \in Repository, Repo!Update(i, n)
      PROVE  RepoT!Valid' /\ RepoT!Frozen /\ RepoT!Kept
  <2>1. i \in RepoT!Ids
    BY DEF Repo!Ids, RepoT!Ids
  <2>2. RepoT!Update(i, n)
    BY <1>2 DEF Repo!Update, RepoT!Update, Repo!Ids, RepoT!Ids, Repo!Free, RepoT!Free, Repo!Exists, RepoT!Exists
  <2> QED BY <2>1, <2>2, MetadataAssumption, RepoT!UpdateSafe
<1>3. ASSUME Repo!Migrate
      PROVE  RepoT!Valid' /\ RepoT!Frozen /\ RepoT!Kept
  <2>1. RepoT!Distinct(Seeds)
    BY MetadataAssumption DEF RepoT!Distinct
  <2>2. RepoT!Insert(Seeds)
    BY <1>3 DEF Repo!Migrate, Repo!Insert, RepoT!Insert, Repo!Ids, RepoT!Ids, Repo!Free, RepoT!Free
  <2> QED BY <2>1, <2>2, MetadataAssumption, RepoT!InsertSafe
<1> QED BY <1>1, <1>2, <1>3

\* The table of package groups stays valid under every statement.
LEMMA GrpKeeps ==
  ASSUME GrpT!Valid,
         \/ \E n \in Group : Grp!Create(n)
         \/ \E i \in Grp!Ids, n \in Group : Grp!Update(i, n)
         \/ \E i \in Grp!Ids : Grp!Delete(i)
  PROVE  GrpT!Valid'
<1>1. ASSUME NEW n \in Group, Grp!Create(n) PROVE GrpT!Valid'
  <2>1. <<n>> \in Seq(Group) /\ GrpT!Distinct(<<n>>)
    BY DEF GrpT!Distinct
  <2>2. GrpT!Insert(<<n>>)
    BY <1>1 DEF Grp!Create, Grp!Insert, GrpT!Insert, Grp!Ids, GrpT!Ids, Grp!Free, GrpT!Free
  <2> QED BY <2>1, <2>2, MetadataAssumption, GrpT!InsertSafe
<1>2. ASSUME NEW i \in Grp!Ids, NEW n \in Group, Grp!Update(i, n) PROVE GrpT!Valid'
  <2>1. i \in GrpT!Ids
    BY DEF Grp!Ids, GrpT!Ids
  <2>2. GrpT!Update(i, n)
    BY <1>2 DEF Grp!Update, GrpT!Update, Grp!Ids, GrpT!Ids, Grp!Free, GrpT!Free, Grp!Exists, GrpT!Exists
  <2> QED BY <2>1, <2>2, MetadataAssumption, GrpT!UpdateSafe
<1>3. ASSUME NEW i \in Grp!Ids, Grp!Delete(i) PROVE GrpT!Valid'
  <2>1. i \in GrpT!Ids /\ GrpT!Delete(i)
    BY <1>3 DEF Grp!Ids, GrpT!Ids, Grp!Delete, GrpT!Delete
  <2> QED BY <2>1, GrpT!DeleteSafe
<1> QED BY <1>1, <1>2, <1>3

-----------------------------------------------------------------------------
(* The packages *)

LEMMA RequestType ==
  ASSUME RequestsOK, NEW h \in Handler
  PROVE  /\ request[h].repo \in Repo!Ids \cup {NoRepo}
         /\ request[h] = [op |-> request[h].op, repo |-> request[h].repo]
         /\ Done(h) => RequestsOK'
BY DEF RequestsOK, RequestRecord, Done, Idle, NoRepo

\* A step that leaves the packages alone and keeps every repository.
LEMMA PackagesStay ==
  ASSUME PackagesOK, RepoT!Frozen, RepoT!Kept, UNCHANGED <<package, packageSeq>>
  PROVE  PackagesOK' /\ FinalStep /\ KeepStep
<1>1. \A p \in package : p.repository_id \in Repo!Ids
  BY DEF PackagesOK, PackageRow
<1>2. NoOrphans'
  BY <1>1 DEF PackagesOK, NoOrphans, RepoT!Kept, RepoT!Exists, Repo!Exists, RepoT!Ids, Repo!Ids
<1>3. FinalStep
  BY DEF FinalStep, PackagesOK, NoOrphans, RepoT!Frozen, RepoT!Exists, Repo!Exists, RepoT!Ids, Repo!Ids
<1>4. KeepStep
  BY DEF KeepStep
<1> QED BY <1>2, <1>3, <1>4 DEF PackagesOK, PackagesIssued

\* In particular one that touches neither table.
LEMMA PackagesIdle ==
  ASSUME IInv, UNCHANGED <<repository, repositorySeq, package, packageSeq>>
  PROVE  RepoT!Valid' /\ PackagesOK' /\ FinalStep /\ KeepStep
<1>1. RepoT!Frozen /\ RepoT!Kept
  BY DEF RepoT!Frozen, RepoT!Kept, RepoT!Exists
<1>2. RepoT!Valid'
  BY DEF IInv, Tables, RepoT!Valid, RepoT!TypeOK, RepoT!UniqueNames, RepoT!IssuedOnly,
         RepoT!Exists, RepoT!Ids
<1> QED BY <1>1, <1>2, PackagesStay DEF IInv

\* The foreign key refuses a repository that is gone, and ON CONFLICT a row that
\* is there.
LEMMA UpsertStep ==
  ASSUME IInv, NEW h \in Handler, NEW a \in Artifact, NEW g \in Group, UpsertPackage(h, a, g)
  PROVE  IInv' /\ FinalStep /\ KeepStep
<1> DEFINE i   == request[h].repo
           new == [id |-> packageSeq + 1, artifact |-> a, repository_id |-> i, package_group |-> g]
<1>1. i \in Repo!Ids /\ packageSeq \in Nat /\ packageSeq' = packageSeq + 1
      /\ packageSeq + 1 \in 1 .. MaxPackage
  <2>1. i \in Repo!Ids
    BY RequestType DEF IInv, UpsertPackage
  <2>2. packageSeq \in 0 .. MaxPackage /\ MaxPackage \in Nat
    BY MetadataAssumption DEF IInv, PackagesOK
  <2>3. packageSeq < MaxPackage /\ packageSeq' = packageSeq + 1
    BY DEF UpsertPackage
  <2> QED BY <2>1, <2>2, <2>3
<1>2. GrpT!Valid' /\ RequestsOK'
  BY RequestType
  DEF UpsertPackage, IInv, Tables, GrpT!Valid, GrpT!TypeOK, GrpT!UniqueNames, GrpT!IssuedOnly,
      GrpT!Exists, GrpT!Ids
<1>3. UNCHANGED <<repository, repositorySeq>>
  BY DEF UpsertPackage
<1>4. RepoT!Valid'
  BY <1>3 DEF IInv, Tables, RepoT!Valid, RepoT!TypeOK, RepoT!UniqueNames, RepoT!IssuedOnly,
      RepoT!Exists, RepoT!Ids
<1>5. CASE package' = package
  <2>1. PackagesOK'
    BY <1>1, <1>3, <1>5 DEF IInv, PackagesOK, PackagesIssued, NoOrphans, Repo!Exists, PackageRow
  <2>2. FinalStep /\ KeepStep
    BY <1>3, <1>5 DEF IInv, PackagesOK, NoOrphans, FinalStep, KeepStep, Repo!Exists
  <2> QED BY <1>2, <1>4, <2>1, <2>2 DEF IInv, Tables
<1>6. CASE /\ Repo!Exists(i) /\ package' = package \cup {new}
           /\ \A p \in InRepo(i) : ~(p.artifact = a /\ p.package_group = g)
  <2>1. new \in PackageRow
    BY <1>1 DEF PackageRow
  <2>2. /\ new.id = packageSeq + 1 /\ new.artifact = a
        /\ new.repository_id = i /\ new.package_group = g
    OBVIOUS
  <2> HIDE DEF new
  <2>3. \A p \in package : /\ p.id # new.id
                           /\ UniqueColumns(p) # UniqueColumns(new)
    <3> SUFFICES ASSUME NEW p \in package
                 PROVE  p.id # new.id /\ UniqueColumns(p) # UniqueColumns(new)
      OBVIOUS
    <3>1. p.id \in Nat /\ p.id <= packageSeq
      BY DEF IInv, PackagesOK, PackagesIssued, PackageRow
    <3>2. ~(p.repository_id = i /\ p.artifact = a /\ p.package_group = g)
      BY <1>6 DEF InRepo
    <3> QED BY <3>1, <3>2, <1>1, <2>2 DEF UniqueColumns
  <2>4. PackagesIssued' /\ NoOrphans'
    <3>1. \A p \in package : p.id \in Nat /\ p.id <= packageSeq + 1
      BY <1>1 DEF IInv, PackagesOK, PackagesIssued, PackageRow
    <3> QED BY <1>1, <1>3, <1>6, <2>2, <3>1
            DEF IInv, PackagesOK, PackagesIssued, NoOrphans, Repo!Exists
  <2>5. PackagesOK'
    <3>1. package' \subseteq PackageRow /\ packageSeq' \in 0 .. MaxPackage
      BY <1>1, <1>6, <2>1, MetadataAssumption DEF IInv, PackagesOK
    <3>2. \A p, q \in package' : p.id = q.id \/ UniqueColumns(p) = UniqueColumns(q) => p = q
      BY <1>6, <2>3 DEF IInv, PackagesOK
    <3>3. (\A p, q \in package : p.id = q.id \/ UniqueColumns(p) = UniqueColumns(q) => p = q)'
      BY <3>2 DEF UniqueColumns
    <3> QED BY <2>4, <3>1, <3>3 DEF PackagesOK
  <2>6. FinalStep /\ KeepStep
    BY <1>3, <1>6, <2>2 DEF IInv, PackagesOK, NoOrphans, FinalStep, KeepStep, Repo!Exists
  <2> QED BY <1>2, <1>4, <2>5, <2>6 DEF IInv, Tables
<1> QED BY <1>5, <1>6 DEF UpsertPackage, InRepo

\* Fewer packages are as good.
LEMMA FewerPackages ==
  ASSUME PackagesOK, package' \subseteq package, packageSeq' = packageSeq, NoOrphans'
  PROVE  PackagesOK'
BY DEF PackagesOK, PackagesIssued, UniqueColumns

LEMMA DeletePackageStep ==
  ASSUME IInv, NEW h \in Handler, NEW id \in 1 .. MaxPackage, DeletePackage(h, id)
  PROVE  IInv' /\ FinalStep /\ KeepStep
<1>1. /\ package' \subseteq package
      /\ \A p \in package \ package' : p.repository_id = request[h].repo
  BY DEF DeletePackage
<1>2. UNCHANGED <<repository, repositorySeq, group, groupSeq, packageSeq>> /\ Done(h)
      /\ request[h].op = "DeletePackage"
  BY DEF DeletePackage
<1>3. Tables'
  BY <1>2 DEF IInv, Tables, RepoT!Valid, RepoT!TypeOK, RepoT!UniqueNames, RepoT!IssuedOnly,
      RepoT!Exists, RepoT!Ids, GrpT!Valid, GrpT!TypeOK, GrpT!UniqueNames, GrpT!IssuedOnly,
      GrpT!Exists, GrpT!Ids
<1>4. NoOrphans'
  BY <1>1, <1>2 DEF IInv, PackagesOK, NoOrphans, Repo!Exists
<1>5. PackagesOK'
  BY <1>1, <1>2, <1>4, FewerPackages DEF IInv
<1>6. FinalStep
  BY <1>1, <1>2 DEF IInv, PackagesOK, NoOrphans, FinalStep, Repo!Exists
<1>7. KeepStep
  BY <1>1, <1>2, RequestType DEF IInv, KeepStep
<1>8. RequestsOK'
  BY <1>2, RequestType DEF IInv
<1> QED BY <1>3, <1>5, <1>6, <1>7, <1>8 DEF IInv

\* The cascade takes the packages of a repository with it.
LEMMA DeleteRepositoryStep ==
  ASSUME IInv, NEW h \in Handler, NEW k \in Repo!Ids, DeleteRepository(h, k)
  PROVE  IInv' /\ FinalStep /\ KeepStep
<1>1. /\ RepoT!Valid' /\ RepoT!Frozen /\ repository'[k] = NoName
      /\ \A i \in Repo!Ids \ {k} : repository'[i] = repository[i]
  <2>1. k \in RepoT!Ids /\ RepoT!Delete(k)
    BY DEF DeleteRepository, Repo!Ids, RepoT!Ids, Repo!Delete, RepoT!Delete
  <2> QED BY <2>1, RepoT!DeleteSafe DEF IInv, Tables, Repo!Ids, RepoT!Ids
<1>2. package' = package \ InRepo(k) /\ UNCHANGED <<group, groupSeq, packageSeq>> /\ Done(h)
  BY DEF DeleteRepository
<1>3. \A p \in package' : p \in package /\ p.repository_id \in Repo!Ids \ {k}
  BY <1>2 DEF InRepo, IInv, PackagesOK, PackageRow
<1>4. NoOrphans'
  BY <1>1, <1>3 DEF IInv, PackagesOK, NoOrphans, Repo!Exists
<1>5. PackagesOK'
  BY <1>2, <1>4, FewerPackages DEF IInv
<1>6. FinalStep
  BY <1>1, <1>3 DEF IInv, PackagesOK, NoOrphans, FinalStep, Repo!Exists,
       RepoT!Frozen, RepoT!Exists, Repo!Ids, RepoT!Ids
<1>7. KeepStep
  BY <1>1, <1>2 DEF KeepStep, InRepo
<1>8. GrpT!Valid' /\ RequestsOK'
  BY <1>2, RequestType DEF IInv, Tables, GrpT!Valid, GrpT!TypeOK, GrpT!UniqueNames,
       GrpT!IssuedOnly, GrpT!Exists, GrpT!Ids
<1> QED BY <1>1, <1>5, <1>6, <1>7, <1>8 DEF IInv, Tables

\* The other actions change no package.
LEMMA RepositoryStep ==
  ASSUME IInv,
         \/ \E h \in Handler, n \in Repository : CreateRepository(h, n)
         \/ \E h \in Handler, i \in Repo!Ids, n \in Repository : UpdateRepository(h, i, n)
         \/ Restart
  PROVE  IInv' /\ FinalStep /\ KeepStep
<1>1. /\ \/ \E n \in Repository : Repo!Create(n)
         \/ \E i \in Repo!Ids, n \in Repository : Repo!Update(i, n)
         \/ Repo!Migrate
      /\ UNCHANGED <<group, groupSeq, package, packageSeq>>
  BY DEF CreateRepository, UpdateRepository, Restart
<1>2. RepoT!Valid' /\ RepoT!Frozen /\ RepoT!Kept
  BY <1>1, RepoKeeps DEF IInv, Tables
<1>3. PackagesOK' /\ FinalStep /\ KeepStep
  BY <1>1, <1>2, PackagesStay DEF IInv
<1>4. RequestsOK'
  <2>1. (\E h \in Handler : Done(h)) \/ request' = [h \in Handler |-> Idle]
    BY DEF CreateRepository, UpdateRepository, Restart
  <2> QED BY <2>1, RequestType DEF IInv, RequestsOK, RequestRecord, Idle, NoRepo
<1>5. GrpT!Valid'
  BY <1>1 DEF IInv, Tables, GrpT!Valid, GrpT!TypeOK, GrpT!UniqueNames, GrpT!IssuedOnly,
       GrpT!Exists, GrpT!Ids
<1> QED BY <1>2, <1>3, <1>4, <1>5 DEF IInv, Tables

LEMMA PackageGroupStep ==
  ASSUME IInv, NEW h \in Handler,
         \/ \E n \in Group : CreatePackageGroup(h, n)
         \/ \E i \in Grp!Ids, n \in Group : UpdatePackageGroup(h, i, n)
         \/ \E i \in Grp!Ids : DeletePackageGroup(h, i)
  PROVE  IInv' /\ FinalStep /\ KeepStep
<1>1. /\ \/ \E n \in Group : Grp!Create(n)
         \/ \E i \in Grp!Ids, n \in Group : Grp!Update(i, n)
         \/ \E i \in Grp!Ids : Grp!Delete(i)
      /\ UNCHANGED <<repository, repositorySeq, package, packageSeq>> /\ Done(h)
  BY DEF CreatePackageGroup, UpdatePackageGroup, DeletePackageGroup
<1>2. GrpT!Valid'
  BY <1>1, GrpKeeps DEF IInv, Tables
<1>3. RepoT!Valid' /\ PackagesOK' /\ FinalStep /\ KeepStep
  BY <1>1, PackagesIdle
<1> QED BY <1>1, <1>2, <1>3, RequestType DEF IInv, Tables

LEMMA RequestStep ==
  ASSUME IInv, NEW h \in Handler,
         \/ \E op \in PackageOp \cup TableOp, isAdmin \in BOOLEAN : Arrive(h, op, isAdmin)
         \/ \E n \in Repository : RepositoryByName(h, n)
         \/ Cancel(h)
  PROVE  IInv' /\ FinalStep /\ KeepStep
<1>1. UNCHANGED <<repository, repositorySeq, group, groupSeq, package, packageSeq>>
  BY DEF Arrive, RepositoryByName, Cancel
<1>2. RequestsOK'
  <2>1. ASSUME NEW op \in PackageOp \cup TableOp, NEW isAdmin \in BOOLEAN, Arrive(h, op, isAdmin)
        PROVE  RequestsOK'
    BY <2>1 DEF Arrive, IInv, RequestsOK, RequestRecord
  <2>2. ASSUME NEW n \in Repository, RepositoryByName(h, n)
        PROVE  RequestsOK'
    <3>1. Repo!ByName(n) \subseteq Repo!Ids
      BY DEF Repo!ByName
    <3> QED BY <2>2, <3>1, RequestType DEF RepositoryByName, IInv, RequestsOK, RequestRecord
  <2>3. Cancel(h) => RequestsOK'
    BY RequestType DEF Cancel, IInv
  <2> QED BY <2>1, <2>2, <2>3
<1>3. RepoT!Valid' /\ PackagesOK' /\ FinalStep /\ KeepStep
  BY <1>1, PackagesIdle
<1>4. GrpT!Valid'
  BY <1>1 DEF IInv, Tables, GrpT!Valid, GrpT!TypeOK, GrpT!UniqueNames, GrpT!IssuedOnly,
       GrpT!Exists, GrpT!Ids
<1> QED BY <1>2, <1>3, <1>4 DEF IInv, Tables

-----------------------------------------------------------------------------
(* The theorems *)

LEMMA StepOK == IInv /\ Next => IInv' /\ FinalStep /\ KeepStep
<1> SUFFICES ASSUME IInv, Next PROVE IInv' /\ FinalStep /\ KeepStep
  OBVIOUS
<1>1. CASE \E h \in Handler, op \in PackageOp \cup TableOp, isAdmin \in BOOLEAN :
             Arrive(h, op, isAdmin)
  BY <1>1, RequestStep
<1>2. ASSUME NEW h \in Handler, Handle(h)
      PROVE  IInv' /\ FinalStep /\ KeepStep
  <2>1. CASE \E n \in Repository : RepositoryByName(h, n)
    BY <2>1, RequestStep
  <2>2. CASE \E a \in Artifact, g \in Group : UpsertPackage(h, a, g)
    BY <2>2, UpsertStep
  <2>3. CASE \E id \in 1 .. MaxPackage : DeletePackage(h, id)
    BY <2>3, DeletePackageStep
  <2>4. CASE \E n \in Repository : CreateRepository(h, n)
    BY <2>4, RepositoryStep
  <2>5. CASE \E i \in Repo!Ids, n \in Repository : UpdateRepository(h, i, n)
    BY <2>5, RepositoryStep
  <2>6. CASE \E i \in Repo!Ids : DeleteRepository(h, i)
    BY <2>6, DeleteRepositoryStep
  <2>7. CASE \/ \E n \in Group : CreatePackageGroup(h, n)
             \/ \E i \in Grp!Ids, n \in Group : UpdatePackageGroup(h, i, n)
             \/ \E i \in Grp!Ids : DeletePackageGroup(h, i)
    BY <2>7, PackageGroupStep
  <2>8. CASE Cancel(h)
    BY <2>8, RequestStep
  <2> QED BY <1>2, <2>1, <2>2, <2>3, <2>4, <2>5, <2>6, <2>7, <2>8 DEF Handle
<1>3. CASE Restart
  BY <1>3, RepositoryStep
<1> QED BY <1>1, <1>2, <1>3 DEF Next

LEMMA StutterOK == IInv /\ UNCHANGED vars => IInv'
BY DEF vars, IInv, Tables, PackagesOK, PackagesIssued, NoOrphans, RequestsOK, UniqueColumns,
       RepoT!Valid, RepoT!TypeOK, RepoT!UniqueNames, RepoT!IssuedOnly, RepoT!Exists, RepoT!Ids,
       GrpT!Valid, GrpT!TypeOK, GrpT!UniqueNames, GrpT!IssuedOnly, GrpT!Exists, GrpT!Ids,
       Repo!Exists

LEMMA Invariance == Spec => []IInv
<1>1. IInv /\ [Next]_vars => IInv'
  BY StepOK, StutterOK
<1> QED BY <1>1, InitOK, PTL DEF Spec

\* Every variable of metadata-service keeps its type, ids are never issued twice
\* and the UNIQUE columns stay unique, whatever requests interleave.
THEOREM TypeCorrect == Spec => []TypeOK
<1>1. IInv => TypeOK
  BY InvHasTypes
<1> QED BY <1>1, Invariance, PTL

\* Every listed package belongs to a repository that exists, for any number of
\* requests that hold the ids of repositories deleted since.
THEOREM PackagesHaveRepositories == Spec => []NoOrphans
<1>1. IInv => NoOrphans
  BY InvHasTypes
<1> QED BY <1>1, Invariance, PTL

\* A deleted repository is gone for good: nothing takes over its id.
THEOREM DeletionIsFinal == Spec => DeletedIsFinal
<1>1. IInv /\ [Next]_vars => [FinalStep]_vars
  BY StepOK
<1>2. Spec => [][FinalStep]_vars
  BY <1>1, Invariance, PTL DEF Spec
<1> QED BY <1>2 DEF DeletedIsFinal, FinalStep

\* A row leaves the index only by a deletion in its repository, or with it.
THEOREM RowsStay == Spec => RowsAreKept
<1>1. IInv /\ [Next]_vars => [KeepStep]_vars
  BY StepOK
<1>2. Spec => [][KeepStep]_vars
  BY <1>1, Invariance, PTL DEF Spec
<1> QED BY <1>2 DEF RowsAreKept, KeepStep

=============================================================================
