------------------------ MODULE GroupPermissions_proofs ------------------------
(***************************************************************************)
(* The package-group permissions of auth-service, for any number of users, *)
(* requests, groups, repositories and rows: access to a group changes only *)
(* by an authority over that group.                                        *)
(***************************************************************************)
EXTENDS GroupPermissions, TLAPS

RepoT == INSTANCE NameTable_proofs WITH
           Names <- Repository, MaxId <- MaxRepository,
           rows <- repository, seq <- repositorySeq
GrpT  == INSTANCE NameTable_proofs WITH
           Names <- Group, MaxId <- MaxGroup, Seeds <- <<>>,
           rows <- group, seq <- groupSeq

Tables == RepoT!Valid /\ GrpT!Valid
AuthOK ==
  /\ account \in [User -> {"unissued", "active", "deleted"}]
  /\ admins \subseteq User /\ access \subseteq AccessRow
  /\ changes \in 0 .. MaxUserChanges /\ UnissuedHaveNoAccess

\* What the next step of a request says of it: the target was found, then the
\* group, and the authority is over that group only; a caller without a request
\* has no authority.
RequestOK(r) ==
  /\ r.at = "none" => r.authority = {}
  /\ r.at \in {"group", "repository", "write"} => r.user \in User
  /\ r.at \in {"repository", "write"} => r.package_group \in Group
  /\ r.at = "write" => r.repository \in Repository
CallsOK ==
  /\ call \in [Clerk -> CallRecord]
  /\ \A c \in Clerk : RequestOK(call[c])
\* An id is never unissued again, so a target that was found stays issued.
TargetsOK == \A c \in Clerk : call[c].user # NoUser => account[call[c].user] # "unissued"

IInv == Tables /\ AuthOK /\ CallsOK /\ TargetsOK

LEMMA InvHasTypes == IInv => TypeOK /\ UnissuedHaveNoAccess
BY DEF IInv, Tables, AuthOK, CallsOK, TypeOK, RepoT!Valid, GrpT!Valid,
       Repo!TypeOK, Repo!UniqueNames, Repo!IssuedOnly, RepoT!TypeOK, RepoT!UniqueNames, RepoT!IssuedOnly,
       Grp!TypeOK, Grp!UniqueNames, Grp!IssuedOnly, GrpT!TypeOK, GrpT!UniqueNames, GrpT!IssuedOnly,
       Repo!Exists, RepoT!Exists, Repo!Ids, RepoT!Ids, Grp!Exists, GrpT!Exists, Grp!Ids, GrpT!Ids

-----------------------------------------------------------------------------
(* The tables *)

LEMMA RepoKeeps ==
  ASSUME RepoT!Valid,
         \/ \E n \in Repository : Repo!Create(n)
         \/ \E i \in Repo!Ids, n \in Repository : Repo!Update(i, n)
         \/ \E i \in Repo!Ids : Repo!Delete(i)
         \/ Repo!Migrate
  PROVE  RepoT!Valid'
<1>1. ASSUME NEW n \in Repository, Repo!Create(n)
      PROVE  RepoT!Valid'
  <2>1. <<n>> \in Seq(Repository) /\ RepoT!Distinct(<<n>>)
    BY DEF RepoT!Distinct
  <2>2. RepoT!Insert(<<n>>)
    BY <1>1 DEF Repo!Create, Repo!Insert, RepoT!Insert, Repo!Ids, RepoT!Ids, Repo!Free, RepoT!Free
  <2> QED BY <2>1, <2>2, PermissionsAssumption, RepoT!InsertSafe
<1>2. ASSUME NEW i \in Repo!Ids, NEW n \in Repository, Repo!Update(i, n)
      PROVE  RepoT!Valid'
  <2>1. i \in RepoT!Ids
    BY DEF Repo!Ids, RepoT!Ids
  <2>2. RepoT!Update(i, n)
    BY <1>2 DEF Repo!Update, RepoT!Update, Repo!Ids, RepoT!Ids, Repo!Free, RepoT!Free, Repo!Exists, RepoT!Exists
  <2> QED BY <2>1, <2>2, PermissionsAssumption, RepoT!UpdateSafe
<1>3. ASSUME Repo!Migrate
      PROVE  RepoT!Valid'
  <2>1. RepoT!Distinct(Seeds)
    BY PermissionsAssumption DEF RepoT!Distinct
  <2>2. RepoT!Insert(Seeds)
    BY <1>3 DEF Repo!Migrate, Repo!Insert, RepoT!Insert, Repo!Ids, RepoT!Ids, Repo!Free, RepoT!Free
  <2> QED BY <2>1, <2>2, PermissionsAssumption, RepoT!InsertSafe
<1>4. ASSUME NEW i \in Repo!Ids, Repo!Delete(i)
      PROVE  RepoT!Valid'
  <2>1. i \in RepoT!Ids /\ RepoT!Delete(i)
    BY <1>4 DEF Repo!Ids, RepoT!Ids, Repo!Delete, RepoT!Delete
  <2> QED BY <2>1, RepoT!DeleteSafe
<1> QED BY <1>1, <1>2, <1>3, <1>4

\* The table of package groups stays valid under every statement.
LEMMA GrpKeeps ==
  ASSUME GrpT!Valid,
         \/ \E n \in Group : Grp!Create(n)
         \/ \E i \in Grp!Ids, n \in Group : Grp!Update(i, n)
         \/ \E i \in Grp!Ids : Grp!Delete(i)
  PROVE  GrpT!Valid'
<1>1. ASSUME NEW n \in Group, Grp!Create(n) PROVE GrpT!Valid'
  <2>1. <<n>> \in Seq(Group) /\ GrpT!Distinct(<<n>>)
    BY DEF GrpT!Distinct
  <2>2. GrpT!Insert(<<n>>)
    BY <1>1 DEF Grp!Create, Grp!Insert, GrpT!Insert, Grp!Ids, GrpT!Ids, Grp!Free, GrpT!Free
  <2> QED BY <2>1, <2>2, PermissionsAssumption, GrpT!InsertSafe
<1>2. ASSUME NEW i \in Grp!Ids, NEW n \in Group, Grp!Update(i, n) PROVE GrpT!Valid'
  <2>1. i \in GrpT!Ids
    BY DEF Grp!Ids, GrpT!Ids
  <2>2. GrpT!Update(i, n)
    BY <1>2 DEF Grp!Update, GrpT!Update, Grp!Ids, GrpT!Ids, Grp!Free, GrpT!Free, Grp!Exists, GrpT!Exists
  <2> QED BY <2>1, <2>2, PermissionsAssumption, GrpT!UpdateSafe
<1>3. ASSUME NEW i \in Grp!Ids, Grp!Delete(i) PROVE GrpT!Valid'
  <2>1. i \in GrpT!Ids /\ GrpT!Delete(i)
    BY <1>3 DEF Grp!Ids, GrpT!Ids, Grp!Delete, GrpT!Delete
  <2> QED BY <2>1, GrpT!DeleteSafe
<1> QED BY <1>1, <1>2, <1>3

\* What a request resolves is a name of a row.
LEMMA FoundGroups ==
  ASSUME Tables, NEW found \in {Grp!ById(i) : i \in Grp!Ids} \cup {Grp!Get(n) : n \in Group},
         NEW i \in found
  PROVE  group[i] \in Group
<1>1. found \subseteq Grp!Ids /\ \A k \in found : group[k] # NoName
  BY PermissionsAssumption DEF Grp!ById, Grp!Get, Grp!ByName, Grp!Exists
<1>2. group \in [Grp!Ids -> Group \cup {NoName}]
  BY DEF Tables, GrpT!Valid, GrpT!TypeOK, GrpT!Ids, Grp!Ids
<1> QED BY <1>1, <1>2

LEMMA FoundRepositories ==
  ASSUME Tables,
         NEW found \in {Repo!ById(i) : i \in Repo!Ids} \cup {Repo!Get(n) : n \in Repository},
         NEW i \in found
  PROVE  repository[i] \in Repository
<1>1. found \subseteq Repo!Ids /\ \A k \in found : repository[k] # NoName
  BY PermissionsAssumption DEF Repo!ById, Repo!Get, Repo!ByName, Repo!Exists
<1>2. repository \in [Repo!Ids -> Repository \cup {NoName}]
  BY DEF Tables, RepoT!Valid, RepoT!TypeOK, RepoT!Ids, Repo!Ids
<1> QED BY <1>1, <1>2

LEMMA TablesKept ==
  ASSUME Tables, UNCHANGED tables
  PROVE  Tables'
BY DEF tables, Tables, RepoT!Valid, RepoT!TypeOK, RepoT!UniqueNames, RepoT!IssuedOnly,
       RepoT!Exists, RepoT!Ids, GrpT!Valid, GrpT!TypeOK, GrpT!UniqueNames, GrpT!IssuedOnly,
       GrpT!Exists, GrpT!Ids

-----------------------------------------------------------------------------
(* The inductive invariant *)

LEMMA RestingType == Resting \in CallRecord /\ RequestOK(Resting) /\ Resting.user = NoUser
BY DEF Resting, CallRecord, RequestOK

LEMMA InitOK == Init => IInv
<1> SUFFICES ASSUME Init PROVE IInv
  OBVIOUS
<1>1. RepoT!Valid
  <2>1. RepoT!Distinct(Seeds)
    BY PermissionsAssumption DEF RepoT!Distinct
  <2>2. RepoT!Init
    BY DEF Init, Repo!Init, RepoT!Init, Repo!Ids, RepoT!Ids
  <2> QED BY <2>1, <2>2, PermissionsAssumption, RepoT!InitValid
<1>2. GrpT!Valid
  <2>1. <<>> \in Seq(Group) /\ Len(<<>>) = 0 /\ GrpT!Distinct(<<>>)
    BY DEF GrpT!Distinct
  <2>2. GrpT!Init
    BY DEF Init, Grp!Init, GrpT!Init, Grp!Ids, GrpT!Ids
  <2> QED BY <2>1, <2>2, PermissionsAssumption, GrpT!InitValid
<1>3. AuthOK
  BY PermissionsAssumption DEF Init, AuthOK, UnissuedHaveNoAccess
<1>4. CallsOK /\ TargetsOK
  BY RestingType DEF Init, CallsOK, TargetsOK
<1> QED BY <1>1, <1>2, <1>3, <1>4 DEF IInv, Tables

\* A request takes on a record that is right for its next step.
LEMMA CallTakes ==
  ASSUME CallsOK, TargetsOK, NEW c \in Clerk, NEW r \in CallRecord, RequestOK(r),
         call' = [call EXCEPT ![c] = r], account' = account,
         r.user # NoUser => account[r.user] # "unissued"
  PROVE  CallsOK' /\ TargetsOK'
<1>1. call' \in [Clerk -> CallRecord] /\ call'[c] = r /\ \A d \in Clerk \ {c} : call'[d] = call[d]
  BY DEF CallsOK
<1>2. CallsOK'
  BY <1>1 DEF CallsOK, RequestOK
<1>3. TargetsOK'
  BY <1>1 DEF TargetsOK
<1> QED BY <1>2, <1>3

LEMMA AuthKept ==
  ASSUME AuthOK, UNCHANGED <<account, admins, access, changes>>
  PROVE  AuthOK'
BY DEF AuthOK, UnissuedHaveNoAccess

\* What each step of a request makes of it.
Turns(c, r) == /\ r \in CallRecord /\ RequestOK(r)
               /\ call' = [call EXCEPT ![c] = r]
               /\ r.user # NoUser => account[r.user] # "unissued"

LEMMA ServeTurns ==
  ASSUME IInv, NEW c \in Clerk, Serve(c)
  PROVE  \E r : Turns(c, r)
<1>0. /\ call[c] \in CallRecord /\ RequestOK(call[c]) /\ call \in [Clerk -> CallRecord]
      /\ call[c].user # NoUser => account[call[c].user] # "unissued"
  BY DEF IInv, CallsOK, TargetsOK
<1>1. ASSUME End(c) PROVE \E r : Turns(c, r)
  <2>1. Turns(c, Resting)
    BY <1>1, RestingType DEF End, Turns
  <2> QED BY <2>1
<1>2. ASSUME NEW u \in User, LoadCaller(c, u) PROVE \E r : Turns(c, r)
  <2>1. PICK package_groups \in ComputeDerived(RowsOf(u)) :
          call' = [call EXCEPT ![c] =
            [Resting EXCEPT !.at = "user", !.authority =
               {g \in Group : isPackageGroupAdmin(u \in admins, package_groups, g)}]]
    BY <1>2 DEF LoadCaller
  <2> DEFINE granted == {g \in Group : isPackageGroupAdmin(u \in admins, package_groups, g)}
             r == [Resting EXCEPT !.at = "user", !.authority = granted]
  <2>2. granted \in SUBSET Group
    OBVIOUS
  <2>3. call' = [call EXCEPT ![c] = r]
    BY <2>1
  <2> HIDE DEF granted
  <2>4. r \in CallRecord /\ r.at = "user" /\ r.user = NoUser
    BY <2>2 DEF Resting, CallRecord
  <2>5. Turns(c, r)
    BY <2>3, <2>4 DEF Turns, RequestOK
  <2> QED BY <2>5
<1>3. ASSUME NEW u \in User, TargetUser(c, u) PROVE \E r : Turns(c, r)
  <2>1. CASE account[u] # "active"
    BY <1>1, <1>3, <2>1 DEF TargetUser
  <2>2. CASE account[u] = "active"
    <3> DEFINE r == [call[c] EXCEPT !.at = "group", !.user = u]
    <3>1. call' = [call EXCEPT ![c] = r]
      BY <1>0, <1>3, <2>2 DEF TargetUser
    <3>2. r \in CallRecord /\ r.at = "group" /\ r.user = u
      BY <1>0 DEF CallRecord
    <3>3. Turns(c, r)
      BY <2>2, <3>1, <3>2 DEF Turns, RequestOK
    <3> QED BY <3>3
  <2> QED BY <2>1, <2>2
<1>4. ASSUME resolveGroup(c) PROVE \E r : Turns(c, r)
  <2>1. PICK found \in {Grp!ById(i) : i \in Grp!Ids} \cup {Grp!Get(n) : n \in Group} :
          IF found = {} THEN End(c)
          ELSE \E i \in found :
            call' = [call EXCEPT ![c].at = "repository", ![c].package_group = group[i],
                                 ![c].authority = @ \cap {group[i]}]
    BY <1>4 DEF resolveGroup
  <2>2. CASE found = {}
    BY <1>1, <2>1, <2>2
  <2>3. CASE found # {}
    <3>1. PICK i \in found :
            call' = [call EXCEPT ![c].at = "repository", ![c].package_group = group[i],
                                 ![c].authority = @ \cap {group[i]}]
      BY <2>1, <2>3
    <3> DEFINE r == [call[c] EXCEPT !.at = "repository", !.package_group = group[i],
                                    !.authority = call[c].authority \cap {group[i]}]
    <3>2. group[i] \in Group
      BY FoundGroups DEF IInv
    <3>3. call' = [call EXCEPT ![c] = r]
      BY <1>0, <3>1 DEF CallRecord
    <3>4. r \in CallRecord /\ r.at = "repository" /\ r.package_group = group[i] /\ r.user = call[c].user
      BY <1>0, <3>2 DEF CallRecord
    <3>5. Turns(c, r)
      BY <1>0, <1>4, <3>2, <3>3, <3>4 DEF resolveGroup, Turns, RequestOK
    <3> QED BY <3>5
  <2> QED BY <2>2, <2>3
<1>5. ASSUME resolveRepo(c) PROVE \E r : Turns(c, r)
  <2>1. PICK found \in {Repo!ById(i) : i \in Repo!Ids} \cup {Repo!Get(n) : n \in Repository} :
          IF found = {} \/ call[c].package_group \notin call[c].authority THEN End(c)
          ELSE \E i \in found :
            call' = [call EXCEPT ![c].at = "write", ![c].authority = {},
                                 ![c].repository = repository[i]]
    BY <1>5 DEF resolveRepo
  <2>2. CASE End(c)
    BY <1>1, <2>2
  <2>3. CASE ~End(c)
    <3>1. PICK i \in found :
            call' = [call EXCEPT ![c].at = "write", ![c].authority = {},
                                 ![c].repository = repository[i]]
      BY <2>1, <2>3
    <3> DEFINE r == [call[c] EXCEPT !.at = "write", !.authority = {}, !.repository = repository[i]]
    <3>2. repository[i] \in Repository
      BY FoundRepositories DEF IInv
    <3>3. call' = [call EXCEPT ![c] = r]
      BY <1>0, <3>1 DEF CallRecord
    <3>4. /\ r \in CallRecord /\ r.at = "write" /\ r.repository = repository[i]
          /\ r.user = call[c].user /\ r.package_group = call[c].package_group
      BY <1>0, <3>2 DEF CallRecord
    <3>5. Turns(c, r)
      BY <1>0, <1>5, <3>2, <3>3, <3>4 DEF resolveRepo, Turns, RequestOK
    <3> QED BY <3>5
  <2> QED BY <2>2, <2>3
<1>6. ASSUME \/ \E isAdmin \in BOOLEAN : PackageGroupJoin(c, isAdmin)
             \/ PackageGroupLeave(c) \/ setProtected(c) \/ Abort(c)
      PROVE  \E r : Turns(c, r)
  BY <1>1, <1>6 DEF PackageGroupJoin, PackageGroupLeave, setProtected, Abort
<1> QED BY <1>2, <1>3, <1>4, <1>5, <1>6 DEF Serve

\* The rows that a request leaves are of issued ids.
LEMMA ServeAccess ==
  ASSUME IInv, NEW c \in Clerk, Serve(c)
  PROVE  /\ UNCHANGED <<tables, account, admins, changes>>
         /\ access' \subseteq AccessRow /\ \A r \in access' : account[r.user] # "unissued"
<1>1. access \subseteq AccessRow /\ \A r \in access : account[r.user] # "unissued"
  BY DEF IInv, AuthOK, UnissuedHaveNoAccess
<1>2. ASSUME NEW isAdmin \in BOOLEAN, PackageGroupJoin(c, isAdmin)
      PROVE  access' \subseteq AccessRow /\ \A r \in access' : account[r.user] # "unissued"
  <2>1. PICK k \in 1 .. MaxAccess : access' = access \cup {NewRow(c, isAdmin, k)}
    BY <1>2 DEF PackageGroupJoin, Copies
  <2>2. /\ call[c].user \in User /\ account[call[c].user] # "unissued"
        /\ call[c].package_group \in Group /\ call[c].repository \in Repository
    BY <1>2, PermissionsAssumption DEF PackageGroupJoin, IInv, CallsOK, RequestOK, TargetsOK
  <2>3. NewRow(c, isAdmin, k) \in AccessRow /\ NewRow(c, isAdmin, k).user = call[c].user
    BY <2>2 DEF NewRow, AccessRow
  <2> QED BY <1>1, <2>1, <2>2, <2>3
<1>3. ASSUME ~\E isAdmin \in BOOLEAN : PackageGroupJoin(c, isAdmin)
      PROVE  access' \subseteq access
  BY <1>3 DEF Serve, LoadCaller, TargetUser, resolveGroup, resolveRepo, PackageGroupLeave,
              setProtected, Abort
<1>4. UNCHANGED <<tables, account, admins, changes>>
  BY DEF Serve, LoadCaller, TargetUser, resolveGroup, resolveRepo, PackageGroupJoin,
         PackageGroupLeave, setProtected, Abort
<1> QED BY <1>1, <1>2, <1>3, <1>4

LEMMA StepOK == IInv /\ [Next]_vars => IInv'
<1> SUFFICES ASSUME IInv, [Next]_vars PROVE IInv'
  OBVIOUS
<1>1. ASSUME NEW c \in Clerk, Serve(c) PROVE IInv'
  <2>1. /\ UNCHANGED <<tables, account, admins, changes>>
        /\ access' \subseteq AccessRow /\ \A r \in access' : account[r.user] # "unissued"
    BY <1>1, ServeAccess
  <2>2. PICK r : Turns(c, r)
    BY <1>1, ServeTurns
  <2>3. CallsOK' /\ TargetsOK'
    BY <2>1, <2>2, CallTakes DEF Turns, IInv
  <2>4. AuthOK'
    BY <2>1 DEF IInv, AuthOK, UnissuedHaveNoAccess
  <2> QED BY <2>1, <2>3, <2>4, TablesKept DEF IInv
<1>2. ASSUME NEW u \in User, ChangeAccount(u) PROVE IInv'
  <2>1. /\ changes < MaxUserChanges /\ changes' = changes + 1
        /\ account' = [account EXCEPT ![u] = IF account[u] = "unissued" THEN "active" ELSE "deleted"]
        /\ UNCHANGED <<tables, admins, access, call>>
    BY <1>2 DEF ChangeAccount
  <2>2. /\ account' \in [User -> {"unissued", "active", "deleted"}]
        /\ \A v \in User : account[v] # "unissued" => account'[v] # "unissued"
    BY <2>1 DEF IInv, AuthOK
  <2>3. changes' \in 0 .. MaxUserChanges
    BY <2>1, PermissionsAssumption DEF IInv, AuthOK
  <2>4. AuthOK'
    <3>1. \A r \in access : r.user \in User
      BY DEF IInv, AuthOK, AccessRow
    <3> QED BY <2>1, <2>2, <2>3, <3>1 DEF IInv, AuthOK, UnissuedHaveNoAccess
  <2>5. CallsOK' /\ TargetsOK'
    <3>1. \A c \in Clerk : call[c].user \in User \cup {NoUser}
      BY DEF IInv, CallsOK, CallRecord
    <3> QED BY <2>1, <2>2, <3>1 DEF IInv, CallsOK, TargetsOK
  <2> QED BY <2>1, <2>4, <2>5, TablesKept DEF IInv
<1>3. ASSUME NEW u \in User, ChangeAdmins(u) PROVE IInv'
  <2>1. /\ changes < MaxUserChanges /\ changes' = changes + 1 /\ admins' \subseteq User
        /\ UNCHANGED <<tables, account, access, call>>
    BY <1>3 DEF ChangeAdmins, IInv, AuthOK
  <2>2. changes' \in 0 .. MaxUserChanges
    BY <2>1, PermissionsAssumption DEF IInv, AuthOK
  <2>3. AuthOK' /\ CallsOK' /\ TargetsOK'
    BY <2>1, <2>2 DEF IInv, AuthOK, UnissuedHaveNoAccess, CallsOK, TargetsOK
  <2> QED BY <2>1, <2>3, TablesKept DEF IInv
<1>4. ASSUME UNCHANGED authVars PROVE AuthOK' /\ CallsOK' /\ TargetsOK'
  BY <1>4 DEF authVars, IInv, AuthOK, UnissuedHaveNoAccess, CallsOK, TargetsOK
<1>5. CASE ChangeRepository
  <2>1. RepoT!Valid'
    BY <1>5, RepoKeeps DEF ChangeRepository, IInv, Tables
  <2>2. GrpT!Valid'
    BY <1>5 DEF ChangeRepository, IInv, Tables, GrpT!Valid, GrpT!TypeOK, GrpT!UniqueNames,
                GrpT!IssuedOnly, GrpT!Exists, GrpT!Ids
  <2> QED BY <1>4, <1>5, <2>1, <2>2 DEF ChangeRepository, IInv, Tables
<1>6. CASE ChangePackageGroup
  <2>1. GrpT!Valid'
    BY <1>6, GrpKeeps DEF ChangePackageGroup, IInv, Tables
  <2>2. RepoT!Valid'
    BY <1>6 DEF ChangePackageGroup, IInv, Tables, RepoT!Valid, RepoT!TypeOK, RepoT!UniqueNames,
                RepoT!IssuedOnly, RepoT!Exists, RepoT!Ids
  <2> QED BY <1>4, <1>6, <2>1, <2>2 DEF ChangePackageGroup, IInv, Tables
<1>7. CASE UNCHANGED vars
  BY <1>4, <1>7, TablesKept DEF vars, tables, authVars, IInv
<1> QED BY <1>1, <1>2, <1>3, <1>5, <1>6, <1>7 DEF Next

LEMMA Invariance == Spec => []IInv
BY InitOK, StepOK, PTL DEF Spec

-----------------------------------------------------------------------------
(* The refinement *)

LEMMA EntriesType ==
  ASSUME access \subseteq AccessRow
  PROVE  Entries \subseteq Authority!Entry
BY DEF Entries, AccessRow, Authority!Entry

\* A caller's mandate is what its rows, in whatever order they were read, and
\* its IS_ADMIN_USER row give it.
LEMMA CallersMandate ==
  ASSUME access \subseteq AccessRow, NEW u \in User, NEW derived \in ComputeDerived(RowsOf(u))
  PROVE  {g \in Group : isPackageGroupAdmin(u \in admins, derived, g)}
           \subseteq Authority!MandateOf(u)
<1> SUFFICES ASSUME NEW g \in Group, isPackageGroupAdmin(u \in admins, derived, g)
             PROVE  g \in Authority!MandateOf(u)
  OBVIOUS
<1>1. CASE u \in admins
  BY <1>1 DEF Authority!MandateOf
<1>2. CASE u \notin admins
  <2>1. g \in DOMAIN derived /\ derived[g] = "admin"
    BY <1>2 DEF isPackageGroupAdmin
  <2>2. PICK r \in RowsOf(u) : r.package_group = g /\ r.admin
    <3>1. /\ DOMAIN derived = {r.package_group : r \in RowsOf(u)}
          /\ \A h \in DOMAIN derived :
               derived[h] \in {IF r.admin THEN "admin" ELSE "access" :
                                 r \in {t \in RowsOf(u) : t.package_group = h}}
      BY DEF ComputeDerived
    <3>2. PICK r \in {t \in RowsOf(u) : t.package_group = g} :
            derived[g] = IF r.admin THEN "admin" ELSE "access"
      BY <2>1, <3>1
    <3> QED BY <2>1, <3>2
  <2>3. r \in access /\ r.user = u
    BY DEF RowsOf
  <2> DEFINE e == [user |-> r.user, package_group |-> r.package_group,
                   repository |-> r.repository, admin |-> r.admin]
  <2>4. e \in Entries /\ e.user = u /\ e.package_group = g /\ e.admin
    BY <2>2, <2>3 DEF Entries
  <2> HIDE DEF e
  <2>5. Authority!AdminOf(u, g)
    BY <2>4 DEF Authority!AdminOf
  <2> QED BY <1>2, <2>5 DEF Authority!MandateOf
<1> QED BY <1>1, <1>2

\* The mandates after a step of one clerk.
LEMMA MandateTakes ==
  ASSUME call \in [Clerk -> CallRecord], NEW c \in Clerk, NEW r,
         call' = [call EXCEPT ![c] = r]
  PROVE  [d \in Clerk |-> Mandate(d)]' =
           [[d \in Clerk |-> Mandate(d)] EXCEPT
              ![c] = IF r.at = "write" THEN {r.package_group} ELSE r.authority]
<1>1. call'[c] = r /\ \A d \in Clerk \ {c} : call'[d] = call[d]
  OBVIOUS
<1> QED BY <1>1 DEF Mandate

LEMMA GivesUp ==
  ASSUME IInv, NEW c \in Clerk, NEW r, call' = [call EXCEPT ![c] = r],
         (IF r.at = "write" THEN {r.package_group} ELSE r.authority) \subseteq Mandate(c),
         UNCHANGED <<admins, access>>
  PROVE  Authority!GiveUp(c)
<1> DEFINE less == IF r.at = "write" THEN {r.package_group} ELSE r.authority
           M    == [d \in Clerk |-> Mandate(d)]
<1>1. [d \in Clerk |-> Mandate(d)]' = [M EXCEPT ![c] = less]
  BY MandateTakes DEF IInv, CallsOK
<1>2. less \in SUBSET M[c]
  OBVIOUS
<1>3. Entries' = Entries
  BY DEF Entries
<1> HIDE DEF less
<1> QED BY <1>1, <1>2, <1>3 DEF Authority!GiveUp

\* Every step of a request is one of the abstract clerk's, or a stutter.
LEMMA ServeRefines ==
  ASSUME IInv, NEW c \in Clerk, Serve(c)
  PROVE  Authority!Next
<1> DEFINE M == [d \in Clerk |-> Mandate(d)]
<1>0. /\ call[c] \in CallRecord /\ RequestOK(call[c]) /\ call \in [Clerk -> CallRecord]
      /\ access \subseteq AccessRow
  BY DEF IInv, CallsOK, AuthOK
<1>1. Resting.at = "none" /\ Resting.authority = {}
  BY DEF Resting
<1>2. ASSUME End(c), UNCHANGED <<admins, access>> PROVE Authority!Next
  <2>1. Authority!GiveUp(c)
    BY <1>1, <1>2, GivesUp DEF End
  <2> QED BY <2>1 DEF Authority!Next
<1>3. ASSUME NEW u \in User, LoadCaller(c, u) PROVE Authority!Next
  <2>1. PICK package_groups \in ComputeDerived(RowsOf(u)) :
          call' = [call EXCEPT ![c] =
            [Resting EXCEPT !.at = "user", !.authority =
               {g \in Group : isPackageGroupAdmin(u \in admins, package_groups, g)}]]
    BY <1>3 DEF LoadCaller
  <2> DEFINE granted == {g \in Group : isPackageGroupAdmin(u \in admins, package_groups, g)}
             r == [Resting EXCEPT !.at = "user", !.authority = granted]
  <2>2. granted \in SUBSET Authority!MandateOf(u)
    BY <1>0, CallersMandate
  <2>3. call' = [call EXCEPT ![c] = r]
    BY <2>1
  <2> HIDE DEF granted
  <2>4. r.at = "user" /\ r.authority = granted
    BY DEF Resting
  <2> HIDE DEF r
  <2>5. M' = [M EXCEPT ![c] = granted]
    BY <1>0, <2>3, <2>4, MandateTakes
  <2>6. M[c] = {}
    BY <1>0, <1>3 DEF LoadCaller, Mandate, RequestOK
  <2>7. Entries' = Entries /\ admins' = admins
    BY <1>3 DEF LoadCaller, Entries
  <2>8. Authority!Ask(c, u)
    BY <2>2, <2>5, <2>6, <2>7 DEF Authority!Ask
  <2> QED BY <2>8 DEF Authority!Next
<1>4. ASSUME NEW u \in User, TargetUser(c, u) PROVE Authority!Next
  <2>1. UNCHANGED <<admins, access>>
    BY <1>4 DEF TargetUser
  <2>2. CASE account[u] # "active"
    BY <1>2, <1>4, <2>1, <2>2 DEF TargetUser
  <2>3. CASE account[u] = "active"
    <3> DEFINE r == [call[c] EXCEPT !.at = "group", !.user = u]
    <3>1. call' = [call EXCEPT ![c] = r]
      BY <1>0, <1>4, <2>3 DEF TargetUser
    <3>2. r.at = "group" /\ r.authority = call[c].authority /\ call[c].at = "user"
      BY <1>0, <1>4 DEF CallRecord, TargetUser
    <3> HIDE DEF r
    <3>3. Authority!GiveUp(c)
      BY <2>1, <3>1, <3>2, GivesUp DEF Mandate
    <3> QED BY <3>3 DEF Authority!Next
  <2> QED BY <2>2, <2>3
<1>5. ASSUME resolveGroup(c) PROVE Authority!Next
  <2>1. UNCHANGED <<admins, access>> /\ call[c].at = "group"
    BY <1>5 DEF resolveGroup
  <2>2. CASE End(c)
    BY <1>2, <2>1, <2>2
  <2>3. CASE ~End(c)
    <3>1. PICK i : call' = [call EXCEPT ![c].at = "repository", ![c].package_group = group[i],
                                         ![c].authority = @ \cap {group[i]}]
      BY <1>5, <2>3 DEF resolveGroup
    <3> DEFINE r == [call[c] EXCEPT !.at = "repository", !.package_group = group[i],
                                    !.authority = call[c].authority \cap {group[i]}]
    <3>2. call' = [call EXCEPT ![c] = r]
      BY <1>0, <3>1 DEF CallRecord
    <3>3. r.at = "repository" /\ r.authority \subseteq call[c].authority
      BY <1>0 DEF CallRecord
    <3> HIDE DEF r
    <3>4. Authority!GiveUp(c)
      BY <2>1, <3>2, <3>3, GivesUp DEF Mandate
    <3> QED BY <3>4 DEF Authority!Next
  <2> QED BY <2>2, <2>3
<1>6. ASSUME resolveRepo(c) PROVE Authority!Next
  <2>1. UNCHANGED <<admins, access>> /\ call[c].at = "repository"
    BY <1>6 DEF resolveRepo
  <2>2. CASE End(c)
    BY <1>2, <2>1, <2>2
  <2>3. CASE ~End(c)
    <3>1. call[c].package_group \in call[c].authority
      BY <1>6, <2>3 DEF resolveRepo
    <3>2. PICK i : call' = [call EXCEPT ![c].at = "write", ![c].authority = {},
                                         ![c].repository = repository[i]]
      BY <1>6, <2>3 DEF resolveRepo
    <3> DEFINE r == [call[c] EXCEPT !.at = "write", !.authority = {}, !.repository = repository[i]]
    <3>3. call' = [call EXCEPT ![c] = r]
      BY <1>0, <3>2 DEF CallRecord
    <3>4. r.at = "write" /\ r.package_group = call[c].package_group
      BY <1>0 DEF CallRecord
    <3> HIDE DEF r
    <3>5. Authority!GiveUp(c)
      BY <2>1, <3>1, <3>3, <3>4, GivesUp DEF Mandate
    <3> QED BY <3>5 DEF Authority!Next
  <2> QED BY <2>2, <2>3
<1>7. ASSUME End(c), call[c].at = "write" PROVE M' = [M EXCEPT ![c] = {}] /\ M[c] = {call[c].package_group}
  BY <1>0, <1>1, <1>7, MandateTakes DEF End, Mandate
<1>8. ASSUME NEW isAdmin \in BOOLEAN, PackageGroupJoin(c, isAdmin) PROVE Authority!Next
  <2>1. /\ call[c].at = "write" /\ End(c) /\ admins' = admins
        /\ \E k \in 1 .. MaxAccess : access' = access \cup {NewRow(c, isAdmin, k)}
    BY <1>8 DEF PackageGroupJoin, Copies
  <2> DEFINE e == [user |-> call[c].user, package_group |-> call[c].package_group,
                   repository |-> call[c].repository, admin |-> isAdmin]
  <2>2. e \in Authority!Entry /\ e.package_group = call[c].package_group
    BY <1>0, <2>1 DEF RequestOK, Authority!Entry
  <2>3. Entries' = Entries \cup {e}
    <3>1. PICK k \in 1 .. MaxAccess : access' = access \cup {NewRow(c, isAdmin, k)}
      BY <2>1
    <3>2. /\ NewRow(c, isAdmin, k).user = e.user /\ NewRow(c, isAdmin, k).admin = e.admin
          /\ NewRow(c, isAdmin, k).package_group = e.package_group
          /\ NewRow(c, isAdmin, k).repository = e.repository
      BY DEF NewRow
    <3>3. e = [user |-> e.user, package_group |-> e.package_group,
               repository |-> e.repository, admin |-> e.admin]
      OBVIOUS
    <3> HIDE DEF e
    <3> QED BY <3>1, <3>2, <3>3 DEF Entries
  <2> HIDE DEF e
  <2>4. Authority!Join(c, e)
    BY <1>7, <2>1, <2>2, <2>3 DEF Authority!Join
  <2> QED BY <2>2, <2>4 DEF Authority!Next
<1>9. ASSUME PackageGroupLeave(c) PROVE Authority!Next
  <2>1. /\ call[c].at = "write" /\ End(c) /\ admins' = admins
        /\ access' = {r \in access : ~Matches(r, c)}
    BY <1>9 DEF PackageGroupLeave
  <2> DEFINE e == [user |-> call[c].user, package_group |-> call[c].package_group,
                   repository |-> call[c].repository, admin |-> TRUE]
  <2>2. e \in Authority!Entry /\ e.package_group = call[c].package_group
    BY <1>0, <2>1 DEF RequestOK, Authority!Entry
  <2>3. Entries' = {d \in Entries : ~Authority!SameAs(d, e)}
    BY <2>1 DEF Entries, Matches, Authority!SameAs
  <2> HIDE DEF e
  <2>4. Authority!Leave(c, e)
    BY <1>7, <2>1, <2>2, <2>3 DEF Authority!Leave
  <2> QED BY <2>2, <2>4 DEF Authority!Next
<1>10. ASSUME setProtected(c) \/ Abort(c) PROVE Authority!Next
  BY <1>2, <1>10 DEF setProtected, Abort
<1> QED BY <1>3, <1>4, <1>5, <1>6, <1>8, <1>9, <1>10 DEF Serve

abstract == <<Entries, admins, [c \in Clerk |-> Mandate(c)]>>

LEMMA StepRefines == IInv /\ [Next]_vars => [Authority!Next]_abstract
<1> SUFFICES ASSUME IInv, [Next]_vars PROVE [Authority!Next]_abstract
  OBVIOUS
<1>1. ASSUME NEW c \in Clerk, Serve(c) PROVE Authority!Next
  BY <1>1, ServeRefines
<1>2. ASSUME UNCHANGED <<access, admins, call>> PROVE UNCHANGED abstract
  BY <1>2 DEF abstract, Entries, Mandate
<1>3. ASSUME NEW u \in User, ChangeAdmins(u) PROVE Authority!Next
  <2>1. admins' \in SUBSET User /\ UNCHANGED <<access, call>>
    BY <1>3 DEF ChangeAdmins, IInv, AuthOK
  <2>2. Authority!ChangeChiefs
    BY <2>1 DEF Authority!ChangeChiefs, Entries, Mandate
  <2> QED BY <2>2 DEF Authority!Next
<1>4. ASSUME NEW u \in User, ChangeAccount(u) PROVE UNCHANGED abstract
  BY <1>2, <1>4 DEF ChangeAccount
<1>5. CASE ChangeRepository \/ ChangePackageGroup \/ UNCHANGED vars
  BY <1>2, <1>5 DEF ChangeRepository, ChangePackageGroup, authVars, vars
<1> QED BY <1>1, <1>3, <1>4, <1>5 DEF Next

LEMMA InitRefines == Init => Authority!Init
BY DEF Init, Authority!Init, Entries, Mandate, Resting

-----------------------------------------------------------------------------
(* Theorems *)

\* Every variable keeps its type, and the tables their unique names and issued
\* ids, whatever requests interleave.
THEOREM TypeCorrect == Spec => []TypeOK
<1>1. IInv => TypeOK
  BY InvHasTypes
<1> QED BY <1>1, Invariance, PTL

\* No id that is yet to be issued has access, although rows outlive their users
\* and requests write them after the user may be gone.
THEOREM NewUsersHaveNoAccess == Spec => []UnissuedHaveNoAccess
<1>1. IInv => UnissuedHaveNoAccess
  BY InvHasTypes
<1> QED BY <1>1, Invariance, PTL

\* Access to a group changes only under a mandate over that group, given when the
\* request was made, whatever is renamed, deleted or revoked before it is used.
THEOREM AuthorityImplemented == Spec => ImplementsAuthority
<1>1. IInv /\ [Next]_vars => [Authority!Next]_<<Entries, admins, [c \in Clerk |-> Mandate(c)]>>
  BY StepRefines DEF abstract
<1> QED BY <1>1, InitRefines, Invariance, PTL DEF Spec, ImplementsAuthority, Authority!Spec

=============================================================================
