--------------------------- MODULE GroupPermissions ---------------------------
(***************************************************************************)
(* The package-group permissions of auth-service, composed with the tables *)
(* of metadata-service that give a group and a repository their names.     *)
(*                                                                         *)
(* join, leave, protect and unprotect share decodePGPerm.  The caller is   *)
(* loaded before it; then come a statement for the target user, a call to  *)
(* metadata-service for the group and one for the repository, the check of *)
(* the caller's authority over the group's canonical name and, at last,    *)
(* the one statement that changes capability_map.  Between any two of them *)
(* an administrator's requests to metadata-service may rename, delete and  *)
(* create groups and repositories.                                         *)
(*                                                                         *)
(* Those requests, whose handlers Metadata models, and the changes to the  *)
(* users and administrators, which AuthService models, are one step each.  *)
(***************************************************************************)
EXTENDS Naturals, Sequences, FiniteSets, Access

CONSTANTS
  Repository, Group,       \* names
  NoName,
  Numeral,                 \* name -> the number it spells if it is all digits, or 0
  Seeds,                   \* the repositories the migration inserts
  MaxRepository, MaxGroup, \* bounds: ids each sequence hands out
  Clerk,     \* request goroutines of auth-service
  User,      \* user ids
  NoUser,
  MaxAccess,      \* bound: PACKAGE_GROUP_ACCESS rows at a time
  MaxUserChanges  \* bound: users created or deleted, administrators changed

ASSUME PermissionsAssumption ==
  /\ NoName \notin Group \cup Repository
  /\ NoUser \notin User
  /\ Seeds \in Seq(Repository)
  /\ \A i, j \in 1 .. Len(Seeds) : Seeds[i] = Seeds[j] => i = j
  /\ Len(Seeds) <= MaxRepository
  /\ MaxRepository \in Nat /\ MaxGroup \in Nat
  /\ MaxAccess \in Nat /\ MaxUserChanges \in Nat

VARIABLES
  repository, repositorySeq,  \* the table repository and its sequence
  group, groupSeq,            \* the table package_group and its sequence
  account,   \* user id -> "unissued", "active" or "deleted"
  admins,    \* the owners of an IS_ADMIN_USER row
  access,    \* the PACKAGE_GROUP_ACCESS rows of capability_map
  call,      \* clerk -> the permission request in flight
  changes    \* users and administrators changed so far

authVars == <<account, admins, access, call, changes>>
tables   == <<repository, repositorySeq, group, groupSeq>>
vars     == <<repository, repositorySeq, group, groupSeq,
              account, admins, access, call, changes>>

Repo == INSTANCE NameTable WITH
          Names <- Repository, MaxId <- MaxRepository,
          rows <- repository, seq <- repositorySeq
Grp  == INSTANCE NameTable WITH
          Names <- Group, MaxId <- MaxGroup, Seeds <- <<>>,
          rows <- group, seq <- groupSeq

\* approved is always true and nothing reads protected: both are left out.  The
\* rows have no key of their own: copy only tells equal ones apart.
AccessRow == [copy : 1 .. MaxAccess, user : User, package_group : Group,
              repository : Repository, admin : BOOLEAN]

\* at is the next step of a request, "none" without one; authority holds the
\* groups isPackageGroupAdmin says yes to, given the caller that was loaded.
CallRecord ==
  [at : {"none", "user", "group", "repository", "write"}, authority : SUBSET Group,
   user : User \cup {NoUser}, package_group : Group \cup {NoName},
   repository : Repository \cup {NoName}]

Resting == [at |-> "none", authority |-> {}, user |-> NoUser,
            package_group |-> NoName, repository |-> NoName]

End(c) == call' = [call EXCEPT ![c] = Resting]

RowsOf(u) == {r \in access : r.user = u}

-----------------------------------------------------------------------------
(* POST /permission/package-group/{verb} *)

LoadCaller(c, u) ==
  /\ call[c].at = "none" /\ account[u] = "active"
  /\ \E package_groups \in ComputeDerived(RowsOf(u)) :
       call' = [call EXCEPT ![c] =
         [Resting EXCEPT !.at = "user", !.authority =
            {g \in Group : isPackageGroupAdmin(u \in admins, package_groups, g)}]]
  /\ UNCHANGED <<tables, account, admins, access, changes>>

\* Mutant: the target need not exist.
TargetUser_Unchecked(c, u) ==
  /\ call[c].at = "user"
  /\ call' = [call EXCEPT ![c].at = "group", ![c].user = u]
  /\ UNCHANGED <<tables, account, admins, access, changes>>

TargetUser(c, u) ==
  /\ call[c].at = "user"
  /\ IF account[u] # "active" THEN End(c)
     ELSE call' = [call EXCEPT ![c].at = "group", ![c].user = u]
  /\ UNCHANGED <<tables, account, admins, access, changes>>

\* By id, or by a name that metadata takes for an id if it is all digits.
resolveGroup(c) ==
  /\ call[c].at = "group"
  /\ \E found \in {Grp!ById(i) : i \in Grp!Ids} \cup {Grp!Get(n) : n \in Group} :
       IF found = {} THEN End(c)
       ELSE \E i \in found :
         call' = [call EXCEPT ![c].at = "repository", ![c].package_group = group[i],
                              ![c].authority = @ \cap {group[i]}]
  /\ UNCHANGED <<tables, account, admins, access, changes>>

\* An id is looked for in the list of repositories.  With both names known the
\* caller's authority over the group is checked.
resolveRepo(c) ==
  /\ call[c].at = "repository"
  /\ \E found \in {Repo!ById(i) : i \in Repo!Ids} \cup {Repo!Get(n) : n \in Repository} :
       IF found = {} \/ call[c].package_group \notin call[c].authority THEN End(c)
       ELSE \E i \in found :
         call' = [call EXCEPT ![c].at = "write", ![c].authority = {},
                              ![c].repository = repository[i]]
  /\ UNCHANGED <<tables, account, admins, access, changes>>

\* constraint @> {package_group, repository}
Matches(r, c) == /\ r.user = call[c].user
                 /\ r.package_group = call[c].package_group
                 /\ r.repository = call[c].repository

NewRow(c, isAdmin, copy) ==
  [copy |-> copy, user |-> call[c].user, package_group |-> call[c].package_group,
   repository |-> call[c].repository, admin |-> isAdmin]
Copies(c, isAdmin) == {k \in 1 .. MaxAccess : NewRow(c, isAdmin, k) \notin access}

\* Always a new row, even beside one for the same user, group and repository.
PackageGroupJoin(c, isAdmin) ==
  /\ call[c].at = "write"
  /\ Cardinality(access) < MaxAccess
  /\ \E k \in Copies(c, isAdmin) :
       /\ \A j \in Copies(c, isAdmin) : k <= j
       /\ access' = access \cup {NewRow(c, isAdmin, k)}
  /\ End(c)
  /\ UNCHANGED <<tables, account, admins, changes>>

\* Mutant: one row at a time.
PackageGroupLeave_OneRow(c) ==
  /\ call[c].at = "write"
  /\ \/ \E r \in access : Matches(r, c) /\ access' = access \ {r}
     \/ (~\E r \in access : Matches(r, c)) /\ UNCHANGED access
  /\ End(c)
  /\ UNCHANGED <<tables, account, admins, changes>>

PackageGroupLeave(c) ==
  /\ call[c].at = "write"
  /\ access' = {r \in access : ~Matches(r, c)}
  /\ End(c)
  /\ UNCHANGED <<tables, account, admins, changes>>

\* protect and unprotect merge the flag into the constraint of the matching rows.
setProtected(c) ==
  /\ call[c].at = "write"
  /\ End(c)
  /\ UNCHANGED <<tables, account, admins, access, changes>>

\* The client gives up, a statement fails or a service does not answer.
Abort(c) ==
  /\ call[c].at # "none"
  /\ End(c)
  /\ UNCHANGED <<tables, account, admins, access, changes>>

-----------------------------------------------------------------------------
(* Users and administrators, see AuthService *)

\* A deleted user keeps its rows, and its id is never issued again.
ChangeAccount(u) ==
  /\ changes < MaxUserChanges /\ changes' = changes + 1
  /\ account' = [account EXCEPT ![u] =
       IF @ = "unissued" THEN "active" ELSE "deleted"]
  /\ UNCHANGED <<tables, admins, access, call>>

\* The statement of GrantAdmin or RevokeAdmin, whose caller and target may be
\* gone by then, and that of EnsureAdmin, which a start needs nobody's word for.
ChangeAdmins(u) ==
  /\ changes < MaxUserChanges /\ changes' = changes + 1
  /\ account[u] # "unissued"
  /\ admins' = IF u \in admins THEN admins \ {u} ELSE admins \cup {u}
  /\ UNCHANGED <<tables, account, access, call>>

\* POST, PUT and DELETE of /repository and /package-group by an administrator,
\* and the seeds that a restart of metadata-service inserts again.  A request
\* for an id without a row changes nothing.
ChangeRepository ==
  /\ \/ Repo!Migrate
     \/ \E n \in Repository : Repo!Create(n)
     \/ \E i \in Repo!Ids : Repo!Exists(i) /\ (Repo!Delete(i) \/ \E n \in Repository : Repo!Update(i, n))
  /\ UNCHANGED <<group, groupSeq, authVars>>

ChangePackageGroup ==
  /\ \/ \E n \in Group : Grp!Create(n)
     \/ \E i \in Grp!Ids : Grp!Exists(i) /\ (Grp!Delete(i) \/ \E n \in Group : Grp!Update(i, n))
  /\ UNCHANGED <<repository, repositorySeq, authVars>>

-----------------------------------------------------------------------------
Init ==
  /\ Repo!Init /\ Grp!Init
  /\ account \in [User -> {"unissued", "active"}]
  /\ admins \in {{u} : u \in {v \in User : account[v] = "active"}}
  /\ access = {} /\ changes = 0
  /\ call = [c \in Clerk |-> Resting]

Serve(c) ==
  \/ \E u \in User : LoadCaller(c, u)
  \/ \E u \in User : TargetUser(c, u)
  \/ resolveGroup(c) \/ resolveRepo(c)
  \/ \E isAdmin \in BOOLEAN : PackageGroupJoin(c, isAdmin)
  \/ PackageGroupLeave(c) \/ setProtected(c) \/ Abort(c)

Next ==
  \/ \E c \in Clerk : Serve(c)
  \/ \E u \in User : ChangeAccount(u) \/ ChangeAdmins(u)
  \/ ChangeRepository \/ ChangePackageGroup

Spec == Init /\ [][Next]_vars

-----------------------------------------------------------------------------
(* Properties *)

\* Every variable has its type, ids are within what the sequences handed out,
\* and the UNIQUE columns are unique.
TypeOK ==
  /\ Repo!TypeOK /\ Repo!UniqueNames /\ Repo!IssuedOnly
  /\ Grp!TypeOK /\ Grp!UniqueNames /\ Grp!IssuedOnly
  /\ account \in [User -> {"unissued", "active", "deleted"}]
  /\ admins \subseteq User
  /\ access \subseteq AccessRow
  /\ call \in [Clerk -> CallRecord]
  /\ changes \in 0 .. MaxUserChanges

\* An id that is not issued yet has no access row, although rows outlive users
\* and requests write them after the user may be gone.
UnissuedHaveNoAccess == \A r \in access : account[r.user] # "unissued"

\* Access changes only under a mandate over the group itself, however late, and
\* whatever names groups and repositories take meanwhile.
Mandate(c) == IF call[c].at = "write" THEN {call[c].package_group} ELSE call[c].authority
Entries == {[user |-> r.user, package_group |-> r.package_group,
             repository |-> r.repository, admin |-> r.admin] : r \in access}

Authority == INSTANCE GroupAuthority WITH
               access <- Entries, chiefs <- admins, mandate <- [c \in Clerk |-> Mandate(c)]
ImplementsAuthority == Authority!Spec

=============================================================================
