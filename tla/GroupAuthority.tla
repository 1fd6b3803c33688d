---------------------------- MODULE GroupAuthority ----------------------------
(***************************************************************************)
(* What the package-group permissions promise: access to a group changes   *)
(* only under a mandate, which somebody had over that very group when the  *)
(* request was made; a join adds one entry, and a leave removes the access *)
(* to a group and repository altogether.                                   *)
(***************************************************************************)
CONSTANTS Clerk,       \* those who carry out requests
          User, Group, Repository

VARIABLES
  access,   \* {[user, package_group, repository, admin]}
  chiefs,   \* the users with a mandate over every group
  mandate   \* clerk -> the groups its request may change

Entry == [user : User, package_group : Group, repository : Repository, admin : BOOLEAN]

AdminOf(u, g)  == \E e \in access : e.user = u /\ e.package_group = g /\ e.admin
MandateOf(u)   == IF u \in chiefs THEN Group ELSE {g \in Group : AdminOf(u, g)}
SameAs(e, d)   == e.user = d.user /\ e.package_group = d.package_group
                  /\ e.repository = d.repository

Ask(c, u) ==
  /\ mandate[c] = {}
  /\ \E granted \in SUBSET MandateOf(u) : mandate' = [mandate EXCEPT ![c] = granted]
  /\ UNCHANGED <<access, chiefs>>

Join(c, e) ==
  /\ e.package_group \in mandate[c]
  /\ mandate' = [mandate EXCEPT ![c] = {}]
  /\ access' = access \cup {e}
  /\ UNCHANGED chiefs

Leave(c, e) ==
  /\ e.package_group \in mandate[c]
  /\ mandate' = [mandate EXCEPT ![c] = {}]
  /\ access' = {d \in access : ~SameAs(d, e)}
  /\ UNCHANGED chiefs

\* The request ends, or goes on with less.
GiveUp(c) ==
  /\ \E less \in SUBSET mandate[c] : mandate' = [mandate EXCEPT ![c] = less]
  /\ UNCHANGED <<access, chiefs>>

\* Who is a chief is decided elsewhere.
ChangeChiefs ==
  /\ chiefs' \in SUBSET User
  /\ UNCHANGED <<access, mandate>>

Init ==
  /\ access = {} /\ chiefs \in SUBSET User
  /\ mandate = [c \in Clerk |-> {}]

Next ==
  \/ \E c \in Clerk :
       \/ GiveUp(c)
       \/ \E u \in User : Ask(c, u)
       \/ \E e \in Entry : Join(c, e) \/ Leave(c, e)
  \/ ChangeChiefs

Spec == Init /\ [][Next]_<<access, chiefs, mandate>>

=============================================================================
