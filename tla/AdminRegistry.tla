--------------------------- MODULE AdminRegistry ---------------------------
(***************************************************************************)
(* What auth-service promises about its administrators, without tables or  *)
(* statements.  Clerks carry out requests side by side.  A clerk acts on   *)
(* the authority of somebody who was an administrator when it was asked,   *)
(* is licensed to appoint a person who is there, or to dismiss one who is  *)
(* not the only administrator, and uses the licence up later, when all of  *)
(* that may have changed.  With no clerk at work the house may be opened   *)
(* again, and one of its people made an administrator.                     *)
(***************************************************************************)
CONSTANTS Clerk, Person, Nobody

VARIABLES
  admins,   \* the administrators
  people,   \* those who are there; an administrator may have left
  licence   \* clerk -> what it may do, and to whom

NoLicence == [power |-> "none", over |-> Nobody]
Asked     == [power |-> "consider", over |-> Nobody]

Give(c, l) == licence' = [licence EXCEPT ![c] = l]

Ask(c) ==
  /\ licence[c] = NoLicence
  /\ admins # {}
  /\ Give(c, Asked)
  /\ UNCHANGED <<admins, people>>

License(c, u) ==
  /\ licence[c] = Asked
  /\ \/ u \in people /\ Give(c, [power |-> "appoint", over |-> u])
     \/ admins \ {u} # {} /\ Give(c, [power |-> "dismiss", over |-> u])
  /\ UNCHANGED <<admins, people>>

Appoint(c, u) ==
  /\ licence[c] = [power |-> "appoint", over |-> u]
  /\ admins' = admins \cup {u}
  /\ Give(c, NoLicence)
  /\ UNCHANGED people

Dismiss(c, u) ==
  /\ licence[c] = [power |-> "dismiss", over |-> u]
  /\ admins' = admins \ {u}
  /\ Give(c, NoLicence)
  /\ UNCHANGED people

Drop(c) == Give(c, NoLicence) /\ UNCHANGED <<admins, people>>

\* People come and go, and keep their office when they go.
ComeAndGo == people' \in SUBSET Person /\ UNCHANGED <<admins, licence>>

\* All clerks stop.
Close == licence' = [c \in Clerk |-> NoLicence] /\ UNCHANGED <<admins, people>>

\* EnsureAdmin, while nobody is served.
Open(u) ==
  /\ \A c \in Clerk : licence[c] = NoLicence
  /\ u \in people
  /\ admins' = admins \cup {u}
  /\ UNCHANGED <<people, licence>>

Init == admins = {} /\ people = {} /\ licence = [c \in Clerk |-> NoLicence]

Next ==
  \/ \E c \in Clerk :
       \/ Ask(c) \/ Drop(c)
       \/ \E u \in Person : License(c, u) \/ Appoint(c, u) \/ Dismiss(c, u)
  \/ \E u \in Person : Open(u)
  \/ ComeAndGo \/ Close

Spec == Init /\ [][Next]_<<admins, people, licence>>

=============================================================================
