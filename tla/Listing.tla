------------------------------ MODULE Listing ------------------------------
(***************************************************************************)
(* What a facade promises those who read its pages: a row shows files that *)
(* are in storage and were each uploaded as that file of that row, or it   *)
(* is not on the page.  One row changes at one instant: it comes on the    *)
(* page, shows something else, or goes.  Uploads, failures and late calls  *)
(* show nothing by halves.                                                 *)
(***************************************************************************)
CONSTANTS Row,
          releases  \* row -> what it may show
VARIABLE shown      \* row on the page -> what it shows

Publish(r) ==
  \E release \in releases[r] :
    shown' = [s \in DOMAIN shown \cup {r} |-> IF s = r THEN release ELSE shown[s]]

Withdraw(r) == shown' = [s \in DOMAIN shown \ {r} |-> shown[s]]

Init == DOMAIN shown = {}

Next == \E r \in Row : Publish(r) \/ Withdraw(r)

Spec == Init /\ [][Next]_shown

=============================================================================
