-------------------------------- MODULE Access --------------------------------
(***************************************************************************)
(* Who may do what: the operators by which auth-service derives a user's   *)
(* package_groups from capability rows, and decides on them.               *)
(***************************************************************************)
\* The maps package_groups that a user's rows may give: one key for each group
\* and, where rows of the group differ, the level of the last row read; they are
\* read in no order.
ComputeDerived(rows) ==
  LET groups    == {r.package_group : r \in rows}
      levels(g) == {IF r.admin THEN "admin" ELSE "access" :
                      r \in {s \in rows : s.package_group = g}}
  IN {f \in [groups -> {"admin", "access"}] : \A g \in groups : f[g] \in levels(g)}

isPackageGroupAdmin(isAdmin, package_groups, g) ==
  isAdmin \/ (g \in DOMAIN package_groups /\ package_groups[g] = "admin")

=============================================================================
