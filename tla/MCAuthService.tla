--------------------------- MODULE MCAuthService ---------------------------
(* Small instances of AuthService. *)
EXTENDS AuthService, TLC

CONSTANTS r1, r2, admin, bob, root_mail, bob_mail

MCUsername == {admin, bob}
MCEmail    == {root_mail, bob_mail}

\* Two goroutines, of which either may revoke while the other grants, creates,
\* deletes or revokes.
Handlers ==
  r1 :> {"Login", "CreateUser", "GrantAdmin", "RevokeAdmin",
         "CreateAccessToken", "DeleteAccessToken"}
  @@ r2 :> {"Login", "CheckToken", "DeleteUser", "RevokeAdmin"}

\* One goroutine that renames, deletes and revokes between restarts.
Accounts ==
  r1 :> {"Login", "CreateUser", "UpdateUser", "DeleteUser", "GrantAdmin", "RevokeAdmin"}

\* Nothing tells one unissued token from another.
TokenSymmetry == Permutations(Token)

=============================================================================
