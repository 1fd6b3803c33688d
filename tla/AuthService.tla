---------------------------- MODULE AuthService ----------------------------
(***************************************************************************)
(* auth-service: users, login tokens, access tokens and the administrator  *)
(* capability, at the granularity of one SQL statement per step.           *)
(*                                                                         *)
(* Each element of Request is a handler goroutine.  The store opens no     *)
(* transaction, so the statements of concurrent handlers interleave freely *)
(* and a cancelled request context or a database error leaves behind       *)
(* whatever the statements before it did (Abort).  The process may crash   *)
(* between any two statements; it seeds the administrator again at boot.   *)
(*                                                                         *)
(* capability_map is kept as a set: every statement of the code that reads *)
(* it asks whether a row exists or counts distinct owners, and every one   *)
(* that deletes removes all equal rows.  Reads that only build a response  *)
(* (the userByID that ends a handler, the listings) are left out.          *)
(***************************************************************************)
EXTENDS Naturals, FiniteSets

CONSTANTS
  Username, Email,      \* the values of the two columns
  Keep,                 \* an optional field the request left out (nil)
  SeedName, SeedEmail,  \* ADMIN_USERNAME and ADMIN_EMAIL
  Token,                \* the bearer strings GenerateToken may return
  Request,              \* handler goroutines
  Ops,                  \* the operations each of them may serve
  MaxUsers,             \* bound: ids the user_id sequence hands out
  MaxCreated,           \* bound: POST /user inserts only up to this id
  MaxCrashes            \* bound: crashes of the process

UserId == 1 .. MaxUsers
NoUser == 0

ADMIN == "IS_ADMIN_USER"
REST  == "IS_REST_USER"

\* The operations that RequireToken guards, GET /login/token, and the login.
OpName == {"Login", "CheckToken", "CreateUser", "UpdateUser", "DeleteUser",
           "GrantAdmin", "RevokeAdmin",
           "CreateAccessToken", "DeleteAccessToken"}

ASSUME ConstantsAssumption ==
  /\ Keep \notin Username \cup Email
  /\ SeedName \in Username /\ SeedEmail \in Email
  /\ \A r \in Request : Ops[r] \subseteq OpName
  /\ MaxUsers \in Nat \ {0} /\ MaxCreated \in Nat /\ MaxCrashes \in Nat

VARIABLES
  user,            \* the "user" table: id -> row, or NoRow
  nextId,          \* the BIGSERIAL sequence behind user.id
  capability_map,  \* {<<entity_id, capability>>}
  login_tokens,    \* token -> [user_id, state]
  access_tokens,   \* the users that store a github credential
  req,             \* the requests in flight
  boot,            \* the start-up sequence of the process
  crashes,         \* crashes so far
  overtaken        \* history: the requests between a check and the write it
                   \* guards that another request's write has overtaken

tables == <<user, nextId, capability_map, login_tokens, access_tokens>>
vars   == <<user, nextId, capability_map, login_tokens, access_tokens,
            req, boot, crashes, overtaken>>

-----------------------------------------------------------------------------
(* Tables *)

NoRow   == [username |-> Keep, email |-> Keep]
UserRow == [username : Username, email : Email]

Exists(id) == user[id] # NoRow
Existing   == {id \in UserId : Exists(id)}
Named(n)   == {id \in Existing : user[id].username = n}

Has(id, cap) == <<id, cap>> \in capability_map
AdminRows    == {id \in UserId : Has(id, ADMIN)}
LiveAdmins   == AdminRows \cap Existing

\* "stored" rows are in the table; a "deleted" or never "issued" token has no
\* row.  A stored token is live until its expire_at has passed.
TokenState == {"unissued", "live", "expired", "deleted"}
Stored(t)  == login_tokens[t].state \in {"live", "expired"}
GoneToken  == [user_id |-> NoUser, state |-> "deleted"]

\* Mutant: each column unique on its own.
PairFree_EachColumn(id, name, email) ==
  \A other \in Existing \ {id} :
     user[other].username # name /\ user[other].email # email

\* UNIQUE (username, email) holds for the pair only.
PairFree(id, name, email) ==
  \A other \in Existing \ {id} :
     <<user[other].username, user[other].email>> # <<name, email>>

\* Mutant: no cascade.
TokensWithout_NoCascade(id) == login_tokens

\* ON DELETE CASCADE of login_tokens.user_id.
TokensWithout(id) ==
  [t \in Token |-> IF Stored(t) /\ login_tokens[t].user_id = id
                   THEN GoneToken ELSE login_tokens[t]]

-----------------------------------------------------------------------------
(* Requests *)

\* A request's path and body, decoded and validated.
Call ==
       [op : {"Login"}, target : {NoUser}, username : Username, email : {Keep}]
  \cup [op : {"CheckToken"}, target : {NoUser}, username : {Keep}, email : {Keep}]
  \cup [op : {"CreateUser"}, target : {NoUser}, username : Username, email : Email]
  \cup [op : {"UpdateUser"}, target : UserId,
        username : Username \cup {Keep}, email : Email \cup {Keep}]
  \cup [op : {"DeleteUser", "GrantAdmin", "RevokeAdmin",
              "CreateAccessToken", "DeleteAccessToken"},
        target : UserId, username : {Keep}, email : {Keep}]

NoCall == [op |-> "none", target |-> NoUser, username |-> Keep, email |-> Keep]
Idle   == [pc |-> "idle", call |-> NoCall, caller |-> NoUser]

\* The next statement a request will run.
Label == {"idle", "issue", "caps",
          "exists", "insert", "grantRest", "update", "delete",
          "grantUser", "grantCaps", "grant",
          "revokeUser", "revokeCaps", "revokeCount", "revoke",
          "upsertAccess", "dropAccess"}

FirstStatement(op) ==
  CASE op = "CreateUser"        -> "exists"
    [] op = "UpdateUser"        -> "update"
    [] op = "DeleteUser"        -> "delete"
    [] op = "GrantAdmin"        -> "grantUser"
    [] op = "RevokeAdmin"       -> "revokeUser"
    [] op = "CreateAccessToken" -> "upsertAccess"
    [] op = "DeleteAccessToken" -> "dropAccess"

CallRecord    == [op : OpName \cup {"none"}, target : UserId \cup {NoUser},
                  username : Username \cup {Keep}, email : Email \cup {Keep}]
RequestRecord == [pc : Label, call : CallRecord, caller : UserId \cup {NoUser}]

At(r, label)   == req[r].pc = label
GoTo(r, label) == req' = [req EXCEPT ![r].pc = label]
Answer(r)      == req' = [req EXCEPT ![r] = Idle]

\* Admin-only handlers, and the ones a user may also call on itself.
SelfService == {"UpdateUser", "CreateAccessToken", "DeleteAccessToken"}
Permitted(call, caller) ==
  \/ Has(caller, ADMIN)
  \/ call.op \in SelfService /\ call.target = caller

Serving == boot.pc = "serving"
Down    == [pc |-> "down", id |-> NoUser, seeds |-> FALSE]

BootRecord == [pc : {"down", "insert", "seedAdmin", "seedRest", "serving"},
               id : UserId \cup {NoUser}, seeds : BOOLEAN]

\* EnsureAdmin goes on with the account id.
SeedAt(pc, id) == boot' = [pc |-> pc, id |-> id, seeds |-> TRUE]

\* The write of r overtakes whoever has made the check and not yet the write.
Overtakes(r, write) ==
  overtaken' = (overtaken \ {r}) \cup {s \in Request \ {r} : At(s, write)}

-----------------------------------------------------------------------------
(* Login: userByUsername and bcrypt, then the INSERT of the token. *)

\* Several rows may carry the name; the code takes the first one returned.  A
\* wrong password or an unknown name is answered without a state change.
LoginSelect(r, call, id) ==
  /\ Serving /\ At(r, "idle")
  /\ call.op = "Login" /\ "Login" \in Ops[r]
  /\ id \in Named(call.username)
  /\ req' = [req EXCEPT ![r] = [pc |-> "issue", call |-> call, caller |-> id]]
  /\ UNCHANGED <<tables, boot, crashes, overtaken>>

\* The foreign key refuses a token for a user deleted in between.
LoginInsert(r, t) ==
  /\ At(r, "issue")
  /\ login_tokens[t].state = "unissued"
  /\ login_tokens' = IF Exists(req[r].caller)
                     THEN [login_tokens EXCEPT
                             ![t] = [user_id |-> req[r].caller, state |-> "live"]]
                     ELSE login_tokens
  /\ Answer(r)
  /\ UNCHANGED <<user, nextId, capability_map, access_tokens, boot, crashes, overtaken>>

\* Time passes expire_at.
Expire(t) ==
  /\ login_tokens[t].state = "live"
  /\ login_tokens' = [login_tokens EXCEPT ![t].state = "expired"]
  /\ UNCHANGED <<user, nextId, capability_map, access_tokens, req, boot, crashes, overtaken>>

-----------------------------------------------------------------------------
(* RequireToken: userByToken joins the token to its user, then loads the   *)
(* capabilities with a second statement.                                   *)

TokenSelect(r, call, t) ==
  /\ Serving /\ At(r, "idle")
  /\ call.op # "Login" /\ call.op \in Ops[r]
  /\ login_tokens[t].state = "live"
  /\ Exists(login_tokens[t].user_id)
  /\ req' = [req EXCEPT ![r] = [pc |-> "caps", call |-> call,
                                caller |-> login_tokens[t].user_id]]
  /\ UNCHANGED <<tables, boot, crashes, overtaken>>

\* An expired token is deleted on sight and answered with 401.  The error of
\* that DELETE is dropped, so the row may also stay (a stutter).
TokenExpired(t) ==
  /\ Serving
  /\ login_tokens[t].state = "expired"
  /\ login_tokens' = [login_tokens EXCEPT ![t] = GoneToken]
  /\ UNCHANGED <<user, nextId, capability_map, access_tokens, req, boot, crashes, overtaken>>

\* The capabilities of the caller are read once and decide the whole request.
\* The caller may have been deleted since: its capability rows still count.
LoadCaller(r) ==
  /\ At(r, "caps")
  /\ IF req[r].call.op # "CheckToken" /\ Permitted(req[r].call, req[r].caller)
     THEN GoTo(r, FirstStatement(req[r].call.op))
     ELSE Answer(r)
  /\ UNCHANGED <<tables, boot, crashes, overtaken>>

-----------------------------------------------------------------------------
(* POST /user: SELECT EXISTS, INSERT, grantCapability(IS_REST_USER). *)

Duplicate(name, email) ==
  \E id \in Existing : user[id].username = name \/ user[id].email = email

CreateCheck(r) ==
  /\ At(r, "exists")
  /\ IF Duplicate(req[r].call.username, req[r].call.email)
     THEN Answer(r) ELSE GoTo(r, "insert")
  /\ UNCHANGED <<tables, boot, crashes, overtaken>>

\* The INSERT takes an id even when the UNIQUE pair refuses the row.
CreateInsert(r) ==
  LET call == req[r].call IN
  /\ At(r, "insert")
  /\ nextId <= MaxCreated /\ nextId \in UserId
  /\ nextId' = nextId + 1
  /\ IF PairFree(nextId, call.username, call.email)
     THEN /\ user' = [user EXCEPT ![nextId] =
                        [username |-> call.username, email |-> call.email]]
          /\ req' = [req EXCEPT ![r] =
                       [pc |-> "grantRest", call |-> [call EXCEPT !.target = nextId],
                        caller |-> req[r].caller]]
     ELSE /\ Answer(r)
          /\ UNCHANGED user
  /\ Overtakes(r, "insert")
  /\ UNCHANGED <<capability_map, login_tokens, access_tokens, boot, crashes>>

CreateGrantRest(r) ==
  /\ At(r, "grantRest")
  /\ capability_map' = capability_map \cup {<<req[r].call.target, REST>>}
  /\ Answer(r)
  /\ UNCHANGED <<user, nextId, login_tokens, access_tokens, boot, crashes, overtaken>>

-----------------------------------------------------------------------------
(* PUT and DELETE /user/{id}, one statement each. *)

\* Mutant: an absent field overwrites the column.
Coalesce_Overwrite(field, column) == field

Coalesce(field, column) == IF field = Keep THEN column ELSE field

Update(r) ==
  LET call  == req[r].call
      row   == user[call.target]
      name  == Coalesce(call.username, row.username)
      email == Coalesce(call.email, row.email)
  IN
  /\ At(r, "update")
  /\ user' = IF Exists(call.target) /\ PairFree(call.target, name, email)
             THEN [user EXCEPT ![call.target] = [username |-> name, email |-> email]]
             ELSE user
  /\ Answer(r)
  /\ Overtakes(r, "insert")
  /\ UNCHANGED <<nextId, capability_map, login_tokens, access_tokens, boot, crashes>>

\* The tokens cascade; capability_map has no foreign key to the user table.
Delete(r) ==
  LET id == req[r].call.target IN
  /\ At(r, "delete")
  /\ user' = [user EXCEPT ![id] = NoRow]
  /\ login_tokens' = TokensWithout(id)
  /\ access_tokens' = access_tokens \ {id}
  /\ Answer(r)
  /\ UNCHANGED <<nextId, capability_map, boot, crashes, overtaken>>

-----------------------------------------------------------------------------
(* PUT /permission/user/admin/{userId}: userByID (two statements), grant. *)

\* Mutant: the target is not looked up.
GrantUser_Unchecked(r) ==
  /\ At(r, "grantUser")
  /\ GoTo(r, "grantCaps")
  /\ UNCHANGED <<tables, boot, crashes, overtaken>>

GrantUser(r) ==
  /\ At(r, "grantUser")
  /\ IF Exists(req[r].call.target) THEN GoTo(r, "grantCaps") ELSE Answer(r)
  /\ UNCHANGED <<tables, boot, crashes, overtaken>>

GrantCaps(r) ==
  /\ At(r, "grantCaps")
  /\ IF Has(req[r].call.target, ADMIN) THEN Answer(r) ELSE GoTo(r, "grant")
  /\ UNCHANGED <<tables, boot, crashes, overtaken>>

Grant(r) ==
  /\ At(r, "grant")
  /\ capability_map' = capability_map \cup {<<req[r].call.target, ADMIN>>}
  /\ Answer(r)
  /\ UNCHANGED <<user, nextId, login_tokens, access_tokens, boot, crashes, overtaken>>

-----------------------------------------------------------------------------
(* DELETE /permission/user/admin/{userId}: userByID, countAdmins, DELETE. *)

\* Mutant: off by one.
canRevokeAdmin_OffByOne(adminCount) == adminCount >= 1

canRevokeAdmin(adminCount) == adminCount > 1

RevokeUser(r) ==
  /\ At(r, "revokeUser")
  /\ IF Exists(req[r].call.target) THEN GoTo(r, "revokeCaps") ELSE Answer(r)
  /\ UNCHANGED <<tables, boot, crashes, overtaken>>

RevokeCaps(r) ==
  /\ At(r, "revokeCaps")
  /\ IF Has(req[r].call.target, ADMIN) THEN GoTo(r, "revokeCount") ELSE Answer(r)
  /\ UNCHANGED <<tables, boot, crashes, overtaken>>

\* COUNT(DISTINCT entity_id) does not join the user table.
RevokeCount(r) ==
  /\ At(r, "revokeCount")
  /\ IF canRevokeAdmin(Cardinality(AdminRows)) THEN GoTo(r, "revoke") ELSE Answer(r)
  /\ UNCHANGED <<tables, boot, crashes, overtaken>>

\* Mutant: the DELETE forgets entity_id.
Revoke_Everyone(r) ==
  /\ At(r, "revoke")
  /\ capability_map' = capability_map \ (UserId \X {ADMIN})
  /\ Answer(r)
  /\ Overtakes(r, "revoke")
  /\ UNCHANGED <<user, nextId, login_tokens, access_tokens, boot, crashes>>

Revoke(r) ==
  /\ At(r, "revoke")
  /\ capability_map' = capability_map \ {<<req[r].call.target, ADMIN>>}
  /\ Answer(r)
  /\ Overtakes(r, "revoke")
  /\ UNCHANGED <<user, nextId, login_tokens, access_tokens, boot, crashes>>

-----------------------------------------------------------------------------
(* POST and DELETE /access-token/{userId}, one statement each. *)

UpsertAccess(r) ==
  LET id == req[r].call.target IN
  /\ At(r, "upsertAccess")
  /\ access_tokens' = IF Exists(id) THEN access_tokens \cup {id} ELSE access_tokens
  /\ Answer(r)
  /\ UNCHANGED <<user, nextId, capability_map, login_tokens, boot, crashes, overtaken>>

DropAccess(r) ==
  /\ At(r, "dropAccess")
  /\ access_tokens' = access_tokens \ {req[r].call.target}
  /\ Answer(r)
  /\ UNCHANGED <<user, nextId, capability_map, login_tokens, boot, crashes, overtaken>>

-----------------------------------------------------------------------------
(* Failures, and EnsureAdmin at boot. *)

\* The client went away (its context cancels the statement) or the statement
\* failed: the handler answers 500 and undoes nothing.
Abort(r) ==
  /\ req[r].pc # "idle"
  /\ Answer(r)
  /\ overtaken' = overtaken \ {r}
  /\ UNCHANGED <<tables, boot, crashes>>

Crash ==
  /\ boot.pc # "down"
  /\ crashes < MaxCrashes
  /\ crashes' = crashes + 1
  /\ boot' = Down
  /\ req' = [r \in Request |-> Idle]
  /\ overtaken' = {}
  /\ UNCHANGED tables

\* Without ADMIN_USERNAME in its environment a start-up seeds nobody.
SkipSeed ==
  /\ boot.pc = "down"
  /\ boot' = [pc |-> "serving", id |-> NoUser, seeds |-> FALSE]
  /\ UNCHANGED <<tables, req, crashes, overtaken>>

\* Mutant: the capabilities are granted only to a seed just created.
SeedSelect_GrantOnlyNew ==
  /\ boot.pc = "down"
  /\ \/ /\ Named(SeedName) = {}
        /\ SeedAt("insert", NoUser)
     \/ /\ Named(SeedName) # {}
        /\ SeedAt("serving", NoUser)
  /\ UNCHANGED <<tables, req, crashes, overtaken>>

\* SELECT id ... WHERE username: any row of that name.
SeedSelect ==
  /\ boot.pc = "down"
  /\ \/ /\ Named(SeedName) = {}
        /\ SeedAt("insert", NoUser)
     \/ \E id \in Named(SeedName) : SeedAt("seedAdmin", id)
  /\ UNCHANGED <<tables, req, crashes, overtaken>>

\* A refused INSERT ends the process (log.Fatalf): down again.
SeedInsert ==
  /\ boot.pc = "insert"
  /\ nextId \in UserId
  /\ nextId' = nextId + 1
  /\ IF PairFree(nextId, SeedName, SeedEmail)
     THEN /\ user' = [user EXCEPT ![nextId] =
                        [username |-> SeedName, email |-> SeedEmail]]
          /\ SeedAt("seedAdmin", nextId)
     ELSE /\ boot' = Down
          /\ UNCHANGED user
  /\ UNCHANGED <<capability_map, login_tokens, access_tokens, req, crashes, overtaken>>

SeedGrantAdmin ==
  /\ boot.pc = "seedAdmin"
  /\ capability_map' = capability_map \cup {<<boot.id, ADMIN>>}
  /\ SeedAt("seedRest", boot.id)
  /\ UNCHANGED <<user, nextId, login_tokens, access_tokens, req, crashes, overtaken>>

\* After the second grant the server starts to listen.
SeedGrantRest ==
  /\ boot.pc = "seedRest"
  /\ capability_map' = capability_map \cup {<<boot.id, REST>>}
  /\ SeedAt("serving", NoUser)
  /\ UNCHANGED <<user, nextId, login_tokens, access_tokens, req, crashes, overtaken>>

-----------------------------------------------------------------------------
Init ==
  /\ user = [id \in UserId |-> NoRow]
  /\ nextId = 1
  /\ capability_map = {}
  /\ login_tokens = [t \in Token |-> [user_id |-> NoUser, state |-> "unissued"]]
  /\ access_tokens = {}
  /\ req = [r \in Request |-> Idle]
  /\ boot = Down
  /\ crashes = 0
  /\ overtaken = {}

Boot == SkipSeed \/ SeedSelect \/ SeedInsert \/ SeedGrantAdmin \/ SeedGrantRest

Arrive(r) ==
  \E call \in Call :
     \/ \E id \in UserId : LoginSelect(r, call, id)
     \/ \E t \in Token : TokenSelect(r, call, t)

Step(r) ==
  \/ \E t \in Token : LoginInsert(r, t)
  \/ LoadCaller(r)
  \/ CreateCheck(r) \/ CreateInsert(r) \/ CreateGrantRest(r)
  \/ Update(r) \/ Delete(r)
  \/ GrantUser(r) \/ GrantCaps(r) \/ Grant(r)
  \/ RevokeUser(r) \/ RevokeCaps(r) \/ RevokeCount(r) \/ Revoke(r)
  \/ UpsertAccess(r) \/ DropAccess(r)

Next ==
  \/ Boot \/ Crash
  \/ \E t \in Token : Expire(t) \/ TokenExpired(t)
  \/ \E r \in Request : Arrive(r) \/ Step(r) \/ Abort(r)

Spec == Init /\ [][Next]_vars

\* A process that is down is started again, and its start-up runs on.  No
\* fairness is asked of clients, and crashes are finitely many (MaxCrashes).
FairSpec == Spec /\ WF_vars(Boot)

-----------------------------------------------------------------------------
(* Properties *)

TypeOK ==
  /\ user \in [UserId -> UserRow \cup {NoRow}]
  /\ nextId \in 1 .. MaxUsers + 1
  /\ capability_map \in SUBSET (UserId \X {ADMIN, REST})
  /\ login_tokens \in [Token -> [user_id : UserId \cup {NoUser}, state : TokenState]]
  /\ access_tokens \in SUBSET UserId
  /\ req \in [Request -> RequestRecord]
  /\ boot \in BootRecord
  /\ crashes \in Nat
  /\ overtaken \in SUBSET Request

\* No credential outlives its owner: a stored login token or access token
\* belongs to a user that exists, although logins, upserts and deletions of
\* the same user interleave.
CredentialsOwned ==
  /\ \A t \in Token : Stored(t) => login_tokens[t].user_id \in Existing
  /\ access_tokens \subseteq Existing

\* An id the sequence has yet to hand out carries no capability.  Deleted
\* users leave their capability rows behind, so this is what keeps a new user
\* from being born with the powers of an old one.
UnissuedIdsBare ==
  \A id \in UserId : id >= nextId => ~Exists(id) /\ ~Has(id, ADMIN) /\ ~Has(id, REST)

\* The guard of RevokeAdmin counts in one statement and deletes in the next.
\* A revoke empties the table only if another one came in between.
GuardHolds ==
  [][\A r \in Request : Revoke(r) /\ r \notin overtaken => AdminRows' # {}]_vars

\* users.go: "The duplicate check is by username OR email".  The database
\* refuses only the pair, so all depends on the SELECT: a user is created with
\* a name or an email that is taken only if another creation or a rename came
\* between it and the INSERT.
CheckHolds ==
  [][\A r \in Request :
       CreateInsert(r) /\ r \notin overtaken =>
         ~Duplicate(req[r].call.username, req[r].call.email)]_vars

\* What a request may still do to the administrators.
Licence(r) ==
  CASE req[r].pc \in {"grantUser", "revokeUser", "revokeCaps", "revokeCount"}
         -> [power |-> "consider", over |-> NoUser]
    [] req[r].pc \in {"grantCaps", "grant"}
         -> [power |-> "appoint", over |-> req[r].call.target]
    [] req[r].pc = "revoke"
         -> [power |-> "dismiss", over |-> req[r].call.target]
    [] OTHER -> [power |-> "none", over |-> NoUser]

\* However the handlers' statements interleave, the administrator rows change
\* only by a licence given when its conditions held: the caller was an
\* administrator, the one appointed existed, the one dismissed was not alone.
Registry == INSTANCE AdminRegistry
              WITH Clerk <- Request, Person <- UserId, Nobody <- NoUser,
                   admins <- AdminRows, people <- Existing,
                   licence <- [r \in Request |-> Licence(r)]
ImplementsRegistry == Registry!Spec

\* A restart repairs: whatever crashes, aborted requests, revokes, renames and
\* deletions came before, a start-up that seeds lets the service listen only
\* with an administrator that exists.
BootRestoresAdmin ==
  [][~Serving /\ Serving' /\ boot'.seeds => LiveAdmins' # {}]_vars

\* Every start-up completes: no rename or deletion of the seed account makes
\* the INSERT of EnsureAdmin fail for ever.
BootCompletes == []<>Serving

\* permission.go: "refuses to remove the last admin".  A revoke leaves an
\* administrator that exists.
RevokeLeavesAdmin ==
  [][(\E r \in Request : Revoke(r)) => LiveAdmins' # {}]_vars

=============================================================================
