------------------------- MODULE AuthService_proofs -------------------------
(***************************************************************************)
(* The theorems about AuthService, for every value of its constants.       *)
(***************************************************************************)
EXTENDS AuthService, FiniteSetTheorems, TLAPS

\* What is known of a request from the statement it is about to run.
RequestOK(r) ==
  LET pc == req[r].pc
      call == req[r].call
  IN
  /\ pc = "caps" => call \in Call /\ call.op # "Login" /\ call.op \in Ops[r]
  /\ pc = "issue" => req[r].caller \in UserId
  /\ pc \in {"exists", "insert"} => call.username \in Username /\ call.email \in Email
  /\ pc \in {"update", "delete", "grantUser", "revokeUser", "upsertAccess", "dropAccess"}
       => call.target \in UserId
  /\ pc \in {"grantRest", "grantCaps", "grant", "revokeCaps", "revokeCount", "revoke"}
       => call.target \in UserId /\ call.target < nextId

\* No request is served during start-up, and start-up works on an issued id.
BootOK ==
  /\ ~Serving => \A r \in Request : req[r].pc = "idle"
  /\ boot.pc \in {"seedAdmin", "seedRest"} => boot.id \in UserId /\ boot.id < nextId

IInv ==
  /\ TypeOK
  /\ \A r \in Request : RequestOK(r)
  /\ BootOK
  /\ UnissuedIdsBare
  /\ CredentialsOwned

-----------------------------------------------------------------------------
(* Every step but those that write a table leaves the tables' invariants    *)
(* alone; for a request it remains to look at the request itself.           *)

LEMMA InitIInv == Init => IInv
<1> SUFFICES ASSUME Init PROVE IInv
  OBVIOUS
<1>1. TypeOK
  BY ConstantsAssumption DEF Init, TypeOK, UserId, Idle, NoCall, RequestRecord, CallRecord, Label, TokenState, NoUser, Down, BootRecord
<1>2. \A r \in Request : RequestOK(r)
  BY DEF Init, RequestOK, Idle
<1>3. BootOK
  BY DEF Init, BootOK, Idle, Down
<1>4. UnissuedIdsBare
  BY DEF Init, UnissuedIdsBare, Exists, Has
<1>5. CredentialsOwned
  BY DEF Init, CredentialsOwned, Stored
<1> QED
  BY <1>1, <1>2, <1>3, <1>4, <1>5 DEF IInv

\* A step of one request that writes no table.
LEMMA QuietStep ==
  ASSUME IInv, NEW r \in Request, Serving,
         UNCHANGED <<tables, boot, crashes>>, overtaken' \in SUBSET Request,
         req' \in [Request -> RequestRecord],
         \A s \in Request \ {r} : req'[s] = req[s],
         RequestOK(r)'
  PROVE  IInv'
<1>1. TypeOK'
  BY DEF IInv, TypeOK, tables
<1>2. \A s \in Request : RequestOK(s)'
  <2> SUFFICES ASSUME NEW s \in Request \ {r} PROVE RequestOK(s)'
    OBVIOUS
  <2> QED
    BY DEF IInv, RequestOK, tables
<1>3. BootOK'
  BY DEF BootOK, IInv, Serving, tables
<1>4. UnissuedIdsBare' /\ CredentialsOwned'
  BY DEF IInv, tables, UnissuedIdsBare, CredentialsOwned, Exists, Has, Existing, Stored
<1> QED
  BY <1>1, <1>2, <1>3, <1>4 DEF IInv

-----------------------------------------------------------------------------
(* The steps of a request. *)

\* A request at a statement keeps the process serving.
LEMMA BusyServes ==
  ASSUME IInv, NEW r \in Request, req[r].pc # "idle"
  PROVE  Serving
BY DEF IInv, BootOK

LEMMA ArriveStep ==
  ASSUME IInv, NEW r \in Request, Arrive(r)
  PROVE  IInv'
<1> PICK call \in Call : \/ \E id \in UserId : LoginSelect(r, call, id)
                         \/ \E t \in Token : TokenSelect(r, call, t)
  BY DEF Arrive
<1>1. call \in CallRecord
  BY DEF Call, CallRecord, OpName
<1>2. CASE \E id \in UserId : LoginSelect(r, call, id)
  <2> PICK id \in UserId : LoginSelect(r, call, id)
    BY <1>2
  <2>1. req'[r] = [pc |-> "issue", call |-> call, caller |-> id]
    BY DEF LoginSelect, IInv, TypeOK
  <2>2. RequestOK(r)'
    BY <2>1 DEF RequestOK
  <2> QED
    BY <1>1, <2>1, <2>2, QuietStep DEF LoginSelect, IInv, TypeOK, RequestRecord, CallRecord, Label
<1>3. CASE \E t \in Token : TokenSelect(r, call, t)
  <2> PICK t \in Token : TokenSelect(r, call, t)
    BY <1>3
  <2>1. req'[r] = [pc |-> "caps", call |-> call, caller |-> login_tokens[t].user_id]
    BY DEF TokenSelect, IInv, TypeOK
  <2>2. RequestOK(r)'
    BY <2>1 DEF RequestOK, TokenSelect
  <2> QED
    BY <1>1, <2>1, <2>2, QuietStep DEF TokenSelect, IInv, TypeOK, RequestRecord, CallRecord, Label
<1> QED
  BY <1>2, <1>3

\* A request that answers is idle, and idle requests satisfy everything.
LEMMA QuietAnswer ==
  ASSUME IInv, NEW r \in Request, req[r].pc # "idle", Answer(r),
         UNCHANGED <<tables, boot, crashes>>, overtaken' \in SUBSET Request
  PROVE  IInv'
<1>1. req'[r] = Idle
  BY DEF Answer, IInv, TypeOK
<1>2. RequestOK(r)'
  BY <1>1 DEF RequestOK, Idle
<1> QED
  BY <1>1, <1>2, BusyServes, QuietStep DEF Answer, IInv, TypeOK, Idle, NoCall, RequestRecord, CallRecord, Label

\* A request that goes on needs only what its next statement relies on.
LEMMA QuietGoTo ==
  ASSUME IInv, NEW r \in Request, req[r].pc # "idle",
         NEW label \in Label, GoTo(r, label),
         UNCHANGED <<tables, boot, crashes>>, overtaken' \in SUBSET Request,
         RequestOK(r)'
  PROVE  IInv'
BY BusyServes, QuietStep DEF GoTo, IInv, TypeOK, RequestRecord

LEMMA FirstStatementIsLabel ==
  ASSUME NEW op \in OpName \ {"Login", "CheckToken"}
  PROVE  FirstStatement(op) \in Label
BY DEF OpName, FirstStatement, Label

LEMMA ReadStep ==
  ASSUME IInv, NEW r \in Request,
         \/ LoadCaller(r) \/ CreateCheck(r)
         \/ GrantUser(r) \/ GrantCaps(r)
         \/ RevokeUser(r) \/ RevokeCaps(r) \/ RevokeCount(r)
         \/ Abort(r)
  PROVE  IInv'
<1>0. /\ UNCHANGED <<tables, boot, crashes>>
      /\ overtaken' \in SUBSET Request
      /\ req[r].pc # "idle"
  BY DEF LoadCaller, CreateCheck, GrantUser, GrantCaps, RevokeUser, RevokeCaps,
         RevokeCount, Abort, At, IInv, TypeOK
<1>1. CASE Answer(r)
  BY <1>0, <1>1, QuietAnswer
<1>2. CASE ~Answer(r)
  <2> DEFINE pc == req[r].pc
             call == req[r].call
  <2>1. PICK label \in Label : GoTo(r, label)
    <3>1. CASE LoadCaller(r)
      <4>1. call.op \in OpName \ {"Login", "CheckToken"} /\ GoTo(r, FirstStatement(call.op))
        BY <1>2, <3>1 DEF LoadCaller, At, IInv, RequestOK, Call, OpName
      <4>2. FirstStatement(call.op) \in Label
        BY <4>1, FirstStatementIsLabel
      <4> QED
        BY <4>1, <4>2
    <3>2. CASE ~LoadCaller(r)
      BY <1>2, <3>2 DEF CreateCheck, GrantUser, GrantCaps, RevokeUser, RevokeCaps,
         RevokeCount, Abort, Label
    <3> QED
      BY <3>1, <3>2
  <2>2. /\ req'[r].pc = label
        /\ req'[r].call = call
        /\ req'[r].caller = req[r].caller
    BY <2>1 DEF GoTo, IInv, TypeOK, RequestRecord
  <2>3. CASE LoadCaller(r)
    <3>1. /\ label = FirstStatement(call.op)
          /\ call \in Call /\ call.op \in OpName \ {"Login", "CheckToken"}
          /\ call.op \in Ops[r]
      BY <1>2, <2>1, <2>2, <2>3 DEF LoadCaller, GoTo, At, IInv, TypeOK, RequestRecord, RequestOK, Call, OpName
    <3>2. RequestOK(r)'
      BY <2>2, <3>1 DEF FirstStatement, RequestOK, OpName, Call
    <3> QED
      BY <1>0, <2>1, <3>2, QuietGoTo
  <2>4. CASE CreateCheck(r)
    <3>1. pc = "exists" /\ req'[r].pc = "insert"
      BY <1>2, <2>2, <2>4 DEF CreateCheck, GoTo, At, IInv, TypeOK, RequestRecord
    <3>2. RequestOK(r)'
      BY <2>2, <3>1 DEF IInv, RequestOK
    <3> QED
      BY <1>0, <2>1, <3>2, QuietGoTo
  <2>5. CASE GrantUser(r) \/ RevokeUser(r)
    <3>1. call.target \in UserId /\ Exists(call.target)
      BY <1>2, <2>5 DEF GrantUser, RevokeUser, At, IInv, RequestOK
    <3>2. call.target < nextId
      BY <3>1 DEF IInv, UnissuedIdsBare, TypeOK, UserId
    <3>3. RequestOK(r)'
      BY <1>0, <1>2, <2>2, <2>5, <3>1, <3>2
         DEF GrantUser, RevokeUser, GoTo, At, IInv, TypeOK, RequestRecord, RequestOK, tables
    <3> QED
      BY <1>0, <2>1, <3>3, QuietGoTo
  <2>6. CASE GrantCaps(r) \/ RevokeCaps(r) \/ RevokeCount(r)
    <3>1. RequestOK(r)'
      BY <1>0, <1>2, <2>2, <2>6
         DEF GrantCaps, RevokeCaps, RevokeCount, GoTo, At, IInv, TypeOK, RequestRecord, RequestOK, tables
    <3> QED
      BY <1>0, <2>1, <3>1, QuietGoTo
  <2>7. CASE Abort(r)
    BY <1>2, <2>7 DEF Abort
  <2> QED
    BY <2>3, <2>4, <2>5, <2>6, <2>7
<1> QED
  BY <1>1, <1>2

\* The types of the five tables.
TablesOK ==
  /\ user \in [UserId -> UserRow \cup {NoRow}]
  /\ nextId \in 1 .. MaxUsers + 1
  /\ capability_map \in SUBSET (UserId \X {ADMIN, REST})
  /\ login_tokens \in [Token -> [user_id : UserId \cup {NoUser}, state : TokenState]]
  /\ access_tokens \in SUBSET UserId

\* A request that writes and answers: the tables are all there is to look at.
LEMMA WriteAnswer ==
  ASSUME IInv, NEW r \in Request, req[r].pc # "idle", Answer(r),
         UNCHANGED <<boot, crashes, nextId>>, overtaken' \in SUBSET Request,
         TablesOK', UnissuedIdsBare', CredentialsOwned'
  PROVE  IInv'
<1>1. req'[r] = Idle /\ \A s \in Request \ {r} : req'[s] = req[s]
  BY DEF Answer, IInv, TypeOK
<1>2. TypeOK'
  BY DEF IInv, TypeOK, TablesOK, Answer, Idle, NoCall, RequestRecord, CallRecord, Label
<1>3. ASSUME NEW s \in Request PROVE RequestOK(s)'
  BY <1>1 DEF RequestOK, Idle, IInv
<1>4. BootOK'
  BY BusyServes DEF BootOK, Serving, IInv
<1> QED
  BY <1>2, <1>3, <1>4 DEF IInv

LEMMA WriteStep ==
  ASSUME IInv, NEW r \in Request,
         \/ \E t \in Token : LoginInsert(r, t)
         \/ CreateGrantRest(r) \/ Update(r) \/ Delete(r) \/ Grant(r)
         \/ Revoke(r) \/ UpsertAccess(r) \/ DropAccess(r)
  PROVE  IInv'
<1> DEFINE id == req[r].call.target
<1> SUFFICES TablesOK' /\ UnissuedIdsBare' /\ CredentialsOwned'
  BY WriteAnswer DEF LoginInsert, CreateGrantRest, Update, Delete, Grant, Revoke,
     UpsertAccess, DropAccess, At, Overtakes, IInv, TypeOK
<1>0. TablesOK
  BY DEF IInv, TypeOK, TablesOK
<1>1. CASE \E t \in Token : LoginInsert(r, t)
  <2> PICK t \in Token : LoginInsert(r, t)
    BY <1>1
  <2>1. req[r].caller \in UserId
    BY DEF LoginInsert, At, IInv, RequestOK
  <2>2. TablesOK'
    BY <1>0, <2>1 DEF TablesOK, LoginInsert, TokenState
  <2>3. UnissuedIdsBare'
    BY DEF IInv, UnissuedIdsBare, LoginInsert, Exists, Has
  <2>4. CredentialsOwned'
    BY <1>0, <2>1 DEF IInv, CredentialsOwned, LoginInsert, Existing, Exists, Stored, TablesOK
  <2> QED
    BY <2>2, <2>3, <2>4
<1>2. CASE CreateGrantRest(r) \/ Grant(r)
  <2>1. id \in UserId /\ id < nextId
    BY <1>2 DEF CreateGrantRest, Grant, At, IInv, RequestOK
  <2>2. TablesOK'
    BY <1>0, <1>2, <2>1 DEF TablesOK, CreateGrantRest, Grant
  <2>3. UnissuedIdsBare'
    <3> SUFFICES ASSUME NEW u \in UserId, u >= nextId
                 PROVE  ~Exists(u)' /\ ~Has(u, ADMIN)' /\ ~Has(u, REST)'
      BY <1>2 DEF UnissuedIdsBare, CreateGrantRest, Grant
    <3>1. u # id
      BY <1>0, <2>1 DEF TablesOK, UserId
    <3>2. ~Exists(u) /\ ~Has(u, ADMIN) /\ ~Has(u, REST)
      BY DEF IInv, UnissuedIdsBare
    <3> QED
      BY <1>2, <3>1, <3>2 DEF CreateGrantRest, Grant, Exists, Has
  <2>4. CredentialsOwned'
    BY <1>2 DEF IInv, CredentialsOwned, CreateGrantRest, Grant, Existing, Exists, Stored
  <2> QED
    BY <2>2, <2>3, <2>4
<1>3. CASE Update(r)
  <2>1. id \in UserId
    BY <1>3 DEF Update, At, IInv, RequestOK
  <2>2. user' = user \/ \E row \in UserRow : Exists(id) /\ user' = [user EXCEPT ![id] = row]
    <3>1. CASE ~Exists(id)
      BY <1>3, <3>1 DEF Update
    <3>2. CASE Exists(id)
      <4>1. user[id] \in UserRow
        BY <1>0, <2>1, <3>2 DEF TablesOK, Exists
      <4>2. /\ Coalesce(req[r].call.username, user[id].username) \in Username
            /\ Coalesce(req[r].call.email, user[id].email) \in Email
        BY <4>1 DEF Coalesce, UserRow, IInv, TypeOK, RequestRecord, CallRecord
      <4> QED
        BY <1>3, <3>2, <4>2 DEF Update, UserRow
    <3> QED
      BY <3>1, <3>2
  <2>3. \A u \in UserId : Exists(u)' <=> Exists(u)
    <3>1. NoRow \notin UserRow
      BY ConstantsAssumption DEF NoRow, UserRow
    <3> QED
      BY <1>0, <2>1, <2>2, <3>1 DEF Exists, TablesOK
  <2>4. TablesOK'
    BY <1>0, <1>3, <2>1, <2>2 DEF TablesOK, Update
  <2>5. UnissuedIdsBare'
    BY <1>3, <2>3 DEF IInv, UnissuedIdsBare, Update, Has
  <2>6. CredentialsOwned'
    BY <1>3, <2>3 DEF IInv, CredentialsOwned, Update, Existing, Stored
  <2> QED
    BY <2>4, <2>5, <2>6
<1>4. CASE Delete(r)
  <2>1. id \in UserId
    BY <1>4 DEF Delete, At, IInv, RequestOK
  <2>2. TablesOK'
    BY <1>0, <1>4 DEF TablesOK, Delete, TokensWithout, GoneToken, TokenState, NoUser
  <2>3. UnissuedIdsBare'
    BY <1>0, <1>4, <2>1 DEF IInv, UnissuedIdsBare, Delete, Exists, Has, TablesOK
  <2>4. CredentialsOwned'
    BY <1>0, <1>4, <2>1 DEF IInv, CredentialsOwned, Delete, Existing, Exists, Stored,
       TablesOK, TokensWithout, GoneToken
  <2> QED
    BY <2>2, <2>3, <2>4
<1>5. CASE Revoke(r)
  <2>1. TablesOK'
    BY <1>0, <1>5 DEF TablesOK, Revoke
  <2>2. UnissuedIdsBare'
    BY <1>5 DEF IInv, UnissuedIdsBare, Revoke, Exists, Has
  <2>3. CredentialsOwned'
    BY <1>5 DEF IInv, CredentialsOwned, Revoke, Existing, Exists, Stored
  <2> QED
    BY <2>1, <2>2, <2>3
<1>6. CASE UpsertAccess(r) \/ DropAccess(r)
  <2>1. id \in UserId
    BY <1>6 DEF UpsertAccess, DropAccess, At, IInv, RequestOK
  <2>2. TablesOK'
    BY <1>0, <1>6, <2>1 DEF TablesOK, UpsertAccess, DropAccess
  <2>3. UnissuedIdsBare'
    BY <1>6 DEF IInv, UnissuedIdsBare, UpsertAccess, DropAccess, Exists, Has
  <2>4. CredentialsOwned'
    BY <1>6, <2>1 DEF IInv, CredentialsOwned, UpsertAccess, DropAccess, Existing, Exists, Stored
  <2> QED
    BY <2>2, <2>3, <2>4
<1> QED
  BY <1>1, <1>2, <1>3, <1>4, <1>5, <1>6

\* A row inserted at nextId: the id is new to every table and every request.
LEMMA InsertedRow ==
  ASSUME IInv, nextId \in UserId, nextId' = nextId + 1,
         \/ user' = user
         \/ \E row \in UserRow : user' = [user EXCEPT ![nextId] = row],
         UNCHANGED <<capability_map, login_tokens, access_tokens>>
  PROVE  TablesOK' /\ UnissuedIdsBare' /\ CredentialsOwned'
<1>0. TablesOK
  BY DEF IInv, TypeOK, TablesOK
<1>1. TablesOK'
  BY <1>0, ConstantsAssumption DEF TablesOK, UserId
<1>2. UnissuedIdsBare'
  <2> SUFFICES ASSUME NEW u \in UserId, u >= nextId + 1
               PROVE  ~Exists(u)' /\ ~Has(u, ADMIN)' /\ ~Has(u, REST)'
    BY DEF UnissuedIdsBare
  <2>1. u >= nextId /\ u # nextId
    BY <1>0 DEF TablesOK, UserId
  <2>2. ~Exists(u) /\ ~Has(u, ADMIN) /\ ~Has(u, REST)
    BY <2>1 DEF IInv, UnissuedIdsBare
  <2> QED
    BY <1>0, <2>1, <2>2 DEF Exists, Has, TablesOK
<1>3. CredentialsOwned'
  <2>1. ASSUME NEW u \in Existing PROVE u \in Existing'
    <3>1. NoRow \notin UserRow
      BY ConstantsAssumption DEF NoRow, UserRow
    <3> QED
      BY <1>0, <2>1, <3>1 DEF TablesOK, Existing, Exists
  <2> QED
    BY <2>1 DEF IInv, CredentialsOwned, Stored
<1> QED
  BY <1>1, <1>2, <1>3

LEMMA CreateInsertStep ==
  ASSUME IInv, NEW r \in Request, CreateInsert(r)
  PROVE  IInv'
<1> DEFINE call == req[r].call
           row  == [username |-> call.username, email |-> call.email]
<1>1. call.username \in Username /\ call.email \in Email
  BY DEF CreateInsert, At, IInv, RequestOK
<1>2. /\ nextId \in UserId /\ nextId' = nextId + 1
      /\ UNCHANGED <<capability_map, login_tokens, access_tokens, boot, crashes>>
      /\ req[r].pc = "insert"
  BY DEF CreateInsert, At
<1>3. TablesOK' /\ UnissuedIdsBare' /\ CredentialsOwned'
  <2>1. row \in UserRow
    BY <1>1 DEF UserRow
  <2>2. user' = user \/ user' = [user EXCEPT ![nextId] = row]
    BY DEF CreateInsert
  <2> QED
    BY <1>2, <2>1, <2>2, InsertedRow
<1>4. /\ req' \in [Request -> RequestRecord]
      /\ \A s \in Request \ {r} : req'[s] = req[s]
      /\ \/ req'[r].pc = "idle"
         \/ req'[r].pc = "grantRest" /\ req'[r].call.target = nextId
  <2>1. CASE Answer(r)
    BY <2>1 DEF Answer, IInv, TypeOK, Idle, NoCall, RequestRecord, CallRecord, Label
  <2>2. CASE ~Answer(r)
    <3> DEFINE c == [call EXCEPT !.target = nextId]
    <3>1. req' = [req EXCEPT ![r] =
                    [pc |-> "grantRest", call |-> c, caller |-> req[r].caller]]
      BY <2>2 DEF CreateInsert
    <3>2. c \in CallRecord /\ c.target = nextId
      BY <1>2 DEF IInv, TypeOK, RequestRecord, CallRecord
    <3> HIDE DEF c
    <3> QED
      BY <3>1, <3>2 DEF IInv, TypeOK, RequestRecord, Label
  <2> QED
    BY <2>1, <2>2 DEF CreateInsert
<1>5. ASSUME NEW s \in Request PROVE RequestOK(s)'
  <2>1. CASE s = r
    BY <1>2, <1>4, <2>1 DEF RequestOK, UserId
  <2>2. CASE s # r
    <3>1. req[s].call.target < nextId => req[s].call.target < nextId'
      BY <1>2 DEF IInv, TypeOK, RequestRecord, CallRecord, UserId, NoUser
    <3> QED
      BY <1>4, <2>2, <3>1 DEF IInv, RequestOK
  <2> QED
    BY <2>1, <2>2
<1>6. BootOK'
  BY <1>2, BusyServes DEF BootOK, Serving
<1>7. TypeOK'
  BY <1>2, <1>3, <1>4 DEF IInv, TypeOK, TablesOK, CreateInsert, Overtakes
<1> QED
  BY <1>3, <1>5, <1>6, <1>7 DEF IInv

-----------------------------------------------------------------------------
(* Time, crashes and start-up. *)

LEMMA TokenStep ==
  ASSUME IInv, NEW t \in Token, Expire(t) \/ TokenExpired(t)
  PROVE  IInv'
<1>1. TypeOK'
  BY DEF IInv, TypeOK, Expire, TokenExpired, GoneToken, TokenState, NoUser
<1>2. \A r \in Request : RequestOK(r)'
  BY DEF IInv, RequestOK, Expire, TokenExpired
<1>3. BootOK' /\ UnissuedIdsBare'
  BY DEF IInv, BootOK, Serving, UnissuedIdsBare, Exists, Has, Expire, TokenExpired
<1>4. CredentialsOwned'
  BY DEF IInv, TypeOK, CredentialsOwned, Existing, Exists, Stored, GoneToken, Expire,
     TokenExpired
<1> QED
  BY <1>1, <1>2, <1>3, <1>4 DEF IInv

LEMMA CrashStep ==
  ASSUME IInv, Crash
  PROVE  IInv'
<1>1. TypeOK'
  BY DEF IInv, TypeOK, Crash, tables, Idle, NoCall, RequestRecord, CallRecord, Label, NoUser, Down, BootRecord
<1>2. \A r \in Request : RequestOK(r)'
  BY DEF RequestOK, Crash, Idle
<1>3. BootOK'
  BY DEF BootOK, Crash, Serving, Idle, Down
<1>4. UnissuedIdsBare' /\ CredentialsOwned'
  BY DEF IInv, Crash, tables, UnissuedIdsBare, CredentialsOwned, Exists, Has, Existing, Stored
<1> QED
  BY <1>1, <1>2, <1>3, <1>4 DEF IInv

LEMMA SeedAtType ==
  ASSUME NEW pc \in {"insert", "seedAdmin", "seedRest", "serving"},
         NEW id \in UserId \cup {NoUser}, SeedAt(pc, id)
  PROVE  boot' \in BootRecord
BY DEF SeedAt, BootRecord

LEMMA BootStep ==
  ASSUME IInv, Boot
  PROVE  IInv'
<1>0. TablesOK /\ ~Serving
  BY DEF IInv, TypeOK, TablesOK, Boot, SkipSeed, SeedSelect, SeedAt, SeedInsert, SeedGrantAdmin, SeedGrantRest,
     Serving
<1>1. \A r \in Request : req'[r].pc = "idle" /\ RequestOK(r)'
  BY <1>0 DEF IInv, BootOK, RequestOK, Boot, SkipSeed, SeedSelect, SeedAt, SeedInsert, SeedGrantAdmin,
     SeedGrantRest
<1>5. CASE SkipSeed
  <2>1. TypeOK' /\ BootOK'
    BY <1>1, <1>5 DEF IInv, TypeOK, BootOK, SkipSeed, tables, NoUser, BootRecord
  <2>2. UnissuedIdsBare' /\ CredentialsOwned'
    BY <1>5 DEF IInv, SkipSeed, tables, UnissuedIdsBare, CredentialsOwned, Exists, Has,
       Existing, Stored
  <2> QED
    BY <1>1, <2>1, <2>2 DEF IInv
<1>6. ASSUME SeedSelect \/ SeedInsert \/ SeedGrantAdmin \/ SeedGrantRest
      PROVE  boot' \in BootRecord
  <2>1. CASE SeedSelect
    BY <2>1, SeedAtType DEF SeedSelect, Named, Existing
  <2>2. CASE SeedInsert
    <3>1. Down \in BootRecord
      BY DEF Down, BootRecord
    <3> QED
      BY <2>2, <3>1, SeedAtType DEF SeedInsert
  <2>3. CASE SeedGrantAdmin \/ SeedGrantRest
    BY <2>3, SeedAtType DEF SeedGrantAdmin, SeedGrantRest, IInv, BootOK
  <2> QED
    BY <1>6, <2>1, <2>2, <2>3
<1>2. CASE SeedSelect
  <2>1. TypeOK'
    BY <1>2, <1>6 DEF IInv, TypeOK, SeedSelect, tables
  <2>2. BootOK'
    <3>1. ASSUME NEW u \in Named(SeedName) PROVE u \in UserId /\ u < nextId
      BY <1>0 DEF IInv, UnissuedIdsBare, TablesOK, UserId, Named, Existing
    <3> QED
      BY <1>1, <1>2, <3>1 DEF BootOK, SeedSelect, SeedAt, tables
  <2>3. UnissuedIdsBare' /\ CredentialsOwned'
    BY <1>2 DEF IInv, SeedSelect, SeedAt, tables, UnissuedIdsBare, CredentialsOwned, Exists, Has,
       Existing, Stored
  <2> QED
    BY <1>1, <2>1, <2>2, <2>3 DEF IInv
<1>3. CASE SeedInsert
  <2>1. TablesOK' /\ UnissuedIdsBare' /\ CredentialsOwned'
    <3>1. [username |-> SeedName, email |-> SeedEmail] \in UserRow
      BY ConstantsAssumption DEF UserRow
    <3> QED
      BY <1>3, <3>1, InsertedRow DEF SeedInsert
  <2>2. TypeOK'
    BY <1>3, <1>6, <2>1 DEF IInv, TypeOK, TablesOK, SeedInsert
  <2>3. BootOK'
    BY <1>1, <1>3 DEF SeedAt, BootOK, SeedInsert, UserId, Down, IInv, TypeOK
  <2> QED
    BY <1>1, <2>1, <2>2, <2>3 DEF IInv
<1>4. CASE SeedGrantAdmin \/ SeedGrantRest
  <2>1. boot.id \in UserId /\ boot.id < nextId
    BY <1>4 DEF SeedGrantAdmin, SeedGrantRest, IInv, BootOK
  <2>2. TypeOK'
    BY <1>4, <1>6, <2>1 DEF IInv, TypeOK, SeedGrantAdmin, SeedGrantRest
  <2>3. BootOK'
    BY <1>1, <1>4, <2>1 DEF SeedAt, BootOK, SeedGrantAdmin, SeedGrantRest, IInv, TypeOK
  <2>4. UnissuedIdsBare'
    <3> SUFFICES ASSUME NEW u \in UserId, u >= nextId
                 PROVE  ~Exists(u)' /\ ~Has(u, ADMIN)' /\ ~Has(u, REST)'
      BY <1>4 DEF UnissuedIdsBare, SeedGrantAdmin, SeedGrantRest
    <3>1. u # boot.id
      BY <1>0, <2>1 DEF TablesOK, UserId
    <3>2. ~Exists(u) /\ ~Has(u, ADMIN) /\ ~Has(u, REST)
      BY DEF IInv, UnissuedIdsBare
    <3> QED
      BY <1>4, <3>1, <3>2 DEF SeedGrantAdmin, SeedGrantRest, Exists, Has
  <2>5. CredentialsOwned'
    BY <1>4 DEF IInv, CredentialsOwned, SeedGrantAdmin, SeedGrantRest, Existing, Exists, Stored
  <2> QED
    BY <1>1, <2>2, <2>3, <2>4, <2>5 DEF IInv
<1> QED
  BY <1>2, <1>3, <1>4, <1>5 DEF Boot

LEMMA StepIInv == IInv /\ [Next]_vars => IInv'
<1> SUFFICES ASSUME IInv, [Next]_vars PROVE IInv'
  OBVIOUS
<1>1. CASE Boot
  BY <1>1, BootStep
<1>2. CASE Crash
  BY <1>2, CrashStep
<1>3. CASE \E t \in Token : Expire(t) \/ TokenExpired(t)
  BY <1>3, TokenStep
<1>4. ASSUME NEW r \in Request, Arrive(r) PROVE IInv'
  BY <1>4, ArriveStep
<1>5. ASSUME NEW r \in Request, Step(r) PROVE IInv'
  BY <1>5, ReadStep, WriteStep, CreateInsertStep DEF Step
<1>6. ASSUME NEW r \in Request, Abort(r) PROVE IInv'
  BY <1>6, ReadStep
<1>7. CASE UNCHANGED vars
  <2>1. TypeOK' /\ BootOK' /\ UnissuedIdsBare' /\ CredentialsOwned'
    BY <1>7 DEF vars, IInv, TypeOK, BootOK, Serving, UnissuedIdsBare, CredentialsOwned,
       Exists, Has, Existing, Stored
  <2>2. \A r \in Request : RequestOK(r)'
    BY <1>7 DEF vars, IInv, RequestOK
  <2> QED
    BY <2>1, <2>2 DEF IInv
<1> QED
  BY <1>1, <1>2, <1>3, <1>4, <1>5, <1>6, <1>7 DEF Next

-----------------------------------------------------------------------------
(* The theorems. *)

\* The inductive invariant: what each pending statement relies on, together
\* with the three properties below.
THEOREM Invariance == Spec => []IInv
BY InitIInv, StepIInv, PTL DEF Spec

\* Every variable keeps its type.
THEOREM TypeCorrect == Spec => []TypeOK
<1>1. IInv => TypeOK
  BY DEF IInv
<1> QED
  BY <1>1, Invariance, PTL

\* However logins, upserts and deletions interleave, no stored token belongs
\* to a user that is gone.
THEOREM CredentialsAreOwned == Spec => []CredentialsOwned
<1>1. IInv => CredentialsOwned
  BY DEF IInv
<1> QED
  BY <1>1, Invariance, PTL

\* However grants race deletions, a new user is born without capabilities.
THEOREM NewIdsAreBare == Spec => []UnissuedIdsBare
<1>1. IInv => UnissuedIdsBare
  BY DEF IInv
<1> QED
  BY <1>1, Invariance, PTL

-----------------------------------------------------------------------------
(* Checks and the writes they guard.  A request that nobody has overtaken    *)
(* finds what its check saw: between the count of a revoke and its DELETE    *)
(* the rows only grow, between the SELECT of a creation and its INSERT users *)
(* only go.                                                                  *)

OtherAdmin(r) == \E i \in UserId \ {req[r].call.target} : Has(i, ADMIN)

CountOK(r)  == At(r, "revoke") /\ r \notin overtaken => OtherAdmin(r)
SelectOK(r) == At(r, "insert") /\ r \notin overtaken
                 => ~Duplicate(req[r].call.username, req[r].call.email)

\* Two rows counted leave one that is not the target's.
LEMMA CountedTwo ==
  ASSUME canRevokeAdmin(Cardinality(AdminRows)), NEW u
  PROVE  \E i \in UserId \ {u} : Has(i, ADMIN)
<1>1. IsFiniteSet(AdminRows)
  <2>1. IsFiniteSet(UserId)
    BY FS_Interval, ConstantsAssumption DEF UserId
  <2> QED
    BY <2>1, FS_Subset DEF AdminRows
<1> SUFFICES ASSUME AdminRows \subseteq {u} PROVE FALSE
  BY DEF AdminRows
<1>2. Cardinality(AdminRows) <= Cardinality({u})
  BY FS_Singleton, FS_Subset
<1>3. Cardinality({u}) = 1 /\ Cardinality(AdminRows) \in Nat
  BY <1>1, FS_Singleton, FS_CardinalityType
<1> QED
  BY <1>2, <1>3 DEF canRevokeAdmin

\* What the steps other than Revoke and the grants do to the rows: nothing.
LEMMA RowsKept ==
  ASSUME IInv, [Next]_vars,
         ~ \E r \in Request : Revoke(r) \/ Grant(r), ~SeedGrantAdmin
  PROVE  \A i \in UserId : Has(i, ADMIN)' <=> Has(i, ADMIN)
<1>1. CASE UNCHANGED vars
  BY <1>1 DEF vars, Has
<1>2. CASE Boot
  BY <1>2 DEF Boot, SkipSeed, SeedSelect, SeedAt, SeedInsert, SeedGrantRest, tables, Has, ADMIN, REST
<1>3. CASE Crash
  BY <1>3 DEF Crash, tables, Has
<1>4. CASE \E t \in Token : Expire(t) \/ TokenExpired(t)
  BY <1>4 DEF Expire, TokenExpired, Has
<1>5. ASSUME NEW r \in Request, Arrive(r) \/ Step(r) \/ Abort(r)
      PROVE  \A i \in UserId : Has(i, ADMIN)' <=> Has(i, ADMIN)
  BY <1>5 DEF Arrive, LoginSelect, TokenSelect, Step, LoginInsert, LoadCaller,
     CreateCheck, CreateInsert, CreateGrantRest, Update, Delete, GrantUser, GrantCaps,
     RevokeUser, RevokeCaps, RevokeCount, UpsertAccess, DropAccess, Abort, tables,
     Has, ADMIN, REST
<1> QED
  BY <1>1, <1>2, <1>3, <1>4, <1>5 DEF Next

\* The requests move by their own steps and by crashes.
LEMMA RequestMoves ==
  ASSUME IInv, [Next]_vars, NEW r \in Request, req'[r] # req[r]
  PROVE  Crash \/ Arrive(r) \/ Step(r) \/ Abort(r)
<1>1. CASE UNCHANGED vars \/ Boot \/ \E t \in Token : Expire(t) \/ TokenExpired(t)
  BY <1>1 DEF vars, Boot, SkipSeed, SeedSelect, SeedAt, SeedInsert, SeedGrantAdmin, SeedGrantRest, Expire,
     TokenExpired
<1>2. ASSUME NEW s \in Request, Arrive(s) \/ Step(s) \/ Abort(s), s # r
      PROVE  FALSE
  BY <1>2 DEF IInv, TypeOK, Arrive, LoginSelect, TokenSelect, Step, LoginInsert, LoadCaller,
     CreateCheck, CreateInsert, CreateGrantRest, Update, Delete, GrantUser, GrantCaps, Grant,
     RevokeUser, RevokeCaps, RevokeCount, Revoke, UpsertAccess, DropAccess, Abort, Answer, GoTo
<1> QED
  BY <1>1, <1>2 DEF Next

\* Users are written by four statements.
LEMMA UserChanges ==
  ASSUME [Next]_vars
  PROVE  \/ user' = user
         \/ SeedInsert
         \/ \E r \in Request : CreateInsert(r) \/ Update(r) \/ Delete(r)
BY DEF Next, vars, tables, Boot, SkipSeed, SeedSelect, SeedAt, SeedGrantAdmin, SeedGrantRest, Crash, Expire,
   TokenExpired, Arrive, LoginSelect, TokenSelect, Step, LoginInsert, LoadCaller, CreateCheck,
   CreateGrantRest, GrantUser, GrantCaps, Grant, RevokeUser, RevokeCaps, RevokeCount, Revoke,
   UpsertAccess, DropAccess, Abort

\* The start-up sequence moves by its own steps and by crashes.
LEMMA BootChanges ==
  ASSUME [Next]_vars
  PROVE  boot' = boot \/ SkipSeed \/ SeedSelect \/ SeedInsert \/ SeedGrantAdmin \/ SeedGrantRest \/ Crash
BY DEF Next, vars, Boot, Expire, TokenExpired, Arrive, LoginSelect, TokenSelect, Step,
   LoginInsert, LoadCaller, CreateCheck, CreateInsert, CreateGrantRest, Update, Delete,
   GrantUser, GrantCaps, Grant, RevokeUser, RevokeCaps, RevokeCount, Revoke, UpsertAccess,
   DropAccess, Abort

\* A request that does not move is not forgotten once it has been overtaken.
LEMMA OvertakenStays ==
  ASSUME IInv, [Next]_vars, NEW r \in Request, r \in overtaken,
         req'[r] = req[r], req[r].pc \in {"insert", "revoke"}
  PROVE  r \in overtaken'
<1>1. ~Crash
  BY DEF Crash, Idle
<1>2. ~(CreateInsert(r) \/ Update(r) \/ Revoke(r) \/ Abort(r))
  BY DEF CreateInsert, Update, Revoke, Abort, Answer, Idle, IInv, TypeOK
<1>3. CASE UNCHANGED vars \/ Boot \/ \E t \in Token : Expire(t) \/ TokenExpired(t)
  BY <1>3 DEF vars, Boot, SkipSeed, SeedSelect, SeedAt, SeedInsert, SeedGrantAdmin, SeedGrantRest, Expire,
     TokenExpired
<1>4. ASSUME NEW s \in Request, CreateInsert(s) \/ Update(s) \/ Revoke(s) \/ Abort(s)
      PROVE  r \in overtaken'
  BY <1>2, <1>4 DEF CreateInsert, Update, Revoke, Abort, Overtakes
<1>5. ASSUME NEW s \in Request, Arrive(s) \/ Step(s),
             ~(CreateInsert(s) \/ Update(s) \/ Revoke(s))
      PROVE  r \in overtaken'
  BY <1>5 DEF Arrive, LoginSelect, TokenSelect, Step, LoginInsert, LoadCaller, CreateCheck,
     CreateGrantRest, Delete, GrantUser, GrantCaps, Grant, RevokeUser, RevokeCaps,
     RevokeCount, UpsertAccess, DropAccess
<1> QED
  BY <1>1, <1>3, <1>4, <1>5 DEF Next

\* A request comes to its DELETE from its count only.
LEMMA ReachesRevoke ==
  ASSUME IInv, [Next]_vars, NEW r \in Request, At(r, "revoke")', ~At(r, "revoke")
  PROVE  RevokeCount(r) /\ canRevokeAdmin(Cardinality(AdminRows))
         /\ req'[r].call = req[r].call /\ UNCHANGED capability_map
<1>1. ~UNCHANGED req
  BY DEF At
<1>2. CASE Boot \/ Crash \/ \E t \in Token : Expire(t) \/ TokenExpired(t)
  BY <1>1, <1>2 DEF Boot, SkipSeed, SeedSelect, SeedAt, SeedInsert, SeedGrantAdmin, SeedGrantRest, Crash, At,
     Expire, TokenExpired, Idle
<1>3. ASSUME NEW s \in Request, Arrive(s) \/ Step(s) \/ Abort(s), s # r
      PROVE  FALSE
  <2>1. req'[r] = req[r]
    BY <1>3 DEF IInv, TypeOK, Arrive, LoginSelect, TokenSelect, Step, LoginInsert, LoadCaller,
       CreateCheck, CreateInsert, CreateGrantRest, Update, Delete, GrantUser, GrantCaps, Grant,
       RevokeUser, RevokeCaps, RevokeCount, Revoke, UpsertAccess, DropAccess, Abort, Answer, GoTo
  <2> QED
    BY <2>1 DEF At
<1>4. CASE Arrive(r)
  BY <1>4 DEF Arrive, LoginSelect, TokenSelect, IInv, TypeOK, At
<1>5. CASE Abort(r)
  BY <1>5 DEF Abort, Answer, Idle, IInv, TypeOK, At
<1>6. CASE Step(r)
  <2>1. ~Answer(r)
    BY DEF Answer, Idle, IInv, TypeOK, At
  <2>2. CASE LoadCaller(r)
    <3>1. req'[r].pc = FirstStatement(req[r].call.op)
          /\ req[r].call.op \in OpName \ {"Login", "CheckToken"}
      BY <2>1, <2>2 DEF LoadCaller, GoTo, At, IInv, TypeOK, RequestRecord, RequestOK, Call, OpName
    <3> QED
      BY <3>1 DEF At, OpName, FirstStatement
  <2>3. CASE CreateInsert(r)
    BY <2>1, <2>3 DEF CreateInsert, At, IInv, TypeOK
  <2>4. CASE CreateCheck(r) \/ GrantUser(r) \/ GrantCaps(r) \/ RevokeUser(r) \/ RevokeCaps(r)
    BY <2>1, <2>4 DEF CreateCheck, GrantUser, GrantCaps, RevokeUser, RevokeCaps, GoTo, At,
       IInv, TypeOK, RequestRecord
  <2>5. CASE RevokeCount(r)
    BY <2>1, <2>5 DEF RevokeCount, GoTo, tables, IInv, TypeOK, RequestRecord
  <2> QED
    BY <1>6, <2>1, <2>2, <2>3, <2>4, <2>5 DEF Step, LoginInsert, CreateGrantRest, Update, Delete,
       Grant, Revoke, UpsertAccess, DropAccess
<1> QED
  BY <1>1, <1>2, <1>3, <1>4, <1>5, <1>6 DEF Next, vars

\* A request that stays at its DELETE did not move.
LEMMA RevokeStays ==
  ASSUME IInv, [Next]_vars, NEW r \in Request, At(r, "revoke"), At(r, "revoke")',
         ~Revoke(r)
  PROVE  req'[r] = req[r]
<1>1. CASE UNCHANGED req
  BY <1>1
<1>2. CASE Crash
  BY <1>2 DEF Crash, At, Idle
<1>3. ASSUME NEW s \in Request, Arrive(s) \/ Step(s) \/ Abort(s), s # r
      PROVE  req'[r] = req[r]
  BY <1>3 DEF IInv, TypeOK, Arrive, LoginSelect, TokenSelect, Step, LoginInsert, LoadCaller,
     CreateCheck, CreateInsert, CreateGrantRest, Update, Delete, GrantUser, GrantCaps, Grant,
     RevokeUser, RevokeCaps, RevokeCount, Revoke, UpsertAccess, DropAccess, Abort, Answer, GoTo
<1>4. ASSUME Arrive(r) \/ Step(r) \/ Abort(r) PROVE FALSE
  BY <1>4 DEF Arrive, LoginSelect, TokenSelect, Step, LoginInsert, LoadCaller,
     CreateCheck, CreateInsert, CreateGrantRest, Update, Delete, GrantUser, GrantCaps, Grant,
     RevokeUser, RevokeCaps, RevokeCount, UpsertAccess, DropAccess, Abort, Answer, At, Idle,
     IInv, TypeOK
<1>5. CASE Boot \/ \E t \in Token : Expire(t) \/ TokenExpired(t)
  BY <1>1, <1>5 DEF Boot, SkipSeed, SeedSelect, SeedAt, SeedInsert, SeedGrantAdmin, SeedGrantRest, Expire,
     TokenExpired
<1> QED
  BY <1>1, <1>2, <1>3, <1>4, <1>5 DEF Next, vars

LEMMA StepCount ==
  ASSUME IInv, [Next]_vars, NEW r \in Request, CountOK(r),
         At(r, "revoke")', r \notin overtaken'
  PROVE  OtherAdmin(r)'
<1>1. CASE ~At(r, "revoke")
  <2>1. RevokeCount(r) /\ canRevokeAdmin(Cardinality(AdminRows))
        /\ req'[r].call = req[r].call /\ UNCHANGED capability_map
    BY <1>1, ReachesRevoke
  <2> QED
    BY <2>1, CountedTwo DEF OtherAdmin, Has
<1>2. CASE At(r, "revoke")
  <2>1. ASSUME NEW s \in Request PROVE ~Revoke(s)
    <3>1. CASE s = r
      BY <3>1 DEF Revoke, Answer, Idle, At, IInv, TypeOK
    <3>2. CASE s # r
      BY <1>2, <3>2 DEF Revoke, Overtakes
    <3> QED
      BY <3>1, <3>2
  <2>2. req'[r] = req[r]
    BY <1>2, <2>1, RevokeStays
  <2>3. OtherAdmin(r)
    BY <1>2, <2>2, OvertakenStays DEF CountOK, At
  <2>4. \A i \in UserId : Has(i, ADMIN) => Has(i, ADMIN)'
    <3>1. CASE SeedGrantAdmin \/ \E s \in Request : Grant(s)
      BY <3>1 DEF SeedGrantAdmin, Grant, Has
    <3> QED
      BY <2>1, <3>1, RowsKept
  <2> QED
    BY <2>2, <2>3, <2>4 DEF OtherAdmin
<1> QED
  BY <1>1, <1>2

\* Which request comes to the INSERT, and from where.
LEMMA ReachesInsert ==
  ASSUME IInv, [Next]_vars, NEW r \in Request, At(r, "insert")', req'[r] # req[r]
  PROVE  CreateCheck(r) /\ GoTo(r, "insert")
<1>1. ~Crash /\ ~Abort(r) /\ ~Answer(r)
  BY DEF Crash, Abort, Answer, At, Idle, IInv, TypeOK
<1>2. CASE Arrive(r)
  BY <1>2 DEF Arrive, LoginSelect, TokenSelect, IInv, TypeOK, At
<1>3. CASE Step(r)
  <2>1. CASE LoadCaller(r)
    <3>1. req'[r].pc = FirstStatement(req[r].call.op)
          /\ req[r].call.op \in OpName \ {"Login", "CheckToken"}
      BY <1>1, <2>1 DEF LoadCaller, GoTo, At, IInv, TypeOK, RequestRecord, RequestOK, Call, OpName
    <3> QED
      BY <3>1 DEF At, OpName, FirstStatement
  <2>2. CASE CreateInsert(r)
    BY <1>1, <2>2 DEF CreateInsert, At, IInv, TypeOK
  <2>3. CASE GrantUser(r) \/ GrantCaps(r) \/ RevokeUser(r) \/ RevokeCaps(r) \/ RevokeCount(r)
    BY <1>1, <2>3 DEF GrantUser, GrantCaps, RevokeUser, RevokeCaps, RevokeCount, GoTo, At,
       IInv, TypeOK, RequestRecord
  <2>4. CASE CreateCheck(r)
    BY <1>1, <2>4 DEF CreateCheck
  <2> QED
    BY <1>1, <1>3, <2>1, <2>2, <2>3, <2>4 DEF Step, LoginInsert, CreateGrantRest, Update, Delete,
       Grant, Revoke, UpsertAccess, DropAccess
<1> QED
  BY <1>1, <1>2, <1>3, RequestMoves

LEMMA StepSelect ==
  ASSUME IInv, [Next]_vars, NEW r \in Request, SelectOK(r),
         At(r, "insert")', r \notin overtaken'
  PROVE  ~Duplicate(req[r].call.username, req[r].call.email)'
<1>1. CASE req'[r] # req[r]
  <2>1. CreateCheck(r) /\ GoTo(r, "insert") /\ ~Answer(r)
    BY <1>1, ReachesInsert DEF Answer, At, Idle, IInv, TypeOK
  <2>2. req'[r].call = req[r].call /\ user' = user
    BY <2>1 DEF CreateCheck, GoTo, tables, IInv, TypeOK, RequestRecord
  <2> QED
    BY <2>1, <2>2 DEF CreateCheck, Duplicate, Existing, Exists
<1>2. CASE req'[r] = req[r]
  <2>1. At(r, "insert") /\ r \notin overtaken /\ Serving
    BY <1>2, OvertakenStays, BusyServes DEF At
  <2>2. ~Duplicate(req[r].call.username, req[r].call.email)
    BY <2>1 DEF SelectOK
  <2>3. CASE user' = user
    BY <1>2, <2>2, <2>3 DEF Duplicate, Existing, Exists
  <2>4. ~SeedInsert
    BY <2>1 DEF SeedInsert, Serving
  <2>5. ASSUME NEW s \in Request PROVE ~CreateInsert(s) /\ ~Update(s)
    <3>1. CASE s = r
      BY <1>2, <2>1, <3>1 DEF CreateInsert, Update, Answer, Idle, At, IInv, TypeOK
    <3>2. CASE s # r
      BY <2>1, <3>2 DEF CreateInsert, Update, Overtakes
    <3> QED
      BY <3>1, <3>2
  <2>6. ASSUME NEW s \in Request, Delete(s)
        PROVE  ~Duplicate(req[r].call.username, req[r].call.email)'
    BY <1>2, <2>2, <2>6 DEF Delete, Duplicate, Existing, Exists, IInv, TypeOK
  <2> QED
    BY <2>3, <2>4, <2>5, <2>6, UserChanges
<1> QED
  BY <1>1, <1>2

LEMMA ChecksInvariance == Spec => [](\A r \in Request : CountOK(r) /\ SelectOK(r))
<1> DEFINE Checks == \A r \in Request : CountOK(r) /\ SelectOK(r)
<1>1. Init => Checks
  BY DEF Init, CountOK, SelectOK, At, Idle
<1>2. IInv /\ Checks /\ [Next]_vars => Checks'
  BY StepCount, StepSelect DEF CountOK, SelectOK
<1> QED
  BY <1>1, <1>2, Invariance, PTL DEF Spec

\* The guard of RevokeAdmin is sound as long as no other revoke comes between
\* its count and its DELETE, whatever else does: grants, deletions, creations,
\* cancelled requests, crashes.
THEOREM GuardIsSound == Spec => GuardHolds
<1>1. IInv /\ (\A r \in Request : CountOK(r) /\ SelectOK(r))
      => [\A r \in Request : Revoke(r) /\ r \notin overtaken => AdminRows' # {}]_vars
  <2> SUFFICES ASSUME NEW r \in Request, CountOK(r), Revoke(r), r \notin overtaken
               PROVE  AdminRows' # {}
    OBVIOUS
  <2>1. PICK i \in UserId \ {req[r].call.target} : Has(i, ADMIN)
    BY DEF CountOK, Revoke, OtherAdmin
  <2> QED
    BY <2>1 DEF Revoke, AdminRows, Has
<1> QED
  BY <1>1, Invariance, ChecksInvariance, PTL DEF Spec, GuardHolds

\* A user is created with a name or an email that is taken only if another
\* creation or a rename came between the SELECT of createUser and its INSERT.
THEOREM ChecksAreSound == Spec => CheckHolds
<1>1. IInv /\ (\A r \in Request : CountOK(r) /\ SelectOK(r))
      => [\A r \in Request : CreateInsert(r) /\ r \notin overtaken
            => ~Duplicate(req[r].call.username, req[r].call.email)]_vars
  BY DEF SelectOK, CreateInsert
<1> QED
  BY <1>1, Invariance, ChecksInvariance, PTL DEF Spec, CheckHolds

-----------------------------------------------------------------------------
(* Start-up.  No request runs beside it, so the account it works on is there *)
(* until the service listens, and has been made an administrator by then.    *)

SeedOK ==
  /\ boot.pc \in {"seedAdmin", "seedRest"} => Exists(boot.id)
  /\ boot.pc = "seedRest" => Has(boot.id, ADMIN)

\* Until the service listens only start-up and time pass.
LEMMA StartUpIsAlone ==
  ASSUME IInv, [Next]_vars, ~Serving
  PROVE  Boot \/ Crash \/ UNCHANGED <<user, nextId, capability_map, req, boot, crashes, overtaken>>
<1>1. \A r \in Request : ~(Arrive(r) \/ Step(r) \/ Abort(r))
  BY BusyServes DEF Arrive, LoginSelect, TokenSelect, Step, LoginInsert, LoadCaller,
     CreateCheck, CreateInsert, CreateGrantRest, Update, Delete, GrantUser, GrantCaps, Grant,
     RevokeUser, RevokeCaps, RevokeCount, Revoke, UpsertAccess, DropAccess, Abort, At
<1> QED
  BY <1>1 DEF Next, vars, Expire, TokenExpired

LEMMA StepSeed ==
  ASSUME IInv, SeedOK, [Next]_vars
  PROVE  SeedOK'
<1>1. CASE UNCHANGED <<user, capability_map, boot>>
  BY <1>1 DEF SeedOK, Exists, Has
<1>2. CASE SeedSelect
  BY <1>2 DEF SeedSelect, SeedAt, tables, SeedOK, Named, Existing, Exists
<1>3. CASE SeedInsert
  <2>1. [username |-> SeedName, email |-> SeedEmail] # NoRow
    BY ConstantsAssumption DEF NoRow
  <2> QED
    BY <1>3, <2>1 DEF SeedAt, SeedInsert, SeedOK, Exists, IInv, TypeOK, Down
<1>4. CASE SeedGrantAdmin
  BY <1>4 DEF SeedAt, SeedGrantAdmin, SeedOK, Exists, Has, IInv, TypeOK
<1>5. CASE SkipSeed \/ SeedGrantRest \/ Crash
  BY <1>5 DEF SeedAt, SkipSeed, SeedGrantRest, Crash, Down, SeedOK, IInv, TypeOK
<1>6. CASE Serving
  BY <1>2, <1>3, <1>4, <1>5, <1>6, BootChanges DEF Serving, SeedOK
<1> QED
  BY <1>1, <1>2, <1>3, <1>4, <1>5, <1>6, StartUpIsAlone DEF Boot

LEMMA SeedInvariance == Spec => []SeedOK
<1>1. Init => SeedOK
  BY DEF Init, Down, SeedOK
<1>2. IInv /\ SeedOK /\ [Next]_vars => SeedOK'
  BY StepSeed
<1> QED
  BY <1>1, <1>2, Invariance, PTL DEF Spec

\* The service starts to listen only with an administrator that exists,
\* whatever was renamed, revoked, deleted or cut short before the restart.
THEOREM RestartRepairs == Spec => BootRestoresAdmin
<1>3. IInv /\ SeedOK /\ [Next]_vars => [~Serving /\ Serving' /\ boot'.seeds => LiveAdmins' # {}]_vars
  <2> SUFFICES ASSUME IInv, SeedOK, [Next]_vars, ~Serving, Serving', boot'.seeds
               PROVE  LiveAdmins' # {}
    OBVIOUS
  <2>1. SeedGrantRest
    BY StartUpIsAlone DEF Boot, SkipSeed, SeedSelect, SeedAt, SeedInsert, SeedGrantAdmin, Crash, Serving, IInv, Down,
       TypeOK
  <2>2. boot.id \in UserId /\ Exists(boot.id) /\ Has(boot.id, ADMIN)
    BY <2>1 DEF SeedGrantRest, SeedOK, IInv, BootOK
  <2> QED
    BY <2>1, <2>2 DEF SeedAt, SeedGrantRest, LiveAdmins, AdminRows, Existing, Exists, Has
<1> QED
  BY <1>3, Invariance, SeedInvariance, PTL DEF Spec, BootRestoresAdmin

-----------------------------------------------------------------------------
(* The registry.  A request that is past a check holds the licence that the  *)
(* check gave it; only a step of its own changes it.                         *)

LEMMA Gives ==
  ASSUME NEW r \in Request, NEW l, Licence(r)' = l,
         \A s \in Request \ {r} : req'[s] = req[s]
  PROVE  Registry!Give(r, l)
<1>1. \A s \in Request \ {r} : Licence(s)' = Licence(s)
  BY DEF Licence
<1> QED
  BY <1>1 DEF Registry!Give

LEMMA LicencesKept ==
  ASSUME \A s \in Request : req'[s].pc = req[s].pc /\ req'[s].call = req[s].call
  PROVE  [r \in Request |-> Licence(r)]' = [r \in Request |-> Licence(r)]
BY DEF Licence

LEMMA OthersKeep ==
  ASSUME IInv, NEW r \in Request, Arrive(r) \/ Step(r) \/ Abort(r)
  PROVE  \A s \in Request \ {r} : req'[s] = req[s]
BY DEF IInv, TypeOK, Arrive, LoginSelect, TokenSelect, Step, LoginInsert, LoadCaller,
   CreateCheck, CreateInsert, CreateGrantRest, Update, Delete, GrantUser, GrantCaps, Grant,
   RevokeUser, RevokeCaps, RevokeCount, Revoke, UpsertAccess, DropAccess, Abort, Answer, GoTo

\* A step that leaves rows and licences alone is one of the people, or none.
LEMMA PeopleOnly ==
  ASSUME UNCHANGED AdminRows,
         [r \in Request |-> Licence(r)]' = [r \in Request |-> Licence(r)]
  PROVE  Registry!Next
<1>1. Registry!ComeAndGo
  BY DEF Registry!ComeAndGo, Existing
<1> QED
  BY <1>1 DEF Registry!Next

\* The labels of the requests that concern the registry.
Licensed == {"grantUser", "grantCaps", "grant", "revokeUser", "revokeCaps", "revokeCount",
             "revoke"}

\* A request that is not licensed and does not become so leaves the registry to
\* the people.
LEMMA UnlicensedStep ==
  ASSUME IInv, NEW r \in Request, Arrive(r) \/ Step(r) \/ Abort(r),
         req[r].pc \notin Licensed, req'[r].pc \notin Licensed
  PROVE  Registry!Next
<1>1. \A s \in Request : Licence(s)' = Licence(s)
  BY OthersKeep DEF Licence, Licensed
<1>2. [s \in Request |-> Licence(s)]' = [s \in Request |-> Licence(s)]
  BY <1>1
<1>3. ~Grant(r) /\ ~Revoke(r)
  BY DEF Grant, Revoke, At, Licensed
<1>4. UNCHANGED AdminRows
  BY <1>3 DEF Arrive, LoginSelect, TokenSelect, Step, LoginInsert, LoadCaller,
     CreateCheck, CreateInsert, CreateGrantRest, Update, Delete, GrantUser, GrantCaps,
     RevokeUser, RevokeCaps, RevokeCount, UpsertAccess, DropAccess, Abort, tables,
     AdminRows, Has, ADMIN, REST
<1> QED
  BY <1>2, <1>4, PeopleOnly

LEMMA DropStep ==
  ASSUME IInv, NEW r \in Request, Answer(r), Step(r) \/ Abort(r),
         UNCHANGED <<user, capability_map>>
  PROVE  Registry!Next
<1>1. Licence(r)' = Registry!NoLicence
  BY DEF Answer, Idle, Licence, Registry!NoLicence, IInv, TypeOK
<1>2. Registry!Give(r, Registry!NoLicence)
  BY <1>1, Gives, OthersKeep
<1>3. Registry!Drop(r)
  BY <1>2 DEF Registry!Drop, AdminRows, Existing, Exists, Has
<1> QED
  BY <1>3 DEF Registry!Next

LEMMA AskStep ==
  ASSUME IInv, NEW r \in Request, LoadCaller(r), req'[r].pc \in Licensed
  PROVE  Registry!Next
<1> DEFINE call == req[r].call
<1>1. /\ req'[r].pc = FirstStatement(call.op) /\ call.op \in {"GrantAdmin", "RevokeAdmin"}
      /\ req[r].pc = "caps" /\ Permitted(call, req[r].caller)
  BY DEF LoadCaller, GoTo, Answer, Idle, At, IInv, TypeOK, RequestRecord, RequestOK, Call, OpName,
     FirstStatement, Licensed
<1>2. Has(req[r].caller, ADMIN)
  BY <1>1 DEF Permitted, SelfService
<1>3. AdminRows # {}
  BY <1>2 DEF AdminRows, Has, IInv, TypeOK
<1>4. Licence(r) = Registry!NoLicence
  BY <1>1 DEF Licence, Registry!NoLicence
<1>5. Licence(r)' = Registry!Asked
  BY <1>1 DEF FirstStatement, Licence, Registry!Asked
<1>6. Registry!Give(r, Registry!Asked)
  BY <1>5, Gives, OthersKeep DEF Step
<1>7. Registry!Ask(r)
  BY <1>3, <1>4, <1>6 DEF Registry!Ask, LoadCaller, tables, AdminRows, Existing, Exists, Has
<1> QED
  BY <1>7 DEF Registry!Next

LEMMA LicensedStep ==
  ASSUME IInv, NEW r \in Request, Step(r), req[r].pc \in Licensed
  PROVE  Registry!Next
<1> DEFINE u == req[r].call.target
<1>0. \/ GrantUser(r) \/ GrantCaps(r) \/ Grant(r)
      \/ RevokeUser(r) \/ RevokeCaps(r) \/ RevokeCount(r) \/ Revoke(r)
  BY DEF Step, Licensed, LoginInsert, LoadCaller, CreateCheck, CreateInsert, CreateGrantRest,
     Update, Delete, UpsertAccess, DropAccess, At
<1>1. u \in UserId
  BY <1>0 DEF GrantUser, GrantCaps, Grant, RevokeUser, RevokeCaps, RevokeCount, Revoke, At,
     IInv, RequestOK
<1>2. CASE Answer(r) /\ ~Grant(r) /\ ~Revoke(r)
  BY <1>0, <1>2, DropStep DEF GrantUser, GrantCaps, RevokeUser, RevokeCaps, RevokeCount, tables
<1>3. CASE Grant(r)
  <2>1. Licence(r) = [power |-> "appoint", over |-> u]
    BY <1>3 DEF Grant, At, Licence
  <2>2. Licence(r)' = Registry!NoLicence
    BY <1>3 DEF Grant, Answer, Idle, Licence, Registry!NoLicence, IInv, TypeOK
  <2>3. Registry!Give(r, Registry!NoLicence)
    BY <2>2, Gives, OthersKeep
  <2>4. AdminRows' = AdminRows \cup {u} /\ UNCHANGED Existing
    BY <1>1, <1>3 DEF Grant, AdminRows, Has, Existing, Exists
  <2>5. Registry!Appoint(r, u)
    BY <2>1, <2>3, <2>4 DEF Registry!Appoint
  <2> QED
    BY <1>1, <2>5 DEF Registry!Next
<1>4. CASE Revoke(r)
  <2>1. Licence(r) = [power |-> "dismiss", over |-> u]
    BY <1>4 DEF Revoke, At, Licence
  <2>2. Licence(r)' = Registry!NoLicence
    BY <1>4 DEF Revoke, Answer, Idle, Licence, Registry!NoLicence, IInv, TypeOK
  <2>3. Registry!Give(r, Registry!NoLicence)
    BY <2>2, Gives, OthersKeep
  <2>4. AdminRows' = AdminRows \ {u} /\ UNCHANGED Existing
    BY <1>1, <1>4 DEF Revoke, AdminRows, Has, Existing, Exists
  <2>5. Registry!Dismiss(r, u)
    BY <2>1, <2>3, <2>4 DEF Registry!Dismiss
  <2> QED
    BY <1>1, <2>5 DEF Registry!Next
<1>5. CASE GrantUser(r) /\ ~Answer(r)
  <2>1. Licence(r) = Registry!Asked /\ u \in Existing
    BY <1>1, <1>5 DEF GrantUser, At, Licence, Registry!Asked, Existing
  <2>2. Licence(r)' = [power |-> "appoint", over |-> u]
    BY <1>5 DEF GrantUser, GoTo, Licence, IInv, TypeOK, RequestRecord
  <2>3. Registry!Give(r, [power |-> "appoint", over |-> u])
    BY <2>2, Gives, OthersKeep
  <2>4. UNCHANGED <<AdminRows, Existing>>
    BY <1>5 DEF GrantUser, tables, AdminRows, Has, Existing, Exists
  <2>5. Registry!License(r, u)
    BY <2>1, <2>3, <2>4 DEF Registry!License
  <2> QED
    BY <1>1, <2>5 DEF Registry!Next
<1>6. CASE RevokeCount(r) /\ ~Answer(r)
  <2>1. Licence(r) = Registry!Asked
    BY <1>6 DEF RevokeCount, At, Licence, Registry!Asked
  <2>2. AdminRows \ {u} # {}
    <3>1. \E i \in UserId \ {u} : Has(i, ADMIN)
      BY <1>6, CountedTwo DEF RevokeCount
    <3> QED
      BY <3>1 DEF AdminRows
  <2>3. Licence(r)' = [power |-> "dismiss", over |-> u]
    BY <1>6 DEF RevokeCount, GoTo, Licence, IInv, TypeOK, RequestRecord
  <2>4. Registry!Give(r, [power |-> "dismiss", over |-> u])
    BY <2>3, Gives, OthersKeep
  <2>5. UNCHANGED <<AdminRows, Existing>>
    BY <1>6 DEF RevokeCount, tables, AdminRows, Has, Existing, Exists
  <2>6. Registry!License(r, u)
    BY <2>1, <2>2, <2>4, <2>5 DEF Registry!License
  <2> QED
    BY <1>1, <2>6 DEF Registry!Next
<1>7. CASE (GrantCaps(r) \/ RevokeUser(r) \/ RevokeCaps(r)) /\ ~Answer(r)
  <2>1. Licence(r)' = Licence(r)
    BY <1>7 DEF GrantCaps, RevokeUser, RevokeCaps, At, GoTo, Licence, IInv, TypeOK, RequestRecord
  <2>2. \A s \in Request : Licence(s)' = Licence(s)
    BY <2>1, OthersKeep DEF Licence
  <2>3. [s \in Request |-> Licence(s)]' = [s \in Request |-> Licence(s)]
    BY <2>2
  <2>4. UNCHANGED AdminRows
    BY <1>7 DEF GrantCaps, RevokeUser, RevokeCaps, tables, AdminRows, Has
  <2> QED
    BY <2>3, <2>4, PeopleOnly
<1> QED
  BY <1>0, <1>2, <1>3, <1>4, <1>5, <1>6, <1>7

LEMMA StartUpStep ==
  ASSUME IInv, SeedOK, Boot
  PROVE  Registry!Next
<1>1. CASE SeedGrantAdmin
  <2>1. boot.id \in Existing
    BY <1>1 DEF SeedGrantAdmin, SeedOK, IInv, BootOK, Existing
  <2>2. \A r \in Request : Licence(r) = Registry!NoLicence
    BY <1>1 DEF SeedGrantAdmin, IInv, BootOK, Serving, Licence, Registry!NoLicence
  <2>3. AdminRows' = AdminRows \cup {boot.id} /\ UNCHANGED Existing
    BY <1>1, <2>1 DEF SeedGrantAdmin, AdminRows, Has, Existing, Exists
  <2>4. [r \in Request |-> Licence(r)]' = [r \in Request |-> Licence(r)]
    BY <1>1, LicencesKept DEF SeedGrantAdmin
  <2>5. Registry!Open(boot.id)
    BY <2>1, <2>2, <2>3, <2>4 DEF Registry!Open
  <2> QED
    BY <2>1, <2>5 DEF Registry!Next, Existing
<1>2. CASE ~SeedGrantAdmin
  <2>1. UNCHANGED AdminRows
    BY <1>2 DEF Boot, SkipSeed, SeedSelect, SeedAt, SeedInsert, SeedGrantRest, tables, AdminRows, Has,
       ADMIN, REST
  <2>2. [r \in Request |-> Licence(r)]' = [r \in Request |-> Licence(r)]
    BY <1>2, LicencesKept DEF Boot, SkipSeed, SeedSelect, SeedAt, SeedInsert, SeedGrantRest
  <2> QED
    BY <2>1, <2>2, PeopleOnly
<1> QED
  BY <1>1, <1>2

LEMMA StepRegistry ==
  ASSUME IInv, SeedOK, Next
  PROVE  Registry!Next
<1>1. CASE Boot
  BY <1>1, StartUpStep
<1>2. CASE Crash
  <2>1. \A r \in Request : Licence(r)' = Registry!NoLicence
    BY <1>2 DEF Crash, Idle, Licence, Registry!NoLicence
  <2>2. Registry!Close
    BY <1>2, <2>1 DEF Registry!Close, Crash, tables, AdminRows, Has, Existing, Exists
  <2> QED
    BY <2>2 DEF Registry!Next
<1>3. CASE \E t \in Token : Expire(t) \/ TokenExpired(t)
  <2>1. UNCHANGED AdminRows
    BY <1>3 DEF Expire, TokenExpired, AdminRows, Has
  <2>2. [r \in Request |-> Licence(r)]' = [r \in Request |-> Licence(r)]
    BY <1>3, LicencesKept DEF Expire, TokenExpired
  <2> QED
    BY <2>1, <2>2, PeopleOnly
<1>4. ASSUME NEW r \in Request, Arrive(r) \/ Step(r) \/ Abort(r)
      PROVE  Registry!Next
  <2>1. CASE Abort(r)
    BY <2>1, DropStep DEF Abort, tables
  <2>2. CASE Arrive(r)
    <3>1. req[r].pc \notin Licensed /\ req'[r].pc \notin Licensed
      BY <2>2 DEF Arrive, LoginSelect, TokenSelect, At, Licensed, IInv, TypeOK
    <3> QED
      BY <2>2, <3>1, UnlicensedStep
  <2>3. CASE Step(r) /\ req[r].pc \notin Licensed
    <3>1. CASE req'[r].pc \in Licensed
      <4>1. ~(\/ \E t \in Token : LoginInsert(r, t)
              \/ CreateCheck(r) \/ CreateInsert(r) \/ CreateGrantRest(r)
              \/ Update(r) \/ Delete(r) \/ UpsertAccess(r) \/ DropAccess(r))
        BY <3>1 DEF LoginInsert, CreateCheck, CreateInsert, CreateGrantRest, Update, Delete,
           UpsertAccess, DropAccess, Answer, GoTo, Idle, Licensed, IInv, TypeOK, RequestRecord
      <4>2. LoadCaller(r)
        BY <2>3, <4>1 DEF Step, GrantUser, GrantCaps, Grant, RevokeUser, RevokeCaps, RevokeCount,
           Revoke, At, Licensed
      <4> QED
        BY <3>1, <4>2, AskStep
    <3>2. CASE req'[r].pc \notin Licensed
      BY <2>3, <3>2, UnlicensedStep
    <3> QED
      BY <3>1, <3>2
  <2>4. CASE Step(r) /\ req[r].pc \in Licensed
    BY <2>4, LicensedStep
  <2> QED
    BY <1>4, <2>1, <2>2, <2>3, <2>4
<1> QED
  BY <1>1, <1>2, <1>3, <1>4 DEF Next

\* Statement by statement, for any number of handlers, auth-service implements
\* the registry: its administrators change under a licence only, and a licence
\* to dismiss was given when somebody else was an administrator, too.
THEOREM RegistryImplemented == Spec => ImplementsRegistry
<1>1. Init => Registry!Init
  BY DEF Init, Registry!Init, Registry!NoLicence, AdminRows, Has, Existing, Exists, Licence, Idle
<1>2. IInv /\ SeedOK /\ [Next]_vars =>
        [Registry!Next]_<<AdminRows, Existing, [r \in Request |-> Licence(r)]>>
  <2>1. CASE UNCHANGED vars
    BY <2>1 DEF vars, AdminRows, Has, Existing, Exists, Licence
  <2>2. IInv /\ SeedOK /\ Next => Registry!Next
    BY StepRegistry
  <2> QED
    BY <2>1, <2>2
<1> QED
  BY <1>1, <1>2, Invariance, SeedInvariance, PTL DEF Spec, ImplementsRegistry, Registry!Spec

=============================================================================
