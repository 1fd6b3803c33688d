--------------------------------- MODULE Cli ---------------------------------
(***************************************************************************)
(* The operator's command line client: what each command asks of the       *)
(* services and what their routes take, and the file in which processes    *)
(* started side by side find and leave the login.  The endpoints in the    *)
(* file are left out, as every one that is missing gets its default.       *)
(***************************************************************************)
EXTENDS Naturals, Sequences

CONSTANTS
  Process,
  User, NoUser,
  width,         \* user -> the length of the file with that user's login
  MaxTokens,     \* bound: logins the server answers
  MaxCrashes     \* bound: processes killed

ASSUME CliAssumption ==
  /\ NoUser \notin User /\ width \in [User -> Nat \ {0}]
  /\ MaxTokens \in Nat /\ MaxCrashes \in Nat

VARIABLES
  file,      \* the config file: its text and its length
  proc,      \* a command in each process
  owner,     \* auth-service: token -> user, in the order of the logins
  saved,     \* the config that SaveConfig was last done with
  crossed,   \* a login was saved while another was
  crashes

vars == <<file, proc, owner, saved, crossed, crashes>>

-----------------------------------------------------------------------------
(* What the services take: the fields that must be in the body *)

Route(service, method, path, required) ==
  [service |-> service, method |-> method, path |-> path, required |-> required]

AuthRoutes ==
  {Route("auth", "GET", path, {}) :
     path \in {"/", "/login/api", "/login/token", "/user", "/user/*", "/access-token/*"}}
  \cup {Route("auth", "POST", "/user", {"username", "email", "password"}),
        Route("auth", "PUT", "/user/*", {}), Route("auth", "DELETE", "/user/*", {}),
        Route("auth", "POST", "/access-token/*", {"type", "token"}),
        Route("auth", "DELETE", "/access-token/*/*", {}),
        Route("auth", "PUT", "/permission/user/admin/*", {}),
        Route("auth", "DELETE", "/permission/user/admin/*", {})}

\* The group and the repository may be given by id instead.
PermissionRoutes ==
  {Route("auth", "POST", path, {"user_id", "package_group", "repository"}) :
     path \in {"/permission/package-group/join", "/permission/package-group/leave",
               "/permission/package-group/protect", "/permission/package-group/unprotect"}}

MetadataRoutes ==
  {Route("metadata", "GET", path, {}) :
     path \in {"/", "/package/*", "/package/*/by-name/*", "/package-group/",
               "/package-group/*", "/repository/", "/repository/*"}}
  \cup {Route("metadata", "DELETE", path, {}) :
          path \in {"/package/*/*", "/package-group/*", "/repository/*"}}
  \cup {Route("metadata", "POST", "/package/*", {"name", "version"}),
        Route("metadata", "POST", "/package-group/", {"name"}),
        Route("metadata", "PUT", "/package-group/", {"id", "name"}),
        Route("metadata", "POST", "/repository/", {"name"}),
        Route("metadata", "PUT", "/repository/*", {"name"})}

PhpRoutes == {Route("php", "GET", path, {}) : path \in {"/", "/packages.json", "/p2/*"}}
             \cup {Route("php", "POST", "/publish", {"name", "version"})}

NpmRoutes == {Route("npm", "GET", path, {}) : path \in {"/", "/-/all", "/*"}}
             \cup {Route("npm", "PUT", "/*", {}),
                   Route("npm", "POST", "/-/npm/v1/security/audits", {})}

StorageRoutes ==
  {Route("storage", "GET", path, {}) : path \in {"/", "/object/*", "/object-exists/*", "/objects"}}
  \cup {Route("storage", method, "/object/*", {}) : method \in {"PUT", "DELETE"}}

Routes == AuthRoutes \cup PermissionRoutes \cup MetadataRoutes
          \cup PhpRoutes \cup NpmRoutes \cup StorageRoutes

-----------------------------------------------------------------------------
(* What the commands send, each of them one request or a choice of them: the *)
(* flags that a command requires are given, the others may be.  A field with *)
(* an empty value is taken for a missing one.                                *)

Ask(cmd, service, method, path, body) ==
  [cmd |-> cmd, service |-> service, method |-> method, path |-> path, body |-> body]

HealthCheck ==
  {Ask("health-check", service, "GET", "/", {}) :
     service \in {"auth", "metadata", "php", "npm", "storage"}}

LoginCommand == {Ask("login", "auth", "GET", "/login/api", {})}

UserCommands ==
  {Ask("list-user", "auth", "GET", "/user", {}),
   Ask("create-user", "auth", "POST", "/user", {"username", "password", "email"}),
   Ask("create-user", "auth", "POST", "/user", {"username", "password"}),
   Ask("delete-user", "auth", "DELETE", "/user/*", {}),
   Ask("user-info", "auth", "GET", "/user/*", {}),
   Ask("user-info", "auth", "GET", "/login/token", {})}

PackageGroupCommands ==
  {Ask("list-package-group", "metadata", "GET", "/package-group/", {}),
   Ask("create-package-group", "metadata", "POST", "/package-group/", {"name"}),
   Ask("delete-package-group", "metadata", "DELETE", "/package-group/*", {})}

RepositoryCommands ==
  {Ask("list-repository", "metadata", "GET", "/repository/", {}),
   Ask("create-repository", "metadata", "POST", "/repository/", {"name"}),
   Ask("update-repository", "metadata", "PUT", "/repository/*", {"name"}),
   Ask("delete-repository", "metadata", "DELETE", "/repository/*", {})}

AccessTokenCommands ==
  {Ask("add-access-token", "auth", "POST", "/access-token/*", {}),
   Ask("list-access-token", "auth", "GET", "/access-token/*", {}),
   Ask("remove-access-token", "auth", "DELETE", "/access-token/*/*", {})}

\* The flag's name is the key in the body, too.
permissionCmd(cmd, path, body) == Ask(cmd, "auth", "POST", path, body)
PermissionCommands ==
  {permissionCmd("join-package-group", "/permission/package-group/join", {"package-group", "user_id"}),
   permissionCmd("leave-package-group", "/permission/package-group/leave", {"package-group", "user_id"}),
   permissionCmd("join-repository", "/permission/repository/join", {"repository", "user_id"}),
   permissionCmd("leave-repository", "/permission/repository/leave", {"repository", "user_id"}),
   permissionCmd("protect-package-group", "/permission/package-group/protect", {"package-group"}),
   permissionCmd("unprotect-package-group", "/permission/package-group/unprotect", {"package-group"})}

Publish == {Ask("publish", service, "POST", "/publish", {"package_group", "url"}) :
              service \in {"php", "npm"}}

Requests == HealthCheck \cup LoginCommand \cup UserCommands \cup PackageGroupCommands
            \cup RepositoryCommands \cup AccessTokenCommands \cup PermissionCommands \cup Publish
Command == {ask.cmd : ask \in Requests}

\* The service has the route and finds in the body what it requires.
IsServed(ask) ==
  \E r \in Routes : /\ <<r.service, r.method, r.path>> = <<ask.service, ask.method, ask.path>>
                    /\ r.required \subseteq ask.body

-----------------------------------------------------------------------------
(* The config file *)

Config  == [token : 0 .. MaxTokens, user : User \cup {NoUser}]
DefaultConfig == [token |-> 0, user |-> NoUser]
Absent  == [token |-> 0, user |-> "absent"]
Garbled == [token |-> 0, user |-> "garbled"]

\* Mutant: a file that does not parse is used for what it is.
LoadConfig_Lenient(text) == {IF text = Absent THEN DefaultConfig ELSE text}

\* No result stands for an error.
LoadConfig(text) ==
  IF text = Absent THEN {DefaultConfig} ELSE IF text = Garbled THEN {} ELSE {text}

\* A write from the start of the file: what a longer text leaves at the end
\* makes the file invalid unless it is just the last newline.
Overwritten(config) ==
  LET w == width[config.user] IN
  IF w + 1 >= file.width THEN [text |-> config, width |-> IF w > file.width THEN w ELSE file.width]
  ELSE [text |-> Garbled, width |-> file.width]

-----------------------------------------------------------------------------
(* Processes *)

Idle == [pc |-> "idle", cmd |-> "none", config |-> DefaultConfig]
Becomes(p, pc, config) ==
  proc' = [proc EXCEPT ![p] = [pc |-> pc, cmd |-> IF pc = "run" THEN @.cmd ELSE "none",
                               config |-> config]]

\* ensureConfig, before any command: an error of it ends the process.
Start(p, cmd) ==
  /\ proc[p].pc = "idle"
  /\ \E config \in LoadConfig(file.text) :
       proc' = [proc EXCEPT ![p] = [pc |-> "run", cmd |-> cmd, config |-> config]]
  /\ UNCHANGED <<file, owner, saved, crossed, crashes>>

\* Any command but login asks, prints the answer or an error, and ends; without
\* a user id it does not even ask.
Request(p) ==
  /\ proc[p].pc = "run" /\ proc[p].cmd # "login"
  /\ proc' = [proc EXCEPT ![p] = Idle]
  /\ UNCHANGED <<file, owner, saved, crossed, crashes>>

\* Mutant: the user id stays what the file had.
Login_TokenOnly(p, u) ==
  /\ proc[p].pc = "run" /\ proc[p].cmd = "login"
  /\ Len(owner) < MaxTokens
  /\ owner' = Append(owner, u)
  /\ \/ Becomes(p, "save", [token |-> Len(owner) + 1,
                            user |-> IF proc[p].config.user = NoUser THEN u ELSE proc[p].config.user])
     \/ proc' = [proc EXCEPT ![p] = Idle]
  /\ UNCHANGED <<file, saved, crossed, crashes>>

\* Every login gets a new token; its answer may be lost.
Login(p, u) ==
  /\ proc[p].pc = "run" /\ proc[p].cmd = "login"
  /\ Len(owner) < MaxTokens
  /\ owner' = Append(owner, u)
  /\ \/ Becomes(p, "save", [token |-> Len(owner) + 1, user |-> u])
     \/ proc' = [proc EXCEPT ![p] = Idle]
  /\ UNCHANGED <<file, saved, crossed, crashes>>

LoginFails(p) ==
  /\ proc[p].pc = "run" /\ proc[p].cmd = "login"
  /\ proc' = [proc EXCEPT ![p] = Idle]
  /\ UNCHANGED <<file, owner, saved, crossed, crashes>>

\* Mutant: a login of the user in the file changes nothing.
SaveConfig_SameUser(p) ==
  LET config == proc[p].config IN
  /\ proc[p].pc = "save"
  /\ IF file.text.user = config.user
     THEN proc' = [proc EXCEPT ![p] = Idle] /\ saved' = config /\ UNCHANGED <<file, crossed>>
     ELSE /\ Becomes(p, "write", config) /\ UNCHANGED saved
          /\ file' = [text |-> Garbled, width |-> 0]
          /\ crossed' = (crossed \/ \E q \in Process \ {p} : proc[q].pc = "write")
  /\ UNCHANGED <<owner, crashes>>

\* SaveConfig: nothing is written if the file has that text; otherwise opening
\* the file for os.WriteFile makes it empty.
SaveConfig(p) ==
  LET config == proc[p].config IN
  /\ proc[p].pc = "save"
  /\ IF file.text = config
     THEN proc' = [proc EXCEPT ![p] = Idle] /\ saved' = config /\ UNCHANGED <<file, crossed>>
     ELSE /\ Becomes(p, "write", config) /\ UNCHANGED saved
          /\ file' = [text |-> Garbled, width |-> 0]
          /\ crossed' = (crossed \/ \E q \in Process \ {p} : proc[q].pc = "write")
  /\ UNCHANGED <<owner, crashes>>

WriteFile(p) ==
  /\ proc[p].pc = "write"
  /\ file' = Overwritten(proc[p].config)
  /\ saved' = proc[p].config
  /\ proc' = [proc EXCEPT ![p] = Idle]
  /\ UNCHANGED <<owner, crossed, crashes>>

Crash(p) ==
  /\ proc[p].pc # "idle"
  /\ crashes < MaxCrashes /\ crashes' = crashes + 1
  /\ proc' = [proc EXCEPT ![p] = Idle]
  /\ UNCHANGED <<file, owner, saved, crossed>>

\* The operator deletes the file.
RemoveFile ==
  /\ file.text # Absent /\ \A p \in Process : proc[p].pc = "idle"
  /\ file' = [text |-> Absent, width |-> 0] /\ saved' = Absent
  /\ UNCHANGED <<proc, owner, crossed, crashes>>

Init ==
  /\ file = [text |-> Absent, width |-> 0]
  /\ proc = [p \in Process |-> Idle]
  /\ owner = <<>> /\ saved = Absent /\ crossed = FALSE /\ crashes = 0

Next ==
  \/ \E p \in Process :
       \/ \E cmd \in Command : Start(p, cmd)
       \/ \E u \in User : Login(p, u)
       \/ Request(p) \/ LoginFails(p) \/ SaveConfig(p) \/ WriteFile(p) \/ Crash(p)
  \/ RemoveFile

Spec == Init /\ [][Next]_vars

-----------------------------------------------------------------------------
(* Properties *)

\* Every variable has its type; no command runs on a file it could not parse.
TypeOK ==
  /\ file.text \in Config \cup {Absent, Garbled} /\ file.width \in Nat
  /\ \A p \in Process : /\ proc[p].pc \in {"idle", "run", "save", "write"}
                        /\ proc[p].cmd \in Command \cup {"none"}
                        /\ proc[p].config \in Config
  /\ owner \in Seq(User) /\ saved \in Config \cup {Absent}
  /\ crossed \in BOOLEAN /\ crashes \in Nat

\* The token and the user id of a config are of one login, however logins cross
\* and wherever one is killed: with no --user-id a command acts on the user
\* whose token it sends.
Agree(config) == config.token # 0 => owner[config.token] = config.user
TokenAndUserAgree ==
  /\ \A p \in Process : Agree(proc[p].config)
  /\ Agree(file.text)

\* When no login is being saved the file has the last login to be saved, or it
\* does not parse, and that only because a process was killed or two logins were
\* saved at a time: no login ever leaves the token of an earlier one behind.
FileIsLastLogin ==
  (\A p \in Process : proc[p].pc \notin {"save", "write"}) =>
    \/ file.text = saved
    \/ file.text = Garbled /\ (crossed \/ crashes > 0)

\* What a command is about to ask its service has a route for, and the body has
\* the fields that the handler requires.
CommandsServed ==
  \A p \in Process : proc[p].pc = "run" =>
    \A ask \in Requests : ask.cmd = proc[p].cmd => IsServed(ask)

=============================================================================
