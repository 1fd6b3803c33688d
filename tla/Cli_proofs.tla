----------------------------- MODULE Cli_proofs -----------------------------
(***************************************************************************)
(* The configuration file of the CLI, for any number of processes, users,  *)
(* logins and crashes.                                                     *)
(***************************************************************************)
EXTENDS Cli, TLAPS

ProcRecord == [pc : {"idle", "run", "save", "write"}, cmd : Command \cup {"none"}, config : Config]

TypesOK ==
  /\ file \in [text : Config \cup {Absent, Garbled}, width : Nat]
  /\ proc \in [Process -> ProcRecord]
  /\ owner \in Seq(User) /\ saved \in Config \cup {Absent}
  /\ crossed \in BOOLEAN /\ crashes \in Nat

\* A token that a config has was answered, to the user the config has.
Answered(config) == config.token # 0 => config.token <= Len(owner) /\ owner[config.token] = config.user
ConfigsOK ==
  /\ Answered(file.text)
  /\ \A p \in Process : Answered(proc[p].config)

Saving(p)  == proc[p].pc \in {"save", "write"}
Writing(p) == proc[p].pc = "write"

\* What is being saved is a login, not the default.
LoginsOK == \A p \in Process : Saving(p) => proc[p].config.user \in User

\* A single writer finds the file as it truncated it; the file has what was last
\* saved, or is garbled by somebody still at it, by a crossing or by a crash.
WritersOK ==
  ~crossed => \A p, q \in Process : Writing(p) /\ Writing(q) => p = q /\ file.width = 0
FileOK ==
  \/ file.text = saved
  \/ file.text = Garbled /\ (crossed \/ crashes > 0 \/ \E p \in Process : Writing(p))

IInv == TypesOK /\ ConfigsOK /\ LoginsOK /\ WritersOK /\ FileOK

-----------------------------------------------------------------------------
LEMMA ConfigFacts ==
  /\ DefaultConfig \in Config /\ DefaultConfig.token = 0
  /\ Absent.token = 0 /\ Garbled.token = 0
BY CliAssumption DEF DefaultConfig, Config, Absent, Garbled

LEMMA IdleType == Idle \in ProcRecord /\ Idle.config = DefaultConfig /\ Idle.pc = "idle"
BY ConfigFacts DEF Idle, ProcRecord

LEMMA InitOK == Init => IInv
<1> SUFFICES ASSUME Init PROVE IInv
  OBVIOUS
<1>1. TypesOK
  <2>1. file \in [text : Config \cup {Absent, Garbled}, width : Nat]
    BY DEF Init
  <2>2. proc \in [Process -> ProcRecord]
    BY IdleType DEF Init
  <2>3. owner \in Seq(User) /\ saved \in Config \cup {Absent}
    BY DEF Init
  <2>4. crossed \in BOOLEAN /\ crashes \in Nat
    BY DEF Init
  <2> QED BY <2>1, <2>2, <2>3, <2>4 DEF TypesOK
<1>2. \A p \in Process : proc[p] = Idle
  BY DEF Init
<1>3. ConfigsOK
  BY <1>2, IdleType, ConfigFacts DEF Init, ConfigsOK, Answered
<1>4. LoginsOK /\ WritersOK /\ FileOK
  BY <1>2, IdleType DEF Init, LoginsOK, WritersOK, FileOK, Saving, Writing
<1> QED BY <1>1, <1>3, <1>4 DEF IInv

\* A process ends: nothing else changes.
LEMMA Ends ==
  ASSUME IInv, NEW p \in Process, proc' = [proc EXCEPT ![p] = Idle]
  PROVE  /\ proc' \in [Process -> ProcRecord]
         /\ proc'[p] = Idle /\ \A q \in Process \ {p} : proc'[q] = proc[q]
BY IdleType DEF IInv, TypesOK

LEMMA StartStep ==
  ASSUME IInv, NEW p \in Process, NEW cmd \in Command, Start(p, cmd)
  PROVE  IInv'
<1>1. PICK config \in LoadConfig(file.text) :
        proc' = [proc EXCEPT ![p] = [pc |-> "run", cmd |-> cmd, config |-> config]]
  BY DEF Start
<1>2. UNCHANGED <<file, owner, saved, crossed, crashes>> /\ proc[p].pc = "idle"
  BY DEF Start
<1>3. config \in Config /\ Answered(config)
  BY ConfigFacts DEF LoadConfig, IInv, TypesOK, ConfigsOK, Answered
<1>4. /\ proc' \in [Process -> ProcRecord]
      /\ proc'[p].config = config /\ proc'[p].pc = "run"
      /\ \A q \in Process \ {p} : proc'[q] = proc[q]
  BY <1>1, <1>3 DEF IInv, TypesOK, ProcRecord
<1>5. TypesOK'
  BY <1>2, <1>4 DEF IInv, TypesOK
<1>6. ConfigsOK'
  BY <1>2, <1>3, <1>4 DEF IInv, ConfigsOK, Answered
<1>7. \A q \in Process : Saving(q)' = Saving(q) /\ Writing(q)' = Writing(q)
  BY <1>2, <1>4 DEF Saving, Writing
<1>8. LoginsOK'
  BY <1>4, <1>7 DEF IInv, LoginsOK, Saving
<1>9. WritersOK' /\ FileOK'
  BY <1>2, <1>7 DEF IInv, WritersOK, FileOK
<1> QED BY <1>5, <1>6, <1>8, <1>9 DEF IInv

\* A command other than login, a login that fails, a crash.
LEMMA EndStep ==
  ASSUME IInv, NEW p \in Process,
         proc' = [proc EXCEPT ![p] = Idle], UNCHANGED <<file, owner, saved, crossed>>,
         crashes' \in Nat, crashes' >= crashes, Writing(p) => crashes' > 0
  PROVE  IInv'
<1>1. /\ proc' \in [Process -> ProcRecord]
      /\ proc'[p] = Idle /\ \A q \in Process \ {p} : proc'[q] = proc[q]
  BY Ends
<1>2. TypesOK'
  BY <1>1 DEF IInv, TypesOK
<1>3. ConfigsOK'
  BY <1>1, IdleType, ConfigFacts DEF IInv, ConfigsOK, Answered
<1>4. /\ ~Saving(p)' /\ ~Writing(p)'
      /\ \A q \in Process \ {p} : Saving(q)' = Saving(q) /\ Writing(q)' = Writing(q)
  BY <1>1, IdleType DEF Saving, Writing
<1>5. LoginsOK'
  BY <1>1, <1>4 DEF IInv, LoginsOK
<1>6. WritersOK'
  BY <1>4 DEF IInv, WritersOK
<1>7. FileOK'
  <2>1. crashes \in Nat
    BY DEF IInv, TypesOK
  <2> QED BY <1>4, <2>1 DEF IInv, FileOK
<1> QED BY <1>2, <1>3, <1>5, <1>6, <1>7 DEF IInv

LEMMA LoginStep ==
  ASSUME IInv, NEW p \in Process, NEW u \in User, Login(p, u)
  PROVE  IInv'
<1>1. /\ owner \in Seq(User) /\ Len(owner) \in Nat /\ Len(owner) < MaxTokens
      /\ owner' = Append(owner, u)
      /\ UNCHANGED <<file, saved, crossed, crashes>> /\ proc[p].pc = "run"
  BY DEF IInv, TypesOK, Login
<1>2. /\ owner' \in Seq(User) /\ Len(owner') = Len(owner) + 1
      /\ owner'[Len(owner) + 1] = u
      /\ \A i \in 1 .. Len(owner) : owner'[i] = owner[i]
  BY <1>1
<1>3. PICK config \in Config : config = [token |-> Len(owner) + 1, user |-> u]
  <2>1. Len(owner) + 1 \in 0 .. MaxTokens
    BY <1>1, CliAssumption
  <2> QED BY <2>1 DEF Config
<1>4. \A c : (c.token \in Nat /\ Answered(c)) => Answered(c)'
  BY <1>1, <1>2 DEF Answered
<1>5. \/ proc' = [proc EXCEPT ![p] = [pc |-> "save", cmd |-> "none", config |-> config]]
      \/ proc' = [proc EXCEPT ![p] = Idle]
  BY <1>3 DEF Login, Becomes
<1>6. PICK r \in {[pc |-> "save", cmd |-> "none", config |-> config], Idle} :
        proc' = [proc EXCEPT ![p] = r]
  BY <1>5
<1>7. r \in ProcRecord /\ Answered(r.config)'
  <2>1. CASE r = Idle
    BY <2>1, IdleType, ConfigFacts DEF Answered
  <2>2. CASE r = [pc |-> "save", cmd |-> "none", config |-> config]
    <3>1. r \in ProcRecord /\ r.config = config
      BY <2>2 DEF ProcRecord
    <3>2. config.token = Len(owner) + 1 /\ config.user = u
      BY <1>3
    <3>3. config.token <= Len(owner') /\ owner'[config.token] = config.user
      BY <1>1, <1>2, <3>2
    <3> QED BY <3>1, <3>3 DEF Answered
  <2> QED BY <2>1, <2>2
<1>8. /\ proc' \in [Process -> ProcRecord] /\ proc'[p] = r
      /\ \A q \in Process \ {p} : proc'[q] = proc[q]
  BY <1>6, <1>7 DEF IInv, TypesOK
<1>9. TypesOK'
  BY <1>1, <1>2, <1>8 DEF IInv, TypesOK
<1>10. ConfigsOK'
  <2>1. file.text.token \in Nat
    BY ConfigFacts, CliAssumption DEF IInv, TypesOK, Config
  <2>2. Answered(file.text)'
    BY <1>1, <1>4, <2>1 DEF IInv, ConfigsOK, Answered
  <2>3. \A q \in Process \ {p} : proc[q].config.token \in Nat
    BY CliAssumption DEF IInv, TypesOK, ProcRecord, Config
  <2>4. \A q \in Process \ {p} : Answered(proc[q].config)'
    BY <1>1, <1>2, <1>8, <2>3 DEF IInv, ConfigsOK, Answered
  <2> QED BY <1>7, <1>8, <2>2, <2>4 DEF ConfigsOK, Answered
<1>11. \A q \in Process : Writing(q)' = Writing(q)
  BY <1>1, <1>6, <1>8, IdleType DEF Writing
<1>12. LoginsOK'
  <2>1. Saving(p)' => proc'[p].config.user \in User
    BY <1>3, <1>6, <1>8, IdleType DEF Saving
  <2> QED BY <1>8, <2>1 DEF IInv, LoginsOK, Saving
<1>13. WritersOK' /\ FileOK'
  BY <1>1, <1>11 DEF IInv, WritersOK, FileOK
<1> QED BY <1>9, <1>10, <1>12, <1>13 DEF IInv

LEMMA SaveStep ==
  ASSUME IInv, NEW p \in Process, SaveConfig(p)
  PROVE  IInv'
<1> DEFINE config == proc[p].config
<1>1. /\ config \in Config /\ config.user \in User /\ Answered(config)
      /\ proc[p].pc = "save" /\ UNCHANGED <<owner, crashes>>
  BY DEF SaveConfig, IInv, TypesOK, ProcRecord, LoginsOK, Saving, ConfigsOK
<1>2. CASE file.text = config
  <2>1. proc' = [proc EXCEPT ![p] = Idle] /\ saved' = config /\ UNCHANGED <<file, crossed>>
    BY <1>2 DEF SaveConfig
  <2>2. /\ proc' \in [Process -> ProcRecord]
        /\ proc'[p] = Idle /\ \A q \in Process \ {p} : proc'[q] = proc[q]
    BY <2>1, Ends
  <2>3. TypesOK'
    BY <1>1, <2>1, <2>2 DEF IInv, TypesOK
  <2>4. ConfigsOK'
    BY <1>1, <2>1, <2>2, IdleType, ConfigFacts DEF IInv, ConfigsOK, Answered
  <2>5. LoginsOK' /\ WritersOK'
    BY <2>1, <2>2, IdleType DEF IInv, LoginsOK, WritersOK, Saving, Writing
  <2>6. FileOK'
    BY <1>2, <2>1 DEF FileOK
  <2> QED BY <2>3, <2>4, <2>5, <2>6 DEF IInv
<1>3. CASE file.text # config
  <2>1. /\ proc' = [proc EXCEPT ![p] = [pc |-> "write", cmd |-> "none", config |-> config]]
        /\ file' = [text |-> Garbled, width |-> 0] /\ UNCHANGED saved
        /\ crossed' = (crossed \/ \E q \in Process \ {p} : Writing(q))
    BY <1>3 DEF SaveConfig, Becomes, Writing
  <2>2. /\ proc' \in [Process -> ProcRecord] /\ proc'[p].config = config /\ proc'[p].pc = "write"
        /\ \A q \in Process \ {p} : proc'[q] = proc[q]
    BY <1>1, <2>1 DEF IInv, TypesOK, ProcRecord
  <2>3. TypesOK'
    BY <1>1, <2>1, <2>2 DEF IInv, TypesOK
  <2>4. ConfigsOK'
    BY <1>1, <2>1, <2>2, ConfigFacts DEF IInv, ConfigsOK, Answered
  <2>5. LoginsOK'
    BY <1>1, <2>2 DEF IInv, LoginsOK, Saving
  <2>6. WritersOK'
    BY <2>1, <2>2 DEF IInv, WritersOK, Writing
  <2>7. FileOK'
    BY <2>1, <2>2 DEF FileOK, Writing
  <2> QED BY <2>3, <2>4, <2>5, <2>6, <2>7 DEF IInv
<1> QED BY <1>2, <1>3

LEMMA WriteStep ==
  ASSUME IInv, NEW p \in Process, WriteFile(p)
  PROVE  IInv'
<1> DEFINE config == proc[p].config
<1>1. /\ config \in Config /\ config.user \in User /\ Answered(config) /\ Writing(p)
      /\ UNCHANGED <<owner, crossed, crashes>> /\ saved' = config
      /\ file' = Overwritten(config) /\ proc' = [proc EXCEPT ![p] = Idle]
  BY DEF WriteFile, IInv, TypesOK, ProcRecord, LoginsOK, Saving, ConfigsOK, Writing
<1>2. /\ proc' \in [Process -> ProcRecord]
      /\ proc'[p] = Idle /\ \A q \in Process \ {p} : proc'[q] = proc[q]
  BY <1>1, Ends
<1>3. width[config.user] \in Nat /\ file.width \in Nat
  BY <1>1, CliAssumption DEF IInv, TypesOK
<1>4. /\ file' \in [text : {config, Garbled}, width : Nat]
      /\ file.width = 0 => file'.text = config
  BY <1>1, <1>3 DEF Overwritten
<1>5. TypesOK'
  BY <1>1, <1>2, <1>4 DEF IInv, TypesOK
<1>6. ConfigsOK'
  BY <1>1, <1>2, <1>4, IdleType, ConfigFacts DEF IInv, ConfigsOK, Answered
<1>7. /\ ~Saving(p)' /\ ~Writing(p)'
      /\ \A q \in Process \ {p} : Saving(q)' = Saving(q) /\ Writing(q)' = Writing(q)
  BY <1>2, IdleType DEF Saving, Writing
<1>8. LoginsOK'
  BY <1>2, <1>7 DEF IInv, LoginsOK
<1>9. ~crossed => file.width = 0 /\ \A q \in Process : Writing(q) => q = p
  BY <1>1 DEF IInv, WritersOK
<1>10. WritersOK'
  BY <1>1, <1>7, <1>9 DEF WritersOK
<1>11. FileOK'
  BY <1>1, <1>4, <1>9 DEF FileOK
<1> QED BY <1>5, <1>6, <1>8, <1>10, <1>11 DEF IInv

LEMMA RemoveStep == IInv /\ RemoveFile => IInv'
<1> SUFFICES ASSUME IInv, RemoveFile PROVE IInv'
  OBVIOUS
<1>1. /\ file' = [text |-> Absent, width |-> 0] /\ saved' = Absent
      /\ UNCHANGED <<proc, owner, crossed, crashes>>
  BY DEF RemoveFile
<1>2. TypesOK'
  BY <1>1 DEF IInv, TypesOK
<1>3. ConfigsOK'
  BY <1>1, ConfigFacts DEF IInv, ConfigsOK, Answered
<1>4. LoginsOK' /\ WritersOK' /\ FileOK'
  BY <1>1 DEF IInv, LoginsOK, WritersOK, FileOK, Saving, Writing
<1> QED BY <1>2, <1>3, <1>4 DEF IInv

LEMMA StepOK == IInv /\ [Next]_vars => IInv'
<1> SUFFICES ASSUME IInv, [Next]_vars PROVE IInv'
  OBVIOUS
<1>0. crashes \in Nat
  BY DEF IInv, TypesOK
<1>1. ASSUME NEW p \in Process, NEW cmd \in Command, Start(p, cmd) PROVE IInv'
  BY <1>1, StartStep
<1>2. ASSUME NEW p \in Process, NEW u \in User, Login(p, u) PROVE IInv'
  BY <1>2, LoginStep
<1>3. ASSUME NEW p \in Process, Request(p) PROVE IInv'
  <2>1. /\ ~Writing(p) /\ proc' = [proc EXCEPT ![p] = Idle]
        /\ UNCHANGED <<file, owner, saved, crossed>> /\ crashes' = crashes
    BY <1>3 DEF Request, Writing
  <2>2. crashes' \in Nat /\ crashes' >= crashes
    BY <1>0, <2>1
  <2> QED BY <2>1, <2>2, EndStep
<1>4. ASSUME NEW p \in Process, LoginFails(p) PROVE IInv'
  <2>1. /\ ~Writing(p) /\ proc' = [proc EXCEPT ![p] = Idle]
        /\ UNCHANGED <<file, owner, saved, crossed>> /\ crashes' = crashes
    BY <1>4 DEF LoginFails, Writing
  <2>2. crashes' \in Nat /\ crashes' >= crashes
    BY <1>0, <2>1
  <2> QED BY <2>1, <2>2, EndStep
<1>5. ASSUME NEW p \in Process, SaveConfig(p) PROVE IInv'
  BY <1>5, SaveStep
<1>6. ASSUME NEW p \in Process, WriteFile(p) PROVE IInv'
  BY <1>6, WriteStep
<1>7. ASSUME NEW p \in Process, Crash(p) PROVE IInv'
  <2>1. crashes' \in Nat /\ crashes' >= crashes /\ crashes' > 0
    BY <1>0, <1>7 DEF Crash
  <2> QED BY <1>7, <2>1, EndStep DEF Crash
<1>8. CASE UNCHANGED vars
  BY <1>8 DEF vars, IInv, TypesOK, ConfigsOK, Answered, LoginsOK, WritersOK, FileOK, Saving, Writing
<1> QED BY <1>1, <1>2, <1>3, <1>4, <1>5, <1>6, <1>7, <1>8, RemoveStep DEF Next

LEMMA Invariance == Spec => []IInv
BY InitOK, StepOK, PTL DEF Spec

\* Every variable of the CLI keeps its type: no command runs on a file that did
\* not parse, whatever processes do to it meanwhile.
THEOREM TypeCorrect == Spec => []TypeOK
<1>1. IInv => TypeOK
  BY DEF IInv, TypesOK, TypeOK, ProcRecord
<1> QED BY <1>1, Invariance, PTL

\* The token and the user id of a config are of one login, in the file and in
\* every process, for any number of processes, crossing and killed.
THEOREM TokensAreTheUsers == Spec => []TokenAndUserAgree
<1>1. IInv => TokenAndUserAgree
  BY DEF IInv, ConfigsOK, Answered, TokenAndUserAgree, Agree
<1> QED BY <1>1, Invariance, PTL

\* With no login being saved the file has the last one saved, unless a crash or
\* a crossing garbled it.
THEOREM LastLoginIsKept == Spec => []FileIsLastLogin
<1>1. IInv => FileIsLastLogin
  BY DEF IInv, FileOK, FileIsLastLogin, Writing
<1> QED BY <1>1, Invariance, PTL

=============================================================================
