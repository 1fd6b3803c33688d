----------------------- MODULE StorageService_proofs -----------------------
(***************************************************************************)
(* The theorems about StorageService, for every tree of keys, every set of *)
(* bodies and any number of handlers.                                      *)
(***************************************************************************)
EXTENDS StorageService, TLAPS

\* What is known of a handler from the call it is about to make.
WorkerOK(w) ==
  LET v == worker[w] IN
  /\ v.pc = "idle" => v = Idle
  /\ v.pc # "idle" => v.key \in Key /\ v.blob \in Blob /\ v.op \in Op
  /\ v.pc \in {"mkdir", "recheck", "create"} \cup Holding => v.op = "Put"
  /\ v.pc = "open" => v.op = "Get"
  /\ v.pc \in {"stat", "remove"} => v.op = "Delete"
  /\ v.pc # "done" => v.reply = Absent
  /\ v.pc \in {"resolve", "mkdir", "recheck", "create"} => v.chunks = 0
  /\ v.pc = "copy" => v.chunks <= Size[v.blob]
  /\ v.pc = "rename" => v.chunks = Size[v.blob] /\ v.blob \in NonEmpty

\* A handler's temporary file lies where the object goes.
TempOK(w) ==
  worker[w].pc \in Holding => temps[worker[w].tmp] = KeyOf(w)

IInv ==
  /\ TypeOK
  /\ \A w \in Worker : WorkerOK(w)
  /\ \A w \in Worker : TempOK(w)
  /\ \A v, w \in Worker : Holds(v, worker[w].tmp) => v = w \/ worker[w].tmp = Absent
  /\ TreeOK
  /\ WholeBlobs

-----------------------------------------------------------------------------
(* How a handler moves. *)

LEMMA HandlerTypes ==
  ASSUME TypeOK, NEW w \in Worker
  PROVE  /\ worker[w].pc \in Label \cup Holding
         /\ worker[w].pc \in Holding =>
              /\ worker[w].op = "Put" /\ worker[w].key \in Key /\ worker[w].blob \in Blob
              /\ worker[w].tmp \in Temp /\ worker[w].reply = Absent
         /\ worker[w].pc \notin Holding => worker[w].tmp = Absent
         /\ worker[w].chunks \in Nat
         /\ worker[w] = [pc |-> worker[w].pc, op |-> worker[w].op, key |-> worker[w].key,
                         blob |-> worker[w].blob, tmp |-> worker[w].tmp,
                         chunks |-> worker[w].chunks, reply |-> worker[w].reply]
BY DEF TypeOK, WorkerRecord, Label, Holding

LEMMA GoToMoves ==
  ASSUME TypeOK, NEW w \in Worker, NEW label, GoTo(w, label),
         \/ label \in Label /\ worker[w].pc \in Label
         \/ label \in Holding /\ worker[w].pc \in Holding
  PROVE  /\ worker' \in [Worker -> WorkerRecord]
         /\ \A v \in Worker \ {w} : worker'[v] = worker[v]
         /\ worker'[w].pc = label
         /\ worker'[w].op = worker[w].op
         /\ worker'[w].key = worker[w].key
         /\ worker'[w].blob = worker[w].blob
         /\ worker'[w].tmp = worker[w].tmp
         /\ worker'[w].chunks = worker[w].chunks
         /\ worker'[w].reply = worker[w].reply
BY HandlerTypes DEF GoTo, TypeOK, WorkerRecord, Label, Holding

LEMMA AnswerMoves ==
  ASSUME TypeOK, NEW w \in Worker, NEW reply \in Reply, Answer(w, reply)
  PROVE  /\ worker' \in [Worker -> WorkerRecord]
         /\ \A v \in Worker \ {w} : worker'[v] = worker[v]
         /\ worker'[w].pc = "done"
         /\ worker'[w].op = worker[w].op
         /\ worker'[w].key = worker[w].key
         /\ worker'[w].blob = worker[w].blob
         /\ worker'[w].tmp = Absent
         /\ worker'[w].reply = reply
BY DEF Answer, TypeOK, WorkerRecord, Label, Holding, Op

\* A handler that gains no temporary file, in a step that leaves all files alone.
LEMMA QuietStep ==
  ASSUME IInv, NEW w \in Worker,
         UNCHANGED <<entry, dirs, temps, crashes>>,
         worker' \in [Worker -> WorkerRecord],
         \A v \in Worker \ {w} : worker'[v] = worker[v],
         worker'[w].tmp \in {worker[w].tmp, Absent},
         WorkerOK(w)', TempOK(w)'
  PROVE  IInv'
<1>1. TypeOK' /\ WholeBlobs' /\ TreeOK'
  BY DEF IInv, TypeOK, WholeBlobs, TreeOK, IsFile
<1>2. \A v \in Worker : WorkerOK(v)' /\ TempOK(v)'
  BY DEF IInv, WorkerOK, TempOK, KeyOf
<1>3. \A v, u \in Worker : Holds(v, worker[u].tmp)' => v = u \/ worker'[u].tmp = Absent
  BY DEF IInv, Holds
<1> QED
  BY <1>1, <1>2, <1>3 DEF IInv

LEMMA InitIInv == Init => IInv
<1> SUFFICES ASSUME Init PROVE IInv
  OBVIOUS
<1>1. TypeOK
  BY DEF Init, TypeOK, WorkerRecord, Idle, Label, Reply
<1>2. \A w \in Worker : WorkerOK(w) /\ TempOK(w) /\ worker[w].tmp = Absent
  BY DEF Init, WorkerOK, TempOK, Idle, Holding
<1>3. TreeOK /\ WholeBlobs
  BY DEF Init, TreeOK, WholeBlobs, IsFile
<1> QED
  BY <1>1, <1>2, <1>3 DEF IInv

\* A handler that answers holds no temporary file.
LEMMA QuietAnswer ==
  ASSUME IInv, NEW w \in Worker, NEW reply \in Reply, Answer(w, reply),
         worker[w].pc \notin {"idle", "done"}, UNCHANGED <<entry, dirs, temps, crashes>>
  PROVE  IInv'
<1>1. WorkerOK(w)' /\ TempOK(w)'
  BY AnswerMoves DEF IInv, WorkerOK, TempOK, Holding
<1> QED
  BY <1>1, AnswerMoves, QuietStep DEF IInv

\* A handler that goes on keeps the temporary file it holds.
LEMMA QuietGoTo ==
  ASSUME IInv, NEW w \in Worker, NEW label, GoTo(w, label),
         \/ label \in Label /\ worker[w].pc \in Label
         \/ label \in Holding /\ worker[w].pc \in Holding,
         WorkerOK(w)', UNCHANGED <<entry, dirs, temps, crashes>>
  PROVE  IInv'
<1>1. TempOK(w)'
  BY GoToMoves DEF IInv, TempOK, KeyOf, Label, Holding
<1> QED
  BY <1>1, GoToMoves, QuietStep DEF IInv

LEMMA HandlerStep ==
  ASSUME IInv, NEW w \in Worker,
         \/ \E op \in Op, k \in Key, b \in Blob : Begin(w, op, k, b)
         \/ Resolve(w) \/ CopyChunk(w) \/ CopyFails(w) \/ CopyEnds(w)
         \/ Open(w) \/ Stat(w) \/ Finish(w)
  PROVE  IInv'
<1>0. UNCHANGED <<entry, dirs, temps, crashes>> /\ TypeOK /\ WorkerOK(w)
  BY DEF Begin, Resolve, CopyChunk, CopyFails, CopyEnds, Open, Stat, Finish, IInv
<1>1. CASE \E op \in Op, k \in Key, b \in Blob : Begin(w, op, k, b)
  <2> PICK op \in Op, k \in Key, b \in Blob : Begin(w, op, k, b)
    BY <1>1
  <2> DEFINE v == [pc |-> "resolve", op |-> op, key |-> k, blob |-> b, tmp |-> Absent,
                   chunks |-> 0, reply |-> Absent]
  <2>2. v \in WorkerRecord
    BY DEF WorkerRecord, Label, Reply
  <2>3. worker' = [worker EXCEPT ![w] = v]
    BY DEF Begin
  <2>4. WorkerOK(w)' /\ TempOK(w)' /\ worker'[w].tmp = Absent
    BY <1>0, <2>3 DEF WorkerOK, TempOK, TypeOK, Holding
  <2> QED
    BY <1>0, <2>2, <2>3, <2>4, QuietStep DEF TypeOK
<1>3. CASE CopyChunk(w)
  <2> DEFINE v == [worker[w] EXCEPT !.chunks = worker[w].chunks + 1]
  <2>1. worker' = [worker EXCEPT ![w] = v] /\ worker[w].pc = "copy"
    BY <1>3 DEF CopyChunk, At
  <2>2. /\ v \in WorkerRecord /\ v.pc = "copy" /\ v.op = worker[w].op
        /\ v.key = worker[w].key /\ v.blob = worker[w].blob /\ v.tmp = worker[w].tmp
        /\ v.reply = worker[w].reply /\ v.chunks = worker[w].chunks + 1
    BY <1>0, <2>1 DEF TypeOK, WorkerRecord
  <2>3. worker[w].chunks + 1 <= Size[worker[w].blob]
    <3>1. worker[w].blob \in Blob /\ worker[w].chunks \in Nat
      BY <1>0, <2>1, HandlerTypes DEF Holding
    <3>2. Size[worker[w].blob] \in Nat
      BY <3>1, StorageAssumption
    <3> QED
      BY <1>3, <3>1, <3>2 DEF CopyChunk
  <2> HIDE DEF v
  <2>4. WorkerOK(w)' /\ worker' \in [Worker -> WorkerRecord]
    BY <1>0, <2>1, <2>2, <2>3 DEF WorkerOK, TypeOK, Holding
  <2>5. TempOK(w)'
    BY <1>0, <2>1, <2>2 DEF IInv, TempOK, KeyOf, TypeOK, Holding
  <2> QED
    BY <1>0, <2>1, <2>2, <2>4, <2>5, QuietStep DEF TypeOK
<1>4. CASE CopyFails(w)
  <2>1. GoTo(w, "discard") /\ worker[w].pc = "copy"
    BY <1>4 DEF CopyFails, At
  <2>2. WorkerOK(w)'
    BY <1>0, <2>1, GoToMoves DEF WorkerOK, Holding
  <2> QED
    BY <1>0, <2>1, <2>2, QuietGoTo DEF Holding
<1>5. CASE CopyEnds(w)
  <2>1. worker[w].pc = "copy"
    BY <1>5 DEF CopyEnds, At
  <2>2. CASE worker[w].chunks = 0
    <3>1. GoTo(w, "discard")
      BY <1>5, <2>2 DEF CopyEnds
    <3>2. WorkerOK(w)'
      BY <1>0, <2>1, <3>1, GoToMoves DEF WorkerOK, Holding
    <3> QED
      BY <1>0, <2>1, <3>1, <3>2, QuietGoTo DEF Holding
  <2>3. CASE worker[w].chunks # 0
    <3>1. GoTo(w, "rename") /\ worker[w].chunks = Size[worker[w].blob]
      BY <1>5, <2>3 DEF CopyEnds
    <3>2. worker[w].blob \in NonEmpty
      BY <1>0, <2>1, <2>3, <3>1, StorageAssumption DEF NonEmpty, WorkerOK
    <3>3. WorkerOK(w)'
      BY <1>0, <2>1, <3>1, <3>2, GoToMoves DEF WorkerOK, Holding
    <3> QED
      BY <1>0, <2>1, <3>1, <3>3, QuietGoTo DEF Holding
  <2> QED
    BY <2>2, <2>3
<1>6. CASE Open(w)
  <2>1. worker[w].pc = "open" /\ KeyOf(w) \in Key
    BY <1>0, <1>6 DEF Open, At, WorkerOK, KeyOf
  <2>2. entry[KeyOf(w)] \in Content \cup {NoFile}
    BY <1>0, <2>1 DEF TypeOK
  <2>3. Meaning(entry[KeyOf(w)]) \in Reply
    BY <2>2 DEF Meaning, Reply, Content
  <2> QED
    BY <1>0, <1>6, <2>1, <2>3, QuietAnswer DEF Open
<1>7. CASE Stat(w)
  <2>1. CASE IsFile(KeyOf(w))
    <3>1. GoTo(w, "remove") /\ worker[w].pc = "stat"
      BY <1>7, <2>1 DEF Stat, At
    <3>2. WorkerOK(w)'
      BY <1>0, <3>1, GoToMoves DEF WorkerOK, Label, Holding
    <3> QED
      BY <1>0, <3>1, <3>2, QuietGoTo DEF Label
  <2>2. CASE ~IsFile(KeyOf(w))
    BY <1>0, <1>7, <2>2, QuietAnswer DEF Stat, At, Reply
  <2> QED
    BY <2>1, <2>2
<1>8. CASE Finish(w)
  <2>1. Idle \in WorkerRecord /\ Idle.pc = "idle" /\ Idle.reply = Absent /\ Idle.tmp = Absent
    BY DEF WorkerRecord, Idle, Label, Reply
  <2>2. worker' = [worker EXCEPT ![w] = Idle]
    BY <1>8 DEF Finish
  <2>3. WorkerOK(w)' /\ TempOK(w)'
    BY <1>0, <2>1, <2>2 DEF WorkerOK, TempOK, TypeOK, Holding
  <2> QED
    BY <1>0, <2>1, <2>2, <2>3, QuietStep DEF TypeOK
<1>9. CASE Resolve(w)
  <2>1. worker[w].pc \in {"resolve", "recheck"}
    BY <1>9 DEF Resolve
  <2>2. CASE BelowFile(KeyOf(w))
    BY <1>0, <1>9, <2>1, <2>2, QuietAnswer DEF Resolve, Reply
  <2>3. CASE ~BelowFile(KeyOf(w))
    <3> DEFINE label == IF At(w, "recheck") THEN "create" ELSE FirstCall(worker[w].op)
    <3>1. GoTo(w, label)
      BY <1>9, <2>3 DEF Resolve
    <3>2. /\ label \in {"create", "mkdir", "open", "stat"}
          /\ label \in {"create", "mkdir"} => worker[w].op = "Put"
          /\ label = "open" => worker[w].op = "Get"
          /\ label = "stat" => worker[w].op = "Delete"
      BY <1>0, <2>1 DEF FirstCall, Op, WorkerOK, At
    <3> HIDE DEF label
    <3>3. WorkerOK(w)'
      BY <1>0, <2>1, <3>1, <3>2, GoToMoves DEF WorkerOK, Label, Holding
    <3> QED
      BY <1>0, <2>1, <3>1, <3>2, <3>3, QuietGoTo DEF Label
  <2> QED
    BY <2>2, <2>3
<1> QED
  BY <1>1, <1>3, <1>4, <1>5, <1>6, <1>7, <1>8, <1>9

LEMMA CreateTempStep ==
  ASSUME IInv, NEW w \in Worker, CreateTemp(w)
  PROVE  IInv'
<1>0. /\ TypeOK /\ WorkerOK(w) /\ UNCHANGED <<entry, dirs, crashes>>
      /\ worker[w].pc = "create" /\ KeyOf(w) \in Key
  BY DEF CreateTemp, At, IInv, WorkerOK, KeyOf
<1>1. CASE ~(Above[KeyOf(w)] \subseteq dirs)
  BY <1>0, <1>1, QuietAnswer DEF CreateTemp, Reply
<1>2. CASE Above[KeyOf(w)] \subseteq dirs
  <2>1. PICK t \in Temp :
          /\ temps[t] = Absent
          /\ temps' = [temps EXCEPT ![t] = KeyOf(w)]
          /\ worker' = [worker EXCEPT ![w] = [worker[w] EXCEPT !.pc = "copy", !.tmp = t]]
    BY <1>2 DEF CreateTemp
  <2> DEFINE v == [worker[w] EXCEPT !.pc = "copy", !.tmp = t]
  <2>2. worker[w].op = "Put" /\ worker[w].key \in Key /\ worker[w].blob \in Blob
        /\ worker[w].reply = Absent /\ worker[w].chunks = 0
    BY <1>0 DEF WorkerOK
  <2>3. /\ v.pc = "copy" /\ v.op = "Put" /\ v.key = worker[w].key
        /\ v.blob = worker[w].blob /\ v.tmp = t
        /\ v.reply = Absent /\ v.chunks = 0 /\ v \in WorkerRecord
    BY <1>0, <2>2 DEF TypeOK, WorkerRecord, Holding
  <2>4. worker' = [worker EXCEPT ![w] = v]
    BY <2>1
  <2> HIDE DEF v
  <2>5. /\ worker' \in [Worker -> WorkerRecord] /\ worker'[w] = v
        /\ \A u \in Worker \ {w} : worker'[u] = worker[u]
    BY <1>0, <2>3, <2>4 DEF TypeOK
  <2>6. Absent \notin Temp /\ Absent \notin Key
    BY StorageAssumption
  <2>7. \A u \in Worker : worker[u].tmp # t
    BY <1>0, <2>1, <2>6, HandlerTypes DEF IInv, TempOK, WorkerOK, KeyOf
  <2>8. TypeOK'
    BY <1>0, <2>1, <2>5 DEF TypeOK
  <2>9. \A u \in Worker : WorkerOK(u)'
    <3>1. WorkerOK(w)'
      BY <2>2, <2>3, <2>5, StorageAssumption DEF WorkerOK, Op, Holding
    <3> QED
      BY <2>5, <3>1 DEF IInv, WorkerOK
  <2>10. \A u \in Worker : TempOK(u)'
    <3>1. TempOK(w)'
      BY <1>0, <2>1, <2>3, <2>5 DEF TempOK, TypeOK, KeyOf
    <3>2. ASSUME NEW u \in Worker \ {w} PROVE TempOK(u)'
      BY <1>0, <2>1, <2>5, <2>7, HandlerTypes DEF IInv, TempOK, TypeOK, KeyOf
    <3> QED
      BY <3>1, <3>2
  <2>11. \A u, x \in Worker : Holds(u, worker[x].tmp)' => u = x \/ worker'[x].tmp = Absent
    BY <2>3, <2>5, <2>7 DEF IInv, Holds
  <2>12. TreeOK' /\ WholeBlobs'
    BY <1>0, <1>2, <2>1 DEF IInv, TreeOK, WholeBlobs, IsFile, TypeOK
  <2> QED
    BY <2>8, <2>9, <2>10, <2>11, <2>12 DEF IInv
<1> QED
  BY <1>1, <1>2

LEMMA MkdirStep ==
  ASSUME IInv, NEW w \in Worker, Mkdir(w)
  PROVE  IInv'
<1>0. /\ TypeOK /\ WorkerOK(w) /\ UNCHANGED <<entry, temps, crashes>>
      /\ worker[w].pc = "mkdir" /\ KeyOf(w) \in Key
  BY DEF Mkdir, At, IInv, WorkerOK, KeyOf
<1>1. CASE BelowFile(KeyOf(w))
  BY <1>0, <1>1, QuietAnswer DEF Mkdir, Reply
<1>2. CASE ~BelowFile(KeyOf(w))
  <2>1. GoTo(w, "recheck") /\ dirs' = dirs \cup Above[KeyOf(w)]
    BY <1>2 DEF Mkdir
  <2>2. /\ worker' \in [Worker -> WorkerRecord] /\ worker'[w].tmp = worker[w].tmp
        /\ worker'[w].pc = "recheck"
        /\ \A v \in Worker \ {w} : worker'[v] = worker[v]
    BY <1>0, <2>1, GoToMoves DEF Label
  <2>3. \A v \in Worker : WorkerOK(v)' /\ TempOK(v)'
    <3>1. WorkerOK(w)' /\ TempOK(w)'
      BY <1>0, <2>1, GoToMoves DEF WorkerOK, TempOK, Label, Holding
    <3> QED
      BY <1>0, <2>2, <3>1 DEF IInv, WorkerOK, TempOK, KeyOf
  <2>4. \A v, u \in Worker : Holds(v, worker[u].tmp)' => v = u \/ worker'[u].tmp = Absent
    BY <2>2 DEF IInv, Holds
  <2>5. TypeOK'
    BY <1>0, <2>1, <2>2, StorageAssumption DEF TypeOK
  <2>6. TreeOK'
    <3>1. \A k \in Key : IsFile(k)' => k \notin dirs'
      BY <1>0, <1>2, <2>1 DEF IInv, TreeOK, IsFile, BelowFile
    <3>2. \A k \in Key : k \in Above[KeyOf(w)] => Above[k] \subseteq Above[KeyOf(w)]
      BY <1>0, StorageAssumption
    <3>3. \A k \in Key : (IsFile(k) \/ k \in dirs)' => Above[k] \subseteq dirs'
      BY <1>0, <2>1, <3>2 DEF IInv, TreeOK, IsFile
    <3>4. \A t \in Temp : temps'[t] # Absent => Above[temps'[t]] \subseteq dirs'
      BY <1>0, <2>1 DEF IInv, TreeOK
    <3> QED
      BY <3>1, <3>3, <3>4 DEF TreeOK
  <2>7. WholeBlobs'
    BY <1>0 DEF IInv, WholeBlobs, IsFile
  <2> QED
    BY <2>3, <2>4, <2>5, <2>6, <2>7 DEF IInv
<1> QED
  BY <1>1, <1>2

\* A handler that answers and gives up its temporary file, which leaves the
\* files of the others and removes none that is an object.
LEMMA ReleaseStep ==
  ASSUME IInv, NEW w \in Worker, NEW reply \in Reply, Answer(w, reply),
         worker[w].pc \in Holding, temps' = [temps EXCEPT ![worker[w].tmp] = Absent]
  PROVE  /\ worker' \in [Worker -> WorkerRecord] /\ temps' \in [Temp -> Key \cup {Absent}]
         /\ \A v \in Worker : WorkerOK(v)'
         /\ \A v \in Worker : TempOK(v)'
         /\ \A v, u \in Worker : Holds(v, worker[u].tmp)' => v = u \/ worker'[u].tmp = Absent
         /\ \A t \in Temp : temps'[t] # Absent => temps'[t] = temps[t]
<1>0. TypeOK /\ worker[w].tmp \in Temp /\ Absent \notin Temp
  BY HandlerTypes, StorageAssumption DEF IInv
<1>1. WorkerOK(w)' /\ TempOK(w)'
  BY <1>0, AnswerMoves DEF IInv, WorkerOK, TempOK, Holding
<1>2. ASSUME NEW v \in Worker \ {w} PROVE WorkerOK(v)' /\ TempOK(v)'
  <2>1. worker[v].tmp # worker[w].tmp
    BY <1>0 DEF IInv, Holds
  <2> QED
    BY <1>0, <2>1, AnswerMoves, HandlerTypes DEF IInv, WorkerOK, TempOK, TypeOK, KeyOf
<1>3. \A v, u \in Worker : Holds(v, worker[u].tmp)' => v = u \/ worker'[u].tmp = Absent
  BY <1>0, AnswerMoves DEF IInv, Holds
<1>4. /\ temps' \in [Temp -> Key \cup {Absent}]
      /\ \A t \in Temp : temps'[t] # Absent => temps'[t] = temps[t]
  BY <1>0 DEF TypeOK
<1> QED
  BY <1>0, <1>1, <1>2, <1>3, <1>4, AnswerMoves

LEMMA DiscardStep ==
  ASSUME IInv, NEW w \in Worker, Discard(w)
  PROVE  IInv'
<1>0. /\ TypeOK /\ UNCHANGED <<entry, dirs, crashes>> /\ worker[w].pc \in Holding
      /\ temps' = [temps EXCEPT ![worker[w].tmp] = Absent] /\ Answer(w, "refused")
  BY DEF Discard, At, IInv, Holding
<1>1. /\ worker' \in [Worker -> WorkerRecord] /\ temps' \in [Temp -> Key \cup {Absent}]
      /\ \A v \in Worker : WorkerOK(v)'
      /\ \A v \in Worker : TempOK(v)'
      /\ \A v, u \in Worker : Holds(v, worker[u].tmp)' => v = u \/ worker'[u].tmp = Absent
      /\ \A t \in Temp : temps'[t] # Absent => temps'[t] = temps[t]
  BY <1>0, ReleaseStep DEF Reply
<1>2. TypeOK'
  BY <1>0, <1>1 DEF TypeOK
<1>3. TreeOK' /\ WholeBlobs'
  BY <1>0, <1>1 DEF IInv, TreeOK, WholeBlobs, IsFile
<1> QED
  BY <1>1, <1>2, <1>3 DEF IInv

LEMMA RenameStep ==
  ASSUME IInv, NEW w \in Worker, Rename(w)
  PROVE  IInv'
<1> DEFINE k == KeyOf(w)
           f == [blob |-> worker[w].blob, chunks |-> worker[w].chunks]
<1>0. /\ TypeOK /\ WorkerOK(w) /\ UNCHANGED <<dirs, crashes>>
      /\ worker[w].pc = "rename" /\ worker[w].tmp \in Temp /\ k \in Key
      /\ temps[worker[w].tmp] = k
  BY HandlerTypes DEF Rename, At, IInv, WorkerOK, KeyOf, TempOK, Holding
<1>1. Above[k] \subseteq dirs
  BY <1>0, StorageAssumption DEF IInv, TreeOK
<1>2. CASE k \in dirs
  <2>1. GoTo(w, "discard") /\ UNCHANGED <<entry, temps>>
    BY <1>2 DEF Rename
  <2>2. WorkerOK(w)'
    BY <1>0, <2>1, GoToMoves DEF WorkerOK, Holding
  <2> QED
    BY <1>0, <2>1, <2>2, QuietGoTo DEF Holding
<1>3. CASE k \notin dirs
  <2>1. Answer(w, "ok") /\ entry' = [entry EXCEPT ![k] = f]
        /\ temps' = [temps EXCEPT ![worker[w].tmp] = Absent]
    BY <1>3 DEF Rename
  <2>2. f.blob \in NonEmpty /\ f.chunks = Size[f.blob] /\ f \in Content
    BY <1>0, HandlerTypes DEF WorkerOK, Content, Holding
  <2> HIDE DEF f
  <2>3. /\ worker' \in [Worker -> WorkerRecord] /\ temps' \in [Temp -> Key \cup {Absent}]
        /\ \A v \in Worker : WorkerOK(v)'
        /\ \A v \in Worker : TempOK(v)'
        /\ \A v, u \in Worker : Holds(v, worker[u].tmp)' => v = u \/ worker'[u].tmp = Absent
        /\ \A t \in Temp : temps'[t] # Absent => temps'[t] = temps[t]
    BY <1>0, <2>1, ReleaseStep DEF Reply, Holding
  <2>4. TypeOK'
    BY <1>0, <2>1, <2>2, <2>3 DEF TypeOK
  <2>5. WholeBlobs'
    BY <1>0, <2>1, <2>2 DEF IInv, TypeOK, WholeBlobs, IsFile
  <2>6. TreeOK'
    BY <1>0, <1>1, <1>3, <2>1, <2>3 DEF IInv, TypeOK, TreeOK, IsFile
  <2> QED
    BY <2>3, <2>4, <2>5, <2>6 DEF IInv
<1> QED
  BY <1>2, <1>3

LEMMA RemoveStep ==
  ASSUME IInv, NEW w \in Worker, Remove(w)
  PROVE  IInv'
<1> DEFINE k == KeyOf(w)
<1>0. /\ TypeOK /\ WorkerOK(w) /\ UNCHANGED <<temps, crashes>>
      /\ worker[w].pc = "remove" /\ k \in Key
  BY DEF Remove, At, IInv, WorkerOK, KeyOf
<1>1. ASSUME Answer(w, "ok")
      PROVE  /\ worker' \in [Worker -> WorkerRecord]
             /\ \A v \in Worker : WorkerOK(v)' /\ TempOK(v)'
             /\ \A v, u \in Worker : Holds(v, worker[u].tmp)' => v = u \/ worker'[u].tmp = Absent
  <2>1. WorkerOK(w)' /\ TempOK(w)'
    BY <1>0, <1>1, AnswerMoves DEF WorkerOK, TempOK, Reply, Holding
  <2>2. ASSUME NEW v \in Worker \ {w} PROVE WorkerOK(v)' /\ TempOK(v)'
    BY <1>0, <1>1, AnswerMoves DEF IInv, WorkerOK, TempOK, KeyOf, Reply
  <2>3. \A v, u \in Worker : Holds(v, worker[u].tmp)' => v = u \/ worker'[u].tmp = Absent
    BY <1>0, <1>1, AnswerMoves DEF IInv, Holds, Reply
  <2> QED
    BY <1>0, <1>1, <2>1, <2>2, <2>3, AnswerMoves DEF Reply
<1>2. CASE IsFile(k) /\ entry' = [entry EXCEPT ![k] = NoFile] /\ Answer(w, "ok")
           /\ UNCHANGED dirs
  <2>1. TypeOK' /\ WholeBlobs'
    BY <1>0, <1>1, <1>2 DEF IInv, TypeOK, WholeBlobs, IsFile
  <2>2. TreeOK'
    BY <1>0, <1>1, <1>2 DEF IInv, TypeOK, TreeOK, IsFile
  <2> QED
    BY <1>1, <1>2, <2>1, <2>2 DEF IInv
<1>3. CASE k \in dirs /\ EmptyDir(k) /\ dirs' = dirs \ {k} /\ Answer(w, "ok")
           /\ UNCHANGED entry
  <2>1. TypeOK' /\ WholeBlobs'
    BY <1>0, <1>1, <1>3 DEF IInv, TypeOK, WholeBlobs, IsFile
  <2>2. \A j \in Key : IsFile(j) \/ j \in dirs => k \notin Above[j]
    BY <1>3 DEF EmptyDir
  <2>3. \A t \in Temp : temps[t] # Absent => k \notin Above[temps[t]]
    BY <1>3 DEF EmptyDir
  <2>4. TreeOK'
    BY <1>0, <1>3, <2>2, <2>3 DEF IInv, TreeOK, IsFile
  <2> QED
    BY <1>1, <1>3, <2>1, <2>4 DEF IInv
<1>4. CASE Answer(w, "refused") /\ UNCHANGED <<entry, dirs>>
  BY <1>0, <1>4, QuietAnswer DEF Reply
<1> QED
  BY <1>2, <1>3, <1>4 DEF Remove

LEMMA CrashStep ==
  ASSUME IInv, Crash
  PROVE  IInv'
<1>1. TypeOK'
  BY DEF Crash, IInv, TypeOK, WorkerRecord, Idle, Label, Reply
<1>2. \A w \in Worker : WorkerOK(w)' /\ TempOK(w)' /\ worker'[w].tmp = Absent
  BY DEF Crash, WorkerOK, TempOK, Idle, Holding
<1>3. TreeOK' /\ WholeBlobs'
  BY DEF Crash, IInv, TypeOK, TreeOK, WholeBlobs, IsFile
<1> QED
  BY <1>1, <1>2, <1>3 DEF IInv

LEMMA StepIInv == IInv /\ [Next]_vars => IInv'
<1> SUFFICES ASSUME IInv, [Next]_vars PROVE IInv'
  OBVIOUS
<1>1. CASE Crash
  BY <1>1, CrashStep
<1>2. ASSUME NEW w \in Worker, Step(w) PROVE IInv'
  BY <1>2, HandlerStep, CreateTempStep, MkdirStep, DiscardStep, RenameStep, RemoveStep DEF Step
<1>3. CASE UNCHANGED vars
  BY <1>3 DEF vars, IInv, TypeOK, WorkerOK, TempOK, TreeOK, WholeBlobs, IsFile, Holds, KeyOf
<1> QED
  BY <1>1, <1>2, <1>3 DEF Next

-----------------------------------------------------------------------------
(* The theorems. *)

THEOREM Invariance == Spec => []IInv
BY InitIInv, StepIInv, PTL DEF Spec

\* Every variable keeps its type.
THEOREM TypeCorrect == Spec => []TypeOK
<1>1. IInv => TypeOK
  BY DEF IInv
<1> QED
  BY <1>1, Invariance, PTL

\* Files and directories stay a tree under every interleaving of MkdirAll,
\* Rename and os.Remove.
THEOREM TreeIsKept == Spec => []TreeOK
<1>1. IInv => TreeOK
  BY DEF IInv
<1> QED
  BY <1>1, Invariance, PTL

\* No torn or empty body is ever published under a key.
THEOREM BlobsAreWhole == Spec => []WholeBlobs
<1>1. IInv => WholeBlobs
  BY DEF IInv
<1> QED
  BY <1>1, Invariance, PTL

\* No handler answers before the temporary file it holds is renamed or removed,
\* whichever call failed: only a crash leaves one behind.
THEOREM TempsAreRemoved == Spec => NoLeakedTemps
<1>1. IInv /\ [Next]_vars => [\A t \in Temp : ~Lost(t) /\ Lost(t)' => crashes' > crashes]_vars
  <2> SUFFICES ASSUME IInv, Next, NEW t \in Temp, ~Lost(t), Lost(t)', ~(crashes' > crashes)
               PROVE  FALSE
    OBVIOUS
  <2>1. PICK w \in Worker : Step(w)
    BY DEF Next, Crash, IInv, TypeOK
  <2>2. CASE temps[t] = Absent
    <3>1. CreateTemp(w)
      BY <2>1, <2>2 DEF Lost, Step, Begin, Resolve, Mkdir, CopyChunk, CopyFails, CopyEnds, Rename,
         Discard, Open, Stat, Remove, Finish, IInv, TypeOK
    <3>2. worker' = [worker EXCEPT ![w] = [worker[w] EXCEPT !.pc = "copy", !.tmp = t]]
      BY <2>2, <3>1 DEF CreateTemp, Lost, IInv, TypeOK
    <3>3. worker'[w].tmp = t
      BY <3>2 DEF IInv, TypeOK, WorkerRecord
    <3> QED
      BY <3>3 DEF Lost, Holds
  <2>3. CASE temps[t] # Absent
    <3>1. PICK v \in Worker : Holds(v, t)
      BY <2>3 DEF Lost
    <3>2. worker[v].pc \in Holding /\ t # Absent
      BY <3>1, HandlerTypes, StorageAssumption DEF IInv, Holds
    <3>3. worker'[v].tmp # t
      BY DEF Lost, Holds
    <3>4. v = w
      BY <2>1, <3>1, <3>3 DEF Step, Begin, Resolve, Mkdir, CreateTemp, CopyChunk, CopyFails, CopyEnds,
         Rename, Discard, Open, Stat, Remove, Finish, Answer, GoTo, Holds, IInv, TypeOK
    <3>5. ~(CopyChunk(w) \/ CopyFails(w) \/ CopyEnds(w))
      <4>1. worker'[w] = [worker[w] EXCEPT !.chunks = worker[w].chunks + 1] => worker'[w].tmp = t
        BY <3>1, <3>4, HandlerTypes DEF Holds, IInv
      <4>2. \A label : worker'[w] = [worker[w] EXCEPT !.pc = label] => worker'[w].tmp = t
        BY <3>1, <3>4, HandlerTypes DEF Holds, IInv
      <4> QED
        BY <3>3, <3>4, <4>1, <4>2 DEF CopyChunk, CopyFails, CopyEnds, GoTo, IInv, TypeOK
    <3>6. Rename(w) \/ Discard(w)
      BY <2>1, <3>2, <3>4, <3>5 DEF Step, Begin, Resolve, Mkdir, CreateTemp, Open, Stat, Remove,
         Finish, At, Holding
    <3>7. ~GoTo(w, "discard")
      BY <3>1, <3>2, <3>3, <3>4, GoToMoves DEF Holds, Holding, IInv
    <3>8. temps' = [temps EXCEPT ![t] = Absent]
      BY <3>1, <3>4, <3>6, <3>7 DEF Rename, Discard, Holds
    <3> QED
      BY <3>8 DEF Lost, IInv, TypeOK
  <2> QED
    BY <2>2, <2>3
<1> QED
  BY <1>1, Invariance, PTL DEF Spec, NoLeakedTemps

-----------------------------------------------------------------------------
(* The refinement.  A PUT takes effect at its Rename, a GET at its Open and  *)
(* a DELETE at its Remove, or at its Stat when there was nothing to delete.  *)

\* An answer completes the pending call and leaves the others alone.
LEMMA AnswerIsDone ==
  ASSUME IInv, NEW w \in Worker, NEW reply \in Reply, Answer(w, reply)
  PROVE  Abstract!Done(w, reply)
<1> DEFINE v == [worker[w] EXCEPT !.pc = "done", !.tmp = Absent, !.chunks = 0, !.reply = reply]
<1>1. worker' = [worker EXCEPT ![w] = v]
  BY DEF Answer
<1>2. /\ v.pc = "done" /\ v.op = worker[w].op /\ v.key = worker[w].key
      /\ v.blob = worker[w].blob /\ v.reply = reply
  BY DEF IInv, TypeOK, WorkerRecord
<1> HIDE DEF v
<1>3. CallOf(v) = [state |-> "done", op |-> worker[w].op, key |-> worker[w].key,
                   blob |-> worker[w].blob, reply |-> reply]
  BY <1>2 DEF CallOf, Phase
<1>4. Calls' = [Calls EXCEPT ![w] = CallOf(v)]
  BY <1>1 DEF Calls, IInv, TypeOK
<1>5. /\ Calls[w].op = worker[w].op /\ Calls[w].key = worker[w].key
      /\ Calls[w].blob = worker[w].blob
  BY DEF Calls, CallOf
<1> QED
  BY <1>3, <1>4, <1>5 DEF Abstract!Done

\* A system call in the middle of a request is invisible.
LEMMA GoToIsQuiet ==
  ASSUME IInv, NEW w \in Worker, NEW label, label \notin {"idle", "done"},
         worker[w].pc \notin {"idle", "done"}, GoTo(w, label),
         \/ label \in Label /\ worker[w].pc \in Label
         \/ label \in Holding /\ worker[w].pc \in Holding
  PROVE  Calls' = Calls
<1>1. CallOf(worker[w])' = CallOf(worker[w])
  BY GoToMoves DEF CallOf, Phase, IInv
<1>2. \A v \in Worker : CallOf(worker[v])' = CallOf(worker[v])
  BY <1>1, GoToMoves DEF IInv
<1> QED
  BY <1>2 DEF Calls

LEMMA PendingCall ==
  ASSUME IInv, NEW w \in Worker, worker[w].pc \notin {"idle", "done"}
  PROVE  Abstract!Pending(w, worker[w].op) /\ Calls[w].key = KeyOf(w)
         /\ Calls[w].blob = worker[w].blob /\ KeyOf(w) \in Key
BY DEF Abstract!Pending, Calls, CallOf, Phase, KeyOf, IInv, WorkerOK

\* Any pending call may be refused, as long as no file changes.
LEMMA RefusedCall ==
  ASSUME IInv, NEW w \in Worker, worker[w].pc \notin {"idle", "done"},
         Answer(w, "refused"), UNCHANGED entry
  PROVE  Abstract!Refuse(w)
<1>1. Objects' = Objects
  BY DEF Objects
<1> QED
  BY <1>1, PendingCall, AnswerIsDone DEF Abstract!Refuse, Abstract!Pending, Reply

LEMMA RefinementStep ==
  ASSUME IInv, [Next]_vars
  PROVE  [Abstract!Next]_<<Objects, Calls>>
<1> USE DEF At
<1>1. CASE UNCHANGED vars
  BY <1>1 DEF vars, Objects, Calls
<1>2. CASE Crash
  <2>1. Objects' = Objects
    BY <1>2 DEF Crash, Objects
  <2>2. Calls' = [w \in Worker |-> Abstract!NoCall]
    BY <1>2 DEF Crash, Calls, CallOf, Phase, Idle, Abstract!NoCall
  <2> QED
    BY <2>1, <2>2 DEF Abstract!Crash, Abstract!Next
<1>3. ASSUME NEW w \in Worker, Step(w)
      PROVE  [Abstract!Next]_<<Objects, Calls>>
  <2> DEFINE k == KeyOf(w)
  <2>0. TypeOK /\ WorkerOK(w)
    BY DEF IInv
  <2>1. CASE \E op \in Op, j \in Key, b \in Blob : Begin(w, op, j, b)
    <3> PICK op \in Op, j \in Key, b \in Blob : Begin(w, op, j, b)
      BY <2>1
    <3> DEFINE v == [pc |-> "resolve", op |-> op, key |-> j, blob |-> b, tmp |-> Absent,
                     chunks |-> 0, reply |-> Absent]
               c == [state |-> "pending", op |-> op, key |-> j, blob |-> b, reply |-> Absent]
    <3>1. CallOf(v) = c
      BY DEF CallOf, Phase
    <3>2. worker' = [worker EXCEPT ![w] = v]
      BY DEF Begin
    <3>3. Calls' = [Calls EXCEPT ![w] = c]
      <4> HIDE DEF v
      <4> QED
        BY <2>0, <3>1, <3>2 DEF Calls, TypeOK
    <3>4. Calls[w].state = "idle" /\ Objects' = Objects
      BY DEF Begin, Calls, CallOf, Phase, Objects
    <3>5. Abstract!Invoke(w)
      BY <3>3, <3>4 DEF Abstract!Invoke, Op
    <3> QED
      BY <3>5 DEF Abstract!Next
  <2>2. CASE Finish(w)
    <3>1. worker' = [worker EXCEPT ![w] = Idle] /\ CallOf(Idle) = Abstract!NoCall
      BY <2>2 DEF Finish, CallOf, Phase, Idle, Abstract!NoCall
    <3>2. Calls' = [Calls EXCEPT ![w] = Abstract!NoCall]
      BY <2>0, <3>1 DEF Calls, TypeOK
    <3>3. Calls[w].state = "done" /\ Objects' = Objects
      BY <2>2 DEF Finish, Calls, CallOf, Phase, Objects
    <3> QED
      BY <3>2, <3>3 DEF Abstract!Return, Abstract!Next
  <2>3. CASE Open(w)
    <3>1. Answer(w, Objects[k]) /\ Objects' = Objects /\ Objects[k] \in Reply
      <4>1. k \in Key /\ entry[k] \in Content \cup {NoFile}
        BY <2>0, <2>3 DEF Open, WorkerOK, KeyOf, TypeOK
      <4>2. Meaning(entry[k]) \in Reply
        BY <4>1 DEF Meaning, Reply, Content
      <4> QED
        BY <2>3, <4>1, <4>2 DEF Open, Objects
    <3>2. Abstract!Get(w)
      BY <2>0, <2>3, <3>1, AnswerIsDone, PendingCall DEF Abstract!Get, Open, WorkerOK
    <3> QED
      BY <3>2 DEF Abstract!Next
  <2>4. CASE Rename(w)
    <3>1. CASE k \in dirs
      BY <2>4, <3>1, GoToIsQuiet DEF Rename, Objects, Holding
    <3>2. CASE k \notin dirs
      <4> DEFINE f == [blob |-> worker[w].blob, chunks |-> worker[w].chunks]
      <4>1. entry' = [entry EXCEPT ![k] = f] /\ Answer(w, "ok") /\ k \in Key
        BY <2>0, <2>4, <3>2 DEF Rename, WorkerOK, KeyOf
      <4>2. f # NoFile /\ Meaning(f) = worker[w].blob /\ worker[w].blob \in NonEmpty
        <5>1. worker[w].blob \in Blob /\ worker[w].blob \in NonEmpty
              /\ worker[w].chunks = Size[worker[w].blob]
          BY <2>0, <2>4 DEF Rename, WorkerOK
        <5> QED
          BY <5>1, StorageAssumption DEF Meaning, NoFile
      <4>3. Objects' = [Objects EXCEPT ![k] = worker[w].blob]
        <5> HIDE DEF f
        <5> QED
          BY <2>0, <4>1, <4>2 DEF Objects, TypeOK
      <4>4. Abstract!Put(w)
        BY <2>0, <2>4, <4>1, <4>2, <4>3, AnswerIsDone, PendingCall
           DEF Abstract!Put, Rename, WorkerOK, Holding, Reply
      <4> QED
        BY <4>4 DEF Abstract!Next
    <3> QED
      BY <3>1, <3>2
  <2>5. CASE Remove(w)
    <3>1. CASE Answer(w, "refused") /\ UNCHANGED entry
      BY <2>5, <3>1, RefusedCall DEF Remove, Abstract!Next
    <3>2. CASE Answer(w, "ok") /\ Objects' = [Objects EXCEPT ![k] = Absent]
      <4>1. Abstract!Delete(w)
        BY <2>0, <2>5, <3>2, AnswerIsDone, PendingCall DEF Abstract!Delete, Remove, WorkerOK, Reply
      <4> QED
        BY <4>1 DEF Abstract!Next
    <3>3. k \in Key
      BY <2>0, <2>5 DEF Remove, WorkerOK, KeyOf
    <3>4. ASSUME IsFile(k), entry' = [entry EXCEPT ![k] = NoFile]
          PROVE  Objects' = [Objects EXCEPT ![k] = Absent]
      BY <2>0, <3>3, <3>4 DEF Objects, Meaning, TypeOK
    <3>5. ASSUME k \in dirs, UNCHANGED entry
          PROVE  Objects' = [Objects EXCEPT ![k] = Absent]
      <4>1. entry[k] = NoFile
        BY <3>3, <3>5 DEF IInv, TreeOK, IsFile
      <4> QED
        BY <3>3, <3>5, <4>1 DEF Objects, Meaning
    <3> QED
      BY <2>5, <3>1, <3>2, <3>4, <3>5 DEF Remove
  <2>6. CASE Stat(w)
    <3>1. CASE IsFile(k)
      BY <2>6, <3>1, GoToIsQuiet DEF Stat, Objects, Label
    <3>2. CASE ~IsFile(k) /\ BelowFile(k)
      BY <2>6, <3>2, RefusedCall DEF Stat, Abstract!Next
    <3>3. CASE ~IsFile(k) /\ ~BelowFile(k)
      <4>1. Answer(w, "ok") /\ k \in Key /\ Objects' = Objects /\ Objects[k] = Absent
        BY <2>0, <2>6, <3>3 DEF Stat, WorkerOK, KeyOf, Objects, Meaning, IsFile
      <4>2. Objects' = [Objects EXCEPT ![k] = Absent]
        BY <4>1 DEF Objects
      <4>3. Abstract!Delete(w)
        BY <2>0, <2>6, <4>1, <4>2, AnswerIsDone, PendingCall
           DEF Abstract!Delete, Stat, WorkerOK, Reply
      <4> QED
        BY <4>3 DEF Abstract!Next
    <3> QED
      BY <3>1, <3>2, <3>3
  <2>7. CASE Resolve(w) \/ Mkdir(w) \/ CopyFails(w) \/ CopyEnds(w) \/ Discard(w)
    <3>1. CASE Answer(w, "refused")
      BY <2>7, <3>1, RefusedCall DEF Resolve, Mkdir, CopyFails, CopyEnds, Discard, Abstract!Next
    <3>2. CASE ~Answer(w, "refused")
      <4>1. worker[w].pc \notin {"idle", "done"} /\ Objects' = Objects
        BY <2>7 DEF Resolve, Mkdir, CopyFails, CopyEnds, Discard, Objects
      <4>2. worker[w].op \in Op
        BY <2>0, <4>1 DEF WorkerOK
      <4>3. PICK label : /\ label \notin {"idle", "done"} /\ GoTo(w, label)
                         /\ \/ label \in Label /\ worker[w].pc \in Label
                            \/ label \in Holding /\ worker[w].pc \in Holding
        BY <2>7, <3>2, <4>2
           DEF Resolve, Mkdir, CopyFails, CopyEnds, Discard, FirstCall, Op, Label, Holding
      <4> QED
        BY <4>1, <4>3, GoToIsQuiet
    <3> QED
      BY <3>1, <3>2
  <2>9. CASE CreateTemp(w)
    <3>1. CASE Answer(w, "refused")
      BY <2>9, <3>1, RefusedCall DEF CreateTemp, Abstract!Next
    <3>2. CASE ~Answer(w, "refused")
      <4>1. PICK t \in Temp :
              worker' = [worker EXCEPT ![w] = [worker[w] EXCEPT !.pc = "copy", !.tmp = t]]
        BY <2>9, <3>2 DEF CreateTemp
      <4> DEFINE v == [worker[w] EXCEPT !.pc = "copy", !.tmp = t]
      <4>2. /\ v.pc = "copy" /\ v.op = worker[w].op /\ v.key = worker[w].key
            /\ v.blob = worker[w].blob /\ v.reply = worker[w].reply
        BY <2>0 DEF TypeOK, WorkerRecord
      <4>3. worker' = [worker EXCEPT ![w] = v] /\ Objects' = Objects /\ worker[w].pc = "create"
        BY <2>9, <4>1 DEF CreateTemp, Objects
      <4> HIDE DEF v
      <4>4. CallOf(v) = CallOf(worker[w])
        BY <4>2, <4>3 DEF CallOf, Phase
      <4>5. Calls' = Calls
        BY <2>0, <4>3, <4>4 DEF Calls, TypeOK
      <4> QED
        BY <4>3, <4>5
    <3> QED
      BY <3>1, <3>2
  <2>8. CASE CopyChunk(w)
    <3> DEFINE v == [worker[w] EXCEPT !.chunks = worker[w].chunks + 1]
    <3>1. worker' = [worker EXCEPT ![w] = v] /\ Objects' = Objects
      BY <2>8 DEF CopyChunk, Objects
    <3>2. /\ v.pc = worker[w].pc /\ v.op = worker[w].op /\ v.key = worker[w].key
          /\ v.blob = worker[w].blob /\ v.reply = worker[w].reply
      BY <2>0 DEF TypeOK, WorkerRecord
    <3> HIDE DEF v
    <3>3. CallOf(v) = CallOf(worker[w])
      BY <3>2 DEF CallOf, Phase
    <3>4. Calls' = Calls
      BY <2>0, <3>1, <3>3 DEF Calls, TypeOK
    <3> QED
      BY <3>1, <3>4
  <2> QED
    BY <1>3, <2>1, <2>2, <2>3, <2>4, <2>5, <2>6, <2>7, <2>8, <2>9 DEF Step
<1> QED
  BY <1>1, <1>2, <1>3 DEF Next

\* Seen from the API the service is an atomic map from keys to whole blobs.
THEOREM BlobStoreImplemented == Spec => ImplementsBlobStore
<1>1. Init => Abstract!Init
  BY DEF Init, Abstract!Init, Objects, Calls, CallOf, Phase, Idle, Meaning, Abstract!NoCall
<1>2. IInv /\ [Next]_vars => [Abstract!Next]_<<Objects, Calls>>
  BY RefinementStep
<1> QED
  BY <1>1, <1>2, Invariance, PTL DEF Spec, ImplementsBlobStore, Abstract!Spec

=============================================================================
