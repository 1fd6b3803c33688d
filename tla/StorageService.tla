--------------------------- MODULE StorageService ---------------------------
(***************************************************************************)
(* storage-service: objects as files below a root directory, one file      *)
(* system call per step.                                                   *)
(*                                                                         *)
(* A PUT streams its body to a temporary file in the directory of the      *)
(* object and renames it into place, or removes it when something failed.  *)
(* Once a file carries a key it is never written again, so a reader that   *)
(* has opened it keeps that content whatever happens to the name; a file   *)
(* is therefore its content here.                                          *)
(* Keys nest ("a" and "a/b"): the ancestors of a key are directories that  *)
(* MkdirAll creates and nobody but a DELETE ever removes.  A key here is    *)
(* one that cleanKey has accepted and that is not the name of a temporary  *)
(* file; nobody else works below the root.                                 *)
(***************************************************************************)
EXTENDS Naturals

CONSTANTS
  Worker,      \* handler goroutines
  Key,         \* cleaned keys
  Above,       \* key -> the keys that name its ancestor directories
  Blob,        \* request bodies
  Size,        \* body -> number of chunks io.Copy moves, 0 for an empty one
  Temp,        \* the ".upload-*" names os.CreateTemp picks from (a bound)
  Absent,      \* no object, no body, no temporary file
  MaxCrashes   \* bound: crashes of the process

ASSUME StorageAssumption ==
  /\ Above \in [Key -> SUBSET Key]
  /\ \A k \in Key : k \notin Above[k] /\ \A a \in Above[k] : Above[a] \subseteq Above[k]
  /\ Size \in [Blob -> Nat]
  /\ Absent \notin Blob \cup Key \cup Temp \cup {"ok", "refused"}
  /\ Blob \cap {"ok", "refused"} = {}
  /\ MaxCrashes \in Nat

VARIABLES
  entry,    \* key -> content of the regular file of that name, or NoFile
  dirs,     \* keys whose path is a directory
  temps,    \* temporary file -> the key in whose directory it is, or Absent
  worker,   \* the handlers in flight
  crashes

vars == <<entry, dirs, temps, worker, crashes>>

-----------------------------------------------------------------------------
(* Files *)

\* The first n chunks of a body.
Content == [blob : Blob, chunks : Nat]
NoFile  == [blob |-> Absent, chunks |-> 0]
IsFile(k) == entry[k] # NoFile

\* What a client makes of a file: the blob, or something it never sent.
Meaning(f) == IF f = NoFile THEN Absent
              ELSE IF f.chunks = Size[f.blob] THEN f.blob ELSE "torn"

NonEmpty == {b \in Blob : Size[b] > 0}

-----------------------------------------------------------------------------
(* Handlers *)

Label   == {"idle", "resolve", "mkdir", "recheck", "create", "open", "stat", "remove", "done"}
Holding == {"copy", "rename", "discard"}
Op    == {"Put", "Get", "Delete"}
Reply == Blob \cup {"ok", "refused", "torn", Absent}

\* Between CreateTemp and the call that gives the file its key or removes it,
\* a handler holds the name of a temporary file.
WorkerRecord ==
       [pc : Label, op : Op \cup {"none"}, key : Key \cup {Absent},
        blob : Blob \cup {Absent}, tmp : {Absent}, chunks : Nat, reply : Reply]
  \cup [pc : Holding, op : {"Put"}, key : Key, blob : Blob, tmp : Temp, chunks : Nat,
        reply : {Absent}]

Idle == [pc |-> "idle", op |-> "none", key |-> Absent, blob |-> Absent, tmp |-> Absent,
         chunks |-> 0, reply |-> Absent]

At(w, label) == worker[w].pc = label
KeyOf(w)     == worker[w].key
BelowFile(k) == \E a \in Above[k] : IsFile(a)
Holds(w, t)  == worker[w].tmp = t

GoTo(w, label)   == worker' = [worker EXCEPT ![w] = [@ EXCEPT !.pc = label]]
Answer(w, reply) == worker' = [worker EXCEPT ![w] =
                                 [@ EXCEPT !.pc = "done", !.tmp = Absent,
                                            !.chunks = 0, !.reply = reply]]

\* The system call that follows Resolve.
FirstCall(op) == CASE op = "Put" -> "mkdir" [] op = "Get" -> "open" [] op = "Delete" -> "stat"

\* A directory in which nothing is left that os.Remove would trip over.
EmptyDir(k) ==
  /\ \A j \in Key : k \in Above[j] => ~IsFile(j) /\ j \notin dirs
  /\ \A t \in Temp : temps[t] # Absent => k \notin Above[temps[t]]

\* A request arrives; its token has passed the guard.
Begin(w, op, k, b) ==
  /\ At(w, "idle")
  /\ worker' = [worker EXCEPT ![w] =
       [pc |-> "resolve", op |-> op, key |-> k, blob |-> b, tmp |-> Absent,
        chunks |-> 0, reply |-> Absent]]
  /\ UNCHANGED <<entry, dirs, temps, crashes>>

\* Every handler resolves its key, a PUT again after MkdirAll: a path that
\* leads through a file is an invalid key.
Resolve(w) ==
  /\ worker[w].pc \in {"resolve", "recheck"}
  /\ IF BelowFile(KeyOf(w)) THEN Answer(w, "refused")
     ELSE GoTo(w, IF At(w, "recheck") THEN "create" ELSE FirstCall(worker[w].op))
  /\ UNCHANGED <<entry, dirs, temps, crashes>>

Finish(w) ==
  /\ At(w, "done")
  /\ worker' = [worker EXCEPT ![w] = Idle]
  /\ UNCHANGED <<entry, dirs, temps, crashes>>

-----------------------------------------------------------------------------
(* PUT /object/{key} *)

\* Mutant: only a file of the key's own name is looked for.
Mkdir_OwnName(w) ==
  /\ At(w, "mkdir")
  /\ IF IsFile(KeyOf(w))
     THEN Answer(w, "refused") /\ UNCHANGED dirs
     ELSE GoTo(w, "recheck") /\ dirs' = dirs \cup Above[KeyOf(w)]
  /\ UNCHANGED <<entry, temps, crashes>>

\* MkdirAll fails on an ancestor that is a file.
Mkdir(w) ==
  /\ At(w, "mkdir")
  /\ IF BelowFile(KeyOf(w))
     THEN Answer(w, "refused") /\ UNCHANGED dirs
     ELSE GoTo(w, "recheck") /\ dirs' = dirs \cup Above[KeyOf(w)]
  /\ UNCHANGED <<entry, temps, crashes>>

\* Mutant: the error of os.CreateTemp is dropped.
CreateTemp_Ignored(w) ==
  /\ At(w, "create")
  /\ GoTo(w, "copy")
  /\ UNCHANGED <<entry, dirs, temps, crashes>>

\* CreateTemp fails if a DELETE has removed the directory meanwhile; else it
\* picks a name that no file has.
CreateTemp(w) ==
  /\ At(w, "create")
  /\ \/ /\ ~(Above[KeyOf(w)] \subseteq dirs)
        /\ Answer(w, "refused")
        /\ UNCHANGED temps
     \/ /\ Above[KeyOf(w)] \subseteq dirs
        /\ \E t \in Temp :
             /\ temps[t] = Absent
             /\ temps' = [temps EXCEPT ![t] = KeyOf(w)]
             /\ worker' = [worker EXCEPT ![w] = [@ EXCEPT !.pc = "copy", !.tmp = t]]
  /\ UNCHANGED <<entry, dirs, crashes>>

CopyChunk(w) ==
  /\ At(w, "copy")
  /\ worker[w].chunks < Size[worker[w].blob]
  /\ worker' = [worker EXCEPT ![w] = [@ EXCEPT !.chunks = worker[w].chunks + 1]]
  /\ UNCHANGED <<entry, dirs, temps, crashes>>

\* Mutant: the error of io.Copy is dropped.
CopyFails_Ignored(w) ==
  /\ At(w, "copy")
  /\ GoTo(w, "rename")
  /\ UNCHANGED <<entry, dirs, temps, crashes>>

\* Mutant: the answer is sent without removing the temporary file.
CopyFails_LeavesTemp(w) ==
  /\ At(w, "copy")
  /\ Answer(w, "refused")
  /\ UNCHANGED <<entry, dirs, temps, crashes>>

\* The client went away or the disk is full.
CopyFails(w) ==
  /\ At(w, "copy")
  /\ GoTo(w, "discard")
  /\ UNCHANGED <<entry, dirs, temps, crashes>>

\* An empty body is refused.
CopyEnds(w) ==
  /\ At(w, "copy")
  /\ worker[w].chunks = Size[worker[w].blob]
  /\ GoTo(w, IF worker[w].chunks = 0 THEN "discard" ELSE "rename")
  /\ UNCHANGED <<entry, dirs, temps, crashes>>

\* A file cannot replace a directory.
Rename(w) ==
  LET k == KeyOf(w) IN
  /\ At(w, "rename")
  /\ \/ /\ k \in dirs
        /\ GoTo(w, "discard")
        /\ UNCHANGED <<entry, temps>>
     \/ /\ k \notin dirs
        /\ entry' = [entry EXCEPT
                        ![k] = [blob |-> worker[w].blob, chunks |-> worker[w].chunks]]
        /\ temps' = [temps EXCEPT ![worker[w].tmp] = Absent]
        /\ Answer(w, "ok")
  /\ UNCHANGED <<dirs, crashes>>

\* Mutant: no return after the removal, so the handler goes on to its 201.
Discard_FallsThrough(w) ==
  /\ At(w, "discard")
  /\ temps' = [temps EXCEPT ![worker[w].tmp] = Absent]
  /\ Answer(w, "ok")
  /\ UNCHANGED <<entry, dirs, crashes>>

\* os.Remove of the temporary file, on each of the three error paths.
Discard(w) ==
  /\ At(w, "discard")
  /\ temps' = [temps EXCEPT ![worker[w].tmp] = Absent]
  /\ Answer(w, "refused")
  /\ UNCHANGED <<entry, dirs, crashes>>

-----------------------------------------------------------------------------
(* GET /object/{key}: what is open is served, to the end. *)

Open(w) ==
  /\ At(w, "open")
  /\ Answer(w, Meaning(entry[KeyOf(w)]))
  /\ UNCHANGED <<entry, dirs, temps, crashes>>

-----------------------------------------------------------------------------
(* DELETE /object/{key}: Stat, then Remove. *)

\* Only a missing name and a directory are answered without an error.
Stat(w) ==
  /\ At(w, "stat")
  /\ IF IsFile(KeyOf(w)) THEN GoTo(w, "remove")
     ELSE Answer(w, IF BelowFile(KeyOf(w)) THEN "refused" ELSE "ok")
  /\ UNCHANGED <<entry, dirs, temps, crashes>>

\* The name may mean something else by now: os.Remove also takes an empty
\* directory, and fails on a missing name or a directory in use.
Remove(w) ==
  LET k == KeyOf(w) IN
  /\ At(w, "remove")
  /\ \/ /\ IsFile(k)
        /\ entry' = [entry EXCEPT ![k] = NoFile]
        /\ Answer(w, "ok")
        /\ UNCHANGED dirs
     \/ /\ k \in dirs /\ EmptyDir(k)
        /\ dirs' = dirs \ {k}
        /\ Answer(w, "ok")
        /\ UNCHANGED entry
     \/ /\ ~IsFile(k) /\ ~(k \in dirs /\ EmptyDir(k))
        /\ Answer(w, "refused")
        /\ UNCHANGED <<entry, dirs>>
  /\ UNCHANGED <<temps, crashes>>

-----------------------------------------------------------------------------
\* The process dies: temporary files stay behind, nothing cleans them up.
Crash ==
  /\ crashes < MaxCrashes
  /\ crashes' = crashes + 1
  /\ worker' = [w \in Worker |-> Idle]
  /\ UNCHANGED <<entry, dirs, temps>>

Init ==
  /\ entry = [k \in Key |-> NoFile]
  /\ dirs = {}
  /\ temps = [t \in Temp |-> Absent]
  /\ worker = [w \in Worker |-> Idle]
  /\ crashes = 0

Step(w) ==
  \/ \E op \in Op, k \in Key, b \in Blob : Begin(w, op, k, b)
  \/ Resolve(w) \/ Mkdir(w) \/ CreateTemp(w) \/ CopyChunk(w) \/ CopyFails(w) \/ CopyEnds(w)
  \/ Rename(w) \/ Discard(w) \/ Open(w) \/ Stat(w) \/ Remove(w) \/ Finish(w)

Next == Crash \/ \E w \in Worker : Step(w)

Spec == Init /\ [][Next]_vars

-----------------------------------------------------------------------------
(* Properties *)

TypeOK ==
  /\ entry \in [Key -> Content \cup {NoFile}]
  /\ dirs \in SUBSET Key
  /\ temps \in [Temp -> Key \cup {Absent}]
  /\ worker \in [Worker -> WorkerRecord]
  /\ crashes \in Nat

\* The directory tree stays one: no path is both a file and a directory, and
\* the ancestors of whatever exists, a pending temporary file included, are
\* directories, although MkdirAll, Rename and os.Remove interleave.
TreeOK ==
  /\ \A k \in Key : IsFile(k) => k \notin dirs
  /\ \A k \in Key : IsFile(k) \/ k \in dirs => Above[k] \subseteq dirs
  /\ \A t \in Temp : temps[t] # Absent => Above[temps[t]] \subseteq dirs

\* Every file that carries a key is a whole, non-empty body.
WholeBlobs ==
  \A k \in Key : IsFile(k) => /\ entry[k].blob \in NonEmpty
                              /\ entry[k].chunks = Size[entry[k].blob]

\* A temporary file that no handler will rename or remove any more.
Lost(t) == temps[t] # Absent /\ \A w \in Worker : ~Holds(w, t)

\* Only a crash leaves temporary files behind: whichever call of a PUT fails,
\* its handler does not answer before the file is gone.
NoLeakedTemps ==
  [][\A t \in Temp : ~Lost(t) /\ Lost(t)' => crashes' > crashes]_vars

\* Seen from the API the service is a map from keys to whole blobs, in which
\* every call takes effect at one instant between its request and its answer.
Objects == [k \in Key |-> Meaning(entry[k])]
Phase(v) == IF v.pc = "idle" THEN "idle" ELSE IF v.pc = "done" THEN "done" ELSE "pending"
CallOf(v) == [state |-> Phase(v), op |-> v.op, key |-> v.key, blob |-> v.blob,
              reply |-> v.reply]
Calls == [w \in Worker |-> CallOf(worker[w])]
Abstract == INSTANCE BlobStore WITH store <- Objects, call <- Calls
ImplementsBlobStore == Abstract!Spec

=============================================================================
