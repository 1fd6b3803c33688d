----------------------------- MODULE BlobStore -----------------------------
(***************************************************************************)
(* What storage-service promises: a map from keys to whole blobs.  A call  *)
(* is invoked, takes effect at one instant or is refused without effect,   *)
(* and returns.  A crash loses the calls in flight and nothing else.       *)
(***************************************************************************)
CONSTANTS Worker, Key, Blob,
          NonEmpty,  \* the blobs that have at least one byte
          Absent     \* not a blob

VARIABLES store, call

\* A call that is nobody's.
NoCall == [state |-> "idle", op |-> "none", key |-> Absent, blob |-> Absent,
           reply |-> Absent]

Pending(w, op) == call[w].state = "pending" /\ call[w].op = op

\* The call of w is answered; a reply is "ok", "refused", a blob or Absent.
Done(w, reply) ==
  call' = [call EXCEPT ![w] = [state |-> "done", op |-> call[w].op, key |-> call[w].key,
                               blob |-> call[w].blob, reply |-> reply]]

Invoke(w) ==
  /\ call[w].state = "idle"
  /\ \E op \in {"Put", "Get", "Delete"}, k \in Key, b \in Blob :
       call' = [call EXCEPT ![w] =
                  [state |-> "pending", op |-> op, key |-> k, blob |-> b, reply |-> Absent]]
  /\ UNCHANGED store

\* An empty body is never stored.
Put(w) ==
  /\ Pending(w, "Put") /\ call[w].blob \in NonEmpty
  /\ store' = [store EXCEPT ![call[w].key] = call[w].blob]
  /\ Done(w, "ok")

Get(w) ==
  /\ Pending(w, "Get")
  /\ Done(w, store[call[w].key])
  /\ UNCHANGED store

Delete(w) ==
  /\ Pending(w, "Delete")
  /\ store' = [store EXCEPT ![call[w].key] = Absent]
  /\ Done(w, "ok")

Refuse(w) ==
  /\ call[w].state = "pending"
  /\ Done(w, "refused")
  /\ UNCHANGED store

Return(w) ==
  /\ call[w].state = "done"
  /\ call' = [call EXCEPT ![w] = NoCall]
  /\ UNCHANGED store

Crash ==
  /\ call' = [w \in Worker |-> NoCall]
  /\ UNCHANGED store

Init ==
  /\ store = [k \in Key |-> Absent]
  /\ call = [w \in Worker |-> NoCall]

Next ==
  \/ Crash
  \/ \E w \in Worker : \/ Invoke(w) \/ Put(w) \/ Get(w) \/ Delete(w)
                       \/ Refuse(w) \/ Return(w)

Spec == Init /\ [][Next]_<<store, call>>

=============================================================================
