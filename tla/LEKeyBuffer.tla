----------------------------- MODULE LEKeyBuffer -----------------------------
(***************************************************************************)
(* What a durable LE key buffer promises the service that calls it, without *)
(* the vector, the loop or the file: a bounded map from key ids to keys,   *)
(* a copy of it that survives a crash, and one call at a time.             *)
(*                                                                         *)
(*   - a load is all or nothing, and is refused exactly when the keys it   *)
(*     adds do not fit next to what is stored, an id that the batch        *)
(*     repeats counted each time;                                          *)
(*   - a call that succeeds has saved the whole map first; a call that     *)
(*     throws has changed the map but may have saved nothing;              *)
(*   - what is saved is the whole map or the empty one, never a part;      *)
(*   - a crash loses the changes not yet saved and, in the middle of a      *)
(*     save, everything.                                                   *)
(***************************************************************************)
EXTENDS LEKeyOps

CONSTANTS KeyIds, Vals, Capacity,
          Batches,      \* the batches a client may load
          None          \* the reply before the first call returns

VARIABLES buf,          \* the map in memory: a function from key ids to keys
          saved,        \* the copy a restart brings back
          pending,      \* a changed map is being saved
          reply         \* what the last call answered

vars == <<buf, saved, pending, reply>>

Maps == UNION {[S -> Vals] : S \in SUBSET KeyIds}
Empty == [id \in {} |-> None]

Answer(kind) == [is |-> kind, ids |-> << >>]

Init == /\ buf \in Maps
        /\ Cardinality(DOMAIN buf) <= Capacity
        /\ saved = buf
        /\ pending = FALSE
        /\ reply = None

Fits(batch) ==
    Cardinality(DOMAIN buf)
      + Cardinality({i \in DOMAIN batch : batch[i].id \notin DOMAIN buf}) <= Capacity

Load(batch) ==
    /\ ~pending
    /\ Fits(batch)
    /\ buf' = Merge(buf, batch)
    /\ pending' = TRUE
    /\ reply' = None
    /\ UNCHANGED saved

Refuse(batch) ==
    /\ ~pending
    /\ ~Fits(batch)
    /\ reply' = Answer("overflow")
    /\ UNCHANGED <<buf, saved, pending>>

Purge(id) ==
    /\ ~pending
    /\ id \in DOMAIN buf
    /\ buf' = [k \in DOMAIN buf \ {id} |-> buf[k]]
    /\ pending' = TRUE
    /\ reply' = None
    /\ UNCHANGED saved

PurgeMissing(id) ==
    /\ ~pending
    /\ id \notin DOMAIN buf
    /\ reply' = Answer("noKeyId")
    /\ UNCHANGED <<buf, saved, pending>>

PurgeAll ==
    /\ ~pending
    /\ buf' = Empty
    /\ pending' = TRUE
    /\ reply' = None
    /\ UNCHANGED saved

QueryId(id) ==
    /\ ~pending
    /\ reply' = Answer(IF id \in DOMAIN buf THEN "present" ELSE "missing")
    /\ UNCHANGED <<buf, saved, pending>>

\* The list names every stored id once, in some order.
QueryAll ==
    /\ ~pending
    /\ \E order \in [1 .. Cardinality(DOMAIN buf) -> DOMAIN buf] :
        /\ \A id \in DOMAIN buf : \E i \in DOMAIN order : order[i] = id
        /\ reply' = [is |-> "list", ids |-> order]
    /\ UNCHANGED <<buf, saved, pending>>

Save ==
    /\ pending
    /\ saved' \in {Empty, buf}
    /\ UNCHANGED <<buf, pending, reply>>

\* The last write and the return of the call are one step of the code.
SaveAndSucceed ==
    /\ pending
    /\ saved' = buf
    /\ pending' = FALSE
    /\ reply' = Answer("ok")
    /\ UNCHANGED buf

Throw ==
    /\ pending
    /\ pending' = FALSE
    /\ reply' = Answer("threw")
    /\ UNCHANGED <<buf, saved>>

Crash ==
    /\ buf' = saved
    /\ pending' = FALSE
    /\ reply' = None
    /\ UNCHANGED saved

Next ==
    \/ \E batch \in Batches : Load(batch) \/ Refuse(batch)
    \/ \E id \in KeyIds : Purge(id) \/ PurgeMissing(id) \/ QueryId(id)
    \/ PurgeAll
    \/ QueryAll
    \/ Save
    \/ SaveAndSucceed
    \/ Throw
    \/ Crash

Spec == Init /\ [][Next]_vars
=============================================================================
