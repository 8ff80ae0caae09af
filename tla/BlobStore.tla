------------------------------ MODULE BlobStore ------------------------------
(***************************************************************************)
(* The blob store: the port of dagr_blob::store over a directory           *)
(* (local.rs) or an S3-compatible bucket (s3.rs).                          *)
(*                                                                         *)
(* A key is the digest of the bytes, so a key stands for its value too and *)
(* an object under a key is good, bad (damaged or overwritten from outside)*)
(* or not there.  A call is performed by the store at one moment and       *)
(* answered at a later one; the bucket may fail to perform it, or perform  *)
(* it and lose the answer, and is then asked again.                        *)
(***************************************************************************)
EXTENDS Naturals, FiniteSets

CONSTANTS Key,       \* content addresses
          Client,    \* who calls: one call at a time each
          Tries,     \* RetryBudget::attempts of the bucket
          MaxFault   \* failures of calls, damage and deaths explored

ASSUME BlobAssumption == Tries \in Nat \ {0} /\ MaxFault \in Nat

VARIABLES backend,   \* "file" or "s3"
          object,    \* what the container holds under each key
          call,      \* the call each client has out
          faults

store == <<backend, object, call, faults>>

State == {"none", "good", "bad"}

NoCall == [op |-> "none", key |-> {}, stage |-> "over", try |-> 0, got |-> "none",
           unread |-> {}, found |-> {}, was |-> {}]

Fails == faults < MaxFault /\ faults' = faults + 1
Fine == UNCHANGED faults

-----------------------------------------------------------------------------
(* What happens under the keys *)

\* The objects become objs and client c's call becomes d; `was' collects, for
\* every call still out, the states its object went through meanwhile, and
\* "nowhere" when it was told that there is no bucket.
Becomes(objs, c, d) ==
    /\ object' = objs
    /\ call' = [e \in Client |->
                  LET now == IF e = c THEN d ELSE call[e]
                  IN [now EXCEPT !.was = @ \cup {objs[k] : k \in now.key}]]

\* Something outside damages or overwrites an object
Damage(k) ==
    /\ object[k] = "good" /\ Fails
    /\ object' = [object EXCEPT ![k] = "bad"]
    /\ call' = [e \in Client |-> IF k \in call[e].key
                                 THEN [call[e] EXCEPT !.was = @ \cup {"bad"}] ELSE call[e]]
    /\ UNCHANGED backend

-----------------------------------------------------------------------------
(* Calls *)

\* keys is the one key the call is about; a listing has none
Asks(c, op, keys) ==
    /\ call' = [call EXCEPT ![c] =
                  [NoCall EXCEPT !.op = op, !.key = keys, !.stage = "asked", !.try = 1,
                                 !.unread = IF op = "list" THEN Key ELSE {},
                                 !.was = {object[k] : k \in keys}]]
    /\ UNCHANGED <<backend, object>>

Ask(c, op, k) == Asks(c, op, {k})

\* The caller takes the result and its call is over
Over(c) == call' = [call EXCEPT ![c] = NoCall] /\ UNCHANGED <<backend, object>>

Answered(c, result) == [call[c] EXCEPT !.stage = "over", !.got = result]
Says(c, op, result) ==
    call[c].op = op /\ call[c].stage = "over" /\ call[c].got = result

Attempts == IF backend = "s3" THEN Tries ELSE 1

\* A retryable failure: the same request again, or the budget is exhausted
AgainOrExhausted(c) ==
    IF call[c].try < Attempts
    THEN [call[c] EXCEPT !.stage = "asked", !.try = @ + 1]
    ELSE Answered(c, "transient")

\* A put replaces whatever is there in one rename (local) or request (bucket)
Perform(c) ==
    LET d == [call[c] EXCEPT !.stage = "performed"]
    IN /\ call[c].stage = "asked" /\ call[c].op # "list" /\ Fine
       /\ \E k \in call[c].key :
            CASE call[c].op = "put"    -> Becomes([object EXCEPT ![k] = "good"], c, d)
              [] call[c].op = "delete" -> Becomes([object EXCEPT ![k] = "none"], c, d)
              [] OTHER                 -> Becomes(object, c, [d EXCEPT !.got = object[k]])
       /\ UNCHANGED backend

\* A listing reads one entry after the other; what it reads may have changed
\* when it ends.  A page is a request of its own, with a budget of its own.
Enumerate(c) ==
    /\ call[c].stage = "asked" /\ call[c].op = "list" /\ Fine
    /\ \E k \in call[c].unread :
         call' = [call EXCEPT
                    ![c].unread = @ \ {k}, ![c].try = 1,
                    ![c].found = IF object[k] = "none" THEN @ ELSE @ \cup {k},
                    ![c].stage = IF call[c].unread = {k} THEN "performed" ELSE @]
    /\ UNCHANGED <<backend, object>>

\* Mutant: a refusal is taken for a missing object
RefusedIsAbsent(c) ==
    /\ call[c].stage = "asked" /\ Fails
    /\ call' = [call EXCEPT ![c] = Answered(c, "absent")]
    /\ UNCHANGED <<backend, object>>

\* 401, 403 and the like (or a local I/O error): not retried, and no evidence
\* that anything is gone
Refused(c) ==
    /\ call[c].stage = "asked" /\ Fails
    /\ call' = [call EXCEPT ![c] = Answered(c, "transient")]
    /\ UNCHANGED <<backend, object>>

\* 408, 429, 5xx or no connection: nothing was done
Busy(c) ==
    /\ call[c].stage = "asked" /\ backend = "s3" /\ Fails
    /\ call' = [call EXCEPT ![c] = AgainOrExhausted(c)]
    /\ UNCHANGED <<backend, object>>

\* It was done, and the answer is lost
Lost(c) ==
    /\ call[c].stage = "performed" /\ call[c].op # "list" /\ backend = "s3" /\ Fails
    /\ call' = [call EXCEPT ![c] = AgainOrExhausted(c)]
    /\ UNCHANGED <<backend, object>>

\* The bucket is said not to exist, which is any other 404: a listing is then
\* empty, whatever its earlier pages held, a delete has nothing to do, and the
\* other calls find nothing, whatever is under the key
NoBucket(c) ==
    /\ call[c].stage = "asked" /\ backend = "s3" /\ Fails
    /\ call' = [call EXCEPT ![c] =
          [Answered(c, IF @.op \in {"list", "delete"} THEN "ok" ELSE "absent") EXCEPT
             !.found = {}, !.was = @ \cup {"nowhere"}]]
    /\ UNCHANGED <<backend, object>>

\* get and head hash the bytes they read; a delete of nothing is a delete
Measured(op, got) ==
    IF op \in {"put", "delete", "list"} THEN "ok"
    ELSE CASE got = "good" -> "ok"
           [] got = "none" -> "absent"
           [] got = "bad"  -> "corrupt"

Answer(c) ==
    /\ call[c].stage = "performed" /\ Fine
    /\ call' = [call EXCEPT ![c] = Answered(c, Measured(call[c].op, call[c].got))]
    /\ UNCHANGED <<backend, object>>

StoreNext ==
    \/ \E c \in Client : \/ Perform(c) \/ Enumerate(c) \/ Refused(c) \/ Busy(c)
                         \/ Lost(c) \/ NoBucket(c) \/ Answer(c)
    \/ \E k \in Key : Damage(k)

StoreInit ==
    /\ backend \in {"file", "s3"} /\ object = [k \in Key |-> "none"]
    /\ call = [c \in Client |-> NoCall] /\ faults = 0
=============================================================================
