--------------------------- MODULE RequestCapture ---------------------------
(***************************************************************************)
(* ANY /h/{token}: the route, CaptureRequest.execute, the two repositories *)
(* and get_session.  One action per awaited call, so that captures of the  *)
(* same endpoint, the creation of endpoints and the cleaner interleave     *)
(* between them.  Everything from find_by_token to COMMIT is one Postgres  *)
(* transaction at READ COMMITTED; its row locks are derived from pc:       *)
(*   - the INSERT into requests checks its foreign key and so holds the    *)
(*     endpoint's row FOR KEY SHARE;                                       *)
(*   - the UPDATE of request_count holds it FOR NO KEY UPDATE, which       *)
(*     conflicts with itself and not with FOR KEY SHARE;                   *)
(*   - DELETE needs FOR UPDATE, which conflicts with both.                 *)
(***************************************************************************)
EXTENDS Store

CONSTANTS BodySizes,        \* lengths of the bodies clients send
          InlineThreshold,  \* settings.body_inline_threshold_bytes
          MaxBodyBytes      \* settings.max_body_bytes

ASSUME CaptureAssumption ==
    /\ BodySizes \subseteq Nat
    /\ InlineThreshold \in Nat
    /\ MaxBodyBytes \in Nat

VARIABLES
    pc,         \* the call that capture r awaits next
    new_count,  \* the uncommitted request_count that r's UPDATE has written
    answered    \* captures whose client has received the configured response

captureVars == <<pc, new_count, answered>>

Steps == {"idle", "put", "insert", "update", "delay", "respond", "commit",
          "rejected", "notfound", "done", "failed"}

Settled == {"rejected", "notfound", "done", "failed"}

CaptureTypeOK ==
    /\ pc \in [RequestIds -> Steps]
    /\ new_count \in [RequestIds -> Nat]
    /\ answered \subseteq RequestIds

CaptureInit ==
    /\ pc = [r \in RequestIds |-> "idle"]
    /\ new_count = [r \in RequestIds |-> 0]
    /\ answered = {}

HoldsKeyShare(r) == pc[r] \in {"update", "delay", "respond", "commit"}
HoldsNoKeyUpdate(r) == pc[r] \in {"delay", "respond", "commit"}

\* Captures whose open transaction has inserted a row that refers to e.
KeyShareHolders(e) == {r \in RequestIds : HoldsKeyShare(r) /\ endpoint_id[r] = e}

Goto(r, label) == pc' = [pc EXCEPT ![r] = label]

\* CapturedRequest.create: a body longer than the threshold gets a blob_key.
Offloads(size) == size > InlineThreshold

\* 413, from the content-length header or from the body that was read.
RejectTooLarge(r, size) ==
    /\ pc[r] = "idle"
    /\ size > MaxBodyBytes
    /\ Goto(r, "rejected")
    /\ UNCHANGED <<storeVars, new_count, answered>>

\* find_by_token returns None: 404.
LookupMisses(r, t, size) ==
    /\ pc[r] = "idle"
    /\ size <= MaxBodyBytes
    /\ FindByToken(t) = {}
    /\ Goto(r, "notfound")
    /\ UNCHANGED <<storeVars, new_count, answered>>

\* find_by_token returns endpoint e, expired or not, and CapturedRequest.create
\* fixes received_at and where the body goes.
LookupFinds(r, e, size) ==
    /\ pc[r] = "idle"
    /\ size <= MaxBodyBytes
    /\ e \in live
    /\ endpoint_id' = [endpoint_id EXCEPT ![r] = e]
    /\ received_at' = [received_at EXCEPT ![r] = now]
    /\ body' = [body EXCEPT ![r] = IF Offloads(size) THEN "blob" ELSE "inline"]
    /\ Goto(r, IF Offloads(size) THEN "put" ELSE "insert")
    /\ UNCHANGED <<clockVars, endpointVars, deleter, requests, channel, blobs, faults,
                   new_count, answered>>

PutBlob(r) ==
    /\ pc[r] = "put"
    /\ blobs' = blobs \cup {r}
    /\ Goto(r, "insert")
    /\ UNCHANGED <<clockVars, endpointVars, deleter, requests, endpoint_id, body,
                   received_at, channel, faults, new_count, answered>>

\* A mutant: the except branch logs and keeps the blob_key.
Downgraded_KeepsKey(r) == body

\* The row that is left when the upload failed: no preview and no blob_key.
Downgraded(r) == [body EXCEPT ![r] = "dropped"]

\* put raises; the object may have been stored all the same (a lost answer).
PutBlobFails(r) ==
    /\ pc[r] = "put"
    /\ SpendFault
    /\ blobs' \in {blobs, blobs \cup {r}}
    /\ body' = Downgraded(r)
    /\ Goto(r, "insert")
    /\ UNCHANGED <<clockVars, endpointVars, deleter, requests, endpoint_id,
                   received_at, channel, new_count, answered>>

\* A mutant: the INSERT does not wait for a DELETE of its parent row.
ParentDecided_Unlocked(r) == TRUE

\* The foreign-key check needs FOR KEY SHARE: it waits for an open DELETE.
ParentDecided(r) == deleter[endpoint_id[r]] = None

\* A mutant: save() sends the notification outside the transaction.
Notified_OnInsert(r) == Append(channel, <<endpoint_id[r], r>>)

\* pg_notify inside the transaction: nothing is delivered before COMMIT.
Notified(r) == channel

\* request_repo.save: INSERT (flush) and pg_notify.  If the endpoint was deleted
\* since the lookup, the foreign key fails: IntegrityError, 500 and rollback.
InsertRequest(r) ==
    /\ pc[r] = "insert"
    /\ ParentDecided(r)
    /\ \/ /\ endpoint_id[r] \in live
          /\ Goto(r, "update")
          /\ channel' = Notified(r)
       \/ /\ endpoint_id[r] \notin live
          /\ Goto(r, "failed")
          /\ UNCHANGED channel
    /\ UNCHANGED <<clockVars, endpointVars, deleter, requests, endpoint_id, body,
                   received_at, blobs, faults, new_count, answered>>

\* A mutant: the counter is read and written back without the row's lock.
CounterFree_Unlocked(r) == TRUE

\* No other open transaction has updated the endpoint's row.
CounterFree(r) ==
    \A s \in RequestIds \ {r} :
        ~ (HoldsNoKeyUpdate(s) /\ endpoint_id[s] = endpoint_id[r])

\* A mutant: the counter is decremented.
Incremented_Down(e) == request_count[e] - 1

Incremented(e) == request_count[e] + 1

\* UPDATE ... SET request_count = request_count + 1 waits for the row and reads
\* its latest committed version.  (Then the metrics record the capture.)
IncrementRequestCount(r) ==
    /\ pc[r] = "update"
    /\ CounterFree(r)
    /\ new_count' = [new_count EXCEPT ![r] = Incremented(endpoint_id[r])]
    /\ Goto(r, IF delayed[endpoint_id[r]] THEN "delay" ELSE "respond")
    /\ UNCHANGED <<storeVars, answered>>

\* asyncio.sleep(response_delay_ms) ends; the transaction has stayed open.
Sleep(r) ==
    /\ pc[r] = "delay"
    /\ Goto(r, "respond")
    /\ UNCHANGED <<storeVars, new_count, answered>>

\* The response is sent ...
Respond(r) ==
    /\ pc[r] = "respond"
    /\ answered' = answered \cup {r}
    /\ Goto(r, "commit")
    /\ UNCHANGED <<storeVars, new_count>>

\* ... and then get_session commits row and counter together; COMMIT delivers
\* the transaction's notification.
Commit(r) ==
    /\ pc[r] = "commit"
    /\ requests' = requests \cup {r}
    /\ request_count' = [request_count EXCEPT ![endpoint_id[r]] = new_count[r]]
    /\ channel' = Append(channel, <<endpoint_id[r], r>>)
    /\ Goto(r, "done")
    /\ UNCHANGED <<clockVars, live, token, expires_at, delayed, deleter, endpoint_id,
                   body, received_at, blobs, faults, new_count, answered>>

\* A statement or the COMMIT fails, or the process dies: rollback.
FailCapture(r) ==
    /\ pc[r] \in {"put", "insert", "update", "delay", "respond", "commit"}
    /\ SpendFault
    /\ Goto(r, "failed")
    /\ UNCHANGED <<clockVars, endpointVars, deleter, requestVars,
                   new_count, answered>>

CaptureStep(r) ==
    \/ \E size \in BodySizes :
          \/ RejectTooLarge(r, size)
          \/ \E t \in Tokens : LookupMisses(r, t, size)
          \/ \E e \in EndpointIds : LookupFinds(r, e, size)
    \/ PutBlob(r)
    \/ PutBlobFails(r)
    \/ InsertRequest(r)
    \/ IncrementRequestCount(r)
    \/ Sleep(r)
    \/ Respond(r)
    \/ Commit(r)
    \/ FailCapture(r)
=============================================================================
