-------------------------- MODULE WebhookInspector --------------------------
(***************************************************************************)
(* The core of webhook-inspector: processes that create endpoints (app),   *)
(* capture webhooks (ingestor) and delete expired endpoints (cleaner), all *)
(* meeting in one Postgres database and one blob store.                    *)
(***************************************************************************)
EXTENDS EndpointCreation, ExpiryCleaner

vars == <<storeVars, creationVars, captureVars, cleanerVars>>

TypeOK == StoreTypeOK /\ CreationTypeOK /\ CaptureTypeOK /\ CleanerTypeOK

Init == StoreInit /\ CreationInit /\ CaptureInit /\ CleanerInit

Next ==
    \/ Tick /\ UNCHANGED <<creationVars, captureVars, cleanerVars>>
    \/ \E e \in EndpointIds : CreateStep(e) /\ UNCHANGED <<captureVars, cleanerVars>>
    \/ \E r \in RequestIds : CaptureStep(r) /\ UNCHANGED <<creationVars, cleanerVars>>
    \/ \E k \in Cleaners : CleanerStep(k) /\ UNCHANGED creationVars

Spec == Init /\ [][Next]_vars

(***************************************************************************)
(* Fairness.  A running asyncio task or job goes on when it can (weak); a  *)
(* statement that waits for a row lock is queued by Postgres and gets the  *)
(* lock if it is released again and again (strong); time passes and the    *)
(* daily cron fires.  Clients need not send anything, and nothing forces   *)
(* the environment to cause a fault.                                       *)
(***************************************************************************)
Fairness ==
    /\ WF_vars(Tick /\ UNCHANGED <<creationVars, captureVars, cleanerVars>>)
    /\ \A e \in EndpointIds :
          /\ SF_vars(InsertEndpoint(e) /\ UNCHANGED <<captureVars, cleanerVars>>)
          /\ WF_vars((RespondCreated(e) \/ CommitCreate(e))
                        /\ UNCHANGED <<captureVars, cleanerVars>>)
    /\ \A r \in RequestIds :
          /\ SF_vars(InsertRequest(r) /\ UNCHANGED <<creationVars, cleanerVars>>)
          /\ SF_vars(IncrementRequestCount(r) /\ UNCHANGED <<creationVars, cleanerVars>>)
          /\ WF_vars((PutBlob(r) \/ PutBlobFails(r) \/ Sleep(r) \/ Respond(r) \/ Commit(r))
                        /\ UNCHANGED <<creationVars, cleanerVars>>)
    /\ \A k \in Cleaners :
          /\ WF_vars((StartSweep(k) \/ ForeignKeyViolation(k) \/ DeleteSucceeds(k)
                         \/ CommitSweep(k) \/ DeadlockAborts(k))
                        /\ UNCHANGED creationVars)
          /\ SF_vars((\E e \in EndpointIds : LockRow(k, e)) /\ UNCHANGED creationVars)

FairSpec == Spec /\ Fairness

-----------------------------------------------------------------------------
(* Safety *)

\* The counter the app reports for an endpoint is the number of its captures,
\* however many captures update it concurrently and whichever of them fail
\* (increment_request_count in the transaction of the INSERT).
CountMatchesRows ==
    \A e \in EndpointIds : request_count[e] = Cardinality(RowsOf(e))

\* A committed capture always belongs to an endpoint that still exists: a cleaner
\* that started before the capture, or during it, never removes its parent.
RowsHaveEndpoint == \A r \in requests : endpoint_id[r] \in live

\* A committed row that names a blob_key can be read back: the object was stored
\* before the row, and a failed upload leaves no reference to it
\* (the try/except around blob_storage.put).
BlobBeforeRow == \A r \in requests : body[r] = "blob" => r \in blobs

\* Listeners of new_request hear of every committed capture exactly once and of
\* nothing else: no announcement precedes its row or survives a rollback
\* (pg_notify in the transaction of the INSERT).
NotifyMatchesCommit ==
    /\ \A i \in 1..Len(channel) : \E r \in requests : channel[i] = <<endpoint_id[r], r>>
    /\ \A r \in requests : \E i \in 1..Len(channel) : channel[i] = <<endpoint_id[r], r>>
    /\ \A i, j \in 1..Len(channel) : channel[i] = channel[j] => i = j

\* One token never names two endpoints, not even while two creators of the same
\* slug race: find_by_token's scalar_one_or_none cannot see two rows.
TokenUnique ==
    \A e, f \in live \cup Uncommitted : token[e] = token[f] => e = f

\* Deleting an endpoint never takes it away from under a capture: it is expired,
\* has no capture, and no open transaction has inserted one.
DeletionSparesCaptures ==
    [][\A e \in live \ live' : Expired(e) /\ RowsOf(e) = {} /\ KeyShareHolders(e) = {}]_vars

-----------------------------------------------------------------------------
(* Refinement *)

Committed == {e \in EndpointIds : stage[e] = "committed"}

Abs == INSTANCE Inbox WITH
          open   <- live,
          closed <- Committed \ live,
          inbox  <- [e \in EndpointIds |-> RowsOf(e)],
          count  <- request_count,
          feed   <- channel

\* The three services together behave like atomic inboxes.
ImplementsInbox == Abs!Spec

-----------------------------------------------------------------------------
(* Liveness *)

\* Every creation ends, also when it waits for the outcome of another creation
\* of the same slug or for a cleaner that is deleting it.
EveryCreationSettles ==
    \A e \in EndpointIds :
        (stage[e] = "insert") ~> (stage[e] \in {"committed", "conflict", "failed"})

\* An expired endpoint disappears, unless some expired endpoint holds captures
\* (whose foreign key then fails every run of the cleaner).
ExpiredDeletedUnlessBlocked ==
    \A e \in EndpointIds :
        (e \in live /\ Expired(e)) ~>
            (e \notin live \/ \E f \in live : Expired(f) /\ RowsOf(f) # {})

-----------------------------------------------------------------------------
(* What documentation, comments and tests say, and the code does not do *)

\* "test_capture_returns_200_and_persists": a webhook that was answered with the
\* endpoint's response is not rolled back afterwards.
AckedNeverLost == \A r \in answered : pc[r] # "failed"

\* "deletes expired endpoints": every expired endpoint is deleted some day.
ExpiredEventuallyDeleted ==
    \A e \in EndpointIds : (e \in live /\ Expired(e)) ~> (e \notin live)
=============================================================================
