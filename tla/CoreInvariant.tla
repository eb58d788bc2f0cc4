---------------------------- MODULE CoreInvariant ----------------------------
(***************************************************************************)
(* The inductive invariant of WebhookInspector: who may hold which row     *)
(* lock, what an open transaction knows while it holds one, and what the   *)
(* committed rows satisfy.  TLC checks it, WebhookInspectorProofs proves   *)
(* it and derives the safety properties from it.                           *)
(***************************************************************************)
EXTENDS WebhookInspector

\* Only endpoints whose creator has committed are ever visible.
LiveWasCommitted == live \subseteq Committed

RequestsAreDone == requests = {r \in RequestIds : pc[r] = "done"}

\* The foreign key of a row that is inserted and not yet committed stays valid:
\* its endpoint exists and nobody is deleting it.
KeyShareProtects ==
    \A r \in RequestIds :
        HoldsKeyShare(r) => /\ endpoint_id[r] \in live
                            /\ deleter[endpoint_id[r]] = None

\* One open transaction at most has updated an endpoint's row, and the value it
\* will commit is the successor of the committed one.
OneUpdater ==
    \A r, s \in RequestIds :
        HoldsNoKeyUpdate(r) /\ HoldsNoKeyUpdate(s) /\ endpoint_id[r] = endpoint_id[s]
            => r = s

CountIsNext ==
    \A r \in RequestIds :
        HoldsNoKeyUpdate(r) => new_count[r] = request_count[endpoint_id[r]] + 1

\* A row an open DELETE has locked exists, is expired and belongs to a running job.
LockedRows ==
    \A e \in EndpointIds, k \in Cleaners :
        deleter[e] = k => e \in live /\ Expired(e) /\ sweep[k] # "idle"

DoomedRows ==
    \A k \in Cleaners : \A e \in doomed[k] : stage[e] = "committed" /\ Expired(e)

\* Between the foreign-key check and COMMIT no capture reaches a locked endpoint.
SweepIsSafe ==
    \A k \in Cleaners :
        sweep[k] = "commit" => \A e \in LockedBy(k) : RowsOf(e) = {}

\* The object a blob_key names is stored unless the upload is still under way.
BlobStored ==
    \A r \in RequestIds :
        body[r] = "blob" => r \in blobs \/ pc[r] \in {"put", "failed"}

LockInv == KeyShareProtects /\ OneUpdater /\ CountIsNext
               /\ LockedRows /\ DoomedRows /\ SweepIsSafe

RowInv == RequestsAreDone /\ RowsHaveEndpoint /\ CountMatchesRows /\ BlobStored
              /\ NotifyMatchesCommit

\* The inductive invariant.
IInv == TypeOK /\ LiveWasCommitted /\ TokenUnique /\ LockInv /\ RowInv
=============================================================================
