------------------------------- MODULE Store -------------------------------
(***************************************************************************)
(* The state every process of webhook-inspector shares: the two Postgres   *)
(* tables (infrastructure/database/models.py), the NOTIFY channel, the     *)
(* blob store and the clock.  Only COMMITTED rows are in `live' and        *)
(* `requests'; what an open transaction has written is in the state of the *)
(* process that runs it, and shows to others only through row locks.       *)
(***************************************************************************)
EXTENDS Integers, FiniteSets, Sequences

CONSTANTS
    EndpointIds,    \* ids (uuid4) of the endpoints that may ever be created
    RequestIds,     \* ids (uuid4) of the webhooks that may ever be received
    Tokens,         \* slugs and generated tokens
    Cleaners,       \* runs of the cleaner job that may overlap
    None,           \* SQL NULL / Python None
    TtlTicks,       \* settings.endpoint_ttl_days, in ticks of the clock
    MaxTime,        \* bound: the last tick of the clock
    MaxFaults       \* bound: how many failures the environment may cause

ASSUME StoreAssumption ==
    /\ IsFiniteSet(RequestIds)
    /\ None \notin EndpointIds \cup Tokens \cup Cleaners
    /\ TtlTicks \in Nat \ {0}       \* "ttl_days must be positive"
    /\ MaxTime \in Nat
    /\ MaxFaults \in Nat

VARIABLES
    now,            \* datetime.now(UTC)
    live,           \* ids of the committed rows of table endpoints
    token,          \* the columns of an endpoint, by id (fixed by its creator)
    expires_at,
    delayed,        \*   response_delay_ms > 0
    request_count,  \*   the committed value of the counter
    deleter,        \* the cleaner whose open DELETE locks the endpoint's row
    requests,       \* ids of the committed rows of table requests
    endpoint_id,    \* the columns of a request, by id
    body,
    received_at,
    channel,        \* payloads delivered on NOTIFY channel new_request, in order
    blobs,          \* keys present in the blob store (the key holds the request id)
    faults          \* failures the environment has caused so far

clockVars    == <<now>>
endpointVars == <<live, token, expires_at, delayed, request_count>>
requestVars  == <<requests, endpoint_id, body, received_at, channel, blobs>>
storeVars    == <<clockVars, endpointVars, deleter, requestVars, faults>>

\* What a row of table requests says of the body: body_preview is set, blob_key
\* is set, or both are NULL (the upload failed and the body is dropped).
BodyPlaces == {"inline", "blob", "dropped"}

StoreTypeOK ==
    /\ now \in 0..MaxTime
    /\ live \subseteq EndpointIds
    /\ token \in [EndpointIds -> Tokens \cup {None}]
    /\ expires_at \in [EndpointIds -> Nat]
    /\ delayed \in [EndpointIds -> BOOLEAN]
    /\ request_count \in [EndpointIds -> Nat]
    /\ deleter \in [EndpointIds -> Cleaners \cup {None}]
    /\ requests \subseteq RequestIds
    /\ endpoint_id \in [RequestIds -> EndpointIds \cup {None}]
    /\ body \in [RequestIds -> BodyPlaces]
    /\ received_at \in [RequestIds -> Nat]
    /\ channel \in Seq(EndpointIds \X RequestIds)
    /\ blobs \subseteq RequestIds
    /\ faults \in 0..MaxFaults

StoreInit ==
    /\ now = 0
    /\ live = {}
    /\ token = [e \in EndpointIds |-> None]
    /\ expires_at = [e \in EndpointIds |-> 0]
    /\ delayed = [e \in EndpointIds |-> FALSE]
    /\ request_count = [e \in EndpointIds |-> 0]
    /\ deleter = [e \in EndpointIds |-> None]
    /\ requests = {}
    /\ endpoint_id = [r \in RequestIds |-> None]
    /\ body = [r \in RequestIds |-> "inline"]
    /\ received_at = [r \in RequestIds |-> 0]
    /\ channel = << >>
    /\ blobs = {}
    /\ faults = 0

\* SELECT ... WHERE token = :token, on the committed rows.
FindByToken(t) == {e \in live : token[e] = t}

\* SELECT ... FROM requests WHERE endpoint_id = :id, on the committed rows.
RowsOf(e) == {r \in requests : endpoint_id[r] = e}

\* delete_expired's WHERE expires_at < now (strict: an endpoint for which
\* Endpoint.is_expired is already true survives the instant expires_at = now).
Expired(e) == expires_at[e] < now

\* The environment makes one call fail, if it still may.
SpendFault == faults < MaxFaults /\ faults' = faults + 1

Tick ==
    /\ now < MaxTime
    /\ now' = now + 1
    /\ UNCHANGED <<endpointVars, deleter, requestVars, faults>>
=============================================================================
