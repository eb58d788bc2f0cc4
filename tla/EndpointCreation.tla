-------------------------- MODULE EndpointCreation --------------------------
(***************************************************************************)
(* POST /api/endpoints: validation, INSERT of the row, the 201 answer and  *)
(* the COMMIT, in that order.  get_session commits in the exit code of a   *)
(* yield dependency, which FastAPI runs after it has sent the response.    *)
(* Endpoint e is created by the one call that drew its uuid4.  Captures    *)
(* are seen here only through the row locks of their open transactions.    *)
(***************************************************************************)
EXTENDS RequestCapture

CONSTANTS ReservedSlugs,    \* slugs validate_slug refuses
          Delays            \* whether response_delay_ms is positive: choices clients make

ASSUME CreationAssumption ==
    /\ ReservedSlugs \subseteq Tokens
    /\ Delays \subseteq BOOLEAN

VARIABLES
    stage,  \* how far the call that creates e has come
    told    \* endpoints whose hook URL a client has received (201)

creationVars == <<stage, told>>

Stages == {"unborn", "rejected", "insert", "inserted", "acked",
           "committed", "conflict", "failed"}

CreationTypeOK ==
    /\ stage \in [EndpointIds -> Stages]
    /\ told \subseteq EndpointIds

CreationInit ==
    /\ stage = [e \in EndpointIds |-> "unborn"]
    /\ told = {}

\* Rows of endpoints that an open transaction has inserted.
Uncommitted == {e \in EndpointIds : stage[e] \in {"inserted", "acked"}}

\* validate_slug raises: 400, nothing is written.
RejectCreate(e, t) ==
    /\ stage[e] = "unborn"
    /\ t \in ReservedSlugs
    /\ stage' = [stage EXCEPT ![e] = "rejected"]
    /\ UNCHANGED <<storeVars, told>>

\* Endpoint.create draws the id and fixes expires_at, before the row is saved.
BeginCreate(e, t, slow) ==
    /\ stage[e] = "unborn"
    /\ t \notin ReservedSlugs
    /\ stage' = [stage EXCEPT ![e] = "insert"]
    /\ token' = [token EXCEPT ![e] = t]
    /\ expires_at' = [expires_at EXCEPT ![e] = now + TtlTicks]
    /\ delayed' = [delayed EXCEPT ![e] = slow]
    /\ UNCHANGED <<clockVars, live, request_count, deleter, requestVars, faults, told>>

\* A mutant: the INSERT looks at committed rows only.
SlugUndecided_CommittedOnly(e) ==
    \E f \in live : token[f] = token[e] /\ deleter[f] # None

\* A mutant: get_session does not roll back, so a failed creator stays open.
SlugUndecided_NoRollback(e) ==
    \E f \in EndpointIds \ {e} :
        token[f] = token[e] /\ stage[f] \in {"inserted", "acked", "failed"}

\* An open transaction is deleting f's row or has updated it (its counter).
RowInDoubt(f) ==
    \/ deleter[f] # None
    \/ \E r \in RequestIds : HoldsNoKeyUpdate(r) /\ endpoint_id[r] = f

\* The unique index on token cannot decide yet: the same token is in a row that
\* another open transaction has inserted, deleted or updated, so the INSERT waits.
SlugUndecided(e) ==
    \/ \E f \in Uncommitted : token[f] = token[e]
    \/ \E f \in FindByToken(token[e]) : RowInDoubt(f)

\* repo.save: flush sends the INSERT; a duplicate raises SlugAlreadyTakenError
\* (409) and the transaction is rolled back.
InsertEndpoint(e) ==
    /\ stage[e] = "insert"
    /\ ~ SlugUndecided(e)
    /\ stage' = [stage EXCEPT ![e] = IF FindByToken(token[e]) = {}
                                     THEN "inserted" ELSE "conflict"]
    /\ UNCHANGED <<storeVars, told>>

\* The route returns and FastAPI sends 201 with the hook URL.
RespondCreated(e) ==
    /\ stage[e] = "inserted"
    /\ stage' = [stage EXCEPT ![e] = "acked"]
    /\ told' = told \cup {e}
    /\ UNCHANGED storeVars

\* get_session resumes after its yield and commits.
CommitCreate(e) ==
    /\ stage[e] = "acked"
    /\ stage' = [stage EXCEPT ![e] = "committed"]
    /\ live' = live \cup {e}
    /\ UNCHANGED <<clockVars, token, expires_at, delayed, request_count, deleter,
                   requestVars, faults, told>>

\* A statement or the COMMIT fails, or the process dies: rollback.
FailCreate(e) ==
    /\ stage[e] \in {"insert", "inserted", "acked"}
    /\ stage' = [stage EXCEPT ![e] = "failed"]
    /\ SpendFault
    /\ UNCHANGED <<clockVars, endpointVars, deleter, requestVars, told>>

CreateStep(e) ==
    \/ \E t \in Tokens : RejectCreate(e, t)
    \/ \E t \in Tokens, slow \in Delays : BeginCreate(e, t, slow)
    \/ InsertEndpoint(e)
    \/ RespondCreated(e)
    \/ CommitCreate(e)
    \/ FailCreate(e)
=============================================================================
