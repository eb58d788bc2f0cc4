---------------------------- MODULE IngestorPool ----------------------------
(***************************************************************************)
(* The core with one ingestor process whose captures and health probes     *)
(* share the engine's connection pool.  A session checks a connection out  *)
(* at its first statement and gives it back at commit or rollback, so a    *)
(* capture keeps it through its upload, its waits for row locks and the    *)
(* response delay, and a probe keeps it through its trial upload.          *)
(***************************************************************************)
EXTENDS WebhookInspector

CONSTANTS
    Probes,     \* calls of GET /health
    PoolSize    \* connections of the pool (SQLAlchemy's default allows 15)

ASSUME PoolAssumption ==
    /\ PoolSize \in Nat \ {0}
    /\ Probes \cap RequestIds = {}

VARIABLES
    waiting,    \* calls that wait for a connection, in the order they came
    held,       \* calls that hold one
    refused,    \* calls that failed without a trace in the core: a capture whose first
                \*   statement failed or waited too long, a probe with any error
    probe       \* where each probe is

poolVars == <<waiting, held, refused, probe>>
poolSpecVars == <<vars, poolVars>>

Users == RequestIds \cup Probes

Queued == {waiting[i] : i \in 1..Len(waiting)}

QueueTypeOK ==
    /\ waiting \in Seq(Users)
    /\ held \subseteq Users
    /\ refused \subseteq Users
    /\ probe \in [Probes -> {"idle", "select", "put", "respond", "healthy", "unhealthy"}]

PoolTypeOK == TypeOK /\ QueueTypeOK

PoolInit ==
    /\ Init
    /\ waiting = << >>
    /\ held = {}
    /\ refused = {}
    /\ probe = [p \in Probes |-> "idle"]

Unused(u) == u \notin Queued \cup held \cup refused

\* The first statement of a capture (after its body has been read) or of a probe.
Checkout(u) ==
    /\ Unused(u)
    /\ \/ u \in RequestIds /\ pc[u] = "idle" /\ UNCHANGED probe
       \/ u \in Probes /\ probe[u] = "idle" /\ probe' = [probe EXCEPT ![u] = "select"]
    /\ waiting' = Append(waiting, u)
    /\ UNCHANGED <<vars, held, refused>>

Full == Cardinality(held) >= PoolSize

Grant ==
    /\ waiting # << >>
    /\ ~ Full
    /\ held' = held \cup {Head(waiting)}
    /\ waiting' = Tail(waiting)
    /\ UNCHANGED <<vars, refused, probe>>

\* A capture answers 500; a probe notes the error and goes on to the blob store.
Refuse(u) ==
    /\ refused' = refused \cup {u}
    /\ probe' = IF u \in Probes THEN [probe EXCEPT ![u] = "put"] ELSE probe

\* pool_timeout (30 s) is over for the i-th call in the queue, and the pool is full.
PoolTimeout(i) ==
    /\ Full
    /\ waiting' = [j \in 1..Len(waiting) - 1 |-> waiting[IF j < i THEN j ELSE j + 1]]
    /\ Refuse(waiting[i])
    /\ UNCHANGED <<vars, held>>

\* A mutant: nobody closes the session.
Returned_Never(u) == held

\* A mutant: the session is closed only when the call succeeds.
Returned_OnSuccess(u) ==
    IF u \in RequestIds /\ pc'[u] # "done" THEN held ELSE held \ {u}

\* async with factory() as s: the connection is given back on every way out.
Returned(u) == held \ {u}

\* find_by_token or SELECT 1 fails.  The exception ends the session of a capture;
\* a probe catches it and keeps its session.
FirstStatementFails(u) ==
    /\ u \in held
    /\ IF u \in RequestIds THEN pc[u] = "idle" ELSE probe[u] = "select"
    /\ SpendFault
    /\ UNCHANGED <<clockVars, endpointVars, deleter, requestVars,
                   creationVars, captureVars, cleanerVars, waiting>>
    /\ Refuse(u)
    /\ held' = IF u \in RequestIds THEN Returned(u) ELSE held

\* A step of a capture that holds a connection, and gives it back when it ends.
OnConnection(r) ==
    /\ r \in held
    /\ pc'[r] # "rejected"
    /\ held' = IF pc'[r] \in Settled THEN Returned(r) ELSE held
    /\ UNCHANGED <<creationVars, cleanerVars, waiting, refused, probe>>

\* 413 is decided before the session is used.
WithoutConnection(r) ==
    /\ Unused(r)
    /\ pc'[r] = "rejected"
    /\ UNCHANGED <<creationVars, cleanerVars, poolVars>>

Capturing(r) == CaptureStep(r) /\ (OnConnection(r) \/ WithoutConnection(r))

ProbeGoes(p, from, to) ==
    /\ probe[p] = from
    /\ probe' = [probe EXCEPT ![p] = to]

\* SELECT 1.
ProbeSelect(p) ==
    /\ p \in held
    /\ ProbeGoes(p, "select", "put")
    /\ UNCHANGED <<vars, waiting, held, refused>>

\* storage.put of a probe object; the connection is kept meanwhile.
ProbePut(p) ==
    /\ ProbeGoes(p, "put", "respond")
    /\ UNCHANGED <<vars, waiting, held, refused>>

ProbePutFails(p) ==
    /\ ProbeGoes(p, "put", "respond")
    /\ SpendFault
    /\ refused' = refused \cup {p}
    /\ UNCHANGED <<clockVars, endpointVars, deleter, requestVars,
                   creationVars, captureVars, cleanerVars, waiting, held>>

\* 200 or 503, and get_session ends the session.
ProbeRespond(p) ==
    /\ ProbeGoes(p, "respond", IF p \in refused THEN "unhealthy" ELSE "healthy")
    /\ held' = Returned(p)
    /\ UNCHANGED <<vars, waiting, refused>>

ProbeStep(p) == ProbeSelect(p) \/ ProbePut(p) \/ ProbePutFails(p) \/ ProbeRespond(p)

Others ==
    \/ Tick /\ UNCHANGED <<creationVars, captureVars, cleanerVars, poolVars>>
    \/ \E e \in EndpointIds : CreateStep(e) /\ UNCHANGED <<captureVars, cleanerVars, poolVars>>
    \/ \E k \in Cleaners : CleanerStep(k) /\ UNCHANGED <<creationVars, poolVars>>

PoolNext ==
    \/ Others
    \/ Grant
    \/ \E i \in 1..Len(waiting) : PoolTimeout(i)
    \/ \E u \in Users : Checkout(u) \/ FirstStatementFails(u)
    \/ \E r \in RequestIds : Capturing(r)
    \/ \E p \in Probes : ProbeStep(p)

PoolSpec == PoolInit /\ [][PoolNext]_poolSpecVars

(***************************************************************************)
(* Fairness: that of the core for the ingestor and the cleaner, under the  *)
(* pool.  A freed connection goes to the first in the queue (weak is       *)
(* enough), a row lock to each who waits for it in turn (strong), and      *)
(* nobody has to wait for the pool's timeout.                              *)
(***************************************************************************)
CaptureGoesOn(r) ==
    /\ \/ \E size \in BodySizes :
              \/ \E t \in Tokens : LookupMisses(r, t, size)
              \/ \E e \in EndpointIds : LookupFinds(r, e, size)
       \/ PutBlob(r)
       \/ InsertRequest(r)
       \/ IncrementRequestCount(r)
       \/ Sleep(r)
       \/ Respond(r)
       \/ Commit(r)
    /\ OnConnection(r)

SweepGoesOn(k) ==
    /\ \/ \E e \in EndpointIds : LockRow(k, e)
       \/ ForeignKeyViolation(k)
       \/ DeleteSucceeds(k)
       \/ CommitSweep(k)
       \/ DeadlockAborts(k)
    /\ UNCHANGED <<creationVars, poolVars>>

PoolFairness ==
    /\ WF_poolSpecVars(Grant)
    /\ \A r \in RequestIds : SF_poolSpecVars(CaptureGoesOn(r))
    /\ \A p \in Probes : WF_poolSpecVars(ProbeStep(p))
    /\ \A k \in Cleaners : SF_poolSpecVars(SweepGoesOn(k))

FairPoolSpec == PoolSpec /\ PoolFairness

-----------------------------------------------------------------------------
\* The pool never leaks and is never overdrawn: a capture holds a connection from
\* its lookup until it is settled, on every path, and an ended probe holds none.
ConnectionsMatchSessions ==
    /\ Cardinality(held) <= PoolSize
    /\ \A r \in RequestIds :
          IF pc[r] = "idle" THEN r \in held => r \notin refused
          ELSE r \in held <=> pc[r] \notin Settled
    /\ \A p \in Probes : p \in held => probe[p] \in {"select", "put", "respond"}

\* Every call that asks for a connection ends: the pool cannot lock up, because those
\* who hold a connection (and may wait for each other's row locks or the cleaner's, or
\* sleep) never need what those who wait for one have; nobody depends on the pool's
\* timeout.
EveryCallEnds ==
    /\ \A r \in RequestIds : (r \in Queued) ~> (r \in refused \/ pc[r] \in Settled)
    /\ \A p \in Probes : (p \in Queued) ~> (probe[p] \in {"healthy", "unhealthy"})

-----------------------------------------------------------------------------
(* Why connections match sessions: an inductive invariant *)

\* A call waits once, before its first statement and before it has failed.
QueueIsFresh ==
    /\ \A i, j \in 1..Len(waiting) : waiting[i] = waiting[j] => i = j
    /\ \A u \in Queued :
          /\ u \notin held \cup refused
          /\ IF u \in RequestIds THEN pc[u] = "idle" ELSE probe[u] = "select"

\* From its place in the queue to the end of its session a call is in one place only.
PoolInv ==
    /\ QueueTypeOK
    /\ pc \in [RequestIds -> Steps]
    /\ IsFiniteSet(held)
    /\ QueueIsFresh
    /\ ConnectionsMatchSessions
=============================================================================
