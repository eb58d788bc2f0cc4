------------------------- MODULE IngestorPoolProofs -------------------------
(***************************************************************************)
(* Theorems about IngestorPool, for any number of captures and probes and  *)
(* any size of the pool.                                                   *)
(***************************************************************************)
EXTENDS IngestorPool, WebhookInspectorProofs

\* Nobody has asked for a connection yet.
LEMMA PoolInitInv == PoolInit => PoolInv
<1> SUFFICES ASSUME PoolInit PROVE PoolInv
  OBVIOUS
<1> USE PoolAssumption DEF PoolInit, Init, CaptureInit
<1>1. QueueTypeOK /\ pc \in [RequestIds -> Steps]
  BY DEF QueueTypeOK, Steps
<1>2. IsFiniteSet(held) /\ Cardinality(held) = 0
  BY FS_EmptySet
<1>3. QueueIsFresh
  BY DEF QueueIsFresh, Queued
<1>4. ConnectionsMatchSessions
  BY <1>2 DEF ConnectionsMatchSessions
<1> QED
  BY <1>1, <1>2, <1>3, <1>4 DEF PoolInv

-----------------------------------------------------------------------------
(* The pool *)

\* A call joins the queue.
LEMMA CheckoutInv ==
    ASSUME PoolInv, NEW u \in Users, Checkout(u)
    PROVE  PoolInv'
<1> USE PoolAssumption DEF PoolInv, QueueTypeOK, Users, Checkout, Unused, vars, captureVars
<1>1. waiting' \in Seq(Users) /\ probe' \in [Probes -> {"idle", "select", "put", "respond",
                                                    "healthy", "unhealthy"}]
  OBVIOUS
<1>2. QueueIsFresh'
  <2>1. /\ Len(waiting') = Len(waiting) + 1
        /\ \A i \in 1..Len(waiting) : waiting'[i] = waiting[i] /\ waiting[i] # u
        /\ waiting'[Len(waiting) + 1] = u
    BY DEF Queued
  <2>2. Queued' = Queued \cup {u}
    BY <2>1 DEF Queued
  <2>3. \A i, j \in 1..Len(waiting') : waiting'[i] = waiting'[j] => i = j
    BY <2>1 DEF QueueIsFresh
  <2>4. \A v \in Queued' : /\ v \notin held' \cup refused'
                           /\ IF v \in RequestIds THEN pc'[v] = "idle" ELSE probe'[v] = "select"
    <3>1. ASSUME NEW v \in Queued
          PROVE  /\ v \notin held' \cup refused'
                 /\ IF v \in RequestIds THEN pc'[v] = "idle" ELSE probe'[v] = "select"
      <4>1. v # u /\ v \in Users
        BY DEF Queued
      <4> QED
        BY <4>1 DEF QueueIsFresh
    <3>2. IF u \in RequestIds THEN pc'[u] = "idle" ELSE probe'[u] = "select"
      OBVIOUS
    <3> QED
      BY <2>2, <3>1, <3>2
  <2> QED
    BY <2>3, <2>4 DEF QueueIsFresh
<1>3. ConnectionsMatchSessions'
  BY DEF ConnectionsMatchSessions
<1> QED
  BY <1>1, <1>2, <1>3

\* The first in the queue gets a free connection.
LEMMA GrantInv ==
    ASSUME PoolInv, Grant
    PROVE  PoolInv'
<1> USE PoolAssumption DEF PoolInv, QueueTypeOK, Users, Grant, vars, captureVars
<1> DEFINE u == Head(waiting)
<1>1. /\ Len(waiting) \in Nat \ {0} /\ Len(waiting') = Len(waiting) - 1
      /\ u = waiting[1]
      /\ \A i \in 1..Len(waiting') : waiting'[i] = waiting[i + 1]
      /\ waiting' \in Seq(Users)
  OBVIOUS
<1>2. u \in Queued /\ u \in Users /\ Queued' \subseteq Queued \ {u}
  BY <1>1 DEF Queued, QueueIsFresh
<1>3. IsFiniteSet(held') /\ Cardinality(held') = Cardinality(held) + 1
  BY <1>2, FS_AddElement DEF QueueIsFresh
<1>4. Cardinality(held) \in Nat
  BY FS_CardinalityType
<1>5. QueueIsFresh'
  <2>1. \A i, j \in 1..Len(waiting') : waiting'[i] = waiting'[j] => i = j
    BY <1>1 DEF QueueIsFresh
  <2> QED
    BY <1>2, <2>1 DEF QueueIsFresh
<1>6. ConnectionsMatchSessions'
  <2>1. Cardinality(held') <= PoolSize
    BY <1>3, <1>4 DEF Full
  <2> QED
    BY <1>2, <2>1 DEF ConnectionsMatchSessions, QueueIsFresh, Settled
<1> QED
  BY <1>1, <1>2, <1>3, <1>5, <1>6

\* A call gives up: those behind it move up.
LEMMA TimeoutInv ==
    ASSUME PoolInv, NEW i \in 1..Len(waiting), PoolTimeout(i)
    PROVE  PoolInv'
<1> USE PoolAssumption DEF PoolInv, QueueTypeOK, Users, PoolTimeout, Refuse, vars, captureVars
<1> DEFINE u == waiting[i]
<1>1. /\ Len(waiting') = Len(waiting) - 1
      /\ \A j \in 1..Len(waiting') : waiting'[j] = waiting[IF j < i THEN j ELSE j + 1]
      /\ waiting' \in Seq(Users)
  OBVIOUS
<1>2. u \in Queued /\ u \in Users
  BY DEF Queued
<1>3. Queued' \subseteq Queued \ {u}
  BY <1>1 DEF Queued, QueueIsFresh
<1>4. probe' \in [Probes -> {"idle", "select", "put", "respond", "healthy", "unhealthy"}]
  OBVIOUS
<1>5. QueueIsFresh'
  <2>1. \A j, k \in 1..Len(waiting') : waiting'[j] = waiting'[k] => j = k
    BY <1>1 DEF QueueIsFresh
  <2>2. ASSUME NEW v \in Queued'
        PROVE  IF v \in RequestIds THEN pc[v] = "idle" ELSE probe'[v] = "select"
    <3>1. v \in Queued /\ v # u
      BY <1>3
    <3>2. v \in Users
      BY <3>1 DEF Queued
    <3> QED
      BY <3>1, <3>2 DEF QueueIsFresh
  <2> QED
    BY <1>3, <2>1, <2>2 DEF QueueIsFresh
<1>6. ConnectionsMatchSessions'
  BY <1>2 DEF ConnectionsMatchSessions, QueueIsFresh
<1> QED
  BY <1>1, <1>2, <1>4, <1>5, <1>6

-----------------------------------------------------------------------------
(* Those who hold a connection *)

\* A connection that is given back leaves the pool with fewer in use.
LEMMA GiveBack ==
    ASSUME IsFiniteSet(held), Cardinality(held) <= PoolSize, NEW u,
           held' \in {held, held \ {u}}
    PROVE  IsFiniteSet(held') /\ Cardinality(held') <= PoolSize
<1>1. Cardinality(held) \in Nat /\ PoolSize \in Nat
  BY FS_CardinalityType, PoolAssumption
<1> QED
  BY <1>1, FS_RemoveElement

\* A step of a capture starts or goes on with its session, and ends it when settled.
LEMMA CapturingInv ==
    ASSUME PoolInv, NEW r \in RequestIds, Capturing(r)
    PROVE  PoolInv'
<1> USE PoolAssumption DEF PoolInv, QueueTypeOK, Users, Capturing, Returned
<1>1. \E label \in Steps \ {"idle"} : pc' = [pc EXCEPT ![r] = label]
  BY DEF CaptureStep, RejectTooLarge, LookupMisses, LookupFinds, PutBlob, PutBlobFails,
         InsertRequest, IncrementRequestCount, Sleep, Respond, Commit, FailCapture, Goto,
         Steps
<1>2. /\ pc' \in [RequestIds -> Steps] /\ pc'[r] # "idle"
      /\ \A s \in RequestIds \ {r} : pc'[s] = pc[s]
  BY <1>1
<1>3. UNCHANGED <<waiting, refused, probe>>
  BY DEF OnConnection, WithoutConnection, poolVars
<1>4. held' \in {held, held \ {r}} /\ (r \in held' <=> pc'[r] \notin Settled)
  BY <1>2 DEF OnConnection, WithoutConnection, poolVars, Unused, Settled
<1>5. IsFiniteSet(held') /\ Cardinality(held') <= PoolSize
  <2>1. IsFiniteSet(held) /\ Cardinality(held) <= PoolSize
    BY DEF ConnectionsMatchSessions
  <2> HIDE DEF PoolInv
  <2> QED
    BY <1>4, <2>1, GiveBack
<1>6. r \notin Queued
  BY DEF OnConnection, WithoutConnection, Unused, QueueIsFresh
<1>7. QueueIsFresh'
  BY <1>2, <1>3, <1>4, <1>6 DEF QueueIsFresh, Queued
<1>8. ConnectionsMatchSessions'
  BY <1>2, <1>3, <1>4, <1>5 DEF ConnectionsMatchSessions
<1> QED
  BY <1>2, <1>3, <1>4, <1>5, <1>7, <1>8

\* The first statement fails: a capture ends, a probe goes on.
LEMMA FirstFailsInv ==
    ASSUME PoolInv, NEW u \in Users, FirstStatementFails(u)
    PROVE  PoolInv'
<1> USE PoolAssumption DEF PoolInv, QueueTypeOK, Users, FirstStatementFails, Refuse, Returned,
        captureVars
<1>1. held' \in {held, held \ {u}}
  OBVIOUS
<1>2. IsFiniteSet(held') /\ Cardinality(held') <= PoolSize
  <2>1. IsFiniteSet(held) /\ Cardinality(held) <= PoolSize
    BY DEF ConnectionsMatchSessions
  <2> HIDE DEF PoolInv
  <2> QED
    BY <1>1, <2>1, GiveBack
<1>3. probe' \in [Probes -> {"idle", "select", "put", "respond", "healthy", "unhealthy"}]
  OBVIOUS
<1>4. QueueIsFresh'
  BY <1>1 DEF QueueIsFresh, Queued
<1>5. ConnectionsMatchSessions'
  BY <1>1, <1>2 DEF ConnectionsMatchSessions
<1> QED
  BY <1>1, <1>2, <1>3, <1>4, <1>5

\* A probe keeps its connection, if it got one, until it responds.
LEMMA ProbeStepInv ==
    ASSUME PoolInv, NEW p \in Probes, ProbeStep(p)
    PROVE  PoolInv'
<1> USE PoolAssumption DEF PoolInv, QueueTypeOK, Users
<1>1. pc' = pc /\ waiting' = waiting
  BY DEF ProbeStep, ProbeSelect, ProbePut, ProbePutFails, ProbeRespond, vars, captureVars
<1>2. refused' \in {refused, refused \cup {p}} /\ held' \in {held, held \ {p}}
  BY DEF ProbeStep, ProbeSelect, ProbePut, ProbePutFails, ProbeRespond, Returned
<1>3. \E label \in {"put", "respond", "healthy", "unhealthy"} :
         /\ probe' = [probe EXCEPT ![p] = label]
         /\ p \in held' => label \in {"put", "respond"}
  BY DEF ProbeStep, ProbeSelect, ProbePut, ProbePutFails, ProbeRespond, ProbeGoes, Returned
<1>4. IsFiniteSet(held') /\ Cardinality(held') <= PoolSize
  BY <1>2, GiveBack DEF ConnectionsMatchSessions
<1>5. p \notin Queued
  BY DEF ProbeStep, ProbeSelect, ProbePut, ProbePutFails, ProbeRespond, ProbeGoes, QueueIsFresh
<1>6. QueueIsFresh'
  BY <1>1, <1>2, <1>3, <1>5 DEF QueueIsFresh, Queued
<1>7. ConnectionsMatchSessions'
  BY <1>1, <1>2, <1>3, <1>4 DEF ConnectionsMatchSessions
<1> QED
  BY <1>1, <1>2, <1>3, <1>4, <1>6, <1>7

\* Nothing else touches connections or sessions.
LEMMA PoolFrame ==
    ASSUME PoolInv, UNCHANGED <<pc, poolVars>>
    PROVE  PoolInv'
BY DEF PoolInv, QueueTypeOK, QueueIsFresh, Queued, ConnectionsMatchSessions, poolVars

\* Every step keeps the invariant.
LEMMA PoolStepInv == PoolInv /\ [PoolNext]_poolSpecVars => PoolInv'
<1> SUFFICES ASSUME PoolInv, [PoolNext]_poolSpecVars PROVE PoolInv'
  OBVIOUS
<1>1. CASE Others
  <2>1. UNCHANGED <<pc, poolVars>>
    BY <1>1
    DEF Others, captureVars, CleanerStep, StartSweep, LockRow, ForeignKeyViolation,
        DeleteSucceeds, CommitSweep, DeadlockAborts, FailSweep
  <2> QED
    BY <2>1, PoolFrame
<1>2. CASE PoolNext /\ ~ Others
  BY <1>2, CheckoutInv, GrantInv, TimeoutInv, CapturingInv, FirstFailsInv, ProbeStepInv
  DEF PoolNext
<1>3. CASE UNCHANGED poolSpecVars
  BY <1>3, PoolFrame DEF poolSpecVars, vars, captureVars
<1> QED
  BY <1>1, <1>2, <1>3

\* PoolInv holds in every state, whatever fails, times out or waits.
THEOREM PoolInvariance == PoolSpec => []PoolInv
BY PoolInitInv, PoolStepInv, PTL DEF PoolSpec

\* The pool never leaks a connection and is never overdrawn.
THEOREM ConnectionsReturned == PoolSpec => []ConnectionsMatchSessions
<1>1. PoolInv => ConnectionsMatchSessions
  BY DEF PoolInv
<1> QED
  BY <1>1, PoolInvariance, PTL

-----------------------------------------------------------------------------
(* The core under the pool *)

\* A fault that leaves no trace in the core but the count of faults.
LEMMA FaultKeepsIInv ==
    ASSUME IInv, SpendFault,
           UNCHANGED <<clockVars, endpointVars, deleter, requestVars, creationVars,
                       captureVars, cleanerVars>>
    PROVE  IInv'
<1> USE DEF IInv, clockVars, endpointVars, requestVars, creationVars, captureVars, cleanerVars
<1>1. TypeOK'
  BY StoreAssumption
  DEF TypeOK, StoreTypeOK, CreationTypeOK, CaptureTypeOK, CleanerTypeOK, SpendFault
<1>2. LiveWasCommitted' /\ TokenUnique'
  BY DEF LiveWasCommitted, TokenUnique, Uncommitted, Committed
<1>3. LockInv'
  BY DEF LockInv, KeyShareProtects, OneUpdater, CountIsNext, LockedRows, DoomedRows,
         SweepIsSafe, HoldsKeyShare, HoldsNoKeyUpdate, KeyShareHolders, LockedBy, RowsOf,
         Expired, Referenced
<1>4. RowInv'
  BY RowInvFrame
<1> QED
  BY <1>1, <1>2, <1>3, <1>4

\* Seen without the pool, every step is a step of the core or such a fault.
LEMMA PoolStepCore == IInv /\ [PoolNext]_poolSpecVars => IInv'
<1> SUFFICES ASSUME IInv, [PoolNext]_poolSpecVars PROVE IInv'
  OBVIOUS
<1>1. CASE Others
  BY <1>1, TickInv, CreateStepInv, CleanerStepInv DEF Others
<1>2. ASSUME NEW r \in RequestIds, Capturing(r) PROVE IInv'
  BY <1>2, CaptureStepInv DEF Capturing, OnConnection, WithoutConnection
<1>3. ASSUME NEW u \in Users, FirstStatementFails(u) PROVE IInv'
  BY <1>3, FaultKeepsIInv DEF FirstStatementFails
<1>4. ASSUME NEW p \in Probes, ProbePutFails(p) PROVE IInv'
  BY <1>4, FaultKeepsIInv DEF ProbePutFails
<1>5. CASE UNCHANGED vars
  BY <1>5, StutterInv
<1> QED
  BY <1>1, <1>2, <1>3, <1>4, <1>5
  DEF PoolNext, poolSpecVars, Grant, Checkout, PoolTimeout, ProbeStep, ProbeSelect,
      ProbePut, ProbeRespond

\* The core's invariant, and with it every safety property of the core, survives the
\* pool: waiting, timeouts and failed first statements lose nothing.
THEOREM PoolCoreInvariance == PoolSpec => []IInv
<1>1. PoolInit => IInv
  BY InitInv DEF PoolInit
<1> QED
  BY <1>1, PoolStepCore, PTL DEF PoolSpec

\* Every variable keeps to its type.
THEOREM PoolTypeCorrect == PoolSpec => []PoolTypeOK
<1>1. IInv /\ PoolInv => PoolTypeOK
  BY DEF IInv, PoolInv, PoolTypeOK
<1> QED
  BY <1>1, PoolCoreInvariance, PoolInvariance, PTL

\* What the pool adds to the core is waiting and such faults: all else in a step is a
\* step of the core.
LEMMA PoolStepCases ==
    ASSUME [PoolNext]_poolSpecVars
    PROVE  \/ [Next]_vars
           \/ SpendFault /\ UNCHANGED <<clockVars, endpointVars, deleter, requestVars,
                                        creationVars, captureVars, cleanerVars>>
<1>1. CASE Others
  BY <1>1 DEF Others, Next
<1>2. ASSUME NEW r \in RequestIds, Capturing(r)
      PROVE  Next
  BY <1>2 DEF Capturing, OnConnection, WithoutConnection, Next
<1>3. CASE \/ \E u \in Users : FirstStatementFails(u)
           \/ \E p \in Probes : ProbePutFails(p)
  BY <1>3 DEF FirstStatementFails, ProbePutFails
<1>4. CASE \/ Grant
           \/ \E i \in 1..Len(waiting) : PoolTimeout(i)
           \/ \E u \in Users : Checkout(u)
           \/ \E p \in Probes : ProbeSelect(p) \/ ProbePut(p) \/ ProbeRespond(p)
           \/ UNCHANGED poolSpecVars
  BY <1>4 DEF Grant, PoolTimeout, Checkout, ProbeSelect, ProbePut, ProbeRespond, poolSpecVars
<1> QED
  BY <1>1, <1>2, <1>3, <1>4 DEF PoolNext, ProbeStep

\* Also when captures queue for connections and fail for want of one, app, ingestor and
\* cleaner together are atomic inboxes.
THEOREM PoolRefinement == PoolSpec => ImplementsInbox
<1>1. PoolInit => Abs!Init
  BY InitRefines DEF PoolInit
<1>2. ASSUME IInv, [PoolNext]_poolSpecVars
      PROVE  [Abs!Next]_(Abs!inboxVars)
  <2>1. CASE [Next]_vars
    BY <1>2, <2>1, StepRefines
  <2>2. CASE UNCHANGED <<clockVars, endpointVars, requestVars, creationVars>>
    BY <2>2, InboxFrame
    DEF endpointVars, requestVars, creationVars, Committed, RowsOf
  <2> QED
    BY <1>2, <2>1, <2>2, PoolStepCases
<1> QED
  BY PoolCoreInvariance, <1>1, <1>2, PTL DEF PoolSpec, ImplementsInbox, Abs!Spec

\* Nor does a cleaner take an endpoint away from under a capture that waited for its
\* connection.
THEOREM PoolDeletionSafe == PoolSpec => DeletionSparesCaptures
<1> DEFINE Spared == \A e \in live \ live' :
                        Expired(e) /\ RowsOf(e) = {} /\ KeyShareHolders(e) = {}
<1>1. ASSUME IInv, [PoolNext]_poolSpecVars
      PROVE  [Spared]_vars
  <2>1. CASE [Next]_vars
    BY <1>1, <2>1, StepSpares
  <2>2. CASE UNCHANGED endpointVars
    BY <2>2 DEF endpointVars
  <2> QED
    BY <1>1, <2>1, <2>2, PoolStepCases
<1> QED
  BY PoolCoreInvariance, <1>1, PTL DEF PoolSpec, DeletionSparesCaptures
=============================================================================
