----------------------- MODULE WebhookInspectorProofs -----------------------
(***************************************************************************)
(* Theorems about WebhookInspector, for any sets of endpoints, requests,   *)
(* tokens and cleaners (requests finite), any TTL and any bounds.          *)
(***************************************************************************)
EXTENDS CoreInvariant, FiniteSetTheorems, TLAPS

-----------------------------------------------------------------------------
(* The invariant holds initially *)

\* Nothing exists at the start: no row, no lock, no announcement.
LEMMA InitInv == Init => IInv
<1> SUFFICES ASSUME Init PROVE IInv
  OBVIOUS
<1> USE DEF Init, StoreInit, CreationInit, CaptureInit, CleanerInit
<1>1. TypeOK
  BY StoreAssumption
  DEF TypeOK, StoreTypeOK, CreationTypeOK, CaptureTypeOK, CleanerTypeOK, Stages,
      Steps, BodyPlaces
<1>2. LiveWasCommitted /\ TokenUnique
  BY DEF LiveWasCommitted, TokenUnique, Uncommitted
<1>3. LockInv
  BY StoreAssumption
  DEF LockInv, KeyShareProtects, OneUpdater, CountIsNext, LockedRows, DoomedRows,
      SweepIsSafe, HoldsKeyShare, HoldsNoKeyUpdate
<1>4. RowsHaveEndpoint /\ BlobStored /\ RequestsAreDone
  BY DEF RowsHaveEndpoint, BlobStored, RequestsAreDone
<1>5. CountMatchesRows
  <2>1. \A e \in EndpointIds : RowsOf(e) = {}
    BY DEF RowsOf
  <2> QED
    BY <2>1, FS_EmptySet DEF CountMatchesRows
<1>6. NotifyMatchesCommit
  BY DEF NotifyMatchesCommit
<1> QED
  BY <1>1, <1>2, <1>3, <1>4, <1>5, <1>6 DEF IInv, RowInv

-----------------------------------------------------------------------------
(* Time and the creation of endpoints *)

\* The rows of a request stay what they are when none of its columns changes.
LEMMA RowInvFrame ==
    ASSUME RowInv, live \subseteq live', endpoint_id' = endpoint_id,
           UNCHANGED <<requests, request_count, body, channel, blobs, pc>>
    PROVE  RowInv'
<1>1. \A e : RowsOf(e)' = RowsOf(e)
  BY DEF RowsOf
<1>2. RequestsAreDone' /\ RowsHaveEndpoint' /\ BlobStored'
  BY DEF RowInv, RequestsAreDone, RowsHaveEndpoint, BlobStored
<1>3. CountMatchesRows'
  BY <1>1 DEF RowInv, CountMatchesRows
<1>4. NotifyMatchesCommit'
  BY <1>1 DEF RowInv, NotifyMatchesCommit
<1> QED
  BY <1>2, <1>3, <1>4 DEF RowInv

\* Time only makes more endpoints expired.
LEMMA TickInv ==
    ASSUME IInv, Tick, UNCHANGED <<creationVars, captureVars, cleanerVars>>
    PROVE  IInv'
<1> USE DEF IInv, Tick, creationVars, captureVars, cleanerVars, endpointVars, requestVars
<1>1. TypeOK'
  BY StoreAssumption
  DEF TypeOK, StoreTypeOK, CreationTypeOK, CaptureTypeOK, CleanerTypeOK
<1>2. LiveWasCommitted' /\ TokenUnique'
  BY DEF LiveWasCommitted, Committed, TokenUnique, Uncommitted
<1>3. (KeyShareProtects /\ OneUpdater /\ CountIsNext)'
  BY DEF LockInv, KeyShareProtects, OneUpdater, CountIsNext, HoldsKeyShare,
         HoldsNoKeyUpdate
<1>4. \A e \in EndpointIds : Expired(e) => Expired(e)'
  BY DEF TypeOK, StoreTypeOK, Expired
<1>5. LockedRows' /\ DoomedRows'
  BY <1>4 DEF LockInv, LockedRows, DoomedRows, TypeOK, CleanerTypeOK
<1>6. SweepIsSafe'
  BY DEF LockInv, SweepIsSafe, LockedBy, RowsOf
<1>7. RowInv'
  BY RowInvFrame
<1> QED
  BY <1>1, <1>2, <1>3, <1>5, <1>6, <1>7 DEF LockInv

\* A creation changes no request, and its endpoint stays invisible until COMMIT.
LEMMA CreateStepInv ==
    ASSUME IInv, NEW e \in EndpointIds, CreateStep(e),
           UNCHANGED <<captureVars, cleanerVars>>
    PROVE  IInv'
<1> USE DEF IInv, captureVars, cleanerVars
<1>0. /\ stage[e] # "committed"
      /\ e \notin live
      /\ \A k \in Cleaners : e \notin doomed[k]
      /\ \A f \in EndpointIds : f # e => stage'[f] = stage[f] /\ token'[f] = token[f]
                                         /\ expires_at'[f] = expires_at[f]
      /\ UNCHANGED <<now, request_count, deleter, requestVars>>
      /\ live' \in {live, live \cup {e}}
  BY DEF CreateStep, RejectCreate, BeginCreate, InsertEndpoint, RespondCreated,
         CommitCreate, FailCreate, LiveWasCommitted, Committed, LockInv, DoomedRows,
         TypeOK, StoreTypeOK, CreationTypeOK, storeVars, clockVars, endpointVars
<1>1. TypeOK'
  <2>1. StoreTypeOK'
    <3>1. ASSUME NEW t \in Tokens, NEW slow \in Delays, BeginCreate(e, t, slow)
          PROVE  StoreTypeOK'
      <4> USE <3>1 DEF BeginCreate, TypeOK, StoreTypeOK
      <4>1. token' \in [EndpointIds -> Tokens \cup {None}]
        OBVIOUS
      <4>2. expires_at' \in [EndpointIds -> Nat]
        BY StoreAssumption
      <4>3. delayed' \in [EndpointIds -> BOOLEAN]
        <5>1. slow \in BOOLEAN
          BY CreationAssumption
        <5> QED
          BY <5>1, Zenon
      <4> QED
        BY <1>0, <4>1, <4>2, <4>3 DEF requestVars
    <3>2. ASSUME ~ \E t \in Tokens, slow \in Delays : BeginCreate(e, t, slow)
          PROVE  StoreTypeOK'
      <4> USE <3>2 DEF CreateStep, RejectCreate, InsertEndpoint, RespondCreated,
                       CommitCreate, FailCreate, TypeOK, StoreTypeOK, storeVars,
                       endpointVars
      <4>1. UNCHANGED <<token, expires_at, delayed>>
        OBVIOUS
      <4>2. faults' \in 0..MaxFaults
        BY StoreAssumption DEF SpendFault
      <4> QED
        BY <1>0, <4>1, <4>2 DEF requestVars
    <3> QED
      BY <3>1, <3>2
  <2>2. CreationTypeOK'
    BY DEF CreateStep, RejectCreate, BeginCreate, InsertEndpoint, RespondCreated,
           CommitCreate, FailCreate, TypeOK, CreationTypeOK, Stages
  <2>3. CaptureTypeOK' /\ CleanerTypeOK'
    BY DEF TypeOK, CaptureTypeOK, CleanerTypeOK, captureVars
  <2> QED
    BY <2>1, <2>2, <2>3 DEF TypeOK
<1>2. LiveWasCommitted'
  BY <1>0
  DEF CreateStep, RejectCreate, BeginCreate, InsertEndpoint, RespondCreated,
      CommitCreate, FailCreate, LiveWasCommitted, Committed, TypeOK, StoreTypeOK,
      CreationTypeOK, storeVars, endpointVars
<1>3. TokenUnique'
  <2>1. CASE InsertEndpoint(e)
    <3>1. UNCHANGED <<live, token>>
      BY <2>1 DEF InsertEndpoint, storeVars, endpointVars
    <3>2. CASE FindByToken(token[e]) = {}
      <4>1. \A f \in live \cup Uncommitted : token[f] # token[e]
        BY <2>1, <3>2 DEF InsertEndpoint, SlugUndecided, FindByToken
      <4>2. (live \cup Uncommitted)' \subseteq live \cup Uncommitted \cup {e}
        BY <1>0, <3>1 DEF Uncommitted
      <4> QED
        BY <3>1, <4>1, <4>2 DEF TokenUnique
    <3>3. CASE FindByToken(token[e]) # {}
      <4>1. stage'[e] = "conflict"
        BY <2>1, <3>3 DEF InsertEndpoint, TypeOK, CreationTypeOK
      <4>2. (live \cup Uncommitted)' \subseteq live \cup Uncommitted
        BY <1>0, <3>1, <4>1 DEF Uncommitted
      <4> QED
        BY <3>1, <4>2 DEF TokenUnique
    <3> QED
      BY <3>2, <3>3
  <2>2. CASE ~ InsertEndpoint(e)
    <3>1. /\ (live \cup Uncommitted)' \subseteq live \cup Uncommitted
          /\ token'[e] = token[e] \/ e \notin (live \cup Uncommitted)'
      BY <1>0, <2>2
      DEF CreateStep, RejectCreate, BeginCreate, RespondCreated, CommitCreate,
          FailCreate, Uncommitted, TypeOK, CreationTypeOK, StoreTypeOK, storeVars,
          endpointVars
    <3>2. \A f \in (live \cup Uncommitted)' : token'[f] = token[f]
      BY <1>0, <3>1 DEF TypeOK, StoreTypeOK, Uncommitted
    <3> QED
      BY <3>1, <3>2 DEF TokenUnique
  <2> QED
    BY <2>1, <2>2
<1>4. (KeyShareProtects /\ OneUpdater /\ CountIsNext)'
  BY <1>0 DEF LockInv, KeyShareProtects, OneUpdater, CountIsNext, HoldsKeyShare,
              HoldsNoKeyUpdate, captureVars, requestVars
<1>5. LockedRows' /\ DoomedRows'
  BY <1>0 DEF LockInv, LockedRows, DoomedRows, Expired, TypeOK, CleanerTypeOK
<1>6. SweepIsSafe'
  BY <1>0 DEF LockInv, SweepIsSafe, LockedBy, RowsOf, requestVars
<1>7. RowInv'
  BY <1>0, RowInvFrame DEF requestVars, captureVars
<1> QED
  BY <1>1, <1>2, <1>3, <1>4, <1>5, <1>6, <1>7 DEF LockInv

-----------------------------------------------------------------------------
(* The cleaner *)

\* A cleaner takes row locks only from rows nobody holds, and removes an endpoint
\* only when no row refers to it.
LEMMA CleanerStepInv ==
    ASSUME IInv, NEW k \in Cleaners, CleanerStep(k), UNCHANGED creationVars
    PROVE  IInv'
<1> USE DEF IInv, creationVars
<1>0. UNCHANGED <<now, token, expires_at, delayed, request_count, requestVars, captureVars>>
  BY DEF CleanerStep, StartSweep, LockRow, ForeignKeyViolation, DeleteSucceeds,
         CommitSweep, DeadlockAborts, FailSweep, storeVars, clockVars, endpointVars
<1>1. TypeOK'
  <2>1. StoreTypeOK'
    <3> USE DEF CleanerStep, StartSweep, LockRow, ForeignKeyViolation, DeleteSucceeds,
                CommitSweep, DeadlockAborts, FailSweep, TypeOK, StoreTypeOK, storeVars,
                endpointVars
    <3>1. live' \subseteq EndpointIds
      OBVIOUS
    <3>2. deleter' \in [EndpointIds -> Cleaners \cup {None}]
      BY DEF Rollback, Unlocked
    <3>3. faults' \in 0..MaxFaults
      BY StoreAssumption DEF SpendFault
    <3> QED
      BY <1>0, <3>1, <3>2, <3>3 DEF requestVars
  <2>2. CleanerTypeOK'
    BY DEF CleanerStep, StartSweep, LockRow, ForeignKeyViolation, DeleteSucceeds,
           CommitSweep, DeadlockAborts, FailSweep, Rollback, Selected, TypeOK,
           StoreTypeOK, CleanerTypeOK
  <2>3. CreationTypeOK' /\ CaptureTypeOK'
    BY <1>0 DEF TypeOK, CreationTypeOK, CaptureTypeOK, captureVars
  <2> QED
    BY <2>1, <2>2, <2>3 DEF TypeOK
<1>2. live' \subseteq live
  BY DEF CleanerStep, StartSweep, LockRow, ForeignKeyViolation, DeleteSucceeds,
         CommitSweep, DeadlockAborts, FailSweep, storeVars, endpointVars
<1>3. LiveWasCommitted' /\ TokenUnique'
  BY <1>0, <1>2 DEF LiveWasCommitted, Committed, TokenUnique, Uncommitted
<1>4. (OneUpdater /\ CountIsNext)'
  BY <1>0 DEF LockInv, OneUpdater, CountIsNext, HoldsNoKeyUpdate, captureVars, requestVars
<1>5. \A e : RowsOf(e)' = RowsOf(e)
  BY <1>0 DEF RowsOf, requestVars
<1>6. KeyShareProtects' /\ LockedRows' /\ DoomedRows' /\ SweepIsSafe'
  <2> USE <1>0, <1>5 DEF LockInv, Expired, TypeOK, StoreTypeOK, CleanerTypeOK
  <2>1. CASE StartSweep(k)
    <3> USE <2>1 DEF StartSweep, storeVars, endpointVars
    <3>1. KeyShareProtects' /\ LockedRows'
      BY DEF KeyShareProtects, LockedRows, HoldsKeyShare, captureVars, requestVars
    <3>2. DoomedRows'
      BY DEF DoomedRows, Selected, LiveWasCommitted, Committed
    <3>3. SweepIsSafe'
      BY DEF SweepIsSafe, LockedBy
    <3> QED
      BY <3>1, <3>2, <3>3
  <2>2. ASSUME NEW e \in EndpointIds, LockRow(k, e)
        PROVE  KeyShareProtects' /\ LockedRows' /\ DoomedRows' /\ SweepIsSafe'
    <3> USE <2>2 DEF LockRow, endpointVars
    <3>1. KeyShareProtects'
      BY DEF KeyShareProtects, RowFree, KeyShareHolders, HoldsKeyShare, captureVars,
             requestVars
    <3>2. LockedRows' /\ DoomedRows'
      BY DEF LockedRows, DoomedRows
    <3>3. SweepIsSafe'
      BY StoreAssumption DEF SweepIsSafe, LockedBy
    <3> QED
      BY <3>1, <3>2, <3>3
  <2>3. CASE ForeignKeyViolation(k) \/ DeadlockAborts(k) \/ FailSweep(k)
    <3>1. Rollback(k) /\ live' = live
      BY <2>3 DEF ForeignKeyViolation, DeadlockAborts, FailSweep, endpointVars
    <3>2. KeyShareProtects'
      BY <3>1 DEF Rollback, Unlocked, KeyShareProtects, HoldsKeyShare, captureVars,
                  requestVars
    <3>3. LockedRows' /\ DoomedRows'
      BY <3>1, StoreAssumption DEF Rollback, Unlocked, LockedRows, DoomedRows
    <3>4. SweepIsSafe'
      BY <3>1, StoreAssumption DEF Rollback, Unlocked, SweepIsSafe, LockedBy
    <3> QED
      BY <3>2, <3>3, <3>4
  <2>4. CASE DeleteSucceeds(k)
    <3> USE <2>4 DEF DeleteSucceeds, storeVars, endpointVars
    <3>1. KeyShareProtects' /\ LockedRows' /\ DoomedRows'
      BY DEF KeyShareProtects, LockedRows, DoomedRows, HoldsKeyShare, captureVars,
             requestVars
    <3>2. SweepIsSafe'
      BY DEF SweepIsSafe, LockedBy, Referenced
    <3> QED
      BY <3>1, <3>2
  <2>5. CASE CommitSweep(k)
    <3> USE <2>5 DEF CommitSweep, Rollback, Unlocked, LockedBy
    <3>1. KeyShareProtects'
      BY StoreAssumption DEF KeyShareProtects, HoldsKeyShare, captureVars, requestVars
    <3>2. LockedRows' /\ DoomedRows'
      BY StoreAssumption DEF LockedRows, DoomedRows
    <3>3. SweepIsSafe'
      BY StoreAssumption DEF SweepIsSafe
    <3> QED
      BY <3>1, <3>2, <3>3
  <2> QED
    BY <2>1, <2>2, <2>3, <2>4, <2>5 DEF CleanerStep
<1>7. RowsHaveEndpoint'
  <2>1. CASE CommitSweep(k)
    BY <2>1, <1>0 DEF CommitSweep, RowInv, RowsHaveEndpoint, LockInv, SweepIsSafe,
                      LockedBy, RowsOf, requestVars
  <2>2. CASE ~ CommitSweep(k)
    <3>1. live' = live
      BY <2>2 DEF CleanerStep, StartSweep, LockRow, ForeignKeyViolation,
                  DeleteSucceeds, DeadlockAborts, FailSweep, storeVars, endpointVars
    <3> QED
      BY <3>1, <1>0 DEF RowInv, RowsHaveEndpoint, requestVars
  <2> QED
    BY <2>1, <2>2
<1>8. RowInv'
  <2>1. RequestsAreDone' /\ BlobStored'
    BY <1>0 DEF RowInv, RequestsAreDone, BlobStored, captureVars, requestVars
  <2>2. CountMatchesRows' /\ NotifyMatchesCommit'
    BY <1>0, <1>5 DEF RowInv, CountMatchesRows, NotifyMatchesCommit, requestVars
  <2> QED
    BY <1>7, <2>1, <2>2 DEF RowInv
<1> QED
  BY <1>1, <1>3, <1>4, <1>6, <1>8 DEF LockInv

-----------------------------------------------------------------------------
(* Captures *)

\* What no step of capture r does before COMMIT: publish anything.
LEMMA BeforeCommit ==
    ASSUME IInv, NEW r \in RequestIds, CaptureStep(r), ~ Commit(r)
    PROVE  /\ UNCHANGED <<requests, request_count, channel>>
           /\ pc[r] # "done" /\ pc'[r] # "done"
           /\ \A e \in EndpointIds : RowsOf(e)' = RowsOf(e)
           /\ \A s \in requests : endpoint_id'[s] = endpoint_id[s]
<1> USE DEF IInv, CaptureStep, RejectTooLarge, LookupMisses, LookupFinds, PutBlob,
            PutBlobFails, InsertRequest, IncrementRequestCount, Sleep, Respond,
            FailCapture, Goto, storeVars, endpointVars, requestVars
<1>1. UNCHANGED <<requests, request_count, channel>>
  BY DEF Notified
<1>2. pc[r] # "done" /\ pc'[r] # "done"
  BY DEF TypeOK, CaptureTypeOK
<1>3. r \notin requests
  BY <1>2 DEF RowInv, RequestsAreDone
<1>4. \A s \in RequestIds \ {r} : endpoint_id'[s] = endpoint_id[s]
  BY DEF TypeOK, StoreTypeOK
<1>5. \A s \in requests : endpoint_id'[s] = endpoint_id[s]
  BY <1>3, <1>4 DEF TypeOK, StoreTypeOK
<1>6. \A e \in EndpointIds : RowsOf(e)' = RowsOf(e)
  BY <1>1, <1>5 DEF RowsOf
<1> QED
  BY <1>1, <1>2, <1>5, <1>6

\* COMMIT adds one row to one endpoint, and the counter and the channel follow.
LEMMA CommitEffect ==
    ASSUME IInv, NEW r \in RequestIds, Commit(r)
    PROVE  /\ endpoint_id[r] \in live
           /\ deleter[endpoint_id[r]] = None
           /\ r \notin requests
           /\ requests' = requests \cup {r} /\ endpoint_id' = endpoint_id
           /\ \A e \in EndpointIds :
                 RowsOf(e)' = IF e = endpoint_id[r] THEN RowsOf(e) \cup {r} ELSE RowsOf(e)
           /\ request_count' = [request_count EXCEPT ![endpoint_id[r]] = @ + 1]
           /\ channel' = Append(channel, <<endpoint_id[r], r>>)
<1> USE DEF IInv, Commit
<1>1. endpoint_id[r] \in live /\ deleter[endpoint_id[r]] = None
  BY DEF LockInv, KeyShareProtects, HoldsKeyShare
<1>2. r \notin requests
  BY DEF RowInv, RequestsAreDone
<1>3. request_count' = [request_count EXCEPT ![endpoint_id[r]] = @ + 1]
  BY DEF LockInv, CountIsNext, HoldsNoKeyUpdate
<1>4. \A e \in EndpointIds :
         RowsOf(e)' = IF e = endpoint_id[r] THEN RowsOf(e) \cup {r} ELSE RowsOf(e)
  BY DEF RowsOf
<1> QED
  BY <1>1, <1>2, <1>3, <1>4

\* A capture keeps its locks from the INSERT to the end of its transaction, which
\* is what its foreign key and its counter rest on.
LEMMA CaptureStepInv ==
    ASSUME IInv, NEW r \in RequestIds, CaptureStep(r),
           UNCHANGED <<creationVars, cleanerVars>>
    PROVE  IInv'
<1> USE DEF IInv, creationVars, cleanerVars
<1>0. /\ UNCHANGED <<now, live, token, expires_at, delayed, deleter>>
      /\ \A s \in RequestIds \ {r} :
            /\ pc'[s] = pc[s] /\ new_count'[s] = new_count[s]
            /\ endpoint_id'[s] = endpoint_id[s] /\ body'[s] = body[s]
            /\ s \in blobs' <=> s \in blobs
      /\ endpoint_id'[r] # endpoint_id[r] => pc'[r] \in {"put", "insert"}
      /\ answered' \subseteq RequestIds
  <2> USE DEF CaptureStep, RejectTooLarge, LookupMisses, LookupFinds, PutBlob,
              PutBlobFails, InsertRequest, IncrementRequestCount, Sleep, Respond,
              Commit, FailCapture, Goto, Downgraded, storeVars, clockVars,
              endpointVars, requestVars
  <2>1. UNCHANGED <<now, live, token, expires_at, delayed, deleter>>
    OBVIOUS
  <2>2. \A s \in RequestIds \ {r} : pc'[s] = pc[s] /\ new_count'[s] = new_count[s]
    BY DEF TypeOK, CaptureTypeOK
  <2>3. \A s \in RequestIds \ {r} : endpoint_id'[s] = endpoint_id[s] /\ body'[s] = body[s]
    BY DEF TypeOK, StoreTypeOK
  <2>4. \A s \in RequestIds \ {r} : s \in blobs' <=> s \in blobs
    OBVIOUS
  <2>5. endpoint_id'[r] # endpoint_id[r] => pc'[r] \in {"put", "insert"}
    BY DEF TypeOK, CaptureTypeOK
  <2>6. answered' \subseteq RequestIds
    BY DEF TypeOK, CaptureTypeOK
  <2> QED
    BY <2>1, <2>2, <2>3, <2>4, <2>5, <2>6
<1>1. TypeOK'
  <2>1. requests' \subseteq RequestIds /\ request_count' \in [EndpointIds -> Nat]
            /\ channel' \in Seq(EndpointIds \X RequestIds)
    <3>1. CASE Commit(r)
      <4>1. /\ endpoint_id[r] \in live
            /\ request_count' = [request_count EXCEPT ![endpoint_id[r]] = @ + 1]
            /\ requests' = requests \cup {r}
            /\ channel' = Append(channel, <<endpoint_id[r], r>>)
        BY <3>1, CommitEffect
      <4>2. endpoint_id[r] \in EndpointIds
        BY <4>1 DEF TypeOK, StoreTypeOK
      <4>3. request_count' \in [EndpointIds -> Nat]
        BY <4>1 DEF TypeOK, StoreTypeOK
      <4>4. channel' \in Seq(EndpointIds \X RequestIds)
        BY <4>1, <4>2 DEF TypeOK, StoreTypeOK
      <4> QED
        BY <4>1, <4>3, <4>4 DEF TypeOK, StoreTypeOK
    <3>2. CASE ~ Commit(r)
      BY <3>2, BeforeCommit DEF TypeOK, StoreTypeOK
    <3> QED
      BY <3>1, <3>2
  <2>2. /\ endpoint_id' \in [RequestIds -> EndpointIds \cup {None}]
        /\ received_at' \in [RequestIds -> Nat]
    <3>1. ASSUME NEW e \in EndpointIds, NEW size \in BodySizes, LookupFinds(r, e, size)
          PROVE  /\ endpoint_id' \in [RequestIds -> EndpointIds \cup {None}]
                 /\ received_at' \in [RequestIds -> Nat]
      BY <3>1, StoreAssumption DEF LookupFinds, TypeOK, StoreTypeOK
    <3>2. ASSUME ~ \E e \in EndpointIds, size \in BodySizes : LookupFinds(r, e, size)
          PROVE  UNCHANGED <<endpoint_id, received_at>>
      BY <3>2 DEF CaptureStep, RejectTooLarge, LookupMisses, PutBlob, PutBlobFails,
         InsertRequest, IncrementRequestCount, Sleep, Respond, Commit, FailCapture,
         storeVars, requestVars
    <3> QED
      BY <3>1, <3>2 DEF TypeOK, StoreTypeOK
  <2> USE DEF CaptureStep, RejectTooLarge, LookupMisses, LookupFinds, PutBlob,
              PutBlobFails, InsertRequest, IncrementRequestCount, Sleep, Respond,
              Commit, FailCapture, Goto, Downgraded, TypeOK, StoreTypeOK, CaptureTypeOK,
              storeVars, clockVars, endpointVars, requestVars
  <2>3. body' \in [RequestIds -> BodyPlaces]
    BY DEF BodyPlaces
  <2>4. blobs' \subseteq RequestIds
    OBVIOUS
  <2>5. faults' \in 0..MaxFaults
    BY StoreAssumption DEF SpendFault
  <2>6. pc' \in [RequestIds -> Steps]
    BY DEF Steps
  <2>7. new_count' \in [RequestIds -> Nat]
    <3>1. CASE IncrementRequestCount(r)
      BY <3>1 DEF Incremented, LockInv, KeyShareProtects, HoldsKeyShare
    <3>2. CASE ~ IncrementRequestCount(r)
      BY <3>2
    <3> QED
      BY <3>1, <3>2
  <2> QED
    BY <1>0, <2>1, <2>2, <2>3, <2>4, <2>5, <2>6, <2>7 DEF CreationTypeOK, CleanerTypeOK
<1>2. LiveWasCommitted' /\ TokenUnique'
  BY <1>0 DEF LiveWasCommitted, Committed, TokenUnique, Uncommitted
<1>3. KeyShareProtects'
  <2>1. HoldsKeyShare(r)' => endpoint_id'[r] = endpoint_id[r]
    BY <1>0 DEF HoldsKeyShare
  <2>2. CASE InsertRequest(r)
    BY <1>0, <2>1, <2>2 DEF InsertRequest, ParentDecided, Goto, LockInv,
       KeyShareProtects, HoldsKeyShare, TypeOK, CaptureTypeOK
  <2>3. CASE ~ InsertRequest(r)
    <3>1. HoldsKeyShare(r)' => HoldsKeyShare(r)
      BY <2>3 DEF CaptureStep, RejectTooLarge, LookupMisses, LookupFinds, PutBlob,
         PutBlobFails, IncrementRequestCount, Sleep, Respond, Commit, FailCapture,
         Goto, HoldsKeyShare, TypeOK, CaptureTypeOK
    <3> QED
      BY <1>0, <2>1, <3>1 DEF LockInv, KeyShareProtects, HoldsKeyShare
  <2> QED
    BY <2>2, <2>3
<1>4. OneUpdater' /\ CountIsNext'
  <2>1. CASE IncrementRequestCount(r)
    <3> USE <2>1 DEF IncrementRequestCount, CounterFree, Goto, HoldsNoKeyUpdate
    <3>1. UNCHANGED <<endpoint_id, request_count>>
      BY DEF storeVars, endpointVars, requestVars
    <3>2. OneUpdater'
      BY <1>0, <3>1 DEF LockInv, OneUpdater
    <3>3. new_count'[r] = request_count[endpoint_id[r]] + 1
      BY DEF Incremented, TypeOK, CaptureTypeOK
    <3>4. CountIsNext'
      BY <1>0, <3>1, <3>3 DEF LockInv, CountIsNext
    <3> QED
      BY <3>2, <3>4
  <2>2. CASE ~ IncrementRequestCount(r) /\ ~ Commit(r)
    <3>1. HoldsNoKeyUpdate(r)' => HoldsNoKeyUpdate(r) /\ new_count'[r] = new_count[r]
                                     /\ endpoint_id'[r] = endpoint_id[r]
      BY <1>0, <2>2 DEF CaptureStep, RejectTooLarge, LookupMisses, LookupFinds, PutBlob,
         PutBlobFails, InsertRequest, Sleep, Respond, FailCapture,
         Goto, HoldsNoKeyUpdate, TypeOK, CaptureTypeOK
    <3> QED
      BY <1>0, <2>2, <3>1, BeforeCommit
      DEF LockInv, OneUpdater, CountIsNext, HoldsNoKeyUpdate
  <2>3. CASE Commit(r)
    <3>1. ~ HoldsNoKeyUpdate(r)' /\ HoldsNoKeyUpdate(r) /\ endpoint_id' = endpoint_id
      BY <2>3 DEF Commit, Goto, HoldsNoKeyUpdate, TypeOK, CaptureTypeOK
    <3>2. OneUpdater'
      BY <1>0, <3>1 DEF LockInv, OneUpdater, HoldsNoKeyUpdate
    <3>3. ASSUME NEW s \in RequestIds, HoldsNoKeyUpdate(s)'
          PROVE  new_count'[s] = request_count'[endpoint_id'[s]] + 1
      <4>1. s # r /\ HoldsNoKeyUpdate(s) /\ new_count'[s] = new_count[s]
        BY <1>0, <3>1, <3>3 DEF HoldsNoKeyUpdate
      <4>2. endpoint_id[s] # endpoint_id[r]
        BY <3>1, <4>1 DEF LockInv, OneUpdater
      <4>3. request_count'[endpoint_id[s]] = request_count[endpoint_id[s]]
        <5>1. request_count' = [request_count EXCEPT ![endpoint_id[r]] = @ + 1]
          BY <2>3, CommitEffect
        <5>2. endpoint_id[s] \in EndpointIds
          BY <4>1 DEF LockInv, KeyShareProtects, HoldsKeyShare, HoldsNoKeyUpdate,
             TypeOK, StoreTypeOK
        <5> QED
          BY <4>2, <5>1, <5>2 DEF TypeOK, StoreTypeOK
      <4> QED
        BY <3>1, <4>1, <4>3 DEF LockInv, CountIsNext
    <3> QED
      BY <3>2, <3>3 DEF CountIsNext
  <2> QED
    BY <2>1, <2>2, <2>3
<1>5. LockedRows' /\ DoomedRows'
  BY <1>0 DEF LockInv, LockedRows, DoomedRows, Expired
<1>6. SweepIsSafe'
  <2>1. CASE Commit(r)
    BY <1>0, <2>1, CommitEffect, StoreAssumption DEF LockInv, SweepIsSafe, LockedBy
  <2>2. CASE ~ Commit(r)
    BY <1>0, <2>2, BeforeCommit DEF LockInv, SweepIsSafe, LockedBy
  <2> QED
    BY <2>1, <2>2
<1>7. BlobStored'
  <2>1. body'[r] = "blob" => r \in blobs' \/ pc'[r] \in {"put", "failed"}
    BY DEF CaptureStep, RejectTooLarge, LookupMisses, LookupFinds, PutBlob,
       PutBlobFails, InsertRequest, IncrementRequestCount, Sleep, Respond, Commit,
       FailCapture, Goto, Downgraded, Offloads, RowInv, BlobStored, TypeOK, StoreTypeOK,
       CaptureTypeOK, storeVars, requestVars
  <2> QED
    BY <1>0, <2>1 DEF RowInv, BlobStored
<1>8. RequestsAreDone' /\ RowsHaveEndpoint' /\ CountMatchesRows' /\ NotifyMatchesCommit'
  <2>1. CASE ~ Commit(r)
    <3>1. /\ UNCHANGED <<requests, request_count, channel>>
          /\ pc[r] # "done" /\ pc'[r] # "done"
          /\ \A e \in EndpointIds : RowsOf(e)' = RowsOf(e)
          /\ \A s \in requests : endpoint_id'[s] = endpoint_id[s]
      BY <2>1, BeforeCommit
    <3>2. RequestsAreDone' /\ RowsHaveEndpoint'
      BY <1>0, <3>1 DEF RowInv, RequestsAreDone, RowsHaveEndpoint
    <3>3. CountMatchesRows'
      BY <3>1 DEF RowInv, CountMatchesRows
    <3>4. NotifyMatchesCommit'
      BY <3>1 DEF RowInv, NotifyMatchesCommit
    <3> QED
      BY <3>2, <3>3, <3>4
  <2>2. CASE Commit(r)
    <3> DEFINE e == endpoint_id[r]
    <3>1. /\ e \in live /\ r \notin requests
          /\ requests' = requests \cup {r} /\ endpoint_id' = endpoint_id
          /\ \A f \in EndpointIds :
                RowsOf(f)' = IF f = e THEN RowsOf(f) \cup {r} ELSE RowsOf(f)
          /\ request_count' = [request_count EXCEPT ![e] = @ + 1]
          /\ channel' = Append(channel, <<e, r>>)
      BY <2>2, CommitEffect
    <3>2. e \in EndpointIds
      BY <3>1 DEF TypeOK, StoreTypeOK
    <3> HIDE DEF e
    <3>3. RequestsAreDone' /\ RowsHaveEndpoint'
      <4>1. pc'[r] = "done"
        BY <2>2 DEF Commit, Goto, TypeOK, CaptureTypeOK
      <4> QED
        BY <1>0, <3>1, <4>1 DEF e, RowInv, RequestsAreDone, RowsHaveEndpoint
    <3>4. CountMatchesRows'
      <4>1. IsFiniteSet(RowsOf(e)) /\ r \notin RowsOf(e)
        BY <3>1, StoreAssumption, FS_Subset DEF RowsOf, TypeOK, StoreTypeOK
      <4>2. Cardinality(RowsOf(e) \cup {r}) = Cardinality(RowsOf(e)) + 1
        BY <4>1, FS_AddElement
      <4>3. request_count[e] = Cardinality(RowsOf(e))
        BY <3>2 DEF RowInv, CountMatchesRows
      <4>4. ASSUME NEW f \in EndpointIds
            PROVE  request_count'[f] = Cardinality(RowsOf(f)')
        <5>1. CASE f = e
          BY <3>1, <3>2, <4>2, <4>3, <5>1 DEF TypeOK, StoreTypeOK
        <5>2. CASE f # e
          BY <3>1, <3>2, <5>2 DEF TypeOK, StoreTypeOK, RowInv, CountMatchesRows
        <5> QED
          BY <5>1, <5>2
      <4> QED
        BY <4>4 DEF CountMatchesRows
    <3>5. NotifyMatchesCommit'
      <4>1. channel \in Seq(EndpointIds \X RequestIds)
        BY DEF TypeOK, StoreTypeOK
      <4>2. /\ Len(channel) \in Nat
            /\ Len(channel') = Len(channel) + 1
            /\ \A i \in 1..Len(channel) : channel'[i] = channel[i]
            /\ channel'[Len(channel) + 1] = <<e, r>>
        BY <3>1, <3>2, <4>1
      <4>3. \A i \in 1..Len(channel) : \E s \in requests : channel[i] = <<endpoint_id[s], s>>
        BY DEF RowInv, NotifyMatchesCommit
      <4>4. \A i \in 1..Len(channel') :
               \E s \in requests' : channel'[i] = <<endpoint_id'[s], s>>
        BY <3>1, <4>2, <4>3 DEF e
      <4>5. \A s \in requests' :
               \E i \in 1..Len(channel') : channel'[i] = <<endpoint_id'[s], s>>
        <5>1. \A s \in requests : \E i \in 1..Len(channel) : channel[i] = <<endpoint_id[s], s>>
          BY DEF RowInv, NotifyMatchesCommit
        <5>2. 1..Len(channel) \subseteq 1..Len(channel')
              /\ Len(channel) + 1 \in 1..Len(channel')
          BY <4>2
        <5> QED
          BY <3>1, <4>2, <5>1, <5>2 DEF e
      <4>6. \A i \in 1..Len(channel) : channel[i] # <<e, r>>
        BY <3>1, <4>3
      <4>7. \A i, j \in 1..Len(channel) : channel[i] = channel[j] => i = j
        BY DEF RowInv, NotifyMatchesCommit
      <4>8. \A i, j \in 1..Len(channel') : channel'[i] = channel'[j] => i = j
        BY <4>2, <4>6, <4>7
      <4> QED
        BY <4>4, <4>5, <4>8 DEF NotifyMatchesCommit
    <3> QED
      BY <3>3, <3>4, <3>5
  <2> QED
    BY <2>1, <2>2
<1> QED
  BY <1>1, <1>2, <1>3, <1>4, <1>5, <1>6, <1>7, <1>8 DEF LockInv, RowInv

-----------------------------------------------------------------------------
(* The invariance theorems *)

\* A step that changes nothing keeps the invariant.
LEMMA StutterInv ==
    ASSUME IInv, UNCHANGED vars
    PROVE  IInv'
<1> USE DEF IInv, vars, storeVars, clockVars, endpointVars, requestVars, creationVars,
            captureVars, cleanerVars
<1>1. TypeOK'
  BY DEF TypeOK, StoreTypeOK, CreationTypeOK, CaptureTypeOK, CleanerTypeOK
<1>2. LiveWasCommitted' /\ TokenUnique'
  BY DEF LiveWasCommitted, Committed, TokenUnique, Uncommitted
<1>3. (KeyShareProtects /\ OneUpdater /\ CountIsNext)'
  BY DEF LockInv, KeyShareProtects, OneUpdater, CountIsNext, HoldsKeyShare,
         HoldsNoKeyUpdate
<1>4. (LockedRows /\ DoomedRows /\ SweepIsSafe)'
  BY DEF LockInv, LockedRows, DoomedRows, SweepIsSafe, LockedBy, RowsOf, Expired
<1>5. RowInv'
  BY RowInvFrame
<1> QED
  BY <1>1, <1>2, <1>3, <1>4, <1>5 DEF LockInv

\* The inductive invariant holds in every reachable state.
THEOREM CoreInvariance == Spec => []IInv
<1>1. ASSUME IInv, [Next]_vars
      PROVE  IInv'
  <2>1. CASE Tick /\ UNCHANGED <<creationVars, captureVars, cleanerVars>>
    BY <1>1, <2>1, TickInv
  <2>2. ASSUME NEW e \in EndpointIds, CreateStep(e), UNCHANGED <<captureVars, cleanerVars>>
        PROVE  IInv'
    BY <1>1, <2>2, CreateStepInv
  <2>3. ASSUME NEW r \in RequestIds, CaptureStep(r), UNCHANGED <<creationVars, cleanerVars>>
        PROVE  IInv'
    BY <1>1, <2>3, CaptureStepInv
  <2>4. ASSUME NEW k \in Cleaners, CleanerStep(k), UNCHANGED creationVars
        PROVE  IInv'
    BY <1>1, <2>4, CleanerStepInv
  <2>5. CASE UNCHANGED vars
    BY <1>1, <2>5, StutterInv
  <2> QED
    BY <1>1, <2>1, <2>2, <2>3, <2>4, <2>5 DEF Next
<1> QED
  BY InitInv, <1>1, PTL DEF Spec

\* Every variable keeps its type.
THEOREM TypeCorrect == Spec => []TypeOK
<1>1. IInv => TypeOK
  BY DEF IInv
<1> QED
  BY CoreInvariance, <1>1, PTL

\* request_count is the number of committed captures, for any number of endpoints
\* and of concurrent, delayed and failing captures, and any number of cleaners.
THEOREM CountCorrect == Spec => []CountMatchesRows
<1>1. IInv => CountMatchesRows
  BY DEF IInv, RowInv
<1> QED
  BY CoreInvariance, <1>1, PTL

\* No cleaner ever removes the endpoint of a committed capture.
THEOREM RowsKeepEndpoint == Spec => []RowsHaveEndpoint
<1>1. IInv => RowsHaveEndpoint
  BY DEF IInv, RowInv
<1> QED
  BY CoreInvariance, <1>1, PTL

\* Every blob_key of a committed row names a stored object.
THEOREM BlobsReadable == Spec => []BlobBeforeRow
<1>1. IInv => BlobBeforeRow
  BY DEF IInv, RowInv, BlobStored, BlobBeforeRow, RequestsAreDone
<1> QED
  BY CoreInvariance, <1>1, PTL

\* Each committed capture is announced exactly once, and nothing else is.
THEOREM NotifyCorrect == Spec => []NotifyMatchesCommit
<1>1. IInv => NotifyMatchesCommit
  BY DEF IInv, RowInv
<1> QED
  BY CoreInvariance, <1>1, PTL

\* However many creators of one slug race, at most one endpoint gets it.
THEOREM TokensUnique == Spec => []TokenUnique
<1>1. IInv => TokenUnique
  BY DEF IInv
<1> QED
  BY CoreInvariance, <1>1, PTL

-----------------------------------------------------------------------------
(* The cleaner and the captures *)

\* A step that makes an endpoint disappear is the COMMIT of a cleaner that had it
\* locked: it is expired, empty, and no open transaction refers to it.
LEMMA StepSpares ==
    ASSUME IInv, [Next]_vars
    PROVE  \A e \in live \ live' :
              Expired(e) /\ RowsOf(e) = {} /\ KeyShareHolders(e) = {}
<1> SUFFICES ASSUME NEW e \in live \ live'
             PROVE  Expired(e) /\ RowsOf(e) = {} /\ KeyShareHolders(e) = {}
  OBVIOUS
<1>1. PICK k \in Cleaners : CommitSweep(k) /\ e \in LockedBy(k)
  BY DEF Next, Tick, CreateStep, RejectCreate, BeginCreate, InsertEndpoint,
      RespondCreated, CommitCreate, FailCreate, CaptureStep, RejectTooLarge,
      LookupMisses, LookupFinds, PutBlob, PutBlobFails, InsertRequest,
      IncrementRequestCount, Sleep, Respond, Commit, FailCapture, CleanerStep,
      StartSweep, LockRow, ForeignKeyViolation, DeleteSucceeds, CommitSweep,
      DeadlockAborts, FailSweep, vars, storeVars, endpointVars
<1>2. e \in EndpointIds /\ deleter[e] = k /\ k # None
  BY <1>1, StoreAssumption DEF LockedBy
<1>3. Expired(e)
  BY <1>2 DEF IInv, LockInv, LockedRows
<1>4. RowsOf(e) = {}
  BY <1>1 DEF CommitSweep, IInv, LockInv, SweepIsSafe
<1>5. KeyShareHolders(e) = {}
  BY <1>2 DEF KeyShareHolders, IInv, LockInv, KeyShareProtects
<1> QED
  BY <1>3, <1>4, <1>5

\* Deletion spares captures in every step.
THEOREM DeletionSafe == Spec => DeletionSparesCaptures
<1> DEFINE Spared == \A e \in live \ live' :
                        Expired(e) /\ RowsOf(e) = {} /\ KeyShareHolders(e) = {}
<1>1. IInv /\ [Next]_vars => [Spared]_vars
  BY StepSpares
<1> QED
  BY CoreInvariance, <1>1, PTL DEF Spec, DeletionSparesCaptures

-----------------------------------------------------------------------------
(* The refinement *)

\* The inboxes an observer sees change only by the steps below.
LEMMA InboxFrame ==
    ASSUME UNCHANGED <<live, request_count, channel>>,
           Committed' = Committed,
           \A e \in EndpointIds : RowsOf(e)' = RowsOf(e)
    PROVE  UNCHANGED Abs!inboxVars
<1>1. [e \in EndpointIds |-> RowsOf(e)]' = [e \in EndpointIds |-> RowsOf(e)]
  OBVIOUS
<1> QED
  BY <1>1 DEF Abs!inboxVars

\* COMMIT of a creation opens an inbox; everything before it is invisible.
LEMMA CreateRefines ==
    ASSUME IInv, NEW e \in EndpointIds, CreateStep(e),
           UNCHANGED <<captureVars, cleanerVars>>
    PROVE  [Abs!Next]_(Abs!inboxVars)
<1> USE DEF IInv
<1>1. UNCHANGED <<request_count, channel, requests, endpoint_id>>
  BY DEF CreateStep, RejectCreate, BeginCreate, InsertEndpoint, RespondCreated,
         CommitCreate, FailCreate, storeVars, endpointVars, requestVars
<1>2. \A f \in EndpointIds : RowsOf(f)' = RowsOf(f)
  BY <1>1 DEF RowsOf
<1>3. [f \in EndpointIds |-> RowsOf(f)]' = [f \in EndpointIds |-> RowsOf(f)]
  BY <1>2
<1>4. CASE CommitCreate(e)
  <2>1. live' = live \cup {e} /\ Committed' = Committed \cup {e} /\ e \notin Committed
    BY <1>4 DEF CommitCreate, Committed, TypeOK, CreationTypeOK
  <2>2. e \notin live
    BY <2>1 DEF LiveWasCommitted
  <2>3. Abs!Open(e)
    BY <1>1, <1>3, <2>1, <2>2 DEF Abs!Open
  <2> QED
    BY <2>3 DEF Abs!Next
<1>5. CASE ~ CommitCreate(e)
  <2>1. UNCHANGED live
    BY <1>5 DEF CreateStep, RejectCreate, BeginCreate, InsertEndpoint, RespondCreated,
                FailCreate, storeVars, endpointVars
  <2>2. Committed' = Committed
    BY <1>5 DEF CreateStep, RejectCreate, BeginCreate, InsertEndpoint, RespondCreated,
                FailCreate, Committed, TypeOK, CreationTypeOK
  <2> QED
    BY <1>1, <1>2, <2>1, <2>2, InboxFrame
<1> QED
  BY <1>4, <1>5

\* COMMIT of a capture delivers it.
LEMMA CaptureRefines ==
    ASSUME IInv, NEW r \in RequestIds, CaptureStep(r),
           UNCHANGED <<creationVars, cleanerVars>>
    PROVE  [Abs!Next]_(Abs!inboxVars)
<1>1. Committed' = Committed
  BY DEF Committed, creationVars
<1>2. live' = live
  BY DEF CaptureStep, RejectTooLarge, LookupMisses, LookupFinds, PutBlob, PutBlobFails,
         InsertRequest, IncrementRequestCount, Sleep, Respond, Commit, FailCapture,
         storeVars, endpointVars
<1>3. CASE ~ Commit(r)
  <2>1. /\ UNCHANGED <<request_count, channel>>
        /\ \A e \in EndpointIds : RowsOf(e)' = RowsOf(e)
    BY <1>3, BeforeCommit
  <2> QED
    BY <1>1, <1>2, <2>1, InboxFrame
<1>4. CASE Commit(r)
  <2> DEFINE e == endpoint_id[r]
             inbox == [f \in EndpointIds |-> RowsOf(f)]
  <2>1. /\ e \in live /\ r \notin requests
        /\ \A f \in EndpointIds :
              RowsOf(f)' = IF f = e THEN RowsOf(f) \cup {r} ELSE RowsOf(f)
        /\ request_count' = [request_count EXCEPT ![e] = @ + 1]
        /\ channel' = Append(channel, <<e, r>>)
    BY <1>4, CommitEffect
  <2>2. e \in EndpointIds
    BY <2>1 DEF IInv, TypeOK, StoreTypeOK
  <2>3. \A f \in EndpointIds : r \notin inbox[f]
    BY <2>1 DEF RowsOf
  <2>4. inbox' = [inbox EXCEPT ![e] = @ \cup {r}]
    BY <2>1, <2>2
  <2>5. Abs!Deliver(e, r)
    BY <1>1, <1>2, <2>1, <2>3, <2>4 DEF Abs!Deliver
  <2> QED
    BY <2>2, <2>5 DEF Abs!Next
<1> QED
  BY <1>3, <1>4

\* COMMIT of a cleaner purges the inboxes it had locked, which are empty.
LEMMA CleanerRefines ==
    ASSUME IInv, NEW k \in Cleaners, CleanerStep(k), UNCHANGED creationVars
    PROVE  [Abs!Next]_(Abs!inboxVars)
<1>1. Committed' = Committed
  BY DEF Committed, creationVars
<1>2. UNCHANGED <<request_count, channel, requests, endpoint_id>>
  BY DEF CleanerStep, StartSweep, LockRow, ForeignKeyViolation, DeleteSucceeds,
         CommitSweep, DeadlockAborts, FailSweep, storeVars, endpointVars, requestVars
<1>3. \A e \in EndpointIds : RowsOf(e)' = RowsOf(e)
  BY <1>2 DEF RowsOf
<1>4. CASE CommitSweep(k)
  <2> DEFINE L == LockedBy(k)
             inbox == [f \in EndpointIds |-> RowsOf(f)]
  <2>1. L \subseteq live /\ \A e \in L : inbox[e] = {}
    BY <1>4 DEF CommitSweep, IInv, LockInv, LockedRows, SweepIsSafe, LockedBy
  <2>2. live \subseteq Committed /\ L \subseteq EndpointIds
    BY DEF IInv, LiveWasCommitted, LockedBy
  <2>3. live' = live \ L /\ inbox' = inbox
    BY <1>3, <1>4 DEF CommitSweep
  <2> HIDE DEF L
  <2>4. (Committed \ live)' = (Committed \ live) \cup L
    BY <1>1, <2>1, <2>2, <2>3
  <2>5. Abs!Purge(L)
    BY <1>2, <2>1, <2>3, <2>4 DEF Abs!Purge
  <2> QED
    BY <2>2, <2>5 DEF Abs!Next
<1>5. CASE ~ CommitSweep(k)
  <2>1. live' = live
    BY <1>5 DEF CleanerStep, StartSweep, LockRow, ForeignKeyViolation, DeleteSucceeds,
                DeadlockAborts, FailSweep, storeVars, endpointVars
  <2> QED
    BY <1>1, <1>2, <1>3, <2>1, InboxFrame
<1> QED
  BY <1>4, <1>5

\* Nothing is open at first.
LEMMA InitRefines == Init => Abs!Init
<1> SUFFICES ASSUME Init PROVE Abs!Init
  OBVIOUS
<1>1. Committed = {}
  BY DEF Init, CreationInit, Committed
<1>2. \A e \in EndpointIds : RowsOf(e) = {}
  BY DEF Init, StoreInit, RowsOf
<1> QED
  BY <1>1, <1>2 DEF Abs!Init, Init, StoreInit

\* Every step opens, delivers or purges, or shows nothing.
LEMMA StepRefines ==
    ASSUME IInv, [Next]_vars
    PROVE  [Abs!Next]_(Abs!inboxVars)
<1>1. CASE Tick /\ UNCHANGED <<creationVars, captureVars, cleanerVars>>
  BY <1>1, InboxFrame
  DEF Tick, endpointVars, requestVars, creationVars, Committed, RowsOf
<1>2. ASSUME NEW e \in EndpointIds, CreateStep(e), UNCHANGED <<captureVars, cleanerVars>>
      PROVE  [Abs!Next]_(Abs!inboxVars)
  BY <1>2, CreateRefines
<1>3. ASSUME NEW r \in RequestIds, CaptureStep(r), UNCHANGED <<creationVars, cleanerVars>>
      PROVE  [Abs!Next]_(Abs!inboxVars)
  BY <1>3, CaptureRefines
<1>4. ASSUME NEW k \in Cleaners, CleanerStep(k), UNCHANGED creationVars
      PROVE  [Abs!Next]_(Abs!inboxVars)
  BY <1>4, CleanerRefines
<1>5. CASE UNCHANGED vars
  BY <1>5, InboxFrame
  DEF vars, storeVars, endpointVars, requestVars, creationVars, Committed, RowsOf
<1> QED
  BY <1>1, <1>2, <1>3, <1>4, <1>5 DEF Next

\* App, ingestor and cleaner together implement atomic inboxes: an observer of the
\* committed state cannot tell them from a system that opens, delivers and purges
\* in single steps.
THEOREM Refinement == Spec => ImplementsInbox
<1>1. IInv /\ [Next]_vars => [Abs!Next]_(Abs!inboxVars)
  BY StepRefines
<1> QED
  BY CoreInvariance, InitRefines, <1>1, PTL DEF Spec, ImplementsInbox, Abs!Spec
=============================================================================
