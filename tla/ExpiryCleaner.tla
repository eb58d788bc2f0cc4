---------------------------- MODULE ExpiryCleaner ----------------------------
(***************************************************************************)
(* The cleaner job: run_cleanup runs one DELETE over all expired endpoints *)
(* and commits.  Postgres locks the matching rows one by one, waiting for  *)
(* the transactions that hold them; when all are locked it checks the      *)
(* foreign key of table requests, which has no ON DELETE action, and fails *)
(* the whole statement if one row is still referenced.                     *)
(* A daily cron starts the job and nothing keeps two runs apart.           *)
(***************************************************************************)
EXTENDS RequestCapture

VARIABLES
    sweep,      \* what run k of the job does
    doomed      \* the rows k's DELETE has yet to visit

cleanerVars == <<sweep, doomed>>

CleanerTypeOK ==
    /\ sweep \in [Cleaners -> {"idle", "deleting", "commit"}]
    /\ doomed \in [Cleaners -> SUBSET EndpointIds]

CleanerInit ==
    /\ sweep = [k \in Cleaners |-> "idle"]
    /\ doomed = [k \in Cleaners |-> {}]

LockedBy(k) == {e \in EndpointIds : deleter[e] = k}

\* A mutant: the failed transaction is left open and keeps its row locks.
Unlocked_Never(k) == deleter

Unlocked(k) == [e \in EndpointIds |-> IF deleter[e] = k THEN None ELSE deleter[e]]

\* The transaction of k ends without effect and the process exits.
Rollback(k) ==
    /\ sweep' = [sweep EXCEPT ![k] = "idle"]
    /\ doomed' = [doomed EXCEPT ![k] = {}]
    /\ deleter' = Unlocked(k)

\* A mutant: the WHERE clause compares the wrong way round.
Selected_AnyAge == live

\* A mutant: only endpoints that were used are selected.
Selected_UsedOnly == {e \in live : Expired(e) /\ RowsOf(e) # {}}

\* The rows the DELETE finds in its snapshot.
Selected == {e \in live : Expired(e)}

StartSweep(k) ==
    /\ sweep[k] = "idle"
    /\ sweep' = [sweep EXCEPT ![k] = "deleting"]
    /\ doomed' = [doomed EXCEPT ![k] = Selected]
    /\ UNCHANGED <<storeVars, captureVars>>

\* A mutant: DELETE does not wait for transactions that have inserted children.
RowFree_IgnoresShared(e) == deleter[e] = None

\* FOR UPDATE on the row conflicts with every other lock on it.
RowFree(e) == deleter[e] = None /\ KeyShareHolders(e) = {}

\* DELETE locks one row, or skips it when another run deleted it meanwhile.
LockRow(k, e) ==
    /\ sweep[k] = "deleting"
    /\ e \in doomed[k]
    /\ RowFree(e)
    /\ doomed' = [doomed EXCEPT ![k] = @ \ {e}]
    /\ deleter' = IF e \in live THEN [deleter EXCEPT ![e] = k] ELSE deleter
    /\ UNCHANGED <<clockVars, endpointVars, requestVars, faults, sweep, captureVars>>

\* A mutant: the foreign key is not checked.
Referenced_Unchecked(k) == FALSE

\* Some row k is about to delete still has captured requests.
Referenced(k) == \E e \in LockedBy(k) : RowsOf(e) # {}

\* The statement fails with a foreign-key violation: nothing is deleted.
ForeignKeyViolation(k) ==
    /\ sweep[k] = "deleting"
    /\ doomed[k] = {}
    /\ Referenced(k)
    /\ Rollback(k)
    /\ UNCHANGED <<clockVars, endpointVars, requestVars, faults, captureVars>>

DeleteSucceeds(k) ==
    /\ sweep[k] = "deleting"
    /\ doomed[k] = {}
    /\ ~ Referenced(k)
    /\ sweep' = [sweep EXCEPT ![k] = "commit"]
    /\ UNCHANGED <<storeVars, doomed, captureVars>>

CommitSweep(k) ==
    /\ sweep[k] = "commit"
    /\ live' = live \ LockedBy(k)
    /\ Rollback(k)
    /\ UNCHANGED <<clockVars, token, expires_at, delayed, request_count, requestVars,
                   faults, captureVars>>

\* Two runs that visit the rows in different orders wait for each other:
\* Postgres notices and aborts one of them.
DeadlockAborts(k) ==
    /\ sweep[k] = "deleting"
    /\ \E m \in Cleaners \ {k} :
          /\ doomed[k] \cap LockedBy(m) # {}
          /\ doomed[m] \cap LockedBy(k) # {}
    /\ Rollback(k)
    /\ UNCHANGED <<clockVars, endpointVars, requestVars, faults, captureVars>>

\* The statement or the COMMIT fails for another reason, or the job is killed.
FailSweep(k) ==
    /\ sweep[k] # "idle"
    /\ Rollback(k)
    /\ SpendFault
    /\ UNCHANGED <<clockVars, endpointVars, requestVars, captureVars>>

CleanerStep(k) ==
    \/ StartSweep(k)
    \/ \E e \in EndpointIds : LockRow(k, e)
    \/ ForeignKeyViolation(k)
    \/ DeleteSucceeds(k)
    \/ CommitSweep(k)
    \/ DeadlockAborts(k)
    \/ FailSweep(k)
=============================================================================
