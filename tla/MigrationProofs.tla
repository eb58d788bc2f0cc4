--------------------------- MODULE MigrationProofs ---------------------------
(***************************************************************************)
(* Theorems about SchemaMigration, for any number of deployments and of    *)
(* failures.                                                               *)
(***************************************************************************)
EXTENDS SchemaMigration, TLAPS

\* A database that an earlier deployment has left satisfies the invariant.
LEMMA MigrationInitInv == Init => MigrationInv
<1> SUFFICES ASSUME Init PROVE MigrationInv
  OBVIOUS
<1> USE DEF Init, Revisions, Latest
<1>1. TypeOK
  BY MigrationAssumption DEF TypeOK, Stages, Ended
<1>2. DdlIsNew /\ OneIndexer /\ DeployKnowsSchema
  BY DEF DdlIsNew, OneIndexer, DeployKnowsSchema, Indexing, Serving
<1>3. CodeFindsItsColumns /\ VersionIsTrue
  BY DEF CodeFindsItsColumns, VersionIsTrue
<1> QED
  BY <1>1, <1>2, <1>3 DEF MigrationInv

-----------------------------------------------------------------------------
(* One lemma for each kind of step *)

\* Reading the version and starting the DDL change no table.
LEMMA UpgradeBeginsInv ==
    ASSUME MigrationInv, NEW d \in Deploys, ReadVersion(d) \/ RunDdl(d)
    PROVE  MigrationInv'
<1> USE DEF MigrationInv, TypeOK, Revisions, Latest
<1>1. CASE ReadVersion(d)
  <2> USE <1>1 DEF ReadVersion, Goto, databaseVars
  <2>1. TypeOK'
    BY DEF Stages, Ended
  <2>2. DdlIsNew'
    BY DEF DdlIsNew, PendingRevisions
  <2>3. OneIndexer' /\ DeployKnowsSchema'
    BY DEF OneIndexer, DeployKnowsSchema, VersionIsTrue, Indexing, Serving
  <2>4. CodeFindsItsColumns' /\ VersionIsTrue'
    BY DEF CodeFindsItsColumns, VersionIsTrue
  <2> QED
    BY <2>1, <2>2, <2>3, <2>4
<1>2. CASE RunDdl(d)
  <2> USE <1>2 DEF RunDdl, Goto, databaseVars
  <2>1. TypeOK'
    BY DEF Stages, Ended
  <2>2. DdlIsNew'
    BY DEF DdlIsNew, PendingRevisions, AlreadyThere
  <2>3. OneIndexer' /\ DeployKnowsSchema'
    BY DEF OneIndexer, DeployKnowsSchema, Indexing, Serving
  <2>4. CodeFindsItsColumns' /\ VersionIsTrue'
    BY DEF CodeFindsItsColumns, VersionIsTrue
  <2> QED
    BY <2>1, <2>2, <2>3, <2>4
<1> QED
  BY <1>1, <1>2

\* An upgrade that is about to commit finds the last revision missing.
LEMMA CommitFindsHeadMissing ==
    ASSUME MigrationInv, NEW d \in Deploys, deploy[d] = "ddl"
    PROVE  /\ \A other \in Deploys :
                 target[other] = Latest /\ target[d] = Latest =>
                     deploy[other] \notin Indexing \cup Serving
           /\ target[d] \notin applied
           /\ version < target[d]
<1> USE DEF MigrationInv, TypeOK, Revisions, Latest
<1>1. target[d] \in PendingRevisions(d) /\ target[d] \notin applied
  BY DEF DdlIsNew, PendingRevisions
<1>2. version < target[d]
  BY <1>1 DEF VersionIsTrue
<1>3. ASSUME NEW other \in Deploys, target[other] = Latest, target[d] = Latest
      PROVE  deploy[other] \notin Indexing \cup Serving
  BY <1>1, <1>3 DEF DeployKnowsSchema
<1> QED
  BY <1>1, <1>2, <1>3

\* COMMIT of the DDL: the new columns become visible together with a stamp that
\* claims no more than they are.
LEMMA CommitDdlInv ==
    ASSUME MigrationInv, NEW d \in Deploys, CommitDdl(d)
    PROVE  MigrationInv'
<1> USE DEF MigrationInv, TypeOK, Revisions, Latest, CommitDdl, Goto, Stamped,
        PendingRevisions
<1>1. TypeOK'
  <2>1. version' \in 0..Latest
    OBVIOUS
  <2>2. applied' \subseteq Revisions
    <3>1. PendingRevisions(d) \subseteq Revisions
      OBVIOUS
    <3> QED
      BY <3>1
  <2>3. \E stage \in Stages : deploy' = [deploy EXCEPT ![d] = stage]
    BY DEF Stages
  <2> QED
    BY <2>1, <2>2, <2>3
<1>2. target[d] \notin applied /\ version < target[d]
  BY CommitFindsHeadMissing
<1>3. applied \subseteq applied' /\ 1..target[d] \subseteq applied'
  BY DEF DeployKnowsSchema
<1>4. DdlIsNew'
  BY DEF DdlIsNew
<1>5. OneIndexer'
  <2>1. CASE target[d] = Latest
    <3>1. Latest \notin applied /\ index = "none"
      BY <2>1, <1>2 DEF OneIndexer
    <3>2. \A other \in Deploys : deploy[other] \notin Indexing
      BY <3>1 DEF OneIndexer, DeployKnowsSchema
    <3> QED
      BY <2>1, <1>3, <3>1, <3>2 DEF OneIndexer, Indexing
  <2>2. CASE target[d] # Latest
    <3>1. \A other \in Deploys : deploy[other] \in Indexing => FALSE
      BY <2>2, <1>2 DEF OneIndexer, DeployKnowsSchema
    <3> QED
      BY <2>2, <3>1 DEF OneIndexer, Indexing
  <2> QED
    BY <2>1, <2>2
<1>6. DeployKnowsSchema'
  <2>1. \A other \in Deploys : 1..found[other] \subseteq applied'
    BY <1>3 DEF DeployKnowsSchema
  <2>2. \A other \in Deploys :
            deploy'[other] \in Indexing \cup Serving => 1..target[other] \subseteq applied'
    BY <1>3 DEF DeployKnowsSchema
  <2>3. ASSUME NEW other \in Deploys, deploy'[other] \in Serving, target[other] = Latest
        PROVE  version' = Latest
    <3>1. other # d
      BY <2>3 DEF Serving
    <3>2. version = Latest
      BY <2>3, <3>1 DEF DeployKnowsSchema
    <3> QED
      BY <1>2, <3>2
  <2> QED
    BY <2>1, <2>2, <2>3 DEF DeployKnowsSchema
<1>7. CodeFindsItsColumns'
  BY <1>3 DEF CodeFindsItsColumns
<1>8. VersionIsTrue'
  BY <1>3 DEF VersionIsTrue
<1> QED
  BY <1>1, <1>4, <1>5, <1>6, <1>7, <1>8

\* The one upgrade that builds the index, and its stamp.
LEMMA IndexStepInv ==
    ASSUME MigrationInv, NEW d \in Deploys,
           BeginIndex(d) \/ EndIndex(d) \/ StampHead(d)
    PROVE  MigrationInv'
<1> USE DEF MigrationInv, TypeOK, Revisions, Latest, Goto
<1>1. Latest \in applied /\ target[d] = Latest /\ version # Latest
  BY DEF BeginIndex, EndIndex, StampHead, OneIndexer, DeployKnowsSchema, Indexing
<1>2. TypeOK'
  <2>1. deploy' \in [Deploys -> Stages]
    <3>1. \E stage \in Stages : deploy' = [deploy EXCEPT ![d] = stage]
      BY DEF BeginIndex, EndIndex, StampHead, Stages, Ended
    <3> QED
      BY <3>1
  <2>2. index' \in {"none", "invalid", "valid"} /\ version' \in 0..Latest
    BY DEF BeginIndex, EndIndex, StampHead
  <2> QED
    BY <2>1, <2>2 DEF BeginIndex, EndIndex, StampHead
<1>3. DdlIsNew'
  BY DEF BeginIndex, EndIndex, StampHead, DdlIsNew, PendingRevisions
<1>4. OneIndexer'
  BY <1>1 DEF BeginIndex, EndIndex, StampHead, OneIndexer, Indexing
<1>5. DeployKnowsSchema'
  BY <1>1 DEF BeginIndex, EndIndex, StampHead, DeployKnowsSchema, Indexing, Serving
<1>6. CodeFindsItsColumns'
  BY DEF BeginIndex, EndIndex, StampHead, CodeFindsItsColumns
<1>7. VersionIsTrue'
  BY <1>1 DEF BeginIndex, EndIndex, StampHead, VersionIsTrue, OneIndexer,
              DeployKnowsSchema, Indexing
<1> QED
  BY <1>2, <1>3, <1>4, <1>5, <1>6, <1>7

\* The machines of a service are replaced only by code whose columns are there.
LEMMA RollInv ==
    ASSUME MigrationInv, NEW d \in Deploys, NEW s \in Services,
           RollOut(d, s) \/ FinishRoll(d, s)
    PROVE  MigrationInv'
<1> USE DEF MigrationInv, TypeOK, Revisions, Latest, Goto, MayRoll, databaseVars,
        Services
<1>1. deploy[d] \in Serving /\ deploy'[d] \in Serving
  BY DEF RollOut, FinishRoll, Serving
<1>2. TypeOK'
  <2>1. \E stage \in Stages : deploy' = [deploy EXCEPT ![d] = stage]
    BY DEF RollOut, FinishRoll, Stages, Ended
  <2>2. \E codes \in SUBSET Revisions : running' = [running EXCEPT ![s] = codes]
    BY DEF RollOut, FinishRoll
  <2>3. deploy' \in [Deploys -> Stages] /\ running' \in [Services -> SUBSET Revisions]
    BY <2>1, <2>2
  <2> QED
    BY <2>3 DEF RollOut, FinishRoll
<1>3. DdlIsNew' /\ OneIndexer'
  BY <1>1 DEF RollOut, FinishRoll, DdlIsNew, PendingRevisions, OneIndexer, Indexing,
              Serving
<1>4. DeployKnowsSchema'
  BY <1>1 DEF RollOut, FinishRoll, DeployKnowsSchema
<1>5. CodeFindsItsColumns'
  BY <1>1 DEF RollOut, FinishRoll, CodeFindsItsColumns, DeployKnowsSchema
<1>6. VersionIsTrue'
  BY DEF RollOut, FinishRoll, VersionIsTrue
<1> QED
  BY <1>2, <1>3, <1>4, <1>5, <1>6

\* An upgrade that breaks off undoes its open transaction, or leaves the index
\* invalid without anybody having stamped it.
LEMMA BreakOffInv ==
    ASSUME MigrationInv, NEW d \in Deploys, BreakOff(d)
    PROVE  MigrationInv'
<1> USE DEF MigrationInv, TypeOK, Revisions, Latest, Goto, BreakOff
<1>1. TypeOK'
  BY MigrationAssumption DEF Stages, Ended
<1>2. DdlIsNew' /\ DeployKnowsSchema' /\ CodeFindsItsColumns'
  BY DEF DdlIsNew, PendingRevisions, DeployKnowsSchema, CodeFindsItsColumns, Indexing,
         Serving
<1>3. OneIndexer' /\ VersionIsTrue'
  BY DEF OneIndexer, VersionIsTrue, DeployKnowsSchema, Indexing
<1> QED
  BY <1>1, <1>2, <1>3

\* Every step keeps the invariant.
LEMMA MigrationStepInv == MigrationInv /\ [Next]_vars => MigrationInv'
<1> SUFFICES ASSUME MigrationInv, [Next]_vars PROVE MigrationInv'
  OBVIOUS
<1>1. CASE Next
  <2> PICK d \in Deploys :
        \/ ReadVersion(d) \/ RunDdl(d) \/ CommitDdl(d)
        \/ BeginIndex(d) \/ EndIndex(d) \/ StampHead(d)
        \/ \E s \in Services : RollOut(d, s) \/ FinishRoll(d, s)
        \/ BreakOff(d)
    BY <1>1 DEF Next
  <2> QED
    BY UpgradeBeginsInv, CommitDdlInv, IndexStepInv, RollInv, BreakOffInv
<1>2. CASE UNCHANGED vars
  BY <1>2
  DEF vars, MigrationInv, TypeOK, DdlIsNew, PendingRevisions, OneIndexer,
      DeployKnowsSchema, CodeFindsItsColumns, VersionIsTrue
<1> QED
  BY <1>1, <1>2

\* MigrationInv holds in every state, whatever deployments overlap or break off.
THEOREM MigrationInvariance == Spec => []MigrationInv
BY MigrationInitInv, MigrationStepInv, PTL DEF Spec

\* Every variable keeps to its type.
THEOREM MigrationTypeCorrect == Spec => []TypeOK
<1>1. MigrationInv => TypeOK
  BY DEF MigrationInv
<1> QED
  BY <1>1, MigrationInvariance, PTL

\* No machine ever runs code whose columns are not committed.
THEOREM CodeHasColumns == Spec => []CodeFindsItsColumns
<1>1. MigrationInv => CodeFindsItsColumns
  BY DEF MigrationInv
<1> QED
  BY <1>1, MigrationInvariance, PTL

\* alembic_version never claims a column or an index that is not there.
THEOREM VersionNeverLies == Spec => []VersionIsTrue
<1>1. MigrationInv => VersionIsTrue
  BY DEF MigrationInv
<1> QED
  BY <1>1, MigrationInvariance, PTL

-----------------------------------------------------------------------------
(* An upgrade that broke off between its commits *)

\* From a half-migrated schema no step leads to a working upgrade.
LEMMA HalfMigratedStep ==
    ASSUME MigrationInv, HalfMigrated, [Next]_vars
    PROVE  HalfMigrated' /\ \A d \in Deploys : target[d] = Latest => deploy'[d] # "web"
<1> USE DEF HalfMigrated, MigrationInv, TypeOK, Revisions, Latest
<1>1. \A d \in Deploys : /\ deploy[d] # "ddl"
                         /\ target[d] = Latest => deploy[d] # "web"
  BY CommitFindsHeadMissing DEF VersionIsTrue, DeployKnowsSchema, Serving
<1>2. CASE UNCHANGED vars
  BY <1>1, <1>2 DEF vars
<1>3. ASSUME NEW d \in Deploys,
             \/ ReadVersion(d) \/ RunDdl(d) \/ BreakOff(d)
             \/ \E s \in Services : RollOut(d, s) \/ FinishRoll(d, s)
      PROVE  HalfMigrated' /\ \A e \in Deploys : target[e] = Latest => deploy'[e] # "web"
  <2>1. applied' = applied /\ version' = version /\ target' = target
    BY <1>3 DEF ReadVersion, RunDdl, BreakOff, RollOut, FinishRoll, databaseVars
  <2>2. \A e \in Deploys : e # d => deploy'[e] = deploy[e]
    BY <1>3 DEF ReadVersion, RunDdl, BreakOff, RollOut, FinishRoll, Goto
  <2>3. deploy'[d] \notin Indexing /\ (target[d] = Latest => deploy'[d] # "web")
    BY <1>3 DEF ReadVersion, RunDdl, BreakOff, RollOut, FinishRoll, Goto, Indexing
  <2> QED
    BY <1>1, <2>1, <2>2, <2>3
<1>4. ASSUME NEW d \in Deploys, CommitDdl(d) \/ BeginIndex(d) \/ EndIndex(d) \/ StampHead(d)
      PROVE  FALSE
  BY <1>1, <1>4 DEF CommitDdl, BeginIndex, EndIndex, StampHead, Indexing
<1> QED
  BY <1>2, <1>3, <1>4 DEF Next

\* A half-migrated schema is final: no deployment of the current code gets past it.
THEOREM HalfMigratedIsFinal == Spec => HalfMigratedBlocks
<1>1. MigrationInv /\ [Next]_vars =>
        [HalfMigrated =>
            /\ HalfMigrated'
            /\ \A d \in Deploys : target[d] = Latest => deploy'[d] # "web"]_vars
  BY HalfMigratedStep
<1> QED
  BY <1>1, MigrationInvariance, PTL DEF Spec, HalfMigratedBlocks
=============================================================================
