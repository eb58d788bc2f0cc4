--------------------------- MODULE SchemaMigration ---------------------------
(***************************************************************************)
(* Deployments of the web app and the ingestor: `alembic upgrade head' as  *)
(* release command, then the promotion of the web machines, then of the    *)
(* ingestor's, one machine after the other.  Nothing keeps two deployments *)
(* apart.  The migrations of one upgrade share a transaction, except that  *)
(* the autocommit_block of the last one commits it before its index is     *)
(* built, so that only the stamp of alembic_version is left for later.     *)
(***************************************************************************)
EXTENDS Integers, FiniteSets

CONSTANTS Deploys,      \* deployments that may ever be started
          MaxFaults     \* bound: upgrades and roll-outs that break off

ASSUME MigrationAssumption == MaxFaults \in Nat

\* 1: the initial schema, 2: custom response, 3: search vector (with the index).
Revisions == 1..3
Latest == 3
Services == {"web", "ingestor"}

VARIABLES
    applied,    \* revisions whose tables and columns exist
    index,      \* requests_search_idx
    version,    \* alembic_version, 0 when there is none
    deploy,     \* how far each deployment is
    target,     \* the head revision of the code it deploys
    found,      \* the version its upgrade has read
    running,    \* the code on each service's machines, by head revision
    faults

vars == <<applied, index, version, deploy, target, found, running, faults>>

databaseVars == <<applied, index, version>>

Ended == {"done", "failed"}
Stages == {"new", "upgrade", "ddl", "build", "building", "stamp",
           "web", "webrolled", "ingestor", "ingestorrolled"} \cup Ended

TypeOK ==
    /\ applied \subseteq Revisions
    /\ index \in {"none", "invalid", "valid"}
    /\ version \in 0..Latest
    /\ deploy \in [Deploys -> Stages]
    /\ target \in [Deploys -> Revisions]
    /\ found \in [Deploys -> 0..Latest]
    /\ running \in [Services -> SUBSET Revisions]
    /\ faults \in 0..MaxFaults

\* A database as an earlier deployment has left it, and that deployment's code.
Init ==
    /\ version \in 0..Latest
    /\ applied = 1..version
    /\ index = IF version = Latest THEN "valid" ELSE "none"
    /\ running = [s \in Services |-> IF version = 0 THEN {} ELSE {version}]
    /\ deploy = [d \in Deploys |-> "new"]
    /\ target \in [Deploys -> Revisions]
    /\ found = [d \in Deploys |-> 0]
    /\ faults = 0

Goto(d, stage) == deploy' = [deploy EXCEPT ![d] = stage]

\* alembic reads alembic_version.  Code that does not know the revision fails.
ReadVersion(d) ==
    /\ deploy[d] = "new"
    /\ found' = [found EXCEPT ![d] = version]
    /\ Goto(d, IF version > target[d] THEN "failed"
               ELSE IF version = target[d] THEN "web" ELSE "upgrade")
    /\ UNCHANGED <<databaseVars, target, running, faults>>

PendingRevisions(d) == found[d] + 1 .. target[d]

\* A mutant: ADD COLUMN IF NOT EXISTS in the last revision.
AlreadyThere_Idempotent(d) == (PendingRevisions(d) \ {Latest}) \cap applied # {}

\* create_table and ADD COLUMN fail on what exists.
AlreadyThere(d) == PendingRevisions(d) \cap applied # {}

\* The DDL of the pending revisions: it waits for the table locks of another
\* upgrade's open transaction, and fails on what that one has committed.
RunDdl(d) ==
    /\ deploy[d] = "upgrade"
    /\ \A other \in Deploys : deploy[other] # "ddl"
    /\ Goto(d, IF AlreadyThere(d) THEN "failed" ELSE "ddl")
    /\ UNCHANGED <<databaseVars, target, found, running, faults>>

\* A mutant: the stamp is the next revision.
Stamped_Next(d) == target[d] + 1

\* A mutant: the stamp of the last revision is part of the transaction.
Stamped_Head(d) == target[d]

\* The last revision is stamped after its autocommit_block.
Stamped(d) == IF target[d] = Latest THEN Latest - 1 ELSE target[d]

\* COMMIT, at the end or on entering the autocommit_block.
CommitDdl(d) ==
    /\ deploy[d] = "ddl"
    /\ applied' = applied \cup PendingRevisions(d)
    /\ version' = Stamped(d)
    /\ Goto(d, IF target[d] = Latest THEN "build" ELSE "web")
    /\ UNCHANGED <<index, target, found, running, faults>>

\* CREATE INDEX CONCURRENTLY IF NOT EXISTS: any index of that name will do; else an
\* invalid one is entered in the catalogue and filled.
BeginIndex(d) ==
    /\ deploy[d] = "build"
    /\ IF index = "none"
       THEN index' = "invalid" /\ Goto(d, "building")
       ELSE UNCHANGED index /\ Goto(d, "stamp")
    /\ UNCHANGED <<applied, version, target, found, running, faults>>

EndIndex(d) ==
    /\ deploy[d] = "building"
    /\ index' = "valid"
    /\ Goto(d, "stamp")
    /\ UNCHANGED <<applied, version, target, found, running, faults>>

\* UPDATE alembic_version ... WHERE version_num = :old must match its row.
StampHead(d) ==
    /\ deploy[d] = "stamp"
    /\ IF version = Latest - 1
       THEN version' = Latest /\ Goto(d, "web")
       ELSE UNCHANGED version /\ Goto(d, "failed")
    /\ UNCHANGED <<applied, index, target, found, running, faults>>

\* A mutant: the ingestor is deployed first, beside the upgrade.
MayRoll_Early(d, s) ==
    \/ deploy[d] = s
    \/ s = "ingestor" /\ deploy[d] = "ddl"

\* The release command has succeeded; the ingestor follows the web app.
MayRoll(d, s) == deploy[d] = s

\* The rolling deployment starts new machines beside the old ones ...
RollOut(d, s) ==
    /\ MayRoll(d, s)
    /\ running' = [running EXCEPT ![s] = @ \cup {target[d]}]
    /\ Goto(d, IF s = "web" THEN "webrolled" ELSE "ingestorrolled")
    /\ UNCHANGED <<databaseVars, target, found, faults>>

\* ... and replaces the last of them.
FinishRoll(d, s) ==
    /\ deploy[d] = (IF s = "web" THEN "webrolled" ELSE "ingestorrolled")
    /\ running' = [running EXCEPT ![s] = {target[d]}]
    /\ Goto(d, IF s = "web" THEN "ingestor" ELSE "done")
    /\ UNCHANGED <<databaseVars, target, found, faults>>

\* The machine of the release command dies, a statement or a roll-out fails, the
\* job times out.  An open transaction is undone; an index that is being built is
\* left invalid, or the server finishes it all the same.
BreakOff(d) ==
    /\ deploy[d] \notin {"new"} \cup Ended
    /\ faults < MaxFaults
    /\ faults' = faults + 1
    /\ index' \in IF deploy[d] = "building" THEN {"invalid", "valid"} ELSE {index}
    /\ Goto(d, "failed")
    /\ UNCHANGED <<applied, version, target, found, running>>

Next ==
    \E d \in Deploys :
        \/ ReadVersion(d)
        \/ RunDdl(d)
        \/ CommitDdl(d)
        \/ BeginIndex(d)
        \/ EndIndex(d)
        \/ StampHead(d)
        \/ \E s \in Services : RollOut(d, s) \/ FinishRoll(d, s)
        \/ BreakOff(d)

Spec == Init /\ [][Next]_vars

-----------------------------------------------------------------------------
\* An upgrade between its two commits, and a deployment whose release command is over.
Indexing == {"build", "building", "stamp"}
Serving  == {"web", "webrolled", "ingestor", "ingestorrolled", "done"}

\* Code of every revision that runs finds its tables and columns, although web and
\* ingestor are rolled out one after the other, by deployments of different code
\* that overlap and break off.
CodeFindsItsColumns ==
    \A s \in Services : \A code \in running[s] : 1..code \subseteq applied

\* What alembic_version says is there: in particular nothing is stamped as having
\* the search index while that is missing or invalid.
VersionIsTrue ==
    /\ 1..version \subseteq applied
    /\ version = Latest => index = "valid"

\* The columns of the last revision are committed, its stamp is not, and nobody is
\* about to write it.
HalfMigrated ==
    /\ Latest \in applied
    /\ version = Latest - 1
    /\ \A d \in Deploys : deploy[d] \notin Indexing

\* An upgrade that broke off between the two commits is final: every later one
\* fails on the column that exists, so no release of the current code comes up.
HalfMigratedBlocks ==
    [][HalfMigrated =>
          /\ HalfMigrated'
          /\ \A d \in Deploys : target[d] = Latest => deploy'[d] # "web"]_vars
-----------------------------------------------------------------------------
(* Why this holds: an inductive invariant *)

\* An upgrade whose DDL has run will commit columns that nobody has committed
\* meanwhile, because no second one can run its DDL before.
DdlIsNew ==
    \A d \in Deploys :
        /\ deploy[d] \in {"upgrade", "ddl"} => found[d] < target[d]
        /\ deploy[d] = "ddl" =>
              /\ PendingRevisions(d) \cap applied = {}
              /\ \A other \in Deploys : deploy[other] = "ddl" => other = d

\* Hence one upgrade at most ever builds the index, before anybody can stamp it.
OneIndexer ==
    /\ Latest \notin applied => index = "none"
    /\ \A d \in Deploys :
          deploy[d] \in Indexing =>
              /\ target[d] = Latest
              /\ version # Latest
              /\ \A other \in Deploys : deploy[other] \in Indexing => other = d
              /\ deploy[d] = "build" => index = "none"
              /\ deploy[d] = "stamp" => index = "valid"

\* What a deployment has read, committed or relies on is in the schema.
DeployKnowsSchema ==
    \A d \in Deploys :
        /\ 1..found[d] \subseteq applied
        /\ deploy[d] \in Indexing \cup Serving => 1..target[d] \subseteq applied
        /\ deploy[d] \in Serving /\ target[d] = Latest => version = Latest

\* From the first statement of an upgrade to the last machine of a roll-out, what
\* overlapping deployments know of the schema stays true.
MigrationInv ==
    /\ TypeOK
    /\ DdlIsNew
    /\ OneIndexer
    /\ DeployKnowsSchema
    /\ CodeFindsItsColumns
    /\ VersionIsTrue
=============================================================================
