------------------------------- MODULE Store -------------------------------
(***************************************************************************)
(* The tables of the artifact store and the statements that               *)
(* services/orchestrator/dadi_orchestrator/store_adapter.py runs on them.  *)
(* Every function of that file opens a connection and commits one          *)
(* transaction, so each operator below is the effect of one atomic step.   *)
(*                                                                         *)
(* The tables are those of services/orchestrator/sql/schema.sql with the   *)
(* tenant of tenant_isolation_migration.sql: the model is one tenant.  A   *)
(* sha256 is the artifact it names.  Tables are sets of rows: two equal    *)
(* rows of artifact_edges (a second cache hit on one input) are one        *)
(* element.  The primary key of stage_runs is represented by the columns   *)
(* of its UNIQUE constraint, <<pipeline_run_id, stage_index>>.             *)
(***************************************************************************)
EXTENDS Naturals, Sequences

CONSTANT None      \* SQL NULL

VARIABLES
  artifacts,       \* the sha256 of every stored artifact
  artifact_edges,  \* lineage: [from, to, type, run]
  stage_cache,     \* memoization: [input, output]
  stage_runs       \* <<pipeline_run_id, stage_index>> |-> its row

storeVars == <<artifacts, artifact_edges, stage_cache, stage_runs>>

Edge(from, to, type, run) ==
  [from |-> from, to |-> to, type |-> type, run |-> run]

(***************************************************************************)
(* status is 'absent' before the INSERT, 'open' for the inserted values    *)
(* (status='failed', fail_closed=false), 'success', or 'fail_closed'       *)
(* (status='failed', fail_closed=true).  result is the output artifact of  *)
(* a successful row and the error artifact of a fail-closed one.           *)
(***************************************************************************)
RowStatus == {"absent", "open", "success", "fail_closed"}
AbsentRow == [status |-> "absent", input |-> None, result |-> None]

\* The FOREIGN KEY ... REFERENCES artifacts of every table that names one.
ReferencesHold(shas) == shas \subseteq artifacts

\* INSERT INTO artifacts; its caller has dealt with the primary key.
InsertArtifact(h) == artifacts' = artifacts \cup {h}

\* INSERT INTO artifact_edges; the table has no UNIQUE constraint.
RecordEdge(e) == artifact_edges' = artifact_edges \cup {e}

\* SELECT output_artifact_sha256 FROM stage_cache: the key holds the stage's
\* name, version and input, and the input artifact determines the other two.
CacheLookup(in) == {c.output : c \in {r \in stage_cache : r.input = in}}

\* Variant: ON CONFLICT DO UPDATE.
CacheRecordOverwriting(in, out) ==
  stage_cache' = {c \in stage_cache : c.input # in}
                   \cup {[input |-> in, output |-> out]}

\* INSERT ... ON CONFLICT DO NOTHING.
CacheRecord(in, out) ==
  stage_cache' = IF CacheLookup(in) = {}
                 THEN stage_cache \cup {[input |-> in, output |-> out]}
                 ELSE stage_cache

\* Variant: the UNIQUE constraint dropped, so that an INSERT always succeeds.
NoUniqueRow(id) == TRUE

\* UNIQUE (tenant_id, pipeline_run_id, stage_index).
StageRunInsertable(id) == stage_runs[id].status = "absent"

InsertStageRun(id, in) ==
  stage_runs' = [stage_runs EXCEPT
                   ![id] = [status |-> "open", input |-> in, result |-> None]]

\* The two UPDATEs have no condition on the row's present status.
FinalizeStageRun(id, status, sha) ==
  stage_runs' = [stage_runs EXCEPT ![id].status = status, ![id].result = sha]
=============================================================================
