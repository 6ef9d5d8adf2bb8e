---------------------------- MODULE Orchestrator ----------------------------
(***************************************************************************)
(* Orchestrator.run of services/orchestrator/dadi_orchestrator: a caller's *)
(* stages executed in order over the shared store, every store call a      *)
(* transaction of its own.  A worker is a process inside run(); several    *)
(* work at once, on different pipeline runs or on the same one (nothing in *)
(* the code prevents it), and a process can die between any two store      *)
(* calls and be started again.                                             *)
(*                                                                         *)
(* A step of a worker is one transaction together with the local           *)
(* computation up to the next one.  put_artifact reads and then inserts in *)
(* one READ COMMITTED transaction, so the read and the insert are two      *)
(* steps, PutSelect and PutInsert.                                         *)
(***************************************************************************)
EXTENDS Store

CONSTANTS
  Workers,        \* processes that execute run()
  PipelineRuns,   \* pipeline_run_id values, each with its pipeline_runs row
  Docpacks, Prompts, Toolchains,  \* artifacts that the caller names
  Params,         \* values of the params argument
  Jobs,           \* the calls of run() that are made
  NumStages,      \* length of the stages argument; stage.index is the position
  UsesPrompt,     \* stage -> the StageSpec's uses_prompt
  Outputs,        \* the objects that are valid stage outputs
  Unusable,       \* what a handler may return that is no JSON object
  Errors,         \* artifacts of error records
  InputError,     \* the validation_error-v1 record of a null prompt
  Handler(_)      \* stage input -> the objects its handler may return

Stages == 1..NumStages
JobType == [run : PipelineRuns, docpack : Docpacks, prompt : Prompts \cup {None},
            toolchain : Toolchains, params : Params]
StageInputs == [stage : Stages, docpack : Docpacks, prior_outputs : Seq(Outputs),
                prompt : Prompts \cup {None}, toolchain : Toolchains,
                params : Params]
Externals == Docpacks \cup Prompts \cup Toolchains
RunStages == PipelineRuns \X Stages

ASSUME OrchestratorAssumption ==
  /\ NumStages \in Nat \ {0}
  /\ UsesPrompt \in [Stages -> BOOLEAN]
  /\ Jobs \subseteq JobType
  /\ InputError \in Errors
  /\ None \notin Outputs \cup Errors \cup Prompts \cup Jobs \cup RunStages
  /\ Outputs \cap Errors = {}

VARIABLES
  pc,        \* worker -> the store call it makes next, or how it ended
  job,       \* worker -> the arguments of run()
  stage,     \* worker -> position in the loop over stages
  outputs,   \* worker -> outputs (and prior_outputs, which is always equal)
  obj,       \* worker -> the artifact in hand: stage input, output or error
  ret,       \* worker -> where put_artifact returns to, or why run() aborted
  cursor     \* worker -> consumes edges recorded for this stage

workerVars == <<pc, job, stage, outputs, obj, ret, cursor>>
vars == <<storeVars, workerVars>>

(***************************************************************************)
(* How an execution ends: its list of outputs, a fail-closed exception,    *)
(* or another exception, which run() does not handle.  'idle' is a         *)
(* process that has not started, or died.                                  *)
(***************************************************************************)
Terminal == {"idle", "returned", "failed", "aborted"}
Labels == Terminal \cup
  {"select", "insert", "lookup", "hit_edge", "insert_run", "handler",
   "fail_closed", "consumes", "produces", "record", "finalize"}
Returns == {None, "lookup", "failed", "fail_closed", "consumes",
            "duplicate_artifact", "duplicate_row", "foreign_key", "not_json"}

RowId(w) == <<job[w].run, stage[w]>>

\* The stage_input-v1 object; its sha256 is the memoization key.
StageInput(j, i, outs) ==
  [stage |-> i, docpack |-> j.docpack, prior_outputs |-> outs,
   prompt |-> IF UsesPrompt[i] THEN j.prompt ELSE None,
   toolchain |-> j.toolchain, params |-> j.params]

Input(w) == StageInput(job[w], stage[w], outputs[w])

\* The schema wants a sha256 string for prompt_bundle_sha256 wherever it is
\* present, and run() always writes the key.
ValidInput(in) == in.prompt # None

(***************************************************************************)
(* Calling put_artifact(h), to continue at label r.                        *)
(***************************************************************************)
CallPut(w, h, r) ==
  /\ pc' = [pc EXCEPT ![w] = "select"]
  /\ obj' = [obj EXCEPT ![w] = h]
  /\ ret' = [ret EXCEPT ![w] = r]

(***************************************************************************)
(* The head of the loop: build and validate the input of stage i, and put  *)
(* it or the validation error; after the last stage, return the outputs.   *)
(***************************************************************************)
EnterStage(w, i, outs) ==
  /\ stage' = [stage EXCEPT ![w] = i]
  /\ outputs' = [outputs EXCEPT ![w] = outs]
  /\ cursor' = [cursor EXCEPT ![w] = 0]
  /\ IF i > NumStages
     THEN /\ pc' = [pc EXCEPT ![w] = "returned"]
          /\ obj' = [obj EXCEPT ![w] = None]
          /\ ret' = [ret EXCEPT ![w] = None]
     ELSE LET in == StageInput(job'[w], i, outs)
          IN IF ValidInput(in)
             THEN CallPut(w, in, "lookup")
             ELSE CallPut(w, InputError, "failed")

Goto(w, label) ==
  /\ pc' = [pc EXCEPT ![w] = label]
  /\ UNCHANGED <<job, stage, outputs, obj, ret, cursor>>

\* An exception outside the handler's try leaves run() at once.
Abort(w, why) ==
  /\ pc' = [pc EXCEPT ![w] = "aborted"]
  /\ ret' = [ret EXCEPT ![w] = why]
  /\ UNCHANGED <<storeVars, job, stage, outputs, obj, cursor>>

Init ==
  /\ artifacts \in SUBSET Externals
  /\ artifact_edges = {}
  /\ stage_cache = {}
  /\ stage_runs = [id \in RunStages |-> AbsentRow]
  /\ pc = [w \in Workers |-> "idle"]
  /\ job = [w \in Workers |-> None]
  /\ stage = [w \in Workers |-> 1]
  /\ outputs = [w \in Workers |-> <<>>]
  /\ obj = [w \in Workers |-> None]
  /\ ret = [w \in Workers |-> None]
  /\ cursor = [w \in Workers |-> 0]

-----------------------------------------------------------------------------
(* The call of run(), and the death of the process.                        *)

Start(w, j) ==
  /\ pc[w] \in Terminal
  /\ job' = [job EXCEPT ![w] = j]
  /\ EnterStage(w, 1, <<>>)
  /\ UNCHANGED storeVars

Crash(w) ==
  /\ pc[w] \notin Terminal
  /\ pc' = [pc EXCEPT ![w] = "idle"]
  /\ job' = [job EXCEPT ![w] = None]
  /\ stage' = [stage EXCEPT ![w] = 1]
  /\ outputs' = [outputs EXCEPT ![w] = <<>>]
  /\ obj' = [obj EXCEPT ![w] = None]
  /\ ret' = [ret EXCEPT ![w] = None]
  /\ cursor' = [cursor EXCEPT ![w] = 0]
  /\ UNCHANGED storeVars

-----------------------------------------------------------------------------
(* put_artifact.                                                           *)

PutSelect(w) ==
  /\ pc[w] = "select"
  /\ Goto(w, IF obj[w] \in artifacts THEN ret[w] ELSE "insert")
  /\ UNCHANGED storeVars

\* The primary key refuses a row that another worker has inserted since.
PutInsert(w) ==
  /\ pc[w] = "insert"
  /\ IF obj[w] \in artifacts
     THEN Abort(w, "duplicate_artifact")
     ELSE /\ InsertArtifact(obj[w])
          /\ Goto(w, ret[w])
          /\ UNCHANGED <<artifact_edges, stage_cache, stage_runs>>

-----------------------------------------------------------------------------
(* Cache lookup and hit.                                                   *)

\* Variant: a lookup by stage alone.
LookupByStage(w) ==
  /\ pc[w] = "lookup"
  /\ LET hits == {c.output : c \in {r \in stage_cache : r.input.stage = stage[w]}}
     IN IF hits = {}
        THEN Goto(w, "insert_run")
        ELSE \E hit \in hits :
               /\ pc' = [pc EXCEPT ![w] = "hit_edge"]
               /\ obj' = [obj EXCEPT ![w] = hit]
               /\ UNCHANGED <<job, stage, outputs, ret, cursor>>
  /\ UNCHANGED storeVars

Lookup(w) ==
  /\ pc[w] = "lookup"
  /\ LET hits == CacheLookup(Input(w))
     IN IF hits = {}
        THEN Goto(w, "insert_run")
        ELSE \E hit \in hits :
               /\ pc' = [pc EXCEPT ![w] = "hit_edge"]
               /\ obj' = [obj EXCEPT ![w] = hit]
               /\ UNCHANGED <<job, stage, outputs, ret, cursor>>
  /\ UNCHANGED storeVars

\* Variant: `continue` without moving on to the next stage.
HitEdgeSameStage(w) ==
  /\ pc[w] = "hit_edge"
  /\ RecordEdge(Edge(Input(w), obj[w], "produces", None))
  /\ UNCHANGED <<artifacts, stage_cache, stage_runs, job>>
  /\ EnterStage(w, stage[w], outputs[w])

HitEdge(w) ==
  /\ pc[w] = "hit_edge"
  /\ IF ReferencesHold({Input(w), obj[w]})
     THEN /\ RecordEdge(Edge(Input(w), obj[w], "produces", None))
          /\ UNCHANGED <<artifacts, stage_cache, stage_runs, job>>
          /\ EnterStage(w, stage[w] + 1, Append(outputs[w], obj[w]))
     ELSE Abort(w, "foreign_key")

-----------------------------------------------------------------------------
(* A cache miss: the stage_runs row, the handler and its failures.         *)

InsertRun(w) ==
  /\ pc[w] = "insert_run"
  /\ IF ~StageRunInsertable(RowId(w))
     THEN Abort(w, "duplicate_row")
     ELSE IF ~ReferencesHold({job[w].toolchain, Input(w).prompt, Input(w)} \ {None})
          THEN Abort(w, "foreign_key")
          ELSE /\ InsertStageRun(RowId(w), Input(w))
               /\ Goto(w, "handler")
               /\ UNCHANGED <<artifacts, artifact_edges, stage_cache>>

\* Variant: the output goes on without being validated.
HandleUnvalidated(w) ==
  /\ pc[w] = "handler"
  /\ \E out \in Handler(Input(w)) : CallPut(w, out, "consumes")
  /\ UNCHANGED <<storeVars, job, stage, outputs, cursor>>

\* Variant: the output is not put in the store.
HandleUnstored(w) ==
  /\ pc[w] = "handler"
  /\ \E out \in Handler(Input(w)) \cap Outputs :
       /\ pc' = [pc EXCEPT ![w] = "consumes"]
       /\ obj' = [obj EXCEPT ![w] = out]
  /\ UNCHANGED <<storeVars, job, stage, outputs, ret, cursor>>

(***************************************************************************)
(* The handler returns or raises.  An object that fails schema validation  *)
(* and an exception both end in an error record; validating what is no     *)
(* JSON object raises, outside the try.                                    *)
(***************************************************************************)
Handle(w) ==
  /\ pc[w] = "handler"
  /\ \/ /\ \/ \E out \in Handler(Input(w)) \cap Outputs : CallPut(w, out, "consumes")
           \/ \E err \in Errors : CallPut(w, err, "fail_closed")
        /\ UNCHANGED <<storeVars, job, stage, outputs, cursor>>
     \/ /\ Handler(Input(w)) \cap Unusable # {}
        /\ Abort(w, "not_json")

FailClosed(w) ==
  /\ pc[w] = "fail_closed"
  /\ FinalizeStageRun(RowId(w), "fail_closed", obj[w])
  /\ Goto(w, "failed")
  /\ UNCHANGED <<artifacts, artifact_edges, stage_cache>>

-----------------------------------------------------------------------------
(* Lineage, memoization and success.                                       *)

\* Variant: prior outputs are left out of the lineage.
ConsumesDocpackOnly(w) ==
  /\ pc[w] = "consumes"
  /\ RecordEdge(Edge(job[w].docpack, Input(w), "consumes", RowId(w)))
  /\ Goto(w, "produces")
  /\ UNCHANGED <<artifacts, stage_cache, stage_runs>>

\* The docpack's edge first (cursor 0), then that of each prior output.
Consumes(w) ==
  /\ pc[w] = "consumes"
  /\ LET from == IF cursor[w] = 0 THEN job[w].docpack ELSE outputs[w][cursor[w]]
     IN IF ReferencesHold({from, Input(w)})
        THEN /\ RecordEdge(Edge(from, Input(w), "consumes", RowId(w)))
             /\ IF cursor[w] < Len(outputs[w])
                THEN /\ cursor' = [cursor EXCEPT ![w] = @ + 1]
                     /\ UNCHANGED pc
                ELSE /\ pc' = [pc EXCEPT ![w] = "produces"]
                     /\ UNCHANGED cursor
             /\ UNCHANGED <<artifacts, stage_cache, stage_runs,
                            job, stage, outputs, obj, ret>>
        ELSE Abort(w, "foreign_key")

Produces(w) ==
  /\ pc[w] = "produces"
  /\ IF ReferencesHold({Input(w), obj[w]})
     THEN /\ RecordEdge(Edge(Input(w), obj[w], "produces", RowId(w)))
          /\ Goto(w, "record")
          /\ UNCHANGED <<artifacts, stage_cache, stage_runs>>
     ELSE Abort(w, "foreign_key")

\* Variant: the row is marked before the cache is written.
RecordAfterFinalize(w) ==
  /\ pc[w] = "record"
  /\ FinalizeStageRun(RowId(w), "success", obj[w])
  /\ Goto(w, "finalize")
  /\ UNCHANGED <<artifacts, artifact_edges, stage_cache>>

Record(w) ==
  /\ pc[w] = "record"
  /\ IF ReferencesHold({Input(w), obj[w]})
     THEN /\ CacheRecord(Input(w), obj[w])
          /\ Goto(w, "finalize")
          /\ UNCHANGED <<artifacts, artifact_edges, stage_runs>>
     ELSE Abort(w, "foreign_key")

\* The worker goes on with its own output, also when another one's is cached.
Finalize(w) ==
  /\ pc[w] = "finalize"
  /\ FinalizeStageRun(RowId(w), "success", obj[w])
  /\ UNCHANGED <<artifacts, artifact_edges, stage_cache, job>>
  /\ EnterStage(w, stage[w] + 1, Append(outputs[w], obj[w]))

-----------------------------------------------------------------------------

Step(w) ==
  \/ PutSelect(w) \/ PutInsert(w)
  \/ Lookup(w) \/ HitEdge(w)
  \/ InsertRun(w) \/ Handle(w) \/ FailClosed(w)
  \/ Consumes(w) \/ Produces(w) \/ Record(w) \/ Finalize(w)

Next == \E w \in Workers : Step(w) \/ Crash(w) \/ \E j \in Jobs : Start(w, j)

(***************************************************************************)
(* A worker that is not killed makes its next store call: run() has no     *)
(* wait, and a handler is assumed to return or raise.                      *)
(***************************************************************************)
Spec == Init /\ [][Next]_vars

FairSpec == Spec /\ \A w \in Workers : WF_vars(Step(w))

-----------------------------------------------------------------------------
(* Properties.                                                             *)

EdgeType == [from : Externals \cup Outputs \cup StageInputs,
             to : StageInputs \cup Outputs,
             type : {"consumes", "produces"}, run : RunStages \cup {None}]
RowType == [status : RowStatus, input : StageInputs \cup {None},
            result : Outputs \cup Errors \cup {None}]

(***************************************************************************)
(* Types of the tables and of the workers.  stage_cache holds validated    *)
(* outputs only: no error record and no unvalidated object is memoized.    *)
(***************************************************************************)
TypeOK ==
  /\ artifacts \subseteq Externals \cup StageInputs \cup Outputs \cup Errors
  /\ artifact_edges \subseteq EdgeType
  /\ stage_cache \subseteq [input : StageInputs, output : Outputs]
  /\ stage_runs \in [RunStages -> RowType]
  /\ pc \in [Workers -> Labels]
  /\ job \in [Workers -> Jobs \cup {None}]
  /\ stage \in [Workers -> 1..(NumStages + 1)]
  /\ outputs \in [Workers -> Seq(Outputs)]
  /\ obj \in [Workers -> StageInputs \cup Outputs \cup Errors \cup {None}]
  /\ ret \in [Workers -> Returns]
  /\ cursor \in [Workers -> Nat]

\* The lineage of output `out` of input `in`, recorded in full by one stage_run.
HasLineage(in, out, id) ==
  /\ Edge(in.docpack, in, "consumes", id) \in artifact_edges
  /\ \A k \in 1..Len(in.prior_outputs) :
       Edge(in.prior_outputs[k], in, "consumes", id) \in artifact_edges
  /\ Edge(in, out, "produces", id) \in artifact_edges

(***************************************************************************)
(* Whatever the cache answers is a stored artifact whose whole lineage, up *)
(* to the docpack and every prior output, was recorded by the stage_run    *)
(* that computed it from that input: a crash in the middle of recording    *)
(* can leave edges without a cache entry, never the reverse.               *)
(***************************************************************************)
CacheHasLineage ==
  \A c \in stage_cache :
    /\ {c.input, c.output} \subseteq artifacts
    /\ \E id \in RunStages : /\ HasLineage(c.input, c.output, id)
                             /\ stage_runs[id].input = c.input

(***************************************************************************)
(* A row is marked 'success' only after its lineage is complete and its    *)
(* input is memoized, perhaps with another run's output: no later run      *)
(* executes that stage again for the same input.                           *)
(***************************************************************************)
SuccessIsMemoized ==
  \A id \in RunStages : stage_runs[id].status = "success" =>
    /\ HasLineage(stage_runs[id].input, stage_runs[id].result, id)
    /\ CacheLookup(stage_runs[id].input) # {}

(***************************************************************************)
(* A fail-closed stage_run names a stored error artifact and emitted       *)
(* nothing: no lineage edge carries its id.  Needs that nobody else is     *)
(* working on the row, whatever workers share its pipeline run.            *)
(***************************************************************************)
FailClosedEmitsNothing ==
  \A id \in RunStages : stage_runs[id].status = "fail_closed" =>
    /\ stage_runs[id].result \in Errors \cap artifacts
    /\ \A e \in artifact_edges : e.run # id

\* Between insert_stage_run and the UPDATE that finalizes the row.
Owns(w) ==
  \/ pc[w] \in {"handler", "fail_closed", "consumes", "produces", "record", "finalize"}
  \/ pc[w] \in {"select", "insert"} /\ ret[w] \in {"fail_closed", "consumes"}

(***************************************************************************)
(* Workers on the same pipeline run exclude each other stage by stage: the *)
(* UNIQUE constraint is the lock, a row is worked on by one worker, and it *)
(* is open while it is.                                                    *)
(***************************************************************************)
OneOwner ==
  \A w \in Workers : Owns(w) =>
    /\ stage_runs[RowId(w)].status = "open"
    /\ \A v \in Workers \ {w} : Owns(v) => RowId(v) # RowId(w)

(***************************************************************************)
(* Every output a run builds on, or returns, was produced from exactly     *)
(* the input that its docpack, prompt, toolchain and earlier outputs make, *)
(* the lineage says so, and the input is memoized.  In particular a cache  *)
(* hit never hands a run an output computed from something else.           *)
(***************************************************************************)
OutputsFollow ==
  \A w \in Workers : \A k \in 1..Len(outputs[w]) :
    LET in == StageInput(job[w], k, SubSeq(outputs[w], 1, k - 1))
    IN /\ outputs[w][k] \in Handler(in)
       /\ \E e \in artifact_edges :
            e.from = in /\ e.to = outputs[w][k] /\ e.type = "produces"
       /\ CacheLookup(in) # {}

(***************************************************************************)
(* The order of the writes satisfies every foreign key: run() is refused   *)
(* for one only if an artifact its caller named was never stored.          *)
(***************************************************************************)
MissingIsCallerSupplied ==
  [][\A w \in Workers :
       pc[w] # "aborted" /\ pc'[w] = "aborted" /\ ret'[w] = "foreign_key" =>
         ~({job[w].docpack, job[w].prompt, job[w].toolchain} \subseteq artifacts)]_vars

(***************************************************************************)
(* A finalized stage_run is history: no retry, no second worker and no     *)
(* crash changes a row once it is 'success' or 'fail_closed'.              *)
(***************************************************************************)
FinalRowsStay ==
  [][\A id \in RunStages : stage_runs[id].status \in {"success", "fail_closed"} =>
       stage_runs'[id] = stage_runs[id]]_vars

(***************************************************************************)
(* run() implements the memoized pipeline of MemoPipeline: the memo is     *)
(* stage_cache, what is derived is what the lineage says is produced, a    *)
(* chain is the list of outputs.                                           *)
(***************************************************************************)
Derived == {[input |-> e.from, output |-> e.to] :
              e \in {x \in artifact_edges : x.type = "produces"}}

Pipeline == INSTANCE MemoPipeline WITH
  Clients <- Workers, Length <- NumStages, InputOf <- StageInput,
  Derivable <- Handler, memo <- stage_cache, derived <- Derived,
  chain <- outputs

\* Every step of run() is a step of the memoized pipeline, or none.
ImplementsPipeline == Pipeline!Spec

\* Under fair workers every call of run() returns, raises or is killed.
RunsEnd == \A w \in Workers : pc[w] = "select" ~> pc[w] \in Terminal

-----------------------------------------------------------------------------
(* The inductive invariant: what the tables and a worker's variables have  *)
(* to do with each other at every label.                                   *)

Emitting == {"consumes", "produces", "record", "finalize"}
Putting(w) == pc[w] \in {"select", "insert"}

\* Where a running worker is, and which artifact it holds there.
InHand(w) == pc[w] \notin Terminal =>
  /\ job[w] \in Jobs
  /\ stage[w] \in Stages
  /\ Len(outputs[w]) = stage[w] - 1
  /\ cursor[w] \in 0..Len(outputs[w])
  /\ pc[w] \in Emitting \/ cursor[w] = 0
  /\ Putting(w) => \/ ret[w] = "lookup" /\ obj[w] = Input(w)
                   \/ ret[w] \in {"failed", "fail_closed"} /\ obj[w] \in Errors
                   \/ ret[w] = "consumes" /\ obj[w] \in Outputs \cap Handler(Input(w))
  /\ pc[w] = "hit_edge" => [input |-> Input(w), output |-> obj[w]] \in stage_cache
  /\ pc[w] = "fail_closed" => obj[w] \in Errors \cap artifacts
  /\ pc[w] \in Emitting => obj[w] \in Outputs \cap Handler(Input(w)) \cap artifacts
  /\ ~Putting(w) \/ Owns(w) => Input(w) \in artifacts

NoEdgeOf(id) == \A e \in artifact_edges : e.run # id

\* What of the stage's lineage is in the tables when the worker is at a label.
LineageSoFar(w) ==
  /\ Owns(w) /\ pc[w] \notin Emitting => NoEdgeOf(RowId(w))
  /\ pc[w] \in Emitting =>
       /\ pc[w] # "consumes" \/ cursor[w] > 0 =>
            Edge(job[w].docpack, Input(w), "consumes", RowId(w)) \in artifact_edges
       /\ \A k \in 1..Len(outputs[w]) : pc[w] # "consumes" \/ k < cursor[w] =>
            Edge(outputs[w][k], Input(w), "consumes", RowId(w)) \in artifact_edges
  /\ pc[w] \in {"record", "finalize"} =>
       Edge(Input(w), obj[w], "produces", RowId(w)) \in artifact_edges
  /\ pc[w] = "finalize" => CacheLookup(Input(w)) # {}

OwnsItsRow(w) == Owns(w) => stage_runs[RowId(w)].status = "open"
                            /\ stage_runs[RowId(w)].input = Input(w)

Exclusive == \A v, w \in Workers :
  v # w /\ Owns(v) /\ Owns(w) => RowId(v) # RowId(w)

AbsentEmitsNothing ==
  \A id \in RunStages : stage_runs[id].status = "absent" => NoEdgeOf(id)

\* Whatever is memoized was derived.
CacheIsDerived == \A c \in stage_cache : c.output \in Handler(c.input)

(***************************************************************************)
(* Every conjunct is needed to carry another one over some step; together  *)
(* they imply OneOwner and the invariants above.                           *)
(***************************************************************************)
IndInv ==
  /\ TypeOK
  /\ \A w \in Workers : InHand(w) /\ LineageSoFar(w) /\ OwnsItsRow(w)
  /\ Exclusive
  /\ AbsentEmitsNothing
  /\ CacheIsDerived
  /\ CacheHasLineage
  /\ SuccessIsMemoized
  /\ FailClosedEmitsNothing

-----------------------------------------------------------------------------
(* What the documents say and the code does not do.                        *)

(***************************************************************************)
(* "Artifact writes are idempotent: re-putting the same bytes is a no-op." *)
(* Two workers putting the same bytes at once: the second INSERT is        *)
(* refused and its run aborts.                                             *)
(***************************************************************************)
PutIsIdempotent ==
  \A w \in Workers : ~(pc[w] = "aborted" /\ ret[w] = "duplicate_artifact")

(***************************************************************************)
(* "Marks stage_run success/fail_closed in the database."  A run that      *)
(* leaves through an exception has finalized the row it inserted.          *)
(***************************************************************************)
EndedRunsAreMarked ==
  [][\A w \in Workers : Owns(w) /\ pc'[w] = "aborted" =>
       stage_runs'[RowId(w)].status # "open"]_vars

(***************************************************************************)
(* A StageSpec has uses_prompt=False for stages that take no prompt, and   *)
(* the demo runs one.  The stage input then holds a null prompt, which the *)
(* stage_input-v1 schema rejects: validation refuses a call that names a   *)
(* prompt.  (A refused input leaves ret "failed", a failed handler leaves  *)
(* "fail_closed".)                                                         *)
(***************************************************************************)
PromptlessStagesRun ==
  \A w \in Workers : pc[w] = "failed" /\ ret[w] = "failed" => job[w].prompt = None
=============================================================================
