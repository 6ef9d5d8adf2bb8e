------------------------ MODULE OrchestratorProofs ------------------------
(***************************************************************************)
(* Proofs about Orchestrator, for any number of workers, pipeline runs and *)
(* stages and any handlers.                                                *)
(***************************************************************************)
EXTENDS Orchestrator, TLAPS

-----------------------------------------------------------------------------
(* Stage inputs.                                                           *)

\* A stage input is built from a call of run() and the outputs so far.
LEMMA StageInputType ==
  ASSUME NEW j \in Jobs, NEW i \in Stages, NEW outs \in Seq(Outputs)
  PROVE  /\ StageInput(j, i, outs) \in StageInputs
         /\ StageInput(j, i, outs).docpack = j.docpack
         /\ StageInput(j, i, outs).prior_outputs = outs
BY OrchestratorAssumption DEF StageInput, StageInputs, JobType

-----------------------------------------------------------------------------
(* Initial states.                                                         *)

\* An initial state has no rows, no edges and no running worker.
LEMMA InitInd == Init => IndInv
<1> SUFFICES ASSUME Init PROVE IndInv
  OBVIOUS
<1> USE DEF Init
<1>1. TypeOK
  BY OrchestratorAssumption DEF TypeOK, AbsentRow, RowType, RowStatus, Labels,
     Terminal, Returns, Stages
<1>2. \A w \in Workers : InHand(w) /\ LineageSoFar(w) /\ OwnsItsRow(w)
  BY DEF InHand, LineageSoFar, OwnsItsRow, Owns, Emitting, Terminal
<1>3. Exclusive /\ AbsentEmitsNothing /\ CacheIsDerived /\ CacheHasLineage
  BY DEF Exclusive, Owns, AbsentEmitsNothing, NoEdgeOf, CacheIsDerived, CacheHasLineage
<1>4. SuccessIsMemoized /\ FailClosedEmitsNothing
  BY DEF SuccessIsMemoized, FailClosedEmitsNothing, AbsentRow
<1>5. QED
  BY <1>1, <1>2, <1>3, <1>4 DEF IndInv

-----------------------------------------------------------------------------
(* What a step of one worker does to the others.                           *)

\* Where a running worker's row and input are.
LEMMA RunningTypes ==
  ASSUME TypeOK, NEW w \in Workers, InHand(w), pc[w] \notin Terminal
  PROVE  /\ RowId(w) \in RunStages
         /\ Input(w) \in StageInputs
         /\ Input(w).docpack = job[w].docpack
         /\ Input(w).prior_outputs = outputs[w]
<1>1. job[w] \in Jobs /\ stage[w] \in Stages /\ outputs[w] \in Seq(Outputs)
  BY DEF InHand, TypeOK
<1>2. job[w].run \in PipelineRuns
  BY <1>1, OrchestratorAssumption DEF JobType
<1>3. QED
  BY <1>1, <1>2, StageInputType DEF RowId, RunStages, Input

KeepsOthers(w) == \A v \in Workers \ {w} :
  /\ pc'[v] = pc[v] /\ job'[v] = job[v] /\ stage'[v] = stage[v]
  /\ outputs'[v] = outputs[v] /\ obj'[v] = obj[v] /\ ret'[v] = ret[v]
  /\ cursor'[v] = cursor[v]

TablesGrow ==
  /\ artifacts \subseteq artifacts'
  /\ artifact_edges \subseteq artifact_edges'
  /\ stage_cache \subseteq stage_cache'

\* An open row is changed, and an edge added with its id, by its owner only.
ByOwner(w) ==
  /\ \A id \in RunStages : /\ stage_runs[id].status = "open"
                           /\ ~(Owns(w) /\ id = RowId(w))
                           => stage_runs'[id] = stage_runs[id]
  /\ \A e \in artifact_edges' \ artifact_edges :
       e.run = None \/ (Owns(w) /\ e.run = RowId(w))

\* The other workers' part of the inductive invariant survives such a step.
LEMMA OthersInd ==
  ASSUME IndInv, NEW w \in Workers, KeepsOthers(w), TablesGrow, ByOwner(w),
         NEW v \in Workers \ {w}
  PROVE  /\ InHand(v)' /\ LineageSoFar(v)' /\ OwnsItsRow(v)'
         /\ (Owns(v)' <=> Owns(v)) /\ RowId(v)' = RowId(v)
<1>1. InHand(v) /\ LineageSoFar(v) /\ OwnsItsRow(v) /\ TypeOK /\ Exclusive
  BY DEF IndInv
<1>2. /\ pc'[v] = pc[v] /\ job'[v] = job[v] /\ stage'[v] = stage[v]
      /\ outputs'[v] = outputs[v] /\ obj'[v] = obj[v] /\ ret'[v] = ret[v]
      /\ cursor'[v] = cursor[v]
  BY DEF KeepsOthers
<1>3. RowId(v)' = RowId(v) /\ Input(v)' = Input(v)
  BY <1>2 DEF RowId, Input
<1>4. Owns(v)' <=> Owns(v)
  BY <1>2 DEF Owns
<1>5. InHand(v)'
  BY <1>1, <1>2, <1>3, <1>4 DEF InHand, TablesGrow, Putting
<1>6. Owns(v) => /\ RowId(v) \in RunStages
                 /\ stage_runs'[RowId(v)] = stage_runs[RowId(v)]
                 /\ \A e \in artifact_edges' \ artifact_edges : e.run # RowId(v)
  <2> SUFFICES ASSUME Owns(v) PROVE /\ RowId(v) \in RunStages
                 /\ stage_runs'[RowId(v)] = stage_runs[RowId(v)]
                 /\ \A e \in artifact_edges' \ artifact_edges : e.run # RowId(v)
    OBVIOUS
  <2>1. RowId(v) \in RunStages
    BY <1>1, RunningTypes DEF Owns, Terminal
  <2>2. Owns(w) => RowId(v) # RowId(w)
    BY <1>1 DEF Exclusive
  <2>3. stage_runs[RowId(v)].status = "open"
    BY <1>1 DEF OwnsItsRow
  <2>4. QED
    BY <2>1, <2>2, <2>3, OrchestratorAssumption DEF ByOwner
<1>7. OwnsItsRow(v)'
  BY <1>1, <1>3, <1>4, <1>6 DEF OwnsItsRow
<1>8. LineageSoFar(v)'
  BY <1>1, <1>2, <1>3, <1>4, <1>6 DEF LineageSoFar, NoEdgeOf, TablesGrow, CacheLookup, Emitting
<1>9. QED
  BY <1>3, <1>4, <1>5, <1>7, <1>8

\* The workers' part for all of them, from that of the one that moves.
LEMMA WorkersInd ==
  ASSUME IndInv, NEW w \in Workers, KeepsOthers(w), TablesGrow, ByOwner(w),
         InHand(w)', LineageSoFar(w)', OwnsItsRow(w)',
         Owns(w)' => \A v \in Workers \ {w} : Owns(v) => RowId(v) # RowId(w)'
  PROVE  /\ \A v \in Workers : InHand(v)' /\ LineageSoFar(v)' /\ OwnsItsRow(v)'
         /\ Exclusive'
<1>1. \A v \in Workers \ {w} :
        /\ InHand(v)' /\ LineageSoFar(v)' /\ OwnsItsRow(v)'
        /\ (Owns(v)' <=> Owns(v)) /\ RowId(v)' = RowId(v)
  BY OthersInd
<1>2. Exclusive
  BY DEF IndInv
<1>3. Exclusive'
  BY <1>1, <1>2 DEF Exclusive
<1>4. QED
  BY <1>1, <1>3

\* A step that writes no table keeps every invariant about the tables.
LEMMA TablesKept ==
  ASSUME IndInv, UNCHANGED storeVars
  PROVE  /\ AbsentEmitsNothing' /\ CacheIsDerived' /\ CacheHasLineage'
         /\ SuccessIsMemoized' /\ FailClosedEmitsNothing'
         /\ TablesGrow /\ \A w \in Workers : ByOwner(w)
BY DEF IndInv, storeVars, AbsentEmitsNothing, NoEdgeOf, CacheIsDerived,
   CacheHasLineage, HasLineage, SuccessIsMemoized, CacheLookup,
   FailClosedEmitsNothing, TablesGrow, ByOwner

-----------------------------------------------------------------------------
(* The head of the loop.                                                   *)

WorkerTypes ==
  /\ pc \in [Workers -> Labels]
  /\ stage \in [Workers -> 1..(NumStages + 1)]
  /\ outputs \in [Workers -> Seq(Outputs)]
  /\ obj \in [Workers -> StageInputs \cup Outputs \cup Errors \cup {None}]
  /\ ret \in [Workers -> Returns]
  /\ cursor \in [Workers -> Nat]

\* Entering a stage, or returning, leaves the worker without a row.
LEMMA EnterStageInd ==
  ASSUME WorkerTypes, NEW w \in Workers, job' \in [Workers -> Jobs \cup {None}],
         job'[w] \in Jobs, NEW i \in 1..(NumStages + 1), NEW outs \in Seq(Outputs),
         Len(outs) = i - 1, EnterStage(w, i, outs)
  PROVE  /\ WorkerTypes'
         /\ InHand(w)' /\ LineageSoFar(w)' /\ OwnsItsRow(w)' /\ ~Owns(w)'
<1>1. /\ stage' = [stage EXCEPT ![w] = i]
      /\ outputs' = [outputs EXCEPT ![w] = outs]
      /\ cursor' = [cursor EXCEPT ![w] = 0]
  BY DEF EnterStage
<1>2. /\ stage' \in [Workers -> 1..(NumStages + 1)] /\ stage'[w] = i
      /\ outputs' \in [Workers -> Seq(Outputs)] /\ outputs'[w] = outs
      /\ cursor' \in [Workers -> Nat] /\ cursor'[w] = 0
  BY <1>1 DEF WorkerTypes
<1>3. CASE i > NumStages
  <2>1. /\ pc' = [pc EXCEPT ![w] = "returned"]
        /\ obj' = [obj EXCEPT ![w] = None]
        /\ ret' = [ret EXCEPT ![w] = None]
    BY <1>3 DEF EnterStage
  <2>2. WorkerTypes' /\ pc'[w] = "returned"
    BY <1>2, <2>1 DEF WorkerTypes, Labels, Terminal, Returns
  <2>3. QED
    BY <2>2 DEF InHand, LineageSoFar, OwnsItsRow, Owns, Emitting, Terminal
<1>4. CASE ~(i > NumStages)
  <2> DEFINE in == StageInput(job'[w], i, outs)
  <2>1. i \in Stages /\ in \in StageInputs
    <3>1. i \in Stages
      BY <1>4, OrchestratorAssumption DEF Stages
    <3>2. QED
      BY <3>1, StageInputType
  <2>2. in = Input(w)'
    BY <1>2 DEF Input
  <2>3. \E h \in StageInputs \cup Errors, r \in {"lookup", "failed"} :
          /\ CallPut(w, h, r)
          /\ \/ r = "lookup" /\ h = in
             \/ r = "failed" /\ h \in Errors
    BY <1>4, <2>1, OrchestratorAssumption DEF EnterStage
  <2>4. PICK h \in StageInputs \cup Errors, r \in {"lookup", "failed"} :
          /\ CallPut(w, h, r)
          /\ \/ r = "lookup" /\ h = in
             \/ r = "failed" /\ h \in Errors
    BY <2>3
  <2>5. WorkerTypes' /\ pc'[w] = "select" /\ obj'[w] = h /\ ret'[w] = r
    BY <1>2, <2>4 DEF CallPut, WorkerTypes, Labels, Returns
  <2>6. ~Owns(w)'
    BY <2>5 DEF Owns
  <2>7. InHand(w)'
    BY <1>2, <2>1, <2>2, <2>4, <2>5, <2>6 DEF InHand, Putting, Emitting
  <2>8. QED
    BY <2>5, <2>6, <2>7 DEF LineageSoFar, OwnsItsRow, Emitting
<1>5. QED
  BY <1>3, <1>4

\* Nothing of the other workers is touched by a call or by entering a stage.
LEMMA EnterStageKeepsOthers ==
  ASSUME NEW w \in Workers, NEW i, NEW outs, TypeOK, EnterStage(w, i, outs),
         \A v \in Workers \ {w} : job'[v] = job[v]
  PROVE  KeepsOthers(w)
BY DEF EnterStage, CallPut, KeepsOthers, TypeOK

-----------------------------------------------------------------------------
(* Steps that write no table.                                              *)

\* TypeOK is its tables' part, its workers' part and the type of job.
LEMMA SplitTypeOK ==
  TypeOK <=> /\ artifacts \subseteq Externals \cup StageInputs \cup Outputs \cup Errors
             /\ artifact_edges \subseteq EdgeType
             /\ stage_cache \subseteq [input : StageInputs, output : Outputs]
             /\ stage_runs \in [RunStages -> RowType]
             /\ job \in [Workers -> Jobs \cup {None}]
             /\ WorkerTypes
BY DEF TypeOK, WorkerTypes

\* A step of one worker that writes no table.
LEMMA QuietInd ==
  ASSUME IndInv, NEW w \in Workers, UNCHANGED storeVars, KeepsOthers(w),
         job' \in [Workers -> Jobs \cup {None}], WorkerTypes',
         InHand(w)', LineageSoFar(w)', OwnsItsRow(w)',
         Owns(w)' => Owns(w) /\ RowId(w)' = RowId(w)
  PROVE  IndInv'
<1>1. TypeOK'
  <2>1. TypeOK
    BY DEF IndInv
  <2>2. QED
    BY <2>1 DEF TypeOK, WorkerTypes, storeVars
<1>2. /\ AbsentEmitsNothing' /\ CacheIsDerived' /\ CacheHasLineage'
      /\ SuccessIsMemoized' /\ FailClosedEmitsNothing'
      /\ TablesGrow /\ ByOwner(w)
  BY TablesKept
<1>3. Owns(w)' => \A v \in Workers \ {w} : Owns(v) => RowId(v) # RowId(w)'
  BY DEF IndInv, Exclusive
<1>4. /\ \A v \in Workers : InHand(v)' /\ LineageSoFar(v)' /\ OwnsItsRow(v)'
      /\ Exclusive'
  BY <1>2, <1>3, WorkersInd
<1>5. QED
  BY <1>1, <1>2, <1>4 DEF IndInv

\* A refused statement ends the run and writes nothing.
LEMMA AbortInd ==
  ASSUME IndInv, NEW w \in Workers, NEW why \in Returns, Abort(w, why)
  PROVE  IndInv'
<1>1. TypeOK
  BY DEF IndInv
<1>2. WorkerTypes' /\ pc'[w] = "aborted" /\ job' = job
  BY <1>1 DEF Abort, TypeOK, WorkerTypes, Labels, Terminal
<1>3. InHand(w)' /\ LineageSoFar(w)' /\ OwnsItsRow(w)' /\ ~Owns(w)'
  BY <1>2 DEF InHand, LineageSoFar, OwnsItsRow, Owns, Emitting, Terminal
<1>4. KeepsOthers(w) /\ UNCHANGED storeVars
  BY <1>1 DEF Abort, KeepsOthers, TypeOK
<1>5. job' \in [Workers -> Jobs \cup {None}]
  BY <1>1, <1>2 DEF TypeOK
<1>6. QED
  BY <1>2, <1>3, <1>4, <1>5, QuietInd

\* A call of run() starts without a row.
LEMMA StartInd ==
  ASSUME IndInv, NEW w \in Workers, NEW j \in Jobs, Start(w, j)
  PROVE  IndInv'
<1>1. TypeOK /\ WorkerTypes
  BY DEF IndInv, TypeOK, WorkerTypes
<1>2. /\ job' = [job EXCEPT ![w] = j] /\ EnterStage(w, 1, <<>>)
      /\ UNCHANGED storeVars
  BY DEF Start
<1>3. job' \in [Workers -> Jobs \cup {None}] /\ job'[w] \in Jobs
  BY <1>1, <1>2 DEF TypeOK
<1>4. 1 \in 1..(NumStages + 1) /\ <<>> \in Seq(Outputs) /\ Len(<<>>) = 1 - 1
  BY OrchestratorAssumption
<1>5. /\ WorkerTypes'
      /\ InHand(w)' /\ LineageSoFar(w)' /\ OwnsItsRow(w)' /\ ~Owns(w)'
  <2> DEFINE empty == <<>>
  <2>1. empty \in Seq(Outputs) /\ Len(empty) = 1 - 1 /\ EnterStage(w, 1, empty)
    BY <1>2, <1>4
  <2> HIDE DEF empty
  <2>2. QED
    BY <1>1, <1>3, <1>4, <2>1, EnterStageInd
<1>6. KeepsOthers(w)
  BY <1>1, <1>2, EnterStageKeepsOthers DEF TypeOK
<1>7. QED
  BY <1>2, <1>3, <1>5, <1>6, QuietInd

\* A dead process owns nothing, and leaves the tables as they are.
LEMMA CrashInd ==
  ASSUME IndInv, NEW w \in Workers, Crash(w)
  PROVE  IndInv'
<1>1. TypeOK
  BY DEF IndInv
<1>2. WorkerTypes' /\ pc'[w] = "idle"
  BY <1>1, OrchestratorAssumption DEF Crash, TypeOK, WorkerTypes, Labels, Terminal, Returns
<1>3. InHand(w)' /\ LineageSoFar(w)' /\ OwnsItsRow(w)' /\ ~Owns(w)'
  BY <1>2 DEF InHand, LineageSoFar, OwnsItsRow, Owns, Emitting, Terminal
<1>4. KeepsOthers(w) /\ UNCHANGED storeVars
  BY <1>1 DEF Crash, KeepsOthers, TypeOK
<1>5. job' \in [Workers -> Jobs \cup {None}]
  BY <1>1 DEF Crash, TypeOK
<1>6. QED
  BY <1>2, <1>3, <1>4, <1>5, QuietInd

-----------------------------------------------------------------------------
(* put_artifact.                                                           *)

\* put_artifact returns to its caller once the artifact is stored.
LEMMA PutReturns ==
  ASSUME IndInv, NEW w \in Workers, Putting(w), Goto(w, ret[w]),
         obj[w] \in artifacts', artifacts \subseteq artifacts',
         UNCHANGED <<artifact_edges, stage_cache, stage_runs>>
  PROVE  /\ WorkerTypes' /\ KeepsOthers(w)
         /\ InHand(w)' /\ LineageSoFar(w)' /\ OwnsItsRow(w)'
         /\ Owns(w)' => Owns(w) /\ RowId(w)' = RowId(w)
<1>1. /\ TypeOK /\ InHand(w) /\ LineageSoFar(w) /\ OwnsItsRow(w)
      /\ pc[w] \notin Terminal /\ pc[w] \notin Emitting
  BY DEF IndInv, Putting, Terminal, Emitting
<1>2. ret[w] \in {"lookup", "failed", "fail_closed", "consumes"}
  BY <1>1 DEF InHand
<1>3. /\ pc' = [pc EXCEPT ![w] = ret[w]] /\ job' = job /\ stage' = stage
      /\ outputs' = outputs /\ obj' = obj /\ ret' = ret /\ cursor' = cursor
  BY DEF Goto
<1>4. WorkerTypes' /\ KeepsOthers(w) /\ pc'[w] = ret[w]
  BY <1>1, <1>2, <1>3 DEF TypeOK, WorkerTypes, KeepsOthers, Labels, Terminal
<1>5. RowId(w)' = RowId(w) /\ Input(w)' = Input(w)
  BY <1>3 DEF RowId, Input
<1>6. ~Putting(w)' /\ (Owns(w)' <=> ret[w] \in {"fail_closed", "consumes"})
  BY <1>2, <1>4 DEF Putting, Owns
<1>7. Owns(w) <=> ret[w] \in {"fail_closed", "consumes"}
  BY DEF Owns, Putting
<1>8. InHand(w)'
  BY <1>1, <1>2, <1>3, <1>4, <1>5, <1>6, <1>7 DEF InHand, Emitting, Terminal
<1>9. OwnsItsRow(w)'
  BY <1>1, <1>5, <1>6, <1>7 DEF OwnsItsRow
<1>10. LineageSoFar(w)'
  <2>1. cursor[w] = 0
    BY <1>1 DEF InHand
  <2>2. \A k \in 1..Len(outputs[w]) : ~(k < 0)
    BY <1>1 DEF TypeOK
  <2>3. QED
    BY <1>1, <1>2, <1>3, <1>4, <1>5, <1>6, <1>7, <2>1, <2>2
       DEF LineageSoFar, Emitting, NoEdgeOf
<1>11. QED
  BY <1>4, <1>5, <1>6, <1>7, <1>8, <1>9, <1>10

\* The read of put_artifact.
LEMMA PutSelectInd ==
  ASSUME IndInv, NEW w \in Workers, PutSelect(w)
  PROVE  IndInv'
<1>1. /\ TypeOK /\ InHand(w) /\ LineageSoFar(w) /\ OwnsItsRow(w)
      /\ Putting(w) /\ UNCHANGED storeVars /\ job' = job
  BY DEF IndInv, PutSelect, Putting, Goto
<1>2. CASE obj[w] \in artifacts
  <2>1. /\ WorkerTypes' /\ KeepsOthers(w)
        /\ InHand(w)' /\ LineageSoFar(w)' /\ OwnsItsRow(w)'
        /\ Owns(w)' => Owns(w) /\ RowId(w)' = RowId(w)
    BY <1>1, <1>2, PutReturns DEF PutSelect, storeVars
  <2>2. QED
    BY <1>1, <2>1, QuietInd DEF TypeOK
<1>3. CASE obj[w] \notin artifacts
  <2>1. /\ pc[w] = "select" /\ pc' = [pc EXCEPT ![w] = "insert"] /\ stage' = stage
        /\ outputs' = outputs /\ obj' = obj /\ ret' = ret /\ cursor' = cursor
    BY <1>3 DEF PutSelect, Goto
  <2>2. WorkerTypes' /\ KeepsOthers(w) /\ pc'[w] = "insert"
    BY <1>1, <2>1 DEF TypeOK, WorkerTypes, KeepsOthers, Labels, Terminal
  <2>3. RowId(w)' = RowId(w) /\ Input(w)' = Input(w)
    BY <1>1, <2>1 DEF RowId, Input
  <2>4. Owns(w)' <=> Owns(w)
    BY <2>1, <2>2 DEF Owns
  <2>5. InHand(w)' /\ LineageSoFar(w)' /\ OwnsItsRow(w)'
    BY <1>1, <2>1, <2>2, <2>3, <2>4
       DEF InHand, LineageSoFar, OwnsItsRow, Putting, Emitting, Terminal, storeVars, NoEdgeOf
  <2>6. QED
    BY <1>1, <2>2, <2>3, <2>4, <2>5, QuietInd DEF TypeOK
<1>4. QED
  BY <1>2, <1>3

\* The insert of put_artifact.
LEMMA PutInsertInd ==
  ASSUME IndInv, NEW w \in Workers, PutInsert(w)
  PROVE  IndInv'
<1>1. TypeOK /\ InHand(w) /\ Putting(w)
  BY DEF IndInv, PutInsert, Putting
<1>2. CASE obj[w] \in artifacts
  BY <1>2, AbortInd DEF PutInsert, Returns
<1>3. CASE obj[w] \notin artifacts
  <2>1. /\ artifacts' = artifacts \cup {obj[w]} /\ Goto(w, ret[w])
        /\ UNCHANGED <<artifact_edges, stage_cache, stage_runs>>
    BY <1>3 DEF PutInsert, InsertArtifact
  <2>2. /\ WorkerTypes' /\ KeepsOthers(w)
        /\ InHand(w)' /\ LineageSoFar(w)' /\ OwnsItsRow(w)'
        /\ Owns(w)' => Owns(w) /\ RowId(w)' = RowId(w)
    BY <1>1, <2>1, PutReturns
  <2>3. obj[w] \in StageInputs \cup Outputs \cup Errors
    <3>1. pc[w] \notin Terminal
      BY <1>1 DEF Putting, Terminal
    <3>2. Input(w) \in StageInputs
      BY <1>1, <3>1, RunningTypes
    <3>3. QED
      BY <1>1, <3>1, <3>2 DEF InHand
  <2>4. TypeOK'
    BY <1>1, <2>1, <2>2, <2>3 DEF TypeOK, WorkerTypes, Goto
  <2>5. /\ AbsentEmitsNothing' /\ CacheIsDerived' /\ CacheHasLineage'
        /\ SuccessIsMemoized' /\ FailClosedEmitsNothing'
    BY <2>1 DEF IndInv, AbsentEmitsNothing, NoEdgeOf, CacheIsDerived,
       CacheHasLineage, HasLineage, SuccessIsMemoized, CacheLookup, FailClosedEmitsNothing
  <2>6. TablesGrow /\ ByOwner(w)
    BY <2>1 DEF TablesGrow, ByOwner
  <2>7. Owns(w)' => \A v \in Workers \ {w} : Owns(v) => RowId(v) # RowId(w)'
    BY <2>2 DEF IndInv, Exclusive
  <2>8. /\ \A v \in Workers : InHand(v)' /\ LineageSoFar(v)' /\ OwnsItsRow(v)'
        /\ Exclusive'
    BY <2>2, <2>6, <2>7, WorkersInd
  <2>9. QED
    BY <2>4, <2>5, <2>8 DEF IndInv
<1>4. QED
  BY <1>2, <1>3

-----------------------------------------------------------------------------
(* Cache lookup and hit.                                                   *)

\* A hit is a memoized output of exactly this input.
LEMMA LookupInd ==
  ASSUME IndInv, NEW w \in Workers, Lookup(w)
  PROVE  IndInv'
<1>1. /\ TypeOK /\ InHand(w) /\ pc[w] = "lookup" /\ UNCHANGED storeVars
      /\ job' = job /\ stage' = stage /\ outputs' = outputs /\ ret' = ret
      /\ cursor' = cursor
  BY DEF IndInv, Lookup, Goto
<1>2. /\ pc' \in [Workers -> Labels] /\ obj' = [obj EXCEPT ![w] = obj'[w]]
      /\ pc' = [pc EXCEPT ![w] = pc'[w]]
      /\ \/ pc'[w] = "insert_run" /\ obj'[w] = obj[w]
         \/ pc'[w] = "hit_edge" /\ obj'[w] \in CacheLookup(Input(w))
  BY <1>1 DEF Lookup, Goto, TypeOK, Labels
<1>3. Input(w)' = Input(w)
  BY <1>1 DEF Input
<1>4. obj'[w] \in CacheLookup(Input(w)) =>
        [input |-> Input(w), output |-> obj'[w]] \in stage_cache /\ obj'[w] \in Outputs
  <2> SUFFICES ASSUME obj'[w] \in CacheLookup(Input(w))
               PROVE  [input |-> Input(w), output |-> obj'[w]] \in stage_cache
                      /\ obj'[w] \in Outputs
    OBVIOUS
  <2>1. PICK c \in stage_cache : c.input = Input(w) /\ c.output = obj'[w]
    BY DEF CacheLookup
  <2>2. c \in [input : StageInputs, output : Outputs]
    BY <1>1 DEF TypeOK
  <2>3. c = [input |-> Input(w), output |-> obj'[w]]
    BY <2>1, <2>2
  <2>4. QED
    BY <2>1, <2>2, <2>3
<1>5. WorkerTypes' /\ KeepsOthers(w)
  BY <1>1, <1>2, <1>4 DEF TypeOK, WorkerTypes, KeepsOthers
<1>6. ~Owns(w)' /\ ~Putting(w)' /\ pc'[w] \notin Emitting /\ pc'[w] # "fail_closed"
  BY <1>2 DEF Owns, Putting, Emitting
<1>7. InHand(w)'
  BY <1>1, <1>2, <1>3, <1>4, <1>6 DEF InHand, storeVars, Emitting, Terminal, Putting
<1>8. LineageSoFar(w)' /\ OwnsItsRow(w)'
  BY <1>2, <1>6 DEF LineageSoFar, OwnsItsRow, Emitting
<1>9. QED
  BY <1>1, <1>5, <1>6, <1>7, <1>8, QuietInd DEF TypeOK

\* Moving on to the next stage keeps the worker's part of the invariant.
LEMMA AdvanceInd ==
  ASSUME IndInv, NEW w \in Workers, pc[w] \notin Terminal, NEW out \in Outputs,
         job' = job, EnterStage(w, stage[w] + 1, Append(outputs[w], out))
  PROVE  /\ WorkerTypes' /\ KeepsOthers(w)
         /\ InHand(w)' /\ LineageSoFar(w)' /\ OwnsItsRow(w)' /\ ~Owns(w)'
<1> DEFINE outs == Append(outputs[w], out)
           i == stage[w] + 1
<1>1. TypeOK /\ WorkerTypes /\ InHand(w)
  BY DEF IndInv, TypeOK, WorkerTypes
<1>2. job' \in [Workers -> Jobs \cup {None}] /\ job'[w] \in Jobs
  BY <1>1 DEF TypeOK, InHand
<1>3. stage[w] \in Stages /\ outputs[w] \in Seq(Outputs) /\ Len(outputs[w]) = stage[w] - 1
  BY <1>1 DEF TypeOK, InHand
<1>4. i \in 1..(NumStages + 1) /\ outs \in Seq(Outputs) /\ Len(outs) = i - 1
  BY <1>3, OrchestratorAssumption DEF Stages
<1>5. EnterStage(w, i, outs)
  OBVIOUS
<1> HIDE DEF outs, i
<1>6. KeepsOthers(w)
  BY <1>1, <1>5, EnterStageKeepsOthers
<1>7. QED
  BY <1>1, <1>2, <1>4, <1>5, <1>6, EnterStageInd

\* A hit's edge has no stage_run.
LEMMA HitEdgeInd ==
  ASSUME IndInv, NEW w \in Workers, HitEdge(w)
  PROVE  IndInv'
<1>1. TypeOK /\ InHand(w) /\ pc[w] = "hit_edge" /\ pc[w] \notin Terminal
  BY DEF IndInv, HitEdge, Terminal
<1>2. CASE ~ReferencesHold({Input(w), obj[w]})
  BY <1>2, AbortInd DEF HitEdge, Returns
<1>3. CASE ReferencesHold({Input(w), obj[w]})
  <2> DEFINE e == Edge(Input(w), obj[w], "produces", None)
  <2>1. /\ artifact_edges' = artifact_edges \cup {e}
        /\ UNCHANGED <<artifacts, stage_cache, stage_runs>> /\ job' = job
        /\ EnterStage(w, stage[w] + 1, Append(outputs[w], obj[w]))
    BY <1>3 DEF HitEdge, RecordEdge
  <2>2. Input(w) \in StageInputs /\ obj[w] \in Outputs
    BY <1>1, RunningTypes DEF InHand, TypeOK
  <2>3. /\ WorkerTypes' /\ KeepsOthers(w)
        /\ InHand(w)' /\ LineageSoFar(w)' /\ OwnsItsRow(w)' /\ ~Owns(w)'
    BY <1>1, <2>1, <2>2, AdvanceInd
  <2>4. e \in EdgeType /\ e.run = None
    BY <2>2 DEF Edge, EdgeType
  <2>5. TypeOK'
    BY <1>1, <2>1, <2>3, <2>4 DEF TypeOK, WorkerTypes
  <2> HIDE DEF e
  <2>6. TablesGrow /\ ByOwner(w)
    BY <2>1, <2>4 DEF TablesGrow, ByOwner
  <2>7. /\ AbsentEmitsNothing' /\ CacheIsDerived' /\ CacheHasLineage'
        /\ SuccessIsMemoized' /\ FailClosedEmitsNothing'
    BY <2>1, <2>4, OrchestratorAssumption
       DEF IndInv, AbsentEmitsNothing, NoEdgeOf, CacheIsDerived, CacheHasLineage,
           HasLineage, SuccessIsMemoized, CacheLookup, FailClosedEmitsNothing
  <2>8. /\ \A v \in Workers : InHand(v)' /\ LineageSoFar(v)' /\ OwnsItsRow(v)'
        /\ Exclusive'
    BY <2>3, <2>6, WorkersInd
  <2>9. QED
    BY <2>5, <2>7, <2>8 DEF IndInv
<1>4. QED
  BY <1>2, <1>3

-----------------------------------------------------------------------------
(* A cache miss: the row, the handler and its failures.                    *)

\* A lineage recorded under an id gives that id an edge.
LEMMA LineageHasEdge ==
  ASSUME NEW in, NEW out, NEW id, HasLineage(in, out, id)
  PROVE  ~NoEdgeOf(id)
BY DEF HasLineage, NoEdgeOf, Edge

\* A new row had no edge, and gets an owner nobody else is.
LEMMA InsertRunInd ==
  ASSUME IndInv, NEW w \in Workers, InsertRun(w)
  PROVE  IndInv'
<1>1. TypeOK /\ InHand(w) /\ pc[w] = "insert_run" /\ pc[w] \notin Terminal
  BY DEF IndInv, InsertRun, Terminal
<1> DEFINE id == RowId(w)
<1>2. id \in RunStages /\ Input(w) \in StageInputs
  BY <1>1, RunningTypes
<1>3. CASE pc'[w] = "aborted"
  BY <1>3, <1>1, AbortInd DEF InsertRun, Goto, Returns, TypeOK
<1>4. CASE pc'[w] # "aborted"
  <2> DEFINE row == [status |-> "open", input |-> Input(w), result |-> None]
  <2>1. /\ stage_runs[id].status = "absent"
        /\ stage_runs' = [stage_runs EXCEPT ![id] = row]
        /\ Goto(w, "handler")
        /\ UNCHANGED <<artifacts, artifact_edges, stage_cache>>
    BY <1>1, <1>4 DEF InsertRun, Abort, StageRunInsertable, InsertStageRun, TypeOK
  <2>2. /\ pc' = [pc EXCEPT ![w] = "handler"] /\ job' = job /\ stage' = stage
        /\ outputs' = outputs /\ obj' = obj /\ ret' = ret /\ cursor' = cursor
    BY <2>1 DEF Goto
  <2>3. pc'[w] = "handler" /\ RowId(w)' = id /\ Input(w)' = Input(w)
    BY <1>1, <2>2 DEF TypeOK, RowId, Input
  <2>4. row \in RowType
    BY <1>2 DEF RowType, RowStatus
  <2>5. TypeOK' /\ KeepsOthers(w)
    BY <1>1, <2>1, <2>2, <2>4 DEF TypeOK, KeepsOthers, Labels
  <2>6. stage_runs'[id] = row /\ \A x \in RunStages \ {id} : stage_runs'[x] = stage_runs[x]
    BY <1>1, <1>2, <2>1 DEF TypeOK
  <2>7. NoEdgeOf(id)
    BY <1>2, <2>1 DEF IndInv, AbsentEmitsNothing
  <2>8. \A v \in Workers \ {w} : Owns(v) => RowId(v) # id
    BY <2>1 DEF IndInv, OwnsItsRow
  <2>9. InHand(w)' /\ LineageSoFar(w)' /\ OwnsItsRow(w)'
    <3>1. InHand(w)'
      BY <1>1, <2>1, <2>2, <2>3 DEF InHand, Putting, Emitting, Terminal
    <3>2. LineageSoFar(w)'
      BY <2>1, <2>3, <2>7 DEF LineageSoFar, Emitting, NoEdgeOf
    <3>3. OwnsItsRow(w)'
      BY <2>3, <2>6 DEF OwnsItsRow
    <3>4. QED
      BY <3>1, <3>2, <3>3
  <2>10. TablesGrow /\ ByOwner(w)
    BY <2>1, <2>6 DEF TablesGrow, ByOwner
  <2>11. AbsentEmitsNothing' /\ CacheIsDerived'
    BY <2>1, <2>6 DEF IndInv, AbsentEmitsNothing, NoEdgeOf, CacheIsDerived
  <2>12. CacheHasLineage'
    <3>1. \A in, out : \A x \in RunStages : HasLineage(in, out, x) =>
            HasLineage(in, out, x)' /\ x # id /\ stage_runs'[x] = stage_runs[x]
      BY <2>1, <2>6, <2>7, LineageHasEdge DEF HasLineage
    <3>2. QED
      BY <2>1, <3>1 DEF IndInv, CacheHasLineage
  <2>13. SuccessIsMemoized' /\ FailClosedEmitsNothing'
    BY <2>1, <2>6 DEF IndInv, SuccessIsMemoized, FailClosedEmitsNothing, HasLineage,
       CacheLookup
  <2>14. /\ \A v \in Workers : InHand(v)' /\ LineageSoFar(v)' /\ OwnsItsRow(v)'
         /\ Exclusive'
    BY <2>3, <2>5, <2>8, <2>9, <2>10, WorkersInd
  <2>15. QED
    BY <2>5, <2>11, <2>12, <2>13, <2>14 DEF IndInv
<1>5. QED
  BY <1>3, <1>4

\* What the handler returned, or its error record, is in hand.
LEMMA HandledInd ==
  ASSUME IndInv, NEW w \in Workers, pc[w] = "handler",
         UNCHANGED <<storeVars, job, stage, outputs, cursor>>,
         \/ \E out \in Handler(Input(w)) \cap Outputs : CallPut(w, out, "consumes")
         \/ \E err \in Errors : CallPut(w, err, "fail_closed")
  PROVE  IndInv'
<1>1. /\ TypeOK /\ InHand(w) /\ LineageSoFar(w) /\ OwnsItsRow(w)
      /\ pc[w] = "handler" /\ pc[w] \notin Terminal /\ pc[w] \notin Emitting
  BY DEF IndInv, Terminal, Emitting
<1>2. UNCHANGED <<storeVars, job, stage, outputs, cursor>>
  OBVIOUS
<1>3. PICK h \in Outputs \cup Errors, r \in {"consumes", "fail_closed"} :
        /\ CallPut(w, h, r)
        /\ \/ r = "consumes" /\ h \in Outputs \cap Handler(Input(w))
           \/ r = "fail_closed" /\ h \in Errors
  OBVIOUS
<1>4. /\ pc' = [pc EXCEPT ![w] = "select"]
      /\ obj' = [obj EXCEPT ![w] = h] /\ ret' = [ret EXCEPT ![w] = r]
  BY <1>3 DEF CallPut
<1>5. /\ WorkerTypes' /\ KeepsOthers(w)
      /\ pc'[w] = "select" /\ obj'[w] = h /\ ret'[w] = r
  BY <1>1, <1>2, <1>4 DEF TypeOK, WorkerTypes, KeepsOthers, Labels, Returns
<1>6. RowId(w)' = RowId(w) /\ Input(w)' = Input(w)
  BY <1>2 DEF RowId, Input
<1>7. Owns(w) /\ Owns(w)' /\ Putting(w)' /\ Input(w) \in artifacts
  BY <1>1, <1>5 DEF Owns, Putting, InHand
<1>8. InHand(w)'
  BY <1>1, <1>2, <1>3, <1>5, <1>6, <1>7 DEF InHand, Emitting, storeVars
<1>9. LineageSoFar(w)' /\ OwnsItsRow(w)'
  BY <1>1, <1>2, <1>5, <1>6, <1>7 DEF LineageSoFar, OwnsItsRow, NoEdgeOf, Emitting, storeVars
<1>10. QED
  BY <1>1, <1>2, <1>5, <1>6, <1>7, <1>8, <1>9, QuietInd DEF TypeOK

\* The handler.
LEMMA HandleInd ==
  ASSUME IndInv, NEW w \in Workers, Handle(w)
  PROVE  IndInv'
<1>1. CASE Abort(w, "not_json")
  BY <1>1, AbortInd DEF Returns
<1>2. CASE ~Abort(w, "not_json")
  BY <1>2, HandledInd DEF Handle
<1>3. QED
  BY <1>1, <1>2

\* A row is marked fail-closed by its owner, before any edge.
LEMMA FailClosedInd ==
  ASSUME IndInv, NEW w \in Workers, FailClosed(w)
  PROVE  IndInv'
<1> DEFINE id == RowId(w)
<1>1. /\ TypeOK /\ InHand(w) /\ LineageSoFar(w) /\ OwnsItsRow(w)
      /\ pc[w] = "fail_closed" /\ pc[w] \notin Terminal /\ Owns(w)
  BY DEF IndInv, FailClosed, Terminal, Owns
<1>2. id \in RunStages
  BY <1>1, RunningTypes
<1>3. /\ obj[w] \in Errors \cap artifacts /\ NoEdgeOf(id)
      /\ stage_runs[id].status = "open"
  BY <1>1 DEF InHand, LineageSoFar, OwnsItsRow, Emitting
<1>4. /\ stage_runs' = [stage_runs EXCEPT ![id].status = "fail_closed", ![id].result = obj[w]]
      /\ pc' = [pc EXCEPT ![w] = "failed"] /\ job' = job /\ stage' = stage
      /\ outputs' = outputs /\ obj' = obj /\ ret' = ret /\ cursor' = cursor
      /\ UNCHANGED <<artifacts, artifact_edges, stage_cache>>
  BY DEF FailClosed, FinalizeStageRun, Goto
<1>5. /\ stage_runs' \in [RunStages -> RowType]
      /\ stage_runs'[id].status = "fail_closed" /\ stage_runs'[id].result = obj[w]
      /\ stage_runs'[id].input = stage_runs[id].input
      /\ \A x \in RunStages \ {id} : stage_runs'[x] = stage_runs[x]
  BY <1>1, <1>2, <1>3, <1>4 DEF TypeOK, RowType, RowStatus
<1>6. WorkerTypes' /\ KeepsOthers(w) /\ TypeOK' /\ pc'[w] = "failed"
  BY <1>1, <1>4, <1>5 DEF TypeOK, WorkerTypes, KeepsOthers, Labels, Terminal
<1>7. InHand(w)' /\ LineageSoFar(w)' /\ OwnsItsRow(w)' /\ ~Owns(w)'
  BY <1>6 DEF InHand, LineageSoFar, OwnsItsRow, Owns, Emitting, Terminal
<1>8. TablesGrow /\ ByOwner(w)
  BY <1>1, <1>4, <1>5 DEF TablesGrow, ByOwner
<1>9. AbsentEmitsNothing' /\ CacheIsDerived'
  BY <1>4, <1>5 DEF IndInv, AbsentEmitsNothing, NoEdgeOf, CacheIsDerived
<1>10. CacheHasLineage' /\ SuccessIsMemoized'
  BY <1>4, <1>5 DEF IndInv, CacheHasLineage, SuccessIsMemoized, HasLineage, CacheLookup
<1>11. FailClosedEmitsNothing'
  BY <1>3, <1>4, <1>5 DEF IndInv, FailClosedEmitsNothing, NoEdgeOf
<1>12. /\ \A v \in Workers : InHand(v)' /\ LineageSoFar(v)' /\ OwnsItsRow(v)'
       /\ Exclusive'
  BY <1>6, <1>7, <1>8, WorkersInd
<1>13. QED
  BY <1>6, <1>9, <1>10, <1>11, <1>12 DEF IndInv

-----------------------------------------------------------------------------
(* Lineage, memoization and success.                                       *)

\* A row's owner adds an edge with its id.
LEMMA OwnEdge ==
  ASSUME IndInv, NEW w \in Workers, Owns(w), NEW e \in EdgeType, e.run = RowId(w),
         artifact_edges' = artifact_edges \cup {e},
         UNCHANGED <<artifacts, stage_cache, stage_runs>>
  PROVE  /\ AbsentEmitsNothing' /\ CacheIsDerived' /\ CacheHasLineage'
         /\ SuccessIsMemoized' /\ FailClosedEmitsNothing'
         /\ TablesGrow /\ ByOwner(w)
         /\ artifact_edges' \subseteq EdgeType
<1>1. stage_runs[RowId(w)].status = "open"
  BY DEF IndInv, OwnsItsRow
<1>2. AbsentEmitsNothing' /\ CacheIsDerived' /\ FailClosedEmitsNothing'
  BY <1>1 DEF IndInv, AbsentEmitsNothing, NoEdgeOf, CacheIsDerived, FailClosedEmitsNothing
<1>3. CacheHasLineage' /\ SuccessIsMemoized'
  BY DEF IndInv, CacheHasLineage, SuccessIsMemoized, HasLineage, CacheLookup
<1>4. TablesGrow /\ ByOwner(w)
  BY DEF TablesGrow, ByOwner
<1>5. QED
  BY <1>2, <1>3, <1>4 DEF IndInv, TypeOK

\* One more consumes edge.
LEMMA ConsumesInd ==
  ASSUME IndInv, NEW w \in Workers, Consumes(w)
  PROVE  IndInv'
<1> DEFINE from == IF cursor[w] = 0 THEN job[w].docpack ELSE outputs[w][cursor[w]]
           e == Edge(from, Input(w), "consumes", RowId(w))
<1>1. /\ TypeOK /\ InHand(w) /\ LineageSoFar(w) /\ OwnsItsRow(w)
      /\ pc[w] = "consumes" /\ pc[w] \notin Terminal /\ Owns(w)
  BY DEF IndInv, Consumes, Terminal, Owns
<1>2. CASE ~ReferencesHold({from, Input(w)})
  BY <1>2, AbortInd DEF Consumes, Returns
<1>3. CASE ReferencesHold({from, Input(w)})
  <2>1. /\ artifact_edges' = artifact_edges \cup {e}
        /\ UNCHANGED <<artifacts, stage_cache, stage_runs, job, stage, outputs, obj, ret>>
        /\ \/ /\ cursor[w] < Len(outputs[w])
              /\ cursor' = [cursor EXCEPT ![w] = @ + 1] /\ pc' = pc
           \/ /\ ~(cursor[w] < Len(outputs[w]))
              /\ cursor' = cursor /\ pc' = [pc EXCEPT ![w] = "produces"]
    BY <1>3 DEF Consumes, RecordEdge
  <2>2. /\ Input(w) \in StageInputs /\ RowId(w) \in RunStages
        /\ job[w] \in Jobs /\ cursor[w] \in 0..Len(outputs[w])
        /\ outputs[w] \in Seq(Outputs)
    BY <1>1, RunningTypes DEF InHand, TypeOK
  <2>3. from \in Externals \cup Outputs
    BY <2>2, OrchestratorAssumption DEF Externals, JobType
  <2>4. e \in EdgeType /\ e.run = RowId(w)
    BY <2>2, <2>3 DEF Edge, EdgeType
  <2>5. /\ AbsentEmitsNothing' /\ CacheIsDerived' /\ CacheHasLineage'
        /\ SuccessIsMemoized' /\ FailClosedEmitsNothing'
        /\ TablesGrow /\ ByOwner(w) /\ artifact_edges' \subseteq EdgeType
    BY <1>1, <2>1, <2>4, OwnEdge
  <2>6. TypeOK' /\ KeepsOthers(w)
    <3> HIDE DEF e
    <3>1. /\ pc' \in [Workers -> Labels] /\ cursor' \in [Workers -> Nat]
          /\ \A v \in Workers \ {w} : pc'[v] = pc[v] /\ cursor'[v] = cursor[v]
      <4>1. pc \in [Workers -> Labels] /\ cursor \in [Workers -> Nat]
        BY <1>1 DEF TypeOK
      <4>2. CASE cursor[w] < Len(outputs[w])
        BY <2>1, <4>1, <4>2
      <4>3. CASE ~(cursor[w] < Len(outputs[w]))
        BY <2>1, <4>1, <4>3 DEF Labels
      <4>4. QED
        BY <4>2, <4>3
    <3>2. QED
      BY <1>1, <2>1, <2>5, <3>1 DEF TypeOK, KeepsOthers
  <2>7. RowId(w)' = RowId(w) /\ Input(w)' = Input(w) /\ pc'[w] \in {"consumes", "produces"}
    BY <1>1, <2>1 DEF RowId, Input, TypeOK
  <2>8. Owns(w)' /\ OwnsItsRow(w)'
    BY <1>1, <2>1, <2>7 DEF Owns, OwnsItsRow
  <2>9. InHand(w)'
    BY <1>1, <2>1, <2>2, <2>7 DEF InHand, TypeOK, Putting, Emitting, Terminal
  <2>10. LineageSoFar(w)'
    <3>1. \A k \in 1..Len(outputs[w]) : k < cursor[w] =>
            Edge(outputs[w][k], Input(w), "consumes", RowId(w)) \in artifact_edges'
      BY <1>1, <2>1 DEF LineageSoFar, Emitting
    <3>2. cursor[w] > 0 =>
            Edge(job[w].docpack, Input(w), "consumes", RowId(w)) \in artifact_edges'
      BY <1>1, <2>1 DEF LineageSoFar, Emitting
    <3>3. /\ cursor[w] = 0 => e = Edge(job[w].docpack, Input(w), "consumes", RowId(w))
          /\ \A k \in 1..Len(outputs[w]) : k = cursor[w] =>
               e = Edge(outputs[w][k], Input(w), "consumes", RowId(w))
      BY <2>2
    <3>4. e \in artifact_edges'
      BY <2>1
    <3> HIDE DEF e
    <3>5. CASE cursor[w] < Len(outputs[w])
      <4>1. pc'[w] = "consumes" /\ cursor'[w] = cursor[w] + 1
        BY <1>1, <2>1, <3>5 DEF TypeOK
      <4>2. \A k \in 1..Len(outputs[w]) : k < cursor[w] + 1 => k < cursor[w] \/ k = cursor[w]
        BY <2>2
      <4>3. cursor[w] = 0 \/ cursor[w] > 0
        BY <2>2
      <4>4. QED
        BY <2>1, <2>7, <3>1, <3>2, <3>3, <3>4, <4>1, <4>2, <4>3
           DEF LineageSoFar, Emitting
    <3>6. CASE ~(cursor[w] < Len(outputs[w]))
      <4>1. pc'[w] = "produces"
        BY <1>1, <2>1, <3>6 DEF TypeOK
      <4>2. \A k \in 1..Len(outputs[w]) : k < cursor[w] \/ k = cursor[w]
        BY <2>2, <3>6
      <4>3. cursor[w] = 0 \/ cursor[w] > 0
        BY <2>2
      <4>4. QED
        BY <2>1, <2>7, <3>1, <3>2, <3>3, <3>4, <4>1, <4>2, <4>3
           DEF LineageSoFar, Emitting
    <3>7. QED
      BY <3>5, <3>6
  <2>11. Owns(w)' => \A v \in Workers \ {w} : Owns(v) => RowId(v) # RowId(w)'
    BY <1>1, <2>7 DEF IndInv, Exclusive
  <2>12. /\ \A v \in Workers : InHand(v)' /\ LineageSoFar(v)' /\ OwnsItsRow(v)'
         /\ Exclusive'
    BY <2>5, <2>6, <2>8, <2>9, <2>10, <2>11, WorkersInd
  <2>13. QED
    BY <2>5, <2>6, <2>12 DEF IndInv
<1>4. QED
  BY <1>2, <1>3

\* The edge to the output.
LEMMA ProducesInd ==
  ASSUME IndInv, NEW w \in Workers, Produces(w)
  PROVE  IndInv'
<1> DEFINE e == Edge(Input(w), obj[w], "produces", RowId(w))
<1>1. /\ TypeOK /\ InHand(w) /\ LineageSoFar(w) /\ OwnsItsRow(w)
      /\ pc[w] = "produces" /\ pc[w] \notin Terminal /\ Owns(w)
  BY DEF IndInv, Produces, Terminal, Owns
<1>2. CASE ~ReferencesHold({Input(w), obj[w]})
  BY <1>2, AbortInd DEF Produces, Returns
<1>3. CASE ReferencesHold({Input(w), obj[w]})
  <2>1. /\ artifact_edges' = artifact_edges \cup {e} /\ Goto(w, "record")
        /\ UNCHANGED <<artifacts, stage_cache, stage_runs>>
    BY <1>3 DEF Produces, RecordEdge
  <2>2. /\ Input(w) \in StageInputs /\ RowId(w) \in RunStages /\ obj[w] \in Outputs
    BY <1>1, RunningTypes DEF InHand, Emitting
  <2>3. e \in EdgeType /\ e.run = RowId(w) /\ e \in artifact_edges'
    BY <2>1, <2>2 DEF Edge, EdgeType
  <2>4. /\ AbsentEmitsNothing' /\ CacheIsDerived' /\ CacheHasLineage'
        /\ SuccessIsMemoized' /\ FailClosedEmitsNothing'
        /\ TablesGrow /\ ByOwner(w) /\ artifact_edges' \subseteq EdgeType
    BY <1>1, <2>1, <2>3, OwnEdge
  <2>5. /\ pc' = [pc EXCEPT ![w] = "record"] /\ job' = job /\ stage' = stage
        /\ outputs' = outputs /\ obj' = obj /\ ret' = ret /\ cursor' = cursor
    BY <2>1 DEF Goto
  <2>6. TypeOK' /\ KeepsOthers(w) /\ pc'[w] = "record"
    BY <1>1, <2>1, <2>4, <2>5 DEF TypeOK, KeepsOthers, Labels
  <2>7. RowId(w)' = RowId(w) /\ Input(w)' = Input(w) /\ Owns(w)'
    BY <2>5, <2>6 DEF RowId, Input, Owns
  <2>8. OwnsItsRow(w)' /\ InHand(w)'
    BY <1>1, <2>1, <2>5, <2>6, <2>7
       DEF OwnsItsRow, InHand, Putting, Emitting, Terminal
  <2>9. LineageSoFar(w)'
    BY <1>1, <2>1, <2>3, <2>5, <2>6, <2>7 DEF LineageSoFar, Emitting
  <2>10. Owns(w)' => \A v \in Workers \ {w} : Owns(v) => RowId(v) # RowId(w)'
    BY <1>1, <2>7 DEF IndInv, Exclusive
  <2>11. /\ \A v \in Workers : InHand(v)' /\ LineageSoFar(v)' /\ OwnsItsRow(v)'
         /\ Exclusive'
    BY <2>4, <2>6, <2>8, <2>9, <2>10, WorkersInd
  <2>12. QED
    BY <2>4, <2>6, <2>11 DEF IndInv
<1>4. QED
  BY <1>2, <1>3

\* At 'record' and 'finalize' the owner has recorded the lineage in full.
LEMMA LineageComplete ==
  ASSUME IndInv, NEW w \in Workers, pc[w] \in {"record", "finalize"}
  PROVE  HasLineage(Input(w), obj[w], RowId(w))
<1>1. /\ TypeOK /\ InHand(w) /\ LineageSoFar(w)
      /\ pc[w] \notin Terminal /\ pc[w] \in Emitting /\ pc[w] # "consumes"
  BY DEF IndInv, Terminal, Emitting
<1>2. Input(w).docpack = job[w].docpack /\ Input(w).prior_outputs = outputs[w]
  BY <1>1, RunningTypes
<1>3. QED
  BY <1>1, <1>2 DEF HasLineage, LineageSoFar

\* What is memoized has its whole lineage.
LEMMA RecordInd ==
  ASSUME IndInv, NEW w \in Workers, Record(w)
  PROVE  IndInv'
<1> DEFINE c == [input |-> Input(w), output |-> obj[w]]
<1>1. /\ TypeOK /\ InHand(w) /\ LineageSoFar(w) /\ OwnsItsRow(w)
      /\ pc[w] = "record" /\ pc[w] \notin Terminal /\ Owns(w)
  BY DEF IndInv, Record, Terminal, Owns
<1>2. CASE ~ReferencesHold({Input(w), obj[w]})
  BY <1>2, AbortInd DEF Record, Returns
<1>3. CASE ReferencesHold({Input(w), obj[w]})
  <2>1. /\ stage_cache' \in {stage_cache, stage_cache \cup {c}}
        /\ CacheLookup(Input(w)) = {} => c \in stage_cache'
        /\ Goto(w, "finalize")
        /\ UNCHANGED <<artifacts, artifact_edges, stage_runs>>
    BY <1>3 DEF Record, CacheRecord
  <2>2. /\ Input(w) \in StageInputs /\ RowId(w) \in RunStages
        /\ obj[w] \in Outputs \cap Handler(Input(w)) \cap artifacts
        /\ Input(w) \in artifacts
    BY <1>1, RunningTypes DEF InHand, Emitting
  <2>3. c \in [input : StageInputs, output : Outputs]
        /\ c.input = Input(w) /\ c.output = obj[w]
    BY <2>2
  <2> HIDE DEF c
  <2>4. /\ pc' = [pc EXCEPT ![w] = "finalize"] /\ job' = job /\ stage' = stage
        /\ outputs' = outputs /\ obj' = obj /\ ret' = ret /\ cursor' = cursor
    BY <2>1 DEF Goto
  <2>5. TypeOK' /\ KeepsOthers(w) /\ pc'[w] = "finalize"
    BY <1>1, <2>1, <2>3, <2>4 DEF TypeOK, KeepsOthers, Labels
  <2>6. RowId(w)' = RowId(w) /\ Input(w)' = Input(w) /\ Owns(w)'
    BY <2>4, <2>5 DEF RowId, Input, Owns
  <2>7. OwnsItsRow(w)' /\ InHand(w)'
    BY <1>1, <2>1, <2>4, <2>5, <2>6
       DEF OwnsItsRow, InHand, Putting, Emitting, Terminal
  <2>8. CacheLookup(Input(w))' # {}
    BY <2>1, <2>3, <2>6 DEF CacheLookup
  <2>9. LineageSoFar(w)'
    BY <1>1, <2>1, <2>4, <2>5, <2>6, <2>8 DEF LineageSoFar, Emitting
  <2>10. TablesGrow /\ ByOwner(w)
    BY <2>1 DEF TablesGrow, ByOwner
  <2>11. CacheHasLineage'
    <3>1. PICK in, out, id : in = Input(w) /\ out = obj[w] /\ id = RowId(w)
      OBVIOUS
    <3>2. HasLineage(in, out, id)
      BY <1>1, <3>1, LineageComplete
    <3>3. \A a, b, x : HasLineage(a, b, x) => HasLineage(a, b, x)'
      BY <2>1 DEF HasLineage
    <3>4. /\ {in, out} \subseteq artifacts' /\ id \in RunStages
          /\ HasLineage(in, out, id)' /\ stage_runs'[id].input = in
      BY <1>1, <2>1, <2>2, <3>1, <3>2, <3>3 DEF OwnsItsRow
    <3>5. SUFFICES ASSUME NEW x \in stage_cache'
          PROVE /\ {x.input, x.output} \subseteq artifacts'
                /\ \E y \in RunStages : /\ HasLineage(x.input, x.output, y)'
                                        /\ stage_runs'[y].input = x.input
      BY DEF CacheHasLineage
    <3>6. CASE x \in stage_cache
      BY <2>1, <3>3, <3>6 DEF IndInv, CacheHasLineage
    <3>7. CASE x \notin stage_cache
      <4>1. x.input = in /\ x.output = out
        BY <2>1, <2>3, <3>1, <3>7
      <4>2. QED
        BY <3>4, <4>1
    <3>8. QED
      BY <3>6, <3>7
  <2>12. CacheIsDerived' /\ AbsentEmitsNothing' /\ FailClosedEmitsNothing'
    BY <2>1, <2>2, <2>3 DEF IndInv, CacheIsDerived, AbsentEmitsNothing, NoEdgeOf,
       FailClosedEmitsNothing
  <2>13. SuccessIsMemoized'
    <3>1. \A in : CacheLookup(in) # {} => CacheLookup(in)' # {}
      BY <2>1 DEF CacheLookup
    <3>2. \A in, out, id : HasLineage(in, out, id) => HasLineage(in, out, id)'
      BY <2>1 DEF HasLineage
    <3>3. QED
      BY <2>1, <3>1, <3>2 DEF IndInv, SuccessIsMemoized
  <2>14. Owns(w)' => \A v \in Workers \ {w} : Owns(v) => RowId(v) # RowId(w)'
    BY <1>1, <2>6 DEF IndInv, Exclusive
  <2>15. /\ \A v \in Workers : InHand(v)' /\ LineageSoFar(v)' /\ OwnsItsRow(v)'
         /\ Exclusive'
    BY <2>5, <2>7, <2>9, <2>10, <2>14, WorkersInd
  <2>16. QED
    BY <2>5, <2>11, <2>12, <2>13, <2>15 DEF IndInv
<1>4. QED
  BY <1>2, <1>3

\* A row is marked successful by its owner, after all the rest.
LEMMA FinalizeInd ==
  ASSUME IndInv, NEW w \in Workers, Finalize(w)
  PROVE  IndInv'
<1> DEFINE id == RowId(w)
<1>1. /\ TypeOK /\ InHand(w) /\ LineageSoFar(w) /\ OwnsItsRow(w)
      /\ pc[w] = "finalize" /\ pc[w] \notin Terminal /\ Owns(w)
  BY DEF IndInv, Finalize, Terminal, Owns
<1>2. id \in RunStages /\ obj[w] \in Outputs
  BY <1>1, RunningTypes DEF InHand, Emitting
<1>3. /\ stage_runs[id].status = "open" /\ stage_runs[id].input = Input(w)
      /\ HasLineage(Input(w), obj[w], id) /\ CacheLookup(Input(w)) # {}
  BY <1>1, LineageComplete DEF OwnsItsRow, LineageSoFar
<1>4. /\ stage_runs' = [stage_runs EXCEPT ![id].status = "success", ![id].result = obj[w]]
      /\ UNCHANGED <<artifacts, artifact_edges, stage_cache>> /\ job' = job
      /\ EnterStage(w, stage[w] + 1, Append(outputs[w], obj[w]))
  BY DEF Finalize, FinalizeStageRun
<1>5. /\ stage_runs' \in [RunStages -> RowType]
      /\ stage_runs'[id].status = "success" /\ stage_runs'[id].result = obj[w]
      /\ stage_runs'[id].input = stage_runs[id].input
      /\ \A x \in RunStages \ {id} : stage_runs'[x] = stage_runs[x]
  BY <1>1, <1>2, <1>4 DEF TypeOK, RowType, RowStatus
<1>6. /\ WorkerTypes' /\ KeepsOthers(w)
      /\ InHand(w)' /\ LineageSoFar(w)' /\ OwnsItsRow(w)' /\ ~Owns(w)'
  BY <1>1, <1>2, <1>4, AdvanceInd
<1>7. TypeOK'
  BY <1>1, <1>4, <1>5, <1>6 DEF TypeOK, WorkerTypes
<1>8. TablesGrow /\ ByOwner(w)
  BY <1>1, <1>4, <1>5 DEF TablesGrow, ByOwner
<1>9. AbsentEmitsNothing' /\ CacheIsDerived' /\ FailClosedEmitsNothing'
  BY <1>4, <1>5 DEF IndInv, AbsentEmitsNothing, NoEdgeOf, CacheIsDerived,
     FailClosedEmitsNothing
<1>10. CacheHasLineage'
  BY <1>4, <1>5 DEF IndInv, CacheHasLineage, HasLineage
<1>11. SuccessIsMemoized'
  <2>1. \A a, b, x : HasLineage(a, b, x) => HasLineage(a, b, x)'
    BY <1>4 DEF HasLineage
  <2>2. \A a : CacheLookup(a)' = CacheLookup(a)
    BY <1>4 DEF CacheLookup
  <2>3. SUFFICES ASSUME NEW x \in RunStages, stage_runs'[x].status = "success"
        PROVE /\ HasLineage(stage_runs[x].input, stage_runs[x].result, x)'
              /\ CacheLookup(stage_runs[x].input)' # {}
    BY DEF SuccessIsMemoized
  <2>4. CASE x = id
    <3>1. PICK in, out : in = Input(w) /\ out = obj[w]
      OBVIOUS
    <3>2. HasLineage(in, out, x)' /\ CacheLookup(in)' # {}
      BY <1>3, <2>1, <2>2, <2>4, <3>1
    <3>3. stage_runs'[x].input = in /\ stage_runs'[x].result = out
      BY <1>3, <1>5, <2>4, <3>1
    <3>4. QED
      BY <3>2, <3>3 DEF HasLineage, CacheLookup
  <2>5. CASE x # id
    <3>1. PICK in, out : in = stage_runs[x].input /\ out = stage_runs[x].result
      OBVIOUS
    <3>2. stage_runs'[x] = stage_runs[x]
      BY <1>5, <2>5
    <3>3. HasLineage(in, out, x) /\ CacheLookup(in) # {}
      BY <2>3, <3>1, <3>2 DEF IndInv, SuccessIsMemoized
    <3>4. HasLineage(in, out, x)' /\ CacheLookup(in)' # {}
      BY <2>1, <2>2, <3>3
    <3>5. stage_runs'[x].input = in /\ stage_runs'[x].result = out
      BY <3>1, <3>2
    <3>6. QED
      BY <3>4, <3>5 DEF HasLineage, CacheLookup
  <2>6. QED
    BY <2>4, <2>5
<1>12. /\ \A v \in Workers : InHand(v)' /\ LineageSoFar(v)' /\ OwnsItsRow(v)'
       /\ Exclusive'
  BY <1>6, <1>8, WorkersInd
<1>13. QED
  BY <1>7, <1>9, <1>10, <1>11, <1>12 DEF IndInv

-----------------------------------------------------------------------------
(* The theorems.                                                           *)

\* The invariant is about the variables only.
LEMMA StutterInd ==
  ASSUME IndInv, UNCHANGED vars
  PROVE  IndInv'
<1>1. UNCHANGED storeVars /\ UNCHANGED workerVars
  BY DEF vars
<1>2. /\ AbsentEmitsNothing' /\ CacheIsDerived' /\ CacheHasLineage'
      /\ SuccessIsMemoized' /\ FailClosedEmitsNothing'
  BY <1>1, TablesKept
<1>3. TypeOK'
  BY <1>1 DEF IndInv, TypeOK, storeVars, workerVars
<1>4. Exclusive'
  BY <1>1 DEF IndInv, Exclusive, Owns, RowId, workerVars
<1>5. ASSUME NEW w \in Workers PROVE InHand(w)' /\ LineageSoFar(w)' /\ OwnsItsRow(w)'
  <2>1. InHand(w) /\ LineageSoFar(w) /\ OwnsItsRow(w)
    BY DEF IndInv
  <2>2. RowId(w)' = RowId(w) /\ Input(w)' = Input(w) /\ (Owns(w)' <=> Owns(w))
    BY <1>1 DEF RowId, Input, Owns, workerVars
  <2>3. InHand(w)' /\ OwnsItsRow(w)'
    BY <1>1, <2>1, <2>2 DEF InHand, OwnsItsRow, Putting, workerVars, storeVars
  <2>4. LineageSoFar(w)'
    BY <1>1, <2>1, <2>2 DEF LineageSoFar, NoEdgeOf, CacheLookup, workerVars, storeVars
  <2>5. QED
    BY <2>3, <2>4
<1>6. QED
  BY <1>2, <1>3, <1>4, <1>5 DEF IndInv

\* Every step keeps the inductive invariant.
LEMMA NextInd == IndInv /\ [Next]_vars => IndInv'
<1> SUFFICES ASSUME IndInv, [Next]_vars PROVE IndInv'
  OBVIOUS
<1>1. CASE UNCHANGED vars
  BY <1>1, StutterInd
<1>2. ASSUME NEW w \in Workers, Step(w) PROVE IndInv'
  BY <1>2, PutSelectInd, PutInsertInd, LookupInd, HitEdgeInd, InsertRunInd, HandleInd,
     FailClosedInd, ConsumesInd, ProducesInd, RecordInd, FinalizeInd DEF Step
<1>3. ASSUME NEW w \in Workers, Crash(w) PROVE IndInv'
  BY <1>3, CrashInd
<1>4. ASSUME NEW w \in Workers, NEW j \in Jobs, Start(w, j) PROVE IndInv'
  BY <1>4, StartInd
<1>5. QED
  BY <1>1, <1>2, <1>3, <1>4 DEF Next

(***************************************************************************)
(* The inductive invariant holds in every reachable state.                 *)
(***************************************************************************)
THEOREM Inductive == Spec => []IndInv
BY InitInd, NextInd, PTL DEF Spec

(***************************************************************************)
(* The tables and the workers keep their types; no error record and no     *)
(* unvalidated object is ever memoized by run().                           *)
(***************************************************************************)
THEOREM TypeCorrect == Spec => []TypeOK
<1>1. IndInv => TypeOK
  BY DEF IndInv
<1>2. QED
  BY <1>1, Inductive, PTL

(***************************************************************************)
(* A memoized output is stored with the whole lineage of the stage_run     *)
(* that computed it, wherever workers crash and whatever they share.       *)
(***************************************************************************)
THEOREM CacheLineage == Spec => []CacheHasLineage
<1>1. IndInv => CacheHasLineage
  BY DEF IndInv
<1>2. QED
  BY <1>1, Inductive, PTL

(***************************************************************************)
(* A stage_run marked 'success' has its lineage, and its input is          *)
(* memoized.                                                               *)
(***************************************************************************)
THEOREM SuccessMemoized == Spec => []SuccessIsMemoized
<1>1. IndInv => SuccessIsMemoized
  BY DEF IndInv
<1>2. QED
  BY <1>1, Inductive, PTL

(***************************************************************************)
(* A fail-closed stage_run has a stored error artifact and no edge.        *)
(***************************************************************************)
THEOREM FailedEmitNothing == Spec => []FailClosedEmitsNothing
<1>1. IndInv => FailClosedEmitsNothing
  BY DEF IndInv
<1>2. QED
  BY <1>1, Inductive, PTL

(***************************************************************************)
(* One worker at a time works on a stage_run, and the row is open then:    *)
(* the UNIQUE constraint is a lock.                                        *)
(***************************************************************************)
THEOREM RowsHaveOneOwner == Spec => []OneOwner
<1>1. IndInv => OneOwner
  BY DEF IndInv, OwnsItsRow, Exclusive, OneOwner
<1>2. QED
  BY <1>1, Inductive, PTL

(***************************************************************************)
(* A row once 'success' or 'fail_closed' never changes.                    *)
(***************************************************************************)
LEMMA FinalRowsStep ==
  ASSUME IndInv, [Next]_vars, NEW id \in RunStages,
         stage_runs[id].status \in {"success", "fail_closed"}
  PROVE  stage_runs'[id] = stage_runs[id]
<1>1. CASE stage_runs' = stage_runs
  BY <1>1
<1>2. ASSUME NEW w \in Workers, FailClosed(w) \/ Finalize(w) PROVE stage_runs'[id] = stage_runs[id]
  <2>1. Owns(w) /\ pc[w] \notin Terminal /\ TypeOK /\ InHand(w) /\ OwnsItsRow(w)
    BY <1>2 DEF IndInv, FailClosed, Finalize, Owns, Terminal
  <2>2. RowId(w) # id
    BY <2>1 DEF OwnsItsRow
  <2>3. \E s, r : stage_runs' = [stage_runs EXCEPT ![RowId(w)].status = s, ![RowId(w)].result = r]
    BY <1>2 DEF FailClosed, Finalize, FinalizeStageRun
  <2>4. QED
    BY <2>1, <2>2, <2>3 DEF TypeOK
<1>3. ASSUME NEW w \in Workers, InsertRun(w) PROVE stage_runs'[id] = stage_runs[id]
  <2>1. TypeOK
    BY DEF IndInv
  <2>2. CASE stage_runs' = stage_runs
    BY <2>2
  <2>3. CASE stage_runs' # stage_runs
    <3>1. /\ stage_runs[RowId(w)].status = "absent"
          /\ \E r : stage_runs' = [stage_runs EXCEPT ![RowId(w)] = r]
      BY <1>3, <2>3 DEF InsertRun, Abort, storeVars, StageRunInsertable, InsertStageRun
    <3>2. QED
      BY <2>1, <3>1 DEF TypeOK
  <2>4. QED
    BY <2>2, <2>3
<1>4. ASSUME NEW w \in Workers, Step(w) PROVE stage_runs'[id] = stage_runs[id]
  BY <1>1, <1>2, <1>3, <1>4 DEF Step, PutSelect, PutInsert, Lookup, HitEdge, Handle,
     Consumes, Produces, Record, Abort, storeVars
<1>5. QED
  BY <1>1, <1>4 DEF Next, Start, Crash, vars, storeVars

(***************************************************************************)
(* The history of finalized stage_runs is never rewritten.                 *)
(***************************************************************************)
THEOREM HistoryStays == Spec => FinalRowsStay
<1>1. IndInv /\ [Next]_vars =>
        [\A id \in RunStages : stage_runs[id].status \in {"success", "fail_closed"} =>
           stage_runs'[id] = stage_runs[id]]_vars
  BY FinalRowsStep
<1>2. QED
  BY <1>1, Inductive, PTL DEF Spec, FinalRowsStay

-----------------------------------------------------------------------------
(***************************************************************************)
(* Orchestrator implements MemoPipeline, and what follows about the        *)
(* outputs that runs build on.  Every step of run() is one of five: it     *)
(* restarts a worker, or derives, memoizes or appends an output, or shows  *)
(* nothing of itself (LEMMA Steps); IndInv says which output and which     *)
(* input are concerned.                                                    *)
(***************************************************************************)

-----------------------------------------------------------------------------
(* The kinds of steps.                                                     *)

Pair(in, out) == [input |-> in, output |-> out]

Running(w) ==
  /\ pc[w] \notin Terminal /\ job[w] \in Jobs /\ job[w] # None
  /\ stage[w] \in Stages /\ outputs[w] \in Seq(Outputs)
  /\ Len(outputs[w]) = stage[w] - 1

Restarts(w) ==
  /\ \E j \in Jobs \cup {None} : job' = [job EXCEPT ![w] = j]
  /\ outputs' = [outputs EXCEPT ![w] = <<>>]
  /\ UNCHANGED storeVars

Derives(w) ==
  /\ Running(w) /\ obj[w] \in Handler(Input(w))
  /\ Derived' = Derived \cup {Pair(Input(w), obj[w])}
  /\ UNCHANGED <<stage_cache, job, outputs>>

Memoizes(w) ==
  /\ Running(w) /\ Pair(Input(w), obj[w]) \in Derived
  /\ CacheLookup(Input(w)) = {}
  /\ stage_cache' = stage_cache \cup {Pair(Input(w), obj[w])}
  /\ Derived' = Derived /\ UNCHANGED <<job, outputs>>

Advances(w) ==
  /\ Running(w) /\ Pair(Input(w), obj[w]) \in Derived
  /\ obj[w] \in Handler(Input(w)) /\ obj[w] \in Outputs
  /\ CacheLookup(Input(w)) # {}
  /\ outputs' = [outputs EXCEPT ![w] = Append(outputs[w], obj[w])]
  /\ Derived' = Derived /\ UNCHANGED <<stage_cache, job>>

Hidden == Derived' = Derived /\ UNCHANGED <<stage_cache, job, outputs>>

-----------------------------------------------------------------------------
(* What is derived.                                                        *)

LEMMA DerivedPairs ==
  ASSUME NEW in, NEW out
  PROVE  Pair(in, out) \in Derived <=>
           \E e \in artifact_edges : e.from = in /\ e.to = out /\ e.type = "produces"
  <1>1. ASSUME NEW e \in artifact_edges, e.from = in, e.to = out, e.type = "produces"
        PROVE  Pair(in, out) \in Derived
    BY <1>1 DEF Pair, Derived
  <1>2. ASSUME Pair(in, out) \in Derived
        PROVE  \E e \in artifact_edges : e.from = in /\ e.to = out /\ e.type = "produces"
    <2>1. PICK e \in artifact_edges :
            e.type = "produces" /\ Pair(in, out) = [input |-> e.from, output |-> e.to]
      BY <1>2 DEF Derived
    <2>2. Pair(in, out).input = e.from /\ Pair(in, out).output = e.to
      BY <2>1
    <2> QED BY <2>1, <2>2 DEF Pair
  <1> QED BY <1>1, <1>2

\* An edge of type consumes derives nothing, one of type produces its pair.
LEMMA DerivedBy ==
  ASSUME NEW from, NEW to, NEW run, NEW type,
         artifact_edges' = artifact_edges \cup {Edge(from, to, type, run)}
  PROVE  /\ type = "consumes" => Derived' = Derived
         /\ type = "produces" => Derived' = Derived \cup {Pair(from, to)}
  <1> DEFINE new == Edge(from, to, type, run)
  <1>1. new.from = from /\ new.to = to /\ new.type = type
    BY DEF Edge
  <1> HIDE DEF new
  <1>2. artifact_edges' = artifact_edges \cup {new}
    BY DEF new
  <1> QED BY <1>1, <1>2 DEF Derived, Pair

LEMMA DerivedKept ==
  ASSUME artifact_edges' = artifact_edges PROVE Derived' = Derived
  BY DEF Derived

LEMMA RunningWorkers ==
  ASSUME IndInv, NEW w \in Workers, pc[w] \notin Terminal
  PROVE  Running(w)
  BY OrchestratorAssumption DEF IndInv, TypeOK, InHand, Running

\* What is memoized is derived.
LEMMA MemoIsDerived ==
  ASSUME IndInv, NEW in, NEW out, Pair(in, out) \in stage_cache
  PROVE  Pair(in, out) \in Derived
  <1>1. PICK id \in RunStages : HasLineage(in, out, id)
    BY DEF IndInv, CacheHasLineage, Pair
  <1>2. Edge(in, out, "produces", id) \in artifact_edges
    BY <1>1 DEF HasLineage
  <1> QED BY <1>2, DerivedPairs DEF Edge

-----------------------------------------------------------------------------
(* Every action is one of the kinds.                                       *)

LEMMA AbortHidden ==
  ASSUME NEW w, NEW why, Abort(w, why) PROVE Hidden
  BY DerivedKept DEF Abort, Hidden, storeVars

LEMMA QuietHidden ==
  ASSUME NEW w \in Workers,
         PutSelect(w) \/ PutInsert(w) \/ Lookup(w) \/ InsertRun(w) \/ Handle(w) \/ FailClosed(w)
  PROVE  Hidden
  <1>1. CASE PutSelect(w)
    BY <1>1, DerivedKept DEF PutSelect, Goto, Hidden, storeVars
  <1>2. CASE PutInsert(w)
    BY <1>2, DerivedKept, AbortHidden DEF PutInsert, Goto, Hidden
  <1>3. CASE Lookup(w)
    BY <1>3, DerivedKept DEF Lookup, Goto, Hidden, storeVars
  <1>4. CASE InsertRun(w)
    BY <1>4, DerivedKept, AbortHidden DEF InsertRun, Goto, Hidden
  <1>5. CASE Handle(w)
    BY <1>5, DerivedKept, AbortHidden DEF Handle, CallPut, Hidden, storeVars
  <1>6. CASE FailClosed(w)
    BY <1>6, DerivedKept DEF FailClosed, Goto, Hidden
  <1> QED BY <1>1, <1>2, <1>3, <1>4, <1>5, <1>6

LEMMA RestartSteps ==
  ASSUME NEW w \in Workers, Crash(w) \/ \E j \in Jobs : Start(w, j)
  PROVE  Restarts(w)
  BY DEF Crash, Start, EnterStage, Restarts

\* A hit's edge repeats what the lineage of the cache entry says already.
LEMMA HitEdgeSteps ==
  ASSUME IndInv, NEW w \in Workers, HitEdge(w)
  PROVE  Advances(w) \/ Hidden
  <1>1. CASE ~ReferencesHold({Input(w), obj[w]})
    BY <1>1, AbortHidden DEF HitEdge
  <1>2. CASE ReferencesHold({Input(w), obj[w]})
    <2>1. /\ artifact_edges' = artifact_edges \cup {Edge(Input(w), obj[w], "produces", None)}
          /\ outputs' = [outputs EXCEPT ![w] = Append(outputs[w], obj[w])]
          /\ UNCHANGED <<stage_cache, job>>
          /\ pc[w] = "hit_edge" /\ pc[w] \notin Terminal
      BY <1>2 DEF HitEdge, RecordEdge, EnterStage, Terminal
    <2>2. Pair(Input(w), obj[w]) \in stage_cache
      BY <2>1 DEF IndInv, InHand, Pair
    <2>3. Pair(Input(w), obj[w]) \in Derived
      BY <2>2, MemoIsDerived
    <2>4. Derived' = Derived
      <3>1. Derived' = Derived \cup {Pair(Input(w), obj[w])}
        BY <2>1, DerivedBy
      <3> QED BY <2>3, <3>1
    <2>5. /\ obj[w] \in Handler(Input(w)) /\ obj[w] \in Outputs
          /\ CacheLookup(Input(w)) # {}
      BY <2>2 DEF IndInv, TypeOK, CacheIsDerived, Pair, CacheLookup
    <2> QED BY <2>1, <2>3, <2>4, <2>5, RunningWorkers DEF Advances
  <1> QED BY <1>1, <1>2

LEMMA ConsumesSteps ==
  ASSUME NEW w \in Workers, Consumes(w)
  PROVE  Hidden
  <1> DEFINE from == IF cursor[w] = 0 THEN job[w].docpack ELSE outputs[w][cursor[w]]
  <1>1. CASE ~ReferencesHold({from, Input(w)})
    BY <1>1, AbortHidden DEF Consumes
  <1>2. CASE ReferencesHold({from, Input(w)})
    <2>1. /\ artifact_edges' = artifact_edges \cup {Edge(from, Input(w), "consumes", RowId(w))}
          /\ UNCHANGED <<stage_cache, job, outputs>>
      BY <1>2 DEF Consumes, RecordEdge
    <2> HIDE DEF from
    <2> QED BY <2>1, DerivedBy DEF Hidden
  <1> QED BY <1>1, <1>2

LEMMA ProducesSteps ==
  ASSUME IndInv, NEW w \in Workers, Produces(w)
  PROVE  Derives(w) \/ Hidden
  <1>1. CASE ~ReferencesHold({Input(w), obj[w]})
    BY <1>1, AbortHidden DEF Produces
  <1>2. CASE ReferencesHold({Input(w), obj[w]})
    <2>1. /\ artifact_edges' = artifact_edges \cup {Edge(Input(w), obj[w], "produces", RowId(w))}
          /\ UNCHANGED <<stage_cache, job, outputs>>
          /\ pc[w] = "produces" /\ pc[w] \notin Terminal
      BY <1>2 DEF Produces, RecordEdge, Goto, Terminal
    <2>2. obj[w] \in Handler(Input(w))
      BY <2>1 DEF IndInv, InHand, Emitting
    <2> QED BY <2>1, <2>2, DerivedBy, RunningWorkers DEF Derives
  <1> QED BY <1>1, <1>2

LEMMA RecordSteps ==
  ASSUME IndInv, NEW w \in Workers, Record(w)
  PROVE  Memoizes(w) \/ Hidden
  <1>1. CASE ~ReferencesHold({Input(w), obj[w]})
    BY <1>1, AbortHidden DEF Record
  <1>2. CASE ReferencesHold({Input(w), obj[w]})
    <2>1. /\ CacheRecord(Input(w), obj[w]) /\ UNCHANGED <<artifact_edges, job, outputs>>
          /\ pc[w] = "record" /\ pc[w] \notin Terminal
      BY <1>2 DEF Record, Goto, Terminal
    <2>2. Edge(Input(w), obj[w], "produces", RowId(w)) \in artifact_edges
      BY <2>1 DEF IndInv, LineageSoFar
    <2>3. Pair(Input(w), obj[w]) \in Derived
      BY <2>2, DerivedPairs DEF Edge
    <2> QED BY <2>1, <2>3, DerivedKept, RunningWorkers
         DEF CacheRecord, Memoizes, Hidden, Pair
  <1> QED BY <1>1, <1>2

LEMMA FinalizeSteps ==
  ASSUME IndInv, NEW w \in Workers, Finalize(w)
  PROVE  Advances(w)
  <1>1. /\ outputs' = [outputs EXCEPT ![w] = Append(outputs[w], obj[w])]
        /\ UNCHANGED <<artifact_edges, stage_cache, job>>
        /\ pc[w] = "finalize" /\ pc[w] \notin Terminal
    BY DEF Finalize, EnterStage, Terminal
  <1>2. /\ Edge(Input(w), obj[w], "produces", RowId(w)) \in artifact_edges
        /\ CacheLookup(Input(w)) # {}
    BY <1>1 DEF IndInv, LineageSoFar
  <1>3. obj[w] \in Handler(Input(w)) /\ obj[w] \in Outputs
    BY <1>1 DEF IndInv, InHand, Emitting
  <1>4. Pair(Input(w), obj[w]) \in Derived
    BY <1>2, DerivedPairs DEF Edge
  <1> QED BY <1>1, <1>2, <1>3, <1>4, DerivedKept, RunningWorkers DEF Advances

LEMMA Steps ==
  ASSUME IndInv, [Next]_vars
  PROVE  Hidden \/ \E w \in Workers : Restarts(w) \/ Derives(w) \/ Memoizes(w) \/ Advances(w)
  <1>1. CASE UNCHANGED vars
    BY <1>1, DerivedKept DEF vars, storeVars, workerVars, Hidden
  <1>2. ASSUME NEW w \in Workers, Crash(w) \/ \E j \in Jobs : Start(w, j)
        PROVE  Restarts(w)
    BY <1>2, RestartSteps
  <1>3. ASSUME NEW w \in Workers, Step(w)
        PROVE  Hidden \/ Derives(w) \/ Memoizes(w) \/ Advances(w)
    BY <1>3, QuietHidden, HitEdgeSteps, ConsumesSteps, ProducesSteps, RecordSteps,
       FinalizeSteps DEF Step
  <1> QED BY <1>1, <1>2, <1>3 DEF Next

-----------------------------------------------------------------------------
(* The refinement.                                                         *)

\* The next link of a worker's chain has the worker's stage input.
LEMMA NextInputIs ==
  ASSUME NEW w \in Workers, Running(w)
  PROVE  /\ Pipeline!NextInput(w) = Input(w)
         /\ Pipeline!Working(w)
  <1>1. Len(outputs[w]) + 1 = stage[w] /\ Len(outputs[w]) < NumStages
    BY OrchestratorAssumption DEF Running, Stages
  <1>2. job[w] # None
    BY DEF Running
  <1> QED BY <1>1, <1>2 DEF Pipeline!NextInput, Pipeline!Working, Input

LEMMA KnownIs ==
  ASSUME NEW in PROVE Pipeline!Known(in) <=> CacheLookup(in) # {}
  BY DEF Pipeline!Known, CacheLookup

LEMMA StepsImplement ==
  ASSUME IndInv, [Next]_vars
  PROVE  [Pipeline!Next]_(Pipeline!memoVars)
  <1>1. CASE Hidden
    BY <1>1 DEF Hidden, Pipeline!memoVars
  <1>2. ASSUME NEW w \in Workers, Restarts(w) PROVE Pipeline!Next
    <2>1. Pipeline!Begin(w)
      BY <1>2, DerivedKept DEF Restarts, Pipeline!Begin, storeVars
    <2> QED BY <2>1 DEF Pipeline!Next
  <1>3. ASSUME NEW w \in Workers, Derives(w) PROVE Pipeline!Next
    <2>1. Pipeline!Derive(w)
      BY <1>3, NextInputIs DEF Derives, Pipeline!Derive, Pair
    <2> QED BY <2>1 DEF Pipeline!Next
  <1>4. ASSUME NEW w \in Workers, Memoizes(w) PROVE Pipeline!Next
    <2>1. Pipeline!Memoize(w)
      BY <1>4, NextInputIs, KnownIs DEF Memoizes, Pipeline!Memoize, Pair
    <2> QED BY <2>1 DEF Pipeline!Next
  <1>5. ASSUME NEW w \in Workers, Advances(w) PROVE Pipeline!Next
    <2>1. Pipeline!Advance(w)
      BY <1>5, NextInputIs, KnownIs DEF Advances, Pipeline!Advance, Pair
    <2> QED BY <2>1 DEF Pipeline!Next
  <1> QED BY <1>1, <1>2, <1>3, <1>4, <1>5, Steps

LEMMA InitImplements == Init => Pipeline!Init
  BY DEF Init, Pipeline!Init, Derived

(***************************************************************************)
(* run(), executed by any number of workers that may die anywhere, is a    *)
(* memoized pipeline.                                                      *)
(***************************************************************************)
THEOREM Refinement == Spec => ImplementsPipeline
  BY Inductive, InitImplements, StepsImplement, PTL
     DEF Spec, ImplementsPipeline, Pipeline!Spec

-----------------------------------------------------------------------------
(* What runs build on.                                                     *)

\* The k-th output of a chain, from the input that precedes it.
Follows(j, outs, k) ==
  LET in == StageInput(j, k, SubSeq(outs, 1, k - 1))
  IN outs[k] \in Handler(in) /\ Pair(in, outs[k]) \in Derived /\ CacheLookup(in) # {}

ChainsFollow ==
  \A w \in Workers : \A k \in 1..Len(outputs[w]) : Follows(job[w], outputs[w], k)

LEMMA FollowsAll == OutputsFollow <=> ChainsFollow
  BY DerivedPairs DEF OutputsFollow, ChainsFollow, Follows

\* Appending to a chain leaves its prefixes as they were.
LEMMA AppendKeepsPrefix ==
  ASSUME NEW s \in Seq(Outputs), NEW x \in Outputs
  PROVE  /\ Append(s, x) \in Seq(Outputs) /\ Len(Append(s, x)) = Len(s) + 1
         /\ Append(s, x)[Len(s) + 1] = x
         /\ SubSeq(Append(s, x), 1, Len(s)) = s
         /\ \A k \in 1..Len(s) : /\ Append(s, x)[k] = s[k]
                                /\ SubSeq(Append(s, x), 1, k - 1) = SubSeq(s, 1, k - 1)
  OBVIOUS

LEMMA FollowNext ==
  ASSUME IndInv, ChainsFollow, [Next]_vars
  PROVE  ChainsFollow'
  <1>1. outputs \in [Workers -> Seq(Outputs)] /\ DOMAIN job = Workers
    BY DEF IndInv, TypeOK
  <1>2. Derived \subseteq Derived' /\ stage_cache \subseteq stage_cache'
    BY Steps, DerivedKept DEF Hidden, Restarts, Derives, Memoizes, Advances, storeVars
  <1>3. \A j, outs, k : Follows(j, outs, k) => Follows(j, outs, k)'
    BY <1>2 DEF Follows, CacheLookup
  <1>4. CASE UNCHANGED <<job, outputs>>
    BY <1>3, <1>4 DEF ChainsFollow
  <1>5. ASSUME NEW w \in Workers, Restarts(w) PROVE ChainsFollow'
    <2>1. /\ outputs' = [outputs EXCEPT ![w] = <<>>]
          /\ \A v \in Workers \ {w} : job'[v] = job[v]
      BY <1>1, <1>5 DEF Restarts
    <2> QED BY <1>1, <1>3, <2>1 DEF ChainsFollow
  <1>6. ASSUME NEW w \in Workers, Advances(w) PROVE ChainsFollow'
    <2> DEFINE s == outputs[w]
               x == obj[w]
    <2>1. /\ outputs' = [outputs EXCEPT ![w] = Append(s, x)] /\ job' = job
          /\ x \in Outputs /\ s \in Seq(Outputs) /\ Len(s) + 1 = stage[w]
          /\ x \in Handler(Input(w)) /\ Pair(Input(w), x) \in Derived
          /\ CacheLookup(Input(w)) # {}
      BY <1>6 DEF Advances, Running, Stages
    <2>2. \A k \in 1..Len(s) : Follows(job[w], s, k)
      BY DEF ChainsFollow
    <2>3. Input(w) = StageInput(job[w], Len(s) + 1, s)
      BY <2>1 DEF Input
    <2>4. outputs'[w] = Append(s, x) /\ \A v \in Workers \ {w} : outputs'[v] = outputs[v]
      BY <1>1, <2>1
    <2> HIDE DEF s, x
    <2>5. ASSUME NEW k \in 1..(Len(s) + 1) PROVE Follows(job[w], Append(s, x), k)
      <3>1. CASE k \in 1..Len(s)
        BY <3>1, <2>1, <2>2, AppendKeepsPrefix DEF Follows
      <3>2. CASE k = Len(s) + 1
        <4>1. SubSeq(Append(s, x), 1, k - 1) = s /\ Append(s, x)[k] = x
          BY <3>2, <2>1, AppendKeepsPrefix
        <4> QED BY <3>2, <4>1, <2>1, <2>3 DEF Follows
      <3> QED BY <2>1, <3>1, <3>2
    <2>6. Len(Append(s, x)) = Len(s) + 1
      BY <2>1, AppendKeepsPrefix
    <2> QED BY <1>3, <2>1, <2>4, <2>5, <2>6 DEF ChainsFollow
  <1> QED BY <1>4, <1>5, <1>6, Steps DEF Hidden, Derives, Memoizes

(***************************************************************************)
(* However workers, crashes and reruns interleave, every output in a run's *)
(* list was derived from exactly the input its predecessors make, the      *)
(* lineage says so and the input is memoized.                              *)
(***************************************************************************)
THEOREM RunsFollow == Spec => []OutputsFollow
  <1>1. Init => ChainsFollow
    BY DEF Init, ChainsFollow
  <1>2. IndInv /\ ChainsFollow /\ [Next]_vars => ChainsFollow'
    BY FollowNext
  <1> QED BY <1>1, <1>2, Inductive, FollowsAll, PTL DEF Spec

-----------------------------------------------------------------------------
(* What the database refuses.                                              *)

\* Both ends of every edge are stored.
EdgesHold == \A e \in artifact_edges : e.from \in artifacts /\ e.to \in artifacts

LEMMA EdgesNext ==
  ASSUME EdgesHold, [Next]_vars
  PROVE  EdgesHold'
  <1>1. CASE artifact_edges' = artifact_edges /\ artifacts \subseteq artifacts'
    BY <1>1 DEF EdgesHold
  <1>2. ASSUME NEW from, NEW to, NEW type, NEW run, ReferencesHold({from, to}),
               artifacts' = artifacts,
               artifact_edges' = artifact_edges \cup {Edge(from, to, type, run)}
        PROVE  EdgesHold'
    <2> DEFINE new == Edge(from, to, type, run)
    <2>1. new.from \in artifacts /\ new.to \in artifacts
      BY <1>2 DEF Edge, ReferencesHold
    <2> HIDE DEF new
    <2>2. artifact_edges' = artifact_edges \cup {new}
      BY <1>2 DEF new
    <2> QED BY <1>2, <2>1, <2>2 DEF EdgesHold
  <1>3. ASSUME NEW w \in Workers, HitEdge(w) PROVE EdgesHold'
    BY <1>1, <1>2, <1>3 DEF HitEdge, RecordEdge, Abort, storeVars
  <1>4. ASSUME NEW w \in Workers, Consumes(w) PROVE EdgesHold'
    BY <1>1, <1>2, <1>4 DEF Consumes, RecordEdge, Abort, storeVars
  <1>5. ASSUME NEW w \in Workers, Produces(w) PROVE EdgesHold'
    BY <1>1, <1>2, <1>5 DEF Produces, RecordEdge, Abort, storeVars
  <1>6. ASSUME NEW w \in Workers, PutInsert(w) PROVE EdgesHold'
    BY <1>1, <1>6 DEF PutInsert, InsertArtifact, Abort, storeVars
  <1>7. ASSUME NEW w \in Workers,
               \/ PutSelect(w) \/ Lookup(w) \/ InsertRun(w) \/ Handle(w)
               \/ FailClosed(w) \/ Record(w) \/ Finalize(w)
        PROVE  EdgesHold'
    BY <1>1, <1>7 DEF PutSelect, Lookup, InsertRun, Handle, FailClosed, Record, Finalize,
       Abort, storeVars
  <1>8. ASSUME NEW w \in Workers, Crash(w) \/ \E j \in Jobs : Start(w, j) PROVE EdgesHold'
    BY <1>1, <1>8 DEF Crash, Start, storeVars
  <1>9. CASE UNCHANGED vars
    BY <1>1, <1>9 DEF vars, storeVars
  <1> QED BY <1>3, <1>4, <1>5, <1>6, <1>7, <1>8, <1>9 DEF Next, Step

\* The outputs a running worker builds on are stored.
LEMMA OutputsStored ==
  ASSUME ChainsFollow, EdgesHold, NEW w \in Workers, NEW k \in 1..Len(outputs[w])
  PROVE  outputs[w][k] \in artifacts
  <1>1. Pair(StageInput(job[w], k, SubSeq(outputs[w], 1, k - 1)), outputs[w][k]) \in Derived
    BY DEF ChainsFollow, Follows
  <1> QED BY <1>1, DerivedPairs DEF EdgesHold

IsRefused(w) == pc'[w] = "aborted" /\ ret'[w] = "foreign_key"
AllNamedStored(w) == {job[w].docpack, job[w].prompt, job[w].toolchain} \subseteq artifacts

LEMMA EnteringIsNoRefusal ==
  ASSUME TypeOK, NEW w \in Workers, NEW i, NEW outs, EnterStage(w, i, outs)
  PROVE  ~IsRefused(w)
  BY DEF TypeOK, EnterStage, CallPut, IsRefused

\* Statements without a foreign key.
LEMMA OthersAreNotRefused ==
  ASSUME IndInv, NEW w \in Workers,
         \/ PutSelect(w) \/ PutInsert(w) \/ Lookup(w)
         \/ Handle(w) \/ FailClosed(w) \/ Finalize(w)
  PROVE  ~IsRefused(w)
  <1> SUFFICES ASSUME IsRefused(w) PROVE FALSE
    OBVIOUS
  <1>1. TypeOK /\ InHand(w)
    BY DEF IndInv
  <1>2. Putting(w) => ret[w] \in {"lookup", "failed", "fail_closed", "consumes"}
    BY <1>1 DEF InHand, Putting, Terminal
  <1>3. CASE PutSelect(w)
    BY <1>1, <1>2, <1>3 DEF PutSelect, Goto, TypeOK, Putting, IsRefused
  <1>4. CASE PutInsert(w)
    BY <1>1, <1>2, <1>4 DEF PutInsert, Goto, Abort, TypeOK, Putting, IsRefused
  <1>5. CASE Lookup(w)
    BY <1>1, <1>5 DEF Lookup, Goto, TypeOK, IsRefused
  <1>6. CASE Handle(w)
    BY <1>1, <1>6 DEF Handle, CallPut, Abort, TypeOK, IsRefused
  <1>7. CASE FailClosed(w)
    BY <1>1, <1>7 DEF FailClosed, Goto, TypeOK, IsRefused
  <1>8. CASE Finalize(w)
    BY <1>1, <1>8, EnteringIsNoRefusal DEF Finalize
  <1> QED BY <1>3, <1>4, <1>5, <1>6, <1>7, <1>8

\* Statements with one: what they refer to is stored, unless the caller named it.
LEMMA WhatIsRefused ==
  ASSUME IndInv, ChainsFollow, EdgesHold, NEW w \in Workers, AllNamedStored(w),
         HitEdge(w) \/ InsertRun(w) \/ Consumes(w) \/ Produces(w) \/ Record(w)
  PROVE  ~IsRefused(w)
  <1> SUFFICES ASSUME IsRefused(w) PROVE FALSE
    OBVIOUS
  <1>1. InHand(w) /\ TypeOK
    BY DEF IndInv
  <1>2. pc[w] \notin Terminal /\ ~Putting(w)
    BY DEF HitEdge, InsertRun, Consumes, Produces, Record, Terminal, Putting
  <1>3. Input(w) \in artifacts
    BY <1>1, <1>2 DEF InHand
  <1>4. CASE HitEdge(w)
    <2>1. Pair(Input(w), obj[w]) \in stage_cache
      BY <1>1, <1>2, <1>4 DEF HitEdge, InHand, Pair
    <2>2. obj[w] \in artifacts
      BY <2>1 DEF IndInv, CacheHasLineage, Pair
    <2> QED BY <1>1, <1>3, <1>4, <2>2, EnteringIsNoRefusal DEF HitEdge, ReferencesHold
  <1>5. CASE InsertRun(w)
    <2>1. Input(w).prompt \in {job[w].prompt, None}
      BY DEF Input, StageInput
    <2>2. ReferencesHold({job[w].toolchain, Input(w).prompt, Input(w)} \ {None})
      BY <1>3, <2>1 DEF AllNamedStored, ReferencesHold
    <2> QED BY <1>1, <1>5, <2>2 DEF InsertRun, Abort, Goto, TypeOK, IsRefused
  <1>6. CASE Consumes(w)
    <2> DEFINE from == IF cursor[w] = 0 THEN job[w].docpack ELSE outputs[w][cursor[w]]
    <2>1. cursor[w] \in 0..Len(outputs[w]) /\ outputs[w] \in Seq(Outputs)
      BY <1>1, <1>2 DEF InHand, TypeOK
    <2>2. from \in artifacts
      BY <2>1, OutputsStored DEF AllNamedStored
    <2>3. ReferencesHold({from, Input(w)})
      BY <1>3, <2>2 DEF ReferencesHold
    <2>4. pc'[w] # "aborted"
      BY <1>1, <1>6, <2>3 DEF Consumes, TypeOK
    <2> QED BY <2>4 DEF IsRefused
  <1>7. CASE Produces(w) \/ Record(w)
    <2>1. obj[w] \in artifacts
      BY <1>1, <1>7 DEF Produces, Record, InHand, Emitting, Terminal
    <2>2. ReferencesHold({Input(w), obj[w]})
      BY <1>3, <2>1 DEF ReferencesHold
    <2> QED BY <1>1, <1>7, <2>2 DEF Produces, Record, Goto, TypeOK, IsRefused
  <1> QED BY <1>4, <1>5, <1>6, <1>7

LEMMA RefusalStep ==
  ASSUME IndInv, ChainsFollow, EdgesHold, [Next]_vars, NEW w \in Workers,
         pc[w] # "aborted", IsRefused(w)
  PROVE  ~AllNamedStored(w)
  <1>1. TypeOK
    BY DEF IndInv
  <1>2. PICK v \in Workers : Step(v) \/ Crash(v) \/ \E j \in Jobs : Start(v, j)
    BY DEF Next, vars, workerVars, IsRefused
  <1>3. CASE v # w
    <2>1. pc'[w] = pc[w]
      BY <1>1, <1>2, <1>3
      DEF Step, PutSelect, PutInsert, Lookup, HitEdge, InsertRun, Handle, FailClosed,
          Consumes, Produces, Record, Finalize, Crash, Start, EnterStage, CallPut, Goto,
          Abort, TypeOK
    <2> QED BY <2>1 DEF IsRefused
  <1>4. CASE v = w
    <2>1. ~(\E j \in Jobs : Start(w, j))
      BY <1>1, EnteringIsNoRefusal DEF Start
    <2>2. ~Crash(w)
      BY <1>1 DEF Crash, TypeOK, IsRefused
    <2> QED BY <1>2, <1>4, <2>1, <2>2, OthersAreNotRefused, WhatIsRefused DEF Step
  <1> QED BY <1>3, <1>4

(***************************************************************************)
(* The order of the writes satisfies every foreign key, for any pipeline:  *)
(* a statement of run() is refused for one only when an artifact that its  *)
(* caller named is not stored.                                             *)
(***************************************************************************)
THEOREM RefusalsAreTheCallers == Spec => MissingIsCallerSupplied
  <1>1. Init => ChainsFollow /\ EdgesHold
    BY DEF Init, ChainsFollow, EdgesHold
  <1>2. IndInv /\ ChainsFollow /\ EdgesHold /\ [Next]_vars => ChainsFollow' /\ EdgesHold'
    BY FollowNext, EdgesNext
  <1>3. IndInv /\ ChainsFollow /\ EdgesHold /\ [Next]_vars =>
          [\A w \in Workers :
             pc[w] # "aborted" /\ pc'[w] = "aborted" /\ ret'[w] = "foreign_key" =>
               ~({job[w].docpack, job[w].prompt, job[w].toolchain} \subseteq artifacts)]_vars
    BY RefusalStep DEF IsRefused, AllNamedStored
  <1> QED BY <1>1, <1>2, <1>3, Inductive, PTL DEF Spec, MissingIsCallerSupplied
=============================================================================
