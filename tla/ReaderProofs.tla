---------------------------- MODULE ReaderProofs ----------------------------
(***************************************************************************)
(* What the readers of stage_runs report, in Closure and in Planner, stays *)
(* true for any number of workers, runs, stages and requests: a row names  *)
(* only what is stored, goes from absent to open to final, and keeps its   *)
(* input.                                                                  *)
(***************************************************************************)
EXTENDS Closure, Planner, OrchestratorProofs, WellFoundedInduction,
        SequenceTheorems

-----------------------------------------------------------------------------
(* The rows of stage_runs, beyond IndInv.                                  *)

IsStored(row) == row.status # "absent" =>
  /\ row.input \in artifacts /\ row.input.toolchain \in artifacts \cup {None}
  /\ row.input.prompt \in artifacts \cup {None}
  /\ row.status \in {"success", "fail_closed"} => row.result \in artifacts

RowsInv == IndInv /\ \A id \in RunStages : IsStored(stage_runs[id])

\* What one step may do to one row.
RowMoves(old, new) ==
  \/ new = old
  \/ old.status = "absent" /\ new.status = "open"
  \/ old.status = "open" /\ new.status \in {"success", "fail_closed"} /\ new.input = old.input

LEMMA ArtifactsGrow ==
  ASSUME [Next]_vars
  PROVE  artifacts \subseteq artifacts'
  <1>1. CASE UNCHANGED vars
    BY <1>1 DEF vars, storeVars
  <1>2. ASSUME NEW w \in Workers, Step(w) PROVE artifacts \subseteq artifacts'
    BY <1>2 DEF Step, PutSelect, PutInsert, InsertArtifact, Lookup, HitEdge, InsertRun, Handle,
       FailClosed, Consumes, Produces, Record, Finalize, Abort, storeVars
  <1>3. ASSUME NEW w \in Workers, Crash(w) \/ \E j \in Jobs : Start(w, j)
        PROVE  artifacts \subseteq artifacts'
    BY <1>3 DEF Crash, Start, storeVars
  <1> QED BY <1>1, <1>2, <1>3 DEF Next

LEMMA RowStep ==
  ASSUME RowsInv, [Next]_vars, NEW id \in RunStages
  PROVE  RowMoves(stage_runs[id], stage_runs'[id]) /\ IsStored(stage_runs[id])'
  <1>1. artifacts \subseteq artifacts' /\ IndInv /\ TypeOK /\ IsStored(stage_runs[id])
    BY ArtifactsGrow DEF RowsInv, IndInv
  <1>2. CASE stage_runs'[id] = stage_runs[id]
    BY <1>1, <1>2 DEF RowMoves, IsStored
  <1>3. ASSUME NEW w \in Workers, InsertRun(w), stage_runs'[id] # stage_runs[id]
        PROVE  RowMoves(stage_runs[id], stage_runs'[id]) /\ IsStored(stage_runs[id])'
    <2>1. /\ stage_runs[RowId(w)].status = "absent"
          /\ ReferencesHold({job[w].toolchain, Input(w).prompt, Input(w)} \ {None})
          /\ InsertStageRun(RowId(w), Input(w))
      BY <1>3 DEF InsertRun, Abort, storeVars, StageRunInsertable
    <2>2. id = RowId(w) /\ stage_runs'[id] =
            [status |-> "open", input |-> Input(w), result |-> None]
      BY <1>1, <1>3, <2>1 DEF InsertStageRun, TypeOK
    <2>3. Input(w) \in artifacts /\ Input(w).toolchain = job[w].toolchain
      BY <1>1, <1>3 DEF InsertRun, IndInv, InHand, Terminal, Putting, Input, StageInput
    <2> QED BY <1>1, <2>1, <2>2, <2>3 DEF RowMoves, IsStored, ReferencesHold
  <1>4. ASSUME NEW w \in Workers, FailClosed(w) \/ Finalize(w), stage_runs'[id] # stage_runs[id]
        PROVE  RowMoves(stage_runs[id], stage_runs'[id]) /\ IsStored(stage_runs[id])'
    <2>1. /\ pc[w] \in {"fail_closed", "finalize"} /\ InHand(w)
          /\ OwnsItsRow(w) /\ Owns(w)
      BY <1>1, <1>4 DEF FailClosed, Finalize, IndInv, Owns
    <2>2. PICK s \in {"success", "fail_closed"} :
            stage_runs' = [stage_runs EXCEPT ![RowId(w)].status = s, ![RowId(w)].result = obj[w]]
      BY <1>4 DEF FailClosed, Finalize, FinalizeStageRun
    <2>3. id = RowId(w) /\ stage_runs[id].status = "open"
      BY <1>1, <1>4, <2>1, <2>2 DEF TypeOK, OwnsItsRow
    <2>4. obj[w] \in artifacts
      BY <2>1 DEF InHand, Terminal, Emitting
    <2>5. /\ stage_runs'[id].status = s /\ stage_runs'[id].result = obj[w]
          /\ stage_runs'[id].input = stage_runs[id].input
      BY <1>1, <2>2, <2>3 DEF TypeOK, RowType
    <2> QED BY <1>1, <2>3, <2>4, <2>5 DEF RowMoves, IsStored
  <1>5. ASSUME NEW w \in Workers, Step(w), stage_runs'[id] # stage_runs[id]
        PROVE  InsertRun(w) \/ FailClosed(w) \/ Finalize(w)
    BY <1>5 DEF Step, PutSelect, PutInsert, Lookup, HitEdge, Handle, Consumes, Produces, Record,
       Abort, storeVars
  <1>6. ASSUME stage_runs'[id] # stage_runs[id]
        PROVE  \E w \in Workers : Step(w)
    BY <1>6 DEF Next, Start, Crash, vars, storeVars
  <1> QED BY <1>2, <1>3, <1>4, <1>5, <1>6

LEMMA RowsInductive ==
  ASSUME RowsInv, [Next]_vars
  PROVE  RowsInv'
  <1>1. IndInv'
    BY NextInd DEF RowsInv
  <1>2. \A id \in RunStages : IsStored(stage_runs[id])'
    BY RowStep
  <1> QED BY <1>1, <1>2 DEF RowsInv

LEMMA InitRows == Init => RowsInv
  BY InitInd DEF RowsInv, Init, IsStored, AbsentRow

\* References(row) are stored, and a step adds to them only while the row is
\* not final.
LEMMA ReferencesStored ==
  ASSUME RowsInv, NEW id \in RunStages, stage_runs[id].status # "absent",
         NEW ref \in References(stage_runs[id])
  PROVE  ref.sha \in artifacts /\ ref.sha # None
  BY DEF RowsInv, IsStored, References

LEMMA ReferencesGrow ==
  ASSUME RowsInv, [Next]_vars, NEW id \in RunStages, stage_runs[id].status # "absent"
  PROVE  /\ stage_runs'[id].status # "absent"
         /\ References(stage_runs[id]) \subseteq References(stage_runs'[id])
         /\ stage_runs[id].status \in {"success", "fail_closed"} =>
              stage_runs'[id] = stage_runs[id]
  <1>1. RowMoves(stage_runs[id], stage_runs'[id])
    BY RowStep
  <1> QED BY <1>1 DEF RowMoves, References

-----------------------------------------------------------------------------
(* Closure.                                                                *)

\* What is collected or expected of a run, before and after a step.
LEMMA ExpectedGrows ==
  ASSUME RowsInv, [Next]_vars, NEW run \in PipelineRuns
  PROVE  /\ Collect(run) = Expected(run)
         /\ Expected(run) \subseteq artifacts /\ None \notin Expected(run)
         /\ Expected(run) \subseteq Expected(run)'
  <1>1. \A id \in Rows(run) : id \in RunStages /\ stage_runs[id].status # "absent"
    BY DEF Rows
  <1>2. Expected(run) \subseteq artifacts /\ None \notin Expected(run)
    BY <1>1, ReferencesStored DEF Expected
  <1>3. Expected(run) \subseteq Expected(run)'
    <2> SUFFICES ASSUME NEW id \in Rows(run), NEW ref \in References(stage_runs[id])
                 PROVE  ref.sha \in Expected(run)'
      BY DEF Expected
    <2>1. id \in Rows(run)' /\ ref \in References(stage_runs'[id])
      BY <1>1, ReferencesGrow DEF Rows
    <2> QED BY <2>1 DEF Expected
  <1>4. Collect(run) = Expected(run)
    BY DEF Collect, Expected
  <1> QED BY <1>2, <1>3, <1>4

(***************************************************************************)
(* The bundle: it lists the deliverable's own documents, what the rows of  *)
(* the run refer to now or referred to before, and all that the rows refer *)
(* to which were final when it was collected.                              *)
(***************************************************************************)
OwnsAndNamed(b) ==
  /\ Own(b.of) \subseteq b.artifacts
  /\ b.artifacts \ Own(b.of) \subseteq Expected(b.of.run)
  /\ None \notin b.artifacts

FinalsListed(b) == \A id \in b.final :
  /\ id \in Rows(b.of.run) /\ Final(stage_runs[id])
  /\ \A ref \in References(stage_runs[id]) : ref.sha \in b.artifacts

BundleInv ==
  /\ RowsInv
  /\ bundle # None =>
       /\ bundle.of \in Deliverables /\ OwnsAndNamed(bundle) /\ FinalsListed(bundle)
       /\ bundle.artifacts \ Own(bundle.of) \subseteq artifacts
       /\ bundle.made => bundle.artifacts \subseteq Stored

LEMMA WorkersKeepBundle ==
  ASSUME BundleInv, [Next]_vars, bundle' = bundle
  PROVE  BundleInv'
  <1>1. RowsInv' /\ artifacts \subseteq artifacts'
    BY RowsInductive, ArtifactsGrow DEF BundleInv
  <1> SUFFICES ASSUME bundle # None
               PROVE  /\ OwnsAndNamed(bundle)' /\ FinalsListed(bundle)'
                      /\ bundle'.artifacts \ Own(bundle'.of) \subseteq artifacts'
                      /\ bundle'.made => bundle'.artifacts \subseteq Stored'
    BY <1>1 DEF BundleInv
  <1>2. bundle.of.run \in PipelineRuns /\ RowsInv
    BY ClosureAssumption DEF BundleInv
  <1>3. OwnsAndNamed(bundle)'
    <2>1. Expected(bundle.of.run) \subseteq Expected(bundle.of.run)'
      BY <1>2, ExpectedGrows
    <2> QED BY <2>1 DEF BundleInv, OwnsAndNamed
  <1>4. FinalsListed(bundle)'
    <2> SUFFICES ASSUME NEW id \in bundle.final
                 PROVE  /\ id \in Rows(bundle.of.run)' /\ Final(stage_runs'[id])
                        /\ \A ref \in References(stage_runs'[id]) : ref.sha \in bundle.artifacts
      BY DEF FinalsListed
    <2>1. /\ id \in Rows(bundle.of.run) /\ Final(stage_runs[id])
          /\ \A ref \in References(stage_runs[id]) : ref.sha \in bundle.artifacts
      BY DEF BundleInv, FinalsListed
    <2>2. id \in RunStages /\ stage_runs[id].status # "absent"
      BY <2>1 DEF Rows
    <2>3. stage_runs'[id] = stage_runs[id]
      BY <1>2, <2>1, <2>2, ReferencesGrow DEF Final
    <2> QED BY <2>1, <2>3 DEF Rows
  <1> QED BY <1>1, <1>3, <1>4 DEF BundleInv, Stored

LEMMA CollectKeepsBundle ==
  ASSUME BundleInv, NEW d \in Deliverables, CollectBundle(d), UNCHANGED vars
  PROVE  BundleInv'
  <1> DEFINE b == [of |-> d, artifacts |-> Collect(d.run) \cup Own(d), made |-> FALSE,
                   final |-> {id \in Rows(d.run) : Final(stage_runs[id])}]
  <1>1. /\ bundle' = b /\ d.run \in PipelineRuns /\ RowsInv
        /\ UNCHANGED <<artifacts, stage_runs>>
    BY ClosureAssumption DEF CollectBundle, BundleInv, vars, storeVars
  <1>2. RowsInv'
    BY <1>1, RowsInductive
  <1>3. /\ Collect(d.run) = Expected(d.run)
        /\ Expected(d.run) \subseteq artifacts /\ None \notin Expected(d.run)
    BY <1>1, ExpectedGrows
  <1>4. Expected(d.run)' = Expected(d.run) /\ Rows(d.run)' = Rows(d.run)
    BY <1>1 DEF Expected, Rows
  <1>5. OwnsAndNamed(b)
    BY <1>3 DEF OwnsAndNamed, Own
  <1>6. FinalsListed(b)
    <2>1. \A id \in Rows(d.run) : \A ref \in References(stage_runs[id]) : ref.sha \in Expected(d.run)
      BY DEF Expected
    <2> QED BY <1>3, <2>1 DEF FinalsListed
  <1>7. b.of = d /\ b.artifacts \ Own(d) \subseteq artifacts /\ b.made = FALSE
    BY <1>3
  <1> HIDE DEF b
  <1>8. OwnsAndNamed(bundle)' /\ FinalsListed(bundle)'
    BY <1>1, <1>4, <1>5, <1>6, <1>7 DEF OwnsAndNamed, FinalsListed
  <1> QED BY <1>1, <1>2, <1>7, <1>8 DEF BundleInv

LEMMA FetchKeepsBundle ==
  ASSUME BundleInv, FetchArtifacts, UNCHANGED vars
  PROVE  BundleInv'
  <1>1. RowsInv' /\ UNCHANGED <<artifacts, stage_runs>>
    BY RowsInductive DEF BundleInv, vars, storeVars
  <1>2. CASE bundle' = None
    BY <1>1, <1>2 DEF BundleInv
  <1>3. CASE bundle.artifacts \subseteq Stored /\ bundle' = [bundle EXCEPT !.made = TRUE]
    <2>1. /\ bundle'.of = bundle.of /\ bundle'.artifacts = bundle.artifacts
          /\ bundle'.final = bundle.final
      BY <1>3
    <2>2. \A run : Expected(run)' = Expected(run) /\ Rows(run)' = Rows(run)
      BY <1>1 DEF Expected, Rows
    <2>3. /\ bundle.of \in Deliverables /\ OwnsAndNamed(bundle) /\ FinalsListed(bundle)
          /\ bundle.artifacts \ Own(bundle.of) \subseteq artifacts
      BY DEF BundleInv, FetchArtifacts
    <2>4. OwnsAndNamed(bundle)' /\ FinalsListed(bundle)'
      BY <1>1, <2>1, <2>2, <2>3 DEF OwnsAndNamed, FinalsListed
    <2> QED BY <1>1, <1>3, <2>1, <2>3, <2>4 DEF BundleInv, Stored
  <1> QED BY <1>2, <1>3 DEF FetchArtifacts

\* Offline, a bundle's zip passes the checks, and a damaged one does not.
LEMMA ZipsAreChecked ==
  ASSUME NEW b, None \notin b.artifacts
  PROVE  LET m == BundleManifest(b) IN
         /\ VerifyZip(Zip(m), None)
         /\ \A expected : expected \subseteq b.artifacts => VerifyZip(Zip(m), expected)
         /\ \A zip \in Damaged(Zip(m)) : ~VerifyZip(zip, None)
  <1> DEFINE m == BundleManifest(b)
             names == b.artifacts
             whole == [sha \in names |-> sha]
  <1>1. m.artifacts = names
    BY DEF BundleManifest
  <1>2. Zip(m) = [manifest |-> m, entries |-> whole] /\ DOMAIN whole = names
    BY <1>1 DEF Zip
  <1> HIDE DEF m
  <1>3. ZipIsExact(Zip(m))
    BY <1>1, <1>2 DEF ZipIsExact
  <1>4. \A expected : expected \subseteq names => VerifyClosure(m, expected).missing = {}
    BY <1>1 DEF VerifyClosure
  <1>5. \A zip \in Damaged(Zip(m)) : zip.manifest = m /\
          \/ \E lost \in names : zip.entries = [sha \in names \ {lost} |-> sha]
          \/ \E sha \in names : zip.entries = [whole EXCEPT ![sha] = None]
          \/ zip.entries = [sha \in names \cup {None} |-> sha]
    <2> DEFINE sent == Zip(m)
    <2>1. sent = [manifest |-> m, entries |-> whole] /\ DOMAIN sent.entries = names
      BY <1>2
    <2> HIDE DEF sent, whole
    <2> SUFFICES ASSUME NEW zip \in Damaged(sent)
                 PROVE  zip.manifest = m /\
                   \/ \E lost \in names : zip.entries = [sha \in names \ {lost} |-> sha]
                   \/ \E sha \in names : zip.entries = [whole EXCEPT ![sha] = None]
                   \/ zip.entries = [sha \in names \cup {None} |-> sha]
      BY DEF sent
    <2>2. \/ \E lost \in names : zip = [sent EXCEPT !.entries = [sha \in names \ {lost} |-> sha]]
          \/ \E sha \in names : zip = [sent EXCEPT !.entries[sha] = None]
          \/ zip = [sent EXCEPT !.entries = [sha \in names \cup {None} |-> sha]]
      BY <2>1, Zenon DEF Damaged
    <2>3. CASE \E lost \in names : zip = [sent EXCEPT !.entries = [sha \in names \ {lost} |-> sha]]
      BY <2>1, <2>3
    <2>4. CASE \E sha \in names : zip = [sent EXCEPT !.entries[sha] = None]
      BY <2>1, <2>4
    <2>5. CASE zip = [sent EXCEPT !.entries = [sha \in names \cup {None} |-> sha]]
      BY <2>1, <2>5
    <2> QED BY <2>2, <2>3, <2>4, <2>5
  <1>6. \A zip \in Damaged(Zip(m)) : ~ZipIsExact(zip)
    <2> SUFFICES ASSUME NEW zip \in Damaged(Zip(m)) PROVE ~ZipIsExact(zip)
      OBVIOUS
    <2>1. zip.manifest.artifacts = names
      BY <1>1, <1>5
    <2>2. CASE \E lost \in names : zip.entries = [sha \in names \ {lost} |-> sha]
      BY <2>1, <2>2 DEF ZipIsExact
    <2>3. CASE \E sha \in names : zip.entries = [whole EXCEPT ![sha] = None]
      BY <2>3 DEF ZipIsExact
    <2>4. CASE zip.entries = [sha \in names \cup {None} |-> sha]
      BY <2>1, <2>4 DEF ZipIsExact
    <2> QED BY <1>5, <2>2, <2>3, <2>4
  <1>7. /\ VerifyZip(Zip(m), None)
        /\ \A expected : expected \subseteq names => VerifyZip(Zip(m), expected)
    <2>1. Zip(m).manifest = m
      BY <1>2
    <2> QED BY <1>3, <1>4, <2>1 DEF VerifyZip, ClosureViaGateway
  <1>8. \A zip \in Damaged(Zip(m)) : ~VerifyZip(zip, None)
    BY <1>6 DEF VerifyZip
  <1> QED BY <1>7, <1>8 DEF m

\* What is not listed comes from rows that were not final.
LEMMA LaterSources ==
  ASSUME NEW b, FinalsListed(b), NEW sha \in Expected(b.of.run) \ b.artifacts
  PROVE  /\ Sources(b.of.run, sha) # {}
         /\ \A source \in Sources(b.of.run, sha) : source.row \notin b.final
  <1>1. Sources(b.of.run, sha) # {}
    <2>1. PICK id \in Rows(b.of.run) : \E ref \in References(stage_runs[id]) : ref.sha = sha
      BY DEF Expected
    <2>2. PICK ref \in References(stage_runs[id]) : ref.sha = sha
      BY <2>1
    <2>3. [row |-> id, type |-> ref.type] \in Sources(b.of.run, sha)
      BY <2>2 DEF Sources
    <2> QED BY <2>3
  <1>2. ASSUME NEW source \in Sources(b.of.run, sha)
        PROVE  source.row \notin b.final
    <2>1. PICK id \in Rows(b.of.run) : \E ref \in References(stage_runs[id]) :
            ref.sha = sha /\ source.row = id
      BY <1>2 DEF Sources
    <2> QED BY <2>1 DEF FinalsListed
  <1> QED BY <1>1, <1>2

LEMMA BundleIsClosed == BundleInv => ClosuresHold
  <1> SUFFICES ASSUME BundleInv, bundle # None
               PROVE  LET d == bundle.of
                          m == BundleManifest(bundle)
                          now == VerifyBundle(m)
                      IN /\ now.missing_artifacts \subseteq Own(d)
                         /\ bundle.made => now.missing_artifacts = {}
                         /\ now.closure.extra = Own(d) \ Expected(d.run)
                         /\ \A sha \in now.closure.missing :
                              /\ now.details[sha] # {}
                              /\ \A source \in now.details[sha] : source.row \notin bundle.final
                         /\ Rows(d.run) \subseteq bundle.final => VerifyZip(Zip(m), Expected(d.run))
                         /\ VerifyZip(Zip(m), None)
                         /\ \A zip \in Damaged(Zip(m)) : ~VerifyZip(zip, None)
    BY DEF ClosuresHold
  <1> DEFINE d == bundle.of
             m == BundleManifest(bundle)
             now == VerifyBundle(m)
             lost == Expected(d.run) \ bundle.artifacts
  <1>1. m.run = d.run /\ m.artifacts = bundle.artifacts
    BY DEF BundleManifest
  <1>2. /\ OwnsAndNamed(bundle) /\ FinalsListed(bundle)
        /\ bundle.artifacts \ Own(d) \subseteq artifacts
        /\ bundle.made => bundle.artifacts \subseteq Stored
    BY DEF BundleInv
  <1>3. /\ now.missing_artifacts = bundle.artifacts \ Stored
        /\ now.closure.missing = lost /\ now.closure.extra = bundle.artifacts \ Expected(d.run)
        /\ now.details = [sha \in lost |-> Sources(d.run, sha)]
    BY <1>1 DEF VerifyBundle, VerifyClosure
  <1>4. now.missing_artifacts \subseteq Own(d) /\ (bundle.made => now.missing_artifacts = {})
    BY <1>2, <1>3 DEF Stored
  <1>5. now.closure.extra = Own(d) \ Expected(d.run)
    BY <1>2, <1>3 DEF OwnsAndNamed
  <1>6. \A sha \in now.closure.missing :
          /\ now.details[sha] # {}
          /\ \A source \in now.details[sha] : source.row \notin bundle.final
    BY <1>2, <1>3, LaterSources
  <1>7. Rows(d.run) \subseteq bundle.final => Expected(d.run) \subseteq bundle.artifacts
    BY <1>2 DEF FinalsListed, Expected
  <1>8. /\ VerifyZip(Zip(m), None)
        /\ \A expected : expected \subseteq bundle.artifacts => VerifyZip(Zip(m), expected)
        /\ \A zip \in Damaged(Zip(m)) : ~VerifyZip(zip, None)
    <2>1. None \notin bundle.artifacts
      BY <1>2 DEF OwnsAndNamed
    <2> QED BY <2>1, ZipsAreChecked
  <1> HIDE DEF d, m, now, lost
  <1>9. Rows(d.run) \subseteq bundle.final => VerifyZip(Zip(m), Expected(d.run))
    BY <1>7, <1>8
  <1> QED BY <1>4, <1>5, <1>6, <1>8, <1>9 DEF d, m, now

(***************************************************************************)
(* create_bundle beside any number of workers, for all deliverables: what  *)
(* it collected and fetched in separate transactions is stored, named by   *)
(* the run's rows or the deliverable's own, and complete for the rows that *)
(* were final when it was collected; ever after.                           *)
(***************************************************************************)
THEOREM ClosuresStay == PlannerSpec => []ClosuresHold
  <1>1. PlannerInit => BundleInv
    BY InitRows DEF PlannerInit, BundleInv
  <1>2. BundleInv /\ [PlannerNext]_<<vars, plannerVars>> => BundleInv'
    <2> SUFFICES ASSUME BundleInv, [PlannerNext]_<<vars, plannerVars>> PROVE BundleInv'
      OBVIOUS
    <2>1. CASE WorkerStep \/ UNCHANGED <<vars, plannerVars>>
      BY <2>1, WorkersKeepBundle DEF WorkerStep, plannerVars
    <2>2. CASE PlannerStep /\ UNCHANGED <<bundle, shared>>
      <3>1. UNCHANGED vars
        BY <2>2 DEF PlannerStep, Ask, SelectAffected, InsertPlan, ReadRun, MarkExecuted,
           ReadRowsA, ReadRowsB
      <3> QED BY <2>2, <3>1, WorkersKeepBundle
    <2>3. CASE BundleStep /\ UNCHANGED <<vars, readerVars, shared>>
      BY <2>3, CollectKeepsBundle, FetchKeepsBundle DEF BundleStep
    <2> QED BY <2>1, <2>2, <2>3 DEF PlannerNext
  <1> QED BY <1>1, <1>2, BundleIsClosed, PTL DEF PlannerSpec

-----------------------------------------------------------------------------
(* Planner.                                                                *)

\* What an item says of a run.
ItemIsTrue(item, run) ==
  /\ item.outputs \subseteq OutputsOf(run)
  /\ \A i \in item.reuse : \E o \in item.outputs : o[1] = i

ItemsAreTrue ==
  /\ DOMAIN found \subseteq PipelineRuns
  /\ DOMAIN items \subseteq PipelineRuns
  /\ \A run \in DOMAIN items : ItemIsTrue(items[run], run)

PlanIsTrue == plan # None =>
  /\ plan = [status |-> plan.status, items |-> plan.items]
  /\ DOMAIN plan.items \subseteq PipelineRuns
  /\ \A run \in DOMAIN plan.items : ItemIsTrue(plan.items[run], run)

\* A final row that was read is the row.
IsKept(row, id) == Final(row) => row = stage_runs[id]

DiffIsTrue == diff # None =>
  /\ diff = [pair |-> diff.pair, a |-> diff.a, b |-> diff.b]
  /\ diff.pair \in PipelineRuns \X PipelineRuns
  /\ \A i \in Stages : IsKept(diff.a[i], <<diff.pair[1], i>>)
  /\ diff.b # None => \A i \in Stages : IsKept(diff.b[i], <<diff.pair[2], i>>)

PlanInv == RowsInv /\ ItemsAreTrue /\ PlanIsTrue /\ DiffIsTrue

LEMMA FinalRowIsKept ==
  ASSUME RowsInv, [Next]_vars, NEW id \in RunStages, Final(stage_runs[id])
  PROVE  stage_runs'[id] = stage_runs[id]
  BY RowStep DEF RowMoves, Final

LEMMA OutputsStay ==
  ASSUME RowsInv, [Next]_vars, NEW run \in PipelineRuns
  PROVE  OutputsOf(run) \subseteq OutputsOf(run)'
  <1> SUFFICES ASSUME NEW i \in Stages, Finished(stage_runs[<<run, i>>])
               PROVE  stage_runs'[<<run, i>>] = stage_runs[<<run, i>>]
    BY DEF OutputsOf
  <1>1. <<run, i>> \in RunStages
    BY DEF RunStages
  <1> QED BY <1>1, FinalRowIsKept DEF Finished, Final

LEMMA ItemStays ==
  ASSUME RowsInv, [Next]_vars, NEW run \in PipelineRuns, NEW item, ItemIsTrue(item, run)
  PROVE  ItemIsTrue(item, run)'
  BY OutputsStay DEF ItemIsTrue

LEMMA RowIsKept ==
  ASSUME RowsInv, [Next]_vars, NEW id \in RunStages, NEW row, IsKept(row, id)
  PROVE  IsKept(row, id)'
  BY FinalRowIsKept DEF IsKept

\* A step of a worker.
LEMMA WorkersKeepReports ==
  ASSUME PlanInv, [Next]_vars, UNCHANGED readerVars
  PROVE  PlanInv'
  <1>1. RowsInv /\ RowsInv'
    BY RowsInductive DEF PlanInv
  <1>2. /\ found' = found /\ items' = items /\ plan' = plan /\ diff' = diff
    BY DEF readerVars
  <1>3. ItemsAreTrue'
    BY <1>1, <1>2, ItemStays DEF PlanInv, ItemsAreTrue
  <1>4. PlanIsTrue'
    BY <1>1, <1>2, ItemStays DEF PlanInv, PlanIsTrue
  <1>5. DiffIsTrue'
    <2> SUFFICES ASSUME diff # None PROVE DiffIsTrue'
      BY <1>2 DEF DiffIsTrue
    <2>1. \A i \in Stages : <<diff.pair[1], i>> \in RunStages /\ <<diff.pair[2], i>> \in RunStages
      BY DEF PlanInv, DiffIsTrue, RunStages
    <2>2. \A i \in Stages : IsKept(diff.a[i], <<diff.pair[1], i>>)'
      BY <1>1, <1>2, <2>1, RowIsKept DEF PlanInv, DiffIsTrue, IsKept
    <2>3. diff.b # None => \A i \in Stages : IsKept(diff.b[i], <<diff.pair[2], i>>)'
      BY <1>1, <1>2, <2>1, RowIsKept DEF PlanInv, DiffIsTrue, IsKept
    <2> QED BY <1>2, <2>2, <2>3 DEF PlanInv, DiffIsTrue
  <1> QED BY <1>1, <1>3, <1>4, <1>5 DEF PlanInv

LEMMA ItemOfRun ==
  ASSUME NEW run, NEW start
  PROVE  ItemIsTrue(Item(run, start), run)
  <1>1. /\ Item(run, start).outputs = OutputsOf(run)
        /\ Item(run, start).reuse = {i \in Stages : i < start /\ Finished(stage_runs[<<run, i>>])}
    BY DEF Item
  <1>2. ASSUME NEW i \in Stages, Finished(stage_runs[<<run, i>>])
        PROVE  \E o \in OutputsOf(run) : o[1] = i
    <2>1. <<i, stage_runs[<<run, i>>].result>> \in OutputsOf(run)
      BY <1>2 DEF OutputsOf
    <2> QED BY <2>1
  <1>3. \A i \in Item(run, start).reuse : i \in Stages /\ Finished(stage_runs[<<run, i>>])
    BY <1>1
  <1> QED BY <1>1, <1>2, <1>3 DEF ItemIsTrue

\* A step of a reader: the rows are as they were.
LEMMA ReadersKeepReports ==
  ASSUME PlanInv, PlannerStep
  PROVE  PlanInv'
  <1> USE DEF PlanInv
  <1>1. UNCHANGED vars
    BY DEF PlannerStep, Ask, SelectAffected, InsertPlan, ReadRun, MarkExecuted, ReadRowsA, ReadRowsB
  <1>2. RowsInv' /\ stage_runs' = stage_runs /\ \A run : OutputsOf(run)' = OutputsOf(run)
    BY <1>1, RowsInductive DEF vars, storeVars, OutputsOf
  <1>3. CASE UNCHANGED <<items, plan, diff>> /\ DOMAIN found' \subseteq PipelineRuns
    BY <1>2, <1>3 DEF ItemsAreTrue, ItemIsTrue, PlanIsTrue, DiffIsTrue, IsKept
  <1>4. ASSUME NEW run \in PipelineRuns, ReadRun(run) PROVE PlanInv'
    <2>1. ItemsAreTrue'
      <3>1. DOMAIN found' \subseteq PipelineRuns /\ DOMAIN items' \subseteq PipelineRuns
        BY <1>4 DEF ReadRun, ItemsAreTrue
      <3>2. ASSUME NEW r \in DOMAIN items' PROVE ItemIsTrue(items'[r], r)
        <4>1. items'[r] = IF r = run THEN Item(run, found[run]) ELSE items[r]
          BY <1>4, <3>2 DEF ReadRun
        <4>2. r # run => r \in DOMAIN items
          BY <1>4, <3>2 DEF ReadRun
        <4> QED BY <4>1, <4>2, ItemOfRun DEF ItemsAreTrue
      <3> QED BY <1>2, <3>1, <3>2 DEF ItemsAreTrue, ItemIsTrue
    <2> QED BY <1>2, <1>4, <2>1 DEF ReadRun, PlanIsTrue, ItemIsTrue, DiffIsTrue, IsKept
  <1>5. CASE InsertPlan
    <2>1. plan' = [status |-> "planned", items |-> items]
      BY <1>5 DEF InsertPlan
    <2>2. DOMAIN items' = {}
      BY <1>5 DEF InsertPlan, NoFunction
    <2>3. PlanIsTrue'
      BY <1>2, <2>1 DEF PlanIsTrue, ItemsAreTrue, ItemIsTrue
    <2> QED BY <1>2, <1>5, <2>2, <2>3 DEF InsertPlan, ItemsAreTrue, DiffIsTrue, IsKept
  <1>6. CASE MarkExecuted
    <2>1. plan # None => /\ plan' = [plan EXCEPT !.status = "executed"]
                         /\ plan'.items = plan.items
      BY <1>6 DEF MarkExecuted, PlanIsTrue
    <2>2. plan # None => plan' = [status |-> plan'.status, items |-> plan'.items]
      BY <2>1 DEF PlanIsTrue
    <2>3. plan = None => plan' = None
      BY <1>6 DEF MarkExecuted
    <2>4. PlanIsTrue'
      BY <1>2, <2>1, <2>2, <2>3 DEF PlanIsTrue, ItemIsTrue
    <2> QED BY <1>2, <1>6, <2>4 DEF MarkExecuted, ItemsAreTrue, ItemIsTrue, DiffIsTrue, IsKept
  <1>7. ASSUME NEW pair \in DiffPairs, ReadRowsA(pair) PROVE PlanInv'
    <2>1. pair \in PipelineRuns \X PipelineRuns
      BY PlannerAssumption
    <2>2. diff' = [pair |-> pair, a |-> RowsOf(pair[1]), b |-> None]
      BY <1>7 DEF ReadRowsA
    <2>3. \A i \in Stages : RowsOf(pair[1])[i] = stage_runs'[<<pair[1], i>>]
      BY <1>2 DEF RowsOf
    <2>4. DiffIsTrue'
      BY <2>1, <2>2, <2>3 DEF DiffIsTrue, IsKept
    <2> QED BY <1>2, <1>7, <2>4 DEF ReadRowsA, ItemsAreTrue, ItemIsTrue, PlanIsTrue
  <1>8. CASE ReadRowsB
    <2>1. diff # None /\ diff' = [diff EXCEPT !.b = RowsOf(diff.pair[2])]
      BY <1>8 DEF ReadRowsB
    <2>2. diff' = [pair |-> diff.pair, a |-> diff.a, b |-> RowsOf(diff.pair[2])]
      BY <2>1 DEF DiffIsTrue
    <2>3. \A i \in Stages : RowsOf(diff.pair[2])[i] = stage_runs'[<<diff.pair[2], i>>]
      BY <1>2 DEF RowsOf
    <2>4. DiffIsTrue'
      BY <1>2, <2>1, <2>2, <2>3 DEF DiffIsTrue, IsKept
    <2> QED BY <1>2, <1>8, <2>4 DEF ReadRowsB, ItemsAreTrue, ItemIsTrue, PlanIsTrue
  <1>9. ASSUME \/ \E req \in Requests : Ask(req)
               \/ SelectAffected
        PROVE  PlanInv'
    <2>1. UNCHANGED <<items, plan, diff>> /\ DOMAIN found' \subseteq PipelineRuns
      BY <1>9 DEF Ask, SelectAffected, ItemsAreTrue
    <2> QED BY <1>3, <2>1
  <1> QED BY <1>4, <1>5, <1>6, <1>7, <1>8, <1>9 DEF PlannerStep

\* The invariant of the planner and the diff beside the workers.
THEOREM PlannerInductive == PlannerSpec => []PlanInv
  <1>1. PlannerInit => PlanInv
    BY InitRows DEF PlannerInit, PlanInv, ItemsAreTrue, PlanIsTrue, DiffIsTrue, NoFunction
  <1>2. PlanInv /\ [PlannerNext]_<<vars, plannerVars>> => PlanInv'
    <2> SUFFICES ASSUME PlanInv, [PlannerNext]_<<vars, plannerVars>> PROVE PlanInv'
      OBVIOUS
    <2>1. CASE UNCHANGED <<vars, plannerVars>> \/ WorkerStep \/ UNCHANGED <<vars, readerVars>>
      BY <2>1, WorkersKeepReports DEF plannerVars, WorkerStep
    <2>2. CASE PlannerStep
      BY <2>2, ReadersKeepReports
    <2> QED BY <2>1, <2>2 DEF PlannerNext
  <1> QED BY <1>1, <1>2, PTL DEF PlannerSpec

\* ReportsStayTrue: what a plan or a diff says of finished stages is what the
\* rows say ever after.
THEOREM ReportsAreKept == PlannerSpec => []ReportsStayTrue
  <1>1. PlanInv => ReportsStayTrue
    <2> SUFFICES ASSUME PlanInv PROVE ReportsStayTrue
      OBVIOUS
    <2>1. plan # None => \A run \in DOMAIN plan.items : ItemIsTrue(plan.items[run], run)
      BY DEF PlanInv, PlanIsTrue
    <2>2. ASSUME diff # None, diff.b # None, NEW i \in Stages, Final(diff.a[i]), Final(diff.b[i])
          PROVE  /\ diff.a[i] = RowsOf(diff.pair[1])[i]
                 /\ diff.b[i] = RowsOf(diff.pair[2])[i]
      BY <2>2 DEF PlanInv, DiffIsTrue, IsKept, RowsOf
    <2> QED BY <2>1, <2>2 DEF ReportsStayTrue, ItemIsTrue
  <1> QED BY <1>1, PlannerInductive, PTL

-----------------------------------------------------------------------------
(* The rows of a call of run(), and what is memoized in front of them.     *)

RowOf(j, i) == stage_runs[<<j.run, i>>]
Prior(j, i) == RowOf(j, i).input.prior_outputs

\* Stage i of the run was executed for call j, after the outputs Prior(j, i).
HasRow(j, i) == Exists(j.run, i) /\ RowOf(j, i).input = StageInput(j, i, Prior(j, i))

\* The call that has outs[1], ..., outs[i - 1] finds outs[i] in the cache.
IsHit(j, i, outs) ==
  [input |-> StageInput(j, i, SubSeq(outs, 1, i - 1)), output |-> outs[i]] \in stage_cache

\* How the first n stages came by their outputs: executed here, or hits.
Passed(j, n, outs) == \A i \in 1..n : HasRow(j, i) \/ IsHit(j, i, outs)

FirstRow(j, s) == HasRow(j, s) /\ \A i \in Stages : i < s => ~HasRow(j, i)

CacheIsFunction == \A c, d \in stage_cache : c.input = d.input => c = d

RowsAreCalls ==
  \A run \in PipelineRuns, i \in Stages : Exists(run, i) =>
    /\ stage_runs[<<run, i>>].input.prompt # None
    /\ \E j \in Jobs : j.run = run /\ HasRow(j, i)

RowsPassed ==
  \A j \in Jobs, s \in Stages : HasRow(j, s) =>
    /\ Prior(j, s) \in Seq(Outputs) /\ Len(Prior(j, s)) = s - 1
    /\ Passed(j, s - 1, Prior(j, s))

WorkerPassed(w) == pc[w] \notin Terminal =>
  /\ Passed(job[w], stage[w] - 1, outputs[w])
  /\ (Putting(w) /\ ret[w] = "lookup") \/ pc[w] \in {"lookup", "insert_run"}
       => ValidInput(Input(w))

SharedSeen ==
  \A run \in PipelineRuns : run \notin shared => \A v, w \in Callers(run) : v = w

(***************************************************************************)
(* A caller that has its run to itself and comes to the stages in front of *)
(* the call's first row finds them in the cache, with the outputs that the *)
(* row was computed from.                                                  *)
(***************************************************************************)
InFront(w) == pc[w] \notin Terminal /\ job[w].run \notin shared =>
  \A j \in Jobs, s \in Stages : job[w] = j /\ FirstRow(j, s) /\ stage[w] <= s =>
    /\ outputs[w] = SubSeq(Prior(j, s), 1, stage[w] - 1)
    /\ stage[w] < s =>
         /\ pc[w] \in {"select", "insert", "lookup", "hit_edge"}
         /\ Putting(w) => ret[w] \in {"lookup", "failed"}
         /\ pc[w] = "hit_edge" => obj[w] = Prior(j, s)[stage[w]]

CallsInv ==
  /\ CacheIsFunction /\ RowsAreCalls /\ RowsPassed /\ SharedSeen
  /\ \A w \in Workers : WorkerPassed(w) /\ InFront(w)

LEMMA CallRow ==
  ASSUME NEW j \in Jobs, NEW i \in Stages
  PROVE  j.run \in PipelineRuns /\ <<j.run, i>> \in RunStages
  BY OrchestratorAssumption DEF JobType, RunStages

\* A row stays, and keeps its input.
LEMMA RowStays ==
  ASSUME RowsInv, [Next]_vars, NEW run \in PipelineRuns, NEW i \in Stages, Exists(run, i)
  PROVE  Exists(run, i)' /\ stage_runs'[<<run, i>>].input = stage_runs[<<run, i>>].input
  <1>1. <<run, i>> \in RunStages
    BY DEF RunStages
  <1>2. RowMoves(stage_runs[<<run, i>>], stage_runs'[<<run, i>>])
    BY <1>1, RowStep
  <1> QED BY <1>2 DEF RowMoves, Exists

LEMMA CallKeepsRow ==
  ASSUME RowsInv, [Next]_vars, NEW j \in Jobs, NEW i \in Stages, HasRow(j, i)
  PROVE  HasRow(j, i)' /\ Prior(j, i)' = Prior(j, i)
  <1>1. Exists(j.run, i)' /\ stage_runs'[<<j.run, i>>].input = stage_runs[<<j.run, i>>].input
    BY RowStays, CallRow DEF HasRow
  <1>2. Prior(j, i)' = Prior(j, i)
    BY <1>1 DEF Prior, RowOf
  <1> QED BY <1>1, <1>2 DEF HasRow, RowOf

\* Rows are inserted by the worker that misses the cache.
LEMMA NewRow ==
  ASSUME RowsInv, [Next]_vars, NEW run \in PipelineRuns, NEW i \in Stages,
         ~Exists(run, i), Exists(run, i)'
  PROVE  \E w \in Workers :
           /\ InsertRun(w) /\ pc'[w] = "handler" /\ UNCHANGED <<job, stage, outputs>>
           /\ RowId(w) = <<run, i>> /\ stage_runs'[<<run, i>>].input = Input(w)
  <1> DEFINE id == <<run, i>>
  <1>1. id \in RunStages /\ TypeOK
    BY DEF RunStages, RowsInv, IndInv
  <1>2. stage_runs[id].status = "absent" /\ stage_runs'[id].status # "absent"
    BY DEF Exists
  <1> HIDE DEF id
  <1>3. PICK w \in Workers : Step(w)
    BY <1>2 DEF Next, Start, Crash, vars, storeVars
  <1>4. ~(FailClosed(w) \/ Finalize(w))
    <2> SUFFICES ASSUME FailClosed(w) \/ Finalize(w) PROVE FALSE
      OBVIOUS
    <2>1. OwnsItsRow(w) /\ Owns(w)
      BY DEF FailClosed, Finalize, RowsInv, IndInv, Owns
    <2>2. PICK s \in {"success", "fail_closed"} :
            stage_runs' = [stage_runs EXCEPT ![RowId(w)].status = s, ![RowId(w)].result = obj[w]]
      BY DEF FailClosed, Finalize, FinalizeStageRun
    <2> QED BY <1>1, <1>2, <2>1, <2>2 DEF TypeOK, OwnsItsRow
  <1>5. InsertRun(w) /\ stage_runs' # stage_runs
    BY <1>2, <1>3, <1>4 DEF Step, PutSelect, PutInsert, Lookup, HitEdge, Handle, Consumes,
       Produces, Record, Abort, storeVars
  <1>6. InsertStageRun(RowId(w), Input(w)) /\ Goto(w, "handler")
    BY <1>5 DEF InsertRun, Abort, storeVars
  <1>7. id = RowId(w) /\ stage_runs'[id].input = Input(w)
    BY <1>1, <1>2, <1>6 DEF InsertStageRun, TypeOK
  <1>8. pc'[w] = "handler" /\ UNCHANGED <<job, stage, outputs>>
    BY <1>1, <1>6 DEF Goto, TypeOK
  <1> QED BY <1>5, <1>7, <1>8 DEF id

\* One run, one input with a prompt: one call.
LEMMA SameCall ==
  ASSUME NEW j \in Jobs, NEW k \in Jobs, NEW i \in Stages, NEW a \in Seq(Outputs), NEW b,
         j.run = k.run, StageInput(j, i, a) = StageInput(k, i, b), ValidInput(StageInput(j, i, a))
  PROVE  j = k
  <1>1. j \in JobType /\ k \in JobType
    BY OrchestratorAssumption
  <1>2. /\ j.docpack = k.docpack /\ j.toolchain = k.toolchain /\ j.params = k.params
        /\ j.prompt = k.prompt
    BY DEF StageInput, ValidInput
  <1> QED BY <1>1, <1>2 DEF JobType

LEMMA CacheStep ==
  ASSUME CacheIsFunction, [Next]_vars
  PROVE  stage_cache \subseteq stage_cache' /\ CacheIsFunction'
  <1>1. CASE UNCHANGED stage_cache
    BY <1>1 DEF CacheIsFunction
  <1>2. ASSUME NEW w \in Workers, Record(w), stage_cache' # stage_cache
        PROVE  stage_cache \subseteq stage_cache' /\ CacheIsFunction'
    <2>1. CacheRecord(Input(w), obj[w])
      BY <1>2 DEF Record, Abort, storeVars
    <2>2. /\ CacheLookup(Input(w)) = {}
          /\ stage_cache' = stage_cache \cup {[input |-> Input(w), output |-> obj[w]]}
      BY <1>2, <2>1 DEF CacheRecord
    <2>3. \A c \in stage_cache : c.input # Input(w)
      BY <2>2 DEF CacheLookup
    <2> QED BY <2>2, <2>3 DEF CacheIsFunction
  <1>3. ASSUME stage_cache' # stage_cache PROVE \E w \in Workers : Record(w)
    BY <1>3 DEF Next, Start, Crash, Step, PutSelect, PutInsert, Lookup, HitEdge, InsertRun,
       Handle, FailClosed, Consumes, Produces, Finalize, Abort, vars, storeVars
  <1> QED BY <1>1, <1>2, <1>3

LEMMA PassedStays ==
  ASSUME RowsInv, CacheIsFunction, [Next]_vars, NEW j \in Jobs, NEW n \in Nat, n <= NumStages,
         NEW outs, Passed(j, n, outs)
  PROVE  Passed(j, n, outs)'
  <1>1. stage_cache \subseteq stage_cache'
    BY CacheStep
  <1>2. ASSUME NEW i \in 1..n PROVE HasRow(j, i)' \/ IsHit(j, i, outs)'
    <2>1. i \in Stages
      BY OrchestratorAssumption DEF Stages
    <2>2. HasRow(j, i) \/ IsHit(j, i, outs)
      BY DEF Passed
    <2> QED BY <1>1, <2>1, <2>2, CallKeepsRow DEF IsHit
  <1> QED BY <1>2 DEF Passed

\* The outputs of a call that comes to have a row are those of its caller.
LEMMA NewRowOfCall ==
  ASSUME RowsInv, [Next]_vars, NEW j \in Jobs, NEW s \in Stages,
         \A w \in Workers : WorkerPassed(w), ~HasRow(j, s), HasRow(j, s)'
  PROVE  \E w \in Workers :
           /\ InsertRun(w) /\ pc'[w] = "handler" /\ UNCHANGED <<job, stage, outputs>>
           /\ job[w] = j /\ stage[w] = s /\ Prior(j, s)' = outputs[w]
           /\ ValidInput(Input(w)) /\ Passed(j, s - 1, outputs[w])
  <1>1. j.run \in PipelineRuns
    BY CallRow
  <1>2. ~Exists(j.run, s) /\ Exists(j.run, s)'
    <2>1. ASSUME Exists(j.run, s) PROVE FALSE
      <3>1. stage_runs'[<<j.run, s>>].input = stage_runs[<<j.run, s>>].input
        BY <1>1, <2>1, RowStays
      <3>2. Prior(j, s)' = Prior(j, s)
        BY <3>1 DEF Prior, RowOf
      <3> QED BY <2>1, <3>1, <3>2 DEF HasRow, RowOf
    <2> QED BY <2>1 DEF HasRow
  <1>3. PICK w \in Workers :
          /\ InsertRun(w) /\ pc'[w] = "handler" /\ UNCHANGED <<job, stage, outputs>>
          /\ RowId(w) = <<j.run, s>> /\ stage_runs'[<<j.run, s>>].input = Input(w)
    BY <1>1, <1>2, NewRow
  <1>4. InHand(w) /\ TypeOK /\ pc[w] = "insert_run" /\ pc[w] \notin Terminal
    BY <1>3 DEF RowsInv, IndInv, InsertRun, Terminal
  <1>5. job[w] \in Jobs /\ outputs[w] \in Seq(Outputs) /\ stage[w] = s /\ job[w].run = j.run
    BY <1>3, <1>4 DEF InHand, TypeOK, RowId
  <1>6. Prior(j, s)' = outputs[w]
    BY <1>3, <1>4, RunningTypes DEF Prior, RowOf
  <1>7. ValidInput(Input(w)) /\ Passed(job[w], s - 1, outputs[w])
    BY <1>4, <1>5 DEF WorkerPassed
  <1>8. StageInput(job[w], s, outputs[w]) = StageInput(j, s, outputs[w])
    BY <1>3, <1>5, <1>6 DEF HasRow, RowOf, Input
  <1>9. job[w] = j
    BY <1>5, <1>7, <1>8, SameCall DEF Input
  <1> QED BY <1>3, <1>5, <1>6, <1>7, <1>9

-----------------------------------------------------------------------------
(* How a worker comes from one stage to the next.                          *)

AtHead(w) ==
  /\ pc[w] = "select" /\ job[w] \in Jobs
  /\ ret[w] = "failed" \/ (ret[w] = "lookup" /\ ValidInput(Input(w)))

Begins(w) == AtHead(w)' /\ stage'[w] = 1 /\ outputs'[w] = <<>>

\* After a hit, or after the row of the stage was finalized.
NextStage(w) ==
  /\ pc[w] \in {"hit_edge", "finalize"} /\ AtHead(w)'
  /\ job'[w] = job[w] /\ stage'[w] = stage[w] + 1
  /\ outputs'[w] = Append(outputs[w], obj[w])

WithinStage(w) ==
  /\ pc[w] \notin Terminal /\ pc'[w] \notin Terminal
  /\ job'[w] = job[w] /\ stage'[w] = stage[w] /\ outputs'[w] = outputs[w]
  /\ \/ Putting(w) /\ pc'[w] \in {"insert", ret[w]} /\ ret'[w] = ret[w]
     \/ pc[w] = "lookup" /\ pc'[w] = "hit_edge" /\ obj'[w] \in CacheLookup(Input(w))
     \/ pc[w] = "lookup" /\ pc'[w] = "insert_run" /\ CacheLookup(Input(w)) = {}
     \/ pc[w] = "insert_run" /\ pc'[w] = "handler"
     \/ pc[w] = "handler" /\ pc'[w] = "select" /\ ret'[w] \in {"consumes", "fail_closed"}
     \/ pc[w] \in Emitting /\ pc'[w] \in Emitting

Moves(w) ==
  KeepsOthers(w) /\ (pc'[w] \in Terminal \/ Begins(w) \/ NextStage(w) \/ WithinStage(w))

LEMMA HeadOfStage ==
  ASSUME TypeOK, NEW w \in Workers, NEW i, NEW outs, EnterStage(w, i, outs),
         job'[w] \in Jobs
  PROVE  /\ stage'[w] = i /\ outputs'[w] = outs
         /\ pc'[w] \in Terminal \/ AtHead(w)'
  <1>1. stage'[w] = i /\ outputs'[w] = outs
    BY DEF EnterStage, TypeOK
  <1>2. CASE i > NumStages
    BY <1>1, <1>2 DEF EnterStage, TypeOK, Terminal
  <1>3. CASE ~(i > NumStages)
    <2>1. \/ ValidInput(StageInput(job'[w], i, outs)) /\ pc'[w] = "select" /\ ret'[w] = "lookup"
          \/ pc'[w] = "select" /\ ret'[w] = "failed"
      BY <1>3 DEF EnterStage, CallPut, TypeOK
    <2>2. Input(w)' = StageInput(job'[w], i, outs)
      BY <1>1 DEF Input
    <2> QED BY <1>1, <2>1, <2>2 DEF AtHead
  <1> QED BY <1>1, <1>2, <1>3

LEMMA AbortMoves ==
  ASSUME TypeOK, NEW w \in Workers, NEW why, Abort(w, why)
  PROVE  Moves(w)
  BY DEF Abort, TypeOK, Moves, KeepsOthers, Terminal

LEMMA StepMoves ==
  ASSUME IndInv, NEW w \in Workers, Step(w)
  PROVE  Moves(w)
  <1>1. TypeOK /\ InHand(w)
    BY DEF IndInv
  <1> USE <1>1
  <1>2. CASE PutSelect(w) \/ PutInsert(w)
    <2>1. CASE \E why : Abort(w, why)
      BY <2>1, AbortMoves
    <2>2. CASE ~\E why : Abort(w, why)
      <3>1. KeepsOthers(w) /\ UNCHANGED <<job, stage, outputs, ret>>
        BY <1>2, <2>2 DEF PutSelect, PutInsert, Goto, KeepsOthers, TypeOK
      <3>2. Putting(w) /\ pc'[w] \in {"insert", ret[w]}
        BY <1>2, <2>2 DEF PutSelect, PutInsert, Goto, Putting, TypeOK
      <3> QED BY <3>1, <3>2 DEF Moves, WithinStage, Putting, Terminal
    <2> QED BY <2>1, <2>2
  <1>3. CASE Lookup(w)
    <2>1. KeepsOthers(w) /\ UNCHANGED <<job, stage, outputs>> /\ pc[w] = "lookup"
      BY <1>3 DEF Lookup, Goto, KeepsOthers, TypeOK
    <2>2. \/ pc'[w] = "hit_edge" /\ obj'[w] \in CacheLookup(Input(w))
          \/ pc'[w] = "insert_run" /\ CacheLookup(Input(w)) = {}
      BY <1>3 DEF Lookup, Goto, TypeOK
    <2> QED BY <2>1, <2>2 DEF Moves, WithinStage, Terminal
  <1>4. ASSUME pc[w] \in {"hit_edge", "finalize"}, job' = job,
               EnterStage(w, stage[w] + 1, Append(outputs[w], obj[w]))
        PROVE  Moves(w)
    <2>1. job[w] \in Jobs
      BY <1>4 DEF InHand, Terminal
    <2>2. KeepsOthers(w)
      BY <1>4, EnterStageKeepsOthers
    <2> QED BY <1>4, <2>1, <2>2, HeadOfStage DEF Moves, NextStage
  <1>5. CASE HitEdge(w) \/ Finalize(w)
    BY <1>4, <1>5, AbortMoves DEF HitEdge, Finalize
  <1>6. CASE InsertRun(w)
    <2>1. CASE \E why : Abort(w, why)
      BY <2>1, AbortMoves
    <2>2. CASE Goto(w, "handler")
      BY <1>6, <2>2 DEF InsertRun, Goto, Moves, WithinStage, KeepsOthers, TypeOK, Terminal
    <2> QED BY <1>6, <2>1, <2>2 DEF InsertRun
  <1>7. CASE Handle(w)
    <2>1. CASE \E why : Abort(w, why)
      BY <2>1, AbortMoves
    <2>2. ASSUME NEW h, NEW r \in {"consumes", "fail_closed"}, CallPut(w, h, r)
          PROVE  /\ KeepsOthers(w) \/ ~UNCHANGED <<job, stage, outputs, cursor>>
                 /\ pc'[w] = "select" /\ ret'[w] = r
      BY <2>2 DEF CallPut, KeepsOthers, TypeOK
    <2>3. CASE UNCHANGED <<job, stage, outputs, cursor>>
               /\ \E h, r : r \in {"consumes", "fail_closed"} /\ CallPut(w, h, r)
      BY <1>7, <2>2, <2>3 DEF Handle, Moves, WithinStage, Terminal
    <2> QED BY <1>7, <2>1, <2>3 DEF Handle
  <1>8. CASE FailClosed(w)
    BY <1>8 DEF FailClosed, Goto, Moves, KeepsOthers, TypeOK, Terminal
  <1>9. CASE Consumes(w) \/ Produces(w) \/ Record(w)
    <2>1. CASE \E why : Abort(w, why)
      BY <2>1, AbortMoves
    <2>2. CASE ~\E why : Abort(w, why)
      <3>1. KeepsOthers(w) /\ UNCHANGED <<job, stage, outputs>>
        BY <1>9, <2>2 DEF Consumes, Produces, Record, Goto, KeepsOthers, TypeOK
      <3>2. pc[w] \in Emitting /\ pc'[w] \in Emitting
        BY <1>9, <2>2 DEF Consumes, Produces, Record, Goto, Emitting, TypeOK
      <3> QED BY <3>1, <3>2 DEF Moves, WithinStage, Emitting, Terminal
    <2> QED BY <2>1, <2>2
  <1> QED BY <1>2, <1>3, <1>5, <1>6, <1>7, <1>8, <1>9 DEF Step

LEMMA WorkersMove ==
  ASSUME IndInv, Next
  PROVE  \E w \in Workers : Moves(w)
  <1>1. TypeOK
    BY DEF IndInv
  <1>2. ASSUME NEW w \in Workers, Crash(w) PROVE Moves(w)
    BY <1>1, <1>2 DEF Crash, Moves, KeepsOthers, TypeOK, Terminal
  <1>3. ASSUME NEW w \in Workers, NEW j \in Jobs, Start(w, j) PROVE Moves(w)
    <2>1. job'[w] = j /\ \A v \in Workers \ {w} : job'[v] = job[v]
      BY <1>1, <1>3 DEF Start, TypeOK
    <2>2. KeepsOthers(w)
      BY <1>1, <1>3, <2>1, EnterStageKeepsOthers DEF Start
    <2>3. EnterStage(w, 1, <<>>)
      BY <1>3 DEF Start
    <2> QED BY <1>1, <2>1, <2>2, <2>3, HeadOfStage DEF Moves, Begins
  <1> QED BY <1>2, <1>3, StepMoves DEF Next

-----------------------------------------------------------------------------
(* CallsInv is inductive.                                                  *)

\* Prefixes of a list of outputs.
LEMMA Prefixes ==
  ASSUME NEW outs \in Seq(Outputs), NEW n \in Nat, n <= Len(outs)
  PROVE  /\ SubSeq(outs, 1, 0) = <<>> /\ SubSeq(outs, 1, Len(outs)) = outs
         /\ n > 0 => Append(SubSeq(outs, 1, n - 1), outs[n]) = SubSeq(outs, 1, n)
  OBVIOUS

\* A call takes its next output from the cache or from its own row.
LEMMA PassedNext ==
  ASSUME NEW j, NEW n \in Nat, NEW outs \in Seq(Outputs), Len(outs) = n, NEW out \in Outputs,
         Passed(j, n, outs),
         \/ HasRow(j, n + 1)
         \/ [input |-> StageInput(j, n + 1, outs), output |-> out] \in stage_cache
  PROVE  Passed(j, n + 1, Append(outs, out))
  <1>1. /\ Append(outs, out)[n + 1] = out /\ SubSeq(Append(outs, out), 1, n) = outs
        /\ \A k \in 1..n : /\ Append(outs, out)[k] = outs[k]
                           /\ SubSeq(Append(outs, out), 1, k - 1) = SubSeq(outs, 1, k - 1)
    BY AppendKeepsPrefix
  <1>2. ASSUME NEW i \in 1..n PROVE HasRow(j, i) \/ IsHit(j, i, Append(outs, out))
    BY <1>1, <1>2 DEF Passed, IsHit
  <1>3. HasRow(j, n + 1) \/ IsHit(j, n + 1, Append(outs, out))
    <2>1. (n + 1) - 1 = n
      OBVIOUS
    <2> QED BY <1>1, <2>1 DEF IsHit
  <1>4. \A i \in 1..(n + 1) : i \in 1..n \/ i = n + 1
    OBVIOUS
  <1> QED BY <1>2, <1>3, <1>4 DEF Passed

LEMMA RowsPassedStep ==
  ASSUME RowsInv, CallsInv, [Next]_vars
  PROVE  RowsAreCalls' /\ RowsPassed'
  <1>1. CacheIsFunction /\ RowsAreCalls /\ RowsPassed /\ TypeOK
        /\ \A w \in Workers : WorkerPassed(w) /\ InHand(w)
    BY DEF CallsInv, RowsInv, IndInv
  <1>2. ASSUME NEW run \in PipelineRuns, NEW i \in Stages, Exists(run, i)'
        PROVE  /\ stage_runs'[<<run, i>>].input.prompt # None
               /\ \E j \in Jobs : j.run = run /\ HasRow(j, i)'
    <2>1. CASE Exists(run, i)
      <3>1. stage_runs'[<<run, i>>].input = stage_runs[<<run, i>>].input
        BY <2>1, RowStays
      <3>2. PICK j \in Jobs : j.run = run /\ HasRow(j, i)
        BY <1>1, <2>1 DEF RowsAreCalls
      <3>3. HasRow(j, i)'
        BY <3>2, CallKeepsRow
      <3> QED BY <1>1, <2>1, <3>1, <3>2, <3>3 DEF RowsAreCalls
    <2>2. CASE ~Exists(run, i)
      <3>1. PICK w \in Workers :
              /\ InsertRun(w) /\ pc'[w] = "handler" /\ UNCHANGED <<job, stage, outputs>>
              /\ RowId(w) = <<run, i>> /\ stage_runs'[<<run, i>>].input = Input(w)
        BY <1>2, <2>2, NewRow
      <3>2. /\ pc[w] = "insert_run" /\ pc[w] \notin Terminal
            /\ job[w] \in Jobs /\ job[w].run = run /\ stage[w] = i
        BY <1>1, <3>1 DEF InsertRun, InHand, Terminal, RowId
      <3>3. ValidInput(Input(w)) /\ Input(w) = StageInput(job[w], i, outputs[w])
            /\ Input(w).prior_outputs = outputs[w]
        BY <1>1, <3>2, RunningTypes DEF WorkerPassed, Input
      <3> DEFINE j == job[w]
      <3>4. Prior(j, i)' = outputs[w] /\ RowOf(j, i)' = stage_runs'[<<run, i>>] /\ j' = j
        BY <3>1, <3>2, <3>3 DEF Prior, RowOf
      <3>5. \E k \in Jobs : k.run = run /\ HasRow(k, i)'
        <4>1. PICK k \in Jobs : k = j
          BY <3>2
        <4>2. Prior(k, i)' = outputs[w] /\ RowOf(k, i)' = stage_runs'[<<run, i>>]
          BY <3>1, <3>2, <3>3, <4>1 DEF Prior, RowOf
        <4> QED BY <1>2, <3>1, <3>2, <3>3, <4>1, <4>2 DEF HasRow
      <3> QED BY <3>1, <3>3, <3>5 DEF ValidInput
    <2> QED BY <2>1, <2>2
  <1>3. ASSUME NEW j \in Jobs, NEW s \in Stages, HasRow(j, s)'
        PROVE  /\ Prior(j, s)' \in Seq(Outputs) /\ Len(Prior(j, s)') = s - 1
               /\ Passed(j, s - 1, Prior(j, s))'
    <2>1. s - 1 \in Nat /\ s - 1 <= NumStages
      BY OrchestratorAssumption DEF Stages
    <2>2. \E outs \in Seq(Outputs) : /\ Prior(j, s)' = outs /\ Len(outs) = s - 1
                                     /\ Passed(j, s - 1, outs)
      <3>1. CASE HasRow(j, s)
        BY <1>1, <3>1, CallKeepsRow DEF RowsPassed
      <3>2. CASE ~HasRow(j, s)
        <4>1. PICK w \in Workers :
                /\ InsertRun(w) /\ pc'[w] = "handler" /\ UNCHANGED <<job, stage, outputs>>
                /\ job[w] = j /\ stage[w] = s /\ Prior(j, s)' = outputs[w]
                /\ ValidInput(Input(w)) /\ Passed(j, s - 1, outputs[w])
          BY <1>1, <1>3, <3>2, NewRowOfCall
        <4>2. outputs[w] \in Seq(Outputs) /\ Len(outputs[w]) = s - 1
          BY <1>1, <4>1 DEF InsertRun, InHand, Terminal, TypeOK
        <4> QED BY <4>1, <4>2
      <3> QED BY <3>1, <3>2
    <2>3. PICK outs \in Seq(Outputs) : /\ Prior(j, s)' = outs /\ Len(outs) = s - 1
                                       /\ Passed(j, s - 1, outs)
      BY <2>2
    <2>4. Passed(j, s - 1, outs)'
      BY <1>1, <2>1, <2>3, PassedStays
    <2>5. Passed(j, s - 1, Prior(j, s))'
      BY <2>3, <2>4 DEF Passed, IsHit
    <2> QED BY <2>3, <2>5
  <1> QED BY <1>2, <1>3 DEF RowsAreCalls, RowsPassed

LEMMA UnmovedPassed ==
  ASSUME RowsInv, CallsInv, [Next]_vars, NEW v \in Workers,
         pc'[v] = pc[v] /\ job'[v] = job[v] /\ stage'[v] = stage[v]
           /\ outputs'[v] = outputs[v] /\ ret'[v] = ret[v]
  PROVE  WorkerPassed(v)'
  <1> SUFFICES ASSUME pc[v] \notin Terminal PROVE WorkerPassed(v)'
    BY DEF WorkerPassed
  <1>1. InHand(v) /\ WorkerPassed(v) /\ CacheIsFunction
    BY DEF CallsInv, RowsInv, IndInv
  <1>2. job[v] \in Jobs /\ stage[v] - 1 \in Nat /\ stage[v] - 1 <= NumStages
    BY <1>1, OrchestratorAssumption DEF InHand, Stages
  <1>3. Input(v)' = Input(v) /\ Putting(v)' = Putting(v)
    BY DEF Input, Putting
  <1>4. \A j \in Jobs, n \in Nat : \A outs : n <= NumStages /\ Passed(j, n, outs) => Passed(j, n, outs)'
    BY <1>1, PassedStays
  <1>5. \A j, n, outs : j = job[v] /\ n = stage[v] - 1 /\ outs = outputs[v] =>
          (Passed(j, n, outs)' <=> Passed(job[v], stage[v] - 1, outputs[v])')
    BY DEF Passed, IsHit
  <1> QED BY <1>1, <1>2, <1>3, <1>4, <1>5 DEF WorkerPassed

SharedStep ==
  shared' = shared \cup {run \in PipelineRuns : \E v, w \in Callers(run)' : v # w}

\* No other caller inserts a row for the call of a worker that is alone.
LEMMA UnmovedInFront ==
  ASSUME RowsInv, CallsInv, [Next]_vars, SharedStep, NEW v \in Workers,
         pc'[v] = pc[v] /\ job'[v] = job[v] /\ stage'[v] = stage[v]
           /\ outputs'[v] = outputs[v] /\ obj'[v] = obj[v] /\ ret'[v] = ret[v]
  PROVE  InFront(v)'
  <1> SUFFICES ASSUME pc[v] \notin Terminal, job[v].run \notin shared',
                      NEW j \in Jobs, NEW s \in Stages, job[v] = j,
                      FirstRow(j, s)', stage[v] <= s
               PROVE  FirstRow(j, s) /\ Prior(j, s)' = Prior(j, s)
    <2>1. /\ job[v].run \notin shared => InFront(v)
          /\ Putting(v)' = Putting(v)
      BY DEF CallsInv, Putting
    <2>2. shared \subseteq shared'
      BY DEF SharedStep
    <2> QED BY <2>1, <2>2 DEF InFront
  <1>1. ASSUME ~HasRow(j, s) PROVE FALSE
    <2>1. HasRow(j, s)' /\ \A w \in Workers : WorkerPassed(w)
      BY DEF FirstRow, CallsInv
    <2>2. PICK w \in Workers :
            /\ InsertRun(w) /\ pc'[w] = "handler" /\ UNCHANGED <<job, stage, outputs>>
            /\ job[w] = j /\ stage[w] = s /\ Prior(j, s)' = outputs[w]
            /\ ValidInput(Input(w)) /\ Passed(j, s - 1, outputs[w])
      BY <1>1, <2>1, NewRowOfCall
    <2>3. pc[w] = "insert_run"
      BY <2>2 DEF InsertRun
    <2>4. v # w
      BY <2>2, <2>3
    <2>5. v \in Callers(j.run)' /\ w \in Callers(j.run)'
      BY <2>2 DEF Callers, Terminal
    <2>6. j.run \in PipelineRuns
      BY CallRow
    <2> QED BY <2>4, <2>5, <2>6 DEF SharedStep
  <1>2. Prior(j, s)' = Prior(j, s)
    BY <1>1, CallKeepsRow
  <1>3. \A i \in Stages : HasRow(j, i) => HasRow(j, i)'
    BY CallKeepsRow
  <1> QED BY <1>1, <1>2, <1>3 DEF FirstRow

\* What a worker in front of the first row of its call finds in the cache.
LEMMA FrontIsCached ==
  ASSUME CallsInv, NEW j \in Jobs, NEW s \in Stages, FirstRow(j, s), NEW i \in Stages, i < s
  PROVE  [input |-> StageInput(j, i, SubSeq(Prior(j, s), 1, i - 1)),
          output |-> Prior(j, s)[i]] \in stage_cache
  <1>1. i \in 1..(s - 1)
    BY OrchestratorAssumption DEF Stages
  <1>2. HasRow(j, i) \/ IsHit(j, i, Prior(j, s))
    BY <1>1 DEF CallsInv, RowsPassed, FirstRow, Passed
  <1> QED BY <1>2 DEF FirstRow, IsHit

\* The worker that moves.
LEMMA MovedInFront ==
  ASSUME RowsInv, CallsInv, [Next]_vars, SharedStep, NEW w \in Workers, Moves(w),
         RowsPassed'
  PROVE  InFront(w)'
  <1>1. TypeOK /\ InHand(w) /\ InFront(w) /\ CacheIsFunction
    BY DEF CallsInv, RowsInv, IndInv
  <1>2. shared \subseteq shared'
    BY DEF SharedStep
  <1> SUFFICES ASSUME pc'[w] \notin Terminal, job'[w].run \notin shared',
                      NEW j \in Jobs, NEW s \in Stages, job'[w] = j,
                      FirstRow(j, s)', stage'[w] <= s
               PROVE  /\ outputs'[w] = SubSeq(Prior(j, s)', 1, stage'[w] - 1)
                      /\ stage'[w] < s =>
                           /\ pc'[w] \in {"select", "insert", "lookup", "hit_edge"}
                           /\ Putting(w)' => ret'[w] \in {"lookup", "failed"}
                           /\ pc'[w] = "hit_edge" => obj'[w] = Prior(j, s)'[stage'[w]]
    BY DEF InFront
  <1>3. Prior(j, s)' \in Seq(Outputs) /\ Len(Prior(j, s)') = s - 1 /\ s \in Nat
    BY OrchestratorAssumption DEF RowsPassed, FirstRow, Stages
  <1>4. CASE Begins(w)
    BY <1>3, <1>4, Prefixes DEF Begins, AtHead
  <1>5. ASSUME HasRow(j, s)
        PROVE  FirstRow(j, s) /\ Prior(j, s)' = Prior(j, s)
    BY <1>5, CallKeepsRow DEF FirstRow
  <1>6. ASSUME ~HasRow(j, s)
        PROVE  /\ pc[w] = "insert_run" /\ pc'[w] = "handler" /\ stage[w] = s
               /\ UNCHANGED <<stage, outputs>> /\ Prior(j, s)' = outputs[w]
    <2>1. HasRow(j, s)' /\ \A v \in Workers : WorkerPassed(v)
      BY DEF FirstRow, CallsInv
    <2>2. PICK v \in Workers :
            /\ InsertRun(v) /\ pc'[v] = "handler" /\ UNCHANGED <<job, stage, outputs>>
            /\ job[v] = j /\ stage[v] = s /\ Prior(j, s)' = outputs[v]
            /\ ValidInput(Input(v)) /\ Passed(j, s - 1, outputs[v])
      BY <1>6, <2>1, NewRowOfCall
    <2>3. v \in Callers(j.run)' /\ w \in Callers(j.run)' /\ j.run \in PipelineRuns
      BY <2>2, CallRow DEF Callers, Terminal
    <2>4. v = w
      BY <2>3 DEF SharedStep
    <2> QED BY <2>2, <2>4 DEF InsertRun
  <1>7. ASSUME pc[w] \notin Terminal, job'[w] = job[w], HasRow(j, s), stage[w] <= s
        PROVE  /\ outputs[w] = SubSeq(Prior(j, s), 1, stage[w] - 1)
               /\ stage[w] < s =>
                    /\ pc[w] \in {"select", "insert", "lookup", "hit_edge"}
                    /\ Putting(w) => ret[w] \in {"lookup", "failed"}
                    /\ pc[w] = "hit_edge" => obj[w] = Prior(j, s)[stage[w]]
    BY <1>1, <1>2, <1>5, <1>7 DEF InFront
  <1>8. CASE NextStage(w)
    <2>1. /\ pc[w] \in {"hit_edge", "finalize"} /\ pc[w] \notin Terminal
          /\ job'[w] = job[w] /\ pc'[w] = "select" /\ ret'[w] \in {"lookup", "failed"}
          /\ stage'[w] = stage[w] + 1 /\ outputs'[w] = Append(outputs[w], obj[w])
      BY <1>8 DEF NextStage, AtHead, Terminal
    <2>2. stage[w] \in Nat \ {0} /\ stage[w] < s
      BY <1>1, <1>3, <2>1 DEF InHand, Stages
    <2>3. HasRow(j, s)
      BY <1>6, <2>1
    <2>4. /\ outputs[w] = SubSeq(Prior(j, s)', 1, stage[w] - 1)
          /\ pc[w] = "hit_edge" /\ obj[w] = Prior(j, s)'[stage[w]]
      <3>1. stage[w] <= s
        BY <1>3, <2>2
      <3> QED BY <1>5, <1>7, <2>1, <2>2, <2>3, <3>1
    <2> DEFINE outs == Prior(j, s)'
    <2> HIDE DEF outs
    <2>5. outs \in Seq(Outputs) /\ Len(outs) = s - 1
      BY <1>3 DEF outs
    <2>6. Append(outputs[w], obj[w]) = SubSeq(outs, 1, stage[w])
      <3>1. Append(SubSeq(outs, 1, stage[w] - 1), outs[stage[w]]) = SubSeq(outs, 1, stage[w])
        BY <1>3, <2>2, <2>5, Prefixes
      <3> QED BY <2>4, <3>1 DEF outs
    <2>7. stage'[w] - 1 = stage[w]
      BY <2>1, <2>2
    <2> QED BY <2>1, <2>6, <2>7 DEF outs
  <1>9. CASE WithinStage(w)
    <2>1. /\ pc[w] \notin Terminal /\ job'[w] = job[w] /\ stage'[w] = stage[w]
          /\ outputs'[w] = outputs[w]
      BY <1>9 DEF WithinStage
    <2>2. CASE ~HasRow(j, s)
      <3>1. stage[w] = s /\ outputs[w] = Prior(j, s)'
        BY <1>6, <2>2
      <3>2. outputs[w] \in Seq(Outputs) /\ Len(outputs[w]) = s - 1
        BY <1>1, <2>1, <3>1 DEF InHand, TypeOK
      <3>3. SubSeq(outputs[w], 1, s - 1) = outputs[w]
        BY <3>2
      <3>4. stage'[w] = s /\ ~(s < s)
        BY <1>3, <2>1, <3>1
      <3>5. SubSeq(Prior(j, s)', 1, stage'[w] - 1) = SubSeq(outputs[w], 1, s - 1)
        BY <3>1, <3>4
      <3> QED BY <2>1, <3>3, <3>4, <3>5
    <2>3. CASE HasRow(j, s) /\ stage[w] = s
      BY <1>3, <1>5, <1>7, <2>1, <2>3
    <2>4. CASE HasRow(j, s) /\ stage[w] < s
      <3>1. /\ outputs[w] = SubSeq(Prior(j, s), 1, stage[w] - 1)
            /\ pc[w] \in {"select", "insert", "lookup", "hit_edge"}
            /\ Putting(w) => ret[w] \in {"lookup", "failed"}
        BY <1>7, <2>1, <2>4
      <3>2. FirstRow(j, s) /\ Prior(j, s)' = Prior(j, s)
        BY <1>5, <2>4
      <3>3. pc[w] = "lookup" => [input |-> Input(w), output |-> Prior(j, s)[stage[w]]] \in stage_cache
        <4>1. stage[w] \in Stages
          BY <1>1, <2>1 DEF InHand
        <4> QED BY <2>1, <2>4, <3>1, <3>2, <4>1, FrontIsCached DEF Input
      <3>4. pc[w] = "lookup" =>
              /\ Prior(j, s)[stage[w]] \in CacheLookup(Input(w))
              /\ \A o \in CacheLookup(Input(w)) : o = Prior(j, s)[stage[w]]
        <4> DEFINE c == [input |-> Input(w), output |-> Prior(j, s)[stage[w]]]
        <4>1. c.input = Input(w) /\ c.output = Prior(j, s)[stage[w]]
          OBVIOUS
        <4> HIDE DEF c
        <4> QED BY <1>1, <3>3, <4>1 DEF CacheLookup, CacheIsFunction, c
      <3>5. pc[w] = "lookup" => pc'[w] = "hit_edge" /\ obj'[w] = Prior(j, s)[stage[w]]
        BY <1>9, <3>4 DEF WithinStage, Putting, Emitting
      <3>6. Putting(w) => pc'[w] \in {"insert", "lookup"} /\ ret'[w] = ret[w]
        BY <1>9, <3>1 DEF WithinStage, Putting, Emitting, Terminal
      <3>7. pc[w] # "hit_edge"
        BY <1>9 DEF WithinStage, Putting, Emitting
      <3> QED BY <2>1, <2>4, <3>1, <3>2, <3>5, <3>6, <3>7 DEF Putting
    <2>5. stage[w] \in Nat
      BY <1>1, <2>1 DEF InHand, Stages
    <2> QED BY <1>3, <2>1, <2>2, <2>3, <2>4, <2>5
  <1> QED BY <1>4, <1>8, <1>9 DEF Moves

LEMMA MovedPassed ==
  ASSUME RowsInv, CallsInv, [Next]_vars, NEW w \in Workers, Moves(w)
  PROVE  WorkerPassed(w)'
  <1>1. /\ TypeOK /\ InHand(w) /\ OwnsItsRow(w) /\ WorkerPassed(w) /\ CacheIsFunction
        /\ stage_cache \subseteq stage_cache'
    BY CacheStep DEF CallsInv, RowsInv, IndInv
  <1>2. ASSUME NEW j \in Jobs, NEW n \in Nat, NEW outs, NEW t,
               job'[w] = j, stage'[w] = t, t - 1 = n, outputs'[w] = outs, n <= NumStages,
               Passed(j, n, outs), pc'[w] \notin Terminal,
               (Putting(w)' /\ ret'[w] = "lookup") \/ pc'[w] \in {"lookup", "insert_run"}
                 => ValidInput(Input(w)')
        PROVE  WorkerPassed(w)'
    <2>1. Passed(j, n, outs)'
      BY <1>1, <1>2, PassedStays
    <2>2. Passed(job[w], stage[w] - 1, outputs[w])'
      BY <1>2, <2>1 DEF Passed, IsHit
    <2> QED BY <1>2, <2>2 DEF WorkerPassed
  <1>3. CASE pc'[w] \in Terminal
    BY <1>3 DEF WorkerPassed
  <1>4. CASE Begins(w)
    <2>1. Passed(job'[w], 0, <<>>)
      BY DEF Passed
    <2>2. 0 <= NumStages
      BY OrchestratorAssumption
    <2>3. pc'[w] = "select" /\ (ret'[w] = "failed" \/ ValidInput(Input(w)'))
      BY <1>4 DEF Begins, AtHead
    <2> QED BY <1>2, <1>4, <2>1, <2>2, <2>3 DEF Begins, AtHead, Terminal
  <1>5. CASE NextStage(w)
    <2> DEFINE t == stage[w]
               n == stage[w] - 1
    <2>1. /\ pc[w] \in {"hit_edge", "finalize"} /\ pc[w] \notin Terminal /\ AtHead(w)'
          /\ job'[w] = job[w] /\ stage'[w] = stage[w] + 1
          /\ outputs'[w] = Append(outputs[w], obj[w])
      BY <1>5 DEF NextStage, Terminal
    <2>2. /\ job[w] \in Jobs /\ t \in Stages /\ t \in Nat /\ n \in Nat /\ t = n + 1
          /\ outputs[w] \in Seq(Outputs) /\ Len(outputs[w]) = n
      BY <1>1, <2>1, OrchestratorAssumption DEF InHand, TypeOK, Stages
    <2>3. Passed(job[w], n, outputs[w])
      BY <1>1, <2>1 DEF WorkerPassed
    <2>4. ASSUME pc[w] = "hit_edge"
          PROVE  Passed(job[w], n + 1, Append(outputs[w], obj[w]))
      <3>1. [input |-> Input(w), output |-> obj[w]] \in stage_cache
        BY <1>1, <2>4 DEF InHand, Terminal
      <3>2. obj[w] \in Outputs
        BY <1>1, <3>1 DEF TypeOK
      <3>3. Passed(job[w], n + 1, Append(outputs[w], obj[w]))
        <4>1. Input(w) = StageInput(job[w], n + 1, outputs[w])
          BY <2>2 DEF Input
        <4> HIDE DEF n, t
        <4> QED BY <2>2, <2>3, <3>1, <3>2, <4>1, PassedNext
      <3> QED BY <3>3
    <2>5. ASSUME pc[w] = "finalize"
          PROVE  Passed(job[w], n + 1, Append(outputs[w], obj[w]))
      <3>1. obj[w] \in Outputs /\ Owns(w)
        BY <1>1, <2>5 DEF InHand, Terminal, Emitting, Owns
      <3>2. /\ stage_runs[RowId(w)].status = "open"
            /\ stage_runs[RowId(w)].input = StageInput(job[w], t, outputs[w])
        BY <1>1, <3>1 DEF OwnsItsRow, Input
      <3>3. RowOf(job[w], t) = stage_runs[RowId(w)]
        BY DEF RowOf, RowId
      <3>4. Prior(job[w], t) = outputs[w]
        BY <2>2, <3>2, <3>3, StageInputType DEF Prior
      <3>5. HasRow(job[w], n + 1)
        BY <2>2, <3>2, <3>3, <3>4 DEF HasRow, Exists, RowOf
      <3>6. Passed(job[w], n + 1, Append(outputs[w], obj[w]))
        <4> HIDE DEF n, t
        <4> QED BY <2>2, <2>3, <3>1, <3>5, PassedNext
      <3> QED BY <3>6
    <2>6. Passed(job[w], n + 1, Append(outputs[w], obj[w]))
      BY <2>1, <2>4, <2>5
    <2>7. n + 1 <= NumStages /\ (stage[w] + 1) - 1 = n + 1
      BY <2>2, OrchestratorAssumption DEF Stages
    <2>8. pc'[w] = "select" /\ (ret'[w] = "failed" \/ ValidInput(Input(w)'))
      BY <2>1 DEF AtHead
    <2> HIDE DEF n
    <2> QED BY <1>2, <2>1, <2>2, <2>6, <2>7, <2>8 DEF Terminal
  <1>6. CASE WithinStage(w)
    <2>1. /\ pc[w] \notin Terminal /\ pc'[w] \notin Terminal /\ job'[w] = job[w]
          /\ stage'[w] = stage[w] /\ outputs'[w] = outputs[w]
      BY <1>6 DEF WithinStage
    <2>2. /\ job[w] \in Jobs /\ stage[w] - 1 \in Nat /\ stage[w] - 1 <= NumStages
      BY <1>1, <2>1, OrchestratorAssumption DEF InHand, Stages
    <2>3. Input(w)' = Input(w)
      BY <2>1 DEF Input
    <2>4. (Putting(w)' /\ ret'[w] = "lookup") \/ pc'[w] \in {"lookup", "insert_run"} =>
            (Putting(w) /\ ret[w] = "lookup") \/ pc[w] \in {"lookup", "insert_run"}
      <3>1. Putting(w) => ret[w] # "insert_run"
        BY <1>1, <2>1 DEF InHand
      <3> QED BY <1>6, <3>1 DEF WithinStage, Putting, Emitting
    <2>5. Passed(job[w], stage[w] - 1, outputs[w])
      BY <1>1, <2>1 DEF WorkerPassed
    <2>6. (Putting(w)' /\ ret'[w] = "lookup") \/ pc'[w] \in {"lookup", "insert_run"} =>
            ValidInput(Input(w)')
      BY <1>1, <2>1, <2>3, <2>4 DEF WorkerPassed
    <2> QED BY <1>2, <2>1, <2>2, <2>5, <2>6
  <1> QED BY <1>3, <1>4, <1>5, <1>6 DEF Moves

\* CallsInv over a step of a worker.
LEMMA CallsStep ==
  ASSUME RowsInv, CallsInv, Next, SharedStep
  PROVE  CallsInv'
  <1>1. CacheIsFunction' /\ RowsAreCalls' /\ RowsPassed'
    BY CacheStep, RowsPassedStep DEF CallsInv
  <1>2. PICK w \in Workers : Moves(w)
    BY WorkersMove DEF RowsInv
  <1>3. ASSUME NEW v \in Workers PROVE WorkerPassed(v)' /\ InFront(v)'
    <2>1. CASE v = w
      BY <1>1, <1>2, <2>1, MovedPassed, MovedInFront
    <2>2. CASE v # w
      <3>1. /\ pc'[v] = pc[v] /\ job'[v] = job[v] /\ stage'[v] = stage[v]
            /\ outputs'[v] = outputs[v] /\ obj'[v] = obj[v] /\ ret'[v] = ret[v]
        BY <1>2, <2>2 DEF Moves, KeepsOthers
      <3> QED BY <3>1, UnmovedPassed, UnmovedInFront
    <2> QED BY <2>1, <2>2
  <1>4. SharedSeen'
    BY DEF SharedSeen, SharedStep
  <1> QED BY <1>1, <1>3, <1>4 DEF CallsInv

LEMMA InitCalls == Init /\ shared = {} => CallsInv
  <1> SUFFICES ASSUME Init, shared = {} PROVE CallsInv
    OBVIOUS
  <1>1. \A run \in PipelineRuns, i \in Stages : ~Exists(run, i)
    BY DEF Init, Exists, AbsentRow, RunStages
  <1>2. \A w \in Workers : pc[w] \in Terminal
    BY DEF Init, Terminal
  <1>3. CacheIsFunction /\ SharedSeen
    BY <1>2 DEF Init, CacheIsFunction, SharedSeen, Callers
  <1>4. RowsAreCalls /\ RowsPassed
    BY <1>1, CallRow DEF RowsAreCalls, RowsPassed, HasRow
  <1> QED BY <1>2, <1>3, <1>4 DEF CallsInv, WorkerPassed, InFront

-----------------------------------------------------------------------------
(* Plans.                                                                  *)

\* An item starts at the earliest match, then and ever after.
StartsRight(run, start) ==
  Orderly(run) => Matches(run) # {} /\ start = EarliestMatch(run)

ItemStartsRight(run, item) ==
  /\ StartsRight(run, item.start)
  /\ \A i \in item.reuse : i \in Stages /\ i < item.start

PlansStart ==
  /\ planning \in {"idle", "select"} => found = NoFunction /\ items = NoFunction
  /\ planning # "done" => plan = None
  /\ planning = "select" => Match(request) # <<>>
  /\ \A run \in DOMAIN found : StartsRight(run, found[run])
  /\ \A run \in DOMAIN items : ItemStartsRight(run, items[run])
  /\ plan # None => \A run \in DOMAIN plan.items : ItemStartsRight(run, plan.items[run])

\* Min is the least element of a set of stages.
LEMMA BelowIsWellFounded == IsWellFoundedOn({p \in Nat \X Nat : p[1] < p[2]}, Nat)
  BY NatLessThanWellFounded DEF OpToRel

LEMMA MinIsLeast ==
  ASSUME NEW S \in SUBSET Nat, S # {}
  PROVE  Min(S) \in S /\ \A y \in S : Min(S) <= y
  <1> DEFINE Below == {p \in Nat \X Nat : p[1] < p[2]}
  <1>1. \E x \in S : \A y \in S : <<y, x>> \notin Below
    BY BelowIsWellFounded, WFMin
  <1>2. \A x, y \in Nat : <<y, x>> \notin Below => x <= y
    OBVIOUS
  <1> HIDE DEF Below
  <1>3. S \subseteq Nat
    OBVIOUS
  <1>4. \E x \in S : \A y \in S : x <= y
    BY <1>1, <1>2, <1>3
  <1> QED BY <1>4 DEF Min

LEMMA LeastIsMin ==
  ASSUME NEW S \in SUBSET Nat, NEW m \in S, \A y \in S : m <= y
  PROVE  Min(S) = m
  <1>1. Min(S) \in S /\ Min(S) <= m
    BY MinIsLeast
  <1>2. m <= Min(S)
    BY <1>1
  <1>3. m \in Nat /\ Min(S) \in Nat
    BY <1>1
  <1> QED BY <1>1, <1>2, <1>3

LEMMA MatchesAreStages ==
  ASSUME NEW run
  PROVE  Matches(run) \in SUBSET Nat /\ Matches(run) \subseteq Stages
  BY OrchestratorAssumption DEF Matches, Stages

\* What a stage input says of its call.
LEMMA CallColumns ==
  ASSUME NEW j, NEW i, NEW outs, NEW in, in = StageInput(j, i, outs), in.prompt # None
  PROVE  in["prompt"] = j["prompt"] /\ in["toolchain"] = j["toolchain"]
  BY DEF StageInput

\* The rows of affected calls are the ones that match.
LEMMA MatchIsCall ==
  ASSUME RowsAreCalls, NEW run \in PipelineRuns, NEW i \in Stages
  PROVE  i \in Matches(run) <=> \E j \in Jobs : j.run = run /\ HasRow(j, i) /\ Affects(j)
  <1>1. ASSUME NEW j \in Jobs, j.run = run, HasRow(j, i)
        PROVE  /\ Exists(run, i)
               /\ stage_runs[<<run, i>>].input["prompt"] = j["prompt"]
               /\ stage_runs[<<run, i>>].input["toolchain"] = j["toolchain"]
    <2>1. /\ Exists(run, i) /\ stage_runs[<<run, i>>].input = StageInput(j, i, Prior(j, i))
          /\ stage_runs[<<run, i>>].input.prompt # None
      BY <1>1 DEF HasRow, RowOf, RowsAreCalls
    <2> QED BY <2>1, CallColumns
  <1>2. ASSUME NEW j \in Jobs, j.run = run, HasRow(j, i)
        PROVE  i \in Matches(run) <=> Affects(j)
    BY <1>1, <1>2 DEF Matches, Affects
  <1>3. i \in Matches(run) => \E j \in Jobs : j.run = run /\ HasRow(j, i)
    BY DEF Matches, RowsAreCalls
  <1> QED BY <1>2, <1>3

\* Whatever workers do, an orderly run matches first where it did.
LEMMA MatchStays ==
  ASSUME RowsInv, CallsInv, Next, SharedStep, UNCHANGED request, NEW run \in PipelineRuns,
         NEW start, StartsRight(run, start)
  PROVE  StartsRight(run, start)'
  <1> SUFFICES ASSUME Orderly(run)'
               PROVE  Matches(run)' # {} /\ start = EarliestMatch(run)'
    BY DEF StartsRight
  <1>1. Orderly(run) /\ run \notin shared
    BY DEF Orderly, SharedStep, Affects, Replaced
  <1>2. Matches(run) # {} /\ start = Min(Matches(run))
    BY <1>1 DEF StartsRight, EarliestMatch
  <1>3. start \in Matches(run) /\ \A i \in Matches(run) : start <= i
    BY <1>2, MatchesAreStages, MinIsLeast
  <1>4. start \in Stages /\ start \in Nat
    BY <1>3, MatchesAreStages
  <1>5. RowsAreCalls /\ RowsAreCalls'
    BY RowsPassedStep DEF CallsInv
  <1>6. start \in Matches(run)'
    <2>1. Exists(run, start)' /\ stage_runs'[<<run, start>>].input = stage_runs[<<run, start>>].input
      BY <1>3, <1>4, RowStays DEF Matches
    <2> QED BY <1>3, <1>4, <2>1 DEF Matches, Replaced
  <1>7. ASSUME NEW i \in Matches(run)', i < start PROVE FALSE
    <2>1. i \in Stages
      BY DEF Matches
    <2>2. PICK j \in Jobs : j.run = run /\ HasRow(j, start) /\ Affects(j)
      BY <1>3, <1>4, <1>5, MatchIsCall
    <2>3. \E k \in Jobs : k.run = run /\ HasRow(k, i)' /\ Affects(k)
      <3>1. \E k \in Jobs : k.run = run /\ HasRow(k, i)'
        BY <1>5, <1>7, <2>1 DEF Matches, RowsAreCalls
      <3>2. ASSUME NEW k \in Jobs, k.run = run, HasRow(k, i)' PROVE Affects(k)
        <4> DEFINE in == stage_runs'[<<run, i>>].input
        <4>1. in = StageInput(k, i, Prior(k, i)') /\ in.prompt # None
          BY <1>5, <2>1, <3>2 DEF HasRow, RowOf, RowsAreCalls
        <4>2. \E c \in {"prompt", "toolchain"} : Replaced(c) /\ in[c] = request[c]
          BY <1>7 DEF Matches, Replaced
        <4> HIDE DEF in
        <4> QED BY <4>1, <4>2, CallColumns DEF Affects
      <3> QED BY <3>1, <3>2
    <2>4. HasRow(j, i)'
      BY <1>1, <2>2, <2>3 DEF Orderly
    <2>5. ASSUME NEW k \in Stages, k < start PROVE ~HasRow(j, k)
      <3>1. k \notin Matches(run)
        BY <1>3, <1>4, <2>5 DEF Stages
      <3> QED BY <1>5, <2>2, <3>1, MatchIsCall
    <2>6. FirstRow(j, start) /\ ~HasRow(j, i)
      BY <1>7, <2>1, <2>2, <2>5 DEF FirstRow
    <2>7. PICK w \in Workers :
            /\ InsertRun(w) /\ pc'[w] = "handler" /\ UNCHANGED <<job, stage, outputs>>
            /\ job[w] = j /\ stage[w] = i /\ Prior(j, i)' = outputs[w]
            /\ ValidInput(Input(w)) /\ Passed(j, i - 1, outputs[w])
      BY <2>1, <2>4, <2>6, NewRowOfCall DEF CallsInv
    <2>8. pc[w] = "insert_run" /\ pc[w] \notin Terminal
      BY <2>7 DEF InsertRun, Terminal
    <2>9. InFront(w) /\ stage[w] <= start /\ stage[w] < start
      BY <1>4, <1>7, <2>1, <2>7 DEF CallsInv, Stages
    <2> QED BY <1>1, <1>4, <2>2, <2>6, <2>7, <2>8, <2>9 DEF InFront
  <1>8. \A i \in Matches(run)' : start <= i
    <2>1. Matches(run)' \subseteq Stages
      BY DEF Matches
    <2>2. \A i \in Stages : i \in Nat
      BY DEF Stages
    <2>3. ASSUME NEW i \in Matches(run)' PROVE start <= i
      <3>1. i \in Nat /\ ~(i < start)
        BY <1>7, <2>1, <2>2
      <3> QED BY <1>4, <3>1
    <2> QED BY <2>3
  <1>9. \A S \in SUBSET Nat : S = Matches(run)' => Min(S) = start
    BY <1>6, <1>8, LeastIsMin
  <1>10. Matches(run)' \in SUBSET Nat
    BY OrchestratorAssumption DEF Matches, Stages
  <1>11. EarliestMatch(run)' = Min(Matches(run)')
    BY <1>6 DEF EarliestMatch
  <1> QED BY <1>6, <1>9, <1>10, <1>11

-----------------------------------------------------------------------------
(* The statement that looks for affected runs.                             *)

MatchColumns == {"prompt", "toolchain"}
FilterColumns == {"tenant", "pipeline_id", "created_after", "created_before"}

LEMMA MatchClauses ==
  ASSUME NEW req
  PROVE  /\ Match(req) \in Seq(MatchColumns)
         /\ \A k \in 1..Len(Match(req)) : req[Match(req)[k]] # None
         /\ \A c \in MatchColumns : req[c] # None =>
              \E k \in 1..Len(Match(req)) : Match(req)[k] = c
  <1>1. CASE req["prompt"] # None /\ req["toolchain"] # None
    <2>1. Given(req, "prompt") = <<"prompt">> /\ Given(req, "toolchain") = <<"toolchain">>
      BY <1>1 DEF Given
    <2>2. Match(req) = <<"prompt">> \o <<"toolchain">>
      BY <2>1, Zenon DEF Match
    <2>3. <<"prompt">> \in Seq(MatchColumns) /\ <<"toolchain">> \in Seq(MatchColumns)
      BY DEF MatchColumns
    <2>4. \A s, t \in Seq(MatchColumns) : Len(s) = 1 /\ Len(t) = 1 =>
            /\ s \o t \in Seq(MatchColumns) /\ Len(s \o t) = 2
            /\ (s \o t)[1] = s[1] /\ (s \o t)[2] = t[1]
      BY ConcatProperties
    <2>5. /\ Match(req) \in Seq(MatchColumns) /\ Len(Match(req)) = 2
          /\ Match(req)[1] = "prompt" /\ Match(req)[2] = "toolchain"
      BY <2>2, <2>3, <2>4
    <2> QED BY <1>1, <2>5 DEF MatchColumns
  <1>2. CASE req["prompt"] # None /\ req["toolchain"] = None
    <2>1. Match(req) = <<"prompt">>
      BY <1>2 DEF Match, Given
    <2> QED BY <1>2, <2>1 DEF MatchColumns
  <1>3. CASE req["prompt"] = None /\ req["toolchain"] # None
    <2>1. Match(req) = <<"toolchain">>
      BY <1>3 DEF Match, Given
    <2> QED BY <1>3, <2>1 DEF MatchColumns
  <1>4. CASE req["prompt"] = None /\ req["toolchain"] = None
    <2>1. Match(req) = <<>>
      BY <1>4 DEF Match, Given
    <2> QED BY <1>4, <2>1 DEF MatchColumns
  <1> QED BY <1>1, <1>2, <1>3, <1>4

LEMMA FilterClauses ==
  ASSUME NEW req
  PROVE  Filters(req) \in Seq(FilterColumns)
  <1>1. \A c \in FilterColumns : Given(req, c) \in Seq(FilterColumns)
    BY DEF Given
  <1>2. \A a, b \in Seq(FilterColumns) : a \o b \in Seq(FilterColumns)
    OBVIOUS
  <1>3. (IF req.service = "gateway" THEN <<"tenant", "tenant">> ELSE <<>>) \in Seq(FilterColumns)
    <2>1. <<"tenant", "tenant">> \in Seq(FilterColumns)
      BY DEF FilterColumns
    <2>2. <<>> \in Seq(FilterColumns)
      OBVIOUS
    <2> QED BY <2>1, <2>2
  <1>4. {"pipeline_id", "created_after", "created_before"} \subseteq FilterColumns
    BY DEF FilterColumns
  <1> QED BY <1>1, <1>2, <1>3, <1>4 DEF Filters

\* A statement with a filter finds nothing: its last comparison is one of a
\* filter's column with a match argument.  Without one it finds the matches.
LEMMA SelectedIsMatches ==
  ASSUME NEW run, Match(request) # <<>>
  PROVE  Selected(request, run) = IF Filters(request) = <<>> THEN Matches(run) ELSE {}
  <1> DEFINE m == Match(request)
             f == Filters(request)
             cmps == Comparisons(request)
  <1>1. m \in Seq(MatchColumns) /\ f \in Seq(FilterColumns)
    BY MatchClauses, FilterClauses
  <1>2. /\ Len(cmps) = Len(m \o f)
        /\ \A k \in 1..Len(m \o f) : cmps[k] = [column |-> (m \o f)[k], argument |-> (f \o m)[k]]
    BY <1>1 DEF Comparisons
  <1>3. ASSUME f # <<>>, NEW i \in Selected(request, run)
        PROVE  FALSE
    <2>1. \A k \in 1..Len(cmps) : ~IsMatch(cmps[k]) =>
            Holds(request, cmps[k], stage_runs[<<run, i>>])
      BY <1>3 DEF Selected
    <2> DEFINE n == Len(m) + Len(f)
    <2>2. m # <<>>
      OBVIOUS
    <2> HIDE DEF m, f, cmps
    <2>3. Len(m) \in Nat \ {0} /\ Len(f) \in Nat \ {0}
      BY <1>1, <1>3, <2>2
    <2>4. n \in 1..Len(m \o f) /\ Len(f \o m) = n
      BY <1>1, <2>3
    <2>5. (m \o f)[n] \in FilterColumns /\ (f \o m)[n] \in MatchColumns
      BY <1>1, <2>3
    <2>6. cmps[n].column \in FilterColumns /\ cmps[n].argument \in MatchColumns
      BY <1>2, <2>4, <2>5
    <2> QED BY <1>2, <2>1, <2>4, <2>6 DEF IsMatch, Holds, FilterColumns, MatchColumns
  <1>4. CASE f # <<>>
    BY <1>3, <1>4
  <1> SUFFICES ASSUME f = <<>> PROVE Selected(request, run) = Matches(run)
    BY <1>4
  <1>6. /\ Len(cmps) = Len(m)
        /\ \A k \in 1..Len(m) : cmps[k] = [column |-> m[k], argument |-> m[k]]
    <2>1. m \o f = m /\ f \o m = m
      BY <1>1
    <2> QED BY <1>2, <2>1
  <1> HIDE DEF cmps
  <1>7. ASSUME NEW k \in 1..Len(m), NEW s
        PROVE  /\ IsMatch(cmps[k])
               /\ Holds(request, cmps[k], stage_runs[<<run, s>>]) <=>
                    stage_runs[<<run, s>>].input[m[k]] = request[m[k]]
    <2> HIDE DEF m
    <2>1. m[k] \in MatchColumns
      BY <1>1
    <2>2. cmps[k].column = m[k] /\ cmps[k].argument = m[k]
      <3>1. cmps[k] = [column |-> m[k], argument |-> m[k]]
        BY <1>6
      <3> QED BY <3>1
    <2> QED BY <2>1, <2>2 DEF IsMatch, Holds, MatchColumns
  <1>8. ASSUME NEW s \in Stages, Exists(run, s)
        PROVE  s \in Selected(request, run) <=> s \in Matches(run)
    <2>1. s \in Selected(request, run) <=>
            \E k \in 1..Len(m) : stage_runs[<<run, s>>].input[m[k]] = request[m[k]]
      <3>1. s \in Selected(request, run) <=>
              /\ \E k \in 1..Len(cmps) : IsMatch(cmps[k]) /\ Holds(request, cmps[k], stage_runs[<<run, s>>])
              /\ \A k \in 1..Len(cmps) : ~IsMatch(cmps[k]) => Holds(request, cmps[k], stage_runs[<<run, s>>])
        BY <1>8 DEF Selected, cmps
      <3> HIDE DEF m
      <3> QED BY <1>6, <1>7, <3>1
    <2>2. s \in Matches(run) <=>
            \E c \in MatchColumns : request[c] # None /\ stage_runs[<<run, s>>].input[c] = request[c]
      BY <1>8 DEF Matches, Replaced, MatchColumns
    <2>3. (\E k \in 1..Len(m) : stage_runs[<<run, s>>].input[m[k]] = request[m[k]]) <=>
            \E c \in MatchColumns : request[c] # None /\ stage_runs[<<run, s>>].input[c] = request[c]
      <3>1. /\ \A k \in 1..Len(m) : m[k] \in MatchColumns /\ request[m[k]] # None
            /\ \A c \in MatchColumns : request[c] # None => \E k \in 1..Len(m) : m[k] = c
        BY <1>1, MatchClauses
      <3> HIDE DEF m
      <3> QED BY <3>1
    <2> QED BY <2>1, <2>2, <2>3
  <1>9. /\ \A s \in Selected(request, run) : s \in Stages /\ Exists(run, s)
        /\ \A s \in Matches(run) : s \in Stages /\ Exists(run, s)
    BY DEF Selected, Matches
  <1> QED BY <1>8, <1>9

-----------------------------------------------------------------------------
(* PlansStart is inductive.                                                *)

StartInv == PlanInv /\ CallsInv /\ PlansStart

\* A step that keeps the starts, and leaves the plan and what leads to it.
LEMMA StartsKept ==
  ASSUME PlansStart, PlanInv, UNCHANGED <<planning, request, found, items, plan>>,
         \A run \in PipelineRuns : \A start : StartsRight(run, start) => StartsRight(run, start)'
  PROVE  PlansStart'
  <1>1. /\ DOMAIN found \subseteq PipelineRuns /\ DOMAIN items \subseteq PipelineRuns
        /\ plan # None => DOMAIN plan.items \subseteq PipelineRuns
    BY DEF PlanInv, ItemsAreTrue, PlanIsTrue
  <1>2. \A run \in PipelineRuns : \A item : ItemStartsRight(run, item) => ItemStartsRight(run, item)'
    BY DEF ItemStartsRight
  <1>3. \A run \in DOMAIN found : StartsRight(run, found[run])'
    BY <1>1 DEF PlansStart, StartsRight
  <1>4. \A run \in DOMAIN items : ItemStartsRight(run, items[run])'
    BY <1>1, <1>2 DEF PlansStart, ItemStartsRight, StartsRight
  <1>5. plan # None => \A run \in DOMAIN plan.items : ItemStartsRight(run, plan.items[run])'
    BY <1>1, <1>2 DEF PlansStart, ItemStartsRight, StartsRight
  <1> QED BY <1>3, <1>4, <1>5 DEF PlansStart

LEMMA WorkersKeepStarts ==
  ASSUME StartInv, WorkerStep
  PROVE  PlansStart'
  <1>1. /\ RowsInv /\ CallsInv /\ PlansStart /\ PlanInv /\ Next /\ SharedStep
        /\ UNCHANGED <<planning, request, found, items, plan>>
    BY DEF StartInv, PlanInv, WorkerStep, SharedStep, readerVars
  <1>2. \A run \in PipelineRuns : \A start : StartsRight(run, start) => StartsRight(run, start)'
    BY <1>1, MatchStays
  <1> QED BY <1>1, <1>2, StartsKept

LEMMA SameStarts ==
  ASSUME UNCHANGED <<vars, shared, request>>, NEW run, NEW start
  PROVE  StartsRight(run, start)' <=> StartsRight(run, start)
  <1>1. stage_runs' = stage_runs
    BY DEF vars, storeVars
  <1>2. Matches(run)' = Matches(run)
    BY <1>1 DEF Matches, Exists, Replaced
  <1>3. EarliestMatch(run)' = EarliestMatch(run)
    BY <1>2 DEF EarliestMatch
  <1>4. Orderly(run)' <=> Orderly(run)
    BY DEF Orderly, Affects, Replaced
  <1> QED BY <1>2, <1>3, <1>4 DEF StartsRight

\* An item that is read starts where its run was found to, and reuses only
\* what is in front of it.
LEMMA ItemStarts ==
  ASSUME NEW run, NEW start, StartsRight(run, start)
  PROVE  ItemStartsRight(run, Item(run, start))
  BY DEF ItemStartsRight, Item

LEMMA ReadersKeepStarts ==
  ASSUME StartInv, PlannerStep, UNCHANGED shared
  PROVE  PlansStart'
  <1>1. PlansStart /\ PlanInv
    BY DEF StartInv
  <1>2. UNCHANGED vars
    BY DEF PlannerStep, Ask, SelectAffected, InsertPlan, ReadRun, MarkExecuted, ReadRowsA, ReadRowsB
  <1>3. ASSUME UNCHANGED request
        PROVE  \A run, start : StartsRight(run, start)' <=> StartsRight(run, start)
    BY <1>2, <1>3, SameStarts
  <1>4. ASSUME NEW req \in Requests, Ask(req) PROVE PlansStart'
    BY <1>1, <1>4 DEF Ask, PlansStart, NoFunction
  <1>5. CASE SelectAffected
    <2>1. found = NoFunction /\ items = NoFunction /\ plan = None /\ Match(request) # <<>>
          /\ items' = items /\ plan' = plan
      BY <1>1, <1>5 DEF SelectAffected, PlansStart
    <2>2. CASE planning' = "idle" /\ UNCHANGED found
      BY <2>1, <2>2 DEF PlansStart, NoFunction
    <2>3. ASSUME planning' = "read", UNCHANGED request,
                 found' = [r \in {q \in PipelineRuns : Selected(request, q) # {}} |->
                             Min(Selected(request, r))]
          PROVE  PlansStart'
      <3>1. ASSUME NEW run \in DOMAIN found'
            PROVE  Matches(run) # {} /\ found'[run] = EarliestMatch(run)
        <4>1. Selected(request, run) # {} /\ found'[run] = Min(Selected(request, run))
          BY <2>3
        <4>2. Selected(request, run) = Matches(run)
          BY <2>1, <4>1, SelectedIsMatches, Zenon
        <4> QED BY <4>1, <4>2 DEF EarliestMatch
      <3>2. \A run \in DOMAIN found' : \A start : start = found'[run] => StartsRight(run, start)
        BY <3>1 DEF StartsRight
      <3>3. \A run \in DOMAIN found' : \A start : start = found'[run] => StartsRight(run, start)'
        BY <1>3, <2>3, <3>2
      <3>4. \A run \in DOMAIN found' : StartsRight(run, found[run])'
        BY <3>3 DEF StartsRight
      <3> QED BY <2>1, <2>3, <3>4 DEF PlansStart, NoFunction
    <2> QED BY <1>5, <2>2, <2>3 DEF SelectAffected
  <1>6. ASSUME NEW run \in PipelineRuns, ReadRun(run) PROVE PlansStart'
    <2>1. /\ planning = "read" /\ run \in DOMAIN found
          /\ UNCHANGED <<request, planning, plan>>
          /\ DOMAIN found' = DOMAIN found \ {run} /\ \A r \in DOMAIN found' : found'[r] = found[r]
      BY <1>6 DEF ReadRun
    <2>2. /\ DOMAIN items' = DOMAIN items \cup {run}
          /\ \A r \in DOMAIN items' : items'[r] = IF r = run THEN Item(run, found[run]) ELSE items[r]
      BY <1>6 DEF ReadRun
    <2>3. \A r, start : StartsRight(r, start)' <=> StartsRight(r, start)
      BY <1>3, <2>1
    <2>4. \A r, item : ItemStartsRight(r, item)' <=> ItemStartsRight(r, item)
      BY <2>3 DEF ItemStartsRight
    <2>5. \A r \in DOMAIN items' : ItemStartsRight(r, items'[r])
      <3>1. ItemStartsRight(run, Item(run, found[run]))
        BY <1>1, <2>1, ItemStarts DEF PlansStart
      <3>2. \A r \in DOMAIN items : ItemStartsRight(r, items[r])
        BY <1>1 DEF PlansStart
      <3> QED BY <2>2, <3>1, <3>2
    <2>6. \A r \in DOMAIN items' : ItemStartsRight(r, items[r])'
      BY <2>4, <2>5 DEF ItemStartsRight, StartsRight
    <2>7. \A r \in DOMAIN found' : StartsRight(r, found[r])'
      BY <1>1, <2>1, <2>3 DEF PlansStart, StartsRight
    <2>8. plan = None /\ planning' = "read"
      BY <1>1, <2>1 DEF PlansStart
    <2> QED BY <2>1, <2>6, <2>7, <2>8 DEF PlansStart
  <1>7. CASE InsertPlan
    <2>1. /\ found' = NoFunction /\ items' = NoFunction /\ planning' = "done"
          /\ plan'.items = items /\ UNCHANGED request
      BY <1>7 DEF InsertPlan
    <2>2. \A r, item : ItemStartsRight(r, item)' <=> ItemStartsRight(r, item)
      BY <1>3, <2>1 DEF ItemStartsRight
    <2>3. \A r \in DOMAIN plan'.items : ItemStartsRight(r, plan.items[r])'
      BY <1>1, <2>1, <2>2 DEF PlansStart, ItemStartsRight, StartsRight
    <2> QED BY <2>1, <2>3 DEF PlansStart, NoFunction
  <1>8. CASE MarkExecuted
    <2>1. /\ UNCHANGED <<request, planning, found, items>>
          /\ plan = None => plan' = None
          /\ plan # None => plan'.items = plan.items
      BY <1>1, <1>8 DEF MarkExecuted, PlanInv, PlanIsTrue
    <2>2. \A r, start : StartsRight(r, start)' <=> StartsRight(r, start)
      BY <1>3, <2>1
    <2>3. \A r, item : ItemStartsRight(r, item)' <=> ItemStartsRight(r, item)
      BY <2>2 DEF ItemStartsRight
    <2>4. plan' # None => \A r \in DOMAIN plan'.items : ItemStartsRight(r, plan.items[r])'
      BY <1>1, <2>1, <2>3 DEF PlansStart, ItemStartsRight, StartsRight
    <2>5. \A r \in DOMAIN items : ItemStartsRight(r, items[r])'
      BY <1>1, <2>1, <2>3 DEF PlansStart, ItemStartsRight, StartsRight
    <2>6. \A r \in DOMAIN found : StartsRight(r, found[r])'
      BY <1>1, <2>1, <2>2 DEF PlansStart, StartsRight
    <2> QED BY <1>1, <2>1, <2>4, <2>5, <2>6 DEF PlansStart
  <1>9. CASE (\E pair \in DiffPairs : ReadRowsA(pair)) \/ ReadRowsB
    <2>1. UNCHANGED <<planning, request, found, items, plan>>
      BY <1>9 DEF ReadRowsA, ReadRowsB
    <2> QED BY <1>1, <1>3, <2>1, StartsKept
  <1> QED BY <1>4, <1>5, <1>6, <1>7, <1>8, <1>9 DEF PlannerStep

LEMMA ReadersKeepCalls ==
  ASSUME CallsInv, UNCHANGED <<vars, shared>>
  PROVE  CallsInv'
  <1>1. UNCHANGED <<stage_cache, stage_runs, pc, job, stage, outputs, obj, ret, shared>>
    BY DEF vars, storeVars, workerVars
  <1>2. /\ \A j, i : (HasRow(j, i)' <=> HasRow(j, i)) /\ Prior(j, i)' = Prior(j, i)
        /\ \A run, i : Exists(run, i)' <=> Exists(run, i)
    BY <1>1 DEF HasRow, Prior, RowOf, Exists
  <1>3. \A j, n, outs : Passed(j, n, outs)' <=> Passed(j, n, outs)
    BY <1>1, <1>2 DEF Passed, IsHit
  <1>4. CacheIsFunction' /\ SharedSeen'
    BY <1>1 DEF CallsInv, CacheIsFunction, SharedSeen, Callers
  <1>5. RowsAreCalls'
    BY <1>1, <1>2 DEF CallsInv, RowsAreCalls
  <1>6. RowsPassed'
    <2>1. \A j, s : Passed(j, s - 1, Prior(j, s))' <=> Passed(j, s - 1, Prior(j, s))
      BY <1>1 DEF Passed, IsHit, HasRow, Prior, RowOf, Exists
    <2> QED BY <1>2, <2>1 DEF CallsInv, RowsPassed
  <1>7. ASSUME NEW w \in Workers PROVE WorkerPassed(w)' /\ InFront(w)'
    <2>1. Passed(job[w], stage[w] - 1, outputs[w])' <=> Passed(job[w], stage[w] - 1, outputs[w])
      BY <1>1 DEF Passed, IsHit, HasRow, Prior, RowOf, Exists
    <2>2. Input(w)' = Input(w) /\ (Putting(w)' <=> Putting(w))
      BY <1>1 DEF Input, Putting
    <2>3. \A j, s : FirstRow(j, s)' <=> FirstRow(j, s)
      BY <1>2 DEF FirstRow
    <2>4. WorkerPassed(w)'
      BY <1>1, <2>1, <2>2 DEF CallsInv, WorkerPassed
    <2>5. InFront(w)'
      BY <1>1, <1>2, <2>2, <2>3 DEF CallsInv, InFront
    <2> QED BY <2>4, <2>5
  <1> QED BY <1>4, <1>5, <1>6, <1>7 DEF CallsInv

(***************************************************************************)
(* Beside any number of workers, for all requests: where a plan's items    *)
(* start in orderly runs, and the invariant of the calls that keeps it so. *)
(***************************************************************************)
THEOREM StartsInductive == PlannerSpec => []StartInv
  <1>1. PlannerInit => PlanInv /\ CallsInv /\ PlansStart
    <2>1. PlannerInit => PlanInv
      BY InitRows DEF PlannerInit, PlanInv, ItemsAreTrue, PlanIsTrue, DiffIsTrue, NoFunction
    <2>2. PlannerInit => PlansStart
      BY DEF PlannerInit, PlansStart, NoFunction
    <2> QED BY <2>1, <2>2, InitCalls DEF PlannerInit
  <1>2. StartInv /\ [PlannerNext]_<<vars, plannerVars>> => StartInv'
    <2> SUFFICES ASSUME StartInv, [PlannerNext]_<<vars, plannerVars>> PROVE StartInv'
      OBVIOUS
    <2>1. PlanInv /\ CallsInv /\ RowsInv
      BY DEF StartInv, PlanInv
    <2>2. CASE WorkerStep
      <3>1. Next /\ SharedStep /\ UNCHANGED readerVars
        BY <2>2 DEF WorkerStep, SharedStep
      <3> QED BY <2>1, <2>2, <3>1, WorkersKeepReports, CallsStep, WorkersKeepStarts DEF StartInv
    <2>3. CASE PlannerStep /\ UNCHANGED <<bundle, shared>>
      <3>1. UNCHANGED vars
        BY <2>3 DEF PlannerStep, Ask, SelectAffected, InsertPlan, ReadRun, MarkExecuted,
           ReadRowsA, ReadRowsB
      <3> QED BY <2>1, <2>3, <3>1, ReadersKeepReports, ReadersKeepCalls, ReadersKeepStarts DEF StartInv
    <2>4. CASE UNCHANGED <<vars, readerVars, shared>>
      <3>1. UNCHANGED readerVars /\ UNCHANGED <<planning, request, found, items, plan>>
            /\ UNCHANGED <<vars, shared, request>>
        BY <2>4 DEF readerVars
      <3>2. PlansStart'
        BY <2>1, <3>1, SameStarts, StartsKept DEF StartInv
      <3> QED BY <2>1, <3>1, <3>2, WorkersKeepReports, ReadersKeepCalls DEF StartInv
    <2> QED BY <2>2, <2>3, <2>4 DEF PlannerNext, plannerVars
  <1> QED BY <1>1, <1>2, PTL DEF PlannerSpec, StartInv

(***************************************************************************)
(* Which runs a request finds: all that have a row of what it replaces if  *)
(* it has no filter, and none as soon as it has one.  Every request to the *)
(* gateway has the tenant's, so every plan that it makes is empty.         *)
(***************************************************************************)
THEOREM FiltersDecide ==
  PlannerSpec =>
    [][planning = "select" /\ planning' = "read" =>
         DOMAIN found' = IF Filters(request) = <<>>
                         THEN {run \in PipelineRuns : Matches(run) # {}} ELSE {}
      ]_<<vars, plannerVars>>
  <1>1. ASSUME StartInv, PlannerNext, planning = "select", planning' = "read"
        PROVE  DOMAIN found' = IF Filters(request) = <<>>
                               THEN {run \in PipelineRuns : Matches(run) # {}} ELSE {}
    <2>1. SelectAffected
      BY <1>1 DEF PlannerNext, WorkerStep, readerVars, PlannerStep, Ask, InsertPlan, ReadRun,
         MarkExecuted, ReadRowsA, ReadRowsB
    <2>2. DOMAIN found' = {run \in PipelineRuns : Selected(request, run) # {}}
      BY <1>1, <2>1 DEF SelectAffected
    <2>3. Match(request) # <<>>
      BY <1>1 DEF StartInv, PlansStart
    <2>4. CASE Filters(request) = <<>>
      BY <2>2, <2>3, <2>4, SelectedIsMatches
    <2>5. CASE Filters(request) # <<>>
      <3>1. \A run : Selected(request, run) = {}
        BY <2>3, <2>5, SelectedIsMatches
      <3> QED BY <2>2, <2>5, <3>1
    <2> QED BY <2>4, <2>5
  <1>2. ASSUME UNCHANGED <<vars, plannerVars>>, planning = "select", planning' = "read"
        PROVE  FALSE
    BY <1>2 DEF plannerVars, readerVars
  <1> QED BY <1>1, <1>2, StartsInductive, PTL DEF PlannerSpec

\* ReuseIsUnaffected: no stage that a plan reuses of an orderly run was
\* computed with the prompt or the toolchain that the request replaces.
THEOREM ReuseIsSafe == PlannerSpec => []ReuseIsUnaffected
  <1>1. StartInv => ReuseIsUnaffected
    <2> SUFFICES ASSUME StartInv, plan # None, NEW run \in DOMAIN plan.items, Orderly(run),
                        NEW i \in plan.items[run].reuse, NEW c \in {"prompt", "toolchain"},
                        Replaced(c)
                 PROVE  stage_runs[<<run, i>>].input[c] # request[c]
      BY DEF ReuseIsUnaffected
    <2>1. ItemStartsRight(run, plan.items[run]) /\ ItemIsTrue(plan.items[run], run)
      BY DEF StartInv, PlansStart, PlanInv, PlanIsTrue
    <2>2. i \in Stages /\ i < plan.items[run].start
      BY <2>1 DEF ItemStartsRight
    <2>3. Exists(run, i)
      <3>1. \E o \in OutputsOf(run) : o[1] = i
        BY <2>1 DEF ItemIsTrue
      <3>2. PICK k \in Stages : /\ Finished(stage_runs[<<run, k>>])
                               /\ <<k, stage_runs[<<run, k>>].result>>[1] = i
        BY <3>1 DEF OutputsOf
      <3>3. k = i
        BY <3>2
      <3> QED BY <3>2, <3>3 DEF Finished, Exists
    <2>4. i \notin Matches(run)
      <3>1. Matches(run) # {} /\ plan.items[run].start = Min(Matches(run))
        BY <2>1 DEF ItemStartsRight, StartsRight, EarliestMatch
      <3>2. \A m \in Matches(run) : Min(Matches(run)) <= m
        BY <3>1, MatchesAreStages, MinIsLeast
      <3>3. Min(Matches(run)) \in Nat /\ i \in Nat
        BY <2>2, <3>1, MatchesAreStages, MinIsLeast DEF Stages
      <3> QED BY <2>2, <3>1, <3>2, <3>3
    <2> QED BY <2>2, <2>3, <2>4 DEF Matches
  <1> QED BY <1>1, StartsInductive, PTL

\* ExplainAgrees: an explanation of an item of an orderly run, computed from
\* the rows of any later moment, names the stage that the plan starts from.
THEOREM ExplanationsAgree == PlannerSpec => []ExplainAgrees
  <1>1. StartInv => ExplainAgrees
    BY DEF StartInv, PlansStart, ItemStartsRight, StartsRight, ExplainAgrees
  <1> QED BY <1>1, StartsInductive, PTL
=============================================================================
