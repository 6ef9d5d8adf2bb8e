------------------------------ MODULE Closure -------------------------------
(***************************************************************************)
(* A bundle of a deliverable and of the pipeline run behind it, made while *)
(* the workers of Orchestrator go on, and the three checks of it:          *)
(* verify_bundle and closure_verify.py against the rows of stage_runs, and *)
(* tools/bundle-verify against its own files.                              *)
(*                                                                         *)
(* A sha256 is the artifact it names.  How a deliverable gets its columns, *)
(* and who may have a bundle of it, is Release's; the signature is checked *)
(* as in Signing: here it holds.                                           *)
(***************************************************************************)
EXTENDS Orchestrator

CONSTANTS
  Deliverables,  \* the rows that pass the gates: [run, stage06, docx, record]
  Documents      \* what the renderer and finalize_deliverable have stored

ASSUME ClosureAssumption ==
  /\ \A d \in Deliverables : d.run \in PipelineRuns /\ d.docx # None
  /\ None \notin Documents

VARIABLE
  bundle  \* the one in the making or made: [of, artifacts, made, final], where
          \* final is history: the rows that were final when it was collected

Stored == artifacts \cup Documents

Final(row) == row.status \in {"success", "fail_closed"}

Rows(run) == {id \in RunStages : id[1] = run /\ stage_runs[id].status # "absent"}

\* The five columns of a row that name artifacts.
References(row) ==
  {ref \in {[type |-> "toolchain", sha |-> row.input.toolchain],
            [type |-> "prompt", sha |-> row.input.prompt],
            [type |-> "input", sha |-> row.input],
            [type |-> "output", sha |-> IF row.status = "success" THEN row.result ELSE None],
            [type |-> "error", sha |-> IF row.status = "fail_closed" THEN row.result ELSE None]} :
     ref.sha # None}

\* Variant: error artifacts are not collected.
CollectWithoutErrors(run) ==
  {ref.sha : ref \in {r \in UNION {References(stage_runs[id]) : id \in Rows(run)} : r.type # "error"}}

\* _collect_run_artifacts.
Collect(run) == {ref.sha : ref \in UNION {References(stage_runs[id]) : id \in Rows(run)}}

\* The documents of the deliverable itself, which rows need not refer to.
Own(d) == {d.stage06, d.docx, d.record} \ {None}

(***************************************************************************)
(* create_bundle, after its gates.  A deliverable has a docx because       *)
(* create_deliverable found it in the stored stage06 output.               *)
(***************************************************************************)
CollectBundle(d) ==
  /\ bundle = None
  /\ d.stage06 \in Stored
  /\ bundle' = [of |-> d, artifacts |-> Collect(d.run) \cup Own(d), made |-> FALSE,
                final |-> {id \in Rows(d.run) : Final(stage_runs[id])}]

\* 404 when an artifact or its bytes are missing.  Nothing is ever deleted,
\* so the reads, two for each artifact, are one step.
FetchArtifacts ==
  /\ bundle # None /\ ~bundle.made
  /\ bundle' = IF bundle.artifacts \subseteq Stored THEN [bundle EXCEPT !.made = TRUE] ELSE None

BundleStep == FetchArtifacts \/ \E d \in Deliverables : CollectBundle(d)

\* The manifest, and the zip with an entry for every artifact it lists.  An
\* entry is the artifact that its bytes are.
BundleManifest(made) ==
  [run |-> made.of.run, closure_mode |-> "stage_runs_v1", artifacts |-> made.artifacts]

Zip(m) == [manifest |-> m, entries |-> [sha \in m.artifacts |-> sha]]

-----------------------------------------------------------------------------
(* The gateway's checks.                                                   *)

\* expected_stage_runs_v1_artifacts and expected_stage_runs_v1_sources.
Expected(run) == UNION {{ref.sha : ref \in References(stage_runs[id])} : id \in Rows(run)}

Sources(run, sha) ==
  UNION {{[row |-> id, type |-> ref.type] : ref \in {r \in References(stage_runs[id]) : r.sha = sha}} :
           id \in Rows(run)}

VerifyClosure(m, expected) ==
  [missing |-> expected \ m.artifacts, extra |-> m.artifacts \ expected]

\* The result that verify_bundle computes and does not return.
VerifyBundle(m) ==
  LET closure == VerifyClosure(m, Expected(m.run))
  IN [missing_artifacts |-> m.artifacts \ Stored,
      closure |-> closure,
      details |-> [sha \in closure.missing |-> Sources(m.run, sha)]]

-----------------------------------------------------------------------------
(* The offline check.  gateway is what GET /runs/{run_id}/artifacts        *)
(* answers, or None: then the closure is skipped.                          *)

ClosureViaGateway(m, gateway) == gateway = None \/ VerifyClosure(m, gateway).missing = {}

\* No mismatches, nothing missing in the manifest or in the zip.
ZipIsExact(zip) ==
  /\ \A sha \in DOMAIN zip.entries : zip.entries[sha] = sha
  /\ DOMAIN zip.entries = zip.manifest.artifacts

VerifyZip(zip, gateway) == ZipIsExact(zip) /\ ClosureViaGateway(zip.manifest, gateway)

\* What may become of a zip under way: an entry lost, one changed to other
\* bytes, or one added that is itself.
Damaged(zip) ==
  LET names == DOMAIN zip.entries
  IN {[zip EXCEPT !.entries = [sha \in names \ {lost} |-> sha]] : lost \in names}
       \cup {[zip EXCEPT !.entries[sha] = None] : sha \in names}
       \cup {[zip EXCEPT !.entries = [sha \in names \cup {None} |-> sha]]}

-----------------------------------------------------------------------------
(* Properties.                                                             *)

(***************************************************************************)
(* Only a document of the deliverable itself can keep a bundle from being  *)
(* made.  Whatever any worker does after it was collected: everything it   *)
(* lists is stored; beside what the run's rows refer to it lists the       *)
(* documents of the deliverable, and nothing else; what verify_bundle      *)
(* misses in it comes from rows that were not final then; offline the      *)
(* undamaged zip verifies as long as nothing is missed, and a damaged one  *)
(* never.                                                                  *)
(***************************************************************************)
ClosuresHold ==
  bundle # None =>
    LET d == bundle.of
        m == BundleManifest(bundle)
        now == VerifyBundle(m)
    IN /\ now.missing_artifacts \subseteq Own(d) /\ (bundle.made => now.missing_artifacts = {})
       /\ now.closure.extra = Own(d) \ Expected(d.run)
       /\ \A sha \in now.closure.missing :
            /\ now.details[sha] # {}
            /\ \A source \in now.details[sha] : source.row \notin bundle.final
       /\ Rows(d.run) \subseteq bundle.final => VerifyZip(Zip(m), Expected(d.run))
       /\ VerifyZip(Zip(m), None)
       /\ \A zip \in Damaged(Zip(m)) : ~VerifyZip(zip, None)
=============================================================================
