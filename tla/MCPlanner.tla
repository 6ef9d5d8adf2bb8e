----------------------------- MODULE MCPlanner ------------------------------
(***************************************************************************)
(* Instances of Planner for TLC: one worker that executes two pipeline     *)
(* runs of two stages one after another, repeats them after failures and   *)
(* crashes, with the old toolchain or the new one.                         *)
(***************************************************************************)
EXTENDS Planner

CONSTANTS d1, p1, told, tnew, o1, o2, e1, r1, r2, pipeline, docx, lost, record

Call(r, t) == [run |-> r, docpack |-> d1, prompt |-> p1, toolchain |-> t, params |-> 0]
MCJobs == {Call(r1, told), Call(r1, tnew), Call(r2, told)}

AllUsePrompt == [i \in 1..NumStages |-> TRUE]

\* Handlers are deterministic, but may raise.
MCHandler(in) == {IF in.stage = 1 THEN o1 ELSE o2}

MCPairs == {<<r1, r2>>}

\* The docx of one deliverable was never stored.
MCDeliverables ==
  {[run |-> r1, stage06 |-> o2, docx |-> docx, record |-> record],
   [run |-> r1, stage06 |-> o2, docx |-> lost, record |-> None]}

Asked(service, prompt, filter) ==
  [service |-> service, prompt |-> prompt, toolchain |-> told, pipeline_id |-> filter,
   created_after |-> None, created_before |-> None]

\* One request replaces the prompt too, so that both calls of r1 meet it.
MCRequests == {Asked("planner", None, None), Asked("planner", p1, None),
               Asked("planner", None, pipeline)}
MCGatewayRequests == {Asked("gateway", None, None)}

\* The places where a death leaves stage_runs and stage_cache in different
\* states: the other tables are not read here.
CrashPoints == {"idle", "insert_run", "handler", "finalize"}

(***************************************************************************)
(* The artifacts that the calls name are stored.  A behaviour has a plan,  *)
(* a run diff or a bundle: none writes what the others read.               *)
(***************************************************************************)
MCSpec ==
  /\ PlannerInit /\ artifacts = Externals
  /\ [][/\ PlannerNext
        /\ Cardinality({diff', request', bundle'} \ {None}) <= 1
        /\ \A w \in Workers : pc'[w] = "idle" => pc[w] \in CrashPoints
       ]_<<vars, plannerVars>>
=============================================================================
