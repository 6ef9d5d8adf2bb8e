------------------------------ MODULE Planner -------------------------------
(***************************************************************************)
(* The readers of stage_runs: the regeneration planner of                  *)
(* services/regen-planner, its tenant-scoped copy in the gateway, the      *)
(* gateway's run diff, and the bundles of Closure, each SELECT a step of   *)
(* its own beside the workers of Orchestrator.                             *)
(*                                                                         *)
(* The statement that looks for affected runs is built from two lists that *)
(* grow in different orders, so which argument meets which placeholder is  *)
(* part of the model.                                                      *)
(***************************************************************************)
EXTENDS Closure, FiniteSetsExt

CONSTANTS
  Requests,   \* [service, prompt, toolchain, pipeline_id, created_after,
              \* created_before]: the old hashes and the filters, or None
  DiffPairs   \* the <<run_a, run_b>> that are compared

ASSUME PlannerAssumption == DiffPairs \subseteq PipelineRuns \X PipelineRuns

VARIABLES
  request,    \* the request that is planned, or None
  planning,   \* "idle", "select", "read", "done"
  found,      \* run -> MIN(stage_index), for the runs still to be read
  items,      \* run -> its PlanItem, so far
  plan,       \* the row of regeneration_plans: [status, items]
  diff,       \* [pair, a, b]: the rows of the run diff
  shared      \* history: the runs that two callers were ever in at once

readerVars == <<request, planning, found, items, plan, diff>>
plannerVars == <<readerVars, bundle, shared>>

NoFunction == [r \in {} |-> None]

PlannerInit ==
  /\ Init
  /\ request = None /\ planning = "idle"
  /\ found = NoFunction /\ items = NoFunction
  /\ plan = None
  /\ diff = None
  /\ bundle = None
  /\ shared = {}

-----------------------------------------------------------------------------
(* The query for affected runs.                                            *)

Given(req, column) == IF req[column] # None THEN <<column>> ELSE <<>>

Match(req) == Given(req, "prompt") \o Given(req, "toolchain")
Filters(req) ==
  (IF req.service = "gateway" THEN <<"tenant", "tenant">> ELSE <<>>)
    \o Given(req, "pipeline_id")
    \o Given(req, "created_after") \o Given(req, "created_before")

\* The statement names the match clauses first, the list of parameters the
\* filters: the column compared and the argument it is compared with.
Comparisons(req) ==
  LET columns == Match(req) \o Filters(req)
      arguments == Filters(req) \o Match(req)
  IN [i \in 1..Len(columns) |-> [column |-> columns[i], argument |-> arguments[i]]]

\* A uuid or timestamp column compared with a text of another form.
Malformed(cmp) ==
  \/ cmp.column = "pipeline_id" /\ cmp.argument # "pipeline_id"
  \/ /\ cmp.column \in {"created_after", "created_before"}
     /\ cmp.argument \notin {"created_after", "created_before"}

\* Whether a placeholder's comparison holds of a row; every row is the tenant's.
Holds(req, cmp, row) ==
  /\ cmp.column = cmp.argument
  /\ cmp.column \in {"prompt", "toolchain"} => row.input[cmp.column] = req[cmp.column]

IsMatch(cmp) == cmp.column \in {"prompt", "toolchain"}

Exists(run, i) == stage_runs[<<run, i>>].status # "absent"

Selected(req, run) ==
  {i \in Stages :
     /\ Exists(run, i)
     /\ LET row == stage_runs[<<run, i>>]
            cmps == {Comparisons(req)[k] : k \in 1..Len(Comparisons(req))}
        IN /\ \E c \in cmps : IsMatch(c) /\ Holds(req, c, row)
           /\ \A c \in cmps : ~IsMatch(c) => Holds(req, c, row)}

-----------------------------------------------------------------------------
(* plan_regeneration and create_plan.                                      *)

\* A request without an old hash is answered 400.
Ask(req) ==
  /\ planning = "idle" /\ Match(req) # <<>>
  /\ request' = req
  /\ planning' = "select"
  /\ UNCHANGED <<vars, found, items, plan, diff>>

\* Variant: only successful rows are looked at.
SelectAffectedSuccess ==
  /\ planning = "select"
  /\ LET hits(r) == {i \in Selected(request, r) : stage_runs[<<r, i>>].status = "success"}
     IN found' = [r \in {q \in PipelineRuns : hits(q) # {}} |-> Min(hits(r))]
  /\ planning' = "read"
  /\ UNCHANGED <<vars, request, items, plan, diff>>

\* The database refuses the statement and the request ends with a 500, or
\* every affected run is found with its first stage that matched.
SelectAffected ==
  /\ planning = "select"
  /\ \/ /\ \E k \in 1..Len(Comparisons(request)) : Malformed(Comparisons(request)[k])
        /\ planning' = "idle" /\ request' = None
        /\ UNCHANGED found
     \/ /\ \A k \in 1..Len(Comparisons(request)) : ~Malformed(Comparisons(request)[k])
        /\ planning' = "read"
        /\ LET affected == {r \in PipelineRuns : Selected(request, r) # {}}
           IN found' = [r \in affected |-> Min(Selected(request, r))]
        /\ UNCHANGED request
  /\ UNCHANGED <<vars, items, plan, diff>>

Finished(row) == row.status = "success" /\ row.result # None

OutputsOf(run) ==
  {<<i, stage_runs[<<run, i>>].result>> : i \in {k \in Stages : Finished(stage_runs[<<run, k>>])}}

\* Variant: a row that exists is taken for a result.
ItemOfRows(run, start) ==
  [start |-> start,
   reuse |-> {i \in Stages : i < start /\ Exists(run, i)},
   recompute |-> start..Max({i \in Stages : Exists(run, i)}),
   outputs |-> OutputsOf(run)]

\* Variant: everything but the stages that matched can be reused.
ItemKeepingLater(run, start) ==
  [start |-> start,
   reuse |-> {i \in Stages : i # start /\ Finished(stage_runs[<<run, i>>])},
   recompute |-> {start},
   outputs |-> OutputsOf(run)]

Item(run, start) ==
  [start |-> start,
   reuse |-> {i \in Stages : i < start /\ Finished(stage_runs[<<run, i>>])},
   recompute |-> start..Max({i \in Stages : Exists(run, i)}),
   outputs |-> OutputsOf(run)]

\* The second SELECT, on a connection of its own for every run.
ReadRun(run) ==
  /\ planning = "read" /\ run \in DOMAIN found
  /\ items' = [r \in DOMAIN items \cup {run} |->
                 IF r = run THEN Item(run, found[run]) ELSE items[r]]
  /\ found' = [r \in DOMAIN found \ {run} |-> found[r]]
  /\ UNCHANGED <<vars, request, planning, plan, diff>>

InsertPlan ==
  /\ planning = "read" /\ found = NoFunction
  /\ planning' = "done"
  /\ plan' = [status |-> "planned", items |-> items]
  /\ items' = NoFunction
  /\ UNCHANGED <<vars, request, found, diff>>

\* POST /execute/plan has no condition and answers ok without a plan, too.
MarkExecuted ==
  /\ plan' = IF plan = None THEN None ELSE [plan EXCEPT !.status = "executed"]
  /\ UNCHANGED <<vars, request, planning, found, items, diff>>

\* GET /plan/{plan_id}/explain reads the rows of every item again, and
\* changes nothing: the stage of the earliest match that it would report.
Replaced(c) == request[c] # None

Matches(run) ==
  {i \in Stages : Exists(run, i) /\
     \E c \in {"prompt", "toolchain"} :
       Replaced(c) /\ stage_runs[<<run, i>>].input[c] = request[c]}

EarliestMatch(run) == IF Matches(run) = {} THEN None ELSE Min(Matches(run))

-----------------------------------------------------------------------------
(* GET /runs/diff: two statements, each with a snapshot of its own.        *)

RowsOf(run) == [i \in Stages |-> stage_runs[<<run, i>>]]

ReadRowsA(pair) ==
  /\ diff = None
  /\ diff' = [pair |-> pair, a |-> RowsOf(pair[1]), b |-> None]
  /\ UNCHANGED <<vars, request, planning, found, items, plan>>

ReadRowsB ==
  /\ diff # None /\ diff.b = None
  /\ diff' = [diff EXCEPT !.b = RowsOf(diff.pair[2])]
  /\ UNCHANGED <<vars, request, planning, found, items, plan>>

\* What the comparison of two rows says of them.  Two rows without an
\* output have the same output.
Output(row) == IF row.status = "success" THEN row.result ELSE None
Kind(a, b) ==
  CASE a.status = "absent" -> "added_in_b"
    [] b.status = "absent" -> "removed_in_b"
    [] OTHER -> IF /\ Output(a) = Output(b)
                   /\ a.input.prompt = b.input.prompt
                   /\ a.input.toolchain = b.input.toolchain
                THEN "same" ELSE "diff"

\* The stages that have a row in one of the runs and are not the same.
Differences(a, b) ==
  {i \in Stages : /\ {a[i].status, b[i].status} # {"absent"}
                  /\ Kind(a[i], b[i]) # "same"}

FirstDiff(a, b) == IF Differences(a, b) = {} THEN None ELSE Min(Differences(a, b))

Classification(a, b) ==
  LET i == FirstDiff(a, b)
  IN IF i = None THEN {}
     ELSE IF Kind(a[i], b[i]) # "diff" THEN {"structure"}
     ELSE {c \in {"output", "prompt", "toolchain"} :
             CASE c = "output" -> Output(a[i]) # Output(b[i])
               [] OTHER -> a[i].input[c] # b[i].input[c]}

-----------------------------------------------------------------------------

PlannerStep ==
  \/ \E req \in Requests : Ask(req)
  \/ SelectAffected \/ InsertPlan
  \/ \E run \in PipelineRuns : ReadRun(run)
  \/ MarkExecuted
  \/ \E pair \in DiffPairs : ReadRowsA(pair)
  \/ ReadRowsB

\* The callers that are inside run() for a pipeline run.
Callers(run) == {w \in Workers : pc[w] \notin Terminal /\ job[w].run = run}

WorkerStep ==
  /\ Next
  /\ shared' = shared \cup {run \in PipelineRuns : \E v, w \in Callers(run)' : v # w}
  /\ UNCHANGED <<readerVars, bundle>>

PlannerNext ==
  \/ WorkerStep
  \/ PlannerStep /\ UNCHANGED <<bundle, shared>>
  \/ BundleStep /\ UNCHANGED <<vars, readerVars, shared>>

PlannerSpec == PlannerInit /\ [][PlannerNext]_<<vars, plannerVars>>

-----------------------------------------------------------------------------
(* Properties.                                                             *)

(***************************************************************************)
(* What a plan or a diff says of finished stages stays true whatever       *)
(* workers do afterwards: the outputs it points to are those of the run,   *)
(* the stages it reuses have one, and a comparison of two finished rows    *)
(* would come out the same again.                                          *)
(***************************************************************************)
ReportsStayTrue ==
  /\ plan # None => \A run \in DOMAIN plan.items :
       /\ plan.items[run].outputs \subseteq OutputsOf(run)
       /\ \A i \in plan.items[run].reuse : \E o \in plan.items[run].outputs : o[1] = i
  /\ (diff # None /\ diff.b # None) =>
       \A i \in Stages : Final(diff.a[i]) /\ Final(diff.b[i]) =>
         Kind(diff.a[i], diff.b[i]) =
           Kind(RowsOf(diff.pair[1])[i], RowsOf(diff.pair[2])[i])

(***************************************************************************)
(* A run whose callers came one after another, and whose calls do not meet *)
(* what the request replaces in two different ways.  Of any other run a    *)
(* plan may be wrong: a second caller that missed the cache before the     *)
(* first filled it, or another call that the request affects, can insert   *)
(* a row in front of the start of a plan.                                  *)
(***************************************************************************)
Affects(j) == \E c \in {"prompt", "toolchain"} : Replaced(c) /\ j[c] = request[c]

Orderly(run) ==
  /\ run \notin shared
  /\ \A j, k \in Jobs : j.run = run /\ k.run = run /\ Affects(j) /\ Affects(k) => j = k

(***************************************************************************)
(* No stage that a plan reuses was computed with what the request replaces,*)
(* although the rows are read twice and the run may be called again in     *)
(* between with another toolchain: a stage in front of the first match was *)
(* memoized for the replaced one and cannot get a row with it any more.    *)
(***************************************************************************)
ReuseIsUnaffected ==
  plan # None => \A run \in DOMAIN plan.items : Orderly(run) =>
    \A i \in plan.items[run].reuse, c \in {"prompt", "toolchain"} :
      Replaced(c) => stage_runs[<<run, i>>].input[c] # request[c]

(***************************************************************************)
(* An explanation, computed from the rows of a later moment, names the     *)
(* stage that the plan starts from.                                        *)
(***************************************************************************)
ExplainAgrees ==
  plan # None =>
    \A run \in DOMAIN plan.items :
      Orderly(run) => EarliestMatch(run) = plan.items[run].start

(***************************************************************************)
(* Of every run, orderly or not: "what can be reused (stages before start  *)
(* index)" when the prompt or the toolchain is replaced.                   *)
(***************************************************************************)
NothingReplacedIsReused ==
  plan # None => \A run \in DOMAIN plan.items :
    \A i \in plan.items[run].reuse, c \in {"prompt", "toolchain"} :
      Replaced(c) => stage_runs[<<run, i>>].input[c] # request[c]

(***************************************************************************)
(* A plan answers "which pipeline runs are affected": every run with a     *)
(* finished row of the replaced prompt or toolchain when the planner       *)
(* looked.  The gateway compares the tenant with the hash, and finds none. *)
(***************************************************************************)
AffectedAreFound ==
  [][planning = "select" /\ planning' = "read" =>
       \A run \in PipelineRuns, i \in Stages, c \in {"prompt", "toolchain"} :
         /\ Finished(stage_runs[<<run, i>>]) /\ request[c] # None
         /\ stage_runs[<<run, i>>].input[c] = request[c]
         => run \in DOMAIN found']_<<vars, plannerVars>>
=============================================================================
