--------------------------- MODULE MCOrchestrator ---------------------------
(***************************************************************************)
(* Instances of Orchestrator for TLC.                                      *)
(***************************************************************************)
EXTENDS Orchestrator, TLC

CONSTANTS d1, p1, t1, e1, bad, junk

(***************************************************************************)
(* Pipeline runs with the same inputs, each of which may be executed by    *)
(* several workers and again after it ended; and calls without a prompt.   *)
(***************************************************************************)
Call(r, p) == [run |-> r, docpack |-> d1, prompt |-> p, toolchain |-> t1, params |-> 0]
PromptedJobs == {Call(r, p1) : r \in PipelineRuns}
AllJobs == {Call(r, p) : r \in PipelineRuns, p \in {p1, None}}

AllUsePrompt == [i \in 1..NumStages |-> TRUE]
LastHasNoPrompt == [i \in 1..NumStages |-> i < NumStages]

(***************************************************************************)
(* Stage 1 (an LLM) may answer in two ways; later stages return the bytes  *)
(* of what they were given, so that one artifact has several origins.  Any *)
(* handler may return an object that fails its schema, or no object.       *)
(***************************************************************************)
MCHandler(in) ==
  {bad, junk} \cup (IF in.stage = 1 THEN Outputs ELSE {in.prior_outputs[in.stage - 1]})

\* No definition tells workers, runs or outputs apart.
Symmetry == Permutations(Workers) \cup Permutations(PipelineRuns) \cup Permutations(Outputs)
=============================================================================
