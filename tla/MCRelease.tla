----------------------------- MODULE MCRelease ------------------------------
(***************************************************************************)
(* Instances of Release for TLC: all ids, spellings and keys are model     *)
(* values.                                                                 *)
(***************************************************************************)
EXTENDS Release, TLC

CONSTANTS d1, plain

CallOn(op, d, s, b, k) ==
  [op |-> op, deliverable |-> d, spelling |-> s, bundle |-> b, key |-> k,
   accepted |-> TRUE, status |-> "draft", supersedes |-> None]
Creation(k) == CallOn("create", None, plain, None, k)
Headers == Keys \cup {None}

\* A deliverable and its successor, finalized with and without a key.  The
\* id of d1 is written in every way, that of its successor in one.
LifeCycleCalls ==
  {Creation(k) : k \in Headers} \cup {[Creation(None) EXCEPT !.accepted = FALSE]}
    \cup {CallOn("finalize", d1, s, None, k) : s \in Spellings, k \in Keys}
    \cup {CallOn("finalize", d1, plain, None, None)}
    \cup {CallOn("finalize", d, plain, None, k) : d \in DeliverableIds, k \in Keys}
    \cup {CallOn("supersede", d1, plain, None, k) : k \in Headers}
    \cup {CallOn("mark_sent", d1, plain, None, None)}

\* Deliverables from their creation to the downloads of their bundles.
ReleaseCalls ==
  {Creation(None)}
    \cup {CallOn(op, d1, plain, None, None) : op \in {"mark_sent", "bundle"}}
    \cup {CallOn("finalize", d1, s, None, None) : s \in Spellings}
    \cup {CallOn(op, d1, plain, b, None) : op \in {"download", "revoke"}, b \in BundleIds}

\* No definition tells requests or bundles apart.
Symmetry == Permutations(Requests) \cup Permutations(BundleIds)

\* Bound: manifests that are stored without a bundle of theirs.
MCBounds ==
  \A m, n \in artifacts' \cap Manifests :
    (\A b \in BundleIds : deliverable_bundles'[b].manifest \notin {m, n}) => m = n
=============================================================================
