----------------------------- MODULE MCEvidence -----------------------------
(***************************************************************************)
(* An instance of Evidence for TLC: a deliverable, created as already sent *)
(* and finalized later, two bundles and a pack of evidence.                *)
(***************************************************************************)
EXTENDS Evidence, TLC

CONSTANTS d1, b1, b2, plain

ReleaseCallOn(op, b) ==
  [op |-> op, deliverable |-> d1, spelling |-> plain, bundle |-> b, key |-> None,
   accepted |-> TRUE, status |-> "draft", supersedes |-> None]

MCCalls ==
  {[ReleaseCallOn("create", None) EXCEPT !.deliverable = None, !.status = "sent"]} \cup
  {ReleaseCallOn(op, None) : op \in {"finalize", "mark_sent", "bundle"}}
    \cup {[ReleaseCallOn("finalize", None) EXCEPT !.spelling = s] : s \in Spellings}
    \cup {ReleaseCallOn("download", b1), ReleaseCallOn("revoke", b2)}

MCEvidenceCalls ==
  {[op |-> "make", deliverable |-> d1, spelling |-> plain, evidence |-> None]}
    \cup [op : {"download", "revoke"}, deliverable : {d1}, spelling : {plain},
          evidence : EvidenceIds]

(***************************************************************************)
(* Bounds: rows are asked for while there is an id for them; bundles are   *)
(* made and downloaded while the record is the first; a request of Release *)
(* that has stored documents goes on; nothing is sent again; nothing is    *)
(* finalized again, except once, in the other spelling, while the first    *)
(* pack is being made of the first bundle; only downloads are logged. (The *)
(* runs life_cycle and release have no such bounds on finalize.)           *)
(***************************************************************************)
MCBounds ==
  /\ \A q \in Requests :
       /\ pc[q] \in {"point", "put_zip", "insert_bundle"} /\ pc'[q] = "idle" => reply' # None
       /\ pc'[q] = "read_for_bundle" => \E b \in BundleIds : deliverable_bundles[b].status = "absent"
       /\ pc'[q] \in {"read_for_bundle", "read_status"} =>
            deliverables[d1].record \in {None, Record(d1, plain, "final")}
       /\ pc'[q] = "create" => ~Exists(d1)
       /\ pc'[q] = "mark_final" =>
            \/ deliverables[d1].record = None /\ call'[q].spelling = plain
            \/ /\ deliverables[d1].record = Record(d1, plain, "final") /\ call'[q].spelling # plain
               /\ Len(created) = 1 /\ audit_events = {}
               /\ \E e \in EvidenceRequests : pack[e] # None
       /\ pc'[q] = "mark_sent" => deliverables[d1].status = "final"
  /\ \A e \in EvidenceRequests :
       at'[e] = "read_sent" /\ asked'[e].op = "make" => \E v \in EvidenceIds : Row(v) = None
  /\ \A ev \in audit_events' \cup evidence_events' : ev.op = "download"
=============================================================================
