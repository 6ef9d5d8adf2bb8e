------------------------------ MODULE Evidence ------------------------------
(***************************************************************************)
(* Evidence packs beside the handlers of Release: made for a sent          *)
(* deliverable and its newest valid bundle, downloaded, revoked, and swept *)
(* with old bundles by scripts/retention_sweep.py.                         *)
(*                                                                         *)
(* A request reads deliverable, bundle, audit log and bundle again in      *)
(* transactions of their own.  The statements are modelled as written:     *)
(* from line 155 on their indentation is broken at this commit.            *)
(***************************************************************************)
EXTENDS Release, Naturals, Sequences, FiniteSets

CONSTANTS
  EvidenceRequests, \* slots of the server
  EvidenceIds,      \* uuid4 values
  EvidenceCalls,    \* the calls that clients make
  MaxOrphans        \* bound: documents of packs that were never inserted

EvidenceStatuses == {"created", "revoked"}

EvidenceEvent == [op : {"download", "revoke"}, deliverable : DeliverableIds, evidence : EvidenceIds]

\* What an evidence manifest says, as far as it has been read; it writes the
\* id of the deliverable as the URL does.
Packs ==
  [of : DeliverableIds, spelling : Spellings, record : Records \cup {None},
   bundle : BundleIds \cup {None}, manifest : Manifests \cup {None},
   receipts : (SUBSET (Event \cup EvidenceEvent)) \cup {None},
   bundle_status : EvidenceStatuses \cup {None}]
EvidenceRows == [deliverable : DeliverableIds, pack : Packs, status : EvidenceStatuses]

ASSUME EvidenceAssumption ==
  /\ EvidenceCalls \subseteq [op : {"make", "download", "revoke"},
                              deliverable : DeliverableIds, spelling : Spellings,
                              evidence : EvidenceIds \cup {None}]
  /\ \A c \in EvidenceCalls : c.op # "make" => c.evidence \in EvidenceIds
  /\ MaxOrphans \in Nat
  /\ EvidenceIds \cap BundleIds = {}
  /\ None \notin Manifests \cup Zips \cup EvidenceRows \cup EvidenceStatuses

VARIABLES
  deliverable_evidence, \* id -> row, or None
  created,              \* ids of bundles and evidence in the order of created_at
  packs,                \* the artifacts that evidence consists of
  evidence_events,      \* the audit_events about evidence, without denials
  at,                   \* request -> label of its next transaction
  asked,                \* request -> its call
  pack,                 \* request -> the pack it puts together, or has fetched
  answer,               \* the answer that the last step gave, if it gave one
  withdrawn             \* history: request -> what was revoked when it came

evidenceTables == <<deliverable_evidence, packs, evidence_events>>
requestVars == <<at, asked, pack, answer, withdrawn>>
evidenceVars == <<evidenceTables, created, requestVars>>

EvidenceInit ==
  /\ Init
  /\ deliverable_evidence = [v \in EvidenceIds |-> None]
  /\ created = <<>>
  /\ packs = {}
  /\ evidence_events = {}
  /\ at = [e \in EvidenceRequests |-> "idle"]
  /\ asked = [e \in EvidenceRequests |-> None]
  /\ pack = [e \in EvidenceRequests |-> None]
  /\ answer = None
  /\ withdrawn = [e \in EvidenceRequests |-> {}]

-----------------------------------------------------------------------------

\* The zip around an evidence manifest.
PackZip(p) == [zip_of |-> p]

Row(v) == deliverable_evidence[v]
HasEvidence(d, v) == Row(v) # None /\ Row(v).deliverable = d

Revoked == {b \in BundleIds : deliverable_bundles[b].status = "revoked"}
             \cup {v \in EvidenceIds : Row(v) # None /\ Row(v).status = "revoked"}

\* What create_evidence has read of the deliverable, and not read yet.
Begun(c) ==
  [of |-> c.deliverable, spelling |-> c.spelling, record |-> deliverables[c.deliverable].record,
   bundle |-> None, manifest |-> None, receipts |-> None, bundle_status |-> None]

\* Where the valid bundles of the deliverable stand: status='created'.
ValidBundles(d) ==
  {i \in 1..Len(created) : /\ created[i] \in BundleIds
                           /\ HasBundle(d, created[i])
                           /\ deliverable_bundles[created[i]].status = "created"}

\* The last 50 downloads of the deliverable: the bounds stay below 50.
Downloads(d) ==
  {ev \in audit_events \cup evidence_events : ev.op = "download" /\ ev.deliverable = d}

Orphans == {p \in packs : \A v \in EvidenceIds :
              Row(v) = None \/ p \notin {Row(v).pack, PackZip(Row(v).pack)}}

\* A step about evidence changes nothing of Release (and answers no call of it).
OthersStay == reply' = None /\ UNCHANGED <<tables, pc, call, hand, late, sent>>

Continue(e, label) ==
  /\ at' = [at EXCEPT ![e] = label]
  /\ answer' = None
  /\ UNCHANGED <<asked, withdrawn>>

End(e) ==
  /\ at' = [at EXCEPT ![e] = "idle"]
  /\ asked' = [asked EXCEPT ![e] = None]
  /\ pack' = [pack EXCEPT ![e] = None]
  /\ withdrawn' = [withdrawn EXCEPT ![e] = {}]

Reply(e, code, body) ==
  /\ answer' = [call |-> asked[e], code |-> code, body |-> body, withdrawn |-> withdrawn[e]]
  /\ End(e)

Ask(e, c) ==
  /\ at[e] = "idle"
  /\ at' = [at EXCEPT ![e] = IF c.op = "revoke" THEN "revoke" ELSE "read_sent"]
  /\ asked' = [asked EXCEPT ![e] = c]
  /\ answer' = None
  /\ withdrawn' = [withdrawn EXCEPT ![e] = Revoked]
  /\ OthersStay /\ UNCHANGED <<evidenceTables, created, pack>>

\* The process dies, a connection or a statement fails, or the signature
\* cannot be made: no evidence.
Drop(e) ==
  /\ at[e] # "idle"
  /\ at[e] \in {"put_pack", "insert"} => Cardinality(Orphans) <= MaxOrphans
  /\ answer' = None
  /\ End(e)
  /\ OthersStay /\ UNCHANGED <<evidenceTables, created>>

\* The same gate for making and for downloading.
ReadSent(e) ==
  LET c == asked[e]  d == c.deliverable IN
  /\ at[e] = "read_sent"
  /\ IF ~Exists(d) THEN Reply(e, "not_found", None)
     ELSE IF deliverables[d].status # "sent" THEN Reply(e, "denied", None)
     ELSE IF c.op = "download" THEN Continue(e, "read_evidence") /\ UNCHANGED pack
     ELSE /\ Continue(e, "read_newest")
          /\ pack' = [pack EXCEPT ![e] = Begun(c)]
  /\ OthersStay /\ UNCHANGED <<evidenceTables, created>>

-----------------------------------------------------------------------------
(* create_evidence.                                                        *)

\* ORDER BY created_at DESC LIMIT 1
ReadNewest(e) ==
  LET p == pack[e]  valid == ValidBundles(p.of) IN
  /\ at[e] = "read_newest"
  /\ \/ valid = {} /\ Reply(e, "denied", None)
     \/ \E i \in valid :
          /\ \A j \in valid : j <= i
          /\ Continue(e, "check")
          /\ pack' = [pack EXCEPT ![e] =
               [p EXCEPT !.bundle = created[i],
                         !.manifest = deliverable_bundles[created[i]].manifest]]
  /\ OthersStay /\ UNCHANGED <<evidenceTables, created>>

\* The manifest and its signature, which a rotated key no longer verifies;
\* then the record.  (Chain excerpt and metrics may be absent as well.)
CheckBundle(e) ==
  /\ at[e] = "check"
  /\ \/ /\ pack[e].manifest \in artifacts
        /\ \/ /\ pack[e].record \in artifacts
              /\ Continue(e, "receipts") /\ UNCHANGED pack
           \/ pack[e].record \notin artifacts /\ Reply(e, "denied", None)
     \/ pack[e].manifest \notin artifacts /\ Reply(e, "not_found", None)
     \/ Reply(e, "invalid", None)
  /\ OthersStay /\ UNCHANGED <<evidenceTables, created>>

ReadReceipts(e) ==
  /\ at[e] = "receipts"
  /\ \E r \in {Downloads(pack[e].of), None} :
       pack' = [pack EXCEPT ![e] = [pack[e] EXCEPT !.receipts = r]]
  /\ Continue(e, "status")
  /\ OthersStay /\ UNCHANGED <<evidenceTables, created>>

\* The bundle may have been revoked meanwhile; the evidence then says so.
ReadBundleStatus(e) ==
  /\ at[e] = "status"
  /\ \E s \in {deliverable_bundles[pack[e].bundle].status, None} :
       pack' = [pack EXCEPT ![e] = [pack[e] EXCEPT !.bundle_status = s]]
  /\ Continue(e, "put_evidence")
  /\ OthersStay /\ UNCHANGED <<evidenceTables, created>>

\* Variant: the manifest is only written into the zip.
PutEvidenceInZip(e) ==
  /\ at[e] = "put_evidence"
  /\ Continue(e, "put_pack")
  /\ OthersStay /\ UNCHANGED <<evidenceTables, created, pack>>

PutEvidence(e) ==
  LET p == pack[e] IN
  /\ at[e] = "put_evidence"
  /\ IF {p.manifest, Zip(p.manifest), p.record} \subseteq artifacts
     THEN /\ packs' = packs \cup {p}
          /\ Continue(e, "put_pack") /\ UNCHANGED pack
     ELSE Reply(e, "denied", None) /\ UNCHANGED packs
  /\ OthersStay /\ UNCHANGED <<deliverable_evidence, evidence_events, created>>

PutPack(e) ==
  /\ at[e] = "put_pack"
  /\ packs' = packs \cup {PackZip(pack[e])}
  /\ Continue(e, "insert")
  /\ OthersStay /\ UNCHANGED <<deliverable_evidence, evidence_events, created, pack>>

InsertEvidence(e, v) ==
  /\ at[e] = "insert" /\ Row(v) = None
  /\ deliverable_evidence' = [deliverable_evidence EXCEPT ![v] =
       [deliverable |-> pack[e].of, pack |-> pack[e], status |-> "created"]]
  /\ created' = Append(created, v)
  /\ Reply(e, "ok", pack[e])
  /\ OthersStay /\ UNCHANGED <<packs, evidence_events>>

-----------------------------------------------------------------------------
(* download_evidence, revoke_evidence and the retention sweep.             *)

\* Variant: the status of the evidence is not looked at.
ReadEvidenceUnchecked(e) ==
  LET c == asked[e] IN
  /\ at[e] = "read_evidence"
  /\ IF ~HasEvidence(c.deliverable, c.evidence) THEN Reply(e, "not_found", None)
     ELSE /\ Continue(e, "fetch")
          /\ pack' = [pack EXCEPT ![e] = PackZip(Row(c.evidence).pack)]
  /\ OthersStay /\ UNCHANGED <<evidenceTables, created>>

ReadEvidence(e) ==
  LET c == asked[e] IN
  /\ at[e] = "read_evidence"
  /\ IF ~HasEvidence(c.deliverable, c.evidence) THEN Reply(e, "not_found", None)
     ELSE IF Row(c.evidence).status = "revoked" THEN Reply(e, "denied", None)
     ELSE /\ Continue(e, "fetch")
          /\ pack' = [pack EXCEPT ![e] = PackZip(Row(c.evidence).pack)]
  /\ OthersStay /\ UNCHANGED <<evidenceTables, created>>

FetchPack(e) ==
  /\ at[e] = "fetch"
  /\ IF pack[e] \in packs THEN Continue(e, "emit") /\ UNCHANGED pack
     ELSE Reply(e, "not_found", None)
  /\ OthersStay /\ UNCHANGED <<evidenceTables, created>>

RevokeEvidence(e) ==
  LET c == asked[e]  v == c.evidence IN
  /\ at[e] = "revoke"
  /\ IF HasEvidence(c.deliverable, v) /\ Row(v).status # "revoked"
     THEN /\ deliverable_evidence' = [deliverable_evidence EXCEPT ![v] =
            [Row(v) EXCEPT !.status = "revoked"]]
          /\ Continue(e, "emit") /\ UNCHANGED pack
     ELSE Reply(e, "not_found", None) /\ UNCHANGED deliverable_evidence
  /\ OthersStay /\ UNCHANGED <<packs, evidence_events, created>>

EmitEvidence(e) ==
  LET c == asked[e]
      event == [op |-> c.op, deliverable |-> c.deliverable, evidence |-> c.evidence] IN
  /\ at[e] = "emit"
  /\ evidence_events' \in {evidence_events, evidence_events \cup {event}}
  /\ Reply(e, "ok", pack[e])
  /\ OthersStay /\ UNCHANGED <<deliverable_evidence, packs, created>>

\* What was created before a cutoff.
Before(ids) == {{created[k] : k \in 1..i} \cap ids : i \in 0..Len(created)}

\* One transaction, without events, and a cutoff for each table.
Sweep ==
  \E old \in Before(BundleIds \ Revoked), older \in Before(EvidenceIds \ Revoked) :
    /\ old \cup older # {}
    /\ deliverable_bundles' = [b \in BundleIds |->
         IF b \in old THEN [deliverable_bundles[b] EXCEPT !.status = "revoked"]
         ELSE deliverable_bundles[b]]
    /\ deliverable_evidence' = [v \in EvidenceIds |->
         IF v \in older THEN [Row(v) EXCEPT !.status = "revoked"] ELSE Row(v)]
    /\ answer' = None
    /\ reply' = None
    /\ UNCHANGED <<deliverables, idempotency_keys, audit_events, artifacts,
                   pc, call, hand, late, sent,
                   packs, evidence_events, created, at, asked, pack, withdrawn>>

-----------------------------------------------------------------------------

EvidenceStep(e) ==
  \/ Drop(e) \/ ReadSent(e) \/ ReadNewest(e) \/ CheckBundle(e) \/ ReadReceipts(e)
  \/ ReadBundleStatus(e) \/ PutEvidence(e) \/ PutPack(e)
  \/ \E v \in EvidenceIds : InsertEvidence(e, v)
  \/ ReadEvidence(e) \/ FetchPack(e) \/ RevokeEvidence(e) \/ EmitEvidence(e)

\* A handler of Release; the rows it inserts are the newest.
ReleaseStep ==
  /\ Next
  /\ \/ UNCHANGED created /\ \A b \in BundleIds :
          deliverable_bundles'[b].status = "absent" \/ deliverable_bundles[b].status # "absent"
     \/ \E b \in BundleIds : /\ deliverable_bundles[b].status = "absent"
                             /\ deliverable_bundles'[b].status # "absent"
                             /\ created' = Append(created, b)
  /\ answer' = None
  /\ UNCHANGED <<evidenceTables, at, asked, pack, withdrawn>>

EvidenceNext ==
  \/ ReleaseStep
  \/ Sweep
  \/ \E e \in EvidenceRequests :
       \/ \E c \in EvidenceCalls : Ask(e, c)
       \/ EvidenceStep(e)

EvidenceSpec == EvidenceInit /\ [][EvidenceNext]_<<vars, evidenceVars>>

-----------------------------------------------------------------------------
(* Properties.                                                             *)

(***************************************************************************)
(* Evidence is complete and true, whatever happened between its reads: its *)
(* documents, the bundle it names and the record are stored, belong to one *)
(* deliverable, which was sent; the record is final, and that of the       *)
(* deliverable differs from it at most in how it writes the id; the        *)
(* downloads it lists are in the log; a revocation it reports is in force. *)
(***************************************************************************)
EvidenceIsWhole ==
  \A v \in EvidenceIds : Row(v) # None =>
    LET p == Row(v).pack  b == deliverable_bundles[p.bundle] IN
    /\ {p, PackZip(p)} \subseteq packs
    /\ {p.manifest, Zip(p.manifest), p.record} \subseteq artifacts
    /\ p.of = Row(v).deliverable /\ p.of \in sent
    /\ b.deliverable = p.of /\ b.manifest = p.manifest
    /\ {p.record, deliverables[p.of].record} \subseteq FinalRecords(p.of)
    /\ p.receipts # None => p.receipts \subseteq Downloads(p.of)
    /\ p.bundle_status = "revoked" => b.status = "revoked"

(***************************************************************************)
(* "Revoked bundles/evidence cannot be downloaded", nor certified: a       *)
(* request that comes after a revocation or a sweep was committed neither  *)
(* delivers that evidence nor makes new evidence for that bundle.          *)
(***************************************************************************)
RevocationsAreRespected ==
  answer # None /\ answer.code = "ok" =>
    /\ answer.call.op = "download" => answer.call.evidence \notin answer.withdrawn
    /\ answer.call.op = "make" => answer.body.bundle \notin answer.withdrawn
    /\ answer.call.op = "revoke" => Row(answer.call.evidence).status = "revoked"
=============================================================================
