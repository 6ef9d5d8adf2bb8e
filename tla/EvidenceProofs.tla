--------------------------- MODULE EvidenceProofs ---------------------------
(***************************************************************************)
(* Evidence for any number of requests, deliverables, bundles and packs.   *)
(* The invariant of Release survives the steps about evidence and the      *)
(* sweep; a pack in the making is true of the tables because they only     *)
(* Grow, the log and the evidence with them.                               *)
(***************************************************************************)
EXTENDS Evidence, ReleaseProofs

-----------------------------------------------------------------------------
(* The inductive invariant.                                                *)

Chosen == {"check", "receipts", "status", "put_evidence", "put_pack", "insert"}
Making == {"read_newest"} \cup Chosen
EvidenceLabels ==
  {"idle", "read_sent", "read_evidence", "fetch", "revoke", "emit"} \cup Making

RowsTyped ==
  /\ deliverable_evidence \in [EvidenceIds -> EvidenceRows \cup {None}]
  /\ created \in Seq(BundleIds \cup EvidenceIds)
  /\ evidence_events \subseteq EvidenceEvent

RequestsTyped ==
  /\ at \in [EvidenceRequests -> EvidenceLabels]
  /\ asked \in [EvidenceRequests -> EvidenceCalls \cup {None}]
  /\ DOMAIN pack = EvidenceRequests
  /\ withdrawn \in [EvidenceRequests -> SUBSET (BundleIds \cup EvidenceIds)]

CreatedExist == \A i \in 1..Len(created) :
  /\ created[i] \in BundleIds => deliverable_bundles[created[i]].status # "absent"
  /\ created[i] \in EvidenceIds => Row(created[i]) # None

\* A request is at a label of its call, and what was revoked then still is.
ServesIts(e) ==
  /\ at[e] # "idle" => asked[e] \in EvidenceCalls /\ withdrawn[e] \subseteq Revoked
  /\ at[e] \in Making => asked[e].op = "make"
  /\ at[e] = "read_sent" => asked[e].op # "revoke"
  /\ at[e] \in {"read_evidence", "fetch"} => asked[e].op = "download"
  /\ at[e] = "revoke" => asked[e].op = "revoke"
  /\ at[e] = "emit" => asked[e].op \in {"download", "revoke"}

\* The record that was read, and the one the deliverable points to now.
BothFinal(d, r) == {r, deliverables[d].record} \subseteq FinalRecords(d)

\* What has been read of the deliverable and of the bundle.
ReadsAreTrue(e) ==
  LET p == pack[e] IN
  /\ at[e] \in Making =>
       /\ p \in Packs /\ p.of \in sent
       /\ p.record # None => BothFinal(p.of, p.record)
  /\ at[e] \in Chosen =>
       /\ p.bundle \in BundleIds \ withdrawn[e]
       /\ HasBundle(p.of, p.bundle)
       /\ p.manifest = deliverable_bundles[p.bundle].manifest
  /\ at[e] \in Chosen \ {"check"} => p.record # None

\* What has been read of the log and of the revocations.
FindingsAreTrue(e) ==
  LET p == pack[e] IN
  /\ at[e] \in {"status", "put_evidence", "put_pack", "insert"} /\ p.receipts # None =>
       p.receipts \subseteq Downloads(p.of)
  /\ at[e] \in {"put_evidence", "put_pack", "insert"} /\ p.bundle_status = "revoked" =>
       deliverable_bundles[p.bundle].status = "revoked"

\* What has been stored.
PutsAreKept(e) ==
  LET p == pack[e] IN
  /\ at[e] \in {"put_pack", "insert"} =>
       p \in packs /\ {p.manifest, Zip(p.manifest), p.record} \subseteq artifacts
  /\ at[e] = "insert" => PackZip(p) \in packs

\* A download got past the status of its evidence; a revocation took effect.
PassedTheGate(e) ==
  LET c == asked[e] IN
  /\ at[e] \in {"fetch", "emit"} /\ c.op = "download" => c.evidence \notin withdrawn[e]
  /\ at[e] = "emit" /\ c.op = "revoke" => Row(c.evidence) # None /\ Row(c.evidence).status = "revoked"

Doing(e) ==
  ServesIts(e) /\ ReadsAreTrue(e) /\ FindingsAreTrue(e) /\ PutsAreKept(e) /\ PassedTheGate(e)

\* EvidenceIsWhole, with what keeps its bundle and its record in place.
RowIsWhole(v) ==
  LET p == Row(v).pack IN
  /\ {p, PackZip(p)} \subseteq packs
  /\ {p.manifest, Zip(p.manifest), p.record} \subseteq artifacts
  /\ p.of = Row(v).deliverable /\ p.of \in sent
  /\ p.bundle \in BundleIds /\ HasBundle(p.of, p.bundle)
  /\ deliverable_bundles[p.bundle].manifest = p.manifest
  /\ BothFinal(p.of, p.record)
  /\ p.receipts # None => p.receipts \subseteq Downloads(p.of)
  /\ p.bundle_status = "revoked" => deliverable_bundles[p.bundle].status = "revoked"

RowsAreWhole == \A v \in EvidenceIds : Row(v) # None => RowIsWhole(v)

EvInv ==
  /\ RelInv /\ RowsTyped /\ RequestsTyped /\ CreatedExist /\ RowsAreWhole
  /\ RevocationsAreRespected
  /\ \A e \in EvidenceRequests : Doing(e)

\* What no step takes back.
EvidenceGrows ==
  /\ Grows /\ audit_events \subseteq audit_events'
  /\ packs \subseteq packs' /\ evidence_events \subseteq evidence_events'
  /\ \A v \in EvidenceIds : Row(v) # None =>
       deliverable_evidence'[v] \in {Row(v), [Row(v) EXCEPT !.status = "revoked"]}

\* A step of e leaves the other requests alone.
AloneIn(e) == \A f \in EvidenceRequests \ {e} :
  at'[f] = at[f] /\ asked'[f] = asked[f] /\ pack'[f] = pack[f] /\ withdrawn'[f] = withdrawn[f]

-----------------------------------------------------------------------------
(* Release under the steps about evidence.                                 *)

LEMMA LogGrows ==
  ASSUME RelInv, Next
  PROVE  audit_events \subseteq audit_events'
  <1> SUFFICES ASSUME NEW q \in Requests, (\E c \in Calls : Receive(q, c)) \/ Step(q)
               PROVE  audit_events \subseteq audit_events'
    BY DEF Next
  <1>1. CASE \E c \in Calls : Receive(q, c)
    BY <1>1 DEF Receive, tables
  <1>2. CASE Lookup(q) \/ StoreResponse(q) \/ Raise(q) \/ Lose(q)
    BY <1>2 DEF Lookup, StoreResponse, Raise, Lose, tables
  <1>3. CASE \E d \in DeliverableIds, docx \in BOOLEAN : Create(q, d, docx)
    BY <1>3 DEF Create
  <1>4. CASE MarkFinal(q) \/ PutRecord(q) \/ Point(q) \/ MarkSent(q) \/ MarkSuperseded(q)
    BY <1>4 DEF MarkFinal, PutRecord, Point, MarkSent, MarkSuperseded, Transition
  <1>5. CASE ReadForBundle(q) \/ PutManifest(q) \/ PutZip(q)
               \/ \E b \in BundleIds : InsertBundle(q, b)
    BY <1>5 DEF ReadForBundle, PutManifest, PutZip, InsertBundle, tables
  <1>6. CASE Revoke(q) \/ ReadStatus(q) \/ ReadBundle(q) \/ Fetch(q) \/ Emit(q)
    BY <1>6 DEF Revoke, ReadStatus, ReadBundle, Fetch, Emit, tables
  <1> QED BY <1>1, <1>2, <1>3, <1>4, <1>5, <1>6 DEF Step

LEMMA Undisturbed ==
  ASSUME RelInv, OthersStay
  PROVE  RelInv' /\ Grows
  <1>1. UNCHANGED <<tables, sent>> /\ UNCHANGED <<pc, call, hand, late>> /\ reply' = None
    BY DEF OthersStay
  <1>2. Tables' /\ Grows /\ RowTypes'
    BY <1>1, Quiet, QuietTypes
  <1>3. TypeOK'
    BY <1>1, <1>2 DEF RelInv, TypeOK, RowTypes
  <1>4. RepliesHold' /\ OneRevocation'
    BY <1>1 DEF RelInv, RepliesHold, OkAnswersAreTrue, RevokedStaysOut, Answered, OneRevocation
  <1>5. \A q \in Requests : Holds(q)'
    BY <1>1, <1>2, HoldsStays
  <1> QED BY <1>2, <1>3, <1>4, <1>5 DEF RelInv

\* The sweep revokes bundles that exist.
LEMMA SweptBundles ==
  ASSUME EvInv, NEW old \in Before(BundleIds \ Revoked)
  PROVE  old \subseteq {b \in BundleIds : deliverable_bundles[b].status # "absent"}
  <1>1. PICK i \in 0..Len(created) : old = {created[k] : k \in 1..i} \cap (BundleIds \ Revoked)
    BY DEF Before
  <1>2. \A k \in 1..i : k \in 1..Len(created)
    BY DEF EvInv, RowsTyped
  <1> QED BY <1>1, <1>2 DEF EvInv, CreatedExist

LEMMA SweptEvidence ==
  ASSUME EvInv, NEW older \in Before(EvidenceIds \ Revoked)
  PROVE  older \subseteq {v \in EvidenceIds : Row(v) # None}
  <1>1. PICK i \in 0..Len(created) :
          older = {created[k] : k \in 1..i} \cap (EvidenceIds \ Revoked)
    BY DEF Before
  <1>2. \A k \in 1..i : k \in 1..Len(created)
    BY DEF EvInv, RowsTyped
  <1> QED BY <1>1, <1>2 DEF EvInv, CreatedExist

LEMMA SweepKeepsRelease ==
  ASSUME EvInv, Sweep
  PROVE  RelInv' /\ Grows
  <1>1. PICK old \in Before(BundleIds \ Revoked) :
          deliverable_bundles' = [b \in BundleIds |->
            IF b \in old THEN [deliverable_bundles[b] EXCEPT !.status = "revoked"]
            ELSE deliverable_bundles[b]]
    BY DEF Sweep
  <1>2. /\ UNCHANGED <<deliverables, idempotency_keys, audit_events, artifacts, sent>>
        /\ UNCHANGED <<pc, call, hand, late>> /\ reply' = None
    BY DEF Sweep
  <1>3. RelInv /\ TypeOK /\ deliverable_bundles \in [BundleIds -> Bundle]
    BY DEF EvInv, RelInv, TypeOK
  <1>4. old \subseteq {b \in BundleIds : deliverable_bundles[b].status # "absent"}
    BY SweptBundles
  <1>5. \A b \in BundleIds :
          /\ deliverable_bundles'[b] \in Bundle
          /\ deliverable_bundles'[b].deliverable = deliverable_bundles[b].deliverable
          /\ deliverable_bundles'[b].manifest = deliverable_bundles[b].manifest
          /\ deliverable_bundles'[b].status = "absent" <=> deliverable_bundles[b].status = "absent"
          /\ deliverable_bundles[b].status = "revoked" => deliverable_bundles'[b].status = "revoked"
    BY <1>1, <1>3, <1>4 DEF Bundle
  <1>6. Grows
    BY <1>1, <1>2, <1>3
       DEF Grows, DeliverablesGrow, BundlesGrow, Past, Exists, RelInv, Tables, RecordsSayFinal
  <1>7. TypeOK'
    <2>1. deliverable_bundles' \in [BundleIds -> Bundle]
      BY <1>1, <1>5
    <2> QED BY <1>2, <1>3, <2>1 DEF TypeOK
  <1>8. Tables'
    <2>1. \A ev \in audit_events : ev.bundle \in BundleIds
      BY <1>3 DEF TypeOK, Event
    <2> QED BY <1>2, <1>3, <1>5, <2>1
          DEF RelInv, Tables, RecordsSayFinal, StoredAnswersHold, BundlesAreWhole, LogIsTrue,
              SentIsRemembered, OnlyFinalizeStores, LoggedBundlesExist, HasBundle
  <1>9. RepliesHold' /\ OneRevocation'
    BY <1>2, <1>3 DEF RelInv, RepliesHold, OkAnswersAreTrue, RevokedStaysOut, Answered,
       OneRevocation
  <1>10. \A q \in Requests : Holds(q)'
    BY <1>2, <1>3, <1>6, HoldsStays
  <1> QED BY <1>6, <1>7, <1>8, <1>9, <1>10 DEF RelInv

-----------------------------------------------------------------------------
(* What stays.                                                             *)

LEMMA RevokedStays ==
  ASSUME EvInv, EvidenceGrows
  PROVE  Revoked \subseteq Revoked'
  <1>1. \A b \in BundleIds : deliverable_bundles[b].status = "revoked" =>
          deliverable_bundles'[b].status = "revoked"
    <2> SUFFICES ASSUME NEW b \in BundleIds, deliverable_bundles[b].status = "revoked"
                 PROVE  deliverable_bundles'[b].status = "revoked"
      OBVIOUS
    <2>1. deliverable_bundles[b] \in Bundle
      BY DEF EvInv, RelInv, TypeOK
    <2>2. deliverable_bundles'[b] \in {deliverable_bundles[b],
            [deliverable_bundles[b] EXCEPT !.status = "revoked"]}
      BY DEF EvidenceGrows, Grows, BundlesGrow
    <2> QED BY <2>1, <2>2 DEF Bundle
  <1>2. \A v \in EvidenceIds : Row(v) # None /\ Row(v).status = "revoked" =>
          deliverable_evidence'[v] # None /\ deliverable_evidence'[v].status = "revoked"
    <2> SUFFICES ASSUME NEW v \in EvidenceIds, Row(v) # None, Row(v).status = "revoked"
                 PROVE  deliverable_evidence'[v] # None
                          /\ deliverable_evidence'[v].status = "revoked"
      OBVIOUS
    <2>1. Row(v) \in EvidenceRows
      BY DEF EvInv, RowsTyped, Row
    <2>2. deliverable_evidence'[v] \in {Row(v), [Row(v) EXCEPT !.status = "revoked"]}
      BY DEF EvidenceGrows
    <2>3. [Row(v) EXCEPT !.status = "revoked"] \in EvidenceRows
      BY <2>1 DEF EvidenceRows, EvidenceStatuses
    <2> QED BY <2>1, <2>2, <2>3, EvidenceAssumption DEF EvidenceRows
  <1> QED BY <1>1, <1>2 DEF Revoked, Row

LEMMA DownloadsStay ==
  ASSUME EvidenceGrows, NEW d
  PROVE  Downloads(d) \subseteq Downloads(d)'
  BY DEF EvidenceGrows, Downloads

\* A sent deliverable that points to a final record keeps pointing to one.
LEMMA RecordStays ==
  ASSUME EvInv, EvidenceGrows, NEW d \in sent, NEW r
  PROVE  /\ d \in DeliverableIds /\ d \in sent'
         /\ BothFinal(d, r) => BothFinal(d, r)'
  <1>1. d \in DeliverableIds /\ d \in sent'
    BY DEF EvInv, RelInv, TypeOK, EvidenceGrows, Grows
  <1>2. ASSUME BothFinal(d, r)
        PROVE  deliverables'[d].record \in FinalRecords(d)
    <2>1. deliverables[d].record # None
      BY <1>1, <1>2, FinalRecordsAreRecords DEF BothFinal
    <2> QED BY <1>1, <2>1 DEF EvidenceGrows, Grows, DeliverablesGrow
  <1> QED BY <1>1, <1>2 DEF BothFinal

LEMMA EvidenceRowStays ==
  ASSUME EvInv, EvidenceGrows, NEW v \in EvidenceIds, Row(v) # None
  PROVE  /\ deliverable_evidence'[v] # None
         /\ deliverable_evidence'[v] \in EvidenceRows
         /\ deliverable_evidence'[v].pack = Row(v).pack
         /\ deliverable_evidence'[v].deliverable = Row(v).deliverable
         /\ RowIsWhole(v)'
  <1>1. Row(v) \in EvidenceRows
    BY DEF EvInv, RowsTyped, Row
  <1>2. deliverable_evidence'[v] \in {Row(v), [Row(v) EXCEPT !.status = "revoked"]}
    BY DEF EvidenceGrows
  <1>3. [Row(v) EXCEPT !.status = "revoked"] \in EvidenceRows
    BY <1>1 DEF EvidenceRows, EvidenceStatuses
  <1>4. /\ deliverable_evidence'[v] \in EvidenceRows
        /\ deliverable_evidence'[v].pack = Row(v).pack
        /\ deliverable_evidence'[v].deliverable = Row(v).deliverable
    BY <1>1, <1>2, <1>3 DEF EvidenceRows
  <1>5. deliverable_evidence'[v] # None
    BY <1>4, EvidenceAssumption
  <1> DEFINE p == Row(v).pack
  <1>6. RowIsWhole(v)
    BY DEF EvInv, RowsAreWhole
  <1>7. p.of \in sent /\ p.of \in DeliverableIds /\ p.bundle \in BundleIds
    BY <1>6 DEF RowIsWhole, EvInv, RelInv, TypeOK
  <1>8. /\ HasBundle(p.of, p.bundle)' /\ deliverable_bundles'[p.bundle].manifest = p.manifest
        /\ deliverable_bundles[p.bundle].status = "revoked" =>
             deliverable_bundles'[p.bundle].status = "revoked"
    <2>1. RelInv /\ Grows
      BY DEF EvInv, EvidenceGrows
    <2>2. HasBundle(p.of, p.bundle) /\ deliverable_bundles[p.bundle].manifest = p.manifest
      BY <1>6 DEF RowIsWhole
    <2>3. \A d \in DeliverableIds, b \in BundleIds :
            /\ HasBundle(d, b) =>
                 /\ deliverable_bundles'[b].status # "absent"
                 /\ deliverable_bundles'[b].deliverable = d
                 /\ deliverable_bundles'[b].manifest = deliverable_bundles[b].manifest
            /\ deliverable_bundles[b].status = "revoked" =>
                 deliverable_bundles'[b].status = "revoked"
      BY <2>1, BundleStays DEF HasBundle
    <2>4. p' = p
      BY <1>4 DEF Row
    <2> HIDE DEF p
    <2> QED BY <1>7, <2>2, <2>3, <2>4 DEF HasBundle
  <1>9. p.of \in sent' /\ {p.record, deliverables'[p.of].record} \subseteq FinalRecords(p.of)
    BY <1>6, <1>7, RecordStays DEF RowIsWhole, BothFinal
  <1>10. p.receipts # None => p.receipts \subseteq Downloads(p.of)'
    <2>1. Downloads(p.of) \subseteq {ev \in audit_events' \cup evidence_events' :
            ev.op = "download" /\ ev.deliverable = p.of}
      BY DEF Downloads, EvidenceGrows
    <2>2. Row(v)'.pack = Row(v).pack
      BY <1>4 DEF Row
    <2> QED BY <1>6, <2>1, <2>2 DEF RowIsWhole, Downloads
  <1>11. {p, PackZip(p)} \subseteq packs' /\ {p.manifest, Zip(p.manifest), p.record} \subseteq artifacts'
    BY <1>6 DEF RowIsWhole, EvidenceGrows, Grows
  <1>12. RowIsWhole(v)'
    <2>1. Row(v)'.pack = Row(v).pack /\ Row(v)'.deliverable = Row(v).deliverable
      BY <1>4 DEF Row
    <2> QED BY <1>6, <1>7, <1>8, <1>9, <1>10, <1>11, <2>1 DEF RowIsWhole, BothFinal
  <1> QED BY <1>4, <1>5, <1>12

LEMMA RowsStayWhole ==
  ASSUME EvInv, EvidenceGrows, \A v \in EvidenceIds : Row(v) = None => Row(v)' = None
  PROVE  RowsAreWhole'
  BY EvidenceRowStays DEF RowsAreWhole

LEMMA CreatedStay ==
  ASSUME EvInv, EvidenceGrows
  PROVE  \A i \in 1..Len(created) :
           /\ created[i] \in BundleIds => deliverable_bundles'[created[i]].status # "absent"
           /\ created[i] \in EvidenceIds => deliverable_evidence'[created[i]] # None
  <1>1. \A b \in BundleIds : deliverable_bundles[b].status # "absent" =>
          deliverable_bundles'[b].status # "absent"
    BY DEF EvInv, RelInv, TypeOK, Bundle, EvidenceGrows, Grows, BundlesGrow
  <1>2. \A v \in EvidenceIds : Row(v) # None => deliverable_evidence'[v] # None
    BY EvidenceRowStays
  <1> QED BY <1>1, <1>2 DEF EvInv, CreatedExist

\* What a request relies on outlives the steps of others.
LEMMA DoingStays ==
  ASSUME EvInv, EvidenceGrows, NEW e \in EvidenceRequests,
         at'[e] = at[e], asked'[e] = asked[e], pack'[e] = pack[e], withdrawn'[e] = withdrawn[e]
  PROVE  Doing(e)'
  <1> DEFINE p == pack[e]
  <1>1. Doing(e) /\ RelInv /\ Grows
    BY DEF EvInv, EvidenceGrows
  <1>2. ServesIts(e)'
    BY <1>1, RevokedStays DEF Doing, ServesIts
  <1>3. ReadsAreTrue(e)'
    <2>1. at[e] \in Making => p \in Packs /\ p.of \in sent /\ p.of \in DeliverableIds
      BY <1>1 DEF Doing, ReadsAreTrue, Packs
    <2>2. at[e] \in Making =>
            p.of \in sent' /\ (p.record # None => BothFinal(p.of, p.record)')
      BY <1>1, <2>1, RecordStays DEF Doing, ReadsAreTrue
    <2>3. at[e] \in Chosen => at[e] \in Making
      BY DEF Making
    <2>4. at[e] \in Chosen => HasBundle(p.of, p.bundle)'
            /\ deliverable_bundles'[p.bundle].manifest = p.manifest
      <3>1. \A d \in DeliverableIds, b \in BundleIds : HasBundle(d, b) =>
              /\ deliverable_bundles'[b].status # "absent"
              /\ deliverable_bundles'[b].deliverable = d
              /\ deliverable_bundles'[b].manifest = deliverable_bundles[b].manifest
        BY <1>1, BundleStays DEF HasBundle
      <3> QED BY <1>1, <2>1, <2>3, <3>1 DEF Doing, ReadsAreTrue, HasBundle
    <2> QED BY <1>1, <2>1, <2>2, <2>3, <2>4 DEF Doing, ReadsAreTrue
  <1>4. FindingsAreTrue(e)'
    <2>1. {ev \in audit_events \cup evidence_events : ev.op = "download" /\ ev.deliverable = p.of}
            \subseteq {ev \in audit_events' \cup evidence_events' :
                        ev.op = "download" /\ ev.deliverable = p.of}
      BY DEF EvidenceGrows
    <2>2. at[e] \in Chosen => p.bundle \in BundleIds
      BY <1>1 DEF Doing, ReadsAreTrue
    <2>3. at[e] \in Chosen /\ deliverable_bundles[p.bundle].status = "revoked" =>
            deliverable_bundles'[p.bundle].status = "revoked"
      BY <1>1, <2>2 DEF RelInv, TypeOK, Bundle, Grows, BundlesGrow
    <2> QED BY <1>1, <2>1, <2>3 DEF Doing, FindingsAreTrue, Downloads, Chosen
  <1>5. PutsAreKept(e)'
    BY <1>1 DEF Doing, PutsAreKept, EvidenceGrows, Grows
  <1>6. PassedTheGate(e)'
    <2>1. at[e] = "emit" /\ asked[e].op = "revoke" => asked[e].evidence \in EvidenceIds
      BY <1>1, EvidenceAssumption DEF Doing, ServesIts
    <2>2. \A v \in EvidenceIds : Row(v) # None /\ Row(v).status = "revoked" =>
            deliverable_evidence'[v] # None /\ deliverable_evidence'[v].status = "revoked"
      <3> SUFFICES ASSUME NEW v \in EvidenceIds, Row(v) # None, Row(v).status = "revoked"
                   PROVE  deliverable_evidence'[v] # None
                            /\ deliverable_evidence'[v].status = "revoked"
        OBVIOUS
      <3>1. deliverable_evidence'[v] # None
        BY EvidenceRowStays
      <3> QED BY <3>1 DEF EvidenceGrows, EvInv, RowsTyped, Row, EvidenceRows
    <2> QED BY <1>1, <2>1, <2>2 DEF Doing, PassedTheGate, Row
  <1> QED BY <1>2, <1>3, <1>4, <1>5, <1>6 DEF Doing

-----------------------------------------------------------------------------
(* Putting a step together.                                                *)

LEMMA ContinueEffect ==
  ASSUME EvInv, NEW e \in EvidenceRequests, NEW label \in EvidenceLabels, Continue(e, label)
  PROVE  /\ at'[e] = label /\ asked'[e] = asked[e] /\ withdrawn'[e] = withdrawn[e]
         /\ \A f \in EvidenceRequests \ {e} :
              at'[f] = at[f] /\ asked'[f] = asked[f] /\ withdrawn'[f] = withdrawn[f]
         /\ at' \in [EvidenceRequests -> EvidenceLabels]
         /\ asked' = asked /\ withdrawn' = withdrawn
         /\ RevocationsAreRespected'
  BY DEF EvInv, RequestsTyped, Continue, RevocationsAreRespected

LEMMA EndEffect ==
  ASSUME EvInv, NEW e \in EvidenceRequests, End(e)
  PROVE  AloneIn(e) /\ RequestsTyped' /\ Doing(e)'
  <1>1. /\ at'[e] = "idle" /\ at' \in [EvidenceRequests -> EvidenceLabels]
        /\ asked' \in [EvidenceRequests -> EvidenceCalls \cup {None}]
        /\ withdrawn' \in [EvidenceRequests -> SUBSET (BundleIds \cup EvidenceIds)]
        /\ DOMAIN pack' = EvidenceRequests
    BY DEF EvInv, RequestsTyped, End, EvidenceLabels
  <1>2. AloneIn(e)
    BY DEF EvInv, RequestsTyped, End, AloneIn
  <1>3. Doing(e)'
    BY <1>1 DEF Doing, ServesIts, ReadsAreTrue, FindingsAreTrue, PutsAreKept, PassedTheGate,
       Making, Chosen
  <1> QED BY <1>1, <1>2, <1>3 DEF RequestsTyped

LEMMA Refused ==
  ASSUME EvInv, NEW e \in EvidenceRequests, NEW code \in {"not_found", "denied", "invalid"},
         NEW body, Reply(e, code, body)
  PROVE  AloneIn(e) /\ RequestsTyped' /\ Doing(e)' /\ RevocationsAreRespected'
  <1>1. End(e) /\ answer'.code # "ok"
    BY DEF Reply
  <1> QED BY <1>1, EndEffect DEF RevocationsAreRespected

\* Steps that change no table.
LEMMA QuietStep ==
  ASSUME EvInv, OthersStay, UNCHANGED <<evidenceTables, created>>
  PROVE  RelInv' /\ EvidenceGrows /\ RowsTyped' /\ CreatedExist' /\ RowsAreWhole'
  <1>1. RelInv' /\ Grows /\ audit_events' = audit_events
    BY Undisturbed DEF EvInv, OthersStay, tables
  <1>2. EvidenceGrows
    BY <1>1 DEF EvidenceGrows, evidenceTables, Row
  <1>3. RowsTyped'
    BY DEF EvInv, RowsTyped, evidenceTables
  <1>4. CreatedExist'
    BY <1>2, CreatedStay DEF CreatedExist, Row
  <1>5. RowsAreWhole'
    BY <1>2, RowsStayWhole DEF evidenceTables, Row
  <1> QED BY <1>1, <1>2, <1>3, <1>4, <1>5

LEMMA Together ==
  ASSUME EvInv, NEW e \in EvidenceRequests, AloneIn(e), Doing(e)', EvidenceGrows,
         RelInv', RowsTyped', RequestsTyped', CreatedExist', RowsAreWhole',
         RevocationsAreRespected'
  PROVE  EvInv'
  <1>1. \A f \in EvidenceRequests : Doing(f)'
    BY DoingStays DEF AloneIn
  <1> QED BY <1>1 DEF EvInv

LEMMA RefusedQuietly ==
  ASSUME EvInv, NEW e \in EvidenceRequests, NEW code \in {"not_found", "denied", "invalid"},
         NEW body, Reply(e, code, body), OthersStay, UNCHANGED <<evidenceTables, created>>
  PROVE  EvInv'
  BY Refused, QuietStep, Together

LEMMA ContinuedQuietly ==
  ASSUME EvInv, NEW e \in EvidenceRequests, NEW label \in EvidenceLabels, Continue(e, label),
         DOMAIN pack' = EvidenceRequests,
         \A f \in EvidenceRequests \ {e} : pack'[f] = pack[f],
         OthersStay, UNCHANGED <<evidenceTables, created>>, Doing(e)'
  PROVE  EvInv'
  <1>1. AloneIn(e) /\ RequestsTyped' /\ RevocationsAreRespected'
    BY ContinueEffect DEF AloneIn, EvInv, RequestsTyped
  <1> QED BY <1>1, QuietStep, Together

LEMMA InitEvidence == EvidenceInit => EvInv
  <1> SUFFICES ASSUME EvidenceInit PROVE EvInv
    OBVIOUS
  <1>1. RelInv
    BY InitInd DEF EvidenceInit
  <1>2. RowsTyped /\ RequestsTyped
    BY DEF EvidenceInit, RowsTyped, RequestsTyped, EvidenceLabels
  <1>3. CreatedExist /\ RowsAreWhole /\ RevocationsAreRespected
    BY DEF EvidenceInit, CreatedExist, RowsAreWhole, RevocationsAreRespected, Row
  <1>4. \A e \in EvidenceRequests : Doing(e)
    BY DEF EvidenceInit, Doing, ServesIts, ReadsAreTrue, FindingsAreTrue, PutsAreKept,
       PassedTheGate, Making, Chosen
  <1> QED BY <1>1, <1>2, <1>3, <1>4 DEF EvInv

-----------------------------------------------------------------------------
(* The steps.                                                              *)

LEMMA AskInd ==
  ASSUME EvInv, NEW e \in EvidenceRequests, NEW c \in EvidenceCalls, Ask(e, c)
  PROVE  EvInv'
  <1>1. /\ at'[e] = IF c.op = "revoke" THEN "revoke" ELSE "read_sent"
        /\ asked'[e] = c /\ withdrawn'[e] = Revoked
    BY DEF Ask, EvInv, RequestsTyped
  <1>2. RequestsTyped' /\ AloneIn(e)
    BY DEF Ask, EvInv, RequestsTyped, AloneIn, EvidenceLabels, Revoked
  <1>3. RelInv' /\ EvidenceGrows /\ RowsTyped' /\ CreatedExist' /\ RowsAreWhole'
    BY QuietStep DEF Ask
  <1>4. Revoked \subseteq Revoked'
    BY <1>3, RevokedStays
  <1>5. Doing(e)'
    BY <1>1, <1>4 DEF Doing, ServesIts, ReadsAreTrue, FindingsAreTrue, PutsAreKept,
       PassedTheGate, Making, Chosen
  <1>6. RevocationsAreRespected'
    BY DEF Ask, RevocationsAreRespected
  <1> QED BY <1>2, <1>3, <1>5, <1>6, Together

LEMMA DropInd ==
  ASSUME EvInv, NEW e \in EvidenceRequests, Drop(e)
  PROVE  EvInv'
  <1>1. AloneIn(e) /\ RequestsTyped' /\ Doing(e)'
    BY EndEffect DEF Drop
  <1>2. RevocationsAreRespected'
    BY DEF Drop, RevocationsAreRespected
  <1> QED BY <1>1, <1>2, QuietStep, Together DEF Drop

LEMMA ReadSentInd ==
  ASSUME EvInv, NEW e \in EvidenceRequests, ReadSent(e)
  PROVE  EvInv'
  <1> DEFINE d == asked[e].deliverable
  <1>1. /\ at[e] = "read_sent" /\ OthersStay /\ UNCHANGED <<evidenceTables, created>>
        /\ ServesIts(e) /\ asked[e] \in EvidenceCalls
    BY DEF ReadSent, EvInv, Doing, ServesIts
  <1>2. asked[e].op \in {"make", "download", "revoke"} /\ d \in DeliverableIds
    BY <1>1, EvidenceAssumption
  <1>3. Revoked' = Revoked
    BY <1>1 DEF OthersStay, tables, evidenceTables, Revoked, Row
  <1>4. CASE Reply(e, "not_found", None) \/ Reply(e, "denied", None)
    BY <1>1, <1>4, RefusedQuietly
  <1>5. CASE /\ asked[e].op = "download"
             /\ Continue(e, "read_evidence") /\ UNCHANGED pack
    <2>1. /\ at'[e] = "read_evidence" /\ asked'[e] = asked[e] /\ withdrawn'[e] = withdrawn[e]
      BY <1>5, ContinueEffect DEF EvidenceLabels
    <2>2. Doing(e)'
      BY <1>1, <1>3, <1>5, <2>1 DEF Doing, ServesIts, ReadsAreTrue, FindingsAreTrue,
         PutsAreKept, PassedTheGate, Making, Chosen
    <2> QED BY <1>1, <1>5, <2>2, ContinuedQuietly DEF EvidenceLabels, EvInv, RequestsTyped
  <1>6. CASE /\ asked[e].op # "download" /\ Exists(d) /\ deliverables[d].status = "sent"
             /\ Continue(e, "read_newest") /\ pack' = [pack EXCEPT ![e] = Begun(asked[e])]
    <2>1. /\ at'[e] = "read_newest" /\ asked'[e] = asked[e] /\ withdrawn'[e] = withdrawn[e]
      BY <1>6, ContinueEffect DEF EvidenceLabels, Making
    <2>2. asked[e].op = "make"
      BY <1>1, <1>2, <1>6 DEF ServesIts
    <2>3. pack'[e] = Begun(asked[e])
      BY <1>6 DEF EvInv, RequestsTyped
    <2>4. d \in sent
      BY <1>2, <1>6 DEF EvInv, RelInv, Tables, SentIsRemembered
    <2>5. Begun(asked[e]) \in Packs
      <3>1. deliverables[d].record \in Records \cup {None}
        BY <1>2 DEF EvInv, RelInv, TypeOK, Deliverable
      <3>2. asked[e].spelling \in Spellings
        BY <1>1, EvidenceAssumption
      <3> QED BY <1>2, <3>1, <3>2 DEF Begun, Packs
    <2>6. ReadsAreTrue(e)'
      <3>1. deliverables[d].record # None => BothFinal(d, deliverables[d].record)
        BY <1>2 DEF EvInv, RelInv, Tables, RecordsSayFinal, BothFinal
      <3>2. Begun(asked[e]).of = d /\ Begun(asked[e]).record = deliverables[d].record
        BY DEF Begun
      <3>3. UNCHANGED <<deliverables, sent>>
        BY <1>1 DEF OthersStay, tables
      <3> QED BY <2>1, <2>3, <2>4, <2>5, <3>1, <3>2, <3>3 DEF ReadsAreTrue, Chosen, BothFinal
    <2>7. Doing(e)'
      BY <1>1, <1>3, <2>1, <2>2, <2>6 DEF Doing, ServesIts, FindingsAreTrue, PutsAreKept,
         PassedTheGate, Chosen
    <2> QED BY <1>1, <1>6, <2>7, ContinuedQuietly DEF EvidenceLabels, Making, EvInv, RequestsTyped
  <1> QED BY <1>4, <1>5, <1>6 DEF ReadSent

LEMMA ReadNewestInd ==
  ASSUME EvInv, NEW e \in EvidenceRequests, ReadNewest(e)
  PROVE  EvInv'
  <1> DEFINE p == pack[e]
  <1>1. /\ at[e] = "read_newest" /\ OthersStay /\ UNCHANGED <<evidenceTables, created>>
        /\ Doing(e)
    BY DEF ReadNewest, EvInv
  <1>2. Revoked' = Revoked
    BY <1>1 DEF OthersStay, tables, evidenceTables, Revoked, Row
  <1>3. CASE Reply(e, "denied", None)
    BY <1>1, <1>3, RefusedQuietly
  <1>4. ASSUME NEW i \in ValidBundles(p.of), Continue(e, "check"),
               pack' = [pack EXCEPT ![e] =
                 [p EXCEPT !.bundle = created[i],
                           !.manifest = deliverable_bundles[created[i]].manifest]]
        PROVE  EvInv'
    <2> DEFINE b == created[i]  n == pack'[e]
    <2>1. /\ at'[e] = "check" /\ asked'[e] = asked[e] /\ withdrawn'[e] = withdrawn[e]
      BY <1>4, ContinueEffect DEF EvidenceLabels, Making, Chosen
    <2>2. p \in Packs /\ p.of \in sent
            /\ (p.record # None => BothFinal(p.of, p.record))
      BY <1>1 DEF Doing, ReadsAreTrue, Making
    <2>3. /\ b \in BundleIds /\ HasBundle(p.of, b)
          /\ deliverable_bundles[b].status = "created"
      BY <1>4 DEF ValidBundles
    <2>4. deliverable_bundles[b].manifest \in Manifests \cup {None}
      BY <2>3 DEF EvInv, RelInv, TypeOK, Bundle
    <2>5. n = [p EXCEPT !.bundle = b, !.manifest = deliverable_bundles[b].manifest]
      BY <1>4 DEF EvInv, RequestsTyped
    <2>6. /\ n \in Packs /\ n.of = p.of /\ n.record = p.record /\ n.bundle = b
          /\ n.manifest = deliverable_bundles[b].manifest
      BY <2>2, <2>3, <2>4, <2>5 DEF Packs
    <2>7. b \notin withdrawn[e]
      <3>1. withdrawn[e] \subseteq Revoked
        BY <1>1 DEF Doing, ServesIts
      <3> QED BY <2>3, <3>1, EvidenceAssumption DEF Revoked
    <2>8. ReadsAreTrue(e)'
      <3> HIDE DEF n
      <3>1. /\ n \in Packs /\ n.of \in sent
            /\ n.record # None => BothFinal(n.of, n.record)
            /\ n.bundle \in BundleIds \ withdrawn[e] /\ HasBundle(n.of, n.bundle)
            /\ n.manifest = deliverable_bundles[n.bundle].manifest
        BY <2>2, <2>3, <2>6, <2>7
      <3> QED BY <1>1, <2>1, <3>1 DEF n, ReadsAreTrue, OthersStay, tables, HasBundle, BothFinal
    <2>9. Doing(e)'
      BY <1>1, <1>2, <2>1, <2>8 DEF Doing, ServesIts, FindingsAreTrue, PutsAreKept,
         PassedTheGate, Making
    <2> QED BY <1>1, <1>4, <2>9, ContinuedQuietly
          DEF EvidenceLabels, Making, Chosen, EvInv, RequestsTyped
  <1> QED BY <1>3, <1>4 DEF ReadNewest

LEMMA CheckBundleInd ==
  ASSUME EvInv, NEW e \in EvidenceRequests, CheckBundle(e)
  PROVE  EvInv'
  <1>1. /\ at[e] = "check" /\ OthersStay /\ UNCHANGED <<evidenceTables, created>>
        /\ Doing(e)
    BY DEF CheckBundle, EvInv
  <1>2. Revoked' = Revoked
    BY <1>1 DEF OthersStay, tables, evidenceTables, Revoked, Row
  <1>3. CASE \E code \in {"not_found", "denied", "invalid"} : Reply(e, code, None)
    BY <1>1, <1>3, RefusedQuietly
  <1>4. CASE pack[e].record \in artifacts /\ Continue(e, "receipts") /\ UNCHANGED pack
    <2>1. /\ at'[e] = "receipts" /\ asked'[e] = asked[e] /\ withdrawn'[e] = withdrawn[e]
      BY <1>4, ContinueEffect DEF EvidenceLabels, Making, Chosen
    <2>2. pack[e].record # None
      BY <1>4, EvidenceAssumption, ReleaseAssumption DEF EvInv, RelInv, TypeOK
    <2>3. ReadsAreTrue(e)'
      BY <1>1, <1>4, <2>1, <2>2 DEF Doing, ReadsAreTrue, Making, Chosen, OthersStay, tables,
         HasBundle, BothFinal
    <2>4. Doing(e)'
      BY <1>1, <1>2, <2>1, <2>3 DEF Doing, ServesIts, FindingsAreTrue, PutsAreKept,
         PassedTheGate, Making, Chosen
    <2> QED BY <1>1, <1>4, <2>4, ContinuedQuietly
          DEF EvidenceLabels, Making, Chosen, EvInv, RequestsTyped
  <1> QED BY <1>3, <1>4 DEF CheckBundle

LEMMA ReadReceiptsInd ==
  ASSUME EvInv, NEW e \in EvidenceRequests, ReadReceipts(e)
  PROVE  EvInv'
  <1> DEFINE p == pack[e]  n == pack'[e]
  <1>1. /\ at[e] = "receipts" /\ OthersStay /\ UNCHANGED <<evidenceTables, created>>
        /\ Doing(e) /\ Continue(e, "status")
    BY DEF ReadReceipts, EvInv
  <1>2. PICK r \in {Downloads(p.of), None} : pack' = [pack EXCEPT ![e] = [p EXCEPT !.receipts = r]]
    BY DEF ReadReceipts
  <1>3. Revoked' = Revoked /\ \A d : Downloads(d)' = Downloads(d)
    BY <1>1 DEF OthersStay, tables, evidenceTables, Revoked, Row, Downloads
  <1>4. /\ at'[e] = "status" /\ asked'[e] = asked[e] /\ withdrawn'[e] = withdrawn[e]
    BY <1>1, ContinueEffect DEF EvidenceLabels, Making, Chosen
  <1>5. n = [p EXCEPT !.receipts = r]
    BY <1>2 DEF EvInv, RequestsTyped
  <1>6. p \in Packs
    BY <1>1 DEF Doing, ReadsAreTrue, Making, Chosen
  <1>7. r \in (SUBSET (Event \cup EvidenceEvent)) \cup {None}
    <2>1. audit_events \subseteq Event
      BY DEF EvInv, RelInv, TypeOK
    <2>2. evidence_events \subseteq EvidenceEvent
      BY DEF EvInv, RowsTyped
    <2> QED BY <2>1, <2>2 DEF Downloads
  <1>8. /\ n \in Packs /\ n.of = p.of /\ n.record = p.record /\ n.bundle = p.bundle
        /\ n.manifest = p.manifest /\ n.receipts = r
    BY <1>5, <1>6, <1>7 DEF Packs
  <1>9. ReadsAreTrue(e)'
    <2> HIDE DEF n
    <2>1. /\ n \in Packs /\ n.of \in sent
          /\ n.record # None /\ BothFinal(n.of, n.record)
          /\ n.bundle \in BundleIds \ withdrawn[e] /\ HasBundle(n.of, n.bundle)
          /\ n.manifest = deliverable_bundles[n.bundle].manifest
      BY <1>1, <1>8 DEF Doing, ReadsAreTrue, Making, Chosen
    <2> QED BY <1>1, <1>4, <2>1 DEF n, ReadsAreTrue, OthersStay, tables, HasBundle, BothFinal
  <1>10. FindingsAreTrue(e)'
    BY <1>3, <1>4, <1>8 DEF FindingsAreTrue, Downloads
  <1>11. Doing(e)'
    BY <1>1, <1>3, <1>4, <1>9, <1>10 DEF Doing, ServesIts, PutsAreKept, PassedTheGate, Making,
       Chosen
  <1> QED BY <1>1, <1>2, <1>11, ContinuedQuietly
        DEF EvidenceLabels, Making, Chosen, EvInv, RequestsTyped

LEMMA ReadBundleStatusInd ==
  ASSUME EvInv, NEW e \in EvidenceRequests, ReadBundleStatus(e)
  PROVE  EvInv'
  <1> DEFINE p == pack[e]  n == pack'[e]
  <1>1. /\ at[e] = "status" /\ OthersStay /\ UNCHANGED <<evidenceTables, created>>
        /\ Doing(e) /\ Continue(e, "put_evidence")
    BY DEF ReadBundleStatus, EvInv
  <1>2. PICK s \in {deliverable_bundles[p.bundle].status, None} :
          pack' = [pack EXCEPT ![e] = [p EXCEPT !.bundle_status = s]]
    BY DEF ReadBundleStatus
  <1>3. Revoked' = Revoked /\ \A d : Downloads(d)' = Downloads(d)
    BY <1>1 DEF OthersStay, tables, evidenceTables, Revoked, Row, Downloads
  <1>4. /\ at'[e] = "put_evidence" /\ asked'[e] = asked[e] /\ withdrawn'[e] = withdrawn[e]
    BY <1>1, ContinueEffect DEF EvidenceLabels, Making, Chosen
  <1>5. n = [p EXCEPT !.bundle_status = s]
    BY <1>2 DEF EvInv, RequestsTyped
  <1>6. p \in Packs /\ p.bundle \in BundleIds /\ HasBundle(p.of, p.bundle)
    BY <1>1 DEF Doing, ReadsAreTrue, Making, Chosen
  <1>7. s \in EvidenceStatuses \cup {None}
    BY <1>2, <1>6 DEF EvInv, RelInv, TypeOK, Bundle, HasBundle, EvidenceStatuses
  <1>8. /\ n \in Packs /\ n.of = p.of /\ n.record = p.record /\ n.bundle = p.bundle
        /\ n.manifest = p.manifest /\ n.receipts = p.receipts /\ n.bundle_status = s
    BY <1>5, <1>6, <1>7 DEF Packs
  <1>9. ReadsAreTrue(e)'
    <2> HIDE DEF n
    <2>1. /\ n \in Packs /\ n.of \in sent
          /\ n.record # None /\ BothFinal(n.of, n.record)
          /\ n.bundle \in BundleIds \ withdrawn[e] /\ HasBundle(n.of, n.bundle)
          /\ n.manifest = deliverable_bundles[n.bundle].manifest
      BY <1>1, <1>8 DEF Doing, ReadsAreTrue, Making, Chosen
    <2> QED BY <1>1, <1>4, <2>1 DEF n, ReadsAreTrue, OthersStay, tables, HasBundle, BothFinal
  <1>10. FindingsAreTrue(e)'
    <2>1. p.receipts # None => p.receipts \subseteq Downloads(p.of)
      BY <1>1 DEF Doing, FindingsAreTrue
    <2>2. audit_events' = audit_events /\ evidence_events' = evidence_events
      BY <1>1 DEF OthersStay, tables, evidenceTables
    <2>3. s = "revoked" => deliverable_bundles'[p.bundle].status = "revoked"
      BY <1>1, <1>2, EvidenceAssumption DEF OthersStay, tables, EvidenceStatuses
    <2> QED BY <1>8, <2>1, <2>2, <2>3 DEF FindingsAreTrue, Downloads
  <1>11. Doing(e)'
    BY <1>1, <1>3, <1>4, <1>9, <1>10 DEF Doing, ServesIts, PutsAreKept, PassedTheGate, Making,
       Chosen
  <1> QED BY <1>1, <1>2, <1>11, ContinuedQuietly
        DEF EvidenceLabels, Making, Chosen, EvInv, RequestsTyped

\* A step that stores documents of evidence.
LEMMA Stored ==
  ASSUME EvInv, OthersStay, packs \subseteq packs',
         UNCHANGED <<deliverable_evidence, evidence_events, created>>
  PROVE  RelInv' /\ EvidenceGrows /\ RowsTyped' /\ CreatedExist' /\ RowsAreWhole'
  <1>1. RelInv' /\ Grows /\ audit_events' = audit_events
    BY Undisturbed DEF EvInv, OthersStay, tables
  <1>2. EvidenceGrows
    BY <1>1 DEF EvidenceGrows, Row
  <1>3. RowsTyped'
    BY DEF EvInv, RowsTyped
  <1>4. CreatedExist'
    BY <1>2, CreatedStay DEF CreatedExist, Row
  <1>5. RowsAreWhole'
    BY <1>2, RowsStayWhole DEF Row
  <1> QED BY <1>1, <1>2, <1>3, <1>4, <1>5

LEMMA PutEvidenceInd ==
  ASSUME EvInv, NEW e \in EvidenceRequests, PutEvidence(e)
  PROVE  EvInv'
  <1> DEFINE p == pack[e]
  <1>1. /\ at[e] = "put_evidence" /\ OthersStay /\ Doing(e) /\ packs \subseteq packs'
        /\ UNCHANGED <<deliverable_evidence, evidence_events, created>>
    BY DEF PutEvidence, EvInv
  <1>2. RelInv' /\ EvidenceGrows /\ RowsTyped' /\ CreatedExist' /\ RowsAreWhole'
    BY <1>1, Stored
  <1>3. CASE Reply(e, "denied", None)
    BY <1>2, <1>3, Refused, Together
  <1>4. CASE /\ {p.manifest, Zip(p.manifest), p.record} \subseteq artifacts
             /\ packs' = packs \cup {p} /\ Continue(e, "put_pack") /\ UNCHANGED pack
    <2>1. /\ at'[e] = "put_pack" /\ asked'[e] = asked[e] /\ withdrawn'[e] = withdrawn[e]
      BY <1>4, ContinueEffect DEF EvidenceLabels, Making, Chosen
    <2>2. AloneIn(e) /\ RequestsTyped' /\ RevocationsAreRespected'
      BY <1>4, ContinueEffect DEF EvidenceLabels, Making, Chosen, AloneIn, EvInv, RequestsTyped
    <2>3. Revoked' = Revoked
      BY <1>1 DEF OthersStay, tables, Revoked, Row
    <2>4. ReadsAreTrue(e)'
      BY <1>1, <1>4, <2>1 DEF Doing, ReadsAreTrue, Making, Chosen, OthersStay, tables, HasBundle,
         BothFinal
    <2>5. FindingsAreTrue(e)' /\ PutsAreKept(e)'
      BY <1>1, <1>4, <2>1 DEF Doing, FindingsAreTrue, PutsAreKept, Downloads, OthersStay, tables
    <2>6. Doing(e)'
      BY <1>1, <2>1, <2>3, <2>4, <2>5 DEF Doing, ServesIts, PassedTheGate, Making, Chosen
    <2> QED BY <1>2, <2>2, <2>6, Together
  <1> QED BY <1>3, <1>4 DEF PutEvidence

LEMMA PutPackInd ==
  ASSUME EvInv, NEW e \in EvidenceRequests, PutPack(e)
  PROVE  EvInv'
  <1>1. /\ at[e] = "put_pack" /\ OthersStay /\ Doing(e) /\ packs' = packs \cup {PackZip(pack[e])}
        /\ UNCHANGED <<deliverable_evidence, evidence_events, created>>
        /\ Continue(e, "insert") /\ UNCHANGED pack
    BY DEF PutPack, EvInv
  <1>2. RelInv' /\ EvidenceGrows /\ RowsTyped' /\ CreatedExist' /\ RowsAreWhole'
    BY <1>1, Stored
  <1>3. /\ at'[e] = "insert" /\ asked'[e] = asked[e] /\ withdrawn'[e] = withdrawn[e]
    BY <1>1, ContinueEffect DEF EvidenceLabels, Making, Chosen
  <1>4. AloneIn(e) /\ RequestsTyped' /\ RevocationsAreRespected'
    BY <1>1, ContinueEffect DEF EvidenceLabels, Making, Chosen, AloneIn, EvInv, RequestsTyped
  <1>5. Revoked' = Revoked
    BY <1>1 DEF OthersStay, tables, Revoked, Row
  <1>6. ReadsAreTrue(e)'
    BY <1>1, <1>3 DEF Doing, ReadsAreTrue, Making, Chosen, OthersStay, tables, HasBundle,
         BothFinal
  <1>7. FindingsAreTrue(e)' /\ PutsAreKept(e)'
    BY <1>1, <1>3 DEF Doing, FindingsAreTrue, PutsAreKept, Downloads, OthersStay, tables, PackZip
  <1>8. Doing(e)'
    BY <1>1, <1>3, <1>5, <1>6, <1>7 DEF Doing, ServesIts, PassedTheGate, Making, Chosen
  <1> QED BY <1>2, <1>4, <1>8, Together

LEMMA InsertEvidenceInd ==
  ASSUME EvInv, NEW e \in EvidenceRequests, NEW v \in EvidenceIds, InsertEvidence(e, v)
  PROVE  EvInv'
  <1> DEFINE p == pack[e]
             row == [deliverable |-> p.of, pack |-> p, status |-> "created"]
  <1>1. /\ at[e] = "insert" /\ Row(v) = None /\ OthersStay /\ Doing(e) /\ Reply(e, "ok", p)
        /\ deliverable_evidence' = [deliverable_evidence EXCEPT ![v] = row]
        /\ created' = Append(created, v) /\ UNCHANGED <<packs, evidence_events>>
    BY DEF InsertEvidence, EvInv
  <1>2. RelInv' /\ Grows /\ UNCHANGED <<audit_events, artifacts, deliverables, sent>>
          /\ UNCHANGED deliverable_bundles
    BY <1>1, Undisturbed DEF EvInv, OthersStay, tables
  <1>3. /\ p \in Packs /\ p.of \in sent /\ p.of \in DeliverableIds
        /\ p.record # None /\ BothFinal(p.of, p.record)
        /\ p.bundle \in BundleIds \ withdrawn[e] /\ HasBundle(p.of, p.bundle)
        /\ p.manifest = deliverable_bundles[p.bundle].manifest
    BY <1>1 DEF Doing, ReadsAreTrue, Making, Chosen, Packs
  <1>4. row \in EvidenceRows
    BY <1>3 DEF EvidenceRows, EvidenceStatuses
  <1>5. /\ deliverable_evidence'[v] = row
        /\ \A w \in EvidenceIds \ {v} : deliverable_evidence'[w] = Row(w)
    BY <1>1 DEF EvInv, RowsTyped, Row
  <1>6. EvidenceGrows
    BY <1>1, <1>2, <1>5 DEF EvidenceGrows
  <1>7. RowsTyped'
    <2>1. created' \in Seq(BundleIds \cup EvidenceIds)
      BY <1>1 DEF EvInv, RowsTyped
    <2> QED BY <1>1, <1>4, <2>1 DEF EvInv, RowsTyped
  <1>8. CreatedExist'
    <2>1. row # None
      BY <1>4, EvidenceAssumption
    <2>2. \A i \in 1..Len(created') :
            created'[i] = v \/ (i \in 1..Len(created) /\ created'[i] = created[i])
      BY <1>1 DEF EvInv, RowsTyped
    <2>3. v \notin BundleIds
      BY EvidenceAssumption
    <2> QED BY <1>5, <1>6, <2>1, <2>2, <2>3, CreatedStay DEF CreatedExist, Row
  <1>9. RowIsWhole(v)'
    <2>1. /\ {p, PackZip(p)} \subseteq packs
          /\ {p.manifest, Zip(p.manifest), p.record} \subseteq artifacts
          /\ p.receipts # None => p.receipts \subseteq Downloads(p.of)
          /\ p.bundle_status = "revoked" => deliverable_bundles[p.bundle].status = "revoked"
      BY <1>1 DEF Doing, FindingsAreTrue, PutsAreKept
    <2>2. Row(v)'.pack = p /\ Row(v)'.deliverable = p.of
      BY <1>5 DEF Row
    <2> HIDE DEF row, p
    <2> QED BY <1>1, <1>2, <1>3, <2>1, <2>2 DEF RowIsWhole, HasBundle, Downloads, BothFinal
  <1>10. RowsAreWhole'
    <2>1. \A w \in EvidenceIds \ {v} : Row(w) # None => RowIsWhole(w)'
      BY <1>6, EvidenceRowStays
    <2> QED BY <1>5, <1>9, <2>1 DEF RowsAreWhole, Row
  <1>11. AloneIn(e) /\ RequestsTyped' /\ Doing(e)'
    BY <1>1, EndEffect DEF Reply
  <1>12. RevocationsAreRespected'
    <2>1. asked[e].op = "make"
      BY <1>1 DEF Doing, ServesIts, Making, Chosen
    <2>2. /\ answer'.call = asked[e] /\ answer'.body = p /\ answer'.withdrawn = withdrawn[e]
      BY <1>1 DEF Reply
    <2> QED BY <1>3, <2>1, <2>2 DEF RevocationsAreRespected
  <1> QED BY <1>2, <1>6, <1>7, <1>8, <1>10, <1>11, <1>12, Together

LEMMA ReadEvidenceInd ==
  ASSUME EvInv, NEW e \in EvidenceRequests, ReadEvidence(e)
  PROVE  EvInv'
  <1> DEFINE v == asked[e].evidence
  <1>1. /\ at[e] = "read_evidence" /\ OthersStay /\ UNCHANGED <<evidenceTables, created>>
        /\ Doing(e)
    BY DEF ReadEvidence, EvInv
  <1>2. Revoked' = Revoked
    BY <1>1 DEF OthersStay, tables, evidenceTables, Revoked, Row
  <1>3. asked[e] \in EvidenceCalls /\ asked[e].op = "download"
          /\ withdrawn[e] \subseteq Revoked /\ v \in EvidenceIds
    BY <1>1, EvidenceAssumption DEF Doing, ServesIts
  <1>4. CASE Reply(e, "not_found", None) \/ Reply(e, "denied", None)
    BY <1>1, <1>4, RefusedQuietly
  <1>5. CASE /\ Row(v).status # "revoked" /\ Continue(e, "fetch")
             /\ pack' = [pack EXCEPT ![e] = PackZip(Row(v).pack)]
    <2>1. /\ at'[e] = "fetch" /\ asked'[e] = asked[e] /\ withdrawn'[e] = withdrawn[e]
      BY <1>5, ContinueEffect DEF EvidenceLabels
    <2>2. v \notin withdrawn[e]
      BY <1>3, <1>5, EvidenceAssumption DEF Revoked
    <2>3. Doing(e)'
      BY <1>2, <1>3, <2>1, <2>2 DEF Doing, ServesIts, ReadsAreTrue, FindingsAreTrue,
         PutsAreKept, PassedTheGate, Making, Chosen
    <2> QED BY <1>1, <1>5, <2>3, ContinuedQuietly DEF EvidenceLabels, EvInv, RequestsTyped
  <1> QED BY <1>4, <1>5 DEF ReadEvidence

LEMMA FetchPackInd ==
  ASSUME EvInv, NEW e \in EvidenceRequests, FetchPack(e)
  PROVE  EvInv'
  <1>1. /\ at[e] = "fetch" /\ OthersStay /\ UNCHANGED <<evidenceTables, created>>
        /\ Doing(e)
    BY DEF FetchPack, EvInv
  <1>2. Revoked' = Revoked
    BY <1>1 DEF OthersStay, tables, evidenceTables, Revoked, Row
  <1>3. CASE Reply(e, "not_found", None)
    BY <1>1, <1>3, RefusedQuietly
  <1>4. CASE Continue(e, "emit") /\ UNCHANGED pack
    <2>1. /\ at'[e] = "emit" /\ asked'[e] = asked[e] /\ withdrawn'[e] = withdrawn[e]
      BY <1>4, ContinueEffect DEF EvidenceLabels
    <2>2. Doing(e)'
      BY <1>1, <1>2, <2>1 DEF Doing, ServesIts, ReadsAreTrue, FindingsAreTrue,
         PutsAreKept, PassedTheGate, Making, Chosen
    <2> QED BY <1>1, <1>4, <2>2, ContinuedQuietly DEF EvidenceLabels, EvInv, RequestsTyped
  <1> QED BY <1>3, <1>4 DEF FetchPack

\* A step that revokes some of the evidence, and may revoke bundles.
LEMMA Withdrawn ==
  ASSUME EvInv, RelInv', Grows, UNCHANGED <<audit_events, packs, evidence_events, created>>,
         DOMAIN deliverable_evidence' = EvidenceIds,
         \A v \in EvidenceIds : deliverable_evidence'[v] = Row(v)
           \/ (Row(v) # None /\ deliverable_evidence'[v] = [Row(v) EXCEPT !.status = "revoked"]),
         deliverable_evidence' = [v \in EvidenceIds |-> deliverable_evidence'[v]]
  PROVE  EvidenceGrows /\ RowsTyped' /\ CreatedExist' /\ RowsAreWhole'
  <1>1. EvidenceGrows
    BY DEF EvidenceGrows
  <1>2. RowsTyped'
    <2>1. \A v \in EvidenceIds : deliverable_evidence'[v] \in EvidenceRows \cup {None}
      BY <1>1, EvidenceRowStays DEF EvInv, RowsTyped, Row
    <2> QED BY <2>1 DEF EvInv, RowsTyped
  <1>3. CreatedExist'
    BY <1>1, CreatedStay DEF CreatedExist, Row
  <1>4. RowsAreWhole'
    <2>1. \A v \in EvidenceIds : Row(v) = None => Row(v)' = None
      BY DEF Row
    <2> QED BY <1>1, <2>1, RowsStayWhole
  <1> QED BY <1>1, <1>2, <1>3, <1>4

LEMMA RevokeEvidenceInd ==
  ASSUME EvInv, NEW e \in EvidenceRequests, RevokeEvidence(e)
  PROVE  EvInv'
  <1> DEFINE v == asked[e].evidence
  <1>1. /\ at[e] = "revoke" /\ OthersStay /\ Doing(e)
        /\ UNCHANGED <<packs, evidence_events, created>>
    BY DEF RevokeEvidence, EvInv
  <1>2. asked[e] \in EvidenceCalls /\ asked[e].op = "revoke"
          /\ withdrawn[e] \subseteq Revoked /\ v \in EvidenceIds
    BY <1>1, EvidenceAssumption DEF Doing, ServesIts
  <1>3. CASE Reply(e, "not_found", None) /\ UNCHANGED deliverable_evidence
    BY <1>1, <1>3, RefusedQuietly DEF evidenceTables
  <1>4. CASE /\ HasEvidence(asked[e].deliverable, v)
             /\ deliverable_evidence' = [deliverable_evidence EXCEPT ![v] =
                  [Row(v) EXCEPT !.status = "revoked"]]
             /\ Continue(e, "emit") /\ UNCHANGED pack
    <2>1. /\ at'[e] = "emit" /\ asked'[e] = asked[e] /\ withdrawn'[e] = withdrawn[e]
      BY <1>4, ContinueEffect DEF EvidenceLabels
    <2>2. AloneIn(e) /\ RequestsTyped' /\ RevocationsAreRespected'
      BY <1>4, ContinueEffect DEF EvidenceLabels, AloneIn, EvInv, RequestsTyped
    <2>3. Row(v) # None
      BY <1>4 DEF HasEvidence
    <2>4. /\ deliverable_evidence'[v] = [Row(v) EXCEPT !.status = "revoked"]
          /\ \A w \in EvidenceIds \ {v} : deliverable_evidence'[w] = Row(w)
          /\ DOMAIN deliverable_evidence' = EvidenceIds
          /\ deliverable_evidence' = [w \in EvidenceIds |-> deliverable_evidence'[w]]
      BY <1>2, <1>4 DEF EvInv, RowsTyped, Row
    <2>5. RelInv' /\ Grows /\ UNCHANGED audit_events
      BY <1>1, Undisturbed DEF EvInv, OthersStay, tables
    <2>6. EvidenceGrows /\ RowsTyped' /\ CreatedExist' /\ RowsAreWhole'
      BY <1>1, <2>3, <2>4, <2>5, Withdrawn
    <2>7. deliverable_evidence'[v] # None /\ deliverable_evidence'[v].status = "revoked"
      BY <1>2, <2>3, <2>4, <2>6, EvidenceRowStays DEF EvInv, RowsTyped, Row, EvidenceRows
    <2>8. Doing(e)'
      BY <1>2, <2>1, <2>6, <2>7, RevokedStays DEF Doing, ServesIts, ReadsAreTrue,
         FindingsAreTrue, PutsAreKept, PassedTheGate, Making, Chosen, Row
    <2> QED BY <2>2, <2>5, <2>6, <2>8, Together
  <1> QED BY <1>3, <1>4 DEF RevokeEvidence

LEMMA EmitEvidenceInd ==
  ASSUME EvInv, NEW e \in EvidenceRequests, EmitEvidence(e)
  PROVE  EvInv'
  <1> DEFINE c == asked[e]
             event == [op |-> c.op, deliverable |-> c.deliverable, evidence |-> c.evidence]
  <1>1. /\ at[e] = "emit" /\ OthersStay /\ Doing(e) /\ Reply(e, "ok", pack[e])
        /\ evidence_events' \in {evidence_events, evidence_events \cup {event}}
        /\ UNCHANGED <<deliverable_evidence, packs, created>>
    BY DEF EmitEvidence, EvInv
  <1>2. c \in EvidenceCalls /\ c.op \in {"download", "revoke"}
    BY <1>1 DEF Doing, ServesIts
  <1>3. RelInv' /\ Grows /\ UNCHANGED audit_events
    BY <1>1, Undisturbed DEF EvInv, OthersStay, tables
  <1>4. EvidenceGrows
    BY <1>1, <1>3 DEF EvidenceGrows, Row
  <1>5. RowsTyped'
    <2>1. event \in EvidenceEvent
      BY <1>2, EvidenceAssumption DEF EvidenceEvent
    <2> QED BY <1>1, <2>1 DEF EvInv, RowsTyped
  <1>6. CreatedExist'
    BY <1>1, <1>4, CreatedStay DEF CreatedExist, Row
  <1>7. RowsAreWhole'
    BY <1>1, <1>4, RowsStayWhole DEF Row
  <1>8. AloneIn(e) /\ RequestsTyped' /\ Doing(e)'
    BY <1>1, EndEffect DEF Reply
  <1>9. RevocationsAreRespected'
    <2>1. answer'.call = c /\ answer'.withdrawn = withdrawn[e]
      BY <1>1 DEF Reply
    <2>2. /\ c.op = "download" => c.evidence \notin withdrawn[e]
          /\ c.op = "revoke" => Row(c.evidence).status = "revoked"
      BY <1>1 DEF Doing, PassedTheGate
    <2>3. c.op = "revoke" => deliverable_evidence'[c.evidence].status = "revoked"
      BY <1>1, <2>2 DEF Row
    <2> QED BY <1>2, <2>1, <2>2, <2>3 DEF RevocationsAreRespected, Row
  <1> QED BY <1>3, <1>4, <1>5, <1>6, <1>7, <1>8, <1>9, Together

LEMMA SweepInd ==
  ASSUME EvInv, Sweep
  PROVE  EvInv'
  <1>1. PICK older \in Before(EvidenceIds \ Revoked) :
          deliverable_evidence' = [v \in EvidenceIds |->
            IF v \in older THEN [Row(v) EXCEPT !.status = "revoked"] ELSE Row(v)]
    BY DEF Sweep
  <1>2. /\ UNCHANGED <<audit_events, packs, evidence_events, created>>
        /\ UNCHANGED <<at, asked, pack, withdrawn>> /\ answer' = None
    BY DEF Sweep
  <1>3. RelInv' /\ Grows
    BY SweepKeepsRelease
  <1>4. \A v \in older : Row(v) # None
    BY SweptEvidence
  <1>5. EvidenceGrows /\ RowsTyped' /\ CreatedExist' /\ RowsAreWhole'
    BY <1>1, <1>2, <1>3, <1>4, Withdrawn
  <1>6. RequestsTyped' /\ RevocationsAreRespected'
    BY <1>2 DEF EvInv, RequestsTyped, RevocationsAreRespected
  <1>7. \A e \in EvidenceRequests : Doing(e)'
    BY <1>2, <1>5, DoingStays
  <1> QED BY <1>3, <1>5, <1>6, <1>7 DEF EvInv

LEMMA ReleaseStepInd ==
  ASSUME EvInv, ReleaseStep
  PROVE  EvInv'
  <1>1. /\ Next /\ UNCHANGED evidenceTables /\ UNCHANGED <<at, asked, pack, withdrawn>>
        /\ answer' = None
    BY DEF ReleaseStep
  <1>2. RelInv' /\ Grows /\ audit_events \subseteq audit_events'
    BY <1>1, NextInd, LogGrows DEF EvInv
  <1>3. EvidenceGrows
    BY <1>1, <1>2 DEF EvidenceGrows, evidenceTables, Row
  <1>4. created' = created \/ \E b \in BundleIds :
          deliverable_bundles'[b].status # "absent" /\ created' = Append(created, b)
    BY DEF ReleaseStep
  <1>5. RowsTyped'
    <2>1. created' \in Seq(BundleIds \cup EvidenceIds)
      BY <1>4 DEF EvInv, RowsTyped
    <2> QED BY <1>1, <2>1 DEF EvInv, RowsTyped, evidenceTables
  <1>6. CreatedExist'
    <2>1. CASE created' = created
      BY <1>3, <2>1, CreatedStay DEF CreatedExist, Row
    <2>2. ASSUME NEW b \in BundleIds, deliverable_bundles'[b].status # "absent",
                 created' = Append(created, b)
          PROVE  CreatedExist'
      <3>1. \A i \in 1..Len(created') :
              created'[i] = b \/ (i \in 1..Len(created) /\ created'[i] = created[i])
        BY <2>2 DEF EvInv, RowsTyped
      <3>2. b \notin EvidenceIds
        BY EvidenceAssumption
      <3> QED BY <1>3, <2>2, <3>1, <3>2, CreatedStay DEF CreatedExist, Row
    <2> QED BY <1>4, <2>1, <2>2
  <1>7. RowsAreWhole'
    BY <1>1, <1>3, RowsStayWhole DEF evidenceTables, Row
  <1>8. RequestsTyped' /\ RevocationsAreRespected'
    BY <1>1 DEF EvInv, RequestsTyped, RevocationsAreRespected
  <1>9. \A e \in EvidenceRequests : Doing(e)'
    BY <1>1, <1>3, DoingStays
  <1> QED BY <1>2, <1>5, <1>6, <1>7, <1>8, <1>9 DEF EvInv

LEMMA EvidenceNextInd ==
  ASSUME EvInv, [EvidenceNext]_<<vars, evidenceVars>>
  PROVE  EvInv'
  <1>1. CASE ReleaseStep \/ Sweep
    BY <1>1, ReleaseStepInd, SweepInd
  <1>2. ASSUME NEW e \in EvidenceRequests, \E c \in EvidenceCalls : Ask(e, c)
        PROVE  EvInv'
    BY <1>2, AskInd
  <1>3. ASSUME NEW e \in EvidenceRequests, EvidenceStep(e)
        PROVE  EvInv'
    BY <1>3, DropInd, ReadSentInd, ReadNewestInd, CheckBundleInd, ReadReceiptsInd,
       ReadBundleStatusInd, PutEvidenceInd, PutPackInd, InsertEvidenceInd, ReadEvidenceInd,
       FetchPackInd, RevokeEvidenceInd, EmitEvidenceInd DEF EvidenceStep
  <1>4. CASE UNCHANGED <<vars, evidenceVars>>
    <2>1. /\ UNCHANGED vars /\ UNCHANGED evidenceTables
          /\ UNCHANGED <<created, at, asked, pack, answer, withdrawn>>
      BY <1>4 DEF evidenceVars, requestVars
    <2>2. RelInv' /\ Grows
      BY <2>1, NextInd DEF EvInv
    <2>3. EvidenceGrows
      BY <2>1, <2>2 DEF EvidenceGrows, evidenceTables, Row, vars, tables
    <2>4. RowsTyped' /\ RequestsTyped'
      BY <2>1 DEF EvInv, RowsTyped, RequestsTyped, evidenceTables
    <2>5. CreatedExist' /\ RowsAreWhole'
      BY <2>1, <2>3, CreatedStay, RowsStayWhole DEF CreatedExist, Row, evidenceTables
    <2>6. RevocationsAreRespected'
      BY <2>1 DEF EvInv, RevocationsAreRespected, Row, evidenceTables
    <2>7. \A e \in EvidenceRequests : Doing(e)'
      BY <2>1, <2>3, DoingStays
    <2> QED BY <2>2, <2>4, <2>5, <2>6, <2>7 DEF EvInv
  <1> QED BY <1>1, <1>2, <1>3, <1>4 DEF EvidenceNext

-----------------------------------------------------------------------------
(* The theorems.                                                           *)

\* EvInv, and with it the invariant of Release, holds in every reachable state.
THEOREM EvidenceInductive == EvidenceSpec => []EvInv
  <1>1. EvInv /\ [EvidenceNext]_<<vars, evidenceVars>> => EvInv'
    BY EvidenceNextInd
  <1> QED BY InitEvidence, <1>1, PTL DEF EvidenceSpec

\* create_evidence: what its reads, each of another moment, put together is
\* true and complete when the row is there, and for ever after; a finalize that
\* spells the id in another way at most replaces the record by its own.
THEOREM EvidenceStaysWhole == EvidenceSpec => []EvidenceIsWhole
  <1>1. EvInv => EvidenceIsWhole
    <2> SUFFICES ASSUME EvInv, NEW v \in EvidenceIds, Row(v) # None
                 PROVE  LET p == Row(v).pack  b == deliverable_bundles[p.bundle] IN
                        /\ {p, PackZip(p)} \subseteq packs
                        /\ {p.manifest, Zip(p.manifest), p.record} \subseteq artifacts
                        /\ p.of = Row(v).deliverable /\ p.of \in sent
                        /\ b.deliverable = p.of /\ b.manifest = p.manifest
                        /\ {p.record, deliverables[p.of].record} \subseteq FinalRecords(p.of)
                        /\ p.receipts # None => p.receipts \subseteq Downloads(p.of)
                        /\ p.bundle_status = "revoked" => b.status = "revoked"
      BY DEF EvidenceIsWhole
    <2> DEFINE p == Row(v).pack
    <2>1. RowIsWhole(v)
      BY DEF EvInv, RowsAreWhole
    <2> QED BY <2>1 DEF RowIsWhole, HasBundle, BothFinal
  <1> QED BY EvidenceInductive, <1>1, PTL

\* download_evidence, create_evidence and the sweep: what was revoked before a
\* call came is neither delivered nor certified by its answer.
THEOREM RevokedEvidenceStaysOut == EvidenceSpec => []RevocationsAreRespected
  <1>1. EvInv => RevocationsAreRespected
    BY DEF EvInv
  <1> QED BY EvidenceInductive, <1>1, PTL

\* The sweep and the steps about evidence leave Release's promises intact.
THEOREM ReleaseSurvivesSweeps ==
  EvidenceSpec => [](BundlesAreWhole /\ RevokedStaysOut /\ RecordsSayFinal /\ LogIsTrue)
  <1>1. EvInv => BundlesAreWhole /\ RevokedStaysOut /\ RecordsSayFinal /\ LogIsTrue
    BY DEF EvInv, RelInv, Tables, RepliesHold
  <1> QED BY EvidenceInductive, <1>1, PTL
=============================================================================
