------------------------------ MODULE Release -------------------------------
(***************************************************************************)
(* From a finished run to a delivered bundle: the handlers of the gateway  *)
(* that create, finalize, send and supersede deliverables, build, revoke   *)
(* and download bundles, and their idempotency keys, for one tenant.       *)
(*                                                                         *)
(* A handler is a sequence of short transactions; each is one action, with *)
(* the local computation up to the next, and requests interleave between   *)
(* them.  A request may end at every label without an answer: the process  *)
(* dies, or the database refuses a statement.  A sha256 is represented by  *)
(* the document it names.                                                  *)
(***************************************************************************)

CONSTANTS
  Requests,        \* slots of the server, each serves one call after another
  DeliverableIds,  \* uuid4 values
  BundleIds,       \* uuid4 values
  Keys,            \* values of the Idempotency-Key header
  Spellings,       \* ways to write a uuid that Postgres reads as the same one
  Calls,           \* the calls that clients make
  None             \* NULL, and a header that is not there

Statuses == {"draft", "final", "sent", "superseded"}
Operations == {"create", "finalize", "mark_sent", "supersede",
               "bundle", "download", "revoke"}

(***************************************************************************)
(* deliverable and bundle are what the URL names, where it does; status    *)
(* and supersedes come from the payload, and accepted says that            *)
(* create_deliverable finds nothing wrong with it (the run is given and    *)
(* exists, the status is one of the four).  spelling is how the URL writes *)
(* the id of the deliverable.                                              *)
(***************************************************************************)
CallType ==
  [op : Operations, deliverable : DeliverableIds \cup {None}, spelling : Spellings,
   bundle : BundleIds \cup {None}, key : Keys \cup {None}, accepted : BOOLEAN, status : Statuses,
   supersedes : DeliverableIds \cup {None}]

(***************************************************************************)
(* deliverable_record-v1, deliverable_manifest-v1 and the zip around a     *)
(* manifest.  Columns of type UUID do not keep a spelling; a document that *)
(* is made of the URL's deliverable_id does.                               *)
(***************************************************************************)
Record(d, spelling, s) == [record_of |-> d, spelling |-> spelling, status |-> s]
Records == [record_of : DeliverableIds, spelling : Spellings, status : Statuses]
Manifest(d, spelling, s, rec) ==
  [manifest_of |-> d, spelling |-> spelling, status |-> s, record |-> rec]
Manifests == [manifest_of : DeliverableIds, spelling : Spellings,
              status : {"final", "sent"}, record : Records \cup {None}]
Zip(m) == [zip_of |-> m]
Zips == [zip_of : Manifests]

ASSUME ReleaseAssumption ==
  /\ Calls \subseteq CallType
  /\ \A c \in Calls :
       /\ c.op # "create" => c.deliverable \in DeliverableIds
       /\ c.op \in {"download", "revoke"} => c.bundle \in BundleIds
  /\ None \notin DeliverableIds \cup BundleIds \cup Keys \cup Records \cup Calls

VARIABLES
  deliverables,         \* id -> row
  deliverable_bundles,  \* id -> row
  idempotency_keys,     \* rows
  audit_events,         \* the logged events, without denials
  artifacts,            \* stored documents
  pc,                   \* request -> label of its next transaction
  call,                 \* request -> the call it serves
  hand,                 \* request -> the document or answer it holds
  reply,                \* the answer that the last step gave, if it gave one
  late,                 \* history: request -> too late to succeed or to act
  sent                  \* history: deliverables that have been sent

tables == <<deliverables, deliverable_bundles, idempotency_keys, audit_events, artifacts>>
vars == <<tables, pc, call, hand, reply, late, sent>>

Deliverable ==
  [status : Statuses \cup {"absent"}, docx : BOOLEAN,
   supersedes : DeliverableIds \cup {None}, record : Records \cup {None}]
Bundle ==
  [status : {"absent", "created", "revoked"},
   deliverable : DeliverableIds \cup {None}, manifest : Manifests \cup {None}]
StoredAnswer ==
  [key : Keys, op : Operations, deliverable : DeliverableIds, spelling : Spellings,
   answer : Records]
Codes == {"ok", "not_found", "denied", "invalid", "error"}
Event == [op : {"download", "revoke"}, deliverable : DeliverableIds, bundle : BundleIds]

Labels == {"idle", "lookup", "create", "mark_final", "put_record", "point", "store",
           "mark_sent", "mark_superseded", "read_for_bundle", "put_manifest",
           "put_zip", "insert_bundle", "read_status", "read_bundle", "fetch",
           "revoke", "emit", "raise"}

Exists(d) == deliverables[d].status # "absent"
HasBundle(d, b) ==
  deliverable_bundles[b].status # "absent" /\ deliverable_bundles[b].deliverable = d

-----------------------------------------------------------------------------
(* Calls and answers.                                                      *)

FirstLabel == [create |-> "create", finalize |-> "mark_final", mark_sent |-> "mark_sent",
               supersede |-> "mark_superseded", bundle |-> "read_for_bundle",
               download |-> "read_status", revoke |-> "revoke"]

(***************************************************************************)
(* Three handlers read the key first.  In create_deliverable that line     *)
(* uses the local variable tenant before its assignment, and raises.       *)
(***************************************************************************)
Entry(c) ==
  IF c.key = None \/ c.op \notin {"create", "finalize", "bundle"} THEN FirstLabel[c.op]
  ELSE IF c.op = "create" THEN "raise"
  ELSE "lookup"

Goto(q, label) ==
  /\ pc' = [pc EXCEPT ![q] = label]
  /\ reply' = None
  /\ UNCHANGED <<call, late>>

Keep(q, x) == hand' = [hand EXCEPT ![q] = x]

Leave(q) ==
  /\ pc' = [pc EXCEPT ![q] = "idle"]
  /\ call' = [call EXCEPT ![q] = None]
  /\ hand' = [hand EXCEPT ![q] = None]
  /\ late' = [late EXCEPT ![q] = FALSE]

Answer(q, code, body) ==
  /\ reply' = [call |-> call[q], code |-> code, body |-> body, late |-> late[q]]
  /\ Leave(q)

\* The path is compared as a text.
StoredFor(c) == {e \in idempotency_keys :
  /\ e.key = c.key /\ e.op = c.op
  /\ e.deliverable = c.deliverable /\ e.spelling = c.spelling}

\* The row that store_response writes for c.
AnswerRow(c, answer) ==
  [key |-> c.key, op |-> c.op, deliverable |-> c.deliverable, spelling |-> c.spelling,
   answer |-> answer]

-----------------------------------------------------------------------------

Init ==
  /\ deliverables = [d \in DeliverableIds |->
       [status |-> "absent", docx |-> FALSE, supersedes |-> None, record |-> None]]
  /\ deliverable_bundles = [b \in BundleIds |->
       [status |-> "absent", deliverable |-> None, manifest |-> None]]
  /\ idempotency_keys = {}
  /\ audit_events = {}
  /\ artifacts = {}
  /\ pc = [q \in Requests |-> "idle"]
  /\ call = [q \in Requests |-> None]
  /\ hand = [q \in Requests |-> None]
  /\ reply = None
  /\ late = [q \in Requests |-> FALSE]
  /\ sent = {}

(***************************************************************************)
(* A client calls, for the first time or again after it got no answer.     *)
(* late: the bundle to download has been revoked, or the key has its       *)
(* stored answer, before the call arrives.                                 *)
(***************************************************************************)
Receive(q, c) ==
  /\ pc[q] = "idle"
  /\ call' = [call EXCEPT ![q] = c]
  /\ pc' = [pc EXCEPT ![q] = Entry(c)]
  /\ reply' = None
  /\ late' = [late EXCEPT ![q] =
       \/ StoredFor(c) # {}
       \/ c.op = "download" /\ deliverable_bundles[c.bundle].status = "revoked"]
  /\ UNCHANGED <<tables, hand, sent>>

(***************************************************************************)
(* No answer: the process died, the connection failed, or the database     *)
(* refused the statement (the INSERT of put_artifact, when another request *)
(* puts the same document).                                                *)
(***************************************************************************)
Lose(q) ==
  /\ pc[q] # "idle"
  /\ reply' = None
  /\ Leave(q)
  /\ UNCHANGED <<tables, sent>>

\* Where the code raises on every path, which the server answers with a 500.
Raise(q) ==
  /\ pc[q] = "raise"
  /\ Answer(q, "error", None)
  /\ UNCHANGED <<tables, sent>>

-----------------------------------------------------------------------------
(* Idempotency keys.                                                       *)

\* Variant: the path is not part of the key.
LookupByKey(q) ==
  /\ pc[q] = "lookup"
  /\ IF \E e \in idempotency_keys : e.key = call[q].key
     THEN \E e \in idempotency_keys : e.key = call[q].key /\ Answer(q, "ok", e.answer)
     ELSE Goto(q, FirstLabel[call[q].op]) /\ UNCHANGED hand
  /\ UNCHANGED <<tables, sent>>

\* Variant: answers are stored and looked up under different paths.
LookupElsewhere(q) ==
  /\ pc[q] = "lookup"
  /\ Goto(q, FirstLabel[call[q].op])
  /\ UNCHANGED <<tables, hand, sent>>

\* lookup_response; a hit is answered with the stored answer.
Lookup(q) ==
  /\ pc[q] = "lookup"
  /\ \/ \E e \in StoredFor(call[q]) : Answer(q, "ok", e.answer)
     \/ /\ StoredFor(call[q]) = {}
        /\ Goto(q, FirstLabel[call[q].op])
        /\ UNCHANGED hand
  /\ UNCHANGED <<tables, sent>>

(***************************************************************************)
(* store_response: INSERT ... ON CONFLICT DO NOTHING.  Afterwards          *)
(* finalize_deliverable emits an event with the row's pipeline_run_id, a   *)
(* uuid.UUID that json.dumps refuses: emit_event always raises.            *)
(***************************************************************************)
StoreResponse(q) ==
  /\ pc[q] = "store"
  /\ idempotency_keys' = idempotency_keys \cup
       (IF StoredFor(call[q]) # {} THEN {} ELSE {AnswerRow(call[q], hand[q])})
  /\ Goto(q, "raise")
  /\ UNCHANGED <<deliverables, deliverable_bundles, audit_events, artifacts, hand, sent>>

-----------------------------------------------------------------------------
(* Deliverables.                                                           *)

SetStatus(d, s) ==
  /\ deliverables' = [deliverables EXCEPT ![d].status = s]
  /\ sent' = (IF s = "sent" THEN sent \cup {d} ELSE sent)

(***************************************************************************)
(* create_deliverable without a key; supersede calls it with               *)
(* supersedes_deliverable_id set.  docx: whether the output of stage 6,    *)
(* given or found, leads to a document.                                    *)
(***************************************************************************)
Supersedes(c) == IF c.op = "supersede" THEN c.deliverable ELSE c.supersedes

Create(q, d, docx) ==
  /\ pc[q] = "create"
  /\ IF call[q].accepted
     THEN /\ ~Exists(d)
          /\ deliverables' = [deliverables EXCEPT ![d] =
               [status |-> call[q].status, docx |-> docx,
                supersedes |-> Supersedes(call[q]), record |-> None]]
          /\ sent' = (IF call[q].status = "sent" THEN sent \cup {d} ELSE sent)
          /\ Answer(q, "ok", d)
     ELSE /\ Answer(q, "invalid", None)
          /\ UNCHANGED <<deliverables, sent>>
  /\ UNCHANGED <<deliverable_bundles, idempotency_keys, audit_events, artifacts>>

\* UPDATE ... SET status RETURNING, and what becomes of a row that is not there.
Transition(q, s, label) ==
  /\ IF Exists(call[q].deliverable)
     THEN SetStatus(call[q].deliverable, s) /\ Goto(q, label)
     ELSE Answer(q, "not_found", None) /\ UNCHANGED <<deliverables, sent>>
  /\ UNCHANGED <<deliverable_bundles, idempotency_keys, audit_events, artifacts>>

\* The record is made of what RETURNING gave, so that its status is 'final',
\* and of the id in the URL.
MarkFinal(q) ==
  /\ pc[q] = "mark_final"
  /\ Transition(q, "final", "put_record")
  /\ Exists(call[q].deliverable) =>
       Keep(q, Record(call[q].deliverable, call[q].spelling, "final"))

\* Variant: the record is made of a row read again.
PutRecordOfNow(q) ==
  LET record == Record(call[q].deliverable, call[q].spelling,
                       deliverables[call[q].deliverable].status) IN
  /\ pc[q] = "put_record"
  /\ artifacts' = artifacts \cup {record}
  /\ Keep(q, record)
  /\ Goto(q, "point")
  /\ UNCHANGED <<deliverables, deliverable_bundles, idempotency_keys, audit_events, sent>>

\* Variant: the pointer and the answer are written first.
PutRecordAfterStore(q) ==
  /\ pc[q] = "put_record"
  /\ idempotency_keys' = idempotency_keys \cup
       (IF call[q].key = None \/ StoredFor(call[q]) # {} THEN {}
        ELSE {AnswerRow(call[q], hand[q])})
  /\ artifacts' = artifacts \cup {hand[q]}
  /\ Goto(q, "point")
  /\ UNCHANGED <<deliverables, deliverable_bundles, audit_events, hand, sent>>

PutRecord(q) ==
  /\ pc[q] = "put_record"
  /\ artifacts' = artifacts \cup {hand[q]}
  /\ Goto(q, "point")
  /\ UNCHANGED <<deliverables, deliverable_bundles, idempotency_keys, audit_events, hand, sent>>

\* The second UPDATE, of deliverable_record_sha256 alone.
Point(q) ==
  /\ pc[q] = "point"
  /\ deliverables' = [deliverables EXCEPT ![call[q].deliverable].record = hand[q]]
  /\ Goto(q, IF call[q].key = None THEN "raise" ELSE "store")
  /\ UNCHANGED <<deliverable_bundles, idempotency_keys, audit_events, artifacts, hand, sent>>

\* No condition on the status it had.
MarkSent(q) ==
  /\ pc[q] = "mark_sent"
  /\ IF Exists(call[q].deliverable)
     THEN SetStatus(call[q].deliverable, "sent") /\ Answer(q, "ok", call[q].deliverable)
     ELSE Answer(q, "not_found", None) /\ UNCHANGED <<deliverables, sent>>
  /\ UNCHANGED <<deliverable_bundles, idempotency_keys, audit_events, artifacts>>

\* supersede commits this before it calls create_deliverable, which raises
\* if there is a key and may refuse the payload.
MarkSuperseded(q) ==
  /\ pc[q] = "mark_superseded"
  /\ Transition(q, "superseded", IF call[q].key = None THEN "create" ELSE "raise")
  /\ Exists(call[q].deliverable) => UNCHANGED hand

-----------------------------------------------------------------------------
(* Bundles.                                                                *)

\* Variant: any deliverable with a document can be bundled.
ReadForBundleUngated(q) ==
  LET d == call[q].deliverable IN
  /\ pc[q] = "read_for_bundle"
  /\ IF ~Exists(d) THEN Answer(q, "not_found", None)
     ELSE IF ~deliverables[d].docx THEN Answer(q, "denied", None)
     ELSE /\ Keep(q, Manifest(d, call[q].spelling, deliverables[d].status, deliverables[d].record))
          /\ Goto(q, "put_manifest")
  /\ UNCHANGED <<tables, sent>>

(***************************************************************************)
(* One SELECT; from here on the handler uses what it read.  The bundle     *)
(* closes over the run's artifacts and the record, if there is one yet.    *)
(***************************************************************************)
ReadForBundle(q) ==
  LET d == call[q].deliverable
      row == deliverables[d]
  IN /\ pc[q] = "read_for_bundle"
     /\ IF ~Exists(d) \/ row.record \notin artifacts \cup {None}
        THEN Answer(q, "not_found", None)
        ELSE IF ~row.docx \/ row.status \notin {"final", "sent"}
        THEN Answer(q, "denied", None)
        ELSE Keep(q, Manifest(d, call[q].spelling, row.status, row.record)) /\ Goto(q, "put_manifest")
     /\ UNCHANGED <<tables, sent>>

PutManifest(q) ==
  /\ pc[q] = "put_manifest"
  /\ artifacts' = artifacts \cup {hand[q]}
  /\ Goto(q, "put_zip")
  /\ UNCHANGED <<deliverables, deliverable_bundles, idempotency_keys, audit_events, hand, sent>>

PutZip(q) ==
  /\ pc[q] = "put_zip"
  /\ artifacts' = artifacts \cup {Zip(hand[q])}
  /\ Goto(q, "insert_bundle")
  /\ UNCHANGED <<deliverables, deliverable_bundles, idempotency_keys, audit_events, hand, sent>>

\* Variant: a bundle built again is valid again.
InsertBundleAgain(q, b) ==
  LET d == call[q].deliverable IN
  /\ pc[q] = "insert_bundle"
  /\ \/ deliverable_bundles[b].status = "absent"
     \/ HasBundle(d, b) /\ deliverable_bundles[b].manifest = hand[q]
  /\ deliverable_bundles' = [deliverable_bundles EXCEPT ![b] =
       [status |-> "created", deliverable |-> d, manifest |-> hand[q]]]
  /\ Answer(q, "ok", b)
  /\ UNCHANGED <<deliverables, idempotency_keys, audit_events, artifacts, sent>>

(***************************************************************************)
(* UNIQUE (deliverable_id, manifest_artifact_sha256).  The handler looks   *)
(* its key up but stores no answer.                                        *)
(***************************************************************************)
InsertBundle(q, b) ==
  LET d == call[q].deliverable IN
  /\ pc[q] = "insert_bundle"
  /\ IF \E x \in BundleIds : HasBundle(d, x) /\ deliverable_bundles[x].manifest = hand[q]
     THEN Answer(q, "error", None) /\ UNCHANGED deliverable_bundles
     ELSE /\ deliverable_bundles[b].status = "absent"
          /\ deliverable_bundles' = [deliverable_bundles EXCEPT ![b] =
               [status |-> "created", deliverable |-> d, manifest |-> hand[q]]]
          /\ Answer(q, "ok", b)
  /\ UNCHANGED <<deliverables, idempotency_keys, audit_events, artifacts, sent>>

-----------------------------------------------------------------------------
(* Revocation and download.                                                *)

\* Variant: a revoked bundle is revoked again.
RevokeAny(q) ==
  LET c == call[q] IN
  /\ pc[q] = "revoke"
  /\ IF HasBundle(c.deliverable, c.bundle)
     THEN /\ deliverable_bundles' = [deliverable_bundles EXCEPT ![c.bundle].status = "revoked"]
          /\ Keep(q, c.bundle) /\ Goto(q, "emit")
     ELSE /\ Answer(q, "not_found", None)
          /\ UNCHANGED deliverable_bundles
  /\ UNCHANGED <<deliverables, idempotency_keys, audit_events, artifacts, sent>>

Revoke(q) ==
  LET c == call[q] IN
  /\ pc[q] = "revoke"
  /\ IF HasBundle(c.deliverable, c.bundle) /\ deliverable_bundles[c.bundle].status # "revoked"
     THEN /\ deliverable_bundles' = [deliverable_bundles EXCEPT ![c.bundle].status = "revoked"]
          /\ Keep(q, c.bundle) /\ Goto(q, "emit")
     ELSE /\ Answer(q, "not_found", None)
          /\ UNCHANGED deliverable_bundles
  /\ UNCHANGED <<deliverables, idempotency_keys, audit_events, artifacts, sent>>

\* Variant: the policy of the bundle handler, final or sent.
ReadStatusFinal(q) ==
  LET d == call[q].deliverable IN
  /\ pc[q] = "read_status"
  /\ IF ~Exists(d) THEN Answer(q, "not_found", None)
     ELSE IF deliverables[d].status \notin {"final", "sent"} THEN Answer(q, "denied", None)
     ELSE Goto(q, "read_bundle") /\ UNCHANGED hand
  /\ UNCHANGED <<tables, sent>>

\* Two SELECTs on one connection, each with its own snapshot.
ReadStatus(q) ==
  LET d == call[q].deliverable IN
  /\ pc[q] = "read_status"
  /\ IF ~Exists(d) THEN Answer(q, "not_found", None)
     ELSE IF deliverables[d].status # "sent" THEN Answer(q, "denied", None)
     ELSE Goto(q, "read_bundle") /\ UNCHANGED hand
  /\ UNCHANGED <<tables, sent>>

\* Variant: the status of the bundle is not looked at.
ReadBundleUnchecked(q) ==
  LET c == call[q] IN
  /\ pc[q] = "read_bundle"
  /\ IF ~HasBundle(c.deliverable, c.bundle) THEN Answer(q, "not_found", None)
     ELSE Keep(q, deliverable_bundles[c.bundle].manifest) /\ Goto(q, "fetch")
  /\ UNCHANGED <<tables, sent>>

ReadBundle(q) ==
  LET c == call[q] IN
  /\ pc[q] = "read_bundle"
  /\ IF ~HasBundle(c.deliverable, c.bundle) THEN Answer(q, "not_found", None)
     ELSE IF deliverable_bundles[c.bundle].status = "revoked" THEN Answer(q, "denied", None)
     ELSE Keep(q, deliverable_bundles[c.bundle].manifest) /\ Goto(q, "fetch")
  /\ UNCHANGED <<tables, sent>>

Fetch(q) ==
  /\ pc[q] = "fetch"
  /\ IF Zip(hand[q]) \in artifacts THEN Keep(q, Zip(hand[q])) /\ Goto(q, "emit")
     ELSE Answer(q, "not_found", None)
  /\ UNCHANGED <<tables, sent>>

\* _emit_event_if_available: a failure of emit_event changes nothing else.
\* (Denials are logged in the same way; their events are left out.)
Emit(q) ==
  /\ pc[q] = "emit"
  /\ \/ audit_events' = audit_events \cup
          {[op |-> call[q].op, deliverable |-> call[q].deliverable, bundle |-> call[q].bundle]}
     \/ UNCHANGED audit_events
  /\ Answer(q, "ok", hand[q])
  /\ UNCHANGED <<deliverables, deliverable_bundles, idempotency_keys, artifacts, sent>>

-----------------------------------------------------------------------------

Step(q) ==
  \/ Lookup(q) \/ StoreResponse(q) \/ Raise(q) \/ Lose(q)
  \/ \E d \in DeliverableIds, docx \in BOOLEAN : Create(q, d, docx)
  \/ MarkFinal(q) \/ PutRecord(q) \/ Point(q)
  \/ MarkSent(q) \/ MarkSuperseded(q)
  \/ ReadForBundle(q) \/ PutManifest(q) \/ PutZip(q)
  \/ \E b \in BundleIds : InsertBundle(q, b)
  \/ Revoke(q) \/ ReadStatus(q) \/ ReadBundle(q) \/ Fetch(q) \/ Emit(q)

Next == \E q \in Requests :
  \/ \E c \in Calls : Receive(q, c)
  \/ Step(q)

Spec == Init /\ [][Next]_vars

-----------------------------------------------------------------------------
(* Properties.                                                             *)

\* Types of the tables and of what the requests hold.
TypeOK ==
  /\ deliverables \in [DeliverableIds -> Deliverable]
  /\ deliverable_bundles \in [BundleIds -> Bundle]
  /\ idempotency_keys \subseteq StoredAnswer
  /\ audit_events \subseteq Event
  /\ artifacts \subseteq Records \cup Manifests \cup Zips
  /\ pc \in [Requests -> Labels]
  /\ call \in [Requests -> Calls \cup {None}]
  /\ DOMAIN hand = Requests
  /\ reply # None => reply.call \in Calls /\ reply.code \in Codes
  /\ late \in [Requests -> BOOLEAN]
  /\ sent \subseteq DeliverableIds

\* The records that the calls can make of a deliverable; and whether they
\* all write its id in the same way, and so make the same record.
FinalRecords(d) ==
  {Record(d, c.spelling, "final") : c \in {x \in Calls : x.op = "finalize" /\ x.deliverable = d}}

OneSpelling(d) ==
  \A b, c \in Calls : b.op = "finalize" /\ c.op = "finalize"
    /\ b.deliverable = d /\ c.deliverable = d => b.spelling = c.spelling

(***************************************************************************)
(* The record of a deliverable is stored, is about it and says 'final',    *)
(* whatever the status becomes between the two UPDATEs of finalize and     *)
(* whoever else finalizes; and the deliverable is never a draft again.     *)
(***************************************************************************)
RecordsSayFinal == \A d \in DeliverableIds : deliverables[d].record # None =>
  /\ deliverables[d].record \in FinalRecords(d)
  /\ deliverables[d].record \in artifacts
  /\ deliverables[d].status \in {"final", "sent", "superseded"}

(***************************************************************************)
(* A stored answer is the answer of a finalize that took effect, wherever  *)
(* that request ended: it promises the record that its own path names,     *)
(* which is stored; the deliverable points to a record, and to that one as *)
(* long as no call writes the id in another way.                           *)
(***************************************************************************)
StoredAnswersHold == \A e \in idempotency_keys :
  /\ e.answer = Record(e.deliverable, e.spelling, "final")
  /\ e.answer \in artifacts
  /\ deliverables[e.deliverable].record # None
  /\ OneSpelling(e.deliverable) => deliverables[e.deliverable].record = e.answer

\* The step that was just made answered a call of op with code.
Answered(op, code) == reply # None /\ reply.call.op = op /\ reply.code = code

(***************************************************************************)
(* finalize is answered 'ok' for its own deliverable and path, never with  *)
(* the answer to another: the record in the answer is stored and the       *)
(* deliverable has one; it is the one of the answer as long as no call     *)
(* writes the id in another way, which gets past the key and makes another *)
(* record.                                                                 *)
(***************************************************************************)
OkAnswersAreTrue == Answered("finalize", "ok") =>
  LET c == reply.call  now == deliverables[c.deliverable].record IN
  /\ reply.body = Record(c.deliverable, c.spelling, "final")
  /\ reply.body \in artifacts
  /\ now # None
  /\ OneSpelling(c.deliverable) => now = reply.body

(***************************************************************************)
(* A retry that arrives after the answer of its key was stored does not    *)
(* finalize again.  (One that arrives before it was stored may.)           *)
(***************************************************************************)
LateRetriesAreSilent == \A q \in Requests :
  pc[q] \in {"mark_final", "put_record", "point", "store"} => ~late[q]

(***************************************************************************)
(* A bundle belongs to a deliverable with a document that left the draft   *)
(* state, and its manifest, its zip and the record it lists are stored:    *)
(* so every download of a bundle finds its bytes.                          *)
(***************************************************************************)
BundlesAreWhole == \A b \in BundleIds : deliverable_bundles[b].status # "absent" =>
  LET row == deliverable_bundles[b] IN
  /\ row.deliverable \in DeliverableIds
  /\ deliverables[row.deliverable].docx
  /\ deliverables[row.deliverable].status \in {"final", "sent", "superseded"}
  /\ row.manifest.manifest_of = row.deliverable
  /\ {row.manifest, Zip(row.manifest)} \subseteq artifacts
  /\ row.manifest.record \in artifacts \cup {None}

(***************************************************************************)
(* A download that arrives after the revocation of its bundle was          *)
(* committed is refused; what it delivers is that bundle.                  *)
(***************************************************************************)
RevokedStaysOut == Answered("download", "ok") =>
  /\ ~reply.late
  /\ reply.body = Zip(deliverable_bundles[reply.call.bundle].manifest)
  /\ reply.call.deliverable = deliverable_bundles[reply.call.bundle].deliverable

\* Of several requests that revoke one bundle at once, one does.
OneRevocation == \A p, q \in Requests :
  p # q /\ pc[p] = "emit" /\ pc[q] = "emit"
    /\ call[p].op = "revoke" /\ call[q].op = "revoke"
    => call[p].bundle # call[q].bundle

(***************************************************************************)
(* The audit log claims nothing that did not happen: a logged revocation   *)
(* is in force, a logged download was of a bundle of that deliverable,     *)
(* which had been sent.                                                    *)
(***************************************************************************)
LogIsTrue == \A e \in audit_events :
  /\ e.deliverable = deliverable_bundles[e.bundle].deliverable
  /\ e.op = "revoke" => deliverable_bundles[e.bundle].status = "revoked"
  /\ e.op = "download" => e.deliverable \in sent

(***************************************************************************)
(* What was released stays: a revoked bundle stays revoked, a bundle keeps *)
(* its manifest, a deliverable its document and predecessor; a record at   *)
(* most gives way to one that differs in how it writes the id.             *)
(***************************************************************************)
ReleasesStay == [][
  /\ \A b \in BundleIds : deliverable_bundles[b].status # "absent" =>
       /\ deliverable_bundles'[b] \in {deliverable_bundles[b],
            [deliverable_bundles[b] EXCEPT !.status = "revoked"]}
  /\ \A d \in DeliverableIds : Exists(d) =>
       /\ deliverables'[d].docx = deliverables[d].docx
       /\ deliverables'[d].supersedes = deliverables[d].supersedes
       /\ deliverables[d].record # None =>
            {deliverables[d].record, deliverables'[d].record} \subseteq FinalRecords(d)]_vars

-----------------------------------------------------------------------------
(* What tests and documents say and the code does not do.                  *)

(***************************************************************************)
(* The workflow test expects 200 from finalize: a finalize that runs to    *)
(* its end on an existing deliverable is answered 'ok'.                    *)
(***************************************************************************)
FinalizeSucceeds == ~Answered("finalize", "error")

(***************************************************************************)
(* "Create a new deliverable that supersedes the given deliverable": when  *)
(* supersede is answered, with whatever code, the given deliverable has a  *)
(* successor or is not superseded.                                         *)
(***************************************************************************)
SupersededHasSuccessor == reply # None /\ reply.call.op = "supersede" =>
  \/ deliverables[reply.call.deliverable].status # "superseded"
  \/ \E d \in DeliverableIds : Exists(d) /\ deliverables[d].supersedes = reply.call.deliverable
=============================================================================
