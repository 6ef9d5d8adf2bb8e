--------------------------- MODULE ReleaseProofs ----------------------------
(***************************************************************************)
(* Proofs about Release for any number of requests, deliverables, bundles  *)
(* and keys, and any set of calls.  RelInv says what the tables hold and   *)
(* what each request holds in its hands at each label; a step of one       *)
(* request keeps what the others rely on because the tables only Grow.     *)
(***************************************************************************)
EXTENDS Release, TLAPS

-----------------------------------------------------------------------------
(* The inductive invariant.                                                *)

Past(d) == deliverables[d].status \in {"final", "sent", "superseded"}

SentIsRemembered == \A d \in DeliverableIds : deliverables[d].status = "sent" => d \in sent
OnlyFinalizeStores == \A e \in idempotency_keys : e.op = "finalize"
LoggedBundlesExist == \A e \in audit_events : HasBundle(e.deliverable, e.bundle)

Tables ==
  /\ RecordsSayFinal /\ StoredAnswersHold /\ BundlesAreWhole /\ LogIsTrue
  /\ SentIsRemembered /\ OnlyFinalizeStores /\ LoggedBundlesExist

\* A request is at a label of the handler of its call.
ServesItsCall(q) ==
  /\ pc[q] # "idle" => call[q] \in Calls
  /\ pc[q] \in {"mark_final", "put_record", "point", "store"} => call[q].op = "finalize"
  /\ pc[q] \in {"read_for_bundle", "put_manifest", "put_zip", "insert_bundle"} =>
       call[q].op = "bundle"
  /\ pc[q] \in {"read_status", "read_bundle", "fetch"} => call[q].op = "download"
  /\ pc[q] = "emit" => call[q].op \in {"download", "revoke"}
  /\ pc[q] = "revoke" => call[q].op = "revoke"
  /\ pc[q] = "mark_sent" => call[q].op = "mark_sent"
  /\ pc[q] = "mark_superseded" => call[q].op = "supersede"
  /\ pc[q] = "create" => call[q].op \in {"create", "supersede"}
  /\ pc[q] = "lookup" => call[q].op \in {"finalize", "bundle"}
  /\ pc[q] \in {"lookup", "store"} => call[q].key # None

Lateness(q) == pc[q] # "idle" /\ late[q] =>
  \/ StoredFor(call[q]) # {}
  \/ call[q].op = "download" /\ deliverable_bundles[call[q].bundle].status = "revoked"

Finalizing(q) ==
  LET d == call[q].deliverable IN
  /\ pc[q] \in {"mark_final", "put_record", "point", "store"} => ~late[q]
  /\ pc[q] \in {"put_record", "point", "store"} =>
       Past(d) /\ hand[q] = Record(d, call[q].spelling, "final")
  /\ pc[q] \in {"point", "store"} => hand[q] \in artifacts
  /\ pc[q] = "store" =>
       /\ deliverables[d].record # None
       /\ OneSpelling(d) => deliverables[d].record = hand[q]

Bundling(q) ==
  LET d == call[q].deliverable IN
  /\ pc[q] \in {"put_manifest", "put_zip", "insert_bundle"} =>
       /\ deliverables[d].docx /\ Past(d)
       /\ hand[q] \in Manifests /\ hand[q].manifest_of = d
       /\ hand[q].record \in artifacts \cup {None}
  /\ pc[q] \in {"put_zip", "insert_bundle"} => hand[q] \in artifacts
  /\ pc[q] = "insert_bundle" => Zip(hand[q]) \in artifacts

Releasing(q) ==
  LET c == call[q]
      row == deliverable_bundles[c.bundle]
  IN /\ pc[q] \in {"read_bundle", "fetch"} => c.deliverable \in sent
     /\ pc[q] = "fetch" =>
          HasBundle(c.deliverable, c.bundle) /\ hand[q] = row.manifest /\ ~late[q]
     /\ pc[q] = "emit" => HasBundle(c.deliverable, c.bundle)
     /\ pc[q] = "emit" /\ c.op = "download" =>
          c.deliverable \in sent /\ hand[q] = Zip(row.manifest) /\ ~late[q]
     /\ pc[q] = "emit" /\ c.op = "revoke" => row.status = "revoked"

Holds(q) ==
  ServesItsCall(q) /\ Lateness(q) /\ Finalizing(q) /\ Bundling(q) /\ Releasing(q)

RepliesHold == OkAnswersAreTrue /\ RevokedStaysOut

RelInv ==
  /\ TypeOK /\ Tables /\ RepliesHold /\ OneRevocation
  /\ \A q \in Requests : Holds(q)

(***************************************************************************)
(* What no step takes back.                                                *)
(***************************************************************************)
DeliverablesGrow == \A d \in DeliverableIds :
  /\ Past(d) => Past(d)'
  /\ Exists(d) => /\ deliverables'[d].docx = deliverables[d].docx
                  /\ deliverables'[d].supersedes = deliverables[d].supersedes
  /\ deliverables[d].record # None =>
       /\ deliverables'[d].record \in FinalRecords(d)
       /\ OneSpelling(d) => deliverables'[d].record = deliverables[d].record

BundlesGrow == \A b \in BundleIds : deliverable_bundles[b].status # "absent" =>
  deliverable_bundles'[b] \in {deliverable_bundles[b],
    [deliverable_bundles[b] EXCEPT !.status = "revoked"]}

Grows ==
  /\ artifacts \subseteq artifacts' /\ idempotency_keys \subseteq idempotency_keys'
  /\ sent \subseteq sent'
  /\ DeliverablesGrow /\ BundlesGrow

\* A step of q leaves the other requests alone.
Alone(q) == \A p \in Requests \ {q} :
  pc'[p] = pc[p] /\ call'[p] = call[p] /\ hand'[p] = hand[p] /\ late'[p] = late[p]

-----------------------------------------------------------------------------
(* The records that finalize makes.                                        *)

LEMMA FinalRecordsAreRecords ==
  ASSUME NEW d \in DeliverableIds, NEW r \in FinalRecords(d)
  PROVE  r \in Records /\ r # None
  <1>1. PICK c \in Calls : c.op = "finalize" /\ c.deliverable = d
                          /\ r = Record(d, c.spelling, "final")
    BY DEF FinalRecords
  <1>2. c.spelling \in Spellings
    BY <1>1, ReleaseAssumption DEF CallType
  <1> QED BY <1>1, <1>2, ReleaseAssumption DEF Record, Records, Statuses

LEMMA OneSpellingOneRecord ==
  ASSUME NEW d, OneSpelling(d), NEW x \in FinalRecords(d), NEW y \in FinalRecords(d)
  PROVE  x = y
  BY DEF OneSpelling, FinalRecords

LEMMA RecordOfCall ==
  ASSUME NEW c \in Calls, c.op = "finalize"
  PROVE  Record(c.deliverable, c.spelling, "final") \in FinalRecords(c.deliverable)
  BY DEF FinalRecords

-----------------------------------------------------------------------------
(* The effects of the building blocks.                                     *)

LEMMA GotoEffect ==
  ASSUME TypeOK, NEW q \in Requests, NEW label \in Labels, Goto(q, label)
  PROVE  /\ pc'[q] = label /\ call'[q] = call[q] /\ late'[q] = late[q]
         /\ \A p \in Requests \ {q} :
              pc'[p] = pc[p] /\ call'[p] = call[p] /\ late'[p] = late[p]
         /\ pc' \in [Requests -> Labels]
         /\ call' \in [Requests -> Calls \cup {None}]
         /\ late' \in [Requests -> BOOLEAN]
         /\ reply' = None
  BY DEF Goto, TypeOK

LEMMA KeepEffect ==
  ASSUME TypeOK, NEW q \in Requests, NEW x, Keep(q, x)
  PROVE  /\ hand'[q] = x
         /\ \A p \in Requests \ {q} : hand'[p] = hand[p]
         /\ DOMAIN hand' = Requests
  BY DEF Keep, TypeOK

LEMMA LeaveEffect ==
  ASSUME TypeOK, NEW q \in Requests, Leave(q)
  PROVE  /\ pc'[q] = "idle"
         /\ Alone(q)
         /\ pc' \in [Requests -> Labels]
         /\ call' \in [Requests -> Calls \cup {None}]
         /\ late' \in [Requests -> BOOLEAN]
         /\ DOMAIN hand' = Requests
         /\ Holds(q)'
  <1>1. /\ pc'[q] = "idle"
        /\ pc' \in [Requests -> Labels]
        /\ call' \in [Requests -> Calls \cup {None}]
        /\ late' \in [Requests -> BOOLEAN]
        /\ DOMAIN hand' = Requests
    BY DEF Leave, TypeOK, Labels
  <1>2. Alone(q)
    BY DEF Leave, TypeOK, Alone
  <1>3. Holds(q)'
    BY <1>1 DEF Holds, ServesItsCall, Lateness, Finalizing, Bundling, Releasing
  <1> QED BY <1>1, <1>2, <1>3

LEMMA AnswerEffect ==
  ASSUME TypeOK, NEW q \in Requests, NEW code, NEW body, Answer(q, code, body)
  PROVE  /\ Leave(q)
         /\ reply' = [call |-> call[q], code |-> code, body |-> body, late |-> late[q]]
         /\ reply'.call = call[q] /\ reply'.code = code
         /\ reply'.body = body /\ reply'.late = late[q]
  BY DEF Answer

-----------------------------------------------------------------------------
(* Putting a step together.                                                *)

\* Steps that change no table.
LEMMA Quiet ==
  ASSUME RelInv, UNCHANGED <<tables, sent>>
  PROVE  Tables' /\ Grows
  <1>1. Grows
    BY DEF RelInv, Tables, RecordsSayFinal, tables, Grows, DeliverablesGrow, BundlesGrow, Past
  <1>2. Tables'
    BY DEF RelInv, tables, Tables, RecordsSayFinal, StoredAnswersHold, BundlesAreWhole,
           LogIsTrue, SentIsRemembered, OnlyFinalizeStores,
           LoggedBundlesExist, HasBundle
  <1> QED BY <1>1, <1>2

\* A bundle keeps its deliverable and its manifest, and stays revoked.
LEMMA BundleStays ==
  ASSUME RelInv, Grows, NEW d \in DeliverableIds, NEW b \in BundleIds
  PROVE  /\ HasBundle(d, b) => HasBundle(d, b)' /\
              deliverable_bundles'[b].manifest = deliverable_bundles[b].manifest
         /\ deliverable_bundles[b].status = "revoked" =>
              deliverable_bundles'[b].status = "revoked"
  <1> SUFFICES ASSUME deliverable_bundles[b].status # "absent"
               PROVE  /\ deliverable_bundles'[b].status # "absent"
                      /\ deliverable_bundles'[b].deliverable = deliverable_bundles[b].deliverable
                      /\ deliverable_bundles'[b].manifest = deliverable_bundles[b].manifest
                      /\ deliverable_bundles[b].status = "revoked" =>
                           deliverable_bundles'[b].status = "revoked"
    BY DEF HasBundle
  <1>1. deliverable_bundles[b] \in Bundle
    BY DEF RelInv, TypeOK
  <1>2. deliverable_bundles'[b] \in {deliverable_bundles[b],
          [deliverable_bundles[b] EXCEPT !.status = "revoked"]}
    BY DEF Grows, BundlesGrow
  <1> QED BY <1>1, <1>2 DEF Bundle

\* Too late once, too late for the rest of the call.
LEMMA LatenessStays ==
  ASSUME RelInv, Grows, NEW q \in Requests, pc[q] # "idle",
         call'[q] = call[q], late'[q] = late[q]
  PROVE  Lateness(q)'
  <1>1. Holds(q)
    BY DEF RelInv
  <1>2. call[q] \in Calls
    BY <1>1 DEF Holds, ServesItsCall
  <1>3. StoredFor(call[q]) # {} => StoredFor(call[q])' # {}
    BY DEF StoredFor, Grows
  <1>4. CASE StoredFor(call[q]) # {}
    BY <1>3, <1>4 DEF Lateness
  <1>5. CASE call[q].op = "download" /\ deliverable_bundles[call[q].bundle].status = "revoked"
    <2>1. call[q].bundle \in BundleIds /\ call[q].deliverable \in DeliverableIds
      BY <1>2, <1>5, ReleaseAssumption
    <2>2. deliverable_bundles'[call[q].bundle].status = "revoked"
      BY <1>5, <2>1, BundleStays
    <2> QED BY <1>5, <2>2 DEF Lateness
  <1>6. CASE ~late[q]
    BY <1>6 DEF Lateness
  <1> QED BY <1>1, <1>4, <1>5, <1>6 DEF Holds, Lateness

\* What a request relies on outlives the steps of others.
LEMMA HoldsStays ==
  ASSUME RelInv, NEW p \in Requests, Grows,
         pc'[p] = pc[p], call'[p] = call[p], hand'[p] = hand[p], late'[p] = late[p]
  PROVE  Holds(p)'
  <1>1. /\ pc'[p] = pc[p] /\ call'[p] = call[p] /\ hand'[p] = hand[p] /\ late'[p] = late[p]
        /\ Holds(p)
    BY DEF RelInv
  <1>2. ServesItsCall(p)'
    BY <1>1 DEF Holds, ServesItsCall
  <1>3. pc[p] # "idle" => call[p] \in Calls
    BY <1>1 DEF Holds, ServesItsCall
  <1>4. pc[p] \in {"put_record", "point", "store", "put_manifest", "put_zip",
                   "insert_bundle", "read_bundle", "fetch", "emit"}
          => call[p].deliverable \in DeliverableIds
    BY <1>1, <1>3, ReleaseAssumption DEF Holds, ServesItsCall
  <1>5. pc[p] # "idle" /\ call[p].op \in {"download", "revoke"} => call[p].bundle \in BundleIds
    BY <1>3, ReleaseAssumption
  <1>6. \A d \in DeliverableIds, b \in BundleIds :
          /\ HasBundle(d, b) => HasBundle(d, b)' /\
               deliverable_bundles'[b].manifest = deliverable_bundles[b].manifest
          /\ deliverable_bundles[b].status = "revoked" =>
               deliverable_bundles'[b].status = "revoked"
    BY BundleStays
  <1>7. Lateness(p)'
    BY <1>1, LatenessStays DEF Lateness
  <1>8. Finalizing(p)'
    <2>1. \A d \in DeliverableIds : deliverables[d].record # None =>
            /\ deliverables'[d].record # None
            /\ OneSpelling(d) => deliverables'[d].record = deliverables[d].record
      BY FinalRecordsAreRecords DEF Grows, DeliverablesGrow
    <2> QED BY <1>1, <1>4, <2>1 DEF Holds, Finalizing, Grows, DeliverablesGrow
  <1>9. Bundling(p)'
    <2>1. \A d \in DeliverableIds : Past(d) => Exists(d)
      BY DEF Past, Exists
    <2> QED BY <1>1, <1>4, <2>1 DEF Holds, Bundling, Grows, DeliverablesGrow
  <1>10. Releasing(p)'
    <2>1. pc[p] = "fetch" => call[p].op = "download"
      BY <1>1 DEF Holds, ServesItsCall
    <2>2. pc[p] = "emit" => call[p].op \in {"download", "revoke"}
      BY <1>1 DEF Holds, ServesItsCall
    <2>3. sent \subseteq sent'
      BY DEF Grows
    <2> QED BY <1>1, <1>4, <1>5, <1>6, <2>1, <2>2, <2>3 DEF Holds, Releasing
  <1> QED BY <1>2, <1>7, <1>8, <1>9, <1>10 DEF Holds

LEMMA OthersHold ==
  ASSUME RelInv, NEW q \in Requests, NEW p \in Requests \ {q}, Grows, Alone(q)
  PROVE  Holds(p)'
  BY HoldsStays DEF Alone

\* Nobody else is about to report the revocation that q reports.
Sole(q) == \A p \in Requests \ {q} :
  pc[p] = "emit" /\ pc[q] = "emit" /\ call[p].op = "revoke" /\ call[q].op = "revoke"
    => call[p].bundle # call[q].bundle

LEMMA Compose ==
  ASSUME RelInv, NEW q \in Requests, TypeOK', Tables', Grows, Alone(q),
         Holds(q)', RepliesHold', Sole(q)'
  PROVE  RelInv'
  <1>1. \A p \in Requests : Holds(p)'
    BY OthersHold
  <1>2. OneRevocation'
    <2> SUFFICES ASSUME NEW p \in Requests, NEW r \in Requests, p # r,
                        pc'[p] = "emit", pc'[r] = "emit",
                        call'[p].op = "revoke", call'[r].op = "revoke"
                 PROVE  call'[p].bundle # call'[r].bundle
      BY DEF OneRevocation
    <2>1. CASE p = q
      BY <2>1 DEF Sole
    <2>2. CASE r = q
      BY <2>2 DEF Sole
    <2>3. CASE p # q /\ r # q
      BY <2>3 DEF Alone, RelInv, OneRevocation
    <2> QED BY <2>1, <2>2, <2>3
  <1> QED BY <1>1, <1>2 DEF RelInv

\* The two halves of TypeOK.
RowTypes ==
  /\ deliverables \in [DeliverableIds -> Deliverable]
  /\ deliverable_bundles \in [BundleIds -> Bundle]
  /\ idempotency_keys \subseteq StoredAnswer
  /\ audit_events \subseteq Event
  /\ artifacts \subseteq Records \cup Manifests \cup Zips
  /\ sent \subseteq DeliverableIds

RequestTypes ==
  /\ pc \in [Requests -> Labels]
  /\ call \in [Requests -> Calls \cup {None}]
  /\ DOMAIN hand = Requests
  /\ reply # None => reply.call \in Calls /\ reply.code \in Codes
  /\ late \in [Requests -> BOOLEAN]

LEMMA Types == TypeOK <=> RowTypes /\ RequestTypes
  BY DEF TypeOK, RowTypes, RequestTypes

LEMMA QuietTypes ==
  ASSUME RelInv, UNCHANGED <<tables, sent>>
  PROVE  RowTypes'
  BY Types DEF RelInv, RowTypes, tables

LEMMA Served ==
  ASSUME RelInv, NEW q \in Requests, pc[q] # "idle"
  PROVE  /\ call[q] \in Calls /\ call[q] \in CallType
         /\ call[q].op # "create" => call[q].deliverable \in DeliverableIds
         /\ call[q].op \in {"download", "revoke"} => call[q].bundle \in BundleIds
  <1>1. Holds(q)
    BY DEF RelInv
  <1>2. call[q] \in Calls
    BY <1>1 DEF Holds, ServesItsCall
  <1> QED BY <1>2, ReleaseAssumption

LEMMA AnswerStep ==
  ASSUME RelInv, NEW q \in Requests, NEW code \in Codes, NEW body, Answer(q, code, body),
         pc[q] # "idle"
  PROVE  /\ RequestTypes' /\ Alone(q) /\ Holds(q)' /\ Sole(q)'
         /\ reply'.call = call[q] /\ reply'.code = code
         /\ reply'.body = body /\ reply'.late = late[q]
         /\ code # "ok" \/ call[q].op \notin {"finalize", "download"} => RepliesHold'
  <1>1. TypeOK
    BY DEF RelInv
  <1>2. /\ Leave(q)
        /\ reply'.call = call[q] /\ reply'.code = code
        /\ reply'.body = body /\ reply'.late = late[q]
    BY <1>1, AnswerEffect
  <1>3. /\ pc'[q] = "idle" /\ Alone(q) /\ Holds(q)'
        /\ pc' \in [Requests -> Labels]
        /\ call' \in [Requests -> Calls \cup {None}]
        /\ late' \in [Requests -> BOOLEAN]
        /\ DOMAIN hand' = Requests
    BY <1>1, <1>2, LeaveEffect
  <1>4. RequestTypes'
    BY <1>2, <1>3, Served DEF RequestTypes
  <1>5. Sole(q)'
    BY <1>3 DEF Sole
  <1>6. code # "ok" \/ call[q].op \notin {"finalize", "download"} => RepliesHold'
    BY <1>2 DEF RepliesHold, OkAnswersAreTrue, RevokedStaysOut, Answered
  <1> QED BY <1>2, <1>3, <1>4, <1>5, <1>6

LEMMA GotoStep ==
  ASSUME RelInv, NEW q \in Requests, NEW label \in Labels, Goto(q, label),
         hand' = hand \/ \E x : Keep(q, x)
  PROVE  /\ RequestTypes' /\ Alone(q) /\ RepliesHold'
         /\ pc'[q] = label /\ call'[q] = call[q] /\ late'[q] = late[q]
         /\ label # "emit" => Sole(q)'
  <1>1. TypeOK
    BY DEF RelInv
  <1>2. /\ pc'[q] = label /\ call'[q] = call[q] /\ late'[q] = late[q]
        /\ \A p \in Requests \ {q} :
              pc'[p] = pc[p] /\ call'[p] = call[p] /\ late'[p] = late[p]
        /\ pc' \in [Requests -> Labels]
        /\ call' \in [Requests -> Calls \cup {None}]
        /\ late' \in [Requests -> BOOLEAN]
        /\ reply' = None
    BY <1>1, GotoEffect
  <1>3. DOMAIN hand' = Requests /\ \A p \in Requests \ {q} : hand'[p] = hand[p]
    BY <1>1, KeepEffect DEF TypeOK
  <1>4. RepliesHold'
    BY <1>2 DEF RepliesHold, OkAnswersAreTrue, RevokedStaysOut, Answered
  <1> QED BY <1>2, <1>3, <1>4 DEF RequestTypes, Alone, Sole

\* A step that changes no table and gives no 'ok' answer to finalize or download.
LEMMA AnswerQuietly ==
  ASSUME RelInv, NEW q \in Requests, NEW code \in Codes, NEW body, Answer(q, code, body),
         pc[q] # "idle", UNCHANGED <<tables, sent>>,
         code # "ok" \/ call[q].op \notin {"finalize", "download"}
  PROVE  RelInv' /\ Grows
  <1>1. Tables' /\ Grows /\ RowTypes'
    BY Quiet, QuietTypes
  <1>2. RequestTypes' /\ Alone(q) /\ Holds(q)' /\ Sole(q)' /\ RepliesHold'
    BY AnswerStep
  <1>3. TypeOK'
    BY <1>1, <1>2 DEF TypeOK, RowTypes, RequestTypes
  <1> QED BY <1>1, <1>2, <1>3, Compose

LEMMA GotoQuietly ==
  ASSUME RelInv, NEW q \in Requests, NEW label \in Labels, Goto(q, label),
         hand' = hand \/ \E x : Keep(q, x), UNCHANGED <<tables, sent>>,
         Holds(q)', label # "emit" \/ Sole(q)'
  PROVE  RelInv' /\ Grows
  <1>1. Tables' /\ Grows /\ RowTypes'
    BY Quiet, QuietTypes
  <1>2. RequestTypes' /\ Alone(q) /\ Sole(q)' /\ RepliesHold'
    BY GotoStep
  <1>3. TypeOK'
    BY <1>1, <1>2 DEF TypeOK, RowTypes, RequestTypes
  <1> QED BY <1>1, <1>2, <1>3, Compose

-----------------------------------------------------------------------------
(* The steps.                                                              *)

LEMMA InitInd == Init => RelInv
  <1> SUFFICES ASSUME Init PROVE RelInv
    OBVIOUS
  <1>1. TypeOK
    BY ReleaseAssumption
    DEF Init, TypeOK, Deliverable, Bundle, Labels
  <1>2. Tables
    BY DEF Init, Tables, RecordsSayFinal, StoredAnswersHold, BundlesAreWhole, LogIsTrue,
           SentIsRemembered, OnlyFinalizeStores, LoggedBundlesExist
  <1>3. RepliesHold /\ OneRevocation
    BY DEF Init, RepliesHold, OkAnswersAreTrue, RevokedStaysOut, OneRevocation, Answered
  <1>4. \A q \in Requests : Holds(q)
    BY DEF Init, Holds, ServesItsCall, Lateness, Finalizing, Bundling, Releasing
  <1> QED BY <1>1, <1>2, <1>3, <1>4 DEF RelInv

LEMMA ReceiveInd ==
  ASSUME RelInv, NEW q \in Requests, NEW c \in Calls, Receive(q, c)
  PROVE  RelInv' /\ Grows
  <1>1. Tables' /\ Grows /\ RowTypes'
    BY Quiet, QuietTypes DEF Receive
  <1>2. TypeOK
    BY DEF RelInv
  <1>3. c \in CallType /\ (c.op # "create" => c.deliverable \in DeliverableIds)
    BY ReleaseAssumption
  <1>4. /\ Entry(c) \in Labels
        /\ Entry(c) \in {"create", "raise"} => c.op = "create"
        /\ Entry(c) = "lookup" => c.key # None /\ c.op \in {"finalize", "bundle"}
        /\ Entry(c) = "mark_final" => c.op = "finalize" /\ c.key = None
        /\ Entry(c) = "mark_sent" => c.op = "mark_sent"
        /\ Entry(c) = "mark_superseded" => c.op = "supersede"
        /\ Entry(c) = "read_for_bundle" => c.op = "bundle"
        /\ Entry(c) = "read_status" => c.op = "download"
        /\ Entry(c) = "revoke" => c.op = "revoke"
        /\ Entry(c) \notin {"idle", "put_record", "point", "store", "put_manifest",
             "put_zip", "insert_bundle", "read_bundle", "fetch", "emit"}
    BY <1>3 DEF Entry, FirstLabel, CallType, Operations, Labels
  <1>5. /\ pc'[q] = Entry(c) /\ call'[q] = c
        /\ late'[q] = (StoredFor(c) # {} \/
             (c.op = "download" /\ deliverable_bundles[c.bundle].status = "revoked"))
        /\ RequestTypes' /\ Alone(q) /\ reply' = None
    BY <1>2, <1>4 DEF Receive, TypeOK, RequestTypes, Alone
  <1>6. c.key = None => StoredFor(c) = {}
    BY <1>2, ReleaseAssumption DEF TypeOK, StoredFor, StoredAnswer
  <1>7. Holds(q)'
    <2>1. ServesItsCall(q)'
      BY <1>4, <1>5 DEF ServesItsCall
    <2>2. Lateness(q)'
      BY <1>5 DEF Lateness, StoredFor, Receive, tables
    <2>3. Finalizing(q)'
      BY <1>4, <1>5, <1>6 DEF Finalizing
    <2>4. Bundling(q)' /\ Releasing(q)'
      BY <1>4, <1>5 DEF Bundling, Releasing
    <2> QED BY <2>1, <2>2, <2>3, <2>4 DEF Holds
  <1>8. Sole(q)' /\ RepliesHold'
    BY <1>4, <1>5 DEF Sole, RepliesHold, OkAnswersAreTrue, RevokedStaysOut, Answered
  <1>9. TypeOK'
    BY <1>1, <1>5 DEF TypeOK, RowTypes, RequestTypes
  <1> QED BY <1>1, <1>5, <1>7, <1>8, <1>9, Compose

LEMMA LoseInd ==
  ASSUME RelInv, NEW q \in Requests, Lose(q)
  PROVE  RelInv' /\ Grows
  <1>1. Tables' /\ Grows /\ RowTypes'
    BY Quiet, QuietTypes DEF Lose
  <1>2. TypeOK /\ Leave(q) /\ reply' = None
    BY DEF Lose, RelInv
  <1>3. RequestTypes' /\ Alone(q) /\ Holds(q)' /\ Sole(q)' /\ RepliesHold'
    BY <1>2, LeaveEffect
    DEF RequestTypes, Sole, RepliesHold, OkAnswersAreTrue, RevokedStaysOut, Answered
  <1>4. TypeOK'
    BY <1>1, <1>3 DEF TypeOK, RowTypes, RequestTypes
  <1> QED BY <1>1, <1>3, <1>4, Compose

LEMMA RaiseInd ==
  ASSUME RelInv, NEW q \in Requests, Raise(q)
  PROVE  RelInv' /\ Grows
  <1>1. "error" \in Codes /\ pc[q] # "idle"
    BY DEF Codes, Raise
  <1> QED BY <1>1, AnswerQuietly DEF Raise

-----------------------------------------------------------------------------
(* What the kinds of steps do to the tables.                               *)

\* A step that goes on: what is left to show is what the new label asks for.
LEMMA GoOn ==
  ASSUME RelInv, NEW q \in Requests, NEW label \in Labels, Goto(q, label),
         hand' = hand \/ \E x : Keep(q, x), pc[q] # "idle",
         RowTypes', Tables', Grows,
         ServesItsCall(q)', Finalizing(q)', Bundling(q)', Releasing(q)',
         label # "emit" \/ Sole(q)'
  PROVE  RelInv'
  <1>1. /\ RequestTypes' /\ Alone(q) /\ RepliesHold' /\ Sole(q)'
        /\ call'[q] = call[q] /\ late'[q] = late[q]
    BY GotoStep
  <1>2. Holds(q)'
    BY <1>1, LatenessStays DEF Holds
  <1>3. TypeOK'
    BY <1>1 DEF TypeOK, RowTypes, RequestTypes
  <1> QED BY <1>1, <1>2, <1>3, Compose

\* A step that answers.
LEMMA Finish ==
  ASSUME RelInv, NEW q \in Requests, NEW code \in Codes, NEW body, Answer(q, code, body),
         pc[q] # "idle", RowTypes', Tables', Grows,
         RepliesHold' \/ code # "ok" \/ call[q].op \notin {"finalize", "download"}
  PROVE  RelInv'
  <1>1. RequestTypes' /\ Alone(q) /\ Holds(q)' /\ Sole(q)' /\ RepliesHold'
    BY AnswerStep
  <1>2. TypeOK'
    BY <1>1 DEF TypeOK, RowTypes, RequestTypes
  <1> QED BY <1>1, <1>2, Compose

\* put_artifact.
LEMMA ArtifactStored ==
  ASSUME RelInv, NEW x \in Records \cup Manifests \cup Zips,
         artifacts' = artifacts \cup {x},
         UNCHANGED <<deliverables, deliverable_bundles, idempotency_keys, audit_events, sent>>
  PROVE  RowTypes' /\ Tables' /\ Grows
  <1>1. RowTypes'
    BY DEF RelInv, TypeOK, RowTypes
  <1>2. Grows
    BY DEF RelInv, Tables, RecordsSayFinal, Grows, DeliverablesGrow, BundlesGrow, Past
  <1>3. Tables'
    BY DEF RelInv, Tables, RecordsSayFinal, StoredAnswersHold, BundlesAreWhole,
           LogIsTrue, SentIsRemembered, OnlyFinalizeStores, LoggedBundlesExist, HasBundle
  <1> QED BY <1>1, <1>2, <1>3

\* The UPDATE of a deliverable's status.
LEMMA StatusSet ==
  ASSUME RelInv, NEW d \in DeliverableIds, NEW s \in {"final", "sent", "superseded"},
         Exists(d), SetStatus(d, s),
         UNCHANGED <<deliverable_bundles, idempotency_keys, audit_events, artifacts>>
  PROVE  RowTypes' /\ Tables' /\ Grows /\ deliverables'[d].status = s
  <1>1. deliverables \in [DeliverableIds -> Deliverable] /\ RowTypes /\ Tables
    BY DEF RelInv, TypeOK, RowTypes
  <1>2. \A x \in DeliverableIds :
          /\ deliverables'[x].status = IF x = d THEN s ELSE deliverables[x].status
          /\ deliverables'[x].docx = deliverables[x].docx
          /\ deliverables'[x].supersedes = deliverables[x].supersedes
          /\ deliverables'[x].record = deliverables[x].record
    BY <1>1 DEF SetStatus, Deliverable
  <1>3. deliverables' \in [DeliverableIds -> Deliverable]
    BY <1>1 DEF SetStatus, Deliverable, Statuses
  <1>4. sent \subseteq sent' /\ sent' \subseteq DeliverableIds /\ (s = "sent" => d \in sent')
    BY <1>1 DEF SetStatus, RowTypes
  <1>5. RowTypes'
    BY <1>1, <1>3, <1>4 DEF RowTypes
  <1>6. Grows
    BY <1>1, <1>2, <1>4
    DEF Tables, RecordsSayFinal, Grows, DeliverablesGrow, BundlesGrow, Past
  <1>7. RecordsSayFinal' /\ SentIsRemembered'
    BY <1>1, <1>2, <1>4 DEF Tables, RecordsSayFinal, SentIsRemembered
  <1>8. StoredAnswersHold' /\ OnlyFinalizeStores'
    BY <1>1, <1>2 DEF Tables, StoredAnswersHold, OnlyFinalizeStores, RowTypes, StoredAnswer
  <1>9. BundlesAreWhole'
    BY <1>1, <1>2 DEF Tables, BundlesAreWhole
  <1>10. LogIsTrue' /\ LoggedBundlesExist'
    BY <1>1, <1>4 DEF Tables, LogIsTrue, LoggedBundlesExist, HasBundle
  <1> QED BY <1>2, <1>5, <1>6, <1>7, <1>8, <1>9, <1>10 DEF Tables

-----------------------------------------------------------------------------
(* The steps, one by one.                                                  *)

LEMMA LookupInd ==
  ASSUME RelInv, NEW q \in Requests, Lookup(q)
  PROVE  RelInv' /\ Grows
  <1>1. /\ pc[q] = "lookup" /\ UNCHANGED <<tables, sent>>
        /\ Holds(q) /\ Tables /\ RowTypes
    BY Types DEF Lookup, RelInv
  <1>2. call[q].op \in {"finalize", "bundle"}
    BY <1>1 DEF Holds, ServesItsCall
  <1>3. CASE \E e \in StoredFor(call[q]) : Answer(q, "ok", e.answer)
    <2>1. PICK e \in StoredFor(call[q]) : Answer(q, "ok", e.answer)
      BY <1>3
    <2>2. /\ e \in idempotency_keys
          /\ e.deliverable = call[q].deliverable /\ e.spelling = call[q].spelling
          /\ e.answer = Record(e.deliverable, e.spelling, "final") /\ e.answer \in artifacts
          /\ deliverables[e.deliverable].record # None
          /\ OneSpelling(e.deliverable) => deliverables[e.deliverable].record = e.answer
      BY <1>1 DEF StoredFor, Tables, StoredAnswersHold
    <2>3. "ok" \in Codes /\ pc[q] # "idle"
      BY <1>1 DEF Codes
    <2>4. reply'.call = call[q] /\ reply'.body = e.answer
      BY <2>1, <2>3, AnswerStep
    <2>5. RepliesHold'
      BY <1>1, <1>2, <2>2, <2>4
      DEF RepliesHold, OkAnswersAreTrue, RevokedStaysOut, Answered, tables
    <2>6. Tables' /\ Grows /\ RowTypes'
      BY <1>1, Quiet, QuietTypes
    <2> QED BY <2>1, <2>3, <2>5, <2>6, Finish
  <1>4. CASE StoredFor(call[q]) = {} /\ Goto(q, FirstLabel[call[q].op]) /\ UNCHANGED hand
    <2>1. FirstLabel[call[q].op] \in {"mark_final", "read_for_bundle"}
          /\ (FirstLabel[call[q].op] = "mark_final" <=> call[q].op = "finalize")
      BY <1>2 DEF FirstLabel
    <2>2. FirstLabel[call[q].op] \in Labels
      BY <2>1 DEF Labels
    <2>3. pc'[q] = FirstLabel[call[q].op] /\ call'[q] = call[q] /\ late'[q] = late[q]
      BY <1>4, <2>2, GotoStep
    <2>4. ~late[q]
      BY <1>1, <1>2, <1>4 DEF Holds, Lateness
    <2>5. call[q] \in Calls
      BY <1>1, Served
    <2>6. ServesItsCall(q)'
      BY <1>2, <2>1, <2>3, <2>5 DEF ServesItsCall
    <2>7. Finalizing(q)' /\ Bundling(q)' /\ Releasing(q)'
      BY <2>1, <2>3, <2>4 DEF Finalizing, Bundling, Releasing
    <2>8. Tables' /\ Grows /\ RowTypes'
      BY <1>1, Quiet, QuietTypes
    <2>9. pc[q] # "idle" /\ FirstLabel[call[q].op] # "emit"
      BY <1>1, <2>1
    <2> QED BY <1>4, <2>2, <2>6, <2>7, <2>8, <2>9, GoOn
  <1> QED BY <1>3, <1>4 DEF Lookup

LEMMA StoreResponseInd ==
  ASSUME RelInv, NEW q \in Requests, StoreResponse(q)
  PROVE  RelInv' /\ Grows
  <1> DEFINE d == call[q].deliverable
             row == AnswerRow(call[q], hand[q])
  <1>1. /\ pc[q] = "store" /\ pc[q] # "idle" /\ Goto(q, "raise") /\ hand' = hand
        /\ UNCHANGED <<deliverables, deliverable_bundles, audit_events, artifacts, sent>>
        /\ idempotency_keys' \in {idempotency_keys, idempotency_keys \cup {row}}
        /\ Holds(q) /\ Tables /\ RowTypes
    BY Types DEF StoreResponse, RelInv
  <1>2. call[q] \in CallType /\ call[q].op = "finalize" /\ d \in DeliverableIds
    BY <1>1, Served DEF Holds, ServesItsCall
  <1>3. /\ hand[q] = Record(d, call[q].spelling, "final") /\ hand[q] \in artifacts
        /\ deliverables[d].record # None
        /\ OneSpelling(d) => deliverables[d].record = hand[q]
        /\ call[q].key # None
    BY <1>1 DEF Holds, Finalizing, ServesItsCall
  <1>4. row \in StoredAnswer
    <2>1. /\ call[q].key \in Keys /\ call[q].op \in Operations
          /\ call[q].spelling \in Spellings
      BY <1>2, <1>3 DEF CallType
    <2>2. hand[q] \in Records
      BY <1>2, <1>3, <2>1 DEF Record, Records, Statuses
    <2> QED BY <1>2, <2>1, <2>2 DEF StoredAnswer, AnswerRow
  <1>5. RowTypes'
    BY <1>1, <1>4 DEF RowTypes
  <1>6. Grows
    BY <1>1 DEF Tables, RecordsSayFinal, Grows, DeliverablesGrow, BundlesGrow, Past
  <1>7. StoredAnswersHold' /\ OnlyFinalizeStores'
    BY <1>1, <1>2, <1>3 DEF Tables, StoredAnswersHold, OnlyFinalizeStores, AnswerRow
  <1>8. Tables'
    BY <1>1, <1>7 DEF Tables, RecordsSayFinal, BundlesAreWhole, LogIsTrue,
       SentIsRemembered, LoggedBundlesExist, HasBundle
  <1>9. "raise" \in Labels
    BY DEF Labels
  <1>10. pc'[q] = "raise" /\ call'[q] = call[q]
    BY <1>1, <1>9, GotoStep
  <1>11. ServesItsCall(q)' /\ Finalizing(q)' /\ Bundling(q)' /\ Releasing(q)'
    BY <1>1, <1>10, Served DEF ServesItsCall, Finalizing, Bundling, Releasing
  <1> QED BY <1>1, <1>5, <1>6, <1>8, <1>9, <1>11, GoOn

LEMMA CreateInd ==
  ASSUME RelInv, NEW q \in Requests, NEW d \in DeliverableIds, NEW docx \in BOOLEAN,
         Create(q, d, docx)
  PROVE  RelInv' /\ Grows
  <1>1. /\ pc[q] = "create" /\ pc[q] # "idle"
        /\ UNCHANGED <<deliverable_bundles, idempotency_keys, audit_events, artifacts>>
        /\ Holds(q) /\ Tables /\ RowTypes
    BY Types DEF Create, RelInv
  <1>2. /\ call[q] \in Calls /\ call[q] \in CallType
        /\ call[q].op \in {"create", "supersede"}
        /\ call[q].op = "supersede" => call[q].deliverable \in DeliverableIds
    BY <1>1, Served DEF Holds, ServesItsCall
  <1>3. "ok" \in Codes /\ "invalid" \in Codes
    BY DEF Codes
  <1>4. CASE ~call[q].accepted
    <2>1. Answer(q, "invalid", None) /\ UNCHANGED <<tables, sent>>
      BY <1>1, <1>4 DEF Create, tables
    <2> QED BY <1>1, <1>3, <2>1, AnswerQuietly
  <1>5. CASE call[q].accepted
    <2>1. /\ ~Exists(d) /\ Answer(q, "ok", d)
          /\ deliverables' = [deliverables EXCEPT ![d] =
               [status |-> call[q].status, docx |-> docx,
                supersedes |-> Supersedes(call[q]), record |-> None]]
          /\ sent' = (IF call[q].status = "sent" THEN sent \cup {d} ELSE sent)
      BY <1>5 DEF Create
    <2>2. [status |-> call[q].status, docx |-> docx,
           supersedes |-> Supersedes(call[q]), record |-> None] \in Deliverable
      BY <1>2 DEF Deliverable, Supersedes, CallType
    <2>3. /\ deliverables'[d].record = None /\ deliverables'[d].status = call[q].status
          /\ \A x \in DeliverableIds : x # d => deliverables'[x] = deliverables[x]
          /\ deliverables' \in [DeliverableIds -> Deliverable]
      BY <1>1, <2>1, <2>2 DEF RowTypes
    <2>4. /\ ~Past(d) /\ deliverables[d].record = None
      BY <1>1, <2>1 DEF Exists, Past, Tables, RecordsSayFinal
    <2>5. sent \subseteq sent' /\ sent' \subseteq DeliverableIds
          /\ (call[q].status = "sent" => d \in sent')
      BY <1>1, <2>1 DEF RowTypes
    <2>6. RowTypes'
      BY <1>1, <2>3, <2>5 DEF RowTypes
    <2>7. Grows
      BY <1>1, <2>1, <2>3, <2>4, <2>5
      DEF Tables, RecordsSayFinal, Grows, DeliverablesGrow, BundlesGrow, Past
    <2>8. RecordsSayFinal' /\ SentIsRemembered'
      BY <1>1, <2>3, <2>5 DEF Tables, RecordsSayFinal, SentIsRemembered
    <2>9. StoredAnswersHold' /\ OnlyFinalizeStores'
      <3>1. \A e \in idempotency_keys : e.deliverable \in DeliverableIds /\ e.deliverable # d
        BY <1>1, <2>4, ReleaseAssumption
        DEF RowTypes, StoredAnswer, Tables, StoredAnswersHold
      <3> QED BY <1>1, <2>3, <3>1 DEF Tables, StoredAnswersHold, OnlyFinalizeStores
    <2>10. BundlesAreWhole'
      <3>1. \A b \in BundleIds : deliverable_bundles[b].status # "absent" =>
              deliverable_bundles[b].deliverable # d
        BY <1>1, <2>4 DEF Tables, BundlesAreWhole, Past
      <3> QED BY <1>1, <2>3, <3>1 DEF Tables, BundlesAreWhole
    <2>11. LogIsTrue' /\ LoggedBundlesExist'
      BY <1>1, <2>5 DEF Tables, LogIsTrue, LoggedBundlesExist, HasBundle
    <2>12. Tables'
      BY <2>8, <2>9, <2>10, <2>11 DEF Tables
    <2>13. call[q].op \notin {"finalize", "download"}
      BY <1>2
    <2> QED BY <1>1, <1>3, <2>1, <2>6, <2>7, <2>12, <2>13, Finish
  <1> QED BY <1>4, <1>5

LEMMA MarkFinalInd ==
  ASSUME RelInv, NEW q \in Requests, MarkFinal(q)
  PROVE  RelInv' /\ Grows
  <1> DEFINE d == call[q].deliverable
  <1>1. /\ pc[q] = "mark_final" /\ pc[q] # "idle" /\ Holds(q)
        /\ UNCHANGED <<deliverable_bundles, idempotency_keys, audit_events, artifacts>>
    BY DEF MarkFinal, Transition, RelInv
  <1>2. /\ call[q] \in Calls /\ call[q].op = "finalize" /\ d \in DeliverableIds /\ ~late[q]
    BY <1>1, Served DEF Holds, ServesItsCall, Finalizing
  <1>3. CASE Exists(d)
    <2>1. /\ SetStatus(d, "final") /\ Goto(q, "put_record")
          /\ Keep(q, Record(d, call[q].spelling, "final"))
      BY <1>3 DEF MarkFinal, Transition
    <2>2. RowTypes' /\ Tables' /\ Grows /\ deliverables'[d].status = "final"
      BY <1>1, <1>2, <1>3, <2>1, StatusSet
    <2>3. "put_record" \in Labels
      BY DEF Labels
    <2>4. /\ pc'[q] = "put_record" /\ call'[q] = call[q] /\ late'[q] = late[q]
      BY <2>1, <2>3, GotoStep
    <2>5. hand'[q] = Record(d, call[q].spelling, "final")
      BY <2>1, KeepEffect DEF RelInv
    <2>6. ServesItsCall(q)' /\ Bundling(q)' /\ Releasing(q)'
      BY <1>2, <2>4 DEF ServesItsCall, Bundling, Releasing
    <2>7. Finalizing(q)'
      BY <1>2, <2>2, <2>4, <2>5 DEF Finalizing, Past
    <2> QED BY <1>1, <2>1, <2>2, <2>3, <2>6, <2>7, GoOn
  <1>4. CASE ~Exists(d)
    <2>1. Answer(q, "not_found", None) /\ UNCHANGED <<tables, sent>>
      BY <1>1, <1>4 DEF MarkFinal, Transition, tables
    <2>2. "not_found" \in Codes
      BY DEF Codes
    <2> QED BY <1>1, <2>1, <2>2, AnswerQuietly
  <1> QED BY <1>3, <1>4

LEMMA PutRecordInd ==
  ASSUME RelInv, NEW q \in Requests, PutRecord(q)
  PROVE  RelInv' /\ Grows
  <1>1. /\ pc[q] = "put_record" /\ pc[q] # "idle" /\ Goto(q, "point") /\ hand' = hand
        /\ UNCHANGED <<deliverables, deliverable_bundles, idempotency_keys, audit_events, sent>>
        /\ artifacts' = artifacts \cup {hand[q]} /\ Holds(q)
    BY DEF PutRecord, RelInv
  <1>2. /\ call[q] \in Calls /\ call[q].op = "finalize"
        /\ call[q].deliverable \in DeliverableIds /\ ~late[q]
        /\ Past(call[q].deliverable)
        /\ hand[q] = Record(call[q].deliverable, call[q].spelling, "final")
    BY <1>1, Served DEF Holds, ServesItsCall, Finalizing
  <1>3. hand[q] \in Records
    BY <1>2, RecordOfCall, FinalRecordsAreRecords
  <1>4. RowTypes' /\ Tables' /\ Grows
    BY <1>1, <1>3, ArtifactStored
  <1>5. "point" \in Labels
    BY DEF Labels
  <1>6. pc'[q] = "point" /\ call'[q] = call[q] /\ late'[q] = late[q]
    BY <1>1, <1>5, GotoStep
  <1>7. ServesItsCall(q)' /\ Bundling(q)' /\ Releasing(q)'
    BY <1>2, <1>6 DEF ServesItsCall, Bundling, Releasing
  <1>8. Finalizing(q)'
    BY <1>1, <1>2, <1>6 DEF Finalizing, Past
  <1> QED BY <1>1, <1>4, <1>5, <1>7, <1>8, GoOn

LEMMA PointInd ==
  ASSUME RelInv, NEW q \in Requests, Point(q)
  PROVE  RelInv' /\ Grows
  <1> DEFINE d == call[q].deliverable
             label == IF call[q].key = None THEN "raise" ELSE "store"
  <1>1. /\ pc[q] = "point" /\ pc[q] # "idle" /\ Goto(q, label) /\ hand' = hand
        /\ UNCHANGED <<deliverable_bundles, idempotency_keys, audit_events, artifacts, sent>>
        /\ deliverables' = [deliverables EXCEPT ![d].record = hand[q]]
        /\ Holds(q) /\ Tables /\ RowTypes
    BY Types DEF Point, RelInv
  <1>2. /\ call[q] \in Calls /\ call[q].op = "finalize" /\ d \in DeliverableIds
        /\ Past(d) /\ hand[q] = Record(d, call[q].spelling, "final")
        /\ hand[q] \in artifacts /\ ~late[q]
    BY <1>1, Served DEF Holds, ServesItsCall, Finalizing
  <1>3. hand[q] \in FinalRecords(d) /\ hand[q] \in Records /\ hand[q] # None
    BY <1>2, RecordOfCall, FinalRecordsAreRecords
  <1>4. \A x \in DeliverableIds :
          /\ deliverables'[x].record = IF x = d THEN hand[q] ELSE deliverables[x].record
          /\ deliverables'[x].docx = deliverables[x].docx
          /\ deliverables'[x].supersedes = deliverables[x].supersedes
          /\ deliverables'[x].status = deliverables[x].status
    BY <1>1, <1>2 DEF RowTypes, Deliverable
  <1>5. RowTypes'
    <2>1. deliverables' \in [DeliverableIds -> Deliverable]
      BY <1>1, <1>2, <1>3 DEF RowTypes, Deliverable
    <2> QED BY <1>1, <2>1 DEF RowTypes
  <1>6. deliverables[d].record # None /\ OneSpelling(d) => deliverables[d].record = hand[q]
    BY <1>1, <1>2, <1>3, OneSpellingOneRecord DEF Tables, RecordsSayFinal
  <1>7. Grows
    BY <1>1, <1>3, <1>4, <1>6
    DEF Tables, RecordsSayFinal, Grows, DeliverablesGrow, BundlesGrow, Past
  <1>8. RecordsSayFinal' /\ SentIsRemembered'
    BY <1>1, <1>2, <1>3, <1>4 DEF Tables, RecordsSayFinal, SentIsRemembered, Past
  <1>9. StoredAnswersHold' /\ OnlyFinalizeStores'
    <2>1. \A e \in idempotency_keys : e.deliverable \in DeliverableIds
      BY <1>1 DEF RowTypes, StoredAnswer
    <2> QED BY <1>1, <1>3, <1>4, <1>6, <2>1 DEF Tables, StoredAnswersHold, OnlyFinalizeStores
  <1>10. Tables'
    BY <1>1, <1>4, <1>8, <1>9
    DEF Tables, BundlesAreWhole, LogIsTrue, LoggedBundlesExist, HasBundle
  <1>11. label \in Labels /\ label \in {"raise", "store"} /\ (label = "store" => call[q].key # None)
    BY DEF Labels
  <1>12. pc'[q] = label /\ call'[q] = call[q] /\ late'[q] = late[q]
    BY <1>1, <1>11, GotoStep
  <1>13. ServesItsCall(q)' /\ Bundling(q)' /\ Releasing(q)'
    BY <1>2, <1>11, <1>12 DEF ServesItsCall, Bundling, Releasing
  <1>14. Finalizing(q)'
    BY <1>1, <1>2, <1>3, <1>4, <1>11, <1>12 DEF Finalizing, Past
  <1> QED BY <1>1, <1>5, <1>7, <1>10, <1>11, <1>13, <1>14, GoOn

LEMMA MarkSentInd ==
  ASSUME RelInv, NEW q \in Requests, MarkSent(q)
  PROVE  RelInv' /\ Grows
  <1> DEFINE d == call[q].deliverable
  <1>1. /\ pc[q] = "mark_sent" /\ pc[q] # "idle" /\ Holds(q)
        /\ UNCHANGED <<deliverable_bundles, idempotency_keys, audit_events, artifacts>>
    BY DEF MarkSent, RelInv
  <1>2. call[q].op = "mark_sent" /\ d \in DeliverableIds
    BY <1>1, Served DEF Holds, ServesItsCall
  <1>3. "ok" \in Codes /\ "not_found" \in Codes
    BY DEF Codes
  <1>4. CASE Exists(d)
    <2>1. SetStatus(d, "sent") /\ Answer(q, "ok", d)
      BY <1>4 DEF MarkSent
    <2>2. RowTypes' /\ Tables' /\ Grows
      BY <1>1, <1>2, <1>4, <2>1, StatusSet
    <2> QED BY <1>1, <1>2, <1>3, <2>1, <2>2, Finish
  <1>5. CASE ~Exists(d)
    <2>1. Answer(q, "not_found", None) /\ UNCHANGED <<tables, sent>>
      BY <1>1, <1>5 DEF MarkSent, tables
    <2> QED BY <1>1, <1>3, <2>1, AnswerQuietly
  <1> QED BY <1>4, <1>5

LEMMA MarkSupersededInd ==
  ASSUME RelInv, NEW q \in Requests, MarkSuperseded(q)
  PROVE  RelInv' /\ Grows
  <1> DEFINE d == call[q].deliverable
             label == IF call[q].key = None THEN "create" ELSE "raise"
  <1>1. /\ pc[q] = "mark_superseded" /\ pc[q] # "idle" /\ Holds(q)
        /\ UNCHANGED <<deliverable_bundles, idempotency_keys, audit_events, artifacts>>
    BY DEF MarkSuperseded, Transition, RelInv
  <1>2. call[q] \in Calls /\ call[q].op = "supersede" /\ d \in DeliverableIds
    BY <1>1, Served DEF Holds, ServesItsCall
  <1>3. CASE Exists(d)
    <2>1. SetStatus(d, "superseded") /\ Goto(q, label) /\ hand' = hand
      BY <1>3 DEF MarkSuperseded, Transition
    <2>2. RowTypes' /\ Tables' /\ Grows
      BY <1>1, <1>2, <1>3, <2>1, StatusSet
    <2>3. label \in Labels /\ label \in {"create", "raise"}
      BY DEF Labels
    <2>4. pc'[q] = label /\ call'[q] = call[q]
      BY <2>1, <2>3, GotoStep
    <2>5. ServesItsCall(q)' /\ Finalizing(q)' /\ Bundling(q)' /\ Releasing(q)'
      BY <1>2, <2>3, <2>4 DEF ServesItsCall, Finalizing, Bundling, Releasing
    <2> QED BY <1>1, <2>1, <2>2, <2>3, <2>5, GoOn
  <1>4. CASE ~Exists(d)
    <2>1. Answer(q, "not_found", None) /\ UNCHANGED <<tables, sent>>
      BY <1>1, <1>4 DEF MarkSuperseded, Transition, tables
    <2>2. "not_found" \in Codes
      BY DEF Codes
    <2> QED BY <1>1, <2>1, <2>2, AnswerQuietly
  <1> QED BY <1>3, <1>4

LEMMA ReadForBundleInd ==
  ASSUME RelInv, NEW q \in Requests, ReadForBundle(q)
  PROVE  RelInv' /\ Grows
  <1> DEFINE d == call[q].deliverable
             row == deliverables[d]
             m == Manifest(d, call[q].spelling, row.status, row.record)
  <1>1. /\ pc[q] = "read_for_bundle" /\ pc[q] # "idle" /\ UNCHANGED <<tables, sent>>
        /\ Holds(q) /\ RowTypes
    BY Types DEF ReadForBundle, RelInv
  <1>2. /\ call[q] \in Calls /\ call[q].op = "bundle" /\ d \in DeliverableIds
        /\ call[q].spelling \in Spellings
    BY <1>1, Served DEF Holds, ServesItsCall, CallType
  <1>3. "not_found" \in Codes /\ "denied" \in Codes /\ "put_manifest" \in Labels
    BY DEF Codes, Labels
  <1>4. CASE Answer(q, "not_found", None) \/ Answer(q, "denied", None)
    BY <1>1, <1>3, <1>4, AnswerQuietly
  <1>5. CASE /\ Exists(d) /\ row.record \in artifacts \cup {None}
             /\ row.docx /\ row.status \in {"final", "sent"}
             /\ Keep(q, m) /\ Goto(q, "put_manifest")
    <2>1. pc'[q] = "put_manifest" /\ call'[q] = call[q]
      BY <1>3, <1>5, GotoStep
    <2>2. hand'[q] = m
      BY <1>5, KeepEffect DEF RelInv
    <2>3. m \in Manifests /\ m.manifest_of = d /\ m.record = row.record
      BY <1>1, <1>2, <1>5 DEF RowTypes, Deliverable, Manifest, Manifests
    <2>4. Bundling(q)'
      BY <1>1, <1>5, <2>1, <2>2, <2>3 DEF Bundling, Past, tables
    <2>5. ServesItsCall(q)' /\ Finalizing(q)' /\ Releasing(q)'
      BY <1>2, <2>1 DEF ServesItsCall, Finalizing, Releasing
    <2>6. Tables' /\ Grows /\ RowTypes'
      BY <1>1, Quiet, QuietTypes
    <2> QED BY <1>1, <1>3, <1>5, <2>4, <2>5, <2>6, GoOn
  <1> QED BY <1>4, <1>5 DEF ReadForBundle

LEMMA PutManifestInd ==
  ASSUME RelInv, NEW q \in Requests, PutManifest(q)
  PROVE  RelInv' /\ Grows
  <1>1. /\ pc[q] = "put_manifest" /\ pc[q] # "idle" /\ Goto(q, "put_zip") /\ hand' = hand
        /\ UNCHANGED <<deliverables, deliverable_bundles, idempotency_keys, audit_events, sent>>
        /\ artifacts' = artifacts \cup {hand[q]} /\ Holds(q)
    BY DEF PutManifest, RelInv
  <1>2. /\ call[q] \in Calls /\ call[q].op = "bundle" /\ Bundling(q)
        /\ hand[q] \in Manifests
    BY <1>1, Served DEF Holds, ServesItsCall, Bundling
  <1>3. RowTypes' /\ Tables' /\ Grows
    BY <1>1, <1>2, ArtifactStored
  <1>4. "put_zip" \in Labels
    BY DEF Labels
  <1>5. pc'[q] = "put_zip" /\ call'[q] = call[q]
    BY <1>1, <1>4, GotoStep
  <1>6. ServesItsCall(q)' /\ Finalizing(q)' /\ Releasing(q)'
    BY <1>2, <1>5 DEF ServesItsCall, Finalizing, Releasing
  <1>7. Bundling(q)'
    BY <1>1, <1>2, <1>5 DEF Bundling, Past
  <1> QED BY <1>1, <1>3, <1>4, <1>6, <1>7, GoOn

LEMMA PutZipInd ==
  ASSUME RelInv, NEW q \in Requests, PutZip(q)
  PROVE  RelInv' /\ Grows
  <1>1. /\ pc[q] = "put_zip" /\ pc[q] # "idle" /\ Goto(q, "insert_bundle") /\ hand' = hand
        /\ UNCHANGED <<deliverables, deliverable_bundles, idempotency_keys, audit_events, sent>>
        /\ artifacts' = artifacts \cup {Zip(hand[q])} /\ Holds(q)
    BY DEF PutZip, RelInv
  <1>2. /\ call[q] \in Calls /\ call[q].op = "bundle" /\ Bundling(q)
        /\ hand[q] \in Manifests
    BY <1>1, Served DEF Holds, ServesItsCall, Bundling
  <1>3. Zip(hand[q]) \in Zips
    BY <1>2 DEF Zip, Zips
  <1>4. RowTypes' /\ Tables' /\ Grows
    BY <1>1, <1>3, ArtifactStored
  <1>5. "insert_bundle" \in Labels
    BY DEF Labels
  <1>6. pc'[q] = "insert_bundle" /\ call'[q] = call[q]
    BY <1>1, <1>5, GotoStep
  <1>7. ServesItsCall(q)' /\ Finalizing(q)' /\ Releasing(q)'
    BY <1>2, <1>6 DEF ServesItsCall, Finalizing, Releasing
  <1>8. Bundling(q)'
    BY <1>1, <1>2, <1>6 DEF Bundling, Past
  <1> QED BY <1>1, <1>4, <1>5, <1>7, <1>8, GoOn

LEMMA InsertBundleInd ==
  ASSUME RelInv, NEW q \in Requests, NEW b \in BundleIds, InsertBundle(q, b)
  PROVE  RelInv' /\ Grows
  <1> DEFINE d == call[q].deliverable
             new == [status |-> "created", deliverable |-> d, manifest |-> hand[q]]
  <1>1. /\ pc[q] = "insert_bundle" /\ pc[q] # "idle" /\ Holds(q) /\ Tables /\ RowTypes
        /\ UNCHANGED <<deliverables, idempotency_keys, audit_events, artifacts, sent>>
    BY Types DEF InsertBundle, RelInv
  <1>2. /\ call[q] \in Calls /\ call[q].op = "bundle" /\ d \in DeliverableIds
        /\ deliverables[d].docx /\ Past(d)
        /\ hand[q] \in Manifests /\ hand[q].manifest_of = d
        /\ hand[q].record \in artifacts \cup {None}
        /\ hand[q] \in artifacts /\ Zip(hand[q]) \in artifacts
    BY <1>1, Served DEF Holds, ServesItsCall, Bundling
  <1>3. "ok" \in Codes /\ "error" \in Codes
    BY DEF Codes
  <1>4. CASE Answer(q, "error", None) /\ UNCHANGED deliverable_bundles
    <2>1. UNCHANGED <<tables, sent>>
      BY <1>1, <1>4 DEF tables
    <2> QED BY <1>1, <1>3, <1>4, <2>1, AnswerQuietly
  <1>5. CASE /\ deliverable_bundles[b].status = "absent" /\ Answer(q, "ok", b)
             /\ deliverable_bundles' = [deliverable_bundles EXCEPT ![b] = new]
    <2>1. new \in Bundle
      BY <1>2 DEF Bundle
    <2>2. /\ deliverable_bundles' \in [BundleIds -> Bundle] /\ deliverable_bundles'[b] = new
          /\ \A x \in BundleIds : x # b => deliverable_bundles'[x] = deliverable_bundles[x]
      BY <1>1, <1>5, <2>1 DEF RowTypes
    <2>3. RowTypes'
      BY <1>1, <2>2 DEF RowTypes
    <2>4. Grows
      BY <1>1, <1>5, <2>2
      DEF Tables, RecordsSayFinal, Grows, DeliverablesGrow, BundlesGrow, Past
    <2>5. BundlesAreWhole'
      BY <1>1, <1>2, <2>2 DEF Tables, BundlesAreWhole, Past
    <2>6. LogIsTrue' /\ LoggedBundlesExist'
      <3>1. \A e \in audit_events : e.bundle \in BundleIds /\ e.bundle # b
        BY <1>1, <1>5 DEF RowTypes, Event, Tables, LoggedBundlesExist, HasBundle
      <3> QED BY <1>1, <2>2, <3>1 DEF Tables, LogIsTrue, LoggedBundlesExist, HasBundle
    <2>7. Tables'
      BY <1>1, <2>5, <2>6 DEF Tables, RecordsSayFinal, StoredAnswersHold,
         SentIsRemembered, OnlyFinalizeStores
    <2> QED BY <1>1, <1>2, <1>3, <1>5, <2>3, <2>4, <2>7, Finish
  <1> QED BY <1>4, <1>5 DEF InsertBundle

LEMMA RevokeInd ==
  ASSUME RelInv, NEW q \in Requests, Revoke(q)
  PROVE  RelInv' /\ Grows
  <1> DEFINE d == call[q].deliverable
             b == call[q].bundle
  <1>1. /\ pc[q] = "revoke" /\ pc[q] # "idle" /\ Holds(q) /\ Tables /\ RowTypes
        /\ UNCHANGED <<deliverables, idempotency_keys, audit_events, artifacts, sent>>
    BY Types DEF Revoke, RelInv
  <1>2. /\ call[q] \in Calls /\ call[q].op = "revoke"
        /\ d \in DeliverableIds /\ b \in BundleIds
    BY <1>1, Served DEF Holds, ServesItsCall
  <1>3. CASE Answer(q, "not_found", None) /\ UNCHANGED deliverable_bundles
    <2>1. UNCHANGED <<tables, sent>> /\ "not_found" \in Codes
      BY <1>1, <1>3 DEF tables, Codes
    <2> QED BY <1>1, <1>3, <2>1, AnswerQuietly
  <1>4. CASE /\ HasBundle(d, b) /\ deliverable_bundles[b].status # "revoked"
             /\ deliverable_bundles' = [deliverable_bundles EXCEPT ![b].status = "revoked"]
             /\ Keep(q, b) /\ Goto(q, "emit")
    <2>1. /\ deliverable_bundles[b] \in Bundle
          /\ deliverable_bundles'[b] = [deliverable_bundles[b] EXCEPT !.status = "revoked"]
          /\ \A x \in BundleIds : x # b => deliverable_bundles'[x] = deliverable_bundles[x]
      BY <1>1, <1>2, <1>4 DEF RowTypes
    <2>2. /\ deliverable_bundles'[b].status = "revoked"
          /\ deliverable_bundles'[b].deliverable = deliverable_bundles[b].deliverable
          /\ deliverable_bundles'[b].manifest = deliverable_bundles[b].manifest
          /\ deliverable_bundles' \in [BundleIds -> Bundle]
      BY <1>1, <1>2, <1>4, <2>1 DEF RowTypes, Bundle
    <2>3. RowTypes'
      BY <1>1, <2>2 DEF RowTypes
    <2>4. Grows
      BY <1>1, <2>1 DEF Tables, RecordsSayFinal, Grows, DeliverablesGrow, BundlesGrow, Past
    <2>5. BundlesAreWhole'
      <3> SUFFICES ASSUME NEW x \in BundleIds, deliverable_bundles'[x].status # "absent"
                   PROVE  /\ deliverable_bundles[x].status # "absent"
                          /\ deliverable_bundles'[x].deliverable = deliverable_bundles[x].deliverable
                          /\ deliverable_bundles'[x].manifest = deliverable_bundles[x].manifest
        BY <1>1 DEF Tables, BundlesAreWhole
      <3> QED BY <1>4, <2>1, <2>2 DEF HasBundle
    <2>6. LogIsTrue' /\ LoggedBundlesExist'
      <3> SUFFICES ASSUME NEW e \in audit_events
                   PROVE  /\ deliverable_bundles'[e.bundle].deliverable = e.deliverable
                          /\ deliverable_bundles'[e.bundle].status # "absent"
                          /\ e.op = "revoke" => deliverable_bundles'[e.bundle].status = "revoked"
        BY <1>1 DEF Tables, LogIsTrue, LoggedBundlesExist, HasBundle
      <3>1. e.bundle \in BundleIds
        BY <1>1 DEF RowTypes, Event
      <3> QED BY <1>1, <2>1, <2>2, <3>1 DEF Tables, LogIsTrue, LoggedBundlesExist, HasBundle
    <2>7. Tables'
      BY <1>1, <2>5, <2>6 DEF Tables, RecordsSayFinal, StoredAnswersHold,
         SentIsRemembered, OnlyFinalizeStores
    <2>8. "emit" \in Labels
      BY DEF Labels
    <2>9. /\ pc'[q] = "emit" /\ call'[q] = call[q] /\ late'[q] = late[q] /\ Alone(q)
      BY <1>4, <2>8, GotoStep
    <2>10. Sole(q)'
      <3> SUFFICES ASSUME NEW p \in Requests \ {q}, pc[p] = "emit", call[p].op = "revoke"
                   PROVE  call[p].bundle # call[q].bundle
        BY <2>9 DEF Sole, Alone
      <3> QED BY <1>4 DEF RelInv, Holds, Releasing
    <2>11. ServesItsCall(q)' /\ Finalizing(q)' /\ Bundling(q)'
      BY <1>2, <2>9 DEF ServesItsCall, Finalizing, Bundling
    <2>12. Releasing(q)'
      BY <1>2, <1>4, <2>2, <2>9 DEF Releasing, HasBundle
    <2> QED BY <1>1, <1>4, <2>3, <2>4, <2>7, <2>8, <2>10, <2>11, <2>12, GoOn
  <1> QED BY <1>3, <1>4 DEF Revoke

LEMMA ReadStatusInd ==
  ASSUME RelInv, NEW q \in Requests, ReadStatus(q)
  PROVE  RelInv' /\ Grows
  <1> DEFINE d == call[q].deliverable
  <1>1. /\ pc[q] = "read_status" /\ pc[q] # "idle" /\ UNCHANGED <<tables, sent>>
        /\ Holds(q) /\ Tables
    BY DEF ReadStatus, RelInv
  <1>2. call[q] \in Calls /\ call[q].op = "download" /\ d \in DeliverableIds
    BY <1>1, Served DEF Holds, ServesItsCall
  <1>3. "not_found" \in Codes /\ "denied" \in Codes /\ "read_bundle" \in Labels
    BY DEF Codes, Labels
  <1>4. CASE Answer(q, "not_found", None) \/ Answer(q, "denied", None)
    BY <1>1, <1>3, <1>4, AnswerQuietly
  <1>5. CASE deliverables[d].status = "sent" /\ Goto(q, "read_bundle") /\ UNCHANGED hand
    <2>1. d \in sent
      BY <1>1, <1>2, <1>5 DEF Tables, SentIsRemembered
    <2>2. pc'[q] = "read_bundle" /\ call'[q] = call[q]
      BY <1>3, <1>5, GotoStep
    <2>3. ServesItsCall(q)' /\ Finalizing(q)' /\ Bundling(q)' /\ Releasing(q)'
      BY <1>1, <1>2, <2>1, <2>2 DEF ServesItsCall, Finalizing, Bundling, Releasing
    <2>4. Tables' /\ Grows /\ RowTypes'
      BY <1>1, Quiet, QuietTypes
    <2> QED BY <1>1, <1>3, <1>5, <2>3, <2>4, GoOn
  <1> QED BY <1>4, <1>5 DEF ReadStatus

LEMMA ReadBundleInd ==
  ASSUME RelInv, NEW q \in Requests, ReadBundle(q)
  PROVE  RelInv' /\ Grows
  <1> DEFINE d == call[q].deliverable
             b == call[q].bundle
  <1>1. /\ pc[q] = "read_bundle" /\ pc[q] # "idle" /\ UNCHANGED <<tables, sent>>
        /\ Holds(q) /\ Tables
    BY DEF ReadBundle, RelInv
  <1>2. call[q] \in Calls /\ call[q].op = "download" /\ d \in sent
    BY <1>1, Served DEF Holds, ServesItsCall, Releasing
  <1>3. "not_found" \in Codes /\ "denied" \in Codes /\ "fetch" \in Labels
    BY DEF Codes, Labels
  <1>4. CASE Answer(q, "not_found", None) \/ Answer(q, "denied", None)
    BY <1>1, <1>3, <1>4, AnswerQuietly
  <1>5. CASE /\ HasBundle(d, b) /\ deliverable_bundles[b].status # "revoked"
             /\ Keep(q, deliverable_bundles[b].manifest) /\ Goto(q, "fetch")
    <2>1. ~late[q]
      BY <1>1, <1>2, <1>5 DEF Holds, Lateness, StoredFor, Tables, OnlyFinalizeStores
    <2>2. pc'[q] = "fetch" /\ call'[q] = call[q] /\ late'[q] = late[q]
      BY <1>3, <1>5, GotoStep
    <2>3. hand'[q] = deliverable_bundles[b].manifest
      BY <1>5, KeepEffect DEF RelInv
    <2>4. Releasing(q)'
      BY <1>1, <1>2, <1>5, <2>1, <2>2, <2>3 DEF Releasing, HasBundle, tables
    <2>5. ServesItsCall(q)' /\ Finalizing(q)' /\ Bundling(q)'
      BY <1>2, <2>2 DEF ServesItsCall, Finalizing, Bundling
    <2>6. Tables' /\ Grows /\ RowTypes'
      BY <1>1, Quiet, QuietTypes
    <2> QED BY <1>1, <1>3, <1>5, <2>4, <2>5, <2>6, GoOn
  <1> QED BY <1>4, <1>5 DEF ReadBundle

LEMMA FetchInd ==
  ASSUME RelInv, NEW q \in Requests, Fetch(q)
  PROVE  RelInv' /\ Grows
  <1> DEFINE d == call[q].deliverable
             b == call[q].bundle
  <1>1. /\ pc[q] = "fetch" /\ pc[q] # "idle" /\ UNCHANGED <<tables, sent>> /\ Holds(q)
    BY DEF Fetch, RelInv
  <1>2. /\ call[q] \in Calls /\ call[q].op = "download" /\ d \in sent /\ ~late[q]
        /\ HasBundle(d, b) /\ hand[q] = deliverable_bundles[b].manifest
    BY <1>1, Served DEF Holds, ServesItsCall, Releasing
  <1>3. "not_found" \in Codes /\ "emit" \in Labels
    BY DEF Codes, Labels
  <1>4. CASE Answer(q, "not_found", None)
    BY <1>1, <1>3, <1>4, AnswerQuietly
  <1>5. CASE Keep(q, Zip(hand[q])) /\ Goto(q, "emit")
    <2>1. pc'[q] = "emit" /\ call'[q] = call[q] /\ late'[q] = late[q]
      BY <1>3, <1>5, GotoStep
    <2>2. hand'[q] = Zip(deliverable_bundles[b].manifest)
      BY <1>2, <1>5, KeepEffect DEF RelInv
    <2>3. Releasing(q)'
      BY <1>1, <1>2, <2>1, <2>2 DEF Releasing, HasBundle, tables
    <2>4. ServesItsCall(q)' /\ Finalizing(q)' /\ Bundling(q)' /\ Sole(q)'
      BY <1>2, <2>1 DEF ServesItsCall, Finalizing, Bundling, Sole
    <2>5. Tables' /\ Grows /\ RowTypes'
      BY <1>1, Quiet, QuietTypes
    <2> QED BY <1>1, <1>3, <1>5, <2>3, <2>4, <2>5, GoOn
  <1> QED BY <1>4, <1>5 DEF Fetch

LEMMA EmitInd ==
  ASSUME RelInv, NEW q \in Requests, Emit(q)
  PROVE  RelInv' /\ Grows
  <1> DEFINE d == call[q].deliverable
             b == call[q].bundle
             event == [op |-> call[q].op, deliverable |-> d, bundle |-> b]
  <1>1. /\ pc[q] = "emit" /\ pc[q] # "idle" /\ Answer(q, "ok", hand[q])
        /\ audit_events' \in {audit_events, audit_events \cup {event}}
        /\ UNCHANGED <<deliverables, deliverable_bundles, idempotency_keys, artifacts, sent>>
        /\ Holds(q) /\ Tables /\ RowTypes
    BY Types DEF Emit, RelInv
  <1>2. /\ call[q].op \in {"download", "revoke"} /\ HasBundle(d, b)
        /\ d \in DeliverableIds /\ b \in BundleIds
        /\ call[q].op = "download" =>
             d \in sent /\ hand[q] = Zip(deliverable_bundles[b].manifest) /\ ~late[q]
        /\ call[q].op = "revoke" => deliverable_bundles[b].status = "revoked"
    BY <1>1, Served DEF Holds, ServesItsCall, Releasing
  <1>3. "ok" \in Codes
    BY DEF Codes
  <1>4. RowTypes'
    <2>1. event \in Event
      BY <1>2 DEF Event
    <2> QED BY <1>1, <2>1 DEF RowTypes
  <1>5. Grows
    BY <1>1 DEF Tables, RecordsSayFinal, Grows, DeliverablesGrow, BundlesGrow, Past
  <1>6. LogIsTrue' /\ LoggedBundlesExist'
    BY <1>1, <1>2 DEF Tables, LogIsTrue, LoggedBundlesExist, HasBundle
  <1>7. Tables'
    BY <1>1, <1>6 DEF Tables, RecordsSayFinal, StoredAnswersHold, BundlesAreWhole,
       SentIsRemembered, OnlyFinalizeStores
  <1>8. /\ reply'.call = call[q] /\ reply'.body = hand[q] /\ reply'.late = late[q]
    BY <1>1, <1>3, AnswerStep
  <1>9. RepliesHold'
    BY <1>1, <1>2, <1>8
    DEF RepliesHold, OkAnswersAreTrue, RevokedStaysOut, Answered, HasBundle
  <1> QED BY <1>1, <1>3, <1>4, <1>5, <1>7, <1>9, Finish

LEMMA StepInd ==
  ASSUME RelInv, NEW q \in Requests, Step(q)
  PROVE  RelInv' /\ Grows
  <1>1. CASE Lookup(q) \/ StoreResponse(q) \/ Raise(q) \/ Lose(q)
    BY <1>1, LookupInd, StoreResponseInd, RaiseInd, LoseInd
  <1>2. CASE \E d \in DeliverableIds, docx \in BOOLEAN : Create(q, d, docx)
    BY <1>2, CreateInd
  <1>3. CASE MarkFinal(q) \/ PutRecord(q) \/ Point(q)
    BY <1>3, MarkFinalInd, PutRecordInd, PointInd
  <1>4. CASE MarkSent(q) \/ MarkSuperseded(q)
    BY <1>4, MarkSentInd, MarkSupersededInd
  <1>5. CASE ReadForBundle(q) \/ PutManifest(q) \/ PutZip(q)
    BY <1>5, ReadForBundleInd, PutManifestInd, PutZipInd
  <1>6. CASE \E b \in BundleIds : InsertBundle(q, b)
    BY <1>6, InsertBundleInd
  <1>7. CASE Revoke(q) \/ ReadStatus(q) \/ ReadBundle(q) \/ Fetch(q) \/ Emit(q)
    BY <1>7, RevokeInd, ReadStatusInd, ReadBundleInd, FetchInd, EmitInd
  <1> QED BY <1>1, <1>2, <1>3, <1>4, <1>5, <1>6, <1>7 DEF Step

LEMMA NextInd ==
  ASSUME RelInv, [Next]_vars
  PROVE  RelInv' /\ Grows
  <1>1. CASE Next
    BY <1>1, ReceiveInd, StepInd DEF Next
  <1>2. CASE UNCHANGED vars
    <2>1. UNCHANGED <<tables, sent>> /\ UNCHANGED <<pc, call, hand, reply, late>>
      BY <1>2 DEF vars
    <2>2. Tables' /\ Grows /\ RowTypes'
      BY <2>1, Quiet, QuietTypes
    <2>3. TypeOK'
      BY <2>1, <2>2 DEF RelInv, TypeOK, RowTypes
    <2>4. RepliesHold' /\ OneRevocation'
      BY <2>1 DEF RelInv, RepliesHold, OkAnswersAreTrue, RevokedStaysOut, Answered,
         OneRevocation, tables
    <2>5. \A q \in Requests : Holds(q)'
      BY <2>1 DEF RelInv, Holds, ServesItsCall, Lateness, StoredFor, Finalizing, Bundling,
         Releasing, Past, HasBundle, tables
    <2> QED BY <2>2, <2>3, <2>4, <2>5 DEF RelInv
  <1> QED BY <1>1, <1>2

-----------------------------------------------------------------------------
(* The theorems.                                                           *)

\* RelInv holds in every reachable state.
THEOREM RelInductive == Spec => []RelInv
  <1>1. RelInv /\ [Next]_vars => RelInv'
    BY NextInd
  <1> QED BY InitInd, <1>1, PTL DEF Spec

\* The tables and the requests have their types.
THEOREM ReleaseTypeCorrect == Spec => []TypeOK
  <1>1. RelInv => TypeOK
    BY DEF RelInv
  <1> QED BY RelInductive, <1>1, PTL

\* finalize: whatever happens between its UPDATEs, the record a deliverable
\* points to is stored and says 'final'.
THEOREM RecordsAreFinal == Spec => []RecordsSayFinal
  <1>1. RelInv => RecordsSayFinal
    BY DEF RelInv, Tables
  <1> QED BY RelInductive, <1>1, PTL

\* store_response: what a stored answer promises was made and stays stored; of
\* a deliverable whose id is written in one way it stays the record.
THEOREM AnswersHold == Spec => []StoredAnswersHold
  <1>1. RelInv => StoredAnswersHold
    BY DEF RelInv, Tables
  <1> QED BY RelInductive, <1>1, PTL

\* finalize is answered 'ok' only with the stored record of its own path; if
\* the id is written in one way, with the one that the deliverable has.
THEOREM OkMeansDone == Spec => []OkAnswersAreTrue
  <1>1. RelInv => OkAnswersAreTrue
    BY DEF RelInv, RepliesHold
  <1> QED BY RelInductive, <1>1, PTL

\* lookup_response: a retry after the answer was stored does nothing.
THEOREM LateRetriesDoNothing == Spec => []LateRetriesAreSilent
  <1>1. RelInv => LateRetriesAreSilent
    BY DEF RelInv, Holds, Finalizing, LateRetriesAreSilent
  <1> QED BY RelInductive, <1>1, PTL

\* create_bundle: what a bundle needs to be downloaded and verified is stored.
THEOREM BundlesStayWhole == Spec => []BundlesAreWhole
  <1>1. RelInv => BundlesAreWhole
    BY DEF RelInv, Tables
  <1> QED BY RelInductive, <1>1, PTL

\* download_bundle: no answer with a bundle that was revoked before the call.
THEOREM RevocationHolds == Spec => []RevokedStaysOut
  <1>1. RelInv => RevokedStaysOut
    BY DEF RelInv, RepliesHold
  <1> QED BY RelInductive, <1>1, PTL

\* revoke_bundle: the row lock and the condition let one request through.
THEOREM RevokedOnce == Spec => []OneRevocation
  <1>1. RelInv => OneRevocation
    BY DEF RelInv
  <1> QED BY RelInductive, <1>1, PTL

\* The events of revoke_bundle and download_bundle are true.
THEOREM LogIsTrustworthy == Spec => []LogIsTrue
  <1>1. RelInv => LogIsTrue
    BY DEF RelInv, Tables
  <1> QED BY RelInductive, <1>1, PTL

\* No handler takes back a revocation, a manifest or a document; nor a record,
\* but for one of the same deliverable under another spelling of its id.
THEOREM ReleasesPersist == Spec => ReleasesStay
  <1>1. RelInv /\ [Next]_vars =>
          [ /\ \A b \in BundleIds : deliverable_bundles[b].status # "absent" =>
                 /\ deliverable_bundles'[b] \in {deliverable_bundles[b],
                      [deliverable_bundles[b] EXCEPT !.status = "revoked"]}
            /\ \A d \in DeliverableIds : Exists(d) =>
                 /\ deliverables'[d].docx = deliverables[d].docx
                 /\ deliverables'[d].supersedes = deliverables[d].supersedes
                 /\ deliverables[d].record # None =>
                      {deliverables[d].record, deliverables'[d].record}
                        \subseteq FinalRecords(d)]_vars
    BY NextInd DEF Grows, BundlesGrow, DeliverablesGrow, RelInv, Tables, RecordsSayFinal
  <1> QED BY RelInductive, <1>1, PTL DEF Spec, ReleasesStay
=============================================================================
