-------------------------- MODULE LlmAdapterProofs --------------------------
(***************************************************************************)
(* For any number of clients, adapters, tenants and artifacts: what a      *)
(* client of the artifact tables was told stays true, and the ledger of    *)
(* the adapters is evidence.  Both rest on three facts about the tables:   *)
(* they only grow, an artifact is inserted at most once, and only an edge  *)
(* that nobody has seen is ever changed.                                   *)
(***************************************************************************)
EXTENDS LlmAdapter, TLAPS

EdgeCalls == {c \in HttpCalls : c.op = "edge"}

EdgeRow == [space : {c.space : c \in EdgeCalls}, from : {c.from : c \in EdgeCalls},
            to : {c.to : c \in EdgeCalls}, by : EdgeCalls, committed : BOOLEAN]

TablesOK ==
  /\ \A r, q \in artifacts : r.space = q.space /\ r.sha = q.sha => r = q
  /\ edges \in Seq(EdgeRow)
  /\ DOMAIN pc = Calls /\ DOMAIN held = Calls /\ DOMAIN answer = Calls

\* An adapter is satisfied with any row, so its documents are in no other
\* backend.
DocumentsAreReadable ==
  \A r \in artifacts : r.space = Service /\ r.sha \in Documents => r.backend = "postgres"

\* What a client that was answered 200 was told.
IsTrue(c) ==
  LET told == answer[c].body IN
  CASE c.op \in {"put", "meta"} -> {r.type : r \in Meta(c.space, c.sha)} = {told}
    [] c.op = "content" -> Content(c.space, told) # {}
    [] c.op = "lookup" -> told \subseteq {r.output : r \in CacheLookup(c.space, c.key)}
    [] c.op = "record" -> CacheLookup(c.space, c.key) # {}
    [] c.op = "lineage" -> Within(told, Lineage(c.space, c.side, c.sha))
    [] c.op = "edge" -> \E i \in DOMAIN edges : edges[i].by = c /\ Committed(edges[i])

Operations == {"put", "meta", "content", "lookup", "record", "lineage", "edge"}

ClientOK(c) ==
  /\ pc[c] = "done" /\ answer[c].status = 200 => c.op \in Operations /\ IsTrue(c)
  /\ pc[c] = "commit" => \E i \in DOMAIN edges : edges[i].by = c

Answers(c, response) == \E body \in Bodies : response = ResponseDoc(c.request, body)

\* The drift document that the ledger's row of call c needs.
DriftIsStored(c, response) ==
  c.mode = "drift" /\ response # c.expected => Content(Service, DriftDoc(c, response)) # {}

AfterItsRequest ==
  {"provider", "replay", "response", "response_insert", "drift", "drift_insert", "ledger", "load"}

\* What an adapter call at a label has stored, and what it holds.
AdapterOK(c) ==
  /\ pc[c] \in AfterItsRequest => Content(Service, RequestDoc(c.request)) # {}
  /\ pc[c] \in {"provider", "response", "response_insert", "drift", "drift_insert"}
       => c.mode # "replay"
  /\ pc[c] = "replay" => c.mode = "replay"
  /\ pc[c] \in {"response", "response_insert", "drift", "drift_insert"} => Answers(c, held[c])
  /\ pc[c] \in {"drift", "drift_insert", "ledger", "load"} => Content(Service, held[c]) # {}
  /\ pc[c] \in {"ledger", "load"} => /\ c.mode # "replay" => Answers(c, held[c])
                                     /\ DriftIsStored(c, held[c])

RowIsEvidence(row) ==
  /\ Content(Service, row.request) # {} /\ Content(Service, row.response) # {}
  /\ row.mode # "replay" => row.response.request = row.request
  /\ row.mode = "drift" /\ row.response # row.id.expected
       => Content(Service, DriftDoc(row.id, row.response)) # {}

AdapterInv ==
  /\ TablesOK /\ DocumentsAreReadable
  /\ \A c \in HttpCalls : ClientOK(c)
  /\ \A c \in LlmCalls : AdapterOK(c)
  /\ \A row \in llm_calls : RowIsEvidence(row)

-----------------------------------------------------------------------------
(* How a step changes the tables.                                          *)

\* At most one artifact is inserted, where there was none.
ArtifactsMove ==
  \/ artifacts' = artifacts
  \/ \E space, sha, type : Meta(space, sha) = {} /\ Insert(space, sha, type)

CacheMoves ==
  \/ cache' = cache
  \/ \E space, key, output : CacheRecord(space, key, output)

\* An edge is appended, uncommitted, or those of one call are committed.
EdgesMove ==
  \/ edges' = edges
  \/ \E e \in EdgeRow : edges' = Append(edges, e)
  \/ \E c \in EdgeCalls :
       edges' = [i \in DOMAIN edges |->
                   IF edges[i].by = c THEN [edges[i] EXCEPT !.committed = TRUE] ELSE edges[i]]

TablesMove == ArtifactsMove /\ CacheMoves /\ EdgesMove

\* The step is call c's.
IsStepOf(c) ==
  /\ DOMAIN pc' = DOMAIN pc /\ DOMAIN held' = DOMAIN held /\ DOMAIN answer' = DOMAIN answer
  /\ \A d \in Calls \ {c} : pc'[d] = pc[d] /\ held'[d] = held[d] /\ answer'[d] = answer[d]

HttpStep(c) ==
  \/ Refuse(c) \/ PutSelect(c) \/ PutInsert(c) \/ GetMeta(c)
  \/ ServiceContent(c) \/ GatewayContentType(c) \/ GatewayContentBytes(c)
  \/ EdgeInsert(c) \/ EdgeCommit(c) \/ GetLineage(c)
  \/ GetCache(c) \/ PostCache(c)

AdapterStep(c) ==
  \/ AdapterSelect(c) \/ AdapterInsert(c) \/ Complete(c) \/ Replay(c)
  \/ RecordLedger(c) \/ LoadBody(c) \/ Die(c)

\* Another row of an artifact, or an artifact that was not there.
LEMMA ArtifactsGrow ==
  ASSUME ArtifactsMove
  PROVE  /\ artifacts \subseteq artifacts'
         /\ \A r \in artifacts' :
              r \in artifacts \/ (r.backend = "postgres" /\ Meta(r.space, r.sha) = {})
  <1>1. CASE artifacts' = artifacts
    BY <1>1
  <1>2. ASSUME NEW space, NEW sha, NEW type, Meta(space, sha) = {}, Insert(space, sha, type)
        PROVE  /\ artifacts \subseteq artifacts'
               /\ \A r \in artifacts' :
                    r \in artifacts \/ (r.backend = "postgres" /\ Meta(r.space, r.sha) = {})
    BY <1>2 DEF Insert
  <1> QED BY <1>1, <1>2 DEF ArtifactsMove

LEMMA ArtifactsAreUnique ==
  ASSUME TablesOK, ArtifactsMove
  PROVE  \A r, q \in artifacts' : r.space = q.space /\ r.sha = q.sha => r = q
  <1>1. CASE artifacts' = artifacts
    BY <1>1 DEF TablesOK
  <1>2. ASSUME NEW space, NEW sha, NEW type, Meta(space, sha) = {}, Insert(space, sha, type)
        PROVE  \A r, q \in artifacts' : r.space = q.space /\ r.sha = q.sha => r = q
    <2> DEFINE new == [space |-> space, sha |-> sha, type |-> type, backend |-> "postgres"]
    <2>1. artifacts' = artifacts \cup {new}
      BY <1>2 DEF Insert
    <2>2. \A r \in artifacts : ~(r.space = space /\ r.sha = sha)
      BY <1>2 DEF Meta
    <2>3. new.space = space /\ new.sha = sha
      OBVIOUS
    <2> HIDE DEF new
    <2> QED BY <2>1, <2>2, <2>3 DEF TablesOK
  <1> QED BY <1>1, <1>2 DEF ArtifactsMove

\* No edge_id is lost, and what was committed stays as it was.
LEMMA EdgesGrow ==
  ASSUME TablesOK, EdgesMove
  PROVE  /\ edges' \in Seq(EdgeRow)
         /\ \A i \in DOMAIN edges : /\ i \in DOMAIN edges' /\ edges'[i].by = edges[i].by
                                    /\ Committed(edges[i]) => edges'[i] = edges[i]
  <1>0. edges \in Seq(EdgeRow) /\ \A i \in DOMAIN edges : edges[i] \in EdgeRow
    BY DEF TablesOK
  <1>1. CASE edges' = edges
    BY <1>0, <1>1
  <1>2. ASSUME NEW e \in EdgeRow, edges' = Append(edges, e)
        PROVE  /\ edges' \in Seq(EdgeRow)
               /\ \A i \in DOMAIN edges : i \in DOMAIN edges' /\ edges'[i] = edges[i]
    BY <1>0, <1>2
  <1>3. ASSUME NEW c \in EdgeCalls,
               edges' = [i \in DOMAIN edges |->
                 IF edges[i].by = c THEN [edges[i] EXCEPT !.committed = TRUE] ELSE edges[i]]
        PROVE  /\ edges' \in Seq(EdgeRow)
               /\ \A i \in DOMAIN edges : /\ i \in DOMAIN edges' /\ edges'[i].by = edges[i].by
                                          /\ Committed(edges[i]) => edges'[i] = edges[i]
    <2>1. ASSUME NEW e \in EdgeRow
          PROVE  /\ [e EXCEPT !.committed = TRUE] \in EdgeRow
                 /\ [e EXCEPT !.committed = TRUE].by = e.by
                 /\ Committed(e) => [e EXCEPT !.committed = TRUE] = e
      BY DEF EdgeRow, Committed
    <2>2. \A i \in DOMAIN edges' : edges'[i] \in EdgeRow
      BY <1>0, <1>3, <2>1
    <2>3. DOMAIN edges' = 1..Len(edges) /\ Len(edges) \in Nat
      BY <1>0, <1>3
    <2>4. edges' = [i \in 1..Len(edges) |-> edges'[i]]
      BY <1>0, <1>3
    <2>5. edges' \in [1..Len(edges) -> EdgeRow]
      BY <2>2, <2>3, <2>4
    <2>6. edges' \in Seq(EdgeRow)
      BY <2>3, <2>5
    <2> QED BY <1>0, <1>3, <2>1, <2>6
  <1> QED BY <1>1, <1>2, <1>3 DEF EdgesMove

LEMMA TablesStayOK ==
  ASSUME TablesOK, TablesMove, NEW c \in Calls, IsStepOf(c)
  PROVE  TablesOK'
  <1>1. edges' \in Seq(EdgeRow)
    BY EdgesGrow DEF TablesMove
  <1> QED BY <1>1, ArtifactsAreUnique DEF TablesMove, TablesOK, IsStepOf

-----------------------------------------------------------------------------
(* What holds of the tables once holds ever after.                         *)

LEMMA ContentStays ==
  ASSUME TablesMove, NEW space, NEW sha, Content(space, sha) # {}
  PROVE  Content(space, sha)' # {}
  BY ArtifactsGrow DEF TablesMove, Content, Meta

LEMMA StaysTrue ==
  ASSUME TablesOK, TablesMove, NEW c \in HttpCalls, IsTrue(c), answer'[c] = answer[c],
         c.op \in Operations
  PROVE  IsTrue(c)'
  <1> USE DEF Operations
  <1> DEFINE told == answer[c].body
  <1>1. CASE c.op \in {"put", "meta"}
    <2>1. {r.type : r \in Meta(c.space, c.sha)} = {told}
      BY <1>1 DEF IsTrue
    <2>2. PICK r \in Meta(c.space, c.sha) : TRUE
      BY <2>1
    <2>3. Meta(c.space, c.sha)' = Meta(c.space, c.sha)
      BY <2>2, ArtifactsGrow DEF TablesMove, Meta
    <2> QED BY <1>1, <2>1, <2>3 DEF IsTrue
  <1>2. CASE c.op = "content"
    BY <1>2, ContentStays DEF IsTrue
  <1>3. cache \subseteq cache'
    BY DEF TablesMove, CacheMoves, CacheRecord
  <1>7. CacheLookup(c.space, c.key) \subseteq CacheLookup(c.space, c.key)'
    BY <1>3 DEF CacheLookup
  <1>8. CASE c.op = "lookup"
    <2>1. told \subseteq {r.output : r \in CacheLookup(c.space, c.key)}
      BY <1>8 DEF IsTrue
    <2>2. told \subseteq {r.output : r \in CacheLookup(c.space, c.key)'}
      BY <1>7, <2>1
    <2> QED BY <1>8, <2>2 DEF IsTrue
  <1>4. CASE c.op = "record"
    BY <1>7, <1>4 DEF IsTrue
  <1>5. CASE c.op = "lineage"
    <2>1. Within(told, Lineage(c.space, c.side, c.sha))
      BY <1>5 DEF IsTrue
    <2>2. ASSUME NEW i \in DOMAIN Lineage(c.space, c.side, c.sha)
          PROVE  /\ i \in DOMAIN (Lineage(c.space, c.side, c.sha)')
                 /\ (Lineage(c.space, c.side, c.sha)')[i] = Lineage(c.space, c.side, c.sha)[i]
      BY <2>2, EdgesGrow DEF TablesMove, Lineage
    <2>3. Within(told, Lineage(c.space, c.side, c.sha)')
      BY <2>1, <2>2 DEF Within
    <2> QED BY <1>5, <2>3 DEF IsTrue, Within
  <1>6. CASE c.op = "edge"
    BY <1>6, EdgesGrow DEF TablesMove, IsTrue, Committed
  <1> QED BY <1>1, <1>2, <1>8, <1>4, <1>5, <1>6

-----------------------------------------------------------------------------
(* The steps of a client of the tables.                                    *)

LEMMA HttpStepsMove ==
  ASSUME TablesOK, NEW c \in HttpCalls, HttpStep(c)
  PROVE  TablesMove /\ IsStepOf(c) /\ UNCHANGED llm_calls
  <1>0. DOMAIN pc = Calls /\ DOMAIN held = Calls /\ DOMAIN answer = Calls
    BY DEF TablesOK
  <1> USE DEF TablesMove, ArtifactsMove, CacheMoves, EdgesMove, IsStepOf, Goto, Reply, Tables
  <1>1. CASE Refuse(c)
    BY <1>0, <1>1 DEF Refuse
  <1>2. CASE PutSelect(c)
    BY <1>0, <1>2 DEF PutSelect
  <1>3. CASE PutInsert(c)
    BY <1>0, <1>3 DEF PutInsert
  <1>4. CASE GetMeta(c)
    BY <1>0, <1>4 DEF GetMeta
  <1>5. CASE ServiceContent(c) \/ GatewayContentType(c) \/ GatewayContentBytes(c)
    BY <1>0, <1>5 DEF ServiceContent, GatewayContentType, GatewayContentBytes, SendContent
  <1>6. CASE EdgeInsert(c)
    <2>1. [space |-> c.space, from |-> c.from, to |-> c.to, by |-> c, committed |-> FALSE] \in EdgeRow
      BY <1>6 DEF EdgeInsert, Begin, EdgeRow, EdgeCalls
    <2> QED BY <1>0, <1>6, <2>1 DEF EdgeInsert
  <1>7. CASE EdgeCommit(c)
    BY <1>0, <1>7 DEF EdgeCommit, EdgeCalls
  <1>8. CASE GetLineage(c) \/ GetCache(c)
    BY <1>0, <1>8 DEF GetLineage, GetCache
  <1>9. CASE PostCache(c)
    BY <1>0, <1>9 DEF PostCache
  <1> QED BY <1>1, <1>2, <1>3, <1>4, <1>5, <1>6, <1>7, <1>8, <1>9 DEF HttpStep

\* Nobody else's step makes an answer wrong.
LEMMA ClientStaysOK ==
  ASSUME TablesOK, TablesMove, NEW c \in HttpCalls, ClientOK(c),
         pc'[c] = pc[c], answer'[c] = answer[c]
  PROVE  ClientOK(c)'
  <1>1. pc[c] = "commit" => \E i \in DOMAIN edges' : edges'[i].by = c
    BY EdgesGrow DEF TablesMove, ClientOK
  <1> QED BY <1>1, StaysTrue DEF ClientOK

LEMMA ClientMovesOK ==
  ASSUME TablesOK, NEW c \in HttpCalls, ClientOK(c), HttpStep(c)
  PROVE  ClientOK(c)'
  <1>0. c \in Calls /\ DOMAIN pc = Calls /\ DOMAIN answer = Calls
    BY DEF TablesOK, HttpCalls
  <1> USE DEF Goto, Reply, Operations
  <1>1. CASE Refuse(c)
    BY <1>0, <1>1 DEF Refuse, ClientOK
  <1>2. ASSUME Meta(c.space, c.sha) # {}
        PROVE  {r.type : r \in Meta(c.space, c.sha)} =
                 {(CHOOSE r \in Meta(c.space, c.sha) : TRUE).type}
    <2>1. \A r, q \in Meta(c.space, c.sha) : r = q
      BY DEF TablesOK, Meta
    <2> QED BY <1>2, <2>1
  <1>3. CASE PutSelect(c)
    <2>1. CASE Meta(c.space, c.sha) = {}
      BY <1>0, <1>3, <2>1 DEF PutSelect, ClientOK
    <2>2. CASE Meta(c.space, c.sha) # {}
      <3>1. Meta(c.space, c.sha)' = Meta(c.space, c.sha) /\ c.op = "put" /\ pc'[c] = "done"
            /\ answer'[c].body = (CHOOSE r \in Meta(c.space, c.sha) : TRUE).type
        BY <1>0, <1>3, <2>2 DEF PutSelect, Begin, Tables, Meta
      <3> QED BY <1>2, <2>2, <3>1 DEF ClientOK, IsTrue
    <2> QED BY <2>1, <2>2
  <1>4. CASE PutInsert(c)
    <2>1. CASE Meta(c.space, c.sha) # {}
      BY <1>0, <1>4, <2>1 DEF PutInsert, ClientOK
    <2>2. CASE Meta(c.space, c.sha) = {}
      <3>1. c.op = "put" /\ pc'[c] = "done" /\ answer'[c].body = c.type
        BY <1>0, <1>4, <2>2 DEF PutInsert
      <3>2. Meta(c.space, c.sha)' =
              {[space |-> c.space, sha |-> c.sha, type |-> c.type, backend |-> "postgres"]}
        BY <1>4, <2>2 DEF PutInsert, Insert, Meta
      <3>3. {r.type : r \in Meta(c.space, c.sha)'} = {c.type}
        BY <3>2
      <3> QED BY <3>1, <3>3 DEF ClientOK, IsTrue
    <2> QED BY <2>1, <2>2
  <1>5. CASE GetMeta(c)
    <2>1. Meta(c.space, c.sha)' = Meta(c.space, c.sha) /\ c.op = "meta" /\ pc'[c] = "done"
          /\ answer'[c] = IF Meta(c.space, c.sha) = {} THEN [status |-> 404, body |-> None]
               ELSE [status |-> 200, body |-> (CHOOSE r \in Meta(c.space, c.sha) : TRUE).type]
      BY <1>0, <1>5 DEF GetMeta, Begin, Tables, Meta
    <2>2. CASE Meta(c.space, c.sha) # {}
      <3>1. answer'[c].body = (CHOOSE r \in Meta(c.space, c.sha) : TRUE).type
        BY <2>1, <2>2
      <3> QED BY <1>2, <2>1, <2>2, <3>1 DEF ClientOK, IsTrue
    <2>3. CASE Meta(c.space, c.sha) = {}
      <3>1. answer'[c].status = 404
        BY <2>1, <2>3
      <3> QED BY <2>1, <3>1 DEF ClientOK
    <2> QED BY <2>2, <2>3
  <1>6. CASE ServiceContent(c) \/ GatewayContentBytes(c)
    <2>1. SendContent(c) /\ c.op = "content" /\ artifacts' = artifacts
      BY <1>6 DEF ServiceContent, GatewayContentBytes, Begin, Tables
    <2>2. pc'[c] = "done" /\ Content(c.space, c.sha)' = Content(c.space, c.sha)
          /\ answer'[c] = IF Content(c.space, c.sha) = {} THEN [status |-> 404, body |-> None]
                          ELSE [status |-> 200, body |-> c.sha]
      BY <1>0, <2>1 DEF SendContent, Content, Meta
    <2>3. ASSUME answer'[c].status = 200
          PROVE  Content(c.space, answer[c].body)' # {}
      <3>1. answer'[c].body = c.sha /\ Content(c.space, c.sha) # {}
        BY <2>2, <2>3
      <3> QED BY <2>1, <3>1 DEF Content, Meta
    <2> QED BY <2>1, <2>2, <2>3 DEF ClientOK, IsTrue
  <1>7. CASE GatewayContentType(c)
    BY <1>0, <1>7 DEF GatewayContentType, ClientOK
  <1>8. CASE EdgeInsert(c)
    <2>1. CASE Stored(c.space, {c.from, c.to})
      <3> DEFINE e == [space |-> c.space, from |-> c.from, to |-> c.to, by |-> c, committed |-> FALSE]
      <3>1. e \in EdgeRow /\ edges' = Append(edges, e) /\ pc'[c] = "commit"
        BY <1>0, <1>8, <2>1 DEF EdgeInsert, Begin, EdgeRow, EdgeCalls
      <3>2. edges \in Seq(EdgeRow) /\ e.by = c
        BY DEF TablesOK
      <3> HIDE DEF e
      <3>3. Len(edges) + 1 \in DOMAIN edges' /\ edges'[Len(edges) + 1] = e
        BY <3>1, <3>2
      <3> QED BY <3>1, <3>2, <3>3 DEF ClientOK
    <2>2. CASE ~Stored(c.space, {c.from, c.to})
      BY <1>0, <1>8, <2>2 DEF EdgeInsert, ClientOK
    <2> QED BY <2>1, <2>2
  <1>9. CASE EdgeCommit(c)
    <2>1. PICK i \in DOMAIN edges : edges[i].by = c
      BY <1>9 DEF EdgeCommit, ClientOK
    <2>2. edges[i] \in EdgeRow
      BY DEF TablesOK
    <2>3. edges'[i] = [edges[i] EXCEPT !.committed = TRUE] /\ i \in DOMAIN edges'
      BY <1>9, <2>1 DEF EdgeCommit
    <2>4. edges'[i].by = c /\ edges'[i].committed
      BY <2>1, <2>2, <2>3 DEF EdgeRow
    <2>5. c.op = "edge" /\ pc'[c] = "done"
      BY <1>0, <1>9 DEF EdgeCommit
    <2> QED BY <2>3, <2>4, <2>5 DEF ClientOK, IsTrue, Committed
  <1>10. CASE GetLineage(c)
    <2>1. edges' = edges /\ c.op = "lineage" /\ pc'[c] = "done"
          /\ answer'[c].body = Lineage(c.space, c.side, c.sha)
      BY <1>0, <1>10 DEF GetLineage, Begin, Tables
    <2>2. Lineage(c.space, c.side, c.sha)' = Lineage(c.space, c.side, c.sha)
      BY <2>1 DEF Lineage
    <2>3. Within(answer'[c].body, Lineage(c.space, c.side, c.sha)')
      BY <2>1, <2>2 DEF Within
    <2> QED BY <2>1, <2>3 DEF ClientOK, IsTrue, Within
  <1>11. CASE GetCache(c)
    <2>1. cache' = cache /\ c.op = "lookup" /\ pc'[c] = "done"
          /\ answer'[c].body = {r.output : r \in CacheLookup(c.space, c.key)}
      BY <1>0, <1>11 DEF GetCache, Begin, Tables
    <2>2. CacheLookup(c.space, c.key)' = CacheLookup(c.space, c.key)
      BY <2>1 DEF CacheLookup
    <2> QED BY <2>1, <2>2 DEF ClientOK, IsTrue
  <1>12. CASE PostCache(c)
    <2>1. /\ c.op = "record" /\ pc'[c] = "done"
          /\ answer'[c].status = 200 => CacheRecord(c.space, c.key, c.output)
      BY <1>0, <1>12 DEF PostCache, Begin
    <2>2. ASSUME CacheRecord(c.space, c.key, c.output)
          PROVE  CacheLookup(c.space, c.key)' # {}
      <3>1. CASE CacheLookup(c.space, c.key) # {}
        BY <2>2, <3>1 DEF CacheRecord, CacheLookup
      <3>2. CASE CacheLookup(c.space, c.key) = {}
        <4>1. [space |-> c.space, key |-> c.key, output |-> c.output] \in cache'
          BY <2>2, <3>2 DEF CacheRecord
        <4> QED BY <4>1 DEF CacheLookup
      <3> QED BY <3>1, <3>2
    <2> QED BY <2>1, <2>2 DEF ClientOK, IsTrue
  <1> QED BY <1>1, <1>3, <1>4, <1>5, <1>6, <1>7, <1>8, <1>9, <1>10, <1>11, <1>12 DEF HttpStep

-----------------------------------------------------------------------------
(* The steps of an adapter.                                                *)

LEMMA Labels ==
  /\ DOMAIN InsertOf = {"begin", "response", "drift"}
  /\ Range(InsertOf) = {"request_insert", "response_insert", "drift_insert"}
  /\ InsertOf["begin"] = "request_insert"
  /\ InsertOf["response"] = "response_insert" /\ InsertOf["drift"] = "drift_insert"
  <1>1. DOMAIN InsertOf = {"begin", "response", "drift"}
    BY DEF InsertOf
  <1>2. /\ InsertOf["begin"] = "request_insert"
        /\ InsertOf["response"] = "response_insert" /\ InsertOf["drift"] = "drift_insert"
    BY DEF InsertOf
  <1>3. Range(InsertOf) = {"request_insert", "response_insert", "drift_insert"}
    <2>1. Range(InsertOf) = {InsertOf[x] : x \in {"begin", "response", "drift"}}
      BY <1>1 DEF Range
    <2> QED BY <1>2, <2>1
  <1> QED BY <1>1, <1>2, <1>3

LEMMA AdapterStepsMove ==
  ASSUME TablesOK, NEW c \in LlmCalls, AdapterStep(c)
  PROVE  TablesMove /\ IsStepOf(c)
  <1>0. DOMAIN pc = Calls /\ DOMAIN held = Calls /\ DOMAIN answer = Calls
    BY DEF TablesOK
  <1> USE DEF TablesMove, ArtifactsMove, CacheMoves, EdgesMove, IsStepOf, Goto, Reply, Tables,
              Raise, Proceed
  <1>1. AfterPut(c) => DOMAIN pc' = Calls /\ DOMAIN answer' = Calls
                       /\ \A d \in Calls \ {c} : pc'[d] = pc[d] /\ answer'[d] = answer[d]
    BY <1>0 DEF AfterPut, AfterRequest, AfterResponse, Conclude
  <1>2. CASE AdapterSelect(c)
    BY <1>0, <1>1, <1>2 DEF AdapterSelect
  <1>3. CASE AdapterInsert(c)
    BY <1>0, <1>1, <1>3 DEF AdapterInsert
  <1>4. CASE Complete(c)
    BY <1>0, <1>4 DEF Complete
  <1>5. CASE Replay(c)
    BY <1>0, <1>5 DEF Replay, Conclude
  <1>6. CASE RecordLedger(c)
    BY <1>0, <1>6 DEF RecordLedger
  <1>7. CASE LoadBody(c) \/ Die(c)
    BY <1>0, <1>7 DEF LoadBody, Die
  <1> QED BY <1>2, <1>3, <1>4, <1>5, <1>6, <1>7 DEF AdapterStep

LEMMA DocumentsStayReadable ==
  ASSUME DocumentsAreReadable, TablesMove
  PROVE  DocumentsAreReadable'
  BY ArtifactsGrow DEF TablesMove, DocumentsAreReadable

LEMMA AdapterStaysOK ==
  ASSUME TablesMove, NEW c \in LlmCalls, AdapterOK(c), pc'[c] = pc[c], held'[c] = held[c]
  PROVE  AdapterOK(c)'
  <1>1. DriftIsStored(c, held[c]) => DriftIsStored(c, held[c])'
    BY ContentStays DEF DriftIsStored
  <1>2. Content(Service, RequestDoc(c.request)) # {} => Content(Service, RequestDoc(c.request))' # {}
    BY ContentStays
  <1>3. Content(Service, held[c]) # {} => Content(Service, held[c])' # {}
    BY ContentStays DEF Content, Meta
  <1> QED BY <1>1, <1>2, <1>3 DEF AdapterOK, Answers

LEMMA DocIsADocument ==
  ASSUME NEW c \in LlmCalls, AdapterOK(c), pc[c] \in DOMAIN InsertOf \cup Range(InsertOf)
  PROVE  Doc(c) \in Documents
  <1>1. CASE pc[c] \in {"begin", "request_insert"}
    BY <1>1 DEF Doc, Documents
  <1>2. CASE pc[c] \in {"response", "response_insert"}
    BY <1>2 DEF Doc, Documents, AdapterOK, Answers
  <1>3. CASE pc[c] \in {"drift", "drift_insert"}
    BY <1>3 DEF Doc, Documents, AdapterOK, Answers
  <1> QED BY <1>1, <1>2, <1>3, Labels

\* After a put the document can be read, and the next label promises no more.
LEMMA AfterPutIsOK ==
  ASSUME TablesOK, TablesMove, NEW c \in LlmCalls, AdapterOK(c), AfterPut(c), held' = held,
         NEW doc, doc = Doc(c), Content(Service, doc)' # {}
  PROVE  AdapterOK(c)'
  <1>0. c \in Calls /\ DOMAIN pc = Calls
    BY DEF LlmCalls, TablesOK
  <1> USE DEF Goto, Reply, Raise, Proceed
  <1>1. CASE pc[c] \in {"begin", "request_insert"} /\ AfterRequest(c)
    <2>1. doc = RequestDoc(c.request)
      BY <1>1 DEF Doc
    <2>2. \/ pc'[c] \in {"provider", "done"} /\ c.mode # "replay"
          \/ pc'[c] \in {"replay", "done"} /\ c.mode = "replay"
      BY <1>0, <1>1 DEF AfterRequest
    <2> QED BY <2>1, <2>2 DEF AdapterOK
  <1>2. ASSUME pc[c] \in AfterItsRequest
        PROVE  Content(Service, RequestDoc(c.request))' # {}
    BY <1>2, ContentStays DEF AdapterOK
  <1>3. Conclude(c) => pc'[c] \in {"ledger", "load"}
    BY <1>0 DEF Conclude
  <1>4. CASE pc[c] \in {"response", "response_insert"} /\ AfterResponse(c)
    <2>1. doc = held[c] /\ c.mode # "replay" /\ Answers(c, held[c])
          /\ Content(Service, RequestDoc(c.request))' # {}
      BY <1>2, <1>4 DEF Doc, AdapterOK, AfterItsRequest
    <2>2. \/ pc'[c] = "done"
          \/ pc'[c] = "drift"
          \/ pc'[c] \in {"ledger", "load"} /\ (c.mode = "drift" => c.expected = held[c])
      BY <1>0, <1>3, <1>4 DEF AfterResponse
    <2>3. Content(Service, held[c])' # {} /\ Answers(c, held[c])'
      BY <2>1 DEF Answers, Content, Meta
    <2> QED BY <2>1, <2>2, <2>3 DEF AdapterOK, AfterItsRequest, DriftIsStored
  <1>5. CASE pc[c] \in {"drift", "drift_insert"} /\ Conclude(c)
    <2>1. doc = DriftDoc(c, held[c]) /\ Answers(c, held[c]) /\ Content(Service, held[c])' # {}
          /\ Content(Service, RequestDoc(c.request))' # {}
      BY <1>2, <1>5, ContentStays DEF Doc, AdapterOK, AfterItsRequest, Content, Meta
    <2>2. Answers(c, held[c])' /\ DriftIsStored(c, held[c])'
      BY <2>1 DEF Answers, DriftIsStored, Content, Meta
    <2> QED BY <1>3, <1>5, <2>1, <2>2 DEF AdapterOK, AfterItsRequest
  <1> QED BY <1>1, <1>4, <1>5 DEF AfterPut

LEMMA AdapterMovesOK ==
  ASSUME TablesOK, DocumentsAreReadable, NEW c \in LlmCalls, AdapterOK(c), AdapterStep(c)
  PROVE  AdapterOK(c)'
  <1>0. c \in Calls /\ DOMAIN pc = Calls /\ DOMAIN held = Calls /\ TablesMove
    BY AdapterStepsMove DEF LlmCalls, TablesOK
  <1> USE DEF Goto, Reply, Raise, Proceed
  <1>1. ASSUME pc'[c] = "done" PROVE AdapterOK(c)'
    BY <1>1 DEF AdapterOK, AfterItsRequest
  <1>2. CASE AdapterSelect(c)
    <2>1. CASE Meta(Service, Doc(c)) # {}
      <3>1. Content(Service, Doc(c)) # {}
        BY <1>2, <2>1, DocIsADocument DEF AdapterSelect, DocumentsAreReadable, Meta, Content
      <3>2. \A doc : doc = Doc(c) => Content(Service, doc)' # {}
        BY <1>0, <3>1, ContentStays
      <3> QED BY <1>0, <1>2, <2>1, <3>2, AfterPutIsOK DEF AdapterSelect
    <2>2. CASE Meta(Service, Doc(c)) = {}
      <3>1. pc'[c] = InsertOf[pc[c]] /\ held' = held /\ UNCHANGED Tables
        BY <1>0, <1>2, <2>2 DEF AdapterSelect
      <3> QED BY <1>2, <3>1, Labels
              DEF AdapterSelect, AdapterOK, AfterItsRequest, Tables, Content, Meta, Answers
    <2> QED BY <2>1, <2>2
  <1>3. CASE AdapterInsert(c)
    <2>1. CASE Meta(Service, Doc(c)) # {}
      BY <1>0, <1>1, <1>3, <2>1 DEF AdapterInsert
    <2>2. CASE Meta(Service, Doc(c)) = {}
      <3>1. \A doc : doc = Doc(c) => Content(Service, doc)' # {}
        <4> SUFFICES ASSUME NEW doc, doc = Doc(c) PROVE Content(Service, doc)' # {}
          OBVIOUS
        <4>1. Insert(Service, doc, DocType(c))
          BY <1>3, <2>2 DEF AdapterInsert
        <4>2. [space |-> Service, sha |-> doc, type |-> DocType(c), backend |-> "postgres"] \in artifacts'
          BY <4>1 DEF Insert
        <4> QED BY <4>2 DEF Content, Meta
      <3> QED BY <1>0, <1>3, <2>2, <3>1, AfterPutIsOK DEF AdapterInsert
    <2> QED BY <2>1, <2>2
  <1>4. Content(Service, RequestDoc(c.request)) # {} => Content(Service, RequestDoc(c.request))' # {}
    BY <1>0, ContentStays
  <1>5. CASE Complete(c)
    <2>1. CASE pc'[c] = "done"
      BY <1>1, <2>1
    <2>2. ASSUME NEW body \in Bodies, held' = [held EXCEPT ![c] = ResponseDoc(c.request, body)],
                 Proceed(c, "response")
          PROVE  AdapterOK(c)'
      BY <1>0, <1>4, <1>5, <2>2 DEF Complete, AdapterOK, AfterItsRequest, Answers
    <2> QED BY <1>0, <1>5, <2>1, <2>2 DEF Complete
  <1>6. CASE Replay(c)
    <2>1. CASE pc'[c] = "done"
      BY <1>1, <2>1
    <2>2. CASE pc'[c] # "done"
      <3>1. held'[c] = c.replay /\ Content(Service, c.replay) # {} /\ pc'[c] \in {"ledger", "load"}
        BY <1>0, <1>6, <2>2 DEF Replay, Conclude
      <3>2. Content(Service, c.replay)' # {}
        BY <1>0, <3>1, ContentStays
      <3>3. Content(Service, held[c])' # {}
        BY <3>1, <3>2 DEF Content, Meta
      <3> QED BY <1>4, <1>6, <3>1, <3>3
              DEF Replay, AdapterOK, AfterItsRequest, DriftIsStored, Answers
    <2> QED BY <2>1, <2>2
  <1>7. CASE RecordLedger(c)
    <2>1. CASE pc'[c] = "done"
      BY <1>1, <2>1
    <2>2. CASE pc'[c] # "done"
      <3>1. pc[c] = "ledger" /\ pc'[c] = "load" /\ held' = held /\ artifacts' = artifacts
        BY <1>0, <1>7, <2>2 DEF RecordLedger
      <3>2. DriftIsStored(c, held[c])' = DriftIsStored(c, held[c])
        BY <3>1 DEF DriftIsStored, Content, Meta
      <3> QED BY <3>1, <3>2 DEF AdapterOK, AfterItsRequest, Answers, Content, Meta
    <2> QED BY <2>1, <2>2
  <1>8. CASE LoadBody(c) \/ Die(c)
    BY <1>0, <1>1, <1>8 DEF LoadBody, Die
  <1> QED BY <1>2, <1>3, <1>5, <1>6, <1>7, <1>8 DEF AdapterStep

-----------------------------------------------------------------------------
(* The ledger.                                                             *)

LEMMA EvidenceStays ==
  ASSUME TablesMove, NEW row, RowIsEvidence(row)
  PROVE  RowIsEvidence(row)'
  BY ContentStays DEF RowIsEvidence

LEMMA LedgerMovesOK ==
  ASSUME TablesMove, NEW c \in LlmCalls, AdapterOK(c), AdapterStep(c),
         \A row \in llm_calls : RowIsEvidence(row)
  PROVE  \A row \in llm_calls' : RowIsEvidence(row)'
  <1>1. CASE llm_calls' = llm_calls
    BY <1>1, EvidenceStays
  <1>2. CASE llm_calls' # llm_calls
    <2> DEFINE new == [id |-> c, request |-> RequestDoc(c.request), response |-> held[c],
                       mode |-> c.mode]
    <2>1. RecordLedger(c)
      BY <1>2 DEF AdapterStep, AdapterSelect, AdapterInsert, Complete, Replay, LoadBody, Die, Tables
    <2>2. pc[c] = "ledger" /\ llm_calls' = llm_calls \cup {new}
      BY <1>2, <2>1 DEF RecordLedger
    <2>3. /\ Content(Service, RequestDoc(c.request)) # {} /\ Content(Service, held[c]) # {}
          /\ c.mode # "replay" => Answers(c, held[c])
          /\ DriftIsStored(c, held[c])
      BY <2>2 DEF AdapterOK, AfterItsRequest
    <2>4. Answers(c, held[c]) => held[c].request = RequestDoc(c.request)
      BY DEF Answers, ResponseDoc
    <2>5. /\ new.id = c /\ new.request = RequestDoc(c.request)
          /\ new.response = held[c] /\ new.mode = c.mode
      OBVIOUS
    <2> HIDE DEF new
    <2>6. RowIsEvidence(new)
      BY <2>3, <2>4, <2>5 DEF RowIsEvidence, DriftIsStored
    <2>7. \A row \in llm_calls \cup {new} : RowIsEvidence(row)'
      BY <2>6, EvidenceStays
    <2> QED BY <2>2, <2>7
  <1> QED BY <1>1, <1>2

-----------------------------------------------------------------------------
(* The invariant, and what it says to clients and auditors.                *)

LEMMA InitOK == ServiceInit => AdapterInv
  <1> SUFFICES ASSUME ServiceInit PROVE AdapterInv
    OBVIOUS
  <1>1. TablesOK
    BY ServiceAssumption DEF ServiceInit, TablesOK
  <1>2. DocumentsAreReadable
    BY AdapterAssumption DEF ServiceInit, DocumentsAreReadable
  <1>3. \A c \in Calls : pc[c] \in {"begin", "absent"}
    BY DEF ServiceInit
  <1> QED BY <1>1, <1>2, <1>3
          DEF AdapterInv, HttpCalls, LlmCalls, ClientOK, AdapterOK, AfterItsRequest, ServiceInit

LEMMA StepOK == AdapterInv /\ [Next]_serviceVars => AdapterInv'
  <1> SUFFICES ASSUME AdapterInv, [Next]_serviceVars PROVE AdapterInv'
    OBVIOUS
  <1> USE DEF AdapterInv
  <1>0. /\ \A c \in Calls : ~(c \in HttpCalls /\ c \in LlmCalls)
        /\ HttpCalls \subseteq Calls /\ LlmCalls \subseteq Calls
    BY DEF HttpCalls, LlmCalls
  <1>1. CASE UNCHANGED serviceVars
    <2>1. TablesMove
      BY <1>1 DEF serviceVars, TablesMove, ArtifactsMove, CacheMoves, EdgesMove
    <2>2. TablesOK' /\ DocumentsAreReadable' /\ \A row \in llm_calls' : RowIsEvidence(row)'
      BY <1>1, <2>1, DocumentsStayReadable, EvidenceStays DEF serviceVars, TablesOK
    <2> QED BY <1>1, <2>1, <2>2, ClientStaysOK, AdapterStaysOK DEF serviceVars
  <1>2. ASSUME NEW c \in HttpCalls, HttpStep(c) PROVE AdapterInv'
    <2>1. TablesMove /\ IsStepOf(c) /\ llm_calls' = llm_calls
      BY <1>2, HttpStepsMove
    <2>2. TablesOK' /\ DocumentsAreReadable' /\ \A row \in llm_calls' : RowIsEvidence(row)'
      BY <1>0, <2>1, TablesStayOK, DocumentsStayReadable, EvidenceStays
    <2>3. ASSUME NEW d \in HttpCalls PROVE ClientOK(d)'
      BY <1>0, <1>2, <2>1, ClientMovesOK, ClientStaysOK DEF IsStepOf
    <2>4. ASSUME NEW d \in LlmCalls PROVE AdapterOK(d)'
      BY <1>0, <2>1, AdapterStaysOK DEF IsStepOf
    <2> QED BY <2>2, <2>3, <2>4
  <1>3. ASSUME NEW c \in LlmCalls, AdapterStep(c) PROVE AdapterInv'
    <2>1. TablesMove /\ IsStepOf(c)
      BY <1>3, AdapterStepsMove
    <2>2. TablesOK' /\ DocumentsAreReadable' /\ \A row \in llm_calls' : RowIsEvidence(row)'
      BY <1>0, <1>3, <2>1, TablesStayOK, DocumentsStayReadable, LedgerMovesOK
    <2>3. ASSUME NEW d \in HttpCalls PROVE ClientOK(d)'
      BY <1>0, <2>1, ClientStaysOK DEF IsStepOf
    <2>4. ASSUME NEW d \in LlmCalls PROVE AdapterOK(d)'
      BY <1>0, <1>3, <2>1, AdapterMovesOK, AdapterStaysOK DEF IsStepOf
    <2> QED BY <2>2, <2>3, <2>4
  <1> QED BY <1>1, <1>2, <1>3
          DEF Next, LlmNext, ServiceNext, HttpStep, AdapterStep

\* The invariant of the store's clients and the adapters together.
THEOREM AdapterInductive == Spec => []AdapterInv
  BY InitOK, StepOK, PTL DEF Spec

\* AnswersStayTrue: what the artifact routes answered with 200 is true of
\* the tables ever after, whatever other clients and adapters do.
THEOREM AnswersAreKept == Spec => []AnswersStayTrue
  <1>1. AdapterInv => AnswersStayTrue
    BY DEF AdapterInv, ClientOK, IsTrue, AnswersStayTrue
  <1> QED BY <1>1, AdapterInductive, PTL

\* LedgerIsEvidence: wherever adapters died, a row of llm_calls names what
\* can be read, and a call that has its response can load the body.
THEOREM LedgerHolds == Spec => []LedgerIsEvidence
  <1>1. AdapterInv => LedgerIsEvidence
    BY DEF AdapterInv, AdapterOK, RowIsEvidence, LedgerIsEvidence
  <1> QED BY <1>1, AdapterInductive, PTL
=============================================================================
