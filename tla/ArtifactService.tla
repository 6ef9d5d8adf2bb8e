--------------------------- MODULE ArtifactService ---------------------------
(***************************************************************************)
(* The artifact tables behind HTTP: services/artifact-store, on its own    *)
(* schema, and the gateway's tenant-scoped routes, on the migrated one.    *)
(* A space is a tenant of the gateway or the whole of the other schema;    *)
(* rows of different spaces never meet, except in a UNIQUE constraint that *)
(* the migration may leave behind.                                         *)
(*                                                                         *)
(* A call is one HTTP request.  The gateway's handlers run in threads and  *)
(* interleave between transactions; the service's are coroutines that call *)
(* the store synchronously, so that its process serves one at a time.      *)
(***************************************************************************)
EXTENDS Naturals, Sequences

CONSTANTS
  None,           \* SQL NULL, and an argument that cannot be decoded
  Service,        \* the space of services/artifact-store
  Tenants,        \* the spaces of the gateway
  DirectTypes,    \* artifact types whose bytes only the download routes send
  OldKeyDropped,  \* the migration found stage_cache's first UNIQUE by name
  Imported,       \* rows of artifacts loaded from outside, 'blob' ones too
  Scenarios       \* sets of calls that are made side by side

Spaces == {Service} \cup Tenants
Backends == {"postgres", "blob"}

ASSUME ServiceAssumption ==
  /\ OldKeyDropped \in BOOLEAN
  /\ Service \notin Tenants /\ None \notin Spaces
  /\ \A r \in Imported : r.space \in Spaces /\ r.backend \in Backends
  /\ \A r, q \in Imported : r.space = q.space /\ r.sha = q.sha => r = q

Calls == UNION Scenarios
HttpCalls == {c \in Calls : c.op # "llm"}

VARIABLES
  artifacts,   \* rows [space, sha, type, backend]; a sha names the bytes
  edges,       \* [space, from, to, by, committed] in the order of edge_id
  cache,       \* rows [space, key, output]; a key is [stage, input]
  llm_calls,   \* rows [id, request, response, mode], see LlmAdapter
  pc,          \* call -> the next transaction, "done", or "absent"
  held,        \* call -> what it has read so far
  answer       \* call -> [status, body]

serviceVars == <<artifacts, edges, cache, llm_calls, pc, held, answer>>

-----------------------------------------------------------------------------
(* The statements on the tables.                                           *)

Meta(space, sha) == {r \in artifacts : r.space = space /\ r.sha = sha}

\* The bytes of a row in another backend are not to be had.
Content(space, sha) == {r \in Meta(space, sha) : r.backend = "postgres"}

Insert(space, sha, type) ==
  artifacts' = artifacts \cup
    {[space |-> space, sha |-> sha, type |-> type, backend |-> "postgres"]}

Committed(e) == e.committed

\* The rows by edge_id, the order of the answer.  An edge_id, the position
\* in edges, is drawn before the row is committed.
Lineage(space, side, sha) ==
  LET rows == {i \in DOMAIN edges :
                 /\ Committed(edges[i]) /\ edges[i].space = space
                 /\ (IF side = "upstream" THEN edges[i].to ELSE edges[i].from) = sha}
  IN [i \in rows |-> edges[i]]

CacheLookup(space, key) == {r \in cache : r.space = space /\ r.key = key}

\* A foreign key is refused unless the artifact is stored in the space.
Stored(space, shas) == \A sha \in shas : Meta(space, sha) # {}

\* A row of another tenant meets the UNIQUE (stage, version, input) of the
\* first schema, for which the statement has no ON CONFLICT.
OldKeyTaken(space, key) ==
  ~OldKeyDropped /\ \E r \in cache : r.space # space /\ Service \notin {space, r.space}
                                       /\ r.key = key

\* Variant: ON CONFLICT DO UPDATE.
CacheRecordOverwriting(space, key, output) ==
  cache' = (cache \ CacheLookup(space, key))
             \cup {[space |-> space, key |-> key, output |-> output]}

CacheRecord(space, key, output) ==
  cache' = IF CacheLookup(space, key) # {} THEN cache
           ELSE cache \cup {[space |-> space, key |-> key, output |-> output]}

-----------------------------------------------------------------------------
(* One call.                                                               *)

Goto(c, label) == pc' = [pc EXCEPT ![c] = label]

Reply(c, status, body) ==
  /\ Goto(c, "done")
  /\ answer' = [answer EXCEPT ![c] = [status |-> status, body |-> body]]

Tables == <<artifacts, edges, cache, llm_calls>>

\* No other call is inside one of the service's handlers.
ServiceIsFree(c) ==
  \A d \in HttpCalls \ {c} : d.space = Service => pc[d] \in {"absent", "begin", "done"}

\* The first step of a call of the given kind that is let in.
Begin(c, op) ==
  /\ c.op = op /\ pc[c] = "begin"
  /\ c.space \in Spaces
  /\ c.space = Service => ServiceIsFree(c)

(***************************************************************************)
(* A request without a tenant, or without the scope for bytes, ends here;  *)
(* so does content that is not base64.                                     *)
(***************************************************************************)
Refuse(c) ==
  /\ pc[c] = "begin"
  /\ \/ c.op = "content" /\ c.space # Service /\ ~c.scoped /\ Reply(c, 403, None)
     \/ c.space = None /\ (c.op = "content" => c.scoped) /\ Reply(c, 401, None)
     \/ c.op = "put" /\ c.space # None /\ c.sha = None /\ Reply(c, 400, None)
  /\ UNCHANGED <<Tables, held>>

\* The answer is the metadata of whoever stored the bytes first.
PutSelect(c) ==
  /\ Begin(c, "put") /\ c.sha # None
  /\ IF Meta(c.space, c.sha) # {}
     THEN Reply(c, 200, (CHOOSE r \in Meta(c.space, c.sha) : TRUE).type)
     ELSE Goto(c, "insert") /\ UNCHANGED answer
  /\ UNCHANGED <<Tables, held>>

\* A row inserted meanwhile is a unique violation, which nothing catches.
PutInsert(c) ==
  /\ c.op = "put" /\ pc[c] = "insert"
  /\ IF Meta(c.space, c.sha) # {}
     THEN Reply(c, 500, None) /\ UNCHANGED artifacts
     ELSE Insert(c.space, c.sha, c.type) /\ Reply(c, 200, c.type)
  /\ UNCHANGED <<edges, cache, llm_calls, held>>

GetMeta(c) ==
  /\ Begin(c, "meta")
  /\ IF Meta(c.space, c.sha) = {} THEN Reply(c, 404, None)
     ELSE Reply(c, 200, (CHOOSE r \in Meta(c.space, c.sha) : TRUE).type)
  /\ UNCHANGED <<Tables, held>>

SendContent(c) ==
  IF Content(c.space, c.sha) = {} THEN Reply(c, 404, None) ELSE Reply(c, 200, c.sha)

ServiceContent(c) ==
  /\ Begin(c, "content") /\ c.space = Service
  /\ SendContent(c)
  /\ UNCHANGED <<Tables, held>>

\* The gateway looks at the type in one transaction, and an artifact that
\* is not there passes, ...
GatewayContentType(c) ==
  /\ Begin(c, "content") /\ c.space \in Tenants /\ c.scoped
  /\ IF \E r \in Meta(c.space, c.sha) : r.type \in DirectTypes
     THEN Reply(c, 403, None)
     ELSE Goto(c, "bytes") /\ UNCHANGED answer
  /\ UNCHANGED <<Tables, held>>

\* ... and reads the bytes in another.
GatewayContentBytes(c) ==
  /\ c.op = "content" /\ pc[c] = "bytes"
  /\ SendContent(c)
  /\ UNCHANGED <<Tables, held>>

EdgeInsert(c) ==
  /\ Begin(c, "edge")
  /\ IF Stored(c.space, {c.from, c.to})
     THEN /\ edges' = Append(edges, [space |-> c.space, from |-> c.from, to |-> c.to,
                                     by |-> c, committed |-> FALSE])
          /\ Goto(c, "commit") /\ UNCHANGED answer
     ELSE Reply(c, 500, None) /\ UNCHANGED edges
  /\ UNCHANGED <<artifacts, cache, llm_calls, held>>

EdgeCommit(c) ==
  /\ c.op = "edge" /\ pc[c] = "commit"
  /\ edges' = [i \in DOMAIN edges |->
                 IF edges[i].by = c THEN [edges[i] EXCEPT !.committed = TRUE] ELSE edges[i]]
  /\ Reply(c, 200, None)
  /\ UNCHANGED <<artifacts, cache, llm_calls, held>>

GetLineage(c) ==
  /\ Begin(c, "lineage")
  /\ Reply(c, 200, Lineage(c.space, c.side, c.sha))
  /\ UNCHANGED <<Tables, held>>

GetCache(c) ==
  /\ Begin(c, "lookup")
  /\ Reply(c, 200, {r.output : r \in CacheLookup(c.space, c.key)})
  /\ UNCHANGED <<Tables, held>>

\* Where the key exists nothing is inserted, and no foreign key is checked.
PostCache(c) ==
  /\ Begin(c, "record")
  /\ IF CacheLookup(c.space, c.key) = {}
        /\ (~Stored(c.space, {c.key.input, c.output}) \/ OldKeyTaken(c.space, c.key))
     THEN Reply(c, 500, None) /\ UNCHANGED cache
     ELSE CacheRecord(c.space, c.key, c.output) /\ Reply(c, 200, None)
  /\ UNCHANGED <<artifacts, edges, llm_calls, held>>

ServiceNext ==
  \E c \in HttpCalls :
    \/ Refuse(c) \/ PutSelect(c) \/ PutInsert(c) \/ GetMeta(c)
    \/ ServiceContent(c) \/ GatewayContentType(c) \/ GatewayContentBytes(c)
    \/ EdgeInsert(c) \/ EdgeCommit(c) \/ GetLineage(c)
    \/ GetCache(c) \/ PostCache(c)

ServiceInit ==
  /\ artifacts = Imported /\ edges = <<>> /\ cache = {} /\ llm_calls = {}
  /\ \E scenario \in Scenarios :
       pc = [c \in Calls |-> IF c \in scenario THEN "begin" ELSE "absent"]
  /\ held = [c \in Calls |-> None]
  /\ answer = [c \in Calls |-> None]

-----------------------------------------------------------------------------
(***************************************************************************)
(* What a client was told stays true whatever other clients do: the type   *)
(* answered to a put or a read is the stored row's, a cache hit is what    *)
(* every later lookup answers, and a list of edges is found again, in its  *)
(* order, in every later one.                                              *)
(***************************************************************************)
Within(told, list) == \A i \in DOMAIN told : i \in DOMAIN list /\ list[i] = told[i]

AnswersStayTrue ==
  \A c \in HttpCalls : pc[c] = "done" /\ answer[c].status = 200 =>
    LET told == answer[c].body IN
    CASE c.op \in {"put", "meta"} -> {r.type : r \in Meta(c.space, c.sha)} = {told}
      [] c.op = "content" -> Content(c.space, told) # {}
      [] c.op = "lookup" -> told \subseteq {r.output : r \in CacheLookup(c.space, c.key)}
      [] c.op = "record" -> CacheLookup(c.space, c.key) # {}
      [] c.op = "lineage" -> Within(told, Lineage(c.space, c.side, c.sha))
      [] c.op = "edge" -> \E i \in DOMAIN edges : edges[i].by = c /\ Committed(edges[i])
=============================================================================
