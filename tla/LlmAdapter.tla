----------------------------- MODULE LlmAdapter -----------------------------
(***************************************************************************)
(* LLMAdapter.run of services/llm-adapter: a call of a language model that *)
(* is captured in the artifact store, replayed from it, or compared with   *)
(* an earlier capture, beside the clients of the same store.               *)
(*                                                                         *)
(* Several adapters run at once.  A process can die between any two store  *)
(* calls, while the provider answers too; what it has committed stays.     *)
(***************************************************************************)
EXTENDS ArtifactService, Functions

CONSTANTS
  Bodies,      \* what the provider may answer
  StageRuns    \* the stage_run_id values that stage_runs has

(***************************************************************************)
(* An adapter call is [op |-> "llm", request, mode, expected, replay,      *)
(* stage_run, ledger].  The request names the whole LLMRequestV1 with the  *)
(* adapter's provider; an artifact is the canonical JSON it holds, with    *)
(* the schema_version it says (other clients' bytes: any other).           *)
(***************************************************************************)
RequestDoc(request) == [schema |-> "llm_request-v1", request |-> request]

ResponseDoc(request, body) ==
  [schema |-> "llm_response-v1", request |-> RequestDoc(request), body |-> body]

DriftDoc(c, observed) ==
  [schema |-> "llm_drift-v1", request |-> RequestDoc(c.request),
   expected |-> c.expected, observed |-> observed]

LlmCalls == {c \in Calls : c.op = "llm"}

\* What the adapters may put in the store.
Documents ==
  UNION {{RequestDoc(c.request)}
           \cup {ResponseDoc(c.request, body) : body \in Bodies}
           \cup {DriftDoc(c, ResponseDoc(c.request, body)) : body \in Bodies} : c \in LlmCalls}

(***************************************************************************)
(* put_artifact asks whether a row is there, of whatever backend, and is   *)
(* satisfied with bytes that nothing here can read: so no document of an   *)
(* adapter was loaded into another backend from outside.                   *)
(***************************************************************************)
ASSUME AdapterAssumption ==
  \A r \in Imported : r.space = Service /\ r.sha \in Documents => r.backend = "postgres"

-----------------------------------------------------------------------------
(***************************************************************************)
(* run().  The adapter's put_artifact is a SELECT and, if it finds no row, *)
(* an INSERT; it answers the hash alone.  The label of the SELECT leads to *)
(* that of the INSERT.                                                     *)
(***************************************************************************)
InsertOf == [begin |-> "request_insert", response |-> "response_insert",
             drift |-> "drift_insert"]

\* The document of the put that call c is in; held is the response's hash.
Doc(c) ==
  CASE pc[c] \in {"begin", "request_insert"} -> RequestDoc(c.request)
    [] pc[c] \in {"response", "response_insert"} -> held[c]
    [] pc[c] \in {"drift", "drift_insert"} -> DriftDoc(c, held[c])

DocType(c) ==
  CASE pc[c] \in {"begin", "request_insert"} -> "llm/request-v1"
    [] pc[c] \in {"response", "response_insert"} -> "llm/response-v1"
    [] pc[c] \in {"drift", "drift_insert"} -> "llm/drift-v1"

Raise(c, why) == Reply(c, why, None)

Proceed(c, label) == Goto(c, label) /\ UNCHANGED answer

\* No ledger row without a stage_run_id, even if one is asked for.
Conclude(c) == Proceed(c, IF c.ledger /\ c.stage_run # None THEN "ledger" ELSE "load")

AfterRequest(c) ==
  \/ c.mode # "replay" /\ Proceed(c, "provider")
  \/ c.mode = "replay" /\ c.replay = None /\ Raise(c, "no_argument")
  \/ c.mode = "replay" /\ c.replay # None /\ Proceed(c, "replay")

\* Variant: a response is compared only with one that is in the store.
AfterResponseIfStored(c) ==
  LET compared == c.mode = "drift" /\ c.expected # held[c] /\ Content(Service, c.expected) # {}
  IN \/ c.mode = "drift" /\ c.expected = None /\ Raise(c, "no_argument")
     \/ c.expected # None /\ compared /\ Proceed(c, "drift")
     \/ (c.mode = "drift" => c.expected # None) /\ ~compared /\ Conclude(c)

\* The missing argument of drift mode is noticed only now.
AfterResponse(c) ==
  \/ c.mode = "drift" /\ c.expected = None /\ Raise(c, "no_argument")
  \/ c.mode = "drift" /\ c.expected \notin {None, held[c]} /\ Proceed(c, "drift")
  \/ (c.mode = "drift" => c.expected = held[c]) /\ Conclude(c)

AfterPut(c) ==
  \/ pc[c] \in {"begin", "request_insert"} /\ AfterRequest(c)
  \/ pc[c] \in {"response", "response_insert"} /\ AfterResponse(c)
  \/ pc[c] \in {"drift", "drift_insert"} /\ Conclude(c)

AdapterSelect(c) ==
  /\ pc[c] \in DOMAIN InsertOf
  /\ IF Meta(Service, Doc(c)) # {} THEN AfterPut(c) ELSE Proceed(c, InsertOf[pc[c]])
  /\ UNCHANGED <<Tables, held>>

AdapterInsert(c) ==
  /\ pc[c] \in Range(InsertOf)
  /\ IF Meta(Service, Doc(c)) # {}
     THEN Raise(c, "duplicate") /\ UNCHANGED artifacts
     ELSE Insert(Service, Doc(c), DocType(c)) /\ AfterPut(c)
  /\ UNCHANGED <<edges, cache, llm_calls, held>>

\* The provider answers, or its client raises.
Complete(c) ==
  /\ pc[c] = "provider"
  /\ \/ \E body \in Bodies : held' = [held EXCEPT ![c] = ResponseDoc(c.request, body)]
        /\ Proceed(c, "response")
     \/ Raise(c, "provider") /\ UNCHANGED held
  /\ UNCHANGED Tables

\* The response's own request is not compared with this one.
Replay(c) ==
  /\ pc[c] = "replay"
  /\ IF Content(Service, c.replay) # {} /\ c.replay.schema = "llm_response-v1"
     THEN held' = [held EXCEPT ![c] = c.replay] /\ Conclude(c)
     ELSE Raise(c, "no_response") /\ UNCHANGED held
  /\ UNCHANGED Tables

RecordLedger(c) ==
  /\ pc[c] = "ledger"
  /\ IF c.stage_run \in StageRuns
     THEN /\ llm_calls' = llm_calls \cup
               {[id |-> c, request |-> RequestDoc(c.request), response |-> held[c],
                 mode |-> c.mode]}
          /\ Proceed(c, "load")
     ELSE Raise(c, "foreign_key") /\ UNCHANGED llm_calls
  /\ UNCHANGED <<artifacts, edges, cache, held>>

\* load_response_body, which the stage handler calls with what run returned.
LoadBody(c) ==
  /\ pc[c] = "load"
  /\ IF Content(Service, held[c]) # {} /\ held[c].schema = "llm_response-v1"
     THEN Reply(c, "returned", held[c].body)
     ELSE Raise(c, "no_response")
  /\ UNCHANGED <<Tables, held>>

Die(c) ==
  /\ pc[c] \notin {"absent", "begin", "done"}
  /\ Raise(c, "died")
  /\ UNCHANGED <<Tables, held>>

LlmNext ==
  \E c \in LlmCalls :
    \/ AdapterSelect(c) \/ AdapterInsert(c) \/ Complete(c) \/ Replay(c)
    \/ RecordLedger(c) \/ LoadBody(c) \/ Die(c)

Next == LlmNext \/ ServiceNext
Spec == ServiceInit /\ [][Next]_serviceVars

-----------------------------------------------------------------------------
(***************************************************************************)
(* The ledger can be relied on, wherever a process died: what a row names  *)
(* can be read back, the response of a row that is no replay answers the   *)
(* request beside it, and a drift row whose response is not the expected   *)
(* one has its drift document.  And a call that got its response, by       *)
(* whichever mode, can load the body.                                      *)
(***************************************************************************)
LedgerIsEvidence ==
  /\ \A row \in llm_calls :
       /\ Content(Service, row.request) # {} /\ Content(Service, row.response) # {}
       /\ row.mode # "replay" => row.response.request = row.request
       /\ row.mode = "drift" /\ row.response # row.id.expected
            => Content(Service, DriftDoc(row.id, row.response)) # {}
  /\ \A c \in LlmCalls :
       pc[c] = "load" => Content(Service, held[c]) # {}
=============================================================================
