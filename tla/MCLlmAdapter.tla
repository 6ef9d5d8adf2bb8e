---------------------------- MODULE MCLlmAdapter ----------------------------
(***************************************************************************)
(* Calls of the artifact store and of LLM adapters, a few at a time.       *)
(***************************************************************************)
EXTENDS LlmAdapter

CONSTANTS t1, t2, q1, q2, s1

Doc1 == [schema |-> "other", id |-> 1]
Doc2 == [schema |-> "other", id |-> 2]
Archived == [schema |-> "other", id |-> 3]
Key == [stage |-> "s", input |-> Doc1]

Row(space, sha, type, backend) ==
  [space |-> space, sha |-> sha, type |-> type, backend |-> backend]
MCImported ==
  {Row(t1, Archived, "note", "blob"), Row(t2, Doc1, "note", "postgres"),
   Row(t2, Doc2, "note", "postgres"), Row(Service, Archived, "note", "blob")}

PutCall(space, sha, type) == [op |-> "put", space |-> space, sha |-> sha, type |-> type]
MetaCall(space, sha) == [op |-> "meta", space |-> space, sha |-> sha]
ContentCall(space, sha, scoped) ==
  [op |-> "content", space |-> space, sha |-> sha, scoped |-> scoped]
EdgeCall(space, from, to) == [op |-> "edge", space |-> space, from |-> from, to |-> to]
LineageCall(space, side, sha, n) ==
  [op |-> "lineage", space |-> space, side |-> side, sha |-> sha, n |-> n]
LookupCall(space) == [op |-> "lookup", space |-> space, key |-> Key]
RecordCall(space, output) ==
  [op |-> "record", space |-> space, key |-> Key, output |-> output]

LlmCall(request, mode, expected, replay, stage_run) ==
  [op |-> "llm", request |-> request, mode |-> mode, expected |-> expected,
   replay |-> replay, stage_run |-> stage_run, ledger |-> TRUE]

Response(q, b) == ResponseDoc(q, b)

\* Puts and reads of one artifact, by two types, with the edges and the
\* cache that need it.
Puts(space) ==
  {PutCall(space, Doc1, "note"), PutCall(space, Doc1, "zip"), PutCall(space, Doc2, "note"),
   MetaCall(space, Doc1), ContentCall(space, Doc1, TRUE), EdgeCall(space, Doc1, Doc2),
   LookupCall(space)}
Edges(space) ==
  {EdgeCall(space, Doc1, Doc2), EdgeCall(space, Doc2, Doc2),
   PutCall(space, Doc1, "note"), PutCall(space, Doc2, "note"),
   LineageCall(space, "upstream", Doc2, 1), LineageCall(space, "upstream", Doc2, 2),
   LineageCall(space, "downstream", Doc1, 1)}
Records(space) ==
  {RecordCall(space, Doc1), RecordCall(space, Doc2), LookupCall(space),
   PutCall(space, Doc1, "note"), PutCall(space, Doc2, "note"), RecordCall(t2, Doc2)}
Refused ==
  {PutCall(None, Doc1, "note"), PutCall(t1, None, "note"), ContentCall(t1, Archived, FALSE),
   ContentCall(t1, Archived, TRUE), ContentCall(None, Doc1, FALSE)}

\* Adapters: the same request twice and a third call that compares with or
\* replays one of its answers, beside clients that store the same bytes.
Compared(q) == {LlmCall(q, "drift", e, None, s1) : e \in {None, Response(q1, 1)}}
Replayed(q) == {LlmCall(q, "replay", None, r, s1) : r \in {None, Response(q1, 1), Archived}}
Live(q) == {LlmCall(q, "live", None, None, s) : s \in {s1, "missing", None}}
Adapters ==
  {{l, d, x} : l \in Live(q1), d \in Compared(q1) \cup Replayed(q2),
               x \in {PutCall(Service, Response(q1, 1), "note"),
                      LlmCall(q1, "drift", Response(q1, 2), None, s1)}}

MCScenarios ==
  {Puts(t1), Puts(Service), Edges(t1), Edges(Service), Records(t1), Records(Service), Refused}
    \cup Adapters
=============================================================================
