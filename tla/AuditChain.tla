----------------------------- MODULE AuditChain -----------------------------
(***************************************************************************)
(* The hash-chained audit log of services/gateway/dadi_gateway/audit.py,   *)
(* for one tenant.  emit_event reads the newest event's hash and inserts   *)
(* an event that includes it, in one READ COMMITTED transaction: the read  *)
(* and the insert are two steps, and requests interleave between them.     *)
(*                                                                         *)
(* created_at DEFAULT now() is the time the transaction began.  An event's *)
(* hash is represented by its event_id, a fresh uuid4 that the hash        *)
(* covers; event ids are ordered as the database orders UUIDs.  A clock    *)
(* tick is a microsecond: transactions that overlap may begin in the same  *)
(* one, and one that begins after another's commit begins later.           *)
(***************************************************************************)
EXTENDS Naturals, FiniteSets

CONSTANTS
  Requests,      \* handlers that call emit_event
  EventIds,      \* uuid4 values, as numbers
  Deliverables,  \* what events are about
  Exactness,     \* {TRUE}, or BOOLEAN: see exact below
  Genesis,       \* sixty-four zeros, NULL in the row
  MaxClock,      \* bound on the clock
  HealthLimit    \* LIMIT of the compliance health check

ASSUME AuditAssumption ==
  /\ EventIds \subseteq Nat
  /\ Exactness \subseteq BOOLEAN
  /\ Genesis \notin EventIds
  /\ MaxClock \in Nat
  /\ HealthLimit \in Nat \ {0}

VARIABLES
  audit_events,  \* committed rows
  step,          \* request -> "idle", "begun", or "read"
  event,         \* request -> the row it is making
  clock,
  overlapped     \* history: two emits have been under way at once

vars == <<audit_events, step, event, clock, overlapped>>

(***************************************************************************)
(* exact: the ids in the hashed object are spelled as the UUID columns     *)
(* return them.  Handlers pass them on as the URL spells them, and the     *)
(* database also accepts other spellings of a UUID.                        *)
(***************************************************************************)
Row == [event_id : EventIds, created_at : Nat, deliverable : Deliverables,
        exact : Exactness, prev : EventIds \cup {Genesis}]

Active(r) == step[r] # "idle"
Ids(R) == {e.event_id : e \in R}

-----------------------------------------------------------------------------
(* Order and verification.                                                 *)

\* ORDER BY created_at, event_id.
Precedes(e, f) ==
  \/ e.created_at < f.created_at
  \/ e.created_at = f.created_at /\ e.event_id < f.event_id

Before(R, e) == {f \in R : Precedes(f, e)}

IsLatest(R, e) == e \in R /\ \A f \in R \ {e} : Precedes(f, e)

\* h is the hash a new event, or a walk, continues after the events of R.
IsHead(R, h) ==
  \/ R = {} /\ h = Genesis
  \/ \E e \in R : IsLatest(R, e) /\ h = e.event_id

\* Variant: the walk starts from whatever its first row says.
VerifiesFromFirst(R) == \A e \in R :
  e.exact /\ (Before(R, e) # {} => IsHead(Before(R, e), e.prev))

(***************************************************************************)
(* The walk: every row's prev_event_hash is the hash of the row before it, *)
(* the first one's is Genesis, and hashing the columns gives event_hash.   *)
(***************************************************************************)
Verifies(R) == \A e \in R : e.exact /\ IsHead(Before(R, e), e.prev)

\* WHERE deliverable_id = d, and LIMIT n of the rows in ascending order.
About(d) == {e \in audit_events : e.deliverable = d}
Oldest(R, n) == {e \in R : Cardinality(Before(R, e)) < n}

-----------------------------------------------------------------------------

Init ==
  /\ audit_events = {}
  /\ step = [r \in Requests |-> "idle"]
  /\ event = [r \in Requests |-> Genesis]
  /\ clock = 0
  /\ overlapped = FALSE

Tick ==
  /\ clock < MaxClock
  /\ clock' = clock + 1
  /\ UNCHANGED <<audit_events, step, event, overlapped>>

\* uuid4 values do not repeat.
Fresh(id) ==
  /\ id \notin Ids(audit_events)
  /\ \A r \in Requests : Active(r) => event[r].event_id # id

Begin(r, id, d, exact) ==
  /\ ~Active(r)
  /\ Fresh(id)
  /\ \A e \in audit_events : e.created_at < clock
  /\ step' = [step EXCEPT ![r] = "begun"]
  /\ event' = [event EXCEPT ![r] = [event_id |-> id, created_at |-> clock,
                 deliverable |-> d, exact |-> exact, prev |-> Genesis]]
  /\ overlapped' = (overlapped \/ \E q \in Requests : Active(q))
  /\ UNCHANGED <<audit_events, clock>>

\* Variant: uncommitted events are seen.
SelectDirty(r) ==
  /\ step[r] = "begun"
  /\ \E h \in EventIds \cup {Genesis} :
       /\ IsHead(audit_events \cup {event[q] : q \in {x \in Requests \ {r} : Active(x)}}, h)
       /\ event' = [event EXCEPT ![r].prev = h]
  /\ step' = [step EXCEPT ![r] = "read"]
  /\ UNCHANGED <<audit_events, clock, overlapped>>

\* Variant: ORDER BY event_id alone.
SelectById(r) ==
  /\ step[r] = "begun"
  /\ \E h \in EventIds \cup {Genesis} :
       /\ IF audit_events = {} THEN h = Genesis
          ELSE h \in Ids(audit_events) /\ \A g \in Ids(audit_events) : g <= h
       /\ event' = [event EXCEPT ![r].prev = h]
  /\ step' = [step EXCEPT ![r] = "read"]
  /\ UNCHANGED <<audit_events, clock, overlapped>>

\* Variant: the column taken of the newest row is its time.
SelectTime(r) ==
  /\ step[r] = "begun"
  /\ event' = [event EXCEPT ![r].prev =
                 IF audit_events = {} THEN Genesis
                 ELSE (CHOOSE e \in audit_events : IsLatest(audit_events, e)).created_at]
  /\ step' = [step EXCEPT ![r] = "read"]
  /\ UNCHANGED <<audit_events, clock, overlapped>>

Select(r) ==
  /\ step[r] = "begun"
  /\ \E h \in EventIds \cup {Genesis} :
       /\ IsHead(audit_events, h)
       /\ event' = [event EXCEPT ![r].prev = h]
  /\ step' = [step EXCEPT ![r] = "read"]
  /\ UNCHANGED <<audit_events, clock, overlapped>>

\* Variant: an event replaces the one that has the same prev_event_hash.
InsertReplacing(r) ==
  /\ step[r] = "read"
  /\ audit_events' = {e \in audit_events : e.prev # event[r].prev} \cup {event[r]}
  /\ step' = [step EXCEPT ![r] = "idle"]
  /\ event' = [event EXCEPT ![r] = Genesis]
  /\ UNCHANGED <<clock, overlapped>>

\* INSERT and COMMIT.
Insert(r) ==
  /\ step[r] = "read"
  /\ audit_events' = audit_events \cup {event[r]}
  /\ step' = [step EXCEPT ![r] = "idle"]
  /\ event' = [event EXCEPT ![r] = Genesis]
  /\ UNCHANGED <<clock, overlapped>>

\* The process dies or the statement fails: the transaction is rolled back,
\* and the callers that swallow the exception go on without the event.
RollBack(r) ==
  /\ Active(r)
  /\ step' = [step EXCEPT ![r] = "idle"]
  /\ event' = [event EXCEPT ![r] = Genesis]
  /\ UNCHANGED <<audit_events, clock, overlapped>>

Next ==
  \/ Tick
  \/ \E r \in Requests :
       \/ \E id \in EventIds, d \in Deliverables, exact \in Exactness :
            Begin(r, id, d, exact)
       \/ Select(r)
       \/ Insert(r)
       \/ RollBack(r)

Spec == Init /\ [][Next]_vars

-----------------------------------------------------------------------------
(* Properties.                                                             *)

\* Types, and the PRIMARY KEY.
TypeOK ==
  /\ audit_events \subseteq Row
  /\ \A e, f \in audit_events : e.event_id = f.event_id => e = f
  /\ step \in [Requests -> {"idle", "begun", "read"}]
  /\ DOMAIN event = Requests
  /\ \A r \in Requests : Active(r) => event[r] \in Row
  /\ clock \in Nat
  /\ overlapped \in BOOLEAN

AllExact == \A e \in audit_events : e.exact

(***************************************************************************)
(* Events emitted one at a time form a chain that /audit/verify-chain      *)
(* accepts, whatever transactions were rolled back in between.             *)
(***************************************************************************)
SerialChainVerifies == ~overlapped /\ AllExact => Verifies(audit_events)

(***************************************************************************)
(* Overlapping emits may fork the chain but never close a loop or leave an *)
(* event hanging: following prev_event_hash from any set of events leaves  *)
(* the set for an older committed event or for Genesis.                    *)
(***************************************************************************)
ChainsDescend ==
  /\ \A e \in audit_events : e.prev # Genesis => e.prev \in Ids(audit_events)
  /\ \A S \in SUBSET audit_events : S # {} => \E e \in S : e.prev \notin Ids(S)

(***************************************************************************)
(* Verification of the whole log has memory: once it fails, no later event *)
(* makes it succeed.                                                       *)
(***************************************************************************)
BrokenStaysBroken ==
  [][~Verifies(audit_events) => ~Verifies(audit_events')]_vars

(***************************************************************************)
(* With a deliverable_id filter the walk still starts from Genesis.  On a  *)
(* sound log it succeeds exactly when nothing else was logged before the   *)
(* last event of that deliverable: the filtered answer is about position,  *)
(* not about integrity.                                                    *)
(***************************************************************************)
FilteredChainNeedsPrefix ==
  ~overlapped /\ AllExact => \A d \in Deliverables :
    Verifies(About(d)) <=> \A e \in About(d) : Before(audit_events, e) \subseteq About(d)

-----------------------------------------------------------------------------
(* What the documents say and the code does not do.                        *)

(***************************************************************************)
(* "Audit events are hash-chained and verifiable": whatever requests run   *)
(* at once, verify-chain accepts a log that only emit_event wrote.         *)
(***************************************************************************)
ChainVerifies == Verifies(audit_events)

(***************************************************************************)
(* "Best-effort check: verify chain for last N tenant events."  If the     *)
(* compliance health check is ok, the N newest events are chained.         *)
(***************************************************************************)
Newest(R, n) == {e \in R : Cardinality({f \in R : Precedes(e, f)}) < n}
HealthSeesNewest ==
  Verifies(Oldest(audit_events, HealthLimit)) =>
    \A e \in Newest(audit_events, HealthLimit) : IsHead(Before(audit_events, e), e.prev)
=============================================================================
