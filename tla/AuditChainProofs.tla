-------------------------- MODULE AuditChainProofs --------------------------
(***************************************************************************)
(* Proofs about AuditChain for any number of requests, events and clock    *)
(* ticks.  ChainInv carries the safety properties of the log over every    *)
(* step; only Insert, which adds one row, needs more than a glance.        *)
(***************************************************************************)
EXTENDS AuditChain, TLAPS

-----------------------------------------------------------------------------
(* The inductive invariant.                                                *)

\* A row's prev_event_hash is that of an event committed before it.
KnownPrev(h) == h \in Ids(audit_events) \cup {Genesis}

UnderWay ==
  \A r \in Requests : Active(r) =>
    /\ event[r].event_id \notin Ids(audit_events)
    /\ KnownPrev(event[r].prev)
    /\ \A q \in Requests \ {r} : Active(q) => event[q].event_id # event[r].event_id

PrevsKnown == \A e \in audit_events : KnownPrev(e.prev)

NoLoops == \A S \in SUBSET audit_events : S # {} => \E e \in S : e.prev \notin Ids(S)

\* While nothing has overlapped, the one request under way began after every
\* commit, and what it read is still the head.
Serial == ~overlapped =>
  /\ \A q, r \in Requests : Active(q) /\ Active(r) => q = r
  /\ \A r \in Requests : Active(r) =>
       /\ \A e \in audit_events : e.created_at < event[r].created_at
       /\ step[r] = "read" => IsHead(audit_events, event[r].prev)
  /\ AllExact => Verifies(audit_events)

ChainInv == TypeOK /\ UnderWay /\ PrevsKnown /\ NoLoops /\ Serial

-----------------------------------------------------------------------------

LEMMA InitChain == Init => ChainInv
  <1> SUFFICES ASSUME Init PROVE ChainInv
    OBVIOUS
  <1>1. /\ audit_events = {} /\ overlapped = FALSE
        /\ \A r \in Requests : ~Active(r)
    BY DEF Init, Active
  <1>2. TypeOK
    BY <1>1 DEF Init, TypeOK
  <1>3. UnderWay /\ PrevsKnown /\ NoLoops
    BY <1>1 DEF UnderWay, PrevsKnown, NoLoops
  <1>4. Serial
    BY <1>1 DEF Serial, Verifies
  <1> QED BY <1>2, <1>3, <1>4 DEF ChainInv

(***************************************************************************)
(* What adding a row x with a new id does to the order.                    *)
(***************************************************************************)
LEMMA BeforeGrows ==
  ASSUME NEW R, NEW x, NEW e
  PROVE  /\ Before(R, e) \subseteq Before(R \cup {x}, e)
         /\ Before(R \cup {x}, e) \subseteq Before(R, e) \cup {x}
         /\ ~Precedes(x, e) => Before(R \cup {x}, e) = Before(R, e)
  BY DEF Before

\* If a head of the larger set is not x, it is a head of the smaller one.
LEMMA HeadWithout ==
  ASSUME NEW R, NEW T, NEW x, NEW h,
         R \subseteq T, T \subseteq R \cup {x}, h # x.event_id, IsHead(T, h)
  PROVE  IsHead(R, h)
  <1>1. CASE T = {} /\ h = Genesis
    BY <1>1 DEF IsHead
  <1>2. CASE \E e \in T : IsLatest(T, e) /\ h = e.event_id
    <2>1. PICK e \in T : IsLatest(T, e) /\ h = e.event_id
      BY <1>2
    <2>2. e \in R
      BY <2>1
    <2>3. IsLatest(R, e)
      BY <2>1, <2>2 DEF IsLatest
    <2> QED BY <2>1, <2>2, <2>3 DEF IsHead
  <1> QED BY <1>1, <1>2 DEF IsHead

(***************************************************************************)
(* Taking away a row that no other row continues, and that is not known by *)
(* an earlier id, keeps a verifiable log verifiable.                       *)
(***************************************************************************)
LEMMA VerifiesWithout ==
  ASSUME NEW R, NEW x,
         \A e \in R : e.prev # x.event_id,
         Verifies(R \cup {x})
  PROVE  Verifies(R)
  <1> SUFFICES ASSUME NEW e \in R
               PROVE  e.exact /\ IsHead(Before(R, e), e.prev)
    BY DEF Verifies
  <1>1. e.exact /\ IsHead(Before(R \cup {x}, e), e.prev)
    BY DEF Verifies
  <1>2. /\ Before(R, e) \subseteq Before(R \cup {x}, e)
        /\ Before(R \cup {x}, e) \subseteq Before(R, e) \cup {x}
    BY BeforeGrows
  <1>3. \A A, B : /\ A \subseteq B /\ B \subseteq A \cup {x} /\ IsHead(B, e.prev)
                 => IsHead(A, e.prev)
    BY HeadWithout
  <1> QED BY <1>1, <1>2, <1>3

-----------------------------------------------------------------------------
(* The steps.                                                              *)

LEMMA BeginInd ==
  ASSUME ChainInv, NEW r \in Requests, NEW id \in EventIds, NEW d \in Deliverables,
         NEW exact \in Exactness, Begin(r, id, d, exact)
  PROVE  ChainInv'
  <1> USE DEF ChainInv
  <1>1. /\ audit_events' = audit_events /\ clock' = clock
        /\ step' = [step EXCEPT ![r] = "begun"]
        /\ event' = [event EXCEPT ![r] = [event_id |-> id, created_at |-> clock,
                       deliverable |-> d, exact |-> exact, prev |-> Genesis]]
        /\ step \in [Requests -> {"idle", "begun", "read"}]
        /\ DOMAIN event = Requests
        /\ overlapped' = (overlapped \/ \E q \in Requests : Active(q))
        /\ ~Active(r) /\ Fresh(id)
        /\ \A e \in audit_events : e.created_at < clock
    BY DEF Begin, TypeOK
  <1>2. /\ Active(r)' /\ step'[r] = "begun"
        /\ event'[r] = [event_id |-> id, created_at |-> clock,
                        deliverable |-> d, exact |-> exact, prev |-> Genesis]
        /\ \A q \in Requests \ {r} :
             step'[q] = step[q] /\ event'[q] = event[q] /\ (Active(q)' <=> Active(q))
    BY <1>1 DEF Active
  <1>3. TypeOK'
    <2>1. event'[r] \in Row
      BY <1>2, AuditAssumption DEF TypeOK, Row
    <2> QED BY <1>1, <1>2, <2>1 DEF TypeOK
  <1>4. UnderWay'
    BY <1>1, <1>2 DEF UnderWay, Fresh, KnownPrev, Ids
  <1>5. PrevsKnown' /\ NoLoops'
    BY <1>1 DEF PrevsKnown, NoLoops, KnownPrev, Ids
  <1>6. Serial'
    <2> SUFFICES ASSUME ~overlapped' PROVE
          /\ \A p, q \in Requests : Active(p)' /\ Active(q)' => p = q
          /\ \A q \in Requests : Active(q)' =>
               /\ \A e \in audit_events : e.created_at < event'[q].created_at
               /\ step'[q] = "read" => IsHead(audit_events, event'[q].prev)
          /\ AllExact => Verifies(audit_events)
      BY <1>1 DEF Serial, AllExact, Verifies, IsHead, IsLatest, Before, Precedes
    <2>1. ~overlapped /\ \A q \in Requests : ~Active(q)
      BY <1>1
    <2>2. \A q \in Requests : Active(q)' => q = r
      BY <2>1, <1>2
    <2> QED BY <1>1, <1>2, <2>1, <2>2 DEF Serial
  <1> QED BY <1>3, <1>4, <1>5, <1>6

LEMMA SelectInd ==
  ASSUME ChainInv, NEW r \in Requests, Select(r)
  PROVE  ChainInv'
  <1> USE DEF ChainInv
  <1>1. PICK h \in EventIds \cup {Genesis} :
          /\ IsHead(audit_events, h)
          /\ event' = [event EXCEPT ![r].prev = h]
    BY DEF Select
  <1>2. /\ audit_events' = audit_events /\ clock' = clock /\ overlapped' = overlapped
        /\ step[r] = "begun"
        /\ step' = [step EXCEPT ![r] = "read"]
        /\ step \in [Requests -> {"idle", "begun", "read"}]
        /\ DOMAIN event = Requests
    BY DEF Select, TypeOK
  <1>3. /\ Active(r) /\ Active(r)' /\ event[r] \in Row
        /\ event'[r] = [event[r] EXCEPT !.prev = h]
        /\ \A q \in Requests \ {r} :
             step'[q] = step[q] /\ event'[q] = event[q] /\ (Active(q)' <=> Active(q))
    BY <1>1, <1>2 DEF Active, TypeOK
  <1>4. /\ event'[r] \in Row /\ event'[r].prev = h
        /\ event'[r].event_id = event[r].event_id
        /\ event'[r].created_at = event[r].created_at
    BY <1>3 DEF Row
  <1>5. TypeOK'
    BY <1>1, <1>2, <1>3, <1>4 DEF TypeOK
  <1>6. h \in Ids(audit_events) \cup {Genesis}
    BY <1>1 DEF IsHead, Ids
  <1>7. UnderWay'
    <2>1. KnownPrev(event'[r].prev)
      BY <1>4, <1>6 DEF KnownPrev
    <2>2. \A q \in Requests : Active(q)' =>
            /\ Active(q) /\ event'[q].event_id = event[q].event_id
            /\ KnownPrev(event'[q].prev)
      BY <1>3, <1>4, <2>1 DEF UnderWay
    <2>3. Ids(audit_events)' = Ids(audit_events) /\ \A k : KnownPrev(k)' <=> KnownPrev(k)
      BY <1>2 DEF Ids, KnownPrev
    <2> QED BY <2>2, <2>3 DEF UnderWay, KnownPrev
  <1>8. PrevsKnown' /\ NoLoops'
    BY <1>2 DEF PrevsKnown, NoLoops, KnownPrev, Ids
  <1>9. Serial'
    <2> SUFFICES ASSUME ~overlapped PROVE
          /\ \A p, q \in Requests : Active(p)' /\ Active(q)' => p = q
          /\ \A q \in Requests : Active(q)' =>
               /\ \A e \in audit_events : e.created_at < event'[q].created_at
               /\ step'[q] = "read" => IsHead(audit_events, event'[q].prev)
          /\ AllExact => Verifies(audit_events)
      BY <1>2 DEF Serial, AllExact, Verifies, IsHead, IsLatest, Before, Precedes
    <2> QED BY <1>1, <1>2, <1>3, <1>4 DEF Serial
  <1> QED BY <1>5, <1>7, <1>8, <1>9

(***************************************************************************)
(* The row r inserts has a new id, which no committed row and no request   *)
(* under way names: it is continued by nothing yet.                        *)
(***************************************************************************)
LEMMA NobodyContinues ==
  ASSUME ChainInv, NEW r \in Requests, Active(r)
  PROVE  /\ event[r] \in Row
         /\ event[r].event_id \notin Ids(audit_events) \cup {Genesis}
         /\ KnownPrev(event[r].prev)
         /\ \A e \in audit_events : e.prev # event[r].event_id
  <1>1. event[r] \in Row /\ event[r].event_id \in EventIds
    BY DEF ChainInv, TypeOK, Row
  <1> QED BY <1>1, AuditAssumption DEF ChainInv, UnderWay, PrevsKnown, KnownPrev

LEMMA InsertInd ==
  ASSUME ChainInv, NEW r \in Requests, Insert(r)
  PROVE  ChainInv'
  <1> DEFINE x == event[r]
  <1> USE DEF ChainInv
  <1>1. /\ audit_events' = audit_events \cup {x}
        /\ clock' = clock /\ overlapped' = overlapped
        /\ step[r] = "read" /\ Active(r)
        /\ step' = [step EXCEPT ![r] = "idle"]
        /\ event' = [event EXCEPT ![r] = Genesis]
        /\ step \in [Requests -> {"idle", "begun", "read"}]
        /\ DOMAIN event = Requests
    BY DEF Insert, TypeOK, Active
  <1>2. /\ ~Active(r)'
        /\ \A q \in Requests \ {r} :
             step'[q] = step[q] /\ event'[q] = event[q] /\ (Active(q)' <=> Active(q))
    BY <1>1 DEF Active
  <1>3. /\ x \in Row
        /\ x.event_id \notin Ids(audit_events) \cup {Genesis}
        /\ KnownPrev(x.prev)
        /\ \A e \in audit_events : e.prev # x.event_id
    BY <1>1, NobodyContinues
  <1>4. Ids(audit_events)' = Ids(audit_events) \cup {x.event_id}
    BY <1>1 DEF Ids
  <1>5. TypeOK'
    <2>1. \A e \in audit_events : e.event_id # x.event_id
      BY <1>3 DEF Ids
    <2> QED BY <1>1, <1>2, <1>3, <2>1 DEF TypeOK
  <1>6. UnderWay'
    BY <1>1, <1>2, <1>4 DEF UnderWay, KnownPrev
  <1>7. PrevsKnown'
    BY <1>1, <1>3, <1>4 DEF PrevsKnown, KnownPrev
  <1>8. NoLoops'
    <2> SUFFICES ASSUME NEW S \in SUBSET (audit_events \cup {x}), S # {}
                 PROVE  \E e \in S : e.prev \notin Ids(S)
      BY <1>1 DEF NoLoops, Ids
    <2>1. CASE S \subseteq audit_events
      BY <2>1 DEF NoLoops
    <2>2. CASE S = {x}
      BY <2>2, <1>3 DEF Ids, KnownPrev
    <2>3. CASE x \in S /\ S # {x}
      <3>1. S \ {x} \in SUBSET audit_events /\ S \ {x} # {}
        BY <2>3
      <3>2. PICK e \in S \ {x} : e.prev \notin Ids(S \ {x})
        BY <3>1 DEF NoLoops
      <3>3. e \in audit_events /\ e.prev # x.event_id
        BY <3>1, <1>3
      <3> QED BY <3>2, <3>3 DEF Ids
    <2> QED BY <2>1, <2>2, <2>3
  <1>9. Serial'
    <2> SUFFICES ASSUME ~overlapped
                 PROVE  /\ \A q \in Requests : ~Active(q)'
                        /\ AllExact' => Verifies(audit_events')
      BY <1>1 DEF Serial, Verifies, IsHead, IsLatest, Before, Precedes
    <2>1. \A q \in Requests : Active(q) => q = r
      BY <1>1 DEF Serial
    <2>2. \A q \in Requests : ~Active(q)'
      BY <1>2, <2>1
    <2>3. ASSUME AllExact' PROVE Verifies(audit_events')
      <3>1. AllExact /\ x.exact
        BY <2>3, <1>1 DEF AllExact
      <3>2. Verifies(audit_events) /\ IsHead(audit_events, x.prev)
        BY <3>1, <1>1 DEF Serial
      <3>3. \A e \in audit_events : e.created_at < x.created_at
        BY <1>1 DEF Serial
      <3>4. \A e \in audit_events : e.created_at \in Nat /\ e.event_id \in Nat
        BY AuditAssumption DEF TypeOK, Row
      <3>5. x.created_at \in Nat /\ x.event_id \in Nat
        BY <1>3, AuditAssumption DEF Row
      <3>6. \A e \in audit_events : ~Precedes(x, e) /\ Precedes(e, x)
        BY <3>3, <3>4, <3>5 DEF Precedes
      <3>7. ~Precedes(x, x)
        BY <3>5 DEF Precedes
      <3>8. ASSUME NEW e \in audit_events
            PROVE  e.exact /\ IsHead(Before(audit_events \cup {x}, e), e.prev)
        <4>1. Before(audit_events \cup {x}, e) = Before(audit_events, e)
          BY <3>6, BeforeGrows
        <4> QED BY <4>1, <3>2 DEF Verifies
      <3>9. Before(audit_events \cup {x}, x) = audit_events
        BY <3>6, <3>7 DEF Before
      <3> QED BY <1>1, <3>1, <3>2, <3>8, <3>9 DEF Verifies
    <2> QED BY <2>2, <2>3
  <1> QED BY <1>5, <1>6, <1>7, <1>8, <1>9

LEMMA RollBackInd ==
  ASSUME ChainInv, NEW r \in Requests, RollBack(r)
  PROVE  ChainInv'
  <1> USE DEF ChainInv
  <1>1. /\ audit_events' = audit_events /\ clock' = clock /\ overlapped' = overlapped
        /\ step' = [step EXCEPT ![r] = "idle"]
        /\ event' = [event EXCEPT ![r] = Genesis]
        /\ step \in [Requests -> {"idle", "begun", "read"}]
        /\ DOMAIN event = Requests
    BY DEF RollBack, TypeOK
  <1>2. /\ ~Active(r)'
        /\ \A q \in Requests \ {r} :
             step'[q] = step[q] /\ event'[q] = event[q] /\ (Active(q)' <=> Active(q))
    BY <1>1 DEF Active
  <1>3. TypeOK'
    BY <1>1, <1>2 DEF TypeOK
  <1>4. UnderWay'
    BY <1>1, <1>2 DEF UnderWay, KnownPrev, Ids
  <1>5. PrevsKnown' /\ NoLoops'
    BY <1>1 DEF PrevsKnown, NoLoops, KnownPrev, Ids
  <1>6. Serial'
    <2> SUFFICES ASSUME ~overlapped PROVE
          /\ \A p, q \in Requests : Active(p)' /\ Active(q)' => p = q
          /\ \A q \in Requests : Active(q)' =>
               /\ \A e \in audit_events : e.created_at < event'[q].created_at
               /\ step'[q] = "read" => IsHead(audit_events, event'[q].prev)
          /\ AllExact => Verifies(audit_events)
      BY <1>1 DEF Serial, AllExact, Verifies, IsHead, IsLatest, Before, Precedes
    <2> QED BY <1>1, <1>2 DEF Serial
  <1> QED BY <1>3, <1>4, <1>5, <1>6

\* A tick of the clock, and a step that changes nothing.
LEMMA ClockInd ==
  ASSUME ChainInv, clock' \in Nat, UNCHANGED <<audit_events, step, event, overlapped>>
  PROVE  ChainInv'
  BY DEF ChainInv, TypeOK, UnderWay, PrevsKnown, KnownPrev, NoLoops, Serial, Active, Ids,
         AllExact, Verifies, IsHead, IsLatest, Before, Precedes

LEMMA ChainNext == ChainInv /\ [Next]_vars => ChainInv'
  <1> SUFFICES ASSUME ChainInv, [Next]_vars PROVE ChainInv'
    OBVIOUS
  <1>1. CASE Tick
    BY <1>1, ClockInd DEF Tick, ChainInv, TypeOK
  <1>2. CASE UNCHANGED vars
    BY <1>2, ClockInd DEF vars, ChainInv, TypeOK
  <1>3. ASSUME NEW r \in Requests, NEW id \in EventIds, NEW d \in Deliverables,
               NEW exact \in Exactness, Begin(r, id, d, exact)
        PROVE  ChainInv'
    BY <1>3, BeginInd
  <1>4. ASSUME NEW r \in Requests, Select(r) \/ Insert(r) \/ RollBack(r)
        PROVE  ChainInv'
    BY <1>4, SelectInd, InsertInd, RollBackInd
  <1> QED BY <1>1, <1>2, <1>3, <1>4 DEF Next

\* ChainInv holds in every reachable state.
THEOREM ChainInductive == Spec => []ChainInv
  BY InitChain, ChainNext, PTL DEF Spec

-----------------------------------------------------------------------------
(* The properties.                                                         *)

(***************************************************************************)
(* Types, and event_id is a primary key.                                   *)
(***************************************************************************)
THEOREM AuditTypeCorrect == Spec => []TypeOK
  <1>1. ChainInv => TypeOK
    BY DEF ChainInv
  <1> QED BY <1>1, ChainInductive, PTL

(***************************************************************************)
(* emit_event called by one handler at a time writes a log that the walk   *)
(* of verify_chain accepts, with any number of rollbacks in between.       *)
(***************************************************************************)
THEOREM SerialEmits == Spec => []SerialChainVerifies
  <1>1. ChainInv => SerialChainVerifies
    BY DEF ChainInv, Serial, SerialChainVerifies
  <1> QED BY <1>1, ChainInductive, PTL

(***************************************************************************)
(* However emits overlap, prev_event_hash leads from any event through     *)
(* older committed events to Genesis: forks, but no loop and no gap.       *)
(***************************************************************************)
THEOREM ChainsAreWellFounded == Spec => []ChainsDescend
  <1>1. ChainInv => ChainsDescend
    BY DEF ChainInv, PrevsKnown, KnownPrev, NoLoops, ChainsDescend
  <1> QED BY <1>1, ChainInductive, PTL

(***************************************************************************)
(* A fork, once committed, makes every later verification of the whole log *)
(* fail: emit_event never repairs it.                                      *)
(***************************************************************************)
THEOREM ForksAreForEver == Spec => BrokenStaysBroken
  <1>1. ChainInv /\ [Next]_vars =>
          [~Verifies(audit_events) => ~Verifies(audit_events')]_vars
    <2> SUFFICES ASSUME ChainInv, [Next]_vars, Verifies(audit_events')
                 PROVE  Verifies(audit_events)
      OBVIOUS
    <2>1. CASE UNCHANGED audit_events
      BY <2>1
    <2>2. ASSUME NEW r \in Requests, Insert(r) PROVE Verifies(audit_events)
      <3>1. Active(r) /\ audit_events' = audit_events \cup {event[r]}
        BY <2>2 DEF Insert, Active
      <3> QED BY <3>1, NobodyContinues, VerifiesWithout
    <2> QED BY <2>1, <2>2
         DEF Next, vars, Tick, Begin, Select, RollBack
  <1> QED BY <1>1, ChainInductive, PTL DEF Spec, BrokenStaysBroken

(***************************************************************************)
(* On a sound log, verify-chain with a deliverable_id succeeds exactly if  *)
(* no other deliverable's event precedes one of this deliverable.  From a  *)
(* first foreign predecessor the prev_event_hash chain of the filtered     *)
(* rows would never leave them, which NoLoops excludes.                    *)
(***************************************************************************)
LEMMA FilteredWalk ==
  ASSUME ChainInv, Verifies(audit_events), NEW d \in Deliverables
  PROVE  Verifies(About(d)) <=> \A e \in About(d) : Before(audit_events, e) \subseteq About(d)
  <1> DEFINE R == audit_events
             A == About(d)
             Foreign(e) == ~(Before(R, e) \subseteq A)
             S == {e \in A : Foreign(e)}
  <1>1. A \subseteq R /\ S \subseteq A
    BY DEF About
  <1>2. ASSUME \A e \in A : Before(R, e) \subseteq A PROVE Verifies(A)
    <2> SUFFICES ASSUME NEW e \in A PROVE e.exact /\ IsHead(Before(A, e), e.prev)
      BY DEF Verifies
    <2>1. Before(A, e) = Before(R, e)
      BY <1>1, <1>2 DEF Before
    <2> QED BY <1>1, <2>1 DEF Verifies
  <1>3. ASSUME Verifies(A), S # {} PROVE FALSE
    <2>1. PICK e \in S : e.prev \notin Ids(S)
      BY <1>1, <1>3 DEF ChainInv, NoLoops
    <2>2. PICK f \in Before(R, e) : f \notin A
      BY <2>1
    <2>3. IsHead(Before(R, e), e.prev) /\ IsHead(Before(A, e), e.prev)
      BY <1>1, <1>3, <2>1 DEF Verifies
    <2>4. PICK g \in Before(R, e) : IsLatest(Before(R, e), g) /\ e.prev = g.event_id
      BY <2>2, <2>3 DEF IsHead
    <2>5. g \in R /\ g.event_id # Genesis
      BY <2>4, AuditAssumption DEF Before, ChainInv, TypeOK, Row
    <2>6. PICK a \in Before(A, e) : e.prev = a.event_id
      BY <2>3, <2>4, <2>5 DEF IsHead, IsLatest
    <2>7. a \in R /\ a \in A
      BY <1>1, <2>6 DEF Before
    <2>8. a = g
      BY <2>4, <2>5, <2>6, <2>7 DEF ChainInv, TypeOK
    <2>9. Precedes(f, g) /\ f \in R
      BY <2>2, <2>4, <2>7, <2>8 DEF IsLatest, Before
    <2>10. g \in S
      BY <2>2, <2>7, <2>8, <2>9 DEF Before
    <2> QED BY <2>1, <2>4, <2>10 DEF Ids
  <1> QED BY <1>2, <1>3

(***************************************************************************)
(* verify-chain's filter, for every serial log.                            *)
(***************************************************************************)
THEOREM FilterIsPositional == Spec => []FilteredChainNeedsPrefix
  <1>1. ChainInv => FilteredChainNeedsPrefix
    <2> SUFFICES ASSUME ChainInv, ~overlapped, AllExact, NEW d \in Deliverables
                 PROVE  Verifies(About(d)) <=>
                          \A e \in About(d) : Before(audit_events, e) \subseteq About(d)
      BY DEF FilteredChainNeedsPrefix
    <2>1. Verifies(audit_events)
      BY DEF ChainInv, Serial
    <2> QED BY <2>1, FilteredWalk
  <1> QED BY <1>1, ChainInductive, PTL
=============================================================================
