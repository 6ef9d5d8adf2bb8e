---------------------------- MODULE TokenBucket ----------------------------
(***************************************************************************)
(* What a rate limiter promises of its buckets: requests are decided one   *)
(* after another, each at some instant, against a level that is refilled   *)
(* for the time since the last decision.  A level is counted in parts of a *)
(* token; Cost of them pay a request.                                      *)
(***************************************************************************)
EXTENDS Integers

CONSTANTS None, Keys, Requests, Instants, Cost,
  Capacity, Rate   \* key -> parts held at most, parts refilled per instant

VARIABLES
  buckets,  \* key -> [tokens, updated_at], or None before the first request
  verdict   \* request -> what it was told: "granted" or "refused", or None

Smaller(a, b) == IF a < b THEN a ELSE b
Larger(a, b) == IF a < b THEN b ELSE a

Level(k, t) ==
  IF buckets[k] = None THEN Capacity[k]
  ELSE Smaller(Capacity[k],
               buckets[k].tokens + Rate[k] * Larger(0, t - buckets[k].updated_at))

Init == /\ buckets = [k \in Keys |-> None]
        /\ verdict = [r \in Requests |-> None]

Leave(k, level, t) ==
  buckets' = [buckets EXCEPT ![k] = [tokens |-> level, updated_at |-> t]]

\* A decision is told to one request that has none, or to nobody: its reply
\* may be lost.
Tell(word) ==
  \/ UNCHANGED verdict
  \/ \E r \in Requests : verdict[r] = None /\ verdict' = [verdict EXCEPT ![r] = word]

Grant(k, t) ==
  /\ Level(k, t) >= Cost
  /\ Leave(k, Level(k, t) - Cost, t)
  /\ Tell("granted")

Refuse(k, t) ==
  /\ Level(k, t) < Cost
  /\ Leave(k, Level(k, t), t)
  /\ Tell("refused")

\* An idle bucket may be forgotten.
Forget(k) == buckets' = [buckets EXCEPT ![k] = None] /\ UNCHANGED verdict

\* The next request.
Ask(r) == verdict' = [verdict EXCEPT ![r] = None] /\ UNCHANGED buckets

Next ==
  \/ \E k \in Keys : Forget(k) \/ \E t \in Instants : Grant(k, t) \/ Refuse(k, t)
  \/ \E r \in Requests : Ask(r)

Spec == Init /\ [][Next]_<<buckets, verdict>>
=============================================================================
