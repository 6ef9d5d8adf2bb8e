---------------------------- MODULE MCRateLimit -----------------------------
(***************************************************************************)
(* Instances of RateLimit for TLC: two gateways and three slots for        *)
(* requests, two of which are in use at a time.                            *)
(***************************************************************************)
EXTENDS RateLimit

CONSTANTS g1, g2, q1, q2, q3, acme, blue

MCCalls ==
  [r \in Requests |->
    [endpoint |-> "create_bundle",
     tenant |-> IF r = q2 THEN blue ELSE IF r = q3 THEN None ELSE acme]]

Setup(backend, a, b, c) ==
  [enabled |-> TRUE, backend |-> backend,
   home |-> [r \in Requests |-> IF r = q1 THEN a ELSE IF r = q2 THEN b ELSE c]]

\* One gateway with its own buckets; two that share those in Redis, one of
\* them with a clock that lags; one whose requests wait for each other's call
\* of Redis; no limits.
MCDeployments ==
  {Setup("memory", g1, g1, None), Setup("redis", g1, None, g2),
   Setup("redis", g1, g1, None), [Setup("memory", g1, g1, None) EXCEPT !.enabled = FALSE]}

MCMaxForward == [g \in Gateways |-> IF g = g1 THEN 2 ELSE 0]

\* A token is two parts: one tick earns half of it.
MCCapacity == [lane \in Lanes |-> 2]
MCRate == [lane \in Lanes |-> 1]
=============================================================================
