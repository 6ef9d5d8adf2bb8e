----------------------------- MODULE RateLimit ------------------------------
(***************************************************************************)
(* The rate limiting middlewares of the gateway: the buckets that          *)
(* rate_limit.py keeps in each process and those that rate_limit_redis.py  *)
(* keeps in Redis for all of them.  Starlette runs the middleware added    *)
(* last first: with the Redis backend a request passes the Redis limiter,  *)
(* then its process's own limiter, which is added too, then the            *)
(* authentication, which alone knows the tenant.                           *)
(*                                                                         *)
(* allow() is called without await, so a gateway that is talking to Redis  *)
(* does nothing else; requests interleave between gateways, and within one *)
(* between the middlewares.  Requests come without end: each slot serves   *)
(* one after another.  A bucket is counted in parts of a token.            *)
(***************************************************************************)
EXTENDS Integers, FiniteSets

CONSTANTS
  None,
  Gateways,
  Requests,       \* slots for requests under way
  Calls,          \* request -> [endpoint, tenant]; tenant None: no token
  Deployments,    \* [enabled, backend, home]: DADI_RATE_LIMIT_ENABLED and
                  \* _BACKEND, and the gateway each request is sent to, if any
  Cost,           \* the parts of one token
  Capacity, Rate, \* lane -> parts held at most, parts refilled per tick
  MaxForward,     \* bound: gateway -> how many ticks its clock may make
  IdleLimit       \* ticks after which Redis expires a bucket

\* The endpoints that are told apart, and the lanes they are put in: the
\* download of evidence is none of the byte endpoints.
Lane(endpoint) ==
  CASE endpoint = "content" -> "bytes"
    [] endpoint = "download_bundle" -> "bundle_download"
    [] endpoint = "create_bundle" -> "bundle_create"
    [] endpoint = "create_evidence" -> "evidence_create"
    [] endpoint = "post_artifact" -> "artifact_upload"
    [] OTHER -> "meta"

Lanes == {"bytes", "bundle_download", "bundle_create", "evidence_create",
          "artifact_upload", "meta"}
Tenants == {Calls[r].tenant : r \in Requests} \cup {"anonymous"}
Keys == (Tenants \ {None}) \X {Lane(Calls[r].endpoint) : r \in Requests}

\* The defaults refill a bucket long before Redis expires it.
Buckets == [tokens : Nat, updated_at : Nat]

ASSUME RateLimitAssumption ==
  /\ Cost \in Nat /\ IdleLimit \in Nat
  /\ Capacity \in [Lanes -> Nat] /\ Rate \in [Lanes -> Nat]
  /\ \A lane \in Lanes : Capacity[lane] <= IdleLimit * Rate[lane]
  /\ MaxForward \in [Gateways -> Nat]
  /\ \A d \in Deployments : /\ d.backend \in {"memory", "redis"}
                            /\ d.home \in [Requests -> Gateways \cup {None}]
  /\ None \notin Gateways \cup {"anonymous"} /\ None \notin Buckets

VARIABLES
  deployment,  \* how the gateways are set up
  clock,    \* gateway -> its time.time()
  memory,   \* gateway -> key -> the bucket in its process
  redis,    \* key -> the bucket in Redis
  redisUp,  \* whether Redis can be reached
  pc,       \* request -> where it is
  tenant,   \* request -> request.state.tenant_id
  at,       \* request -> the `now` of its call of the Redis limiter
  seen,     \* request -> the bucket it has read
  dirty,    \* request -> the key was written since its WATCH
  forward,  \* history: gateway -> how far its clock moved
  served,   \* history: gateway -> key -> requests its own limiter let pass
  verdict   \* history: request -> what the Redis limiter told it

limiterVars == <<deployment, clock, memory, redis, redisUp, forward, served, verdict>>
requestVars == <<pc, tenant, at, seen, dirty>>
vars == <<limiterVars, requestVars>>

Ended == {"refused", "unauthorized", "served", "lost"}
Home(r) == deployment.home[r]

Key(r) == <<IF tenant[r] = None THEN "anonymous" ELSE tenant[r],
            Lane(Calls[r].endpoint)>>

\* The event loop of a gateway is not inside a call of the Redis limiter.
LoopFree(g) == \A q \in Requests : Home(q) = g => pc[q] \notin {"watch", "execute"}

Smaller(a, b) == IF a < b THEN a ELSE b
Larger(a, b) == IF a < b THEN b ELSE a

\* The level at `now`, and the bucket that a decision at `now` leaves.
Refilled(b, k, now) ==
  IF b = None THEN Capacity[k[2]]
  ELSE Smaller(Capacity[k[2]],
               b.tokens + Rate[k[2]] * Larger(0, now - b.updated_at))

Allows(b, k, now) == Refilled(b, k, now) >= Cost

Decided(b, k, now) ==
  [tokens |-> Refilled(b, k, now) - IF Allows(b, k, now) THEN Cost ELSE 0,
   updated_at |-> now]

Init ==
  /\ deployment \in Deployments
  /\ clock = [g \in Gateways |-> 0]
  /\ memory = [g \in Gateways |-> [k \in Keys |-> None]]
  /\ redis = [k \in Keys |-> None]
  /\ redisUp = TRUE
  /\ pc = [r \in Requests |-> "idle"]
  /\ tenant = [r \in Requests |-> None]
  /\ at = [r \in Requests |-> 0]
  /\ seen = [r \in Requests |-> None]
  /\ dirty = [r \in Requests |-> FALSE]
  /\ forward = [g \in Gateways |-> 0]
  /\ served = [g \in Gateways |-> [k \in Keys |-> 0]]
  /\ verdict = [r \in Requests |-> None]

Goto(r, label) == pc' = [pc EXCEPT ![r] = label]

\* What r has read of the bucket is of no more use.
Drop(r) == seen' = [seen EXCEPT ![r] = None]

-----------------------------------------------------------------------------
(* The Redis limiter.                                                      *)

\* `now` is taken once, before the retry loop.
Receive(r) ==
  /\ pc[r] \in {"idle"} \cup Ended /\ Home(r) # None /\ LoopFree(Home(r))
  /\ Goto(r, IF ~deployment.enabled THEN "auth"
             ELSE IF deployment.backend = "redis" THEN "watch" ELSE "memory")
  /\ IF deployment.backend = "redis" THEN at' = [at EXCEPT ![r] = clock[Home(r)]]
     ELSE UNCHANGED at
  /\ tenant' = [tenant EXCEPT ![r] = None]
  /\ verdict' = [verdict EXCEPT ![r] = None]
  /\ UNCHANGED <<deployment, clock, memory, redis, redisUp, forward, served, seen, dirty>>

\* WATCH and HGETALL: a write in between makes EXEC fail like a later one.
Watch(r) ==
  /\ pc[r] = "watch" /\ redisUp
  /\ seen' = [seen EXCEPT ![r] = redis[Key(r)]]
  /\ dirty' = [dirty EXCEPT ![r] = FALSE]
  /\ Goto(r, "execute")
  /\ UNCHANGED <<limiterVars, tenant, at>>

\* HSET of the bucket: every other transaction that watches the key is void.
WriteBucket(r) ==
  /\ redis' = [redis EXCEPT ![Key(r)] = Decided(seen[r], Key(r), at[r])]
  /\ dirty' = [q \in Requests |->
                 dirty[q] \/ (q # r /\ pc[q] = "execute" /\ Key(q) = Key(r))]

Told(r, word) == verdict' = [verdict EXCEPT ![r] = word]

\* Variant: no WATCH, so that EXEC never fails.
ExecuteUnwatched(r) ==
  /\ pc[r] = "execute" /\ redisUp
  /\ WriteBucket(r)
  /\ IF Allows(seen[r], Key(r), at[r])
     THEN Goto(r, "memory") /\ Told(r, "granted")
     ELSE Goto(r, "refused") /\ Told(r, "refused")
  /\ at' = [at EXCEPT ![r] = 0] /\ Drop(r)
  /\ UNCHANGED <<deployment, clock, memory, redisUp, forward, served, tenant>>

\* Variant: the retry repeats EXEC without reading again.
ExecuteAgain(r) ==
  /\ ~dirty[r]
  /\ ExecuteUnwatched(r)

\* A void transaction raises, the pipeline is reset and the loop goes on.
Execute(r) ==
  \/ /\ pc[r] = "execute" /\ redisUp /\ dirty[r]
     /\ Goto(r, "watch") /\ Drop(r)
     /\ dirty' = [dirty EXCEPT ![r] = FALSE]
     /\ UNCHANGED <<limiterVars, tenant, at>>
  \/ /\ pc[r] = "execute" /\ redisUp /\ ~dirty[r]
     /\ WriteBucket(r)
     /\ IF Allows(seen[r], Key(r), at[r])
        THEN Goto(r, "memory") /\ Told(r, "granted")
        ELSE Goto(r, "refused") /\ Told(r, "refused")
     /\ at' = [at EXCEPT ![r] = 0] /\ Drop(r)
     /\ UNCHANGED <<deployment, clock, memory, redisUp, forward, served, tenant>>

\* Redis is lost: any exception, also a timeout, only starts the loop again.
\* The answer 503 of dispatch is never given, since allow() does not raise.
BreakOff(r) ==
  /\ pc[r] = "execute" /\ ~redisUp
  /\ Goto(r, "watch") /\ Drop(r)
  /\ dirty' = [dirty EXCEPT ![r] = FALSE]
  /\ UNCHANGED <<limiterVars, tenant, at>>

\* Redis executes the transaction and is lost before the reply arrives.
LoseReply(r) ==
  /\ pc[r] = "execute" /\ redisUp /\ ~dirty[r]
  /\ WriteBucket(r)
  /\ redisUp' = FALSE
  /\ Goto(r, "watch") /\ Drop(r)
  /\ UNCHANGED <<deployment, clock, memory, forward, served, verdict, tenant, at>>

-----------------------------------------------------------------------------
(* The limiter in memory, and the authentication behind it.                *)

\* Variant: a refused request leaves updated_at alone.
MemoryAllowKeepsTime(r) ==
  LET g == Home(r)  k == Key(r)  b == memory[g][k]
      allowed == Allows(b, k, clock[g])
  IN /\ pc[r] = "memory" /\ LoopFree(g)
     /\ memory' = [memory EXCEPT ![g][k] =
          [Decided(b, k, clock[g]) EXCEPT
             !.updated_at = IF allowed \/ b = None THEN @ ELSE b.updated_at]]
     /\ served' = [served EXCEPT ![g][k] = IF allowed THEN @ + 1 ELSE @]
     /\ Goto(r, IF allowed THEN "auth" ELSE "refused")
     /\ UNCHANGED <<deployment, clock, redis, redisUp, forward, verdict, tenant, at, seen, dirty>>

MemoryAllow(r) ==
  LET g == Home(r)  k == Key(r)  b == memory[g][k]
      allowed == Allows(b, k, clock[g])
  IN /\ pc[r] = "memory" /\ LoopFree(g)
     /\ memory' = [memory EXCEPT ![g][k] = Decided(b, k, clock[g])]
     /\ served' = [served EXCEPT ![g][k] = IF allowed THEN @ + 1 ELSE @]
     /\ Goto(r, IF allowed THEN "auth" ELSE "refused")
     /\ UNCHANGED <<deployment, clock, redis, redisUp, forward, verdict, tenant, at, seen, dirty>>

Authenticate(r) ==
  /\ pc[r] = "auth" /\ LoopFree(Home(r))
  /\ tenant' = [tenant EXCEPT ![r] = Calls[r].tenant]
  /\ Goto(r, IF Calls[r].tenant = None THEN "unauthorized" ELSE "served")
  /\ UNCHANGED <<limiterVars, at, seen, dirty>>

-----------------------------------------------------------------------------
(* Clocks, Redis and processes.                                            *)

Tick(g) ==
  /\ forward[g] < MaxForward[g]
  /\ clock' = [clock EXCEPT ![g] = @ + 1]
  /\ forward' = [forward EXCEPT ![g] = @ + 1]
  /\ UNCHANGED <<deployment, memory, redis, redisUp, served, verdict, requestVars>>

\* time.time() is not monotonic: the clock is adjusted.
SetBack(g) ==
  /\ clock[g] > 0
  /\ clock' = [clock EXCEPT ![g] = @ - 1]
  /\ UNCHANGED <<deployment, memory, redis, redisUp, forward, served, verdict, requestVars>>

Reach == /\ redisUp' = ~redisUp
         /\ UNCHANGED <<deployment, clock, memory, redis, forward, served, verdict, requestVars>>

\* EXPIRE deletes the key, which voids a WATCH.  Redis counts the seconds
\* itself: to a gateway whose clock is behind the key is gone early.
Expire(k) ==
  /\ redis[k] # None
  /\ \E g \in Gateways : clock[g] >= redis[k].updated_at + IdleLimit
  /\ redis' = [redis EXCEPT ![k] = None]
  /\ dirty' = [q \in Requests |-> dirty[q] \/ (pc[q] = "execute" /\ Key(q) = k)]
  /\ UNCHANGED <<deployment, clock, memory, redisUp, forward, served, verdict, pc, tenant, at, seen>>

Restart(g) ==
  /\ memory' = [memory EXCEPT ![g] = [k \in Keys |-> None]]
  /\ served' = [served EXCEPT ![g] = [k \in Keys |-> 0]]
  /\ LET hit(r) == Home(r) = g /\ pc[r] \notin Ended \cup {"idle"}
     IN /\ pc' = [r \in Requests |-> IF hit(r) THEN "lost" ELSE pc[r]]
        /\ at' = [r \in Requests |-> IF hit(r) THEN 0 ELSE at[r]]
        /\ seen' = [r \in Requests |-> IF hit(r) THEN None ELSE seen[r]]
        /\ dirty' = [r \in Requests |-> dirty[r] /\ ~hit(r)]
  /\ UNCHANGED <<deployment, clock, redis, redisUp, forward, verdict, tenant>>

-----------------------------------------------------------------------------

Step(r) == Watch(r) \/ Execute(r) \/ BreakOff(r) \/ MemoryAllow(r) \/ Authenticate(r)

Next ==
  \/ \E r \in Requests : Receive(r) \/ Step(r) \/ LoseReply(r)
  \/ \E g \in Gateways : Tick(g) \/ SetBack(g) \/ Restart(g)
  \/ Reach
  \/ \E k \in Keys : Expire(k)

Spec == Init /\ [][Next]_vars

(***************************************************************************)
(* A gateway that runs goes on with the call of the Redis limiter it is    *)
(* in.  Its event loop takes callbacks in the order in which they became   *)
(* ready, so that one which finds the loop free again and again is served. *)
(***************************************************************************)
FairSpec ==
  /\ Spec
  /\ \A r \in Requests : /\ WF_vars(Watch(r) \/ Execute(r) \/ BreakOff(r))
                         /\ SF_vars(MemoryAllow(r) \/ Authenticate(r))

-----------------------------------------------------------------------------
(* Properties.                                                             *)

Bucket == INSTANCE TokenBucket WITH
  buckets <- redis, Instants <- UNION {0..MaxForward[g] : g \in Gateways},
  Capacity <- [k \in Keys |-> Capacity[k[2]]], Rate <- [k \in Keys |-> Rate[k[2]]]

(***************************************************************************)
(* The read-modify-write of rate_limit_redis.py over WATCH, MULTI and EXEC *)
(* is one decision of a token bucket, whatever other gateways do in        *)
(* between, retries, replies that get lost, clocks that differ and         *)
(* expiring keys: no update is lost and no token is spent twice.           *)
(***************************************************************************)
ImplementsBucket == Bucket!Spec

(***************************************************************************)
(* What a process's own limiter lets pass is paid for: by the capacity and *)
(* by the time its clock really moved forward, also when the clock is set  *)
(* back between two requests and passes the same time again.               *)
(***************************************************************************)
GrantsAreEarned ==
  \A g \in Gateways, k \in Keys : memory[g][k] # None =>
    Cost * served[g][k] + memory[g][k].tokens
      <= Capacity[k[2]] + Rate[k[2]] * forward[g]

(***************************************************************************)
(* Only success of others delays: once Redis stays reachable, a request    *)
(* that does not leave the middlewares, in a loop of its own or behind one *)
(* of its gateway, is overtaken again and again by decisions that other    *)
(* gateways take.  More is not guaranteed: the loop of allow() goes on as  *)
(* long as somebody else's EXEC comes first, and it has no other way out.  *)
(***************************************************************************)
Overtaken(r) ==
  \E q \in Requests : Home(q) # Home(r) /\ pc[q] = "execute" /\ pc'[q] \in {"memory", "refused"}

OnlySuccessDelays ==
  <>[]redisUp =>
    \A r \in Requests : \/ []<>(pc[r] \in {"idle"} \cup Ended)
                        \/ []<><<Overtaken(r)>>_vars
=============================================================================
