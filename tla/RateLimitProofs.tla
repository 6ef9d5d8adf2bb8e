-------------------------- MODULE RateLimitProofs ---------------------------
(***************************************************************************)
(* The limiters of RateLimit, for any gateways, requests, clocks, prices   *)
(* and capacities: what a gateway lets pass by itself is earned, and the   *)
(* limiter over Redis implements TokenBucket.                              *)
(***************************************************************************)
EXTENDS RateLimit, TLAPS

-----------------------------------------------------------------------------
(* The inductive invariant.                                                *)

Entered(r) == pc[r] \in {"watch", "execute", "memory", "auth"}

Types ==
  /\ deployment \in Deployments
  /\ clock \in [Gateways -> Nat] /\ forward \in [Gateways -> Nat]
  /\ memory \in [Gateways -> [Keys -> Buckets \cup {None}]]
  /\ redis \in [Keys -> Buckets \cup {None}]
  /\ pc \in [Requests -> {"idle", "watch", "execute", "memory", "auth"} \cup Ended]
  /\ at \in [Requests -> Nat]
  /\ seen \in [Requests -> Buckets \cup {None}]
  /\ dirty \in [Requests -> BOOLEAN]
  /\ served \in [Gateways -> [Keys -> Nat]]
  /\ verdict \in [Requests -> {None, "granted", "refused"}]

\* A clock is never ahead of the time it really moved.
ClocksLag == \A g \in Gateways : clock[g] <= forward[g] /\ forward[g] <= MaxForward[g]

Named ==
  /\ tenant \in [Requests -> Tenants \cup {None}]
  /\ \A r \in Requests : Entered(r) => Home(r) \in Gateways

\* The `now` of a call of the Redis limiter is one that its gateway has had.
TimesAreTaken ==
  \A r \in Requests : pc[r] \in {"watch", "execute"} => at[r] <= MaxForward[Home(r)]

\* A request that is still in the call has not been told anything.
Untold == \A r \in Requests : pc[r] \in {"watch", "execute"} => verdict[r] = None

\* A bucket that was read is still the one in Redis, unless EXEC will fail.
WatchesHold ==
  \A r \in Requests : pc[r] = "execute" /\ ~dirty[r] => seen[r] = redis[Key(r)]

\* What the tokens still to be refilled up to the gateway's time come on top.
Earned(g, k) ==
  IF memory[g][k] = None THEN served[g][k] = 0
  ELSE Cost * served[g][k] + memory[g][k].tokens
         + Rate[k[2]] * Larger(0, clock[g] - memory[g][k].updated_at)
         <= Capacity[k[2]] + Rate[k[2]] * forward[g]

LimitInv ==
  /\ Types /\ ClocksLag /\ Named /\ TimesAreTaken /\ Untold /\ WatchesHold
  /\ \A g \in Gateways, k \in Keys : Earned(g, k)

-----------------------------------------------------------------------------
(* Keys, levels and decisions.                                             *)

LEMMA KeyTypes ==
  ASSUME Named, NEW r \in Requests
  PROVE  Key(r) \in Keys
  <1>1. "anonymous" \in Tenants /\ "anonymous" # None
    BY RateLimitAssumption DEF Tenants
  <1>2. tenant[r] \in Tenants \cup {None}
    BY DEF Named
  <1> QED BY <1>1, <1>2 DEF Key, Keys

LEMMA LanesOfKeys ==
  ASSUME NEW k \in Keys
  PROVE  /\ k[2] \in Lanes
         /\ Capacity[k[2]] \in Nat /\ Rate[k[2]] \in Nat
  <1>1. \A r \in Requests : Lane(Calls[r].endpoint) \in Lanes
    BY DEF Lane, Lanes
  <1>2. k[2] \in {Lane(Calls[r].endpoint) : r \in Requests}
    BY DEF Keys
  <1> QED BY <1>1, <1>2, RateLimitAssumption

LEMMA Products ==
  ASSUME NEW a \in Nat, NEW b \in Nat
  PROVE  a * b \in Nat
  BY SMT

LEMMA Distribute ==
  ASSUME NEW a \in Nat, NEW b \in Nat, NEW c \in Nat
  PROVE  a * (b + c) = a * b + a * c
  BY SMT

\* A level is between nothing and the capacity; a decision leaves a bucket.
LEMMA Decisions ==
  ASSUME NEW k \in Keys, NEW b \in Buckets \cup {None}, NEW now \in Nat
  PROVE  /\ Refilled(b, k, now) \in Nat
         /\ Refilled(b, k, now) <= Capacity[k[2]]
         /\ b # None => Refilled(b, k, now)
                          <= b.tokens + Rate[k[2]] * Larger(0, now - b.updated_at)
         /\ Decided(b, k, now) \in Buckets
         /\ Decided(b, k, now) # None
         /\ Decided(b, k, now).updated_at = now
         /\ Decided(b, k, now).tokens =
              Refilled(b, k, now) - IF Allows(b, k, now) THEN Cost ELSE 0
         /\ Allows(b, k, now) <=> Refilled(b, k, now) >= Cost
  <1> DEFINE cap == Capacity[k[2]]  rate == Rate[k[2]]
  <1>1. cap \in Nat /\ rate \in Nat /\ Cost \in Nat /\ None \notin Buckets
    BY LanesOfKeys, RateLimitAssumption
  <1>2. ASSUME b # None
        PROVE  rate * Larger(0, now - b.updated_at) \in Nat /\ b.tokens \in Nat
    <2>1. b.updated_at \in Nat /\ b.tokens \in Nat
      BY <1>2 DEF Buckets
    <2>2. Larger(0, now - b.updated_at) \in Nat
      BY <2>1 DEF Larger
    <2> QED BY <1>1, <2>1, <2>2, Products
  <1>3. Refilled(b, k, now) \in Nat /\ Refilled(b, k, now) <= cap
    BY <1>1, <1>2 DEF Refilled, Smaller
  <1>4. b # None => Refilled(b, k, now) <= b.tokens + rate * Larger(0, now - b.updated_at)
    BY <1>1, <1>2 DEF Refilled, Smaller
  <1>5. Refilled(b, k, now) - (IF Allows(b, k, now) THEN Cost ELSE 0) \in Nat
    BY <1>1, <1>3 DEF Allows
  <1>6. Decided(b, k, now) \in Buckets
    BY <1>5 DEF Decided, Buckets
  <1> QED BY <1>1, <1>3, <1>4, <1>6 DEF Decided, Allows

-----------------------------------------------------------------------------
(* The invariant holds.                                                    *)

LEMMA EarnedStays ==
  ASSUME NEW g \in Gateways, NEW k \in Keys, Earned(g, k),
         UNCHANGED <<memory, clock, forward, served>>
  PROVE  Earned(g, k)'
  BY DEF Earned

LEMMA InitLimit == Init => LimitInv
  <1> SUFFICES ASSUME Init PROVE LimitInv
    OBVIOUS
  <1>1. Types /\ Named /\ TimesAreTaken /\ Untold /\ WatchesHold
    BY DEF Init, Types, Named, TimesAreTaken, Untold, WatchesHold, Entered
  <1>2. ClocksLag
    BY RateLimitAssumption DEF Init, ClocksLag
  <1>3. \A g \in Gateways, k \in Keys : Earned(g, k)
    BY DEF Init, Earned
  <1> QED BY <1>1, <1>2, <1>3 DEF LimitInv

LEMMA ReceiveStep ==
  ASSUME LimitInv, NEW r \in Requests, Receive(r)
  PROVE  LimitInv'
  <1> USE DEF LimitInv
  <1>1. Home(r) \in Gateways
    BY RateLimitAssumption DEF Types, Receive, Home
  <1>2. Types'
    BY <1>1 DEF Types, Receive, Goto
  <1>3. ClocksLag' /\ Named' /\ Untold'
    BY <1>1 DEF Types, ClocksLag, Named, Untold, Receive, Goto, Home, Entered
  <1>4. TimesAreTaken'
    <2>1. clock[Home(r)] <= MaxForward[Home(r)]
      BY <1>1, RateLimitAssumption DEF Types, ClocksLag
    <2>2. pc'[r] \in {"watch", "execute"} => at'[r] = clock[Home(r)]
      BY RateLimitAssumption DEF Receive, Goto, Types
    <2>3. \A q \in Requests \ {r} : pc'[q] = pc[q] /\ at'[q] = at[q]
      BY DEF Receive, Goto, Types
    <2> QED BY <2>1, <2>2, <2>3 DEF TimesAreTaken, Receive, Home
  <1>5. WatchesHold'
    BY DEF WatchesHold, Types, Receive, Goto, Key, Ended
  <1> QED BY <1>2, <1>3, <1>4, <1>5, EarnedStays DEF Receive

LEMMA WatchStep ==
  ASSUME LimitInv, NEW r \in Requests, Watch(r)
  PROVE  LimitInv'
  <1> USE DEF LimitInv
  <1>1. Types'
    BY KeyTypes DEF Types, Watch, limiterVars, Goto
  <1>2. ClocksLag' /\ Named' /\ TimesAreTaken' /\ Untold'
    BY DEF Types, ClocksLag, Named, TimesAreTaken, Untold, Watch, limiterVars, Goto, Home, Entered
  <1>3. WatchesHold'
    BY DEF WatchesHold, Types, Watch, limiterVars, Goto, Key
  <1> QED BY <1>1, <1>2, <1>3, EarnedStays DEF Watch, limiterVars

\* The transaction was void, or Redis could not be reached.
LEMMA AgainStep ==
  ASSUME LimitInv, NEW r \in Requests, pc[r] = "execute",
         Goto(r, "watch"), Drop(r), dirty' = [dirty EXCEPT ![r] = FALSE],
         UNCHANGED <<limiterVars, tenant, at>>
  PROVE  LimitInv'
  <1> USE DEF LimitInv
  <1>1. Types'
    BY DEF Types, limiterVars, Goto, Drop
  <1>2. ClocksLag' /\ Named' /\ TimesAreTaken' /\ Untold'
    BY DEF Types, ClocksLag, Named, TimesAreTaken, Untold, limiterVars, Goto, Home, Entered
  <1>3. WatchesHold'
    BY DEF WatchesHold, Types, limiterVars, Goto, Drop, Key
  <1> QED BY <1>1, <1>2, <1>3, EarnedStays DEF limiterVars

\* What r decides about the bucket in Redis is a decision about that bucket.
LEMMA WriteStep ==
  ASSUME LimitInv, NEW r \in Requests, pc[r] = "execute", ~dirty[r], WriteBucket(r)
  PROVE  /\ redis' = [redis EXCEPT ![Key(r)] = Decided(redis[Key(r)], Key(r), at[r])]
         /\ redis' \in [Keys -> Buckets \cup {None}]
         /\ dirty' \in [Requests -> BOOLEAN]
         /\ \A q \in Requests \ {r} : pc[q] = "execute" /\ ~dirty'[q] =>
              ~dirty[q] /\ Key(q) # Key(r)
  <1>1. seen[r] = redis[Key(r)]
    BY DEF LimitInv, WatchesHold
  <1>2. redis[Key(r)] \in Buckets \cup {None} /\ at[r] \in Nat
    BY KeyTypes DEF LimitInv, Types
  <1>3. Decided(redis[Key(r)], Key(r), at[r]) \in Buckets
    BY <1>2, KeyTypes, Decisions DEF LimitInv
  <1>4. dirty \in [Requests -> BOOLEAN] /\ redis \in [Keys -> Buckets \cup {None}]
    BY DEF LimitInv, Types
  <1> QED BY <1>1, <1>3, <1>4 DEF WriteBucket

\* A request that leaves "execute" with the bucket written.
LEMMA WrittenStep ==
  ASSUME LimitInv, NEW r \in Requests, pc[r] = "execute", ~dirty[r], WriteBucket(r),
         NEW label \in {"watch", "memory", "refused"}, Goto(r, label), Drop(r),
         label # "watch" => at' = [at EXCEPT ![r] = 0],
         label = "watch" => at' = at,
         label # "watch" => \E word \in {"granted", "refused"} : Told(r, word),
         label = "watch" => verdict' = verdict,
         UNCHANGED <<deployment, clock, memory, forward, served, tenant>>
  PROVE  LimitInv'
  <1> USE DEF LimitInv
  <1>1. Types'
    BY WriteStep DEF Types, Goto, Drop, Told, Ended
  <1>2. ClocksLag' /\ Named'
    BY DEF Types, ClocksLag, Named, Goto, Home, Entered
  <1>3. TimesAreTaken' /\ Untold'
    BY DEF Types, TimesAreTaken, Untold, Goto, Home, Told
  <1>4. WatchesHold'
    <2> SUFFICES ASSUME NEW q \in Requests, pc'[q] = "execute", ~dirty'[q]
                 PROVE  seen'[q] = redis'[Key(q)']
      BY DEF WatchesHold
    <2>1. q # r /\ pc[q] = "execute"
      BY DEF Goto, Types
    <2>2. ~dirty[q] /\ Key(q) # Key(r)
      BY <2>1, WriteStep
    <2>3. seen'[q] = seen[q] /\ Key(q)' = Key(q)
      BY <2>1 DEF Drop, Key, Types
    <2>4. redis'[Key(q)] = redis[Key(q)]
      BY <2>2, WriteStep, KeyTypes DEF Types
    <2> QED BY <2>1, <2>2, <2>3, <2>4 DEF WatchesHold
  <1> QED BY <1>1, <1>2, <1>3, <1>4, EarnedStays

LEMMA ExecuteStep ==
  ASSUME LimitInv, NEW r \in Requests, Execute(r) \/ LoseReply(r) \/ BreakOff(r)
  PROVE  LimitInv'
  <1>1. CASE pc[r] = "execute" /\ Goto(r, "watch") /\ Drop(r)
             /\ dirty' = [dirty EXCEPT ![r] = FALSE] /\ UNCHANGED <<limiterVars, tenant, at>>
    BY <1>1, AgainStep
  <1>2. CASE LoseReply(r)
    BY <1>2, WrittenStep DEF LoseReply
  <1>3. CASE /\ pc[r] = "execute" /\ redisUp /\ ~dirty[r]
             /\ WriteBucket(r)
             /\ IF Allows(seen[r], Key(r), at[r])
                THEN Goto(r, "memory") /\ Told(r, "granted")
                ELSE Goto(r, "refused") /\ Told(r, "refused")
             /\ at' = [at EXCEPT ![r] = 0] /\ Drop(r)
             /\ UNCHANGED <<deployment, clock, memory, redisUp, forward, served, tenant>>
    BY <1>3, WrittenStep
  <1> QED BY <1>1, <1>2, <1>3 DEF Execute, BreakOff

\* The tokens that a decision leaves, with the price of what it let pass, are
\* those there were and those the time since has refilled.
LEMMA DecisionEarns ==
  ASSUME LimitInv, NEW g \in Gateways, NEW k \in Keys, NEW n \in Nat,
         n = served[g][k] + IF Allows(memory[g][k], k, clock[g]) THEN 1 ELSE 0
  PROVE  Cost * n + Decided(memory[g][k], k, clock[g]).tokens
           <= Capacity[k[2]] + Rate[k[2]] * forward[g]
  <1> DEFINE b == memory[g][k]  now == clock[g]  level == Refilled(b, k, now)
             cap == Capacity[k[2]]  rate == Rate[k[2]]  s == served[g][k]
             paid == IF Allows(b, k, now) THEN Cost ELSE 0
  <1>1. /\ b \in Buckets \cup {None} /\ now \in Nat /\ forward[g] \in Nat
        /\ s \in Nat /\ cap \in Nat /\ rate \in Nat /\ Cost \in Nat
    BY LanesOfKeys, RateLimitAssumption DEF LimitInv, Types
  <1>2. level \in Nat /\ level <= cap /\ Decided(b, k, now).tokens = level - paid
    BY <1>1, Decisions
  <1>3. Cost * n = Cost * s + paid
    <2>1. CASE Allows(b, k, now)
      <3>1. Cost * (s + 1) = Cost * s + Cost * 1
        BY <1>1, Distribute
      <3> QED BY <1>1, <2>1, <3>1
    <2>2. CASE ~Allows(b, k, now)
      BY <1>1, <2>2
    <2> QED BY <2>1, <2>2
  <1>4. Cost * s \in Nat /\ rate * forward[g] \in Nat
    BY <1>1, Products
  <1>5. Cost * s + level <= cap + rate * forward[g]
    <2>1. CASE b = None
      <3>1. s = 0
        BY <2>1 DEF LimitInv, Earned
      <3>2. Cost * s = 0
        BY <1>1, <3>1
      <3> DEFINE spent == Cost * s  time == rate * forward[g]
      <3>3. spent = 0 /\ time \in Nat
        BY <1>4, <3>2
      <3> HIDE DEF level, cap, spent, time
      <3>4. spent + level <= cap + time
        BY <1>1, <1>2, <3>3
      <3> QED BY <3>4 DEF spent, time
    <2>2. CASE b # None
      <3> DEFINE back == rate * Larger(0, now - b.updated_at)
      <3>1. b.updated_at \in Nat /\ b.tokens \in Nat
        BY <1>1, <2>2 DEF Buckets
      <3>2. Larger(0, now - b.updated_at) \in Nat
        BY <1>1, <3>1 DEF Larger
      <3>3. back \in Nat
        BY <1>1, <3>2, Products
      <3>4. level <= b.tokens + back
        BY <1>1, <2>2, Decisions
      <3>5. Cost * s + b.tokens + back <= cap + rate * forward[g]
        BY <2>2 DEF LimitInv, Earned
      <3> DEFINE spent == Cost * s  time == rate * forward[g]  tokens == b.tokens
      <3>6. spent \in Nat /\ time \in Nat /\ tokens \in Nat
        BY <1>4, <3>1
      <3>7. spent + tokens + back <= cap + time
        BY <3>5
      <3>8. level <= tokens + back
        BY <3>4
      <3> HIDE DEF back, level, cap, spent, time, tokens
      <3>9. spent + level <= cap + time
        BY <1>1, <1>2, <3>3, <3>6, <3>7, <3>8
      <3> QED BY <3>9 DEF spent, time
    <2> QED BY <2>1, <2>2
  <1>6. paid \in Nat
    BY <1>1
  <1> HIDE DEF paid, level, b, s, cap, rate
  <1>7. Cost * s + paid + (level - paid) <= cap + rate * forward[g]
    BY <1>1, <1>2, <1>4, <1>5, <1>6
  <1> QED BY <1>2, <1>3, <1>7 DEF paid, level, b, s, cap, rate

LEMMA MemoryStep ==
  ASSUME LimitInv, NEW r \in Requests, MemoryAllow(r)
  PROVE  LimitInv'
  <1> DEFINE g == Home(r)  k == Key(r)  b == memory[g][k]
             bucket == Decided(b, k, clock[g])
             n == IF Allows(b, k, clock[g]) THEN served[g][k] + 1 ELSE served[g][k]
  <1>1. g \in Gateways /\ k \in Keys
    BY KeyTypes DEF LimitInv, Named, MemoryAllow, Entered
  <1>2. b \in Buckets \cup {None} /\ clock[g] \in Nat /\ served[g][k] \in Nat
    BY <1>1 DEF LimitInv, Types
  <1>3. bucket \in Buckets /\ bucket # None /\ bucket.updated_at = clock[g]
    BY <1>1, <1>2, Decisions
  <1>4. n \in Nat
    BY <1>2
  <1>5. /\ memory' = [memory EXCEPT ![g][k] = bucket]
        /\ served' = [served EXCEPT ![g][k] = n]
    BY DEF MemoryAllow
  <1>6. \E label \in {"auth", "refused"} : Goto(r, label)
    BY DEF MemoryAllow
  <1>7. UNCHANGED <<deployment, clock, redis, redisUp, forward, verdict, tenant, at, seen, dirty>>
    BY DEF MemoryAllow
  <1>8. pc[r] = "memory"
    BY DEF MemoryAllow
  <1>9. Types'
    BY <1>1, <1>3, <1>4, <1>5, <1>6, <1>7 DEF LimitInv, Types, Goto, Ended
  <1>10. ClocksLag' /\ Named' /\ TimesAreTaken' /\ Untold' /\ WatchesHold'
    BY <1>6, <1>7, <1>8
    DEF LimitInv, Types, ClocksLag, Named, TimesAreTaken, Untold, WatchesHold, Goto, Home, Entered, Key
  <1>11. ASSUME NEW h \in Gateways, NEW j \in Keys PROVE Earned(h, j)'
    <2>1. CASE h = g /\ j = k
      <3>1. memory'[g][k] = bucket /\ served'[g][k] = n
        BY <1>1, <1>5 DEF LimitInv, Types
      <3>2. Cost * n + bucket.tokens <= Capacity[k[2]] + Rate[k[2]] * forward[g]
        BY <1>1, <1>2, <1>4, DecisionEarns
      <3>3. Larger(0, clock[g] - bucket.updated_at) = 0
        BY <1>2, <1>3 DEF Larger
      <3>4. Rate[k[2]] * 0 = 0 /\ Cost * n \in Nat /\ bucket.tokens \in Nat
        BY <1>1, <1>3, <1>4, LanesOfKeys, RateLimitAssumption, Products DEF Buckets
      <3> HIDE DEF bucket, n, g, k
      <3>5. Cost * n + bucket.tokens + Rate[k[2]] * Larger(0, clock[g] - bucket.updated_at)
              = Cost * n + bucket.tokens
        BY <3>3, <3>4
      <3> QED BY <1>3, <1>7, <2>1, <3>1, <3>2, <3>5 DEF Earned
    <2>2. CASE ~(h = g /\ j = k)
      <3>1. memory'[h][j] = memory[h][j] /\ served'[h][j] = served[h][j]
        BY <1>1, <1>5, <2>2 DEF LimitInv, Types
      <3>2. Earned(h, j)
        BY DEF LimitInv
      <3> QED BY <1>7, <3>1, <3>2 DEF Earned
    <2> QED BY <2>1, <2>2
  <1> QED BY <1>9, <1>10, <1>11 DEF LimitInv

LEMMA AuthenticateStep ==
  ASSUME LimitInv, NEW r \in Requests, Authenticate(r)
  PROVE  LimitInv'
  <1> USE DEF LimitInv
  <1>1. Types'
    BY DEF Types, Authenticate, limiterVars, Goto, Ended
  <1>2. Calls[r].tenant \in Tenants
    BY DEF Tenants
  <1>3. ClocksLag' /\ Named' /\ TimesAreTaken' /\ Untold'
    BY <1>2
    DEF Types, ClocksLag, Named, TimesAreTaken, Untold, Authenticate, limiterVars, Goto, Home, Entered
  <1>4. WatchesHold'
    BY DEF WatchesHold, Types, Authenticate, limiterVars, Goto, Key
  <1> QED BY <1>1, <1>3, <1>4, EarnedStays DEF Authenticate, limiterVars

-----------------------------------------------------------------------------
(* Clocks, Redis and processes.                                            *)

\* Nothing about requests and Redis changes.
LEMMA RequestsStay ==
  ASSUME LimitInv, UNCHANGED <<deployment, redis, verdict, requestVars>>,
         clock' \in [Gateways -> Nat], forward' \in [Gateways -> Nat],
         UNCHANGED <<memory, served>>, ClocksLag'
  PROVE  Types' /\ Named' /\ TimesAreTaken' /\ Untold' /\ WatchesHold'
  BY DEF LimitInv, Types, Named, TimesAreTaken, Untold, WatchesHold, requestVars, Home, Entered, Key

\* Time that passes is earned, ...
LEMMA TickStep ==
  ASSUME LimitInv, NEW g \in Gateways, Tick(g)
  PROVE  LimitInv'
  <1>1. clock \in [Gateways -> Nat] /\ forward \in [Gateways -> Nat]
    BY DEF LimitInv, Types
  <1>2. clock' \in [Gateways -> Nat] /\ forward' \in [Gateways -> Nat]
    BY <1>1 DEF Tick
  <1>3. ClocksLag'
    BY <1>1, RateLimitAssumption DEF LimitInv, ClocksLag, Tick
  <1>4. Types' /\ Named' /\ TimesAreTaken' /\ Untold' /\ WatchesHold'
    BY <1>2, <1>3, RequestsStay DEF Tick
  <1>5. ASSUME NEW h \in Gateways, NEW k \in Keys PROVE Earned(h, k)'
    <2> DEFINE b == memory[h][k]  rate == Rate[k[2]]
               before == Larger(0, clock[h] - b.updated_at)
               after == Larger(0, clock'[h] - b.updated_at)
    <2>1. Earned(h, k) /\ memory' = memory /\ served' = served
      BY DEF LimitInv, Tick
    <2>2. CASE b = None
      BY <2>1, <2>2 DEF Earned
    <2>3. CASE b # None /\ h # g
      <3>1. clock'[h] = clock[h] /\ forward'[h] = forward[h]
        BY <1>1, <2>3 DEF Tick
      <3> QED BY <2>1, <3>1 DEF Earned
    <2>4. CASE b # None /\ h = g
      <3>1. b.updated_at \in Nat /\ b.tokens \in Nat
        BY <2>4 DEF LimitInv, Types, Buckets
      <3>2. clock'[h] = clock[h] + 1 /\ forward'[h] = forward[h] + 1
        BY <1>1, <2>4 DEF Tick
      <3>3. /\ before \in Nat /\ after \in Nat
            /\ after = before \/ after = before + 1
        BY <1>1, <3>1, <3>2 DEF Larger
      <3>4. rate \in Nat /\ Capacity[k[2]] \in Nat /\ Cost \in Nat /\ served[h][k] \in Nat
        BY LanesOfKeys, RateLimitAssumption DEF LimitInv, Types
      <3> DEFINE spent == Cost * served[h][k]  cap == Capacity[k[2]]  tokens == b.tokens
                 earlier == rate * before  later == rate * after
                 time == rate * forward[h]  longer == rate * forward'[h]
      <3>5. rate * (before + 1) = rate * before + rate * 1
        BY <3>3, <3>4, Distribute
      <3>6. earlier \in Nat /\ later \in Nat /\ (later = earlier \/ later = earlier + rate)
        BY <3>3, <3>4, <3>5, Products
      <3>7. rate * (forward[h] + 1) = rate * forward[h] + rate * 1
        BY <1>1, <3>4, Distribute
      <3>8. time \in Nat /\ longer = time + rate
        BY <1>1, <3>2, <3>4, <3>7, Products
      <3>9. spent \in Nat
        BY <3>4, Products
      <3>10. spent + tokens + earlier <= cap + time
        BY <2>1, <2>4 DEF Earned
      <3>11. cap \in Nat /\ tokens \in Nat
        BY <3>1, <3>4
      <3>12. spent + tokens + later <= cap + longer
        <4> HIDE DEF spent, tokens, earlier, later, cap, time, longer, rate
        <4> QED BY <3>4, <3>6, <3>8, <3>9, <3>10, <3>11 DEF rate
      <3> QED BY <2>1, <2>4, <3>12 DEF Earned
    <2> QED BY <2>2, <2>3, <2>4
  <1> QED BY <1>3, <1>4, <1>5 DEF LimitInv

\* ... and a clock that is set back takes back only what was to be refilled.
LEMMA SetBackStep ==
  ASSUME LimitInv, NEW g \in Gateways, SetBack(g)
  PROVE  LimitInv'
  <1>1. clock \in [Gateways -> Nat] /\ forward \in [Gateways -> Nat]
    BY DEF LimitInv, Types
  <1>2. clock' \in [Gateways -> Nat] /\ forward' = forward
    BY <1>1 DEF SetBack
  <1>3. ClocksLag'
    BY <1>1, RateLimitAssumption DEF LimitInv, ClocksLag, SetBack
  <1>4. Types' /\ Named' /\ TimesAreTaken' /\ Untold' /\ WatchesHold'
    BY <1>1, <1>2, <1>3, RequestsStay DEF SetBack
  <1>5. ASSUME NEW h \in Gateways, NEW k \in Keys PROVE Earned(h, k)'
    <2> DEFINE b == memory[h][k]  rate == Rate[k[2]]
               before == Larger(0, clock[h] - b.updated_at)
               after == Larger(0, clock'[h] - b.updated_at)
    <2>1. Earned(h, k) /\ memory' = memory /\ served' = served
      BY DEF LimitInv, SetBack
    <2>2. CASE b = None
      BY <2>1, <2>2 DEF Earned
    <2>3. CASE b # None
      <3>1. b.updated_at \in Nat /\ b.tokens \in Nat
        BY <2>3 DEF LimitInv, Types, Buckets
      <3>2. clock'[h] = clock[h] \/ clock'[h] = clock[h] - 1
        BY <1>1 DEF SetBack
      <3>3. /\ before \in Nat /\ after \in Nat
            /\ after = before \/ before = after + 1
        BY <1>1, <1>2, <3>1, <3>2 DEF Larger
      <3>4. /\ rate \in Nat /\ Capacity[k[2]] \in Nat /\ Cost \in Nat
            /\ served[h][k] \in Nat /\ forward[h] \in Nat
        BY LanesOfKeys, RateLimitAssumption DEF LimitInv, Types
      <3> DEFINE spent == Cost * served[h][k]  cap == Capacity[k[2]]  tokens == b.tokens
                 earlier == rate * before  later == rate * after  time == rate * forward[h]
      <3>5. rate * (after + 1) = rate * after + rate * 1
        BY <3>3, <3>4, Distribute
      <3>6. earlier \in Nat /\ later \in Nat /\ (later = earlier \/ earlier = later + rate)
        BY <3>3, <3>4, <3>5, Products
      <3>7. time \in Nat /\ spent \in Nat /\ cap \in Nat /\ tokens \in Nat
        BY <3>1, <3>4, Products
      <3>8. spent + tokens + earlier <= cap + time
        BY <2>1, <2>3 DEF Earned
      <3>9. spent + tokens + later <= cap + time
        <4> HIDE DEF spent, tokens, earlier, later, cap, time, rate
        <4> QED BY <3>4, <3>6, <3>7, <3>8 DEF rate
      <3> QED BY <1>2, <2>1, <2>3, <3>9 DEF Earned
    <2> QED BY <2>2, <2>3
  <1> QED BY <1>3, <1>4, <1>5 DEF LimitInv

LEMMA ExpireStep ==
  ASSUME LimitInv, NEW k \in Keys, Expire(k)
  PROVE  LimitInv'
  <1> USE DEF LimitInv
  <1>1. Types'
    BY DEF Types, Expire
  <1>2. ClocksLag' /\ Named' /\ TimesAreTaken' /\ Untold'
    BY DEF ClocksLag, Named, TimesAreTaken, Untold, Expire, Home, Entered
  <1>3. WatchesHold'
    BY KeyTypes DEF Types, WatchesHold, Expire, Key
  <1> QED BY <1>1, <1>2, <1>3, EarnedStays DEF Expire

LEMMA RestartStep ==
  ASSUME LimitInv, NEW g \in Gateways, Restart(g)
  PROVE  LimitInv'
  <1>1. Types'
    BY DEF LimitInv, Types, Restart, Ended
  <1>2. ClocksLag' /\ Named' /\ TimesAreTaken' /\ Untold' /\ WatchesHold'
    BY DEF LimitInv, Types, ClocksLag, Named, TimesAreTaken, Untold, WatchesHold, Restart,
           Home, Entered, Key
  <1>3. ASSUME NEW h \in Gateways, NEW k \in Keys PROVE Earned(h, k)'
    <2>1. CASE h = g
      BY <2>1 DEF LimitInv, Types, Restart, Earned
    <2>2. CASE h # g
      BY <2>2 DEF LimitInv, Types, Restart, Earned
    <2> QED BY <2>1, <2>2
  <1> QED BY <1>1, <1>2, <1>3 DEF LimitInv

LEMMA NextLimit == LimitInv /\ [Next]_vars => LimitInv'
  <1> SUFFICES ASSUME LimitInv, [Next]_vars PROVE LimitInv'
    OBVIOUS
  <1>1. CASE UNCHANGED vars \/ Reach
    <2>1. UNCHANGED <<deployment, clock, memory, redis, forward, served, verdict, requestVars>>
      BY <1>1 DEF vars, limiterVars, Reach
    <2>2. Types' /\ ClocksLag' /\ Named' /\ TimesAreTaken' /\ Untold' /\ WatchesHold'
      BY <2>1 DEF LimitInv, Types, ClocksLag, Named, TimesAreTaken, Untold, WatchesHold,
                  requestVars, Home, Entered, Key
    <2> QED BY <2>1, <2>2, EarnedStays DEF LimitInv
  <1>2. CASE \E r \in Requests : Receive(r) \/ Step(r) \/ LoseReply(r)
    BY <1>2, ReceiveStep, WatchStep, ExecuteStep, MemoryStep, AuthenticateStep DEF Step
  <1>3. CASE \E g \in Gateways : Tick(g) \/ SetBack(g) \/ Restart(g)
    BY <1>3, TickStep, SetBackStep, RestartStep
  <1>4. CASE \E k \in Keys : Expire(k)
    BY <1>4, ExpireStep
  <1> QED BY <1>1, <1>2, <1>3, <1>4 DEF Next

\* The potential of rate_limit.py's buckets, among the rest of LimitInv, never
\* falls short, and a watched bucket that is clean is the one in Redis.
THEOREM LimitInductive == Spec => []LimitInv
  BY InitLimit, NextLimit, PTL DEF Spec

(***************************************************************************)
(* The limiter in memory: for any prices, capacities and rates, and        *)
(* however often the clock is set back, what a gateway lets pass is paid   *)
(* for by the capacity and the time its clock moved forward.               *)
(***************************************************************************)
THEOREM MemoryIsEarned == Spec => []GrantsAreEarned
  <1>1. LimitInv => GrantsAreEarned
    <2> SUFFICES ASSUME LimitInv, NEW g \in Gateways, NEW k \in Keys, memory[g][k] # None
                 PROVE  Cost * served[g][k] + memory[g][k].tokens
                          <= Capacity[k[2]] + Rate[k[2]] * forward[g]
      BY DEF GrantsAreEarned
    <2> DEFINE spent == Cost * served[g][k]  tokens == memory[g][k].tokens
               cap == Capacity[k[2]]  time == Rate[k[2]] * forward[g]
               back == Rate[k[2]] * Larger(0, clock[g] - memory[g][k].updated_at)
    <2>1. /\ memory[g][k].updated_at \in Nat /\ tokens \in Nat /\ clock[g] \in Nat
          /\ served[g][k] \in Nat /\ forward[g] \in Nat /\ Cost \in Nat
      BY RateLimitAssumption DEF LimitInv, Types, Buckets
    <2>2. Larger(0, clock[g] - memory[g][k].updated_at) \in Nat
      BY <2>1 DEF Larger
    <2>3. spent \in Nat /\ time \in Nat /\ back \in Nat /\ cap \in Nat
      BY <2>1, <2>2, LanesOfKeys, Products
    <2>4. spent + tokens + back <= cap + time
      BY DEF LimitInv, Earned
    <2>5. spent + tokens <= cap + time
      <3> HIDE DEF spent, tokens, cap, time, back
      <3> QED BY <2>1, <2>3, <2>4
    <2> QED BY <2>5
  <1> QED BY <1>1, LimitInductive, PTL

-----------------------------------------------------------------------------
(* The limiter over Redis implements TokenBucket.                          *)

LEMMA LevelIs ==
  ASSUME NEW k \in Keys, NEW t
  PROVE  Bucket!Level(k, t) = Refilled(redis[k], k, t)
  BY DEF Bucket!Level, Bucket!Smaller, Bucket!Larger, Refilled, Smaller, Larger

\* Writing the bucket is a decision at `now`, whether the reply arrives or not.
LEMMA WriteDecides ==
  ASSUME LimitInv, NEW r \in Requests, pc[r] = "execute", ~dirty[r], WriteBucket(r),
         \/ UNCHANGED verdict
         \/ Told(r, IF Allows(seen[r], Key(r), at[r]) THEN "granted" ELSE "refused")
  PROVE  Bucket!Next
  <1> DEFINE k == Key(r)  t == at[r]  level == Refilled(redis[k], k, t)
  <1>1. k \in Keys /\ seen[r] = redis[k]
    BY KeyTypes DEF LimitInv, WatchesHold
  <1>2. t \in UNION {0..MaxForward[g] : g \in Gateways}
    <2>1. Home(r) \in Gateways /\ t \in Nat /\ t <= MaxForward[Home(r)]
      BY DEF LimitInv, Named, Entered, TimesAreTaken, Types
    <2>2. t \in 0..MaxForward[Home(r)]
      BY <2>1, RateLimitAssumption
    <2> QED BY <2>1, <2>2
  <1>3. level \in Nat /\ Cost \in Nat /\ (Allows(redis[k], k, t) <=> level >= Cost)
    BY <1>1, Decisions, RateLimitAssumption DEF LimitInv, Types
  <1>4. Bucket!Level(k, t) = level
    BY <1>1, LevelIs
  <1>5. redis' = [redis EXCEPT ![k] = Decided(redis[k], k, t)]
    BY WriteStep
  <1>6. Bucket!Tell(IF Allows(redis[k], k, t) THEN "granted" ELSE "refused")
    BY <1>1 DEF LimitInv, Untold, Told, Bucket!Tell
  <1>7. CASE Allows(redis[k], k, t)
    <2>1. Decided(redis[k], k, t) = [tokens |-> level - Cost, updated_at |-> t]
      BY <1>7 DEF Decided
    <2>2. Bucket!Leave(k, level - Cost, t)
      BY <1>5, <2>1 DEF Bucket!Leave
    <2>3. Bucket!Tell("granted")
      BY <1>6, <1>7
    <2>4. Bucket!Grant(k, t)
      <3> HIDE DEF level, k, t
      <3> QED BY <1>3, <1>4, <1>7, <2>2, <2>3 DEF Bucket!Grant
    <2> QED BY <1>1, <1>2, <2>4 DEF Bucket!Next
  <1>8. CASE ~Allows(redis[k], k, t)
    <2>1. Decided(redis[k], k, t) = [tokens |-> level, updated_at |-> t]
      BY <1>3, <1>8 DEF Decided
    <2>2. Bucket!Leave(k, level, t)
      BY <1>5, <2>1 DEF Bucket!Leave
    <2>3. Bucket!Tell("refused")
      BY <1>6, <1>8
    <2>4. Bucket!Refuse(k, t)
      <3> HIDE DEF level, k, t
      <3> QED BY <1>3, <1>4, <1>8, <2>2, <2>3 DEF Bucket!Refuse
    <2> QED BY <1>1, <1>2, <2>4 DEF Bucket!Next
  <1> QED BY <1>7, <1>8

LEMMA StepDecides ==
  ASSUME LimitInv, [Next]_vars
  PROVE  [Bucket!Next]_<<redis, verdict>>
  <1>1. CASE UNCHANGED <<redis, verdict>>
    BY <1>1
  <1>2. ASSUME NEW r \in Requests, LoseReply(r) PROVE Bucket!Next
    <2>1. verdict' = verdict
      BY <1>2 DEF LoseReply
    <2> QED BY <1>2, <2>1, WriteDecides DEF LoseReply
  <1>3. ASSUME NEW r \in Requests, Execute(r) PROVE Bucket!Next \/ UNCHANGED <<redis, verdict>>
    <2>1. CASE UNCHANGED <<limiterVars, tenant, at>>
      BY <2>1 DEF limiterVars
    <2>2. CASE /\ pc[r] = "execute" /\ ~dirty[r] /\ WriteBucket(r)
               /\ Told(r, IF Allows(seen[r], Key(r), at[r]) THEN "granted" ELSE "refused")
      BY <2>2, WriteDecides
    <2> QED BY <1>3, <2>1, <2>2 DEF Execute
  <1>4. ASSUME NEW k \in Keys, Expire(k) PROVE Bucket!Next
    BY <1>4 DEF Expire, Bucket!Next, Bucket!Forget
  <1>5. ASSUME NEW r \in Requests, Receive(r) PROVE Bucket!Next
    BY <1>5 DEF Receive, Bucket!Next, Bucket!Ask
  <1>6. CASE \E r \in Requests : Watch(r) \/ BreakOff(r) \/ MemoryAllow(r)
                                  \/ Authenticate(r)
    BY <1>6 DEF Watch, BreakOff, MemoryAllow, Authenticate, limiterVars
  <1>7. CASE Reach \/ \E g \in Gateways : Tick(g) \/ SetBack(g) \/ Restart(g)
    BY <1>7 DEF Reach, Tick, SetBack, Restart
  <1>8. CASE UNCHANGED vars
    BY <1>8 DEF vars, limiterVars
  <1> QED BY <1>1, <1>2, <1>3, <1>4, <1>5, <1>6, <1>7, <1>8 DEF Next, Step

(***************************************************************************)
(* The limiter over Redis: reading the bucket under WATCH and writing it   *)
(* with MULTI and EXEC is one decision of a token bucket, for any number   *)
(* of gateways, requests and clocks.                                       *)
(***************************************************************************)
THEOREM RedisIsABucket == Spec => ImplementsBucket
  <1>1. Init => Bucket!Init
    BY DEF Init, Bucket!Init
  <1> QED BY <1>1, StepDecides, LimitInductive, PTL DEF Spec, ImplementsBucket, Bucket!Spec
=============================================================================
