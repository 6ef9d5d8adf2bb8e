--------------------------- MODULE SigningProofs ----------------------------
(***************************************************************************)
(* Verification in Signing, for any gateways, environments, keys and       *)
(* requests: the ledger is enough to verify what KMS has signed, and key   *)
(* sets verify what they have the key of.                                  *)
(***************************************************************************)
EXTENDS Signing, TLAPS

-----------------------------------------------------------------------------
(* The inductive invariant.                                                *)

Waiting == {"ledger", "kms", "put", "upsert"}

Shapes ==
  /\ env \in [Gateways -> Envs]
  /\ manifests = [m \in Manifests |-> manifests[m]]
  /\ cache = [g \in Gateways |-> [k \in CacheKeys |-> cache[g][k]]]
  /\ ledger = [k \in CacheKeys |-> ledger[k]]
  /\ pc \in [Requests -> {"idle", "done"} \cup Waiting]
  /\ asked \in [Requests -> Manifests \cup {None}]
  /\ verdict = [r \in Requests |-> verdict[r]]
  /\ covered \in [Requests -> BOOLEAN]

SignedWithKeys ==
  \A m \in Manifests : manifests[m] # None =>
    manifests[m].key # None /\ manifests[m].kid \in Kids

\* Caches and the ledger hold what KMS gave out for the key_ref.
KeysAreTrue ==
  /\ \A k \in CacheKeys : ledger[k] # None => ledger[k].key = KmsKey(k[2])
  /\ \A g \in Gateways, k \in CacheKeys :
       cache[g][k] # None => cache[g][k].key = KmsKey(k[2])

AskedIsSigned ==
  \A r \in Requests :
    /\ pc[r] # "idle" => asked[r] \in Manifests /\ Asked(r) # None
    /\ pc[r] \in Waiting => Asked(r).key_ref \in KmsRefs

\* The ledger covered a request only if it has the key that signed, and no
\* longer once the request went on to KMS.
CoverIsTrue ==
  \A r \in Requests : pc[r] # "idle" /\ covered[r] =>
    /\ pc[r] \in {"ledger", "done"}
    /\ Asked(r).key = KmsKey(Asked(r).key_ref)
    /\ pc[r] = "done" /\ env[Home[r]].provider = "aws_kms" => verdict[r] = TRUE

SignInv == Shapes /\ SignedWithKeys /\ KeysAreTrue /\ AskedIsSigned /\ CoverIsTrue

-----------------------------------------------------------------------------

LEMMA CacheKeyTypes ==
  ASSUME SignedWithKeys, NEW m \in Manifests, manifests[m] # None,
         manifests[m].key_ref \in KmsRefs
  PROVE  /\ CacheKey(manifests[m]) \in CacheKeys
         /\ CacheKey(manifests[m])[2] = manifests[m].key_ref
  BY DEF SignedWithKeys, CacheKey, CacheKeys

LEMMA InitSigning == Init => SignInv
  <1> SUFFICES ASSUME Init PROVE SignInv
    OBVIOUS
  <1>1. env \in [Gateways -> Envs]
    BY SigningAssumption DEF Init
  <1>2. Shapes
    BY <1>1 DEF Init, Shapes
  <1>3. SignedWithKeys /\ KeysAreTrue
    BY DEF Init, SignedWithKeys, KeysAreTrue
  <1>4. AskedIsSigned /\ CoverIsTrue
    BY DEF Init, AskedIsSigned, CoverIsTrue, Waiting
  <1> QED BY <1>2, <1>3, <1>4 DEF SignInv

LEMMA SignStep ==
  ASSUME SignInv, NEW g \in Gateways, NEW m \in Manifests, Sign(g, m)
  PROVE  SignInv'
  <1> USE DEF SignInv
  <1>1. env[g] \in Envs /\ env[g].provider \in {"", "dev_ed25519", "aws_kms"}
    BY SigningAssumption DEF Shapes
  <1>2. Signature(g).kid \in Kids
    BY <1>1 DEF Signature, Envelope, Kids
  <1>3. Signature(g).key # None /\ manifests' = [manifests EXCEPT ![m] = Signature(g)]
    BY DEF Sign
  <1>4. /\ manifests[m] = None
        /\ UNCHANGED <<ledger, enabled, env, starts, cache, pc, asked, waited, verdict, covered>>
    BY DEF Sign, gatewayVars, requestVars
  <1>5. manifests'[m] = Signature(g) /\ \A n \in Manifests \ {m} : manifests'[n] = manifests[n]
    BY <1>3 DEF Shapes
  <1>6. Shapes'
    BY <1>3, <1>4 DEF Shapes
  <1>7. SignedWithKeys' /\ KeysAreTrue'
    BY <1>2, <1>3, <1>4, <1>5 DEF SignedWithKeys, KeysAreTrue
  <1>8. \A r \in Requests : pc[r] # "idle" => asked[r] \in Manifests /\ Asked(r)' = Asked(r)
    BY <1>4, <1>5 DEF AskedIsSigned, Asked
  <1>9. AskedIsSigned'
    BY <1>4, <1>8 DEF AskedIsSigned, Waiting
  <1>10. CoverIsTrue'
    BY <1>4, <1>8 DEF CoverIsTrue
  <1> QED BY <1>6, <1>7, <1>9, <1>10

LEMMA BeginStep ==
  ASSUME SignInv, NEW r \in Requests, NEW m \in Manifests, Begin(r, m)
  PROVE  SignInv'
  <1> DEFINE g == Home[r]  e == env[g]  sig == manifests[m]  k == CacheKey(sig)
             entry == cache[g][k]
  <1> USE DEF SignInv
  <1>1. g \in Gateways /\ e \in Envs /\ sig # None
    BY SigningAssumption DEF Shapes, Begin
  <1>2. /\ asked' = [asked EXCEPT ![r] = m]
        /\ covered' = [covered EXCEPT ![r] = Covers(sig)]
        /\ Covers(sig) \in BOOLEAN
        /\ UNCHANGED <<manifests, ledger, enabled, env, starts>>
    BY DEF Begin, serviceVars, Covers
  <1>3. cache' = cache
    BY DEF Begin, Hit
  <1>4. Covers(sig) => sig.key_ref \in KmsRefs /\ sig.key = KmsKey(sig.key_ref)
    <2> SUFFICES ASSUME Covers(sig)
                 PROVE  sig.key_ref \in KmsRefs /\ sig.key = KmsKey(sig.key_ref)
      OBVIOUS
    <2>1. sig.key_ref \in KmsRefs
      BY DEF Covers
    <2>2. k \in CacheKeys /\ k[2] = sig.key_ref
      BY <1>1, <2>1, CacheKeyTypes
    <2>3. ledger[k] # None /\ ledger[k].key = sig.key
      BY DEF Covers
    <2> QED BY <2>1, <2>2, <2>3 DEF KeysAreTrue
  <1>5. \/ \E ok \in BOOLEAN : /\ Answer(r, ok)
                               /\ e.provider = "aws_kms" /\ sig.key_ref \in KmsRefs =>
                                    entry # None /\ (ok <=> entry.key = sig.key)
        \/ /\ sig.key_ref \in KmsRefs /\ pc' = [pc EXCEPT ![r] = "ledger"]
           /\ verdict' = [verdict EXCEPT ![r] = None]
    <2>1. None \notin KmsRefs
      BY SigningAssumption
    <2>2. VerifiesWithSet(e, sig) \in BOOLEAN
      BY DEF VerifiesWithSet
    <2> QED BY <2>1, <2>2 DEF Begin, Fresh
  <1>6. /\ pc' = [pc EXCEPT ![r] = pc'[r]] /\ pc'[r] \in {"done", "ledger"}
        /\ verdict' = [verdict EXCEPT ![r] = verdict'[r]]
        /\ pc'[r] = "ledger" => sig.key_ref \in KmsRefs
    BY <1>5 DEF Answer, Shapes
  <1>7. Shapes'
    BY <1>2, <1>3, <1>6 DEF Shapes, Waiting
  <1>8. SignedWithKeys' /\ KeysAreTrue'
    BY <1>2, <1>3 DEF SignedWithKeys, KeysAreTrue
  <1>9. /\ asked'[r] = m /\ covered'[r] = Covers(sig) /\ Asked(r)' = sig
        /\ \A q \in Requests \ {r} :
             /\ pc'[q] = pc[q] /\ asked'[q] = asked[q] /\ covered'[q] = covered[q]
             /\ verdict'[q] = verdict[q] /\ Asked(q)' = Asked(q)
    BY <1>2, <1>6 DEF Shapes, Asked
  <1>10. AskedIsSigned'
    BY <1>1, <1>6, <1>9 DEF AskedIsSigned, Waiting
  <1>11. pc'[r] = "done" /\ Covers(sig) /\ e.provider = "aws_kms" => verdict'[r] = TRUE
    <2> SUFFICES ASSUME pc'[r] = "done", Covers(sig), e.provider = "aws_kms"
                 PROVE  verdict'[r] = TRUE
      OBVIOUS
    <2>1. PICK ok \in BOOLEAN : Answer(r, ok) /\ entry # None /\ (ok <=> entry.key = sig.key)
      BY <1>4, <1>5 DEF Shapes
    <2>2. k \in CacheKeys /\ k[2] = sig.key_ref
      BY <1>1, <1>4, CacheKeyTypes
    <2>3. entry.key = KmsKey(sig.key_ref)
      BY <1>1, <2>1, <2>2 DEF KeysAreTrue
    <2>4. ok = TRUE
      BY <1>4, <2>1, <2>3
    <2> QED BY <2>1, <2>4 DEF Answer, Shapes
  <1>12. CoverIsTrue'
    <2>1. ASSUME NEW q \in Requests, q # r, pc'[q] # "idle", covered'[q]
          PROVE  /\ pc'[q] \in {"ledger", "done"} /\ Asked(q)'.key = KmsKey(Asked(q)'.key_ref)
                 /\ pc'[q] = "done" /\ env'[Home[q]].provider = "aws_kms" => verdict'[q] = TRUE
      BY <1>2, <1>9, <2>1 DEF CoverIsTrue
    <2>2. ASSUME covered'[r]
          PROVE  /\ pc'[r] \in {"ledger", "done"} /\ Asked(r)'.key = KmsKey(Asked(r)'.key_ref)
                 /\ pc'[r] = "done" /\ env'[Home[r]].provider = "aws_kms" => verdict'[r] = TRUE
      BY <1>2, <1>4, <1>6, <1>9, <1>11, <2>2
    <2> QED BY <2>1, <2>2 DEF CoverIsTrue
  <1> QED BY <1>7, <1>8, <1>10, <1>12

\* Updating one entry of one gateway's cache.
LEMMA CacheUpdate ==
  ASSUME Shapes, NEW g \in Gateways, NEW k \in CacheKeys, NEW v,
         cache' = [cache EXCEPT ![g][k] = v]
  PROVE  /\ cache' = [h \in Gateways |-> [j \in CacheKeys |-> cache'[h][j]]]
         /\ cache'[g][k] = v
         /\ \A h \in Gateways, j \in CacheKeys : ~(h = g /\ j = k) => cache'[h][j] = cache[h][j]
  <1>1. cache = [h \in Gateways |-> [j \in CacheKeys |-> cache[h][j]]]
    BY DEF Shapes
  <1>2. \A h \in Gateways : cache[h] = [j \in CacheKeys |-> cache[h][j]]
    BY <1>1
  <1>3. cache' = [h \in Gateways |-> IF h = g THEN [cache[g] EXCEPT ![k] = v] ELSE cache[h]]
    BY <1>1
  <1>4. [cache[g] EXCEPT ![k] = v] = [j \in CacheKeys |-> IF j = k THEN v ELSE cache[g][j]]
    BY <1>2
  <1> DEFINE entry(h, j) == IF h = g /\ j = k THEN v ELSE cache[h][j]
  <1>5. \A h \in Gateways : cache'[h] = [j \in CacheKeys |-> entry(h, j)]
    BY <1>2, <1>3, <1>4
  <1>6. ASSUME NEW h \in Gateways, NEW j \in CacheKeys PROVE cache'[h][j] = entry(h, j)
    <2>1. cache'[h] = [i \in CacheKeys |-> entry(h, i)]
      BY <1>5
    <2> HIDE DEF entry
    <2> QED BY <2>1
  <1>7. \A h \in Gateways : cache'[h] = [j \in CacheKeys |-> cache'[h][j]]
    BY <1>5, <1>6
  <1>8. cache' = [h \in Gateways |-> cache'[h]]
    BY <1>3
  <1>9. cache' = [h \in Gateways |-> [j \in CacheKeys |-> cache'[h][j]]]
    BY <1>7, <1>8
  <1> QED BY <1>6, <1>9

\* The request that a step of a verification is about, and its cache key.
LEMMA InWaiting ==
  ASSUME SignInv, NEW r \in Requests, pc[r] \in Waiting
  PROVE  /\ asked[r] \in Manifests /\ Asked(r) # None
         /\ Asked(r).key_ref \in KmsRefs
         /\ CacheKey(Asked(r)) \in CacheKeys /\ CacheKey(Asked(r))[2] = Asked(r).key_ref
         /\ Home[r] \in Gateways
  <1>1. asked[r] \in Manifests /\ Asked(r) # None /\ Asked(r).key_ref \in KmsRefs
    BY DEF SignInv, AskedIsSigned, Waiting
  <1>2. SignedWithKeys
    BY DEF SignInv
  <1> QED BY <1>1, <1>2, CacheKeyTypes, SigningAssumption DEF Asked

(***************************************************************************)
(* A step of the verification r that leaves true keys in its gateway's     *)
(* cache and in the ledger, and covers it no more unless it ends well.     *)
(***************************************************************************)
LEMMA VerifierStep ==
  ASSUME SignInv, NEW r \in Requests, pc[r] \in Waiting,
         UNCHANGED <<manifests, env, asked>>,
         NEW key, NEW age, NEW active,
         \/ cache' = cache
         \/ cache' = [cache EXCEPT ![Home[r]][CacheKey(Asked(r))] = [key |-> key, age |-> age]],
         \/ ledger' = ledger
         \/ ledger' = [ledger EXCEPT ![CacheKey(Asked(r))] = [key |-> key, active |-> active]],
         cache' # cache \/ ledger' # ledger => key = KmsKey(Asked(r).key_ref),
         NEW label \in Waiting \cup {"done"}, pc' = [pc EXCEPT ![r] = label],
         NEW ok, verdict' = verdict \/ verdict' = [verdict EXCEPT ![r] = ok],
         \/ covered' = [covered EXCEPT ![r] = FALSE]
         \/ covered' = covered /\ (covered[r] => label = "done" /\ verdict'[r] = TRUE)
  PROVE  SignInv'
  <1> DEFINE k == CacheKey(Asked(r))  g == Home[r]
  <1> USE DEF SignInv
  <1>1. k \in CacheKeys /\ k[2] = Asked(r).key_ref /\ g \in Gateways
    BY InWaiting
  <1>2. Shapes'
    <2>1. cache' = [h \in Gateways |-> [j \in CacheKeys |-> cache'[h][j]]]
      <3>1. CASE cache' = cache
        BY <3>1 DEF Shapes
      <3>2. CASE cache' = [cache EXCEPT ![g][k] = [key |-> key, age |-> age]]
        BY <1>1, <3>2, CacheUpdate
      <3> QED BY <3>1, <3>2
    <2>2. ledger' = [j \in CacheKeys |-> ledger'[j]]
      BY DEF Shapes
    <2>3. pc' \in [Requests -> {"idle", "done"} \cup Waiting]
      BY DEF Shapes
    <2>4. verdict' = [q \in Requests |-> verdict'[q]] /\ covered' \in [Requests -> BOOLEAN]
      BY DEF Shapes
    <2> QED BY <2>1, <2>2, <2>3, <2>4 DEF Shapes
  <1>3. SignedWithKeys'
    BY DEF SignedWithKeys
  <1>4. ASSUME NEW j \in CacheKeys, ledger'[j] # None PROVE ledger'[j].key = KmsKey(j[2])
    <2>1. CASE ledger' = ledger
      BY <1>4, <2>1 DEF KeysAreTrue
    <2>2. CASE ledger' # ledger /\ j = k
      BY <1>1, <2>2 DEF Shapes
    <2>3. CASE ledger' # ledger /\ j # k
      <3>1. ledger'[j] = ledger[j]
        BY <2>3 DEF Shapes
      <3> QED BY <1>4, <3>1 DEF KeysAreTrue
    <2> QED BY <2>1, <2>2, <2>3
  <1>5. ASSUME NEW h \in Gateways, NEW j \in CacheKeys, cache'[h][j] # None
        PROVE  cache'[h][j].key = KmsKey(j[2])
    <2>1. CASE cache' = cache
      BY <1>5, <2>1 DEF KeysAreTrue
    <2>2. CASE cache' # cache /\ h = g /\ j = k
      BY <1>1, <2>2, CacheUpdate
    <2>3. CASE cache' # cache /\ ~(h = g /\ j = k)
      <3>1. cache'[h][j] = cache[h][j]
        BY <1>1, <2>3, CacheUpdate
      <3> QED BY <1>5, <3>1 DEF KeysAreTrue
    <2> QED BY <2>1, <2>2, <2>3
  <1>6. \A q \in Requests : Asked(q)' = Asked(q)
    BY DEF Asked
  <1>7. AskedIsSigned'
    BY <1>6 DEF AskedIsSigned, Shapes, Waiting
  <1>8. \A q \in Requests \ {r} : /\ pc'[q] = pc[q] /\ covered'[q] = covered[q]
                                  /\ verdict'[q] = verdict[q]
    BY DEF Shapes
  <1>9. CoverIsTrue'
    <2>1. ASSUME covered'[r]
          PROVE  /\ pc'[r] = "done" /\ verdict'[r] = TRUE
                 /\ Asked(r).key = KmsKey(Asked(r).key_ref)
      BY <2>1 DEF Shapes, CoverIsTrue, Waiting
    <2> QED BY <1>6, <1>8, <2>1 DEF CoverIsTrue
  <1> QED BY <1>2, <1>3, <1>4, <1>5, <1>7, <1>9 DEF KeysAreTrue

LEMMA ReadLedgerStep ==
  ASSUME SignInv, NEW r \in Requests, ReadLedger(r)
  PROVE  SignInv'
  <1> DEFINE k == CacheKey(Asked(r))  g == Home[r]
  <1>1. pc[r] = "ledger" /\ pc[r] \in Waiting
    BY DEF ReadLedger, Waiting
  <1>2. k \in CacheKeys /\ k[2] = Asked(r).key_ref
    BY <1>1, InWaiting
  <1>3. UNCHANGED <<manifests, env, asked, ledger>>
    BY DEF ReadLedger, serviceVars
  <1>4. CASE /\ ledger[k] # None
             /\ cache' = [cache EXCEPT ![g][k] = [key |-> ledger[k].key, age |-> waited[r]]]
             /\ Answer(r, ledger[k].key = Asked(r).key)
             /\ UNCHANGED covered
    <2>1. ledger[k].key = KmsKey(Asked(r).key_ref)
      BY <1>2, <1>4 DEF SignInv, KeysAreTrue
    <2>2. covered[r] => ledger[k].key = Asked(r).key
      BY <1>1, <2>1 DEF SignInv, CoverIsTrue
    <2>3. covered[r] => verdict'[r] = TRUE
      BY <1>4, <2>2 DEF Answer, SignInv, Shapes
    <2> QED BY <1>1, <1>3, <1>4, <2>1, <2>3, VerifierStep DEF Answer
  <1>5. CASE /\ pc' = [pc EXCEPT ![r] = "kms"]
             /\ covered' = [covered EXCEPT ![r] = FALSE]
             /\ UNCHANGED <<cache, verdict>>
    <2>1. "kms" \in Waiting
      BY DEF Waiting
    <2> QED BY <1>1, <1>3, <1>5, <2>1, VerifierStep
  <1> QED BY <1>4, <1>5 DEF ReadLedger

\* Steps of a request that the ledger does not cover any more.
LEMMA KmsSteps ==
  ASSUME SignInv, NEW r \in Requests, FetchKey(r) \/ PutKey(r) \/ UpsertKey(r)
  PROVE  SignInv'
  <1>1. pc[r] \in {"kms", "put", "upsert"} /\ pc[r] \in Waiting
    BY DEF FetchKey, PutKey, UpsertKey, Waiting
  <1>2. ~covered[r]
    BY <1>1 DEF SignInv, CoverIsTrue
  <1>3. covered' = covered /\ UNCHANGED <<manifests, env, asked>>
    BY DEF FetchKey, PutKey, UpsertKey, serviceVars, gatewayVars
  <1>4. "put" \in Waiting /\ "upsert" \in Waiting
    BY DEF Waiting
  <1>5. CASE FetchKey(r)
    <2>1. cache' = cache /\ ledger' = ledger
      BY <1>5 DEF FetchKey, serviceVars, gatewayVars
    <2>2. CASE pc' = [pc EXCEPT ![r] = "put"] /\ UNCHANGED verdict
      BY <1>1, <1>2, <1>3, <1>4, <2>1, <2>2, VerifierStep
    <2>3. CASE Answer(r, FALSE)
      BY <1>1, <1>2, <1>3, <2>1, <2>3, VerifierStep DEF Answer
    <2> QED BY <1>5, <2>2, <2>3 DEF FetchKey
  <1>6. CASE PutKey(r)
    <2>1. ledger' = ledger
      BY <1>6 DEF PutKey, serviceVars
    <2> QED BY <1>1, <1>2, <1>3, <1>4, <1>6, <2>1, VerifierStep DEF PutKey
  <1>7. CASE UpsertKey(r)
    <2>1. cache' = cache
      BY <1>7 DEF UpsertKey, gatewayVars
    <2> QED BY <1>1, <1>2, <1>3, <1>7, <2>1, VerifierStep DEF UpsertKey, Answer
  <1> QED BY <1>5, <1>6, <1>7

-----------------------------------------------------------------------------
(* Time, operators and restarts.                                           *)

LEMMA TickStep ==
  ASSUME SignInv, Tick
  PROVE  SignInv'
  <1> DEFINE aged(e) == IF e = None THEN None ELSE [e EXCEPT !.age = Older(@)]
  <1>1. UNCHANGED <<manifests, ledger, enabled, env, starts, pc, asked, verdict, covered>>
    BY DEF Tick, serviceVars
  <1>2. cache' = [g \in Gateways |-> [k \in CacheKeys |-> aged(cache[g][k])]]
    BY DEF Tick
  <1>3. ASSUME NEW g \in Gateways, NEW k \in CacheKeys
        PROVE  cache'[g][k] = aged(cache[g][k])
    <2> HIDE DEF aged
    <2> QED BY <1>2
  <1>4. cache' = [g \in Gateways |-> [k \in CacheKeys |-> cache'[g][k]]]
    <2> HIDE DEF aged
    <2>1. \A g \in Gateways : cache'[g] = [k \in CacheKeys |-> aged(cache[g][k])]
      BY <1>2
    <2>2. \A g \in Gateways : cache'[g] = [k \in CacheKeys |-> cache'[g][k]]
      BY <2>1
    <2> QED BY <1>2, <2>2
  <1>5. ASSUME NEW g \in Gateways, NEW k \in CacheKeys, cache'[g][k] # None
        PROVE  cache'[g][k].key = KmsKey(k[2])
    <2>1. cache[g][k] # None /\ cache'[g][k] = [cache[g][k] EXCEPT !.age = Older(@)]
      BY <1>3, <1>5
    <2>2. cache[g][k].key = KmsKey(k[2])
      BY <2>1 DEF SignInv, KeysAreTrue
    <2>3. [cache[g][k] EXCEPT !.age = Older(@)].key = cache[g][k].key
      OBVIOUS
    <2> QED BY <2>1, <2>2, <2>3
  <1>6. Shapes'
    BY <1>1, <1>4 DEF SignInv, Shapes
  <1>7. SignedWithKeys' /\ AskedIsSigned' /\ CoverIsTrue'
    BY <1>1 DEF SignInv, SignedWithKeys, AskedIsSigned, CoverIsTrue, Asked
  <1>8. KeysAreTrue'
    BY <1>1, <1>5 DEF SignInv, KeysAreTrue
  <1> QED BY <1>6, <1>7, <1>8 DEF SignInv

LEMMA SigningStays ==
  ASSUME SignInv, UNCHANGED <<manifests, ledger, env, cache, pc, asked, verdict, covered>>
  PROVE  SignInv'
  <1>1. Shapes' /\ SignedWithKeys' /\ KeysAreTrue'
    BY DEF SignInv, Shapes, SignedWithKeys, KeysAreTrue
  <1>2. AskedIsSigned' /\ CoverIsTrue'
    BY DEF SignInv, AskedIsSigned, CoverIsTrue, Asked
  <1> QED BY <1>1, <1>2 DEF SignInv

LEMMA OperatorSteps ==
  ASSUME SignInv,
         (\E k \in CacheKeys : Deactivate(k)) \/ (\E ref \in KmsRefs : Disable(ref))
  PROVE  SignInv'
  <1>1. CASE \E ref \in KmsRefs : Disable(ref)
    BY <1>1, SigningStays DEF Disable, gatewayVars, requestVars
  <1>2. ASSUME NEW k \in CacheKeys, Deactivate(k) PROVE SignInv'
    <2>1. UNCHANGED <<manifests, enabled, env, starts, cache, pc, asked, waited, verdict>>
      BY <1>2 DEF Deactivate, gatewayVars
    <2>2. ledger' = [ledger EXCEPT ![k].active = FALSE] /\ ledger[k] # None
      BY <1>2 DEF Deactivate
    <2>3. ASSUME NEW j \in CacheKeys, ledger'[j] # None PROVE ledger'[j].key = KmsKey(j[2])
      <3>1. CASE j # k
        <4>1. ledger'[j] = ledger[j]
          BY <2>2, <3>1 DEF SignInv, Shapes
        <4> QED BY <2>3, <4>1 DEF SignInv, KeysAreTrue
      <3>2. CASE j = k
        <4>1. ledger'[j] = [ledger[k] EXCEPT !.active = FALSE]
          BY <2>2, <3>2 DEF SignInv, Shapes
        <4>2. ledger'[j].key = ledger[k].key
          BY <4>1
        <4> QED BY <2>2, <3>2, <4>2 DEF SignInv, KeysAreTrue
      <3> QED BY <3>1, <3>2
    <2>4. /\ covered' \in [Requests -> BOOLEAN]
          /\ \A r \in Requests : covered'[r] => covered[r]
      BY <1>2 DEF Deactivate, Uncover, SignInv, Shapes
    <2>5. ledger' = [j \in CacheKeys |-> ledger'[j]]
      BY <2>2 DEF SignInv, Shapes
    <2>6. Shapes'
      BY <2>1, <2>4, <2>5 DEF SignInv, Shapes
    <2>7. SignedWithKeys' /\ AskedIsSigned' /\ CoverIsTrue'
      BY <2>1, <2>4 DEF SignInv, SignedWithKeys, AskedIsSigned, CoverIsTrue, Asked
    <2> QED BY <2>1, <2>3, <2>6, <2>7 DEF SignInv, KeysAreTrue
  <1> QED BY <1>1, <1>2

LEMMA RestartStep ==
  ASSUME SignInv, NEW g \in Gateways, NEW e \in Envs, Restart(g, e)
  PROVE  SignInv'
  <1> DEFINE empty == [k \in CacheKeys |-> None]
  <1>1. /\ UNCHANGED <<manifests, ledger, covered>>
        /\ env' = [env EXCEPT ![g] = e]
        /\ cache' = [cache EXCEPT ![g] = empty]
    BY DEF Restart, serviceVars
  <1>2. /\ pc' = [r \in Requests |-> IF Home[r] = g THEN "idle" ELSE pc[r]]
        /\ asked' = [r \in Requests |-> IF Home[r] = g THEN None ELSE asked[r]]
        /\ verdict' = [r \in Requests |-> IF Home[r] = g THEN None ELSE verdict[r]]
    BY DEF Restart
  <1>3. ASSUME NEW h \in Gateways
        PROVE  /\ cache'[h] = [k \in CacheKeys |-> cache'[h][k]]
               /\ \A k \in CacheKeys : cache'[h][k] \in {None, cache[h][k]}
    <2>1. CASE h = g
      <3>1. cache'[h] = empty
        BY <1>1, <2>1 DEF SignInv, Shapes
      <3> QED BY <3>1
    <2>2. CASE h # g
      <3>1. cache'[h] = cache[h]
        BY <1>1, <2>2 DEF SignInv, Shapes
      <3>2. cache[h] = [k \in CacheKeys |-> cache[h][k]]
        BY DEF SignInv, Shapes
      <3> QED BY <3>1, <3>2
    <2> QED BY <2>1, <2>2
  <1>4. cache' = [h \in Gateways |-> [k \in CacheKeys |-> cache'[h][k]]]
    <2>1. cache' = [h \in Gateways |-> cache'[h]]
      BY <1>1 DEF SignInv, Shapes
    <2> QED BY <1>3, <2>1
  <1>5. Shapes'
    BY <1>1, <1>2, <1>4 DEF SignInv, Shapes
  <1>6. SignedWithKeys' /\ KeysAreTrue'
    BY <1>1, <1>3 DEF SignInv, SignedWithKeys, KeysAreTrue
  <1>7. \A r \in Requests : pc'[r] # "idle" =>
          /\ Home[r] # g /\ pc'[r] = pc[r] /\ asked'[r] = asked[r] /\ verdict'[r] = verdict[r]
          /\ env'[Home[r]] = env[Home[r]] /\ Asked(r)' = Asked(r)
    BY <1>1, <1>2, SigningAssumption DEF SignInv, Shapes, Asked
  <1>8. AskedIsSigned'
    BY <1>7 DEF SignInv, AskedIsSigned, Waiting
  <1>9. CoverIsTrue'
    BY <1>1, <1>7 DEF SignInv, CoverIsTrue
  <1> QED BY <1>5, <1>6, <1>8, <1>9 DEF SignInv

LEMMA NextSigning == SignInv /\ [Next]_vars => SignInv'
  <1> SUFFICES ASSUME SignInv, [Next]_vars PROVE SignInv'
    OBVIOUS
  <1>1. CASE UNCHANGED vars
    BY <1>1, SigningStays DEF vars, serviceVars, gatewayVars, requestVars
  <1>2. CASE \E g \in Gateways : (\E m \in Manifests : Sign(g, m)) \/ (\E e \in Envs : Restart(g, e))
    BY <1>2, SignStep, RestartStep
  <1>3. CASE \E r \in Requests : Step(r) \/ \E m \in Manifests : Begin(r, m)
    BY <1>3, BeginStep, ReadLedgerStep, KmsSteps DEF Step
  <1>4. CASE (\E k \in CacheKeys : Deactivate(k)) \/ (\E ref \in KmsRefs : Disable(ref))
    BY <1>4, OperatorSteps
  <1>5. CASE Tick
    BY <1>5, TickStep
  <1> QED BY <1>1, <1>2, <1>3, <1>4, <1>5 DEF Next

\* Shapes, signatures, caches and ledger agree at every moment.
THEOREM SigningInductive == Spec => []SignInv
  BY InitSigning, NextSigning, PTL DEF Spec

(***************************************************************************)
(* For any requests, keys and gateways: a manifest that KMS signed is not  *)
(* refused while the ledger has its key, whatever KMS answers.             *)
(***************************************************************************)
THEOREM LedgerIsEnough == Spec => []LedgerSuffices
  <1>1. SignInv => LedgerSuffices
    BY DEF SignInv, CoverIsTrue, LedgerSuffices, KmsSigned
  <1> QED BY <1>1, SigningInductive, PTL

(***************************************************************************)
(* For any environments without single keys: the gateway and the offline   *)
(* verifier give the same answer, and it is yes as long as the key set has *)
(* the key that signed, whatever kid the environment signs with.           *)
(***************************************************************************)
THEOREM RotationIsSafe == Spec => []KeySetsVerify
  <1>1. SignInv => KeySetsVerify
    <2> SUFFICES ASSUME SignInv, NEW g \in Gateways, NEW m \in Manifests,
                        manifests[m] # None, env[g].secret = None, env[g].ed25519_key = None
                 PROVE  LET e == env[g]  sig == manifests[m] IN
                        /\ VerifiesWithSet(e, sig) <=> VerifiesOffline(e, sig)
                        /\ (\E h \in Gateways :
                              /\ sig = Signature(h) /\ env[h].provider = ""
                              /\ SetKey(e, sig.alg, sig.kid) = SetKey(env[h], sig.alg, sig.kid))
                             => VerifiesWithSet(e, sig)
      BY DEF KeySetsVerify
    <2> DEFINE e == env[g]  sig == manifests[m]
    <2>1. sig.key # None
      BY DEF SignInv, SignedWithKeys
    <2>2. VerifiesWithSet(e, sig) <=> VerifiesOffline(e, sig)
      <3>1. CASE sig.alg = "hmac-sha256"
        BY <3>1 DEF VerifiesWithSet, VerifiesOffline, SetKey, HmacKey, Lookup
      <3>2. CASE sig.alg = "ed25519"
        BY <3>2 DEF VerifiesWithSet, VerifiesOffline, SetKey, Ed25519Key, Lookup
      <3>3. CASE sig.alg \notin {"hmac-sha256", "ed25519"}
        BY <3>3 DEF VerifiesWithSet, VerifiesOffline, SetKey
      <3> QED BY <3>1, <3>2, <3>3
    <2>3. ASSUME NEW h \in Gateways, sig = Signature(h), env[h].provider = "",
                 SetKey(e, sig.alg, sig.kid) = SetKey(env[h], sig.alg, sig.kid)
          PROVE  VerifiesWithSet(e, sig)
      <3>1. sig = Envelope(env[h].alg, env[h].bundle_kid, None,
                           SetKey(env[h], env[h].alg, env[h].bundle_kid))
        BY <2>3 DEF Signature
      <3>2. sig.key = SetKey(env[h], sig.alg, sig.kid)
        BY <3>1 DEF Envelope
      <3> QED BY <2>1, <2>3, <3>2 DEF VerifiesWithSet
    <2> QED BY <2>2, <2>3
  <1> QED BY <1>1, SigningInductive, PTL
=============================================================================
