------------------------------ MODULE Signing -------------------------------
(***************************************************************************)
(* Signing manifests and verifying them again: with key sets from the      *)
(* environment (bundle_utils.py), with a key pair that a development       *)
(* gateway makes up when it starts, or with AWS KMS, whose public keys are *)
(* cached in every process and recorded in the table signing_public_keys.  *)
(*                                                                         *)
(* A signature is the key that made it.  Verification is a thread of its   *)
(* gateway; its database and KMS calls are steps of their own, and each of *)
(* them may fail.  A cache entry carries its age instead of a time; it     *)
(* stops counting once the entry is expired.                               *)
(***************************************************************************)
EXTENDS Naturals

CONSTANTS
  None,
  Gateways, Manifests,
  Requests, Home,   \* verifications, and the gateway each is sent to
  Envs,             \* the environments that gateways are started with
  KmsRefs,          \* key_ref values; a KMS key is named by its only ref
  Ttl,              \* DADI_KMS_PUBKEY_CACHE_TTL_SECONDS in ticks
  MaxStarts,        \* bound: gateway -> how often it is started again
  Successors,       \* bound: environment -> those that may follow it
  Deployments       \* gateway -> its first environment: those that are tried

(***************************************************************************)
(* An environment: provider is DADI_SIGNING_PROVIDER ('' when unset), kid  *)
(* and key_ref its settings; alg and bundle_kid those of bundle_utils.py,  *)
(* with the key sets it reads: functions from kids, or None, and the       *)
(* backward-compatible single keys.                                        *)
(***************************************************************************)
Kids == {e.kid : e \in Envs} \cup {e.bundle_kid : e \in Envs}
CacheKeys == Kids \X KmsRefs

ASSUME SigningAssumption ==
  /\ Home \in [Requests -> Gateways]
  /\ Deployments \subseteq [Gateways -> Envs]
  /\ Successors \in [Envs -> SUBSET Envs]
  /\ Ttl \in Nat /\ MaxStarts \in [Gateways -> Nat]
  /\ None \notin Manifests \cup KmsRefs
  /\ \A e \in Envs : /\ e.provider \in {"", "dev_ed25519", "aws_kms"}
                     /\ e.provider = "aws_kms" => e.key_ref \in KmsRefs

VARIABLES
  env,        \* gateway -> its environment
  starts,     \* gateway -> how often it was started again
  manifests,  \* manifest -> its signature [alg, kid, key_ref, key], or None
  cache,      \* gateway -> (kid, key_ref) -> [key, age], or None
  ledger,     \* (kid, key_ref) -> [key, active], or None
  enabled,    \* key_ref -> whether KMS still gives out the key
  pc,         \* request -> "idle", "ledger", "kms", "put", "upsert", "done"
  asked,      \* request -> its manifest
  waited,     \* request -> the age of the `now` of its get()
  verdict,    \* request -> the answer
  covered     \* history: request -> since it began, the ledger had the key of
              \* the manifest active, and could be read when it was

serviceVars == <<manifests, ledger, enabled>>
gatewayVars == <<env, starts, cache>>
requestVars == <<pc, asked, waited, verdict, covered>>
vars == <<serviceVars, gatewayVars, requestVars>>

Age == 0..Ttl + 1
Older(age) == IF age > Ttl THEN age ELSE age + 1

-----------------------------------------------------------------------------
(* Key sets of the environment, and who signs with what.                   *)

Lookup(set, kid) == IF set # None /\ kid \in DOMAIN set THEN set[kid] ELSE None

\* The single secret stands for the kid of the environment.
HmacKey(e, kid) ==
  IF e.hmac_secrets # None THEN Lookup(e.hmac_secrets, kid)
  ELSE IF kid = e.bundle_kid THEN e.secret ELSE None

\* The single key is a default beside the key set.
Ed25519Key(e, kid) ==
  IF Lookup(e.ed25519_keys, kid) # None THEN Lookup(e.ed25519_keys, kid)
  ELSE IF kid = e.bundle_kid THEN e.ed25519_key ELSE None

SetKey(e, alg, kid) ==
  CASE alg = "hmac-sha256" -> HmacKey(e, kid)
    [] alg = "ed25519" -> Ed25519Key(e, kid)
    [] OTHER -> None

Envelope(alg, kid, ref, key) == [alg |-> alg, kid |-> kid, key_ref |-> ref, key |-> key]

DevKey(g) == <<"dev", g, starts[g]>>
KmsKey(ref) == <<"kms", ref>>

\* What load_signing_provider and sign of the provider it loads return.
Signature(g) ==
  LET e == env[g]
  IN CASE e.provider = "" -> Envelope(e.alg, e.bundle_kid, None, SetKey(e, e.alg, e.bundle_kid))
       [] e.provider = "dev_ed25519" -> Envelope("dev_ed25519", e.kid, "in-memory", DevKey(g))
       [] e.provider = "aws_kms" -> Envelope("aws_kms", e.kid, e.key_ref, KmsKey(e.key_ref))

\* Variant: the key set is asked for the kid that the gateway signs with.
VerifiesOwnKid(e, sig) ==
  SetKey(e, sig.alg, e.bundle_kid) # None /\ SetKey(e, sig.alg, e.bundle_kid) = sig.key

\* verify_manifest of bundle_utils.py.
VerifiesWithSet(e, sig) ==
  SetKey(e, sig.alg, sig.kid) # None /\ SetKey(e, sig.alg, sig.kid) = sig.key

\* verify_signature of tools/bundle-verify: a single secret is used for every
\* kid, a single Ed25519 key is not used.
VerifiesOffline(e, sig) ==
  LET key == CASE sig.alg = "hmac-sha256" /\ e.hmac_secrets = None -> e.secret
               [] sig.alg = "hmac-sha256" /\ e.hmac_secrets # None
                    -> Lookup(e.hmac_secrets, sig.kid)
               [] sig.alg = "ed25519" -> Lookup(e.ed25519_keys, sig.kid)
               [] OTHER -> None
  IN key # None /\ key = sig.key

-----------------------------------------------------------------------------

Init ==
  /\ env \in Deployments
  /\ starts = [g \in Gateways |-> 0]
  /\ manifests = [m \in Manifests |-> None]
  /\ cache = [g \in Gateways |-> [k \in CacheKeys |-> None]]
  /\ ledger = [k \in CacheKeys |-> None]
  /\ enabled = [ref \in KmsRefs |-> TRUE]
  /\ pc = [r \in Requests |-> "idle"]
  /\ asked = [r \in Requests |-> None]
  /\ waited = [r \in Requests |-> 0]
  /\ verdict = [r \in Requests |-> None]
  /\ covered = [r \in Requests |-> FALSE]

\* Signing fails closed: without the key or KMS there is no manifest.
Sign(g, m) ==
  /\ manifests[m] = None
  /\ Signature(g).key # None
  /\ env[g].provider = "aws_kms" => enabled[env[g].key_ref]
  /\ manifests' = [manifests EXCEPT ![m] = Signature(g)]
  /\ UNCHANGED <<ledger, enabled, gatewayVars, requestVars>>

-----------------------------------------------------------------------------
(* Verification.                                                           *)

Asked(r) == manifests[asked[r]]

\* Variant: the cache and the ledger are looked up by the kid alone.
CacheKeyKid(sig) ==
  <<sig.kid, IF \E ref \in KmsRefs : ledger[<<sig.kid, ref>>] # None
             THEN CHOOSE ref \in KmsRefs : ledger[<<sig.kid, ref>>] # None
             ELSE sig.key_ref>>

CacheKey(sig) == <<sig.kid, sig.key_ref>>

Fresh(entry) == entry # None /\ entry.age <= Ttl

Answer(r, ok) ==
  /\ pc' = [pc EXCEPT ![r] = "done"]
  /\ verdict' = [verdict EXCEPT ![r] = ok]

\* Variant: a hit counts as a fetch.
HitSliding(g, k) == cache' = [cache EXCEPT ![g][k].age = 0]

\* A hit leaves its entry as it is.
Hit(g, k) == UNCHANGED cache

\* The ledger would answer with the key that signed.
Covers(sig) ==
  /\ sig.key_ref \in KmsRefs
  /\ LET row == ledger[CacheKey(sig)] IN row # None /\ row.active /\ row.key = sig.key

\* The provider is that of the gateway that verifies, not that of the
\* signature.  The development key looks at nothing but the signature.
Begin(r, m) ==
  LET g == Home[r]  e == env[g]  sig == manifests[m]
      entry == cache[g][CacheKey(sig)]
  IN /\ pc[r] \in {"idle", "done"} /\ sig # None
     /\ asked' = [asked EXCEPT ![r] = m]
     /\ waited' = [waited EXCEPT ![r] = 0]
     /\ covered' = [covered EXCEPT ![r] = Covers(sig)]
     /\ \/ e.provider = "" /\ Answer(r, VerifiesWithSet(e, sig)) /\ UNCHANGED cache
        \/ /\ e.provider # "" /\ sig.key_ref = None
           /\ Answer(r, FALSE) /\ UNCHANGED cache
        \/ /\ e.provider = "dev_ed25519" /\ sig.key_ref # None
           /\ Answer(r, sig.key = DevKey(g)) /\ UNCHANGED cache
        \/ /\ e.provider = "aws_kms" /\ sig.key_ref \in KmsRefs
           /\ IF Fresh(entry) THEN Answer(r, entry.key = sig.key) /\ Hit(g, CacheKey(sig))
              ELSE /\ pc' = [pc EXCEPT ![r] = "ledger"]
                   /\ verdict' = [verdict EXCEPT ![r] = None]
                   /\ UNCHANGED cache
        \/ /\ e.provider = "aws_kms" /\ sig.key_ref \notin KmsRefs \cup {None}
           /\ Answer(r, FALSE) /\ UNCHANGED cache
     /\ UNCHANGED <<serviceVars, env, starts>>

\* get() stamps the entry with the time it was called at; without a row, and
\* when the query raises, it returns None.
ReadLedger(r) ==
  LET g == Home[r]  k == CacheKey(Asked(r))
  IN /\ pc[r] = "ledger"
     /\ \/ /\ ledger[k] # None /\ ledger[k].active
           /\ cache' = [cache EXCEPT ![g][k] = [key |-> ledger[k].key, age |-> waited[r]]]
           /\ Answer(r, ledger[k].key = Asked(r).key)
           /\ UNCHANGED covered
        \/ /\ pc' = [pc EXCEPT ![r] = "kms"]
           /\ covered' = [covered EXCEPT ![r] = FALSE]
           /\ UNCHANGED <<cache, verdict>>
     /\ waited' = [waited EXCEPT ![r] = 0]
     /\ UNCHANGED <<serviceVars, env, starts, asked>>

\* Without an answer of KMS the signature is refused.
FetchKey(r) ==
  /\ pc[r] = "kms"
  /\ \/ /\ enabled[Asked(r).key_ref]
        /\ pc' = [pc EXCEPT ![r] = "put"] /\ UNCHANGED verdict
     \/ Answer(r, FALSE)
  /\ UNCHANGED <<serviceVars, gatewayVars, asked, waited, covered>>

\* put() caches what KMS has sent, as of now, ...
PutKey(r) ==
  /\ pc[r] = "put"
  /\ cache' = [cache EXCEPT ![Home[r]][CacheKey(Asked(r))] =
                 [key |-> KmsKey(Asked(r).key_ref), age |-> 0]]
  /\ pc' = [pc EXCEPT ![r] = "upsert"]
  /\ UNCHANGED <<serviceVars, env, starts, asked, waited, verdict, covered>>

\* ... and records it, if it can: a deactivated row becomes active again.
UpsertKey(r) ==
  /\ pc[r] = "upsert"
  /\ ledger' \in {ledger, [ledger EXCEPT ![CacheKey(Asked(r))] =
                            [key |-> KmsKey(Asked(r).key_ref), active |-> TRUE]]}
  /\ Answer(r, KmsKey(Asked(r).key_ref) = Asked(r).key)
  /\ UNCHANGED <<manifests, enabled, gatewayVars, asked, waited, covered>>

-----------------------------------------------------------------------------
(* Time, operators and failures.                                           *)

Tick ==
  /\ cache' = [g \in Gateways |-> [k \in CacheKeys |->
                 IF cache[g][k] = None THEN None
                 ELSE [cache[g][k] EXCEPT !.age = Older(@)]]]
  /\ waited' = [r \in Requests |-> IF pc[r] = "ledger" THEN Older(waited[r]) ELSE waited[r]]
  /\ UNCHANGED <<serviceVars, env, starts, pc, asked, verdict, covered>>

Uncover(k) == covered' = [r \in Requests |->
                            covered[r] /\ (asked[r] # None => CacheKey(Asked(r)) # k)]

\* Taking a key out of use, in the ledger and in KMS.
Deactivate(k) ==
  /\ ledger[k] # None /\ ledger[k].active
  /\ ledger' = [ledger EXCEPT ![k].active = FALSE]
  /\ Uncover(k)
  /\ UNCHANGED <<manifests, enabled, gatewayVars, pc, asked, waited, verdict>>

Disable(ref) ==
  /\ enabled[ref]
  /\ enabled' = [enabled EXCEPT ![ref] = FALSE]
  /\ UNCHANGED <<manifests, ledger, gatewayVars, requestVars>>

\* A new process: another environment, an empty cache, a new development key.
Restart(g, e) ==
  /\ starts[g] < MaxStarts[g] /\ e \in Successors[env[g]]
  /\ starts' = [starts EXCEPT ![g] = @ + 1]
  /\ env' = [env EXCEPT ![g] = e]
  /\ cache' = [cache EXCEPT ![g] = [k \in CacheKeys |-> None]]
  /\ pc' = [r \in Requests |-> IF Home[r] = g THEN "idle" ELSE pc[r]]
  /\ asked' = [r \in Requests |-> IF Home[r] = g THEN None ELSE asked[r]]
  /\ verdict' = [r \in Requests |-> IF Home[r] = g THEN None ELSE verdict[r]]
  /\ UNCHANGED <<serviceVars, waited, covered>>

-----------------------------------------------------------------------------

Step(r) == ReadLedger(r) \/ FetchKey(r) \/ PutKey(r) \/ UpsertKey(r)

Next ==
  \/ \E g \in Gateways : (\E m \in Manifests : Sign(g, m)) \/ (\E e \in Envs : Restart(g, e))
  \/ \E r \in Requests : Step(r) \/ \E m \in Manifests : Begin(r, m)
  \/ \E k \in CacheKeys : Deactivate(k)
  \/ \E ref \in KmsRefs : Disable(ref)
  \/ Tick

Spec == Init /\ [][Next]_vars

\* Threads that verify go on, and time passes.
FairSpec == Spec /\ WF_vars(Tick) /\ \A r \in Requests : WF_vars(Step(r))

-----------------------------------------------------------------------------
(* Properties.                                                             *)

KmsSigned(r) == Asked(r).alg = "aws_kms" /\ env[Home[r]].provider = "aws_kms"

(***************************************************************************)
(* "Verification continues as long as keys are ... present in the DB       *)
(* ledger": a manifest that KMS signed is not refused while the ledger has *)
(* its key, whatever KMS does, whatever other keys share its kid, and      *)
(* whichever threads fill the cache meanwhile.                             *)
(***************************************************************************)
LedgerSuffices ==
  \A r \in Requests :
    pc[r] = "done" /\ KmsSigned(r) /\ covered[r] => verdict[r] = TRUE

(***************************************************************************)
(* A key that is and stays out of use, in the ledger and in KMS, is not    *)
(* used any more from some time on by any gateway, however often it is     *)
(* asked for.                                                              *)
(***************************************************************************)
OutOfUse(k) == (ledger[k] = None \/ ~ledger[k].active) /\ ~enabled[k[2]]

RetiredKeysFade ==
  \A k \in CacheKeys : <>[]OutOfUse(k) => <>[](\A g \in Gateways : ~Fresh(cache[g][k]))

(***************************************************************************)
(* Rotation of the key sets: what was signed with a kid that the key set   *)
(* of the verifier still has is accepted, also when it signs with another  *)
(* kid; and the offline verifier, given the same key sets, agrees.         *)
(***************************************************************************)
KeySetsVerify ==
  \A g \in Gateways, m \in Manifests :
    LET e == env[g]  sig == manifests[m]
    IN sig # None /\ e.secret = None /\ e.ed25519_key = None =>
         /\ VerifiesWithSet(e, sig) <=> VerifiesOffline(e, sig)
         /\ (\E h \in Gateways : /\ sig = Signature(h) /\ env[h].provider = ""
                                 /\ SetKey(e, sig.alg, sig.kid) = SetKey(env[h], sig.alg, sig.kid))
              => VerifiesWithSet(e, sig)
=============================================================================
