----------------------------- MODULE MCSigning ------------------------------
(***************************************************************************)
(* An instance of Signing for TLC: the gateway g1 verifies on two threads  *)
(* with one environment; g2 signs, with another one after a restart.       *)
(***************************************************************************)
EXTENDS Signing, TLC

CONSTANTS g1, g2, q1, q2, m1, m2, refA, refB

MCHome == (q1 :> g1) @@ (q2 :> g1)
MCMaxStarts == (g1 :> 0) @@ (g2 :> 1)

Kms(ref) ==
  [provider |-> "aws_kms", kid |-> "k1", key_ref |-> ref, alg |-> "ed25519",
   bundle_kid |-> "k1", hmac_secrets |-> None, secret |-> None,
   ed25519_keys |-> None, ed25519_key |-> None]

\* A key set of two kids, signing with one of them; HMAC beside it.
Set(alg, kid) ==
  [Kms(None) EXCEPT !.provider = "", !.alg = alg, !.bundle_kid = kid,
     !.hmac_secrets = ("k1" :> "h1"), !.ed25519_keys = ("k1" :> "e1") @@ ("k2" :> "e2")]

DevEnv == [Kms(None) EXCEPT !.provider = "dev_ed25519"]

\* The KMS key is replaced and its kid kept; or other ways of signing.
KmsEnvs == {Kms(refA), Kms(refB)}
OtherEnvs == {Set("ed25519", "k1"), Set("ed25519", "k2"), Set("hmac-sha256", "k1"),
              DevEnv,
              [Kms(None) EXCEPT !.provider = "", !.ed25519_key = "e1"],
              [Kms(None) EXCEPT !.provider = "", !.alg = "hmac-sha256", !.secret = "h1"]}
AllEnvs == KmsEnvs \cup OtherEnvs

\* A key of KMS is followed by another one of KMS, or by a development key.
MCSuccessors ==
  [e \in AllEnvs |-> IF e \in KmsEnvs THEN KmsEnvs \cup {DevEnv} ELSE OtherEnvs]

\* Gateways start alike.
MCDeployments == {[g \in Gateways |-> e] : e \in AllEnvs \ {Kms(refB)}}
=============================================================================
