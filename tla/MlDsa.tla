--------------------------------- MODULE MlDsa ---------------------------------
(***************************************************************************)
(* Signatures over messages that the signer may not see: the JWS tokens of *)
(* ch09/solution/jws_mldsa.py, the external mu of ch10/solution/hsmplan.py *)
(* and the AWS KMS session of ch10/solution/kms_mldsa.py, whose calls may    *)
(* fail before or after KMS does them.                                      *)
(*                                                                         *)
(* A signature (external) is the key and the input it was made with; ML-   *)
(* DSA signs mu, the hash of the public key and the message.  A key is its *)
(* algorithm and a name, and so is its public key.                         *)
(***************************************************************************)
EXTENDS Integers, Sequences

MLDSA == {"ML-DSA-44", "ML-DSA-65", "ML-DSA-87"}
JwsAlgs == MLDSA \cup {"ES256", "EdDSA"}

Mu(key, message) == <<"mu", key, message>>
SignMu(key, mu) == [by |-> key, over |-> mu]
Input(key, message) == IF key[1] \in MLDSA THEN Mu(key, message) ELSE <<"raw", message>>
SignWith(key, message) == [by |-> key, over |-> Input(key, message)]
Verifies(key, sig, message) == sig = SignWith(key, message)

------------------------------------------------------------------------------
(* jws_mldsa *)

Signer(alg, kid) == [key |-> <<alg, kid>>, alg |-> alg, kid |-> kid]

Kty(alg) == CASE alg \in MLDSA -> "AKP" [] alg = "ES256" -> "EC" [] OTHER -> "OKP"

\* public_jwk: only an AKP key names its algorithm.
PublicJwk(s) == [kty |-> Kty(s.alg), alg |-> IF s.alg \in MLDSA THEN s.alg ELSE "absent",
                 kid |-> s.kid, pub |-> s.key]

\* issue: the signature is over the header and the payload as encoded.
Issue(s, claims) ==
  LET header == [alg |-> s.alg, kid |-> s.kid]
  IN  [header |-> header, payload |-> claims, sig |-> SignWith(s.key, <<header, claims>>)]

\* verify: the header chooses the algorithm; the key must be one it can be
\* read as; whatever is not ML-DSA or ES256 is taken for Ed25519.
VerifyJws(jwk, token) ==
  LET alg == token.header.alg
      kty == Kty(alg)
  IN  /\ jwk.kty = "AKP" => alg = jwk.alg
      /\ jwk.kty = kty
      /\ Verifies(jwk.pub, token.sig, <<token.header, token.payload>>)

------------------------------------------------------------------------------
(* hsmplan.mu_offload and kms_mldsa.live *)

\* The host hashes, the module signs mu, anyone verifies the message.
MuOffload(key, message) == Verifies(key, SignMu(key, Mu(key, message)), message)

MessageType(bytes) == IF bytes =< 4096 THEN "RAW" ELSE "EXTERNAL_MU"

KmsCalls == {"CreateKey", "GetPublicKey", "Sign", "ScheduleKeyDeletion"}

\* A call that is refused raises and did nothing; one that is unanswered raises
\* although KMS did it.
Replies == {"answered", "refused", "unanswered"}

\* The try block goes through: what KMS signed with signer's key verifies.
Through(key, message, bytes, reply, signer) ==
  LET sig == IF MessageType(bytes) = "RAW" THEN SignWith(signer, message)
             ELSE SignMu(signer, Mu(key, message))
  IN  /\ \A c \in {"CreateKey", "GetPublicKey", "Sign"} : reply[c] = "answered"
      /\ Verifies(key, sig, message)

\* Mutant of Live: the key is scheduled for deletion at the end of the try block.
LiveUntilRaise(key, message, bytes, reply, signer) ==
  LET through == Through(key, message, bytes, reply, signer)
  IN  [made      |-> reply["CreateKey"] # "refused",
       scheduled |-> through /\ reply["ScheduleKeyDeletion"] # "refused",
       returned  |-> through /\ reply["ScheduleKeyDeletion"] = "answered"]

\* live(): what there is when it is over.  The try block begins when the KeyId is
\* known; the finally clause makes its call however the block ends, and what that
\* call raises replaces the result.
Live(key, message, bytes, reply, signer) ==
  [made      |-> reply["CreateKey"] # "refused",
   scheduled |-> reply["CreateKey"] = "answered" /\ reply["ScheduleKeyDeletion"] # "refused",
   returned  |-> /\ Through(key, message, bytes, reply, signer)
                 /\ reply["ScheduleKeyDeletion"] = "answered"]
==============================================================================
