--------------------------------- MODULE Channel ---------------------------------
(***************************************************************************)
(* Channel of labs/ch11/solution/agile.py: the key that two policies       *)
(* establish once they have agreed on a KEM and a signature (PolicyRules). *)
(* Responder and initiator are one object: what it can go wrong about is   *)
(* which inputs its pieces are given.  AES-GCM (external) opens what was   *)
(* sealed with the same key.                                               *)
(***************************************************************************)
EXTENDS HybridKem, MlDsa

ChannelSigs == {"Ed25519", "ML-DSA-65"}

AesGcm(key, nonce, msg) == [nonce |-> nonce, key |-> key, msg |-> msg]

\* keygen, sign and verify of the signature providers; a signature that does
\* not verify is FALSE and never an exception.
SigKeygen(sig, name) == [priv |-> <<sig, name>>, pub |-> <<sig, name>>]

\* __init__ for the names the two negotiations chose: the responder's keys and
\* the initiator's ephemerals are those of this session alone.
Establish(kem, sig, session) ==
  LET keys  == SigKeygen(sig, session)
      pub   == KemPublic(kem, session)
      e     == KemEncapsulate(kem, pub, session, IF kem = "X-Wing" THEN <<session, "x">> ELSE session)
      transcript == <<kem, pub, e.ct>>
      made  == SignWith(keys.priv, transcript)
  IN  [signed  |-> Verifies(keys.pub, made, transcript),
       agreed  |-> e.ss = KemDecapsulate(kem, session, e.ct),
       transcript |-> transcript, transcript_sig |-> made, sig_pub |-> keys.pub,
       key     |-> e.ss]

Seal(channel, nonce, msg) == AesGcm(channel.key, nonce, msg)

\* open: the message, or an exception.
Opens(channel, blob) == blob.key = channel.key
==================================================================================
