------------------------------- MODULE HybridKem -------------------------------
(***************************************************************************)
(* The key encapsulations of the labs: ch02/solution/hybrid.py,            *)
(* ch09/solution/xwing.py and the KEM providers of ch11.  A key pair is    *)
(* its private key, and the public key of k is k too.  ML-KEM and X25519   *)
(* (external) are what the labs rely on: ML-KEM gives both ends one secret *)
(* for a ciphertext and its key, and another secret, not an error, for any *)
(* other; X25519 gives the same secret to both key pairs.  A key           *)
(* derivation is the tuple of its inputs.                                  *)
(***************************************************************************)
EXTENDS Integers, Sequences

MlkemEncapsulate(ek, coins) == [ss |-> <<"shared", ek, coins>>, ct |-> <<ek, coins>>]
MlkemDecapsulate(sk, ct) == IF ct[1] = sk THEN <<"shared", sk, ct[2]>> ELSE <<"rejected", sk, ct>>
Exchange(sk, pk) == {sk, pk}

------------------------------------------------------------------------------
(* hybrid.py *)

\* Mutant of Combine: the X25519 secret is left out.
CombineMlkem(ssM, ssX, transcript) == <<ssM, transcript>>

\* combine: concatenation, and the transcript as info.
Combine(ssM, ssX, transcript) == <<ssM, ssX, transcript>>

\* client_keygen: the state, whose key share is ML-KEM first.
ClientKeygen(m, x) == [m |-> m, x |-> x, share |-> <<m, x>>]

\* server_encaps with the coins of ML-KEM and an ephemeral X25519 key.
ServerEncaps(share, coins, eph, transcript) ==
  LET e == MlkemEncapsulate(share[1], coins)
  IN  [share |-> <<e.ct, eph>>, secret |-> Combine(e.ss, Exchange(eph, share[2]), transcript)]

ClientDecaps(client, share, transcript) ==
  Combine(MlkemDecapsulate(client.m, share[1]), Exchange(client.x, share[2]), transcript)

------------------------------------------------------------------------------
(* xwing.py *)

XWingCombiner(ssM, ssX, ctX, pkX) == <<ssM, ssX, ctX, pkX, "label">>

\* One seed expands to both key pairs.
ExpandDecapsulationKey(sk) == [m |-> <<sk, "m">>, x |-> <<sk, "x">>]

GenerateKeypair(sk) == LET k == ExpandDecapsulationKey(sk) IN [sk |-> sk, pk |-> <<k.m, k.x>>]

XWingEncapsulate(pk, coins, eph) ==
  LET e == MlkemEncapsulate(pk[1], coins)
  IN  [ss |-> XWingCombiner(e.ss, Exchange(eph, pk[2]), eph, pk[2]), ct |-> <<e.ct, eph>>]

XWingDecapsulate(sk, ct) ==
  LET k == ExpandDecapsulationKey(sk)
  IN  XWingCombiner(MlkemDecapsulate(k.m, ct[1]), Exchange(k.x, ct[2]), ct[2], k.x)

------------------------------------------------------------------------------
(* providers.py: one interface for three KEMs *)

Kem == {"X25519", "ML-KEM-768", "X-Wing"}

X25519Derive(ss, ct, public) == <<"x25519-kem", ct, public, ss>>

KemPublic(name, private) == IF name = "X-Wing" THEN GenerateKeypair(private).pk ELSE private

KemEncapsulate(name, public, coins, eph) ==
  CASE name = "X25519"     -> [ss |-> X25519Derive(Exchange(eph, public), eph, public), ct |-> eph]
    [] name = "ML-KEM-768" -> MlkemEncapsulate(public, coins)
    [] name = "X-Wing"     -> XWingEncapsulate(public, coins, eph)

KemDecapsulate(name, private, ct) ==
  CASE name = "X25519"     -> X25519Derive(Exchange(private, ct), ct, private)
    [] name = "ML-KEM-768" -> MlkemDecapsulate(private, ct)
    [] name = "X-Wing"     -> XWingDecapsulate(private, ct)

------------------------------------------------------------------------------
(* timing.py: the toy KEM whose two decapsulations are timed.  A key is its *)
(* secret and its rejection secret; `r` is derived from the message, and    *)
(* the body of a ciphertext is the message under a pad derived from `r`.    *)

ToyMask(pk, m, r) == [pk |-> pk, m |-> m, r |-> r]

\* _reencrypt
ToyReencrypt(pk, m) == <<ToyMask(pk, m, <<"r", m>>), <<"r", m>>>>

ToyEncapsulate(pk, m) == [ss |-> <<"K", m, pk>>, ct |-> ToyReencrypt(pk, m)]

\* _decrypt: under another pad there is some other message, which no
\* encapsulation used.
ToyDecrypt(pk, ct) == IF ct[1].pk = pk /\ ct[1].r = ct[2] THEN ct[1].m ELSE <<"noise", ct>>

\* Mutant of DecapsLeaky: the ciphertext is not derived again.
DecapsTrusting(pk, z, ct) == <<"K", ToyDecrypt(pk, ct), pk>>

\* decaps_leaky: forty hashes more on rejection.
DecapsLeaky(pk, z, ct) ==
  LET m == ToyDecrypt(pk, ct)
  IN  IF ToyReencrypt(pk, m) = ct THEN <<"K", m, pk>> ELSE <<"H40", z, ct>>

\* decaps_ct: both keys are computed, a mask selects one.
DecapsCt(pk, z, ct) ==
  LET m    == ToyDecrypt(pk, ct)
      both == [good |-> <<"K", m, pk>>, bad |-> <<"J", z, ct>>]
  IN  both[IF ToyReencrypt(pk, m) = ct THEN "good" ELSE "bad"]
==============================================================================
