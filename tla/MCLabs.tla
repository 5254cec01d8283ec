--------------------------------- MODULE MCLabs ---------------------------------
(* Labs for small trees, hashes that differ in one or two bytes, and tokens   *)
(* that lack one thing of the mock token, or have a vendor's mechanism.       *)
EXTENDS Labs

MCHeight == 5 :> 2 @@ 6 :> 3

MCTexts == {[text |-> t] : t \in 1 .. 2}

Code(message) == IF "text" \in DOMAIN message THEN message.text ELSE 10 + message.I

MCDigest(I, q, C, message) ==
  [k \in 1 .. N |-> (37 * k + 91 * I + 53 * q * k + 17 * C * (k % 3) + 29 * Code(message) * (k % 5)) % 256]

Mostly(b, v, k) == [i \in 1 .. N |-> IF i = k THEN v ELSE b]
MCHashes == {Mostly(b, v, k) : b \in {0, 128, 255}, v \in {0, 1, 127, 255}, k \in {1, N}}

MCVendorDefined == 65536

MCHeader ==
  <<<<"CKM_ML_KEM_KEY_PAIR_GEN", 15>>, <<"CKM_ML_KEM", 23>>, <<"CKM_ML_DSA_KEY_PAIR_GEN", 28>>,
    <<"CKM_ML_DSA", 29>>, <<"CKM_HASH_ML_DSA_SHA512", 38>>, <<"CKM_SLH_DSA_KEY_PAIR_GEN", 45>>,
    <<"CKM_SLH_DSA", 46>>, <<"CKM_SHA256", 592>>, <<"CKM_SHA3_256", 688>>,
    <<"CKM_ECDSA_KEY_PAIR_GEN", 4160>>, <<"CKM_EC_KEY_PAIR_GEN", 4160>>, <<"CKM_ECDSA", 4161>>,
    <<"CKM_AES_KEY_GEN", 4224>>, <<"CKM_AES_GCM", 4231>>, <<"CKM_AES_KEY_WRAP_KWP", 8459>>,
    <<"CKM_HKDF_DERIVE", 16426>>, <<"CKM_HSS_KEY_PAIR_GEN", 16434>>, <<"CKM_HSS", 16435>>,
    <<"CKM_VENDOR_DEFINED", MCVendorDefined>>>>

Less(token, v) == [u \in DOMAIN token \ {v} |-> token[u]]
Vendor(token) == (MCVendorDefined + 1) :> {"CKF_SIGN"} @@ token

MCTokens ==
  LET lacking == {MockPqToken} \cup {Less(MockPqToken, v) : v \in DOMAIN MockPqToken}
                   \cup UNION {{[MockPqToken EXCEPT ![v] = @ \ {f}] : f \in MockPqToken[v]} :
                                 v \in DOMAIN MockPqToken}
  IN  lacking \cup {Vendor(t) : t \in lacking} \cup {(4161 :> SignVerify) @@ (9999 :> {"CKF_SIGN"})}
===============================================================================
