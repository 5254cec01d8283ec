----------------------------- MODULE MCAgilePolicy -----------------------------
(* Small instances of AgilePolicy: the policy files of the repository, with   *)
(* their dates brought within two days.                                     *)
EXTENDS AgilePolicy

NoDates == [a \in Algs |-> Never]
Classical(day) == [a \in Algs |-> IF QuantumLevel[a] = 0 THEN day ELSE Never]

PolicyV3 ==
  [version |-> 3,
   preferred |-> [kind \in Kinds |-> IF kind = "kem"
                    THEN <<"X-Wing", "ML-KEM-768", "X25519">>
                    ELSE <<"ML-DSA-65", "Ed25519">>],
   floor |-> [kind \in Kinds |-> 0],
   warn_after |-> Classical(0), disallow_after |-> Classical(0),
   kill_switch |-> {}]

\* A peer that prefers the classical KEM, has no dates, and whose signature
\* floor forbids the classical fallback.
PeerMixed ==
  [PolicyV3 EXCEPT !.preferred = [kind \in Kinds |-> IF kind = "kem"
                      THEN <<"X25519", "ML-KEM-768">> ELSE <<"Ed25519", "ML-DSA-65">>],
                   !.floor = [kind \in Kinds |-> IF kind = "sig" THEN 1 ELSE 0],
                   !.warn_after = NoDates, !.disallow_after = NoDates]

MCDocs == {PolicyV3, PeerMixed}
==============================================================================
