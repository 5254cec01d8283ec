------------------------------ MODULE MCTestPlan ------------------------------
(* TestPlan, with the drill over every order of the KEMs, two floors, every   *)
(* kill switch of the post-quantum KEMs, and X25519 with and without a date,  *)
(* and with at most one source of the plan that is not good.                  *)
EXTENDS TestPlan, FiniteSets

Orders(S) == UNION {{s \in [1 .. n -> S] : Cardinality({s[i] : i \in 1 .. n}) = n}
                      : n \in 1 .. Cardinality(S)}

MCDocs ==
  {[version |-> 1,
    preferred |-> [kind \in Kinds |-> IF kind = "kem" THEN kems ELSE sigs],
    floor |-> [kind \in Kinds |-> floor],
    warn_after |-> [a \in Algs |-> Never],
    disallow_after |-> [a \in Algs |-> IF a = "X25519" THEN date ELSE Never],
    kill_switch |-> killed] :
      kems \in Orders(Available["kem"]),
      sigs \in {<<"ML-DSA-65", "Ed25519">>, <<"Ed25519">>},
      floor \in {0, 1},
      date \in {0, Never},
      killed \in SUBSET {"X-Wing", "ML-KEM-768"}}

AllGood == [s \in Sources |-> "good"]

MCEstates == {e \in {[AllGood EXCEPT ![s] = a] : s \in Sources, a \in Answers} :
                "absent" \notin {e["suites"], e["vectors"]}}
==============================================================================
