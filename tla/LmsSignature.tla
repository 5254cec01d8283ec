----------------------------- MODULE LmsSignature -----------------------------
(***************************************************************************)
(* labs/ch08/solution/lms.py without its state files: LM-OTS, the Merkle   *)
(* tree of LMS and the verification of HSS.                                *)
(*                                                                         *)
(* A hash is the tuple of what is hashed, so two hashes are equal only if  *)
(* their inputs are; the bytes of a message's hash, which are cut into     *)
(* digits, are those that Digest gives.                                    *)
(***************************************************************************)
EXTENDS Integers, Sequences, SequencesExt, FiniteSetsExt

CONSTANTS
  Height,             \* h of each LMS type; 5 to 25 in the code
  Digest(_, _, _, _)  \* the 32 bytes of the hash of I, q, C and a message

ASSUME HeightAssumption == \A t \in DOMAIN Height : Height[t] \in Nat \ {0}

\* LMOTS: the parameters of each LM-OTS type.
N == 32
Lmots == <<[w |-> 1, p |-> 265, ls |-> 7], [w |-> 2, p |-> 133, ls |-> 6],
           [w |-> 4, p |-> 67, ls |-> 4], [w |-> 8, p |-> 34, ls |-> 0]>>

\* 2 ** n
Pow2[n \in Nat] == IF n = 0 THEN 1 ELSE 2 * Pow2[n - 1]

------------------------------------------------------------------------------
(* LM-OTS *)

\* coef: the i-th w-bit digit of a byte string.
Coef(s, i, w) == (s[(i * w) \div 8 + 1] \div Pow2[8 - (w * (i % (8 \div w)) + w)]) % Pow2[w]

\* The sum of what the digits lack, byte by byte.
DigitSum(Q, w) ==
  LET perByte == 8 \div w
      lack(b) == MapThenSumSet(LAMBDA k : Pow2[w] - 1 - Coef(Q, b * perByte + k, w), 0 .. perByte - 1)
  IN  MapThenSumSet(lack, 0 .. Len(Q) - 1)

\* Mutant of Checksum: the sum is not shifted to the left of its two bytes.
ChecksumUnshifted(Q, w, ls) ==
  LET sum == DigitSum(Q, w)
  IN  <<(sum \div 256) % 256, sum % 256>>

\* checksum, two bytes.
Checksum(Q, w, ls) ==
  LET sum == DigitSum(Q, w)
  IN  <<((sum * Pow2[ls]) \div 256) % 256, (sum * Pow2[ls]) % 256>>

\* The digits of a hash and its checksum: how often each chain is hashed.
Digits(Q, type) ==
  LET o == Lmots[type]
      V == Q \o Checksum(Q, o.w, o.ls)
  IN  [i \in 0 .. o.p - 1 |-> Coef(V, i, o.w)]

\* A chain value: where it starts, and the runs of consecutive steps taken
\* from there, for j in range(a, b), with the tweak of each.
Start(seed, I, q, i) == [start |-> <<seed, I, q, i>>, runs |-> <<>>]

Chain(value, tweak, a, b) ==
  LET n == Len(value.runs) IN
  IF a = b THEN value
  ELSE IF n > 0 /\ value.runs[n].tweak = tweak /\ value.runs[n].to = a
       THEN [value EXCEPT !.runs[n].to = b]
       ELSE [value EXCEPT !.runs = Append(@, [tweak |-> tweak, from |-> a, to |-> b])]

OtsPrivate(seed, I, q, type) == [i \in 0 .. Lmots[type].p - 1 |-> Start(seed, I, q, i)]

OtsPublic(x, I, q, type) ==
  <<"pblc", I, q, [i \in DOMAIN x |-> Chain(x[i], <<I, q, i>>, 0, Pow2[Lmots[type].w] - 1)]>>

OtsSign(message, x, I, q, type, C) ==
  LET a == Digits(Digest(I, q, C, message), type)
  IN  [type |-> type, C |-> C, y |-> [i \in DOMAIN x |-> Chain(x[i], <<I, q, i>>, 0, a[i])]]

OtsPubkeyFromSig(message, sig, I, q) ==
  LET a == Digits(Digest(I, q, sig.C, message), sig.type)
  IN  <<"pblc", I, q, [i \in DOMAIN sig.y |->
                         Chain(sig.y[i], <<I, q, i>>, a[i], Pow2[Lmots[sig.type].w] - 1)]>>

------------------------------------------------------------------------------
(* LMS *)

Leaf(I, node, K) == <<"leaf", I, node, K>>
Interior(I, node, left, right) == <<"intr", I, node, left, right>>

\* lms_tree: the nodes 1 .. 2 ** (h + 1) - 1.
LmsTree(seed, I, lms, ots) ==
  LET leaves == Pow2[Height[lms]]
      T[r \in 1 .. 2 * leaves - 1] ==
        IF r >= leaves
        THEN Leaf(I, r, OtsPublic(OtsPrivate(seed, I, r - leaves, ots), I, r - leaves, ots))
        ELSE Interior(I, r, T[2 * r], T[2 * r + 1])
  IN  T

LmsPublicKey(lms, ots, I, root) == [lms |-> lms, ots |-> ots, I |-> I, root |-> root]

\* node ^ 1
Sibling(node) == IF node % 2 = 0 THEN node + 1 ELSE node - 1

LmsSignWith(key, q, message, C) ==
  LET leaf == Pow2[Height[key.lms]] + q
  IN  [q    |-> q,
       ots  |-> OtsSign(message, OtsPrivate(key.seed, key.I, q, key.ots), key.I, q, key.ots, C),
       lms  |-> key.lms,
       path |-> [k \in 1 .. Height[key.lms] |-> key.T[Sibling(leaf \div Pow2[k - 1])]]]

\* Mutants of LmsVerify: any index and any length of the path; no regard to
\* the side a node is on.
LmsVerifyLeft(pub, message, sig) ==
  /\ sig.lms = pub.lms /\ sig.ots.type = pub.ots
  /\ Len(sig.path) = Height[pub.lms] /\ sig.q < Pow2[Height[pub.lms]]
  /\ LET leaf    == Pow2[Height[pub.lms]] + sig.q
         up(tmp, k) == Interior(pub.I, leaf \div Pow2[k], tmp, sig.path[k])
     IN  FoldLeft(up, Leaf(pub.I, leaf, OtsPubkeyFromSig(message, sig.ots, pub.I, sig.q)),
                  [k \in DOMAIN sig.path |-> k]) = pub.root

\* lms_verify
LmsVerify(pub, message, sig) ==
  /\ sig.lms = pub.lms /\ sig.ots.type = pub.ots
  /\ Len(sig.path) = Height[pub.lms] /\ sig.q < Pow2[Height[pub.lms]]
  /\ LET leaf == Pow2[Height[pub.lms]] + sig.q
         up(tmp, k) == IF (leaf \div Pow2[k - 1]) % 2 = 0
                       THEN Interior(pub.I, leaf \div Pow2[k], tmp, sig.path[k])
                       ELSE Interior(pub.I, leaf \div Pow2[k], sig.path[k], tmp)
     IN  FoldLeft(up, Leaf(pub.I, leaf, OtsPubkeyFromSig(message, sig.ots, pub.I, sig.q)),
                  [k \in DOMAIN sig.path |-> k]) = pub.root

\* hss_verify: each key verifies the next one, the last one the message.
HssVerify(pub, message, sig) ==
  LET keys == <<pub.key>> \o [k \in DOMAIN sig.signed |-> sig.signed[k].key]
  IN  /\ Len(sig.signed) = pub.L - 1
      /\ \A k \in DOMAIN sig.signed : LmsVerify(keys[k], keys[k + 1], sig.signed[k].sig)
      /\ LmsVerify(Last(keys), message, sig.sig)

------------------------------------------------------------------------------
(* LmsPrivateKey *)

NewKey(seed, I, lms, ots) ==
  LET T == LmsTree(seed, I, lms, ots)
  IN  [seed |-> seed, I |-> I, lms |-> lms, ots |-> ots, q |-> 0, T |-> T,
       public_key |-> LmsPublicKey(lms, ots, I, T[1])]

Remaining(key) == Pow2[Height[key.lms]] - key.q

\* sign of a key that is not exhausted: the key after it and the signature.
SignNext(key, message, C) ==
  [key |-> [key EXCEPT !.q = @ + 1], sig |-> LmsSignWith(key, key.q, message, C)]

==============================================================================
