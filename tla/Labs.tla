---------------------------------- MODULE Labs ----------------------------------
(***************************************************************************)
(* The labs whose programs are calculations, beside the two that keep      *)
(* something on disk or in the kernel between commands: the pre-shared key *)
(* rotation and the certificate hierarchy.  They share nothing, so that a  *)
(* behaviour is one of them: commands of the rotation, builds of the       *)
(* hierarchy, or one calculation on an input chosen from bounded sets.     *)
(***************************************************************************)
EXTENDS PskRotation, PkiLab, LmsSignature, Channel, P11Audit

CONSTANTS
  OtsTypes,    \* LM-OTS types keys are made with
  Texts,       \* messages, other than public keys
  Hashes,      \* byte strings whose digits are compared
  Tokens       \* what a PKCS#11 token may answer

ASSUME HashesAssumption == Hashes \subseteq [1 .. N -> 0 .. 255]
ASSUME TypesAssumption == /\ DOMAIN Height \subseteq Nat /\ DOMAIN Height # {}
                          /\ OtsTypes \subseteq DOMAIN Lmots /\ OtsTypes # {}

VARIABLE case  \* the input of the calculation, if one was chosen

labVars == <<pskVars, pkiVars, case>>

NoCase == [kind |-> "none"]

LabsInit == PskInit /\ PkiInit /\ case = NoCase

Choose(c) == case' = c /\ UNCHANGED <<pskVars, pkiVars>>

Untouched == case = NoCase /\ keys = 0 /\ build = 0

------------------------------------------------------------------------------
(* Key encapsulation: an exchange, and what arrives of it.  Private keys    *)
(* and ephemeral ones are names.                                            *)

Receivers  == {"r1", "r2"}
Ephemerals == {"e1", "e2"}

ChooseKem ==
  \E name \in Kem \cup {"hybrid"}, to \in Receivers, at \in Receivers, other \in Receivers,
     coins \in 1 .. 2, eph \in Ephemerals, transcript \in 1 .. 2 :
       Choose([kind |-> "kem", name |-> name, to |-> to, at |-> at, other |-> other,
               coins |-> coins, eph |-> eph, transcript |-> transcript])

\* The ephemeral X25519 key of a construction.
Eph(name, e) == IF name = "X-Wing" THEN <<e, "x">> ELSE e

\* The exchange is made to c.to with coins 1, e1 and transcript 1; what
\* arrives is put together from it and from one to c.other, and is opened by
\* c.at with c.transcript.
Made(c, to, coins, eph) ==
  IF c.name = "hybrid"
  THEN LET e == ServerEncaps(ClientKeygen(to, to).share, coins, eph, 1)
       IN  [ss |-> e.secret, ct |-> e.share]
  ELSE KemEncapsulate(c.name, KemPublic(c.name, to), coins, Eph(c.name, eph))

Arrived(c) ==
  LET other == Made(c, c.other, c.coins, "e1").ct
      last  == Made(c, c.other, c.coins, c.eph).ct
  IN  IF c.name \in {"hybrid", "X-Wing"} THEN <<other[1], last[2]>> ELSE last

Opened(c) ==
  IF c.name = "hybrid" THEN ClientDecaps(ClientKeygen(c.at, c.at), Arrived(c), c.transcript)
  ELSE KemDecapsulate(c.name, c.at, Arrived(c))

\* The toy KEM: a ciphertext whose body holds message m for a key under the pad
\* of r, with a tail; flip() makes such ones of what was encapsulated.
ChooseToy == \E at, pk, m, r, tail \in 1 .. 2 :
               Choose([kind |-> "toy", at |-> at, pk |-> pk, m |-> m, r |-> r, tail |-> tail])

\* Two channels of a process, and a message sealed in the one and opened in the
\* other.
ChooseChannel ==
  \E kem \in Kem, sig \in ChannelSigs, otherKem \in Kem, otherSession \in 1 .. 2, part \in {"pub", "ct", "none"} :
    Choose([kind |-> "channel", kem |-> kem, sig |-> sig, otherKem |-> otherKem,
            otherSession |-> otherSession, part |-> part])

------------------------------------------------------------------------------
(* LMS and HSS: a signature, and what is verified.                          *)

Alterations == {"none", "index", "path", "short", "randomizer", "type", "advanced"}

ChooseLms ==
  \E lms \in DOMAIN Height, ots \in OtsTypes, text \in Texts :
    \E q \in 0 .. Pow2[Height[lms]] - 1, other \in BOOLEAN, got \in Texts, how \in Alterations :
      Choose([kind |-> "lms", lms |-> lms, ots |-> ots, q |-> q, text |-> text,
              other |-> other, got |-> got, how |-> how])

LmsKey(c, name) == [NewKey(name, name, c.lms, c.ots) EXCEPT !.q = c.q]

Altered(key, c, sig) ==
  LET next == (c.q + 1) % Pow2[Height[c.lms]] IN
  CASE c.how = "none"       -> sig
    [] c.how = "index"      -> [sig EXCEPT !.q = next]
    [] c.how = "path"       -> [sig EXCEPT !.path = LmsSignWith(key, next, c.text, 1).path]
    [] c.how = "short"      -> [sig EXCEPT !.path = Front(@)]
    [] c.how = "randomizer" -> [sig EXCEPT !.ots.C = 2]
    [] c.how = "type"       -> [sig EXCEPT !.ots.type = IF @ = 4 THEN 3 ELSE 4]
    [] c.how = "advanced"   -> [sig EXCEPT !.ots.y[0] = Chain(@, <<key.I, c.q, 0>>, 0, 1)]

ChooseHss ==
  \E levels \in 1 .. 2, claimed \in 1 .. 2, swapped \in BOOLEAN, got \in Texts :
    Choose([kind |-> "hss", levels |-> levels, claimed |-> claimed, swapped |-> swapped,
            got |-> got])

HssKeys == [k \in 1 .. 3 |-> NewKey(k, k, Min(DOMAIN Height), Max(OtsTypes))]

\* A message signed by HSS keys 1 or 1 and 2; a swapped signature has key 3 in
\* the place of key 2, and its signature of the message.
HssCase(c) ==
  LET text   == CHOOSE t \in Texts : TRUE
      public == [k \in 1 .. 3 |-> HssKeys[k].public_key]
      signed == [key |-> IF c.swapped THEN public[3] ELSE public[2],
                 sig |-> SignNext(HssKeys[1], public[2], 1).sig]
      last   == IF c.levels = 1 THEN 1 ELSE IF c.swapped THEN 3 ELSE 2
  IN  [pub  |-> [L |-> c.claimed, key |-> public[1]],
       text |-> text,
       sig  |-> [signed |-> IF c.levels = 1 THEN <<>> ELSE <<signed>>,
                 sig    |-> SignNext(HssKeys[last], text, 1).sig]]

\* What the keys 1 to 3 sign, and that the hash has no collisions on it.
Messages == Texts \cup {HssKeys[k].public_key : k \in 1 .. 3}

ASSUME DigestAssumption ==
  \A I \in 1 .. 3, lms \in DOMAIN Height : \A q \in 0 .. Pow2[Height[lms]] - 1 :
    \A C, D \in 1 .. 2, m, n \in Messages :
      /\ Digest(I, q, C, m) \in [1 .. N -> 0 .. 255]
      /\ Digest(I, q, C, m) = Digest(I, q, D, n) => C = D /\ m = n

ChooseDigits == \E type \in DOMAIN Lmots, Q \in Hashes, R \in Hashes :
                  Q # R /\ Choose([kind |-> "digits", type |-> type, Q |-> Q, R |-> R])

------------------------------------------------------------------------------
(* ML-DSA, tokens and the audit.                                            *)

ChooseJws ==
  \E alg \in JwsAlgs, by \in JwsAlgs, other \in BOOLEAN, header \in JwsAlgs \cup {"none"},
     payload \in BOOLEAN :
       Choose([kind |-> "jws", alg |-> alg, by |-> by, other |-> other,
               header |-> header, payload |-> payload])

ChooseKms == \E bytes \in {4096, 4097}, reply \in [KmsCalls -> Replies], other \in BOOLEAN :
               Choose([kind |-> "kms", bytes |-> bytes, reply |-> reply, other |-> other])

ChooseToken == \E token \in Tokens : \E fails \in SUBSET {ValueOf("CKM_ML_KEM"), ValueOf("CKM_ECDSA")} :
                 Choose([kind |-> "token", token |-> token, fails |-> fails])

Calculate == \/ ChooseKem \/ ChooseToy \/ ChooseChannel \/ ChooseLms \/ ChooseHss \/ ChooseDigits
             \/ ChooseJws \/ ChooseKms \/ ChooseToken

LabsNext == \/ case = NoCase /\ build = 0 /\ PskNext /\ UNCHANGED <<pkiVars, case>>
            \/ case = NoCase /\ keys = 0 /\ PkiNext /\ UNCHANGED <<pskVars, case>>
            \/ Untouched /\ Calculate

LabsSpec == LabsInit /\ [][LabsNext]_labVars

------------------------------------------------------------------------------
(* Properties *)

\* Two ends hold one secret exactly when they should: the pre-shared keys of a
\* rotation, and every KEM, where a part of another exchange, another
\* recipient or another transcript always gives another secret and never an
\* error.  Both decapsulations of the toy KEM give the real key for what was
\* encapsulated to it and for nothing else.  A channel opens its own messages
\* and no other channel's.
SecretsAgreeExactly ==
  /\ PsksAgreeExactly
  /\ case.kind = "kem" =>
       LET made    == Made(case, case.to, 1, "e1")
           intact  == Arrived(case) = made.ct /\ case.at = case.to
           context == case.name = "hybrid" => case.transcript = 1
       IN  Opened(case) = made.ss <=> intact /\ context
  /\ case.kind = "toy" =>
       LET made == ToyEncapsulate(1, <<1>>)
           ct   == <<ToyMask(case.pk, <<case.m>>, <<"r", <<case.r>>>>), <<"r", <<case.tail>>>>>>
           real(ss) == \E m \in 1 .. 2 : LET e == ToyEncapsulate(case.at, <<m>>)
                                        IN  e.ct = ct /\ e.ss = ss
       IN  /\ real(DecapsLeaky(case.at, 3, ct)) <=> real(DecapsCt(case.at, 3, ct))
           /\ DecapsLeaky(case.at, 3, ct) = made.ss <=> case.at = 1 /\ ct = made.ct
           /\ DecapsCt(case.at, 3, ct) = made.ss <=> case.at = 1 /\ ct = made.ct
  /\ case.kind = "channel" =>
       LET one   == Establish(case.kem, case.sig, 1)
           other == Establish(case.otherKem, case.sig, case.otherSession)
       IN  /\ one.agreed
           /\ Opens(other, Seal(one, 1, "hello"))
                <=> case.otherKem = case.kem /\ case.otherSession = 1

\* A signature verifies for the message, the key and the index it was made
\* for, and nothing else does: another key or message, a path or an index of
\* another leaf, another randomizer or type, a chain hashed once more, a key of
\* the hierarchy in the place of another, a header or payload changed after
\* signing, a transcript of another session, a signature by another key of KMS.
\* A KMS session that returns has verified and scheduled its key for deletion; a
\* key it leaves behind is left because the call that makes it or the one that
\* schedules it failed, and not because anything else did.
VerifiesExactly ==
  CASE case.kind = "lms" ->
         LET key    == LmsKey(case, 1)
             sig    == SignNext(key, case.text, 1).sig
             got    == Altered(key, case, sig)
             public == IF case.other THEN LmsKey(case, 2).public_key ELSE key.public_key
         IN  LmsVerify(public, case.got, got)
               <=> ~case.other /\ case.got = case.text /\ got = sig
    [] case.kind = "hss" ->
         LET c == HssCase(case)
         IN  HssVerify(c.pub, case.got, c.sig)
               <=> /\ case.claimed = case.levels /\ case.got = c.text
                   /\ case.swapped => case.levels = 1
    [] case.kind = "jws" ->
         LET s     == Signer(case.alg, 1)
             token == Issue(s, "claims")
             got   == [token EXCEPT !.header.alg = case.header,
                                    !.payload = IF case.payload THEN @ ELSE "others"]
             jwk   == PublicJwk(Signer(case.by, IF case.other THEN 2 ELSE 1))
         IN  VerifyJws(jwk, got) <=> /\ case.by = case.alg /\ ~case.other
                                     /\ got = token
    [] case.kind = "channel" ->
         LET one    == Establish(case.kem, case.sig, 1)
             theirs == Establish(case.kem, case.sig, case.otherSession).transcript
             seen   == CASE case.part = "none" -> one.transcript
                         [] case.part = "pub"  -> [one.transcript EXCEPT ![2] = theirs[2]]
                         [] case.part = "ct"   -> [one.transcript EXCEPT ![3] = theirs[3]]
         IN  /\ one.signed
             /\ Verifies(one.sig_pub, one.transcript_sig, seen) <=> seen = one.transcript
    [] case.kind = "kms" ->
         LET key    == <<"ML-DSA-65", 1>>
             signer == IF case.other THEN <<"ML-DSA-65", 2>> ELSE key
             live   == Live(key, "artefact", case.bytes, case.reply, signer)
             failed == {c \in KmsCalls : case.reply[c] # "answered"}
         IN  /\ live.returned <=> failed = {} /\ ~case.other
             /\ live.returned => live.made /\ live.scheduled
             /\ live.made /\ ~live.scheduled
                  => failed \cap {"CreateKey", "ScheduleKeyDeletion"} # {}
             /\ MuOffload(key, "artefact")
    [] OTHER -> TRUE

\* Of two hashes, each has a digit below the other's, by the checksum: no
\* signature holds what another one with the same one-time key would need.
DigitsCross ==
  case.kind = "digits" =>
    LET a == Digits(case.Q, case.type)
        b == Digits(case.R, case.type)
    IN  /\ \E i \in DOMAIN a : a[i] < b[i]
        /\ \E i \in DOMAIN a : a[i] > b[i]

\* A token is ready exactly when it offers each required mechanism, under its
\* number in the header, with every flag required of it; what fails to answer
\* counts as without flags; the gap put to the vendor is what is lacking, and
\* the mock token lacks nothing.
AuditIsRight ==
  case.kind = "token" =>
    LET report == Finish(Rows(case.token, case.fails))
        offered(n) == IF ValueOf(n) \in DOMAIN case.token \ case.fails THEN case.token[ValueOf(n)]
                      ELSE {}
    IN  /\ report.verdict = "READY"
             <=> \A n \in DOMAIN Required : /\ ValueOf(n) \in DOMAIN case.token
                                            /\ Required[n] \subseteq offered(n)
        /\ report.verdict = "NOT PORTABLE" => \E v \in DOMAIN case.token : v >= VendorDefined
        /\ ExitCode(report) = 0 <=> report.verdict = "READY"
        /\ Gap(report) = {n \in DOMAIN Required : ~(Required[n] \subseteq offered(n))
                                                  \/ ValueOf(n) \notin DOMAIN case.token}
        /\ AuditMock = Finish(Rows(MockPqToken, {}))
        /\ AuditMock.verdict = "READY" /\ DOMAIN AuditMock.recommended = {}
==============================================================================
