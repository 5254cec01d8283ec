-------------------------- MODULE SshObserverProofs ---------------------------
(***************************************************************************)
(* Theorems about SshObserver, for every offer of the two sides, every      *)
(* number of lines before the identification and every cut into chunks.    *)
(***************************************************************************)
EXTENDS SshObserver, SequenceTheorems, TLAPS

-------------------------------------------------------------------------------
(* The inductive invariant                                                  *)

Pcs == {"recv", "feed", "send", "ended"} \cup InKexinit
Outcomes == {"none", "report", "error", "killed", "exit 0", "exit 1", "row 0", "row 1"}

Types ==
  /\ pc \in [Sides -> Pcs]
  /\ sent \in [Sides -> Nat] /\ received \in [Sides -> Nat] /\ forwarded \in [Sides -> Nat]
  /\ parsed \in [Sides -> Nat] /\ counted \in [Sides -> Nat]
  /\ identDone \in [Sides -> BOOLEAN] /\ encrypted \in [Sides -> BOOLEAN]
  /\ side \in [Sides -> [Lists -> Seq(STRING)]]
  /\ DOMAIN negotiated = Lists /\ DOMAIN common = Sides
  /\ ephemeral \subseteq Sides /\ closed \subseteq Sides
  /\ recvs \in 0 .. MaxRecvs /\ outcome \in Outcomes
  /\ mode \in {"relay", "audit", "lab"}

\* The scripts never change.
ScriptOK ==
  /\ DOMAIN script = Sides
  /\ Lines("client") = 0
  /\ \A d \in Sides :
       /\ Lines(d) \in Nat /\ Len(script[d]) = Lines(d) + 5
       /\ DOMAIN script[d] = 1 .. Lines(d) + 5
       /\ \A i \in 1 .. Lines(d) : script[d][i] = "line"
       /\ script[d][Lines(d) + 1] = "ident"
       /\ script[d][Lines(d) + 2] = "kexinit"
       /\ script[d][Lines(d) + 3] = IF d = "client" THEN "init" ELSE "reply"
       /\ script[d][Lines(d) + 4] = "newkeys"
       /\ script[d][Lines(d) + 5] = "encrypted"

\* Nothing is read before it is sent, parsed or forwarded before it is read.
Ordered(d) == /\ forwarded[d] =< received[d] /\ received[d] =< sent[d]
              /\ sent[d] =< 2 * (Lines(d) + 5)
              /\ 2 * parsed[d] =< received[d]

\* Where the parser of direction d is in its stream.
Parser(d) ==
  /\ ~identDone[d] => /\ parsed[d] =< Lines(d) /\ counted[d] = 0 /\ ~encrypted[d]
                      /\ pc[d] \notin InKexinit
  /\ identDone[d] => /\ parsed[d] = Lines(d) + 1 + counted[d] /\ counted[d] =< 3
                     /\ encrypted[d] <=> counted[d] = 3
  /\ pc[d] \in InKexinit => counted[d] = 1
  /\ d \in ephemeral <=> counted[d] >= 2

Fed(d) == pc[d] \in {"recv", "send", "ended"}

\* Outside feed() the buffer holds no whole unit up to NEWKEYS, once the
\* identification is behind; before it, only if there is no line to drop.
Flushed(d) ==
  Fed(d) => /\ identDone[d] => received[d] < 2 * (parsed[d] + 1) \/ counted[d] = 3
            /\ ~identDone[d] /\ Lines(d) = 0 => received[d] < 2

\* What an endpoint has begun to send says what the relay has passed on to it.
Causal ==
  LET L == Lines("server") IN
  /\ sent["client"] > 4 => forwarded["server"] >= 2 * L + 4
  /\ sent["client"] > 6 => forwarded["server"] >= 2 * L + 6
  /\ sent["server"] > 2 * L + 4 => forwarded["client"] >= 6
  /\ sent["server"] > 2 * L + 8 => forwarded["client"] >= 8

\* How many chunks at least the first n half units of the server came in.
Chunks(n) == LET L == Lines("server") IN
             IF n >= 2 * L + 10 THEN 3 ELSE IF n >= 2 * L + 6 THEN 2
             ELSE IF n >= 2 * L + 4 THEN 1 ELSE 0

\* Each of those chunks has cost the parser a line it had not dropped.
Dropped ==
  ~identDone["server"] => /\ parsed["server"] >= Chunks(forwarded["server"])
                          /\ pc["server"] = "send" =>
                               parsed["server"] >= Chunks(received["server"])

\* What has been passed on has been parsed.
Passed ==
  /\ \A d \in Sides : Lines(d) = 0 => /\ forwarded[d] >= 6 => counted[d] >= 2
                                      /\ forwarded[d] >= 8 => counted[d] = 3
  /\ Lines("server") =< 2 /\ forwarded["server"] >= 2 * Lines("server") + 10 =>
       counted["server"] = 3

\* The lists of a side are its offer from the moment they are assigned.
Past(d) == counted[d] > 0 /\ pc[d] \notin {"kex", "hostkey", "bothSeen"}
Negotiating(d) == pc[d] \in {"negotiateKex", "negotiateHostkey", "storeHostkey", "level"}

ListsOK(d) ==
  /\ side[d]["kex"] = IF counted[d] > 0 /\ pc[d] # "kex" THEN Offer[d]["kex"] ELSE Empty
  /\ side[d]["hostkey"] = IF counted[d] > 0 /\ pc[d] \notin {"kex", "hostkey"}
                            THEN Offer[d]["hostkey"] ELSE Empty

\* Whoever negotiates has both lists, and the last of the two to get past its
\* KEXINIT negotiates.
KexOK ==
  /\ \A d \in Sides :
       /\ Negotiating(d) => \A e \in Sides : side[e]["kex"] = Offer[e]["kex"]
       /\ Negotiating(d) /\ pc[d] # "negotiateKex" => negotiated["kex"] = Agreed("kex")
  /\ (\A d \in Sides : Past(d) /\ ~Negotiating(d)) =>
       negotiated["kex"] = Agreed("kex") /\ level = (Agreed("kex") \in PqKex)

\* The audit has one parser, and fails only before a KEXINIT it could parse.
Audited ==
  /\ mode = "audit" => /\ pc["client"] = "ended"
                       /\ recvs = 0 => received["server"] = 0
  /\ outcome = "error" => /\ pc["server"] = "ended" /\ side["server"]["kex"] = Empty
                          /\ Lines("server") = 0 => received["server"] < 4
  /\ outcome \in {"exit 0", "row 0"} => forwarded["server"] >= 2 * Lines("server") + 10

SInv == /\ Types /\ ScriptOK
        /\ \A d \in Sides : Ordered(d) /\ Parser(d) /\ Flushed(d) /\ ListsOK(d)
        /\ Causal /\ Dropped /\ Passed /\ KexOK /\ Audited

\* A script: the lines, then the identification and what follows it.
LEMMA ScriptShape ==
  ASSUME NEW d \in Sides, NEW lines \in Nat
  PROVE  LET s == Script(d, lines) IN
         /\ Len(s) = lines + 5 /\ DOMAIN s = 1 .. lines + 5
         /\ \A i \in 1 .. lines : s[i] = "line"
         /\ s[lines + 1] = "ident" /\ s[lines + 2] = "kexinit"
         /\ s[lines + 3] = IF d = "client" THEN "init" ELSE "reply"
         /\ s[lines + 4] = "newkeys" /\ s[lines + 5] = "encrypted"
<1> DEFINE half == IF d = "client" THEN "init" ELSE "reply"
           Units == {"line", "ident", "kexinit", half, "newkeys", "encrypted"}
           a == [i \in 1 .. lines |-> "line"]
           b == <<"ident", "kexinit", half, "newkeys", "encrypted">>
           s == Script(d, lines)
<1>1. a \in Seq(Units) /\ Len(a) = lines /\ \A i \in 1 .. lines : a[i] = "line"
  <2>1. a \in [1 .. lines -> Units]
    OBVIOUS
  <2> QED  BY <2>1
<1>2. /\ b \in Seq(Units) /\ Len(b) = 5 /\ b[1] = "ident" /\ b[2] = "kexinit"
      /\ b[3] = half /\ b[4] = "newkeys" /\ b[5] = "encrypted"
  <2> HIDE DEF half
  <2> QED  OBVIOUS
<1>3. s = a \o b
  BY DEF Script
<1> HIDE DEF a, b, Units, s
<1>4. /\ Len(a \o b) = lines + 5 /\ a \o b \in Seq(Units)
      /\ \A i \in 1 .. lines + 5 : (a \o b)[i] = IF i =< lines THEN a[i] ELSE b[i - lines]
  <2>1. /\ Len(a \o b) = Len(a) + Len(b) /\ a \o b \in Seq(Units)
        /\ \A i \in 1 .. Len(a) + Len(b) : (a \o b)[i] = IF i =< Len(a) THEN a[i] ELSE b[i - Len(a)]
    BY <1>1, <1>2, ConcatProperties, ZenonT(60)
  <2> QED  BY <2>1, <1>1, <1>2
<1>5. DOMAIN s = 1 .. lines + 5 /\ Len(s) = lines + 5
  BY <1>3, <1>4
<1>6. \A i \in 1 .. lines : s[i] = "line"
  <2> TAKE i \in 1 .. lines
  <2>1. i \in 1 .. lines + 5 /\ i =< lines
    OBVIOUS
  <2> QED  BY <2>1, <1>1, <1>3, <1>4
<1>7. \A k \in 1 .. 5 : s[lines + k] = b[k]
  <2> TAKE k \in 1 .. 5
  <2>1. lines + k \in 1 .. lines + 5 /\ ~(lines + k =< lines) /\ (lines + k) - lines = k
    OBVIOUS
  <2> QED  BY <2>1, <1>3, <1>4
<1> QED  BY <1>2, <1>5, <1>6, <1>7 DEF s

\* Nothing was sent, observed or negotiated.
LEMMA InitInv == Init => SInv
<1> SUFFICES ASSUME Init  PROVE SInv
  OBVIOUS
<1>1. PICK lines \in 0 .. MaxLines :
        script = [d \in Sides |-> Script(d, IF d = "server" THEN lines ELSE 0)]
  BY DEF Init
<1>2. lines \in Nat /\ "client" \in Sides /\ "server" \in Sides
  BY BoundsAssumption DEF Sides
<1>3. ScriptOK
  <2> SUFFICES ASSUME NEW d \in Sides
               PROVE  /\ d = "client" => Lines(d) = 0
                      /\ Lines(d) \in Nat /\ Len(script[d]) = Lines(d) + 5
                      /\ DOMAIN script[d] = 1 .. Lines(d) + 5
                      /\ \A i \in 1 .. Lines(d) : script[d][i] = "line"
                      /\ script[d][Lines(d) + 1] = "ident"
                      /\ script[d][Lines(d) + 2] = "kexinit"
                      /\ script[d][Lines(d) + 3] = IF d = "client" THEN "init" ELSE "reply"
                      /\ script[d][Lines(d) + 4] = "newkeys"
                      /\ script[d][Lines(d) + 5] = "encrypted"
    BY <1>1, <1>2 DEF ScriptOK
  <2> DEFINE n == IF d = "server" THEN lines ELSE 0
  <2>1. script[d] = Script(d, n) /\ n \in Nat /\ (d = "client" => n = 0)
    BY <1>1, <1>2
  <2> HIDE DEF n
  <2>2. /\ Len(script[d]) = n + 5 /\ DOMAIN script[d] = 1 .. n + 5
        /\ \A i \in 1 .. n : script[d][i] = "line"
        /\ script[d][n + 1] = "ident" /\ script[d][n + 2] = "kexinit"
        /\ script[d][n + 3] = IF d = "client" THEN "init" ELSE "reply"
        /\ script[d][n + 4] = "newkeys" /\ script[d][n + 5] = "encrypted"
    <3>1. LET t == Script(d, n) IN
          /\ Len(t) = n + 5 /\ DOMAIN t = 1 .. n + 5
          /\ \A i \in 1 .. n : t[i] = "line"
          /\ t[n + 1] = "ident" /\ t[n + 2] = "kexinit"
          /\ t[n + 3] = IF d = "client" THEN "init" ELSE "reply"
          /\ t[n + 4] = "newkeys" /\ t[n + 5] = "encrypted"
      BY <2>1, ScriptShape, Zenon
    <3> QED  BY <2>1, <3>1, Zenon
  <2>3. Lines(d) = n
    BY <2>1, <2>2 DEF Lines
  <2> QED  BY <2>1, <2>2, <2>3
<1>4. Types
  <2>1. Empty \in Seq(STRING)
    BY DEF Empty
  <2> QED  BY <2>1, BoundsAssumption DEF Init, Types, Pcs, Outcomes, Sides
<1>5. \A d \in Sides : Ordered(d) /\ Parser(d) /\ Flushed(d) /\ ListsOK(d)
  <2> SUFFICES ASSUME NEW d \in Sides
               PROVE  Ordered(d) /\ Parser(d) /\ Flushed(d) /\ ListsOK(d)
    OBVIOUS
  <2>1. Ordered(d) /\ Parser(d) /\ Flushed(d)
    BY <1>3 DEF Init, ScriptOK, Ordered, Parser, Flushed, InKexinit
  <2>2. ListsOK(d)
    BY DEF Init, ListsOK, Lists
  <2> QED  BY <2>1, <2>2
<1>6. Causal /\ Dropped /\ Passed
  <2>1. /\ Lines("server") \in Nat /\ parsed["server"] = 0
        /\ \A d \in Sides : sent[d] = 0 /\ received[d] = 0 /\ forwarded[d] = 0
    BY <1>2, <1>3 DEF Init, ScriptOK
  <2>2. Chunks(0) = 0
    BY <2>1 DEF Chunks
  <2>3. Dropped
    BY <1>2, <2>1, <2>2 DEF Dropped
  <2> QED  BY <1>2, <2>1, <2>3 DEF Causal, Passed
<1>7. KexOK
  BY <1>2 DEF Init, KexOK, Past, Negotiating
<1>8. Audited
  BY <1>2 DEF Init, Audited, Sides
<1> QED  BY <1>3, <1>4, <1>5, <1>6, <1>7, <1>8 DEF SInv

\* The sides are two.
LEMMA TwoSides ==
  /\ Sides = {"client", "server"} /\ "client" \in Sides /\ "server" \in Sides
  /\ Other("client") = "server" /\ Other("server") = "client"
BY DEF Sides, Other

\* What no step changes.
LEMMA ScriptFrame ==
  ASSUME SInv, UNCHANGED <<mode, script>>
  PROVE  ScriptOK' /\ \A d \in Sides : Lines(d)' = Lines(d) /\ Lines(d) \in Nat
BY DEF SInv, ScriptOK, Lines

\* A direction whose own state a step leaves alone.
LEMMA Bystander ==
  ASSUME SInv, NEW e \in Sides,
         Lines(e)' = Lines(e), sent'[e] = sent[e], pc'[e] = pc[e], received'[e] = received[e],
         forwarded'[e] = forwarded[e], parsed'[e] = parsed[e], identDone'[e] = identDone[e],
         encrypted'[e] = encrypted[e], counted'[e] = counted[e], side'[e] = side[e],
         e \in ephemeral' <=> e \in ephemeral
  PROVE  Ordered(e)' /\ Parser(e)' /\ Flushed(e)' /\ ListsOK(e)'
<1>1. Ordered(e) /\ Parser(e) /\ Flushed(e) /\ ListsOK(e)
  BY DEF SInv
<1> QED  BY <1>1 DEF Ordered, Parser, Flushed, ListsOK, Fed

\* Where a unit is in the stream of the peer.
LEMMA ArrivedAt ==
  ASSUME SInv, NEW d \in Sides, NEW m, Arrived(d, m)
  PROVE  LET e == Other(d)  L == Lines(Other(d)) IN
         /\ m = "kexinit" => forwarded[e] >= 2 * L + 4
         /\ m \in {"init", "reply"} => forwarded[e] >= 2 * L + 6
         /\ m = "newkeys" => forwarded[e] >= 2 * L + 8
         /\ m = "encrypted" => forwarded[e] >= 2 * L + 10
<1> DEFINE e == Other(d)  L == Lines(e)
<1>1. e \in Sides
  BY TwoSides
<1>2. PICK n \in DOMAIN script[e] : script[e][n] = m /\ forwarded[e] >= 2 * n
  BY DEF Arrived
<1>3. /\ L \in Nat /\ n \in 1 .. L + 5 /\ forwarded[e] \in Nat
      /\ n \in 1 .. L => script[e][n] = "line"
      /\ n = L + 1 => script[e][n] = "ident"
      /\ n = L + 2 => script[e][n] = "kexinit"
      /\ n = L + 3 => script[e][n] \in {"init", "reply"}
      /\ n = L + 4 => script[e][n] = "newkeys"
      /\ n = L + 5 => script[e][n] = "encrypted"
  <2>1. /\ L \in Nat /\ DOMAIN script[e] = 1 .. L + 5
        /\ \A i \in 1 .. L : script[e][i] = "line"
        /\ script[e][L + 1] = "ident" /\ script[e][L + 2] = "kexinit"
        /\ script[e][L + 3] \in {"init", "reply"}
        /\ script[e][L + 4] = "newkeys" /\ script[e][L + 5] = "encrypted"
    BY <1>1, SMTT(60) DEF SInv, ScriptOK
  <2>2. forwarded[e] \in Nat
    BY <1>1 DEF SInv, Types
  <2> HIDE DEF e, L
  <2> QED  BY <1>2, <2>1, <2>2
<1> HIDE DEF e, L
<1>4. n \in 1 .. L \/ n = L + 1 \/ n = L + 2 \/ n = L + 3 \/ n = L + 4 \/ n = L + 5
  BY <1>3
<1>5. /\ m = "kexinit" => forwarded[e] >= 2 * L + 4
      /\ m \in {"init", "reply"} => forwarded[e] >= 2 * L + 6
      /\ m = "newkeys" => forwarded[e] >= 2 * L + 8
      /\ m = "encrypted" => forwarded[e] >= 2 * L + 10
  BY <1>2, <1>3, <1>4
<1> QED  BY <1>5 DEF e, L

\* An endpoint's unit under way, and what it waited for.
LEMMA SendHalfInv ==
  ASSUME SInv, NEW d \in Sides, SendHalf(d)
  PROVE  SInv'
<1>1. /\ sent[d] < 2 * (Lines(d) + 5) /\ sent' = [sent EXCEPT ![d] = @ + 1]
      /\ MaySend(d, script[d][sent[d] \div 2 + 1])
      /\ UNCHANGED <<mode, script, closed, pc, received, forwarded, parsed, identDone, encrypted,
                     counted, side, negotiated, level, ephemeral, common, recvs, outcome>>
  BY DEF SendHalf, parsers, summary, audit, End, SInv, ScriptOK
<1>2. ScriptOK' /\ \A e \in Sides : Lines(e)' = Lines(e) /\ Lines(e) \in Nat
  BY <1>1, ScriptFrame
<1>3. Types'
  BY <1>1, SMTT(60) DEF SInv, Types
<1>4. ASSUME NEW e \in Sides
      PROVE  Ordered(e)' /\ Parser(e)' /\ Flushed(e)' /\ ListsOK(e)'
  <2>1. CASE e # d
    <3>1. sent'[e] = sent[e]
      BY <1>1, <2>1 DEF SInv, Types
    <3> QED  BY <1>1, <1>2, <3>1, Bystander
  <2>2. CASE e = d
    <3>1. Ordered(d)'
      <4>1. Ordered(d) /\ sent[d] \in Nat /\ received[d] \in Nat /\ sent'[d] = sent[d] + 1
        BY <1>1 DEF SInv, Types
      <4>2. received' = received /\ forwarded' = forwarded /\ parsed' = parsed
        BY <1>1
      <4> QED  BY <1>1, <1>2, <4>1, <4>2 DEF Ordered
    <3>2. Parser(d)'
      BY <1>1, <1>2 DEF SInv, Parser
    <3>3. Flushed(d)' /\ ListsOK(d)'
      BY <1>1, <1>2 DEF SInv, Flushed, ListsOK, Fed
    <3> QED  BY <2>2, <3>1, <3>2, <3>3
  <2> QED  BY <2>1, <2>2
<1>5. Dropped' /\ Passed' /\ Audited' /\ KexOK'
  <2>1. Lines("server")' = Lines("server")
    BY <1>2, TwoSides
  <2>2. Dropped' /\ Audited'
    BY <1>1, <2>1 DEF SInv, Dropped, Audited, Chunks
  <2>3. Passed'
    BY <1>1, <1>2, <2>1 DEF SInv, Passed
  <2>4. KexOK'
    BY <1>1 DEF SInv, KexOK, Past, Negotiating
  <2> QED  BY <2>2, <2>3, <2>4
<1>6. Causal'
  <2> DEFINE L == Lines("server")
             unit == script[d][sent[d] \div 2 + 1]
  <2>1. /\ Causal /\ L \in Nat /\ L' = L /\ forwarded' = forwarded
        /\ sent \in [Sides -> Nat] /\ Lines("client") = 0
    BY <1>1, <1>2, TwoSides DEF SInv, Types, ScriptOK
  <2>2. CASE d = "client"
    <3>1. sent'["client"] = sent["client"] + 1 /\ sent'["server"] = sent["server"]
      BY <1>1, <2>1, <2>2, TwoSides
    <3>2. sent["client"] = 4 => forwarded["server"] >= 2 * L + 4
      <4> SUFFICES ASSUME sent["client"] = 4  PROVE forwarded["server"] >= 2 * L + 4
        OBVIOUS
      <4>1. 4 \div 2 + 1 = 3 /\ script["client"][3] = "init"
        BY <2>1, TwoSides, SMTT(60) DEF SInv, ScriptOK
      <4>2. Arrived("client", "kexinit")
        BY <1>1, <2>2, <4>1 DEF MaySend
      <4> QED  BY <4>2, ArrivedAt, TwoSides
    <3>3. sent["client"] = 6 => forwarded["server"] >= 2 * L + 6
      <4> SUFFICES ASSUME sent["client"] = 6  PROVE forwarded["server"] >= 2 * L + 6
        OBVIOUS
      <4>1. 6 \div 2 + 1 = 4 /\ script["client"][4] = "newkeys"
        BY <2>1, TwoSides, SMTT(60) DEF SInv, ScriptOK
      <4>2. Arrived("client", "reply")
        BY <1>1, <2>2, <4>1 DEF MaySend
      <4> QED  BY <4>2, ArrivedAt, TwoSides
    <3>4. sent["client"] \in Nat
      BY <2>1, TwoSides
    <3> HIDE DEF L
    <3> QED  BY <2>1, <3>1, <3>2, <3>3, <3>4 DEF Causal, L
  <2>3. CASE d = "server"
    <3>1. sent'["server"] = sent["server"] + 1 /\ sent'["client"] = sent["client"]
      BY <1>1, <2>1, <2>3, TwoSides
    <3>2. sent["server"] = 2 * L + 4 => forwarded["client"] >= 6
      <4> SUFFICES ASSUME sent["server"] = 2 * L + 4  PROVE forwarded["client"] >= 6
        OBVIOUS
      <4>1. (2 * L + 4) \div 2 + 1 = L + 3 /\ script["server"][L + 3] = "reply"
        BY <2>1, TwoSides, SMTT(60) DEF SInv, ScriptOK
      <4>2. Arrived("server", "init")
        BY <1>1, <2>3, <4>1 DEF MaySend
      <4> QED  BY <2>1, <4>2, ArrivedAt, TwoSides
    <3>3. sent["server"] = 2 * L + 8 => forwarded["client"] >= 8
      <4> SUFFICES ASSUME sent["server"] = 2 * L + 8  PROVE forwarded["client"] >= 8
        OBVIOUS
      <4>1. (2 * L + 8) \div 2 + 1 = L + 5 /\ script["server"][L + 5] = "encrypted"
        BY <2>1, TwoSides, SMTT(60) DEF SInv, ScriptOK
      <4>2. Arrived("server", "newkeys")
        BY <1>1, <2>3, <4>1 DEF MaySend
      <4> QED  BY <2>1, <4>2, ArrivedAt, TwoSides
    <3>4. sent["server"] \in Nat
      BY <2>1, TwoSides
    <3> HIDE DEF L
    <3> QED  BY <2>1, <3>1, <3>2, <3>3, <3>4 DEF Causal, L
  <2> QED  BY <2>2, <2>3, TwoSides
<1> QED  BY <1>2, <1>3, <1>4, <1>5, <1>6 DEF SInv

\* What a step that leaves the streams, the parsers and the Summary alone keeps.
LEMMA StreamsKept ==
  ASSUME SInv, UNCHANGED <<mode, script, sent, received, forwarded, parsed, identDone, encrypted,
                           counted, side, negotiated, level, ephemeral, common>>
  PROVE  /\ ScriptOK' /\ Causal' /\ Passed'
         /\ \A e \in Sides : /\ Lines(e)' = Lines(e) /\ Ordered(e)'
                             /\ pc'[e] = pc[e] => Parser(e)' /\ Flushed(e)' /\ ListsOK(e)'
<1>1. ScriptOK' /\ \A e \in Sides : Lines(e)' = Lines(e)
  BY ScriptFrame
<1>2. Causal' /\ Passed'
  BY <1>1, TwoSides DEF SInv, Causal, Passed
<1>3. ASSUME NEW e \in Sides
      PROVE  /\ Lines(e)' = Lines(e) /\ Ordered(e)'
             /\ pc'[e] = pc[e] => Parser(e)' /\ Flushed(e)' /\ ListsOK(e)'
  <2>1. pc'[e] = pc[e] => Parser(e)' /\ Flushed(e)' /\ ListsOK(e)'
    BY <1>1, Bystander
  <2>2. Ordered(e)'
    BY <1>1 DEF SInv, Ordered
  <2> QED  BY <1>1, <2>1, <2>2
<1> QED  BY <1>1, <1>2, <1>3

\* A direction ends.
LEMMA EndedInv ==
  ASSUME SInv, NEW d \in Sides, pc[d] \in {"recv", "send"}, Goto(d, "ended"),
         UNCHANGED <<endpoints, received, forwarded, parsers, summary, common, recvs>>,
         outcome' \in Outcomes, Audited'
  PROVE  SInv'
<1>1. UNCHANGED <<mode, script, sent, closed, received, forwarded, parsed, identDone, encrypted,
                  counted, side, negotiated, level, ephemeral, common, recvs>>
  BY DEF endpoints, parsers, summary
<1>2. pc \in [Sides -> Pcs] /\ pc' = [pc EXCEPT ![d] = "ended"]
  BY DEF SInv, Types, Goto
<1>3. /\ ScriptOK' /\ Causal' /\ Passed'
      /\ \A e \in Sides : /\ Lines(e)' = Lines(e) /\ Ordered(e)'
                          /\ pc'[e] = pc[e] => Parser(e)' /\ Flushed(e)' /\ ListsOK(e)'
  BY <1>1, StreamsKept
<1>4. Types'
  BY <1>1, <1>2 DEF SInv, Types, Pcs
<1>5. ASSUME NEW e \in Sides
      PROVE  Parser(e)' /\ Flushed(e)' /\ ListsOK(e)'
  <2>1. CASE e # d
    BY <1>2, <1>3, <2>1
  <2>2. CASE e = d
    <3>1. pc'[d] = "ended" /\ Fed(d) /\ pc[d] \notin InKexinit
      BY <1>2 DEF Fed, InKexinit
    <3>2. Parser(d) /\ Flushed(d) /\ ListsOK(d) /\ Lines(d)' = Lines(d)
      BY <1>3 DEF SInv
    <3>3. Parser(d)'
      BY <1>1, <3>1, <3>2 DEF Parser, InKexinit
    <3>4. Flushed(d)' /\ ListsOK(d)'
      BY <1>1, <3>1, <3>2 DEF Flushed, ListsOK, Fed, InKexinit
    <3> QED  BY <2>2, <3>3, <3>4
  <2> QED  BY <2>1, <2>2
<1>6. Dropped'
  BY <1>1, <1>2, <1>3, TwoSides DEF SInv, Dropped, Chunks
<1>7. KexOK'
  <2>1. \A e \in Sides : /\ Past(e)' <=> Past(e)
                         /\ Negotiating(e)' <=> Negotiating(e)
                         /\ Negotiating(e)' => pc'[e] = pc[e]
    BY <1>1, <1>2 DEF Past, Negotiating
  <2>2. UNCHANGED <<side, negotiated, level>>
    BY <1>1
  <2>3. KexOK
    BY DEF SInv
  <2> QED  BY <2>1, <2>2, <2>3 DEF KexOK
<1> QED  BY <1>3, <1>4, <1>5, <1>6, <1>7 DEF SInv

\* A side that stops receiving disturbs nothing that was observed.
LEMMA StopReceivingInv ==
  ASSUME SInv, NEW d \in Sides, StopReceiving(d)
  PROVE  SInv'
<1>1. Goto(d, "ended") /\ pc[d] = "recv" /\ mode # "audit"
  BY DEF StopReceiving
<1>2. UNCHANGED <<endpoints, received, forwarded, parsers, summary, common, recvs, outcome>>
  BY DEF StopReceiving, audit
<1>3. UNCHANGED <<mode, script, received, forwarded, side>>
  BY <1>2 DEF endpoints, summary
<1>4. Audited' /\ outcome' \in Outcomes
  BY <1>1, <1>2, <1>3, TwoSides DEF SInv, Types, Audited, Goto, Lines
<1> QED  BY <1>1, <1>2, <1>4, EndedInv

\* A send that fails ends a direction and disturbs nothing that was observed.
LEMMA SendFailsInv ==
  ASSUME SInv, NEW d \in Sides, SendFails(d)
  PROVE  SInv'
<1>1. Goto(d, "ended") /\ pc[d] = "send"
  BY DEF SendFails
<1>2. UNCHANGED <<endpoints, received, forwarded, parsers, summary, common, recvs, outcome>>
  BY DEF SendFails, audit
<1>3. UNCHANGED <<mode, script, received, forwarded, side>>
  BY <1>2 DEF endpoints, summary
<1>4. Audited' /\ outcome' \in Outcomes
  BY <1>1, <1>2, <1>3, TwoSides DEF SInv, Types, Audited, Goto, Lines
<1> QED  BY <1>1, <1>2, <1>4, EndedInv

\* The audit ends on the server's direction; the error row means that no
\* KEXINIT was there to be parsed.
LEMMA AuditEndInv ==
  ASSUME SInv, NEW d \in Sides, AuditReports(d) \/ AuditFails(d)
  PROVE  SInv'
<1>1. /\ Goto(d, "ended") /\ pc[d] = "recv" /\ mode = "audit"
      /\ outcome' \in {"report", "error"}
      /\ UNCHANGED <<endpoints, received, forwarded, parsers, summary, common, recvs>>
  BY DEF AuditReports, AuditFails, AuditEnd
<1>2. UNCHANGED <<mode, script, received, forwarded, side>>
  BY <1>1 DEF endpoints, summary
<1>3. d = "server" /\ pc' = [pc EXCEPT ![d] = "ended"] /\ pc \in [Sides -> Pcs]
  BY <1>1, TwoSides DEF SInv, Types, Audited, Goto
<1>4. outcome' = "error" => /\ side["server"]["kex"] = Empty
                            /\ Lines("server") = 0 => received["server"] < 4
  <2> SUFFICES ASSUME outcome' = "error"
               PROVE  /\ side["server"]["kex"] = Empty
                      /\ Lines("server") = 0 => received["server"] < 4
    OBVIOUS
  <2>1. recvs = 0 \/ Looping
    BY DEF AuditReports, AuditFails, AuditEnd
  <2>2. /\ Ordered(d) /\ Parser(d) /\ Flushed(d) /\ ListsOK(d)
        /\ Lines(d) \in Nat /\ parsed[d] \in Nat /\ counted[d] \in Nat /\ received[d] \in Nat
        /\ identDone[d] \in BOOLEAN
    BY DEF SInv, Types, ScriptOK
  <2>3. counted[d] = 0
    <3>1. CASE recvs = 0
      <4>1. received[d] = 0
        BY <1>1, <1>3, <3>1 DEF SInv, Audited
      <4> QED  BY <2>2, <4>1 DEF Ordered, Parser
    <3>2. CASE Looping
      <4>1. side[d]["kex"] = Empty /\ Offer[d]["kex"] # Empty
        BY <1>3, <3>2, OfferAssumption DEF Looping, Lists, Empty
      <4> QED  BY <1>1, <2>2, <4>1 DEF ListsOK
    <3> QED  BY <2>1, <3>1, <3>2
  <2>4. side[d]["kex"] = Empty
    BY <2>2, <2>3 DEF ListsOK
  <2>5. Lines(d) = 0 => received[d] < 4
    BY <1>1, <2>2, <2>3 DEF Parser, Flushed, Fed
  <2> QED  BY <1>3, <2>4, <2>5
<1>5. pc'["server"] = "ended" /\ pc'["client"] = pc["client"]
  BY <1>3, TwoSides
<1>6. UNCHANGED <<recvs, side, received>> /\ Lines("server")' = Lines("server")
  BY <1>1, <1>2 DEF Lines
<1>7. Audited'
  BY <1>1, <1>2, <1>4, <1>5, <1>6 DEF SInv, Audited
<1>8. outcome' \in Outcomes /\ pc[d] \in {"recv", "send"}
  BY <1>1 DEF Outcomes
<1> QED  BY <1>1, <1>7, <1>8, EndedInv

\* An endpoint closes; ssh exits with 0 only after an encrypted answer.
LEMMA CloseInv ==
  ASSUME SInv, NEW d \in Sides, Close(d)
  PROVE  SInv'
<1>1. /\ UNCHANGED <<mode, script, sent, pc, received, forwarded, parsed, identDone, encrypted,
                     counted, side, negotiated, level, ephemeral, common, recvs>>
      /\ closed' = closed \cup {d}
      /\ outcome' \in Exits \/ outcome' = outcome
  BY DEF Close, parsers, summary
<1>2. /\ ScriptOK' /\ Causal' /\ Passed'
      /\ \A e \in Sides : /\ Lines(e)' = Lines(e) /\ Ordered(e)'
                          /\ Parser(e)' /\ Flushed(e)' /\ ListsOK(e)'
  BY <1>1, StreamsKept
<1>3. Types'
  BY <1>1 DEF SInv, Types, Exits, Outcomes
<1>4. Dropped' /\ KexOK'
  BY <1>1, <1>2, TwoSides DEF SInv, Dropped, Chunks, KexOK, Past, Negotiating
<1>5. outcome' = "exit 0" /\ outcome # "exit 0" =>
        forwarded["server"] >= 2 * Lines("server") + 10
  <2> SUFFICES ASSUME outcome' = "exit 0", outcome # "exit 0"
               PROVE  forwarded["server"] >= 2 * Lines("server") + 10
    OBVIOUS
  <2>1. Arrived("client", "encrypted")
    BY <1>1 DEF Exits
  <2> QED  BY <2>1, ArrivedAt, TwoSides
<1>6. Audited'
  <2>1. Lines("server")' = Lines("server")
    BY <1>2, TwoSides
  <2>2. outcome' # outcome => outcome' \in {"exit 0", "exit 1", "killed"}
    BY <1>1 DEF Exits
  <2>3. Audited
    BY DEF SInv
  <2> QED  BY <1>1, <1>5, <2>1, <2>2, <2>3 DEF Audited
<1> QED  BY <1>2, <1>3, <1>4, <1>6 DEF SInv

\* The row keeps what the exit code said.
LEMMA LabRowInv ==
  ASSUME SInv, LabRow
  PROVE  SInv'
<1>1. /\ UNCHANGED <<mode, script, sent, closed, pc, received, forwarded, parsed, identDone,
                     encrypted, counted, side, negotiated, level, ephemeral, common, recvs>>
      /\ outcome' \in {"row 0", "row 1"}
      /\ outcome' = "row 0" => outcome = "exit 0"
  BY DEF LabRow, endpoints, parsers, summary
<1>2. /\ ScriptOK' /\ Causal' /\ Passed'
      /\ \A e \in Sides : /\ Lines(e)' = Lines(e) /\ Ordered(e)'
                          /\ Parser(e)' /\ Flushed(e)' /\ ListsOK(e)'
  BY <1>1, StreamsKept
<1>3. Types'
  BY <1>1 DEF SInv, Types, Outcomes
<1>4. Dropped' /\ KexOK'
  BY <1>1, <1>2, TwoSides DEF SInv, Dropped, Chunks, KexOK, Past, Negotiating
<1>5. Audited'
  <2>1. Lines("server")' = Lines("server")
    BY <1>2, TwoSides
  <2> QED  BY <1>1, <2>1 DEF SInv, Audited
<1> QED  BY <1>2, <1>3, <1>4, <1>5 DEF SInv

\* Steps of one thread leave the other direction alone.
LEMMA OtherSide ==
  ASSUME SInv, NEW d \in Sides, UNCHANGED <<mode, script>>,
         NEW e \in Sides, e # d,
         sent'[e] = sent[e], pc'[e] = pc[e], received'[e] = received[e],
         forwarded'[e] = forwarded[e], parsed'[e] = parsed[e], identDone'[e] = identDone[e],
         encrypted'[e] = encrypted[e], counted'[e] = counted[e], side'[e] = side[e],
         e \in ephemeral' <=> e \in ephemeral
  PROVE  Ordered(e)' /\ Parser(e)' /\ Flushed(e)' /\ ListsOK(e)'
BY ScriptFrame, Bystander

\* A chunk arrives, for the relay or for the audit.
LEMMA RecvInv ==
  ASSUME SInv, NEW d \in Sides, Recv(d) \/ AuditRecv(d)
  PROVE  SInv'
<1>1. /\ pc[d] = "recv" /\ pc' = [pc EXCEPT ![d] = "feed"]
      /\ UNCHANGED <<mode, script, sent, closed, forwarded, parsed, identDone, encrypted,
                     counted, side, negotiated, level, ephemeral, common, outcome>>
      /\ \/ mode = "audit" /\ recvs < MaxRecvs /\ recvs' = recvs + 1
         \/ mode # "audit" /\ recvs' = recvs
  <2>1. CASE Recv(d)
    BY <2>1 DEF Recv, RecvAny, endpoints, parsers, summary, audit, Goto
  <2>2. CASE AuditRecv(d)
    BY <2>2 DEF AuditRecv, RecvAny, Looping, endpoints, parsers, summary, Goto
  <2> QED  BY <2>1, <2>2
<1>2. PICK upto \in received[d] + 1 .. sent[d] : received' = [received EXCEPT ![d] = upto]
  BY DEF Recv, AuditRecv, RecvAny
<1>3. /\ received \in [Sides -> Nat] /\ sent \in [Sides -> Nat] /\ pc \in [Sides -> Pcs]
      /\ upto \in Nat /\ received[d] \in Nat /\ upto > received[d] /\ upto =< sent[d]
  BY <1>2 DEF SInv, Types
<1>4. ScriptOK' /\ \A e \in Sides : Lines(e)' = Lines(e) /\ Lines(e) \in Nat
  BY <1>1, ScriptFrame
<1>5. Types'
  <2>1. recvs' \in 0 .. MaxRecvs
    BY <1>1, BoundsAssumption DEF SInv, Types
  <2> QED  BY <1>1, <1>2, <1>3, <2>1 DEF SInv, Types, Pcs
<1>6. ASSUME NEW e \in Sides
      PROVE  Ordered(e)' /\ Parser(e)' /\ Flushed(e)' /\ ListsOK(e)'
  <2>1. CASE e # d
    BY <1>1, <1>2, <1>3, <2>1, OtherSide
  <2>2. CASE e = d
    <3>1. /\ pc'[d] = "feed" /\ received'[d] = upto
          /\ Lines(d)' = Lines(d) /\ Lines(d) \in Nat /\ parsed[d] \in Nat
      BY <1>1, <1>2, <1>3, <1>4 DEF SInv, Types
    <3>2. Ordered(d) /\ Parser(d) /\ ListsOK(d)
      BY DEF SInv
    <3>3. Ordered(d)'
      <4>1. forwarded[d] \in Nat /\ sent[d] \in Nat
        BY DEF SInv, Types
      <4> QED  BY <1>1, <1>3, <3>1, <3>2, <4>1 DEF Ordered
    <3>4. Parser(d)'
      BY <1>1, <3>1, <3>2 DEF Parser, InKexinit
    <3>5. Flushed(d)' /\ ListsOK(d)'
      BY <1>1, <3>1, <3>2 DEF Flushed, Fed, ListsOK
    <3> QED  BY <2>2, <3>3, <3>4, <3>5
  <2> QED  BY <2>1, <2>2
<1>7. Causal' /\ Passed'
  BY <1>1, <1>4, TwoSides DEF SInv, Causal, Passed
<1>8. Dropped'
  <2>1. pc'["server"] = "send" => pc["server"] = "send" /\ received'["server"] = received["server"]
    BY <1>1, <1>2, <1>3, TwoSides
  <2> QED  BY <1>1, <1>4, <2>1, TwoSides DEF SInv, Dropped, Chunks
<1>9. KexOK'
  <2>1. \A e \in Sides : /\ Past(e)' <=> Past(e)
                         /\ Negotiating(e)' <=> Negotiating(e)
                         /\ Negotiating(e)' => pc'[e] = pc[e]
    BY <1>1, <1>3 DEF Past, Negotiating
  <2> QED  BY <1>1, <2>1 DEF SInv, KexOK
<1>10. Audited'
  <2>1. /\ mode = "audit" => d = "server"
        /\ d # "server" => pc'["server"] = pc["server"] /\ received'["server"] = received["server"]
        /\ d # "client" => pc'["client"] = pc["client"]
    BY <1>1, <1>2, <1>3, TwoSides DEF SInv, Audited
  <2>2. Lines("server")' = Lines("server")
    BY <1>4, TwoSides
  <2>3. outcome # "error" \/ d # "server"
    BY <1>1 DEF SInv, Audited
  <2>4. recvs' # 0 \/ mode # "audit"
    BY <1>1 DEF SInv, Types
  <2> QED  BY <1>1, <2>1, <2>2, <2>3, <2>4, TwoSides DEF SInv, Audited
<1> QED  BY <1>4, <1>5, <1>6, <1>7, <1>8, <1>9, <1>10 DEF SInv

\* A chunk is passed on after it has been parsed: what the peer can now answer
\* is in the Summary.
LEMMA SendAllInv ==
  ASSUME SInv, NEW d \in Sides, SendAll(d)
  PROVE  SInv'
<1>1. /\ pc[d] = "send" /\ pc' = [pc EXCEPT ![d] = "recv"]
      /\ forwarded' = [forwarded EXCEPT ![d] = received[d]]
      /\ UNCHANGED <<mode, script, sent, closed, received, parsed, identDone, encrypted,
                     counted, side, negotiated, level, ephemeral, common, recvs, outcome>>
  BY DEF SendAll, endpoints, parsers, summary, audit, Goto
<1>2. /\ received \in [Sides -> Nat] /\ forwarded \in [Sides -> Nat] /\ pc \in [Sides -> Pcs]
      /\ forwarded[d] =< received[d]
  BY DEF SInv, Types, Ordered
<1>3. ScriptOK' /\ \A e \in Sides : Lines(e)' = Lines(e) /\ Lines(e) \in Nat
  BY <1>1, ScriptFrame
<1>4. Types'
  BY <1>1, <1>2 DEF SInv, Types, Pcs
<1>5. ASSUME NEW e \in Sides
      PROVE  Ordered(e)' /\ Parser(e)' /\ Flushed(e)' /\ ListsOK(e)'
  <2>1. CASE e # d
    BY <1>1, <1>2, <2>1, OtherSide
  <2>2. CASE e = d
    <3>1. pc'[d] = "recv" /\ forwarded'[d] = received[d] /\ Lines(d)' = Lines(d)
      BY <1>1, <1>2, <1>3
    <3>2. Ordered(d) /\ Parser(d) /\ ListsOK(d) /\ Flushed(d)
      BY DEF SInv
    <3>3. Ordered(d)'
      BY <1>1, <1>2, <3>1, <3>2 DEF Ordered
    <3>4. Parser(d)'
      BY <1>1, <3>1, <3>2 DEF Parser, InKexinit
    <3>5. Flushed(d)' /\ ListsOK(d)'
      BY <1>1, <3>1, <3>2 DEF Flushed, Fed, ListsOK
    <3> QED  BY <2>2, <3>3, <3>4, <3>5
  <2> QED  BY <2>1, <2>2
<1>6. \A e \in Sides : forwarded'[e] \in Nat /\ forwarded[e] \in Nat /\ forwarded'[e] >= forwarded[e]
  BY <1>1, <1>2
<1>7. Causal'
  BY <1>1, <1>3, <1>6, TwoSides DEF SInv, Causal
<1>8. Dropped'
  <2>1. CASE d = "server"
    <3>1. forwarded'["server"] = received["server"] /\ pc'["server"] = "recv"
      BY <1>1, <1>2, <2>1
    <3> QED  BY <1>1, <1>3, <2>1, <3>1, TwoSides DEF SInv, Dropped, Chunks
  <2>2. CASE d # "server"
    <3>1. forwarded'["server"] = forwarded["server"] /\ pc'["server"] = pc["server"]
      BY <1>1, <1>2, <2>2, TwoSides
    <3> QED  BY <1>1, <1>3, <3>1, TwoSides DEF SInv, Dropped, Chunks
  <2> QED  BY <2>1, <2>2
<1>9. Passed'
  <2>1. /\ Ordered(d) /\ Parser(d) /\ Flushed(d) /\ Fed(d) /\ Lines(d) \in Nat
        /\ received[d] \in Nat /\ parsed[d] \in Nat /\ counted[d] \in Nat
        /\ identDone[d] \in BOOLEAN /\ forwarded'[d] = received[d]
    BY <1>1, <1>2, <1>3 DEF SInv, Types, Fed
  <2>2. Lines(d) = 0 => /\ received[d] >= 6 => counted[d] >= 2
                        /\ received[d] >= 8 => counted[d] = 3
    BY <2>1 DEF Ordered, Parser, Flushed
  <2>3. d = "server" /\ Lines("server") =< 2 /\ received["server"] >= 2 * Lines("server") + 10
          => counted["server"] = 3
    <3> SUFFICES ASSUME d = "server", Lines(d) =< 2, received[d] >= 2 * Lines(d) + 10
                 PROVE  counted[d] = 3
      OBVIOUS
    <3>1. CASE identDone[d]
      BY <2>1, <3>1 DEF Ordered, Parser, Flushed
    <3>2. CASE ~identDone[d]
      <4>1. parsed[d] >= Chunks(received[d])
        BY <1>1, <3>2 DEF SInv, Dropped
      <4>2. Chunks(received[d]) = 3
        BY DEF Chunks
      <4> QED  BY <2>1, <3>2, <4>1, <4>2 DEF Parser
    <3> QED  BY <2>1, <3>1, <3>2
  <2>4. \A e \in Sides : e # d => forwarded'[e] = forwarded[e]
    BY <1>1, <1>2
  <2>5. Passed
    BY DEF SInv
  <2>6. \A e \in Sides : Lines(e)' = Lines(e) /\ counted'[e] = counted[e]
    BY <1>1, <1>3
  <2>7. ASSUME NEW e \in Sides
        PROVE  Lines(e)' = 0 => /\ forwarded'[e] >= 6 => counted'[e] >= 2
                                /\ forwarded'[e] >= 8 => counted'[e] = 3
    BY <2>1, <2>2, <2>4, <2>5, <2>6 DEF Passed
  <2>8. Lines("server")' =< 2 /\ forwarded'["server"] >= 2 * Lines("server")' + 10
          => counted'["server"] = 3
    BY <2>1, <2>3, <2>4, <2>5, <2>6, TwoSides DEF Passed
  <2> QED  BY <2>7, <2>8 DEF Passed
<1>10. KexOK'
  <2>1. \A e \in Sides : /\ Past(e)' <=> Past(e)
                         /\ Negotiating(e)' <=> Negotiating(e)
                         /\ Negotiating(e)' => pc'[e] = pc[e]
    BY <1>1, <1>2 DEF Past, Negotiating
  <2> QED  BY <1>1, <2>1 DEF SInv, KexOK
<1>11. Audited'
  <2>1. Lines("server")' = Lines("server") /\ Lines("server") \in Nat
    BY <1>3, TwoSides
  <2>2. \A e \in Sides : pc[e] = "ended" => pc'[e] = "ended"
    BY <1>1, <1>2
  <2>3. Audited
    BY DEF SInv
  <2>4. outcome \in {"exit 0", "row 0"} => forwarded'["server"] >= 2 * Lines("server") + 10
    <3>1. /\ forwarded'["server"] \in Nat /\ forwarded["server"] \in Nat
          /\ forwarded'["server"] >= forwarded["server"]
      BY <1>6, TwoSides
    <3>2. outcome \in {"exit 0", "row 0"} => forwarded["server"] >= 2 * Lines("server") + 10
      BY <2>3 DEF Audited
    <3>3. forwarded["server"] >= 2 * Lines("server") + 10
            => forwarded'["server"] >= 2 * Lines("server") + 10
      BY <2>1, <3>1
    <3> QED  BY <3>2, <3>3, Zenon
  <2> QED  BY <1>1, <2>1, <2>2, <2>3, <2>4, TwoSides DEF Audited
<1> QED  BY <1>3, <1>4, <1>5, <1>7, <1>8, <1>9, <1>10, <1>11 DEF SInv

\* feed() returns: what is left in the buffer is no whole unit, or encrypted.
LEMMA FeedReturnsInv ==
  ASSUME SInv, NEW d \in Sides, FeedReturns(d)
  PROVE  SInv'
<1>1. /\ pc[d] = "feed" /\ pc' = [pc EXCEPT ![d] = Caller]
      /\ encrypted[d] \/ ~HasUnit(d)
      /\ UNCHANGED <<mode, script, sent, closed, received, forwarded, parsed, identDone, encrypted,
                     counted, side, negotiated, level, ephemeral, common, recvs, outcome>>
  BY DEF FeedReturns, endpoints, parsers, summary, audit, Goto
<1>2. /\ pc \in [Sides -> Pcs] /\ Caller \in {"recv", "send"}
      /\ parsed[d] \in Nat /\ received[d] \in Nat /\ counted[d] \in Nat
      /\ identDone[d] \in BOOLEAN /\ encrypted[d] \in BOOLEAN
  BY DEF SInv, Types, Caller
<1>3. /\ ScriptOK' /\ Causal' /\ Passed'
      /\ \A e \in Sides : /\ Lines(e)' = Lines(e) /\ Ordered(e)'
                          /\ pc'[e] = pc[e] => Parser(e)' /\ Flushed(e)' /\ ListsOK(e)'
  BY <1>1, StreamsKept
<1>4. Types'
  BY <1>1, <1>2 DEF SInv, Types, Pcs
<1>5. /\ Parser(d) /\ ListsOK(d) /\ Lines(d) \in Nat
      /\ identDone[d] => received[d] < 2 * (parsed[d] + 1) \/ counted[d] = 3
      /\ ~identDone[d] => received[d] < 2 * (parsed[d] + 1)
  <2>1. Parser(d) /\ ListsOK(d) /\ Lines(d) \in Nat
    BY DEF SInv, ScriptOK
  <2>2. ~HasUnit(d) => received[d] < 2 * (parsed[d] + 1)
    BY <1>2 DEF HasUnit
  <2> QED  BY <1>1, <1>2, <2>1, <2>2 DEF Parser
<1>6. ASSUME NEW e \in Sides
      PROVE  Parser(e)' /\ Flushed(e)' /\ ListsOK(e)'
  <2>1. CASE e # d
    BY <1>1, <1>2, <1>3, <2>1
  <2>2. CASE e = d
    <3>1. pc'[d] \in {"recv", "send"} /\ Lines(d)' = Lines(d)
      BY <1>1, <1>2, <1>3
    <3>2. Parser(d)' /\ ListsOK(d)'
      BY <1>1, <1>5, <3>1 DEF Parser, ListsOK, InKexinit
    <3>3. ~identDone[d] /\ Lines(d) = 0 => received[d] < 2
      BY <1>2, <1>5 DEF Parser
    <3>4. Flushed(d)'
      BY <1>1, <1>5, <3>1, <3>3 DEF Flushed
    <3> QED  BY <2>2, <3>2, <3>4
  <2> QED  BY <2>1, <2>2
<1>7. Dropped'
  <2>1. CASE d = "server"
    <3>1. ~identDone["server"] => Chunks(received["server"]) = 0
      BY <1>2, <1>5, <2>1 DEF Parser, Chunks
    <3>2. Lines("server")' = Lines("server") /\ Dropped
      BY <1>3, TwoSides DEF SInv
    <3> QED  BY <1>1, <1>2, <2>1, <3>1, <3>2 DEF Dropped, Chunks
  <2>2. CASE d # "server"
    <3>1. pc'["server"] = pc["server"]
      BY <1>1, <1>2, <2>2, TwoSides
    <3> QED  BY <1>1, <1>3, <3>1, TwoSides DEF SInv, Dropped, Chunks
  <2> QED  BY <2>1, <2>2
<1>8. KexOK'
  <2>1. \A e \in Sides : /\ Past(e)' <=> Past(e)
                         /\ Negotiating(e)' <=> Negotiating(e)
                         /\ Negotiating(e)' => pc'[e] = pc[e]
    BY <1>1, <1>2 DEF Past, Negotiating
  <2> QED  BY <1>1, <2>1 DEF SInv, KexOK
<1>9. Audited'
  <2>1. Lines("server")' = Lines("server")
    BY <1>3, TwoSides
  <2>2. \A e \in Sides : pc[e] = "ended" => pc'[e] = "ended"
    BY <1>1, <1>2
  <2> QED  BY <1>1, <2>1, <2>2, TwoSides DEF SInv, Audited
<1> QED  BY <1>3, <1>4, <1>6, <1>7, <1>8, <1>9 DEF SInv

\* The chunks in the relay are at most one ahead of those passed on: the server
\* waits for the client, and the client for what has been passed on.
LEMMA OneChunkAhead ==
  ASSUME SInv
  PROVE  Chunks(received["server"]) =< Chunks(forwarded["server"]) + 1
<1> DEFINE L == Lines("server")
           rec == received["server"]
           fwd == forwarded["server"]
<1>1. /\ L \in Nat /\ \A d \in Sides : sent[d] \in Nat /\ received[d] \in Nat /\ forwarded[d] \in Nat
      /\ \A d \in Sides : forwarded[d] =< received[d] /\ received[d] =< sent[d]
      /\ Causal
  BY TwoSides DEF SInv, Types, ScriptOK, Ordered
<1>2. rec >= 2 * L + 6 => fwd >= 2 * L + 4
  BY <1>1, TwoSides DEF Causal
<1>3. rec >= 2 * L + 10 => fwd >= 2 * L + 6
  BY <1>1, TwoSides DEF Causal
<1>4. rec \in Nat /\ fwd \in Nat
  BY <1>1, TwoSides
<1> HIDE DEF L, rec, fwd
<1>5. Chunks(rec) =< Chunks(fwd) + 1
  BY <1>1, <1>2, <1>3, <1>4 DEF Chunks, L
<1> QED  BY <1>5 DEF rec, fwd

\* The first unit that is no line is the identification.
LEMMA BeforeIdent ==
  ASSUME SInv, NEW d \in Sides, ~identDone[d]
  PROVE  /\ Unit(d) = "line" => parsed[d] < Lines(d)
         /\ Unit(d) # "line" => parsed[d] = Lines(d)
<1>1. /\ Lines(d) \in Nat /\ parsed[d] \in Nat /\ parsed[d] =< Lines(d)
      /\ \A i \in 1 .. Lines(d) : script[d][i] = "line"
      /\ script[d][Lines(d) + 1] = "ident"
  BY DEF SInv, Types, ScriptOK, Parser
<1>2. parsed[d] < Lines(d) => parsed[d] + 1 \in 1 .. Lines(d)
  BY <1>1
<1> QED  BY <1>1, <1>2 DEF Unit

\* A line dropped: one per chunk.
LEMMA FeedLineInv ==
  ASSUME SInv, NEW d \in Sides, FeedLine(d)
  PROVE  SInv'
<1>1. /\ pc[d] = "feed" /\ pc' = [pc EXCEPT ![d] = Caller]
      /\ ~identDone[d] /\ HasUnit(d) /\ Unit(d) = "line"
      /\ parsed' = [parsed EXCEPT ![d] = @ + 1]
      /\ UNCHANGED <<mode, script, sent, closed, received, forwarded, identDone, encrypted,
                     counted, side, negotiated, level, ephemeral, common, recvs, outcome>>
  BY DEF FeedLine, endpoints, summary, audit, Goto, Take
<1>2. /\ pc \in [Sides -> Pcs] /\ Caller \in {"recv", "send"} /\ parsed \in [Sides -> Nat]
      /\ parsed[d] \in Nat /\ received[d] \in Nat
  BY DEF SInv, Types, Caller
<1>3. ScriptOK' /\ \A e \in Sides : Lines(e)' = Lines(e) /\ Lines(e) \in Nat
  BY <1>1, ScriptFrame
<1>4. Types'
  BY <1>1, <1>2 DEF SInv, Types, Pcs
<1>5. parsed[d] < Lines(d)
  BY <1>1, BeforeIdent
<1>6. ASSUME NEW e \in Sides
      PROVE  Ordered(e)' /\ Parser(e)' /\ Flushed(e)' /\ ListsOK(e)'
  <2>1. CASE e # d
    BY <1>1, <1>2, <2>1, OtherSide
  <2>2. CASE e = d
    <3>1. pc'[d] \in {"recv", "send"} /\ Lines(d)' = Lines(d) /\ parsed'[d] = parsed[d] + 1
      BY <1>1, <1>2, <1>3
    <3>2. Ordered(d) /\ Parser(d) /\ ListsOK(d)
      BY DEF SInv
    <3>3. Ordered(d)'
      BY <1>1, <1>2, <3>1, <3>2 DEF Ordered, HasUnit
    <3>4. Parser(d)'
      BY <1>1, <1>2, <1>3, <1>5, <3>1, <3>2 DEF Parser, InKexinit
    <3>5. Flushed(d)' /\ ListsOK(d)'
      BY <1>1, <1>2, <1>3, <1>5, <3>1, <3>2 DEF Flushed, Fed, ListsOK
    <3> QED  BY <2>2, <3>3, <3>4, <3>5
  <2> QED  BY <2>1, <2>2
<1>7. Causal' /\ Passed'
  BY <1>1, <1>3, TwoSides DEF SInv, Causal, Passed
<1>8. Dropped'
  <2> DEFINE rec == Chunks(received["server"])
             fwd == Chunks(forwarded["server"])
  <2>1. Lines("server")' = Lines("server") /\ Dropped
    BY <1>3, TwoSides DEF SInv
  <2>2. rec' = rec /\ fwd' = fwd /\ rec \in Nat /\ fwd \in Nat /\ rec =< fwd + 1
    BY <1>1, <2>1, OneChunkAhead DEF Chunks
  <2>3. CASE d = "server"
    <3>1. parsed'["server"] = parsed["server"] + 1 /\ parsed["server"] \in Nat
      BY <1>1, <1>2, <2>3
    <3>2. parsed["server"] >= fwd
      BY <1>1, <2>1, <2>3 DEF Dropped
    <3> HIDE DEF rec, fwd
    <3>3. parsed'["server"] >= fwd' /\ parsed'["server"] >= rec'
      BY <2>2, <3>1, <3>2
    <3> QED  BY <3>3 DEF Dropped, rec, fwd
  <2>4. CASE d # "server"
    <3>1. pc'["server"] = pc["server"] /\ parsed'["server"] = parsed["server"]
      BY <1>1, <1>2, <2>4, TwoSides
    <3> QED  BY <1>1, <2>1, <2>2, <3>1 DEF Dropped
  <2> QED  BY <2>3, <2>4
<1>9. KexOK'
  <2>1. \A e \in Sides : /\ Past(e)' <=> Past(e)
                         /\ Negotiating(e)' <=> Negotiating(e)
                         /\ Negotiating(e)' => pc'[e] = pc[e]
    BY <1>1, <1>2 DEF Past, Negotiating
  <2> QED  BY <1>1, <2>1 DEF SInv, KexOK
<1>10. Audited'
  <2>1. Lines("server")' = Lines("server")
    BY <1>3, TwoSides
  <2>2. \A e \in Sides : pc[e] = "ended" => pc'[e] = "ended"
    BY <1>1, <1>2
  <2> QED  BY <1>1, <2>1, <2>2, TwoSides DEF SInv, Audited
<1> QED  BY <1>3, <1>4, <1>6, <1>7, <1>8, <1>9, <1>10 DEF SInv

\* The identification: what follows in the buffer are packets.
LEMMA FeedIdentInv ==
  ASSUME SInv, NEW d \in Sides, FeedIdent(d)
  PROVE  SInv'
<1>1. /\ pc[d] = "feed"
      /\ ~identDone[d] /\ HasUnit(d) /\ Unit(d) = "ident"
      /\ parsed' = [parsed EXCEPT ![d] = @ + 1]
      /\ identDone' = [identDone EXCEPT ![d] = TRUE]
      /\ UNCHANGED <<mode, script, sent, closed, pc, received, forwarded, encrypted,
                     counted, side, negotiated, level, ephemeral, common, recvs, outcome>>
  BY DEF FeedIdent, endpoints, summary, audit, Take
<1>2. /\ parsed \in [Sides -> Nat] /\ identDone \in [Sides -> BOOLEAN]
      /\ parsed[d] \in Nat /\ received[d] \in Nat
  BY DEF SInv, Types
<1>3. ScriptOK' /\ \A e \in Sides : Lines(e)' = Lines(e) /\ Lines(e) \in Nat
  BY <1>1, ScriptFrame
<1>4. Types'
  BY <1>1, <1>2 DEF SInv, Types
<1>5. parsed[d] = Lines(d)
  BY <1>1, BeforeIdent
<1>6. ASSUME NEW e \in Sides
      PROVE  Ordered(e)' /\ Parser(e)' /\ Flushed(e)' /\ ListsOK(e)'
  <2>1. CASE e # d
    BY <1>1, <1>2, <2>1, OtherSide
  <2>2. CASE e = d
    <3>1. identDone'[d] /\ Lines(d)' = Lines(d) /\ parsed'[d] = parsed[d] + 1
      BY <1>1, <1>2, <1>3
    <3>2. Ordered(d) /\ Parser(d) /\ ListsOK(d)
      BY DEF SInv
    <3>3. Ordered(d)'
      BY <1>1, <1>2, <3>1, <3>2 DEF Ordered, HasUnit
    <3>4. Parser(d)'
      BY <1>1, <1>2, <1>3, <1>5, <3>1, <3>2 DEF Parser, InKexinit
    <3>5. Flushed(d)' /\ ListsOK(d)'
      BY <1>1, <3>1, <3>2 DEF Flushed, Fed, ListsOK
    <3> QED  BY <2>2, <3>3, <3>4, <3>5
  <2> QED  BY <2>1, <2>2
<1>7. Causal' /\ Passed'
  BY <1>1, <1>3, TwoSides DEF SInv, Causal, Passed
<1>8. Dropped'
  <2>1. Lines("server")' = Lines("server") /\ Dropped
    BY <1>3, TwoSides DEF SInv
  <2>2. d # "server" => identDone'["server"] = identDone["server"] /\ parsed'["server"] = parsed["server"]
    BY <1>1, <1>2, TwoSides
  <2>3. d = "server" => identDone'["server"]
    BY <1>1, <1>2
  <2> QED  BY <1>1, <2>1, <2>2, <2>3 DEF Dropped, Chunks
<1>9. KexOK' /\ Audited'
  <2>1. Lines("server")' = Lines("server")
    BY <1>3, TwoSides
  <2> QED  BY <1>1, <2>1 DEF SInv, KexOK, Past, Negotiating, Audited
<1> QED  BY <1>3, <1>4, <1>6, <1>7, <1>8, <1>9 DEF SInv

\* A packet is counted; its place in the stream says what it is.
LEMMA PacketAt ==
  ASSUME SInv, NEW d \in Sides, identDone[d], ~encrypted[d]
  PROVE  /\ parsed[d] = Lines(d) + 1 + counted[d] /\ counted[d] \in 0 .. 2
         /\ Unit(d) = "kexinit" <=> counted[d] = 0
         /\ Unit(d) \in {"init", "reply"} <=> counted[d] = 1
         /\ Unit(d) = "newkeys" <=> counted[d] = 2
<1>1. /\ Lines(d) \in Nat /\ parsed[d] \in Nat /\ counted[d] \in Nat
      /\ parsed[d] = Lines(d) + 1 + counted[d] /\ counted[d] =< 3 /\ counted[d] # 3
  BY DEF SInv, Types, ScriptOK, Parser
<1>2. counted[d] = 0 \/ counted[d] = 1 \/ counted[d] = 2
  BY <1>1
<1>3. /\ script[d][Lines(d) + 2] = "kexinit"
      /\ script[d][Lines(d) + 3] \in {"init", "reply"}
      /\ script[d][Lines(d) + 4] = "newkeys"
  BY DEF SInv, ScriptOK
<1>4. /\ counted[d] = 0 => parsed[d] + 1 = Lines(d) + 2
      /\ counted[d] = 1 => parsed[d] + 1 = Lines(d) + 3
      /\ counted[d] = 2 => parsed[d] + 1 = Lines(d) + 4
  BY <1>1
<1>5. /\ counted[d] = 0 => Unit(d) = "kexinit"
      /\ counted[d] = 1 => Unit(d) \in {"init", "reply"}
      /\ counted[d] = 2 => Unit(d) = "newkeys"
  BY <1>3, <1>4 DEF Unit
<1> QED  BY <1>1, <1>2, <1>5

\* A packet after the identification is read by the observer once it is whole.
LEMMA FeedPacketInv ==
  ASSUME SInv, NEW d \in Sides, FeedPacket(d)
  PROVE  SInv'
<1>1. /\ pc[d] = "feed"
      /\ identDone[d] /\ ~encrypted[d] /\ HasUnit(d)
      /\ parsed' = [parsed EXCEPT ![d] = @ + 1]
      /\ counted' = [counted EXCEPT ![d] = @ + 1]
      /\ encrypted' = [encrypted EXCEPT ![d] = Unit(d) = "newkeys"]
      /\ ephemeral' = IF Unit(d) \in {"init", "reply"} THEN ephemeral \cup {d} ELSE ephemeral
      /\ pc' = [pc EXCEPT ![d] = IF Unit(d) = "kexinit" THEN "kex" ELSE "feed"]
      /\ UNCHANGED <<mode, script, sent, closed, received, forwarded, identDone,
                     side, negotiated, level, common, recvs, outcome>>
  BY DEF FeedPacket, endpoints, audit, Take, Goto
<1>2. /\ parsed \in [Sides -> Nat] /\ counted \in [Sides -> Nat] /\ pc \in [Sides -> Pcs]
      /\ encrypted \in [Sides -> BOOLEAN] /\ parsed[d] \in Nat /\ received[d] \in Nat
      /\ counted[d] \in Nat /\ ephemeral \subseteq Sides
  BY DEF SInv, Types
<1>3. ScriptOK' /\ \A e \in Sides : Lines(e)' = Lines(e) /\ Lines(e) \in Nat
  BY <1>1, ScriptFrame
<1>4. /\ parsed[d] = Lines(d) + 1 + counted[d] /\ counted[d] \in 0 .. 2
      /\ Unit(d) = "kexinit" <=> counted[d] = 0
      /\ Unit(d) \in {"init", "reply"} <=> counted[d] = 1
      /\ Unit(d) = "newkeys" <=> counted[d] = 2
  BY <1>1, PacketAt
<1>5. /\ parsed'[d] = parsed[d] + 1 /\ counted'[d] = counted[d] + 1
      /\ encrypted'[d] <=> counted[d] = 2
      /\ pc'[d] = IF counted[d] = 0 THEN "kex" ELSE "feed"
      /\ d \in ephemeral' <=> d \in ephemeral \/ counted[d] = 1
  BY <1>1, <1>2, <1>4
<1>6. \A e \in Sides : e # d => /\ parsed'[e] = parsed[e] /\ counted'[e] = counted[e]
                                /\ encrypted'[e] = encrypted[e] /\ pc'[e] = pc[e]
                                /\ e \in ephemeral' <=> e \in ephemeral
  BY <1>1, <1>2
<1>7. Types'
  <2>1. ephemeral' \subseteq Sides /\ pc' \in [Sides -> Pcs] /\ encrypted' \in [Sides -> BOOLEAN]
    BY <1>1, <1>2 DEF Pcs, InKexinit
  <2>2. parsed' \in [Sides -> Nat] /\ counted' \in [Sides -> Nat]
    BY <1>1, <1>2
  <2> QED  BY <1>1, <2>1, <2>2 DEF SInv, Types
<1>8. ASSUME NEW e \in Sides
      PROVE  Ordered(e)' /\ Parser(e)' /\ Flushed(e)' /\ ListsOK(e)'
  <2>1. CASE e # d
    BY <1>1, <1>6, <2>1, OtherSide
  <2>2. CASE e = d
    <3>1. Ordered(d) /\ Parser(d) /\ ListsOK(d) /\ Lines(d)' = Lines(d) /\ Lines(d) \in Nat
      BY <1>3 DEF SInv
    <3>2. Ordered(d)'
      BY <1>1, <1>2, <1>5, <3>1 DEF Ordered, HasUnit
    <3>3. Parser(d)'
      BY <1>1, <1>2, <1>4, <1>5, <3>1 DEF Parser, InKexinit
    <3>4. Flushed(d)'
      BY <1>5 DEF Flushed, Fed
    <3>5. ListsOK(d)'
      BY <1>1, <1>2, <1>5, <3>1 DEF ListsOK
    <3> QED  BY <2>2, <3>2, <3>3, <3>4, <3>5
  <2> QED  BY <2>1, <2>2
<1>9. \A e \in Sides : /\ counted[e] \in Nat /\ counted'[e] \in Nat /\ counted'[e] >= counted[e]
                       /\ counted[e] = 3 => counted'[e] = 3
  BY <1>1, <1>2, <1>4, <1>5
<1>10. Causal' /\ Passed'
  BY <1>1, <1>3, <1>9, TwoSides DEF SInv, Causal, Passed
<1>11. Dropped'
  <2>1. Lines("server")' = Lines("server") /\ Dropped
    BY <1>3, TwoSides DEF SInv
  <2>2. d # "server" => pc'["server"] = pc["server"] /\ parsed'["server"] = parsed["server"]
    BY <1>6, TwoSides
  <2> QED  BY <1>1, <2>1, <2>2 DEF Dropped, Chunks
<1>12. KexOK'
  <2>1. \A e \in Sides : /\ Past(e)' => Past(e)
                         /\ Negotiating(e)' <=> Negotiating(e)
                         /\ Negotiating(e)' => pc'[e] = pc[e]
    BY <1>1, <1>2, <1>4, <1>5, <1>6 DEF Past, Negotiating
  <2> QED  BY <1>1, <2>1 DEF SInv, KexOK
<1>13. Audited'
  <2>1. Lines("server")' = Lines("server")
    BY <1>3, TwoSides
  <2>2. \A e \in Sides : pc[e] = "ended" => pc'[e] = "ended"
    BY <1>1, <1>2
  <2> QED  BY <1>1, <2>1, <2>2, TwoSides DEF SInv, Audited
<1> QED  BY <1>3, <1>7, <1>8, <1>10, <1>11, <1>12, <1>13 DEF SInv

\* packet() after a KEXINIT touches the Summary only; what is left to show of
\* such a step are the lists and the result.
LEMMA KexinitInv ==
  ASSUME SInv, NEW d \in Sides, NEW where, pc[d] \in InKexinit, Goto(d, where),
         where \in InKexinit \cup {"feed"},
         UNCHANGED <<endpoints, received, forwarded, parsers, ephemeral, audit>>,
         Types', ListsOK(d)', KexOK', \A e \in Sides : e # d => side'[e] = side[e]
  PROVE  SInv'
<1>1. UNCHANGED <<mode, script, sent, closed, received, forwarded, parsed, identDone, encrypted,
                  counted, ephemeral, recvs, outcome>>
  BY DEF endpoints, parsers, audit
<1>2. pc \in [Sides -> Pcs] /\ pc' = [pc EXCEPT ![d] = where]
  BY DEF SInv, Types, Goto
<1>3. ScriptOK' /\ \A e \in Sides : Lines(e)' = Lines(e) /\ Lines(e) \in Nat
  BY <1>1, ScriptFrame
<1>4. ASSUME NEW e \in Sides
      PROVE  Ordered(e)' /\ Parser(e)' /\ Flushed(e)' /\ ListsOK(e)'
  <2>1. CASE e # d
    BY <1>1, <1>2, <2>1, OtherSide
  <2>2. CASE e = d
    <3>1. /\ pc'[d] = where /\ ~(pc'[d] \in {"recv", "send", "ended"})
          /\ Lines(d)' = Lines(d) /\ Ordered(d) /\ Parser(d)
      BY <1>2, <1>3 DEF SInv, InKexinit
    <3>2. Ordered(d)'
      BY <1>1, <3>1 DEF Ordered
    <3>3. Parser(d)'
      <4>1. identDone[d] /\ counted[d] = 1
        BY <3>1 DEF Parser
      <4> QED  BY <1>1, <3>1, <4>1 DEF Parser
    <3>4. Flushed(d)'
      BY <3>1 DEF Flushed, Fed
    <3> QED  BY <2>2, <3>2, <3>3, <3>4
  <2> QED  BY <2>1, <2>2
<1>5. Causal' /\ Passed'
  BY <1>1, <1>3, TwoSides DEF SInv, Causal, Passed
<1>6. pc[d] # "send" /\ where # "send" /\ pc[d] # "ended"
  BY DEF InKexinit
<1>7. Dropped'
  <2>1. Lines("server")' = Lines("server") /\ Dropped
    BY <1>3, TwoSides DEF SInv
  <2>2. pc'["server"] = "send" => pc["server"] = "send"
    BY <1>2, <1>6, TwoSides
  <2> QED  BY <1>1, <2>1, <2>2 DEF Dropped, Chunks
<1>8. Audited'
  <2>1. Lines("server")' = Lines("server") /\ Audited
    BY <1>3, TwoSides DEF SInv
  <2>2. \A e \in Sides : pc[e] = "ended" => pc'[e] = "ended" /\ side'[e] = side[e]
    BY <1>2, <1>6
  <2> QED  BY <1>1, <2>1, <2>2, TwoSides DEF Audited
<1> QED  BY <1>3, <1>4, <1>5, <1>7, <1>8 DEF SInv

\* The lists of a KEXINIT, one assignment after the other.
LEMMA ParseListInv ==
  ASSUME SInv, NEW d \in Sides,
         ParseList(d, "kex", "hostkey") \/ ParseList(d, "hostkey", "bothSeen")
  PROVE  SInv'
<1>1. PICK l \in Lists, where \in {"hostkey", "bothSeen"} :
        /\ ParseList(d, l, where)
        /\ \/ l = "kex" /\ where = "hostkey"
           \/ l = "hostkey" /\ where = "bothSeen"
  <2>1. "kex" \in Lists /\ "hostkey" \in Lists
    BY DEF Lists
  <2> QED  BY <2>1
<1>2. /\ pc[d] = l /\ Goto(d, where) /\ side' = [side EXCEPT ![d][l] = Offer[d][l]]
      /\ UNCHANGED <<endpoints, received, forwarded, parsers, negotiated, level, ephemeral, common, audit>>
  BY <1>1 DEF ParseList
<1>3. /\ pc \in [Sides -> Pcs] /\ pc' = [pc EXCEPT ![d] = where]
      /\ side \in [Sides -> [Lists -> Seq(STRING)]]
      /\ counted[d] = 1 /\ ListsOK(d) /\ KexOK
      /\ l \in InKexinit /\ where \in InKexinit
  BY <1>1, <1>2 DEF SInv, Types, Goto, Parser, InKexinit
<1>4. /\ side'[d][l] = Offer[d][l]
      /\ \A k \in Lists : k # l => side'[d][k] = side[d][k]
      /\ \A e \in Sides : e # d => side'[e] = side[e]
      /\ pc'[d] = where /\ \A e \in Sides : e # d => pc'[e] = pc[e]
  BY <1>2, <1>3
<1>5. Types'
  <2>1. Offer[d][l] \in Seq(STRING)
    BY OfferAssumption
  <2>2. side' \in [Sides -> [Lists -> Seq(STRING)]]
    BY <1>2, <1>3, <2>1
  <2>3. pc' \in [Sides -> Pcs]
    BY <1>3 DEF Pcs
  <2> QED  BY <1>2, <2>2, <2>3 DEF SInv, Types, endpoints, parsers, audit
<1>6. ListsOK(d)'
  <2>1. counted'[d] = 1
    BY <1>2, <1>3 DEF parsers
  <2> QED  BY <1>1, <1>2, <1>3, <1>4, <2>1 DEF ListsOK, Lists
<1>7. KexOK'
  <2>1. ~Past(d)' /\ ~Negotiating(d)'
    BY <1>4 DEF Past, Negotiating
  <2>2. \A e \in Sides : Negotiating(e)' => Negotiating(e) /\ e # d /\ pc'[e] = pc[e]
    BY <1>4, <2>1 DEF Negotiating
  <2>3. \A e \in Sides : side[e]["kex"] = Offer[e]["kex"] => side'[e]["kex"] = Offer[e]["kex"]
    BY <1>1, <1>4 DEF Lists
  <2> QED  BY <1>2, <1>3, <2>1, <2>2, <2>3 DEF KexOK
<1> QED  BY <1>2, <1>3, <1>4, <1>5, <1>6, <1>7, KexinitInv

\* The last of the two threads sees both lists.
LEMMA BothSeenInv ==
  ASSUME SInv, NEW d \in Sides, BothSeen(d)
  PROVE  SInv'
<1> DEFINE where == IF \A e \in Sides : side[e]["kex"] # Empty THEN "negotiateKex" ELSE "feed"
<1>1. /\ pc[d] = "bothSeen" /\ Goto(d, where)
      /\ UNCHANGED <<endpoints, received, forwarded, parsers, summary, common, audit>>
      /\ UNCHANGED <<counted, side, negotiated, level, ephemeral>>
  BY DEF BothSeen, parsers, summary
<1>2. /\ pc \in [Sides -> Pcs] /\ pc' = [pc EXCEPT ![d] = where]
      /\ counted[d] = 1 /\ KexOK /\ \A e \in Sides : ListsOK(e)
  BY <1>1 DEF SInv, Types, Goto, Parser, InKexinit
<1>3. where \in {"negotiateKex", "feed"}
  OBVIOUS
<1>4. where = "negotiateKex" <=> \A e \in Sides : side[e]["kex"] # Empty
  OBVIOUS
<1> HIDE DEF where
<1>5. pc'[d] = where /\ \A e \in Sides : e # d => pc'[e] = pc[e]
  BY <1>2
<1>6. Types'
  <2>1. pc' \in [Sides -> Pcs]
    BY <1>2, <1>3 DEF Pcs, InKexinit
  <2> QED  BY <1>1, <2>1 DEF SInv, Types, endpoints, parsers, audit, summary
<1>7. ListsOK(d)'
  BY <1>1, <1>2, <1>3, <1>5 DEF ListsOK
<1>8. \A e \in Sides : side[e]["kex"] # Empty <=> counted[e] > 0 /\ pc[e] # "kex"
  BY <1>2, OfferAssumption DEF ListsOK, Lists, Empty
<1>9. \A e \in Sides : side[e]["kex"] # Empty => side[e]["kex"] = Offer[e]["kex"]
  BY <1>2 DEF ListsOK
<1>10. KexOK'
  <2>1. \A e \in Sides : e # d => /\ Past(e)' <=> Past(e)
                                  /\ Negotiating(e)' <=> Negotiating(e)
    BY <1>1, <1>5 DEF Past, Negotiating
  <2>2. CASE where = "feed"
    <3>1. PICK e \in Sides : side[e]["kex"] = Empty
      BY <1>4, <2>2
    <3>2. e # d /\ ~Past(e)
      BY <1>1, <1>2, <1>8, <3>1 DEF Past
    <3>3. ~Past(e)' /\ ~Negotiating(d)'
      BY <1>5, <2>1, <2>2, <3>2 DEF Negotiating
    <3>4. \A f \in Sides : Negotiating(f)' => Negotiating(f) /\ f # d /\ pc'[f] = pc[f]
      BY <1>5, <2>1, <3>3
    <3> QED  BY <1>1, <1>2, <3>3, <3>4 DEF KexOK
  <2>3. CASE where = "negotiateKex"
    <3>1. \A e \in Sides : side[e]["kex"] = Offer[e]["kex"]
      BY <1>4, <1>9, <2>3
    <3>2. Negotiating(d)' /\ pc'[d] = "negotiateKex"
      BY <1>5, <2>3 DEF Negotiating
    <3> QED  BY <1>1, <1>2, <1>5, <2>1, <3>1, <3>2 DEF KexOK
  <2> QED  BY <1>3, <2>2, <2>3
<1>11. pc[d] \in InKexinit /\ where \in InKexinit \cup {"feed"} /\ UNCHANGED <<ephemeral, side>>
  BY <1>1, <1>3 DEF InKexinit
<1> QED  BY <1>1, <1>6, <1>7, <1>10, <1>11, KexinitInv

\* Whoever negotiates stores the result of the two offers.
LEMMA NegotiateInv ==
  ASSUME SInv, NEW d \in Sides,
         NegotiateKex(d) \/ NegotiateHostkey(d) \/ StoreHostkey(d) \/ SetLevel(d)
  PROVE  SInv'
<1>1. /\ Negotiating(d)
      /\ UNCHANGED <<endpoints, received, forwarded, parsers, ephemeral, audit>>
      /\ UNCHANGED <<counted, side, ephemeral>>
  BY DEF NegotiateKex, NegotiateHostkey, StoreHostkey, SetLevel, Negotiating, parsers, summary
<1>2. PICK where \in {"negotiateHostkey", "storeHostkey", "level", "feed"} :
        /\ Goto(d, where)
        /\ where = "negotiateHostkey" <=> pc[d] = "negotiateKex"
        /\ where = "feed" <=> pc[d] = "level"
  BY DEF NegotiateKex, NegotiateHostkey, StoreHostkey, SetLevel
<1>3. /\ pc \in [Sides -> Pcs] /\ pc' = [pc EXCEPT ![d] = where]
      /\ counted[d] = 1 /\ KexOK /\ ListsOK(d)
  BY <1>1, <1>2 DEF SInv, Types, Goto, Parser, InKexinit, Negotiating
<1>4. pc'[d] = where /\ \A e \in Sides : e # d => pc'[e] = pc[e]
  BY <1>3
<1>5. DOMAIN negotiated' = Lists /\ DOMAIN common' = Sides
  BY DEF SInv, Types, NegotiateKex, NegotiateHostkey, StoreHostkey, SetLevel, summary
<1>6. Types'
  <2>1. pc' \in [Sides -> Pcs]
    BY <1>3 DEF Pcs, InKexinit
  <2> QED  BY <1>1, <1>5, <2>1 DEF SInv, Types, endpoints, parsers, audit
<1>7. ListsOK(d)'
  BY <1>1, <1>3, <1>4 DEF ListsOK, Negotiating
<1>8. negotiated'["kex"] = Agreed("kex")
  <2>1. CASE NegotiateKex(d)
    <3>1. side["client"]["kex"] = Offer["client"]["kex"] /\ side["server"]["kex"] = Offer["server"]["kex"]
      BY <1>1, <1>3, TwoSides DEF KexOK
    <3>2. DOMAIN negotiated = Lists /\ "kex" \in Lists
      BY DEF SInv, Types, Lists
    <3> QED  BY <2>1, <3>1, <3>2 DEF NegotiateKex, Agreed
  <2>2. CASE ~NegotiateKex(d)
    <3>1. pc[d] # "negotiateKex" /\ negotiated'["kex"] = negotiated["kex"]
      BY <2>2 DEF NegotiateHostkey, StoreHostkey, SetLevel, summary, SInv, Types, Lists
    <3> QED  BY <1>1, <1>3, <3>1 DEF KexOK
  <2> QED  BY <2>1, <2>2
<1>9. where = "feed" => level' = (Agreed("kex") \in PqKex)
  <2> SUFFICES ASSUME where = "feed"  PROVE level' = (Agreed("kex") \in PqKex)
    OBVIOUS
  <2>1. pc[d] = "level"
    BY <1>2
  <2>2. SetLevel(d)
    BY <2>1 DEF NegotiateKex, NegotiateHostkey, StoreHostkey, SetLevel
  <2> QED  BY <1>8, <2>2 DEF SetLevel
<1>10. where # "feed" => Negotiating(d)'
  BY <1>2, <1>4 DEF Negotiating
<1>11. KexOK'
  <2>1. \A e \in Sides : side'[e]["kex"] = Offer[e]["kex"]
    BY <1>1, <1>3 DEF KexOK
  <2>2. (\A e \in Sides : Past(e)' /\ ~Negotiating(e)') => where = "feed"
    BY <1>10
  <2> QED  BY <1>8, <1>9, <2>1, <2>2 DEF KexOK
<1>12. pc[d] \in InKexinit /\ where \in InKexinit \cup {"feed"}
  BY <1>1 DEF InKexinit, Negotiating
<1> QED  BY <1>1, <1>2, <1>6, <1>7, <1>11, <1>12, KexinitInv

-------------------------------------------------------------------------------
(* The theorems                                                             *)

LEMMA NextInv == SInv /\ [Next]_vars => SInv'
<1> SUFFICES ASSUME SInv, [Next]_vars  PROVE SInv'
  OBVIOUS
<1>1. CASE UNCHANGED vars
  <2>1. /\ UNCHANGED <<mode, script, sent, closed, pc, received, forwarded, parsed, identDone,
                       encrypted, counted, side, negotiated, level, ephemeral, common, recvs, outcome>>
    BY <1>1 DEF vars, endpoints, parsers, summary, audit
  <2>2. /\ ScriptOK' /\ Causal' /\ Passed'
        /\ \A e \in Sides : /\ Lines(e)' = Lines(e) /\ Ordered(e)'
                            /\ Parser(e)' /\ Flushed(e)' /\ ListsOK(e)'
    BY <2>1, StreamsKept
  <2>3. Types'
    BY <2>1 DEF SInv, Types
  <2>4. Lines("server")' = Lines("server")
    BY <2>2, TwoSides
  <2>5. Dropped' /\ KexOK' /\ Audited'
    BY <2>1, <2>4 DEF SInv, Dropped, Chunks, KexOK, Past, Negotiating, Audited
  <2> QED  BY <2>2, <2>3, <2>5 DEF SInv
<1>2. CASE LabRow
  BY <1>2, LabRowInv
<1>3. CASE Joined
  BY <1>1, <1>3 DEF Joined
<1>4. ASSUME NEW d \in Sides, SendHalf(d) \/ Close(d) \/ Thread(d)
      PROVE  SInv'
  <2>1. CASE SendHalf(d)
    BY <2>1, SendHalfInv
  <2>2. CASE Close(d)
    BY <2>2, CloseInv
  <2>3. CASE Pump(d)
    BY <2>3, RecvInv, StopReceivingInv, SendAllInv, SendFailsInv DEF Pump
  <2>4. CASE Audit(d)
    BY <2>4, RecvInv, AuditEndInv DEF Audit
  <2>5. CASE Kexinit(d)
    BY <2>5, ParseListInv, BothSeenInv, NegotiateInv DEF Kexinit
  <2>6. CASE Feed(d)
    BY <2>5, <2>6, FeedReturnsInv, FeedLineInv, FeedIdentInv, FeedPacketInv DEF Feed
  <2> QED  BY <1>4, <2>1, <2>2, <2>3, <2>4, <2>6 DEF Thread
<1> QED  BY <1>1, <1>2, <1>3, <1>4 DEF Next

\* The invariant, of every behaviour of the relay.
LEMMA Invariance == Spec => []SInv
<1>1. Init => SInv
  BY InitInv
<1>2. SInv /\ [Next]_vars => SInv'
  BY NextInv
<1> QED  BY <1>1, <1>2, PTL DEF Spec

\* Positions in the streams stay in order, whatever is sent and however it is
\* cut into chunks.
THEOREM TypeCorrect == Spec => []TypeOK
<1>1. SInv => TypeOK
  <2> SUFFICES ASSUME SInv  PROVE TypeOK
    OBVIOUS
  <2>1. ASSUME NEW d \in Sides
        PROVE  /\ pc[d] \in {"recv", "feed", "send", "ended"} \cup InKexinit
               /\ 0 =< forwarded[d] /\ forwarded[d] =< received[d]
               /\ received[d] =< sent[d] /\ sent[d] =< End(d)
               /\ 2 * parsed[d] =< received[d]
               /\ counted[d] =< parsed[d]
    <3>1. /\ pc[d] \in Pcs /\ forwarded[d] \in Nat /\ parsed[d] \in Nat /\ counted[d] \in Nat
          /\ Lines(d) \in Nat /\ End(d) = 2 * (Lines(d) + 5)
          /\ Ordered(d) /\ Parser(d)
      BY ZenonT(60) DEF SInv, Types, ScriptOK, End
    <3>2. counted[d] =< parsed[d]
      BY <3>1 DEF Parser
    <3> QED  BY <3>1, <3>2 DEF Ordered, Pcs
  <2>2. ephemeral \cup closed \subseteq Sides /\ recvs \in 0 .. MaxRecvs /\ outcome \in Outcomes
    BY DEF SInv, Types
  <2> QED  BY <2>1, <2>2 DEF TypeOK, Outcomes
<1> QED  BY <1>1, Invariance, PTL

\* After both proposals, what is negotiated is what the two sides agree on.
LEMMA KexFacts ==
  ASSUME SInv, Exchanged
  PROVE  negotiated["kex"] = Agreed("kex") /\ level = (Agreed("kex") \in PqKex)
<1>1. \A d \in Sides : Past(d) /\ ~Negotiating(d)
  BY DEF Exchanged, Past, Negotiating, InKexinit
<1> QED  BY <1>1 DEF SInv, KexOK

\* Once both KEXINITs are parsed the Summary has the key exchange the two
\* offers determine, and its level: whichever of the two unlocked threads was
\* first and however their assignments interleave.
THEOREM KexIsNegotiated == Spec => []KexAsNegotiated
<1>1. SInv => KexAsNegotiated
  BY KexFacts DEF KexAsNegotiated
<1> QED  BY <1>1, Invariance, PTL

\* Outside a KEXINIT, what a side has offered is what the Summary has of it.
LEMMA OfferSeen ==
  ASSUME SInv, NEW d \in Sides, counted[d] >= 2
  PROVE  side[d] = Offer[d] /\ pc[d] \notin InKexinit
<1>1. counted[d] \in Nat /\ Parser(d) /\ ListsOK(d)
  BY DEF SInv, Types
<1>2. counted[d] > 0 /\ pc[d] \notin InKexinit
  BY <1>1 DEF Parser
<1>3. side[d]["kex"] = Offer[d]["kex"] /\ side[d]["hostkey"] = Offer[d]["hostkey"]
  BY <1>1, <1>2 DEF ListsOK, InKexinit
<1>4. side[d] \in [Lists -> Seq(STRING)] /\ Offer[d] \in [Lists -> Seq(STRING)]
  BY OfferAssumption DEF SInv, Types
<1>5. \A l \in Lists : side[d][l] = Offer[d][l]
  BY <1>3 DEF Lists
<1> QED  BY <1>2, <1>4, <1>5

\* Once the server's reply is in the Summary, so is the client's half and the
\* result of both KEXINITs; and the row of a scenario that ssh left with 0 is
\* complete even if it is written while the pumps run, for a server that sends
\* at most two lines before its identification.
THEOREM SummaryStaysCausal == Spec => []SummaryIsCausal
<1>1. SInv => SummaryIsCausal
  <2> SUFFICES ASSUME SInv  PROVE SummaryIsCausal
    OBVIOUS
  <2> DEFINE L == Lines("server")
  <2>1. /\ L \in Nat /\ Lines("client") = 0 /\ Causal /\ Passed /\ ephemeral \subseteq Sides
        /\ \A d \in Sides : /\ sent[d] \in Nat /\ received[d] \in Nat /\ forwarded[d] \in Nat
                            /\ parsed[d] \in Nat /\ counted[d] \in Nat
                            /\ identDone[d] \in BOOLEAN
                            /\ Ordered(d) /\ Parser(d)
    BY TwoSides DEF SInv, Types, ScriptOK
  <2>2. "server" \in ephemeral => counted["client"] >= 2 /\ counted["server"] >= 2
    <3> SUFFICES ASSUME "server" \in ephemeral
                 PROVE  counted["client"] >= 2 /\ counted["server"] >= 2
      OBVIOUS
    <3>1. counted["server"] >= 2
      BY <2>1, TwoSides DEF Parser
    <3>2. identDone["server"]
      BY <2>1, <3>1, TwoSides DEF Parser
    <3>3. parsed["server"] >= L + 3
      BY <2>1, <3>1, <3>2, TwoSides DEF Parser
    <3>4. sent["server"] > 2 * L + 4
      BY <2>1, <3>3, TwoSides DEF Ordered
    <3>5. forwarded["client"] >= 6
      BY <2>1, <3>4 DEF Causal
    <3> QED  BY <2>1, <3>1, <3>5, TwoSides DEF Passed
  <2>3. "server" \in ephemeral => /\ "client" \in ephemeral
                                  /\ negotiated["kex"] = Agreed("kex")
                                  /\ \A d \in Sides : side[d] = Offer[d]
    <3> SUFFICES ASSUME "server" \in ephemeral
                 PROVE  /\ "client" \in ephemeral
                        /\ negotiated["kex"] = Agreed("kex")
                        /\ \A d \in Sides : side[d] = Offer[d]
      OBVIOUS
    <3>1. \A d \in Sides : counted[d] >= 2
      BY <2>2, TwoSides
    <3>2. \A d \in Sides : side[d] = Offer[d] /\ pc[d] \notin InKexinit
      BY <3>1, OfferSeen
    <3>3. "client" \in ephemeral
      BY <2>1, <3>1, TwoSides DEF Parser
    <3>4. \A d \in Sides : counted[d] > 0
      BY <2>1, <3>1
    <3>5. Exchanged
      BY <3>2, <3>4 DEF Exchanged
    <3> QED  BY <3>2, <3>3, <3>5, KexFacts
  <2>4. forwarded["server"] >= 2 * L + 10 /\ L =< 2 => \A d \in Sides : counted[d] = 3
    <3> SUFFICES ASSUME forwarded["server"] >= 2 * L + 10, L =< 2
                 PROVE  \A d \in Sides : counted[d] = 3
      OBVIOUS
    <3>1. counted["server"] = 3
      BY <2>1 DEF Passed
    <3>2. sent["server"] > 2 * L + 8
      BY <2>1, TwoSides DEF Ordered
    <3>3. forwarded["client"] >= 8
      BY <2>1, <3>2 DEF Causal
    <3>4. counted["client"] = 3
      BY <2>1, <3>3, TwoSides DEF Passed
    <3> QED  BY <3>1, <3>4, TwoSides
  <2>5. (\A d \in Sides : counted[d] = 3) => ephemeral = Sides
    BY <2>1 DEF Parser
  <2>6. outcome \in {"exit 0", "row 0"} => forwarded["server"] >= 2 * L + 10
    BY DEF SInv, Audited
  <2>7. outcome \in {"exit 0", "row 0"} /\ L =< 2 =>
          ephemeral = Sides /\ \A d \in Sides : counted[d] = 3
    <3> HIDE DEF L
    <3> QED  BY <2>4, <2>5, <2>6, Zenon
  <2> QED  BY <2>3, <2>7 DEF SummaryIsCausal
<1> QED  BY <1>1, Invariance, PTL

\* However a stream that starts with the identification is cut into chunks,
\* every whole unit up to NEWKEYS is parsed when a recv waits and none beyond
\* it, and an audit that failed had not received the KEXINIT.
THEOREM ChunkingDoesNotMatter == Spec => []ChunksDoNotMatter
<1>1. SInv => ChunksDoNotMatter
  <2> SUFFICES ASSUME SInv, NEW d \in Sides, script[d][1] = "ident"
               PROVE  LET whole == received[d] \div 2 IN
                      /\ pc[d] = "recv" => parsed[d] = (IF whole < 4 THEN whole ELSE 4)
                      /\ encrypted[d] <=> parsed[d] = 4
                      /\ outcome = "error" /\ d = "server" => side[d]["kex"] = Empty /\ whole < 2
    BY DEF ChunksDoNotMatter
  <2>1. /\ Lines(d) \in Nat /\ \A i \in 1 .. Lines(d) : script[d][i] = "line"
        /\ received[d] \in Nat /\ parsed[d] \in Nat /\ counted[d] \in Nat
        /\ identDone[d] \in BOOLEAN /\ encrypted[d] \in BOOLEAN
        /\ Ordered(d) /\ Parser(d) /\ Flushed(d)
    BY DEF SInv, Types, ScriptOK
  <2>2. Lines(d) = 0
    <3>1. Lines(d) >= 1 => 1 \in 1 .. Lines(d)
      BY <2>1
    <3> QED  BY <2>1, <3>1
  <2> DEFINE whole == received[d] \div 2
  <2>3. whole \in Nat /\ 2 * whole =< received[d] /\ received[d] =< 2 * whole + 1
    BY <2>1
  <2> HIDE DEF whole
  <2>4. encrypted[d] <=> parsed[d] = 4
    BY <2>1, <2>2 DEF Parser
  <2>5. pc[d] = "recv" => parsed[d] = (IF whole < 4 THEN whole ELSE 4)
    <3> SUFFICES ASSUME pc[d] = "recv"  PROVE parsed[d] = (IF whole < 4 THEN whole ELSE 4)
      OBVIOUS
    <3>1. /\ identDone[d] => received[d] < 2 * (parsed[d] + 1) \/ counted[d] = 3
          /\ ~identDone[d] => received[d] < 2
      BY <2>1, <2>2 DEF Flushed, Fed
    <3>2. /\ 2 * parsed[d] =< received[d]
          /\ ~identDone[d] => parsed[d] = 0
          /\ identDone[d] => parsed[d] = 1 + counted[d] /\ counted[d] =< 3
      BY <2>1, <2>2 DEF Ordered, Parser
    <3>3. CASE ~identDone[d]
      <4>1. parsed[d] = 0 /\ received[d] < 2
        BY <3>1, <3>2, <3>3
      <4>2. whole = 0
        BY <2>1, <2>3, <4>1
      <4> QED  BY <4>1, <4>2
    <3>4. CASE identDone[d] /\ counted[d] = 3
      BY <2>1, <2>3, <3>2, <3>4
    <3>5. CASE identDone[d] /\ counted[d] # 3
      <4>1. parsed[d] = whole /\ whole < 4
        BY <2>1, <2>3, <3>1, <3>2, <3>5
      <4> QED  BY <4>1
    <3> QED  BY <3>3, <3>4, <3>5
  <2>6. outcome = "error" /\ d = "server" => side[d]["kex"] = Empty /\ whole < 2
    <3>1. outcome = "error" /\ d = "server" => side[d]["kex"] = Empty /\ received[d] < 4
      BY <2>2 DEF SInv, Audited
    <3>2. received[d] < 4 => whole < 2
      BY <2>1, <2>3
    <3> QED  BY <3>1, <3>2, Zenon
  <2> QED  BY <2>4, <2>5, <2>6 DEF whole
<1> QED  BY <1>1, Invariance, PTL
===============================================================================
