--------------------------- MODULE TlsObserverProofs ---------------------------
(***************************************************************************)
(* Theorems about TlsObserver, for every matrix, every choice of groups,   *)
(* any number of key shares and every cut into chunks.                     *)
(***************************************************************************)
EXTENDS TlsObserver, SequenceTheorems, TLAPS

-------------------------------------------------------------------------------
(* The inductive invariant                                                  *)

ClientKinds == {"ch", "part", "rest", "fin", "alert"}
ServerKinds == {"hrr", "sh", "fin", "ticket", "alert"}
TlsRecord == [kind : ClientKinds \cup ServerKinds, groups : Seq(Groups), after : Nat]
MaybeGroup == Groups \cup {NoGroup}

Types ==
  /\ cell \in Cells
  /\ wire \in [Sides -> Seq(TlsRecord)]
  /\ closed \subseteq Sides
  /\ pc \in [Sides -> {"recv", "feed", "append", "ended", "none"}]
  /\ received \in [Sides -> Nat] /\ forwarded \in [Sides -> Nat] /\ parsed \in [Sides -> Nat]
  /\ records \in Seq([dir : Sides, place : Nat])
  /\ hello \in [shares : Seq(MaybeGroup), measured : Nat]
  /\ answer \in [hrr : BOOLEAN, hrrGroup : MaybeGroup, selected : MaybeGroup, measured : Nat]

\* Only what has been parsed is forwarded, whole records of it.
Ordered(d) ==
  /\ forwarded[d] =< received[d] /\ received[d] =< 2 * Len(wire[d])
  /\ 2 * parsed[d] =< received[d] /\ forwarded[d] =< 2 * parsed[d] + 1
  /\ pc[d] = "append" => 2 * (parsed[d] + 1) =< received[d]

\* Where nothing was started nothing is sent.
Started ==
  /\ pc["client"] = "none" <=> pc["server"] = "none"
  /\ pc["client"] = "none" => closed = Sides /\ \A d \in Sides : wire[d] = <<>>
  /\ ~Runs(cell) => pc["client"] = "none"

\* What the server sends: a retry, its hello, its Finished and a ticket; an
\* alert ends it.  Whatever is asked for or selected is common to the two ends.
ServerWire ==
  \A i \in DOMAIN wire["server"] :
    LET r == wire["server"][i] IN
    /\ r.kind \in ServerKinds
    /\ r.kind = "alert" => i = Len(wire["server"])
    /\ r.kind = "hrr" => i = 1 /\ (r.groups = <<>> \/ \E g \in Common : r.groups = <<g>>)
    /\ r.kind = "sh" => /\ i = 1 \/ (i = 2 /\ wire["server"][1].kind = "hrr")
                        /\ \E g \in Common : r.groups = <<g>>
    /\ r.kind \in {"fin", "ticket"} =>
         \E h \in DOMAIN wire["server"] : h < i /\ wire["server"][h].kind = "sh"

\* What the client sends: a hello in one record or two, another one after a
\* retry, and its Finished after the server's.
SecondShares == IF wire["server"][1].groups = <<>> THEN FirstShares ELSE wire["server"][1].groups

\* A record i that begins a hello comes first, or next to the only hello before it.
BeginsAt(i) ==
  i > 1 => /\ HasSent("server", "hrr") /\ wire["client"][i].groups = SecondShares
           /\ i - 1 \in Hellos(wire["client"])
           /\ \A j \in Hellos(wire["client"]) : j < i => j = i - 1

ClientWire ==
  \A i \in DOMAIN wire["client"] :
    LET r == wire["client"][i] IN
    /\ r.kind \in ClientKinds
    /\ r.kind = "alert" => i = Len(wire["client"])
    /\ i = 1 => r.kind \in {"ch", "part"}
    /\ r.kind = "rest" => /\ i > 1 /\ wire["client"][i - 1].kind = "part"
                          /\ r.groups = wire["client"][i - 1].groups
    /\ r.kind \in {"ch", "part"} => BeginsAt(i)
    /\ r.kind = "fin" => \E k \in DOMAIN wire["server"] :
                           wire["server"][k].kind = "fin" /\ 2 * k =< forwarded["server"]

\* The hello p that the server took a share from is the client's last one.
TakenFrom(p, h) ==
  /\ p \in Hellos(wire["client"]) /\ \A j \in Hellos(wire["client"]) : j =< p
  /\ 2 * p =< forwarded["client"]
  /\ wire["server"][h].groups[1] \in Names(wire["client"][p].groups)
  /\ HasSent("server", "hrr") <=> \E j \in Hellos(wire["client"]) : j < p

Answered ==
  /\ \A h \in DOMAIN wire["server"] :
       wire["server"][h].kind = "sh" => \E p \in DOMAIN wire["client"] : TakenFrom(p, h)
  /\ HasSent("server", "hrr") => Hellos(wire["client"]) # {}

\* How many records of a direction the fields of the Summary stand for.
Seen(d) == IF pc[d] = "append" THEN parsed[d] + 1 ELSE parsed[d]

AnswerOK ==
  LET sw == wire["server"] IN
  /\ answer.hrr <=> \E i \in DOMAIN sw : i =< Seen("server") /\ sw[i].kind = "hrr"
  /\ answer.hrrGroup # NoGroup =>
       1 \in DOMAIN sw /\ sw[1].kind = "hrr" /\ sw[1].groups = <<answer.hrrGroup>>
  /\ \A h \in DOMAIN sw : h =< Seen("server") /\ sw[h].kind = "sh" =>
       answer.selected = sw[h].groups[1] /\ answer.measured = h

\* A whole hello after which none has begun is what the shares are taken from.
HelloOK ==
  LET cw == wire["client"] IN
  \A p \in DOMAIN cw :
    /\ p =< Seen("client") /\ cw[p].kind = "ch"
    /\ \A j \in DOMAIN cw : j =< Seen("client") /\ cw[j].kind \in {"ch", "part", "rest"} => j =< p
    => hello.shares = cw[p].groups /\ hello.measured > 0

\* The list of records has those of each direction, each one once and in order.
Listed ==
  /\ \A i \in DOMAIN records : records[i].place \in 1 .. parsed[records[i].dir]
  /\ \A d \in Sides : \A n \in 1 .. parsed[d] :
       \E i \in DOMAIN records : records[i] = [dir |-> d, place |-> n]
  /\ \A i, j \in DOMAIN records :
       i < j /\ records[i].dir = records[j].dir => records[i].place < records[j].place

\* A record comes after those of the peer that its sender had received.
Causal ==
  /\ \A d \in Sides : \A m \in DOMAIN wire[d] : 2 * wire[d][m].after =< forwarded[Other(d)]
  /\ \A d \in Sides : \A m, n \in DOMAIN wire[d] : m =< n => wire[d][m].after =< wire[d][n].after
  /\ \A i \in DOMAIN records :
       \A n \in 1 .. wire[records[i].dir][records[i].place].after :
         \E k \in 1 .. i - 1 : records[k] = [dir |-> Other(records[i].dir), place |-> n]

TInv == /\ Types /\ (\A d \in Sides : Ordered(d)) /\ Started
        /\ ServerWire /\ ClientWire /\ Answered
        /\ AnswerOK /\ HelloOK /\ Listed /\ Causal

-------------------------------------------------------------------------------
(* What the definitions say                                                 *)

LEMMA TwoSides ==
  /\ Sides = {"client", "server"} /\ "client" \in Sides /\ "server" \in Sides
  /\ Other("client") = "server" /\ Other("server") = "client"
BY DEF Sides, Other

\* The counters of a direction and the stream they count.
LEMMA SideFacts ==
  ASSUME TInv, NEW e \in Sides
  PROVE  /\ Other(e) \in Sides /\ Other(e) # e /\ Other(Other(e)) = e
         /\ wire[e] \in Seq(TlsRecord) /\ Len(wire[e]) \in Nat
         /\ DOMAIN wire[e] = 1 .. Len(wire[e])
         /\ \A i \in DOMAIN wire[e] : /\ i \in Nat /\ i >= 1 /\ i =< Len(wire[e])
                                      /\ wire[e][i].after \in Nat
                                      /\ wire[e][i].groups \in Seq(Groups)
         /\ received[e] \in Nat /\ forwarded[e] \in Nat /\ parsed[e] \in Nat
         /\ forwarded[e] =< received[e] /\ received[e] =< 2 * Len(wire[e])
         /\ 2 * parsed[e] =< received[e] /\ forwarded[e] =< 2 * parsed[e] + 1
         /\ parsed[e] =< Len(wire[e])
         /\ Seen(e) \in Nat /\ parsed[e] =< Seen(e) /\ Seen(e) =< parsed[e] + 1
         /\ Seen(e) =< Len(wire[e]) /\ 2 * Seen(e) =< received[e]
<1> DEFINE w == wire[e]
           s == Seen(e)
           f == forwarded[e]
           r == received[e]
           p == parsed[e]
<1>1. w \in Seq(TlsRecord) /\ r \in Nat /\ f \in Nat /\ p \in Nat
  BY DEF TInv, Types
<1>2. /\ f =< r /\ r =< 2 * Len(w) /\ 2 * p =< r /\ f =< 2 * p + 1
      /\ pc[e] = "append" => 2 * (p + 1) =< r
  BY DEF TInv, Ordered
<1>3. s = IF pc[e] = "append" THEN p + 1 ELSE p
  BY DEF Seen
<1> HIDE DEF w, s, f, r, p
<1>4. Len(w) \in Nat /\ DOMAIN w = 1 .. Len(w) /\ \A i \in DOMAIN w : w[i] \in TlsRecord
  BY <1>1
<1>5. \A i \in DOMAIN w : w[i].after \in Nat /\ w[i].groups \in Seq(Groups)
  BY <1>4 DEF TlsRecord
<1>6. s \in Nat /\ p =< s /\ s =< p + 1 /\ 2 * s =< r
  BY <1>1, <1>2, <1>3
<1>7. p =< Len(w) /\ s =< Len(w)
  BY <1>1, <1>2, <1>4, <1>6
<1>8. Other(e) \in Sides /\ Other(e) # e /\ Other(Other(e)) = e
  BY TwoSides
<1>9. \A i \in DOMAIN w : i \in Nat /\ i >= 1 /\ i =< Len(w)
  BY <1>4
<1> QED  BY <1>1, <1>2, <1>4, <1>5, <1>6, <1>7, <1>8, <1>9 DEF w, s, f, r, p

\* The entries of the list stand for records that have been sent.
LEMMA ListFacts ==
  ASSUME TInv
  PROVE  /\ Len(records) \in Nat /\ DOMAIN records = 1 .. Len(records)
         /\ \A i \in DOMAIN records :
              /\ records[i] = [dir |-> records[i].dir, place |-> records[i].place]
              /\ records[i].dir \in Sides /\ records[i].place \in Nat
              /\ records[i].place \in 1 .. parsed[records[i].dir]
              /\ records[i].place \in DOMAIN wire[records[i].dir]
<1> DEFINE S == [dir : Sides, place : Nat]
<1>1. records \in Seq(S)
  BY DEF TInv, Types
<1>2. \A r \in S : r.dir \in Sides /\ r.place \in Nat /\ r = [dir |-> r.dir, place |-> r.place]
  OBVIOUS
<1> HIDE DEF S
<1>3. Len(records) \in Nat /\ DOMAIN records = 1 .. Len(records) /\ \A i \in DOMAIN records : records[i] \in S
  BY <1>1
<1>4. ASSUME NEW i \in DOMAIN records
      PROVE  /\ records[i] = [dir |-> records[i].dir, place |-> records[i].place]
             /\ records[i].dir \in Sides /\ records[i].place \in Nat
             /\ records[i].place \in 1 .. parsed[records[i].dir]
             /\ records[i].place \in DOMAIN wire[records[i].dir]
  <2> DEFINE e == records[i].dir
             m == records[i].place
  <2>1. e \in Sides /\ m \in Nat /\ records[i] = [dir |-> e, place |-> m]
    BY <1>2, <1>3
  <2>2. m \in 1 .. parsed[e]
    BY DEF TInv, Listed
  <2> HIDE DEF e, m
  <2>3. parsed[e] \in Nat /\ Len(wire[e]) \in Nat /\ parsed[e] =< Len(wire[e])
        /\ DOMAIN wire[e] = 1 .. Len(wire[e])
    BY <2>1, SideFacts
  <2>4. m \in DOMAIN wire[e]
    BY <2>2, <2>3
  <2> QED  BY <2>1, <2>2, <2>4 DEF e, m
<1> QED  BY <1>3, <1>4

\* The groups of a cell are groups, and each end offers one at least.
LEMMA GroupsOffered ==
  ASSUME Types, NEW d \in Sides
  PROVE  /\ Offered(d) \in Seq(Groups) /\ Len(Offered(d)) >= 1
         /\ cell[d] # "pyssl" => Offered(d) = <<cell.group>>
         /\ cell.group \in Groups
<1>1. cell \in [server : Impls, client : Impls, group : Groups]
  BY CellsAssumption DEF Types
<1>2. cell.group \in Groups
  BY <1>1
<1>3. LibraryDefault \in Seq(Groups) /\ Len(LibraryDefault) >= 1
  BY GroupsAssumption
<1>4. <<cell.group>> \in Seq(Groups) /\ Len(<<cell.group>>) = 1
  BY <1>2
<1> QED  BY <1>2, <1>3, <1>4 DEF Offered

\* The shares of the first hello are a list of groups.
LEMMA SharesOffered ==
  ASSUME Types
  PROVE  FirstShares \in Seq(Groups)
<1> DEFINE o == Offered("client")
           n == IF Len(o) < Shares THEN Len(o) ELSE Shares
<1>1. o \in Seq(Groups) /\ Len(o) >= 1
  BY GroupsOffered, TwoSides
<1>2. n \in 1 .. Len(o)
  BY <1>1, BoundsAssumption
<1> HIDE DEF o, n
<1>3. SubSeq(o, 1, n) \in Seq(Groups)
  BY <1>1, <1>2
<1> QED  BY <1>3 DEF FirstShares, o, n

\* The records an endpoint has got are the first ones its peer has sent.
LEMMA GotFacts ==
  ASSUME Types, NEW d \in Sides, Ordered(Other(d))
  PROVE  /\ Len(Got(d)) = forwarded[Other(d)] \div 2
         /\ DOMAIN Got(d) = 1 .. forwarded[Other(d)] \div 2
         /\ forwarded[Other(d)] \div 2 \in Nat
         /\ \A i \in 1 .. forwarded[Other(d)] \div 2 :
              i \in DOMAIN wire[Other(d)] /\ Got(d)[i] = wire[Other(d)][i] /\ 2 * i =< forwarded[Other(d)]
         /\ \A i \in Nat : i >= 1 /\ 2 * i =< forwarded[Other(d)] => i \in 1 .. forwarded[Other(d)] \div 2
         /\ 2 * (forwarded[Other(d)] \div 2) =< forwarded[Other(d)]
<1> DEFINE w == wire[Other(d)]
           f == forwarded[Other(d)]
           n == f \div 2
<1>1. Other(d) \in Sides
  BY TwoSides
<1>2. w \in Seq(TlsRecord) /\ f \in Nat /\ f =< 2 * Len(w)
  <2>1. w \in Seq(TlsRecord) /\ f \in Nat /\ received[Other(d)] \in Nat
    BY <1>1 DEF Types
  <2> QED  BY <2>1 DEF Ordered
<1>3. Got(d) = SubSeq(w, 1, n)
  BY DEF Got
<1> HIDE DEF w, f
<1>4. n \in Nat /\ 2 * n =< f /\ f =< 2 * n + 1 /\ n =< Len(w)
  BY <1>2
<1> HIDE DEF n
<1>5. /\ Len(SubSeq(w, 1, n)) = n /\ DOMAIN SubSeq(w, 1, n) = 1 .. n
      /\ \A i \in 1 .. n : i \in DOMAIN w /\ SubSeq(w, 1, n)[i] = w[i]
  BY <1>2, <1>4
<1>6. \A i \in 1 .. n : 2 * i =< f
  BY <1>2, <1>4
<1>7. \A i \in Nat : i >= 1 /\ 2 * i =< f => i \in 1 .. n
  BY <1>2, <1>4
<1> QED  BY <1>3, <1>4, <1>5, <1>6, <1>7 DEF n, w, f

\* A record received is one that the peer has sent.
LEMMA GotIsSent ==
  ASSUME TInv, NEW d \in Sides, NEW kind, HasGot(d, kind)
  PROVE  \E i \in DOMAIN wire[Other(d)] :
           wire[Other(d)][i].kind = kind /\ 2 * i =< forwarded[Other(d)]
BY GotFacts, TwoSides DEF TInv, HasGot

\* There is one ServerHello, and one HelloRetryRequest in front of it.
LEMMA OneHello ==
  ASSUME Types, ServerWire, NEW g \in DOMAIN wire["server"], NEW h \in DOMAIN wire["server"],
         wire["server"][g].kind = "sh", wire["server"][h].kind = "sh"
  PROVE  g = h
BY DEF ServerWire

\* The hellos the server has got are among those the client has sent.
LEMMA GotHellos ==
  ASSUME TInv, NEW i
  PROVE  /\ i \in Hellos(Got("server")) <=>
             i \in Hellos(wire["client"]) /\ 2 * i =< forwarded["client"]
<1>1. /\ DOMAIN Got("server") = 1 .. forwarded["client"] \div 2
      /\ \A j \in 1 .. forwarded["client"] \div 2 :
           /\ j \in DOMAIN wire["client"] /\ Got("server")[j] = wire["client"][j]
           /\ 2 * j =< forwarded["client"]
      /\ \A j \in Nat : j >= 1 /\ 2 * j =< forwarded["client"] => j \in 1 .. forwarded["client"] \div 2
  BY GotFacts, TwoSides DEF TInv
<1>2. \A j \in DOMAIN wire["client"] : j \in Nat /\ j >= 1
  BY TwoSides DEF TInv, Types
<1> QED  BY <1>1, <1>2 DEF Hellos

\* A second hello follows a retry, asks for what that asked for, and is the last.
LEMMA SecondHello ==
  ASSUME TInv, NEW i \in Hellos(wire["client"]), NEW j \in Hellos(wire["client"]), j < i
  PROVE  /\ HasSent("server", "hrr") /\ wire["client"][i].groups = SecondShares
         /\ \A k \in Hellos(wire["client"]) : k =< i
<1> DEFINE cw == wire["client"]
           begin(k) == IF cw[k].kind = "ch" THEN k ELSE k - 1
<1>1. \A k \in DOMAIN cw : k \in Nat /\ k >= 1 /\ \A n \in Nat : n >= 1 /\ n =< k => n \in DOMAIN cw
  BY SideFacts, TwoSides
<1>2. ASSUME NEW k \in Hellos(cw)
      PROVE  /\ k \in DOMAIN cw /\ k \in Nat /\ begin(k) \in DOMAIN cw /\ begin(k) \in Nat
             /\ cw[k].kind \in {"ch", "rest"} /\ cw[begin(k)].kind \in {"ch", "part"}
             /\ begin(k) = k \/ (begin(k) = k - 1 /\ begin(k) \notin Hellos(cw))
             /\ cw[begin(k)].groups = cw[k].groups /\ BeginsAt(begin(k))
  <2>1. k \in DOMAIN cw /\ cw[k].kind \in {"ch", "rest"}
    BY DEF Hellos
  <2>2. CASE cw[k].kind = "ch"
    BY <1>1, <2>1, <2>2 DEF TInv, ClientWire
  <2>3. CASE cw[k].kind = "rest"
    <3>1. k > 1 /\ cw[k - 1].kind = "part" /\ cw[k].groups = cw[k - 1].groups
      BY <2>1, <2>3 DEF TInv, ClientWire
    <3>2. begin(k) = k - 1 /\ k - 1 \in Nat /\ k - 1 >= 1 /\ k - 1 =< k
      BY <1>1, <2>1, <2>3, <3>1
    <3>3. k - 1 \in DOMAIN cw
      BY <1>1, <2>1, <3>2
    <3>4. k - 1 \notin Hellos(cw)
      BY <3>1 DEF Hellos
    <3>5. BeginsAt(k - 1)
      BY <3>1, <3>3 DEF TInv, ClientWire
    <3> QED  BY <1>1, <2>1, <3>1, <3>2, <3>3, <3>4, <3>5
  <2> QED  BY <2>1, <2>2, <2>3
<1> HIDE DEF begin
<1>3. \A k \in Hellos(cw) : \A n \in Hellos(cw) : n < k => n < begin(k)
  <2> TAKE k \in Hellos(cw)
  <2> TAKE n \in Hellos(cw)
  <2> HAVE n < k
  <2>1. n \in Nat /\ k \in Nat /\ begin(k) \in Nat
    BY <1>2
  <2>2. CASE begin(k) = k
    BY <2>2
  <2>3. CASE begin(k) = k - 1 /\ begin(k) \notin Hellos(cw)
    <3>1. n # k - 1
      BY <2>3
    <3> QED  BY <2>1, <2>3, <3>1
  <2> QED  BY <1>2, <2>2, <2>3
<1>4. ASSUME NEW k \in Hellos(cw), NEW n \in Hellos(cw), n < k
      PROVE  /\ HasSent("server", "hrr") /\ cw[k].groups = SecondShares
             /\ \A q \in Hellos(cw) : q < k => q = n
  <2>1. n \in Nat /\ n \in DOMAIN cw /\ begin(k) \in Nat /\ n < begin(k)
    BY <1>2, <1>3, <1>4
  <2>2. begin(k) > 1
    BY <1>1, <2>1
  <2>3. /\ HasSent("server", "hrr") /\ cw[begin(k)].groups = SecondShares
        /\ \A q \in Hellos(cw) : q < begin(k) => q = begin(k) - 1
    BY <1>2, <2>2 DEF BeginsAt
  <2> QED  BY <1>2, <1>3, <2>1, <2>3
<1>5. ASSUME NEW k \in Hellos(cw), ~(k =< i)  PROVE FALSE
  <2>1. i \in Nat /\ j \in Nat /\ k \in Nat /\ i < k /\ j < k
    BY <1>2, <1>5
  <2>2. i = j
    BY <1>4, <2>1
  <2> QED  BY <2>1, <2>2
<1> QED  BY <1>4, <1>5

\* When the server has taken a share, no part of a hello is left over: a part
\* comes before the hello the share was taken from.
LEMMA NoPartAfter ==
  ASSUME TInv, NEW h \in DOMAIN wire["server"], NEW p \in DOMAIN wire["client"], TakenFrom(p, h),
         NEW i \in DOMAIN wire["client"], wire["client"][i].kind = "part"
  PROVE  i < p
<1> DEFINE cw == wire["client"]
<1>1. /\ p \in Hellos(cw) /\ \A j \in Hellos(cw) : j =< p
      /\ HasSent("server", "hrr") <=> \E j \in Hellos(cw) : j < p
  BY DEF TakenFrom
<1>2. \A k \in DOMAIN cw : k \in Nat /\ k >= 1
  BY SideFacts, TwoSides
<1>3. \A j \in Hellos(cw) : j \in DOMAIN cw /\ cw[j].kind \in {"ch", "rest"}
  BY DEF Hellos
<1>4. BeginsAt(i) /\ i # p
  BY <1>1, <1>3 DEF TInv, ClientWire
<1>5. SUFFICES ASSUME i > p  PROVE FALSE
  BY <1>2, <1>4
<1>6. i > 1
  BY <1>2, <1>5
<1>7. HasSent("server", "hrr") /\ \A j \in Hellos(cw) : j < i => j = i - 1
  BY <1>4, <1>6 DEF BeginsAt
<1>8. PICK j \in Hellos(cw) : j < p
  BY <1>1, <1>7
<1>9. j \in Nat /\ p \in Nat /\ i \in Nat /\ j < i /\ p < i
  BY <1>2, <1>3, <1>5, <1>8
<1>10. j = i - 1 /\ p = i - 1
  BY <1>1, <1>7, <1>8, <1>9
<1> QED  BY <1>8, <1>9, <1>10

\* The server's hello in the streams of the two ends.
LEMMA HelloWhenSent ==
  ASSUME TInv, NEW kind \in {"fin", "ticket", "sh"}, HasSent("server", kind)
  PROVE  \E h \in DOMAIN wire["server"] : /\ wire["server"][h].kind = "sh"
                                          /\ \E p \in DOMAIN wire["client"] : TakenFrom(p, h)
<1>1. PICK i \in DOMAIN wire["server"] : wire["server"][i].kind = kind
  BY DEF HasSent
<1>2. \E h \in DOMAIN wire["server"] : wire["server"][h].kind = "sh"
  BY <1>1 DEF TInv, ServerWire
<1> QED  BY <1>2 DEF TInv, Answered

\* Nothing was sent, parsed or shown.
LEMMA InitInv == Init => TInv
<1> SUFFICES ASSUME Init  PROVE TInv
  OBVIOUS
<1>1. /\ \A d \in Sides : /\ wire[d] = <<>> /\ received[d] = 0 /\ forwarded[d] = 0 /\ parsed[d] = 0
                          /\ pc[d] = pc["client"]
      /\ pc["client"] \in {"recv", "none"} /\ pc["server"] = pc["client"]
  BY TwoSides DEF Init
<1>2. Types
  <2>1. /\ wire \in [Sides -> Seq(TlsRecord)] /\ received \in [Sides -> Nat]
        /\ forwarded \in [Sides -> Nat] /\ parsed \in [Sides -> Nat]
        /\ pc \in [Sides -> {"recv", "feed", "append", "ended", "none"}]
        /\ closed \subseteq Sides /\ cell \in Cells
    BY DEF Init
  <2>2. records \in Seq([dir : Sides, place : Nat])
    BY DEF Init
  <2>3. /\ hello \in [shares : Seq(MaybeGroup), measured : Nat]
        /\ answer \in [hrr : BOOLEAN, hrrGroup : MaybeGroup, selected : MaybeGroup, measured : Nat]
    BY DEF Init, MaybeGroup
  <2> QED  BY <2>1, <2>2, <2>3 DEF Types
<1>3. \A d \in Sides : Ordered(d)
  BY <1>1 DEF Ordered
<1>4. Started
  BY <1>1 DEF Init, Started
<1>5. DOMAIN wire["client"] = {} /\ DOMAIN wire["server"] = {} /\ \A d \in Sides : DOMAIN wire[d] = {}
  BY <1>1, TwoSides
<1>6. ServerWire /\ ClientWire /\ Answered
  BY <1>5 DEF ServerWire, ClientWire, Answered, HasSent
<1>7. answer.hrr = FALSE /\ answer.hrrGroup = NoGroup /\ hello.measured = 0
  BY DEF Init
<1>8. AnswerOK
  BY <1>5, <1>7 DEF AnswerOK
<1>9. HelloOK
  BY <1>5, <1>7 DEF HelloOK
<1>10. Listed /\ Causal
  <2>1. DOMAIN records = {}
    BY DEF Init
  <2>2. \A d \in Sides : 1 .. parsed[d] = {}
    BY <1>1
  <2> QED  BY <1>5, <2>1, <2>2 DEF Listed, Causal
<1> QED  BY <1>2, <1>3, <1>4, <1>6, <1>8, <1>9, <1>10 DEF TInv

-------------------------------------------------------------------------------
(* The endpoints                                                            *)

\* A record that is sent comes last in its stream and depends on what has been
\* passed on; the observer is as it was.
LEMMA SendFacts ==
  ASSUME TInv, NEW d \in Sides, NEW kind \in ClientKinds \cup ServerKinds,
         NEW groups \in Seq(Groups), Send(d, kind, groups)
  PROVE  LET n == Len(wire[d]) + 1 IN
         /\ UNCHANGED <<cell, closed, pc, received, forwarded, parsed, records, hello, answer>>
         /\ d \notin closed /\ n \in Nat /\ n >= 1
         /\ \A i \in DOMAIN wire[d] : wire[d][i].kind # "alert"
         /\ DOMAIN wire[d] = 1 .. n - 1 /\ DOMAIN wire'[d] = 1 .. n /\ Len(wire'[d]) = n
         /\ \A i \in 1 .. n - 1 : wire'[d][i] = wire[d][i]
         /\ wire'[d][n].kind = kind /\ wire'[d][n].groups = groups
         /\ wire'[d][n].after = forwarded[Other(d)] \div 2
         /\ wire'[Other(d)] = wire[Other(d)]
         /\ Types' /\ \A e \in Sides : Ordered(e)'
<1> DEFINE r == [kind |-> kind, groups |-> groups, after |-> Len(Got(d))]
           w == wire[d]
<1>1. /\ UNCHANGED <<cell, closed, pc, received, forwarded, parsed, records, hello, answer>>
      /\ d \notin closed
      /\ \A i \in DOMAIN wire[d] : wire[d][i].kind # "alert"
      /\ wire' = [wire EXCEPT ![d] = Append(w, r)]
  BY DEF Send, HasSent, observer, summary
<1>2. w \in Seq(TlsRecord) /\ wire \in [Sides -> Seq(TlsRecord)]
  BY DEF TInv, Types
<1>3. r \in TlsRecord /\ r.kind = kind /\ r.groups = groups /\ r.after = forwarded[Other(d)] \div 2
  <2>1. Len(Got(d)) = forwarded[Other(d)] \div 2 /\ forwarded[Other(d)] \div 2 \in Nat
    BY GotFacts, TwoSides DEF TInv
  <2> QED  BY <2>1 DEF TlsRecord
<1>4. wire'[d] = Append(w, r) /\ \A e \in Sides : e # d => wire'[e] = wire[e]
  BY <1>1, <1>2
<1> HIDE DEF r, w
<1>5. /\ Append(w, r) \in Seq(TlsRecord) /\ Len(Append(w, r)) = Len(w) + 1
      /\ \A i \in 1 .. Len(w) : Append(w, r)[i] = w[i]
      /\ Append(w, r)[Len(w) + 1] = r
  BY <1>2, <1>3, AppendProperties
<1>6. Len(w) \in Nat /\ DOMAIN w = 1 .. Len(w) /\ DOMAIN Append(w, r) = 1 .. Len(w) + 1
  BY <1>2, <1>5
<1>7. Types'
  <2>1. wire' \in [Sides -> Seq(TlsRecord)]
    BY <1>1, <1>2, <1>5
  <2> QED  BY <1>1, <2>1 DEF TInv, Types
<1>8. ASSUME NEW e \in Sides  PROVE Ordered(e)'
  <2>1. Ordered(e) /\ received[e] \in Nat
    BY DEF TInv, Types
  <2>2. Len(wire'[e]) \in Nat /\ Len(wire[e]) \in Nat /\ Len(wire'[e]) >= Len(wire[e])
    <3>1. wire'[e] = wire[e] \/ Len(wire'[e]) = Len(wire[e]) + 1
      BY <1>4, <1>5 DEF w
    <3> QED  BY <3>1, SideFacts
  <2> QED  BY <1>1, <2>1, <2>2 DEF Ordered
<1>9. Other(d) \in Sides /\ Other(d) # d
  BY TwoSides
<1> QED  BY <1>1, <1>3, <1>4, <1>5, <1>6, <1>7, <1>8, <1>9 DEF w

\* What the observer has is not disturbed by a record that is sent.
LEMMA SendKeepsObserver ==
  ASSUME TInv, NEW d \in Sides, NEW kind \in ClientKinds \cup ServerKinds,
         NEW groups \in Seq(Groups), Send(d, kind, groups)
  PROVE  Started' /\ AnswerOK' /\ HelloOK' /\ Listed' /\ Causal'
<1> DEFINE n == Len(wire[d]) + 1
<1>1. /\ UNCHANGED <<cell, closed, pc, received, forwarded, parsed, records, hello, answer>>
      /\ d \notin closed /\ n \in Nat /\ n >= 1
      /\ DOMAIN wire[d] = 1 .. n - 1 /\ DOMAIN wire'[d] = 1 .. n
      /\ \A i \in 1 .. n - 1 : wire'[d][i] = wire[d][i]
      /\ wire'[d][n].after = forwarded[Other(d)] \div 2
      /\ wire'[Other(d)] = wire[Other(d)]
      /\ Types'
  BY SendFacts
<1> HIDE DEF n
<1>2. Started'
  <2>1. pc["client"] # "none"
    BY <1>1 DEF TInv, Started
  <2> QED  BY <1>1, <2>1 DEF TInv, Started, Runs, Supports
<1>3. \A e \in Sides : /\ Seen(e)' = Seen(e) /\ Seen(e) \in Nat
                       /\ \A i \in DOMAIN wire[e] : i \in DOMAIN wire'[e] /\ wire'[e][i] = wire[e][i]
                       /\ \A i \in DOMAIN wire'[e] : i =< Seen(e) => i \in DOMAIN wire[e]
  <2> TAKE e \in Sides
  <2>1. Seen(e)' = Seen(e) /\ Seen(e) \in Nat
    <3>1. pc' = pc /\ parsed' = parsed
      BY <1>1
    <3> QED  BY <3>1, SideFacts DEF Seen
  <2>2. \A i \in DOMAIN wire[e] : i \in DOMAIN wire'[e] /\ wire'[e][i] = wire[e][i]
    <3>1. CASE e = d
      <4>1. DOMAIN wire[d] = 1 .. n - 1 /\ DOMAIN wire'[d] = 1 .. n /\ n \in Nat
        BY <1>1
      <4>2. \A i \in 1 .. n - 1 : i \in 1 .. n /\ wire'[d][i] = wire[d][i]
        BY <1>1
      <4> QED  BY <3>1, <4>1, <4>2
    <3>2. CASE e # d
      <4>1. e = Other(d)
        BY <3>2, TwoSides
      <4> QED  BY <1>1, <4>1
    <3> QED  BY <3>1, <3>2
  <2>3. Seen(e) =< Len(wire[e]) /\ Len(wire[e]) \in Nat /\ DOMAIN wire[e] = 1 .. Len(wire[e])
    BY SideFacts
  <2>4. \A i \in DOMAIN wire'[e] : i \in Nat /\ i >= 1
    <3>1. wire' \in [Sides -> Seq(TlsRecord)]
      BY <1>1 DEF Types
    <3> QED  BY <3>1
  <2> QED  BY <2>1, <2>2, <2>3, <2>4
<1>4. AnswerOK'
  BY <1>1, <1>3, TwoSides, SMTT(60) DEF TInv, AnswerOK
<1>5. HelloOK'
  BY <1>1, <1>3, TwoSides, SMTT(60) DEF TInv, HelloOK
<1>6. Listed'
  BY <1>1 DEF TInv, Listed
<1>7. Causal'
  <2> DEFINE f(e) == forwarded[Other(e)]
  <2>1. \A e \in Sides : f(e) \in Nat /\ \A m \in DOMAIN wire[e] : 2 * wire[e][m].after =< f(e) /\ wire[e][m].after \in Nat
    <3> TAKE e \in Sides
    <3>1. f(e) \in Nat /\ wire[e] \in Seq(TlsRecord)
      BY TwoSides DEF TInv, Types
    <3>2. \A m \in DOMAIN wire[e] : wire[e][m] \in TlsRecord
      BY <3>1
    <3> QED  BY <3>1, <3>2 DEF TInv, Causal, TlsRecord
  <2>2. \A e \in Sides : \A m \in DOMAIN wire'[e] :
          \/ m \in DOMAIN wire[e] /\ wire'[e][m] = wire[e][m]
          \/ e = d /\ m = n /\ wire'[e][m].after = f(e) \div 2
    BY <1>1, TwoSides
  <2> HIDE DEF f
  <2>3. \A x \in Nat : 2 * (x \div 2) =< x /\ x \div 2 \in Nat /\ \A y \in Nat : 2 * y =< x => y =< x \div 2
    OBVIOUS
  <2>4. \A e \in Sides : \A m \in DOMAIN wire'[e] : 2 * wire'[e][m].after =< f(e)
    BY <2>1, <2>2, <2>3
  <2>5. \A e \in Sides : \A m, k \in DOMAIN wire'[e] : m =< k => wire'[e][m].after =< wire'[e][k].after
    <3> TAKE e \in Sides
    <3> TAKE m, k \in DOMAIN wire'[e]
    <3> HAVE m =< k
    <3>1. CASE m \in DOMAIN wire[e] /\ k \in DOMAIN wire[e]
      BY <1>3, <3>1 DEF TInv, Causal
    <3>2. CASE k \notin DOMAIN wire[e]
      <4>1. wire'[e][k].after = f(e) \div 2
        BY <2>2, <3>2
      <4>2. wire'[e][m].after = f(e) \div 2 \/ (wire'[e][m].after \in Nat /\ 2 * wire'[e][m].after =< f(e))
        BY <2>1, <2>2
      <4> QED  BY <2>1, <2>3, <4>1, <4>2
    <3>3. CASE m \notin DOMAIN wire[e]
      <4>1. e = d /\ m = n
        BY <2>2, <3>3
      <4>2. k = n
        BY <1>1, <4>1
      <4>3. k \notin DOMAIN wire[e]
        BY <3>3, <4>1, <4>2
      <4> QED  BY <3>2, <4>3
    <3> QED  BY <3>1, <3>2, <3>3
  <2>6. \A i \in DOMAIN records : wire'[records[i].dir][records[i].place] = wire[records[i].dir][records[i].place]
    <3> TAKE i \in DOMAIN records
    <3>1. records[i].dir \in Sides /\ records[i].place \in 1 .. parsed[records[i].dir]
      BY ListFacts
    <3>2. \A e \in Sides : \A k \in 1 .. parsed[e] : k \in DOMAIN wire[e]
      <4> TAKE e \in Sides
      <4>1. parsed[e] =< Len(wire[e]) /\ Len(wire[e]) \in Nat /\ parsed[e] \in Nat
        BY SideFacts
      <4>2. 1 .. parsed[e] \subseteq 1 .. Len(wire[e])
        BY <4>1
      <4> QED  BY <4>2, SideFacts
    <3> QED  BY <1>3, <3>1, <3>2
  <2> QED  BY <1>1, <2>4, <2>5, <2>6 DEF TInv, Causal, f
<1> QED  BY <1>2, <1>4, <1>5, <1>6, <1>7

\* Until it has sent its hello the server has sent a retry or nothing.
LEMMA ServerPlace ==
  ASSUME TInv, ~HasSent("server", "sh"), ~HasSent("server", "alert")
  PROVE  \/ Len(wire["server"]) = 0 /\ ~HasSent("server", "hrr")
         \/ Len(wire["server"]) = 1 /\ wire["server"][1].kind = "hrr"
<1> DEFINE sw == wire["server"]
<1>1. \A i \in DOMAIN sw : i = 1 /\ sw[i].kind = "hrr"
  BY DEF TInv, ServerWire, HasSent, ServerKinds
<1>2. Len(sw) \in Nat /\ DOMAIN sw = 1 .. Len(sw)
  BY SideFacts, TwoSides
<1>3. CASE Len(sw) = 0
  BY <1>2, <1>3 DEF HasSent
<1>4. CASE Len(sw) > 0
  <2>1. Len(sw) \in DOMAIN sw
    BY <1>2, <1>4
  <2> QED  BY <1>1, <2>1
<1> HIDE DEF sw
<1>5. Len(sw) = 0 \/ Len(sw) > 0
  BY <1>2
<1> QED  BY <1>3, <1>4, <1>5 DEF sw

\* A record of the server's that its guard allows keeps the invariant.
LEMMA ServerSends ==
  ASSUME TInv, NEW kind \in ServerKinds, NEW groups \in Seq(Groups), Send("server", kind, groups),
         kind = "hrr" => /\ Len(wire["server"]) = 0 /\ Hellos(wire["client"]) # {}
                         /\ groups = <<>> \/ \E g \in Common : groups = <<g>>,
         kind = "sh" => /\ \/ Len(wire["server"]) = 0
                           \/ Len(wire["server"]) = 1 /\ wire["server"][1].kind = "hrr"
                        /\ \E g \in Common : groups = <<g>>
                        /\ \E q \in Hellos(wire["client"]) :
                             /\ \A j \in Hellos(wire["client"]) : j =< q
                             /\ 2 * q =< forwarded["client"]
                             /\ groups[1] \in Names(wire["client"][q].groups)
                             /\ HasSent("server", "hrr") <=> \E j \in Hellos(wire["client"]) : j < q,
         kind \in {"fin", "ticket"} => HasSent("server", "sh")
  PROVE  TInv'
<1> DEFINE sw == wire["server"]
           cw == wire["client"]
           n == Len(sw) + 1
<1>1. /\ UNCHANGED <<cell, closed, pc, received, forwarded, parsed, records, hello, answer>>
      /\ n \in Nat /\ n >= 1
      /\ \A i \in DOMAIN sw : sw[i].kind # "alert"
      /\ DOMAIN sw = 1 .. n - 1 /\ DOMAIN sw' = 1 .. n /\ Len(sw') = n
      /\ \A i \in 1 .. n - 1 : sw'[i] = sw[i]
      /\ sw'[n].kind = kind /\ sw'[n].groups = groups
      /\ cw' = cw
      /\ Types' /\ \A e \in Sides : Ordered(e)'
  BY SendFacts, TwoSides
<1>2. Started' /\ AnswerOK' /\ HelloOK' /\ Listed' /\ Causal'
  BY SendKeepsObserver, TwoSides
<1>3. Common' = Common /\ FirstShares' = FirstShares
  BY <1>1 DEF Common, FirstShares, Offered
<1> HIDE DEF n
<1>4. /\ \A i \in DOMAIN sw : i \in DOMAIN sw' /\ sw'[i] = sw[i] /\ i < n /\ i \in Nat
      /\ \A i \in DOMAIN sw' : i \in DOMAIN sw \/ i = n
      /\ n \in DOMAIN sw'
      /\ 1 \in DOMAIN sw <=> n # 1
  BY <1>1
<1>5. Len(sw) = n - 1
  BY <1>1 DEF n
<1>6. HasSent("server", "hrr")' <=> HasSent("server", "hrr") \/ kind = "hrr"
  BY <1>1, <1>4 DEF HasSent
<1>7. ServerWire'
  <2> SUFFICES ASSUME NEW i \in DOMAIN sw'
               PROVE  LET r == sw'[i] IN
                      /\ r.kind \in ServerKinds
                      /\ r.kind = "alert" => i = Len(sw')
                      /\ r.kind = "hrr" => i = 1 /\ (r.groups = <<>> \/ \E g \in Common : r.groups = <<g>>)
                      /\ r.kind = "sh" => /\ i = 1 \/ (i = 2 /\ sw'[1].kind = "hrr")
                                          /\ \E g \in Common : r.groups = <<g>>
                      /\ r.kind \in {"fin", "ticket"} =>
                           \E h \in DOMAIN sw' : h < i /\ sw'[h].kind = "sh"
    BY <1>3 DEF ServerWire
  <2>1. CASE i \in DOMAIN sw
    <3>1. sw'[i] = sw[i] /\ sw[i].kind # "alert"
      BY <1>1, <1>4, <2>1
    <3>2. sw[i].kind = "sh" => /\ i = 1 \/ (i = 2 /\ sw'[1].kind = "hrr")
                               /\ \E g \in Common : sw[i].groups = <<g>>
      <4>1. sw[i].kind = "sh" => /\ i = 1 \/ (i = 2 /\ sw[1].kind = "hrr")
                                 /\ \E g \in Common : sw[i].groups = <<g>>
        BY <2>1 DEF TInv, ServerWire
      <4>2. n # 1 /\ sw'[1] = sw[1]
        <5>1. DOMAIN sw = 1 .. n - 1 /\ n \in Nat
          BY <1>1
        <5>2. 1 \in DOMAIN sw
          BY <5>1, <2>1
        <5> QED  BY <1>4, <5>2
      <4> QED  BY <4>1, <4>2
    <3>3. sw[i].kind \in {"fin", "ticket"} => \E h \in DOMAIN sw' : h < i /\ sw'[h].kind = "sh"
      <4>1. sw[i].kind \in {"fin", "ticket"} => \E h \in DOMAIN sw : h < i /\ sw[h].kind = "sh"
        BY <2>1 DEF TInv, ServerWire
      <4> QED  BY <1>4, <4>1
    <3>4. sw[i].kind \in ServerKinds
          /\ (sw[i].kind = "hrr" => i = 1 /\ (sw[i].groups = <<>> \/ \E g \in Common : sw[i].groups = <<g>>))
      BY <2>1 DEF TInv, ServerWire
    <3> QED  BY <3>1, <3>2, <3>3, <3>4
  <2>2. CASE i = n
    <3>1. sw'[i].kind = kind /\ sw'[i].groups = groups /\ i = Len(sw')
      BY <1>1, <2>2
    <3>2. kind = "sh" => i = 1 \/ (i = 2 /\ sw'[1].kind = "hrr")
      <4>1. Len(sw) = 0 => i = 1
        BY <1>1, <1>5, <2>2
      <4>2. Len(sw) = 1 => i = 2 /\ sw'[1] = sw[1]
        BY <1>1, <1>5, <2>2
      <4> QED  BY <4>1, <4>2
    <3>3. kind = "hrr" => i = 1
      BY <1>1, <1>5, <2>2
    <3>4. kind \in {"fin", "ticket"} => \E h \in DOMAIN sw' : h < i /\ sw'[h].kind = "sh"
      BY <1>4, <2>2 DEF HasSent
    <3> QED  BY <3>1, <3>2, <3>3, <3>4
  <2> QED  BY <1>4, <2>1, <2>2
<1>8. ClientWire'
  <2>1. HasSent("server", "hrr") => SecondShares' = SecondShares
    <3>1. HasSent("server", "hrr") => 1 \in DOMAIN sw
      BY DEF TInv, ServerWire, HasSent
    <3> QED  BY <1>3, <1>4, <3>1 DEF SecondShares
  <2>2. \A k \in DOMAIN sw : k \in DOMAIN sw' /\ sw'[k] = sw[k]
    BY <1>4
  <2>3. forwarded' = forwarded
    BY <1>1
  <2>4. cw' = cw /\ Hellos(cw)' = Hellos(cw)
    BY <1>1
  <2> SUFFICES ASSUME NEW i \in DOMAIN cw
               PROVE  LET r == cw[i] IN
                      /\ r.kind \in ClientKinds
                      /\ r.kind = "alert" => i = Len(cw)
                      /\ i = 1 => r.kind \in {"ch", "part"}
                      /\ r.kind = "rest" => /\ i > 1 /\ cw[i - 1].kind = "part"
                                            /\ r.groups = cw[i - 1].groups
                      /\ r.kind \in {"ch", "part"} => BeginsAt(i)'
                      /\ r.kind = "fin" => \E k \in DOMAIN sw' :
                                             sw'[k].kind = "fin" /\ 2 * k =< forwarded'["server"]
    BY <2>4 DEF ClientWire
  <2>5. cw[i].kind = "fin" => \E k \in DOMAIN sw' : sw'[k].kind = "fin" /\ 2 * k =< forwarded'["server"]
    <3>1. cw[i].kind = "fin" => \E k \in DOMAIN sw : sw[k].kind = "fin" /\ 2 * k =< forwarded["server"]
      BY DEF TInv, ClientWire
    <3> QED  BY <2>2, <2>3, <3>1
  <2>6. cw[i].kind \in {"ch", "part"} => BeginsAt(i)'
    <3>1. cw[i].kind \in {"ch", "part"} => BeginsAt(i)
      BY DEF TInv, ClientWire
    <3>2. BeginsAt(i) => BeginsAt(i)'
      BY <1>6, <2>1, <2>4 DEF BeginsAt
    <3> QED  BY <3>1, <3>2
  <2>7. LET r == cw[i] IN
        /\ r.kind \in ClientKinds
        /\ r.kind = "alert" => i = Len(cw)
        /\ i = 1 => r.kind \in {"ch", "part"}
        /\ r.kind = "rest" => i > 1 /\ cw[i - 1].kind = "part" /\ r.groups = cw[i - 1].groups
    BY DEF TInv, ClientWire
  <2> QED  BY <2>5, <2>6, <2>7
<1>9. Answered'
  <2>1. ASSUME NEW h \in DOMAIN sw', sw'[h].kind = "sh"
        PROVE  \E q \in DOMAIN cw' : TakenFrom(q, h)'
    <3>0. forwarded' = forwarded
      BY <1>1
    <3>1. CASE h \in DOMAIN sw
      <4>1. sw'[h] = sw[h] /\ sw[h].kind = "sh"
        BY <1>4, <2>1, <3>1
      <4>2. PICK q \in DOMAIN cw : TakenFrom(q, h)
        BY <3>1, <4>1 DEF TInv, Answered
      <4>3. kind # "hrr"
        BY <1>5, <1>4, <1>1, <3>1
      <4> QED  BY <1>1, <1>6, <3>0, <4>1, <4>2, <4>3 DEF TakenFrom
    <3>2. CASE h = n
      <4>1. kind = "sh" /\ sw'[h].groups = groups
        BY <1>1, <2>1, <3>2
      <4>2. PICK q \in Hellos(cw) : /\ \A j \in Hellos(cw) : j =< q
                                    /\ 2 * q =< forwarded["client"]
                                    /\ groups[1] \in Names(cw[q].groups)
                                    /\ HasSent("server", "hrr") <=> \E j \in Hellos(cw) : j < q
        BY <4>1
      <4>3. q \in DOMAIN cw
        BY <4>2 DEF Hellos
      <4>4. HasSent("server", "hrr")' <=> HasSent("server", "hrr")
        BY <1>6, <4>1
      <4> QED  BY <1>1, <3>0, <4>1, <4>2, <4>3, <4>4 DEF TakenFrom
    <3> QED  BY <1>4, <3>1, <3>2
  <2>2. HasSent("server", "hrr")' => Hellos(cw') # {}
    BY <1>1, <1>6 DEF TInv, Answered
  <2> QED  BY <2>1, <2>2 DEF Answered
<1> QED  BY <1>1, <1>2, <1>7, <1>8, <1>9 DEF TInv

\* A record of the client's that its guard allows keeps the invariant: a hello
\* is only sent while the server has not taken a share from the last one.
LEMMA ClientSends ==
  ASSUME TInv, NEW kind \in ClientKinds, NEW groups \in Seq(Groups), Send("client", kind, groups),
         kind = "rest" => LET n == Len(wire["client"]) IN
                          /\ n > 0 /\ wire["client"][n].kind = "part"
                          /\ groups = wire["client"][n].groups,
         kind \in {"ch", "part"} => \/ Len(wire["client"]) = 0
                                    \/ /\ HasSent("server", "hrr") /\ groups = SecondShares
                                       /\ Hellos(wire["client"]) = {Len(wire["client"])},
         kind = "alert" => Len(wire["client"]) > 0,
         kind = "fin" => /\ Len(wire["client"]) > 0
                         /\ \E k \in DOMAIN wire["server"] :
                              wire["server"][k].kind = "fin" /\ 2 * k =< forwarded["server"]
  PROVE  TInv'
<1> DEFINE sw == wire["server"]
           cw == wire["client"]
           n == Len(cw) + 1
<1>1. /\ UNCHANGED <<cell, closed, pc, received, forwarded, parsed, records, hello, answer>>
      /\ \A i \in DOMAIN cw : cw[i].kind # "alert"
      /\ DOMAIN cw' = 1 .. n /\ Len(cw') = n
      /\ cw'[n].kind = kind /\ cw'[n].groups = groups
      /\ sw' = sw
      /\ Types' /\ \A e \in Sides : Ordered(e)'
  BY SendFacts, TwoSides
<1>2. Started' /\ AnswerOK' /\ HelloOK' /\ Listed' /\ Causal'
  BY SendKeepsObserver, TwoSides
<1>3. Common' = Common /\ FirstShares' = FirstShares
  BY <1>1 DEF Common, FirstShares, Offered
<1>4. n \in Nat /\ n >= 1 /\ DOMAIN cw = 1 .. n - 1 /\ \A i \in 1 .. n - 1 : cw'[i] = cw[i]
  BY SendFacts, TwoSides
<1>5. Len(cw) = n - 1 /\ Len(cw) \in Nat
  BY <1>4
<1> HIDE DEF n
<1>6. /\ \A i \in DOMAIN cw : i \in DOMAIN cw' /\ cw'[i] = cw[i] /\ i < n /\ i \in Nat /\ i >= 1
      /\ \A i \in DOMAIN cw' : i \in DOMAIN cw \/ i = n
      /\ n \in DOMAIN cw'
      /\ 1 \in DOMAIN cw <=> n # 1
      /\ Len(cw) = 0 => n = 1 /\ DOMAIN cw = {}
      /\ Len(cw) = 1 => n = 2
      /\ Len(cw) > 0 => n > 1 /\ n # 1
  <2>1. DOMAIN cw' = 1 .. n
    BY <1>1
  <2> QED  BY <1>4, <1>5, <2>1
<1>7. HasSent("server", "hrr")' <=> HasSent("server", "hrr")
  BY <1>1 DEF HasSent
<1>8. /\ \A i : i \in Hellos(cw') <=> i \in Hellos(cw) \/ (i = n /\ kind \in {"ch", "rest"})
      /\ \A i \in Hellos(cw) : i \in DOMAIN cw
  BY <1>1, <1>6 DEF Hellos
<1>9. SecondShares' = SecondShares
  BY <1>1, <1>3 DEF SecondShares
<1>10. ServerWire'
  BY <1>1, <1>3 DEF TInv, ServerWire
<1>11. ClientWire'
  <2>0. HasSent("server", "hrr")' = HasSent("server", "hrr")
    BY <1>1 DEF HasSent
  <2> SUFFICES ASSUME NEW i \in DOMAIN cw'
               PROVE  LET r == cw'[i] IN
                      /\ r.kind \in ClientKinds
                      /\ r.kind = "alert" => i = Len(cw')
                      /\ i = 1 => r.kind \in {"ch", "part"}
                      /\ r.kind = "rest" => i > 1 /\ cw'[i - 1].kind = "part" /\ r.groups = cw'[i - 1].groups
                      /\ r.kind \in {"ch", "part"} => BeginsAt(i)'
                      /\ r.kind = "fin" => \E k \in DOMAIN sw :
                                             sw[k].kind = "fin" /\ 2 * k =< forwarded["server"]
    BY <1>1, <1>7, <1>9 DEF ClientWire
  <2>1. CASE i \in DOMAIN cw
    <3>1. cw'[i] = cw[i] /\ cw[i].kind # "alert"
      BY <1>1, <1>6, <2>1
    <3>2. /\ cw[i].kind \in ClientKinds
          /\ i = 1 => cw[i].kind \in {"ch", "part"}
          /\ cw[i].kind = "fin" => \E k \in DOMAIN sw : sw[k].kind = "fin" /\ 2 * k =< forwarded["server"]
      BY <2>1 DEF TInv, ClientWire
    <3>3. cw[i].kind = "rest" => i > 1 /\ cw'[i - 1].kind = "part" /\ cw[i].groups = cw'[i - 1].groups
      <4> HAVE cw[i].kind = "rest"
      <4>1. i > 1 /\ cw[i - 1].kind = "part" /\ cw[i].groups = cw[i - 1].groups
        BY <2>1 DEF TInv, ClientWire
      <4>2. i - 1 \in 1 .. n - 1
        BY <1>4, <2>1, <4>1
      <4> QED  BY <1>4, <4>1, <4>2
    <3>4. cw[i].kind \in {"ch", "part"} => BeginsAt(i)'
      <4>1. cw[i].kind \in {"ch", "part"} => BeginsAt(i)
        BY <2>1 DEF TInv, ClientWire
      <4>2. ASSUME BeginsAt(i), i > 1  PROVE BeginsAt(i)'
        <5>1. /\ HasSent("server", "hrr") /\ cw[i].groups = SecondShares
              /\ i - 1 \in Hellos(cw) /\ \A j \in Hellos(cw) : j < i => j = i - 1
          BY <4>2 DEF BeginsAt
        <5>2. i - 1 \in Hellos(cw')
          BY <1>8, <5>1
        <5>3. \A j \in Hellos(cw') : j < i => j = i - 1
          <6> TAKE j \in Hellos(cw')
          <6> HAVE j < i
          <6>1. j # n
            BY <1>4, <1>6, <2>1
          <6> QED  BY <1>8, <5>1, <6>1
        <5> QED  BY <1>9, <2>0, <3>1, <5>1, <5>2, <5>3 DEF BeginsAt
      <4> QED  BY <4>1, <4>2 DEF BeginsAt
    <3> QED  BY <3>1, <3>2, <3>3, <3>4
  <2>2. CASE i = n
    <3>1. cw'[i].kind = kind /\ cw'[i].groups = groups /\ i = Len(cw')
      BY <1>1, <2>2
    <3>2. i = 1 => kind \in {"ch", "part"}
      BY <1>5, <2>2 DEF ClientKinds
    <3>3. kind = "rest" => i > 1 /\ cw'[i - 1].kind = "part" /\ groups = cw'[i - 1].groups
      <4> HAVE kind = "rest"
      <4>1. Len(cw) = i - 1 /\ i - 1 \in 1 .. n - 1 /\ i > 1
        BY <1>4, <1>5, <2>2
      <4> QED  BY <1>4, <4>1
    <3>4. kind \in {"ch", "part"} => BeginsAt(i)'
      <4> SUFFICES ASSUME kind \in {"ch", "part"}, i > 1  PROVE BeginsAt(i)'
        BY DEF BeginsAt
      <4>1. Len(cw) = i - 1 /\ Len(cw) # 0
        BY <1>4, <1>5, <2>2
      <4>2. HasSent("server", "hrr") /\ groups = SecondShares /\ Hellos(cw) = {i - 1}
        BY <4>1
      <4>3. i - 1 \in Hellos(cw') /\ \A j \in Hellos(cw') : j < i => j = i - 1
        BY <1>4, <1>8, <2>2, <4>2
      <4> QED  BY <1>9, <2>0, <3>1, <4>2, <4>3 DEF BeginsAt
    <3> QED  BY <3>1, <3>2, <3>3, <3>4
  <2> QED  BY <1>6, <2>1, <2>2
<1>12. Answered'
  <2>1. ASSUME NEW h \in DOMAIN sw, sw[h].kind = "sh"
        PROVE  \E q \in DOMAIN cw' : TakenFrom(q, h)'
    <3>0. forwarded' = forwarded
      BY <1>1
    <3>1. PICK q \in DOMAIN cw : TakenFrom(q, h)
      BY <2>1 DEF TInv, Answered
    <3>2. /\ q \in Hellos(cw) /\ \A j \in Hellos(cw) : j =< q
          /\ HasSent("server", "hrr") => \E j \in Hellos(cw) : j < q
      BY <3>1 DEF TakenFrom
    <3>3. kind \notin {"ch", "rest"}
      <4>1. Hellos(cw) # {} /\ DOMAIN cw # {}
        BY <3>2
      <4>0. kind # "rest"
        <5> SUFFICES ASSUME kind = "rest"  PROVE FALSE
          OBVIOUS
        <5>1. n - 1 \in DOMAIN cw /\ cw[n - 1].kind = "part"
          BY <1>4, <1>5
        <5>2. n - 1 < q
          BY <2>1, <3>1, <5>1, NoPartAfter
        <5>3. q < n /\ q \in Nat
          BY <1>6
        <5> QED  BY <1>4, <5>2, <5>3
      <4>2. ASSUME HasSent("server", "hrr"), NEW x, Hellos(cw) = {x}  PROVE FALSE
        <5>1. PICK j \in Hellos(cw) : j < q
          BY <3>2, <4>2
        <5>2. j = q /\ q \in Nat
          BY <1>6, <3>2, <4>2
        <5> QED  BY <5>1, <5>2
      <4> QED  BY <1>6, <4>0, <4>1, <4>2
    <3>4. Hellos(cw') = Hellos(cw)
      BY <1>8, <3>3
    <3>5. q \in DOMAIN cw' /\ cw'[q] = cw[q]
      BY <1>6
    <3>6. TakenFrom(q, h)'
      BY <1>1, <1>7, <3>0, <3>1, <3>4, <3>5 DEF TakenFrom
    <3> QED  BY <3>5, <3>6
  <2>2. HasSent("server", "hrr")' => Hellos(cw') # {}
    BY <1>7, <1>8 DEF TInv, Answered
  <2> QED  BY <1>1, <2>1, <2>2 DEF Answered
<1> QED  BY <1>1, <1>2, <1>10, <1>11, <1>12 DEF TInv

\* The hello the server answers is the last one there is.
LEMMA UnansweredIsLast ==
  ASSUME TInv, NEW i \in Unanswered
  PROVE  /\ i \in Hellos(wire["client"]) /\ i \in DOMAIN wire["client"]
         /\ \A j \in Hellos(wire["client"]) : j =< i
         /\ 2 * i =< forwarded["client"]
         /\ HasSent("server", "hrr") <=> \E j \in Hellos(wire["client"]) : j < i
<1> DEFINE cw == wire["client"]
           got == Hellos(Got("server"))
<1>1. /\ i \in got /\ \A j \in got : j =< i
      /\ HasSent("server", "hrr") <=> \E j \in got : j < i
  BY DEF Unanswered
<1>2. \A j : j \in got <=> j \in Hellos(cw) /\ 2 * j =< forwarded["client"]
  BY GotHellos
<1>3. \A j \in Hellos(cw) : j \in DOMAIN cw /\ cw[j].kind \in {"ch", "rest"} /\ j \in Nat /\ j >= 1
  BY SideFacts, TwoSides DEF Hellos
<1> HIDE DEF got
<1>4. i \in Hellos(cw) /\ 2 * i =< forwarded["client"]
  BY <1>1, <1>2
<1>5. CASE HasSent("server", "hrr")
  <2>1. PICK j \in Hellos(cw) : j < i
    BY <1>1, <1>2, <1>5
  <2>2. \A k \in Hellos(cw) : k =< i
    BY <1>4, <2>1, SecondHello
  <2> QED  BY <1>3, <1>4, <1>5, <2>1, <2>2
<1>6. CASE ~HasSent("server", "hrr")
  <2>1. \A j \in Hellos(cw) : j = i
    <3> TAKE j \in Hellos(cw)
    <3>1. ~(j < i) /\ ~(i < j)
      BY <1>4, <1>6, SecondHello
    <3> QED  BY <1>3, <1>4, <3>1
  <2> QED  BY <1>3, <1>4, <1>6, <2>1
<1> QED  BY <1>5, <1>6

\* The groups a retry asked for.
LEMMA AskedIsFirst ==
  ASSUME TInv, HasSent("server", "hrr")
  PROVE  Asked = wire["server"][1].groups
<1> DEFINE sw == wire["server"]
           i == CHOOSE j \in DOMAIN sw : sw[j].kind = "hrr"
<1>1. \E j \in DOMAIN sw : sw[j].kind = "hrr"
  BY DEF HasSent
<1>2. i \in DOMAIN sw /\ sw[i].kind = "hrr"
  BY <1>1
<1> HIDE DEF i
<1>3. i = 1
  BY <1>2 DEF TInv, ServerWire
<1> QED  BY <1>3 DEF Asked, i

\* What an end of the handshake sends keeps the invariant.
LEMMA EndpointsInv ==
  ASSUME TInv, Endpoints
  PROVE  TInv'
<1> DEFINE sw == wire["server"]
           cw == wire["client"]
<1> USE TwoSides
<1>0. FirstShares \in Seq(Groups) /\ <<>> \in Seq(Groups)
  BY SharesOffered DEF TInv
<1>00. \A g \in Common : g \in Groups /\ <<g>> \in Seq(Groups) /\ <<g>>[1] = g
  BY GroupsOffered DEF TInv, Common, Names
<1>000. /\ Len(cw) \in Nat /\ DOMAIN cw = 1 .. Len(cw) /\ (cw = <<>> => Len(cw) = 0)
        /\ (cw # <<>> => Len(cw) > 0) /\ Len(sw) \in Nat /\ DOMAIN sw = 1 .. Len(sw)
  <2>1. cw \in Seq(TlsRecord) /\ sw \in Seq(TlsRecord)
    BY SideFacts
  <2> QED  BY <2>1
<1>1. ASSUME SendHello  PROVE TInv'
  <2>1. CASE cw = <<>> /\ BeginHello(FirstShares)
    <3>1. ASSUME NEW kind \in {"ch", "part"}, Send("client", kind, FirstShares)  PROVE TInv'
      BY <1>0, <1>000, <2>1, <3>1, ClientSends DEF ClientKinds
    <3> QED  BY <2>1, <3>1 DEF BeginHello
  <2>2. CASE /\ cw # <<>> /\ cw[Len(cw)].kind = "part"
             /\ Send("client", "rest", cw[Len(cw)].groups)
    <3>1. Len(cw) > 0 /\ cw[Len(cw)].groups \in Seq(Groups)
      <4>1. Len(cw) \in DOMAIN cw
        BY <1>000, <2>2
      <4> QED  BY <1>000, <2>2, <4>1, SideFacts
    <3> QED  BY <2>2, <3>1, ClientSends DEF ClientKinds
  <2>3. CASE /\ HasGot("client", "hrr") /\ Hellos(cw) = {Len(cw)}
             /\ BeginHello(IF Asked = <<>> THEN FirstShares ELSE Asked)
    <3>1. HasSent("server", "hrr")
      BY <2>3, GotIsSent DEF HasSent
    <3>2. (IF Asked = <<>> THEN FirstShares ELSE Asked) = SecondShares
      BY <3>1, AskedIsFirst DEF SecondShares
    <3>3. SecondShares \in Seq(Groups)
      <4>1. 1 \in DOMAIN sw
        BY <3>1 DEF TInv, ServerWire, HasSent
      <4> QED  BY <1>0, <4>1, SideFacts DEF SecondShares
    <3>4. ASSUME NEW kind \in {"ch", "part"}, Send("client", kind, SecondShares)  PROVE TInv'
      BY <2>3, <3>1, <3>3, <3>4, ClientSends DEF ClientKinds
    <3> QED  BY <2>3, <3>2, <3>4 DEF BeginHello
  <2> QED  BY <1>1, <2>1, <2>2, <2>3 DEF SendHello
<1>2. ASSUME SendAnswer  PROVE TInv'
  <2>1. PICK i \in Unanswered :
          \/ /\ ~HasSent("server", "hrr")
             /\ \/ \E g \in Common : Send("server", "hrr", <<g>>)
                \/ Common # {} /\ Send("server", "hrr", <<>>)
          \/ \E g \in Common \cap Names(cw[i].groups) : Send("server", "sh", <<g>>)
    BY <1>2 DEF SendAnswer
  <2>2. ~HasSent("server", "sh") /\ ~HasSent("server", "alert")
    BY <1>2, <2>1 DEF SendAnswer, Send
  <2>3. \/ Len(sw) = 0 /\ ~HasSent("server", "hrr")
        \/ Len(sw) = 1 /\ sw[1].kind = "hrr"
    BY <2>2, ServerPlace
  <2>4. /\ i \in Hellos(cw) /\ i \in DOMAIN cw
        /\ \A j \in Hellos(cw) : j =< i
        /\ 2 * i =< forwarded["client"]
        /\ HasSent("server", "hrr") <=> \E j \in Hellos(cw) : j < i
    BY UnansweredIsLast
  <2>5. ~HasSent("server", "hrr") => Len(sw) = 0
    <3>1. Len(sw) = 1 => 1 \in DOMAIN sw
      BY <1>000
    <3> QED  BY <2>3, <3>1 DEF HasSent
  <2>6. ASSUME ~HasSent("server", "hrr"), NEW groups \in Seq(Groups), Send("server", "hrr", groups),
               groups = <<>> \/ \E g \in Common : groups = <<g>>
        PROVE TInv'
    BY <2>4, <2>5, <2>6, ServerSends DEF ServerKinds
  <2>7. ASSUME NEW g \in Common \cap Names(cw[i].groups), Send("server", "sh", <<g>>)  PROVE TInv'
    BY <1>00, <2>3, <2>4, <2>7, ServerSends DEF ServerKinds
  <2> QED  BY <1>0, <1>00, <2>1, <2>6, <2>7
<1>3. ASSUME SendRest  PROVE TInv'
  <2>1. CASE HasSent("server", "sh") /\ Send("server", "fin", <<>>)
    BY <1>0, <2>1, ServerSends DEF ServerKinds
  <2>2. CASE HasGot("client", "fin") /\ Send("client", "fin", <<>>)
    <3>1. \E k \in DOMAIN sw : sw[k].kind = "fin" /\ 2 * k =< forwarded["server"]
      BY <2>2, GotIsSent
    <3>2. PICK p \in DOMAIN cw : TRUE
      <4>1. HasSent("server", "fin")
        BY <3>1 DEF HasSent
      <4> QED  BY <4>1, HelloWhenSent
    <3>3. Len(cw) > 0
      BY <1>000, <3>2
    <3> QED  BY <1>0, <2>2, <3>1, <3>3, ClientSends DEF ClientKinds
  <2>3. CASE HasGot("server", "fin") /\ Send("server", "ticket", <<>>)
    <3>1. PICK i \in DOMAIN cw : cw[i].kind = "fin"
      BY <2>3, GotIsSent
    <3>2. HasSent("server", "fin")
      BY <3>1 DEF TInv, ClientWire, HasSent
    <3>3. HasSent("server", "sh")
      BY <3>2, HelloWhenSent DEF HasSent
    <3> QED  BY <1>0, <2>3, <3>3, ServerSends DEF ServerKinds
  <2> QED  BY <1>3, <2>1, <2>2, <2>3 DEF SendRest
<1>4. ASSUME NEW d \in Sides, SendAlert(d)  PROVE TInv'
  <2>1. cw # <<>> /\ Send(d, "alert", <<>>)
    BY <1>4 DEF SendAlert
  <2>2. CASE d = "client"
    BY <1>0, <1>000, <2>1, <2>2, ClientSends DEF ClientKinds
  <2>3. CASE d = "server"
    BY <1>0, <2>1, <2>3, ServerSends DEF ServerKinds
  <2> QED  BY <2>2, <2>3
<1>5. ASSUME NEW d \in Sides, Close(d)  PROVE TInv'
  <2>1. /\ UNCHANGED <<cell, wire, pc, received, forwarded, parsed, records, hello, answer>>
        /\ closed' = closed \cup {d}
    BY <1>5 DEF Close, observer, summary
  <2>2. Types' /\ (\A e \in Sides : Ordered(e)') /\ Started'
    BY <2>1 DEF TInv, Types, Ordered, Started, Runs, Supports
  <2>3. ServerWire' /\ ClientWire' /\ Answered'
    BY <2>1 DEF TInv, ServerWire, ClientWire, Answered, TakenFrom, HasSent, BeginsAt, SecondShares,
                FirstShares, Common, Offered
  <2>4. AnswerOK' /\ HelloOK' /\ Listed' /\ Causal'
    BY <2>1 DEF TInv, AnswerOK, HelloOK, Listed, Causal, Seen
  <2> QED  BY <2>2, <2>3, <2>4 DEF TInv
<1> QED  BY <1>1, <1>2, <1>3, <1>4, <1>5 DEF Endpoints

-------------------------------------------------------------------------------
(* The pumps                                                                *)

\* A step of a pump leaves the streams alone and takes nothing back that has
\* been passed on.
LEMMA PumpKeepsWires ==
  ASSUME TInv, UNCHANGED <<cell, wire, closed>>,
         \A e \in Sides : forwarded'[e] \in Nat /\ forwarded[e] =< forwarded'[e],
         \A e \in Sides : pc'[e] = "none" <=> pc[e] = "none"
  PROVE  Started' /\ ServerWire' /\ ClientWire' /\ Answered'
<1> DEFINE sw == wire["server"]
           cw == wire["client"]
<1>1. Started'
  BY TwoSides DEF TInv, Started, Runs, Supports
<1>2. /\ HasSent("server", "hrr")' <=> HasSent("server", "hrr")
      /\ SecondShares' = SecondShares /\ Common' = Common /\ sw' = sw /\ cw' = cw
      /\ \A i : BeginsAt(i)' <=> BeginsAt(i)
  BY DEF HasSent, BeginsAt, SecondShares, FirstShares, Common, Offered
<1>3. ServerWire'
  BY <1>2 DEF TInv, ServerWire
<1>4. \A e \in Sides : \A k \in DOMAIN wire[e] : 2 * k =< forwarded[e] => 2 * k =< forwarded'[e]
  BY SideFacts
<1>5. ClientWire'
  <2> SUFFICES ASSUME NEW i \in DOMAIN cw, cw[i].kind = "fin"
               PROVE  \E k \in DOMAIN sw : sw[k].kind = "fin" /\ 2 * k =< forwarded'["server"]
    BY <1>2 DEF TInv, ClientWire
  <2>1. PICK k \in DOMAIN sw : sw[k].kind = "fin" /\ 2 * k =< forwarded["server"]
    BY DEF TInv, ClientWire
  <2> QED  BY <1>4, <2>1, TwoSides
<1>6. Answered'
  <2>1. ASSUME NEW h \in DOMAIN sw, NEW p \in DOMAIN cw, TakenFrom(p, h)  PROVE TakenFrom(p, h)'
    BY <1>2, <1>4, <2>1, TwoSides DEF TakenFrom
  <2> QED  BY <1>2, <2>1 DEF TInv, Answered
<1> QED  BY <1>1, <1>3, <1>5, <1>6

\* What has been passed on only grows, and the rest of the order of the list
\* does not depend on it.
LEMMA PumpKeepsOrder ==
  ASSUME TInv, UNCHANGED <<wire, records>>,
         \A e \in Sides : forwarded'[e] \in Nat /\ forwarded[e] =< forwarded'[e]
  PROVE  Causal'
<1>1. ASSUME NEW e \in Sides, NEW m \in DOMAIN wire[e]
      PROVE  2 * wire[e][m].after =< forwarded'[Other(e)]
  <2>1. 2 * wire[e][m].after =< forwarded[Other(e)] /\ wire[e][m].after \in Nat
    BY SideFacts DEF TInv, Causal
  <2>2. Other(e) \in Sides /\ forwarded[Other(e)] \in Nat
    BY SideFacts
  <2> QED  BY <2>1, <2>2
<1> QED  BY <1>1 DEF TInv, Causal

\* A step that parses nothing leaves the fields and the list true.
LEMMA PumpKeepsSummary ==
  ASSUME TInv, UNCHANGED <<wire, parsed, records, hello, answer>>,
         \A e \in Sides : pc'[e] = "append" <=> pc[e] = "append"
  PROVE  AnswerOK' /\ HelloOK' /\ Listed'
<1>1. Seen("client")' = Seen("client") /\ Seen("server")' = Seen("server")
  BY TwoSides DEF Seen
<1>2. AnswerOK'
  BY <1>1 DEF TInv, AnswerOK
<1>3. HelloOK'
  BY <1>1 DEF TInv, HelloOK
<1> QED  BY <1>2, <1>3 DEF TInv, Listed

\* recv of a chunk, and the parsing of it, keep the invariant.
LEMMA ReceiveInv ==
  ASSUME TInv, NEW d \in Sides, Recv(d)
  PROVE  TInv'
<1>1. PICK upto \in received[d] + 1 .. 2 * Len(wire[d]) : received' = [received EXCEPT ![d] = upto]
  BY DEF Recv
<1>2. /\ UNCHANGED <<cell, wire, closed, forwarded, parsed, records, hello, answer>>
      /\ pc[d] = "recv" /\ pc' = [pc EXCEPT ![d] = "feed"]
  BY DEF Recv, Goto, endpoints, summary
<1>3. upto \in Nat /\ received[d] =< upto /\ upto =< 2 * Len(wire[d])
  BY <1>1, SideFacts
<1>4. received \in [Sides -> Nat] /\ pc \in [Sides -> {"recv", "feed", "append", "ended", "none"}]
  BY DEF TInv, Types
<1>5. /\ \A e \in Sides : received'[e] = IF e = d THEN upto ELSE received[e]
      /\ \A e \in Sides : pc'[e] = IF e = d THEN "feed" ELSE pc[e]
      /\ received' \in [Sides -> Nat]
      /\ pc' \in [Sides -> {"recv", "feed", "append", "ended", "none"}]
  BY <1>1, <1>2, <1>3, <1>4
<1>6. \A e \in Sides : (pc'[e] = "append" <=> pc[e] = "append") /\ (pc'[e] = "none" <=> pc[e] = "none")
  BY <1>2, <1>5
<1>7. Types'
  BY <1>2, <1>5 DEF TInv, Types
<1>8. ASSUME NEW e \in Sides  PROVE Ordered(e)'
  <2>1. received'[e] \in Nat /\ received[e] =< received'[e] /\ received'[e] =< 2 * Len(wire[e])
    <3>1. CASE e = d
      BY <1>3, <1>5, <3>1, SideFacts
    <3>2. CASE e # d
      <4>1. received'[e] = received[e]
        BY <1>5, <3>2
      <4>2. received[e] \in Nat /\ received[e] =< 2 * Len(wire[e])
        BY SideFacts
      <4> QED  BY <4>1, <4>2
    <3> QED  BY <3>1, <3>2
  <2>2. pc[e] = "append" => 2 * (parsed[e] + 1) =< received[e]
    BY DEF TInv, Ordered
  <2>3. /\ forwarded[e] =< received'[e] /\ 2 * parsed[e] =< received'[e]
        /\ 2 * (parsed[e] + 1) =< received[e] => 2 * (parsed[e] + 1) =< received'[e]
    <3>1. /\ forwarded[e] \in Nat /\ parsed[e] \in Nat /\ received[e] \in Nat
          /\ forwarded[e] =< received[e] /\ 2 * parsed[e] =< received[e]
      BY SideFacts
    <3> QED  BY <2>1, <3>1
  <2> QED  BY <1>2, <1>6, <2>1, <2>2, <2>3, SideFacts DEF Ordered
<1>9. \A e \in Sides : forwarded'[e] \in Nat /\ forwarded[e] =< forwarded'[e]
  BY <1>2, SideFacts
<1>10. /\ Started' /\ ServerWire' /\ ClientWire' /\ Answered'
       /\ AnswerOK' /\ HelloOK' /\ Listed' /\ Causal'
  BY <1>2, <1>6, <1>9, PumpKeepsWires, PumpKeepsSummary, PumpKeepsOrder
<1> QED  BY <1>7, <1>8, <1>10 DEF TInv

\* A pump that gives up, with nothing to read or nobody to write to.
LEMMA GiveUpInv ==
  ASSUME TInv, NEW d \in Sides, StopReceiving(d) \/ SendFails(d)
  PROVE  TInv'
<1>1. /\ UNCHANGED <<cell, wire, closed, received, forwarded, parsed, records, hello, answer>>
      /\ pc[d] \in {"recv", "feed"} /\ pc' = [pc EXCEPT ![d] = "ended"]
  BY DEF StopReceiving, SendFails, Fed, Goto, endpoints, observer, summary
<1>2. pc \in [Sides -> {"recv", "feed", "append", "ended", "none"}]
  BY DEF TInv, Types
<1>3. /\ \A e \in Sides : pc'[e] = IF e = d THEN "ended" ELSE pc[e]
      /\ pc' \in [Sides -> {"recv", "feed", "append", "ended", "none"}]
  BY <1>1, <1>2
<1>4. \A e \in Sides : (pc'[e] = "append" <=> pc[e] = "append") /\ (pc'[e] = "none" <=> pc[e] = "none")
  BY <1>1, <1>3
<1>5. Types'
  BY <1>1, <1>3 DEF TInv, Types
<1>6. \A e \in Sides : Ordered(e)'
  BY <1>1, <1>4 DEF TInv, Ordered
<1>7. \A e \in Sides : forwarded'[e] \in Nat /\ forwarded[e] =< forwarded'[e]
  BY <1>1, SideFacts
<1>8. /\ Started' /\ ServerWire' /\ ClientWire' /\ Answered'
      /\ AnswerOK' /\ HelloOK' /\ Listed' /\ Causal'
  BY <1>1, <1>4, <1>7, PumpKeepsWires, PumpKeepsSummary, PumpKeepsOrder
<1> QED  BY <1>5, <1>6, <1>8 DEF TInv

\* sendall of what was received, or its failure, keeps the invariant.
LEMMA ForwardInv ==
  ASSUME TInv, NEW d \in Sides, SendAll(d)
  PROVE  TInv'
<1>1. /\ UNCHANGED <<cell, wire, closed, received, parsed, records, hello, answer>>
      /\ pc[d] = "feed" /\ pc' = [pc EXCEPT ![d] = "recv"]
      /\ received[d] < 2 * (parsed[d] + 1)
      /\ forwarded' = [forwarded EXCEPT ![d] = received[d]]
  BY DEF SendAll, Fed, Goto, endpoints, summary
<1>2. /\ pc \in [Sides -> {"recv", "feed", "append", "ended", "none"}]
      /\ forwarded \in [Sides -> Nat]
  BY DEF TInv, Types
<1>3. /\ \A e \in Sides : pc'[e] = IF e = d THEN "recv" ELSE pc[e]
      /\ \A e \in Sides : forwarded'[e] = IF e = d THEN received[d] ELSE forwarded[e]
      /\ pc' \in [Sides -> {"recv", "feed", "append", "ended", "none"}]
      /\ forwarded' \in [Sides -> Nat]
  BY <1>1, <1>2, SideFacts
<1>4. \A e \in Sides : (pc'[e] = "append" <=> pc[e] = "append") /\ (pc'[e] = "none" <=> pc[e] = "none")
  BY <1>1, <1>3
<1>5. Types'
  BY <1>1, <1>3 DEF TInv, Types
<1>6. \A e \in Sides : /\ forwarded'[e] \in Nat /\ forwarded[e] =< forwarded'[e]
                       /\ forwarded'[e] =< received[e] /\ forwarded'[e] =< 2 * parsed[e] + 1
  <2> TAKE e \in Sides
  <2>1. received[d] \in Nat /\ parsed[d] \in Nat /\ received[d] < 2 * (parsed[d] + 1)
    BY <1>1, SideFacts
  <2>2. received[d] =< 2 * parsed[d] + 1 /\ received[d] =< received[d]
    BY <2>1
  <2>3. CASE e = d
    <3>1. forwarded'[e] = received[e]
      BY <1>3, <2>3
    <3> QED  BY <2>1, <2>2, <2>3, <3>1, SideFacts
  <2>4. CASE e # d
    <3>1. forwarded'[e] = forwarded[e]
      BY <1>3, <2>4
    <3>2. forwarded[e] \in Nat /\ forwarded[e] =< received[e] /\ forwarded[e] =< 2 * parsed[e] + 1
      BY SideFacts
    <3> QED  BY <3>1, <3>2
  <2> QED  BY <2>3, <2>4
<1>7. \A e \in Sides : Ordered(e)'
  BY <1>1, <1>4, <1>6 DEF TInv, Ordered
<1>8. /\ Started' /\ ServerWire' /\ ClientWire' /\ Answered'
      /\ AnswerOK' /\ HelloOK' /\ Listed' /\ Causal'
  BY <1>1, <1>4, <1>6, PumpKeepsWires, PumpKeepsSummary, PumpKeepsOrder
<1> QED  BY <1>5, <1>7, <1>8 DEF TInv

\* The fields that a record changes are those the observer has seen it for.
LEMMA ParseInv ==
  ASSUME TInv, NEW d \in Sides, Parse(d)
  PROVE  TInv'
<1> DEFINE m == parsed[d] + 1
           r == wire[d][m]
           sw == wire["server"]
           cw == wire["client"]
<1>1. /\ UNCHANGED <<cell, wire, closed, received, forwarded, parsed, records>>
      /\ pc[d] = "feed" /\ pc' = [pc EXCEPT ![d] = "append"]
      /\ ~(received[d] < 2 * m)
  BY DEF Parse, Fed, Goto, endpoints, observer
<1>2. /\ d = "client" => (\/ hello' \in Hello(r, hello) /\ answer' = answer
                          \/ answer' \in MisreadAnswers(r, answer) /\ hello' = hello)
      /\ d = "server" => answer' = Answer(r, answer) /\ hello' = hello
  BY TwoSides DEF Parse, Current
<1>3. pc \in [Sides -> {"recv", "feed", "append", "ended", "none"}]
  BY DEF TInv, Types
<1>4. /\ \A e \in Sides : pc'[e] = IF e = d THEN "append" ELSE pc[e]
      /\ pc' \in [Sides -> {"recv", "feed", "append", "ended", "none"}]
  BY <1>1, <1>3
<1>5. m \in Nat /\ m >= 1 /\ 2 * m =< received[d] /\ m \in DOMAIN wire[d] /\ m = parsed[d] + 1
  <2>1. parsed[d] \in Nat /\ received[d] \in Nat /\ Len(wire[d]) \in Nat
        /\ received[d] =< 2 * Len(wire[d]) /\ DOMAIN wire[d] = 1 .. Len(wire[d])
    BY SideFacts
  <2> QED  BY <1>1, <2>1
<1>6. /\ Seen(d)' = m /\ Seen(d) = parsed[d]
      /\ \A e \in Sides : e # d => Seen(e)' = Seen(e)
  <2>1. pc'[d] = "append" /\ parsed' = parsed /\ pc[d] = "feed"
    BY <1>1, <1>4
  <2>2. \A e \in Sides : e # d => pc'[e] = pc[e]
    BY <1>4
  <2> QED  BY <2>1, <2>2 DEF Seen
<1> HIDE DEF m
<1>7. \A i \in DOMAIN wire[d] : i =< m <=> i =< Seen(d) \/ i = m
  BY <1>5, <1>6, SideFacts, SMTT(60)
<1>8. r.groups \in Seq(Groups) /\ r.after \in Nat
  BY <1>5, SideFacts
<1>9. /\ hello \in [shares : Seq(MaybeGroup), measured : Nat]
      /\ answer \in [hrr : BOOLEAN, hrrGroup : MaybeGroup, selected : MaybeGroup, measured : Nat]
  BY DEF TInv, Types
<1>10. ASSUME d = "client"
       PROVE  /\ hello' \in [shares : Seq(MaybeGroup), measured : Nat]
              /\ answer' \in [hrr : BOOLEAN, hrrGroup : MaybeGroup, selected : MaybeGroup, measured : Nat]
              /\ HelloOK' /\ AnswerOK'
  <2>1. Seen("server")' = Seen("server") /\ Seen("client")' = m
    BY <1>6, <1>10, TwoSides
  <2>2. m \in DOMAIN cw /\ r = cw[m] /\ \A i \in DOMAIN cw : i =< m <=> i =< Seen("client") \/ i = m
    BY <1>5, <1>7, <1>10
  <2>3. r.groups \in Seq(MaybeGroup) /\ <<NoGroup>> \in Seq(MaybeGroup)
    BY <1>8 DEF MaybeGroup
  <2>4. FirstMeasured(hello) \in Nat /\ FirstMeasured(hello) > 0
    BY <1>5, <1>9, <1>10 DEF FirstMeasured
  <2> DEFINE last(p, x) == /\ p =< x /\ cw[p].kind = "ch"
                           /\ \A j \in DOMAIN cw : j =< x /\ cw[j].kind \in {"ch", "part", "rest"} => j =< p
  <2>5. \A p \in DOMAIN cw : last(p, Seen("client")) => hello.shares = cw[p].groups /\ hello.measured > 0
    BY DEF TInv, HelloOK
  <2>6. (\A p \in DOMAIN cw : last(p, m) => hello'.shares = cw[p].groups /\ hello'.measured > 0) => HelloOK'
    BY <1>1, <2>1 DEF HelloOK
  <2>7. \A p \in DOMAIN cw : p \in Nat /\ p >= 1
    BY SideFacts, TwoSides
  <2>8. r.kind \in {"ch", "part", "rest"} => \A p \in DOMAIN cw : last(p, m) => p = m
    BY <1>5, <2>2, <2>7
  <2>9. ASSUME hello' \in Hello(r, hello)
        PROVE  hello' \in [shares : Seq(MaybeGroup), measured : Nat] /\ HelloOK'
    <3>1. CASE r.kind = "ch"
      <4>1. hello' = [shares |-> r.groups, measured |-> FirstMeasured(hello)]
        BY <2>9, <3>1 DEF Hello
      <4> QED  BY <2>2, <2>3, <2>4, <2>6, <2>8, <3>1, <4>1
    <3>2. ASSUME NEW s \in Seq(MaybeGroup), hello' \in Cut(hello, s), r.kind \in {"part", "rest"}
          PROVE  hello' \in [shares : Seq(MaybeGroup), measured : Nat] /\ HelloOK'
      <4>1. hello' \in [shares : {hello.shares, s}, measured : {hello.measured, FirstMeasured(hello)}]
        BY <3>2 DEF Cut
      <4>2. hello' \in [shares : Seq(MaybeGroup), measured : Nat]
        BY <1>9, <2>4, <4>1
      <4>3. \A p \in DOMAIN cw : ~last(p, m)
        BY <2>2, <2>8, <3>2
      <4> QED  BY <2>6, <4>2, <4>3
    <3>3. CASE r.kind = "part"
      BY <2>3, <2>9, <3>2, <3>3 DEF Hello
    <3>4. CASE r.kind = "rest"
      BY <2>3, <2>9, <3>2, <3>4 DEF Hello
    <3>5. CASE r.kind \notin {"ch", "part", "rest"}
      <4>1. hello' = hello
        BY <2>9, <3>5 DEF Hello
      <4>2. \A p \in DOMAIN cw : last(p, m) => last(p, Seen("client"))
        BY <2>2, <3>5
      <4> QED  BY <1>9, <2>5, <2>6, <4>1, <4>2
    <3> QED  BY <3>1, <3>3, <3>4, <3>5
  <2>10. ASSUME answer' \in MisreadAnswers(r, answer), hello' = hello
         PROVE  /\ answer' \in [hrr : BOOLEAN, hrrGroup : MaybeGroup, selected : MaybeGroup, measured : Nat]
                /\ HelloOK' /\ AnswerOK'
    <3>1. r.kind = "rest"
      BY <2>10 DEF MisreadAnswers
    <3>2. PICK g \in {answer.selected, NoGroup}, x \in {answer.measured, 0} :
            answer' = [answer EXCEPT !.selected = g, !.measured = x]
      <4>1. CASE answer' = answer
        <5>1. answer' = [answer EXCEPT !.selected = answer.selected, !.measured = answer.measured]
          BY <1>9, <4>1
        <5> QED  BY <5>1
      <4>2. ASSUME NEW g \in {answer.selected, NoGroup},
                   answer' = [answer EXCEPT !.selected = g, !.measured = 0]
            PROVE  \E x \in {answer.measured, 0} :
                     answer' = [answer EXCEPT !.selected = g, !.measured = x]
        BY <4>2
      <4> QED  BY <2>10, <3>1, <4>1, <4>2 DEF MisreadAnswers
    <3>3. /\ answer' \in [hrr : BOOLEAN, hrrGroup : MaybeGroup, selected : MaybeGroup, measured : Nat]
          /\ answer'.hrr = answer.hrr /\ answer'.hrrGroup = answer.hrrGroup
      <4>1. g \in MaybeGroup /\ x \in Nat
        BY <1>9 DEF MaybeGroup
      <4> QED  BY <1>9, <3>2, <4>1
    <3>4. HelloOK'
      BY <2>2, <2>6, <2>8, <3>1
    <3>5. ASSUME NEW h \in DOMAIN sw, sw[h].kind = "sh"  PROVE FALSE
      <4>1. PICK p \in DOMAIN cw : TakenFrom(p, h)
        BY <3>5 DEF TInv, Answered
      <4>2. m \in Hellos(cw)
        BY <2>2, <3>1 DEF Hellos
      <4>3. m =< p /\ 2 * p =< forwarded["client"]
        BY <4>1, <4>2 DEF TakenFrom
      <4>4. forwarded["client"] =< 2 * parsed["client"] + 1
            /\ forwarded["client"] \in Nat /\ parsed["client"] \in Nat
        BY SideFacts, TwoSides
      <4> QED  BY <1>5, <1>10, <2>7, <4>3, <4>4
    <3>6. AnswerOK'
      BY <1>1, <2>1, <3>3, <3>5 DEF TInv, AnswerOK
    <3> QED  BY <3>3, <3>4, <3>6
  <2>11. ASSUME answer' = answer  PROVE AnswerOK'
    BY <1>1, <2>1, <2>11 DEF TInv, AnswerOK
  <2> QED  BY <1>2, <1>9, <1>10, <2>9, <2>10, <2>11
<1>11. ASSUME d = "server"
       PROVE  /\ answer' \in [hrr : BOOLEAN, hrrGroup : MaybeGroup, selected : MaybeGroup, measured : Nat]
              /\ HelloOK' /\ AnswerOK' /\ hello' = hello
  <2>1. hello' = hello /\ answer' = Answer(r, answer) /\ Seen("client")' = Seen("client") /\ Seen("server")' = m
    BY <1>2, <1>6, <1>11, TwoSides
  <2>2. HelloOK'
    BY <1>1, <2>1 DEF TInv, HelloOK
  <2>3. /\ answer.hrr <=> \E i \in DOMAIN sw : i =< Seen("server") /\ sw[i].kind = "hrr"
        /\ answer.hrrGroup # NoGroup =>
             1 \in DOMAIN sw /\ sw[1].kind = "hrr" /\ sw[1].groups = <<answer.hrrGroup>>
        /\ \A h \in DOMAIN sw : h =< Seen("server") /\ sw[h].kind = "sh" =>
             answer.selected = sw[h].groups[1] /\ answer.measured = h
    BY DEF TInv, AnswerOK
  <2>4. m \in DOMAIN sw /\ r = sw[m] /\ \A i \in DOMAIN sw : i =< m <=> i =< Seen("server") \/ i = m
    BY <1>5, <1>7, <1>11
  <2>5. SUFFICES /\ answer' \in [hrr : BOOLEAN, hrrGroup : MaybeGroup, selected : MaybeGroup, measured : Nat]
                 /\ answer'.hrr <=> \E i \in DOMAIN sw : i =< m /\ sw[i].kind = "hrr"
                 /\ answer'.hrrGroup # NoGroup =>
                      1 \in DOMAIN sw /\ sw[1].kind = "hrr" /\ sw[1].groups = <<answer'.hrrGroup>>
                 /\ \A h \in DOMAIN sw : h =< m /\ sw[h].kind = "sh" =>
                      answer'.selected = sw[h].groups[1] /\ answer'.measured = h
    BY <1>1, <2>1, <2>2 DEF AnswerOK
  <2>6. CASE r.kind = "hrr"
    <3>1. m = 1 /\ (r.groups = <<>> \/ \E g \in Common : r.groups = <<g>>)
      BY <2>4, <2>6 DEF TInv, ServerWire
    <3>2. answer' = [answer EXCEPT !.hrr = TRUE, !.measured = parsed["server"] + 1,
                                   !.hrrGroup = IF r.groups = <<>> THEN @ ELSE r.groups[1]]
      BY <2>1, <2>6 DEF Answer
    <3>3. \A g \in Common : g \in Groups /\ <<g>>[1] = g /\ <<g>> # <<>>
      BY GroupsOffered, TwoSides DEF TInv, Common, Names
    <3>4. /\ answer'.hrr = TRUE /\ answer'.measured = m /\ answer'.selected = answer.selected
          /\ answer'.hrrGroup = IF r.groups = <<>> THEN answer.hrrGroup ELSE r.groups[1]
      BY <1>5, <1>9, <1>11, <3>2
    <3>5. r.groups # <<>> => r.groups = <<answer'.hrrGroup>> /\ answer'.hrrGroup \in Groups
      BY <3>1, <3>3, <3>4
    <3>6. answer' \in [hrr : BOOLEAN, hrrGroup : MaybeGroup, selected : MaybeGroup, measured : Nat]
      <4>1. (IF r.groups = <<>> THEN answer.hrrGroup ELSE r.groups[1]) \in MaybeGroup
        BY <1>9, <3>4, <3>5 DEF MaybeGroup
      <4>2. parsed["server"] + 1 \in Nat
        BY <1>5, <1>11
      <4> QED  BY <1>9, <3>2, <4>1, <4>2
    <3>7. \A h \in DOMAIN sw : h =< m => h = m
      BY <3>1, SideFacts, TwoSides
    <3>8. \A h \in DOMAIN sw : ~(h =< m /\ sw[h].kind = "sh")
      BY <2>4, <2>6, <3>7
    <3>9. \E i \in DOMAIN sw : i =< m /\ sw[i].kind = "hrr"
      BY <2>4, <2>6
    <3>10. answer'.hrrGroup # NoGroup =>
             1 \in DOMAIN sw /\ sw[1].kind = "hrr" /\ sw[1].groups = <<answer'.hrrGroup>>
      BY <2>3, <2>4, <2>6, <3>1, <3>4, <3>5
    <3> QED  BY <3>4, <3>6, <3>8, <3>9, <3>10
  <2>7. CASE r.kind = "sh"
    <3>1. \E g \in Common : r.groups = <<g>>
      BY <2>4, <2>7 DEF TInv, ServerWire
    <3>2. answer' = [answer EXCEPT !.selected = r.groups[1], !.measured = parsed["server"] + 1]
      BY <2>1, <2>7 DEF Answer
    <3>3. r.groups[1] \in MaybeGroup
      BY <3>1, GroupsOffered, TwoSides DEF TInv, Common, Names, MaybeGroup
    <3>4. /\ answer'.hrr = answer.hrr /\ answer'.hrrGroup = answer.hrrGroup
          /\ answer'.selected = r.groups[1] /\ answer'.measured = m
          /\ answer' \in [hrr : BOOLEAN, hrrGroup : MaybeGroup, selected : MaybeGroup, measured : Nat]
      BY <1>5, <1>9, <1>11, <3>2, <3>3
    <3>5. \A h \in DOMAIN sw : h =< m /\ sw[h].kind = "sh" => h = m
      BY <2>4, <2>7, OneHello DEF TInv
    <3>6. (\E i \in DOMAIN sw : i =< m /\ sw[i].kind = "hrr")
          <=> (\E i \in DOMAIN sw : i =< Seen("server") /\ sw[i].kind = "hrr")
      BY <2>4, <2>7
    <3> QED  BY <2>3, <2>4, <3>4, <3>5, <3>6
  <2>8. CASE r.kind \notin {"hrr", "sh"}
    <3>1. answer' = answer
      BY <2>1, <2>8 DEF Answer
    <3>2. (\E i \in DOMAIN sw : i =< m /\ sw[i].kind = "hrr")
          <=> (\E i \in DOMAIN sw : i =< Seen("server") /\ sw[i].kind = "hrr")
      BY <2>4, <2>8
    <3>3. \A h \in DOMAIN sw : h =< m /\ sw[h].kind = "sh" => h =< Seen("server")
      BY <2>4, <2>8
    <3> QED  BY <1>9, <2>3, <3>1, <3>2, <3>3
  <2> QED  BY <2>6, <2>7, <2>8
<1>12. Types' /\ HelloOK' /\ AnswerOK'
  <2>1. d = "client" \/ d = "server"
    BY TwoSides
  <2>2. HelloOK' /\ AnswerOK'
    BY <1>10, <1>11, <2>1
  <2>3. /\ hello' \in [shares : Seq(MaybeGroup), measured : Nat]
        /\ answer' \in [hrr : BOOLEAN, hrrGroup : MaybeGroup, selected : MaybeGroup, measured : Nat]
    BY <1>9, <1>10, <1>11, <2>1
  <2> QED  BY <1>1, <1>4, <2>2, <2>3 DEF TInv, Types
<1>13. \A e \in Sides : Ordered(e)'
  <2> TAKE e \in Sides
  <2>1. Ordered(e)
    BY DEF TInv
  <2>2. CASE e = d
    BY <1>1, <1>5, <2>1, <2>2 DEF Ordered
  <2>3. CASE e # d
    BY <1>1, <1>4, <2>1, <2>3 DEF Ordered
  <2> QED  BY <2>2, <2>3
<1>14. \A e \in Sides : forwarded'[e] \in Nat /\ forwarded[e] =< forwarded'[e]
  BY <1>1, SideFacts
<1>15. \A e \in Sides : pc'[e] = "none" <=> pc[e] = "none"
  BY <1>1, <1>4
<1>16. Started' /\ ServerWire' /\ ClientWire' /\ Answered' /\ Causal'
  BY <1>1, <1>14, <1>15, PumpKeepsWires, PumpKeepsOrder
<1>17. Listed'
  BY <1>1 DEF TInv, Listed
<1> QED  BY <1>12, <1>13, <1>16, <1>17 DEF TInv

\* A record is listed after those of the peer that its sender had received,
\* because these were parsed and listed before they were passed on.
LEMMA AppendInv ==
  ASSUME TInv, NEW d \in Sides, AppendRecord(d)
  PROVE  TInv'
<1> DEFINE m == parsed[d] + 1
           N == Len(records) + 1
           new == [dir |-> d, place |-> m]
<1>1. /\ UNCHANGED <<cell, wire, closed, received, forwarded, hello, answer>>
      /\ pc[d] = "append" /\ pc' = [pc EXCEPT ![d] = "feed"]
      /\ records' = Append(records, new)
      /\ parsed' = [parsed EXCEPT ![d] = m]
  BY DEF AppendRecord, Goto, endpoints
<1>2. /\ pc \in [Sides -> {"recv", "feed", "append", "ended", "none"}]
      /\ parsed \in [Sides -> Nat]
      /\ records \in Seq([dir : Sides, place : Nat])
  BY DEF TInv, Types
<1>3. /\ \A e \in Sides : pc'[e] = IF e = d THEN "feed" ELSE pc[e]
      /\ pc' \in [Sides -> {"recv", "feed", "append", "ended", "none"}]
  BY <1>1, <1>2
<1>4. m \in Nat /\ m >= 1 /\ m = parsed[d] + 1 /\ parsed[d] \in Nat
  BY SideFacts
<1>5. /\ \A e \in Sides : parsed'[e] = IF e = d THEN m ELSE parsed[e]
      /\ parsed' \in [Sides -> Nat]
  BY <1>1, <1>2, <1>4
<1>6. new \in [dir : Sides, place : Nat] /\ new.dir = d /\ new.place = m
  BY <1>4
<1>7. /\ N \in Nat /\ N >= 1 /\ DOMAIN records = 1 .. N - 1
      /\ records' \in Seq([dir : Sides, place : Nat])
      /\ DOMAIN records' = 1 .. N /\ records'[N] = new
      /\ \A i \in DOMAIN records : records'[i] = records[i]
  <2> DEFINE S == [dir : Sides, place : Nat]
  <2>1. records \in Seq(S) /\ new \in S
    BY <1>2, <1>6
  <2> HIDE DEF S, new
  <2>2. /\ Append(records, new) \in Seq(S) /\ Len(Append(records, new)) = Len(records) + 1
        /\ \A i \in 1 .. Len(records) : Append(records, new)[i] = records[i]
        /\ Append(records, new)[Len(records) + 1] = new
    BY <2>1, AppendProperties
  <2>3. Len(records) \in Nat /\ DOMAIN records = 1 .. Len(records)
        /\ DOMAIN Append(records, new) = 1 .. Len(records) + 1
    BY <2>1, <2>2
  <2> QED  BY <1>1, <2>2, <2>3 DEF S
<1> HIDE DEF m, N, new
<1>8. Seen("client")' = Seen("client") /\ Seen("server")' = Seen("server")
  <2>1. ASSUME NEW e \in Sides  PROVE Seen(e)' = Seen(e)
    <3>1. CASE e = d
      <4>1. pc[e] = "append" /\ pc'[e] = "feed" /\ parsed'[e] = parsed[e] + 1
        BY <1>1, <1>3, <1>4, <1>5, <3>1
      <4> QED  BY <4>1 DEF Seen
    <3>2. CASE e # d
      <4>1. pc'[e] = pc[e] /\ parsed'[e] = parsed[e]
        BY <1>3, <1>5, <3>2
      <4> QED  BY <4>1 DEF Seen
    <3> QED  BY <3>1, <3>2
  <2> QED  BY <2>1, TwoSides
<1>9. AnswerOK' /\ HelloOK'
  <2>1. AnswerOK'
    BY <1>1, <1>8 DEF TInv, AnswerOK
  <2>2. HelloOK'
    BY <1>1, <1>8 DEF TInv, HelloOK
  <2> QED  BY <2>1, <2>2
<1>10. Types'
  BY <1>1, <1>3, <1>5, <1>7 DEF TInv, Types
<1>11. \A e \in Sides : Ordered(e)'
  <2> TAKE e \in Sides
  <2>1. Ordered(e)
    BY DEF TInv
  <2>2. CASE e = d
    <3>1. 2 * m =< received[d] /\ pc'[d] # "append"
      BY <1>1, <1>3, <1>4, <2>1, <2>2 DEF Ordered
    <3>2. forwarded[d] =< 2 * m + 1
      <4>1. forwarded[d] \in Nat /\ forwarded[d] =< 2 * parsed[d] + 1
        BY SideFacts
      <4> QED  BY <1>4, <4>1
    <3> QED  BY <1>1, <1>5, <2>1, <2>2, <3>1, <3>2 DEF Ordered
  <2>3. CASE e # d
    BY <1>1, <1>3, <1>5, <2>1, <2>3 DEF Ordered
  <2> QED  BY <2>2, <2>3
<1>12. \A e \in Sides : forwarded'[e] \in Nat /\ forwarded[e] =< forwarded'[e]
  BY <1>1, SideFacts
<1>13. \A e \in Sides : pc'[e] = "none" <=> pc[e] = "none"
  BY <1>1, <1>3
<1>14. Started' /\ ServerWire' /\ ClientWire' /\ Answered'
  BY <1>1, <1>12, <1>13, PumpKeepsWires
<1>15. \A i \in DOMAIN records' : \/ i \in DOMAIN records /\ i < N /\ records'[i] = records[i]
                                  \/ i = N /\ records'[i] = new
  <2> TAKE i \in DOMAIN records'
  <2>1. (i \in DOMAIN records /\ i < N) \/ i = N
    <3>1. N \in Nat /\ DOMAIN records = 1 .. N - 1 /\ DOMAIN records' = 1 .. N
      BY <1>7
    <3> QED  BY <3>1
  <2>2. records'[N] = new /\ \A k \in DOMAIN records : records'[k] = records[k]
    BY <1>7
  <2> QED  BY <2>1, <2>2, Zenon
<1>16. \A i \in DOMAIN records : i \in DOMAIN records' /\ i \in Nat /\ i >= 1 /\ i < N
  BY <1>7
<1>17. \A e \in Sides : parsed[e] \in Nat /\ parsed'[e] \in Nat /\ parsed[e] =< parsed'[e]
  <2> TAKE e \in Sides
  <2>1. parsed[e] \in Nat
    BY SideFacts
  <2> QED  BY <1>4, <1>5, <2>1
<1>18. Listed'
  <2>1. ASSUME NEW i \in DOMAIN records'
        PROVE  records'[i].place \in 1 .. parsed'[records'[i].dir]
    <3>1. CASE i \in DOMAIN records /\ records'[i] = records[i]
      <4>1. records[i].dir \in Sides /\ records[i].place \in 1 .. parsed[records[i].dir]
        BY <3>1, ListFacts
      <4>2. parsed[records[i].dir] \in Nat /\ parsed'[records[i].dir] \in Nat
            /\ parsed[records[i].dir] =< parsed'[records[i].dir]
        BY <1>17, <4>1
      <4>3. records[i].place \in 1 .. parsed'[records[i].dir]
        BY <4>1, <4>2
      <4> QED  BY <3>1, <4>3
    <3>2. CASE records'[i] = new
      <4>1. m \in 1 .. m
        BY <1>4
      <4> QED  BY <1>5, <1>6, <3>2, <4>1
    <3> QED  BY <1>15, <3>1, <3>2
  <2>2. ASSUME NEW e \in Sides, NEW k \in 1 .. parsed'[e]
        PROVE  \E i \in DOMAIN records' : records'[i] = [dir |-> e, place |-> k]
    <3>1. CASE k \in 1 .. parsed[e]
      <4>1. PICK i \in DOMAIN records : records[i] = [dir |-> e, place |-> k]
        BY <3>1 DEF TInv, Listed
      <4> QED  BY <1>7, <1>16, <4>1
    <3>2. CASE e = d /\ k = m
      <4>1. N \in DOMAIN records'
        BY <1>7
      <4> QED  BY <1>7, <3>2, <4>1 DEF new
    <3>3. k \in 1 .. parsed[e] \/ (e = d /\ k = m)
      <4>1. parsed[e] \in Nat
        BY SideFacts
      <4>2. CASE e = d
        <5>1. k \in 1 .. m
          BY <1>5, <4>2
        <5> QED  BY <1>4, <4>2, <5>1
      <4>3. CASE e # d
        BY <1>5, <4>3
      <4> QED  BY <4>2, <4>3
    <3> QED  BY <3>1, <3>2, <3>3
  <2>3. ASSUME NEW i \in DOMAIN records', NEW j \in DOMAIN records',
               i < j, records'[i].dir = records'[j].dir
        PROVE  records'[i].place < records'[j].place
    <3>1. i \in DOMAIN records /\ records'[i] = records[i]
      <4>1. i # N
        BY <1>7, <2>3
      <4> QED  BY <1>15, <4>1
    <3>2. CASE j \in DOMAIN records /\ records'[j] = records[j]
      BY <2>3, <3>1, <3>2 DEF TInv, Listed
    <3>3. CASE records'[j] = new
      <4>1. records[i].dir = d
        BY <1>6, <2>3, <3>1, <3>3
      <4>2. records[i].place \in 1 .. parsed[d]
        BY <3>1, <4>1, ListFacts
      <4>3. records[i].place < m
        BY <1>4, <4>2
      <4> QED  BY <1>6, <3>1, <3>3, <4>3
    <3> QED  BY <1>15, <3>2, <3>3
  <2> QED  BY <2>1, <2>2, <2>3 DEF Listed
<1>19. Causal'
  <2>1. /\ \A e \in Sides : \A k \in DOMAIN wire'[e] : 2 * wire'[e][k].after =< forwarded'[Other(e)]
        /\ \A e \in Sides : \A k, l \in DOMAIN wire'[e] : k =< l => wire'[e][k].after =< wire'[e][l].after
    BY <1>1 DEF TInv, Causal
  <2>2. ASSUME NEW i \in DOMAIN records',
               NEW n \in 1 .. wire[records'[i].dir][records'[i].place].after
        PROVE  \E k \in 1 .. i - 1 : records'[k] = [dir |-> Other(records'[i].dir), place |-> n]
    <3>1. CASE i \in DOMAIN records /\ records'[i] = records[i]
      <4>1. PICK k \in 1 .. i - 1 : records[k] = [dir |-> Other(records[i].dir), place |-> n]
        BY <2>2, <3>1 DEF TInv, Causal
      <4>2. k \in DOMAIN records
        BY <1>7, <3>1
      <4> QED  BY <1>7, <3>1, <4>1, <4>2
    <3>2. CASE i = N /\ records'[i] = new
      <4>1. n \in 1 .. wire[d][m].after
        BY <1>6, <2>2, <3>2
      <4>2. m \in DOMAIN wire[d]
        <5>1. 2 * m =< received[d]
          BY <1>1, <1>4 DEF TInv, Ordered
        <5> QED  BY <1>4, <5>1, SideFacts, SMTT(60)
      <4>3. Other(d) \in Sides /\ wire[d][m].after \in Nat /\ 2 * wire[d][m].after =< forwarded[Other(d)]
        BY <4>2, SideFacts DEF TInv, Causal
      <4>4. forwarded[Other(d)] \in Nat /\ parsed[Other(d)] \in Nat /\ forwarded[Other(d)] =< 2 * parsed[Other(d)] + 1
        BY <4>3, SideFacts
      <4>5. n \in 1 .. parsed[Other(d)]
        <5>1. wire[d][m].after =< parsed[Other(d)]
          BY <4>3, <4>4
        <5> QED  BY <4>1, <4>3, <4>4, <5>1
      <4>6. PICK k \in DOMAIN records : records[k] = [dir |-> Other(d), place |-> n]
        BY <4>3, <4>5 DEF TInv, Listed
      <4>7. k \in 1 .. i - 1
        BY <1>7, <3>2
      <4> QED  BY <1>6, <1>7, <3>2, <4>6, <4>7
    <3> QED  BY <1>15, <3>1, <3>2
  <2> QED  BY <1>1, <2>1, <2>2 DEF Causal
<1> QED  BY <1>9, <1>10, <1>11, <1>14, <1>18, <1>19 DEF TInv

\* Every step keeps the invariant.
LEMMA NextInv ==
  ASSUME TInv, [Next]_vars
  PROVE  TInv'
<1>1. CASE Endpoints
  BY <1>1, EndpointsInv
<1>2. ASSUME NEW d \in Sides, Pump(d)  PROVE TInv'
  BY <1>2, ReceiveInv, GiveUpInv, ForwardInv, ParseInv, AppendInv DEF Pump
<1>3. CASE UNCHANGED vars
  <2>1. UNCHANGED <<cell, wire, closed, pc, received, forwarded, parsed, records, hello, answer>>
    BY <1>3 DEF vars, endpoints, observer, summary
  <2>2. Types' /\ (\A e \in Sides : Ordered(e)') /\ Started'
    BY <2>1 DEF TInv, Types, Ordered, Started, Runs, Supports
  <2>3. ServerWire' /\ ClientWire' /\ Answered'
    BY <2>1 DEF TInv, ServerWire, ClientWire, Answered, TakenFrom, HasSent, BeginsAt, SecondShares,
                FirstShares, Common, Offered
  <2>4. AnswerOK' /\ HelloOK' /\ Listed' /\ Causal'
    BY <2>1 DEF TInv, AnswerOK, HelloOK, Listed, Causal, Seen
  <2> QED  BY <2>2, <2>3, <2>4 DEF TInv
<1> QED  BY <1>1, <1>2, <1>3 DEF Next, Joined

\* The invariant, for every matrix and every cut into chunks.
THEOREM Invariance == Spec => []TInv
<1>1. TInv /\ [Next]_vars => TInv'
  BY NextInv
<1> QED  BY InitInv, <1>1, PTL DEF Spec

-------------------------------------------------------------------------------
(* What the invariant says of a completed handshake                         *)

\* The server's hello that a client which completes the handshake has received,
\* with what the observer has made of it.
LEMMA CompletedFields ==
  ASSUME TInv, Completed
  PROVE  \E h \in HelloAt :
           /\ answer.selected = ServerRecord(h).groups[1] /\ answer.measured = h
           /\ answer.hrr = HasSent("server", "hrr")
           /\ answer.hrrGroup \in {NoGroup, answer.selected}
           /\ \A p \in Hellos(wire["client"]) :
                (\A j \in Hellos(wire["client"]) : j =< p) /\ wire["client"][p].kind = "ch" =>
                  /\ hello.shares = wire["client"][p].groups /\ hello.measured > 0
                  /\ answer.selected \in Names(hello.shares)
<1> DEFINE sw == wire["server"]
           cw == wire["client"]
<1>1. PICK k \in DOMAIN sw : sw[k].kind = "fin" /\ 2 * k =< forwarded["server"]
  BY DEF TInv, ClientWire, Completed, HasSent
<1>2. PICK h \in DOMAIN sw : h < k /\ sw[h].kind = "sh"
  BY <1>1 DEF TInv, ServerWire
<1>3. \A d \in Sides : \A i \in DOMAIN wire[d] : 2 * i =< forwarded[d] => i =< Seen(d)
  <2> TAKE d \in Sides
  <2> TAKE i \in DOMAIN wire[d]
  <2>1. /\ i \in Nat /\ forwarded[d] \in Nat /\ parsed[d] \in Nat /\ Seen(d) \in Nat
        /\ parsed[d] =< Seen(d) /\ forwarded[d] =< 2 * parsed[d] + 1
    BY SideFacts
  <2> QED  BY <2>1
<1>4. h =< Seen("server")
  <2>1. h \in Nat /\ k \in Nat /\ k >= 1 /\ forwarded["server"] \in Nat
    BY SideFacts, TwoSides
  <2>2. 2 * h =< forwarded["server"]
    BY <1>1, <1>2, <2>1
  <2> QED  BY <1>3, <2>2, TwoSides
<1>5. h \in HelloAt /\ ServerRecord(h) = sw[h]
  BY <1>2 DEF HelloAt, ServerRecord
<1>6. answer.selected = sw[h].groups[1] /\ answer.measured = h
  BY <1>2, <1>4 DEF TInv, AnswerOK
<1>7. answer.hrr = HasSent("server", "hrr")
  <2>1. HasSent("server", "hrr") <=> \E i \in DOMAIN sw : sw[i].kind = "hrr"
    BY DEF HasSent
  <2>2. answer.hrr <=> \E i \in DOMAIN sw : i =< Seen("server") /\ sw[i].kind = "hrr"
    BY DEF TInv, AnswerOK
  <2>3. ASSUME NEW i \in DOMAIN sw, sw[i].kind = "hrr"  PROVE i =< Seen("server")
    <3>1. i = 1
      BY <2>3 DEF TInv, ServerWire
    <3>2. h \in Nat /\ h >= 1 /\ Seen("server") \in Nat
      BY SideFacts, TwoSides
    <3> QED  BY <1>4, <3>1, <3>2
  <2>4. answer.hrr <=> HasSent("server", "hrr")
    BY <2>1, <2>2, <2>3
  <2>5. answer.hrr \in BOOLEAN /\ HasSent("server", "hrr") \in BOOLEAN
    BY DEF TInv, Types, HasSent
  <2> QED  BY <2>4, <2>5
<1>8. PICK p \in DOMAIN cw : TakenFrom(p, h)
  BY <1>2 DEF TInv, Answered
<1>9. /\ p \in Hellos(cw) /\ \A j \in Hellos(cw) : j =< p
      /\ 2 * p =< forwarded["client"]
      /\ sw[h].groups[1] \in Names(cw[p].groups)
      /\ HasSent("server", "hrr") <=> \E j \in Hellos(cw) : j < p
  BY <1>8 DEF TakenFrom
<1>10. \A i \in Hellos(cw) : i \in DOMAIN cw /\ cw[i].kind \in {"ch", "rest"} /\ i \in Nat /\ i >= 1
  BY SideFacts, TwoSides DEF Hellos
<1>12. answer.hrrGroup \in {NoGroup, answer.selected}
  <2> SUFFICES ASSUME answer.hrrGroup # NoGroup  PROVE answer.hrrGroup = answer.selected
    OBVIOUS
  <2>1. 1 \in DOMAIN sw /\ sw[1].kind = "hrr" /\ sw[1].groups = <<answer.hrrGroup>>
    BY DEF TInv, AnswerOK
  <2>2. PICK j \in Hellos(cw) : j < p
    BY <1>9, <2>1 DEF HasSent
  <2>4. cw[p].groups = SecondShares
    BY <1>9, <2>2, SecondHello
  <2>5. SecondShares = <<answer.hrrGroup>>
    BY <2>1 DEF SecondShares
  <2>6. Names(<<answer.hrrGroup>>) = {answer.hrrGroup}
    BY DEF Names
  <2> QED  BY <1>6, <1>9, <2>4, <2>5, <2>6
<1>13. ASSUME NEW q \in Hellos(cw), \A j \in Hellos(cw) : j =< q, cw[q].kind = "ch"
       PROVE  /\ hello.shares = cw[q].groups /\ hello.measured > 0
              /\ answer.selected \in Names(hello.shares)
  <2>1. q = p
    BY <1>9, <1>10, <1>13
  <2>2. p =< Seen("client")
    BY <1>3, <1>9, TwoSides
  <2>3. ASSUME NEW j \in DOMAIN cw, cw[j].kind \in {"ch", "part", "rest"}  PROVE j =< p
    <3>1. CASE cw[j].kind = "part"
      <4>1. j < p /\ j \in Nat /\ p \in Nat
        BY <1>2, <1>8, <1>9, <1>10, <3>1, NoPartAfter, SideFacts, TwoSides
      <4> QED  BY <4>1
    <3>2. CASE cw[j].kind \in {"ch", "rest"}
      BY <1>9, <3>2 DEF Hellos
    <3> QED  BY <2>3, <3>1, <3>2
  <2>4. hello.shares = cw[p].groups /\ hello.measured > 0
    BY <1>13, <2>1, <2>2, <2>3 DEF TInv, HelloOK
  <2> QED  BY <1>6, <1>9, <2>1, <2>4
<1> QED  BY <1>5, <1>6, <1>7, <1>12, <1>13

\* Of a handshake that the client completes the Summary has the server's fields
\* right, and the key shares when the last hello was whole, although the two
\* threads write the fields without the lock and a split hello can be misread as
\* either message: a client can only have completed on records that had been
\* parsed.
THEOREM FieldsStayRight == Spec => []FieldsAreRight
<1>1. TInv => FieldsAreRight
  BY CompletedFields DEF FieldsAreRight
<1> QED  BY Invariance, <1>1, PTL

\* Two ends that are both told the group have only it in common.
LEMMA OneCommonGroup ==
  ASSUME Types, cell["server"] # "pyssl", cell["client"] # "pyssl"
  PROVE  \A g \in Common : g = cell.group
<1>1. Offered("server") = <<cell.group>> /\ Offered("client") = <<cell.group>>
  BY GroupsOffered, TwoSides
<1>2. Names(<<cell.group>>) = {cell.group}
  BY DEF Names
<1> QED  BY <1>1, <1>2 DEF Common

\* The printed matrix says what happened in each cell.
THEOREM CellStaysTrue == Spec => []CellIsTrue
<1>1. TInv => CellIsTrue
  <2> SUFFICES ASSUME TInv  PROVE CellIsTrue
    OBVIOUS
  <2> DEFINE used(g) == Completed /\ \E h \in HelloAt : ServerRecord(h).groups[1] = g
  <2>1. Completed => Runs(cell)
    <3> HAVE Completed
    <3>1. PICK i \in DOMAIN wire["client"] : TRUE
      BY DEF Completed, HasSent
    <3>2. wire["client"] # <<>>
      BY <3>1
    <3>3. pc["client"] = "none" => wire["client"] = <<>>
      BY TwoSides DEF TInv, Started
    <3>4. ~Runs(cell) => pc["client"] = "none"
      BY DEF TInv, Started
    <3> QED  BY <3>2, <3>3, <3>4
  <2>2. ASSUME Completed
        PROVE  \E h \in HelloAt : /\ Negotiated = ServerRecord(h).groups[1] /\ Negotiated \in Common
                                  /\ \A g \in HelloAt : g = h
    <3>1. PICK h \in HelloAt : /\ answer.selected = ServerRecord(h).groups[1]
                               /\ answer.hrrGroup \in {NoGroup, answer.selected}
      <4>1. \E h \in HelloAt :
              /\ answer.selected = ServerRecord(h).groups[1] /\ answer.measured = h
              /\ answer.hrr = HasSent("server", "hrr")
              /\ answer.hrrGroup \in {NoGroup, answer.selected}
        BY <2>2, CompletedFields
      <4> QED  BY <4>1, Zenon
    <3>2. Negotiated = ServerRecord(h).groups[1]
      BY <3>1 DEF Negotiated
    <3>3. \E g \in Common : ServerRecord(h).groups = <<g>>
      <4>1. h \in DOMAIN wire["server"] /\ wire["server"][h].kind = "sh"
        BY DEF HelloAt, ServerRecord
      <4>2. \E g \in Common : wire["server"][h].groups = <<g>>
        BY <4>1 DEF TInv, ServerWire
      <4> QED  BY <4>2 DEF ServerRecord
    <3>4. \A g \in HelloAt : g = h
      <4> TAKE g \in HelloAt
      <4>1. /\ h \in DOMAIN wire["server"] /\ wire["server"][h].kind = "sh"
            /\ g \in DOMAIN wire["server"] /\ wire["server"][g].kind = "sh"
        BY DEF HelloAt, ServerRecord
      <4> QED  BY <4>1, OneHello DEF TInv
    <3> QED  BY <3>2, <3>3, <3>4
  <2>3. \A g : used(g) <=> Completed /\ Negotiated = g
    BY <2>2
  <2>4. /\ Status = "OK" <=> Completed
        /\ Status = "UNSUPPORTED" <=> ~Runs(cell)
        /\ Status \in {"OK", "UNSUPPORTED", "FAIL"}
    BY <2>1 DEF Status
  <2>5. /\ Shown(Negotiated).mark = "OK" <=> Completed /\ Negotiated = cell.group
        /\ Shown(Negotiated).mark = "OK()" <=> Completed /\ Negotiated # cell.group
        /\ Shown(Negotiated).mark = "n/s" <=> ~Runs(cell)
        /\ Completed => Shown(Negotiated).group = Negotiated
    <3>1. Shown(Negotiated).mark = CASE Status = "OK" /\ Negotiated = cell.group -> "OK"
                         [] Status = "OK" /\ Negotiated # cell.group -> "OK()"
                         [] Status = "UNSUPPORTED" -> "n/s"
                         [] OTHER                  -> "FAIL"
      BY DEF Shown
    <3>2. Shown(Negotiated).group = IF Status = "OK" THEN Negotiated ELSE NoGroup
      BY DEF Shown
    <3>3. CASE Status = "OK" /\ Negotiated = cell.group
      <4>1. Shown(Negotiated).mark = "OK" /\ Shown(Negotiated).group = Negotiated
        BY <3>1, <3>2, <3>3
      <4>2. Completed /\ Runs(cell)
        BY <2>4, <3>3
      <4> QED  BY <3>3, <4>1, <4>2
    <3>4. CASE Status = "OK" /\ Negotiated # cell.group
      BY <2>4, <3>1, <3>2, <3>4
    <3>5. CASE Status = "UNSUPPORTED"
      BY <2>4, <3>1, <3>5
    <3>6. CASE Status = "FAIL"
      BY <2>4, <3>1, <3>6
    <3> QED  BY <2>4, <3>3, <3>4, <3>5, <3>6
  <2>10. /\ Shown(NoGroup).mark = "OK()" <=> Completed
         /\ Shown(NoGroup).mark = "n/s" <=> ~Runs(cell)
         /\ Shown(NoGroup).mark # "OK" /\ Shown(NoGroup).group = NoGroup
    <3>1. NoGroup # cell.group
      <4>1. cell.group \in Groups
        BY GroupsOffered, TwoSides DEF TInv
      <4> QED  BY <4>1, GroupsAssumption
    <3>2. Shown(NoGroup).mark = CASE Status = "OK" /\ NoGroup = cell.group -> "OK"
                                  [] Status = "OK" /\ NoGroup # cell.group -> "OK()"
                                  [] Status = "UNSUPPORTED" -> "n/s"
                                  [] OTHER                  -> "FAIL"
      BY DEF Shown
    <3>3. Shown(NoGroup).group = NoGroup
      BY DEF Shown
    <3>4. CASE Status = "OK"
      <4>1. Shown(NoGroup).mark = "OK()"
        BY <3>1, <3>2, <3>4
      <4> QED  BY <2>1, <2>4, <3>3, <3>4, <4>1
    <3>5. CASE Status = "UNSUPPORTED"
      BY <2>4, <3>2, <3>3, <3>5
    <3>6. CASE Status = "FAIL"
      BY <2>4, <3>2, <3>3, <3>6
    <3> QED  BY <2>4, <3>4, <3>5, <3>6
  <2>6. Completed => Negotiated \in Common
    BY <2>2
  <2>7. Shown(Negotiated).mark = "OK()" => "pyssl" \in {cell.server, cell.client}
    <3>1. Types
      BY DEF TInv
    <3>2. ASSUME cell["server"] # "pyssl", cell["client"] # "pyssl"  PROVE Shown(Negotiated).mark # "OK()"
      BY <2>5, <2>6, <3>1, <3>2, OneCommonGroup
    <3> QED  BY <3>2
  <2>8. Shown(Negotiated).mark = "OK" <=> used(cell.group)
    BY <2>3, <2>5
  <2>9. Shown(Negotiated).mark \in {"OK", "OK()"} => used(Shown(Negotiated).group) /\ Shown(Negotiated).group \in Common
    BY <2>3, <2>5, <2>6
  <2>11. /\ Shown(Negotiated).mark = "OK" <=> used(cell.group)
         /\ Shown(Negotiated).mark \in {"OK", "OK()"} =>
              used(Shown(Negotiated).group) /\ Shown(Negotiated).group \in Common
         /\ Shown(Negotiated).mark = "OK()" => "pyssl" \in {cell.server, cell.client}
         /\ Shown(Negotiated).mark = "n/s" <=> ~Runs(cell)
    BY <2>5, <2>7, <2>8, <2>9
  <2> QED  BY <2>10, <2>11, Zenon DEF CellIsTrue
<1> QED  BY Invariance, <1>1, PTL

-------------------------------------------------------------------------------
(* The flight                                                               *)

\* The entries of one direction are in the order of their places.
LEMMA InOrder ==
  ASSUME TInv, NEW i \in DOMAIN records, NEW j \in DOMAIN records, records[i].dir = records[j].dir
  PROVE  /\ i =< j => records[i].place =< records[j].place
         /\ records[i].place =< records[j].place => i =< j
<1>1. /\ i < j => records[i].place < records[j].place
      /\ j < i => records[j].place < records[i].place
  BY DEF TInv, Listed
<1>2. i \in Nat /\ j \in Nat /\ records[i].place \in Nat /\ records[j].place \in Nat
  BY ListFacts
<1> QED  BY <1>1, <1>2

\* What the sender of a record had received comes before it in the list.
LEMMA ListedBefore ==
  ASSUME TInv, NEW i \in DOMAIN records, NEW n \in Nat, n >= 1,
         n =< wire[records[i].dir][records[i].place].after
  PROVE  \E k \in DOMAIN records : k < i /\ records[k].dir = Other(records[i].dir) /\ records[k].place = n
<1> DEFINE a == wire[records[i].dir][records[i].place].after
<1>1. /\ i \in Nat /\ i =< Len(records) /\ Len(records) \in Nat /\ DOMAIN records = 1 .. Len(records)
      /\ a \in Nat
  BY ListFacts, SideFacts, SMTT(60)
<1>2. \A m \in 1 .. a : \E k \in 1 .. i - 1 : records[k] = [dir |-> Other(records[i].dir), place |-> m]
  BY DEF TInv, Causal
<1> HIDE DEF a
<1>3. n \in 1 .. a
  BY <1>1 DEF a
<1>4. PICK k \in 1 .. i - 1 : records[k] = [dir |-> Other(records[i].dir), place |-> n]
  BY <1>2, <1>3
<1>5. k \in DOMAIN records /\ k < i
  BY <1>1
<1> QED  BY <1>4, <1>5

\* A record that has been passed on is in the list.
LEMMA ListedWhenForwarded ==
  ASSUME TInv, NEW d \in Sides, NEW n \in Nat, n >= 1, 2 * n =< forwarded[d]
  PROVE  \E i \in DOMAIN records : records[i].dir = d /\ records[i].place = n
<1>1. n \in 1 .. parsed[d]
  <2>1. forwarded[d] \in Nat /\ parsed[d] \in Nat /\ forwarded[d] =< 2 * parsed[d] + 1
    BY SideFacts
  <2> QED  BY <2>1
<1>2. PICK i \in DOMAIN records : records[i] = [dir |-> d, place |-> n]
  BY <1>1 DEF TInv, Listed
<1> QED  BY <1>2

\* The flight is exact: the two threads race to the list, but a client that has
\* seen a server record can only have seen it after it was listed.
LEMMA FlightFacts ==
  ASSUME TInv, NEW h \in HelloAt, ServerRecord(h).after + 1 \in DOMAIN wire["client"],
         wire["client"][ServerRecord(h).after + 1].after >= h
  PROVE  LET counted == {records[i].place : i \in Flight}
             reply   == ServerRecord(h).after + 1
         IN  /\ h .. wire["client"][reply].after \subseteq counted
             /\ \A c \in counted : c >= h /\ ServerRecord(c).after < reply
<1> DEFINE sw == wire["server"]
           cw == wire["client"]
           reply == sw[h].after + 1
           seen == cw[reply].after
           D(i) == records[i].dir
           P(i) == records[i].place
<1>1. /\ h \in DOMAIN sw /\ sw[h].kind = "sh" /\ reply \in DOMAIN cw /\ seen >= h
      /\ \A c : ServerRecord(c) = sw[c]
  BY DEF HelloAt, ServerRecord
<1>2. h \in Nat /\ h >= 1 /\ sw[h].after \in Nat /\ reply \in Nat /\ seen \in Nat /\ 2 * seen =< forwarded["server"]
  <2>1. h \in Nat /\ h >= 1 /\ sw[h].after \in Nat
    BY <1>1, SideFacts, TwoSides
  <2>2. seen \in Nat
    BY <1>1, SideFacts, TwoSides
  <2>3. 2 * seen =< forwarded["server"]
    BY <1>1, TwoSides DEF TInv, Causal
  <2> QED  BY <2>1, <2>2, <2>3
<1>3. \A i \in DOMAIN records : /\ i \in Nat /\ i >= 1 /\ P(i) \in Nat
                                /\ D(i) = "client" \/ D(i) = "server"
                                /\ D(i) = "client" => P(i) \in DOMAIN cw
                                /\ D(i) = "server" => P(i) \in DOMAIN sw
  <2> TAKE i \in DOMAIN records
  <2>1. /\ D(i) \in Sides /\ P(i) \in Nat /\ P(i) \in DOMAIN wire[D(i)]
        /\ Len(records) \in Nat /\ DOMAIN records = 1 .. Len(records)
    BY ListFacts
  <2>2. i \in Nat /\ i >= 1
    BY <2>1
  <2> QED  BY <2>1, <2>2, TwoSides
<1>4. \A i, j \in DOMAIN records : D(i) = D(j) => /\ i =< j => P(i) =< P(j)
                                                  /\ P(i) =< P(j) => i =< j
  BY InOrder
<1>5. \A i \in DOMAIN records : \A n \in Nat :
        /\ D(i) = "server" /\ n >= 1 /\ n =< sw[P(i)].after =>
             \E k \in DOMAIN records : k < i /\ D(k) = "client" /\ P(k) = n
        /\ D(i) = "client" /\ n >= 1 /\ n =< cw[P(i)].after =>
             \E k \in DOMAIN records : k < i /\ D(k) = "server" /\ P(k) = n
  BY ListedBefore, TwoSides
<1> HIDE DEF reply, seen, D, P
<1>6. PICK k0 \in DOMAIN records : D(k0) = "server" /\ P(k0) = h
  <2>1. 2 * h =< forwarded["server"] /\ "server" \in Sides
    <3>1. forwarded["server"] \in Nat
      BY SideFacts, TwoSides
    <3> QED  BY <1>1, <1>2, <3>1, TwoSides
  <2> QED  BY <1>2, <2>1, ListedWhenForwarded DEF D, P
<1>7. \A k \in DOMAIN records : D(k) = "server" /\ P(k) = h => k = k0
  BY <1>2, <1>3, <1>4, <1>6
<1>8. \A i \in DOMAIN records : \A k \in 1 .. i : k \in DOMAIN records
  <2>1. Len(records) \in Nat /\ DOMAIN records = 1 .. Len(records)
    BY ListFacts
  <2> QED  BY <2>1
<1>9. ASSUME NEW i \in DOMAIN records, D(i) = "server", P(i) >= h, P(i) =< seen
      PROVE  i \in Flight
  <2>1. k0 =< i
    BY <1>2, <1>3, <1>4, <1>6, <1>9
  <2>2. k0 \in 1 .. i
    BY <1>3, <1>6, <2>1
  <2>3. KindOf(records[k0]) = "sh"
    BY <1>1, <1>6 DEF KindOf, D, P
  <2>4. ASSUME NEW j \in k0 .. i  PROVE D(j) = "server"
    <3>1. j \in DOMAIN records /\ j \in Nat /\ k0 =< j /\ j =< i
      <4>1. k0 \in Nat /\ k0 >= 1 /\ i \in Nat
        BY <1>3, <1>6
      <4>2. j \in 1 .. i /\ j \in Nat /\ k0 =< j /\ j =< i
        BY <4>1
      <4> QED  BY <1>8, <4>2
    <3>2. SUFFICES ASSUME D(j) = "client"  PROVE FALSE
      BY <1>3, <3>1
    <3>3. P(j) \in DOMAIN cw /\ P(j) \in Nat /\ P(j) >= 1
      BY <1>3, <3>1, <3>2, SideFacts, TwoSides
    <3>4. CASE P(j) =< sw[h].after
      <4>1. PICK k \in DOMAIN records : k < k0 /\ D(k) = "client" /\ P(k) = P(j)
        BY <1>5, <1>6, <3>3, <3>4
      <4>2. j =< k
        BY <1>4, <3>1, <3>2, <3>3, <4>1
      <4> QED  BY <1>3, <1>6, <3>1, <4>1, <4>2
    <3>5. CASE reply =< P(j)
      <4>1. seen =< cw[P(j)].after
        BY <1>1, <3>3, <3>5, TwoSides DEF TInv, Causal, seen
      <4>2. cw[P(j)].after \in Nat
        BY <3>3, SideFacts, TwoSides
      <4>3. P(i) \in Nat /\ P(i) >= 1 /\ P(i) =< cw[P(j)].after
        <5>1. P(i) \in Nat
          BY <1>3
        <5> QED  BY <1>2, <1>9, <4>1, <4>2, <5>1
      <4>4. PICK k \in DOMAIN records : k < j /\ D(k) = "server" /\ P(k) = P(i)
        BY <1>5, <3>1, <3>2, <4>3
      <4>5. i =< k
        BY <1>4, <1>9, <4>3, <4>4
      <4> QED  BY <1>3, <3>1, <4>4, <4>5
    <3>6. P(j) =< sw[h].after \/ reply =< P(j)
      BY <1>2, <3>3 DEF reply
    <3> QED  BY <3>4, <3>5, <3>6
  <2> QED  BY <1>9, <2>2, <2>3, <2>4 DEF Flight, D
<1>10. h .. seen \subseteq {records[i].place : i \in Flight}
  <2> SUFFICES ASSUME NEW n \in h .. seen  PROVE \E i \in Flight : records[i].place = n
    OBVIOUS
  <2>1. n \in Nat /\ n >= 1 /\ n >= h /\ n =< seen /\ 2 * n =< forwarded["server"]
    <3>1. forwarded["server"] \in Nat
      BY SideFacts, TwoSides
    <3> QED  BY <1>2, <3>1
  <2>2. PICK i \in DOMAIN records : D(i) = "server" /\ P(i) = n
    BY <2>1, ListedWhenForwarded, TwoSides DEF D, P
  <2>3. i \in Flight
    BY <1>9, <2>1, <2>2
  <2> QED  BY <2>2, <2>3 DEF P
<1>11. ASSUME NEW i \in Flight
       PROVE  P(i) >= h /\ sw[P(i)].after < reply
  <2>1. i \in DOMAIN records /\ D(i) = "server"
    BY DEF Flight, D
  <2>2. PICK k \in 1 .. i : KindOf(records[k]) = "sh" /\ \A j \in k .. i : D(j) = "server"
    BY DEF Flight, D
  <2>3. k \in DOMAIN records /\ k \in Nat /\ i \in Nat /\ k =< i
    BY <1>3, <1>8, <2>1
  <2>4. D(k) = "server"
    BY <2>2, <2>3
  <2>5. P(k) = h
    <3>1. P(k) \in DOMAIN sw /\ sw[P(k)].kind = "sh"
      BY <1>3, <2>2, <2>3, <2>4 DEF KindOf, D, P
    <3> QED  BY <1>1, <3>1, OneHello DEF TInv
  <2>6. P(i) >= h
    BY <1>2, <1>3, <1>4, <2>1, <2>3, <2>4, <2>5
  <2>7. sw[P(i)].after \in Nat
    BY <1>3, <2>1, SideFacts, TwoSides
  <2>8. ASSUME reply =< sw[P(i)].after  PROVE FALSE
    <3>1. reply >= 1
      BY <1>2 DEF reply
    <3>2. PICK q \in DOMAIN records : q < i /\ D(q) = "client" /\ P(q) = reply
      BY <1>2, <1>5, <2>1, <2>8, <3>1
    <3>3. q \in Nat
      BY <1>3
    <3>4. q < k
      <4>1. q \notin k .. i
        BY <2>2, <3>2
      <4> QED  BY <2>3, <3>2, <3>3, <4>1
    <3>5. PICK l \in DOMAIN records : l < q /\ D(l) = "server" /\ P(l) = h
      BY <1>1, <1>2, <1>5, <3>2 DEF seen
    <3>6. l = k /\ l \in Nat
      BY <1>3, <1>7, <2>3, <2>4, <2>5, <3>5
    <3> QED  BY <2>3, <3>3, <3>4, <3>5, <3>6
  <2> QED  BY <1>2, <2>6, <2>7, <2>8
<1> QED  BY <1>1, <1>10, <1>11 DEF reply, seen, P

\* Whatever the interleaving of the two threads, the flight that is measured is
\* what the server sent without waiting for the client.
THEOREM FlightStaysExact == Spec => []FlightIsExact
<1>1. TInv => FlightIsExact
  BY FlightFacts DEF FlightIsExact
<1> QED  BY Invariance, <1>1, PTL
===============================================================================
