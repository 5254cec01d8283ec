----------------------------- MODULE TlsObserver ------------------------------
(***************************************************************************)
(* labs/ch05/solution/tlsobserve.py, and cell() of                         *)
(* labs/ch12/solution/interop.py, which puts it between two TLS            *)
(* implementations.  Two threads run pump(), one per direction; each       *)
(* parses what it receives before it forwards it, and both append to one   *)
(* list of records, whose order the flight computation reads.              *)
(*                                                                         *)
(* A stream is a sequence of TLS records; a position in it counts half     *)
(* records, so that a recv can end inside one.                             *)
(***************************************************************************)
EXTENDS Integers, Sequences

CONSTANTS
  Cells,          \* [server, client, group]: the cells of the matrix
  Groups,         \* the groups the matrix asks for, and the library's default
  GoSupported,    \* GO_SUPPORTED
  LibraryDefault, \* the groups pyssl offers, in order, whatever was asked
  Shares,         \* how many key shares a client sends at most
  Fragmenting,    \* the cells whose client may split a ClientHello over two records
  Aborts          \* endpoints may close at any point

Sides == {"client", "server"}
Other(d) == CHOOSE e \in Sides : e # d
Impls == {"openssl", "go", "pyssl"}
NoGroup == "none"

ASSUME CellsAssumption ==
  Cells \subseteq [server : Impls, client : Impls, group : Groups] /\ Fragmenting \subseteq Cells
ASSUME GroupsAssumption ==
  /\ GoSupported \subseteq Groups /\ NoGroup \notin Groups
  /\ LibraryDefault \in Seq(Groups) /\ LibraryDefault # <<>>
ASSUME BoundsAssumption == Shares \in Nat \ {0} /\ Aborts \in BOOLEAN

VARIABLES
  cell,      \* the cell of the matrix that is being run
  wire,      \* the records each endpoint has sent
  closed,    \* endpoints that have closed their socket
  pc,        \* the step each pump is at
  received,  \* half records each pump has received
  forwarded, \* half records each pump has passed on
  parsed,    \* records each RecordParser has taken from its buffer
  records,   \* Summary.records: direction and place in its stream
  hello,     \* the client's fields of the Summary (its groups are left out:
             \* every hello of a client lists the same ones)
  answer     \* the server's fields of the Summary

endpoints == <<cell, wire, closed>>
observer  == <<received, forwarded, parsed>>
summary   == <<records, hello, answer>>
vars == <<endpoints, pc, observer, summary>>

------------------------------------------------------------------------------
(* The implementations. *)

\* client_supports, start_server: what cannot be configured is not run.
Supports(impl, group) == impl = "go" => group \in GoSupported

Runs(c) == Supports(c.client, c.group) /\ Supports(c.server, c.group)

\* What -groups or the library's default make an endpoint offer.  (Where the ssl
\* module has set_groups, pyssl offers what openssl would.)
Offered(d) == IF cell[d] = "pyssl" THEN LibraryDefault ELSE <<cell.group>>

Names(groups) == {groups[i] : i \in DOMAIN groups}

FirstShares == LET o == Offered("client")
               IN  SubSeq(o, 1, IF Len(o) < Shares THEN Len(o) ELSE Shares)

\* An unsupported cell starts neither server nor observer; a supported one may
\* find no server behind the relay, and then observe_one raises.
Init == /\ cell \in Cells
        /\ wire = [d \in Sides |-> <<>>]
        /\ pc \in {[d \in Sides |-> p] : p \in {"recv", "none"}}
        /\ pc["client"] = "recv" => Runs(cell)
        /\ closed = IF pc["client"] = "recv" THEN {} ELSE Sides
        /\ received = [d \in Sides |-> 0]
        /\ forwarded = [d \in Sides |-> 0]
        /\ parsed = [d \in Sides |-> 0]
        /\ records = <<>>
        /\ hello = [shares |-> <<>>, measured |-> 0]
        /\ answer = [hrr |-> FALSE, hrrGroup |-> NoGroup, selected |-> NoGroup, measured |-> 0]

Goto(d, where) == pc' = [pc EXCEPT ![d] = where]

------------------------------------------------------------------------------
(* The endpoints (external: RFC 8446).  A record remembers in `after` how   *)
(* many of the peer's records its sender had received.                      *)

Got(d) == SubSeq(wire[Other(d)], 1, forwarded[Other(d)] \div 2)
HasSent(d, kind) == \E i \in DOMAIN wire[d] : wire[d][i].kind = kind
HasGot(d, kind) == \E i \in DOMAIN Got(d) : Got(d)[i].kind = kind

\* The places of the hellos that are whole: a split one is with its last part.
Hellos(stream) == {i \in DOMAIN stream : stream[i].kind \in {"ch", "rest"}}

Send(d, kind, groups) ==
  /\ d \notin closed /\ ~HasSent(d, "alert")
  /\ wire' = [wire EXCEPT ![d] =
                Append(@, [kind |-> kind, groups |-> groups, after |-> Len(Got(d))])]
  /\ UNCHANGED <<cell, closed, pc, observer, summary>>

\* The group a HelloRetryRequest asked for, in the sequence of shares.
Asked == LET i == CHOOSE i \in DOMAIN wire["server"] : wire["server"][i].kind = "hrr"
         IN  wire["server"][i].groups

BeginHello(shares) == \/ Send("client", "ch", shares)
                      \/ cell \in Fragmenting /\ Send("client", "part", shares)

\* A hello, and another one in answer to a retry; each may be split in two.
SendHello ==
  LET sent == wire["client"]
      last == sent[Len(sent)]
  IN  \/ sent = <<>> /\ BeginHello(FirstShares)
      \/ sent # <<>> /\ last.kind = "part" /\ Send("client", "rest", last.groups)
      \/ /\ HasGot("client", "hrr") /\ Hellos(sent) = {Len(sent)}
         /\ BeginHello(IF Asked = <<>> THEN FirstShares ELSE Asked)

\* The last hello the server has got, if it is not the one it has retried.
Unanswered ==
  LET hellos == Hellos(Got("server"))
  IN  {i \in hellos : /\ \A j \in hellos : j =< i
                      /\ HasSent("server", "hrr") <=> \E j \in hellos : j < i}

Common == Names(Offered("server")) \cap Names(Offered("client"))

\* A share it can use is taken or another common group is asked for; a
\* HelloRetryRequest may also only carry a cookie.
SendAnswer ==
  /\ ~HasSent("server", "sh")
  /\ \E i \in Unanswered :
       LET offered == Names(wire["client"][i].groups) IN
       \/ /\ ~HasSent("server", "hrr")
          /\ \/ \E g \in Common \ offered : Send("server", "hrr", <<g>>)
             \/ Common # {} /\ Send("server", "hrr", <<>>)
       \/ \E g \in Common \cap offered : Send("server", "sh", <<g>>)

SendRest ==
  \/ HasSent("server", "sh") /\ ~HasSent("server", "fin") /\ Send("server", "fin", <<>>)
  \/ HasGot("client", "fin") /\ ~HasSent("client", "fin") /\ Send("client", "fin", <<>>)
  \/ HasGot("server", "fin") /\ ~HasSent("server", "ticket") /\ Send("server", "ticket", <<>>)

SendAlert(d) == /\ wire["client"] # <<>>
                /\ Aborts \/ (d = "server" /\ Hellos(Got("server")) # {} /\ Common = {})
                /\ Send(d, "alert", <<>>)

\* The handshake is complete for the client.
Completed == HasSent("client", "fin")

\* The relay has shut down the socket the endpoint reads from.
Close(d) ==
  /\ d \notin closed
  /\ Aborts \/ Completed \/ pc[Other(d)] = "ended" \/ HasGot(d, "alert") \/ HasSent(d, "alert")
  /\ closed' = closed \cup {d}
  /\ UNCHANGED <<cell, wire, pc, observer, summary>>

Endpoints == \/ SendHello \/ SendAnswer \/ SendRest
             \/ \E d \in Sides : SendAlert(d) \/ Close(d)

------------------------------------------------------------------------------
(* pump(): recv, feed, sendall. *)

\* Mutant of Recv: what has been received is passed on before it is parsed.
RecvForwards(d) ==
  /\ pc[d] = "recv"
  /\ \E upto \in received[d] + 1 .. 2 * Len(wire[d]) :
       /\ received' = [received EXCEPT ![d] = upto]
       /\ forwarded' = [forwarded EXCEPT ![d] = upto]
  /\ Goto(d, "feed")
  /\ UNCHANGED <<endpoints, parsed, summary>>

Recv(d) ==
  /\ pc[d] = "recv"
  /\ \E upto \in received[d] + 1 .. 2 * Len(wire[d]) : received' = [received EXCEPT ![d] = upto]
  /\ Goto(d, "feed")
  /\ UNCHANGED <<endpoints, forwarded, parsed, summary>>

\* Mutant of StopReceiving: the sockets have no timeout.
StopAtEof(d) ==
  /\ pc[d] = "recv"
  /\ received[d] = 2 * Len(wire[d])
  /\ d \in closed
  /\ Goto(d, "ended")
  /\ UNCHANGED <<endpoints, observer, summary>>

\* Nothing to read: the endpoint closed, or the socket timeout expires.
StopReceiving(d) ==
  /\ pc[d] = "recv"
  /\ received[d] = 2 * Len(wire[d])
  /\ Goto(d, "ended")
  /\ UNCHANGED <<endpoints, observer, summary>>

\* feed() has taken every whole record and returns.
Fed(d) == pc[d] = "feed" /\ received[d] < 2 * (parsed[d] + 1)

SendAll(d) ==
  /\ Fed(d)
  /\ forwarded' = [forwarded EXCEPT ![d] = received[d]]
  /\ Goto(d, "recv")
  /\ UNCHANGED <<endpoints, received, parsed, summary>>

SendFails(d) ==
  /\ Fed(d)
  /\ Other(d) \in closed
  /\ Goto(d, "ended")
  /\ UNCHANGED <<endpoints, observer, summary>>

------------------------------------------------------------------------------
(* RecordParser.feed() and record() *)

Current(d) == wire[d][parsed[d] + 1]

\* client_hello_bytes keeps the first hello that was parsed to the end.
FirstMeasured(h) == IF h.measured = 0 THEN parsed["client"] + 1 ELSE h.measured

\* What reading a record that was cut may do, s being the shares it lists: they
\* are set or not, and the size is set unless an exception was raised, which
\* cannot happen once the shares have been set.
Cut(h, s) ==
  {x \in [shares : {h.shares, s}, measured : {h.measured, FirstMeasured(h)}] :
     x.shares # h.shares => x.measured = FirstMeasured(h)}

\* Mutant of Hello: all of the first hello is kept.
HelloOnce(r, h) ==
  IF r.kind = "ch" /\ h.measured = 0
  THEN {[shares |-> r.groups, measured |-> FirstMeasured(h)]}
  ELSE {h}

\* parse_client_hello.  The first part of a split hello ends before, inside or
\* after its key shares; the rest starts with any byte, which may be the one that
\* says ClientHello, and then lists no shares or nonsense.  The shares are those
\* of the last hello that was parsed.
Hello(r, h) ==
  CASE r.kind = "ch"   -> {[shares |-> r.groups, measured |-> FirstMeasured(h)]}
    [] r.kind = "part" -> Cut(h, r.groups)
    [] r.kind = "rest" -> Cut(h, <<NoGroup>>)
    [] OTHER           -> {h}

\* parse_server_hello: the random says which of the two messages it is.
Answer(r, a) ==
  CASE r.kind = "hrr" -> [a EXCEPT !.hrr = TRUE, !.measured = parsed["server"] + 1,
                                   !.hrrGroup = IF r.groups = <<>> THEN @ ELSE r.groups[1]]
    [] r.kind = "sh"  -> [a EXCEPT !.selected = r.groups[1], !.measured = parsed["server"] + 1]
    [] OTHER          -> a

\* The rest of a hello starts with the byte that says ServerHello: the client's
\* direction writes the server's fields (0 stands for its own record).
MisreadAnswers(r, a) ==
  IF r.kind = "rest"
  THEN {a} \cup {[a EXCEPT !.selected = g, !.measured = 0] : g \in {a.selected, NoGroup}}
  ELSE {}

\* Without the lock: the parsed fields.
Parse(d) ==
  /\ pc[d] = "feed" /\ ~Fed(d)
  /\ \/ d = "client" /\ hello' \in Hello(Current(d), hello) /\ UNCHANGED answer
     \/ d = "client" /\ answer' \in MisreadAnswers(Current(d), answer) /\ UNCHANGED hello
     \/ d = "server" /\ answer' = Answer(Current(d), answer) /\ UNCHANGED hello
  /\ Goto(d, "append")
  /\ UNCHANGED <<endpoints, observer, records>>

\* Under the lock: the record and the byte count.
AppendRecord(d) ==
  /\ pc[d] = "append"
  /\ records' = Append(records, [dir |-> d, place |-> parsed[d] + 1])
  /\ parsed' = [parsed EXCEPT ![d] = @ + 1]
  /\ Goto(d, "feed")
  /\ UNCHANGED <<endpoints, received, forwarded, hello, answer>>

Pump(d) == \/ Recv(d) \/ StopReceiving(d) \/ SendAll(d) \/ SendFails(d)
           \/ Parse(d) \/ AppendRecord(d)

\* observe_one returns, and cell() with it.
Ended == \A d \in Sides : pc[d] \in {"ended", "none"}

Joined == Ended /\ closed = Sides /\ UNCHANGED vars

Next == Endpoints \/ (\E d \in Sides : Pump(d)) \/ Joined

\* The threads run; a recv with nothing to read ends in EOF or a timeout.  The
\* endpoints need not do anything.
Spec == Init /\ [][Next]_vars /\ \A d \in Sides : WF_vars(Pump(d))

------------------------------------------------------------------------------
(* What observe_one and cell() make of the Summary. *)

KindOf(r) == wire[r.dir][r.place].kind

\* Mutant of Flight: seen_sh is set by a HelloRetryRequest too.
FlightFromRetry ==
  {i \in DOMAIN records :
     /\ records[i].dir = "server"
     /\ \E k \in 1 .. i :
          /\ KindOf(records[k]) \in {"sh", "hrr"}
          /\ \A j \in k .. i : records[j].dir = "server"}

\* Places in the list of the records counted in server_first_flight_bytes: the
\* server's from the ServerHello on, up to the client's first record after it.
Flight ==
  {i \in DOMAIN records :
     /\ records[i].dir = "server"
     /\ \E k \in 1 .. i :
          /\ KindOf(records[k]) = "sh"
          /\ \A j \in k .. i : records[j].dir = "server"}

\* run_client's verdict.
Status == IF ~Runs(cell) THEN "UNSUPPORTED" ELSE IF Completed THEN "OK" ELSE "FAIL"

\* Mutant of Negotiated: the first share that the client offered.
FirstOffer == IF hello.shares = <<>> THEN NoGroup ELSE hello.shares[1]

\* What the Summary says was negotiated.
Negotiated == IF answer.hrrGroup # NoGroup THEN answer.hrrGroup ELSE answer.selected

\* render(): a cell of the printed matrix.  cell() waits 15 seconds for the
\* observer; when that is late, negotiated is empty.
Shown(negotiated) ==
  [mark |-> CASE Status = "OK" /\ negotiated = cell.group -> "OK"
              [] Status = "OK" /\ negotiated # cell.group -> "OK()"
              [] Status = "UNSUPPORTED" -> "n/s"
              [] OTHER                  -> "FAIL",
   group |-> IF Status = "OK" THEN negotiated ELSE NoGroup]

------------------------------------------------------------------------------
(* Properties *)

ServerRecord(i) == wire["server"][i]
HelloAt == {i \in DOMAIN wire["server"] : ServerRecord(i).kind = "sh"}

\* The flight is what the server sent without waiting for the client, although
\* two threads race to the list it is computed from: when the client's next
\* record answers the ServerHello, every server record from the ServerHello on
\* that the client had seen when it sent it is counted, and none that the
\* server sent after seeing it.
FlightIsExact ==
  Ended =>
    LET counted == {records[i].place : i \in Flight} IN
    \A h \in HelloAt :
      LET reply == ServerRecord(h).after + 1 IN
      reply \in DOMAIN wire["client"] =>
        LET seen == wire["client"][reply].after IN
        seen >= h => /\ h .. seen \subseteq counted
                     /\ \A i \in counted : i >= h /\ ServerRecord(i).after < reply

\* Of a client that completes the handshake the Summary has the server's fields
\* right, at the moment the client does so, in spite of the missing lock and of
\* whatever the parts of a split hello were read as: the group in use, whether
\* there was a retry and for which group.  It has the client's key shares right,
\* that group among them, when the client's last hello came in one record,
\* whatever the hello before it left behind.
FieldsAreRight ==
  Completed =>
    \E h \in HelloAt :
      /\ answer.selected = ServerRecord(h).groups[1] /\ answer.measured = h
      /\ answer.hrr = HasSent("server", "hrr")
      /\ answer.hrrGroup \in {NoGroup, answer.selected}
      /\ \A p \in Hellos(wire["client"]) :
           (\A j \in Hellos(wire["client"]) : j =< p) /\ wire["client"][p].kind = "ch" =>
             /\ hello.shares = wire["client"][p].groups /\ hello.measured > 0
             /\ answer.selected \in Names(hello.shares)

\* The printed matrix says what happened: OK for a handshake with the group
\* that was asked for, OK(g) only where a pyssl end chose g by itself, n/s only
\* where Go lacks the group; a group that is named is one that both ends offered
\* and the one they use.  When the client has returned and the observer is late,
\* a completed handshake is shown as OK() without a group.
CellIsTrue ==
  LET used(g) == Completed /\ \E h \in HelloAt : ServerRecord(h).groups[1] = g
      shown   == Shown(Negotiated)
      unnamed == Shown(NoGroup)
  IN  /\ Ended =>
           /\ shown.mark = "OK" <=> used(cell.group)
           /\ shown.mark \in {"OK", "OK()"} => used(shown.group) /\ shown.group \in Common
           /\ shown.mark = "OK()" => "pyssl" \in {cell.server, cell.client}
           /\ shown.mark = "n/s" <=> ~Runs(cell)
      /\ "client" \in closed =>
           /\ unnamed.mark = "OK()" <=> Completed
           /\ unnamed.mark = "n/s" <=> ~Runs(cell)
           /\ unnamed.mark # "OK" /\ unnamed.group = NoGroup

\* observe_one always returns: an endpoint that falls silent or disappears in
\* the middle of the handshake is cut off by the timeouts, and the end of one
\* direction does not leave the other one hanging.
ObserveEnds == <>Ended
==============================================================================
