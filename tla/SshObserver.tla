----------------------------- MODULE SshObserver ------------------------------
(***************************************************************************)
(* labs/ch06/solution/sshobserve.py.  In relay mode two threads run        *)
(* pump(), one per direction, and both write one Summary without a lock.   *)
(* In audit mode the same parser reads one server until its KEXINIT.  In   *)
(* lab mode the relay is that of kexlab.py: its sockets have no timeouts,  *)
(* and a third thread, run_scenario, waits for the client and writes a row *)
(* of the Summary, whether or not the relay has ended.                     *)
(*                                                                         *)
(* An endpoint's stream is a sequence of units, a line or a binary packet  *)
(* each; a position in a stream counts half units, so that a recv can end  *)
(* inside one.                                                             *)
(***************************************************************************)
EXTENDS Integers, Sequences

CONSTANTS
  Offer,     \* per side and list ("kex", "hostkey"): what its KEXINIT names
  Marker,    \* names in the kex list that are no algorithms (kex-strict)
  PqKex,     \* the keys of PQ_KEX
  MaxLines,  \* lines a server may send before its identification
  MaxRecvs,  \* chunks audit_host reads at most, 50 in the code
  Aborts     \* endpoints may close at any point

Sides == {"client", "server"}
Other(d) == CHOOSE e \in Sides : e # d
Lists == {"kex", "hostkey"}

ASSUME OfferAssumption ==
  /\ Offer \in [Sides -> [Lists -> Seq(STRING)]]
  /\ \A d \in Sides, l \in Lists : Offer[d][l] # <<>>
ASSUME BoundsAssumption ==
  MaxLines \in Nat /\ MaxRecvs \in Nat \ {0} /\ Aborts \in BOOLEAN

\* What each side sends (external: OpenSSH, RFC 4253): identification, KEXINIT,
\* its half of the key exchange, NEWKEYS, and encrypted traffic; a server may
\* send other lines first.
Script(d, lines) ==
  [i \in 1 .. lines |-> "line"]
    \o <<"ident", "kexinit", IF d = "client" THEN "init" ELSE "reply", "newkeys", "encrypted">>

VARIABLES
  mode,       \* "relay", "audit" or "lab"
  script,     \* what each endpoint is going to send
  sent,       \* half units each endpoint has sent
  closed,     \* endpoints that have closed their socket
  pc,         \* the step each pump is at
  received,   \* half units each pump has received
  forwarded,  \* half units each pump has passed on
  parsed,     \* units each parser has taken from its buffer
  identDone, encrypted,
  side,       \* Summary.client and Summary.server: the lists of each KEXINIT
  counted,    \* bytes_to_newkeys, in units
  negotiated, \* Summary.negotiated_kex and negotiated_hostkey
  level,      \* Summary.quantum_level is not 0
  ephemeral,  \* sides whose ephemeral value is in the Summary
  common,     \* a host key algorithm negotiated, not stored yet, per thread
  recvs,      \* audit_host's count of chunks
  outcome     \* "none"; of audit_host "report" or "error"; of run_scenario the
              \* exit code of ssh, and then the row, or "killed"

endpoints == <<mode, script, sent, closed>>
parsers   == <<parsed, identDone, encrypted, counted>>
summary   == <<side, negotiated, level, ephemeral>>
audit     == <<recvs, outcome>>
vars == <<endpoints, pc, received, forwarded, parsers, summary, common, audit>>

Nothing == ""
Empty == <<>>

\* An audit has one direction: what the server sends.
Init == /\ mode \in {"relay", "audit", "lab"}
        /\ \E lines \in 0 .. MaxLines :
             script = [d \in Sides |-> Script(d, IF d = "server" THEN lines ELSE 0)]
        /\ sent = [d \in Sides |-> 0]
        /\ closed = IF mode = "audit" THEN {"client"} ELSE {}
        /\ pc = [d \in Sides |-> IF mode # "audit" \/ d = "server" THEN "recv" ELSE "ended"]
        /\ received = [d \in Sides |-> 0]
        /\ forwarded = [d \in Sides |-> 0]
        /\ parsed = [d \in Sides |-> 0]
        /\ identDone = [d \in Sides |-> FALSE]
        /\ encrypted = [d \in Sides |-> FALSE]
        /\ side = [d \in Sides |-> [l \in Lists |-> Empty]]
        /\ counted = [d \in Sides |-> 0]
        /\ negotiated = [l \in Lists |-> Nothing]
        /\ level = FALSE
        /\ ephemeral = {}
        /\ common = [d \in Sides |-> Nothing]
        /\ recvs = 0
        /\ outcome = "none"

End(d) == 2 * Len(script[d])

Goto(d, where) == pc' = [pc EXCEPT ![d] = where]

\* negotiate(): the first of the client's names the server has too.
Negotiate(client, server) ==
  LET shared == {i \in DOMAIN client : /\ \E j \in DOMAIN server : server[j] = client[i]
                                       /\ client[i] \notin Marker}
  IN  IF shared = {} THEN Nothing
      ELSE client[CHOOSE i \in shared : \A j \in shared : i =< j]

------------------------------------------------------------------------------
(* The endpoints (external). *)

\* The peer's unit m has arrived whole.
Arrived(d, m) == \E n \in DOMAIN script[Other(d)] :
                   /\ script[Other(d)][n] = m
                   /\ forwarded[Other(d)] >= 2 * n

\* A unit is sent when the exchange has got that far.
MaySend(d, m) ==
  CASE m = "init"      -> Arrived(d, "kexinit")
    [] m = "reply"     -> Arrived(d, "init")
    [] m = "newkeys"   -> d = "server" \/ Arrived(d, "reply")
    [] m = "encrypted" -> Arrived(d, "newkeys")
    [] OTHER           -> TRUE

SendHalf(d) ==
  /\ d \notin closed
  /\ sent[d] < End(d)
  /\ MaySend(d, script[d][sent[d] \div 2 + 1])
  /\ sent' = [sent EXCEPT ![d] = @ + 1]
  /\ UNCHANGED <<mode, script, closed, pc, received, forwarded, parsers, summary, common, audit>>

\* The relay has shut down the socket an endpoint reads from.
SeesEof(d) == pc[Other(d)] = "ended" \/ mode = "audit"

\* ssh succeeds at most when the server has answered it encrypted; after 30
\* seconds it is killed, and run_scenario raises.
Exits == {"exit 1", "killed"} \cup {c \in {"exit 0"} : Arrived("client", "encrypted")}

Close(d) ==
  /\ d \notin closed
  /\ Aborts \/ sent[d] = End(d) \/ SeesEof(d)
  /\ closed' = closed \cup {d}
  /\ outcome' \in IF mode = "lab" /\ d = "client" THEN Exits ELSE {outcome}
  /\ UNCHANGED <<mode, script, sent, pc, received, forwarded, parsers, summary, common, recvs>>

------------------------------------------------------------------------------
(* pump(): recv, feed, sendall. *)

\* Mutant of RecvAny: what has been received is passed on before it is parsed.
RecvForwards(d) ==
  /\ pc[d] = "recv"
  /\ \E upto \in received[d] + 1 .. sent[d] :
       /\ received' = [received EXCEPT ![d] = upto]
       /\ forwarded' = [forwarded EXCEPT ![d] = upto]
  /\ Goto(d, "feed")
  /\ UNCHANGED <<endpoints, parsers, summary, common>>

RecvAny(d) ==
  /\ pc[d] = "recv"
  /\ \E upto \in received[d] + 1 .. sent[d] : received' = [received EXCEPT ![d] = upto]
  /\ Goto(d, "feed")
  /\ UNCHANGED <<endpoints, forwarded, parsers, summary, common>>

Recv(d) == mode # "audit" /\ RecvAny(d) /\ UNCHANGED audit

\* The sockets of kexlab have no timeout.
TimesOut == mode = "relay"

\* Mutant of StopReceiving: the sockets have no timeout.
StopAtEof(d) ==
  /\ mode # "audit"
  /\ pc[d] = "recv" /\ received[d] = sent[d]
  /\ d \in closed
  /\ Goto(d, "ended")
  /\ UNCHANGED <<endpoints, received, forwarded, parsers, summary, common, audit>>

\* Nothing to read: the endpoint closed, or the socket timeout expires.
StopReceiving(d) ==
  /\ mode # "audit"
  /\ pc[d] = "recv"
  /\ received[d] = sent[d]
  /\ d \in closed \/ TimesOut
  /\ Goto(d, "ended")
  /\ UNCHANGED <<endpoints, received, forwarded, parsers, summary, common, audit>>

SendAll(d) ==
  /\ pc[d] = "send"
  /\ forwarded' = [forwarded EXCEPT ![d] = received[d]]
  /\ Goto(d, "recv")
  /\ UNCHANGED <<endpoints, received, parsers, summary, common, audit>>

SendFails(d) ==
  /\ pc[d] = "send"
  /\ Other(d) \in closed
  /\ Goto(d, "ended")
  /\ UNCHANGED <<endpoints, received, forwarded, parsers, summary, common, audit>>

------------------------------------------------------------------------------
(* audit_host(): recv and feed while side.kex is empty and chunks are left. *)

Looping == side["server"]["kex"] = Empty /\ recvs < MaxRecvs

AuditRecv(d) ==
  /\ mode = "audit" /\ Looping
  /\ RecvAny(d)
  /\ recvs' = recvs + 1
  /\ UNCHANGED outcome

AuditEnd(d, how) ==
  /\ mode = "audit" /\ pc[d] = "recv"
  /\ outcome' = how
  /\ Goto(d, "ended")
  /\ UNCHANGED <<endpoints, received, forwarded, parsers, summary, common, recvs>>

\* The row with the server's offer: after a KEXINIT, the last chunk, or EOF.
AuditReports(d) ==
  /\ ~Looping \/ (received[d] = sent[d] /\ d \in closed)
  /\ AuditEnd(d, "report")

\* The error row: no connection, or the socket timeout.
AuditFails(d) ==
  /\ recvs = 0 \/ (Looping /\ received[d] = sent[d] /\ d \notin closed)
  /\ AuditEnd(d, "error")

------------------------------------------------------------------------------
(* run_scenario() of kexlab.py *)

\* The row, when the relay has been joined or 25 seconds are over.
LabRow ==
  /\ outcome \in {"exit 0", "exit 1"}
  /\ outcome' = IF outcome = "exit 0" THEN "row 0" ELSE "row 1"
  /\ UNCHANGED <<endpoints, pc, received, forwarded, parsers, summary, common, recvs>>

------------------------------------------------------------------------------
(* SshParser.feed() and packet() *)

\* feed() returns to pump, which forwards the chunk, or to audit_host.
Caller == IF mode = "audit" THEN "recv" ELSE "send"

\* The first unit in the buffer, if it is there whole.
HasUnit(d) == received[d] >= 2 * (parsed[d] + 1)
Unit(d) == script[d][parsed[d] + 1]

Take(d) == parsed' = [parsed EXCEPT ![d] = @ + 1]

\* feed() returns: after NEWKEYS, or when it needs more bytes.
FeedReturns(d) ==
  /\ pc[d] = "feed"
  /\ encrypted[d] \/ ~HasUnit(d)
  /\ Goto(d, Caller)
  /\ UNCHANGED <<endpoints, received, forwarded, parsers, summary, common, audit>>

\* A line that is no identification: feed() drops it and returns without
\* looking at the rest of the buffer.
FeedLine(d) ==
  /\ pc[d] = "feed"
  /\ ~identDone[d] /\ HasUnit(d) /\ Unit(d) = "line"
  /\ Take(d)
  /\ Goto(d, Caller)
  /\ UNCHANGED <<endpoints, received, forwarded, identDone, encrypted, counted,
                 summary, common, audit>>

\* Mutant of FeedIdent: feed() returns after the identification.
FeedIdentReturns(d) ==
  /\ pc[d] = "feed"
  /\ ~identDone[d] /\ HasUnit(d) /\ Unit(d) = "ident"
  /\ identDone' = [identDone EXCEPT ![d] = TRUE]
  /\ Take(d)
  /\ Goto(d, Caller)
  /\ UNCHANGED <<endpoints, received, forwarded, encrypted, counted, summary, common, audit>>

FeedIdent(d) ==
  /\ pc[d] = "feed"
  /\ ~identDone[d] /\ HasUnit(d) /\ Unit(d) = "ident"
  /\ identDone' = [identDone EXCEPT ![d] = TRUE]
  /\ Take(d)
  /\ UNCHANGED <<endpoints, pc, received, forwarded, encrypted, counted, summary, common, audit>>

FeedPacket(d) ==
  /\ pc[d] = "feed"
  /\ identDone[d] /\ ~encrypted[d] /\ HasUnit(d)
  /\ Take(d)
  /\ counted' = [counted EXCEPT ![d] = @ + 1]
  /\ encrypted' = [encrypted EXCEPT ![d] = Unit(d) = "newkeys"]
  /\ ephemeral' = IF Unit(d) \in {"init", "reply"} THEN ephemeral \cup {d} ELSE ephemeral
  /\ Goto(d, IF Unit(d) = "kexinit" THEN "kex" ELSE "feed")
  /\ UNCHANGED <<endpoints, received, forwarded, identDone, side, negotiated, level, common, audit>>

\* parse_kexinit(): one assignment after the other to the Side.
ParseList(d, l, next) ==
  /\ pc[d] = l
  /\ side' = [side EXCEPT ![d][l] = Offer[d][l]]
  /\ Goto(d, next)
  /\ UNCHANGED <<endpoints, received, forwarded, parsers, negotiated, level, ephemeral, common, audit>>

\* `if s.client.kex and s.server.kex`
BothSeen(d) ==
  /\ pc[d] = "bothSeen"
  /\ Goto(d, IF \A e \in Sides : side[e]["kex"] # Empty THEN "negotiateKex" ELSE "feed")
  /\ UNCHANGED <<endpoints, received, forwarded, parsers, summary, common, audit>>

\* Mutant of NegotiateKex: the server's order decides.
NegotiateKexByServer(d) ==
  /\ pc[d] = "negotiateKex"
  /\ negotiated' = [negotiated EXCEPT !["kex"] =
                      Negotiate(side["server"]["kex"], side["client"]["kex"])]
  /\ Goto(d, "negotiateHostkey")
  /\ UNCHANGED <<endpoints, received, forwarded, parsers, side, level, ephemeral, common, audit>>

NegotiateKex(d) ==
  /\ pc[d] = "negotiateKex"
  /\ negotiated' = [negotiated EXCEPT !["kex"] =
                      Negotiate(side["client"]["kex"], side["server"]["kex"])]
  /\ Goto(d, "negotiateHostkey")
  /\ UNCHANGED <<endpoints, received, forwarded, parsers, side, level, ephemeral, common, audit>>

\* The right-hand side is evaluated, ...
NegotiateHostkey(d) ==
  /\ pc[d] = "negotiateHostkey"
  /\ common' = [common EXCEPT ![d] =
                  Negotiate(side["client"]["hostkey"], side["server"]["hostkey"])]
  /\ Goto(d, "storeHostkey")
  /\ UNCHANGED <<endpoints, received, forwarded, parsers, summary, audit>>

\* ... then assigned.
StoreHostkey(d) ==
  /\ pc[d] = "storeHostkey"
  /\ negotiated' = [negotiated EXCEPT !["hostkey"] = common[d]]
  /\ common' = [common EXCEPT ![d] = Nothing]
  /\ Goto(d, "level")
  /\ UNCHANGED <<endpoints, received, forwarded, parsers, side, level, ephemeral, audit>>

SetLevel(d) ==
  /\ pc[d] = "level"
  /\ level' = (negotiated["kex"] \in PqKex)
  /\ Goto(d, "feed")
  /\ UNCHANGED <<endpoints, received, forwarded, parsers, side, negotiated, ephemeral, common, audit>>

Kexinit(d) == \/ ParseList(d, "kex", "hostkey") \/ ParseList(d, "hostkey", "bothSeen")
              \/ BothSeen(d) \/ NegotiateKex(d)
              \/ NegotiateHostkey(d) \/ StoreHostkey(d) \/ SetLevel(d)

Feed(d) == FeedReturns(d) \/ FeedLine(d) \/ FeedIdent(d) \/ FeedPacket(d) \/ Kexinit(d)

Pump(d) == Recv(d) \/ StopReceiving(d) \/ SendAll(d) \/ SendFails(d)

Audit(d) == AuditRecv(d) \/ AuditReports(d) \/ AuditFails(d)

Thread(d) == Pump(d) \/ Audit(d) \/ Feed(d)

\* observe_one, audit_host or run_scenario returns.
Joined == /\ \A d \in Sides : pc[d] = "ended"
          /\ closed = Sides /\ outcome \notin {"exit 0", "exit 1"}
          /\ UNCHANGED vars

Next == (\E d \in Sides : SendHalf(d) \/ Close(d) \/ Thread(d)) \/ LabRow \/ Joined

\* The threads run; a recv with nothing to read ends in EOF or a timeout.  The
\* endpoints need not do anything.
Spec == Init /\ [][Next]_vars /\ \A d \in Sides : WF_vars(Thread(d))

------------------------------------------------------------------------------
(* Properties *)

InKexinit == {"kex", "hostkey", "bothSeen", "negotiateKex", "negotiateHostkey",
              "storeHostkey", "level"}

\* Types, and the order of the positions in a stream.
TypeOK == /\ \A d \in Sides :
               /\ pc[d] \in {"recv", "feed", "send", "ended"} \cup InKexinit
               /\ 0 =< forwarded[d] /\ forwarded[d] =< received[d]
               /\ received[d] =< sent[d] /\ sent[d] =< End(d)
               /\ 2 * parsed[d] =< received[d]
               /\ counted[d] =< parsed[d]
          /\ ephemeral \cup closed \subseteq Sides
          /\ recvs \in 0 .. MaxRecvs
          /\ outcome \in {"none", "report", "error", "killed", "exit 0", "exit 1", "row 0", "row 1"}

\* Both threads are past the KEXINIT of their direction.
Exchanged == \A d \in Sides : counted[d] > 0 /\ pc[d] \notin InKexinit

\* How many lines the script has before the identification.
Lines(d) == Len(script[d]) - 5

Agreed(l) == Negotiate(Offer["client"][l], Offer["server"][l])

\* The unlocked Summary has the right key exchange once both KEXINITs are
\* parsed, whichever thread was first and however their steps interleave: the
\* last of the two sees both lists.
KexAsNegotiated ==
  Exchanged => negotiated["kex"] = Agreed("kex") /\ level = (Agreed("kex") \in PqKex)

\* The Summary is causal because a pump parses a chunk before it forwards it:
\* once the server's reply is in it, so are the client's ephemeral value and
\* the result of both KEXINITs.  And so the row of a scenario that ssh left
\* with 0 is complete, both counts up to NEWKEYS included, even one that is
\* written while the pumps still run; unless the server sent three lines before
\* its identification, because feed() drops one per chunk and an exchange may
\* come in three chunks.
SummaryIsCausal ==
  /\ "server" \in ephemeral => /\ "client" \in ephemeral
                               /\ negotiated["kex"] = Agreed("kex")
                               /\ \A d \in Sides : side[d] = Offer[d]
  /\ outcome \in {"exit 0", "row 0"} /\ Lines("server") =< 2 =>
       ephemeral = Sides /\ \A d \in Sides : counted[d] = 3

\* What the parser has seen of a stream that starts with the identification
\* does not depend on how it was cut into chunks: whenever a recv waits, every
\* whole unit up to NEWKEYS has been parsed, and never one beyond.  So the
\* audit of such a server does not time out on a KEXINIT it has received.
ChunksDoNotMatter ==
  \A d \in Sides :
    script[d][1] = "ident" =>
      LET whole == received[d] \div 2 IN
      /\ pc[d] = "recv" => parsed[d] = (IF whole < 4 THEN whole ELSE 4)
      /\ encrypted[d] <=> parsed[d] = 4
      /\ outcome = "error" /\ d = "server" => side[d]["kex"] = Empty /\ whole < 2

\* observe_one and audit_host always return: an endpoint that falls silent or
\* disappears in the middle of the exchange is cut off by the timeouts, and the
\* end of one direction does not leave the other one hanging.  The relay of
\* kexlab returns if both endpoints close some time.
ObserveEnds == <>(mode # "lab" \/ closed = Sides) => <>(\A d \in Sides : pc[d] = "ended")

------------------------------------------------------------------------------
(* Statements of the tests and the comments that the code does not keep. *)

\* tests/test_ch06.py:37 asserts `s.negotiated_hostkey == "ssh-ed25519"`, the
\* host key algorithm the two sides agree on.
HostkeyAsNegotiated == Exchanged => negotiated["hostkey"] = Agreed("hostkey")

==============================================================================
