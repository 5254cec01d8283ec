------------------------------ MODULE PolicyRules ------------------------------
(***************************************************************************)
(* labs/ch11/solution/agile.py and providers.py: what a policy document     *)
(* permits on a day, and what two policies negotiate.  A policy is the      *)
(* dictionary of its YAML file; `allowed` is left out because validate()    *)
(* makes it the set of `preferred`, and no rule reads it afterwards.        *)
(***************************************************************************)
EXTENDS Integers, Sequences

CONSTANTS NoAlg,     \* nothing chosen
          LastDay    \* days are 0 .. LastDay

ASSUME NoAlgAssumption == NoAlg \notin {"X25519", "ML-KEM-768", "X-Wing",
                                        "Ed25519", "ML-DSA-65"}
ASSUME LastDayAssumption == LastDay \in Nat

\* The provider registry and the NIST level of each algorithm.
Kinds == {"kem", "sig"}
Available == [kind \in Kinds |-> IF kind = "kem"
                                   THEN {"X25519", "ML-KEM-768", "X-Wing"}
                                   ELSE {"Ed25519", "ML-DSA-65"}]
Algs == Available["kem"] \cup Available["sig"]
QuantumLevel == [a \in Algs |-> IF a \in {"X25519", "Ed25519"} THEN 0 ELSE 3]

\* A deprecation date that is absent from the file.
Never == LastDay + 1
Days  == 0 .. LastDay
Dates == 0 .. Never

Docs == [version : Nat, preferred : [Kinds -> Seq(Algs)], floor : [Kinds -> 0 .. 3],
         warn_after : [Algs -> Dates], disallow_after : [Algs -> Dates],
         kill_switch : SUBSET Algs]

Listed(doc, kind) == {doc.preferred[kind][i] : i \in DOMAIN doc.preferred[kind]}

Validate(doc) ==
  /\ \A kind \in Kinds : /\ Listed(doc, kind) \subseteq Available[kind]
                         /\ Listed(doc, kind) # {}
  /\ \A a \in Algs : doc.disallow_after[a] # Never /\ doc.warn_after[a] # Never
                       => doc.warn_after[a] =< doc.disallow_after[a]

IsKilled(doc, a) == a \in doc.kill_switch
IsDisallowed(doc, a, now) == now > doc.disallow_after[a]
IsWarned(doc, a, now) == now > doc.warn_after[a]

\* Mutant of Usable: the floor of the kind is forgotten.
UsableBelowFloor(doc, kind, now) ==
  {a \in Listed(doc, kind) : ~IsKilled(doc, a) /\ ~IsDisallowed(doc, a, now)}

\* usable() as a set; the order is that of doc.preferred.
Usable(doc, kind, now) ==
  {a \in Listed(doc, kind) : /\ ~IsKilled(doc, a)
                             /\ ~IsDisallowed(doc, a, now)
                             /\ QuantumLevel[a] >= doc.floor[kind]}

\* a comes no later than b in the preferred order.
NoLater(doc, kind, a, b) ==
  \E i \in DOMAIN doc.preferred[kind] :
    /\ doc.preferred[kind][i] = a
    /\ \A j \in DOMAIN doc.preferred[kind] : doc.preferred[kind][j] = b => i =< j

Common(doc, kind, offer, now) == Usable(doc, kind, now) \cap offer

\* negotiate(): the first of ours that the peer offers.
Chosen(doc, kind, offer, now) ==
  LET common == Common(doc, kind, offer, now) IN
  IF common = {} THEN NoAlg
  ELSE CHOOSE a \in common : \A b \in common : NoLater(doc, kind, a, b)

\* Mutant of Event: the flag looks at what we could use, not at the overlap.
EventOfOurs(doc, kind, offer, now) ==
  LET common == Common(doc, kind, offer, now)
      chosen == Chosen(doc, kind, offer, now)
  IN  [kind |-> kind, version |-> doc.version, offer |-> offer, chosen |-> chosen,
       downgrade |-> /\ chosen # NoAlg
                     /\ QuantumLevel[chosen] = 0
                     /\ \E a \in Usable(doc, kind, now) : QuantumLevel[a] > 0,
       warned |-> chosen # NoAlg /\ IsWarned(doc, chosen, now),
       reason |-> "ok"]

\* The telemetry event of one negotiation, as far as a rule depends on it.
Event(doc, kind, offer, now) ==
  LET common == Common(doc, kind, offer, now)
      chosen == Chosen(doc, kind, offer, now)
  IN  [kind |-> kind, version |-> doc.version, offer |-> offer, chosen |-> chosen,
       downgrade |-> /\ chosen # NoAlg
                     /\ QuantumLevel[chosen] = 0
                     /\ \E a \in common : QuantumLevel[a] > 0,
       warned |-> chosen # NoAlg /\ IsWarned(doc, chosen, now),
       reason |-> IF chosen # NoAlg THEN "ok"
                  ELSE IF Usable(doc, kind, now) # {} THEN "no common algorithm"
                  ELSE "policy leaves nothing usable"]

\* Mutant of Negotiated: the peer offers its whole list.
NegotiatedWithList(ours, theirs, now) ==
  [kind \in Kinds |-> Event(ours, kind, Listed(theirs, kind), now)]

\* Channel(ours, theirs, now): two negotiations, and a failure if either fails.
Negotiated(ours, theirs, now) ==
  [kind \in Kinds |-> Event(ours, kind, Usable(theirs, kind, now), now)]

Established(events) == \A kind \in Kinds : events[kind].chosen # NoAlg

\* Mutant of WithKill: the new name replaces the kill switch.
WithOnlyKill(doc, a) == [doc EXCEPT !.version = @ + 1, !.kill_switch = {a}]

\* with_kill(): the next version, with the name in the kill switch.
WithKill(doc, a) == [doc EXCEPT !.version = @ + 1, !.kill_switch = @ \cup {a}]
==============================================================================
