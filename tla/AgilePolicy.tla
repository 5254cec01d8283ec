------------------------------ MODULE AgilePolicy ------------------------------
(***************************************************************************)
(* labs/ch11/solution/agile.py: two parties, each with a policy file and a  *)
(* Policy object loaded from it, kill and roll back algorithms, save and    *)
(* reload, and open channels to each other while the days pass.             *)
(***************************************************************************)
EXTENDS PolicyRules

CONSTANTS Parties,
          InitialDocs,   \* policy files the parties may start with
          Victims,       \* names the operators kill
          MaxVersion     \* bound on versions, and so on kills in a row

ASSUME InitialDocsAssumption == \A doc \in InitialDocs : doc \in Docs /\ Validate(doc)
ASSUME VictimsAssumption == Victims \subseteq Algs
ASSUME MaxVersionAssumption == MaxVersion \in Nat

VARIABLES file,     \* the policy file of each party
          policy,   \* the Policy object: its document, then its `previous` chain
          today,
          last      \* the latest step, if it was a load or a channel attempt

vars == <<file, policy, today, last>>

Nothing == [op |-> "none"]
Silent == last' = Nothing

Doc(p) == Head(policy[p])
UsableNow(p, kind) == Usable(Doc(p), kind, today)

Init == /\ file \in [Parties -> InitialDocs]
        /\ policy = [p \in Parties |-> <<file[p]>>]
        /\ today = 0
        /\ last = Nothing

\* with_kill() returns a new object whose previous is the old one.
Kill(p, a) ==
  /\ Doc(p).version < MaxVersion
  /\ policy' = [policy EXCEPT ![p] = <<WithKill(Head(@), a)>> \o @]
  /\ Silent /\ UNCHANGED <<file, today>>

\* rollback(): the previous object, with its own chain.
Rollback(p) ==
  /\ Len(policy[p]) > 1
  /\ policy' = [policy EXCEPT ![p] = Tail(@)]
  /\ Silent /\ UNCHANGED <<file, today>>

\* PolicyError: no previous version.
RollbackFails(p) ==
  /\ Len(policy[p]) = 1
  /\ Silent /\ UNCHANGED <<file, policy, today>>

\* The caller writes to_dict() to the policy file.
Save(p) ==
  /\ file' = [file EXCEPT ![p] = Doc(p)]
  /\ Silent /\ UNCHANGED <<policy, today>>

\* load(): a new object from the file; validate() accepts it; no previous.
Load(p) ==
  /\ Validate(file[p])
  /\ policy' = [policy EXCEPT ![p] = <<file[p]>>]
  /\ last' = [op |-> "load", by |-> p]
  /\ UNCHANGED <<file, today>>

\* Channel(ours, theirs): both negotiations always happen.
Connect(p, r) ==
  /\ last' = [op |-> "connect", by |-> p, to |-> r, events |-> Negotiated(Doc(p), Doc(r), today)]
  /\ UNCHANGED <<file, policy, today>>

Midnight ==
  /\ today < LastDay
  /\ today' = today + 1
  /\ Silent /\ UNCHANGED <<file, policy>>

Next == \/ \E p \in Parties : \/ \E a \in Victims : Kill(p, a)
                              \/ Rollback(p) \/ RollbackFails(p)
                              \/ Save(p) \/ Load(p)
                              \/ \E r \in Parties : Connect(p, r)
        \/ Midnight

Spec == Init /\ [][Next]_vars

------------------------------------------------------------------------------
(* Properties *)

\* Types, and the `previous` chain of an object.
TypeOK == /\ file \in [Parties -> Docs]
          /\ \A p \in Parties : policy[p] \in Seq(Docs) /\ policy[p] # <<>>
          /\ today \in Days
          /\ last = Nothing \/ last.by \in Parties

\* P1-P5 of test_ch11 for both ends at once: what a channel uses is not killed,
\* not past its date and not below the floor of either party's policy, on the
\* day of the attempt; and it is flagged as a downgrade exactly when it is
\* classical while both policies of that day allowed something better.
ChannelsKeepTheRules ==
  last.op = "connect" =>
    \A kind \in Kinds :
      LET ev == last.events[kind]
          a  == ev.chosen
          both == UsableNow(last.by, kind) \cap UsableNow(last.to, kind)
      IN  /\ \A s \in {last.by, last.to} :
               a # NoAlg => /\ a \notin Doc(s).kill_switch
                            /\ today =< Doc(s).disallow_after[a]
                            /\ QuantumLevel[a] >= Doc(s).floor[kind]
                            /\ a \in Available[kind]
          /\ ev.downgrade <=> /\ a # NoAlg /\ QuantumLevel[a] = 0
                              /\ \E b \in both : QuantumLevel[b] = 3

\* A channel can be opened in one direction exactly when it can in the other,
\* although each direction has its own order of preference.
ConnectivityIsSymmetric ==
  \A p, r \in Parties : Established(Negotiated(Doc(p), Doc(r), today))
                          <=> Established(Negotiated(Doc(r), Doc(p), today))

\* An algorithm comes back into use only by a rollback or a reload, never by
\* the passing of time, a kill or a save; and a rollback brings back at most
\* one.
OnlyRollbackOrLoadWidens ==
  [][\A p \in Parties :
       LET back == UNION {Usable(Doc(p)', kind, today') \ UsableNow(p, kind)
                            : kind \in Kinds}
       IN  back # {} => \/ last' = [op |-> "load", by |-> p]
                        \/ policy'[p] = Tail(policy[p]) /\ \E a \in Algs : back = {a}]_vars

==============================================================================
