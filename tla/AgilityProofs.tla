----------------------------- MODULE AgilityProofs -----------------------------
(***************************************************************************)
(* Theorems about the agility lab, for every set of valid policy files and  *)
(* every number of days: AgilePolicy for every set of parties and victims,  *)
(* KillDrill for every N, and TestPlan, which runs it, for every estate.    *)
(***************************************************************************)
EXTENDS AgilePolicy, TestPlan, FiniteSetTheorems, SequenceTheorems, WellFoundedInduction, TLAPS

-------------------------------------------------------------------------------
(* The rules of one policy                                                  *)

Good(doc) == doc \in Docs /\ Validate(doc)

\* What a validated document prefers is available, and known.
LEMMA GoodDoc ==
  ASSUME NEW doc, Good(doc), NEW kind \in Kinds
  PROVE  /\ doc.preferred[kind] \in Seq(Algs)
         /\ Listed(doc, kind) \subseteq Available[kind]
         /\ Available[kind] \subseteq Algs
         /\ NoAlg \notin Algs
         /\ doc.kill_switch \subseteq Algs
         /\ \A a \in Algs : doc.disallow_after[a] \in Int
BY NoAlgAssumption, LastDayAssumption, SMTT(60)
   DEF Good, Docs, Validate, Kinds, Available, Algs, Dates, Never

Earlier(I, i) == {j \in I : j < i}

\* A non-empty set of positions in a sequence has a first one: of the finite
\* sets of earlier positions, one is minimal under inclusion.
LEMMA FirstPosition ==
  ASSUME NEW n \in Nat, NEW I \in SUBSET (1 .. n), I # {}
  PROVE  \E i \in I : \A j \in I : i =< j
<1> DEFINE T == {Earlier(I, i) : i \in I}
<1>1. IsFiniteSet(I)
  <2>1. IsFiniteSet(1 .. n)
    BY FS_Interval
  <2> QED  BY <2>1, FS_Subset
<1>2. T \subseteq FiniteSubsetsOf(I) /\ T # {}
  <2>1. ASSUME NEW i \in I  PROVE Earlier(I, i) \in FiniteSubsetsOf(I)
    <3>1. Earlier(I, i) \in SUBSET I
      BY DEF Earlier
    <3> QED  BY <3>1, <1>1, FS_Subset DEF FiniteSubsetsOf
  <2> QED  BY <2>1
<1>3. PICK B \in T : \A C \in T : ~ (<<C, B>> \in StrictSubsetOrdering(I))
  <2> HIDE DEF T
  <2> QED  BY <1>1, <1>2, WFMin, FS_StrictSubsetOrderingWellFounded
<1>4. PICK i \in I : B = Earlier(I, i)
  BY <1>3
<1>5. ASSUME NEW j \in I, j < i  PROVE FALSE
  <2>1. Earlier(I, j) \subseteq Earlier(I, i)
    <3>1. ASSUME NEW k \in I, k < j  PROVE k < i
      BY <1>5, <3>1
    <3> QED  BY <3>1 DEF Earlier
  <2>2. j \in Earlier(I, i) /\ j \notin Earlier(I, j)
    BY <1>5 DEF Earlier
  <2>3. <<Earlier(I, j), B>> \in StrictSubsetOrdering(I)
    BY <2>1, <2>2, <1>4 DEF StrictSubsetOrdering, Earlier
  <2> QED  BY <2>3, <1>3
<1> QED  BY <1>5

\* negotiate() picks a member of the overlap when there is one, and no member
\* of the overlap comes before it in our order.
LEMMA ChosenIsFirst ==
  ASSUME NEW doc, Good(doc), NEW kind \in Kinds, NEW offer, NEW day
  PROVE  /\ Common(doc, kind, offer, day) = {} => Chosen(doc, kind, offer, day) = NoAlg
         /\ Common(doc, kind, offer, day) # {} =>
              /\ Chosen(doc, kind, offer, day) \in Common(doc, kind, offer, day)
              /\ \A b \in Common(doc, kind, offer, day) :
                   NoLater(doc, kind, Chosen(doc, kind, offer, day), b)
<1> DEFINE pref   == doc.preferred[kind]
           common == Common(doc, kind, offer, day)
           hits   == {i \in DOMAIN pref : pref[i] \in common}
<1>1. CASE common = {}
  BY <1>1 DEF Chosen
<1>2. CASE common # {}
  <2>1. common \subseteq Listed(doc, kind)
    BY DEF Common, Usable
  <2>2. hits # {}
    BY <1>2, <2>1 DEF Listed
  <2>3. DOMAIN pref = 1 .. Len(pref) /\ Len(pref) \in Nat
    BY GoodDoc
  <2>4. PICK i \in hits : \A j \in hits : i =< j
    <3> HIDE DEF common
    <3> QED  BY <2>2, <2>3, FirstPosition
  <2>5. \A b \in common : NoLater(doc, kind, pref[i], b)
    BY <2>4 DEF NoLater
  <2>6. pref[i] \in common
    OBVIOUS
  <2> QED  BY <1>2, <2>5, <2>6 DEF Chosen
<1> QED  BY <1>1, <1>2

\* So a negotiation fails exactly when the overlap is empty.
LEMMA ChosenIsUsable ==
  ASSUME NEW doc, Good(doc), NEW kind \in Kinds, NEW offer, NEW day
  PROVE  /\ Common(doc, kind, offer, day) \subseteq Available[kind]
         /\ (Chosen(doc, kind, offer, day) # NoAlg) <=> (Common(doc, kind, offer, day) # {})
         /\ Chosen(doc, kind, offer, day) # NoAlg =>
              Chosen(doc, kind, offer, day) \in Common(doc, kind, offer, day)
<1>1. Common(doc, kind, offer, day) \subseteq Available[kind]
  BY GoodDoc DEF Common, Usable
<1>2. NoAlg \notin Available[kind]
  BY GoodDoc
<1> QED  BY <1>1, <1>2, ChosenIsFirst

-------------------------------------------------------------------------------
(* The inductive invariant                                                  *)

\* Every object is valid, and each is its predecessor with one more name killed.
ChainsOK ==
  /\ file \in [Parties -> Docs] /\ policy \in [Parties -> Seq(Docs)]
  /\ \A p \in Parties :
       /\ Good(file[p])
       /\ policy[p] # <<>>
       /\ \A i \in 1 .. Len(policy[p]) : Good(policy[p][i])
       /\ \A i \in 1 .. Len(policy[p]) - 1 :
            \E a \in Algs : policy[p][i] = WithKill(policy[p][i + 1], a)

\* `last` describes the step that led here, and a channel attempt the present.
LastOK ==
  \/ last = Nothing
  \/ \E p \in Parties : last = [op |-> "load", by |-> p]
  \/ \E p, r \in Parties :
       last = [op |-> "connect", by |-> p, to |-> r,
               events |-> Negotiated(Doc(p), Doc(r), today)]

Inv == ChainsOK /\ today \in Days /\ LastOK

\* with_kill() yields a valid document, and takes at most the victim out of use.
LEMMA KillNarrows ==
  ASSUME NEW doc, Good(doc), NEW a \in Algs
  PROVE  /\ Good(WithKill(doc, a))
         /\ \A kind \in Kinds, day \in Days :
              /\ Usable(WithKill(doc, a), kind, day) \subseteq Usable(doc, kind, day)
              /\ Usable(doc, kind, day) \ Usable(WithKill(doc, a), kind, day) \subseteq {a}
<1>1. doc \in Docs
  BY DEF Good
<1>2. WithKill(doc, a) \in Docs
  <2>1. [doc EXCEPT !.version = @ + 1] \in Docs
    BY <1>1 DEF Docs
  <2>2. \A d \in Docs : [d EXCEPT !.kill_switch = @ \cup {a}] \in Docs
    BY DEF Docs
  <2>3. WithKill(doc, a) = [[doc EXCEPT !.version = @ + 1] EXCEPT !.kill_switch = @ \cup {a}]
    BY DEF WithKill
  <2> QED  BY <2>1, <2>2, <2>3
<1>3. /\ WithKill(doc, a).preferred = doc.preferred
      /\ WithKill(doc, a).floor = doc.floor
      /\ WithKill(doc, a).warn_after = doc.warn_after
      /\ WithKill(doc, a).disallow_after = doc.disallow_after
      /\ WithKill(doc, a).kill_switch = doc.kill_switch \cup {a}
  BY <1>1 DEF WithKill, Docs
<1>4. Good(WithKill(doc, a))
  BY <1>2, <1>3 DEF Good, Validate, Listed
<1>5. ASSUME NEW kind \in Kinds, NEW day \in Days
      PROVE  /\ Usable(WithKill(doc, a), kind, day) \subseteq Usable(doc, kind, day)
             /\ Usable(doc, kind, day) \ Usable(WithKill(doc, a), kind, day) \subseteq {a}
  BY <1>3 DEF Usable, Listed, IsKilled, IsDisallowed
<1> QED  BY <1>4, <1>5

\* What is in use tomorrow is in use today.
LEMMA DaysNarrow ==
  ASSUME NEW doc, Good(doc), NEW kind \in Kinds, NEW day \in Days
  PROVE  Usable(doc, kind, day + 1) \subseteq Usable(doc, kind, day)
<1>1. ASSUME NEW a \in Algs, ~IsDisallowed(doc, a, day + 1)
      PROVE  ~IsDisallowed(doc, a, day)
  <2>1. doc.disallow_after[a] \in Int /\ day \in Int
    BY GoodDoc DEF Days
  <2> QED  BY <1>1, <2>1 DEF IsDisallowed
<1>2. Listed(doc, kind) \subseteq Algs
  BY GoodDoc
<1> QED  BY <1>1, <1>2 DEF Usable

\* The document in force, and what a step makes of one party's chain.
LEMMA ChainShape ==
  ASSUME Inv, NEW p \in Parties
  PROVE  /\ policy[p] \in Seq(Docs) /\ Len(policy[p]) \in Nat /\ Len(policy[p]) >= 1
         /\ Doc(p) = policy[p][1] /\ Good(Doc(p)) /\ Good(file[p])
         /\ Tail(policy[p]) \in Seq(Docs)
BY EmptySeq, HeadTailProperties DEF Inv, ChainsOK, Doc

\* Both parties start with a policy that was loaded.
LEMMA InitInv == Init => Inv
<1> SUFFICES ASSUME Init  PROVE Inv
  OBVIOUS
<1>1. file \in [Parties -> Docs] /\ \A p \in Parties : Good(file[p])
  BY InitialDocsAssumption DEF Init, Good
<1>2. policy = [p \in Parties |-> <<file[p]>>]
  BY DEF Init
<1>3. \A p \in Parties : policy[p] \in Seq(Docs) /\ Len(policy[p]) = 1 /\ policy[p][1] = file[p]
  BY <1>1, <1>2
<1>4. ChainsOK
  BY <1>1, <1>2, <1>3 DEF ChainsOK
<1> QED  BY <1>4, LastDayAssumption DEF Init, Inv, LastOK, Days

\* A step that only reads leaves the documents as they are.
LEMMA QuietStep ==
  ASSUME Inv, file' = file, policy' = policy, today' \in Days, LastOK'
  PROVE  Inv'
BY DEF Inv, ChainsOK

\* kill removes an algorithm from the policy of one party, and keeps the one it
\* held.
LEMMA KillInv ==
  ASSUME Inv, NEW p \in Parties, NEW a \in Victims, Kill(p, a)
  PROVE  Inv'
<1> DEFINE old == policy[p]
           new == <<WithKill(Doc(p), a)>> \o old
<1>1. old \in Seq(Docs) /\ Len(old) >= 1 /\ Doc(p) = old[1] /\ Good(Doc(p))
  BY ChainShape
<1>2. a \in Algs
  BY VictimsAssumption
<1>3. Good(WithKill(Doc(p), a))
  BY <1>1, <1>2, KillNarrows
<1>4. WithKill(Doc(p), a) \in Docs
  BY <1>3 DEF Good
<1>5. policy' = [policy EXCEPT ![p] = new] /\ UNCHANGED <<file, today>> /\ last' = Nothing
  BY DEF Kill, Doc, Silent, Inv, ChainsOK
<1>6. /\ new \in Seq(Docs) /\ Len(new) = Len(old) + 1 /\ new[1] = WithKill(old[1], a)
      /\ \A i \in 2 .. Len(new) : new[i] = old[i - 1]
  <2> HIDE DEF old
  <2> QED  BY <1>1, <1>4
<1>7. \A i \in 1 .. Len(new) : Good(new[i])
  <2> SUFFICES ASSUME NEW i \in 1 .. Len(new)  PROVE Good(new[i])
    OBVIOUS
  <2>1. CASE i = 1
    BY <2>1, <1>1, <1>3, <1>6
  <2>2. CASE i # 1
    <3>1. i - 1 \in 1 .. Len(old) /\ new[i] = old[i - 1]
      BY <2>2, <1>1, <1>6
    <3> QED  BY <3>1 DEF Inv, ChainsOK
  <2> QED  BY <2>1, <2>2
<1>8. \A i \in 1 .. Len(new) - 1 : \E b \in Algs : new[i] = WithKill(new[i + 1], b)
  <2> SUFFICES ASSUME NEW i \in 1 .. Len(new) - 1
               PROVE  \E b \in Algs : new[i] = WithKill(new[i + 1], b)
    OBVIOUS
  <2>0. i \in Int /\ i >= 1 /\ i =< Len(old) /\ Len(old) \in Nat /\ new[i + 1] = old[i]
    BY <1>1, <1>6
  <2>1. CASE i = 1
    BY <2>0, <2>1, <1>2, <1>6
  <2>2. CASE i # 1
    <3>1. i - 1 \in 1 .. Len(old) - 1 /\ new[i] = old[i - 1] /\ (i - 1) + 1 = i
      BY <2>0, <2>2, <1>6, SMTT(60)
    <3>2. \E b \in Algs : old[i - 1] = WithKill(old[(i - 1) + 1], b)
      BY <3>1 DEF Inv, ChainsOK
    <3> QED  BY <3>1, <3>2, <2>0
  <2> QED  BY <2>1, <2>2
<1>9. ChainsOK'
  <2> HIDE DEF new, old
  <2>1. new # <<>> /\ p \in Parties /\ policy \in [Parties -> Seq(Docs)]
    BY <1>6, <1>1 DEF Inv, ChainsOK
  <2>2. policy'[p] = new /\ \A q \in Parties \ {p} : policy'[q] = policy[q]
    BY <1>5, <2>1
  <2>3. policy' \in [Parties -> Seq(Docs)]
    BY <1>5, <1>6, <2>1
  <2>4. ASSUME NEW q \in Parties
        PROVE  /\ Good(file'[q]) /\ policy'[q] # <<>>
               /\ \A i \in 1 .. Len(policy'[q]) : Good(policy'[q][i])
               /\ \A i \in 1 .. Len(policy'[q]) - 1 :
                    \E b \in Algs : policy'[q][i] = WithKill(policy'[q][i + 1], b)
    <3>1. CASE q = p
      BY <3>1, <2>1, <2>2, <1>5, <1>7, <1>8 DEF Inv, ChainsOK
    <3>2. CASE q # p
      BY <3>2, <2>2, <1>5 DEF Inv, ChainsOK
    <3> QED  BY <3>1, <3>2
  <2> QED  BY <2>3, <2>4, <1>5 DEF Inv, ChainsOK
<1> QED  BY <1>9, <1>5 DEF Inv, LastOK

\* rollback gives one party the policy it held before, once.
LEMMA RollbackInv ==
  ASSUME Inv, NEW p \in Parties, Rollback(p)
  PROVE  Inv'
<1> DEFINE old == policy[p]
           new == Tail(old)
<1>1. old \in Seq(Docs) /\ Len(old) > 1
  BY ChainShape DEF Rollback
<1>2. policy' = [policy EXCEPT ![p] = new] /\ UNCHANGED <<file, today>> /\ last' = Nothing
  BY DEF Rollback, Silent
<1>3. new \in Seq(Docs) /\ Len(new) = Len(old) - 1 /\ \A i \in 1 .. Len(new) : new[i] = old[i + 1]
  <2> HIDE DEF old
  <2> QED  BY <1>1
<1>4. \A i \in 1 .. Len(new) : Good(new[i])
  <2> SUFFICES ASSUME NEW i \in 1 .. Len(new)  PROVE Good(new[i])
    OBVIOUS
  <2>1. i + 1 \in 1 .. Len(old)
    BY <1>1, <1>3
  <2> QED  BY <2>1, <1>3 DEF Inv, ChainsOK
<1>5. \A i \in 1 .. Len(new) - 1 : \E b \in Algs : new[i] = WithKill(new[i + 1], b)
  <2> SUFFICES ASSUME NEW i \in 1 .. Len(new) - 1
               PROVE  \E b \in Algs : new[i] = WithKill(new[i + 1], b)
    OBVIOUS
  <2>1. i + 1 \in 1 .. Len(old) - 1 /\ i \in 1 .. Len(new) /\ i + 1 \in 1 .. Len(new)
    BY <1>1, <1>3
  <2>2. \E b \in Algs : old[i + 1] = WithKill(old[(i + 1) + 1], b)
    BY <2>1 DEF Inv, ChainsOK
  <2> QED  BY <2>1, <2>2, <1>3
<1>6. ChainsOK'
  <2> HIDE DEF new, old
  <2>1. new # <<>> /\ p \in Parties /\ policy \in [Parties -> Seq(Docs)]
    BY <1>1, <1>3 DEF Inv, ChainsOK
  <2>2. policy'[p] = new /\ \A q \in Parties \ {p} : policy'[q] = policy[q]
    BY <1>2, <2>1
  <2>3. policy' \in [Parties -> Seq(Docs)]
    BY <1>2, <1>3, <2>1
  <2>4. ASSUME NEW q \in Parties
        PROVE  /\ Good(file'[q]) /\ policy'[q] # <<>>
               /\ \A i \in 1 .. Len(policy'[q]) : Good(policy'[q][i])
               /\ \A i \in 1 .. Len(policy'[q]) - 1 :
                    \E b \in Algs : policy'[q][i] = WithKill(policy'[q][i + 1], b)
    <3>1. CASE q = p
      BY <3>1, <2>1, <2>2, <1>2, <1>4, <1>5 DEF Inv, ChainsOK
    <3>2. CASE q # p
      BY <3>2, <2>2, <1>2 DEF Inv, ChainsOK
    <3> QED  BY <3>1, <3>2
  <2> QED  BY <2>3, <2>4, <1>2 DEF Inv, ChainsOK
<1> QED  BY <1>6, <1>2 DEF Inv, LastOK

\* Saving writes what the party holds; loading validates what the file holds.
LEMMA FileInv ==
  ASSUME Inv, NEW p \in Parties, Save(p) \/ Load(p)
  PROVE  Inv'
<1>1. CASE Save(p)
  <2>1. Good(Doc(p)) /\ Doc(p) \in Docs
    BY ChainShape DEF Good
  <2>2. /\ file' = [file EXCEPT ![p] = Doc(p)]
        /\ UNCHANGED <<policy, today>> /\ last' = Nothing
    BY <1>1 DEF Save, Silent
  <2>3. ChainsOK'
    BY <2>1, <2>2 DEF Inv, ChainsOK
  <2> QED  BY <2>2, <2>3 DEF Inv, LastOK
<1>2. CASE Load(p)
  <2>1. /\ policy' = [policy EXCEPT ![p] = <<file[p]>>]
        /\ last' = [op |-> "load", by |-> p] /\ UNCHANGED <<file, today>>
    BY <1>2 DEF Load
  <2>2. Good(file[p]) /\ file[p] \in Docs
    BY DEF Inv, ChainsOK, Good
  <2>3. <<file[p]>> \in Seq(Docs) /\ Len(<<file[p]>>) = 1 /\ <<file[p]>>[1] = file[p]
    BY <2>2
  <2>4. ChainsOK'
    <3>1. policy' \in [Parties -> Seq(Docs)]
      BY <2>1, <2>3 DEF Inv, ChainsOK
    <3>2. policy'[p] = <<file[p]>> /\ \A q \in Parties \ {p} : policy'[q] = policy[q]
      BY <2>1 DEF Inv, ChainsOK
    <3>3. ASSUME NEW q \in Parties
          PROVE  /\ Good(file'[q]) /\ policy'[q] # <<>>
                 /\ \A i \in 1 .. Len(policy'[q]) : Good(policy'[q][i])
                 /\ \A i \in 1 .. Len(policy'[q]) - 1 :
                      \E b \in Algs : policy'[q][i] = WithKill(policy'[q][i + 1], b)
      <4>1. CASE q = p
        BY <4>1, <3>2, <2>1, <2>2, <2>3
      <4>2. CASE q # p
        BY <4>2, <3>2, <2>1 DEF Inv, ChainsOK
      <4> QED  BY <4>1, <4>2
    <3> QED  BY <3>1, <3>3, <2>1 DEF Inv, ChainsOK
  <2> QED  BY <2>1, <2>4 DEF Inv, LastOK
<1> QED  BY <1>1, <1>2

\* Every operation of either party keeps the invariant.
LEMMA NextInv == Inv /\ [Next]_vars => Inv'
<1> SUFFICES ASSUME Inv, [Next]_vars  PROVE Inv'
  OBVIOUS
<1>1. ASSUME NEW p \in Parties, NEW a \in Victims, Kill(p, a)  PROVE Inv'
  BY <1>1, KillInv
<1>2. ASSUME NEW p \in Parties, Rollback(p)  PROVE Inv'
  BY <1>2, RollbackInv
<1>3. ASSUME NEW p \in Parties, RollbackFails(p)  PROVE Inv'
  BY <1>3, QuietStep DEF RollbackFails, Silent, LastOK, Inv
<1>4. ASSUME NEW p \in Parties, Save(p) \/ Load(p)  PROVE Inv'
  BY <1>4, FileInv
<1>5. ASSUME NEW p \in Parties, NEW r \in Parties, Connect(p, r)  PROVE Inv'
  <2>1. Doc(p)' = Doc(p) /\ Doc(r)' = Doc(r)
    BY <1>5 DEF Connect, Doc
  <2>2. last' = [op |-> "connect", by |-> p, to |-> r,
                 events |-> Negotiated(Doc(p)', Doc(r)', today')]
    BY <1>5, <2>1 DEF Connect
  <2>3. LastOK'
    BY <2>2 DEF LastOK
  <2> QED  BY <1>5, <2>3, QuietStep DEF Connect, Inv
<1>6. CASE Midnight
  <2>1. today' \in Days
    BY <1>6, LastDayAssumption DEF Midnight, Inv, Days
  <2> QED  BY <1>6, <2>1, QuietStep DEF Midnight, Silent, LastOK
<1>7. CASE UNCHANGED vars
  <2>1. \A p \in Parties : Doc(p)' = Doc(p)
    BY <1>7 DEF vars, Doc
  <2>2. LastOK'
    BY <1>7, <2>1 DEF vars, LastOK, Inv
  <2> QED  BY <1>7, <2>2, QuietStep DEF vars, Inv
<1> QED  BY <1>1, <1>2, <1>3, <1>4, <1>5, <1>6, <1>7 DEF Next

\* Both parties always hold a policy that could have been loaded, or one with
\* algorithms removed from such a policy (agile.py).
THEOREM Invariance == Spec => []Inv
BY InitInv, NextInv, PTL DEF Spec

-------------------------------------------------------------------------------
(* Theorems                                                                 *)

LEMMA InvTypes == Inv => TypeOK
<1> SUFFICES ASSUME Inv  PROVE TypeOK
  OBVIOUS
<1>1. \A p \in Parties : policy[p] \in Seq(Docs) /\ policy[p] # <<>>
  BY DEF Inv, ChainsOK
<1>2. last = Nothing \/ last.by \in Parties
  BY DEF Inv, LastOK
<1> QED  BY <1>1, <1>2 DEF Inv, ChainsOK, TypeOK

\* Policy files and Policy objects stay documents of the format, whatever is
\* killed, rolled back, saved and loaded, and every object has a document.
THEOREM TypeCorrect == Spec => []TypeOK
BY Invariance, InvTypes, PTL

\* What negotiate() reports of two policies on a day.
LEMMA EventIsRight ==
  ASSUME NEW ours, NEW theirs, Good(ours), Good(theirs), NEW day \in Days,
         NEW kind \in Kinds
  PROVE  LET ev   == Negotiated(ours, theirs, day)[kind]
             both == Usable(ours, kind, day) \cap Usable(theirs, kind, day)
         IN  /\ ev.chosen # NoAlg <=> both # {}
             /\ ev.chosen # NoAlg => ev.chosen \in both
             /\ ev.downgrade <=> /\ ev.chosen # NoAlg
                                 /\ QuantumLevel[ev.chosen] = 0
                                 /\ \E b \in both : QuantumLevel[b] > 0
<1> DEFINE offer == Usable(theirs, kind, day)
<1>1. Negotiated(ours, theirs, day)[kind] = Event(ours, kind, offer, day)
  BY DEF Negotiated
<1>2. /\ Event(ours, kind, offer, day).chosen = Chosen(ours, kind, offer, day)
      /\ Event(ours, kind, offer, day).downgrade <=>
           /\ Chosen(ours, kind, offer, day) # NoAlg
           /\ QuantumLevel[Chosen(ours, kind, offer, day)] = 0
           /\ \E b \in Common(ours, kind, offer, day) : QuantumLevel[b] > 0
  BY DEF Event
<1>3. Common(ours, kind, offer, day) = Usable(ours, kind, day) \cap offer
  BY DEF Common
<1> QED  BY <1>1, <1>2, <1>3, ChosenIsUsable

\* A usable algorithm obeys every rule of its policy.
LEMMA UsableKeepsTheRules ==
  ASSUME NEW doc, Good(doc), NEW day \in Days, NEW kind \in Kinds,
         NEW a \in Usable(doc, kind, day)
  PROVE  /\ a \notin doc.kill_switch /\ day =< doc.disallow_after[a]
         /\ QuantumLevel[a] >= doc.floor[kind] /\ a \in Available[kind]
<1>1. a \in Available[kind] /\ a \in Algs
  BY GoodDoc DEF Usable
<1>2. day \in Int /\ doc.disallow_after[a] \in Int
  BY <1>1, GoodDoc DEF Days
<1> QED  BY <1>1, <1>2 DEF Usable, IsKilled, IsDisallowed

\* What a channel uses obeys the kill switch, the dates and the floors of both
\* parties on the day of the attempt, and it is flagged exactly when both
\* policies allowed something better: every Channel() of agile.py.
THEOREM ChannelsAreSafe == Spec => []ChannelsKeepTheRules
<1>1. Inv => ChannelsKeepTheRules
  <2> SUFFICES ASSUME Inv, last.op = "connect", NEW kind \in Kinds
               PROVE  LET ev == last.events[kind]
                          a  == ev.chosen
                          both == UsableNow(last.by, kind) \cap UsableNow(last.to, kind)
                      IN  /\ \A s \in {last.by, last.to} :
                               a # NoAlg => /\ a \notin Doc(s).kill_switch
                                            /\ today =< Doc(s).disallow_after[a]
                                            /\ QuantumLevel[a] >= Doc(s).floor[kind]
                                            /\ a \in Available[kind]
                          /\ ev.downgrade <=> /\ a # NoAlg /\ QuantumLevel[a] = 0
                                              /\ \E b \in both : QuantumLevel[b] = 3
    BY DEF ChannelsKeepTheRules
  <2>1. PICK p \in Parties, r \in Parties :
          /\ last.by = p /\ last.to = r
          /\ last.events = Negotiated(Doc(p), Doc(r), today)
    BY DEF Inv, LastOK, Nothing
  <2>2. Good(Doc(p)) /\ Good(Doc(r)) /\ today \in Days
    BY ChainShape DEF Inv
  <2> DEFINE ev   == last.events[kind]
             both == UsableNow(p, kind) \cap UsableNow(r, kind)
  <2>3. /\ ev.chosen # NoAlg => ev.chosen \in both
        /\ ev.downgrade <=> /\ ev.chosen # NoAlg
                            /\ QuantumLevel[ev.chosen] = 0
                            /\ \E b \in both : QuantumLevel[b] > 0
    BY <2>1, <2>2, EventIsRight DEF UsableNow
  <2>4. \A b \in both : QuantumLevel[b] > 0 <=> QuantumLevel[b] = 3
    <3>1. both \subseteq Algs
      BY <2>2, GoodDoc DEF UsableNow, Usable
    <3> QED  BY <3>1 DEF QuantumLevel
  <2>5. ASSUME NEW s \in {p, r}, ev.chosen # NoAlg
        PROVE  /\ ev.chosen \notin Doc(s).kill_switch
               /\ today =< Doc(s).disallow_after[ev.chosen]
               /\ QuantumLevel[ev.chosen] >= Doc(s).floor[kind]
               /\ ev.chosen \in Available[kind]
    <3>1. ev.chosen \in Usable(Doc(s), kind, today) /\ Good(Doc(s))
      BY <2>2, <2>3, <2>5 DEF UsableNow
    <3> QED  BY <3>1, <2>2, UsableKeepsTheRules
  <2> HIDE DEF ev, both
  <2>6. /\ \A s \in {p, r} :
             ev.chosen # NoAlg => /\ ev.chosen \notin Doc(s).kill_switch
                                  /\ today =< Doc(s).disallow_after[ev.chosen]
                                  /\ QuantumLevel[ev.chosen] >= Doc(s).floor[kind]
                                  /\ ev.chosen \in Available[kind]
        /\ ev.downgrade <=> /\ ev.chosen # NoAlg /\ QuantumLevel[ev.chosen] = 0
                            /\ \E b \in both : QuantumLevel[b] = 3
    BY <2>3, <2>4, <2>5
  <2> QED  BY <2>1, <2>6 DEF ev, both
<1> QED  BY <1>1, Invariance, PTL

\* Two parties connect in one direction exactly when they do in the other,
\* whatever their two orders of preference.
THEOREM DirectionDoesNotMatter == Spec => []ConnectivityIsSymmetric
<1>1. Inv => ConnectivityIsSymmetric
  <2> SUFFICES ASSUME Inv, NEW p \in Parties, NEW r \in Parties
               PROVE  Established(Negotiated(Doc(p), Doc(r), today))
                        <=> Established(Negotiated(Doc(r), Doc(p), today))
    BY DEF ConnectivityIsSymmetric
  <2>1. Good(Doc(p)) /\ Good(Doc(r)) /\ today \in Days
    BY ChainShape DEF Inv
  <2>2. ASSUME NEW kind \in Kinds
        PROVE  Negotiated(Doc(p), Doc(r), today)[kind].chosen # NoAlg
                 <=> Negotiated(Doc(r), Doc(p), today)[kind].chosen # NoAlg
    <3>1. /\ Negotiated(Doc(p), Doc(r), today)[kind].chosen # NoAlg
               <=> UsableNow(p, kind) \cap UsableNow(r, kind) # {}
          /\ Negotiated(Doc(r), Doc(p), today)[kind].chosen # NoAlg
               <=> UsableNow(r, kind) \cap UsableNow(p, kind) # {}
      BY <2>1, EventIsRight DEF UsableNow
    <3> QED  BY <3>1
  <2> QED  BY <2>2 DEF Established
<1> QED  BY <1>1, Invariance, PTL

\* What a step brings back into use at one party.
Back(p) == UNION {Usable(Doc(p)', kind, today') \ UsableNow(p, kind) : kind \in Kinds}

\* A party whose policy stays brings no algorithm back.
LEMMA UnchangedBringsNothing ==
  ASSUME NEW p \in Parties, policy'[p] = policy[p], today' = today
  PROVE  Back(p) = {}
BY DEF Back, Doc, UsableNow

\* An algorithm comes back into use only by a rollback or a reload of its own
\* party, and a rollback undoes exactly one kill.
THEOREM OnlyUndoWidens == Spec => OnlyRollbackOrLoadWidens
<1>1. ASSUME Inv, Next, NEW p \in Parties
      PROVE  Back(p) # {} => \/ last' = [op |-> "load", by |-> p]
                             \/ policy'[p] = Tail(policy[p]) /\ \E a \in Algs : Back(p) = {a}
  <2>0. Good(Doc(p)) /\ today \in Days /\ policy \in [Parties -> Seq(Docs)]
    BY <1>1, ChainShape DEF Inv, ChainsOK
  <2>1. ASSUME NEW q \in Parties, NEW a \in Victims, Kill(q, a)  PROVE Back(p) = {}
    <3>1. CASE q = p
      <4>1. policy'[p] = <<WithKill(Doc(p), a)>> \o policy[p] /\ today' = today
        BY <2>0, <2>1, <3>1 DEF Kill, Doc
      <4>2. Doc(p)' = WithKill(Doc(p), a)
        <5>1. policy[p] \in Seq(Docs) /\ WithKill(Doc(p), a) \in Docs
          BY <2>0, KillNarrows, VictimsAssumption DEF Good
        <5>2. Head(<<WithKill(Doc(p), a)>> \o policy[p]) = WithKill(Doc(p), a)
          BY <5>1
        <5> QED  BY <4>1, <5>2 DEF Doc
      <4>3. a \in Algs
        BY VictimsAssumption
      <4> QED  BY <4>1, <4>2, <4>3, <2>0, KillNarrows DEF Back, UsableNow
    <3>2. CASE q # p
      BY <2>0, <2>1, <3>2, UnchangedBringsNothing DEF Kill
    <3> QED  BY <3>1, <3>2
  <2>2. ASSUME NEW q \in Parties, Rollback(q)
        PROVE  Back(p) # {} => policy'[p] = Tail(policy[p]) /\ \E a \in Algs : Back(p) = {a}
    <3>1. CASE q = p
      <4>1. policy'[p] = Tail(policy[p]) /\ today' = today /\ Len(policy[p]) > 1
        BY <2>0, <2>2, <3>1 DEF Rollback
      <4>2. Doc(p)' = policy[p][2]
        BY <4>1, <2>0 DEF Doc
      <4>3. /\ policy[p] \in Seq(Docs) /\ Len(policy[p]) \in Nat /\ Doc(p) = policy[p][1]
            /\ 1 \in 1 .. Len(policy[p]) - 1 /\ 2 \in 1 .. Len(policy[p])
        BY <4>1, <1>1, ChainShape
      <4>4. Good(policy[p][2]) /\ \E a \in Algs : policy[p][1] = WithKill(policy[p][1 + 1], a)
        BY <4>3, <1>1 DEF Inv, ChainsOK
      <4>5. PICK a \in Algs : Doc(p) = WithKill(policy[p][2], a)
        BY <4>3, <4>4
      <4>6. Back(p) \subseteq {a}
        BY <4>1, <4>2, <4>4, <4>5, <2>0, KillNarrows DEF Back, UsableNow
      <4> QED  BY <4>1, <4>6
    <3>2. CASE q # p
      BY <2>0, <2>2, <3>2, UnchangedBringsNothing DEF Rollback
    <3> QED  BY <3>1, <3>2
  <2>3. ASSUME NEW q \in Parties, \/ RollbackFails(q) \/ Save(q)
                                  \/ \E r \in Parties : Connect(q, r)
        PROVE  Back(p) = {}
    BY <2>3, UnchangedBringsNothing DEF RollbackFails, Save, Connect
  <2>4. ASSUME NEW q \in Parties, Load(q)
        PROVE  Back(p) # {} => last' = [op |-> "load", by |-> p]
    <3>1. CASE q = p
      BY <2>4, <3>1 DEF Load
    <3>2. CASE q # p
      BY <2>0, <2>4, <3>2, UnchangedBringsNothing DEF Load
    <3> QED  BY <3>1, <3>2
  <2>5. CASE Midnight
    <3>1. Doc(p)' = Doc(p) /\ today' = today + 1
      BY <2>5 DEF Midnight, Doc
    <3> QED  BY <3>1, <2>0, DaysNarrow DEF Back, UsableNow
  <2> QED  BY <2>1, <2>2, <2>3, <2>4, <2>5, <1>1 DEF Next
<1>2. Inv /\ [Next]_vars =>
        [\A p \in Parties :
           LET back == UNION {Usable(Doc(p)', kind, today') \ UsableNow(p, kind)
                                : kind \in Kinds}
           IN  back # {} => \/ last' = [op |-> "load", by |-> p]
                            \/ policy'[p] = Tail(policy[p]) /\ \E a \in Algs : back = {a}]_vars
  BY <1>1 DEF Back
<1> QED  BY <1>2, Invariance, PTL DEF Spec, OnlyRollbackOrLoadWidens

-------------------------------------------------------------------------------
(* The kill-switch drill                                                    *)

\* What the channels of a policy with itself come to.
Ends(d)   == Negotiated(d, d, now)
Picks(d)  == [kind \in Kinds |-> Ends(d)[kind].chosen]
Picked(d) == Good(d) /\ victim \in Usable(d, "kem", now)

\* The baseline batch of policy d went well.
Based(d)  == Picked(d) /\ Established(Ends(d)) /\ choices["baseline"] = Picks(d)

\* So did the batch under the policy with the victim killed.
Survived(d) == Based(d) /\ Established(Ends(WithKill(d, victim))) /\ okKill

\* The policy the drill started from, once it is loaded.
Start == Head(Tail(loaded) \o loaded)

Hopeless(d) == \/ Usable(d, "kem", now) \in {{}, {victim}}
               \/ Usable(d, "sig", now) = {}

Stage(d) ==
  \/ pc = "baseline" /\ Picked(d) /\ loaded = <<d>> /\ work = d /\ events = 0
  \/ pc = "kill" /\ Based(d) /\ loaded = <<d>> /\ work = d /\ events = 2 * N
  \/ pc = "reload" /\ Based(d) /\ loaded = <<d>> /\ work = WithKill(d, victim)
                    /\ events = 2 * N
  \/ pc = "killed" /\ Based(d) /\ loaded = <<WithKill(d, victim), d>>
                    /\ work = WithKill(d, victim) /\ events = 2 * N
  \/ pc = "rollback" /\ Survived(d) /\ loaded = <<WithKill(d, victim), d>>
                      /\ work = WithKill(d, victim) /\ events = 4 * N
  \/ pc = "reload2" /\ Survived(d) /\ loaded = <<WithKill(d, victim), d>> /\ work = d
                     /\ events = 4 * N
  \/ pc = "restored" /\ Survived(d) /\ loaded = <<d, d>> /\ work = d /\ events = 4 * N
  \/ pc = "done" /\ Survived(d) /\ loaded = <<d, d>> /\ work = d /\ events = 6 * N
                 /\ restored
  \/ pc = "aborted" /\ Start = d /\ Hopeless(d)

DrillInv ==
  /\ now \in Days
  /\ choices \in [Batches -> [Kinds -> Algs \cup {NoAlg}]]
  /\ \/ pc = "load" /\ Good(work) /\ events = 0
     \/ \E d \in Docs : Good(d) /\ Stage(d)

\* A policy connects to itself exactly when it leaves something usable of each
\* kind, and then with a usable algorithm.
LEMMA SelfChannel ==
  ASSUME NEW d, Good(d), now \in Days
  PROVE  /\ Established(Ends(d)) <=> \A kind \in Kinds : Usable(d, kind, now) # {}
         /\ \A kind \in Kinds :
              Ends(d)[kind].chosen # NoAlg => Ends(d)[kind].chosen \in Usable(d, kind, now)
         /\ Picks(d) \in [Kinds -> Algs \cup {NoAlg}]
<1>1. ASSUME NEW kind \in Kinds
      PROVE  /\ Ends(d)[kind].chosen # NoAlg <=> Usable(d, kind, now) # {}
             /\ Ends(d)[kind].chosen # NoAlg => Ends(d)[kind].chosen \in Usable(d, kind, now)
             /\ Ends(d)[kind].chosen \in Algs \cup {NoAlg}
  <2>1. Usable(d, kind, now) \subseteq Algs
    BY GoodDoc DEF Usable
  <2>2. /\ Ends(d)[kind].chosen # NoAlg
             <=> Usable(d, kind, now) \cap Usable(d, kind, now) # {}
        /\ Ends(d)[kind].chosen # NoAlg
             => Ends(d)[kind].chosen \in Usable(d, kind, now) \cap Usable(d, kind, now)
    BY EventIsRight DEF Ends
  <2> QED  BY <2>1, <2>2
<1> QED  BY <1>1 DEF Established, Picks

\* Killing the victim costs the policy the victim and nothing else.
LEMMA KillCostsTheVictim ==
  ASSUME NEW d, Picked(d), now \in Days
  PROVE  /\ victim \in Algs
         /\ Good(WithKill(d, victim))
         /\ Usable(WithKill(d, victim), "kem", now) = Usable(d, "kem", now) \ {victim}
         /\ Usable(WithKill(d, victim), "sig", now) = Usable(d, "sig", now)
         /\ WithKill(d, victim).floor = d.floor
<1>0. "kem" \in Kinds /\ "sig" \in Kinds
  BY DEF Kinds
<1>1. victim \in Available["kem"] /\ victim \in Algs
  BY <1>0, GoodDoc DEF Picked, Usable
<1>2. victim \notin Available["sig"]
  BY <1>1 DEF Available, Kinds
<1>3. /\ WithKill(d, victim).floor = d.floor
      /\ victim \in WithKill(d, victim).kill_switch
  BY DEF WithKill, Picked, Good, Docs
<1>4. Good(WithKill(d, victim))
  BY <1>1, KillNarrows DEF Picked
<1>5. victim \notin Usable(WithKill(d, victim), "kem", now)
  BY <1>3 DEF Usable, IsKilled
<1>6. victim \notin Usable(d, "sig", now)
  BY <1>0, <1>2, GoodDoc DEF Picked, Usable
<1>7. \A kind \in Kinds :
        /\ Usable(WithKill(d, victim), kind, now) \subseteq Usable(d, kind, now)
        /\ Usable(d, kind, now) \ Usable(WithKill(d, victim), kind, now) \subseteq {victim}
  BY <1>1, KillNarrows DEF Picked
<1> QED  BY <1>0, <1>1, <1>3, <1>4, <1>5, <1>6, <1>7

\* A drill starts with nothing loaded and no row.
LEMMA DrillInitInv == DrillInit => DrillInv
BY StartDocsAssumption DEF DrillInit, DrillInv, Good, NoChoice

\* The program counter says which stage of DrillInv holds.
LEMMA StageOf ==
  ASSUME DrillInv, pc # "load"
  PROVE  \E d \in Docs : Good(d) /\ Stage(d)
BY DEF DrillInv

\* What the drill loads was validated.
LEMMA LoadPolicyInv == ASSUME DrillInv, LoadPolicy  PROVE DrillInv'
<1>1. Good(work) /\ work \in Docs /\ events = 0 /\ now \in Days
  BY DEF DrillInv, LoadPolicy, Stage, Good
<1>2. /\ loaded' = <<work>> /\ now' = now /\ work' = work /\ events' = events
      /\ choices' = choices
      /\ victim' = Chosen(work, "kem", Available["kem"], now)
      /\ pc' = IF victim' = NoAlg THEN "aborted" ELSE "baseline"
  BY DEF LoadPolicy
<1>3. "kem" \in Kinds
  BY DEF Kinds
<1>4. Common(work, "kem", Available["kem"], now) = Usable(work, "kem", now)
  BY <1>1, <1>3, GoodDoc DEF Common, Usable
<1>5. CASE victim' = NoAlg
  <2>1. Usable(work, "kem", now) = {}
    BY <1>1, <1>2, <1>3, <1>4, <1>5, ChosenIsUsable
  <2>2. Start' = work
    BY <1>1, <1>2 DEF Start
  <2>3. Hopeless(work)'
    BY <2>1, <1>2 DEF Hopeless
  <2>4. Stage(work)'
    BY <2>2, <2>3, <1>2, <1>5 DEF Stage
  <2> QED  BY <2>4, <1>1, <1>2 DEF DrillInv
<1>6. CASE victim' # NoAlg
  <2>1. victim' \in Usable(work, "kem", now)
    BY <1>1, <1>2, <1>3, <1>4, <1>6, ChosenIsUsable
  <2>2. Picked(work)'
    BY <2>1, <1>1, <1>2 DEF Picked
  <2>3. Stage(work)'
    BY <2>2, <1>1, <1>2, <1>6 DEF Stage
  <2> QED  BY <2>3, <1>1, <1>2 DEF DrillInv
<1> QED  BY <1>5, <1>6

\* A batch under policy d, whose channels all end the same way.
LEMMA BatchStep ==
  ASSUME DrillInv, NEW batch \in Batches, NEW next, Establish(batch, next),
         NEW d, Good(d), Head(loaded) = d
  PROVE  /\ choices' \in [Batches -> [Kinds -> Algs \cup {NoAlg}]]
         /\ Established(Ends(d)) =>
              /\ pc' = next /\ events' = events + 2 * N
              /\ choices' = [choices EXCEPT ![batch] = Picks(d)]
         /\ ~Established(Ends(d)) => pc' = "aborted"
         /\ UNCHANGED <<now, work, loaded, victim>>
<1>1. Picks(d) \in [Kinds -> Algs \cup {NoAlg}]
  BY SelfChannel DEF DrillInv
<1>2. Ends(d) = Negotiated(Head(loaded), Head(loaded), now)
  BY DEF Ends
<1>3. choices \in [Batches -> [Kinds -> Algs \cup {NoAlg}]]
  BY DEF DrillInv
<1> QED  BY <1>1, <1>2, <1>3 DEF Establish, Picks

\* The first connection is made under the loaded policy.
LEMMA BaselineInv == ASSUME DrillInv, Baseline  PROVE DrillInv'
<1>1. pc = "baseline"
  BY DEF Baseline, Establish
<1>2. PICK d \in Docs : Good(d) /\ Picked(d) /\ loaded = <<d>> /\ work = d /\ events = 0
  BY <1>1, StageOf DEF Stage
<1>3. /\ choices' \in [Batches -> [Kinds -> Algs \cup {NoAlg}]]
      /\ Established(Ends(d)) =>
           /\ pc' = "kill" /\ events' = events + 2 * N
           /\ choices' = [choices EXCEPT !["baseline"] = Picks(d)]
      /\ ~Established(Ends(d)) => pc' = "aborted"
      /\ UNCHANGED <<now, work, loaded, victim>>
  BY <1>2, BatchStep DEF Baseline, Batches
<1>4. now \in Days /\ choices \in [Batches -> [Kinds -> Algs \cup {NoAlg}]]
  BY DEF DrillInv
<1>5. CASE Established(Ends(d))
  <2>1. Based(d)'
    <3>1. choices'["baseline"] = Picks(d)
      BY <1>3, <1>4, <1>5 DEF Batches
    <3>2. Ends(d)' = Ends(d) /\ Picks(d)' = Picks(d)
      BY <1>3 DEF Ends, Picks
    <3> QED  BY <3>1, <3>2, <1>2, <1>3, <1>5 DEF Based, Picked
  <2>2. Stage(d)'
    BY <2>1, <1>2, <1>3, <1>5, NAssumption DEF Stage
  <2> QED  BY <2>2, <1>2, <1>3, <1>4 DEF DrillInv
<1>6. CASE ~Established(Ends(d))
  <2>1. \E kind \in Kinds : Usable(d, kind, now) = {}
    BY <1>2, <1>4, <1>6, SelfChannel
  <2>2. Hopeless(d)'
    BY <2>1, <1>3 DEF Hopeless, Kinds
  <2>3. Start' = d
    BY <1>2, <1>3 DEF Start
  <2>4. Stage(d)'
    BY <2>2, <2>3, <1>3, <1>6 DEF Stage
  <2> QED  BY <2>4, <1>2, <1>3, <1>4 DEF DrillInv
<1> QED  BY <1>5, <1>6

\* Facts about the victim and the baseline survive a step that keeps them.
LEMMA DrillFrame ==
  ASSUME NEW d, UNCHANGED <<now, victim, choices>>
  PROVE  /\ Picked(d)' = Picked(d) /\ Based(d)' = Based(d)
         /\ okKill' = okKill => Survived(d)' = Survived(d)
BY DEF Picked, Based, Survived, Ends, Picks

\* Two lists of one, in a row.
LEMMA TwoInARow ==
  ASSUME NEW x, NEW y
  PROVE  <<x>> \o <<y>> = <<x, y>> /\ Tail(<<x, y>>) = <<y>>
<1> DEFINE S == {x, y}
<1>1. <<x>> \in Seq(S) /\ <<y>> \in Seq(S) /\ <<x, y>> \in Seq(S)
  OBVIOUS
<1>2. <<x>> \o <<y>> \in Seq(S) /\ Tail(<<x, y>>) \in Seq(S)
  BY <1>1, ConcatProperties, HeadTailProperties
<1>3. /\ Len(<<x>> \o <<y>>) = 2
      /\ (<<x>> \o <<y>>)[1] = x /\ (<<x>> \o <<y>>)[2] = y
  BY <1>1
<1>4. Len(Tail(<<x, y>>)) = 1 /\ Tail(<<x, y>>)[1] = y
  BY <1>1
<1>5. <<x>> \o <<y>> = <<x, y>>
  <2>1. \A i \in 1 .. 2 : (<<x>> \o <<y>>)[i] = <<x, y>>[i]
    <3>1. \A i \in 1 .. 2 : i = 1 \/ i = 2
      OBVIOUS
    <3> QED  BY <3>1, <1>3
  <2>2. Len(<<x, y>>) = 2
    OBVIOUS
  <2> QED  BY <1>1, <1>2, <1>3, <2>1, <2>2, SeqEqual
<1>6. Tail(<<x, y>>) = <<y>>
  BY <1>1, <1>2, <1>4, SeqEqual
<1> QED  BY <1>5, <1>6

\* The four steps that move a policy between the file and the drill.
LEMMA FileStepInv ==
  ASSUME DrillInv, WriteKill \/ ReloadKilled \/ WriteRollback \/ ReloadRestored
  PROVE  DrillInv'
<1>1. /\ now \in Days /\ choices \in [Batches -> [Kinds -> Algs \cup {NoAlg}]]
      /\ UNCHANGED <<now, victim, choices, okKill, events>>
  BY DEF DrillInv, WriteKill, ReloadKilled, WriteRollback, ReloadRestored
<1>2. PICK d \in Docs : Good(d) /\ Stage(d)
  BY StageOf DEF WriteKill, ReloadKilled, WriteRollback, ReloadRestored
<1>3. Based(d)' = Based(d) /\ Survived(d)' = Survived(d)
  BY <1>1, DrillFrame
<1>4. CASE WriteKill
  <2>1. Based(d) /\ loaded = <<d>> /\ events = 2 * N
    BY <1>2, <1>4 DEF WriteKill, Stage
  <2>2. work' = WithKill(d, victim) /\ pc' = "reload" /\ loaded' = loaded
    BY <1>4, <2>1 DEF WriteKill
  <2>3. Stage(d)'
    BY <1>1, <1>3, <2>1, <2>2 DEF Stage
  <2> QED  BY <1>1, <1>2, <2>3 DEF DrillInv
<1>5. CASE ReloadKilled
  <2>1. Based(d) /\ loaded = <<d>> /\ work = WithKill(d, victim) /\ events = 2 * N
    BY <1>2, <1>5 DEF ReloadKilled, Stage
  <2>2. loaded' = <<WithKill(d, victim), d>> /\ pc' = "killed" /\ work' = work
    <3>1. <<WithKill(d, victim)>> \o <<d>> = <<WithKill(d, victim), d>>
      BY TwoInARow
    <3> QED  BY <1>5, <2>1, <3>1 DEF ReloadKilled
  <2>3. Stage(d)'
    BY <1>1, <1>3, <2>1, <2>2 DEF Stage
  <2> QED  BY <1>1, <1>2, <2>3 DEF DrillInv
<1>6. CASE WriteRollback
  <2>1. Survived(d) /\ loaded = <<WithKill(d, victim), d>> /\ events = 4 * N
    BY <1>2, <1>6 DEF WriteRollback, Stage
  <2>2. work' = d /\ pc' = "reload2" /\ loaded' = loaded
    BY <1>6, <2>1 DEF WriteRollback
  <2>3. Stage(d)'
    BY <1>1, <1>3, <2>1, <2>2 DEF Stage
  <2> QED  BY <1>1, <1>2, <2>3 DEF DrillInv
<1>7. CASE ReloadRestored
  <2>1. Survived(d) /\ loaded = <<WithKill(d, victim), d>> /\ work = d /\ events = 4 * N
    BY <1>2, <1>7 DEF ReloadRestored, Stage
  <2>2. loaded' = <<d, d>> /\ pc' = "restored" /\ work' = work
    <3>1. <<d>> \o Tail(<<WithKill(d, victim), d>>) = <<d, d>>
      BY TwoInARow
    <3> QED  BY <1>7, <2>1, <3>1 DEF ReloadRestored
  <2>3. Stage(d)'
    BY <1>1, <1>3, <2>1, <2>2 DEF Stage
  <2> QED  BY <1>1, <1>2, <2>3 DEF DrillInv
<1> QED  BY <1>4, <1>5, <1>6, <1>7

\* The second connection is made under the policy without the victim.
LEMMA KilledInv == ASSUME DrillInv, Killed  PROVE DrillInv'
<1>1. pc = "killed"
  BY DEF Killed, Establish
<1>2. PICK d \in Docs : /\ Good(d) /\ Based(d) /\ loaded = <<WithKill(d, victim), d>>
                        /\ work = WithKill(d, victim) /\ events = 2 * N
  BY <1>1, StageOf DEF Stage
<1> DEFINE k == WithKill(d, victim)
<1>3. now \in Days /\ choices \in [Batches -> [Kinds -> Algs \cup {NoAlg}]]
  BY DEF DrillInv
<1>4. /\ Picked(d) /\ Good(k) /\ victim \in Usable(d, "kem", now)
      /\ Usable(k, "kem", now) = Usable(d, "kem", now) \ {victim}
      /\ Usable(k, "sig", now) = Usable(d, "sig", now)
  BY <1>2, <1>3, KillCostsTheVictim DEF Based, Picked
<1>5. /\ choices' \in [Batches -> [Kinds -> Algs \cup {NoAlg}]]
      /\ Established(Ends(k)) =>
           /\ pc' = "rollback" /\ events' = events + 2 * N
           /\ choices' = [choices EXCEPT !["killed"] = Picks(k)]
      /\ ~Established(Ends(k)) => pc' = "aborted"
      /\ UNCHANGED <<now, work, loaded, victim>>
  BY <1>2, <1>4, BatchStep DEF Killed, Batches
<1>6. CASE Established(Ends(k))
  <2>1. Based(d)'
    <3>1. choices'["baseline"] = choices["baseline"]
      BY <1>3, <1>5, <1>6 DEF Batches
    <3> QED  BY <3>1, <1>2, <1>5 DEF Based, Picked, Ends, Picks
  <2>2. okKill'
    <3>1. /\ choices'["killed"]["kem"] = Ends(k)["kem"].chosen /\ "kem" \in Kinds
          /\ Ends(k)["kem"].chosen # NoAlg
      BY <1>3, <1>5, <1>6 DEF Batches, Picks, Kinds, Established
    <3>2. Ends(k)["kem"].chosen \in Usable(k, "kem", now)
      BY <1>3, <1>4, <3>1, SelfChannel
    <3>3. QuantumLevel[Ends(k)["kem"].chosen] >= k.floor["kem"]
      BY <1>3, <1>4, <3>1, <3>2, UsableKeepsTheRules
    <3>4. Head(loaded) = k
      BY <1>2
    <3> QED  BY <1>4, <3>1, <3>2, <3>3, <3>4 DEF Killed
  <2>3. Survived(d)'
    BY <2>1, <2>2, <1>5, <1>6 DEF Survived, Ends
  <2>4. Stage(d)'
    BY <2>3, <1>2, <1>5, <1>6, NAssumption DEF Stage
  <2> QED  BY <2>4, <1>2, <1>3, <1>5 DEF DrillInv
<1>7. CASE ~Established(Ends(k))
  <2>1. \E kind \in Kinds : Usable(k, kind, now) = {}
    BY <1>3, <1>4, <1>7, SelfChannel
  <2>2. Usable(d, "kem", now) = {victim} \/ Usable(d, "sig", now) = {}
    BY <2>1, <1>4 DEF Kinds
  <2>3. Hopeless(d)'
    BY <2>2, <1>5 DEF Hopeless
  <2>4. Start' = d
    BY <1>2, <1>5, TwoInARow DEF Start
  <2>5. Stage(d)'
    BY <2>3, <2>4, <1>5, <1>7 DEF Stage
  <2> QED  BY <2>5, <1>2, <1>3, <1>5 DEF DrillInv
<1> QED  BY <1>6, <1>7

\* The restored policy is the one of the start, so its batch cannot fail.
LEMMA RestoredInv == ASSUME DrillInv, Restored  PROVE DrillInv'
<1>1. pc = "restored"
  BY DEF Restored, Establish
<1>2. PICK d \in Docs : /\ Good(d) /\ Survived(d) /\ loaded = <<d, d>> /\ work = d
                        /\ events = 4 * N
  BY <1>1, StageOf DEF Stage
<1>3. now \in Days /\ choices \in [Batches -> [Kinds -> Algs \cup {NoAlg}]]
  BY DEF DrillInv
<1>4. Established(Ends(d)) /\ choices["baseline"] = Picks(d) /\ Picked(d)
  BY <1>2 DEF Survived, Based
<1>5. /\ choices' \in [Batches -> [Kinds -> Algs \cup {NoAlg}]]
      /\ pc' = "done" /\ events' = events + 2 * N
      /\ choices' = [choices EXCEPT !["restored"] = Picks(d)]
      /\ UNCHANGED <<now, work, loaded, victim, okKill>>
  BY <1>2, <1>4, BatchStep DEF Restored, Batches
<1>6. /\ choices'["baseline"] = choices["baseline"] /\ choices'["restored"] = Picks(d)
  BY <1>3, <1>5 DEF Batches
<1>7. restored'
  BY <1>2, <1>4, <1>5, <1>6 DEF Restored
<1>8. Survived(d)'
  BY <1>2, <1>5, <1>6 DEF Survived, Based, Picked, Ends, Picks
<1>9. Stage(d)'
  BY <1>2, <1>5, <1>7, <1>8, NAssumption DEF Stage
<1> QED  BY <1>2, <1>3, <1>5, <1>9 DEF DrillInv

\* A step of others keeps the invariant of the drill.
LEMMA DrillStutter == ASSUME DrillInv, UNCHANGED drillVars  PROVE DrillInv'
<1>1. \A d \in Docs : Stage(d)' = Stage(d)
  BY DEF drillVars, Stage, Picked, Based, Survived, Ends, Picks, Start, Hopeless
<1> QED  BY <1>1 DEF DrillInv, drillVars, Good

\* Every step of the drill keeps its invariant.
LEMMA DrillNextInv == DrillInv /\ [DrillNext]_drillVars => DrillInv'
BY LoadPolicyInv, BaselineInv, FileStepInv, KilledInv, RestoredInv, DrillStutter
   DEF DrillNext, Finished

\* DrillInv is what the drill promises.
LEMMA DrillInvPromise == DrillInv => DrillKeepsItsPromise
<1> SUFFICES ASSUME DrillInv  PROVE DrillKeepsItsPromise
  OBVIOUS
<1>1. ASSUME pc = "done"
      PROVE  /\ Passed /\ events = 6 * N /\ work = loaded[2] /\ victim \notin work.kill_switch
             /\ Usable(Start, "kem", now) \ {victim} # {} /\ Usable(Start, "sig", now) # {}
  <2>1. PICK d \in Docs : /\ Good(d) /\ Survived(d) /\ loaded = <<d, d>> /\ work = d
                          /\ events = 6 * N /\ restored
    BY <1>1, StageOf DEF Stage
  <2>2. Start = d
    BY <2>1, TwoInARow DEF Start
  <2>3. Picked(d) /\ Established(Ends(WithKill(d, victim))) /\ okKill /\ now \in Days
    BY <2>1 DEF Survived, Based, DrillInv
  <2>4. /\ Good(WithKill(d, victim))
        /\ Usable(WithKill(d, victim), "kem", now) = Usable(d, "kem", now) \ {victim}
        /\ Usable(WithKill(d, victim), "sig", now) = Usable(d, "sig", now)
    BY <2>3, KillCostsTheVictim
  <2>5. "kem" \in Kinds /\ "sig" \in Kinds
    BY DEF Kinds
  <2>6. Usable(d, "kem", now) \ {victim} # {} /\ Usable(d, "sig", now) # {}
    BY <2>3, <2>4, <2>5, SelfChannel
  <2>7. victim \notin d.kill_switch
    BY <2>3 DEF Picked, Usable, IsKilled
  <2> QED  BY <2>1, <2>2, <2>3, <2>6, <2>7 DEF Passed
<1>2. ASSUME pc = "aborted"  PROVE Hopeless(Start)
  BY <1>2, StageOf DEF Stage
<1> QED  BY <1>1, <1>2 DEF DrillKeepsItsPromise, Start, Hopeless

\* The typing part of the drill's state, on top of DrillInv.
LEMMA DrillTypesInv ==
  ASSUME DrillInv, DrillTypeOK, [DrillNext]_drillVars
  PROVE  DrillTypeOK'
<1>0. /\ work \in Docs /\ loaded \in Seq(Docs) /\ now \in Days /\ events \in 0 .. 6 * N
      /\ victim \in Algs \cup {NoAlg} /\ okKill \in BOOLEAN /\ restored \in BOOLEAN
  BY DEF DrillTypeOK
<1>1. DrillInv' /\ choices' \in [Batches -> [Kinds -> Algs \cup {NoAlg}]] /\ now' \in Days
  BY DrillNextInv DEF DrillInv
<1>2. pc' \in Batches \cup {"load", "kill", "reload", "rollback", "reload2", "done", "aborted"}
  BY <1>1 DEF DrillInv, Stage, Batches
<1>3. CASE LoadPolicy
  <2>1. victim' \in Algs \cup {NoAlg}
    <3>1. Good(work) /\ "kem" \in Kinds
      BY <1>3 DEF DrillInv, Stage, LoadPolicy, Kinds
    <3> QED  BY <1>0, <1>3, <3>1, ChosenIsUsable, GoodDoc DEF LoadPolicy
  <2> QED  BY <2>1, <1>0, <1>1, <1>2, <1>3 DEF LoadPolicy, DrillTypeOK
<1>4. CASE WriteKill \/ ReloadKilled \/ WriteRollback \/ ReloadRestored
  <2>1. PICK d \in Docs : Good(d) /\ Stage(d)
    BY <1>4, StageOf DEF WriteKill, ReloadKilled, WriteRollback, ReloadRestored
  <2>2. work' \in Docs
    <3>1. WriteKill => Picked(d) /\ Head(loaded) = d
      BY <2>1 DEF WriteKill, Stage, Based
    <3>2. WriteKill => WithKill(d, victim) \in Docs
      BY <3>1, <1>0, KillCostsTheVictim DEF Good
    <3>3. WriteRollback => loaded[2] = d
      BY <2>1 DEF WriteRollback, Stage
    <3> QED  BY <3>1, <3>2, <3>3, <1>0, <1>4, <2>1
               DEF WriteKill, ReloadKilled, WriteRollback, ReloadRestored
  <2>3. loaded' \in Seq(Docs)
    <3>1. ReloadRestored => Tail(loaded) \in Seq(Docs)
      <4>1. ReloadRestored => loaded = <<WithKill(d, victim), d>>
        BY <2>1 DEF ReloadRestored, Stage
      <4>2. <<d>> \in Seq(Docs)
        BY <2>1
      <4> QED  BY <4>1, <4>2, TwoInARow
    <3>2. <<work>> \in Seq(Docs)
      BY <1>0
    <3> QED  BY <3>1, <3>2, <1>0, <1>4, ConcatProperties
               DEF WriteKill, ReloadKilled, WriteRollback, ReloadRestored
  <2>4. UNCHANGED <<victim, okKill, restored, events>>
    BY <1>4 DEF WriteKill, ReloadKilled, WriteRollback, ReloadRestored
  <2> QED  BY <2>2, <2>3, <2>4, <1>0, <1>1, <1>2 DEF DrillTypeOK
<1>5. CASE Baseline \/ Killed \/ Restored
  <2>1. PICK d \in Docs : Good(d) /\ Stage(d)
    BY <1>5, StageOf DEF Baseline, Killed, Restored, Establish
  <2>2. events \in {0, 2 * N, 4 * N}
    BY <1>5, <2>1 DEF Baseline, Killed, Restored, Establish, Stage
  <2>3. events' = events + 2 * N \/ events' = events + 2
    BY <1>5 DEF Baseline, Killed, Restored, Establish
  <2>4. events' \in 0 .. 6 * N
    BY <2>2, <2>3, NAssumption
  <2>5. UNCHANGED <<now, work, loaded, victim>>
    BY <1>5 DEF Baseline, Killed, Restored, Establish
  <2>6. okKill' \in BOOLEAN /\ restored' \in BOOLEAN
    <3>1. CASE Baseline
      BY <1>0, <3>1 DEF Baseline
    <3>2. CASE Killed
      BY <1>0, <3>2 DEF Killed
    <3>3. CASE Restored
      BY <1>0, <3>3 DEF Restored
    <3> QED  BY <3>1, <3>2, <3>3, <1>5
  <2> QED  BY <2>4, <2>5, <2>6, <1>0, <1>1, <1>2 DEF DrillTypeOK
<1>6. CASE UNCHANGED drillVars
  BY <1>0, <1>1, <1>2, <1>6 DEF drillVars, DrillTypeOK
<1> QED  BY <1>3, <1>4, <1>5, <1>6 DEF DrillNext, Finished

\* The state of drill.run stays of its types, in particular the telemetry never
\* exceeds two events per channel.
THEOREM DrillTypeCorrect == DrillSpec => []DrillTypeOK
<1>1. DrillInit => DrillTypeOK
  <2>1. \A doc \in StartDocs : doc \in Docs
    BY StartDocsAssumption
  <2>2. <<>> \in Seq(Docs) /\ 0 \in 0 .. 6 * N /\ FALSE \in BOOLEAN
    BY NAssumption
  <2>3. [b \in Batches |-> NoChoice] \in [Batches -> [Kinds -> Algs \cup {NoAlg}]]
    BY DEF NoChoice
  <2> QED  BY <2>1, <2>2, <2>3 DEF DrillInit, DrillTypeOK
<1> QED  BY <1>1, DrillInitInv, DrillNextInv, DrillTypesInv, PTL DEF DrillSpec

\* A drill that reports reports success and leaves the policy as it was; one
\* that dies had nothing else usable: for every policy file, day and N.
THEOREM DrillPromise == DrillSpec => []DrillKeepsItsPromise
BY DrillInitInv, DrillNextInv, DrillInvPromise, PTL DEF DrillSpec

-------------------------------------------------------------------------------
(* The test plan                                                            *)

Rows == [section : Sections, status : {"PASS", "FAIL", "MANUAL", "SKIP", "INFO"}]
RowsOf(rows) == {rows[i] : i \in DOMAIN rows}
AnyFailed == \E name \in Sections : Failed(name)

\* The sources the plan has read when it reaches a section.
ReadBefore(sec) ==
  CASE sec = "1 correctness"      -> {}
    [] sec = "2 known-answer"     -> {"suites"}
    [] sec = "3 interoperability" -> {"suites", "vectors"}
    [] sec = "4 side channels"    -> {"suites", "vectors", "interop"}
    [] sec = "5 performance"      -> {"suites", "vectors", "interop", "timing"}
    [] OTHER                      -> Sources

\* What was read and bad is in the report, and what is in the report was bad.
ReportInv ==
  /\ report \in Seq(Rows)
  /\ section # "crashed" =>
       \A s \in ReadBefore(section) : /\ estate[s] # "broken"
                                      /\ estate[s] = "bad" => AnyFailed
  /\ AnyFailed => pc = "aborted" \/ \E s \in Sources : estate[s] = "bad"

\* The drill is over when section 6 is, and its failure has its row there.
DrillRowInv ==
  section \in {"7 rollback", "report", "ended"} =>
    pc \in {"done", "aborted"} /\ (pc = "aborted" => Failed("6 agility"))

\* drill.json is this drill's exactly when the drill reported.
JsonInv == IF pc = "done" THEN drillJson = [restored |-> "good", fresh |-> TRUE]
                          ELSE drillJson \in Stale \cup {None}

CodeInv == code = IF section = "ended" THEN (IF AnyFailed THEN 1 ELSE 0)
                  ELSE IF section = "crashed" THEN 1 ELSE Running

PlanInv ==
  /\ DrillInv /\ estate \in Estates
  /\ section \in Sections \cup {"report", "ended", "crashed"}
  /\ ReportInv /\ DrillRowInv /\ JsonInv /\ CodeInv

\* The rows of two lists in a row are the rows of both.
LEMMA RowsOfConcat ==
  ASSUME NEW S, NEW a \in Seq(S), NEW b \in Seq(S)
  PROVE  a \o b \in Seq(S) /\ RowsOf(a \o b) = RowsOf(a) \cup RowsOf(b)
<1>1. a \o b \in Seq(S)
  BY ConcatProperties
<1>2. /\ DOMAIN a = 1 .. Len(a) /\ DOMAIN b = 1 .. Len(b) /\ Len(a) \in Nat /\ Len(b) \in Nat
      /\ DOMAIN (a \o b) = 1 .. Len(a) + Len(b)
  BY <1>1, ConcatProperties, LenProperties
<1>3. \A i \in 1 .. Len(a) : (a \o b)[i] = a[i]
  BY ConcatProperties, <1>2
<1>4. \A i \in 1 .. Len(b) : (a \o b)[Len(a) + i] = b[i]
  BY ConcatProperties, <1>2
<1>5. RowsOf(a) \subseteq RowsOf(a \o b)
  <2>1. \A i \in DOMAIN a : i \in DOMAIN (a \o b)
    BY <1>2
  <2> QED  BY <1>2, <1>3, <2>1 DEF RowsOf
<1>6. RowsOf(b) \subseteq RowsOf(a \o b)
  <2>1. \A i \in DOMAIN b : Len(a) + i \in DOMAIN (a \o b)
    BY <1>2
  <2> QED  BY <1>2, <1>4, <2>1 DEF RowsOf
<1>7. ASSUME NEW i \in DOMAIN (a \o b)  PROVE (a \o b)[i] \in RowsOf(a) \cup RowsOf(b)
  <2>1. CASE i =< Len(a)
    <3>1. i \in 1 .. Len(a)
      BY <1>2, <2>1
    <3> QED  BY <1>2, <1>3, <3>1 DEF RowsOf
  <2>2. CASE ~(i =< Len(a))
    <3>1. i - Len(a) \in 1 .. Len(b) /\ Len(a) + (i - Len(a)) = i
      BY <1>2, <2>2
    <3> QED  BY <1>2, <1>4, <3>1 DEF RowsOf
  <2> QED  BY <2>1, <2>2
<1> QED  BY <1>1, <1>5, <1>6, <1>7 DEF RowsOf

\* The rows of a list of one.
LEMMA OneRow ==
  ASSUME NEW row \in Rows
  PROVE  <<row>> \in Seq(Rows) /\ RowsOf(<<row>>) = {row}
BY DEF RowsOf

\* The rows of a list of two.
LEMMA TwoRows ==
  ASSUME NEW a \in Rows, NEW b \in Rows
  PROVE  <<a, b>> \in Seq(Rows) /\ RowsOf(<<a, b>>) = {a, b}
<1>1. DOMAIN <<a, b>> = {1, 2}
  OBVIOUS
<1>2. RowsOf(<<a, b>>) = {<<a, b>>[i] : i \in {1, 2}}
  BY <1>1 DEF RowsOf
<1> QED  BY <1>2

\* No list, no row.
LEMMA NoRow == <<>> \in Seq(Rows) /\ RowsOf(<<>>) = {}
BY DEF RowsOf

\* A row is its section and its status, and tells both.
LEMMA RowType ==
  ASSUME NEW name \in Sections,
         NEW status \in {"PASS", "FAIL", "MANUAL", "SKIP", "INFO"}
  PROVE  /\ Row(name, status) \in Rows
         /\ \A other, st : Row(name, status) = Row(other, st) <=> name = other /\ status = st
BY DEF Row, Rows

\* A section adds exactly its rows.
LEMMA FailedAfter ==
  ASSUME report \in Seq(Rows), NEW rows \in Seq(Rows), report' = report \o rows, NEW name
  PROVE  Failed(name)' <=> Failed(name) \/ Row(name, "FAIL") \in RowsOf(rows)
<1>1. Failed(name) <=> Row(name, "FAIL") \in RowsOf(report)
  BY DEF Failed, RowsOf
<1>2. Failed(name)' <=> Row(name, "FAIL") \in RowsOf(report \o rows)
  BY DEF Failed, RowsOf, Row
<1> QED  BY <1>1, <1>2, RowsOfConcat

\* A section that reads some more sources and gets through.
LEMMA SectionStep ==
  ASSUME PlanInv, NEW rows \in Seq(Rows), NEW read,
         NEW name \in Sections, NEW next \in Sections,
         AddRows(name, rows, next),
         name # "6 agility", next # "7 rollback", next # "1 correctness",
         ReadBefore(next) = ReadBefore(name) \cup read,
         \A s \in read : /\ estate[s] # "broken"
                         /\ estate[s] = "bad" =>
                              \E n \in Sections : Row(n, "FAIL") \in RowsOf(rows),
         (\E n \in Sections : Row(n, "FAIL") \in RowsOf(rows)) =>
           \E s \in Sources : estate[s] = "bad"
  PROVE  PlanInv'
<1>1. /\ section = name /\ section' = next /\ report' = report \o rows
      /\ UNCHANGED <<drillVars, estate, drillJson, code>>
  BY DEF AddRows
<1>2. section \notin {"ended", "crashed"} /\ next \notin {"ended", "crashed", "report"}
  BY <1>1 DEF Sections
<1>3. report' \in Seq(Rows)
  BY <1>1, RowsOfConcat DEF PlanInv, ReportInv
<1>4. AnyFailed' <=> AnyFailed \/ \E n \in Sections : Row(n, "FAIL") \in RowsOf(rows)
  BY <1>1, FailedAfter DEF PlanInv, ReportInv, AnyFailed
<1>5. ReportInv'
  BY <1>1, <1>2, <1>3, <1>4 DEF PlanInv, ReportInv, drillVars
<1>6. DrillInv'
  BY <1>1, DrillStutter DEF PlanInv
<1> QED  BY <1>1, <1>2, <1>5, <1>6
         DEF PlanInv, DrillRowInv, JsonInv, CodeInv, drillVars, Sections

\* A check fails exactly on an answer that is not good.
LEMMA StatusFails ==
  ASSUME NEW answer
  PROVE  /\ Status(answer) \in {"PASS", "FAIL"}
         /\ Status(answer) = "FAIL" <=> answer # "good"
BY DEF Status

\* The row of a check fails exactly when the answer is not good.
LEMMA CheckRow ==
  ASSUME NEW name \in Sections, NEW answer
  PROVE  /\ Row(name, Status(answer)) \in Rows
         /\ \A n : Row(n, "FAIL") \in {Row(name, Status(answer))}
                     <=> n = name /\ answer # "good"
<1>1. Row(name, Status(answer)) \in Rows
  BY RowType, StatusFails
<1>2. \A n : Row(n, "FAIL") = Row(name, Status(answer)) <=> n = name /\ answer # "good"
  BY StatusFails DEF Row
<1> QED  BY <1>1, <1>2

\* Section 1 keeps the invariant of the plan.
LEMMA Section1Inv == ASSUME PlanInv, Section1  PROVE PlanInv'
<1> DEFINE row == Row("1 correctness", Status(estate["suites"]))
<1>1. /\ "1 correctness" \in Sections /\ "2 known-answer" \in Sections
      /\ ReadBefore("2 known-answer") = ReadBefore("1 correctness") \cup {"suites"}
  BY DEF Sections, ReadBefore
<1>2. /\ "suites" \in Sources /\ estate["suites"] \in {"good", "bad", "broken"}
  BY EstatesAssumption DEF PlanInv, Sources, Answers
<1>3. estate["suites"] # "broken" /\ AddRows("1 correctness", <<row>>, "2 known-answer")
  BY DEF Section1
<1>4. <<row>> \in Seq(Rows) /\ RowsOf(<<row>>) = {row}
  BY <1>1, RowType, StatusFails, OneRow
<1>5. (\E n \in Sections : Row(n, "FAIL") \in RowsOf(<<row>>)) <=> estate["suites"] # "good"
  BY <1>1, <1>4, CheckRow
<1> HIDE DEF row
<1> QED  BY <1>1, <1>2, <1>3, <1>4, <1>5, SectionStep

\* A section left to the operator fails nothing.
LEMMA ManualRows ==
  ASSUME NEW name \in Sections, NEW rows \in Seq(Rows)
  PROVE  /\ rows \o Manual(name) \in Seq(Rows)
         /\ \A n : Row(n, "FAIL") \in RowsOf(rows \o Manual(name))
                     <=> Row(n, "FAIL") \in RowsOf(rows)
<1>1. Manual(name) \in Seq(Rows) /\ RowsOf(Manual(name)) = {Row(name, "MANUAL")}
  BY RowType, OneRow DEF Manual
<1> QED  BY <1>1, RowsOfConcat, RowType

\* Section 2 keeps the invariant of the plan.
LEMMA Section2Inv == ASSUME PlanInv, Section2  PROVE PlanInv'
<1> DEFINE row == Row("2 known-answer", Status(estate["vectors"]))
           rows == <<row>> \o Manual("2 known-answer")
<1>1. /\ "2 known-answer" \in Sections /\ "3 interoperability" \in Sections
      /\ ReadBefore("3 interoperability") = ReadBefore("2 known-answer") \cup {"vectors"}
  BY DEF Sections, ReadBefore
<1>2. /\ "vectors" \in Sources /\ estate["vectors"] \in {"good", "bad", "broken"}
  BY EstatesAssumption DEF PlanInv, Sources, Answers
<1>3. estate["vectors"] # "broken" /\ AddRows("2 known-answer", rows, "3 interoperability")
  BY DEF Section2
<1>4. <<row>> \in Seq(Rows) /\ RowsOf(<<row>>) = {row}
  BY <1>1, RowType, StatusFails, OneRow
<1>5. /\ rows \in Seq(Rows)
      /\ (\E n \in Sections : Row(n, "FAIL") \in RowsOf(rows)) <=> estate["vectors"] # "good"
  <2>1. \A n : Row(n, "FAIL") \in {row} <=> n = "2 known-answer" /\ estate["vectors"] # "good"
    BY <1>1, CheckRow
  <2> HIDE DEF row
  <2> QED  BY <1>1, <1>4, <2>1, ManualRows
<1> HIDE DEF row, rows
<1> QED  BY <1>1, <1>2, <1>3, <1>5, SectionStep

\* A section that is skipped fails nothing.
LEMMA SkipRows ==
  ASSUME NEW name \in Sections
  PROVE  Skip(name) \in Seq(Rows) /\ \A n : Row(n, "FAIL") \notin RowsOf(Skip(name))
<1>1. Skip(name) \in Seq(Rows) /\ RowsOf(Skip(name)) = {Row(name, "SKIP")}
  BY RowType, OneRow DEF Skip
<1> QED  BY <1>1, RowType

\* Section 3 keeps the invariant of the plan.
LEMMA Section3Inv == ASSUME PlanInv, Section3  PROVE PlanInv'
<1> DEFINE name == "3 interoperability"
           row  == Row(name, Status(estate["interop"]))
           info == Row(name, "INFO")
           rows == IF estate["interop"] = "absent" THEN Skip(name) ELSE <<row, info>>
<1>1. /\ name \in Sections /\ "4 side channels" \in Sections
      /\ ReadBefore("4 side channels") = ReadBefore(name) \cup {"interop"}
  BY DEF Sections, ReadBefore
<1>2. /\ "interop" \in Sources /\ estate["interop"] \in {"good", "bad", "absent", "broken"}
  BY EstatesAssumption DEF PlanInv, Sources, Answers
<1>3. estate["interop"] # "broken" /\ AddRows(name, rows, "4 side channels")
  BY DEF Section3
<1>4. row \in Rows /\ info \in Rows
  BY <1>1, RowType, StatusFails
<1>5. <<row, info>> \in Seq(Rows) /\ RowsOf(<<row, info>>) = {row, info}
  <2> HIDE DEF row, info
  <2> QED  BY <1>4, TwoRows
<1>6. /\ rows \in Seq(Rows)
      /\ (\E n \in Sections : Row(n, "FAIL") \in RowsOf(rows))
            <=> estate["interop"] \notin {"good", "absent"}
  <2>1. \A n : Row(n, "FAIL") \in {row, info} <=> n = name /\ estate["interop"] # "good"
    <3>1. \A n : Row(n, "FAIL") \in {row} <=> n = name /\ estate["interop"] # "good"
      BY <1>1, CheckRow
    <3>2. \A n : Row(n, "FAIL") # info
      BY DEF Row
    <3> QED  BY <3>1, <3>2
  <2>2. CASE estate["interop"] = "absent"
    BY <2>2, <1>1, SkipRows
  <2>3. CASE estate["interop"] # "absent"
    <3>1. rows = <<row, info>>
      BY <2>3
    <3> HIDE DEF rows, row, info, name
    <3> QED  BY <3>1, <1>1, <1>5, <2>1, <2>3
  <2> QED  BY <2>2, <2>3
<1>7. name \notin {"6 agility"}
  OBVIOUS
<1> HIDE DEF row, rows, info, name
<1> QED  BY <1>1, <1>2, <1>3, <1>6, <1>7, SectionStep

\* Section 4 keeps the invariant of the plan.
LEMMA Section4Inv == ASSUME PlanInv, Section4  PROVE PlanInv'
<1> DEFINE name == "4 side channels"
           row  == Row(name, Status(estate["timing"]))
           rows == IF estate["timing"] = "absent" THEN Skip(name) ELSE <<row>> \o Manual(name)
<1>1. /\ name \in Sections /\ "5 performance" \in Sections
      /\ ReadBefore("5 performance") = ReadBefore(name) \cup {"timing"}
  BY DEF Sections, ReadBefore
<1>2. /\ "timing" \in Sources /\ estate["timing"] \in {"good", "bad", "absent", "broken"}
  BY EstatesAssumption DEF PlanInv, Sources, Answers
<1>3. estate["timing"] # "broken" /\ AddRows(name, rows, "5 performance")
  BY DEF Section4
<1>4. <<row>> \in Seq(Rows) /\ RowsOf(<<row>>) = {row}
  BY <1>1, RowType, StatusFails, OneRow
<1>5. /\ rows \in Seq(Rows)
      /\ (\E n \in Sections : Row(n, "FAIL") \in RowsOf(rows))
            <=> estate["timing"] \notin {"good", "absent"}
  <2>1. \A n : Row(n, "FAIL") \in {row} <=> n = name /\ estate["timing"] # "good"
    BY <1>1, CheckRow
  <2>2. CASE estate["timing"] = "absent"
    BY <2>2, <1>1, SkipRows
  <2>3. CASE estate["timing"] # "absent"
    <3>1. rows = <<row>> \o Manual(name)
      BY <2>3
    <3> HIDE DEF rows, row, name
    <3> QED  BY <3>1, <1>1, <1>4, <2>1, <2>3, ManualRows
  <2> QED  BY <2>2, <2>3
<1>6. name \notin {"6 agility"}
  OBVIOUS
<1> HIDE DEF row, rows, name
<1> QED  BY <1>1, <1>2, <1>3, <1>5, <1>6, SectionStep

\* The ratio of section 5 fails exactly on a source that is there and bad.
LEMMA RatioRows ==
  ASSUME NEW source
  PROVE  /\ Ratio(source) \in Seq(Rows)
         /\ \A n : Row(n, "FAIL") \in RowsOf(Ratio(source))
                     <=> n = "5 performance" /\ estate[source] \notin {"good", "absent"}
<1> DEFINE row == Row("5 performance", Status(estate[source]))
<1>0. "5 performance" \in Sections
  BY DEF Sections
<1>1. <<row>> \in Seq(Rows) /\ RowsOf(<<row>>) = {row}
  BY <1>0, RowType, StatusFails, OneRow
<1>2. \A n : Row(n, "FAIL") \in {row} <=> n = "5 performance" /\ estate[source] # "good"
  BY <1>0, CheckRow
<1>3. Ratio(source) = IF estate[source] = "absent" THEN <<>> ELSE <<row>>
  BY DEF Ratio
<1> HIDE DEF row
<1> QED  BY <1>1, <1>2, <1>3, NoRow

\* Section 5 keeps the invariant of the plan.
LEMMA Section5Inv == ASSUME PlanInv, Section5  PROVE PlanInv'
<1> DEFINE name == "5 performance"
           ratios == Ratio("loadtest") \o Ratio("signbench")
           rows == ratios \o Manual(name)
<1>1. /\ name \in Sections /\ "6 agility" \in Sections
      /\ ReadBefore("6 agility") = ReadBefore(name) \cup {"loadtest", "signbench"}
  BY DEF Sections, ReadBefore, Sources
<1>2. \A s \in {"loadtest", "signbench"} :
        s \in Sources /\ estate[s] \in {"good", "bad", "absent", "broken"}
  BY EstatesAssumption DEF PlanInv, Sources, Answers
<1>3. /\ \A s \in {"loadtest", "signbench"} : estate[s] # "broken"
      /\ AddRows(name, rows, "6 agility")
  BY DEF Section5
<1>4. /\ ratios \in Seq(Rows)
      /\ RowsOf(ratios) = RowsOf(Ratio("loadtest")) \cup RowsOf(Ratio("signbench"))
  <2>1. Ratio("loadtest") \in Seq(Rows) /\ Ratio("signbench") \in Seq(Rows)
    BY RatioRows
  <2> QED  BY <2>1, RowsOfConcat
<1>5. /\ rows \in Seq(Rows)
      /\ \A n : Row(n, "FAIL") \in RowsOf(rows) <=> Row(n, "FAIL") \in RowsOf(ratios)
  <2> HIDE DEF ratios
  <2> QED  BY <1>1, <1>4, ManualRows
<1>6. \A n : Row(n, "FAIL") \in RowsOf(rows) <=>
        /\ n = name
        /\ \E s \in {"loadtest", "signbench"} : estate[s] \notin {"good", "absent"}
  <2> HIDE DEF ratios, rows
  <2> QED  BY <1>4, <1>5, RatioRows
<1>7. name \notin {"6 agility"}
  OBVIOUS
<1> HIDE DEF ratios, rows, name
<1> QED  BY <1>1, <1>2, <1>3, <1>5, <1>6, <1>7, SectionStep, ZenonT(60)

\* A drill that is over passed if it reported, and left that in drill.json.
LEMMA DrillOver ==
  ASSUME DrillInv
  PROVE  /\ pc = "done" => Passed /\ restored /\ DrillCode = 0
         /\ pc = "aborted" => DrillCode = 1
BY DrillInvPromise DEF DrillKeepsItsPromise, Passed, DrillCode

\* A crashed section keeps the invariant of the plan.
LEMMA CrashInv == ASSUME PlanInv, NEW name, Crash(name)  PROVE PlanInv'
<1>1. /\ section' = "crashed" /\ code' = 1
      /\ UNCHANGED <<drillVars, estate, report, drillJson>>
  BY DEF Crash
<1>2. DrillInv'
  BY <1>1, DrillStutter DEF PlanInv
<1>3. AnyFailed' <=> AnyFailed
  BY <1>1 DEF AnyFailed, Failed, Row
<1> QED  BY <1>1, <1>2, <1>3
         DEF PlanInv, ReportInv, DrillRowInv, JsonInv, CodeInv, drillVars

\* A step of the drill inside section 6 keeps the invariant of the plan.
LEMMA DrillingInv == ASSUME PlanInv, Drilling  PROVE PlanInv'
<1>1. /\ section = "6 agility" /\ DrillNext /\ pc \notin {"done", "aborted"}
      /\ UNCHANGED <<estate, section, report, code>>
      /\ drillJson' = IF pc' # "done" THEN drillJson
                      ELSE [restored |-> IF restored' THEN "good" ELSE "bad", fresh |-> TRUE]
  BY DEF Drilling
<1>2. DrillInv'
  BY <1>1, DrillNextInv DEF PlanInv
<1>3. pc' = "done" => restored'
  BY <1>2 DEF DrillInv, Stage
<1>4. AnyFailed' <=> AnyFailed
  BY <1>1 DEF AnyFailed, Failed, Row
<1>5. ReportInv'
  BY <1>1, <1>4 DEF PlanInv, ReportInv
<1>6. JsonInv'
  BY <1>1, <1>3 DEF PlanInv, JsonInv
<1> QED  BY <1>1, <1>2, <1>4, <1>5, <1>6 DEF PlanInv, DrillRowInv, CodeInv

\* Section 6 keeps the invariant of the plan.
LEMMA Section6Inv == ASSUME PlanInv, Section6  PROVE PlanInv'
<1> DEFINE row == Row("6 agility", IF DrillCode = 0 THEN "PASS" ELSE "FAIL")
<1>1. /\ pc \in {"done", "aborted"} /\ section = "6 agility" /\ section' = "7 rollback"
      /\ report' = report \o <<row>> /\ UNCHANGED <<drillVars, estate, drillJson, code>>
  BY DEF Section6, AddRows
<1>2. "6 agility" \in Sections /\ ReadBefore("6 agility") = ReadBefore("7 rollback")
  BY DEF Sections, ReadBefore
<1>3. <<row>> \in Seq(Rows) /\ RowsOf(<<row>>) = {row}
  BY <1>2, RowType, OneRow
<1>4. \A n : Row(n, "FAIL") \in RowsOf(<<row>>) <=> n = "6 agility" /\ pc = "aborted"
  <2>1. DrillCode = 0 <=> pc = "done"
    <3>1. DrillInv
      BY DEF PlanInv
    <3>2. (pc = "done" => DrillCode = 0) /\ (pc = "aborted" => DrillCode = 1)
      BY <3>1, DrillOver
    <3>3. pc # "done" <=> pc = "aborted"
      BY <1>1
    <3>4. 0 # 1
      OBVIOUS
    <3> HIDE DEF row
    <3> QED  BY <3>2, <3>3, <3>4
  <2> QED  BY <1>1, <1>3, <2>1 DEF Row
<1> HIDE DEF row
<1>5. \A n : Failed(n)' <=> Failed(n) \/ (n = "6 agility" /\ pc = "aborted")
  BY <1>1, <1>3, <1>4, FailedAfter DEF PlanInv, ReportInv
<1>6. report' \in Seq(Rows) /\ pc' = pc
  BY <1>1, <1>3, RowsOfConcat DEF PlanInv, ReportInv, drillVars
<1>7. ReportInv'
  BY <1>1, <1>2, <1>5, <1>6 DEF PlanInv, ReportInv, AnyFailed
<1>8. DrillInv'
  BY <1>1, DrillStutter DEF PlanInv
<1>9. DrillRowInv'
  BY <1>1, <1>5, <1>6 DEF DrillRowInv
<1> QED  BY <1>1, <1>6, <1>7, <1>8, <1>9 DEF PlanInv, JsonInv, CodeInv, Sections

\* Section 7 keeps the invariant of the plan.
LEMMA Section7Inv == ASSUME PlanInv, Section7  PROVE PlanInv'
<1> DEFINE name == "7 rollback"
           row  == Row(name, Status(drillJson.restored))
           rows == IF drillJson = None THEN Manual(name) ELSE <<row>> \o Manual(name)
<1>1. /\ section = name /\ section' = "report" /\ report' = report \o rows
      /\ UNCHANGED <<drillVars, estate, drillJson, code>>
  BY DEF Section7, AddRows
<1>2. name \in Sections /\ ReadBefore(name) = ReadBefore("report")
  BY DEF Sections, ReadBefore
<1>3. \A n : Row(n, "FAIL") \in {row} <=> n = name /\ drillJson.restored # "good"
  BY <1>2, CheckRow
<1>4. <<row>> \in Seq(Rows) /\ RowsOf(<<row>>) = {row}
  BY <1>2, RowType, StatusFails, OneRow
<1>5. /\ rows \in Seq(Rows)
      /\ \A n : Row(n, "FAIL") \in RowsOf(rows) => n = name /\ drillJson.restored # "good"
  <2>1. Manual(name) \in Seq(Rows) /\ \A n : Row(n, "FAIL") \notin RowsOf(Manual(name))
    <3>1. Manual(name) \in Seq(Rows) /\ RowsOf(Manual(name)) = {Row(name, "MANUAL")}
      BY <1>2, RowType, OneRow DEF Manual
    <3> QED  BY <3>1 DEF Row
  <2>2. CASE drillJson = None
    BY <2>1, <2>2
  <2>3. CASE drillJson # None
    <3>1. rows = <<row>> \o Manual(name)
      BY <2>3
    <3> HIDE DEF rows, row, name
    <3> QED  BY <3>1, <1>2, <1>3, <1>4, ManualRows
  <2> QED  BY <2>2, <2>3
<1> HIDE DEF row, rows
<1>6. \A n : Failed(n)' => Failed(n) \/ (n = name /\ drillJson.restored # "good")
  BY <1>1, <1>5, FailedAfter DEF PlanInv, ReportInv
<1>7. \A n : Failed(n) => Failed(n)'
  BY <1>1, <1>5, FailedAfter DEF PlanInv, ReportInv
<1>8. report' \in Seq(Rows) /\ pc' = pc
  BY <1>1, <1>5, RowsOfConcat DEF PlanInv, ReportInv, drillVars
<1>9. drillJson.restored # "good" => pc = "aborted"
  <2>1. pc \in {"done", "aborted"}
    BY <1>1 DEF PlanInv, DrillRowInv
  <2>2. pc = "done" => drillJson.restored = "good"
    BY DEF PlanInv, JsonInv
  <2> QED  BY <2>1, <2>2
<1>10. ReportInv'
  BY <1>1, <1>2, <1>6, <1>7, <1>8, <1>9 DEF PlanInv, ReportInv, AnyFailed
<1>11. DrillInv'
  BY <1>1, DrillStutter DEF PlanInv
<1>12. DrillRowInv'
  BY <1>1, <1>7, <1>8 DEF PlanInv, DrillRowInv
<1> QED  BY <1>1, <1>8, <1>10, <1>11, <1>12 DEF PlanInv, JsonInv, CodeInv

\* The report, and the exit code taken from it, keep the invariant of the plan.
LEMMA ReportStepInv == ASSUME PlanInv, Report  PROVE PlanInv'
<1>1. /\ section = "report" /\ section' = "ended"
      /\ UNCHANGED <<drillVars, estate, report, drillJson>>
      /\ code' = IF AnyFailed THEN 1 ELSE 0
  BY DEF Report, AnyFailed
<1>2. \A n : Failed(n)' <=> Failed(n)
  BY <1>1 DEF Failed, Row
<1>3. AnyFailed' <=> AnyFailed
  BY <1>2 DEF AnyFailed
<1>4. DrillInv'
  BY <1>1, DrillStutter DEF PlanInv
<1>5. ReadBefore("report") = ReadBefore("ended")
  BY DEF ReadBefore
<1>6. ReportInv'
  BY <1>1, <1>3, <1>5 DEF PlanInv, ReportInv, drillVars
<1> QED  BY <1>1, <1>2, <1>3, <1>4, <1>6 DEF PlanInv, DrillRowInv, JsonInv, CodeInv, drillVars

\* A step of others keeps the invariant of the plan.
LEMMA PlanStutter == ASSUME PlanInv, UNCHANGED allVars  PROVE PlanInv'
<1>1. UNCHANGED <<drillVars, estate, section, report, drillJson, code>>
  BY DEF allVars, planVars
<1>2. \A n : Failed(n)' <=> Failed(n)
  BY <1>1 DEF Failed, Row
<1>3. DrillInv'
  BY <1>1, DrillStutter DEF PlanInv
<1> QED  BY <1>1, <1>2, <1>3
         DEF PlanInv, ReportInv, DrillRowInv, JsonInv, CodeInv, AnyFailed, drillVars

\* Every step of the plan keeps its invariant.
LEMMA PlanNextInv == PlanInv /\ [PlanNext]_allVars => PlanInv'
<1> SUFFICES ASSUME PlanInv, [PlanNext]_allVars  PROVE PlanInv'
  OBVIOUS
<1>1. CASE SectionFails \/ DrillTimesOut \/ Section7Fails
  BY <1>1, CrashInv DEF SectionFails, DrillTimesOut, Section7Fails
<1> QED  BY <1>1, Section1Inv, Section2Inv, Section3Inv, Section4Inv, Section5Inv, DrillingInv,
            Section6Inv, Section7Inv, ReportStepInv, PlanStutter DEF PlanNext, PlanEnded

\* A plan starts with no row.
LEMMA PlanInitInv == PlanInit => PlanInv
<1> SUFFICES ASSUME PlanInit  PROVE PlanInv
  OBVIOUS
<1>1. DrillInv /\ pc = "load"
  BY DrillInitInv DEF PlanInit, DrillInit
<1>2. report = <<>> /\ section = "1 correctness" /\ section \in Sections
  BY DEF PlanInit, Sections
<1>3. ~AnyFailed
  <2>1. DOMAIN report = {}
    <3>1. report = <<>>
      BY <1>2
    <3>2. DOMAIN <<>> = {}
      OBVIOUS
    <3> QED  BY <3>1, <3>2
  <2> QED  BY <2>1 DEF AnyFailed, Failed
<1>4. ReadBefore("1 correctness") = {}
  BY DEF ReadBefore
<1>5. report \in Seq(Rows)
  BY <1>2, NoRow
<1> QED  BY <1>1, <1>2, <1>3, <1>4, <1>5
         DEF PlanInit, PlanInv, ReportInv, DrillRowInv, JsonInv, CodeInv

\* With the invariant, what is reported is what the sections saw.
LEMMA PlanInvHonest == PlanInv => PlanIsHonest
<1> SUFFICES ASSUME PlanInv  PROVE PlanIsHonest
  OBVIOUS
<1>1. ASSUME code = 0
      PROVE  /\ DrillCode = 0 /\ drillJson.fresh
             /\ \A s \in Sources : estate[s] \in {"good", "absent"}
  <2>1. section = "ended" /\ ~AnyFailed
    BY <1>1 DEF PlanInv, CodeInv, Running
  <2>2. "6 agility" \in Sections
    BY DEF Sections
  <2>3. pc = "done"
    BY <2>1, <2>2 DEF PlanInv, DrillRowInv, AnyFailed
  <2>4. \A s \in Sources : estate[s] \notin {"broken", "bad"}
    BY <2>1 DEF PlanInv, ReportInv, ReadBefore
  <2>5. \A s \in Sources : estate[s] \in Answers
    BY EstatesAssumption DEF PlanInv
  <2> QED  BY <2>3, <2>4, <2>5, DrillOver DEF PlanInv, JsonInv, Answers
<1>2. ASSUME section = "ended", code = 1
      PROVE  pc = "aborted" \/ \E s \in Sources : estate[s] = "bad"
  BY <1>2 DEF PlanInv, CodeInv, ReportInv
<1>3. ASSUME section = "ended", ~drillJson.fresh  PROVE Failed("6 agility")
  <2>1. pc = "done" => drillJson.fresh
    BY DEF PlanInv, JsonInv
  <2>2. pc \in {"done", "aborted"} /\ (pc = "aborted" => Failed("6 agility"))
    BY <1>3 DEF PlanInv, DrillRowInv
  <2> QED  BY <1>3, <2>1, <2>2
<1> QED  BY <1>1, <1>2, <1>3 DEF PlanIsHonest

\* The exit code of the test plan: 0 only after a drill of this run that passed
\* and with every source good, 1 only for a reason, and never silent about a
\* drill.json that an older drill left.
THEOREM PlanHonesty == PlanSpec => []PlanIsHonest
BY PlanInitInv, PlanNextInv, PlanInvHonest, PTL DEF PlanSpec

\* The drill keeps its promise inside the plan too, which may time it out.
THEOREM DrillPromiseInPlan == PlanSpec => []DrillKeepsItsPromise
<1>1. PlanInv => DrillKeepsItsPromise
  BY DrillInvPromise DEF PlanInv
<1> QED  BY <1>1, PlanInitInv, PlanNextInv, PTL DEF PlanSpec
==============================================================================
