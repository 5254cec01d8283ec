---------------------------- MODULE EnvelopeProofs ----------------------------
(* Theorems about Envelope for every value of its constants. *)
EXTENDS Envelope, FiniteSetTheorems, TLAPS

\* A store with no object, no key and no operation under way.
LEMMA InductiveInit == Init => Inductive
  BY SizeAssumption, BoundsAssumption, FileAssumption
     DEF Init, Inductive, TypeOK, DeksInv, LoopInv, RetiredIsSafe, Objects, Deks

\* One step of make_dataset, rekey or shred, or an OSError in it.
LEMMA InductiveStep == Inductive /\ [Next]_vars => Inductive'
<1> SUFFICES ASSUME Inductive, [Next]_vars
             PROVE  Inductive'
  OBVIOUS
<1> USE SizeAssumption, BoundsAssumption, FileAssumption
    DEF Inductive, TypeOK, DeksInv, LoopInv, RetiredIsSafe, Objects, Deks,
        Header, call, Return, Raise, Advance, Goto, Fault
<1>1. ASSUME NEW k \in Keks, StartMake(k) \/ Shred(k)
      PROVE  Inductive'
  BY <1>1, SMTT(60) DEF StartMake, Shred
<1>2. ASSUME NEW k \in Keks, NEW n \in Keks, StartRekey(k, n)
      PROVE  Inductive'
  BY <1>2 DEF StartRekey
<1>3. CASE MakeHeader
  <2>1. /\ at \in Objects /\ new \in Keks
        /\ deks' = deks + 1 /\ deks' \in Deks /\ deks' \in 0 .. MaxDeks
        /\ hdr' = [hdr EXCEPT ![at] = [kid |-> new, dek |-> deks']]
        /\ retired' = retired \ {new}
        /\ pc' = "makeBody"
        /\ UNCHANGED <<body, shredded, at, old, new, faults>>
    BY <1>3 DEF MakeHeader
  <2>2. hdr'[at] = [kid |-> new, dek |-> deks'] /\ hdr'[at] \in Header
    BY <2>1
  <2>3. \A o \in Objects : o # at => hdr'[o] = hdr[o]
    BY <2>1
  <2>4. TypeOK'
    BY <2>1, <2>2
  <2>5. DeksInv'
    BY <1>3, <2>1, <2>2, <2>3 DEF MakeHeader
  <2>6. LoopInv' /\ RetiredIsSafe'
    BY <2>1, <2>2, <2>3
  <2>7. QED
    BY <2>4, <2>5, <2>6
<1>4. CASE MakeBody
  <2>1. /\ at \in Objects
        /\ deks \in Deks
        /\ hdr[at] \in Header /\ hdr[at].dek = deks
        /\ body' = [body EXCEPT ![at] = deks]
        /\ pc' = "makeHeader" /\ at' = at + 1
        /\ UNCHANGED <<hdr, shredded, old, new, deks, retired, faults>>
    BY <1>4 DEF MakeBody
  <2>2. TypeOK'
    <3>1. at' \in 1 .. Size + 1
      BY <2>1
    <3>2. body' \in [Objects -> Deks \cup {None, Torn}]
      BY <2>1
    <3>3. new \in Keks
      BY <1>4 DEF MakeBody
    <3>4. QED
      BY <2>1, <3>1, <3>2, <3>3
  <2>3. DeksInv'
    BY <1>4, <2>1 DEF MakeBody
  <2>4. QED
    BY <2>1, <2>2, <2>3
<1>5. CASE MakeRaises \/ MakeReturns
  BY <1>5 DEF MakeRaises, MakeReturns
<1>6. CASE MakeFails
  <2>1. /\ pc' = "idle" /\ at' = 1 /\ old' = None /\ new' = None
        /\ faults' \in 0 .. MaxFaults
        /\ UNCHANGED <<shredded, deks>>
    BY <1>6 DEF MakeFails
  <2>2. CASE pc = "makeHeader" /\ at =< Size
    <3>1. PICK h \in CutShort(new) \cup {hdr[at]} : hdr' = [hdr EXCEPT ![at] = h]
      BY <1>6, <2>2 DEF MakeFails
    <3>2. /\ at \in Objects /\ new \in Keks
          /\ retired' = retired \ {new} /\ UNCHANGED body
      BY <1>6, <2>2 DEF MakeFails
    <3>3. /\ h \in Header \cup {None, Torn}
          /\ h \in Header => h = hdr[at] \/ (h.kid = new /\ h.dek = Lost)
      BY <3>1, <3>2 DEF CutShort
    <3>4. \A o \in Objects : hdr'[o] = IF o = at THEN h ELSE hdr[o]
      BY <3>1, <3>2
    <3>5. TypeOK'
      BY <2>1, <3>1, <3>2, <3>3
    <3>6. QED
      BY <2>1, <3>2, <3>3, <3>4, <3>5
  <2>3. CASE pc = "makeBody"
    <3>1. PICK b \in {Torn, body[at]} : body' = [body EXCEPT ![at] = b]
      BY <1>6, <2>3 DEF MakeFails
    <3>2. UNCHANGED <<hdr, retired>> /\ at \in Objects
      BY <1>6, <2>3 DEF MakeFails
    <3>3. /\ b = Torn \/ b = body[at]
          /\ \A o \in Objects : body'[o] = IF o = at THEN b ELSE body[o]
      BY <3>1, <3>2
    <3>4. body' \in [Objects -> Deks \cup {None, Torn}]
      BY <3>1, <3>2
    <3>5. TypeOK'
      BY <2>1, <3>2, <3>4
    <3>6. QED
      BY <2>1, <3>2, <3>3, <3>5, SMTT(60)
  <2>4. QED
    BY <1>6, <2>2, <2>3 DEF MakeFails
<1>7. CASE Skip
  BY <1>7 DEF Skip, Skips
<1>8. CASE Rewrap
  BY <1>8 DEF Rewrap, Rewraps
<1>9. CASE Stat
  BY <1>9 DEF Stat
<1>10. CASE RekeyRaises \/ RekeyReturns
  BY <1>10 DEF RekeyRaises, RekeyReturns
<1>11. CASE RekeyFails
  <2>1. /\ pc' = "idle" /\ at' = 1 /\ old' = None /\ new' = None
        /\ faults' \in 0 .. MaxFaults
        /\ UNCHANGED <<body, shredded, deks>>
    BY <1>11 DEF RekeyFails
  <2>2. CASE UNCHANGED <<hdr, retired>>
    BY <2>1, <2>2
  <2>3. CASE ~UNCHANGED <<hdr, retired>>
    <3>1. /\ pc = "rekey" /\ at \in Objects /\ new \in Keks
          /\ retired' = retired \ {new}
      BY <1>11, <2>3 DEF RekeyFails
    <3>2. PICK h \in CutShort(new) : hdr' = [hdr EXCEPT ![at] = h]
      BY <1>11, <2>3 DEF RekeyFails
    <3>3. /\ h \in Header \cup {None, Torn}
          /\ h \in Header => h.kid = new /\ h.dek = Lost
      BY <3>1, <3>2 DEF CutShort
    <3>4. \A o \in Objects : hdr'[o] = IF o = at THEN h ELSE hdr[o]
      BY <3>1, <3>2
    <3>5. TypeOK'
      BY <2>1, <3>1, <3>2, <3>3
    <3>6. QED
      BY <2>1, <3>1, <3>3, <3>4, <3>5
  <2>4. QED
    BY <2>2, <2>3
<1>12. CASE UNCHANGED vars
  BY <1>12 DEF vars
<1>13. QED
  BY <1>1, <1>2, <1>3, <1>4, <1>5, <1>6, <1>7, <1>8, <1>9, <1>10, <1>11, <1>12
     DEF Next, Make, Rekey

\* Every reachable state is well typed, and a running loop is at an object.
THEOREM TypeCorrect == Spec => []TypeOK
<1>1. Inductive => TypeOK
  BY DEF Inductive
<1>2. QED
  BY <1>1, InductiveInit, InductiveStep, PTL DEF Spec

\* A KEK that a completed rekey replaced can be shredded: whatever calls and
\* errors came before, no header depends on it, until something is wrapped
\* under it again.
THEOREM ReplacedKekIsSafeToShred == Spec => []RetiredIsSafe
<1>1. Inductive => RetiredIsSafe
  BY DEF Inductive
<1>2. QED
  BY <1>1, InductiveInit, InductiveStep, PTL DEF Spec

------------------------------------------------------------------------------

\* What a step does to the objects: without an OSError it damages none, with
\* one at most the object the loop is at.
LEMMA DamageStep ==
  ASSUME Inductive, [Next]_vars
  PROVE  \/ faults' = faults /\ Damaged' \subseteq Damaged
         \/ faults' = faults + 1 /\ Damaged' \subseteq Damaged \cup {at}
<1> USE SizeAssumption, BoundsAssumption, FileAssumption
    DEF Inductive, TypeOK, DeksInv, Objects, Deks, Header, Damaged,
        call, Return, Raise, Advance, Goto, Fault
<1>1. ASSUME NEW k \in Keks, StartMake(k) \/ Shred(k)
      PROVE  faults' = faults /\ Damaged' \subseteq Damaged
  BY <1>1 DEF StartMake, Shred
<1>2. ASSUME NEW k \in Keks, NEW n \in Keks, StartRekey(k, n)
      PROVE  faults' = faults /\ Damaged' \subseteq Damaged
  BY <1>2 DEF StartRekey
<1>3. CASE MakeHeader
  BY <1>3 DEF MakeHeader
<1>4. CASE MakeBody
  BY <1>4 DEF MakeBody
<1>5. CASE MakeRaises \/ MakeReturns
  BY <1>5 DEF MakeRaises, MakeReturns
<1>6. CASE MakeFails
  BY <1>6, SMTT(60) DEF MakeFails, CutShort
<1>7. CASE Skip
  BY <1>7 DEF Skip
<1>8. CASE Rewrap
  BY <1>8 DEF Rewrap, Rewraps
<1>9. CASE Stat
  BY <1>9 DEF Stat
<1>10. CASE RekeyRaises \/ RekeyReturns
  BY <1>10 DEF RekeyRaises, RekeyReturns
<1>11. CASE RekeyFails
  BY <1>11 DEF RekeyFails
<1>12. CASE UNCHANGED vars
  BY <1>12 DEF vars
<1>13. QED
  BY <1>1, <1>2, <1>3, <1>4, <1>5, <1>6, <1>7, <1>8, <1>9, <1>10, <1>11, <1>12
     DEF Next, Make, Rekey

\* make_dataset and rekey lose at most one object per OSError, in data sets of
\* any size.
THEOREM LossBound == Spec => []OneLossPerFault
<1> DEFINE Bound == Inductive /\ OneLossPerFault
<1>1. Init => Bound
  <2>1. ASSUME Init PROVE Damaged = {}
    BY <2>1 DEF Init, Damaged
  <2>2. QED
    BY <2>1, InductiveInit, FS_EmptySet DEF Init, OneLossPerFault
<1>2. Bound /\ [Next]_vars => Bound'
  <2> SUFFICES ASSUME Bound, [Next]_vars
               PROVE  OneLossPerFault'
    BY InductiveStep
  <2>1. IsFiniteSet(Damaged) /\ Cardinality(Damaged) \in Nat
    <3>1. IsFiniteSet(Objects)
      BY SizeAssumption, FS_Interval DEF Objects
    <3>2. QED
      BY <3>1, FS_Subset, FS_CardinalityType DEF Damaged
  <2>2. faults \in Nat /\ Cardinality(Damaged) =< faults
    BY BoundsAssumption DEF Inductive, TypeOK, OneLossPerFault
  <2>3. CASE faults' = faults /\ Damaged' \subseteq Damaged
    <3>1. Cardinality(Damaged') =< Cardinality(Damaged) /\ Cardinality(Damaged') \in Nat
      BY <2>1, <2>3, FS_Subset, FS_CardinalityType
    <3>2. QED
      BY <2>1, <2>2, <2>3, <3>1 DEF OneLossPerFault
  <2>4. CASE faults' = faults + 1 /\ Damaged' \subseteq Damaged \cup {at}
    <3> DEFINE More == Damaged \cup {at}
    <3>1. IsFiniteSet(More) /\ Cardinality(More) =< Cardinality(Damaged) + 1
      BY <2>1, FS_AddElement
    <3>2. /\ Cardinality(Damaged') =< Cardinality(More)
          /\ Cardinality(Damaged') \in Nat /\ Cardinality(More) \in Nat
      BY <2>4, <3>1, FS_Subset, FS_CardinalityType
    <3> HIDE DEF More
    <3>3. QED
      BY <2>1, <2>2, <2>4, <3>1, <3>2 DEF OneLossPerFault
  <2>5. QED
    BY <2>3, <2>4, DamageStep
<1>3. QED
  BY <1>1, <1>2, PTL DEF Spec

\* Only encrypting an object anew makes it decryptable: what was shredded stays
\* shredded.
THEOREM ShreddedForGood == Spec => NeverRevived
<1> DEFINE Revives == \A o \in Objects :
                        Decryptable(o)' /\ ~Decryptable(o) => pc = "makeBody" /\ o = at
<1>1. ASSUME Inductive, [Next]_vars
      PROVE  Revives
  <2> SUFFICES ASSUME NEW o \in Objects, Decryptable(o)', ~Decryptable(o)
               PROVE  pc = "makeBody" /\ o = at
    OBVIOUS
  <2> USE <1>1, FileAssumption
      DEF Inductive, TypeOK, DeksInv, Header, Deks, Decryptable
  <2>1. ASSUME UNCHANGED <<hdr, body>>, shredded \subseteq shredded'
        PROVE  FALSE
    BY <2>1
  <2>2. ASSUME NEW k \in Keks, StartMake(k) \/ Shred(k)
        PROVE  FALSE
    BY <2>1, <2>2 DEF StartMake, Shred
  <2>3. ASSUME NEW k \in Keks, NEW n \in Keks, StartRekey(k, n)
        PROVE  FALSE
    BY <2>1, <2>3 DEF StartRekey
  <2>4. CASE MakeHeader
    BY <2>4 DEF MakeHeader
  <2>5. CASE MakeBody
    BY <2>5 DEF MakeBody
  <2>6. CASE MakeFails
    BY <2>6 DEF MakeFails, CutShort
  <2>7. CASE Rewrap
    BY <2>7 DEF Rewrap, Rewraps
  <2>8. CASE RekeyFails
    BY <2>8 DEF RekeyFails, CutShort
  <2>9. CASE MakeRaises \/ MakeReturns \/ Skip \/ Stat \/ RekeyRaises \/ RekeyReturns
    BY <2>1, <2>9 DEF MakeRaises, MakeReturns, Skip, Stat, RekeyRaises, RekeyReturns
  <2>10. CASE UNCHANGED vars
    BY <2>1, <2>10 DEF vars
  <2>11. QED
    BY <2>2, <2>3, <2>4, <2>5, <2>6, <2>7, <2>8, <2>9, <2>10 DEF Next, Make, Rekey
<1>2. Spec => []Inductive
  BY InductiveInit, InductiveStep, PTL DEF Spec
<1>3. QED
  BY <1>1, <1>2, PTL DEF Spec, NeverRevived

------------------------------------------------------------------------------
(* The refinement of KeyedStore.                                            *)

\* What make_dataset knows between the header and the body of an object.
LEMMA WritingStep == Inductive /\ WritingInv /\ [Next]_vars => WritingInv'
<1> SUFFICES ASSUME Inductive, WritingInv, [Next]_vars
             PROVE  WritingInv'
  OBVIOUS
<1> USE SizeAssumption, BoundsAssumption, FileAssumption
    DEF Inductive, TypeOK, DeksInv, WritingInv, Objects, Deks, Header, call, Return, Raise,
        Advance, Goto
<1>1. CASE MakeHeader
  <2>1. /\ at \in Objects /\ new \notin shredded
        /\ deks \in Nat /\ deks' = deks + 1
        /\ hdr' = [hdr EXCEPT ![at] = [kid |-> new, dek |-> deks']]
        /\ UNCHANGED <<body, shredded, at, new>>
    BY <1>1 DEF MakeHeader
  <2>2. hdr'[at].kid = new
    BY <2>1
  <2>3. body[at] \in Deks => body[at] < deks'
    BY <2>1
  <2> QED  BY <2>1, <2>2, <2>3
<1>2. CASE UNCHANGED vars
  BY <1>2 DEF vars
<1>3. CASE pc' # "makeBody"
  BY <1>3
<1>4. MakeHeader \/ UNCHANGED vars \/ pc' # "makeBody"
  BY DEF Next, Make, Rekey, StartMake, StartRekey, Shred, MakeBody, MakeRaises, MakeFails,
         MakeReturns, Skip, Rewrap, Stat, RekeyRaises, RekeyFails, RekeyReturns
<1> QED  BY <1>1, <1>2, <1>3, <1>4

\* What the abstract store sees of the concrete one.
Opens == [o \in Objects |-> OpenedBy(o)]
Writing == IF pc = "makeBody" THEN at ELSE None

\* A step that touches the files of one object changes what opens that object only.
LEMMA OthersStay ==
  ASSUME NEW o \in Objects, NEW k \in Keks \cup {None},
         \A p \in Objects : p # o => hdr'[p] = hdr[p] /\ body'[p] = body[p],
         OpenedBy(o)' = k
  PROVE  Opens' = [Opens EXCEPT ![o] = k]
  BY DEF Opens, OpenedBy

\* The envelope-encrypted data set implements the keyed store: MakeHeader begins an
\* object and MakeBody completes it, Rewrap moves one, a rekey that returns retires
\* the KEK it replaced, and every other step without an OSError changes nothing the
\* caller was promised.
THEOREM Refinement == Spec => ImplementsKeyedStore
<1>1. Init => Store!Init
  BY FileAssumption DEF Init, Store!Init, OpenedBy, Header
<1>2. ASSUME Inductive, WritingInv, [Next]_vars
      PROVE  [Store!Next]_<<Opens, shredded, retired, Writing, faults>>
  <2> USE <1>2, SizeAssumption, BoundsAssumption, FileAssumption
      DEF Inductive, TypeOK, DeksInv, LoopInv, WritingInv, Objects, Deks, Header, call,
          Return, Raise, Advance, Goto, Fault
  <2>1. CASE MakeHeader
    <3>1. /\ at \in Objects /\ new \in Keks /\ new \notin shredded
          /\ pc = "makeHeader" /\ pc' = "makeBody" /\ at' = at
          /\ hdr' = [hdr EXCEPT ![at] = [kid |-> new, dek |-> deks']]
          /\ deks' = deks + 1 /\ retired' = retired \ {new}
          /\ UNCHANGED <<body, shredded, faults>>
      BY <2>1 DEF MakeHeader
    <3>2. PICK o \in Objects : o = at
      BY <3>1
    <3>3. hdr'[o] = [kid |-> new, dek |-> deks'] /\ deks' # body'[o]
      BY <3>1, <3>2
    <3>6. OpenedBy(o)' = None
      BY <3>3 DEF OpenedBy
    <3>7. Opens' = [Opens EXCEPT ![o] = None]
      BY <3>1, <3>2, <3>6, OthersStay
    <3>4. Writing = None /\ Writing' = at
      BY <3>1 DEF Writing
    <3>5. Store!Begin(at, new)
      BY <3>1, <3>2, <3>4, <3>7 DEF Store!Begin, Opens, Writing
    <3> QED  BY <3>1, <3>5 DEF Store!Next
  <2>2. CASE MakeBody
    <3>1. /\ at \in Objects /\ new \in Keks
          /\ pc = "makeBody" /\ pc' = "makeHeader"
          /\ body' = [body EXCEPT ![at] = deks]
          /\ UNCHANGED <<hdr, shredded, retired, faults>>
      BY <2>2 DEF MakeBody
    <3>2. new \notin shredded \cup retired
      BY <3>1 DEF RetiredIsSafe
    <3>3. PICK o \in Objects : o = at
      BY <3>1
    <3>7. hdr'[o] \in Header /\ hdr'[o].kid = new /\ hdr'[o].dek = body'[o]
      BY <3>1, <3>3
    <3>8. OpenedBy(o)' = new
      BY <3>7 DEF OpenedBy
    <3>4. Opens' = [Opens EXCEPT ![at] = new]
      BY <3>1, <3>3, <3>8, OthersStay
    <3>5. Writing = at /\ Writing' = None
      BY <3>1 DEF Writing
    <3>6. Store!Complete(new)
      BY <3>1, <3>2, <3>4, <3>5 DEF Store!Complete, Opens, Writing
    <3> QED  BY <3>1, <3>6 DEF Store!Next
  <2>3. CASE Rewrap
    <3>1. /\ at \in Objects /\ old \in Keks /\ new \in Keks
          /\ hdr[at] \in Header /\ hdr[at].kid = old
          /\ {old, new} \cap shredded = {}
          /\ pc = "rekey" /\ pc' = "stat"
          /\ hdr' = [hdr EXCEPT ![at] = [kid |-> new, dek |-> hdr[at].dek]]
          /\ retired' = retired \ {new}
          /\ UNCHANGED <<body, shredded, faults>>
      BY <2>3 DEF Rewrap, Rewraps
    <3>2. Writing = None /\ Writing' = None
      BY <3>1 DEF Writing
    <3>5. PICK o \in Objects : o = at
      BY <3>1
    <3>6. /\ hdr'[o] \in Header /\ hdr'[o].kid = new /\ hdr'[o].dek = hdr[o].dek
          /\ body'[o] = body[o]
      BY <3>1, <3>5
    <3>3. CASE hdr[at].dek = body[at]
      <4>1. Opens[at] = old
        BY <3>1, <3>3 DEF Opens, OpenedBy
      <4>4. OpenedBy(o)' = new
        BY <3>3, <3>5, <3>6 DEF OpenedBy
      <4>2. Opens' = [Opens EXCEPT ![at] = new]
        BY <3>1, <3>5, <4>4, OthersStay
      <4>3. Store!Move(at, old, new)
        BY <3>1, <3>2, <4>1, <4>2 DEF Store!Move, Opens, Writing
      <4> QED  BY <3>1, <4>3 DEF Store!Next
    <3>4. CASE hdr[at].dek # body[at]
      <4>1. OpenedBy(o)' = None /\ OpenedBy(o) = None
        BY <3>4, <3>5, <3>6 DEF OpenedBy
      <4>4. \A p \in Objects : p # o => hdr'[p] = hdr[p] /\ body'[p] = body[p]
        BY <3>1, <3>5
      <4>2. Opens' = Opens
        BY <4>1, <4>4 DEF Opens, OpenedBy
      <4>3. Store!MoveNothing(new)
        BY <3>1, <3>2, <4>2 DEF Store!MoveNothing, Opens, Writing
      <4> QED  BY <3>1, <4>3 DEF Store!Next
    <3> QED  BY <3>3, <3>4
  <2>4. CASE RekeyReturns
    <3>1. /\ pc = "rekey" /\ pc' = "idle" /\ old \in Keks
          /\ old # new => \A o \in Objects : hdr[o] \in Header => hdr[o].kid # old
          /\ retired' = IF old = new THEN retired ELSE retired \cup {old}
          /\ UNCHANGED <<hdr, body, shredded, faults>>
      BY <2>4 DEF RekeyReturns
    <3>2. Opens' = Opens /\ Writing = None /\ Writing' = None
      BY <3>1 DEF Opens, OpenedBy, Writing
    <3>3. CASE old = new
      BY <3>1, <3>2, <3>3
    <3>4. CASE old # new
      <4>1. \A o \in Objects : Opens[o] # old
        BY <3>1, <3>4 DEF Opens, OpenedBy
      <4>2. Store!Retire(old)
        BY <3>1, <3>2, <3>4, <4>1 DEF Store!Retire, Opens, Writing
      <4> QED  BY <3>1, <4>2 DEF Store!Next
    <3> QED  BY <3>3, <3>4
  <2>5. ASSUME NEW k \in Keks, Shred(k)
        PROVE  Store!Next
    <3>1. Opens' = Opens /\ Writing = None /\ Writing' = None
      BY <2>5 DEF Shred, Opens, OpenedBy, Writing
    <3>2. Store!Shred(k)
      BY <2>5, <3>1 DEF Shred, Store!Shred, Opens, Writing
    <3> QED  BY <3>2 DEF Store!Next
  <2>6. CASE MakeFails \/ RekeyFails
    <3>1. /\ faults' = faults + 1 /\ Writing' = None /\ UNCHANGED shredded
      BY <2>6 DEF MakeFails, RekeyFails, Writing
    <3>2. UNCHANGED Opens \/ \E o \in Objects : Opens' = [Opens EXCEPT ![o] = None]
      <4>1. CASE UNCHANGED <<hdr, body>>
        BY <4>1 DEF Opens, OpenedBy
      <4>2. CASE pc # "makeBody" /\ ~UNCHANGED <<hdr, body>>
        <5>1. at \in Objects /\ new \in Keks /\ UNCHANGED body
          BY <2>6, <4>2 DEF MakeFails, RekeyFails
        <5>2. PICK h \in CutShort(new) \cup {hdr[at]} : hdr' = [hdr EXCEPT ![at] = h]
          BY <2>6, <4>2 DEF MakeFails, RekeyFails
        <5>3. h \in CutShort(new)
          BY <4>2, <5>1, <5>2
        <5>4. PICK o \in Objects : o = at
          BY <5>1
        <5>5. hdr'[o] = Torn \/ hdr'[o].dek = Lost
          BY <5>2, <5>3, <5>4 DEF CutShort
        <5>6. body'[o] # Lost
          BY <5>1
        <5>7. OpenedBy(o)' = None
          BY <5>5, <5>6 DEF OpenedBy
        <5> QED  BY <5>1, <5>2, <5>4, <5>7, OthersStay
      <4>3. CASE pc = "makeBody"
        <5>1. at \in Objects /\ UNCHANGED hdr
          BY <2>6, <4>3 DEF MakeFails, RekeyFails
        <5>2. PICK b \in {Torn, body[at]} : body' = [body EXCEPT ![at] = b]
          BY <2>6, <4>3 DEF MakeFails, RekeyFails
        <5>3. PICK o \in Objects : o = at
          BY <5>1
        <5>4. hdr'[o].dek = deks /\ body'[o] # deks
          BY <4>3, <5>1, <5>2, <5>3
        <5>5. OpenedBy(o)' = None
          BY <5>4 DEF OpenedBy
        <5> QED  BY <5>1, <5>2, <5>3, <5>5, OthersStay
      <4> QED  BY <4>1, <4>2, <4>3
    <3>3. UNCHANGED retired \/ \E n \in Keks \ shredded : retired' = retired \ {n}
      BY <2>6 DEF MakeFails, RekeyFails, Rewraps
    <3>4. Store!Fail
      BY <3>1, <3>2, <3>3 DEF Store!Fail, Opens, Writing
    <3> QED  BY <3>4 DEF Store!Next
  <2>7. ASSUME \/ \E k, n \in Keks : StartMake(k) \/ StartRekey(k, n)
               \/ MakeRaises \/ MakeReturns \/ Skip \/ Stat \/ RekeyRaises \/ UNCHANGED vars
        PROVE  UNCHANGED <<Opens, shredded, retired, Writing, faults>>
    <3>1. UNCHANGED <<hdr, body, shredded, retired, faults>>
      BY <2>7 DEF StartMake, StartRekey, MakeRaises, MakeReturns, Skip, Stat, RekeyRaises, vars
    <3>2. UNCHANGED Writing
      BY <2>7 DEF StartMake, StartRekey, MakeRaises, MakeReturns, Skip, Stat, RekeyRaises, vars,
                  Writing
    <3> QED  BY <3>1, <3>2 DEF Opens, OpenedBy
  <2> QED
    BY <2>1, <2>2, <2>3, <2>4, <2>5, <2>6, <2>7 DEF Next, Make, Rekey
<1>3. Init => WritingInv
  BY DEF Init, WritingInv
<1>4. Spec => [](Inductive /\ WritingInv)
  BY InductiveInit, InductiveStep, WritingStep, <1>3, PTL DEF Spec
<1> QED
  BY <1>1, <1>2, <1>4, PTL DEF Spec, ImplementsKeyedStore, Store!Spec, Store!vars, Opens, Writing
==============================================================================
