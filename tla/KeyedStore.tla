------------------------------ MODULE KeyedStore ------------------------------
(***************************************************************************)
(* What an envelope-encrypted data set promises its caller: each object is *)
(* opened by one KEK or by none; it moves from KEK to KEK without being    *)
(* encrypted anew and only while both of them exist; a KEK is given up     *)
(* when nothing depends on it, so that destroying it loses nothing; and an *)
(* OSError costs at most one object.  How headers, bodies and DEKs achieve *)
(* that is the business of Envelope.                                       *)
(***************************************************************************)
EXTENDS Integers

CONSTANTS Objects,
          Keks,     \* key-encryption keys
          None      \* no KEK opens the object; no object is being written

VARIABLES opens,     \* opens[o]: the KEK whose DEK opens object o
          shredded,  \* KEKs destroyed
          retired,   \* KEKs given up by a rekey and not used since
          writing,   \* the object that is being encrypted anew
          failures   \* OSErrors so far

vars == <<opens, shredded, retired, writing, failures>>

Init == /\ opens = [o \in Objects |-> None]
        /\ shredded = {} /\ retired = {}
        /\ writing = None
        /\ failures = 0

\* An object is replaced: until its body is written nothing opens it.
Begin(o, k) == /\ writing = None /\ k \notin shredded
               /\ writing' = o
               /\ opens' = [opens EXCEPT ![o] = None]
               /\ retired' = retired \ {k}
               /\ UNCHANGED <<shredded, failures>>

Complete(k) == /\ writing \in Objects /\ k \notin shredded \cup retired
               /\ opens' = [opens EXCEPT ![writing] = k]
               /\ writing' = None
               /\ UNCHANGED <<shredded, retired, failures>>

\* One object is re-wrapped.
Move(o, k, n) == /\ writing = None /\ opens[o] = k
                 /\ {k, n} \cap shredded = {}
                 /\ opens' = [opens EXCEPT ![o] = n]
                 /\ retired' = retired \ {n}
                 /\ UNCHANGED <<shredded, writing, failures>>

\* A header that opens nothing is re-wrapped all the same.
MoveNothing(n) == /\ writing = None /\ n \notin shredded
                  /\ retired' = retired \ {n}
                  /\ UNCHANGED <<opens, shredded, writing, failures>>

Retire(k) == /\ writing = None /\ \A o \in Objects : opens[o] # k
             /\ retired' = retired \cup {k}
             /\ UNCHANGED <<opens, shredded, writing, failures>>

Shred(k) == /\ writing = None
            /\ shredded' = shredded \cup {k}
            /\ UNCHANGED <<opens, retired, writing, failures>>

\* An OSError ends the call: no object is lost, or one.
Fail == /\ failures' = failures + 1
        /\ writing' = None
        /\ UNCHANGED opens \/ \E o \in Objects : opens' = [opens EXCEPT ![o] = None]
        /\ UNCHANGED retired \/ \E n \in Keks \ shredded : retired' = retired \ {n}
        /\ UNCHANGED shredded

Next == \/ \E o \in Objects, k \in Keks : Begin(o, k)
        \/ \E o \in Objects, k, n \in Keks : Move(o, k, n)
        \/ \E k \in Keks : Complete(k) \/ MoveNothing(k) \/ Retire(k) \/ Shred(k)
        \/ Fail

Spec == Init /\ [][Next]_vars
==============================================================================
