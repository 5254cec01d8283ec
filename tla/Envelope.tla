------------------------------- MODULE Envelope -------------------------------
(***************************************************************************)
(* labs/ch09/solution/envelope.py: a data set of envelope-encrypted        *)
(* objects, each a header file (KEK id and wrapped DEK) and a body file.   *)
(* One thread makes data sets, re-keys them and shreds KEKs; any read,     *)
(* write or stat may raise OSError.  KEKs live in the memory of the        *)
(* process, so nothing is said about what survives it.                     *)
(***************************************************************************)
EXTENDS Integers, FiniteSets

CONSTANTS
  Size,       \* objects of the data set, in the order of `paths`
  Keks,       \* key-encryption keys, one kid each
  None,       \* no file, no KEK
  Torn,       \* a file cut short by a failed write
  Lost,       \* the DEK of a header cut short after its meta part
  MaxDeks,    \* bound on the data-encryption keys generated by whole data sets
  MaxFaults   \* bound on OSErrors

ASSUME SizeAssumption == Size \in Nat
ASSUME BoundsAssumption == MaxDeks \in Nat /\ MaxFaults \in Nat

VARIABLES
  hdr,        \* name.hdr of each object
  body,       \* name.bin of each object: the DEK it is encrypted under
  shredded,   \* KEKs destroyed
  pc,         \* between calls, or the next step of the running one
  at,         \* the object of the loop
  old, new,   \* the KEKs of the running call
  deks,       \* DEKs generated so far
  retired,    \* history: KEKs a completed rekey replaced and nobody wrapped under since
  faults      \* OSErrors so far

call == <<pc, at, old, new>>
vars == <<hdr, body, shredded, call, deks, retired, faults>>

Objects == 1 .. Size
Deks    == Nat \ {0}
Header  == [kid : Keks, dek : Deks \cup {Lost}]

ASSUME FileAssumption == /\ None \notin Header \cup Nat \cup Keks \cup {Torn, Lost}
                         /\ Torn \notin Header \cup Nat \cup {Lost}
                         /\ Lost \notin Nat

Init == /\ hdr = [o \in Objects |-> None]
        /\ body = [o \in Objects |-> None]
        /\ shredded = {}
        /\ pc = "idle" /\ at = 1 /\ old = None /\ new = None
        /\ deks = 0
        /\ retired = {}
        /\ faults = 0

Fault == faults < MaxFaults /\ faults' = faults + 1

Return   == pc' = "idle" /\ at' = 1 /\ old' = None /\ new' = None
Raise    == Return
Advance(next) == pc' = next /\ at' = at + 1 /\ UNCHANGED <<old, new>>
Goto(next)    == pc' = next /\ UNCHANGED <<at, old, new>>

\* What a failed write_bytes of a header under k leaves: the meta part may
\* have reached the file or not.
CutShort(k) == {Torn, [kid |-> k, dek |-> Lost]}

\* decrypt_object with the KEK the header names: the KEK exists, the DEK
\* unwraps and opens the body.
Decryptable(o) == /\ hdr[o] \in Header
                  /\ hdr[o].kid \notin shredded
                  /\ hdr[o].dek = body[o]

------------------------------------------------------------------------------
(* make_dataset: per object the header, then the body. *)

StartMake(k) ==
  /\ pc = "idle"
  /\ deks + Size =< MaxDeks
  /\ pc' = "makeHeader" /\ at' = 1 /\ old' = None /\ new' = k
  /\ UNCHANGED <<hdr, body, shredded, deks, retired, faults>>

MakeHeader ==
  /\ pc = "makeHeader" /\ at =< Size
  /\ new \notin shredded
  /\ deks' = deks + 1
  /\ hdr' = [hdr EXCEPT ![at] = [kid |-> new, dek |-> deks']]
  /\ retired' = retired \ {new}
  /\ Goto("makeBody")
  /\ UNCHANGED <<body, shredded, faults>>

MakeBody ==
  /\ pc = "makeBody"
  /\ body' = [body EXCEPT ![at] = deks]
  /\ Advance("makeHeader")
  /\ UNCHANGED <<hdr, shredded, deks, retired, faults>>

\* wrap_dek under a shredded KEK: ValueError before anything is written.
MakeRaises ==
  /\ pc = "makeHeader" /\ at =< Size
  /\ new \in shredded
  /\ Raise
  /\ UNCHANGED <<hdr, body, shredded, deks, retired, faults>>

MakeFails ==
  /\ Fault
  /\ \/ /\ pc = "makeHeader" /\ at =< Size /\ new \notin shredded
        /\ \E h \in CutShort(new) \cup {hdr[at]} : hdr' = [hdr EXCEPT ![at] = h]
        /\ retired' = retired \ {new}
        /\ UNCHANGED body
     \/ /\ pc = "makeBody"
        /\ \E b \in {Torn, body[at]} : body' = [body EXCEPT ![at] = b]
        /\ UNCHANGED <<hdr, retired>>
  /\ Raise
  /\ UNCHANGED <<shredded, deks>>

MakeReturns ==
  /\ pc = "makeHeader" /\ at > Size
  /\ Return
  /\ UNCHANGED <<hdr, body, shredded, deks, retired, faults>>

------------------------------------------------------------------------------
(* rekey: the paths are the header files there are. *)

StartRekey(k, n) ==
  /\ pc = "idle"
  /\ pc' = "rekey" /\ at' = 1 /\ old' = k /\ new' = n
  /\ UNCHANGED <<hdr, body, shredded, deks, retired, faults>>

\* Mutant of Skips: the kid is not looked at, so that a second call fails on
\* the objects the first one moved.
SkipsNothing == hdr[at] = None

\* Not in the list, or wrapped under another KEK.
Skips == hdr[at] = None \/ (hdr[at] \in Header /\ hdr[at].kid # old)

\* Mutant of Rewraps: a shredded KEK still unwraps.
RewrapsShredded == /\ hdr[at] \in Header
                   /\ hdr[at].kid = old
                   /\ hdr[at].dek # Lost
                   /\ new \notin shredded

\* The header parses, the DEK unwraps and wraps again.
Rewraps == /\ hdr[at] \in Header
           /\ hdr[at].kid = old
           /\ hdr[at].dek # Lost
           /\ old \notin shredded /\ new \notin shredded

\* Mutant of Skip: the loop ends at the first object under another KEK.
SkipTheRest ==
  /\ pc = "rekey" /\ at =< Size
  /\ Skips
  /\ pc' = "rekey" /\ at' = Size + 1 /\ UNCHANGED <<old, new>>
  /\ UNCHANGED <<hdr, body, shredded, deks, retired, faults>>

Skip ==
  /\ pc = "rekey" /\ at =< Size
  /\ Skips
  /\ Advance("rekey")
  /\ UNCHANGED <<hdr, body, shredded, deks, retired, faults>>

\* Mutant of Rewrap: the header gets a DEK of its own.
RewrapNewDek ==
  /\ pc = "rekey" /\ at =< Size
  /\ Rewraps
  /\ hdr' = [hdr EXCEPT ![at] = [kid |-> new, dek |-> deks + 1]]
  /\ retired' = retired \ {new}
  /\ Goto("stat")
  /\ UNCHANGED <<body, shredded, deks, faults>>

Rewrap ==
  /\ pc = "rekey" /\ at =< Size
  /\ Rewraps
  /\ hdr' = [hdr EXCEPT ![at] = [kid |-> new, dek |-> hdr[at].dek]]
  /\ retired' = retired \ {new}
  /\ Goto("stat")
  /\ UNCHANGED <<body, shredded, deks, faults>>

\* The size of the body is read after the header is rewritten.
Stat ==
  /\ pc = "stat"
  /\ IF body[at] = None THEN Raise ELSE Advance("rekey")
  /\ UNCHANGED <<hdr, body, shredded, deks, retired, faults>>

\* ValueError, ShreddedKey or InvalidTag: the objects from here on keep their
\* headers.
RekeyRaises ==
  /\ pc = "rekey" /\ at =< Size
  /\ ~Skips /\ ~Rewraps
  /\ Raise
  /\ UNCHANGED <<hdr, body, shredded, deks, retired, faults>>

RekeyFails ==
  /\ Fault
  /\ \/ /\ pc = "stat" \/ (pc = "rekey" /\ at =< Size /\ hdr[at] # None)
        /\ UNCHANGED <<hdr, retired>>
     \/ /\ pc = "rekey" /\ at =< Size /\ Rewraps
        /\ \E h \in CutShort(new) : hdr' = [hdr EXCEPT ![at] = h]
        /\ retired' = retired \ {new}
  /\ Raise
  /\ UNCHANGED <<body, shredded, deks>>

RekeyReturns ==
  /\ pc = "rekey" /\ at > Size
  /\ retired' = IF old = new THEN retired ELSE retired \cup {old}
  /\ Return
  /\ UNCHANGED <<hdr, body, shredded, deks, faults>>

Shred(k) ==
  /\ pc = "idle"
  /\ shredded' = shredded \cup {k}
  /\ UNCHANGED <<hdr, body, call, deks, retired, faults>>

Make == MakeHeader \/ MakeBody \/ MakeRaises \/ MakeFails \/ MakeReturns

Rekey == Skip \/ Rewrap \/ Stat \/ RekeyRaises \/ RekeyFails \/ RekeyReturns

Next == \/ \E k \in Keks : StartMake(k) \/ Shred(k)
        \/ \E k, n \in Keks : StartRekey(k, n)
        \/ Make \/ Rekey

Spec == Init /\ [][Next]_vars

\* The thread runs the call it is in to its end.
FairSpec == Spec /\ WF_vars(Make \/ Rekey)

------------------------------------------------------------------------------
(* Properties *)

\* Every variable stays in its type, and a running loop is at an object.
TypeOK == /\ hdr \in [Objects -> Header \cup {None, Torn}]
          /\ body \in [Objects -> Deks \cup {None, Torn}]
          /\ shredded \subseteq Keks /\ retired \subseteq Keks
          /\ pc \in {"idle", "makeHeader", "makeBody", "rekey", "stat"}
          /\ at \in 1 .. Size + 1
          /\ pc \in {"makeBody", "stat"} => at \in Objects
          /\ old \in Keks \cup {None}
          /\ new \in Keks \cup {None}
          /\ pc # "idle" => new \in Keks
          /\ deks \in 0 .. MaxDeks
          /\ faults \in 0 .. MaxFaults

\* Objects that no KEK opens any more, or never did, whatever was shredded;
\* the one make_dataset is writing at the moment is not one of them.
Damaged == {o \in Objects : /\ hdr[o] # None
                            /\ ~(hdr[o] \in Header /\ hdr[o].dek = body[o])
                            /\ ~(pc = "makeBody" /\ o = at)}

\* make_dataset and rekey lose at most one object per OSError, although both
\* files are overwritten in place and rekey may be called, fail and be called
\* again in any order: a rewrap carries over the DEK the body needs.
OneLossPerFault == Cardinality(Damaged) =< faults

\* After a rekey that returned, no object depends on the replaced KEK:
\* shredding it loses nothing.
RetiredIsSafe == \A o \in Objects : hdr[o] \in Header => hdr[o].kid \notin retired

\* To its caller the data set is a map from objects to the KEK whose DEK opens
\* their body.
OpenedBy(o) == IF hdr[o] \in Header /\ hdr[o].dek = body[o] THEN hdr[o].kid ELSE None

Store == INSTANCE KeyedStore WITH opens    <- [o \in Objects |-> OpenedBy(o)],
                                  writing  <- IF pc = "makeBody" THEN at ELSE None,
                                  failures <- faults

\* Header by header and file by file, with OSErrors at every step, make_dataset,
\* rekey and shred keep the promise of a store whose objects move between KEKs:
\* a rewrap changes the KEK and never the key of the data, no step but make's
\* opens what was closed, a KEK a rekey gave up opens nothing, and what an OSError
\* costs is one object.
ImplementsKeyedStore == Store!Spec

\* Only encrypting an object anew makes it decryptable: no rekey brings back
\* what was shredded, torn or never finished.
NeverRevived ==
  [][\A o \in Objects : Decryptable(o)' /\ ~Decryptable(o) => pc = "makeBody" /\ o = at]_vars

\* Whoever keeps calling rekey from k to n gets every object off k, again and
\* again after data sets made under it, unless one of the two KEKs is shredded
\* or a damaged object stands in the way.  Nobody has to call anything else: a
\* data set that two failed calls left under both KEKs is no obstacle.
RetriedRekeyCompletes ==
  \A k, n \in Keks :
    k # n => (SF_vars(StartRekey(k, n))
                => []<>(\/ \A o \in Objects : hdr[o] \in Header => hdr[o].kid # k
                        \/ {k, n} \cap shredded # {}
                        \/ Damaged # {}))

------------------------------------------------------------------------------
(* What makes the safety properties inductive.                             *)

\* DEKs are generated in order, so a new one opens no body there is; the header
\* of the object being made has the newest.
DeksInv == /\ \A o \in Objects : /\ hdr[o] \in Header /\ hdr[o].dek # Lost
                                      => hdr[o].dek =< deks
                                 /\ body[o] \in Deks => body[o] =< deks
           /\ pc = "makeBody" => /\ hdr[at] \in Header /\ hdr[at].dek = deks
                                 /\ deks + Size - at =< MaxDeks
           /\ pc = "makeHeader" => deks + Size - at < MaxDeks

\* The loop of rekey leaves nothing under the old KEK behind it.
LoopInv == /\ pc \in {"rekey", "stat"} => old \in Keks
           /\ pc \in {"rekey", "stat"} /\ old # new =>
                \A o \in Objects : /\ o < at \/ (pc = "stat" /\ o = at)
                                   /\ hdr[o] \in Header
                                   => hdr[o].kid # old

\* The object being made is under the KEK of the call, which exists, and its old
\* body is none its new header opens.
WritingInv == pc = "makeBody" => /\ hdr[at].kid = new /\ new \notin shredded
                                 /\ body[at] \in Deks => body[at] < deks

Inductive == TypeOK /\ DeksInv /\ LoopInv /\ RetiredIsSafe
==============================================================================
