-------------------------- MODULE CommittedKeyProofs --------------------------
(* Theorems about CommittedKey for every value of its constants. *)
EXTENDS CommittedKey, FiniteSetTheorems, TLAPS

\* A new_until is a boundary inside the tree, never below q.
LEMMA NewUntilType ==
  ASSUME TypeOK, NEW h \in Handles
  PROVE  NewUntil(h) \in 0 .. Capacity
<1>1. q[h] \in 0 .. Capacity /\ reservation[h] \in Nat
  BY DEF TypeOK
<1>2. QED
  BY <1>1, CapacityAssumption DEF NewUntil, Min2

\* Nothing is open and nothing was signed.
LEMMA TypedInit == Init => Typed
<1> SUFFICES ASSUME Init PROVE Typed
  OBVIOUS
<1>1. undone \in BOOLEAN
  BY DEF Init
<1>2. QED
  BY <1>1, CapacityAssumption, MaxFaultsAssumption, FileAssumption
     DEF Init, Typed, TypeOK, OneRunning, FieldsInv, File, Pc, Persisting

\* The state keeps its type through every step of the code, the crashes and
\* power cuts included.
LEMMA TypedStep == Typed /\ [Next]_vars => Typed'
<1> SUFFICES ASSUME Typed, [Next]_vars
             PROVE  Typed'
  OBVIOUS
<1> USE CapacityAssumption, ReservationsAssumption, MaxFaultsAssumption,
        FileAssumption, KeyAssumption
    DEF Typed, TypeOK, File, OneRunning, FieldsInv, disk, files, fields, history
<1>1. ASSUME NEW h \in Handles, Open(h)
      PROVE  Typed'
  <2>1. CASE Create(h)
    BY <2>1 DEF Create, SetFields, Goto, MayOpen, Quiet, Pc, Persisting
  <2>2. CASE Load(h)
    BY <2>2 DEF Load, SetFields, Goto, MayOpen, Quiet, Pc, Persisting, Stored
  <2>3. QED BY <1>1, <2>1, <2>2 DEF Open
<1>2. ASSUME NEW h \in Handles, Call(h)
      PROVE  Typed'
  <2>1. CASE OpenTmp(h)
    BY <2>1 DEF OpenTmp, Goto, Pc, Persisting
  <2>2. CASE WriteTmp(h)
    BY <2>2 DEF WriteTmp, Goto, Pc, Persisting, Stored
  <2>3. CASE SyncTmp(h)
    BY <2>3 DEF SyncTmp, Goto, Pc, Persisting, Stored
  <2>4. CASE Replace(h)
    BY <2>4 DEF Replace, Goto, Pc, Persisting
  <2>5. CASE TakeFirst(h)
    BY <2>5 DEF TakeFirst, Goto, Pc, Persisting
  <2>6. CASE Release(h)
    <3> DEFINE ki == <<key[h], q[h] - 1>>
    <3>1. uses' \in [Keys \X Index -> Nat]
      <4>1. uses' = [uses EXCEPT ![ki] = uses[ki] + 1]
        BY <2>6 DEF Release
      <4>2. ki \in Keys \X Index => uses[ki] + 1 \in Nat
        OBVIOUS
      <4> HIDE DEF ki
      <4>3. QED BY <4>1, <4>2
    <3>2. QED
      BY <2>6, <3>1 DEF Release, Goto, Pc, Persisting
  <2>7. QED BY <1>2, <2>1, <2>2, <2>3, <2>4, <2>5, <2>6 DEF Call
<1>3. ASSUME NEW h \in Handles, SignRequest(h)
      PROVE  Typed'
  <2>1. CASE TakeReserved(h)
    BY <2>1 DEF TakeReserved, Goto, Quiet, Pc, Persisting
  <2>2. CASE Reserve(h)
    BY <2>2, NewUntilType DEF Reserve, Goto, Quiet, Pc, Persisting
  <2>3. CASE Refuse(h)
    BY <2>3 DEF Refuse, vars
  <2>4. QED BY <1>3, <2>1, <2>2, <2>3 DEF SignRequest
<1>4. ASSUME NEW h \in Handles, PersistFails(h)
      PROVE  Typed'
  BY <1>4, SMTT(60) DEF PersistFails, SetFields, Fault, Goto, Pc, Persisting
<1>5. ASSUME NEW h \in Handles, Drop(h)
      PROVE  Typed'
  BY <1>5 DEF Drop, SetFields, Fault, Goto, Quiet, Pc, Persisting
<1>6. CASE Crash \/ PowerCut
  <2>1. undone' \in BOOLEAN
    BY <1>6 DEF Crash, PowerCut
  <2>2. QED
    BY <1>6, <2>1 DEF Crash, PowerCut, ForgetAll, Fault, Pc, Persisting
<1>7. CASE FlushDirectory
  BY <1>7 DEF FlushDirectory
<1>8. CASE UNCHANGED vars
  BY <1>8 DEF vars
<1>9. QED BY <1>1, <1>2, <1>3, <1>4, <1>5, <1>6, <1>7, <1>8 DEF Next

\* Every reachable state is well typed, with any number of handles and after
\* any power cut: the fields of a handle and the objects in the state file stay
\* inside 0..capacity.
THEOREM TypeCorrect == Spec => []TypeOK
<1>1. Init => Typed
  BY TypedInit
<1>2. Typed /\ [Next]_vars => Typed'
  BY TypedStep
<1>3. Typed => TypeOK
  BY DEF Typed
<1>4. QED
  BY <1>1, <1>2, <1>3, PTL DEF Spec

------------------------------------------------------------------------------
(* One handle at a time. *)

LEMMA InductiveInit == Init => Inductive
<1> SUFFICES ASSUME Init PROVE Inductive
  OBVIOUS
<1>1. Typed
  BY TypedInit
<1>2. ReservedBeforeReleased /\ NoIndexReuse
  BY DEF Init, ReservedBeforeReleased, NoIndexReuse
<1>3. QED
  BY <1>1, <1>2, FileAssumption
     DEF Init, Inductive, Intact, SoleHandle, CreatingInv, AgreesInv, TmpInv, UnusedInv,
         Creating, InUse, Persisting

\* Every operation of a handle, and every crash, keeps the invariant.
LEMMA InductiveStep ==
  ASSUME Exclusive, Inductive, [Next]_vars
  PROVE  Inductive'
<1>1. Typed'
  BY TypedStep DEF Inductive
<1>a. CASE undone'
  BY <1>a, <1>1 DEF Inductive
<1>b. SUFFICES ASSUME Intact, ~undone, ~undone'
               PROVE  Inductive'
  <2>1. undone => undone'
    BY DEF Next, Open, Create, Load, Call, OpenTmp, WriteTmp, SyncTmp, Replace,
           TakeFirst, Release, SignRequest, TakeReserved, Reserve, Refuse,
           PersistFails, Drop, Crash, FlushDirectory, PowerCut, vars, files, disk
  <2>2. QED
    BY <1>a, <2>1 DEF Inductive
<1> USE <1>b DEF Inductive, Intact, Typed, TypeOK, File, SoleHandle, CreatingInv, AgreesInv,
            TmpInv, UnusedInv, Creating, InUse, FirstUnused,
            ReservedBeforeReleased, NoIndexReuse, disk, files, fields, history
<1>2. ASSUME NEW h \in Handles, Create(h)
      PROVE  Inductive'
  BY <1>1, <1>2, KeyAssumption, FileAssumption
     DEF Create, SetFields, Goto, MayOpen, Persisting, Pc
<1>3. ASSUME NEW h \in Handles, Load(h)
      PROVE  Inductive'
  <2>1. /\ file \in Stored /\ file.key \in Keys /\ file.q \in 0 .. Capacity
        /\ pc' = [pc EXCEPT ![h] = "idle"]
        /\ key' = [key EXCEPT ![h] = file.key]
        /\ q' = [q EXCEPT ![h] = file.q]
        /\ until' = [until EXCEPT ![h] = file.q]
        /\ goal' = [goal EXCEPT ![h] = 0]
        /\ UNCHANGED <<file, tmp, durable, uses>>
        /\ \A g \in Handles : pc[g] = "closed"
    BY <1>3 DEF Load, SetFields, Goto, MayOpen, Stored
  <2>2. SoleHandle'
    BY <2>1
  <2>3. \A g \in Handles : CreatingInv(g)' /\ AgreesInv(g)' /\ TmpInv(g)'
    BY <2>1 DEF Persisting
  <2>4. \A g \in Handles : UnusedInv(g)'
    BY <2>1 DEF Persisting, Index
  <2>5. QED
    BY <1>1, <2>1, <2>2, <2>3, <2>4
<1>4. ASSUME NEW h \in Handles, OpenTmp(h)
      PROVE  Inductive'
  BY <1>1, <1>4 DEF OpenTmp, Goto, Persisting, Pc
<1>5. ASSUME NEW h \in Handles, WriteTmp(h)
      PROVE  Inductive'
  BY <1>1, <1>5 DEF WriteTmp, Goto, Persisting, Pc
<1>6. ASSUME NEW h \in Handles, SyncTmp(h)
      PROVE  Inductive'
  BY <1>1, <1>6 DEF SyncTmp, Goto, Persisting, Pc
<1>7. ASSUME NEW h \in Handles, Replace(h)
      PROVE  Inductive'
  <2>1. /\ pc[h] = "replace"
        /\ tmp \in Stored /\ tmp.key = key[h] /\ tmp.q = goal[h]
        /\ file' = tmp
        /\ pc' = [pc EXCEPT ![h] = IF goal[h] = 0 THEN "idle" ELSE "persisted"]
        /\ UNCHANGED <<key, q, until, goal, uses>>
        /\ \A g \in Handles : g # h => pc[g] = "closed"
    BY <1>7 DEF Replace, Goto, FieldsInv
  <2>2. SoleHandle'
    BY <2>1
  <2>3. \A g \in Handles : g # h => pc'[g] = "closed"
    BY <2>1
  <2>4. CASE goal[h] = 0
    \* the constructor: nothing has been signed yet
    <3>1. \A k \in Keys, i \in Index : uses[<<k, i>>] = 0
      <4>1. file \notin Stored
        BY <2>1, <2>4, FileAssumption DEF Persisting
      <4>2. SUFFICES ASSUME NEW k \in Keys, NEW i \in Index
                     PROVE  uses[<<k, i>>] = 0
        OBVIOUS
      <4>3. uses[<<k, i>>] \in Nat /\ ~(uses[<<k, i>>] > 0)
        BY <4>1
      <4>4. QED
        BY <4>3
    <3>2. QED
      BY <1>1, <2>1, <2>2, <2>3, <2>4, <3>1, FileAssumption
         DEF Persisting, FieldsInv
  <2>5. CASE goal[h] # 0
    \* a sign call: the stored boundary moves up
    <3>1. file.key = key[h] /\ file.q =< goal[h]
      BY <2>1, <2>5 DEF Persisting, FieldsInv, Stored
    <3>2. ReservedBeforeReleased'
      BY <2>1, <3>1 DEF Stored, Index
    <3>3. \A g \in Handles : CreatingInv(g)' /\ AgreesInv(g)' /\ TmpInv(g)'
      BY <2>1, <2>3, <2>5 DEF Persisting, FieldsInv
    <3>4. \A g \in Handles : UnusedInv(g)'
      BY <2>1, <2>3, <2>5 DEF Persisting
    <3>5. QED
      BY <1>1, <2>1, <2>2, <3>2, <3>3, <3>4, FileAssumption
  <2>6. QED BY <2>4, <2>5
<1>8. ASSUME NEW h \in Handles, TakeFirst(h)
      PROVE  Inductive'
  BY <1>1, <1>8 DEF TakeFirst, Goto, Persisting, Pc, FieldsInv
<1>9. ASSUME NEW h \in Handles, Release(h)
      PROVE  Inductive'
  BY <1>1, <1>9 DEF Release, Goto, Persisting, Pc, Index
<1>10. ASSUME NEW h \in Handles, SignRequest(h)
       PROVE  Inductive'
  BY <1>1, <1>10 DEF SignRequest, TakeReserved, Reserve, Refuse, Goto, vars,
                     Persisting, Pc
<1>11. ASSUME NEW h \in Handles, PersistFails(h) \/ Drop(h)
       PROVE  Inductive'
  BY <1>1, <1>11 DEF PersistFails, Drop, SetFields, Goto, Fault, Persisting, Pc
<1>12. CASE Crash
  BY <1>1, <1>12 DEF Crash, ForgetAll, Persisting, Pc
<1>13. CASE FlushDirectory
  BY <1>1, <1>13 DEF FlushDirectory, Persisting, Pc
<1>13a. CASE PowerCut
  <2>1. file' = file /\ UNCHANGED uses /\ ForgetAll
    BY <1>13a DEF PowerCut
  <2>2. QED
    BY <1>1, <2>1 DEF ForgetAll, Persisting, Pc
<1>14. CASE UNCHANGED vars
  BY <1>1, <1>14 DEF vars
<1>15. QED
  BY <1>2, <1>3, <1>4, <1>5, <1>6, <1>7, <1>8, <1>9, <1>10, <1>11, <1>12,
     <1>13, <1>13a, <1>14 DEF Next, Open, Call

\* No one-time key signs twice: the theorem the class exists for.  Any number
\* of crashes, OSErrors and dropped handles, any capacity and any reservations;
\* one handle at a time, and no power cut between os.replace and the commit of
\* the directory.
THEOREM NeverReused ==
  ASSUME Exclusive
  PROVE  Spec => []NoIndexReuse
<1>1. Init => Inductive
  BY InductiveInit
<1>2. Inductive /\ [Next]_vars => Inductive'
  BY InductiveStep
<1>3. Inductive => NoIndexReuse
  BY DEF Inductive, Intact, NoIndexReuse
<1>4. QED
  BY <1>1, <1>2, <1>3, PTL DEF Spec

\* Write-ahead: whatever has been signed lies below the boundary the state
\* file stores, for the key it stores.
THEOREM WriteAhead ==
  ASSUME Exclusive
  PROVE  Spec => []ReservedBeforeReleased
<1>1. Init => Inductive
  BY InductiveInit
<1>2. Inductive /\ [Next]_vars => Inductive'
  BY InductiveStep
<1>3. Inductive => ReservedBeforeReleased
  BY DEF Inductive, Intact, ReservedBeforeReleased
<1>4. QED
  BY <1>1, <1>2, <1>3, PTL DEF Spec

\* The committed key implements the abstract one-time keys: Replace of the
\* constructor publishes, Release signs, a power cut that undoes an os.replace
\* voids, and every other step changes nothing the caller was promised.
THEOREM Refinement ==
  ASSUME Exclusive
  PROVE  Spec => ImplementsOneTimeKeys
<1> DEFINE current == IF file \in Stored THEN file.key ELSE NoFile
<1>1. Init => OTK!Init
  BY FileAssumption DEF Init, OTK!Init, OTK!Index, Index
<1>2. ASSUME Inductive, Inductive', [Next]_vars
      PROVE  [OTK!Next]_<<current, uses, undone>>
  <2> USE DEF disk, files, fields, history
  <2>1. CASE undone'
    BY <2>1 DEF OTK!Next, OTK!Voided
  <2>2. CASE UNCHANGED <<file, uses, undone>>
    BY <2>2
  <2>3. ASSUME NEW h \in Handles, Release(h), ~undone'
        PROVE  OTK!Next
    <3> DEFINE i == q[h] - 1
    <3>1. ~undone /\ undone' = undone
      BY <2>3 DEF Release
    <3>2. /\ i \in Index /\ key[h] \in Keys
          /\ file \in Stored /\ file.key = key[h]
          /\ uses[<<key[h], i>>] = 0
      <4>1. /\ pc[h] = "taken" /\ InUse(h) /\ FirstUnused(h) = i
            /\ FieldsInv(h) /\ AgreesInv(h) /\ UnusedInv(h)
            /\ q[h] \in 0 .. Capacity
        BY <1>2, <2>3, <3>1 DEF Release, Inductive, Intact, Typed, TypeOK, InUse,
                                Creating, Persisting, FirstUnused
      <4>2. key[h] \in Keys /\ file \in Stored /\ file.key = key[h] /\ q[h] > 0
        BY <4>1 DEF FieldsInv, AgreesInv
      <4>3. i \in Index
        BY <4>1, <4>2, CapacityAssumption DEF Index
      <4>4. uses[<<key[h], i>>] = 0
        BY <4>1, <4>3 DEF UnusedInv, Index
      <4>5. QED BY <4>2, <4>3, <4>4
    <3>3. uses' = [uses EXCEPT ![<<current, i>>] = 1] /\ file' = file
      BY <2>3, <3>2 DEF Release
    <3>4. OTK!Sign(i)
      BY <3>2, <3>3 DEF OTK!Sign
    <3>5. QED
      BY <3>1, <3>2, <3>4 DEF OTK!Next, OTK!Index, Index
  <2>4. ASSUME NEW h \in Handles, Replace(h), ~undone'
        PROVE  [OTK!Next]_<<current, uses, undone>>
    <3>1. ~undone /\ undone' = undone
      BY <2>4 DEF Replace
    <3>2. /\ file' = tmp /\ tmp \in Stored /\ tmp.key = key[h]
          /\ key[h] \in Keys /\ UNCHANGED uses
      BY <1>2, <2>4, <3>1 DEF Replace, FieldsInv, TmpInv, Inductive, Intact,
                              Typed, Persisting
    <3>3. CASE goal[h] = 0
      <4>1. OTK!Publish(key[h])
        BY <1>2, <2>4, <3>1, <3>2, <3>3, FileAssumption
           DEF Replace, CreatingInv, Creating, Persisting, OTK!Publish,
               Inductive, Intact
      <4>2. QED BY <3>1, <3>2, <4>1 DEF OTK!Next
    <3>4. CASE goal[h] # 0
      BY <1>2, <2>4, <3>1, <3>2, <3>4
         DEF Replace, AgreesInv, InUse, Creating, Persisting, Inductive, Intact
    <3>5. QED BY <3>3, <3>4
  <2>5. ASSUME NEW h \in Handles,
               \/ Open(h) \/ OpenTmp(h) \/ WriteTmp(h) \/ SyncTmp(h)
               \/ TakeFirst(h) \/ SignRequest(h) \/ PersistFails(h) \/ Drop(h)
        PROVE  UNCHANGED <<file, uses, undone>>
    BY <2>5 DEF Open, Create, Load, OpenTmp, WriteTmp, SyncTmp, TakeFirst,
                SignRequest, TakeReserved, Reserve, Refuse, PersistFails, Drop,
                vars
  <2>6. ASSUME Crash \/ FlushDirectory \/ UNCHANGED vars
        PROVE  UNCHANGED <<file, uses, undone>>
    BY <2>6 DEF Crash, FlushDirectory, vars
  <2>7. ASSUME PowerCut, ~undone'
        PROVE  UNCHANGED <<file, uses, undone>>
    <3>1. undone' = (undone \/ file # durable) /\ file' = durable /\ UNCHANGED uses
      BY <2>7 DEF PowerCut
    <3>2. ~undone /\ file' = file
      BY <2>7, <3>1
    <3>3. undone \in BOOLEAN /\ undone' \in BOOLEAN
      BY <1>2 DEF Inductive, Typed, TypeOK
    <3>4. QED
      BY <2>7, <3>1, <3>2, <3>3
  <2>8. QED
    BY <1>2, <2>1, <2>2, <2>3, <2>4, <2>5, <2>6, <2>7 DEF Next, Call
<1>3. Spec => []Inductive
  BY InductiveInit, InductiveStep, PTL DEF Spec
<1>4. QED
  BY <1>1, <1>2, <1>3, PTL DEF Spec, ImplementsOneTimeKeys, OTK!Spec, OTK!vars

------------------------------------------------------------------------------
(* Whole objects: any number of handles, and power cuts. *)

\* A file that is neither absent nor whole is never published, and what a power
\* cut would leave under the path has been synced, or is about to be published
\* from a .tmp file that has been.
Whole(f) == f \in Stored => f.synced

Readable == /\ Typed
            /\ StateReadable
            /\ Whole(file) /\ Whole(durable)
            /\ \A h \in Handles : pc[h] = "replace" => Whole(tmp)

\* The state file starts whole.
LEMMA ReadableInit == Init => Readable
<1> SUFFICES ASSUME Init PROVE Readable
  OBVIOUS
<1>1. Typed
  BY TypedInit
<1>2. QED
  BY <1>1, FileAssumption DEF Init, Readable, StateReadable, Whole

\* One thread writes the .tmp file, and it syncs what it has written before it
\* replaces the state file with it.
LEMMA ReadableStep == Readable /\ [Next]_vars => Readable'
<1> SUFFICES ASSUME Readable, [Next]_vars
             PROVE  Readable'
  OBVIOUS
<1>1. Typed'
  BY TypedStep DEF Readable
<1> USE FileAssumption
    DEF Readable, StateReadable, Whole, Typed, TypeOK, OneRunning, FieldsInv,
        disk, files, fields, history
<1>2. ASSUME NEW h \in Handles, Open(h)
      PROVE  Readable'
  BY <1>1, <1>2 DEF Open, Create, Load, SetFields, Goto, MayOpen, Quiet, Pc, Persisting
<1>3. ASSUME NEW h \in Handles, OpenTmp(h) \/ WriteTmp(h)
      PROVE  Readable'
  BY <1>1, <1>3 DEF OpenTmp, WriteTmp, Goto, Pc, Persisting
<1>4. ASSUME NEW h \in Handles, SyncTmp(h)
      PROVE  Readable'
  BY <1>1, <1>4 DEF SyncTmp, Goto, Pc, Persisting
<1>5. ASSUME NEW h \in Handles, Replace(h)
      PROVE  Readable'
  <2>1. tmp \in Stored /\ tmp.synced /\ file' = tmp /\ UNCHANGED durable
    BY <1>5 DEF Replace
  <2>2. \A g \in Handles : pc'[g] # "replace"
    BY <1>5 DEF Replace, Goto, Pc, Persisting
  <2>3. QED
    BY <1>1, <2>1, <2>2
<1>6. ASSUME NEW h \in Handles, TakeFirst(h) \/ Release(h) \/ SignRequest(h)
      PROVE  Readable'
  BY <1>1, <1>6 DEF TakeFirst, Release, SignRequest, TakeReserved, Reserve, Refuse, Goto, Pc,
                    Persisting, vars
<1>7. ASSUME NEW h \in Handles, PersistFails(h) \/ Drop(h)
      PROVE  Readable'
  BY <1>1, <1>7 DEF PersistFails, Drop, SetFields, Goto, Pc, Persisting
<1>8. CASE Crash \/ PowerCut
  <2>1. \A g \in Handles : pc'[g] # "replace"
    BY <1>8 DEF Crash, PowerCut, ForgetAll
  <2>2. /\ file' = file \/ file' = durable
        /\ UNCHANGED durable
    BY <1>8 DEF Crash, PowerCut
  <2>3. QED
    BY <1>1, <2>1, <2>2
<1>9. CASE FlushDirectory
  BY <1>1, <1>9 DEF FlushDirectory
<1>10. CASE UNCHANGED vars
  BY <1>1, <1>10 DEF vars
<1>11. QED
  BY <1>2, <1>3, <1>4, <1>5, <1>6, <1>7, <1>8, <1>9, <1>10 DEF Next, Call

\* json.loads in the constructor finds a whole object or no file, however many
\* handles share the state file, wherever a crash falls and whatever a power cut
\* undoes.
THEOREM AlwaysReadable == Spec => []StateReadable
<1>1. Readable => StateReadable
  BY DEF Readable
<1>2. QED
  BY ReadableInit, ReadableStep, <1>1, PTL DEF Spec

------------------------------------------------------------------------------
(* What a crash costs. *)

\* A handle holds no more indices than it reserves at a time, nor does it ask
\* for more.
Sized == \A h \in Handles :
           InUse(h) => /\ file.q - FirstUnused(h) =< reservation[h]
                       /\ pc[h] \in Persisting => goal[h] - q[h] =< reservation[h]

Costed == Inductive /\ (undone \/ Sized)

\* Nothing is wasted yet.
LEMMA CostedInit == Init => Costed
<1> SUFFICES ASSUME Init PROVE Costed
  OBVIOUS
<1>1. Sized
  BY DEF Init, Sized, InUse
<1>2. QED
  BY <1>1, InductiveInit DEF Costed

\* What NewUntil asks for is at most a reservation.
LEMMA ReservesAtMost ==
  ASSUME TypeOK, NEW h \in Handles
  PROVE  NewUntil(h) - q[h] =< reservation[h]
<1>1. q[h] \in 0 .. Capacity /\ reservation[h] \in Nat
  BY DEF TypeOK
<1>2. QED
  BY <1>1, CapacityAssumption DEF NewUntil, Min2

\* Every operation and every crash keeps account of what is wasted.
LEMMA CostedStep ==
  ASSUME Exclusive, Costed, [Next]_vars
  PROVE  Costed'
<1>1. Inductive'
  BY InductiveStep DEF Costed
<1>2. SUFFICES ASSUME ~undone'
               PROVE  Sized'
  BY <1>1 DEF Costed
<1>3. ~undone
  BY <1>2 DEF Next, Open, Create, Load, Call, OpenTmp, WriteTmp, SyncTmp, Replace,
         TakeFirst, Release, SignRequest, TakeReserved, Reserve, Refuse,
         PersistFails, Drop, Crash, FlushDirectory, PowerCut, vars, files, disk
<1>4. Intact /\ Typed /\ Sized
  BY <1>3 DEF Costed, Inductive
<1> USE <1>4, CapacityAssumption
    DEF Intact, Typed, TypeOK, File, SoleHandle, CreatingInv, AgreesInv, FieldsInv,
        Creating, InUse, FirstUnused, Sized, disk, files, fields, history
<1>5. ASSUME NEW h \in Handles, Create(h)
      PROVE  Sized'
  BY <1>5 DEF Create, SetFields, Goto, MayOpen, Persisting, Pc
<1>6. ASSUME NEW h \in Handles, Load(h)
      PROVE  Sized'
  <2>1. /\ file \in Stored /\ file.q \in 0 .. Capacity /\ file' = file
        /\ q'[h] = file.q /\ pc'[h] = "idle" /\ reservation' \in [Handles -> Nat]
        /\ \A g \in Handles : g # h => pc'[g] = "closed"
    BY <1>1, <1>6 DEF Load, SetFields, Goto, MayOpen, Stored, Inductive
  <2>2. file.q - q'[h] =< reservation'[h]
    BY <2>1
  <2>3. QED
    BY <2>1, <2>2 DEF Persisting
<1>7. ASSUME NEW h \in Handles, OpenTmp(h) \/ WriteTmp(h) \/ SyncTmp(h)
      PROVE  Sized'
  BY <1>7 DEF OpenTmp, WriteTmp, SyncTmp, Goto, Persisting, Pc
<1>8. ASSUME NEW h \in Handles, Replace(h)
      PROVE  Sized'
  <2>1. /\ pc[h] = "replace" /\ tmp \in Stored /\ tmp.q = goal[h] /\ file' = tmp
        /\ pc'[h] = IF goal[h] = 0 THEN "idle" ELSE "persisted"
        /\ UNCHANGED <<q, goal, reservation>>
        /\ \A g \in Handles : g # h => pc'[g] = "closed"
    BY <1>8 DEF Replace, Goto, TmpInv
  <2>2. goal[h] - q[h] =< reservation[h]
    <3>1. CASE goal[h] = 0
      BY <2>1, <3>1 DEF Persisting
    <3>2. CASE goal[h] # 0
      BY <2>1, <3>2 DEF Persisting
    <3>3. QED BY <3>1, <3>2
  <2>3. QED
    BY <2>1, <2>2 DEF Persisting
<1>9. ASSUME NEW h \in Handles, TakeFirst(h)
      PROVE  Sized'
  BY <1>9 DEF TakeFirst, Goto, Persisting, Pc
<1>10. ASSUME NEW h \in Handles, Release(h)
       PROVE  Sized'
  BY <1>10 DEF Release, Goto, Persisting, Pc
<1>11. ASSUME NEW h \in Handles, TakeReserved(h)
       PROVE  Sized'
  BY <1>11 DEF TakeReserved, Goto, Persisting, Pc
<1>12. ASSUME NEW h \in Handles, Reserve(h)
       PROVE  Sized'
  BY <1>12, ReservesAtMost, NewUntilType DEF Reserve, Goto, Persisting, Pc
<1>13. ASSUME NEW h \in Handles, PersistFails(h) \/ Drop(h)
       PROVE  Sized'
  BY <1>13 DEF PersistFails, Drop, SetFields, Goto, Persisting, Pc
<1>14. CASE Crash \/ PowerCut
  BY <1>14 DEF Crash, PowerCut, ForgetAll
<1>15. CASE FlushDirectory
  BY <1>15 DEF FlushDirectory
<1>16. CASE UNCHANGED vars
  BY <1>16 DEF vars
<1>17. ASSUME NEW h \in Handles, Refuse(h)
       PROVE  Sized'
  BY <1>16, <1>17 DEF Refuse
<1>18. QED
  BY <1>5, <1>6, <1>7, <1>8, <1>9, <1>10, <1>11, <1>12, <1>13, <1>14, <1>15, <1>16, <1>17
     DEF Next, Open, Call, SignRequest

\* The unused indices below n of the stored key.
Skipped(n) == {i \in 0 .. n - 1 : uses[<<file.key, i>>] = 0}

\* Everything below the next index of the open handle that has not been used is
\* lost, and everything below the boundary where no handle is open.
WastedShape ==
  /\ file \notin Stored => Wasted = {}
  /\ \A h \in Handles : InUse(h) => /\ FirstUnused(h) \in 0 .. file.q
                                    /\ Wasted = Skipped(FirstUnused(h))
  /\ file \in Stored /\ (\A h \in Handles : ~InUse(h)) => Wasted = Skipped(file.q)

\* What is wasted lies below the boundary, outside every open reservation.
LEMMA WastedIs == Inductive /\ ~undone => WastedShape
<1> SUFFICES ASSUME Inductive, ~undone  PROVE WastedShape
  OBVIOUS
<1>1. Intact /\ Typed
  BY DEF Inductive
<1>2. file \notin Stored => Wasted = {}
  BY DEF Wasted
<1>3. ASSUME NEW h \in Handles, InUse(h)
      PROVE  /\ FirstUnused(h) \in 0 .. file.q
             /\ Wasted = Skipped(FirstUnused(h))
  <2> DEFINE n == FirstUnused(h)
  <2>1. /\ file \in Stored /\ file.q \in 0 .. Capacity /\ q[h] \in 0 .. Capacity
        /\ pc[h] # "closed"
        /\ pc[h] = "taken" => q[h] > 0
        /\ q[h] =< file.q
    BY <1>1, <1>3 DEF Intact, Typed, TypeOK, AgreesInv, FieldsInv, InUse, Stored, Persisting
  <2>2. n \in 0 .. file.q
    BY <2>1, CapacityAssumption DEF FirstUnused
  <2>3. /\ Held(h) = n .. file.q - 1
        /\ \A g \in Handles : g # h => Held(g) = {}
    <3>1. Held(h) = n .. file.q - 1
      BY <2>1 DEF Held, FirstUnused
    <3>2. ASSUME NEW g \in Handles, g # h  PROVE Held(g) = {}
      <4>1. pc[g] = "closed"
        BY <1>1, <2>1, <3>2 DEF Intact, SoleHandle
      <4>2. QED BY <4>1 DEF Held
    <3>3. QED BY <3>1, <3>2
  <2> HIDE DEF n
  <2>4. \A i \in 0 .. file.q - 1 : i \notin Held(h) <=> i \in 0 .. n - 1
    BY <2>1, <2>2, <2>3
  <2>5. 0 .. n - 1 \subseteq 0 .. file.q - 1
    BY <2>1, <2>2
  <2>6. Wasted = Skipped(n)
    BY <2>1, <2>3, <2>4, <2>5 DEF Wasted, Skipped
  <2>7. QED
    BY <2>2, <2>6 DEF n
<1>4. ASSUME file \in Stored, \A h \in Handles : ~InUse(h)
      PROVE  Wasted = Skipped(file.q)
  <2>1. \A h \in Handles : Held(h) = {}
    BY <1>1, <1>4, FileAssumption DEF Held, InUse, Intact, CreatingInv
  <2>2. QED
    BY <1>4, <2>1 DEF Wasted, Skipped
<1>5. QED
  BY <1>2, <1>3, <1>4 DEF WastedShape

\* The same shape after a step.
LEMMA WastedIsNext == ASSUME Inductive', ~undone'  PROVE WastedShape'
<1>1. (Inductive /\ ~undone => WastedShape)'
  BY WastedIs, PTL
<1>2. QED
  BY <1>1

\* A step that closes the one open handle loses what it held.
LEMMA ClosingCost ==
  ASSUME Costed, ~undone, WastedShape', file' = file, uses' = uses,
         \A h \in Handles : pc'[h] = "closed",
         Wasted' # Wasted
  PROVE  \E h \in Handles : /\ pc[h] # "closed" /\ pc'[h] = "closed"
                            /\ Wasted \subseteq Wasted'
                            /\ Cardinality(Wasted' \ Wasted) =< reservation[h]
<1>1. WastedShape /\ Typed /\ Sized
  BY WastedIs DEF Costed, Inductive
<1>2. file \in Stored
  BY <1>1 DEF WastedShape
<1>3. Wasted' = Skipped(file.q)
  <2>1. \A h \in Handles : ~InUse(h)'
    BY DEF InUse
  <2>2. Skipped(file.q)' = Skipped(file.q)
    BY DEF Skipped
  <2>3. QED
    BY <1>2, <2>1, <2>2 DEF WastedShape
<1>4. PICK h \in Handles : InUse(h)
  BY <1>1, <1>2, <1>3 DEF WastedShape
<1> DEFINE n == FirstUnused(h)
<1>5. n \in 0 .. file.q /\ Wasted = Skipped(n)
  BY <1>1, <1>4 DEF WastedShape
<1>6. file.q \in 0 .. Capacity /\ reservation[h] \in Nat /\ file.q - n =< reservation[h]
  BY <1>1, <1>2, <1>4 DEF Typed, TypeOK, Stored, Sized
<1> HIDE DEF n
<1>7. file.q \in Nat /\ n \in Nat /\ n =< file.q
  BY <1>5, <1>6, CapacityAssumption
<1>8. Wasted \subseteq Wasted'
  <2>1. 0 .. n - 1 \subseteq 0 .. file.q - 1
    BY <1>7
  <2>2. QED
    BY <1>3, <1>5, <2>1 DEF Skipped
<1>9. Wasted' \ Wasted \in SUBSET (n .. file.q - 1)
  <2>1. \A i \in 0 .. file.q - 1 : i \in 0 .. n - 1 \/ i \in n .. file.q - 1
    BY <1>7
  <2>2. QED
    BY <1>3, <1>5, <2>1 DEF Skipped
<1>10. Cardinality(Wasted' \ Wasted) =< file.q - n
  <2>1. n \in Int /\ file.q - 1 \in Int
    BY <1>7
  <2>2. /\ IsFiniteSet(n .. file.q - 1)
        /\ Cardinality(n .. file.q - 1) = IF n > file.q - 1 THEN 0 ELSE (file.q - 1) - n + 1
    BY <2>1, FS_Interval
  <2>3. Cardinality(n .. file.q - 1) =< file.q - n
    BY <1>7, <2>2
  <2>4. /\ IsFiniteSet(Wasted' \ Wasted)
        /\ Cardinality(Wasted' \ Wasted) =< Cardinality(n .. file.q - 1)
    BY <1>9, <2>2, FS_Subset
  <2>5. Cardinality(Wasted' \ Wasted) \in Nat /\ Cardinality(n .. file.q - 1) \in Nat
    BY <2>2, <2>4, FS_CardinalityType
  <2>6. QED
    BY <1>7, <2>3, <2>4, <2>5
<1>11. Cardinality(Wasted' \ Wasted) =< reservation[h]
  <2>1. Cardinality(Wasted' \ Wasted) \in Nat
    <3>1. IsFiniteSet(n .. file.q - 1)
      BY <1>7, FS_Interval
    <3>2. IsFiniteSet(Wasted' \ Wasted)
      BY <1>9, <3>1, FS_Subset
    <3>3. QED BY <3>2, FS_CardinalityType
  <2>2. QED
    BY <1>6, <1>7, <1>10, <2>1
<1>12. QED
  BY <1>4, <1>8, <1>11 DEF InUse

\* A handle that stays open and keeps its next index loses nothing.
LEMMA KeepsWasted ==
  ASSUME WastedShape, WastedShape', uses' = uses, file'.key = file.key, NEW h \in Handles,
         InUse(h), InUse(h)', FirstUnused(h)' = FirstUnused(h)
  PROVE  Wasted' = Wasted
<1>1. Wasted = Skipped(FirstUnused(h)) /\ Wasted' = Skipped(FirstUnused(h))'
  BY DEF WastedShape
<1>2. Skipped(FirstUnused(h))' = Skipped(FirstUnused(h))
  BY DEF Skipped
<1>3. QED
  BY <1>1, <1>2

\* A step that wastes indices closes a handle, and no more than it reserved.
LEMMA CostOfAStep ==
  ASSUME Exclusive, Costed, Costed', [Next]_vars, ~undone', Wasted' # Wasted
  PROVE  \E h \in Handles : /\ pc[h] # "closed" /\ pc'[h] = "closed"
                            /\ Wasted \subseteq Wasted'
                            /\ Cardinality(Wasted' \ Wasted) =< reservation[h]
<1> DEFINE Lost == \E h \in Handles : /\ pc[h] # "closed" /\ pc'[h] = "closed"
                                      /\ Wasted \subseteq Wasted'
                                      /\ Cardinality(Wasted' \ Wasted) =< reservation[h]
<1>1. ~undone
  BY DEF Next, Open, Create, Load, Call, OpenTmp, WriteTmp, SyncTmp, Replace,
         TakeFirst, Release, SignRequest, TakeReserved, Reserve, Refuse,
         PersistFails, Drop, Crash, FlushDirectory, PowerCut, vars, files, disk
<1>2. WastedShape /\ WastedShape'
  BY <1>1, WastedIs, WastedIsNext DEF Costed
<1>3. Intact /\ Typed
  BY <1>1 DEF Costed, Inductive
<1>4. file \notin Stored /\ file' = file => FALSE
  BY <1>2 DEF WastedShape
<1> HIDE DEF Lost
<1> USE DEF disk, files, fields, history
<1>5. ASSUME NEW h \in Handles, Create(h)  PROVE Lost
  BY <1>4, <1>5, FileAssumption DEF Create
<1>6. ASSUME NEW h \in Handles, Load(h)  PROVE Lost
  <2>1. /\ file' = file /\ uses' = uses /\ file \in Stored /\ file.q \in 0 .. Capacity
        /\ pc' = [pc EXCEPT ![h] = "idle"] /\ q' = [q EXCEPT ![h] = file.q]
        /\ \A g \in Handles : pc[g] = "closed"
    BY <1>3, <1>6 DEF Load, SetFields, Goto, MayOpen, Stored
  <2>2. InUse(h)' /\ FirstUnused(h)' = file.q
    BY <1>3, <2>1 DEF InUse, Creating, Persisting, FirstUnused, Typed, TypeOK
  <2>3. \A g \in Handles : ~InUse(g)
    BY <2>1 DEF InUse
  <2>4. Wasted = Skipped(file.q)
    BY <1>2, <2>1, <2>3 DEF WastedShape
  <2>5. Wasted' = Skipped(FirstUnused(h))'
    BY <1>2, <2>2 DEF WastedShape
  <2>6. Skipped(FirstUnused(h))' = Skipped(file.q)
    BY <2>1, <2>2 DEF Skipped
  <2>7. QED
    BY <2>4, <2>5, <2>6
<1>7. ASSUME NEW h \in Handles,
             \/ OpenTmp(h) \/ WriteTmp(h) \/ SyncTmp(h) \/ TakeFirst(h)
             \/ TakeReserved(h) \/ Reserve(h) \/ (PersistFails(h) /\ goal[h] # 0)
      PROVE  Lost
  <2>1. file' = file /\ uses' = uses /\ pc[h] # "closed" /\ pc'[h] # "closed"
    BY <1>3, <1>7 DEF OpenTmp, WriteTmp, SyncTmp, TakeFirst, TakeReserved, Reserve,
                      PersistFails, Goto, Typed, TypeOK, Persisting
  <2>2. InUse(h)
    <3>1. file # NoFile
      BY <1>4, <2>1, FileAssumption
    <3>2. QED
      BY <1>3, <2>1, <3>1 DEF Intact, CreatingInv, InUse
  <2>3. file \in Stored
    BY <1>4, <2>1
  <2>4. InUse(h)' /\ FirstUnused(h)' = FirstUnused(h)
    <3>1. q[h] \in 0 .. Capacity /\ goal[h] \in 0 .. Capacity
      BY <1>3 DEF Typed, TypeOK
    <3>2. CASE OpenTmp(h) \/ WriteTmp(h) \/ SyncTmp(h)
      BY <1>3, <2>2, <3>2 DEF OpenTmp, WriteTmp, SyncTmp, Goto, InUse, Creating, Persisting,
                              FirstUnused, Typed, TypeOK
    <3>3. CASE TakeFirst(h) \/ TakeReserved(h)
      BY <1>3, <2>2, <3>1, <3>3, CapacityAssumption
         DEF TakeFirst, TakeReserved, Goto, InUse, Creating, Persisting, FirstUnused, Typed, TypeOK
    <3>4. CASE Reserve(h)
      <4>1. /\ pc'[h] = "open" /\ pc[h] = "idle" /\ q' = q
            /\ goal'[h] = NewUntil(h) /\ NewUntil(h) > q[h]
        BY <1>3, <3>4 DEF Reserve, Goto, Typed, TypeOK
      <4>2. goal'[h] # 0
        <5>1. NewUntil(h) \in 0 .. Capacity
          BY <1>3, NewUntilType DEF Typed
        <5>2. QED BY <3>1, <4>1, <5>1, CapacityAssumption
      <4>3. QED
        BY <4>1, <4>2 DEF InUse, Creating, FirstUnused
    <3>5. CASE PersistFails(h) /\ goal[h] # 0
      BY <1>3, <2>2, <3>5 DEF PersistFails, Goto, InUse, Creating, Persisting, FirstUnused,
                              Typed, TypeOK
    <3>6. QED BY <1>7, <3>2, <3>3, <3>4, <3>5
  <2>5. QED
    BY <1>2, <2>1, <2>2, <2>4, KeepsWasted
<1>8. ASSUME NEW h \in Handles, PersistFails(h), goal[h] = 0  PROVE Lost
  <2>1. Creating(h) /\ file' = file
    BY <1>8 DEF PersistFails, Creating
  <2>2. file = NoFile
    BY <1>3, <2>1 DEF Intact, CreatingInv
  <2>3. QED
    BY <1>4, <2>1, <2>2, FileAssumption
<1>9. ASSUME NEW h \in Handles, Replace(h)  PROVE Lost
  <2>1. /\ pc[h] = "replace" /\ tmp.key = key[h] /\ file' = tmp /\ uses' = uses /\ q' = q
        /\ goal' = goal
        /\ pc'[h] = IF goal[h] = 0 THEN "idle" ELSE "persisted"
    BY <1>3, <1>9 DEF Replace, Goto, Intact, TmpInv, Typed, TypeOK
  <2>2. InUse(h)' /\ FirstUnused(h)' = q[h] /\ FirstUnused(h) = q[h]
    BY <2>1 DEF InUse, Creating, Persisting, FirstUnused
  <2>3. CASE goal[h] # 0
    <3>1. InUse(h)
      BY <2>1, <2>3 DEF InUse, Creating
    <3>2. file'.key = file.key
      BY <1>3, <2>1, <3>1 DEF Intact, AgreesInv
    <3>3. QED
      BY <1>2, <2>1, <2>2, <3>1, <3>2, KeepsWasted
  <2>4. CASE goal[h] = 0
    <3>1. file = NoFile /\ q[h] = 0
      BY <1>3, <2>1, <2>4 DEF Intact, CreatingInv, Creating, Persisting
    <3>2. Wasted = {}
      BY <1>2, <3>1, FileAssumption DEF WastedShape
    <3>3. Wasted' = Skipped(FirstUnused(h))'
      BY <1>2, <2>2 DEF WastedShape
    <3>4. Skipped(FirstUnused(h))' = {}
      BY <2>2, <3>1 DEF Skipped
    <3>5. QED BY <3>2, <3>3, <3>4
  <2>5. QED BY <2>3, <2>4
<1>10. ASSUME NEW h \in Handles, Release(h)  PROVE Lost
  <2> DEFINE n == q[h] - 1
  <2>1. /\ pc[h] = "taken" /\ pc'[h] = "idle" /\ file' = file /\ q' = q
        /\ uses' = [uses EXCEPT ![<<key[h], n>>] = @ + 1]
    BY <1>3, <1>10 DEF Release, Goto, Typed, TypeOK
  <2>2. InUse(h) /\ InUse(h)' /\ FirstUnused(h) = n /\ FirstUnused(h)' = q[h]
    BY <2>1 DEF InUse, Creating, Persisting, FirstUnused
  <2>3. Wasted = Skipped(n) /\ Wasted' = Skipped(FirstUnused(h))'
    BY <1>2, <2>2 DEF WastedShape
  <2>4. file \in Stored /\ file.key = key[h] /\ key[h] \in Keys /\ q[h] \in 0 .. Capacity /\ q[h] > 0
    BY <1>3, <2>1, <2>2 DEF Intact, AgreesInv, Typed, TypeOK, FieldsInv
  <2>5. n \in Index /\ n \in Nat /\ q[h] = n + 1
    BY <2>4, CapacityAssumption DEF Index
  <2> HIDE DEF n
  <2>6. uses \in [Keys \X Index -> Nat]
    BY <1>3 DEF Typed, TypeOK
  <2>7. uses'[<<file.key, n>>] # 0
    <3>1. <<file.key, n>> \in Keys \X Index /\ uses[<<file.key, n>>] \in Nat
      BY <2>4, <2>5, <2>6
    <3>2. QED BY <2>1, <2>4, <2>6, <3>1
  <2>8. \A i \in 0 .. n - 1 : uses'[<<file.key, i>>] = uses[<<file.key, i>>]
    <3> TAKE i \in 0 .. n - 1
    <3>1. i # n /\ i \in Index
      BY <2>5, CapacityAssumption DEF Index
    <3>2. <<file.key, i>> \in Keys \X Index /\ <<file.key, i>> # <<key[h], n>>
      BY <2>4, <3>1
    <3>3. QED BY <2>1, <2>6, <3>2
  <2>9. \A i : i \in 0 .. q[h] - 1 <=> i \in 0 .. n - 1 \/ i = n
    BY <2>5
  <2>10. Skipped(FirstUnused(h))' = Skipped(n)
    BY <2>1, <2>2, <2>7, <2>8, <2>9 DEF Skipped
  <2>11. QED BY <2>3, <2>10
<1>11. ASSUME NEW h \in Handles, Drop(h)  PROVE Lost
  <2>1. /\ file' = file /\ uses' = uses /\ pc[h] # "closed"
        /\ \A g \in Handles : pc'[g] = IF g = h THEN "closed" ELSE pc[g]
    BY <1>3, <1>11 DEF Drop, Goto, Typed, TypeOK
  <2>2. \A g \in Handles : pc'[g] = "closed"
    BY <1>3, <2>1 DEF Intact, SoleHandle
  <2>3. QED
    BY <1>1, <1>2, <2>1, <2>2, ClosingCost DEF Lost
<1>12. ASSUME Crash \/ PowerCut  PROVE Lost
  <2>1. file' = file /\ uses' = uses
    BY <1>12 DEF Crash, PowerCut
  <2>2. \A g \in Handles : pc'[g] = "closed"
    BY <1>12 DEF Crash, PowerCut, ForgetAll
  <2>3. QED
    BY <1>1, <1>2, <2>1, <2>2, ClosingCost DEF Lost
<1>13. ASSUME \/ FlushDirectory
              \/ \E h \in Handles : Refuse(h)
              \/ UNCHANGED vars
       PROVE  Lost
  <2>1. UNCHANGED <<file, pc, q, uses>>
    BY <1>13 DEF FlushDirectory, Refuse, vars
  <2>2. Wasted' = Wasted
    BY <2>1 DEF Wasted, Held
  <2>3. QED BY <2>2
<1>14. Lost
  <2>1. ASSUME NEW h \in Handles, Open(h)  PROVE Lost
    BY <1>5, <1>6, <2>1 DEF Open
  <2>2. ASSUME NEW h \in Handles, Call(h)  PROVE Lost
    BY <1>7, <1>9, <1>10, <2>2 DEF Call
  <2>3. ASSUME NEW h \in Handles, SignRequest(h)  PROVE Lost
    BY <1>7, <1>13, <2>3 DEF SignRequest
  <2>4. ASSUME NEW h \in Handles, PersistFails(h)  PROVE Lost
    BY <1>7, <1>8, <2>4
  <2>5. ASSUME NEW h \in Handles,
               Open(h) \/ Call(h) \/ SignRequest(h) \/ PersistFails(h) \/ Drop(h)
        PROVE  Lost
    BY <1>11, <2>1, <2>2, <2>3, <2>4, <2>5
  <2>6. CASE FlushDirectory \/ UNCHANGED vars
    BY <1>13, <2>6
  <2>7. QED
    BY <1>12, <2>5, <2>6 DEF Next
<1>15. QED
  BY <1>14 DEF Lost

\* A crash, a dropped handle or a power cut that undoes nothing costs at most one
\* reservation of indices, and nothing else costs any; for every capacity, every
\* reservation and one handle at a time.
THEOREM CrashBound ==
  ASSUME Exclusive
  PROVE  Spec => CrashCost
<1>1. Costed /\ [Next]_vars => Costed'
  BY CostedStep
<1>2. Costed /\ Costed' /\ [Next]_vars =>
        [Wasted' # Wasted /\ ~undone' =>
           \E h \in Handles :
              /\ pc[h] # "closed"
              /\ pc'[h] = "closed"
              /\ Wasted \subseteq Wasted'
              /\ Cardinality(Wasted' \ Wasted) =< reservation[h]]_vars
  BY CostOfAStep
<1>3. QED
  BY CostedInit, <1>1, <1>2, PTL DEF Spec, CrashCost
==============================================================================
