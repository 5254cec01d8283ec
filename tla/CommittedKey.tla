----------------------------- MODULE CommittedKey -----------------------------
(***************************************************************************)
(* labs/ch08/solution/lms.py, CommittedLmsPrivateKey: an LMS private key   *)
(* whose next index q is reserved in blocks in a state file.               *)
(*                                                                         *)
(* One single-threaded process holds zero or more handles (objects of the  *)
(* class) on one state file.  Each call of _persist is four steps (open    *)
(* with truncation, write, fsync, os.replace), so that a crash or an       *)
(* OSError can fall between any two of them.                               *)
(***************************************************************************)
EXTENDS Integers, FiniteSets

CONSTANTS
  Handles,       \* objects the process may hold
  Keys,          \* seed/identifier pairs secrets.token_bytes may return
  Capacity,      \* 2 ** h
  Reservations,  \* values of the constructor's reservation argument
  NoFile,        \* the path does not exist
  Torn,          \* an empty or half-written file
  Exclusive,     \* the program opens a handle only when no other is open
  MaxFaults      \* bound on crashes, power cuts, OSErrors and dropped handles

ASSUME CapacityAssumption == Capacity \in Nat \ {0}
ASSUME ReservationsAssumption == Reservations \subseteq Nat \ {0}
ASSUME MaxFaultsAssumption == MaxFaults \in Nat
ASSUME ExclusiveAssumption == Exclusive \in BOOLEAN

VARIABLES
  file,         \* what the state file's path names now
  tmp,          \* what the .tmp path names now
  durable,      \* what the state file's path would name after a power cut
  undone,       \* a power cut has undone an os.replace
  pc,           \* where each handle is
  key,          \* seed and I of each handle
  q,            \* its next index
  until,        \* its _reserved_until
  goal,         \* the argument of its running _persist, 0 in the constructor
  reservation,  \* its reservation
  born,         \* seeds generated so far
  uses,         \* history: signatures released per key and index
  faults        \* faults so far

disk    == <<durable, undone>>
files   == <<file, tmp, disk>>
fields  == <<key, q, until, goal, reservation>>
history == <<born, uses>>
vars    == <<files, pc, fields, history, faults>>

Index == 0 .. Capacity - 1

\* The JSON object _persist writes; synced tells the disk from the page cache.
Stored == [key : Keys, q : 0 .. Capacity, synced : BOOLEAN]
File   == Stored \cup {NoFile, Torn}

ASSUME FileAssumption == NoFile # Torn /\ {NoFile, Torn} \cap Stored = {}
ASSUME KeyAssumption == NoFile \notin Keys

\* A handle is not constructed, between calls, in one of the four steps of
\* _persist, back from it, or holding an index it has not signed with yet.
Persisting == {"open", "write", "fsync", "replace"}
Pc == {"closed", "idle", "persisted", "taken"} \cup Persisting

Min2(a, b) == IF a < b THEN a ELSE b

\* The thread is between calls.
Quiet == \A h \in Handles : pc[h] \in {"closed", "idle"}

MayOpen(h) == /\ Quiet
              /\ pc[h] = "closed"
              /\ Exclusive => \A g \in Handles : pc[g] = "closed"

Goto(h, where) == pc' = [pc EXCEPT ![h] = where]

Fault == /\ faults < MaxFaults
         /\ faults' = faults + 1

Init == /\ file = NoFile
        /\ tmp = NoFile
        /\ durable = NoFile
        /\ undone = FALSE
        /\ pc = [h \in Handles |-> "closed"]
        /\ key = [h \in Handles |-> NoFile]
        /\ q = [h \in Handles |-> 0]
        /\ until = [h \in Handles |-> 0]
        /\ goal = [h \in Handles |-> 0]
        /\ reservation = [h \in Handles |-> 0]
        /\ born = {}
        /\ uses = [ki \in Keys \X Index |-> 0]
        /\ faults = 0

------------------------------------------------------------------------------
(* The constructor. *)

SetFields(h, k, n, r) == /\ key' = [key EXCEPT ![h] = k]
                         /\ q' = [q EXCEPT ![h] = n]
                         /\ until' = [until EXCEPT ![h] = n]
                         /\ goal' = [goal EXCEPT ![h] = 0]
                         /\ reservation' = [reservation EXCEPT ![h] = r]

\* No state file: fresh seed and identifier, then _persist(0).
Create(h) ==
  /\ MayOpen(h)
  /\ file = NoFile
  /\ \E k \in Keys \ born, r \in Reservations :
       /\ born' = born \cup {k}
       /\ SetFields(h, k, 0, r)
  /\ Goto(h, "open")
  /\ UNCHANGED <<files, uses, faults>>

\* Mutant of Load: a restart skips one index more than it reserved.
LoadSkipsOne(h) ==
  /\ MayOpen(h)
  /\ file \in Stored
  /\ \E r \in Reservations : SetFields(h, file.key, Min2(file.q + 1, Capacity), r)
  /\ Goto(h, "idle")
  /\ UNCHANGED <<files, history, faults>>

\* A state file: start at the reservation boundary it stores.
Load(h) ==
  /\ MayOpen(h)
  /\ file \in Stored
  /\ \E r \in Reservations : SetFields(h, file.key, file.q, r)
  /\ Goto(h, "idle")
  /\ UNCHANGED <<files, history, faults>>

------------------------------------------------------------------------------
(* _persist *)

\* Mutant of OpenTmp: refuses a .tmp file that a crash left behind.
OpenTmpExclusive(h) ==
  /\ pc[h] = "open"
  /\ tmp = NoFile
  /\ tmp' = Torn
  /\ Goto(h, "write")
  /\ UNCHANGED <<file, disk, fields, history, faults>>

OpenTmp(h) ==
  /\ pc[h] = "open"
  /\ tmp' = Torn
  /\ Goto(h, "write")
  /\ UNCHANGED <<file, disk, fields, history, faults>>

WriteTmp(h) ==
  /\ pc[h] = "write"
  /\ tmp' = [key |-> key[h], q |-> goal[h], synced |-> FALSE]
  /\ Goto(h, "fsync")
  /\ UNCHANGED <<file, disk, fields, history, faults>>

\* Mutant of SyncTmp: no fsync before the rename.
SyncTmpSkipped(h) ==
  /\ pc[h] = "fsync"
  /\ Goto(h, "replace")
  /\ UNCHANGED <<file, tmp, disk, fields, history, faults>>

SyncTmp(h) ==
  /\ pc[h] = "fsync"
  /\ tmp' = [key |-> tmp.key, q |-> tmp.q, synced |-> TRUE]
  /\ Goto(h, "replace")
  /\ UNCHANGED <<file, disk, fields, history, faults>>

\* The constructor returns; a sign call goes on to take its index.
Replace(h) ==
  /\ pc[h] = "replace"
  /\ file' = tmp
  /\ tmp' = NoFile
  /\ Goto(h, IF goal[h] = 0 THEN "idle" ELSE "persisted")
  /\ UNCHANGED <<disk, fields, history, faults>>

\* An OSError in open, write, fsync or replace: no object is constructed, or
\* the sign call fails and leaves q and _reserved_until alone.
PersistFails(h) ==
  /\ Fault
  /\ pc[h] \in Persisting
  /\ IF goal[h] = 0
       THEN Goto(h, "closed") /\ SetFields(h, NoFile, 0, 0)
       ELSE /\ Goto(h, "idle")
            /\ goal' = [goal EXCEPT ![h] = 0]
            /\ UNCHANGED <<key, q, until, reservation>>
  /\ UNCHANGED <<files, history>>

------------------------------------------------------------------------------
(* sign *)

NewUntil(h) == Min2(q[h] + reservation[h], Capacity)

\* _take_index inside the reserved block.
TakeReserved(h) ==
  /\ Quiet
  /\ pc[h] = "idle"
  /\ q[h] < until[h]
  /\ q' = [q EXCEPT ![h] = @ + 1]
  /\ Goto(h, "taken")
  /\ UNCHANGED <<files, key, until, goal, reservation, history, faults>>

\* Mutant of Reserve: the block is handed out without _persist.
ReserveUnpersisted(h) ==
  /\ Quiet
  /\ pc[h] = "idle"
  /\ q[h] >= until[h]
  /\ NewUntil(h) > q[h]
  /\ goal' = [goal EXCEPT ![h] = NewUntil(h)]
  /\ Goto(h, "persisted")
  /\ UNCHANGED <<files, key, q, until, reservation, history, faults>>

\* _take_index at the end of the block: reserve the next one first.
Reserve(h) ==
  /\ Quiet
  /\ pc[h] = "idle"
  /\ q[h] >= until[h]
  /\ NewUntil(h) > q[h]
  /\ goal' = [goal EXCEPT ![h] = NewUntil(h)]
  /\ Goto(h, "open")
  /\ UNCHANGED <<files, key, q, until, reservation, history, faults>>

TakeFirst(h) ==
  /\ pc[h] = "persisted"
  /\ until' = [until EXCEPT ![h] = goal[h]]
  /\ goal' = [goal EXCEPT ![h] = 0]
  /\ q' = [q EXCEPT ![h] = @ + 1]
  /\ Goto(h, "taken")
  /\ UNCHANGED <<files, key, reservation, history, faults>>

\* ExhaustedKey: the caller gets an exception and nothing changes.
Refuse(h) ==
  /\ Quiet
  /\ pc[h] = "idle"
  /\ q[h] >= until[h]
  /\ NewUntil(h) =< q[h]
  /\ UNCHANGED vars

\* lms_sign_with and the return of sign: the signature leaves the process.
Release(h) ==
  /\ pc[h] = "taken"
  /\ uses' = [uses EXCEPT ![<<key[h], q[h] - 1>>] = @ + 1]
  /\ Goto(h, "idle")
  /\ UNCHANGED <<files, fields, born, faults>>

------------------------------------------------------------------------------
(* The world around the key. *)

\* `del key`: the program drops a handle between calls.
Drop(h) ==
  /\ Fault
  /\ Quiet
  /\ pc[h] = "idle"
  /\ Goto(h, "closed")
  /\ SetFields(h, NoFile, 0, 0)
  /\ UNCHANGED <<files, history>>

ForgetAll == /\ pc' = [h \in Handles |-> "closed"]
             /\ key' = [h \in Handles |-> NoFile]
             /\ q' = [h \in Handles |-> 0]
             /\ until' = [h \in Handles |-> 0]
             /\ goal' = [h \in Handles |-> 0]
             /\ reservation' = [h \in Handles |-> 0]

\* The process dies: the kernel keeps the files, the fields are gone.
Crash ==
  /\ Fault
  /\ \E h \in Handles : pc[h] # "closed"
  /\ ForgetAll
  /\ UNCHANGED <<files, history>>

\* The kernel commits the directory entry, in its own time.
FlushDirectory ==
  /\ durable # file
  /\ durable' = IF file \in Stored /\ ~file.synced THEN Torn ELSE file
  /\ UNCHANGED <<file, tmp, undone, pc, fields, history, faults>>

\* The machine dies: a rename the directory had not committed is undone.
PowerCut ==
  /\ Fault
  /\ file' = durable
  /\ undone' = (undone \/ file # durable)
  /\ tmp' \in {NoFile, Torn}
  /\ ForgetAll
  /\ UNCHANGED <<durable, history>>

Open(h) == Create(h) \/ Load(h)

Call(h) == \/ OpenTmp(h) \/ WriteTmp(h) \/ SyncTmp(h) \/ Replace(h)
           \/ TakeFirst(h) \/ Release(h)

SignRequest(h) == TakeReserved(h) \/ Reserve(h) \/ Refuse(h)

Next == \/ \E h \in Handles : \/ Open(h) \/ Call(h) \/ SignRequest(h)
                              \/ PersistFails(h) \/ Drop(h)
        \/ Crash
        \/ FlushDirectory
        \/ PowerCut

Spec == Init /\ [][Next]_vars

(* A pipeline that keeps the key in service and keeps signing: the thread  *)
(* runs its calls, an absent handle is reopened, and a caller that is able *)
(* to ask for a signature again and again does ask.                        *)
FairSpec == /\ Spec
            /\ WF_vars(\E h \in Handles : Open(h))
            /\ WF_vars(\E h \in Handles : Call(h))
            /\ SF_vars(\E h \in Handles : TakeReserved(h) \/ Reserve(h))

------------------------------------------------------------------------------
(* Properties *)

\* Every variable stays in its type.
TypeOK == /\ file \in File /\ tmp \in File /\ durable \in File
          /\ undone \in BOOLEAN
          /\ pc \in [Handles -> Pc]
          /\ key \in [Handles -> Keys \cup {NoFile}]
          /\ q \in [Handles -> 0 .. Capacity]
          /\ until \in [Handles -> 0 .. Capacity]
          /\ goal \in [Handles -> 0 .. Capacity]
          /\ reservation \in [Handles -> Nat]
          /\ born \subseteq Keys
          /\ uses \in [Keys \X Index -> Nat]
          /\ faults \in 0 .. MaxFaults

\* No one-time key signs twice, whatever crashes, power cuts, OSErrors and
\* restarts fall between the steps of sign, _persist and the constructor, until
\* a power cut undoes an os.replace.
NoIndexReuse == ~undone => \A k \in Keys, i \in Index : uses[<<k, i>>] =< 1

\* Write-ahead: an index is released only while the state file of that very
\* key stores a boundary beyond it.
ReservedBeforeReleased ==
  ~undone =>
    \A k \in Keys, i \in Index :
      uses[<<k, i>>] > 0 => file \in Stored /\ file.key = k /\ i < file.q

\* The same with the file a power cut would leave: what the comment on the
\* _persist call in _take_index says ("durable *before* any signature").
DurableBeforeReleased ==
  \A k \in Keys, i \in Index :
    uses[<<k, i>>] > 0 => durable \in Stored /\ durable.key = k /\ i < durable.q

\* json.loads in the constructor always finds a whole object: write to .tmp,
\* fsync, os.replace never exposes a torn state file, not even after a power
\* cut.
StateReadable == file # Torn /\ durable # Torn

\* Indices a handle may still sign with.
Held(h) == IF pc[h] = "closed" \/ file \notin Stored THEN {}
           ELSE (IF pc[h] = "taken" THEN q[h] - 1 ELSE q[h]) .. file.q - 1

\* Indices below the stored boundary that nobody will ever sign with.
Wasted == IF file \notin Stored THEN {}
          ELSE {i \in 0 .. file.q - 1 : /\ uses[<<file.key, i>>] = 0
                                        /\ \A h \in Handles : i \notin Held(h)}

\* An index is lost only when a handle goes away, by a crash or by being
\* dropped, and then at most one reservation of them (until a power cut undoes
\* an os.replace).
CrashCost ==
  [][Wasted' # Wasted /\ ~undone' =>
       \E h \in Handles :
          /\ pc[h] # "closed"
          /\ pc'[h] = "closed"
          /\ Wasted \subseteq Wasted'
          /\ Cardinality(Wasted' \ Wasted) =< reservation[h]]_vars

OTK == INSTANCE OneTimeKeys
         WITH NoKey <- NoFile,
              void <- undone,
              current <- IF file \in Stored THEN file.key ELSE NoFile

\* The key with its state file implements the abstract one-time keys: one
\* public key for good, each index at most once; void once an os.replace is
\* undone.
ImplementsOneTimeKeys == OTK!Spec

\* A key in service ends exhausted with all its indices signed, except at most
\* one largest reservation per fault: no crash, error or leftover .tmp file
\* stops it before (unless a power cut undoes an os.replace).
EveryIndexSpent ==
  <>(\/ undone
     \/ /\ file \in Stored
        /\ file.q = Capacity
        /\ \E r \in Reservations :
             Cardinality({i \in Index : uses[<<file.key, i>>] = 1})
                >= Capacity - faults * r)

------------------------------------------------------------------------------
(* What TypeOK needs to be inductive, for every value of the constants.    *)

\* One thread: at most one handle is inside a call.
OneRunning == \A g, h \in Handles :
                /\ pc[g] \notin {"closed", "idle"}
                /\ pc[h] \notin {"closed", "idle"}
                => g = h

\* An open handle has a key, os.fsync finds the written .tmp file, and the
\* boundary about to be stored, or just stored, lies beyond q.
FieldsInv(h) == /\ pc[h] # "closed" => key[h] \in Keys
                /\ pc[h] \in {"fsync", "replace"} => tmp \in Stored
                /\ pc[h] = "persisted" => q[h] < goal[h]
                /\ (pc[h] \in Persisting /\ goal[h] # 0) => q[h] < goal[h]

Typed == TypeOK /\ OneRunning /\ \A h \in Handles : FieldsInv(h)

(* The inductive invariant behind NoIndexReuse, for programs that open one *)
(* handle at a time.                                                       *)

Creating(h) == pc[h] \in Persisting /\ goal[h] = 0
InUse(h)    == pc[h] # "closed" /\ ~Creating(h)

SoleHandle == \A g, h \in Handles :
                pc[g] # "closed" /\ pc[h] # "closed" => g = h

\* While the constructor persists, nothing has been published.
CreatingInv(h) == Creating(h) => file = NoFile /\ q[h] = 0 /\ until[h] = 0

\* Any other open handle agrees with the file: its block ends at the stored
\* boundary, except between os.replace and the assignment of _reserved_until.
AgreesInv(h) ==
  InUse(h) =>
     /\ file \in Stored
     /\ file.key = key[h]
     /\ q[h] =< until[h]
     /\ pc[h] # "persisted" => until[h] = file.q
     /\ pc[h] = "persisted" => goal[h] = file.q
     /\ pc[h] \in {"idle", "taken"} => goal[h] = 0
     /\ pc[h] = "taken" => q[h] > 0
     /\ pc[h] \in Persisting \cup {"persisted"} => q[h] = until[h]

\* What os.replace is about to install is what _persist was asked to store.
TmpInv(h) == pc[h] \in {"fsync", "replace"} => tmp.key = key[h] /\ tmp.q = goal[h]

\* The first index that no signature has used: q, or the one a running sign
\* call holds.
FirstUnused(h) == IF pc[h] = "taken" THEN q[h] - 1 ELSE q[h]

UnusedInv(h) ==
  InUse(h) => \A i \in Index : i >= FirstUnused(h) => uses[<<key[h], i>>] = 0

Intact == /\ file # Torn
          /\ SoleHandle
          /\ \A h \in Handles : /\ CreatingInv(h) /\ AgreesInv(h)
                                /\ TmpInv(h) /\ UnusedInv(h)
          /\ ReservedBeforeReleased
          /\ NoIndexReuse

Inductive == Typed /\ (undone \/ Intact)
==============================================================================
