----------------------------- MODULE OneTimeKeys -----------------------------
(***************************************************************************)
(* What a stateful hash-based signing key promises its caller: there is    *)
(* one published key at a time and never another one after it, and each of *)
(* its one-time keys (leaf indices 0..Capacity-1) signs at most once, as   *)
(* long as the storage under it forgets nothing it has confirmed.  How the *)
(* index survives a restart is the business of CommittedKey.               *)
(***************************************************************************)
EXTENDS Integers

CONSTANTS Keys,      \* seed/identifier pairs that can be generated
          Capacity,  \* 2^h leaves
          NoKey      \* nothing published yet

VARIABLES current,   \* the published key
          uses,      \* uses[<<k, i>>]: signatures released with index i of key k
          void       \* the storage has lost confirmed state: no promise any more

vars == <<current, uses, void>>

Index == 0 .. Capacity - 1

Init == /\ current = NoKey
        /\ uses = [ki \in Keys \X Index |-> 0]
        /\ void = FALSE

\* A key becomes public once, and nothing replaces it.
Publish(k) == /\ current = NoKey
              /\ current' = k
              /\ UNCHANGED uses

\* An index of the published key signs, if it never signed before.
Sign(i) == /\ current \in Keys
           /\ uses[<<current, i>>] = 0
           /\ uses' = [uses EXCEPT ![<<current, i>>] = 1]
           /\ UNCHANGED current

\* Anything may follow the loss of confirmed state.
Voided == void'

Next == \/ /\ ~void /\ UNCHANGED void
           /\ (\E k \in Keys : Publish(k)) \/ (\E i \in Index : Sign(i))
        \/ Voided

Spec == Init /\ [][Next]_vars
==============================================================================
