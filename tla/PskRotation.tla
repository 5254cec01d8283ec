------------------------------ MODULE PskRotation ------------------------------
(***************************************************************************)
(* labs/ch06/solution/wgpsk.py: the commands keygen, encaps and decaps as  *)
(* two operators run them at the two ends of a WireGuard tunnel, in any    *)
(* order.  Encapsulation keys and ciphertexts travel out of band: they may *)
(* be late, repeated, overtaken or lost, and the epoch is typed by hand.   *)
(***************************************************************************)
EXTENDS HybridKem, FiniteSets

CONSTANTS Epochs, MaxKeys, MaxEncaps, NoPsk

ASSUME PskBoundsAssumption == MaxKeys \in Nat \ {0} /\ MaxEncaps \in Nat \ {0}

VARIABLES
  keys,   \* key pairs generated; the key file holds the latest, 0 for none
  sent,   \* ciphertexts printed, with the epoch printed beside them
  psk,    \* the pre-shared key installed at each end of the tunnel
  origin  \* history: what the installed key was derived from

pskVars == <<keys, sent, psk, origin>>

Ends == {1, 2}  \* the initiator and the responder, by their WireGuard keys

Sorted(a, b) == IF a < b THEN <<a, b>> ELSE <<b, a>>

\* Mutant of DerivePsk: the WireGuard keys in the order self, peer.
DerivePskUnsorted(ss, a, b, epoch) == <<ss, a, b, epoch>>

\* derive_psk: the same for both ends.
DerivePsk(ss, a, b, epoch) == <<ss, Sorted(a, b)[1], Sorted(a, b)[2], epoch>>

PskInit == /\ keys = 0
           /\ sent = {}
           /\ psk = [e \in Ends |-> NoPsk]
           /\ origin = [e \in Ends |-> NoPsk]

\* responder_keygen: writes over the key file; the encapsulation key is out.
Keygen == /\ keys < MaxKeys
          /\ keys' = keys + 1
          /\ UNCHANGED <<sent, psk, origin>>

\* wg set at an end, unless this is a dry run or wg fails.
Install(end, ss, from, epoch) ==
  \/ /\ psk' = [psk EXCEPT ![end] = DerivePsk(ss, end, 3 - end, epoch)]
     /\ origin' = [origin EXCEPT ![end] = <<from, epoch>>]
  \/ UNCHANGED <<psk, origin>>

\* encaps: the ciphertext is printed before the key is installed.
Encaps(ek, epoch) ==
  LET coins == Cardinality(sent) + 1
      e     == MlkemEncapsulate(ek, coins)
  IN  /\ coins =< MaxEncaps
      /\ sent' = sent \cup {[ct |-> e.ct, epoch |-> epoch]}
      /\ Install(1, e.ss, <<ek, e.ct>>, epoch)
      /\ UNCHANGED keys

\* decaps with the key file of the moment.
Decaps(ct, epoch) ==
  /\ keys > 0
  /\ Install(2, MlkemDecapsulate(keys, ct), <<keys, ct>>, epoch)
  /\ UNCHANGED <<keys, sent>>

PskNext == \/ Keygen
           \/ \E ek \in 1 .. keys, epoch \in Epochs : Encaps(ek, epoch)
           \/ \E c \in sent, epoch \in Epochs : Decaps(c.ct, epoch)

\* The two ends hold one pre-shared key exactly when the responder took the
\* ciphertext of the initiator's latest installation, with the key pair it
\* was made for and the same epoch: neither end notices anything else, since
\* decapsulation never fails.
PsksAgreeExactly ==
  psk[1] # NoPsk /\ psk[2] # NoPsk => (psk[1] = psk[2] <=> origin[1] = origin[2])
==============================================================================
