---------------------------- MODULE MCSshObserver -----------------------------
(* SshObserver with the offers of two OpenSSH releases in short. *)
EXTENDS SshObserver

MCOffer ==
  [d \in Sides |->
     [l \in Lists |->
        CASE l = "hostkey"  -> <<"ssh-ed25519">>
          [] d = "client"   -> <<"mlkem768x25519-sha256", "curve25519-sha256", "kex-strict">>
          [] d = "server"   -> <<"kex-strict", "curve25519-sha256", "mlkem768x25519-sha256">>]]
==============================================================================
