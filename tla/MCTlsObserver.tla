---------------------------- MODULE MCTlsObserver -----------------------------
(* TlsObserver for the cells that differ in what they can negotiate. *)
EXTENDS TlsObserver

MCCells ==
  {[server |-> "openssl", client |-> "openssl", group |-> "hybrid"],
   [server |-> "go",      client |-> "pyssl",   group |-> "x25519"],
   [server |-> "pyssl",   client |-> "pyssl",   group |-> "x25519"],
   [server |-> "openssl", client |-> "pyssl",   group |-> "pure"],
   [server |-> "openssl", client |-> "go",      group |-> "pure"]}
\* The client offers a share the server cannot use and may split both its hellos.
MCFragmenting == {c \in MCCells : c.server = "go"}
MCDefault == <<"hybrid", "x25519">>
==============================================================================
