------------------------------ MODULE MCBacklog -------------------------------
(* Backlog over every graph of three nodes and every graph of four with at     *)
(* most four edges, with two mixes of enablers and assets.                    *)
EXTENDS Backlog

MCCalendar ==
  {[function |-> "confidentiality", kind |-> "deadline", jurisdiction |-> "EU",
    sectors |-> {"finance"}, date |-> 7],
   [function |-> "signing", kind |-> "procurement", jurisdiction |-> "US",
    sectors |-> {"nss"}, date |-> 3],
   [function |-> "authentication", kind |-> "disallow", jurisdiction |-> "GLOBAL",
    sectors |-> {"all"}, date |-> 5]}

Asset(fns, shelf, area, sector) ==
  [functions |-> fns, shelf_life |-> shelf, jurisdictions |-> {area}, sectors |-> {sector}]

Archive  == Asset({"confidentiality"}, 8, "EU", "finance")
Api      == Asset({"confidentiality", "authentication"}, 1, "US", "finance")
Firmware == Asset({"signing"}, 0, "US", "nss")

Mixes == {<<Enabler, Archive, Api, Firmware>>, <<Api, Enabler, Firmware, Enabler>>}
Spans == {<<1, 2, 1, 2>>, <<2, 0, 3, 1>>}

Pairs == Nodes \X Nodes
Graphs3 == SUBSET ((1 .. 3) \X (1 .. 3))
Graphs4 == {{}} \cup {{e, f, g, h} : e, f, g, h \in Pairs}

MCBacklogs ==
  {[depends_on |-> [n \in Nodes |-> {d \in Nodes : <<n, d>> \in edges}],
    duration |-> span, asset |-> mix, capacity |-> k] :
      edges \in Graphs3 \cup Graphs4, span \in Spans, mix \in Mixes, k \in {1, 2, 4}}
==============================================================================
