-------------------------------- MODULE Cbom ----------------------------------
(***************************************************************************)
(* labs/ch03/solution: cbomscan.py scans a tree into an inventory and      *)
(* writes it as a CBOM; tlsmerge.py loads a CBOM back, adds what TLS       *)
(* endpoints answer, and writes it again; cbomdiff.py compares two CBOMs.  *)
(* The tree and the endpoints change between the runs.                     *)
(*                                                                         *)
(* A file is what the rules and the certificate parser find in it.  Lists  *)
(* that are only appended to and looked up in (evidence, notes, refs,      *)
(* cipher suites) are sets.  A bom-ref, the hash of an asset's key, is the *)
(* key.                                                                    *)
(***************************************************************************)
EXTENDS Integers, Sequences, SequencesExt, Functions

CONSTANTS
  Files,        \* the files of the tree in sorted order
  Hosts,        \* the endpoints of the hosts file in its order
  Contents,     \* per file: what it may hold, sequences of findings
  Answers,      \* per endpoint: what it may answer
  PqGroups,     \* PQ_GROUPS: the level of each hybrid group
  Aliases,      \* CURVE_ALIASES
  PqSignatures  \* the level of each post-quantum signature and key type

IsList(s) == s \in Seq(Range(s))
Alias(curve) == IF curve \in DOMAIN Aliases THEN Aliases[curve] ELSE curve

\* PQ_GROUPS names TLS groups and SSH key exchanges, and nothing of a certificate.
Unmixed(c) == {c.sig, c.key.name, Alias(c.key.name)} \cap DOMAIN PqGroups = {}

ASSUME EstateAssumption ==
  /\ IsList(Files) /\ IsList(Hosts)
  /\ \A f \in Range(Files) :
       /\ <<>> \in Contents[f]
       /\ \A content \in Contents[f] :
            /\ IsList(content)
            /\ \A x \in Range(content) :
                 /\ x.rule \in {"protocol", "group_list", "kex_list"} => IsList(x.list)
                 /\ x.rule = "certificate" => Unmixed(x)
  /\ \A h \in Range(Hosts) : Answers[h] # {}
ASSUME LevelsAssumption ==
  \A levels \in {PqGroups, PqSignatures} : \A g \in DOMAIN levels : levels[g] \in 1 .. 5

VARIABLES
  tree,      \* the content of every file
  endpoints, \* the answer of every endpoint
  cbom       \* the CBOM file: components, and the libraries' evidence

vars == <<tree, endpoints, cbom>>

NoLevel == -1  \* quantum is None
LevelOr(levels, name, default) == IF name \in DOMAIN levels THEN levels[name] ELSE default
LevelIn(levels, name) == LevelOr(levels, name, 0)

------------------------------------------------------------------------------
(* Asset and Inventory *)

Asset(type, name, params, version, quantum) ==
  [type |-> type, name |-> name, params |-> params, version |-> version,
   quantum |-> quantum, suites |-> {}, refs |-> {}, notes |-> {}, occs |-> {}]

Algorithm(name, params, quantum) == Asset("algorithm", name, params, "", quantum)
Protocol(version) == Asset("protocol", "TLS", "", version, NoLevel)

Key(a) == <<a.type, a.name, a.params, a.version>>

Empty == [assets |-> <<>>, libraries |-> {}]

\* Mutant of Add: the latest asset of a key replaces the one that is known.
AddLatest(inv, a, occs) ==
  [inv EXCEPT !.assets = [k \in DOMAIN @ \cup {Key(a)} |->
                            IF k = Key(a) THEN [a EXCEPT !.occs = occs] ELSE @[k]]]

\* Mutant of Add: the latest finding of an asset decides its level.
AddLevel(inv, a, occs) ==
  LET old == IF Key(a) \in DOMAIN inv.assets THEN inv.assets[Key(a)] ELSE a
      new == [old EXCEPT !.occs = @ \cup occs, !.suites = @ \cup a.suites, !.quantum = a.quantum,
                         !.notes = @ \cup a.notes, !.refs = @ \cup a.refs]
  IN  [inv EXCEPT !.assets = [k \in DOMAIN @ \cup {Key(a)} |->
                                IF k = Key(a) THEN new ELSE @[k]]]

\* Inventory.add: the first asset of a key keeps its attributes.  (Suites are
\* appended by the callers to the asset add returns.)
Add(inv, a, occs) ==
  LET known == Key(a) \in DOMAIN inv.assets
      old   == IF known THEN inv.assets[Key(a)] ELSE a
      new   == [old EXCEPT !.occs = @ \cup occs, !.suites = @ \cup a.suites,
                           !.notes = @ \cup a.notes, !.refs = @ \cup a.refs]
  IN  [inv EXCEPT !.assets = [k \in DOMAIN @ \cup {Key(a)} |->
                                IF k = Key(a) THEN new ELSE @[k]]]

AddAll(inv, found, occs) == FoldLeft(LAMBDA i, a : Add(i, a, occs), inv, found)

------------------------------------------------------------------------------
(* cbomscan: what one finding adds *)

\* Mutant of AlgorithmFromRule: the level is the rule's.
AlgorithmOfRule(x) ==
  [Algorithm(x.name, IF x.name = "ECDSA" THEN Alias(x.params) ELSE x.params, x.quantum)
     EXCEPT !.notes = x.notes]

\* One name per curve; hybrid groups are post-quantum whatever the rule says.
AlgorithmFromRule(x) ==
  LET params == IF x.name = "ECDSA" THEN Alias(x.params) ELSE x.params
  IN  [Algorithm(x.name, params,
                 IF params \in DOMAIN PqGroups THEN PqGroups[params] ELSE x.quantum)
         EXCEPT !.notes = x.notes]

\* group_asset, kex_asset.
NamedGroup(prefix, g) == Algorithm(prefix \o g, g, LevelIn(PqGroups, g))

\* public_key_asset: a key of a type that is not known, such as a DSA key, has no
\* level at all.
PublicKeyAsset(key) ==
  CASE key.kind = "RSA"     -> Algorithm("RSA", key.name, 0)
    [] key.kind = "EC"      -> Algorithm("ECDSA", Alias(key.name), 0)
    [] key.kind = "Edwards" -> Algorithm("EdDSA", key.name, 0)
    [] OTHER -> Algorithm(key.name, key.name, LevelOr(PqSignatures, key.name, NoLevel))

CertificateAssets(c) ==
  LET sig == Algorithm(c.sig, c.sig, LevelIn(PqSignatures, c.sig))
      key == PublicKeyAsset(c.key)
  IN  <<sig, key, [Asset("certificate", c.subject, c.serial, "", NoLevel)
                     EXCEPT !.refs = {Key(sig), Key(key)}]>>

\* The assets of a match, in the order they are added.
Found(x) ==
  CASE x.rule = "asset"       -> <<AlgorithmFromRule(x)>>
    [] x.rule = "protocol"    -> [i \in DOMAIN x.list |-> Protocol(x.list[i])]
    [] x.rule = "group_list"  -> [i \in DOMAIN x.list |-> NamedGroup("TLS group ", x.list[i])]
    [] x.rule = "kex_list"    -> [i \in DOMAIN x.list |-> NamedGroup("SSH KEX ", x.list[i])]
    [] x.rule = "cipher_list" -> <<[Protocol("1.2") EXCEPT !.suites = Range(x.list)]>>
    [] x.rule = "certificate" -> CertificateAssets(x)
    [] OTHER                  -> <<>>

\* scan_text_file, scan_certificate.
ScanFile(inv, f) ==
  FoldLeft(LAMBDA i, x :
             IF x.rule = "library"
             THEN [i EXCEPT !.libraries = @ \cup {<<x.name, f>>}]
             ELSE AddAll(i, Found(x), {f}),
           inv, tree[f])

ScanTree == FoldLeft(ScanFile, Empty, Files)

------------------------------------------------------------------------------
(* The CBOM file *)

\* component_for: what is written of an asset depends on its type.
Component(a) ==
  CASE a.type = "algorithm" -> [a EXCEPT !.suites = {}, !.refs = {}]
    [] OTHER                -> [a EXCEPT !.quantum = NoLevel]

BuildCbom(inv) == [components |-> {Component(a) : a \in Range(inv.assets)},
                   libraries  |-> inv.libraries]

\* Mutant of LoadComponent: an algorithm's parameter set is not read.
LoadWithoutParameters(c) ==
  CASE c.type = "algorithm"   -> [c EXCEPT !.params = ""]
    [] c.type = "certificate" -> [c EXCEPT !.notes = {}]
    [] OTHER                  -> c

\* A certificate's serial is found in its bom-ref (the subject is not empty),
\* its refs in its properties; its notes are not read.
LoadComponent(c) == IF c.type = "certificate" THEN [c EXCEPT !.notes = {}] ELSE c

\* load_into_inventory: libraries are not cryptographic assets and are skipped.
LoadIntoInventory(file) ==
  LET loaded == {LoadComponent(c) : c \in file.components}
  IN  [assets    |-> [k \in {Key(a) : a \in loaded} |-> CHOOSE a \in loaded : Key(a) = k],
       libraries |-> {}]

------------------------------------------------------------------------------
(* tlsmerge *)

Unreachable == [error |-> TRUE]

\* merge_endpoint: the protocol refers to the group and the signature type where
\* the answer has them (a field it does not have is ""), and of the certificates
\* the first one counts.
Observed(e) ==
  IF e.error THEN <<[Protocol("unreachable") EXCEPT !.notes = {"error"}]>>
  ELSE LET group == IF e.group = "" THEN <<>> ELSE <<NamedGroup("TLS group ", e.group)>>
           sig   == IF e.sig = "" THEN <<>>
                    ELSE <<Algorithm("TLS signature " \o e.sig, e.sig, LevelIn(PqSignatures, e.sig))>>
           cert  == IF e.certs = <<>> THEN <<>> ELSE CertificateAssets(e.certs[1])
       IN  <<[Protocol(e.version) EXCEPT !.suites = {e.cipher} \ {""},
                                         !.refs = {Key(a) : a \in Range(group \o sig)}]>>
           \o group \o sig \o cert

MergeEndpoint(inv, h) == AddAll(inv, Observed(endpoints[h]), {h})

MergeInto(file) == BuildCbom(FoldLeft(MergeEndpoint, LoadIntoInventory(file), Hosts))

------------------------------------------------------------------------------
(* cbomdiff *)

IndexKey(c) == <<c.type, c.name, CASE c.type = "algorithm" -> c.params
                                   [] c.type = "protocol"  -> c.version
                                   [] OTHER                -> "">>

Index(file) ==
  [k \in {IndexKey(c) : c \in file.components} |->
     CHOOSE c \in file.components : IndexKey(c) = k]

\* Added and removed keys; of the others the new and the lost locations and
\* both levels where something changed; and what is still vulnerable.
Diff(old, new) ==
  LET a == Index(old)
      b == Index(new)
      entry(k) == [key |-> k, plus |-> b[k].occs \ a[k].occs, minus |-> a[k].occs \ b[k].occs,
                   from |-> a[k].quantum, to |-> b[k].quantum]
      both == DOMAIN a \cap DOMAIN b
  IN  [added      |-> DOMAIN b \ DOMAIN a,
       removed    |-> DOMAIN a \ DOMAIN b,
       changed    |-> {entry(k) : k \in {k \in both : \/ a[k].occs # b[k].occs
                                                      \/ a[k].quantum # b[k].quantum}},
       vulnerable |-> {k \in DOMAIN b : b[k].quantum = 0}]

------------------------------------------------------------------------------
(* Runs of the tools, and what happens between them *)

Init == /\ tree \in [Range(Files) -> {<<>>}]
        /\ endpoints \in [Range(Hosts) -> UNION {Answers[h] : h \in Range(Hosts)}]
        /\ \A h \in Range(Hosts) : endpoints[h] \in Answers[h]
        /\ cbom = BuildCbom(Empty)

\* Somebody edits a file (external).
Edit(f) == /\ tree' \in {[tree EXCEPT ![f] = c] : c \in Contents[f]}
           /\ UNCHANGED <<endpoints, cbom>>

\* An endpoint is configured anew, or goes down (external).
Reconfigure(h) == /\ endpoints' \in {[endpoints EXCEPT ![h] = e] : e \in Answers[h]}
                  /\ UNCHANGED <<tree, cbom>>

\* cbomscan.main
Scan == cbom' = BuildCbom(ScanTree) /\ UNCHANGED <<tree, endpoints>>

\* tlsmerge.main with --cbom and the same file as output.
Merge == cbom' = MergeInto(cbom) /\ UNCHANGED <<tree, endpoints>>

Next == \/ \E f \in Range(Files) : Edit(f)
        \/ \E h \in Range(Hosts) : Reconfigure(h)
        \/ Scan \/ Merge

Spec == Init /\ [][Next]_vars

------------------------------------------------------------------------------
(* Properties *)

Refs(file) == {Key(c) : c \in file.components}

\* However often the file is written, loaded, merged into and written again,
\* every reference in it, of a protocol to its group and of a certificate to
\* its algorithms, names a component of the file, and no two components have
\* one bom-ref.
ReferencesResolve ==
  /\ \A c \in cbom.components : c.refs \subseteq Refs(cbom)
  /\ \A c, d \in cbom.components : Key(c) = Key(d) => c = d
  /\ \A c \in cbom.components : c.type = "certificate" => c.refs # {}

\* The components the findings of a file stand for, one by one.
Stands(f) == UNION {{Component(a) : a \in Range(Found(tree[f][i]))} : i \in DOMAIN tree[f]}

\* A scan reports what is in the tree and nothing it was before: the evidence of
\* every component is exactly the files it is in.  Its level is one that the first
\* of these files gives: rules and parsers do not agree on every asset (a DSA key
\* has level 0 by the Java rules and none by a certificate), and a later file does
\* not raise or lower it.  On the hybrid groups they do agree.
ScanIsExact ==
  [][Scan =>
       /\ \A f \in Range(Files) : \A a \in Stands(f) :
            \E c \in cbom'.components : Key(c) = Key(a) /\ f \in c.occs
       /\ \A c \in cbom'.components :
            /\ \A f \in c.occs : \E a \in Stands(f) : Key(a) = Key(c)
            /\ \E n \in DOMAIN Files :
                 /\ Files[n] \in c.occs /\ \A m \in 1 .. n - 1 : Files[m] \notin c.occs
                 /\ \E a \in Stands(Files[n]) : Key(a) = Key(c) /\ a.quantum = c.quantum
            /\ c.type = "algorithm" /\ c.params \in DOMAIN PqGroups
                 => c.quantum = PqGroups[c.params]]_vars

\* Merging endpoints loses no asset and no evidence and changes no verdict,
\* every asset an endpoint uses has its evidence there, and a second merge of
\* the same answers has nothing to report.
MergeOnlyAdds ==
  [][Merge =>
       LET d     == Diff(cbom, cbom')
           again == Diff(cbom', MergeInto(cbom'))
       IN  /\ Refs(cbom) \subseteq Refs(cbom') /\ d.removed = {}
           /\ \A c \in d.changed : c.key[1] # "certificate" => c.minus = {} /\ c.from = c.to
           /\ \A h \in Range(Hosts) : \A i \in DOMAIN Observed(endpoints[h]) :
                \E c \in cbom'.components : /\ Key(c) = Key(Observed(endpoints[h])[i])
                                            /\ h \in c.occs
           /\ again.added = {} /\ again.removed = {} /\ again.changed = {}]_vars
==============================================================================
