-------------------------------- MODULE MCCbom --------------------------------
(* Cbom for a small tree and two endpoints that name the same assets in      *)
(* different ways.                                                           *)
EXTENDS Cbom

Hybrid == "X25519MLKEM768"

Rule(name, params, note) ==
  [rule |-> "asset", name |-> name, params |-> params, quantum |-> 0, notes |-> {note}]
List(rule, list) == [rule |-> rule, list |-> list]

MCFiles == <<"CA.pem", "Keys.java", "nginx.conf", "server.crt">>
MCHosts == <<"api", "edge">>

Certificate(serial, sig, kind, key) ==
  [rule |-> "certificate", subject |-> "CN=api", serial |-> serial, sig |-> sig,
   key |-> [kind |-> kind, name |-> key]]

OldCertificate == Certificate("1", "RSA-SHA256", "RSA", "RSA-2048")
NewCertificate == Certificate("2", "ML-DSA-65", "EC", "secp256r1")
PqCertificate  == Certificate("3", "Ed25519", "other", "MLDSA65")
DsaCertificate == Certificate("4", "dsa-with-sha256", "other", "DSA")
EdCertificate  == Certificate("5", "Ed25519", "Edwards", "Ed25519")

\* The Java rules give "DSA" the level 0, a certificate with a DSA key gives none;
\* CA.pem comes before the sources, server.crt after them.
MCContents ==
  [f \in Range(MCFiles) |->
     {<<>>} \cup
     CASE f = "Keys.java"  -> {<<Rule("RSA", "RSA-2048", "replace"), Rule("ECDSA", "SECP256R1", "none"),
                                 Rule("TLS group " \o Hybrid, Hybrid, "hybrid group"),
                                 Rule("DSA", "DSA", "none"),
                                 [rule |-> "library", name |-> "cryptography"]>>}
       [] f = "nginx.conf" -> {<<List("protocol", <<"1.2", "1.3">>),
                                 List("group_list", <<Hybrid, "X25519">>),
                                 List("cipher_list", <<"GCM", "CBC">>),
                                 List("kex_list", <<"mlkem768x25519-sha256">>)>>}
       [] f = "CA.pem"     -> {<<DsaCertificate>>}
       [] f = "server.crt" -> {<<OldCertificate, NewCertificate, DsaCertificate>>}]

Answer(version, cipher, group, sig, certs) ==
  [error |-> FALSE, version |-> version, cipher |-> cipher,
   group |-> group, sig |-> sig, certs |-> certs]

MCAnswers ==
  [h \in Range(MCHosts) |->
     CASE h = "api"  -> {Unreachable, Answer("1.2", "GCM", "", "ed25519", <<EdCertificate>>)}
       [] h = "edge" -> {Answer("unknown", "", "X25519", "", <<>>),
                         Answer("1.3", "GCM", Hybrid, "mldsa65", <<PqCertificate, OldCertificate>>)}]

MCPqGroups == [g \in {Hybrid, "mlkem768x25519-sha256"} |-> 3]
MCAliases == [c \in {"P256", "SECP256R1", "secp256r1"} |-> "P-256"]
MCPqSignatures == [s \in {"ML-DSA-65", "mldsa65", "MLDSA65"} |-> 3]
===============================================================================
