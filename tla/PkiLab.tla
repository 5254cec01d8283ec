-------------------------------- MODULE PkiLab --------------------------------
(***************************************************************************)
(* labs/ch07/solution/pkilab.py, build(), for one profile, and the test    *)
(* with which ch12/solution/interop.py decides whether to run it.  The     *)
(* build writes its files one after the other, each one opened before it   *)
(* is written, and may stop at any point: the process is killed, or an     *)
(* openssl command fails.                                                  *)
(***************************************************************************)
EXTENDS Integers, Sequences, SequencesExt

CONSTANT MaxBuilds  \* bound on builds

ASSUME MaxBuildsAssumption == MaxBuilds \in Nat \ {0}

VARIABLES dir,    \* the files of the profile's directory
          build,  \* builds so far
          step    \* the file the build is at

pkiVars == <<dir, build, step>>

Names == <<"root", "issuing", "server", "client">>
Parent(name) == IF name \in {"root", "issuing"} THEN "root" ELSE "issuing"

\* The files in the order they are written: the keys and certificates of
\* make_root and issue, the two bundles, and the files of make_crl.
Order == [i \in 1 .. 8 |-> <<Names[(i + 1) \div 2], IF i % 2 = 1 THEN "key" ELSE "crt">>]
           \o <<<<"chain", "pem">>, <<"fullchain", "pem">>, <<"empty", "crl">>, <<"issuing", "crl">>>>

Paths == Range(Order)
None  == <<>>
Idle  == -1  \* no build runs
Removing == 0
Torn  == <<"torn", <<>>, <<>>, <<>>>>  \* opened, its contents not there yet

KeyOf(name) == dir[<<name, "key">>]
CrtOf(name) == dir[<<name, "crt">>]

\* What the command for a file writes: a certificate is the key it certifies
\* and the key that signed it.
Content(path) ==
  CASE path[2] = "key"          -> <<"key", path[1], build>>
    [] path[2] = "crt"          -> <<"crt", KeyOf(path[1]), KeyOf(Parent(path[1]))>>
    [] path[1] = "chain"        -> <<"pem", CrtOf("server"), CrtOf("issuing")>>
    [] path[1] = "fullchain"    -> <<"pem", CrtOf("server"), CrtOf("issuing"), CrtOf("root")>>
    [] path[2] = "crl"          -> <<"crl", path[1], KeyOf("issuing")>>

PkiInit == /\ dir = [p \in Paths |-> None]
           /\ build = 0
           /\ step = Idle

CertsOk == \A p \in {<<"server", "crt">>, <<"server", "key">>, <<"root", "crt">>,
                     <<"issuing", "crt">>, <<"chain", "pem">>} : dir[p] # None

\* pkilab for the profile: by hand at any time, or because ensure_certs found
\* a file missing.
StartBuild == /\ step = Idle /\ build < MaxBuilds
              /\ build' = build + 1
              /\ step' = Removing
              /\ UNCHANGED dir

\* Mutant of RemoveOld: the old directory stays.
RemoveNothing == step = Removing /\ step' = 1 /\ UNCHANGED <<dir, build>>

\* shutil.rmtree, file by file.
RemoveOld ==
  /\ step = Removing
  /\ IF \A p \in Paths : dir[p] = None THEN step' = 1 /\ UNCHANGED dir
     ELSE /\ \E p \in Paths : dir[p] # None /\ dir' = [dir EXCEPT ![p] = None]
          /\ UNCHANGED step
  /\ UNCHANGED build

\* The next file of the build, opened and then written.
WriteNext ==
  /\ step \in DOMAIN Order
  /\ IF dir[Order[step]] # Torn
     THEN dir' = [dir EXCEPT ![Order[step]] = Torn] /\ UNCHANGED step
     ELSE /\ dir' = [dir EXCEPT ![Order[step]] = Content(Order[step])]
          /\ step' = IF step = Len(Order) THEN Idle ELSE step + 1
  /\ UNCHANGED build

StopBuild == step # Idle /\ step' = Idle /\ UNCHANGED <<dir, build>>

PkiNext == StartBuild \/ RemoveOld \/ WriteNext \/ StopBuild

\* verify_openssl for the server: its chain, and the CRL of its issuer.
VerifyOpenssl == /\ CrtOf("root")[3] = CrtOf("root")[2]
                 /\ CrtOf("issuing")[3] = CrtOf("root")[2]
                 /\ CrtOf("server")[3] = CrtOf("issuing")[2]
                 /\ dir[<<"empty", "crl">>][3] = CrtOf("issuing")[2]

\* verify_python: the same chain, for a host, without the CRL.
VerifyPython == /\ CrtOf("issuing")[3] = CrtOf("root")[2]
                /\ CrtOf("server")[3] = CrtOf("issuing")[2]

\* If ensure_certs finds its files between builds, a server can be started
\* with them: the certificate is for the key beside it, the bundle is this
\* certificate and the CA that signed it, under the root that is there, even
\* if the latest build was stopped at any point.  The one exception is a bundle
\* that was opened and never written.  If the CRL is there too, everything
\* verifies.
CertsOkMeansUsable ==
  step = Idle /\ CertsOk =>
    /\ CrtOf("server")[2] = KeyOf("server")
    /\ VerifyPython
    /\ dir[<<"chain", "pem">>] \in {Torn, <<"pem", CrtOf("server"), CrtOf("issuing")>>}
    /\ dir[<<"empty", "crl">>] \notin {None, Torn} => VerifyOpenssl
==============================================================================
