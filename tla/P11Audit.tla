-------------------------------- MODULE P11Audit --------------------------------
(***************************************************************************)
(* labs/ch10/solution/p11audit.py: what the audit says of a PKCS#11 token, *)
(* from the header's numbers and names and from what the token answers.    *)
(***************************************************************************)
EXTENDS Integers, Sequences, SequencesExt

CONSTANTS
  Header,        \* the CKM definitions of the header in order: <<name, value>>
  VendorDefined  \* CKM_VENDOR_DEFINED

SignVerify == {"CKF_SIGN", "CKF_VERIFY"}

\* REQUIRED and RECOMMENDED: the flags each mechanism must have.
Required ==
  [CKM_ML_KEM_KEY_PAIR_GEN |-> {}, CKM_ML_KEM |-> {"CKF_ENCAPSULATE", "CKF_DECAPSULATE"},
   CKM_ML_DSA_KEY_PAIR_GEN |-> {}, CKM_ML_DSA |-> SignVerify,
   CKM_HKDF_DERIVE |-> {"CKF_DERIVE"}, CKM_AES_KEY_WRAP_KWP |-> {"CKF_WRAP", "CKF_UNWRAP"}]

Recommended ==
  [CKM_HASH_ML_DSA_SHA512 |-> {"CKF_SIGN"},
   CKM_SLH_DSA_KEY_PAIR_GEN |-> {}, CKM_SLH_DSA |-> SignVerify,
   CKM_HSS_KEY_PAIR_GEN |-> {}, CKM_HSS |-> SignVerify]

\* The mechanisms of MockPqToken, by name.
MockTable ==
  [CKM_AES_KEY_GEN |-> {"CKF_GENERATE"}, CKM_AES_GCM |-> {"CKF_ENCRYPT", "CKF_DECRYPT"},
   CKM_AES_KEY_WRAP_KWP |-> {"CKF_WRAP", "CKF_UNWRAP"}, CKM_HKDF_DERIVE |-> {"CKF_DERIVE"},
   CKM_SHA256 |-> {"CKF_DIGEST"}, CKM_SHA3_256 |-> {"CKF_DIGEST"},
   CKM_EC_KEY_PAIR_GEN |-> {"CKF_GENERATE_KEY_PAIR"}, CKM_ECDSA |-> SignVerify,
   CKM_ML_KEM_KEY_PAIR_GEN |-> {"CKF_GENERATE_KEY_PAIR"},
   CKM_ML_KEM |-> {"CKF_ENCAPSULATE", "CKF_DECAPSULATE"},
   CKM_ML_DSA_KEY_PAIR_GEN |-> {"CKF_GENERATE_KEY_PAIR"}, CKM_ML_DSA |-> SignVerify,
   CKM_HASH_ML_DSA_SHA512 |-> SignVerify,
   CKM_SLH_DSA_KEY_PAIR_GEN |-> {"CKF_GENERATE_KEY_PAIR"}, CKM_SLH_DSA |-> SignVerify,
   CKM_HSS_KEY_PAIR_GEN |-> {"CKF_GENERATE_KEY_PAIR"}, CKM_HSS |-> SignVerify]

\* fixtures/pkcs11t-v3.2.h defines each name once, a required or recommended
\* mechanism before any alias of its number, and the mechanisms of the mock
\* token with different numbers, below the vendors'.
ASSUME HeaderAssumption ==
  /\ Header \in Seq(STRING \X Nat) /\ VendorDefined \in Nat
  /\ \A i, j \in DOMAIN Header : Header[i][1] = Header[j][1] => i = j
  /\ \A name \in DOMAIN Required \cup DOMAIN Recommended :
       \E i \in DOMAIN Header : /\ Header[i][1] = name
                                /\ \A j \in 1 .. i - 1 : Header[j][2] # Header[i][2]
  /\ \A name \in DOMAIN MockTable :
       \E i \in DOMAIN Header : Header[i][1] = name /\ Header[i][2] < VendorDefined
  /\ \A i, j \in DOMAIN Header :
       /\ Header[i][1] \in DOMAIN MockTable /\ Header[j][1] \in DOMAIN MockTable
       /\ Header[i][2] = Header[j][2]
       => i = j

\* flag_names looks for these, and the header defines them all.
Wanted == {"CKF_HW", "CKF_ENCRYPT", "CKF_DECRYPT", "CKF_DIGEST", "CKF_SIGN", "CKF_VERIFY",
           "CKF_GENERATE", "CKF_GENERATE_KEY_PAIR", "CKF_WRAP", "CKF_UNWRAP", "CKF_DERIVE",
           "CKF_ENCAPSULATE", "CKF_DECAPSULATE"}

ValueOf(name) == Header[CHOOSE i \in DOMAIN Header : Header[i][1] = name /\
                          \A j \in DOMAIN Header : Header[j][1] = name => i =< j][2]

\* names_by_value: the first definition wins.
NameOf(v) == Header[CHOOSE i \in DOMAIN Header : Header[i][2] = v /\
                      \A j \in DOMAIN Header : Header[j][2] = v => i =< j][1]

FlagNames(flags) == flags \cap Wanted

Named(v) == IF \E d \in Range(Header) : d[2] = v THEN NameOf(v)
            ELSE IF v >= VendorDefined THEN "vendor-defined" ELSE "unknown"

\* audit_real: a row per mechanism, without flags where get_mechanism_info
\* fails.
Rows(token, fails) ==
  {[value |-> v, name |-> Named(v), vendor |-> v >= VendorDefined,
    flags |-> IF v \in fails THEN {} ELSE FlagNames(token[v])] : v \in DOMAIN token}

\* Mutant of Missing: one flag of the list is enough.
MissingAll(rows, spec) ==
  LET have(name) == UNION {r.flags : r \in {r \in rows : r.name = name}}
      lack(name) == IF ~\E r \in rows : r.name = name THEN {"absent"}
                    ELSE IF spec[name] \cap have(name) # {} THEN {} ELSE spec[name]
      short      == {name \in DOMAIN spec : lack(name) # {}}
  IN  [name \in short |-> lack(name)]

\* missing(): what the rows lack of a list.
Missing(rows, spec) ==
  LET have(name) == UNION {r.flags : r \in {r \in rows : r.name = name}}
      lack(name) == IF \E r \in rows : r.name = name THEN spec[name] \ have(name) ELSE {"absent"}
      short      == {name \in DOMAIN spec : lack(name) # {}}
  IN  [name \in short |-> lack(name)]

\* finish
Finish(rows) ==
  LET missing == Missing(rows, Required)
      vendor  == {r \in rows : r.vendor}
      ready   == DOMAIN missing = {}
  IN  [required    |-> missing,
       recommended |-> Missing(rows, Recommended),
       verdict     |-> IF ready THEN "READY" ELSE IF vendor # {} THEN "NOT PORTABLE" ELSE "NOT READY"]

\* main: the exit code, and the gap that --requirements puts into the request
\* to the vendor.
ExitCode(report) == IF DOMAIN report.required = {} THEN 0 ELSE 1
Gap(report) == DOMAIN report.required

\* MockPqToken.table
MockPqToken ==
  [v \in {ValueOf(n) : n \in DOMAIN MockTable} |->
     MockTable[CHOOSE n \in DOMAIN MockTable : ValueOf(n) = v]]

\* audit_mock: the header names every mechanism of the table, and no flags are
\* looked up that could fail.
AuditMock == Finish({[value |-> v, name |-> NameOf(v), vendor |-> FALSE,
                      flags |-> FlagNames(MockPqToken[v])] : v \in DOMAIN MockPqToken})
==============================================================================
