------------------------------ MODULE LabsProofs -------------------------------
(***************************************************************************)
(* Theorems about Labs: the rotation of pre-shared keys, the certificate   *)
(* hierarchy, the key encapsulations, the digits of LM-OTS and the audit   *)
(* of tokens; and about Cbom: the inventory of cryptographic assets.       *)
(***************************************************************************)
EXTENDS Labs, Cbom, FiniteSetTheorems, SequenceTheorems, WellFoundedInduction, TLAPS

-------------------------------------------------------------------------------
(* The certificate hierarchy                                                *)

\* The files in the order they are written, one by one.
LEMMA OrderIs ==
  /\ DOMAIN Order = 1 .. 12 /\ Len(Order) = 12
  /\ Order[1] = <<"root", "key">> /\ Order[2] = <<"root", "crt">>
  /\ Order[3] = <<"issuing", "key">> /\ Order[4] = <<"issuing", "crt">>
  /\ Order[5] = <<"server", "key">> /\ Order[6] = <<"server", "crt">>
  /\ Order[7] = <<"client", "key">> /\ Order[8] = <<"client", "crt">>
  /\ Order[9] = <<"chain", "pem">> /\ Order[10] = <<"fullchain", "pem">>
  /\ Order[11] = <<"empty", "crl">> /\ Order[12] = <<"issuing", "crl">>
<1> DEFINE A == [i \in 1 .. 8 |-> <<Names[(i + 1) \div 2], IF i % 2 = 1 THEN "key" ELSE "crt">>]
           B == <<<<"chain", "pem">>, <<"fullchain", "pem">>, <<"empty", "crl">>, <<"issuing", "crl">>>>
<1>1. Order = A \o B
  BY DEF Order
<1>2. /\ A[1] = <<"root", "key">> /\ A[2] = <<"root", "crt">>
      /\ A[3] = <<"issuing", "key">> /\ A[4] = <<"issuing", "crt">>
      /\ A[5] = <<"server", "key">> /\ A[6] = <<"server", "crt">>
      /\ A[7] = <<"client", "key">> /\ A[8] = <<"client", "crt">>
  BY DEF Names
<1> DEFINE X == {A[i] : i \in 1 .. 8} \cup {B[i] : i \in 1 .. 4}
<1>3. A \in Seq(X) /\ Len(A) = 8
  <2>1. A \in [1 .. 8 -> X]
    OBVIOUS
  <2> HIDE DEF A, X
  <2>2. 8 \in Nat /\ A \in UNION {[1 .. n -> X] : n \in Nat}
    BY <2>1
  <2>3. A \in Seq(X)
    BY <2>2, SeqDef
  <2>4. Len(A) \in Nat /\ DOMAIN A = 1 .. Len(A) /\ DOMAIN A = 1 .. 8
    <3>1. DOMAIN A = 1 .. 8
      BY <2>1
    <3> QED  BY <2>3, <3>1, LenProperties
  <2>5. \A n \in Nat : 1 .. n = 1 .. 8 => n = 8
    <3> SUFFICES ASSUME NEW n \in Nat, 1 .. n = 1 .. 8  PROVE n = 8
      OBVIOUS
    <3>1. 8 \in 1 .. n /\ n + 1 \notin 1 .. n
      OBVIOUS
    <3> QED  BY <3>1
  <2> QED  BY <2>3, <2>4, <2>5
<1>4. B \in Seq(X) /\ Len(B) = 4
  <2>1. \A i \in 1 .. 4 : B[i] \in X
    OBVIOUS
  <2> HIDE DEF X
  <2>2. /\ <<"chain", "pem">> \in X /\ <<"fullchain", "pem">> \in X
        /\ <<"empty", "crl">> \in X /\ <<"issuing", "crl">> \in X
    BY <2>1
  <2> QED  BY <2>2
<1>5. /\ B[1] = <<"chain", "pem">> /\ B[2] = <<"fullchain", "pem">>
      /\ B[3] = <<"empty", "crl">> /\ B[4] = <<"issuing", "crl">>
  OBVIOUS
<1> HIDE DEF A, B, X
<1>6. /\ Len(A \o B) = 12 /\ DOMAIN (A \o B) = 1 .. 12
      /\ \A i \in 1 .. 8 : (A \o B)[i] = A[i]
      /\ \A i \in 9 .. 12 : (A \o B)[i] = B[i - 8]
  <2>1. /\ A \o B \in Seq(X) /\ Len(A \o B) = Len(A) + Len(B)
        /\ \A i \in 1 .. Len(A) + Len(B) :
             (A \o B)[i] = IF i <= Len(A) THEN A[i] ELSE B[i - Len(A)]
    BY <1>3, <1>4, ConcatProperties
  <2>2. Len(A \o B) = 12 /\ DOMAIN (A \o B) = 1 .. Len(A \o B)
    BY <1>3, <1>4, <2>1, LenProperties, SMTT(60)
  <2>3. \A i \in 1 .. 12 : (A \o B)[i] = IF i <= 8 THEN A[i] ELSE B[i - 8]
    <3>1. Len(A) = 8 /\ Len(B) = 4 /\ Len(A) + Len(B) = 12
      BY <1>3, <1>4
    <3>2. \A i \in 1 .. Len(A) + Len(B) :
            (A \o B)[i] = IF i <= Len(A) THEN A[i] ELSE B[i - Len(A)]
      BY <2>1
    <3> HIDE DEF X
    <3> QED  BY ONLY <3>1, <3>2
  <2>4. \A i \in 1 .. 8 : i \in 1 .. 12 /\ i <= 8
    OBVIOUS
  <2>5. \A i \in 9 .. 12 : i \in 1 .. 12 /\ ~(i <= 8)
    OBVIOUS
  <2>6. \A i \in 1 .. 8 : (A \o B)[i] = A[i]
    BY ONLY <2>3, <2>4
  <2>7. \A i \in 9 .. 12 : (A \o B)[i] = B[i - 8]
    BY ONLY <2>3, <2>5
  <2> QED  BY <2>2, <2>6, <2>7
<1>7. /\ 9 - 8 = 1 /\ 10 - 8 = 2 /\ 11 - 8 = 3 /\ 12 - 8 = 4
      /\ {1, 2, 3, 4, 5, 6, 7, 8} \subseteq 1 .. 8 /\ {9, 10, 11, 12} \subseteq 9 .. 12
  OBVIOUS
<1> QED  BY <1>1, <1>2, <1>5, <1>6, <1>7

\* No file is written twice by one build, and these are all files.
LEMMA OrderIsInjective ==
  /\ \A i, j \in 1 .. 12 : Order[i] = Order[j] => i = j
  /\ Paths = {Order[i] : i \in 1 .. 12}
<1>1. Paths = {Order[i] : i \in 1 .. 12}
  BY OrderIs DEF Paths, Range
<1>2. \A i, j \in 1 .. 12 : Order[i] = Order[j] => i = j
  <2>1. \A i \in 1 .. 12 : \/ i = 1 \/ i = 2 \/ i = 3 \/ i = 4 \/ i = 5 \/ i = 6
                           \/ i = 7 \/ i = 8 \/ i = 9 \/ i = 10 \/ i = 11 \/ i = 12
    OBVIOUS
  <2> QED  BY <2>1, OrderIs
<1> QED  BY <1>1, <1>2

\* What build b writes in the file at place i.
PrivateKey(b, n) == <<"key", n, b>>
Crt(b, n) == <<"crt", PrivateKey(b, n), PrivateKey(b, Parent(n))>>

Written(b, i) ==
  CASE i = 1  -> PrivateKey(b, "root")
    [] i = 2  -> Crt(b, "root")
    [] i = 3  -> PrivateKey(b, "issuing")
    [] i = 4  -> Crt(b, "issuing")
    [] i = 5  -> PrivateKey(b, "server")
    [] i = 6  -> Crt(b, "server")
    [] i = 7  -> PrivateKey(b, "client")
    [] i = 8  -> Crt(b, "client")
    [] i = 9  -> <<"pem", Crt(b, "server"), Crt(b, "issuing")>>
    [] i = 10 -> <<"pem", Crt(b, "server"), Crt(b, "issuing"), Crt(b, "root")>>
    [] i = 11 -> <<"crl", "empty", PrivateKey(b, "issuing")>>
    [] i = 12 -> <<"crl", "issuing", PrivateKey(b, "issuing")>>

\* The same, one by one.
LEMMA WrittenIs ==
  ASSUME NEW b
  PROVE  /\ Written(b, 1) = PrivateKey(b, "root") /\ Written(b, 2) = Crt(b, "root")
         /\ Written(b, 3) = PrivateKey(b, "issuing") /\ Written(b, 4) = Crt(b, "issuing")
         /\ Written(b, 5) = PrivateKey(b, "server") /\ Written(b, 6) = Crt(b, "server")
         /\ Written(b, 7) = PrivateKey(b, "client") /\ Written(b, 8) = Crt(b, "client")
         /\ Written(b, 9) = <<"pem", Crt(b, "server"), Crt(b, "issuing")>>
         /\ Written(b, 10) = <<"pem", Crt(b, "server"), Crt(b, "issuing"), Crt(b, "root")>>
         /\ Written(b, 11) = <<"crl", "empty", PrivateKey(b, "issuing")>>
         /\ Written(b, 12) = <<"crl", "issuing", PrivateKey(b, "issuing")>>
BY DEF Written

\* The places of the files.
LEMMA Twelve ==
  \A i \in 1 .. 12 : \/ i = 1 \/ i = 2 \/ i = 3 \/ i = 4 \/ i = 5 \/ i = 6
                     \/ i = 7 \/ i = 8 \/ i = 9 \/ i = 10 \/ i = 11 \/ i = 12
OBVIOUS

\* What is written is neither nothing nor torn.
LEMMA WrittenIsWhole ==
  ASSUME NEW b, NEW i \in 1 .. 12
  PROVE  Written(b, i) # Torn /\ Written(b, i) # None
<1>1. Torn[1] = "torn"
  BY DEF Torn
<1>2. Written(b, i)[1] \in {"key", "crt", "pem", "crl"}
  BY Twelve, WrittenIs DEF PrivateKey, Crt
<1>3. Written(b, i) # None
  BY Twelve, WrittenIs DEF PrivateKey, Crt, None
<1> QED  BY <1>1, <1>2, <1>3

\* Behind the files of a build, the content of the next one is of that build.
LEMMA ContentIsWritten ==
  ASSUME NEW i \in 1 .. 12, \A j \in 1 .. 12 : j < i => dir[Order[j]] = Written(build, j)
  PROVE  Content(Order[i]) = Written(build, i)
<1> DEFINE Done(j) == dir[Order[j]] = Written(build, j)
<1>1. \A j \in 1 .. 12 : j < i => Done(j)
  OBVIOUS
<1>2. /\ Done(1) => KeyOf("root") = PrivateKey(build, "root")
      /\ Done(2) => CrtOf("root") = Crt(build, "root")
      /\ Done(3) => KeyOf("issuing") = PrivateKey(build, "issuing")
      /\ Done(4) => CrtOf("issuing") = Crt(build, "issuing")
      /\ Done(5) => KeyOf("server") = PrivateKey(build, "server")
      /\ Done(6) => CrtOf("server") = Crt(build, "server")
      /\ Done(7) => KeyOf("client") = PrivateKey(build, "client")
  BY OrderIs, WrittenIs DEF KeyOf, CrtOf
<1>3. /\ i > 1 => Done(1)
      /\ i > 2 => Done(2)
      /\ i > 3 => Done(3)
      /\ i > 4 => Done(4)
      /\ i > 5 => Done(5)
      /\ i > 6 => Done(6)
      /\ i > 7 => Done(7)
  BY <1>1
<1> HIDE DEF Done
<1>4. CASE i = 1
  BY <1>4, OrderIs, WrittenIs DEF Content, PrivateKey
<1>5. CASE i = 2
  <2>1. Done(1)
    BY <1>3, <1>5
  <2>2. Content(Order[2]) = <<"crt", KeyOf("root"), KeyOf("root")>>
    BY OrderIs DEF Content, Parent
  <2> QED  BY <1>2, <1>5, <2>1, <2>2, WrittenIs DEF Crt, Parent
<1>6. CASE i = 3
  BY <1>6, OrderIs, WrittenIs DEF Content, PrivateKey
<1>7. CASE i = 4
  <2>1. Done(1) /\ Done(3)
    BY <1>3, <1>7
  <2>2. Content(Order[4]) = <<"crt", KeyOf("issuing"), KeyOf("root")>>
    BY OrderIs DEF Content, Parent
  <2> QED  BY <1>2, <1>7, <2>1, <2>2, WrittenIs DEF Crt, Parent
<1>8. CASE i = 5
  BY <1>8, OrderIs, WrittenIs DEF Content, PrivateKey
<1>9. CASE i = 6
  <2>1. Done(3) /\ Done(5)
    BY <1>3, <1>9
  <2>2. Content(Order[6]) = <<"crt", KeyOf("server"), KeyOf("issuing")>>
    BY OrderIs DEF Content, Parent
  <2> QED  BY <1>2, <1>9, <2>1, <2>2, WrittenIs DEF Crt, Parent
<1>10. CASE i = 7
  BY <1>10, OrderIs, WrittenIs DEF Content, PrivateKey
<1>11. CASE i = 8
  <2>1. Done(3) /\ Done(7)
    BY <1>3, <1>11
  <2>2. Content(Order[8]) = <<"crt", KeyOf("client"), KeyOf("issuing")>>
    BY OrderIs DEF Content, Parent
  <2> QED  BY <1>2, <1>11, <2>1, <2>2, WrittenIs DEF Crt, Parent
<1>12. CASE i = 9
  <2>1. Done(4) /\ Done(6)
    BY <1>3, <1>12
  <2>2. Content(Order[9]) = <<"pem", CrtOf("server"), CrtOf("issuing")>>
    BY OrderIs DEF Content
  <2> QED  BY <1>2, <1>12, <2>1, <2>2, WrittenIs
<1>13. CASE i = 10
  <2>1. Done(2) /\ Done(4) /\ Done(6)
    BY <1>3, <1>13
  <2>2. Content(Order[10]) = <<"pem", CrtOf("server"), CrtOf("issuing"), CrtOf("root")>>
    BY OrderIs DEF Content
  <2> QED  BY <1>2, <1>13, <2>1, <2>2, WrittenIs
<1>14. CASE i = 11
  <2>1. Done(3)
    BY <1>3, <1>14
  <2>2. Content(Order[11]) = <<"crl", "empty", KeyOf("issuing")>>
    BY OrderIs DEF Content
  <2> QED  BY <1>2, <1>14, <2>1, <2>2, WrittenIs
<1>15. CASE i = 12
  <2>1. Done(3)
    BY <1>3, <1>15
  <2>2. Content(Order[12]) = <<"crl", "issuing", KeyOf("issuing")>>
    BY OrderIs DEF Content
  <2> QED  BY <1>2, <1>15, <2>1, <2>2, WrittenIs
<1> QED  BY Twelve, <1>4, <1>5, <1>6, <1>7, <1>8, <1>9, <1>10, <1>11, <1>12, <1>13, <1>14, <1>15

\* The invariant of a directory: every file is of one build, and behind a torn
\* one there is none; while a build writes, all it has passed is its own.
FilesInv ==
  /\ step \in {Idle, Removing} \cup 1 .. 12
  /\ DOMAIN dir = Paths /\ dir = [p \in DOMAIN dir |-> dir[p]]
  /\ \E b : \A i \in 1 .. 12 : dir[Order[i]] \in {None, Torn, Written(b, i)}
  /\ \A i, j \in 1 .. 12 : i < j /\ dir[Order[i]] = Torn => dir[Order[j]] = None
  /\ step \in 1 .. 12 =>
       /\ \A i \in 1 .. 12 : i < step => dir[Order[i]] = Written(build, i)
       /\ \A i \in 1 .. 12 : i > step => dir[Order[i]] = None
       /\ dir[Order[step]] \in {None, Torn}

\* One file of the directory.
LEMMA OneFile ==
  ASSUME DOMAIN dir = Paths, NEW i \in 1 .. 12, NEW v, dir' = [dir EXCEPT ![Order[i]] = v]
  PROVE  /\ DOMAIN dir' = Paths /\ dir' = [p \in DOMAIN dir' |-> dir'[p]]
         /\ dir'[Order[i]] = v
         /\ \A j \in 1 .. 12 : j # i => dir'[Order[j]] = dir[Order[j]]
BY OrderIsInjective

\* There are no files before the first build.
LEMMA FilesInit == PkiInit => FilesInv
<1> SUFFICES ASSUME PkiInit  PROVE FilesInv
  OBVIOUS
<1>1. \A i \in 1 .. 12 : dir[Order[i]] = None
  BY OrderIsInjective DEF PkiInit
<1>2. ~(Idle \in 1 .. 12) /\ step = Idle
  BY DEF Idle, PkiInit
<1>3. DOMAIN dir = Paths /\ dir = [p \in DOMAIN dir |-> dir[p]]
  BY DEF PkiInit
<1> QED  BY <1>1, <1>2, <1>3 DEF FilesInv

\* Removing, writing and being stopped anywhere keep the invariant.
LEMMA FilesStep == FilesInv /\ [PkiNext]_pkiVars => FilesInv'
<1> SUFFICES ASSUME FilesInv, [PkiNext]_pkiVars  PROVE FilesInv'
  OBVIOUS
<1>1. /\ ~(Idle \in 1 .. 12) /\ ~(Removing \in 1 .. 12) /\ Idle # Removing
      /\ Len(Order) = 12 /\ DOMAIN Order = 1 .. 12
  BY OrderIs DEF Idle, Removing
<1>2. CASE StartBuild
  <2>1. dir' = dir /\ step' = Removing
    BY <1>2 DEF StartBuild
  <2> QED  BY <1>1, <2>1 DEF FilesInv
<1>3. CASE RemoveOld
  <2>1. CASE \A p \in Paths : dir[p] = None
    <3>1. dir' = dir /\ step' = 1 /\ build' = build
      BY <1>3, <2>1 DEF RemoveOld
    <3>2. \A i \in 1 .. 12 : dir[Order[i]] = None
      BY <2>1, OrderIsInjective
    <3>3. 1 \in 1 .. 12 /\ \A i \in 1 .. 12 : ~(i < 1)
      OBVIOUS
    <3> QED  BY <3>1, <3>2, <3>3 DEF FilesInv
  <2>2. CASE ~ \A p \in Paths : dir[p] = None
    <3>1. PICK p \in Paths : dir' = [dir EXCEPT ![p] = None] /\ step' = step
      BY <1>3, <2>2 DEF RemoveOld
    <3>2. PICK i \in 1 .. 12 : p = Order[i]
      BY OrderIsInjective, SMTT(60)
    <3>3. /\ DOMAIN dir' = Paths /\ dir' = [q \in DOMAIN dir' |-> dir'[q]]
          /\ dir'[Order[i]] = None
          /\ \A j \in 1 .. 12 : j # i => dir'[Order[j]] = dir[Order[j]]
      BY <3>1, <3>2, OneFile DEF FilesInv
    <3>4. step = Removing /\ step' = Removing
      BY <1>3, <3>1 DEF RemoveOld
    <3>5. PICK b : \A j \in 1 .. 12 : dir[Order[j]] \in {None, Torn, Written(b, j)}
      BY DEF FilesInv
    <3>6. \A j \in 1 .. 12 : dir'[Order[j]] \in {None, Torn, Written(b, j)}
      BY <3>3, <3>5
    <3>7. \A k, j \in 1 .. 12 : k < j /\ dir'[Order[k]] = Torn => dir'[Order[j]] = None
      <4> SUFFICES ASSUME NEW k \in 1 .. 12, NEW j \in 1 .. 12, k < j, dir'[Order[k]] = Torn
                   PROVE  dir'[Order[j]] = None
        OBVIOUS
      <4>1. Torn # None
        BY DEF Torn, None
      <4>2. k # i /\ dir[Order[k]] = Torn
        BY <3>3, <4>1
      <4>3. dir[Order[j]] = None
        BY <4>2 DEF FilesInv
      <4> QED  BY <3>3, <4>3
    <3> QED  BY <1>1, <3>3, <3>4, <3>6, <3>7 DEF FilesInv
  <2> QED  BY <2>1, <2>2
<1>4. CASE WriteNext
  <2>1. step \in 1 .. 12 /\ build' = build
    BY <1>1, <1>4 DEF WriteNext
  <2>2. /\ \A i \in 1 .. 12 : i < step => dir[Order[i]] = Written(build, i)
        /\ \A i \in 1 .. 12 : i > step => dir[Order[i]] = None
        /\ dir[Order[step]] \in {None, Torn}
    BY <2>1 DEF FilesInv
  <2>3. CASE dir[Order[step]] # Torn
    <3>1. dir' = [dir EXCEPT ![Order[step]] = Torn] /\ step' = step
      BY <1>4, <2>3, SMTT(60) DEF WriteNext
    <3>2. /\ DOMAIN dir' = Paths /\ dir' = [q \in DOMAIN dir' |-> dir'[q]]
          /\ dir'[Order[step]] = Torn
          /\ \A j \in 1 .. 12 : j # step => dir'[Order[j]] = dir[Order[j]]
      BY <2>1, <3>1, OneFile DEF FilesInv
    <3>3. /\ \A i \in 1 .. 12 : i < step => dir'[Order[i]] = Written(build, i)
          /\ \A i \in 1 .. 12 : i > step => dir'[Order[i]] = None
      BY <2>1, <2>2, <3>2
    <3>4. \A i \in 1 .. 12 : dir'[Order[i]] \in {None, Torn, Written(build, i)}
      BY <2>1, <3>2, <3>3
    <3>5. \A i, j \in 1 .. 12 : i < j /\ dir'[Order[i]] = Torn => dir'[Order[j]] = None
      <4> SUFFICES ASSUME NEW i \in 1 .. 12, NEW j \in 1 .. 12, i < j, dir'[Order[i]] = Torn
                   PROVE  dir'[Order[j]] = None
        OBVIOUS
      <4>1. ~(i < step)
        BY <3>3, WrittenIsWhole
      <4>2. j > step
        BY <2>1, <4>1
      <4> QED  BY <3>3, <4>2
    <3> QED  BY <2>1, <3>1, <3>2, <3>3, <3>4, <3>5 DEF FilesInv
  <2>4. CASE dir[Order[step]] = Torn
    <3>1. /\ dir' = [dir EXCEPT ![Order[step]] = Content(Order[step])]
          /\ step' = IF step = 12 THEN Idle ELSE step + 1
      BY <1>1, <1>4, <2>4 DEF WriteNext
    <3>2. Content(Order[step]) = Written(build, step)
      BY <2>1, <2>2, ContentIsWritten, SMTT(60)
    <3>3. /\ DOMAIN dir' = Paths /\ dir' = [q \in DOMAIN dir' |-> dir'[q]]
          /\ dir'[Order[step]] = Written(build, step)
          /\ \A j \in 1 .. 12 : j # step => dir'[Order[j]] = dir[Order[j]]
      BY <2>1, <3>1, <3>2, OneFile DEF FilesInv
    <3>4. /\ \A i \in 1 .. 12 : i =< step => dir'[Order[i]] = Written(build, i)
          /\ \A i \in 1 .. 12 : i > step => dir'[Order[i]] = None
      BY <2>1, <2>2, <3>3
    <3>5. \A i \in 1 .. 12 : dir'[Order[i]] \in {None, Torn, Written(build, i)}
      BY <2>1, <3>4
    <3>6. \A i \in 1 .. 12 : dir'[Order[i]] # Torn
      <4>1. None # Torn
        BY DEF None, Torn
      <4> QED  BY <2>1, <3>4, <4>1, WrittenIsWhole
    <3>7. step' \in 1 .. 12 =>
            /\ \A i \in 1 .. 12 : i < step' => dir'[Order[i]] = Written(build, i)
            /\ \A i \in 1 .. 12 : i > step' => dir'[Order[i]] = None
            /\ dir'[Order[step']] = None
      <4> SUFFICES ASSUME step' \in 1 .. 12
                   PROVE  /\ \A i \in 1 .. 12 : i < step' => dir'[Order[i]] = Written(build, i)
                          /\ \A i \in 1 .. 12 : i > step' => dir'[Order[i]] = None
                          /\ dir'[Order[step']] = None
        OBVIOUS
      <4>1. step' = step + 1
        BY <1>1, <3>1
      <4> QED  BY <2>1, <3>4, <4>1
    <3>8. step' \in {Idle, Removing} \cup 1 .. 12
      BY <2>1, <3>1
    <3> QED  BY <2>1, <3>3, <3>5, <3>6, <3>7, <3>8 DEF FilesInv
  <2> QED  BY <2>3, <2>4
<1>5. CASE StopBuild
  <2>1. dir' = dir /\ step' = Idle
    BY <1>5 DEF StopBuild
  <2> QED  BY <1>1, <2>1 DEF FilesInv
<1>6. CASE UNCHANGED pkiVars
  BY <1>6 DEF FilesInv, pkiVars
<1> QED  BY <1>2, <1>3, <1>4, <1>5, <1>6 DEF PkiNext

\* If ensure_certs finds the files it looks for between two builds, whichever of
\* them were stopped, a server can be started with them: the certificate is for
\* the key beside it and chains up to the root that is there.
LEMMA FilesAreUsable == FilesInv => CertsOkMeansUsable
<1> SUFFICES ASSUME FilesInv, CertsOk
             PROVE  /\ CrtOf("server")[2] = KeyOf("server")
                    /\ VerifyPython
                    /\ dir[<<"chain", "pem">>] \in {Torn, <<"pem", CrtOf("server"), CrtOf("issuing")>>}
                    /\ dir[<<"empty", "crl">>] \notin {None, Torn} => VerifyOpenssl
  BY DEF CertsOkMeansUsable
<1>1. PICK b : \A i \in 1 .. 12 : dir[Order[i]] \in {None, Torn, Written(b, i)}
  BY DEF FilesInv
<1>2. \A i \in {2, 4, 5, 6, 9} : i \in 1 .. 12 /\ dir[Order[i]] # None
  BY OrderIs DEF CertsOk
<1>3. \A i \in {2, 4, 5, 6} : dir[Order[i]] = Written(b, i)
  <2> SUFFICES ASSUME NEW i \in {2, 4, 5, 6}  PROVE dir[Order[i]] # Torn
    BY <1>1, <1>2
  <2>1. i < 9 /\ i \in 1 .. 12 /\ 9 \in 1 .. 12
    OBVIOUS
  <2> QED  BY <1>2, <2>1 DEF FilesInv
<1>4. /\ CrtOf("root") = Crt(b, "root") /\ CrtOf("issuing") = Crt(b, "issuing")
      /\ KeyOf("server") = PrivateKey(b, "server") /\ CrtOf("server") = Crt(b, "server")
  BY <1>3, OrderIs, WrittenIs DEF CrtOf, KeyOf
<1>5. /\ Parent("root") = "root" /\ Parent("issuing") = "root" /\ Parent("server") = "issuing"
  BY DEF Parent
<1>6. CrtOf("server")[2] = KeyOf("server")
  BY <1>4 DEF Crt
<1>7. VerifyPython
  BY <1>4, <1>5 DEF VerifyPython, Crt
<1>8. dir[<<"chain", "pem">>] \in {Torn, <<"pem", CrtOf("server"), CrtOf("issuing")>>}
  <2>1. dir[Order[9]] \in {Torn, Written(b, 9)}
    BY <1>1, <1>2
  <2> QED  BY <1>4, <2>1, OrderIs, WrittenIs
<1>9. dir[<<"empty", "crl">>] \notin {None, Torn} => VerifyOpenssl
  <2> SUFFICES ASSUME dir[<<"empty", "crl">>] \notin {None, Torn}  PROVE VerifyOpenssl
    OBVIOUS
  <2>1. 11 \in 1 .. 12
    OBVIOUS
  <2>2. dir[<<"empty", "crl">>] = <<"crl", "empty", PrivateKey(b, "issuing")>>
    BY <1>1, <2>1, OrderIs, WrittenIs
  <2> QED  BY <1>4, <1>5, <2>2 DEF VerifyOpenssl, Crt
<1> QED  BY <1>6, <1>7, <1>8, <1>9

\* A server is never started with files that do not belong together, however
\* often builds were stopped (ensure_certs of interop.py, build of pkilab.py).
THEOREM HierarchyCorrect == LabsSpec => []CertsOkMeansUsable
<1>1. LabsInit => FilesInv
  BY FilesInit DEF LabsInit
<1>2. FilesInv /\ [LabsNext]_labVars => FilesInv'
  <2>1. [LabsNext]_labVars => [PkiNext]_pkiVars
    BY DEF LabsNext, labVars, Calculate, ChooseKem, ChooseToy, ChooseChannel, ChooseLms,
           ChooseHss, ChooseDigits, ChooseJws, ChooseKms, ChooseToken, Choose
  <2> QED  BY <2>1, FilesStep
<1>3. FilesInv => CertsOkMeansUsable
  BY FilesAreUsable
<1> QED  BY <1>1, <1>2, <1>3, PTL DEF LabsSpec

-------------------------------------------------------------------------------
(* The rotation of pre-shared keys, and the key encapsulations              *)

\* What is installed at an end was derived from what `origin` says: a
\* ciphertext that an encapsulation made, at the initiator for the key pair it
\* names.
FromEncaps(key, from) ==
  key # NoPsk => \E ek, coins, epoch : /\ key = <<<<"shared", ek, coins>>, 1, 2, epoch>>
                                       /\ from = <<<<ek, <<ek, coins>>>>, epoch>>
FromDecaps(key, from) ==
  key # NoPsk =>
    \E k, ek, coins, epoch : /\ key = <<MlkemDecapsulate(k, <<ek, coins>>), 1, 2, epoch>>
                             /\ from = <<<<k, <<ek, coins>>>>, epoch>>
Encapsulated(ct) == \E ek, coins : ct = <<ek, coins>>

PskInv ==
  /\ DOMAIN psk = Ends /\ DOMAIN origin = Ends
  /\ \A c \in sent : Encapsulated(c.ct)
  /\ FromEncaps(psk[1], origin[1])
  /\ FromDecaps(psk[2], origin[2])

\* Both ends give derive_psk the WireGuard keys in the same order.
LEMMA SortedEnds ==
  ASSUME NEW ss, NEW epoch
  PROVE  /\ DerivePsk(ss, 1, 3 - 1, epoch) = <<ss, 1, 2, epoch>>
         /\ DerivePsk(ss, 2, 3 - 2, epoch) = <<ss, 1, 2, epoch>>
<1>1. 3 - 1 = 2 /\ 3 - 2 = 1 /\ 1 < 2 /\ ~(2 < 1)
  OBVIOUS
<1>2. Sorted(1, 2) = <<1, 2>> /\ Sorted(2, 1) = <<1, 2>>
  BY <1>1 DEF Sorted
<1> QED  BY <1>1, <1>2 DEF DerivePsk

\* Nothing is installed when the rotation starts.
LEMMA PskInvInit == PskInit => PskInv
BY DEF PskInit, PskInv, Ends, FromEncaps, FromDecaps

\* Every command of the rotation keeps the record of what was derived.
LEMMA PskInvStep == PskInv /\ [PskNext]_pskVars => PskInv'
<1> SUFFICES ASSUME PskInv, [PskNext]_pskVars  PROVE PskInv'
  OBVIOUS
<1>1. CASE Keygen
  BY <1>1 DEF Keygen, PskInv
<1>2. ASSUME NEW ek \in 1 .. keys, NEW epoch \in Epochs, Encaps(ek, epoch)
      PROVE  PskInv'
  <2> DEFINE n == Cardinality(sent) + 1
  <2>1. /\ sent' = sent \cup {[ct |-> <<ek, n>>, epoch |-> epoch]}
        /\ Install(1, <<"shared", ek, n>>, <<ek, <<ek, n>>>>, epoch)
    BY <1>2 DEF Encaps, MlkemEncapsulate
  <2> HIDE DEF n
  <2>2. \A c \in sent' : Encapsulated(c.ct)
    BY <2>1 DEF PskInv, Encapsulated
  <2>3. CASE UNCHANGED <<psk, origin>>
    BY <2>2, <2>3 DEF PskInv
  <2>4. CASE /\ psk' = [psk EXCEPT ![1] = DerivePsk(<<"shared", ek, n>>, 1, 3 - 1, epoch)]
             /\ origin' = [origin EXCEPT ![1] = <<<<ek, <<ek, n>>>>, epoch>>]
    <3>1. /\ DOMAIN psk' = Ends /\ DOMAIN origin' = Ends
          /\ psk'[2] = psk[2] /\ origin'[2] = origin[2]
          /\ psk'[1] = DerivePsk(<<"shared", ek, n>>, 1, 3 - 1, epoch)
          /\ origin'[1] = <<<<ek, <<ek, n>>>>, epoch>>
      BY <2>4 DEF PskInv, Ends
    <3>2. psk'[1] = <<<<"shared", ek, n>>, 1, 2, epoch>>
      BY <3>1, SortedEnds
    <3>3. FromEncaps(psk'[1], origin'[1])
      BY <3>1, <3>2 DEF FromEncaps
    <3>4. FromDecaps(psk'[2], origin'[2])
      BY <3>1 DEF PskInv
    <3> QED  BY <2>2, <3>1, <3>3, <3>4 DEF PskInv
  <2> QED  BY <2>1, <2>3, <2>4 DEF Install
<1>3. ASSUME NEW c \in sent, NEW epoch \in Epochs, Decaps(c.ct, epoch)
      PROVE  PskInv'
  <2>1. sent' = sent /\ Install(2, MlkemDecapsulate(keys, c.ct), <<keys, c.ct>>, epoch)
    BY <1>3 DEF Decaps
  <2>2. PICK ek, coins : c.ct = <<ek, coins>>
    BY DEF PskInv, Encapsulated
  <2>3. CASE UNCHANGED <<psk, origin>>
    BY <2>1, <2>3 DEF PskInv
  <2>4. CASE /\ psk' = [psk EXCEPT ![2] = DerivePsk(MlkemDecapsulate(keys, c.ct), 2, 3 - 2, epoch)]
             /\ origin' = [origin EXCEPT ![2] = <<<<keys, c.ct>>, epoch>>]
    <3>1. /\ DOMAIN psk' = Ends /\ DOMAIN origin' = Ends
          /\ psk'[1] = psk[1] /\ origin'[1] = origin[1]
          /\ psk'[2] = DerivePsk(MlkemDecapsulate(keys, c.ct), 2, 3 - 2, epoch)
          /\ origin'[2] = <<<<keys, c.ct>>, epoch>>
      BY <2>4 DEF PskInv, Ends
    <3>2. psk'[2] = <<MlkemDecapsulate(keys, <<ek, coins>>), 1, 2, epoch>>
      BY <2>2, <3>1, SortedEnds
    <3>3. FromDecaps(psk'[2], origin'[2])
      <4>1. origin'[2] = <<<<keys, <<ek, coins>>>>, epoch>>
        BY <2>2, <3>1
      <4> QED  BY <3>2, <4>1 DEF FromDecaps
    <3>4. FromEncaps(psk'[1], origin'[1])
      BY <3>1 DEF PskInv
    <3> QED  BY <2>1, <3>1, <3>3, <3>4 DEF PskInv
  <2> QED  BY <2>1, <2>3, <2>4 DEF Install
<1>4. CASE UNCHANGED pskVars
  BY <1>4 DEF PskInv, pskVars
<1> QED  BY <1>1, <1>2, <1>3, <1>4 DEF PskNext

\* The keys are equal exactly when they were derived from the same.
LEMMA PsksAgree == PskInv => PsksAgreeExactly
<1> SUFFICES ASSUME PskInv, psk[1] # NoPsk, psk[2] # NoPsk
             PROVE  psk[1] = psk[2] <=> origin[1] = origin[2]
  BY DEF PsksAgreeExactly
<1>1. PICK ek, coins, epoch : /\ psk[1] = <<<<"shared", ek, coins>>, 1, 2, epoch>>
                              /\ origin[1] = <<<<ek, <<ek, coins>>>>, epoch>>
  BY DEF PskInv, FromEncaps
<1>2. PICK k, of, made, at : /\ psk[2] = <<MlkemDecapsulate(k, <<of, made>>), 1, 2, at>>
                             /\ origin[2] = <<<<k, <<of, made>>>>, at>>
  BY DEF PskInv, FromDecaps
<1>3. CASE of = k
  <2>1. MlkemDecapsulate(k, <<of, made>>) = <<"shared", k, made>>
    BY <1>3 DEF MlkemDecapsulate
  <2> QED  BY <1>1, <1>2, <1>3, <2>1
<1>4. CASE of # k
  <2>1. MlkemDecapsulate(k, <<of, made>>) = <<"rejected", k, <<of, made>>>>
    BY <1>4 DEF MlkemDecapsulate
  <2>2. MlkemDecapsulate(k, <<of, made>>)[1] # <<"shared", ek, coins>>[1]
    BY <2>1
  <2>3. psk[1] # psk[2]
    BY <1>1, <1>2, <2>2
  <2>4. origin[1] # origin[2]
    BY <1>1, <1>2, <1>4
  <2> QED  BY <2>3, <2>4
<1> QED  BY <1>3, <1>4

KemCase(c) ==
  \E name \in Kem \cup {"hybrid"}, to \in Receivers, at \in Receivers, other \in Receivers,
     coins \in 1 .. 2, eph \in Ephemerals, transcript \in 1 .. 2 :
       c = [kind |-> "kem", name |-> name, to |-> to, at |-> at, other |-> other,
            coins |-> coins, eph |-> eph, transcript |-> transcript]

\* The sets of a private and a public key are equal only when the keys are.
LEMMA ExchangesDiffer ==
  ASSUME NEW a \in Receivers, NEW b \in Receivers, NEW e \in Ephemerals, NEW f \in Ephemerals
  PROVE  {a, e} = {f, b} <=> a = b /\ e = f
<1>1. a # e /\ a # f /\ b # e /\ b # f
  BY DEF Receivers, Ephemerals
<1> QED  BY <1>1

\* The same for X-Wing's X25519 keys, which are expanded from a seed.
LEMMA ExpandedExchangesDiffer ==
  ASSUME NEW a \in Receivers, NEW b \in Receivers, NEW e \in Ephemerals, NEW f \in Ephemerals
  PROVE  {<<a, "x">>, <<e, "x">>} = {<<f, "x">>, <<b, "x">>} <=> a = b /\ e = f
<1> DEFINE A == <<a, "x">>
           B == <<b, "x">>
           E == <<e, "x">>
           F == <<f, "x">>
<1>1. A # E /\ A # F /\ B # E /\ B # F
  BY DEF Receivers, Ephemerals
<1>2. (A = B <=> a = b) /\ (E = F <=> e = f)
  OBVIOUS
<1>3. {A, E} = {F, B} <=> A = B /\ E = F
  <2> HIDE DEF A, B, E, F
  <2> QED  BY <1>1
<1> QED  BY <1>2, <1>3

\* ML-KEM gives the secret of an encapsulation for its ciphertext and its key
\* only.
LEMMA MlkemIsExact ==
  ASSUME NEW to, NEW at, NEW other, NEW coins, NEW first
  PROVE  MlkemDecapsulate(at, <<other, coins>>) = <<"shared", to, first>>
           <=> at = to /\ other = to /\ coins = first
<1>1. CASE other = at
  BY <1>1 DEF MlkemDecapsulate
<1>2. CASE other # at
  <2>1. MlkemDecapsulate(at, <<other, coins>>) = <<"rejected", at, <<other, coins>>>>
    BY <1>2 DEF MlkemDecapsulate
  <2>2. MlkemDecapsulate(at, <<other, coins>>)[1] # <<"shared", to, first>>[1]
    BY <2>1
  <2> QED  BY <1>2, <2>2
<1> QED  BY <1>1, <1>2

\* Each of the constructions gives the receiver the sender's secret exactly for
\* an intact exchange at the recipient it was made for.
LEMMA KemIsExact ==
  ASSUME NEW c, KemCase(c)
  PROVE  LET made    == Made(c, c.to, 1, "e1")
             intact  == Arrived(c) = made.ct /\ c.at = c.to
             context == c.name = "hybrid" => c.transcript = 1
         IN  Opened(c) = made.ss <=> intact /\ context
<1> DEFINE made == Made(c, c.to, 1, "e1")
           Exact == Opened(c) = made.ss
                      <=> /\ Arrived(c) = made.ct /\ c.at = c.to
                          /\ c.name = "hybrid" => c.transcript = 1
<1>1. /\ c.to \in Receivers /\ c.at \in Receivers /\ c.other \in Receivers
      /\ c.coins \in 1 .. 2 /\ c.eph \in Ephemerals /\ "e1" \in Ephemerals
      /\ c.name \in {"hybrid", "X25519", "ML-KEM-768", "X-Wing"}
  BY DEF KemCase, Kem, Ephemerals
<1>2. ASSUME c.name = "hybrid"  PROVE Exact
  <2>1. \A to, coins, eph :
          Made(c, to, coins, eph) = [ss |-> <<<<"shared", to, coins>>, {eph, to}, 1>>,
                                     ct |-> <<<<to, coins>>, eph>>]
    BY <1>2 DEF Made, ServerEncaps, ClientKeygen, MlkemEncapsulate, Combine, Exchange
  <2>2. Arrived(c) = <<<<c.other, c.coins>>, c.eph>>
    BY <1>2, <2>1 DEF Arrived
  <2>3. Opened(c) = <<MlkemDecapsulate(c.at, <<c.other, c.coins>>), {c.at, c.eph}, c.transcript>>
    BY <1>2, <2>2 DEF Opened, ClientDecaps, ClientKeygen, Combine, Exchange
  <2>4. made.ss = <<<<"shared", c.to, 1>>, {"e1", c.to}, 1>> /\ made.ct = <<<<c.to, 1>>, "e1">>
    BY <2>1
  <2>5. MlkemDecapsulate(c.at, <<c.other, c.coins>>) = <<"shared", c.to, 1>>
          <=> c.at = c.to /\ c.other = c.to /\ c.coins = 1
    BY MlkemIsExact, SMTT(60)
  <2>6. {c.at, c.eph} = {"e1", c.to} <=> c.at = c.to /\ c.eph = "e1"
    BY ONLY <1>1, ExchangesDiffer
  <2>7. Opened(c) = made.ss <=> /\ c.at = c.to /\ c.other = c.to /\ c.coins = 1
                                /\ c.eph = "e1" /\ c.transcript = 1
    BY <2>3, <2>4, <2>5, <2>6
  <2>8. Arrived(c) = made.ct <=> c.other = c.to /\ c.coins = 1 /\ c.eph = "e1"
    BY <2>2, <2>4
  <2> HIDE DEF made
  <2> QED  BY <1>2, <2>7, <2>8
<1>3. ASSUME c.name = "X25519"  PROVE Exact
  <2>1. \A to, coins, eph :
          Made(c, to, coins, eph) = [ss |-> <<"x25519-kem", eph, to, {eph, to}>>, ct |-> eph]
    BY <1>3 DEF Made, KemEncapsulate, KemPublic, Eph, X25519Derive, Exchange
  <2>2. Arrived(c) = c.eph
    BY <1>3, <2>1 DEF Arrived
  <2>3. Opened(c) = <<"x25519-kem", c.eph, c.at, {c.at, c.eph}>>
    BY <1>3, <2>2 DEF Opened, KemDecapsulate, X25519Derive, Exchange
  <2>4. made.ss = <<"x25519-kem", "e1", c.to, {"e1", c.to}>> /\ made.ct = "e1"
    BY <2>1
  <2>5. {c.at, c.eph} = {"e1", c.to} <=> c.at = c.to /\ c.eph = "e1"
    BY ONLY <1>1, ExchangesDiffer
  <2>6. Opened(c) = made.ss <=> c.at = c.to /\ c.eph = "e1"
    BY <2>3, <2>4, <2>5
  <2> HIDE DEF made
  <2> QED  BY <1>3, <2>2, <2>4, <2>6
<1>4. ASSUME c.name = "ML-KEM-768"  PROVE Exact
  <2>1. \A to, coins, eph :
          Made(c, to, coins, eph) = [ss |-> <<"shared", to, coins>>, ct |-> <<to, coins>>]
    BY <1>4 DEF Made, KemEncapsulate, KemPublic, MlkemEncapsulate
  <2>2. Arrived(c) = <<c.other, c.coins>>
    BY <1>4, <2>1 DEF Arrived
  <2>3. Opened(c) = MlkemDecapsulate(c.at, <<c.other, c.coins>>)
    BY <1>4, <2>2 DEF Opened, KemDecapsulate
  <2>4. made.ss = <<"shared", c.to, 1>> /\ made.ct = <<c.to, 1>>
    BY <2>1
  <2>5. MlkemDecapsulate(c.at, <<c.other, c.coins>>) = <<"shared", c.to, 1>>
          <=> c.at = c.to /\ c.other = c.to /\ c.coins = 1
    BY MlkemIsExact, SMTT(60)
  <2>6. Arrived(c) = made.ct <=> c.other = c.to /\ c.coins = 1
    BY <2>2, <2>4
  <2> HIDE DEF made
  <2> QED  BY <1>4, <2>3, <2>4, <2>5, <2>6
<1>5. ASSUME c.name = "X-Wing"  PROVE Exact
  <2>1. \A to, coins, eph :
          Made(c, to, coins, eph) =
            [ss |-> <<<<"shared", <<to, "m">>, coins>>, {<<eph, "x">>, <<to, "x">>}, <<eph, "x">>,
                      <<to, "x">>, "label">>,
             ct |-> <<<<<<to, "m">>, coins>>, <<eph, "x">>>>]
    BY <1>5 DEF Made, KemEncapsulate, KemPublic, Eph, GenerateKeypair, ExpandDecapsulationKey,
                XWingEncapsulate, XWingCombiner, MlkemEncapsulate, Exchange
  <2>2. Arrived(c) = <<<<<<c.other, "m">>, c.coins>>, <<c.eph, "x">>>>
    BY <1>5, <2>1 DEF Arrived
  <2>3. Opened(c) = <<MlkemDecapsulate(<<c.at, "m">>, <<<<c.other, "m">>, c.coins>>),
                      {<<c.at, "x">>, <<c.eph, "x">>}, <<c.eph, "x">>, <<c.at, "x">>, "label">>
    BY <1>5, <2>2 DEF Opened, KemDecapsulate, XWingDecapsulate, XWingCombiner,
                      ExpandDecapsulationKey, Exchange
  <2>4. /\ made.ss = <<<<"shared", <<c.to, "m">>, 1>>, {<<"e1", "x">>, <<c.to, "x">>}, <<"e1", "x">>,
                       <<c.to, "x">>, "label">>
        /\ made.ct = <<<<<<c.to, "m">>, 1>>, <<"e1", "x">>>>
    BY <2>1
  <2>5. MlkemDecapsulate(<<c.at, "m">>, <<<<c.other, "m">>, c.coins>>) = <<"shared", <<c.to, "m">>, 1>>
          <=> <<c.at, "m">> = <<c.to, "m">> /\ <<c.other, "m">> = <<c.to, "m">> /\ c.coins = 1
    BY MlkemIsExact
  <2>6. {<<c.at, "x">>, <<c.eph, "x">>} = {<<"e1", "x">>, <<c.to, "x">>}
          <=> c.at = c.to /\ c.eph = "e1"
    BY <1>1, ExpandedExchangesDiffer
  <2>7. Opened(c) = made.ss <=> /\ c.at = c.to /\ c.other = c.to /\ c.coins = 1
                                /\ c.eph = "e1"
    BY <2>3, <2>4, <2>5, <2>6
  <2>8. Arrived(c) = made.ct <=> c.other = c.to /\ c.coins = 1 /\ c.eph = "e1"
    BY <2>2, <2>4
  <2> HIDE DEF made
  <2> QED  BY <1>5, <2>7, <2>8
<1>6. Exact
  BY <1>1, <1>2, <1>3, <1>4, <1>5
<1> QED  BY <1>6

ToyCase(c) ==
  \E at, pk, m, r, tail \in 1 .. 2 :
    c = [kind |-> "toy", at |-> at, pk |-> pk, m |-> m, r |-> r, tail |-> tail]

\* The toy KEM derives the ciphertext again and takes it for real only if it
\* was encapsulated to the key at hand.
LEMMA ToyIsExact ==
  ASSUME NEW c, ToyCase(c)
  PROVE  LET made == ToyEncapsulate(1, <<1>>)
             ct   == <<ToyMask(c.pk, <<c.m>>, <<"r", <<c.r>>>>), <<"r", <<c.tail>>>>>>
             real(ss) == \E m \in 1 .. 2 : LET e == ToyEncapsulate(c.at, <<m>>)
                                          IN  e.ct = ct /\ e.ss = ss
         IN  /\ real(DecapsLeaky(c.at, 3, ct)) <=> real(DecapsCt(c.at, 3, ct))
             /\ DecapsLeaky(c.at, 3, ct) = made.ss <=> c.at = 1 /\ ct = made.ct
             /\ DecapsCt(c.at, 3, ct) = made.ss <=> c.at = 1 /\ ct = made.ct
<1> DEFINE made == ToyEncapsulate(1, <<1>>)
           ct   == <<ToyMask(c.pk, <<c.m>>, <<"r", <<c.r>>>>), <<"r", <<c.tail>>>>>>
           real(ss) == \E m \in 1 .. 2 : LET e == ToyEncapsulate(c.at, <<m>>)
                                        IN  e.ct = ct /\ e.ss = ss
           good     == <<"K", <<c.m>>, c.at>>
           accepted == c.pk = c.at /\ c.r = c.tail /\ c.m = c.r
<1>1. c.at \in 1 .. 2 /\ c.pk \in 1 .. 2 /\ c.m \in 1 .. 2 /\ c.r \in 1 .. 2 /\ c.tail \in 1 .. 2
  BY DEF ToyCase
<1>2. \A pk, m : /\ ToyEncapsulate(pk, m).ss = <<"K", m, pk>>
                 /\ ToyEncapsulate(pk, m).ct = ToyReencrypt(pk, m)
  BY DEF ToyEncapsulate
<1>3. /\ ct[1] = [pk |-> c.pk, m |-> <<c.m>>, r |-> <<"r", <<c.r>>>>]
      /\ ct[2] = <<"r", <<c.tail>>>>
  BY DEF ToyMask
<1>4. \A pk, m : ToyReencrypt(pk, <<m>>) = ct <=> pk = c.pk /\ m = c.m /\ m = c.r /\ m = c.tail
  BY DEF ToyReencrypt, ToyMask
<1>5. accepted => /\ ToyDecrypt(c.at, ct) = <<c.m>>
                  /\ ToyReencrypt(c.at, ToyDecrypt(c.at, ct)) = ct
  <2>1. accepted => ToyDecrypt(c.at, ct) = <<c.m>>
    BY <1>3 DEF ToyDecrypt
  <2> HIDE DEF ct
  <2> QED  BY <1>4, <2>1
<1>6. ~accepted => ToyReencrypt(c.at, ToyDecrypt(c.at, ct)) # ct
  <2>1. CASE c.pk = c.at /\ c.r = c.tail
    <3>1. ToyDecrypt(c.at, ct) = <<c.m>>
      BY <1>3, <2>1 DEF ToyDecrypt
    <3> HIDE DEF ct
    <3> QED  BY <1>4, <2>1, <3>1
  <2>2. CASE ~(c.pk = c.at /\ c.r = c.tail)
    <3>1. ToyDecrypt(c.at, ct) = <<"noise", ct>>
      BY <1>3, <2>2, SMTT(60) DEF ToyDecrypt
    <3>2. ToyReencrypt(c.at, <<"noise", ct>>)[1].m = <<"noise", ct>>
      BY DEF ToyReencrypt, ToyMask
    <3>3. <<"noise", ct>> # <<c.m>> /\ ct[1].m = <<c.m>>
      BY <1>3
    <3> HIDE DEF ct
    <3> QED  BY <3>1, <3>2, <3>3
  <2> QED  BY <2>1, <2>2
<1> HIDE DEF ct
<1>7. /\ accepted => DecapsLeaky(c.at, 3, ct) = good /\ DecapsCt(c.at, 3, ct) = good
      /\ ~accepted => /\ DecapsLeaky(c.at, 3, ct) = <<"H40", 3, ct>>
                      /\ DecapsCt(c.at, 3, ct) = <<"J", 3, ct>>
  BY <1>5, <1>6 DEF DecapsLeaky, DecapsCt
<1>8. \A m : <<"H40", 3, ct>> # <<"K", <<m>>, c.at>> /\ <<"J", 3, ct>> # <<"K", <<m>>, c.at>>
  OBVIOUS
<1>9. /\ ~real(<<"H40", 3, ct>>) /\ ~real(<<"J", 3, ct>>)
      /\ accepted => real(good)
  BY <1>1, <1>2, <1>4, <1>8
<1>10. made.ss = <<"K", <<1>>, 1>> /\ (made.ct = ct <=> c.pk = 1 /\ c.m = 1 /\ c.r = 1 /\ c.tail = 1)
  BY <1>2, <1>4
<1>11. /\ good = made.ss <=> c.m = 1 /\ c.at = 1
       /\ <<"H40", 3, ct>> # made.ss /\ <<"J", 3, ct>> # made.ss
  BY <1>10
<1> HIDE DEF made, real, good
<1>12. real(DecapsLeaky(c.at, 3, ct)) <=> real(DecapsCt(c.at, 3, ct))
  BY <1>7, <1>9
<1>13. /\ DecapsLeaky(c.at, 3, ct) = made.ss <=> c.at = 1 /\ ct = made.ct
       /\ DecapsCt(c.at, 3, ct) = made.ss <=> c.at = 1 /\ ct = made.ct
  BY <1>7, <1>10, <1>11
<1> USE DEF made, ct, real
<1> QED  BY ONLY <1>12, <1>13

ChannelCase(c) ==
  \E kem \in Kem, sig \in ChannelSigs, otherKem \in Kem, otherSession \in 1 .. 2,
     part \in {"pub", "ct", "none"} :
       c = [kind |-> "channel", kem |-> kem, sig |-> sig, otherKem |-> otherKem,
            otherSession |-> otherSession, part |-> part]

\* The key of a channel is the one its KEM derives from this session's keys,
\* and the other end derives the same.
LEMMA ChannelKeys ==
  ASSUME NEW kem \in Kem, NEW sig, NEW session
  PROVE  /\ Establish(kem, sig, session).agreed
         /\ kem = "X25519" => Establish(kem, sig, session).key =
                                <<"x25519-kem", session, session, {session}>>
         /\ kem = "ML-KEM-768" => Establish(kem, sig, session).key = <<"shared", session, session>>
         /\ kem = "X-Wing" => Establish(kem, sig, session).key =
                                <<<<"shared", <<session, "m">>, session>>, {<<session, "x">>},
                                  <<session, "x">>, <<session, "x">>, "label">>
<1> DEFINE e == KemEncapsulate(kem, KemPublic(kem, session), session,
                               IF kem = "X-Wing" THEN <<session, "x">> ELSE session)
<1>1. /\ Establish(kem, sig, session).agreed <=> e.ss = KemDecapsulate(kem, session, e.ct)
      /\ Establish(kem, sig, session).key = e.ss
  BY DEF Establish
<1>2. ASSUME kem = "X25519"
      PROVE  /\ e.ss = <<"x25519-kem", session, session, {session}>>
             /\ e.ss = KemDecapsulate(kem, session, e.ct)
  BY <1>2 DEF KemEncapsulate, KemPublic, KemDecapsulate, X25519Derive, Exchange
<1>3. ASSUME kem = "ML-KEM-768"
      PROVE  /\ e.ss = <<"shared", session, session>>
             /\ e.ss = KemDecapsulate(kem, session, e.ct)
  BY <1>3 DEF KemEncapsulate, KemPublic, KemDecapsulate, MlkemEncapsulate, MlkemDecapsulate
<1>4. ASSUME kem = "X-Wing"
      PROVE  /\ e.ss = <<<<"shared", <<session, "m">>, session>>, {<<session, "x">>},
                         <<session, "x">>, <<session, "x">>, "label">>
             /\ e.ss = KemDecapsulate(kem, session, e.ct)
  <2>1. e = [ss |-> <<<<"shared", <<session, "m">>, session>>, {<<session, "x">>},
                      <<session, "x">>, <<session, "x">>, "label">>,
             ct |-> <<<<<<session, "m">>, session>>, <<session, "x">>>>]
    BY <1>4 DEF KemEncapsulate, KemPublic, GenerateKeypair, ExpandDecapsulationKey,
                XWingEncapsulate, XWingCombiner, MlkemEncapsulate, Exchange
  <2>2. KemDecapsulate(kem, session, <<<<<<session, "m">>, session>>, <<session, "x">>>>) =
          <<<<"shared", <<session, "m">>, session>>, {<<session, "x">>},
            <<session, "x">>, <<session, "x">>, "label">>
    BY <1>4 DEF KemDecapsulate, XWingDecapsulate, XWingCombiner, ExpandDecapsulationKey,
                MlkemDecapsulate, Exchange
  <2> HIDE DEF e
  <2> QED  BY <2>1, <2>2
<1> HIDE DEF e
<1> QED  BY <1>1, <1>2, <1>3, <1>4 DEF Kem

\* A channel opens what was sealed under its own key only.
LEMMA ChannelIsExact ==
  ASSUME NEW c, ChannelCase(c)
  PROVE  LET one   == Establish(c.kem, c.sig, 1)
             other == Establish(c.otherKem, c.sig, c.otherSession)
         IN  /\ one.agreed
             /\ Opens(other, Seal(one, 1, "hello")) <=> c.otherKem = c.kem /\ c.otherSession = 1
<1> DEFINE one   == Establish(c.kem, c.sig, 1)
           other == Establish(c.otherKem, c.sig, c.otherSession)
<1>1. c.kem \in Kem /\ c.otherKem \in Kem /\ c.otherSession \in 1 .. 2
  BY DEF ChannelCase
<1>2. Opens(other, Seal(one, 1, "hello")) <=> one.key = other.key
  BY DEF Opens, Seal, AesGcm
<1>3. \A s, t, x, y : /\ <<"x25519-kem", s, s, x>> # <<"shared", t, t>>
                      /\ <<"x25519-kem", s, s, x>> # <<<<"shared", <<t, "m">>, t>>, y, <<t, "x">>, <<t, "x">>, "label">>
                      /\ <<"shared", s, s>> # <<<<"shared", <<t, "m">>, t>>, y, <<t, "x">>, <<t, "x">>, "label">>
                      /\ <<"x25519-kem", s, s, x>> = <<"x25519-kem", t, t, y>> => s = t
                      /\ <<"shared", s, s>> = <<"shared", t, t>> => s = t
                      /\ <<<<"shared", <<s, "m">>, s>>, x, <<s, "x">>, <<s, "x">>, "label">> =
                           <<<<"shared", <<t, "m">>, t>>, y, <<t, "x">>, <<t, "x">>, "label">> => s = t
  OBVIOUS
<1>4. /\ one.agreed
      /\ c.kem = "X25519" => one.key = <<"x25519-kem", 1, 1, {1}>>
      /\ c.kem = "ML-KEM-768" => one.key = <<"shared", 1, 1>>
      /\ c.kem = "X-Wing" => one.key = <<<<"shared", <<1, "m">>, 1>>, {<<1, "x">>}, <<1, "x">>, <<1, "x">>, "label">>
  BY <1>1, ChannelKeys
<1> DEFINE s == c.otherSession
<1>5. /\ c.otherKem = "X25519" => other.key = <<"x25519-kem", s, s, {s}>>
      /\ c.otherKem = "ML-KEM-768" => other.key = <<"shared", s, s>>
      /\ c.otherKem = "X-Wing" => other.key = <<<<"shared", <<s, "m">>, s>>, {<<s, "x">>}, <<s, "x">>, <<s, "x">>, "label">>
  BY ONLY <1>1, ChannelKeys
<1> HIDE DEF one, other, s
<1>6. one.key = other.key => c.otherKem = c.kem /\ s = 1
  BY <1>1, <1>3, <1>4, <1>5 DEF Kem
<1>7. c.otherKem = c.kem /\ s = 1 => one.key = other.key
  BY <1>1, <1>4, <1>5 DEF Kem
<1> QED  BY <1>2, <1>4, <1>6, <1>7 DEF one, other, s

\* What was chosen, and the rotation so far.
SecretsInv ==
  /\ PskInv
  /\ case.kind = "kem" => KemCase(case)
  /\ case.kind = "toy" => ToyCase(case)
  /\ case.kind = "channel" => ChannelCase(case)

\* Every two ends hold one secret exactly when they should (derive_psk of
\* wgpsk.py, hybrid.py, xwing.py, the providers and the channel of ch11, and
\* both decapsulations of timing.py), whatever the bounds of the rotation.
THEOREM SecretsCorrect == LabsSpec => []SecretsAgreeExactly
<1>1. LabsInit => SecretsInv
  BY PskInvInit DEF LabsInit, NoCase, SecretsInv
<1>2. SecretsInv /\ [LabsNext]_labVars => SecretsInv'
  <2> SUFFICES ASSUME SecretsInv, [LabsNext]_labVars  PROVE SecretsInv'
    OBVIOUS
  <2>1. [PskNext]_pskVars
    BY DEF LabsNext, labVars, Calculate, ChooseKem, ChooseToy, ChooseChannel, ChooseLms,
           ChooseHss, ChooseDigits, ChooseJws, ChooseKms, ChooseToken, Choose
  <2>2. PskInv'
    BY <2>1, PskInvStep DEF SecretsInv
  <2>3. CASE case' = case
    BY <2>2, <2>3 DEF SecretsInv
  <2>4. CASE ChooseKem
    <3>1. KemCase(case') /\ case'.kind = "kem"
      <4>1. PICK name \in Kem \cup {"hybrid"}, to \in Receivers, at \in Receivers, other \in Receivers,
                 coins \in 1 .. 2, eph \in Ephemerals, transcript \in 1 .. 2 :
                   case' = [kind |-> "kem", name |-> name, to |-> to, at |-> at, other |-> other,
                            coins |-> coins, eph |-> eph, transcript |-> transcript]
        BY <2>4 DEF ChooseKem, Choose
      <4>2. KemCase(case')
        BY ONLY <4>1 DEF KemCase
      <4> QED  BY <4>1, <4>2
    <3> QED  BY <2>2, <3>1 DEF SecretsInv
  <2>5. CASE ChooseToy
    <3>1. ToyCase(case') /\ case'.kind = "toy"
      BY <2>5, SMTT(60) DEF ChooseToy, Choose, ToyCase
    <3> QED  BY <2>2, <3>1 DEF SecretsInv
  <2>6. CASE ChooseChannel
    <3>1. ChannelCase(case') /\ case'.kind = "channel"
      BY <2>6 DEF ChooseChannel, Choose, ChannelCase
    <3> QED  BY <2>2, <3>1 DEF SecretsInv
  <2>7. CASE \/ ChooseLms \/ ChooseHss \/ ChooseDigits \/ ChooseJws \/ ChooseKms \/ ChooseToken
    <3>1. case'.kind \in {"lms", "hss", "digits", "jws", "kms", "token"}
      BY <2>7 DEF ChooseLms, ChooseHss, ChooseDigits, ChooseJws, ChooseKms, ChooseToken, Choose
    <3> QED  BY <2>2, <3>1 DEF SecretsInv
  <2> QED  BY <2>3, <2>4, <2>5, <2>6, <2>7 DEF LabsNext, Calculate, labVars
<1>3. SecretsInv => SecretsAgreeExactly
  <2> SUFFICES ASSUME SecretsInv  PROVE SecretsAgreeExactly
    OBVIOUS
  <2>1. PsksAgreeExactly
    BY PsksAgree DEF SecretsInv
  <2>2. case.kind = "kem" =>
          LET made    == Made(case, case.to, 1, "e1")
              intact  == Arrived(case) = made.ct /\ case.at = case.to
              context == case.name = "hybrid" => case.transcript = 1
          IN  Opened(case) = made.ss <=> intact /\ context
    BY KemIsExact DEF SecretsInv
  <2>3. case.kind = "toy" =>
          LET made == ToyEncapsulate(1, <<1>>)
              ct   == <<ToyMask(case.pk, <<case.m>>, <<"r", <<case.r>>>>), <<"r", <<case.tail>>>>>>
              real(ss) == \E m \in 1 .. 2 : LET e == ToyEncapsulate(case.at, <<m>>)
                                           IN  e.ct = ct /\ e.ss = ss
          IN  /\ real(DecapsLeaky(case.at, 3, ct)) <=> real(DecapsCt(case.at, 3, ct))
              /\ DecapsLeaky(case.at, 3, ct) = made.ss <=> case.at = 1 /\ ct = made.ct
              /\ DecapsCt(case.at, 3, ct) = made.ss <=> case.at = 1 /\ ct = made.ct
    BY ToyIsExact DEF SecretsInv
  <2>4. case.kind = "channel" =>
          LET one   == Establish(case.kem, case.sig, 1)
              other == Establish(case.otherKem, case.sig, case.otherSession)
          IN  /\ one.agreed
              /\ Opens(other, Seal(one, 1, "hello"))
                   <=> case.otherKem = case.kem /\ case.otherSession = 1
    BY ChannelIsExact DEF SecretsInv
  <2> QED  BY ONLY <2>1, <2>2, <2>3, <2>4 DEF SecretsAgreeExactly
<1> QED  BY <1>1, <1>2, <1>3, PTL DEF LabsSpec

-------------------------------------------------------------------------------
(* The audit of tokens                                                      *)

\* A set of numbers that is not empty has a smallest one.
LEMMA LeastNumber ==
  ASSUME NEW S, S \subseteq Nat, S # {}
  PROVE  \E x \in S : \A y \in S : x =< y
<1>1. PICK x \in S : \A y \in S : ~(<<y, x>> \in OpToRel(<, Nat))
  BY NatLessThanWellFounded, WFMin
<1>2. \A y \in S : ~(y < x)
  BY <1>1 DEF OpToRel
<1> QED  BY <1>2

Known == DOMAIN Required \cup DOMAIN Recommended

\* REQUIRED, one by one.
LEMMA RequiredIs ==
  /\ DOMAIN Required = {"CKM_ML_KEM_KEY_PAIR_GEN", "CKM_ML_DSA_KEY_PAIR_GEN", "CKM_ML_KEM",
                        "CKM_ML_DSA", "CKM_HKDF_DERIVE", "CKM_AES_KEY_WRAP_KWP"}
  /\ Required["CKM_ML_KEM_KEY_PAIR_GEN"] = {} /\ Required["CKM_ML_DSA_KEY_PAIR_GEN"] = {}
  /\ Required["CKM_ML_KEM"] = {"CKF_ENCAPSULATE", "CKF_DECAPSULATE"}
  /\ Required["CKM_ML_DSA"] = SignVerify /\ Required["CKM_HKDF_DERIVE"] = {"CKF_DERIVE"}
  /\ Required["CKM_AES_KEY_WRAP_KWP"] = {"CKF_WRAP", "CKF_UNWRAP"}
BY DEF Required

\* RECOMMENDED, one by one.
LEMMA RecommendedIs ==
  /\ DOMAIN Recommended = {"CKM_SLH_DSA_KEY_PAIR_GEN", "CKM_HSS_KEY_PAIR_GEN",
                           "CKM_HASH_ML_DSA_SHA512", "CKM_SLH_DSA", "CKM_HSS"}
  /\ Recommended["CKM_SLH_DSA_KEY_PAIR_GEN"] = {} /\ Recommended["CKM_HSS_KEY_PAIR_GEN"] = {}
  /\ Recommended["CKM_HASH_ML_DSA_SHA512"] = {"CKF_SIGN"}
  /\ Recommended["CKM_SLH_DSA"] = SignVerify /\ Recommended["CKM_HSS"] = SignVerify
BY DEF Recommended

\* The mechanisms of the mock token that the lists ask for.
LEMMA MockTableIs ==
  /\ Known \subseteq DOMAIN MockTable
  /\ \A n \in {"CKM_ML_KEM_KEY_PAIR_GEN", "CKM_ML_DSA_KEY_PAIR_GEN", "CKM_SLH_DSA_KEY_PAIR_GEN",
               "CKM_HSS_KEY_PAIR_GEN"} : MockTable[n] = {"CKF_GENERATE_KEY_PAIR"}
  /\ MockTable["CKM_ML_KEM"] = {"CKF_ENCAPSULATE", "CKF_DECAPSULATE"}
  /\ MockTable["CKM_HKDF_DERIVE"] = {"CKF_DERIVE"}
  /\ MockTable["CKM_AES_KEY_WRAP_KWP"] = {"CKF_WRAP", "CKF_UNWRAP"}
  /\ \A n \in {"CKM_ML_DSA", "CKM_HASH_ML_DSA_SHA512", "CKM_SLH_DSA", "CKM_HSS"} : MockTable[n] = SignVerify
<1>1. /\ Known \subseteq DOMAIN MockTable
  BY RequiredIs, RecommendedIs DEF Known, MockTable
<1>2. \A n \in {"CKM_ML_KEM_KEY_PAIR_GEN", "CKM_ML_DSA_KEY_PAIR_GEN", "CKM_SLH_DSA_KEY_PAIR_GEN",
                "CKM_HSS_KEY_PAIR_GEN"} : MockTable[n] = {"CKF_GENERATE_KEY_PAIR"}
  BY DEF MockTable
<1>3. /\ MockTable["CKM_ML_KEM"] = {"CKF_ENCAPSULATE", "CKF_DECAPSULATE"}
      /\ MockTable["CKM_HKDF_DERIVE"] = {"CKF_DERIVE"}
      /\ MockTable["CKM_AES_KEY_WRAP_KWP"] = {"CKF_WRAP", "CKF_UNWRAP"}
  BY DEF MockTable
<1>4. \A n \in {"CKM_ML_DSA", "CKM_HASH_ML_DSA_SHA512", "CKM_SLH_DSA", "CKM_HSS"} : MockTable[n] = SignVerify
  BY DEF MockTable
<1> QED  BY <1>1, <1>2, <1>3, <1>4

\* The header gives a name of the lists one number, and that number this name.
LEMMA NumbersAndNames ==
  ASSUME NEW n \in Known
  PROVE  /\ \E d \in Range(Header) : d[2] = ValueOf(n)
         /\ \A v : Named(v) = n <=> v = ValueOf(n)
<1>1. PICK i \in DOMAIN Header : /\ Header[i][1] = n
                                 /\ \A j \in 1 .. i - 1 : Header[j][2] # Header[i][2]
  BY HeaderAssumption DEF Known
<1>2. DOMAIN Header \subseteq Nat \ {0}
  BY HeaderAssumption
<1>3. ValueOf(n) = Header[i][2]
  <2> DEFINE P(k) == Header[k][1] = n /\ \A j \in DOMAIN Header : Header[j][1] = n => k =< j
             k == CHOOSE k \in DOMAIN Header : P(k)
  <2>1. \A j \in DOMAIN Header : Header[j][1] = n => j = i
    BY <1>1, HeaderAssumption
  <2>2. P(i)
    BY <1>1, <1>2, <2>1
  <2>3. k \in DOMAIN Header /\ P(k)
    BY <2>2
  <2>4. k = i
    BY <2>1, <2>3
  <2> QED  BY <2>4 DEF ValueOf
<1>4. ASSUME NEW v, \E d \in Range(Header) : d[2] = v
      PROVE  /\ NameOf(v) = n <=> v = Header[i][2]
  <2> DEFINE P(k) == Header[k][2] = v /\ \A j \in DOMAIN Header : Header[j][2] = v => k =< j
             k == CHOOSE k \in DOMAIN Header : P(k)
             V == {j \in DOMAIN Header : Header[j][2] = v}
  <2>1. V \subseteq Nat /\ V # {}
    BY <1>2, <1>4 DEF Range
  <2>2. \E x \in V : \A y \in V : x =< y
    <3> HIDE DEF V
    <3> QED  BY <2>1, LeastNumber
  <2>3. k \in DOMAIN Header /\ P(k)
    BY <2>2
  <2>4. NameOf(v) = Header[k][1]
    BY DEF NameOf
  <2>5. NameOf(v) = n => k = i
    BY <1>1, <2>3, <2>4, HeaderAssumption
  <2>6. v = Header[i][2] => k = i
    <3> SUFFICES ASSUME v = Header[i][2]  PROVE k = i
      OBVIOUS
    <3>1. k =< i /\ Header[k][2] = Header[i][2]
      BY <1>1, <2>3
    <3>2. k \in Nat \ {0} /\ i \in Nat \ {0}
      BY <1>1, <1>2, <2>3
    <3>3. k \notin 1 .. i - 1
      BY <1>1, <3>1
    <3> HIDE DEF k
    <3> QED  BY ONLY <3>1, <3>2, <3>3
  <2> HIDE DEF k
  <2> QED  BY <1>1, <2>3, <2>4, <2>5, <2>6
<1>5. n # "vendor-defined" /\ n # "unknown"
  BY RequiredIs, RecommendedIs DEF Known
<1>6. Header[i] \in Range(Header)
  BY <1>1 DEF Range
<1> QED  BY <1>3, <1>4, <1>5, <1>6 DEF Named

\* The flags that a token offers for a mechanism and that the audit reads.
Offers(token, fails, n) ==
  IF ValueOf(n) \in DOMAIN token \ fails THEN token[ValueOf(n)] ELSE {}

\* A list lacks exactly the mechanisms that are not there, or not with every
\* flag.
LEMMA MissingIs ==
  ASSUME NEW token, NEW fails, NEW spec, DOMAIN spec \subseteq Known,
         \A n \in DOMAIN spec : spec[n] \subseteq Wanted
  PROVE  DOMAIN Missing(Rows(token, fails), spec) =
           {n \in DOMAIN spec : \/ ValueOf(n) \notin DOMAIN token
                                \/ ~(spec[n] \subseteq Offers(token, fails, n))}
<1> DEFINE rows       == Rows(token, fails)
           have(name) == UNION {r.flags : r \in {r \in rows : r.name = name}}
           lack(name) == IF \E r \in rows : r.name = name THEN spec[name] \ have(name) ELSE {"absent"}
<1>1. DOMAIN Missing(rows, spec) = {n \in DOMAIN spec : lack(n) # {}}
  BY DEF Missing
<1>2. ASSUME NEW n \in DOMAIN spec
      PROVE  lack(n) # {} <=> \/ ValueOf(n) \notin DOMAIN token
                              \/ ~(spec[n] \subseteq Offers(token, fails, n))
  <2> DEFINE row(v) == [value |-> v, name |-> Named(v), vendor |-> v >= VendorDefined,
                        flags |-> IF v \in fails THEN {} ELSE FlagNames(token[v])]
  <2>1. rows = {row(v) : v \in DOMAIN token}
    BY DEF Rows
  <2>2. \A v : row(v).name = n <=> v = ValueOf(n)
    BY <1>2, NumbersAndNames
  <2>3. row(ValueOf(n)).flags = IF ValueOf(n) \in fails THEN {} ELSE token[ValueOf(n)] \cap Wanted
    BY DEF FlagNames
  <2> HIDE DEF rows, row
  <2>4. CASE ValueOf(n) \in DOMAIN token
    <3>1. {r \in rows : r.name = n} = {row(ValueOf(n))}
      BY <2>1, <2>2, <2>4
    <3>2. have(n) = row(ValueOf(n)).flags
      BY <3>1
    <3>3. \E r \in rows : r.name = n
      BY <3>1
    <3>4. spec[n] \subseteq Wanted
      OBVIOUS
    <3>5. lack(n) = spec[n] \ have(n)
      BY <3>3
    <3> HIDE DEF have, lack
    <3> QED  BY <2>3, <2>4, <3>2, <3>4, <3>5 DEF Offers
  <2>5. CASE ValueOf(n) \notin DOMAIN token
    <3>1. ~ \E r \in rows : r.name = n
      BY <2>1, <2>2, <2>5
    <3> QED  BY <2>5, <3>1
  <2> QED  BY <2>4, <2>5
<1> HIDE DEF rows, lack
<1> QED  BY <1>1, <1>2 DEF rows

\* What both lists ask for is among the flags that are read.
LEMMA ListsAreWanted ==
  /\ \A n \in DOMAIN Required : Required[n] \subseteq Wanted
  /\ \A n \in DOMAIN Recommended : Recommended[n] \subseteq Wanted
BY RequiredIs, RecommendedIs DEF SignVerify, Wanted

\* The verdict, the exit code and the gap of a token.
LEMMA TokenAudit ==
  ASSUME NEW token, NEW fails
  PROVE  LET report == Finish(Rows(token, fails))
         IN  /\ report.verdict = "READY"
                  <=> \A n \in DOMAIN Required : /\ ValueOf(n) \in DOMAIN token
                                                 /\ Required[n] \subseteq Offers(token, fails, n)
             /\ report.verdict = "NOT PORTABLE" => \E v \in DOMAIN token : v >= VendorDefined
             /\ ExitCode(report) = 0 <=> report.verdict = "READY"
             /\ Gap(report) = {n \in DOMAIN Required : ~(Required[n] \subseteq Offers(token, fails, n))
                                                       \/ ValueOf(n) \notin DOMAIN token}
<1> DEFINE report == Finish(Rows(token, fails))
           gap    == {n \in DOMAIN Required : \/ ValueOf(n) \notin DOMAIN token
                                              \/ ~(Required[n] \subseteq Offers(token, fails, n))}
<1>1. DOMAIN report.required = gap
  BY MissingIs, ListsAreWanted DEF Finish, Known
<1>2. /\ report.verdict = "READY" <=> DOMAIN report.required = {}
      /\ report.verdict = "NOT PORTABLE" => {r \in Rows(token, fails) : r.vendor} # {}
  BY DEF Finish
<1>3. {r \in Rows(token, fails) : r.vendor} # {} => \E v \in DOMAIN token : v >= VendorDefined
  <2> SUFFICES ASSUME NEW r \in Rows(token, fails), r.vendor
               PROVE  \E v \in DOMAIN token : v >= VendorDefined
    OBVIOUS
  <2>1. PICK v \in DOMAIN token :
          r = [value |-> v, name |-> Named(v), vendor |-> v >= VendorDefined,
               flags |-> IF v \in fails THEN {} ELSE FlagNames(token[v])]
    BY DEF Rows
  <2>2. r.vendor = (v >= VendorDefined)
    BY <2>1
  <2>3. v >= VendorDefined
    BY <2>2
  <2> QED  BY <2>3
<1> HIDE DEF report
<1>4. /\ ExitCode(report) = 0 <=> DOMAIN report.required = {}
      /\ Gap(report) = gap
  BY <1>1 DEF ExitCode, Gap
<1>5. gap = {} <=> \A n \in DOMAIN Required : /\ ValueOf(n) \in DOMAIN token
                                              /\ Required[n] \subseteq Offers(token, fails, n)
  OBVIOUS
<1> QED  BY <1>1, <1>2, <1>3, <1>4, <1>5 DEF report

\* The mock token is audited like any other, and lacks nothing of both lists.
LEMMA MockAudit ==
  /\ AuditMock = Finish(Rows(MockPqToken, {}))
  /\ AuditMock.verdict = "READY" /\ DOMAIN AuditMock.recommended = {}
<1>1. ASSUME NEW n \in DOMAIN MockTable
      PROVE  \E i \in DOMAIN Header : /\ Header[i][1] = n /\ ValueOf(n) = Header[i][2]
                                      /\ ValueOf(n) < VendorDefined
  <2>1. PICK i \in DOMAIN Header : Header[i][1] = n /\ Header[i][2] < VendorDefined
    BY HeaderAssumption
  <2> DEFINE P(k) == Header[k][1] = n /\ \A j \in DOMAIN Header : Header[j][1] = n => k =< j
             k == CHOOSE k \in DOMAIN Header : P(k)
  <2>2. \A j \in DOMAIN Header : Header[j][1] = n => j = i
    BY <2>1, HeaderAssumption
  <2>3. i \in Nat
    BY <2>1, HeaderAssumption
  <2>4. k \in DOMAIN Header /\ P(k)
    BY <2>1, <2>2, <2>3
  <2>5. k = i
    BY <2>2, <2>4
  <2> QED  BY <2>1, <2>5 DEF ValueOf
<1>2. \A m, n \in DOMAIN MockTable : ValueOf(m) = ValueOf(n) => m = n
  <2> SUFFICES ASSUME NEW m \in DOMAIN MockTable, NEW n \in DOMAIN MockTable, ValueOf(m) = ValueOf(n)
               PROVE  m = n
    OBVIOUS
  <2>1. PICK i \in DOMAIN Header : Header[i][1] = m /\ ValueOf(m) = Header[i][2]
    BY <1>1
  <2>2. PICK j \in DOMAIN Header : Header[j][1] = n /\ ValueOf(n) = Header[j][2]
    BY <1>1
  <2>3. \A k, l \in DOMAIN Header :
          /\ Header[k][1] \in DOMAIN MockTable /\ Header[l][1] \in DOMAIN MockTable
          /\ Header[k][2] = Header[l][2]
          => k = l
    BY HeaderAssumption
  <2>4. i = j
    <3> HIDE DEF MockTable
    <3> QED  BY ONLY <2>1, <2>2, <2>3, ValueOf(m) = ValueOf(n), m \in DOMAIN MockTable, n \in DOMAIN MockTable
  <2> QED  BY <2>1, <2>2, <2>4
<1>3. /\ DOMAIN MockPqToken = {ValueOf(n) : n \in DOMAIN MockTable}
      /\ \A n \in DOMAIN MockTable : MockPqToken[ValueOf(n)] = MockTable[n]
  BY <1>2 DEF MockPqToken
<1>4. AuditMock = Finish(Rows(MockPqToken, {}))
  <2> DEFINE mock(v) == [value |-> v, name |-> NameOf(v), vendor |-> FALSE,
                         flags |-> FlagNames(MockPqToken[v])]
             real(v) == [value |-> v, name |-> Named(v), vendor |-> v >= VendorDefined,
                         flags |-> IF v \in {} THEN {} ELSE FlagNames(MockPqToken[v])]
  <2>1. ASSUME NEW v \in DOMAIN MockPqToken  PROVE mock(v) = real(v)
    <3>1. PICK n \in DOMAIN MockTable : v = ValueOf(n)
      BY <1>3
    <3>2. PICK i \in DOMAIN Header : v = Header[i][2] /\ v < VendorDefined
      BY <1>1, <3>1
    <3>3. ~(v >= VendorDefined)
      <4>1. v \in Nat /\ VendorDefined \in Nat
        BY <3>2, HeaderAssumption
      <4>2. v < VendorDefined
        BY <3>2
      <4> QED  BY ONLY <4>1, <4>2
    <3>4. Named(v) = NameOf(v)
      <4>1. Header[i] \in Range(Header)
        BY DEF Range
      <4> QED  BY <3>2, <4>1 DEF Named
    <3>5. (v >= VendorDefined) = FALSE
      BY <3>3
    <3> QED  BY <3>4, <3>5
  <2>2. {mock(v) : v \in DOMAIN MockPqToken} = {real(v) : v \in DOMAIN MockPqToken}
    <3> HIDE DEF mock, real
    <3> QED  BY <2>1
  <2> QED  BY <2>2 DEF AuditMock, Rows
<1>5. \A n \in Known : /\ n \in DOMAIN MockTable
                       /\ ValueOf(n) \in DOMAIN MockPqToken
                       /\ Offers(MockPqToken, {}, n) = MockTable[n]
  BY <1>3, MockTableIs DEF Offers
<1>6. \A n \in DOMAIN Required : Required[n] \subseteq MockTable[n]
  BY RequiredIs, MockTableIs
<1>7. \A n \in DOMAIN Recommended : Recommended[n] \subseteq MockTable[n]
  BY RecommendedIs, MockTableIs DEF SignVerify
<1>8. AuditMock.verdict = "READY"
  <2>1. Finish(Rows(MockPqToken, {})).verdict = "READY"
          <=> \A n \in DOMAIN Required : /\ ValueOf(n) \in DOMAIN MockPqToken
                                         /\ Required[n] \subseteq Offers(MockPqToken, {}, n)
    BY TokenAudit
  <2> QED  BY <1>4, <1>5, <1>6, <2>1 DEF Known
<1>9. DOMAIN Missing(Rows(MockPqToken, {}), Recommended) = {}
  <2>1. DOMAIN Missing(Rows(MockPqToken, {}), Recommended) =
          {n \in DOMAIN Recommended : \/ ValueOf(n) \notin DOMAIN MockPqToken
                                      \/ ~(Recommended[n] \subseteq Offers(MockPqToken, {}, n))}
    BY MissingIs, ListsAreWanted DEF Known
  <2> QED  BY <1>5, <1>7, <2>1 DEF Known
<1>10. AuditMock.recommended = Missing(Rows(MockPqToken, {}), Recommended)
  BY <1>4 DEF Finish
<1> QED  BY <1>4, <1>8, <1>9, <1>10

\* The audit of whatever token answers is right, by the numbers and names of a
\* header like the one it is shipped with (p11audit.py).
THEOREM AuditCorrect == LabsSpec => []AuditIsRight
<1>1. AuditIsRight
  <2> SUFFICES ASSUME case.kind = "token"
               PROVE  LET report == Finish(Rows(case.token, case.fails))
                          offered(n) == Offers(case.token, case.fails, n)
                      IN  /\ report.verdict = "READY"
                               <=> \A n \in DOMAIN Required : /\ ValueOf(n) \in DOMAIN case.token
                                                              /\ Required[n] \subseteq offered(n)
                          /\ report.verdict = "NOT PORTABLE" => \E v \in DOMAIN case.token : v >= VendorDefined
                          /\ ExitCode(report) = 0 <=> report.verdict = "READY"
                          /\ Gap(report) = {n \in DOMAIN Required : ~(Required[n] \subseteq offered(n))
                                                                    \/ ValueOf(n) \notin DOMAIN case.token}
                          /\ AuditMock = Finish(Rows(MockPqToken, {}))
                          /\ AuditMock.verdict = "READY" /\ DOMAIN AuditMock.recommended = {}
    BY DEF AuditIsRight, Offers
  <2> QED  BY TokenAudit, MockAudit
<1> QED  BY <1>1, PTL

-------------------------------------------------------------------------------
(* Cbom: loops over lists                                                   *)

\* Induction over the rounds of a loop, for a set of rounds.
LEMMA RoundByRound ==
  ASSUME NEW n \in Nat, NEW S, 0 \in S, \A k \in 1 .. n : k - 1 \in S => k \in S
  PROVE  \A k \in 0 .. n : k \in S
<1> DEFINE Left == {k \in 0 .. n : k \notin S}
<1> SUFFICES ASSUME Left # {}  PROVE FALSE
  OBVIOUS
<1>1. Left \subseteq Nat
  OBVIOUS
<1>2. PICK k \in Left : \A y \in Left : k =< y
  <2> HIDE DEF Left
  <2> QED  BY <1>1, LeastNumber
<1>3. k \in 0 .. n /\ k \notin S /\ \A y \in 0 .. n : y \notin S => k =< y
  BY <1>2
<1>4. k # 0
  BY <1>3
<1>5. k \in 1 .. n /\ k - 1 \in 0 .. n /\ ~(k =< k - 1)
  BY <1>3, <1>4
<1> QED  BY <1>3, <1>5

\* What scan_text_file does with one finding.
AddFinding(inv, x, f) == IF x.rule = "library"
                         THEN [inv EXCEPT !.libraries = @ \cup {<<x.name, f>>}]
                         ELSE AddAll(inv, Found(x), {f})

\* What lms_verify does with one node of the path.
Up(I, leaf, path, tmp, k) == IF (leaf \div Pow2[k - 1]) % 2 = 0
                             THEN Interior(I, leaf \div Pow2[k], tmp, path[k])
                             ELSE Interior(I, leaf \div Pow2[k], path[k], tmp)

\* The bodies of the loops over lists: what is added to an inventory, what is
\* found in a file, the files of a tree, the endpoints and the path to the root
\* of a tree of hashes.
Round(loop, at, inv, x) ==
  CASE loop = "assets"    -> Add(inv, x, at)
    [] loop = "findings"  -> AddFinding(inv, x, at)
    [] loop = "files"     -> ScanFile(inv, x)
    [] loop = "endpoints" -> MergeEndpoint(inv, x)
    [] loop = "path"      -> Up(at.I, at.leaf, at.path, inv, x)

\* FoldLeft takes its value for a set of rounds from the same set without its
\* last one.
Runs(g, loop, at, base, seq, D) ==
  g = [s \in SUBSET D |->
         IF s = {} THEN base ELSE Round(loop, at, g[s \ {Max(s)}], seq[Max(s)])]

\* The last of the first k rounds is k.
LEMMA LastRound ==
  ASSUME NEW k \in Nat, NEW s \in SUBSET (1 .. k), k \in s
  PROVE  Max(s) = k
<1>1. k \in s /\ \A y \in s : k >= y
  OBVIOUS
<1>2. Max(s) \in s /\ \A y \in s : Max(s) >= y
  BY <1>1 DEF Max
<1>3. Max(s) \in 1 .. k
  BY <1>2
<1>4. Max(s) >= k /\ k >= Max(s)
  BY <1>1, <1>2
<1> QED  BY <1>3, <1>4

\* A loop over a list has a run.
LEMMA LoopRuns ==
  ASSUME NEW n \in Nat, NEW loop, NEW at, NEW base, NEW seq
  PROVE  \E g : Runs(g, loop, at, base, seq, 1 .. n)
<1> DEFINE S == {k \in 0 .. n : \E g : Runs(g, loop, at, base, seq, 1 .. k)}
<1>1. 0 \in S
  <2> DEFINE g == [s \in SUBSET (1 .. 0) |-> base]
  <2>1. \A s \in SUBSET (1 .. 0) : s = {}
    OBVIOUS
  <2>2. g = [s \in SUBSET (1 .. 0) |->
               IF s = {} THEN base ELSE Round(loop, at, g[s \ {Max(s)}], seq[Max(s)])]
    BY <2>1
  <2> HIDE DEF g
  <2>3. Runs(g, loop, at, base, seq, 1 .. 0)
    BY <2>2 DEF Runs
  <2> QED  BY <2>3
<1>2. ASSUME NEW k \in 1 .. n, k - 1 \in S  PROVE k \in S
  <2>1. PICK g : Runs(g, loop, at, base, seq, 1 .. k - 1)
    BY <1>2
  <2> DEFINE h == [s \in SUBSET (1 .. k) |->
                     IF k \in s THEN Round(loop, at, g[s \ {k}], seq[k]) ELSE g[s]]
  <2>2. \A s \in SUBSET (1 .. k) : k \notin s => s \in SUBSET (1 .. k - 1)
    OBVIOUS
  <2>3. \A s \in SUBSET (1 .. k - 1) : /\ s \in SUBSET (1 .. k) /\ k \notin s
                                       /\ h[s] = g[s]
    OBVIOUS
  <2>4. \A s \in SUBSET (1 .. k) :
          h[s] = IF s = {} THEN base ELSE Round(loop, at, h[s \ {Max(s)}], seq[Max(s)])
    <3> SUFFICES ASSUME NEW s \in SUBSET (1 .. k)
                 PROVE  h[s] = IF s = {} THEN base ELSE Round(loop, at, h[s \ {Max(s)}], seq[Max(s)])
      OBVIOUS
    <3>1. CASE k \in s
      <4>1. Max(s) = k
        BY <3>1, LastRound
      <4>2. s \ {k} \in SUBSET (1 .. k - 1)
        OBVIOUS
      <4>3. h[s \ {k}] = g[s \ {k}]
        BY <2>3, <4>2
      <4>4. h[s] = Round(loop, at, g[s \ {k}], seq[k])
        BY <3>1
      <4> HIDE DEF h
      <4> QED  BY <3>1, <4>1, <4>3, <4>4
    <3>2. CASE k \notin s
      <4>1. s \in SUBSET (1 .. k - 1) /\ s \ {Max(s)} \in SUBSET (1 .. k - 1)
        BY <2>2, <3>2
      <4>2. h[s] = g[s] /\ h[s \ {Max(s)}] = g[s \ {Max(s)}]
        BY <2>3, <4>1
      <4>3. g[s] = IF s = {} THEN base ELSE Round(loop, at, g[s \ {Max(s)}], seq[Max(s)])
        BY <2>1, <4>1 DEF Runs
      <4> HIDE DEF h
      <4> QED  BY <4>2, <4>3
    <3> QED  BY <3>1, <3>2
  <2>5. h = [s \in SUBSET (1 .. k) |->
               IF s = {} THEN base ELSE Round(loop, at, h[s \ {Max(s)}], seq[Max(s)])]
    <3>1. h = [s \in SUBSET (1 .. k) |-> h[s]]
      OBVIOUS
    <3> HIDE DEF h
    <3> QED  BY <2>4, <3>1
  <2> HIDE DEF h
  <2>6. Runs(h, loop, at, base, seq, 1 .. k)
    BY <2>5 DEF Runs
  <2> QED  BY <2>6
<1> HIDE DEF S
<1>3. n \in S
  <2>1. \A k \in 0 .. n : k \in S
    BY <1>1, <1>2, RoundByRound
  <2> QED  BY <2>1
<1> QED  BY <1>3 DEF S

\* The values of a run, round by round.
LEMMA RunValues ==
  ASSUME NEW n \in Nat, NEW loop, NEW at, NEW base, NEW seq, NEW g,
         Runs(g, loop, at, base, seq, 1 .. n)
  PROVE  /\ g[1 .. 0] = base
         /\ \A k \in 1 .. n : g[1 .. k] = Round(loop, at, g[1 .. k - 1], seq[k])
<1>1. \A s \in SUBSET (1 .. n) :
        g[s] = IF s = {} THEN base ELSE Round(loop, at, g[s \ {Max(s)}], seq[Max(s)])
  BY DEF Runs
<1>2. 1 .. 0 = {} /\ {} \in SUBSET (1 .. n)
  OBVIOUS
<1>3. g[1 .. 0] = base
  BY <1>1, <1>2
<1>4. ASSUME NEW k \in 1 .. n  PROVE g[1 .. k] = Round(loop, at, g[1 .. k - 1], seq[k])
  <2>1. 1 .. k \in SUBSET (1 .. n) /\ k \in 1 .. k /\ 1 .. k # {} /\ k \in Nat
    OBVIOUS
  <2>2. Max(1 .. k) = k
    BY <2>1, LastRound
  <2>3. (1 .. k) \ {k} = 1 .. k - 1
    OBVIOUS
  <2> QED  BY <1>1, <2>1, <2>2, <2>3
<1> QED  BY <1>3, <1>4

\* The four loops as they are defined: the one function that takes its value for
\* a set of rounds from the set without its last one.
Adding(g, inv, found, at) ==
  g = [s \in SUBSET DOMAIN found |->
         IF s = {} THEN inv ELSE Add(g[s \ {Max(s)}], found[Max(s)], at)]
Finding(g, inv, f) ==
  g = [s \in SUBSET DOMAIN tree[f] |->
         IF s = {} THEN inv
         ELSE AddFinding(g[s \ {Max(s)}], tree[f][Max(s)], f)]
Scanning(g) ==
  g = [s \in SUBSET DOMAIN Files |->
         IF s = {} THEN Empty ELSE ScanFile(g[s \ {Max(s)}], Files[Max(s)])]
Merging(g, inv) ==
  g = [s \in SUBSET DOMAIN Hosts |->
         IF s = {} THEN inv ELSE MergeEndpoint(g[s \ {Max(s)}], Hosts[Max(s)])]

\* AddAll, ScanFile, ScanTree and MergeInto are the last values of such runs.
LEMMA AddAllRuns ==
  ASSUME NEW inv, NEW found, NEW at, NEW n \in Nat, DOMAIN found = 1 .. n
  PROVE  \E g : Runs(g, "assets", at, inv, found, 1 .. n) /\ AddAll(inv, found, at) = g[1 .. n]
<1>1. AddAll(inv, found, at) = (CHOOSE g : Adding(g, inv, found, at))[DOMAIN found]
  BY DEF AddAll, FoldLeft, MapThenFoldSet, Adding
<1>2. \A inv1, x : Round("assets", at, inv1, x) = Add(inv1, x, at)
  BY DEF Round
<1>3. \A g : Adding(g, inv, found, at) <=> Runs(g, "assets", at, inv, found, 1 .. n)
  BY <1>2 DEF Adding, Runs
<1>4. PICK h : Adding(h, inv, found, at)
  BY <1>3, LoopRuns
<1>5. Adding(CHOOSE g : Adding(g, inv, found, at), inv, found, at)
  BY <1>4
<1> QED  BY <1>1, <1>3, <1>5

\* The findings of a file.
LEMMA ScanFileRuns ==
  ASSUME NEW inv, NEW f, NEW n \in Nat, DOMAIN tree[f] = 1 .. n
  PROVE  \E g : Runs(g, "findings", f, inv, tree[f], 1 .. n) /\ ScanFile(inv, f) = g[1 .. n]
<1>1. ScanFile(inv, f) = (CHOOSE g : Finding(g, inv, f))[DOMAIN tree[f]]
  BY DEF ScanFile, FoldLeft, MapThenFoldSet, Finding, AddFinding
<1>2. \A inv1, x : Round("findings", f, inv1, x) = AddFinding(inv1, x, f)
  BY DEF Round
<1>3. \A g : Finding(g, inv, f) <=> Runs(g, "findings", f, inv, tree[f], 1 .. n)
  BY <1>2 DEF Finding, Runs
<1>4. PICK h : Finding(h, inv, f)
  BY <1>3, LoopRuns
<1>5. Finding(CHOOSE g : Finding(g, inv, f), inv, f)
  BY <1>4
<1> QED  BY <1>1, <1>3, <1>5

\* The files of the tree.
LEMMA ScanTreeRuns ==
  ASSUME NEW n \in Nat, DOMAIN Files = 1 .. n
  PROVE  \E g : Runs(g, "files", {}, Empty, Files, 1 .. n) /\ ScanTree = g[1 .. n]
<1>1. ScanTree = (CHOOSE g : Scanning(g))[DOMAIN Files]
  BY DEF ScanTree, FoldLeft, MapThenFoldSet, Scanning
<1>2. \A inv1, x : Round("files", {}, inv1, x) = ScanFile(inv1, x)
  BY DEF Round
<1>3. \A g : Scanning(g) <=> Runs(g, "files", {}, Empty, Files, 1 .. n)
  BY <1>2 DEF Scanning, Runs
<1>4. PICK h : Scanning(h)
  BY <1>3, LoopRuns
<1>5. Scanning(CHOOSE g : Scanning(g))
  BY <1>4
<1> QED  BY <1>1, <1>3, <1>5

\* The endpoints.
LEMMA MergeRuns ==
  ASSUME NEW file, NEW n \in Nat, DOMAIN Hosts = 1 .. n
  PROVE  \E g : /\ Runs(g, "endpoints", {}, LoadIntoInventory(file), Hosts, 1 .. n)
                /\ MergeInto(file) = BuildCbom(g[1 .. n])
<1> DEFINE inv == LoadIntoInventory(file)
<1>1. MergeInto(file) = BuildCbom((CHOOSE g : Merging(g, inv))[DOMAIN Hosts])
  BY DEF MergeInto, FoldLeft, MapThenFoldSet, Merging
<1> HIDE DEF inv
<1>2. \A inv1, x : Round("endpoints", {}, inv1, x) = MergeEndpoint(inv1, x)
  BY DEF Round
<1>3. \A g : Merging(g, inv) <=> Runs(g, "endpoints", {}, inv, Hosts, 1 .. n)
  BY <1>2 DEF Merging, Runs
<1>4. PICK h : Merging(h, inv)
  BY <1>3, LoopRuns
<1>5. Merging(CHOOSE g : Merging(g, inv), inv)
  BY <1>4
<1> QED  BY <1>1, <1>3, <1>5 DEF inv

-------------------------------------------------------------------------------
(* Cbom: assets and inventories                                             *)

\* An asset is a record of its fields; each type has those that component_for
\* writes and load_into_inventory reads.
Shaped(a) ==
  a = [type |-> a.type, name |-> a.name, params |-> a.params, version |-> a.version,
       quantum |-> a.quantum, suites |-> a.suites, refs |-> a.refs, notes |-> a.notes,
       occs |-> a.occs]

Good(a) ==
  /\ Shaped(a)
  /\ a.type \in {"algorithm", "protocol", "certificate"}
  /\ a.type = "algorithm" => a.version = "" /\ a.suites = {} /\ a.refs = {}
  /\ a.type = "protocol" => a.params = "" /\ a.quantum = NoLevel
  /\ a.type = "certificate" => a.refs # {} /\ a.notes = {} /\ a.quantum = NoLevel

\* Every asset is filed under its key, and refers to nothing outside known.
Filed(inv, known) ==
  /\ inv = [assets |-> inv.assets, libraries |-> inv.libraries]
  /\ inv.assets = [k \in DOMAIN inv.assets |-> inv.assets[k]]
  /\ \A k \in DOMAIN inv.assets : /\ Good(inv.assets[k]) /\ Key(inv.assets[k]) = k
                                  /\ inv.assets[k].refs \subseteq known

Whole(inv) == Filed(inv, DOMAIN inv.assets)

\* What is found together has no evidence yet and refers to what is found
\* together.
Together(found) ==
  \E n \in Nat :
    /\ DOMAIN found = 1 .. n
    /\ \A i \in 1 .. n : /\ Good(found[i]) /\ found[i].occs = {}
                         /\ found[i].refs \subseteq {Key(found[j]) : j \in 1 .. n}

\* The asset that add() leaves under a key.
Merged(old, a, at) == [old EXCEPT !.occs = @ \cup at, !.suites = @ \cup a.suites,
                                  !.notes = @ \cup a.notes, !.refs = @ \cup a.refs]

\* It is a good asset under the key, with the old level and the fields of both.
LEMMA MergedIs ==
  ASSUME NEW old, Good(old), NEW a, Good(a), NEW at, Key(old) = Key(a)
  PROVE  LET new == Merged(old, a, at)
         IN  /\ Good(new) /\ Key(new) = Key(a) /\ new.quantum = old.quantum
             /\ new.occs = old.occs \cup at /\ new.suites = old.suites \cup a.suites
             /\ new.notes = old.notes \cup a.notes /\ new.refs = old.refs \cup a.refs
<1> DEFINE new == Merged(old, a, at)
           t == old.type      n == old.name   p == old.params   v == old.version
           q == old.quantum   s == old.suites r == old.refs     m == old.notes
           o == old.occs
           s1 == s \cup a.suites  r1 == r \cup a.refs
           m1 == m \cup a.notes   o1 == o \cup at
           n1 == [old EXCEPT !.occs = o1]
           n2 == [n1 EXCEPT !.suites = s1]
           n3 == [n2 EXCEPT !.notes = m1]
           n4 == [n3 EXCEPT !.refs = r1]
<1>1. old = [type |-> t, name |-> n, params |-> p, version |-> v, quantum |-> q,
             suites |-> s, refs |-> r, notes |-> m, occs |-> o]
  BY DEF Good, Shaped
<1>2. new = [old EXCEPT !.occs = o1, !.suites = s1, !.notes = m1, !.refs = r1]
  BY DEF Merged
<1>3. n4 = [old EXCEPT !.occs = o1, !.suites = s1, !.notes = m1, !.refs = r1]
  OBVIOUS
<1> HIDE DEF new, t, n, p, v, q, s, r, m, o, s1, r1, m1, o1
<1>4. n1 = [type |-> t, name |-> n, params |-> p, version |-> v, quantum |-> q,
            suites |-> s, refs |-> r, notes |-> m, occs |-> o1]
  BY ONLY <1>1
<1> HIDE DEF n1
<1>5. n2 = [type |-> t, name |-> n, params |-> p, version |-> v, quantum |-> q,
            suites |-> s1, refs |-> r, notes |-> m, occs |-> o1]
  BY ONLY <1>4
<1> HIDE DEF n2
<1>6. n3 = [type |-> t, name |-> n, params |-> p, version |-> v, quantum |-> q,
            suites |-> s1, refs |-> r, notes |-> m1, occs |-> o1]
  BY ONLY <1>5
<1> HIDE DEF n3
<1>7. n4 = [type |-> t, name |-> n, params |-> p, version |-> v, quantum |-> q,
            suites |-> s1, refs |-> r1, notes |-> m1, occs |-> o1]
  BY ONLY <1>6
<1> HIDE DEF n4
<1>8. new = [type |-> t, name |-> n, params |-> p, version |-> v, quantum |-> q,
             suites |-> s1, refs |-> r1, notes |-> m1, occs |-> o1]
  BY <1>2, <1>3, <1>7
<1>9. /\ new.type = t /\ new.params = p /\ new.version = v /\ new.quantum = q
      /\ new.suites = s1 /\ new.refs = r1 /\ new.notes = m1 /\ new.occs = o1
      /\ Key(new) = <<t, n, p, v>>
  BY ONLY <1>8 DEF Key
<1>10. new = [type |-> new.type, name |-> new.name, params |-> new.params,
              version |-> new.version, quantum |-> new.quantum, suites |-> new.suites,
              refs |-> new.refs, notes |-> new.notes, occs |-> new.occs]
  BY ONLY <1>8
<1>11. /\ t = old.type /\ p = old.params /\ v = old.version /\ q = old.quantum
       /\ s1 = old.suites \cup a.suites /\ r1 = old.refs \cup a.refs
       /\ m1 = old.notes \cup a.notes /\ o1 = old.occs \cup at
       /\ Key(new) = Key(old)
  BY <1>9 DEF t, n, p, v, q, s, r, m, o, s1, r1, m1, o1, Key
<1>12. a.type = old.type
  BY DEF Key
<1>13. Good(new)
  <2>1. Shaped(new) /\ new.type \in {"algorithm", "protocol", "certificate"}
    BY <1>9, <1>10, <1>11 DEF Good, Shaped
  <2>2. new.type = "algorithm" => new.version = "" /\ new.suites = {} /\ new.refs = {}
    BY <1>9, <1>11, <1>12 DEF Good
  <2>3. new.type = "protocol" => new.params = "" /\ new.quantum = NoLevel
    BY <1>9, <1>11, <1>12 DEF Good
  <2>4. new.type = "certificate" => new.refs # {} /\ new.notes = {} /\ new.quantum = NoLevel
    BY <1>9, <1>11, <1>12 DEF Good
  <2> QED  BY <2>1, <2>2, <2>3, <2>4 DEF Good
<1> QED  BY <1>9, <1>11, <1>13 DEF new

\* An asset is known with all that a and its evidence say, and has all that it
\* had.
Covers(inv, a, at) ==
  /\ Key(a) \in DOMAIN inv.assets
  /\ at \subseteq inv.assets[Key(a)].occs /\ a.suites \subseteq inv.assets[Key(a)].suites
  /\ a.notes \subseteq inv.assets[Key(a)].notes /\ a.refs \subseteq inv.assets[Key(a)].refs

Extends(x, y) ==
  /\ y.quantum = x.quantum /\ x.occs \subseteq y.occs /\ x.suites \subseteq y.suites
  /\ x.notes \subseteq y.notes /\ x.refs \subseteq y.refs

\* Two whole assets with the same fields are one.
LEMMA SameFields ==
  ASSUME NEW x, Good(x), NEW y, Good(y), Key(x) = Key(y), Extends(x, y), Extends(y, x)
  PROVE  x = y
<1>1. x.type = y.type /\ x.name = y.name /\ x.params = y.params /\ x.version = y.version
  BY DEF Key
<1>2. /\ x.quantum = y.quantum /\ x.suites = y.suites /\ x.refs = y.refs /\ x.notes = y.notes
      /\ x.occs = y.occs
  BY DEF Extends
<1> QED  BY <1>1, <1>2 DEF Good, Shaped

\* add() files the asset, and leaves the others alone.
LEMMA AddIs ==
  ASSUME NEW inv, NEW known, Filed(inv, known),
         NEW a, Good(a), a.occs = {}, a.refs \subseteq known, NEW at
  PROVE  LET i2 == Add(inv, a, at)
             k0 == Key(a)
         IN  /\ Filed(i2, known)
             /\ DOMAIN i2.assets = DOMAIN inv.assets \cup {k0}
             /\ \A k \in DOMAIN inv.assets : Extends(inv.assets[k], i2.assets[k])
             /\ \A k \in DOMAIN inv.assets \ {k0} : i2.assets[k] = inv.assets[k]
             /\ Covers(i2, a, at)
             /\ k0 \in DOMAIN inv.assets =>
                  i2.assets[k0].occs = inv.assets[k0].occs \cup at
             /\ k0 \notin DOMAIN inv.assets =>
                  i2.assets[k0].occs = at /\ i2.assets[k0].quantum = a.quantum
             /\ Covers(inv, a, at) => i2 = inv
<1> DEFINE k0 == Key(a)
           i2 == Add(inv, a, at)
           old == IF k0 \in DOMAIN inv.assets THEN inv.assets[k0] ELSE a
           new == Merged(old, a, at)
           assets == [k \in DOMAIN inv.assets \cup {k0} |->
                        IF k = k0 THEN new ELSE inv.assets[k]]
<1>1. Good(old) /\ Key(old) = k0 /\ old.refs \subseteq known
  BY DEF Filed
<1>2. /\ Good(new) /\ Key(new) = k0 /\ new.quantum = old.quantum
      /\ new.occs = old.occs \cup at /\ new.suites = old.suites \cup a.suites
      /\ new.notes = old.notes \cup a.notes /\ new.refs = old.refs \cup a.refs
  <2> HIDE DEF old
  <2> QED  BY <1>1, MergedIs
<1>3. i2 = [assets |-> assets, libraries |-> inv.libraries]
  <2>1. i2 = [inv EXCEPT !.assets = assets]
    BY DEF Add, Merged
  <2> HIDE DEF assets, i2
  <2> QED  BY <2>1 DEF Filed
<1>4. DOMAIN assets = DOMAIN inv.assets \cup {k0} /\ assets = [k \in DOMAIN assets |-> assets[k]]
  OBVIOUS
<1>5. \A k \in DOMAIN assets : assets[k] = IF k = k0 THEN new ELSE inv.assets[k]
  OBVIOUS
<1>6. /\ k0 \in DOMAIN inv.assets => old = inv.assets[k0]
      /\ k0 \notin DOMAIN inv.assets => old = a
  OBVIOUS
<1>7. k0 = Key(a)
  OBVIOUS
<1> HIDE DEF assets, new, old, i2, k0
<1>8. Filed(i2, known)
  <2>1. \A k \in DOMAIN assets : Good(assets[k]) /\ Key(assets[k]) = k /\ assets[k].refs \subseteq known
    BY <1>1, <1>2, <1>4, <1>5 DEF Filed
  <2> QED  BY <1>3, <1>4, <2>1 DEF Filed
<1>9. DOMAIN i2.assets = DOMAIN inv.assets \cup {k0} /\ i2.assets[k0] = new
  BY <1>3, <1>4, <1>5
<1>10. \A k \in DOMAIN inv.assets \ {k0} : i2.assets[k] = inv.assets[k]
  BY <1>3, <1>4, <1>5
<1>11. \A k \in DOMAIN inv.assets : Extends(inv.assets[k], i2.assets[k])
  <2> SUFFICES ASSUME NEW k \in DOMAIN inv.assets  PROVE Extends(inv.assets[k], i2.assets[k])
    OBVIOUS
  <2>1. CASE k = k0
    BY <2>1, <1>2, <1>6, <1>9 DEF Extends
  <2>2. CASE k # k0
    BY <2>2, <1>10 DEF Extends
  <2> QED  BY <2>1, <2>2
<1>12. Covers(i2, a, at)
  BY <1>2, <1>7, <1>9 DEF Covers
<1>13. k0 \in DOMAIN inv.assets => i2.assets[k0].occs = inv.assets[k0].occs \cup at
  BY <1>2, <1>6, <1>9
<1>14. k0 \notin DOMAIN inv.assets => i2.assets[k0].occs = at /\ i2.assets[k0].quantum = a.quantum
  BY <1>2, <1>6, <1>9
<1>15. Covers(inv, a, at) => i2 = inv
  <2> SUFFICES ASSUME Covers(inv, a, at)  PROVE i2 = inv
    OBVIOUS
  <2>1. k0 \in DOMAIN inv.assets /\ old = inv.assets[k0]
    BY <1>6, <1>7 DEF Covers
  <2>2. Extends(old, new) /\ Extends(new, old)
    BY <1>2, <1>7, <2>1 DEF Covers, Extends
  <2>3. new = old
    BY <1>1, <1>2, <2>2, SameFields
  <2>4. DOMAIN assets = DOMAIN inv.assets /\ \A k \in DOMAIN inv.assets : assets[k] = inv.assets[k]
    BY <1>4, <1>5, <2>1, <2>3
  <2>5. assets = inv.assets
    BY <1>4, <2>4 DEF Filed
  <2> QED  BY <1>3, <2>5 DEF Filed
<1> QED  BY <1>8, <1>9, <1>10, <1>11, <1>12, <1>13, <1>14, <1>15 DEF k0, i2

\* The evidence of a key, and the keys of what is found.
Occs(inv, k) == IF k \in DOMAIN inv.assets THEN inv.assets[k].occs ELSE {}
KeysOf(found) == {Key(a) : a \in Range(found)}

\* Evidence at a place is added to the keys K and to no others.
Evident(inv, i2, K, at) ==
  /\ DOMAIN i2.assets = DOMAIN inv.assets \cup K
  /\ \A k \in DOMAIN i2.assets :
       i2.assets[k].occs = Occs(inv, k) \cup (IF k \in K THEN at ELSE {})

\* Every asset has the level of one of A.
Leveled(inv, A) ==
  \A k \in DOMAIN inv.assets : \E a \in A : Key(a) = k /\ inv.assets[k].quantum = a.quantum

\* Nothing that is known gets lost.
Kept(inv, i2) ==
  \A k \in DOMAIN inv.assets : k \in DOMAIN i2.assets /\ Extends(inv.assets[k], i2.assets[k])

\* What is kept twice is kept, and what is covered stays covered.
LEMMA KeptAlong ==
  ASSUME NEW inv, NEW i1, NEW i2, Kept(inv, i1), Kept(i1, i2)
  PROVE  /\ Kept(inv, i2)
         /\ \A a, at : Covers(i1, a, at) => Covers(i2, a, at)
BY DEF Kept, Extends, Covers

\* Evidence at one place for one list of keys after another.
LEMMA EvidentAlong ==
  ASSUME NEW inv, NEW i1, NEW i2, NEW K, NEW L, NEW at,
         Evident(inv, i1, K, at), Evident(i1, i2, L, at)
  PROVE  Evident(inv, i2, K \cup L, at)
<1>1. DOMAIN i2.assets = DOMAIN inv.assets \cup (K \cup L)
  BY DEF Evident
<1>2. ASSUME NEW k \in DOMAIN i2.assets
      PROVE  i2.assets[k].occs = Occs(inv, k) \cup (IF k \in K \cup L THEN at ELSE {})
  <2>1. i2.assets[k].occs = Occs(i1, k) \cup (IF k \in L THEN at ELSE {})
    BY DEF Evident
  <2>2. Occs(i1, k) = Occs(inv, k) \cup (IF k \in K THEN at ELSE {})
    BY DEF Evident, Occs
  <2> QED  BY <2>1, <2>2
<1> QED  BY <1>1, <1>2 DEF Evident

\* One asset more.
LEMMA AddSays ==
  ASSUME NEW inv, NEW known, Filed(inv, known),
         NEW a, Good(a), a.occs = {}, a.refs \subseteq known, NEW at
  PROVE  LET i2 == Add(inv, a, at)
         IN  /\ Filed(i2, known)
             /\ Kept(inv, i2) /\ Covers(i2, a, at)
             /\ Covers(inv, a, at) => i2 = inv
             /\ Evident(inv, i2, {Key(a)}, at)
             /\ \A A : Leveled(inv, A) => Leveled(i2, A \cup {a})
<1> DEFINE i2 == Add(inv, a, at)
           k0 == Key(a)
<1>1. /\ Filed(i2, known)
      /\ DOMAIN i2.assets = DOMAIN inv.assets \cup {k0}
      /\ \A k \in DOMAIN inv.assets : Extends(inv.assets[k], i2.assets[k])
      /\ \A k \in DOMAIN inv.assets \ {k0} : i2.assets[k] = inv.assets[k]
      /\ Covers(i2, a, at)
      /\ k0 \in DOMAIN inv.assets => i2.assets[k0].occs = inv.assets[k0].occs \cup at
      /\ k0 \notin DOMAIN inv.assets => i2.assets[k0].occs = at /\ i2.assets[k0].quantum = a.quantum
      /\ Covers(inv, a, at) => i2 = inv
  BY AddIs
<1>2. k0 = Key(a)
  OBVIOUS
<1> HIDE DEF i2, k0
<1>3. Kept(inv, i2)
  BY <1>1 DEF Kept
<1>4. Evident(inv, i2, {k0}, at)
  BY <1>1 DEF Evident, Occs
<1>5. ASSUME NEW A, Leveled(inv, A)  PROVE Leveled(i2, A \cup {a})
  <2> SUFFICES ASSUME NEW k \in DOMAIN i2.assets
               PROVE  \E b \in A \cup {a} : Key(b) = k /\ i2.assets[k].quantum = b.quantum
    BY DEF Leveled
  <2>1. CASE k \in DOMAIN inv.assets
    <3>1. PICK b \in A : Key(b) = k /\ inv.assets[k].quantum = b.quantum
      BY <1>5, <2>1 DEF Leveled
    <3>2. i2.assets[k].quantum = inv.assets[k].quantum
      BY <1>1, <2>1 DEF Extends
    <3> QED  BY <3>1, <3>2
  <2>2. CASE k \notin DOMAIN inv.assets
    <3>1. k = k0 /\ i2.assets[k].quantum = a.quantum
      BY <1>1, <2>2
    <3> QED  BY <1>2, <3>1
  <2> QED  BY <2>1, <2>2
<1> QED  BY <1>1, <1>2, <1>3, <1>4, <1>5 DEF i2

\* What a list of assets that belong together does to a whole inventory.
LEMMA AddAllSays ==
  ASSUME NEW inv, Whole(inv), NEW found, Together(found), NEW at
  PROVE  LET i2 == AddAll(inv, found, at)
         IN  /\ Whole(i2)
             /\ Kept(inv, i2) /\ \A a \in Range(found) : Covers(i2, a, at)
             /\ (\A a \in Range(found) : Covers(inv, a, at)) => i2 = inv
             /\ Evident(inv, i2, KeysOf(found), at)
             /\ \A A : Leveled(inv, A) => Leveled(i2, A \cup Range(found))
<1>1. PICK n \in Nat :
        /\ DOMAIN found = 1 .. n
        /\ \A i \in 1 .. n : /\ Good(found[i]) /\ found[i].occs = {}
                             /\ found[i].refs \subseteq {Key(found[j]) : j \in 1 .. n}
  BY DEF Together
<1>2. PICK g : /\ Runs(g, "assets", at, inv, found, 1 .. n)
               /\ AddAll(inv, found, at) = g[1 .. n]
  BY <1>1, AddAllRuns
<1> DEFINE known == DOMAIN inv.assets \cup {Key(found[j]) : j \in 1 .. n}
           First(k) == {found[j] : j \in 1 .. k}
           So(k) == LET i == g[1 .. k]
                    IN  /\ Filed(i, known)
                        /\ Kept(inv, i) /\ \A a \in First(k) : Covers(i, a, at)
                        /\ (\A a \in Range(found) : Covers(inv, a, at)) => i = inv
                        /\ Evident(inv, i, {Key(a) : a \in First(k)}, at)
                        /\ \A A : Leveled(inv, A) => Leveled(i, A \cup First(k))
           S == {k \in 0 .. n : So(k)}
<1>3. g[1 .. 0] = inv /\ \A k \in 1 .. n : g[1 .. k] = Add(g[1 .. k - 1], found[k], at)
  BY <1>2, RunValues DEF Round
<1>4. 0 \in S
  <2>1. Filed(inv, known)
    BY DEF Whole, Filed
  <2>2. First(0) = {}
    OBVIOUS
  <2>3. Kept(inv, inv) /\ Evident(inv, inv, {}, at)
    BY DEF Kept, Extends, Evident, Occs
  <2>4. \A A : Leveled(inv, A) => Leveled(inv, A \cup {})
    BY DEF Leveled
  <2>5. So(0)
    <3> HIDE DEF known, First
    <3> QED  BY <1>3, <2>1, <2>2, <2>3, <2>4
  <2> QED  BY <2>5
<1>5. ASSUME NEW k \in 1 .. n, k - 1 \in S  PROVE k \in S
  <2> DEFINE i1 == g[1 .. k - 1]
             i2 == g[1 .. k]
             a == found[k]
  <2>1. /\ Filed(i1, known)
        /\ Kept(inv, i1) /\ \A b \in First(k - 1) : Covers(i1, b, at)
        /\ (\A b \in Range(found) : Covers(inv, b, at)) => i1 = inv
        /\ Evident(inv, i1, {Key(b) : b \in First(k - 1)}, at)
        /\ \A A : Leveled(inv, A) => Leveled(i1, A \cup First(k - 1))
    BY <1>5
  <2>2. Good(a) /\ a.occs = {} /\ a.refs \subseteq known /\ i2 = Add(i1, a, at)
    BY <1>1, <1>3
  <2>3. First(k) = First(k - 1) \cup {a} /\ a \in Range(found)
    <3>1. \A j : j \in 1 .. k <=> j \in 1 .. k - 1 \/ j = k
      OBVIOUS
    <3>2. a \in Range(found)
      BY <1>1 DEF Range
    <3> QED  BY <3>1, <3>2
  <2> HIDE DEF known, First, i1, i2, a
  <2>4. /\ Filed(i2, known)
        /\ Kept(i1, i2) /\ Covers(i2, a, at)
        /\ Covers(i1, a, at) => i2 = i1
        /\ Evident(i1, i2, {Key(a)}, at)
        /\ \A A : Leveled(i1, A) => Leveled(i2, A \cup {a})
    BY <2>1, <2>2, AddSays
  <2>5. Kept(inv, i2) /\ \A b \in First(k) : Covers(i2, b, at)
    BY <2>1, <2>3, <2>4, KeptAlong
  <2>6. (\A b \in Range(found) : Covers(inv, b, at)) => i2 = inv
    BY <2>1, <2>3, <2>4
  <2>7. Evident(inv, i2, {Key(b) : b \in First(k)}, at)
    <3>1. {Key(b) : b \in First(k)} = {Key(b) : b \in First(k - 1)} \cup {Key(a)}
      BY <2>3
    <3> QED  BY <2>1, <2>4, <3>1, EvidentAlong
  <2>8. \A A : Leveled(inv, A) => Leveled(i2, A \cup First(k))
    <3> SUFFICES ASSUME NEW A, Leveled(inv, A)  PROVE Leveled(i2, A \cup First(k))
      OBVIOUS
    <3>1. Leveled(i2, (A \cup First(k - 1)) \cup {a})
      BY <2>1, <2>4
    <3>2. (A \cup First(k - 1)) \cup {a} = A \cup First(k)
      BY <2>3
    <3> QED  BY <3>1, <3>2
  <2>9. So(k)
    BY <2>4, <2>5, <2>6, <2>7, <2>8 DEF i2
  <2> QED  BY <2>9
<1> HIDE DEF S
<1>6. n \in S
  <2>1. \A k \in 0 .. n : k \in S
    BY <1>4, <1>5, RoundByRound
  <2> QED  BY <2>1
<1>7. So(n)
  BY <1>6 DEF S
<1>8. First(n) = Range(found)
  BY <1>1 DEF Range
<1>9. known = DOMAIN inv.assets \cup {Key(b) : b \in First(n)}
  OBVIOUS
<1> HIDE DEF known, First
<1>10. Whole(g[1 .. n])
  BY <1>7, <1>9 DEF Whole, Evident
<1> QED  BY <1>2, <1>7, <1>8, <1>10 DEF KeysOf

\* What Asset() makes.
LEMMA AssetIs ==
  ASSUME NEW t, NEW n, NEW p, NEW v, NEW q
  PROVE  LET a == Asset(t, n, p, v, q)
         IN  /\ Shaped(a) /\ a.type = t /\ a.params = p /\ a.version = v /\ a.quantum = q
             /\ a.suites = {} /\ a.refs = {} /\ a.notes = {} /\ a.occs = {}
BY DEF Asset, Shaped

\* An asset with another value in one field.
Noted(a, x)    == [a EXCEPT !.notes = x]
Suited(a, x)   == [a EXCEPT !.suites = x]
Referred(a, x) == [a EXCEPT !.refs = x]

Like(b, a) == /\ Shaped(b) /\ Key(b) = Key(a) /\ b.type = a.type /\ b.params = a.params
              /\ b.version = a.version /\ b.quantum = a.quantum /\ b.occs = a.occs

\* The other fields are as they were.
LEMMA OneField ==
  ASSUME NEW a, Shaped(a), NEW x
  PROVE  /\ Like(Noted(a, x), a) /\ Noted(a, x).notes = x
         /\ Noted(a, x).suites = a.suites /\ Noted(a, x).refs = a.refs
         /\ Like(Suited(a, x), a) /\ Suited(a, x).suites = x
         /\ Suited(a, x).notes = a.notes /\ Suited(a, x).refs = a.refs
         /\ Like(Referred(a, x), a) /\ Referred(a, x).refs = x
         /\ Referred(a, x).notes = a.notes /\ Referred(a, x).suites = a.suites
<1> DEFINE t == a.type   n == a.name   p == a.params v == a.version q == a.quantum
           s == a.suites r == a.refs   m == a.notes  o == a.occs
           b1 == [a EXCEPT !.notes = x]
           b2 == [a EXCEPT !.suites = x]
           b3 == [a EXCEPT !.refs = x]
<1>1. a = [type |-> t, name |-> n, params |-> p, version |-> v, quantum |-> q,
           suites |-> s, refs |-> r, notes |-> m, occs |-> o]
  BY DEF Shaped
<1>2. /\ t = a.type /\ p = a.params /\ v = a.version /\ q = a.quantum
      /\ s = a.suites /\ r = a.refs /\ m = a.notes /\ o = a.occs
      /\ Key(a) = <<t, n, p, v>>
  BY DEF Key
<1> HIDE DEF t, n, p, v, q, s, r, m, o
<1>3. /\ b1 = [type |-> t, name |-> n, params |-> p, version |-> v, quantum |-> q,
               suites |-> s, refs |-> r, notes |-> x, occs |-> o]
      /\ b2 = [type |-> t, name |-> n, params |-> p, version |-> v, quantum |-> q,
               suites |-> x, refs |-> r, notes |-> m, occs |-> o]
      /\ b3 = [type |-> t, name |-> n, params |-> p, version |-> v, quantum |-> q,
               suites |-> s, refs |-> x, notes |-> m, occs |-> o]
  BY ONLY <1>1
<1> HIDE DEF b1, b2, b3
<1>4. \A b \in {b1, b2, b3} :
        b = [type |-> b.type, name |-> b.name, params |-> b.params, version |-> b.version,
             quantum |-> b.quantum, suites |-> b.suites, refs |-> b.refs,
             notes |-> b.notes, occs |-> b.occs]
  BY ONLY <1>3
<1>5. \A b \in {b1, b2, b3} : /\ b.type = t /\ b.params = p /\ b.version = v /\ b.quantum = q
                              /\ b.occs = o /\ Key(b) = <<t, n, p, v>>
  BY ONLY <1>3 DEF Key
<1>6. /\ b1.suites = s /\ b1.refs = r /\ b1.notes = x
      /\ b2.suites = x /\ b2.refs = r /\ b2.notes = m
      /\ b3.suites = s /\ b3.refs = x /\ b3.notes = m
  BY ONLY <1>3
<1>7. Shaped(b1) /\ Shaped(b2) /\ Shaped(b3)
  BY <1>4 DEF Shaped
<1>8. b1 = Noted(a, x) /\ b2 = Suited(a, x) /\ b3 = Referred(a, x)
  BY DEF b1, b2, b3, Noted, Suited, Referred
<1> QED  BY <1>2, <1>5, <1>6, <1>7, <1>8 DEF Like

\* Protocols and algorithms as they are made.
Fresh(a) == Good(a) /\ a.refs = {} /\ a.occs = {}

\* A protocol is one.
LEMMA ProtocolIs ==
  ASSUME NEW version
  PROVE  Fresh(Protocol(version)) /\ Protocol(version).type = "protocol"
<1> DEFINE a == Asset("protocol", "TLS", "", version, NoLevel)
<1>1. /\ Shaped(a) /\ a.type = "protocol" /\ a.params = "" /\ a.quantum = NoLevel
      /\ a.refs = {} /\ a.occs = {}
  BY DEF Asset, Shaped
<1>2. Protocol(version) = a
  BY DEF Protocol
<1> HIDE DEF a
<1> QED  BY <1>1, <1>2 DEF Good, Fresh

\* So is an algorithm.
LEMMA AlgorithmIs ==
  ASSUME NEW name, NEW params, NEW quantum
  PROVE  /\ Fresh(Algorithm(name, params, quantum))
         /\ Algorithm(name, params, quantum).type = "algorithm"
<1> DEFINE a == Asset("algorithm", name, params, "", quantum)
<1>1. /\ Shaped(a) /\ a.type = "algorithm" /\ a.version = "" /\ a.suites = {}
      /\ a.refs = {} /\ a.occs = {}
  BY DEF Asset, Shaped
<1>2. Algorithm(name, params, quantum) = a
  BY DEF Algorithm
<1> HIDE DEF a
<1> QED  BY <1>1, <1>2 DEF Good, Fresh

\* And a group or a key exchange.
LEMMA GroupIs ==
  ASSUME NEW prefix, NEW g
  PROVE  Fresh(NamedGroup(prefix, g))
BY AlgorithmIs DEF NamedGroup

\* Notes do not make an algorithm or a protocol another one.
LEMMA WithNotes ==
  ASSUME NEW a, Fresh(a), a.type # "certificate", NEW x
  PROVE  Fresh(Noted(a, x))
<1>1. Shaped(a)
  BY DEF Fresh, Good
<1>2. /\ Like(Noted(a, x), a) /\ Noted(a, x).suites = a.suites /\ Noted(a, x).refs = a.refs
  BY <1>1, OneField
<1> QED  BY <1>2 DEF Like, Fresh, Good

\* Cipher suites do not make a protocol another one.
LEMMA WithSuites ==
  ASSUME NEW a, Fresh(a), a.type = "protocol", NEW x
  PROVE  Fresh(Suited(a, x)) /\ Suited(a, x).type = "protocol"
<1>1. Shaped(a)
  BY DEF Fresh, Good
<1>2. Like(Suited(a, x), a) /\ Suited(a, x).notes = a.notes /\ Suited(a, x).refs = a.refs
  BY <1>1, OneField
<1> QED  BY <1>2 DEF Like, Fresh, Good

\* A list of assets without references, and one of a single asset.
LEMMA Separate ==
  ASSUME NEW found, NEW n \in Nat, DOMAIN found = 1 .. n, \A i \in 1 .. n : Fresh(found[i])
  PROVE  Together(found)
BY DEF Together, Fresh

\* A single asset is such a list.
LEMMA Alone ==
  ASSUME NEW a, Fresh(a)
  PROVE  Together(<<a>>)
<1>1. DOMAIN <<a>> = 1 .. 1 /\ 1 \in Nat /\ \A i \in 1 .. 1 : <<a>>[i] = a
  OBVIOUS
<1> QED  BY <1>1, Separate

\* A list of assets without evidence that refer to K.
Refer(s, K) ==
  /\ IsList(s)
  /\ \A a \in Range(s) : Good(a) /\ a.occs = {} /\ a.refs \subseteq K

\* The keys of two lists, one after the other.
LEMMA ReferBoth ==
  ASSUME NEW K, NEW s, Refer(s, K), NEW t, Refer(t, K)
  PROVE  Refer(s \o t, K) /\ Range(s \o t) = Range(s) \cup Range(t)
<1> DEFINE S == Range(s) \cup Range(t)
           u == s \o t
<1>1. s \in Seq(S) /\ t \in Seq(S) /\ DOMAIN s = 1 .. Len(s) /\ DOMAIN t = 1 .. Len(t)
      /\ Len(s) \in Nat /\ Len(t) \in Nat
  <2>1. s \in Seq(Range(s)) /\ t \in Seq(Range(t))
    BY DEF Refer, IsList
  <2> QED  BY <2>1
<1> HIDE DEF S
<1>2. /\ u \in Seq(S) /\ Len(u) = Len(s) + Len(t)
      /\ \A i \in 1 .. Len(u) : u[i] = IF i =< Len(s) THEN s[i] ELSE t[i - Len(s)]
  BY <1>1, ConcatProperties
<1>3. DOMAIN u = 1 .. Len(s) + Len(t)
  BY <1>2
<1> HIDE DEF u
<1>4. Range(u) \subseteq Range(s) \cup Range(t)
  <2> SUFFICES ASSUME NEW i \in DOMAIN u  PROVE u[i] \in Range(s) \cup Range(t)
    BY DEF Range
  <2>1. CASE i =< Len(s)
    BY <1>1, <1>2, <1>3, <2>1 DEF Range
  <2>2. CASE ~(i =< Len(s))
    <3>1. u[i] = t[i - Len(s)] /\ i - Len(s) \in DOMAIN t
      BY <1>1, <1>2, <1>3, <2>2
    <3> QED  BY <3>1 DEF Range
  <2> QED  BY <2>1, <2>2
<1>5. Range(s) \subseteq Range(u)
  <2> SUFFICES ASSUME NEW i \in DOMAIN s  PROVE s[i] \in Range(u)
    BY DEF Range
  <2>1. i \in DOMAIN u /\ u[i] = s[i]
    BY <1>1, <1>2, <1>3
  <2> QED  BY <2>1 DEF Range
<1>6. Range(t) \subseteq Range(u)
  <2> SUFFICES ASSUME NEW i \in DOMAIN t  PROVE t[i] \in Range(u)
    BY DEF Range
  <2>1. i + Len(s) \in DOMAIN u /\ u[i + Len(s)] = t[i]
    BY <1>1, <1>2, <1>3
  <2> QED  BY <2>1 DEF Range
<1>7. Range(u) = Range(s) \cup Range(t)
  BY <1>4, <1>5, <1>6
<1>8. IsList(u)
  BY <1>2, <1>7 DEF IsList, S
<1>9. Refer(u, K)
  BY <1>7, <1>8 DEF Refer
<1> QED  BY <1>7, <1>9 DEF u

\* Nothing, and a single asset.
LEMMA ReferFew ==
  ASSUME NEW K
  PROVE  /\ Refer(<<>>, K) /\ Range(<<>>) = {}
         /\ \A a : Range(<<a>>) = {a}
         /\ \A a : Good(a) /\ a.occs = {} /\ a.refs \subseteq K => Refer(<<a>>, K)
<1>1. Range(<<>>) = {} /\ <<>> \in Seq({})
  BY DEF Range
<1>2. ASSUME NEW a  PROVE Range(<<a>>) = {a}
  <2>1. DOMAIN <<a>> = {1} /\ <<a>>[1] = a
    OBVIOUS
  <2> QED  BY <2>1 DEF Range
<1>3. ASSUME NEW a  PROVE <<a>> \in Seq(Range(<<a>>))
  <2>1. <<a>> \in Seq({a})
    OBVIOUS
  <2> QED  BY <1>2, <2>1
<1> QED  BY <1>1, <1>2, <1>3 DEF Refer, IsList

\* What refers to itself belongs together.
LEMMA ReferTogether ==
  ASSUME NEW s, Refer(s, KeysOf(s))
  PROVE  Together(s)
<1>1. PICK n \in Nat : DOMAIN s = 1 .. n
  BY DEF Refer, IsList
<1>2. KeysOf(s) = {Key(s[j]) : j \in 1 .. n}
  BY <1>1 DEF KeysOf, Range
<1>3. \A i \in 1 .. n : s[i] \in Range(s)
  BY <1>1 DEF Range
<1> QED  BY <1>1, <1>2, <1>3 DEF Refer, Together

\* Whatever kind of key a certificate has, it is an algorithm.
LEMMA PublicKeyIs ==
  ASSUME NEW key
  PROVE  Fresh(PublicKeyAsset(key))
<1>1. CASE key.kind = "RSA"
  BY <1>1, AlgorithmIs DEF PublicKeyAsset
<1>2. CASE key.kind = "EC"
  BY <1>2, AlgorithmIs DEF PublicKeyAsset
<1>3. CASE key.kind = "Edwards"
  BY <1>3, AlgorithmIs DEF PublicKeyAsset
<1>4. CASE key.kind \notin {"RSA", "EC", "Edwards"}
  BY <1>4, AlgorithmIs DEF PublicKeyAsset
<1> QED  BY <1>1, <1>2, <1>3, <1>4

\* A certificate refers to the two algorithms found with it.
LEMMA CertificateIs ==
  ASSUME NEW c
  PROVE  /\ DOMAIN CertificateAssets(c) = 1 .. 3
         /\ \A i \in 1 .. 3 :
              LET a == CertificateAssets(c)[i]
              IN  /\ Good(a) /\ a.occs = {}
                  /\ a.refs \subseteq {Key(CertificateAssets(c)[j]) : j \in 1 .. 3}
<1> DEFINE sig == Algorithm(c.sig, c.sig, LevelIn(PqSignatures, c.sig))
           key == PublicKeyAsset(c.key)
           plain == Asset("certificate", c.subject, c.serial, "", NoLevel)
           cert == Referred(plain, {Key(sig), Key(key)})
<1>1. CertificateAssets(c) = <<sig, key, cert>>
  BY DEF CertificateAssets, Referred
<1>2. Fresh(sig)
  BY AlgorithmIs
<1>3. Fresh(key)
  BY PublicKeyIs
<1>4. /\ Shaped(plain) /\ plain.type = "certificate" /\ plain.quantum = NoLevel
      /\ plain.notes = {} /\ plain.occs = {}
  BY DEF Asset, Shaped
<1> HIDE DEF sig, key, plain
<1>5. /\ Shaped(cert) /\ cert.refs = {Key(sig), Key(key)} /\ cert.type = "certificate"
      /\ cert.quantum = NoLevel /\ cert.notes = {} /\ cert.occs = {}
  <2>1. /\ Like(cert, plain) /\ cert.refs = {Key(sig), Key(key)} /\ cert.notes = plain.notes
    BY <1>4, OneField
  <2> QED  BY <1>4, <2>1 DEF Like
<1> HIDE DEF cert
<1>6. Good(cert)
  BY <1>5 DEF Good
<1> DEFINE s == CertificateAssets(c)
<1>7. DOMAIN s = 1 .. 3 /\ s[1] = sig /\ s[2] = key /\ s[3] = cert
  BY <1>1
<1> HIDE DEF s
<1>8. {Key(sig), Key(key)} \subseteq {Key(s[j]) : j \in 1 .. 3}
  BY <1>7
<1>9. \A i \in 1 .. 3 : /\ Good(s[i]) /\ s[i].occs = {}
                        /\ s[i].refs \subseteq {Key(s[j]) : j \in 1 .. 3}
  <2>1. \A i \in 1 .. 3 : i = 1 \/ i = 2 \/ i = 3
    OBVIOUS
  <2> QED  BY <1>2, <1>3, <1>5, <1>6, <1>7, <1>8, <2>1 DEF Fresh
<1> QED  BY <1>7, <1>9 DEF s

\* The domain of a list.
LEMMA ListDomain ==
  ASSUME NEW s, IsList(s)
  PROVE  \E n \in Nat : DOMAIN s = 1 .. n
BY DEF IsList

\* Whatever a finding adds refers only to what it adds with it.
LEMMA FoundIs ==
  ASSUME NEW x, x.rule \in {"protocol", "group_list", "kex_list"} => IsList(x.list)
  PROVE  Together(Found(x))
<1>1. CASE x.rule = "asset"
  <2> DEFINE p == IF x.name = "ECDSA" THEN Alias(x.params) ELSE x.params
             a == Algorithm(x.name, p, IF p \in DOMAIN PqGroups THEN PqGroups[p] ELSE x.quantum)
             b == Noted(a, x.notes)
  <2>1. Fresh(a) /\ a.type = "algorithm"
    BY AlgorithmIs
  <2>2. Found(x) = <<b>>
    BY <1>1 DEF Found, AlgorithmFromRule, Noted
  <2> HIDE DEF a
  <2>3. Fresh(b)
    BY <2>1, WithNotes
  <2> HIDE DEF b
  <2> QED  BY <2>2, <2>3, Alone
<1>2. CASE x.rule = "protocol"
  <2>1. Found(x) = [i \in DOMAIN x.list |-> Protocol(x.list[i])]
    BY <1>2 DEF Found
  <2>2. PICK n \in Nat : DOMAIN x.list = 1 .. n
    BY <1>2, ListDomain
  <2>3. \A i \in 1 .. n : Fresh(Found(x)[i])
    BY <2>1, <2>2, ProtocolIs
  <2> QED  BY <2>1, <2>2, <2>3, Separate
<1>3. CASE x.rule = "group_list"
  <2> DEFINE prefix == "TLS group "
  <2>1. Found(x) = [i \in DOMAIN x.list |-> NamedGroup(prefix, x.list[i])]
    BY <1>3 DEF Found
  <2> HIDE DEF prefix
  <2>2. PICK n \in Nat : DOMAIN x.list = 1 .. n
    BY <1>3, ListDomain
  <2>3. \A i \in 1 .. n : Fresh(Found(x)[i])
    BY <2>1, <2>2, GroupIs
  <2> QED  BY <2>1, <2>2, <2>3, Separate
<1>4. CASE x.rule = "kex_list"
  <2> DEFINE prefix == "SSH KEX "
  <2>1. Found(x) = [i \in DOMAIN x.list |-> NamedGroup(prefix, x.list[i])]
    BY <1>4 DEF Found
  <2> HIDE DEF prefix
  <2>2. PICK n \in Nat : DOMAIN x.list = 1 .. n
    BY <1>4, ListDomain
  <2>3. \A i \in 1 .. n : Fresh(Found(x)[i])
    BY <2>1, <2>2, GroupIs
  <2> QED  BY <2>1, <2>2, <2>3, Separate
<1>5. CASE x.rule = "cipher_list"
  <2> DEFINE a == Protocol("1.2")
             b == Suited(a, Range(x.list))
  <2>1. Fresh(a) /\ a.type = "protocol"
    BY ProtocolIs
  <2>2. Found(x) = <<b>>
    BY <1>5 DEF Found, Suited
  <2> HIDE DEF a
  <2>3. Fresh(b)
    BY <2>1, WithSuites
  <2> HIDE DEF b
  <2> QED  BY <2>2, <2>3, Alone
<1>6. CASE x.rule = "certificate"
  <2> DEFINE s == CertificateAssets(x)
  <2>1. Found(x) = s
    BY <1>6 DEF Found
  <2>2. /\ 3 \in Nat /\ DOMAIN s = 1 .. 3
        /\ \A i \in 1 .. 3 : /\ Good(s[i]) /\ s[i].occs = {}
                             /\ s[i].refs \subseteq {Key(s[j]) : j \in 1 .. 3}
    BY CertificateIs
  <2> HIDE DEF s
  <2>3. Together(s)
    BY <2>2 DEF Together
  <2> QED  BY <2>1, <2>3
<1>7. CASE x.rule \notin {"asset", "protocol", "group_list", "kex_list", "cipher_list", "certificate"}
  <2>1. Found(x) = <<>>
    BY <1>7 DEF Found
  <2>2. DOMAIN <<>> = 1 .. 0
    OBVIOUS
  <2> QED  BY <2>1, <2>2, Separate
<1> QED  BY <1>1, <1>2, <1>3, <1>4, <1>5, <1>6, <1>7

\* What an endpoint answers refers only to what is in the answer.
LEMMA ObservedIs ==
  ASSUME NEW e
  PROVE  Together(Observed(e))
<1>1. CASE e.error
  <2> DEFINE a == Protocol("unreachable")
             b == Noted(a, {"error"})
  <2>1. Fresh(a) /\ a.type # "certificate"
    BY ProtocolIs
  <2>2. Observed(e) = <<b>>
    BY <1>1 DEF Observed, Noted
  <2> HIDE DEF a
  <2>3. Fresh(b)
    BY <2>1, WithNotes
  <2> HIDE DEF b
  <2> QED  BY <2>2, <2>3, Alone
<1>2. CASE ~e.error
  <2> DEFINE none == <<>>
             g == NamedGroup("TLS group ", e.group)
             t == Algorithm("TLS signature " \o e.sig, e.sig, LevelIn(PqSignatures, e.sig))
             group == IF e.group = "" THEN none ELSE <<g>>
             sig == IF e.sig = "" THEN none ELSE <<t>>
             cert == IF e.certs = none THEN none ELSE CertificateAssets(e.certs[1])
             used == group \o sig
             refs == {Key(a) : a \in Range(used)}
             plain == Protocol(e.version)
             cipher == Suited(plain, {e.cipher} \ {""})
             prot == Referred(cipher, refs)
             s == Observed(e)
             K == refs \cup KeysOf(cert)
  <2>1. prot = [plain EXCEPT !.suites = {e.cipher} \ {""}, !.refs = refs]
    BY DEF Suited, Referred
  <2>2. s = <<prot>> \o group \o sig \o cert
    BY <1>2, <2>1 DEF Observed
  <2>3. Fresh(g) /\ Fresh(t)
    BY GroupIs, AlgorithmIs
  <2>4. Fresh(plain) /\ plain.type = "protocol"
    BY ProtocolIs
  <2>5. e.certs # none => Refer(cert, KeysOf(cert))
    <3> SUFFICES ASSUME e.certs # none  PROVE Refer(cert, KeysOf(cert))
      OBVIOUS
    <3> DEFINE r == CertificateAssets(e.certs[1])
    <3>1. cert = r
      OBVIOUS
    <3>2. /\ r = <<r[1], r[2], r[3]>>
          /\ \A i \in 1 .. 3 : /\ Good(r[i]) /\ r[i].occs = {}
                               /\ r[i].refs \subseteq {Key(r[j]) : j \in 1 .. 3}
          /\ DOMAIN r = 1 .. 3
      BY CertificateIs DEF CertificateAssets
    <3> HIDE DEF r, cert
    <3>3. Range(r) = {r[1], r[2], r[3]} /\ Range(r) = {r[i] : i \in 1 .. 3}
      BY <3>2 DEF Range
    <3>4. IsList(r)
      <4> DEFINE x == r[1]  y == r[2]  z == r[3]
      <4>1. <<x, y, z>> \in Seq({x, y, z})
        OBVIOUS
      <4> QED  BY <3>2, <3>3, <4>1 DEF IsList
    <3>5. KeysOf(r) = {Key(r[j]) : j \in 1 .. 3}
      BY <3>3 DEF KeysOf
    <3> QED  BY <3>1, <3>2, <3>3, <3>4, <3>5 DEF Refer
  <2> HIDE DEF g, t, plain
  <2>6. Fresh(cipher) /\ cipher.type = "protocol"
    BY <2>4, WithSuites
  <2> HIDE DEF cipher
  <2>7. Good(prot) /\ prot.occs = {} /\ prot.refs = refs
    <3> HIDE DEF refs
    <3>1. Shaped(cipher)
      BY <2>6 DEF Fresh, Good
    <3>2. Like(prot, cipher) /\ prot.refs = refs
      BY <3>1, OneField
    <3>3. Good(prot) /\ prot.occs = {}
      BY <2>6, <3>2 DEF Like, Fresh, Good
    <3> QED  BY <3>2, <3>3
  <2> HIDE DEF prot
  <2>8. Refer(cert, K)
    <3>1. CASE e.certs = none
      <4>1. cert = none
        BY <3>1
      <4> HIDE DEF cert, K
      <4> QED  BY <4>1, ReferFew
    <3>2. CASE e.certs # none
      <4> HIDE DEF cert, refs
      <4> QED  BY <2>5, <3>2 DEF Refer
    <3> QED  BY <3>1, <3>2
  <2> HIDE DEF cert
  <2>9. Refer(group, K) /\ Refer(sig, K)
    <3> HIDE DEF K
    <3> QED  BY <2>3, ReferFew DEF Fresh
  <2> HIDE DEF group, sig
  <2>10. Refer(used, K) /\ Range(used) = Range(group) \cup Range(sig)
    <3> HIDE DEF K
    <3> QED  BY <2>9, ReferBoth
  <2> HIDE DEF used
  <2>11. Refer(<<prot>>, K) /\ Range(<<prot>>) = {prot}
    <3>1. prot.refs \subseteq K
      BY <2>7
    <3> HIDE DEF K, refs
    <3> QED  BY <2>7, <3>1, ReferFew
  <2> HIDE DEF refs
  <2>12. /\ Refer(s, K)
         /\ Range(s) = {prot} \cup Range(group) \cup Range(sig) \cup Range(cert)
    <3> HIDE DEF K, s
    <3>1. /\ Refer(<<prot>> \o group, K)
          /\ Range(<<prot>> \o group) = {prot} \cup Range(group)
      BY <2>9, <2>11, ReferBoth
    <3>2. /\ Refer(<<prot>> \o group \o sig, K)
          /\ Range(<<prot>> \o group \o sig) = {prot} \cup Range(group) \cup Range(sig)
      BY <2>9, <3>1, ReferBoth
    <3> QED  BY <2>2, <2>8, <3>2, ReferBoth
  <2>13. K \subseteq KeysOf(s)
    BY <2>10, <2>12 DEF KeysOf, refs
  <2> HIDE DEF s, K
  <2>14. Refer(s, KeysOf(s))
    BY <2>12, <2>13 DEF Refer
  <2> QED  BY <2>14, ReferTogether DEF s
<1> QED  BY <1>1, <1>2

-------------------------------------------------------------------------------
(* Cbom: documents                                                          *)

\* The document of a sound inventory: references resolve, and nothing is there
\* twice.
Sound(file) ==
  /\ \A c \in file.components : Good(c) /\ c.refs \subseteq Refs(file)
  /\ \A c, d \in file.components : Key(c) = Key(d) => c = d

\* Assets with the same fields are one.
LEMMA SameShape ==
  ASSUME NEW x, Shaped(x), NEW y, Shaped(y), Key(x) = Key(y), x.quantum = y.quantum,
         x.suites = y.suites, x.refs = y.refs, x.notes = y.notes, x.occs = y.occs
  PROVE  x = y
BY DEF Shaped, Key

\* A field that is written with what it holds.
LEMMA SameLevel ==
  ASSUME NEW a, Shaped(a)
  PROVE  [a EXCEPT !.quantum = a.quantum] = a
<1> DEFINE t == a.type   n == a.name   p == a.params v == a.version q == a.quantum
           s == a.suites r == a.refs   m == a.notes  o == a.occs
<1>1. a = [type |-> t, name |-> n, params |-> p, version |-> v, quantum |-> q,
           suites |-> s, refs |-> r, notes |-> m, occs |-> o]
  BY DEF Shaped
<1>2. q = a.quantum
  OBVIOUS
<1> HIDE DEF t, n, p, v, q, s, r, m, o
<1>3. [a EXCEPT !.quantum = q] = [type |-> t, name |-> n, params |-> p, version |-> v,
                                  quantum |-> q, suites |-> s, refs |-> r, notes |-> m,
                                  occs |-> o]
  BY ONLY <1>1
<1>4. [a EXCEPT !.quantum = q] = a
  BY ONLY <1>1, <1>3
<1> QED  BY <1>2, <1>4

\* Writing an asset and reading it back loses nothing that its type has.
LEMMA ComponentIs ==
  ASSUME NEW a, Good(a)
  PROVE  Component(a) = a /\ LoadComponent(a) = a
<1>0. Shaped(a)
  BY DEF Good
<1>1. ASSUME a.type = "algorithm"  PROVE Component(a) = a
  <2> DEFINE b == Suited(a, {})
             c == Referred(b, {})
  <2>1. Component(a) = c
    BY <1>1 DEF Component, Suited, Referred
  <2>2. Like(b, a) /\ b.suites = {} /\ b.notes = a.notes /\ b.refs = a.refs
    BY <1>0, OneField
  <2>3. Like(c, b) /\ c.refs = {} /\ c.notes = b.notes /\ c.suites = b.suites
    <3> HIDE DEF b
    <3> QED  BY <2>2, OneField DEF Like
  <2>4. a.suites = {} /\ a.refs = {}
    BY <1>1 DEF Good
  <2> HIDE DEF b, c
  <2>5. /\ Shaped(c) /\ Key(c) = Key(a) /\ c.quantum = a.quantum /\ c.suites = a.suites
        /\ c.refs = a.refs /\ c.notes = a.notes /\ c.occs = a.occs
    BY <2>2, <2>3, <2>4 DEF Like
  <2>6. c = a
    BY <1>0, <2>5, SameShape
  <2> QED  BY <2>1, <2>6
<1>2. ASSUME a.type # "algorithm"  PROVE Component(a) = a
  <2>1. Component(a) = [a EXCEPT !.quantum = NoLevel]
    BY <1>2 DEF Component
  <2>2. a.quantum = NoLevel
    BY <1>2 DEF Good
  <2> QED  BY <1>0, <2>1, <2>2, SameLevel
<1>3. ASSUME a.type = "certificate"  PROVE LoadComponent(a) = a
  <2>1. LoadComponent(a) = Noted(a, {})
    BY <1>3 DEF LoadComponent, Noted
  <2>2. a.notes = {}
    BY <1>3 DEF Good
  <2> DEFINE b == Noted(a, {})
  <2>3. /\ Shaped(b) /\ Key(b) = Key(a) /\ b.quantum = a.quantum /\ b.suites = a.suites
        /\ b.refs = a.refs /\ b.notes = a.notes /\ b.occs = a.occs
    BY <1>0, <2>2, OneField DEF Like
  <2> HIDE DEF b
  <2>4. b = a
    BY <1>0, <2>3, SameShape
  <2> QED  BY <2>1, <2>4 DEF b
<1>4. a.type # "certificate" => LoadComponent(a) = a
  BY DEF LoadComponent
<1> QED  BY <1>1, <1>2, <1>3, <1>4

\* A whole inventory is written as a sound document of its assets.
LEMMA BuildIs ==
  ASSUME NEW inv, Whole(inv)
  PROVE  /\ Sound(BuildCbom(inv)) /\ BuildCbom(inv).components = Range(inv.assets)
         /\ Refs(BuildCbom(inv)) = DOMAIN inv.assets
<1> DEFINE file == BuildCbom(inv)
<1>1. \A k \in DOMAIN inv.assets :
        /\ Good(inv.assets[k]) /\ Key(inv.assets[k]) = k /\ Component(inv.assets[k]) = inv.assets[k]
        /\ inv.assets[k].refs \subseteq DOMAIN inv.assets
  BY ComponentIs DEF Whole, Filed
<1>2. file.components = {Component(a) : a \in Range(inv.assets)}
  BY DEF BuildCbom
<1> HIDE DEF file
<1>3. Range(inv.assets) = {inv.assets[k] : k \in DOMAIN inv.assets}
  BY DEF Range
<1>4. file.components = Range(inv.assets)
  BY <1>1, <1>2, <1>3
<1>5. Refs(file) = DOMAIN inv.assets
  BY <1>1, <1>3, <1>4 DEF Refs
<1>6. Sound(file)
  BY <1>1, <1>3, <1>4, <1>5 DEF Sound
<1> QED  BY <1>4, <1>5, <1>6 DEF file

\* A sound document is loaded as the whole inventory it is the document of.
LEMMA LoadIs ==
  ASSUME NEW file, Sound(file)
  PROVE  LET inv == LoadIntoInventory(file)
         IN  /\ Whole(inv) /\ DOMAIN inv.assets = Refs(file)
             /\ Range(inv.assets) = file.components
             /\ \A c \in file.components : inv.assets[Key(c)] = c
<1> DEFINE inv == LoadIntoInventory(file)
           loaded == {LoadComponent(c) : c \in file.components}
           assets == [k \in {Key(a) : a \in loaded} |-> CHOOSE a \in loaded : Key(a) = k]
<1>1. inv = [assets |-> assets, libraries |-> {}]
  BY DEF LoadIntoInventory
<1>2. loaded = file.components
  BY ComponentIs DEF Sound
<1>3. {Key(a) : a \in loaded} = Refs(file)
  BY <1>2 DEF Refs
<1>4. \A k \in {Key(a) : a \in loaded} : assets[k] \in loaded /\ Key(assets[k]) = k
  <2> HIDE DEF loaded
  <2> QED  OBVIOUS
<1>5. DOMAIN assets = Refs(file) /\ assets = [k \in DOMAIN assets |-> assets[k]]
  BY <1>3
<1> HIDE DEF loaded, assets, inv
<1>6. \A k \in Refs(file) : assets[k] \in file.components /\ Key(assets[k]) = k
  BY <1>2, <1>3, <1>4
<1>7. \A c \in file.components : Key(c) \in Refs(file) /\ assets[Key(c)] = c
  BY <1>6 DEF Refs, Sound
<1>8. Range(assets) = file.components
  BY <1>5, <1>6, <1>7 DEF Range
<1>9. Whole(inv)
  BY <1>1, <1>5, <1>6 DEF Whole, Filed, Sound
<1> QED  BY <1>1, <1>5, <1>7, <1>8, <1>9 DEF inv

-------------------------------------------------------------------------------
(* Cbom: scans                                                              *)

\* What a list of findings may be, and the assets and keys of a file.
Listing(content) ==
  /\ IsList(content)
  /\ \A x \in Range(content) :
       x.rule \in {"protocol", "group_list", "kex_list"} => IsList(x.list)

AssetsIn(f) == UNION {Range(Found(tree[f][i])) : i \in DOMAIN tree[f]}
KeysIn(f) == {Key(a) : a \in AssetsIn(f)}

\* A finding adds the evidence of its assets.
LEMMA AddFindingSays ==
  ASSUME NEW inv, Whole(inv), NEW f,
         NEW x, x.rule \in {"protocol", "group_list", "kex_list"} => IsList(x.list)
  PROVE  LET i2 == AddFinding(inv, x, f)
         IN  /\ Whole(i2) /\ Kept(inv, i2) /\ Evident(inv, i2, KeysOf(Found(x)), {f})
             /\ \A A : Leveled(inv, A) => Leveled(i2, A \cup Range(Found(x)))
<1> DEFINE i2 == AddFinding(inv, x, f)
           lib == inv.libraries \cup {<<x.name, f>>}
<1>1. CASE x.rule = "library"
  <2>1. i2 = [inv EXCEPT !.libraries = lib]
    BY <1>1 DEF AddFinding
  <2> HIDE DEF lib, i2
  <2>2. i2 = [assets |-> inv.assets, libraries |-> lib]
    BY <2>1 DEF Whole, Filed
  <2>3. Found(x) = <<>>
    BY <1>1 DEF Found
  <2>4. Range(Found(x)) = {}
    BY <2>3 DEF Range
  <2>5. Whole(i2) /\ i2.assets = inv.assets
    BY <2>2 DEF Whole, Filed
  <2>6. Evident(inv, i2, KeysOf(Found(x)), {f})
    BY <2>4, <2>5 DEF Evident, KeysOf, Occs
  <2>7. \A A : Leveled(inv, A) => Leveled(i2, A \cup Range(Found(x)))
    BY <2>4, <2>5 DEF Leveled
  <2>8. Kept(inv, i2)
    BY <2>5 DEF Kept, Extends
  <2> QED  BY <2>5, <2>6, <2>7, <2>8 DEF i2
<1>2. CASE x.rule # "library"
  <2>1. i2 = AddAll(inv, Found(x), {f})
    BY <1>2 DEF AddFinding
  <2>2. Together(Found(x))
    BY FoundIs
  <2> HIDE DEF i2
  <2> QED  BY <2>1, <2>2, AddAllSays DEF i2
<1> QED  BY <1>1, <1>2

\* A scan of a file adds it to the evidence of what is in it.
LEMMA ScanFileSays ==
  ASSUME NEW inv, Whole(inv), NEW f, Listing(tree[f])
  PROVE  LET i2 == ScanFile(inv, f)
         IN  /\ Whole(i2) /\ Kept(inv, i2) /\ Evident(inv, i2, KeysIn(f), {f})
             /\ \A k \in DOMAIN i2.assets \ DOMAIN inv.assets :
                  \E a \in AssetsIn(f) : Key(a) = k /\ i2.assets[k].quantum = a.quantum
<1>1. PICK n \in Nat : DOMAIN tree[f] = 1 .. n
  BY ListDomain DEF Listing
<1>2. PICK g : Runs(g, "findings", f, inv, tree[f], 1 .. n) /\ ScanFile(inv, f) = g[1 .. n]
  BY <1>1, ScanFileRuns
<1>3. g[1 .. 0] = inv /\ \A k \in 1 .. n : g[1 .. k] = AddFinding(g[1 .. k - 1], tree[f][k], f)
  BY <1>2, RunValues DEF Round
<1> DEFINE First(k) == UNION {Range(Found(tree[f][j])) : j \in 1 .. k}
           So(k) == LET i == g[1 .. k]
                    IN  /\ Whole(i) /\ Kept(inv, i) /\ Evident(inv, i, {Key(a) : a \in First(k)}, {f})
                        /\ \A A : Leveled(inv, A) => Leveled(i, A \cup First(k))
           S == {k \in 0 .. n : So(k)}
<1>4. 0 \in S
  <2>1. First(0) = {}
    OBVIOUS
  <2>2. /\ Kept(inv, inv) /\ Evident(inv, inv, {}, {f})
        /\ \A A : Leveled(inv, A) => Leveled(inv, A \cup {})
    BY DEF Kept, Extends, Evident, Occs, Leveled
  <2>3. So(0)
    <3> HIDE DEF First
    <3> QED  BY <1>3, <2>1, <2>2
  <2> QED  BY <2>3
<1>5. ASSUME NEW k \in 1 .. n, k - 1 \in S  PROVE k \in S
  <2> DEFINE i1 == g[1 .. k - 1]
             i2 == g[1 .. k]
             x == tree[f][k]
  <2>1. /\ Whole(i1) /\ Kept(inv, i1) /\ Evident(inv, i1, {Key(a) : a \in First(k - 1)}, {f})
        /\ \A A : Leveled(inv, A) => Leveled(i1, A \cup First(k - 1))
    BY <1>5
  <2>2. x.rule \in {"protocol", "group_list", "kex_list"} => IsList(x.list)
    BY <1>1 DEF Listing, Range
  <2>3. First(k) = First(k - 1) \cup Range(Found(x))
    <3>1. \A j : j \in 1 .. k <=> j \in 1 .. k - 1 \/ j = k
      OBVIOUS
    <3> QED  BY <3>1
  <2>4. i2 = AddFinding(i1, x, f)
    BY <1>3
  <2> HIDE DEF First, i1, i2, x
  <2>5. /\ Whole(i2) /\ Kept(i1, i2) /\ Evident(i1, i2, KeysOf(Found(x)), {f})
        /\ \A A : Leveled(i1, A) => Leveled(i2, A \cup Range(Found(x)))
    BY <2>1, <2>2, <2>4, AddFindingSays
  <2>6. Evident(inv, i2, {Key(a) : a \in First(k)}, {f})
    <3> DEFINE L == {Key(a) : a \in First(k - 1)}
    <3>1. {Key(a) : a \in First(k)} = L \cup KeysOf(Found(x))
      BY <2>3 DEF KeysOf
    <3>2. Evident(inv, i1, L, {f}) /\ Evident(i1, i2, KeysOf(Found(x)), {f})
      BY <2>1, <2>5
    <3> HIDE DEF L
    <3>3. Evident(inv, i2, L \cup KeysOf(Found(x)), {f})
      BY <3>2, EvidentAlong
    <3> QED  BY <3>1, <3>3
  <2>7. \A A : Leveled(inv, A) => Leveled(i2, A \cup First(k))
    <3> SUFFICES ASSUME NEW A, Leveled(inv, A)  PROVE Leveled(i2, A \cup First(k))
      OBVIOUS
    <3>1. Leveled(i2, (A \cup First(k - 1)) \cup Range(Found(x)))
      BY <2>1, <2>5
    <3>2. (A \cup First(k - 1)) \cup Range(Found(x)) = A \cup First(k)
      BY <2>3
    <3> QED  BY <3>1, <3>2
  <2>8. Kept(inv, i2)
    BY <2>1, <2>5, KeptAlong
  <2>9. So(k)
    BY <2>5, <2>6, <2>7, <2>8 DEF i2
  <2> QED  BY <2>9
<1> HIDE DEF S
<1>6. n \in S
  <2>1. \A k \in 0 .. n : k \in S
    BY <1>4, <1>5, RoundByRound
  <2> QED  BY <2>1
<1>7. So(n)
  BY <1>6 DEF S
<1>8. First(n) = AssetsIn(f)
  BY <1>1 DEF AssetsIn
<1> HIDE DEF First
<1> DEFINE i2 == g[1 .. n]
<1> HIDE DEF i2
<1>9. /\ Whole(i2) /\ Kept(inv, i2) /\ Evident(inv, i2, KeysIn(f), {f})
      /\ \A A : Leveled(inv, A) => Leveled(i2, A \cup AssetsIn(f))
  BY <1>7, <1>8 DEF i2, KeysIn
<1>10. ASSUME NEW k \in DOMAIN i2.assets \ DOMAIN inv.assets
       PROVE  \E a \in AssetsIn(f) : Key(a) = k /\ i2.assets[k].quantum = a.quantum
  <2> DEFINE A == Range(inv.assets)
  <2>1. \A a \in A : Key(a) \in DOMAIN inv.assets
    BY DEF Whole, Filed, Range
  <2>2. \A key \in DOMAIN inv.assets : inv.assets[key] \in A /\ Key(inv.assets[key]) = key
    BY DEF Whole, Filed, Range
  <2> HIDE DEF A
  <2>3. Leveled(inv, A)
    BY <2>2 DEF Leveled
  <2>4. PICK a \in A \cup AssetsIn(f) : Key(a) = k /\ i2.assets[k].quantum = a.quantum
    BY <1>9, <2>3 DEF Leveled
  <2> QED  BY <2>1, <2>4
<1> QED  BY <1>2, <1>9, <1>10 DEF i2

\* The r-th file is the first that has an asset, and gives it the level.
FirstOf(r, key, level) ==
  /\ \A m \in 1 .. r - 1 : key \notin KeysIn(Files[m])
  /\ \E a \in AssetsIn(Files[r]) : Key(a) = key /\ level = a.quantum

\* A scan of the tree finds the assets of its files, each with the files it is
\* in as its evidence, and with the level of a finding in the first of them.
LEMMA ScanTreeSays ==
  ASSUME \A f \in Range(Files) : Listing(tree[f])
  PROVE  /\ Whole(ScanTree)
         /\ DOMAIN ScanTree.assets = UNION {KeysIn(f) : f \in Range(Files)}
         /\ \A k \in DOMAIN ScanTree.assets :
              ScanTree.assets[k].occs = {f \in Range(Files) : k \in KeysIn(f)}
         /\ \A k \in DOMAIN ScanTree.assets :
              \E r \in DOMAIN Files : FirstOf(r, k, ScanTree.assets[k].quantum)
<1>1. PICK n \in Nat : DOMAIN Files = 1 .. n
  BY EstateAssumption, ListDomain
<1>2. PICK g : Runs(g, "files", {}, Empty, Files, 1 .. n) /\ ScanTree = g[1 .. n]
  BY <1>1, ScanTreeRuns
<1>3. g[1 .. 0] = Empty /\ \A k \in 1 .. n : g[1 .. k] = ScanFile(g[1 .. k - 1], Files[k])
  <2>1. \A i, x : Round("files", {}, i, x) = ScanFile(i, x)
    BY DEF Round
  <2> QED  BY <1>2, <2>1, RunValues
<1> DEFINE First(k) == {Files[j] : j \in 1 .. k}
           So(k) == LET i == g[1 .. k]
                    IN  /\ Whole(i) /\ DOMAIN i.assets = UNION {KeysIn(f) : f \in First(k)}
                        /\ \A key \in DOMAIN i.assets :
                             i.assets[key].occs = {f \in First(k) : key \in KeysIn(f)}
                        /\ \A key \in DOMAIN i.assets :
                             \E r \in 1 .. k : FirstOf(r, key, i.assets[key].quantum)
           S == {k \in 0 .. n : So(k)}
<1>4. 0 \in S
  <2>1. First(0) = {}
    OBVIOUS
  <2>2. Whole(Empty) /\ DOMAIN Empty.assets = {}
    BY DEF Whole, Filed, Empty
  <2>3. So(0)
    <3> HIDE DEF First
    <3> QED  BY <1>3, <2>1, <2>2
  <2> QED  BY <2>3
<1>5. ASSUME NEW k \in 1 .. n, k - 1 \in S  PROVE k \in S
  <2> DEFINE i1 == g[1 .. k - 1]
             i2 == g[1 .. k]
             at == Files[k]
             Old == First(k - 1)
             New == First(k)
  <2>1. /\ Whole(i1) /\ DOMAIN i1.assets = UNION {KeysIn(f) : f \in Old}
        /\ \A key \in DOMAIN i1.assets : i1.assets[key].occs = {f \in Old : key \in KeysIn(f)}
        /\ \A key \in DOMAIN i1.assets :
             \E r \in 1 .. k - 1 : FirstOf(r, key, i1.assets[key].quantum)
    BY <1>5
  <2>2. New = Old \cup {at}
    <3>1. \A j : j \in 1 .. k <=> j \in 1 .. k - 1 \/ j = k
      OBVIOUS
    <3> QED  BY <3>1
  <2>3. i2 = ScanFile(i1, at) /\ Listing(tree[at])
    BY <1>1, <1>3 DEF Range
  <2>a. at = Files[k] /\ \A r \in 1 .. k - 1 : Files[r] \in Old
    OBVIOUS
  <2> HIDE DEF First, i1, i2, at, Old, New
  <2>4. /\ Whole(i2) /\ Kept(i1, i2) /\ Evident(i1, i2, KeysIn(at), {at})
        /\ \A key \in DOMAIN i2.assets \ DOMAIN i1.assets :
             \E a \in AssetsIn(at) : Key(a) = key /\ i2.assets[key].quantum = a.quantum
    BY <2>1, <2>3, ScanFileSays
  <2>5. DOMAIN i2.assets = UNION {KeysIn(f) : f \in New}
    BY <2>1, <2>2, <2>4 DEF Evident
  <2>6. ASSUME NEW key \in DOMAIN i2.assets
        PROVE  i2.assets[key].occs = {f \in New : key \in KeysIn(f)}
    <3>1. i2.assets[key].occs = Occs(i1, key) \cup (IF key \in KeysIn(at) THEN {at} ELSE {})
      BY <2>4 DEF Evident
    <3>2. Occs(i1, key) = {f \in Old : key \in KeysIn(f)}
      BY <2>1 DEF Occs
    <3> QED  BY <2>2, <3>1, <3>2
  <2>7. ASSUME NEW key \in DOMAIN i2.assets
        PROVE  \E r \in 1 .. k : FirstOf(r, key, i2.assets[key].quantum)
    <3>1. CASE key \in DOMAIN i1.assets
      <4>1. PICK r \in 1 .. k - 1 : FirstOf(r, key, i1.assets[key].quantum)
        BY <2>1, <3>1
      <4>2. i2.assets[key].quantum = i1.assets[key].quantum
        BY <2>4, <3>1 DEF Kept, Extends
      <4>3. r \in 1 .. k
        OBVIOUS
      <4> QED  BY <4>1, <4>2, <4>3
    <3>2. CASE key \notin DOMAIN i1.assets
      <4>1. PICK a \in AssetsIn(at) : Key(a) = key /\ i2.assets[key].quantum = a.quantum
        BY <2>4, <3>2
      <4>2. \A f \in Old : key \notin KeysIn(f)
        BY <2>1, <3>2
      <4>3. FirstOf(k, key, i2.assets[key].quantum)
        BY <2>a, <4>1, <4>2 DEF FirstOf
      <4> QED  BY <4>3
    <3> QED  BY <3>1, <3>2
  <2>8. So(k)
    BY <2>4, <2>5, <2>6, <2>7 DEF i2, New
  <2> QED  BY <2>8
<1> HIDE DEF S
<1>6. n \in S
  <2>1. \A k \in 0 .. n : k \in S
    BY <1>4, <1>5, RoundByRound
  <2> QED  BY <2>1
<1>7. So(n)
  BY <1>6 DEF S
<1>8. First(n) = Range(Files)
  BY <1>1 DEF Range
<1> HIDE DEF First
<1> QED  BY <1>1, <1>2, <1>7, <1>8

-------------------------------------------------------------------------------
(* Cbom: merges                                                             *)

\* What the endpoints from the first to the last answer is in an inventory, with
\* the evidence of where it was seen.
HasAnswers(inv, hosts) ==
  \A h \in hosts : \A a \in Range(Observed(endpoints[h])) : Covers(inv, a, {h})

\* A merge of the endpoints loads the document, adds the answers, and does
\* nothing where they are known.
LEMMA MergeSays ==
  ASSUME NEW file, Sound(file)
  PROVE  \E i2 : /\ Whole(i2) /\ MergeInto(file) = BuildCbom(i2)
                 /\ Kept(LoadIntoInventory(file), i2) /\ HasAnswers(i2, Range(Hosts))
                 /\ HasAnswers(LoadIntoInventory(file), Range(Hosts))
                      => i2 = LoadIntoInventory(file)
<1> DEFINE inv == LoadIntoInventory(file)
<1>1. PICK n \in Nat : DOMAIN Hosts = 1 .. n
  BY EstateAssumption, ListDomain
<1>2. PICK g : Runs(g, "endpoints", {}, inv, Hosts, 1 .. n) /\ MergeInto(file) = BuildCbom(g[1 .. n])
  BY <1>1, MergeRuns
<1>3. Whole(inv)
  BY LoadIs
<1>a. inv = LoadIntoInventory(file)
  OBVIOUS
<1> HIDE DEF inv
<1>4. g[1 .. 0] = inv /\ \A k \in 1 .. n : g[1 .. k] = MergeEndpoint(g[1 .. k - 1], Hosts[k])
  <2>1. \A i, x : Round("endpoints", {}, i, x) = MergeEndpoint(i, x)
    BY DEF Round
  <2> QED  BY <1>2, <2>1, RunValues
<1> DEFINE First(k) == {Hosts[j] : j \in 1 .. k}
           So(k) == LET i == g[1 .. k]
                    IN  /\ Whole(i) /\ Kept(inv, i) /\ HasAnswers(i, First(k))
                        /\ HasAnswers(inv, Range(Hosts)) => i = inv
           S == {k \in 0 .. n : So(k)}
<1>5. 0 \in S
  <2>1. First(0) = {}
    OBVIOUS
  <2>2. Kept(inv, inv)
    BY DEF Kept, Extends
  <2>3. So(0)
    <3> HIDE DEF First
    <3> QED  BY <1>3, <1>4, <2>1, <2>2 DEF HasAnswers
  <2> QED  BY <2>3
<1>6. ASSUME NEW k \in 1 .. n, k - 1 \in S  PROVE k \in S
  <2> DEFINE i1 == g[1 .. k - 1]
             i2 == g[1 .. k]
             h == Hosts[k]
             Old == First(k - 1)
             New == First(k)
             found == Observed(endpoints[h])
  <2>1. /\ Whole(i1) /\ Kept(inv, i1) /\ HasAnswers(i1, Old)
        /\ HasAnswers(inv, Range(Hosts)) => i1 = inv
    BY <1>6
  <2>2. New = Old \cup {h} /\ h \in Range(Hosts)
    <3>1. \A j : j \in 1 .. k <=> j \in 1 .. k - 1 \/ j = k
      OBVIOUS
    <3>2. h \in Range(Hosts)
      BY <1>1 DEF Range
    <3> QED  BY <3>1, <3>2
  <2>3. i2 = AddAll(i1, found, {h}) /\ Together(found)
    BY <1>4, ObservedIs DEF MergeEndpoint
  <2>4. found = Observed(endpoints[h])
    OBVIOUS
  <2> HIDE DEF First, i1, i2, h, Old, New, found
  <2>5. /\ Whole(i2)
        /\ Kept(i1, i2) /\ \A a \in Range(found) : Covers(i2, a, {h})
        /\ (\A a \in Range(found) : Covers(i1, a, {h})) => i2 = i1
    BY <2>1, <2>3, AddAllSays
  <2>6. Kept(inv, i2) /\ HasAnswers(i2, New)
    <3>1. Kept(inv, i2) /\ \A a, at : Covers(i1, a, at) => Covers(i2, a, at)
      BY <2>1, <2>5, KeptAlong
    <3> QED  BY <2>1, <2>2, <2>4, <2>5, <3>1 DEF HasAnswers
  <2>7. HasAnswers(inv, Range(Hosts)) => i2 = inv
    BY <2>1, <2>2, <2>4, <2>5 DEF HasAnswers
  <2>8. So(k)
    BY <2>5, <2>6, <2>7 DEF i2, New
  <2> QED  BY <2>8
<1> HIDE DEF S
<1>7. n \in S
  <2>1. \A k \in 0 .. n : k \in S
    BY <1>5, <1>6, RoundByRound
  <2> QED  BY <2>1
<1>8. So(n)
  BY <1>7 DEF S
<1>9. First(n) = Range(Hosts)
  BY <1>1 DEF Range
<1> HIDE DEF First
<1> QED  BY <1>a, <1>2, <1>8, <1>9

-------------------------------------------------------------------------------
(* Cbom: the theorems                                                       *)

\* Files hold what they may hold, and the CBOM is sound.
CbomInv ==
  /\ DOMAIN tree = Range(Files)
  /\ \A f \in Range(Files) : tree[f] \in Contents[f]
  /\ Sound(cbom)

\* What the files hold are lists of findings.
LEMMA TreeIsListed ==
  ASSUME CbomInv
  PROVE  \A f \in Range(Files) : Listing(tree[f])
BY EstateAssumption DEF CbomInv, Listing

\* Edits, changed endpoints, scans and merges keep CbomInv.
LEMMA CbomInvariant == Spec => []CbomInv
<1>1. Init => CbomInv
  <2> SUFFICES ASSUME Init  PROVE CbomInv
    OBVIOUS
  <2>1. Whole(Empty)
    BY DEF Whole, Filed, Empty
  <2>2. Sound(cbom)
    BY <2>1, BuildIs DEF Init
  <2>3. tree \in [Range(Files) -> {<<>>}]
    BY DEF Init
  <2> QED  BY <2>2, <2>3, EstateAssumption DEF CbomInv
<1>2. CbomInv /\ [Next]_vars => CbomInv'
  <2> SUFFICES ASSUME CbomInv, [Next]_vars  PROVE CbomInv'
    OBVIOUS
  <2>1. ASSUME NEW f \in Range(Files), Edit(f)  PROVE CbomInv'
    <3>1. PICK c \in Contents[f] : tree' = [tree EXCEPT ![f] = c]
      BY <2>1 DEF Edit
    <3>2. cbom' = cbom
      BY <2>1 DEF Edit
    <3> QED  BY <3>1, <3>2 DEF CbomInv, Sound, Refs
  <2>2. ASSUME NEW h \in Range(Hosts), Reconfigure(h)  PROVE CbomInv'
    BY <2>2 DEF Reconfigure, CbomInv, Sound, Refs
  <2>3. ASSUME Scan  PROVE CbomInv'
    <3>1. Sound(BuildCbom(ScanTree))
      BY TreeIsListed, ScanTreeSays, BuildIs
    <3>2. cbom' = BuildCbom(ScanTree) /\ tree' = tree
      BY <2>3 DEF Scan
    <3>3. Sound(cbom')
      BY <3>1, <3>2
    <3> QED  BY <3>2, <3>3 DEF CbomInv
  <2>4. ASSUME Merge  PROVE CbomInv'
    <3>1. Sound(MergeInto(cbom))
      <4>1. PICK i2 : Whole(i2) /\ MergeInto(cbom) = BuildCbom(i2)
        BY MergeSays DEF CbomInv
      <4> QED  BY <4>1, BuildIs
    <3>2. cbom' = MergeInto(cbom) /\ tree' = tree
      BY <2>4 DEF Merge
    <3>3. Sound(cbom')
      BY <3>1, <3>2
    <3> QED  BY <3>2, <3>3 DEF CbomInv
  <2>5. CASE UNCHANGED vars
    BY <2>5 DEF vars, CbomInv, Sound, Refs
  <2> QED  BY <2>1, <2>2, <2>3, <2>4, <2>5 DEF Next
<1> QED  BY <1>1, <1>2, PTL DEF Spec

\* However often the CBOM is written, loaded, merged into and written again,
\* its references resolve and its bom-refs are unique, whatever is found in the
\* files and answered by the endpoints (cbomscan.py, tlsmerge.py).
THEOREM ReferencesStay == Spec => []ReferencesResolve
<1>1. CbomInv => ReferencesResolve
  BY DEF CbomInv, Sound, Good, ReferencesResolve
<1> QED  BY <1>1, CbomInvariant, PTL

\* What is written of an asset has its attributes.
LEMMA StandsAre ==
  ASSUME CbomInv, NEW f \in Range(Files)
  PROVE  Stands(f) = AssetsIn(f)
<1>1. Listing(tree[f])
  BY TreeIsListed
<1>2. ASSUME NEW i \in DOMAIN tree[f]
      PROVE  {Component(a) : a \in Range(Found(tree[f][i]))} = Range(Found(tree[f][i]))
  <2> DEFINE found == Found(tree[f][i])
  <2>1. tree[f][i] \in Range(tree[f])
    BY DEF Range
  <2>2. Together(found)
    BY <1>1, <2>1, FoundIs DEF Listing
  <2> HIDE DEF found
  <2>3. \A a \in Range(found) : Good(a)
    BY <2>2 DEF Together, Range
  <2>4. \A a \in Range(found) : Component(a) = a
    BY <2>3, ComponentIs
  <2> QED  BY <2>4 DEF found
<1> QED  BY <1>2 DEF Stands, AssetsIn

\* A hybrid group's level is PQ_GROUPS', whatever a finding of it says.
LEMMA GroupLevels ==
  ASSUME NEW x, x.rule \in {"protocol", "group_list", "kex_list"} => IsList(x.list),
         x.rule = "certificate" => Unmixed(x),
         NEW a \in Range(Found(x)), a.type = "algorithm", a.params \in DOMAIN PqGroups
  PROVE  a.quantum = PqGroups[a.params]
<1>0. \A name, params, quantum :
        LET b == Algorithm(name, params, quantum)
        IN  Shaped(b) /\ b.params = params /\ b.quantum = quantum
  BY DEF Algorithm, Asset, Shaped
<1>1. CASE x.rule = "asset"
  <2> DEFINE p == IF x.name = "ECDSA" THEN Alias(x.params) ELSE x.params
             q == IF p \in DOMAIN PqGroups THEN PqGroups[p] ELSE x.quantum
             b == Algorithm(x.name, p, q)
  <2>1. Found(x) = <<Noted(b, x.notes)>>
    BY <1>1 DEF Found, AlgorithmFromRule, Noted
  <2>2. a = Noted(b, x.notes)
    <3> DEFINE c == Noted(b, x.notes)
    <3> HIDE DEF c
    <3>1. DOMAIN <<c>> = {1} /\ <<c>>[1] = c
      OBVIOUS
    <3> QED  BY <2>1, <3>1 DEF Range, c
  <2> HIDE DEF p, q
  <2>3. Shaped(b) /\ b.params = p /\ b.quantum = q
    BY <1>0
  <2> HIDE DEF b
  <2>4. a.params = p /\ a.quantum = q
    BY <2>2, <2>3, OneField DEF Like
  <2> QED  BY <2>4 DEF q
<1>2. CASE x.rule = "protocol"
  <2>1. Found(x) = [i \in DOMAIN x.list |-> Protocol(x.list[i])]
    BY <1>2 DEF Found
  <2>2. PICK i \in DOMAIN x.list : a = Protocol(x.list[i])
    BY <2>1 DEF Range
  <2> QED  BY <2>2, ProtocolIs
<1>3. ASSUME NEW prefix, Found(x) = [i \in DOMAIN x.list |-> NamedGroup(prefix, x.list[i])]
      PROVE  a.quantum = PqGroups[a.params]
  <2>1. PICK i \in DOMAIN x.list : a = NamedGroup(prefix, x.list[i])
    BY <1>3 DEF Range
  <2> DEFINE g == x.list[i]
  <2>2. a.params = g /\ a.quantum = LevelIn(PqGroups, g)
    BY <1>0, <2>1 DEF NamedGroup
  <2> QED  BY <2>2 DEF LevelIn, LevelOr
<1>4. CASE x.rule = "group_list"
  <2> DEFINE prefix == "TLS group "
  <2>1. Found(x) = [i \in DOMAIN x.list |-> NamedGroup(prefix, x.list[i])]
    BY <1>4 DEF Found
  <2> HIDE DEF prefix
  <2> QED  BY <1>3, <2>1
<1>5. CASE x.rule = "kex_list"
  <2> DEFINE prefix == "SSH KEX "
  <2>1. Found(x) = [i \in DOMAIN x.list |-> NamedGroup(prefix, x.list[i])]
    BY <1>5 DEF Found
  <2> HIDE DEF prefix
  <2> QED  BY <1>3, <2>1
<1>6. CASE x.rule = "cipher_list"
  <2> DEFINE p == Protocol("1.2")
             b == Suited(p, Range(x.list))
  <2>1. Fresh(p) /\ p.type = "protocol"
    BY ProtocolIs
  <2>2. Found(x) = <<b>>
    BY <1>6 DEF Found, Suited
  <2> HIDE DEF p
  <2>3. b.type = "protocol"
    BY <2>1, WithSuites
  <2> HIDE DEF b
  <2>4. DOMAIN <<b>> = {1} /\ <<b>>[1] = b
    OBVIOUS
  <2>5. a = b
    BY <2>2, <2>4 DEF Range
  <2> QED  BY <2>3, <2>5
<1>7. CASE x.rule = "certificate"
  <2> DEFINE sig == Algorithm(x.sig, x.sig, LevelIn(PqSignatures, x.sig))
             key == PublicKeyAsset(x.key)
             plain == Asset("certificate", x.subject, x.serial, "", NoLevel)
             cert == Referred(plain, {Key(sig), Key(key)})
             s == CertificateAssets(x)
  <2>1. s = <<sig, key, cert>> /\ Found(x) = s
    BY <1>7 DEF CertificateAssets, Referred, Found
  <2>2. sig.params = x.sig
    BY <1>0
  <2>3. key.params \in {x.key.name, Alias(x.key.name)}
    <3>1. CASE x.key.kind = "RSA"
      BY <1>0, <3>1 DEF PublicKeyAsset
    <3>2. CASE x.key.kind = "EC"
      BY <1>0, <3>2 DEF PublicKeyAsset
    <3>3. CASE x.key.kind = "Edwards"
      BY <1>0, <3>3 DEF PublicKeyAsset
    <3>4. CASE x.key.kind \notin {"RSA", "EC", "Edwards"}
      BY <1>0, <3>4 DEF PublicKeyAsset
    <3> QED  BY <3>1, <3>2, <3>3, <3>4
  <2>4. Shaped(plain) /\ plain.type = "certificate"
    BY DEF Asset, Shaped
  <2> HIDE DEF sig, key, plain
  <2>5. cert.type = "certificate"
    BY <2>4, OneField DEF Like
  <2> HIDE DEF cert, s
  <2>6. DOMAIN s = 1 .. 3 /\ s[1] = sig /\ s[2] = key /\ s[3] = cert
    BY <2>1
  <2>7. \A i \in 1 .. 3 : i = 1 \/ i = 2 \/ i = 3
    OBVIOUS
  <2>8. a \in {sig, key, cert}
    BY <2>1, <2>6, <2>7 DEF Range
  <2>9. x.sig \notin DOMAIN PqGroups /\ key.params \notin DOMAIN PqGroups
    BY <1>7, <2>3 DEF Unmixed
  <2> QED  BY <2>2, <2>5, <2>8, <2>9
<1>8. CASE x.rule \notin {"asset", "protocol", "group_list", "kex_list", "cipher_list", "certificate"}
  <2>1. Found(x) = <<>>
    BY <1>8 DEF Found
  <2> QED  BY <2>1 DEF Range
<1> QED  BY <1>1, <1>2, <1>4, <1>5, <1>6, <1>7, <1>8

\* A scan finds exactly the assets of the tree, with exactly the files they are in,
\* at a level the first of these files gives, and the hybrid groups at theirs,
\* whatever the CBOM was (cbomscan.py).
THEOREM ScansAreExact == Spec => ScanIsExact
<1> DEFINE Exact ==
             /\ \A f \in Range(Files) : \A a \in Stands(f) :
                  \E c \in cbom'.components : Key(c) = Key(a) /\ f \in c.occs
             /\ \A c \in cbom'.components :
                  /\ \A f \in c.occs : \E a \in Stands(f) : Key(a) = Key(c)
                  /\ \E n \in DOMAIN Files :
                       /\ Files[n] \in c.occs /\ \A m \in 1 .. n - 1 : Files[m] \notin c.occs
                       /\ \E a \in Stands(Files[n]) : Key(a) = Key(c) /\ a.quantum = c.quantum
                  /\ c.type = "algorithm" /\ c.params \in DOMAIN PqGroups
                       => c.quantum = PqGroups[c.params]
           assets == ScanTree.assets
<1>1. ASSUME CbomInv, Scan  PROVE Exact
  <2>1. /\ Whole(ScanTree)
        /\ DOMAIN assets = UNION {KeysIn(f) : f \in Range(Files)}
        /\ \A k \in DOMAIN assets : assets[k].occs = {f \in Range(Files) : k \in KeysIn(f)}
        /\ \A k \in DOMAIN assets : \E r \in DOMAIN Files : FirstOf(r, k, assets[k].quantum)
    BY <1>1, TreeIsListed, ScanTreeSays
  <2>2. cbom'.components = Range(assets)
    BY <1>1, <2>1, BuildIs DEF Scan
  <2>3. \A k \in DOMAIN assets : assets[k] \in cbom'.components /\ Key(assets[k]) = k
    BY <2>1, <2>2 DEF Range, Whole, Filed
  <2>4. ASSUME NEW f \in Range(Files), NEW a \in Stands(f)
        PROVE  \E c \in cbom'.components : Key(c) = Key(a) /\ f \in c.occs
    <3>1. a \in AssetsIn(f) /\ Key(a) \in KeysIn(f)
      BY <1>1, StandsAre DEF KeysIn
    <3>2. Key(a) \in DOMAIN assets /\ f \in assets[Key(a)].occs
      BY <2>1, <3>1
    <3> HIDE DEF assets
    <3> QED  BY <2>3, <3>2
  <2>5. ASSUME NEW c \in cbom'.components
        PROVE  /\ \A f \in c.occs : \E a \in Stands(f) : Key(a) = Key(c)
               /\ \E n \in DOMAIN Files :
                    /\ Files[n] \in c.occs /\ \A m \in 1 .. n - 1 : Files[m] \notin c.occs
                    /\ \E a \in Stands(Files[n]) : Key(a) = Key(c) /\ a.quantum = c.quantum
               /\ c.type = "algorithm" /\ c.params \in DOMAIN PqGroups
                    => c.quantum = PqGroups[c.params]
    <3>1. PICK k \in DOMAIN assets : c = assets[k]
      BY <2>2 DEF Range
    <3>2. Key(c) = k /\ c.occs = {f \in Range(Files) : k \in KeysIn(f)}
      BY <2>1, <2>3, <3>1
    <3>3. PICK r \in DOMAIN Files : FirstOf(r, k, c.quantum)
      BY <2>1, <3>1
    <3>4. PICK a \in AssetsIn(Files[r]) : Key(a) = k /\ c.quantum = a.quantum
      BY <3>3 DEF FirstOf
    <3>5. Files[r] \in Range(Files)
      BY DEF Range
    <3>6. Stands(Files[r]) = AssetsIn(Files[r]) /\ k \in KeysIn(Files[r])
      BY <1>1, <3>4, <3>5, StandsAre DEF KeysIn
    <3>7. \A m \in 1 .. r - 1 : Files[m] \notin c.occs
      BY <3>2, <3>3 DEF FirstOf
    <3>8. \A f \in c.occs : \E b \in Stands(f) : Key(b) = Key(c)
      BY <1>1, <3>2, StandsAre DEF KeysIn
    <3>9. ASSUME c.type = "algorithm", c.params \in DOMAIN PqGroups
          PROVE  c.quantum = PqGroups[c.params]
      <4>1. PICK i \in DOMAIN tree[Files[r]] : a \in Range(Found(tree[Files[r]][i]))
        BY <3>4 DEF AssetsIn
      <4> DEFINE x == tree[Files[r]][i]
      <4>2. x \in Range(tree[Files[r]]) /\ tree[Files[r]] \in Contents[Files[r]]
        BY <1>1, <3>5, <4>1 DEF CbomInv, Range
      <4>3. /\ x.rule \in {"protocol", "group_list", "kex_list"} => IsList(x.list)
            /\ x.rule = "certificate" => Unmixed(x)
        BY <3>5, <4>2, EstateAssumption
      <4>4. a.type = c.type /\ a.params = c.params
        BY <3>2, <3>4 DEF Key
      <4>5. a \in Range(Found(x))
        BY <4>1
      <4> HIDE DEF x
      <4>6. a.quantum = PqGroups[a.params]
        BY <3>9, <4>3, <4>4, <4>5, GroupLevels
      <4> QED  BY <3>4, <4>4, <4>6
    <3>10. \E n \in DOMAIN Files :
             /\ Files[n] \in c.occs /\ \A m \in 1 .. n - 1 : Files[m] \notin c.occs
             /\ \E b \in Stands(Files[n]) : Key(b) = Key(c) /\ b.quantum = c.quantum
      BY <3>2, <3>4, <3>5, <3>6, <3>7
    <3> QED  BY <3>8, <3>9, <3>10
  <2> QED  BY <2>4, <2>5
<1>2. CbomInv => [Scan => Exact]_vars
  BY <1>1
<1>3. Spec => [][Scan => Exact]_vars
  <2> HIDE DEF Exact
  <2> QED  BY <1>2, CbomInvariant, PTL DEF Spec
<1> QED  BY <1>3 DEF ScanIsExact

\* cbomdiff's key of an asset is found from the asset's, and of an asset that is
\* not a certificate the other way round.
LEMMA IndexKeys ==
  ASSUME NEW x, Good(x), NEW y, Good(y)
  PROVE  /\ Key(x) = Key(y) => IndexKey(x) = IndexKey(y)
         /\ IndexKey(x) = IndexKey(y) /\ IndexKey(x)[1] # "certificate" => Key(x) = Key(y)
<1>1. ASSUME NEW a, Good(a)
      PROVE  /\ IndexKey(a)[1] = a.type
             /\ a.type = "algorithm" => IndexKey(a) = <<a.type, a.name, a.params>> /\ a.version = ""
             /\ a.type = "protocol" => IndexKey(a) = <<a.type, a.name, a.version>> /\ a.params = ""
             /\ a.type = "certificate" => IndexKey(a) = <<a.type, a.name, "">>
             /\ a.type \in {"algorithm", "protocol", "certificate"}
  BY <1>1 DEF IndexKey, Good
<1>2. ASSUME Key(x) = Key(y)  PROVE IndexKey(x) = IndexKey(y)
  BY <1>2 DEF Key, IndexKey
<1>3. ASSUME IndexKey(x) = IndexKey(y), IndexKey(x)[1] # "certificate"  PROVE Key(x) = Key(y)
  <2>1. x.type = y.type /\ x.type \in {"algorithm", "protocol"}
    BY <1>1, <1>3
  <2>2. CASE x.type = "algorithm"
    <3>1. <<x.type, x.name, x.params>> = <<y.type, y.name, y.params>> /\ x.version = y.version
      BY <1>1, <1>3, <2>1, <2>2
    <3>2. x.name = y.name /\ x.params = y.params
      BY ONLY <3>1
    <3> QED  BY <2>1, <3>1, <3>2 DEF Key
  <2>3. CASE x.type = "protocol"
    <3>1. <<x.type, x.name, x.version>> = <<y.type, y.name, y.version>> /\ x.params = y.params
      BY <1>1, <1>3, <2>1, <2>3
    <3>2. x.name = y.name /\ x.version = y.version
      BY ONLY <3>1
    <3> QED  BY <2>1, <3>1, <3>2 DEF Key
  <2> QED  BY <2>1, <2>2, <2>3
<1> QED  BY <1>2, <1>3

\* The index of a document has one of its components for each key.
LEMMA IndexIs ==
  ASSUME NEW file
  PROVE  /\ DOMAIN Index(file) = {IndexKey(c) : c \in file.components}
         /\ \A k \in DOMAIN Index(file) : /\ Index(file)[k] \in file.components
                                          /\ IndexKey(Index(file)[k]) = k
BY DEF Index

\* A diff of documents with the same components is empty.
LEMMA NoDiff ==
  ASSUME NEW old, NEW new, old.components = new.components
  PROVE  LET d == Diff(old, new) IN d.added = {} /\ d.removed = {} /\ d.changed = {}
<1>1. Index(old) = Index(new)
  BY DEF Index
<1> QED  BY <1>1 DEF Diff

\* The diff of a document and one that keeps all of it: nothing is removed, and
\* of what is not a certificate no evidence and no level.
LEMMA KeptDiff ==
  ASSUME NEW i1, Whole(i1), NEW i2, Whole(i2), Kept(i1, i2),
         NEW old, old.components = Range(i1.assets), NEW new, new.components = Range(i2.assets)
  PROVE  LET d == Diff(old, new)
         IN  /\ d.removed = {}
             /\ \A c \in d.changed : c.key[1] # "certificate" => c.minus = {} /\ c.from = c.to
<1> DEFINE a == Index(old)
           b == Index(new)
           entry(k) == [key |-> k, plus |-> b[k].occs \ a[k].occs, minus |-> a[k].occs \ b[k].occs,
                        from |-> a[k].quantum, to |-> b[k].quantum]
           d == Diff(old, new)
<1>1. /\ DOMAIN a = {IndexKey(c) : c \in old.components}
      /\ \A k \in DOMAIN a : a[k] \in old.components /\ IndexKey(a[k]) = k
      /\ DOMAIN b = {IndexKey(c) : c \in new.components}
      /\ \A k \in DOMAIN b : b[k] \in new.components /\ IndexKey(b[k]) = k
  BY IndexIs
<1>2. /\ d.removed = DOMAIN a \ DOMAIN b
      /\ \A c \in d.changed : \E k \in DOMAIN a \cap DOMAIN b : c = entry(k)
  BY DEF Diff
<1> HIDE DEF a, b, d
<1>3. \A c \in old.components : /\ Good(c) /\ Key(c) \in DOMAIN i1.assets /\ i1.assets[Key(c)] = c
  BY DEF Range, Whole, Filed
<1>4. \A c \in new.components : /\ Good(c) /\ Key(c) \in DOMAIN i2.assets /\ i2.assets[Key(c)] = c
  BY DEF Range, Whole, Filed
<1>5. \A c \in old.components : \E e \in new.components : Key(e) = Key(c)
  <2> SUFFICES ASSUME NEW c \in old.components
               PROVE  \E e \in new.components : Key(e) = Key(c)
    OBVIOUS
  <2>1. Key(c) \in DOMAIN i2.assets
    BY <1>3 DEF Kept
  <2>2. i2.assets[Key(c)] \in new.components /\ Key(i2.assets[Key(c)]) = Key(c)
    BY <2>1 DEF Range, Whole, Filed
  <2> QED  BY <2>2
<1>6. d.removed = {}
  <2>1. \A c \in old.components : IndexKey(c) \in DOMAIN b
    BY <1>1, <1>3, <1>4, <1>5, IndexKeys
  <2> QED  BY <1>1, <1>2, <2>1
<1>7. ASSUME NEW c \in d.changed, c.key[1] # "certificate"
      PROVE  c.minus = {} /\ c.from = c.to
  <2>1. PICK k \in DOMAIN a \cap DOMAIN b : c = entry(k)
    BY <1>2
  <2>2. c.key = k /\ c.minus = a[k].occs \ b[k].occs /\ c.from = a[k].quantum /\ c.to = b[k].quantum
    BY <2>1
  <2>3. /\ a[k] \in old.components /\ IndexKey(a[k]) = k
        /\ b[k] \in new.components /\ IndexKey(b[k]) = k
    BY <1>1
  <2>4. Key(a[k]) = Key(b[k])
    BY <1>3, <1>4, <1>7, <2>2, <2>3, IndexKeys
  <2>5. Extends(a[k], b[k])
    BY <1>3, <1>4, <2>3, <2>4 DEF Kept
  <2> QED  BY <2>2, <2>5 DEF Extends
<1> QED  BY <1>6, <1>7 DEF d

\* A merge loses no asset and no evidence and changes no level, has the evidence
\* of all that the endpoints answer, and done again it changes nothing
\* (tlsmerge.py, cbomdiff.py).
THEOREM MergesOnlyAdd == Spec => MergeOnlyAdds
<1> DEFINE d     == Diff(cbom, cbom')
           again == Diff(cbom', MergeInto(cbom'))
           OnlyAdds ==
             /\ Refs(cbom) \subseteq Refs(cbom') /\ d.removed = {}
             /\ \A c \in d.changed : c.key[1] # "certificate" => c.minus = {} /\ c.from = c.to
             /\ \A h \in Range(Hosts) : \A i \in DOMAIN Observed(endpoints[h]) :
                  \E c \in cbom'.components : /\ Key(c) = Key(Observed(endpoints[h])[i])
                                              /\ h \in c.occs
             /\ again.added = {} /\ again.removed = {} /\ again.changed = {}
<1>1. ASSUME CbomInv, Merge  PROVE OnlyAdds
  <2> DEFINE i1 == LoadIntoInventory(cbom)
             new == MergeInto(cbom)
             i3 == LoadIntoInventory(new)
  <2>1. cbom' = new
    BY <1>1 DEF Merge
  <2>2. Sound(cbom)
    BY <1>1 DEF CbomInv
  <2>3. /\ Whole(i1) /\ DOMAIN i1.assets = Refs(cbom) /\ Range(i1.assets) = cbom.components
    BY <2>2, LoadIs
  <2>4. PICK i2 : /\ Whole(i2) /\ new = BuildCbom(i2) /\ Kept(i1, i2)
                  /\ HasAnswers(i2, Range(Hosts))
    BY <2>2, MergeSays
  <2>5. /\ Sound(new) /\ new.components = Range(i2.assets) /\ Refs(new) = DOMAIN i2.assets
    BY <2>4, BuildIs
  <2>6. /\ Whole(i3) /\ DOMAIN i3.assets = Refs(new) /\ Range(i3.assets) = new.components
        /\ \A c \in new.components : i3.assets[Key(c)] = c
    BY <2>5, LoadIs
  <2>7. Refs(cbom) \subseteq Refs(cbom')
    BY <2>1, <2>3, <2>4, <2>5 DEF Kept
  <2>8. /\ d.removed = {}
        /\ \A c \in d.changed : c.key[1] # "certificate" => c.minus = {} /\ c.from = c.to
    <3> HIDE DEF i1, new
    <3> QED  BY <2>1, <2>3, <2>4, <2>5, KeptDiff
  <2>9. ASSUME NEW h \in Range(Hosts), NEW i \in DOMAIN Observed(endpoints[h])
        PROVE  \E c \in cbom'.components : Key(c) = Key(Observed(endpoints[h])[i]) /\ h \in c.occs
    <3> DEFINE a == Observed(endpoints[h])[i]
    <3>1. Covers(i2, a, {h})
      BY <2>4 DEF HasAnswers, Range
    <3>2. Key(a) \in DOMAIN i2.assets /\ h \in i2.assets[Key(a)].occs
      BY <3>1 DEF Covers
    <3> HIDE DEF a, new
    <3>3. i2.assets[Key(a)] \in cbom'.components /\ Key(i2.assets[Key(a)]) = Key(a)
      BY <2>1, <2>4, <2>5, <3>2 DEF Range, Whole, Filed
    <3> QED  BY <3>2, <3>3 DEF a
  <2>10. HasAnswers(i3, Range(Hosts))
    <3>1. ASSUME NEW k \in DOMAIN i2.assets
          PROVE  k \in DOMAIN i3.assets /\ i3.assets[k] = i2.assets[k]
      <4> HIDE DEF i3, new
      <4>1. i2.assets[k] \in new.components /\ Key(i2.assets[k]) = k
        BY <2>4, <2>5 DEF Range, Whole, Filed
      <4> QED  BY <2>5, <2>6, <4>1
    <3> HIDE DEF i3
    <3> QED  BY <2>4, <3>1 DEF HasAnswers, Covers
  <2>11. MergeInto(new).components = new.components
    <3>1. MergeInto(new) = BuildCbom(i3)
      <4> HIDE DEF new
      <4> QED  BY <2>5, <2>10, MergeSays
    <3> HIDE DEF i3, new
    <3> QED  BY <2>6, <3>1, BuildIs
  <2>12. again.added = {} /\ again.removed = {} /\ again.changed = {}
    <3> HIDE DEF new
    <3> QED  BY <2>1, <2>11, NoDiff
  <2> QED  BY <2>7, <2>8, <2>9, <2>12
<1>2. CbomInv => [Merge => OnlyAdds]_vars
  BY <1>1
<1>3. Spec => [][Merge => OnlyAdds]_vars
  <2> HIDE DEF OnlyAdds
  <2> QED  BY <1>2, CbomInvariant, PTL DEF Spec
<1> QED  BY <1>3 DEF MergeOnlyAdds
-------------------------------------------------------------------------------
(* LMS: powers of two and sums                                              *)

\* A part of the powers of two, up to the n-th.
Doubling(g, n) ==
  g = [k \in 0 .. n |-> IF k = 0 THEN 1 ELSE 2 * g[k - 1]]

\* There is such a part for every n, and two of them agree.
LEMMA DoublingIs ==
  ASSUME NEW n \in Nat
  PROVE  \E g : Doubling(g, n)
<1> DEFINE S == {k \in 0 .. n : \E g : Doubling(g, k)}
<1>1. 0 \in S
  <2> DEFINE g == [k \in 0 .. 0 |-> 1]
  <2>1. g = [k \in 0 .. 0 |-> IF k = 0 THEN 1 ELSE 2 * g[k - 1]]
    OBVIOUS
  <2> HIDE DEF g
  <2>2. Doubling(g, 0)
    BY <2>1 DEF Doubling
  <2> QED  BY <2>2
<1>2. ASSUME NEW k \in 1 .. n, k - 1 \in S  PROVE k \in S
  <2>1. PICK g : Doubling(g, k - 1)
    BY <1>2
  <2>2. \A j \in 0 .. k - 1 : g[j] = IF j = 0 THEN 1 ELSE 2 * g[j - 1]
    BY <2>1 DEF Doubling
  <2> DEFINE h == [j \in 0 .. k |-> IF j = k THEN 2 * g[k - 1] ELSE g[j]]
  <2>3. \A j \in 0 .. k : h[j] = IF j = 0 THEN 1 ELSE 2 * h[j - 1]
    <3> SUFFICES ASSUME NEW j \in 0 .. k
                 PROVE  h[j] = IF j = 0 THEN 1 ELSE 2 * h[j - 1]
      OBVIOUS
    <3>1. CASE j = k
      <4>1. h[k - 1] = g[k - 1] /\ k # 0 /\ h[k] = 2 * g[k - 1]
        OBVIOUS
      <4> HIDE DEF h
      <4> QED  BY <3>1, <4>1
    <3>2. CASE j # k /\ j = 0
      <4>1. h[0] = g[0] /\ g[0] = 1
        BY <2>2, <3>2
      <4> HIDE DEF h
      <4> QED  BY <3>2, <4>1
    <3>3. CASE j # k /\ j # 0
      <4>1. /\ j \in 0 .. k - 1 /\ j - 1 \in 0 .. k /\ j - 1 # k
            /\ h[j] = g[j] /\ h[j - 1] = g[j - 1]
        BY <3>3
      <4> HIDE DEF h
      <4> QED  BY <2>2, <3>3, <4>1
    <3> QED  BY <3>1, <3>2, <3>3
  <2>4. h = [j \in 0 .. k |-> h[j]]
    OBVIOUS
  <2> HIDE DEF h
  <2>5. Doubling(h, k)
    BY <2>3, <2>4 DEF Doubling
  <2> QED  BY <2>5
<1> HIDE DEF S
<1>3. n \in S
  <2>1. \A k \in 0 .. n : k \in S
    BY <1>1, <1>2, RoundByRound
  <2> QED  BY <2>1
<1> QED  BY <1>3 DEF S

\* Parts of different lengths agree where both are.
LEMMA DoublingAgrees ==
  ASSUME NEW m \in Nat, NEW n \in Nat, m =< n, NEW g, Doubling(g, m), NEW h, Doubling(h, n)
  PROVE  \A k \in 0 .. m : g[k] = h[k]
<1> DEFINE S == {k \in 0 .. m : g[k] = h[k]}
<1>1. /\ \A k \in 0 .. m : g[k] = IF k = 0 THEN 1 ELSE 2 * g[k - 1]
      /\ \A k \in 0 .. n : h[k] = IF k = 0 THEN 1 ELSE 2 * h[k - 1]
  BY DEF Doubling
<1>2. 0 \in S
  <2>1. 0 \in 0 .. m /\ 0 \in 0 .. n
    OBVIOUS
  <2> QED  BY <1>1, <2>1
<1>3. ASSUME NEW k \in 1 .. m, k - 1 \in S  PROVE k \in S
  <2>1. k \in 0 .. m /\ k \in 0 .. n /\ k # 0
    OBVIOUS
  <2>2. g[k - 1] = h[k - 1]
    BY <1>3
  <2> QED  BY <1>1, <2>1, <2>2
<1> HIDE DEF S
<1>4. \A k \in 0 .. m : k \in S
  BY <1>2, <1>3, RoundByRound
<1> QED  BY <1>4 DEF S

\* What the powers of two are.
LEMMA Pow2Is ==
  /\ Pow2[0] = 1
  /\ \A n \in Nat : Pow2[n] \in Nat \ {0} /\ Pow2[n + 1] = 2 * Pow2[n]
<1> DEFINE IsPow(f) == f = [n \in Nat |-> IF n = 0 THEN 1 ELSE 2 * f[n - 1]]
           Part(n) == CHOOSE g : Doubling(g, n)
           all == [n \in Nat |-> Part(n)[n]]
<1>1. \A n \in Nat : Doubling(Part(n), n)
  BY DoublingIs
<1>2. \A n \in Nat : all[n] = IF n = 0 THEN 1 ELSE 2 * all[n - 1]
  <2> SUFFICES ASSUME NEW n \in Nat  PROVE all[n] = IF n = 0 THEN 1 ELSE 2 * all[n - 1]
    OBVIOUS
  <2>1. all[n] = Part(n)[n]
    OBVIOUS
  <2>2. n # 0 => n - 1 \in Nat /\ all[n - 1] = Part(n - 1)[n - 1]
    OBVIOUS
  <2> HIDE DEF all, Part
  <2>3. Part(n)[n] = IF n = 0 THEN 1 ELSE 2 * Part(n)[n - 1]
    BY <1>1 DEF Doubling
  <2>4. n # 0 => Part(n - 1)[n - 1] = Part(n)[n - 1]
    BY <1>1, DoublingAgrees
  <2> QED  BY <2>1, <2>2, <2>3, <2>4
<1>3. all = [n \in Nat |-> all[n]]
  OBVIOUS
<1> HIDE DEF all, Part
<1>4. IsPow(all)
  BY <1>2, <1>3
<1>5. IsPow(Pow2)
  <2>1. Pow2 = CHOOSE f : IsPow(f)
    BY DEF Pow2
  <2> HIDE DEF IsPow
  <2> QED  BY <1>4, <2>1
<1>6. \A n \in Nat : Pow2[n] = IF n = 0 THEN 1 ELSE 2 * Pow2[n - 1]
  BY <1>5
<1>7. Pow2[0] = 1
  BY <1>6
<1>8. \A n \in Nat : Pow2[n + 1] = 2 * Pow2[n]
  <2> SUFFICES ASSUME NEW n \in Nat  PROVE Pow2[n + 1] = 2 * Pow2[n]
    OBVIOUS
  <2>1. n + 1 \in Nat /\ n + 1 # 0 /\ (n + 1) - 1 = n
    OBVIOUS
  <2>2. Pow2[n + 1] = 2 * Pow2[(n + 1) - 1]
    BY <1>6, <2>1
  <2> QED  BY <2>1, <2>2
<1>9. ASSUME NEW n \in Nat  PROVE Pow2[n] \in Nat \ {0}
  <2> DEFINE S == {k \in 0 .. n : Pow2[k] \in Nat \ {0}}
  <2>1. 0 \in S
    BY <1>7
  <2>2. ASSUME NEW k \in 1 .. n, k - 1 \in S  PROVE k \in S
    <3>1. k - 1 \in Nat /\ (k - 1) + 1 = k /\ Pow2[k - 1] \in Nat \ {0}
      BY <2>2
    <3>2. Pow2[k] = 2 * Pow2[k - 1]
      BY <1>8, <3>1
    <3> QED  BY <3>1, <3>2
  <2> HIDE DEF S
  <2>3. \A k \in 0 .. n : k \in S
    BY <2>1, <2>2, RoundByRound
  <2> QED  BY <2>3 DEF S
<1> QED  BY <1>7, <1>8, <1>9

\* The first of them.
LEMMA SmallPowers ==
  /\ Pow2[0] = 1 /\ Pow2[1] = 2 /\ Pow2[2] = 4 /\ Pow2[3] = 8 /\ Pow2[4] = 16
  /\ Pow2[5] = 32 /\ Pow2[6] = 64 /\ Pow2[7] = 128 /\ Pow2[8] = 256
<1>1. Pow2[1] = 2 * Pow2[0] /\ Pow2[2] = 2 * Pow2[1] /\ Pow2[3] = 2 * Pow2[2]
  <2>1. Pow2[0 + 1] = 2 * Pow2[0] /\ Pow2[1 + 1] = 2 * Pow2[1] /\ Pow2[2 + 1] = 2 * Pow2[2]
    BY Pow2Is
  <2> QED  BY <2>1
<1>2. Pow2[4] = 2 * Pow2[3] /\ Pow2[5] = 2 * Pow2[4] /\ Pow2[6] = 2 * Pow2[5]
  <2>1. Pow2[3 + 1] = 2 * Pow2[3] /\ Pow2[4 + 1] = 2 * Pow2[4] /\ Pow2[5 + 1] = 2 * Pow2[5]
    BY Pow2Is
  <2> QED  BY <2>1
<1>3. Pow2[7] = 2 * Pow2[6] /\ Pow2[8] = 2 * Pow2[7]
  <2>1. Pow2[6 + 1] = 2 * Pow2[6] /\ Pow2[7 + 1] = 2 * Pow2[7]
    BY Pow2Is
  <2> QED  BY <2>1
<1> QED  BY <1>1, <1>2, <1>3, Pow2Is

\* Sums over a set.  A fold takes its value for a set from the same set without
\* the element that is chosen from it; the number of boxes, with f[x] boxes over
\* each x, satisfies the same equation, and only that does.
Taken(s) == CHOOSE x \in s : TRUE

Sums(g, f, D) ==
  g = [s \in SUBSET D |-> IF s = {} THEN 0 ELSE f[Taken(s)] + g[s \ {Taken(s)}]]

Boxes(f, s) == UNION {{x} \X (1 .. f[x]) : x \in s}

\* Boxes over one element more.
LEMMA BoxesAdd ==
  ASSUME NEW D, IsFiniteSet(D), NEW c \in Nat, NEW f \in [D -> 0 .. c],
         NEW s \in SUBSET D
  PROVE  /\ IsFiniteSet(Boxes(f, s)) /\ Cardinality(Boxes(f, s)) \in Nat
         /\ Cardinality(Boxes(f, s)) =< Cardinality(D) * c
         /\ \A x \in s : Cardinality(Boxes(f, s)) = f[x] + Cardinality(Boxes(f, s \ {x}))
<1>1. IsFiniteSet(1 .. c) /\ Cardinality(1 .. c) = c
  BY FS_Interval
<1>2. IsFiniteSet(D \X (1 .. c)) /\ Cardinality(D \X (1 .. c)) = Cardinality(D) * c
  BY <1>1, FS_Product
<1>3. \A t \in SUBSET D : Boxes(f, t) \in SUBSET (D \X (1 .. c))
  <2> SUFFICES ASSUME NEW t \in SUBSET D, NEW b \in Boxes(f, t)  PROVE b \in D \X (1 .. c)
    OBVIOUS
  <2>1. PICK x \in t : b \in {x} \X (1 .. f[x])
    BY DEF Boxes
  <2>2. f[x] \in 0 .. c
    OBVIOUS
  <2> QED  BY <2>1, <2>2
<1>4. \A t \in SUBSET D : /\ IsFiniteSet(Boxes(f, t)) /\ Cardinality(Boxes(f, t)) \in Nat
                          /\ Cardinality(Boxes(f, t)) =< Cardinality(D) * c
  <2> SUFFICES ASSUME NEW t \in SUBSET D
               PROVE  /\ IsFiniteSet(Boxes(f, t)) /\ Cardinality(Boxes(f, t)) \in Nat
                      /\ Cardinality(Boxes(f, t)) =< Cardinality(D) * c
    OBVIOUS
  <2>1. IsFiniteSet(Boxes(f, t)) /\ Cardinality(Boxes(f, t)) =< Cardinality(D \X (1 .. c))
    BY <1>2, <1>3, FS_Subset
  <2>2. Cardinality(Boxes(f, t)) \in Nat
    BY <2>1, FS_CardinalityType
  <2> QED  BY <1>2, <2>1, <2>2
<1>5. ASSUME NEW x \in s
      PROVE  Cardinality(Boxes(f, s)) = f[x] + Cardinality(Boxes(f, s \ {x}))
  <2> DEFINE column == {x} \X (1 .. f[x])
             rest == Boxes(f, s \ {x})
  <2>1. f[x] \in Nat
    OBVIOUS
  <2>2. IsFiniteSet(1 .. f[x]) /\ Cardinality(1 .. f[x]) = f[x]
    <3> DEFINE m == f[x]
    <3>1. m \in Nat /\ 1 \in Int /\ m \in Int
      BY <2>1
    <3> HIDE DEF m
    <3>2. IsFiniteSet(1 .. m) /\ Cardinality(1 .. m) = IF 1 > m THEN 0 ELSE m - 1 + 1
      BY <3>1, FS_Interval
    <3>3. (IF 1 > m THEN 0 ELSE m - 1 + 1) = m
      BY <3>1
    <3> QED  BY <3>2, <3>3 DEF m
  <2>3. IsFiniteSet({x}) /\ Cardinality({x}) = 1
    BY FS_Singleton
  <2>4. IsFiniteSet(column) /\ Cardinality(column) = 1 * f[x]
    BY <2>2, <2>3, FS_Product, ZenonT(60)
  <2>5. Boxes(f, s) = column \cup rest /\ column \cap rest = {}
    BY DEF Boxes
  <2>6. IsFiniteSet(rest) /\ Cardinality(rest) \in Nat
    BY <1>4
  <2> HIDE DEF column, rest
  <2>7. Cardinality(column \cup rest) = Cardinality(column) + Cardinality(rest) - 0
    BY <2>4, <2>5, <2>6, FS_Union, FS_EmptySet
  <2>8. Cardinality(Boxes(f, s)) = f[x] + Cardinality(rest)
    BY <2>1, <2>4, <2>5, <2>6, <2>7
  <2> QED  BY <2>8 DEF rest
<1> QED  BY <1>4, <1>5

\* The one solution of the equation.
LEMMA SumIsBoxes ==
  ASSUME NEW D, IsFiniteSet(D), NEW c \in Nat, NEW f \in [D -> 0 .. c]
  PROVE  /\ \E g : Sums(g, f, D)
         /\ \A g : Sums(g, f, D) => g[D] = Cardinality(Boxes(f, D))
<1> DEFINE count == [s \in SUBSET D |-> Cardinality(Boxes(f, s))]
<1>1. \A s \in SUBSET D : count[s] = IF s = {} THEN 0 ELSE f[Taken(s)] + count[s \ {Taken(s)}]
  <2> SUFFICES ASSUME NEW s \in SUBSET D
               PROVE  count[s] = IF s = {} THEN 0 ELSE f[Taken(s)] + count[s \ {Taken(s)}]
    OBVIOUS
  <2>1. CASE s = {}
    <3>1. Boxes(f, s) = {}
      BY <2>1 DEF Boxes
    <3> QED  BY <2>1, <3>1, FS_EmptySet
  <2>2. CASE s # {}
    <3>1. Taken(s) \in s
      BY <2>2 DEF Taken
    <3>2. Cardinality(Boxes(f, s)) = f[Taken(s)] + Cardinality(Boxes(f, s \ {Taken(s)}))
      BY <3>1, BoxesAdd
    <3>3. s \ {Taken(s)} \in SUBSET D
      OBVIOUS
    <3> QED  BY <2>2, <3>2, <3>3
  <2> QED  BY <2>1, <2>2
<1>2. count = [s \in SUBSET D |-> count[s]] /\ count[D] = Cardinality(Boxes(f, D))
  OBVIOUS
<1> HIDE DEF count
<1>3. Sums(count, f, D)
  BY <1>1, <1>2 DEF Sums
<1>4. ASSUME NEW g, Sums(g, f, D)  PROVE g[D] = count[D]
  <2> SUFFICES ASSUME g[D] # count[D]  PROVE FALSE
    OBVIOUS
  <2> DEFINE Wrong == {s \in SUBSET D : g[s] # count[s]}
  <2>1. Wrong # {} /\ Wrong \subseteq SUBSET D
    OBVIOUS
  <2>2. FiniteSubsetsOf(D) = SUBSET D
    BY FS_FiniteSubsetsOfFinite
  <2>3. PICK s \in Wrong : \A t \in Wrong : ~ (<<t, s>> \in StrictSubsetOrdering(D))
    <3> HIDE DEF Wrong
    <3> QED  BY <2>1, <2>2, WFMin, FS_StrictSubsetOrderingWellFounded
  <2>4. \A t \in SUBSET D : g[t] = IF t = {} THEN 0 ELSE f[Taken(t)] + g[t \ {Taken(t)}]
    BY <1>4 DEF Sums
  <2>5. s # {} /\ Taken(s) \in s
    <3>1. s # {}
      <4>1. g[{}] = 0 /\ count[{}] = 0
        BY <1>1, <2>4
      <4> QED  BY <4>1
    <3> QED  BY <3>1 DEF Taken
  <2>6. s \ {Taken(s)} \in SUBSET D /\ <<s \ {Taken(s)}, s>> \in StrictSubsetOrdering(D)
    BY <2>5 DEF StrictSubsetOrdering
  <2>7. g[s \ {Taken(s)}] = count[s \ {Taken(s)}]
    BY <2>3, <2>6
  <2> QED  BY <1>1, <2>4, <2>5, <2>7
<1> QED  BY <1>2, <1>3, <1>4

\* A sum grows with its terms, and strictly if one of them does.
LEMMA SumsCompare ==
  ASSUME NEW D, IsFiniteSet(D), NEW c \in Nat, NEW f \in [D -> 0 .. c], NEW h \in [D -> 0 .. c],
         \A x \in D : f[x] =< h[x]
  PROVE  /\ Cardinality(Boxes(f, D)) =< Cardinality(Boxes(h, D))
         /\ Cardinality(Boxes(f, D)) = Cardinality(Boxes(h, D)) => f = h
<1>1. IsFiniteSet(Boxes(h, D))
  BY BoxesAdd
<1>2. Boxes(f, D) \in SUBSET Boxes(h, D)
  <2> SUFFICES ASSUME NEW b \in Boxes(f, D)  PROVE b \in Boxes(h, D)
    OBVIOUS
  <2>1. PICK x \in D : b \in {x} \X (1 .. f[x])
    BY DEF Boxes
  <2>2. f[x] \in Nat /\ h[x] \in Nat /\ f[x] =< h[x]
    OBVIOUS
  <2>3. b \in {x} \X (1 .. h[x])
    BY <2>1, <2>2
  <2> QED  BY <2>3 DEF Boxes
<1>3. ASSUME Boxes(h, D) = Boxes(f, D), NEW x \in D  PROVE f[x] = h[x]
  <2>1. f[x] \in Nat /\ h[x] \in Nat /\ f[x] =< h[x]
    OBVIOUS
  <2>2. CASE f[x] < h[x]
    <3>1. <<x, h[x]>> \in Boxes(h, D)
      <4>1. h[x] \in 1 .. h[x]
        BY <2>1, <2>2
      <4> QED  BY <4>1 DEF Boxes
    <3>2. PICK y \in D : <<x, h[x]>> \in {y} \X (1 .. f[y])
      BY <1>3, <3>1 DEF Boxes
    <3>3. h[x] \in 1 .. f[x]
      BY <3>2
    <3> QED  BY <2>1, <2>2, <3>3
  <2> QED  BY <2>1, <2>2
<1> QED  BY <1>1, <1>2, <1>3, FS_Subset

-------------------------------------------------------------------------------
(* LMS: digits                                                              *)

Widths == {1, 2, 4, 8}

\* The k-th digit of w bits of a byte.
Digit(v, w, k) == (v \div Pow2[8 - (w * k + w)]) % Pow2[w]

\* A digit of a string is one of a byte of it.
LEMMA CoefIsDigit ==
  ASSUME NEW w \in Widths, NEW V, NEW b \in Nat, NEW k \in 0 .. (8 \div w) - 1
  PROVE  Coef(V, b * (8 \div w) + k, w) = Digit(V[b + 1], w, k)
<1> DEFINE i == b * (8 \div w) + k
<1>1. (i * w) \div 8 = b /\ i % (8 \div w) = k
  <2>1. CASE w = 1
    <3>1. 8 \div w = 8 /\ k \in 0 .. 7
      BY <2>1
    <3>2. i = b * 8 + k /\ i * w = b * 8 + k
      BY <2>1, <3>1
    <3>3. (b * 8 + k) \div 8 = b /\ (b * 8 + k) % 8 = k
      BY <3>1
    <3> HIDE DEF i
    <3> QED  BY <3>1, <3>2, <3>3
  <2>2. CASE w = 2
    <3>1. 8 \div w = 4 /\ k \in 0 .. 3
      BY <2>2
    <3>2. i = b * 4 + k /\ i * w = b * 8 + 2 * k
      BY <2>2, <3>1
    <3>3. (b * 8 + 2 * k) \div 8 = b /\ (b * 4 + k) % 4 = k
      BY <3>1
    <3> HIDE DEF i
    <3> QED  BY <3>1, <3>2, <3>3
  <2>3. CASE w = 4
    <3>1. 8 \div w = 2 /\ k \in 0 .. 1
      BY <2>3
    <3>2. i = b * 2 + k /\ i * w = b * 8 + 4 * k
      BY <2>3, <3>1
    <3>3. (b * 8 + 4 * k) \div 8 = b /\ (b * 2 + k) % 2 = k
      BY <3>1
    <3> HIDE DEF i
    <3> QED  BY <3>1, <3>2, <3>3
  <2>4. CASE w = 8
    <3>1. 8 \div w = 1 /\ k = 0
      BY <2>4
    <3>2. i = b /\ i * w = b * 8
      BY <2>4, <3>1
    <3>3. (b * 8) \div 8 = b /\ b % 1 = 0
      OBVIOUS
    <3> HIDE DEF i
    <3> QED  BY <3>1, <3>2, <3>3
  <2> QED  BY <2>1, <2>2, <2>3, <2>4 DEF Widths
<1> HIDE DEF i
<1>2. Coef(V, i, w) = Digit(V[b + 1], w, k)
  BY <1>1 DEF Coef, Digit
<1> QED  BY <1>2 DEF i

\* Digits are less than 2 ** w, and the byte with the greater ones is the
\* greater.
LEMMA DigitsOrder ==
  ASSUME NEW w \in Widths, NEW u \in 0 .. 255, NEW v \in 0 .. 255
  PROVE  /\ \A k \in 0 .. (8 \div w) - 1 : Digit(u, w, k) \in 0 .. Pow2[w] - 1
         /\ (\A k \in 0 .. (8 \div w) - 1 : Digit(u, w, k) >= Digit(v, w, k)) => u >= v
<1>1. CASE w = 1
  <2> DEFINE D(x, k) == (x \div Pow2[7 - k]) % 2
  <2>1. \A x, k : k \in 0 .. 7 => Digit(x, w, k) = D(x, k)
    <3> SUFFICES ASSUME NEW x, NEW k \in 0 .. 7  PROVE Digit(x, w, k) = D(x, k)
      OBVIOUS
    <3>1. 8 - (w * k + w) = 7 - k
      BY <1>1
    <3>2. Pow2[w] = 2
      BY <1>1, SmallPowers
    <3> QED  BY <3>1, <3>2 DEF Digit
  <2>2. \A x \in 0 .. 255 :
          /\ x = 128 * D(x, 0) + 64 * D(x, 1) + 32 * D(x, 2) + 16 * D(x, 3)
                 + 8 * D(x, 4) + 4 * D(x, 5) + 2 * D(x, 6) + D(x, 7)
          /\ \A k \in {0, 1, 2, 3, 4, 5, 6, 7} : D(x, k) \in {0, 1}
    <3> SUFFICES ASSUME NEW x \in 0 .. 255
                 PROVE  /\ x = 128 * D(x, 0) + 64 * D(x, 1) + 32 * D(x, 2) + 16 * D(x, 3)
                               + 8 * D(x, 4) + 4 * D(x, 5) + 2 * D(x, 6) + D(x, 7)
                        /\ \A k \in {0, 1, 2, 3, 4, 5, 6, 7} : D(x, k) \in {0, 1}
      OBVIOUS
    <3>1. /\ D(x, 0) = (x \div 128) % 2 /\ D(x, 1) = (x \div 64) % 2
          /\ D(x, 2) = (x \div 32) % 2 /\ D(x, 3) = (x \div 16) % 2
          /\ D(x, 4) = (x \div 8) % 2 /\ D(x, 5) = (x \div 4) % 2
          /\ D(x, 6) = (x \div 2) % 2 /\ D(x, 7) = (x \div 1) % 2
      <4>1. 7 - 0 = 7 /\ 7 - 1 = 6 /\ 7 - 2 = 5 /\ 7 - 3 = 4 /\ 7 - 4 = 3 /\ 7 - 5 = 2
            /\ 7 - 6 = 1 /\ 7 - 7 = 0
        OBVIOUS
      <4> QED  BY ONLY <4>1, SmallPowers, ZenonT(60)
    <3> HIDE DEF D
    <3>2. /\ x = 2 * (x \div 2) + ((x \div 1) % 2)
          /\ x \div 2 = 2 * (x \div 4) + ((x \div 2) % 2)
          /\ x \div 4 = 2 * (x \div 8) + ((x \div 4) % 2)
          /\ x \div 8 = 2 * (x \div 16) + ((x \div 8) % 2)
          /\ x \div 16 = 2 * (x \div 32) + ((x \div 16) % 2)
          /\ x \div 32 = 2 * (x \div 64) + ((x \div 32) % 2)
          /\ x \div 64 = 2 * (x \div 128) + ((x \div 64) % 2)
          /\ x \div 128 = (x \div 128) % 2
      <4>1. x = 2 * (x \div 2) + ((x \div 1) % 2)
        OBVIOUS
      <4>2. x \div 2 = 2 * (x \div 4) + ((x \div 2) % 2)
        OBVIOUS
      <4>3. x \div 4 = 2 * (x \div 8) + ((x \div 4) % 2)
        OBVIOUS
      <4>4. x \div 8 = 2 * (x \div 16) + ((x \div 8) % 2)
        OBVIOUS
      <4>5. x \div 16 = 2 * (x \div 32) + ((x \div 16) % 2)
        OBVIOUS
      <4>6. x \div 32 = 2 * (x \div 64) + ((x \div 32) % 2)
        OBVIOUS
      <4>7. x \div 64 = 2 * (x \div 128) + ((x \div 64) % 2)
        OBVIOUS
      <4>8. x \div 128 = (x \div 128) % 2
        OBVIOUS
      <4> QED  BY ONLY <4>1, <4>2, <4>3, <4>4, <4>5, <4>6, <4>7, <4>8
    <3>3. /\ \A y \in Nat : y % 2 \in {0, 1}
          /\ x \div 1 \in Nat /\ x \div 2 \in Nat /\ x \div 4 \in Nat /\ x \div 8 \in Nat
          /\ x \div 16 \in Nat /\ x \div 32 \in Nat /\ x \div 64 \in Nat /\ x \div 128 \in Nat
      OBVIOUS
    <3>4. \A k \in {0, 1, 2, 3, 4, 5, 6, 7} : D(x, k) \in {0, 1}
      BY ONLY <3>1, <3>3
    <3>5. x = 128 * D(x, 0) + 64 * D(x, 1) + 32 * D(x, 2) + 16 * D(x, 3)
              + 8 * D(x, 4) + 4 * D(x, 5) + 2 * D(x, 6) + D(x, 7)
      <4>1. /\ x = 2 * (x \div 2) + D(x, 7)
            /\ x \div 2 = 2 * (x \div 4) + D(x, 6) /\ x \div 4 = 2 * (x \div 8) + D(x, 5)
            /\ x \div 8 = 2 * (x \div 16) + D(x, 4) /\ x \div 16 = 2 * (x \div 32) + D(x, 3)
            /\ x \div 32 = 2 * (x \div 64) + D(x, 2) /\ x \div 64 = 2 * (x \div 128) + D(x, 1)
            /\ x \div 128 = D(x, 0)
        BY ONLY <3>1, <3>2
      <4>2. /\ D(x, 0) \in Int /\ D(x, 1) \in Int /\ D(x, 2) \in Int /\ D(x, 3) \in Int
            /\ D(x, 4) \in Int /\ D(x, 5) \in Int /\ D(x, 6) \in Int /\ D(x, 7) \in Int
            /\ x \in Int
        BY <3>4
      <4> DEFINE q(c) == x \div c
      <4>3. /\ x = 2 * q(2) + D(x, 7)
            /\ q(2) = 2 * q(4) + D(x, 6) /\ q(4) = 2 * q(8) + D(x, 5)
            /\ q(8) = 2 * q(16) + D(x, 4) /\ q(16) = 2 * q(32) + D(x, 3)
            /\ q(32) = 2 * q(64) + D(x, 2) /\ q(64) = 2 * q(128) + D(x, 1)
            /\ q(128) = D(x, 0)
        BY <4>1
      <4>4. /\ q(2) \in Int /\ q(4) \in Int /\ q(8) \in Int /\ q(16) \in Int
            /\ q(32) \in Int /\ q(64) \in Int /\ q(128) \in Int
        BY <3>3
      <4> HIDE DEF q
      <4>5. q(16) = 8 * D(x, 0) + 4 * D(x, 1) + 2 * D(x, 2) + D(x, 3)
        BY ONLY <4>2, <4>3, <4>4
      <4>6. x = 16 * q(16) + 8 * D(x, 4) + 4 * D(x, 5) + 2 * D(x, 6) + D(x, 7)
        BY ONLY <4>2, <4>3, <4>4
      <4> QED  BY ONLY <4>2, <4>4, <4>5, <4>6
    <3> QED  BY <3>4, <3>5, SMTT(60)
  <2>3. \A k : k \in 0 .. (8 \div w) - 1 <=> k \in {0, 1, 2, 3, 4, 5, 6, 7}
    BY <1>1
  <2>4. \A x \in 0 .. 255, k \in 0 .. (8 \div w) - 1 : k \in 0 .. 7 /\ Digit(x, w, k) = D(x, k)
    BY <1>1, <2>1
  <2> DEFINE d(k) == D(u, k)
             e(k) == D(v, k)
  <2>5. /\ u = 128 * d(0) + 64 * d(1) + 32 * d(2) + 16 * d(3) + 8 * d(4) + 4 * d(5) + 2 * d(6) + d(7)
        /\ v = 128 * e(0) + 64 * e(1) + 32 * e(2) + 16 * e(3) + 8 * e(4) + 4 * e(5) + 2 * e(6) + e(7)
        /\ \A k \in {0, 1, 2, 3, 4, 5, 6, 7} : d(k) \in {0, 1} /\ e(k) \in {0, 1}
    <3> HIDE DEF D
    <3> QED  BY <2>2, ZenonT(60)
  <2>6. \A k \in 0 .. (8 \div w) - 1 : Digit(u, w, k) = d(k) /\ Digit(v, w, k) = e(k)
    BY <2>4
  <2> HIDE DEF d, e, D
  <2>7. (\A k \in {0, 1, 2, 3, 4, 5, 6, 7} : d(k) >= e(k)) => u >= v
    BY <2>5
  <2>8. Pow2[w] - 1 = 1
    BY <1>1, SmallPowers
  <2>9. \A k \in 0 .. (8 \div w) - 1 : Digit(u, w, k) \in 0 .. Pow2[w] - 1
    BY <2>3, <2>5, <2>6, <2>8
  <2> QED  BY ONLY <2>3, <2>6, <2>7, <2>9
<1>2. CASE w = 2
  <2>1. \A x \in 0 .. 255 :
          /\ Digit(x, w, 0) = (x \div 64) % 4 /\ Digit(x, w, 1) = (x \div 16) % 4
          /\ Digit(x, w, 2) = (x \div 4) % 4 /\ Digit(x, w, 3) = (x \div 1) % 4
    <3>1. /\ 8 - (w * 0 + w) = 6 /\ 8 - (w * 1 + w) = 4 /\ 8 - (w * 2 + w) = 2
          /\ 8 - (w * 3 + w) = 0
      BY <1>2
    <3>2. Pow2[w] = 4
      BY <1>2, SmallPowers
    <3> QED  BY ONLY <3>1, <3>2, SmallPowers DEF Digit
  <2>2. \A x \in 0 .. 255 :
          x = 64 * ((x \div 64) % 4) + 16 * ((x \div 16) % 4) + 4 * ((x \div 4) % 4)
              + ((x \div 1) % 4)
    <3> SUFFICES ASSUME NEW x \in 0 .. 255
                 PROVE  x = 64 * ((x \div 64) % 4) + 16 * ((x \div 16) % 4)
                            + 4 * ((x \div 4) % 4) + ((x \div 1) % 4)
      OBVIOUS
    <3>1. x = 4 * (x \div 4) + ((x \div 1) % 4)
      OBVIOUS
    <3>2. x \div 4 = 4 * (x \div 16) + ((x \div 4) % 4)
      OBVIOUS
    <3>3. x \div 16 = 4 * (x \div 64) + ((x \div 16) % 4)
      OBVIOUS
    <3>4. x \div 64 = (x \div 64) % 4
      OBVIOUS
    <3> QED  BY <3>1, <3>2, <3>3, <3>4
  <2>3. \A k : k \in 0 .. (8 \div w) - 1 <=> k \in {0, 1, 2, 3}
    BY <1>2
  <2>4. \A x \in 0 .. 255, k \in 0 .. (8 \div w) - 1 : Digit(x, w, k) \in 0 .. 3
    BY <2>1, <2>3
  <2> DEFINE d(k) == Digit(u, w, k)
             e(k) == Digit(v, w, k)
  <2>5. /\ u = 64 * d(0) + 16 * d(1) + 4 * d(2) + d(3)
        /\ v = 64 * e(0) + 16 * e(1) + 4 * e(2) + e(3)
    BY <2>1, <2>2
  <2>6. \A k \in {0, 1, 2, 3} : d(k) \in 0 .. 3 /\ e(k) \in 0 .. 3
    BY <2>3, <2>4
  <2> HIDE DEF d, e
  <2>7. (\A k \in {0, 1, 2, 3} : d(k) >= e(k)) => u >= v
    BY <2>5, <2>6
  <2>8. Pow2[w] - 1 = 3
    BY <1>2, SmallPowers
  <2>9. \A k \in 0 .. (8 \div w) - 1 : Digit(u, w, k) \in 0 .. Pow2[w] - 1
    BY <2>4, <2>8
  <2>10. \A k \in {0, 1, 2, 3} : d(k) = Digit(u, w, k) /\ e(k) = Digit(v, w, k)
    BY DEF d, e
  <2> QED  BY ONLY <2>3, <2>7, <2>9, <2>10
<1>3. CASE w = 4
  <2>1. \A x \in 0 .. 255 :
          Digit(x, w, 0) = (x \div 16) % 16 /\ Digit(x, w, 1) = (x \div 1) % 16
    BY <1>3, SmallPowers DEF Digit
  <2>2. \A x \in 0 .. 255 : x = 16 * ((x \div 16) % 16) + ((x \div 1) % 16)
    OBVIOUS
  <2>3. \A k : k \in 0 .. (8 \div w) - 1 <=> k \in {0, 1}
    BY <1>3
  <2>4. \A x \in 0 .. 255, k \in 0 .. (8 \div w) - 1 : Digit(x, w, k) \in 0 .. 15
    BY <2>1, <2>3
  <2> DEFINE d(k) == Digit(u, w, k)
             e(k) == Digit(v, w, k)
  <2>5. u = 16 * d(0) + d(1) /\ v = 16 * e(0) + e(1)
    BY <2>1, <2>2
  <2>6. \A k \in {0, 1} : d(k) \in 0 .. 15 /\ e(k) \in 0 .. 15
    BY <2>3, <2>4
  <2> HIDE DEF d, e
  <2>7. (\A k \in {0, 1} : d(k) >= e(k)) => u >= v
    BY <2>5, <2>6
  <2>8. Pow2[w] - 1 = 15
    BY <1>3, SmallPowers
  <2> QED  BY <2>3, <2>4, <2>7, <2>8 DEF d, e
<1>4. CASE w = 8
  <2>1. \A x \in 0 .. 255 : Digit(x, w, 0) = (x \div 1) % 256
    BY <1>4, SmallPowers DEF Digit
  <2>2. \A x \in 0 .. 255 : x = (x \div 1) % 256
    OBVIOUS
  <2>3. \A k : k \in 0 .. (8 \div w) - 1 <=> k = 0
    BY <1>4
  <2>4. Pow2[w] - 1 = 255
    BY <1>4, SmallPowers
  <2>5. 0 \in 0 .. (8 \div w) - 1 /\ Digit(u, w, 0) = u /\ Digit(v, w, 0) = v
    BY <2>1, <2>2, <2>3
  <2> QED  BY <2>3, <2>4, <2>5
<1> QED  BY <1>1, <1>2, <1>3, <1>4 DEF Widths
-------------------------------------------------------------------------------
(* LMS: checksums                                                           *)

Places(w) == 0 .. (8 \div w) - 1

\* What the digits of a byte of Q lack, and what each byte of Q lacks.
Lack(Q, w, b) == [k \in Places(w) |-> Pow2[w] - 1 - Coef(Q, b * (8 \div w) + k, w)]
LackSum(Q, w, b) == Cardinality(Boxes(Lack(Q, w, b), Places(w)))
Lacks(Q, w) == [b \in 0 .. N - 1 |-> LackSum(Q, w, b)]

\* The two sums of DigitSum, as the functions that they are computed with.
ByteStep(g, Q, w, b) ==
  g = [s \in SUBSET Places(w) |->
         IF s = {} THEN 0
         ELSE (Pow2[w] - 1 - Coef(Q, b * (8 \div w) + Taken(s), w)) + g[s \ {Taken(s)}]]
ByteFold(Q, w, b) == (CHOOSE g : ByteStep(g, Q, w, b))[Places(w)]
BytesStep(g, Q, w) ==
  g = [s \in SUBSET (0 .. Len(Q) - 1) |->
         IF s = {} THEN 0 ELSE ByteFold(Q, w, Taken(s)) + g[s \ {Taken(s)}]]

\* DigitSum unfolded.
LEMMA DigitSumUnfolds ==
  ASSUME NEW Q, NEW w
  PROVE  DigitSum(Q, w) = (CHOOSE g : BytesStep(g, Q, w))[0 .. Len(Q) - 1]
  BY DEF DigitSum, MapThenSumSet, MapThenFoldSet, BytesStep, ByteFold, ByteStep, Places, Taken

\* The digits of a byte string lack something in 0 .. 2 ** w - 1.
LEMMA LackType ==
  ASSUME NEW Q \in [1 .. N -> 0 .. 255], NEW w \in Widths, NEW b \in 0 .. N - 1
  PROVE  /\ Lack(Q, w, b) \in [Places(w) -> 0 .. Pow2[w] - 1]
         /\ \A k \in Places(w) :
              Lack(Q, w, b)[k] = Pow2[w] - 1 - Digit(Q[b + 1], w, k)
         /\ IsFiniteSet(Places(w)) /\ Cardinality(Places(w)) = 8 \div w
         /\ Pow2[w] - 1 \in Nat
<1>1. b \in Nat /\ Q[b + 1] \in 0 .. 255
  BY SMTT(60) DEF N
<1>2. ASSUME NEW k \in Places(w)
      PROVE  /\ Coef(Q, b * (8 \div w) + k, w) = Digit(Q[b + 1], w, k)
             /\ Digit(Q[b + 1], w, k) \in 0 .. Pow2[w] - 1
  BY <1>1, CoefIsDigit, DigitsOrder DEF Places
<1>3. Pow2[w] - 1 \in Nat
  <2>1. w \in Nat
    BY DEF Widths
  <2>2. Pow2[w] \in Nat \ {0}
    BY <2>1, Pow2Is
  <2> QED  BY <2>2
<1>4. ASSUME NEW k \in Places(w)
      PROVE  /\ Lack(Q, w, b)[k] = Pow2[w] - 1 - Digit(Q[b + 1], w, k)
             /\ Lack(Q, w, b)[k] \in 0 .. Pow2[w] - 1
  <2>1. Lack(Q, w, b)[k] = Pow2[w] - 1 - Digit(Q[b + 1], w, k)
    BY <1>2 DEF Lack
  <2>2. \A m \in Nat : \A d \in 0 .. m : m - d \in 0 .. m
    OBVIOUS
  <2> QED  BY <1>2, <1>3, <2>1, <2>2
<1>5. Lack(Q, w, b) \in [Places(w) -> 0 .. Pow2[w] - 1]
  <2>1. Lack(Q, w, b) = [k \in Places(w) |-> Lack(Q, w, b)[k]]
    BY DEF Lack
  <2> QED  BY <1>4, <2>1
<1>6. IsFiniteSet(Places(w)) /\ Cardinality(Places(w)) = 8 \div w
  <2> DEFINE m == (8 \div w) - 1
  <2>1. 0 \in Int /\ m \in Int /\ 0 =< m /\ m + 1 = 8 \div w
    BY DEF Widths
  <2> HIDE DEF m
  <2>2. IsFiniteSet(0 .. m) /\ Cardinality(0 .. m) = IF 0 > m THEN 0 ELSE m - 0 + 1
    BY <2>1, FS_Interval
  <2>3. (IF 0 > m THEN 0 ELSE m - 0 + 1) = m + 1
    BY <2>1
  <2> QED  BY <2>1, <2>2, <2>3 DEF m, Places
<1> QED  BY <1>3, <1>4, <1>5, <1>6

\* The sum over a byte is the number of boxes over it.
LEMMA ByteFoldIs ==
  ASSUME NEW Q \in [1 .. N -> 0 .. 255], NEW w \in Widths, NEW b \in 0 .. N - 1
  PROVE  /\ ByteFold(Q, w, b) = LackSum(Q, w, b)
         /\ LackSum(Q, w, b) \in 0 .. (8 \div w) * (Pow2[w] - 1)
<1> DEFINE f == Lack(Q, w, b)
           D == Places(w)
           c == Pow2[w] - 1
<1>1. f \in [D -> 0 .. c] /\ c \in Nat /\ IsFiniteSet(D) /\ Cardinality(D) = 8 \div w
  BY LackType
<1>2. \A g : Sums(g, f, D) <=> ByteStep(g, Q, w, b)
  <2> SUFFICES ASSUME NEW g
               PROVE  Sums(g, f, D) <=> ByteStep(g, Q, w, b)
    OBVIOUS
  <2> DEFINE one(s) == IF s = {} THEN 0 ELSE f[Taken(s)] + g[s \ {Taken(s)}]
             two(s) == IF s = {} THEN 0
                       ELSE (Pow2[w] - 1 - Coef(Q, b * (8 \div w) + Taken(s), w))
                              + g[s \ {Taken(s)}]
  <2>1. ASSUME NEW s \in SUBSET D  PROVE one(s) = two(s)
    <3>1. CASE s = {}
      BY <3>1
    <3>2. CASE s # {}
      <4>1. Taken(s) \in D
        BY <3>2 DEF Taken
      <4>2. f[Taken(s)] = Pow2[w] - 1 - Coef(Q, b * (8 \div w) + Taken(s), w)
        BY <4>1 DEF Lack
      <4> QED  BY <3>2, <4>2
    <3> QED  BY <3>1, <3>2
  <2> HIDE DEF one, two
  <2>2. [s \in SUBSET D |-> one(s)] = [s \in SUBSET D |-> two(s)]
    BY <2>1
  <2> QED  BY <2>2 DEF one, two, Sums, ByteStep
<1> HIDE DEF f, D, c
<1>3. \E g : Sums(g, f, D)
  BY <1>1, SumIsBoxes
<1>4. ByteStep(CHOOSE g : ByteStep(g, Q, w, b), Q, w, b)
  BY <1>2, <1>3
<1>5. (CHOOSE g : ByteStep(g, Q, w, b))[D] = Cardinality(Boxes(f, D))
  BY <1>1, <1>2, <1>4, SumIsBoxes
<1>6. Cardinality(Boxes(f, D)) \in 0 .. (8 \div w) * c
  <2>1. Cardinality(Boxes(f, D)) \in Nat /\ Cardinality(Boxes(f, D)) =< Cardinality(D) * c
    BY <1>1, BoxesAdd
  <2>2. 8 \div w \in Nat
    BY DEF Widths
  <2> QED  BY <1>1, <2>1, <2>2
<1> QED  BY <1>5, <1>6 DEF f, D, c, ByteFold, LackSum

\* The sum over a byte string is the number of boxes over its bytes.
LEMMA DigitSumIs ==
  ASSUME NEW Q \in [1 .. N -> 0 .. 255], NEW w \in Widths
  PROVE  /\ Lacks(Q, w) \in [0 .. N - 1 -> 0 .. (8 \div w) * (Pow2[w] - 1)]
         /\ DigitSum(Q, w) = Cardinality(Boxes(Lacks(Q, w), 0 .. N - 1))
         /\ DigitSum(Q, w) \in 0 .. 32 * ((8 \div w) * (Pow2[w] - 1))
<1> DEFINE f == Lacks(Q, w)
           D == 0 .. N - 1
           c == (8 \div w) * (Pow2[w] - 1)
<1>1. \A b \in D : ByteFold(Q, w, b) = LackSum(Q, w, b) /\ LackSum(Q, w, b) \in 0 .. c
  BY ByteFoldIs
<1>2. f \in [D -> 0 .. c]
  BY <1>1 DEF Lacks
<1>3. IsFiniteSet(D) /\ Cardinality(D) = 32
  <2> DEFINE m == 31
  <2>1. 0 \in Int /\ m \in Int /\ 0 =< m /\ m - 0 + 1 = 32 /\ N - 1 = m
    BY DEF N
  <2> HIDE DEF m
  <2>2. IsFiniteSet(0 .. m) /\ Cardinality(0 .. m) = IF 0 > m THEN 0 ELSE m - 0 + 1
    BY <2>1, FS_Interval
  <2>3. (IF 0 > m THEN 0 ELSE m - 0 + 1) = 32
    BY <2>1
  <2> QED  BY <2>1, <2>2, <2>3
<1>4. c \in Nat
  <2>1. 8 \div w \in Nat /\ Pow2[w] - 1 \in Nat
    <3>1. 0 \in 0 .. N - 1
      BY DEF N
    <3> QED  BY <3>1, LackType DEF Widths
  <2> QED  BY <2>1
<1>5. Len(Q) = N
  BY LenProperties, SeqDef DEF N
<1>6. \A g : Sums(g, f, D) <=> BytesStep(g, Q, w)
  <2> SUFFICES ASSUME NEW g
               PROVE  Sums(g, f, D) <=> BytesStep(g, Q, w)
    OBVIOUS
  <2> DEFINE one(s) == IF s = {} THEN 0 ELSE f[Taken(s)] + g[s \ {Taken(s)}]
             two(s) == IF s = {} THEN 0 ELSE ByteFold(Q, w, Taken(s)) + g[s \ {Taken(s)}]
  <2>1. ASSUME NEW s \in SUBSET D  PROVE one(s) = two(s)
    <3>1. CASE s = {}
      BY <3>1
    <3>2. CASE s # {}
      <4>1. Taken(s) \in D
        BY <3>2 DEF Taken
      <4>2. f[Taken(s)] = ByteFold(Q, w, Taken(s))
        BY <1>1, <4>1 DEF Lacks
      <4> QED  BY <3>2, <4>2
    <3> QED  BY <3>1, <3>2
  <2> HIDE DEF one, two
  <2>2. [s \in SUBSET D |-> one(s)] = [s \in SUBSET D |-> two(s)]
    BY <2>1
  <2> QED  BY <1>5, <2>2 DEF one, two, Sums, BytesStep
<1>7. DigitSum(Q, w) = (CHOOSE g : BytesStep(g, Q, w))[D]
  BY <1>5, DigitSumUnfolds
<1> HIDE DEF f, D, c
<1>8. \E g : Sums(g, f, D)
  BY <1>2, <1>3, <1>4, SumIsBoxes
<1>9. BytesStep(CHOOSE g : BytesStep(g, Q, w), Q, w)
  BY <1>6, <1>8
<1>10. DigitSum(Q, w) = Cardinality(Boxes(f, D))
  BY <1>2, <1>3, <1>4, <1>6, <1>7, <1>9, SumIsBoxes
<1>11. Cardinality(Boxes(f, D)) \in 0 .. 32 * c
  <2>1. Cardinality(Boxes(f, D)) \in Nat /\ Cardinality(Boxes(f, D)) =< Cardinality(D) * c
    BY <1>2, <1>3, <1>4, BoxesAdd
  <2> QED  BY <1>3, <1>4, <2>1
<1> QED  BY <1>2, <1>10, <1>11 DEF f, D, c

\* The byte and the shift that coef computes for a digit.
LEMMA DigitPlace ==
  ASSUME NEW w \in Widths, NEW i \in 0 .. 33 * (8 \div w)
  PROVE  (i * w) \div 8 \in 0 .. 33 /\ 8 - (w * (i % (8 \div w)) + w) \in Nat
<1>1. CASE w = 1
  <2>1. 8 \div w = 8
    BY <1>1
  <2>2. i \in 0 .. 264 /\ i * w = 1 * i
    BY <1>1, <2>1
  <2>3. (1 * i) \div 8 \in 0 .. 33
    BY <2>2
  <2>4. i % 8 \in 0 .. 7
    BY <2>2
  <2>5. 8 - (1 * (i % 8) + 1) \in Nat
    BY <2>4
  <2> QED  BY <1>1, <2>1, <2>2, <2>3, <2>5
<1>2. CASE w = 2
  <2>1. 8 \div w = 4
    BY <1>2
  <2>2. i \in 0 .. 132 /\ i * w = 2 * i
    BY <1>2, <2>1
  <2>3. (2 * i) \div 8 \in 0 .. 33
    BY <2>2
  <2>4. i % 4 \in 0 .. 3
    BY <2>2
  <2>5. 8 - (2 * (i % 4) + 2) \in Nat
    BY <2>4
  <2> QED  BY <1>2, <2>1, <2>2, <2>3, <2>5
<1>3. CASE w = 4
  <2>1. 8 \div w = 2
    BY <1>3
  <2>2. i \in 0 .. 66 /\ i * w = 4 * i
    BY <1>3, <2>1
  <2>3. (4 * i) \div 8 \in 0 .. 33
    BY <2>2
  <2>4. i % 2 \in 0 .. 1
    BY <2>2
  <2>5. 8 - (4 * (i % 2) + 4) \in Nat
    BY <2>4
  <2> QED  BY <1>3, <2>1, <2>2, <2>3, <2>5
<1>4. CASE w = 8
  <2>1. 8 \div w = 1
    BY <1>4
  <2>2. i \in 0 .. 33 /\ i * w = 8 * i
    BY <1>4, <2>1
  <2>3. (8 * i) \div 8 \in 0 .. 33
    BY <2>2
  <2>4. i % 1 \in 0 .. 0
    BY <2>2
  <2>5. 8 - (8 * (i % 1) + 8) \in Nat
    BY <2>4
  <2> QED  BY <1>4, <2>1, <2>2, <2>3, <2>5
<1> QED  BY <1>1, <1>2, <1>3, <1>4 DEF Widths

\* Which digit is the k-th of byte b, and the two bytes of the checksum.
At(b, k, w) == b * (8 \div w) + k
Shifted(Q, type) == DigitSum(Q, Lmots[type].w) * Pow2[Lmots[type].ls]
HiByte(Q, type) == (Shifted(Q, type) \div 256) % 256
LoByte(Q, type) == Shifted(Q, type) % 256

\* The first digits of a hash with its checksum are the digits of its bytes,
\* the next ones those of the checksum, all of the first byte and one of the
\* second.
LEMMA DigitsAre ==
  ASSUME NEW type \in DOMAIN Lmots, NEW Q \in [1 .. N -> 0 .. 255]
  PROVE  LET w == Lmots[type].w
             a == Digits(Q, type)
         IN  /\ w \in Widths
             /\ \A b \in 0 .. N - 1, k \in Places(w) :
                  At(b, k, w) \in DOMAIN a /\ a[At(b, k, w)] = Digit(Q[b + 1], w, k)
             /\ \A k \in Places(w) : At(32, k, w) \in DOMAIN a /\ a[At(32, k, w)] = Digit(HiByte(Q, type), w, k)
             /\ At(33, 0, w) \in DOMAIN a /\ a[At(33, 0, w)] = Digit(LoByte(Q, type), w, 0)
             /\ \A i \in DOMAIN a : a[i] \in Int
<1> DEFINE w == Lmots[type].w
           p == Lmots[type].p
           T == DigitSum(Q, w) * Pow2[Lmots[type].ls]
           at(b, k) == b * (8 \div w) + k
           hi == (T \div 256) % 256
           lo == T % 256
           a == Digits(Q, type)
           V == Q \o <<hi, lo>>
<1>1. /\ w \in Widths /\ p = 33 * (8 \div w) + 1
      /\ 0 \in Places(w)
  BY DEF Lmots, Widths, Places
<1>2. a = [i \in 0 .. p - 1 |-> Coef(V, i, w)]
  BY DEF Digits, Checksum
<1>3. /\ \A b \in 0 .. N - 1 : V[b + 1] = Q[b + 1]
      /\ V[33] = hi /\ V[34] = lo
  <2>1. Q \in Seq(0 .. 255) /\ Len(Q) = 32
    <3>1. 32 \in Nat /\ Q \in [1 .. 32 -> 0 .. 255]
      BY DEF N
    <3> DEFINE S == 0 .. 255
    <3>2. Q \in [1 .. 32 -> S]
      BY <3>1
    <3> HIDE DEF S
    <3>3. [1 .. 32 -> S] \in {[1 .. n -> S] : n \in Nat}
      OBVIOUS
    <3>4. Q \in Seq(S)
      BY ONLY <3>2, <3>3, SeqDef, SMTT(60)
    <3>5. Len(Q) = 32
      BY LenProperties, SeqDef DEF N
    <3> QED  BY <3>4, <3>5 DEF S
  <2> DEFINE check == <<hi, lo>>
  <2>2. check \in Seq({hi, lo}) /\ Len(check) = 2 /\ check[1] = hi /\ check[2] = lo
    OBVIOUS
  <2>3. V = Q \o check
    OBVIOUS
  <2> HIDE DEF check, hi, lo, V
  <2>4. \A i \in 1 .. 34 : V[i] = IF i =< 32 THEN Q[i] ELSE check[i - 32]
    <3> DEFINE U == (0 .. 255) \cup {hi, lo}
    <3>1. Q \in Seq(U) /\ check \in Seq(U)
      BY <2>1, <2>2, SMTT(60)
    <3> HIDE DEF U
    <3>2. \A i \in 1 .. Len(Q) + Len(check) :
               V[i] = IF i =< Len(Q) THEN Q[i] ELSE check[i - Len(Q)]
      BY <2>3, <3>1, ConcatProperties
    <3>3. Len(Q) = 32 /\ Len(Q) + Len(check) = 34
      BY <2>1, <2>2
    <3> QED  BY ONLY <3>2, <3>3
  <2>5. V[33] = check[1] /\ V[34] = check[2]
    BY <2>4
  <2> QED  BY <2>2, <2>4, <2>5 DEF N
<1> HIDE DEF hi, lo, V, a
<1>4. ASSUME NEW b \in 0 .. 33, NEW k \in Places(w), b = 33 => k = 0
      PROVE  at(b, k) \in DOMAIN a /\ a[at(b, k)] = Digit(V[b + 1], w, k)
  <2>1. at(b, k) \in 0 .. p - 1
    <3>1. CASE w = 1
      <4>1. 8 \div w = 8 /\ p = 265 /\ k \in 0 .. 7
        BY <1>1, <3>1 DEF Places
      <4>2. b * 8 + k \in 0 .. 264
        BY <1>4, <4>1
      <4> HIDE DEF w, p
      <4>3. at(b, k) = b * 8 + k /\ p - 1 = 264
        BY <4>1
      <4> HIDE DEF at
      <4> QED  BY <4>2, <4>3
    <3>2. CASE w = 2
      <4>1. 8 \div w = 4 /\ p = 133 /\ k \in 0 .. 3
        BY <1>1, <3>2 DEF Places
      <4>2. b * 4 + k \in 0 .. 132
        BY <1>4, <4>1
      <4> HIDE DEF w, p
      <4>3. at(b, k) = b * 4 + k /\ p - 1 = 132
        BY <4>1
      <4> HIDE DEF at
      <4> QED  BY <4>2, <4>3
    <3>3. CASE w = 4
      <4>1. 8 \div w = 2 /\ p = 67 /\ k \in 0 .. 1
        BY <1>1, <3>3 DEF Places
      <4>2. b * 2 + k \in 0 .. 66
        BY <1>4, <4>1
      <4> HIDE DEF w, p
      <4>3. at(b, k) = b * 2 + k /\ p - 1 = 66
        BY <4>1
      <4> HIDE DEF at
      <4> QED  BY <4>2, <4>3
    <3>4. CASE w = 8
      <4>1. 8 \div w = 1 /\ p = 34 /\ k \in 0 .. 0
        BY <1>1, <3>4 DEF Places
      <4>2. b * 1 + k \in 0 .. 33
        BY <1>4, <4>1
      <4> HIDE DEF w, p
      <4>3. at(b, k) = b * 1 + k /\ p - 1 = 33
        BY <4>1
      <4> HIDE DEF at
      <4> QED  BY <4>2, <4>3
    <3> QED  BY <1>1, <3>1, <3>2, <3>3, <3>4 DEF Widths
  <2>2. Coef(V, at(b, k), w) = Digit(V[b + 1], w, k)
    BY <1>1, CoefIsDigit, SMTT(60) DEF Places
  <2> HIDE DEF at, w, p
  <2> QED  BY <1>2, <2>1, <2>2
<1>5. ASSUME NEW b \in 0 .. N - 1, NEW k \in Places(w)
      PROVE  at(b, k) \in DOMAIN a /\ a[at(b, k)] = Digit(Q[b + 1], w, k)
  <2>1. b \in 0 .. 33 /\ b # 33
    BY DEF N
  <2> HIDE DEF at, w
  <2> QED  BY <1>3, <1>4, <2>1
<1>6. ASSUME NEW k \in Places(w)
      PROVE  at(32, k) \in DOMAIN a /\ a[at(32, k)] = Digit(hi, w, k)
  <2>1. 32 \in 0 .. 33 /\ 32 # 33 /\ 32 + 1 = 33
    OBVIOUS
  <2> HIDE DEF at, w
  <2>2. at(32, k) \in DOMAIN a /\ a[at(32, k)] = Digit(V[32 + 1], w, k)
    BY <1>4, <2>1
  <2> QED  BY <1>3, <2>1, <2>2
<1>7. at(33, 0) \in DOMAIN a /\ a[at(33, 0)] = Digit(lo, w, 0)
  <2>1. 33 \in 0 .. 33 /\ 33 + 1 = 34
    OBVIOUS
  <2> HIDE DEF at, w
  <2>2. at(33, 0) \in DOMAIN a /\ a[at(33, 0)] = Digit(V[33 + 1], w, 0)
    BY <1>1, <1>4, <2>1
  <2> QED  BY <1>3, <2>1, <2>2
<1>8. ASSUME NEW i \in DOMAIN a  PROVE a[i] \in Int
  <2>1. i \in 0 .. p - 1 /\ a[i] = Coef(V, i, w)
    BY <1>2
  <2> DEFINE b == (i * w) \div 8
             m == 8 - (w * (i % (8 \div w)) + w)
  <2>2. b \in 0 .. 33 /\ m \in Nat
    <3>1. i \in 0 .. 33 * (8 \div w)
      <4>1. 8 \div w \in Int
        BY <1>1 DEF Widths
      <4> HIDE DEF w, p
      <4> QED  BY <1>1, <2>1, <4>1
    <3> HIDE DEF w, p
    <3> QED  BY <1>1, <3>1, DigitPlace
  <2>3. hi \in Int /\ lo \in Int
    <3>1. T \in Int
      <4>1. DigitSum(Q, w) \in Int
        <5>1. 8 \div w \in Nat /\ Pow2[w] - 1 \in Nat
          <6>1. 0 \in 0 .. N - 1
            BY DEF N
          <6>2. Pow2[w] - 1 \in Nat
            BY <1>1, <6>1, LackType
          <6> QED  BY <1>1, <6>2 DEF Widths
        <5>2. DigitSum(Q, w) \in 0 .. 32 * ((8 \div w) * (Pow2[w] - 1))
          BY <1>1, DigitSumIs
        <5> HIDE DEF w
        <5> QED  BY <5>1, <5>2
      <4>2. Pow2[Lmots[type].ls] \in Int
        <5>1. Lmots[type].ls \in Nat
          BY DEF Lmots
        <5> QED  BY <5>1, Pow2Is, SMTT(60)
      <4> HIDE DEF w
      <4> QED  BY <4>1, <4>2
    <3> HIDE DEF T
    <3> QED  BY <3>1 DEF hi, lo
  <2>4. V[b + 1] \in Int
    <3>1. b + 1 \in 1 .. N \/ b + 1 = 33 \/ b + 1 = 34
      BY <2>2 DEF N
    <3>2. CASE b + 1 \in 1 .. N
      <4>1. b \in 0 .. N - 1 /\ Q[b + 1] \in Int
        BY <2>2, <3>2 DEF N
      <4> HIDE DEF b
      <4> QED  BY <1>3, <4>1
    <3>3. CASE b + 1 = 33
      <4> HIDE DEF b
      <4> QED  BY <1>3, <2>3, <3>3
    <3>4. CASE b + 1 = 34
      <4> HIDE DEF b
      <4> QED  BY <1>3, <2>3, <3>4
    <3> QED  BY <3>1, <3>2, <3>3, <3>4
  <2>5. Coef(V, i, w) = (V[b + 1] \div Pow2[m]) % Pow2[w]
    BY DEF Coef
  <2>6. Pow2[m] \in Nat \ {0} /\ Pow2[w] \in Nat \ {0}
    <3>1. w \in Nat
      BY <1>1 DEF Widths
    <3> HIDE DEF m, w
    <3> QED  BY <2>2, <3>1, Pow2Is
  <2> HIDE DEF b, m, w
  <2>7. \A x \in Int, y \in Nat \ {0}, z \in Nat \ {0} : (x \div y) % z \in Int
    OBVIOUS
  <2> QED  BY <2>1, <2>4, <2>5, <2>6, <2>7
<1>9. hi = HiByte(Q, type) /\ lo = LoByte(Q, type) /\ \A b, k : at(b, k) = At(b, k, w)
  BY SMTT(60) DEF hi, lo, HiByte, LoByte, Shifted, At
<1> HIDE DEF at
<1> QED  BY <1>1, <1>5, <1>6, <1>7, <1>8, <1>9 DEF a

\* These digits of the checksum say what the sum is.
LEMMA ChecksumTells ==
  ASSUME NEW type \in DOMAIN Lmots, NEW S
  PROVE  LET w == Lmots[type].w
             T == S * Pow2[Lmots[type].ls]
             hi == (T \div 256) % 256
             lo == T % 256
         IN  S \in 0 .. 32 * ((8 \div w) * (Pow2[w] - 1)) =>
               /\ hi \in 0 .. 255 /\ lo \in 0 .. 255 /\ S = Pow2[w] * hi + Digit(lo, w, 0)
<1> DEFINE w == Lmots[type].w
           ls == Lmots[type].ls
           T == S * Pow2[ls]
           hi == (T \div 256) % 256
           lo == T % 256
<1>1. \/ w = 1 /\ ls = 7
      \/ w = 2 /\ ls = 6
      \/ w = 4 /\ ls = 4
      \/ w = 8 /\ ls = 0
  BY SMTT(60) DEF Lmots
<1> SUFFICES ASSUME S \in 0 .. 32 * ((8 \div w) * (Pow2[w] - 1))
             PROVE  hi \in 0 .. 255 /\ lo \in 0 .. 255 /\ S = Pow2[w] * hi + Digit(lo, w, 0)
  OBVIOUS
<1>2. CASE w = 1 /\ ls = 7
  <2>1. Pow2[w] = 2 /\ Pow2[ls] = 128 /\ Digit(lo, w, 0) = (lo \div 128) % 2
    <3>1. Pow2[w] = 2 /\ Pow2[ls] = 128 /\ 8 - (w * 0 + w) = 7 /\ Pow2[7] = 128
      BY <1>2, SmallPowers
    <3> HIDE DEF lo, w, ls
    <3> QED  BY <3>1 DEF Digit
  <2>2. S \in 0 .. 256
    <3>1. 32 * ((8 \div w) * (Pow2[w] - 1)) = 256
      BY <1>2, <2>1
    <3> QED  BY <3>1
  <2> HIDE DEF w, ls
  <2>3. hi = ((S * 128) \div 256) % 256 /\ lo = (S * 128) % 256
    BY <2>1
  <2>4. S = 2 * (((S * 128) \div 256) % 256) + ((((S * 128) % 256) \div 128) % 2)
    BY <2>2
  <2> QED  BY <2>1, <2>2, <2>3, <2>4
<1>3. CASE w = 2 /\ ls = 6
  <2>1. Pow2[w] = 4 /\ Pow2[ls] = 64 /\ Digit(lo, w, 0) = (lo \div 64) % 4
    <3>1. Pow2[w] = 4 /\ Pow2[ls] = 64 /\ 8 - (w * 0 + w) = 6 /\ Pow2[6] = 64
      BY <1>3, SmallPowers
    <3> HIDE DEF lo, w, ls
    <3> QED  BY <3>1 DEF Digit
  <2>2. S \in 0 .. 384
    <3>1. 32 * ((8 \div w) * (Pow2[w] - 1)) = 384
      BY <1>3, <2>1
    <3> QED  BY <3>1
  <2> HIDE DEF w, ls
  <2>3. hi = ((S * 64) \div 256) % 256 /\ lo = (S * 64) % 256
    BY <2>1
  <2>4. S = 4 * (((S * 64) \div 256) % 256) + ((((S * 64) % 256) \div 64) % 4)
    BY <2>2
  <2> QED  BY <2>1, <2>2, <2>3, <2>4
<1>4. CASE w = 4 /\ ls = 4
  <2>1. Pow2[w] = 16 /\ Pow2[ls] = 16 /\ Digit(lo, w, 0) = (lo \div 16) % 16
    <3>1. Pow2[w] = 16 /\ Pow2[ls] = 16 /\ 8 - (w * 0 + w) = 4 /\ Pow2[4] = 16
      BY <1>4, SmallPowers
    <3> HIDE DEF lo, w, ls
    <3> QED  BY <3>1 DEF Digit
  <2>2. S \in 0 .. 960
    <3>1. 32 * ((8 \div w) * (Pow2[w] - 1)) = 960
      BY <1>4, <2>1
    <3> QED  BY <3>1
  <2> HIDE DEF w, ls
  <2>3. hi = ((S * 16) \div 256) % 256 /\ lo = (S * 16) % 256
    BY <2>1
  <2>4. S = 16 * (((S * 16) \div 256) % 256) + ((((S * 16) % 256) \div 16) % 16)
    BY <2>2
  <2> QED  BY <2>1, <2>2, <2>3, <2>4
<1>5. CASE w = 8 /\ ls = 0
  <2>1. Pow2[w] = 256 /\ Pow2[ls] = 1 /\ Digit(lo, w, 0) = (lo \div 1) % 256
    <3>1. Pow2[w] = 256 /\ Pow2[ls] = 1 /\ 8 - (w * 0 + w) = 0 /\ Pow2[0] = 1
      BY <1>5, SmallPowers
    <3> HIDE DEF lo, w, ls
    <3> QED  BY <3>1 DEF Digit
  <2>2. S \in 0 .. 8160
    <3>1. 32 * ((8 \div w) * (Pow2[w] - 1)) = 8160
      BY <1>5, <2>1
    <3> QED  BY <3>1, SMTT(60)
  <2> HIDE DEF w, ls
  <2>3. hi = (S \div 256) % 256 /\ lo = S % 256
    BY <2>1, <2>2
  <2>4. S = 256 * ((S \div 256) % 256) + (((S % 256) \div 1) % 256)
    BY <2>2
  <2> QED  BY <2>1, <2>2, <2>3, <2>4
<1> QED  BY <1>1, <1>2, <1>3, <1>4, <1>5

\* The bytes of a hash are counted from 0 by coef and from 1 by a sequence.
LEMMA BytesAndPlaces ==
  /\ 0 \in 0 .. N - 1
  /\ \A b \in 0 .. N - 1 : b + 1 \in 1 .. N
  /\ \A j \in 1 .. N : j - 1 \in 0 .. N - 1 /\ (j - 1) + 1 = j
BY DEF N

\* If no digit of Q is below that of R then no digit lacks more, so that the sum
\* is not greater; but the digits of the sum make it no smaller.  So it is the
\* same, and no digit is above the other's either.
LEMMA NoneBelow ==
  ASSUME NEW type \in DOMAIN Lmots,
         NEW Q \in [1 .. N -> 0 .. 255], NEW R \in [1 .. N -> 0 .. 255],
         \A i \in DOMAIN Digits(Q, type) : Digits(Q, type)[i] >= Digits(R, type)[i]
  PROVE  Q = R
<1> DEFINE w == Lmots[type].w
           ls == Lmots[type].ls
           at(b, k) == At(b, k, w)
           hi(X) == HiByte(X, type)
           lo(X) == LoByte(X, type)
           a == Digits(Q, type)
           d == Digits(R, type)
<1>1. \A i \in DOMAIN a : a[i] >= d[i]
  OBVIOUS
<1>2. /\ w \in Widths
      /\ \A b \in 0 .. N - 1, k \in Places(w) :
           at(b, k) \in DOMAIN a /\ a[at(b, k)] = Digit(Q[b + 1], w, k)
      /\ \A k \in Places(w) : at(32, k) \in DOMAIN a /\ a[at(32, k)] = Digit(hi(Q), w, k)
      /\ at(33, 0) \in DOMAIN a /\ a[at(33, 0)] = Digit(lo(Q), w, 0)
  BY DigitsAre
<1>3. /\ \A b \in 0 .. N - 1, k \in Places(w) :
           at(b, k) \in DOMAIN d /\ d[at(b, k)] = Digit(R[b + 1], w, k)
      /\ \A k \in Places(w) : at(32, k) \in DOMAIN d /\ d[at(32, k)] = Digit(hi(R), w, k)
      /\ at(33, 0) \in DOMAIN d /\ d[at(33, 0)] = Digit(lo(R), w, 0)
  BY DigitsAre
<1> HIDE DEF a, d, at
<1>4. \A b \in 0 .. N - 1, k \in Places(w) : Digit(Q[b + 1], w, k) >= Digit(R[b + 1], w, k)
  <2> HIDE DEF w, hi, lo
  <2> QED  BY <1>1, <1>2, <1>3
<1>5. /\ \A k \in Places(w) : Digit(hi(Q), w, k) >= Digit(hi(R), w, k)
      /\ Digit(lo(Q), w, 0) >= Digit(lo(R), w, 0)
  <2> HIDE DEF w, hi, lo
  <2> QED  BY <1>1, <1>2, <1>3, SMTT(60)
<1> DEFINE c == (8 \div w) * (Pow2[w] - 1)
<1>6. ASSUME NEW X \in {Q, R}
      PROVE  /\ DigitSum(X, w) \in 0 .. 32 * c
             /\ DigitSum(X, w) = Cardinality(Boxes(Lacks(X, w), 0 .. N - 1))
             /\ Lacks(X, w) \in [0 .. N - 1 -> 0 .. c]
             /\ hi(X) \in 0 .. 255 /\ lo(X) \in 0 .. 255
             /\ DigitSum(X, w) = Pow2[w] * hi(X) + Digit(lo(X), w, 0)
  <2>1. X \in [1 .. N -> 0 .. 255]
    OBVIOUS
  <2>2. /\ DigitSum(X, w) \in 0 .. 32 * c
        /\ DigitSum(X, w) = Cardinality(Boxes(Lacks(X, w), 0 .. N - 1))
        /\ Lacks(X, w) \in [0 .. N - 1 -> 0 .. c]
    BY <1>2, <2>1, DigitSumIs
  <2> DEFINE S == DigitSum(X, w)
  <2>3. S \in 0 .. 32 * c
    BY <2>2
  <2> HIDE DEF S
  <2> DEFINE t == S * Pow2[ls]
  <2>4. /\ (t \div 256) % 256 \in 0 .. 255 /\ t % 256 \in 0 .. 255
        /\ S = Pow2[w] * ((t \div 256) % 256) + Digit(t % 256, w, 0)
    BY <2>3, ChecksumTells, ZenonT(60)
  <2> QED  BY <2>2, <2>4 DEF S, HiByte, LoByte, Shifted
<1>7. /\ c \in Nat /\ Pow2[w] \in Nat /\ 0 \in Places(w) /\ IsFiniteSet(Places(w))
      /\ Pow2[w] - 1 \in Nat
  <2>1. 0 \in 0 .. N - 1
    BY BytesAndPlaces
  <2>2. IsFiniteSet(Places(w)) /\ Pow2[w] - 1 \in Nat
    BY <1>2, <2>1, LackType
  <2>3. 8 \div w \in Nat \ {0} /\ w \in Nat
    BY <1>2 DEF Widths
  <2>4. 0 \in Places(w)
    BY <2>3 DEF Places
  <2>5. Pow2[w] \in Nat
    BY <2>3, Pow2Is
  <2> HIDE DEF w
  <2> QED  BY <2>2, <2>3, <2>4, <2>5
<1>8. DigitSum(Q, w) >= DigitSum(R, w)
  <2>1. hi(Q) >= hi(R)
    <3>1. hi(Q) \in 0 .. 255 /\ hi(R) \in 0 .. 255
      BY <1>6
    <3> HIDE DEF w, hi, lo
    <3> QED  BY <1>2, <1>5, <3>1, DigitsOrder DEF Places
  <2>2. Digit(lo(Q), w, 0) \in Nat /\ Digit(lo(R), w, 0) \in Nat
    <3>1. \A x \in 0 .. 255 : Digit(x, w, 0) \in 0 .. Pow2[w] - 1
      BY <1>2, <1>7, DigitsOrder, ZenonT(60) DEF Places
    <3>2. lo(Q) \in 0 .. 255 /\ lo(R) \in 0 .. 255
      BY <1>6
    <3>3. \A m \in Nat : 0 .. m \subseteq Nat
      OBVIOUS
    <3> DEFINE m == Pow2[w] - 1
    <3>4. m \in Nat /\ \A x \in 0 .. 255 : Digit(x, w, 0) \in 0 .. m
      BY <1>7, <3>1
    <3> HIDE DEF w, lo, m
    <3> QED  BY <3>2, <3>3, <3>4
  <2>3. \A m \in Nat, x \in Nat, y \in Nat, s \in Nat, t \in Nat :
          x >= y /\ s >= t => m * x + s >= m * y + t
    <3>1. \A m \in Nat, x \in Nat, y \in Nat : x >= y => m * x >= m * y
      <4> SUFFICES ASSUME NEW m \in Nat, NEW x \in Nat, NEW y \in Nat, x >= y
                   PROVE  m * x >= m * y
        OBVIOUS
      <4>1. x - y \in Nat /\ m * (x - y) \in Nat /\ m * (x - y) = m * x - m * y
        OBVIOUS
      <4>2. m * x \in Nat /\ m * y \in Nat
        OBVIOUS
      <4> QED  BY ONLY <4>1, <4>2
    <3>2. \A m \in Nat, x \in Nat : m * x \in Nat
      OBVIOUS
    <3> QED  BY <3>1, <3>2
  <2>4. hi(Q) \in 0 .. 255 /\ hi(R) \in 0 .. 255
    BY <1>6
  <2>5. /\ DigitSum(Q, w) = Pow2[w] * hi(Q) + Digit(lo(Q), w, 0)
        /\ DigitSum(R, w) = Pow2[w] * hi(R) + Digit(lo(R), w, 0)
    BY <1>6
  <2> HIDE DEF w, hi, lo
  <2>6. hi(Q) \in Nat /\ hi(R) \in Nat
    <3>1. 0 .. 255 \subseteq Nat
      OBVIOUS
    <3> QED  BY ONLY <2>4, <3>1
  <2>7. Pow2[w] * hi(Q) + Digit(lo(Q), w, 0) >= Pow2[w] * hi(R) + Digit(lo(R), w, 0)
    BY <1>5, <1>7, <2>1, <2>2, <2>3, <2>6
  <2> QED  BY <2>5, <2>7, SMTT(60)
<1> HIDE DEF c, hi, lo
<1>9. ASSUME NEW b \in 0 .. N - 1
      PROVE  /\ LackSum(Q, w, b) =< LackSum(R, w, b)
             /\ LackSum(Q, w, b) = LackSum(R, w, b) => Q[b + 1] = R[b + 1]
  <2> DEFINE e == Pow2[w] - 1
             f == Lack(Q, w, b)
             h == Lack(R, w, b)
  <2>1. /\ f \in [Places(w) -> 0 .. e] /\ h \in [Places(w) -> 0 .. e]
        /\ \A k \in Places(w) : /\ f[k] = e - Digit(Q[b + 1], w, k)
                                /\ h[k] = e - Digit(R[b + 1], w, k)
    BY <1>2, LackType
  <2>2. Q[b + 1] \in 0 .. 255 /\ R[b + 1] \in 0 .. 255
    <3>1. b + 1 \in 1 .. N
      BY BytesAndPlaces
    <3> QED  BY <3>1
  <2>3. \A k \in Places(w) : Digit(Q[b + 1], w, k) \in 0 .. e /\ Digit(R[b + 1], w, k) \in 0 .. e
    <3>1. w \in Widths
      BY <1>2
    <3> HIDE DEF w, f, h
    <3> QED  BY <2>2, <3>1, DigitsOrder, ZenonT(60) DEF Places
  <2> HIDE DEF w, e, f, h
  <2>4. \A k \in Places(w) : f[k] =< h[k]
    <3>1. \A m \in Nat : \A x \in 0 .. m, y \in 0 .. m : x >= y => m - x =< m - y
      OBVIOUS
    <3> QED  BY <1>4, <1>7, <2>1, <2>3, <3>1 DEF e
  <2>5. e \in Nat
    BY <1>7 DEF e
  <2>6. /\ Cardinality(Boxes(f, Places(w))) =< Cardinality(Boxes(h, Places(w)))
        /\ Cardinality(Boxes(f, Places(w))) = Cardinality(Boxes(h, Places(w))) => f = h
    BY <1>7, <2>1, <2>4, <2>5, SumsCompare
  <2>7. ASSUME f = h  PROVE Q[b + 1] = R[b + 1]
    <3>1. ASSUME NEW k \in Places(w)  PROVE Digit(Q[b + 1], w, k) = Digit(R[b + 1], w, k)
      <4>1. \A m \in Nat : \A x \in 0 .. m, y \in 0 .. m : m - x = m - y => x = y
        OBVIOUS
      <4>2. e - Digit(Q[b + 1], w, k) = e - Digit(R[b + 1], w, k)
        BY <2>1, <2>7
      <4> QED  BY <2>3, <2>5, <4>1, <4>2
    <3>2. \A k \in Places(w) : /\ Digit(Q[b + 1], w, k) >= Digit(R[b + 1], w, k)
                               /\ Digit(R[b + 1], w, k) >= Digit(Q[b + 1], w, k)
      <4>1. \A m \in Nat : \A x \in 0 .. m : x >= x
        BY SMTT(60)
      <4> QED  BY <2>3, <2>5, <3>1, <4>1
    <3>3. Q[b + 1] >= R[b + 1] /\ R[b + 1] >= Q[b + 1]
      BY <1>2, <2>2, <3>2, DigitsOrder DEF Places
    <3>4. \A x \in 0 .. 255, y \in 0 .. 255 : x >= y /\ y >= x => x = y
      OBVIOUS
    <3> QED  BY ONLY <2>2, <3>3, <3>4
  <2> QED  BY <2>6, <2>7 DEF LackSum, f, h
<1>10. /\ IsFiniteSet(0 .. N - 1)
       /\ \A b \in 0 .. N - 1 : /\ Lacks(Q, w)[b] = LackSum(Q, w, b)
                                /\ Lacks(R, w)[b] = LackSum(R, w, b)
  <2>1. IsFiniteSet(0 .. N - 1)
    <3> DEFINE m == N - 1
    <3>1. 0 \in Int /\ m \in Int
      BY SMTT(60) DEF N
    <3> HIDE DEF m
    <3>2. IsFiniteSet(0 .. m)
      BY <3>1, FS_Interval
    <3> QED  BY <3>2 DEF m
  <2> QED  BY <2>1 DEF Lacks
<1> HIDE DEF w
<1>11. \A b \in 0 .. N - 1 : Lacks(Q, w)[b] =< Lacks(R, w)[b]
  BY <1>9, <1>10
<1>12. /\ DigitSum(Q, w) =< DigitSum(R, w)
       /\ DigitSum(Q, w) = DigitSum(R, w) => Lacks(Q, w) = Lacks(R, w)
  <2>1. /\ Lacks(Q, w) \in [0 .. N - 1 -> 0 .. c] /\ Lacks(R, w) \in [0 .. N - 1 -> 0 .. c]
        /\ DigitSum(Q, w) = Cardinality(Boxes(Lacks(Q, w), 0 .. N - 1))
        /\ DigitSum(R, w) = Cardinality(Boxes(Lacks(R, w), 0 .. N - 1))
    BY <1>6
  <2> DEFINE f == Lacks(Q, w)
             h == Lacks(R, w)
             D == 0 .. N - 1
  <2>2. f \in [D -> 0 .. c] /\ h \in [D -> 0 .. c] /\ IsFiniteSet(D) /\ c \in Nat
        /\ \A b \in D : f[b] =< h[b]
    BY <1>7, <1>10, <1>11, <2>1
  <2> HIDE DEF f, h, D
  <2>3. /\ Cardinality(Boxes(f, D)) =< Cardinality(Boxes(h, D))
        /\ Cardinality(Boxes(f, D)) = Cardinality(Boxes(h, D)) => f = h
    BY <2>2, SumsCompare
  <2> QED  BY <2>1, <2>3 DEF f, h, D
<1>13. DigitSum(Q, w) = DigitSum(R, w)
  <2>1. DigitSum(Q, w) \in Nat /\ DigitSum(R, w) \in Nat
    BY <1>6, <1>7
  <2> QED  BY <1>8, <1>12, <2>1
<1>14. \A b \in 0 .. N - 1 : Q[b + 1] = R[b + 1]
  BY <1>9, <1>10, <1>12, <1>13
<1>15. ASSUME NEW j \in 1 .. N  PROVE Q[j] = R[j]
  <2>1. j - 1 \in 0 .. N - 1 /\ (j - 1) + 1 = j
    BY BytesAndPlaces
  <2> QED  BY <1>14, <2>1
<1>16. Q = [j \in 1 .. N |-> Q[j]] /\ R = [j \in 1 .. N |-> R[j]]
  OBVIOUS
<1> QED  BY <1>15, <1>16

\* What was chosen to be compared are two different hashes.
DigitsChosen ==
  case.kind = "digits" =>
    case.type \in DOMAIN Lmots /\ case.Q \in Hashes /\ case.R \in Hashes /\ case.Q # case.R

\* Of two different hashes none is signed with the chain values that the
\* signature of the other one shows or implies: the checksum of WOTS (checksum
\* and ots_sign of lms.py) works for every pair of hashes and every type.
THEOREM ChecksumsCross == LabsSpec => []DigitsCross
<1>1. LabsInit => DigitsChosen
  BY DEF LabsInit, NoCase, DigitsChosen
<1>2. DigitsChosen /\ [LabsNext]_labVars => DigitsChosen'
  <2> SUFFICES ASSUME DigitsChosen, [LabsNext]_labVars  PROVE DigitsChosen'
    OBVIOUS
  <2>1. CASE UNCHANGED case
    BY <2>1 DEF DigitsChosen
  <2>2. CASE ChooseDigits
    BY <2>2 DEF DigitsChosen, ChooseDigits, Choose
  <2>3. CASE case'.kind # "digits"
    BY <2>3 DEF DigitsChosen
  <2>4. UNCHANGED case \/ ChooseDigits \/ case'.kind # "digits"
    BY DEF LabsNext, labVars, Calculate, Choose, ChooseKem, ChooseToy, ChooseChannel, ChooseLms,
           ChooseHss, ChooseJws, ChooseKms, ChooseToken
  <2> QED  BY <2>1, <2>2, <2>3, <2>4
<1>3. DigitsChosen => DigitsCross
  <2> SUFFICES ASSUME DigitsChosen, case.kind = "digits"  PROVE DigitsCross
    BY DEF DigitsCross
  <2> DEFINE a == Digits(case.Q, case.type)
             b == Digits(case.R, case.type)
  <2>1. /\ case.type \in DOMAIN Lmots
        /\ case.Q \in [1 .. N -> 0 .. 255] /\ case.R \in [1 .. N -> 0 .. 255]
        /\ case.Q # case.R
    BY HashesAssumption DEF DigitsChosen
  <2>2. \E i \in DOMAIN a : ~(a[i] >= b[i])
    BY <2>1, NoneBelow
  <2>3. \E i \in DOMAIN b : ~(b[i] >= a[i])
    BY <2>1, NoneBelow
  <2>4. DOMAIN a = DOMAIN b
    BY DEF Digits
  <2>5. \A i \in DOMAIN a : a[i] \in Int /\ b[i] \in Int
    BY <2>1, <2>4, DigitsAre
  <2> HIDE DEF a, b
  <2>6. \A x \in Int, y \in Int : ~(x >= y) => x < y
    OBVIOUS
  <2>7. (\E i \in DOMAIN a : a[i] < b[i]) /\ (\E i \in DOMAIN a : b[i] < a[i])
    BY <2>2, <2>3, <2>4, <2>5, <2>6
  <2>8. \A x \in Int, y \in Int : y < x => x > y
    OBVIOUS
  <2>9. \E i \in DOMAIN a : a[i] > b[i]
    BY <2>5, <2>7, <2>8
  <2> QED  BY <2>7, <2>9 DEF DigitsCross, a, b
<1> QED  BY <1>1, <1>2, <1>3, PTL DEF LabsSpec

------------------------------------------------------------------------------
(* Signatures: the tree of LMS, its one-time signatures and what verifies.   *)

\* A part of a tree, from node m on, over its leaves.
TreePart(g, m, n, I, leaf) ==
  g = [r \in m .. 2 * n - 1 |-> IF r >= n THEN leaf[r] ELSE Interior(I, r, g[2 * r], g[2 * r + 1])]

\* There is such a part for every m.
LEMMA TreePartIs ==
  ASSUME NEW n \in Nat \ {0}, NEW I, NEW leaf, NEW m \in 1 .. 2 * n
  PROVE  \E g : TreePart(g, m, n, I, leaf)
<1> DEFINE S == {k \in 0 .. 2 * n - 1 : \E g : TreePart(g, 2 * n - k, n, I, leaf)}
<1>1. 0 \in S
  <2> DEFINE g == [r \in 2 * n .. 2 * n - 1 |-> leaf[r]]
  <2>1. \A r : r \notin 2 * n .. 2 * n - 1
    OBVIOUS
  <2>2. g = [r \in 2 * n .. 2 * n - 1 |->
               IF r >= n THEN leaf[r] ELSE Interior(I, r, g[2 * r], g[2 * r + 1])]
    BY <2>1
  <2> HIDE DEF g
  <2>3. TreePart(g, 2 * n - 0, n, I, leaf)
    BY <2>2 DEF TreePart
  <2> QED  BY <2>3
<1>2. ASSUME NEW k \in 1 .. 2 * n - 1, k - 1 \in S  PROVE k \in S
  <2> DEFINE b == 2 * n - k
  <2>1. /\ b \in Nat \ {0} /\ 2 * n - (k - 1) = b + 1 /\ b \in b .. 2 * n - 1
        /\ \A r : r \in b .. 2 * n - 1 <=> r = b \/ r \in b + 1 .. 2 * n - 1
        /\ \A r \in b .. 2 * n - 1 : r < n => 2 * r \in b .. 2 * n - 1 /\ 2 * r + 1 \in b .. 2 * n - 1
        /\ b \notin b + 1 .. 2 * n - 1
    OBVIOUS
  <2>2. PICK g : TreePart(g, b + 1, n, I, leaf)
    <3>1. PICK g : TreePart(g, 2 * n - (k - 1), n, I, leaf)
      BY <1>2
    <3> HIDE DEF b
    <3> QED  BY <2>1, <3>1
  <2> HIDE DEF b
  <2>3. \A r \in b + 1 .. 2 * n - 1 :
          g[r] = IF r >= n THEN leaf[r] ELSE Interior(I, r, g[2 * r], g[2 * r + 1])
    BY <2>2 DEF TreePart
  <2> DEFINE h == [r \in b .. 2 * n - 1 |->
                     IF r = b THEN IF b >= n THEN leaf[b] ELSE Interior(I, b, g[2 * b], g[2 * b + 1])
                     ELSE g[r]]
  <2>4. h = [r \in b .. 2 * n - 1 |-> h[r]]
    OBVIOUS
  <2>5. /\ h[b] = IF b >= n THEN leaf[b] ELSE Interior(I, b, g[2 * b], g[2 * b + 1])
        /\ \A r \in b + 1 .. 2 * n - 1 : h[r] = g[r]
    BY <2>1
  <2> HIDE DEF h
  <2>6. ASSUME NEW r \in b .. 2 * n - 1
        PROVE  h[r] = IF r >= n THEN leaf[r] ELSE Interior(I, r, h[2 * r], h[2 * r + 1])
    <3>1. CASE r >= n
      BY <2>1, <2>3, <2>5, <3>1
    <3>2. CASE ~(r >= n)
      <4>1. 2 * r \in b + 1 .. 2 * n - 1 /\ 2 * r + 1 \in b + 1 .. 2 * n - 1
        BY <2>1, <3>2
      <4>2. h[2 * r] = g[2 * r] /\ h[2 * r + 1] = g[2 * r + 1]
        BY <2>5, <4>1
      <4> QED  BY <2>1, <2>3, <2>5, <3>2, <4>2
    <3> QED  BY <3>1, <3>2
  <2>7. TreePart(h, b, n, I, leaf)
    BY <2>4, <2>6 DEF TreePart
  <2> QED  BY <2>7 DEF b
<1> HIDE DEF S
<1>3. \A k \in 0 .. 2 * n - 1 : k \in S
  <2>1. 2 * n - 1 \in Nat
    OBVIOUS
  <2> QED  BY <1>1, <1>2, <2>1, RoundByRound
<1>4. 2 * n - m \in S /\ 2 * n - (2 * n - m) = m
  <2>1. 2 * n - m \in 0 .. 2 * n - 1 /\ 2 * n - (2 * n - m) = m
    OBVIOUS
  <2> QED  BY <1>3, <2>1
<1> QED  BY <1>4 DEF S

\* What lms_tree is to be: at its n leaves the hashes of the one-time public
\* keys, and at every other node the hash of the two nodes below it.
Hashed(T, n, I) == \A r \in 1 .. n - 1 : T[r] = Interior(I, r, T[2 * r], T[2 * r + 1])

KeyLeaf(seed, I, n, ots, q) ==
  Leaf(I, n + q, OtsPublic(OtsPrivate(seed, I, q, ots), I, q, ots))

KeyLeaves(T, n, seed, I, ots) == \A q \in 0 .. n - 1 : T[n + q] = KeyLeaf(seed, I, n, ots, q)

\* lms_tree makes such a tree.
LEMMA TreeIs ==
  ASSUME NEW seed, NEW I, NEW lms \in DOMAIN Height, NEW ots
  PROVE  LET T == LmsTree(seed, I, lms, ots)
             n == Pow2[Height[lms]]
         IN  n \in Nat \ {0} /\ KeyLeaves(T, n, seed, I, ots) /\ Hashed(T, n, I)
<1> DEFINE T == LmsTree(seed, I, lms, ots)
           n == Pow2[Height[lms]]
<1>0. T = LmsTree(seed, I, lms, ots) /\ n = Pow2[Height[lms]]
  OBVIOUS
<1> DEFINE leaf(r) == Leaf(I, r, OtsPublic(OtsPrivate(seed, I, r - n, ots), I, r - n, ots))
           leaves == [r \in 0 .. 2 * n - 1 |-> leaf(r)]
           IsTree(f) == f = [r \in 1 .. 2 * n - 1 |->
                               IF r >= n THEN leaf(r) ELSE Interior(I, r, f[2 * r], f[2 * r + 1])]
<1>1. n \in Nat \ {0}
  BY HeightAssumption, Pow2Is
<1>2. T = CHOOSE f : IsTree(f)
  BY DEF LmsTree
<1> HIDE DEF T, n
<1>3. PICK g : TreePart(g, 1, n, I, leaves)
  <2>1. 1 \in 1 .. 2 * n
    BY <1>1
  <2> HIDE DEF leaves
  <2> QED  BY <1>1, <2>1, TreePartIs
<1>4. IsTree(g)
  <2>1. \A r \in 1 .. 2 * n - 1 : leaves[r] = leaf(r)
    BY <1>1
  <2> HIDE DEF leaves, leaf
  <2> QED  BY <1>3, <2>1 DEF TreePart
<1>5. IsTree(T)
  <2> HIDE DEF IsTree
  <2> QED  BY <1>2, <1>4
<1>6. \A r \in 1 .. 2 * n - 1 : T[r] = IF r >= n THEN leaf(r) ELSE Interior(I, r, T[2 * r], T[2 * r + 1])
  <2> HIDE DEF leaf, leaves
  <2> QED  BY <1>5
<1>7. ASSUME NEW q \in 0 .. n - 1
      PROVE  T[n + q] = KeyLeaf(seed, I, n, ots, q)
  <2>1. n + q \in 1 .. 2 * n - 1 /\ n + q >= n /\ (n + q) - n = q
    BY <1>1
  <2>2. T[n + q] = leaf(n + q)
    <3> HIDE DEF leaf, leaves
    <3> QED  BY <1>6, <2>1
  <2> QED  BY <2>1, <2>2 DEF KeyLeaf
<1>8. ASSUME NEW r \in 1 .. n - 1  PROVE T[r] = Interior(I, r, T[2 * r], T[2 * r + 1])
  <2>1. r \in 1 .. 2 * n - 1 /\ ~(r >= n)
    BY <1>1
  <2> HIDE DEF leaf, leaves
  <2> QED  BY <1>6, <2>1
<1>9. KeyLeaves(T, n, seed, I, ots) /\ Hashed(T, n, I)
  BY <1>7, <1>8 DEF KeyLeaves, Hashed
<1> QED  BY <1>1, <1>9 DEF T, n

------------------------------------------------------------------------------

\* The nodes between a leaf and the root, and their siblings.
LEMMA NodesAre ==
  ASSUME NEW h \in Nat \ {0}, NEW q \in 0 .. Pow2[h] - 1
  PROVE  LET n == Pow2[h]
             node(k) == (n + q) \div Pow2[k]
         IN  /\ node(0) = n + q /\ node(h) = 1
             /\ \A k \in 0 .. h : node(k) \in Nat \ {0}
             /\ \A k \in 1 .. h : /\ node(k) = node(k - 1) \div 2
                                  /\ node(k) < n
<1> DEFINE n == Pow2[h]
           node(k) == (n + q) \div Pow2[k]
<1>1. /\ n \in Nat \ {0} /\ q \in Nat /\ n + q \in Nat /\ n + q < 2 * n
      /\ \A k \in 0 .. h : Pow2[k] \in Nat \ {0}
      /\ Pow2[0] = 1
      /\ \A k \in 1 .. h : Pow2[k] = 2 * Pow2[k - 1]
  <2>1. n \in Nat \ {0} /\ Pow2[0] = 1 /\ \A k \in 0 .. h : Pow2[k] \in Nat \ {0}
    BY Pow2Is
  <2>2. ASSUME NEW k \in 1 .. h  PROVE Pow2[k] = 2 * Pow2[k - 1]
    <3>1. k - 1 \in Nat /\ (k - 1) + 1 = k
      OBVIOUS
    <3> QED  BY <3>1, Pow2Is
  <2> QED  BY <2>1, <2>2
<1>2. \A k \in 0 .. h : Pow2[k] =< n
  <2> DEFINE S == {j \in 0 .. h : Pow2[h - j] =< n}
  <2>1. 0 \in S
    BY <1>1
  <2>2. ASSUME NEW j \in 1 .. h, j - 1 \in S  PROVE j \in S
    <3>1. h - (j - 1) \in 1 .. h /\ h - (j - 1) - 1 = h - j /\ h - j \in 0 .. h
      OBVIOUS
    <3>2. Pow2[h - (j - 1)] = 2 * Pow2[h - j] /\ Pow2[h - (j - 1)] =< n /\ Pow2[h - j] \in Nat
      BY <1>1, <2>2, <3>1
    <3>3. Pow2[h - j] =< n
      BY <1>1, <3>2
    <3> QED  BY <3>3
  <2> HIDE DEF S
  <2>3. \A j \in 0 .. h : j \in S
    BY <2>1, <2>2, RoundByRound
  <2>4. \A k \in 0 .. h : h - k \in 0 .. h /\ h - (h - k) = k
    OBVIOUS
  <2>5. \A k \in 0 .. h : h - k \in S
    BY <2>3, <2>4
  <2> QED  BY <2>4, <2>5 DEF S
<1> HIDE DEF n
<1>3. node(0) = n + q
  BY <1>1
<1>4. node(h) = 1
  <2>1. Pow2[h] = n
    BY DEF n
  <2>2. \A y \in Nat, z \in Nat \ {0} : z =< y /\ y < 2 * z => y \div z = 1
    OBVIOUS
  <2>3. n + q \in Nat /\ n \in Nat \ {0} /\ n =< n + q /\ n + q < 2 * n
    BY <1>1
  <2> HIDE DEF node
  <2>4. (n + q) \div n = 1
    BY <2>2, <2>3
  <2> QED  BY <2>1, <2>4 DEF node
<1>5. ASSUME NEW k \in 0 .. h  PROVE node(k) \in Nat \ {0}
  <2> DEFINE x == Pow2[k]
  <2>1. x \in Nat \ {0} /\ x =< n
    BY <1>1, <1>2
  <2> HIDE DEF x
  <2>2. \A y \in Nat, z \in Nat \ {0} : z =< y => y \div z \in Nat \ {0}
    OBVIOUS
  <2>3. x =< n + q
    BY <1>1, <2>1
  <2> QED  BY <1>1, <2>1, <2>2, <2>3 DEF x
<1>6. ASSUME NEW k \in 1 .. h  PROVE node(k) = node(k - 1) \div 2 /\ node(k) < n
  <2> DEFINE x == Pow2[k - 1]
  <2>1. x \in Nat \ {0} /\ Pow2[k] = 2 * x /\ Pow2[k] \in Nat \ {0}
    BY <1>1
  <2> HIDE DEF x
  <2>2. \A y \in Nat, z \in Nat \ {0} : y \div (2 * z) = (y \div z) \div 2
    OBVIOUS
  <2>3. \A y \in Nat, z \in Nat \ {0} : y < 2 * n => y \div (2 * z) < n
    BY <1>1
  <2> QED  BY <1>1, <2>1, <2>2, <2>3 DEF x
<1> QED  BY <1>3, <1>4, <1>5, <1>6 DEF n

\* A path holds the siblings of the nodes from a leaf on.
HoldsSiblings(path, h, T, leaf) == \A k \in 1 .. h : path[k] = T[Sibling(leaf \div Pow2[k - 1])]

Counts(list, h) == \A k \in 1 .. h : list[k] = k

Climber(I, leaf, path) == [I |-> I, leaf |-> leaf, path |-> path]

\* The run of lms_verify from what is held at a leaf, with a path, in a tree.
Climbs(h, q, I, T, tmp, path, list, g) ==
  /\ h \in Nat \ {0} /\ q \in 0 .. Pow2[h] - 1
  /\ Hashed(T, Pow2[h], I)
  /\ Counts(list, h)
  /\ Runs(g, "path", Climber(I, Pow2[h] + q, path), tmp, list, 1 .. h)

\* What is hashed along a path arrives at the root of a tree exactly when it
\* starts from the tree's leaf and the path holds the tree's siblings.
LEMMA PathIs ==
  ASSUME NEW h, NEW q, NEW I, NEW T, NEW tmp, NEW path, NEW list, NEW g,
         Climbs(h, q, I, T, tmp, path, list, g)
  PROVE  g[1 .. h] = T[1] <=> tmp = T[Pow2[h] + q] /\ HoldsSiblings(path, h, T, Pow2[h] + q)
<1> DEFINE leaf == Pow2[h] + q
<1> h \in Nat \ {0} /\ q \in 0 .. Pow2[h] - 1
  BY DEF Climbs
<1> DEFINE n == Pow2[h]
           node(k) == leaf \div Pow2[k]
           Held(k) == path[k] = T[Sibling(node(k - 1))]
           S == {k \in 0 .. h : g[1 .. k] = T[node(k)] <=> tmp = T[leaf] /\ \A j \in 1 .. k : Held(j)}
<1>1. /\ node(0) = leaf /\ node(h) = 1
      /\ \A k \in 0 .. h : node(k) \in Nat \ {0}
      /\ \A k \in 1 .. h : /\ node(k) = node(k - 1) \div 2
                           /\ node(k) < n
  BY NodesAre
<1>2. n \in Nat \ {0}
  BY Pow2Is
<1>3. \A r \in 1 .. n - 1 : T[r] = Interior(I, r, T[2 * r], T[2 * r + 1])
  BY DEF Hashed, Climbs
<1>4. /\ g[1 .. 0] = tmp
      /\ \A k \in 1 .. h : g[1 .. k] = Up(I, leaf, path, g[1 .. k - 1], k)
  <2> DEFINE at == Climber(I, leaf, path)
  <2>1. /\ g[1 .. 0] = tmp
        /\ \A k \in 1 .. h : g[1 .. k] = Round("path", at, g[1 .. k - 1], list[k])
    <3>1. Runs(g, "path", at, tmp, list, 1 .. h) /\ h \in Nat
      BY DEF Climbs
    <3> HIDE DEF at
    <3> QED  BY <3>1, RunValues
  <2>2. \A inv, x : Round("path", at, inv, x) = Up(I, leaf, path, inv, x)
    BY DEF Round, Climber
  <2>3. \A k \in 1 .. h : list[k] = k
    BY DEF Counts, Climbs
  <2> HIDE DEF at
  <2> QED  BY <2>1, <2>2, <2>3
<1> HIDE DEF n, node, leaf
<1>5. 0 \in S
  <2>1. 0 \in 0 .. h /\ \A j : j \notin 1 .. 0
    OBVIOUS
  <2> QED  BY <1>1, <1>4, <2>1
<1>6. ASSUME NEW k \in 1 .. h, k - 1 \in S  PROVE k \in S
  <2> DEFINE r == node(k)
             c == node(k - 1)
             old == g[1 .. k - 1]
  <2>1. /\ r \in Nat \ {0} /\ c \in Nat \ {0} /\ r = c \div 2 /\ r < n
        /\ k - 1 \in 0 .. h /\ k \in 0 .. h
    BY <1>1
  <2>2. /\ g[1 .. k] = IF c % 2 = 0 THEN Interior(I, r, old, path[k]) ELSE Interior(I, r, path[k], old)
    BY <1>4 DEF Up, node
  <2>3. T[r] = Interior(I, r, T[2 * r], T[2 * r + 1])
    <3>1. r \in 1 .. n - 1
      BY <1>2, <2>1
    <3> HIDE DEF r
    <3> QED  BY <1>3, <3>1
  <2>4. /\ c % 2 = 0 => 2 * r = c /\ Sibling(c) = 2 * r + 1
        /\ c % 2 # 0 => 2 * r + 1 = c /\ Sibling(c) = 2 * r
    <3>1. \A x \in Nat : /\ x % 2 = 0 => 2 * (x \div 2) = x
                         /\ x % 2 # 0 => 2 * (x \div 2) + 1 = x
      OBVIOUS
    <3>2. /\ c % 2 = 0 => 2 * r = c
          /\ c % 2 # 0 => 2 * r + 1 = c
      BY <2>1, <3>1
    <3>3. c % 2 # 0 => c - 1 = 2 * r
      BY <2>1, <3>2
    <3> HIDE DEF r, c
    <3> QED  BY <3>2, <3>3 DEF Sibling
  <2>5. \A a, b, d, e : Interior(I, r, a, b) = Interior(I, r, d, e) <=> a = d /\ b = e
    BY DEF Interior
  <2>6. g[1 .. k] = T[r] <=> old = T[c] /\ path[k] = T[Sibling(c)]
    <3> HIDE DEF r, c, old
    <3>1. CASE c % 2 = 0
      BY <2>2, <2>3, <2>4, <2>5, <3>1
    <3>2. CASE c % 2 # 0
      BY <2>2, <2>3, <2>4, <2>5, <3>2
    <3> QED  BY <3>1, <3>2
  <2>7. old = T[c] <=> tmp = T[leaf] /\ \A j \in 1 .. k - 1 : Held(j)
    BY <1>6
  <2>8. Held(k) <=> path[k] = T[Sibling(c)]
    OBVIOUS
  <2>9. \A j : j \in 1 .. k <=> j = k \/ j \in 1 .. k - 1
    OBVIOUS
  <2> HIDE DEF Held, old, c
  <2>10. g[1 .. k] = T[node(k)] <=> tmp = T[leaf] /\ \A j \in 1 .. k : Held(j)
    BY <2>6, <2>7, <2>8, <2>9
  <2> QED  BY <2>1, <2>10
<1> HIDE DEF S
<1>7. h \in S
  <2>1. \A k \in 0 .. h : k \in S
    BY <1>5, <1>6, RoundByRound
  <2> QED  BY <2>1
<1> QED  BY <1>1, <1>7 DEF S, node, HoldsSiblings, leaf

\* The fold of lms_verify, as the function it is defined by.
Climbing(g, I, leaf, path, tmp, list) ==
  g = [s \in SUBSET DOMAIN list |->
         IF s = {} THEN tmp
         ELSE Up(I, leaf, path, g[s \ {Max(s)}], list[Max(s)])]

\* A public key verifies exactly what has its types, an index of its tree, the
\* one-time public key of that index and the siblings above its leaf.
LEMMA VerifyIs ==
  ASSUME NEW seed, NEW I, NEW lms \in DOMAIN Height, NEW ots, NEW message, NEW sig,
         sig.q \in Nat, \E len \in Nat : DOMAIN sig.path = 1 .. len /\ Len(sig.path) = len
  PROVE  LET T == LmsTree(seed, I, lms, ots)
             h == Height[lms]
         IN  LmsVerify(LmsPublicKey(lms, ots, I, T[1]), message, sig)
               <=> /\ sig.lms = lms /\ sig.ots.type = ots
                   /\ Len(sig.path) = h /\ sig.q < Pow2[h]
                   /\ OtsPubkeyFromSig(message, sig.ots, I, sig.q)
                        = OtsPublic(OtsPrivate(seed, I, sig.q, ots), I, sig.q, ots)
                   /\ HoldsSiblings(sig.path, h, T, Pow2[h] + sig.q)
<1> DEFINE q == sig.q
           h == Height[lms]
           path == sig.path
<1>0. /\ q = sig.q /\ q \in Nat /\ h = Height[lms] /\ path = sig.path
      /\ \E len \in Nat : DOMAIN path = 1 .. len /\ Len(path) = len
  OBVIOUS
<1> HIDE DEF q, h, path
<1> USE <1>0
<1> DEFINE T == LmsTree(seed, I, lms, ots)
           leaf == Pow2[h] + q
           K == OtsPubkeyFromSig(message, sig.ots, I, q)
           list == [k \in DOMAIN path |-> k]
           tmp == Leaf(I, leaf, K)
           good == /\ sig.lms = lms /\ sig.ots.type = ots
                   /\ Len(path) = h /\ q < Pow2[h]
<1>1. /\ h \in Nat \ {0} /\ Pow2[h] \in Nat \ {0}
      /\ KeyLeaves(T, Pow2[h], seed, I, ots) /\ Hashed(T, Pow2[h], I)
  <2>1. h \in Nat \ {0}
    BY HeightAssumption
  <2> QED  BY <2>1, TreeIs
<1>2. LmsVerify(LmsPublicKey(lms, ots, I, T[1]), message, sig)
        <=> good /\ (CHOOSE g : Climbing(g, I, leaf, path, tmp, list))[DOMAIN list] = T[1]
  <2> DEFINE pub == LmsPublicKey(lms, ots, I, T[1])
  <2>1. /\ pub.lms = lms /\ pub.ots = ots /\ pub.I = I /\ pub.root = T[1]
    BY DEF LmsPublicKey
  <2> HIDE DEF T, pub
  <2>2. LmsVerify(pub, message, sig) <=>
          /\ sig.lms = pub.lms /\ sig.ots.type = pub.ots
          /\ Len(sig.path) = Height[pub.lms] /\ sig.q < Pow2[Height[pub.lms]]
          /\ (CHOOSE g : Climbing(g, pub.I, Pow2[Height[pub.lms]] + sig.q, sig.path,
                                  Leaf(pub.I, Pow2[Height[pub.lms]] + sig.q,
                                       OtsPubkeyFromSig(message, sig.ots, pub.I, sig.q)),
                                  [k \in DOMAIN sig.path |-> k]))
               [DOMAIN [k \in DOMAIN sig.path |-> k]] = pub.root
    BY DEF LmsVerify, FoldLeft, MapThenFoldSet, Climbing, Up
  <2> QED  BY <2>1, <2>2 DEF pub
<1>3. ASSUME good
      PROVE  (CHOOSE g : Climbing(g, I, leaf, path, tmp, list))[DOMAIN list] = T[1]
               <=> /\ K = OtsPublic(OtsPrivate(seed, I, q, ots), I, q, ots)
                   /\ HoldsSiblings(path, h, T, leaf)
  <2> DEFINE at == Climber(I, leaf, path)
  <2>1. /\ DOMAIN path = 1 .. h /\ DOMAIN list = 1 .. h /\ Counts(list, h)
        /\ q \in 0 .. Pow2[h] - 1
    BY <1>1, <1>3 DEF Counts
  <2>2. \A inv, x : Round("path", at, inv, x) = Up(I, leaf, path, inv, x)
    BY DEF Round, Climber
  <2>3. \A g : Climbing(g, I, leaf, path, tmp, list) <=> Runs(g, "path", at, tmp, list, 1 .. h)
    <3> HIDE DEF at, tmp, leaf, list
    <3>1. DOMAIN list = 1 .. h
      BY <2>1
    <3>2. \A inv, x : Round("path", at, inv, x) = Up(I, leaf, path, inv, x)
      BY <2>2
    <3> QED  BY ONLY <3>1, <3>2 DEF Climbing, Runs
  <2>4. \E g : Climbing(g, I, leaf, path, tmp, list)
    <3> HIDE DEF at, tmp, leaf, list
    <3> QED  BY <1>1, <2>3, LoopRuns
  <2> DEFINE g == CHOOSE g : Climbing(g, I, leaf, path, tmp, list)
  <2>5. Climbing(g, I, leaf, path, tmp, list)
    <3> HIDE DEF tmp, leaf
    <3> QED  BY <2>4
  <2>6. Runs(g, "path", at, tmp, list, 1 .. h)
    <3> HIDE DEF g, at, tmp, leaf, list
    <3> QED  BY <2>3, <2>5
  <2> HIDE DEF T, g, tmp, list
  <2>7. g[1 .. h] = T[1] <=> tmp = T[leaf] /\ HoldsSiblings(path, h, T, leaf)
    <3>1. Climbs(h, q, I, T, tmp, path, list, g)
      BY <1>1, <2>1, <2>6 DEF Climbs
    <3> QED  BY <3>1, PathIs
  <2>8. tmp = T[leaf] <=> K = OtsPublic(OtsPrivate(seed, I, q, ots), I, q, ots)
    <3>1. T[leaf] = KeyLeaf(seed, I, Pow2[h], ots, q)
      BY <1>1, <2>1 DEF KeyLeaves
    <3> HIDE DEF leaf, K
    <3> QED  BY <3>1 DEF tmp, Leaf, KeyLeaf, leaf
  <2> QED  BY <2>1, <2>7, <2>8 DEF g
<1> HIDE DEF T, list, tmp, K
<1> QED  BY <1>2, <1>3 DEF T, K

\* A value of a chain after one run and after two runs.
Run(t, a, b) == [tweak |-> t, from |-> a, to |-> b]
Once(s, t, a, b) == [start |-> s, runs |-> <<Run(t, a, b)>>]
Twice(s, t, a, b, c, d) == [start |-> s, runs |-> <<Run(t, a, b), Run(t, c, d)>>]

\* Chain from the start of a chain.
LEMMA ChainOnce ==
  ASSUME NEW seed, NEW I, NEW q, NEW i, NEW t, NEW a, NEW b
  PROVE  Chain(Start(seed, I, q, i), t, a, b)
           = IF a = b THEN Start(seed, I, q, i) ELSE Once(<<seed, I, q, i>>, t, a, b)
<1> DEFINE v == Start(seed, I, q, i)
<1>1. /\ v = [start |-> <<seed, I, q, i>>, runs |-> <<>>]
      /\ v.runs = <<>> /\ Len(v.runs) = 0
  BY DEF Start
<1>2. Append(<<>>, Run(t, a, b)) = <<Run(t, a, b)>>
  OBVIOUS
<1>3. [v EXCEPT !.runs = Append(@, Run(t, a, b))] = Once(<<seed, I, q, i>>, t, a, b)
  BY <1>1, <1>2 DEF Once
<1> HIDE DEF v
<1> QED  BY <1>1, <1>3 DEF Chain, v, Run

\* The two ways to put a pair together.
LEMMA PairIs ==
  ASSUME NEW x, NEW y
  PROVE  Append(<<x>>, y) = <<x, y>> /\ <<x>> \o <<y>> = <<x, y>>
<1> DEFINE f == Append(<<x>>, y)
           g == <<x, y>>
<1>1. <<x>> \in Seq({x, y}) /\ Len(<<x>>) = 1 /\ <<x>>[1] = x
  OBVIOUS
<1>2. f \in Seq({x, y}) /\ Len(f) = 2 /\ f[1] = x /\ f[2] = y
  BY <1>1, AppendProperties
<1>3. g \in Seq({x, y}) /\ Len(g) = 2 /\ g[1] = x /\ g[2] = y
  OBVIOUS
<1>4. <<x>> \o <<y>> = f
  <2>1. \A s \in Seq({x, y}) : \A e \in {x, y} : Append(s, e) = s \o <<e>>
    BY AppendIsConcat
  <2>2. y \in {x, y}
    OBVIOUS
  <2> QED  BY <1>1, <2>1, <2>2
<1> HIDE DEF f, g
<1>5. f = g
  BY <1>2, <1>3, SeqEqual
<1> QED  BY <1>4, <1>5 DEF f, g

\* Chain after one run goes on with it or takes a second one.
LEMMA ChainTwice ==
  ASSUME NEW s, NEW t, NEW a, NEW b, NEW c, NEW d
  PROVE  Chain(Once(s, t, a, b), t, c, d)
           = IF c = d THEN Once(s, t, a, b)
             ELSE IF b = c THEN Once(s, t, a, d) ELSE Twice(s, t, a, b, c, d)
<1> DEFINE v == Once(s, t, a, b)
<1>1. /\ v = [start |-> s, runs |-> <<Run(t, a, b)>>]
      /\ v.runs = <<Run(t, a, b)>> /\ Len(v.runs) = 1 /\ v.runs[1] = Run(t, a, b)
      /\ v.runs[1].tweak = t /\ v.runs[1].to = b
  BY DEF Once, Run
<1>2. \A x, y : Append(<<x>>, y) = <<x, y>>
  BY PairIs
<1>3. [v EXCEPT !.runs = Append(@, Run(t, c, d))] = Twice(s, t, a, b, c, d)
  BY <1>1, <1>2 DEF Twice
<1>4. [v EXCEPT !.runs[1].to = d] = Once(s, t, a, d)
  <2>1. [Run(t, a, b) EXCEPT !.to = d] = Run(t, a, d)
    BY DEF Run
  <2> HIDE DEF v
  <2>2. ASSUME NEW x, NEW y  PROVE [<<x>> EXCEPT ![1] = y] = <<y>>
    <3> DEFINE f == [<<x>> EXCEPT ![1] = y]
    <3>1. <<x>> \in Seq({x, y}) /\ Len(<<x>>) = 1 /\ 1 \in 1 .. 1
      OBVIOUS
    <3>2. f \in Seq({x, y}) /\ Len(f) = 1 /\ f[1] = y
      BY <3>1, ExceptSeq
    <3> HIDE DEF f
    <3>3. <<y>> \in Seq({x, y}) /\ Len(<<y>>) = 1 /\ <<y>>[1] = y
      OBVIOUS
    <3>4. f = <<y>>
      BY <3>2, <3>3, SeqEqual
    <3> QED  BY <3>4 DEF f
  <2> QED  BY <1>1, <2>1, <2>2 DEF Once, v
<1> HIDE DEF v
<1> QED  BY <1>1, <1>3, <1>4 DEF Chain, v, Run

\* Values of one run are equal exactly when their parts are, and no value of
\* two runs is one of one run, or the start.
LEMMA RunsDiffer ==
  ASSUME NEW s, NEW t, NEW a, NEW b, NEW c, NEW d
  PROVE  /\ Once(s, t, a, b) = Once(s, t, c, d) <=> a = c /\ b = d
         /\ \A v, e, f : v.runs = <<e, f>> => v # Once(s, t, a, b)
         /\ \A v : v.runs = <<>> => v # Once(s, t, a, b)
<1>1. Once(s, t, a, b).runs = <<Run(t, a, b)>>
  BY DEF Once
<1>2. Run(t, a, b) = Run(t, c, d) <=> a = c /\ b = d
  BY DEF Run
<1>3. Once(s, t, a, b) = Once(s, t, c, d) <=> a = c /\ b = d
  BY <1>2 DEF Once
<1>4. \A e, f : <<e, f>> # <<Run(t, a, b)>>
  OBVIOUS
<1>5. <<>> # <<Run(t, a, b)>>
  OBVIOUS
<1> QED  BY <1>1, <1>3, <1>4, <1>5

\* A chain that was taken to a arrives at its end from b exactly when b is a.
LEMMA ChainArrives ==
  ASSUME NEW seed, NEW I, NEW q, NEW i, NEW t, NEW a, NEW b, NEW e \in Nat \ {0}
  PROVE  Chain(Chain(Start(seed, I, q, i), t, 0, a), t, b, e) = Chain(Start(seed, I, q, i), t, 0, e)
           <=> a = b
<1> DEFINE s == <<seed, I, q, i>>
           v == Start(seed, I, q, i)
<1>1. \A x, y : Chain(v, t, x, y) = IF x = y THEN v ELSE Once(s, t, x, y)
  BY ChainOnce
<1>2. \A x, y, z, w : Chain(Once(s, t, x, y), t, z, w)
                        = IF z = w THEN Once(s, t, x, y)
                          ELSE IF y = z THEN Once(s, t, x, w) ELSE Twice(s, t, x, y, z, w)
  BY ChainTwice
<1>3. /\ v # Once(s, t, 0, e)
      /\ \A x, y : Once(s, t, x, y) = Once(s, t, 0, e) <=> x = 0 /\ y = e
      /\ \A x, y, z, w : Twice(s, t, x, y, z, w) # Once(s, t, 0, e)
  <2>1. v # Once(s, t, 0, e)
    <3>1. v.runs = <<>>
      BY DEF Start
    <3> QED  BY <3>1, RunsDiffer
  <2>2. ASSUME NEW x, NEW y, NEW z, NEW w  PROVE Twice(s, t, x, y, z, w) # Once(s, t, 0, e)
    <3>1. Twice(s, t, x, y, z, w).runs = <<Run(t, x, y), Run(t, z, w)>>
      BY DEF Twice
    <3> QED  BY <3>1, RunsDiffer
  <2> QED  BY <2>1, <2>2, RunsDiffer
<1> HIDE DEF s, v
<1>4. CASE a = 0
  <2>1. Chain(v, t, 0, a) = v
    BY <1>1, <1>4
  <2>2. Chain(v, t, b, e) = Once(s, t, 0, e) <=> b = 0
    BY <1>1, <1>3
  <2>3. Chain(v, t, 0, e) = Once(s, t, 0, e)
    BY <1>1
  <2> QED  BY <1>4, <2>1, <2>2, <2>3 DEF v
<1>5. CASE a # 0
  <2>1. Chain(v, t, 0, a) = Once(s, t, 0, a)
    BY <1>1, <1>5
  <2>2. Chain(Once(s, t, 0, a), t, b, e) = Once(s, t, 0, e) <=> a = b
    <3>1. CASE b = e
      BY <1>2, <1>3, <3>1
    <3>2. CASE b # e /\ a = b
      BY <1>2, <3>2
    <3>3. CASE b # e /\ a # b
      BY <1>2, <1>3, <3>3
    <3> QED  BY <3>1, <3>2, <3>3
  <2>3. Chain(v, t, 0, e) = Once(s, t, 0, e)
    BY <1>1
  <2> QED  BY <2>1, <2>2, <2>3 DEF v
<1> QED  BY <1>4, <1>5

\* A chain that was hashed once more from its start arrives only when it had
\* not been hashed yet, and goes on from 1.
LEMMA AdvancedArrives ==
  ASSUME NEW seed, NEW I, NEW q, NEW i, NEW t, NEW a, NEW b, NEW e \in Nat \ {0},
         Chain(Chain(Chain(Start(seed, I, q, i), t, 0, a), t, 0, 1), t, b, e)
           = Chain(Start(seed, I, q, i), t, 0, e)
  PROVE  a = 0 /\ b = 1
<1> DEFINE s == <<seed, I, q, i>>
           v == Start(seed, I, q, i)
<1>1. Chain(v, t, 0, e) = Once(s, t, 0, e)
  BY ChainOnce
<1>2. CASE a = 0
  <2>1. Chain(v, t, 0, a) = v /\ Chain(v, t, 0, 1) = Once(s, t, 0, 1)
    BY <1>2, ChainOnce
  <2>2. Chain(Once(s, t, 0, 1), t, b, e)
          = IF b = e THEN Once(s, t, 0, 1)
            ELSE IF 1 = b THEN Once(s, t, 0, e) ELSE Twice(s, t, 0, 1, b, e)
    BY ChainTwice
  <2>3. Once(s, t, 0, 1) = Once(s, t, 0, e) <=> 1 = e
    BY RunsDiffer
  <2>4. Twice(s, t, 0, 1, b, e) # Once(s, t, 0, e)
    <3>1. Twice(s, t, 0, 1, b, e).runs = <<Run(t, 0, 1), Run(t, b, e)>>
      BY DEF Twice
    <3> QED  BY <3>1, RunsDiffer
  <2>5. Chain(Chain(Chain(v, t, 0, a), t, 0, 1), t, b, e) = Chain(v, t, 0, e)
    OBVIOUS
  <2> HIDE DEF v, s
  <2> QED  BY <1>1, <1>2, <2>1, <2>2, <2>3, <2>4, <2>5
<1>3. CASE a # 0
  <2> DEFINE u == Twice(s, t, 0, a, 0, 1)
  <2>1. Chain(v, t, 0, a) = Once(s, t, 0, a)
    BY <1>3, ChainOnce
  <2>2. Chain(Once(s, t, 0, a), t, 0, 1) = u
    BY <1>3, ChainTwice
  <2>3. u = [start |-> s, runs |-> <<Run(t, 0, a), Run(t, 0, 1)>>]
    BY DEF Twice
  <2>4. u.runs = <<Run(t, 0, a), Run(t, 0, 1)>> /\ Len(u.runs) = 2
    BY <2>3
  <2> HIDE DEF s, v
  <2> HIDE DEF u
  <2>5. Len(Chain(u, t, b, e).runs) # 1
    <3>0. Chain(u, t, b, e)
            = IF b = e THEN u
              ELSE IF u.runs[2].tweak = t /\ u.runs[2].to = b THEN [u EXCEPT !.runs[2].to = e]
                   ELSE [u EXCEPT !.runs = Append(@, Run(t, b, e))]
      <4>1. Len(u.runs) > 0
        BY <2>4
      <4> QED  BY <2>4, <4>1 DEF Chain, Run
    <3>1. CASE b = e
      BY <2>4, <3>0, <3>1
    <3>2. CASE b # e /\ u.runs[2].tweak = t /\ u.runs[2].to = b
      <4>1. Chain(u, t, b, e) = [u EXCEPT !.runs[2].to = e]
        BY <3>0, <3>2
      <4>2. [u EXCEPT !.runs[2].to = e].runs = [u.runs EXCEPT ![2].to = e]
        BY <2>3
      <4>3. Len([u.runs EXCEPT ![2].to = e]) = 2
        <5>1. \A x, y, z : Len([<<x, y>> EXCEPT ![2] = z]) = 2
          OBVIOUS
        <5> QED  BY <2>4, <5>1
      <4> QED  BY <4>1, <4>2, <4>3
    <3>3. CASE b # e /\ ~(u.runs[2].tweak = t /\ u.runs[2].to = b)
      <4>1. Chain(u, t, b, e) = [u EXCEPT !.runs = Append(@, Run(t, b, e))]
        BY <3>0, <3>3
      <4>2. [u EXCEPT !.runs = Append(@, Run(t, b, e))].runs = Append(u.runs, Run(t, b, e))
        BY <2>3
      <4>3. Len(Append(u.runs, Run(t, b, e))) = 3
        <5>1. \A x, y, z : Len(Append(<<x, y>>, z)) = 3
          OBVIOUS
        <5> QED  BY <2>4, <5>1
      <4> QED  BY <4>1, <4>2, <4>3
    <3> QED  BY <3>1, <3>2, <3>3
  <2>6. Len(Once(s, t, 0, e).runs) = 1
    BY DEF Once
  <2>7. Chain(Chain(Chain(v, t, 0, a), t, 0, 1), t, b, e) = Chain(v, t, 0, e)
    BY DEF v
  <2> HIDE DEF u
  <2> QED  BY <1>1, <2>1, <2>2, <2>5, <2>6, <2>7
<1> QED  BY <1>2, <1>3

\* Hashing on does not change where a chain starts, and once more is never the
\* same value.
LEMMA ChainKeeps ==
  ASSUME NEW seed, NEW I, NEW q, NEW i, NEW t, NEW a, NEW b, NEW c, NEW d
  PROVE  /\ Chain(Start(seed, I, q, i), t, a, b).start = <<seed, I, q, i>>
         /\ Chain(Chain(Start(seed, I, q, i), t, a, b), t, c, d).start = <<seed, I, q, i>>
         /\ Chain(Chain(Start(seed, I, q, i), t, 0, b), t, 0, 1) # Chain(Start(seed, I, q, i), t, 0, b)
<1> DEFINE s == <<seed, I, q, i>>
           v == Start(seed, I, q, i)
<1>1. /\ v.start = s /\ v.runs = <<>>
      /\ \A x, y : Once(s, t, x, y).start = s
      /\ \A x, y, z, w : Twice(s, t, x, y, z, w).start = s
  BY DEF Start, Once, Twice
<1>2. \A x, y : Chain(v, t, x, y) = IF x = y THEN v ELSE Once(s, t, x, y)
  BY ChainOnce
<1>3. \A x, y, z, w : Chain(Once(s, t, x, y), t, z, w)
                        = IF z = w THEN Once(s, t, x, y)
                          ELSE IF y = z THEN Once(s, t, x, w) ELSE Twice(s, t, x, y, z, w)
  BY ChainTwice
<1>4. /\ v # Once(s, t, 0, 1)
      /\ \A x, y, z, w : Twice(s, t, x, y, z, w) # Once(s, t, x, y)
  <2>1. v # Once(s, t, 0, 1)
    BY <1>1, RunsDiffer
  <2>2. ASSUME NEW x, NEW y, NEW z, NEW w  PROVE Twice(s, t, x, y, z, w) # Once(s, t, x, y)
    <3>1. Twice(s, t, x, y, z, w).runs = <<Run(t, x, y), Run(t, z, w)>>
      BY DEF Twice
    <3> QED  BY <3>1, RunsDiffer
  <2> QED  BY <2>1, <2>2
<1> HIDE DEF s, v
<1>5. Chain(v, t, a, b).start = s
  BY <1>1, <1>2
<1>6. Chain(Chain(v, t, a, b), t, c, d).start = s
  BY <1>1, <1>2, <1>3
<1>7. Chain(Chain(v, t, 0, b), t, 0, 1) # Chain(v, t, 0, b)
  <2>1. CASE b = 0
    BY <1>2, <1>4, <2>1
  <2>2. CASE b # 0
    BY <1>2, <1>3, <1>4, <2>2
  <2> QED  BY <2>1, <2>2
<1> QED  BY <1>5, <1>6, <1>7 DEF s, v

\* The chains of a one-time key, and how far each is hashed for its public key.
Chains(type) == 0 .. Lmots[type].p - 1
End(type) == Pow2[Lmots[type].w] - 1

\* A key has a first chain, a chain is hashed at least once, and there is a digit
\* for each.
LEMMA ChainsAre ==
  ASSUME NEW type \in DOMAIN Lmots
  PROVE  /\ 0 \in Chains(type)
         /\ End(type) \in Nat \ {0}
         /\ \A Q : DOMAIN Digits(Q, type) = Chains(type)
<1>1. 0 \in Chains(type) /\ Lmots[type].w \in Nat \ {0}
  BY DEF Chains, Lmots
<1>2. \A w \in Nat \ {0} : w - 1 \in Nat /\ (w - 1) + 1 = w
  OBVIOUS
<1>3. \A w \in Nat \ {0} : Pow2[w] - 1 \in Nat \ {0}
  <2>1. \A w \in Nat \ {0} : Pow2[w - 1] \in Nat \ {0} /\ Pow2[w] = 2 * Pow2[w - 1]
    BY <1>2, Pow2Is
  <2>2. \A p \in Nat \ {0} : 2 * p - 1 \in Nat \ {0}
    OBVIOUS
  <2> QED  BY <2>1, <2>2
<1>4. End(type) \in Nat \ {0}
  BY <1>1, <1>3 DEF End
<1>5. \A Q : DOMAIN Digits(Q, type) = Chains(type)
  BY DEF Digits, Chains
<1> QED  BY <1>1, <1>4, <1>5

\* Whatever is hashed, a chain keeps its start.
From(v, s) == \E r : v = [start |-> s, runs |-> r]

\* One more run of steps does not change where a chain starts.
LEMMA ChainFrom ==
  ASSUME NEW v, NEW s, From(v, s), NEW t, NEW a, NEW b
  PROVE  From(Chain(v, t, a, b), s)
<1>1. PICK r : v = [start |-> s, runs |-> r]
  BY DEF From
<1>2. \A x : [v EXCEPT !.runs = x] = [start |-> s, runs |-> x]
  BY <1>1
<1>3. \E x : Chain(v, t, a, b) = v \/ Chain(v, t, a, b) = [v EXCEPT !.runs = x]
  BY DEF Chain
<1> QED  BY <1>1, <1>2, <1>3 DEF From

\* A new chain starts where it is.
LEMMA StartFrom ==
  ASSUME NEW seed, NEW I, NEW q, NEW i
  PROVE  From(Start(seed, I, q, i), <<seed, I, q, i>>)
BY DEF Start, From

\* The public key that a signature gives, as its chains, and the one a key has.
LEMMA PublicIs ==
  ASSUME NEW seed, NEW I, NEW q, NEW type \in DOMAIN Lmots, NEW message, NEW sig, sig.type = type,
         DOMAIN sig.y = Chains(type)
  PROVE  OtsPubkeyFromSig(message, sig, I, q) = OtsPublic(OtsPrivate(seed, I, q, type), I, q, type)
           <=> \A i \in Chains(type) :
                 Chain(sig.y[i], <<I, q, i>>, Digits(Digest(I, q, sig.C, message), type)[i], End(type))
                   = Chain(Start(seed, I, q, i), <<I, q, i>>, 0, End(type))
<1> DEFINE f == [i \in Chains(type) |->
                   Chain(sig.y[i], <<I, q, i>>, Digits(Digest(I, q, sig.C, message), type)[i], End(type))]
           g == [i \in Chains(type) |-> Chain(Start(seed, I, q, i), <<I, q, i>>, 0, End(type))]
<1>1. OtsPubkeyFromSig(message, sig, I, q) = <<"pblc", I, q, f>>
  BY DEF OtsPubkeyFromSig, End
<1>2. OtsPublic(OtsPrivate(seed, I, q, type), I, q, type) = <<"pblc", I, q, g>>
  BY DEF OtsPublic, OtsPrivate, End, Chains
<1>3. f = g <=> \A i \in Chains(type) : f[i] = g[i]
  <2> DEFINE D == Chains(type)
  <2>1. f = [i \in D |-> f[i]] /\ g = [i \in D |-> g[i]]
    OBVIOUS
  <2> HIDE DEF f, g
  <2> QED  BY <2>1
<1>4. \A x, y : <<"pblc", I, q, x>> = <<"pblc", I, q, y>> <=> x = y
  OBVIOUS
<1>5. (\A i \in Chains(type) : f[i] = g[i])
        <=> \A i \in Chains(type) :
              Chain(sig.y[i], <<I, q, i>>, Digits(Digest(I, q, sig.C, message), type)[i], End(type))
                = Chain(Start(seed, I, q, i), <<I, q, i>>, 0, End(type))
  OBVIOUS
<1> HIDE DEF f, g
<1> QED  BY <1>1, <1>2, <1>3, <1>4, <1>5

\* A signature whose chains start elsewhere never gives a key's public key.
LEMMA OtsElsewhere ==
  ASSUME NEW seed, NEW I, NEW q, NEW type \in DOMAIN Lmots, NEW message, NEW sig, sig.type = type,
         DOMAIN sig.y = Chains(type), NEW s, From(sig.y[0], s), s # <<seed, I, q, 0>>
  PROVE  OtsPubkeyFromSig(message, sig, I, q) # OtsPublic(OtsPrivate(seed, I, q, type), I, q, type)
<1> DEFINE b == Digits(Digest(I, q, sig.C, message), type)[0]
           e == End(type)
           t == <<I, q, 0>>
<1>1. From(Chain(sig.y[0], t, b, e), s)
  BY ChainFrom
<1>2. From(Chain(Start(seed, I, q, 0), t, 0, e), <<seed, I, q, 0>>)
  BY ChainFrom, StartFrom
<1>3. \A v, x, y : From(v, x) /\ From(v, y) => x = y
  BY DEF From
<1>4. Chain(sig.y[0], t, b, e) # Chain(Start(seed, I, q, 0), t, 0, e)
  <2> HIDE DEF b, e, t
  <2> QED  BY <1>1, <1>2, <1>3
<1>5. 0 \in Chains(type)
  BY ChainsAre
<1> QED  BY <1>4, <1>5, PublicIs

\* The one-time signature of a hash, by its chains, and one whose first chain
\* was hashed once more.
Signs(sig, seed, I, q, type, Q) ==
  /\ sig.type = type /\ Q \in [1 .. N -> 0 .. 255]
  /\ DOMAIN sig.y = Chains(type)
  /\ \A i \in Chains(type) :
       sig.y[i] = Chain(Start(seed, I, q, i), <<I, q, i>>, 0, Digits(Q, type)[i])

SignsAdvanced(sig, seed, I, q, type, Q) ==
  /\ sig.type = type /\ Q \in [1 .. N -> 0 .. 255]
  /\ DOMAIN sig.y = Chains(type)
  /\ \A i \in Chains(type) : i # 0 =>
       sig.y[i] = Chain(Start(seed, I, q, i), <<I, q, i>>, 0, Digits(Q, type)[i])
  /\ sig.y[0] = Chain(Chain(Start(seed, I, q, 0), <<I, q, 0>>, 0, Digits(Q, type)[0]), <<I, q, 0>>, 0, 1)

\* A signature gives the public key of its key for what has the hash of the
\* message that was signed, and for nothing else.
GivesKey(message, sig, seed, I, q, type) ==
  OtsPubkeyFromSig(message, sig, I, q) = OtsPublic(OtsPrivate(seed, I, q, type), I, q, type)

\* The key comes out exactly when the hash is the one that was signed.
LEMMA OtsVerifies ==
  ASSUME NEW seed, NEW I, NEW q, NEW type \in DOMAIN Lmots, NEW message, NEW sig, NEW Q,
         Signs(sig, seed, I, q, type, Q), Digest(I, q, sig.C, message) \in [1 .. N -> 0 .. 255]
  PROVE  GivesKey(message, sig, seed, I, q, type) <=> Q = Digest(I, q, sig.C, message)
<1> DEFINE R == Digest(I, q, sig.C, message)
<1>0. R = Digest(I, q, sig.C, message) /\ R \in [1 .. N -> 0 .. 255]
  OBVIOUS
<1> HIDE DEF R
<1> DEFINE a == Digits(Q, type)
           b == Digits(R, type)
           e == End(type)
<1>1. /\ DOMAIN sig.y = Chains(type) /\ sig.type = type /\ Q \in [1 .. N -> 0 .. 255]
      /\ \A i \in Chains(type) : sig.y[i] = Chain(Start(seed, I, q, i), <<I, q, i>>, 0, a[i])
  BY DEF Signs
<1>2. e \in Nat \ {0} /\ DOMAIN a = Chains(type)
  BY ChainsAre
<1>3. \A i \in Chains(type) :
        Chain(sig.y[i], <<I, q, i>>, b[i], e) = Chain(Start(seed, I, q, i), <<I, q, i>>, 0, e)
          <=> a[i] = b[i]
  <2> HIDE DEF a, b, e
  <2> QED  BY <1>1, <1>2, ChainArrives
<1>4. OtsPubkeyFromSig(message, sig, I, q) = OtsPublic(OtsPrivate(seed, I, q, type), I, q, type)
        <=> \A i \in Chains(type) :
              Chain(sig.y[i], <<I, q, i>>, b[i], e) = Chain(Start(seed, I, q, i), <<I, q, i>>, 0, e)
  BY <1>0, <1>1, PublicIs
<1>5. (\A i \in Chains(type) : a[i] = b[i]) => Q = R
  <2> SUFFICES ASSUME \A i \in Chains(type) : a[i] = b[i]  PROVE Q = R
    OBVIOUS
  <2>1. \A i \in DOMAIN a : a[i] \in Int
    BY <1>1, DigitsAre
  <2>2. \A x \in Int : x >= x
    OBVIOUS
  <2>3. \A i \in DOMAIN a : a[i] >= b[i]
    <3> HIDE DEF a, b
    <3> QED  BY <1>2, <2>1, <2>2
  <2> QED  BY <1>0, <1>1, <2>3, NoneBelow
<1>6. Q = R => \A i \in Chains(type) : a[i] = b[i]
  OBVIOUS
<1> HIDE DEF a, b, e
<1> QED  BY <1>3, <1>4, <1>5, <1>6 DEF R, GivesKey

\* For another hash it does not.
LEMMA OtsRejects ==
  ASSUME NEW seed, NEW I, NEW q, NEW type \in DOMAIN Lmots, NEW message, NEW sig, NEW Q,
         Signs(sig, seed, I, q, type, Q), Digest(I, q, sig.C, message) \in [1 .. N -> 0 .. 255],
         Q # Digest(I, q, sig.C, message)
  PROVE  ~GivesKey(message, sig, seed, I, q, type)
BY OtsVerifies

\* Nor does a signature whose first chain was hashed once more: it would take a
\* message with a digit more there and none less anywhere.
LEMMA OtsAdvances ==
  ASSUME NEW seed, NEW I, NEW q, NEW type \in DOMAIN Lmots, NEW message, NEW sig, NEW Q,
         SignsAdvanced(sig, seed, I, q, type, Q), Digest(I, q, sig.C, message) \in [1 .. N -> 0 .. 255]
  PROVE  OtsPubkeyFromSig(message, sig, I, q) # OtsPublic(OtsPrivate(seed, I, q, type), I, q, type)
<1> DEFINE R == Digest(I, q, sig.C, message)
<1>0. /\ R = Digest(I, q, sig.C, message) /\ R \in [1 .. N -> 0 .. 255]
      /\ sig.type = type /\ Q \in [1 .. N -> 0 .. 255] /\ DOMAIN sig.y = Chains(type)
      /\ \A i \in Chains(type) : i # 0 =>
           sig.y[i] = Chain(Start(seed, I, q, i), <<I, q, i>>, 0, Digits(Q, type)[i])
      /\ sig.y[0] = Chain(Chain(Start(seed, I, q, 0), <<I, q, 0>>, 0, Digits(Q, type)[0]), <<I, q, 0>>, 0, 1)
  BY DEF SignsAdvanced
<1> HIDE DEF R
<1> USE <1>0
<1> DEFINE a == Digits(Q, type)
           b == Digits(R, type)
           e == End(type)
<1> SUFFICES ASSUME OtsPubkeyFromSig(message, sig, I, q) = OtsPublic(OtsPrivate(seed, I, q, type), I, q, type)
             PROVE  FALSE
  OBVIOUS
<1>1. \A i \in Chains(type) :
        Chain(sig.y[i], <<I, q, i>>, b[i], e) = Chain(Start(seed, I, q, i), <<I, q, i>>, 0, e)
  BY PublicIs
<1>2. /\ e \in Nat \ {0} /\ 0 \in Chains(type)
      /\ DOMAIN a = Chains(type) /\ DOMAIN b = Chains(type)
  BY ChainsAre
<1>3. a[0] = 0 /\ b[0] = 1
  <2>1. Chain(Chain(Chain(Start(seed, I, q, 0), <<I, q, 0>>, 0, a[0]), <<I, q, 0>>, 0, 1), <<I, q, 0>>, b[0], e)
          = Chain(Start(seed, I, q, 0), <<I, q, 0>>, 0, e)
    BY <1>1, <1>2
  <2> HIDE DEF a, b, e
  <2> QED  BY <1>2, <2>1, AdvancedArrives
<1>4. \A i \in Chains(type) : i # 0 => a[i] = b[i]
  <2> HIDE DEF a, b, e
  <2> SUFFICES ASSUME NEW i \in Chains(type), i # 0  PROVE a[i] = b[i]
    OBVIOUS
  <2>1. Chain(Chain(Start(seed, I, q, i), <<I, q, i>>, 0, a[i]), <<I, q, i>>, b[i], e)
          = Chain(Start(seed, I, q, i), <<I, q, i>>, 0, e)
    BY <1>1 DEF a
  <2> QED  BY <1>2, <2>1, ChainArrives
<1>5. \A i \in Chains(type) : a[i] \in Int /\ b[i] \in Int
  BY <1>2, DigitsAre
<1>6. \A i \in DOMAIN b : b[i] >= a[i]
  <2>1. \A x \in Int : x >= x
    OBVIOUS
  <2> HIDE DEF a, b
  <2> QED  BY <1>2, <1>3, <1>4, <1>5, <2>1
<1>7. R = Q
  BY <1>6, NoneBelow
<1> QED  BY <1>3, <1>7

\* A signature by its parts, and the parts of what key name signs.
OtsFrom(type, C, y) == [type |-> type, C |-> C, y |-> y]

SigFrom(q, type, C, y, lms, path) ==
  [q |-> q, ots |-> OtsFrom(type, C, y), lms |-> lms, path |-> path]

ChainsOf(name, ots, q, text) ==
  [i \in Chains(ots) |-> Chain(Start(name, name, q, i), <<name, q, i>>, 0,
                               Digits(Digest(name, q, 1, text), ots)[i])]

PathOf(name, lms, ots, q) ==
  [k \in 1 .. Height[lms] |->
     LmsTree(name, name, lms, ots)[Sibling((Pow2[Height[lms]] + q) \div Pow2[k - 1])]]

SigOf(name, lms, ots, q, text) ==
  SigFrom(q, ots, 1, ChainsOf(name, ots, q, text), lms, PathOf(name, lms, ots, q))

PublicOf(name, lms, ots) ==
  LmsPublicKey(lms, ots, name, LmsTree(name, name, lms, ots)[1])

\* Two signatures with a key's types are the same when their parts are.
LEMMA SameParts ==
  ASSUME NEW q, NEW type, NEW C, NEW y, NEW lms, NEW path, NEW r, NEW type2, NEW C2, NEW y2, NEW path2
  PROVE  SigFrom(q, type, C, y, lms, path) = SigFrom(r, type2, C2, y2, lms, path2)
           <=> q = r /\ type = type2 /\ C = C2 /\ y = y2 /\ path = path2
BY DEF SigFrom, OtsFrom

\* What sign of a key gives is made of those parts.
LEMMA SignedIs ==
  ASSUME NEW key, NEW name, NEW lms, NEW ots, key.seed = name, key.I = name, key.lms = lms,
         key.ots = ots, key.T = LmsTree(name, name, lms, ots), NEW q, NEW text
  PROVE  LmsSignWith(key, q, text, 1) = SigOf(name, lms, ots, q, text)
<1>1. OtsSign(text, OtsPrivate(name, name, q, ots), name, q, ots, 1)
        = [type |-> ots, C |-> 1, y |-> ChainsOf(name, ots, q, text)]
  BY DEF OtsSign, OtsPrivate, ChainsOf, Chains
<1>2. [k \in 1 .. Height[lms] |-> key.T[Sibling((Pow2[Height[lms]] + q) \div Pow2[k - 1])]]
        = PathOf(name, lms, ots, q)
  BY DEF PathOf
<1> QED  BY <1>1, <1>2 DEF LmsSignWith, SigOf, SigFrom, OtsFrom

\* A new key has these parts, and those of its public key.
LEMMA KeyIs ==
  ASSUME NEW name, NEW lms, NEW ots
  PROVE  LET key == NewKey(name, name, lms, ots)
         IN  /\ key.seed = name /\ key.I = name /\ key.lms = lms /\ key.ots = ots /\ key.q = 0
             /\ key.T = LmsTree(name, name, lms, ots)
             /\ key.public_key = PublicOf(name, lms, ots)
             /\ \A q : LET k == [key EXCEPT !.q = q]
                       IN  /\ k.seed = name /\ k.I = name /\ k.lms = lms /\ k.ots = ots /\ k.q = q
                           /\ k.T = LmsTree(name, name, lms, ots)
                           /\ k.public_key = PublicOf(name, lms, ots)
BY DEF NewKey, PublicOf

\* The path of a signature is the only one of its length with those siblings.
LEMMA PathsAre ==
  ASSUME NEW name, NEW lms \in DOMAIN Height, NEW ots, NEW q, NEW path, DOMAIN path = 1 .. Height[lms],
         path = [k \in DOMAIN path |-> path[k]]
  PROVE  HoldsSiblings(path, Height[lms], LmsTree(name, name, lms, ots), Pow2[Height[lms]] + q)
           <=> path = PathOf(name, lms, ots, q)
<1> DEFINE h == Height[lms]
           at(k) == LmsTree(name, name, lms, ots)[Sibling((Pow2[h] + q) \div Pow2[k - 1])]
<1>1. PathOf(name, lms, ots, q) = [k \in 1 .. h |-> at(k)]
  BY DEF PathOf
<1>2. HoldsSiblings(path, h, LmsTree(name, name, lms, ots), Pow2[h] + q) <=> \A k \in 1 .. h : path[k] = at(k)
  BY DEF HoldsSiblings
<1> HIDE DEF at
<1> QED  BY <1>1, <1>2

\* What verifies, by the parts of a signature.
LEMMA PartsVerify ==
  ASSUME NEW name, NEW lms \in DOMAIN Height, NEW ots, NEW message,
         NEW q \in Nat, NEW type, NEW C, NEW y, NEW path,
         \E len \in Nat : DOMAIN path = 1 .. len /\ Len(path) = len
  PROVE  LmsVerify(PublicOf(name, lms, ots), message, SigFrom(q, type, C, y, lms, path))
           <=> /\ type = ots /\ Len(path) = Height[lms] /\ q < Pow2[Height[lms]]
               /\ OtsPubkeyFromSig(message, OtsFrom(type, C, y), name, q)
                    = OtsPublic(OtsPrivate(name, name, q, ots), name, q, ots)
               /\ HoldsSiblings(path, Height[lms], LmsTree(name, name, lms, ots), Pow2[Height[lms]] + q)
<1> DEFINE sig == SigFrom(q, type, C, y, lms, path)
           o == OtsFrom(type, C, y)
           h == Height[lms]
<1>1. sig.q = q /\ sig.ots = o /\ o.type = type /\ sig.lms = lms /\ sig.path = path
  BY DEF SigFrom, OtsFrom
<1> HIDE DEF sig, o
<1>2. sig.q \in Nat /\ \E len \in Nat : DOMAIN sig.path = 1 .. len /\ Len(sig.path) = len
  BY <1>1
<1>3. LmsVerify(LmsPublicKey(lms, ots, name, LmsTree(name, name, lms, ots)[1]), message, sig)
        <=> /\ sig.lms = lms /\ sig.ots.type = ots
            /\ Len(sig.path) = h /\ sig.q < Pow2[h]
            /\ OtsPubkeyFromSig(message, sig.ots, name, sig.q)
                 = OtsPublic(OtsPrivate(name, name, sig.q, ots), name, sig.q, ots)
            /\ HoldsSiblings(sig.path, h, LmsTree(name, name, lms, ots), Pow2[h] + sig.q)
  BY <1>2, VerifyIs
<1> QED  BY <1>1, <1>3 DEF PublicOf, sig, o

\* The chains of a signature whose first one was hashed once more.
OnceMore(name, ots, q, text) ==
  [ChainsOf(name, ots, q, text) EXCEPT ![0] = Chain(@, <<name, q, 0>>, 0, 1)]

\* The parts of an altered signature.
NextQ(c) == (c.q + 1) % Pow2[Height[c.lms]]

AlteredParts(c) ==
  LET y    == ChainsOf(1, c.ots, c.q, c.text)
      path == PathOf(1, c.lms, c.ots, c.q)
  IN  CASE c.how = "none"       -> SigFrom(c.q, c.ots, 1, y, c.lms, path)
        [] c.how = "index"      -> SigFrom(NextQ(c), c.ots, 1, y, c.lms, path)
        [] c.how = "path"       -> SigFrom(c.q, c.ots, 1, y, c.lms, PathOf(1, c.lms, c.ots, NextQ(c)))
        [] c.how = "short"      -> SigFrom(c.q, c.ots, 1, y, c.lms, Front(path))
        [] c.how = "randomizer" -> SigFrom(c.q, c.ots, 2, y, c.lms, path)
        [] c.how = "type"       -> SigFrom(c.q, IF c.ots = 4 THEN 3 ELSE 4, 1, y, c.lms, path)
        [] c.how = "advanced"   ->
             SigFrom(c.q, c.ots, 1, OnceMore(1, c.ots, c.q, c.text), c.lms, path)

\* What Altered makes of a signature has those parts.
LEMMA AlteredIs ==
  ASSUME NEW c, c.how \in Alterations
  PROVE  Altered(LmsKey(c, 1), c, SigOf(1, c.lms, c.ots, c.q, c.text)) = AlteredParts(c)
<1> DEFINE y == ChainsOf(1, c.ots, c.q, c.text)
           path == PathOf(1, c.lms, c.ots, c.q)
           sig == SigOf(1, c.lms, c.ots, c.q, c.text)
           key == LmsKey(c, 1)
<1>1. sig = [q |-> c.q, ots |-> [type |-> c.ots, C |-> 1, y |-> y], lms |-> c.lms, path |-> path]
  BY DEF SigOf, SigFrom, OtsFrom
<1>2. key.I = 1 /\ \A r, text : LmsSignWith(key, r, text, 1).path = PathOf(1, c.lms, c.ots, r)
  <2>1. /\ key.seed = 1 /\ key.I = 1 /\ key.lms = c.lms /\ key.ots = c.ots
        /\ key.T = LmsTree(1, 1, c.lms, c.ots)
    BY KeyIs DEF LmsKey
  <2> HIDE DEF key
  <2>2. \A r, text : LmsSignWith(key, r, text, 1) = SigOf(1, c.lms, c.ots, r, text)
    BY <2>1, SignedIs
  <2> QED  BY <2>1, <2>2 DEF SigOf, SigFrom
<1> HIDE DEF y, path, sig, key
<1>3. CASE c.how = "none"
  <2>1. Altered(key, c, sig) = sig
    BY <1>3 DEF Altered
  <2>2. AlteredParts(c) = SigFrom(c.q, c.ots, 1, y, c.lms, path)
    BY <1>3 DEF AlteredParts, y, path
  <2>3. sig = SigFrom(c.q, c.ots, 1, y, c.lms, path)
    BY <1>1 DEF SigFrom, OtsFrom
  <2> QED  BY <2>1, <2>2, <2>3 DEF sig, key
<1>4. CASE c.how = "index"
  <2>1. Altered(key, c, sig) = [sig EXCEPT !.q = NextQ(c)]
    BY <1>4 DEF Altered, NextQ
  <2>2. AlteredParts(c) = SigFrom(NextQ(c), c.ots, 1, y, c.lms, path)
    BY <1>4 DEF AlteredParts, y, path
  <2>3. [sig EXCEPT !.q = NextQ(c)] = SigFrom(NextQ(c), c.ots, 1, y, c.lms, path)
    BY <1>1 DEF SigFrom, OtsFrom
  <2> QED  BY <2>1, <2>2, <2>3 DEF sig, key
<1>5. CASE c.how = "path"
  <2>1. Altered(key, c, sig) = [sig EXCEPT !.path = LmsSignWith(key, NextQ(c), c.text, 1).path]
    BY <1>5 DEF Altered, NextQ
  <2>2. AlteredParts(c) = SigFrom(c.q, c.ots, 1, y, c.lms, PathOf(1, c.lms, c.ots, NextQ(c)))
    BY <1>5 DEF AlteredParts, y, path
  <2>3. [sig EXCEPT !.path = LmsSignWith(key, NextQ(c), c.text, 1).path]
          = SigFrom(c.q, c.ots, 1, y, c.lms, PathOf(1, c.lms, c.ots, NextQ(c)))
    BY <1>1, <1>2 DEF SigFrom, OtsFrom
  <2> QED  BY <2>1, <2>2, <2>3 DEF sig, key
<1>6. CASE c.how = "short"
  <2>1. Altered(key, c, sig) = [sig EXCEPT !.path = Front(@)]
    BY <1>6 DEF Altered
  <2>2. AlteredParts(c) = SigFrom(c.q, c.ots, 1, y, c.lms, Front(path))
    BY <1>6 DEF AlteredParts, y, path
  <2>3. [sig EXCEPT !.path = Front(@)] = SigFrom(c.q, c.ots, 1, y, c.lms, Front(path))
    BY <1>1 DEF SigFrom, OtsFrom
  <2> QED  BY <2>1, <2>2, <2>3 DEF sig, key
<1>7. CASE c.how = "randomizer"
  <2>1. Altered(key, c, sig) = [sig EXCEPT !.ots.C = 2]
    BY <1>7 DEF Altered
  <2>2. AlteredParts(c) = SigFrom(c.q, c.ots, 2, y, c.lms, path)
    BY <1>7 DEF AlteredParts, y, path
  <2>3. [sig EXCEPT !.ots.C = 2] = SigFrom(c.q, c.ots, 2, y, c.lms, path)
    BY <1>1 DEF SigFrom, OtsFrom
  <2> QED  BY <2>1, <2>2, <2>3 DEF sig, key
<1>8. CASE c.how = "type"
  <2>1. Altered(key, c, sig) = [sig EXCEPT !.ots.type = IF @ = 4 THEN 3 ELSE 4]
    BY <1>8 DEF Altered
  <2>2. AlteredParts(c) = SigFrom(c.q, IF c.ots = 4 THEN 3 ELSE 4, 1, y, c.lms, path)
    BY <1>8 DEF AlteredParts, y, path
  <2>3. [sig EXCEPT !.ots.type = IF @ = 4 THEN 3 ELSE 4]
          = SigFrom(c.q, IF c.ots = 4 THEN 3 ELSE 4, 1, y, c.lms, path)
    BY <1>1 DEF SigFrom, OtsFrom
  <2> QED  BY <2>1, <2>2, <2>3 DEF sig, key
<1>9. CASE c.how = "advanced"
  <2>1. Altered(key, c, sig) = [sig EXCEPT !.ots.y[0] = Chain(@, <<key.I, c.q, 0>>, 0, 1)]
    BY <1>9 DEF Altered
  <2>2. AlteredParts(c) = SigFrom(c.q, c.ots, 1, [y EXCEPT ![0] = Chain(@, <<1, c.q, 0>>, 0, 1)], c.lms, path)
    BY <1>9 DEF AlteredParts, OnceMore, y, path
  <2>3. [sig EXCEPT !.ots.y[0] = Chain(@, <<key.I, c.q, 0>>, 0, 1)]
          = SigFrom(c.q, c.ots, 1, [y EXCEPT ![0] = Chain(@, <<1, c.q, 0>>, 0, 1)], c.lms, path)
    BY <1>1, <1>2 DEF SigFrom, OtsFrom
  <2> QED  BY <2>1, <2>2, <2>3 DEF sig, key
<1> QED  BY <1>3, <1>4, <1>5, <1>6, <1>7, <1>8, <1>9 DEF Alterations

IsLmsCase(c) ==
  /\ c.lms \in DOMAIN Height /\ c.ots \in OtsTypes /\ c.q \in 0 .. Pow2[Height[c.lms]] - 1
  /\ c.text \in Texts /\ c.got \in Texts /\ c.other \in BOOLEAN /\ c.how \in Alterations

\* Where the chains of a signature start, also of one hashed once more, which
\* is not the same.
StartsAt(y, ots, s) == DOMAIN y = Chains(ots) /\ From(y[0], s)

\* Both start at the key's first chain, and both are what OtsVerifies and
\* OtsAdvances are about.
LEMMA ChainsStart ==
  ASSUME NEW name, NEW ots \in DOMAIN Lmots, NEW q, NEW text
  PROVE  /\ StartsAt(ChainsOf(name, ots, q, text), ots, <<name, name, q, 0>>)
         /\ StartsAt(OnceMore(name, ots, q, text), ots, <<name, name, q, 0>>)
         /\ OnceMore(name, ots, q, text) # ChainsOf(name, ots, q, text)
         /\ \A C : Digest(name, q, 1, text) \in [1 .. N -> 0 .. 255] =>
              /\ Signs(OtsFrom(ots, C, ChainsOf(name, ots, q, text)), name, name, q, ots,
                       Digest(name, q, 1, text))
              /\ SignsAdvanced(OtsFrom(ots, C, OnceMore(name, ots, q, text)), name, name, q, ots,
                               Digest(name, q, 1, text))
<1> DEFINE d == Digits(Digest(name, q, 1, text), ots)
           s == <<name, name, q, 0>>
           t == <<name, q, 0>>
           y == ChainsOf(name, ots, q, text)
           z == [y EXCEPT ![0] = Chain(@, t, 0, 1)]
           D == Chains(ots)
<1>1. /\ y = [i \in D |-> Chain(Start(name, name, q, i), <<name, q, i>>, 0, d[i])]
      /\ 0 \in D
  BY ChainsAre DEF ChainsOf
<1> HIDE DEF d
<1>2. /\ DOMAIN y = D
      /\ \A i \in D : y[i] = Chain(Start(name, name, q, i), <<name, q, i>>, 0, d[i])
  BY <1>1
<1>3. /\ From(Chain(Start(name, name, q, 0), t, 0, d[0]), s)
      /\ From(Chain(Chain(Start(name, name, q, 0), t, 0, d[0]), t, 0, 1), s)
  BY StartFrom, ChainFrom
<1>4. y[0] = Chain(Start(name, name, q, 0), t, 0, d[0])
  BY <1>1, <1>2
<1> HIDE DEF y, D
<1>5. DOMAIN z = D /\ z[0] = Chain(y[0], t, 0, 1) /\ \A i \in D : i # 0 => z[i] = y[i]
  BY <1>1, <1>2
<1>6. z # y
  <2>1. Chain(y[0], t, 0, 1) # y[0]
    BY <1>4, ChainKeeps
  <2> HIDE DEF z
  <2> QED  BY <1>5, <2>1
<1> HIDE DEF z
<1>7. From(y[0], s) /\ From(z[0], s)
  BY <1>3, <1>4, <1>5
<1>8. z[0] = Chain(Chain(Start(name, name, q, 0), t, 0, d[0]), t, 0, 1)
  BY <1>4, <1>5
<1>9. OnceMore(name, ots, q, text) = z
  BY DEF OnceMore, z, y
<1>10. StartsAt(y, ots, s) /\ StartsAt(z, ots, s) /\ z # y
  BY <1>2, <1>5, <1>6, <1>7 DEF StartsAt, D
<1>11. ASSUME NEW C, Digest(name, q, 1, text) \in [1 .. N -> 0 .. 255]
       PROVE  /\ Signs(OtsFrom(ots, C, y), name, name, q, ots, Digest(name, q, 1, text))
              /\ SignsAdvanced(OtsFrom(ots, C, z), name, name, q, ots, Digest(name, q, 1, text))
  <2>1. \A v : OtsFrom(ots, C, v).type = ots /\ OtsFrom(ots, C, v).y = v
    BY DEF OtsFrom
  <2> HIDE DEF s, t
  <2>2. Signs(OtsFrom(ots, C, y), name, name, q, ots, Digest(name, q, 1, text))
    BY <1>2, <1>11, <2>1 DEF Signs, D, d
  <2>3. \A i \in D : i # 0 => z[i] = Chain(Start(name, name, q, i), <<name, q, i>>, 0, d[i])
    BY <1>2, <1>5
  <2>4. SignsAdvanced(OtsFrom(ots, C, z), name, name, q, ots, Digest(name, q, 1, text))
    BY <1>5, <1>8, <1>11, <2>1, <2>3 DEF SignsAdvanced, D, d, t
  <2> QED  BY <2>2, <2>4
<1> QED  BY <1>9, <1>10, <1>11 DEF y

\* The paths of signatures, and one that lacks its end.
LEMMA PathShape ==
  ASSUME NEW name, NEW lms \in DOMAIN Height, NEW ots, NEW q
  PROVE  LET h == Height[lms]
             path == PathOf(name, lms, ots, q)
         IN  /\ h \in Nat \ {0}
             /\ DOMAIN path = 1 .. h /\ Len(path) = h /\ path = [k \in DOMAIN path |-> path[k]]
             /\ DOMAIN Front(path) = 1 .. h - 1 /\ Len(Front(path)) = h - 1
             /\ h - 1 \in Nat /\ h - 1 # h
<1> DEFINE h == Height[lms]
           path == PathOf(name, lms, ots, q)
<1>1. h \in Nat \ {0}
  BY HeightAssumption
<1>2. DOMAIN path = 1 .. h /\ path = [k \in DOMAIN path |-> path[k]]
  BY DEF PathOf
<1> HIDE DEF h, path
<1>3. h - 1 \in Nat /\ h - 1 # h
  BY <1>1
<1>4. Len(path) = h
  BY <1>1, <1>2
<1>5. Front(path) = [k \in 1 .. h - 1 |-> path[k]]
  BY <1>1, <1>4 DEF Front, SubSeq
<1>6. DOMAIN Front(path) = 1 .. h - 1 /\ Len(Front(path)) = h - 1
  BY <1>3, <1>5
<1> QED  BY <1>1, <1>2, <1>3, <1>4, <1>6 DEF h, path

\* The hashes that keys 1 to 3 sign at an index of theirs.
Tells(I, q) ==
  /\ \A C \in 1 .. 2, m \in Messages : Digest(I, q, C, m) \in [1 .. N -> 0 .. 255]
  /\ \A C \in 1 .. 2, D \in 1 .. 2, m \in Messages, n \in Messages :
       Digest(I, q, C, m) = Digest(I, q, D, n) => C = D /\ m = n

\* DigestAssumption says so of every index of every tree.
LEMMA DigestTells ==
  ASSUME NEW I \in 1 .. 3, NEW lms \in DOMAIN Height, NEW q \in 0 .. Pow2[Height[lms]] - 1
  PROVE  Tells(I, q)
<1>1. \A C \in 1 .. 2, D \in 1 .. 2, m \in Messages, n \in Messages :
        /\ Digest(I, q, C, m) \in [1 .. N -> 0 .. 255]
        /\ Digest(I, q, C, m) = Digest(I, q, D, n) => C = D /\ m = n
  <2>1. \A r \in 0 .. Pow2[Height[lms]] - 1 : \A C, D \in 1 .. 2, m, n \in Messages :
          /\ Digest(I, r, C, m) \in [1 .. N -> 0 .. 255]
          /\ Digest(I, r, C, m) = Digest(I, r, D, n) => C = D /\ m = n
    BY DigestAssumption, ZenonT(60)
  <2> QED  BY <2>1
<1>2. 1 \in 1 .. 2
  OBVIOUS
<1> QED  BY <1>1, <1>2 DEF Tells

\* A key verifies its own signature for the message that was signed and for no
\* other, with a path that is the leaf's and no other.
LEMMA PathVerifies ==
  ASSUME NEW name \in 1 .. 3, NEW lms \in DOMAIN Height, NEW ots \in DOMAIN Lmots,
         NEW q \in 0 .. Pow2[Height[lms]] - 1, NEW text \in Messages, NEW got \in Messages,
         NEW r
  PROVE  LmsVerify(PublicOf(name, lms, ots), got,
                   SigFrom(q, ots, 1, ChainsOf(name, ots, q, text), lms, PathOf(name, lms, ots, r)))
           <=> got = text /\ PathOf(name, lms, ots, r) = PathOf(name, lms, ots, q)
<1> DEFINE h == Height[lms]
           y == ChainsOf(name, ots, q, text)
           path == PathOf(name, lms, ots, r)
           o == OtsFrom(ots, 1, y)
           Q == Digest(name, q, 1, text)
           R == Digest(name, q, 1, got)
<1>1. /\ h \in Nat \ {0} /\ DOMAIN path = 1 .. h /\ Len(path) = h
      /\ path = [k \in DOMAIN path |-> path[k]]
  BY PathShape
<1>2. q \in Nat /\ q < Pow2[h]
  BY <1>1, Pow2Is
<1>3. Q \in [1 .. N -> 0 .. 255] /\ R \in [1 .. N -> 0 .. 255] /\ (Q = R <=> got = text)
  <2>1. 1 \in 1 .. 2
    OBVIOUS
  <2>2. Tells(name, q)
    BY DigestTells
  <2> QED  BY <2>1, <2>2 DEF Tells
<1>4. OtsPubkeyFromSig(got, o, name, q) = OtsPublic(OtsPrivate(name, name, q, ots), name, q, ots)
        <=> Q = R
  <2>1. Signs(o, name, name, q, ots, Q) /\ R = Digest(name, q, o.C, got)
    <3>1. Signs(o, name, name, q, ots, Q)
      BY <1>3, ChainsStart
    <3> QED  BY <3>1 DEF OtsFrom
  <2> HIDE DEF o, Q, R
  <2>2. Digest(name, q, o.C, got) \in [1 .. N -> 0 .. 255]
    BY <1>3, <2>1
  <2>3. GivesKey(got, o, name, name, q, ots) <=> Q = Digest(name, q, o.C, got)
    <3> HIDE DEF h, y, path
    <3>1. CASE Q = Digest(name, q, o.C, got)
      BY <2>1, <2>2, <3>1, OtsVerifies
    <3>2. CASE Q # Digest(name, q, o.C, got)
      BY <2>1, <2>2, <3>2, OtsRejects
    <3> QED  BY <3>1, <3>2
  <2> QED  BY <2>1, <2>3 DEF GivesKey
<1>5. HoldsSiblings(path, h, LmsTree(name, name, lms, ots), Pow2[h] + q)
        <=> path = PathOf(name, lms, ots, q)
  BY <1>1, PathsAre
<1>6. LmsVerify(PublicOf(name, lms, ots), got, SigFrom(q, ots, 1, y, lms, path))
        <=> /\ ots = ots /\ Len(path) = h /\ q < Pow2[h]
            /\ OtsPubkeyFromSig(got, o, name, q) = OtsPublic(OtsPrivate(name, name, q, ots), name, q, ots)
            /\ HoldsSiblings(path, h, LmsTree(name, name, lms, ots), Pow2[h] + q)
  <2>1. \E len \in Nat : DOMAIN path = 1 .. len /\ Len(path) = len
    BY <1>1
  <2> HIDE DEF path, y
  <2> QED  BY <1>2, <2>1, PartsVerify
<1> HIDE DEF h, y, path, o, Q, R
<1>7. LmsVerify(PublicOf(name, lms, ots), got, SigFrom(q, ots, 1, y, lms, path))
        <=> got = text /\ path = PathOf(name, lms, ots, q)
  BY <1>1, <1>2, <1>3, <1>4, <1>5, <1>6
<1> QED  BY <1>7 DEF y, path

\* A key verifies its own signature for what it signed and for nothing else.
LEMMA OwnVerifies ==
  ASSUME NEW name \in 1 .. 3, NEW lms \in DOMAIN Height, NEW ots \in DOMAIN Lmots,
         NEW q \in 0 .. Pow2[Height[lms]] - 1, NEW text \in Messages, NEW got \in Messages
  PROVE  LmsVerify(PublicOf(name, lms, ots), got, SigOf(name, lms, ots, q, text)) <=> got = text
BY PathVerifies DEF SigOf

\* No key verifies a signature whose chains start elsewhere than its own at
\* that index.
LEMMA NeverElsewhere ==
  ASSUME NEW name, NEW lms \in DOMAIN Height, NEW ots \in DOMAIN Lmots, NEW message,
         NEW q \in Nat, NEW type, NEW C, NEW y,
         NEW s, StartsAt(y, ots, s), s # <<name, name, q, 0>>,
         NEW path, \E len \in Nat : DOMAIN path = 1 .. len /\ Len(path) = len
  PROVE  ~LmsVerify(PublicOf(name, lms, ots), message, SigFrom(q, type, C, y, lms, path))
<1> DEFINE o == OtsFrom(type, C, y)
<1> SUFFICES ASSUME LmsVerify(PublicOf(name, lms, ots), message, SigFrom(q, type, C, y, lms, path))
             PROVE  FALSE
  OBVIOUS
<1>1. /\ type = ots
      /\ OtsPubkeyFromSig(message, o, name, q) = OtsPublic(OtsPrivate(name, name, q, ots), name, q, ots)
  BY PartsVerify
<1>2. o.type = ots /\ DOMAIN o.y = Chains(ots) /\ From(o.y[0], s)
  BY <1>1 DEF OtsFrom, StartsAt
<1> HIDE DEF o
<1> QED  BY <1>1, <1>2, OtsElsewhere

\* The key of the case verifies the altered signature only if it is the one
\* that was made, and only for its message.
LEMMA AlteredVerifies ==
  ASSUME NEW c, IsLmsCase(c)
  PROVE  LmsVerify(PublicOf(1, c.lms, c.ots), c.got, AlteredParts(c))
           <=> c.got = c.text /\ AlteredParts(c) = SigOf(1, c.lms, c.ots, c.q, c.text)
<1> DEFINE lms == c.lms
           ots == c.ots
           q == c.q
           text == c.text
           got == c.got
           h == Height[lms]
           next == NextQ(c)
           y == ChainsOf(1, ots, q, text)
           path == PathOf(1, lms, ots, q)
           public == PublicOf(1, lms, ots)
           sig == SigOf(1, lms, ots, q, text)
           Q == Digest(1, q, 1, text)
<1>1. /\ lms \in DOMAIN Height /\ ots \in DOMAIN Lmots /\ q \in 0 .. Pow2[h] - 1
      /\ text \in Messages /\ got \in Messages /\ 1 \in 1 .. 3
  BY TypesAssumption DEF IsLmsCase, Messages
<1>2. /\ h \in Nat \ {0} /\ DOMAIN path = 1 .. h /\ Len(path) = h
      /\ DOMAIN Front(path) = 1 .. h - 1 /\ Len(Front(path)) = h - 1 /\ h - 1 \in Nat /\ h - 1 # h
  BY <1>1, PathShape
<1>3. q \in Nat /\ next \in Nat /\ next # q
  <2>1. Pow2[h] \in Nat \ {0, 1}
    <3>1. h - 1 \in Nat /\ (h - 1) + 1 = h
      BY <1>2
    <3>2. Pow2[h - 1] \in Nat \ {0} /\ Pow2[h] = 2 * Pow2[h - 1]
      BY <3>1, Pow2Is
    <3> QED  BY <3>2
  <2> DEFINE p == Pow2[h]
  <2>2. \A n \in Nat \ {0, 1} : \A x \in 0 .. n - 1 :
          x \in Nat /\ (x + 1) % n \in Nat /\ (x + 1) % n # x
    <3> SUFFICES ASSUME NEW n \in Nat \ {0, 1}, NEW x \in 0 .. n - 1
                 PROVE  x \in Nat /\ (x + 1) % n \in Nat /\ (x + 1) % n # x
      OBVIOUS
    <3>1. CASE x + 1 < n
      BY <3>1
    <3>2. CASE x + 1 = n
      BY <3>2
    <3> QED  BY <3>1, <3>2
  <2>3. q \in Nat /\ (q + 1) % p \in Nat /\ (q + 1) % p # q
    <3> HIDE DEF p, q
    <3>1. p \in Nat \ {0, 1} /\ q \in 0 .. p - 1
      BY <1>1, <2>1 DEF p
    <3> QED  BY <2>2, <3>1
  <2> QED  BY <2>3 DEF NextQ
<1>4. StartsAt(y, ots, <<1, 1, q, 0>>)
  BY <1>1, ChainsStart
<1>5. sig = SigFrom(q, ots, 1, y, lms, path)
  BY DEF SigOf
<1>6. \E len \in Nat : DOMAIN path = 1 .. len /\ Len(path) = len
  BY <1>2
<1>7. /\ Q \in [1 .. N -> 0 .. 255]
      /\ \A C \in 1 .. 2 : Digest(1, q, C, got) \in [1 .. N -> 0 .. 255]
      /\ Digest(1, q, 2, got) # Q
  <2>1. 1 \in 1 .. 2 /\ 2 \in 1 .. 2 /\ 1 # 2
    OBVIOUS
  <2>2. Tells(1, q)
    BY <1>1, DigestTells
  <2> HIDE DEF got, text, q
  <2> QED  BY <1>1, <2>1, <2>2 DEF Tells, Q
<1> HIDE DEF lms, ots, q, text, got, h, y, path, public, sig, Q, next
<1> SUFFICES LmsVerify(public, got, AlteredParts(c)) <=> got = text /\ AlteredParts(c) = sig
  BY DEF public, got, text, sig, lms, ots, q
<1>8. CASE c.how = "none"
  <2>1. AlteredParts(c) = SigFrom(q, ots, 1, y, lms, path)
    BY <1>8 DEF AlteredParts, q, ots, y, lms, path, text
  <2>2. LmsVerify(public, got, SigOf(1, lms, ots, q, text)) <=> got = text
    BY <1>1, OwnVerifies DEF public, h
  <2> QED  BY <1>5, <2>1, <2>2 DEF sig
<1>9. CASE c.how = "index"
  <2>1. AlteredParts(c) = SigFrom(next, ots, 1, y, lms, path)
    BY <1>9 DEF AlteredParts, q, ots, y, lms, path, text, next
  <2>2. ~LmsVerify(public, got, SigFrom(next, ots, 1, y, lms, path))
    <3>1. <<1, 1, q, 0>> # <<1, 1, next, 0>>
      BY <1>3
    <3> QED  BY <1>1, <1>3, <1>4, <1>6, <3>1, NeverElsewhere DEF public
  <2>3. SigFrom(next, ots, 1, y, lms, path) # sig
    BY <1>3, <1>5, SameParts
  <2> QED  BY <2>1, <2>2, <2>3
<1>10. CASE c.how = "path"
  <2> DEFINE other == PathOf(1, lms, ots, next)
  <2>1. AlteredParts(c) = SigFrom(q, ots, 1, y, lms, other)
    BY <1>10 DEF AlteredParts, q, ots, y, lms, text, next
  <2>2. LmsVerify(public, got, SigFrom(q, ots, 1, y, lms, other)) <=> got = text /\ other = path
    BY <1>1, PathVerifies DEF public, y, path, h
  <2>3. SigFrom(q, ots, 1, y, lms, other) = sig <=> other = path
    BY <1>5, SameParts
  <2> QED  BY <2>1, <2>2, <2>3
<1>11. CASE c.how = "short"
  <2>1. AlteredParts(c) = SigFrom(q, ots, 1, y, lms, Front(path))
    BY <1>11 DEF AlteredParts, q, ots, y, lms, path, text
  <2>2. ~LmsVerify(public, got, SigFrom(q, ots, 1, y, lms, Front(path)))
    <3>1. \E len \in Nat : DOMAIN Front(path) = 1 .. len /\ Len(Front(path)) = len
      BY <1>2
    <3> DEFINE f == Front(path)
    <3>2. Len(f) # Height[lms]
      BY <1>2 DEF h
    <3> HIDE DEF f
    <3>3. ~LmsVerify(PublicOf(1, lms, ots), got, SigFrom(q, ots, 1, y, lms, f))
      BY <1>1, <1>3, <3>1, <3>2, PartsVerify DEF f
    <3> QED  BY <3>3 DEF public, f
  <2>3. SigFrom(q, ots, 1, y, lms, Front(path)) # sig
    <3>1. Front(path) # path
      BY <1>2
    <3> QED  BY <1>5, <3>1, SameParts
  <2> QED  BY <2>1, <2>2, <2>3
<1>12. CASE c.how = "randomizer"
  <2>1. AlteredParts(c) = SigFrom(q, ots, 2, y, lms, path)
    BY <1>12 DEF AlteredParts, q, ots, y, lms, path, text
  <2>2. ~LmsVerify(public, got, SigFrom(q, ots, 2, y, lms, path))
    <3> DEFINE o == OtsFrom(ots, 2, y)
    <3>1. Signs(o, 1, 1, q, ots, Q) /\ o.C = 2
      <4>1. Signs(o, 1, 1, q, ots, Q)
        BY <1>1, <1>7, ChainsStart DEF y, Q
      <4> QED  BY <4>1 DEF OtsFrom
    <3>2. Digest(1, q, o.C, got) # Q /\ Digest(1, q, o.C, got) \in [1 .. N -> 0 .. 255]
      <4>1. 2 \in 1 .. 2
        OBVIOUS
      <4> HIDE DEF o
      <4> QED  BY <1>7, <3>1, <4>1
    <3>3. OtsPubkeyFromSig(got, o, 1, q) # OtsPublic(OtsPrivate(1, 1, q, ots), 1, q, ots)
      <4> HIDE DEF o
      <4>1. ~GivesKey(got, o, 1, 1, q, ots)
        BY <1>1, <3>1, <3>2, OtsRejects
      <4> QED  BY <4>1 DEF GivesKey
    <3> QED  BY <1>1, <1>3, <1>6, <3>3, PartsVerify DEF public
  <2>3. SigFrom(q, ots, 2, y, lms, path) # sig
    <3>1. 1 # 2
      OBVIOUS
    <3> QED  BY <1>5, <3>1, SameParts
  <2> QED  BY <2>1, <2>2, <2>3
<1>13. CASE c.how = "type"
  <2> DEFINE type == IF ots = 4 THEN 3 ELSE 4
  <2>1. AlteredParts(c) = SigFrom(q, type, 1, y, lms, path)
    BY <1>13 DEF AlteredParts, q, ots, y, lms, path, text
  <2>2. type # ots
    OBVIOUS
  <2> HIDE DEF type
  <2>3. ~LmsVerify(public, got, SigFrom(q, type, 1, y, lms, path))
    BY <1>1, <1>3, <1>6, <2>2, PartsVerify DEF public
  <2>4. SigFrom(q, type, 1, y, lms, path) # sig
    BY <1>5, <2>2, SameParts
  <2> QED  BY <2>1, <2>3, <2>4
<1>14. CASE c.how = "advanced"
  <2> DEFINE z == OnceMore(1, ots, q, text)
  <2>1. AlteredParts(c) = SigFrom(q, ots, 1, z, lms, path)
    BY <1>14 DEF AlteredParts, q, ots, lms, path, text
  <2>2. z # y /\ SignsAdvanced(OtsFrom(ots, 1, z), 1, 1, q, ots, Q)
    BY <1>1, <1>7, ChainsStart DEF y, Q
  <2> HIDE DEF z
  <2>3. ~LmsVerify(public, got, SigFrom(q, ots, 1, z, lms, path))
    <3> DEFINE o == OtsFrom(ots, 1, z)
    <3>1. o.C = 1 /\ 1 \in 1 .. 2
      BY DEF OtsFrom
    <3>2. Digest(1, q, o.C, got) \in [1 .. N -> 0 .. 255]
      BY <1>7, <3>1
    <3>3. OtsPubkeyFromSig(got, o, 1, q) # OtsPublic(OtsPrivate(1, 1, q, ots), 1, q, ots)
      <4> HIDE DEF o
      <4> QED  BY <1>1, <2>2, <3>2, OtsAdvances DEF o
    <3> QED  BY <1>1, <1>3, <1>6, <3>3, PartsVerify DEF public
  <2>4. SigFrom(q, ots, 1, z, lms, path) # sig
    BY <1>5, <2>2, SameParts
  <2> QED  BY <2>1, <2>3, <2>4
<1>15. c.how \in Alterations
  BY DEF IsLmsCase
<1> QED  BY <1>8, <1>9, <1>10, <1>11, <1>12, <1>13, <1>14, <1>15 DEF Alterations

\* Whatever is altered, the chains start where they did.
LEMMA AlteredShape ==
  ASSUME NEW c, IsLmsCase(c)
  PROVE  \E q, type, C, y, path :
           /\ q \in Nat
           /\ AlteredParts(c) = SigFrom(q, type, C, y, c.lms, path)
           /\ StartsAt(y, c.ots, <<1, 1, c.q, 0>>)
           /\ \E len \in Nat : DOMAIN path = 1 .. len /\ Len(path) = len
<1> DEFINE y == ChainsOf(1, c.ots, c.q, c.text)
           z == OnceMore(1, c.ots, c.q, c.text)
           path(q) == PathOf(1, c.lms, c.ots, q)
           IsPath(p) == \E len \in Nat : DOMAIN p = 1 .. len /\ Len(p) = len
           Fits(q, type, C, v, p) ==
             /\ AlteredParts(c) = SigFrom(q, type, C, v, c.lms, p)
             /\ StartsAt(v, c.ots, <<1, 1, c.q, 0>>)
             /\ IsPath(p)
<1>1. c.lms \in DOMAIN Height /\ c.ots \in DOMAIN Lmots
  BY TypesAssumption DEF IsLmsCase
<1>2. /\ \A q : IsPath(path(q))
      /\ IsPath(Front(path(c.q)))
  BY <1>1, PathShape
<1>3. StartsAt(y, c.ots, <<1, 1, c.q, 0>>) /\ StartsAt(z, c.ots, <<1, 1, c.q, 0>>)
  BY <1>1, ChainsStart
<1>4. c.q \in Nat /\ NextQ(c) \in Nat
  <2>1. Height[c.lms] \in Nat
    BY <1>1, HeightAssumption
  <2>2. c.q \in 0 .. Pow2[Height[c.lms]] - 1 /\ Pow2[Height[c.lms]] \in Nat \ {0}
    BY <2>1, Pow2Is DEF IsLmsCase
  <2>3. \A n \in Nat \ {0} : \A x \in 0 .. n - 1 : x \in Nat /\ (x + 1) % n \in Nat
    OBVIOUS
  <2> QED  BY <2>2, <2>3 DEF NextQ
<1> HIDE DEF y, z, path, IsPath
<1>5. CASE c.how = "none"
  <2>1. AlteredParts(c) = SigFrom(c.q, c.ots, 1, y, c.lms, path(c.q))
    BY <1>5 DEF AlteredParts, y, path
  <2> QED  BY <1>2, <1>3, <1>4, <2>1 DEF IsPath
<1>6. CASE c.how = "index"
  <2>1. AlteredParts(c) = SigFrom(NextQ(c), c.ots, 1, y, c.lms, path(c.q))
    BY <1>6 DEF AlteredParts, y, path
  <2> QED  BY <1>2, <1>3, <1>4, <2>1 DEF IsPath
<1>7. CASE c.how = "path"
  <2>1. AlteredParts(c) = SigFrom(c.q, c.ots, 1, y, c.lms, path(NextQ(c)))
    BY <1>7 DEF AlteredParts, y, path
  <2> QED  BY <1>2, <1>3, <1>4, <2>1 DEF IsPath
<1>8. CASE c.how = "short"
  <2>1. AlteredParts(c) = SigFrom(c.q, c.ots, 1, y, c.lms, Front(path(c.q)))
    BY <1>8 DEF AlteredParts, y, path
  <2> QED  BY <1>2, <1>3, <1>4, <2>1 DEF IsPath
<1>9. CASE c.how = "randomizer"
  <2>1. AlteredParts(c) = SigFrom(c.q, c.ots, 2, y, c.lms, path(c.q))
    BY <1>9 DEF AlteredParts, y, path
  <2> QED  BY <1>2, <1>3, <1>4, <2>1 DEF IsPath
<1>10. CASE c.how = "type"
  <2>1. AlteredParts(c) = SigFrom(c.q, IF c.ots = 4 THEN 3 ELSE 4, 1, y, c.lms, path(c.q))
    BY <1>10 DEF AlteredParts, y, path
  <2> QED  BY <1>2, <1>3, <1>4, <2>1 DEF IsPath
<1>11. CASE c.how = "advanced"
  <2>1. AlteredParts(c) = SigFrom(c.q, c.ots, 1, z, c.lms, path(c.q))
    BY <1>11 DEF AlteredParts, z, path
  <2> QED  BY <1>2, <1>3, <1>4, <2>1 DEF IsPath
<1>12. c.how \in Alterations
  BY DEF IsLmsCase
<1> QED  BY <1>5, <1>6, <1>7, <1>8, <1>9, <1>10, <1>11, <1>12 DEF Alterations

\* What lms_verify says of what was altered, with the key or with another one.
LEMMA LmsCaseIs ==
  ASSUME NEW c, IsLmsCase(c)
  PROVE  LET key    == LmsKey(c, 1)
             sig    == SignNext(key, c.text, 1).sig
             got    == Altered(key, c, sig)
             public == IF c.other THEN LmsKey(c, 2).public_key ELSE key.public_key
         IN  LmsVerify(public, c.got, got) <=> ~c.other /\ c.got = c.text /\ got = sig
<1> DEFINE key == LmsKey(c, 1)
           sig == SigOf(1, c.lms, c.ots, c.q, c.text)
           got == AlteredParts(c)
<1>1. /\ key.public_key = PublicOf(1, c.lms, c.ots)
      /\ LmsKey(c, 2).public_key = PublicOf(2, c.lms, c.ots)
      /\ SignNext(key, c.text, 1).sig = sig
  <2>1. /\ key.seed = 1 /\ key.I = 1 /\ key.lms = c.lms /\ key.ots = c.ots /\ key.q = c.q
        /\ key.T = LmsTree(1, 1, c.lms, c.ots)
        /\ key.public_key = PublicOf(1, c.lms, c.ots)
        /\ LmsKey(c, 2).public_key = PublicOf(2, c.lms, c.ots)
    BY KeyIs DEF LmsKey
  <2> HIDE DEF key
  <2>2. LmsSignWith(key, c.q, c.text, 1) = sig
    BY <2>1, SignedIs
  <2>3. SignNext(key, c.text, 1).sig = LmsSignWith(key, key.q, c.text, 1)
    BY DEF SignNext
  <2> QED  BY <2>1, <2>2, <2>3
<1>2. Altered(key, c, sig) = got
  BY AlteredIs DEF IsLmsCase
<1>3. CASE c.other
  <2>1. PICK q, type, C, y, path :
          /\ q \in Nat
          /\ got = SigFrom(q, type, C, y, c.lms, path)
          /\ StartsAt(y, c.ots, <<1, 1, c.q, 0>>)
          /\ \E len \in Nat : DOMAIN path = 1 .. len /\ Len(path) = len
    BY AlteredShape
  <2>2. c.lms \in DOMAIN Height /\ c.ots \in DOMAIN Lmots
    BY TypesAssumption DEF IsLmsCase
  <2>3. <<1, 1, c.q, 0>> # <<2, 2, q, 0>>
    <3>1. 1 # 2
      OBVIOUS
    <3> QED  BY <3>1
  <2> HIDE DEF got
  <2>4. ~LmsVerify(PublicOf(2, c.lms, c.ots), c.got, SigFrom(q, type, C, y, c.lms, path))
    BY <2>1, <2>2, <2>3, NeverElsewhere
  <2> HIDE DEF key, sig
  <2> QED  BY <1>1, <1>2, <1>3, <2>1, <2>4 DEF key
<1>4. CASE ~c.other
  <2>1. LmsVerify(PublicOf(1, c.lms, c.ots), c.got, got) <=> c.got = c.text /\ got = sig
    BY AlteredVerifies
  <2> HIDE DEF key, sig, got
  <2> QED  BY <1>1, <1>2, <1>4, <2>1 DEF key
<1> QED  BY <1>3, <1>4

IsHssCase(c) == c.levels \in 1 .. 2 /\ c.claimed \in 1 .. 2 /\ c.swapped \in BOOLEAN /\ c.got \in Texts

\* The types that the keys of the hierarchy have, and what a key signs.
HssLms == Min(DOMAIN Height)
HssOts == Max(OtsTypes)
Public(k) == PublicOf(k, HssLms, HssOts)
Signed(k, m) == SigOf(k, HssLms, HssOts, 0, m)

\* The least height and the greatest one-time type are types.
LEMMA HssTypes == HssLms \in DOMAIN Height /\ HssOts \in DOMAIN Lmots
<1>1. HssLms \in DOMAIN Height
  <2> DEFINE S == DOMAIN Height
  <2>1. S \subseteq Nat /\ S # {}
    BY TypesAssumption
  <2> HIDE DEF S
  <2>2. PICK x \in S : \A y \in S : x =< y
    BY <2>1, LeastNumber
  <2>3. Min(S) \in S
    BY <2>2 DEF Min
  <2> QED  BY <2>3 DEF S, HssLms
<1>2. HssOts \in OtsTypes
  <2>1. OtsTypes \subseteq 1 .. 4 /\ OtsTypes # {}
    <3>1. DOMAIN Lmots = 1 .. 4
      BY DEF Lmots
    <3> QED  BY <3>1, TypesAssumption
  <2> DEFINE B == {n \in Nat : \A y \in OtsTypes : y =< n}
  <2>2. B \subseteq Nat /\ 4 \in B
    BY <2>1
  <2>3. PICK n \in B : \A m \in B : n =< m
    <3> HIDE DEF B
    <3> QED  BY <2>2, LeastNumber
  <2>4. n \in OtsTypes
    <3> SUFFICES ASSUME n \notin OtsTypes  PROVE FALSE
      OBVIOUS
    <3>1. n \in Nat /\ \A y \in OtsTypes : y \in 1 .. 4 /\ y =< n /\ y # n
      BY <2>1, <2>3
    <3>2. n # 0
      <4>1. PICK y \in OtsTypes : TRUE
        BY <2>1
      <4>2. y \in 1 .. 4 /\ y =< n
        BY <3>1
      <4> QED  BY <3>1, <4>2
    <3>3. n - 1 \in B
      <4>1. n - 1 \in Nat /\ \A y \in OtsTypes : y =< n - 1
        BY <3>1, <3>2
      <4> QED  BY <4>1
    <3>4. n =< n - 1
      <4> HIDE DEF B
      <4> QED  BY <2>3, <3>3
    <3> QED  BY <3>1, <3>4
  <2>5. \A y \in OtsTypes : n >= y
    BY <2>1, <2>3
  <2>6. Max(OtsTypes) \in OtsTypes
    BY <2>4, <2>5 DEF Max
  <2> QED  BY <2>6 DEF HssOts
<1> QED  BY <1>1, <1>2, TypesAssumption

\* The keys of the hierarchy, what they sign, and that they are signed.
LEMMA HssKeyIs ==
  ASSUME NEW k \in 1 .. 3
  PROVE  /\ HssKeys[k].public_key = Public(k)
         /\ \A m : SignNext(HssKeys[k], m, 1).sig = Signed(k, m)
         /\ Public(k) \in Messages
<1> DEFINE key == NewKey(k, k, HssLms, HssOts)
<1>1. HssKeys[k] = key
  BY DEF HssKeys, HssLms, HssOts
<1>2. /\ key.seed = k /\ key.I = k /\ key.lms = HssLms /\ key.ots = HssOts /\ key.q = 0
      /\ key.T = LmsTree(k, k, HssLms, HssOts) /\ key.public_key = Public(k)
  BY KeyIs DEF Public
<1> HIDE DEF key
<1>3. \A m : LmsSignWith(key, 0, m, 1) = Signed(k, m)
  BY <1>2, SignedIs DEF Signed
<1>4. \A m : SignNext(key, m, 1).sig = Signed(k, m)
  BY <1>2, <1>3 DEF SignNext
<1>5. HssKeys[k].public_key \in Messages
  BY DEF Messages
<1> QED  BY <1>1, <1>2, <1>4, <1>5

\* Each of them verifies what it signed and nothing else.
LEMMA HssSigned ==
  ASSUME NEW k \in 1 .. 3, NEW m \in Messages, NEW n \in Messages
  PROVE  LmsVerify(Public(k), n, Signed(k, m)) <=> n = m
<1>1. 0 \in 0 .. Pow2[Height[HssLms]] - 1
  <2>1. Height[HssLms] \in Nat
    BY HssTypes, HeightAssumption
  <2>2. Pow2[Height[HssLms]] \in Nat \ {0}
    BY <2>1, Pow2Is
  <2> QED  BY <2>2
<1> QED  BY <1>1, HssTypes, OwnVerifies DEF Public, Signed

\* Key 3 is not key 2.
LEMMA PublicsDiffer == Public(3) # Public(2)
<1>1. Public(3).I = 3 /\ Public(2).I = 2
  BY DEF Public, PublicOf, LmsPublicKey
<1> QED  BY <1>1

\* hss_verify for one level and for two.
HssPublic(claimed, first) == [L |-> claimed, key |-> first]
OneLevel(last) == [signed |-> <<>>, sig |-> last]
TwoLevels(next, over, last) == [signed |-> <<[key |-> next, sig |-> over]>>, sig |-> last]

\* One level verifies its message; of two the first verifies the second.
LEMMA HssLevels ==
  ASSUME NEW claimed \in 1 .. 2, NEW first, NEW message, NEW last, NEW next, NEW over
  PROVE  /\ HssVerify(HssPublic(claimed, first), message, OneLevel(last))
              <=> claimed = 1 /\ LmsVerify(first, message, last)
         /\ HssVerify(HssPublic(claimed, first), message, TwoLevels(next, over, last))
              <=> claimed = 2 /\ LmsVerify(first, next, over) /\ LmsVerify(next, message, last)
<1> DEFINE pub == [L |-> claimed, key |-> first]
           one == [key |-> next, sig |-> over]
           listed(signed) == <<pub.key>> \o [k \in DOMAIN signed |-> signed[k].key]
<1>1. /\ listed(<<>>) = <<first>> /\ Last(listed(<<>>)) = first
  <2>1. [k \in DOMAIN <<>> |-> <<>>[k].key] = <<>>
    OBVIOUS
  <2>2. <<first>> \o <<>> = <<first>>
    OBVIOUS
  <2>3. Last(<<first>>) = first
    BY DEF Last
  <2> QED  BY <2>1, <2>2, <2>3
<1>2. LET k2 == listed(<<one>>) IN k2[1] = first /\ k2[2] = next /\ Last(k2) = next
  <2>1. [k \in DOMAIN <<one>> |-> <<one>>[k].key] = <<next>>
    <3>1. one.key = next
      OBVIOUS
    <3> HIDE DEF one
    <3>2. DOMAIN <<one>> = 1 .. 1 /\ <<one>>[1] = one
      OBVIOUS
    <3>3. [k \in DOMAIN <<one>> |-> <<one>>[k].key] = [k \in 1 .. 1 |-> next]
      BY <3>1, <3>2
    <3>4. [k \in 1 .. 1 |-> next] = <<next>>
      OBVIOUS
    <3> QED  BY <3>3, <3>4
  <2>2. <<first>> \o <<next>> = <<first, next>>
    BY PairIs
  <2>3. <<first, next>>[1] = first /\ <<first, next>>[2] = next /\ Last(<<first, next>>) = next
    BY DEF Last
  <2> HIDE DEF one
  <2> QED  BY <2>1, <2>2, <2>3
<1> HIDE DEF listed
<1>3. HssVerify(pub, message, [signed |-> <<>>, sig |-> last])
        <=> claimed = 1 /\ LmsVerify(first, message, last)
  <2> DEFINE sig == [signed |-> <<>>, sig |-> last]
  <2>1. sig.signed = <<>> /\ sig.sig = last /\ Len(sig.signed) = 0
        /\ \A k : k \notin DOMAIN sig.signed
    OBVIOUS
  <2>2. HssVerify(pub, message, sig)
          <=> /\ Len(sig.signed) = pub.L - 1
              /\ \A k \in DOMAIN sig.signed :
                   LmsVerify(listed(sig.signed)[k], listed(sig.signed)[k + 1], sig.signed[k].sig)
              /\ LmsVerify(Last(listed(sig.signed)), message, sig.sig)
    BY DEF HssVerify, listed
  <2>3. 0 = pub.L - 1 <=> claimed = 1
    OBVIOUS
  <2> HIDE DEF sig, pub
  <2> QED  BY <1>1, <2>1, <2>2, <2>3 DEF sig
<1>4. HssVerify(pub, message, [signed |-> <<one>>, sig |-> last])
        <=> claimed = 2 /\ LmsVerify(first, next, over) /\ LmsVerify(next, message, last)
  <2> DEFINE sig == [signed |-> <<one>>, sig |-> last]
  <2>1. /\ sig.signed = <<one>> /\ sig.sig = last /\ Len(sig.signed) = 1
        /\ DOMAIN sig.signed = {1} /\ sig.signed[1].sig = over
    OBVIOUS
  <2>2. HssVerify(pub, message, sig)
          <=> /\ Len(sig.signed) = pub.L - 1
              /\ \A k \in DOMAIN sig.signed :
                   LmsVerify(listed(sig.signed)[k], listed(sig.signed)[k + 1], sig.signed[k].sig)
              /\ LmsVerify(Last(listed(sig.signed)), message, sig.sig)
    BY DEF HssVerify, listed
  <2>3. (1 = pub.L - 1 <=> claimed = 2) /\ 1 + 1 = 2
    OBVIOUS
  <2> HIDE DEF sig, pub, one
  <2> QED  BY <1>2, <2>1, <2>2, <2>3 DEF sig
<1> QED  BY <1>3, <1>4 DEF HssPublic, OneLevel, TwoLevels

\* What hss_verify says of a hierarchy of one or two levels.
LEMMA HssCaseIs ==
  ASSUME NEW c, IsHssCase(c)
  PROVE  LET h == HssCase(c)
         IN  HssVerify(h.pub, c.got, h.sig)
               <=> /\ c.claimed = c.levels /\ c.got = h.text
                   /\ c.swapped => c.levels = 1
<1> DEFINE text == CHOOSE t \in Texts : TRUE
           h == HssCase(c)
<1>1. text \in Messages /\ c.got \in Messages
  BY DEF IsHssCase, Messages
<1> HIDE DEF text
<1>2. /\ \A k \in 1 .. 3 : /\ HssKeys[k].public_key = Public(k)
                           /\ \A m : SignNext(HssKeys[k], m, 1).sig = Signed(k, m)
                           /\ Public(k) \in Messages
      /\ 1 \in 1 .. 3 /\ 2 \in 1 .. 3 /\ 3 \in 1 .. 3
  BY HssKeyIs
<1>3. \A k \in 1 .. 3 : LmsVerify(Public(k), c.got, Signed(k, text)) <=> c.got = text
  BY <1>1, HssSigned
<1>4. h.text = text /\ h.pub = HssPublic(c.claimed, Public(1))
  BY <1>2 DEF HssCase, HssPublic, text
<1>5. CASE c.levels = 1
  <2>1. h.sig = OneLevel(Signed(1, text))
    BY <1>2, <1>5 DEF HssCase, OneLevel, text
  <2>2. HssVerify(HssPublic(c.claimed, Public(1)), c.got, OneLevel(Signed(1, text)))
          <=> c.claimed = 1 /\ LmsVerify(Public(1), c.got, Signed(1, text))
    BY HssLevels DEF IsHssCase
  <2> HIDE DEF h
  <2> QED  BY <1>2, <1>3, <1>4, <1>5, <2>1, <2>2 DEF h
<1>6. CASE c.levels = 2
  <2> DEFINE last == IF c.swapped THEN 3 ELSE 2
             over == Signed(1, Public(2))
  <2>1. h.sig = TwoLevels(Public(last), over, Signed(last, text))
    BY <1>2, <1>6 DEF HssCase, TwoLevels, text
  <2>2. last \in 1 .. 3
    OBVIOUS
  <2>3. LmsVerify(Public(1), Public(last), over) <=> Public(last) = Public(2)
    BY <1>2, <2>2, HssSigned
  <2>4. Public(last) = Public(2) <=> ~c.swapped
    BY PublicsDiffer
  <2> HIDE DEF last, over, h
  <2>5. HssVerify(HssPublic(c.claimed, Public(1)), c.got, TwoLevels(Public(last), over, Signed(last, text)))
          <=> c.claimed = 2 /\ LmsVerify(Public(1), Public(last), over)
              /\ LmsVerify(Public(last), c.got, Signed(last, text))
    BY HssLevels DEF IsHssCase
  <2>6. LmsVerify(Public(last), c.got, Signed(last, text)) <=> c.got = text
    BY <1>3, <2>2
  <2>7. 2 # 1
    OBVIOUS
  <2> QED  BY <1>4, <1>6, <2>1, <2>3, <2>4, <2>5, <2>6, <2>7 DEF h
<1>7. c.levels = 1 \/ c.levels = 2
  BY DEF IsHssCase
<1> QED  BY <1>5, <1>6, <1>7

IsJwsCase(c) ==
  c.alg \in JwsAlgs /\ c.by \in JwsAlgs /\ c.other \in BOOLEAN /\ c.header \in JwsAlgs \cup {"none"}
  /\ c.payload \in BOOLEAN

\* A key signs different messages differently, and no two keys sign alike.
LEMMA SignsApart ==
  /\ \A key, x, y : SignWith(key, x) = SignWith(key, y) <=> x = y
  /\ \A key, other, x, y : SignWith(key, x) = SignWith(other, y) => key = other
<1>1. \A key, x, y : Input(key, x) = Input(key, y) <=> x = y
  <2> SUFFICES ASSUME NEW key, NEW x, NEW y  PROVE Input(key, x) = Input(key, y) <=> x = y
    OBVIOUS
  <2>1. CASE key[1] \in MLDSA
    BY <2>1 DEF Input, Mu
  <2>2. CASE key[1] \notin MLDSA
    BY <2>2 DEF Input
  <2> QED  BY <2>1, <2>2
<1>2. \A key, x : SignWith(key, x).by = key /\ SignWith(key, x).over = Input(key, x)
  BY DEF SignWith
<1>3. \A key, x, y : Input(key, x) = Input(key, y) => SignWith(key, x) = SignWith(key, y)
  BY DEF SignWith
<1> QED  BY <1>1, <1>2, <1>3

\* What verify of a token says of a changed header, payload or key.
LEMMA JwsCaseIs ==
  ASSUME NEW c, IsJwsCase(c)
  PROVE  LET s     == Signer(c.alg, 1)
             token == Issue(s, "claims")
             got   == [token EXCEPT !.header.alg = c.header,
                                    !.payload = IF c.payload THEN @ ELSE "others"]
             jwk   == PublicJwk(Signer(c.by, IF c.other THEN 2 ELSE 1))
         IN  VerifyJws(jwk, got) <=> c.by = c.alg /\ ~c.other /\ got = token
<1> DEFINE s == Signer(c.alg, 1)
           token == Issue(s, "claims")
           got == [token EXCEPT !.header.alg = c.header,
                                !.payload = IF c.payload THEN @ ELSE "others"]
           n == IF c.other THEN 2 ELSE 1
           jwk == PublicJwk(Signer(c.by, n))
           header == [alg |-> c.alg, kid |-> 1]
           pair(t) == <<t.header, t.payload>>
<1>1. /\ token = [header |-> header, payload |-> "claims", sig |-> token.sig]
      /\ token.sig = SignWith(<<c.alg, 1>>, pair(token))
      /\ token.header.alg = c.alg
  BY DEF Issue, Signer
<1>2. /\ got = [header |-> got.header, payload |-> got.payload, sig |-> token.sig]
      /\ got.header.alg = c.header
  <2> HIDE DEF token
  <2> DEFINE changed == [header EXCEPT !.alg = c.header]
             p == IF c.payload THEN "claims" ELSE "others"
  <2>1. [token EXCEPT !.header.alg = c.header]
          = [header |-> changed, payload |-> "claims", sig |-> token.sig]
    BY <1>1
  <2>2. changed.alg = c.header
    OBVIOUS
  <2> HIDE DEF changed, header
  <2> DEFINE u == [token EXCEPT !.header.alg = c.header]
  <2>3. got = [u EXCEPT !.payload = IF c.payload THEN @ ELSE "others"]
    OBVIOUS
  <2>4. u = [header |-> changed, payload |-> "claims", sig |-> token.sig]
    BY <2>1
  <2> HIDE DEF u, got
  <2>5. got = [header |-> changed, payload |-> p, sig |-> token.sig]
    BY <2>3, <2>4
  <2> HIDE DEF p
  <2> QED  BY <2>2, <2>5
<1>3. /\ jwk.pub = <<c.by, n>> /\ jwk.kty = Kty(c.by)
      /\ jwk.alg = IF c.by \in MLDSA THEN c.by ELSE "absent"
  BY DEF PublicJwk, Signer
<1> HIDE DEF token, got, jwk
<1>4. got = token <=> pair(got) = pair(token)
  BY <1>1, <1>2
<1>5. Verifies(jwk.pub, got.sig, pair(got)) <=> c.by = c.alg /\ n = 1 /\ pair(got) = pair(token)
  <2>1. Verifies(jwk.pub, got.sig, pair(got))
          <=> SignWith(<<c.alg, 1>>, pair(token)) = SignWith(<<c.by, n>>, pair(got))
    BY <1>1, <1>2, <1>3 DEF Verifies
  <2>2. <<c.alg, 1>> = <<c.by, n>> <=> c.by = c.alg /\ n = 1
    OBVIOUS
  <2> HIDE DEF pair, n
  <2> QED  BY <2>1, <2>2, SignsApart
<1>6. n = 1 <=> ~c.other
  BY DEF IsJwsCase
<1>7. ASSUME c.by = c.alg, got = token
      PROVE  (jwk.kty = "AKP" => got.header.alg = jwk.alg) /\ jwk.kty = Kty(got.header.alg)
  <2>1. Kty(c.by) = "AKP" => c.by \in MLDSA
    BY DEF Kty
  <2> QED  BY <1>1, <1>3, <1>7, <2>1
<1>8. VerifyJws(jwk, got)
        <=> /\ jwk.kty = "AKP" => got.header.alg = jwk.alg
            /\ jwk.kty = Kty(got.header.alg)
            /\ Verifies(jwk.pub, got.sig, pair(got))
  BY DEF VerifyJws
<1> HIDE DEF n, pair
<1>9. VerifyJws(jwk, got) <=> c.by = c.alg /\ ~c.other /\ got = token
  BY <1>4, <1>5, <1>6, <1>7, <1>8
<1> QED  BY <1>9 DEF jwk, got, token, n

\* What the initiator of a channel says of the responder's signature.
LEMMA ChannelCaseIs ==
  ASSUME NEW kem, NEW sig, NEW session, NEW seen
  PROVE  LET one == Establish(kem, sig, session)
         IN  /\ one.signed
             /\ Verifies(one.sig_pub, one.transcript_sig, seen) <=> seen = one.transcript
<1> DEFINE one == Establish(kem, sig, session)
           key == <<sig, session>>
<1>1. /\ one.sig_pub = key /\ one.transcript_sig = SignWith(key, one.transcript)
      /\ one.signed <=> Verifies(key, SignWith(key, one.transcript), one.transcript)
  BY DEF Establish, SigKeygen
<1> HIDE DEF one, key
<1> QED  BY <1>1, SignsApart DEF Verifies, one

IsKmsCase(c) ==
  c.bytes \in {4096, 4097} /\ c.reply \in [KmsCalls -> Replies] /\ c.other \in BOOLEAN

\* What a session with the key service comes to, however its calls are answered
\* and whichever key signs.
LEMMA KmsCaseIs ==
  ASSUME NEW c, IsKmsCase(c)
  PROVE  LET key    == <<"ML-DSA-65", 1>>
             signer == IF c.other THEN <<"ML-DSA-65", 2>> ELSE key
             live   == Live(key, "artefact", c.bytes, c.reply, signer)
             failed == {k \in KmsCalls : c.reply[k] # "answered"}
         IN  /\ live.returned <=> failed = {} /\ ~c.other
             /\ live.returned => live.made /\ live.scheduled
             /\ live.made /\ ~live.scheduled
                  => failed \cap {"CreateKey", "ScheduleKeyDeletion"} # {}
             /\ MuOffload(key, "artefact")
<1> DEFINE key == <<"ML-DSA-65", 1>>
           signer == IF c.other THEN <<"ML-DSA-65", 2>> ELSE key
           live == Live(key, "artefact", c.bytes, c.reply, signer)
           failed == {k \in KmsCalls : c.reply[k] # "answered"}
           sig == IF MessageType(c.bytes) = "RAW" THEN SignWith(signer, "artefact")
                  ELSE SignMu(signer, Mu(key, "artefact"))
           reply == c.reply
           through == Through(key, "artefact", c.bytes, c.reply, signer)
<1>1. /\ SignMu(key, Mu(key, "artefact")) = SignWith(key, "artefact")
      /\ Verifies(key, SignWith(key, "artefact"), "artefact")
  BY DEF SignMu, SignWith, Input, MLDSA, Verifies
<1>2. MuOffload(key, "artefact")
  BY <1>1 DEF MuOffload
<1>3. Verifies(key, sig, "artefact") <=> ~c.other
  <2>1. CASE c.other
    <3>1. signer # key /\ signer = <<"ML-DSA-65", 2>>
      BY <2>1
    <3> HIDE DEF signer, key
    <3>2. sig.by = signer /\ SignWith(key, "artefact").by = key
      BY DEF SignMu, SignWith
    <3> HIDE DEF sig
    <3>3. sig # SignWith(key, "artefact")
      BY <3>1, <3>2
    <3> QED  BY <2>1, <3>3 DEF Verifies
  <2>2. CASE ~c.other
    <3>1. sig = SignWith(key, "artefact")
      BY <1>1, <2>2
    <3> HIDE DEF sig, key
    <3> QED  BY <1>1, <2>2, <3>1
  <2> QED  BY <2>1, <2>2 DEF IsKmsCase
<1>4. /\ live.made <=> reply["CreateKey"] # "refused"
      /\ live.scheduled <=> reply["CreateKey"] = "answered" /\ reply["ScheduleKeyDeletion"] # "refused"
      /\ live.returned <=> through /\ reply["ScheduleKeyDeletion"] = "answered"
  <2> HIDE DEF through, key, signer
  <2> QED  BY Zenon DEF Live, through
<1>5. through <=> /\ reply["CreateKey"] = "answered" /\ reply["GetPublicKey"] = "answered"
                  /\ reply["Sign"] = "answered" /\ ~c.other
  <2>1. through <=> /\ \A k \in {"CreateKey", "GetPublicKey", "Sign"} : reply[k] = "answered"
                    /\ Verifies(key, sig, "artefact")
    <3> HIDE DEF key, signer
    <3> QED  BY DEF Through
  <2> HIDE DEF through, sig, key, signer
  <2> QED  BY <1>3, <2>1
<1>6. failed = {} <=> /\ reply["CreateKey"] = "answered" /\ reply["GetPublicKey"] = "answered"
                      /\ reply["Sign"] = "answered"
                      /\ reply["ScheduleKeyDeletion"] = "answered"
  BY DEF KmsCalls
<1>7. \A k \in {"CreateKey", "ScheduleKeyDeletion"} : reply[k] # "answered" => k \in failed
  BY DEF KmsCalls
<1> HIDE DEF live, failed, through, reply, key, signer, sig
<1>8. live.returned <=> failed = {} /\ ~c.other
  BY <1>4, <1>5, <1>6
<1>9. live.returned => live.made /\ live.scheduled
  BY <1>4, <1>5
<1>10. live.made /\ ~live.scheduled => failed \cap {"CreateKey", "ScheduleKeyDeletion"} # {}
  BY <1>4, <1>7
<1> QED  BY <1>2, <1>8, <1>9, <1>10 DEF live, failed, key, signer

\* The cases that were chosen are those the lemmas are about.
VerifiersChosen ==
  /\ case.kind = "lms" => IsLmsCase(case)
  /\ case.kind = "hss" => IsHssCase(case)
  /\ case.kind = "jws" => IsJwsCase(case)
  /\ case.kind = "kms" => IsKmsCase(case)

\* Every verifier of the labs accepts what was signed, for the key, the message
\* and the index it was signed for, and nothing else: lms_verify and hss_verify
\* of lms.py with every alteration of a signature, verify of jws_mldsa.py, the
\* transcript of agile.py's channel, and the session of kms_mldsa.py.
THEOREM VerifiesCorrect == LabsSpec => []VerifiesExactly
<1>1. LabsInit => VerifiersChosen
  BY DEF LabsInit, NoCase, VerifiersChosen
<1>2. VerifiersChosen /\ [LabsNext]_labVars => VerifiersChosen'
  <2> SUFFICES ASSUME VerifiersChosen, [LabsNext]_labVars  PROVE VerifiersChosen'
    OBVIOUS
  <2>1. CASE UNCHANGED case
    BY <2>1 DEF VerifiersChosen
  <2>2. CASE ChooseLms
    BY <2>2 DEF VerifiersChosen, ChooseLms, Choose, IsLmsCase
  <2>3. CASE ChooseHss
    BY <2>3 DEF VerifiersChosen, ChooseHss, Choose, IsHssCase
  <2>4. CASE ChooseJws
    BY <2>4 DEF VerifiersChosen, ChooseJws, Choose, IsJwsCase
  <2>5. CASE ChooseKms
    BY <2>5 DEF VerifiersChosen, ChooseKms, Choose, IsKmsCase
  <2>6. CASE case'.kind \notin {"lms", "hss", "jws", "kms"}
    BY <2>6 DEF VerifiersChosen
  <2>7. \/ UNCHANGED case \/ ChooseLms \/ ChooseHss \/ ChooseJws \/ ChooseKms
        \/ case'.kind \notin {"lms", "hss", "jws", "kms"}
    BY DEF LabsNext, labVars, Calculate, Choose, ChooseKem, ChooseToy, ChooseChannel, ChooseDigits,
           ChooseToken
  <2> QED  BY <2>1, <2>2, <2>3, <2>4, <2>5, <2>6, <2>7
<1>3. VerifiersChosen => VerifiesExactly
  <2> SUFFICES ASSUME VerifiersChosen  PROVE VerifiesExactly
    OBVIOUS
  <2>1. CASE case.kind = "lms"
    BY <2>1, LmsCaseIs DEF VerifiesExactly, VerifiersChosen
  <2>2. CASE case.kind = "hss"
    BY <2>2, HssCaseIs DEF VerifiesExactly, VerifiersChosen
  <2>3. CASE case.kind = "jws"
    BY <2>3, JwsCaseIs DEF VerifiesExactly, VerifiersChosen
  <2>4. CASE case.kind = "channel"
    <3> DEFINE one == Establish(case.kem, case.sig, 1)
               theirs == Establish(case.kem, case.sig, case.otherSession).transcript
               seen == CASE case.part = "none" -> one.transcript
                         [] case.part = "pub"  -> [one.transcript EXCEPT ![2] = theirs[2]]
                         [] case.part = "ct"   -> [one.transcript EXCEPT ![3] = theirs[3]]
    <3>1. VerifiesExactly
            <=> one.signed /\ (Verifies(one.sig_pub, one.transcript_sig, seen) <=> seen = one.transcript)
      BY <2>4, Zenon DEF VerifiesExactly
    <3> HIDE DEF seen
    <3>2. one.signed /\ (Verifies(one.sig_pub, one.transcript_sig, seen) <=> seen = one.transcript)
      BY ChannelCaseIs
    <3> QED  BY <3>1, <3>2
  <2>5. CASE case.kind = "kms"
    BY <2>5, KmsCaseIs DEF VerifiesExactly, VerifiersChosen
  <2>6. CASE case.kind \notin {"lms", "hss", "jws", "channel", "kms"}
    BY <2>6 DEF VerifiesExactly
  <2> QED  BY <2>1, <2>2, <2>3, <2>4, <2>5, <2>6
<1> QED  BY <1>1, <1>2, <1>3, PTL DEF LabsSpec
==============================================================================
