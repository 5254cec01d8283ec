--------------------------- MODULE AcmeClientProofs ----------------------------
(***************************************************************************)
(* Theorems about AcmeClient, for every number of certificates, of polls   *)
(* and of faults.                                                          *)
(***************************************************************************)
EXTENDS AcmeClient, SequenceTheorems, TLAPS

-------------------------------------------------------------------------------
(* The inductive invariant                                                  *)

Requests == {"newAccount", "newOrder", "readAuthz", "challenge", "pollAuthz", "finalize",
             "pollOrder", "download"}
RowKinds == {"issued", "error"}
AuthzStates == {"none", "pending", "asked", "valid", "invalid"}
OrderStates == {"none", "pending", "processing", "valid", "invalid"}

Types ==
  /\ pc \in Requests \cup {"waiting", "written", "died"}
  /\ issue \in Orders /\ polls \in 0 .. MaxPolls - 1 /\ tokens \subseteq Orders
  /\ rows \in Seq(RowKinds)
  /\ authz \in [Orders -> AuthzStates] /\ order \in [Orders -> OrderStates]
  /\ keyTaken \in BOOLEAN /\ faults \in 0 .. MaxFaults

\* A row per order that is done with; the last one may be the error main wrote.
RowsOK ==
  /\ Len(rows) = IF pc = "written" THEN issue ELSE issue - 1
  /\ \A k \in 1 .. issue - 1 : rows[k] = "issued"
  /\ pc = "written" /\ rows[issue] = "issued" => issue = Count

\* The orders behind have their certificate, those ahead do not exist, and the
\* client's next request says how far this one is at the CA.
OrdersOK ==
  /\ \A k \in Orders : /\ k < issue => order[k] = "valid"
                       /\ k > issue => order[k] = "none"
  /\ pc \in {"newAccount", "newOrder"} => order[issue] = "none"
  /\ pc \in {"readAuthz", "challenge", "pollAuthz", "finalize"} => order[issue] = "pending"
  /\ pc = "pollOrder" => order[issue] \in {"processing", "valid", "invalid"}
  /\ pc = "download" => order[issue] = "valid"
  /\ pc = "written" => /\ rows[issue] = "issued" => order[issue] = "valid"
                       /\ rows[issue] = "error" => order[issue] \in {"none", "pending", "invalid"}

\* What the CA is asked to validate has been published.
AuthzOK ==
  /\ \A k \in Orders : authz[k] = "asked" => k \in tokens
  /\ pc = "readAuthz" => authz[issue] \in {"pending", "valid"}
  /\ pc = "challenge" => authz[issue] = "pending" /\ issue \in tokens

\* Without a fault nothing turns invalid while the client runs.
FaultFree ==
  faults = 0 /\ keyTaken =>
    /\ pc # "waiting"
    /\ pc = "written" => rows[issue] = "issued"
    /\ \A k \in Orders : order[k] # "invalid"
    /\ ~Ended => \A k \in Orders : authz[k] # "invalid"
    /\ pc = "died" => authz[issue] # "valid" \/ order[issue] \in {"processing", "valid"}

AInv == Types /\ RowsOK /\ OrdersOK /\ AuthzOK /\ FaultFree

\* The client starts with the first order.
LEMMA InitInv == Init => AInv
<1> SUFFICES ASSUME Init  PROVE AInv
  OBVIOUS
<1>1. 1 \in Orders /\ Count \in Nat /\ 0 \in 0 .. MaxPolls - 1 /\ 0 \in 0 .. MaxFaults
  BY BoundsAssumption DEF Orders
<1>2. rows \in Seq(RowKinds) /\ Len(rows) = 0
  BY DEF Init
<1>3. Types
  BY <1>1, <1>2 DEF Init, Types, Requests, AuthzStates, OrderStates
<1>4. RowsOK
  BY <1>2 DEF Init, RowsOK
<1>5. OrdersOK
  BY <1>1 DEF Init, OrdersOK, Orders
<1>6. AuthzOK /\ FaultFree
  BY <1>1 DEF Init, AuthzOK, FaultFree, Ended
<1> QED  BY <1>3, <1>4, <1>5, <1>6 DEF AInv

-------------------------------------------------------------------------------
(* The ways a request ends                                                  *)

\* main writes the error row: the CA has no certificate for this order.
LEMMA FailsInv ==
  ASSUME AInv, pc \in Requests, Fails, UNCHANGED <<ca, keyTaken>>,
         order[issue] \in {"none", "pending", "invalid"},
         faults' \in 0 .. MaxFaults, faults' = 0 => ~keyTaken
  PROVE  AInv'
<1>1. /\ rows' = Append(rows, "error") /\ pc' = "written" /\ polls' = 0
      /\ UNCHANGED <<issue, tokens, authz, order, keyTaken>>
  BY DEF Fails, ca
<1>2. /\ rows \in Seq(RowKinds) /\ "error" \in RowKinds /\ issue \in Nat /\ Len(rows) = issue - 1
      /\ pc \notin {"written"}
  BY DEF AInv, Types, RowsOK, Requests, RowKinds, Orders
<1>3. /\ rows' \in Seq(RowKinds) /\ Len(rows') = issue
      /\ \A k \in 1 .. issue - 1 : rows'[k] = rows[k]
      /\ rows'[issue] = "error"
  BY <1>1, <1>2, AppendProperties
<1>4. Types'
  BY <1>1, <1>3, BoundsAssumption DEF AInv, Types
<1>5. RowsOK'
  BY <1>1, <1>3 DEF AInv, RowsOK
<1>6. OrdersOK'
  BY <1>1, <1>3 DEF AInv, OrdersOK
<1>7. AuthzOK' /\ FaultFree'
  BY <1>1 DEF AInv, AuthzOK, FaultFree
<1> QED  BY <1>4, <1>5, <1>6, <1>7 DEF AInv

\* The client goes on, or leaves main, with its rows as they are.
LEMMA MovesInv ==
  ASSUME AInv, pc \in Requests, pc' \in Requests \cup {"waiting", "died"},
         polls' \in 0 .. MaxPolls - 1, UNCHANGED <<issue, rows, keyTaken>>,
         tokens' \subseteq Orders, tokens \subseteq tokens',
         faults' \in 0 .. MaxFaults, faults' >= faults,
         authz' \in [Orders -> AuthzStates], order' \in [Orders -> OrderStates],
         \A k \in Orders : k # issue => order'[k] = order[k],
         pc' \in {"newAccount", "newOrder"} => order'[issue] = "none",
         pc' \in {"readAuthz", "challenge", "pollAuthz", "finalize"} => order'[issue] = "pending",
         pc' = "pollOrder" => order'[issue] \in {"processing", "valid", "invalid"},
         pc' = "download" => order'[issue] = "valid",
         AuthzOK',
         faults' = 0 /\ keyTaken =>
           /\ pc' # "waiting" /\ order'[issue] # "invalid"
           /\ pc' # "died" => \A k \in Orders : authz'[k] # "invalid"
           /\ pc' = "died" => authz'[issue] # "valid" \/ order'[issue] \in {"processing", "valid"}
  PROVE  AInv'
<1>1. pc # "written" /\ pc' # "written" /\ pc # "died"
  BY DEF Requests
<1>2. Types'
  BY DEF AInv, Types
<1>3. RowsOK'
  BY <1>1 DEF AInv, RowsOK
<1>4. issue \in Orders /\ \A k \in Orders : k \in Nat
  BY DEF AInv, Types, Orders
<1>5. OrdersOK'
  <2>1. \A k \in Orders : /\ k < issue => order'[k] = "valid"
                          /\ k > issue => order'[k] = "none"
    <3> SUFFICES ASSUME NEW k \in Orders, k # issue
                 PROVE  /\ k < issue => order'[k] = "valid"
                        /\ k > issue => order'[k] = "none"
      BY <1>4
    <3> QED  BY DEF AInv, OrdersOK
  <2> QED  BY <1>1, <2>1 DEF OrdersOK
<1>6. FaultFree'
  <2> SUFFICES ASSUME faults' = 0, keyTaken'  PROVE
          /\ pc' # "waiting"
          /\ \A k \in Orders : order'[k] # "invalid"
          /\ ~Ended' => \A k \in Orders : authz'[k] # "invalid"
          /\ pc' = "died" => authz'[issue] # "valid" \/ order'[issue] \in {"processing", "valid"}
    BY <1>1 DEF FaultFree
  <2>1. faults = 0 /\ keyTaken
    BY DEF AInv, Types
  <2>2. \A k \in Orders : order'[k] # "invalid"
    BY <2>1 DEF AInv, FaultFree
  <2> QED  BY <2>1, <2>2, <1>1 DEF Ended
<1> QED  BY <1>2, <1>3, <1>5, <1>6 DEF AInv

\* What a request that is lost, or never answered, can have done at the CA.
LEMMA LostInv ==
  ASSUME AInv, pc \in Requests, Fault, Dies \/ Waits, UNCHANGED keyTaken,
         authz' \in [Orders -> AuthzStates], order' \in [Orders -> OrderStates],
         \A k \in Orders : k # issue => order'[k] = order[k],
         \A k \in Orders : authz'[k] = "asked" => k \in tokens
  PROVE  AInv'
<1>1. /\ pc' \in {"died", "waiting"} /\ polls' = 0 /\ UNCHANGED <<issue, tokens, rows>>
      /\ faults' = faults + 1 /\ faults \in Nat /\ faults' \in 0 .. MaxFaults
  BY BoundsAssumption DEF Dies, Waits, Goto, Fault, AInv, Types
<1>2. AuthzOK'
  BY <1>1 DEF AuthzOK
<1>3. tokens' \subseteq Orders /\ tokens \subseteq tokens' /\ polls' \in 0 .. MaxPolls - 1
  BY <1>1, BoundsAssumption DEF AInv, Types
<1>4. faults' # 0 /\ faults' >= faults
  BY <1>1
<1>5. /\ pc' \in Requests \cup {"waiting", "died"}
      /\ pc' \notin Requests
  BY <1>1 DEF Requests
<1> QED  BY <1>1, <1>2, <1>3, <1>4, <1>5, MovesInv DEF Requests

\* The same of a request that only reads.
LEMMA LostReadInv ==
  ASSUME AInv, pc \in Requests, Fault, Dies \/ Waits, UNCHANGED <<ca, keyTaken>>
  PROVE  AInv'
<1>1. authz' = authz /\ order' = order
  BY DEF ca
<1> QED  BY <1>1, LostInv DEF AInv, Types, AuthzOK

\* A step with a fault in it.
LEMMA FaultFacts ==
  ASSUME AInv, Fault
  PROVE  faults' \in 0 .. MaxFaults /\ faults' # 0 /\ faults' >= faults
BY BoundsAssumption DEF Fault, AInv, Types

\* A request that is refused ends main's loop.
LEMMA RefusedInv ==
  ASSUME AInv, pc \in Requests, Fault, UNCHANGED <<ca, keyTaken>>,
         Fails, order[issue] \in {"none", "pending", "invalid"}
  PROVE  AInv'
BY FaultFacts, FailsInv

\* The client goes to its next request; the CA is as it was.
LEMMA ReadInv ==
  ASSUME AInv, pc \in Requests, NEW where \in Requests, Goto(where),
         UNCHANGED <<ca, faults, keyTaken>>,
         where \in {"newAccount", "newOrder"} => order[issue] = "none",
         where \in {"challenge", "readAuthz", "pollAuthz", "finalize"} => order[issue] = "pending",
         where = "pollOrder" => order[issue] \in {"processing", "valid", "invalid"},
         where = "download" => order[issue] = "valid",
         where \notin {"readAuthz", "challenge"}
  PROVE  AInv'
<1>1. /\ pc' = where /\ polls' = 0 /\ UNCHANGED <<issue, tokens, rows, authz, order, faults>>
  BY DEF Goto, ca
<1>2. AuthzOK'
  BY <1>1 DEF AInv, AuthzOK
<1>3. /\ tokens' \subseteq Orders /\ tokens \subseteq tokens' /\ polls' \in 0 .. MaxPolls - 1
      /\ authz' \in [Orders -> AuthzStates] /\ order' \in [Orders -> OrderStates]
      /\ faults' \in 0 .. MaxFaults /\ faults' >= faults /\ issue \in Orders
  BY <1>1, BoundsAssumption DEF AInv, Types
<1>4. pc' # "died" /\ pc' # "waiting" /\ ~Ended
  BY <1>1 DEF Requests, Ended
<1>5. faults' = 0 /\ keyTaken => /\ order'[issue] # "invalid"
                                 /\ \A k \in Orders : authz'[k] # "invalid"
  BY <1>1, <1>3, <1>4 DEF AInv, FaultFree
<1> QED  BY <1>1, <1>2, <1>3, <1>4, <1>5, MovesInv

\* Once more in a polling loop, or its TimeoutError.
LEMMA PollAgainInv ==
  ASSUME AInv, pc \in Requests, PollAgain, UNCHANGED <<ca, keyTaken>>,
         faults' \in 0 .. MaxFaults, faults' >= faults,
         faults' # 0 \/ authz[issue] # "valid" \/ order[issue] \in {"processing", "valid"}
  PROVE  AInv'
<1>1. /\ UNCHANGED <<issue, tokens, rows, authz, order>>
      /\ \/ pc' = pc /\ polls' = polls + 1 /\ polls' < MaxPolls
         \/ pc' = "died" /\ polls' = 0
  BY DEF PollAgain, Dies, Goto, ca
<1>2. AuthzOK'
  BY <1>1 DEF AInv, AuthzOK
<1>3. /\ tokens' \subseteq Orders /\ tokens \subseteq tokens' /\ polls' \in 0 .. MaxPolls - 1
      /\ authz' \in [Orders -> AuthzStates] /\ order' \in [Orders -> OrderStates]
      /\ issue \in Orders
  BY <1>1, BoundsAssumption DEF AInv, Types
<1>4. pc' \in Requests \cup {"waiting", "died"} /\ pc' # "waiting" /\ ~Ended /\ pc # "died"
  BY <1>1 DEF Requests, Ended
<1>5. faults' = 0 /\ keyTaken => /\ order'[issue] # "invalid"
                                 /\ \A k \in Orders : authz'[k] # "invalid"
  <2>1. faults' = 0 => faults = 0
    BY DEF AInv, Types
  <2> QED  BY <1>1, <1>3, <1>4, <2>1 DEF AInv, FaultFree
<1>6. /\ pc' \in {"newAccount", "newOrder"} => order'[issue] = "none"
      /\ pc' \in {"readAuthz", "challenge", "pollAuthz", "finalize"} => order'[issue] = "pending"
      /\ pc' = "pollOrder" => order'[issue] \in {"processing", "valid", "invalid"}
      /\ pc' = "download" => order'[issue] = "valid"
  BY <1>1 DEF AInv, OrdersOK
<1> QED  BY <1>1, <1>2, <1>3, <1>4, <1>5, <1>6, MovesInv

-------------------------------------------------------------------------------
(* The requests                                                             *)

LEMMA NewAccountInv ==
  ASSUME AInv, NewAccount, UNCHANGED keyTaken
  PROVE  AInv'
<1>1. pc \in Requests /\ order[issue] = "none"
  BY DEF NewAccount, Requests, AInv, OrdersOK
<1>2. \/ Goto("newOrder") /\ UNCHANGED <<ca, faults>>
      \/ Fault /\ UNCHANGED ca /\ (Dies \/ Waits)
  BY DEF NewAccount, Post
<1>3. CASE Goto("newOrder") /\ UNCHANGED <<ca, faults>>
  BY <1>1, <1>3, ReadInv DEF Requests
<1> QED  BY <1>1, <1>2, <1>3, LostReadInv

\* A new order makes no certificate, and no row.
LEMMA NewOrderInv ==
  ASSUME AInv, NewOrder, UNCHANGED keyTaken
  PROVE  AInv'
<1>1. /\ pc \in Requests /\ order[issue] = "none" /\ issue \in Orders
      /\ authz \in [Orders -> AuthzStates] /\ order \in [Orders -> OrderStates]
      /\ \A k \in Orders : authz[k] = "asked" => k \in tokens
  BY DEF NewOrder, Requests, AInv, OrdersOK, Types, AuthzOK
<1>2. ASSUME OpenOrder
      PROVE  /\ authz' \in [Orders -> AuthzStates] /\ order' \in [Orders -> OrderStates]
             /\ \A k \in Orders : k # issue => order'[k] = order[k] /\ authz'[k] = authz[k]
             /\ order'[issue] = "pending"
             /\ authz'[issue] \in {"pending", "valid"}
  <2>1. order' = [order EXCEPT ![issue] = "pending"]
    BY <1>2 DEF OpenOrder
  <2>2. PICK s \in {"pending", "valid"} : authz' = [authz EXCEPT ![issue] = s]
    BY <1>2 DEF OpenOrder
  <2>3. s \in AuthzStates /\ "pending" \in OrderStates
    BY DEF AuthzStates, OrderStates
  <2> QED  BY <1>1, <2>1, <2>2, <2>3
<1>3. OpenOrder => \A k \in Orders : authz'[k] = "asked" => k \in tokens
  BY <1>1, <1>2
<1>4. \/ OpenOrder /\ Goto("readAuthz") /\ UNCHANGED faults
      \/ Fails /\ Fault /\ UNCHANGED ca
      \/ Fault /\ (Dies \/ Waits) /\ OpenOrder
      \/ Fault /\ (Dies \/ Waits) /\ UNCHANGED ca
  BY DEF NewOrder, Post
<1>5. CASE OpenOrder /\ Goto("readAuthz") /\ UNCHANGED faults
  <2>1. /\ pc' = "readAuthz" /\ polls' = 0 /\ UNCHANGED <<issue, tokens, rows, faults>>
    BY <1>5 DEF Goto
  <2>2. AuthzOK'
    BY <1>2, <1>3, <1>5, <2>1 DEF AuthzOK
  <2>3. /\ tokens' \subseteq Orders /\ tokens \subseteq tokens' /\ polls' \in 0 .. MaxPolls - 1
        /\ faults' \in 0 .. MaxFaults /\ faults' >= faults
    BY <2>1, BoundsAssumption DEF AInv, Types
  <2>4. ~Ended
    BY <1>1 DEF Requests, Ended
  <2>5. faults' = 0 /\ keyTaken => \A k \in Orders : authz'[k] # "invalid"
    BY <1>2, <1>5, <2>1, <2>4 DEF AInv, FaultFree
  <2>6. "readAuthz" \in Requests
    BY DEF Requests
  <2> QED  BY <1>1, <1>2, <1>5, <2>1, <2>2, <2>3, <2>5, <2>6, MovesInv
<1> QED  BY <1>1, <1>2, <1>3, <1>4, <1>5, RefusedInv, LostInv, LostReadInv

\* Reading an authorization publishes the key authorization, or goes on with what
\* was authorized before.
LEMMA ReadAuthzInv ==
  ASSUME AInv, ReadAuthz, UNCHANGED keyTaken
  PROVE  AInv'
<1> DEFINE answered == IF authz[issue] = "valid" THEN Goto("finalize")
                       ELSE pc' = "challenge" /\ Publish(issue)
<1>1. /\ pc \in Requests /\ order[issue] = "pending" /\ authz[issue] \in {"pending", "valid"}
  BY DEF ReadAuthz, Requests, AInv, OrdersOK, AuthzOK
<1>2. \/ answered /\ UNCHANGED <<ca, faults>>
      \/ Fault /\ UNCHANGED ca /\ (Dies \/ Waits)
  BY DEF ReadAuthz, Post
<1>3. CASE Goto("finalize") /\ UNCHANGED <<ca, faults>>
  BY <1>1, <1>3, ReadInv DEF Requests
<1>4. CASE authz[issue] # "valid" /\ pc' = "challenge" /\ Publish(issue) /\ UNCHANGED <<ca, faults>>
  <2>1. /\ tokens' = tokens \cup {issue} /\ UNCHANGED <<issue, polls, rows, authz, order, faults>>
        /\ authz[issue] = "pending"
    BY <1>1, <1>4 DEF Publish, ca
  <2>2. AuthzOK'
    BY <1>4, <2>1 DEF AInv, AuthzOK
  <2>3. /\ tokens' \subseteq Orders /\ tokens \subseteq tokens' /\ polls' \in 0 .. MaxPolls - 1
        /\ faults' \in 0 .. MaxFaults /\ faults' >= faults
        /\ authz' \in [Orders -> AuthzStates] /\ order' \in [Orders -> OrderStates]
    BY <2>1 DEF AInv, Types
  <2>4. ~Ended
    BY <1>1 DEF Requests, Ended
  <2>5. faults' = 0 /\ keyTaken => \A k \in Orders : authz'[k] # "invalid"
    BY <2>1, <2>4 DEF AInv, FaultFree
  <2>6. "challenge" \in Requests
    BY DEF Requests
  <2> QED  BY <1>1, <1>4, <2>1, <2>2, <2>3, <2>5, <2>6, MovesInv
<1> QED  BY <1>1, <1>2, <1>3, <1>4, LostReadInv

\* Answering a challenge changes nothing that a row was derived from.
LEMMA ChallengeInv ==
  ASSUME AInv, Challenge, UNCHANGED keyTaken
  PROVE  AInv'
<1> DEFINE handled == authz' = [authz EXCEPT ![issue] = "asked"] /\ UNCHANGED order
<1>1. /\ pc \in Requests /\ order[issue] = "pending" /\ authz[issue] = "pending" /\ issue \in tokens
      /\ issue \in Orders /\ authz \in [Orders -> AuthzStates] /\ order \in [Orders -> OrderStates]
      /\ \A k \in Orders : authz[k] = "asked" => k \in tokens
  BY DEF Challenge, Requests, AInv, OrdersOK, AuthzOK, Types
<1>2. \/ handled /\ Goto("pollAuthz") /\ UNCHANGED faults
      \/ Fails /\ Fault /\ UNCHANGED ca
      \/ Fault /\ (Dies \/ Waits) /\ handled
      \/ Fault /\ (Dies \/ Waits) /\ UNCHANGED ca
  BY <1>1 DEF Challenge, Post
<1>3. handled => /\ authz' \in [Orders -> AuthzStates] /\ order' = order
                 /\ \A k \in Orders : authz'[k] = "asked" => k \in tokens
                 /\ \A k \in Orders : authz'[k] = "invalid" => authz[k] = "invalid"
  BY <1>1 DEF AuthzStates
<1> HIDE DEF handled
<1>4. CASE handled /\ Goto("pollAuthz") /\ UNCHANGED faults
  <2>1. /\ pc' = "pollAuthz" /\ polls' = 0 /\ UNCHANGED <<issue, tokens, rows, faults>>
    BY <1>4 DEF Goto
  <2>2. AuthzOK'
    BY <1>3, <1>4, <2>1 DEF AuthzOK
  <2>3. /\ tokens' \subseteq Orders /\ tokens \subseteq tokens' /\ polls' \in 0 .. MaxPolls - 1
        /\ faults' \in 0 .. MaxFaults /\ faults' >= faults
    BY <2>1, BoundsAssumption DEF AInv, Types
  <2>4. ~Ended
    BY <1>1 DEF Requests, Ended
  <2>5. faults' = 0 /\ keyTaken => \A k \in Orders : authz'[k] # "invalid"
    BY <1>3, <1>4, <2>1, <2>4 DEF AInv, FaultFree
  <2>6. "pollAuthz" \in Requests
    BY DEF Requests
  <2> QED  BY <1>1, <1>3, <1>4, <2>1, <2>2, <2>3, <2>5, <2>6, MovesInv
<1> QED  BY <1>1, <1>2, <1>3, <1>4, RefusedInv, LostInv, LostReadInv

\* A poll of an authorization ends in finalizing, in a failure or in another poll.
LEMMA PollAuthzInv ==
  ASSUME AInv, PollAuthz, UNCHANGED keyTaken
  PROVE  AInv'
<1>1. /\ pc \in Requests /\ order[issue] = "pending" /\ issue \in Orders
      /\ faults \in 0 .. MaxFaults
  BY DEF PollAuthz, Requests, AInv, OrdersOK, Types
<1>2. \/ UNCHANGED <<ca, faults>> /\ authz[issue] = "valid" /\ Goto("finalize")
      \/ UNCHANGED <<ca, faults>> /\ authz[issue] = "invalid" /\ Fails
      \/ UNCHANGED <<ca, faults>> /\ authz[issue] \notin {"valid", "invalid"} /\ PollAgain
      \/ Fault /\ UNCHANGED ca /\ PollAgain
      \/ Fault /\ UNCHANGED ca /\ (Dies \/ Waits)
  BY DEF PollAuthz, Post
<1>3. CASE UNCHANGED <<ca, faults>> /\ authz[issue] = "valid" /\ Goto("finalize")
  BY <1>1, <1>3, ReadInv DEF Requests
<1>4. CASE UNCHANGED <<ca, faults>> /\ authz[issue] = "invalid" /\ Fails
  <2>1. ~Ended
    BY <1>1 DEF Requests, Ended
  <2>2. faults = 0 => ~keyTaken
    BY <1>1, <1>4, <2>1 DEF AInv, FaultFree
  <2> QED  BY <1>1, <1>4, <2>2, FailsInv
<1>5. CASE UNCHANGED <<ca, faults>> /\ authz[issue] \notin {"valid", "invalid"} /\ PollAgain
  BY <1>1, <1>5, PollAgainInv
<1>6. CASE Fault /\ UNCHANGED ca /\ PollAgain
  BY <1>1, <1>6, FaultFacts, PollAgainInv
<1> QED  BY <1>1, <1>2, <1>3, <1>4, <1>5, <1>6, LostReadInv

\* What is asked to be finalized keeps the invariant, whether the CA takes the key
\* or rejects it.
LEMMA FinalizeInv ==
  ASSUME AInv, Finalize, UNCHANGED keyTaken
  PROVE  AInv'
<1> DEFINE handled == order' = [order EXCEPT ![issue] = "processing"] /\ UNCHANGED authz
<1>1. /\ pc \in Requests /\ order[issue] = "pending"
      /\ issue \in Orders /\ authz \in [Orders -> AuthzStates] /\ order \in [Orders -> OrderStates]
      /\ \A k \in Orders : authz[k] = "asked" => k \in tokens
      /\ faults \in 0 .. MaxFaults
  BY DEF Finalize, Requests, AInv, OrdersOK, AuthzOK, Types
<1>2. \/ handled /\ Goto("pollOrder") /\ UNCHANGED faults
      \/ Fails /\ Fault /\ UNCHANGED ca
      \/ Fault /\ (Dies \/ Waits) /\ handled
      \/ Fault /\ (Dies \/ Waits) /\ UNCHANGED ca
      \/ ~keyTaken /\ Fails /\ UNCHANGED <<ca, faults>>
  BY DEF Finalize, Post, Rejects
<1>3. handled => /\ order' \in [Orders -> OrderStates] /\ authz' = authz
                 /\ order'[issue] = "processing"
                 /\ \A k \in Orders : k # issue => order'[k] = order[k]
  BY <1>1 DEF OrderStates
<1> HIDE DEF handled
<1>4. CASE handled /\ Goto("pollOrder") /\ UNCHANGED faults
  <2>1. /\ pc' = "pollOrder" /\ polls' = 0 /\ UNCHANGED <<issue, tokens, rows, faults>>
    BY <1>4 DEF Goto
  <2>2. AuthzOK'
    BY <1>1, <1>3, <1>4, <2>1 DEF AuthzOK
  <2>3. /\ tokens' \subseteq Orders /\ tokens \subseteq tokens' /\ polls' \in 0 .. MaxPolls - 1
        /\ faults' \in 0 .. MaxFaults /\ faults' >= faults
    BY <2>1, BoundsAssumption DEF AInv, Types
  <2>4. ~Ended
    BY <1>1 DEF Requests, Ended
  <2>5. faults' = 0 /\ keyTaken => \A k \in Orders : authz'[k] # "invalid"
    BY <1>3, <1>4, <2>1, <2>4 DEF AInv, FaultFree
  <2>6. "pollOrder" \in Requests
    BY DEF Requests
  <2> QED  BY <1>1, <1>3, <1>4, <2>1, <2>2, <2>3, <2>5, <2>6, MovesInv
<1>5. CASE ~keyTaken /\ Fails /\ UNCHANGED <<ca, faults>>
  BY <1>1, <1>5, FailsInv
<1> QED  BY <1>1, <1>2, <1>3, <1>4, <1>5, RefusedInv, LostInv, LostReadInv

\* A poll of the order ends in the download, in a failure or in another poll.
LEMMA PollOrderInv ==
  ASSUME AInv, PollOrder, UNCHANGED keyTaken
  PROVE  AInv'
<1>1. /\ pc \in Requests /\ order[issue] \in {"processing", "valid", "invalid"} /\ issue \in Orders
      /\ faults \in 0 .. MaxFaults
  BY DEF PollOrder, Requests, AInv, OrdersOK, Types
<1>2. \/ UNCHANGED <<ca, faults>> /\ order[issue] = "valid" /\ Goto("download")
      \/ UNCHANGED <<ca, faults>> /\ order[issue] = "invalid" /\ Fails
      \/ UNCHANGED <<ca, faults>> /\ order[issue] \notin {"valid", "invalid"} /\ PollAgain
      \/ Fault /\ UNCHANGED ca /\ PollAgain
      \/ Fault /\ UNCHANGED ca /\ (Dies \/ Waits)
  BY DEF PollOrder, Post
<1>3. CASE UNCHANGED <<ca, faults>> /\ order[issue] = "valid" /\ Goto("download")
  BY <1>1, <1>3, ReadInv DEF Requests
<1>4. CASE UNCHANGED <<ca, faults>> /\ order[issue] = "invalid" /\ Fails
  <2>1. faults = 0 => ~keyTaken
    BY <1>1, <1>4 DEF AInv, FaultFree
  <2> QED  BY <1>1, <1>4, <2>1, FailsInv
<1>5. CASE UNCHANGED <<ca, faults>> /\ order[issue] \notin {"valid", "invalid"} /\ PollAgain
  BY <1>1, <1>5, PollAgainInv
<1>6. CASE Fault /\ UNCHANGED ca /\ PollAgain
  BY <1>1, <1>6, FaultFacts, PollAgainInv
<1> QED  BY <1>1, <1>2, <1>3, <1>4, <1>5, <1>6, LostReadInv

\* The row of a certificate the CA has issued, and main's next turn.
LEMMA DownloadInv ==
  ASSUME AInv, Download, UNCHANGED keyTaken
  PROVE  AInv'
<1>1. /\ pc \in Requests /\ pc = "download" /\ order[issue] = "valid" /\ issue \in Orders
      /\ rows \in Seq(RowKinds) /\ "issued" \in RowKinds /\ Len(rows) = issue - 1
      /\ Count \in Nat /\ Orders = 1 .. Count
  BY BoundsAssumption DEF Download, Requests, AInv, OrdersOK, Types, RowsOK, RowKinds, Orders
<1>2. \/ Issued /\ UNCHANGED <<ca, faults>>
      \/ Fault /\ UNCHANGED ca /\ (Dies \/ Waits)
  BY DEF Download, Post
<1>3. CASE Issued /\ UNCHANGED <<ca, faults>>
  <2>1. /\ rows' = Append(rows, "issued") /\ UNCHANGED <<polls, tokens, authz, order, faults, keyTaken>>
    BY <1>3 DEF Issued, ca
  <2>2. /\ rows' \in Seq(RowKinds) /\ Len(rows') = issue
        /\ \A k \in 1 .. issue - 1 : rows'[k] = rows[k]
        /\ rows'[issue] = "issued"
    BY <1>1, <2>1, AppendProperties
  <2>3. \A k \in 1 .. issue : rows'[k] = "issued"
    <3> SUFFICES ASSUME NEW k \in 1 .. issue  PROVE rows'[k] = "issued"
      OBVIOUS
    <3>1. k = issue \/ k \in 1 .. issue - 1
      BY <1>1
    <3> QED  BY <2>2, <3>1 DEF AInv, RowsOK
  <2>4. CASE issue < Count
    <3>1. pc' = "newOrder" /\ issue' = issue + 1 /\ issue' \in Orders
      BY <1>1, <1>3, <2>4 DEF Issued
    <3>2. Types'
      BY <2>1, <2>2, <3>1 DEF AInv, Types, Requests
    <3>3. RowsOK'
      BY <1>1, <2>2, <2>3, <3>1 DEF RowsOK
    <3>4. OrdersOK'
      <4>1. \A k \in Orders : /\ k < issue' => order[k] = "valid"
                              /\ k > issue' => order[k] = "none"
        <5> SUFFICES ASSUME NEW k \in Orders
                     PROVE  /\ k < issue' => order[k] = "valid"
                            /\ k > issue' => order[k] = "none"
          OBVIOUS
        <5>1. /\ k < issue' => k < issue \/ k = issue
              /\ k > issue' => k > issue
          BY <1>1, <3>1
        <5> QED  BY <1>1, <5>1 DEF AInv, OrdersOK
      <4>2. order[issue'] = "none"
        <5>1. issue' > issue
          BY <1>1, <3>1
        <5> QED  BY <3>1, <5>1 DEF AInv, OrdersOK
      <4> QED  BY <2>1, <3>1, <4>1, <4>2 DEF OrdersOK
    <3>5. AuthzOK'
      BY <2>1, <3>1 DEF AInv, AuthzOK
    <3>6. FaultFree'
      BY <1>1, <2>1, <3>1 DEF AInv, FaultFree, Ended
    <3> QED  BY <3>2, <3>3, <3>4, <3>5, <3>6 DEF AInv
  <2>5. CASE ~(issue < Count)
    <3>1. pc' = "written" /\ issue' = issue /\ issue = Count
      BY <1>1, <1>3, <2>5 DEF Issued
    <3>2. Types'
      BY <2>1, <2>2, <3>1 DEF AInv, Types
    <3>3. RowsOK'
      <4>1. \A k \in 1 .. issue - 1 : k \in 1 .. issue
        BY <1>1
      <4> QED  BY <2>2, <2>3, <3>1, <4>1 DEF RowsOK
    <3>4. OrdersOK'
      BY <1>1, <2>1, <2>2, <3>1 DEF AInv, OrdersOK
    <3>5. AuthzOK'
      BY <2>1, <3>1 DEF AInv, AuthzOK
    <3>6. FaultFree'
      BY <1>1, <2>1, <2>2, <3>1 DEF AInv, FaultFree, Ended
    <3> QED  BY <3>2, <3>3, <3>4, <3>5, <3>6 DEF AInv
  <2> QED  BY <2>4, <2>5
<1> QED  BY <1>1, <1>2, <1>3, LostReadInv

-------------------------------------------------------------------------------
(* The CA                                                                   *)

\* It validates what was published while the challenge server runs.
LEMMA ValidateInv ==
  ASSUME AInv, NEW k \in Orders, Validate(k)
  PROVE  AInv'
<1>1. /\ authz[k] = "asked" /\ k \in tokens /\ authz \in [Orders -> AuthzStates]
      /\ issue \in Orders
  BY DEF Validate, AInv, AuthzOK, Types
<1>2. PICK s \in {"valid", "invalid"} :
        /\ authz' = [authz EXCEPT ![k] = s]
        /\ s = "valid" => ~Ended /\ faults' = faults
        /\ s = "invalid" => (Ended /\ faults' = faults) \/ Fault
  BY <1>1 DEF Validate
<1>3. UNCHANGED <<pc, issue, polls, tokens, rows, order, keyTaken>>
  BY DEF Validate, client
<1>4. faults' \in 0 .. MaxFaults /\ (faults' = 0 => faults = 0 /\ ~Fault)
  BY <1>2, FaultFacts DEF AInv, Types
<1>5. Types'
  <2>1. authz' \in [Orders -> AuthzStates]
    BY <1>1, <1>2 DEF AuthzStates
  <2> QED  BY <1>3, <1>4, <2>1 DEF AInv, Types
<1>6. RowsOK' /\ OrdersOK'
  BY <1>3 DEF AInv, RowsOK, OrdersOK
<1>7. AuthzOK'
  <2>1. \A j \in Orders : authz'[j] = authz[j] \/ (j = k /\ authz'[j] = s)
    BY <1>1, <1>2
  <2> QED  BY <1>1, <1>3, <2>1 DEF AInv, AuthzOK
<1>8. FaultFree'
  <2> SUFFICES ASSUME faults' = 0, keyTaken  PROVE
        /\ ~Ended => \A j \in Orders : authz'[j] # "invalid"
        /\ pc = "died" => authz'[issue] # "valid" \/ order[issue] \in {"processing", "valid"}
    BY <1>3, <1>4 DEF FaultFree, AInv, Ended
  <2>1. s = "invalid" => Ended
    BY <1>2, <1>4
  <2>2. \A j \in Orders : authz'[j] = authz[j] \/ (j = k /\ authz'[j] = s)
    BY <1>1, <1>2
  <2>3. pc = "died" => Ended
    BY DEF Ended
  <2> QED  BY <1>1, <1>2, <1>4, <2>1, <2>2, <2>3 DEF AInv, FaultFree
<1> QED  BY <1>5, <1>6, <1>7, <1>8 DEF AInv

\* It issues what the client has asked for, and waits for.
LEMMA IssueInv ==
  ASSUME AInv, NEW k \in Orders, Issue(k)
  PROVE  AInv'
<1>1. /\ order[k] = "processing" /\ order \in [Orders -> OrderStates] /\ issue \in Orders
      /\ \A j \in Orders : j \in Nat
  BY DEF Issue, AInv, Types, Orders
<1>2. PICK s \in {"valid", "invalid"} :
        /\ order' = [order EXCEPT ![k] = s]
        /\ s = "valid" => faults' = faults
        /\ s = "invalid" => Fault
  BY DEF Issue
<1>3. UNCHANGED <<pc, issue, polls, tokens, rows, authz, keyTaken>>
  BY DEF Issue, client
<1>4. faults' \in 0 .. MaxFaults /\ (faults' = 0 => faults = 0 /\ ~Fault)
  BY <1>2, FaultFacts DEF AInv, Types
<1>5. Types'
  <2>1. order' \in [Orders -> OrderStates]
    BY <1>1, <1>2 DEF OrderStates
  <2> QED  BY <1>3, <1>4, <2>1 DEF AInv, Types
<1>6. RowsOK' /\ AuthzOK'
  BY <1>3 DEF AInv, RowsOK, AuthzOK
<1>7. k = issue
  <2>1. k < issue \/ k = issue \/ k > issue
    BY <1>1
  <2> QED  BY <1>1, <2>1 DEF AInv, OrdersOK
<1>8. order'[issue] = s /\ \A j \in Orders : j # issue => order'[j] = order[j]
  BY <1>1, <1>2, <1>7
<1>9. OrdersOK'
  <2>1. \A j \in Orders : j < issue \/ j > issue => j # issue
    BY <1>1
  <2>2. rows[issue] # "issued" \/ pc # "written"
    BY <1>1, <1>7 DEF AInv, OrdersOK
  <2>3. pc # "written" \/ rows[issue] # "error"
    BY <1>1, <1>7 DEF AInv, OrdersOK
  <2>4. pc \in {"pollOrder", "died", "waiting"} \/ pc = "written"
    BY <1>1, <1>7 DEF AInv, OrdersOK, Types, Requests
  <2> QED  BY <1>1, <1>3, <1>8, <2>1, <2>2, <2>3, <2>4 DEF AInv, OrdersOK
<1>10. FaultFree'
  BY <1>1, <1>2, <1>3, <1>4, <1>8 DEF AInv, FaultFree, Ended
<1> QED  BY <1>5, <1>6, <1>9, <1>10 DEF AInv

-------------------------------------------------------------------------------
(* The theorems                                                             *)

LEMMA NextInv == AInv /\ [Next]_vars => AInv'
<1> SUFFICES ASSUME AInv, [Next]_vars  PROVE AInv'
  OBVIOUS
<1>1. CASE UNCHANGED vars
  BY <1>1 DEF vars, client, ca, AInv, Types, RowsOK, OrdersOK, AuthzOK, FaultFree, Ended
<1>2. CASE Client
  BY <1>2, NewAccountInv, NewOrderInv, ReadAuthzInv, ChallengeInv, PollAuthzInv, FinalizeInv,
     PollOrderInv, DownloadInv DEF Client, Request
<1>3. ASSUME NEW k \in Orders, Validate(k) \/ Issue(k)  PROVE AInv'
  BY <1>3, ValidateInv, IssueInv
<1> QED  BY <1>1, <1>2, <1>3 DEF Next, Done

\* The invariant, of every behaviour of a run of the client.
LEMMA Invariance == Spec => []AInv
<1>1. AInv /\ [Next]_vars => AInv'
  BY NextInv
<1> QED  BY <1>1, InitInv, PTL DEF Spec

\* What main has written accounts for every certificate the CA has issued, at
\* the moment main ends and whatever the CA does afterwards, for any number of
\* certificates, polls and faults.
THEOREM RowsStayTrue == Spec => []RowsAreTrue
<1>1. AInv => RowsAreTrue
  <2> SUFFICES ASSUME AInv, pc = "written"
               PROVE  /\ \A k \in DOMAIN rows : rows[k] = "error" => k = Len(rows)
                      /\ \A k \in Orders : order[k] = "valid" <=> k \in DOMAIN rows /\ rows[k] = "issued"
                      /\ \A k \in Orders : order[k] # "processing"
    BY DEF RowsAreTrue
  <2>1. /\ rows \in Seq(RowKinds) /\ Len(rows) = issue /\ DOMAIN rows = 1 .. issue
        /\ issue \in Nat /\ issue \in Orders /\ Orders = 1 .. Count /\ Count \in Nat
    BY BoundsAssumption DEF AInv, Types, RowsOK, Orders
  <2>2. /\ \A k \in 1 .. issue - 1 : rows[k] = "issued"
        /\ rows[issue] \in RowKinds
    BY <2>1 DEF AInv, RowsOK, Orders
  <2>3. \A k \in DOMAIN rows : k = issue \/ k \in 1 .. issue - 1
    BY <2>1
  <2>4. \A k \in DOMAIN rows : rows[k] = "error" => k = Len(rows)
    BY <2>1, <2>2, <2>3
  <2>5. ASSUME NEW k \in Orders
        PROVE  /\ order[k] = "valid" <=> k \in DOMAIN rows /\ rows[k] = "issued"
               /\ order[k] # "processing"
    <3>1. CASE k < issue
      <4>1. k \in 1 .. issue - 1 /\ k \in DOMAIN rows
        BY <2>1, <3>1
      <4> QED  BY <2>2, <3>1, <4>1 DEF AInv, OrdersOK
    <3>2. CASE k = issue
      <4>1. k \in DOMAIN rows
        BY <2>1, <3>2
      <4> QED  BY <2>2, <3>2, <4>1 DEF AInv, OrdersOK, RowKinds
    <3>3. CASE k > issue
      <4>1. k \notin DOMAIN rows
        BY <2>1, <3>3
      <4> QED  BY <3>3, <4>1 DEF AInv, OrdersOK
    <3> QED  BY <2>1, <3>1, <3>2, <3>3
  <2> QED  BY <2>4, <2>5
<1> QED  BY <1>1, Invariance, PTL

\* A CA that refuses nothing and answers in time gets the client through:
\* Count certificates, unless a polling loop ran out.
THEOREM FaultFreeSucceeds == Spec => []FaultFreeRunSucceeds
<1>1. AInv => FaultFreeRunSucceeds
  <2> SUFFICES ASSUME AInv, faults = 0, keyTaken
               PROVE  /\ \A k \in DOMAIN rows : rows[k] = "issued"
                      /\ pc = "written" => Len(rows) = Count
                      /\ pc = "died" => \/ authz[issue] # "valid"
                                        \/ order[issue] \in {"processing", "valid"}
    BY DEF FaultFreeRunSucceeds
  <2>1. /\ rows \in Seq(RowKinds) /\ DOMAIN rows = 1 .. Len(rows)
        /\ Len(rows) = (IF pc = "written" THEN issue ELSE issue - 1)
        /\ issue \in Nat
    BY DEF AInv, Types, RowsOK, Orders
  <2>2. \A k \in DOMAIN rows : k \in 1 .. issue - 1 \/ (k = issue /\ pc = "written")
    BY <2>1
  <2> QED  BY <2>1, <2>2 DEF AInv, RowsOK, FaultFree
<1> QED  BY <1>1, Invariance, PTL
===============================================================================
