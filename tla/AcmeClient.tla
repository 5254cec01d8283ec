------------------------------ MODULE AcmeClient ------------------------------
(***************************************************************************)
(* labs/ch07/solution/acmeclient.py: main() issues Count certificates in a *)
(* row.  The client sends one request at a time; the CA validates and      *)
(* issues in its own time, and fetches the challenge answers from the      *)
(* ChallengeServer thread.  A nonce is dropped before it is sent, so a     *)
(* request that fails costs a nonce and nothing else; what is left of the  *)
(* nonces is that any request may be refused.                              *)
(***************************************************************************)
EXTENDS Integers, Sequences

CONSTANTS
  Count,       \* --count
  MaxPolls,    \* polls per resource, 50 in the code
  MaxFaults    \* refused requests, network errors and refusals of the CA

ASSUME BoundsAssumption ==
  Count \in Nat \ {0} /\ MaxPolls \in Nat \ {0} /\ MaxFaults \in Nat

VARIABLES
  pc,      \* the client's next request, or "waiting" for an answer; "written"
           \* and "died" are the end
  issue,   \* i of main's loop
  polls,   \* requests made in the current polling loop
  tokens,  \* orders whose challenge answer is published
  rows,    \* rows of main
  authz,   \* the CA's authorizations, one per order
  order,   \* the CA's orders
  keyTaken, \* the CA takes CSRs with the key type of --csr-key
  faults

client == <<pc, issue, polls, tokens, rows>>
ca     == <<authz, order>>
vars == <<client, ca, keyTaken, faults>>

Orders == 1 .. Count

\* The challenge server is started before the first request and stopped when
\* main leaves its loop.
Ended == pc \in {"written", "died"}

Init == /\ pc = "newAccount"
        /\ issue = 1
        /\ polls = 0
        /\ tokens = {}
        /\ rows = <<>>
        /\ authz = [k \in Orders |-> "none"]
        /\ order = [k \in Orders |-> "none"]
        /\ keyTaken \in BOOLEAN
        /\ faults = 0

------------------------------------------------------------------------------
(* The client between two requests *)

Goto(where) == pc' = where /\ polls' = 0 /\ UNCHANGED <<issue, tokens, rows>>

\* An exception other than RuntimeError leaves main; nothing is written.
Dies == Goto("died")

\* RuntimeError: main appends an error row, leaves the loop and writes.
Fails == /\ rows' = Append(rows, "error")
         /\ pc' = "written"
         /\ polls' = 0
         /\ UNCHANGED <<issue, tokens>>

\* Mutants of PollAgain: the error is taken for a refusal; there is no limit.
PollThenFail == IF polls + 1 < MaxPolls
                THEN polls' = polls + 1 /\ UNCHANGED <<pc, issue, tokens, rows>>
                ELSE Fails

PollForever == UNCHANGED client

\* Once more in a polling loop, or its TimeoutError.
PollAgain == IF polls + 1 < MaxPolls
             THEN polls' = polls + 1 /\ UNCHANGED <<pc, issue, tokens, rows>>
             ELSE Dies

Fault == faults < MaxFaults /\ faults' = faults + 1

\* The opener has no timeout: without an answer or an error it waits.
Waits == Goto("waiting")

\* post(): the CA handles the request and answers; or it answers with a problem
\* document (a stale nonce among others); or the network fails or falls silent,
\* before or after the CA has handled it.
Post(handled, answered, refused) ==
  \/ handled /\ answered /\ UNCHANGED faults
  \/ Fault /\ UNCHANGED ca /\ refused
  \/ Fault /\ (handled \/ UNCHANGED ca) /\ (Dies \/ Waits)

\* What the CA cannot do it refuses without any fault.
Rejects(refused) == refused /\ UNCHANGED <<ca, faults>>

------------------------------------------------------------------------------
(* The requests *)

\* main calls new_account outside its try.
NewAccount == pc = "newAccount" /\ Post(UNCHANGED ca, Goto("newOrder"), Dies)

\* The CA may reuse an authorization that was completed earlier.
OpenOrder == /\ order' = [order EXCEPT ![issue] = "pending"]
             /\ \E s \in {"pending"} \cup ({authz[k] : k \in Orders} \cap {"valid"}) :
                  authz' = [authz EXCEPT ![issue] = s]

NewOrder == pc = "newOrder" /\ Post(OpenOrder, Goto("readAuthz"), Fails)

Publish(k) == tokens' = tokens \cup {k} /\ UNCHANGED <<issue, polls, rows>>

\* Mutant of ReadAuthz: an authorization that is valid already is not looked at.
ReadAuthzAlways ==
  pc = "readAuthz" /\ Post(UNCHANGED ca, pc' = "challenge" /\ Publish(issue), Dies)

\* http01, first part.  A problem document has no challenges: KeyError.
ReadAuthz ==
  /\ pc = "readAuthz"
  /\ Post(UNCHANGED ca,
          IF authz[issue] = "valid" THEN Goto("finalize")
                                    ELSE pc' = "challenge" /\ Publish(issue),
          Dies)

Challenge ==
  /\ pc = "challenge"
  /\ IF authz[issue] = "pending"
     THEN Post(authz' = [authz EXCEPT ![issue] = "asked"] /\ UNCHANGED order,
               Goto("pollAuthz"), Fails)
     ELSE Rejects(Fails)

\* A problem document's status is a number: neither valid nor invalid.
PollAuthz ==
  /\ pc = "pollAuthz"
  /\ Post(UNCHANGED ca,
          CASE authz[issue] = "valid"   -> Goto("finalize")
            [] authz[issue] = "invalid" -> Fails
            [] OTHER                    -> PollAgain,
          PollAgain)

Finalize ==
  /\ pc = "finalize"
  /\ IF keyTaken
     THEN Post(order' = [order EXCEPT ![issue] = "processing"] /\ UNCHANGED authz,
               Goto("pollOrder"), Fails)
     ELSE Rejects(Fails)

PollOrder ==
  /\ pc = "pollOrder"
  /\ Post(UNCHANGED ca,
          CASE order[issue] = "valid"   -> Goto("download")
            [] order[issue] = "invalid" -> Fails
            [] OTHER                    -> PollAgain,
          PollAgain)

\* The row of a certificate, and main's next turn.  The status of the download
\* is not looked at: a problem document is no PEM file: TypeError.
Issued == /\ rows' = Append(rows, "issued")
          /\ pc' = IF issue < Count THEN "newOrder" ELSE "written"
          /\ issue' = IF issue < Count THEN issue + 1 ELSE issue
          /\ UNCHANGED <<polls, tokens>>

Download == pc = "download" /\ Post(UNCHANGED ca, Issued, Dies)

Request == \/ NewAccount \/ NewOrder \/ ReadAuthz \/ Challenge \/ PollAuthz
           \/ Finalize \/ PollOrder \/ Download

Client == Request /\ UNCHANGED keyTaken

------------------------------------------------------------------------------
(* The CA in its own time (external: RFC 8555, Pebble). *)

\* It fetches the answer, and may find fault with a good one.
Validate(k) ==
  /\ authz[k] = "asked"
  /\ \/ k \in tokens /\ ~Ended /\ authz' = [authz EXCEPT ![k] = "valid"] /\ UNCHANGED faults
     \/ (k \notin tokens \/ Ended) /\ authz' = [authz EXCEPT ![k] = "invalid"] /\ UNCHANGED faults
     \/ Fault /\ authz' = [authz EXCEPT ![k] = "invalid"]
  /\ UNCHANGED <<client, order, keyTaken>>

Issue(k) ==
  /\ order[k] = "processing"
  /\ \/ order' = [order EXCEPT ![k] = "valid"] /\ UNCHANGED faults
     \/ Fault /\ order' = [order EXCEPT ![k] = "invalid"]
  /\ UNCHANGED <<client, authz, keyTaken>>

Done == (Ended \/ pc = "waiting") /\ UNCHANGED vars

Next == Client \/ (\E k \in Orders : Validate(k) \/ Issue(k)) \/ Done

\* The client runs while it is not waiting; the CA need not answer a poll with
\* anything but "pending".
Spec == Init /\ [][Next]_vars /\ WF_vars(Client)

------------------------------------------------------------------------------
(* Properties *)

\* The file main writes accounts for every certificate, whatever was refused or
\* lost on the way and whatever the CA still does afterwards: the rows are the
\* orders in turn, and exactly the orders with a certificate are not the last,
\* failed one.
RowsAreTrue ==
  pc = "written" =>
    /\ \A k \in DOMAIN rows : rows[k] = "error" => k = Len(rows)
    /\ \A k \in Orders : order[k] = "valid" <=> k \in DOMAIN rows /\ rows[k] = "issued"
    /\ \A k \in Orders : order[k] # "processing"

\* A CA that refuses nothing and answers in time gets the client through, with
\* new and with reused authorizations: without a fault main writes Count
\* certificates, unless a polling loop ran out.
FaultFreeRunSucceeds ==
  faults = 0 /\ keyTaken =>
    /\ \A k \in DOMAIN rows : rows[k] = "issued"
    /\ pc = "written" => Len(rows) = Count
    /\ pc = "died" => \/ authz[issue] # "valid"
                      \/ order[issue] \in {"processing", "valid"}

\* The client ends, however the CA answers and whatever fails, since polling is
\* bounded; only a request that is neither answered nor refused keeps it.
IssuingEnds == <>(Ended \/ pc = "waiting")
==============================================================================
