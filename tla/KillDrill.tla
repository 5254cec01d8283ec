------------------------------- MODULE KillDrill -------------------------------
(***************************************************************************)
(* labs/ch11/solution/drill.py, run(): N channels under the policy, kill    *)
(* the preferred KEM through the policy file, N channels again, roll back   *)
(* through the file, N channels again.  One step per channel batch and per  *)
(* access to the file; Channel's ConnectionError ends the drill without a   *)
(* report.                                                                  *)
(***************************************************************************)
EXTENDS PolicyRules

CONSTANTS StartDocs,  \* policy files the drill may be given
          N           \* channels per step

ASSUME StartDocsAssumption == \A doc \in StartDocs : doc \in Docs /\ Validate(doc)
ASSUME NAssumption == N \in Nat \ {0}

VARIABLES pc,
          now,
          work,      \* the working copy of the policy file
          loaded,    \* the loaded policy, then its `previous`
          victim,
          choices,   \* what each batch of channels chose, per kind
          okKill,
          restored,
          events     \* len(TELEMETRY)

drillVars == <<pc, now, work, loaded, victim, choices, okKill, restored, events>>

\* base, after and again of run(); a batch that did not run chose nothing.
Batches == {"baseline", "killed", "restored"}
NoChoice == [kind \in Kinds |-> NoAlg]

DrillInit == /\ pc = "load"
             /\ now \in Days
             /\ work \in StartDocs
             /\ loaded = <<>>
             /\ victim = NoAlg
             /\ choices = [b \in Batches |-> NoChoice]
             /\ okKill = FALSE
             /\ restored = FALSE
             /\ events = 0

\* Policy.load(work), and the default victim: the first usable KEM.  With no
\* usable KEM the index fails and the drill with it.
LoadPolicy ==
  /\ pc = "load"
  /\ loaded' = <<work>>
  /\ victim' = Chosen(work, "kem", Available["kem"], now)
  /\ pc' = IF victim' = NoAlg THEN "aborted" ELSE "baseline"
  /\ UNCHANGED <<now, work, choices, okKill, restored, events>>

\* establish(): N channels of the policy with itself.
Establish(batch, next) ==
  LET negotiated == Negotiated(Head(loaded), Head(loaded), now) IN
  /\ pc = batch
  /\ IF Established(negotiated)
       THEN /\ choices' = [choices EXCEPT ![batch] =
                             [kind \in Kinds |-> negotiated[kind].chosen]]
            /\ events' = events + 2 * N
            /\ pc' = next
       ELSE /\ events' = events + 2
            /\ pc' = "aborted"
            /\ UNCHANGED choices
  /\ UNCHANGED <<now, work, loaded, victim>>

Baseline == Establish("baseline", "kill") /\ UNCHANGED <<okKill, restored>>

\* with_kill(victim), written to the file.
WriteKill ==
  /\ pc = "kill"
  /\ work' = WithKill(Head(loaded), victim)
  /\ pc' = "reload"
  /\ UNCHANGED <<now, loaded, victim, choices, okKill, restored, events>>

\* Policy.load(work) with `previous` set by the drill.
ReloadKilled ==
  /\ pc = "reload"
  /\ loaded' = <<work>> \o loaded
  /\ pc' = "killed"
  /\ UNCHANGED <<now, work, victim, choices, okKill, restored, events>>

Killed ==
  /\ Establish("killed", "rollback")
  /\ LET kem == choices'["killed"]["kem"] IN
     okKill' = (kem # NoAlg /\ kem # victim
                  /\ QuantumLevel[kem] >= Head(loaded).floor["kem"])
  /\ UNCHANGED restored

\* Mutant of WriteRollback: writes the policy in force, not the previous one.
WriteCurrent ==
  /\ pc = "rollback"
  /\ work' = loaded[1]
  /\ pc' = "reload2"
  /\ UNCHANGED <<now, loaded, victim, choices, okKill, restored, events>>

\* rollback(), written to the file.
WriteRollback ==
  /\ pc = "rollback"
  /\ work' = loaded[2]
  /\ pc' = "reload2"
  /\ UNCHANGED <<now, loaded, victim, choices, okKill, restored, events>>

\* A plain load: the chain ends here.
ReloadRestored ==
  /\ pc = "reload2"
  /\ loaded' = <<work>> \o Tail(loaded)
  /\ pc' = "restored"
  /\ UNCHANGED <<now, work, victim, choices, okKill, restored, events>>

Restored ==
  /\ Establish("restored", "done")
  /\ restored' = (/\ pc' = "done"
                  /\ choices'["restored"] = choices["baseline"]
                  /\ loaded[1] = loaded[2])
  /\ UNCHANGED okKill

Finished == pc \in {"done", "aborted"} /\ UNCHANGED drillVars

DrillNext == \/ LoadPolicy \/ Baseline \/ WriteKill \/ ReloadKilled \/ Killed
             \/ WriteRollback \/ ReloadRestored \/ Restored \/ Finished

DrillSpec == DrillInit /\ [][DrillNext]_drillVars /\ WF_drillVars(DrillNext)

Passed == okKill /\ restored

------------------------------------------------------------------------------
(* Properties *)

DrillTypeOK == /\ pc \in Batches \cup {"load", "kill", "reload", "rollback", "reload2",
                                       "done", "aborted"}
               /\ now \in Days /\ work \in Docs /\ loaded \in Seq(Docs)
               /\ victim \in Algs \cup {NoAlg}
               /\ choices \in [Batches -> [Kinds -> Algs \cup {NoAlg}]]
               /\ okKill \in BOOLEAN /\ restored \in BOOLEAN
               /\ events \in 0 .. 6 * N

\* A drill that reports at all reports success: the rollback path restores
\* the choices and the very policy of the start, in the file too, and the
\* telemetry holds two events for each of the 3 N channels.  It dies instead of
\* reporting exactly when the victim was the last usable KEM of a policy that
\* could connect, or the policy could not connect to begin with.
DrillKeepsItsPromise ==
  LET start == Head(Tail(loaded) \o loaded)
      usable(kind) == Usable(start, kind, now)
  IN  /\ pc = "done" => /\ Passed
                        /\ events = 6 * N
                        /\ work = loaded[2] /\ victim \notin work.kill_switch
                        /\ usable("kem") \ {victim} # {}
                        /\ usable("sig") # {}
      /\ pc = "aborted" => \/ usable("kem") \in {{}, {victim}}
                           \/ usable("sig") = {}
==============================================================================
