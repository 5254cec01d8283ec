------------------------------- MODULE TestPlan -------------------------------
(***************************************************************************)
(* labs/ch12/solution/testplan.py, main(), with the drill it runs as a     *)
(* program of its own: the sections in order, each reading what a suite or *)
(* an earlier lab left behind, the drill (KillDrill), and the drill.json   *)
(* it leaves, which is an older drill's when this one wrote none.          *)
(***************************************************************************)
EXTENDS KillDrill

CONSTANT Estates  \* what each source may answer: a suite, or a results file

Sources == {"suites", "vectors", "interop", "timing", "loadtest", "signbench"}
Answers == {"good", "bad", "absent", "broken"}

\* A suite is there, but may not end within its timeout ("broken").
ASSUME EstatesAssumption ==
  \A e \in Estates : /\ e \in [Sources -> Answers]
                     /\ "absent" \notin {e["suites"], e["vectors"]}

VARIABLES estate,
          section,    \* of the plan; then "ended" or "crashed"
          report,     \* the rows so far: section, status
          drillJson,  \* ch11/results/drill.json: restored, and whether this drill wrote it
          code        \* the plan's exit code

planVars == <<estate, section, report, drillJson, code>>
allVars  == <<drillVars, planVars>>

None    == [restored |-> "absent", fresh |-> FALSE]
Stale   == [restored : {"good", "bad", "broken"}, fresh : {FALSE}]
Running == -1

PlanInit == /\ DrillInit
            /\ estate \in Estates
            /\ section = "1 correctness"
            /\ report = <<>>
            /\ drillJson \in Stale \cup {None}
            /\ code = Running

Row(name, status) == [section |-> name, status |-> status]
Status(answer) == IF answer = "good" THEN "PASS" ELSE "FAIL"
Manual(name) == <<Row(name, "MANUAL")>>

\* TimeoutExpired of run(), json.loads on a half-written file, or StopIteration
\* on one that lacks a row: no report at all.
Crash(name) == /\ section = name
               /\ section' = "crashed" /\ code' = 1
               /\ UNCHANGED <<drillVars, estate, report, drillJson>>

SectionFails == \E name \in {"1 correctness", "2 known-answer", "3 interoperability",
                             "4 side channels", "5 performance"} :
  /\ "broken" \in {estate[s] : s \in CASE name = "1 correctness"       -> {"suites"}
                                       [] name = "2 known-answer"      -> {"vectors"}
                                       [] name = "3 interoperability" -> {"interop"}
                                       [] name = "4 side channels"     -> {"timing"}
                                       [] name = "5 performance"       -> {"loadtest", "signbench"}}
  /\ Crash(name)

\* A section that gets through appends its rows.
AddRows(name, rows, next) == /\ section = name
                             /\ report' = report \o rows
                             /\ section' = next
                             /\ UNCHANGED <<drillVars, estate, drillJson, code>>

Section1 == /\ estate["suites"] # "broken"
            /\ AddRows("1 correctness", <<Row("1 correctness", Status(estate["suites"]))>>,
                       "2 known-answer")

Section2 == /\ estate["vectors"] # "broken"
            /\ AddRows("2 known-answer",
                       <<Row("2 known-answer", Status(estate["vectors"]))>> \o Manual("2 known-answer"),
                       "3 interoperability")

Skip(name) == <<Row(name, "SKIP")>>

Section3 == LET name == "3 interoperability" IN
  /\ estate["interop"] # "broken"
  /\ AddRows(name, IF estate["interop"] = "absent" THEN Skip(name)
                   ELSE <<Row(name, Status(estate["interop"])), Row(name, "INFO")>>,
             "4 side channels")

Section4 == LET name == "4 side channels" IN
  /\ estate["timing"] # "broken"
  /\ AddRows(name, IF estate["timing"] = "absent" THEN Skip(name)
                   ELSE <<Row(name, Status(estate["timing"]))>> \o Manual(name),
             "5 performance")

\* A file that is absent has no row here, not even SKIP.
Ratio(source) == IF estate[source] = "absent" THEN <<>>
                 ELSE <<Row("5 performance", Status(estate[source]))>>

Section5 ==
  /\ "broken" \notin {estate["loadtest"], estate["signbench"]}
  /\ AddRows("5 performance", Ratio("loadtest") \o Ratio("signbench") \o Manual("5 performance"),
             "6 agility")

\* drill.py runs; its main() writes drill.json after run() has returned.
Drilling == /\ section = "6 agility"
            /\ DrillNext /\ pc \notin {"done", "aborted"}
            /\ drillJson' = IF pc' # "done" THEN drillJson
                            ELSE [restored |-> IF restored' THEN "good" ELSE "bad", fresh |-> TRUE]
            /\ UNCHANGED <<estate, section, report, code>>

DrillTimesOut == Crash("6 agility")

\* The drill's exit code: 0 if it passed, 1 if it failed or raised.
DrillCode == IF pc = "done" /\ Passed THEN 0 ELSE 1

\* Mutant of Section6: the row is read from drill.json.
Section6FromFile ==
  /\ pc \in {"done", "aborted"}
  /\ AddRows("6 agility", <<Row("6 agility", Status(drillJson.restored))>>, "7 rollback")

Section6 ==
  /\ pc \in {"done", "aborted"}
  /\ AddRows("6 agility", <<Row("6 agility", IF DrillCode = 0 THEN "PASS" ELSE "FAIL")>>,
             "7 rollback")

Section7 == LET name == "7 rollback" IN
  /\ drillJson.restored # "broken"
  /\ AddRows(name, IF drillJson = None THEN Manual(name)
                   ELSE <<Row(name, Status(drillJson.restored))>> \o Manual(name),
             "report")

Section7Fails == drillJson.restored = "broken" /\ Crash("7 rollback")

Failed(name) == \E i \in DOMAIN report : report[i] = Row(name, "FAIL")
Sections == {"1 correctness", "2 known-answer", "3 interoperability", "4 side channels",
             "5 performance", "6 agility", "7 rollback"}

\* The report is written, and the exit code is about its rows.
Report == /\ section = "report"
          /\ section' = "ended"
          /\ code' = IF \E name \in Sections : Failed(name) THEN 1 ELSE 0
          /\ UNCHANGED <<drillVars, estate, report, drillJson>>

PlanEnded == section \in {"ended", "crashed"} /\ UNCHANGED allVars

PlanNext == \/ SectionFails \/ Section1 \/ Section2 \/ Section3 \/ Section4 \/ Section5
            \/ Drilling \/ DrillTimesOut \/ Section6
            \/ Section7 \/ Section7Fails \/ Report \/ PlanEnded

PlanSpec == PlanInit /\ [][PlanNext]_allVars

------------------------------------------------------------------------------
(* Properties *)

\* Exit code 0 says that the drill of this run passed, that drill.json is the
\* one it wrote, and that no suite and no results file that is there is bad or
\* unreadable (testplan.py:168).  A plan that ends with 1 has a reason, and one
\* whose only good news about rollback comes from an older drill.json says so
\* in section 6.
PlanIsHonest ==
  /\ code = 0 => /\ DrillCode = 0 /\ drillJson.fresh
                 /\ \A s \in Sources : estate[s] \in {"good", "absent"}
  /\ section = "ended" /\ code = 1 =>
       \/ pc = "aborted"
       \/ \E s \in Sources : estate[s] = "bad"
  /\ section = "ended" /\ ~drillJson.fresh => Failed("6 agility")
==============================================================================
