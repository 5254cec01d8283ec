------------------------------- MODULE PqScore --------------------------------
(***************************************************************************)
(* labs/ch01/solution/pqscore.py: by when an asset must be migrated, from   *)
(* the regulatory calendar and from the day a quantum computer exists.      *)
(* Dates are days from today, and spans of years are given in days.         *)
(***************************************************************************)
EXTENDS Integers, FiniteSets

CONSTANTS Calendar,   \* the instruments of calendar/deadlines.yaml
          CrqcDay     \* the first of January of crqc_year

Functions    == {"confidentiality", "authentication", "signing"}
BindingKinds == {"procurement", "deadline", "deprecation", "disallow"}

ASSUME CrqcAssumption == CrqcDay \in Int
ASSUME CalendarAssumption == IsFiniteSet(Calendar) /\ \A inst \in Calendar : inst.date \in Int

Least(S)    == CHOOSE x \in S : \A y \in S : x =< y
Greatest(S) == CHOOSE x \in S : \A y \in S : x >= y

Applies(inst, asset) ==
  /\ inst.jurisdiction \in {"GLOBAL"} \cup asset.jurisdictions
  /\ inst.sectors \cap ({"all"} \cup asset.sectors) # {}

\* The dated obligations that constrain a function of an asset.
Obligations(asset, fn) ==
  {inst \in Calendar : /\ inst.function = fn /\ inst.kind \in BindingKinds
                       /\ Applies(inst, asset)}

\* What is encrypted is exposed its shelf life before the computer exists,
\* what is signed once it does.
Physics(asset, fn) == IF fn = "confidentiality" THEN CrqcDay - asset.shelf_life
                                                ELSE CrqcDay

MustFinish(asset, fn) ==
  Least({Physics(asset, fn)} \cup {inst.date : inst \in Obligations(asset, fn)})

\* backlog.py, score(): the earliest of the verdicts on the asset's functions.
Worst(asset) == Least({MustFinish(asset, fn) : fn \in asset.functions})
==============================================================================
