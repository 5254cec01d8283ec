-------------------------------- MODULE Backlog --------------------------------
(***************************************************************************)
(* labs/ch04/solution/backlog.py: from scored nodes to a schedule.  One     *)
(* step per iteration of the loops of topological_order, backward_pass,     *)
(* list_schedule and find_cycle, in the order run() and main() call them.   *)
(* Nodes are numbered in the order of their names; today is day 0.          *)
(***************************************************************************)
EXTENDS PqScore, Sequences, FiniteSetsExt

CONSTANTS Nodes,
          Backlogs,  \* inputs: depends_on, duration, asset and capacity
          Enabler,   \* the asset of a node that has none
          Far,       \* FAR_FUTURE
          SlackUnit  \* days in 0.01 year, to which slack_years is rounded

ASSUME NodesAssumption == Nodes \subseteq Nat /\ IsFiniteSet(Nodes)
ASSUME FarAssumption == Far \in Int /\ SlackUnit \in Nat \ {0}
ASSUME BacklogsAssumption ==
  \A b \in Backlogs : /\ b.depends_on \in [Nodes -> SUBSET Nodes]
                      /\ b.duration \in [Nodes -> Nat]
                      /\ b.capacity \in Nat \ {0}
ASSUME AssetsAssumption ==
  \A b \in Backlogs, n \in Nodes :
    b.asset[n] # Enabler => /\ b.asset[n].functions \subseteq Functions
                            /\ b.asset[n].functions # {}
                            /\ b.asset[n].shelf_life \in Nat

VARIABLES
  backlog,   \* the input, never assigned
  pc,
  indeg, ready, order,              \* topological_order
  at, deadline,                     \* backward_pass
  done, start, finish, stream, free_at,   \* list_schedule
  path, cut                         \* find_cycle and propose_cut

sorting    == <<indeg, ready, order>>
backward   == <<at, deadline>>
scheduling == <<done, start, finish, stream, free_at>>
cutting    == <<path, cut>>
vars == <<backlog, pc, sorting, backward, scheduling, cutting>>

DependsOn(n)  == backlog.depends_on[n]
Dependents(n) == {u \in Nodes : n \in DependsOn(u)}
Duration(n)   == backlog.duration[n]
Streams       == 1 .. backlog.capacity
MustFinishOf(n) == IF backlog.asset[n] = Enabler THEN Far ELSE Worst(backlog.asset[n])
LatestStart(n)  == deadline[n] - Duration(n)

Placed == {order[i] : i \in DOMAIN order}
Stuck  == {n \in Nodes : indeg[n] > 0}

Init == /\ backlog \in Backlogs
        /\ pc = "order"
        /\ indeg = [n \in Nodes |-> Cardinality(DependsOn(n))]
        /\ ready = {n \in Nodes : DependsOn(n) = {}}
        /\ order = <<>>
        /\ at = 0 /\ deadline = [n \in Nodes |-> Far]
        /\ done = {}
        /\ start = [n \in Nodes |-> 0] /\ finish = [n \in Nodes |-> 0]
        /\ stream = [n \in Nodes |-> 0]
        /\ free_at = [k \in Streams |-> 0]
        /\ path = <<>> /\ cut = <<>>

-------------------------------------------------------------------------------
(* topological_order                                                        *)

Decremented(n) == [u \in Nodes |-> IF n \in DependsOn(u) THEN indeg[u] - 1 ELSE indeg[u]]

\* Mutant of Freed: a dependent is ready as soon as one dependency is placed.
FreedByOne(n) == Dependents(n) \ (Placed \cup ready \cup {n})

Freed(n) == {u \in Dependents(n) : Decremented(n)[u] = 0}

\* One turn of the loop: the least name that is ready.
Place == LET n == Least(ready) IN
  /\ pc = "order" /\ ready # {}
  /\ order' = Append(order, n)
  /\ indeg' = Decremented(n)
  /\ ready' = (ready \ {n}) \cup Freed(n)
  /\ UNCHANGED <<backlog, pc, backward, scheduling, cutting>>

AllPlaced ==
  /\ pc = "order" /\ ready = {}
  /\ pc' = "backward" /\ at' = Len(order)
  /\ UNCHANGED <<backlog, sorting, deadline, scheduling, cutting>>

-------------------------------------------------------------------------------
(* backward_pass                                                            *)

\* Deadlines of dependents that are stuck are read too: they are still Far.
Deadline(n) == Least({MustFinishOf(n)}
                       \cup {deadline[u] - Duration(u) : u \in Dependents(n)})

\* Mutant of Inherit: dependencies are processed before their dependents.
InheritForwards ==
  /\ pc = "backward" /\ at > 0
  /\ LET n == order[Len(order) + 1 - at] IN
       deadline' = [deadline EXCEPT ![n] = Deadline(n)]
  /\ at' = at - 1
  /\ UNCHANGED <<backlog, pc, sorting, scheduling, cutting>>

Inherit ==
  /\ pc = "backward" /\ at > 0
  /\ deadline' = [deadline EXCEPT ![order[at]] = Deadline(order[at])]
  /\ at' = at - 1
  /\ UNCHANGED <<backlog, pc, sorting, scheduling, cutting>>

AllInherited ==
  /\ pc = "backward" /\ at = 0
  /\ pc' = "schedule"
  /\ UNCHANGED <<backlog, sorting, backward, scheduling, cutting>>

-------------------------------------------------------------------------------
(* critical_path: computed from the deadlines, and only printed             *)

Slack(n) == (2 * LatestStart(n) + SlackUnit) \div (2 * SlackUnit)

\* Mutant of Tightest: the first name.
FirstNamed(S) == Least(S)

\* Least slack first, then the name.
Tightest(S) == CHOOSE n \in S : \A m \in S : \/ Slack(n) < Slack(m)
                                             \/ Slack(n) = Slack(m) /\ n =< m

\* The least slack of all, its tightest dependency, and so on, in front of it;
\* its tightest dependent that is ordered, and so on, behind it.
CriticalPath ==
  LET back[k \in 0 .. Len(order)] ==
        IF k = 0 THEN <<Tightest(Placed)>>
        ELSE LET p == back[k - 1] IN
             IF DependsOn(p[1]) = {} THEN p ELSE <<Tightest(DependsOn(p[1]))>> \o p
      whole[k \in 0 .. Len(order)] ==
        IF k = 0 THEN back[Len(order)]
        ELSE LET p    == whole[k - 1]
                 next == Dependents(p[Len(p)]) \cap Placed
             IN  IF next = {} THEN p ELSE Append(p, Tightest(next))
  IN  whole[Len(order)]

-------------------------------------------------------------------------------
(* list_schedule                                                            *)

\* Nodes whose dependencies are scheduled; the code takes element 0 of them
\* and would raise IndexError if there were none.
Pending     == Placed \ done
Schedulable == {n \in Pending : DependsOn(n) \subseteq done}

\* Least latest start first, then the name.
MostUrgent == CHOOSE n \in Schedulable :
                \A m \in Schedulable : \/ LatestStart(n) < LatestStart(m)
                                       \/ LatestStart(n) = LatestStart(m) /\ n =< m

\* Mutant of FreeStream: the stream that is free latest.
BusyStream == Least({k \in Streams : \A j \in Streams : free_at[k] >= free_at[j]})

\* The first of the streams that are free earliest.
FreeStream == Least({k \in Streams : \A j \in Streams : free_at[k] =< free_at[j]})

\* Mutant of Earliest: the stream being free is enough.
EarliestFree(n, k) == Greatest({0, free_at[k]})

\* Mutant of Earliest: a node waits for its latest start, even one in the past.
JustInTime(n, k) == Greatest({LatestStart(n)} \cup {finish[d] : d \in DependsOn(n)})

Earliest(n, k) == Greatest({0, free_at[k]} \cup {finish[d] : d \in DependsOn(n)})

Schedule(n, k) ==
  /\ start' = [start EXCEPT ![n] = Earliest(n, k)]
  /\ finish' = [finish EXCEPT ![n] = Earliest(n, k) + Duration(n)]
  /\ stream' = [stream EXCEPT ![n] = k]
  /\ free_at' = [free_at EXCEPT ![k] = Earliest(n, k) + Duration(n)]
  /\ done' = done \cup {n}

ScheduleNext ==
  /\ pc = "schedule" /\ Schedulable # {}
  /\ Schedule(MostUrgent, FreeStream)
  /\ UNCHANGED <<backlog, pc, sorting, backward, cutting>>

\* main() looks for a cycle only if nodes are stuck.
AllScheduled ==
  /\ pc = "schedule" /\ Pending = {}
  /\ pc' = IF Stuck = {} THEN "done" ELSE "walk"
  /\ path' = IF Stuck = {} THEN <<>> ELSE <<Least(Stuck)>>
  /\ UNCHANGED <<backlog, sorting, backward, scheduling, cut>>

-------------------------------------------------------------------------------
(* find_cycle and propose_cut; path ends with `cur`                         *)

Front == SubSeq(path, 1, Len(path) - 1)
Cur   == path[Len(path)]
Seen  == \E i \in DOMAIN Front : Front[i] = Cur

\* The first dependency in the order of the file that is stuck, whichever that
\* is.  find_cycle would return nothing if there were none.
Walk == /\ pc = "walk" /\ ~Seen
        /\ \E d \in DependsOn(Cur) \cap Stuck : path' = Append(path, d)
        /\ UNCHANGED <<backlog, pc, sorting, backward, scheduling, cut>>

Cycle == LET first == CHOOSE i \in DOMAIN Front : Front[i] = Cur IN
         SubSeq(Front, first, Len(Front))

\* The edges of the cycle, and the first whose target has the latest date.
Edges == [i \in DOMAIN Cycle |-> <<Cycle[i], Cycle[(i % Len(Cycle)) + 1]>>]

\* Mutant of LatestTarget: the edge whose target has the earliest date.
EarliestTarget == CHOOSE i \in DOMAIN Edges :
  \A j \in DOMAIN Edges : MustFinishOf(Edges[i][2]) =< MustFinishOf(Edges[j][2])

LatestTarget == CHOOSE i \in DOMAIN Edges :
  \A j \in DOMAIN Edges :
    \/ MustFinishOf(Edges[i][2]) > MustFinishOf(Edges[j][2])
    \/ MustFinishOf(Edges[i][2]) = MustFinishOf(Edges[j][2]) /\ i =< j

ProposeCut ==
  /\ pc = "walk" /\ Seen
  /\ cut' = Edges[LatestTarget]
  /\ pc' = "done"
  /\ UNCHANGED <<backlog, sorting, backward, scheduling, path>>

Finished == pc = "done" /\ UNCHANGED vars

Next == \/ Place \/ AllPlaced \/ Inherit \/ AllInherited
        \/ ScheduleNext \/ AllScheduled \/ Walk \/ ProposeCut \/ Finished

Spec == Init /\ [][Next]_vars

-------------------------------------------------------------------------------
(* Properties *)

\* Every variable stays in its type: no count below zero, no start before today.
TypeOK == /\ pc \in {"order", "backward", "schedule", "walk", "done"}
          /\ indeg \in [Nodes -> Nat] /\ ready \subseteq Nodes /\ order \in Seq(Nodes)
          /\ at \in Nat /\ deadline \in [Nodes -> Int]
          /\ done \subseteq Nodes
          /\ start \in [Nodes -> Nat] /\ finish \in [Nodes -> Nat]
          /\ stream \in [Nodes -> Nat] /\ free_at \in [Streams -> Nat]
          /\ path \in Seq(Nodes)

\* Nodes that wait, directly or not, for a cycle: the largest set of nodes each
\* of which depends on another one of the set.
Blocked == UNION {S \in SUBSET Nodes : \A n \in S : DependsOn(n) \cap S # {}}

\* Kahn's algorithm leaves out exactly the nodes that wait for a cycle and
\* orders each of the others, once, behind all it depends on.
OrderIsExact ==
  /\ \A i, j \in DOMAIN order : /\ i < j => order[i] # order[j]
                                /\ order[j] \in DependsOn(order[i]) => j < i
  /\ pc # "order" => Stuck = Blocked /\ Placed = Nodes \ Blocked

\* The deadlines are the latest feasible ones: work that finishes on its
\* deadline meets every obligation and the exposure date of each of its
\* functions and leaves each dependent in the order its latest start, and no
\* deadline could be a day later.
LatestPlanIsFeasible ==
  pc \notin {"order", "backward"} =>
    \A n \in Placed :
      /\ backlog.asset[n] # Enabler =>
           \A fn \in backlog.asset[n].functions :
             /\ deadline[n] =< Physics(backlog.asset[n], fn)
             /\ \A inst \in Obligations(backlog.asset[n], fn) : deadline[n] =< inst.date
      /\ \A d \in DependsOn(n) : deadline[d] =< LatestStart(n)
      /\ \/ deadline[n] = MustFinishOf(n)
         \/ \E u \in Dependents(n) : deadline[n] = LatestStart(u)

\* No node starts before its dependencies are finished, and no two nodes of one
\* stream overlap: never more than `capacity` of them are in flight.
ScheduleIsFeasible ==
  \A n \in done :
    /\ \A d \in DependsOn(n) : d \in done /\ finish[d] =< start[n]
    /\ stream[n] \in Streams
    /\ \A m \in done \ {n} : stream[m] = stream[n] =>
                               finish[m] =< start[n] \/ finish[n] =< start[m]

\* Waiting is never wasted altogether: however many streams there are and
\* whatever they wait for, the plan so far ends no later than one stream would
\* end the same work.  And the two passes agree: with a stream for every node,
\* a plan that can be on time when it is computed is on time when scheduled.
StreamsAreUsed ==
  /\ \A n \in done : finish[n] =< MapThenSumSet(Duration, done)
  /\ (/\ pc \notin {"order", "backward"}
      /\ backlog.capacity >= Cardinality(Placed)
      /\ \A n \in Placed : LatestStart(n) >= 0)
       => \A n \in done : finish[n] =< deadline[n]

\* What is printed as the critical path is one: a chain of dependencies from a
\* node that needs nothing to one that nothing ordered needs, with the least
\* slack of the plan at its start, and up to a node with a date of its own (or
\* one that a stuck node gave it) no day to spare between two of its nodes,
\* but for the rounding of slack_years.
CriticalPathBinds ==
  pc \notin {"order", "backward"} /\ order # <<>> =>
    LET p      == CriticalPath
        own(n) == \/ deadline[n] = MustFinishOf(n)
                  \/ \E u \in Dependents(n) \ Placed : deadline[n] = LatestStart(u)
    IN  /\ DependsOn(p[1]) = {} /\ Dependents(p[Len(p)]) \cap Placed = {}
        /\ \A i \in 1 .. Len(p) - 1 : p[i] \in DependsOn(p[i + 1])
        /\ \A n \in Placed : Slack(p[1]) =< Slack(n)
        /\ \E i \in DOMAIN p :
             /\ own(p[i])
             /\ \A j \in 1 .. i - 1 : LatestStart(p[j + 1]) - deadline[p[j]] \in 0 .. SlackUnit - 1

\* When nodes are stuck, what main() prints is a cycle of the input without a
\* repeated node, and the proposed cut is the edge of it whose target can wait
\* longest.
CycleIsReal ==
  pc = "done" /\ Stuck # {} =>
    /\ Cycle # <<>>
    /\ \A i \in DOMAIN Edges : Edges[i][2] \in DependsOn(Edges[i][1])
    /\ \A i, j \in DOMAIN Cycle : Cycle[i] = Cycle[j] => i = j
    /\ \E i \in DOMAIN Edges : cut = Edges[i]
    /\ \A i \in DOMAIN Cycle : MustFinishOf(Cycle[i]) =< MustFinishOf(cut[2])

-------------------------------------------------------------------------------
(* What makes them inductive: each loop's invariant.                       *)

\* Kahn's loop: the nodes placed wait for nothing outside the order, `indeg`
\* counts the others and `ready` holds the next candidates.
OrderInv == /\ OrderIsExact
            /\ \A n \in Placed : DependsOn(n) \subseteq Placed
            /\ Placed \cap Blocked = {}
            /\ \A n \in Nodes : indeg[n] = Cardinality(DependsOn(n) \ Placed)
            /\ ready = {n \in Nodes \ Placed : DependsOn(n) \subseteq Placed}
            /\ pc # "order" => ready = {}

\* Behind its position, the backward pass has reached the fixed point.
DeadlineInv == /\ at =< Len(order)
               /\ pc # "order" => \A i \in DOMAIN order :
                                    i > at => deadline[order[i]] = Deadline(order[i])
               /\ pc \notin {"order", "backward"} => at = 0

\* Each stream is free once everything on it is finished.
StreamInv == /\ done \subseteq Placed
             /\ pc \in {"order", "backward"} => done = {}
             /\ \A n \in done : stream[n] \in Streams => finish[n] =< free_at[stream[n]]

Inductive == TypeOK /\ backlog \in Backlogs /\ OrderInv /\ DeadlineInv /\ StreamInv
             /\ ScheduleIsFeasible
==============================================================================
