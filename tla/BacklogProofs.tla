---------------------------- MODULE BacklogProofs -----------------------------
(***************************************************************************)
(* Theorems about Backlog, for every set of nodes, every input and every   *)
(* calendar.                                                               *)
(***************************************************************************)
EXTENDS Backlog, FiniteSetTheorems, WellFoundedInduction, TLAPS

-------------------------------------------------------------------------------
(* Minima of finite sets                                                    *)

Below(x, S) == {y \in S : y < x}

\* min() of a finite set of numbers is one of them and none is smaller: of the
\* finite sets of smaller elements, one is minimal under inclusion.
LEMMA LeastIsLeast ==
  ASSUME NEW S, S \subseteq Int, IsFiniteSet(S), S # {}
  PROVE  Least(S) \in S /\ \A y \in S : Least(S) =< y
<1> DEFINE T == {Below(x, S) : x \in S}
<1>1. T \subseteq FiniteSubsetsOf(S) /\ T # {}
  <2>1. ASSUME NEW x \in S  PROVE Below(x, S) \in FiniteSubsetsOf(S)
    <3>1. Below(x, S) \in SUBSET S
      BY DEF Below
    <3> QED  BY <3>1, FS_Subset DEF FiniteSubsetsOf
  <2> QED  BY <2>1
<1>2. PICK B \in T : \A C \in T : ~ (<<C, B>> \in StrictSubsetOrdering(S))
  <2> HIDE DEF T
  <2> QED  BY <1>1, WFMin, FS_StrictSubsetOrderingWellFounded
<1>3. PICK x \in S : B = Below(x, S)
  BY <1>2
<1>4. \A y \in S : x =< y
  <2>1. SUFFICES ASSUME NEW y \in S, y < x  PROVE FALSE
    OBVIOUS
  <2>2. Below(y, S) \subseteq Below(x, S) /\ Below(y, S) # Below(x, S)
    <3>1. x \in Int /\ y \in Int
      OBVIOUS
    <3>2. ASSUME NEW z \in Below(y, S)  PROVE z \in Below(x, S)
      <4>1. z \in S /\ z \in Int /\ z < y
        BY DEF Below
      <4> QED  BY <4>1, <3>1, <2>1 DEF Below
    <3>3. y \in Below(x, S) /\ y \notin Below(y, S)
      BY <3>1, <2>1 DEF Below
    <3> QED  BY <3>2, <3>3
  <2>3. <<Below(y, S), B>> \in StrictSubsetOrdering(S)
    BY <2>2, <1>3 DEF StrictSubsetOrdering, Below
  <2> QED  BY <2>3, <1>2
<1> QED  BY <1>4 DEF Least

\* The same for max().
LEMMA GreatestIsGreatest ==
  ASSUME NEW S, S \subseteq Int, IsFiniteSet(S), S # {}
  PROVE  Greatest(S) \in S /\ \A y \in S : Greatest(S) >= y
<1> DEFINE f == [x \in S |-> -x]
           N == {f[x] : x \in S}
<1>1. f \in Surjection(S, N)
  BY DEF Surjection
<1>2. IsFiniteSet(N)
  <2> HIDE DEF f, N
  <2> QED  BY <1>1, FS_Surjection
<1>5. N \subseteq Int /\ N # {}
  OBVIOUS
<1>3. Least(N) \in N /\ \A y \in N : Least(N) =< y
  <2> HIDE DEF f, N
  <2> QED  BY <1>2, <1>5, LeastIsLeast
<1>4. \E x \in S : \A y \in S : x >= y
  <2>1. PICK x \in S : Least(N) = -x
    BY <1>3
  <2>2. ASSUME NEW y \in S  PROVE x >= y
    <3>1. -y \in N /\ x \in Int /\ y \in Int
      OBVIOUS
    <3>2. Least(N) =< -y
      <4> HIDE DEF N
      <4> QED  BY <3>1, <1>3
    <3> QED  BY <3>1, <3>2, <2>1
  <2> QED  BY <2>2
<1> QED  BY <1>4 DEF Greatest

\* The values of a function on a finite set.
LEMMA ImageIsFinite ==
  ASSUME NEW f, IsFiniteSet(DOMAIN f)
  PROVE  IsFiniteSet({f[x] : x \in DOMAIN f})
<1>1. [x \in DOMAIN f |-> f[x]] \in Surjection(DOMAIN f, {f[x] : x \in DOMAIN f})
  BY DEF Surjection
<1> QED  BY <1>1, FS_Surjection

-------------------------------------------------------------------------------
(* The input and the arithmetic on it                                       *)

Input == backlog \in Backlogs

\* What the input of a behaviour is like.
LEMMA InputShape ==
  ASSUME Input
  PROVE  /\ \A n \in Nodes : /\ DependsOn(n) \subseteq Nodes /\ IsFiniteSet(DependsOn(n))
                             /\ Dependents(n) \subseteq Nodes
                             /\ IsFiniteSet(Dependents(n))
                             /\ Duration(n) \in Nat
         /\ IsFiniteSet(Streams) /\ Streams # {} /\ Streams \subseteq Int
         /\ IsFiniteSet(Nodes) /\ Nodes \subseteq Nat
<1>1. /\ backlog.depends_on \in [Nodes -> SUBSET Nodes]
      /\ backlog.duration \in [Nodes -> Nat]
      /\ backlog.capacity \in Nat \ {0}
  BY BacklogsAssumption DEF Input
<1>2. IsFiniteSet(Streams) /\ Streams # {} /\ Streams \subseteq Int
  <2>1. 1 \in Streams
    BY <1>1 DEF Streams
  <2>2. IsFiniteSet(1 .. backlog.capacity)
    BY <1>1, FS_Interval
  <2> QED  BY <2>1, <2>2 DEF Streams
<1>3. ASSUME NEW n \in Nodes
      PROVE  /\ DependsOn(n) \subseteq Nodes /\ Dependents(n) \subseteq Nodes
             /\ Duration(n) \in Nat
  BY <1>1 DEF DependsOn, Dependents, Duration
<1> QED  BY <1>2, <1>3, NodesAssumption, FS_Subset

\* The date of an asset is an obligation of it or a day of exposure, and none of
\* those is earlier.
LEMMA WorstIsEarliest ==
  ASSUME NEW asset, asset.functions \subseteq Functions, asset.functions # {},
         asset.shelf_life \in Nat
  PROVE  /\ Worst(asset) \in Int
         /\ \A fn \in asset.functions :
              /\ Worst(asset) =< Physics(asset, fn)
              /\ \A inst \in Obligations(asset, fn) : Worst(asset) =< inst.date
<1>1. ASSUME NEW fn \in Functions
      PROVE  /\ MustFinish(asset, fn) \in Int
             /\ Physics(asset, fn) \in Int
             /\ MustFinish(asset, fn) =< Physics(asset, fn)
             /\ \A inst \in Obligations(asset, fn) :
                  inst.date \in Int /\ MustFinish(asset, fn) =< inst.date
  <2> DEFINE Dates == {inst.date : inst \in Obligations(asset, fn)}
             date  == [inst \in Obligations(asset, fn) |-> inst.date]
  <2>1. Physics(asset, fn) \in Int
    BY CrqcAssumption DEF Physics
  <2>2. Obligations(asset, fn) \subseteq Calendar
    BY DEF Obligations
  <2>3. IsFiniteSet(Dates)
    <3>1. IsFiniteSet(DOMAIN date)
      BY <2>2, FS_Subset, CalendarAssumption
    <3>2. IsFiniteSet({date[i] : i \in DOMAIN date})
      <4> HIDE DEF date
      <4> QED  BY <3>1, ImageIsFinite
    <3>3. {date[i] : i \in DOMAIN date} = Dates
      OBVIOUS
    <3> QED  BY <3>2, <3>3
  <2>4. Dates \subseteq Int
    BY <2>2, CalendarAssumption
  <2>5. IsFiniteSet({Physics(asset, fn)} \cup Dates)
    <3> HIDE DEF Dates
    <3> QED  BY <2>3, FS_Singleton, FS_Union
  <2>6. LET S == {Physics(asset, fn)} \cup Dates IN
        Least(S) \in S /\ \A y \in S : Least(S) =< y
    <3> HIDE DEF Dates
    <3> QED  BY <2>1, <2>4, <2>5, LeastIsLeast
  <2>7. MustFinish(asset, fn) = Least({Physics(asset, fn)} \cup Dates)
    BY DEF MustFinish
  <2>8. \A inst \in Obligations(asset, fn) : inst.date \in Dates
    OBVIOUS
  <2> HIDE DEF Dates
  <2> QED  BY <2>1, <2>4, <2>6, <2>7, <2>8
<1> DEFINE verdict == [fn \in asset.functions |-> MustFinish(asset, fn)]
           Verdicts == {MustFinish(asset, fn) : fn \in asset.functions}
<1>2. IsFiniteSet(Verdicts)
  <2>1. IsFiniteSet(Functions)
    <3>1. Functions = {"confidentiality"} \cup {"authentication"} \cup {"signing"}
      BY DEF Functions
    <3> QED  BY <3>1, FS_Singleton, FS_Union
  <2>2. IsFiniteSet(DOMAIN verdict)
    BY <2>1, FS_Subset
  <2>3. IsFiniteSet({verdict[fn] : fn \in DOMAIN verdict})
    <3> HIDE DEF verdict
    <3> QED  BY <2>2, ImageIsFinite
  <2>4. {verdict[fn] : fn \in DOMAIN verdict} = Verdicts
    OBVIOUS
  <2> QED  BY <2>3, <2>4
<1>3. Verdicts \subseteq Int /\ Verdicts # {}
  BY <1>1
<1>4. Least(Verdicts) \in Verdicts /\ \A y \in Verdicts : Least(Verdicts) =< y
  <2> HIDE DEF Verdicts
  <2> QED  BY <1>2, <1>3, LeastIsLeast
<1>5. Worst(asset) = Least(Verdicts)
  BY DEF Worst
<1>6. \A fn \in asset.functions : MustFinish(asset, fn) \in Verdicts
  OBVIOUS
<1>7. Worst(asset) \in Int /\ \A fn \in asset.functions : Worst(asset) =< MustFinish(asset, fn)
  <2> HIDE DEF Verdicts
  <2> QED  BY <1>3, <1>4, <1>5, <1>6
<1>8. ASSUME NEW fn \in asset.functions
      PROVE  /\ Worst(asset) =< Physics(asset, fn)
             /\ \A inst \in Obligations(asset, fn) : Worst(asset) =< inst.date
  BY <1>1, <1>7
<1> QED  BY <1>7, <1>8

\* A node's own date is a number.
LEMMA MustFinishIsDate ==
  ASSUME Input, NEW n \in Nodes
  PROVE  MustFinishOf(n) \in Int
BY WorstIsEarliest, AssetsAssumption, FarAssumption DEF Input, MustFinishOf

\* Deadline(n) is the least of the node's own date and of its dependents'
\* latest starts.
LEMMA DeadlineIsLeast ==
  ASSUME Input, deadline \in [Nodes -> Int], NEW n \in Nodes
  PROVE  /\ Deadline(n) \in Int
         /\ Deadline(n) =< MustFinishOf(n)
         /\ \A u \in Dependents(n) : Deadline(n) =< LatestStart(u)
         /\ \/ Deadline(n) = MustFinishOf(n)
            \/ \E u \in Dependents(n) : Deadline(n) = LatestStart(u)
<1> DEFINE Inherited == {deadline[u] - Duration(u) : u \in Dependents(n)}
           late == [u \in Dependents(n) |-> deadline[u] - Duration(u)]
<1>1. IsFiniteSet(Inherited)
  <2>1. IsFiniteSet(DOMAIN late)
    BY InputShape
  <2>2. IsFiniteSet({late[u] : u \in DOMAIN late})
    <3> HIDE DEF late
    <3> QED  BY <2>1, ImageIsFinite
  <2>3. {late[u] : u \in DOMAIN late} = Inherited
    OBVIOUS
  <2> QED  BY <2>2, <2>3
<1>2. Inherited \subseteq Int
  <2>1. ASSUME NEW u \in Dependents(n)  PROVE deadline[u] - Duration(u) \in Int
    BY InputShape
  <2> QED  BY <2>1
<1>3. MustFinishOf(n) \in Int
  BY MustFinishIsDate
<1>4. LET S == {MustFinishOf(n)} \cup Inherited IN
      Least(S) \in S /\ \A y \in S : Least(S) =< y
  <2> HIDE DEF Inherited
  <2> QED  BY <1>1, <1>2, <1>3, FS_Singleton, FS_Union, LeastIsLeast
<1>5. Deadline(n) = Least({MustFinishOf(n)} \cup Inherited)
  BY DEF Deadline
<1>6. \A u \in Dependents(n) : LatestStart(u) \in Inherited
  BY DEF LatestStart
<1>7. Deadline(n) \in Inherited => \E u \in Dependents(n) : Deadline(n) = LatestStart(u)
  BY DEF LatestStart
<1> HIDE DEF Inherited
<1> QED  BY <1>2, <1>3, <1>4, <1>5, <1>6, <1>7

\* A node starts when its stream is free and its dependencies are finished, and
\* no later.
LEMMA EarliestIsLate ==
  ASSUME Input, TypeOK, NEW n \in Nodes, NEW k \in Streams
  PROVE  /\ Earliest(n, k) \in Nat
         /\ free_at[k] =< Earliest(n, k)
         /\ \A d \in DependsOn(n) : finish[d] =< Earliest(n, k)
         /\ Earliest(n, k) \in {0, free_at[k]} \cup {finish[d] : d \in DependsOn(n)}
<1> DEFINE Ends == {finish[d] : d \in DependsOn(n)}
           ends == [d \in DependsOn(n) |-> finish[d]]
<1>1. IsFiniteSet(Ends)
  <2>1. IsFiniteSet(DOMAIN ends)
    BY InputShape
  <2>2. IsFiniteSet({ends[d] : d \in DOMAIN ends})
    <3> HIDE DEF ends
    <3> QED  BY <2>1, ImageIsFinite
  <2>3. {ends[d] : d \in DOMAIN ends} = Ends
    OBVIOUS
  <2> QED  BY <2>2, <2>3
<1>2. Ends \subseteq Nat
  BY InputShape DEF TypeOK
<1>3. free_at[k] \in Nat
  BY DEF TypeOK
<1>4. IsFiniteSet({0, free_at[k]})
  <2>1. IsFiniteSet({0} \cup {free_at[k]})
    BY FS_Singleton, FS_AddElement
  <2>2. {0, free_at[k]} = {0} \cup {free_at[k]}
    OBVIOUS
  <2> QED  BY <2>1, <2>2
<1> DEFINE Bounds == {0, free_at[k]} \cup Ends
<1>5. Greatest(Bounds) \in Bounds /\ \A y \in Bounds : Greatest(Bounds) >= y
  <2>1. IsFiniteSet(Bounds)
    <3> HIDE DEF Ends
    <3> QED  BY <1>1, <1>4, FS_Union
  <2>2. Bounds \subseteq Int /\ 0 \in Bounds
    BY <1>2, <1>3
  <2> HIDE DEF Bounds
  <2> QED  BY <2>1, <2>2, GreatestIsGreatest
<1>6. Earliest(n, k) = Greatest(Bounds)
  BY DEF Earliest
<1>7. /\ Bounds \subseteq Nat /\ free_at[k] \in Bounds
      /\ \A d \in DependsOn(n) : finish[d] \in Bounds
  BY <1>2, <1>3
<1>8. Earliest(n, k) \in {0, free_at[k]} \cup {finish[d] : d \in DependsOn(n)}
  BY <1>5, <1>6
<1> HIDE DEF Bounds
<1> QED  BY <1>5, <1>6, <1>7, <1>8

-------------------------------------------------------------------------------
(* topological_order                                                        *)

\* The node taken is one of those that are ready.
LEMMA LeastIsReady ==
  ASSUME Input, TypeOK, ready # {}
  PROVE  Least(ready) \in ready
<1>1. IsFiniteSet(ready) /\ ready \subseteq Int
  BY InputShape, FS_Subset DEF TypeOK
<1> QED  BY <1>1, LeastIsLeast

\* One more node in the order.
LEMMA PlacedGrows ==
  ASSUME TypeOK, NEW n \in Nodes, order' = Append(order, n)
  PROVE  /\ order' \in Seq(Nodes) /\ Len(order') = Len(order) + 1
         /\ \A i \in DOMAIN order : i \in DOMAIN order' /\ order'[i] = order[i]
         /\ \A i \in DOMAIN order' : i \in DOMAIN order \/ i = Len(order) + 1
         /\ Len(order) + 1 \in DOMAIN order' /\ order'[Len(order) + 1] = n
         /\ DOMAIN order = 1 .. Len(order) /\ Len(order) \in Nat
         /\ Placed' = Placed \cup {n}
<1>1. order \in Seq(Nodes)
  BY DEF TypeOK
<1>2. /\ order' \in Seq(Nodes) /\ Len(order') = Len(order) + 1
      /\ DOMAIN order = 1 .. Len(order) /\ Len(order) \in Nat
      /\ DOMAIN order' = 1 .. Len(order) + 1
      /\ \A i \in 1 .. Len(order) : order'[i] = order[i]
      /\ order'[Len(order) + 1] = n
  BY <1>1
<1>3. /\ \A i \in DOMAIN order : i \in DOMAIN order' /\ order'[i] = order[i]
      /\ \A i \in DOMAIN order' : i \in DOMAIN order \/ i = Len(order) + 1
      /\ Len(order) + 1 \in DOMAIN order'
  BY <1>2
<1>4. Placed' = Placed \cup {n}
  <2>1. \A m : m \in Placed' => m \in Placed \cup {n}
    BY <1>2, <1>3 DEF Placed
  <2>2. \A m : m \in Placed => m \in Placed'
    BY <1>3 DEF Placed
  <2>3. n \in Placed'
    BY <1>2, <1>3 DEF Placed
  <2> QED  BY <2>1, <2>2, <2>3
<1> QED  BY <1>2, <1>3, <1>4

\* A node all of whose dependencies are placed is not blocked if they are not.
LEMMA PlaceableIsFree ==
  ASSUME NEW n \in Nodes, DependsOn(n) \subseteq Placed, Placed \cap Blocked = {}
  PROVE  n \notin Blocked
<1>1. SUFFICES ASSUME NEW S \in SUBSET Nodes, n \in S,
                      \A m \in S : DependsOn(m) \cap S # {}
               PROVE  FALSE
  BY DEF Blocked
<1>2. PICK d \in DependsOn(n) : d \in S
  BY <1>1
<1>3. d \in Blocked
  BY <1>1, <1>2 DEF Blocked
<1> QED  BY <1>2, <1>3

\* indeg counts the dependencies that are not placed.
LEMMA DecrementCounts ==
  ASSUME Input, TypeOK, OrderInv, NEW n \in Nodes \ Placed,
         backlog' = backlog, indeg' = Decremented(n), Placed' = Placed \cup {n}
  PROVE  \A u \in Nodes : /\ indeg'[u] = Cardinality(DependsOn(u) \ Placed')
                          /\ indeg'[u] \in Nat
                          /\ indeg'[u] = 0 <=> DependsOn(u) \subseteq Placed'
<1> SUFFICES ASSUME NEW u \in Nodes
             PROVE  /\ indeg'[u] = Cardinality(DependsOn(u) \ Placed')
                    /\ indeg'[u] \in Nat
                    /\ indeg'[u] = 0 <=> DependsOn(u) \subseteq Placed'
  OBVIOUS
<1> DEFINE Waiting == DependsOn(u) \ Placed
<1>1. IsFiniteSet(Waiting)
  BY InputShape, FS_Difference
<1>2. /\ DependsOn(u) \ Placed' = Waiting \ {n}
      /\ n \in Waiting <=> n \in DependsOn(u)
  OBVIOUS
<1>3. /\ IsFiniteSet(Waiting \ {n})
      /\ Cardinality(Waiting \ {n}) = IF n \in Waiting THEN Cardinality(Waiting) - 1
                                                      ELSE Cardinality(Waiting)
  <2> HIDE DEF Waiting
  <2> QED  BY <1>1, FS_RemoveElement
<1>4. indeg'[u] = IF n \in DependsOn(u) THEN indeg[u] - 1 ELSE indeg[u]
  BY DEF Decremented
<1>5. indeg[u] = Cardinality(Waiting)
  BY DEF OrderInv
<1>6. indeg'[u] = Cardinality(Waiting \ {n})
  <2> HIDE DEF Waiting
  <2> QED  BY <1>2, <1>3, <1>4, <1>5
<1>7. Cardinality(Waiting \ {n}) \in Nat /\ (Cardinality(Waiting \ {n}) = 0 <=> Waiting \ {n} = {})
  <2> HIDE DEF Waiting
  <2> QED  BY <1>3, FS_CardinalityType, FS_EmptySet
<1> QED  BY <1>2, <1>6, <1>7

\* Kahn's loop keeps its invariant.
LEMMA PlaceStep ==
  ASSUME Input, TypeOK, OrderInv, Place
  PROVE  OrderInv' /\ indeg' \in [Nodes -> Nat] /\ ready' \subseteq Nodes
         /\ order' \in Seq(Nodes)
<1> DEFINE n == Least(ready)
<1>1. /\ pc = "order" /\ ready # {}
      /\ order' = Append(order, n)
      /\ indeg' = Decremented(n)
      /\ ready' = (ready \ {n}) \cup Freed(n)
      /\ backlog' = backlog /\ pc' = pc
  BY DEF Place
<1>2. n \in ready
  BY <1>1, LeastIsReady
<1>3. n \in Nodes \ Placed /\ DependsOn(n) \subseteq Placed
  BY <1>2 DEF OrderInv
<1> HIDE DEF n
<1>4. /\ order' \in Seq(Nodes) /\ Placed' = Placed \cup {n}
      /\ \A i \in DOMAIN order : i \in DOMAIN order' /\ order'[i] = order[i]
      /\ \A i \in DOMAIN order' : i \in DOMAIN order \/ i = Len(order) + 1
      /\ order'[Len(order) + 1] = n
      /\ DOMAIN order = 1 .. Len(order) /\ Len(order) \in Nat
  BY <1>1, <1>3, PlacedGrows
<1>5. \A u \in Nodes : /\ indeg'[u] = Cardinality(DependsOn(u) \ Placed')
                       /\ indeg'[u] \in Nat
                       /\ indeg'[u] = 0 <=> DependsOn(u) \subseteq Placed'
  BY <1>1, <1>3, <1>4, DecrementCounts
<1>6. indeg' \in [Nodes -> Nat]
  BY <1>1, <1>5 DEF Decremented
<1>7. /\ \A u : DependsOn(u)' = DependsOn(u) /\ Dependents(u)' = Dependents(u)
      /\ Blocked' = Blocked
  BY <1>1 DEF DependsOn, Dependents, Blocked
<1>8. ready' = {u \in Nodes \ Placed' : DependsOn(u) \subseteq Placed'}
  <2>1. Freed(n) = {u \in Nodes : n \in DependsOn(u) /\ DependsOn(u) \subseteq Placed'}
    BY <1>1, <1>5 DEF Freed, Dependents
  <2>2. ready = {u \in Nodes \ Placed : DependsOn(u) \subseteq Placed}
    BY DEF OrderInv
  <2>3. \A u \in Placed : DependsOn(u) \subseteq Placed
    BY DEF OrderInv
  <2> QED  BY <1>1, <1>3, <1>4, <2>1, <2>2, <2>3
<1>9. (Placed \cap Blocked = {})'
  BY <1>3, <1>4, <1>7, PlaceableIsFree DEF OrderInv
<1>10. \A i, j \in DOMAIN order' :
         /\ i < j => order'[i] # order'[j]
         /\ order'[j] \in DependsOn(order'[i]) => j < i
  <2> SUFFICES ASSUME NEW i \in DOMAIN order', NEW j \in DOMAIN order'
               PROVE  /\ i < j => order'[i] # order'[j]
                      /\ order'[j] \in DependsOn(order'[i]) => j < i
    OBVIOUS
  <2>1. \A k \in DOMAIN order : order[k] \in Placed /\ order[k] # n
    BY <1>3 DEF Placed
  <2>2. CASE i \in DOMAIN order /\ j \in DOMAIN order
    BY <1>4, <2>2 DEF OrderInv, OrderIsExact
  <2>3. CASE i = Len(order) + 1
    BY <1>3, <1>4, <2>1, <2>3
  <2>4. CASE i \in DOMAIN order /\ j = Len(order) + 1
    <3>1. order'[i] \in Placed /\ order'[j] = n /\ order'[i] # n
      BY <1>4, <2>1, <2>4
    <3>2. n \notin DependsOn(order'[i])
      BY <1>3, <3>1 DEF OrderInv
    <3> QED  BY <3>1, <3>2
  <2> QED  BY <1>4, <2>2, <2>3, <2>4
<1>11. OrderIsExact'
  BY <1>1, <1>10 DEF OrderIsExact, DependsOn
<1>12. (\A u \in Placed : DependsOn(u) \subseteq Placed)'
  BY <1>3, <1>4, <1>7 DEF OrderInv
<1>13. ready' \subseteq Nodes
  BY <1>8
<1> QED  BY <1>1, <1>4, <1>5, <1>6, <1>7, <1>8, <1>9, <1>11, <1>12, <1>13 DEF OrderInv

\* When nothing is ready, what is left is blocked and nothing else is.
LEMMA AllPlacedStep ==
  ASSUME Input, TypeOK, OrderInv, AllPlaced
  PROVE  OrderInv'
<1>1. /\ ready = {} /\ backlog' = backlog
      /\ indeg' = indeg /\ ready' = ready /\ order' = order
  BY DEF AllPlaced, sorting
<1>2. \A n \in Nodes \ Placed : ~ (DependsOn(n) \subseteq Placed)
  BY <1>1 DEF OrderInv
<1>3. \A n \in Nodes \ Placed : DependsOn(n) \cap (Nodes \ Placed) # {}
  BY <1>2, InputShape
<1>4. Nodes \ Placed \subseteq Blocked
  BY <1>3 DEF Blocked
<1>5. Blocked \subseteq Nodes
  BY DEF Blocked
<1>6. Placed \subseteq Nodes
  BY DEF Placed, TypeOK
<1>7. Placed = Nodes \ Blocked /\ Nodes \ Placed = Blocked
  BY <1>4, <1>5, <1>6 DEF OrderInv
<1>8. Stuck = Nodes \ Placed
  <2>1. ASSUME NEW n \in Nodes  PROVE indeg[n] > 0 <=> ~ (DependsOn(n) \subseteq Placed)
    <3>1. IsFiniteSet(DependsOn(n) \ Placed)
      BY InputShape, FS_Difference
    <3>2. /\ Cardinality(DependsOn(n) \ Placed) \in Nat
          /\ Cardinality(DependsOn(n) \ Placed) = 0 <=> DependsOn(n) \ Placed = {}
      BY <3>1, FS_CardinalityType, FS_EmptySet
    <3> QED  BY <3>2 DEF OrderInv
  <2> QED  BY <2>1, <1>2 DEF Stuck, OrderInv
<1>9. /\ Placed' = Placed /\ Blocked' = Blocked /\ Stuck' = Stuck
      /\ \A n : DependsOn(n)' = DependsOn(n)
  BY <1>1 DEF Placed, Blocked, Stuck, DependsOn
<1> QED  BY <1>1, <1>7, <1>8, <1>9 DEF OrderInv, OrderIsExact

\* The later loops leave the order alone.
LEMMA OrderIsLeft ==
  ASSUME OrderInv, UNCHANGED <<backlog, sorting>>, pc # "order", pc' # "order"
  PROVE  OrderInv'
<1>1. /\ Placed' = Placed /\ Blocked' = Blocked /\ Stuck' = Stuck
      /\ \A n : DependsOn(n)' = DependsOn(n)
  BY DEF Placed, Blocked, Stuck, DependsOn, sorting
<1> QED  BY <1>1 DEF OrderInv, OrderIsExact, sorting

-------------------------------------------------------------------------------
(* backward_pass                                                            *)

\* A deadline depends on those of the dependents only.
LEMMA DeadlineIsLeft ==
  ASSUME backlog' = backlog
  PROVE  \A m \in Nodes : (\A u \in Dependents(m) : deadline'[u] = deadline[u])
                            => Deadline(m)' = Deadline(m)
<1> SUFFICES ASSUME NEW m \in Nodes, \A u \in Dependents(m) : deadline'[u] = deadline[u]
             PROVE  Deadline(m)' = Deadline(m)
  OBVIOUS
<1>1. /\ Dependents(m)' = Dependents(m) /\ MustFinishOf(m)' = MustFinishOf(m)
      /\ \A u : Duration(u)' = Duration(u)
  BY DEF Dependents, DependsOn, MustFinishOf, Duration
<1>2. {deadline'[u] - Duration(u) : u \in Dependents(m)}
        = {deadline[u] - Duration(u) : u \in Dependents(m)}
  OBVIOUS
<1>3. Deadline(m)' = Least({MustFinishOf(m)} \cup {deadline'[u] - Duration(u) : u \in Dependents(m)})
  BY <1>1 DEF Deadline
<1> QED  BY <1>2, <1>3 DEF Deadline

\* Each node is reached after all its dependents that have a place.
LEMMA InheritStep ==
  ASSUME Input, TypeOK, OrderInv, DeadlineInv, Inherit
  PROVE  DeadlineInv' /\ deadline' \in [Nodes -> Int] /\ at' \in Nat
<1>1. /\ pc = "backward" /\ at > 0 /\ pc' = pc /\ at' = at - 1
      /\ deadline' = [deadline EXCEPT ![order[at]] = Deadline(order[at])]
      /\ backlog' = backlog /\ order' = order
  BY DEF Inherit, sorting
<1>2. /\ order \in Seq(Nodes) /\ at \in Nat /\ deadline \in [Nodes -> Int]
      /\ at =< Len(order)
  BY DEF TypeOK, DeadlineInv
<1>3. at \in DOMAIN order /\ order[at] \in Nodes
  BY <1>1, <1>2
<1>4. Deadline(order[at]) \in Int
  BY <1>2, <1>3, DeadlineIsLeast
<1>5. deadline' \in [Nodes -> Int] /\ at' \in Nat
  BY <1>1, <1>2, <1>4
<1>6. ASSUME NEW i \in DOMAIN order, i > at - 1
      PROVE  deadline'[order[i]] = Deadline(order[i])'
  <2>1. order[i] \in Nodes /\ i \in Nat
    BY <1>2
  <2>2. order[at] \notin Dependents(order[i])
    BY <1>2, <1>3, <1>6, <2>1 DEF OrderInv, OrderIsExact, Dependents
  <2>3. \A u \in Dependents(order[i]) : deadline'[u] = deadline[u]
    BY <1>1, <1>2, <2>2 DEF Dependents
  <2>4. Deadline(order[i])' = Deadline(order[i])
    <3>1. \A m \in Nodes : (\A u \in Dependents(m) : deadline'[u] = deadline[u])
                            => Deadline(m)' = Deadline(m)
      BY <1>1, DeadlineIsLeft
    <3>2. PICK m \in Nodes : m = order[i]
      BY <2>1
    <3>3. Deadline(m)' = Deadline(m)
      BY <3>1, <3>2, <2>3
    <3> QED  BY <1>1, <3>2, <3>3
  <2>5. CASE i = at
    BY <1>1, <1>2, <1>3, <2>4, <2>5
  <2>6. CASE i # at
    <3>1. i > at
      BY <1>2, <1>6, <2>1, <2>6
    <3>2. order[i] # order[at]
      BY <1>3, <3>1 DEF OrderInv, OrderIsExact
    <3>3. deadline[order[i]] = Deadline(order[i])
      BY <1>1, <3>1 DEF DeadlineInv
    <3> QED  BY <1>1, <1>2, <2>1, <2>4, <3>2, <3>3
  <2> QED  BY <2>5, <2>6
<1>7. (pc # "order" => \A i \in DOMAIN order : i > at => deadline[order[i]] = Deadline(order[i]))'
  BY <1>1, <1>6
<1> QED  BY <1>1, <1>2, <1>5, <1>7 DEF DeadlineInv

\* The other loops leave the deadlines alone.
LEMMA DeadlinesAreLeft ==
  ASSUME TypeOK, DeadlineInv, UNCHANGED <<backlog, deadline>>, order' = order, at' = at,
         pc = "order" <=> pc' = "order",
         pc' \in {"order", "backward"} <=> pc \in {"order", "backward"}
  PROVE  DeadlineInv'
<1>1. ASSUME NEW i \in DOMAIN order  PROVE Deadline(order[i])' = Deadline(order[i])
  <2>1. PICK m \in Nodes : m = order[i]
    BY DEF TypeOK
  <2>2. Deadline(m)' = Deadline(m)
    BY DeadlineIsLeft
  <2> QED  BY <2>1, <2>2
<1>2. (pc # "order" => \A i \in DOMAIN order : i > at => deadline[order[i]] = Deadline(order[i]))'
  BY <1>1 DEF DeadlineInv
<1> QED  BY <1>2 DEF DeadlineInv

-------------------------------------------------------------------------------
(* list_schedule                                                            *)

\* The stream taken is one of those that are free earliest.
LEMMA FreeStreamIsFree ==
  ASSUME Input, TypeOK
  PROVE  FreeStream \in Streams /\ \A j \in Streams : free_at[FreeStream] =< free_at[j]
<1> DEFINE Free == {k \in Streams : \A j \in Streams : free_at[k] =< free_at[j]}
           times == [k \in Streams |-> free_at[k]]
           Times == {times[k] : k \in DOMAIN times}
<1>1. IsFiniteSet(Times)
  <2>1. IsFiniteSet(DOMAIN times)
    BY InputShape
  <2> HIDE DEF times
  <2> QED  BY <2>1, ImageIsFinite
<1>2. Times \subseteq Int /\ Times # {}
  BY InputShape DEF TypeOK
<1>3. Least(Times) \in Times /\ \A y \in Times : Least(Times) =< y
  <2> HIDE DEF Times
  <2> QED  BY <1>1, <1>2, LeastIsLeast
<1>4. PICK k \in Streams : Least(Times) = free_at[k]
  BY <1>3
<1>5. \A j \in Streams : free_at[j] \in Times
  OBVIOUS
<1>6. k \in Free
  <2> HIDE DEF Times
  <2> QED  BY <1>3, <1>4, <1>5
<1>7. IsFiniteSet(Free) /\ Free \subseteq Int /\ Free \subseteq Streams
  BY InputShape, FS_Subset
<1>8. Least(Free) \in Free
  <2> HIDE DEF Free
  <2> QED  BY <1>6, <1>7, LeastIsLeast
<1> QED  BY <1>7, <1>8 DEF FreeStream

\* The node taken is one of those that can be scheduled.
LEMMA MostUrgentIsSchedulable ==
  ASSUME Input, TypeOK, Schedulable # {}
  PROVE  MostUrgent \in Schedulable
<1> DEFINE late == [n \in Schedulable |-> LatestStart(n)]
           Lates == {late[n] : n \in DOMAIN late}
           First == {n \in Schedulable : LatestStart(n) = Least(Lates)}
<1>1. Schedulable \subseteq Nodes
  BY DEF Schedulable, Pending, Placed, TypeOK
<1>2. IsFiniteSet(Schedulable)
  BY <1>1, InputShape, FS_Subset
<1>3. \A n \in Schedulable : LatestStart(n) \in Int /\ n \in Nat
  BY <1>1, InputShape, SMTT(60) DEF LatestStart, TypeOK
<1>4. IsFiniteSet(Lates)
  <2>1. IsFiniteSet(DOMAIN late)
    BY <1>2
  <2> HIDE DEF late
  <2> QED  BY <2>1, ImageIsFinite
<1>5. Lates \subseteq Int /\ Lates # {}
  BY <1>3
<1>6. Least(Lates) \in Lates /\ \A y \in Lates : Least(Lates) =< y
  <2> HIDE DEF Lates
  <2> QED  BY <1>4, <1>5, LeastIsLeast
<1>7. First # {} /\ First \subseteq Schedulable
  BY <1>6
<1>8. IsFiniteSet(First) /\ First \subseteq Int
  <2> HIDE DEF First
  <2> QED  BY <1>2, <1>3, <1>7, FS_Subset
<1>9. Least(First) \in First /\ \A m \in First : Least(First) =< m
  <2> HIDE DEF First
  <2> QED  BY <1>7, <1>8, LeastIsLeast
<1>10. ASSUME NEW m \in Schedulable
       PROVE  \/ LatestStart(Least(First)) < LatestStart(m)
              \/ LatestStart(Least(First)) = LatestStart(m) /\ Least(First) =< m
  <2>1. LatestStart(Least(First)) = Least(Lates) /\ Least(First) \in Schedulable
    BY <1>9
  <2>2. LatestStart(m) \in Lates
    OBVIOUS
  <2>3. Least(Lates) =< LatestStart(m) /\ Least(Lates) \in Int
    <3> HIDE DEF Lates
    <3> QED  BY <1>5, <1>6, <2>2
  <2>4. LatestStart(m) = Least(Lates) => m \in First
    OBVIOUS
  <2> HIDE DEF First, Lates
  <2> QED  BY <1>3, <1>9, <2>1, <2>3, <2>4
<1>11. \E n \in Schedulable : \A m \in Schedulable :
         \/ LatestStart(n) < LatestStart(m)
         \/ LatestStart(n) = LatestStart(m) /\ n =< m
  <2>1. Least(First) \in Schedulable
    BY <1>9
  <2> HIDE DEF First
  <2> QED  BY <2>1, <1>10
<1> QED  BY <1>11 DEF MostUrgent

\* A turn of the scheduler keeps the schedule feasible.
LEMMA ScheduleStep ==
  ASSUME Input, TypeOK, StreamInv, ScheduleIsFeasible, ScheduleNext
  PROVE  /\ StreamInv' /\ ScheduleIsFeasible'
         /\ done' \subseteq Nodes /\ start' \in [Nodes -> Nat] /\ finish' \in [Nodes -> Nat]
         /\ stream' \in [Nodes -> Nat] /\ (free_at \in [Streams -> Nat])'
<1> DEFINE n == MostUrgent
           k == FreeStream
           t == Earliest(n, k)
<1>1. /\ pc = "schedule" /\ pc' = pc /\ backlog' = backlog /\ order' = order
      /\ start' = [start EXCEPT ![n] = t]
      /\ finish' = [finish EXCEPT ![n] = t + Duration(n)]
      /\ stream' = [stream EXCEPT ![n] = k]
      /\ free_at' = [free_at EXCEPT ![k] = t + Duration(n)]
      /\ done' = done \cup {n}
  BY DEF ScheduleNext, Schedule, sorting
<1>2. n \in Schedulable
  BY MostUrgentIsSchedulable DEF ScheduleNext
<1>3. n \in Placed /\ n \notin done /\ DependsOn(n) \subseteq done /\ n \in Nodes
  BY <1>2 DEF Schedulable, Pending, Placed, TypeOK
<1>4. k \in Streams
  BY FreeStreamIsFree
<1> HIDE DEF n, k
<1>5. /\ t \in Nat /\ free_at[k] =< t
      /\ \A d \in DependsOn(n) : finish[d] =< t
  BY <1>3, <1>4, EarliestIsLate
<1> HIDE DEF t
<1>6. Duration(n) \in Nat /\ Streams \subseteq Nat
  BY <1>3, InputShape DEF Streams
<1>7. /\ Streams' = Streams /\ Placed' = Placed
      /\ \A m : DependsOn(m)' = DependsOn(m)
  BY <1>1 DEF Streams, Placed, DependsOn
<1>8. /\ done' \subseteq Nodes /\ start' \in [Nodes -> Nat] /\ finish' \in [Nodes -> Nat]
      /\ stream' \in [Nodes -> Nat] /\ (free_at \in [Streams -> Nat])'
  BY <1>1, <1>3, <1>4, <1>5, <1>6, <1>7, SMTT(60) DEF TypeOK
<1>9. /\ start'[n] = t /\ finish'[n] = t + Duration(n) /\ stream'[n] = k
      /\ \A m \in done : /\ start'[m] = start[m] /\ finish'[m] = finish[m]
                         /\ stream'[m] = stream[m] /\ m # n /\ m \in Nodes
      /\ free_at'[k] = t + Duration(n)
      /\ \A j \in Streams : j # k => free_at'[j] = free_at[j]
  BY <1>1, <1>3, <1>4 DEF TypeOK
<1>10. /\ \A m \in done : /\ stream[m] \in Streams /\ finish[m] \in Nat
                          /\ finish[m] =< free_at[stream[m]]
       /\ \A j \in Streams : free_at[j] \in Nat
  BY DEF StreamInv, ScheduleIsFeasible, TypeOK
<1>11. StreamInv'
  <2>1. ASSUME NEW m \in done'  PROVE finish'[m] =< free_at'[stream'[m]]
    <3>1. CASE m = n
      BY <1>5, <1>6, <1>9, <3>1
    <3>2. CASE m \in done /\ stream[m] = k
      <4>1. finish[m] =< free_at[k]
        BY <1>10, <3>2
      <4>2. free_at'[stream'[m]] = t + Duration(n) /\ finish'[m] = finish[m]
        BY <1>9, <3>2
      <4>3. finish[m] \in Nat /\ free_at[k] \in Nat
        BY <1>4, <1>10, <3>2
      <4> QED  BY <4>1, <4>2, <4>3, <1>5, <1>6
    <3>3. CASE m \in done /\ stream[m] # k
      BY <1>9, <1>10, <3>3
    <3> QED  BY <1>1, <3>1, <3>2, <3>3
  <2>2. done' \subseteq Placed'
    BY <1>1, <1>3, <1>7 DEF StreamInv
  <2>3. pc' = "schedule"
    BY <1>1
  <2> QED  BY <2>1, <2>2, <2>3 DEF StreamInv
<1>12. ScheduleIsFeasible'
  <2>1. ASSUME NEW m \in done'
        PROVE  /\ \A d \in DependsOn(m) : d \in done' /\ finish'[d] =< start'[m]
               /\ stream'[m] \in Streams
    <3>1. CASE m = n
      BY <1>1, <1>3, <1>4, <1>5, <1>9, <3>1
    <3>2. CASE m \in done
      BY <1>1, <1>9, <3>2 DEF ScheduleIsFeasible
    <3> QED  BY <1>1, <3>1, <3>2
  <2>2. ASSUME NEW m \in done, stream[m] = k  PROVE finish[m] =< t
    <3>1. finish[m] =< free_at[k] /\ finish[m] \in Nat /\ free_at[k] \in Nat
      BY <1>4, <1>10, <2>2
    <3> QED  BY <3>1, <1>5
  <2>3. ASSUME NEW m \in done', NEW l \in done' \ {m}, stream'[l] = stream'[m]
        PROVE  finish'[l] =< start'[m] \/ finish'[m] =< start'[l]
    <3>1. CASE m = n
      BY <1>1, <1>9, <2>2, <2>3, <3>1
    <3>2. CASE l = n
      BY <1>1, <1>9, <2>2, <2>3, <3>2
    <3>3. CASE m \in done /\ l \in done
      BY <1>9, <2>3, <3>3 DEF ScheduleIsFeasible
    <3> QED  BY <1>1, <3>1, <3>2, <3>3
  <2> QED  BY <1>7, <2>1, <2>3 DEF ScheduleIsFeasible
<1> QED  BY <1>8, <1>11, <1>12

\* The other loops leave the schedule alone.
LEMMA ScheduleIsLeft ==
  ASSUME StreamInv, ScheduleIsFeasible, UNCHANGED <<backlog, scheduling>>,
         Placed \subseteq Placed', pc' \in {"order", "backward"} => done = {}
  PROVE  StreamInv' /\ ScheduleIsFeasible' /\ Streams' = Streams
<1>1. /\ Streams' = Streams /\ \A n : DependsOn(n)' = DependsOn(n)
      /\ done' = done /\ start' = start /\ finish' = finish /\ stream' = stream
      /\ free_at' = free_at
  BY DEF Streams, DependsOn, scheduling
<1>2. StreamInv'
  BY <1>1 DEF StreamInv
<1>3. ScheduleIsFeasible'
  BY <1>1 DEF ScheduleIsFeasible
<1> QED  BY <1>1, <1>2, <1>3

-------------------------------------------------------------------------------
(* The theorems                                                             *)

\* The invariant holds before anything is placed.
LEMMA InductiveInit == Init => Inductive
<1> SUFFICES ASSUME Init  PROVE Inductive
  OBVIOUS
<1>1. Input
  BY DEF Init, Input
<1>2. order = <<>> /\ done = {} /\ at = 0 /\ pc = "order"
  BY DEF Init
<1>3. Placed = {} /\ DOMAIN order = {} /\ Len(order) = 0
  BY <1>2 DEF Placed
<1>4. TypeOK
  <2>1. ASSUME NEW n \in Nodes  PROVE Cardinality(DependsOn(n)) \in Nat
    BY <1>1, InputShape, FS_CardinalityType
  <2>2. indeg \in [Nodes -> Nat]
    BY <2>1 DEF Init
  <2>3. /\ ready \subseteq Nodes /\ order \in Seq(Nodes) /\ path \in Seq(Nodes)
        /\ deadline \in [Nodes -> Int] /\ start \in [Nodes -> Nat]
        /\ finish \in [Nodes -> Nat] /\ stream \in [Nodes -> Nat]
        /\ free_at \in [Streams -> Nat]
    BY FarAssumption DEF Init
  <2> QED  BY <1>2, <2>2, <2>3 DEF TypeOK
<1>5. OrderInv
  <2>1. \A n \in Nodes : DependsOn(n) \ Placed = DependsOn(n)
    BY <1>3
  <2>2. \A n \in Nodes : indeg[n] = Cardinality(DependsOn(n) \ Placed)
    BY <2>1 DEF Init
  <2>3. ready = {n \in Nodes \ Placed : DependsOn(n) \subseteq Placed}
    BY <1>3 DEF Init
  <2> QED  BY <1>2, <1>3, <2>2, <2>3 DEF OrderInv, OrderIsExact
<1>6. DeadlineInv /\ StreamInv /\ ScheduleIsFeasible
  BY <1>2, <1>3 DEF DeadlineInv, StreamInv, ScheduleIsFeasible
<1> QED  BY <1>1, <1>4, <1>5, <1>6 DEF Inductive, Input

\* Every step of the loops keeps it.
LEMMA InductiveStep == Inductive /\ [Next]_vars => Inductive'
<1> SUFFICES ASSUME Inductive, [Next]_vars  PROVE Inductive'
  OBVIOUS
<1>1. Input /\ TypeOK /\ OrderInv /\ DeadlineInv /\ StreamInv /\ ScheduleIsFeasible
  BY DEF Inductive, Input
<1>2. CASE Place
  <2>1. /\ pc = "order" /\ pc' = pc /\ UNCHANGED <<backlog, scheduling, deadline>>
        /\ at' = at /\ path' = path /\ ready # {}
        /\ order' = Append(order, Least(ready))
    BY <1>2 DEF Place, backward, cutting
  <2>2. /\ OrderInv' /\ indeg' \in [Nodes -> Nat] /\ ready' \subseteq Nodes
        /\ order' \in Seq(Nodes)
    BY <1>1, <1>2, PlaceStep
  <2>3. Least(ready) \in Nodes
    BY <1>1, <2>1, LeastIsReady DEF TypeOK
  <2>4. Placed \subseteq Placed' /\ Len(order') = Len(order) + 1 /\ Len(order) \in Nat
    BY <1>1, <2>1, <2>3, PlacedGrows
  <2>5. StreamInv' /\ ScheduleIsFeasible' /\ Streams' = Streams
    BY <1>1, <2>1, <2>4, ScheduleIsLeft DEF StreamInv
  <2>6. DeadlineInv'
    BY <1>1, <2>1, <2>4 DEF DeadlineInv, TypeOK
  <2>7. TypeOK'
    BY <1>1, <2>1, <2>2, <2>5 DEF TypeOK, scheduling
  <2> QED  BY <1>1, <2>1, <2>2, <2>5, <2>6, <2>7 DEF Inductive, Input
<1>3. CASE AllPlaced
  <2>1. /\ pc = "order" /\ pc' = "backward" /\ UNCHANGED <<backlog, sorting, scheduling, deadline>>
        /\ at' = Len(order) /\ path' = path /\ order' = order
    BY <1>3 DEF AllPlaced, cutting, sorting
  <2>2. OrderInv'
    BY <1>1, <1>3, AllPlacedStep
  <2>3. Placed' = Placed
    BY <2>1 DEF Placed
  <2>4. StreamInv' /\ ScheduleIsFeasible' /\ Streams' = Streams
    BY <1>1, <2>1, <2>3, ScheduleIsLeft DEF StreamInv
  <2>5. Len(order) \in Nat /\ DOMAIN order = 1 .. Len(order)
    BY <1>1 DEF TypeOK
  <2>6. DeadlineInv'
    BY <2>1, <2>5 DEF DeadlineInv
  <2>7. TypeOK'
    BY <1>1, <2>1, <2>4, <2>5 DEF TypeOK, scheduling, sorting
  <2> QED  BY <1>1, <2>1, <2>2, <2>4, <2>6, <2>7 DEF Inductive, Input
<1>4. CASE Inherit
  <2>1. /\ pc = "backward" /\ pc' = pc /\ UNCHANGED <<backlog, sorting, scheduling>>
        /\ path' = path /\ order' = order
    BY <1>4 DEF Inherit, cutting, sorting
  <2>2. DeadlineInv' /\ deadline' \in [Nodes -> Int] /\ at' \in Nat
    BY <1>1, <1>4, InheritStep
  <2>3. OrderInv'
    BY <1>1, <2>1, OrderIsLeft
  <2>4. StreamInv' /\ ScheduleIsFeasible' /\ Streams' = Streams
    <3>1. Placed' = Placed
      BY <2>1 DEF Placed
    <3> QED  BY <1>1, <2>1, <3>1, ScheduleIsLeft DEF StreamInv
  <2>5. TypeOK'
    BY <1>1, <2>1, <2>2, <2>4 DEF TypeOK, scheduling, sorting
  <2> QED  BY <1>1, <2>1, <2>2, <2>3, <2>4, <2>5 DEF Inductive, Input
<1>5. CASE AllInherited
  <2>1. /\ pc = "backward" /\ at = 0 /\ pc' = "schedule"
        /\ UNCHANGED <<backlog, sorting, deadline, scheduling>>
        /\ at' = at /\ path' = path /\ order' = order
    BY <1>5 DEF AllInherited, cutting, sorting, backward
  <2>2. OrderInv'
    BY <1>1, <2>1, OrderIsLeft
  <2>3. StreamInv' /\ ScheduleIsFeasible' /\ Streams' = Streams
    <3>1. Placed' = Placed
      BY <2>1 DEF Placed
    <3> QED  BY <1>1, <2>1, <3>1, ScheduleIsLeft
  <2>4. DeadlineInv'
    <3>1. ASSUME NEW i \in DOMAIN order  PROVE Deadline(order[i])' = Deadline(order[i])
      <4>1. PICK m \in Nodes : m = order[i]
        BY <1>1 DEF TypeOK
      <4>2. Deadline(m)' = Deadline(m)
        BY <2>1, DeadlineIsLeft
      <4> QED  BY <2>1, <4>1, <4>2
    <3>2. (\A i \in DOMAIN order : i > at => deadline[order[i]] = Deadline(order[i]))'
      BY <1>1, <2>1, <3>1 DEF DeadlineInv
    <3> QED  BY <1>1, <2>1, <3>2 DEF DeadlineInv
  <2>5. TypeOK'
    BY <1>1, <2>1, <2>3 DEF TypeOK, scheduling, sorting
  <2> QED  BY <1>1, <2>1, <2>2, <2>3, <2>4, <2>5 DEF Inductive, Input
<1>6. CASE ScheduleNext
  <2>1. /\ pc = "schedule" /\ pc' = pc /\ UNCHANGED <<backlog, sorting, deadline>>
        /\ at' = at /\ path' = path /\ order' = order
    BY <1>6 DEF ScheduleNext, cutting, sorting, backward
  <2>2. OrderInv'
    BY <1>1, <2>1, OrderIsLeft
  <2>3. DeadlineInv'
    BY <1>1, <2>1, DeadlinesAreLeft
  <2>4. /\ StreamInv' /\ ScheduleIsFeasible'
        /\ done' \subseteq Nodes /\ start' \in [Nodes -> Nat] /\ finish' \in [Nodes -> Nat]
        /\ stream' \in [Nodes -> Nat] /\ (free_at \in [Streams -> Nat])'
    BY <1>1, <1>6, ScheduleStep
  <2>5. TypeOK'
    BY <1>1, <2>1, <2>4 DEF TypeOK, sorting
  <2> QED  BY <1>1, <2>1, <2>2, <2>3, <2>4, <2>5 DEF Inductive, Input
<1>7. ASSUME AllScheduled \/ Walk \/ ProposeCut \/ UNCHANGED vars
      PROVE  Inductive'
  <2>1. /\ UNCHANGED <<backlog, sorting, deadline, scheduling>>
        /\ at' = at /\ order' = order
        /\ \/ pc' = pc
           \/ pc \notin {"order", "backward"} /\ pc' \in {"walk", "done"}
    BY <1>7 DEF AllScheduled, Walk, ProposeCut, vars, sorting, backward
  <2>2. Placed' = Placed /\ Stuck' = Stuck /\ Blocked' = Blocked
    BY <2>1 DEF Placed, Stuck, Blocked, DependsOn, sorting
  <2>3. OrderInv'
    <3>1. CASE pc = "order"
      <4>1. \A n : DependsOn(n)' = DependsOn(n)
        BY <2>1 DEF DependsOn
      <4>2. UNCHANGED <<pc, order, indeg, ready>>
        BY <2>1, <3>1 DEF sorting
      <4> QED  BY <1>1, <2>2, <4>1, <4>2 DEF OrderInv, OrderIsExact
    <3>2. CASE pc # "order"
      BY <1>1, <2>1, <3>2, OrderIsLeft
    <3> QED  BY <3>1, <3>2
  <2>4. StreamInv' /\ ScheduleIsFeasible' /\ Streams' = Streams
    BY <1>1, <2>1, <2>2, ScheduleIsLeft DEF StreamInv
  <2>5. DeadlineInv'
    BY <1>1, <2>1, DeadlinesAreLeft
  <2>6. path' \in Seq(Nodes)
    <3>1. CASE AllScheduled
      <4>1. ASSUME Stuck # {}  PROVE Least(Stuck) \in Nodes
        <5>1. IsFiniteSet(Stuck) /\ Stuck \subseteq Int /\ Stuck \subseteq Nodes
          BY <1>1, InputShape, FS_Subset DEF Stuck
        <5> QED  BY <4>1, <5>1, LeastIsLeast
      <4> QED  BY <3>1, <4>1 DEF AllScheduled
    <3>2. CASE Walk
      <4>1. PICK d \in DependsOn(Cur) \cap Stuck : path' = Append(path, d)
        BY <3>2 DEF Walk
      <4>2. d \in Nodes /\ path \in Seq(Nodes)
        BY <1>1, <4>1 DEF Stuck, TypeOK
      <4> QED  BY <4>1, <4>2
    <3>3. CASE ProposeCut \/ UNCHANGED vars
      BY <1>1, <3>3 DEF ProposeCut, vars, cutting, TypeOK
    <3> QED  BY <1>7, <3>1, <3>2, <3>3
  <2>7. TypeOK'
    BY <1>1, <2>1, <2>4, <2>6 DEF TypeOK, scheduling, sorting
  <2> QED  BY <1>1, <2>1, <2>3, <2>4, <2>5, <2>7 DEF Inductive, Input
<1> QED  BY <1>2, <1>3, <1>4, <1>5, <1>6, <1>7 DEF Next, Finished

\* The invariant of the loops holds throughout.
LEMMA AlwaysInductive == Spec => []Inductive
<1> QED  BY InductiveInit, InductiveStep, PTL DEF Spec

\* run() and main() keep every variable in its type: no dependency is counted
\* below zero and nothing is scheduled before today.
THEOREM TypeCorrect == Spec => []TypeOK
<1>1. Inductive => TypeOK
  BY DEF Inductive
<1> QED  BY <1>1, AlwaysInductive, PTL

\* topological_order orders exactly the nodes that wait for no cycle, each once
\* and behind all it depends on.
THEOREM OrderCorrect == Spec => []OrderIsExact
<1>1. Inductive => OrderIsExact
  BY DEF Inductive, OrderInv
<1> QED  BY <1>1, AlwaysInductive, PTL

\* list_schedule never starts a node before its dependencies are finished nor
\* puts two nodes on one stream at a time.
THEOREM ScheduleCorrect == Spec => []ScheduleIsFeasible
<1>1. Inductive => ScheduleIsFeasible
  BY DEF Inductive
<1> QED  BY <1>1, AlwaysInductive, PTL

\* The deadlines of what is ordered are the latest feasible ones once the
\* backward pass is over.
LEMMA DeadlinesAreFeasible == ASSUME Inductive  PROVE LatestPlanIsFeasible
<1> SUFFICES ASSUME pc \notin {"order", "backward"}, NEW n \in Placed
             PROVE  /\ backlog.asset[n] # Enabler =>
                         \A fn \in backlog.asset[n].functions :
                           /\ deadline[n] =< Physics(backlog.asset[n], fn)
                           /\ \A inst \in Obligations(backlog.asset[n], fn) :
                                deadline[n] =< inst.date
                    /\ \A d \in DependsOn(n) : deadline[d] =< LatestStart(n)
                    /\ \/ deadline[n] = MustFinishOf(n)
                       \/ \E u \in Dependents(n) : deadline[n] = LatestStart(u)
  BY DEF LatestPlanIsFeasible
<1>1. Input /\ TypeOK /\ OrderInv /\ DeadlineInv /\ at = 0
  BY DEF Inductive, Input, DeadlineInv
<1>2. \A m \in Placed : m \in Nodes /\ deadline[m] = Deadline(m)
  <2> SUFFICES ASSUME NEW i \in DOMAIN order
               PROVE  order[i] \in Nodes /\ deadline[order[i]] = Deadline(order[i])
    BY DEF Placed
  <2>1. i > at /\ order[i] \in Nodes
    BY <1>1 DEF TypeOK
  <2> QED  BY <1>1, <2>1 DEF DeadlineInv
<1>3. /\ Deadline(n) \in Int
      /\ Deadline(n) =< MustFinishOf(n)
      /\ \/ Deadline(n) = MustFinishOf(n)
         \/ \E u \in Dependents(n) : Deadline(n) = LatestStart(u)
  BY <1>1, <1>2, DeadlineIsLeast DEF TypeOK
<1>4. ASSUME NEW d \in DependsOn(n)  PROVE deadline[d] =< LatestStart(n)
  <2>1. d \in Placed /\ n \in Dependents(d)
    BY <1>1, <1>2 DEF OrderInv, Dependents
  <2>2. \A u \in Dependents(d) : Deadline(d) =< LatestStart(u)
    BY <1>1, <1>2, <2>1, DeadlineIsLeast DEF TypeOK
  <2> QED  BY <1>2, <2>1, <2>2
<1>5. ASSUME backlog.asset[n] # Enabler, NEW fn \in backlog.asset[n].functions
      PROVE  /\ deadline[n] =< Physics(backlog.asset[n], fn)
             /\ \A inst \in Obligations(backlog.asset[n], fn) : deadline[n] =< inst.date
  <2> DEFINE asset == backlog.asset[n]
  <2>1. /\ asset.functions \subseteq Functions /\ asset.functions # {}
        /\ asset.shelf_life \in Nat
    BY <1>1, <1>2, <1>5, AssetsAssumption DEF Input
  <2>2. /\ Worst(asset) \in Int
        /\ Worst(asset) =< Physics(asset, fn)
        /\ \A inst \in Obligations(asset, fn) : Worst(asset) =< inst.date
    BY <2>1, WorstIsEarliest
  <2>3. MustFinishOf(n) = Worst(asset)
    BY <1>5 DEF MustFinishOf
  <2>4. Physics(asset, fn) \in Int
    BY <2>1, CrqcAssumption DEF Physics
  <2>5. \A inst \in Obligations(asset, fn) : inst.date \in Int
    BY CalendarAssumption DEF Obligations
  <2> HIDE DEF asset
  <2>6. deadline[n] =< Worst(asset) /\ deadline[n] \in Int
    BY <1>2, <1>3, <2>3
  <2>7. deadline[n] =< Physics(asset, fn)
    BY <2>2, <2>4, <2>6
  <2>8. \A inst \in Obligations(asset, fn) : deadline[n] =< inst.date
    BY <2>2, <2>5, <2>6
  <2> QED  BY <2>7, <2>8 DEF asset
<1> QED  BY <1>2, <1>3, <1>4, <1>5

\* backward_pass computes the latest feasible deadlines.
THEOREM DeadlinesCorrect == Spec => []LatestPlanIsFeasible
<1>1. Inductive => LatestPlanIsFeasible
  BY DeadlinesAreFeasible
<1> QED  BY <1>1, AlwaysInductive, PTL

-------------------------------------------------------------------------------
(* find_cycle and propose_cut                                               *)

\* The walk's invariant: every node of the path is stuck and depends on the
\* next one, and only the last can be a node seen before.
WalkInv ==
  /\ pc = "walk" => Stuck # {}
  /\ pc \in {"walk", "done"} /\ Stuck # {} =>
       /\ path # <<>>
       /\ \A i \in DOMAIN path : path[i] \in Stuck
       /\ \A i \in 1 .. Len(path) - 1 : path[i + 1] \in DependsOn(path[i])
       /\ \A i, j \in 1 .. Len(path) - 1 : path[i] = path[j] => i = j
  /\ pc = "done" /\ Stuck # {} => Seen /\ cut = Edges[LatestTarget]

\* What the definitions about the path say.
LEMMA PathShape ==
  ASSUME path \in Seq(Nodes), path # <<>>
  PROVE  /\ Len(path) \in Nat \ {0} /\ DOMAIN path = 1 .. Len(path)
         /\ Cur = path[Len(path)] /\ Cur \in Nodes
         /\ DOMAIN Front = 1 .. Len(path) - 1 /\ Len(Front) = Len(path) - 1
         /\ Front \in Seq(Nodes)
         /\ \A i \in 1 .. Len(path) - 1 : Front[i] = path[i]
<1>1. Len(path) \in Nat \ {0} /\ DOMAIN path = 1 .. Len(path)
  OBVIOUS
<1>2. \A i \in 1 .. Len(path) - 1 : path[i] \in Nodes
  BY <1>1
<1>3. /\ DOMAIN Front = 1 .. Len(path) - 1 /\ Len(Front) = Len(path) - 1
      /\ Front \in Seq(Nodes)
      /\ \A i \in 1 .. Len(path) - 1 : Front[i] = path[i]
  BY <1>1, <1>2 DEF Front
<1> QED  BY <1>1, <1>3 DEF Cur

\* The nodes of the path from the first place of the last one: a cycle.
LEMMA CycleShape ==
  ASSUME path \in Seq(Nodes), path # <<>>, Seen
  PROVE  \E k \in 1 .. Len(path) - 1 :
           /\ path[k] = path[Len(path)]
           /\ Len(Cycle) = Len(path) - k /\ DOMAIN Cycle = 1 .. Len(path) - k
           /\ \A i \in 1 .. Len(path) - k : Cycle[i] = path[k + i - 1]
<1> DEFINE k == CHOOSE i \in DOMAIN Front : Front[i] = Cur
<1>1. k \in DOMAIN Front /\ Front[k] = Cur
  BY DEF Seen
<1>2. Cycle = SubSeq(Front, k, Len(Front))
  BY DEF Cycle
<1> HIDE DEF k
<1>3. k \in 1 .. Len(path) - 1 /\ path[k] = path[Len(path)] /\ Len(path) \in Nat
  BY <1>1, PathShape
<1>4. Cycle = SubSeq(Front, k, Len(path) - 1)
  BY <1>2, PathShape
<1>5. \A i \in k .. Len(path) - 1 : Front[i] = path[i] /\ Front[i] \in Nodes
  BY <1>3, PathShape
<1>6. /\ Len(Cycle) = Len(path) - k /\ DOMAIN Cycle = 1 .. Len(path) - k
      /\ \A i \in 1 .. Len(path) - k : Cycle[i] = Front[k + i - 1]
  BY <1>3, <1>4, <1>5
<1>7. ASSUME NEW i \in 1 .. Len(path) - k  PROVE Cycle[i] = path[k + i - 1]
  <2>1. k + i - 1 \in k .. Len(path) - 1
    BY <1>3
  <2> QED  BY <2>1, <1>5, <1>6
<1> QED  BY <1>3, <1>6, <1>7

\* max() by date, then by position, of a list that is not empty.
LEMMA LatestTargetIsLatest ==
  ASSUME Input, IsFiniteSet(DOMAIN Edges), DOMAIN Edges # {}, DOMAIN Edges \subseteq Int,
         \A i \in DOMAIN Edges : Edges[i][2] \in Nodes
  PROVE  /\ LatestTarget \in DOMAIN Edges
         /\ \A j \in DOMAIN Edges :
              MustFinishOf(Edges[j][2]) =< MustFinishOf(Edges[LatestTarget][2])
<1> DEFINE date  == [i \in DOMAIN Edges |-> MustFinishOf(Edges[i][2])]
           Dates == {date[i] : i \in DOMAIN date}
           Last  == {i \in DOMAIN Edges : date[i] = Greatest(Dates)}
<1>1. \A i \in DOMAIN Edges : date[i] = MustFinishOf(Edges[i][2]) /\ date[i] \in Int
  BY MustFinishIsDate
<1>2. DOMAIN date = DOMAIN Edges
  OBVIOUS
<1> HIDE DEF date
<1>3. IsFiniteSet(Dates) /\ Dates \subseteq Int /\ Dates # {}
  BY <1>1, <1>2, ImageIsFinite
<1>4. Greatest(Dates) \in Dates /\ \A y \in Dates : Greatest(Dates) >= y
  <2> HIDE DEF Dates
  <2> QED  BY <1>3, GreatestIsGreatest
<1>5. \A i \in DOMAIN Edges : Greatest(Dates) >= date[i]
  BY <1>2, <1>4
<1>6. Greatest(Dates) \in Int
  BY <1>3, <1>4
<1>7. Last # {} /\ Last \subseteq DOMAIN Edges
  BY <1>2, <1>4
<1>8. \A i \in DOMAIN Edges : i \in Last <=> date[i] = Greatest(Dates)
  OBVIOUS
<1> HIDE DEF Last, Dates
<1>9. IsFiniteSet(Last) /\ Last \subseteq Int
  BY <1>7, FS_Subset
<1>10. Least(Last) \in Last /\ \A j \in Last : Least(Last) =< j
  BY <1>7, <1>9, LeastIsLeast
<1> DEFINE e == Least(Last)
<1>11. e \in DOMAIN Edges /\ date[e] = Greatest(Dates)
  BY <1>7, <1>8, <1>10
<1>12. ASSUME NEW j \in DOMAIN Edges
       PROVE  \/ date[e] > date[j]
              \/ date[e] = date[j] /\ e =< j
  <2>1. date[e] >= date[j] /\ date[e] \in Int /\ date[j] \in Int
    BY <1>1, <1>5, <1>11
  <2>2. date[e] = date[j] => j \in Last
    BY <1>8, <1>11
  <2>3. j \in Last => e =< j
    BY <1>10
  <2> HIDE DEF e
  <2> QED  BY <2>1, <2>2, <2>3
<1> HIDE DEF e
<1>13. \E i \in DOMAIN Edges : \A j \in DOMAIN Edges :
         \/ MustFinishOf(Edges[i][2]) > MustFinishOf(Edges[j][2])
         \/ MustFinishOf(Edges[i][2]) = MustFinishOf(Edges[j][2]) /\ i =< j
  BY <1>1, <1>11, <1>12
<1>14. /\ LatestTarget \in DOMAIN Edges
       /\ \A j \in DOMAIN Edges :
            \/ MustFinishOf(Edges[LatestTarget][2]) > MustFinishOf(Edges[j][2])
            \/ MustFinishOf(Edges[LatestTarget][2]) = MustFinishOf(Edges[j][2])
               /\ LatestTarget =< j
  BY <1>13 DEF LatestTarget
<1>15. \A j \in DOMAIN Edges : MustFinishOf(Edges[j][2]) \in Int
  BY <1>1
<1> HIDE DEF LatestTarget
<1> QED  BY <1>14, <1>15

\* A cycle that starts at the first place of the node the path ends with is one
\* of the input, and the cut its edge with the latest target.
LEMMA WalkEndsInCycle ==
  ASSUME Input, TypeOK, WalkInv
  PROVE  CycleIsReal
<1> SUFFICES ASSUME pc = "done", Stuck # {}
             PROVE  /\ Cycle # <<>>
                    /\ \A i \in DOMAIN Edges : Edges[i][2] \in DependsOn(Edges[i][1])
                    /\ \A i, j \in DOMAIN Cycle : Cycle[i] = Cycle[j] => i = j
                    /\ \E i \in DOMAIN Edges : cut = Edges[i]
                    /\ \A i \in DOMAIN Cycle : MustFinishOf(Cycle[i]) =< MustFinishOf(cut[2])
  BY DEF CycleIsReal
<1>1. /\ path \in Seq(Nodes) /\ path # <<>> /\ Seen /\ cut = Edges[LatestTarget]
      /\ \A i \in 1 .. Len(path) - 1 : path[i + 1] \in DependsOn(path[i])
      /\ \A i, j \in 1 .. Len(path) - 1 : path[i] = path[j] => i = j
  BY DEF WalkInv, TypeOK
<1>2. PICK k \in 1 .. Len(path) - 1 :
        /\ path[k] = path[Len(path)]
        /\ Len(Cycle) = Len(path) - k /\ DOMAIN Cycle = 1 .. Len(path) - k
        /\ \A i \in 1 .. Len(path) - k : Cycle[i] = path[k + i - 1]
  BY <1>1, CycleShape
<1> DEFINE len == Len(path) - k
<1>3. Len(path) \in Nat /\ k \in Nat \ {0} /\ len \in Nat \ {0} /\ len + k = Len(path)
  BY <1>1, <1>2
<1>4. Len(Cycle) = len /\ DOMAIN Cycle = 1 .. len
  BY <1>2
<1>5. \A i \in 1 .. len : Cycle[i] = path[k + i - 1]
  BY <1>2
<1> HIDE DEF len
<1>6. \A i \in 1 .. len : k + i - 1 \in 1 .. Len(path) - 1
  BY <1>3
<1>7. ASSUME NEW i \in 1 .. len
      PROVE  /\ (i % len) + 1 \in 1 .. len
             /\ Cycle[(i % len) + 1] = path[k + i]
  <2>1. CASE i < len
    <3>1. i % len = i /\ i + 1 \in 1 .. len /\ k + (i + 1) - 1 = k + i
      BY <1>3, <2>1
    <3> QED  BY <3>1, <1>5
  <2>2. CASE i = len
    <3>1. (i % len) + 1 = 1 /\ 1 \in 1 .. len /\ k + 1 - 1 = k /\ k + i = Len(path)
      BY <1>3, <2>2
    <3>2. Cycle[1] = path[k] /\ path[k] = path[Len(path)]
      BY <3>1, <1>2, <1>5
    <3> QED  BY <3>1, <3>2
  <2> QED  BY <1>3, <2>1, <2>2
<1>8. ASSUME NEW i \in 1 .. len
      PROVE  /\ Edges[i][1] = Cycle[i] /\ Edges[i][2] = path[k + i]
             /\ Edges[i][2] \in DependsOn(Edges[i][1]) /\ Edges[i][2] \in Nodes
  <2>1. Edges[i][1] = Cycle[i] /\ Edges[i][2] = path[k + i]
    BY <1>4, <1>7 DEF Edges
  <2>2. k + i - 1 \in 1 .. Len(path) - 1 /\ (k + i - 1) + 1 = k + i /\ k + i \in DOMAIN path
    BY <1>1, <1>3
  <2>3. path[k + i] \in DependsOn(path[k + i - 1])
    BY <1>1, <2>2
  <2> QED  BY <1>1, <1>5, <2>1, <2>2, <2>3
<1>9. DOMAIN Edges = 1 .. len
  BY <1>4 DEF Edges
<1>10. \A i, j \in DOMAIN Cycle : Cycle[i] = Cycle[j] => i = j
  <2> SUFFICES ASSUME NEW i \in 1 .. len, NEW j \in 1 .. len, Cycle[i] = Cycle[j]
               PROVE  i = j
    BY <1>4
  <2>1. k + i - 1 = k + j - 1
    BY <1>1, <1>5, <1>6
  <2> QED  BY <1>3, <2>1
<1>11. /\ LatestTarget \in DOMAIN Edges
       /\ \A j \in DOMAIN Edges :
            MustFinishOf(Edges[j][2]) =< MustFinishOf(Edges[LatestTarget][2])
  <2>1. 1 \in 1 .. len /\ 1 .. len \subseteq Int /\ 1 \in Int /\ len \in Int
    BY <1>3
  <2>2. IsFiniteSet(1 .. len) /\ 1 .. len # {}
    BY <2>1, FS_Interval
  <2> QED  BY <2>1, <2>2, <1>8, <1>9, LatestTargetIsLatest
<1>12. ASSUME NEW i \in 1 .. len  PROVE \E j \in 1 .. len : Cycle[i] = Edges[j][2]
  <2>1. CASE i = 1
    <3>1. len \in 1 .. len /\ k + len = Len(path) /\ k + i - 1 = k
      BY <1>3, <2>1
    <3>2. Edges[len][2] = path[Len(path)] /\ Cycle[i] = path[k]
      BY <1>5, <1>8, <3>1
    <3> QED  BY <1>2, <3>1, <3>2
  <2>2. CASE i > 1
    <3>1. i - 1 \in 1 .. len /\ k + (i - 1) = k + i - 1
      BY <1>3, <2>2
    <3>2. Edges[i - 1][2] = path[k + (i - 1)] /\ Cycle[i] = path[k + i - 1]
      BY <1>5, <1>8, <3>1
    <3> QED  BY <3>1, <3>2
  <2> QED  BY <1>3, <2>1, <2>2
<1>13. \A i \in DOMAIN Cycle : MustFinishOf(Cycle[i]) =< MustFinishOf(cut[2])
  BY <1>1, <1>4, <1>9, <1>11, <1>12
<1>14. Cycle # <<>>
  BY <1>3, <1>4
<1> QED  BY <1>1, <1>4, <1>8, <1>9, <1>10, <1>11, <1>13, <1>14

\* Every step of the walk keeps its invariant, and no other step touches it.
LEMMA WalkStep ==
  ASSUME Inductive, WalkInv, [Next]_vars
  PROVE  WalkInv'
<1>1. Input /\ TypeOK
  BY DEF Inductive, Input
<1>2. CASE Place \/ AllPlaced \/ Inherit \/ AllInherited \/ ScheduleNext
  <2>1. pc' \notin {"walk", "done"}
    BY <1>2 DEF Place, AllPlaced, Inherit, AllInherited, ScheduleNext
  <2> QED  BY <2>1 DEF WalkInv
<1>3. CASE AllScheduled
  <2>1. /\ pc' = (IF Stuck = {} THEN "done" ELSE "walk") /\ Stuck' = Stuck
        /\ path' = IF Stuck = {} THEN <<>> ELSE <<Least(Stuck)>>
    BY <1>3 DEF AllScheduled, sorting, Stuck
  <2>2. Stuck # {} => Least(Stuck) \in Stuck
    <3>1. IsFiniteSet(Stuck) /\ Stuck \subseteq Int
      BY <1>1, InputShape, FS_Subset DEF Stuck
    <3> QED  BY <3>1, LeastIsLeast
  <2>3. CASE Stuck = {}
    BY <2>1, <2>3 DEF WalkInv
  <2>4. CASE Stuck # {}
    <3>1. path' = <<Least(Stuck)>> /\ pc' = "walk" /\ Len(path') = 1
      BY <2>1, <2>4
    <3> QED  BY <2>1, <2>2, <2>4, <3>1 DEF WalkInv
  <2> QED  BY <2>3, <2>4
<1>4. CASE Walk
  <2>1. PICK d \in DependsOn(Cur) \cap Stuck : path' = Append(path, d)
    BY <1>4 DEF Walk
  <2>2. /\ pc = "walk" /\ pc' = "walk" /\ ~Seen /\ Stuck # {} /\ Stuck' = Stuck
        /\ \A n : DependsOn(n)' = DependsOn(n)
    BY <1>4 DEF Walk, WalkInv, sorting, Stuck, DependsOn
  <2>3. /\ path \in Seq(Nodes) /\ path # <<>>
        /\ \A i \in DOMAIN path : path[i] \in Stuck
        /\ \A i \in 1 .. Len(path) - 1 : path[i + 1] \in DependsOn(path[i])
        /\ \A i, j \in 1 .. Len(path) - 1 : path[i] = path[j] => i = j
    BY <1>1, <2>2 DEF WalkInv, TypeOK
  <2>4. d \in Nodes /\ d \in Stuck
    BY <2>1 DEF Stuck
  <2> DEFINE len == Len(path)
  <2>5. /\ len \in Nat \ {0} /\ DOMAIN path = 1 .. len /\ Cur = path[len]
        /\ \A i \in 1 .. len - 1 : path[i] # path[len]
    BY <2>2, <2>3, PathShape DEF Seen
  <2>6. /\ path' # <<>> /\ Len(path') = len + 1 /\ DOMAIN path' = 1 .. len + 1
        /\ path'[len + 1] = d /\ \A i \in 1 .. len : path'[i] = path[i]
    BY <2>1, <2>3, <2>4
  <2> HIDE DEF len
  <2>7. \A i \in 1 .. len + 1 : path'[i] \in Stuck
    BY <2>3, <2>4, <2>5, <2>6
  <2>8. ASSUME NEW i \in 1 .. len  PROVE path'[i + 1] \in DependsOn(path'[i])
    <3>1. CASE i = len
      BY <2>1, <2>5, <2>6, <3>1
    <3>2. CASE i # len
      <4>1. i \in 1 .. len - 1 /\ i + 1 \in 1 .. len
        BY <2>5, <3>2
      <4> QED  BY <2>3, <2>6, <4>1 DEF len
    <3> QED  BY <3>1, <3>2
  <2>9. ASSUME NEW i \in 1 .. len, NEW j \in 1 .. len, path[i] = path[j]  PROVE i = j
    <3>1. CASE i = len \/ j = len
      BY <2>5, <2>9, <3>1
    <3>2. CASE i # len /\ j # len
      <4>1. i \in 1 .. len - 1 /\ j \in 1 .. len - 1
        BY <2>5, <3>2
      <4> QED  BY <2>3, <2>9, <4>1 DEF len
    <3> QED  BY <3>1, <3>2
  <2>10. Len(path') - 1 = len
    BY <2>5, <2>6
  <2>11. (\A i \in DOMAIN path : path[i] \in Stuck)'
    BY <2>2, <2>6, <2>7
  <2>12. \A i \in 1 .. len : path'[i + 1] \in backlog'.depends_on[path'[i]]
    BY <2>2, <2>8 DEF DependsOn
  <2>13. (\A i \in 1 .. Len(path) - 1 : path[i + 1] \in DependsOn(path[i]))'
    BY <2>10, <2>12 DEF DependsOn
  <2>14. (\A i, j \in 1 .. Len(path) - 1 : path[i] = path[j] => i = j)'
    <3>1. \A i, j \in 1 .. len : path'[i] = path'[j] => i = j
      BY <2>6, <2>9
    <3> QED  BY <3>1, <2>10
  <2> QED  BY <2>2, <2>6, <2>11, <2>13, <2>14 DEF WalkInv
<1>5. CASE ProposeCut
  <2>1. /\ pc = "walk" /\ pc' = "done" /\ Seen /\ path' = path /\ cut' = Edges[LatestTarget]
        /\ backlog' = backlog /\ indeg' = indeg
    BY <1>5, SMTT(60) DEF ProposeCut, sorting
  <2>2. /\ Stuck' = Stuck /\ Seen' = Seen /\ Edges' = Edges
        /\ \A n : DependsOn(n)' = DependsOn(n) /\ MustFinishOf(n)' = MustFinishOf(n)
    BY <2>1 DEF Stuck, Seen, Front, Cur, Edges, Cycle, DependsOn, MustFinishOf
  <2>3. LatestTarget' = LatestTarget
    BY <2>2 DEF LatestTarget
  <2> QED  BY <2>1, <2>2, <2>3, SMTT(60) DEF WalkInv
<1>6. CASE UNCHANGED vars
  <2>1. /\ pc' = pc /\ path' = path /\ cut' = cut /\ backlog' = backlog /\ indeg' = indeg
    BY <1>6 DEF vars, sorting, cutting
  <2>2. /\ Stuck' = Stuck /\ Seen' = Seen /\ Edges' = Edges
        /\ \A n : DependsOn(n)' = DependsOn(n) /\ MustFinishOf(n)' = MustFinishOf(n)
    BY <2>1 DEF Stuck, Seen, Front, Cur, Edges, Cycle, DependsOn, MustFinishOf
  <2>3. LatestTarget' = LatestTarget
    BY <2>2 DEF LatestTarget
  <2> QED  BY <2>1, <2>2, <2>3 DEF WalkInv
<1> QED  BY <1>2, <1>3, <1>4, <1>5, <1>6 DEF Next, Finished

\* main() never prints a cycle that is not one of the input or repeats a node,
\* and propose_cut never proposes an edge whose target is due before another's.
THEOREM CycleCorrect == Spec => []CycleIsReal
<1>1. Init => WalkInv
  BY DEF Init, WalkInv
<1>2. Inductive /\ WalkInv /\ [Next]_vars => WalkInv'
  BY WalkStep
<1>3. Inductive /\ WalkInv => CycleIsReal
  BY WalkEndsInCycle DEF Inductive, Input
<1> QED  BY <1>1, <1>2, <1>3, AlwaysInductive, PTL DEF Spec

-------------------------------------------------------------------------------
(* The days of a set of nodes.  A fold over a set is computed by a recursive *)
(* function on its subsets; the number of pairs of a node and a day of it    *)
(* satisfies the same equation, and there is only one such function.         *)

Taken(s) == CHOOSE x \in s : TRUE

Sums(g, S) ==
  g = [s \in SUBSET S |-> IF s = {} THEN 0 ELSE Duration(Taken(s)) + g[s \ {Taken(s)}]]

DaysOf(n) == {n} \X (1 .. Duration(n))
Days(S)   == UNION {DaysOf(n) : n \in S}

\* Each node adds its duration to the number of days.
LEMMA DaysAdd ==
  ASSUME Input, NEW S, S \subseteq Nodes, NEW n \in S
  PROVE  /\ IsFiniteSet(Days(S)) /\ Cardinality(Days(S)) \in Nat
         /\ Cardinality(Days(S)) = Duration(n) + Cardinality(Days(S \ {n}))
<1>1. ASSUME NEW m \in Nodes
      PROVE  IsFiniteSet(DaysOf(m)) /\ Cardinality(DaysOf(m)) = Duration(m)
  <2>1. Duration(m) \in Nat
    BY InputShape
  <2>2. IsFiniteSet(1 .. Duration(m)) /\ Cardinality(1 .. Duration(m)) = Duration(m)
    BY <2>1, FS_Interval
  <2>3. IsFiniteSet({m}) /\ Cardinality({m}) = 1
    BY FS_Singleton
  <2>4. IsFiniteSet(DaysOf(m)) /\ Cardinality(DaysOf(m)) = 1 * Duration(m)
    BY <2>2, <2>3, FS_Product, ZenonT(60) DEF DaysOf
  <2> QED  BY <2>1, <2>4
<1>2. ASSUME NEW T, T \subseteq Nodes  PROVE IsFiniteSet(Days(T))
  <2> DEFINE days == [m \in T |-> DaysOf(m)]
  <2>1. IsFiniteSet(DOMAIN days)
    BY <1>2, InputShape, FS_Subset
  <2>2. IsFiniteSet({days[m] : m \in DOMAIN days})
    <3> HIDE DEF days
    <3> QED  BY <2>1, ImageIsFinite
  <2>3. {days[m] : m \in DOMAIN days} = {DaysOf(m) : m \in T}
    OBVIOUS
  <2>4. IsFiniteSet({DaysOf(m) : m \in T})
    BY <2>2, <2>3
  <2>5. \A D \in {DaysOf(m) : m \in T} : IsFiniteSet(D)
    BY <1>1, <1>2
  <2> QED  BY <2>4, <2>5, FS_UNION DEF Days
<1>3. IsFiniteSet(Days(S)) /\ IsFiniteSet(Days(S \ {n}))
  BY <1>2
<1>4. Days(S) = DaysOf(n) \cup Days(S \ {n})
  BY DEF Days
<1>5. DaysOf(n) \cap Days(S \ {n}) = {}
  BY DEF Days, DaysOf
<1>6. Cardinality(Days(S)) = Cardinality(DaysOf(n)) + Cardinality(Days(S \ {n})) - 0
  BY <1>1, <1>3, <1>4, <1>5, FS_Union, FS_EmptySet, ZenonT(60)
<1>7. Cardinality(Days(S)) \in Nat /\ Cardinality(Days(S \ {n})) \in Nat
  BY <1>3, FS_CardinalityType
<1>8. Duration(n) \in Nat /\ Cardinality(DaysOf(n)) = Duration(n)
  BY <1>1, InputShape
<1> QED  BY <1>3, <1>6, <1>7, <1>8

\* The sum of the durations is the number of days.
LEMMA SumIsDays ==
  ASSUME Input, NEW S, S \subseteq Nodes
  PROVE  MapThenSumSet(Duration, S) = Cardinality(Days(S))
<1>1. MapThenSumSet(Duration, S) = (CHOOSE g : Sums(g, S))[S]
  BY DEF MapThenSumSet, MapThenFoldSet, Sums, Taken
<1> DEFINE count == [s \in SUBSET S |-> Cardinality(Days(s))]
<1>2. Sums(count, S)
  <2>1. ASSUME NEW s \in SUBSET S
        PROVE  count[s] = IF s = {} THEN 0
                          ELSE Duration(Taken(s)) + count[s \ {Taken(s)}]
    <3>1. CASE s = {}
      <4>1. Days(s) = {}
        BY <3>1 DEF Days
      <4> QED  BY <3>1, <4>1, FS_EmptySet
    <3>2. CASE s # {}
      <4>1. Taken(s) \in s /\ s \subseteq Nodes
        BY <3>2 DEF Taken
      <4>2. Cardinality(Days(s)) = Duration(Taken(s)) + Cardinality(Days(s \ {Taken(s)}))
        BY <4>1, DaysAdd
      <4>3. s \ {Taken(s)} \in SUBSET S
        OBVIOUS
      <4> QED  BY <3>2, <4>2, <4>3
    <3> QED  BY <3>1, <3>2
  <2> DEFINE other == [s \in SUBSET S |->
                         IF s = {} THEN 0 ELSE Duration(Taken(s)) + count[s \ {Taken(s)}]]
  <2>2. \A s \in SUBSET S : count[s] = other[s]
    BY <2>1
  <2>3. count = other
    <3>1. count = [s \in SUBSET S |-> count[s]] /\ other = [s \in SUBSET S |-> other[s]]
      OBVIOUS
    <3> HIDE DEF count, other
    <3> QED  BY <2>2, <3>1
  <2> QED  BY <2>3 DEF Sums
<1>3. count[S] = Cardinality(Days(S))
  OBVIOUS
<1> HIDE DEF count
<1>4. ASSUME NEW g, Sums(g, S)  PROVE g[S] = count[S]
  <2> SUFFICES ASSUME g[S] # count[S]  PROVE FALSE
    OBVIOUS
  <2> DEFINE Wrong == {s \in SUBSET S : g[s] # count[s]}
  <2>1. Wrong # {} /\ Wrong \subseteq SUBSET S
    OBVIOUS
  <2>2. IsFiniteSet(S) /\ FiniteSubsetsOf(S) = SUBSET S
    BY InputShape, FS_Subset, FS_FiniteSubsetsOfFinite
  <2>3. PICK s \in Wrong : \A t \in Wrong : ~ (<<t, s>> \in StrictSubsetOrdering(S))
    <3> HIDE DEF Wrong
    <3> QED  BY <2>1, <2>2, WFMin, FS_StrictSubsetOrderingWellFounded
  <2>4. s # {}
    <3>1. g[{}] = 0 /\ count[{}] = 0
      BY <1>2, <1>4 DEF Sums
    <3> QED  BY <3>1
  <2>5. Taken(s) \in s
    BY <2>4 DEF Taken
  <2>6. s \ {Taken(s)} \in SUBSET S /\ <<s \ {Taken(s)}, s>> \in StrictSubsetOrdering(S)
    BY <2>5 DEF StrictSubsetOrdering
  <2>7. g[s \ {Taken(s)}] = count[s \ {Taken(s)}]
    BY <2>3, <2>6
  <2>8. /\ g[s] = Duration(Taken(s)) + g[s \ {Taken(s)}]
        /\ count[s] = Duration(Taken(s)) + count[s \ {Taken(s)}]
    BY <1>2, <1>4, <2>4 DEF Sums
  <2> QED  BY <2>7, <2>8
<1>5. Sums(CHOOSE g : Sums(g, S), S)
  BY <1>2
<1> QED  BY <1>1, <1>3, <1>4, <1>5

\* No stream is busy for longer than all that is done, a stream that is not free
\* on the first day has a node, and with a stream for every node and time left
\* for each of them what is done is done on time.
Roomy == /\ pc \notin {"order", "backward"}
         /\ backlog.capacity >= Cardinality(Placed)
         /\ \A n \in Placed : LatestStart(n) >= 0

UsedInv ==
  /\ \A k \in Streams : /\ free_at[k] =< Cardinality(Days(done))
                        /\ free_at[k] # 0 => \E n \in done : stream[n] = k
  /\ \A n \in done : finish[n] =< Cardinality(Days(done))
  /\ Roomy => \A n \in done : finish[n] =< deadline[n]

\* With fewer nodes on streams than streams, one of them is free at once.
LEMMA RoomForOne ==
  ASSUME Inductive, UsedInv, Cardinality(done) < backlog.capacity
  PROVE  free_at[FreeStream] = 0
<1>1. Input /\ TypeOK /\ ScheduleIsFeasible
  BY DEF Inductive, Input
<1>2. backlog.capacity \in Nat /\ IsFiniteSet(Streams) /\ Cardinality(Streams) = backlog.capacity
  <2>1. backlog.capacity \in Nat \ {0}
    BY <1>1, BacklogsAssumption DEF Input
  <2>2. /\ IsFiniteSet(1 .. backlog.capacity)
        /\ Cardinality(1 .. backlog.capacity) = backlog.capacity
    BY <2>1, FS_Interval, SMTT(60)
  <2> QED  BY <2>1, <2>2 DEF Streams
<1>3. IsFiniteSet(done)
  BY <1>1, InputShape, FS_Subset DEF TypeOK
<1>4. PICK k \in Streams : ~ \E n \in done : stream[n] = k
  <2> SUFFICES ASSUME \A k \in Streams : \E n \in done : stream[n] = k  PROVE FALSE
    OBVIOUS
  <2> DEFINE on == [n \in done |-> stream[n]]
  <2>1. on \in Surjection(done, Streams)
    BY <1>1 DEF ScheduleIsFeasible, Surjection
  <2>2. Cardinality(Streams) =< Cardinality(done)
    <3> HIDE DEF on
    <3> QED  BY <1>3, <2>1, FS_Surjection
  <2>3. Cardinality(done) \in Nat
    BY <1>3, FS_CardinalityType
  <2> QED  BY <1>2, <2>2, <2>3
<1>5. free_at[k] = 0
  BY <1>4 DEF UsedInv
<1>6. free_at[FreeStream] \in Nat /\ free_at[FreeStream] =< free_at[k]
  BY <1>1, <1>4, FreeStreamIsFree DEF TypeOK
<1> QED  BY <1>5, <1>6

\* A turn of the scheduler wastes no stream.
LEMMA UsedStep ==
  ASSUME Inductive, UsedInv, ScheduleNext
  PROVE  UsedInv'
<1> DEFINE n == MostUrgent
           k == FreeStream
           t == Earliest(n, k)
<1>1. Input /\ TypeOK /\ StreamInv /\ ScheduleIsFeasible /\ LatestPlanIsFeasible
  BY DeadlinesAreFeasible DEF Inductive, Input
<1>2. /\ pc = "schedule" /\ pc' = pc /\ backlog' = backlog /\ order' = order
      /\ deadline' = deadline
      /\ finish' = [finish EXCEPT ![n] = t + Duration(n)]
      /\ stream' = [stream EXCEPT ![n] = k]
      /\ free_at' = [free_at EXCEPT ![k] = t + Duration(n)]
      /\ done' = done \cup {n}
  BY DEF ScheduleNext, Schedule, sorting, backward
<1>3. n \in Placed /\ n \notin done /\ DependsOn(n) \subseteq done /\ n \in Nodes
  <2>1. n \in Schedulable
    BY <1>1, MostUrgentIsSchedulable DEF ScheduleNext
  <2> QED  BY <1>1, <2>1 DEF Schedulable, Pending, Placed, TypeOK
<1>4. k \in Streams
  BY <1>1, FreeStreamIsFree
<1>5. /\ t \in Nat
      /\ t \in {0, free_at[k]} \cup {finish[d] : d \in DependsOn(n)}
  BY <1>1, <1>3, <1>4, EarliestIsLate
<1>6. Roomy => t =< LatestStart(n)
  <2> SUFFICES ASSUME Roomy  PROVE t =< LatestStart(n)
    OBVIOUS
  <2>1. LatestStart(n) >= 0 /\ LatestStart(n) \in Int
    BY <1>1, <1>3, InputShape DEF Roomy, LatestStart, TypeOK
  <2>2. free_at[k] = 0
    <3>1. IsFiniteSet(Placed) /\ done \subseteq Placed /\ done # Placed
      <4>1. Placed \subseteq Nodes
        BY <1>1 DEF Placed, TypeOK
      <4> QED  BY <1>1, <1>3, <4>1, InputShape, FS_Subset DEF StreamInv
    <3>2. /\ Cardinality(done) =< Cardinality(Placed)
          /\ Cardinality(done) # Cardinality(Placed)
          /\ Cardinality(done) \in Nat /\ Cardinality(Placed) \in Nat
      BY <3>1, FS_Subset, FS_CardinalityType
    <3>3. backlog.capacity \in Nat /\ backlog.capacity >= Cardinality(Placed)
      BY <1>1, BacklogsAssumption DEF Input, Roomy
    <3>4. Cardinality(done) < backlog.capacity
      BY <3>2, <3>3
    <3> QED  BY <3>4, RoomForOne
  <2>3. ASSUME NEW d \in DependsOn(n)  PROVE finish[d] =< LatestStart(n)
    <3>1. finish[d] =< deadline[d] /\ deadline[d] =< LatestStart(n)
      BY <1>2, <1>3, <1>1 DEF UsedInv, LatestPlanIsFeasible
    <3>2. finish[d] \in Nat /\ deadline[d] \in Int
      BY <1>1, <1>3 DEF TypeOK
    <3> QED  BY <2>1, <3>1, <3>2
  <2> QED  BY <1>5, <2>1, <2>2, <2>3
<1> DEFINE w == Cardinality(Days(done))
<1>7. t =< w /\ w \in Nat /\ Cardinality(Days(done')) = Duration(n) + w
  <2>1. done' \subseteq Nodes /\ n \in done' /\ done' \ {n} = done
    BY <1>1, <1>2, <1>3 DEF TypeOK
  <2>2. /\ Cardinality(Days(done')) = Duration(n) + w
        /\ IsFiniteSet(Days(done')) /\ Days(done) \subseteq Days(done')
    BY <1>1, <2>1, DaysAdd DEF Days
  <2>3. w \in Nat
    BY <2>2, FS_Subset, FS_CardinalityType
  <2>4. free_at[k] =< w /\ \A d \in DependsOn(n) : finish[d] =< w
    BY <1>3, <1>4 DEF UsedInv
  <2> QED  BY <1>5, <2>2, <2>3, <2>4
<1>8. /\ Days(done)' = Days(done') /\ Streams' = Streams /\ Placed' = Placed /\ Roomy' = Roomy
  BY <1>2 DEF Days, DaysOf, Duration, Streams, Placed, Roomy, LatestStart
<1>9. /\ finish'[n] = t + Duration(n) /\ stream'[n] = k
      /\ \A m \in done : finish'[m] = finish[m] /\ stream'[m] = stream[m]
      /\ free_at'[k] = t + Duration(n)
      /\ \A j \in Streams : j # k => free_at'[j] = free_at[j]
  BY <1>2, <1>3, <1>4, <1>1 DEF TypeOK
<1>10. /\ Duration(n) \in Nat /\ deadline[n] \in Int
       /\ \A j \in Streams : free_at[j] \in Nat /\ free_at[j] =< w
       /\ \A m \in done : finish[m] \in Nat /\ finish[m] =< w
  BY <1>1, <1>3, InputShape DEF TypeOK, UsedInv
<1> HIDE DEF n, k, t, w
<1>11. ASSUME NEW j \in Streams
       PROVE  /\ free_at'[j] =< Cardinality(Days(done'))
              /\ free_at'[j] # 0 => \E m \in done' : stream'[m] = j
  <2>1. CASE j = k
    <3>1. free_at'[j] =< Cardinality(Days(done'))
      BY <1>5, <1>7, <1>9, <1>10, <2>1
    <3> QED  BY <1>2, <1>9, <2>1, <3>1
  <2>2. CASE j # k
    <3>1. free_at'[j] = free_at[j]
      BY <1>9, <2>2
    <3>2. free_at'[j] =< Cardinality(Days(done'))
      BY <1>7, <1>10, <3>1
    <3>3. free_at[j] # 0 => \E m \in done : stream[m] = j
      BY DEF UsedInv
    <3> QED  BY <1>2, <1>9, <3>1, <3>2, <3>3
  <2> QED  BY <2>1, <2>2
<1>12. ASSUME NEW m \in done'  PROVE finish'[m] =< Cardinality(Days(done'))
  <2>1. CASE m = n
    BY <1>5, <1>7, <1>9, <1>10, <2>1
  <2>2. CASE m \in done
    BY <1>7, <1>9, <1>10, <2>2
  <2> QED  BY <1>2, <2>1, <2>2
<1>13. ASSUME Roomy, NEW m \in done'  PROVE finish'[m] =< deadline[m]
  <2>1. CASE m = n
    <3>1. t =< LatestStart(n) /\ LatestStart(n) = deadline[n] - Duration(n)
      BY <1>6, <1>13 DEF LatestStart
    <3> QED  BY <1>5, <1>9, <1>10, <2>1, <3>1
  <2>2. CASE m \in done
    BY <1>9, <1>13, <2>2 DEF UsedInv
  <2> QED  BY <1>2, <2>1, <2>2
<1> QED  BY <1>2, <1>8, <1>11, <1>12, <1>13 DEF UsedInv

\* Every other step leaves the streams alone, and starts the scheduler only when
\* nothing is done.
LEMMA UsedNext ==
  ASSUME Inductive, UsedInv, [Next]_vars
  PROVE  UsedInv'
<1>1. CASE ScheduleNext
  BY <1>1, UsedStep
<1>2. CASE \/ Place \/ AllPlaced \/ Inherit \/ AllInherited
           \/ AllScheduled \/ Walk \/ ProposeCut \/ UNCHANGED vars
  <2>1. UNCHANGED <<backlog, scheduling>>
    BY <1>2 DEF Place, AllPlaced, Inherit, AllInherited, AllScheduled, Walk, ProposeCut, vars
  <2>2. /\ Days(done)' = Days(done) /\ Streams' = Streams /\ done' = done
        /\ free_at' = free_at /\ finish' = finish /\ stream' = stream
    BY <2>1 DEF Days, DaysOf, Duration, Streams, scheduling
  <2>3. CASE pc \in {"order", "backward"}
    <3>1. done = {}
      BY <2>3 DEF Inductive, StreamInv
    <3> QED  BY <2>2, <3>1 DEF UsedInv
  <2>4. CASE pc \notin {"order", "backward"}
    <3>1. /\ pc' \notin {"order", "backward"} /\ backlog' = backlog
          /\ order' = order /\ deadline' = deadline
      BY <1>2, <2>1, <2>4
         DEF Place, AllPlaced, Inherit, AllInherited, AllScheduled, Walk, ProposeCut, vars,
             sorting, backward
    <3>2. Roomy' = Roomy
      BY <2>4, <3>1 DEF Roomy, Placed, LatestStart, Duration
    <3> QED  BY <2>2, <3>1, <3>2 DEF UsedInv
  <2> QED  BY <2>3, <2>4
<1> QED  BY <1>1, <1>2 DEF Next, Finished

\* However many streams list_schedule has, its plan ends no later than one stream
\* would end the same work; and with a stream for every node, a plan that can be
\* on time when it is computed is on time when it is scheduled.
THEOREM StreamsCorrect == Spec => []StreamsAreUsed
<1>1. Init => UsedInv
  <2> SUFFICES ASSUME Init  PROVE UsedInv
    OBVIOUS
  <2>1. done = {} /\ \A k \in Streams : free_at[k] = 0
    BY DEF Init
  <2>2. Days(done) = {}
    BY <2>1 DEF Days
  <2>3. Cardinality(Days(done)) = 0
    BY <2>2, FS_EmptySet
  <2> QED  BY <2>1, <2>3 DEF UsedInv
<1>2. Inductive /\ UsedInv /\ [Next]_vars => UsedInv'
  BY UsedNext
<1>3. Inductive /\ UsedInv => StreamsAreUsed
  <2> SUFFICES ASSUME Inductive, UsedInv  PROVE StreamsAreUsed
    OBVIOUS
  <2>1. MapThenSumSet(Duration, done) = Cardinality(Days(done))
    BY SumIsDays DEF Inductive, Input, TypeOK
  <2> QED  BY <2>1 DEF UsedInv, StreamsAreUsed, Roomy
<1> QED  BY <1>1, <1>2, <1>3, AlwaysInductive, PTL DEF Spec

-------------------------------------------------------------------------------
(* critical_path.  It is defined by two recursive functions on 0 .. n; that  *)
(* there are functions which satisfy their equations, and what their values  *)
(* are like, is shown by induction on a set of numbers.                      *)

LEMMA IntervalInduction ==
  ASSUME NEW n \in Nat, NEW S, 0 \in S, \A k \in 1 .. n : k - 1 \in S => k \in S
  PROVE  \A k \in 0 .. n : k \in S
<1> DEFINE Left == {k \in 0 .. n : k \notin S}
<1> SUFFICES ASSUME Left # {}  PROVE FALSE
  OBVIOUS
<1>1. IsFiniteSet(Left) /\ Left \subseteq Int
  <2>1. IsFiniteSet(0 .. n) /\ Left \subseteq 0 .. n
    BY FS_Interval
  <2> QED  BY <2>1, FS_Subset
<1>2. Least(Left) \in Left /\ \A y \in Left : Least(Left) =< y
  <2> HIDE DEF Left
  <2> QED  BY <1>1, LeastIsLeast
<1> DEFINE k == Least(Left)
<1>3. k \in 0 .. n /\ k \notin S /\ \A y \in 0 .. n : y \notin S => k =< y
  BY <1>2
<1> HIDE DEF k
<1>4. k # 0
  BY <1>3
<1>5. k \in 1 .. n /\ k - 1 \in 0 .. n /\ ~(k =< k - 1)
  BY <1>3, <1>4
<1> QED  BY <1>3, <1>5

\* A function applied again and again, up to n times.
LEMMA Iterates ==
  ASSUME NEW n \in Nat, NEW S, NEW a \in S, NEW g \in [S -> S]
  PROVE  \E f \in [0 .. n -> S] : f[0] = a /\ \A j \in 1 .. n : f[j] = g[f[j - 1]]
<1> DEFINE Run(k) == {f \in [0 .. k -> S] : f[0] = a /\ \A j \in 1 .. k : f[j] = g[f[j - 1]]}
           Good == {k \in 0 .. n : Run(k) # {}}
<1>1. 0 \in Good
  <2>1. [j \in 0 .. 0 |-> a] \in Run(0)
    OBVIOUS
  <2> QED  BY <2>1
<1>2. ASSUME NEW k \in 1 .. n, k - 1 \in Good  PROVE k \in Good
  <2>1. PICK f : f \in Run(k - 1)
    BY <1>2
  <2> DEFINE h == [j \in 0 .. k |-> IF j = k THEN g[f[k - 1]] ELSE f[j]]
  <2>2. /\ \A j \in 0 .. k - 1 : f[j] \in S /\ h[j] = f[j]
        /\ h[k] = g[f[k - 1]] /\ k - 1 \in 0 .. k - 1
        /\ f[0] = a /\ \A j \in 1 .. k - 1 : f[j] = g[f[j - 1]]
    BY <2>1
  <2>3. h \in [0 .. k -> S]
    <3>1. ASSUME NEW j \in 0 .. k  PROVE h[j] \in S
      <4>1. g[f[k - 1]] \in S
        BY <2>2
      <4>2. j = k \/ j \in 0 .. k - 1
        OBVIOUS
      <4> QED  BY <2>2, <4>1, <4>2
    <3> QED  BY <3>1
  <2> HIDE DEF h
  <2>4. h[0] = a
    BY <2>2
  <2>5. ASSUME NEW j \in 1 .. k  PROVE h[j] = g[h[j - 1]]
    <3>1. j - 1 \in 0 .. k - 1
      OBVIOUS
    <3>2. CASE j = k
      BY <2>2, <3>1, <3>2
    <3>3. CASE j # k
      <4>1. j \in 1 .. k - 1 /\ j \in 0 .. k - 1
        BY <3>3
      <4> QED  BY <2>2, <3>1, <4>1
    <3> QED  BY <3>2, <3>3
  <2>6. h \in Run(k)
    BY <2>3, <2>4, <2>5
  <2> QED  BY <2>6
<1> HIDE DEF Good
<1>3. n \in Good
  <2>1. \A k \in 0 .. n : k \in Good
    BY <1>1, <1>2, IntervalInduction
  <2> QED  BY <2>1
<1> QED  BY <1>3 DEF Good

\* Quotients that are rounded down.
LEMMA Quotients ==
  ASSUME NEW a \in Int, NEW b \in Int, NEW d \in Nat \ {0}
  PROVE  /\ a \div d \in Int /\ b \div d \in Int
         /\ a =< b => a \div d =< b \div d
         /\ a \div d =< b \div d => a - b < d
<1> DEFINE q == a \div d
           r == b \div d
<1>1. /\ q \in Int /\ r \in Int
      /\ d * q =< a /\ a < d * q + d
      /\ d * r =< b /\ b < d * r + d
  OBVIOUS
<1> HIDE DEF q, r
<1>2. r + 1 =< q => d * r + d =< d * q
  BY <1>1
<1>3. q =< r => d * q =< d * r
  BY <1>1
<1>4. d * q \in Int /\ d * r \in Int
  BY <1>1
<1>5. a =< b => q =< r
  BY <1>1, <1>2, <1>4
<1>6. q =< r => a - b < d
  BY <1>1, <1>3, <1>4
<1> QED  BY <1>1, <1>5, <1>6 DEF q, r

\* An earlier latest start is no more slack, and no more slack is less than one
\* unit later.
LEMMA SlackIsLatestStart ==
  ASSUME Input, TypeOK, NEW m \in Nodes, NEW n \in Nodes
  PROVE  /\ LatestStart(m) \in Int /\ LatestStart(n) \in Int
         /\ Slack(m) \in Int /\ Slack(n) \in Int
         /\ LatestStart(m) =< LatestStart(n) => Slack(m) =< Slack(n)
         /\ Slack(m) =< Slack(n) => LatestStart(m) - LatestStart(n) < SlackUnit
<1>1. LatestStart(m) \in Int /\ LatestStart(n) \in Int
  BY InputShape, SMTT(60) DEF LatestStart, TypeOK
<1> DEFINE a == 2 * LatestStart(m) + SlackUnit
           b == 2 * LatestStart(n) + SlackUnit
           d == 2 * SlackUnit
<1>2. a \in Int /\ b \in Int /\ d \in Nat \ {0} /\ SlackUnit \in Nat
  BY <1>1, FarAssumption
<1>3. /\ LatestStart(m) =< LatestStart(n) => a =< b
      /\ a - b < d => LatestStart(m) - LatestStart(n) < SlackUnit
  BY <1>1, <1>2
<1>4. Slack(m) = a \div d /\ Slack(n) = b \div d
  BY DEF Slack
<1> HIDE DEF a, b, d
<1>5. /\ a \div d \in Int /\ b \div d \in Int
      /\ a =< b => a \div d =< b \div d
      /\ a \div d =< b \div d => a - b < d
  BY <1>2, Quotients
<1> QED  BY <1>1, <1>3, <1>4, <1>5

\* min() by slack, then by name, of a set of nodes that is not empty.
LEMMA TightestIsTightest ==
  ASSUME Input, TypeOK, NEW S, S \subseteq Nodes, S # {}
  PROVE  Tightest(S) \in S /\ \A m \in S : Slack(Tightest(S)) =< Slack(m)
<1> DEFINE slack  == [n \in S |-> Slack(n)]
           Slacks == {slack[n] : n \in DOMAIN slack}
           First  == {n \in S : slack[n] = Least(Slacks)}
<1>1. \A n \in S : slack[n] = Slack(n) /\ slack[n] \in Int /\ n \in Int
  BY SlackIsLatestStart, NodesAssumption
<1>2. DOMAIN slack = S /\ IsFiniteSet(S)
  BY InputShape, FS_Subset
<1> HIDE DEF slack
<1>3. IsFiniteSet(Slacks) /\ Slacks \subseteq Int /\ Slacks # {}
  BY <1>1, <1>2, ImageIsFinite
<1>4. Least(Slacks) \in Slacks /\ \A y \in Slacks : Least(Slacks) =< y
  <2> HIDE DEF Slacks
  <2> QED  BY <1>3, LeastIsLeast
<1>5. \A n \in S : Least(Slacks) =< slack[n]
  BY <1>2, <1>4
<1>6. First # {} /\ First \subseteq S
  BY <1>2, <1>4
<1>7. \A n \in S : n \in First <=> slack[n] = Least(Slacks)
  OBVIOUS
<1> HIDE DEF First, Slacks
<1>8. IsFiniteSet(First) /\ First \subseteq Int
  BY <1>1, <1>2, <1>6, FS_Subset
<1>9. Least(First) \in First /\ \A n \in First : Least(First) =< n
  BY <1>6, <1>8, LeastIsLeast
<1> DEFINE e == Least(First)
<1>10. e \in S /\ slack[e] = Least(Slacks) /\ \A n \in First : e =< n
  BY <1>6, <1>7, <1>9
<1> HIDE DEF e
<1>11. ASSUME NEW m \in S
       PROVE  \/ slack[e] < slack[m]
              \/ slack[e] = slack[m] /\ e =< m
  <2>1. slack[e] =< slack[m] /\ slack[e] \in Int /\ slack[m] \in Int
    BY <1>1, <1>5, <1>10
  <2>2. slack[e] = slack[m] => e =< m
    BY <1>7, <1>10
  <2>3. slack[e] < slack[m] \/ slack[e] = slack[m]
    BY <2>1
  <2> QED  BY <2>2, <2>3
<1>12. \E n \in S : \A m \in S : \/ Slack(n) < Slack(m)
                                 \/ Slack(n) = Slack(m) /\ n =< m
  BY <1>1, <1>10, <1>11
<1>13. /\ Tightest(S) \in S
       /\ \A m \in S : \/ Slack(Tightest(S)) < Slack(m)
                       \/ Slack(Tightest(S)) = Slack(m) /\ Tightest(S) =< m
  BY <1>12 DEF Tightest
<1>14. \A m \in S : Slack(m) \in Int
  BY <1>1
<1> HIDE DEF Tightest
<1> QED  BY <1>13, <1>14

\* The two recursive functions.
Back(p) == IF DependsOn(p[1]) = {} THEN p ELSE <<Tightest(DependsOn(p[1]))>> \o p
Ahead(n) == Dependents(n) \cap Placed
Forth(p) == IF Ahead(p[Len(p)]) = {} THEN p ELSE Append(p, Tightest(Ahead(p[Len(p)])))

IsBack(f) ==
  f = [k \in 0 .. Len(order) |-> IF k = 0 THEN <<Tightest(Placed)>> ELSE Back(f[k - 1])]
IsWhole(f, back) ==
  f = [k \in 0 .. Len(order) |-> IF k = 0 THEN back[Len(order)] ELSE Forth(f[k - 1])]

\* CriticalPath by the two folds it is made with, as iterates.
LEMMA PathIsWhole ==
  CriticalPath = (CHOOSE w : IsWhole(w, CHOOSE b : IsBack(b)))[Len(order)]
BY DEF CriticalPath, IsWhole, IsBack, Back, Forth, Ahead

\* Where a node stands in the order.
At(n) == CHOOSE i \in DOMAIN order : order[i] = n

\* Whatever was placed depends on what was placed before it.
LEMMA Positions ==
  ASSUME TypeOK, OrderInv, NEW n \in Placed
  PROVE  /\ n \in Nodes /\ At(n) \in 1 .. Len(order) /\ Len(order) \in Nat
         /\ \A d \in DependsOn(n) : d \in Placed /\ At(d) < At(n)
<1>1. \A m \in Placed : At(m) \in DOMAIN order /\ order[At(m)] = m
  BY DEF Placed, At
<1>2. DOMAIN order = 1 .. Len(order) /\ Len(order) \in Nat /\ n \in Nodes
  BY DEF TypeOK, Placed
<1>3. ASSUME NEW d \in DependsOn(n)  PROVE d \in Placed /\ At(d) < At(n)
  <2>1. d \in Placed
    BY DEF OrderInv
  <2>2. order[At(d)] \in DependsOn(order[At(n)])
    BY <1>1, <2>1
  <2> QED  BY <1>1, <2>1, <2>2 DEF OrderInv, OrderIsExact
<1> QED  BY <1>1, <1>2, <1>3

\* Along a dependency, the latest start does not fall.
LEMMA NoLaterBehind ==
  ASSUME Inductive, pc \notin {"order", "backward"}, NEW n \in Placed, NEW d \in DependsOn(n)
  PROVE  /\ d \in Placed /\ d \in Nodes /\ n \in Nodes
         /\ LatestStart(d) =< deadline[d] /\ deadline[d] =< LatestStart(n)
         /\ LatestStart(d) \in Int /\ deadline[d] \in Int /\ LatestStart(n) \in Int
         /\ Slack(d) =< Slack(n)
<1>1. Input /\ TypeOK /\ OrderInv /\ LatestPlanIsFeasible
  BY DeadlinesAreFeasible DEF Inductive, Input
<1>2. d \in Placed /\ d \in Nodes /\ n \in Nodes
  BY <1>1, Positions
<1>3. deadline[d] =< LatestStart(n)
  BY <1>1 DEF LatestPlanIsFeasible
<1>4. LatestStart(d) = deadline[d] - Duration(d) /\ deadline[d] \in Int /\ Duration(d) \in Nat
  BY <1>1, <1>2, InputShape DEF LatestStart, TypeOK
<1>5. LatestStart(d) \in Int /\ LatestStart(n) \in Int
  BY <1>1, <1>2, SlackIsLatestStart
<1>6. LatestStart(d) =< deadline[d] /\ LatestStart(d) =< LatestStart(n)
  BY <1>3, <1>4, <1>5
<1> QED  BY <1>1, <1>2, <1>3, <1>4, <1>5, <1>6, SlackIsLatestStart

\* The path behind: a chain of nodes of the least slack of all, which goes back
\* by one place of the order each time or has come to a node that needs nothing.
BackInv(k, p) ==
  /\ p \in Seq(Nodes) /\ p # <<>>
  /\ \A i \in 1 .. Len(p) : p[i] \in Placed
  /\ \A i \in 1 .. Len(p) - 1 : p[i] \in DependsOn(p[i + 1])
  /\ \A i \in 1 .. Len(p) : \A n \in Placed : Slack(p[i]) =< Slack(n)
  /\ DependsOn(p[1]) = {} \/ At(p[1]) + k =< Len(order)

\* One round of the walk back puts a tightest dependency before the first node
\* of the path, as long as it has any.
LEMMA BackStep ==
  ASSUME Inductive, pc \notin {"order", "backward"},
         NEW k \in 1 .. Len(order), NEW p, BackInv(k - 1, p)
  PROVE  BackInv(k, Back(p))
<1>1. Input /\ TypeOK /\ OrderInv
  BY DEF Inductive, Input
<1>2. /\ p \in Seq(Nodes) /\ Len(p) \in Nat \ {0} /\ 1 \in 1 .. Len(p)
      /\ \A i \in 1 .. Len(p) : p[i] \in Placed
      /\ \A i \in 1 .. Len(p) - 1 : p[i] \in DependsOn(p[i + 1])
      /\ \A i \in 1 .. Len(p) : \A n \in Placed : Slack(p[i]) =< Slack(n)
      /\ DependsOn(p[1]) = {} \/ At(p[1]) + (k - 1) =< Len(order)
  BY DEF BackInv
<1>3. CASE DependsOn(p[1]) = {}
  BY <1>3 DEF BackInv, Back
<1>4. CASE DependsOn(p[1]) # {}
  <2> DEFINE d == Tightest(DependsOn(p[1]))
             b == <<d>> \o p
  <2>1. p[1] \in Placed /\ p[1] \in Nodes /\ DependsOn(p[1]) \subseteq Nodes
    BY <1>1, <1>2, InputShape, Positions
  <2>2. d \in DependsOn(p[1])
    BY <1>1, <1>4, <2>1, TightestIsTightest
  <2> HIDE DEF d
  <2>3. /\ d \in Placed /\ d \in Nodes /\ Slack(d) =< Slack(p[1])
    BY <2>1, <2>2, NoLaterBehind
  <2>4. At(d) < At(p[1]) /\ At(p[1]) \in 1 .. Len(order) /\ At(d) \in 1 .. Len(order)
    BY <1>1, <2>1, <2>2, <2>3, Positions
  <2>5. /\ b \in Seq(Nodes) /\ Len(b) = Len(p) + 1 /\ b[1] = d
        /\ \A i \in 1 .. Len(p) : b[i + 1] = p[i]
    BY <1>2, <2>3
  <2>6. Back(p) = b
    BY <1>4 DEF Back, d
  <2> HIDE DEF b
  <2>7. \A i \in 1 .. Len(b) : i = 1 \/ (i - 1 \in 1 .. Len(p) /\ b[i] = p[i - 1])
    <3> SUFFICES ASSUME NEW i \in 1 .. Len(b), i # 1
                 PROVE  i - 1 \in 1 .. Len(p) /\ b[i] = p[i - 1]
      OBVIOUS
    <3>1. i - 1 \in 1 .. Len(p) /\ (i - 1) + 1 = i
      BY <1>2, <2>5
    <3> QED  BY <2>5, <3>1
  <2>8. \A n \in Placed : Slack(d) =< Slack(n)
    <3> SUFFICES ASSUME NEW n \in Placed  PROVE Slack(d) =< Slack(n)
      OBVIOUS
    <3>1. n \in Nodes
      BY <1>1, Positions
    <3>2. Slack(d) \in Int /\ Slack(p[1]) \in Int /\ Slack(n) \in Int
      BY <1>1, <2>1, <2>3, <3>1, SlackIsLatestStart
    <3> QED  BY <1>2, <2>3, <3>2
  <2>9. \A i \in 1 .. Len(b) : b[i] \in Placed
    BY <1>2, <2>3, <2>5, <2>7
  <2>10. \A i \in 1 .. Len(b) : \A n \in Placed : Slack(b[i]) =< Slack(n)
    BY <1>2, <2>5, <2>7, <2>8
  <2>11. ASSUME NEW i \in 1 .. Len(b) - 1  PROVE b[i] \in DependsOn(b[i + 1])
    <3>1. i \in 1 .. Len(p) /\ i \in 1 .. Len(b)
      BY <1>2, <2>5
    <3>2. b[i + 1] = p[i]
      BY <2>5, <3>1
    <3>3. CASE i = 1
      BY <2>2, <2>5, <3>2, <3>3
    <3>4. CASE i # 1
      <4>1. i - 1 \in 1 .. Len(p) - 1 /\ (i - 1) + 1 = i /\ b[i] = p[i - 1]
        BY <2>7, <3>1, <3>4
      <4> QED  BY <1>2, <3>2, <4>1
    <3> QED  BY <3>3, <3>4
  <2>12. At(b[1]) + k =< Len(order)
    <3>1. At(p[1]) + (k - 1) =< Len(order)
      BY <1>2, <1>4
    <3>2. Len(order) \in Nat
      BY <1>1 DEF TypeOK
    <3> QED  BY <2>4, <2>5, <3>1, <3>2
  <2>13. b # <<>>
    BY <1>2, <2>5
  <2> QED  BY <2>5, <2>6, <2>9, <2>10, <2>11, <2>12, <2>13 DEF BackInv
<1> QED  BY <1>3, <1>4

\* The whole path: behind place m of it the nodes have the least slack, from
\* there on each is followed by its tightest dependent, and it goes ahead by one
\* place of the order each time or has come to a node nothing ordered needs.
WholeInv(k, p, m) ==
  /\ p \in Seq(Nodes) /\ m \in 1 .. Len(p)
  /\ \A i \in 1 .. Len(p) : p[i] \in Placed
  /\ \A i \in 1 .. Len(p) - 1 : p[i] \in DependsOn(p[i + 1])
  /\ DependsOn(p[1]) = {}
  /\ \A i \in 1 .. m : \A n \in Placed : Slack(p[i]) =< Slack(n)
  /\ \A i \in m .. Len(p) - 1 : Ahead(p[i]) # {} /\ p[i + 1] = Tightest(Ahead(p[i]))
  /\ Ahead(p[Len(p)]) = {} \/ k < At(p[Len(p)])

\* One round of the walk forth puts a tightest node that depends on the last one
\* behind it, as long as there is any.
LEMMA ForthStep ==
  ASSUME Inductive, NEW k \in 1 .. Len(order), NEW p, NEW m, WholeInv(k - 1, p, m)
  PROVE  WholeInv(k, Forth(p), m)
<1>1. Input /\ TypeOK /\ OrderInv
  BY DEF Inductive, Input
<1> DEFINE len == Len(p)
<1>2. /\ p \in Seq(Nodes) /\ m \in 1 .. len
      /\ \A i \in 1 .. len : p[i] \in Placed
      /\ \A i \in 1 .. len - 1 : p[i] \in DependsOn(p[i + 1])
      /\ DependsOn(p[1]) = {}
      /\ \A i \in 1 .. m : \A n \in Placed : Slack(p[i]) =< Slack(n)
      /\ \A i \in m .. len - 1 : Ahead(p[i]) # {} /\ p[i + 1] = Tightest(Ahead(p[i]))
      /\ Ahead(p[len]) = {} \/ k - 1 < At(p[len])
  BY DEF WholeInv
<1>3. CASE Ahead(p[len]) = {}
  BY <1>3 DEF WholeInv, Forth
<1>4. CASE Ahead(p[len]) # {}
  <2> DEFINE u == Tightest(Ahead(p[len]))
             b == Append(p, u)
  <2>1. len \in Nat \ {0} /\ m \in Nat \ {0} /\ m =< len
    BY <1>2
  <2>2. p[len] \in Placed
    BY <1>2, <2>1
  <2>3. u \in Ahead(p[len])
    <3>1. Ahead(p[len]) \subseteq Nodes
      BY DEF Ahead, Dependents
    <3> QED  BY <1>1, <1>4, <3>1, TightestIsTightest
  <2>4. u \in Nodes /\ u \in Placed /\ p[len] \in DependsOn(u)
    BY <2>3 DEF Ahead, Dependents
  <2>5. At(p[len]) < At(u) /\ At(p[len]) \in 1 .. Len(order) /\ At(u) \in 1 .. Len(order)
    BY <1>1, <2>2, <2>4, Positions
  <2>6. Forth(p) = b
    BY <1>4 DEF Forth
  <2> HIDE DEF u
  <2>7. /\ b \in Seq(Nodes) /\ Len(b) = len + 1 /\ b[len + 1] = u
        /\ \A i \in 1 .. len : b[i] = p[i]
    BY <1>2, <2>4
  <2> HIDE DEF b, len
  <2>8. \A i \in 1 .. Len(b) : i \in 1 .. len \/ i = len + 1
    BY <2>1, <2>7
  <2>9. \A i \in 1 .. Len(b) : b[i] \in Placed
    BY <1>2, <2>4, <2>7, <2>8
  <2>10. ASSUME NEW i \in 1 .. Len(b) - 1  PROVE b[i] \in DependsOn(b[i + 1])
    <3>1. CASE i = len
      BY <2>1, <2>4, <2>7, <3>1
    <3>2. CASE i # len
      <4>1. i \in 1 .. len - 1 /\ i \in 1 .. len /\ i + 1 \in 1 .. len
        BY <2>1, <2>7, <3>2
      <4> QED  BY <1>2, <2>7, <4>1
    <3> QED  BY <3>1, <3>2
  <2>11. ASSUME NEW i \in m .. Len(b) - 1
         PROVE  Ahead(b[i]) # {} /\ b[i + 1] = Tightest(Ahead(b[i]))
    <3>1. CASE i = len
      <4>1. b[i] = p[len] /\ b[i + 1] = u
        BY <2>1, <2>7, <3>1
      <4> QED  BY <1>4, <4>1 DEF u
    <3>2. CASE i # len
      <4>1. i \in m .. len - 1 /\ i \in 1 .. len /\ i + 1 \in 1 .. len
        BY <2>1, <2>7, <3>2
      <4> QED  BY <1>2, <2>7, <4>1
    <3> QED  BY <3>1, <3>2
  <2>12. /\ DependsOn(b[1]) = {} /\ m \in 1 .. Len(b)
         /\ \A i \in 1 .. m : \A n \in Placed : Slack(b[i]) =< Slack(n)
    <3>1. 1 \in 1 .. len /\ m \in 1 .. Len(b) /\ \A i \in 1 .. m : i \in 1 .. len
      BY <2>1, <2>7
    <3> QED  BY <1>2, <2>7, <3>1
  <2>13. k < At(b[Len(b)])
    <3>1. k - 1 < At(p[len]) /\ b[Len(b)] = u
      BY <1>2, <1>4, <2>7
    <3> QED  BY <2>5, <3>1
  <2> QED  BY <2>6, <2>7, <2>9, <2>10, <2>11, <2>12, <2>13 DEF WholeInv
<1> QED  BY <1>3, <1>4

\* critical_path computes such a path, and to its ends.
LEMMA PathShapeOfPlan ==
  ASSUME Inductive, pc \notin {"order", "backward"}, order # <<>>
  PROVE  \E m : WholeInv(Len(order), CriticalPath, m)
<1> DEFINE len   == Len(order)
           Lists == {p \in Seq(Nodes) : p # <<>>}
<1>1. Input /\ TypeOK /\ OrderInv
  BY DEF Inductive, Input
<1>2. len \in Nat /\ len # 0 /\ DOMAIN order = 1 .. len
  BY <1>1 DEF TypeOK
<1>3. Placed # {} /\ Placed \subseteq Nodes
  <2>1. 1 \in DOMAIN order
    BY <1>2
  <2>2. order[1] \in Placed
    BY <2>1 DEF Placed
  <2> QED  BY <1>1, <2>2, Positions
<1>4. ASSUME NEW p \in Lists  PROVE Back(p) \in Lists /\ Forth(p) \in Lists
  <2>1. p \in Seq(Nodes) /\ p[1] \in Nodes /\ p[Len(p)] \in Nodes
    BY <1>4
  <2>2. Back(p) \in Lists
    <3>1. CASE DependsOn(p[1]) = {}
      BY <1>4, <3>1 DEF Back
    <3>2. CASE DependsOn(p[1]) # {}
      <4> DEFINE d == Tightest(DependsOn(p[1]))
      <4>1. DependsOn(p[1]) \subseteq Nodes
        BY <1>1, <2>1, InputShape
      <4>2. d \in Nodes
        BY <1>1, <3>2, <4>1, TightestIsTightest
      <4>3. Back(p) = <<d>> \o p
        BY <3>2 DEF Back
      <4> HIDE DEF d
      <4>4. <<d>> \o p \in Seq(Nodes) /\ Len(<<d>> \o p) = 1 + Len(p) /\ Len(p) \in Nat
        BY <2>1, <4>2
      <4>5. <<d>> \o p # <<>>
        BY <4>4
      <4> QED  BY <4>3, <4>4, <4>5
    <3> QED  BY <3>1, <3>2
  <2>3. Forth(p) \in Lists
    <3>1. CASE Ahead(p[Len(p)]) = {}
      BY <1>4, <3>1 DEF Forth
    <3>2. CASE Ahead(p[Len(p)]) # {}
      <4> DEFINE u == Tightest(Ahead(p[Len(p)]))
      <4>1. Ahead(p[Len(p)]) \subseteq Nodes
        BY DEF Ahead, Dependents
      <4>2. u \in Nodes
        BY <1>1, <3>2, <4>1, TightestIsTightest
      <4>3. Forth(p) = Append(p, u)
        BY <3>2 DEF Forth
      <4> HIDE DEF u
      <4>4. Append(p, u) \in Seq(Nodes) /\ Len(Append(p, u)) = Len(p) + 1 /\ Len(p) \in Nat
        BY <2>1, <4>2
      <4>5. Append(p, u) # <<>>
        BY <4>4
      <4> QED  BY <4>3, <4>4, <4>5
    <3> QED  BY <3>1, <3>2
  <2> QED  BY <2>2, <2>3
<1> DEFINE first == <<Tightest(Placed)>>
<1>5. Tightest(Placed) \in Placed /\ \A n \in Placed : Slack(Tightest(Placed)) =< Slack(n)
  BY <1>1, <1>3, TightestIsTightest
<1>6. first \in Lists
  BY <1>3, <1>5
<1> HIDE DEF Lists
<1>7. \E f : IsBack(f)
  <2> DEFINE g == [p \in Lists |-> Back(p)]
  <2>1. g \in [Lists -> Lists] /\ \A p \in Lists : g[p] = Back(p)
    BY <1>4
  <2> HIDE DEF g, first
  <2>2. PICK f \in [0 .. len -> Lists] : f[0] = first /\ \A j \in 1 .. len : f[j] = g[f[j - 1]]
    <3> HIDE DEF len
    <3>1. len \in Nat /\ first \in Lists /\ g \in [Lists -> Lists]
      BY <1>2, <1>6, <2>1
    <3> QED  BY ONLY <3>1, Iterates, SMTT(60)
  <2>3. ASSUME NEW k \in 0 .. len
        PROVE  f[k] = IF k = 0 THEN first ELSE Back(f[k - 1])
    <3>1. CASE k = 0
      BY <2>2, <3>1
    <3>2. CASE k # 0
      <4>1. k \in 1 .. len /\ k - 1 \in 0 .. len
        BY <1>2, <3>2
      <4> QED  BY <2>1, <2>2, <3>2, <4>1
    <3> QED  BY <3>1, <3>2
  <2>4. f = [k \in 0 .. len |-> f[k]]
    BY <2>2
  <2>5. f = [k \in 0 .. len |-> IF k = 0 THEN first ELSE Back(f[k - 1])]
    BY <2>3, <2>4
  <2> QED  BY <2>5 DEF IsBack, first
<1> DEFINE back == CHOOSE f : IsBack(f)
<1>8. /\ back[0] = first /\ \A k \in 1 .. len : back[k] = Back(back[k - 1])
  <2>1. IsBack(back)
    BY <1>7
  <2> HIDE DEF back
  <2>2. \A k \in 0 .. len : back[k] = IF k = 0 THEN first ELSE Back(back[k - 1])
    BY <2>1 DEF IsBack
  <2> QED  BY <1>2, <2>2
<1>9. BackInv(len, back[len])
  <2> HIDE DEF back
  <2> DEFINE Good == {k \in 0 .. len : BackInv(k, back[k])}
  <2>1. 0 \in Good
    <3>1. first[1] = Tightest(Placed) /\ Len(first) = 1 /\ first \in Seq(Nodes) /\ first # <<>>
      BY <1>3, <1>5
    <3>2. At(first[1]) + 0 =< len
      BY <1>1, <1>5, <3>1, Positions
    <3> HIDE DEF first
    <3>3. BackInv(0, first)
      BY <1>5, <3>1, <3>2 DEF BackInv
    <3> QED  BY <1>2, <1>8, <3>3
  <2>2. ASSUME NEW k \in 1 .. len, k - 1 \in Good  PROVE k \in Good
    BY <1>8, <2>2, BackStep
  <2>3. \A k \in 0 .. len : k \in Good
    <3> HIDE DEF Good
    <3> QED  BY <1>2, <2>1, <2>2, IntervalInduction
  <2> QED  BY <1>2, <2>3
<1> DEFINE chain == back[len]
<1>10. WholeInv(0, chain, Len(chain))
  <2> HIDE DEF back
  <2>1. /\ chain \in Seq(Nodes) /\ Len(chain) \in Nat \ {0}
        /\ \A i \in 1 .. Len(chain) : chain[i] \in Placed
        /\ \A i \in 1 .. Len(chain) - 1 : chain[i] \in DependsOn(chain[i + 1])
        /\ \A i \in 1 .. Len(chain) : \A n \in Placed : Slack(chain[i]) =< Slack(n)
        /\ DependsOn(chain[1]) = {} \/ At(chain[1]) + len =< len
    BY <1>9 DEF BackInv
  <2> HIDE DEF chain
  <2>2. chain[1] \in Placed /\ chain[Len(chain)] \in Placed
    BY <2>1
  <2>3. At(chain[1]) \in 1 .. len /\ At(chain[Len(chain)]) \in 1 .. len
    BY <1>1, <2>2, Positions
  <2>4. DependsOn(chain[1]) = {} /\ 0 < At(chain[Len(chain)])
    BY <1>2, <2>1, <2>3
  <2>5. Len(chain) \in 1 .. Len(chain) /\ Len(chain) .. Len(chain) - 1 = {}
    BY <2>1
  <2> QED  BY <2>1, <2>4, <2>5 DEF WholeInv
<1>11. chain \in Lists
  <2> HIDE DEF back
  <2> QED  BY <1>9 DEF BackInv, Lists
<1>12. \E f : IsWhole(f, back)
  <2> DEFINE g == [p \in Lists |-> Forth(p)]
  <2>1. g \in [Lists -> Lists] /\ \A p \in Lists : g[p] = Forth(p)
    BY <1>4
  <2> HIDE DEF g, back, chain
  <2>2. PICK f \in [0 .. len -> Lists] : f[0] = chain /\ \A j \in 1 .. len : f[j] = g[f[j - 1]]
    <3> HIDE DEF len
    <3>1. len \in Nat /\ chain \in Lists /\ g \in [Lists -> Lists]
      BY <1>2, <1>11, <2>1
    <3> QED  BY ONLY <3>1, Iterates, SMTT(60)
  <2>3. ASSUME NEW k \in 0 .. len
        PROVE  f[k] = IF k = 0 THEN chain ELSE Forth(f[k - 1])
    <3>1. CASE k = 0
      BY <2>2, <3>1
    <3>2. CASE k # 0
      <4>1. k \in 1 .. len /\ k - 1 \in 0 .. len
        BY <1>2, <3>2
      <4> QED  BY <2>1, <2>2, <3>2, <4>1
    <3> QED  BY <3>1, <3>2
  <2>4. f = [k \in 0 .. len |-> f[k]]
    BY <2>2
  <2>5. f = [k \in 0 .. len |-> IF k = 0 THEN chain ELSE Forth(f[k - 1])]
    BY <2>3, <2>4
  <2> QED  BY <2>5 DEF IsWhole, chain
<1> DEFINE whole == CHOOSE f : IsWhole(f, back)
<1>13. whole[0] = chain /\ \A k \in 1 .. len : whole[k] = Forth(whole[k - 1])
  <2> HIDE DEF back
  <2>1. IsWhole(whole, back)
    BY <1>12
  <2> HIDE DEF whole
  <2>2. \A k \in 0 .. len : whole[k] = IF k = 0 THEN chain ELSE Forth(whole[k - 1])
    BY <2>1 DEF IsWhole
  <2> QED  BY <1>2, <2>2
<1>14. WholeInv(len, whole[len], Len(chain))
  <2> HIDE DEF whole, back, chain
  <2> DEFINE Good == {k \in 0 .. len : WholeInv(k, whole[k], Len(chain))}
  <2>1. 0 \in Good
    BY <1>2, <1>10, <1>13
  <2>2. ASSUME NEW k \in 1 .. len, k - 1 \in Good  PROVE k \in Good
    BY <1>13, <2>2, ForthStep
  <2>3. \A k \in 0 .. len : k \in Good
    <3> HIDE DEF Good
    <3> QED  BY <1>2, <2>1, <2>2, IntervalInduction
  <2> QED  BY <1>2, <2>3
<1>15. CriticalPath = whole[len]
  BY PathIsWhole
<1> HIDE DEF whole
<1> QED  BY <1>14, <1>15

\* What is printed as the critical path binds: up to a node with a date of its
\* own there is no day to spare between two of its nodes.
THEOREM CriticalCorrect == Spec => []CriticalPathBinds
<1>1. ASSUME Inductive  PROVE CriticalPathBinds
  <2> SUFFICES ASSUME pc \notin {"order", "backward"}, order # <<>>
               PROVE  LET p      == CriticalPath
                          own(n) == \/ deadline[n] = MustFinishOf(n)
                                    \/ \E u \in Dependents(n) \ Placed :
                                         deadline[n] = LatestStart(u)
                      IN  /\ DependsOn(p[1]) = {} /\ Dependents(p[Len(p)]) \cap Placed = {}
                          /\ \A i \in 1 .. Len(p) - 1 : p[i] \in DependsOn(p[i + 1])
                          /\ \A n \in Placed : Slack(p[1]) =< Slack(n)
                          /\ \E i \in DOMAIN p :
                               /\ own(p[i])
                               /\ \A j \in 1 .. i - 1 :
                                    LatestStart(p[j + 1]) - deadline[p[j]] \in 0 .. SlackUnit - 1
    BY DEF CriticalPathBinds
  <2> DEFINE p      == CriticalPath
             len    == Len(p)
             own(n) == \/ deadline[n] = MustFinishOf(n)
                       \/ \E u \in Dependents(n) \ Placed : deadline[n] = LatestStart(u)
  <2>1. Input /\ TypeOK /\ OrderInv /\ LatestPlanIsFeasible
    BY <1>1, DeadlinesAreFeasible DEF Inductive, Input
  <2>2. PICK m : WholeInv(Len(order), p, m)
    BY <1>1, PathShapeOfPlan
  <2> HIDE DEF p
  <2>3. /\ p \in Seq(Nodes) /\ m \in 1 .. len /\ len \in Nat \ {0} /\ DOMAIN p = 1 .. len
        /\ \A i \in 1 .. len : p[i] \in Placed
        /\ \A i \in 1 .. len - 1 : p[i] \in DependsOn(p[i + 1])
        /\ DependsOn(p[1]) = {}
        /\ \A i \in 1 .. m : \A n \in Placed : Slack(p[i]) =< Slack(n)
        /\ \A i \in m .. len - 1 : Ahead(p[i]) # {} /\ p[i + 1] = Tightest(Ahead(p[i]))
        /\ Ahead(p[len]) = {} \/ Len(order) < At(p[len])
    <3>1. /\ p \in Seq(Nodes) /\ m \in 1 .. len
          /\ \A i \in 1 .. len : p[i] \in Placed
          /\ \A i \in 1 .. len - 1 : p[i] \in DependsOn(p[i + 1])
          /\ DependsOn(p[1]) = {}
          /\ \A i \in 1 .. m : \A n \in Placed : Slack(p[i]) =< Slack(n)
          /\ \A i \in m .. len - 1 : Ahead(p[i]) # {} /\ p[i + 1] = Tightest(Ahead(p[i]))
          /\ Ahead(p[len]) = {} \/ Len(order) < At(p[len])
      BY <2>2 DEF WholeInv
    <3>2. len \in Nat \ {0} /\ DOMAIN p = 1 .. len
      BY <3>1
    <3> QED  BY <3>1, <3>2
  <2> HIDE DEF len
  <2>4. Ahead(p[len]) = {}
    <3>1. p[len] \in Placed
      BY <2>3
    <3>2. At(p[len]) \in 1 .. Len(order) /\ Len(order) \in Nat
      BY <2>1, <3>1, Positions
    <3> QED  BY <2>3, <3>2
  <2>5. \A n \in Placed : own(n) \/ \E u \in Ahead(n) : deadline[n] = LatestStart(u)
    BY <2>1 DEF LatestPlanIsFeasible, Ahead
  <2>6. own(p[len])
    BY <2>3, <2>4, <2>5
  <2> HIDE DEF own
  <2> DEFINE Own == {i \in m .. len : own(p[i])}
  <2>7. Least(Own) \in Own /\ \A i \in Own : Least(Own) =< i
    <3>1. len \in Own /\ Own \subseteq m .. len /\ m .. len \subseteq Int
      BY <2>3, <2>6
    <3>2. IsFiniteSet(m .. len)
      BY <2>3, FS_Interval
    <3> HIDE DEF Own
    <3>3. IsFiniteSet(Own) /\ Own # {} /\ Own \subseteq Int
      BY <3>1, <3>2, FS_Subset
    <3> QED  BY <3>3, LeastIsLeast
  <2> DEFINE e == Least(Own)
  <2>8. /\ e \in m .. len /\ own(p[e]) /\ \A i \in m .. len : own(p[i]) => e =< i
    BY <2>7
  <2> HIDE DEF e, Own
  <2>9. ASSUME NEW j \in 1 .. e - 1
        PROVE  LatestStart(p[j + 1]) - deadline[p[j]] \in 0 .. SlackUnit - 1
    <3>1. /\ j \in 1 .. len - 1 /\ j \in 1 .. len /\ j + 1 \in 1 .. len
      BY <2>3, <2>8
    <3>2. p[j] \in Placed /\ p[j + 1] \in Placed /\ p[j] \in DependsOn(p[j + 1])
      BY <2>3, <3>1
    <3>3. /\ p[j] \in Nodes /\ p[j + 1] \in Nodes
          /\ LatestStart(p[j]) =< deadline[p[j]] /\ deadline[p[j]] =< LatestStart(p[j + 1])
          /\ LatestStart(p[j]) \in Int /\ deadline[p[j]] \in Int /\ LatestStart(p[j + 1]) \in Int
      BY <1>1, <3>2, NoLaterBehind
    <3>4. LatestStart(p[j + 1]) - deadline[p[j]] < SlackUnit
      <4>1. CASE j < m
        <5>1. Slack(p[j + 1]) =< Slack(p[j])
          <6>1. j + 1 \in 1 .. m
            BY <2>3, <4>1
          <6> QED  BY <2>3, <3>2, <6>1
        <5>2. LatestStart(p[j + 1]) - LatestStart(p[j]) < SlackUnit
          BY <2>1, <3>3, <5>1, SlackIsLatestStart
        <5>3. SlackUnit \in Nat
          BY FarAssumption
        <5> QED  BY <3>3, <5>2, <5>3
      <4>2. CASE j >= m
        <5>1. j \in m .. len /\ j \in m .. len - 1 /\ ~(e =< j)
          BY <2>3, <2>8, <3>1, <4>2
        <5>2. ~own(p[j])
          BY <2>8, <5>1
        <5>3. PICK u \in Ahead(p[j]) : deadline[p[j]] = LatestStart(u)
          BY <2>5, <3>2, <5>2
        <5>4. Ahead(p[j]) \subseteq Nodes /\ p[j + 1] = Tightest(Ahead(p[j]))
          BY <2>3, <5>1 DEF Ahead, Dependents
        <5>5. Slack(p[j + 1]) =< Slack(u) /\ u \in Nodes
          BY <2>1, <5>3, <5>4, TightestIsTightest
        <5>6. LatestStart(p[j + 1]) - LatestStart(u) < SlackUnit
          BY <2>1, <3>3, <5>5, SlackIsLatestStart
        <5> QED  BY <5>3, <5>6
      <4> QED  BY <2>3, <4>1, <4>2
    <3>5. SlackUnit \in Nat
      BY FarAssumption
    <3> QED  BY <3>3, <3>4, <3>5
  <2>10. e \in DOMAIN p
    BY <2>3, <2>8
  <2>11. \A n \in Placed : Slack(p[1]) =< Slack(n)
    <3>1. 1 \in 1 .. m
      BY <2>3
    <3> QED  BY <2>3, <3>1
  <2>12. \A i \in 1 .. len - 1 : p[i] \in DependsOn(p[i + 1])
    BY <2>3
  <2> QED  BY <2>3, <2>4, <2>8, <2>9, <2>10, <2>11, <2>12 DEF Ahead, own, p, len
<1> QED  BY <1>1, AlwaysInductive, PTL
==============================================================================
