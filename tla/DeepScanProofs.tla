--------------------------- MODULE DeepScanProofs ---------------------------
(***************************************************************************)
(* Proofs about the recursive scan, for any modules, identifiers, findings *)
(* and bounds: the loop, with its invariant IInv, and the report, with     *)
(* that of ScanReport.                                                     *)
(***************************************************************************)
EXTENDS Scans, Sequences, FiniteSetTheorems, WellFoundedInduction, TLAPS

\* What is added was found and is new.
LEMMA AdditionsFound ==
    ASSUME NEW known, NEW found, NEW more \in Additions(known, found)
    PROVE  more \subseteq found \ known
BY DEF Additions

\* What is added leaves the report within its bound.
LEMMA AdditionsFit ==
    ASSUME NEW known, IsFiniteSet(known), Cardinality(known) <= MaxIdentifiers,
           NEW found, IsFiniteSet(found), NEW more \in Additions(known, found)
    PROVE  Cardinality(known \cup more) <= MaxIdentifiers
<1>1. more \subseteq found \ known BY AdditionsFound
<1>2. IsFiniteSet(more) BY <1>1, FS_Subset
<1>3. known \cap more = {} BY <1>1
<1>4. Cardinality(known \cup more)
          = Cardinality(known) + Cardinality(more) - Cardinality(known \cap more)
  BY <1>2, FS_Union
<1>5. Cardinality(known \cap more) = 0 BY <1>3, FS_EmptySet
<1>6. /\ Cardinality(known) \in Nat /\ Cardinality(more) \in Nat
      /\ MaxIdentifiers \in Nat
  BY <1>2, FS_CardinalityType, ScanAssumption
<1>7. CASE more = {} BY <1>7
<1>8. CASE Cardinality(known) + Cardinality(more) <= MaxIdentifiers
  BY <1>4, <1>5, <1>6, <1>8
<1>9. \/ more = {}
      \/ Cardinality(known) + Cardinality(more) <= MaxIdentifiers
  BY <1>6 DEF Additions
<1> QED BY <1>7, <1>8, <1>9

\* A report that holds nothing but identifiers is finite.
LEMMA ReportFinite ==
    ASSUME NEW known \in SUBSET (Identifiers \cup {Self})
    PROVE  IsFiniteSet(known)
<1>1. IsFiniteSet(Identifiers) /\ IsFiniteSet({Self})
  BY ScanAssumption, FS_Singleton
<1>2. IsFiniteSet(Identifiers \cup {Self}) BY <1>1, FS_Union
<1> QED BY <1>2, FS_Subset

\* A cut never adds a target.
LEMMA CappedSubset ==
    ASSUME NEW targets, NEW some \in Capped(targets)
    PROVE  some \subseteq targets
BY DEF Capped

\* Phase 1 is never cut: there is room for the target and all its pivots.
LEMMA Phase1Uncut ==
    ASSUME NEW sure \in SUBSET Pivots,
           NEW some \in Capped({i.value : i \in sure} \cup {Target})
    PROVE  Target \in some
<1> DEFINE values == {i.value : i \in sure}
           f == [i \in sure |-> i.value]
<1>1. IsFiniteSet(Identifiers) /\ Pivots \subseteq Identifiers /\ MaxTargets \in Nat
      /\ Cardinality(Pivots) < MaxTargets
  BY ScanAssumption
<1>2. IsFiniteSet(Pivots) BY <1>1, FS_Subset
<1>3. IsFiniteSet(sure) /\ Cardinality(sure) <= Cardinality(Pivots)
  BY <1>2, FS_Subset
<1>4. f \in Surjection(sure, values)
  BY DEF Surjection
<1>5. IsFiniteSet(values) /\ Cardinality(values) <= Cardinality(sure)
  BY <1>3, <1>4, FS_Surjection
<1>6. IsFiniteSet(values \cup {Target})
      /\ Cardinality(values \cup {Target}) <= Cardinality(values) + 1
  <2>1. /\ IsFiniteSet(values \cup {Target})
        /\ \/ Cardinality(values \cup {Target}) = Cardinality(values)
           \/ Cardinality(values \cup {Target}) = Cardinality(values) + 1
    BY <1>5, FS_AddElement
  <2>2. Cardinality(values) \in Nat BY <1>5, FS_CardinalityType
  <2> HIDE DEF values
  <2> QED BY <2>1, <2>2
<1>7. Cardinality(values \cup {Target}) <= MaxTargets
  <2>1. /\ Cardinality(values) \in Nat /\ Cardinality(sure) \in Nat
        /\ Cardinality(Pivots) \in Nat /\ Cardinality(values \cup {Target}) \in Nat
    BY <1>2, <1>3, <1>5, <1>6, FS_CardinalityType
  <2> HIDE DEF values
  <2> QED BY <2>1, <1>1, <1>3, <1>5, <1>6
<1>8. \A all : Cardinality(all) <= MaxTargets => Capped(all) = {all}
  BY DEF Capped
<1>9. some = values \cup {Target}
  BY <1>7, <1>8
<1> QED BY <1>9

-----------------------------------------------------------------------------
\* Nothing that was launched before is launched again, and what is launched is
\* all there is to launch.
LEMMA LaunchKeeps ==
    ASSUME TypeOK, OneIterationPerPair, LaunchedOrScanned,
           tasks = {},
           NEW targets \in SUBSET Values, NEW known, NEW n \in Nat,
           Launch(targets, known, n), scanned' = scanned
    PROVE  /\ phase' = "running" /\ batch' = targets /\ iteration' = n
           /\ tasks' \subseteq Pairs
           /\ launches' \in [Pairs -> SUBSET Nat]
           /\ OneIterationPerPair'
           /\ LaunchedOrScanned'
           /\ \A p \in tasks' : p[2] \in targets
           /\ \A v \in targets, m \in Modules :
                  Relevant(m, v, known) => <<m, v>> \in scanned' \cup tasks'
<1> DEFINE pairs == {p \in Pairs : /\ p[2] \in targets
                                   /\ Relevant(p[1], p[2], known)
                                   /\ p \notin scanned}
<1>1. /\ phase' = "running" /\ batch' = targets /\ iteration' = n
      /\ tasks' = pairs
      /\ launches' = [p \in Pairs |-> IF p \in pairs THEN launches[p] \cup {n}
                                      ELSE launches[p]]
  BY DEF Launch
<1>2. launches \in [Pairs -> SUBSET Nat] BY DEF TypeOK
<1>3. \A p \in pairs : launches[p] = {}
  BY DEF LaunchedOrScanned
<1>4. \A p \in Pairs : launches'[p] = IF p \in pairs THEN {n} ELSE launches[p]
  <2> HIDE DEF pairs
  <2> QED BY <1>1, <1>3
<1>5. launches' \in [Pairs -> SUBSET Nat]
  <2> HIDE DEF pairs
  <2> QED BY <1>1, <1>2
<1>6. OneIterationPerPair'
  <2> HIDE DEF pairs
  <2> QED BY <1>4 DEF OneIterationPerPair
<1>7. LaunchedOrScanned'
  <2>1. tasks' \cap scanned' = {} BY <1>1
  <2>2. \A p \in Pairs : launches'[p] # {} => p \in scanned' \cup tasks'
    <3> HIDE DEF pairs
    <3> QED BY <1>1, <1>4 DEF LaunchedOrScanned
  <2> QED BY <2>1, <2>2 DEF LaunchedOrScanned
<1>8. \A v \in targets, m \in Modules :
          Relevant(m, v, known) => <<m, v>> \in scanned' \cup tasks'
  <2> SUFFICES ASSUME NEW v \in targets, NEW m \in Modules, Relevant(m, v, known),
                      <<m, v>> \notin scanned
               PROVE  <<m, v>> \in pairs
    BY <1>1
  <2>1. <<m, v>> \in Pairs BY DEF Pairs
  <2>2. <<m, v>>[1] = m /\ <<m, v>>[2] = v OBVIOUS
  <2> QED BY <2>1, <2>2
<1>9. tasks' \subseteq Pairs /\ \A p \in tasks' : p[2] \in targets
  BY <1>1
<1> QED BY <1>1, <1>5, <1>6, <1>7, <1>8, <1>9

-----------------------------------------------------------------------------
\* The inductive invariant holds initially.
LEMMA InitIInv == Init => IInv
BY FS_EmptySet, ScanAssumption
   DEF Init, IInv, TypeOK, OneIterationPerPair, OnlyTrustedScanned,
       LaunchedOrScanned, BatchComplete, SeenCovered, ExhaustedMeansSeen,
       NothingBeforeStart, Over

\* The first iteration establishes it for the target and its pivots.
LEMMA StartStep == IInv /\ Start => IInv'
<1> SUFFICES ASSUME IInv, Start PROVE IInv'
  OBVIOUS
<1> USE DEF IInv
<1>1. PICK added \in Additions({Self}, Pivots), doubted \in SUBSET Pivots :
          /\ idents' = {Self} \cup added
          /\ weak' = added \cap doubted
          /\ \E some \in Capped({i.value : i \in added \ doubted} \cup {Target}) :
                Launch(some, {Self} \cup added, 0)
  BY DEF Start
<1>2. PICK some \in Capped({i.value : i \in added \ doubted} \cup {Target}) :
          Launch(some, {Self} \cup added, 0)
  BY <1>1
<1>3. /\ findings = {} /\ scanned = {} /\ seen = {} /\ tasks = {}
      /\ UNCHANGED <<findings, scanned, seen>> /\ tooled = {} /\ tooled' = {}
  BY DEF Start, NothingBeforeStart, TypeOK
<1>4. added \subseteq Pivots /\ Self \notin added
  BY AdditionsFound
<1>5. Pivots \subseteq Identifiers /\ Identifiers \subseteq Identifier
      /\ Target \in Values /\ Self.value = Target
  BY ScanAssumption DEF Self
<1>6. some \subseteq {i.value : i \in added \ doubted} \cup {Target}
  BY CappedSubset
<1>7. some \subseteq Values
  BY <1>4, <1>5, <1>6 DEF Identifier
<1>8. Target \in some
  <2>1. added \ doubted \in SUBSET Pivots BY <1>4
  <2> QED BY <2>1, Phase1Uncut
<1>9. /\ phase' = "running" /\ batch' = some /\ iteration' = 0
      /\ tasks' \subseteq Pairs
      /\ launches' \in [Pairs -> SUBSET Nat]
      /\ OneIterationPerPair'
      /\ LaunchedOrScanned'
      /\ \A p \in tasks' : p[2] \in some
      /\ \A v \in some, m \in Modules :
             Relevant(m, v, idents') => <<m, v>> \in scanned' \cup tasks'
  BY <1>1, <1>2, <1>3, <1>7, LaunchKeeps
<1>10. \A v \in some : \E i \in idents' \ weak' : i.value = v
  <2> SUFFICES ASSUME NEW v \in some PROVE \E i \in idents' \ weak' : i.value = v
    OBVIOUS
  <2>1. CASE v = Target
    <3>1. Self \in idents' \ weak' BY <1>1, <1>4
    <3> QED BY <2>1, <3>1, <1>5
  <2>2. CASE v # Target
    <3>1. PICK i \in added \ doubted : i.value = v BY <2>2, <1>6
    <3>2. i \in idents' \ weak' BY <1>1
    <3> QED BY <3>1, <3>2
  <2> QED BY <2>1, <2>2
<1>11. TypeOK'
  <2>1. IsFiniteSet({Self}) /\ Cardinality({Self}) = 1 BY FS_Singleton
  <2>2. IsFiniteSet(Pivots) /\ MaxIdentifiers \in Nat \ {0}
    BY ScanAssumption, FS_Subset
  <2>3. Cardinality({Self}) <= MaxIdentifiers BY <2>1, <2>2
  <2>4. Cardinality(idents') <= MaxIdentifiers
    BY <1>1, <2>1, <2>2, <2>3, AdditionsFit
  <2> QED BY <1>1, <1>3, <1>4, <1>5, <1>7, <1>9, <2>4 DEF TypeOK
<1>12. OnlyTrustedScanned'
  BY <1>3, <1>9, <1>10 DEF OnlyTrustedScanned
<1>13. BatchComplete'
  <2>1. \A v, m : Relevant(m, v, idents)' <=> Relevant(m, v, idents')
    BY DEF Relevant
  <2> QED BY <1>8, <1>9, <1>10, <2>1 DEF BatchComplete
<1>14. SeenCovered' BY <1>3 DEF SeenCovered
<1>15. ExhaustedMeansSeen' /\ NothingBeforeStart'
  BY <1>9 DEF ExhaustedMeansSeen, NothingBeforeStart
<1> QED BY <1>9, <1>11, <1>12, <1>13, <1>14, <1>15

\* A pair that ends moves from tasks to scanned.
LEMMA PairStep == ASSUME IInv, NEW p \in tasks, PairEnds(p) PROVE IInv'
<1> USE DEF IInv
<1>1. /\ tasks' = tasks \ {p} /\ scanned' = scanned \cup {p}
      /\ scanned' \cup tasks' = scanned \cup tasks
      /\ UNCHANGED <<phase, idents, weak, seen, batch, iteration, launches, tooled>>
  BY DEF PairEnds
<1>2. TypeOK' BY <1>1 DEF TypeOK, PairEnds
<1>3. OneIterationPerPair' BY <1>1 DEF OneIterationPerPair
<1>4. OnlyTrustedScanned' BY <1>1 DEF OnlyTrustedScanned
<1>5. LaunchedOrScanned' BY <1>1 DEF LaunchedOrScanned
<1>6. BatchComplete' BY <1>1 DEF BatchComplete, Relevant
<1>7. SeenCovered' BY <1>1 DEF SeenCovered, Covered
<1>8. ExhaustedMeansSeen' BY <1>1 DEF ExhaustedMeansSeen, NewTargets
<1>9. NothingBeforeStart' BY <1>1 DEF NothingBeforeStart
<1> QED BY <1>2, <1>3, <1>4, <1>5, <1>6, <1>7, <1>8, <1>9

\* At the barrier the batch is covered, so that it may count as seen.
LEMMA EndStep == IInv /\ EndIteration => IInv'
<1> SUFFICES ASSUME IInv, EndIteration PROVE IInv'
  OBVIOUS
<1> USE DEF IInv
<1>1. PICK added \in Additions(idents, findings) :
          /\ idents' = idents \cup added
          /\ seen' = seen \cup (IF iteration = 0 THEN {Target} ELSE batch)
          /\ NextTargets(idents', seen')
  BY DEF EndIteration
<1>2. /\ phase = "running" /\ tasks = {} /\ UNCHANGED <<weak, findings, scanned>>
      /\ tooled = {} /\ tooled' = {}
  BY DEF EndIteration, TypeOK
<1>3. added \subseteq findings /\ added \cap idents = {}
  BY AdditionsFound
<1>4. idents \subseteq idents' /\ idents' \subseteq Identifiers \cup {Self}
      /\ weak' \subseteq idents'
      /\ idents \ weak \subseteq idents' \ weak'
      /\ Cardinality(idents') <= MaxIdentifiers
  <2>1. IsFiniteSet(idents) /\ IsFiniteSet(findings)
    BY ReportFinite DEF TypeOK
  <2>2. Cardinality(idents') <= MaxIdentifiers
    BY <1>1, <2>1, AdditionsFit DEF TypeOK
  <2> QED BY <1>1, <1>2, <1>3, <2>2 DEF TypeOK
<1>5. \A v \in batch : Covered(v)
  <2> SUFFICES ASSUME NEW v \in batch PROVE Covered(v)
    OBVIOUS
  <2>1. PICK i \in idents \ weak : i.value = v
    BY <1>2 DEF BatchComplete
  <2>2. \A m \in Modules : i.type \in Accepts[m] => <<m, v>> \in scanned
    BY <1>2, <2>1 DEF BatchComplete, Relevant
  <2> QED BY <2>1, <2>2 DEF Covered
<1>6. \A v \in seen' : Covered(v)
  <2>1. iteration = 0 => Target \in batch BY <1>2 DEF BatchComplete
  <2> QED BY <1>1, <1>5, <2>1 DEF SeenCovered
<1>7. SeenCovered'
  BY <1>2, <1>4, <1>6 DEF SeenCovered, Covered
<1>8. OnlyTrustedScanned' \/ tasks' # {}
  BY <1>2, <1>4 DEF OnlyTrustedScanned
<1>9. seen' \subseteq Values
  BY <1>1, ScanAssumption DEF TypeOK
<1>10. CASE Stop("bound") \/ (Stop("exhausted") /\ NewTargets(idents', seen') = {})
  <2>1. /\ phase' \in {"bound", "exhausted"}
        /\ UNCHANGED <<batch, tasks, iteration, launches>>
        /\ phase' = "exhausted" => NewTargets(idents', seen') = {}
    BY <1>10 DEF Stop
  <2>2. TypeOK' BY <1>2, <1>4, <1>9, <2>1 DEF TypeOK, Over
  <2>3. OneIterationPerPair' BY <2>1 DEF OneIterationPerPair
  <2>4. LaunchedOrScanned' BY <1>2, <2>1 DEF LaunchedOrScanned
  <2>5. BatchComplete' /\ NothingBeforeStart' BY <2>1 DEF BatchComplete, NothingBeforeStart
  <2>6. ExhaustedMeansSeen' BY <1>2, <2>1 DEF ExhaustedMeansSeen, NewTargets
  <2>7. OnlyTrustedScanned' BY <1>2, <1>8, <2>1
  <2> QED BY <1>7, <2>2, <2>3, <2>4, <2>5, <2>6, <2>7
<1>11. ASSUME NEW some \in Capped(NewTargets(idents', seen')),
              ~(iteration + 1 >= MaxIterations),
              Launch(some, idents', iteration + 1)
       PROVE  IInv'
  <2>1. some \subseteq NewTargets(idents', seen') BY CappedSubset
  <2>2. \A v \in some : \E i \in idents' \ weak' : i.value = v
    BY <1>2, <2>1 DEF NewTargets
  <2>3. some \in SUBSET Values
    BY <1>4, <2>2, ScanAssumption DEF Identifier, Self
  <2>4. /\ iteration + 1 \in Nat /\ iteration + 1 # 0
        /\ iteration + 1 < MaxIterations
    BY <1>11, ScanAssumption DEF TypeOK
  <2>5. /\ phase' = "running" /\ batch' = some /\ iteration' = iteration + 1
        /\ tasks' \subseteq Pairs
        /\ launches' \in [Pairs -> SUBSET Nat]
        /\ OneIterationPerPair'
        /\ LaunchedOrScanned'
        /\ \A p \in tasks' : p[2] \in some
        /\ \A v \in some, m \in Modules :
               Relevant(m, v, idents') => <<m, v>> \in scanned' \cup tasks'
    BY <1>2, <1>11, <2>3, <2>4, LaunchKeeps
  <2>6. TypeOK' BY <1>2, <1>4, <1>9, <2>3, <2>4, <2>5 DEF TypeOK
  <2>7. OnlyTrustedScanned'
    <3>1. \A p \in scanned : \E i \in idents' \ weak' : i.value = p[2]
      BY <1>4 DEF OnlyTrustedScanned
    <3> QED BY <1>2, <2>2, <2>5, <3>1 DEF OnlyTrustedScanned
  <2>8. BatchComplete'
    <3>1. \A v, m : Relevant(m, v, idents)' <=> Relevant(m, v, idents')
      BY DEF Relevant
    <3> QED BY <2>2, <2>4, <2>5, <3>1 DEF BatchComplete
  <2>9. ExhaustedMeansSeen' /\ NothingBeforeStart'
    BY <2>5 DEF ExhaustedMeansSeen, NothingBeforeStart
  <2> QED BY <1>7, <2>5, <2>6, <2>7, <2>8, <2>9
<1> QED BY <1>1, <1>10, <1>11 DEF NextTargets

\* Every step of the scan keeps the inductive invariant.
LEMMA NextIInv == IInv /\ [Next]_vars => IInv'
<1> SUFFICES ASSUME IInv, [Next]_vars PROVE IInv'
  OBVIOUS
<1>1. CASE Start BY <1>1, StartStep
<1>2. ASSUME NEW p \in tasks, PairEnds(p) PROVE IInv' BY <1>2, PairStep
<1>3. CASE EndIteration BY <1>3, EndStep
<1>4. CASE ScanRaises
  BY <1>4 DEF ScanRaises, loopVars, IInv, TypeOK, Over, OneIterationPerPair,
              OnlyTrustedScanned, LaunchedOrScanned, BatchComplete, SeenCovered,
              Covered, ExhaustedMeansSeen, NothingBeforeStart
<1>5. CASE UNCHANGED vars
  BY <1>5 DEF vars, loopVars, IInv, TypeOK, Over, OneIterationPerPair,
              OnlyTrustedScanned, LaunchedOrScanned, BatchComplete, SeenCovered, Covered,
              Relevant, ExhaustedMeansSeen, NewTargets, NothingBeforeStart
<1>6. CASE RunTools
  <2>1. /\ tooled' \subseteq idents \cup Slug /\ phase \in {"exhausted", "bound"}
        /\ UNCHANGED <<phase, loopVars>>
    BY <1>6 DEF RunTools, Picks
  <2> QED BY <2>1 DEF loopVars, IInv, TypeOK, Over, OneIterationPerPair,
              OnlyTrustedScanned, LaunchedOrScanned, BatchComplete, SeenCovered, Covered,
              Relevant, ExhaustedMeansSeen, NewTargets, NothingBeforeStart
<1> QED BY <1>1, <1>2, <1>3, <1>4, <1>5, <1>6 DEF Next

\* The inductive invariant holds in every reachable state.
THEOREM ScanInvariance == Spec => []IInv
<1>1. Init => IInv BY InitIInv
<1>2. IInv /\ [Next]_vars => IInv' BY NextIInv
<1> QED BY <1>1, <1>2, PTL DEF Spec

-----------------------------------------------------------------------------
\* The variables hold values of their types.
THEOREM ScanTypeCorrect == Spec => []TypeOK
<1>1. IInv => TypeOK BY DEF IInv
<1> QED BY <1>1, ScanInvariance, PTL

\* No module runs on the same value in two iterations, however the findings refer
\* to each other and whatever fails.
THEOREM NeverRescanned == Spec => []OneIterationPerPair
<1>1. IInv => OneIterationPerPair BY DEF IInv
<1> QED BY <1>1, ScanInvariance, PTL

\* No module of the loop is ever run on the strength of a doubted handle alone.
THEOREM DoubtedNeverScanned == Spec => []OnlyTrustedScanned
<1>1. IInv => OnlyTrustedScanned BY DEF IInv
<1> QED BY <1>1, ScanInvariance, PTL

\* A scan that ends for lack of new identifiers has passed over no trusted value.
THEOREM ExhaustionIsCoverage == Spec => []CoveredWhenExhausted
<1>1. IInv => CoveredWhenExhausted
  <2> SUFFICES ASSUME IInv, phase = "exhausted", NEW i \in idents \ weak,
                      i.value \notin Addresses
               PROVE  Covered(i.value)
    BY DEF CoveredWhenExhausted, Covered
  <2>1. i.value \in seen
    BY DEF IInv, ExhaustedMeansSeen, NewTargets
  <2> QED BY <2>1 DEF IInv, SeenCovered
<1> QED BY <1>1, ScanInvariance, PTL

-----------------------------------------------------------------------------
\* The report: what becomes of the findings after the loop.

\* The least of some naturals, and the greatest of some that are bounded.
LEMMA LeastOf ==
    ASSUME NEW S \in SUBSET Nat, S # {}
    PROVE  \E x \in S : \A y \in S : x <= y
<1>1. PICK x \in S : \A y \in S : ~ (<<y, x>> \in OpToRel(<, Nat))
  BY NatLessThanWellFounded, WFMin
<1>2. \A y \in S : ~ (y < x) BY <1>1 DEF OpToRel
<1>3. x \in Nat /\ \A y \in S : y \in Nat OBVIOUS
<1> QED BY <1>2, <1>3

LEMMA GreatestOf ==
    ASSUME NEW n \in Nat, NEW S \in SUBSET (0..n), S # {}
    PROVE  Report!Max(S) \in S /\ \A y \in S : Report!Max(S) >= y
<1>1. PICK T : T = {k \in Nat : n - k \in S} OBVIOUS
<1>2. T \in SUBSET Nat /\ T # {}
  <2>1. PICK y : y \in S OBVIOUS
  <2>2. y \in 0..n /\ n - y \in Nat /\ n - (n - y) = y BY <2>1
  <2>3. n - y \in T BY <1>1, <2>1, <2>2
  <2> QED BY <1>1, <2>3
<1>3. PICK k \in T : \A l \in T : k <= l BY <1>2, LeastOf
<1>4. PICK x : x = n - k OBVIOUS
<1>5. x \in S /\ k \in Nat BY <1>1, <1>3, <1>4
<1>6. ASSUME NEW y \in S PROVE x >= y
  <2>1. y \in 0..n /\ n - y \in Nat /\ n - (n - y) = y OBVIOUS
  <2>2. n - y \in T BY <1>1, <2>1
  <2>3. k <= n - y BY <1>3, <2>2
  <2> QED BY <1>4, <1>5, <2>1, <2>3
<1>7. \E z \in S : \A y \in S : z >= y BY <1>5, <1>6
<1> QED BY <1>7 DEF Report!Max

\* A selection comes from different places of the list, and leaves none of them out.
ComesFrom(t, s, places) ==
    \E n \in Nat : \E f \in [1..n -> places] :
        /\ DOMAIN t = 1..n
        /\ \A k \in 1..n : t[k] = s[f[k]]
        /\ \A j, k \in 1..n : f[j] = f[k] => j = k
        /\ \A i \in places : \E k \in 1..n : f[k] = i

LEMMA SelectionPlaces ==
    ASSUME NEW S, NEW s \in Seq(S), NEW places \in SUBSET DOMAIN s,
           NEW t \in Report!Selections(s, places)
    PROVE  ComesFrom(t, s, places)
<1>1. IsFiniteSet(1..Len(s)) BY FS_Interval
<1>2. IsFiniteSet(places) BY <1>1, FS_Subset
<1>3. PICK n : n = Cardinality(places) OBVIOUS
<1>4. n \in Nat BY <1>2, <1>3, FS_CardinalityType
<1>5. Report!Cardinality(places) = n
  BY <1>3, SMT DEF Report!Cardinality, Cardinality, Report!IsFiniteSet, IsFiniteSet
<1>6. PICK f \in [1..n -> places] :
          /\ \A j, k \in DOMAIN f : j < k => f[j] < f[k]
          /\ \A i \in places : \E k \in DOMAIN f : f[k] = i
          /\ t = [k \in DOMAIN f |-> s[f[k]]]
  BY <1>5 DEF Report!Selections, Report!InOrder
<1>7. DOMAIN f = 1..n /\ DOMAIN t = 1..n BY <1>6
<1>8. \A k \in 1..n : t[k] = s[f[k]] BY <1>6
<1>9. ASSUME NEW j \in 1..n, NEW k \in 1..n, f[j] = f[k] PROVE j = k
  <2>1. f[j] \in 1..Len(s) /\ f[k] \in 1..Len(s) BY <1>6
  <2>2. f[j] \in Nat /\ f[k] \in Nat /\ j \in Nat /\ k \in Nat BY <2>1
  <2>3. ~ (j < k) /\ ~ (k < j)
    <3>1. j < k => f[j] < f[k] BY <1>6, <1>7
    <3>2. k < j => f[k] < f[j] BY <1>6, <1>7
    <3> QED BY <1>9, <2>2, <3>1, <3>2
  <2> QED BY <2>2, <2>3
<1>10. \A i \in places : \E k \in 1..n : f[k] = i BY <1>6, <1>7
<1> QED BY <1>4, <1>7, <1>8, <1>9, <1>10 DEF ComesFrom

\* What stands for an entity has the most that any finding about it says.
LEMMA MergedFacts ==
    ASSUME NEW s \in Seq(Report!Finding), NEW i \in DOMAIN s
    PROVE  /\ Report!Merged(s, s[i]) \in Report!Finding
           /\ Report!Merged(s, s[i]).id = s[i].id
           /\ Report!Merged(s, s[i]).url = s[i].url
           /\ Report!SameEntity(s[i], Report!Merged(s, s[i]))
           /\ \A j \in DOMAIN s : Report!SameEntity(s[i], s[j]) =>
                 /\ Report!Merged(s, s[i]).severity >= s[j].severity
                 /\ Report!Merged(s, s[i]).confidence >= s[j].confidence
                 /\ s[j].tags \subseteq Report!Merged(s, s[i]).tags
<1>1. PICK f : f = s[i] OBVIOUS
<1>2. PICK same : same = {g \in Report!Elems(s) : Report!SameEntity(f, g)} OBVIOUS
<1>3. f \in same /\ \A g \in same : g \in Report!Finding
  <2>1. \A j \in DOMAIN s : s[j] \in Report!Finding OBVIOUS
  <2>2. f \in Report!Elems(s) BY <1>1 DEF Report!Elems
  <2>3. Report!SameEntity(f, f) BY DEF Report!SameEntity
  <2> QED BY <1>2, <2>1, <2>2, <2>3 DEF Report!Elems
<1>4. PICK sev, con, tag : /\ sev = {g.severity : g \in same} /\ con = {g.confidence : g \in same}
                           /\ tag = UNION {g.tags : g \in same}
  OBVIOUS
<1>5. sev \in SUBSET (0..4) /\ sev # {} /\ con \in SUBSET (0..10) /\ con # {}
      /\ tag \in SUBSET STRING
  <2>1. \A g \in same : g.severity \in 0..4 /\ g.confidence \in 0..10 /\ g.tags \in SUBSET STRING
    BY <1>3 DEF Report!Finding
  <2> QED BY <1>3, <1>4, <2>1
<1>6. Report!Max(sev) \in sev /\ \A y \in sev : Report!Max(sev) >= y BY <1>5, GreatestOf
<1>7. Report!Max(con) \in con /\ \A y \in con : Report!Max(con) >= y BY <1>5, GreatestOf
<1>8. PICK m : m = Report!Merged(s, s[i]) OBVIOUS
<1>9. m = [f EXCEPT !.severity = Report!Max(sev), !.confidence = Report!Max(con), !.tags = tag]
  BY <1>1, <1>2, <1>4, <1>8 DEF Report!Merged
<1>10. Report!Max(sev) \in 0..4 /\ Report!Max(con) \in 0..10 BY <1>5, <1>6, <1>7
<1>11. f \in Report!Finding BY <1>3
<1>12. m \in Report!Finding BY <1>5, <1>9, <1>10, <1>11 DEF Report!Finding
<1>13. /\ m.id = f.id /\ m.url = f.url /\ m.module = f.module /\ m.value = f.value /\ m.loc = f.loc
       /\ m.severity = Report!Max(sev) /\ m.confidence = Report!Max(con) /\ m.tags = tag
  BY <1>9, <1>11 DEF Report!Finding
<1>14. Report!SameEntity(f, m) BY <1>13 DEF Report!SameEntity
<1>15. ASSUME NEW j \in DOMAIN s, Report!SameEntity(f, s[j])
       PROVE  m.severity >= s[j].severity /\ m.confidence >= s[j].confidence
              /\ s[j].tags \subseteq m.tags
  <2>1. s[j] \in same BY <1>2, <1>15 DEF Report!Elems
  <2> QED BY <1>4, <1>6, <1>7, <1>13, <2>1
<1> QED BY <1>1, <1>8, <1>12, <1>13, <1>14, <1>15

\* What the state says of the report.
LEMMA ReportFacts ==
    ASSUME Report!ReportAssumption, Report!IInv
    PROVE  /\ stage \in {"tools", "profiles", "verifying", "ai", "dedup", "done", "raised"}
           /\ collected \in SUBSET Pool /\ collected \in SUBSET Report!Finding
           /\ report \in Seq(Report!Finding)
           /\ \A f \in Report!Elems(report) : \E g \in collected : g.id = f.id
           /\ \A d \in pending \cup denied : \E f \in collected : f.profile /\ f.id = d
           /\ stage \in {"tools", "profiles", "verifying", "raised"} => collected
                  = Report!Elems(report)
           /\ stage \in {"tools", "profiles"} => denied = {}
<1>1. Report!TypeOK /\ Report!AllThere BY DEF Report!IInv
<1>2. stage \in {"tools", "profiles", "verifying", "ai", "dedup", "done", "raised"}
  BY <1>1 DEF Report!TypeOK, Report!Over
<1>3. collected \in SUBSET Pool /\ Pool \subseteq Report!Finding
  BY <1>1 DEF Report!TypeOK, Report!ReportAssumption
<1>4. \A d \in pending \cup denied : \E f \in collected : f.profile /\ f.id = d
  BY <1>1 DEF Report!TypeOK
<1>5. /\ report \in Seq(Report!Finding)
      /\ \A f \in Report!Elems(report) : \E g \in collected : g.id = f.id
  BY <1>1 DEF Report!TypeOK
<1> QED BY <1>1, <1>2, <1>3, <1>4, <1>5 DEF Report!AllThere

\* What is there as it was found is reported.
LEMMA ThereIsReported ==
    ASSUME NEW f \in Report!Finding, f \in Report!Elems(report)'
    PROVE  Report!Represented(f)'
<1>1. f.severity \in Nat /\ f.confidence \in Nat /\ f.severity >= f.severity
      /\ f.confidence >= f.confidence
  BY DEF Report!Finding
<1>2. Report!SameEntity(f, f) BY DEF Report!SameEntity
<1> QED BY <1>1, <1>2 DEF Report!Represented

LEMMA ReportStarts == ASSUME Report!ReportAssumption, Report!Init PROVE Report!IInv
<1>1. /\ report \in Seq(Pool) /\ collected = Report!Elems(report) /\ stage = "tools"
      /\ pending = {} /\ denied = {} /\ Pool \subseteq Report!Finding
  BY DEF Report!Init, Report!ReportAssumption
<1>2. \A i \in DOMAIN report : report[i] \in Pool BY <1>1
<1>3. report \in Seq(Report!Finding) /\ collected \subseteq Pool
  BY <1>1, <1>2 DEF Report!Elems
<1>4. Report!TypeOK BY <1>1, <1>3 DEF Report!TypeOK
<1>5. Report!AllThere /\ Report!Standing BY <1>1 DEF Report!AllThere, Report!Standing
<1>6. Report!EveryFindingAccountedFor /\ Report!ReportedOnce
  BY <1>1 DEF Report!EveryFindingAccountedFor, Report!ReportedOnce, Report!Over
<1> QED BY <1>4, <1>5, <1>6 DEF Report!IInv

\* What is in a sequence that was added to.
LEMMA ElemsOfBoth ==
    ASSUME NEW s \in Seq(Report!Finding), NEW t \in Seq(Report!Finding)
    PROVE  s \o t \in Seq(Report!Finding)
           /\ Report!Elems(s \o t) = Report!Elems(s) \cup Report!Elems(t)
<1>1. s \o t \in Seq(Report!Finding) /\ Len(s \o t) = Len(s) + Len(t) /\ Len(s) \in Nat
      /\ Len(t) \in Nat
  OBVIOUS
<1>2. \A i \in 1..Len(s) : (s \o t)[i] = s[i] OBVIOUS
<1>3. \A i \in 1..Len(t) : (s \o t)[Len(s) + i] = t[i] OBVIOUS
<1>4. DOMAIN s = 1..Len(s) /\ DOMAIN t = 1..Len(t) /\ DOMAIN (s \o t) = 1..(Len(s) + Len(t))
  BY <1>1
<1>5. ASSUME NEW x \in Report!Elems(s \o t) PROVE x \in Report!Elems(s) \cup Report!Elems(t)
  <2>1. PICK i \in DOMAIN (s \o t) : x = (s \o t)[i] BY DEF Report!Elems
  <2>2. CASE i \in 1..Len(s) BY <1>2, <1>4, <2>1, <2>2 DEF Report!Elems
  <2>3. CASE i \notin 1..Len(s)
    <3>1. PICK j : j = i - Len(s) OBVIOUS
    <3>2. j \in 1..Len(t) /\ i = Len(s) + j BY <1>1, <1>4, <2>1, <2>3, <3>1
    <3>3. x = t[j] BY <1>3, <2>1, <3>2
    <3> QED BY <1>4, <3>2, <3>3 DEF Report!Elems
  <2> QED BY <2>2, <2>3
<1>6. ASSUME NEW x \in Report!Elems(s) PROVE x \in Report!Elems(s \o t)
  <2>1. PICK i \in 1..Len(s) : x = s[i] BY <1>4 DEF Report!Elems
  <2>2. i \in DOMAIN (s \o t) /\ x = (s \o t)[i] BY <1>1, <1>2, <1>4, <2>1
  <2> QED BY <2>2 DEF Report!Elems
<1>7. ASSUME NEW x \in Report!Elems(t) PROVE x \in Report!Elems(s \o t)
  <2>1. PICK i \in 1..Len(t) : x = t[i] BY <1>4 DEF Report!Elems
  <2>2. Len(s) + i \in DOMAIN (s \o t) /\ x = (s \o t)[Len(s) + i] BY <1>1, <1>3, <1>4, <2>1
  <2> QED BY <2>2 DEF Report!Elems
<1> QED BY <1>1, <1>5, <1>6, <1>7

LEMMA ReportTools ==
    ASSUME Report!ReportAssumption, Report!IInv, Report!ExternalTools PROVE Report!IInv'
<1>1. PICK found \in ToolFindings : /\ report' = report \o found
                                    /\ collected' = collected \cup Report!Elems(found)
  BY DEF Report!ExternalTools
<1>2. stage = "tools" /\ stage' = "profiles" /\ pending' = pending /\ denied' = denied
  BY DEF Report!ExternalTools
<1>3. /\ collected \in SUBSET Pool /\ report \in Seq(Report!Finding) /\ denied = {}
      /\ collected = Report!Elems(report)
      /\ \A d \in pending : \E f \in collected : f.profile /\ f.id = d
  BY <1>2, ReportFacts
<1>4. found \in Seq(Pool) /\ Pool \subseteq Report!Finding BY DEF Report!ReportAssumption
<1>5. \A i \in DOMAIN found : found[i] \in Pool BY <1>4
<1>6. found \in Seq(Report!Finding) /\ Report!Elems(found) \subseteq Pool
  BY <1>4, <1>5 DEF Report!Elems
<1>7. report' \in Seq(Report!Finding) /\ collected' = Report!Elems(report')
  BY <1>1, <1>3, <1>6, ElemsOfBoth
<1>8. Report!Elems(report)' = Report!Elems(report') BY DEF Report!Elems
<1>9. Report!TypeOK'
  <2>1. collected' \subseteq Pool BY <1>1, <1>3, <1>6
  <2>2. pending' \cup denied' \subseteq {f.id : f \in {g \in collected' : g.profile}}
    BY <1>1, <1>2, <1>3
  <2> QED BY <1>2, <1>7, <1>8, <2>1, <2>2 DEF Report!TypeOK
<1>10. Report!AllThere' BY <1>2, <1>3, <1>7, <1>8 DEF Report!AllThere
<1>11. Report!Standing' BY <1>2 DEF Report!Standing
<1>12. Report!EveryFindingAccountedFor' /\ Report!ReportedOnce'
  BY <1>2 DEF Report!EveryFindingAccountedFor, Report!ReportedOnce, Report!Over
<1> QED BY <1>9, <1>10, <1>11, <1>12 DEF Report!IInv

\* Only profiles that were found are scraped.
LEMMA ReportProfiles ==
    ASSUME Report!ReportAssumption, Report!IInv, Report!StartProfiles PROVE Report!IInv'
<1>1. /\ stage = "profiles" /\ report' = report /\ denied' = denied /\ collected' = collected
  BY DEF Report!StartProfiles
<1>2. \/ stage' = "verifying" /\ pending' = Report!ToVerify(report)
      \/ stage' = "ai" /\ pending' = pending
  BY DEF Report!StartProfiles
<1>3. /\ collected = Report!Elems(report) /\ denied = {} /\ Report!TypeOK
      /\ \A d \in pending : \E f \in collected : f.profile /\ f.id = d
  BY <1>1, ReportFacts DEF Report!IInv
<1>4. \A d \in Report!ToVerify(report) : \E f \in collected : f.profile /\ f.id = d
  BY <1>3 DEF Report!ToVerify, Report!Elems
<1>5. Report!TypeOK'
  <2>1. pending' \cup denied' \subseteq {f.id : f \in {g \in collected' : g.profile}}
    BY <1>1, <1>2, <1>3, <1>4
  <2> QED BY <1>1, <1>2, <1>3, <2>1 DEF Report!TypeOK
<1>6. Report!AllThere' BY <1>1, <1>2, <1>3 DEF Report!AllThere
<1>7. Report!Standing' BY <1>1, <1>2, <1>3 DEF Report!Standing
<1>8. Report!EveryFindingAccountedFor' /\ Report!ReportedOnce'
  BY <1>2 DEF Report!EveryFindingAccountedFor, Report!ReportedOnce, Report!Over
<1> QED BY <1>5, <1>6, <1>7, <1>8 DEF Report!IInv

LEMMA ReportVerifies ==
    ASSUME Report!ReportAssumption, Report!IInv, NEW id \in pending, Report!Verify(id)
    PROVE  Report!IInv'
<1>1. /\ stage = "verifying" /\ stage' = stage /\ report' = report /\ collected' = collected
      /\ pending' = pending \ {id} /\ denied' \subseteq denied \cup {id}
  BY DEF Report!Verify
<1>2. Report!TypeOK /\ Report!AllThere BY DEF Report!IInv
<1>3. Report!TypeOK'
  <2>1. pending' \cup denied' \subseteq pending \cup denied BY <1>1
  <2> QED BY <1>1, <1>2, <2>1 DEF Report!TypeOK
<1>4. Report!AllThere' BY <1>1, <1>2 DEF Report!AllThere
<1>5. Report!Standing' BY <1>1 DEF Report!Standing
<1>6. Report!EveryFindingAccountedFor' /\ Report!ReportedOnce'
  BY <1>1 DEF Report!EveryFindingAccountedFor, Report!ReportedOnce, Report!Over
<1> QED BY <1>3, <1>4, <1>5, <1>6 DEF Report!IInv

\* A finding that is filtered out was denied, or the first one that points to its page
\* and was not denied is kept.
LEMMA ReportFilters ==
    ASSUME Report!ReportAssumption, Report!IInv, Report!FilterProfiles PROVE Report!IInv'
<1>1. /\ stage = "verifying" /\ stage' = "ai" /\ pending' = pending /\ denied' = denied
      /\ collected' = collected /\ report' \in Report!Selections(report, Report!Confirmed(report))
  BY DEF Report!FilterProfiles
<1>2. Report!TypeOK BY DEF Report!IInv
<1>3. report \in Seq(Report!Finding) /\ collected = Report!Elems(report) BY <1>1, ReportFacts
<1>4. Report!Confirmed(report) \in SUBSET DOMAIN report BY DEF Report!Confirmed
<1>5. ComesFrom(report', report, Report!Confirmed(report)) BY <1>1, <1>3, <1>4, SelectionPlaces
<1>6. PICK n \in Nat : \E f \in [1..n -> Report!Confirmed(report)] :
          /\ DOMAIN report' = 1..n
          /\ \A k \in 1..n : report'[k] = report[f[k]]
          /\ \A i \in Report!Confirmed(report) : \E k \in 1..n : f[k] = i
  BY <1>5 DEF ComesFrom
<1>6a. PICK from \in [1..n -> Report!Confirmed(report)] :
          /\ DOMAIN report' = 1..n
          /\ \A k \in 1..n : report'[k] = report[from[k]]
          /\ \A i \in Report!Confirmed(report) : \E k \in 1..n : from[k] = i
  BY <1>6
<1>7. report' = [k \in 1..n |-> report'[k]]
  BY <1>1, <1>6a DEF Report!Selections
<1>8. \A i \in DOMAIN report : report[i] \in Report!Finding BY <1>3
<1>9. report' \in Seq(Report!Finding)
  <2>1. \A k \in 1..n : report'[k] \in Report!Finding BY <1>4, <1>6a, <1>8
  <2> QED BY <1>7, <2>1
<1>10. \A f \in Report!Elems(report') : \E i \in Report!Confirmed(report) : f = report[i]
  BY <1>6a DEF Report!Elems
<1>11. \A i \in Report!Confirmed(report) : report[i] \in Report!Elems(report')
  BY <1>6a DEF Report!Elems
<1>12. Report!Elems(report)' = Report!Elems(report') BY DEF Report!Elems
<1>13. \A f \in Report!Elems(report') : f \in collected /\ f.id \notin denied
  <2>1. \A i \in Report!Confirmed(report) : report[i] \in collected /\ report[i].id \notin denied
    BY <1>3, <1>4 DEF Report!Confirmed, Report!Elems
  <2> QED BY <1>10, <2>1
<1>14. ASSUME NEW f \in collected, f.id \notin denied, f \notin Report!Elems(report')
       PROVE  f.url # NoUrl /\ \E g \in Report!Elems(report') \ {f} : g.url = f.url
  <2>1. PICK i \in DOMAIN report : f = report[i] BY <1>3 DEF Report!Elems
  <2>2. i \notin Report!Confirmed(report) BY <1>11, <1>14, <2>1
  <2>3. f.url # NoUrl BY <1>14, <2>1, <2>2 DEF Report!Confirmed
  <2>4. PICK all : all = {j \in DOMAIN report : report[j].url = f.url /\ report[j].id \notin denied}
    OBVIOUS
  <2>5. DOMAIN report = 1..Len(report) /\ Len(report) \in Nat BY <1>3
  <2>6. all \in SUBSET Nat /\ all # {} BY <1>14, <2>1, <2>4, <2>5
  <2>7. PICK j \in all : \A k \in all : j <= k BY <2>6, LeastOf
  <2>8. ASSUME NEW k \in 1..(j - 1), report[k].url = report[j].url PROVE report[k].id \in denied
    <3>1. j \in 1..Len(report) /\ report[j].url = f.url BY <2>4, <2>5, <2>7
    <3>2. k \in DOMAIN report /\ ~ (j <= k) BY <2>5, <3>1
    <3>3. k \notin all BY <2>7, <3>2
    <3> QED BY <2>4, <2>8, <3>1, <3>2, <3>3
  <2>9. j \in Report!Confirmed(report) BY <2>4, <2>7, <2>8 DEF Report!Confirmed
  <2>10. report[j] \in Report!Elems(report') /\ report[j].url = f.url BY <1>11, <2>4, <2>7, <2>9
  <2> QED BY <1>14, <2>3, <2>10
<1>15. Report!TypeOK'
  <2>1. \A f \in Report!Elems(report') : \E g \in collected : g.id = f.id BY <1>13
  <2> QED BY <1>1, <1>2, <1>9, <1>12, <2>1 DEF Report!TypeOK
<1>16. Report!AllThere' BY <1>1 DEF Report!AllThere
<1>17. Report!Standing' BY <1>1, <1>12, <1>13, <1>14 DEF Report!Standing
<1>18. Report!EveryFindingAccountedFor' /\ Report!ReportedOnce'
  BY <1>1 DEF Report!EveryFindingAccountedFor, Report!ReportedOnce, Report!Over
<1> QED BY <1>15, <1>16, <1>17, <1>18 DEF Report!IInv

\* The dossier is of nobody's profile, and so it is not denied.
LEMMA ReportEnriches ==
    ASSUME Report!ReportAssumption, Report!IInv, Report!Enrich PROVE Report!IInv'
<1>1. /\ stage = "ai" /\ stage' = "dedup" /\ pending' = pending /\ denied' = denied
      /\ \/ report' = Append(report, Dossier) /\ collected' = collected \cup {Dossier}
         \/ report' = report /\ collected' = collected
  BY DEF Report!Enrich
<1>2. Report!TypeOK /\ Report!Standing BY DEF Report!IInv
<1>3. /\ collected \in SUBSET Pool /\ report \in Seq(Report!Finding)
      /\ \A d \in pending \cup denied : \E f \in collected : f.profile /\ f.id = d
      /\ \A f \in Report!Elems(report) : f \in collected /\ f.id \notin denied
      /\ \A f \in collected :
            \/ f \in Report!Elems(report)
            \/ f.id \in denied
            \/ f.url # NoUrl /\ \E g \in Report!Elems(report) \ {f} : g.url = f.url
  <2>1. /\ collected \in SUBSET Pool /\ report \in Seq(Report!Finding)
        /\ \A d \in pending \cup denied : \E f \in collected : f.profile /\ f.id = d
    BY ReportFacts
  <2> QED BY <1>1, <1>2, <2>1 DEF Report!Standing
<1>4. Dossier \in Pool /\ Dossier \in Report!Finding /\ Dossier.id \notin denied
  <2>1. /\ Dossier \in Pool /\ ~ Dossier.profile /\ Pool \subseteq Report!Finding
        /\ \A f \in Pool : f.id = Dossier.id => f = Dossier
    BY DEF Report!ReportAssumption
  <2>2. ASSUME Dossier.id \in denied PROVE FALSE
    <3>1. PICK f \in collected : f.profile /\ f.id = Dossier.id BY <1>3, <2>2
    <3>2. f = Dossier BY <1>3, <2>1, <3>1
    <3> QED BY <2>1, <3>1, <3>2
  <2> QED BY <2>1, <2>2
<1>5. /\ Report!Elems(report)' = Report!Elems(report') /\ report' \in Seq(Report!Finding)
      /\ \/ /\ Report!Elems(report') = Report!Elems(report) \cup {Dossier}
            /\ collected' = collected \cup {Dossier}
         \/ Report!Elems(report') = Report!Elems(report) /\ collected' = collected
  <2>1. CASE report' = Append(report, Dossier) /\ collected' = collected \cup {Dossier}
    <3>1. report' = report \o <<Dossier>> /\ <<Dossier>> \in Seq(Report!Finding)
      BY <1>3, <1>4, <2>1
    <3>2. Report!Elems(<<Dossier>>) = {Dossier} BY DEF Report!Elems
    <3>3. PICK s, d : s = report /\ d = <<Dossier>> OBVIOUS
    <3>4. s \o d \in Seq(Report!Finding)
          /\ Report!Elems(s \o d) = Report!Elems(s) \cup Report!Elems(d)
      BY <1>3, <3>1, <3>3, ElemsOfBoth
    <3>5. /\ report' \in Seq(Report!Finding)
          /\ Report!Elems(report') = Report!Elems(report) \cup {Dossier}
      BY <3>1, <3>2, <3>3, <3>4
    <3>6. Report!Elems(report)' = Report!Elems(report') BY DEF Report!Elems
    <3> QED BY <2>1, <3>5, <3>6
  <2>2. CASE report' = report /\ collected' = collected BY <1>3, <2>2 DEF Report!Elems
  <2> QED BY <1>1, <2>1, <2>2
<1>6. \A f \in Report!Elems(report') : f \in collected' /\ f.id \notin denied
  BY <1>3, <1>4, <1>5
<1>7. \A f \in collected' :
         \/ f \in Report!Elems(report')
         \/ f.id \in denied
         \/ f.url # NoUrl /\ \E g \in Report!Elems(report') \ {f} : g.url = f.url
  BY <1>3, <1>5
<1>8. Report!TypeOK'
  <2>1. collected' \subseteq Pool BY <1>3, <1>4, <1>5
  <2>2. pending' \cup denied' \subseteq {f.id : f \in {g \in collected' : g.profile}}
    BY <1>1, <1>3, <1>5
  <2>3. \A f \in Report!Elems(report') : \E g \in collected' : g.id = f.id BY <1>6
  <2> QED BY <1>1, <1>5, <2>1, <2>2, <2>3 DEF Report!TypeOK
<1>9. Report!AllThere' BY <1>1 DEF Report!AllThere
<1>10. Report!Standing' BY <1>1, <1>5, <1>6, <1>7 DEF Report!Standing
<1>11. Report!EveryFindingAccountedFor' /\ Report!ReportedOnce'
  BY <1>1 DEF Report!EveryFindingAccountedFor, Report!ReportedOnce, Report!Over
<1> QED BY <1>8, <1>9, <1>10, <1>11 DEF Report!IInv

\* The first finding about an entity stands for every other.
LEMMA ReportDedups ==
    ASSUME Report!ReportAssumption, Report!IInv, Report!Dedup PROVE Report!IInv'
<1>1. /\ stage = "dedup" /\ stage' = "done" /\ pending' = pending /\ denied' = denied
      /\ collected' = collected
  BY DEF Report!Dedup
<1>2. PICK first \in Report!Selections(report, Report!Firsts(report)) :
          report' = [k \in DOMAIN first |-> Report!Merged(report, first[k])]
  BY DEF Report!Dedup, Report!Deduped
<1>3. /\ collected \in SUBSET Report!Finding /\ report \in Seq(Report!Finding)
      /\ \A f \in Report!Elems(report) : f \in collected /\ f.id \notin denied
      /\ \A f \in collected :
            \/ f \in Report!Elems(report)
            \/ f.id \in denied
            \/ f.url # NoUrl /\ \E g \in Report!Elems(report) \ {f} : g.url = f.url
  <2>1. collected \in SUBSET Report!Finding /\ report \in Seq(Report!Finding) BY ReportFacts
  <2> QED BY <1>1, <2>1 DEF Report!IInv, Report!Standing
<1>4. Report!Firsts(report) \in SUBSET DOMAIN report BY DEF Report!Firsts
<1>5. ComesFrom(first, report, Report!Firsts(report)) BY <1>3, <1>4, SelectionPlaces
<1>6a. PICK n \in Nat : \E f \in [1..n -> Report!Firsts(report)] :
          /\ DOMAIN first = 1..n
          /\ \A k \in 1..n : first[k] = report[f[k]]
          /\ \A j, k \in 1..n : f[j] = f[k] => j = k
          /\ \A i \in Report!Firsts(report) : \E k \in 1..n : f[k] = i
  BY <1>5 DEF ComesFrom
<1>6. PICK from \in [1..n -> Report!Firsts(report)] :
          /\ DOMAIN first = 1..n
          /\ \A k \in 1..n : first[k] = report[from[k]]
          /\ \A j, k \in 1..n : from[j] = from[k] => j = k
          /\ \A i \in Report!Firsts(report) : \E k \in 1..n : from[k] = i
  BY <1>6a
<1>7. DOMAIN report = 1..Len(report) /\ Len(report) \in Nat BY <1>3
<1>8. ASSUME NEW i \in DOMAIN report
      PROVE  /\ report[i] \in collected /\ report[i].id \notin denied
             /\ Report!Merged(report, report[i]) \in Report!Finding
             /\ Report!Merged(report, report[i]).id = report[i].id
             /\ Report!SameEntity(report[i], Report!Merged(report, report[i]))
             /\ \A j \in DOMAIN report : Report!SameEntity(report[i], report[j]) =>
                   /\ Report!Merged(report, report[i]).severity >= report[j].severity
                   /\ Report!Merged(report, report[i]).confidence >= report[j].confidence
                   /\ report[j].tags \subseteq Report!Merged(report, report[i]).tags
  <2>1. report[i] \in Report!Elems(report) BY DEF Report!Elems
  <2>2. report[i] \in collected /\ report[i].id \notin denied BY <1>3, <2>1
  <2>3. PICK s : s = report OBVIOUS
  <2>4. s \in Seq(Report!Finding) /\ i \in DOMAIN s BY <1>3, <2>3
  <2>5. /\ Report!Merged(s, s[i]) \in Report!Finding
        /\ Report!Merged(s, s[i]).id = s[i].id
        /\ Report!SameEntity(s[i], Report!Merged(s, s[i]))
        /\ \A j \in DOMAIN s : Report!SameEntity(s[i], s[j]) =>
              /\ Report!Merged(s, s[i]).severity >= s[j].severity
              /\ Report!Merged(s, s[i]).confidence >= s[j].confidence
              /\ s[j].tags \subseteq Report!Merged(s, s[i]).tags
    BY <2>4, MergedFacts
  <2> QED BY <2>2, <2>3, <2>5
<1>9. /\ DOMAIN report' = 1..n
      /\ \A k \in 1..n : /\ from[k] \in DOMAIN report
                         /\ report'[k] = Report!Merged(report, report[from[k]])
  BY <1>2, <1>4, <1>6
<1>10. report' \in Seq(Report!Finding)
  <2>1. \A k \in 1..n : report'[k] \in Report!Finding BY <1>8, <1>9
  <2>2. report' = [k \in 1..n |-> report'[k]] BY <1>2, <1>6
  <2> QED BY <2>1, <2>2
<1>11. \A f, g : Report!SameEntity(f, g)' <=> Report!SameEntity(f, g)
  BY DEF Report!SameEntity
<1>12. ASSUME NEW g \in Report!Elems(report) PROVE Report!Represented(g)'
  <2>1. PICK i \in DOMAIN report : g = report[i] BY DEF Report!Elems
  <2>2. PICK all : all = {j \in DOMAIN report : Report!SameEntity(report[j], g)} OBVIOUS
  <2>3. all \in SUBSET Nat /\ all # {}
    <3>1. i \in all BY <2>1, <2>2 DEF Report!SameEntity
    <3> QED BY <1>7, <2>2, <3>1
  <2>4. PICK j \in all : \A k \in all : j <= k BY <2>3, LeastOf
  <2>5. j \in DOMAIN report /\ Report!SameEntity(report[j], g) BY <2>2, <2>4
  <2>6. ASSUME NEW k \in 1..(j - 1) PROVE ~ Report!SameEntity(report[k], report[j])
    <3>1. k \in DOMAIN report /\ ~ (j <= k) BY <1>7, <2>5
    <3>2. k \notin all BY <2>4, <3>1
    <3>3. ~ Report!SameEntity(report[k], g) BY <2>2, <3>1, <3>2
    <3> QED BY <2>5, <3>3 DEF Report!SameEntity
  <2>7. j \in Report!Firsts(report) BY <2>5, <2>6 DEF Report!Firsts
  <2>8. PICK k \in 1..n : from[k] = j BY <1>6, <2>7
  <2>9. PICK m : m = Report!Merged(report, report[j]) OBVIOUS
  <2>10. m \in Report!Elems(report') BY <1>9, <2>8, <2>9 DEF Report!Elems
  <2>11. /\ Report!SameEntity(report[j], m) /\ m.severity >= g.severity
         /\ m.confidence >= g.confidence /\ g.tags \subseteq m.tags
    BY <1>8, <2>1, <2>5, <2>9
  <2>12. Report!SameEntity(g, m) BY <2>5, <2>11 DEF Report!SameEntity
  <2> QED BY <1>11, <2>10, <2>11, <2>12 DEF Report!Represented, Report!Elems
<1>13. Report!EveryFindingAccountedFor'
  <2> SUFFICES ASSUME NEW f \in collected
               PROVE  \/ Report!Represented(f)'
                      \/ f.id \in denied
                      \/ f.url # NoUrl /\ \E g \in collected \ {f} : g.url
                          = f.url /\ Report!Represented(g)'
    BY <1>1 DEF Report!EveryFindingAccountedFor
  <2>1. CASE f \in Report!Elems(report) BY <1>12, <2>1
  <2>2. CASE f.url # NoUrl /\ \E g \in Report!Elems(report) \ {f} : g.url = f.url
    <3>1. PICK g \in Report!Elems(report) \ {f} : g.url = f.url BY <2>2
    <3>2. g \in collected \ {f} /\ Report!Represented(g)' BY <1>3, <1>12, <3>1
    <3> QED BY <2>2, <3>1, <3>2
  <2> QED BY <1>3, <2>1, <2>2
<1>14. ASSUME NEW j \in 1..n, NEW k \in 1..n, Report!SameEntity(report'[j], report'[k]) PROVE j = k
  <2>1. /\ from[j] \in DOMAIN report /\ from[k] \in DOMAIN report
        /\ Report!SameEntity(report[from[j]], report'[j])
        /\ Report!SameEntity(report[from[k]], report'[k])
    BY <1>8, <1>9
  <2>2. /\ Report!SameEntity(report[from[j]], report[from[k]])
        /\ Report!SameEntity(report[from[k]], report[from[j]])
    BY <1>14, <2>1 DEF Report!SameEntity
  <2>3. from[j] \in Report!Firsts(report) /\ from[k] \in Report!Firsts(report) BY <1>6
  <2>4. PICK a, b : a = from[j] /\ b = from[k] OBVIOUS
  <2>5. a \in Nat /\ b \in Nat /\ a >= 1 /\ b >= 1 BY <1>7, <2>1, <2>4
  <2>6. ~ (a \in 1..(b - 1)) /\ ~ (b \in 1..(a - 1)) BY <2>2, <2>3, <2>4 DEF Report!Firsts
  <2>7. a = b BY <2>5, <2>6
  <2> QED BY <1>6, <2>4, <2>7
<1>15. \A k \in 1..n : report'[k].id \notin denied /\ \E g \in collected : g.id = report'[k].id
  BY <1>8, <1>9
<1>16. Report!ReportedOnce'
  BY <1>1, <1>9, <1>11, <1>14, <1>15 DEF Report!ReportedOnce
<1>17. Report!TypeOK'
  <2>1. Report!TypeOK BY DEF Report!IInv
  <2>2. \A f \in Report!Elems(report)' : \E g \in collected : g.id = f.id
    BY <1>9, <1>15 DEF Report!Elems
  <2> QED BY <1>1, <1>10, <2>1, <2>2 DEF Report!TypeOK, Report!Over
<1>18. Report!AllThere' /\ Report!Standing' BY <1>1 DEF Report!AllThere, Report!Standing
<1> QED BY <1>13, <1>16, <1>17, <1>18 DEF Report!IInv

\* A scan that is broken off reports what there is.
LEMMA ReportRaises ==
    ASSUME Report!ReportAssumption, Report!IInv, Report!PhaseRaises PROVE Report!IInv'
<1>1. /\ stage \in {"tools", "profiles"} /\ stage' = "raised" /\ report' = report
      /\ pending' = pending /\ denied' = denied /\ collected' = collected
  BY DEF Report!PhaseRaises
<1>2. collected = Report!Elems(report) /\ collected \in SUBSET Report!Finding BY <1>1, ReportFacts
<1>3. Report!TypeOK' BY <1>1 DEF Report!IInv, Report!TypeOK, Report!Over
<1>4. Report!AllThere' /\ Report!Standing' /\ Report!ReportedOnce'
  BY <1>1, <1>2 DEF Report!AllThere, Report!Standing, Report!ReportedOnce
<1>5. \A f \in collected : Report!Represented(f)'
  <2> TAKE f \in collected
  <2>1. f \in Report!Finding /\ f \in Report!Elems(report)' BY <1>1, <1>2 DEF Report!Elems
  <2> QED BY <2>1, ThereIsReported
<1>6. Report!EveryFindingAccountedFor' BY <1>1, <1>5 DEF Report!EveryFindingAccountedFor
<1> QED BY <1>3, <1>4, <1>6 DEF Report!IInv

LEMMA ReportStays == Report!IInv /\ UNCHANGED reportVars => Report!IInv'
<1> SUFFICES ASSUME Report!IInv, UNCHANGED reportVars PROVE Report!IInv'
  OBVIOUS
<1>1. /\ stage' = stage /\ report' = report /\ pending' = pending /\ denied' = denied
      /\ collected' = collected
  BY DEF reportVars
<1> QED BY <1>1 DEF Report!IInv, Report!TypeOK, Report!AllThere, Report!Standing,
     Report!EveryFindingAccountedFor, Report!ReportedOnce, Report!Represented

LEMMA ReportInvariance ==
    ASSUME Report!ReportAssumption, Report!IInv, [AllNext]_allVars PROVE Report!IInv'
<1>1. CASE Report!Next
  <2>1. ASSUME NEW id \in pending, Report!Verify(id) PROVE Report!IInv' BY <2>1, ReportVerifies
  <2> QED BY <1>1, <2>1, ReportTools, ReportProfiles, ReportFilters, ReportEnriches, ReportDedups,
          ReportRaises DEF Report!Next
<1>2. CASE UNCHANGED reportVars BY <1>2, ReportStays
<1>3. Report!Next \/ UNCHANGED reportVars BY DEF AllNext, OnlyLoop, OnlyPairs, OnlyReport, allVars
<1> QED BY <1>1, <1>2, <1>3

\* However many findings there are, in whatever order, and whichever of them are denied:
\* none is lost between the loop and the report, and none is told twice.
THEOREM FindingsAreSettled ==
    ASSUME Report!ReportAssumption
    PROVE  AllSpec => []FindingsSettled
<1>1. AllInit => Report!IInv BY ReportStarts DEF AllInit
<1>2. Report!IInv /\ [AllNext]_allVars => (Report!IInv)' BY ReportInvariance
<1>3. Report!IInv => FindingsSettled BY DEF Report!IInv, FindingsSettled
<1> QED BY <1>1, <1>2, <1>3, PTL DEF AllSpec

=============================================================================
