------------------------- MODULE IdentityGraphProofs -------------------------
(***************************************************************************)
(* For any values, modules and results: when the search is through, the    *)
(* components are the finest partition of the values that tears no record, *)
(* and the entities are those that are corroborated.                       *)
(*                                                                         *)
(* GraphOfRecords says that two nodes are joined iff a record gone through *)
(* has both; SearchSound that a finished component is closed under edges,  *)
(* and that a closed set of nodes has all or nothing of a component, hence *)
(* that a component cannot be split.  That the code's dictionaries keep a  *)
(* last and a first of each module is LeastNat, the least-number principle *)
(* from the well-foundedness of < on Nat.                                  *)
(***************************************************************************)
EXTENDS IdentityGraph, WellFoundedInduction, FiniteSetTheorems, TLAPS

\* A set of natural numbers has a least element.
LEMMA LeastNat ==
    ASSUME NEW T, T \subseteq Nat, T # {}
    PROVE  \E x \in T : \A y \in T : x <= y
<1> DEFINE R == {ss \in Nat \X Nat : ss[1] < ss[2]}
<1>1. IsWellFoundedOn(R, Nat)
  BY NatLessThanWellFounded DEF OpToRel
<1>2. \A x, y \in Nat : y < x => <<y, x>> \in R
  OBVIOUS
<1> HIDE DEF R
<1>3. PICK x \in T : \A y \in T : ~ (<<y, x>> \in R)
  BY <1>1, WFMin
<1>4. ASSUME NEW y \in T PROVE x <= y
  <2>1. x \in Nat /\ y \in Nat OBVIOUS
  <2>2. ~ (<<y, x>> \in R) BY <1>3
  <2>3. ~ (y < x) BY <2>1, <2>2, <1>2, Zenon
  <2> QED BY <2>1, <2>3
<1> QED BY <1>4

\* The result that is kept of a module is one of its results.
LEMMA KeptIsResult ==
    ASSUME results \in Seq(ScanResult), NEW m \in Scanned
    PROVE  Kept(m) \in Seq(Seq(Values) \ {<< >>})
<1> DEFINE Of == {j \in DOMAIN results : results[j].module = m}
           Last(k) == \A j \in DOMAIN results : results[j].module = m => j <= k
           Back == {Len(results) - j : j \in Of}
<1>1. Of # {} /\ Of \subseteq 1..Len(results) BY DEF Scanned
<1>2. Back \subseteq Nat /\ Back # {} BY <1>1
<1>3. PICK x \in Back : \A y \in Back : x <= y
  <2> HIDE DEF Back
  <2> QED BY <1>2, LeastNat
<1>4. PICK k \in Of : x = Len(results) - k OBVIOUS
<1>5. Last(k)
  <2> SUFFICES ASSUME NEW j \in DOMAIN results, results[j].module = m PROVE j <= k
    OBVIOUS
  <2>1. Len(results) - j \in Back OBVIOUS
  <2>2. j \in Nat /\ k \in Nat /\ Len(results) \in Nat BY <1>1
  <2>3. x <= Len(results) - j
    <3> HIDE DEF Back
    <3> QED BY <2>1, <1>3
  <2>4. x = Len(results) - k BY <1>4
  <2> HIDE DEF Back, Of, Last
  <2> QED BY <2>2, <2>3, <2>4
<1>6. \E i \in DOMAIN results : results[i].module = m /\ Last(i) BY <1>4, <1>5
<1> DEFINE i == CHOOSE j \in DOMAIN results : results[j].module = m /\ Last(j)
<1>7. i \in DOMAIN results
  <2> HIDE DEF Last
  <2> QED BY <1>6, Zenon
<1>9. Kept(m) = results[i].records BY Zenon DEF Kept
<1>8. results[i] \in ScanResult BY <1>7
<1> HIDE DEF i
<1> QED BY <1>7, <1>8, <1>9 DEF ScanResult

\* The module whose records are ingested is one of those that are left.
LEMMA CurrentIsLeft ==
    ASSUME results \in Seq(ScanResult), left \subseteq Scanned, left # {}
    PROVE  Current \in left
<1>1. ASSUME NEW m \in Scanned PROVE FirstOf(m) \in Nat
  <2> DEFINE Of == {j \in DOMAIN results : results[j].module = m}
  <2>1. Of # {} /\ Of \subseteq Nat BY DEF Scanned
  <2>2. PICK k \in Of : \A j \in Of : k <= j
    <3> HIDE DEF Of
    <3> QED BY <2>1, LeastNat
  <2>3. \A j \in 1..(k - 1) : results[j].module # m
    <3> SUFFICES ASSUME NEW j \in 1..(k - 1), results[j].module = m PROVE FALSE
      OBVIOUS
    <3>1. k \in 1..Len(results) OBVIOUS
    <3>2. j \in Of BY <3>1
    <3> QED BY <3>1, <3>2, <2>2
  <2> QED BY <2>2, <2>3 DEF FirstOf
<1> DEFINE Firsts == {FirstOf(m) : m \in left}
<1>2. Firsts \subseteq Nat /\ Firsts # {} BY <1>1
<1>3. PICK x \in Firsts : \A y \in Firsts : x <= y
  <2> HIDE DEF Firsts
  <2> QED BY <1>2, LeastNat
<1>4. \E m \in left : \A other \in left : FirstOf(m) <= FirstOf(other) BY <1>3
<1> QED BY <1>4 DEF Current

\* While the results stay, so does what is kept of them, and the order of the modules.
LEMMA Rebase ==
    ASSUME results' = results
    PROVE  /\ \A m : Kept(m)' = Kept(m)
           /\ Scanned' = Scanned
           /\ left' = left => Current' = Current
<1>1. \A m : Kept(m)' = Kept(m) BY DEF Kept
<1>2. Scanned' = Scanned BY DEF Scanned
<1>3. \A m : FirstOf(m)' = FirstOf(m) BY DEF FirstOf
<1>4. left' = left => Current' = Current BY <1>3 DEF Current
<1> QED BY <1>1, <1>2, <1>4

-----------------------------------------------------------------------------
\* What has been gone through, record by record.
LEMMA IngestedRecords ==
    \A rec : rec \in Ingested <=>
        \E m \in Scanned : \E i \in DOMAIN Kept(m) :
            rec = Kept(m)[i] /\ (m \notin left \/ (m = Current /\ i < next))
BY DEF Ingested

\* The records that are kept, one by one.
LEMMA AllKeptRecords ==
    \A rec : rec \in KeptRecords <=>
        \E m \in Scanned : \E i \in DOMAIN Kept(m) : rec = Kept(m)[i]
BY DEF KeptRecords

\* The edges of a record without a loop join its values pairwise.
LEMMA RecordEdges ==
    ASSUME NEW rec \in Seq(Values) \ {<< >>}
    PROVE  /\ \A e \in EdgesOf(rec) : \E v, w \in ValuesOf(rec) : v # w /\ e = {v, w}
           /\ Loops(rec) = {} => \A v, w \in ValuesOf(rec) : v # w => {v, w} \in EdgesOf(rec)
           /\ ValuesOf(rec) \subseteq Values /\ ValuesOf(rec) # {}
<1>1. ASSUME NEW e \in EdgesOf(rec) PROVE \E v, w \in ValuesOf(rec) : v # w /\ e = {v, w}
  <2>1. PICK pq \in BeforeLoop(rec) : e = {rec[pq[1]], rec[pq[2]]} BY DEF EdgesOf
  <2>2. pq \in Joined(rec) /\ pq \notin Loops(rec) BY DEF BeforeLoop, Loops, Joined
  <2>3. pq[1] \in DOMAIN rec /\ pq[2] \in DOMAIN rec /\ rec[pq[1]] # rec[pq[2]]
    BY <2>2 DEF Joined, Loops
  <2> QED BY <2>1, <2>3 DEF ValuesOf
<1>2. ASSUME Loops(rec) = {}, NEW v \in ValuesOf(rec), NEW w \in ValuesOf(rec), v # w
      PROVE  {v, w} \in EdgesOf(rec)
  <2>1. BeforeLoop(rec) = Joined(rec) BY <1>2 DEF BeforeLoop
  <2>2. PICK p, q \in DOMAIN rec : v = rec[p] /\ w = rec[q] BY DEF ValuesOf
  <2>3. p \in Nat /\ q \in Nat /\ p # q BY <1>2, <2>2
  <2>4. CASE p < q
    <3>1. <<p, q>> \in Joined(rec) BY <2>4 DEF Joined
    <3>2. {rec[<<p, q>>[1]], rec[<<p, q>>[2]]} \in EdgesOf(rec) BY <3>1, <2>1 DEF EdgesOf
    <3> QED BY <3>2, <2>2
  <2>5. CASE q < p
    <3>1. <<q, p>> \in Joined(rec) BY <2>5 DEF Joined
    <3>2. {rec[<<q, p>>[1]], rec[<<q, p>>[2]]} \in EdgesOf(rec) BY <3>1, <2>1 DEF EdgesOf
    <3>3. {v, w} = {w, v} OBVIOUS
    <3> QED BY <3>2, <3>3, <2>2
  <2> QED BY <2>3, <2>4, <2>5
<1>3. ValuesOf(rec) \subseteq Values /\ ValuesOf(rec) # {}
  <2>1. 1 \in DOMAIN rec OBVIOUS
  <2> QED BY <2>1 DEF ValuesOf
<1> QED BY <1>1, <1>2, <1>3

\* The invariant holds at the beginning.
LEMMA InitIInv == ASSUME GraphAssumption PROVE Init => IInv
<1> SUFFICES ASSUME Init PROVE IInv
  OBVIOUS
<1>1. results \in Seq(ScanResult) /\ results # << >> BY DEF Init, GraphAssumption
<1>2. Scanned # {}
  <2>1. 1 \in DOMAIN results BY <1>1
  <2> QED BY <2>1 DEF Scanned
<1>3. Nodes = {} /\ edges = {} BY DEF Init, Nodes
<1>4. TypeOK
  <2>1. sources \in [Nodes -> SUBSET Modules] BY <1>3 DEF Init, Nodes
  <2> QED BY <1>3, <2>1 DEF Init, TypeOK
<1>5. GraphOfRecords
  <2>1. \A rec : rec \notin Ingested
    <3>1. \A m \in Scanned : \A i \in DOMAIN Kept(m) : i \in Nat \ {0}
      BY <1>1, KeptIsResult
    <3> QED BY <3>1, IngestedRecords DEF Init
  <2> QED BY <1>3, <2>1 DEF GraphOfRecords
<1>6. SearchSound BY <1>2 DEF Init, SearchSound
<1>7. SourcesOfRecords BY <1>3 DEF Init, SourcesOfRecords
<1> QED BY <1>4, <1>5, <1>6, <1>7 DEF IInv

\* A record joins its values pairwise and reports them for the current module.
LEMMA AddRecordStep ==
    ASSUME GraphAssumption, IInv, AddRecord
    PROVE  IInv'
<1> DEFINE rec == Kept(Current)[next]
<1>1. results \in Seq(ScanResult) BY DEF IInv, TypeOK, GraphAssumption
<1>2. Current \in left /\ Current \in Scanned
  BY <1>1, CurrentIsLeft DEF AddRecord, IInv, TypeOK
<1>3. rec \in Seq(Values) \ {<< >>} /\ rec \in KeptRecords
  <2>1. Kept(Current) \in Seq(Seq(Values) \ {<< >>}) BY <1>1, <1>2, KeptIsResult
  <2>2. next \in DOMAIN Kept(Current) BY DEF AddRecord
  <2> QED BY <1>2, <2>1, <2>2, AllKeptRecords
<1>4. /\ results' = results /\ left' = left /\ next' = next + 1
      /\ stage = "ingest" /\ stage' \in {"ingest", "raised"} /\ next \in Nat \ {0}
      /\ stage' = "ingest" => Loops(rec) = {}
      /\ edges' = edges \cup EdgesOf(rec)
  BY DEF AddRecord, IInv, TypeOK
<1>5. /\ Nodes' = Nodes \cup ValuesOf(rec)
      /\ sources' = [v \in Nodes \cup ValuesOf(rec) |->
                        (IF v \in Nodes THEN sources[v] ELSE {})
                        \cup (IF v \in ValuesOf(rec) THEN {Current} ELSE {})]
  BY DEF AddRecord, Nodes
<1>6. (\A m : Kept(m)' = Kept(m)) /\ Scanned' = Scanned /\ Current' = Current
  BY <1>4, Rebase
<1> HIDE DEF rec
<1>7. TypeOK'
  <2>1. Nodes' \subseteq Values BY <1>3, <1>5, RecordEdges DEF IInv, TypeOK
  <2>2. sources' \in [Nodes' -> SUBSET Modules]
    <3>1. Scanned \subseteq Modules
      <4>1. \A k \in DOMAIN results : results[k] \in ScanResult BY <1>1
      <4>2. \A r \in ScanResult : r.module \in Modules BY DEF ScanResult
      <4> QED BY <4>1, <4>2 DEF Scanned
    <3>2. \A v \in Nodes : sources[v] \subseteq Modules BY DEF IInv, TypeOK
    <3> QED BY <1>2, <1>5, <3>1, <3>2
  <2>3. \A e \in edges' : \E v, w \in Nodes' : v # w /\ e = {v, w}
    <3>1. ASSUME NEW e \in edges PROVE \E v, w \in Nodes' : v # w /\ e = {v, w}
      BY <1>5 DEF IInv, TypeOK
    <3>2. ASSUME NEW e \in EdgesOf(rec) PROVE \E v, w \in Nodes' : v # w /\ e = {v, w}
      BY <1>3, <1>5, RecordEdges
    <3> QED BY <1>4, <3>1, <3>2
  <2>4. UNCHANGED <<searchVars, entities>> BY DEF AddRecord
  <2> QED BY <1>4, <1>5, <1>6, <2>1, <2>2, <2>3, <2>4 DEF IInv, TypeOK, searchVars
<1>8. GraphOfRecords'
  <2> SUFFICES ASSUME stage' = "ingest" PROVE GraphOfRecords'
    BY <1>4 DEF GraphOfRecords
  <2>1. \A r : r \in Ingested' <=> r \in Ingested \/ r = rec
    <3>1. \A r : r \in Ingested' <=>
              \E m \in Scanned : \E i \in DOMAIN Kept(m) :
                  r = Kept(m)[i] /\ (m \notin left \/ (m = Current /\ i < next + 1))
      BY <1>4, <1>6 DEF Ingested
    <3>2. \A i \in DOMAIN Kept(Current) : i < next + 1 <=> i < next \/ i = next
      <4>1. DOMAIN Kept(Current) \subseteq Nat BY <1>1, <1>2, KeptIsResult
      <4> QED BY <1>4, <4>1
    <3>3. next \in DOMAIN Kept(Current) BY DEF AddRecord
    <3> QED BY <1>2, <3>1, <3>2, <3>3, IngestedRecords DEF rec
  <2>2. /\ Nodes = UNION {ValuesOf(r) : r \in Ingested}
        /\ \A v, w \in Nodes : v # w =>
               ({v, w} \in edges <=> \E r \in Ingested : {v, w} \subseteq ValuesOf(r))
    BY <1>4 DEF IInv, GraphOfRecords
  <2>3. Nodes' = UNION {ValuesOf(r) : r \in Ingested'}
    BY <1>5, <2>1, <2>2
  <2>4. ASSUME NEW v \in Nodes', NEW w \in Nodes', v # w
        PROVE  {v, w} \in edges' <=> \E r \in Ingested' : {v, w} \subseteq ValuesOf(r)
    <3>1. {v, w} \in EdgesOf(rec) <=> v \in ValuesOf(rec) /\ w \in ValuesOf(rec)
      <4>1. ASSUME {v, w} \in EdgesOf(rec) PROVE v \in ValuesOf(rec) /\ w \in ValuesOf(rec)
        <5>1. PICK x, y \in ValuesOf(rec) : {v, w} = {x, y} BY <1>3, <4>1, RecordEdges
        <5> QED BY <5>1
      <4>2. Loops(rec) = {} BY <1>4
      <4> QED BY <1>3, <2>4, <4>1, <4>2, RecordEdges
    <3>2. {v, w} \in edges <=> \E r \in Ingested : {v, w} \subseteq ValuesOf(r)
      <4>1. {v, w} \in edges => v \in Nodes /\ w \in Nodes
        <5>1. ASSUME {v, w} \in edges PROVE v \in Nodes /\ w \in Nodes
          <6>1. \A e \in edges : \E x, y \in Nodes : x # y /\ e = {x, y} BY DEF IInv, TypeOK
          <6>2. PICK x, y \in Nodes : {v, w} = {x, y} BY <5>1, <6>1, Zenon
          <6> QED BY <6>2
        <5> QED BY <5>1
      <4>2. (\E r \in Ingested : {v, w} \subseteq ValuesOf(r)) => v \in Nodes /\ w \in Nodes
        BY <2>2
      <4> QED BY <2>2, <2>4, <4>1, <4>2
    <3>3. (\E r \in Ingested' : {v, w} \subseteq ValuesOf(r)) <=>
              \/ \E r \in Ingested : {v, w} \subseteq ValuesOf(r)
              \/ {v, w} \subseteq ValuesOf(rec)
      BY <2>1
    <3> QED BY <1>4, <3>1, <3>2, <3>3
  <2> QED BY <2>3, <2>4 DEF GraphOfRecords
<1>9. SearchSound'
  <2>1. visited = {} /\ frontier = {} /\ components = {} /\ entities = {} /\ component = {}
    BY <1>4 DEF IInv, SearchSound
  <2>2. UNCHANGED <<visited, frontier, component, components, entities>>
    BY DEF AddRecord, searchVars
  <2>3. left # {} BY <1>2
  <2> QED BY <1>4, <2>1, <2>2, <2>3 DEF SearchSound
<1>10. SourcesOfRecords'
  <2> SUFFICES ASSUME stage' = "ingest", NEW v \in Nodes' PROVE sources'[v] = Told(v)'
    BY <1>4 DEF SourcesOfRecords
  <2>1. \A m : m \in Told(v)' <=> m \in Told(v) \/ (m = Current /\ v \in ValuesOf(rec))
    <3>1. \A m : m \in Told(v)' <=>
              m \in Scanned /\ \E i \in DOMAIN Kept(m) :
                  /\ m \notin left \/ (m = Current /\ i < next + 1)
                  /\ v \in ValuesOf(Kept(m)[i])
      BY <1>4, <1>6 DEF Told
    <3>2. \A i \in DOMAIN Kept(Current) : i < next + 1 <=> i < next \/ i = next
      <4>1. DOMAIN Kept(Current) \subseteq Nat BY <1>1, <1>2, KeptIsResult
      <4> QED BY <1>4, <4>1
    <3>3. next \in DOMAIN Kept(Current) BY DEF AddRecord
    <3> QED BY <1>2, <3>1, <3>2, <3>3 DEF Told, rec
  <2>2. v \in Nodes => sources[v] = Told(v) BY <1>4 DEF IInv, SourcesOfRecords
  <2>3. v \notin Nodes => Told(v) = {}
    <3> SUFFICES ASSUME NEW m \in Told(v) PROVE v \in Nodes
      OBVIOUS
    <3>1. PICK i \in DOMAIN Kept(m) : /\ m \notin left \/ (m = Current /\ i < next)
                                      /\ v \in ValuesOf(Kept(m)[i])
      BY DEF Told
    <3>2. m \in Scanned BY DEF Told
    <3>3. Kept(m)[i] \in Ingested BY <3>1, <3>2, IngestedRecords
    <3> QED BY <1>4, <3>1, <3>3 DEF IInv, GraphOfRecords
  <2>4. sources'[v] = (IF v \in Nodes THEN sources[v] ELSE {})
                      \cup (IF v \in ValuesOf(rec) THEN {Current} ELSE {})
    BY <1>5
  <2> QED BY <2>1, <2>2, <2>3, <2>4
<1> QED BY <1>7, <1>8, <1>9, <1>10 DEF IInv

\* A module is gone through when no record of it is left.
LEMMA NextModuleStep ==
    ASSUME GraphAssumption, IInv, NextModule
    PROVE  IInv'
<1>1. results \in Seq(ScanResult) BY DEF IInv, TypeOK, GraphAssumption
<1>2. Current \in left /\ Current \in Scanned
  BY <1>1, CurrentIsLeft DEF NextModule, IInv, TypeOK
<1>3. /\ results' = results /\ left' = left \ {Current} /\ next' = 1
      /\ stage = "ingest" /\ stage' = (IF left' = {} THEN "correlate" ELSE "ingest")
      /\ sources' = sources /\ edges' = edges /\ next \in Nat \ {0}
      /\ UNCHANGED <<visited, frontier, component, components, entities>>
  BY DEF NextModule, graphVars, searchVars, IInv, TypeOK
<1>4. (\A m : Kept(m)' = Kept(m)) /\ Scanned' = Scanned
  BY <1>3, Rebase
<1>5. Nodes' = Nodes BY <1>3 DEF Nodes
<1>6. TypeOK' BY <1>3, <1>4, <1>5 DEF IInv, TypeOK
<1>7. GraphOfRecords'
  <2>1. Ingested' = Ingested
    <3>1. \A m \in Scanned : \A i \in DOMAIN Kept(m) : i \in Nat \ {0}
      BY <1>1, KeptIsResult
    <3>2. \A i \in DOMAIN Kept(Current) : i < next
      <4>1. PICK n \in Nat : DOMAIN Kept(Current) = 1..n BY <1>1, <1>2, KeptIsResult
      <4>2. next \notin DOMAIN Kept(Current) BY DEF NextModule
      <4> QED BY <1>3, <4>1, <4>2
    <3>3. \A r : r \in Ingested' <=>
              \E m \in Scanned : \E i \in DOMAIN Kept(m) :
                  r = Kept(m)[i] /\ (m \notin left' \/ (m = Current' /\ i < 1))
      BY <1>3, <1>4 DEF Ingested
    <3>4. \A r : r \in Ingested' <=> r \in Ingested
      BY <1>2, <1>3, <3>1, <3>2, <3>3, IngestedRecords
    <3> QED BY <3>4
  <2> QED BY <1>3, <1>5, <2>1 DEF IInv, GraphOfRecords
<1>8. SearchSound' BY <1>3, <1>5 DEF IInv, SearchSound
<1>9. SourcesOfRecords'
  <2> SUFFICES ASSUME NEW v \in Nodes PROVE Told(v)' = Told(v)
    BY <1>3, <1>5 DEF IInv, SourcesOfRecords
  <2>1. \A m \in Scanned : \A i \in DOMAIN Kept(m) : i \in Nat \ {0}
    BY <1>1, KeptIsResult
  <2>2. \A i \in DOMAIN Kept(Current) : i < next
    <3>1. PICK n \in Nat : DOMAIN Kept(Current) = 1..n BY <1>1, <1>2, KeptIsResult
    <3>2. next \notin DOMAIN Kept(Current) BY DEF NextModule
    <3> QED BY <1>3, <3>1, <3>2
  <2>3. \A m : m \in Told(v)' <=>
            m \in Scanned /\ \E i \in DOMAIN Kept(m) :
                /\ m \notin left' \/ (m = Current' /\ i < 1)
                /\ v \in ValuesOf(Kept(m)[i])
    BY <1>3, <1>4 DEF Told
  <2>4. \A m : m \in Told(v)' <=> m \in Told(v)
    BY <1>2, <1>3, <2>1, <2>2, <2>3 DEF Told
  <2> QED BY <2>4
<1> QED BY <1>6, <1>7, <1>8, <1>9 DEF IInv

\* Steps of the search leave the graph as it is.
LEMMA SameGraph ==
    ASSUME UNCHANGED <<results, left, next, graphVars>>
    PROVE  /\ Nodes' = Nodes /\ Scanned' = Scanned /\ Ingested' = Ingested
           /\ \A v : Neighbours(v)' = Neighbours(v)
           /\ \A nodes : Closed(nodes)' <=> Closed(nodes)
           /\ \A v : Told(v)' = Told(v)
<1>1. Nodes' = Nodes BY DEF Nodes, graphVars
<1>2. \A v : Neighbours(v)' = Neighbours(v) BY <1>1 DEF Neighbours, graphVars
<1>3. \A nodes : Closed(nodes)' <=> Closed(nodes) BY <1>2 DEF Closed
<1>4. (\A m : Kept(m)' = Kept(m)) /\ Scanned' = Scanned /\ Current' = Current
  BY Rebase
<1>5. \A r : r \in Ingested' <=>
          \E m \in Scanned : \E i \in DOMAIN Kept(m) :
              r = Kept(m)[i] /\ (m \notin left \/ (m = Current /\ i < next))
  BY <1>4 DEF Ingested
<1>6. \A r : r \in Ingested' <=> r \in Ingested BY <1>5, IngestedRecords
<1>7. Ingested' = Ingested BY <1>6
<1>8. ASSUME NEW v PROVE Told(v)' = Told(v)
  <2>1. \A m : m \in Told(v)' <=> m \in Told(v) BY <1>4 DEF Told
  <2>2. \A m \in Told(v)' \cup Told(v) : m \in Scanned BY <1>4 DEF Told
  <2> QED BY <2>1
<1> QED BY <1>1, <1>2, <1>3, <1>4, <1>7, <1>8

\* Whoever is a neighbour has one.
LEMMA Mutual ==
    ASSUME NEW v \in Nodes, NEW w \in Neighbours(v)
    PROVE  v \in Neighbours(w) /\ w \in Nodes
<1>1. {v, w} = {w, v} OBVIOUS
<1> QED BY <1>1 DEF Neighbours

\* The frontier is empty, so the component is closed, and its neighbours are in it.
LEMMA SeedStep ==
    ASSUME IInv, NEW v \in Nodes, Seed(v)
    PROVE  IInv'
<1>1. UNCHANGED <<results, left, next, graphVars>> BY DEF Seed
<1>2. /\ Nodes' = Nodes /\ Scanned' = Scanned /\ Ingested' = Ingested
      /\ \A w : Neighbours(w)' = Neighbours(w)
      /\ \A nodes : Closed(nodes)' <=> Closed(nodes)
  BY <1>1, SameGraph
<1>3. /\ stage = "correlate" /\ frontier = {} /\ v \notin visited
      /\ frontier' = {v} /\ component' = {} /\ stage' = stage
      /\ components' = components \cup ({component} \ {{}})
      /\ visited' = visited /\ entities' = entities
  BY DEF Seed
<1>4. TypeOK'
  <2>1. component \in SUBSET visited BY DEF IInv, TypeOK
  <2>2. components' \subseteq SUBSET visited BY <1>3, <2>1 DEF IInv, TypeOK
  <2>3. entities \subseteq components' BY <1>3 DEF IInv, TypeOK
  <2> QED BY <1>1, <1>2, <1>3, <2>2, <2>3 DEF IInv, TypeOK, graphVars
<1>5. GraphOfRecords' BY <1>1, <1>2, <1>3 DEF IInv, GraphOfRecords, graphVars
<1>6. SearchSound'
  <2> USE DEF IInv, SearchSound
  <2>1. visited' = component' \cup UNION components' BY <1>3
  <2>2. frontier' \cap visited' = {} BY <1>3
  <2>3. \A c \in components' : c # {} /\ c \cap component' = {} /\ Closed(c)'
    <3>1. Closed(component) BY <1>3 DEF Closed
    <3> QED BY <1>2, <1>3, <3>1
  <2>4. \A c, d \in components' : c = d \/ c \cap d = {} BY <1>3
  <2>5. \A w \in component' : Neighbours(w)' \subseteq component' \cup frontier' BY <1>3
  <2>6. ASSUME NEW nodes \in SUBSET Nodes, Closed(nodes)
        PROVE  /\ nodes \cap (component' \cup frontier') # {} =>
                      component' \cup frontier' \subseteq nodes
               /\ \A c \in components' : nodes \cap c # {} => c \subseteq nodes
    <3>1. component \cup frontier = component BY <1>3
    <3>2. nodes \cap component # {} => component \subseteq nodes BY <2>6, <3>1
    <3> QED BY <1>3, <2>6, <3>2
  <2>7. left = {} BY <1>3
  <2> QED BY <1>1, <1>2, <1>3, <2>1, <2>2, <2>3, <2>4, <2>5, <2>6, <2>7
<1>7. SourcesOfRecords' BY <1>1, <1>2, <1>3, SameGraph DEF IInv, SourcesOfRecords, graphVars
<1> QED BY <1>4, <1>5, <1>6, <1>7 DEF IInv

\* The neighbours of a visited node are in no finished component, as those are closed.
LEMMA VisitStep ==
    ASSUME IInv, NEW v \in Nodes, Visit(v)
    PROVE  IInv'
<1>1. UNCHANGED <<results, left, next, graphVars>> BY DEF Visit
<1>2. /\ Nodes' = Nodes /\ Scanned' = Scanned /\ Ingested' = Ingested
      /\ \A w : Neighbours(w)' = Neighbours(w)
      /\ \A nodes : Closed(nodes)' <=> Closed(nodes)
  BY <1>1, SameGraph
<1>3. /\ stage = "correlate" /\ v \in frontier /\ stage' = stage
      /\ visited' = visited \cup {v}
      /\ component' = component \cup {v}
      /\ frontier' = (frontier \ {v}) \cup (Neighbours(v) \ visited')
      /\ components' = components /\ entities' = entities
  BY DEF Visit
<1>4. Neighbours(v) \subseteq Nodes BY DEF Neighbours
<1>5. TypeOK'
  <2>1. components \subseteq SUBSET visited' BY <1>3 DEF IInv, TypeOK
  <2>2. frontier' \subseteq Nodes /\ component' \subseteq visited' /\ visited' \subseteq Nodes
    BY <1>3, <1>4 DEF IInv, TypeOK
  <2> QED BY <1>1, <1>2, <1>3, <2>1, <2>2 DEF IInv, TypeOK, graphVars
<1>6. GraphOfRecords' BY <1>1, <1>2, <1>3 DEF IInv, GraphOfRecords, graphVars
<1>7. SearchSound'
  <2> USE DEF IInv, SearchSound
  <2>0. v \notin visited BY <1>3
  <2>1. visited' = component' \cup UNION components' BY <1>3
  <2>2. frontier' \cap visited' = {} BY <1>3
  <2>3. \A c \in components' : c # {} /\ c \cap component' = {} /\ Closed(c)'
    BY <1>2, <1>3, <2>0
  <2>4. \A c, d \in components' : c = d \/ c \cap d = {} BY <1>3
  <2>5. \A w \in component' : Neighbours(w)' \subseteq component' \cup frontier'
    <3>1. ASSUME NEW w \in Neighbours(v), NEW c \in components, w \in c PROVE FALSE
      <4>1. v \in Neighbours(w) BY Mutual
      <4>2. Neighbours(w) \subseteq c BY <3>1 DEF Closed
      <4> QED BY <2>0, <4>1, <4>2
    <3>2. Neighbours(v) \subseteq component' \cup frontier' BY <1>3, <2>1, <3>1
    <3>3. ASSUME NEW w \in component PROVE Neighbours(w) \subseteq component' \cup frontier'
      BY <1>3
    <3> QED BY <1>2, <1>3, <3>2, <3>3
  <2>6. ASSUME NEW nodes \in SUBSET Nodes, Closed(nodes)
        PROVE  /\ nodes \cap (component' \cup frontier') # {} =>
                      component' \cup frontier' \subseteq nodes
               /\ \A c \in components' : nodes \cap c # {} => c \subseteq nodes
    <3>1. nodes \cap (component \cup frontier) # {} => component \cup frontier \subseteq nodes
      BY <2>6
    <3>2. ASSUME NEW w \in Neighbours(v) PROVE v \in nodes <=> w \in nodes
      BY <2>6, Mutual DEF Closed
    <3>3. v \in nodes => Neighbours(v) \subseteq nodes BY <3>2
    <3>4. ASSUME nodes \cap (component' \cup frontier') # {} PROVE v \in nodes
      <4>1. PICK w \in nodes : w \in component' \cup frontier' BY <3>4
      <4>2. w \in component \cup frontier \/ w \in Neighbours(v) BY <1>3, <4>1
      <4> QED BY <1>3, <3>1, <3>2, <4>1, <4>2
    <3> QED BY <1>3, <2>6, <3>1, <3>3, <3>4
  <2>7. left = {} BY <1>3
  <2> QED BY <1>1, <1>2, <1>3, <2>1, <2>2, <2>3, <2>4, <2>5, <2>6, <2>7
<1>8. SourcesOfRecords' BY <1>1, <1>2, <1>3, SameGraph DEF IInv, SourcesOfRecords, graphVars
<1> QED BY <1>5, <1>6, <1>7, <1>8 DEF IInv

\* The last component is closed, and every node is visited.
LEMMA ResolveStep ==
    ASSUME IInv, Resolve
    PROVE  IInv'
<1>1. UNCHANGED <<results, left, next, graphVars>> BY DEF Resolve
<1>2. /\ Nodes' = Nodes /\ Scanned' = Scanned /\ Ingested' = Ingested
      /\ \A w : Neighbours(w)' = Neighbours(w)
      /\ \A nodes : Closed(nodes)' <=> Closed(nodes)
  BY <1>1, SameGraph
<1>3. /\ stage = "correlate" /\ frontier = {} /\ Nodes \subseteq visited
      /\ components' = components \cup ({component} \ {{}})
      /\ component' = {} /\ stage' = "done"
      /\ entities' \subseteq components'
      /\ visited' = visited /\ frontier' = frontier
  BY DEF Resolve
<1>4. TypeOK'
  <2>1. component \in SUBSET visited BY DEF IInv, TypeOK
  <2>2. components' \subseteq SUBSET visited BY <1>3, <2>1 DEF IInv, TypeOK
  <2> QED BY <1>1, <1>2, <1>3, <2>2 DEF IInv, TypeOK, graphVars
<1>5. GraphOfRecords' BY <1>1, <1>2, <1>3 DEF IInv, GraphOfRecords, graphVars
<1>6. SearchSound'
  <2> USE DEF IInv, SearchSound
  <2>1. visited' = component' \cup UNION components' BY <1>3
  <2>2. frontier' \cap visited' = {} BY <1>3
  <2>3. \A c \in components' : c # {} /\ c \cap component' = {} /\ Closed(c)'
    <3>1. Closed(component) BY <1>3 DEF Closed
    <3> QED BY <1>2, <1>3, <3>1
  <2>4. \A c, d \in components' : c = d \/ c \cap d = {} BY <1>3
  <2>5. \A w \in component' : Neighbours(w)' \subseteq component' \cup frontier' BY <1>3
  <2>6. ASSUME NEW nodes \in SUBSET Nodes, Closed(nodes)
        PROVE  /\ nodes \cap (component' \cup frontier') # {} =>
                      component' \cup frontier' \subseteq nodes
               /\ \A c \in components' : nodes \cap c # {} => c \subseteq nodes
    <3>1. component \cup frontier = component BY <1>3
    <3>2. nodes \cap component # {} => component \subseteq nodes BY <2>6, <3>1
    <3> QED BY <1>3, <2>6, <3>2
  <2>7. left = {} /\ visited = Nodes BY <1>3 DEF TypeOK
  <2> QED BY <1>1, <1>2, <1>3, <2>1, <2>2, <2>3, <2>4, <2>5, <2>6, <2>7
<1>7. SourcesOfRecords'
  <2>1. sources' = sources BY <1>1 DEF graphVars
  <2>2. \A c : Supported(c)' <=> Supported(c) BY <2>1 DEF Supported
  <2>3. entities' = {c \in components' : Supported(c)} BY DEF Resolve
  <2>4. entities' = {c \in components' : Supported(c)'} BY <2>2, <2>3
  <2> QED BY <1>1, <1>2, <1>3, <2>1, <2>4, SameGraph DEF IInv, SourcesOfRecords
<1> QED BY <1>4, <1>5, <1>6, <1>7 DEF IInv

\* Every step preserves the invariant.
LEMMA NextIInv == ASSUME GraphAssumption PROVE IInv /\ [Next]_vars => IInv'
<1> SUFFICES ASSUME IInv, [Next]_vars PROVE IInv'
  OBVIOUS
<1>1. CASE AddRecord BY <1>1, AddRecordStep
<1>2. CASE NextModule BY <1>2, NextModuleStep
<1>3. CASE Resolve BY <1>3, ResolveStep
<1>4. ASSUME NEW v \in Nodes, Seed(v) PROVE IInv' BY <1>4, SeedStep
<1>5. ASSUME NEW v \in Nodes, Visit(v) PROVE IInv' BY <1>5, VisitStep
<1>6. CASE UNCHANGED vars
  <2>1. UNCHANGED <<results, left, next, graphVars>> BY <1>6 DEF vars
  <2>2. UNCHANGED <<stage, visited, frontier, component, components, entities>>
    BY <1>6 DEF vars, searchVars
  <2>3. TypeOK' BY <2>1, <2>2, SameGraph DEF IInv, TypeOK, graphVars
  <2>4. GraphOfRecords' BY <2>1, <2>2, SameGraph DEF IInv, GraphOfRecords, graphVars
  <2>5. SearchSound' BY <2>1, <2>2, SameGraph DEF IInv, SearchSound
  <2>6. SourcesOfRecords'
    <3>1. sources' = sources BY <2>1 DEF graphVars
    <3>2. \A c : Supported(c)' <=> Supported(c) BY <3>1 DEF Supported
    <3> QED BY <2>1, <2>2, <3>1, <3>2, SameGraph DEF IInv, SourcesOfRecords
  <2> QED BY <2>3, <2>4, <2>5, <2>6 DEF IInv
<1> QED BY <1>1, <1>2, <1>3, <1>4, <1>5, <1>6 DEF Next

\* The inductive invariant holds, for any values, modules and results.
THEOREM GraphInvariance == ASSUME GraphAssumption PROVE Spec => []IInv
BY InitIInv, NextIInv, PTL DEF Spec

\* The variables are well-typed: edges join two nodes, the search visits nodes.
THEOREM GraphTypeCorrect == ASSUME GraphAssumption PROVE Spec => []TypeOK
<1>1. IInv => TypeOK BY DEF IInv
<1> QED BY <1>1, GraphInvariance, PTL

\* Joined nodes share a record, so a set that tears no record is closed.
LEMMA PartitionOfRecords ==
    ASSUME GraphAssumption, IInv
    PROVE  ComponentsAreConnected
<1> SUFFICES ASSUME stage = "done" PROVE ComponentsAreConnected
  BY DEF ComponentsAreConnected
<1>1. results \in Seq(ScanResult) BY DEF IInv, TypeOK, GraphAssumption
<1>2. /\ left = {} /\ visited = Nodes /\ component = {}
      /\ visited = UNION components
  BY DEF IInv, SearchSound
<1>3. \A rec : rec \in Ingested <=> rec \in KeptRecords
  BY <1>2, IngestedRecords, AllKeptRecords
<1>4. \A rec \in KeptRecords : rec \in Seq(Values) \ {<< >>}
  BY <1>1, KeptIsResult, AllKeptRecords
<1>5. Nodes = UNION {ValuesOf(rec) : rec \in KeptRecords}
  BY <1>3 DEF IInv, GraphOfRecords
<1>6. ASSUME NEW rec \in KeptRecords, NEW v \in ValuesOf(rec), NEW w \in ValuesOf(rec), v # w
      PROVE  w \in Neighbours(v)
  <2>1. v \in Nodes /\ w \in Nodes BY <1>5
  <2>2. {v, w} \in edges BY <1>3, <1>6, <2>1 DEF IInv, GraphOfRecords
  <2> QED BY <1>6, <2>1, <2>2 DEF Neighbours
<1>7. ASSUME NEW rec \in KeptRecords PROVE \E c \in components : ValuesOf(rec) \subseteq c
  <2>1. PICK v \in ValuesOf(rec) : TRUE BY <1>4, RecordEdges
  <2>2. PICK c \in components : v \in c BY <1>2, <1>5
  <2>3. Neighbours(v) \subseteq c BY <2>2 DEF IInv, SearchSound, Closed
  <2> QED BY <1>6, <2>2, <2>3
<1>8. ASSUME NEW c \in components, NEW part \in (SUBSET c) \ {{}, c},
             \A rec \in KeptRecords :
                 ValuesOf(rec) \cap part # {} => ValuesOf(rec) \subseteq part
      PROVE  FALSE
  <2>1. part \subseteq Nodes BY <1>2
  <2>2. ASSUME NEW v \in part, NEW w \in Neighbours(v) PROVE w \in part
    <3>1. v \in Nodes /\ w \in Nodes /\ v # w /\ {v, w} \in edges
      BY <2>1 DEF Neighbours
    <3>2. PICK rec \in KeptRecords : {v, w} \subseteq ValuesOf(rec)
      BY <1>3, <3>1 DEF IInv, GraphOfRecords
    <3> QED BY <1>8, <3>2
  <2>3. Closed(part) BY <2>2 DEF Closed
  <2>4. part \cap c # {} OBVIOUS
  <2>5. c \subseteq part BY <2>1, <2>3, <2>4 DEF IInv, SearchSound
  <2> QED BY <2>5
<1>9. \A c, d \in components : c = d \/ c \cap d = {} BY DEF IInv, SearchSound
<1> QED BY <1>2, <1>5, <1>7, <1>8, <1>9 DEF ComponentsAreConnected

\* Two identities are taken for one exactly when records link them, whatever the order of
\* modules and of the search.
THEOREM IdentitiesAreComponents ==
    ASSUME GraphAssumption PROVE Spec => []ComponentsAreConnected
<1>1. IInv => ComponentsAreConnected BY PartitionOfRecords
<1> QED BY <1>1, GraphInvariance, PTL

\* A component of one value is a closed set of one: its support is the sources of the value.
LEMMA ResolvedIffCorroborated ==
    ASSUME GraphAssumption, IInv
    PROVE  CorroboratedIsResolved
<1> SUFFICES ASSUME stage = "done", NEW v \in Nodes
             PROVE  LET with == {m \in Scanned : \E i \in DOMAIN Kept(m) : v \in ValuesOf(Kept(m)[i])}
                        near == UNION {ValuesOf(rec) : rec \in {r \in KeptRecords : v \in ValuesOf(r)}}
                    IN v \in UNION entities <=> Cardinality(with) > 1 \/ near # {v}
  BY DEF CorroboratedIsResolved
<1> DEFINE with == {m \in Scanned : \E i \in DOMAIN Kept(m) : v \in ValuesOf(Kept(m)[i])}
           near == UNION {ValuesOf(rec) : rec \in {r \in KeptRecords : v \in ValuesOf(r)}}
<1>1. left = {} /\ visited = Nodes /\ component = {} /\ visited = UNION components
  BY DEF IInv, SearchSound
<1>2. \A rec : rec \in Ingested <=> rec \in KeptRecords
  BY <1>1, IngestedRecords, AllKeptRecords
<1>3. sources[v] = with
  <2>1. Told(v) = with BY <1>1 DEF Told
  <2> QED BY <2>1 DEF IInv, SourcesOfRecords
<1>4. PICK c \in components : v \in c BY <1>1
<1>5. \A d \in components : v \in d => d = c BY <1>4 DEF IInv, SearchSound
<1>6. v \in UNION entities <=> Supported(c) BY <1>4, <1>5 DEF IInv, SourcesOfRecords
<1>7. \A w : w \in Neighbours(v) <=> w \in near /\ w # v
  <2>1. ASSUME NEW w \in Neighbours(v) PROVE w \in near /\ w # v
    <3>1. w \in Nodes /\ v # w /\ {v, w} \in edges BY DEF Neighbours
    <3>2. PICK rec \in KeptRecords : {v, w} \subseteq ValuesOf(rec)
      BY <1>2, <3>1 DEF IInv, GraphOfRecords
    <3> QED BY <3>1, <3>2
  <2>2. ASSUME NEW w \in near, w # v PROVE w \in Neighbours(v)
    <3>1. PICK rec \in KeptRecords : {v, w} \subseteq ValuesOf(rec) OBVIOUS
    <3>2. w \in Nodes BY <1>2, <3>1 DEF IInv, GraphOfRecords
    <3>3. {v, w} \in edges BY <1>2, <2>2, <3>1, <3>2 DEF IInv, GraphOfRecords
    <3> QED BY <2>2, <3>2, <3>3 DEF Neighbours
  <2> QED BY <2>1, <2>2
<1>8. v \in near
  <2>1. PICK rec \in KeptRecords : v \in ValuesOf(rec) BY <1>2 DEF IInv, GraphOfRecords
  <2> QED BY <2>1
<1>9. near = {v} => c = {v}
  <2> SUFFICES ASSUME near = {v} PROVE c = {v}
    OBVIOUS
  <2>1. Closed({v}) BY <1>7 DEF Closed
  <2>2. c \subseteq {v} BY <1>4, <2>1 DEF IInv, SearchSound
  <2> QED BY <1>4, <2>2
<1>10. near # {v} => Cardinality(c) > 1
  <2> SUFFICES ASSUME near # {v} PROVE Cardinality(c) > 1
    OBVIOUS
  <2>1. PICK w \in Neighbours(v) : TRUE BY <1>7, <1>8
  <2>2. w \in c /\ w # v BY <1>4, <2>1 DEF IInv, SearchSound, Closed, Neighbours
  <2>3. c \subseteq Values BY <1>1 DEF IInv, TypeOK
  <2>4. IsFiniteSet(c) BY <2>3, FS_Subset DEF GraphAssumption
  <2>5. Cardinality(c) \in Nat /\ Cardinality(c) # 0 /\ Cardinality(c) # 1
    BY <1>4, <2>2, <2>4, FS_CardinalityType, FS_EmptySet, FS_Singleton
  <2> QED BY <2>5
<1>11. c = {v} => (Supported(c) <=> Cardinality(with) > 1)
  <2> SUFFICES ASSUME c = {v} PROVE Supported(c) <=> Cardinality(with) > 1
    OBVIOUS
  <2>1. Cardinality(c) = 1 BY FS_Singleton
  <2>2. (\E u \in c : Cardinality(sources[u]) > 1) <=> Cardinality(sources[v]) > 1
    BY <1>4
  <2>3. ~ (Cardinality(c) > 1) BY <2>1
  <2> HIDE DEF with
  <2> QED BY <1>3, <2>2, <2>3 DEF Supported
<1>12. Supported(c) <=> Cardinality(with) > 1 \/ near # {v}
  BY <1>9, <1>10, <1>11 DEF Supported
<1> QED BY <1>6, <1>12

\* A value is in an entity exactly when two modules gave it or a record gives it with
\* another.
THEOREM EntitiesAreCorroborated ==
    ASSUME GraphAssumption PROVE Spec => []CorroboratedIsResolved
<1>1. IInv => CorroboratedIsResolved BY ResolvedIffCorroborated
<1> QED BY <1>1, GraphInvariance, PTL

=============================================================================
