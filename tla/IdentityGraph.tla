---------------------------- MODULE IdentityGraph ----------------------------
(***************************************************************************)
(* The identity correlation at the end of a scan: _run_zkit_correlation in *)
(* deep_scan/engine.py, which keeps one scan result per module, with       *)
(* CrossModuleCorrelator, ZKITEngine and IdentityGraph of                  *)
(* src/modules/identity_tracking.  The values of a record become nodes     *)
(* joined by edges, and the connected components become entities.          *)
(*                                                                         *)
(* A value stands for its normalized form and for its hash at once: the    *)
(* hash is salted, but the same for whatever attribute the value is of.    *)
(* How often an edge was seen, its weight and the types of nodes only move *)
(* a score above the threshold and are left out.                           *)
(***************************************************************************)
EXTENDS Integers, FiniteSets, Sequences

CONSTANTS Values,     \* attribute values
          Modules,    \* names of the modules that scanned
          Inputs      \* the sequences of scan results a scan may have collected

\* A record is the sequence of the values of its attributes, in the order of
\* ATTRIBUTE_TYPE_MAP; the code drops those without any.
ScanResult == [module : Modules, records : Seq(Seq(Values) \ {<< >>})]

GraphAssumption == Inputs \subseteq Seq(ScanResult) \ {<< >>} /\ IsFiniteSet(Values)

VARIABLES results,     \* result.scan_results, in the order they came in
          stage,       \* "ingest", "correlate", "done", or "raised"
          left,        \* the modules whose result is not ingested yet
          next,        \* the index of the next record of the current one
          sources,     \* per node of the graph, the modules that reported it
          edges,       \* the pairs of nodes that are joined
          visited,     \* the nodes the search has passed
          frontier,    \* those it has still to visit
          component,   \* the component it is in
          components,  \* those it has finished
          entities     \* resolved_entities

graphVars == <<sources, edges>>
searchVars == <<visited, frontier, component, components>>
vars == <<results, stage, left, next, graphVars, searchVars, entities>>

Nodes == DOMAIN sources

ValuesOf(rec) == {rec[p] : p \in DOMAIN rec}

Scanned == {results[k].module : k \in DOMAIN results}

\* module_results = {sr.module: sr ...}: the last result of a module is kept, at the
\* place of its first.
FirstOf(m) == CHOOSE k \in DOMAIN results :
                  /\ results[k].module = m
                  /\ \A j \in 1..(k - 1) : results[j].module # m

Kept(m) == results[CHOOSE k \in DOMAIN results :
                       /\ results[k].module = m
                       /\ \A j \in DOMAIN results : results[j].module = m => j <= k].records

Current == CHOOSE m \in left : \A other \in left : FirstOf(m) <= FirstOf(other)

-----------------------------------------------------------------------------
\* The pairs of attributes of a record, of which the first is the lesser.
Joined(rec) == {pq \in (DOMAIN rec) \X (DOMAIN rec) : pq[1] < pq[2]}

\* Faulty variant: an edge may join a node with itself.
LoopsAllowed(rec) == {}

\* add_edge refuses a loop: two attributes of the record have one value.
Loops(rec) == {pq \in Joined(rec) : rec[pq[1]] = rec[pq[2]]}

\* The pairs that build_graph comes to before the first loop.
BeforeLoop(rec) ==
    {pq \in Joined(rec) :
        \A loop \in Loops(rec) :
            pq[1] < loop[1] \/ (pq[1] = loop[1] /\ pq[2] < loop[2])}

EdgesOf(rec) == {{rec[pq[1]], rec[pq[2]]} : pq \in BeforeLoop(rec)}

Init ==
    /\ results \in Inputs
    /\ stage = "ingest"
    /\ left = Scanned
    /\ next = 1
    /\ sources = [v \in {} |-> {}]
    /\ edges = {}
    /\ visited = {} /\ frontier = {} /\ component = {} /\ components = {}
    /\ entities = {}

\* build_graph on one record: its values are nodes, its pairs are edges.  A loop
\* raises out of the correlation, and the scan goes on without one.
AddRecord ==
    /\ stage = "ingest" /\ left # {}
    /\ next \in DOMAIN Kept(Current)
    /\ LET rec == Kept(Current)[next] IN
       /\ sources' = [v \in Nodes \cup ValuesOf(rec) |->
                         (IF v \in Nodes THEN sources[v] ELSE {})
                         \cup (IF v \in ValuesOf(rec) THEN {Current} ELSE {})]
       /\ edges' = edges \cup EdgesOf(rec)
       /\ stage' = IF Loops(rec) = {} THEN "ingest" ELSE "raised"
    /\ next' = next + 1
    /\ UNCHANGED <<results, left, searchVars, entities>>

\* The next module's records.
NextModule ==
    /\ stage = "ingest" /\ left # {}
    /\ next \notin DOMAIN Kept(Current)
    /\ left' = left \ {Current}
    /\ next' = 1
    /\ stage' = IF left' = {} THEN "correlate" ELSE "ingest"
    /\ UNCHANGED <<results, graphVars, searchVars, entities>>

-----------------------------------------------------------------------------
\* query_neighbors to a depth of one.
Neighbours(v) == {w \in Nodes : w # v /\ {v, w} \in edges}

\* A component is complete; on with a node that is in none.
Seed(v) ==
    /\ stage = "correlate" /\ frontier = {}
    /\ v \in Nodes \ visited
    /\ frontier' = {v}
    /\ component' = {}
    /\ components' = components \cup ({component} \ {{}})
    /\ UNCHANGED <<results, stage, left, next, graphVars, visited, entities>>

\* Faulty variant: the last neighbour alone is followed.
VisitOneNeighbour(v) ==
    /\ stage = "correlate"
    /\ v \in frontier
    /\ visited' = visited \cup {v}
    /\ component' = component \cup {v}
    /\ frontier' = (frontier \ {v}) \cup
                       (IF Neighbours(v) \subseteq visited' THEN {}
                        ELSE {CHOOSE w \in Neighbours(v) : w \notin visited'})
    /\ UNCHANGED <<results, stage, left, next, graphVars, components, entities>>

\* A node is popped.  The list may hold a node twice; the second time it is passed
\* over.
Visit(v) ==
    /\ stage = "correlate"
    /\ v \in frontier
    /\ visited' = visited \cup {v}
    /\ component' = component \cup {v}
    /\ frontier' = (frontier \ {v}) \cup (Neighbours(v) \ visited')
    /\ UNCHANGED <<results, stage, left, next, graphVars, components, entities>>

\* Faulty variant: a component of one node is always dropped.
SupportedPair(c) == Cardinality(c) > 1

\* score_components against min_confidence (0.1): an edge alone scores 0.2; a node
\* without edges scores 0.8 * (0.25 / 4 + 0.2 * sources / 5), which takes two sources.
Supported(c) == Cardinality(c) > 1 \/ \E v \in c : Cardinality(sources[v]) > 1

\* All nodes are visited: the components that score high enough are the entities.
Resolve ==
    /\ stage = "correlate" /\ frontier = {}
    /\ Nodes \subseteq visited
    /\ components' = components \cup ({component} \ {{}})
    /\ component' = {}
    /\ entities' = {c \in components' : Supported(c)}
    /\ stage' = "done"
    /\ UNCHANGED <<results, left, next, graphVars, visited, frontier>>

Next ==
    \/ AddRecord \/ NextModule \/ Resolve
    \/ \E v \in Nodes : Seed(v) \/ Visit(v)

Spec == Init /\ [][Next]_vars

-----------------------------------------------------------------------------
\* The records that are correlated, or will be.
KeptRecords == UNION {{Kept(m)[i] : i \in DOMAIN Kept(m)} : m \in Scanned}

\* The variables hold values of their types, edges join two nodes of the graph, and
\* the search visits nodes of the graph.
TypeOK ==
    /\ results \in Inputs
    /\ stage \in {"ingest", "correlate", "done", "raised"}
    /\ left \subseteq Scanned
    /\ next \in Nat \ {0}
    /\ Nodes \subseteq Values /\ sources \in [Nodes -> SUBSET Modules]
    /\ \A e \in edges : \E v, w \in Nodes : v # w /\ e = {v, w}
    /\ visited \subseteq Nodes /\ frontier \subseteq Nodes /\ component \subseteq visited
    /\ components \subseteq SUBSET visited
    /\ entities \subseteq components

\* The components are the finest partition of the values that keeps every record in
\* one piece: each value is in one of them, no record is torn, and no component can
\* be split without tearing a record.  In whatever order the modules ended and the
\* search went, two identities are taken for one only if records link them.
ComponentsAreConnected ==
    stage = "done" =>
        /\ UNION components = UNION {ValuesOf(rec) : rec \in KeptRecords}
        /\ \A c, d \in components : c = d \/ c \cap d = {}
        /\ \A rec \in KeptRecords : \E c \in components : ValuesOf(rec) \subseteq c
        /\ \A c \in components : \A part \in (SUBSET c) \ {{}, c} :
               \E rec \in KeptRecords : /\ ValuesOf(rec) \cap part # {}
                                        /\ ~ (ValuesOf(rec) \subseteq part)

\* A value on which two modules agree, or that was seen beside another, is part of
\* an entity; nothing else is.
CorroboratedIsResolved ==
    stage = "done" =>
        \A v \in Nodes :
            LET with == {m \in Scanned : \E i \in DOMAIN Kept(m) : v \in ValuesOf(Kept(m)[i])}
                near == UNION {ValuesOf(rec) : rec \in {r \in KeptRecords : v \in ValuesOf(r)}}
            IN v \in UNION entities <=> Cardinality(with) > 1 \/ near # {v}

-----------------------------------------------------------------------------
\* What the invariants rest on.

\* The records already gone through.
Ingested == UNION {{Kept(m)[i] : i \in {j \in DOMAIN Kept(m) :
                                           m \notin left \/ (m = Current /\ j < next)}} :
                       m \in Scanned}

\* The graph is that of the records gone through.
GraphOfRecords ==
    stage # "raised" =>
        /\ Nodes = UNION {ValuesOf(rec) : rec \in Ingested}
        /\ \A v, w \in Nodes : v # w =>
               ({v, w} \in edges <=> \E rec \in Ingested : {v, w} \subseteq ValuesOf(rec))

\* No edge leaves a set of nodes.
Closed(nodes) ==
    \A v \in nodes : Neighbours(v) \subseteq nodes

\* The search: finished components are closed and apart, the current one has its
\* neighbours among itself and the frontier, and whatever closed set has a part of
\* a component has all of it.
SearchSound ==
    /\ visited = component \cup UNION components
    /\ frontier \cap visited = {}
    /\ \A c \in components : c # {} /\ c \cap component = {} /\ Closed(c)
    /\ \A c, d \in components : c = d \/ c \cap d = {}
    /\ \A v \in component : Neighbours(v) \subseteq component \cup frontier
    /\ \A nodes \in SUBSET Nodes : Closed(nodes) =>
          /\ nodes \cap (component \cup frontier) # {} => component \cup frontier \subseteq nodes
          /\ \A c \in components : nodes \cap c # {} => c \subseteq nodes
    /\ stage = "ingest" => visited = {} /\ frontier = {} /\ components = {} /\ entities = {}
    /\ stage \in {"correlate", "done"} => left = {}
    /\ stage = "done" => visited = Nodes /\ frontier = {} /\ component = {}
    /\ stage = "ingest" => left # {}

\* The modules that gave a value in a record gone through.
Told(v) == {m \in Scanned : \E i \in DOMAIN Kept(m) :
                /\ m \notin left \/ (m = Current /\ i < next)
                /\ v \in ValuesOf(Kept(m)[i])}

\* They are what a node lists as its sources, and an entity is a supported component.
SourcesOfRecords ==
    /\ stage # "raised" => \A v \in Nodes : sources[v] = Told(v)
    /\ stage = "done" => entities = {c \in components : Supported(c)}

IInv == TypeOK /\ GraphOfRecords /\ SearchSound /\ SourcesOfRecords

-----------------------------------------------------------------------------
\* The docstring of _run_zkit_correlation: "Run ZKIT identity correlation on all
\* collected scan results".  Every record of every scan result is in an entity's
\* component.
AllScansCorrelated ==
    stage = "done" =>
        \A k \in DOMAIN results : \A i \in DOMAIN results[k].records :
            \E c \in components : ValuesOf(results[k].records[i]) \subseteq c

=============================================================================
