------------------------------ MODULE DeepScan ------------------------------
(***************************************************************************)
(* The recursive scan of src/modules/deep_scan/engine.py: a target is      *)
(* handed to every module that takes its type, what the modules find is    *)
(* read for further identifiers, and these are the targets of the next     *)
(* iteration, until nothing new turns up or a bound is reached; then the   *)
(* external tools are given the user names and domains there are.          *)
(*                                                                         *)
(* A value stands for the lower-cased form the engine compares by.  The    *)
(* pairs of an iteration run concurrently and end in any order; what one   *)
(* of them goes through until it ends (permits, retries, time-outs) is the *)
(* subject of ModuleScan, here it ends in one step and has found anything. *)
(***************************************************************************)
EXTENDS Integers, FiniteSets

CONSTANTS Values,          \* identifier values
          Types,           \* IdentifierType
          Modules,         \* the active modules
          Accepts,         \* _MODULE_INPUTS: per module, the types it takes
          Detects,         \* _detect_identifier: per value, the type it looks like
          Identifiers,     \* the identifiers that can ever be found
          Target,          \* the value the scan is about
          Pivots,          \* the handles derived from it when it is a name
          Slug,            \* at most one more, primary_username_for_name
          Addresses,       \* the values that no handle can be read from
          ToolLimit,       \* per type, how many values the external tools are given
          MaxIterations, MaxIdentifiers, MaxTargets   \* the engine's bounds

Identifier == [value : Values, type : Types]

Self == [value |-> Target, type |-> Detects[Target]]

\* Every scan profile allows more targets per iteration than it derives pivots.
ASSUME ScanAssumption ==
    /\ IsFiniteSet(Values) /\ IsFiniteSet(Modules) /\ IsFiniteSet(Identifiers)
    /\ Target \in Values
    /\ Accepts \in [Modules -> SUBSET Types]
    /\ Detects \in [Values -> Types]
    /\ Identifiers \subseteq Identifier
    /\ Pivots \subseteq Identifiers
    /\ Slug \subseteq Identifiers /\ Cardinality(Slug) <= 1
    /\ Addresses \subseteq Values
    /\ ToolLimit \in [Types -> Nat]
    /\ MaxIterations \in Nat /\ MaxIdentifiers \in Nat \ {0} /\ MaxTargets \in Nat
    /\ Cardinality(Pivots) < MaxTargets

VARIABLES phase,      \* "starting", "running", and how the loop ended
          idents,     \* result.identifiers
          weak,       \* those of them with a confidence below 0.3
          findings,   \* the identifiers that result.findings mention
          scanned,    \* _scanned_pairs
          seen,       \* seen_targets
          batch,      \* the targets of the current iteration
          tasks,      \* the pairs of the current iteration still running
          iteration,  \* its number, 0 in phase 1
          launches,   \* per pair, the iterations that ran it (not in the code)
          tooled      \* the identifiers the external tools were given

loopVars == <<idents, weak, findings, scanned, seen, batch, tasks, iteration, launches>>
vars     == <<phase, loopVars, tooled>>

Pairs == Modules \X Values

Over == {"exhausted", "bound", "raised"}

-----------------------------------------------------------------------------
\* Faulty variant: one identifier too many.
AdditionsOneMore(known, found) ==
    {more \in SUBSET (found \ known) :
        LET size == Cardinality(known) + Cardinality(more) IN
        \/ more = {} /\ Cardinality(known) > MaxIdentifiers
        \/ more = found \ known /\ size <= MaxIdentifiers + 1
        \/ size = MaxIdentifiers + 1}

\* What is added to known when found is gone through, in whatever order it comes:
\* everything, or as much as max_identifiers has room for.
Additions(known, found) ==
    {more \in SUBSET (found \ known) :
        LET size == Cardinality(known) + Cardinality(more) IN
        \/ more = {} /\ Cardinality(known) >= MaxIdentifiers
        \/ more = found \ known /\ size <= MaxIdentifiers
        \/ size = MaxIdentifiers}

\* Faulty variant: the confidence is not looked at.
NewTargetsDoubtedToo(known, done) == {i.value : i \in known} \ (done \cup Addresses)

\* _get_new_targets
NewTargets(known, done) == {i.value : i \in known \ weak} \ (done \cup Addresses)

\* _cap_targets; which ones it prefers is a matter of their spelling.
Capped(targets) ==
    IF Cardinality(targets) <= MaxTargets THEN {targets}
    ELSE {some \in SUBSET targets : Cardinality(some) = MaxTargets}

\* _filter_targets_for_module
Relevant(m, v, known) ==
    \/ Accepts[m] = {}
    \/ \E i \in known : i.value = v /\ i.type \in Accepts[m]
    \/ Detects[v] \in Accepts[m]

\* What _run_external_tools_phase picks: of each type as many values as the tools take,
\* whichever come first and whatever their confidence.
OfType(some, t) == {i \in some : i.type = t}

Picks(known) ==
    {some \in SUBSET known :
        \A t \in Types :
            \/ OfType(some, t) = OfType(known, t) /\ Cardinality(OfType(some, t)) <= ToolLimit[t]
            \/ Cardinality(OfType(some, t)) = ToolLimit[t]}

-----------------------------------------------------------------------------
Init ==
    /\ phase = "starting"
    /\ idents = {} /\ weak = {} /\ findings = {}
    /\ scanned = {} /\ seen = {} /\ batch = {} /\ tasks = {}
    /\ iteration = 0
    /\ launches = [p \in Pairs |-> {}]
    /\ tooled = {}

\* _run_iteration up to its gather: every relevant pair that still needs scanning.
Launch(targets, known, n) ==
    LET pairs == {p \in Pairs : /\ p[2] \in targets
                                /\ Relevant(p[1], p[2], known)
                                /\ p \notin scanned}
    IN
    /\ phase' = "running"
    /\ batch' = targets
    /\ tasks' = pairs
    /\ iteration' = n
    /\ launches' = [p \in Pairs |-> IF p \in pairs THEN launches[p] \cup {n}
                                    ELSE launches[p]]

\* The target is recorded, then its pivots; those whose handle exists nowhere get
\* a confidence of 0.1 and are left out of phase 1.  The verification may fail as
\* a whole, and then no pivot is doubted.
Start ==
    /\ phase = "starting"
    /\ \E added \in Additions({Self}, Pivots), doubted \in SUBSET Pivots :
          /\ idents' = {Self} \cup added
          /\ weak' = added \cap doubted
          /\ \E some \in Capped({i.value : i \in added \ doubted} \cup {Target}) :
                Launch(some, {Self} \cup added, 0)
    /\ UNCHANGED <<findings, scanned, seen, tooled>>

\* Faulty variant: a pair that failed is left to be proposed again.
PairEndsUnmarked(p) ==
    /\ p \in tasks
    /\ tasks' = tasks \ {p}
    /\ \E found \in SUBSET Identifiers :
          /\ findings' = findings \cup found
          /\ scanned' = IF found = {} THEN scanned ELSE scanned \cup {p}
    /\ UNCHANGED <<phase, idents, weak, seen, batch, iteration, launches, tooled>>

\* A pair ends, whether it succeeded, came back empty or was given up.
PairEnds(p) ==
    /\ p \in tasks
    /\ tasks' = tasks \ {p}
    /\ scanned' = scanned \cup {p}
    /\ \E found \in SUBSET Identifiers : findings' = findings \cup found
    /\ UNCHANGED <<phase, idents, weak, seen, batch, iteration, launches, tooled>>

Stop(reason) ==
    /\ phase' = reason
    /\ UNCHANGED <<batch, tasks, iteration, launches>>

\* The head of the loop: the next iteration, or the end of the scan.
NextTargets(known, done) ==
    IF iteration + 1 >= MaxIterations \/ Cardinality(known) >= MaxIdentifiers
    THEN Stop("bound")
    ELSE IF NewTargets(known, done) = {}
    THEN Stop("exhausted")
    ELSE \E some \in Capped(NewTargets(known, done)) :
             Launch(some, known, iteration + 1)

\* Faulty variant: a cut batch counts as seen in full.
EndIterationSeesAll ==
    /\ phase = "running" /\ tasks = {}
    /\ \E added \in Additions(idents, findings) :
          /\ idents' = idents \cup added
          /\ seen' = seen \cup (IF iteration = 0 THEN {Target}
                                ELSE batch \cup NewTargets(idents, seen))
          /\ NextTargets(idents', seen')
    /\ UNCHANGED <<weak, findings, scanned, tooled>>

\* The gather is over: all findings are read again for identifiers, the targets of
\* the iteration become seen (of phase 1 only the target itself), and on it goes.
EndIteration ==
    /\ phase = "running" /\ tasks = {}
    /\ \E added \in Additions(idents, findings) :
          /\ idents' = idents \cup added
          /\ seen' = seen \cup (IF iteration = 0 THEN {Target} ELSE batch)
          /\ NextTargets(idents', seen')
    /\ UNCHANGED <<weak, findings, scanned, tooled>>

\* An exception outside a pair ends the scan with what there is.
ScanRaises ==
    /\ phase \in {"starting", "running"} /\ tasks = {}
    /\ phase' = "raised"
    /\ UNCHANGED <<loopVars, tooled>>

\* The loop is over: the tools get the user names and domains that were recorded, or
\* without any user name the one made of the target.  What they find is the subject of
\* ScanReport.
RunTools ==
    /\ phase \in {"exhausted", "bound"} /\ tooled = {}
    /\ \E some \in Picks(idents) :
          tooled' = some \cup {i \in Slug : OfType(idents, i.type) = {}}
    /\ UNCHANGED <<phase, loopVars>>

Next == Start \/ (\E p \in tasks : PairEnds(p)) \/ EndIteration \/ ScanRaises \/ RunTools

Spec == Init /\ [][Next]_vars

-----------------------------------------------------------------------------
\* The variables hold values of their types, and neither the report nor the number of
\* iterations outgrows its bound.
TypeOK ==
    /\ phase \in {"starting", "running"} \cup Over
    /\ idents \subseteq Identifiers \cup {Self}
    /\ Cardinality(idents) <= MaxIdentifiers
    /\ weak \subseteq idents
    /\ findings \subseteq Identifiers
    /\ scanned \subseteq Pairs /\ tasks \subseteq Pairs
    /\ seen \subseteq Values /\ batch \subseteq Values
    /\ iteration \in Nat /\ (iteration > 0 => iteration < MaxIterations)
    /\ launches \in [Pairs -> SUBSET Nat]
    /\ tooled \subseteq idents \cup Slug
    /\ tooled # {} => phase \in {"exhausted", "bound"}

\* A module is run on a value in one iteration only: a pair that failed is not
\* proposed again, nor is a pivot, which phase 1 scans without marking it seen.
OneIterationPerPair ==
    \A p \in Pairs : \A m, n \in launches[p] : m = n

\* When the scan stops because nothing new turned up, no identifier it trusts was
\* passed over, but for those whose value is an address: every module that takes its
\* value, under one of the types the value is known by, has run on it, whatever was cut
\* from the batches on the way.
CoveredWhenExhausted ==
    phase = "exhausted" =>
        \A i \in {k \in idents \ weak : k.value \notin Addresses} :
            \E j \in idents : /\ j.value = i.value
                              /\ \A m \in Modules : j.type \in Accepts[m] =>
                                     <<m, i.value>> \in scanned

\* In the loop no module is run on a handle merely derived from the name when its
\* existence was checked and denied, in whatever iteration and however often modules
\* mention it, unless an identifier that is trusted has the same value.  The external
\* tools, after the loop, are another matter: NoDoubtedHandleScanned.
OnlyTrustedScanned ==
    \A p \in scanned \cup tasks : \E i \in idents \ weak : i.value = p[2]

-----------------------------------------------------------------------------
\* What the invariants rest on.

\* Every pair an iteration ran is running or done, and not both.
LaunchedOrScanned ==
    /\ tasks \cap scanned = {}
    /\ \A p \in Pairs : launches[p] # {} => p \in scanned \cup tasks

\* The running iteration leaves out no pair that is relevant to its targets, and
\* phase 1 has the target itself among them.
BatchComplete ==
    phase = "running" =>
        /\ iteration = 0 => Target \in batch
        /\ \A v \in batch :
              /\ \E i \in idents \ weak : i.value = v
              /\ \A m \in Modules : Relevant(m, v, idents) =>
                     <<m, v>> \in scanned \cup tasks

\* Every module that takes v under one of its types has run on it.
Covered(v) ==
    \E j \in idents : /\ j.value = v
                      /\ \A m \in Modules : j.type \in Accepts[m] =>
                             <<m, v>> \in scanned

SeenCovered == \A v \in seen : Covered(v)

ExhaustedMeansSeen == phase = "exhausted" => NewTargets(idents, seen) = {}

NothingBeforeStart ==
    phase = "starting" =>
        /\ idents = {} /\ weak = {} /\ findings = {} /\ scanned = {} /\ seen = {}
        /\ tasks = {} /\ \A p \in Pairs : launches[p] = {}

IInv ==
    /\ TypeOK
    /\ OneIterationPerPair
    /\ OnlyTrustedScanned
    /\ LaunchedOrScanned
    /\ BatchComplete
    /\ SeenCovered
    /\ ExhaustedMeansSeen
    /\ NothingBeforeStart

-----------------------------------------------------------------------------
\* The comment on the check of the handles (engine.py): it "prevents the misattribution
\* bug where a handle derived from a name [...] gets scanned even though it belongs to a
\* different person".  Of a handle that was denied, then, nothing is scanned: not by a
\* module of the loop, and not by an external tool either.
NoDoubtedHandleScanned ==
    \A v \in {p[2] : p \in scanned \cup tasks} \cup {i.value : i \in tooled} :
        v \in {i.value : i \in weak} => v \in {i.value : i \in idents \ weak}

=============================================================================
