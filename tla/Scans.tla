-------------------------------- MODULE Scans --------------------------------
(* A scan, in three parts that have no state in common: the loop over what is *)
(* found, the pairs of one of its iterations, and what is done to the         *)
(* findings once it is over.  The pairs do for the loop what PairPool says,   *)
(* and the loop hands its findings on; a behaviour is one of one of them, by  *)
(* part.                                                                      *)
EXTENDS DeepScan

CONSTANTS Plain, Sources, Refused, Permits, MaxAttempts,                   \* ModuleScan
          Pool, LoopFindings, ToolFindings, Dossier, MaxProfiles, NoUrl    \* ScanReport

VARIABLES part,
          at, attempt, results, errors, marked, audit, queries, unwritten, \* ModuleScan
          stage, report, pending, denied, collected                        \* ScanReport

Runner == INSTANCE ModuleScan WITH found <- results, scanned <- marked
Report == INSTANCE ScanReport WITH phase <- stage, findings <- report

runnerVars == <<at, attempt, results, errors, marked, audit, queries, unwritten>>
reportVars == <<stage, report, pending, denied, collected>>
allVars    == <<part, vars, runnerVars, reportVars>>

\* The parts that a behaviour is not about are in one state.
AllInit ==
    /\ part \in {"loop", "pairs", "report"}
    /\ Init /\ Runner!Init /\ Report!Init
    /\ part # "report" => report = << >>

OnlyLoop   == part = "loop" /\ UNCHANGED <<part, runnerVars, reportVars>>
OnlyPairs  == part = "pairs" /\ UNCHANGED <<part, vars, reportVars>>
OnlyReport == part = "report" /\ UNCHANGED <<part, vars, runnerVars>>

AllNext ==
    \/ OnlyLoop /\ Next
    \/ OnlyPairs /\ Runner!Next
    \/ OnlyReport /\ Report!Next

\* The event loop goes on; an attempt that does nothing else is timed out.
AllSpec == AllInit /\ [][AllNext]_allVars /\ WF_allVars(OnlyPairs /\ Runner!Next)

\* engine.py, _run_module_scan: a coroutine that returned has marked its pair, and one
\* that has not leaves neither result nor error, after at most MaxAttempts attempts.
MarkedOnReturn == Runner!TypeOK /\ Runner!MarkedOnReturn

\* source_adapter.py and compliance.py: the audit trail and the report can be held
\* against each other.
TrailAgrees == Runner!TrailAgrees

\* engine.py, _run_module_scan: however attempts overlap, time out and are retried, a
\* pair is settled once.
ImplementsPool == Runner!ImplementsPool

\* engine.py, _run_iteration: every coroutine returns, so that the gather does.
EveryPairReturns == part = "pairs" => Runner!EveryPairReturns

\* engine.py, after the loop: whatever the loop and the tools found is in the report, or
\* merged into what is there with no severity or tag lost, or was a profile that was
\* denied, or shares its URL with something in the report; and no entity is there twice.
FindingsSettled == Report!TypeOK /\ Report!EveryFindingAccountedFor /\ Report!ReportedOnce

\* engine.py, the docstring of _verify_profiles_phase: only profiles are filtered.
OnlyProfilesFiltered == Report!OnlyProfilesFiltered
=============================================================================
