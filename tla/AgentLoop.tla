------------------------------ MODULE AgentLoop ------------------------------
(***************************************************************************)
(* AgentScanPlanner.run of src/modules/deep_scan/agent_loop.py: the first  *)
(* sources of a plan are queried at the same time; when some of them raise *)
(* or time out, the others stand in for them, in batches, until as many    *)
(* answers have come as were missing.  A source that fails inside its      *)
(* adapter, is throttled or is blocked there does not raise: the adapter   *)
(* returns None, which counts as an answer.                                *)
(***************************************************************************)
EXTENDS Integers, FiniteSets

CONSTANTS Steps,        \* the length of the plan; a step is its index
          MaxSources,   \* max_sources
          Wave          \* the size of the primary wave and of a batch (3)

AgentAssumption == Steps \in Nat /\ MaxSources \in Nat /\ Wave \in Nat \ {0}

VARIABLES stage,     \* "planning", "ready", "primary", "fallback", "done"
          status,    \* per step: planned, skipped, running, ok (answered, with data or
                     \* none), mute (the adapter returned None for want of an answer),
                     \* failed (raised or timed out)
          owed,      \* still_failed
          reached    \* how many of the runnable steps were started, a batch at a time

vars == <<stage, status, owed, reached>>

Step == 1..Steps

With(s) == {i \in Step : status[i] = s}

\* The steps whose ok the loop has set, and those it has heard of.
Answered == With("ok") \cup With("mute")
Tried    == Answered \cup With("failed")

\* The steps that are not skipped by the compliance gate, and of these the first few.
Allowed == {i \in Step : status[i] # "skipped"}

Rank(i) == Cardinality({j \in Allowed : j <= i})

Runnable  == {i \in Allowed : Rank(i) <= MaxSources}
Primary   == {i \in Runnable : Rank(i) <= Wave}
Alternate == Runnable \ Primary

\* Faulty variant: a batch of one too many.
BatchOfMore(from) == {i \in Runnable : from < Rank(i) /\ Rank(i) <= from + Wave + 1}

Batch(from) == {i \in Runnable : from < Rank(i) /\ Rank(i) <= from + Wave}

-----------------------------------------------------------------------------
Init ==
    /\ stage = "planning"
    /\ status = [i \in Step |-> "planned"]
    /\ owed = 0
    /\ reached = 0

\* plan: the sources that need a consent are skipped, unless it is given.
Plan ==
    /\ stage = "planning"
    /\ \E consent \in SUBSET Step :
          status' = [i \in Step |-> IF i \in consent THEN "skipped" ELSE "planned"]
    /\ stage' = "ready"
    /\ UNCHANGED <<owed, reached>>

\* gather over the next batch of runnable steps.
StartBatch ==
    /\ status' = [i \in Step |-> IF i \in Batch(reached) THEN "running" ELSE status[i]]
    /\ reached' = reached + Wave

StartPrimary ==
    /\ stage = "ready"
    /\ StartBatch
    /\ stage' = IF Runnable = {} THEN "done" ELSE "primary"
    /\ UNCHANGED owed

\* A source answers, with findings or with none.
Answer(i) ==
    /\ status[i] = "running"
    /\ status' = [status EXCEPT ![i] = "ok"]
    /\ UNCHANGED <<stage, owed, reached>>

\* run_source_scan swallows the exception of its source, or does not ask it at all,
\* because it is throttled or blocked, and returns None: for the loop an answer.
FailsQuietly(i) ==
    /\ status[i] = "running"
    /\ status' = [status EXCEPT ![i] = "mute"]
    /\ UNCHANGED <<stage, owed, reached>>

\* The query raises outside of what its adapter catches, or is not over in time.
Raise(i) ==
    /\ status[i] = "running"
    /\ status' = [status EXCEPT ![i] = "failed"]
    /\ UNCHANGED <<stage, owed, reached>>

\* The next batch of alternates while answers are missing, or the end.
Onwards(missing) ==
    /\ owed' = missing
    /\ IF missing > 0 /\ reached < Cardinality(Runnable)
       THEN stage' = "fallback" /\ StartBatch
       ELSE stage' = "done" /\ UNCHANGED <<status, reached>>

\* Faulty variant: when every primary failed there is nothing to go by.
EndPrimaryUnlessAllFailed ==
    /\ stage = "primary" /\ With("running") = {}
    /\ Answered # {}
    /\ Onwards(Cardinality(With("failed")))

EndPrimary ==
    /\ stage = "primary" /\ With("running") = {}
    /\ Onwards(Cardinality(With("failed")))

\* Faulty variant: sources of the batch that failed count as well.
EndBatchCountsAll ==
    /\ stage = "fallback" /\ With("running") = {}
    /\ Onwards(owed - Cardinality(Batch(reached - Wave)))

EndBatch ==
    /\ stage = "fallback" /\ With("running") = {}
    /\ Onwards(owed - Cardinality(Answered \cap Batch(reached - Wave)))

Next ==
    \/ Plan \/ StartPrimary \/ EndPrimary \/ EndBatch
    \/ \E i \in With("running") : Answer(i) \/ FailsQuietly(i) \/ Raise(i)

Spec == Init /\ [][Next]_vars

\* Every query returns, raises or is timed out by its wait_for.
FairSpec == Spec /\ WF_vars(Next)

-----------------------------------------------------------------------------
\* The variables hold values of their types.
TypeOK ==
    /\ stage \in {"planning", "ready", "primary", "fallback", "done"}
    /\ status \in [Step -> {"planned", "skipped", "running", "ok", "mute", "failed"}]
    /\ owed \in Int
    /\ reached \in Nat

\* Every primary that raised or timed out is made up for by an alternate that the loop
\* counts as answered, or there was no alternate left to ask, however the answers of a
\* batch are mixed.  Of failures that the adapter swallows it says nothing: see
\* AlternateIsTried.
FailuresMadeUpFor ==
    stage = "done" =>
        \/ Cardinality(With("failed") \cap Primary) <= Cardinality(Answered \cap Alternate)
        \/ Alternate \subseteq Tried

\* No source is asked for nothing: alternates stand in for primaries that raised or timed
\* out only, and answer in excess of these by less than a batch.
FewNeedlessQueries ==
    LET excess == Cardinality(Answered \cap Alternate) - Cardinality(With("failed") \cap Primary)
    IN  /\ stage = "primary" => With("running") \subseteq Primary
        /\ Alternate \cap Tried # {} => With("failed") \cap Primary # {} /\ excess < Wave

\* What agent_loop.py says of itself (lines 7-8): if a primary source fails or
\* rate-limits, the next alternate is tried.  The loop does not see it when the adapter
\* returned None for it.
AlternateIsTried ==
    stage = "done" /\ (With("failed") \cup With("mute")) \cap Primary # {} /\ Alternate # {} =>
        Alternate \cap Tried # {}

\* What the fairness brings about, whichever sources fail and however many alternates
\* there are.
Ended == stage = "done"

-----------------------------------------------------------------------------
\* What the invariants rest on.

\* The steps that were started are those up to reached, and there are no others to
\* start in a batch that was left out.
StartedInOrder ==
    /\ stage \in {"planning", "ready"} =>
          reached = 0 /\ With("running") \cup Tried = {}
    /\ stage = "primary" => reached = Wave
    /\ stage = "fallback" => reached >= 2 * Wave
    /\ With("running") \cup Tried = {i \in Runnable : Rank(i) <= reached}
    /\ stage = "fallback" => With("running") \subseteq Batch(reached - Wave)
    /\ stage = "done" => With("running") = {}

Missed == Cardinality(With("failed") \cap Primary)
StoodIn(from) == Cardinality(Answered \cap {i \in Alternate : Rank(i) <= from})

\* What is owed are the primaries that raised, without the alternates that answered, but
\* for those of the batch under way.
OwedIsMissing ==
    /\ stage = "fallback" => owed = Missed - StoodIn(reached - Wave) /\ owed > 0
    /\ stage = "done" /\ Runnable # {} =>
          /\ owed = Missed - StoodIn(reached) /\ owed + Wave > 0
          /\ owed <= 0 \/ Runnable = {i \in Runnable : Rank(i) <= reached}
          /\ Missed = 0 => reached = Wave

IInv == TypeOK /\ StartedInOrder /\ OwedIsMissing

=============================================================================
