----------------------------- MODULE HandleCheck -----------------------------
(***************************************************************************)
(* batch_verify_handles of src/modules/deep_scan/handle_verifier.py and    *)
(* what the scan makes of it: the handles derived from a name are looked   *)
(* up on a few platforms, some handles at a time and a handle on all its   *)
(* platforms at once, and those that seem to exist nowhere are doubted.    *)
(* DeepScan starts with any set of doubted pivots; here is which it is.    *)
(***************************************************************************)
EXTENDS Integers, FiniteSets

CONSTANTS Handles, Platforms, MaxConcurrency

HandleAssumption ==
    /\ IsFiniteSet(Handles) /\ IsFiniteSet(Platforms)
    /\ MaxConcurrency \in Nat \ {0}

VARIABLES waiting,     \* handles whose check waits for a permit
          probes,      \* per handle, the answer of every platform
          results,     \* per handle, its overall_confidence in tenths, or NoResult
          permits,     \* of the semaphore
          unverified   \* _unverified, once the scan has looked at the results

vars == <<waiting, probes, results, permits, unverified>>

NoResult == -1
Dropped  == -2      \* the check of the handle raised
Undecided == {"not looked at"}

Answered == {"found", "not_found", "error"}

Init ==
    /\ waiting = Handles
    /\ probes = [h \in Handles |-> [p \in Platforms |-> "none"]]
    /\ results = [h \in Handles |-> NoResult]
    /\ permits = MaxConcurrency
    /\ unverified = Undecided

Count(outcomes, o) == Cardinality({p \in DOMAIN outcomes : outcomes[p] = o})

\* Faulty variant: one platform that could not be asked spoils the answer of the others.
ConfidenceWithoutErrors(outcomes) ==
    LET queried == Cardinality(DOMAIN outcomes)
        found   == Count(outcomes, "found")
    IN IF queried = 0 \/ Count(outcomes, "error") > 0 THEN 0
       ELSE IF found >= 3 THEN 9
       ELSE IF found = 2 THEN 7
       ELSE IF found = 1 THEN 5 ELSE 0

\* _compute_overall_confidence
Confidence(outcomes) ==
    LET queried   == Cardinality(DOMAIN outcomes)
        found     == Count(outcomes, "found")
        errors    == Count(outcomes, "error")
        not_found == Count(outcomes, "not_found")
    IN IF queried = 0 \/ errors = queried \/ not_found = queried THEN 0
       ELSE IF found >= 3 THEN 9
       ELSE IF found = 2 THEN 7
       ELSE IF found = 1 THEN 5
       ELSE IF not_found > 0 THEN 0
       ELSE IF errors > 0 THEN 2 ELSE 1

Checking == {h \in Handles \ waiting : results[h] = NoResult}

\* A permit is free: the probes of a handle are sent, all at once.
Send(h) ==
    /\ h \in waiting /\ permits > 0
    /\ permits' = permits - 1
    /\ waiting' = waiting \ {h}
    /\ probes' = [probes EXCEPT ![h] = [p \in Platforms |-> "pending"]]
    /\ UNCHANGED <<results, unverified>>

\* A platform answers, refuses, or does not answer in time.
Probed(h, p) ==
    /\ probes[h][p] = "pending" /\ h \in Checking
    /\ \E o \in Answered : probes' = [probes EXCEPT ![h][p] = o]
    /\ UNCHANGED <<waiting, results, permits, unverified>>

Verified(h) ==
    /\ h \in Checking
    /\ \A p \in Platforms : probes[h][p] \in Answered
    /\ results' = [results EXCEPT ![h] = Confidence(probes[h])]
    /\ permits' = permits + 1
    /\ UNCHANGED <<waiting, probes, unverified>>

\* Faulty variant: a check that raises keeps its permit.
CheckRaisesHolding(h) ==
    /\ h \in Checking
    /\ \A p \in Platforms : probes[h][p] = "pending"
    /\ results' = [results EXCEPT ![h] = Dropped]
    /\ UNCHANGED <<waiting, probes, permits, unverified>>

\* The client cannot be opened: the handle has no result.
CheckRaises(h) ==
    /\ h \in Checking
    /\ \A p \in Platforms : probes[h][p] = "pending"
    /\ results' = [results EXCEPT ![h] = Dropped]
    /\ permits' = permits + 1
    /\ UNCHANGED <<waiting, probes, unverified>>

\* The scan doubts a handle that has a result below 0.3.
Judge ==
    /\ unverified = Undecided /\ waiting = {} /\ Checking = {}
    /\ unverified' = {h \in Handles : results[h] \in 0..2}
    /\ UNCHANGED <<waiting, probes, results, permits>>

Next ==
    \/ \E h \in Handles : Send(h) \/ Verified(h) \/ CheckRaises(h)
    \/ \E h \in Handles, p \in Platforms : Probed(h, p)
    \/ Judge

Spec == Init /\ [][Next]_vars /\ WF_vars(Next)

-----------------------------------------------------------------------------
TypeOK ==
    /\ waiting \subseteq Handles
    /\ probes \in [Handles -> [Platforms -> Answered \cup {"none", "pending"}]]
    /\ results \in [Handles -> {NoResult, Dropped, 0, 1, 2, 5, 7, 9}]
    /\ permits = MaxConcurrency - Cardinality(Checking)
    /\ permits >= 0
    /\ unverified = Undecided \/ unverified \subseteq Handles

\* Of the handles that could be checked those are doubted that no platform shows: one
\* platform that shows a handle outweighs any number that fail or deny it, and a
\* handle is not trusted because nobody could be asked.
DoubtedIfShownNowhere ==
    unverified # Undecided =>
        unverified = {h \in Handles : /\ results[h] # Dropped
                                      /\ \A p \in Platforms : probes[h][p] # "found"}

\* The scan is past the verification of its handles: what the fairness brings about,
\* also when checks raise.
Ended == unverified # Undecided

-----------------------------------------------------------------------------
\* What the invariants rest on.

\* A result is that of its probes, which have all come in and change no more; the scan
\* judges when there is a result of every handle.
ResultsOfProbes ==
    /\ \A h \in waiting : results[h] = NoResult
    /\ \A h \in Handles : results[h] \notin {NoResult, Dropped} =>
          probes[h] \in [Platforms -> Answered] /\ results[h] = Confidence(probes[h])
    /\ unverified # Undecided => waiting = {} /\ Checking = {}

IInv == TypeOK /\ DoubtedIfShownNowhere /\ ResultsOfProbes
=============================================================================
