----------------------------- MODULE ModuleScan -----------------------------
(***************************************************************************)
(* The pairs of one iteration of the scan engine, run concurrently through *)
(* _run_module_scan (src/modules/deep_scan/engine.py): a semaphore around  *)
(* each attempt, a time-out, up to three attempts with a pause in between. *)
(*                                                                         *)
(* A pair of a source or a free-intel module passes the gates of its       *)
(* adapter on every attempt (source_adapter.py, free_intel_adapter.py) and *)
(* leaves an entry in the audit trail (src/core/compliance.py).  From one  *)
(* await to the next nothing else runs, so the gates and the start of the  *)
(* query are one step, and so are an answer, its entry and its outcome.    *)
(***************************************************************************)
EXTENDS Integers, Sequences, FiniteSets

CONSTANTS Plain,        \* pairs of ordinary modules: None is retried
          Sources,      \* pairs behind an adapter: None is definitive
          Refused,      \* those of them whose consent or tier gate is shut
          Permits,      \* max_concurrency
          MaxAttempts   \* 3

Pairs == Plain \cup Sources

\* What is asked of the constants.
PairAssumption ==
    /\ Plain \cap Sources = {}
    /\ Refused \subseteq Sources
    /\ IsFiniteSet(Pairs)
    /\ Permits \in Nat \ {0}
    /\ MaxAttempts \in Nat \ {0}

VARIABLES at,         \* per pair, where its coroutine is
          attempt,    \* per pair, the number of its attempt
          found,      \* pairs with a result in result.scan_results
          errors,     \* per pair, its messages in result.errors
          scanned,    \* _scanned_pairs
          audit,      \* per source pair, its outcomes in the audit trail
          queries,    \* per source pair, the queries sent (not in the code)
          unwritten   \* an entry could not be written (not in the code)

vars == <<at, attempt, found, errors, scanned, audit, queries, unwritten>>

\* A coroutine waits for a permit, is inside its attempt, pauses before the next
\* one, or has returned.
Places == {"waiting", "inside", "pausing", "returned"}

Answers == {"ok", "empty", "error"}
Entries == Answers \cup {"blocked", "throttled"}

Init ==
    /\ at = [p \in Pairs |-> "waiting"]
    /\ attempt = [p \in Pairs |-> 1]
    /\ found = {}
    /\ errors = [p \in Pairs |-> 0]
    /\ scanned = {}
    /\ audit = [s \in Sources |-> <<>>]
    /\ queries = [s \in Sources |-> 0]
    /\ unwritten = FALSE

-----------------------------------------------------------------------------
\* How an attempt ends.

Goes(p, place) == at' = [at EXCEPT ![p] = place]

\* Faulty variant: the pair is not marked.
SettlesUnmarked(p) ==
    /\ Goes(p, "returned")
    /\ UNCHANGED <<attempt, scanned>>

\* The pair is marked, so that no later iteration proposes it, and is over.
Settles(p) ==
    /\ Goes(p, "returned")
    /\ scanned' = scanned \cup {p}
    /\ UNCHANGED attempt

Fails(p) ==
    /\ Settles(p)
    /\ errors' = [errors EXCEPT ![p] = @ + 1]

\* Faulty variant: every failed attempt is put in the error list.
RetriesNoisily(p) ==
    IF attempt[p] < MaxAttempts
    THEN /\ Goes(p, "pausing")
         /\ errors' = [errors EXCEPT ![p] = @ + 1]
         /\ UNCHANGED <<scanned, attempt>>
    ELSE Fails(p)

\* Faulty variant: one attempt too many.
RetriesOnceMore(p) ==
    IF attempt[p] <= MaxAttempts
    THEN Goes(p, "pausing") /\ UNCHANGED <<scanned, errors, attempt>>
    ELSE Fails(p)

\* A transient failure, or no result where that counts as one.
Retries(p) ==
    IF attempt[p] < MaxAttempts
    THEN Goes(p, "pausing") /\ UNCHANGED <<scanned, errors, attempt>>
    ELSE Fails(p)

\* Faulty variant: the entry is appended twice.
RecordsTwice(s, entry) ==
    \/ audit' = [audit EXCEPT ![s] = @ \o <<entry, entry>>] /\ UNCHANGED unwritten
    \/ unwritten' = TRUE /\ UNCHANGED audit

\* record_audit appends an entry, or gives up on an OSError without a word to its
\* caller.
Records(s, entry) ==
    \/ audit' = [audit EXCEPT ![s] = Append(@, entry)] /\ UNCHANGED unwritten
    \/ unwritten' = TRUE /\ UNCHANGED audit

-----------------------------------------------------------------------------
\* The semaphore.
Inside == {p \in Pairs : at[p] = "inside"}

Admitted(p) == at[p] = "waiting" /\ Cardinality(Inside) < Permits

\* An ordinary module is called.
CallModule(p) ==
    /\ Admitted(p)
    /\ Goes(p, "inside")
    /\ UNCHANGED <<attempt, found, errors, scanned, audit, queries, unwritten>>

\* The consent gate or the tier gate is shut: None, and an entry.
Block(s) ==
    /\ Admitted(s)
    /\ s \in Refused
    /\ Records(s, "blocked")
    /\ Settles(s)
    /\ UNCHANGED <<found, errors, queries>>

\* The terms-of-service guard has no token: None, and an entry.
Throttle(s) ==
    /\ Admitted(s)
    /\ s \notin Refused
    /\ Records(s, "throttled")
    /\ Settles(s)
    /\ UNCHANGED <<found, errors, queries>>

\* Faulty variant: the consent and tier gates are passed by.
QueryUngated(s) ==
    /\ Admitted(s)
    /\ queries' = [queries EXCEPT ![s] = @ + 1]
    /\ Goes(s, "inside")
    /\ UNCHANGED <<attempt, found, errors, scanned, audit, unwritten>>

\* The guard cannot write its state file, and its OSError is nobody's to catch: no
\* query, no entry, a failed pair.
GateRaises(s) ==
    /\ Admitted(s)
    /\ s \notin Refused
    /\ Fails(s)
    /\ UNCHANGED <<found, audit, queries, unwritten>>

\* All gates are open: the query goes out.
Query(s) ==
    /\ Admitted(s)
    /\ s \notin Refused
    /\ queries' = [queries EXCEPT ![s] = @ + 1]
    /\ Goes(s, "inside")
    /\ UNCHANGED <<attempt, found, errors, scanned, audit, unwritten>>

\* The source answers, or raises: an adapter turns what is no result into None.
Answer(s, answer) ==
    /\ at[s] = "inside"
    /\ Records(s, answer)
    /\ found' = IF answer = "ok" THEN found \cup {s} ELSE found
    /\ Settles(s)
    /\ UNCHANGED <<errors, queries>>

\* What the source answered cannot be read: raised outside the try of source_adapter.py,
\* so there is no entry.  (Free-intel modules read their answers inside the try; their
\* pairs are sources that do not take this step.)
AnswerUnreadable(s) ==
    /\ at[s] = "inside"
    /\ Fails(s)
    /\ UNCHANGED <<found, audit, queries, unwritten>>

\* An ordinary module returns a result ...
ModuleFinds(p) ==
    /\ at[p] = "inside"
    /\ found' = found \cup {p}
    /\ Settles(p)
    /\ UNCHANGED <<errors, audit, queries, unwritten>>

\* ... or None, or raises ConnectionError or a 429 ...
ModuleFailsForNow(p) ==
    /\ at[p] = "inside"
    /\ Retries(p)
    /\ UNCHANGED <<found, audit, queries, unwritten>>

\* ... or anything else.
ModuleFailsForGood(p) ==
    /\ at[p] = "inside"
    /\ Fails(p)
    /\ UNCHANGED <<found, audit, queries, unwritten>>

\* wait_for cancels the attempt.  The adapters catch Exception, which a
\* CancelledError is not: the query is over and no entry is written.
TimesOut(p) ==
    /\ at[p] = "inside"
    /\ Retries(p)
    /\ UNCHANGED <<found, audit, queries, unwritten>>

\* Faulty variant: the attempts are not counted.
PauseEndsUncounted(p) ==
    /\ at[p] = "pausing"
    /\ Goes(p, "waiting")
    /\ UNCHANGED <<attempt, found, errors, scanned, audit, queries, unwritten>>

\* The pause, during which no permit is held, is over.
PauseEnds(p) ==
    /\ at[p] = "pausing"
    /\ Goes(p, "waiting")
    /\ attempt' = [attempt EXCEPT ![p] = @ + 1]
    /\ UNCHANGED <<found, errors, scanned, audit, queries, unwritten>>

ModuleStep(p) ==
    CallModule(p) \/ ModuleFinds(p) \/ ModuleFailsForNow(p) \/ ModuleFailsForGood(p)

\* run_free_intel_scan has the same gates, but for consent, and the same entries.
SourceStep(s) ==
    \/ Block(s) \/ Throttle(s) \/ GateRaises(s) \/ Query(s)
    \/ AnswerUnreadable(s) \/ \E answer \in Answers : Answer(s, answer)

Next ==
    \/ \E p \in Plain : ModuleStep(p)
    \/ \E s \in Sources : SourceStep(s)
    \/ \E p \in Pairs : TimesOut(p) \/ PauseEnds(p)

Spec == Init /\ [][Next]_vars

-----------------------------------------------------------------------------
\* The variables hold values of their types.
TypeOK ==
    /\ at \in [Pairs -> Places]
    /\ attempt \in [Pairs -> 1..MaxAttempts]
    /\ found \subseteq Pairs /\ scanned \subseteq Pairs
    /\ errors \in [Pairs -> Nat]
    /\ audit \in [Sources -> Seq(Entries)]
    /\ queries \in [Sources -> Nat]
    /\ unwritten \in BOOLEAN

\* What _run_module_scan leaves of a pair, and that it is marked when it returns.
OutcomeOf(p) ==
    CASE p \notin scanned                                -> "open"
      [] p \in scanned \cap found /\ errors[p] = 0       -> "found"
      [] p \in scanned \ found /\ errors[p] = 0          -> "empty"
      [] p \in scanned \ found /\ errors[p] = 1          -> "failed"
      [] OTHER                                           -> "confused"

PerPair == INSTANCE PairPool WITH outcome <- [p \in Pairs |-> OutcomeOf(p)]

\* However its attempts overlap those of others, time out, fail and are retried, a
\* pair is settled once: with one result, one error or, behind an adapter, nothing.
ImplementsPool == PerPair!Spec

\* A coroutine that returned has marked its pair; one that has not, has left neither
\* result nor error behind, however many attempts it has made.
MarkedOnReturn ==
    \A p \in Pairs :
        IF at[p] = "returned" THEN p \in scanned
        ELSE p \notin scanned \cup found /\ errors[p] = 0

\* The audit trail is to be believed: no entry speaks of a query that was not sent,
\* an entry of success has a result in the report, and a source whose gates are shut
\* was never queried and is only ever entered as blocked.
AuditTruthful ==
    \A s \in Sources :
        LET log      == {i \in DOMAIN audit[s] : TRUE}
            answered == {i \in log : audit[s][i] \in Answers}
        IN
        /\ Cardinality(answered) <= queries[s]
        /\ \A i \in log : audit[s][i] = "ok" => s \in found
        /\ s \in Refused => queries[s] = 0 /\ \A i \in log : audit[s][i] = "blocked"

\* As long as the file can be written, a source's coroutine that returns has left
\* exactly one entry, or an error in the report instead: a pair whose queries were
\* sent leaves one or the other, never both and never neither.
OneEntryPerPair ==
    ~unwritten =>
        \A s \in Sources :
            Len(audit[s]) = IF at[s] = "returned" /\ errors[s] = 0 THEN 1 ELSE 0

\* Both: the trail and the report can be held against each other.
TrailAgrees == AuditTruthful /\ OneEntryPerPair

\* Every coroutine of the iteration returns, so that its gather does.
EveryPairReturns == <>(\A p \in Pairs : at[p] = "returned")

-----------------------------------------------------------------------------
\* What the invariants rest on.

\* A pair leaves one result or one error, and nothing before it returns.
PairLeavesOneOutcome ==
    \A p \in Pairs :
        /\ errors[p] \in {0, 1}
        /\ p \in found => errors[p] = 0
        /\ at[p] # "returned" => p \notin scanned \cup found /\ errors[p] = 0
        /\ at[p] = "returned" => p \in scanned

\* A source leaves at most one entry, with its last attempt; an entry that answers
\* comes after a query.
Backed(s, e) ==
    /\ e \in Answers => queries[s] >= 1
    /\ e = "ok" => s \in found
    /\ s \in Refused => e = "blocked"

SourceLeavesOneEntry ==
    \A s \in Sources :
        /\ audit[s] = <<>> \/ \E e \in Entries : audit[s] = <<e>> /\ Backed(s, e)
        /\ at[s] # "returned" => audit[s] = <<>>
        /\ at[s] = "inside" => queries[s] >= 1 /\ s \notin Refused
        /\ s \in Refused => queries[s] = 0
        /\ errors[s] = 1 => audit[s] = <<>>
        /\ at[s] = "returned" /\ errors[s] = 0 /\ ~unwritten => audit[s] # <<>>

PausesLeadToAttempts == \A p \in Pairs : at[p] = "pausing" => attempt[p] < MaxAttempts

IInv == TypeOK /\ PairLeavesOneOutcome /\ SourceLeavesOneEntry /\ PausesLeadToAttempts

-----------------------------------------------------------------------------
\* The docstring of run_source_scan: "every executed query is recorded in the central
\* audit log", here once the coroutine has returned and if the file can be written.
EveryQueryAudited ==
    \A s \in Sources :
        at[s] = "returned" /\ ~unwritten =>
            Cardinality({i \in DOMAIN audit[s] : audit[s][i] \in Answers}) = queries[s]

=============================================================================
