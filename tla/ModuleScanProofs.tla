-------------------------- MODULE ModuleScanProofs --------------------------
(***************************************************************************)
(* Proofs about the pairs of an iteration, for any modules and sources,    *)
(* any number of permits and of attempts.                                  *)
(***************************************************************************)
EXTENDS Scans, Sequences, FiniteSetTheorems, TLAPS

LEMMA PairsStart ==
    ASSUME Runner!PairAssumption PROVE Runner!Init => Runner!IInv
<1> SUFFICES ASSUME Runner!Init PROVE Runner!IInv
  OBVIOUS
<1>1. MaxAttempts \in Nat \ {0} BY DEF Runner!PairAssumption
<1>2. Runner!TypeOK
  <2>1. [s \in Sources |-> <<>>] \in [Sources -> Seq(Runner!Entries)] OBVIOUS
  <2>2. "waiting" \in Runner!Places BY DEF Runner!Places
  <2>3. 1 \in 1..MaxAttempts BY <1>1
  <2>4. at \in [Runner!Pairs -> Runner!Places] BY <2>2 DEF Runner!Init
  <2>5. attempt \in [Runner!Pairs -> 1..MaxAttempts] BY <2>3 DEF Runner!Init
  <2>6. errors \in [Runner!Pairs -> Nat] /\ queries \in [Sources -> Nat] BY DEF Runner!Init
  <2> QED BY <2>1, <2>4, <2>5, <2>6 DEF Runner!Init, Runner!TypeOK
<1>3. Runner!PairLeavesOneOutcome BY DEF Runner!Init, Runner!PairLeavesOneOutcome
<1>4. Runner!SourceLeavesOneEntry
  BY DEF Runner!Init, Runner!SourceLeavesOneEntry, Runner!Pairs
<1>5. Runner!PausesLeadToAttempts BY DEF Runner!Init, Runner!PausesLeadToAttempts
<1> QED BY <1>2, <1>3, <1>4, <1>5 DEF Runner!IInv

LEMMA SourcesArePairs == Sources \subseteq Runner!Pairs /\ Plain \subseteq Runner!Pairs
BY DEF Runner!Pairs

-----------------------------------------------------------------------------
\* How an attempt ends, and what that leaves of the invariant.

\* A pair that fails gets its one error.
LEMMA FailsKeeps ==
    ASSUME Runner!IInv, NEW p \in Runner!Pairs, at[p] # "returned", Runner!Fails(p),
           UNCHANGED <<results, audit, queries, unwritten>>
    PROVE  Runner!IInv'
<1> USE SourcesArePairs
<1>1. /\ at' = [at EXCEPT ![p] = "returned"] /\ marked' = marked \cup {p}
      /\ attempt' = attempt /\ errors' = [errors EXCEPT ![p] = @ + 1]
  BY DEF Runner!Fails, Runner!Settles, Runner!Goes
<1>2. Runner!TypeOK' BY <1>1 DEF Runner!IInv, Runner!TypeOK, Runner!Places
<1>3. Runner!PairLeavesOneOutcome'
  BY <1>1 DEF Runner!IInv, Runner!PairLeavesOneOutcome, Runner!TypeOK
<1>4. Runner!SourceLeavesOneEntry'
  BY <1>1 DEF Runner!IInv, Runner!SourceLeavesOneEntry, Runner!PairLeavesOneOutcome,
     Runner!TypeOK, Runner!Backed
<1>5. Runner!PausesLeadToAttempts'
  BY <1>1 DEF Runner!IInv, Runner!PausesLeadToAttempts, Runner!TypeOK
<1> QED BY <1>2, <1>3, <1>4, <1>5 DEF Runner!IInv

\* A pair that is to be tried again leaves nothing behind.
LEMMA RetriesKeeps ==
    ASSUME Runner!IInv, NEW p \in Runner!Pairs, at[p] = "inside", Runner!Retries(p),
           UNCHANGED <<results, audit, queries, unwritten>>
    PROVE  Runner!IInv'
<1> USE SourcesArePairs
<1>1. CASE attempt[p] < MaxAttempts
  <2>1. /\ at' = [at EXCEPT ![p] = "pausing"]
        /\ UNCHANGED <<marked, errors, attempt>>
    BY <1>1 DEF Runner!Retries, Runner!Goes
  <2>2. Runner!TypeOK' BY <2>1 DEF Runner!IInv, Runner!TypeOK, Runner!Places
  <2>3. Runner!PairLeavesOneOutcome'
    BY <2>1 DEF Runner!IInv, Runner!PairLeavesOneOutcome, Runner!TypeOK
  <2>4. Runner!SourceLeavesOneEntry'
    BY <2>1 DEF Runner!IInv, Runner!SourceLeavesOneEntry, Runner!TypeOK, Runner!Backed
  <2>5. Runner!PausesLeadToAttempts'
    BY <1>1, <2>1 DEF Runner!IInv, Runner!PausesLeadToAttempts, Runner!TypeOK
  <2> QED BY <2>2, <2>3, <2>4, <2>5 DEF Runner!IInv
<1>2. CASE ~(attempt[p] < MaxAttempts)
  <2>1. Runner!Fails(p) BY <1>2 DEF Runner!Retries
  <2> QED BY <2>1, FailsKeeps
<1> QED BY <1>1, <1>2

\* A source that settles with an entry that its queries back.
LEMMA EntryKeeps ==
    ASSUME Runner!IInv, NEW s \in Sources, NEW e \in Runner!Entries, at[s] # "returned",
           Runner!Records(s, e), Runner!Settles(s), UNCHANGED <<errors, queries>>,
           results' = IF e = "ok" THEN results \cup {s} ELSE results,
           e \in Runner!Answers => queries[s] >= 1,
           s \in Refused => e = "blocked"
    PROVE  Runner!IInv'
<1> USE SourcesArePairs
<1>1. /\ at' = [at EXCEPT ![s] = "returned"] /\ marked' = marked \cup {s}
      /\ attempt' = attempt
  BY DEF Runner!Settles, Runner!Goes
<1>2. audit[s] = <<>> BY DEF Runner!IInv, Runner!SourceLeavesOneEntry
<1>3. \/ audit' = [audit EXCEPT ![s] = <<e>>] /\ unwritten' = unwritten
      \/ unwritten' = TRUE /\ audit' = audit
  <2>1. Append(audit[s], e) = <<e>> BY <1>2
  <2> QED BY <2>1 DEF Runner!Records
<1>4. <<e>> \in Seq(Runner!Entries) OBVIOUS
<1>5. Runner!TypeOK' BY <1>1, <1>3, <1>4 DEF Runner!IInv, Runner!TypeOK, Runner!Places
<1>6. Runner!PairLeavesOneOutcome'
  BY <1>1 DEF Runner!IInv, Runner!PairLeavesOneOutcome, Runner!TypeOK
<1>7. Runner!SourceLeavesOneEntry'
  <2> SUFFICES ASSUME NEW t \in Sources
               PROVE  /\ audit'[t] = <<>> \/ \E d \in Runner!Entries : audit'[t]
                             = <<d>> /\ Runner!Backed(t, d)'
                      /\ at'[t] # "returned" => audit'[t] = <<>>
                      /\ at'[t] = "inside" => queries'[t] >= 1 /\ t \notin Refused
                      /\ t \in Refused => queries'[t] = 0
                      /\ errors'[t] = 1 => audit'[t] = <<>>
                      /\ at'[t] = "returned" /\ errors'[t] = 0 /\ ~unwritten' => audit'[t] # <<>>
    BY DEF Runner!SourceLeavesOneEntry
  <2>1. CASE t = s
    <3>1. Runner!Backed(s, e)' BY DEF Runner!Backed
    <3>2. audit'[s] = <<e>> \/ (audit'[s] = <<>> /\ unwritten')
      BY <1>2, <1>3 DEF Runner!IInv, Runner!TypeOK
    <3>3. at'[s] = "returned" /\ errors'[s] = 0
      BY <1>1 DEF Runner!IInv, Runner!TypeOK, Runner!PairLeavesOneOutcome
    <3> QED BY <2>1, <3>1, <3>2, <3>3 DEF Runner!IInv, Runner!SourceLeavesOneEntry
  <2>2. CASE t # s
    <3>1. audit'[t] = audit[t] /\ at'[t] = at[t] /\ (~unwritten' => ~unwritten)
      BY <1>1, <1>3, <2>2 DEF Runner!IInv, Runner!TypeOK
    <3>2. \A d : Runner!Backed(t, d) => Runner!Backed(t, d)' BY <2>2 DEF Runner!Backed
    <3> QED BY <3>1, <3>2 DEF Runner!IInv, Runner!SourceLeavesOneEntry
  <2> QED BY <2>1, <2>2
<1>8. Runner!PausesLeadToAttempts'
  BY <1>1 DEF Runner!IInv, Runner!PausesLeadToAttempts, Runner!TypeOK
<1> QED BY <1>5, <1>6, <1>7, <1>8 DEF Runner!IInv

-----------------------------------------------------------------------------
LEMMA ModuleStepKeeps ==
    ASSUME Runner!PairAssumption, Runner!IInv, NEW p \in Plain, Runner!ModuleStep(p)
    PROVE  Runner!IInv'
<1> USE SourcesArePairs
<1>1. p \notin Sources BY DEF Runner!PairAssumption
<1>2. CASE Runner!CallModule(p)
  <2>1. /\ at[p] = "waiting" /\ at' = [at EXCEPT ![p] = "inside"]
        /\ UNCHANGED <<attempt, results, errors, marked, audit, queries, unwritten>>
    BY <1>2 DEF Runner!CallModule, Runner!Admitted, Runner!Goes
  <2>2. Runner!TypeOK' BY <2>1 DEF Runner!IInv, Runner!TypeOK, Runner!Places
  <2>3. Runner!PairLeavesOneOutcome'
    BY <2>1 DEF Runner!IInv, Runner!PairLeavesOneOutcome, Runner!TypeOK
  <2>4. Runner!SourceLeavesOneEntry'
    BY <1>1, <2>1 DEF Runner!IInv, Runner!SourceLeavesOneEntry, Runner!TypeOK, Runner!Backed
  <2>5. Runner!PausesLeadToAttempts'
    BY <2>1 DEF Runner!IInv, Runner!PausesLeadToAttempts, Runner!TypeOK
  <2> QED BY <2>2, <2>3, <2>4, <2>5 DEF Runner!IInv
<1>3. CASE Runner!ModuleFinds(p)
  <2>1. /\ at[p] = "inside" /\ at' = [at EXCEPT ![p] = "returned"]
        /\ results' = results \cup {p} /\ marked' = marked \cup {p}
        /\ UNCHANGED <<attempt, errors, audit, queries, unwritten>>
    BY <1>3 DEF Runner!ModuleFinds, Runner!Settles, Runner!Goes
  <2>2. Runner!TypeOK' BY <2>1 DEF Runner!IInv, Runner!TypeOK, Runner!Places
  <2>3. Runner!PairLeavesOneOutcome'
    BY <2>1 DEF Runner!IInv, Runner!PairLeavesOneOutcome, Runner!TypeOK
  <2>4. Runner!SourceLeavesOneEntry'
    BY <1>1, <2>1 DEF Runner!IInv, Runner!SourceLeavesOneEntry, Runner!TypeOK, Runner!Backed
  <2>5. Runner!PausesLeadToAttempts'
    BY <2>1 DEF Runner!IInv, Runner!PausesLeadToAttempts, Runner!TypeOK
  <2> QED BY <2>2, <2>3, <2>4, <2>5 DEF Runner!IInv
<1>4. CASE Runner!ModuleFailsForNow(p)
  BY <1>4, RetriesKeeps DEF Runner!ModuleFailsForNow
<1>5. CASE Runner!ModuleFailsForGood(p)
  BY <1>5, FailsKeeps DEF Runner!ModuleFailsForGood
<1> QED BY <1>2, <1>3, <1>4, <1>5 DEF Runner!ModuleStep

LEMMA SourceStepKeeps ==
    ASSUME Runner!IInv, NEW s \in Sources, Runner!SourceStep(s)
    PROVE  Runner!IInv'
<1> USE SourcesArePairs
<1>1. CASE Runner!Block(s)
  <2>1. "blocked" \in Runner!Entries /\ "blocked" \notin Runner!Answers
    BY DEF Runner!Entries, Runner!Answers
  <2>2. at[s] = "waiting" /\ s \in Refused /\ Runner!Records(s, "blocked") /\ Runner!Settles(s)
        /\ UNCHANGED <<results, errors, queries>>
    BY <1>1 DEF Runner!Block, Runner!Admitted
  <2> QED BY <2>1, <2>2, EntryKeeps
<1>2. CASE Runner!Throttle(s)
  <2>1. "throttled" \in Runner!Entries /\ "throttled" \notin Runner!Answers
    BY DEF Runner!Entries, Runner!Answers
  <2>2. at[s] = "waiting" /\ s \notin Refused /\ Runner!Records(s, "throttled") /\ Runner!Settles(s)
        /\ UNCHANGED <<results, errors, queries>>
    BY <1>2 DEF Runner!Throttle, Runner!Admitted
  <2> QED BY <2>1, <2>2, EntryKeeps
<1>3. CASE Runner!GateRaises(s)
  BY <1>3, FailsKeeps DEF Runner!GateRaises, Runner!Admitted
<1>4. CASE Runner!Query(s)
  <2>1. /\ at[s] = "waiting" /\ s \notin Refused
        /\ at' = [at EXCEPT ![s] = "inside"] /\ queries' = [queries EXCEPT ![s] = @ + 1]
        /\ UNCHANGED <<attempt, results, errors, marked, audit, unwritten>>
    BY <1>4 DEF Runner!Query, Runner!Admitted, Runner!Goes
  <2>2. Runner!TypeOK' BY <2>1 DEF Runner!IInv, Runner!TypeOK, Runner!Places
  <2>3. Runner!PairLeavesOneOutcome'
    BY <2>1 DEF Runner!IInv, Runner!PairLeavesOneOutcome, Runner!TypeOK
  <2>4. Runner!SourceLeavesOneEntry'
    BY <2>1 DEF Runner!IInv, Runner!SourceLeavesOneEntry, Runner!TypeOK, Runner!Backed
  <2>5. Runner!PausesLeadToAttempts'
    BY <2>1 DEF Runner!IInv, Runner!PausesLeadToAttempts, Runner!TypeOK
  <2> QED BY <2>2, <2>3, <2>4, <2>5 DEF Runner!IInv
<1>5. CASE Runner!AnswerUnreadable(s)
  BY <1>5, FailsKeeps DEF Runner!AnswerUnreadable
<1>6. ASSUME NEW answer \in Runner!Answers, Runner!Answer(s, answer) PROVE Runner!IInv'
  <2>1. answer \in Runner!Entries BY DEF Runner!Entries
  <2>2. at[s] = "inside" /\ Runner!Records(s, answer) /\ Runner!Settles(s)
        /\ results' = (IF answer = "ok" THEN results \cup {s} ELSE results)
        /\ UNCHANGED <<errors, queries>>
    BY <1>6 DEF Runner!Answer
  <2>3. queries[s] >= 1 /\ s \notin Refused BY <2>2 DEF Runner!IInv, Runner!SourceLeavesOneEntry
  <2> QED BY <2>1, <2>2, <2>3, EntryKeeps
<1> QED BY <1>1, <1>2, <1>3, <1>4, <1>5, <1>6 DEF Runner!SourceStep

LEMMA WaitingStepKeeps ==
    ASSUME Runner!PairAssumption, Runner!IInv, NEW p \in Runner!Pairs,
           Runner!TimesOut(p) \/ Runner!PauseEnds(p)
    PROVE  Runner!IInv'
<1> USE SourcesArePairs
<1>1. CASE Runner!TimesOut(p)
  BY <1>1, RetriesKeeps DEF Runner!TimesOut
<1>2. CASE Runner!PauseEnds(p)
  <2>1. /\ at[p] = "pausing" /\ at' = [at EXCEPT ![p] = "waiting"]
        /\ attempt' = [attempt EXCEPT ![p] = @ + 1]
        /\ UNCHANGED <<results, errors, marked, audit, queries, unwritten>>
    BY <1>2 DEF Runner!PauseEnds, Runner!Goes
  <2>2. attempt[p] \in 1..MaxAttempts /\ attempt[p] < MaxAttempts /\ MaxAttempts \in Nat
    BY <2>1 DEF Runner!PairAssumption, Runner!IInv, Runner!TypeOK, Runner!PausesLeadToAttempts
  <2>3. Runner!TypeOK' BY <2>1, <2>2 DEF Runner!IInv, Runner!TypeOK, Runner!Places
  <2>4. Runner!PairLeavesOneOutcome'
    BY <2>1 DEF Runner!IInv, Runner!PairLeavesOneOutcome, Runner!TypeOK
  <2>5. Runner!SourceLeavesOneEntry'
    BY <2>1 DEF Runner!IInv, Runner!SourceLeavesOneEntry, Runner!TypeOK, Runner!Backed
  <2>6. Runner!PausesLeadToAttempts'
    BY <2>1 DEF Runner!IInv, Runner!PausesLeadToAttempts, Runner!TypeOK
  <2> QED BY <2>3, <2>4, <2>5, <2>6 DEF Runner!IInv
<1> QED BY <1>1, <1>2

LEMMA StepKeeps ==
    ASSUME Runner!PairAssumption PROVE Runner!IInv /\ [Runner!Next]_(Runner!vars) => Runner!IInv'
<1> SUFFICES ASSUME Runner!IInv, [Runner!Next]_(Runner!vars) PROVE Runner!IInv'
  OBVIOUS
<1>1. CASE UNCHANGED Runner!vars
  BY <1>1 DEF Runner!vars, Runner!IInv, Runner!TypeOK, Runner!PairLeavesOneOutcome,
     Runner!SourceLeavesOneEntry,
              Runner!PausesLeadToAttempts, Runner!Backed
<1>2. CASE Runner!Next
  BY <1>2, ModuleStepKeeps, SourceStepKeeps, WaitingStepKeeps DEF Runner!Next
<1> QED BY <1>1, <1>2

\* A step of a scan is one of the pairs, or leaves them alone.
LEMMA AllNextRunner == [AllNext]_allVars => [Runner!Next]_(Runner!vars)
BY DEF AllNext, allVars, OnlyLoop, OnlyPairs, OnlyReport, runnerVars, Runner!vars

THEOREM PairsInvariance ==
    ASSUME Runner!PairAssumption PROVE AllSpec => []Runner!IInv
<1>1. AllInit => Runner!IInv BY PairsStart DEF AllInit
<1>2. Runner!IInv /\ [AllNext]_allVars => Runner!IInv' BY StepKeeps, AllNextRunner
<1> QED BY <1>1, <1>2, PTL DEF AllSpec

\* The variables of an iteration are well-typed; in particular a pair is never
\* attempted more than MaxAttempts times.
THEOREM PairsTypeCorrect ==
    ASSUME Runner!PairAssumption PROVE AllSpec => []Runner!TypeOK
<1>1. Runner!IInv => Runner!TypeOK BY DEF Runner!IInv
<1> QED BY <1>1, PairsInvariance, PTL

\* A coroutine of the engine that returns has marked its pair, and one that has not
\* returned has left no result and no error.
THEOREM ReturnedMeansMarked ==
    ASSUME Runner!PairAssumption PROVE AllSpec => []MarkedOnReturn
<1>1. Runner!IInv => MarkedOnReturn
  BY DEF MarkedOnReturn, Runner!IInv, Runner!PairLeavesOneOutcome, Runner!MarkedOnReturn
<1> QED BY <1>1, PairsInvariance, PTL

\* The size of a set, as the module of the pairs has it.
LEMMA SameCardinality == \A S : Runner!Cardinality(S) = Cardinality(S)
BY SMT DEF Runner!Cardinality, Cardinality, Runner!IsFiniteSet, IsFiniteSet

\* The audit trail never speaks of a query that was not sent, of a success without a
\* result, or of a query to a source whose gates are shut.
THEOREM AuditIsTruthful ==
    ASSUME Runner!PairAssumption PROVE AllSpec => []Runner!AuditTruthful
<1>1. Runner!IInv => Runner!AuditTruthful
  <2> SUFFICES ASSUME Runner!IInv, NEW s \in Sources
               PROVE  LET log      == {i \in DOMAIN audit[s] : TRUE}
                          answered == {i \in log : audit[s][i] \in Runner!Answers}
                      IN /\ Runner!Cardinality(answered) <= queries[s]
                         /\ \A i \in log : audit[s][i] = "ok" => s \in results
                         /\ s \in Refused => /\ queries[s] = 0
                                             /\ \A i \in log : audit[s][i] = "blocked"
    BY DEF Runner!AuditTruthful
  <2> DEFINE answered == {i \in {i \in DOMAIN audit[s] : TRUE} : audit[s][i] \in Runner!Answers}
  <2>1. s \in Refused => queries[s] = 0 BY DEF Runner!IInv, Runner!SourceLeavesOneEntry
  <2>2. queries[s] \in Nat BY DEF Runner!IInv, Runner!TypeOK
  <2>3. Runner!Cardinality({}) = 0 BY FS_EmptySet, SameCardinality
  <2>4. CASE audit[s] = <<>>
    <3>1. DOMAIN audit[s] = {} BY <2>4
    <3>2. answered = {} BY <3>1
    <3> QED BY <3>1, <3>2, <2>1, <2>2, <2>3
  <2>5. ASSUME NEW e \in Runner!Entries, audit[s] = <<e>>, Runner!Backed(s, e)
        PROVE  /\ Runner!Cardinality(answered) <= queries[s]
               /\ \A i \in DOMAIN audit[s] : audit[s][i] = "ok" => s \in results
               /\ s \in Refused => \A i \in DOMAIN audit[s] : audit[s][i] = "blocked"
    <3>1. DOMAIN audit[s] = {1} /\ audit[s][1] = e BY <2>5
    <3>2. Runner!Cardinality({1}) = 1 BY FS_Singleton, SameCardinality
    <3>3. IF e \in Runner!Answers THEN answered = {1} ELSE answered = {} BY <3>1
    <3>4. Runner!Cardinality(answered) <= queries[s]
      BY <2>2, <2>3, <2>5, <3>2, <3>3 DEF Runner!Backed
    <3> QED BY <2>5, <3>1, <3>4 DEF Runner!Backed
  <2>6. audit[s] = <<>> \/ \E e \in Runner!Entries : audit[s] = <<e>> /\ Runner!Backed(s, e)
    BY DEF Runner!IInv, Runner!SourceLeavesOneEntry
  <2> QED BY <2>1, <2>4, <2>5, <2>6
<1> QED BY <1>1, PairsInvariance, PTL

\* While the trail can be written, a source leaves one entry, or an error in the
\* report instead.
THEOREM EntryOrError ==
    ASSUME Runner!PairAssumption PROVE AllSpec => []Runner!OneEntryPerPair
<1>1. Runner!IInv => Runner!OneEntryPerPair
  <2> SUFFICES ASSUME Runner!IInv, ~unwritten, NEW s \in Sources
               PROVE  Len(audit[s]) = IF at[s] = "returned" /\ errors[s] = 0 THEN 1 ELSE 0
    BY DEF Runner!OneEntryPerPair
  <2>1. errors[s] \in {0, 1} BY SourcesArePairs DEF Runner!IInv, Runner!PairLeavesOneOutcome
  <2>2. CASE audit[s] = <<>>
    <3>1. Len(audit[s]) = 0 BY <2>2
    <3> QED BY <2>2, <3>1 DEF Runner!IInv, Runner!SourceLeavesOneEntry
  <2>3. CASE audit[s] # <<>>
    <3>1. PICK e \in Runner!Entries : audit[s] = <<e>>
      BY <2>3 DEF Runner!IInv, Runner!SourceLeavesOneEntry
    <3>2. Len(audit[s]) = 1 BY <3>1
    <3> QED BY <2>1, <2>3, <3>2 DEF Runner!IInv, Runner!SourceLeavesOneEntry
  <2> QED BY <2>2, <2>3
<1> QED BY <1>1, PairsInvariance, PTL

\* So the audit trail and the report can be held against each other, for any sources,
\* number of permits and number of attempts.
THEOREM TrailAgreement ==
    ASSUME Runner!PairAssumption PROVE AllSpec => []TrailAgrees
<1>1. Runner!AuditTruthful /\ Runner!OneEntryPerPair => TrailAgrees
  BY DEF TrailAgrees, Runner!TrailAgrees
<1> QED BY <1>1, AuditIsTruthful, EntryOrError, PTL


-----------------------------------------------------------------------------
\* A step settles at most one pair, which was open, and leaves the others as they are.
OnlyTouches(p) ==
    /\ p \notin marked
    /\ marked' \in {marked, marked \cup {p}}
    /\ results' \in {results, results \cup {p}}
    /\ \A q \in Runner!Pairs \ {p} : errors'[q] = errors[q]

LEMMA FailsTouches ==
    ASSUME Runner!IInv, NEW p \in Runner!Pairs, at[p] # "returned",
           Runner!Fails(p) \/ Runner!Retries(p),
           results' = results
    PROVE  OnlyTouches(p)
<1>1. p \notin marked BY DEF Runner!IInv, Runner!PairLeavesOneOutcome
<1>2. \A q \in Runner!Pairs \ {p} : errors'[q] = errors[q]
  BY DEF Runner!Retries, Runner!Fails, Runner!IInv, Runner!TypeOK
<1>3. marked' \in {marked, marked \cup {p}}
  BY DEF Runner!Retries, Runner!Fails, Runner!Settles
<1> QED BY <1>1, <1>2, <1>3 DEF OnlyTouches

LEMMA StepTouchesOne ==
    ASSUME Runner!IInv, Runner!Next
    PROVE  \E p \in Runner!Pairs : OnlyTouches(p)
<1> USE SourcesArePairs
<1>0. \A p \in Runner!Pairs : at[p] # "returned" => p \notin marked
  BY DEF Runner!IInv, Runner!PairLeavesOneOutcome
<1>1. ASSUME NEW p \in Plain, Runner!ModuleStep(p) PROVE OnlyTouches(p)
  <2>1. CASE Runner!CallModule(p)
    BY <1>0, <2>1 DEF Runner!CallModule, Runner!Admitted, OnlyTouches
  <2>2. CASE Runner!ModuleFinds(p)
    BY <1>0, <2>2 DEF Runner!ModuleFinds, Runner!Settles, OnlyTouches
  <2>3. CASE Runner!ModuleFailsForNow(p)
    BY <2>3, FailsTouches DEF Runner!ModuleFailsForNow
  <2>4. CASE Runner!ModuleFailsForGood(p)
    BY <2>4, FailsTouches DEF Runner!ModuleFailsForGood
  <2> QED BY <1>1, <2>1, <2>2, <2>3, <2>4 DEF Runner!ModuleStep
<1>2. ASSUME NEW s \in Sources, Runner!SourceStep(s) PROVE OnlyTouches(s)
  <2>1. CASE Runner!Block(s) \/ Runner!Throttle(s)
    BY <1>0, <2>1 DEF Runner!Block, Runner!Throttle, Runner!Admitted, Runner!Settles, OnlyTouches
  <2>2. CASE Runner!GateRaises(s) \/ Runner!AnswerUnreadable(s)
    BY <2>2, FailsTouches DEF Runner!GateRaises, Runner!AnswerUnreadable, Runner!Admitted
  <2>3. CASE Runner!Query(s)
    BY <1>0, <2>3 DEF Runner!Query, Runner!Admitted, OnlyTouches
  <2>4. ASSUME NEW answer \in Runner!Answers, Runner!Answer(s, answer) PROVE OnlyTouches(s)
    BY <1>0, <2>4 DEF Runner!Answer, Runner!Settles, OnlyTouches
  <2> QED BY <1>2, <2>1, <2>2, <2>3, <2>4 DEF Runner!SourceStep
<1>3. ASSUME NEW p \in Runner!Pairs, Runner!TimesOut(p) \/ Runner!PauseEnds(p) PROVE OnlyTouches(p)
  <2>1. CASE Runner!TimesOut(p)
    BY <2>1, FailsTouches DEF Runner!TimesOut
  <2>2. CASE Runner!PauseEnds(p)
    BY <1>0, <2>2 DEF Runner!PauseEnds, OnlyTouches
  <2> QED BY <1>3, <2>1, <2>2
<1> QED BY <1>1, <1>2, <1>3 DEF Runner!Next

Outcome == [p \in Runner!Pairs |-> Runner!OutcomeOf(p)]

LEMMA InitRefines == Runner!Init => Runner!PerPair!Init
BY DEF Runner!Init, Runner!PerPair!Init, Runner!OutcomeOf

LEMMA StepRefines ==
    Runner!IInv /\ Runner!IInv' /\ [Runner!Next]_(Runner!vars) => [Runner!PerPair!Next]_Outcome
<1> SUFFICES ASSUME Runner!IInv, Runner!IInv', [Runner!Next]_(Runner!vars)
             PROVE Runner!PerPair!Next \/ Outcome' = Outcome
  OBVIOUS
<1>1. CASE UNCHANGED Runner!vars
  BY <1>1 DEF Runner!vars, Outcome, Runner!OutcomeOf
<1>2. CASE Runner!Next
  <2>1. PICK p \in Runner!Pairs : OnlyTouches(p) BY <1>2, StepTouchesOne
  <2>2. \A q \in Runner!Pairs \ {p} : Runner!OutcomeOf(q)' = Runner!OutcomeOf(q)
    BY <2>1 DEF OnlyTouches, Runner!OutcomeOf
  <2>3. Runner!OutcomeOf(p) = "open" BY <2>1 DEF OnlyTouches, Runner!OutcomeOf
  <2>4. CASE p \notin marked'
    <3>1. Runner!OutcomeOf(p)' = "open" BY <2>4 DEF Runner!OutcomeOf
    <3>2. Outcome' = Outcome BY <2>2, <2>3, <3>1 DEF Outcome
    <3> QED BY <3>2
  <2>5. CASE p \in marked'
    <3>1. errors'[p] \in {0, 1} /\ (p \in results' => errors'[p] = 0)
      BY DEF Runner!IInv, Runner!PairLeavesOneOutcome
    <3>2. Runner!OutcomeOf(p)' \in Runner!PerPair!Outcomes
      BY <2>5, <3>1 DEF Runner!OutcomeOf, Runner!PerPair!Outcomes
    <3>3. Outcome' = [Outcome EXCEPT ![p] = Runner!OutcomeOf(p)']
      BY <2>2 DEF Outcome
    <3>4. Outcome[p] = "open" BY <2>3 DEF Outcome
    <3>5. Runner!PerPair!Settle(p) BY <3>2, <3>3, <3>4 DEF Runner!PerPair!Settle, Outcome
    <3> QED BY <3>5 DEF Runner!PerPair!Next
  <2> QED BY <2>4, <2>5
<1> QED BY <1>1, <1>2

\* Every pair of an iteration is settled once, whatever its attempts go through and
\* however they overlap: the runner implements the pool that the loop relies on.
THEOREM PairsImplementPool ==
    ASSUME Runner!PairAssumption PROVE AllSpec => ImplementsPool
<1>1. AllInit => Runner!PerPair!Init BY InitRefines DEF AllInit
<1>2. Runner!IInv /\ Runner!IInv' /\ [AllNext]_allVars =>
          [Runner!PerPair!Next]_([p \in Runner!Pairs |-> Runner!OutcomeOf(p)])
  BY StepRefines, AllNextRunner DEF Outcome
<1> QED
  BY <1>1, <1>2, PairsInvariance, PTL DEF AllSpec, ImplementsPool, Runner!ImplementsPool,
     Runner!PerPair!Spec

=============================================================================
