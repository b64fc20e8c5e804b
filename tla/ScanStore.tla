------------------------------ MODULE ScanStore ------------------------------
(***************************************************************************)
(* SQLiteBackend.save_scan of src/core/database.py by several coroutines:  *)
(* they execute their statements on one connection, with an await after    *)
(* each, so all are in one transaction, and a commit is a commit of what   *)
(* any of them has executed.  Nothing is ever rolled back.                 *)
(***************************************************************************)
EXTENDS Integers, FiniteSets

CONSTANTS Tasks,        \* coroutines that save a scan
          Scans,
          ScanOf,       \* the scan that each saves; it may be saved twice
          Ids,          \* ids of findings
          FindingsOf,   \* per scan, the ids of its findings; the AI dossier's is not unique
          BreachesOf    \* per scan, how many breach records it has

StoreAssumption ==
    /\ ScanOf \in [Tasks -> Scans]
    /\ FindingsOf \in [Scans -> SUBSET Ids]
    /\ BreachesOf \in [Scans -> Nat]

VARIABLES view,     \* the rows as the connection sees them
          disk,     \* the rows that are committed
          step,     \* per task, "new", "findings", "breaches", "saved", "failed"
          toWrite,  \* per task, the findings it has still to write
          records   \* per task, how many breach records it has written

vars == <<view, disk, step, toWrite, records>>

NoRows == [scans |-> {}, findings |-> [f \in {} |-> {}], breaches |-> [s \in Scans |-> 0]]

Init ==
    /\ view = NoRows /\ disk = NoRows
    /\ step = [t \in Tasks |-> "new"]
    /\ toWrite = [t \in Tasks |-> FindingsOf[ScanOf[t]]]
    /\ records = [t \in Tasks |-> 0]

Saving(t) == step[t] \in {"findings", "breaches"}

\* INSERT OR REPLACE INTO scans
WriteScan(t) ==
    /\ step[t] = "new"
    /\ view' = [view EXCEPT !.scans = @ \cup {ScanOf[t]}]
    /\ step' = [step EXCEPT ![t] = "findings"]
    /\ UNCHANGED <<disk, toWrite, records>>

\* INSERT OR REPLACE INTO findings: the row of that id belongs to this scan now.
WriteFinding(t, f) ==
    /\ step[t] = "findings" /\ f \in toWrite[t]
    /\ view' = [view EXCEPT !.findings = [g \in DOMAIN @ \cup {f} |->
                                              IF g = f THEN ScanOf[t] ELSE @[g]]]
    /\ toWrite' = [toWrite EXCEPT ![t] = @ \ {f}]
    /\ UNCHANGED <<disk, step, records>>

NoMoreFindings(t) ==
    /\ step[t] = "findings" /\ toWrite[t] = {}
    /\ step' = [step EXCEPT ![t] = "breaches"]
    /\ UNCHANGED <<view, disk, toWrite, records>>

\* INSERT INTO breach_records: a scan that is saved again has them twice.
WriteBreach(t) ==
    /\ step[t] = "breaches" /\ records[t] < BreachesOf[ScanOf[t]]
    /\ view' = [view EXCEPT !.breaches[ScanOf[t]] = @ + 1]
    /\ records' = [records EXCEPT ![t] = @ + 1]
    /\ UNCHANGED <<disk, step, toWrite>>

\* Faulty variant: save_scan returns and leaves the commit to another.
CommitIfAlone(t) ==
    /\ step[t] = "breaches" /\ records[t] = BreachesOf[ScanOf[t]]
    /\ disk' = IF \E u \in Tasks \ {t} : Saving(u) THEN disk ELSE view
    /\ step' = [step EXCEPT ![t] = "saved"]
    /\ UNCHANGED <<view, toWrite, records>>

\* The commit, of everybody's rows; save_scan returns.
Commit(t) ==
    /\ step[t] = "breaches" /\ records[t] = BreachesOf[ScanOf[t]]
    /\ disk' = view
    /\ step' = [step EXCEPT ![t] = "saved"]
    /\ UNCHANGED <<view, toWrite, records>>

\* Faulty variant: a statement that raises is passed over, with those that follow.
RaisesQuietly(t) ==
    /\ Saving(t)
    /\ disk' = view
    /\ step' = [step EXCEPT ![t] = "saved"]
    /\ UNCHANGED <<view, toWrite, records>>

\* A statement raises; the rows written so far stay in the transaction.
Raises(t) ==
    /\ Saving(t)
    /\ step' = [step EXCEPT ![t] = "failed"]
    /\ UNCHANGED <<view, disk, toWrite, records>>

\* The process dies, and with it the transaction and all that were saving.
Crash ==
    /\ view' = disk
    /\ step' = [t \in Tasks |-> IF Saving(t) THEN "failed" ELSE step[t]]
    /\ UNCHANGED <<disk, toWrite, records>>

Next ==
    \/ \E t \in Tasks :
          \/ WriteScan(t) \/ NoMoreFindings(t) \/ WriteBreach(t) \/ Commit(t) \/ Raises(t)
          \/ \E f \in Ids : WriteFinding(t, f)
    \/ Crash

Spec == Init /\ [][Next]_vars

-----------------------------------------------------------------------------
Rows == [scans : SUBSET Scans,
         findings : UNION {[ids -> Scans] : ids \in SUBSET Ids},
         breaches : [Scans -> Nat]]

\* The variables hold values of their types.
TypeOK ==
    /\ view \in Rows /\ disk \in Rows
    /\ step \in [Tasks -> {"new", "findings", "breaches", "saved", "failed"}]
    /\ toWrite \in [Tasks -> SUBSET Ids]
    /\ records \in [Tasks -> Nat]

Started(s) == {t \in Tasks : ScanOf[t] = s /\ step[t] # "new"}

\* The row of a finding: of its scan, unless another scan has a finding of that id.
Written(rows, s, f) ==
    /\ f \in DOMAIN rows.findings
    /\ \/ rows.findings[f] = s
       \/ \E u \in Tasks : ScanOf[u] # s /\ step[u] # "new" /\ f \in FindingsOf[ScanOf[u]]

\* A scan is there with all it has.
Whole(rows, s) ==
    /\ s \in rows.scans
    /\ rows.breaches[s] >= BreachesOf[s]
    /\ \A f \in FindingsOf[s] : Written(rows, s, f)

\* A scan whose save returned is on disk with all it has, also when the process dies
\* and whatever the others had written or failed to write: its row, its breach records
\* at least once, and its findings, but for ids that another scan uses as well.
SavedIsDurable == \A t \in Tasks : step[t] = "saved" => Whole(disk, ScanOf[t])

\* What is on disk of a scan that was never saved as a whole is there because of a
\* commit by another, while its own save was under way or after it had failed.
HalvesAreUnsaved ==
    \A s \in disk.scans :
        \/ \E t \in Started(s) : step[t] = "saved"
        \/ (\E t \in Started(s) : Saving(t) \/ step[t] = "failed")
               /\ \E t \in Tasks : ScanOf[t] # s /\ step[t] = "saved"

\* Both: what is on disk of a scan is all of it, or a half that nobody was told is saved.
ScansAreKept == SavedIsDurable /\ HalvesAreUnsaved

-----------------------------------------------------------------------------
\* What they rest on.

\* The connection sees what a task has written so far, and all of a saved scan.
InView(t) ==
    /\ toWrite[t] \subseteq FindingsOf[ScanOf[t]]
    /\ step[t] = "new" => records[t] = 0 /\ toWrite[t] = FindingsOf[ScanOf[t]]
    /\ step[t] = "breaches" => toWrite[t] = {}
    /\ step[t] = "saved" => Whole(view, ScanOf[t])
    /\ Saving(t) =>
          /\ ScanOf[t] \in view.scans
          /\ view.breaches[ScanOf[t]] >= records[t]
          /\ \A f \in FindingsOf[ScanOf[t]] \ toWrite[t] : Written(view, ScanOf[t], f)

SavesInView == \A t \in Tasks : InView(t)

\* A row of a scan was written by a save of it.
RowsOfStarted == \A s \in view.scans \cup disk.scans : Started(s) # {}

IInv == TypeOK /\ SavedIsDurable /\ HalvesAreUnsaved /\ SavesInView /\ RowsOfStarted

=============================================================================
