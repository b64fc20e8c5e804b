----------------------------- MODULE AuditTrail -----------------------------
(***************************************************************************)
(* The audit log of src/core/compliance.py: record_audit appends a line,   *)
(* purge_expired_audit_entries reads the file and replaces it by the lines *)
(* whose retention has not run out.  Nothing is locked.  An append that    *)
(* fails half-way leaves a line without its end, which the next append     *)
(* goes on with.                                                           *)
(***************************************************************************)
EXTENDS Integers, Sequences, Subsequences

CONSTANTS Entries,    \* audit entries
          Purgers,    \* processes that purge
          Retention,  \* per entry, its retention in days
          MaxDay      \* bound of the calendar

AuditAssumption == Retention \in [Entries -> Nat] /\ MaxDay \in Nat

VARIABLES day,
          stamp,     \* per recorded entry or attempt, its timestamp
          log,       \* the lines: the entries in it, whether it parses, whether it lacks its end
          kept,      \* per purger, the lines it is about to write, or none
          recorded,  \* the entries that were written without an error (not in the code)
          raced      \* the entries appended while a purge was under way (not in the code)

vars == <<day, stamp, log, kept, recorded, raced>>

Elems(s) == {s[i] : i \in DOMAIN s}

Line == [entries : SUBSET Entries, ok : BOOLEAN, open : BOOLEAN]

Init ==
    /\ day = 0
    /\ stamp = [e \in {} |-> 0]
    /\ log = << >>
    /\ kept = [p \in Purgers |-> [purging |-> FALSE, lines |-> << >>]]
    /\ recorded = {} /\ raced = {}

New == Entries \ DOMAIN stamp

Stamp(e) ==
    /\ e \in New
    /\ stamp' = [f \in DOMAIN stamp \cup {e} |-> IF f = e THEN day ELSE stamp[f]]
    /\ raced' = IF \E p \in Purgers : kept[p].purging THEN raced \cup {e} ELSE raced

-----------------------------------------------------------------------------
\* Faulty variant: a joined line gets no end either.
WrittenOpen(e, ok, open) ==
    IF log # << >> /\ log[Len(log)].open
    THEN [log EXCEPT ![Len(log)] = [entries |-> @.entries \cup {e}, ok |-> FALSE, open |-> TRUE]]
    ELSE Append(log, [entries |-> {e}, ok |-> ok, open |-> open])

\* The file after a write of e: a line of its own, or the rest of a line that lacks
\* its end, and that no parser can read then.
Written(e, ok, open) ==
    IF log # << >> /\ log[Len(log)].open
    THEN [log EXCEPT ![Len(log)] = [entries |-> @.entries \cup {e}, ok |-> FALSE, open |-> open]]
    ELSE Append(log, [entries |-> {e}, ok |-> ok, open |-> open])

\* record_audit
Record(e) ==
    /\ Stamp(e)
    /\ log' = Written(e, TRUE, FALSE)
    /\ recorded' = recorded \cup {e}
    /\ UNCHANGED <<day, kept>>

\* The write fails or is cut short, before or after the last brace; the error is
\* swallowed.
RecordTorn(e) ==
    /\ Stamp(e)
    /\ \E ok \in BOOLEAN : log' = Written(e, ok, TRUE)
    /\ UNCHANGED <<day, kept, recorded>>

-----------------------------------------------------------------------------
\* A line that does not parse has no timestamp and is kept; one that does is of one
\* entry.
Expires(line) == line.ok /\ \A e \in line.entries : stamp[e] + Retention[e] < day

\* Faulty variant: lines that do not parse are purged.
KeptReadable(line) == line.ok /\ ~ Expires(line)

Kept(line) == ~ Expires(line)

\* The purge reads the log; when nothing has expired it ends there.
PurgeReads(p) ==
    /\ ~ kept[p].purging
    /\ \E i \in DOMAIN log : ~ Kept(log[i])
    /\ \E lines \in Selections(log, {i \in DOMAIN log : Kept(log[i])}) :
          kept' = [kept EXCEPT ![p] =
                      [purging |-> TRUE,
                       lines |-> [i \in DOMAIN lines |-> [lines[i] EXCEPT !.open = FALSE]]]]
    /\ UNCHANGED <<day, stamp, log, recorded, raced>>

\* os.replace: every line it has kept, each with its end.
PurgeReplaces(p) ==
    /\ kept[p].purging
    /\ log' = kept[p].lines
    /\ kept' = [kept EXCEPT ![p] = [purging |-> FALSE, lines |-> << >>]]
    /\ UNCHANGED <<day, stamp, recorded, raced>>

\* The temporary file cannot be written, or the process dies: the log is untouched.
PurgeFails(p) ==
    /\ kept[p].purging
    /\ kept' = [kept EXCEPT ![p] = [purging |-> FALSE, lines |-> << >>]]
    /\ UNCHANGED <<day, stamp, log, recorded, raced>>

NextDay ==
    /\ day < MaxDay
    /\ day' = day + 1
    /\ UNCHANGED <<stamp, log, kept, recorded, raced>>

Next ==
    \/ \E e \in Entries : Record(e) \/ RecordTorn(e)
    \/ \E p \in Purgers : PurgeReads(p) \/ PurgeReplaces(p) \/ PurgeFails(p)
    \/ NextDay

Spec == Init /\ [][Next]_vars

-----------------------------------------------------------------------------
\* The variables hold values of their types, and a line that parses is of one entry.
TypeOK ==
    /\ day \in 0..MaxDay
    /\ DOMAIN stamp \subseteq Entries /\ recorded \cup raced \subseteq DOMAIN stamp
    /\ \A line \in Elems(log) : /\ line \in Line
                                /\ line.entries \subseteq DOMAIN stamp
                                /\ line.ok => \E e \in Entries : line.entries = {e}
    /\ \A p \in Purgers : \A line \in Elems(kept[p].lines) : line \in Line

\* What was recorded is in the log until its retention is over, in a line that may not
\* parse, whatever purges fail, overlap or are cut short; an entry appended while a
\* purge was under way is the only one that may be lost.
RecordedUntilExpired ==
    \A e \in recorded \ raced :
        \/ \E line \in Elems(log) : e \in line.entries
        \/ stamp[e] + Retention[e] < day

\* A torn write spoils one entry that was recorded without an error, the next one; the
\* damage does not spread to later ones.
TornSpoilsOne ==
    \A line \in Elems(log) : ~ line.ok => \A e, f \in line.entries \cap recorded : e = f

-----------------------------------------------------------------------------
\* What the invariants rest on.

\* A line is of recorded or torn entries; one that parses is of one of them, one that
\* lacks its end of none that was recorded, and one that does not parse of one at most.
LineSound(line) ==
    /\ line \in Line
    /\ line.entries \subseteq DOMAIN stamp
    /\ line.ok => \E e \in DOMAIN stamp : line.entries = {e}
    /\ line.open => line.entries \cap recorded = {}
    /\ \A e, f \in line.entries \cap recorded : ~ line.ok => e = f

\* Entries recorded before a purge began are in the lines it has kept, or expired.
LinesSound ==
    /\ log \in Seq(Line) /\ \A line \in Elems(log) : LineSound(line)
    /\ kept \in [Purgers -> [purging : BOOLEAN, lines : Seq(Line)]]
    /\ \A p \in Purgers : \A line \in Elems(kept[p].lines) : LineSound(line) /\ ~ line.open

PurgesKeepUnexpired ==
    \A p \in Purgers : kept[p].purging =>
        \A e \in recorded \ raced :
            \/ \E line \in Elems(kept[p].lines) : e \in line.entries
            \/ stamp[e] + Retention[e] < day

StampsSound == stamp \in [DOMAIN stamp -> Nat]

IInv == TypeOK /\ RecordedUntilExpired /\ StampsSound /\ LinesSound /\ PurgesKeepUnexpired

=============================================================================
