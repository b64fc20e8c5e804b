------------------------------ MODULE CaseRuns ------------------------------
(***************************************************************************)
(* CaseManager.save_run of src/investigations/case_manager.py by several   *)
(* scans of one case (jobs of the API, runs of the command line), and      *)
(* load_previous_intel, which the next run compares with.  A run has a     *)
(* directory named by the second; its files are written one after the      *)
(* other, then `latest` is made to name it.  Nothing is atomic, nothing is *)
(* locked.                                                                 *)
(***************************************************************************)
EXTENDS Integers, FiniteSets

CONSTANTS Runs,      \* scans of the case whose result is saved
          Files,     \* the number of files of a run; a file is its place in the order
          MaxTime,   \* bound of the clock, in seconds
          Cut        \* what a file holds that was truncated and not yet written

CaseAssumption == Files \in Nat \ {0} /\ MaxTime \in Nat \ {0} /\ Cut \notin 0..MaxTime

VARIABLES clock,
          dir,      \* per run, the second its directory is named by, 0 before it has one
          at,       \* per run, the file it is at; Files + 1 is latest
          writing,  \* the runs that have truncated the file they are at
          over,     \* the runs that have ended, or died
          content,  \* per directory and file, the run that wrote it last, or Cut
          latest    \* the directory that latest names, 0 when it does not exist, or Cut

vars == <<clock, dir, at, writing, over, content, latest>>

Dirs == 1..MaxTime

Init ==
    /\ clock = 1
    /\ dir = [r \in Runs |-> 0]
    /\ at = [r \in Runs |-> 1]
    /\ writing = {} /\ over = {}
    /\ content = [f \in {} |-> Cut]
    /\ latest = 0

Saving(r) == dir[r] # 0 /\ r \notin over

\* The directory of the second; it may be there already.
Begin(r) ==
    /\ dir[r] = 0
    /\ dir' = [dir EXCEPT ![r] = clock]
    /\ UNCHANGED <<clock, at, writing, over, content, latest>>

\* write_text truncates the file, which others can see ...
Truncate(r) ==
    /\ Saving(r) /\ r \notin writing
    /\ writing' = writing \cup {r}
    /\ IF at[r] <= Files
       THEN /\ content' = [f \in DOMAIN content \cup {<<dir[r], at[r]>>} |->
                              IF f = <<dir[r], at[r]>> THEN Cut ELSE content[f]]
            /\ UNCHANGED latest
       ELSE latest' = Cut /\ UNCHANGED content
    /\ UNCHANGED <<clock, dir, at, over>>

\* Faulty variant: the run is not over when latest names it.
WriteGoesOn(r) ==
    /\ Saving(r) /\ r \in writing
    /\ writing' = writing \ {r}
    /\ at' = [at EXCEPT ![r] = @ + 1]
    /\ IF at[r] <= Files
       THEN content' = [content EXCEPT ![<<dir[r], at[r]>>] = r] /\ UNCHANGED latest
       ELSE latest' = dir[r] /\ UNCHANGED content
    /\ UNCHANGED <<clock, dir, over>>

\* ... and writes it.
Write(r) ==
    /\ Saving(r) /\ r \in writing
    /\ writing' = writing \ {r}
    /\ IF at[r] <= Files
       THEN /\ content' = [content EXCEPT ![<<dir[r], at[r]>>] = r]
            /\ at' = [at EXCEPT ![r] = @ + 1]
            /\ UNCHANGED <<over, latest>>
       ELSE /\ latest' = dir[r]
            /\ over' = over \cup {r}
            /\ UNCHANGED <<at, content>>
    /\ UNCHANGED <<clock, dir>>

\* Faulty variant: the error of one file is swallowed, the next are written.
FailGoesOn(r) ==
    /\ Saving(r) /\ at[r] <= Files
    /\ at' = [at EXCEPT ![r] = @ + 1]
    /\ writing' = writing \ {r}
    /\ UNCHANGED <<clock, dir, over, content, latest>>

\* A write raises, or the process dies; what is truncated stays so.
Fail(r) ==
    /\ Saving(r)
    /\ over' = over \cup {r}
    /\ writing' = writing \ {r}
    /\ UNCHANGED <<clock, dir, at, content, latest>>

Tick ==
    /\ clock < MaxTime
    /\ clock' = clock + 1
    /\ UNCHANGED <<dir, at, writing, over, content, latest>>

Next == (\E r \in Runs : Begin(r) \/ Truncate(r) \/ Write(r) \/ Fail(r)) \/ Tick

Spec == Init /\ [][Next]_vars

-----------------------------------------------------------------------------
\* The variables hold values of their types.
TypeOK ==
    /\ clock \in Dirs
    /\ dir \in [Runs -> 0..MaxTime] /\ at \in [Runs -> 1..(Files + 1)]
    /\ writing \subseteq Runs /\ over \subseteq Runs
    /\ DOMAIN content \subseteq Dirs \X (1..Files)
    /\ \A f \in DOMAIN content : content[f] \in Runs \cup {Cut}
    /\ latest \in 0..MaxTime \cup {Cut}

\* Runs of one second share a directory.
Shared(d) == \E r, s \in Runs : r # s /\ dir[r] = d /\ dir[s] = d

\* The run that latest names is whole and of one scan, so the next scan is compared
\* with a report that some scan made, however the runs overlapped and failed; two that
\* fell in one second may be mixed.
LatestIsWhole ==
    latest \in Dirs /\ ~ Shared(latest) =>
        \E r \in Runs : /\ dir[r] = latest
                        /\ \A f \in 1..Files : <<latest, f>> \in DOMAIN content
                                                  /\ content[<<latest, f>>] = r

-----------------------------------------------------------------------------
\* What the invariant rests on.

\* Only a run that is saving writes, a file that is there; others have not begun.
WritersSound ==
    \A r \in Runs :
        /\ r \in writing => Saving(r)
        /\ r \in writing /\ at[r] <= Files => <<dir[r], at[r]>> \in DOMAIN content
        /\ dir[r] = 0 => at[r] = 1

\* A run that has its directory for itself has written every file before the one it is at.
WrittenSoFar ==
    \A r \in Runs : dir[r] # 0 /\ ~ Shared(dir[r]) =>
        \A f \in 1..Files : f < at[r] => <<dir[r], f>> \in DOMAIN content
                                             /\ content[<<dir[r], f>>] = r

\* Only a run that has written all of its files is named by latest.
LatestHasFiles == latest \in Dirs => \E r \in Runs : dir[r] = latest /\ at[r] = Files + 1

IInv == TypeOK /\ WritersSound /\ WrittenSoFar /\ LatestHasFiles

=============================================================================
