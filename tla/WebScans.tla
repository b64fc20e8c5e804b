------------------------------ MODULE WebScans ------------------------------
(***************************************************************************)
(* What the web pages show of the scan files: load_scan_items of           *)
(* src/web/routes/_loader.py keeps what it has read for a while, and       *)
(* _load_reports of src/web/routes/reports.py keeps what it has made of    *)
(* that for as long again.  The handlers run on the event loop and have no *)
(* await between a look at a cache and its use; the files are written by   *)
(* other processes, in place, so that one may be read half written.        *)
(*                                                                         *)
(* There is one file, and the ages stand for the clock: they are counted   *)
(* up to where they no longer matter.                                      *)
(***************************************************************************)
EXTENDS Integers

CONSTANTS Scans,      \* what the file may hold
          Half,       \* the file half written
          Nothing,    \* no scan: no file, or one that does not parse
          Ttl         \* _TTL_SECONDS

WebAssumption == Ttl \in Nat \ {0} /\ {Half, Nothing} \cap Scans = {} /\ Half # Nothing

VARIABLES file,      \* what the file holds
          settled,   \* how long it has held it
          loaded,    \* _cached_items
          loadedAge, \* since _cached_at
          made,      \* the value of _reports_cache
          madeAge,   \* since its stamp
          shown      \* the last page: its kind, its content, and the file by then

vars == <<file, settled, loaded, loadedAge, made, madeAge, shown>>

NoPage == [page |-> "none", content |-> Nothing, file |-> Nothing, settled |-> 0]

\* A new process has neither cache: both are older than they may be.
Init ==
    /\ file = Nothing /\ settled = 2 * Ttl
    /\ loaded = Nothing /\ loadedAge = Ttl
    /\ made = Nothing /\ madeAge = Ttl
    /\ shown = NoPage

Older(age, limit) == IF age < limit THEN age + 1 ELSE limit

Tick ==
    /\ settled' = Older(settled, 2 * Ttl)
    /\ loadedAge' = Older(loadedAge, Ttl)
    /\ madeAge' = Older(madeAge, Ttl)
    /\ UNCHANGED <<file, loaded, made, shown>>

\* Another process begins to write the file, ends it, or removes it.
WriteFile ==
    /\ file' \in (Scans \cup {Half, Nothing}) \ {file}
    /\ settled' = 0
    /\ UNCHANGED <<loaded, loadedAge, made, madeAge, shown>>

\* A file that does not parse is skipped.
Parsed == IF file = Half THEN Nothing ELSE file

\* Faulty variant: every look at the items gives them another lease.
LoadRenewed ==
    /\ loaded' = IF loadedAge < Ttl THEN loaded ELSE Parsed
    /\ loadedAge' = 0

\* load_scan_items: what is kept, or the files, read anew.
Load ==
    IF loadedAge < Ttl THEN UNCHANGED <<loaded, loadedAge>>
    ELSE loaded' = Parsed /\ loadedAge' = 0

Shows(page, content) ==
    shown' = [page |-> page, content |-> content, file |-> file, settled |-> settled]

\* The dashboard, an entity and a timeline are made from the items each time.
OpenDashboard ==
    /\ Load
    /\ Shows("dashboard", loaded')
    /\ UNCHANGED <<file, settled, made, madeAge>>

OpenReports ==
    /\ IF madeAge < Ttl
       THEN UNCHANGED <<loaded, loadedAge, made, madeAge>>
       ELSE Load /\ made' = loaded' /\ madeAge' = 0
    /\ Shows("reports", made')
    /\ UNCHANGED <<file, settled>>

Next == Tick \/ WriteFile \/ OpenDashboard \/ OpenReports

Spec == Init /\ [][Next]_vars

-----------------------------------------------------------------------------
TypeOK ==
    /\ file \in Scans \cup {Half, Nothing}
    /\ loaded \in Scans \cup {Nothing} /\ made \in Scans \cup {Nothing}
    /\ settled \in 0..(2 * Ttl) /\ loadedAge \in 0..Ttl /\ madeAge \in 0..Ttl
    /\ shown \in [page : {"none", "dashboard", "reports"},
                  content : Scans \cup {Nothing},
                  file : Scans \cup {Half, Nothing}, settled : 0..(2 * Ttl)]

\* How long a change of the files may stay unseen: a page made from the items shows
\* what has been there for one time to live, the reports what has been there for two
\* less a tick, for the list may be made from items that are about to expire.
Seen(page) == IF page = "reports" THEN 2 * Ttl - 1 ELSE Ttl

\* What a page shows is what the file holds, once it has held it for so long, also when
\* it was read half written in between and however often pages are opened.
ChangesAreSeen ==
    shown.settled >= Seen(shown.page) /\ shown.file # Half => shown.content = shown.file

-----------------------------------------------------------------------------
\* What the invariant rests on.

\* What was read after the file's last change is what the file holds.
LoadedIsCurrent == loadedAge < Ttl /\ settled > loadedAge => loaded = Parsed

\* So is what was made of items that were read a time to live ago at most.
MadeIsCurrent == madeAge < Ttl /\ settled >= madeAge + Ttl => made = Parsed

IInv == TypeOK /\ LoadedIsCurrent /\ MadeIsCurrent /\ ChangesAreSeen
=============================================================================
