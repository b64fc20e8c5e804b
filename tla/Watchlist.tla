------------------------------ MODULE Watchlist ------------------------------
(***************************************************************************)
(* Watchlist of src/modules/monitoring/watchlist.py: every session loads   *)
(* the index once, changes its copy, and writes the whole of it back after *)
(* every change, in place.                                                 *)
(***************************************************************************)
EXTENDS Integers, FiniteSets

CONSTANTS Sessions,   \* Watchlist objects, one per process
          Targets,
          Never,      \* the last scan of a target that was not scanned yet
          Interval,   \* interval_hours
          MaxTime     \* bound of the clock

WatchlistAssumption == Interval \in Nat \ {0} /\ MaxTime \in Nat

VARIABLES clock,
          index,     \* the file: [whole, scans], where scans gives each target its last scan
          session,   \* per session, "new", "loaded", "saving", "ended"
          copy,      \* _targets: likewise a function on the targets of the list
          promised,  \* the list as the callers were told it is (not in the code)
          upset      \* sessions overlapped, or a save was cut short (not in the code)

vars == <<clock, index, session, copy, promised, upset>>

Empty == [t \in {} |-> Never]

Init ==
    /\ clock = 0
    /\ index = [whole |-> TRUE, scans |-> Empty]
    /\ session = [p \in Sessions |-> "new"]
    /\ copy = [p \in Sessions |-> Empty]
    /\ promised = Empty
    /\ upset = FALSE

With(list, t, at)  == [u \in DOMAIN list \cup {t} |-> IF u = t THEN at ELSE list[u]]
Without(list, t) == [u \in DOMAIN list \ {t} |-> list[u]]

\* _load: an index that is no JSON counts as an empty one.
Load(p) ==
    /\ session[p] = "new"
    /\ session' = [session EXCEPT ![p] = "loaded"]
    /\ copy' = [copy EXCEPT ![p] = IF index.whole THEN index.scans ELSE Empty]
    /\ upset' = (upset \/ \E q \in Sessions : session[q] \in {"loaded", "saving"})
    /\ UNCHANGED <<clock, index, promised>>

\* A change of the copy, and _save, which begins by truncating the file.
Change(p, list, told) ==
    /\ session[p] = "loaded"
    /\ copy' = [copy EXCEPT ![p] = list]
    /\ index' = [whole |-> FALSE, scans |-> Empty]
    /\ session' = [session EXCEPT ![p] = "saving"]
    /\ promised' = told
    /\ UNCHANGED <<clock, upset>>

\* Faulty variant: a target that is updated starts afresh.
LastScanForgotten(list, t) == Never

\* A target that is on the list keeps its last scan when it is added again.
LastScan(list, t) == IF t \in DOMAIN list THEN list[t] ELSE Never

Add(p, t) ==
    Change(p, With(copy[p], t, LastScan(copy[p], t)),
           IF t \in DOMAIN promised THEN promised ELSE With(promised, t, Never))

Remove(p, t) ==
    /\ t \in DOMAIN copy[p]
    /\ Change(p, Without(copy[p], t), Without(promised, t))

MarkScanned(p, t) ==
    /\ t \in DOMAIN copy[p]
    /\ Change(p, With(copy[p], t, clock), With(promised, t, clock))

\* The file is written.
SaveEnds(p) ==
    /\ session[p] = "saving"
    /\ session' = [session EXCEPT ![p] = "loaded"]
    /\ index' = [whole |-> TRUE, scans |-> copy[p]]
    /\ UNCHANGED <<clock, copy, promised, upset>>

\* clear unlinks the file.
Clear(p) ==
    /\ session[p] = "loaded"
    /\ copy' = [copy EXCEPT ![p] = Empty]
    /\ index' = [whole |-> TRUE, scans |-> Empty]
    /\ promised' = Empty
    /\ UNCHANGED <<clock, session, upset>>

\* The process ends, or dies while it saves.
End(p) ==
    /\ session[p] \in {"loaded", "saving"}
    /\ session' = [session EXCEPT ![p] = "ended"]
    /\ upset' = (upset \/ session[p] = "saving")
    /\ UNCHANGED <<clock, index, copy, promised>>

Tick ==
    /\ clock < MaxTime
    /\ clock' = clock + 1
    /\ UNCHANGED <<index, session, copy, promised, upset>>

Next ==
    \/ \E p \in Sessions :
          \/ Load(p) \/ SaveEnds(p) \/ Clear(p) \/ End(p)
          \/ \E t \in Targets : Add(p, t) \/ Remove(p, t) \/ MarkScanned(p, t)
    \/ Tick

Spec == Init /\ [][Next]_vars

-----------------------------------------------------------------------------
\* get_due_targets
Due(list) == {t \in DOMAIN list : list[t] = Never \/ clock - list[t] >= Interval}

\* The variables hold values of their types.
TypeOK ==
    /\ clock \in Nat
    /\ index.whole \in BOOLEAN
    /\ session \in [Sessions -> {"new", "loaded", "saving", "ended"}]
    /\ \A list \in {index.scans, promised} \cup {copy[p] : p \in Sessions} :
          /\ DOMAIN list \subseteq Targets
          /\ \A t \in DOMAIN list : list[t] \in Nat \cup {Never}

\* The list survives from one session to the next as its callers were told it is, and
\* none of its targets is due before its time or misses it, while sessions follow one
\* another and none dies in a save.
ListSurvivesSessions ==
    ~ upset =>
        /\ \A p \in Sessions : session[p] \in {"loaded", "saving"} =>
               copy[p] = promised /\ Due(copy[p]) = Due(promised)
        /\ (\A p \in Sessions : session[p] # "saving") =>
               index = [whole |-> TRUE, scans |-> promised]

-----------------------------------------------------------------------------
\* What the invariant rests on.

Lists == UNION {[s -> Nat \cup {Never}] : s \in SUBSET Targets}

ListsSound ==
    /\ index \in [whole : BOOLEAN, scans : Lists]
    /\ promised \in Lists
    /\ copy \in [Sessions -> Lists]
    /\ upset \in BOOLEAN

Active(p) == session[p] \in {"loaded", "saving"}

\* Sessions follow one another.
OneAtATime == ~ upset => \A p, q \in Sessions : Active(p) /\ Active(q) => p = q

IInv == TypeOK /\ ListsSound /\ OneAtATime /\ ListSurvivesSessions

=============================================================================
