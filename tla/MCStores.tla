------------------------------- MODULE MCStores -------------------------------
(* Stores with a cache under two processes, a trail of three entries under   *)
(* two purges, three runs of a case, a watchlist of two sessions, a channel  *)
(* for alerts, three saves of two scans, two versions of a scan file, two    *)
(* sources behind the guard, two coroutines and a thread that share an       *)
(* outbound bucket of two tokens and a half, and the loop and a thread that  *)
(* admit the requests of one client, with room for a token and a half.       *)
EXTENDS Stores, Sequences, TLC

CONSTANTS src1, src2, co1, co2, th1

\* Sources are interchangeable.
MCSources  == {src1, src2}
MCAwaiting == {co1, co2}
MCWaiting  == {th1}
MCHandlers == {"loop", "thread"}

Symmetry == Permutations(MCSources)

\* Two coroutines save one scan, a third another that has a finding of the same id.
MCTasks      == {"t1", "t2", "t3"}
MCScans      == {"s1", "s2"}
MCScanOf     == [t \in MCTasks |-> IF t = "t3" THEN "s2" ELSE "s1"]
MCIds        == {"f", "g"}
MCFindingsOf == [s \in MCScans |-> IF s = "s1" THEN {"f", "g"} ELSE {"g"}]
MCBreachesOf == [s \in MCScans |-> 1]

MCRetention == [e \in Entries |-> 1]

Snap(items, x, y, level, city) ==
    [items |-> items, breaches |-> [b \in {"x", "y"} |-> IF b = "x" THEN x ELSE y],
     risk |-> [f \in {"level", "criticality"} |-> level], attributes |-> [f \in {"city"} |-> city]]

\* One value is an email here and a handle there, the two risk fields change alike, a
\* breach is recorded twice, and an attribute comes and goes.
MCSnapshots == {Snap({<<"email", "jo">>}, 1, 0, None, None),
                Snap({<<"handle", "jo">>}, 2, 0, None, "B"),
                Snap({<<"handle", "jo">>}, 1, 0, "high", None)}

ASSUME StoresAssumption

\* A selection of the places where a test holds is what SelectSeq makes of the sequence.
ASSUME
    \A s \in UNION {[1..n -> {0, 1, 2}] : n \in 0..3} :
        Audit!Selections(s, {i \in DOMAIN s : s[i] > 0}) = {SelectSeq(s, LAMBDA x : x > 0)}
=============================================================================
