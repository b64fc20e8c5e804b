----------------------------- MODULE ChangeAlerts -----------------------------
(***************************************************************************)
(* Change detection and alerts of src/modules/monitoring: a re-scan gives  *)
(* a new snapshot of a watched target, detect_changes compares it with the *)
(* previous one (change_detector.py), and dispatch sends every event to    *)
(* every channel, each of which suppresses what it has tried lately        *)
(* (alerter.py).  A snapshot is a record of the items of the subject, the  *)
(* number of its records of each breach, its risk fields and its scalar    *)
(* attributes.  Events differ in key where _is_duplicate's keys differ.    *)
(***************************************************************************)
EXTENDS Integers, FiniteSets, FiniteSetsExt, TLC

CONSTANTS Snapshots,  \* what scans may find: see TypeOK
          Channels,
          None,       \* a field without a value; before the first scan, no snapshot
          Window,     \* dedup_window_minutes
          MaxTime     \* bound of the clock

AlertAssumption ==
    /\ Window \in Nat /\ MaxTime \in Nat /\ None \notin Snapshots
    /\ \A snap \in Snapshots : \A i \in snap.items : i = <<i[1], i[2]>>

VARIABLES clock,
          previous, current,  \* snapshots
          events,             \* what detect_changes returned for them
          pending,            \* what dispatch has still to send, and where
          recent,             \* _recent_events of each channel: the time of a key
          tried               \* per channel and key, when an event with that key was tried
                              \* last, and its field where the key tells it (not in
                              \* the code)

vars == <<clock, previous, current, events, pending, recent, tried>>

Init ==
    /\ clock = 0
    /\ previous = None /\ current = None
    /\ events = {} /\ pending = {}
    /\ recent = [c \in Channels |-> [k \in {} |-> 0]]
    /\ tried = [c \in Channels |-> [k \in {} |-> 0]]

-----------------------------------------------------------------------------
\* An event: its type, its values, and the field its description names.
Event(type, field, old, new) == [type |-> type, field |-> field, old |-> old, new |-> new]

\* The values of one set field; an item is the pair of its field and its value.
Appeared(items)    == {Event(<<"new", i[1]>>, i[1], None, i[2]) : i \in items}
Disappeared(items) == {Event(<<"source_disappeared">>, i[1], i[2], None) : i \in items}

Names(snap) == {b \in DOMAIN snap.breaches : snap.breaches[b] > 0}
Records(snap) == ToString(MapThenSumSet(LAMBDA b : snap.breaches[b], DOMAIN snap.breaches))

\* Faulty variant: the count is announced only when a breach is new.
BreachChangesOfNames(prev, curr) ==
    {Event(<<"new_breach">>, "breach", None, b) : b \in Names(curr) \ Names(prev)}
    \cup IF Names(curr) = Names(prev) THEN {}
         ELSE {Event(<<"field_change">>, "breach_count", Records(prev), Records(curr))}

\* _compare_breach_changes: new names, and the count when it differs.
BreachChanges(prev, curr) ==
    {Event(<<"new_breach">>, "breach", None, b) : b \in Names(curr) \ Names(prev)}
    \cup IF Records(curr) = Records(prev) THEN {}
         ELSE {Event(<<"field_change">>, "breach_count", Records(prev), Records(curr))}

\* _compare_risk_changes, and _compare_attributes, which skips a lost value.
RiskChanges(prev, curr) ==
    {Event(<<"risk_score_change">>, f, prev.risk[f], curr.risk[f]) :
        f \in {g \in DOMAIN curr.risk : prev.risk[g] # curr.risk[g]}}
AttributeChanges(prev, curr) ==
    {Event(<<"attribute_change">>, f, prev.attributes[f], curr.attributes[f]) :
        f \in {g \in DOMAIN curr.attributes :
                  prev.attributes[g] # curr.attributes[g] /\ curr.attributes[g] # None}}

\* detect_changes; a first scan announces its items only.
Changes(prev, curr) ==
    IF prev = None THEN Appeared(curr.items)
    ELSE UNION {Appeared(curr.items \ prev.items), Disappeared(prev.items \ curr.items),
                BreachChanges(prev, curr), RiskChanges(prev, curr),
                AttributeChanges(prev, curr)}

\* A re-scan of the target: its changes are detected and dispatched to all channels.
Scan(snap) ==
    /\ pending = {}
    /\ previous' = current
    /\ current' = snap
    /\ events' = Changes(current, snap)
    /\ pending' = events' \X Channels
    /\ UNCHANGED <<clock, recent, tried>>

-----------------------------------------------------------------------------
\* Faulty variant: the key is made of the values alone.
KeyOfValues(e) == <<e.new, e.old>>

\* The key of _is_duplicate: the field is not in it.
Key(e) == <<e.type, e.new, e.old>>

\* Faulty variant: what is as old as the window is purged.
KeptWithin(times) == {k \in DOMAIN times : clock - times[k] < Window}

\* The entries that _is_duplicate does not purge.
Kept(times) == {k \in DOMAIN times : clock - times[k] <= Window}

\* Faulty variant: a suppressed event counts as recent again.
AfterDuplicateRefreshed(times, k) == [l \in Kept(times) |-> IF l = k THEN clock ELSE times[l]]

\* A duplicate leaves the time of its key alone.
AfterDuplicate(times, k) == [l \in Kept(times) |-> times[l]]

Suppress(e, c) ==
    /\ <<e, c>> \in pending
    /\ Key(e) \in Kept(recent[c])
    /\ recent' = [recent EXCEPT ![c] = AfterDuplicate(@, Key(e))]
    /\ pending' = pending \ {<<e, c>>}
    /\ UNCHANGED <<clock, previous, current, events, tried>>

\* The types of events whose type or values say what the field is.  Of the others, a
\* change of risk, of an attribute or a disappearance, the key does not tell the field.
FieldTold(type) == type[1] \in {"new", "new_breach", "field_change"}

\* Delivered, or failed and logged: the key was recorded before either way.
Deliver(e, c) ==
    /\ <<e, c>> \in pending
    /\ Key(e) \notin Kept(recent[c])
    /\ recent' = [recent EXCEPT ![c] =
           [k \in Kept(@) \cup {Key(e)} |-> IF k = Key(e) THEN clock ELSE @[k]]]
    /\ tried' = [tried EXCEPT ![c] =
           [k \in DOMAIN @ \cup {Key(e)} |->
               IF k = Key(e)
               THEN [time |-> clock, field |-> IF FieldTold(e.type) THEN e.field ELSE None]
               ELSE @[k]]]
    /\ pending' = pending \ {<<e, c>>}
    /\ UNCHANGED <<clock, previous, current, events>>

Tick ==
    /\ clock < MaxTime
    /\ clock' = clock + 1
    /\ UNCHANGED <<previous, current, events, pending, recent, tried>>

Next ==
    \/ \E snap \in Snapshots : Scan(snap)
    \/ \E e \in events, c \in Channels : Suppress(e, c) \/ Deliver(e, c)
    \/ Tick

Spec == Init /\ [][Next]_vars

-----------------------------------------------------------------------------
\* The variables hold values of their types.
TypeOK ==
    /\ clock \in Nat
    /\ {previous, current} \subseteq Snapshots \cup {None}
    /\ pending \subseteq events \X Channels
    /\ \A c \in Channels : \A k \in DOMAIN recent[c] : recent[c][k] \in 0 .. clock

\* The value of a field once the events of a type are applied to it.
After(type, field, value) ==
    LET told == {e \in events : e.type = type /\ e.field = field} IN
    IF told = {} THEN value ELSE (CHOOSE e \in told : TRUE).new

\* What the events tell leads from the previous snapshot to the current one: who
\* applies them to the one has the items, the risk, the number of breach records and the
\* names of breaches of the other, and its attributes but for those that were lost.
EventsExplainScan ==
    (previous # None) =>
        /\ current.items =
               (previous.items \ {<<e.field, e.old>> : e \in {d \in events : d.type = <<"source_disappeared">>}})
               \cup {<<e.field, e.new>> : e \in {d \in events : d.type = <<"new", d.field>>}}
        /\ \A f \in DOMAIN current.risk :
               current.risk[f] = After(<<"risk_score_change">>, f, previous.risk[f])
        /\ \A f \in DOMAIN current.attributes :
               current.attributes[f] \in
                   {None, After(<<"attribute_change">>, f, previous.attributes[f])}
        /\ Records(current) = After(<<"field_change">>, "breach_count", Records(previous))
        /\ Names(current) \subseteq
               Names(previous) \cup {e.new : e \in {d \in events : d.type = <<"new_breach">>}}

\* A channel does not try to deliver events of one key twice within the window.
NotTwiceInWindow ==
    [][\A c \in Channels : \A k \in DOMAIN tried[c] :
          tried'[c][k] # tried[c][k] => tried'[c][k].time - tried[c][k].time > Window]_vars

\* An event is suppressed only if one of its type and values was tried within the window:
\* the same event, if it tells of an item, a breach or the number of breach records, so
\* that such a change is announced when it happens and again when it recurs, however
\* often it was suppressed meanwhile.  A change of risk or of an attribute, or a
\* disappearance, may be silenced by one of another field, which is announced in its
\* place; _is_duplicate would have it that only "an identical event" can.
SilenceEnds ==
    [][\A e \in events, c \in Channels :
          <<e, c>> \in pending \ pending' =>
              /\ Key(e) \in DOMAIN tried'[c]
              /\ clock - tried'[c][Key(e)].time <= Window
              /\ FieldTold(e.type) => tried'[c][Key(e)].field = e.field]_vars

-----------------------------------------------------------------------------
\* What the properties rest on.

\* The events are those of the snapshots; nothing came before the first.
EventsOfScan ==
    /\ current = None => previous = None
    /\ events = IF current = None THEN {} ELSE Changes(previous, current)

\* The field of an event that FieldTold speaks of, by its type.
FieldOf(type) ==
    CASE type[1] = "new_breach"   -> "breach"
      [] type[1] = "field_change" -> "breach_count"
      [] OTHER                    -> type[2]

\* A channel remembers the tries of the window as they were.
RecentIsTried ==
    /\ DOMAIN recent = Channels /\ DOMAIN tried = Channels
    /\ \A c \in Channels :
          /\ \A k \in DOMAIN recent[c] : k \in DOMAIN tried[c] /\ recent[c][k] = tried[c][k].time
          /\ \A k \in DOMAIN tried[c] :
                /\ tried[c][k].time \in 0..clock
                /\ k \in DOMAIN recent[c] \/ clock - tried[c][k].time > Window
                /\ FieldTold(k[1]) => tried[c][k].field = FieldOf(k[1])

IInv == TypeOK /\ EventsOfScan /\ RecentIsTried

=============================================================================
