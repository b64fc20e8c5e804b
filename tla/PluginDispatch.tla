---------------------------- MODULE PluginDispatch ----------------------------
(***************************************************************************)
(* HookDispatcher.dispatch and dispatch_ordered of src/plugin/hooks.py on  *)
(* a PluginRegistry (src/plugin/registry.py) whose discovery meets names   *)
(* twice: a hook is called on every plugin that lists it, and a plugin     *)
(* that raises is passed over.                                             *)
(***************************************************************************)
EXTENDS Integers, Sequences, Subsequences

CONSTANTS Plugins,   \* plugin instances
          Names,     \* their names
          NameOf,    \* the name of each
          Hooked     \* the instances whose class lists the hook

PluginAssumption == NameOf \in [Plugins -> Names] /\ Hooked \subseteq Plugins

VARIABLES registry,   \* _plugins, in order of registration
          mode,       \* "discover", "dispatch", "ordered", "returned", "cancelled"
          calls,      \* the plugins of get_hooks, in that order
          running,    \* those whose hook is running
          over,       \* those whose hook has ended
          results     \* the plugins whose results are returned, in that order

vars == <<registry, mode, calls, running, over, results>>

Elems(s) == {s[i] : i \in DOMAIN s}

Init ==
    /\ registry = << >> /\ mode = "discover"
    /\ calls = << >> /\ running = {} /\ over = {} /\ results = << >>

\* register: the first instance of a name stays; discover swallows the ValueError of
\* every later one.
Register(p) ==
    /\ mode = "discover"
    /\ \A q \in Elems(registry) : NameOf[q] # NameOf[p]
    /\ registry' = Append(registry, p)
    /\ UNCHANGED <<mode, calls, running, over, results>>

\* get_hooks, as a set of one sequence
Listeners == Selections(registry, {i \in DOMAIN registry : registry[i] \in Hooked})

\* dispatch starts the hook on all plugins at once.
Dispatch ==
    /\ mode = "discover"
    /\ calls' \in Listeners
    /\ running' = Elems(calls')
    /\ mode' = "dispatch"
    /\ UNCHANGED <<registry, over, results>>

\* dispatch_ordered awaits one after the other.
DispatchOrdered ==
    /\ mode = "discover"
    /\ calls' \in Listeners
    /\ mode' = "ordered"
    /\ UNCHANGED <<registry, running, over, results>>

CallNext ==
    /\ mode = "ordered" /\ running = {}
    /\ \E i \in DOMAIN calls :
          /\ Elems(SubSeq(calls, 1, i - 1)) = over
          /\ running' = {calls[i]}
    /\ UNCHANGED <<registry, mode, calls, over, results>>

HookReturns(p) ==
    /\ p \in running
    /\ running' = running \ {p}
    /\ over' = over \cup {p}
    /\ results' = IF mode = "cancelled" THEN results ELSE Append(results, p)
    /\ UNCHANGED <<registry, mode, calls>>

\* Faulty variant: the first exception ends the dispatch.
HookRaisesThrough(p) ==
    /\ p \in running
    /\ running' = running \ {p}
    /\ over' = over \cup {p}
    /\ mode' = "returned"
    /\ UNCHANGED <<registry, calls, results>>

\* Faulty variant: it is never counted as over.
HookRaisesUncounted(p) ==
    /\ p \in running
    /\ running' = running \ {p}
    /\ UNCHANGED <<registry, mode, calls, over, results>>

HookRaises(p) ==
    /\ p \in running
    /\ running' = running \ {p}
    /\ over' = over \cup {p}
    /\ UNCHANGED <<registry, mode, calls, results>>

\* CancelledError is no Exception: one that comes out of a plugin comes out of the
\* dispatch, and the hooks still running are left to themselves.
HookCancels(p) ==
    /\ p \in running
    /\ running' = running \ {p}
    /\ over' = over \cup {p}
    /\ mode' = "cancelled"
    /\ UNCHANGED <<registry, calls, results>>

Return ==
    /\ mode \in {"dispatch", "ordered"}
    /\ running = {} /\ over = Elems(calls)
    /\ mode' = "returned"
    /\ UNCHANGED <<registry, calls, running, over, results>>

Step ==
    \/ CallNext \/ Return
    \/ \E p \in running : HookReturns(p) \/ HookRaises(p) \/ HookCancels(p)

Next == (\E p \in Plugins : Register(p)) \/ Dispatch \/ DispatchOrdered \/ Step

Spec == Init /\ [][Next]_vars

\* Every hook ends.
FairSpec == Spec /\ WF_vars(Step)

-----------------------------------------------------------------------------
\* The variables hold values of their types.
TypeOK ==
    /\ Elems(registry) \subseteq Plugins
    /\ mode \in {"discover", "dispatch", "ordered", "returned", "cancelled"}
    /\ Elems(calls) \subseteq Elems(registry)
    /\ running \cap over = {} /\ running \cup over \subseteq Elems(calls)
    /\ Elems(results) \subseteq over

\* When a dispatch returns, every plugin that lists the hook was called to its end,
\* whichever of the others raised, and none of a name twice.
EveryListenerHeard ==
    mode = "returned" =>
        /\ over = Hooked \cap Elems(registry)
        /\ running = {}
        /\ \A p, q \in over : NameOf[p] = NameOf[q] => p = q

\* No dispatch is under way: what the fairness brings about, by a return or by a
\* cancellation.
Ended == mode \notin {"dispatch", "ordered"}

-----------------------------------------------------------------------------
\* What the invariants rest on.

\* No two plugins of one name are registered, and so none is called twice.
NamesDiffer ==
    /\ registry \in Seq(Plugins)
    /\ \A i, j \in DOMAIN registry : NameOf[registry[i]] = NameOf[registry[j]] => i = j
    /\ calls \in Seq(Plugins)
    /\ \A i, j \in DOMAIN calls : calls[i] = calls[j] => i = j

\* A dispatch is of all that list the hook.
CallsAreListeners ==
    /\ mode = "discover" => calls = << >>
    /\ mode # "discover" => Elems(calls) = Hooked \cap Elems(registry)
    /\ mode = "returned" => running = {} /\ over = Elems(calls)

IInv == TypeOK /\ NamesDiffer /\ CallsAreListeners

=============================================================================
