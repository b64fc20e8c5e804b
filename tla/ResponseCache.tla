---------------------------- MODULE ResponseCache ----------------------------
(***************************************************************************)
(* Cache of src/core/cache.py: a directory of JSON files with a time of    *)
(* expiry, shared by processes and threads without a lock.  A set writes a *)
(* temporary file and renames it; a get or a prune that has read an        *)
(* expired entry then unlinks whatever has its name.  A step is a system   *)
(* call that others can see; any process may die between two of them.      *)
(***************************************************************************)
EXTENDS Integers, FiniteSets

CONSTANTS Procs,     \* processes and threads
          Keys,
          TTL,       \* default_ttl
          MinAge,    \* how old a temporary file must be to be taken for abandoned (60 s)
          MaxTime    \* bound of the clock

CacheAssumption == TTL \in Nat /\ MinAge \in Nat \ {0} /\ MaxTime \in Nat

VARIABLES clock,
          entry,    \* the entry files: per key that has one, [expires, whole]
          temp,     \* the temporary files: per process that left one, [since, whole]
          op,       \* per process, what it is doing
          started,  \* per process, when its set began
          key,      \* per process, the key it is at
          todo,     \* per process, the keys that its prune has still to see
          renewed,  \* the processes whose key was set since they read it (not in the code)
          hasty,    \* a set failed whose temporary file was not old (not in the code)
          wronged   \* an entry was lost that had not expired (not in the code)

vars == <<clock, entry, temp, op, started, key, todo, renewed, hasty, wronged>>

Ops == {"idle", "writing", "synced", "unlinking", "pruning", "pruneUnlinking", "dead"}

Only(s, f) == [x \in s |-> f[x]]
Without(f, x) == Only(DOMAIN f \ {x}, f)
With(f, x, v) == [y \in DOMAIN f \cup {x} |-> IF y = x THEN v ELSE f[y]]

Expired(k, now) == entry[k].expires < now

Init ==
    /\ clock = 0
    /\ entry = [k \in {} |-> {}] /\ temp = [p \in {} |-> {}]
    /\ op = [p \in Procs |-> "idle"]
    /\ started = [p \in Procs |-> 0]
    /\ key \in [Procs -> Keys]
    /\ todo = [p \in Procs |-> {}]
    /\ renewed = {} /\ hasty = FALSE /\ wronged = FALSE

-----------------------------------------------------------------------------
\* get reads an expired entry.  Any other get leaves the directory as it is.
GetExpired(p, k) ==
    /\ op[p] = "idle"
    /\ k \in DOMAIN entry /\ Expired(k, clock)
    /\ op' = [op EXCEPT ![p] = "unlinking"]
    /\ key' = [key EXCEPT ![p] = k]
    /\ renewed' = renewed \ {p}
    /\ UNCHANGED <<clock, entry, temp, started, todo, hasty, wronged>>

\* An entry file is unlinked, if it is there.
Unlink(p, k) ==
    /\ entry' = Without(entry, k)
    /\ wronged' = (wronged \/ (k \in DOMAIN entry /\ ~ Expired(k, clock) /\ p \notin renewed))

UnlinkExpired(p) ==
    /\ op[p] = "unlinking"
    /\ Unlink(p, key[p])
    /\ op' = [op EXCEPT ![p] = "idle"]
    /\ UNCHANGED <<clock, temp, started, key, todo, renewed, hasty>>

\* set: a temporary file of a new name, and the time of expiry before it is written.
SetStart(p, k) ==
    /\ op[p] = "idle"
    /\ op' = [op EXCEPT ![p] = "writing"]
    /\ key' = [key EXCEPT ![p] = k]
    /\ started' = [started EXCEPT ![p] = clock]
    /\ temp' = With(temp, p, [since |-> clock, whole |-> FALSE])
    /\ UNCHANGED <<clock, entry, todo, renewed, hasty, wronged>>

\* The payload is written and synced, which makes the file a new one; it may be gone.
SetSync(p) ==
    /\ op[p] = "writing"
    /\ op' = [op EXCEPT ![p] = "synced"]
    /\ temp' = IF p \in DOMAIN temp THEN With(temp, p, [since |-> clock, whole |-> TRUE]) ELSE temp
    /\ UNCHANGED <<clock, entry, started, key, todo, renewed, hasty, wronged>>

\* Writing fails: the temporary file is removed, and set raises.
SetFails(p) ==
    /\ op[p] = "writing"
    /\ op' = [op EXCEPT ![p] = "idle"]
    /\ temp' = Without(temp, p)
    /\ UNCHANGED <<clock, entry, started, key, todo, renewed, hasty, wronged>>

\* Faulty variant: the file is renamed before it is synced.
SetReplaceUnsynced(p) ==
    /\ op[p] = "writing"
    /\ op' = [op EXCEPT ![p] = "idle"]
    /\ entry' = With(entry, key[p], [expires |-> started[p] + TTL, whole |-> FALSE])
    /\ temp' = Without(temp, p)
    /\ renewed' = renewed \cup {q \in Procs : key[q] = key[p]}
    /\ UNCHANGED <<clock, started, key, todo, hasty, wronged>>

\* os.replace, which raises when the temporary file was removed.
SetReplace(p) ==
    /\ op[p] = "synced"
    /\ op' = [op EXCEPT ![p] = "idle"]
    /\ IF p \in DOMAIN temp
       THEN /\ entry' = With(entry, key[p], [expires |-> started[p] + TTL,
                                             whole |-> temp[p].whole])
            /\ renewed' = renewed \cup {q \in Procs : key[q] = key[p]}
            /\ UNCHANGED hasty
       ELSE /\ hasty' = (hasty \/ clock - started[p] < MinAge)
            /\ UNCHANGED <<entry, renewed>>
    /\ temp' = Without(temp, p)
    /\ UNCHANGED <<clock, started, key, todo, wronged>>

\* delete, when there is something to delete.
Delete(k) ==
    /\ k \in DOMAIN entry
    /\ entry' = Without(entry, k)
    /\ UNCHANGED <<clock, temp, op, started, key, todo, renewed, hasty, wronged>>

-----------------------------------------------------------------------------
\* prune, which set calls after every fiftieth write, by the clock of its beginning.
PruneStart(p) ==
    /\ op[p] = "idle"
    /\ op' = [op EXCEPT ![p] = "pruning"]
    /\ started' = [started EXCEPT ![p] = clock]
    /\ todo' = [todo EXCEPT ![p] = DOMAIN entry]
    /\ UNCHANGED <<clock, entry, temp, key, renewed, hasty, wronged>>

\* Faulty variant: an entry that is about to expire is dropped as well.
PruneLookAhead(p, k) ==
    /\ op[p] = "pruning" /\ k \in todo[p]
    /\ todo' = [todo EXCEPT ![p] = @ \ {k}]
    /\ IF k \in DOMAIN entry /\ Expired(k, clock + 1)
       THEN /\ op' = [op EXCEPT ![p] = "pruneUnlinking"]
            /\ key' = [key EXCEPT ![p] = k]
            /\ renewed' = renewed \ {p}
       ELSE UNCHANGED <<op, key, renewed>>
    /\ UNCHANGED <<clock, entry, temp, started, hasty, wronged>>

\* An entry of the listing is read: one that has expired, or that is not there any
\* more and so cannot be read, is dropped.
PruneLook(p, k) ==
    /\ op[p] = "pruning" /\ k \in todo[p]
    /\ todo' = [todo EXCEPT ![p] = @ \ {k}]
    /\ IF k \in DOMAIN entry => Expired(k, started[p])
       THEN /\ op' = [op EXCEPT ![p] = "pruneUnlinking"]
            /\ key' = [key EXCEPT ![p] = k]
            /\ renewed' = renewed \ {p}
       ELSE UNCHANGED <<op, key, renewed>>
    /\ UNCHANGED <<clock, entry, temp, started, hasty, wronged>>

PruneUnlink(p) ==
    /\ op[p] = "pruneUnlinking"
    /\ Unlink(p, key[p])
    /\ op' = [op EXCEPT ![p] = "pruning"]
    /\ UNCHANGED <<clock, temp, started, key, todo, renewed, hasty>>

\* Faulty variant: temporary files are removed whatever their age.
PruneTempsOfAnyAge(p) ==
    /\ op[p] = "pruning" /\ todo[p] = {}
    /\ op' = [op EXCEPT ![p] = "idle"]
    /\ temp' = Only({}, temp)
    /\ UNCHANGED <<clock, entry, started, key, todo, renewed, hasty, wronged>>

\* Temporary files that are old enough are taken for abandoned.
PruneTemps(p) ==
    /\ op[p] = "pruning" /\ todo[p] = {}
    /\ op' = [op EXCEPT ![p] = "idle"]
    /\ temp' = Only({q \in DOMAIN temp : clock - temp[q].since < MinAge}, temp)
    /\ UNCHANGED <<clock, entry, started, key, todo, renewed, hasty, wronged>>

\* A process dies and leaves what it has in the directory.
Dies(p) ==
    /\ op[p] # "dead"
    /\ op' = [op EXCEPT ![p] = "dead"]
    /\ UNCHANGED <<clock, entry, temp, started, key, todo, renewed, hasty, wronged>>

Tick ==
    /\ clock < MaxTime
    /\ clock' = clock + 1
    /\ UNCHANGED <<entry, temp, op, started, key, todo, renewed, hasty, wronged>>

Next ==
    \/ \E p \in Procs :
          \/ UnlinkExpired(p) \/ SetSync(p) \/ SetFails(p) \/ SetReplace(p)
          \/ PruneStart(p) \/ PruneUnlink(p) \/ PruneTemps(p) \/ Dies(p)
          \/ \E k \in Keys : GetExpired(p, k) \/ SetStart(p, k) \/ PruneLook(p, k)
    \/ \E k \in Keys : Delete(k)
    \/ Tick

Spec == Init /\ [][Next]_vars

-----------------------------------------------------------------------------
\* The variables hold values of their types.
TypeOK ==
    /\ clock \in Nat
    /\ DOMAIN entry \subseteq Keys
    /\ \A k \in DOMAIN entry : entry[k] \in [expires : Nat, whole : BOOLEAN]
    /\ DOMAIN temp \subseteq Procs
    /\ \A p \in DOMAIN temp : temp[p] \in [since : Nat, whole : BOOLEAN]
    /\ op \in [Procs -> Ops]
    /\ started \in [Procs -> Nat]
    /\ key \in [Procs -> Keys]
    /\ todo \in [Procs -> SUBSET Keys]
    /\ renewed \subseteq Procs
    /\ hasty \in BOOLEAN /\ wronged \in BOOLEAN

\* An entry that a reader can open is whole, also after a process died while it was
\* writing one.
EntriesAreWhole == \A k \in DOMAIN entry : entry[k].whole

\* A set that takes less than the age at which files count as abandoned succeeds,
\* whatever the prunes of other processes remove meanwhile.
QuickSetsSucceed == ~ hasty

\* An entry that has not expired is lost to a get or a prune in one case only: it was
\* put in the place of the one that the other had found expired, or gone.
LossesAreRenewals == ~ wronged

-----------------------------------------------------------------------------
\* What the invariants rest on.

\* A set under way has a temporary file from its beginning, or took too long.
TempsOfSets ==
    \A p \in Procs :
        /\ started[p] <= clock
        /\ op[p] \in {"writing", "synced"} =>
               \/ p \in DOMAIN temp /\ temp[p].since >= started[p]
               \/ clock - started[p] >= MinAge
        /\ op[p] = "synced" /\ p \in DOMAIN temp => temp[p].whole

\* What a process is about to unlink has expired, or is gone, or was set again.
SeenExpired ==
    \A p \in Procs :
        op[p] \in {"unlinking", "pruneUnlinking"} =>
            key[p] \notin DOMAIN entry \/ Expired(key[p], clock) \/ p \in renewed

IInv == TypeOK /\ EntriesAreWhole /\ QuickSetsSucceed /\ LossesAreRenewals
            /\ TempsOfSets /\ SeenExpired

=============================================================================
