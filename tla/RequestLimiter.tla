---------------------------- MODULE RequestLimiter ----------------------------
(***************************************************************************)
(* RequestLimiter (src/core/rate_limiter.py), the gate of the API for the  *)
(* requests of one client.  Endpoints that are coroutines call allow on    *)
(* the event loop, plain functions (get_scan of src/api/app.py) in threads *)
(* of their own, and nothing locks the bucket: allow is modelled by its    *)
(* reads and writes of _buckets.  A token is Cost units, one unit accrues  *)
(* per tick of time.monotonic.                                             *)
(***************************************************************************)
EXTENDS Integers, FiniteSets

CONSTANTS Callers,      \* the loop and the threads
          Cost, Burst,  \* units of a token, of a full bucket
          NoTime,
          MaxTime,      \* bound of the clock
          MaxOverlaps   \* bound of the calls that begin during another

RequestAssumption ==
    /\ IsFiniteSet(Callers)
    /\ Cost \in Nat \ {0} /\ Burst \in Nat /\ Burst >= Cost
    /\ MaxTime \in Nat /\ MaxOverlaps \in Nat /\ NoTime \notin Nat

VARIABLES clock,
          bucket,     \* _buckets[key]: [tokens, last]
          at,         \* per caller, its now, NoTime when it is in no call
          read,       \* per caller, what it read of the bucket or has written
          pc,         \* per caller, "idle", "now", "read", "refilled"
          granted,    \* units granted so far, calls that began during another, and the
          overlaps,   \* now of the last answer if it was no, else NoTime
          refused     \* (all three not in the code)

vars == <<clock, bucket, at, read, pc, granted, overlaps, refused>>

Bucket == [tokens : Int, last : Nat]

Full == [tokens |-> Burst, last |-> 0]

Init ==
    /\ clock = 0
    /\ bucket = Full
    /\ at = [c \in Callers |-> NoTime]
    /\ read = [c \in Callers |-> Full]
    /\ pc = [c \in Callers |-> "idle"]
    /\ granted = 0 /\ overlaps = 0 /\ refused = NoTime

\* now = time.monotonic()
Begin(c) ==
    /\ pc[c] = "idle"
    /\ pc' = [pc EXCEPT ![c] = "now"]
    /\ at' = [at EXCEPT ![c] = clock]
    /\ IF \A d \in Callers : pc[d] = "idle" THEN UNCHANGED overlaps
       ELSE overlaps < MaxOverlaps /\ overlaps' = overlaps + 1
    /\ UNCHANGED <<clock, bucket, read, granted, refused>>

\* tokens, last = self._buckets.get(key, ...)
Read(c) ==
    /\ pc[c] = "now"
    /\ pc' = [pc EXCEPT ![c] = "read"]
    /\ read' = [read EXCEPT ![c] = bucket]
    /\ UNCHANGED <<clock, bucket, at, granted, overlaps, refused>>

AtMostFull(n) == IF n > Burst THEN Burst ELSE n

\* Faulty variant: the time of the refill is not kept.
RefilledAnew(was, now) ==
    [tokens |-> AtMostFull(was.tokens + now - was.last), last |-> was.last]

\* Faulty variant: the refill is not kept.
RefilledInPart(was, now) ==
    [tokens |-> IF was.tokens + now - was.last >= Burst THEN Burst ELSE was.tokens, last |-> now]

\* Faulty variant: a bucket is never full.
RefilledUncapped(was, now) == [tokens |-> was.tokens + now - was.last, last |-> now]

\* A bucket with what has accrued since its last refill.
Refilled(was, now) == [tokens |-> AtMostFull(was.tokens + now - was.last), last |-> now]

\* self._buckets[key] = (tokens, now)
Refill(c) ==
    /\ pc[c] = "read"
    /\ pc' = [pc EXCEPT ![c] = "refilled"]
    /\ bucket' = Refilled(read[c], at[c])
    /\ read' = [read EXCEPT ![c] = bucket']
    /\ UNCHANGED <<clock, at, granted, overlaps, refused>>

\* allow writes what it computed less a token, whatever the bucket holds by now.
Grant(c) ==
    /\ pc[c] = "refilled"
    /\ read[c].tokens >= Cost
    /\ pc' = [pc EXCEPT ![c] = "idle"]
    /\ bucket' = [tokens |-> read[c].tokens - Cost, last |-> clock]
    /\ granted' = granted + Cost
    /\ refused' = NoTime
    /\ at' = [at EXCEPT ![c] = NoTime]
    /\ read' = [read EXCEPT ![c] = Full]
    /\ UNCHANGED <<clock, overlaps>>

\* The request is answered with 429.
Refuse(c) ==
    /\ pc[c] = "refilled"
    /\ read[c].tokens < Cost
    /\ pc' = [pc EXCEPT ![c] = "idle"]
    /\ refused' = IF refused = NoTime THEN clock ELSE refused
    /\ at' = [at EXCEPT ![c] = NoTime]
    /\ read' = [read EXCEPT ![c] = Full]
    /\ UNCHANGED <<clock, bucket, granted, overlaps>>

Tick ==
    /\ clock < MaxTime
    /\ clock' = clock + 1
    /\ UNCHANGED <<bucket, at, read, pc, granted, overlaps, refused>>

Next ==
    \/ \E c \in Callers : Begin(c) \/ Read(c) \/ Refill(c) \/ Grant(c) \/ Refuse(c)
    \/ Tick

Spec == Init /\ [][Next]_vars

-----------------------------------------------------------------------------
\* The variables hold values of their types.
TypeOK ==
    /\ clock \in 0 .. MaxTime
    /\ bucket \in Bucket /\ read \in [Callers -> Bucket]
    /\ \A b \in {bucket} \cup {read[c] : c \in Callers} : b.tokens <= Burst /\ b.last <= clock
    /\ at \in [Callers -> {NoTime} \cup 0 .. clock]
    /\ pc \in [Callers -> {"idle", "now", "read", "refilled"}]
    /\ granted \in Nat /\ overlaps \in 0 .. MaxOverlaps
    /\ refused \in {NoTime} \cup 0 .. clock

\* A client is granted a burst and what accrues, and beyond that at most a token for
\* every call that began while another was under way: the one that writes last puts back
\* what others have taken, but each of them was paid for by an overlap.
GrantsBounded == granted <= Burst + clock + Cost * overlaps

\* Retry-After holds while no two calls overlap: a client that was refused, and was
\* granted nothing since, is not refused again once a token's time has passed, however
\* often it asks in the meantime.
RetryAfterSuffices ==
    [][\A c \in Callers :
          /\ pc[c] = "refilled" /\ pc'[c] = "idle" /\ granted' = granted
          /\ refused # NoTime /\ overlaps = 0
          => at[c] - refused < Cost]_vars

-----------------------------------------------------------------------------
\* What the invariants rest on.

Under == {c \in Callers : pc[c] # "idle"}

\* A call has taken the time, and after its refill the bucket is as of that time.
CallsTimed ==
    \A c \in Callers : /\ pc[c] # "idle" => at[c] \in 0 .. clock
                       /\ pc[c] = "refilled" => read[c].last = at[c]

\* What a bucket is worth: its tokens less what has accrued up to the time it is as of.
Worth(b) == b.tokens - b.last

NotBeforeStart == \A b \in {bucket} \cup {read[c] : c \in Callers} : Worth(b) >= -clock

\* A bucket with what was granted, and a token for each call that may yet be granted one
\* on top of it, is within the bound.
Covers(b, others) == granted + Worth(b) + Cost * Cardinality(others) <= Burst + Cost * overlaps

CallsPaid ==
    /\ Covers(bucket, {})
    /\ \A c \in Under : Covers(bucket, Under \ {c})
    /\ \A c \in Under : pc[c] # "now" => Covers(read[c], Under \ {c})

\* While no calls overlap, one that is under way knows the bucket.
AloneKnows ==
    overlaps = 0 =>
        /\ \A c, d \in Under : c = d
        /\ \A c \in Under : /\ bucket.last <= at[c]
                            /\ pc[c] # "now" => read[c] = bucket

\* Since it was refused a client has got a token, or all that accrued counts for one.
RefusalCounts ==
    overlaps = 0 /\ refused # NoTime => bucket.tokens >= Cost \/ Worth(bucket) >= -refused

IInv ==
    TypeOK /\ GrantsBounded /\ CallsTimed /\ NotBeforeStart /\ CallsPaid /\ AloneKnows
    /\ RefusalCounts

=============================================================================
