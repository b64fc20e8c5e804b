------------------------------ MODULE TosGuard ------------------------------
(***************************************************************************)
(* The terms-of-service guard of src/core/tos_guard.py and the token       *)
(* buckets of src/core/rate_limiter.py it is built on.                     *)
(*                                                                         *)
(* Every source has a RateLimiter of its own, made when the source is      *)
(* first queried.  A limiter reads the WHOLE state file when it is made,   *)
(* answers from that copy ever after, and writes the WHOLE copy back, its  *)
(* possibly old idea of the other sources' buckets included.  Writes are   *)
(* batched: a limiter whose last write is less than FlushInterval ago only *)
(* marks itself dirty.                                                     *)
(*                                                                         *)
(* A token is divided into Cost units such that one unit flows back per    *)
(* tick of the clock.  time.time() is the wall clock and may be stepped    *)
(* back.  "ceiling" is not in the code: it is the bucket each source would *)
(* have on a clock that only advances and in a memory that never forgets.  *)
(***************************************************************************)
EXTENDS Integers

CONSTANTS Sources,        \* the names of the sources
          Cost,           \* units one query takes
          Burst,          \* units a full bucket holds
          FlushInterval,  \* _flush_interval, in ticks
          MaxTime,        \* bound on the clock
          MaxRestarts,    \* bound on how often the process is started again
          MaxSetBacks     \* bound on how often the clock is stepped back

\* What is asked of the constants.
GuardAssumption ==
    /\ Cost \in Nat \ {0}
    /\ Burst \in Nat /\ Burst >= Cost
    /\ FlushInterval \in Nat
    /\ MaxTime \in Nat \ {0}
    /\ MaxRestarts \in Nat /\ MaxSetBacks \in Nat

VARIABLES limiters,   \* _limiters: the sources that have one in this process
          state,      \* per source, _state of its limiter: buckets by source
          dirty,      \* per source, _dirty
          lastFlush,  \* per source, _last_flush
          file,       \* the state file: buckets by source
          clock,      \* time.time()
          ceiling,    \* per source, what is left of its true allowance
          restarts,   \* how often the process died
          setBacks    \* how often the clock was stepped back

vars == <<limiters, state, dirty, lastFlush, file, clock, ceiling, restarts,
          setBacks>>

Time == 1..MaxTime

\* last is last_refill.  A bucket runs into debt when the clock is stepped back.
Bucket == [tokens : Int, last : Time]

AreBuckets(buckets) ==
    /\ DOMAIN buckets \subseteq Sources
    /\ buckets \in [DOMAIN buckets -> Bucket]
    /\ \A s \in DOMAIN buckets : buckets[s].tokens <= Burst

AtMost(limit, n) == IF n < limit THEN n ELSE limit

-----------------------------------------------------------------------------
\* The operations on one bucket.

\* The state of a missing file, and of one that is not JSON: _load goes on
\* with no bucket at all.
Nothing == [s \in {} |-> 0]

Full == [tokens |-> Burst, last |-> clock]

\* _get_bucket
BucketIn(buckets, s) == IF s \in DOMAIN buckets THEN buckets[s] ELSE Full

\* Faulty variants: the tokens never flow back; the clock's distance counts,
\* whichever way it moved.
RefilledNever(bucket) == [bucket EXCEPT !.last = clock]
RefilledByDistance(bucket) ==
    LET away == IF clock < bucket.last THEN bucket.last - clock ELSE clock - bucket.last
    IN [tokens |-> AtMost(Burst, bucket.tokens + away), last |-> clock]

\* _refill
Refilled(bucket) ==
    [tokens |-> AtMost(Burst, bucket.tokens + (clock - bucket.last)),
     last   |-> clock]

\* The copy a query about s is answered from: _get_limiter makes the limiter,
\* and with it a fresh copy of the file, on the first query of the source.
Copy(s) == IF s \in limiters THEN state[s] ELSE file

\* The test of acquire: the refilled bucket of s holds a token.
HasToken(s) == Refilled(BucketIn(Copy(s), s)).tokens >= Cost

\* The copy after acquire, token taken or not.
Acquired(s) ==
    LET full   == Refilled(BucketIn(Copy(s), s))
        bucket == IF HasToken(s) THEN [full EXCEPT !.tokens = @ - Cost] ELSE full
    IN [k \in DOMAIN Copy(s) \cup {s} |-> IF k = s THEN bucket ELSE Copy(s)[k]]

\* _save writes to disk at once when the last write is long enough ago; a
\* limiter that never wrote has _last_flush = 0.0, long ago on any clock.
NeverFlushed == -FlushInterval
FlushDue(s) ==
    clock - (IF s \in limiters THEN lastFlush[s] ELSE NeverFlushed) >= FlushInterval

-----------------------------------------------------------------------------
Init ==
    /\ limiters = {}
    /\ state = [s \in Sources |-> Nothing]
    /\ dirty = [s \in Sources |-> FALSE]
    /\ lastFlush = [s \in Sources |-> NeverFlushed]
    /\ file = Nothing
    /\ clock = 1
    /\ ceiling = [s \in Sources |-> Burst]
    /\ restarts = 0 /\ setBacks = 0

\* Faulty variant: the new limiter is not kept in _limiters.
TakeUnregistered(s) ==
    /\ limiters' = limiters
    /\ state' = [state EXCEPT ![s] = Acquired(s)]
    /\ ceiling' = [ceiling EXCEPT ![s] = IF HasToken(s) THEN @ - Cost ELSE @]

\* What a query does to memory, and what it takes from the true allowance.
Take(s) ==
    /\ limiters' = limiters \cup {s}
    /\ state' = [state EXCEPT ![s] = Acquired(s)]
    /\ ceiling' = [ceiling EXCEPT ![s] = IF HasToken(s) THEN @ - Cost ELSE @]

\* The end of acquire: the copy is written out, or is left dirty.
SaveOrBatch(s) ==
    IF FlushDue(s)
    THEN /\ file' = Acquired(s)
         /\ dirty' = [dirty EXCEPT ![s] = FALSE]
         /\ lastFlush' = [lastFlush EXCEPT ![s] = clock]
    ELSE /\ dirty' = [dirty EXCEPT ![s] = TRUE]
         /\ lastFlush' = IF s \in limiters THEN lastFlush
                         ELSE [lastFlush EXCEPT ![s] = NeverFlushed]
         /\ UNCHANGED file

\* tos_allows(s) returns True ...
Allow(s) ==
    /\ HasToken(s)
    /\ Take(s)
    /\ SaveOrBatch(s)
    /\ UNCHANGED <<clock, restarts, setBacks>>

\* ... or False.
Throttle(s) ==
    /\ ~HasToken(s)
    /\ Take(s)
    /\ SaveOrBatch(s)
    /\ UNCHANGED <<clock, restarts, setBacks>>

\* write_text raises, and tos_allows with it.  It has truncated the file by
\* then, or could not even open it; the token is gone from memory all the same.
FlushFails(s) ==
    /\ FlushDue(s)
    /\ Take(s)
    /\ file' \in {file, Nothing}
    /\ dirty' = [dirty EXCEPT ![s] = TRUE]
    /\ lastFlush' = IF s \in limiters THEN lastFlush
                    ELSE [lastFlush EXCEPT ![s] = NeverFlushed]
    /\ UNCHANGED <<clock, restarts, setBacks>>

\* The process ends and another starts.  Nothing calls close(), so what is dirty
\* is lost even when the process ends in good order.
ForgetLimiters ==
    /\ restarts < MaxRestarts
    /\ restarts' = restarts + 1
    /\ limiters' = {}
    /\ state' = [s \in Sources |-> Nothing]
    /\ dirty' = [s \in Sources |-> FALSE]
    /\ lastFlush' = [s \in Sources |-> NeverFlushed]

Restart ==
    /\ ForgetLimiters
    /\ UNCHANGED <<file, clock, ceiling, setBacks>>

\* The process dies inside write_text: a truncated file is left behind.
CrashInFlush(s) ==
    /\ FlushDue(s)
    /\ ForgetLimiters
    /\ file' = Nothing
    /\ UNCHANGED <<clock, ceiling, setBacks>>

Tick ==
    /\ clock < MaxTime
    /\ clock' = clock + 1
    /\ ceiling' = [s \in Sources |-> AtMost(Burst, ceiling[s] + 1)]
    /\ UNCHANGED <<limiters, state, dirty, lastFlush, file, restarts, setBacks>>

\* The wall clock is corrected to an earlier time.
SetBack ==
    /\ setBacks < MaxSetBacks
    /\ setBacks' = setBacks + 1
    /\ \E t \in Time : t < clock /\ clock' = t
    /\ UNCHANGED <<limiters, state, dirty, lastFlush, file, ceiling, restarts>>

Next ==
    \/ \E s \in Sources : Allow(s) \/ Throttle(s) \/ FlushFails(s) \/ CrashInFlush(s)
    \/ Restart
    \/ Tick
    \/ SetBack

Spec == Init /\ [][Next]_vars

-----------------------------------------------------------------------------
\* The variables hold values of their types, and only a source that has a
\* limiter has a copy of the file or anything left to write.
TypeOK ==
    /\ limiters \subseteq Sources
    /\ state = [s \in Sources |-> state[s]]
    /\ \A s \in Sources : AreBuckets(state[s])
    /\ dirty \in [Sources -> BOOLEAN]
    /\ lastFlush \in [Sources -> Time \cup {NeverFlushed}]
    /\ AreBuckets(file)
    /\ clock \in Time
    /\ ceiling \in [Sources -> Int] /\ \A s \in Sources : ceiling[s] <= Burst
    /\ restarts \in 0..MaxRestarts /\ setBacks \in 0..MaxSetBacks
    /\ \A s \in Sources \ limiters : state[s] = Nothing /\ ~dirty[s]

\* What a source is granted beyond its ceiling is bounded: a process that was
\* never restarted grants nothing beyond it, and every restart, whatever the
\* file holds by then, adds at most one full burst.
ExcessBounded == \A s \in Sources : ceiling[s] >= -(restarts * Burst)

\* The guard errs on one side only: on a clock that only advances, a source is
\* throttled only when its true allowance is used up, so neither the queries of
\* other sources nor their writes to the shared file nor a restart cost it one.
ThrottlesWithReason ==
    [][\A s \in Sources : Throttle(s) /\ setBacks = 0 => ceiling[s] < Cost]_vars

-----------------------------------------------------------------------------
\* What is left in a bucket once it is refilled up to now.
Level(bucket) == Refilled(bucket).tokens

\* On a clock that only advances, every copy of a bucket, in memory or on disk,
\* old or not, is at least as full as the true allowance ...
CopiesGenerous ==
    setBacks = 0 =>
        \A s \in Sources :
            /\ s \in DOMAIN file =>
                   file[s].last <= clock /\ Level(file[s]) >= ceiling[s]
            /\ \A h \in limiters : s \in DOMAIN state[h] =>
                   state[h][s].last <= clock /\ Level(state[h][s]) >= ceiling[s]

\* ... and the copy a source's own limiter answers from exceeds it by no more
\* than a burst for every restart.
OwnCopyBounded ==
    \A s \in Sources :
        IF s \in limiters
        THEN /\ s \in DOMAIN state[s]
             /\ ceiling[s] >= -(restarts * Burst)
             /\ Level(state[s][s]) <= ceiling[s] + restarts * Burst
        ELSE IF restarts = 0 THEN ceiling[s] = Burst
                             ELSE ceiling[s] >= -((restarts - 1) * Burst)

IInv == TypeOK /\ CopiesGenerous /\ OwnCopyBounded

-----------------------------------------------------------------------------
\* The docstring of rate_limiter.py: the limiter is "disk-persisted so limits
\* survive restarts".  No source is ever granted more than its ceiling, when the
\* disk never fails, the clock only advances and the process only stops between
\* two queries.
OrderlyNext ==
    \/ \E s \in Sources : Allow(s) \/ Throttle(s)
    \/ Restart
    \/ Tick

OrderlySpec == Init /\ [][OrderlyNext]_vars

LimitsSurviveRestarts == \A s \in Sources : ceiling[s] >= 0

=============================================================================
