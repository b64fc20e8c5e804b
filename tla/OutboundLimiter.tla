--------------------------- MODULE OutboundLimiter ---------------------------
(***************************************************************************)
(* RateLimiter (src/core/rate_limiter.py) as the gate in front of outbound *)
(* requests: coroutines that await acquire_async on one key of a shared    *)
(* limiter, and threads that call wait.  A caller that finds no token      *)
(* sleeps for as long as its token takes to accrue, and nothing is kept    *)
(* back for it in the meantime.  The tools use a limiter of theirs for one *)
(* kind of callers only; the bounds hold for any mix.  Coroutines run on   *)
(* one event loop and give way at the sleep alone.                         *)
(*                                                                         *)
(* A token is Cost units, one unit accrues per tick.  The code refills     *)
(* when a bucket is looked at, the model on every tick: on a clock that    *)
(* only advances that is the same, see LazyRefill in the proofs.  What the *)
(* state file goes through is the subject of TosGuard.                     *)
(***************************************************************************)
EXTENDS Integers, FiniteSets

CONSTANTS Tasks,      \* callers of acquire_async
          Threads,    \* callers of wait
          Cost,       \* units of a token, which is the ticks it takes to accrue
          Burst       \* units of a full bucket

Callers == Tasks \cup Threads

\* What is asked of the constants.
LimiterAssumption ==
    /\ IsFiniteSet(Callers)
    /\ Tasks \cap Threads = {}
    /\ Cost \in Nat \ {0}
    /\ Burst \in Nat /\ Burst >= Cost

VARIABLES tokens,     \* the units in the bucket, below 0 when it is overdrawn
          asleep,     \* the callers that sleep
          left,       \* per caller, how long it has still to sleep
          unpaid      \* a request went out for no token (not in the code)

vars == <<tokens, asleep, left, unpaid>>

Init ==
    /\ tokens = Burst
    /\ asleep = {}
    /\ left = [c \in Callers |-> 0]
    /\ unpaid = FALSE

-----------------------------------------------------------------------------
\* Faulty variant: a bucket in debt is taken for an empty one.
DeficitOfEmpty == IF tokens < 0 THEN Cost ELSE Cost - tokens

\* How long a token takes to accrue.
Deficit == Cost - tokens

\* A token is there and is taken at once.  The write of the state file may raise
\* then; the token is gone all the same.
TakeNow(c) ==
    /\ c \notin asleep
    /\ tokens >= Cost
    /\ tokens' = tokens - Cost
    /\ UNCHANGED <<asleep, left, unpaid>>

\* Faulty variant: the token is taken before the sleep.
FallAsleepTaking(c) ==
    /\ c \notin asleep
    /\ tokens < Cost
    /\ asleep' = asleep \cup {c}
    /\ left' = [left EXCEPT ![c] = Deficit]
    /\ tokens' = tokens - Cost
    /\ UNCHANGED unpaid

\* No token: sleep.  (If the write of the state file raises, the caller does not get
\* this far, and nothing has changed.)
FallAsleep(c) ==
    /\ c \notin asleep
    /\ tokens < Cost
    /\ asleep' = asleep \cup {c}
    /\ left' = [left EXCEPT ![c] = Deficit]
    /\ UNCHANGED <<tokens, unpaid>>

\* acquire_async goes on: it takes its token, whether or not it is there.
WakeTask(c) ==
    /\ c \in Tasks \cap asleep
    /\ left[c] = 0
    /\ asleep' = asleep \ {c}
    /\ tokens' = tokens - Cost
    /\ UNCHANGED <<left, unpaid>>

\* wait goes on: it takes nothing.
WakeThread(c) ==
    /\ c \in Threads \cap asleep
    /\ left[c] = 0
    /\ asleep' = asleep \ {c}
    /\ unpaid' = TRUE
    /\ UNCHANGED <<tokens, left>>

\* A coroutine is cancelled in its sleep, by the time-out of the module it is part of.
Cancel(c) ==
    /\ c \in Tasks \cap asleep
    /\ asleep' = asleep \ {c}
    /\ left' = [left EXCEPT ![c] = 0]
    /\ UNCHANGED <<tokens, unpaid>>

\* Faulty variant: the bucket is never full.
TickUncapped ==
    /\ tokens' = tokens + 1
    /\ left' = [c \in Callers |-> IF left[c] > 0 THEN left[c] - 1 ELSE 0]
    /\ UNCHANGED <<asleep, unpaid>>

Tick ==
    /\ tokens' = IF tokens < Burst THEN tokens + 1 ELSE Burst
    /\ left' = [c \in Callers |-> IF left[c] > 0 THEN left[c] - 1 ELSE 0]
    /\ UNCHANGED <<asleep, unpaid>>

Next ==
    \/ \E c \in Callers : TakeNow(c) \/ FallAsleep(c) \/ WakeTask(c) \/ WakeThread(c) \/ Cancel(c)
    \/ Tick

Spec == Init /\ [][Next]_vars

-----------------------------------------------------------------------------
\* The variables hold values of their types, and only a caller that sleeps has time
\* left to sleep.
TypeOK ==
    /\ tokens \in Int /\ tokens <= Burst
    /\ asleep \subseteq Callers
    /\ left \in [Callers -> Nat]
    /\ \A c \in Callers \ asleep : left[c] = 0
    /\ unpaid \in BOOLEAN

\* Any number of callers may find the bucket empty and be told the same wait, and
\* each then takes a token: the bucket is overdrawn, but never by more than one token
\* for every caller but one, however late they wake and whoever comes in between.
\* (crypto/tx_tracer.py, domain_recon and deep_scraper.py share a limiter so.)
DebtBounded == tokens >= Cost - Cost * Cardinality(Callers)

\* The debt is not passed on for ever: no caller is made to wait longer than one
\* token for every caller takes to accrue, also when others are cancelled.
WaitBounded == \A c \in Callers : left[c] <= Cost * Cardinality(Callers)

-----------------------------------------------------------------------------
\* What the invariants rest on.

\* The sleepers that are due no later than c, itself among them.
DueBy(c) == {d \in asleep : left[d] <= left[c]}

\* When c is due, there is enough for those due by then to overdraw the bucket by no
\* more than is allowed.
ProvidedFor ==
    \A c \in asleep :
        tokens + left[c] >= Cost * Cardinality(DueBy(c)) + Cost - Cost * Cardinality(Callers)

IInv == TypeOK /\ DebtBounded /\ WaitBounded /\ ProvidedFor

-----------------------------------------------------------------------------
\* The docstring of wait: "Acquire tokens, sleeping if necessary".
RequestsArePaid == ~unpaid

=============================================================================
