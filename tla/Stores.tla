-------------------------------- MODULE Stores --------------------------------
(* What the program keeps, in files, in SQLite and in memory, between scans: *)
(* the scans of the database, the cache of responses, the audit trail and    *)
(* its purges, the runs of a case, the watchlist, the alerts, what the web   *)
(* pages keep of the scan files, and the token buckets, both those that the  *)
(* guard keeps in a file and those of the limiters.  They have no state in   *)
(* common, so a behaviour is one of one of them, chosen by part: running     *)
(* them side by side would multiply the states and add none.                 *)
EXTENDS ScanStore

CONSTANTS None, Never, Cut,
          Procs, Keys, TTL, MinAge, CacheTime,         \* ResponseCache
          Entries, Purgers, Retention, MaxDay,         \* AuditTrail
          Runs, Files, CaseTime,                       \* CaseRuns
          Sessions, Targets, Interval, WatchTime,      \* Watchlist
          Snapshots, Channels, Window, AlertTime,      \* ChangeAlerts
          ScanFiles, Ttl,                              \* WebScans
          Sources, QueryCost, Allowance, FlushInterval,
              GuardTime, MaxRestarts, MaxSetBacks,     \* TosGuard
          Awaiting, Waiting, Cost, Burst,              \* OutboundLimiter
          Handlers, TokenCost, BucketSize, NoTime,
              LimitTime, MaxOverlaps                   \* RequestLimiter

VARIABLES part,
          clock, entry, temp, op, started, key, todo, renewed, hasty,
              wronged,                                                   \* ResponseCache
          day, stamp, log, kept, recorded, raced,                        \* AuditTrail
          second, dir, at, writing, over, content, latest,               \* CaseRuns
          hour, index, session, copy, promised, upset,                   \* Watchlist
          minute, previous, current, events, pending, recent, tried,     \* ChangeAlerts
          file, settled, loaded, loadedAge, made, madeAge, shown,        \* WebScans
          limiters, state, dirty, lastFlush, stateFile, wallClock, ceiling,
              restarts, setBacks,                                        \* TosGuard
          tokens, asleep, left, unpaid,                                  \* OutboundLimiter
          monotonic, bucket, called, read, pc, granted, overlaps,
              refused                                                    \* RequestLimiter

Cache == INSTANCE ResponseCache WITH MaxTime <- CacheTime

Audit == INSTANCE AuditTrail

Case == INSTANCE CaseRuns WITH MaxTime <- CaseTime, clock <- second

Watch == INSTANCE Watchlist WITH MaxTime <- WatchTime, clock <- hour

Alerts == INSTANCE ChangeAlerts WITH MaxTime <- AlertTime, clock <- minute

Web == INSTANCE WebScans WITH Scans <- ScanFiles, Half <- Cut, Nothing <- None

Guard == INSTANCE TosGuard WITH Cost <- QueryCost, Burst <- Allowance, MaxTime <- GuardTime,
                                file <- stateFile, clock <- wallClock

Outbound == INSTANCE OutboundLimiter WITH Tasks <- Awaiting, Threads <- Waiting

Inbound == INSTANCE RequestLimiter WITH Callers <- Handlers, Cost <- TokenCost,
                                        Burst <- BucketSize, MaxTime <- LimitTime,
                                        clock <- monotonic, at <- called

StoresAssumption ==
    /\ StoreAssumption /\ Cache!CacheAssumption /\ Audit!AuditAssumption
    /\ Case!CaseAssumption /\ Watch!WatchlistAssumption /\ Alerts!AlertAssumption
    /\ Web!WebAssumption /\ Guard!GuardAssumption
    /\ Outbound!LimiterAssumption /\ Inbound!RequestAssumption

-----------------------------------------------------------------------------
cacheVars == <<clock, entry, temp, op, started, key, todo, renewed, hasty, wronged>>
auditVars == <<day, stamp, log, kept, recorded, raced>>
caseVars  == <<second, dir, at, writing, over, content, latest>>
watchVars == <<hour, index, session, copy, promised, upset>>
alertVars == <<minute, previous, current, events, pending, recent, tried>>
webVars   == <<file, settled, loaded, loadedAge, made, madeAge, shown>>
guardVars == <<limiters, state, dirty, lastFlush, stateFile, wallClock, ceiling, restarts,
               setBacks>>
outboundVars == <<tokens, asleep, left, unpaid>>
inboundVars  == <<monotonic, bucket, called, read, pc, granted, overlaps, refused>>
allVars   == <<part, cacheVars, auditVars, caseVars, vars, watchVars, alertVars, webVars,
               guardVars, outboundVars, inboundVars>>

AllInit ==
    /\ part \in {"cache", "audit", "case", "store", "watch", "alerts", "web", "guard",
               "outbound", "inbound"}
    /\ Cache!Init /\ Audit!Init /\ Case!Init /\ Init /\ Watch!Init /\ Alerts!Init
    /\ Web!Init /\ Guard!Init /\ Outbound!Init /\ Inbound!Init

OnlyCache ==
    /\ part = "cache"
    /\ UNCHANGED <<part, auditVars, caseVars, vars, watchVars, alertVars,
                   webVars, guardVars, outboundVars, inboundVars>>
OnlyAudit ==
    /\ part = "audit"
    /\ UNCHANGED <<part, cacheVars, caseVars, vars, watchVars, alertVars,
                   webVars, guardVars, outboundVars, inboundVars>>
OnlyCase ==
    /\ part = "case"
    /\ UNCHANGED <<part, cacheVars, auditVars, vars, watchVars, alertVars,
                   webVars, guardVars, outboundVars, inboundVars>>
OnlyStore ==
    /\ part = "store"
    /\ UNCHANGED <<part, cacheVars, auditVars, caseVars, watchVars, alertVars,
                   webVars, guardVars, outboundVars, inboundVars>>
OnlyWatch ==
    /\ part = "watch"
    /\ UNCHANGED <<part, cacheVars, auditVars, caseVars, vars, alertVars,
                   webVars, guardVars, outboundVars, inboundVars>>
OnlyAlerts ==
    /\ part = "alerts"
    /\ UNCHANGED <<part, cacheVars, auditVars, caseVars, vars, watchVars,
                   webVars, guardVars, outboundVars, inboundVars>>
OnlyWeb ==
    /\ part = "web"
    /\ UNCHANGED <<part, cacheVars, auditVars, caseVars, vars, watchVars,
                   alertVars, guardVars, outboundVars, inboundVars>>
OnlyGuard ==
    /\ part = "guard"
    /\ UNCHANGED <<part, cacheVars, auditVars, caseVars, vars, watchVars,
                   alertVars, webVars, outboundVars, inboundVars>>
OnlyOutbound ==
    /\ part = "outbound"
    /\ UNCHANGED <<part, cacheVars, auditVars, caseVars, vars, watchVars,
                   alertVars, webVars, guardVars, inboundVars>>
OnlyInbound ==
    /\ part = "inbound"
    /\ UNCHANGED <<part, cacheVars, auditVars, caseVars, vars, watchVars,
                   alertVars, webVars, guardVars, outboundVars>>

AllNext ==
    \/ OnlyCache /\ Cache!Next
    \/ OnlyAudit /\ Audit!Next
    \/ OnlyCase /\ Case!Next
    \/ OnlyStore /\ Next
    \/ OnlyWatch /\ Watch!Next
    \/ OnlyAlerts /\ Alerts!Next
    \/ OnlyWeb /\ Web!Next
    \/ OnlyGuard /\ Guard!Next
    \/ OnlyOutbound /\ Outbound!Next
    \/ OnlyInbound /\ Inbound!Next

AllSpec == AllInit /\ [][AllNext]_allVars

-----------------------------------------------------------------------------
\* core/cache.py: an entry that can be read is whole, also after a death in a set; a set
\* that is quick succeeds, whatever the prunes of other processes remove; and a get or a
\* prune takes no entry that has not expired, but one put in the place of an expired one.
CacheHolds ==
    Cache!TypeOK /\ Cache!EntriesAreWhole /\ Cache!QuickSetsSucceed /\ Cache!LossesAreRenewals

\* core/compliance.py: what was recorded is in the trail until its retention is over,
\* however purges fail, overlap or are cut short, but for an entry appended during one;
\* and a torn write spoils one further entry.
TrailHolds == Audit!TypeOK /\ Audit!RecordedUntilExpired /\ Audit!TornSpoilsOne

\* case_manager.py: the run that latest names is whole and of one scan, however the runs
\* of a case overlap and fail, unless two fell in one second.
LatestIsWhole == Case!TypeOK /\ Case!LatestIsWhole

\* watchlist.py: the list survives from one session to the next as its callers were told
\* it is, while sessions follow one another and none dies in a save.
ListSurvivesSessions == Watch!TypeOK /\ Watch!ListSurvivesSessions

\* change_detector.py and alerter.py: who applies the events of a scan to the snapshot
\* before has the current one, but for attributes lost; a channel tries to deliver
\* no event twice within the window, and suppresses none but for one of its type and
\* values tried within it, which is the same event unless it tells of a risk, an
\* attribute or a disappearance.
AlertsHold ==
    [](Alerts!TypeOK /\ Alerts!EventsExplainScan) /\ Alerts!NotTwiceInWindow /\ Alerts!SilenceEnds

\* The web pages: what a page shows is what the file of the scan holds, once it has held
\* it for as long as the caches live, also when it was read half written in between.
ChangesAreSeen == Web!TypeOK /\ Web!ChangesAreSeen

\* tos_guard.py: a source is granted beyond its true allowance at most a burst for every
\* restart, whatever old copies overwrite the state file and however the clock is set back.
ExcessBounded == Guard!TypeOK /\ Guard!ExcessBounded

\* tos_guard.py: on a clock that only advances, a source is throttled only when its true
\* allowance is used up.
ThrottlesWithReason == Guard!ThrottlesWithReason

\* rate_limiter.py: however callers interleave at the sleep, the bucket is overdrawn by at
\* most one token for every caller but one.
DebtBounded == Outbound!TypeOK /\ Outbound!DebtBounded

\* rate_limiter.py: no caller is made to wait longer than one token for every caller takes
\* to accrue.
WaitBounded == Outbound!WaitBounded

\* rate_limiter.py: under calls of the loop and of a thread a client is granted a burst,
\* what accrues, and at most a token for every call that overlaps another; and while none
\* do, one that was refused is not refused again once a token's time has passed, however
\* often it asks meanwhile.
InboundHolds == [](Inbound!TypeOK /\ Inbound!GrantsBounded) /\ Inbound!RetryAfterSuffices
=============================================================================
