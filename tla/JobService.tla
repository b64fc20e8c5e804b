----------------------------- MODULE JobService -----------------------------
(***************************************************************************)
(* The asynchronous job service of src/api/app.py: the in-memory job store *)
(* _JOBS, its copy on disk (state/jobs/jobs.json), the asyncio tasks that  *)
(* run scans, and a process that may die at any point and be started again.*)
(*                                                                         *)
(* Everything the handlers and _run_job do between two awaits happens on   *)
(* one event loop, so a handler is one step, except that a crash or a      *)
(* failing disk may come between the change of _JOBS and the os.replace    *)
(* that makes it durable, and between the completion of a scan and the     *)
(* filing of its case run.  "loop" says where inside such a handler the    *)
(* event loop is.                                                          *)
(*                                                                         *)
(* created_at is the wall clock of the machine.  The clock is an           *)
(* environment variable of the model and may be stepped back.              *)
(***************************************************************************)
EXTENDS Integers, FiniteSets

CONSTANTS Jobs,              \* the job ids (uuid4, so never issued twice)
          CaseJobs,          \* the jobs submitted with a case_id
          MaxPersistedJobs,  \* _MAX_PERSISTED_JOBS
          MaxTime,           \* bound on the wall clock
          NoJob              \* "no job", a value outside Jobs

ASSUME JobAssumption ==
    /\ CaseJobs \subseteq Jobs
    /\ MaxPersistedJobs \in Nat \ {0}
    /\ MaxTime \in Nat \ {0}
    /\ NoJob \notin Jobs

VARIABLES store,      \* _JOBS, a function on the ids it holds
          file,       \* the content of jobs.json, likewise
          stale,      \* jobs.json is known to be behind: a save failed, or a
                      \* restart rewrote statuses it has not saved yet
          runner,     \* per id, the asyncio task running _run_job
          loop,       \* where the event loop is inside a handler
          finishing,  \* the job whose case run is still to be filed, or NoJob
          filed,      \* jobs whose run CaseManager.save_run has stored
          clock       \* datetime.now(timezone.utc)

vars == <<store, file, stale, runner, loop, finishing, filed, clock>>

Status   == {"queued", "running", "completed", "failed", "interrupted"}
Terminal == {"completed", "failed", "interrupted"}

\* A record without created_at (and without job_id) sorts before every other:
\* the key is str(item.get("created_at") or "").
NoTime == 0
Time   == 1..MaxTime

Record == [status : Status, created : Time \cup {NoTime}, result : BOOLEAN]

\* A named record is one that carries job_id and created_at.
Named(jobs) == {j \in DOMAIN jobs : jobs[j].created # NoTime}

\* The empty store, and jobs.json when it does not exist.
NoJobs == [j \in {} |-> NoJob]

Put(jobs, j, record) ==
    [k \in DOMAIN jobs \cup {j} |-> IF k = j THEN record ELSE jobs[k]]

-----------------------------------------------------------------------------
\* Eviction and loading: sorting by created_at and slicing.

\* Faulty variant: the cut comes one entry too late.
SurvivorsLate(jobs, new) ==
    {keep \in SUBSET DOMAIN jobs :
        /\ Cardinality(keep) = IF Cardinality(DOMAIN jobs) > MaxPersistedJobs + 1
                               THEN MaxPersistedJobs
                               ELSE Cardinality(DOMAIN jobs)
        /\ \A o \in DOMAIN jobs \ keep, k \in keep :
               jobs[o].created <= jobs[k].created}

\* keep survives when jobs is cut, after sorting oldest first, to at most
\* MaxPersistedJobs entries and new was inserted last: Python's sort is stable,
\* so among equal times new is the last to go.
Survivors(jobs, new) ==
    {keep \in SUBSET DOMAIN jobs :
        LET out == DOMAIN jobs \ keep IN
        /\ Cardinality(keep) = IF Cardinality(DOMAIN jobs) > MaxPersistedJobs
                               THEN MaxPersistedJobs
                               ELSE Cardinality(DOMAIN jobs)
        /\ \A o \in out, k \in keep :
               /\ jobs[o].created <= jobs[k].created
               /\ o = new => jobs[o].created < jobs[k].created}

\* Faulty variants: the status is kept; everything not completed is interrupted.
RestoredAsIs(record) == record
RestoredUnlessCompleted(record) ==
    IF record.status = "completed" THEN record
    ELSE [record EXCEPT !.status = "interrupted"]

\* The status under which a record comes back: no runner survives a restart,
\* so nothing may come back as "running".
Restored(record) ==
    IF record.status = "running"
    THEN [record EXCEPT !.status = "interrupted"]
    ELSE record

\* Faulty variant: one job too few is read back.
NewestButOne(jobs) ==
    {keep \in SUBSET Named(jobs) :
        /\ Cardinality(keep) = IF Cardinality(Named(jobs)) >= MaxPersistedJobs
                               THEN MaxPersistedJobs - 1
                               ELSE Cardinality(Named(jobs))
        /\ \A o \in Named(jobs) \ keep, k \in keep :
               jobs[o].created <= jobs[k].created}

\* The newest MaxPersistedJobs of the named records.
Newest(jobs) ==
    {keep \in SUBSET Named(jobs) :
        /\ Cardinality(keep) = IF Cardinality(Named(jobs)) > MaxPersistedJobs
                               THEN MaxPersistedJobs
                               ELSE Cardinality(Named(jobs))
        /\ \A o \in Named(jobs) \ keep, k \in keep :
               jobs[o].created <= jobs[k].created}

-----------------------------------------------------------------------------
Init ==
    /\ store = NoJobs /\ file = NoJobs
    /\ stale = FALSE
    /\ runner = [j \in Jobs |-> "none"]
    /\ loop = "idle" /\ finishing = NoJob
    /\ filed = {}
    /\ clock = 1

\* job.update(...) on the dict the runner holds.  When the id has been evicted
\* the dict is no longer in _JOBS and the update is visible to nobody.
Revise(j, status, result) ==
    store' = IF j \in DOMAIN store
             THEN [store EXCEPT ![j].status = status, ![j].result = result]
             ELSE store

\* POST /v1/scan and POST /api/scan after the quota and the target check:
\* _create_job inserts and evicts, then the runner is scheduled.
CreateScan(j) ==
    /\ loop = "idle"
    /\ runner[j] = "none"
    /\ LET record == [status |-> "queued", created |-> clock, result |-> FALSE]
           jobs   == Put(store, j, record)
       IN \E keep \in Survivors(jobs, j) : store' = [k \in keep |-> jobs[k]]
    /\ runner' = [runner EXCEPT ![j] = "pending"]
    /\ loop' = "saving"
    /\ UNCHANGED <<file, stale, finishing, filed, clock>>

\* Faulty variant: the task gives up when its record has been evicted.
StartJobIfStored(j) ==
    /\ loop = "idle"
    /\ runner[j] = "pending"
    /\ j \in DOMAIN store
    /\ store' = [store EXCEPT ![j].status = "running"]
    /\ runner' = [runner EXCEPT ![j] = "scanning"]
    /\ loop' = "saving"
    /\ UNCHANGED <<file, stale, finishing, filed, clock>>

\* _run_job up to its await.  A job evicted before its task first ran comes
\* back as a minimal record, without job_id and created_at.
StartJob(j) ==
    /\ loop = "idle"
    /\ runner[j] = "pending"
    /\ IF j \in DOMAIN store
       THEN store' = [store EXCEPT ![j].status = "running"]
       ELSE store' = Put(store, j, [status |-> "running", created |-> NoTime,
                                    result |-> FALSE])
    /\ runner' = [runner EXCEPT ![j] = "scanning"]
    /\ loop' = "saving"
    /\ UNCHANGED <<file, stale, finishing, filed, clock>>

\* Faulty variant: every job goes on to file a case run.
ScanSucceedsFilesAll(j) ==
    /\ loop = "idle"
    /\ runner[j] = "scanning"
    /\ Revise(j, "completed", TRUE)
    /\ loop' = "saving"
    /\ finishing' = j
    /\ UNCHANGED <<file, stale, runner, filed, clock>>

\* The await of engine.scan and the exports after it succeed.
ScanSucceeds(j) ==
    /\ loop = "idle"
    /\ runner[j] = "scanning"
    /\ Revise(j, "completed", TRUE)
    /\ loop' = "saving"
    /\ IF j \in CaseJobs
       THEN finishing' = j /\ UNCHANGED runner
       ELSE runner' = [runner EXCEPT ![j] = "over"] /\ UNCHANGED finishing
    /\ UNCHANGED <<file, stale, filed, clock>>

\* Faulty variant: the failure is not saved.
ScanRaisesUnsaved(j) ==
    /\ loop = "idle"
    /\ runner[j] = "scanning"
    /\ Revise(j, "failed", FALSE)
    /\ runner' = [runner EXCEPT ![j] = "over"]
    /\ UNCHANGED <<file, stale, loop, finishing, filed, clock>>

\* Anything up to the first "completed" raises.
ScanRaises(j) ==
    /\ loop = "idle"
    /\ runner[j] = "scanning"
    /\ Revise(j, "failed", FALSE)
    /\ runner' = [runner EXCEPT ![j] = "over"]
    /\ loop' = "saving"
    /\ UNCHANGED <<file, stale, finishing, filed, clock>>

\* What follows a save in the handler that asked for it.
AfterSave == loop' = IF finishing = NoJob THEN "idle" ELSE "filing"

\* _save_jobs: temporary file written, then os.replace.
SaveJobs ==
    /\ loop = "saving"
    /\ file' = store
    /\ stale' = FALSE
    /\ AfterSave
    /\ UNCHANGED <<store, runner, finishing, filed, clock>>

\* _save_jobs raises inside and swallows it: jobs.json is untouched.
SaveJobsFails ==
    /\ loop = "saving"
    /\ stale' = TRUE
    /\ AfterSave
    /\ UNCHANGED <<store, file, runner, finishing, filed, clock>>

\* The case run is exported and stored; nothing is saved after it.
FileCaseRun ==
    /\ loop = "filing"
    /\ filed' = filed \cup {finishing}
    /\ runner' = [runner EXCEPT ![finishing] = "over"]
    /\ loop' = "idle" /\ finishing' = NoJob
    /\ UNCHANGED <<store, file, stale, clock>>

\* Faulty variant: the error is swallowed and the job stays completed.
FileCaseRunRaisesQuietly ==
    /\ loop = "filing"
    /\ runner' = [runner EXCEPT ![finishing] = "over"]
    /\ loop' = "idle" /\ finishing' = NoJob
    /\ UNCHANGED <<store, file, stale, filed, clock>>

\* The pdf export or save_run raises: a completed job turns into a failed one
\* that keeps its result.
FileCaseRunRaises ==
    /\ loop = "filing"
    /\ Revise(finishing, "failed", TRUE)
    /\ runner' = [runner EXCEPT ![finishing] = "over"]
    /\ loop' = "saving" /\ finishing' = NoJob
    /\ UNCHANGED <<file, stale, filed, clock>>

\* The process dies, wherever the event loop is, and a new one loads the file.
Restart ==
    /\ \E keep \in Newest(file) : store' = [j \in keep |-> Restored(file[j])]
    /\ stale' = TRUE
    /\ runner' = [j \in Jobs |-> IF runner[j] = "none" THEN "none" ELSE "lost"]
    /\ loop' = "idle" /\ finishing' = NoJob
    /\ UNCHANGED <<file, filed, clock>>

\* The environment: time passes, or the clock is stepped back.
Tick     == clock < MaxTime /\ clock' = clock + 1
StepBack == clock > 1 /\ clock' = clock - 1
ClockMoves ==
    /\ Tick \/ StepBack
    /\ UNCHANGED <<store, file, stale, runner, loop, finishing, filed>>

LoopStep == SaveJobs \/ SaveJobsFails \/ FileCaseRun \/ FileCaseRunRaises

RunnerStep(j) == StartJob(j) \/ ScanSucceeds(j) \/ ScanRaises(j)

Next ==
    \/ \E j \in Jobs : CreateScan(j) \/ RunnerStep(j)
    \/ LoopStep
    \/ Restart
    \/ ClockMoves

Spec == Init /\ [][Next]_vars

\* The event loop never stops and engine.scan returns or raises; requests,
\* crashes and the clock are the environment's.
Fairness == WF_vars(LoopStep) /\ \A j \in Jobs : WF_vars(RunnerStep(j))

FairSpec == Spec /\ Fairness

-----------------------------------------------------------------------------
\* The variables hold values of their types; an id the loop is finishing is one
\* that has a case.
TypeOK ==
    /\ DOMAIN store \subseteq Jobs /\ store \in [DOMAIN store -> Record]
    /\ DOMAIN file \subseteq Jobs /\ file \in [DOMAIN file -> Record]
    /\ stale \in BOOLEAN
    /\ runner \in [Jobs -> {"none", "pending", "scanning", "over", "lost"}]
    /\ loop \in {"idle", "saving", "filing"}
    /\ finishing \in CaseJobs \cup {NoJob}
    /\ filed \subseteq CaseJobs
    /\ clock \in Time

\* No ghost runs: a job shown as running has a live task behind it, whatever
\* crashes, failed saves, evictions and reloads came before (_load_jobs turns
\* "running" into "interrupted" because nothing will ever finish it).
RunningHasRunner ==
    \A j \in DOMAIN store :
        store[j].status = "running" => runner[j] = "scanning"

\* The cap holds for everything that can be reloaded: neither the store nor the
\* file ever holds more named records than _MAX_PERSISTED_JOBS, although
\* _run_job inserts records without evicting.
NamedBounded ==
    /\ Cardinality(Named(store)) <= MaxPersistedJobs
    /\ Cardinality(Named(file)) <= MaxPersistedJobs

\* Whenever no save is under way jobs.json equals _JOBS, unless the last save
\* failed or nothing was saved since the restart: no handler forgets to save.
SavedOrStale == loop # "saving" /\ ~stale => file = store

\* A case job whose task ended in this process shows "completed" exactly when its
\* run is in the case, and no crash or failed save ever makes a filed run show as
\* failed.
CaseAgreesWithJob ==
    \A j \in CaseJobs \cap DOMAIN store :
        /\ runner[j] = "over" => (store[j].status = "completed" <=> j \in filed)
        /\ j \in filed => store[j].status # "failed"

\* An outcome that reached the disk is final: crashes, reloads and failed saves
\* never take it back, save that a case job may go from completed to failed.
DurableOutcome ==
    [][\A j \in DOMAIN file \cap DOMAIN file' :
           file[j].status \in Terminal =>
               \/ file'[j].status = file[j].status
               \/ j \in CaseJobs /\ file[j].status = "completed"
                                 /\ file'[j].status = "failed"
                                 /\ file'[j].result]_vars

\* The service keeps the promises of JobLedger: an owner is shown nothing but
\* those statuses in that order, and after any crash exactly what was saved.
Shown == [j \in Jobs |-> IF j \in DOMAIN store THEN store[j].status ELSE "unknown"]

Durable == [j \in Jobs |-> IF j \in Named(file) THEN Restored(file[j]).status
                                               ELSE "unknown"]

Phase == [j \in Jobs |-> CASE runner[j] = "none"     -> "new"
                           [] runner[j] = "pending"  -> "accepted"
                           [] runner[j] = "scanning" -> "started"
                           [] OTHER                  -> "ended"]

Anonymous == DOMAIN store \ Named(store)

Ledger == INSTANCE JobLedger WITH shown <- Shown, durable <- Durable,
                                  phase <- Phase, anonymous <- Anonymous

ImplementsLedger == Ledger!Spec

\* No accepted job's task is under way: what the fairness brings about, as there are
\* only so many jobs, whether or not one was evicted meanwhile.
Ended == \A j \in Jobs : runner[j] \in {"none", "over", "lost"}

-----------------------------------------------------------------------------
\* The strengthening that makes the invariants inductive.

\* What a task's progress says of the status its job has in memory, ...
StoreFollowsRunner ==
    \A j \in DOMAIN store :
        /\ runner[j] # "none"
        /\ runner[j] = "pending" => store[j].status = "queued"
        /\ runner[j] = "scanning" =>
               store[j].status = IF j = finishing THEN "completed" ELSE "running"
        /\ runner[j] = "over" => store[j].status \in {"completed", "failed"}
        /\ runner[j] = "lost" => store[j].status # "running"

\* ... and on disk, which may be behind.
FileFollowsRunner ==
    \A j \in DOMAIN file :
        /\ runner[j] # "none"
        /\ runner[j] = "pending" => file[j].status = "queued"
        /\ runner[j] = "scanning" =>
               \/ file[j].status \in {"queued", "running"}
               \/ j = finishing /\ file[j].status = "completed"

\* What the event loop is finishing, and which jobs have been filed.
LoopInv ==
    /\ loop = "idle" => finishing = NoJob
    /\ loop = "filing" => finishing # NoJob
    /\ finishing # NoJob => runner[finishing] = "scanning"
    /\ \A j \in filed : runner[j] \in {"over", "lost"}

\* A terminal status on disk is the one in memory, or what a failed filing left.
FileBehindStore ==
    \A j \in DOMAIN file \cap DOMAIN store :
        file[j].status \in Terminal =>
            \/ store[j].status = file[j].status
            \/ j \in CaseJobs /\ file[j].status = "completed"
                              /\ store[j].status = "failed" /\ store[j].result

FiledNeverFailedOnDisk ==
    \A j \in filed \cap DOMAIN file : file[j].status # "failed"

IInv ==
    /\ TypeOK
    /\ IsFiniteSet(DOMAIN store) /\ IsFiniteSet(DOMAIN file)
    /\ NamedBounded
    /\ StoreFollowsRunner
    /\ FileFollowsRunner
    /\ LoopInv
    /\ FileBehindStore
    /\ FiledNeverFailedOnDisk
    /\ CaseAgreesWithJob
    /\ SavedOrStale

-----------------------------------------------------------------------------
\* What the module's docstring promises: a restart does not lose results, here
\* of jobs in the store when jobs.json is up to date with it.
RestartKeepsResults ==
    [][Restart /\ ~stale /\ loop = "idle" =>
           \A j \in DOMAIN store :
               store[j].result => j \in DOMAIN store' /\ store'[j].result]_vars

=============================================================================
