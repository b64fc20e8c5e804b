-------------------------- MODULE JobServiceProofs --------------------------
(***************************************************************************)
(* Proofs about JobService: its invariants, the finality of durable        *)
(* outcomes, and that it implements JobLedger, for any number of jobs, any *)
(* cap and any clock.                                                      *)
(***************************************************************************)
EXTENDS JobService, FiniteSetTheorems, TLAPS

USE JobAssumption

-----------------------------------------------------------------------------
\* The operators on job stores.

\* An eviction leaves a subset that fits the cap.
LEMMA SurvivorsFit ==
    ASSUME NEW jobs, IsFiniteSet(DOMAIN jobs), NEW new,
           NEW keep \in Survivors(jobs, new)
    PROVE  /\ keep \subseteq DOMAIN jobs
           /\ IsFiniteSet(keep)
           /\ Cardinality(keep) <= MaxPersistedJobs
<1>1. keep \subseteq DOMAIN jobs
  BY DEF Survivors
<1>2. IsFiniteSet(keep)
  BY <1>1, FS_Subset
<1>3. Cardinality(DOMAIN jobs) \in Nat
  BY FS_CardinalityType
<1>4. Cardinality(keep) <= MaxPersistedJobs
  BY <1>3 DEF Survivors
<1> QED
  BY <1>1, <1>2, <1>4

\* A file within the cap is read back whole.
LEMMA NewestIsAll ==
    ASSUME NEW jobs, IsFiniteSet(DOMAIN jobs),
           Cardinality(Named(jobs)) <= MaxPersistedJobs,
           NEW keep \in Newest(jobs)
    PROVE  keep = Named(jobs)
<1>1. IsFiniteSet(Named(jobs))
  BY FS_Subset DEF Named
<1>2. Cardinality(Named(jobs)) \in Nat
  BY <1>1, FS_CardinalityType
<1>3. keep \subseteq Named(jobs) /\ Cardinality(Named(jobs)) = Cardinality(keep)
  BY <1>2 DEF Newest
<1> QED
  BY <1>1, <1>3, FS_Subset

-----------------------------------------------------------------------------
\* Type correctness.

LEMMA InitTypeOK == Init => TypeOK
<1> SUFFICES ASSUME Init PROVE TypeOK
  OBVIOUS
<1>1. DOMAIN NoJobs = {} /\ NoJobs \in [{} -> Record]
  BY DEF NoJobs
<1>2. runner \in [Jobs -> {"none", "pending", "scanning", "over", "lost"}]
  BY DEF Init
<1>3. store = NoJobs /\ file = NoJobs
  BY DEF Init
<1>4. /\ DOMAIN store \subseteq Jobs /\ store \in [DOMAIN store -> Record]
      /\ DOMAIN file \subseteq Jobs /\ file \in [DOMAIN file -> Record]
  BY <1>1, <1>3, Zenon
<1>5. clock \in Time
  BY DEF Init, Time
<1> QED
  BY <1>2, <1>4, <1>5 DEF Init, TypeOK

\* A revision keeps ids, times and types, and sets one status.
LEMMA Revising ==
    ASSUME TypeOK, NEW j \in Jobs, NEW status \in Status, NEW result \in BOOLEAN,
           Revise(j, status, result)
    PROVE  /\ DOMAIN store' = DOMAIN store
           /\ store' \in [DOMAIN store -> Record]
           /\ \A k \in DOMAIN store : store'[k].created = store[k].created
           /\ \A k \in DOMAIN store : k # j => store'[k] = store[k]
           /\ j \in DOMAIN store => /\ store'[j].status = status
                                    /\ store'[j].result = result
  BY DEF TypeOK, Revise, Record

\* So does the start of a stored job.
LEMMA Starting ==
    ASSUME TypeOK, NEW j \in Jobs, StartJob(j)
    PROVE  /\ DOMAIN store' = DOMAIN store \cup {j}
           /\ store' \in [DOMAIN store' -> Record]
           /\ \A k \in DOMAIN store : store'[k].created = store[k].created
           /\ \A k \in DOMAIN store : k # j => store'[k] = store[k]
           /\ store'[j].status = "running"
           /\ j \notin DOMAIN store => store'[j].created = NoTime
<1>1. CASE j \in DOMAIN store
  <2>1. store' = [store EXCEPT ![j].status = "running"]
    BY <1>1 DEF StartJob
  <2>2. DOMAIN store' = DOMAIN store
    BY <2>1
  <2>3. /\ store'[j] = [store[j] EXCEPT !.status = "running"]
        /\ \A k \in DOMAIN store : k # j => store'[k] = store[k]
    BY <1>1, <2>1 DEF TypeOK
  <2>4. /\ store'[j] \in Record
        /\ store'[j].status = "running"
        /\ store'[j].created = store[j].created
    BY <1>1, <2>3 DEF TypeOK, Record, Status
  <2>5. store' \in [DOMAIN store -> Record]
    BY <1>1, <2>1, <2>4 DEF TypeOK
  <2> QED
    BY <1>1, <2>2, <2>3, <2>4, <2>5
<1>2. CASE j \notin DOMAIN store
  <2> DEFINE record == [status |-> "running", created |-> NoTime, result |-> FALSE]
  <2>1. record \in Record
    BY DEF Record, Status
  <2>2. store' = [k \in DOMAIN store \cup {j} |-> IF k = j THEN record ELSE store[k]]
    BY <1>2 DEF StartJob, Put
  <2>3. store'[j] = record
    BY <2>2
  <2> QED
    BY <1>2, <2>1, <2>2, <2>3 DEF TypeOK
<1> QED
  BY <1>1, <1>2

\* A creation stores its job, if at all, as queued, and keeps or drops others.
LEMMA Creating ==
    ASSUME TypeOK, IsFiniteSet(DOMAIN store), NEW j \in Jobs, CreateScan(j)
    PROVE  /\ DOMAIN store' \subseteq DOMAIN store \cup {j}
           /\ store' \in [DOMAIN store' -> Record]
           /\ IsFiniteSet(DOMAIN store')
           /\ Cardinality(DOMAIN store') <= MaxPersistedJobs
           /\ \A k \in DOMAIN store' : k # j => store'[k] = store[k]
           /\ j \in DOMAIN store' => /\ store'[j].status = "queued"
                                     /\ store'[j].created # NoTime
<1> DEFINE record == [status |-> "queued", created |-> clock, result |-> FALSE]
           jobs   == Put(store, j, record)
<1>1. PICK keep \in Survivors(jobs, j) : store' = [k \in keep |-> jobs[k]]
  BY DEF CreateScan
<1>2. DOMAIN jobs = DOMAIN store \cup {j}
  BY DEF Put
<1>3. IsFiniteSet(DOMAIN jobs)
  BY <1>2, FS_AddElement
<1>4. /\ keep \subseteq DOMAIN jobs
      /\ IsFiniteSet(keep)
      /\ Cardinality(keep) <= MaxPersistedJobs
  BY <1>3, SurvivorsFit
<1>5. record \in Record /\ record.created # NoTime
  BY DEF TypeOK, Record, Status, Time, NoTime
<1>6. \A k \in DOMAIN jobs : jobs[k] = IF k = j THEN record ELSE store[k]
  BY DEF Put
<1>7. \A k \in DOMAIN jobs : jobs[k] \in Record
  BY <1>2, <1>5, <1>6 DEF TypeOK
<1>8. DOMAIN store' = keep
  BY <1>1
<1>9. \A k \in keep : store'[k] = jobs[k]
  BY <1>1
<1> HIDE DEF jobs
<1>10. store' \in [keep -> Record]
  BY <1>1, <1>4, <1>7
<1>11. j \in keep => store'[j].status = "queued" /\ store'[j].created # NoTime
  BY <1>4, <1>5, <1>6, <1>9
<1>12. \A k \in keep : k # j => store'[k] = store[k]
  BY <1>4, <1>6, <1>9
<1> QED
  BY <1>2, <1>4, <1>8, <1>10, <1>11, <1>12

\* A restart keeps every named record, with its time and result.
LEMMA Restarting ==
    ASSUME TypeOK, IsFiniteSet(DOMAIN file), NamedBounded, Restart
    PROVE  /\ DOMAIN store' = Named(file)
           /\ \A k \in DOMAIN store' : store'[k] = Restored(file[k])
           /\ store' \in [DOMAIN store' -> Record]
           /\ \A k \in DOMAIN store' : /\ store'[k].created = file[k].created
                                       /\ store'[k].result = file[k].result
<1>1. PICK keep \in Newest(file) : store' = [k \in keep |-> Restored(file[k])]
  BY DEF Restart
<1>2. keep = Named(file)
  BY NewestIsAll DEF NamedBounded
<1>3. \A k \in Named(file) : /\ Restored(file[k]) \in Record
                             /\ Restored(file[k]).created = file[k].created
                             /\ Restored(file[k]).result = file[k].result
  BY DEF Named, TypeOK, Restored, Record, Status
<1> QED
  BY <1>1, <1>2, <1>3

\* Every step keeps the types.  The store's finiteness and its bound are used
\* for the steps that cut it.
LEMMA NextTypeOK ==
    ASSUME TypeOK, IsFiniteSet(DOMAIN store), IsFiniteSet(DOMAIN file),
           NamedBounded, LoopInv, [Next]_vars
    PROVE  TypeOK'
<1>1. ASSUME NEW j \in Jobs, CreateScan(j) PROVE TypeOK'
  <2>1. DOMAIN store' \subseteq Jobs /\ store' \in [DOMAIN store' -> Record]
    BY <1>1, Creating DEF TypeOK
  <2> QED
    BY <1>1, <2>1 DEF TypeOK, CreateScan
<1>2. ASSUME NEW j \in Jobs, StartJob(j) PROVE TypeOK'
  <2>1. DOMAIN store' \subseteq Jobs /\ store' \in [DOMAIN store' -> Record]
    BY <1>2, Starting DEF TypeOK
  <2> QED
    BY <1>2, <2>1 DEF TypeOK, StartJob
<1>3. ASSUME NEW j \in Jobs, ScanSucceeds(j) PROVE TypeOK'
  <2>1. Revise(j, "completed", TRUE)
    BY <1>3 DEF ScanSucceeds
  <2>2. DOMAIN store' \subseteq Jobs /\ store' \in [DOMAIN store' -> Record]
    BY <2>1, Revising DEF TypeOK, Status
  <2> QED
    BY <1>3, <2>2 DEF TypeOK, ScanSucceeds
<1>4. ASSUME NEW j \in Jobs, ScanRaises(j) PROVE TypeOK'
  <2>1. Revise(j, "failed", FALSE)
    BY <1>4 DEF ScanRaises
  <2>2. DOMAIN store' \subseteq Jobs /\ store' \in [DOMAIN store' -> Record]
    BY <2>1, Revising DEF TypeOK, Status
  <2> QED
    BY <1>4, <2>2 DEF TypeOK, ScanRaises
<1>5. CASE SaveJobs
  BY <1>5 DEF TypeOK, SaveJobs, AfterSave
<1>6. CASE SaveJobsFails
  BY <1>6 DEF TypeOK, SaveJobsFails, AfterSave
<1>7. CASE FileCaseRun
  BY <1>7 DEF TypeOK, FileCaseRun, LoopInv
<1>8. CASE FileCaseRunRaises
  <2>1. finishing \in Jobs
    BY <1>8 DEF TypeOK, FileCaseRunRaises, LoopInv
  <2>2. Revise(finishing, "failed", TRUE)
    BY <1>8 DEF FileCaseRunRaises
  <2>3. DOMAIN store' \subseteq Jobs /\ store' \in [DOMAIN store' -> Record]
    BY <2>1, <2>2, Revising DEF TypeOK, Status
  <2> QED
    BY <1>8, <2>1, <2>3 DEF TypeOK, FileCaseRunRaises
<1>9. CASE Restart
  <2>1. DOMAIN store' \subseteq Jobs /\ store' \in [DOMAIN store' -> Record]
    BY <1>9, Restarting DEF TypeOK, Named
  <2> QED
    BY <1>9, <2>1 DEF TypeOK, Restart
<1>10. CASE ClockMoves
  BY <1>10 DEF TypeOK, ClockMoves, Tick, StepBack, Time
<1>11. CASE UNCHANGED vars
  BY <1>11 DEF TypeOK, vars
<1> QED
  BY <1>1, <1>2, <1>3, <1>4, <1>5, <1>6, <1>7, <1>8, <1>9, <1>10, <1>11
     DEF Next, RunnerStep, LoopStep

-----------------------------------------------------------------------------
\* The cap.

\* Records that keep their times keep their names.
LEMMA SameNames ==
    ASSUME NEW jobs, NEW jobs2, DOMAIN jobs2 = DOMAIN jobs,
           \A k \in DOMAIN jobs : jobs2[k].created = jobs[k].created
    PROVE  Named(jobs2) = Named(jobs)
  BY DEF Named

\* Both stores stay finite and within the cap.
LEMMA NextBounded ==
    ASSUME TypeOK, IsFiniteSet(DOMAIN store), IsFiniteSet(DOMAIN file),
           NamedBounded, LoopInv, [Next]_vars
    PROVE  /\ IsFiniteSet(DOMAIN store') /\ IsFiniteSet(DOMAIN file')
           /\ NamedBounded'
<1> DEFINE Fits(jobs) == /\ IsFiniteSet(DOMAIN jobs)
                        /\ Cardinality(Named(jobs)) <= MaxPersistedJobs
<1>0. Fits(store) /\ Fits(file)
  BY DEF NamedBounded
<1>1. ASSUME NEW j \in Jobs, CreateScan(j) PROVE Fits(store') /\ file' = file
  <2>1. IsFiniteSet(DOMAIN store') /\ Cardinality(DOMAIN store') <= MaxPersistedJobs
    BY <1>1, Creating
  <2>2. /\ IsFiniteSet(Named(store'))
        /\ Cardinality(Named(store')) <= Cardinality(DOMAIN store')
    BY <2>1, FS_Subset DEF Named
  <2>3. Cardinality(Named(store')) \in Nat /\ Cardinality(DOMAIN store') \in Nat
    BY <2>1, <2>2, FS_CardinalityType
  <2> QED
    BY <1>1, <2>1, <2>2, <2>3 DEF CreateScan
<1>2. ASSUME NEW j \in Jobs, StartJob(j) PROVE Fits(store') /\ file' = file
  <2>1. /\ DOMAIN store' = DOMAIN store \cup {j}
        /\ \A k \in DOMAIN store : store'[k].created = store[k].created
        /\ j \notin DOMAIN store => store'[j].created = NoTime
    BY <1>2, Starting
  <2>2. Named(store') = Named(store)
    BY <2>1 DEF Named
  <2>3. IsFiniteSet(DOMAIN store')
    BY <2>1, FS_AddElement
  <2> QED
    BY <1>0, <1>2, <2>2, <2>3 DEF StartJob
<1>3. ASSUME NEW j \in Jobs, NEW status \in Status, NEW result \in BOOLEAN,
             Revise(j, status, result)
      PROVE  Fits(store')
  <2>1. /\ DOMAIN store' = DOMAIN store
        /\ \A k \in DOMAIN store : store'[k].created = store[k].created
    BY <1>3, Revising
  <2> QED
    BY <1>0, <2>1, SameNames
<1>4. ASSUME NEW j \in Jobs, ScanSucceeds(j) \/ ScanRaises(j)
      PROVE  Fits(store') /\ file' = file
  BY <1>3, <1>4 DEF ScanSucceeds, ScanRaises, Status
<1>5. CASE SaveJobs
  BY <1>0, <1>5 DEF SaveJobs, NamedBounded
<1>6. CASE FileCaseRunRaises
  <2>1. finishing \in Jobs /\ Revise(finishing, "failed", TRUE) /\ file' = file
    BY <1>6 DEF FileCaseRunRaises, LoopInv, TypeOK
  <2>2. Fits(store')
    BY <1>3, <2>1 DEF Status
  <2> QED
    BY <1>0, <2>1, <2>2 DEF NamedBounded
<1>7. CASE Restart
  <2>1. /\ DOMAIN store' = Named(file)
        /\ \A k \in DOMAIN store' : store'[k].created = file[k].created
    BY <1>7, Restarting
  <2>2. Named(store') = Named(file)
    BY <2>1 DEF Named
  <2>3. IsFiniteSet(DOMAIN store')
    BY <2>1, FS_Subset DEF Named
  <2> QED
    BY <1>0, <1>7, <2>2, <2>3 DEF Restart, NamedBounded
<1>8. ASSUME UNCHANGED <<store, file>>
      PROVE  Fits(store') /\ Fits(file')
  BY <1>0, <1>8
<1>9. SaveJobsFails \/ FileCaseRun \/ ClockMoves \/ UNCHANGED vars
          => UNCHANGED <<store, file>>
  BY DEF SaveJobsFails, FileCaseRun, ClockMoves, vars
<1> QED
  BY <1>0, <1>1, <1>2, <1>4, <1>5, <1>6, <1>7, <1>8, <1>9
     DEF Next, RunnerStep, LoopStep, NamedBounded

-----------------------------------------------------------------------------
\* Status and task, in memory and on disk.

LEMMA NextFollows ==
    ASSUME IInv, [Next]_vars
    PROVE  StoreFollowsRunner' /\ FileFollowsRunner' /\ LoopInv'
<1> USE DEF IInv
<1>1. ASSUME NEW j \in Jobs, CreateScan(j)
      PROVE  StoreFollowsRunner' /\ FileFollowsRunner' /\ LoopInv'
  <2>1. /\ DOMAIN store' \subseteq DOMAIN store \cup {j}
        /\ \A k \in DOMAIN store' : k # j => store'[k] = store[k]
        /\ j \in DOMAIN store' => store'[j].status = "queued"
    BY <1>1, Creating
  <2>2. /\ runner[j] = "none" /\ runner' = [runner EXCEPT ![j] = "pending"]
        /\ loop = "idle" /\ loop' = "saving"
        /\ UNCHANGED <<file, finishing, filed>>
    BY <1>1 DEF CreateScan
  <2>3. StoreFollowsRunner'
    BY <2>1, <2>2 DEF StoreFollowsRunner, LoopInv, TypeOK
  <2>4. FileFollowsRunner'
    BY <2>2 DEF FileFollowsRunner, TypeOK
  <2>5. LoopInv'
    BY <2>2 DEF LoopInv, TypeOK
  <2> QED
    BY <2>3, <2>4, <2>5
<1>2. ASSUME NEW j \in Jobs, StartJob(j)
      PROVE  StoreFollowsRunner' /\ FileFollowsRunner' /\ LoopInv'
  <2>1. /\ DOMAIN store' = DOMAIN store \cup {j}
        /\ \A k \in DOMAIN store : k # j => store'[k] = store[k]
        /\ store'[j].status = "running"
    BY <1>2, Starting
  <2>2. /\ runner[j] = "pending" /\ runner' = [runner EXCEPT ![j] = "scanning"]
        /\ loop = "idle" /\ loop' = "saving"
        /\ UNCHANGED <<file, finishing, filed>>
    BY <1>2 DEF StartJob
  <2>3. finishing = NoJob
    BY <2>2 DEF LoopInv
  <2>4. StoreFollowsRunner'
    BY <2>1, <2>2, <2>3 DEF StoreFollowsRunner, TypeOK
  <2>5. FileFollowsRunner'
    BY <2>2 DEF FileFollowsRunner, TypeOK
  <2>6. LoopInv'
    BY <2>2, <2>3 DEF LoopInv, TypeOK
  <2> QED
    BY <2>4, <2>5, <2>6
<1>3. ASSUME NEW j \in Jobs, ScanSucceeds(j)
      PROVE  StoreFollowsRunner' /\ FileFollowsRunner' /\ LoopInv'
  <2>1. Revise(j, "completed", TRUE)
    BY <1>3 DEF ScanSucceeds
  <2>2. /\ DOMAIN store' = DOMAIN store
        /\ \A k \in DOMAIN store : k # j => store'[k] = store[k]
        /\ j \in DOMAIN store => store'[j].status = "completed"
    BY <2>1, Revising DEF Status
  <2>3. /\ runner[j] = "scanning" /\ loop = "idle" /\ loop' = "saving"
        /\ UNCHANGED <<file, filed>>
        /\ \/ finishing' = j /\ runner' = runner
           \/ runner' = [runner EXCEPT ![j] = "over"] /\ finishing' = finishing
    BY <1>3 DEF ScanSucceeds
  <2>4. finishing = NoJob
    BY <2>3 DEF LoopInv
  <2>5. StoreFollowsRunner'
    BY <2>2, <2>3, <2>4 DEF StoreFollowsRunner, TypeOK
  <2>6. FileFollowsRunner'
    BY <2>3, <2>4 DEF FileFollowsRunner, TypeOK
  <2>7. LoopInv'
    BY <2>3, <2>4 DEF LoopInv, TypeOK
  <2> QED
    BY <2>5, <2>6, <2>7
<1>4. ASSUME NEW j \in Jobs, ScanRaises(j)
      PROVE  StoreFollowsRunner' /\ FileFollowsRunner' /\ LoopInv'
  <2>1. Revise(j, "failed", FALSE)
    BY <1>4 DEF ScanRaises
  <2>2. /\ DOMAIN store' = DOMAIN store
        /\ \A k \in DOMAIN store : k # j => store'[k] = store[k]
        /\ j \in DOMAIN store => store'[j].status = "failed"
    BY <2>1, Revising DEF Status
  <2>3. /\ runner[j] = "scanning" /\ loop = "idle" /\ loop' = "saving"
        /\ runner' = [runner EXCEPT ![j] = "over"]
        /\ UNCHANGED <<file, filed, finishing>>
    BY <1>4 DEF ScanRaises
  <2>4. finishing = NoJob
    BY <2>3 DEF LoopInv
  <2>5. StoreFollowsRunner'
    BY <2>2, <2>3, <2>4 DEF StoreFollowsRunner, TypeOK
  <2>6. FileFollowsRunner'
    BY <2>3, <2>4 DEF FileFollowsRunner, TypeOK
  <2>7. LoopInv'
    BY <2>3, <2>4 DEF LoopInv, TypeOK
  <2> QED
    BY <2>5, <2>6, <2>7
<1>5. CASE SaveJobs
  <2>1. /\ file' = store /\ UNCHANGED <<store, runner, finishing, filed>>
        /\ loop' = IF finishing = NoJob THEN "idle" ELSE "filing"
    BY <1>5 DEF SaveJobs, AfterSave
  <2>2. FileFollowsRunner'
    BY <2>1 DEF StoreFollowsRunner, FileFollowsRunner
  <2> QED
    BY <2>1, <2>2 DEF StoreFollowsRunner, LoopInv
<1>6. CASE SaveJobsFails
  BY <1>6 DEF SaveJobsFails, AfterSave, StoreFollowsRunner, FileFollowsRunner,
              LoopInv
<1>7. CASE FileCaseRun
  <2>1. /\ finishing # NoJob /\ runner[finishing] = "scanning"
        /\ runner' = [runner EXCEPT ![finishing] = "over"]
        /\ loop' = "idle" /\ finishing' = NoJob /\ filed' = filed \cup {finishing}
        /\ UNCHANGED <<store, file>>
    BY <1>7 DEF FileCaseRun, LoopInv
  <2>2. finishing \in Jobs
    BY <2>1 DEF TypeOK
  <2>3. StoreFollowsRunner'
    BY <2>1, <2>2 DEF StoreFollowsRunner, TypeOK
  <2>4. FileFollowsRunner'
    BY <2>1, <2>2 DEF FileFollowsRunner, TypeOK
  <2>5. LoopInv'
    BY <2>1, <2>2 DEF LoopInv, TypeOK
  <2> QED
    BY <2>3, <2>4, <2>5
<1>8. CASE FileCaseRunRaises
  <2>1. /\ finishing # NoJob /\ runner[finishing] = "scanning"
        /\ runner' = [runner EXCEPT ![finishing] = "over"]
        /\ loop' = "saving" /\ finishing' = NoJob
        /\ UNCHANGED <<file, filed>>
        /\ Revise(finishing, "failed", TRUE)
    BY <1>8 DEF FileCaseRunRaises, LoopInv
  <2>2. finishing \in Jobs
    BY <2>1 DEF TypeOK
  <2>3. /\ DOMAIN store' = DOMAIN store
        /\ \A k \in DOMAIN store : k # finishing => store'[k] = store[k]
        /\ finishing \in DOMAIN store => store'[finishing].status = "failed"
    BY <2>1, <2>2, Revising DEF Status
  <2>4. StoreFollowsRunner'
    BY <2>1, <2>2, <2>3 DEF StoreFollowsRunner, TypeOK
  <2>5. FileFollowsRunner'
    BY <2>1, <2>2 DEF FileFollowsRunner, TypeOK
  <2>6. LoopInv'
    BY <2>1, <2>2 DEF LoopInv, TypeOK
  <2> QED
    BY <2>4, <2>5, <2>6
<1>9. CASE Restart
  <2>1. /\ DOMAIN store' = Named(file)
        /\ \A k \in DOMAIN store' : store'[k] = Restored(file[k])
    BY <1>9, Restarting
  <2>2. /\ runner' = [j \in Jobs |-> IF runner[j] = "none" THEN "none" ELSE "lost"]
        /\ loop' = "idle" /\ finishing' = NoJob
        /\ UNCHANGED <<file, filed>>
    BY <1>9 DEF Restart
  <2>3. \A k \in DOMAIN file : k \in Jobs /\ runner'[k] = "lost"
    BY <2>2 DEF FileFollowsRunner, TypeOK
  <2>4. \A k \in DOMAIN file : Restored(file[k]).status # "running"
    BY DEF Restored, TypeOK, Record, Status
  <2>5. StoreFollowsRunner'
    BY <2>1, <2>3, <2>4 DEF StoreFollowsRunner, Named
  <2>6. FileFollowsRunner'
    BY <2>2, <2>3 DEF FileFollowsRunner
  <2>7. LoopInv'
    BY <2>2 DEF LoopInv, TypeOK
  <2> QED
    BY <2>5, <2>6, <2>7
<1>10. CASE ClockMoves
  BY <1>10 DEF ClockMoves, StoreFollowsRunner, FileFollowsRunner, LoopInv
<1>11. CASE UNCHANGED vars
  BY <1>11 DEF vars, StoreFollowsRunner, FileFollowsRunner, LoopInv
<1> QED
  BY <1>1, <1>2, <1>3, <1>4, <1>5, <1>6, <1>7, <1>8, <1>9, <1>10, <1>11
     DEF Next, RunnerStep, LoopStep

-----------------------------------------------------------------------------
\* Outcomes: on disk against in memory, and job against case run.

Outcomes == FileBehindStore /\ FiledNeverFailedOnDisk /\ CaseAgreesWithJob

LEMMA NextOutcomes ==
    ASSUME IInv, [Next]_vars
    PROVE  Outcomes'
<1> USE DEF IInv
<1>1. ASSUME NEW j \in Jobs, CreateScan(j) PROVE Outcomes'
  <2>1. /\ DOMAIN store' \subseteq DOMAIN store \cup {j}
        /\ \A k \in DOMAIN store' : k # j => store'[k] = store[k]
    BY <1>1, Creating
  <2>2. /\ runner[j] = "none" /\ runner' = [runner EXCEPT ![j] = "pending"]
        /\ UNCHANGED <<file, filed>>
    BY <1>1 DEF CreateScan
  <2>3. j \notin DOMAIN file /\ j \notin filed
    BY <2>2 DEF FileFollowsRunner, LoopInv
  <2>4. FileBehindStore'
    BY <2>1, <2>2, <2>3 DEF FileBehindStore
  <2>5. CaseAgreesWithJob'
    BY <2>1, <2>2, <2>3 DEF CaseAgreesWithJob, TypeOK
  <2> QED
    BY <2>2, <2>4, <2>5 DEF Outcomes, FiledNeverFailedOnDisk
<1>2. ASSUME NEW j \in Jobs, StartJob(j) PROVE Outcomes'
  <2>1. /\ DOMAIN store' = DOMAIN store \cup {j}
        /\ \A k \in DOMAIN store : k # j => store'[k] = store[k]
        /\ store'[j].status = "running"
    BY <1>2, Starting
  <2>2. /\ runner[j] = "pending" /\ runner' = [runner EXCEPT ![j] = "scanning"]
        /\ UNCHANGED <<file, filed>>
    BY <1>2 DEF StartJob
  <2>3. j \in DOMAIN file => file[j].status \notin Terminal
    BY <2>2 DEF FileFollowsRunner, Terminal
  <2>4. FileBehindStore'
    BY <2>1, <2>2, <2>3 DEF FileBehindStore
  <2>5. CaseAgreesWithJob'
    BY <2>1, <2>2 DEF CaseAgreesWithJob, TypeOK
  <2> QED
    BY <2>2, <2>4, <2>5 DEF Outcomes, FiledNeverFailedOnDisk
<1>3. ASSUME NEW j \in Jobs, ScanSucceeds(j) \/ ScanRaises(j) PROVE Outcomes'
  <2>1. PICK status \in {"completed", "failed"}, result \in BOOLEAN :
            Revise(j, status, result)
    BY <1>3 DEF ScanSucceeds, ScanRaises
  <2>2. /\ DOMAIN store' = DOMAIN store
        /\ \A k \in DOMAIN store : k # j => store'[k] = store[k]
    BY <2>1, Revising DEF Status
  <2>3. /\ runner[j] = "scanning" /\ loop = "idle"
        /\ UNCHANGED <<file, filed>>
        /\ \A k \in Jobs : k # j => runner'[k] = runner[k]
    BY <1>3 DEF ScanSucceeds, ScanRaises, TypeOK
  <2>4. j \in DOMAIN file => file[j].status \notin Terminal
    BY <2>3 DEF FileFollowsRunner, LoopInv, Terminal
  <2>5. FileBehindStore'
    BY <2>2, <2>3, <2>4 DEF FileBehindStore
  <2>6. j \notin filed
    BY <2>3 DEF LoopInv
  <2>7. j \in CaseJobs /\ j \in DOMAIN store /\ runner'[j] = "over"
            => store'[j].status = "failed"
    <3>1. CASE ScanSucceeds(j)
      BY <2>3, <3>1 DEF ScanSucceeds
    <3>2. CASE ScanRaises(j)
      <4>1. Revise(j, "failed", FALSE)
        BY <3>2 DEF ScanRaises
      <4> QED
        BY <4>1, Revising DEF Status
    <3> QED
      BY <1>3, <3>1, <3>2
  <2>8. CaseAgreesWithJob'
    BY <2>2, <2>3, <2>6, <2>7 DEF CaseAgreesWithJob, TypeOK
  <2> QED
    BY <2>3, <2>5, <2>8 DEF Outcomes, FiledNeverFailedOnDisk
<1>4. CASE SaveJobs
  <2>1. file' = store /\ UNCHANGED <<store, runner, filed>>
    BY <1>4 DEF SaveJobs
  <2>2. FiledNeverFailedOnDisk'
    BY <2>1 DEF FiledNeverFailedOnDisk, CaseAgreesWithJob, TypeOK
  <2> QED
    BY <2>1, <2>2 DEF Outcomes, FileBehindStore, CaseAgreesWithJob
<1>5. CASE FileCaseRun
  <2>1. /\ finishing \in CaseJobs /\ runner[finishing] = "scanning"
        /\ runner' = [runner EXCEPT ![finishing] = "over"]
        /\ filed' = filed \cup {finishing}
        /\ UNCHANGED <<store, file>>
    BY <1>5 DEF FileCaseRun, LoopInv, TypeOK
  <2>2. finishing \in DOMAIN store => store[finishing].status = "completed"
    BY <2>1 DEF StoreFollowsRunner
  <2>3. finishing \in DOMAIN file => file[finishing].status # "failed"
    BY <2>1 DEF FileFollowsRunner
  <2>4. CaseAgreesWithJob'
    BY <2>1, <2>2 DEF CaseAgreesWithJob, TypeOK
  <2> QED
    BY <2>1, <2>3, <2>4 DEF Outcomes, FileBehindStore, FiledNeverFailedOnDisk
<1>6. CASE FileCaseRunRaises
  <2>1. /\ finishing \in CaseJobs /\ finishing \in Jobs
        /\ runner[finishing] = "scanning"
        /\ runner' = [runner EXCEPT ![finishing] = "over"]
        /\ Revise(finishing, "failed", TRUE)
        /\ UNCHANGED <<file, filed>>
    BY <1>6 DEF FileCaseRunRaises, LoopInv, TypeOK
  <2>2. /\ DOMAIN store' = DOMAIN store
        /\ \A k \in DOMAIN store : k # finishing => store'[k] = store[k]
        /\ finishing \in DOMAIN store => /\ store'[finishing].status = "failed"
                                         /\ store'[finishing].result
    BY <2>1, Revising DEF Status
  <2>3. finishing \notin filed
    BY <2>1 DEF LoopInv
  <2>4. finishing \in DOMAIN file =>
            file[finishing].status \notin Terminal \/ file[finishing].status = "completed"
    BY <2>1 DEF FileFollowsRunner, Terminal
  <2>5. FileBehindStore'
    BY <2>1, <2>2, <2>4 DEF FileBehindStore
  <2>6. CaseAgreesWithJob'
    BY <2>1, <2>2, <2>3 DEF CaseAgreesWithJob, TypeOK
  <2> QED
    BY <2>1, <2>5, <2>6 DEF Outcomes, FiledNeverFailedOnDisk
<1>7. CASE Restart
  <2>1. /\ DOMAIN store' = Named(file)
        /\ \A k \in DOMAIN store' : store'[k] = Restored(file[k])
    BY <1>7, Restarting
  <2>2. /\ runner' = [j \in Jobs |-> IF runner[j] = "none" THEN "none" ELSE "lost"]
        /\ UNCHANGED <<file, filed>>
    BY <1>7 DEF Restart
  <2>3. \A k \in DOMAIN file :
            /\ file[k].status \in Terminal => Restored(file[k]).status = file[k].status
            /\ Restored(file[k]).status = "failed" => file[k].status = "failed"
    BY DEF Restored, TypeOK, Record, Status, Terminal
  <2>4. FileBehindStore'
    BY <2>1, <2>2, <2>3 DEF FileBehindStore, Named
  <2>5. \A j \in CaseJobs : runner'[j] # "over"
    BY <2>2
  <2>6. CaseAgreesWithJob'
    BY <2>1, <2>2, <2>3, <2>5 DEF CaseAgreesWithJob, FiledNeverFailedOnDisk, Named
  <2> QED
    BY <2>2, <2>4, <2>6 DEF Outcomes, FiledNeverFailedOnDisk
<1>8. ASSUME UNCHANGED <<store, file, filed, runner>> PROVE Outcomes'
  BY <1>8 DEF Outcomes, FileBehindStore, FiledNeverFailedOnDisk, CaseAgreesWithJob
<1>9. SaveJobsFails \/ ClockMoves \/ UNCHANGED vars
          => UNCHANGED <<store, file, filed, runner>>
  BY DEF SaveJobsFails, ClockMoves, vars
<1> QED
  BY <1>1, <1>2, <1>3, <1>4, <1>5, <1>6, <1>7, <1>8, <1>9
     DEF Next, RunnerStep, LoopStep

\* Outside of a save the file is current, unless it is known not to be.
LEMMA NextSaved == ASSUME IInv, [Next]_vars PROVE SavedOrStale'
<1>1. ASSUME NEW j \in Jobs, CreateScan(j) \/ RunnerStep(j) PROVE loop' = "saving"
  BY <1>1 DEF CreateScan, RunnerStep, StartJob, ScanSucceeds, ScanRaises
<1>2. SaveJobs \/ SaveJobsFails \/ FileCaseRunRaises \/ Restart =>
          loop' = "saving" \/ stale' \/ file' = store'
  BY DEF SaveJobs, SaveJobsFails, FileCaseRunRaises, Restart
<1>3. FileCaseRun \/ ClockMoves \/ UNCHANGED vars => SavedOrStale'
  BY DEF FileCaseRun, ClockMoves, vars, IInv, SavedOrStale
<1> QED
  BY <1>1, <1>2, <1>3 DEF Next, LoopStep, SavedOrStale

-----------------------------------------------------------------------------
\* The invariants.

LEMMA InitIInv == Init => IInv
<1> SUFFICES ASSUME Init PROVE IInv
  OBVIOUS
<1>1. store = NoJobs /\ file = NoJobs /\ DOMAIN NoJobs = {} /\ Named(NoJobs) = {}
  BY DEF Init, NoJobs, Named
<1>2. IsFiniteSet({}) /\ Cardinality({}) = 0
  BY FS_EmptySet
<1>3. DOMAIN store = {} /\ DOMAIN file = {} /\ Named(store) = {} /\ Named(file) = {}
  BY <1>1, Zenon
<1>4. NamedBounded
  BY <1>2, <1>3 DEF NamedBounded
<1>5. LoopInv
  BY DEF Init, LoopInv
<1> QED
  BY <1>1, <1>2, <1>3, <1>4, <1>5, InitTypeOK
     DEF IInv, StoreFollowsRunner, FileFollowsRunner, FileBehindStore,
         FiledNeverFailedOnDisk, CaseAgreesWithJob, SavedOrStale

\* The inductive invariant: what a task's progress says of the status of its job
\* in memory and on disk, whichever of them is behind.
THEOREM Invariance == Spec => []IInv
<1>1. IInv /\ [Next]_vars => IInv'
  <2> SUFFICES ASSUME IInv, [Next]_vars PROVE IInv'
    OBVIOUS
  <2>1. TypeOK'
    BY NextTypeOK DEF IInv
  <2>2. /\ IsFiniteSet(DOMAIN store') /\ IsFiniteSet(DOMAIN file')
        /\ NamedBounded'
    BY NextBounded DEF IInv
  <2> QED
    BY <2>1, <2>2, NextFollows, NextOutcomes, NextSaved DEF IInv, Outcomes
<1> QED
  BY <1>1, InitIInv, PTL DEF Spec

\* The variables of the job service always have their types.
THEOREM TypeCorrect == Spec => []TypeOK
<1>1. IInv => TypeOK
  BY DEF IInv
<1> QED
  BY <1>1, Invariance, PTL

\* No job is ever shown as running without a live task: not after any crash, any
\* failed save or any eviction.
THEOREM NoGhostRuns == Spec => []RunningHasRunner
<1>1. IInv => RunningHasRunner
  BY DEF IInv, TypeOK, StoreFollowsRunner, RunningHasRunner
<1> QED
  BY <1>1, Invariance, PTL

\* The store and the file never hold more named records than the cap.
THEOREM CapHolds == Spec => []NamedBounded
<1>1. IInv => NamedBounded
  BY DEF IInv
<1> QED
  BY <1>1, Invariance, PTL

\* No handler of the job service leaves a change unsaved.
THEOREM NoForgottenSave == Spec => []SavedOrStale
<1>1. IInv => SavedOrStale
  BY DEF IInv
<1> QED
  BY <1>1, Invariance, PTL

\* A case job is shown completed exactly when its run was filed.
THEOREM CaseAgreement == Spec => []CaseAgreesWithJob
<1>1. IInv => CaseAgreesWithJob
  BY DEF IInv
<1> QED
  BY <1>1, Invariance, PTL

\* An outcome on disk is final.
THEOREM OutcomesAreFinal == Spec => DurableOutcome
<1> DEFINE Final ==
      \A j \in DOMAIN file \cap DOMAIN file' :
          file[j].status \in Terminal =>
              \/ file'[j].status = file[j].status
              \/ j \in CaseJobs /\ file[j].status = "completed"
                                /\ file'[j].status = "failed"
                                /\ file'[j].result
<1>1. IInv /\ [Next]_vars => [Final]_vars
  <2> SUFFICES ASSUME IInv, [Next]_vars PROVE Final
    OBVIOUS
  <2>1. CASE SaveJobs
    BY <2>1 DEF SaveJobs, IInv, FileBehindStore
  <2>2. CASE file' = file
    BY <2>2
  <2>3. SaveJobs \/ file' = file
    BY DEF Next, RunnerStep, LoopStep, CreateScan, StartJob, ScanSucceeds,
           ScanRaises, SaveJobsFails, FileCaseRun, FileCaseRunRaises, Restart,
           ClockMoves, vars
  <2> QED
    BY <2>1, <2>2, <2>3
<1> QED
  BY <1>1, Invariance, PTL DEF Spec, DurableOutcome

-----------------------------------------------------------------------------
\* The refinement.

\* What the mapping shows, pointwise.
LEMMA ShownPhase ==
    ASSUME IInv
    PROVE  \A j \in Jobs :
               /\ j \in DOMAIN store => /\ Shown[j] = store[j].status
                                        /\ Shown[j] # "unknown"
               /\ j \notin DOMAIN store => Shown[j] = "unknown"
               /\ Phase[j] = "new" <=> runner[j] = "none"
               /\ Phase[j] = "accepted" <=> runner[j] = "pending"
               /\ Phase[j] = "started" <=> runner[j] = "scanning"
               /\ Phase[j] = "ended" <=> runner[j] \in {"over", "lost"}
  BY DEF IInv, TypeOK, Record, Status, Shown, Phase

\* A move of one task is a move of its phase.
LEMMA PhaseMoves ==
    ASSUME TypeOK, NEW j \in Jobs,
           NEW to \in {"pending", "scanning", "over"},
           NEW step \in {"accepted", "started", "ended"},
           <<to, step>> \in {<<"pending", "accepted">>, <<"scanning", "started">>,
                            <<"over", "ended">>},
           runner' = [runner EXCEPT ![j] = to]
    PROVE  Phase' = [Phase EXCEPT ![j] = step]
<1>1. \A k \in Jobs : Phase'[k] = IF k = j THEN step ELSE Phase[k]
  BY DEF Phase, TypeOK
<1>2. DOMAIN Phase = Jobs
  BY DEF Phase
<1>3. Phase' = [k \in Jobs |-> Phase'[k]]
  BY DEF Phase
<1> HIDE DEF Phase
<1>4. Phase' = [k \in Jobs |-> IF k = j THEN step ELSE Phase[k]]
  BY <1>1, <1>3, Zenon
<1> QED
  BY <1>2, <1>4, Zenon

\* Shown is determined by its values.
LEMMA ShownIs ==
    /\ Shown = [j \in Jobs |-> Shown[j]] /\ DOMAIN Shown = Jobs
    /\ Shown' = [j \in Jobs |-> Shown'[j]]
  BY DEF Shown

\* Revising a job shows its new status, if the job is shown at all.
LEMMA RevisingShows ==
    ASSUME IInv, NEW j \in Jobs, NEW status \in Status, NEW result \in BOOLEAN,
           Revise(j, status, result)
    PROVE  Ledger!Show(j, status) /\ Anonymous' = Anonymous
<1>1. /\ DOMAIN store' = DOMAIN store
      /\ \A k \in DOMAIN store : store'[k].created = store[k].created
      /\ \A k \in DOMAIN store : k # j => store'[k] = store[k]
      /\ j \in DOMAIN store => store'[j].status = status
  BY Revising DEF IInv
<1>2. Anonymous' = Anonymous
  BY <1>1 DEF Anonymous, Named
<1>3. DOMAIN Shown = Jobs /\ Shown = [k \in Jobs |-> Shown[k]]
  BY DEF Shown
<1>4. ASSUME NEW k \in Jobs
      PROVE  Shown'[k] = IF k = j /\ j \in DOMAIN store THEN status ELSE Shown[k]
  BY <1>1 DEF Shown
<1>5. CASE j \in DOMAIN store
  <2>1. Shown' = [Shown EXCEPT ![j] = status]
    <3>1. Shown' = [k \in Jobs |-> IF k = j THEN status ELSE Shown[k]]
      BY <1>4, <1>5, ShownIs
    <3> QED
      BY <1>3, <3>1
  <2>2. Shown[j] # "unknown"
    BY <1>5, ShownPhase
  <2> QED
    BY <1>2, <2>1, <2>2 DEF Ledger!Show
<1>6. CASE j \notin DOMAIN store
  <2>1. \A k \in Jobs : Shown'[k] = Shown[k]
    BY <1>4, <1>6
  <2>3. Shown' = Shown
    BY <2>1, ShownIs
  <2>2. Shown[j] = "unknown"
    BY <1>6, ShownPhase
  <2> QED
    BY <1>2, <2>2, <2>3 DEF Ledger!Show
<1> QED
  BY <1>5, <1>6

LEMMA CreateRefines ==
    ASSUME IInv, NEW j \in Jobs, CreateScan(j) PROVE Ledger!Accept(j)
<1> DEFINE gone == Jobs \ DOMAIN store'
<1>1. /\ DOMAIN store' \subseteq DOMAIN store \cup {j}
      /\ \A k \in DOMAIN store' : k # j => store'[k] = store[k]
      /\ j \in DOMAIN store' => /\ store'[j].status = "queued"
                                /\ store'[j].created # NoTime
  BY Creating DEF IInv
<1>2. /\ runner[j] = "none" /\ runner' = [runner EXCEPT ![j] = "pending"]
      /\ file' = file
  BY DEF CreateScan
<1>3. Phase[j] = "new"
  BY <1>2, ShownPhase
<1>4. Phase' = [Phase EXCEPT ![j] = "accepted"]
  BY <1>2, PhaseMoves DEF IInv
<1>5. \A k \in Jobs : Shown'[k] = IF k \in gone THEN "unknown"
                                  ELSE IF k = j THEN "queued" ELSE Shown[k]
  BY <1>1 DEF Shown
<1>6. Shown' = [k \in Jobs |-> IF k \in gone THEN "unknown"
                              ELSE IF k = j THEN "queued" ELSE Shown[k]]
  BY <1>5, ShownIs
<1>7. j \notin DOMAIN store
  BY <1>2 DEF IInv, StoreFollowsRunner
<1>8. Anonymous' = Anonymous \ gone
  BY <1>1, <1>7 DEF Anonymous, Named, IInv, TypeOK
<1>9. Durable' = Durable
  BY <1>2 DEF Durable
<1> QED
  BY <1>3, <1>4, <1>6, <1>8, <1>9 DEF Ledger!Accept, Ledger!Becomes

LEMMA StartRefines ==
    ASSUME IInv, NEW j \in Jobs, StartJob(j) PROVE Ledger!Start(j)
<1>1. /\ DOMAIN store' = DOMAIN store \cup {j}
      /\ \A k \in DOMAIN store : store'[k].created = store[k].created
      /\ \A k \in DOMAIN store : k # j => store'[k] = store[k]
      /\ store'[j].status = "running"
      /\ j \notin DOMAIN store => store'[j].created = NoTime
  BY Starting DEF IInv
<1>2. /\ runner[j] = "pending" /\ runner' = [runner EXCEPT ![j] = "scanning"]
      /\ file' = file
  BY DEF StartJob
<1>3. Phase[j] = "accepted" /\ Phase' = [Phase EXCEPT ![j] = "started"]
  BY <1>2, ShownPhase, PhaseMoves DEF IInv
<1>4. \A k \in Jobs : Shown'[k] = IF k = j THEN "running" ELSE Shown[k]
  BY <1>1 DEF Shown
<1>5. DOMAIN Shown = Jobs
  BY DEF Shown
<1>6. Shown' = [Shown EXCEPT ![j] = "running"]
  <2>1. Shown' = [k \in Jobs |-> IF k = j THEN "running" ELSE Shown[k]]
    BY <1>4, ShownIs
  <2> QED
    BY <1>5, <2>1
<1>7. Anonymous' = IF Shown[j] = "unknown" THEN Anonymous \cup {j} ELSE Anonymous
  <2>1. CASE j \in DOMAIN store
    BY <1>1, <2>1, ShownPhase DEF Anonymous, Named
  <2>2. CASE j \notin DOMAIN store
    BY <1>1, <2>2, ShownPhase DEF Anonymous, Named
  <2> QED
    BY <2>1, <2>2
<1>8. Durable' = Durable
  BY <1>2 DEF Durable
<1> QED
  BY <1>3, <1>6, <1>7, <1>8 DEF Ledger!Start, Ledger!Becomes

LEMMA SucceedRefines ==
    ASSUME IInv, NEW j \in Jobs, ScanSucceeds(j) PROVE Ledger!Complete(j)
<1>1. /\ runner[j] = "scanning" /\ file' = file /\ Revise(j, "completed", TRUE)
      /\ runner' = runner \/ runner' = [runner EXCEPT ![j] = "over"]
  BY DEF ScanSucceeds
<1>2. Ledger!Show(j, "completed") /\ Anonymous' = Anonymous
  BY <1>1, RevisingShows DEF Status
<1>3. Phase[j] = "started"
  BY <1>1, ShownPhase
<1>4. Ledger!Becomes(j, "started") \/ Ledger!Becomes(j, "ended")
  <2>1. CASE runner' = runner
    <3>1. Phase' = Phase /\ Phase = [Phase EXCEPT ![j] = "started"]
      BY <1>3, <2>1 DEF Phase
    <3> QED
      BY <3>1 DEF Ledger!Becomes
  <2>2. CASE runner' = [runner EXCEPT ![j] = "over"]
    BY <2>2, PhaseMoves DEF Ledger!Becomes, IInv
  <2> QED
    BY <1>1, <2>1, <2>2
<1>5. Durable' = Durable
  BY <1>1 DEF Durable
<1> QED
  BY <1>2, <1>3, <1>4, <1>5 DEF Ledger!Complete

\* Both ways to fail: the scan raises, or the filing of its case run does.
LEMMA FailRefines ==
    ASSUME IInv, NEW j \in Jobs, runner[j] = "scanning", file' = file,
           NEW result \in BOOLEAN, Revise(j, "failed", result),
           runner' = [runner EXCEPT ![j] = "over"]
    PROVE  Ledger!Fail(j)
<1>1. Ledger!Show(j, "failed") /\ Anonymous' = Anonymous
  BY RevisingShows DEF Status
<1>2. Phase[j] = "started" /\ Phase' = [Phase EXCEPT ![j] = "ended"]
  BY ShownPhase, PhaseMoves DEF IInv
<1>3. Durable' = Durable
  BY DEF Durable
<1> QED
  BY <1>1, <1>2, <1>3 DEF Ledger!Fail, Ledger!Becomes

LEMMA FileRefines ==
    ASSUME IInv, FileCaseRun PROVE Ledger!End(finishing)
<1>1. /\ finishing \in Jobs /\ runner[finishing] = "scanning"
      /\ runner' = [runner EXCEPT ![finishing] = "over"]
      /\ UNCHANGED <<store, file>>
  BY DEF FileCaseRun, IInv, LoopInv, TypeOK
<1>2. Phase[finishing] = "started" /\ Phase' = [Phase EXCEPT ![finishing] = "ended"]
  BY <1>1, ShownPhase, PhaseMoves DEF IInv
<1>3. Shown[finishing] \in {"completed", "unknown"}
  BY <1>1, ShownPhase DEF IInv, StoreFollowsRunner
<1>4. Shown' = Shown /\ Durable' = Durable /\ Anonymous' = Anonymous
  BY <1>1 DEF Shown, Durable, Anonymous, Named
<1> QED
  BY <1>2, <1>3, <1>4 DEF Ledger!End, Ledger!Becomes

LEMMA SaveRefines == ASSUME IInv, SaveJobs PROVE Ledger!Persist
<1>1. file' = store /\ UNCHANGED <<store, runner>>
  BY DEF SaveJobs
<1>2. UNCHANGED <<Shown, Phase, Anonymous>>
  BY <1>1 DEF Shown, Phase, Anonymous, Named
<1>3. ASSUME NEW j \in Jobs
      PROVE  (IF j \in Named(store) THEN Restored(store[j]).status ELSE "unknown")
                = IF j \in Anonymous THEN "unknown" ELSE Ledger!AfterCrash(Shown[j])
  <2>1. CASE j \in DOMAIN store
    <3>1. Restored(store[j]).status = Ledger!AfterCrash(store[j].status)
      BY <2>1 DEF Restored, Ledger!AfterCrash, IInv, TypeOK, Record
    <3> QED
      BY <2>1, <3>1 DEF Shown, Anonymous, Named
  <2>2. CASE j \notin DOMAIN store
    BY <2>2 DEF Shown, Anonymous, Named, Ledger!AfterCrash
  <2> QED
    BY <2>1, <2>2
<1>4. Durable' = [j \in Jobs |-> IF j \in Named(store) THEN Restored(store[j]).status
                                                       ELSE "unknown"]
  BY <1>1 DEF Durable, Named
<1>5. Durable' = [j \in Jobs |-> IF j \in Anonymous THEN "unknown"
                                ELSE Ledger!AfterCrash(Shown[j])]
  BY <1>3, <1>4
<1> QED
  BY <1>2, <1>5 DEF Ledger!Persist

LEMMA RestartRefines == ASSUME IInv, Restart PROVE Ledger!Restart
<1>1. /\ DOMAIN store' = Named(file)
      /\ \A k \in DOMAIN store' : /\ store'[k] = Restored(file[k])
                                  /\ store'[k].created = file[k].created
  BY Restarting DEF IInv
<1>2. /\ runner' = [j \in Jobs |-> IF runner[j] = "none" THEN "none" ELSE "lost"]
      /\ file' = file
  BY DEF Restart
<1>3. \A j \in Jobs : Shown'[j] = Durable[j]
  BY <1>1 DEF Shown, Durable
<1>4. Durable = [j \in Jobs |-> Durable[j]]
  BY DEF Durable
<1>5. Shown' = Durable
  BY <1>3, <1>4, ShownIs
<1>6. Phase' = [j \in Jobs |-> IF Phase[j] = "new" THEN "new" ELSE "ended"]
  BY <1>2 DEF Phase, IInv, TypeOK
<1>7. Anonymous' = {}
  BY <1>1 DEF Anonymous, Named
<1>8. Durable' = Durable
  BY <1>2 DEF Durable
<1> QED
  BY <1>5, <1>6, <1>7, <1>8 DEF Ledger!Restart

\* The job service does nothing to a job that JobLedger does not allow: nobody is
\* shown a status out of order, and a restart brings back exactly what was saved.
THEOREM ServiceImplementsLedger == Spec => ImplementsLedger
<1>1. Init => Ledger!Init
  <2> SUFFICES ASSUME Init PROVE Ledger!Init
    OBVIOUS
  <2>1. store = NoJobs /\ file = NoJobs /\ DOMAIN NoJobs = {} /\ Named(NoJobs) = {}
    BY DEF Init, NoJobs, Named
  <2>2. DOMAIN store = {} /\ Named(store) = {} /\ Named(file) = {}
    BY <2>1, Zenon
  <2>3. Phase = [j \in Jobs |-> "new"]
    BY DEF Init, Phase
  <2> QED
    BY <2>2, <2>3 DEF Ledger!Init, Shown, Durable, Anonymous
<1>2. IInv /\ [Next]_vars => [Ledger!Next]_(Ledger!vars)
  <2> SUFFICES ASSUME IInv, [Next]_vars PROVE Ledger!Next \/ UNCHANGED Ledger!vars
    OBVIOUS
  <2>1. ASSUME NEW j \in Jobs, CreateScan(j) \/ RunnerStep(j) PROVE Ledger!Next
    <3>1. CASE CreateScan(j)
      BY <3>1, CreateRefines DEF Ledger!Next
    <3>2. CASE StartJob(j)
      BY <3>2, StartRefines DEF Ledger!Next
    <3>3. CASE ScanSucceeds(j)
      BY <3>3, SucceedRefines DEF Ledger!Next
    <3>4. CASE ScanRaises(j)
      <4>1. Ledger!Fail(j)
        BY <3>4, FailRefines DEF ScanRaises
      <4> QED
        BY <4>1 DEF Ledger!Next
    <3> QED
      BY <2>1, <3>1, <3>2, <3>3, <3>4 DEF RunnerStep
  <2>2. CASE FileCaseRun
    <3>1. finishing \in Jobs
      BY <2>2 DEF FileCaseRun, IInv, LoopInv, TypeOK
    <3> QED
      BY <2>2, <3>1, FileRefines DEF Ledger!Next
  <2>3. CASE FileCaseRunRaises
    <3>1. /\ finishing \in Jobs /\ runner[finishing] = "scanning" /\ file' = file
          /\ Revise(finishing, "failed", TRUE)
          /\ runner' = [runner EXCEPT ![finishing] = "over"]
      BY <2>3 DEF FileCaseRunRaises, IInv, LoopInv, TypeOK
    <3>2. Ledger!Fail(finishing)
      BY <3>1, FailRefines
    <3> QED
      BY <3>1, <3>2 DEF Ledger!Next
  <2>4. CASE SaveJobs
    BY <2>4, SaveRefines DEF Ledger!Next
  <2>5. CASE Restart
    BY <2>5, RestartRefines DEF Ledger!Next
  <2>6. CASE UNCHANGED <<store, file, runner>>
    BY <2>6 DEF Ledger!vars, Shown, Durable, Phase, Anonymous, Named
  <2>7. SaveJobsFails \/ ClockMoves \/ UNCHANGED vars
            => UNCHANGED <<store, file, runner>>
    BY DEF SaveJobsFails, ClockMoves, vars
  <2> QED
    BY <2>1, <2>2, <2>3, <2>4, <2>5, <2>6, <2>7 DEF Next, LoopStep
<1> QED
  BY <1>1, <1>2, Invariance, PTL DEF Spec, ImplementsLedger, Ledger!Spec
=============================================================================
