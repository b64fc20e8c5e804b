----------------------------- MODULE JobLedger -----------------------------
(***************************************************************************)
(* What the job service of src/api/app.py promises about each job, with    *)
(* the store's cap, the sort by created_at, the event loop and the steps   *)
(* of a save left out: the status its owner is shown, the status a restart *)
(* would bring back, and how the one follows the other.                    *)
(***************************************************************************)
CONSTANT Jobs

VARIABLES shown,      \* the status GET answers with; "unknown" is a 404
          durable,    \* the status a restart would show
          phase,      \* how far the job's task has come
          anonymous   \* jobs whose record carries no id: no save keeps them

vars == <<shown, durable, phase, anonymous>>

Init ==
    /\ shown = [j \in Jobs |-> "unknown"]
    /\ durable = [j \in Jobs |-> "unknown"]
    /\ phase = [j \in Jobs |-> "new"]
    /\ anonymous = {}

Show(j, status) ==
    shown' = IF shown[j] = "unknown" THEN shown ELSE [shown EXCEPT ![j] = status]

Becomes(j, step) == phase' = [phase EXCEPT ![j] = step]

\* A new job is queued; any others may be dropped to make room, itself included.
Accept(j) ==
    /\ phase[j] = "new"
    /\ \E gone \in SUBSET Jobs :
          /\ shown' = [k \in Jobs |-> IF k \in gone THEN "unknown"
                                      ELSE IF k = j THEN "queued" ELSE shown[k]]
          /\ anonymous' = anonymous \ gone
    /\ Becomes(j, "accepted")
    /\ UNCHANGED durable

\* A dropped job that starts is shown again, but anonymously.
Start(j) ==
    /\ phase[j] = "accepted"
    /\ shown' = [shown EXCEPT ![j] = "running"]
    /\ anonymous' = IF shown[j] = "unknown" THEN anonymous \cup {j} ELSE anonymous
    /\ Becomes(j, "started")
    /\ UNCHANGED durable

\* The scan is over; a job with a case is not finished with that.
Complete(j) ==
    /\ phase[j] = "started"
    /\ Show(j, "completed")
    /\ Becomes(j, "started") \/ Becomes(j, "ended")
    /\ UNCHANGED <<durable, anonymous>>

Fail(j) ==
    /\ phase[j] = "started"
    /\ Show(j, "failed")
    /\ Becomes(j, "ended")
    /\ UNCHANGED <<durable, anonymous>>

End(j) ==
    /\ phase[j] = "started"
    /\ shown[j] \in {"completed", "unknown"}
    /\ Becomes(j, "ended")
    /\ UNCHANGED <<shown, durable, anonymous>>

AfterCrash(status) == IF status = "running" THEN "interrupted" ELSE status

Persist ==
    /\ durable' = [j \in Jobs |-> IF j \in anonymous THEN "unknown"
                                  ELSE AfterCrash(shown[j])]
    /\ UNCHANGED <<shown, phase, anonymous>>

\* Exactly what was durable comes back, and no task is left to change it.
Restart ==
    /\ shown' = durable
    /\ phase' = [j \in Jobs |-> IF phase[j] = "new" THEN "new" ELSE "ended"]
    /\ anonymous' = {}
    /\ UNCHANGED durable

Next ==
    \/ \E j \in Jobs : Accept(j) \/ Start(j) \/ Complete(j) \/ Fail(j) \/ End(j)
    \/ Persist
    \/ Restart

Spec == Init /\ [][Next]_vars
=============================================================================
