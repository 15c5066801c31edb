---------------------------- MODULE JobLifecycle ----------------------------
(***************************************************************************)
(* What the coordinator promises about one job's life (spec section 3,     *)
(* "Status transitions form a DAG", and section 8 property 3): a job is    *)
(* created pending; only a pending job is claimed or cancelled; a running  *)
(* job ends completed or failed, or is put back to pending by stale        *)
(* recovery; a failed job goes back to pending at most `budget` times;     *)
(* completed and cancelled are absorbing; terminal rows may be purged.     *)
(* "none" is a job not yet submitted, "deleted" one removed by retention.  *)
(* The owner is the executor a running job is assigned to.                 *)
(***************************************************************************)
EXTENDS Integers

CONSTANTS Jobs, Executors, NoExecutor

VARIABLES status, owner, retries, budget

vars == <<status, owner, retries, budget>>

Terminal == {"completed", "failed", "cancelled"}

Init ==
    /\ status  = [j \in Jobs |-> "none"]
    /\ owner   = [j \in Jobs |-> NoExecutor]
    /\ retries = [j \in Jobs |-> 0]
    /\ budget  = [j \in Jobs |-> 0]

\* Submission fixes the retry budget once and for all.
Create(j) ==
    /\ status[j] = "none"
    /\ status' = [status EXCEPT ![j] = "pending"]
    /\ budget'[j] \in Int
    /\ budget' = [budget EXCEPT ![j] = budget'[j]]
    /\ UNCHANGED <<owner, retries>>

Start(j, e) ==
    /\ status[j] = "pending"
    /\ status' = [status EXCEPT ![j] = "running"]
    /\ owner' = [owner EXCEPT ![j] = e]
    /\ UNCHANGED <<retries, budget>>

Finish(j) ==
    /\ status[j] = "running"
    /\ \E s \in {"completed", "failed"} : status' = [status EXCEPT ![j] = s]
    /\ owner' = [owner EXCEPT ![j] = NoExecutor]
    /\ UNCHANGED <<retries, budget>>

Requeue(j) ==
    /\ status[j] = "running"
    /\ status' = [status EXCEPT ![j] = "pending"]
    /\ owner' = [owner EXCEPT ![j] = NoExecutor]
    /\ UNCHANGED <<retries, budget>>

Cancel(j) ==
    /\ status[j] = "pending"
    /\ status' = [status EXCEPT ![j] = "cancelled"]
    /\ UNCHANGED <<owner, retries, budget>>

Retry(j) ==
    /\ status[j] = "failed"
    /\ retries[j] < budget[j]
    /\ status' = [status EXCEPT ![j] = "pending"]
    /\ retries' = [retries EXCEPT ![j] = @ + 1]
    /\ UNCHANGED <<owner, budget>>

\* Retention removes any set of terminal jobs in one step.
Purge(S) ==
    /\ S # {}
    /\ \A j \in S : status[j] \in Terminal
    /\ status' = [j \in Jobs |-> IF j \in S THEN "deleted" ELSE status[j]]
    /\ UNCHANGED <<owner, retries, budget>>

Next ==
    \E j \in Jobs :
        \/ Create(j)
        \/ \E e \in Executors : Start(j, e)
        \/ Finish(j)
        \/ Requeue(j)
        \/ Cancel(j)
        \/ Retry(j)
    \/ \E S \in SUBSET Jobs : Purge(S)

Spec == Init /\ [][Next]_vars

=============================================================================
