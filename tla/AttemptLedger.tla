---------------------------- MODULE AttemptLedger ----------------------------
(***************************************************************************)
(* What the journal promises its readers about attempts: each attempt goes *)
(* through its life once and in order, and a task has at most one attempt  *)
(* that is running or waits for review.                                    *)
(***************************************************************************)
CONSTANTS Attempt,
          TaskOf(_)   \* the task of an attempt

VARIABLE status       \* where each attempt is in its life

Open    == {"started", "launching", "executed"}
Holding == Open \cup {"ready"}
Verdict == {"admitted", "rejected", "reverted"}

DInit == status = [a \in Attempt |-> "none"]

\* What may follow each stage; nothing follows a refusal, a cancellation or a
\* verdict.
After ==
    [stage \in {"none"} \cup Holding \cup {"refused", "cancelled"} \cup Verdict |->
        CASE stage = "none"      -> {"started"}
          [] stage = "started"   -> {"launching", "refused", "cancelled"}
          [] stage = "launching" -> {"executed", "refused", "cancelled"}
          [] stage = "executed"  -> {"ready", "refused", "cancelled"}
          [] stage = "ready"     -> Verdict
          [] OTHER               -> {}]

\* A task that is running, or ready and not yet reviewed, is not started again.
TaskFree(a) == \A b \in Attempt : TaskOf(b) = TaskOf(a) => status[b] \notin Holding

\* One attempt moves at a time.
DNext ==
    \E a \in {b \in Attempt : status'[b] # status[b]} :
        \E to \in After[status[a]] :
            /\ to = "started" => TaskFree(a)
            /\ status' = [status EXCEPT ![a] = to]

LedgerSpec == DInit /\ [][DNext]_status
==============================================================================
