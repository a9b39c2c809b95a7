------------------------------ MODULE JobLedger ------------------------------
(***************************************************************************)
(* What the queue table wake_jobs promises, whatever the workers do: a job *)
(* is claimed once, by one worker, is reported on only by the worker that  *)
(* claimed it, and never goes back to the queue.  It does not promise that *)
(* a claimed job is finished: its worker may let go of it at any moment.   *)
(***************************************************************************)
CONSTANTS Job, Worker, Nobody

VARIABLES state,   \* Job -> wake_jobs.status, "absent" without a row
          holder   \* Job -> the worker at work on it

Init ==
    /\ state = [j \in Job |-> "absent"]
    /\ holder = [j \in Job |-> Nobody]

Enqueue(j) ==
    /\ state[j] = "absent"
    /\ holder[j] = Nobody
    /\ state' = [state EXCEPT ![j] = "queued"]
    /\ UNCHANGED holder

Claim(j, w) ==
    /\ state[j] = "queued"
    /\ state' = [state EXCEPT ![j] = "running"]
    /\ holder' = [holder EXCEPT ![j] = w]

\* The worker never learns that its claim was committed.
ClaimLost(j) ==
    /\ state[j] = "queued"
    /\ state' = [state EXCEPT ![j] = "running"]
    /\ UNCHANGED holder

Done(j) ==
    /\ holder[j] # Nobody
    /\ state[j] = "running"
    /\ state' = [state EXCEPT ![j] = "done"]
    /\ UNCHANGED holder

\* An error may overtake "done": the work is committed after the job is marked.
Error(j) ==
    /\ holder[j] # Nobody
    /\ state[j] \in {"running", "done"}
    /\ state' = [state EXCEPT ![j] = "error"]
    /\ holder' = [holder EXCEPT ![j] = Nobody]

LetGo(j) ==
    /\ holder[j] # Nobody
    /\ holder' = [holder EXCEPT ![j] = Nobody]
    /\ UNCHANGED state

\* The rows go with their machine; a worker may still be at work on one.
Purge(J) ==
    /\ state' = [j \in Job |-> IF j \in J THEN "absent" ELSE state[j]]
    /\ UNCHANGED holder

Next ==
    \/ \E j \in Job : \/ Enqueue(j) \/ ClaimLost(j) \/ Done(j) \/ Error(j) \/ LetGo(j)
                      \/ \E w \in Worker : Claim(j, w)
    \/ \E J \in SUBSET Job : Purge(J)

Spec == Init /\ [][Next]_<<state, holder>>
==============================================================================
