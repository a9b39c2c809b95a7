--------------------------- MODULE AttemptLifecycle ---------------------------
(***************************************************************************)
(* What becomes of a wake attempt, as anybody but the worker sees it.  It  *)
(* comes "pending" or "sent" from a request, or from a worker with the     *)
(* fate of its packet.  A worker settles what it polls: its own attempt,   *)
(* or a newer one, together with its own, that is "sent" then.  Nothing is *)
(* taken back, and the attempts of a machine that is gone never return.    *)
(***************************************************************************)
CONSTANT Attempt

VARIABLE
    stage   \* Attempt -> wake_attempts.status, "absent" until there is a row,
            \* "purged" once its machine is gone

Settled == {"online", "timeout"}

Init == stage = [a \in Attempt |-> "absent"]

\* A client's request is committed.
Request(a) ==
    /\ stage[a] = "absent"
    /\ \E s \in {"pending", "sent"} : stage' = [stage EXCEPT ![a] = s]

\* A worker's session is committed: it has sent a packet or failed to, and polled its own
\* attempt or none,
Work(a) ==
    /\ stage[a] = "absent"
    /\ \E s \in {"sent", "failed"} \union Settled : stage' = [stage EXCEPT ![a] = s]

\* or another.
WorkOn(a, b) ==
    /\ stage[a] = "absent"
    /\ stage[b] \in {"pending", "sent"}
    /\ \E s \in Settled : stage' = [stage EXCEPT ![a] = "sent", ![b] = s]

\* Any attempts may go, with their machine.
Purge ==
    \E gone \in SUBSET Attempt :
        stage' = [a \in Attempt |-> IF a \in gone THEN "purged" ELSE stage[a]]

Next ==
    \/ Purge
    \/ \E a \in Attempt : Request(a) \/ Work(a) \/ \E b \in Attempt : WorkOn(a, b)

Spec == Init /\ [][Next]_stage
===============================================================================
