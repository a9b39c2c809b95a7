---------------------------- MODULE WakePipeline ----------------------------
(***************************************************************************)
(* The wake pipeline of WoL-Monkey: the API process that records wake      *)
(* attempts and queues jobs, the queue table wake_jobs, the worker         *)
(* processes that claim jobs, send the packet and poll the machine, and    *)
(* the operator who edits or deletes machines meanwhile.                   *)
(*                                                                         *)
(* The tables are modelled as PostgreSQL shows them under READ COMMITTED:  *)
(* "status" and "job" are the committed columns, "txn" is what a worker's  *)
(* open transaction has written on top of them, and a row a transaction    *)
(* has written stays locked until it ends.  Attempt identifiers are handed *)
(* out in the order of started_at; a job is named by its attempt, the      *)
(* column attempt_id being unique.                                         *)
(***************************************************************************)
EXTENDS Naturals, FiniteSets

CONSTANTS Machine,      \* rows of the table machines
          Client,       \* requests the API process serves concurrently
          Worker,       \* worker processes (docker-compose.yml runs one)
          Kinds,        \* the kinds of wake requests clients make
          MaxRequests,  \* bound: wake requests ever made
          MaxTimeout,   \* the longest poll_timeout_s a request may ask for, in ticks
          MaxFaults,    \* bound: crashes, lost connections and SIGTERMs
          MaxEdits      \* bound: PATCH and DELETE requests on machines

ASSUME BoundsAssumption ==
    /\ Kinds \subseteq [by : {"api", "direct"}, ensure : BOOLEAN, timeout : 1 .. MaxTimeout]
    /\ MaxRequests \in Nat
    /\ MaxTimeout \in Nat \ {0}
    /\ MaxFaults \in Nat
    /\ MaxEdits \in Nat

\* Every request inserts an attempt, and so may the worker serving it.
MaxAttempts == 2 * MaxRequests
Id == 1 .. MaxAttempts
NoId == 0
Absent == "absent"          \* no such row

AttemptStatus == {"pending", "sent", "waking", "online", "failed", "timeout"}
Terminal == {"online", "failed", "timeout"}
Active == AttemptStatus \ Terminal
JobStatus == {"queued", "running", "done", "error"}

VARIABLES
    machine,  \* Machine -> "enabled", "disabled" or "gone"
    del,      \* Machine -> progress of the DELETE request on it
    status,   \* Id -> committed wake_attempts.status
    job,      \* Id -> committed wake_jobs.status of the job with this attempt_id
    info,     \* Id -> the columns of the attempt that never change
    age,      \* Id -> ticks since started_at, up to MaxTimeout
    stamp,    \* Id -> rank of the job's created_at
    last,     \* the newest attempt identifier handed out
    req,      \* Client -> the request being served
    pc,       \* Worker -> where run_worker is
    shutdown, \* Worker -> the flag _shutdown
    held,     \* Worker -> job_id it works on
    own,      \* Worker -> the attempt WakeService.wake created for that job
    run,      \* Worker -> run_id, the attempt EnsureOnlineService polls
    txn,      \* Worker -> statuses its open transaction has written
    outcome,  \* Id -> what became of the attempt's packet (history)
    faults,   \* faults so far (history, bounds the faults)
    edits     \* edits so far (bounds the edits)

tables  == <<status, job>>
created == <<info, age, last>>
workers == <<pc, shutdown, held, own, run, txn>>
admin   == <<machine, del, edits>>
vars == <<machine, del, status, job, info, age, stamp, last, req,
          pc, shutdown, held, own, run, txn, outcome, faults, edits>>

NoInfo == [machine |-> "none", by |-> "none", ensure |-> FALSE, timeout |-> 0, job |-> NoId]
Info == [machine : Machine, by : {"api", "worker", "direct"},
         ensure : BOOLEAN, timeout : 1 .. MaxTimeout, job : Id \union {NoId}]

Idle == [pc |-> "idle", id |-> NoId]
ReqPc == {"idle", "inserted", "committed", "queueing", "sending", "sent"}
WorkerPc == {"down", "idle", "claiming", "claimed", "creating", "sending",
             "picking", "starting", "polling", "probing", "processed",
             "poisoned", "committing", "failing"}

TypeOK ==
    /\ machine \in [Machine -> {"enabled", "disabled", "gone"}]
    /\ del \in [Machine -> {"none", "checked", "refused"}]
    /\ status \in [Id -> AttemptStatus \union {Absent}]
    /\ job \in [Id -> JobStatus \union {Absent}]
    /\ info \in [Id -> Info \union {NoInfo}]
    /\ age \in [Id -> 0 .. MaxTimeout]
    /\ stamp \in [Id -> Nat]
    /\ last \in 0 .. MaxAttempts
    /\ req \in [Client -> [pc : ReqPc, id : Id \union {NoId}]]
    /\ pc \in [Worker -> WorkerPc]
    /\ shutdown \in [Worker -> BOOLEAN]
    /\ held \in [Worker -> Id \union {NoId}]
    /\ own \in [Worker -> Id \union {NoId}]
    /\ run \in [Worker -> Id \union {NoId}]
    /\ txn \in [Worker -> [Id -> AttemptStatus \union {Absent}]]
    /\ outcome \in [Id -> {"none", "sent", "failed"}]
    /\ faults \in 0 .. MaxFaults
    /\ edits \in 0 .. MaxEdits

----------------------------------------------------------------------------
\* Transactions and locks.

Nothing == [a \in Id |-> Absent]

\* What worker w's session reads: its own writes over the committed rows.
View(w) == [a \in Id |-> IF txn[w][a] # Absent THEN txn[w][a] ELSE status[a]]

\* An UPDATE of row a waits while another open transaction has written it.
RowFree(w, a) == \A v \in Worker \ {w} : txn[v][a] = Absent

\* Mutant: the worker's new attempt does not lock the machine it refers to.
ReferencedByRequests(m) ==
    \E c \in Client : /\ req[c].pc \in {"inserted", "queueing", "sending", "sent"}
                      /\ info[req[c].id].machine = m

\* An uncommitted row keeps the machine it refers to from being deleted.
Referenced(m) ==
    \/ \E w \in Worker : own[w] # NoId /\ txn[w][own[w]] # Absent /\ info[own[w]].machine = m
    \/ \E c \in Client : /\ req[c].pc \in {"inserted", "queueing", "sending", "sent"}
                         /\ info[req[c].id].machine = m
    \/ \E w \in Worker : pc[w] = "claiming" /\ info[held[w]].machine = m

\* WakeAttemptModel's INSERT, by an open transaction: nothing is visible yet.
NewAttempt(m, by, ensure, timeout, j) ==
    /\ last < MaxAttempts
    /\ last' = last + 1
    /\ info' = [info EXCEPT ![last + 1] =
                    [machine |-> m, by |-> by, ensure |-> ensure, timeout |-> timeout, job |-> j]]
    /\ age' = age

Write(w, a, s) == txn' = [txn EXCEPT ![w][a] = s]
Goto(w, label) == pc' = [pc EXCEPT ![w] = label]
Reply(c) == req' = [req EXCEPT ![c] = Idle]
SetJob(j, s) == job' = [i \in Id |-> IF i = j /\ job[i] # Absent THEN s ELSE job[i]]
Fault == faults < MaxFaults /\ faults' = faults + 1

----------------------------------------------------------------------------
Requested == {a \in Id : info[a].by \in {"api", "direct"}}

\* POST /machines/{id}/wake: the attempt is committed before the job is queued.
\* (The look-up and the INSERT after it are one step, here and in DirectCreate: a machine
\* deleted in between makes the INSERT fail, and the request leaves nothing.)

WakeInsert(c, m, kind) ==
    /\ req[c].pc = "idle"
    /\ kind.by = "api"
    /\ Cardinality(Requested) < MaxRequests
    /\ machine[m] # "gone"
    /\ NewAttempt(m, "api", kind.ensure, kind.timeout, last + 1)
    /\ req' = [req EXCEPT ![c] = [pc |-> "inserted", id |-> last + 1]]
    /\ UNCHANGED <<tables, stamp, workers, admin, outcome, faults>>

WakeCommit(c) ==
    /\ req[c].pc = "inserted"
    /\ status' = [status EXCEPT ![req[c].id] = "pending"]
    /\ req' = [req EXCEPT ![c].pc = "committed"]
    /\ UNCHANGED <<job, created, stamp, workers, admin, outcome, faults>>

\* Mutant: the request answers without queueing a job.
EnqueueSkipped(c) ==
    /\ req[c].pc = "committed"
    /\ Reply(c)
    /\ UNCHANGED <<tables, created, stamp, workers, admin, outcome, faults>>

EnqueueInsert(c) ==
    /\ req[c].pc = "committed"
    /\ status[req[c].id] # Absent
    /\ stamp' = [stamp EXCEPT ![req[c].id] =
                    Cardinality({i \in Id : stamp[i] > 0}) + 1]
    /\ req' = [req EXCEPT ![c].pc = "queueing"]
    /\ UNCHANGED <<tables, created, workers, admin, outcome, faults>>

\* The machine was deleted since: the foreign keys refuse the job.
EnqueueRefused(c) ==
    /\ req[c].pc = "committed"
    /\ status[req[c].id] = Absent
    /\ Reply(c)
    /\ UNCHANGED <<tables, created, stamp, workers, admin, outcome, faults>>

EnqueueCommit(c) ==
    /\ req[c].pc = "queueing"
    /\ job' = [job EXCEPT ![req[c].id] = "queued"]
    /\ Reply(c)
    /\ UNCHANGED <<status, created, stamp, workers, admin, outcome, faults>>

\* POST /machines/{id}/wake/direct: WakeService in the request's own session,
\* whose transaction ends with the request.

DirectCreate(c, m, kind) ==
    /\ req[c].pc = "idle"
    /\ kind.by = "direct"
    /\ Cardinality(Requested) < MaxRequests
    /\ machine[m] = "enabled"
    /\ NewAttempt(m, "direct", kind.ensure, kind.timeout, NoId)
    /\ req' = [req EXCEPT ![c] = [pc |-> "sending", id |-> last + 1]]
    /\ UNCHANGED <<tables, stamp, workers, admin, outcome, faults>>

DirectSent(c) ==
    /\ req[c].pc = "sending"
    /\ outcome' = [outcome EXCEPT ![req[c].id] = "sent"]
    /\ req' = [req EXCEPT ![c].pc = "sent"]
    /\ UNCHANGED <<tables, created, stamp, workers, admin, faults>>

\* WakeError becomes an HTTPException, on which get_db_session rolls back.
DirectFailed(c) ==
    /\ req[c].pc = "sending"
    /\ outcome' = [outcome EXCEPT ![req[c].id] = "failed"]
    /\ Reply(c)
    /\ UNCHANGED <<tables, created, stamp, workers, admin, faults>>

DirectCommit(c) ==
    /\ req[c].pc = "sent"
    /\ status' = [status EXCEPT ![req[c].id] = "sent"]
    /\ Reply(c)
    /\ UNCHANGED <<job, created, stamp, workers, admin, outcome, faults>>

\* A request loses its database connection: the open transaction is rolled back.
RequestFails(c) ==
    /\ req[c].pc # "idle"
    /\ Fault
    /\ Reply(c)
    /\ UNCHANGED <<tables, created, stamp, workers, admin, outcome>>

\* The API process dies with every request in it.
ApiCrash ==
    /\ \E c \in Client : req[c].pc # "idle"
    /\ Fault
    /\ req' = [c \in Client |-> Idle]
    /\ UNCHANGED <<tables, created, stamp, workers, admin, outcome>>

----------------------------------------------------------------------------
\* PATCH and DELETE /machines/{id}.

ToggleEnabled(m) ==
    /\ machine[m] # "gone"
    /\ edits < MaxEdits
    /\ edits' = edits + 1
    /\ machine' = [machine EXCEPT ![m] = IF @ = "enabled" THEN "disabled" ELSE "enabled"]
    /\ UNCHANGED <<del, tables, created, stamp, req, workers, outcome, faults>>

\* The flush of the deletion first reads the machine's attempts, to set their
\* machine_id to NULL (the relationship has no passive_deletes): with one there,
\* NOT NULL refuses it and the request fails.
DeleteCheck(m) ==
    /\ machine[m] # "gone"
    /\ del[m] # "checked"
    /\ edits < MaxEdits
    /\ edits' = edits + 1
    /\ del' = [del EXCEPT ![m] =
                  IF \E a \in Id : info[a].machine = m /\ status[a] # Absent
                  THEN "refused" ELSE "checked"]
    /\ UNCHANGED <<machine, tables, created, stamp, req, workers, outcome, faults>>

\* The DELETE itself waits for the transactions whose new rows refer to the
\* machine, and cascades to the attempts and jobs committed meanwhile.
DeleteMachine(m) ==
    /\ del[m] = "checked"
    /\ ~ Referenced(m)
    /\ machine' = [machine EXCEPT ![m] = "gone"]
    /\ del' = [del EXCEPT ![m] = "none"]
    /\ status' = [a \in Id |-> IF info[a].machine = m THEN Absent ELSE status[a]]
    /\ job' = [a \in Id |-> IF info[a].machine = m THEN Absent ELSE job[a]]
    /\ UNCHANGED <<created, stamp, req, workers, outcome, faults, edits>>

\* The clock, as far as any elapsed >= timeout_s can tell.
Tick ==
    /\ \E a \in 1 .. last : age[a] < MaxTimeout
    /\ age' = [a \in Id |-> IF a =< last /\ age[a] < MaxTimeout THEN age[a] + 1 ELSE age[a]]
    /\ UNCHANGED <<tables, info, last, stamp, req, workers, admin, outcome, faults>>

----------------------------------------------------------------------------
\* JobQueue.claim_next: SELECT ... FOR UPDATE SKIP LOCKED, then COMMIT.

\* Mutant: no FOR UPDATE: a job another worker is claiming is still up for grabs.
ClaimableUnlocked == {j \in Id : job[j] = "queued"}

\* Mutant: jobs left running are picked up again.
ClaimableAgain == {j \in Id : /\ job[j] \in {"queued", "running"}
                              /\ \A v \in Worker : held[v] # j}

Claimable == {j \in Id : /\ job[j] = "queued"
                         /\ \A v \in Worker : pc[v] = "claiming" => held[v] # j}

ClaimNothing(w) ==
    /\ pc[w] = "idle"
    /\ ~ shutdown[w]
    /\ Claimable = {}
    /\ UNCHANGED vars

ClaimLock(w) ==
    /\ pc[w] = "idle"
    /\ ~ shutdown[w]
    /\ \E j \in Claimable :
          /\ \A i \in Claimable : stamp[j] =< stamp[i]
          /\ held' = [held EXCEPT ![w] = j]
    /\ Goto(w, "claiming")
    /\ UNCHANGED <<tables, created, stamp, req, shutdown, own, run, txn, admin, outcome, faults>>

ClaimCommit(w) ==
    /\ pc[w] = "claiming"
    /\ SetJob(held[w], "running")
    /\ Goto(w, "claimed")
    /\ UNCHANGED <<status, created, stamp, req, shutdown, held, own, run, txn, admin, outcome, faults>>

----------------------------------------------------------------------------
\* _process_job, first half: WakeService.wake in the worker's session.  Whatever
\* it raises is logged and swallowed: the job counts as processed.

\* Mutant: the refusal ends the loop body, as if the exception were not swallowed
\* and the handler forgot the job.
WakeRefusedDropped(w) ==
    /\ pc[w] = "claimed"
    /\ machine[info[held[w]].machine] # "enabled"
    /\ held' = [held EXCEPT ![w] = NoId]
    /\ Goto(w, "idle")
    /\ UNCHANGED <<tables, created, stamp, req, shutdown, own, run, txn, admin, outcome, faults>>

WakeRefused(w) ==
    /\ pc[w] = "claimed"
    /\ machine[info[held[w]].machine] # "enabled"
    /\ Goto(w, "processed")
    /\ UNCHANGED <<tables, created, stamp, req, shutdown, held, own, run, txn, admin, outcome, faults>>

\* The machine that get_by_id has returned is enabled: the rest of wake uses this copy.
WakeAllowed(w) ==
    /\ pc[w] = "claimed"
    /\ machine[info[held[w]].machine] = "enabled"
    /\ Goto(w, "creating")
    /\ UNCHANGED <<tables, created, stamp, req, shutdown, held, own, run, txn, admin, outcome, faults>>

WakeCreate(w) ==
    /\ pc[w] = "creating"
    /\ machine[info[held[w]].machine] # "gone"
    /\ NewAttempt(info[held[w]].machine, "worker", info[held[w]].ensure,
                  info[held[w]].timeout, held[w])
    /\ own' = [own EXCEPT ![w] = last + 1]
    /\ Write(w, last + 1, "pending")
    /\ Goto(w, "sending")
    /\ UNCHANGED <<tables, stamp, req, shutdown, held, run, admin, outcome, faults>>

\* The machine was deleted since: the foreign key refuses the attempt.  The exception is
\* swallowed, but the session is left unusable.
CreateRefused(w) ==
    /\ pc[w] = "creating"
    /\ machine[info[held[w]].machine] = "gone"
    /\ Goto(w, "poisoned")
    /\ UNCHANGED <<tables, created, stamp, req, shutdown, held, own, run, txn, admin, outcome, faults>>

WakeSent(w) ==
    /\ pc[w] = "sending"
    /\ outcome' = [outcome EXCEPT ![own[w]] = "sent"]
    /\ Write(w, own[w], "sent")
    /\ Goto(w, IF info[held[w]].ensure THEN "picking" ELSE "processed")
    /\ UNCHANGED <<tables, created, stamp, req, shutdown, held, own, run, admin, faults>>

WakeFailed(w) ==
    /\ pc[w] = "sending"
    /\ outcome' = [outcome EXCEPT ![own[w]] = "failed"]
    /\ Write(w, own[w], "failed")
    /\ Goto(w, "processed")
    /\ UNCHANGED <<tables, created, stamp, req, shutdown, held, own, run, admin, faults>>

\* _process_job, second half: get_active_for_machine, then EnsureOnlineService.run
\* on the attempt it returned.

ActiveFor(w, m) == {a \in Id : info[a].machine = m /\ View(w)[a] \in Active}

\* Mutant: the oldest active attempt is polled (ORDER BY started_at without DESC).
PickOldest(w) ==
    /\ pc[w] = "picking"
    /\ \E a \in ActiveFor(w, info[held[w]].machine) :
          /\ \A b \in ActiveFor(w, info[held[w]].machine) : b >= a
          /\ run' = [run EXCEPT ![w] = a]
    /\ Goto(w, "starting")
    /\ UNCHANGED <<tables, created, stamp, req, shutdown, held, own, txn, admin, outcome, faults>>

\* Mutant: any attempt of the machine is polled, whatever its status.
PickAny(w) ==
    /\ pc[w] = "picking"
    /\ \E a \in Id :
          /\ info[a].machine = info[held[w]].machine /\ View(w)[a] # Absent
          /\ run' = [run EXCEPT ![w] = a]
    /\ Goto(w, "starting")
    /\ UNCHANGED <<tables, created, stamp, req, shutdown, held, own, txn, admin, outcome, faults>>

PickActive(w) ==
    /\ pc[w] = "picking"
    /\ \E a \in ActiveFor(w, info[held[w]].machine) :
          /\ \A b \in ActiveFor(w, info[held[w]].machine) : b =< a
          /\ run' = [run EXCEPT ![w] = a]
    /\ Goto(w, "starting")
    /\ UNCHANGED <<tables, created, stamp, req, shutdown, held, own, txn, admin, outcome, faults>>

\* Mutant: update_status commits what it wrote.
StartWakingCommitted(w) ==
    /\ pc[w] = "starting"
    /\ RowFree(w, run[w])
    /\ status' = [View(w) EXCEPT ![run[w]] = "waking"]
    /\ Write(w, run[w], "waking")
    /\ Goto(w, "polling")
    /\ UNCHANGED <<job, created, stamp, req, shutdown, held, own, run, admin, outcome, faults>>

StartWaking(w) ==
    /\ pc[w] = "starting"
    /\ RowFree(w, run[w])
    /\ Write(w, run[w], "waking")
    /\ Goto(w, "polling")
    /\ UNCHANGED <<tables, created, stamp, req, shutdown, held, own, run, admin, outcome, faults>>

\* Mutant: the deadline is taken anew at every turn of the loop.
PollTimeoutNever(w) ==
    /\ pc[w] = "polling"
    /\ age[run[w]] > info[run[w]].timeout
    /\ UNCHANGED vars

PollTimeout(w) ==
    /\ pc[w] = "polling"
    /\ age[run[w]] >= info[run[w]].timeout
    /\ Write(w, run[w], "timeout")
    /\ Goto(w, "processed")
    /\ UNCHANGED <<tables, created, stamp, req, shutdown, held, own, run, admin, outcome, faults>>

PollProbe(w) ==
    /\ pc[w] = "polling"
    /\ age[run[w]] < info[run[w]].timeout
    /\ Goto(w, "probing")
    /\ UNCHANGED <<tables, created, stamp, req, shutdown, held, own, run, txn, admin, outcome, faults>>

ProbeOnline(w) ==
    /\ pc[w] = "probing"
    /\ Write(w, run[w], "online")
    /\ Goto(w, "processed")
    /\ UNCHANGED <<tables, created, stamp, req, shutdown, held, own, run, admin, outcome, faults>>

ProbeOffline(w) ==
    /\ pc[w] = "probing"
    /\ Goto(w, "polling")
    /\ UNCHANGED <<tables, created, stamp, req, shutdown, held, own, run, txn, admin, outcome, faults>>

----------------------------------------------------------------------------
\* run_worker, after _process_job: mark_done in a session of its own, then the
\* commit of the session that did the work; on any exception rollback, then
\* mark_error.

Forget(w) ==
    /\ held' = [held EXCEPT ![w] = NoId]
    /\ own' = [own EXCEPT ![w] = NoId]
    /\ run' = [run EXCEPT ![w] = NoId]
    /\ txn' = [txn EXCEPT ![w] = Nothing]

\* Mutant: a status the column's check constraint does not list.
MarkDoneMisspelt(w) ==
    /\ pc[w] \in {"processed", "poisoned"}
    /\ SetJob(held[w], "completed")
    /\ Goto(w, IF pc[w] = "poisoned" THEN "failing" ELSE "committing")
    /\ UNCHANGED <<status, created, stamp, req, shutdown, held, own, run, txn, admin, outcome, faults>>

MarkDone(w) ==
    /\ pc[w] \in {"processed", "poisoned"}
    /\ SetJob(held[w], "done")
    /\ Goto(w, IF pc[w] = "poisoned" THEN "failing" ELSE "committing")
    /\ UNCHANGED <<status, created, stamp, req, shutdown, held, own, run, txn, admin, outcome, faults>>

\* Mutant: the session is closed without a commit.
CommitForgotten(w) ==
    /\ pc[w] = "committing"
    /\ Forget(w)
    /\ Goto(w, "idle")
    /\ UNCHANGED <<tables, created, stamp, req, shutdown, admin, outcome, faults>>

Commit(w) ==
    /\ pc[w] = "committing"
    /\ status' = View(w)
    /\ Forget(w)
    /\ Goto(w, "idle")
    /\ UNCHANGED <<job, created, stamp, req, shutdown, admin, outcome, faults>>

\* Mutant: a job that failed is queued again.
MarkErrorRetry(w) ==
    /\ pc[w] = "failing"
    /\ SetJob(held[w], "queued")
    /\ Forget(w)
    /\ Goto(w, "idle")
    /\ UNCHANGED <<status, created, stamp, req, shutdown, admin, outcome, faults>>

MarkError(w) ==
    /\ pc[w] = "failing"
    /\ SetJob(held[w], "error")
    /\ Forget(w)
    /\ Goto(w, "idle")
    /\ UNCHANGED <<status, created, stamp, req, shutdown, admin, outcome, faults>>

\* What a lost database connection does, by where it hits the loop.  A commit
\* that raises may or may not have taken effect.

ClaimFails(w) ==
    /\ pc[w] = "claiming"
    /\ Fault
    /\ \/ SetJob(held[w], "running")
       \/ UNCHANGED job
    /\ Forget(w)
    /\ Goto(w, "idle")
    /\ UNCHANGED <<status, created, stamp, req, shutdown, admin, outcome>>

\* Inside WakeService.wake the exception is swallowed, but the session is left
\* unusable: its commit will raise.  The packet may have left already.
WakePoisoned(w) ==
    /\ pc[w] \in {"claimed", "creating", "sending"}
    /\ Fault
    /\ \/ pc[w] = "sending" /\ outcome' = [outcome EXCEPT ![own[w]] = "sent"]
       \/ UNCHANGED outcome
    /\ txn' = [txn EXCEPT ![w] = Nothing]
    /\ Goto(w, "poisoned")
    /\ UNCHANGED <<tables, created, stamp, req, shutdown, held, own, run, admin>>

WorkFails(w) ==
    /\ pc[w] \in {"picking", "starting", "polling", "probing", "processed", "poisoned"}
    /\ Fault
    /\ txn' = [txn EXCEPT ![w] = Nothing]
    /\ Goto(w, "failing")
    /\ UNCHANGED <<tables, created, stamp, req, shutdown, held, own, run, admin, outcome>>

CommitFails(w) ==
    /\ pc[w] = "committing"
    /\ Fault
    /\ status' \in {status, View(w)}
    /\ txn' = [txn EXCEPT ![w] = Nothing]
    /\ Goto(w, "failing")
    /\ UNCHANGED <<job, created, stamp, req, shutdown, held, own, run, admin, outcome>>

MarkErrorFails(w) ==
    /\ pc[w] = "failing"
    /\ Fault
    /\ Forget(w)
    /\ Goto(w, "idle")
    /\ UNCHANGED <<tables, created, stamp, req, shutdown, admin, outcome>>

\* SIGTERM is noticed at the head of the loop; a kill is not noticed at all.

Signal(w) ==
    /\ pc[w] # "down"
    /\ ~ shutdown[w]
    /\ Fault
    /\ shutdown' = [shutdown EXCEPT ![w] = TRUE]
    /\ UNCHANGED <<tables, created, stamp, req, pc, held, own, run, txn, admin, outcome>>

Exit(w) ==
    /\ pc[w] = "idle"
    /\ shutdown[w]
    /\ Goto(w, "down")
    /\ UNCHANGED <<tables, created, stamp, req, shutdown, held, own, run, txn, admin, outcome, faults>>

WorkerCrash(w) ==
    /\ pc[w] # "down"
    /\ Fault
    /\ Forget(w)
    /\ Goto(w, "down")
    /\ UNCHANGED <<tables, created, stamp, req, shutdown, admin, outcome>>

\* Mutant: the container is not restarted.
RestartNever(w) ==
    /\ pc[w] = "down"
    /\ UNCHANGED vars

Restart(w) ==
    /\ pc[w] = "down"
    /\ Goto(w, "idle")
    /\ shutdown' = [shutdown EXCEPT ![w] = FALSE]
    /\ UNCHANGED <<tables, created, stamp, req, held, own, run, txn, admin, outcome, faults>>

----------------------------------------------------------------------------
Init ==
    /\ machine \in [Machine -> {"enabled", "disabled"}]
    /\ del = [m \in Machine |-> "none"]
    /\ status = Nothing
    /\ job = Nothing
    /\ info = [a \in Id |-> NoInfo]
    /\ age = [a \in Id |-> 0]
    /\ stamp = [a \in Id |-> 0]
    /\ last = 0
    /\ req = [c \in Client |-> Idle]
    /\ pc = [w \in Worker |-> "idle"]
    /\ shutdown = [w \in Worker |-> FALSE]
    /\ held = [w \in Worker |-> NoId]
    /\ own = [w \in Worker |-> NoId]
    /\ run = [w \in Worker |-> NoId]
    /\ txn = [w \in Worker |-> Nothing]
    /\ outcome = [a \in Id |-> "none"]
    /\ faults = 0
    /\ edits = 0

\* The steps a request takes by itself once the client has sent it.
RequestStep(c) ==
    \/ WakeCommit(c) \/ EnqueueInsert(c) \/ EnqueueRefused(c) \/ EnqueueCommit(c)
    \/ DirectSent(c) \/ DirectFailed(c) \/ DirectCommit(c)

\* The steps run_worker takes by itself.
WorkerStep(w) ==
    \/ ClaimLock(w) \/ ClaimCommit(w)
    \/ WakeRefused(w) \/ WakeAllowed(w) \/ WakeCreate(w) \/ CreateRefused(w)
    \/ WakeSent(w) \/ WakeFailed(w)
    \/ PickActive(w) \/ StartWaking(w)
    \/ PollTimeout(w) \/ PollProbe(w) \/ ProbeOnline(w) \/ ProbeOffline(w)
    \/ MarkDone(w) \/ Commit(w) \/ MarkError(w)
    \/ Exit(w) \/ Restart(w)

WorkerFault(w) ==
    \/ ClaimFails(w) \/ WakePoisoned(w) \/ WorkFails(w) \/ CommitFails(w)
    \/ MarkErrorFails(w) \/ Signal(w) \/ WorkerCrash(w)

Next ==
    \/ \E c \in Client, m \in Machine, kind \in Kinds :
          WakeInsert(c, m, kind) \/ DirectCreate(c, m, kind)
    \/ \E c \in Client : RequestStep(c) \/ RequestFails(c)
    \/ ApiCrash
    \/ \E m \in Machine : ToggleEnabled(m) \/ DeleteCheck(m) \/ DeleteMachine(m)
    \/ Tick
    \/ \E w \in Worker : ClaimNothing(w) \/ WorkerStep(w) \/ WorkerFault(w)

Spec == Init /\ [][Next]_vars

\* Requests run to their end, the worker's loop keeps turning (its container is
\* restarted unless stopped) and time passes.
Fairness ==
    /\ \A c \in Client : WF_vars(RequestStep(c))
    /\ \A w \in Worker : WF_vars(WorkerStep(w))
    /\ WF_vars(Tick)

FairSpec == Spec /\ Fairness

----------------------------------------------------------------------------
\* Safety.

Working(w) == held[w] # NoId /\ pc[w] # "claiming"
Unattended(j) == \A w \in Worker : held[w] # j

\* A job is in the hands of at most one worker, from the SELECT ... FOR UPDATE SKIP
\* LOCKED that picks it to the end of the loop body (job_queue.py:25-42).
JobHeldOnce ==
    \A v, w \in Worker : held[v] # NoId /\ held[v] = held[w] => v = w

\* A job has the magic packet sent at most once, whatever crashes and restarts:
\* a job that left "queued" is never claimed again (main.py:97-107).
OnePacketPerJob ==
    \A a, b \in Id :
        /\ info[a].by = "worker" /\ info[b].by = "worker"
        /\ info[a].job = info[b].job
        /\ outcome[a] # "none" /\ outcome[b] # "none"
        => a = b

\* Every row refers to rows that exist, the rows a transaction has yet to commit
\* included, although the machine may be deleted at any time (models.py:96, 128).  So the
\* poller's attempt is never missing: the foreign key of the uncommitted own attempt keeps
\* the machine while the job is polled, and neither the "not found" returns of run
\* (ensure_online.py:39-51) nor the fallback of main.py:70 are ever taken.
ReferencesHold ==
    /\ \A a \in Id : status[a] # Absent => machine[info[a].machine] # "gone"
    /\ \A j \in Id : job[j] # Absent => status[j] # Absent
    /\ \A w \in Worker : \A a \in Id :
          txn[w][a] # Absent => machine[info[a].machine] # "gone"
    /\ \A w \in Worker : pc[w] = "picking" => ActiveFor(w, info[held[w]].machine) # {}
    /\ \A w \in Worker :
          pc[w] \in {"starting", "polling", "probing"} =>
              View(w)[run[w]] # Absent /\ machine[info[run[w]].machine] # "gone"

\* EnsureOnlineService polls the attempt the job's own packet was sent for or a
\* newer one, never an older one such as the request's own, which stays active
\* for good (repositories.py:278: started_at DESC).
PollsOwnOrNewer ==
    \A w \in Worker : run[w] # NoId => own[w] # NoId /\ own[w] =< run[w]

\* The steps of a job's work are committed together (main.py:107): nobody outside
\* the worker ever sees a "waking" attempt, or a worker's attempt still "pending".
PartialWorkInvisible ==
    \A a \in Id :
        /\ status[a] # "waking"
        /\ info[a].by = "worker" => status[a] # "pending"

\* Unless something failed, a job marked done and let go of has the fate of its
\* packet on record (main.py:105-107, wake.py:68-77).
DoneIsRecorded ==
    \A j \in Id :
        job[j] = "done" /\ Unattended(j) /\ faults = 0 =>
            \A a \in Id :
                info[a].by = "worker" /\ info[a].job = j =>
                    status[a] \in IF outcome[a] = "failed" THEN {"failed"}
                                  ELSE {"sent", "online", "timeout"}

\* Unless something failed, a committed attempt of a finished request has its job
\* in the queue: the two are not one transaction (api/wake.py:99-104).
AttemptIsQueued ==
    \A a \in Id :
        /\ info[a].by = "api" /\ status[a] # Absent /\ faults = 0
        /\ \A c \in Client : req[c].id # a
        => job[a] # Absent

\* Unless something failed, a running job has a worker at work on it: nothing else
\* would ever move it on (job_queue.py:28 selects queued jobs only).
RunningIsAttended ==
    \A j \in Id : job[j] = "running" /\ faults = 0 => \E w \in Worker : held[w] = j

\* A status that is_terminal never changes again, short of the row's deletion
\* (wake_attempt.py:31-33).  It takes a single worker: update_status checks nothing.
TerminalIsFinal ==
    [][\A a \in Id : status[a] \in Terminal => status'[a] \in {status[a], Absent}]_vars

\* A job that times out has had the whole poll_timeout_s of the attempt it polled, counted
\* from the creation of its own attempt: that of another request counts from an earlier time
\* only if the job's own would, too (ensure_online.py:55, 61, 73-74; main.py:69).  It need
\* not have had the poll_timeout_s its own request asked for.
FullWindow ==
    [][\A w \in Worker :
          pc[w] = "polling" /\ pc'[w] = "processed" =>
              age[own[w]] >= info[run[w]].timeout]_vars

----------------------------------------------------------------------------
\* The queue table keeps the promise of JobLedger: a worker holds a job from the
\* commit of its claim on.

Ledger == INSTANCE JobLedger WITH
    Job <- Id,
    Nobody <- "nobody",
    state <- job,
    holder <- [j \in Id |->
                  IF \E w \in Worker : Working(w) /\ held[w] = j
                  THEN CHOOSE w \in Worker : Working(w) /\ held[w] = j
                  ELSE "nobody"]

\* Every step of the pipeline is a step of the ledger or leaves it alone.
LedgerKept == Ledger!Spec

\* The attempts have the lifecycle of AttemptLifecycle.
Lifecycle == INSTANCE AttemptLifecycle WITH
    Attempt <- Id,
    stage <- [a \in Id |-> IF info[a] # NoInfo /\ machine[info[a].machine] = "gone"
                          THEN "purged" ELSE status[a]]

\* What is committed of an attempt moves on as its lifecycle says, and a terminal status is
\* never taken back (wake_attempt.py:31-33).  It takes a single worker: update_status
\* checks nothing.
LifecycleKept == Lifecycle!Spec

----------------------------------------------------------------------------
\* Liveness.

\* A queued job leaves the queue, although workers crash, lose their connection
\* while claiming or wait for each other's locks (main.py:97-115).
QueuedIsClaimed == \A j \in Id : job[j] = "queued" ~> job[j] # "queued"

\* Unless something failed, a running job is reported on: neither the probe loop
\* (ensure_online.py:72-103) nor another worker's row lock holds it for ever.
RunningIsFinished ==
    \A j \in Id : job[j] = "running" ~> (job[j] # "running" \/ faults > 0)

============================================================================
