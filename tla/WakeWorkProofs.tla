--------------------------- MODULE WakeWorkProofs ----------------------------
(***************************************************************************)
(* What becomes of the work, for any machines, clients, workers and bounds.*)
(*                                                                         *)
(* WInv extends IInv to the workers' open transactions: which rows they    *)
(* hold by where run_worker is (LocalShape, OpenRows, Written), what the   *)
(* rows they refer to must still be (Referring, RequestRows), and which    *)
(* fate is on record where (FailedRows, Undisturbed, FatesRecorded).  From *)
(* it follow the invariants of WakePipeline that are about visible work,   *)
(* that the queue keeps JobLedger's promises (HeldStatus adds what the row *)
(* of a worker's job may say), that a job times out no earlier than the    *)
(* attempt it polled allows (Elders), and, with one worker, that terminal  *)
(* attempts stay so (OneOpen) and attempts have the lifecycle of           *)
(* AttemptLifecycle (WorkIsDone).                                          *)
(***************************************************************************)
EXTENDS WakePipelineProofs

----------------------------------------------------------------------------
\* The inductive invariant, on top of IInv.

\* Rows handed out have real columns, the others have left no trace.
Traces ==
    /\ \A a \in Id : a =< last => info[a] \in Info
    /\ \A a \in Id : a > last => status[a] = Absent /\ age[a] = 0
    /\ \A w \in Worker : run[w] =< last

\* An attempt is at least as old as those created after it.
Elders == \A a, b \in Id : a =< b => age[b] =< age[a]

\* A worker's attempt, and the one it polls, are for the machine of the job.
SameMachine ==
    /\ \A a \in Id : info[a].by = "worker" => info[a].machine = info[info[a].job].machine
    /\ \A w \in Worker : run[w] # NoId => info[run[w]].machine = info[held[w]].machine

\* What run_worker has in its local variables, by where it is.
LocalShape ==
    \A w \in Worker :
        /\ pc[w] \in {"idle", "down", "claiming", "claimed", "creating"} => own[w] = NoId /\ run[w] = NoId
        /\ pc[w] \in {"sending", "picking"} => run[w] = NoId
        /\ pc[w] \in {"sending", "picking", "starting", "polling", "probing"} => own[w] # NoId
        /\ pc[w] \in {"starting", "polling", "probing"} => run[w] # NoId
        /\ run[w] # NoId => own[w] # NoId /\ own[w] =< run[w]

\* The rows worker w's transaction may have written: its own attempt, not visible to
\* anybody else, and a committed one.
OpenRows ==
    \A w \in Worker :
        /\ \A a \in Id : txn[w][a] # Absent =>
              /\ own[w] # NoId /\ txn[w][own[w]] # Absent
              /\ a = own[w] \/ (a = run[w] /\ status[a] # Absent)
        /\ own[w] # NoId /\ txn[w][own[w]] # Absent => status[own[w]] = Absent
        /\ pc[w] = "starting" => run[w] = own[w] \/ status[run[w]] # Absent

\* What it has written, by where it is.
Written ==
    \A w \in Worker :
        /\ \A a \in Id : /\ txn[w][a] = "pending" => pc[w] = "sending"
                         /\ txn[w][a] = "waking" => pc[w] \in {"polling", "probing"} /\ a = run[w]
                         /\ txn[w][a] = "failed" => outcome[a] = "failed"
                         /\ pc[w] \in {"poisoned", "failing"} => txn[w][a] = Absent
        /\ pc[w] = "sending" => txn[w][own[w]] = "pending"
        /\ pc[w] \in {"picking", "starting"} => txn[w][own[w]] = "sent"
        /\ pc[w] \in {"polling", "probing"} =>
              txn[w][own[w]] # Absent /\ txn[w][run[w]] = "waking"

\* Rows refer to rows that exist.
Referring ==
    /\ \A a \in Id : status[a] # Absent => machine[info[a].machine] # "gone"
    /\ \A j \in Id : job[j] # Absent => status[j] # Absent
    /\ \A w \in Worker : \A a \in Id :
          txn[w][a] # Absent => machine[info[a].machine] # "gone"

\* The row a request has inserted, before and after its commit.
RequestRows ==
    \A c \in Client :
        /\ req[c].pc \in {"inserted", "sending", "sent"} =>
              status[req[c].id] = Absent /\ machine[info[req[c].id].machine] # "gone"
        /\ req[c].pc = "queueing" => status[req[c].id] # Absent
        /\ req[c].pc = "inserted" => outcome[req[c].id] = "none"
        /\ req[c].pc = "sent" => outcome[req[c].id] = "sent"

\* An attempt whose packet could not be sent is never polled.
FailedRows ==
    \A a \in Id : outcome[a] = "failed" =>
        /\ status[a] \in {Absent, "failed"}
        /\ \A w \in Worker : txn[w][a] \in {Absent, "failed"} /\ ~ (pc[w] = "starting" /\ run[w] = a)

\* The fate of the packet is on record.
Recorded(a) ==
    status[a] \in IF outcome[a] = "failed" THEN {"failed"} ELSE {"sent", "online", "timeout"}

\* The session that did the work is committed after its job has left "running".
MarkedFirst == \A w \in Worker : pc[w] = "committing" => job[held[w]] # "running"

\* Unless something failed, no transaction that has inserted an attempt has been rolled back.
Undisturbed ==
    faults = 0 => \A w \in Worker : own[w] # NoId => txn[w][own[w]] # Absent

\* Unless something failed, an attempt is in its worker's hands or its fate on record.
FatesRecorded ==
    \A a \in Id :
        info[a].by = "worker" /\ job[info[a].job] # Absent /\ faults = 0 =>
            Recorded(a) \/ \E w \in Worker : own[w] = a

WInv == /\ IInv /\ Traces /\ Elders /\ SameMachine /\ LocalShape /\ OpenRows /\ Written
        /\ Referring /\ RequestRows /\ FailedRows /\ PartialWorkInvisible
        /\ MarkedFirst /\ Undisturbed /\ RunningIsAttended /\ AttemptIsQueued /\ FatesRecorded

\* The attempts a worker polls can be compared with the last identifier.
LEMMA RunInNat == TypeOK => \A w \in Worker : run[w] \in Nat
<1>1. \A x \in Id \union {NoId} : x \in Nat
  BY IdsAreNaturals DEF NoId
<1> QED
  BY <1>1 DEF TypeOK

\* An attempt is in the hands of one worker at most, like the job it is for.
LEMMA OwnIsPrivate ==
    WorkerShape /\ JobHeldOnce =>
        \A v, w \in Worker : own[v] # NoId /\ own[v] = own[w] => v = w
BY DEF WorkerShape, JobHeldOnce

\* Rows that anybody can see, or that a request is at work on, have a machine.
LEMMA RowsAreReal ==
    ASSUME WInv
    PROVE  /\ \A a \in Id : status[a] # Absent => info[a] \in Info
           /\ \A w \in Worker, a \in Id : txn[w][a] # Absent => info[a] \in Info
           /\ \A c \in Client : req[c].id # NoId => info[req[c].id] \in Info
           /\ \A i \in Info : i.machine \in Machine
<1>1. last \in Nat /\ \A a \in Id : a \in Nat
  BY IdsAreNaturals DEF WInv, IInv, TypeOK
<1>2. \A a \in Id : status[a] # Absent => info[a] \in Info
  BY <1>1 DEF WInv, Traces
<1>3. \A w \in Worker : own[w] \in Id \union {NoId} /\ run[w] \in Id \union {NoId}
  BY DEF WInv, IInv, TypeOK
<1>4. \A w \in Worker, a \in Id : txn[w][a] # Absent => info[a] \in Info
  <2> SUFFICES ASSUME NEW w \in Worker, NEW a \in Id, txn[w][a] # Absent
               PROVE  info[a] \in Info
    OBVIOUS
  <2>1. a = own[w] \/ a = run[w]
    BY DEF WInv, OpenRows
  <2>2. a =< last
    BY <2>1 DEF WInv, Traces, IInv, Issued
  <2> QED
    BY <2>2 DEF WInv, Traces
<1>5. \A c \in Client : req[c].id # NoId => info[req[c].id] \in Info
  BY DEF WInv, Traces, IInv, Issued, TypeOK
<1>6. \A i \in Info : i.machine \in Machine
  BY DEF Info
<1> QED
  BY <1>2, <1>4, <1>5, <1>6

\* What a new row is, and that nothing spoke of it before.
NewRow(row) ==
    /\ last + 1 \in Id /\ last' = last + 1 /\ UNCHANGED age
    /\ info'[last + 1] = row
    /\ \A a \in Id : a # last + 1 => info'[a] = info[a]
    /\ \A a \in Id : a =< last' => info'[a] \in Info
    /\ \A a \in Id : a > last' => a > last
    /\ \A w \in Worker : run[w] =< last' /\ own[w] =< last'
    /\ \A w \in Worker : held[w] # last + 1 /\ own[w] # last + 1 /\ run[w] # last + 1
    /\ \A c \in Client : req[c].id # last + 1
    /\ \A a \in Id : info[a].job # last + 1
    /\ status[last + 1] = Absent /\ job[last + 1] = Absent
    /\ outcome[last + 1] = "none" /\ info[last + 1] = NoInfo
    /\ \A w \in Worker : txn[w][last + 1] = Absent

\* NewAttempt hands out an identifier nobody has.
LEMMA NewRowFacts ==
    ASSUME WInv, NEW m \in Machine, NEW by \in {"api", "worker", "direct"},
           NEW ensure \in BOOLEAN, NEW timeout \in 1 .. MaxTimeout,
           NEW j \in Id \union {NoId}, NewAttempt(m, by, ensure, timeout, j)
    PROVE  NewRow([machine |-> m, by |-> by, ensure |-> ensure, timeout |-> timeout, job |-> j])
<1> DEFINE new == last + 1
<1>1. TypeOK /\ Fresh /\ Issued /\ Traces /\ OpenRows
  BY DEF WInv, IInv
<1>2. last \in Nat /\ new \in Id /\ last' = new /\ UNCHANGED age
  BY <1>1, NewAttemptFacts DEF NewAttempt
<1>3. info'[new] = [machine |-> m, by |-> by, ensure |-> ensure, timeout |-> timeout, job |-> j]
  BY <1>1, <1>2 DEF TypeOK, NewAttempt
<1>4. info'[new] \in Info
  BY <1>3 DEF Info
<1>5. \A a \in Id : a # new => info'[a] = info[a]
  BY <1>1, NewAttemptFacts
<1>6. \A a \in Id : a \in Nat
  BY IdsAreNaturals
<1>7. \A a \in Id : a =< last' => info'[a] \in Info
  <2> SUFFICES ASSUME NEW a \in Id, a =< last', a # new
               PROVE  info'[a] \in Info
    BY <1>4
  <2>1. a =< last
    BY <1>2, <1>6
  <2> QED
    BY <2>1, <1>1, <1>5 DEF Traces
<1>8. /\ \A w \in Worker : run[w] \in Nat /\ run[w] =< last
      /\ \A w \in Worker : held[w] \in Nat /\ own[w] \in Nat /\ held[w] =< last /\ own[w] =< last
      /\ \A c \in Client : req[c].id \in Nat /\ req[c].id =< last
      /\ \A a \in Id : info[a].job \in Nat /\ info[a].job =< last
  BY <1>1, RunInNat, HeldInNat, JobOfInfo DEF Traces, Issued
<1>9. /\ \A a \in Id : a > last' => a > last
      /\ \A w \in Worker : run[w] =< last' /\ own[w] =< last'
      /\ \A w \in Worker : held[w] # new /\ own[w] # new /\ run[w] # new
      /\ \A c \in Client : req[c].id # new
      /\ \A a \in Id : info[a].job # new
  BY <1>2, <1>6, <1>8
<1>10. new > last
  BY <1>2
<1>11. /\ status[new] = Absent /\ job[new] = Absent
       /\ outcome[new] = "none" /\ info[new] = NoInfo
  BY <1>1, <1>2, <1>10 DEF Traces, Fresh
<1>12. \A w \in Worker : txn[w][new] = Absent
  BY <1>1, <1>2, <1>9 DEF OpenRows
<1> QED
  BY <1>2, <1>3, <1>5, <1>7, <1>9, <1>11, <1>12 DEF NewRow

\* A request inserts its row: nothing spoke of the identifier before.
LEMMA RowInsertStep ==
    ASSUME WInv, IInv', NEW c \in Client, NEW m \in Machine, NEW by \in {"api", "direct"},
           NEW ensure, NEW timeout, NEW j, NEW label \in {"inserted", "sending"},
           machine[m] # "gone",
           NewRow([machine |-> m, by |-> by, ensure |-> ensure, timeout |-> timeout, job |-> j]),
           req' = [req EXCEPT ![c] = [pc |-> label, id |-> last + 1]], req[c].pc = "idle",
           UNCHANGED <<machine, status, job, pc, held, own, run, txn, outcome, faults>>
    PROVE  WInv'
<1> USE DEF WInv, IInv
<1>1. /\ req'[c] = [pc |-> label, id |-> last + 1]
      /\ \A d \in Client : d # c => req'[d] = req[d]
  BY DEF TypeOK
<1>2. \A a \in Id : info'[a].by = "worker" =>
          /\ a # last + 1 /\ info'[a] = info[a]
          /\ info[a].job \in Id /\ info'[info[a].job] = info[info[a].job]
  BY DEF NewRow, RowShape
<1>3. \A w \in Worker :
          /\ held[w] # NoId => held[w] \in Id /\ info'[held[w]] = info[held[w]]
          /\ own[w] # NoId => own[w] \in Id /\ info'[own[w]] = info[own[w]]
          /\ run[w] # NoId => run[w] \in Id /\ info'[run[w]] = info[run[w]]
  BY DEF NewRow, TypeOK
<1>4. /\ \A a \in Id : status[a] # Absent => info'[a] = info[a]
      /\ \A w \in Worker, a \in Id : txn[w][a] # Absent => info'[a] = info[a]
  BY DEF NewRow
<1>5. \A w \in Worker : run[w] # NoId => own[w] # NoId /\ held[w] # NoId
  BY DEF LocalShape, WorkerShape
<1>6. Traces'
  BY DEF Traces, NewRow
<1>7. Elders'
  BY DEF Elders, NewRow
<1>8. SameMachine'
  BY <1>2, <1>3, <1>5 DEF SameMachine
<1>9. LocalShape'
  BY DEF LocalShape
<1>10. OpenRows'
  BY DEF OpenRows
<1>11. Written'
  BY DEF Written
<1>12. Referring'
  BY <1>4 DEF Referring
<1>13. RequestRows'
  BY DEF RequestRows, RequestShape, TypeOK, NewRow
<1>14. FailedRows'
  BY DEF FailedRows
<1>15. PartialWorkInvisible'
  BY <1>2 DEF PartialWorkInvisible
<1>16. MarkedFirst'
  BY DEF MarkedFirst
<1>17. Undisturbed'
  BY DEF Undisturbed
<1>18. RunningIsAttended'
  BY DEF RunningIsAttended
<1>19. AttemptIsQueued'
  BY IdsAreNaturals DEF AttemptIsQueued, RequestShape, NewRow
<1>20. FatesRecorded'
  BY <1>2 DEF FatesRecorded, Recorded
<1> QED
  BY <1>6, <1>7, <1>8, <1>9, <1>10, <1>11, <1>12, <1>13, <1>14, <1>15, <1>16, <1>17,
     <1>18, <1>19, <1>20 DEF WInv

\* A worker inserts its attempt, in a transaction that has written nothing else.
LEMMA CreateStep ==
    ASSUME WInv, IInv', NEW w \in Worker, pc[w] = "creating", pc' = [pc EXCEPT ![w] = "sending"],
           NewRow([machine |-> info[held[w]].machine, by |-> "worker",
                   ensure |-> info[held[w]].ensure, timeout |-> info[held[w]].timeout,
                   job |-> held[w]]),
           own' = [own EXCEPT ![w] = last + 1],
           txn' = [txn EXCEPT ![w][last + 1] = "pending"],
           machine[info[held[w]].machine] # "gone",
           UNCHANGED <<machine, status, job, req, held, run, outcome, faults>>
    PROVE  WInv'
<1> USE DEF WInv, IInv
<1>1. /\ own'[w] = last + 1 /\ pc'[w] = "sending" /\ own[w] = NoId /\ run[w] = NoId
      /\ \A v \in Worker : v # w => own'[v] = own[v] /\ pc'[v] = pc[v] /\ txn'[v] = txn[v]
      /\ \A a \in Id : txn'[w][a] = IF a = last + 1 THEN "pending" ELSE Absent
  BY DEF TypeOK, LocalShape, OpenRows, NewRow, NoId
<1>2. \A a \in Id : info'[a].by = "worker" /\ a # last + 1 =>
          /\ info'[a] = info[a]
          /\ info[a].job \in Id /\ info'[info[a].job] = info[info[a].job]
  BY DEF NewRow, RowShape
<1>3. \A v \in Worker :
          /\ held[v] # NoId => held[v] \in Id /\ info'[held[v]] = info[held[v]]
          /\ run[v] # NoId => run[v] \in Id /\ info'[run[v]] = info[run[v]] /\ held[v] # NoId
  BY DEF NewRow, TypeOK, LocalShape, WorkerShape
<1>4. \A a \in Id : status[a] # Absent => info'[a] = info[a]
  BY DEF NewRow
<1>5. /\ info'[last + 1].machine = info[held[w]].machine /\ info'[last + 1].job = held[w]
      /\ info'[last + 1].by = "worker"
      /\ held[w] # NoId /\ status[last + 1] = Absent
  BY DEF NewRow, WorkerShape
<1>6. \A c \in Client : req[c].pc # "idle" => req[c].id \in Id /\ info'[req[c].id] = info[req[c].id]
  BY DEF NewRow, TypeOK, RequestShape
<1>7. Traces'
  BY DEF Traces, NewRow
<1>8. Elders'
  BY DEF Elders, NewRow
<1>9. SameMachine'
  BY <1>2, <1>3, <1>5 DEF SameMachine
<1>10. LocalShape'
  BY <1>1 DEF LocalShape, WorkerShape
<1>11. OpenRows'
  BY DEF OpenRows, LocalShape, Traces, TypeOK, NoInfo
<1>12. Written'
  BY <1>1 DEF Written, NewRow
<1>13. Referring'
  BY DEF Referring, NoId, NewRow, NoInfo, Info
<1>14. RequestRows'
  BY <1>6 DEF RequestRows
<1>15. FailedRows'
  BY DEF FailedRows, NewRow
<1>16. PartialWorkInvisible'
  BY <1>2, <1>5 DEF PartialWorkInvisible, Absent
<1>17. MarkedFirst'
  BY DEF MarkedFirst
<1>18. Undisturbed'
  BY <1>1 DEF Undisturbed, Written, OpenRows, TypeOK
<1>19. RunningIsAttended'
  BY DEF RunningIsAttended
<1>20. AttemptIsQueued'
  BY <1>4 DEF AttemptIsQueued
<1>21. FatesRecorded'
  BY <1>1, IdsAreNaturals DEF FatesRecorded, Recorded, NewRow
<1> QED
  BY <1>7, <1>8, <1>9, <1>10, <1>11, <1>12, <1>13, <1>14, <1>15, <1>16, <1>17, <1>18,
     <1>19, <1>20, <1>21 DEF WInv

\* The rows of a deleted machine go; no open transaction has to do with them.
LEMMA DeleteStep ==
    ASSUME WInv, IInv', NEW m \in Machine, DeleteMachine(m)
    PROVE  WInv'
<1> USE DEF WInv, IInv
<1>1. \A c \in Client : req[c].pc \in {"inserted", "queueing", "sending", "sent"} =>
                           info[req[c].id].machine # m
  BY DEF DeleteMachine, Referenced
<1>2. \A w \in Worker : own[w] # NoId /\ txn[w][own[w]] # Absent => info[own[w]].machine # m
  BY DEF DeleteMachine, Referenced
<1>3. \A w \in Worker : own[w] # NoId /\ run[w] # NoId => info[run[w]].machine = info[own[w]].machine
  <2> SUFFICES ASSUME NEW w \in Worker, own[w] # NoId, run[w] # NoId
               PROVE  info[run[w]].machine = info[own[w]].machine
    OBVIOUS
  <2>1. own[w] \in Id
    BY DEF TypeOK
  <2>2. info[own[w]].by = "worker" /\ info[own[w]].job = held[w]
    BY DEF WorkerShape
  <2> QED
    BY <2>1, <2>2 DEF SameMachine
<1>4. \A w \in Worker, a \in Id :
          txn[w][a] # Absent \/ (pc[w] = "starting" /\ a = run[w]) => info[a].machine # m
  <2> SUFFICES ASSUME NEW w \in Worker, NEW a \in Id,
                      txn[w][a] # Absent \/ (pc[w] = "starting" /\ a = run[w])
               PROVE  info[a].machine # m
    OBVIOUS
  <2>1. own[w] # NoId /\ txn[w][own[w]] # Absent
    BY DEF OpenRows, Written, LocalShape, Absent
  <2>2. a = own[w] \/ (a = run[w] /\ run[w] # NoId)
    BY IdsAreNaturals DEF OpenRows
  <2> QED
    BY <2>1, <2>2, <1>2, <1>3
<1>5. /\ \A x \in Machine : x # m => machine'[x] = machine[x]
      /\ \A a \in Id : status'[a] = IF info[a].machine = m THEN Absent ELSE status[a]
      /\ \A a \in Id : job'[a] = IF info[a].machine = m THEN Absent ELSE job[a]
      /\ UNCHANGED <<info, age, last, req, pc, held, own, run, txn, outcome, faults>>
  BY DEF DeleteMachine, created, workers, TypeOK
<1>6. /\ \A a \in Id : status[a] # Absent => info[a].machine \in Machine
      /\ \A w \in Worker, a \in Id : txn[w][a] # Absent => info[a].machine \in Machine
      /\ \A c \in Client : req[c].id # NoId => info[req[c].id].machine \in Machine
  BY RowsAreReal
<1>7. \A a \in Id : info[a].by = "worker" => info[a].job \in Id /\ info[a].machine = info[info[a].job].machine
  BY DEF SameMachine, RowShape
<1>8. /\ \A a \in Id : status[a] = Absent => status'[a] = Absent
      /\ \A j \in Id : job'[j] \in {Absent, job[j]}
  BY <1>5
<1>9. /\ \A w \in Worker : own[w] \in Id \union {NoId} /\ run[w] \in Id \union {NoId}
      /\ \A w \in Worker : held[w] \in Id \union {NoId}
  BY DEF TypeOK
<1>10. /\ \A w \in Worker : pc[w] = "starting" => run[w] \in Id
       /\ \A w \in Worker : pc[w] = "committing" => held[w] \in Id
  BY <1>9 DEF LocalShape, WorkerShape
<1>11. Traces'
  BY <1>5 DEF Traces
<1>12. Elders'
  BY <1>5 DEF Elders
<1>13. SameMachine'
  BY <1>5 DEF SameMachine
<1>14. LocalShape'
  BY <1>5 DEF LocalShape
<1>15. OpenRows'
  BY <1>4, <1>5, <1>9, <1>10 DEF OpenRows
<1>16. Written'
  BY <1>5 DEF Written
<1>17. Referring'
  BY <1>4, <1>5, <1>6 DEF Referring
<1>18. RequestRows'
  BY <1>1, <1>5, <1>6 DEF RequestRows, RequestShape, TypeOK
<1>19. FailedRows'
  BY <1>5 DEF FailedRows
<1>20. PartialWorkInvisible'
  BY <1>5 DEF PartialWorkInvisible, Absent
<1>21. MarkedFirst'
  BY <1>5, <1>10 DEF MarkedFirst, Absent
<1>22. Undisturbed'
  BY <1>5 DEF Undisturbed
<1>23. RunningIsAttended'
  BY <1>5 DEF RunningIsAttended, Absent
<1>24. AttemptIsQueued'
  BY <1>5 DEF AttemptIsQueued
<1>25. FatesRecorded'
  BY <1>5, <1>7 DEF FatesRecorded, Recorded
<1> QED
  BY <1>11, <1>12, <1>13, <1>14, <1>15, <1>16, <1>17, <1>18, <1>19, <1>20, <1>21, <1>22,
     <1>23, <1>24, <1>25 DEF WInv

\* The attempt to poll is the worker's own or a committed one, and not an older one.
LEMMA PickStep ==
    ASSUME WInv, IInv', NEW w \in Worker, PickActive(w)
    PROVE  WInv'
<1> USE DEF WInv, IInv
<1>1. PICK a \in ActiveFor(w, info[held[w]].machine) :
          /\ \A b \in ActiveFor(w, info[held[w]].machine) : b =< a
          /\ run' = [run EXCEPT ![w] = a]
  BY DEF PickActive
<1>2. /\ a \in Id /\ info[a].machine = info[held[w]].machine
      /\ \/ txn[w][a] \in {"pending", "sent", "waking"}
         \/ txn[w][a] = Absent /\ status[a] \in {"pending", "sent", "waking"}
  BY <1>1 DEF ActiveFor, View, Active, AttemptStatus, Terminal
<1>3. pc[w] = "picking" /\ run[w] = NoId /\ own[w] \in Id /\ txn[w][own[w]] = "sent"
  BY DEF PickActive, LocalShape, Written, TypeOK
<1>4. info[own[w]].machine = info[held[w]].machine
  <2>1. own[w] # NoId
    BY <1>3, IdsAreNaturals DEF NoId
  <2>2. info[own[w]].by = "worker" /\ info[own[w]].job = held[w]
    BY <2>1 DEF WorkerShape
  <2> QED
    BY <1>3, <2>2 DEF SameMachine
<1>5. own[w] =< a
  <2>1. own[w] \in ActiveFor(w, info[held[w]].machine)
    BY <1>3, <1>4 DEF ActiveFor, View, Active, AttemptStatus, Terminal, Absent
  <2> QED
    BY <2>1, <1>1
<1>6. a =< last
  <2>1. a = own[w] \/ status[a] # Absent
    BY <1>2, <1>3, IdsAreNaturals DEF OpenRows, Absent, NoId
  <2>2. last \in Nat /\ a \in Nat
    BY <1>2, IdsAreNaturals DEF TypeOK
  <2> QED
    BY <2>1, <2>2, <1>2 DEF Traces, Issued
<1>7. a = own[w] \/ status[a] # Absent
  BY <1>2, <1>3, IdsAreNaturals DEF OpenRows, Absent, NoId
<1>8. /\ pc'[w] = "starting" /\ run'[w] = a
      /\ \A v \in Worker : v # w => pc'[v] = pc[v] /\ run'[v] = run[v]
      /\ UNCHANGED <<machine, status, job, info, age, last, req, held, own, txn, outcome, faults>>
  BY <1>1 DEF PickActive, Goto, tables, created, admin, TypeOK
<1>9. Traces'
  BY <1>6, <1>8 DEF Traces
<1>10. Elders'
  BY <1>8 DEF Elders
<1>11. SameMachine'
  BY <1>2, <1>8 DEF SameMachine
<1>12. LocalShape'
  BY <1>2, <1>3, <1>5, <1>8, IdsAreNaturals DEF LocalShape
<1>13. OpenRows'
  BY <1>3, <1>7, <1>8, IdsAreNaturals DEF OpenRows
<1>14. Written'
  BY <1>3, <1>8 DEF Written
<1>15. Referring'
  BY <1>8 DEF Referring
<1>16. RequestRows'
  BY <1>8 DEF RequestRows
<1>17. FailedRows'
  BY <1>2, <1>8 DEF FailedRows, Absent, NoId
<1>18. PartialWorkInvisible'
  BY <1>8 DEF PartialWorkInvisible
<1>19. MarkedFirst'
  BY <1>8 DEF MarkedFirst
<1>20. Undisturbed'
  BY <1>8 DEF Undisturbed
<1>21. RunningIsAttended'
  BY <1>8 DEF RunningIsAttended
<1>22. AttemptIsQueued'
  BY <1>8 DEF AttemptIsQueued
<1>23. FatesRecorded'
  BY <1>8 DEF FatesRecorded, Recorded, Written
<1> QED
  BY <1>9, <1>10, <1>11, <1>12, <1>13, <1>14, <1>15, <1>16, <1>17, <1>18, <1>19, <1>20,
     <1>21, <1>22, <1>23 DEF WInv

\* What a job has written becomes visible, whether the worker learns it or not.
LEMMA CommitStep ==
    ASSUME WInv, IInv', NEW w \in Worker, pc[w] = "committing", NEW label \in {"idle", "failing"},
           pc' = [pc EXCEPT ![w] = label], status' \in {status, View(w)},
           txn' = [txn EXCEPT ![w] = Nothing],
           \/ label = "failing" /\ UNCHANGED <<held, own, run>> /\ faults' # 0
           \/ label = "idle" /\ status' = View(w) /\ Forget(w) /\ UNCHANGED faults,
           UNCHANGED <<machine, job, info, age, last, req, outcome>>
    PROVE  WInv'
<1> USE DEF WInv, IInv
<1>1. /\ \A a \in Id : txn[w][a] # Absent =>
            /\ txn[w][a] \in {"sent", "failed", "online", "timeout"}
            /\ txn[w][a] = "failed" <=> outcome[a] = "failed"
            /\ a = own[w] \/ status[a] # Absent
  <2> SUFFICES ASSUME NEW a \in Id, txn[w][a] # Absent
               PROVE  /\ txn[w][a] \in {"sent", "failed", "online", "timeout"}
                      /\ txn[w][a] = "failed" <=> outcome[a] = "failed"
                      /\ a = own[w] \/ status[a] # Absent
    OBVIOUS
  <2>1. txn[w][a] \in AttemptStatus
    BY DEF TypeOK
  <2>2. txn[w][a] \notin {"pending", "waking"}
    BY DEF Written
  <2>3. txn[w][a] = "failed" <=> outcome[a] = "failed"
    BY DEF Written, FailedRows
  <2>4. a = own[w] \/ status[a] # Absent
    BY DEF OpenRows
  <2> QED
    BY <2>1, <2>2, <2>3, <2>4 DEF AttemptStatus
<1>2. \A v \in Worker : v # w /\ own[v] # NoId =>
                           txn[w][own[v]] = Absent \/ status[own[v]] # Absent
  <2> SUFFICES ASSUME NEW v \in Worker, v # w, own[v] # NoId
               PROVE  txn[w][own[v]] = Absent \/ status[own[v]] # Absent
    OBVIOUS
  <2>1. own[v] # own[w] /\ own[v] \in Id
    BY OwnIsPrivate DEF TypeOK
  <2> QED
    BY <2>1, <1>1
<1>3. /\ \A a \in Id : \/ status'[a] = status[a]
                       \/ txn[w][a] # Absent /\ status'[a] = txn[w][a]
      /\ pc'[w] = label
      /\ \A v \in Worker : v # w => pc'[v] = pc[v] /\ txn'[v] = txn[v]
      /\ \A a \in Id : txn'[w][a] = Absent
  BY DEF TypeOK, View, Nothing
<1>4. \/ UNCHANGED <<held, own, run>> /\ label = "failing" /\ faults' # 0
      \/ /\ \A a \in Id : txn[w][a] # Absent => status'[a] = txn[w][a]
         /\ held'[w] = NoId /\ own'[w] = NoId /\ run'[w] = NoId /\ label = "idle"
         /\ \A v \in Worker : v # w => held'[v] = held[v] /\ own'[v] = own[v] /\ run'[v] = run[v]
         /\ faults' = faults
  BY DEF TypeOK, View, Forget
<1>5. \A a \in Id : /\ status[a] # Absent => status'[a] # Absent
                    /\ status'[a] # Absent => status[a] # Absent \/ info[a].by = "worker"
  <2> SUFFICES ASSUME NEW a \in Id
               PROVE  /\ status[a] # Absent => status'[a] # Absent
                      /\ status'[a] # Absent => status[a] # Absent \/ info[a].by = "worker"
    OBVIOUS
  <2>1. status'[a] = status[a] \/ (txn[w][a] # Absent /\ status'[a] = txn[w][a])
    BY <1>3
  <2>2. txn[w][a] # Absent => a = own[w] \/ status[a] # Absent
    BY <1>1
  <2>3. a = own[w] => info[a].by = "worker"
    BY IdsAreNaturals DEF WorkerShape
  <2> QED
    BY <2>1, <2>2, <2>3
<1>6. \A c \in Client : req[c].id # NoId =>
          /\ req[c].id \in Id
          /\ req[c].pc \in {"inserted", "sending", "sent"} => info[req[c].id].by # "worker"
  BY DEF RequestShape, TypeOK, Queueing
<1>7. Traces'
  <2>1. \A a \in Id : txn[w][a] # Absent => ~ (a > last)
    <3>1. \A x \in Id \union {NoId} : x =< last => ~ (x > last)
      BY IdsAreNaturals DEF TypeOK, NoId
    <3>2. own[w] =< last /\ run[w] =< last
      BY DEF Issued, Traces
    <3> QED
      BY <3>1, <3>2 DEF OpenRows
  <2>2. \A a \in Id : a > last => status'[a] = Absent
    BY <1>3, <2>1 DEF Traces
  <2>3. \A v \in Worker : run'[v] \in {run[v], NoId}
    BY <1>4
  <2>4. NoId =< last
    BY IdsAreNaturals DEF TypeOK, NoId
  <2> QED
    BY <2>2, <2>3, <2>4 DEF Traces
<1>8. Traces'
  BY <1>7 DEF Traces
<1>9. Elders'
  BY DEF Elders
<1>10. SameMachine'
  BY <1>4 DEF SameMachine
<1>11. LocalShape'
  BY <1>4 DEF LocalShape
<1>12. OpenRows'
  <2>1. \A v \in Worker : own[v] \in Id \union {NoId} /\ run[v] \in Id \union {NoId}
    BY DEF TypeOK
  <2> SUFFICES ASSUME NEW v \in Worker
               PROVE  OpenRows!(v)'
    BY DEF OpenRows
  <2>2. CASE v = w
    BY <1>3, <1>4, <2>1, <2>2 DEF Absent
  <2>3. CASE v # w
    <3>1. own'[v] = own[v] /\ run'[v] = run[v] /\ pc'[v] = pc[v] /\ txn'[v] = txn[v]
      BY <1>3, <1>4, <2>3
    <3>2. own[v] # NoId /\ txn[v][own[v]] # Absent => status'[own[v]] = Absent
      BY <1>2, <1>3, <2>1, <2>3 DEF OpenRows
    <3>3. pc[v] = "starting" => run[v] \in Id
      BY <2>1 DEF LocalShape
    <3> QED
      BY <1>5, <3>1, <3>2, <3>3 DEF OpenRows
  <2> QED
    BY <2>2, <2>3
<1>13. Written'
  BY <1>3, <1>4 DEF Written, Absent
<1>14. Referring'
  BY <1>3 DEF Referring
<1>15. RequestRows'
  BY <1>5, <1>6 DEF RequestRows, RequestShape
<1>16. FailedRows'
  BY <1>3, <1>4 DEF FailedRows
<1>17. PartialWorkInvisible'
  BY <1>1, <1>3 DEF PartialWorkInvisible
<1>18. MarkedFirst'
  BY <1>3, <1>4 DEF MarkedFirst
<1>19. Undisturbed'
  BY <1>4 DEF Undisturbed
<1>20. RunningIsAttended'
  BY <1>4 DEF RunningIsAttended, MarkedFirst
<1>21. AttemptIsQueued'
  BY <1>5 DEF AttemptIsQueued
<1>22. FatesRecorded'
  BY <1>1, <1>3, <1>4 DEF FatesRecorded, Undisturbed, Recorded
<1> QED
  BY <1>8, <1>9, <1>10, <1>11, <1>12, <1>13, <1>14, <1>15, <1>16, <1>17, <1>18, <1>19,
     <1>20, <1>21, <1>22 DEF WInv

\* A session about to be committed belongs to a job nobody else holds.
LEMMA CommittingHolds ==
    ASSUME WInv, NEW v \in Worker, pc[v] = "committing"
    PROVE  held[v] \in Id /\ \A w \in Worker : w # v => held[w] # held[v]
<1>1. held[v] # NoId
  BY DEF WInv, IInv, WorkerShape
<1>2. held[v] \in Id
  BY <1>1 DEF WInv, IInv, TypeOK
<1>3. \A w \in Worker : w # v => held[w] # held[v]
  BY <1>1 DEF WInv, IInv, JobHeldOnce
<1> QED
  BY <1>2, <1>3

\* A worker lets go of its job because something failed, or because it could not create an
\* attempt for it.
LEMMA LetGoWork ==
    ASSUME WInv, IInv', NEW w \in Worker, NEW label \in {"idle", "down"},
           faults' = 0 => faults = 0 /\ own[w] = NoId /\ job'[held[w]] # "running",
           pc' = [pc EXCEPT ![w] = label], Forget(w),
           \A j \in Id : \/ job'[j] = job[j]
                         \/ j = held[w] /\ job[j] # Absent /\ job'[j] \in {"running", "error"},
           UNCHANGED <<machine, status, info, age, last, req, outcome>>
    PROVE  WInv'
<1> USE DEF WInv, IInv
<1>1. /\ pc'[w] = label /\ held'[w] = NoId /\ own'[w] = NoId /\ run'[w] = NoId
      /\ \A a \in Id : txn'[w][a] = Absent
      /\ \A v \in Worker : v # w => /\ pc'[v] = pc[v] /\ held'[v] = held[v]
                                    /\ own'[v] = own[v] /\ run'[v] = run[v] /\ txn'[v] = txn[v]
  BY DEF TypeOK, Forget, Nothing
<1>2. \A v \in Worker : pc[v] = "committing" /\ v # w => job'[held[v]] = job[held[v]]
  BY CommittingHolds
<1>3. NoId =< last
  BY IdsAreNaturals DEF TypeOK, NoId
<1>4. Traces'
  BY <1>1, <1>3 DEF Traces
<1>5. Elders'
  BY DEF Elders
<1>6. SameMachine'
  BY <1>1 DEF SameMachine
<1>7. LocalShape'
  BY <1>1 DEF LocalShape
<1>8. OpenRows'
  BY <1>1 DEF OpenRows
<1>9. Written'
  BY <1>1 DEF Written, Absent
<1>10. Referring'
  <2>1. \A j \in Id : job'[j] # Absent => job[j] # Absent
    OBVIOUS
  <2>2. \A v \in Worker, a \in Id : txn'[v][a] # Absent => txn[v][a] # Absent
    BY <1>1
  <2> QED
    BY <2>1, <2>2 DEF Referring
<1>11. RequestRows'
  BY DEF RequestRows
<1>12. FailedRows'
  BY <1>1 DEF FailedRows
<1>13. PartialWorkInvisible'
  BY DEF PartialWorkInvisible
<1>14. MarkedFirst'
  BY <1>1, <1>2 DEF MarkedFirst
<1>15. Undisturbed'
  BY <1>1 DEF Undisturbed
<1>16. RunningIsAttended'
  <2> SUFFICES ASSUME NEW j \in Id, job'[j] = "running", faults' = 0
               PROVE  \E v \in Worker : held'[v] = j
    BY DEF RunningIsAttended
  <2>1. j # held[w] /\ job[j] = "running" /\ faults = 0
    OBVIOUS
  <2>2. PICK v \in Worker : held[v] = j
    BY <2>1 DEF RunningIsAttended
  <2> QED
    BY <1>1, <2>1, <2>2
<1>17. AttemptIsQueued'
  <2>1. \A j \in Id : job[j] # Absent => job'[j] # Absent
    BY DEF Absent
  <2> QED
    BY <2>1 DEF AttemptIsQueued
<1>18. FatesRecorded'
  <2> SUFFICES ASSUME NEW a \in Id, info[a].by = "worker", job'[info[a].job] # Absent,
                      faults' = 0
               PROVE  Recorded(a) \/ \E v \in Worker : own'[v] = a
    BY DEF FatesRecorded, Recorded
  <2>1. info[a].job \in Id /\ job[info[a].job] # Absent
    BY DEF RowShape
  <2>2. a # NoId
    BY IdsAreNaturals
  <2>3. CASE Recorded(a)
    BY <2>3
  <2>4. CASE ~ Recorded(a)
    <3>1. PICK v \in Worker : own[v] = a
      BY <2>1, <2>4 DEF FatesRecorded
    <3>2. v # w
      BY <2>2, <3>1
    <3> QED
      BY <1>1, <3>1, <3>2
  <2> QED
    BY <2>3, <2>4
<1> QED
  BY <1>4, <1>5, <1>6, <1>7, <1>8, <1>9, <1>10, <1>11, <1>12, <1>13, <1>14, <1>15,
     <1>16, <1>17, <1>18 DEF WInv

\* A worker moves on without touching its rows.
LEMMA MoveWork ==
    ASSUME WInv, IInv', NEW w \in Worker, NEW label, pc' = [pc EXCEPT ![w] = label],
           \/ <<pc[w], label>> \in {<<"claiming", "claimed">>, <<"claimed", "processed">>,
                                   <<"claimed", "creating">>, <<"creating", "poisoned">>,
                                   <<"polling", "probing">>, <<"probing", "polling">>,
                                   <<"processed", "committing">>, <<"poisoned", "failing">>,
                                   <<"idle", "down">>, <<"down", "idle">>}
           \/ label = pc[w],
           label = "committing" => job'[held[w]] # "running",
           \A j \in Id : \/ job'[j] = job[j]
                         \/ /\ j = held[w] /\ job[j] # Absent /\ job'[j] \in {"running", "done"}
                            /\ pc[w] \in {"claiming", "processed", "poisoned"},
           faults' = 0 => faults = 0,
           UNCHANGED <<machine, status, info, age, last, req, held, own, run, txn, outcome>>
    PROVE  WInv'
<1> USE DEF WInv, IInv
<1>1. /\ pc'[w] = label
      /\ \A v \in Worker : v # w => pc'[v] = pc[v]
  BY DEF TypeOK
<1>2. \A v \in Worker : pc[v] = "committing" /\ v # w => job'[held[v]] = job[held[v]]
  BY CommittingHolds
<1>3. \A j \in Id : job'[j] = Absent <=> job[j] = Absent
  BY DEF Absent
<1>4. Traces'
  BY DEF Traces
<1>5. Elders'
  BY DEF Elders
<1>6. SameMachine'
  BY DEF SameMachine
<1>7. LocalShape'
  BY DEF LocalShape
<1>8. OpenRows'
  BY DEF OpenRows
<1>9. Written'
  <2>1. pc[w] = "creating" => \A a \in Id : txn[w][a] = Absent
    BY DEF LocalShape, OpenRows
  <2> QED
    BY <1>1, <2>1 DEF Written
<1>10. Referring'
  BY DEF Referring
<1>11. RequestRows'
  BY DEF RequestRows
<1>12. FailedRows'
  BY DEF FailedRows
<1>13. PartialWorkInvisible'
  BY DEF PartialWorkInvisible
<1>14. MarkedFirst'
  BY <1>2 DEF MarkedFirst
<1>15. Undisturbed'
  BY DEF Undisturbed
<1>16. RunningIsAttended'
  BY DEF RunningIsAttended
<1>17. AttemptIsQueued'
  BY <1>3 DEF AttemptIsQueued
<1>18. FatesRecorded'
  BY DEF FatesRecorded, Recorded, RowShape
<1> QED
  BY <1>4, <1>5, <1>6, <1>7, <1>8, <1>9, <1>10, <1>11, <1>12, <1>13, <1>14, <1>15,
     <1>16, <1>17, <1>18 DEF WInv

\* A worker takes up a job it has locked.
LEMMA LockWork ==
    ASSUME WInv, IInv', NEW w \in Worker, ClaimLock(w)
    PROVE  WInv'
<1> USE DEF WInv, IInv
<1>1. PICK j \in Id : held' = [held EXCEPT ![w] = j]
  BY DEF ClaimLock, Claimable
<1>2. /\ pc[w] = "idle" /\ pc'[w] = "claiming" /\ held[w] = NoId /\ held'[w] = j
      /\ \A v \in Worker : v # w => pc'[v] = pc[v] /\ held'[v] = held[v]
      /\ UNCHANGED <<machine, status, job, info, age, last, req, own, run, txn, outcome, faults>>
  BY <1>1 DEF TypeOK, ClaimLock, Goto, WorkerShape, tables, created, admin
<1>3. own[w] = NoId /\ run[w] = NoId
  BY <1>2 DEF LocalShape
<1>4. Traces'
  BY <1>2 DEF Traces
<1>5. Elders'
  BY <1>2 DEF Elders
<1>6. SameMachine'
  BY <1>2, <1>3 DEF SameMachine
<1>7. LocalShape'
  BY <1>2 DEF LocalShape
<1>8. OpenRows'
  BY <1>2 DEF OpenRows
<1>9. Written'
  BY <1>2 DEF Written
<1>10. Referring'
  BY <1>2 DEF Referring
<1>11. RequestRows'
  BY <1>2 DEF RequestRows
<1>12. FailedRows'
  BY <1>2 DEF FailedRows
<1>13. PartialWorkInvisible'
  BY <1>2 DEF PartialWorkInvisible
<1>14. MarkedFirst'
  BY <1>2 DEF MarkedFirst
<1>15. Undisturbed'
  BY <1>2 DEF Undisturbed
<1>16. RunningIsAttended'
  BY <1>2, IdsAreNaturals DEF RunningIsAttended
<1>17. AttemptIsQueued'
  BY <1>2 DEF AttemptIsQueued
<1>18. FatesRecorded'
  BY <1>2 DEF FatesRecorded, Recorded
<1> QED
  BY <1>4, <1>5, <1>6, <1>7, <1>8, <1>9, <1>10, <1>11, <1>12, <1>13, <1>14, <1>15,
     <1>16, <1>17, <1>18 DEF WInv

\* A worker writes the status of its own attempt or of the one it polls.
LEMMA WriteWork ==
    ASSUME WInv, IInv', NEW w \in Worker, NEW x \in Id, NEW s, NEW label,
           pc' = [pc EXCEPT ![w] = label], txn' = [txn EXCEPT ![w][x] = s],
           \/ /\ pc[w] = "sending" /\ x = own[w] /\ outcome' = [outcome EXCEPT ![x] = s]
              /\ \/ s = "sent" /\ label \in {"picking", "processed"}
                 \/ s = "failed" /\ label = "processed"
           \/ /\ x = run[w] /\ UNCHANGED outcome
              /\ \/ pc[w] = "starting" /\ s = "waking" /\ label = "polling"
                 \/ pc[w] = "polling" /\ s = "timeout" /\ label = "processed"
                 \/ pc[w] = "probing" /\ s = "online" /\ label = "processed",
           UNCHANGED <<machine, status, job, info, age, last, req, held, own, run, faults>>
    PROVE  WInv'
<1> USE DEF WInv, IInv
<1>1. /\ pc'[w] = label
      /\ \A v \in Worker : v # w => pc'[v] = pc[v] /\ txn'[v] = txn[v]
      /\ \A a \in Id : txn'[w][a] = IF a = x THEN s ELSE txn[w][a]
      /\ \A a \in Id : a # x => outcome'[a] = outcome[a]
      /\ outcome'[x] \in {outcome[x], s}
      /\ pc[w] = "sending" => outcome'[x] = s
      /\ pc[w] # "sending" => outcome' = outcome
  BY DEF TypeOK
<1>2. /\ own[w] # NoId /\ own[w] \in Id /\ txn[w][own[w]] # Absent /\ s # Absent
      /\ x = own[w] \/ (x = run[w] /\ status[x] # Absent)
  <2>1. own[w] # NoId
    BY DEF LocalShape
  <2>2. txn[w][own[w]] # Absent
    BY DEF Written, Absent
  <2>3. x = own[w] \/ (x = run[w] /\ status[x] # Absent)
    BY DEF Written, OpenRows, Absent
  <2> QED
    BY <2>1, <2>2, <2>3 DEF TypeOK, Absent
<1>3. info[own[w]].by = "worker" /\ info[own[w]].machine = info[held[w]].machine
  BY <1>2 DEF WorkerShape, SameMachine
<1>4. machine[info[x].machine] # "gone"
  <2>1. info[x].machine = info[own[w]].machine
    BY <1>2, <1>3, IdsAreNaturals DEF SameMachine
  <2> QED
    BY <1>2, <2>1 DEF Referring
<1>5. \A c \in Client : req[c].pc \in {"inserted", "sent", "sending"} =>
                           outcome'[req[c].id] = outcome[req[c].id]
  <2> SUFFICES ASSUME NEW c \in Client, req[c].pc \in {"inserted", "sent", "sending"}
               PROVE  outcome'[req[c].id] = outcome[req[c].id]
    OBVIOUS
  <2>1. req[c].id \in Id
    BY DEF RequestShape, TypeOK
  <2>2. req[c].id # own[w]
    BY <1>3 DEF RequestShape, Queueing
  <2> QED
    BY <1>1, <2>1, <2>2
<1>6. pc[w] = "sending" => \A v \in Worker : v # w => txn[v][x] = Absent /\ ~ (pc[v] = "starting" /\ run[v] = x)
  BY <1>2, OwnIsPrivate DEF OpenRows, LocalShape
<1>7. pc[w] = "sending" => /\ status[x] = Absent
                          /\ \A a \in Id : a # x => txn[w][a] = Absent
  BY <1>2, IdsAreNaturals DEF OpenRows, LocalShape
<1>8. Traces'
  BY DEF Traces
<1>9. Elders'
  BY DEF Elders
<1>10. SameMachine'
  BY DEF SameMachine
<1>11. LocalShape'
  BY DEF LocalShape
<1>12. OpenRows'
  BY <1>2 DEF OpenRows
<1>13. Written'
  <2> SUFFICES ASSUME NEW v \in Worker
               PROVE  Written!(v)'
    BY DEF Written
  <2> QED
    BY <1>1, <1>2, <1>6, <1>7 DEF Written, Absent, LocalShape
<1>14. Referring'
  BY <1>4 DEF Referring
<1>15. RequestRows'
  BY <1>5 DEF RequestRows
<1>16. FailedRows'
  BY <1>1, <1>6, <1>7 DEF FailedRows, Written, Absent
<1>17. PartialWorkInvisible'
  BY DEF PartialWorkInvisible
<1>18. MarkedFirst'
  BY DEF MarkedFirst
<1>19. Undisturbed'
  BY <1>2 DEF Undisturbed
<1>20. RunningIsAttended'
  BY DEF RunningIsAttended
<1>21. AttemptIsQueued'
  BY DEF AttemptIsQueued
<1>22. FatesRecorded'
  BY <1>1 DEF FatesRecorded, Recorded
<1> QED
  BY <1>8, <1>9, <1>10, <1>11, <1>12, <1>13, <1>14, <1>15, <1>16, <1>17, <1>18, <1>19,
     <1>20, <1>21, <1>22 DEF WInv

\* The transaction of a worker is rolled back.
LEMMA RollbackWork ==
    ASSUME WInv, IInv', NEW w \in Worker, NEW label \in {"poisoned", "failing"}, faults' # 0,
           pc' = [pc EXCEPT ![w] = label], txn' = [txn EXCEPT ![w] = Nothing],
           pc[w] \notin {"idle", "down", "claiming"},
           \/ pc[w] = "sending" /\ outcome' = [outcome EXCEPT ![own[w]] = "sent"]
           \/ UNCHANGED outcome,
           UNCHANGED <<machine, status, job, info, age, last, req, held, own, run>>
    PROVE  WInv'
<1> USE DEF WInv, IInv
<1>1. /\ pc'[w] = label
      /\ \A v \in Worker : v # w => pc'[v] = pc[v] /\ txn'[v] = txn[v]
      /\ \A a \in Id : txn'[w][a] = Absent
      /\ \A a \in Id : \/ outcome'[a] = outcome[a]
                       \/ pc[w] = "sending" /\ a = own[w] /\ outcome'[a] = "sent"
  BY DEF TypeOK, Nothing
<1>2. pc[w] = "sending" => own[w] # NoId /\ info[own[w]].by = "worker" /\ txn[w][own[w]] = "pending"
  BY DEF LocalShape, WorkerShape, Written
<1>3. \A c \in Client : pc[w] = "sending" /\ req[c].pc \in {"inserted", "sent", "sending"} =>
                           req[c].id # own[w]
  BY <1>2 DEF RequestShape, Queueing
<1>4. \A v \in Worker : pc[w] = "sending" /\ v # w => txn[v][own[w]] # "failed"
  <2> SUFFICES ASSUME NEW v \in Worker, pc[w] = "sending", v # w
               PROVE  txn[v][own[w]] # "failed"
    OBVIOUS
  <2>1. own[w] \in Id /\ status[own[w]] = Absent
    BY <1>2 DEF OpenRows, TypeOK, Absent
  <2>2. own[w] # own[v]
    BY <1>2, OwnIsPrivate
  <2> QED
    BY <2>1, <2>2 DEF OpenRows, Absent
<1>5. \A c \in Client : req[c].pc # "idle" => req[c].id \in Id
  BY DEF RequestShape, TypeOK
<1>6. Traces'
  BY DEF Traces
<1>7. Elders'
  BY DEF Elders
<1>8. SameMachine'
  BY DEF SameMachine
<1>9. LocalShape'
  BY DEF LocalShape
<1>10. OpenRows'
  <2>1. own[w] \in Id \union {NoId}
    BY DEF TypeOK
  <2> QED
    BY <1>1, <2>1 DEF OpenRows
<1>11. Written'
  BY <1>1, <1>4 DEF Written, Absent
<1>12. Referring'
  BY <1>1 DEF Referring
<1>13. RequestRows'
  BY <1>1, <1>3, <1>5 DEF RequestRows
<1>14. FailedRows'
  BY <1>1 DEF FailedRows
<1>15. PartialWorkInvisible'
  BY DEF PartialWorkInvisible
<1>16. MarkedFirst'
  BY DEF MarkedFirst
<1>17. Undisturbed'
  BY DEF Undisturbed
<1>18. RunningIsAttended'
  BY DEF RunningIsAttended
<1>19. AttemptIsQueued'
  BY DEF AttemptIsQueued
<1>20. FatesRecorded'
  BY DEF FatesRecorded
<1> QED
  BY <1>6, <1>7, <1>8, <1>9, <1>10, <1>11, <1>12, <1>13, <1>14, <1>15, <1>16, <1>17,
     <1>18, <1>19, <1>20 DEF WInv

\* A request commits its row.
LEMMA PublishWork ==
    ASSUME WInv, IInv', NEW c \in Client,
           \/ /\ req[c].pc = "inserted" /\ status' = [status EXCEPT ![req[c].id] = "pending"]
              /\ req' = [req EXCEPT ![c].pc = "committed"]
           \/ /\ req[c].pc = "sent" /\ status' = [status EXCEPT ![req[c].id] = "sent"]
              /\ req' = [req EXCEPT ![c] = Idle],
           UNCHANGED <<machine, job, info, age, last, pc, held, own, run, txn, outcome, faults>>
    PROVE  WInv'
<1> USE DEF WInv, IInv
<1> DEFINE r == req[c].id
<1>1. /\ r \in Id /\ r =< last /\ status[r] = Absent /\ info[r].by \in {"api", "direct"}
      /\ machine[info[r].machine] # "gone" /\ outcome[r] # "failed"
      /\ info[r].by = "api" => req[c].pc = "inserted"
  BY DEF RequestRows, RequestShape, Issued, TypeOK, Queueing
<1>2. /\ status'[r] = IF req[c].pc = "inserted" THEN "pending" ELSE "sent"
      /\ \A a \in Id : a # r => status'[a] = status[a]
      /\ req'[c] \in {[req[c] EXCEPT !.pc = "committed"], Idle}
      /\ req[c].pc = "inserted" => req'[c].pc = "committed" /\ req'[c].id = r
      /\ req'[c].pc \in {"committed", "idle"}
      /\ \A d \in Client : d # c => req'[d] = req[d]
  BY <1>1 DEF TypeOK, Idle
<1>3. \A w \in Worker : own[w] # r /\ txn[w][r] = Absent /\ ~ (pc[w] = "starting" /\ run[w] = r)
  BY <1>1, IdsAreNaturals DEF WorkerShape, OpenRows
<1>4. ~ (r > last)
  BY <1>1, IdsAreNaturals DEF TypeOK
<1>5. \A d \in Client : d # c /\ req[d].pc # "idle" => req[d].id # r
  BY <1>1, IdsAreNaturals DEF RequestShape
<1>6. \A w \in Worker : own[w] \in Id \union {NoId} /\ run[w] \in Id \union {NoId}
  BY DEF TypeOK
<1>7. \A d \in Client : req[d].pc # "idle" => req[d].id \in Id
  BY DEF RequestShape, TypeOK
<1> HIDE DEF r
<1>10. Traces'
  BY <1>2, <1>4 DEF Traces
<1>11. Elders'
  BY DEF Elders
<1>12. SameMachine'
  BY DEF SameMachine
<1>13. LocalShape'
  BY DEF LocalShape
<1>14. OpenRows'
  BY <1>2, <1>3, <1>6 DEF OpenRows, LocalShape
<1>15. Written'
  BY DEF Written
<1>16. Referring'
  BY <1>1, <1>2 DEF Referring
<1>17. RequestRows'
  BY <1>2, <1>5, <1>7 DEF RequestRows
<1>18. FailedRows'
  BY <1>1, <1>2 DEF FailedRows
<1>19. PartialWorkInvisible'
  BY <1>1, <1>2 DEF PartialWorkInvisible
<1>20. MarkedFirst'
  BY DEF MarkedFirst
<1>21. Undisturbed'
  BY DEF Undisturbed
<1>22. RunningIsAttended'
  BY DEF RunningIsAttended
<1>23. AttemptIsQueued'
  BY <1>1, <1>2 DEF AttemptIsQueued, r
<1>24. FatesRecorded'
  BY <1>1, <1>2 DEF FatesRecorded, Recorded
<1> QED
  BY <1>10, <1>11, <1>12, <1>13, <1>14, <1>15, <1>16, <1>17, <1>18, <1>19, <1>20, <1>21,
     <1>22, <1>23, <1>24 DEF WInv

\* A request queues its job, sends its packet or ends.
LEMMA RequestMoves ==
    ASSUME WInv, IInv',
           \A c \in Client :
               \/ req'[c] = req[c] \/ (req'[c] = Idle /\ faults' # 0)
               \/ req'[c] = Idle /\ req[c].pc \in {"sending", "sent"}
               \/ req'[c] = Idle /\ req[c].pc \in Queueing
                     /\ (status[req[c].id] = Absent \/ job'[req[c].id] # Absent)
               \/ /\ req[c].pc = "sending" /\ outcome'[req[c].id] = "sent"
                  /\ req'[c].pc = "sent" /\ req'[c].id = req[c].id
               \/ /\ req[c].pc = "committed" /\ status[req[c].id] # Absent
                  /\ req'[c].pc = "queueing" /\ req'[c].id = req[c].id,
           \A a \in Id : \/ outcome'[a] = outcome[a]
                         \/ \E c \in Client : /\ req[c].pc = "sending" /\ a = req[c].id
                                              /\ outcome'[a] \in {"sent", "failed"},
           \A j \in Id : \/ job'[j] = job[j]
                         \/ \E c \in Client : /\ req[c].pc = "queueing" /\ j = req[c].id
                                              /\ job'[j] = "queued",
           faults' = 0 => faults = 0,
           UNCHANGED <<machine, status, info, age, last, pc, held, own, run, txn>>
    PROVE  WInv'
<1> USE DEF WInv, IInv
<1>1. \A a \in Id : outcome'[a] # outcome[a] =>
          /\ info[a].by = "direct" /\ status[a] = Absent
          /\ \A w \in Worker : own[w] # a /\ txn[w][a] = Absent /\ ~ (pc[w] = "starting" /\ run[w] = a)
          /\ \E c \in Client : req[c].pc = "sending" /\ a = req[c].id
  <2> SUFFICES ASSUME NEW a \in Id, outcome'[a] # outcome[a]
               PROVE  /\ info[a].by = "direct" /\ status[a] = Absent
                      /\ \A w \in Worker : own[w] # a /\ txn[w][a] = Absent
                                          /\ ~ (pc[w] = "starting" /\ run[w] = a)
                      /\ \E c \in Client : req[c].pc = "sending" /\ a = req[c].id
    OBVIOUS
  <2>1. PICK c \in Client : req[c].pc = "sending" /\ a = req[c].id
    OBVIOUS
  <2>2. info[a].by = "direct" \/ status[a] # Absent
    BY <2>1 DEF RequestShape
  <2>3. info[a].by = "direct" /\ status[a] = Absent
    BY <2>1 DEF RequestShape, RequestRows
  <2>4. \A w \in Worker : own[w] # a
    BY <2>3, IdsAreNaturals DEF WorkerShape
  <2> QED
    BY <2>1, <2>3, <2>4 DEF OpenRows
<1>2. \A j \in Id : job'[j] # job[j] => status[j] # Absent /\ job'[j] = "queued" /\ job[j] = Absent
  BY DEF RequestRows, NotYetQueued, Queueing
<1>3. \A c \in Client : req[c].pc = "queueing" =>
          /\ \A w \in Worker : held[w] # req[c].id
          /\ \A a \in Id : info[a].by = "worker" => info[a].job # req[c].id
  BY DEF NotYetQueued, Queueing
<1>4. \A w \in Worker : pc[w] = "committing" => job'[held[w]] # "running"
  BY <1>2, CommittingHolds DEF MarkedFirst
<1>5. \A j \in Id : job[j] # Absent => job'[j] # Absent
  BY <1>2
<1>6. \A a \in Id : info[a].by = "worker" => job'[info[a].job] = job[info[a].job]
  BY <1>3 DEF RowShape
<1>7. \A c, d \in Client : req[c].pc # "idle" /\ req[d].pc # "idle" /\ c # d => req[c].id # req[d].id
  BY DEF RequestShape
<1>8. \A c \in Client : req[c].pc # "idle" => req[c].id \in Id
  BY DEF RequestShape, TypeOK
<1>9. Traces'
  BY DEF Traces
<1>10. Elders'
  BY DEF Elders
<1>11. SameMachine'
  BY DEF SameMachine
<1>12. LocalShape'
  BY DEF LocalShape
<1>13. OpenRows'
  BY DEF OpenRows
<1>14. Written'
  BY <1>1 DEF Written, Absent
<1>15. Referring'
  BY <1>2 DEF Referring
<1>16. RequestRows'
  BY <1>7, <1>8 DEF RequestRows, Idle
<1>17. FailedRows'
  BY <1>1 DEF FailedRows
<1>18. PartialWorkInvisible'
  BY DEF PartialWorkInvisible
<1>19. MarkedFirst'
  BY <1>4 DEF MarkedFirst
<1>20. Undisturbed'
  BY DEF Undisturbed
<1>21. RunningIsAttended'
  BY DEF RunningIsAttended
<1>22. AttemptIsQueued'
  BY DEF AttemptIsQueued, RequestShape
<1>23. FatesRecorded'
  BY <1>1, <1>6 DEF FatesRecorded, Recorded
<1> QED
  BY <1>9, <1>10, <1>11, <1>12, <1>13, <1>14, <1>15, <1>16, <1>17, <1>18, <1>19, <1>20,
     <1>21, <1>22, <1>23 DEF WInv

\* A machine is edited.
LEMMA EditWork ==
    ASSUME WInv, IInv', \A m \in Machine : machine'[m] = "gone" => machine[m] = "gone",
           UNCHANGED <<status, job, info, age, last, req, pc, held, own, run, txn, outcome, faults>>
    PROVE  WInv'
<1> USE DEF WInv, IInv
<1>1. /\ \A a \in Id : status[a] # Absent => info[a].machine \in Machine
      /\ \A w \in Worker, a \in Id : txn[w][a] # Absent => info[a].machine \in Machine
      /\ \A c \in Client : req[c].id # NoId => info[req[c].id].machine \in Machine
  BY RowsAreReal
<1>2. Traces'
  BY DEF Traces
<1>3. Elders'
  BY DEF Elders
<1>4. SameMachine'
  BY DEF SameMachine
<1>5. LocalShape'
  BY DEF LocalShape
<1>6. OpenRows'
  BY DEF OpenRows
<1>7. Written'
  BY DEF Written
<1>8. Referring'
  BY <1>1 DEF Referring
<1>9. RequestRows'
  BY <1>1 DEF RequestRows, RequestShape
<1>10. FailedRows'
  BY DEF FailedRows
<1>11. PartialWorkInvisible'
  BY DEF PartialWorkInvisible
<1>12. MarkedFirst'
  BY DEF MarkedFirst
<1>13. Undisturbed'
  BY DEF Undisturbed
<1>14. RunningIsAttended'
  BY DEF RunningIsAttended
<1>15. AttemptIsQueued'
  BY DEF AttemptIsQueued
<1>16. FatesRecorded'
  BY DEF FatesRecorded, Recorded
<1> QED
  BY <1>2, <1>3, <1>4, <1>5, <1>6, <1>7, <1>8, <1>9, <1>10, <1>11, <1>12, <1>13, <1>14,
     <1>15, <1>16 DEF WInv

\* The clock ticks.
LEMMA TickWork ==
    ASSUME WInv, IInv', Tick
    PROVE  WInv'
<1> USE DEF WInv, IInv
<1>1. /\ \A a \in Id : age'[a] = IF a =< last /\ age[a] < MaxTimeout THEN age[a] + 1 ELSE age[a]
      /\ UNCHANGED <<machine, status, job, info, last, req, pc, held, own, run, txn, outcome, faults>>
  BY DEF Tick, tables, workers, admin
<1>2. /\ \A a \in Id : a \in Nat /\ age[a] \in Nat /\ age[a] =< MaxTimeout
      /\ last \in Nat /\ MaxTimeout \in Nat
  BY IdsAreNaturals, BoundsAssumption DEF TypeOK
<1>3. Traces'
  BY <1>1, <1>2 DEF Traces
<1>4. Elders'
  BY <1>1, <1>2 DEF Elders
<1>5. SameMachine'
  BY <1>1 DEF SameMachine
<1>6. LocalShape'
  BY <1>1 DEF LocalShape
<1>7. OpenRows'
  BY <1>1 DEF OpenRows
<1>8. Written'
  BY <1>1 DEF Written
<1>9. Referring'
  BY <1>1 DEF Referring
<1>10. RequestRows'
  BY <1>1 DEF RequestRows
<1>11. FailedRows'
  BY <1>1 DEF FailedRows
<1>12. PartialWorkInvisible'
  BY <1>1 DEF PartialWorkInvisible
<1>13. MarkedFirst'
  BY <1>1 DEF MarkedFirst
<1>14. Undisturbed'
  BY <1>1 DEF Undisturbed
<1>15. RunningIsAttended'
  BY <1>1 DEF RunningIsAttended
<1>16. AttemptIsQueued'
  BY <1>1 DEF AttemptIsQueued
<1>17. FatesRecorded'
  BY <1>1 DEF FatesRecorded, Recorded
<1> QED
  BY <1>3, <1>4, <1>5, <1>6, <1>7, <1>8, <1>9, <1>10, <1>11, <1>12, <1>13, <1>14, <1>15,
     <1>16, <1>17 DEF WInv


\* The steps of a request that has inserted its row.
LEMMA RequestWork ==
    ASSUME WInv, IInv', NEW c \in Client, RequestStep(c) \/ RequestFails(c)
    PROVE  WInv'
<1>0. TypeOK /\ faults \in Nat
  BY BoundsAssumption DEF WInv, IInv, TypeOK
<1>1. CASE WakeCommit(c)
  BY <1>1, PublishWork DEF WakeCommit, created, workers, admin
<1>2. CASE DirectCommit(c)
  BY <1>2, PublishWork DEF DirectCommit, Reply, created, workers, admin
<1>3. CASE EnqueueInsert(c)
  <2>1. req[c].pc = "committed" /\ status[req[c].id] # Absent
    BY <1>3 DEF EnqueueInsert
  <2>2. /\ req'[c].pc = "queueing" /\ req'[c].id = req[c].id
        /\ \A d \in Client : d # c => req'[d] = req[d]
    BY <1>0, <1>3 DEF EnqueueInsert, TypeOK
  <2> QED
    BY <1>3, <2>1, <2>2, RequestMoves DEF EnqueueInsert, tables, created, workers, admin
<1>4. CASE EnqueueRefused(c)
  <2>1. req'[c] = Idle /\ \A d \in Client : d # c => req'[d] = req[d]
    BY <1>0, <1>4 DEF EnqueueRefused, Reply, TypeOK
  <2> QED
    BY <1>4, <2>1, RequestMoves DEF EnqueueRefused, Queueing, tables, created, workers, admin
<1>5. CASE EnqueueCommit(c)
  <2>1. req'[c] = Idle /\ \A d \in Client : d # c => req'[d] = req[d]
    BY <1>0, <1>5 DEF EnqueueCommit, Reply, TypeOK
  <2>2. req[c].pc = "queueing" /\ req[c].id \in Id
    BY <1>0, <1>5 DEF EnqueueCommit, WInv, IInv, RequestShape, TypeOK
  <2>3. job'[req[c].id] = "queued" /\ \A j \in Id : j # req[c].id => job'[j] = job[j]
    BY <1>0, <1>5, <2>2 DEF EnqueueCommit, TypeOK
  <2> QED
    BY <1>5, <2>1, <2>2, <2>3, RequestMoves
       DEF EnqueueCommit, Queueing, Absent, created, workers, admin
<1>6. CASE DirectSent(c)
  <2>1. req[c].pc = "sending" /\ req[c].id \in Id
    BY <1>0, <1>6 DEF DirectSent, WInv, IInv, RequestShape, TypeOK
  <2>2. /\ req'[c].pc = "sent" /\ req'[c].id = req[c].id
        /\ \A d \in Client : d # c => req'[d] = req[d]
    BY <1>0, <1>6 DEF DirectSent, TypeOK
  <2>3. outcome'[req[c].id] = "sent" /\ \A a \in Id : a # req[c].id => outcome'[a] = outcome[a]
    BY <1>0, <1>6, <2>1 DEF DirectSent, TypeOK
  <2> QED
    BY <1>6, <2>1, <2>2, <2>3, RequestMoves DEF DirectSent, tables, created, workers, admin
<1>7. CASE DirectFailed(c)
  <2>1. req[c].pc = "sending" /\ req[c].id \in Id
    BY <1>0, <1>7 DEF DirectFailed, WInv, IInv, RequestShape, TypeOK
  <2>2. req'[c] = Idle /\ \A d \in Client : d # c => req'[d] = req[d]
    BY <1>0, <1>7 DEF DirectFailed, Reply, TypeOK
  <2>3. outcome'[req[c].id] = "failed" /\ \A a \in Id : a # req[c].id => outcome'[a] = outcome[a]
    BY <1>0, <1>7, <2>1 DEF DirectFailed, TypeOK
  <2> QED
    BY <1>7, <2>1, <2>2, <2>3, RequestMoves DEF DirectFailed, tables, created, workers, admin
<1>8. CASE RequestFails(c)
  <2>1. req'[c] = Idle /\ \A d \in Client : d # c => req'[d] = req[d]
    BY <1>0, <1>8 DEF RequestFails, Reply, TypeOK
  <2>2. faults' # 0
    BY <1>0, <1>8 DEF RequestFails, Fault
  <2> QED
    BY <1>8, <2>1, <2>2, RequestMoves DEF RequestFails, tables, created, workers, admin
<1> QED
  BY <1>1, <1>2, <1>3, <1>4, <1>5, <1>6, <1>7, <1>8 DEF RequestStep

\* The API process dies, the clock ticks, a machine is edited or its DELETE begins.
LEMMA AdminWork ==
    ASSUME WInv, IInv', \/ ApiCrash \/ Tick
                        \/ \E m \in Machine : ToggleEnabled(m) \/ DeleteCheck(m)
    PROVE  WInv'
<1>0. TypeOK /\ faults \in Nat
  BY BoundsAssumption DEF WInv, IInv, TypeOK
<1>1. CASE ApiCrash
  <2>1. /\ \A c \in Client : req'[c] = Idle
        /\ faults' # 0
    BY <1>0, <1>1 DEF ApiCrash, Fault
  <2> QED
    BY <1>1, <2>1, RequestMoves DEF ApiCrash, tables, created, workers, admin
<1>2. CASE Tick
  BY <1>2, TickWork
<1>3. ASSUME NEW m \in Machine, ToggleEnabled(m)
      PROVE  WInv'
  <2>1. \A x \in Machine : machine'[x] = "gone" => machine[x] = "gone"
    BY <1>0, <1>3 DEF ToggleEnabled, TypeOK
  <2> QED
    BY <1>3, <2>1, EditWork DEF ToggleEnabled, tables, created, workers
<1>4. ASSUME NEW m \in Machine, DeleteCheck(m)
      PROVE  WInv'
  BY <1>4, EditWork DEF DeleteCheck, tables, created, workers
<1> QED
  BY <1>1, <1>2, <1>3, <1>4

\* The steps of run_worker.
LEMMA WorkerWork ==
    ASSUME WInv, IInv', NEW w \in Worker, WorkerStep(w)
    PROVE  WInv'
<1>0. /\ TypeOK /\ WorkerShape /\ LocalShape
      /\ faults \in Nat
  BY BoundsAssumption DEF WInv, IInv, TypeOK
<1>1. CASE ClaimLock(w)
  BY <1>1, LockWork
<1>2. CASE ClaimCommit(w)
  <2>1. \A j \in Id : \/ job'[j] = job[j]
                      \/ j = held[w] /\ job[j] # Absent /\ job'[j] = "running"
    BY <1>2 DEF ClaimCommit, SetJob
  <2> QED
    BY <1>2, <2>1, MoveWork DEF ClaimCommit, Goto, created, admin
<1>3. CASE WakeRefused(w)
  BY <1>3, MoveWork DEF WakeRefused, Goto, tables, created, admin
<1>4. CASE WakeCreate(w)
  <2>1. held[w] \in Id /\ info[held[w]] \in Info /\ pc[w] = "creating"
    BY <1>0, <1>4, InfoByApi DEF WakeCreate, WorkerShape, TypeOK
  <2>2. /\ info[held[w]].machine \in Machine /\ info[held[w]].ensure \in BOOLEAN
        /\ info[held[w]].timeout \in 1 .. MaxTimeout
    BY <2>1 DEF Info
  <2>3. NewAttempt(info[held[w]].machine, "worker", info[held[w]].ensure,
                   info[held[w]].timeout, held[w])
    BY <1>4 DEF WakeCreate
  <2>4. NewRow([machine |-> info[held[w]].machine, by |-> "worker",
                ensure |-> info[held[w]].ensure, timeout |-> info[held[w]].timeout,
                job |-> held[w]])
    BY <2>1, <2>2, <2>3, NewRowFacts
  <2> QED
    BY <1>4, <2>1, <2>4, CreateStep DEF WakeCreate, Write, Goto, tables, admin
<1>5. CASE WakeSent(w)
  <2>1. pc[w] = "sending" /\ own[w] \in Id
    BY <1>0, <1>5 DEF WakeSent, WorkerShape, TypeOK
  <2> QED
    BY <1>5, <2>1, WriteWork DEF WakeSent, Write, Goto, tables, created, admin
<1>6. CASE WakeFailed(w)
  <2>1. pc[w] = "sending" /\ own[w] \in Id
    BY <1>0, <1>6 DEF WakeFailed, WorkerShape, TypeOK
  <2> QED
    BY <1>6, <2>1, WriteWork DEF WakeFailed, Write, Goto, tables, created, admin
<1>7. CASE PickActive(w)
  BY <1>7, PickStep
<1>8. CASE StartWaking(w)
  <2>1. pc[w] = "starting" /\ run[w] \in Id
    BY <1>0, <1>8 DEF StartWaking, LocalShape, TypeOK
  <2> QED
    BY <1>8, <2>1, WriteWork DEF StartWaking, Write, Goto, tables, created, admin
<1>9. CASE PollTimeout(w)
  <2>1. pc[w] = "polling" /\ run[w] \in Id
    BY <1>0, <1>9 DEF PollTimeout, LocalShape, TypeOK
  <2> QED
    BY <1>9, <2>1, WriteWork DEF PollTimeout, Write, Goto, tables, created, admin
<1>10. CASE ProbeOnline(w)
  <2>1. pc[w] = "probing" /\ run[w] \in Id
    BY <1>0, <1>10 DEF ProbeOnline, LocalShape, TypeOK
  <2> QED
    BY <1>10, <2>1, WriteWork DEF ProbeOnline, Write, Goto, tables, created, admin
<1>11. CASE PollProbe(w)
  BY <1>11, MoveWork DEF PollProbe, Goto, tables, created, admin
<1>12. CASE ProbeOffline(w)
  BY <1>12, MoveWork DEF ProbeOffline, Goto, tables, created, admin
<1>13. CASE MarkDone(w)
  <2>1. \A j \in Id : \/ job'[j] = job[j]
                      \/ j = held[w] /\ job[j] # Absent /\ job'[j] = "done"
    BY <1>13 DEF MarkDone, SetJob
  <2>2. held[w] \in Id
    BY <1>0, <1>13 DEF MarkDone, WorkerShape, TypeOK
  <2>3. job'[held[w]] # "running"
    BY <1>13, <2>2 DEF MarkDone, SetJob, Absent
  <2>4. \/ pc[w] = "processed" /\ pc' = [pc EXCEPT ![w] = "committing"]
        \/ pc[w] = "poisoned" /\ pc' = [pc EXCEPT ![w] = "failing"]
    BY <1>13 DEF MarkDone, Goto
  <2>5. UNCHANGED <<machine, status, info, age, last, req, held, own, run, txn, outcome, faults>>
    BY <1>13 DEF MarkDone, created, admin
  <2> QED
    BY <2>1, <2>3, <2>4, <2>5, MoveWork
<1>14. CASE Commit(w)
  BY <1>14, CommitStep DEF Commit, Forget, Goto, created, admin
<1>15. CASE MarkError(w)
  <2>1. \A j \in Id : \/ job'[j] = job[j]
                      \/ j = held[w] /\ job[j] # Absent /\ job'[j] = "error"
    BY <1>15 DEF MarkError, SetJob
  <2>2. pc[w] = "failing" /\ held[w] \in Id /\ job'[held[w]] # "running"
    BY <1>0, <1>15 DEF MarkError, SetJob, WorkerShape, TypeOK, Absent
  <2>3. faults = 0 => own[w] = NoId
    <3>1. own[w] # NoId => txn[w][own[w]] = Absent
      BY <1>0, <2>2 DEF WInv, Written, TypeOK
    <3> QED
      BY <3>1 DEF WInv, Undisturbed
  <2> QED
    BY <1>15, <2>1, <2>2, <2>3, LetGoWork DEF MarkError, Goto, created, admin
<1>16. CASE Exit(w)
  BY <1>16, MoveWork DEF Exit, Goto, tables, created, admin
<1>17. CASE Restart(w)
  BY <1>17, MoveWork DEF Restart, Goto, tables, created, admin
<1>18. CASE WakeAllowed(w)
  BY <1>18, MoveWork DEF WakeAllowed, Goto, tables, created, admin
<1>19. CASE CreateRefused(w)
  BY <1>19, MoveWork DEF CreateRefused, Goto, tables, created, admin
<1> QED
  BY <1>1, <1>2, <1>3, <1>4, <1>5, <1>6, <1>7, <1>8, <1>9, <1>10, <1>11, <1>12, <1>13,
     <1>14, <1>15, <1>16, <1>17, <1>18, <1>19 DEF WorkerStep

\* What a fault does to a worker.
LEMMA FaultWork ==
    ASSUME WInv, IInv', NEW w \in Worker, WorkerFault(w)
    PROVE  WInv'
<1>1. faults' # 0 /\ TypeOK
  <2>1. Fault
    BY DEF WorkerFault, ClaimFails, WakePoisoned, WorkFails, CommitFails, MarkErrorFails,
           Signal, WorkerCrash
  <2> QED
    BY <2>1, BoundsAssumption DEF Fault, WInv, IInv, TypeOK
<1>2. CASE ClaimFails(w)
  <2>1. \A j \in Id : \/ job'[j] = job[j]
                      \/ j = held[w] /\ job[j] # Absent /\ job'[j] = "running"
    BY <1>2 DEF ClaimFails, SetJob
  <2> QED
    BY <1>1, <1>2, <2>1, LetGoWork DEF ClaimFails, Goto, created, admin
<1>3. CASE WakePoisoned(w)
  BY <1>1, <1>3, RollbackWork DEF WakePoisoned, Goto, tables, created, admin
<1>4. CASE WorkFails(w)
  BY <1>1, <1>4, RollbackWork DEF WorkFails, Goto, tables, created, admin
<1>5. CASE CommitFails(w)
  BY <1>1, <1>5, CommitStep DEF CommitFails, Goto, created, admin
<1>6. CASE MarkErrorFails(w)
  BY <1>1, <1>6, LetGoWork DEF MarkErrorFails, Goto, tables, created, admin
<1>7. CASE Signal(w)
  <2>1. pc' = [pc EXCEPT ![w] = pc[w]]
    BY <1>1, <1>7 DEF Signal, TypeOK
  <2>2. pc[w] = "committing" => job[held[w]] # "running"
    BY DEF WInv, MarkedFirst
  <2> QED
    BY <1>1, <1>7, <2>1, <2>2, MoveWork DEF Signal, tables, created, admin
<1>8. CASE WorkerCrash(w)
  BY <1>1, <1>8, LetGoWork DEF WorkerCrash, Goto, tables, created, admin
<1> QED
  BY <1>2, <1>3, <1>4, <1>5, <1>6, <1>7, <1>8 DEF WorkerFault

\* Every step keeps the invariant.
LEMMA WorkStep == WInv /\ [Next]_vars => WInv'
<1> SUFFICES ASSUME WInv, [Next]_vars, IInv'
             PROVE  WInv'
  BY InvStep DEF WInv
<1>1. ASSUME NEW c \in Client, NEW m \in Machine, NEW kind \in Kinds, WakeInsert(c, m, kind)
      PROVE  WInv'
  <2>1. /\ NewAttempt(m, "api", kind.ensure, kind.timeout, last + 1)
        /\ kind.ensure \in BOOLEAN /\ kind.timeout \in 1 .. MaxTimeout
    BY <1>1, BoundsAssumption DEF WakeInsert
  <2>2. last + 1 \in Id \union {NoId}
    BY <2>1, NewAttemptFacts DEF WInv, IInv
  <2>3. NewRow([machine |-> m, by |-> "api", ensure |-> kind.ensure,
                timeout |-> kind.timeout, job |-> last + 1])
    BY <2>1, <2>2, NewRowFacts
  <2> QED
    BY <1>1, <2>3, RowInsertStep DEF WakeInsert, tables, workers, admin
<1>2. ASSUME NEW c \in Client, NEW m \in Machine, NEW kind \in Kinds, DirectCreate(c, m, kind)
      PROVE  WInv'
  <2>1. /\ NewAttempt(m, "direct", kind.ensure, kind.timeout, NoId)
        /\ kind.ensure \in BOOLEAN /\ kind.timeout \in 1 .. MaxTimeout
    BY <1>2, BoundsAssumption DEF DirectCreate
  <2>2. NewRow([machine |-> m, by |-> "direct", ensure |-> kind.ensure,
                timeout |-> kind.timeout, job |-> NoId])
    BY <2>1, NewRowFacts
  <2> QED
    BY <1>2, <2>2, RowInsertStep DEF DirectCreate, tables, workers, admin
<1>3. ASSUME NEW c \in Client, RequestStep(c) \/ RequestFails(c)
      PROVE  WInv'
  BY <1>3, RequestWork
<1>4. ASSUME \/ ApiCrash \/ Tick
             \/ \E m \in Machine : ToggleEnabled(m) \/ DeleteCheck(m)
      PROVE  WInv'
  BY <1>4, AdminWork
<1>5. ASSUME NEW m \in Machine, DeleteMachine(m)
      PROVE  WInv'
  BY <1>5, DeleteStep
<1>6. ASSUME NEW w \in Worker, WorkerStep(w)
      PROVE  WInv'
  BY <1>6, WorkerWork
<1>7. ASSUME NEW w \in Worker, WorkerFault(w)
      PROVE  WInv'
  BY <1>7, FaultWork
<1>8. ASSUME UNCHANGED vars
      PROVE  WInv'
  <2>1. UNCHANGED <<Traces, Elders, SameMachine, LocalShape, OpenRows, Written, Referring,
                    RequestRows, FailedRows, PartialWorkInvisible>>
    BY <1>8 DEF vars, Traces, Elders, SameMachine, LocalShape, OpenRows, Written, Referring,
           RequestRows, FailedRows, PartialWorkInvisible
  <2>2. UNCHANGED <<MarkedFirst, Undisturbed, RunningIsAttended, AttemptIsQueued, FatesRecorded>>
    BY <1>8 DEF vars, MarkedFirst, Undisturbed, RunningIsAttended, AttemptIsQueued,
           FatesRecorded, Recorded
  <2> QED
    BY <2>1, <2>2 DEF WInv
<1> QED
  BY <1>1, <1>2, <1>3, <1>4, <1>5, <1>6, <1>7, <1>8 DEF Next, ClaimNothing

\* It holds when the tables are empty.
LEMMA WorkInit == Init => WInv
<1> SUFFICES ASSUME Init
             PROVE  WInv
  OBVIOUS
<1>1. IInv
  BY InvInit
<1>2. /\ \A a \in Id : /\ info[a] = NoInfo /\ status[a] = Absent /\ job[a] = Absent
                       /\ age[a] = 0 /\ outcome[a] = "none" /\ a > last
      /\ \A w \in Worker : /\ pc[w] = "idle" /\ held[w] = NoId /\ own[w] = NoId
                           /\ run[w] = NoId /\ \A a \in Id : txn[w][a] = Absent
      /\ \A c \in Client : req[c] = Idle
      /\ last = 0
  BY IdsAreNaturals DEF Init, Nothing
<1>3. Traces /\ Elders
  BY <1>2, IdsAreNaturals DEF Traces, Elders, NoId
<1>4. SameMachine /\ LocalShape /\ OpenRows /\ Written
  BY <1>2 DEF SameMachine, LocalShape, OpenRows, Written, NoInfo, Absent
<1>5. Referring /\ RequestRows /\ FailedRows /\ PartialWorkInvisible
  BY <1>2 DEF Referring, RequestRows, FailedRows, PartialWorkInvisible, Idle, NoInfo, Absent
<1>6. MarkedFirst /\ Undisturbed /\ RunningIsAttended /\ AttemptIsQueued /\ FatesRecorded
  BY <1>2 DEF MarkedFirst, Undisturbed, RunningIsAttended, AttemptIsQueued, FatesRecorded,
              NoInfo, Absent
<1> QED
  BY <1>1, <1>3, <1>4, <1>5, <1>6 DEF WInv

\* What the tables, the open transactions and the local variables of run_worker and of the
\* requests have to do with each other (main.py:97-115, wake.py:68-77, api/wake.py:88-104),
\* in every state the pipeline reaches: the invariant all the theorems below follow from.
THEOREM WorkInvariance == Spec => []WInv
<1>1. Init => WInv
  BY WorkInit
<1>2. WInv /\ [Next]_vars => WInv'
  BY WorkStep
<1> QED
  BY <1>1, <1>2, PTL DEF Spec

----------------------------------------------------------------------------
\* The theorems.

\* The attempt a worker is about to poll, or polls, is there for it to read.
LEMMA PolledIsThere ==
    ASSUME WInv, NEW w \in Worker
    PROVE  /\ pc[w] = "picking" => own[w] \in ActiveFor(w, info[held[w]].machine)
           /\ pc[w] \in {"starting", "polling", "probing"} =>
                 View(w)[run[w]] # Absent /\ machine[info[run[w]].machine] # "gone"
<1>1. /\ own[w] \in Id \union {NoId} /\ run[w] \in Id \union {NoId}
      /\ WorkerShape /\ LocalShape /\ SameMachine /\ OpenRows /\ Written /\ Referring
  BY DEF WInv, IInv, TypeOK
<1>2. ASSUME pc[w] = "picking"
      PROVE  own[w] \in ActiveFor(w, info[held[w]].machine)
  <2>1. own[w] \in Id /\ txn[w][own[w]] = "sent"
    BY <1>1, <1>2 DEF LocalShape, Written
  <2>2. info[own[w]].machine = info[held[w]].machine
    BY <1>1, <2>1, IdsAreNaturals DEF SameMachine, WorkerShape
  <2> QED
    BY <2>1, <2>2 DEF ActiveFor, View, Active, AttemptStatus, Terminal, Absent
<1>3. ASSUME pc[w] \in {"starting", "polling", "probing"}
      PROVE  View(w)[run[w]] # Absent /\ machine[info[run[w]].machine] # "gone"
  <2>1. own[w] \in Id /\ run[w] \in Id
    BY <1>1, <1>3 DEF LocalShape
  <2>2. txn[w][own[w]] # Absent
    BY <1>1, <1>3 DEF Written, Absent
  <2>3. txn[w][run[w]] # Absent \/ status[run[w]] # Absent
    BY <1>1, <1>3, <2>2 DEF Written, OpenRows, Absent
  <2> QED
    BY <1>1, <2>1, <2>3 DEF View, Referring
<1> QED
  BY <1>2, <1>3

\* Whatever machine is edited or deleted, and whenever: no row, committed or not, refers to
\* a machine or an attempt that is gone, and the poller always finds an attempt
\* (models.py:96, 128; main.py:70; ensure_online.py:39-51).
THEOREM ReferencesAlwaysHold == Spec => []ReferencesHold
<1>1. WInv => ReferencesHold
  <2> SUFFICES ASSUME WInv
               PROVE  ReferencesHold
    OBVIOUS
  <2>1. \A w \in Worker : pc[w] = "picking" => ActiveFor(w, info[held[w]].machine) # {}
    BY PolledIsThere
  <2>2. \A w \in Worker :
          pc[w] \in {"starting", "polling", "probing"} =>
              View(w)[run[w]] # Absent /\ machine[info[run[w]].machine] # "gone"
    BY PolledIsThere
  <2> QED
    BY <2>1, <2>2 DEF WInv, Referring, ReferencesHold
<1> QED
  BY <1>1, WorkInvariance, PTL

\* However many workers poll the same machine, none polls an attempt older than the one its
\* own packet was sent for (repositories.py:278, ensure_online.py:55).
THEOREM NoOlderAttemptIsPolled == Spec => []PollsOwnOrNewer
<1>1. WInv => PollsOwnOrNewer
  BY DEF WInv, LocalShape, PollsOwnOrNewer
<1> QED
  BY <1>1, WorkInvariance, PTL

\* Whatever fails, nobody outside a worker sees the statuses its job passes through: only
\* those it ends with are committed (main.py:107).
THEOREM PartialWorkStaysInvisible == Spec => []PartialWorkInvisible
<1>1. WInv => PartialWorkInvisible
  BY DEF WInv
<1> QED
  BY <1>1, WorkInvariance, PTL

\* As long as nothing fails, the fate of a packet is on record once its job is done and let
\* go of, although mark_done is committed before the attempt is (main.py:105-107).
THEOREM FatesAreRecorded == Spec => []DoneIsRecorded
<1>1. WInv => DoneIsRecorded
  <2> SUFFICES ASSUME WInv, NEW j \in Id, job[j] = "done", Unattended(j), faults = 0,
                      NEW a \in Id, info[a].by = "worker", info[a].job = j
               PROVE  Recorded(a)
    BY DEF DoneIsRecorded, Recorded
  <2>1. \A w \in Worker : own[w] # a
    BY IdsAreNaturals DEF WInv, IInv, WorkerShape, Unattended
  <2> QED
    BY <2>1 DEF WInv, FatesRecorded, Absent
<1> QED
  BY <1>1, WorkInvariance, PTL

\* As long as nothing fails, a request that is over has queued the job of the attempt it
\* committed, unless the machine went first (api/wake.py:99-104).
THEOREM AttemptsAreQueued == Spec => []AttemptIsQueued
<1>1. WInv => AttemptIsQueued
  BY DEF WInv
<1> QED
  BY <1>1, WorkInvariance, PTL

\* As long as nothing fails, a running job has a worker at work on it, so that none is left
\* behind in a status claim_next never looks at (job_queue.py:28).
THEOREM RunningJobsAreAttended == Spec => []RunningIsAttended
<1>1. WInv => RunningIsAttended
  BY DEF WInv
<1> QED
  BY <1>1, WorkInvariance, PTL

----------------------------------------------------------------------------
\* The queue, as JobLedger sees it.

\* What the row of a worker's job may say, by where the worker is, unless it was deleted.
AtWork == {"claimed", "creating", "sending", "picking", "starting", "polling", "probing",
           "processed", "poisoned"}
HeldStatus ==
    \A w \in Worker :
        /\ pc[w] = "claiming" => job[held[w]] = "queued"
        /\ pc[w] \in AtWork => job[held[w]] \in {"running", Absent}
        /\ pc[w] \in {"committing", "failing"} => job[held[w]] \in {"running", "done", Absent}

\* The worker the ledger has for a job, when the workers hold h and are at p.
HolderOf(h, p, j) == IF \E w \in Worker : (h[w] # NoId /\ p[w] # "claiming") /\ h[w] = j
                     THEN CHOOSE w \in Worker : (h[w] # NoId /\ p[w] # "claiming") /\ h[w] = j
                     ELSE "nobody"
Hold == [j \in Id |-> HolderOf(held, pc, j)]

\* It is the one worker that has the job, and "nobody" if there is none.
LEMMA HolderFacts ==
    ASSUME NEW h, NEW p, NEW j, \A v, w \in Worker : h[v] # NoId /\ h[v] = h[w] => v = w
    PROVE  /\ \A w \in Worker : h[w] # NoId /\ p[w] # "claiming" /\ h[w] = j => HolderOf(h, p, j) = w
           /\ \/ \E w \in Worker : h[w] # NoId /\ p[w] # "claiming" /\ h[w] = j
              \/ HolderOf(h, p, j) = "nobody"
<1>1. ASSUME NEW w \in Worker, h[w] # NoId, p[w] # "claiming", h[w] = j
      PROVE  HolderOf(h, p, j) = w
  BY <1>1 DEF HolderOf
<1>2. ASSUME ~ \E w \in Worker : h[w] # NoId /\ p[w] # "claiming" /\ h[w] = j
      PROVE  HolderOf(h, p, j) = "nobody"
  BY <1>2 DEF HolderOf
<1> QED
  BY <1>1, <1>2

\* The same about the workers before a step and after it.
LEMMA HolderNow ==
    ASSUME JobHeldOnce, NEW j \in Id
    PROVE  /\ \A w \in Worker : Working(w) /\ held[w] = j => Hold[j] = w
           /\ (\E w \in Worker : Working(w) /\ held[w] = j) \/ Hold[j] = "nobody"
BY HolderFacts DEF JobHeldOnce, Working, Hold

\* After it.
LEMMA HolderNext ==
    ASSUME JobHeldOnce', NEW j \in Id
    PROVE  /\ \A w \in Worker : Working(w)' /\ held'[w] = j => Hold'[j] = w
           /\ (\E w \in Worker : Working(w)' /\ held'[w] = j) \/ Hold'[j] = "nobody"
BY HolderFacts DEF JobHeldOnce, Working, Hold

\* When the workers at work keep their jobs, the ledger's holders stay.
LEMMA HoldersStay ==
    ASSUME JobHeldOnce, JobHeldOnce',
           \A w \in Worker : /\ Working(w)' <=> Working(w)
                             /\ Working(w) => held'[w] = held[w]
    PROVE  Hold' = Hold
<1>1. \A j \in Id : Hold'[j] = Hold[j]
  <2> SUFFICES ASSUME NEW j \in Id
               PROVE  Hold'[j] = Hold[j]
    OBVIOUS
  <2>2. CASE \E w \in Worker : Working(w) /\ held[w] = j
    BY <2>2, HolderNow, HolderNext
  <2>3. CASE ~ \E w \in Worker : Working(w) /\ held[w] = j
    BY <2>3, HolderNow, HolderNext
  <2> QED
    BY <2>2, <2>3
<1> QED
  BY <1>1 DEF Hold

\* When one worker begins, it becomes the holder of its job.
LEMMA HolderComes ==
    ASSUME JobHeldOnce, JobHeldOnce', NEW w \in Worker, held'[w] \in Id,
           ~ Working(w), Working(w)',
           \A v \in Worker : v # w => (Working(v)' <=> Working(v)) /\ held'[v] = held[v]
    PROVE  Hold' = [Hold EXCEPT ![held'[w]] = w]
<1>1. \A j \in Id : Hold'[j] = IF j = held'[w] THEN w ELSE Hold[j]
  <2> SUFFICES ASSUME NEW j \in Id
               PROVE  Hold'[j] = IF j = held'[w] THEN w ELSE Hold[j]
    OBVIOUS
  <2>2. CASE \E v \in Worker : Working(v) /\ held[v] = j
    BY <2>2, HolderNow, HolderNext
  <2>3. CASE ~ \E v \in Worker : Working(v) /\ held[v] = j
    BY <2>3, HolderNow, HolderNext
  <2> QED
    BY <2>2, <2>3
<1> QED
  BY <1>1 DEF Hold

\* When one lets go, its job is nobody's.
LEMMA HolderGoes ==
    ASSUME JobHeldOnce, JobHeldOnce', NEW w \in Worker, held[w] \in Id,
           Working(w), ~ Working(w)',
           \A v \in Worker : v # w => (Working(v)' <=> Working(v)) /\ held'[v] = held[v]
    PROVE  Hold' = [Hold EXCEPT ![held[w]] = "nobody"]
<1>1. \A v \in Worker : v # w /\ Working(v) => held[v] # held[w]
  BY DEF JobHeldOnce, Working
<1>2. \A j \in Id : Hold'[j] = IF j = held[w] THEN "nobody" ELSE Hold[j]
  <2> SUFFICES ASSUME NEW j \in Id
               PROVE  Hold'[j] = IF j = held[w] THEN "nobody" ELSE Hold[j]
    OBVIOUS
  <2>2. CASE \E v \in Worker : v # w /\ Working(v) /\ held[v] = j
    BY <2>2, <1>1, HolderNow, HolderNext
  <2>3. CASE ~ \E v \in Worker : v # w /\ Working(v) /\ held[v] = j
    BY <2>3, HolderNow, HolderNext
  <2> QED
    BY <2>2, <2>3
<1> QED
  BY <1>2 DEF Hold

\* Steps that leave the queue and the workers at work alone.
LEMMA LedgerStays ==
    ASSUME WInv, HeldStatus, IInv', UNCHANGED job,
           \A w \in Worker :
               \/ held[w] = NoId /\ held'[w] = NoId
               \/ held'[w] = held[w] /\ pc'[w] = pc[w]
               \/ held'[w] = held[w] /\ pc[w] \in AtWork /\ pc'[w] \in AtWork
               \/ /\ held'[w] = held[w] /\ pc[w] \in AtWork \union {"committing", "failing"}
                  /\ pc'[w] = "failing"
               \/ held[w] = NoId /\ pc'[w] = "claiming" /\ job[held'[w]] = "queued"
               \/ pc[w] = "claiming" /\ held'[w] = NoId
    PROVE  HeldStatus' /\ UNCHANGED <<job, Hold>>
<1>1. WorkerShape /\ WorkerShape' /\ JobHeldOnce /\ JobHeldOnce'
  BY DEF WInv, IInv
<1>2. HeldStatus'
  <2> SUFFICES ASSUME NEW w \in Worker
               PROVE  HeldStatus!(w)'
    BY DEF HeldStatus
  <2> QED
    BY <1>1 DEF HeldStatus, AtWork, WorkerShape
<1>3. Hold' = Hold
  <2>1. \A w \in Worker : /\ Working(w)' <=> Working(w)
                          /\ Working(w) => held'[w] = held[w]
    <3> SUFFICES ASSUME NEW w \in Worker
                 PROVE  /\ Working(w)' <=> Working(w)
                        /\ Working(w) => held'[w] = held[w]
      OBVIOUS
    <3> QED
      BY <1>1 DEF Working, WorkerShape, AtWork
  <2> QED
    BY <1>1, <2>1, HoldersStay
<1> QED
  BY <1>2, <1>3

\* A worker lets go of its job.
LEMMA LedgerLetsGo ==
    ASSUME WInv, HeldStatus, IInv', "nobody" \notin Worker, NEW w \in Worker, Working(w),
           held'[w] = NoId, pc'[w] \in {"idle", "down"},
           \A v \in Worker : v # w => held'[v] = held[v] /\ pc'[v] = pc[v],
           \A j \in Id : j # held[w] => job'[j] = job[j]
    PROVE  /\ HeldStatus'
           /\ held[w] \in Id /\ Hold[held[w]] # "nobody"
           /\ Hold' = [Hold EXCEPT ![held[w]] = "nobody"]
<1>1. WorkerShape /\ TypeOK /\ JobHeldOnce /\ JobHeldOnce'
  BY DEF WInv, IInv
<1>2. held[w] \in Id
  BY <1>1 DEF Working, TypeOK
<1>3. HeldStatus'
  <2> SUFFICES ASSUME NEW v \in Worker
               PROVE  HeldStatus!(v)'
    BY DEF HeldStatus
  <2>1. CASE v = w
    BY <2>1 DEF AtWork
  <2>2. CASE v # w
    <3>1. held[v] = NoId \/ (held[v] \in Id /\ held[v] # held[w])
      BY <1>1, <2>2 DEF JobHeldOnce, TypeOK
    <3> QED
      BY <1>1, <2>2, <3>1 DEF HeldStatus, WorkerShape, AtWork
  <2> QED
    BY <2>1, <2>2
<1>4. Hold[held[w]] = w
  BY <1>1, <1>2, HolderNow
<1>5. ~ Working(w)' /\ \A v \in Worker : v # w => (Working(v)' <=> Working(v)) /\ held'[v] = held[v]
  BY DEF Working
<1> QED
  BY <1>1, <1>2, <1>3, <1>4, <1>5, HolderGoes

\* The row of one job changes, and those who hold another one do not notice.
LEMMA OthersStatus ==
    ASSUME WInv, HeldStatus, NEW j \in Id, NEW v \in Worker, held[v] # j,
           \A i \in Id : i # j => job'[i] = job[i], held'[v] = held[v], pc'[v] = pc[v]
    PROVE  HeldStatus!(v)'
<1>1. held[v] = NoId \/ held[v] \in Id
  BY DEF WInv, IInv, TypeOK
<1>2. held[v] = NoId => pc[v] \in {"idle", "down"}
  BY DEF WInv, IInv, WorkerShape
<1> QED
  BY <1>1, <1>2 DEF HeldStatus, AtWork

\* The request queues its job, which nobody can hold yet.
LEMMA LedgerEnqueues ==
    ASSUME WInv, HeldStatus, IInv', NEW c \in Client, EnqueueCommit(c),
           NEW j \in Id, j = req[c].id
    PROVE  HeldStatus' /\ Ledger!Enqueue(j)
<1>1. TypeOK /\ RequestShape /\ NotYetQueued /\ JobHeldOnce /\ JobHeldOnce'
  BY DEF WInv, IInv
<1>2. req[c].pc = "queueing" /\ UNCHANGED <<pc, held>>
  BY DEF EnqueueCommit, workers
<1>3. j \in Id /\ job[j] = Absent /\ \A w \in Worker : held[w] # j
  BY <1>1, <1>2 DEF RequestShape, TypeOK, NotYetQueued, Queueing
<1>4. job' = [job EXCEPT ![j] = "queued"]
  BY DEF EnqueueCommit
<1>5. HeldStatus'
  <2>1. \A i \in Id : i # j => job'[i] = job[i]
    BY <1>1, <1>4 DEF TypeOK
  <2> QED
    BY <1>2, <1>3, <2>1, OthersStatus DEF HeldStatus
<1>6. Hold' = Hold
  BY <1>1, <1>2, HoldersStay DEF Working
<1>7. Hold[j] = "nobody"
  BY <1>1, <1>3, HolderNow
<1> QED
  BY <1>3, <1>4, <1>5, <1>6, <1>7 DEF Ledger!Enqueue, Hold, HolderOf, Working, Absent

\* The rows of a deleted machine go; no worker is claiming one of them.
LEMMA LedgerPurges ==
    ASSUME WInv, HeldStatus, IInv', NEW m \in Machine, DeleteMachine(m)
    PROVE  HeldStatus' /\ Ledger!Purge({a \in Id : info[a].machine = m})
<1>1. JobHeldOnce /\ JobHeldOnce' /\ TypeOK /\ WorkerShape
  BY DEF WInv, IInv
<1>2. /\ UNCHANGED <<pc, held>>
      /\ job' = [a \in Id |-> IF info[a].machine = m THEN Absent ELSE job[a]]
      /\ \A w \in Worker : pc[w] = "claiming" => info[held[w]].machine # m
  BY DEF DeleteMachine, Referenced, workers
<1>3. Hold' = Hold
  BY <1>1, <1>2, HoldersStay DEF Working
<1>4. HeldStatus'
  <2> SUFFICES ASSUME NEW w \in Worker
               PROVE  HeldStatus!(w)'
    BY DEF HeldStatus
  <2>1. held[w] = NoId => pc[w] \in {"idle", "down"}
    BY <1>1 DEF WorkerShape
  <2>2. held[w] = NoId \/ held[w] \in Id
    BY <1>1 DEF TypeOK
  <2> QED
    BY <1>2, <2>1, <2>2 DEF HeldStatus, AtWork
<1>5. job' = [a \in Id |-> IF a \in {i \in Id : info[i].machine = m} THEN "absent" ELSE job[a]]
  BY <1>2 DEF Absent
<1> QED
  BY <1>3, <1>4, <1>5 DEF Ledger!Purge, Hold, HolderOf, Working

\* The claim is committed, and the worker learns it or not.
LEMMA LedgerClaims ==
    ASSUME WInv, HeldStatus, IInv', NEW w \in Worker, pc[w] = "claiming",
           NEW j \in Id, j = held[w], SetJob(j, "running"),
           \/ pc' = [pc EXCEPT ![w] = "claimed"] /\ UNCHANGED held
           \/ pc' = [pc EXCEPT ![w] = "idle"] /\ held' = [held EXCEPT ![w] = NoId]
    PROVE  HeldStatus' /\ (Ledger!Claim(j, w) \/ Ledger!ClaimLost(j))
<1>1. JobHeldOnce /\ JobHeldOnce' /\ TypeOK /\ WorkerShape
  BY DEF WInv, IInv
<1>2. j \in Id /\ j # NoId /\ job[j] = "queued"
  <2>1. held[w] # NoId
    BY <1>1 DEF WorkerShape
  <2>2. held[w] \in Id
    BY <1>1, <2>1 DEF TypeOK
  <2> QED
    BY <2>1, <2>2 DEF HeldStatus
<1>3. job' = [job EXCEPT ![j] = "running"]
  BY <1>1, <1>2 DEF SetJob, TypeOK, Absent
<1>4. /\ \A i \in Id : i # j => job'[i] = job[i]
      /\ job'[j] = "running"
  BY <1>1, <1>2, <1>3 DEF TypeOK
<1>5. \A v \in Worker : v # w => held[v] # j /\ held'[v] = held[v] /\ pc'[v] = pc[v]
  BY <1>1, <1>2 DEF TypeOK, JobHeldOnce
<1>6. \/ pc'[w] = "claimed" /\ held' = held
      \/ pc'[w] = "idle" /\ held'[w] = NoId
  BY <1>1 DEF TypeOK
<1>7. HeldStatus'
  <2> SUFFICES ASSUME NEW v \in Worker
               PROVE  HeldStatus!(v)'
    BY DEF HeldStatus
  <2>1. CASE v = w
    BY <2>1, <1>4, <1>6 DEF AtWork
  <2>2. CASE v # w
    BY <2>2, <1>2, <1>4, <1>5, OthersStatus
  <2> QED
    BY <2>1, <2>2
<1>8. CASE pc'[w] = "claimed" /\ held' = held
  <2>1. ~ Working(w) /\ Working(w)' /\ \A v \in Worker : v # w => (Working(v)' <=> Working(v)) /\ held'[v] = held[v]
    BY <1>2, <1>5, <1>8 DEF Working
  <2>2. Hold' = [Hold EXCEPT ![j] = w]
    BY <1>1, <1>2, <1>8, <2>1, HolderComes
  <2> QED
    BY <1>2, <1>3, <1>7, <2>2 DEF Ledger!Claim, Hold, HolderOf, Working
<1>9. CASE pc'[w] = "idle" /\ held'[w] = NoId
  <2>1. \A v \in Worker : (Working(v)' <=> Working(v)) /\ (Working(v) => held'[v] = held[v])
    BY <1>5, <1>9 DEF Working
  <2>2. Hold' = Hold
    BY <1>1, <2>1, HoldersStay
  <2> QED
    BY <1>2, <1>3, <1>7, <2>2 DEF Ledger!ClaimLost, Hold, HolderOf, Working
<1> QED
  BY <1>6, <1>8, <1>9

\* The job is marked done, unless its row went with the machine.
LEMMA LedgerMarksDone ==
    ASSUME WInv, HeldStatus, IInv', "nobody" \notin Worker, NEW w \in Worker, MarkDone(w),
           NEW j \in Id, j = held[w]
    PROVE  HeldStatus' /\ (Ledger!Done(j) \/ UNCHANGED <<job, Hold>>)
<1>1. JobHeldOnce /\ JobHeldOnce' /\ TypeOK /\ WorkerShape
  BY DEF WInv, IInv
<1>2. pc[w] \in {"processed", "poisoned"} /\ SetJob(j, "done") /\ UNCHANGED held
  BY DEF MarkDone
<1>3. j \in Id /\ j # NoId /\ job[j] \in {"running", Absent} /\ Working(w)
  BY <1>1, <1>2 DEF WorkerShape, TypeOK, HeldStatus, AtWork, Working
<1>4. /\ pc'[w] \in {"committing", "failing"}
      /\ \A v \in Worker : v # w => held[v] # j /\ pc'[v] = pc[v]
  BY <1>1, <1>3 DEF MarkDone, Goto, TypeOK, JobHeldOnce
<1>5. /\ \A i \in Id : i # j => job'[i] = job[i]
      /\ job'[j] \in {"done", Absent}
  BY <1>2, <1>3 DEF SetJob
<1>6. HeldStatus'
  <2> SUFFICES ASSUME NEW v \in Worker
               PROVE  HeldStatus!(v)'
    BY DEF HeldStatus
  <2>1. CASE v = w
    BY <2>1, <1>2, <1>4, <1>5 DEF AtWork
  <2>2. CASE v # w
    BY <2>2, <1>2, <1>3, <1>4, <1>5, OthersStatus
  <2> QED
    BY <2>1, <2>2
<1>7. Hold' = Hold
  <2>1. \A v \in Worker : Working(v)' <=> Working(v)
    BY <1>2, <1>3, <1>4 DEF Working
  <2> QED
    BY <1>1, <1>2, <2>1, HoldersStay
<1>8. Hold[j] # "nobody"
  BY <1>1, <1>3, HolderNow
<1>9. CASE job[j] = "running"
  <2>1. job' = [job EXCEPT ![j] = "done"]
    BY <1>1, <1>2, <1>9 DEF SetJob, TypeOK, Absent
  <2> QED
    BY <1>3, <1>6, <1>7, <1>8, <1>9, <2>1 DEF Ledger!Done, Hold, HolderOf, Working
<1>10. CASE job[j] = Absent
  <2>1. job' = job
    BY <1>1, <1>2, <1>10 DEF SetJob, TypeOK
  <2> QED
    BY <1>6, <1>7, <2>1
<1> QED
  BY <1>3, <1>9, <1>10

\* The error is recorded and the job let go of, in one step.
LEMMA LedgerMarksError ==
    ASSUME WInv, HeldStatus, IInv', "nobody" \notin Worker, NEW w \in Worker, MarkError(w),
           NEW j \in Id, j = held[w]
    PROVE  HeldStatus' /\ (Ledger!Error(j) \/ Ledger!LetGo(j))
<1>1. TypeOK /\ WorkerShape
  BY DEF WInv, IInv
<1>2. pc[w] = "failing" /\ SetJob(j, "error") /\ Forget(w) /\ pc' = [pc EXCEPT ![w] = "idle"]
  BY DEF MarkError, Goto
<1>3. Working(w) /\ job[j] \in {"running", "done", Absent}
  BY <1>1, <1>2 DEF WorkerShape, HeldStatus, Working
<1>4. /\ held'[w] = NoId /\ pc'[w] = "idle"
      /\ \A v \in Worker : v # w => held'[v] = held[v] /\ pc'[v] = pc[v]
      /\ \A i \in Id : i # j => job'[i] = job[i]
  BY <1>1, <1>2 DEF TypeOK, Forget, SetJob
<1>5. /\ HeldStatus' /\ j \in Id /\ Hold[j] # "nobody"
      /\ Hold' = [Hold EXCEPT ![j] = "nobody"]
  BY <1>3, <1>4, LedgerLetsGo
<1>6. CASE job[j] \in {"running", "done"}
  <2>1. job' = [job EXCEPT ![j] = "error"]
    BY <1>1, <1>2, <1>6 DEF SetJob, TypeOK, Absent
  <2> QED
    BY <1>5, <1>6, <2>1 DEF Ledger!Error, Hold, HolderOf, Working
<1>7. CASE job[j] = Absent
  <2>1. job' = job
    BY <1>1, <1>2, <1>7 DEF SetJob, TypeOK
  <2> QED
    BY <1>5, <2>1 DEF Ledger!LetGo, Hold, HolderOf, Working
<1> QED
  BY <1>3, <1>6, <1>7

\* What the ledger allows.
LEMMA LedgerActions ==
    ASSUME NEW j \in Id, NEW w \in Worker
    PROVE  /\ Ledger!Enqueue(j) => Ledger!Next
           /\ Ledger!Claim(j, w) => Ledger!Next
           /\ Ledger!ClaimLost(j) => Ledger!Next
           /\ Ledger!Done(j) => Ledger!Next
           /\ Ledger!Error(j) => Ledger!Next
           /\ Ledger!LetGo(j) => Ledger!Next
<1>1. Ledger!Enqueue(j) => Ledger!Next
  BY DEF Ledger!Next
<1>2. Ledger!Claim(j, w) => Ledger!Next
  BY DEF Ledger!Next
<1>3. Ledger!ClaimLost(j) => Ledger!Next
  BY DEF Ledger!Next
<1>4. Ledger!Done(j) => Ledger!Next
  BY DEF Ledger!Next
<1>5. Ledger!Error(j) => Ledger!Next
  BY DEF Ledger!Next
<1>6. Ledger!LetGo(j) => Ledger!Next
  BY DEF Ledger!Next
<1> QED
  BY <1>1, <1>2, <1>3, <1>4, <1>5, <1>6

\* Every step of the pipeline keeps HeldStatus, and is one of the ledger or none.
LEMMA LedgerStep ==
    ASSUME WInv, HeldStatus, IInv', "nobody" \notin Worker, [Next]_vars
    PROVE  HeldStatus' /\ [Ledger!Next]_<<job, Hold>>
<1> DEFINE Goal == HeldStatus' /\ (Ledger!Next \/ UNCHANGED <<job, Hold>>)
<1>0. TypeOK /\ WorkerShape
  BY DEF WInv, IInv
<1>1. ASSUME UNCHANGED <<job, held, pc>>
      PROVE  Goal
  BY <1>1, LedgerStays
<1>2. ASSUME NEW c \in Client, RequestStep(c) \/ RequestFails(c)
      PROVE  Goal
  <2>1. CASE EnqueueCommit(c)
    <3>1. req[c].id \in Id
      BY <2>1 DEF EnqueueCommit, WInv, IInv, TypeOK, RequestShape
    <3>2. PICK j \in Id : j = req[c].id
      BY <3>1
    <3>3. HeldStatus' /\ Ledger!Enqueue(j)
      BY <2>1, <3>2, LedgerEnqueues
    <3> QED
      BY <3>3 DEF Ledger!Next
  <2>2. CASE ~ EnqueueCommit(c)
    <3>1. UNCHANGED <<job, held, pc>>
      BY <1>2, <2>2 DEF RequestStep, WakeCommit, EnqueueInsert, EnqueueRefused, DirectSent,
           DirectFailed, DirectCommit, RequestFails, tables, workers
    <3> QED
      BY <3>1, <1>1
  <2> QED
    BY <2>1, <2>2
<1>3. ASSUME NEW m \in Machine, DeleteMachine(m)
      PROVE  Goal
  <2>1. {a \in Id : info[a].machine = m} \in SUBSET Id
    OBVIOUS
  <2> QED
    BY <1>3, <2>1, LedgerPurges DEF Ledger!Next
<1>4. ASSUME NEW w \in Worker, pc' = [pc EXCEPT ![w] = pc'[w]], UNCHANGED <<job, held>>,
             pc[w] \in AtWork /\ pc'[w] \in AtWork
      PROVE  Goal
  <2>1. \A v \in Worker : v # w => pc'[v] = pc[v]
    BY <1>0, <1>4 DEF TypeOK
  <2> QED
    BY <1>4, <2>1, LedgerStays
<1>5. ASSUME NEW w \in Worker, UNCHANGED job, Working(w), Forget(w),
             pc' = [pc EXCEPT ![w] = pc'[w]], pc'[w] \in {"idle", "down"}
      PROVE  Goal
  <2>1. /\ held'[w] = NoId
        /\ \A v \in Worker : v # w => held'[v] = held[v] /\ pc'[v] = pc[v]
    BY <1>0, <1>5 DEF TypeOK, Forget
  <2>2. /\ HeldStatus' /\ held[w] \in Id /\ Hold[held[w]] # "nobody"
        /\ Hold' = [Hold EXCEPT ![held[w]] = "nobody"]
    BY <1>5, <2>1, LedgerLetsGo
  <2>3. PICK j \in Id : j = held[w]
    BY <2>2
  <2>4. Ledger!LetGo(j)
    BY <1>5, <2>2, <2>3 DEF Ledger!LetGo, Hold, HolderOf, Working
  <2> QED
    BY <2>2, <2>4, LedgerActions
<1>6. ASSUME NEW w \in Worker, WorkerStep(w)
      PROVE  Goal
  <2>1. CASE ClaimLock(w)
    <3>1. PICK j \in Id : job[j] = "queued" /\ held' = [held EXCEPT ![w] = j]
      BY <2>1 DEF ClaimLock, Claimable
    <3>2. /\ held[w] = NoId /\ held'[w] = j /\ pc'[w] = "claiming"
          /\ \A v \in Worker : v # w => held'[v] = held[v] /\ pc'[v] = pc[v]
          /\ UNCHANGED job
      BY <1>0, <2>1, <3>1 DEF ClaimLock, Goto, tables, TypeOK, WorkerShape
    <3> QED
      BY <3>1, <3>2, LedgerStays
  <2>2. CASE ClaimCommit(w)
    <3>1. PICK j \in Id : j = held[w]
      BY <1>0, <2>2 DEF ClaimCommit, WorkerShape, TypeOK
    <3>2. HeldStatus' /\ (Ledger!Claim(j, w) \/ Ledger!ClaimLost(j))
      BY <2>2, <3>1, LedgerClaims DEF ClaimCommit, Goto
    <3> QED
      BY <3>2, LedgerActions
  <2>3. CASE MarkDone(w)
    <3>1. PICK j \in Id : j = held[w]
      BY <1>0, <2>3 DEF MarkDone, WorkerShape, TypeOK
    <3> QED
      BY <2>3, <3>1, LedgerMarksDone, LedgerActions
  <2>4. CASE MarkError(w)
    <3>1. PICK j \in Id : j = held[w]
      BY <1>0, <2>4 DEF MarkError, WorkerShape, TypeOK
    <3> QED
      BY <2>4, <3>1, LedgerMarksError, LedgerActions
  <2>5. CASE Commit(w)
    <3>1. Working(w)
      BY <1>0, <2>5 DEF Commit, WorkerShape, Working
    <3>2. pc' = [pc EXCEPT ![w] = pc'[w]] /\ pc'[w] = "idle"
      BY <1>0, <2>5 DEF Commit, Goto, TypeOK
    <3> QED
      BY <2>5, <3>1, <3>2, <1>5 DEF Commit
  <2>6. CASE Exit(w) \/ Restart(w)
    <3>1. held' = held /\ held[w] = NoId /\ job' = job
      BY <1>0, <2>6 DEF Exit, Restart, WorkerShape, tables
    <3>2. \A v \in Worker : v # w => pc'[v] = pc[v]
      BY <1>0, <2>6 DEF Exit, Restart, Goto, TypeOK
    <3> QED
      BY <3>1, <3>2, LedgerStays
  <2>7. CASE \/ WakeAllowed(w) \/ CreateRefused(w)
             \/ WakeRefused(w) \/ WakeCreate(w) \/ WakeSent(w) \/ WakeFailed(w)
             \/ PickActive(w) \/ StartWaking(w) \/ PollTimeout(w) \/ PollProbe(w)
             \/ ProbeOnline(w) \/ ProbeOffline(w)
    <3>1. UNCHANGED <<job, held>>
      BY <2>7 DEF WakeAllowed, CreateRefused, WakeRefused, WakeCreate, WakeSent, WakeFailed, PickActive, StartWaking,
           PollTimeout, PollProbe, ProbeOnline, ProbeOffline, tables
    <3>2. pc[w] \in AtWork
      BY <2>7 DEF WakeAllowed, CreateRefused, WakeRefused, WakeCreate, WakeSent, WakeFailed, PickActive, StartWaking,
           PollTimeout, PollProbe, ProbeOnline, ProbeOffline, AtWork
    <3>3. \E label \in AtWork : pc' = [pc EXCEPT ![w] = label]
      BY <2>7 DEF WakeAllowed, CreateRefused, WakeRefused, WakeCreate, WakeSent, WakeFailed, PickActive, StartWaking,
           PollTimeout, PollProbe, ProbeOnline, ProbeOffline, Goto, AtWork
    <3>4. pc' = [pc EXCEPT ![w] = pc'[w]] /\ pc'[w] \in AtWork
      BY <1>0, <3>3 DEF TypeOK
    <3> QED
      BY <3>1, <3>2, <3>4, <1>4
  <2> QED
    BY <1>6, <2>1, <2>2, <2>3, <2>4, <2>5, <2>6, <2>7 DEF WorkerStep
<1>7. ASSUME NEW w \in Worker, WorkerFault(w)
      PROVE  Goal
  <2>1. CASE ClaimFails(w)
    <3>1. PICK j \in Id : j = held[w] /\ pc[w] = "claiming"
      BY <1>0, <2>1 DEF ClaimFails, WorkerShape, TypeOK
    <3>2. CASE SetJob(held[w], "running")
      <4>1. HeldStatus' /\ (Ledger!Claim(j, w) \/ Ledger!ClaimLost(j))
        BY <2>1, <3>1, <3>2, LedgerClaims DEF ClaimFails, Goto, Forget
      <4> QED
        BY <4>1, LedgerActions
    <3>3. CASE UNCHANGED job
      <4>1. held'[w] = NoId /\ \A v \in Worker : v # w => held'[v] = held[v] /\ pc'[v] = pc[v]
        BY <1>0, <2>1 DEF ClaimFails, Forget, Goto, TypeOK
      <4> QED
        BY <3>1, <3>3, <4>1, LedgerStays
    <3> QED
      BY <2>1, <3>2, <3>3 DEF ClaimFails
  <2>2. CASE WakePoisoned(w)
    <3>1. /\ UNCHANGED <<job, held>> /\ pc[w] \in AtWork
          /\ pc' = [pc EXCEPT ![w] = pc'[w]] /\ pc'[w] \in AtWork
      BY <1>0, <2>2 DEF WakePoisoned, Goto, TypeOK, AtWork, tables
    <3> QED
      BY <3>1, <1>4
  <2>3. CASE WorkFails(w) \/ CommitFails(w)
    <3>1. /\ UNCHANGED <<job, held>> /\ pc[w] \in AtWork \union {"committing", "failing"}
          /\ pc'[w] = "failing" /\ \A v \in Worker : v # w => pc'[v] = pc[v]
      BY <1>0, <2>3 DEF WorkFails, CommitFails, Goto, TypeOK, AtWork, tables
    <3> QED
      BY <3>1, LedgerStays
  <2>4. CASE MarkErrorFails(w)
    <3>1. Working(w)
      BY <1>0, <2>4 DEF MarkErrorFails, WorkerShape, Working
    <3>2. pc' = [pc EXCEPT ![w] = pc'[w]] /\ pc'[w] = "idle"
      BY <1>0, <2>4 DEF MarkErrorFails, Goto, TypeOK
    <3> QED
      BY <2>4, <3>1, <3>2, <1>5 DEF MarkErrorFails, tables
  <2>5. CASE Signal(w)
    BY <2>5, <1>1 DEF Signal, tables
  <2>6. CASE WorkerCrash(w)
    <3>1. /\ UNCHANGED job /\ Forget(w) /\ held'[w] = NoId
          /\ pc' = [pc EXCEPT ![w] = pc'[w]] /\ pc'[w] = "down"
          /\ \A v \in Worker : v # w => held'[v] = held[v] /\ pc'[v] = pc[v]
      BY <1>0, <2>6 DEF WorkerCrash, Goto, Forget, TypeOK, tables
    <3>2. CASE Working(w)
      BY <3>1, <3>2, <1>5
    <3>3. CASE ~ Working(w)
      BY <3>1, <3>3, LedgerStays DEF Working
    <3> QED
      BY <3>2, <3>3
  <2> QED
    BY <1>7, <2>1, <2>2, <2>3, <2>4, <2>5, <2>6 DEF WorkerFault
<1>8. CASE \/ ApiCrash \/ Tick \/ UNCHANGED vars
           \/ \E c \in Client, m \in Machine, kind \in Kinds :
                 WakeInsert(c, m, kind) \/ DirectCreate(c, m, kind)
           \/ \E m \in Machine : ToggleEnabled(m) \/ DeleteCheck(m)
           \/ \E w \in Worker : ClaimNothing(w)
  <2>1. UNCHANGED <<job, held, pc>>
    BY <1>8 DEF ApiCrash, Tick, vars, WakeInsert, DirectCreate, ToggleEnabled, DeleteCheck,
         ClaimNothing, tables, workers
  <2> QED
    BY <2>1, <1>1
<1>9. Goal
  BY <1>2, <1>3, <1>6, <1>7, <1>8 DEF Next
<1> QED
  BY <1>9

\* The queue table keeps what JobLedger promises, however many workers serve it and
\* whatever fails: a job is claimed once, reported on by the worker that claimed it and
\* never queued again (job_queue.py:25-63, main.py:97-115).  "nobody" only has to be no
\* worker's name.
THEOREM QueueKeepsLedger ==
    ASSUME "nobody" \notin Worker
    PROVE  Spec => LedgerKept
<1>1. Init => HeldStatus /\ Ledger!Init
  <2> SUFFICES ASSUME Init
               PROVE  HeldStatus /\ Ledger!Init
    OBVIOUS
  <2>1. HeldStatus
    BY DEF Init, HeldStatus, AtWork
  <2>2. Hold = [j \in Id |-> "nobody"]
    BY DEF Init, Hold, HolderOf
  <2> QED
    BY <2>1, <2>2 DEF Init, Nothing, Absent, Ledger!Init, Hold, HolderOf, Working
<1>2. WInv /\ IInv' /\ HeldStatus /\ [Next]_vars => HeldStatus' /\ [Ledger!Next]_<<job, Hold>>
  BY LedgerStep
<1>3. WInv => IInv
  BY DEF WInv
<1>4. Spec => [][Ledger!Next]_<<job, Hold>>
  BY <1>1, <1>2, <1>3, WorkInvariance, PTL DEF Spec
<1> QED
  BY <1>1, <1>4, PTL DEF Spec, LedgerKept, Ledger!Spec, Hold, HolderOf, Working

----------------------------------------------------------------------------
\* Steps that must not happen.

\* Only the deadline takes a worker from "polling" to "processed".
LEMMA OnlyTheDeadline ==
    ASSUME TypeOK, [Next]_vars, NEW w \in Worker, pc[w] = "polling", pc'[w] = "processed"
    PROVE  PollTimeout(w)
<1>1. PICK v \in Worker : WorkerStep(v) \/ WorkerFault(v)
  <2>1. pc' # pc
    OBVIOUS
  <2>2. \/ pc' = pc
        \/ \E v \in Worker : WorkerStep(v) \/ WorkerFault(v)
    BY DEF Next, vars, workers, WakeInsert, DirectCreate, RequestStep, WakeCommit,
       EnqueueInsert, EnqueueRefused, EnqueueCommit, DirectSent, DirectFailed, DirectCommit,
       RequestFails, ApiCrash, ToggleEnabled, DeleteCheck, DeleteMachine, Tick, ClaimNothing
  <2> QED
    BY <2>1, <2>2
<1>2. CASE WorkerStep(v)
  <2>1. \/ PollTimeout(v)
        \/ pc[v] # "polling" /\ \E label \in WorkerPc : pc' = [pc EXCEPT ![v] = label]
        \/ pc' = [pc EXCEPT ![v] = "probing"]
    BY <1>2 DEF WorkerStep, ClaimLock, ClaimCommit, WakeRefused, WakeAllowed, WakeCreate,
       CreateRefused, WakeSent, WakeFailed, PickActive, StartWaking, PollProbe, ProbeOnline, ProbeOffline, MarkDone,
       Commit, MarkError, Exit, Restart, Goto, WorkerPc
  <2>2. PollTimeout(v) => pc' = [pc EXCEPT ![v] = "processed"]
    BY DEF PollTimeout, Goto
  <2> QED
    BY <2>1, <2>2 DEF TypeOK
<1>3. CASE WorkerFault(v)
  <2>1. \/ pc' = pc
        \/ \E label \in {"idle", "down", "poisoned", "failing"} : pc' = [pc EXCEPT ![v] = label]
    BY <1>3 DEF WorkerFault, ClaimFails, WakePoisoned, WorkFails, CommitFails, MarkErrorFails,
       Signal, WorkerCrash, Goto
  <2> QED
    BY <2>1 DEF TypeOK
<1> QED
  BY <1>1, <1>2, <1>3

\* Whichever attempt a worker polls, and however the attempts' timeouts differ: when "timeout"
\* is declared, the poll_timeout_s of the attempt polled have passed since the job's own
\* attempt was created, because the one polled is as new as that or newer
\* (ensure_online.py:55, 61, 73-74; repositories.py:278).
THEOREM WindowIsFull == Spec => FullWindow
<1>1. WInv /\ [Next]_vars =>
          [\A w \in Worker : pc[w] = "polling" /\ pc'[w] = "processed" =>
              age[own[w]] >= info[run[w]].timeout]_vars
  <2> SUFFICES ASSUME WInv, [Next]_vars, NEW w \in Worker,
                      pc[w] = "polling", pc'[w] = "processed"
               PROVE  age[own[w]] >= info[run[w]].timeout
    OBVIOUS
  <2>1. TypeOK
    BY DEF WInv, IInv
  <2>2. age[run[w]] >= info[run[w]].timeout
    BY <2>1, OnlyTheDeadline DEF PollTimeout
  <2>3. own[w] \in Id /\ run[w] \in Id /\ own[w] =< run[w]
    BY <2>1 DEF WInv, LocalShape, TypeOK
  <2>4. age[run[w]] =< age[own[w]]
    BY <2>3 DEF WInv, Elders
  <2>5. age[run[w]] \in Nat /\ age[own[w]] \in Nat
    BY <2>1, <2>3 DEF TypeOK
  <2>6. info[run[w]].timeout \in Nat
    <3>1. run[w] =< last
      BY DEF WInv, Traces
    <3>2. info[run[w]] \in Info
      BY <2>3, <3>1 DEF WInv, Traces
    <3> QED
      BY <3>2 DEF Info
  <2> QED
    BY <2>2, <2>4, <2>5, <2>6
<1> QED
  BY <1>1, WorkInvariance, PTL DEF Spec, FullWindow

\* A row that worker w has written, or has decided to write.
Open(w, a) == txn[w][a] # Absent \/ (pc[w] = "starting" /\ run[w] = a)

\* No open transaction has to do with an attempt whose status is terminal.
OneOpen == \A w \in Worker, a \in Id : Open(w, a) => status[a] \notin Terminal

\* Steps that open no row and end no attempt.
LEMMA NothingOpens ==
    ASSUME OneOpen,
           \A a \in Id : status'[a] = status[a] \/ status'[a] \in {Absent, "pending", "sent"},
           \A w \in Worker, a \in Id : Open(w, a)' => Open(w, a)
    PROVE  OneOpen'
BY DEF OneOpen, Terminal, Absent

\* What becomes of the rows.
LEMMA RowsMove ==
    ASSUME WInv, OneOpen, [Next]_vars, \A v, w \in Worker : v = w
    PROVE  /\ OneOpen'
           /\ \A a \in Id : status[a] \in Terminal => status'[a] \in {status[a], Absent}
<1>0. /\ TypeOK /\ WorkerShape /\ RequestShape /\ RequestRows /\ LocalShape /\ Written
      /\ OpenRows /\ Traces /\ Issued
  BY DEF WInv, IInv
<1> DEFINE Goal == /\ OneOpen'
                   /\ \A a \in Id : status[a] \in Terminal => status'[a] \in {status[a], Absent}
<1>1. ASSUME UNCHANGED status,
             \A w \in Worker, a \in Id : Open(w, a)' => Open(w, a)
      PROVE  Goal
  BY <1>1, NothingOpens
<1>2. ASSUME UNCHANGED <<status, pc, run, txn>>
      PROVE  Goal
  BY <1>1, <1>2 DEF Open
<1>3. ASSUME NEW c \in Client, WakeCommit(c) \/ DirectCommit(c)
      PROVE  Goal
  <2>1. req[c].id \in Id /\ status[req[c].id] = Absent
    BY <1>0, <1>3 DEF WakeCommit, DirectCommit, RequestRows, RequestShape, TypeOK
  <2>2. /\ \A a \in Id : a # req[c].id => status'[a] = status[a]
        /\ status'[req[c].id] \in {"pending", "sent"}
        /\ UNCHANGED <<pc, run, txn>>
    BY <1>0, <1>3, <2>1 DEF WakeCommit, DirectCommit, TypeOK, workers
  <2> QED
    BY <2>1, <2>2, NothingOpens DEF Open, Terminal, Absent
<1>4. ASSUME NEW m \in Machine, DeleteMachine(m)
      PROVE  Goal
  <2>1. /\ \A a \in Id : status'[a] \in {status[a], Absent}
        /\ UNCHANGED <<pc, run, txn>>
    BY <1>4 DEF DeleteMachine, workers
  <2> QED
    BY <2>1, NothingOpens DEF Open
<1>5. ASSUME NEW w \in Worker, WakeCreate(w)
      PROVE  Goal
  <2>1. last + 1 \in Id /\ status[last + 1] = Absent
    <3>1. last \in Nat /\ last + 1 \in Id
      BY <1>0, <1>5, NewAttemptFacts DEF WakeCreate
    <3> QED
      BY <1>0, <3>1 DEF Traces
  <2>2. /\ \A v \in Worker, a \in Id : v # w \/ a # last + 1 => txn'[v][a] = txn[v][a]
        /\ \A v \in Worker : v # w => pc'[v] = pc[v]
        /\ pc'[w] = "sending" /\ UNCHANGED <<run, status>>
    BY <1>0, <1>5 DEF WakeCreate, Write, Goto, TypeOK, tables
  <2> QED
    BY <2>1, <2>2 DEF OneOpen, Open, Terminal, Absent
<1>6. ASSUME NEW w \in Worker, PickActive(w)
      PROVE  Goal
  <2>1. PICK a \in ActiveFor(w, info[held[w]].machine) : run' = [run EXCEPT ![w] = a]
    BY <1>6 DEF PickActive
  <2>2. /\ \A v \in Worker : v # w => pc'[v] = pc[v] /\ run'[v] = run[v]
        /\ run'[w] = a /\ UNCHANGED <<status, txn>>
    BY <1>0, <1>6, <2>1 DEF PickActive, Goto, TypeOK, tables
  <2>3. a \in Id /\ status[a] \notin Terminal
    BY <2>1 DEF ActiveFor, View, Active, OneOpen, Open
  <2> QED
    BY <2>2, <2>3 DEF OneOpen, Open
<1>7. ASSUME NEW w \in Worker, NEW x \in Id, NEW s, NEW label, Open(w, x), label # "starting",
             pc' = [pc EXCEPT ![w] = label], txn' = [txn EXCEPT ![w][x] = s],
             UNCHANGED <<status, run>>
      PROVE  Goal
  <2>1. /\ \A v \in Worker, a \in Id : v # w \/ a # x => txn'[v][a] = txn[v][a]
        /\ \A v \in Worker : v # w => pc'[v] = pc[v]
        /\ pc'[w] = label
    BY <1>0, <1>7 DEF TypeOK
  <2> QED
    BY <1>1, <1>7, <2>1 DEF Open
<1>8. ASSUME NEW w \in Worker, NEW label, label # "starting",
             pc' = [pc EXCEPT ![w] = label], txn' = [txn EXCEPT ![w] = Nothing],
             status' \in {status, View(w)}
      PROVE  Goal
  <2>1. \A v \in Worker, a \in Id : ~ Open(v, a)'
    <3> SUFFICES ASSUME NEW v \in Worker, NEW a \in Id
                 PROVE  txn'[v][a] = Absent /\ pc'[v] # "starting"
      BY DEF Open
    <3>1. v = w
      OBVIOUS
    <3> QED
      BY <1>0, <1>8, <3>1 DEF TypeOK, Nothing
  <2>2. \A a \in Id : status'[a] = status[a] \/ txn[w][a] # Absent
    BY <1>8 DEF View
  <2> QED
    BY <2>1, <2>2 DEF OneOpen, Open
<1>9. ASSUME NEW w \in Worker, NEW label, label # "starting",
             pc' = [pc EXCEPT ![w] = label], UNCHANGED <<status, run, txn>>
      PROVE  Goal
  <2>1. pc'[w] = label /\ \A v \in Worker : v # w => pc'[v] = pc[v]
    BY <1>0, <1>9 DEF TypeOK
  <2> QED
    BY <1>1, <1>9, <2>1 DEF Open
<1>10. ASSUME NEW w \in Worker, WorkerStep(w)
       PROVE  Goal
  <2>1. CASE WakeCreate(w)
    BY <2>1, <1>5
  <2>2. CASE PickActive(w)
    BY <2>2, <1>6
  <2>3. CASE Commit(w)
    BY <2>3, <1>8 DEF Commit, Forget, Goto
  <2>4. CASE MarkError(w)
    BY <2>4, <1>8 DEF MarkError, Forget, Goto
  <2>5. CASE WakeSent(w) \/ WakeFailed(w)
    <3>1. own[w] \in Id /\ Open(w, own[w])
      BY <1>0, <2>5 DEF WakeSent, WakeFailed, WorkerShape, TypeOK, Written, Open, Absent
    <3> QED
      BY <2>5, <3>1, <1>7 DEF WakeSent, WakeFailed, Write, Goto, tables
  <2>6. CASE StartWaking(w) \/ PollTimeout(w) \/ ProbeOnline(w)
    <3>1. run[w] \in Id /\ Open(w, run[w])
      BY <1>0, <2>6 DEF StartWaking, PollTimeout, ProbeOnline, LocalShape, TypeOK, Written,
         Open, Absent
    <3> QED
      BY <2>6, <3>1, <1>7 DEF StartWaking, PollTimeout, ProbeOnline, Write, Goto, tables
  <2>7. CASE \/ ClaimLock(w) \/ ClaimCommit(w) \/ WakeRefused(w) \/ WakeAllowed(w)
             \/ CreateRefused(w) \/ PollProbe(w) \/ ProbeOffline(w) \/ MarkDone(w)
             \/ Exit(w) \/ Restart(w)
    BY <2>7, <1>9 DEF ClaimLock, ClaimCommit, WakeRefused, WakeAllowed, CreateRefused,
       PollProbe, ProbeOffline, MarkDone,
       Exit, Restart, Goto, tables
  <2> QED
    BY <1>10, <2>1, <2>2, <2>3, <2>4, <2>5, <2>6, <2>7 DEF WorkerStep
<1>11. ASSUME NEW w \in Worker, WorkerFault(w)
       PROVE  Goal
  <2>1. CASE Signal(w)
    BY <2>1, <1>2 DEF Signal, tables
  <2>2. CASE ~ Signal(w)
    BY <1>11, <2>2, <1>8 DEF WorkerFault, ClaimFails, WakePoisoned, WorkFails, CommitFails,
       MarkErrorFails, WorkerCrash, Forget, Goto, tables
  <2> QED
    BY <2>1, <2>2
<1>12. CASE \/ ApiCrash \/ Tick \/ UNCHANGED vars
            \/ \E c \in Client, m \in Machine, kind \in Kinds :
                  WakeInsert(c, m, kind) \/ DirectCreate(c, m, kind)
            \/ \E c \in Client : \/ EnqueueInsert(c) \/ EnqueueRefused(c) \/ EnqueueCommit(c)
                                 \/ DirectSent(c) \/ DirectFailed(c) \/ RequestFails(c)
            \/ \E m \in Machine : ToggleEnabled(m) \/ DeleteCheck(m)
            \/ \E w \in Worker : ClaimNothing(w)
  <2>1. UNCHANGED <<status, pc, run, txn>>
    BY <1>12 DEF ApiCrash, Tick, vars, WakeInsert, DirectCreate, EnqueueInsert,
       EnqueueRefused, EnqueueCommit, DirectSent, DirectFailed, RequestFails, ToggleEnabled,
       DeleteCheck, ClaimNothing, tables, workers
  <2> QED
    BY <2>1, <1>2
<1>13. Goal
  BY <1>3, <1>4, <1>10, <1>11, <1>12 DEF Next, RequestStep
<1> QED
  BY <1>13

\* With the one worker docker-compose.yml runs, an attempt that is online, failed or timed
\* out stays so until its row goes (wake_attempt.py:31-33).  Nothing in update_status would
\* stop a second worker, so the theorem is about one.
THEOREM TerminalStaysTerminal ==
    ASSUME \A v, w \in Worker : v = w
    PROVE  Spec => TerminalIsFinal
<1>1. Init => OneOpen
  BY DEF Init, OneOpen, Open, Nothing, Terminal, Absent
<1>2. WInv /\ OneOpen /\ [Next]_vars =>
          /\ OneOpen'
          /\ [\A a \in Id : status[a] \in Terminal => status'[a] \in {status[a], Absent}]_vars
  BY RowsMove
<1> QED
  BY <1>1, <1>2, WorkInvariance, PTL DEF Spec, TerminalIsFinal

----------------------------------------------------------------------------
\* The lifecycle of an attempt.

Stage == [a \in Id |-> IF info[a] # NoInfo /\ machine[info[a].machine] = "gone"
                       THEN "purged" ELSE status[a]]

\* What a worker has written by the time its work is done: the attempt it polled is settled,
\* and its own, if that is another, is "sent".
WorkIsDone ==
    \A w \in Worker :
        /\ pc[w] \in {"polling", "probing", "processed", "committing"} /\ run[w] # NoId =>
              run[w] = own[w] \/ txn[w][own[w]] = "sent"
        /\ pc[w] \in {"processed", "committing"} /\ run[w] # NoId =>
              txn[w][run[w]] \in {"online", "timeout"}
        /\ pc[w] \in {"processed", "committing"} /\ run[w] = NoId /\ own[w] # NoId =>
              txn[w][own[w]] \in {"sent", "failed"}

\* Rows that are there, or about to be, are of a machine that is there.
LEMMA StageIsStatus ==
    ASSUME WInv
    PROVE  /\ \A a \in Id : Stage[a] = "purged" => status[a] = Absent
           /\ \A a \in Id : Stage[a] # "purged" => Stage[a] = status[a]
           /\ \A a \in Id : status[a] # Absent => Stage[a] = status[a]
           /\ \A w \in Worker, a \in Id : txn[w][a] # Absent => Stage[a] = status[a]
           /\ \A c \in Client : req[c].pc \in {"inserted", "sent"} =>
                  req[c].id \in Id /\ Stage[req[c].id] = Absent
<1>1. Referring /\ RequestRows /\ RequestShape /\ TypeOK
  BY DEF WInv, IInv
<1>2. \A a \in Id : Stage[a] = IF info[a] # NoInfo /\ machine[info[a].machine] = "gone"
                               THEN "purged" ELSE status[a]
  BY DEF Stage
<1>3. \A a \in Id : status[a] # "purged"
  BY <1>1 DEF TypeOK, AttemptStatus, Absent
<1>4. \A c \in Client : req[c].pc \in {"inserted", "sent"} =>
          req[c].id \in Id /\ Stage[req[c].id] = Absent
  BY <1>1, <1>2 DEF RequestRows, RequestShape, TypeOK
<1> QED
  BY <1>1, <1>2, <1>3, <1>4 DEF Referring

\* A request's commit begins an attempt.
LEMMA RequestBegins ==
    ASSUME WInv, NEW c \in Client, WakeCommit(c) \/ DirectCommit(c)
    PROVE  Lifecycle!Next
<1>1. PICK a \in Id : a = req[c].id
  BY StageIsStatus DEF WakeCommit, DirectCommit
<1>2. PICK s \in {"pending", "sent"} : status' = [status EXCEPT ![a] = s]
  BY <1>1 DEF WakeCommit, DirectCommit
<1>3. /\ Stage[a] = "absent" /\ status[a] = Absent
      /\ UNCHANGED <<info, machine>> /\ status \in [Id -> AttemptStatus \union {Absent}]
  BY <1>1, StageIsStatus DEF WakeCommit, DirectCommit, created, admin, Absent, WInv, IInv, TypeOK,
     RequestRows
<1>4. Stage' = [Stage EXCEPT ![a] = s]
  BY <1>2, <1>3 DEF Stage, Absent
<1>5. Lifecycle!Request(a)
  BY <1>2, <1>3, <1>4 DEF Lifecycle!Request, Stage
<1> QED
  BY <1>5 DEF Lifecycle!Next

\* A worker's commit records the fate of its packet, and settles what it polled.
LEMMA WorkSettles ==
    ASSUME WInv, OneOpen, WorkIsDone, NEW w \in Worker, pc[w] = "committing",
           status' = View(w), UNCHANGED <<info, machine>>
    PROVE  Lifecycle!Next \/ UNCHANGED Stage
<1>1. /\ TypeOK /\ OpenRows /\ LocalShape /\ PartialWorkInvisible
  BY DEF WInv, IInv
<1>2. \A a \in Id : status'[a] = IF txn[w][a] # Absent THEN txn[w][a] ELSE status[a]
  BY DEF View
<1>3. status \in [Id -> AttemptStatus \union {Absent}] /\ status' = [a \in Id |-> status'[a]]
  BY <1>1 DEF View, TypeOK
<1>4. \A a \in Id : txn[w][a] # Absent =>
          own[w] # NoId /\ (a = own[w] \/ (a = run[w] /\ status[a] # Absent))
  BY <1>1 DEF OpenRows
<1>5. CASE own[w] = NoId
  <2>1. \A a \in Id : status'[a] = status[a]
    BY <1>2, <1>4, <1>5
  <2> QED
    BY <2>1 DEF Stage
<1>6. CASE own[w] # NoId
  <2>1. PICK a \in Id : a = own[w]
    BY <1>1, <1>6 DEF TypeOK
  <2>2. run[w] \in Id \union {NoId}
    BY <1>1 DEF TypeOK
  <2>3. CASE run[w] = NoId \/ run[w] = a
    <3>1. PICK s \in {"sent", "failed", "online", "timeout"} : txn[w][a] = s
      BY <1>6, <2>1, <2>3 DEF WorkIsDone
    <3>2. Stage[a] = status[a] /\ status[a] = Absent
      BY <1>1, <1>6, <2>1, <3>1, StageIsStatus DEF OpenRows, Absent
    <3>3. status'[a] = s /\ \A b \in Id : b # a => status'[b] = status[b]
      <4>1. NoId \notin Id
        BY DEF NoId, Id
      <4> QED
        BY <1>2, <1>4, <2>1, <2>3, <3>1, <4>1 DEF Absent
    <3>4. Stage' = [Stage EXCEPT ![a] = s]
      BY <3>2, <3>3 DEF Stage, Absent
    <3>5. Lifecycle!Work(a)
      BY <3>2, <3>4 DEF Lifecycle!Work, Lifecycle!Settled, Stage, Absent
    <3> QED
      BY <3>5 DEF Lifecycle!Next
  <2>4. CASE run[w] # NoId /\ run[w] # a
    <3>1. PICK b \in Id : b = run[w] /\ b # a
      BY <2>2, <2>4
    <3>2. txn[w][a] = "sent"
      BY <2>1, <2>4 DEF WorkIsDone
    <3>3. PICK s \in {"online", "timeout"} : txn[w][b] = s
      BY <2>4, <3>1 DEF WorkIsDone
    <3>4. Stage[a] = status[a] /\ status[a] = Absent
      BY <1>1, <1>6, <2>1, <3>2, StageIsStatus DEF OpenRows, Absent
    <3>5. Stage[b] = status[b] /\ status[b] \in {"pending", "sent"}
      <4>1. status[b] # Absent /\ status[b] \notin Terminal
        BY <1>4, <2>1, <3>1, <3>3 DEF OneOpen, Open, Absent
      <4>2. status[b] \in AttemptStatus /\ status[b] # "waking"
        BY <1>1, <4>1 DEF TypeOK, PartialWorkInvisible
      <4> QED
        BY <4>1, <4>2, StageIsStatus DEF AttemptStatus, Terminal
    <3>6. /\ status'[a] = "sent" /\ status'[b] = s
          /\ \A x \in Id : x # a /\ x # b => status'[x] = status[x]
      BY <1>2, <1>4, <2>1, <3>1, <3>2, <3>3 DEF Absent
    <3>7. Stage' = [Stage EXCEPT ![a] = "sent", ![b] = s]
      BY <3>1, <3>4, <3>5, <3>6 DEF Stage, Absent
    <3>8. Lifecycle!WorkOn(a, b)
      BY <3>4, <3>5, <3>7 DEF Lifecycle!WorkOn, Lifecycle!Settled, Stage, Absent
    <3> QED
      BY <3>8 DEF Lifecycle!Next
  <2> QED
    BY <2>3, <2>4
<1> QED
  BY <1>5, <1>6

\* The attempts of a machine go with it.
LEMMA MachinePurges ==
    ASSUME WInv, NEW m \in Machine, DeleteMachine(m)
    PROVE  Lifecycle!Next
<1>1. /\ info' = info /\ machine' = [machine EXCEPT ![m] = "gone"]
      /\ status' = [a \in Id |-> IF info[a].machine = m THEN Absent ELSE status[a]]
  BY DEF DeleteMachine, created
<1>2. TypeOK
  BY DEF WInv, IInv
<1>3. ASSUME NEW a \in Id
      PROVE  Stage'[a] = "purged" \/ Stage'[a] = Stage[a]
  <2>1. CASE info[a] = NoInfo
    <3>1. NoInfo \notin Info
      BY DEF NoInfo, Info
    <3>2. status[a] = Absent
      BY <2>1, <3>1, RowsAreReal
    <3> QED
      BY <1>1, <2>1, <3>2 DEF Stage
  <2>2. CASE info[a] # NoInfo
    <3>1. info[a].machine \in Machine
      BY <1>2, <2>2 DEF TypeOK, Info
    <3>2. CASE info[a].machine = m
      BY <1>1, <1>2, <2>2, <3>1, <3>2 DEF Stage, TypeOK
    <3>3. CASE info[a].machine # m
      BY <1>1, <1>2, <2>2, <3>1, <3>3 DEF Stage, TypeOK
    <3> QED
      BY <3>2, <3>3
  <2> QED
    BY <2>1, <2>2
<1>4. PICK gone \in SUBSET Id : gone = {a \in Id : Stage'[a] = "purged"}
  OBVIOUS
<1>5. Stage' = [a \in Id |-> IF a \in gone THEN "purged" ELSE Stage[a]]
  <2>1. Stage' = [a \in Id |-> Stage'[a]]
    BY DEF Stage
  <2> QED
    BY <1>3, <1>4, <2>1
<1>6. Lifecycle!Purge
  BY <1>5 DEF Lifecycle!Purge, Stage
<1> QED
  BY <1>6 DEF Lifecycle!Next

\* A worker that moves on, and is either far from its commit or has its work done.
LEMMA OneWorkerMoves ==
    ASSUME WorkIsDone, NEW w \in Worker,
           \A v \in Worker : v # w => /\ pc'[v] = pc[v] /\ run'[v] = run[v]
                                      /\ own'[v] = own[v] /\ txn'[v] = txn[v],
           pc'[w] \in {"polling", "probing", "processed", "committing"} /\ run'[w] # NoId =>
               run'[w] = own'[w] \/ txn'[w][own'[w]] = "sent",
           pc'[w] \in {"processed", "committing"} /\ run'[w] # NoId =>
               txn'[w][run'[w]] \in {"online", "timeout"},
           pc'[w] \in {"processed", "committing"} /\ run'[w] = NoId /\ own'[w] # NoId =>
               txn'[w][own'[w]] \in {"sent", "failed"}
    PROVE  WorkIsDone'
<1> SUFFICES ASSUME NEW v \in Worker
             PROVE  /\ pc'[v] \in {"polling", "probing", "processed", "committing"}
                       /\ run'[v] # NoId => run'[v] = own'[v] \/ txn'[v][own'[v]] = "sent"
                    /\ pc'[v] \in {"processed", "committing"} /\ run'[v] # NoId =>
                          txn'[v][run'[v]] \in {"online", "timeout"}
                    /\ pc'[v] \in {"processed", "committing"} /\ run'[v] = NoId
                       /\ own'[v] # NoId => txn'[v][own'[v]] \in {"sent", "failed"}
  BY DEF WorkIsDone
<1>1. CASE v = w
  BY <1>1
<1>2. CASE v # w
  BY <1>2 DEF WorkIsDone
<1> QED
  BY <1>1, <1>2

\* No step leaves work half done.
LEMMA WorkGetsDone ==
    ASSUME WInv, WorkIsDone, [Next]_vars
    PROVE  WorkIsDone'
<1>0. TypeOK /\ LocalShape /\ Written /\ WorkerShape
  BY DEF WInv, IInv
<1> DEFINE Near == {"polling", "probing", "processed", "committing"}
<1>1. ASSUME UNCHANGED <<pc, run, own, txn>>
      PROVE  WorkIsDone'
  BY <1>1 DEF WorkIsDone
<1>2. ASSUME NEW w \in Worker, NEW label, label \notin Near, pc' = [pc EXCEPT ![w] = label],
             \A v \in Worker : v # w => run'[v] = run[v] /\ own'[v] = own[v] /\ txn'[v] = txn[v]
      PROVE  WorkIsDone'
  <2>1. pc'[w] = label /\ \A v \in Worker : v # w => pc'[v] = pc[v]
    BY <1>0, <1>2 DEF TypeOK
  <2> QED
    BY <1>2, <2>1, OneWorkerMoves
<1>3. ASSUME NEW w \in Worker, WakeSent(w) \/ WakeFailed(w)
      PROVE  WorkIsDone'
  <2>1. PICK x \in Id : x = own[w]
    BY <1>0, <1>3 DEF WakeSent, WakeFailed, LocalShape, TypeOK
  <2>2. PICK s \in {"sent", "failed"} : txn' = [txn EXCEPT ![w][x] = s]
    BY <1>3, <2>1 DEF WakeSent, WakeFailed, Write
  <2>3. PICK label \in {"picking", "processed"} : pc' = [pc EXCEPT ![w] = label]
    BY <1>3 DEF WakeSent, WakeFailed, Goto
  <2>4. UNCHANGED <<run, own>> /\ run[w] = NoId
    BY <1>0, <1>3 DEF WakeSent, WakeFailed, LocalShape
  <2>5. /\ txn'[w][x] = s /\ run'[w] = NoId /\ own'[w] = x
        /\ \A v \in Worker : v # w => /\ pc'[v] = pc[v] /\ run'[v] = run[v]
                                      /\ own'[v] = own[v] /\ txn'[v] = txn[v]
    BY <1>0, <2>1, <2>2, <2>3, <2>4 DEF TypeOK
  <2> QED
    BY <2>5, OneWorkerMoves
<1>4. ASSUME NEW w \in Worker, StartWaking(w) \/ PollTimeout(w) \/ ProbeOnline(w)
      PROVE  WorkIsDone'
  <2>1. PICK x \in Id : x = run[w]
    BY <1>0, <1>4 DEF StartWaking, PollTimeout, ProbeOnline, LocalShape, TypeOK
  <2>2. own[w] \in Id /\ NoId \notin Id
    BY <1>0, <1>4, IdsAreNaturals DEF StartWaking, PollTimeout, ProbeOnline, LocalShape, TypeOK
  <2>3. run[w] = own[w] \/ txn[w][own[w]] = "sent"
    BY <1>0, <1>4, <2>1, <2>2 DEF StartWaking, PollTimeout, ProbeOnline, Written, WorkIsDone
  <2>4. PICK s, label : /\ txn' = [txn EXCEPT ![w][x] = s] /\ pc' = [pc EXCEPT ![w] = label]
                        /\ label = "polling" \/ (label = "processed" /\ s \in {"online", "timeout"})
    BY <1>4, <2>1 DEF StartWaking, PollTimeout, ProbeOnline, Write, Goto
  <2>5. UNCHANGED <<run, own>>
    BY <1>4 DEF StartWaking, PollTimeout, ProbeOnline
  <2>6. /\ pc'[w] = label /\ txn'[w][x] = s /\ run'[w] = x /\ own'[w] = own[w]
        /\ \A a \in Id : a # x => txn'[w][a] = txn[w][a]
        /\ \A v \in Worker : v # w => /\ pc'[v] = pc[v] /\ run'[v] = run[v]
                                      /\ own'[v] = own[v] /\ txn'[v] = txn[v]
    BY <1>0, <2>1, <2>4, <2>5 DEF TypeOK
  <2>7. x = own'[w] \/ txn'[w][own'[w]] = "sent"
    BY <2>1, <2>2, <2>3, <2>6
  <2> QED
    BY <2>2, <2>4, <2>6, <2>7, OneWorkerMoves
<1>5. ASSUME NEW w \in Worker, PollProbe(w) \/ ProbeOffline(w)
      PROVE  WorkIsDone'
  <2>1. /\ UNCHANGED <<run, own, txn>> /\ pc[w] \in {"polling", "probing"}
        /\ \E label \in {"polling", "probing"} : pc' = [pc EXCEPT ![w] = label]
    BY <1>5 DEF PollProbe, ProbeOffline, Goto
  <2>2. pc'[w] \in {"polling", "probing"} /\ \A v \in Worker : v # w => pc'[v] = pc[v]
    BY <1>0, <2>1 DEF TypeOK
  <2> QED
    BY <2>1, <2>2, OneWorkerMoves DEF WorkIsDone
<1>6. ASSUME NEW w \in Worker, WakeRefused(w)
      PROVE  WorkIsDone'
  <2>1. /\ UNCHANGED <<run, own, txn>> /\ run[w] = NoId /\ own[w] = NoId
        /\ \A v \in Worker : v # w => pc'[v] = pc[v]
    BY <1>0, <1>6 DEF WakeRefused, Goto, LocalShape, TypeOK
  <2> QED
    BY <2>1, OneWorkerMoves
<1>7. ASSUME NEW w \in Worker, MarkDone(w)
      PROVE  WorkIsDone'
  <2>1. /\ UNCHANGED <<run, own, txn>>
        /\ (pc[w] = "processed" /\ pc'[w] = "committing") \/ pc'[w] = "failing"
        /\ \A v \in Worker : v # w => pc'[v] = pc[v]
    BY <1>0, <1>7 DEF MarkDone, Goto, TypeOK
  <2> QED
    BY <2>1, OneWorkerMoves DEF WorkIsDone
<1>8. ASSUME NEW w \in Worker, WorkerStep(w)
      PROVE  WorkIsDone'
  <2>1. CASE WakeCreate(w)
    <3>1. /\ pc' = [pc EXCEPT ![w] = "sending"] /\ UNCHANGED run
          /\ \A v \in Worker : v # w => own'[v] = own[v] /\ txn'[v] = txn[v]
      BY <1>0, <2>1 DEF WakeCreate, Goto, Write, TypeOK
    <3> QED
      BY <3>1, <1>2
  <2>2. CASE PickActive(w)
    <3>1. /\ pc' = [pc EXCEPT ![w] = "starting"] /\ UNCHANGED <<own, txn>>
          /\ \A v \in Worker : v # w => run'[v] = run[v]
      BY <1>0, <2>2 DEF PickActive, Goto, TypeOK
    <3> QED
      BY <3>1, <1>2
  <2>3. CASE Commit(w) \/ MarkError(w)
    <3>1. /\ pc' = [pc EXCEPT ![w] = "idle"]
          /\ \A v \in Worker : v # w => run'[v] = run[v] /\ own'[v] = own[v] /\ txn'[v] = txn[v]
      BY <1>0, <2>3 DEF Commit, MarkError, Forget, Goto, TypeOK
    <3> QED
      BY <3>1, <1>2
  <2>4. CASE \/ ClaimLock(w) \/ ClaimCommit(w) \/ WakeAllowed(w) \/ CreateRefused(w)
             \/ Exit(w) \/ Restart(w)
    <3>1. /\ UNCHANGED <<run, own, txn>>
          /\ \E label \in {"claiming", "claimed", "creating", "poisoned", "down", "idle"} :
                pc' = [pc EXCEPT ![w] = label]
      BY <2>4 DEF ClaimLock, ClaimCommit, WakeAllowed, CreateRefused, Exit, Restart, Goto
    <3> QED
      BY <3>1, <1>2
  <2> QED
    BY <1>8, <1>3, <1>4, <1>5, <1>6, <1>7, <2>1, <2>2, <2>3, <2>4 DEF WorkerStep
<1>9. ASSUME NEW w \in Worker, WorkerFault(w)
       PROVE  WorkIsDone'
  <2>1. CASE Signal(w)
    BY <2>1, <1>1 DEF Signal
  <2>2. CASE ~ Signal(w)
    <3>1. \E label \in {"idle", "poisoned", "failing", "down"} : pc' = [pc EXCEPT ![w] = label]
      BY <1>9, <2>2 DEF WorkerFault, ClaimFails, WakePoisoned, WorkFails, CommitFails,
         MarkErrorFails, WorkerCrash, Goto
    <3>2. \A v \in Worker : v # w => run'[v] = run[v] /\ own'[v] = own[v] /\ txn'[v] = txn[v]
      BY <1>0, <1>9, <2>2 DEF WorkerFault, ClaimFails, WakePoisoned, WorkFails, CommitFails,
         MarkErrorFails, WorkerCrash, Forget, TypeOK
    <3> QED
      BY <3>1, <3>2, <1>2
  <2> QED
    BY <2>1, <2>2
<1>10. CASE \/ ApiCrash \/ Tick \/ UNCHANGED vars
            \/ \E c \in Client, m \in Machine, kind \in Kinds :
                  WakeInsert(c, m, kind) \/ DirectCreate(c, m, kind)
            \/ \E c \in Client : RequestStep(c) \/ RequestFails(c)
            \/ \E m \in Machine : ToggleEnabled(m) \/ DeleteCheck(m) \/ DeleteMachine(m)
            \/ \E w \in Worker : ClaimNothing(w)
  <2>1. UNCHANGED <<pc, run, own, txn>>
    BY <1>10 DEF ApiCrash, Tick, vars, WakeInsert, DirectCreate, RequestStep, WakeCommit,
       EnqueueInsert, EnqueueRefused, EnqueueCommit, DirectSent, DirectFailed, DirectCommit,
       RequestFails, ToggleEnabled, DeleteCheck, DeleteMachine, ClaimNothing, workers
  <2> QED
    BY <2>1, <1>1
<1> QED
  BY <1>8, <1>9, <1>10 DEF Next

\* A row just inserted is not there yet.
LEMMA NewRowIsAbsent ==
    ASSUME WInv, NEW m \in Machine, NEW by \in {"api", "worker", "direct"},
           NEW ensure \in BOOLEAN, NEW timeout \in 1 .. MaxTimeout,
           NEW j \in Id \union {NoId}, NewAttempt(m, by, ensure, timeout, j),
           machine[m] # "gone", UNCHANGED <<status, machine>>
    PROVE  UNCHANGED Stage
<1>1. NewRow([machine |-> m, by |-> by, ensure |-> ensure, timeout |-> timeout, job |-> j])
  BY NewRowFacts
<1>2. ASSUME NEW a \in Id
      PROVE  (IF info'[a] # NoInfo /\ machine[info'[a].machine] = "gone"
              THEN "purged" ELSE status[a]) = Stage[a]
  <2>1. CASE a = last + 1
    BY <1>1, <2>1 DEF NewRow, Stage
  <2>2. CASE a # last + 1
    BY <1>1, <2>2 DEF NewRow, Stage
  <2> QED
    BY <2>1, <2>2
<1> QED
  BY <1>2 DEF Stage

\* Every step of the pipeline is one of the lifecycle or none.
LEMMA LifecycleStep ==
    ASSUME WInv, OneOpen, WorkIsDone, [Next]_vars
    PROVE  [Lifecycle!Next]_Stage
<1> DEFINE Goal == Lifecycle!Next \/ UNCHANGED Stage
<1>0. TypeOK /\ WorkerShape
  BY DEF WInv, IInv
<1>1. ASSUME UNCHANGED <<status, info, machine>>
      PROVE  Goal
  BY <1>1 DEF Stage
<1>2. ASSUME NEW c \in Client, NEW m \in Machine, NEW kind \in Kinds,
             WakeInsert(c, m, kind) \/ DirectCreate(c, m, kind)
      PROVE  Goal
  <2>1. kind.ensure \in BOOLEAN /\ kind.timeout \in 1 .. MaxTimeout
    BY BoundsAssumption
  <2>2. CASE WakeInsert(c, m, kind)
    <3>1. last + 1 \in Id
      BY <1>0, <2>2, NewAttemptFacts DEF WakeInsert
    <3> QED
      BY <2>1, <2>2, <3>1, NewRowIsAbsent DEF WakeInsert, tables, admin
  <2>3. CASE DirectCreate(c, m, kind)
    BY <2>1, <2>3, NewRowIsAbsent DEF DirectCreate, tables, admin
  <2> QED
    BY <1>2, <2>2, <2>3
<1>3. ASSUME NEW w \in Worker, WakeCreate(w)
      PROVE  Goal
  <2>1. pc[w] = "creating" /\ held[w] \in Id /\ info[held[w]].by = "api"
    BY <1>0, <1>3 DEF WakeCreate, WorkerShape, TypeOK
  <2>2. info[held[w]] \in Info
    BY <1>0, <2>1, InfoByApi DEF TypeOK
  <2> QED
    BY <1>3, <2>1, <2>2, NewRowIsAbsent DEF WakeCreate, tables, admin, Info
<1>4. ASSUME NEW m \in Machine, ToggleEnabled(m)
      PROVE  Goal
  <2>1. UNCHANGED <<status, info>>
    BY <1>4 DEF ToggleEnabled, tables, created
  <2>2. \A n \in Machine : machine'[n] = "gone" <=> machine[n] = "gone"
    BY <1>0, <1>4 DEF ToggleEnabled, TypeOK
  <2>3. \A a \in Id : info[a] # NoInfo => info[a].machine \in Machine
    BY <1>0 DEF TypeOK, Info
  <2>4. \A a \in Id : (info[a] # NoInfo /\ machine'[info[a].machine] = "gone") <=>
                      (info[a] # NoInfo /\ machine[info[a].machine] = "gone")
    BY <2>2, <2>3
  <2> QED
    BY <2>1, <2>4 DEF Stage
<1>5. ASSUME NEW w \in Worker, Commit(w) \/ CommitFails(w)
      PROVE  Goal
  <2>1. UNCHANGED <<info, machine>> /\ pc[w] = "committing"
    BY <1>5 DEF Commit, CommitFails, created, admin
  <2>2. status' = View(w) \/ status' = status
    BY <1>5 DEF Commit, CommitFails
  <2> QED
    BY <1>1, <2>1, <2>2, WorkSettles
<1>6. ASSUME NEW c \in Client, RequestStep(c) \/ RequestFails(c)
      PROVE  Goal
  <2>1. CASE WakeCommit(c) \/ DirectCommit(c)
    BY <2>1, RequestBegins
  <2>2. CASE ~ (WakeCommit(c) \/ DirectCommit(c))
    BY <1>1, <1>6, <2>2 DEF RequestStep, EnqueueInsert, EnqueueRefused, EnqueueCommit,
       DirectSent, DirectFailed, RequestFails, tables, created, admin
  <2> QED
    BY <2>1, <2>2
<1>7. ASSUME NEW w \in Worker, WorkerStep(w) \/ WorkerFault(w)
      PROVE  Goal
  <2>1. CASE WakeCreate(w) \/ Commit(w) \/ CommitFails(w)
    BY <2>1, <1>3, <1>5
  <2>2. CASE ~ (WakeCreate(w) \/ Commit(w) \/ CommitFails(w))
    <3>1. CASE WorkerStep(w)
      BY <1>1, <2>2, <3>1 DEF WorkerStep, ClaimLock, ClaimCommit, WakeRefused, WakeAllowed, CreateRefused,
         WakeSent, WakeFailed, PickActive, StartWaking, PollTimeout, PollProbe, ProbeOnline, ProbeOffline,
         MarkDone, MarkError, Exit, Restart, tables, created, admin
    <3>2. CASE WorkerFault(w)
      BY <1>1, <2>2, <3>2 DEF WorkerFault, ClaimFails, WakePoisoned, WorkFails, MarkErrorFails,
         Signal, WorkerCrash, tables, created, admin
    <3> QED
      BY <1>7, <3>1, <3>2
  <2> QED
    BY <2>1, <2>2
<1>8. CASE \/ ApiCrash \/ Tick \/ UNCHANGED vars \/ (\E m \in Machine : DeleteCheck(m))
           \/ \E w \in Worker : ClaimNothing(w)
  BY <1>1, <1>8 DEF ApiCrash, Tick, vars, DeleteCheck, ClaimNothing, tables, created, admin
<1>9. Goal
  BY <1>2, <1>4, <1>6, <1>7, <1>8, MachinePurges DEF Next
<1> QED
  BY <1>9 DEF Stage

\* With the one worker docker-compose.yml runs, the attempts keep the lifecycle of
\* AttemptLifecycle: each is committed with the fate of its packet or by its request, a
\* committed one is settled only in the commit that adds the worker's own, what is_terminal
\* says is final (wake_attempt.py:31-33), and what is deleted never comes back.
\* Nothing in update_status would stop a second worker, so the theorem is about one.
THEOREM AttemptsKeepLifecycle ==
    ASSUME \A v, w \in Worker : v = w
    PROVE  Spec => LifecycleKept
<1>1. Init => OneOpen /\ WorkIsDone /\ Lifecycle!Init
  <2> SUFFICES ASSUME Init
               PROVE  OneOpen /\ WorkIsDone /\ Lifecycle!Init
    OBVIOUS
  <2>1. OneOpen
    BY DEF Init, OneOpen, Open, Nothing, Terminal, Absent
  <2>2. WorkIsDone
    BY DEF Init, WorkIsDone
  <2>3. Lifecycle!Init
    BY DEF Init, Lifecycle!Init, Nothing, Absent
  <2> QED
    BY <2>1, <2>2, <2>3
<1>2. WInv /\ OneOpen /\ [Next]_vars => OneOpen'
  BY RowsMove
<1>3. WInv /\ WorkIsDone /\ [Next]_vars => WorkIsDone'
  BY WorkGetsDone
<1>4. WInv /\ OneOpen /\ WorkIsDone /\ [Next]_vars => [Lifecycle!Next]_Stage
  BY LifecycleStep
<1>5. Spec => [][Lifecycle!Next]_Stage
  BY <1>1, <1>2, <1>3, <1>4, WorkInvariance, PTL DEF Spec
<1> QED
  BY <1>1, <1>5, PTL DEF Spec, LifecycleKept, Lifecycle!Spec, Stage

==============================================================================
