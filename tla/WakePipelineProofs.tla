------------------------- MODULE WakePipelineProofs -------------------------
(***************************************************************************)
(* Proofs about WakePipeline, for any machines, clients, workers, kinds of *)
(* request and bounds: type correctness, that a job is in the hands of one *)
(* worker at a time, and that it has one packet sent at most.  The last    *)
(* needs the whole inductive invariant IInv: the identifiers are handed    *)
(* out once (Fresh, Issued), the worker's variables go together            *)
(* (WorkerShape), a job is unknown to the workers before it is committed   *)
(* (NotYetQueued), claimed once its worker is at work (HeldIsClaimed), and *)
(* never again at a place from which a packet is sent (SpentIsPast).       *)
(***************************************************************************)
EXTENDS WakePipeline, FiniteSetTheorems, TLAPS

----------------------------------------------------------------------------
\* The inductive invariant.

\* Nothing is known of identifiers not handed out yet, and nobody holds one.
Fresh ==
    \A a \in Id : a > last => info[a] = NoInfo /\ job[a] = Absent /\ outcome[a] = "none"
Issued ==
    /\ \A w \in Worker : held[w] =< last /\ own[w] =< last
    /\ \A c \in Client : req[c].id =< last
    /\ \A a \in Id : info[a].job =< last

WorkerShape ==
    \A w \in Worker :
        /\ held[w] = NoId <=> pc[w] \in {"idle", "down"}
        /\ held[w] # NoId => info[held[w]].by = "api"
        /\ own[w] # NoId => /\ held[w] # NoId
                            /\ info[own[w]].by = "worker"
                            /\ info[own[w]].job = held[w]
        /\ pc[w] = "sending" => own[w] # NoId

Queueing == {"inserted", "committed", "queueing"}
RequestShape ==
    \A c \in Client :
        /\ req[c].id = NoId <=> req[c].pc = "idle"
        /\ req[c].pc \in Queueing => info[req[c].id].by = "api"
        /\ req[c].pc \in {"sending", "sent"} => info[req[c].id].by = "direct"
        /\ \A d \in Client : req[c].id # NoId /\ req[c].id = req[d].id => c = d

RowShape ==
    \A a \in Id : /\ job[a] # Absent => info[a].by = "api"
                  /\ info[a].by = "worker" => info[a].job \in Id

\* A job still to be queued is unknown to the workers.
NotYetQueued ==
    \A c \in Client : req[c].pc \in Queueing =>
        /\ job[req[c].id] = Absent
        /\ \A w \in Worker : held[w] # req[c].id
        /\ \A a \in Id : info[a].by = "worker" => info[a].job # req[c].id

\* Once its claim is committed a job is not queued, whoever works on it.
HeldIsClaimed == \A w \in Worker : Working(w) => job[held[w]] # "queued"

\* A job whose packet has left is never before its packet again.
SpentIsPast ==
    \A a \in Id :
        info[a].by = "worker" /\ outcome[a] # "none" =>
            /\ job[info[a].job] # "queued"
            /\ \A w \in Worker :
                  held[w] = info[a].job => pc[w] \notin {"claiming", "claimed", "creating", "sending"}

IInv == /\ TypeOK /\ Fresh /\ Issued /\ WorkerShape /\ RequestShape /\ RowShape
        /\ NotYetQueued /\ JobHeldOnce /\ HeldIsClaimed /\ SpentIsPast /\ OnePacketPerJob

\* Identifiers are positive, and there are finitely many of them.
LEMMA IdsAreNaturals ==
    /\ MaxAttempts \in Nat
    /\ Id \subseteq Nat \ {0}
    /\ NoId \notin Id
    /\ IsFiniteSet(Id)
<1>1. MaxAttempts \in Nat
  BY BoundsAssumption DEF MaxAttempts
<1>2. IsFiniteSet(Id)
  BY <1>1, FS_Interval DEF Id
<1> QED
  BY <1>1, <1>2 DEF Id, NoId

\* Only a row handed out has an author, and then all its columns are real.
LEMMA InfoByApi ==
    \A i \in Info \union {NoInfo} :
        i.by \in {"api", "worker", "direct"} =>
            i \in Info /\ i.machine \in Machine /\ i.ensure \in BOOLEAN
            /\ i.timeout \in 1 .. MaxTimeout
BY DEF Info, NoInfo

\* What the workers and the requests hold can be compared with the last identifier.
LEMMA HeldInNat ==
    TypeOK => /\ \A w \in Worker : held[w] \in Nat /\ own[w] \in Nat
              /\ \A c \in Client : req[c].id \in Nat
<1>1. \A x \in Id \union {NoId} : x \in Nat
  BY IdsAreNaturals DEF NoId
<1> QED
  BY <1>1 DEF TypeOK

\* So can the job an attempt belongs to.
LEMMA JobOfInfo == TypeOK => \A a \in Id : info[a].job \in Nat
<1>1. \A i \in Info \union {NoInfo} : i.job \in Id \union {NoId}
  BY DEF Info, NoInfo
<1>2. \A x \in Id \union {NoId} : x \in Nat
  BY IdsAreNaturals DEF NoId
<1> QED
  BY <1>1, <1>2 DEF TypeOK

\* What a new row changes.
LEMMA NewAttemptFacts ==
    ASSUME TypeOK, NEW m, NEW by, NEW ensure, NEW timeout, NEW j,
           NewAttempt(m, by, ensure, timeout, j)
    PROVE  /\ last \in Nat
           /\ last + 1 \in Id
           /\ last' = last + 1
           /\ info'[last + 1].by = by
           /\ info'[last + 1].job = j
           /\ \A a \in Id : a # last + 1 => info'[a] = info[a]
           /\ \A a \in Id : a > last + 1 => a > last
           /\ \A a \in Id \union {NoId} : a =< last => a # last + 1 /\ a =< last + 1
<1>1. last \in Nat /\ last + 1 \in Id /\ last' = last + 1
  BY IdsAreNaturals DEF TypeOK, NewAttempt, Id
<1>2. DOMAIN info = Id
  BY DEF TypeOK
<1>3. info' = [info EXCEPT ![last + 1] =
                   [machine |-> m, by |-> by, ensure |-> ensure, timeout |-> timeout,
                    job |-> j]]
  BY DEF NewAttempt
<1>4. \A a \in Id \union {NoId} : a \in Nat
  BY IdsAreNaturals DEF NoId
<1> QED
  BY <1>1, <1>2, <1>3, <1>4

\* Every step keeps the types: the worker's job must be one an API request made.
LEMMA TypeStep == TypeOK /\ WorkerShape /\ [Next]_vars => TypeOK'
<1> SUFFICES ASSUME TypeOK, WorkerShape, [Next]_vars
             PROVE  TypeOK'
  OBVIOUS
<1> USE BoundsAssumption, IdsAreNaturals DEF TypeOK, Info, NoInfo, Idle, ReqPc, WorkerPc,
        AttemptStatus, JobStatus, Absent, NoId
<1>1. ASSUME NEW c \in Client, NEW m \in Machine, NEW kind \in Kinds, WakeInsert(c, m, kind)
      PROVE  TypeOK'
  <2>1. /\ last + 1 \in Id
        /\ last' \in 0 .. MaxAttempts
    BY <1>1 DEF WakeInsert, NewAttempt, Id
  <2>2. info' \in [Id -> Info \union {NoInfo}]
    BY <1>1, <2>1 DEF WakeInsert, NewAttempt
  <2>3. req' \in [Client -> [pc : ReqPc, id : Id \union {NoId}]]
    BY <1>1, <2>1 DEF WakeInsert
  <2> QED
    BY <1>1, <2>1, <2>2, <2>3 DEF WakeInsert, NewAttempt, tables, workers, admin
<1>2. ASSUME NEW c \in Client, NEW m \in Machine, NEW kind \in Kinds, DirectCreate(c, m,
   kind)
      PROVE  TypeOK'
  <2>1. /\ last + 1 \in Id
        /\ last' \in 0 .. MaxAttempts
    BY <1>2 DEF DirectCreate, NewAttempt, Id
  <2>2. info' \in [Id -> Info \union {NoInfo}]
    BY <1>2, <2>1 DEF DirectCreate, NewAttempt
  <2>3. req' \in [Client -> [pc : ReqPc, id : Id \union {NoId}]]
    BY <1>2, <2>1 DEF DirectCreate
  <2> QED
    BY <1>2, <2>1, <2>2, <2>3 DEF DirectCreate, NewAttempt, tables, workers, admin
<1>3. ASSUME NEW c \in Client, WakeCommit(c)
      PROVE  TypeOK'
  <2>1. req' \in [Client -> [pc : ReqPc, id : Id \union {NoId}]]
    BY <1>3 DEF WakeCommit
  <2>2. status' \in [Id -> AttemptStatus \union {Absent}]
    BY <1>3 DEF WakeCommit
  <2> QED
    BY <1>3, <2>1, <2>2 DEF WakeCommit, created, workers, admin
<1>4. ASSUME NEW c \in Client, EnqueueInsert(c)
      PROVE  TypeOK'
  <2> DEFINE S == {i \in Id : stamp[i] > 0}
             n == Cardinality(S) + 1
  <2>1. S \subseteq Id
    OBVIOUS
  <2>2. IsFiniteSet(S)
    BY <2>1, FS_Subset, IdsAreNaturals
  <2>3. n \in Nat
    BY <2>2, FS_CardinalityType
  <2>4. stamp' = [stamp EXCEPT ![req[c].id] = n]
    BY <1>4 DEF EnqueueInsert
  <2>5. stamp' \in [Id -> Nat]
    <3> HIDE DEF n
    <3> QED
      BY <2>3, <2>4
  <2>6. req' \in [Client -> [pc : ReqPc, id : Id \union {NoId}]]
    BY <1>4 DEF EnqueueInsert
  <2> QED
    BY <1>4, <2>5, <2>6 DEF EnqueueInsert, tables, created, workers, admin
<1>5. ASSUME NEW c \in Client, EnqueueRefused(c)
      PROVE  TypeOK'
  BY <1>5 DEF EnqueueRefused, Reply, tables, created, workers, admin
<1>6. ASSUME NEW c \in Client, EnqueueCommit(c)
      PROVE  TypeOK'
  BY <1>6 DEF EnqueueCommit, Reply, created, workers, admin
<1>7. ASSUME NEW c \in Client, DirectSent(c)
      PROVE  TypeOK'
  <2>1. req' \in [Client -> [pc : ReqPc, id : Id \union {NoId}]]
    BY <1>7 DEF DirectSent
  <2>2. outcome' \in [Id -> {"none", "sent", "failed"}]
    BY <1>7 DEF DirectSent
  <2> QED
    BY <1>7, <2>1, <2>2 DEF DirectSent, tables, created, workers, admin
<1>8. ASSUME NEW c \in Client, DirectFailed(c)
      PROVE  TypeOK'
  BY <1>8 DEF DirectFailed, Reply, tables, created, workers, admin
<1>9. ASSUME NEW c \in Client, DirectCommit(c)
      PROVE  TypeOK'
  BY <1>9 DEF DirectCommit, Reply, created, workers, admin
<1>10. ASSUME NEW c \in Client, RequestFails(c)
      PROVE  TypeOK'
  BY <1>10 DEF RequestFails, Reply, Fault, tables, created, workers, admin
<1>11. ASSUME ApiCrash
      PROVE  TypeOK'
  BY <1>11 DEF ApiCrash, Fault, tables, created, workers, admin
<1>12. ASSUME NEW m \in Machine, ToggleEnabled(m)
      PROVE  TypeOK'
  BY <1>12 DEF ToggleEnabled, tables, created, workers
<1>13. ASSUME NEW m \in Machine, DeleteCheck(m)
      PROVE  TypeOK'
  BY <1>13 DEF DeleteCheck, tables, created, workers
<1>14. ASSUME NEW m \in Machine, DeleteMachine(m)
      PROVE  TypeOK'
  BY <1>14 DEF DeleteMachine, created, workers
<1>15. ASSUME Tick
      PROVE  TypeOK'
  <2>1. age' \in [Id -> 0 .. MaxTimeout]
    BY <1>15 DEF Tick
  <2> QED
    BY <1>15, <2>1 DEF Tick, tables, workers, admin
<1>16. ASSUME NEW w \in Worker, ClaimNothing(w)
      PROVE  TypeOK'
  BY <1>16 DEF ClaimNothing, vars
<1>17. ASSUME NEW w \in Worker, ClaimLock(w)
      PROVE  TypeOK'
  <2>1. PICK j \in Claimable : held' = [held EXCEPT ![w] = j]
    BY <1>17 DEF ClaimLock
  <2>2. j \in Id
    BY <2>1 DEF Claimable
  <2>3. held' \in [Worker -> Id \union {NoId}]
    BY <2>1, <2>2
  <2> QED
    BY <1>17, <2>3 DEF ClaimLock, Goto, tables, created, admin
<1>18. ASSUME NEW w \in Worker, ClaimCommit(w)
      PROVE  TypeOK'
  BY <1>18 DEF ClaimCommit, Goto, SetJob, created, admin
<1>19. ASSUME NEW w \in Worker, WakeRefused(w)
      PROVE  TypeOK'
  BY <1>19 DEF WakeRefused, Goto, tables, created, admin
<1>20. ASSUME NEW w \in Worker, WakeCreate(w)
      PROVE  TypeOK'
  <2>1. /\ last + 1 \in Id
        /\ last' \in 0 .. MaxAttempts
    BY <1>20 DEF WakeCreate, NewAttempt, Id
  <2>2. info[held[w]] \in Info
    <3>1. /\ held[w] \in Id
          /\ info[held[w]].by = "api"
      <4>1. pc[w] = "creating" /\ held[w] \in Id \union {NoId}
        BY <1>20 DEF WakeCreate
      <4> HIDE DEF TypeOK
      <4> QED
        BY <4>1 DEF WorkerShape
    <3>2. info[held[w]] \in Info \union {NoInfo}
      BY <3>1
    <3> QED
      BY <3>1, <3>2, InfoByApi
  <2>3. info' \in [Id -> Info \union {NoInfo}]
    BY <1>20, <2>1, <2>2 DEF WakeCreate, NewAttempt
  <2>4. /\ own' \in [Worker -> Id \union {NoId}]
        /\ txn' \in [Worker -> [Id -> AttemptStatus \union {Absent}]]
        /\ pc' \in [Worker -> WorkerPc]
    BY <1>20, <2>1 DEF WakeCreate, Write, Goto
  <2> QED
    BY <1>20, <2>1, <2>3, <2>4 DEF WakeCreate, NewAttempt, tables, admin
<1>21. ASSUME NEW w \in Worker, WakeSent(w)
      PROVE  TypeOK'
  BY <1>21 DEF WakeSent, Write, Goto, tables, created, admin
<1>22. ASSUME NEW w \in Worker, WakeFailed(w)
      PROVE  TypeOK'
  BY <1>22 DEF WakeFailed, Write, Goto, tables, created, admin
<1>23. ASSUME NEW w \in Worker, PickActive(w)
      PROVE  TypeOK'
  <2>1. PICK a \in ActiveFor(w, info[held[w]].machine) : run' = [run EXCEPT ![w] = a]
    BY <1>23 DEF PickActive
  <2>2. a \in Id
    BY <2>1 DEF ActiveFor
  <2>3. run' \in [Worker -> Id \union {NoId}]
    BY <2>1, <2>2
  <2> QED
    BY <1>23, <2>3 DEF PickActive, Goto, tables, created, admin
<1>24. ASSUME NEW w \in Worker, StartWaking(w)
      PROVE  TypeOK'
  BY <1>24 DEF StartWaking, Write, Goto, tables, created, admin
<1>25. ASSUME NEW w \in Worker, PollTimeout(w)
      PROVE  TypeOK'
  BY <1>25 DEF PollTimeout, Write, Goto, tables, created, admin
<1>26. ASSUME NEW w \in Worker, PollProbe(w)
      PROVE  TypeOK'
  BY <1>26 DEF PollProbe, Goto, tables, created, admin
<1>27. ASSUME NEW w \in Worker, ProbeOnline(w)
      PROVE  TypeOK'
  BY <1>27 DEF ProbeOnline, Write, Goto, tables, created, admin
<1>28. ASSUME NEW w \in Worker, ProbeOffline(w)
      PROVE  TypeOK'
  BY <1>28 DEF ProbeOffline, Goto, tables, created, admin
<1>29. ASSUME NEW w \in Worker, MarkDone(w)
      PROVE  TypeOK'
  BY <1>29 DEF MarkDone, Goto, SetJob, created, admin
<1>30. ASSUME NEW w \in Worker, Commit(w)
      PROVE  TypeOK'
  BY <1>30 DEF Commit, Goto, Forget, Nothing, View, created, admin
<1>31. ASSUME NEW w \in Worker, MarkError(w)
      PROVE  TypeOK'
  BY <1>31 DEF MarkError, Goto, SetJob, Forget, Nothing, created, admin
<1>32. ASSUME NEW w \in Worker, Exit(w)
      PROVE  TypeOK'
  BY <1>32 DEF Exit, Goto, tables, created, admin
<1>33. ASSUME NEW w \in Worker, Restart(w)
      PROVE  TypeOK'
  BY <1>33 DEF Restart, Goto, tables, created, admin
<1>34. ASSUME NEW w \in Worker, ClaimFails(w)
      PROVE  TypeOK'
  BY <1>34 DEF ClaimFails, Goto, SetJob, Fault, Forget, Nothing, created, admin
<1>35. ASSUME NEW w \in Worker, WakePoisoned(w)
      PROVE  TypeOK'
  <2>1. outcome' \in [Id -> {"none", "sent", "failed"}]
    BY <1>35 DEF WakePoisoned
  <2>2. /\ txn' \in [Worker -> [Id -> AttemptStatus \union {Absent}]]
        /\ faults' \in 0 .. MaxFaults
    BY <1>35 DEF WakePoisoned, Nothing, Fault
  <2> QED
    BY <1>35, <2>1, <2>2 DEF WakePoisoned, Goto, tables, created, admin
<1>36. ASSUME NEW w \in Worker, WorkFails(w)
      PROVE  TypeOK'
  BY <1>36 DEF WorkFails, Goto, Fault, Nothing, tables, created, admin
<1>37. ASSUME NEW w \in Worker, CommitFails(w)
      PROVE  TypeOK'
  <2>1. status' \in [Id -> AttemptStatus \union {Absent}]
    BY <1>37 DEF CommitFails, View
  <2>2. /\ txn' \in [Worker -> [Id -> AttemptStatus \union {Absent}]]
        /\ faults' \in 0 .. MaxFaults
    BY <1>37 DEF CommitFails, Nothing, Fault
  <2> QED
    BY <1>37, <2>1, <2>2 DEF CommitFails, Goto, created, admin
<1>38. ASSUME NEW w \in Worker, MarkErrorFails(w)
      PROVE  TypeOK'
  BY <1>38 DEF MarkErrorFails, Goto, Fault, Forget, Nothing, tables, created, admin
<1>39. ASSUME NEW w \in Worker, Signal(w)
      PROVE  TypeOK'
  BY <1>39 DEF Signal, Fault, tables, created, admin
<1>40. ASSUME NEW w \in Worker, WorkerCrash(w)
      PROVE  TypeOK'
  BY <1>40 DEF WorkerCrash, Goto, Fault, Forget, Nothing, tables, created, admin
<1>41. ASSUME NEW w \in Worker, WakeAllowed(w)
      PROVE  TypeOK'
  BY <1>41 DEF WakeAllowed, Goto, tables, created, admin
<1>42. ASSUME NEW w \in Worker, CreateRefused(w)
      PROVE  TypeOK'
  BY <1>42 DEF CreateRefused, Goto, tables, created, admin
<1>43. ASSUME UNCHANGED vars
      PROVE  TypeOK'
  BY <1>43 DEF vars
<1> QED
  BY <1>1, <1>2, <1>3, <1>4, <1>5, <1>6, <1>7, <1>8, <1>9, <1>10, <1>11, <1>12, <1>13,
     <1>14, <1>15, <1>16, <1>17, <1>18, <1>19, <1>20, <1>21, <1>22, <1>23, <1>24, <1>25,
     <1>26, <1>27, <1>28, <1>29, <1>30, <1>31, <1>32, <1>33, <1>34, <1>35, <1>36, <1>37,
     <1>38, <1>39, <1>40, <1>41, <1>42, <1>43
     DEF Next, RequestStep, WorkerStep, WorkerFault

\* Where the worker is once the packet of its job is behind it.
Late == {"picking", "starting", "polling", "probing", "processed", "poisoned",
         "committing", "failing"}

\* Steps that leave alone all the invariant speaks of.
LEMMA FrameStep ==
    ASSUME IInv, TypeOK',
           UNCHANGED <<info, job, outcome, last, req, pc, held, own>>
    PROVE  IInv'
BY DEF IInv, Queueing, Working, Fresh, Issued, WorkerShape, RequestShape, RowShape,
       NotYetQueued, JobHeldOnce, HeldIsClaimed, SpentIsPast, OnePacketPerJob

\* What the row a request inserts leaves of the invariant, its own variables apart.
LEMMA RequestInsertStep ==
    ASSUME IInv, TypeOK', NEW m, NEW by \in {"api", "direct"}, NEW ensure,
           NEW timeout, NEW j \in {NoId, last + 1}, NewAttempt(m, by, ensure, timeout, j),
           UNCHANGED <<job, outcome, pc, held, own>>
    PROVE  /\ Fresh' /\ WorkerShape' /\ RowShape' /\ JobHeldOnce' /\ HeldIsClaimed'
           /\ SpentIsPast' /\ OnePacketPerJob'
           /\ \A w \in Worker : held'[w] =< last' /\ own'[w] =< last'
           /\ \A a \in Id : info'[a].job =< last'
<1> USE NewAttemptFacts DEF IInv
<1> DEFINE new == last + 1
<1>1. /\ last \in Nat /\ new \in Id /\ last' = new
      /\ info'[new].by = by
      /\ info'[new].job = j
      /\ \A a \in Id : a # new => info'[a] = info[a]
      /\ \A a \in Id : a > new => a > last /\ a # new
  BY IdsAreNaturals
<1>2. /\ \A w \in Worker : held[w] \in Nat /\ own[w] \in Nat
      /\ \A w \in Worker : held[w] \in Id \union {NoId} /\ own[w] \in Id \union {NoId}
      /\ \A a \in Id : info[a].job \in Nat
  BY HeldInNat, JobOfInfo DEF TypeOK
<1>3. \A w \in Worker : held[w] # new /\ own[w] # new
  BY <1>1, <1>2 DEF Issued
<1>4. \A a \in Id : info'[a].by = "worker" => info'[a] = info[a]
  BY <1>1
<1>5. job[new] = Absent
  BY <1>1 DEF Fresh
<1> HIDE NewAttemptFacts DEF IInv, new
<1>6. Fresh'
  BY <1>1 DEF IInv, Fresh
<1>7. WorkerShape'
  BY <1>1, <1>2, <1>3 DEF IInv, WorkerShape, NoId
<1>8. RowShape'
  BY <1>1, <1>5 DEF IInv, RowShape
<1>9. JobHeldOnce' /\ HeldIsClaimed'
  BY DEF IInv, JobHeldOnce, HeldIsClaimed, Working
<1>10. SpentIsPast'
  BY <1>4 DEF IInv, SpentIsPast
<1>11. OnePacketPerJob'
  BY <1>4 DEF IInv, OnePacketPerJob
<1>12. \A w \in Worker : held'[w] =< last' /\ own'[w] =< last'
  BY <1>1, <1>2 DEF IInv, Issued, new
<1>13. \A a \in Id : info'[a].job =< last'
  <2> SUFFICES ASSUME NEW a \in Id
               PROVE  info'[a].job =< last'
    OBVIOUS
  <2>1. CASE a = new
    BY <2>1, <1>1 DEF new, NoId
  <2>2. CASE a # new
    BY <2>2, <1>1, <1>2 DEF IInv, Issued, new
  <2> QED
    BY <2>1, <2>2
<1> QED
  BY <1>6, <1>7, <1>8, <1>9, <1>10, <1>11, <1>12, <1>13

\* Steps with which requests end, whatever became of them.
LEMMA RequestEndsStep ==
    ASSUME IInv, TypeOK', DOMAIN req' = DOMAIN req,
           \A c \in Client : req'[c] \in {req[c], Idle},
           UNCHANGED <<info, job, outcome, last, pc, held, own>>
    PROVE  IInv'
<1>1. /\ \A c \in Client : req[c].id \in Nat
      /\ last \in Nat
      /\ \A c \in Client : req'[c] = req[c] \/ req'[c] = Idle
  BY HeldInNat, IdsAreNaturals DEF IInv, TypeOK
<1>2. Fresh' /\ Issued' /\ RequestShape' /\ NotYetQueued'
  BY <1>1 DEF IInv, Fresh, Issued, RequestShape, NotYetQueued, Queueing, Idle, NoId
<1>3. WorkerShape' /\ RowShape' /\ JobHeldOnce' /\ HeldIsClaimed' /\ SpentIsPast' /\ OnePacketPerJob'
  BY DEF IInv, WorkerShape, RowShape, JobHeldOnce, HeldIsClaimed, Working, SpentIsPast,
         OnePacketPerJob
<1> QED
  BY <1>2, <1>3 DEF IInv

\* Steps that only move a worker on: past the packet, or to the places around it.
LEMMA MoveOnStep ==
    ASSUME IInv, TypeOK', NEW w \in Worker, NEW label, Goto(w, label),
           \/ label \in Late /\ pc[w] \notin {"idle", "down", "claiming"}
           \/ label = "creating" /\ pc[w] = "claimed"
           \/ label = "idle" /\ pc[w] = "down"
           \/ label = "down" /\ pc[w] = "idle",
           UNCHANGED <<info, job, outcome, last, req, held, own>>
    PROVE  IInv'
<1>1. pc'[w] = label /\ \A v \in Worker : v # w => pc'[v] = pc[v]
  BY DEF IInv, TypeOK, Goto
<1>2. Fresh' /\ Issued' /\ RequestShape' /\ RowShape' /\ NotYetQueued' /\ JobHeldOnce' /\ OnePacketPerJob'
  BY DEF IInv, Fresh, Issued, RequestShape, RowShape, NotYetQueued, Queueing, JobHeldOnce,
         OnePacketPerJob
<1>3. WorkerShape'
  BY <1>1 DEF IInv, WorkerShape, Late
<1>4. HeldIsClaimed'
  BY <1>1 DEF IInv, HeldIsClaimed, Working, Late, WorkerShape
<1>5. SpentIsPast'
  BY <1>1 DEF IInv, SpentIsPast, Late
<1> QED
  BY <1>2, <1>3, <1>4, <1>5 DEF IInv

\* Steps with which a worker lets go of its job, which is not queued any more or
\* still was not claimed.
LEMMA LetGoStep ==
    ASSUME IInv, TypeOK', NEW w \in Worker, NEW label \in {"idle", "down"},
           Goto(w, label), Forget(w),
           \/ UNCHANGED job
           \/ \E s \in {"running", "error"} : SetJob(held[w], s),
           UNCHANGED <<info, outcome, last, req>>
    PROVE  IInv'
<1>1. /\ \A v \in Worker : v # w => /\ held'[v] = held[v]
                                  /\ own'[v] = own[v]
                                  /\ pc'[v] = pc[v]
      /\ held'[w] = NoId /\ own'[w] = NoId /\ pc'[w] \in {"idle", "down"}
  BY DEF IInv, TypeOK, Goto, Forget
<1>2. /\ \A j \in Id : job'[j] = "queued" => job[j] = "queued"
      /\ \A j \in Id : job'[j] = Absent <=> job[j] = Absent
  BY DEF IInv, TypeOK, SetJob, Absent
<1>3. /\ \A v \in Worker : held[v] \in Nat /\ held[v] \in Id \union {NoId}
      /\ \A c \in Client : req[c].id \in Id \union {NoId}
      /\ last \in Nat
      /\ NoId = 0 /\ NoId \notin Id
  BY HeldInNat, IdsAreNaturals DEF IInv, TypeOK, NoId
<1>5. Fresh' /\ Issued' /\ RowShape' /\ RequestShape'
  BY <1>1, <1>2, <1>3 DEF IInv, Fresh, Issued, RowShape, RequestShape
<1>6. WorkerShape'
  BY <1>1, <1>3 DEF IInv, WorkerShape
<1>7. NotYetQueued'
  BY <1>1, <1>2, <1>3 DEF IInv, NotYetQueued, Queueing, RequestShape
<1>8. JobHeldOnce' /\ HeldIsClaimed'
  BY <1>1, <1>2, <1>3 DEF IInv, JobHeldOnce, HeldIsClaimed, Working
<1>9. SpentIsPast' /\ OnePacketPerJob'
  BY <1>1, <1>2, <1>3 DEF IInv, SpentIsPast, OnePacketPerJob, RowShape
<1> QED
  BY <1>5, <1>6, <1>7, <1>8, <1>9 DEF IInv

\* The invariant is inductive: one step for each action.
LEMMA InvStep == IInv /\ [Next]_vars => IInv'
<1> SUFFICES ASSUME IInv, [Next]_vars, TypeOK, TypeOK'
             PROVE  IInv'
  BY TypeStep DEF IInv
<1> USE IdsAreNaturals DEF IInv, Queueing, Working, Absent, NoId, Idle, TypeOK
<1>1. ASSUME NEW c \in Client, NEW m \in Machine, NEW kind \in Kinds,
             WakeInsert(c, m, kind)
      PROVE  IInv'
  <2>1. NewAttempt(m, "api", kind.ensure, kind.timeout, last + 1)
    BY <1>1 DEF WakeInsert
  <2>2. UNCHANGED <<job, outcome, pc, held, own>>
    BY <1>1 DEF WakeInsert, tables, workers
  <2>3. /\ Fresh' /\ WorkerShape' /\ RowShape' /\ JobHeldOnce' /\ HeldIsClaimed'
        /\ SpentIsPast' /\ OnePacketPerJob'
        /\ \A w \in Worker : held'[w] =< last' /\ own'[w] =< last'
        /\ \A a \in Id : info'[a].job =< last'
    BY <2>1, <2>2, RequestInsertStep
  <2>4. /\ last \in Nat /\ last + 1 \in Id /\ last' = last + 1
        /\ info'[last + 1].by = "api"
        /\ \A a \in Id : a # last + 1 => info'[a] = info[a]
    BY <2>1, NewAttemptFacts
  <2>5. \A d \in Client : req[d].id \in Nat /\ req[d].id \in Id \union {NoId} /\ req[d].id # last + 1
    BY <2>4, HeldInNat DEF Issued
  <2>6. /\ req'[c].pc = "inserted" /\ req'[c].id = last + 1
        /\ \A d \in Client : d # c => req'[d] = req[d]
    BY <1>1 DEF WakeInsert
  <2>7. job[last + 1] = Absent /\ info[last + 1].by = "none"
    BY <2>4 DEF Fresh, NoInfo
  <2> HIDE DEF TypeOK
  <2>8. Issued'
    BY <2>3, <2>4, <2>5, <2>6 DEF Issued
  <2>9. RequestShape'
    BY <2>4, <2>5, <2>6 DEF RequestShape
  <2>10. NotYetQueued'
    <3> SUFFICES ASSUME NEW d \in Client, req'[d].pc \in Queueing
                 PROVE  /\ job'[req'[d].id] = Absent
                        /\ \A w \in Worker : held'[w] # req'[d].id
                        /\ \A a \in Id : info'[a].by = "worker" => info'[a].job # req'[d].id
      BY DEF NotYetQueued
    <3>1. \A a \in Id : info'[a].by = "worker" => info'[a] = info[a]
      BY <2>4
    <3>2. CASE d = c
      <4>1. \A w \in Worker : held[w] =< last /\ held[w] \in Nat
        BY HeldInNat DEF Issued
      <4>2. \A a \in Id : info[a].job =< last /\ info[a].job \in Nat
        BY JobOfInfo DEF Issued
      <4> QED
        BY <3>1, <3>2, <4>1, <4>2, <2>2, <2>4, <2>6, <2>7
    <3>3. CASE d # c
      BY <3>1, <3>3, <2>2, <2>6 DEF NotYetQueued
    <3> QED
      BY <3>2, <3>3
  <2> QED
    BY <2>3, <2>8, <2>9, <2>10
<1>2. ASSUME NEW c \in Client, NEW m \in Machine, NEW kind \in Kinds,
             DirectCreate(c, m, kind)
      PROVE  IInv'
  <2>1. NewAttempt(m, "direct", kind.ensure, kind.timeout, NoId)
    BY <1>2 DEF DirectCreate
  <2>2. UNCHANGED <<job, outcome, pc, held, own>>
    BY <1>2 DEF DirectCreate, tables, workers
  <2>3. /\ Fresh' /\ WorkerShape' /\ RowShape' /\ JobHeldOnce' /\ HeldIsClaimed'
        /\ SpentIsPast' /\ OnePacketPerJob'
        /\ \A w \in Worker : held'[w] =< last' /\ own'[w] =< last'
        /\ \A a \in Id : info'[a].job =< last'
    BY <2>1, <2>2, RequestInsertStep
  <2>4. /\ last \in Nat /\ last + 1 \in Id /\ last' = last + 1
        /\ info'[last + 1].by = "direct"
        /\ \A a \in Id : a # last + 1 => info'[a] = info[a]
    BY <2>1, NewAttemptFacts
  <2>5. \A d \in Client : req[d].id \in Nat /\ req[d].id \in Id \union {NoId} /\ req[d].id # last + 1
    BY <2>4, HeldInNat DEF Issued
  <2>6. /\ req'[c].pc = "sending" /\ req'[c].id = last + 1
        /\ \A d \in Client : d # c => req'[d] = req[d]
    BY <1>2 DEF DirectCreate
  <2>7. job[last + 1] = Absent /\ info[last + 1].by = "none"
    BY <2>4 DEF Fresh, NoInfo
  <2> HIDE DEF TypeOK
  <2>8. Issued'
    BY <2>3, <2>4, <2>5, <2>6 DEF Issued
  <2>9. RequestShape'
    BY <2>4, <2>5, <2>6 DEF RequestShape
  <2>10. NotYetQueued'
    <3> SUFFICES ASSUME NEW d \in Client, req'[d].pc \in Queueing
                 PROVE  /\ job'[req'[d].id] = Absent
                        /\ \A w \in Worker : held'[w] # req'[d].id
                        /\ \A a \in Id : info'[a].by = "worker" => info'[a].job # req'[d].id
      BY DEF NotYetQueued
    <3>1. \A a \in Id : info'[a].by = "worker" => info'[a] = info[a]
      BY <2>4
    <3>2. CASE d = c
      <4>1. \A w \in Worker : held[w] =< last /\ held[w] \in Nat
        BY HeldInNat DEF Issued
      <4>2. \A a \in Id : info[a].job =< last /\ info[a].job \in Nat
        BY JobOfInfo DEF Issued
      <4> QED
        BY <3>1, <3>2, <4>1, <4>2, <2>2, <2>4, <2>6, <2>7
    <3>3. CASE d # c
      BY <3>1, <3>3, <2>2, <2>6 DEF NotYetQueued
    <3> QED
      BY <3>2, <3>3
  <2> QED
    BY <2>3, <2>8, <2>9, <2>10
<1>3. ASSUME NEW c \in Client, WakeCommit(c)
      PROVE  IInv'
  BY <1>3
     DEF Fresh, Issued, WorkerShape, RequestShape, RowShape, NotYetQueued, JobHeldOnce,
         HeldIsClaimed, SpentIsPast, OnePacketPerJob, WakeCommit, created, workers,
         admin
<1>4. ASSUME NEW c \in Client, EnqueueInsert(c)
      PROVE  IInv'
  BY <1>4
     DEF Fresh, Issued, WorkerShape, RequestShape, RowShape, NotYetQueued, JobHeldOnce,
         HeldIsClaimed, SpentIsPast, OnePacketPerJob, EnqueueInsert, tables, created,
         workers, admin
<1>5. ASSUME NEW c \in Client, EnqueueRefused(c)
      PROVE  IInv'
  BY <1>5, RequestEndsStep DEF EnqueueRefused, Reply, tables, created, workers, admin
<1>6. ASSUME NEW c \in Client, EnqueueCommit(c)
      PROVE  IInv'
  BY <1>6
     DEF Fresh, Issued, WorkerShape, RequestShape, RowShape, NotYetQueued, JobHeldOnce,
         HeldIsClaimed, SpentIsPast, OnePacketPerJob, EnqueueCommit, Reply, created,
         workers, admin
<1>7. ASSUME NEW c \in Client, DirectSent(c)
      PROVE  IInv'
  BY <1>7
     DEF Fresh, Issued, WorkerShape, RequestShape, RowShape, NotYetQueued, JobHeldOnce,
         HeldIsClaimed, SpentIsPast, OnePacketPerJob, DirectSent, tables, created,
         workers, admin
<1>8. ASSUME NEW c \in Client, DirectFailed(c)
      PROVE  IInv'
  BY <1>8
     DEF Fresh, Issued, WorkerShape, RequestShape, RowShape, NotYetQueued, JobHeldOnce,
         HeldIsClaimed, SpentIsPast, OnePacketPerJob, DirectFailed, Reply, tables,
         created, workers, admin
<1>9. ASSUME NEW c \in Client, DirectCommit(c)
      PROVE  IInv'
  BY <1>9, RequestEndsStep DEF DirectCommit, Reply, created, workers, admin
<1>10. ASSUME NEW c \in Client, RequestFails(c)
      PROVE  IInv'
  BY <1>10, RequestEndsStep DEF RequestFails, Reply, Fault, tables, created, workers, admin
<1>11. ASSUME ApiCrash
      PROVE  IInv'
  BY <1>11, RequestEndsStep DEF ApiCrash, Fault, tables, created, workers, admin
<1>12. ASSUME NEW m \in Machine, ToggleEnabled(m)
      PROVE  IInv'
  BY <1>12, FrameStep DEF ToggleEnabled, tables, created, workers
<1>13. ASSUME NEW m \in Machine, DeleteCheck(m)
      PROVE  IInv'
  BY <1>13, FrameStep DEF DeleteCheck, tables, created, workers
<1>14. ASSUME NEW m \in Machine, DeleteMachine(m)
      PROVE  IInv'
  BY <1>14
     DEF Fresh, Issued, WorkerShape, RequestShape, RowShape, NotYetQueued, JobHeldOnce,
         HeldIsClaimed, SpentIsPast, OnePacketPerJob, DeleteMachine, created, workers
<1>15. ASSUME Tick
      PROVE  IInv'
  BY <1>15, FrameStep DEF Tick, tables, workers, admin
<1>16. ASSUME NEW w \in Worker, ClaimNothing(w)
      PROVE  IInv'
  BY <1>16, FrameStep DEF ClaimNothing, vars
<1>17. ASSUME NEW w \in Worker, ClaimLock(w)
      PROVE  IInv'
  BY <1>17
     DEF Fresh, Issued, WorkerShape, RequestShape, RowShape, NotYetQueued, JobHeldOnce,
         HeldIsClaimed, SpentIsPast, OnePacketPerJob, ClaimLock, Goto, tables, created,
         admin, Claimable
<1>18. ASSUME NEW w \in Worker, ClaimCommit(w)
      PROVE  IInv'
  BY <1>18
     DEF Fresh, Issued, WorkerShape, RequestShape, RowShape, NotYetQueued, JobHeldOnce,
         HeldIsClaimed, SpentIsPast, OnePacketPerJob, ClaimCommit, Goto, SetJob,
         created, admin
<1>19. ASSUME NEW w \in Worker, WakeRefused(w)
      PROVE  IInv'
  BY <1>19, MoveOnStep DEF WakeRefused, tables, created, admin, Late
<1>20. ASSUME NEW w \in Worker, WakeCreate(w)
      PROVE  IInv'
  <2>0. /\ held \in [Worker -> Id \union {NoId}]
        /\ own \in [Worker -> Id \union {NoId}]
        /\ pc \in [Worker -> WorkerPc]
        /\ req \in [Client -> [pc : ReqPc, id : Id \union {NoId}]]
        /\ \A v \in Worker : held[v] \in Nat /\ own[v] \in Nat
        /\ \A d \in Client : req[d].id \in Nat
        /\ \A x \in Id : info[x].job \in Nat
    BY HeldInNat, JobOfInfo DEF TypeOK
  <2>1. NewAttempt(info[held[w]].machine, "worker", info[held[w]].ensure,
                  info[held[w]].timeout, held[w])
    BY <1>20 DEF WakeCreate
  <2>2. /\ last \in Nat
        /\ last + 1 \in Id
        /\ last' = last + 1
        /\ info'[last + 1].by = "worker"
        /\ info'[last + 1].job = held[w]
        /\ \A a \in Id : a # last + 1 => info'[a] = info[a]
        /\ \A a \in Id : a > last + 1 => a > last
        /\ \A a \in Id \union {NoId} : a =< last => a # last + 1 /\ a =< last + 1
    BY <2>1, NewAttemptFacts
  <2> HIDE DEF TypeOK
  <2>21. job[last + 1] = Absent /\ outcome[last + 1] = "none" /\ info[last + 1] = NoInfo
    BY <2>2 DEF Fresh
  <2>3. Fresh'
    BY <2>2, <2>21, <1>20, <2>0 DEF WakeCreate, Goto, workers, tables, Fresh
  <2>4. Issued'
    <3>1. (\A v \in Worker : held[v] =< last /\ own[v] =< last)'
      BY <2>2, <2>21, <1>20, <2>0 DEF WakeCreate, Goto, workers, tables, Issued
    <3>2. (\A d \in Client : req[d].id =< last)'
      BY <2>2, <2>21, <1>20, <2>0 DEF WakeCreate, Goto, workers, tables, Issued
    <3>3. (\A x \in Id : info[x].job =< last)'
      BY <2>2, <2>21, <1>20, <2>0 DEF WakeCreate, Goto, workers, tables, Issued
    <3> QED
      BY <3>1, <3>2, <3>3 DEF Issued
  <2>5. WorkerShape'
    BY <2>2, <2>21, <1>20, <2>0
       DEF WakeCreate, Goto, workers, tables, WorkerShape, Issued, Fresh
  <2>6. RequestShape'
    BY <2>2, <2>21, <1>20, <2>0
       DEF WakeCreate, Goto, workers, tables, RequestShape, Issued, Fresh
  <2>7. RowShape'
    BY <2>2, <2>21, <1>20, <2>0 DEF WakeCreate, Goto, workers, tables, RowShape, WorkerShape
  <2>8. NotYetQueued'
    BY <2>2, <2>21, <1>20, <2>0
       DEF WakeCreate, Goto, workers, tables, NotYetQueued, Issued, Fresh, WorkerShape,
           RequestShape, RowShape
  <2>9. JobHeldOnce'
    BY <2>2, <2>21, <1>20, <2>0 DEF WakeCreate, Goto, workers, tables, JobHeldOnce
  <2>10. HeldIsClaimed'
    BY <2>2, <2>21, <1>20, <2>0
       DEF WakeCreate, Goto, workers, tables, HeldIsClaimed, Issued, Fresh, WorkerShape
  <2>11. SpentIsPast'
    BY <2>2, <2>21, <1>20, <2>0
       DEF WakeCreate, Goto, workers, tables, SpentIsPast, Fresh, Issued, WorkerShape,
           RowShape
  <2>12. OnePacketPerJob'
    BY <2>2, <2>21, <1>20, <2>0
       DEF WakeCreate, Goto, workers, tables, OnePacketPerJob, Fresh, SpentIsPast,
           WorkerShape
  <2> QED
    BY <2>3, <2>4, <2>5, <2>6, <2>7, <2>8, <2>9, <2>10, <2>11, <2>12
<1>21. ASSUME NEW w \in Worker, WakeSent(w)
      PROVE  IInv'
  BY <1>21
     DEF Fresh, Issued, WorkerShape, RequestShape, RowShape, NotYetQueued, JobHeldOnce,
         HeldIsClaimed, SpentIsPast, OnePacketPerJob, WakeSent, Goto, tables, created,
         admin
<1>22. ASSUME NEW w \in Worker, WakeFailed(w)
      PROVE  IInv'
  BY <1>22
     DEF Fresh, Issued, WorkerShape, RequestShape, RowShape, NotYetQueued, JobHeldOnce,
         HeldIsClaimed, SpentIsPast, OnePacketPerJob, WakeFailed, Goto, tables,
         created, admin
<1>23. ASSUME NEW w \in Worker, PickActive(w)
      PROVE  IInv'
  BY <1>23, MoveOnStep DEF PickActive, tables, created, admin, Late
<1>24. ASSUME NEW w \in Worker, StartWaking(w)
      PROVE  IInv'
  BY <1>24, MoveOnStep DEF StartWaking, tables, created, admin, Late
<1>25. ASSUME NEW w \in Worker, PollTimeout(w)
      PROVE  IInv'
  BY <1>25, MoveOnStep DEF PollTimeout, tables, created, admin, Late
<1>26. ASSUME NEW w \in Worker, PollProbe(w)
      PROVE  IInv'
  BY <1>26, MoveOnStep DEF PollProbe, tables, created, admin, Late
<1>27. ASSUME NEW w \in Worker, ProbeOnline(w)
      PROVE  IInv'
  BY <1>27, MoveOnStep DEF ProbeOnline, tables, created, admin, Late
<1>28. ASSUME NEW w \in Worker, ProbeOffline(w)
      PROVE  IInv'
  BY <1>28, MoveOnStep DEF ProbeOffline, tables, created, admin, Late
<1>29. ASSUME NEW w \in Worker, MarkDone(w)
      PROVE  IInv'
  <2>1. /\ pc[w] \in {"processed", "poisoned"} /\ pc'[w] \in {"failing", "committing"}
        /\ \A v \in Worker : v # w => pc'[v] = pc[v]
        /\ \A i \in Id : job'[i] = job[i] \/ (job'[i] = "done" /\ job[i] # Absent)
        /\ UNCHANGED <<status, info, last, req, held, own, outcome>>
        /\ \A v \in Worker : held[v] \in Id \union {NoId}
    BY <1>29 DEF MarkDone, Goto, SetJob, created
  <2>2. Fresh' /\ Issued' /\ RequestShape' /\ JobHeldOnce' /\ OnePacketPerJob'
    BY <2>1 DEF Fresh, Issued, RequestShape, JobHeldOnce, OnePacketPerJob
  <2> HIDE DEF TypeOK
  <2>3. WorkerShape'
    BY <2>1 DEF WorkerShape
  <2>4. RowShape'
    BY <2>1 DEF RowShape
  <2>5. NotYetQueued'
    <3> SUFFICES ASSUME NEW c \in Client, req[c].pc \in Queueing PROVE job'[req[c].id] = Absent
      BY <2>1 DEF NotYetQueued
    <3>1. req[c].id \in Id
      BY DEF RequestShape, TypeOK
    <3> QED
      BY <2>1, <3>1 DEF NotYetQueued
  <2>6. HeldIsClaimed'
    <3> SUFFICES ASSUME NEW v \in Worker, Working(v)' PROVE job'[held[v]] # "queued"
      BY <2>1 DEF HeldIsClaimed
    <3>1. Working(v) /\ held[v] \in Id
      BY <2>1
    <3> QED
      BY <2>1, <3>1 DEF HeldIsClaimed
  <2>7. SpentIsPast'
    <3> SUFFICES ASSUME NEW a \in Id, info[a].by = "worker", outcome[a] # "none"
                 PROVE  /\ job'[info[a].job] # "queued"
                        /\ \A v \in Worker : held[v] = info[a].job =>
                              pc'[v] \notin {"claiming", "claimed", "creating", "sending"}
      BY <2>1 DEF SpentIsPast
    <3>1. info[a].job \in Id
      BY DEF RowShape
    <3> QED
      BY <2>1, <3>1 DEF SpentIsPast
  <2> QED
    BY <2>2, <2>3, <2>4, <2>5, <2>6, <2>7
<1>30. ASSUME NEW w \in Worker, Commit(w)
      PROVE  IInv'
  BY <1>30, LetGoStep DEF Commit, created, admin
<1>31. ASSUME NEW w \in Worker, MarkError(w)
      PROVE  IInv'
  BY <1>31, LetGoStep DEF MarkError, created, admin
<1>32. ASSUME NEW w \in Worker, Exit(w)
      PROVE  IInv'
  BY <1>32, MoveOnStep DEF Exit, tables, created, admin
<1>33. ASSUME NEW w \in Worker, Restart(w)
      PROVE  IInv'
  BY <1>33, MoveOnStep DEF Restart, tables, created, admin
<1>34. ASSUME NEW w \in Worker, ClaimFails(w)
      PROVE  IInv'
  BY <1>34, LetGoStep DEF ClaimFails, Fault, created, admin
<1>35. ASSUME NEW w \in Worker, WakePoisoned(w)
      PROVE  IInv'
  <2>1. /\ pc'[w] = "poisoned" /\ pc[w] \in {"claimed", "creating", "sending"}
        /\ \A v \in Worker : v # w => pc'[v] = pc[v]
        /\ UNCHANGED <<info, job, last, req, held, own>>
    BY <1>35 DEF WakePoisoned, Goto, tables, created
  <2>2. \A a \in Id : outcome'[a] = outcome[a] \/ (pc[w] = "sending" /\ a = own[w])
    BY <1>35 DEF WakePoisoned
  <2>3. held[w] \in Id /\ job[held[w]] # "queued"
    <3>1. held[w] # NoId /\ pc[w] # "claiming"
      BY <2>1 DEF WorkerShape
    <3>2. held[w] \in Id \union {NoId}
      OBVIOUS
    <3> QED
      BY <3>1, <3>2 DEF HeldIsClaimed
  <2>4. pc[w] = "sending" =>
            own[w] \in Id /\ info[own[w]].by = "worker" /\ info[own[w]].job = held[w]
    BY DEF WorkerShape
  <2> HIDE DEF TypeOK
  <2>5. Fresh'
    <3>1. own[w] \in Id => ~ (own[w] > last)
      <4>1. last \in Nat /\ own[w] \in Nat
        BY HeldInNat DEF TypeOK
      <4> QED
        BY <4>1 DEF Issued
    <3> QED
      BY <2>1, <2>2, <2>4, <3>1 DEF Fresh
  <2>6. Issued' /\ RequestShape' /\ RowShape' /\ NotYetQueued' /\ JobHeldOnce'
    BY <2>1 DEF Issued, RequestShape, RowShape, NotYetQueued, JobHeldOnce
  <2>7. WorkerShape' /\ HeldIsClaimed'
    BY <2>1, <2>3 DEF WorkerShape, HeldIsClaimed
  <2>8. SpentIsPast'
    BY <2>1, <2>2, <2>3, <2>4 DEF SpentIsPast, JobHeldOnce
  <2>9. OnePacketPerJob'
    BY <2>1, <2>2, <2>4 DEF OnePacketPerJob, SpentIsPast
  <2> QED
    BY <2>5, <2>6, <2>7, <2>8, <2>9
<1>36. ASSUME NEW w \in Worker, WorkFails(w)
      PROVE  IInv'
  BY <1>36, MoveOnStep DEF WorkFails, Fault, tables, created, admin, Late
<1>37. ASSUME NEW w \in Worker, CommitFails(w)
      PROVE  IInv'
  BY <1>37, MoveOnStep DEF CommitFails, Fault, created, admin, Late
<1>38. ASSUME NEW w \in Worker, MarkErrorFails(w)
      PROVE  IInv'
  BY <1>38, LetGoStep DEF MarkErrorFails, Fault, tables, created, admin
<1>39. ASSUME NEW w \in Worker, Signal(w)
      PROVE  IInv'
  BY <1>39, FrameStep DEF Signal, Fault, tables, created, admin
<1>40. ASSUME NEW w \in Worker, WorkerCrash(w)
      PROVE  IInv'
  BY <1>40, LetGoStep DEF WorkerCrash, Fault, tables, created, admin
<1>41. ASSUME NEW w \in Worker, WakeAllowed(w)
      PROVE  IInv'
  BY <1>41, MoveOnStep DEF WakeAllowed, tables, created, admin
<1>42. ASSUME NEW w \in Worker, CreateRefused(w)
      PROVE  IInv'
  BY <1>42, MoveOnStep DEF CreateRefused, tables, created, admin, Late
<1>43. ASSUME UNCHANGED vars
      PROVE  IInv'
  BY <1>43, FrameStep DEF vars
<1> QED
  BY <1>1, <1>2, <1>3, <1>4, <1>5, <1>6, <1>7, <1>8, <1>9, <1>10, <1>11, <1>12, <1>13,
     <1>14, <1>15, <1>16, <1>17, <1>18, <1>19, <1>20, <1>21, <1>22, <1>23, <1>24, <1>25,
     <1>26, <1>27, <1>28, <1>29, <1>30, <1>31, <1>32, <1>33, <1>34, <1>35, <1>36, <1>37,
     <1>38, <1>39, <1>40, <1>41, <1>42, <1>43
     DEF Next, RequestStep, WorkerStep, WorkerFault

\* The invariant holds before anything has happened.
LEMMA InvInit == Init => IInv
<1> SUFFICES ASSUME Init
             PROVE  IInv
  OBVIOUS
<1> USE BoundsAssumption, IdsAreNaturals DEF Init
<1>1. TypeOK
  BY DEF TypeOK, Nothing, Info, NoInfo, Idle, ReqPc, WorkerPc, AttemptStatus, JobStatus,
         Absent, NoId
<1>2. Fresh /\ Issued /\ WorkerShape /\ RequestShape
  BY DEF Fresh, Issued, WorkerShape, RequestShape, Nothing, NoInfo, Idle, NoId, Queueing
<1>3. RowShape /\ NotYetQueued /\ JobHeldOnce /\ HeldIsClaimed /\ SpentIsPast /\ OnePacketPerJob
  BY DEF RowShape, NotYetQueued, JobHeldOnce, HeldIsClaimed, SpentIsPast, OnePacketPerJob,
         Nothing, NoInfo, Idle, NoId, Queueing, Working
<1> QED
  BY <1>1, <1>2, <1>3 DEF IInv

\* The inductive invariant holds in every reachable state.
THEOREM Invariance == Spec => []IInv
<1>1. Init => IInv
  BY InvInit
<1>2. IInv /\ [Next]_vars => IInv'
  BY InvStep
<1> QED
  BY <1>1, <1>2, PTL DEF Spec

\* Every variable keeps its type: each column and each local variable of the worker
\* holds a value the code can put there.
THEOREM TypeCorrect == Spec => []TypeOK
<1>1. IInv => TypeOK
  BY DEF IInv
<1> QED
  BY <1>1, Invariance, PTL

\* However many workers run, SKIP LOCKED and the commit of the claim leave a job in
\* the hands of one of them at most (job_queue.py:23-42).
THEOREM JobsAreHeldOnce == Spec => []JobHeldOnce
<1>1. IInv => JobHeldOnce
  BY DEF IInv
<1> QED
  BY <1>1, Invariance, PTL

\* However many workers crash, restart, are stopped or lose their connection, a job
\* has its packet sent once at most: what left the queue never returns to it
\* (job_queue.py:28, main.py:97-110).
THEOREM PacketsAreSentOnce == Spec => []OnePacketPerJob
<1>1. IInv => OnePacketPerJob
  BY DEF IInv
<1> QED
  BY <1>1, Invariance, PTL
=============================================================================
