--------------------------- MODULE StateProbeProofs ---------------------------
(***************************************************************************)
(* What StateProbe promises for any timeouts, intervals and delays.        *)
(*                                                                         *)
(* For the verdict, IInv says how much of the cycle is used up at each     *)
(* point of it.  For the pings left behind, Spacing says how many of them  *)
(* may be younger than so many cycles, with how long it has been since     *)
(* one was last given up.                                                  *)
(***************************************************************************)
EXTENDS StateProbe, FiniteSetTheorems, TLAPS

\* Where the caller is, and what it has been through to get there.
Stage ==
    /\ pc \in {"asking", "pausing", "online", "offline"} => probed
    /\ pc \in {"pausing", "timeout"} => caller = "poller"
    /\ pc = "offline" => caller = "status"
    /\ pc = "asking" => ping # "none" /\ tcp # "none" /\ age <= Round
    /\ pc = "pausing" => age <= PollInterval

\* How much of the last cycle is used up: a round, both, or the pause as well.
Budget ==
    caller = "poller" =>
        /\ probed \/ elapsed <= MaxLate
        /\ pc = "asking" => elapsed < PollTimeout + age + (IF target = "name" THEN 0 ELSE Round)
        /\ pc = "pausing" => elapsed < PollTimeout + age + 2 * Round
        /\ pc \in {"check", "online", "timeout"} /\ probed => elapsed < PollTimeout + Cycle

\* Since a failed ping to the address the machine has answered no longer than that is ago.
Failure ==
    /\ pc = "asking" /\ target = "address" /\ ping = "no" => steady <= age
    /\ pc = "pausing" => steady <= Round + age
    /\ pc \in {"check", "timeout"} /\ probed => steady <= Round + PollInterval

IInv == TypeOK /\ Stage /\ Budget /\ Failure

\* A round is as long as the longer of its two waits (state_probe.py:40-44).
LEMMA RoundLength ==
    /\ PingWait \in Nat /\ Round \in Nat /\ Cycle = 2 * Round + PollInterval
    /\ PingWait <= Round /\ TcpTimeout <= Round
BY ProbeAssumption DEF PingWait, Round, Cycle

\* The caller begins at the head of the loop and has not probed.
LEMMA InitInv == Init => IInv
<1> SUFFICES ASSUME Init PROVE IInv
    OBVIOUS
<1>1. pc = "check" /\ probed = FALSE /\ elapsed <= MaxLate /\ elapsed \in Nat
    BY ProbeAssumption DEF Init
<1>2. TypeOK
    <2>1. elapsed \in Nat /\ age \in 0..(Round + PollInterval) /\ steady \in 0..MaxSteady
        BY ProbeAssumption, RoundLength DEF Init
    <2>2. /\ caller \in {"poller", "status"} /\ named \in BOOLEAN /\ probed \in BOOLEAN
          /\ pc \in {"check", "asking", "pausing"} \union Verdict
          /\ target \in {"name", "address"} /\ (target = "name" => named)
          /\ ping \in Answer /\ tcp \in Answer /\ left \subseteq PingWait..PingLife
        BY Zenon DEF Init, Answer
    <2> QED
        BY <2>1, <2>2, Zenon DEF TypeOK
<1>3. Stage /\ Budget /\ Failure
    BY <1>1 DEF Stage, Budget, Failure
<1> QED
    BY <1>2, <1>3 DEF IInv

\* Every step keeps the invariant.
LEMMA StepInv == IInv /\ [Next]_vars => IInv'
<1> SUFFICES ASSUME IInv, [Next]_vars PROVE IInv'
    OBVIOUS
<1> USE ProbeAssumption, RoundLength DEF IInv, TypeOK, Verdict, Answer, setting, round
<1>1. CASE GiveUp
    BY <1>1 DEF GiveUp, TooOld, Stage, Budget, Failure
<1>2. CASE Probe
    BY <1>2 DEF Probe, TooOld, Ask, Stage, Budget, Failure
<1>3. CASE PingEnds
    BY <1>3 DEF PingEnds, MayFail, Stage, Budget, Failure
<1>4. CASE PingGivenUp
    BY <1>4 DEF PingGivenUp, MayFail, Stage, Budget, Failure
<1>5. CASE TcpEnds
    <2>1. tcp' \in {"yes", "no"}
        BY <1>5 DEF TcpEnds
    <2> QED
        BY <1>5, <2>1 DEF TcpEnds, Stage, Budget, Failure
<1>6. CASE AskAddress
    BY <1>6 DEF AskAddress, Gathered, BothFailed, Ask, Stage, Budget, Failure
<1>7. CASE Online
    BY <1>7 DEF Online, Gathered, BothFailed, Stage, Budget, Failure
<1>8. CASE Offline
    BY <1>8 DEF Offline, Gathered, BothFailed, Stage, Budget, Failure
<1>9. CASE WakesUp
    BY <1>9 DEF WakesUp, Stage, Budget, Failure
<1>10. CASE LeftPingEnds
    BY <1>10 DEF LeftPingEnds, Stage, Budget, Failure
<1>11. CASE Tick
    <2>1. /\ elapsed' = elapsed + 1 /\ age' = age + 1
          /\ UNCHANGED <<caller, named, pc, target, ping, tcp, probed>>
        BY <1>11 DEF Tick
    <2>2. /\ pc \in {"asking", "pausing"}
          /\ age < IF pc = "asking" THEN Round ELSE PollInterval
        BY <1>11 DEF Tick, Waiting, Gathered, Stage
    <2>3. steady' \in 0..MaxSteady /\ steady' <= steady + 1
        BY <1>11 DEF Tick
    <2>4. left' \subseteq PingWait..PingLife
        BY <1>11 DEF Tick
    <2>5. TypeOK'
        BY <2>1, <2>2, <2>3, <2>4
    <2>6. Stage' /\ Budget' /\ Failure'
        BY <2>1, <2>2, <2>3 DEF Stage, Budget, Failure
    <2> QED
        BY <2>5, <2>6
<1>12. CASE Done \/ UNCHANGED vars
    <2>1. UNCHANGED vars
        BY <1>12 DEF Done
    <2> QED
        BY <2>1 DEF vars, Stage, Budget, Failure
<1> QED
    BY <1>1, <1>2, <1>3, <1>4, <1>5, <1>6, <1>7, <1>8, <1>9, <1>10, <1>11, <1>12 DEF Next

\* The invariant holds all the time.
THEOREM ProbeInvariance == Spec => []IInv
BY InitInv, StepInv, PTL DEF Spec

\* Every variable of the poll keeps its type; the pause and the round their length.
THEOREM ProbeTypes == Spec => []TypeOK
BY ProbeInvariance, PTL DEF IInv

\* No poll outlasts its timeout by a whole cycle (ensure_online.py:72-103).
THEOREM VerdictsAreInTime == Spec => []VerdictInTime
<1>1. IInv => VerdictInTime
    BY ProbeAssumption, RoundLength
       DEF IInv, TypeOK, Stage, Budget, VerdictInTime, Verdict
<1> QED
    BY <1>1, ProbeInvariance, PTL

\* No machine that has kept answering is given up (state_probe.py:46, ensure_online.py:74).
THEOREM SteadyMachinesAreFound == Spec => []SteadyIsFound
<1>1. IInv => SteadyIsFound
    BY DEF IInv, Failure, SteadyIsFound
<1> QED
    BY <1>1, ProbeInvariance, PTL

-----------------------------------------------------------------------------
\* The pings left behind.

\* At most k of the ages in L are below x.
Few(L, x, k) == Cardinality({a \in L : a < x}) <= k

\* Ages come no closer than two in a cycle: how many are below x and a number of cycles, and
\* below y, by when one more may have come.
Spaced(L, x, y) ==
    \A n \in Nat : Few(L, x + n * ShortCycle, 2 * n) /\ Few(L, y + n * ShortCycle, 2 * n + 1)

\* Where the caller is in its cycle says how old the pings are at least that it gave up before.
Spacing ==
    /\ pc = "check" => Spaced(left, PingWait + PollInterval, ShortCycle)
    /\ pc = "asking" /\ ping = "asked" =>
           IF target = "name" THEN Spaced(left, PingWait + PollInterval + age, ShortCycle + age)
                              ELSE Spaced(left, PingWait + age, ShortCycle + age)
    /\ pc = "asking" /\ ping # "asked" =>
           Spaced(left, PingWait, IF target = "name" THEN ShortCycle ELSE 2 * PingWait)
    /\ pc = "pausing" => Spaced(left, PingWait + age, 2 * PingWait + age)
    /\ pc \in Verdict => Spaced(left, PingWait, 2 * PingWait)

\* A cycle has two waits and a pause, and cycles add up.
LEMMA CycleLength ==
    /\ PingWait \in Nat /\ ShortCycle \in Nat \ {0} /\ ShortCycle = 2 * PingWait + PollInterval
    /\ \A n \in Nat : n * ShortCycle \in Nat /\ (n + 1) * ShortCycle = n * ShortCycle + ShortCycle
    /\ 0 * ShortCycle = 0
<1>1. PingWait \in Nat /\ ShortCycle \in Nat \ {0} /\ ShortCycle = 2 * PingWait + PollInterval
    BY ProbeAssumption DEF PingWait, ShortCycle
<1> QED
    BY <1>1

\* Fewer ages, or a lower bound.
LEMMA FewLess ==
    ASSUME NEW L \in SUBSET Int, IsFiniteSet(L), NEW M \in SUBSET L, NEW x \in Int, NEW y \in Int,
           y <= x, NEW k \in Int, NEW m \in Int, k <= m, Few(L, x, k)
    PROVE  Few(M, y, m)
<1> DEFINE A == {a \in L : a < x}
           B == {a \in M : a < y}
<1>1. IsFiniteSet(A)
    BY FS_Subset
<1>2. B \subseteq A
    <2> SUFFICES ASSUME NEW a \in B
                 PROVE  a \in A
        OBVIOUS
    <2>1. a \in M /\ a < y
        OBVIOUS
    <2>2. a \in L /\ a \in Int
        BY <2>1
    <2>3. a < x
        BY <2>1, <2>2
    <2> QED
        BY <2>2, <2>3
<1>3. Cardinality(B) <= Cardinality(A) /\ Cardinality(A) \in Nat /\ Cardinality(B) \in Nat
    BY <1>1, <1>2, FS_Subset, FS_CardinalityType
<1>4. Cardinality(A) <= k
    BY DEF Few
<1> HIDE DEF A
<1> QED
    BY <1>3, <1>4 DEF Few

\* One more age.
LEMMA FewMore ==
    ASSUME NEW L \in SUBSET Int, IsFiniteSet(L), NEW x \in Int, NEW k \in Int, Few(L, x, k),
           NEW e \in Int
    PROVE  /\ Few(L \union {e}, x, k + 1)
           /\ x <= e => Few(L \union {e}, x, k)
<1> DEFINE A == {a \in L : a < x}
           B == {a \in L \union {e} : a < x}
<1>1. IsFiniteSet(A) /\ Cardinality(A) \in Nat /\ Cardinality(A) <= k
    BY FS_Subset, FS_CardinalityType DEF Few
<1>2. B = A \/ B = A \union {e}
    OBVIOUS
<1>3. x <= e => B = A
    OBVIOUS
<1>4. Cardinality(A \union {e}) <= Cardinality(A) + 1 /\ Cardinality(A \union {e}) \in Nat
    <2> HIDE DEF A
    <2>1. Cardinality(A \union {e}) = IF e \in A THEN Cardinality(A) ELSE Cardinality(A) + 1
        BY <1>1, FS_AddElement
    <2> QED
        BY <1>1, <2>1
<1> HIDE DEF A
<1>5. Cardinality(B) <= k + 1
    BY <1>1, <1>2, <1>4
<1>6. x <= e => Cardinality(B) <= k
    BY <1>1, <1>3
<1> QED
    BY <1>5, <1>6 DEF Few

\* All ages are a second older.
LEMMA FewOlder ==
    ASSUME NEW L \in SUBSET Int, IsFiniteSet(L), NEW x \in Int, NEW k \in Int, Few(L, x, k)
    PROVE  Few({a + 1 : a \in L}, x + 1, k)
<1> DEFINE A == {a \in L : a < x}
           B == {b \in {a + 1 : a \in L} : b < x + 1}
           f == [a \in A |-> a + 1]
<1>1. IsFiniteSet(A) /\ Cardinality(A) \in Nat /\ Cardinality(A) <= k
    BY FS_Subset, FS_CardinalityType DEF Few
<1>2. f \in Surjection(A, B)
    <2>1. ASSUME NEW a \in A PROVE a + 1 \in B
        <3>1. a \in L /\ a \in Int /\ a < x
            BY <2>1
        <3>2. a + 1 < x + 1
            BY <3>1
        <3> QED
            BY <3>1, <3>2
    <2>2. ASSUME NEW b \in B PROVE \E a \in A : b = a + 1
        <3>1. PICK a \in L : b = a + 1
            BY <2>2
        <3>2. b < x + 1 /\ a \in Int
            BY <2>2
        <3>3. a < x
            BY <3>1, <3>2
        <3> QED
            BY <3>1, <3>3
    <2> HIDE DEF A, B
    <2>3. f \in [A -> B]
        BY <2>1
    <2>4. ASSUME NEW b \in B PROVE \E a \in A : f[a] = b
        BY <2>2
    <2> QED
        BY <2>3, <2>4 DEF Surjection
<1>3. Cardinality(B) <= Cardinality(A) /\ Cardinality(B) \in Nat
    BY <1>1, <1>2, FS_Surjection, FS_CardinalityType
<1> HIDE DEF A, B
<1>4. Cardinality(B) <= k
    BY <1>1, <1>3
<1> QED
    BY <1>4 DEF Few, B

\* The same of all the bounds at once.
LEMMA SpacedLess ==
    ASSUME NEW L \in SUBSET Int, IsFiniteSet(L), NEW M \in SUBSET L,
           NEW x \in Nat, NEW y \in Nat, NEW v \in Nat, NEW w \in Nat, v <= x, w <= y, Spaced(L, x, y)
    PROVE  Spaced(M, v, w)
<1> SUFFICES ASSUME NEW n \in Nat
             PROVE  Few(M, v + n * ShortCycle, 2 * n) /\ Few(M, w + n * ShortCycle, 2 * n + 1)
    BY DEF Spaced
<1> DEFINE c == n * ShortCycle
<1>1. c \in Nat
    BY CycleLength
<1>2. Few(L, x + c, 2 * n) /\ Few(L, y + c, 2 * n + 1)
    BY DEF Spaced
<1> HIDE DEF c
<1>3. /\ v + c \in Int /\ x + c \in Int /\ v + c <= x + c /\ w + c \in Int /\ y + c \in Int /\ w + c <= y + c
      /\ 2 * n \in Int /\ 2 * n <= 2 * n /\ 2 * n + 1 \in Int /\ 2 * n + 1 <= 2 * n + 1
    BY <1>1
<1>4. Few(M, v + c, 2 * n)
    BY <1>2, <1>3, FewLess
<1>5. Few(M, w + c, 2 * n + 1)
    BY <1>2, <1>3, FewLess
<1> QED
    BY <1>4, <1>5 DEF c

\* In a second every bound is a second longer.
LEMMA SpacedOlder ==
    ASSUME NEW L \in SUBSET Int, IsFiniteSet(L), NEW x \in Nat, NEW y \in Nat, Spaced(L, x, y)
    PROVE  Spaced({a + 1 : a \in L}, x + 1, y + 1)
<1> SUFFICES ASSUME NEW n \in Nat
             PROVE  /\ Few({a + 1 : a \in L}, (x + 1) + n * ShortCycle, 2 * n)
                    /\ Few({a + 1 : a \in L}, (y + 1) + n * ShortCycle, 2 * n + 1)
    BY DEF Spaced
<1> DEFINE c == n * ShortCycle
<1>1. c \in Nat
    BY CycleLength
<1>2. Few(L, x + c, 2 * n) /\ Few(L, y + c, 2 * n + 1)
    BY DEF Spaced
<1> HIDE DEF c
<1>3. /\ x + c \in Int /\ y + c \in Int /\ 2 * n \in Int /\ 2 * n + 1 \in Int
      /\ (x + c) + 1 = (x + 1) + c /\ (y + c) + 1 = (y + 1) + c
    BY <1>1
<1>4. Few({a + 1 : a \in L}, (x + c) + 1, 2 * n) /\ Few({a + 1 : a \in L}, (y + c) + 1, 2 * n + 1)
    BY <1>2, <1>3, FewOlder
<1> QED
    BY <1>3, <1>4 DEF c

\* A ping is given up when the one before it is as old as it has to be.
LEMMA SpacedMore ==
    ASSUME NEW L \in SUBSET Int, IsFiniteSet(L), NEW z \in Nat, PingWait <= z,
           Spaced(L, z, ShortCycle + PingWait)
    PROVE  Spaced(L \union {PingWait}, PingWait, z)
<1> SUFFICES ASSUME NEW n \in Nat
             PROVE  /\ Few(L \union {PingWait}, PingWait + n * ShortCycle, 2 * n)
                    /\ Few(L \union {PingWait}, z + n * ShortCycle, 2 * n + 1)
    BY DEF Spaced
<1>1. Few(L \union {PingWait}, z + n * ShortCycle, 2 * n + 1)
    <2> DEFINE c == n * ShortCycle
    <2>1. c \in Nat /\ Few(L, z + c, 2 * n)
        BY CycleLength DEF Spaced
    <2> HIDE DEF c
    <2>2. z + c \in Int /\ 2 * n \in Int /\ PingWait \in Int
        BY <2>1, CycleLength
    <2> QED
        BY <2>1, <2>2, FewMore DEF c
<1>2. CASE n = 0
    <2>1. Few(L, z + 0 * ShortCycle, 2 * 0)
        BY DEF Spaced
    <2>2. z + 0 * ShortCycle = z /\ 2 * 0 = 0 /\ PingWait + n * ShortCycle = PingWait /\ 2 * n = 0
        <3>1. n * ShortCycle = 0
            BY <1>2, CycleLength
        <3>2. 0 * ShortCycle = 0
            BY CycleLength
        <3>3. z + 0 = z /\ 2 * 0 = 0 /\ PingWait + 0 = PingWait /\ 2 * n = 0
            BY <1>2, CycleLength
        <3> QED
            BY <3>1, <3>2, <3>3, Zenon
    <2>3. Few(L, PingWait, 0)
        BY <2>1, <2>2, FewLess, CycleLength
    <2>4. Few(L \union {PingWait}, PingWait, 0)
        BY <2>3, FewMore, CycleLength
    <2> QED
        BY <1>1, <2>2, <2>4
<1>3. CASE n # 0
    <2> DEFINE m == n - 1
               c == m * ShortCycle
    <2>1. m \in Nat /\ c \in Nat /\ n = m + 1 /\ n * ShortCycle = c + ShortCycle
        <3>1. m \in Nat /\ n = m + 1
            BY <1>3
        <3> HIDE DEF m
        <3> QED
            BY <3>1, CycleLength
    <2>2. Few(L, (ShortCycle + PingWait) + c, 2 * m + 1)
        BY <2>1 DEF Spaced
    <2> HIDE DEF m, c
    <2>3. /\ (ShortCycle + PingWait) + c = PingWait + n * ShortCycle /\ (2 * m + 1) + 1 = 2 * n
          /\ (ShortCycle + PingWait) + c \in Int /\ 2 * m + 1 \in Int /\ PingWait \in Int
          /\ PingWait + n * ShortCycle \in Int
        <3> DEFINE d == n * ShortCycle
        <3>1. d = c + ShortCycle /\ ShortCycle \in Nat /\ PingWait \in Nat
            BY <2>1, CycleLength
        <3> HIDE DEF d
        <3>2. /\ (ShortCycle + PingWait) + c = PingWait + d /\ (2 * m + 1) + 1 = 2 * n
              /\ (ShortCycle + PingWait) + c \in Int /\ 2 * m + 1 \in Int /\ PingWait \in Int
              /\ PingWait + d \in Int
            BY <2>1, <3>1
        <3> QED
            BY <3>2 DEF d
    <2>4. Few(L \union {PingWait}, (ShortCycle + PingWait) + c, (2 * m + 1) + 1)
        BY <2>2, <2>3, FewMore
    <2> QED
        BY <1>1, <2>3, <2>4
<1> QED
    BY <1>2, <1>3

\* No ages, no matter how they are counted.
LEMMA SpacedNone == \A x, y \in Nat : Spaced({}, x, y)
<1> SUFFICES ASSUME NEW x \in Nat, NEW y \in Nat, NEW n \in Nat
             PROVE  Few({}, x + n * ShortCycle, 2 * n) /\ Few({}, y + n * ShortCycle, 2 * n + 1)
    BY DEF Spaced
<1>1. ASSUME NEW v, NEW k \in Nat PROVE Few({}, v, k)
    <2>1. {a \in {} : a < v} = {}
        OBVIOUS
    <2>2. Cardinality({}) = 0
        BY FS_EmptySet
    <2> QED
        BY <2>1, <2>2, <1>1 DEF Few
<1>2. 2 * n \in Nat /\ 2 * n + 1 \in Nat
    OBVIOUS
<1> QED
    BY <1>1, <1>2

\* The ages are finitely many.
LEMMA LeftIsFinite ==
    ASSUME TypeOK
    PROVE  left \in SUBSET Int /\ IsFiniteSet(left)
<1>1. PingWait \in Int /\ PingLife \in Int
    BY ProbeAssumption, CycleLength
<1>2. IsFiniteSet(PingWait..PingLife)
    BY <1>1, FS_Interval
<1>3. left \subseteq PingWait..PingLife
    BY DEF TypeOK
<1>4. IsFiniteSet(left)
    BY <1>2, <1>3, FS_Subset
<1> QED
    BY <1>3, <1>4

\* The caller begins with no ping behind it.
LEMMA SpacingInit == Init => Spacing
<1> SUFFICES ASSUME Init PROVE Spacing
    OBVIOUS
<1>1. pc = "check" /\ left = {}
    BY DEF Init
<1>2. PingWait + PollInterval \in Nat /\ ShortCycle \in Nat
    BY ProbeAssumption, CycleLength
<1>3. Spaced({}, PingWait + PollInterval, ShortCycle)
    BY <1>2, SpacedNone
<1> QED
    BY <1>1, <1>3, Zenon DEF Spacing, Verdict

\* No step brings a ping closer to the one before it.
LEMMA SpacingStep == IInv /\ Spacing /\ [Next]_vars => Spacing'
<1> SUFFICES ASSUME IInv, Spacing, [Next]_vars PROVE Spacing'
    OBVIOUS
<1>1. left \in SUBSET Int /\ IsFiniteSet(left) /\ left \in SUBSET left
    BY LeftIsFinite DEF IInv
<1>2. /\ PingWait \in Nat /\ PollInterval \in Nat /\ ShortCycle \in Nat /\ age \in Nat
      /\ PingWait + PollInterval \in Nat /\ 2 * PingWait \in Nat
      /\ ShortCycle = 2 * PingWait + PollInterval
    BY ProbeAssumption, CycleLength, RoundLength DEF IInv, TypeOK
<1>3. pc \in {"check", "asking", "pausing"} \union Verdict
    BY DEF IInv, TypeOK
<1>4. ASSUME NEW x \in Nat, NEW y \in Nat, Spaced(left, x, y),
             NEW v \in Nat, NEW w \in Nat, v <= x, w <= y
      PROVE  Spaced(left, v, w)
    BY <1>1, <1>4, SpacedLess
<1>5. CASE GiveUp
    <2>1. pc = "check" /\ pc' = "timeout" /\ left' = left
        BY <1>5 DEF GiveUp
    <2>2. Spaced(left, PingWait + PollInterval, ShortCycle)
        BY <2>1 DEF Spacing
    <2>3. PingWait <= PingWait + PollInterval /\ 2 * PingWait <= ShortCycle
        BY <1>2
    <2>4. Spaced(left, PingWait, 2 * PingWait)
        BY <1>2, <1>4, <2>2, <2>3
    <2> QED
        BY <2>1, <2>4 DEF Spacing
<1>6. CASE Probe
    <2>1. pc = "check" /\ pc' = "asking" /\ left' = left /\ ping' = "asked" /\ age' = 0
        BY <1>6 DEF Probe, Ask
    <2>2. Spaced(left, PingWait + PollInterval, ShortCycle)
        BY <2>1 DEF Spacing
    <2>3. /\ PingWait + PollInterval + 0 = PingWait + PollInterval /\ ShortCycle + 0 = ShortCycle
          /\ PingWait + 0 = PingWait /\ PingWait <= PingWait + PollInterval /\ ShortCycle <= ShortCycle
        BY <1>2
    <2>4. Spaced(left, PingWait, ShortCycle)
        BY <1>2, <1>4, <2>2, <2>3
    <2> QED
        BY <2>1, <2>2, <2>3, <2>4 DEF Spacing, Verdict
<1>7. CASE PingEnds
    <2>1. /\ pc = "asking" /\ ping = "asked" /\ ping' # "asked"
          /\ UNCHANGED <<pc, target, left, age>>
        BY <1>7 DEF PingEnds
    <2>2. CASE target = "name"
        <3>1. Spaced(left, PingWait + PollInterval + age, ShortCycle + age)
            BY <2>1, <2>2 DEF Spacing
        <3>2. /\ PingWait + PollInterval + age \in Nat /\ ShortCycle + age \in Nat
              /\ PingWait <= PingWait + PollInterval + age /\ ShortCycle <= ShortCycle + age
            BY <1>2
        <3>3. Spaced(left, PingWait, ShortCycle)
            BY <1>2, <1>4, <3>1, <3>2
        <3> QED
            BY <2>1, <2>2, <3>3 DEF Spacing, Verdict
    <2>3. CASE target # "name"
        <3>1. Spaced(left, PingWait + age, ShortCycle + age)
            BY <2>1, <2>3 DEF Spacing
        <3>2. /\ PingWait + age \in Nat /\ ShortCycle + age \in Nat
              /\ PingWait <= PingWait + age /\ 2 * PingWait <= ShortCycle + age
            BY <1>2
        <3>3. Spaced(left, PingWait, 2 * PingWait)
            BY <1>2, <1>4, <3>1, <3>2
        <3> QED
            BY <2>1, <2>3, <3>3 DEF Spacing, Verdict
    <2> QED
        BY <2>2, <2>3
<1>8. CASE PingGivenUp
    <2>1. /\ pc = "asking" /\ ping = "asked" /\ ping' # "asked" /\ age = PingWait
          /\ left' = left \union {PingWait} /\ UNCHANGED <<pc, target>>
        BY <1>8 DEF PingGivenUp
    <2>2. CASE target = "name"
        <3>1. Spaced(left, PingWait + PollInterval + age, ShortCycle + age)
            BY <2>1, <2>2 DEF Spacing
        <3>2. /\ PingWait + PollInterval + age = ShortCycle /\ ShortCycle + age = ShortCycle + PingWait
              /\ PingWait <= ShortCycle
            BY <1>2, <2>1
        <3>3. Spaced(left \union {PingWait}, PingWait, ShortCycle)
            BY <1>1, <1>2, <3>1, <3>2, SpacedMore
        <3> QED
            BY <2>1, <2>2, <3>3 DEF Spacing, Verdict
    <2>3. CASE target # "name"
        <3>1. Spaced(left, PingWait + age, ShortCycle + age)
            BY <2>1, <2>3 DEF Spacing
        <3>2. /\ PingWait + age = 2 * PingWait /\ ShortCycle + age = ShortCycle + PingWait
              /\ PingWait <= 2 * PingWait
            BY <1>2, <2>1
        <3>3. Spaced(left \union {PingWait}, PingWait, 2 * PingWait)
            BY <1>1, <1>2, <3>1, <3>2, SpacedMore
        <3> QED
            BY <2>1, <2>3, <3>3 DEF Spacing, Verdict
    <2> QED
        BY <2>2, <2>3
<1>9. CASE TcpEnds
    BY <1>9 DEF TcpEnds, Spacing
<1>10. CASE AskAddress
    <2>1. /\ pc = "asking" /\ ping # "asked" /\ target = "name"
          /\ pc' = "asking" /\ ping' = "asked" /\ target' = "address" /\ age' = 0 /\ left' = left
        BY <1>10 DEF AskAddress, Gathered, Ask
    <2>2. Spaced(left, PingWait, ShortCycle)
        BY <2>1 DEF Spacing
    <2>3. PingWait + 0 = PingWait /\ ShortCycle + 0 = ShortCycle
        BY <1>2
    <2> QED
        BY <2>1, <2>2, <2>3 DEF Spacing, Verdict
<1>11. CASE Online
    <2>1. pc = "asking" /\ ping # "asked" /\ pc' = "online" /\ left' = left
        BY <1>11 DEF Online, Gathered
    <2>2. Spaced(left, PingWait, ShortCycle) \/ Spaced(left, PingWait, 2 * PingWait)
        BY <2>1 DEF Spacing
    <2>3. PingWait <= PingWait /\ 2 * PingWait <= ShortCycle
        BY <1>2
    <2>4. Spaced(left, PingWait, 2 * PingWait)
        BY <1>2, <1>4, <2>2, <2>3
    <2> QED
        BY <2>1, <2>4 DEF Spacing, Verdict
<1>12. CASE Offline
    <2>1. /\ pc = "asking" /\ ping # "asked" /\ target # "name" /\ age' = 0 /\ left' = left
          /\ pc' \in {"pausing", "offline"}
        BY <1>12 DEF Offline, Gathered
    <2>2. Spaced(left, PingWait, 2 * PingWait)
        BY <2>1 DEF Spacing
    <2>3. PingWait + 0 = PingWait /\ 2 * PingWait + 0 = 2 * PingWait
        BY <1>2
    <2> QED
        BY <2>1, <2>2, <2>3 DEF Spacing, Verdict
<1>13. CASE WakesUp
    <2>1. pc = "pausing" /\ age = PollInterval /\ pc' = "check" /\ left' = left
        BY <1>13 DEF WakesUp
    <2>2. Spaced(left, PingWait + age, 2 * PingWait + age)
        BY <2>1 DEF Spacing
    <2>3. Spaced(left, PingWait + PollInterval, ShortCycle)
        BY <1>2, <2>1, <2>2
    <2> QED
        BY <2>1, <2>3 DEF Spacing, Verdict
<1>14. CASE LeftPingEnds
    <2>1. left' \in SUBSET left /\ UNCHANGED <<pc, target, ping, age>>
        BY <1>14 DEF LeftPingEnds, round
    <2>2. ASSUME NEW x \in Nat, NEW y \in Nat, Spaced(left, x, y)
          PROVE  Spaced(left', x, y)
        <3>1. x <= x /\ y <= y
            OBVIOUS
        <3> QED
            BY <1>1, <2>1, <2>2, <3>1, SpacedLess
    <2>3. /\ PingWait + PollInterval + age \in Nat /\ ShortCycle + age \in Nat /\ PingWait + age \in Nat
          /\ 2 * PingWait + age \in Nat
        BY <1>2
    <2> QED
        BY <1>2, <2>1, <2>2, <2>3 DEF Spacing
<1>15. CASE Tick
    <2>1. /\ age' = age + 1 /\ left' = {a + 1 : a \in left} /\ UNCHANGED <<pc, target, ping>>
          /\ pc \in {"asking", "pausing"}
        BY <1>15 DEF Tick, Waiting
    <2>2. ASSUME NEW x \in Nat, NEW y \in Nat, Spaced(left, x, y)
          PROVE  Spaced(left', x + 1, y + 1)
        BY <1>1, <2>1, <2>2, SpacedOlder
    <2>3. CASE pc = "pausing"
        <3>1. Spaced(left', (PingWait + age) + 1, (2 * PingWait + age) + 1)
            BY <1>2, <2>2, <2>3 DEF Spacing
        <3>2. (PingWait + age) + 1 = PingWait + age' /\ (2 * PingWait + age) + 1 = 2 * PingWait + age'
            BY <1>2, <2>1
        <3> QED
            BY <2>1, <2>3, <3>1, <3>2 DEF Spacing, Verdict
    <2>4. CASE pc = "asking" /\ ping = "asked" /\ target = "name"
        <3>1. Spaced(left', (PingWait + PollInterval + age) + 1, (ShortCycle + age) + 1)
            BY <1>2, <2>2, <2>4 DEF Spacing
        <3>2. /\ (PingWait + PollInterval + age) + 1 = PingWait + PollInterval + age'
              /\ (ShortCycle + age) + 1 = ShortCycle + age'
            BY <1>2, <2>1
        <3> QED
            BY <2>1, <2>4, <3>1, <3>2 DEF Spacing, Verdict
    <2>5. CASE pc = "asking" /\ ping = "asked" /\ target # "name"
        <3>1. Spaced(left', (PingWait + age) + 1, (ShortCycle + age) + 1)
            BY <1>2, <2>2, <2>5 DEF Spacing
        <3>2. (PingWait + age) + 1 = PingWait + age' /\ (ShortCycle + age) + 1 = ShortCycle + age'
            BY <1>2, <2>1
        <3> QED
            BY <2>1, <2>5, <3>1, <3>2 DEF Spacing, Verdict
    <2>6. CASE pc = "asking" /\ ping # "asked"
        <3> DEFINE y == IF target = "name" THEN ShortCycle ELSE 2 * PingWait
        <3>1. y \in Nat /\ Spaced(left, PingWait, y)
            BY <1>2, <2>6 DEF Spacing
        <3> HIDE DEF y
        <3>2. Spaced(left', PingWait + 1, y + 1)
            BY <1>2, <2>2, <3>1
        <3>3. left' \in SUBSET Int /\ IsFiniteSet(left')
            <4>1. left' \subseteq Int
                BY <1>1, <2>1
            <4>2. TypeOK'
                BY StepInv DEF IInv
            <4>3. left' \subseteq PingWait..PingLife
                BY <4>2 DEF TypeOK, PingWait
            <4>4. IsFiniteSet(PingWait..PingLife)
                BY <1>2, ProbeAssumption, FS_Interval
            <4> QED
                BY <4>1, <4>3, <4>4, FS_Subset
        <3>4. /\ left' \in SUBSET left' /\ PingWait <= PingWait + 1 /\ y <= y + 1
              /\ PingWait + 1 \in Nat /\ y + 1 \in Nat
            BY <1>2, <3>1
        <3>5. Spaced(left', PingWait, y)
            BY <1>2, <3>1, <3>2, <3>3, <3>4, SpacedLess
        <3> QED
            BY <2>1, <2>6, <3>5 DEF Spacing, Verdict, y
    <2> QED
        BY <2>1, <2>3, <2>4, <2>5, <2>6
<1>16. CASE Done \/ UNCHANGED vars
    <2>1. UNCHANGED <<pc, target, ping, age, left>>
        BY <1>16 DEF Done, vars
    <2> QED
        BY <2>1 DEF Spacing
<1> QED
    BY <1>5, <1>6, <1>7, <1>8, <1>9, <1>10, <1>11, <1>12, <1>13, <1>14, <1>15, <1>16 DEF Next

\* How many cycles fit into what is left of a life, and that no more do.
LEMMA LifeInCycles ==
    ASSUME NEW n, n = (PingLife - PingWait) \div ShortCycle
    PROVE  n + 1 \in Nat /\ PingLife < PingWait + (n + 1) * ShortCycle
<1>1. \A d \in Nat, s \in Nat \ {0} : d \div s \in Nat /\ d < (d \div s + 1) * s
    OBVIOUS
<1> DEFINE d == PingLife - PingWait
           c == (d \div ShortCycle + 1) * ShortCycle
<1>2. /\ d \in Nat /\ ShortCycle \in Nat \ {0} /\ PingWait \in Nat /\ PingLife \in Nat
      /\ PingLife = PingWait + d
    BY ProbeAssumption, CycleLength
<1>3. d \div ShortCycle \in Nat /\ d < c
    <2> HIDE DEF d
    <2> QED
        BY <1>1, <1>2
<1>4. d \div ShortCycle + 1 \in Nat /\ c \in Nat
    <2> HIDE DEF d
    <2>1. d \div ShortCycle + 1 \in Nat
        BY <1>3
    <2> QED
        BY <2>1, CycleLength
<1>5. PingLife < PingWait + c
    <2> HIDE DEF c, d
    <2> QED
        BY <1>2, <1>3, <1>4
<1> QED
    BY <1>4, <1>5

\* In every phase at most two pings in a cycle are left behind.
LEMMA SpacedAlways ==
    ASSUME IInv, Spacing
    PROVE  Spaced(left, PingWait, 2 * PingWait)
<1>1. left \in SUBSET Int /\ IsFiniteSet(left) /\ left \in SUBSET left
    BY LeftIsFinite DEF IInv
<1>2. /\ PingWait \in Nat /\ PollInterval \in Nat /\ ShortCycle \in Nat /\ age \in Nat
      /\ ShortCycle = 2 * PingWait + PollInterval
    BY ProbeAssumption, CycleLength, RoundLength DEF IInv, TypeOK
<1>3. PICK x \in Nat, y \in Nat : PingWait <= x /\ 2 * PingWait <= y /\ Spaced(left, x, y)
    <2>1. CASE pc = "check"
        <3>1. /\ PingWait + PollInterval \in Nat /\ PingWait <= PingWait + PollInterval
              /\ 2 * PingWait <= ShortCycle
            BY <1>2
        <3> QED
            BY <1>2, <2>1, <3>1 DEF Spacing
    <2>2. CASE pc = "asking" /\ ping = "asked" /\ target = "name"
        <3>1. /\ PingWait + PollInterval + age \in Nat /\ PingWait <= PingWait + PollInterval + age
              /\ ShortCycle + age \in Nat /\ 2 * PingWait <= ShortCycle + age
            BY <1>2
        <3> QED
            BY <2>2, <3>1 DEF Spacing
    <2>3. CASE pc = "asking" /\ ping = "asked" /\ target # "name"
        <3>1. /\ PingWait + age \in Nat /\ PingWait <= PingWait + age
              /\ ShortCycle + age \in Nat /\ 2 * PingWait <= ShortCycle + age
            BY <1>2
        <3> QED
            BY <2>3, <3>1 DEF Spacing
    <2>4. CASE pc = "asking" /\ ping # "asked"
        <3>1. /\ 2 * PingWait \in Nat /\ PingWait <= PingWait
              /\ 2 * PingWait <= ShortCycle /\ 2 * PingWait <= 2 * PingWait
            BY <1>2
        <3>2. Spaced(left, PingWait, ShortCycle) \/ Spaced(left, PingWait, 2 * PingWait)
            BY <2>4 DEF Spacing
        <3> QED
            BY <1>2, <3>1, <3>2
    <2>5. CASE pc = "pausing"
        <3>1. /\ PingWait + age \in Nat /\ PingWait <= PingWait + age
              /\ 2 * PingWait + age \in Nat /\ 2 * PingWait <= 2 * PingWait + age
            BY <1>2
        <3> QED
            BY <2>5, <3>1 DEF Spacing
    <2>6. CASE pc \in Verdict
        <3>1. /\ 2 * PingWait \in Nat /\ PingWait <= PingWait /\ 2 * PingWait <= 2 * PingWait
            BY <1>2
        <3> QED
            BY <1>2, <2>6, <3>1 DEF Spacing
    <2>7. pc \in {"check", "asking", "pausing"} \union Verdict
        BY DEF IInv, TypeOK
    <2> QED
        BY <2>1, <2>2, <2>3, <2>4, <2>5, <2>6, <2>7
<1>4. 2 * PingWait \in Nat
    BY <1>2
<1> QED
    BY <1>1, <1>2, <1>3, <1>4, SpacedLess

\* However long a poll lasts and however fast connections are refused, the pings it has given up
\* do not pile up: none starts while another is waited for (state_probe.py:74-89).
THEOREM LeftPingsAreFew == Spec => []FewPingsLeft
<1>1. Init => IInv /\ Spacing
    BY InitInv, SpacingInit
<1>2. IInv /\ Spacing /\ [Next]_vars => (IInv /\ Spacing)'
    BY StepInv, SpacingStep
<1>3. IInv /\ Spacing => FewPingsLeft
    <2> SUFFICES ASSUME IInv, Spacing PROVE FewPingsLeft
        OBVIOUS
    <2> DEFINE n == (PingLife - PingWait) \div ShortCycle + 1
    <2>1. n \in Nat /\ PingLife < PingWait + n * ShortCycle
        BY LifeInCycles
    <2>2. Few(left, PingWait + n * ShortCycle, 2 * n)
        BY <2>1, SpacedAlways DEF Spaced
    <2>3. {a \in left : a < PingWait + n * ShortCycle} = left
        <3> DEFINE c == PingWait + n * ShortCycle
        <3>1. c \in Nat /\ PingLife < c /\ PingWait \in Nat /\ PingLife \in Nat
            BY <2>1, CycleLength, ProbeAssumption
        <3>2. left \subseteq PingWait..PingLife
            BY DEF IInv, TypeOK
        <3> HIDE DEF c
        <3>3. ASSUME NEW a \in left PROVE a < c
            <4>1. a \in PingWait..PingLife
                BY <3>2
            <4> QED
                BY <3>1, <4>1
        <3>4. {a \in left : a < c} = left
            BY <3>3
        <3> QED
            BY <3>4 DEF c
    <2> QED
        BY <2>2, <2>3 DEF Few, FewPingsLeft
<1> QED
    BY <1>1, <1>2, <1>3, PTL DEF Spec
=============================================================================
