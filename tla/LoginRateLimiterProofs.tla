------------------------ MODULE LoginRateLimiterProofs ------------------------
(***************************************************************************)
(* The two promises of the API's login rate limiter, for any addresses,    *)
(* window, limit and bounds, whatever comes through the form meanwhile.    *)
(***************************************************************************)
EXTENDS LoginRateLimiter, FiniteSetTheorems, TLAPS

\* The inductive invariant.  The lists hold all attempts at the API younger than a
\* window, and none of another address or of the form.
ClockIsAhead == \A k \in DOMAIN admitted : admitted[k].time =< now

ListsAreApart == \A ip \in Address : \A k \in buckets[ip] :
                   admitted[k].ip = ip /\ admitted[k].by = "api"

DroppedIsOld == \A k \in DOMAIN admitted :
                   admitted[k].by = "api" /\ k \notin buckets[admitted[k].ip]
                       => now - admitted[k].time >= Window

IInv ==
    /\ TypeOK
    /\ ClockIsAhead
    /\ ListsAreApart
    /\ DroppedIsOld
    /\ SlidingWindow
    /\ RefusedWhenFull

----------------------------------------------------------------------------
\* What the log holds.
LEMMA AttemptsAreTyped ==
    ASSUME LimiterAssumption, TypeOK, NEW k \in DOMAIN admitted
    PROVE  /\ admitted[k] \in Attempt
           /\ admitted[k].ip \in Address
           /\ admitted[k].time \in Nat
<1>1. admitted[k] \in Attempt
  BY DEF TypeOK
<1>2. \A t \in 0 .. MaxTime : t \in Nat
  BY DEF LimiterAssumption
<1> QED
  BY <1>1, <1>2 DEF Attempt

\* Every set of logged logins is finite (Fresh and During are such sets).
LEMMA LoginsAreFinite ==
    ASSUME TypeOK, NEW S \in SUBSET DOMAIN admitted
    PROVE  IsFiniteSet(S) /\ Cardinality(S) \in Nat
<1>1. DOMAIN admitted = 1 .. Len(admitted) /\ Len(admitted) \in Nat
  BY DEF TypeOK
<1>2. IsFiniteSet(1 .. Len(admitted))
  BY <1>1, FS_Interval
<1>3. IsFiniteSet(S)
  BY <1>1, <1>2, FS_Subset
<1> QED
  BY <1>3, FS_CardinalityType

\* The logins of the window that ends now are those the list keeps (auth.py:51).
LEMMA FreshIsWindow ==
    ASSUME LimiterAssumption, TypeOK, ClockIsAhead, ListsAreApart, DroppedIsOld,
           NEW ip \in Address
    PROVE  During(ip, now) = Fresh(ip)
<1>2. now \in Int /\ Window \in Int /\ buckets[ip] \subseteq DOMAIN admitted
  BY DEF TypeOK, LimiterAssumption
<1>3. \A k \in DOMAIN admitted : admitted[k].time \in Int
  BY AttemptsAreTyped
<1>4. ASSUME NEW k \in During(ip, now) PROVE k \in Fresh(ip)
  <2>1. /\ k \in DOMAIN admitted /\ admitted[k].ip = ip /\ admitted[k].by = "api"
        /\ now - Window < admitted[k].time
    BY DEF During
  <2>2. now - admitted[k].time < Window
    BY <2>1, <1>2, <1>3
  <2>3. k \in buckets[ip]
    BY <2>1, <2>2, <1>2, <1>3 DEF DroppedIsOld
  <2> QED
    BY <2>2, <2>3 DEF Fresh
<1>5. ASSUME NEW k \in Fresh(ip) PROVE k \in During(ip, now)
  <2>1. k \in buckets[ip] /\ k \in DOMAIN admitted /\ now - admitted[k].time < Window
    BY <1>2 DEF Fresh
  <2>2. admitted[k].ip = ip /\ admitted[k].by = "api" /\ admitted[k].time =< now
    BY <2>1 DEF ListsAreApart, ClockIsAhead
  <2>3. now - Window < admitted[k].time
    BY <2>1, <1>2, <1>3
  <2> QED
    BY <2>1, <2>2, <2>3 DEF During
<1> QED
  BY <1>4, <1>5

----------------------------------------------------------------------------
\* A process that has just started has let nobody through.
LEMMA InvInit == LimiterAssumption /\ Init => IInv
<1> SUFFICES ASSUME LimiterAssumption, Init PROVE IInv
  OBVIOUS
<1>1. TypeOK
  <2>1. admitted = <<>> /\ DOMAIN admitted = {} /\ admitted \in Seq(Attempt)
    BY DEF Init
  <2> QED
    BY <2>1 DEF TypeOK, Init, LimiterAssumption
<1>2. ClockIsAhead /\ ListsAreApart /\ DroppedIsOld
  BY DEF ClockIsAhead, ListsAreApart, DroppedIsOld, Init
<1>3. SlidingWindow
  <2> SUFFICES ASSUME NEW ip \in Address, NEW t \in 0 .. now
               PROVE  Cardinality(During(ip, t)) =< MaxAttempts
    BY DEF SlidingWindow
  <2>1. During(ip, t) = {}
    BY DEF During, Init
  <2> QED
    BY <2>1, FS_EmptySet DEF LimiterAssumption
<1>4. RefusedWhenFull
  BY DEF RefusedWhenFull, Init
<1> QED
  BY <1>1, <1>2, <1>3, <1>4 DEF IInv

\* A login let through makes its window full at most, and is in no window that
\* has ended (auth.py:58).
LEMMA AdmitStep ==
    ASSUME LimiterAssumption, IInv, NEW ip \in Address, Admit(ip)
    PROVE  IInv'
<1> DEFINE n == Len(admitted) + 1
<1>1. /\ Len(admitted) \in Nat /\ DOMAIN admitted = 1 .. Len(admitted)
      /\ DOMAIN admitted' = DOMAIN admitted \union {n}
      /\ n \notin DOMAIN admitted
      /\ \A k \in DOMAIN admitted : admitted'[k] = admitted[k]
      /\ admitted'[n] = [ip |-> ip, time |-> now, by |-> "api"]
      /\ admitted' \in Seq(Attempt)
  BY DEF IInv, TypeOK, Admit, Attempt
<1>2. /\ now' = now /\ refused' = refused /\ now \in 0 .. MaxTime
      /\ buckets' = [buckets EXCEPT ![ip] = Fresh(ip) \union {n}]
      /\ buckets \in [Address -> SUBSET DOMAIN admitted]
      /\ refused \subseteq Refusal
      /\ Fresh(ip) \subseteq buckets[ip]
  BY DEF IInv, TypeOK, Admit, Fresh
<1>3. \A k \in DOMAIN admitted : admitted[k] \in Attempt /\ admitted[k].time \in Nat
  BY AttemptsAreTyped DEF IInv
<1>4. TypeOK'
  BY <1>1, <1>2 DEF TypeOK
<1>5. ClockIsAhead'
  BY <1>1, <1>2 DEF IInv, ClockIsAhead
<1>6. ListsAreApart'
  <2> SUFFICES ASSUME NEW a \in Address, NEW k \in buckets'[a]
               PROVE  admitted'[k].ip = a /\ admitted'[k].by = "api"
    BY DEF ListsAreApart
  <2>1. CASE k = n
    BY <2>1, <1>1, <1>2
  <2>2. CASE k # n
    BY <2>2, <1>1, <1>2 DEF IInv, ListsAreApart
  <2> QED
    BY <2>1, <2>2
<1>7. DroppedIsOld'
  <2> SUFFICES ASSUME NEW k \in DOMAIN admitted', admitted'[k].by = "api",
                      k \notin buckets'[admitted'[k].ip]
               PROVE  now - admitted'[k].time >= Window
    BY <1>2 DEF DroppedIsOld
  <2>1. /\ k # n /\ k \in DOMAIN admitted /\ admitted'[k] = admitted[k]
        /\ admitted[k].ip \in Address
    BY <1>1, <1>2, AttemptsAreTyped DEF IInv
  <2>2. CASE k \in buckets[admitted[k].ip]
    BY <2>1, <2>2, <1>1, <1>2, <1>3 DEF Fresh, LimiterAssumption
  <2>3. CASE k \notin buckets[admitted[k].ip]
    BY <2>1, <2>3 DEF IInv, DroppedIsOld
  <2> QED
    BY <2>2, <2>3
<1>8. SlidingWindow'
  <2> SUFFICES ASSUME NEW a \in Address, NEW t \in 0 .. now
               PROVE  Cardinality(During(a, t)') =< MaxAttempts
    BY <1>2 DEF SlidingWindow
  <2>1. CASE a # ip \/ t # now
    <3>1. During(a, t)' = During(a, t)
      BY <2>1, <1>1, <1>2 DEF During
    <3> QED
      BY <3>1 DEF IInv, SlidingWindow
  <2>2. CASE a = ip /\ t = now
    <3>1. During(a, t)' \subseteq During(ip, now) \union {n}
      BY <2>2, <1>1 DEF During
    <3>2. During(ip, now) = Fresh(ip)
      BY FreshIsWindow DEF IInv
    <3>3. IsFiniteSet(Fresh(ip)) /\ Cardinality(Fresh(ip)) \in Nat
      BY <1>2, LoginsAreFinite DEF IInv
    <3>4. /\ IsFiniteSet(Fresh(ip) \union {n})
          /\ Cardinality(Fresh(ip) \union {n}) = Cardinality(Fresh(ip)) + 1
      BY <3>3, <1>1, <1>2, FS_AddElement
    <3>5. Cardinality(During(a, t)') =< Cardinality(Fresh(ip) \union {n})
      BY <3>1, <3>2, <3>4, FS_Subset
    <3>6. Cardinality(During(a, t)') \in Nat
      BY <3>1, <3>2, <3>4, FS_Subset, FS_CardinalityType
    <3> QED
      BY <3>3, <3>4, <3>5, <3>6 DEF Admit, LimiterAssumption
  <2> QED
    BY <2>1, <2>2
<1>9. RefusedWhenFull'
  <2> SUFFICES ASSUME NEW f \in refused
               PROVE  Cardinality(During(f.ip, f.time)') >= MaxAttempts
    BY <1>2 DEF RefusedWhenFull
  <2>1. During(f.ip, f.time) \subseteq During(f.ip, f.time)'
    BY <1>1 DEF During
  <2>2. During(f.ip, f.time)' \subseteq DOMAIN admitted'
    BY DEF During
  <2>3. IsFiniteSet(1 .. Len(admitted) + 1)
    BY <1>1, FS_Interval
  <2>4. DOMAIN admitted' = 1 .. Len(admitted) + 1
    BY <1>1
  <2>5. IsFiniteSet(During(f.ip, f.time)')
    BY <2>2, <2>3, <2>4, FS_Subset
  <2>6. /\ Cardinality(During(f.ip, f.time)) =< Cardinality(During(f.ip, f.time)')
        /\ IsFiniteSet(During(f.ip, f.time))
    BY <2>1, <2>5, FS_Subset
  <2>7. /\ Cardinality(During(f.ip, f.time)) \in Nat
        /\ Cardinality(During(f.ip, f.time)') \in Nat
    BY <2>5, <2>6, FS_CardinalityType
  <2>8. Cardinality(During(f.ip, f.time)) >= MaxAttempts
    BY DEF IInv, RefusedWhenFull
  <2> QED
    BY <2>6, <2>7, <2>8 DEF LimiterAssumption
<1> QED
  BY <1>4, <1>5, <1>6, <1>7, <1>8, <1>9 DEF IInv

----------------------------------------------------------------------------
\* An attempt at the form is in no list and in no window of the API (web.py:207).
LEMMA FormStep ==
    ASSUME LimiterAssumption, IInv, NEW ip \in Address, FormLogin(ip)
    PROVE  IInv'
<1> DEFINE n == Len(admitted) + 1
<1>1. /\ Len(admitted) \in Nat /\ DOMAIN admitted = 1 .. Len(admitted)
      /\ DOMAIN admitted' = DOMAIN admitted \union {n}
      /\ n \notin DOMAIN admitted
      /\ \A k \in DOMAIN admitted : admitted'[k] = admitted[k]
      /\ admitted'[n] = [ip |-> ip, time |-> now, by |-> "form"]
      /\ admitted' \in Seq(Attempt)
  BY DEF IInv, TypeOK, FormLogin, Attempt
<1>2. /\ now' = now /\ refused' = refused /\ buckets' = buckets
      /\ buckets \in [Address -> SUBSET DOMAIN admitted]
  BY DEF IInv, TypeOK, FormLogin
<1>3. \A a, t : During(a, t)' = During(a, t)
  BY <1>1 DEF During
<1>4. TypeOK'
  BY <1>1, <1>2 DEF IInv, TypeOK
<1>5. ClockIsAhead'
  BY <1>1, <1>2 DEF IInv, TypeOK, ClockIsAhead
<1>6. ListsAreApart'
  BY <1>1, <1>2 DEF IInv, ListsAreApart
<1>7. DroppedIsOld'
  BY <1>1, <1>2 DEF IInv, DroppedIsOld
<1>8. SlidingWindow' /\ RefusedWhenFull'
  BY <1>2, <1>3 DEF IInv, SlidingWindow, RefusedWhenFull
<1> QED
  BY <1>4, <1>5, <1>6, <1>7, <1>8 DEF IInv

----------------------------------------------------------------------------
\* A login is refused with a full window behind it (auth.py:52-57).
LEMMA RefuseStep ==
    ASSUME LimiterAssumption, IInv, NEW ip \in Address, Refuse(ip)
    PROVE  IInv'
<1>1. /\ now' = now /\ admitted' = admitted /\ now \in 0 .. MaxTime
      /\ buckets' = [buckets EXCEPT ![ip] = Fresh(ip)]
      /\ buckets \in [Address -> SUBSET DOMAIN admitted]
      /\ Fresh(ip) \subseteq buckets[ip]
      /\ refused' = refused \union {[ip |-> ip, time |-> now]}
  BY DEF IInv, TypeOK, Refuse, Fresh
<1>2. \A k \in DOMAIN admitted : admitted[k] \in Attempt /\ admitted[k].time \in Nat
  BY AttemptsAreTyped DEF IInv
<1>3. \A a, t : During(a, t)' = During(a, t)
  BY <1>1 DEF During
<1>4. TypeOK'
  BY <1>1 DEF IInv, TypeOK, Refusal
<1>5. ClockIsAhead' /\ ListsAreApart'
  BY <1>1 DEF IInv, ClockIsAhead, ListsAreApart
<1>6. DroppedIsOld'
  <2> SUFFICES ASSUME NEW k \in DOMAIN admitted, admitted[k].by = "api",
                      k \notin buckets'[admitted[k].ip]
               PROVE  now - admitted[k].time >= Window
    BY <1>1 DEF DroppedIsOld
  <2>1. admitted[k].ip \in Address
    BY AttemptsAreTyped DEF IInv
  <2>2. CASE k \in buckets[admitted[k].ip]
    BY <2>1, <2>2, <1>1, <1>2 DEF Fresh, LimiterAssumption
  <2>3. CASE k \notin buckets[admitted[k].ip]
    BY <2>3 DEF IInv, DroppedIsOld
  <2> QED
    BY <2>2, <2>3
<1>7. SlidingWindow'
  BY <1>1, <1>3 DEF IInv, SlidingWindow
<1>8. RefusedWhenFull'
  <2>1. Cardinality(During(ip, now)) >= MaxAttempts
    BY FreshIsWindow DEF IInv, Refuse
  <2> QED
    BY <2>1, <1>1, <1>3 DEF IInv, RefusedWhenFull
<1> QED
  BY <1>4, <1>5, <1>6, <1>7, <1>8 DEF IInv

\* Nobody has logged in at a time that has yet to come.
LEMMA TickStep ==
    ASSUME LimiterAssumption, IInv, Tick
    PROVE  IInv'
<1>1. /\ now' = now + 1 /\ now < MaxTime /\ now \in 0 .. MaxTime
      /\ admitted' = admitted /\ buckets' = buckets /\ refused' = refused
  BY DEF IInv, TypeOK, Tick
<1>2. \A k \in DOMAIN admitted : admitted[k].time \in Nat
  BY AttemptsAreTyped DEF IInv
<1>3. \A a, t : During(a, t)' = During(a, t)
  BY <1>1 DEF During
<1>4. TypeOK'
  BY <1>1 DEF IInv, TypeOK, LimiterAssumption
<1>5. ClockIsAhead' /\ ListsAreApart' /\ DroppedIsOld'
  BY <1>1, <1>2 DEF IInv, ClockIsAhead, ListsAreApart, DroppedIsOld, LimiterAssumption
<1>6. SlidingWindow'
  <2> SUFFICES ASSUME NEW a \in Address, NEW t \in 0 .. now + 1
               PROVE  Cardinality(During(a, t)) =< MaxAttempts
    BY <1>1, <1>3 DEF SlidingWindow
  <2>1. CASE t \in 0 .. now
    BY <2>1 DEF IInv, SlidingWindow
  <2>2. CASE t = now + 1
    <3>1. During(a, t) \subseteq During(a, now)
      BY <2>2, <1>1, <1>2 DEF IInv, ClockIsAhead, During, LimiterAssumption
    <3>2. During(a, now) \subseteq DOMAIN admitted /\ During(a, t) \subseteq DOMAIN admitted
      BY DEF During
    <3>3. /\ IsFiniteSet(During(a, now)) /\ Cardinality(During(a, now)) \in Nat
          /\ Cardinality(During(a, t)) \in Nat
      BY <3>2, LoginsAreFinite DEF IInv
    <3>4. Cardinality(During(a, t)) =< Cardinality(During(a, now))
      BY <3>1, <3>3, FS_Subset
    <3>5. Cardinality(During(a, now)) =< MaxAttempts
      BY <1>1 DEF IInv, SlidingWindow
    <3> QED
      BY <3>3, <3>4, <3>5 DEF LimiterAssumption
  <2> QED
    BY <2>1, <2>2, <1>1
<1>7. RefusedWhenFull'
  BY <1>1, <1>3 DEF IInv, RefusedWhenFull
<1> QED
  BY <1>4, <1>5, <1>6, <1>7 DEF IInv

\* A restarted process starts from nothing, as the first one did.
LEMMA RestartStep ==
    ASSUME LimiterAssumption, IInv, Restart
    PROVE  IInv'
<1>1. /\ now' = now /\ now \in 0 .. MaxTime
      /\ admitted' = <<>> /\ DOMAIN admitted' = {} /\ admitted' \in Seq(Attempt)
      /\ buckets' = [ip \in Address |-> {}] /\ refused' = {}
  BY DEF IInv, TypeOK, Restart
<1>2. TypeOK'
  BY <1>1 DEF TypeOK
<1>3. ClockIsAhead' /\ ListsAreApart' /\ DroppedIsOld' /\ RefusedWhenFull'
  BY <1>1 DEF ClockIsAhead, ListsAreApart, DroppedIsOld, RefusedWhenFull
<1>4. SlidingWindow'
  <2> SUFFICES ASSUME NEW a \in Address, NEW t \in 0 .. now
               PROVE  Cardinality(During(a, t)') =< MaxAttempts
    BY <1>1 DEF SlidingWindow
  <2>1. During(a, t)' = {}
    BY <1>1 DEF During
  <2> QED
    BY <2>1, FS_EmptySet DEF LimiterAssumption
<1> QED
  BY <1>2, <1>3, <1>4 DEF IInv

----------------------------------------------------------------------------
\* The inductive invariant holds in every reachable state.
THEOREM LimiterInvariance == Spec => []IInv
<1>1. Init => IInv
  BY InvInit, LimiterAssumption
<1>2. IInv /\ [Next]_vars => IInv'
  <2> SUFFICES ASSUME IInv, [Next]_vars PROVE IInv'
    OBVIOUS
  <2>1. CASE Tick
    BY <2>1, TickStep, LimiterAssumption
  <2>2. CASE Restart
    BY <2>2, RestartStep, LimiterAssumption
  <2>3. ASSUME NEW ip \in Address, Admit(ip) PROVE IInv'
    BY <2>3, AdmitStep, LimiterAssumption
  <2>4. ASSUME NEW ip \in Address, FormLogin(ip) PROVE IInv'
    BY <2>4, FormStep, LimiterAssumption
  <2>5. ASSUME NEW ip \in Address, Refuse(ip) PROVE IInv'
    BY <2>5, RefuseStep, LimiterAssumption
  <2>6. CASE UNCHANGED vars
    <3>1. \A a, t : During(a, t)' = During(a, t)
      BY <2>6 DEF vars, During
    <3> QED
      BY <2>6, <3>1 DEF vars, IInv, TypeOK, ClockIsAhead, ListsAreApart, DroppedIsOld,
                        SlidingWindow, RefusedWhenFull
  <2> QED
    BY <2>1, <2>2, <2>3, <2>4, <2>5, <2>6 DEF Next
<1> QED
  BY <1>1, <1>2, PTL DEF Spec

\* The state keeps its types.
THEOREM LimiterTypes == Spec => []TypeOK
<1>1. IInv => TypeOK
  BY DEF IInv
<1> QED
  BY <1>1, LimiterInvariance, PTL

\* In no window of the limiter's length, wherever it starts, has the API endpoint let
\* through more attempts of one address than the limit (auth.py:40-58).
THEOREM WindowsAreBounded == Spec => []SlidingWindow
<1>1. IInv => SlidingWindow
  BY DEF IInv
<1> QED
  BY <1>1, LimiterInvariance, PTL

\* The API refuses an attempt only after as many of its own address, let through by
\* the API, within the window as the limit allows (auth.py:51-57).
THEOREM RefusalsAreDeserved == Spec => []RefusedWhenFull
<1>1. IInv => RefusedWhenFull
  BY DEF IInv
<1> QED
  BY <1>1, LimiterInvariance, PTL
==============================================================================
