--------------------------- MODULE LoginRateLimiter ---------------------------
(***************************************************************************)
(* The two ways to log in.  POST /api/auth/login asks _check_login_rate    *)
(* of app/api/auth.py first: at most MaxAttempts attempts of an address    *)
(* within a window.  The login page's form, POST /auth/login of            *)
(* app/api/web.py, takes the password without asking it.  The list of an   *)
(* address holds the times of its admitted attempts; here it is a set of   *)
(* positions in `admitted', the log of all attempts that got as far as the *)
(* password since the process started, so that equal times stay apart.    *)
(* The check takes one step: the process is the only one and holds the     *)
(* lock.  The clock is monotonic, and a tick is its resolution.            *)
(***************************************************************************)
EXTENDS Integers, Sequences, FiniteSets

CONSTANTS Address,     \* client addresses
          Window,      \* _LOGIN_WINDOW
          MaxAttempts, \* _LOGIN_MAX_ATTEMPTS
          MaxTime,     \* bound: the clock
          MaxLogins    \* bound: attempts let through between two restarts

ASSUME LimiterAssumption ==
    /\ Window \in Nat /\ MaxAttempts \in Nat \ {0}
    /\ MaxTime \in Nat /\ MaxLogins \in Nat

VARIABLES
    now,      \* time.monotonic()
    admitted, \* attempts that reached the password since the process started
    buckets,  \* _rate_buckets: Address -> the attempts its list still holds
    refused   \* attempts answered 429

vars == <<now, admitted, buckets, refused>>

Attempt == [ip : Address, time : 0 .. MaxTime, by : {"api", "form"}]
Refusal == [ip : Address, time : 0 .. MaxTime]

TypeOK ==
    /\ now \in 0 .. MaxTime
    /\ admitted \in Seq(Attempt)
    /\ buckets \in [Address -> SUBSET DOMAIN admitted]
    /\ refused \subseteq Refusal

\* The attempts of the address that the list keeps.
Fresh(ip) == {k \in buckets[ip] : now - admitted[k].time < Window}

\* Mutant: one login too many is let through.
AdmitOneMore(ip) ==
    /\ Len(admitted) < MaxLogins
    /\ Cardinality(Fresh(ip)) =< MaxAttempts
    /\ admitted' = Append(admitted, [ip |-> ip, time |-> now, by |-> "api"])
    /\ buckets' = [buckets EXCEPT ![ip] = Fresh(ip) \union {Len(admitted) + 1}]
    /\ UNCHANGED <<now, refused>>

Admit(ip) ==
    /\ Len(admitted) < MaxLogins
    /\ Cardinality(Fresh(ip)) < MaxAttempts
    /\ admitted' = Append(admitted, [ip |-> ip, time |-> now, by |-> "api"])
    /\ buckets' = [buckets EXCEPT ![ip] = Fresh(ip) \union {Len(admitted) + 1}]
    /\ UNCHANGED <<now, refused>>

\* The form knows nothing of the limiter.
FormLogin(ip) ==
    /\ Len(admitted) < MaxLogins
    /\ admitted' = Append(admitted, [ip |-> ip, time |-> now, by |-> "form"])
    /\ UNCHANGED <<now, buckets, refused>>

\* Mutant: the list is counted before the old logins are taken out.
RefuseUnpruned(ip) ==
    /\ Cardinality(buckets[ip]) >= MaxAttempts
    /\ buckets' = [buckets EXCEPT ![ip] = Fresh(ip)]
    /\ refused' = refused \union {[ip |-> ip, time |-> now]}
    /\ UNCHANGED <<now, admitted>>

Refuse(ip) ==
    /\ Cardinality(Fresh(ip)) >= MaxAttempts
    /\ buckets' = [buckets EXCEPT ![ip] = Fresh(ip)]
    /\ refused' = refused \union {[ip |-> ip, time |-> now]}
    /\ UNCHANGED <<now, admitted>>

Tick ==
    /\ now < MaxTime
    /\ now' = now + 1
    /\ UNCHANGED <<admitted, buckets, refused>>

\* Mutant: the lists outlive the process, the clock they refer to does not.
RestartKeeping ==
    /\ admitted' = <<>>
    /\ refused' = {}
    /\ UNCHANGED <<now, buckets>>

\* The lists live in the process, and the log counts from its start.
Restart ==
    /\ admitted' = <<>>
    /\ buckets' = [ip \in Address |-> {}]
    /\ refused' = {}
    /\ UNCHANGED now

Init ==
    /\ now = 0
    /\ admitted = <<>>
    /\ buckets = [ip \in Address |-> {}]
    /\ refused = {}

Next == Tick \/ Restart \/ \E ip \in Address : Admit(ip) \/ FormLogin(ip) \/ Refuse(ip)

Spec == Init /\ [][Next]_vars

----------------------------------------------------------------------------
\* The attempts of the address that the API has let through in the window that ends at t.
During(ip, t) ==
    {k \in DOMAIN admitted : /\ admitted[k].ip = ip /\ admitted[k].by = "api"
                             /\ t - Window < admitted[k].time
                             /\ admitted[k].time =< t}

\* Whichever window one looks at, wherever it starts, the API endpoint has let through at
\* most MaxAttempts attempts of an address in it (auth.py:40-58); the form is not counted.
SlidingWindow == \A ip \in Address : \A t \in 0 .. now :
                    Cardinality(During(ip, t)) =< MaxAttempts

\* The API refuses an attempt only when the window that ends with it is full: those refused
\* before it, those of other addresses and those of the form do not count (auth.py:51-58).
RefusedWhenFull == \A f \in refused : Cardinality(During(f.ip, f.time)) >= MaxAttempts

\* "Per-IP login rate limiting (in-process, single worker)" (README.md:212): whichever page it
\* uses, an address has at most MaxAttempts attempts in a window.  The form does not keep to
\* it (web.py:207).
LoginsAreLimited ==
    \A ip \in Address : \A t \in 0 .. now :
        Cardinality({k \in DOMAIN admitted : /\ admitted[k].ip = ip
                                             /\ t - Window < admitted[k].time
                                             /\ admitted[k].time =< t}) =< MaxAttempts
==============================================================================
