----------------------------- MODULE StateProbe -----------------------------
(***************************************************************************)
(* One caller of the prober in time: app/infra/state_probe.py with the      *)
(* loop of app/services/ensure_online.py, or the single probe of           *)
(* GET /machines/{id}/status.  Ping and TCP run side by side, each under   *)
(* its timeout; when both fail under the host name, both are tried again   *)
(* under the address.  A ping that is given up keeps its process.          *)
(*                                                                         *)
(* One tick is a second.  Whatever needs no waiting happens within a tick. *)
(***************************************************************************)
EXTENDS Integers, FiniteSets

CONSTANTS
    PingTimeout,   \* _PING_TIMEOUT_S; a ping is given up a second later
    TcpTimeout,    \* _TCP_TIMEOUT_S
    PollInterval,  \* _POLL_INTERVAL_S of ensure_online.py
    PollTimeout,   \* poll_timeout_s of the attempt
    MaxLate,       \* the longest an attempt is old before its poll begins
    PingLife,      \* the longest a ping process lives, its look-up of the name included
    MaxSteady      \* longer than this the machine's steadiness is not counted

PingWait == PingTimeout + 1
Round == IF PingWait > TcpTimeout THEN PingWait ELSE TcpTimeout
Cycle == 2 * Round + PollInterval

\* A connection may be refused at once, so that two pings that are given up and the pause make a cycle.
ShortCycle == 2 * PingWait + PollInterval

ASSUME ProbeAssumption ==
    /\ PingTimeout \in Nat /\ TcpTimeout \in Nat \ {0} /\ PollInterval \in Nat \ {0}
    /\ PollTimeout \in Nat /\ MaxLate \in Nat
    /\ PingLife \in Nat /\ PingWait < PingLife
    /\ MaxSteady \in Nat /\ Round + PollInterval < MaxSteady

VARIABLES
    caller,        \* the poller, or a request for the status
    named,         \* the machine has a host name besides its address
    elapsed,       \* the age of the attempt
    pc,
    target,        \* what is asked in this round
    ping, tcp,     \* the two answers
    age,           \* of the round, or of the pause
    left,          \* the ages of ping processes that were given up
    steady,        \* for how long the address has answered pings without a break
    probed         \* the poller has probed at all

vars == <<caller, named, elapsed, pc, target, ping, tcp, age, left, steady, probed>>
round == <<target, ping, tcp, age>>
setting == <<caller, named>>

Answer == {"none", "asked", "yes", "no"}
Verdict == {"online", "offline", "timeout"}

TypeOK ==
    /\ caller \in {"poller", "status"} /\ named \in BOOLEAN /\ probed \in BOOLEAN
    /\ pc \in {"check", "asking", "pausing"} \union Verdict
    /\ target \in {"name", "address"} /\ (target = "name" => named)
    /\ ping \in Answer /\ tcp \in Answer
    /\ elapsed \in Nat /\ age \in 0..(Round + PollInterval)
    /\ left \subseteq PingWait..PingLife
    /\ steady \in 0..MaxSteady

Init ==
    /\ caller \in {"poller", "status"} /\ named \in BOOLEAN
    /\ elapsed \in 0..MaxLate
    /\ pc = "check"
    /\ target = "address" /\ ping = "none" /\ tcp = "none" /\ age = 0
    /\ left = {} /\ steady = 0 /\ probed = FALSE

-----------------------------------------------------------------------------
Ask(t) == target' = t /\ ping' = "asked" /\ tcp' = "asked" /\ age' = 0

\* Mutant: the age is compared with > rather than >=.
TooOldLater == elapsed > PollTimeout

TooOld == elapsed >= PollTimeout

\* The head of the loop: give up, or ask the host name if there is one.
GiveUp ==
    /\ pc = "check" /\ caller = "poller" /\ TooOld
    /\ pc' = "timeout"
    /\ UNCHANGED <<setting, elapsed, round, left, steady, probed>>

Probe ==
    /\ pc = "check" /\ (caller = "poller" => ~TooOld)
    /\ pc' = "asking" /\ probed' = TRUE
    /\ Ask(IF named THEN "name" ELSE "address")
    /\ UNCHANGED <<setting, elapsed, left, steady>>

\* A name may lead anywhere.  A machine that answers pings all the time answers this one.
MayFail == target = "name" \/ steady <= age

\* _ping: the process ends, or could not be started.
PingEnds ==
    /\ pc = "asking" /\ ping = "asked"
    /\ \/ ping' = "yes" /\ (target = "name" \/ steady > 0)
       \/ ping' = "no" /\ MayFail
    /\ UNCHANGED <<setting, elapsed, pc, target, tcp, age, left, steady, probed>>

\* Mutant: a ping is given up when its own timeout is over, not a second later.
PingGivenUpSooner ==
    /\ pc = "asking" /\ ping = "asked" /\ age = PingTimeout /\ MayFail
    /\ ping' = "no" /\ left' = left \union {age}
    /\ UNCHANGED <<setting, elapsed, pc, target, tcp, age, steady, probed>>

PingGivenUp ==
    /\ pc = "asking" /\ ping = "asked" /\ age = PingWait /\ MayFail
    /\ ping' = "no" /\ left' = left \union {age}
    /\ UNCHANGED <<setting, elapsed, pc, target, tcp, age, steady, probed>>

\* _tcp_connect: a connection, a refusal or, at the latest, the timeout.
\* (Nothing is sent over the connection, so closing it needs no waiting.)
TcpEnds ==
    /\ pc = "asking" /\ tcp = "asked"
    /\ tcp' \in IF age < TcpTimeout THEN {"yes", "no"} ELSE {"no"}
    /\ UNCHANGED <<setting, elapsed, pc, target, ping, age, left, steady, probed>>

Gathered == pc = "asking" /\ ping \in {"yes", "no"} /\ tcp \in {"yes", "no"}
BothFailed == ping = "no" /\ tcp = "no"

\* Mutant: the caller gives no address to fall back to.
NoFallback ==
    /\ Gathered /\ BothFailed /\ target = "name"
    /\ target' = "address"
    /\ UNCHANGED <<setting, elapsed, pc, ping, tcp, age, left, steady, probed>>

AskAddress ==
    /\ Gathered /\ BothFailed /\ target = "name"
    /\ Ask("address")
    /\ UNCHANGED <<setting, elapsed, pc, left, steady, probed>>

\* derived_state: one answer is enough.
Online ==
    /\ Gathered /\ ~BothFailed
    /\ pc' = "online"
    /\ UNCHANGED <<setting, elapsed, round, left, steady, probed>>

\* Mutant: the poller does not sleep.
OfflineNoPause ==
    /\ Gathered /\ BothFailed /\ target = "address"
    /\ pc' = IF caller = "poller" THEN "check" ELSE "offline"
    /\ age' = 0
    /\ UNCHANGED <<setting, elapsed, target, ping, tcp, left, steady, probed>>

Offline ==
    /\ Gathered /\ BothFailed /\ target = "address"
    /\ pc' = IF caller = "poller" THEN "pausing" ELSE "offline"
    /\ age' = 0
    /\ UNCHANGED <<setting, elapsed, target, ping, tcp, left, steady, probed>>

WakesUp ==
    /\ pc = "pausing" /\ age = PollInterval
    /\ pc' = "check"
    /\ UNCHANGED <<setting, elapsed, round, left, steady, probed>>

\* A ping that was given up ends by itself.
LeftPingEnds ==
    /\ \E a \in left : left' = left \ {a}
    /\ UNCHANGED <<setting, elapsed, pc, round, steady, probed>>

\* Time passes while everybody waits; nothing is overdue.
Waiting ==
    \/ pc = "pausing" /\ age < PollInterval
    \/ /\ pc = "asking" /\ ~Gathered
       /\ ping = "asked" => age < PingWait
       /\ tcp = "asked" => age < TcpTimeout

Tick ==
    /\ Waiting /\ \A a \in left : a < PingLife
    /\ elapsed' = elapsed + 1 /\ age' = age + 1
    /\ left' = {a + 1 : a \in left}
    /\ steady' \in {0, IF steady < MaxSteady THEN steady + 1 ELSE steady}
    /\ UNCHANGED <<setting, pc, target, ping, tcp, probed>>

Done == pc \in Verdict /\ UNCHANGED vars

Next ==
    \/ GiveUp \/ Probe \/ PingEnds \/ PingGivenUp \/ TcpEnds \/ AskAddress \/ Online \/ Offline
    \/ WakesUp \/ LeftPingEnds \/ Tick \/ Done

Spec == Init /\ [][Next]_vars

-----------------------------------------------------------------------------
\* A poll does not outlast its timeout by a whole cycle of two rounds and a pause; an
\* attempt that comes too late is given up at once (ensure_online.py:72-103).
VerdictInTime ==
    elapsed < PollTimeout + Cycle \/ (elapsed <= MaxLate /\ ~probed) \/ caller = "status"

\* A machine that has answered pings for longer than a round and a pause is not reported as one
\* that did not come online, even if its name leads nowhere (state_probe.py:46, ensure_online.py:74).
SteadyIsFound ==
    pc = "timeout" /\ probed => steady <= Round + PollInterval

\* The processes of pings that were given up are gone before those of more cycles come together
\* than fit into a life, since none starts while another is waited for (state_probe.py:74-89).
FewPingsLeft ==
    Cardinality(left) <= 2 * ((PingLife - PingWait) \div ShortCycle + 1)
=============================================================================
