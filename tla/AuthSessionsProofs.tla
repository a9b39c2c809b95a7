------------------------- MODULE AuthSessionsProofs -------------------------
(***************************************************************************)
(* Proofs about AuthSessions, for any sessions, tokens, requests, lifetimes*)
(* and bounds, and whichever leaves first, the answer or the commit.       *)
(*                                                                         *)
(* IInv says of the tables that no two requests hold clashing rows (Locks) *)
(* and that a row named is inserted by one request (Inserts), and of each  *)
(* request that it is Sound: what it writes fits what is committed, what   *)
(* was over when it came still is, and who let it in was not.              *)
(***************************************************************************)
EXTENDS AuthSessions, FiniteSetTheorems, TLAPS

----------------------------------------------------------------------------
\* The inductive invariant.

\* The requests being served, as TypeOK has them.
Served == [kind : Kind \union {"none"},
           at : {"idle", "entered", "rehashed", "inside", "bearer", "allowed",
                 "deleted", "sending", "done", "committed"},
           cred : SUBSET Credential, csrf : SUBSET Csrf,
           target : SUBSET Token, by : SUBSET Credential,
           wrote : SUBSET Write, wants : SUBSET Write,
           over : SUBSET Credential,
           stale : BOOLEAN, answered : BOOLEAN]

\* What a request has written or waits to write.
Writes(r) == req[r].wrote \union req[r].wants

\* No two requests hold rows that are in each other's way.
Locks == \A r, q \in Request :
             r # q => \A w \in req[r].wrote, v \in req[q].wrote : ~ Clash(w, v)

\* An identifier is named by the one request that inserts its row.
Named(c) == IF c \in Session THEN session[c].status = "named" ELSE token[c].status = "named"
Inserts == \A r \in Request, c \in Credential :
               <<"insert", c>> \in req[r].wrote =>
                   Named(c) /\ \A q \in Request : <<"insert", c>> \in req[q].wrote => q = r

\* Only rows that are there are revoked, and no row waits to be inserted.
Revoking(r) == \A c \in Credential : /\ <<"revoke", c>> \in Writes(r) => Committed(c)
                                     /\ <<"insert", c>> \notin req[r].wants

\* Which requests write what about the machine, and what goes with it.
MachineWrites(r) ==
    /\ <<"delete", "machines">> \in Writes(r) => req[r].kind = "delete_machine"
    /\ \A t \in Token : <<"insert", t>> \in req[r].wrote =>
           /\ req[r].kind = "create_token"
           /\ token[t].bound => <<"refer", "machines">> \in Writes(r)
    /\ req[r].kind = "delete_machine" =>
           /\ req[r].at = "deleted" => <<"delete", "machines">> \in Writes(r)
           /\ req[r].at = "done" => <<"delete", "machines">> \in req[r].wrote

\* Who holds a reference to the machine finds it there until the commit.
FindsMachine(r) == \A w \in {"attempt", "refer"} :
                       <<w, "machines">> \in req[r].wrote => machine.here

\* A deletion about to be committed has unbound the tokens or waits to.
Unbinds(r) ==
    req[r].kind = "delete_machine" /\ req[r].at = "done" =>
        \A t \in Token : token[t].bound /\ Committed(t) => <<"unbind", t>> \in Writes(r)

\* What was over when the request came is over, also what was stale.
OverStays(r) == \A c \in req[r].over : Over(c)
StaleStays(r) ==
    req[r].kind \in Guarded /\ req[r].stale => \E k \in req[r].csrf : Stale(k)

\* A request presents one CSRF token at most, and is let in by one session.
OneCsrf(r) == /\ IsFiniteSet(req[r].csrf)
              /\ req[r].kind \in Guarded => \A j, k \in req[r].csrf : j = k
OneSession(r) ==
    req[r].at = "inside" \/ (req[r].kind = "page" /\ req[r].at = "allowed") =>
        \E s \in Session : req[r].by = {s}

ByTheLiving(r) == req[r].by \intersect req[r].over = {}
OpensItsSession(r) ==
    req[r].kind \in Guarded /\ req[r].at \in {"allowed", "deleted", "done", "committed"} =>
        ~req[r].stale /\ \E k \in req[r].csrf : {k.of} = req[r].by

Sound(r) == /\ Revoking(r) /\ MachineWrites(r) /\ FindsMachine(r) /\ Unbinds(r)
            /\ OverStays(r) /\ StaleStays(r) /\ OneCsrf(r) /\ OneSession(r)
            /\ ByTheLiving(r) /\ OpensItsSession(r)

IInv == /\ TypeOK /\ Locks /\ Inserts /\ IsFiniteSet(pages) /\ ReferencesHold
        /\ \A r \in Request : Sound(r)

----------------------------------------------------------------------------
\* Types, with the requests' records under a name.
LEMMA Types ==
    TypeOK <=> /\ session \in [Session -> SessionRow]
               /\ token \in [Token -> TokenRow]
               /\ machine \in [here : BOOLEAN, attempts : BOOLEAN]
               /\ given \subseteq Credential /\ pages \subseteq Csrf
               /\ req \in [Request -> Served]
               /\ clock \in Time /\ count \in 0..MaxRequests /\ faults \in 0..MaxFaults
BY DEF TypeOK, Served

\* The same after a step, variable by variable.
LEMMA TypesNext ==
    ASSUME session' \in [Session -> SessionRow], token' \in [Token -> TokenRow],
           machine' \in [here : BOOLEAN, attempts : BOOLEAN],
           given' \subseteq Credential, pages' \subseteq Csrf,
           req' \in [Request -> Served],
           clock' \in Time, count' \in 0..MaxRequests, faults' \in 0..MaxFaults
    PROVE  TypeOK'
BY DEF TypeOK, Served

\* A request that has ended.
LEMMA IdleIsServed == Idle \in Served
BY DEF Idle, Served

\* Nothing is served at first.
LEMMA TypeInit == Init => TypeOK
<1> SUFFICES ASSUME Init
             PROVE  TypeOK
  OBVIOUS
<1>1. 0 \in Time /\ 0 \in 0..MaxRequests /\ 0 \in 0..MaxFaults
  BY AuthAssumption DEF Time
<1>2. session \in [Session -> SessionRow] /\ token \in [Token -> TokenRow]
  BY <1>1 DEF Init, SessionRow, TokenRow, Status
<1>3. req \in [Request -> Served]
  BY IdleIsServed DEF Init
<1> QED
  BY <1>1, <1>2, <1>3, Types DEF Init

\* A request as it arrives.
Arrived(x) ==
    /\ x \in Served /\ x.at = "entered" /\ x.kind # "none"
    /\ x.csrf \subseteq pages /\ Cardinality(x.csrf) <= 1
    /\ x.by = {} /\ x.wrote = {} /\ x.wants = {}
    /\ \A c \in x.over : Over(c)
    /\ x.stale => \E k \in x.csrf : Stale(k)

\* Whatever arrives is such a request.
LEMMA Arriving ==
    ASSUME TypeOK, NEW r \in Request, Arrive(r)
    PROVE  \E x \in Served : Arrived(x) /\ req' = [req EXCEPT ![r] = x]
<1>1. PICK kind \in Kind, cookie \in SUBSET (given \intersect Session),
           bearer \in SUBSET (given \intersect Token), csrf \in SUBSET pages,
           target \in SUBSET (given \intersect Token) :
        /\ Spare(kind)
        /\ Cardinality(cookie) <= 1 /\ Cardinality(bearer) <= 1 /\ Cardinality(csrf) <= 1
        /\ kind \in {"read", "direct"} \/ bearer = {}
        /\ kind = "read" => cookie \union bearer # {}
        /\ kind = "direct" => bearer # {}
        /\ (cookie = {}) = (kind \in {"login", "direct"}) \/ kind = "read"
        /\ kind \in Guarded \/ csrf = {}
        /\ Cardinality(target) = IF kind = "revoke_token" THEN 1 ELSE 0
        /\ req' = [req EXCEPT ![r] =
               [Idle EXCEPT !.kind = kind, !.at = "entered", !.cred = cookie \union bearer,
                            !.csrf = csrf, !.target = target,
                            !.over = {c \in cookie \union bearer : Over(c)},
                            !.stale = \E k \in csrf : Stale(k)]]
  BY Zenon DEF Arrive
<1>2. pages \subseteq Csrf /\ req \in [Request -> Served]
  BY Types
<1> DEFINE x == [Idle EXCEPT !.kind = kind, !.at = "entered", !.cred = cookie \union bearer,
                             !.csrf = csrf, !.target = target,
                             !.over = {c \in cookie \union bearer : Over(c)},
                             !.stale = \E k \in csrf : Stale(k)]
<1>3. x \in Served
  BY <1>2 DEF Served, Idle, Credential
<1>4. /\ x.at = "entered" /\ x.kind = kind /\ x.csrf = csrf
      /\ x.by = {} /\ x.wrote = {} /\ x.wants = {}
      /\ x.over = {c \in cookie \union bearer : Over(c)}
      /\ x.stale = \E k \in csrf : Stale(k)
  BY DEF Idle
<1>5. kind # "none"
  BY DEF Kind, Gated, Guarded
<1> HIDE DEF x
<1>6. Arrived(x)
  BY <1>1, <1>3, <1>4, <1>5 DEF Arrived
<1> QED
  BY <1>1, <1>3, <1>6 DEF x

\* Steps of request r, which leave the others alone.
LEMMA TypeServe ==
    ASSUME TypeOK, NEW r \in Request, OneSession(r), Serve(r)
    PROVE  TypeOK'
<1>1. /\ session \in [Session -> SessionRow] /\ token \in [Token -> TokenRow]
      /\ machine \in [here : BOOLEAN, attempts : BOOLEAN]
      /\ given \subseteq Credential /\ pages \subseteq Csrf
      /\ req \in [Request -> Served]
      /\ clock \in Time /\ count \in 0..MaxRequests /\ faults \in 0..MaxFaults
  BY Types
<1>2. req[r] \in Served
  BY <1>1
<1>3. ASSUME NEW x \in Served, req' = [req EXCEPT ![r] = x], UNCHANGED <<tables, clients, world>>
      PROVE  TypeOK'
  BY <1>1, <1>3, TypesNext DEF tables, clients, world
<1>4. Refuse(r) => TypeOK'
  BY <1>3, IdleIsServed DEF Refuse, Ends
<1>5. \A creds : Revokes(creds) = {<<"revoke", c>> : c \in {d \in creds : Committed(d)}}
  BY DEF Revokes
<1>6. \A creds \in SUBSET Credential : Revokes(creds) \subseteq Write
  BY <1>5 DEF Write
<1>7. CASE ValidateSession(r)
  BY <1>1, <1>2, <1>3, <1>7 DEF ValidateSession, Served, Credential
<1>8. CASE SessionInvalid(r)
  BY <1>2, <1>3, <1>4, <1>8 DEF SessionInvalid, Served, Goto
<1>9. CASE require_csrf(r)
  BY <1>2, <1>3, <1>4, <1>9 DEF require_csrf, Served, Goto
<1>10. CASE validate_api_token(r)
  BY <1>2, <1>3, <1>4, <1>10 DEF validate_api_token, Served, Credential, Write
<1>11. CASE Granted(r)
  BY <1>2, <1>3, <1>11 DEF Granted, Served
<1>12. CASE ReferenceFails(r) \/ DeadlockDetected(r) \/ LoginFails(r) \/ DirectFails(r)
  BY <1>4, <1>12 DEF ReferenceFails, DeadlockDetected, LoginFails, DirectFails
<1>13. CASE LoginRehash(r)
  <2>1. {<<"login", "users">>} \subseteq Write
    BY DEF Write
  <2> QED
    BY <1>2, <1>3, <1>13, <2>1 DEF LoginRehash, Ask, Served
<1>14. CASE LoginCreate(r)
  <2>1. PICK s \in Session :
           /\ session' = [session EXCEPT ![s] = NewSession]
           /\ req' = [req EXCEPT ![r].by = {s}, ![r].csrf = {[of |-> s, born |-> clock]},
                              ![r].wrote = @ \union {<<"insert", s>>},
                              ![r].wants = {<<"login", "users">>}, ![r].at = "done"]
    BY <1>14 DEF LoginCreate
  <2>2. session' \in [Session -> SessionRow]
    BY <1>1, <2>1 DEF NewSession, SessionRow, Status
  <2>3. [of |-> s, born |-> clock] \in Csrf /\ <<"insert", s>> \in Write /\ <<"login", "users">> \in Write
    BY <1>1 DEF Csrf, Write, Credential
  <2>4. req' \in [Request -> Served]
    <3>1. [req[r] EXCEPT !.by = {s}, !.csrf = {[of |-> s, born |-> clock]},
                         !.wrote = @ \union {<<"insert", s>>},
                         !.wants = {<<"login", "users">>}, !.at = "done"] \in Served
      BY <1>2, <2>3 DEF Served, Credential
    <3> QED
      BY <1>1, <2>1, <3>1
  <2> QED
    BY <1>1, <1>14, <2>2, <2>4, TypesNext DEF LoginCreate, clients, world
<1>15. CASE logout(r)
  BY <1>2, <1>3, <1>6, <1>15 DEF logout, Ask, Served
<1>16. CASE logout_post(r)
  BY <1>2, <1>3, <1>6, <1>16 DEF logout_post, Ask, Served
<1>17. CASE Page(r)
  <2>1. {[of |-> s, born |-> clock] : s \in {c \in req[r].by : ValidSession(c)}} \subseteq Csrf
    BY <1>1, <1>17 DEF Csrf, OneSession, Page, At
  <2> QED
    BY <1>2, <1>3, <1>17, <2>1 DEF Page, Served
<1>18. CASE Other(r) \/ DirectSent(r)
  BY <1>2, <1>3, <1>18 DEF Other, DirectSent, Goto, Served
<1>19. CASE create_token(r)
  <2>1. PICK t \in Token, bound \in BOOLEAN :
           /\ token' = [token EXCEPT ![t] = [status |-> "named", bound |-> bound]]
           /\ req' = [req EXCEPT ![r].target = {t}, ![r].at = "done",
                              ![r].wrote = @ \union {<<"insert", t>>},
                              ![r].wants = IF bound THEN {<<"refer", "machines">>} ELSE {}]
    BY <1>19 DEF create_token
  <2>2. token' \in [Token -> TokenRow]
    BY <1>1, <2>1 DEF TokenRow, Status
  <2>3. <<"insert", t>> \in Write /\ <<"refer", "machines">> \in Write
    BY DEF Write, Credential
  <2>4. req' \in [Request -> Served]
    <3>1. [req[r] EXCEPT !.target = {t}, !.at = "done", !.wrote = @ \union {<<"insert", t>>},
                         !.wants = IF bound THEN {<<"refer", "machines">>} ELSE {}] \in Served
      BY <1>2, <2>3 DEF Served
    <3> QED
      BY <1>1, <2>1, <3>1
  <2> QED
    BY <1>1, <1>19, <2>2, <2>4, TypesNext DEF create_token, clients, world
<1>20. CASE revoke_token(r)
  BY <1>2, <1>3, <1>6, <1>20 DEF revoke_token, Ask, Served, Credential
<1>21. CASE delete_machine(r)
  BY <1>2, <1>3, <1>4, <1>21 DEF delete_machine, Ask, Served, Write
<1>22. CASE TokensUnbound(r)
  <2>1. {<<"unbind", t>> : t \in {u \in Token : token[u].bound /\ Committed(u)}} \subseteq Write
    BY DEF Write
  <2> QED
    BY <1>2, <1>3, <1>22, <2>1 DEF TokensUnbound, Ask, Served
<1>23. CASE DirectAttempt(r)
  BY <1>2, <1>3, <1>4, <1>23 DEF DirectAttempt, Ask, Served, Write
<1>24. CASE Commit(r)
  <2>1. session' \in [Session -> SessionRow]
    BY <1>1, <1>24 DEF Commit, SessionRow, StatusAfter, Status
  <2>2. token' \in [Token -> TokenRow]
    BY <1>1, <1>24 DEF Commit, TokenRow, StatusAfter, Status
  <2>3. machine' \in [here : BOOLEAN, attempts : BOOLEAN]
    BY <1>1, <1>24 DEF Commit
  <2>4. req' \in [Request -> Served]
    <3>1. [req[r] EXCEPT !.at = "committed", !.wrote = {}] \in Served
      BY <1>2 DEF Served
    <3>2. \E x \in Served : req' = [req EXCEPT ![r] = x]
      BY <1>1, <1>24, <3>1, IdleIsServed DEF Commit, Ends
    <3> QED
      BY <1>1, <3>2
  <2> QED
    BY <1>1, <1>24, <2>1, <2>2, <2>3, <2>4, TypesNext DEF Commit, clients, world
<1>25. CASE Answer(r)
  <2>1. given' \subseteq Credential /\ pages' \subseteq Csrf
    BY <1>1, <1>2, <1>25 DEF Answer, Served, Credential
  <2>2. req' \in [Request -> Served]
    <3>1. [req[r] EXCEPT !.answered = TRUE] \in Served
      BY <1>2 DEF Served
    <3>2. \E x \in Served : req' = [req EXCEPT ![r] = x]
      BY <1>1, <1>25, <3>1, IdleIsServed DEF Answer, Ends
    <3> QED
      BY <1>1, <3>2
  <2> QED
    BY <1>1, <1>25, <2>1, <2>2, TypesNext DEF Answer, tables, world
<1> QED
  BY <1>7, <1>8, <1>9, <1>10, <1>11, <1>12, <1>13, <1>14, <1>15, <1>16, <1>17, <1>18, <1>19,
     <1>20, <1>21, <1>22, <1>23, <1>24, <1>25 DEF Serve

\* Any step keeps the types; a page needs to know its session for that.
LEMMA TypeStep == TypeOK /\ (\A r \in Request : OneSession(r)) /\ [Next]_vars => TypeOK'
<1> SUFFICES ASSUME TypeOK, \A r \in Request : OneSession(r), [Next]_vars
             PROVE  TypeOK'
  OBVIOUS
<1>1. /\ session \in [Session -> SessionRow] /\ token \in [Token -> TokenRow]
      /\ machine \in [here : BOOLEAN, attempts : BOOLEAN]
      /\ given \subseteq Credential /\ pages \subseteq Csrf
      /\ req \in [Request -> Served]
      /\ clock \in Time /\ count \in 0..MaxRequests /\ faults \in 0..MaxFaults
  BY Types
<1>2. CASE Tick
  <2>1. clock' \in Time
    BY <1>1, <1>2, AuthAssumption DEF Tick, Time
  <2> QED
    BY <1>1, <1>2, <2>1, TypesNext DEF Tick, tables, clients
<1>3. ASSUME NEW r \in Request, Arrive(r)
      PROVE  TypeOK'
  <2>2. req' \in [Request -> Served]
    BY <1>1, <1>3, Arriving
  <2>3. count' \in 0..MaxRequests
    BY <1>1, <1>3, AuthAssumption DEF Arrive
  <2> QED
    BY <1>1, <1>3, <2>2, <2>3, TypesNext DEF Arrive, tables, clients
<1>4. ASSUME NEW r \in Request, Fails(r)
      PROVE  TypeOK'
  <2>1. faults' \in 0..MaxFaults
    BY <1>1, <1>4, AuthAssumption DEF Fails
  <2>2. req' \in [Request -> Served]
    BY <1>1, <1>4, IdleIsServed DEF Fails, Ends
  <2> QED
    BY <1>1, <1>4, <2>1, <2>2, TypesNext DEF Fails, tables, clients
<1>5. CASE UNCHANGED vars
  BY <1>1, <1>5, TypesNext DEF vars
<1> QED
  BY <1>2, <1>3, <1>4, <1>5, TypeServe DEF Next


----------------------------------------------------------------------------
\* Steps that leave the tables alone.

\* It holds when nothing was ever requested.
LEMMA InvInit == Init => IInv
<1> SUFFICES ASSUME Init
             PROVE  IInv
  OBVIOUS
<1>1. \A r \in Request : req[r] = Idle
  BY DEF Init
<1>2. /\ Locks /\ Inserts
      /\ \A r \in Request : Revoking(r) /\ MachineWrites(r) /\ FindsMachine(r) /\ Unbinds(r)
  BY <1>1 DEF Locks, Inserts, Revoking, MachineWrites, FindsMachine, Unbinds, Writes, Idle
<1>3. \A r \in Request : OverStays(r) /\ StaleStays(r) /\ OneCsrf(r)
  BY <1>1, FS_EmptySet DEF OverStays, StaleStays, OneCsrf, Idle, Guarded
<1>4. \A r \in Request : OneSession(r) /\ ByTheLiving(r) /\ OpensItsSession(r)
  BY <1>1 DEF OneSession, ByTheLiving, OpensItsSession, Idle, Guarded
<1>5. ReferencesHold /\ IsFiniteSet(pages)
  BY FS_EmptySet DEF Init, ReferencesHold
<1> QED
  BY <1>2, <1>3, <1>4, <1>5, TypeInit DEF IInv, Sound

\* A request that is over, or has not begun, is sound.
LEMMA IdleIsSound ==
    ASSUME NEW r \in Request, req'[r] = Idle
    PROVE  Sound(r)' /\ req'[r].wrote = {}
<1>1. req'[r].wrote = {} /\ Revoking(r)' /\ MachineWrites(r)' /\ FindsMachine(r)' /\ Unbinds(r)'
  BY DEF Revoking, MachineWrites, FindsMachine, Unbinds, Writes, Idle
<1>2. OverStays(r)' /\ StaleStays(r)' /\ OneCsrf(r)'
  BY FS_EmptySet DEF OverStays, StaleStays, OneCsrf, Idle, Guarded
<1>3. OneSession(r)' /\ ByTheLiving(r)' /\ OpensItsSession(r)'
  BY DEF OneSession, ByTheLiving, OpensItsSession, Idle, Guarded
<1> QED
  BY <1>1, <1>2, <1>3 DEF Sound

\* Request q does not notice what another one does, unless it commits.
LEMMA OthersAreSound ==
    ASSUME NEW q \in Request, Sound(q), req'[q] = req[q], UNCHANGED <<tables, clock>>
    PROVE  Sound(q)'
<1>1. \A c : (Committed(c)' <=> Committed(c)) /\ (Over(c)' <=> Over(c))
  BY DEF tables, Committed, Over, Expired
<1>2. \A k : Stale(k)' <=> Stale(k)
  BY DEF Stale
<1>3. Revoking(q)' /\ MachineWrites(q)' /\ FindsMachine(q)' /\ Unbinds(q)'
  BY <1>1 DEF Sound, Revoking, MachineWrites, FindsMachine, Unbinds, Writes, tables
<1>4. OverStays(q)' /\ StaleStays(q)' /\ OneCsrf(q)'
  BY <1>1, <1>2 DEF Sound, OverStays, StaleStays, OneCsrf
<1>5. OneSession(q)' /\ ByTheLiving(q)' /\ OpensItsSession(q)'
  BY DEF Sound, OneSession, ByTheLiving, OpensItsSession
<1> QED
  BY <1>3, <1>4, <1>5 DEF Sound

\* Request r goes on without taking a lock, or lets go of all it has.
LEMMA Moves ==
    ASSUME IInv, TypeOK', NEW r \in Request,
           \A q \in Request : q # r => req'[q] = req[q],
           req'[r].wrote \subseteq req[r].wrote,
           UNCHANGED <<tables, clock>>, IsFiniteSet(pages)', Sound(r)'
    PROVE  IInv'
<1>1. \A q \in Request : req'[q].wrote \subseteq req[q].wrote
  OBVIOUS
<1>2. Locks'
  BY <1>1 DEF IInv, Locks
<1>3. Inserts'
  BY <1>1 DEF IInv, Inserts, Named, tables
<1>4. ReferencesHold'
  BY DEF IInv, ReferencesHold, Committed, tables
<1>5. \A q \in Request : Sound(q)'
  BY OthersAreSound DEF IInv
<1> QED
  BY <1>2, <1>3, <1>4, <1>5 DEF IInv

\* A request ends without a commit: nothing is left of it.
LEMMA Ending ==
    ASSUME IInv, TypeOK', NEW r \in Request, Ends(r), UNCHANGED <<tables, clock, pages>>
    PROVE  IInv'
<1>1. req'[r] = Idle /\ \A q \in Request : q # r => req'[q] = req[q]
  BY Types DEF IInv, Ends
<1>2. req'[r].wrote = {} /\ Sound(r)'
  BY <1>1, IdleIsSound
<1>3. IsFiniteSet(pages)'
  BY DEF IInv
<1> QED
  BY <1>1, <1>2, <1>3, Moves

\* In particular when the handler refuses.
LEMMA Refusing ==
    ASSUME IInv, TypeOK', NEW r \in Request, Refuse(r)
    PROVE  IInv'
BY Ending DEF Refuse, clients, world

\* Who may be let in is not over.
LEMMA LivingIsNotOver ==
    /\ \A s \in Session : ValidSession(s) => ~ Over(s)
    /\ \A t \in Token : ValidToken(t) => ~ Over(t)
BY AuthAssumption DEF ValidSession, ValidToken, Over

\* Of a request that keeps what it presented, only who let it in and what it writes can
\* change its soundness.
LEMMA StaysSound ==
    ASSUME NEW r \in Request, Sound(r), UNCHANGED <<tables, clock>>,
           req'[r].kind = req[r].kind, req'[r].csrf = req[r].csrf,
           req'[r].over = req[r].over, req'[r].stale = req[r].stale,
           Revoking(r)', MachineWrites(r)', FindsMachine(r)', Unbinds(r)',
           OneSession(r)', ByTheLiving(r)', OpensItsSession(r)'
    PROVE  Sound(r)'
<1>1. (\A c : Over(c)' <=> Over(c)) /\ (\A k : Stale(k)' <=> Stale(k))
  BY DEF tables, Committed, Over, Expired, Stale
<1>2. OverStays(r)' /\ StaleStays(r)' /\ OneCsrf(r)'
  BY <1>1 DEF Sound, OverStays, StaleStays, OneCsrf
<1> QED
  BY <1>2 DEF Sound

\* Steps towards the handler, and within it, that write nothing and wait for nothing.
LEMMA WritesNothing ==
    ASSUME NEW r \in Request, Sound(r), UNCHANGED tables,
           req'[r].kind = req[r].kind, req'[r].wrote = req[r].wrote, req'[r].wants = req[r].wants,
           req[r].kind = "delete_machine" => req'[r].at \notin {"deleted", "done"}
    PROVE  Revoking(r)' /\ MachineWrites(r)' /\ FindsMachine(r)' /\ Unbinds(r)'
<1>1. \A c : Committed(c)' <=> Committed(c)
  BY DEF tables, Committed
<1> QED
  BY <1>1 DEF Sound, Revoking, MachineWrites, FindsMachine, Unbinds, Writes, tables

\* Letting requests in.
LEMMA GateStep ==
    ASSUME IInv, TypeOK', NEW r \in Request,
           ValidateSession(r) \/ SessionInvalid(r) \/ require_csrf(r) \/ validate_api_token(r)
    PROVE  IInv'
<1>1. req \in [Request -> Served] /\ req[r] \in Served /\ Sound(r) /\ IsFiniteSet(pages)
  BY Types DEF IInv
<1>2. CASE Refuse(r)
  BY <1>2, Refusing
<1>3. ASSUME UNCHANGED <<tables, clients, world>>, NEW x, req' = [req EXCEPT ![r] = x],
             x.wrote = req[r].wrote, Sound(r)'
      PROVE  IInv'
  BY <1>1, <1>3, Moves DEF clients, world
<1>4. CASE ValidateSession(r)
  <2>1. PICK s \in req[r].cred \intersect Session :
            /\ ValidSession(s)
            /\ req' = [req EXCEPT ![r].by = {s},
                          ![r].at = IF req[r].kind \in Guarded THEN "inside" ELSE "allowed"]
    BY <1>4 DEF ValidateSession
  <2> DEFINE x == [req[r] EXCEPT !.by = {s},
                                 !.at = IF req[r].kind \in Guarded THEN "inside" ELSE "allowed"]
  <2>2. /\ req'[r] = x /\ req' = [req EXCEPT ![r] = x]
        /\ x.kind = req[r].kind /\ x.csrf = req[r].csrf /\ x.over = req[r].over
        /\ x.stale = req[r].stale /\ x.wrote = req[r].wrote /\ x.wants = req[r].wants
        /\ x.by = {s} /\ x.at = IF req[r].kind \in Guarded THEN "inside" ELSE "allowed"
    BY <1>1, <2>1 DEF Served
  <2> HIDE DEF x
  <2>3. UNCHANGED <<tables, clients, world>>
    BY <1>4 DEF ValidateSession
  <2>4. Revoking(r)' /\ MachineWrites(r)' /\ FindsMachine(r)' /\ Unbinds(r)'
    BY <1>1, <2>2, <2>3, WritesNothing
  <2>5. OneSession(r)' /\ OpensItsSession(r)'
    BY <2>1, <2>2 DEF OneSession, OpensItsSession
  <2>6. ByTheLiving(r)'
    BY <1>1, <2>1, <2>2, LivingIsNotOver DEF ByTheLiving, Sound, OverStays
  <2>7. Sound(r)'
    BY <1>1, <2>2, <2>3, <2>4, <2>5, <2>6, StaysSound DEF world
  <2> QED
    BY <1>3, <2>2, <2>3, <2>7
<1>5. CASE SessionInvalid(r)
  <2> SUFFICES ASSUME Goto(r, "bearer"), UNCHANGED <<tables, clients, world>>, req[r].kind = "read"
               PROVE  IInv'
    BY <1>2, <1>5 DEF SessionInvalid
  <2> DEFINE x == [req[r] EXCEPT !.at = "bearer"]
  <2>1. /\ req'[r] = x /\ req' = [req EXCEPT ![r] = x]
        /\ x.kind = req[r].kind /\ x.csrf = req[r].csrf /\ x.over = req[r].over
        /\ x.stale = req[r].stale /\ x.wrote = req[r].wrote /\ x.wants = req[r].wants
        /\ x.by = req[r].by /\ x.at = "bearer"
    BY <1>1 DEF Served, Goto
  <2> HIDE DEF x
  <2>2. Revoking(r)' /\ MachineWrites(r)' /\ FindsMachine(r)' /\ Unbinds(r)'
    BY <1>1, <2>1, WritesNothing
  <2>3. OneSession(r)' /\ OpensItsSession(r)' /\ ByTheLiving(r)'
    BY <1>1, <2>1 DEF OneSession, OpensItsSession, ByTheLiving, Sound
  <2>4. Sound(r)'
    BY <1>1, <2>1, <2>2, <2>3, StaysSound DEF world
  <2> QED
    BY <1>3, <2>1, <2>4
<1>6. CASE require_csrf(r)
  <2> SUFFICES ASSUME Goto(r, "allowed"), UNCHANGED <<tables, clients, world>>,
                      NEW k \in req[r].csrf, \A s \in req[r].by : ValidCsrf(k, s)
               PROVE  IInv'
    BY <1>2, <1>6 DEF require_csrf
  <2> DEFINE x == [req[r] EXCEPT !.at = "allowed"]
  <2>1. /\ req'[r] = x /\ req' = [req EXCEPT ![r] = x]
        /\ x.kind = req[r].kind /\ x.csrf = req[r].csrf /\ x.over = req[r].over
        /\ x.stale = req[r].stale /\ x.wrote = req[r].wrote /\ x.wants = req[r].wants
        /\ x.by = req[r].by /\ x.at = "allowed"
    BY <1>1 DEF Served, Goto
  <2> HIDE DEF x
  <2>2. Revoking(r)' /\ MachineWrites(r)' /\ FindsMachine(r)' /\ Unbinds(r)'
    BY <1>1, <2>1, WritesNothing
  <2>3. PICK s \in Session : req[r].by = {s}
    BY <1>1, <1>6 DEF Sound, OneSession, require_csrf
  <2>4. k.of = s /\ ~ Stale(k)
    BY <2>3 DEF ValidCsrf
  <2>5. req[r].kind \in Guarded => ~ req[r].stale
    BY <1>1, <2>4 DEF Sound, StaleStays, OneCsrf
  <2>6. OneSession(r)' /\ OpensItsSession(r)' /\ ByTheLiving(r)'
    BY <1>1, <2>1, <2>3, <2>4, <2>5 DEF OneSession, OpensItsSession, ByTheLiving, Sound
  <2>7. Sound(r)'
    BY <1>1, <2>1, <2>2, <2>6, StaysSound DEF world
  <2> QED
    BY <1>3, <2>1, <2>7
<1>7. CASE validate_api_token(r)
  <2>1. PICK t \in req[r].cred \intersect Token :
            \/ Refuse(r)
            \/ /\ ValidToken(t) /\ UNCHANGED <<tables, clients, world>>
               /\ req' = [req EXCEPT ![r].by = {t}, ![r].wants = {<<"touch", t>>},
                                     ![r].at = "allowed"]
    BY <1>7 DEF validate_api_token
  <2> SUFFICES ASSUME ValidToken(t), UNCHANGED <<tables, clients, world>>,
                      req' = [req EXCEPT ![r].by = {t}, ![r].wants = {<<"touch", t>>},
                                         ![r].at = "allowed"]
               PROVE  IInv'
    BY <1>2, <2>1
  <2> DEFINE x == [req[r] EXCEPT !.by = {t}, !.wants = {<<"touch", t>>}, !.at = "allowed"]
  <2>2. /\ req'[r] = x /\ req' = [req EXCEPT ![r] = x]
        /\ x.kind = req[r].kind /\ x.csrf = req[r].csrf /\ x.over = req[r].over
        /\ x.stale = req[r].stale /\ x.wrote = req[r].wrote /\ x.wants = {<<"touch", t>>}
        /\ x.by = {t} /\ x.at = "allowed"
    BY <1>1 DEF Served
  <2> HIDE DEF x
  <2>3. req[r].kind \in {"read", "direct"} /\ req[r].wants = {}
    BY <1>7 DEF validate_api_token, At
  <2>4. Revoking(r)' /\ MachineWrites(r)' /\ FindsMachine(r)' /\ Unbinds(r)'
    BY <1>1, <2>2, <2>3
       DEF Sound, Revoking, MachineWrites, FindsMachine, Unbinds, Writes, tables, Committed
  <2>5. OneSession(r)' /\ OpensItsSession(r)'
    BY <2>2, <2>3 DEF OneSession, OpensItsSession, Guarded
  <2>6. ByTheLiving(r)'
    BY <1>1, <2>1, <2>2, LivingIsNotOver DEF ByTheLiving, Sound, OverStays
  <2>7. Sound(r)'
    BY <1>1, <2>2, <2>4, <2>5, <2>6, StaysSound DEF world
  <2> QED
    BY <1>3, <2>2, <2>7
<1> QED
  BY <1>4, <1>5, <1>6, <1>7

\* Handlers that wait for rows, or for nothing: W is what request r is to write.
LEMMA Asks ==
    ASSUME IInv, TypeOK', NEW r \in Request, NEW W, NEW label,
           req' = [req EXCEPT ![r].wants = W, ![r].at = label],
           UNCHANGED <<tables, clients, world>>, req[r].wants = {},
           \A c \in Credential : /\ <<"revoke", c>> \in W => Committed(c)
                                 /\ <<"insert", c>> \notin W,
           <<"delete", "machines">> \in W => req[r].kind = "delete_machine",
           req[r].kind = "delete_machine" => 
               \/ label = "deleted" /\ <<"delete", "machines">> \in W
               \/ /\ label = "done" /\ req[r].at = "deleted"
                  /\ \A t \in Token : token[t].bound /\ Committed(t) => <<"unbind", t>> \in W,
           label # "inside", req[r].kind = "page" => label # "allowed",
           req[r].kind \in Guarded => req[r].at \in {"allowed", "deleted"}
    PROVE  IInv'
<1>1. req \in [Request -> Served] /\ req[r] \in Served /\ Sound(r) /\ IsFiniteSet(pages)
  BY Types DEF IInv
<1> DEFINE x == [req[r] EXCEPT !.wants = W, !.at = label]
<1>2. /\ req'[r] = x /\ req' = [req EXCEPT ![r] = x]
      /\ x.kind = req[r].kind /\ x.csrf = req[r].csrf /\ x.over = req[r].over
      /\ x.stale = req[r].stale /\ x.wrote = req[r].wrote /\ x.wants = W
      /\ x.by = req[r].by /\ x.at = label
  BY <1>1 DEF Served
<1> HIDE DEF x
<1>3. Revoking(r)' /\ FindsMachine(r)' /\ Unbinds(r)'
  BY <1>1, <1>2 DEF Sound, Revoking, FindsMachine, Unbinds, Writes, tables, Committed
<1>4. MachineWrites(r)'
  BY <1>1, <1>2 DEF Sound, MachineWrites, Writes, tables
<1>5. OneSession(r)' /\ OpensItsSession(r)' /\ ByTheLiving(r)'
  BY <1>1, <1>2 DEF OneSession, OpensItsSession, ByTheLiving, Sound
<1>6. Sound(r)'
  BY <1>1, <1>2, <1>3, <1>4, <1>5, StaysSound DEF world
<1> QED
  BY <1>1, <1>2, <1>6, Moves DEF clients, world

\* A handler that has nothing to wait for.
LEMMA GoesOn ==
    ASSUME IInv, TypeOK', NEW r \in Request, NEW label, Goto(r, label),
           UNCHANGED <<tables, clients, world>>, req[r].wants = {},
           req[r].kind \notin Guarded, label \notin {"inside", "allowed"}
    PROVE  IInv'
<1>1. req \in [Request -> Served] /\ req[r] \in Served
  BY Types DEF IInv
<1>2. [req[r] EXCEPT !.at = label] = [req[r] EXCEPT !.wants = {}, !.at = label]
  BY <1>1 DEF Served
<1>3. req' = [req EXCEPT ![r].wants = {}, ![r].at = label]
  BY <1>1, <1>2 DEF Goto
<1> QED
  BY <1>3, Asks DEF Guarded

\* A page opens with a CSRF token of its session, or with none.
LEMMA PageStep ==
    ASSUME IInv, TypeOK', NEW r \in Request, Page(r)
    PROVE  IInv'
<1>1. req \in [Request -> Served] /\ req[r] \in Served /\ Sound(r) /\ IsFiniteSet(pages)
  BY Types DEF IInv
<1>2. req[r].kind = "page" /\ req[r].at = "allowed" /\ req[r].wants = {}
      /\ UNCHANGED <<tables, clients, world>>
  BY DEF Page, At
<1> DEFINE K == {[of |-> s, born |-> clock] : s \in {c \in req[r].by : ValidSession(c)}}
<1>3. req' = [req EXCEPT ![r].at = "done", ![r].csrf = K]
  BY DEF Page
<1>4. IsFiniteSet(K)
  <2>1. PICK s \in Session : req[r].by = {s}
    BY <1>1, <1>2 DEF Sound, OneSession
  <2>2. K \subseteq {[of |-> s, born |-> clock]}
    BY <2>1
  <2>3. IsFiniteSet({[of |-> s, born |-> clock]})
    BY FS_Singleton
  <2> HIDE DEF K
  <2> QED
    BY <2>2, <2>3, FS_Subset
<1> HIDE DEF K
<1> DEFINE x == [req[r] EXCEPT !.at = "done", !.csrf = K]
<1>5. /\ req'[r] = x /\ req' = [req EXCEPT ![r] = x]
      /\ x.kind = "page" /\ x.csrf = K /\ x.over = req[r].over
      /\ x.stale = req[r].stale /\ x.wrote = req[r].wrote /\ x.wants = req[r].wants
      /\ x.by = req[r].by /\ x.at = "done"
  BY <1>1, <1>2, <1>3 DEF Served
<1> HIDE DEF x
<1>6. Revoking(r)' /\ MachineWrites(r)' /\ FindsMachine(r)' /\ Unbinds(r)'
  BY <1>1, <1>2, <1>5, WritesNothing
<1>7. OneSession(r)' /\ OpensItsSession(r)' /\ ByTheLiving(r)'
  BY <1>1, <1>5 DEF OneSession, OpensItsSession, ByTheLiving, Sound, Guarded
<1>8. OverStays(r)' /\ StaleStays(r)' /\ OneCsrf(r)'
  BY <1>1, <1>2, <1>4, <1>5
     DEF Sound, OverStays, StaleStays, OneCsrf, Guarded, Over, Committed, Expired, tables, world
<1>9. Sound(r)'
  BY <1>6, <1>7, <1>8 DEF Sound
<1> QED
  BY <1>1, <1>2, <1>5, <1>9, Moves DEF clients, world

\* The handlers, but for those that insert a row.
LEMMA HandlerStep ==
    ASSUME IInv, TypeOK', NEW r \in Request,
           \/ LoginRehash(r) \/ logout(r) \/ logout_post(r) \/ Other(r) \/ revoke_token(r)
           \/ delete_machine(r) \/ TokensUnbound(r) \/ DirectAttempt(r) \/ DirectSent(r)
    PROVE  IInv'
<1>1. \A creds : \A c : /\ <<"revoke", c>> \in Revokes(creds) => Committed(c)
                        /\ <<"insert", c>> \notin Revokes(creds)
                        /\ <<"delete", c>> \notin Revokes(creds)
  BY DEF Revokes
<1>2. CASE LoginRehash(r)
  <2> DEFINE W == {<<"login", "users">>}
  <2>1. \A c : <<"revoke", c>> \notin W /\ <<"insert", c>> \notin W
    OBVIOUS
  <2>2. <<"delete", "machines">> \notin W
    OBVIOUS
  <2>3. Ask(r, W, "rehashed") /\ At(r, "login", "entered") /\ UNCHANGED <<tables, clients, world>>
    BY <1>2 DEF LoginRehash
  <2> HIDE DEF W
  <2> QED
    BY <2>1, <2>2, <2>3, Asks DEF At, Ask, Guarded
<1>3. CASE logout(r)
  BY <1>1, <1>3, Asks DEF logout, At, Ask, Guarded
<1>4. CASE logout_post(r)
  BY <1>1, <1>4, Asks DEF logout_post, At, Ask, Guarded
<1>5. CASE revoke_token(r)
  BY <1>1, <1>5, Asks DEF revoke_token, At, Ask, Guarded
<1>6. CASE Other(r) \/ DirectSent(r)
  BY <1>6, GoesOn DEF Other, DirectSent, At, Guarded
<1>7. CASE delete_machine(r)
  <2>1. CASE Refuse(r)
    BY <2>1, Refusing
  <2>2. CASE Ask(r, {<<"delete", "machines">>}, "deleted") /\ UNCHANGED <<tables, clients, world>>
    <3> DEFINE W == {<<"delete", "machines">>}
    <3>1. /\ \A c : <<"revoke", c>> \notin W /\ <<"insert", c>> \notin W
          /\ <<"delete", "machines">> \in W
      OBVIOUS
    <3>2. Ask(r, W, "deleted") /\ At(r, "delete_machine", "allowed")
      BY <1>7, <2>2 DEF delete_machine
    <3> HIDE DEF W
    <3> QED
      BY <2>2, <3>1, <3>2, Asks DEF At, Ask
  <2> QED
    BY <1>7, <2>1, <2>2 DEF delete_machine
<1>8. CASE TokensUnbound(r)
  <2> DEFINE W == {<<"unbind", t>> : t \in {u \in Token : token[u].bound /\ Committed(u)}}
  <2>1. /\ \A c : <<"revoke", c>> \notin W /\ <<"insert", c>> \notin W
        /\ <<"delete", "machines">> \notin W
        /\ \A t \in Token : token[t].bound /\ Committed(t) => <<"unbind", t>> \in W
    OBVIOUS
  <2>2. Ask(r, W, "done") /\ At(r, "delete_machine", "deleted") /\ UNCHANGED <<tables, clients, world>>
    BY <1>8 DEF TokensUnbound
  <2> HIDE DEF W
  <2> QED
    BY <2>1, <2>2, Asks DEF At, Ask
<1>9. CASE DirectAttempt(r)
  <2>1. CASE Refuse(r)
    BY <2>1, Refusing
  <2>2. CASE Ask(r, {<<"attempt", "machines">>}, "sending") /\ UNCHANGED <<tables, clients, world>>
    <3> DEFINE W == {<<"attempt", "machines">>}
    <3>1. /\ \A c : <<"revoke", c>> \notin W /\ <<"insert", c>> \notin W
          /\ <<"delete", "machines">> \notin W
      OBVIOUS
    <3>2. Ask(r, W, "sending") /\ At(r, "direct", "allowed")
      BY <1>9, <2>2 DEF DirectAttempt
    <3> HIDE DEF W
    <3> QED
      BY <2>2, <3>1, <3>2, Asks DEF At, Ask, Guarded
  <2> QED
    BY <1>9, <2>1, <2>2 DEF DirectAttempt
<1> QED
  BY <1>2, <1>3, <1>4, <1>5, <1>6, <1>7, <1>8, <1>9

\* The rows are locked: nobody holds one that is in their way.
LEMMA GrantStep ==
    ASSUME IInv, TypeOK', NEW r \in Request, Granted(r)
    PROVE  IInv'
<1>1. req \in [Request -> Served] /\ req[r] \in Served /\ Sound(r) /\ IsFiniteSet(pages)
  BY Types DEF IInv
<1> DEFINE x == [req[r] EXCEPT !.wrote = @ \union req[r].wants, !.wants = {}]
<1>2. /\ req'[r] = x /\ req' = [req EXCEPT ![r] = x]
      /\ x.kind = req[r].kind /\ x.csrf = req[r].csrf /\ x.over = req[r].over
      /\ x.stale = req[r].stale /\ x.wrote = Writes(r) /\ x.wants = {}
      /\ x.by = req[r].by /\ x.at = req[r].at
  BY <1>1 DEF Served, Granted, Writes
<1> HIDE DEF x
<1>3. UNCHANGED <<tables, clients, world>> /\ \A q \in Request : q # r => req'[q] = req[q]
  BY <1>1, <1>2 DEF Granted
<1>4. Revoking(r)' /\ MachineWrites(r)' /\ Unbinds(r)'
  <2>1. Writes(r)' = Writes(r) /\ \A c : Committed(c)' <=> Committed(c)
    BY <1>2, <1>3 DEF Writes, tables, Committed
  <2>2. \A c \in Credential : <<"insert", c>> \in req'[r].wrote => <<"insert", c>> \in req[r].wrote
    BY <1>1, <1>2 DEF Sound, Revoking, Writes
  <2>3. req[r].wrote \subseteq req'[r].wrote
    BY <1>2 DEF Writes
  <2>4. Revoking(r)'
    BY <1>1, <1>2, <2>1 DEF Sound, Revoking
  <2>5. MachineWrites(r)'
    BY <1>1, <1>2, <1>3, <2>1, <2>2, <2>3 DEF Sound, MachineWrites, tables, Credential
  <2>6. Unbinds(r)'
    BY <1>1, <1>2, <1>3, <2>1 DEF Sound, Unbinds, tables
  <2> QED
    BY <2>4, <2>5, <2>6
<1>5. FindsMachine(r)'
  BY <1>1, <1>2, <1>3 DEF Sound, FindsMachine, Writes, tables, Granted, Refers, Shares
<1>6. OneSession(r)' /\ OpensItsSession(r)' /\ ByTheLiving(r)'
  BY <1>1, <1>2 DEF OneSession, OpensItsSession, ByTheLiving, Sound
<1>7. Sound(r)'
  BY <1>1, <1>2, <1>3, <1>4, <1>5, <1>6, StaysSound DEF world
<1>8. \A q \in Request : q # r => Sound(q)'
  BY <1>3, OthersAreSound DEF IInv, world
<1>9. Locks'
  <2>1. \A q \in Request : q # r => \A w \in req[r].wants, v \in req[q].wrote : ~ Clash(w, v)
    BY DEF Granted, Free, WaitsFor
  <2>2. \A v, w : Clash(v, w) <=> Clash(w, v)
    BY DEF Clash
  <2>3. \A q \in Request : q # r => \A w \in Writes(r), v \in req[q].wrote : ~ Clash(w, v)
    BY <2>1 DEF IInv, Locks, Writes
  <2> QED
    BY <1>2, <1>3, <2>2, <2>3 DEF IInv, Locks
<1>10. Inserts'
  <2>1. \A q \in Request, c \in Credential :
            <<"insert", c>> \in req'[q].wrote => <<"insert", c>> \in req[q].wrote
    BY <1>1, <1>2, <1>3 DEF Sound, Revoking, Writes
  <2> QED
    BY <1>3, <2>1 DEF IInv, Inserts, Named, tables
<1>11. ReferencesHold' /\ IsFiniteSet(pages)'
  BY <1>1, <1>3 DEF IInv, ReferencesHold, Committed, tables, clients
<1> QED
  BY <1>7, <1>8, <1>9, <1>10, <1>11 DEF IInv

----------------------------------------------------------------------------
\* Steps that change the tables.

\* Request q does not notice that rows were inserted, or that another request has
\* committed: what is there stays there, and what is over stays over.
LEMMA OthersStaySound ==
    ASSUME NEW q \in Request, Sound(q), req[q] \in Served, req'[q] = req[q],
           \A c \in Credential : (Committed(c) => Committed(c)') /\ (Over(c) => Over(c)'),
           \A k \in Csrf : Stale(k) => Stale(k)',
           \A t \in Token : <<"insert", t>> \in req[q].wrote /\ token'[t].bound => token[t].bound,
           FindsMachine(q)', Unbinds(q)'
    PROVE  Sound(q)'
<1>1. req[q].over \subseteq Credential /\ req[q].csrf \subseteq Csrf
  BY DEF Served
<1>2. Revoking(q)'
  BY DEF Sound, Revoking, Writes
<1>3. MachineWrites(q)'
  BY DEF Sound, MachineWrites, Writes
<1>4. OverStays(q)' /\ StaleStays(q)' /\ OneCsrf(q)'
  BY <1>1 DEF Sound, OverStays, StaleStays, OneCsrf
<1>5. OneSession(q)' /\ ByTheLiving(q)' /\ OpensItsSession(q)'
  BY DEF Sound, OneSession, ByTheLiving, OpensItsSession
<1> QED
  BY <1>2, <1>3, <1>4, <1>5 DEF Sound

\* A row that is only named makes no difference to the others.
LEMMA NamedIsNothing ==
    ASSUME IInv, NEW c \in Credential, \A d \in Credential : d # c => (Named(d)' <=> Named(d)),
           ~ Named(c), NEW r \in Request, Named(c)',
           \A q \in Request : q # r => req'[q] = req[q],
           req'[r].wrote = req[r].wrote \union {<<"insert", c>>}
    PROVE  Locks' /\ Inserts'
<1>1. \A v : \A w : w = <<"insert", c>> => ~ Clash(v, w) /\ ~ Clash(w, v)
  BY DEF Clash
<1>2. Locks'
  BY <1>1 DEF IInv, Locks
<1>3. \A q \in Request : <<"insert", c>> \notin req[q].wrote
  BY DEF IInv, Inserts
<1>4. \A d \in Credential : \A q \in Request :
          <<"insert", d>> \in req'[q].wrote <=> (d = c /\ q = r) \/ <<"insert", d>> \in req[q].wrote
  OBVIOUS
<1>5. Inserts'
  BY <1>3, <1>4 DEF IInv, Inserts
<1> QED
  BY <1>2, <1>5

\* A browser logs in.
LEMMA LoginStep ==
    ASSUME IInv, TypeOK', NEW r \in Request, LoginCreate(r)
    PROVE  IInv' /\ \A c \in Credential : Over(c) => Over(c)'
<1>1. /\ req \in [Request -> Served] /\ req[r] \in Served /\ Sound(r) /\ IsFiniteSet(pages)
      /\ session \in [Session -> SessionRow]
  BY Types DEF IInv
<1>2. PICK s \in Session :
          /\ session[s].status = "unused"
          /\ session' = [session EXCEPT ![s] = NewSession]
          /\ req' = [req EXCEPT ![r].by = {s}, ![r].csrf = {[of |-> s, born |-> clock]},
                                ![r].wrote = @ \union {<<"insert", s>>},
                                ![r].wants = {<<"login", "users">>}, ![r].at = "done"]
  BY DEF LoginCreate
<1>3. /\ UNCHANGED <<token, machine, clock, pages>> /\ req[r].kind = "login" /\ req[r].wants = {}
      /\ session'[s].status = "named" /\ \A z \in Session : z # s => session'[z] = session[z]
  BY <1>1, <1>2 DEF LoginCreate, At, NewSession, clients, world
<1> DEFINE x == [req[r] EXCEPT !.by = {s}, !.csrf = {[of |-> s, born |-> clock]},
                               !.wrote = @ \union {<<"insert", s>>},
                               !.wants = {<<"login", "users">>}, !.at = "done"]
<1>4. /\ req'[r] = x /\ \A q \in Request : q # r => req'[q] = req[q]
      /\ x.kind = "login" /\ x.csrf = {[of |-> s, born |-> clock]} /\ x.over = req[r].over
      /\ x.stale = req[r].stale /\ x.wrote = req[r].wrote \union {<<"insert", s>>}
      /\ x.wants = {<<"login", "users">>} /\ x.by = {s} /\ x.at = "done"
  BY <1>1, <1>2, <1>3 DEF Served
<1> HIDE DEF x
<1>5. \A c \in Credential : /\ Committed(c)' <=> Committed(c)
                            /\ Over(c)' <=> Over(c)
                            /\ c # s => (Named(c)' <=> Named(c))
  BY <1>2, <1>3 DEF Committed, Over, Expired, Named
<1>6. s \in Credential /\ ~ Named(s) /\ Named(s)' /\ ~ Over(s)
  BY <1>2, <1>3 DEF Credential, Named, Over, Committed
<1>7. Locks' /\ Inserts'
  BY <1>4, <1>5, <1>6, NamedIsNothing
<1>8. \A t \in Token : t \in Credential
  BY DEF Credential
<1>9. \A q \in Request : q # r => Sound(q)'
  <2> SUFFICES ASSUME NEW q \in Request, q # r
               PROVE  Sound(q)'
    OBVIOUS
  <2>1. Sound(q) /\ req[q] \in Served /\ req'[q] = req[q]
    BY <1>1, <1>4 DEF IInv
  <2>2. FindsMachine(q)' /\ Unbinds(q)'
    BY <1>3, <1>5, <1>8, <2>1 DEF Sound, FindsMachine, Unbinds, Writes
  <2> QED
    BY <1>3, <1>5, <2>1, <2>2, OthersStaySound DEF Stale
<1>10. Sound(r)'
  <2>1. req[r].over \subseteq Credential
    BY <1>1 DEF Served
  <2>2. \A c : <<"revoke", c>> \in Writes(r)' => <<"revoke", c>> \in Writes(r)
    BY <1>4 DEF Writes
  <2>3. Revoking(r)'
    <3>1. \A c : <<"insert", c>> \notin req'[r].wants
      BY <1>4
    <3> QED
      BY <1>1, <1>5, <2>2, <3>1 DEF Sound, Revoking
  <2>4. \A t \in Token : <<"insert", t>> \notin req'[r].wrote
    <3>1. \A t \in Token : t # s /\ <<"insert", t>> \notin req[r].wrote
      BY <1>1, <1>3, AuthAssumption DEF Sound, MachineWrites
    <3>2. \A t : t # s /\ <<"insert", t>> \in req'[r].wrote => <<"insert", t>> \in req[r].wrote
      BY <1>4
    <3> QED
      BY <3>1, <3>2
  <2>5. <<"delete", "machines">> \notin Writes(r)'
    BY <1>1, <1>3, <1>4 DEF Sound, MachineWrites, Writes
  <2>6. MachineWrites(r)' /\ Unbinds(r)'
    BY <1>4, <2>4, <2>5 DEF MachineWrites, Unbinds
  <2>7. FindsMachine(r)'
    BY <1>1, <1>3, <1>4 DEF Sound, FindsMachine
  <2>8. OverStays(r)' /\ ByTheLiving(r)'
    BY <1>1, <1>4, <1>5, <1>6, <2>1 DEF Sound, OverStays, ByTheLiving
  <2>9. StaleStays(r)' /\ OneSession(r)' /\ OpensItsSession(r)'
    BY <1>4 DEF StaleStays, OneSession, OpensItsSession, Guarded
  <2>10. OneCsrf(r)'
    <3>1. IsFiniteSet({[of |-> s, born |-> clock]})
      BY FS_Singleton
    <3> QED
      BY <1>4, <3>1 DEF OneCsrf, Guarded
  <2> QED
    BY <2>3, <2>6, <2>7, <2>8, <2>9, <2>10 DEF Sound
<1>11. ReferencesHold' /\ IsFiniteSet(pages)'
  BY <1>1, <1>3, <1>5, <1>8 DEF IInv, ReferencesHold
<1> QED
  BY <1>5, <1>7, <1>9, <1>10, <1>11 DEF IInv

\* A token is created.
LEMMA TokenStep ==
    ASSUME IInv, TypeOK', NEW r \in Request, create_token(r)
    PROVE  IInv' /\ \A c \in Credential : Over(c) => Over(c)'
<1>1. /\ req \in [Request -> Served] /\ req[r] \in Served /\ Sound(r) /\ IsFiniteSet(pages)
      /\ token \in [Token -> TokenRow]
  BY Types DEF IInv
<1>2. PICK t \in Token, bound \in BOOLEAN :
          /\ token[t].status = "unused"
          /\ token' = [token EXCEPT ![t] = [status |-> "named", bound |-> bound]]
          /\ req' = [req EXCEPT ![r].target = {t}, ![r].at = "done",
                                ![r].wrote = @ \union {<<"insert", t>>},
                                ![r].wants = IF bound THEN {<<"refer", "machines">>} ELSE {}]
  BY DEF create_token
<1> DEFINE W == IF bound THEN {<<"refer", "machines">>} ELSE {}
<1>3. /\ UNCHANGED <<session, machine, clock, pages>>
      /\ req[r].kind = "create_token" /\ req[r].at = "allowed" /\ req[r].wants = {}
      /\ token'[t].status = "named" /\ token'[t].bound = bound
      /\ \A z \in Token : z # t => token'[z] = token[z]
  BY <1>1, <1>2 DEF create_token, At, clients, world
<1>4. /\ (bound => <<"refer", "machines">> \in W)
      /\ \A c : /\ <<"revoke", c>> \notin W
                /\ <<"insert", c>> \notin W
      /\ <<"delete", "machines">> \notin W
  OBVIOUS
<1> HIDE DEF W
<1> DEFINE x == [req[r] EXCEPT !.target = {t}, !.at = "done", !.wrote = @ \union {<<"insert", t>>},
                               !.wants = W]
<1>5. /\ req'[r] = x /\ \A q \in Request : q # r => req'[q] = req[q]
      /\ x.kind = "create_token" /\ x.csrf = req[r].csrf /\ x.over = req[r].over
      /\ x.stale = req[r].stale /\ x.wrote = req[r].wrote \union {<<"insert", t>>}
      /\ x.wants = W /\ x.by = req[r].by /\ x.at = "done"
  BY <1>1, <1>2, <1>3 DEF Served, W
<1> HIDE DEF x
<1>6. t \notin Session /\ \A z \in Token : z \in Credential /\ z \notin Session
  BY AuthAssumption DEF Credential
<1>7. \A c \in Credential : /\ Committed(c)' <=> Committed(c)
                            /\ Over(c)' <=> Over(c)
                            /\ c # t => (Named(c)' <=> Named(c))
  BY <1>2, <1>3, <1>6 DEF Committed, Over, Expired, Named, Credential
<1>8. ~ Named(t) /\ Named(t)' /\ ~ Committed(t)'
  BY <1>2, <1>3, <1>6 DEF Named, Committed
<1>9. Locks' /\ Inserts'
  BY <1>5, <1>6, <1>7, <1>8, NamedIsNothing
<1>10. \A q \in Request : <<"insert", t>> \notin req[q].wrote
  BY <1>6, <1>8 DEF IInv, Inserts
<1>11. \A z \in Token : Committed(z)' => z # t /\ Committed(z)
  BY <1>6, <1>7, <1>8
<1>12. \A q \in Request : q # r => Sound(q)'
  <2> SUFFICES ASSUME NEW q \in Request, q # r
               PROVE  Sound(q)'
    OBVIOUS
  <2>1. Sound(q) /\ req[q] \in Served /\ req'[q] = req[q]
    BY <1>1, <1>5 DEF IInv
  <2>2. FindsMachine(q)' /\ Unbinds(q)'
    BY <1>3, <1>11, <2>1 DEF Sound, FindsMachine, Unbinds, Writes
  <2>3. \A z \in Token : <<"insert", z>> \in req[q].wrote /\ token'[z].bound => token[z].bound
    BY <1>3, <1>10
  <2> QED
    BY <1>3, <1>7, <2>1, <2>2, <2>3, OthersStaySound DEF Stale
<1>13. Sound(r)'
  <2>1. req[r].over \subseteq Credential
    BY <1>1 DEF Served
  <2>2. \A c : <<"revoke", c>> \in Writes(r)' => <<"revoke", c>> \in Writes(r)
    <3>1. \A c : <<"revoke", c>> # <<"insert", t>>
      OBVIOUS
    <3> QED
      BY <1>4, <1>5, <3>1 DEF Writes
  <2>3. Revoking(r)'
    BY <1>1, <1>4, <1>5, <1>7, <2>2 DEF Sound, Revoking
  <2>4. <<"delete", "machines">> \notin Writes(r)'
    BY <1>1, <1>3, <1>4, <1>5 DEF Sound, MachineWrites, Writes
  <2>5. \A z \in Token : <<"insert", z>> \in req'[r].wrote /\ token'[z].bound =>
            <<"refer", "machines">> \in Writes(r)'
    <3>1. \A z \in Token : z = t \/ (<<"insert", z>> \in req'[r].wrote => <<"insert", z>> \in req[r].wrote)
      BY <1>5
    <3>2. <<"refer", "machines">> \in Writes(r) => <<"refer", "machines">> \in Writes(r)'
      BY <1>3, <1>5 DEF Writes
    <3> QED
      BY <1>1, <1>3, <1>4, <1>5, <3>1, <3>2 DEF Sound, MachineWrites, Writes
  <2>6. MachineWrites(r)' /\ Unbinds(r)'
    BY <1>5, <2>4, <2>5 DEF MachineWrites, Unbinds
  <2>7. FindsMachine(r)'
    BY <1>1, <1>3, <1>5 DEF Sound, FindsMachine
  <2>8. OverStays(r)' /\ ByTheLiving(r)'
    BY <1>1, <1>5, <1>7, <2>1 DEF Sound, OverStays, ByTheLiving
  <2>9. StaleStays(r)' /\ OneCsrf(r)'
    BY <1>1, <1>3, <1>5 DEF Sound, StaleStays, OneCsrf, Stale
  <2>10. OneSession(r)' /\ OpensItsSession(r)'
    BY <1>1, <1>3, <1>5 DEF Sound, OneSession, OpensItsSession, Guarded
  <2> QED
    BY <2>3, <2>6, <2>7, <2>8, <2>9, <2>10 DEF Sound
<1>14. ReferencesHold' /\ IsFiniteSet(pages)'
  BY <1>1, <1>3, <1>11 DEF IInv, ReferencesHold
<1> QED
  BY <1>7, <1>9, <1>12, <1>13, <1>14 DEF IInv

\* A request commits what it has written.
LEMMA CommitStep ==
    ASSUME IInv, TypeOK', NEW r \in Request, Commit(r)
    PROVE  IInv' /\ \A c \in Credential : Over(c) => Over(c)'
<1> DEFINE wrote == req[r].wrote
<1>1. /\ req \in [Request -> Served] /\ req[r] \in Served /\ Sound(r) /\ IsFiniteSet(pages)
      /\ session \in [Session -> SessionRow] /\ token \in [Token -> TokenRow]
      /\ machine \in [here : BOOLEAN, attempts : BOOLEAN]
  BY Types DEF IInv
<1>2. /\ req[r].at = "done" /\ req[r].wants = {} /\ Writes(r) = wrote
      /\ UNCHANGED <<clock, pages>>
  BY DEF Commit, Writes, clients, world
<1>3. /\ \A s \in Session : /\ session'[s].status = StatusAfter(session[s].status, s, wrote)
                            /\ session'[s].born = session[s].born
      /\ \A t \in Token : /\ token'[t].status = StatusAfter(token[t].status, t, wrote)
                          /\ token'[t].bound = (token[t].bound /\ <<"unbind", t>> \notin wrote)
  BY <1>1 DEF Commit, SessionRow
<1>4. /\ machine'.here = (machine.here /\ ~ Deletes(wrote))
      /\ machine'.attempts =
             (~ Deletes(wrote) /\ (machine.attempts \/ <<"attempt", "machines">> \in wrote))
  BY DEF Commit
<1>5. \A c \in Credential : /\ <<"insert", c>> \in wrote => Named(c)
                            /\ <<"revoke", c>> \in wrote => Committed(c)
                            /\ ~ (Named(c) /\ Committed(c))
  BY <1>1, <1>2 DEF IInv, Inserts, Sound, Revoking, Named, Committed
<1>6. \A t \in Token : t \in Credential /\ t \notin Session
  BY AuthAssumption DEF Credential
<1>7. \A c \in Credential : c \in Session \/ c \in Token
  BY DEF Credential
<1>8. \A c \in Credential : /\ Committed(c) => Committed(c)'
                            /\ Over(c) => Over(c)'
                            /\ Committed(c)' => Committed(c) \/ <<"insert", c>> \in wrote
  <2> SUFFICES ASSUME NEW c \in Credential
               PROVE  /\ Committed(c) => Committed(c)'
                      /\ Over(c) => Over(c)'
                      /\ Committed(c)' => Committed(c) \/ <<"insert", c>> \in wrote
    OBVIOUS
  <2>1. CASE c \in Session
    BY <1>2, <1>3, <1>5, <2>1 DEF Committed, Over, Expired, Named, StatusAfter
  <2>2. CASE c \notin Session
    BY <1>3, <1>5, <1>7, <2>2 DEF Committed, Over, Named, StatusAfter
  <2> QED
    BY <2>1, <2>2
<1>9. \A c \in Credential : Named(c) /\ <<"insert", c>> \notin wrote => Named(c)'
  <2> SUFFICES ASSUME NEW c \in Credential, Named(c), <<"insert", c>> \notin wrote
               PROVE  Named(c)'
    OBVIOUS
  <2>1. <<"revoke", c>> \notin wrote
    BY <1>5
  <2> QED
    BY <1>3, <1>7, <2>1 DEF Named, StatusAfter
<1>10. \A q \in Request : q # r => req'[q] = req[q]
  BY <1>1 DEF Commit, Ends
<1>11. \/ req'[r] = Idle
       \/ req'[r] = [req[r] EXCEPT !.at = "committed", !.wrote = {}]
  BY <1>1 DEF Commit, Ends
<1>12. req'[r].wrote = {} /\ Sound(r)'
  <2>1. CASE req'[r] = Idle
    BY <2>1, IdleIsSound
  <2>2. CASE req'[r] = [req[r] EXCEPT !.at = "committed", !.wrote = {}]
    <3>1. /\ req'[r].kind = req[r].kind /\ req'[r].csrf = req[r].csrf
          /\ req'[r].over = req[r].over /\ req'[r].stale = req[r].stale
          /\ req'[r].by = req[r].by /\ req'[r].at = "committed"
          /\ req'[r].wrote = {} /\ req'[r].wants = {}
      BY <1>1, <1>2, <2>2 DEF Served
    <3>2. Revoking(r)' /\ MachineWrites(r)' /\ FindsMachine(r)' /\ Unbinds(r)'
      BY <3>1 DEF Revoking, MachineWrites, FindsMachine, Unbinds, Writes
    <3>3. req[r].over \subseteq Credential
      BY <1>1 DEF Served
    <3>4. OverStays(r)' /\ StaleStays(r)' /\ OneCsrf(r)'
      BY <1>1, <1>2, <1>8, <3>1, <3>3 DEF Sound, OverStays, StaleStays, OneCsrf, Stale
    <3>5. OneSession(r)' /\ ByTheLiving(r)' /\ OpensItsSession(r)'
      BY <1>1, <1>2, <3>1 DEF Sound, OneSession, ByTheLiving, OpensItsSession
    <3> QED
      BY <3>1, <3>2, <3>4, <3>5 DEF Sound
  <2> QED
    BY <1>11, <2>1, <2>2
<1>13. /\ <<"delete", "machines">> \in wrote => req[r].kind = "delete_machine"
       /\ \A t \in Token : <<"insert", t>> \in wrote =>
              req[r].kind = "create_token" /\ (token[t].bound => <<"refer", "machines">> \in wrote)
  BY <1>1, <1>2 DEF Sound, MachineWrites
<1>14. \A w \in {"attempt", "refer"} : /\ Clash(<<"delete", "machines">>, <<w, "machines">>)
                                       /\ Clash(<<w, "machines">>, <<"delete", "machines">>)
  BY DEF Clash, Shares
<1>15. \A q \in Request : q # r => Sound(q)'
  <2> SUFFICES ASSUME NEW q \in Request, q # r
               PROVE  Sound(q)'
    OBVIOUS
  <2>1. Sound(q) /\ req[q] \in Served /\ req'[q] = req[q]
    BY <1>1, <1>10 DEF IInv
  <2>2. \A w \in wrote, v \in req[q].wrote : ~ Clash(w, v)
    BY DEF IInv, Locks
  <2>3. FindsMachine(q)'
    BY <1>4, <1>14, <2>1, <2>2 DEF Sound, FindsMachine, Deletes
  <2>4. Unbinds(q)'
    <3> SUFFICES ASSUME req[q].kind = "delete_machine", req[q].at = "done",
                        NEW t \in Token, token'[t].bound, Committed(t)'
                 PROVE  <<"unbind", t>> \in Writes(q)'
      BY <2>1 DEF Unbinds
    <3>1. token[t].bound /\ <<"delete", "machines">> \in req[q].wrote
      BY <1>3, <2>1 DEF Sound, MachineWrites
    <3>2. CASE Committed(t)
      BY <2>1, <3>1, <3>2 DEF Sound, Unbinds, Writes
    <3>3. CASE <<"insert", t>> \in wrote
      BY <1>13, <1>14, <2>2, <3>1, <3>3
    <3> QED
      BY <1>6, <1>8, <3>2, <3>3
  <2> QED
    BY <1>2, <1>3, <1>8, <2>1, <2>3, <2>4, OthersStaySound DEF Stale
<1>16. Locks'
  BY <1>10, <1>12 DEF IInv, Locks
<1>17. Inserts'
  <2>1. \A q \in Request, c \in Credential :
            <<"insert", c>> \in req'[q].wrote => <<"insert", c>> \in req[q].wrote /\ q # r
    BY <1>10, <1>12
  <2> QED
    BY <1>9, <2>1 DEF IInv, Inserts
<1>18. ReferencesHold'
  <2>1. ASSUME NEW t \in Token, token'[t].bound, Committed(t)'
        PROVE  machine'.here
    <3>1. token[t].bound /\ <<"unbind", t>> \notin wrote
      BY <1>3, <2>1
    <3>2. CASE Committed(t)
      BY <1>1, <1>2, <1>4, <1>13, <3>1, <3>2 DEF IInv, ReferencesHold, Sound, Unbinds, Deletes
    <3>3. CASE <<"insert", t>> \in wrote
      BY <1>1, <1>4, <1>13, <3>1, <3>3 DEF Sound, FindsMachine, Deletes
    <3> QED
      BY <1>6, <1>8, <2>1, <3>2, <3>3
  <2>2. machine'.attempts => machine'.here
    BY <1>1, <1>4 DEF IInv, ReferencesHold, Sound, FindsMachine
  <2> QED
    BY <2>1, <2>2 DEF ReferencesHold
<1> QED
  BY <1>2, <1>8, <1>12, <1>15, <1>16, <1>17, <1>18 DEF IInv

\* The answer leaves, and with it what the client may present from now on.
LEMMA AnswerStep ==
    ASSUME IInv, TypeOK', NEW r \in Request, Answer(r)
    PROVE  IInv'
<1>1. /\ req \in [Request -> Served] /\ req[r] \in Served /\ Sound(r)
      /\ IsFiniteSet(pages) /\ IsFiniteSet(req[r].csrf)
  BY Types DEF IInv, Sound, OneCsrf
<1>2. IsFiniteSet(pages)'
  <2>1. IsFiniteSet(pages \union req[r].csrf)
    BY <1>1, FS_Union
  <2> QED
    BY <1>1, <2>1 DEF Answer
<1>3. UNCHANGED <<tables, clock>>
  BY DEF Answer, world
<1>4. CASE Ends(r)
  <2>1. req'[r] = Idle /\ \A q \in Request : q # r => req'[q] = req[q]
    BY <1>1, <1>4 DEF Ends
  <2>2. req'[r].wrote = {} /\ Sound(r)'
    BY <2>1, IdleIsSound
  <2> QED
    BY <1>2, <1>3, <2>1, <2>2, Moves
<1>5. CASE req' = [req EXCEPT ![r].answered = TRUE]
  <2>1. /\ \A q \in Request : q # r => req'[q] = req[q]
        /\ req'[r].kind = req[r].kind /\ req'[r].csrf = req[r].csrf
        /\ req'[r].over = req[r].over /\ req'[r].stale = req[r].stale
        /\ req'[r].by = req[r].by /\ req'[r].at = req[r].at
        /\ req'[r].wrote = req[r].wrote /\ req'[r].wants = req[r].wants
    BY <1>1, <1>5 DEF Served
  <2>2. Revoking(r)' /\ MachineWrites(r)' /\ FindsMachine(r)' /\ Unbinds(r)'
    BY <1>1, <1>3, <2>1
       DEF Sound, Revoking, MachineWrites, FindsMachine, Unbinds, Writes, tables, Committed
  <2>3. OneSession(r)' /\ ByTheLiving(r)' /\ OpensItsSession(r)'
    BY <1>1, <2>1 DEF Sound, OneSession, ByTheLiving, OpensItsSession
  <2>4. Sound(r)'
    BY <1>1, <1>3, <2>1, <2>2, <2>3, StaysSound
  <2> QED
    BY <1>2, <1>3, <2>1, <2>4, Moves
<1> QED
  BY <1>4, <1>5 DEF Answer

\* A request comes in, with what is over and stale by now.
LEMMA ArriveStep ==
    ASSUME IInv, TypeOK', NEW r \in Request, Arrive(r)
    PROVE  IInv'
<1>1. req \in [Request -> Served] /\ IsFiniteSet(pages) /\ TypeOK
  BY Types DEF IInv
<1>2. PICK x \in Served : Arrived(x) /\ req' = [req EXCEPT ![r] = x]
  BY <1>1, Arriving
<1>3. req'[r] = x /\ \A q \in Request : q # r => req'[q] = req[q]
  BY <1>1, <1>2
<1>4. UNCHANGED <<tables, clock, pages>>
  BY DEF Arrive, clients
<1>5. Revoking(r)' /\ MachineWrites(r)' /\ FindsMachine(r)' /\ Unbinds(r)'
  BY <1>2, <1>3 DEF Arrived, Revoking, MachineWrites, FindsMachine, Unbinds, Writes
<1>6. OverStays(r)' /\ StaleStays(r)'
  <2>1. (\A c : Over(c)' <=> Over(c)) /\ (\A k : Stale(k)' <=> Stale(k))
    BY <1>4 DEF tables, Committed, Over, Expired, Stale
  <2> QED
    BY <1>2, <1>3, <2>1 DEF Arrived, OverStays, StaleStays
<1>7. OneCsrf(r)'
  <2>1. IsFiniteSet(x.csrf) /\ Cardinality(x.csrf) <= 1
    BY <1>1, <1>2, FS_Subset DEF Arrived
  <2>2. Cardinality(x.csrf) \in Nat
    BY <2>1, FS_CardinalityType
  <2>3. x.csrf = {} \/ \E k : x.csrf = {k}
    BY <2>1, <2>2, FS_EmptySet, FS_Singleton
  <2> QED
    BY <1>3, <2>1, <2>3 DEF OneCsrf
<1>8. OneSession(r)' /\ ByTheLiving(r)' /\ OpensItsSession(r)'
  BY <1>2, <1>3 DEF Arrived, OneSession, ByTheLiving, OpensItsSession
<1>9. Sound(r)'
  BY <1>5, <1>6, <1>7, <1>8 DEF Sound
<1>10. req'[r].wrote = {}
  BY <1>2, <1>3 DEF Arrived
<1> QED
  BY <1>1, <1>3, <1>4, <1>9, <1>10, Moves

\* Time only makes more sessions and CSRF tokens too old.
LEMMA TickStep ==
    ASSUME IInv, TypeOK', Tick
    PROVE  IInv' /\ \A c \in Credential : Over(c) => Over(c)'
<1>1. /\ req \in [Request -> Served] /\ session \in [Session -> SessionRow]
      /\ clock \in Time /\ UNCHANGED <<tables, req, pages>> /\ clock' = clock + 1
  BY Types DEF IInv, Tick, clients
<1>2. \A t \in Time : t \in Nat
  BY AuthAssumption DEF Time
<1>3. \A s \in Session : Expired(s) => Expired(s)'
  BY <1>1, <1>2, AuthAssumption DEF SessionRow, Expired, tables
<1>4. \A k \in Csrf : Stale(k) => Stale(k)'
  BY <1>1, <1>2, AuthAssumption DEF Csrf, Stale
<1>5. \A c \in Credential : /\ Committed(c)' <=> Committed(c)
                            /\ Over(c) => Over(c)'
  BY <1>1, <1>3 DEF Committed, Over, tables
<1>6. \A t \in Token : t \in Credential
  BY DEF Credential
<1>7. \A q \in Request : Sound(q)'
  <2> SUFFICES ASSUME NEW q \in Request
               PROVE  Sound(q)'
    OBVIOUS
  <2>1. Sound(q) /\ req[q] \in Served
    BY <1>1 DEF IInv
  <2>2. FindsMachine(q)' /\ Unbinds(q)'
    BY <1>1, <1>5, <1>6, <2>1 DEF Sound, FindsMachine, Unbinds, Writes, tables
  <2> QED
    BY <1>1, <1>4, <1>5, <2>1, <2>2, OthersStaySound DEF tables
<1>8. Locks' /\ Inserts' /\ ReferencesHold' /\ IsFiniteSet(pages)'
  BY <1>1, <1>5, <1>6 DEF IInv, Locks, Inserts, Named, ReferencesHold, tables
<1> QED
  BY <1>5, <1>7, <1>8 DEF IInv

----------------------------------------------------------------------------
\* Every step preserves the invariant, and brings nothing back to life.
LEMMA InvStep ==
    ASSUME IInv, [Next]_vars
    PROVE  IInv' /\ \A c \in Credential : Over(c) => Over(c)'
<1>1. TypeOK'
  BY TypeStep DEF IInv, Sound
<1>2. ASSUME UNCHANGED <<tables, clock>>
      PROVE  \A c : Over(c) => Over(c)'
  BY <1>2 DEF tables, Committed, Over, Expired
<1>3. ASSUME NEW r \in Request, Serve(r)
      PROVE  IInv' /\ \A c \in Credential : Over(c) => Over(c)'
  <2>1. CASE ValidateSession(r) \/ SessionInvalid(r) \/ require_csrf(r) \/ validate_api_token(r)
    <3>1. UNCHANGED <<tables, clock>>
      BY <2>1 DEF ValidateSession, SessionInvalid, require_csrf, validate_api_token, Refuse, world
    <3> QED
      BY <1>1, <1>2, <2>1, <3>1, GateStep
  <2>2. CASE Granted(r)
    BY <1>1, <1>2, <2>2, GrantStep DEF Granted, world
  <2>3. CASE ReferenceFails(r) \/ DeadlockDetected(r) \/ LoginFails(r) \/ DirectFails(r)
    <3>1. Refuse(r)
      BY <2>3 DEF ReferenceFails, DeadlockDetected, LoginFails, DirectFails
    <3> QED
      BY <1>1, <1>2, <3>1, Refusing DEF Refuse, world
  <2>4. CASE LoginCreate(r)
    BY <1>1, <2>4, LoginStep
  <2>5. CASE \/ LoginRehash(r) \/ logout(r) \/ logout_post(r) \/ Other(r) \/ revoke_token(r)
             \/ delete_machine(r) \/ TokensUnbound(r) \/ DirectAttempt(r) \/ DirectSent(r)
    <3>1. UNCHANGED <<tables, clock>>
      BY <2>5 DEF LoginRehash, logout, logout_post, Other, revoke_token, delete_machine,
         TokensUnbound, DirectAttempt, DirectSent, Refuse, world
    <3> QED
      BY <1>1, <1>2, <2>5, <3>1, HandlerStep
  <2>6. CASE Page(r)
    BY <1>1, <1>2, <2>6, PageStep DEF Page, world
  <2>7. CASE create_token(r)
    BY <1>1, <2>7, TokenStep
  <2>8. CASE Commit(r)
    BY <1>1, <2>8, CommitStep
  <2>9. CASE Answer(r)
    BY <1>1, <1>2, <2>9, AnswerStep DEF Answer, world
  <2> QED
    BY <1>3, <2>1, <2>2, <2>3, <2>4, <2>5, <2>6, <2>7, <2>8, <2>9 DEF Serve
<1>4. CASE Tick
  BY <1>1, <1>4, TickStep
<1>5. ASSUME NEW r \in Request, Arrive(r)
      PROVE  IInv' /\ \A c \in Credential : Over(c) => Over(c)'
  BY <1>1, <1>2, <1>5, ArriveStep DEF Arrive
<1>6. ASSUME NEW r \in Request, Fails(r)
      PROVE  IInv' /\ \A c \in Credential : Over(c) => Over(c)'
  BY <1>1, <1>2, <1>6, Ending DEF Fails, clients
<1>7. CASE UNCHANGED vars
  <2>1. UNCHANGED <<tables, clock, pages, req>>
    BY <1>7 DEF vars, tables
  <2>2. IsFiniteSet(pages)' /\ Locks' /\ Inserts' /\ ReferencesHold'
    BY <2>1 DEF IInv, Locks, Inserts, Named, ReferencesHold, Committed, tables
  <2>3. \A q \in Request : Sound(q)'
    BY <2>1, OthersAreSound DEF IInv
  <2> QED
    BY <1>1, <1>2, <2>1, <2>2, <2>3 DEF IInv
<1> QED
  BY <1>3, <1>4, <1>5, <1>6, <1>7 DEF Next

\* The invariant of the whole: locks, rows and every request being served.
THEOREM Invariance == Spec => []IInv
BY InvInit, InvStep, PTL DEF Spec

\* Rows, credentials, pages and requests have their types.
THEOREM TypeCorrect == Spec => []TypeOK
<1>1. IInv => TypeOK
  BY DEF IInv
<1> QED
  BY <1>1, Invariance, PTL

\* A session or token that was over when the request arrived never lets it in: validation
\* reads the row, and what is over stays so (auth.py:96-105, 130-138).
THEOREM OnlyTheLivingLetIn == Spec => []LetInByTheLiving
<1>1. IInv => LetInByTheLiving
  BY DEF IInv, Sound, ByTheLiving, LetInByTheLiving
<1> QED
  BY <1>1, Invariance, PTL

\* Behind require_csrf, the page's token is of the session that let the request in and was
\* young enough when it came (csrf.py:28-35).
THEOREM CsrfIsOfItsSession == Spec => []CsrfOpensItsSession
<1>1. IInv => CsrfOpensItsSession
  BY DEF IInv, Sound, OpensItsSession, CsrfOpensItsSession
<1> QED
  BY <1>1, Invariance, PTL

\* Tokens and attempts refer to a machine that is there: whoever refers to it and whoever
\* deletes it lock each other out, and the deletion finds every token to unbind
\* (models.py:212-214).
THEOREM ReferencesAlwaysHold == Spec => []ReferencesHold
<1>1. IInv => ReferencesHold
  BY DEF IInv
<1> QED
  BY <1>1, Invariance, PTL

\* No step revives a session or a token, the touch of a token that was read before its
\* revocation included (repositories.py:394-400).
THEOREM RevokedStaysRevoked == Spec => NeverRevived
<1>1. IInv /\ [Next]_vars => [\A c \in Credential : Over(c) => Over(c)']_vars
  BY InvStep
<1> QED
  BY <1>1, Invariance, PTL DEF Spec, NeverRevived
=============================================================================
