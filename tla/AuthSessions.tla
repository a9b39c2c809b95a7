---------------------------- MODULE AuthSessions ----------------------------
(***************************************************************************)
(* Who may do what in WoL-Monkey: the sessions of browsers, the API tokens *)
(* of scripts, the CSRF tokens in pages, and the requests that present     *)
(* them, each in a transaction of its own under READ COMMITTED.            *)
(*                                                                         *)
(* A request's writes are seen by nobody until it commits and lock the     *)
(* rows they change.  Its answer leaves when the handler returns, and the  *)
(* dependency get_db_session commits after that: FastAPI before 0.118      *)
(* waits for the commit with the answer, later versions send it first, and *)
(* the image installs whichever is the newest (Dockerfile:17).             *)
(***************************************************************************)
EXTENDS Naturals, FiniteSets

CONSTANTS Request,     \* requests served concurrently
          Session,     \* identifiers of sessions
          Token,       \* identifiers of API tokens
          Lifetime,    \* SESSION_LIFETIME_HOURS
          MaxAge,      \* _MAX_AGE of a CSRF token
          AnswerFirst, \* whether an answer may leave before the commit
          MaxTime,     \* bound: the clock
          MaxRequests, \* bound: requests received
          MaxFaults    \* bound: lost connections

ASSUME AuthAssumption ==
    /\ {Lifetime, MaxAge, MaxTime, MaxRequests, MaxFaults} \subseteq Nat
    /\ AnswerFirst \in BOOLEAN
    /\ Session \intersect Token = {}

VARIABLES
    session,  \* Session -> its row, once committed, and its birth
    token,    \* Token -> its row, once committed
    machine,  \* the machine that tokens may be bound to: is it there, has it attempts
    given,    \* sessions and tokens whose secret has been answered to a client
    pages,    \* CSRF tokens in the hands of clients
    req,      \* Request -> the request being served
    clock,
    count,    \* requests received so far
    faults    \* lost connections so far

tables == <<session, token, machine>>
clients == <<given, pages>>
world == <<clock, count, faults>>
vars == <<session, token, machine, given, pages, req, clock, count, faults>>

Credential == Session \union Token
Time == 0..MaxTime

\* An identifier is unused until a request inserts its row, and only named until that
\* request commits.
Status == {"unused", "named", "live", "revoked"}
SessionRow == [status : Status, born : Time]
TokenRow == [status : Status, bound : BOOLEAN]
Csrf == [of : Session, born : Time]

\* API handlers that ask for CurrentUser and CsrfProtected.
Guarded == {"create_token", "revoke_token", "delete_machine"}
\* Handlers that start with validate_session: the above, /auth/logout, the pages and their
\* forms, and those that take a bearer token instead.
Gated == Guarded \union {"logout", "page", "form", "read"}
Kind == Gated \union {"login", "logout_post", "direct"}

Write == ({"insert", "revoke"} \X Credential) \union ({"touch", "unbind"} \X Token)
         \union {<<"login", "users">>} \union ({"attempt", "refer", "delete"} \X {"machines"})

\* What a request presents, who let it in, what it has written and what it waits to write,
\* and of what it presented, what was over when it arrived.
Idle == [kind |-> "none", at |-> "idle", cred |-> {}, csrf |-> {}, target |-> {}, by |-> {},
         wrote |-> {}, wants |-> {}, over |-> {}, stale |-> FALSE, answered |-> FALSE]

TypeOK ==
    /\ session \in [Session -> SessionRow]
    /\ token \in [Token -> TokenRow]
    /\ machine \in [here : BOOLEAN, attempts : BOOLEAN]
    /\ given \subseteq Credential /\ pages \subseteq Csrf
    /\ req \in [Request -> [kind : Kind \union {"none"},
                            at : {"idle", "entered", "rehashed", "inside", "bearer", "allowed",
                                  "deleted", "sending", "done", "committed"},
                            cred : SUBSET Credential, csrf : SUBSET Csrf,
                            target : SUBSET Token, by : SUBSET Credential,
                            wrote : SUBSET Write, wants : SUBSET Write,
                            over : SUBSET Credential,
                            stale : BOOLEAN, answered : BOOLEAN]]
    /\ clock \in Time /\ count \in 0..MaxRequests /\ faults \in 0..MaxFaults

Init ==
    /\ session = [s \in Session |-> [status |-> "unused", born |-> 0]]
    /\ token = [t \in Token |-> [status |-> "unused", bound |-> FALSE]]
    /\ machine = [here |-> TRUE, attempts |-> FALSE]
    /\ given = {} /\ pages = {}
    /\ req = [r \in Request |-> Idle]
    /\ clock = 0 /\ count = 0 /\ faults = 0

-----------------------------------------------------------------------------
\* Credentials.

Expired(s) == session[s].born + Lifetime < clock
Stale(k) == k.born + MaxAge < clock

\* Mutants: the row is not asked for its revocation; the token's session is not compared.
ValidUnrevoked(s) == session[s].status \in {"live", "revoked"} /\ ~Expired(s)
ValidForAny(k, s) == ~Stale(k)

\* The account of a session is always there: nobody deletes one.
ValidSession(s) == session[s].status = "live" /\ ~Expired(s)

ValidToken(t) == token[t].status = "live"

ValidCsrf(k, s) == k.of = s /\ ~Stale(k)

Committed(c) == IF c \in Session THEN session[c].status \in {"live", "revoked"}
                                 ELSE token[c].status \in {"live", "revoked"}

\* Of no use any more, to whoever reads the tables now.
Over(c) == IF c \in Session THEN session[c].status = "revoked" \/ (Committed(c) /\ Expired(c))
                            ELSE token[c].status = "revoked"

-----------------------------------------------------------------------------
\* Row locks.  References to one machine go together; an inserted row is in nobody's way.

Shares == {"attempt", "refer"}
Clash(w, v) == w[2] = v[2] /\ "insert" \notin {w[1], v[1]} /\ ~({w[1], v[1]} \subseteq Shares)

WaitsFor(r, q) == q # r /\ \E w \in req[r].wants, v \in req[q].wrote : Clash(w, v)
Free(r) == \A q \in Request : ~WaitsFor(r, q)

\* A reference needs its machine when the lock is granted.
Refers(r) == \E w \in req[r].wants : w[1] \in Shares

At(r, kind, at) == req[r].kind = kind /\ req[r].at = at /\ req[r].wants = {}

Goto(r, at) == req' = [req EXCEPT ![r].at = at]
Ask(r, writes, at) == req' = [req EXCEPT ![r].wants = writes, ![r].at = at]
Revokes(creds) == {<<"revoke", c>> : c \in {d \in creds : Committed(d)}}

\* Mutant: the request ends and its transaction stays open.
EndsOpen(r) == req' = [req EXCEPT ![r] = [Idle EXCEPT !.wrote = req[r].wrote]]

Ends(r) == req' = [req EXCEPT ![r] = Idle]

\* The exceptions of a handler: get_db_session rolls back, and then the answer leaves.
Refuse(r) == Ends(r) /\ UNCHANGED <<tables, clients, world>>

Granted(r) ==
    /\ req[r].wants # {}
    /\ Free(r)
    /\ Refers(r) => machine.here
    /\ req' = [req EXCEPT ![r].wrote = @ \union req[r].wants, ![r].wants = {}]
    /\ UNCHANGED <<tables, clients, world>>

ReferenceFails(r) == Refers(r) /\ Free(r) /\ ~machine.here /\ Refuse(r)

\* PostgreSQL ends one of the requests that wait for each other in a circle.
DeadlockDetected(r) ==
    /\ \E circle \in SUBSET Request :
           r \in circle /\ \A p \in circle : \E q \in circle : WaitsFor(p, q)
    /\ Refuse(r)

-----------------------------------------------------------------------------
\* Letting requests in.

\* Bound: there is an identifier left for every row that requests in progress will insert.
Inserting(kind) ==
    {q \in Request : req[q].kind = kind /\ req[q].at \notin {"done", "committed"}}
Spare(kind) ==
    LET unused == CASE kind = "login" -> {s \in Session : session[s].status = "unused"}
                    [] kind = "create_token" -> {t \in Token : token[t].status = "unused"}
    IN  kind \in {"login", "create_token"} => Cardinality(Inserting(kind)) < Cardinality(unused)

Arrive(r) ==
    /\ req[r].at = "idle"
    /\ count < MaxRequests
    /\ count' = count + 1
    /\ \E kind \in Kind, cookie \in SUBSET (given \intersect Session),
          bearer \in SUBSET (given \intersect Token), csrf \in SUBSET pages,
          target \in SUBSET (given \intersect Token) :
        /\ Spare(kind)
        /\ Cardinality(cookie) <= 1 /\ Cardinality(bearer) <= 1 /\ Cardinality(csrf) <= 1
        /\ kind \in {"read", "direct"} \/ bearer = {}
        /\ kind = "read" => cookie \union bearer # {}
        /\ kind = "direct" => bearer # {}
        /\ (cookie = {}) = (kind \in {"login", "direct"}) \/ kind = "read"
        /\ kind \in Guarded \/ csrf = {}
        /\ Cardinality(target) = IF kind = "revoke_token" THEN 1 ELSE 0
        /\ req' = [req EXCEPT ![r] =
               [Idle EXCEPT !.kind = kind, !.at = "entered", !.cred = cookie \union bearer,
                            !.csrf = csrf, !.target = target,
                            !.over = {c \in cookie \union bearer : Over(c)},
                            !.stale = \E k \in csrf : Stale(k)]]
    /\ UNCHANGED <<tables, clients, clock, faults>>

ValidateSession(r) ==
    /\ req[r].at = "entered" /\ req[r].kind \in Gated
    /\ \E s \in req[r].cred \intersect Session :
        /\ ValidSession(s)
        /\ req' = [req EXCEPT ![r].by = {s},
                      ![r].at = IF req[r].kind \in Guarded THEN "inside" ELSE "allowed"]
    /\ UNCHANGED <<tables, clients, world>>

\* Only the handlers for both kinds of credential look further.
SessionInvalid(r) ==
    /\ req[r].at = "entered" /\ req[r].kind \in Gated
    /\ \A s \in req[r].cred \intersect Session : ~ValidSession(s)
    /\ IF req[r].kind = "read" /\ req[r].cred \intersect Token # {}
       THEN Goto(r, "bearer") /\ UNCHANGED <<tables, clients, world>>
       ELSE Refuse(r)

require_csrf(r) ==
    /\ req[r].at = "inside"
    /\ IF \E k \in req[r].csrf : \A s \in req[r].by : ValidCsrf(k, s)
       THEN Goto(r, "allowed") /\ UNCHANGED <<tables, clients, world>>
       ELSE Refuse(r)

\* The row is read, and touched in a second statement, which may have to wait.
validate_api_token(r) ==
    /\ At(r, "read", "bearer") \/ At(r, "direct", "entered")
    /\ \E t \in req[r].cred \intersect Token :
        IF ValidToken(t)
        THEN /\ req' = [req EXCEPT ![r].by = {t}, ![r].wants = {<<"touch", t>>},
                                   ![r].at = "allowed"]
             /\ UNCHANGED <<tables, clients, world>>
        ELSE Refuse(r)

-----------------------------------------------------------------------------
\* Sessions.  A wrong password is a free choice; the hash may be renewed on the way.

LoginFails(r) == At(r, "login", "entered") /\ Refuse(r)

LoginRehash(r) ==
    /\ At(r, "login", "entered")
    /\ Ask(r, {<<"login", "users">>}, "rehashed")
    /\ UNCHANGED <<tables, clients, world>>

\* Mutant: the lifetime is added twice.
NewSessionLate == [status |-> "named", born |-> clock + Lifetime]

\* expires_at follows from the birth.
NewSession == [status |-> "named", born |-> clock]

LoginCreate(r) ==
    /\ At(r, "login", "entered") \/ At(r, "login", "rehashed")
    /\ \E s \in Session :
        /\ session[s].status = "unused"
        /\ session' = [session EXCEPT ![s] = NewSession]
        /\ req' = [req EXCEPT ![r].by = {s}, ![r].csrf = {[of |-> s, born |-> clock]},
                              ![r].wrote = @ \union {<<"insert", s>>},
                              ![r].wants = {<<"login", "users">>}, ![r].at = "done"]
    /\ UNCHANGED <<token, machine, clients, world>>

logout(r) ==
    /\ At(r, "logout", "allowed")
    /\ Ask(r, Revokes(req[r].by), "done")
    /\ UNCHANGED <<tables, clients, world>>

\* POST /auth/logout of the pages revokes whatever the cookie names.
logout_post(r) ==
    /\ At(r, "logout_post", "entered")
    /\ Ask(r, Revokes(req[r].cred), "done")
    /\ UNCHANGED <<tables, clients, world>>

\* A page validates its session a second time for the CSRF token, and has none if that fails.
Page(r) ==
    /\ At(r, "page", "allowed")
    /\ req' = [req EXCEPT ![r].at = "done", ![r].csrf =
                  {[of |-> s, born |-> clock] : s \in {c \in req[r].by : ValidSession(c)}}]
    /\ UNCHANGED <<tables, clients, world>>

\* Reads and the forms of the pages change nothing here.
Other(r) ==
    /\ At(r, "read", "allowed") \/ At(r, "form", "allowed")
    /\ Goto(r, "done")
    /\ UNCHANGED <<tables, clients, world>>

-----------------------------------------------------------------------------
\* Tokens and the machine they may be bound to.

create_token(r) ==
    /\ At(r, "create_token", "allowed")
    /\ \E t \in Token, bound \in BOOLEAN :
        /\ token[t].status = "unused"
        /\ token' = [token EXCEPT ![t] = [status |-> "named", bound |-> bound]]
        /\ req' = [req EXCEPT ![r].target = {t}, ![r].at = "done",
                              ![r].wrote = @ \union {<<"insert", t>>},
                              ![r].wants = IF bound THEN {<<"refer", "machines">>} ELSE {}]
    /\ UNCHANGED <<session, machine, clients, world>>

\* UPDATE ... WHERE id: a row that is not committed is not there.
revoke_token(r) ==
    /\ At(r, "revoke_token", "allowed")
    /\ Ask(r, Revokes(req[r].target), "done")
    /\ UNCHANGED <<tables, clients, world>>

\* The foreign key of attempts is set to NULL by the ORM and refused by the table.
delete_machine(r) ==
    /\ At(r, "delete_machine", "allowed")
    /\ IF machine.here /\ ~machine.attempts
       THEN /\ Ask(r, {<<"delete", "machines">>}, "deleted")
            /\ UNCHANGED <<tables, clients, world>>
       ELSE Refuse(r)

\* Mutant: ON DELETE NO ACTION, or a constraint that a migration forgot.
TokensLeft(r) ==
    /\ At(r, "delete_machine", "deleted")
    /\ Goto(r, "done")
    /\ UNCHANGED <<tables, clients, world>>

\* ON DELETE SET NULL, within the same statement.
TokensUnbound(r) ==
    /\ At(r, "delete_machine", "deleted")
    /\ Ask(r, {<<"unbind", t>> : t \in {u \in Token : token[u].bound /\ Committed(u)}}, "done")
    /\ UNCHANGED <<tables, clients, world>>

\* POST /machines/{id}/wake/direct: the attempt, and then the packet.
DirectAttempt(r) ==
    /\ At(r, "direct", "allowed")
    /\ IF machine.here
       THEN /\ Ask(r, {<<"attempt", "machines">>}, "sending")
            /\ UNCHANGED <<tables, clients, world>>
       ELSE Refuse(r)

DirectSent(r) ==
    /\ At(r, "direct", "sending")
    /\ Goto(r, "done")
    /\ UNCHANGED <<tables, clients, world>>

\* The machine is disabled, or the packet cannot be sent.
DirectFails(r) == (At(r, "direct", "allowed") \/ At(r, "direct", "sending")) /\ Refuse(r)

-----------------------------------------------------------------------------
\* The end of a request: answer and commit, in that order or the other.  Without writes
\* there is nothing to commit.

\* Mutant: touching a token writes back the whole row that was read.
StatusRewritten(status, c, wrote) ==
    IF <<"touch", c>> \in wrote THEN "live"
    ELSE IF <<"revoke", c>> \in wrote THEN "revoked"
    ELSE IF <<"insert", c>> \in wrote THEN "live" ELSE status

\* The columns a transaction names, in the newest version of the row.
StatusAfter(status, c, wrote) ==
    IF <<"revoke", c>> \in wrote THEN "revoked"
    ELSE IF <<"insert", c>> \in wrote THEN "live" ELSE status

Deletes(wrote) == <<"delete", "machines">> \in wrote

Commit(r) ==
    LET wrote == req[r].wrote
    IN  /\ req[r].at = "done" /\ req[r].wants = {} /\ wrote # {}
        /\ session' = [s \in Session |->
               [session[s] EXCEPT !.status = StatusAfter(@, s, wrote)]]
        /\ token' = [t \in Token |->
               [status |-> StatusAfter(token[t].status, t, wrote),
                bound |-> token[t].bound /\ <<"unbind", t>> \notin wrote]]
        /\ machine' = [here |-> machine.here /\ ~Deletes(wrote),
                       attempts |-> ~Deletes(wrote) /\
                           (machine.attempts \/ <<"attempt", "machines">> \in wrote)]
        /\ IF req[r].answered THEN Ends(r)
                              ELSE req' = [req EXCEPT ![r].at = "committed", ![r].wrote = {}]
        /\ UNCHANGED <<clients, world>>

Answer(r) ==
    /\ ~req[r].answered /\ req[r].wants = {}
    /\ \/ req[r].at = "committed"
       \/ req[r].at = "done" /\ (AnswerFirst \/ req[r].wrote = {})
    /\ given' = CASE req[r].kind = "login" -> given \union req[r].by
                  [] req[r].kind = "create_token" -> given \union req[r].target
                  [] OTHER -> given
    /\ pages' = IF req[r].kind \in {"login", "page"} THEN pages \union req[r].csrf ELSE pages
    /\ IF req[r].at = "committed" \/ req[r].wrote = {}
       THEN Ends(r)
       ELSE req' = [req EXCEPT ![r].answered = TRUE]
    /\ UNCHANGED <<tables, world>>

\* A request loses its database connection, or the process dies.
Fails(r) ==
    /\ req[r].at # "idle"
    /\ faults < MaxFaults
    /\ faults' = faults + 1
    /\ Ends(r)
    /\ UNCHANGED <<tables, clients, clock, count>>

Tick ==
    /\ clock < MaxTime
    /\ clock' = clock + 1
    /\ UNCHANGED <<tables, clients, req, count, faults>>

Serve(r) ==
    \/ ValidateSession(r) \/ SessionInvalid(r) \/ require_csrf(r) \/ validate_api_token(r)
    \/ Granted(r) \/ ReferenceFails(r) \/ DeadlockDetected(r)
    \/ LoginFails(r) \/ LoginRehash(r) \/ LoginCreate(r) \/ logout(r) \/ logout_post(r)
    \/ Page(r) \/ Other(r) \/ create_token(r) \/ revoke_token(r)
    \/ delete_machine(r) \/ TokensUnbound(r)
    \/ DirectAttempt(r) \/ DirectSent(r) \/ DirectFails(r)
    \/ Commit(r) \/ Answer(r)

Next == Tick \/ \E r \in Request : Arrive(r) \/ Serve(r) \/ Fails(r)

Spec == Init /\ [][Next]_vars

\* Rows are handed to those who wait for them in the order in which they came.
FairSpec == Spec /\ \A r \in Request : SF_vars(Serve(r))

-----------------------------------------------------------------------------
\* Nobody is let in by a session or token that was revoked or expired when the request
\* arrived, whatever was committed since (auth.py:96-105, 130-138).
LetInByTheLiving == \A r \in Request : req[r].by \intersect req[r].over = {}

\* A guarded handler runs with a CSRF token of the session that let it in, no older than
\* an hour when the request arrived; tokens of the same browser's earlier logins are
\* refused (csrf.py:28-35, README.md:180).
CsrfOpensItsSession ==
    \A r \in Request :
        req[r].kind \in Guarded /\ req[r].at \in {"allowed", "deleted", "done", "committed"} =>
            ~req[r].stale /\ \E k \in req[r].csrf : {k.of} = req[r].by

\* What is revoked stays revoked: a request that has read a token before its revocation and
\* touches it afterwards does not bring it back (repositories.py:394-400).
NeverRevived == [][\A c \in Credential : Over(c) => Over(c)']_vars

\* A token is bound to a machine that exists, however its creation, its use and the
\* machine's deletion fall together (models.py:212-214).
ReferencesHold ==
    /\ \A t \in Token : token[t].bound /\ Committed(t) => machine.here
    /\ machine.attempts => machine.here

\* Every request ends: a direct wake, which locks its token before it refers to the machine,
\* and the machine's deletion, which locks the machine before its tokens, may wait for each
\* other, and then one of them is given up (auth.py:137, models.py:213).
RequestsEnd == \A r \in Request : req[r].at # "idle" ~> req[r].at = "idle"
=============================================================================
