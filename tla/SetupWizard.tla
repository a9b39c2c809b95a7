----------------------------- MODULE SetupWizard -----------------------------
(***************************************************************************)
(* The first-run wizard of WoL-Monkey: the single row of setup_state, the  *)
(* accounts, settings and machines its five steps create, and the requests *)
(* that work on them, each in a transaction of its own.                    *)
(*                                                                         *)
(* A request is what is left of its handler, a sequence of calls.  The     *)
(* database is PostgreSQL under READ COMMITTED: a request sees the         *)
(* committed rows and its own, an UPDATE waits for the transaction that    *)
(* has written the row and then changes the columns it names in the newest *)
(* version, and an INSERT waits for the transaction that has inserted the  *)
(* same key and fails if that one commits.  Every repository call reads    *)
(* the row anew (the session's identity map is weak and holds no row that  *)
(* nobody refers to), and an UPDATE names the columns that differ from the *)
(* row just read.                                                          *)
(***************************************************************************)
EXTENDS Naturals, Sequences, FiniteSets

CONSTANTS Request,   \* requests the API process serves concurrently
          Name,      \* user names
          Scripts,   \* whether clients also call the endpoints of /api/setup
          MaxRequests, \* bound: requests received
          MaxFaults  \* bound: requests that lose their connection

\* "nobody" stands for no account.
ASSUME WizardAssumption == /\ Scripts \in BOOLEAN /\ MaxRequests \in Nat /\ MaxFaults \in Nat
                           /\ "nobody" \notin Name

WIZARD_STEPS == <<"welcome", "admin_account", "network", "first_machine", "complete">>
Step == {WIZARD_STEPS[i] : i \in DOMAIN WIZARD_STEPS}
index(s) == CHOOSE i \in DOMAIN WIZARD_STEPS : WIZARD_STEPS[i] = s

VARIABLES
    setup,    \* the committed row of setup_state
    users,    \* committed accounts
    network,  \* whether the network settings are committed
    machines, \* whether a machine is committed
    shown,    \* steps whose page a browser has been shown and can submit
    req,      \* Request -> the request being served
    count,    \* requests received so far
    faults    \* lost connections so far

store == <<setup, users, network, machines, shown>>
vars == <<setup, users, network, machines, shown, req, count, faults>>

Row == [here : BOOLEAN, completed : BOOLEAN, step : Step, done : SUBSET Step]
NoRow == [here |-> FALSE, completed |-> FALSE, step |-> "welcome", done |-> {}]
NewRow == [NoRow EXCEPT !.here = TRUE]
Nobody == "nobody"

Call == {<<"guard">>, <<"open">>, <<"count">>, <<"settings">>, <<"machine">>}
        \union ({"show", "advance", "back"} \X Step) \union ({"user"} \X Name)

Idle == [todo |-> <<>>, at |-> "idle", done |-> {}, row |-> NoRow,
         mine |-> NoRow, user |-> Nobody, network |-> FALSE, machine |-> FALSE, page |-> {}]

TypeOK ==
    /\ setup \in Row
    /\ users \subseteq Name
    /\ network \in BOOLEAN
    /\ machines \in BOOLEAN
    /\ shown \subseteq Step
    /\ \A r \in Request :
          /\ \A i \in DOMAIN req[r].todo : req[r].todo[i] \in Call
          /\ req[r].at \in {"idle", "call", "missing", "read", "loaded"}
          /\ req[r].row \in Row /\ req[r].mine \in Row
          /\ req[r].user \in Name \union {Nobody}
    /\ count \in 0 .. MaxRequests
    /\ faults \in 0 .. MaxFaults

----------------------------------------------------------------------------
\* The handlers, as the calls they make.

\* GET /setup/{step}.
Pages == {<<<<"open">>, <<"show", s>>>> : s \in Step}

\* The forms of the page of step s.  "Add machine" leads to the machine form, which
\* posts to /machines/new without the parameter from=setup.
Forms(s) ==
    CASE s = "welcome"       -> {<<<<"advance", "welcome">>>>}
      [] s = "admin_account" ->
            {<<<<"count">>, <<"user", n>>, <<"advance", "admin_account">>>> :
                n \in Name}
            \union {<<<<"back", "admin_account">>>>}
      [] s = "network"       -> {<<<<"settings">>, <<"advance", "network">>>>,
                                 <<<<"back", "network">>>>}
      [] s = "first_machine" -> {<<<<"advance", "first_machine">>, <<"advance", "complete">>>>,
                                 <<<<"machine">>>>,
                                 <<<<"back", "first_machine">>>>}
      [] s = "complete"      -> {}

\* Mutant: the step is recorded before the settings.
ApiCallsSwapped ==
    {<<<<"guard">>, <<"count">>, <<"user", n>>, <<"advance", "admin_account">>>> : n \in Name}
    \union {<<<<"guard">>, <<"advance", "network">>, <<"settings">>>>,
            <<<<"guard">>, <<"advance", "complete">>>>}

\* POST /api/setup/admin, network and complete.
ApiCalls ==
    {<<<<"guard">>, <<"count">>, <<"user", n>>, <<"advance", "admin_account">>>> : n \in Name}
    \union {<<<<"guard">>, <<"settings">>, <<"advance", "network">>>>,
            <<<<"guard">>, <<"advance", "complete">>>>}

Receive(r) ==
    /\ req[r] = Idle
    /\ count < MaxRequests
    /\ count' = count + 1
    /\ \E todo \in Pages \union (UNION {Forms(s) : s \in shown})
                   \union (IF Scripts THEN ApiCalls ELSE {}) :
          req' = [req EXCEPT ![r].todo = todo, ![r].at = "call"]
    /\ UNCHANGED <<store, faults>>

----------------------------------------------------------------------------
Calls(r, names) == req[r].todo # <<>> /\ Head(req[r].todo)[1] \in names
Argument(r) == Head(req[r].todo)[2]
Next1(r) == Tail(req[r].todo)

\* The row as request r sees it, and the other requests that have written it.
View(r) == IF req[r].mine.here THEN req[r].mine ELSE setup
Writers(r) == {d \in Request \ {r} : req[d].mine.here}

Roll(r) == req' = [req EXCEPT ![r] = Idle]

\* SqlSetupStateRepository.get: the row is inserted if there is none.

RowMissing(r) ==
    /\ Calls(r, {"guard", "open", "show", "advance", "back"})
    /\ req[r].at = "call"
    /\ ~ View(r).here
    /\ req' = [req EXCEPT ![r].at = "missing"]
    /\ UNCHANGED <<store, count, faults>>

InsertRow(r) ==
    /\ Calls(r, {"guard", "open", "show", "advance", "back"})
    /\ req[r].at = "missing"
    /\ Writers(r) = {}
    /\ \/ ~ setup.here /\ req' = [req EXCEPT ![r].at = "call", ![r].mine = NewRow]
       \/ setup.here /\ Roll(r)
    /\ UNCHANGED <<store, count, faults>>

\* _require_incomplete, and the same check of setup_page.
Guard(r) ==
    /\ Calls(r, {"guard", "open"})
    /\ req[r].at = "call"
    /\ View(r).here
    /\ \/ View(r).completed /\ Roll(r)
       \/ ~ View(r).completed /\ req' = [req EXCEPT ![r].todo = Next1(r)]
    /\ UNCHANGED <<store, count, faults>>

\* Mutant: the page is shown whatever the current step.
ShowAny(r) ==
    /\ Calls(r, {"show"})
    /\ req[r].at = "call"
    /\ View(r).here
    /\ req' = [req EXCEPT ![r].todo = Next1(r), ![r].page = {Argument(r)}]
    /\ UNCHANGED <<store, count, faults>>

\* setup_page: a step ahead of the current one is not shown.
Show(r) ==
    /\ Calls(r, {"show"})
    /\ req[r].at = "call"
    /\ View(r).here
    /\ req' = [req EXCEPT ![r].todo = Next1(r),
                          ![r].page = IF index(Argument(r)) > index(View(r).step)
                                      THEN {} ELSE {Argument(r)}]
    /\ UNCHANGED <<store, count, faults>>

\* SetupStateService.advance and go_back: the steps done are read first, then
\* SqlSetupStateRepository.update reads the row, changes it and flushes it.

Read(r) ==
    /\ Calls(r, {"advance", "back"})
    /\ req[r].at = "call"
    /\ View(r).here
    /\ req' = [req EXCEPT ![r].at = "read", ![r].done = View(r).done]
    /\ UNCHANGED <<store, count, faults>>

Load(r) ==
    /\ req[r].at = "read"
    /\ req' = [req EXCEPT ![r].at = "loaded", ![r].row = View(r)]
    /\ UNCHANGED <<store, count, faults>>

\* Mutant: the wizard ends at a step that is not one of WIZARD_STEPS.
AdvancedPastTheEnd(s, done) ==
    [here |-> TRUE, completed |-> s = "complete",
     step |-> IF s = "complete" THEN "done" ELSE WIZARD_STEPS[index(s) + 1],
     done |-> done \union {s}]

Advanced(s, done) ==
    [here |-> TRUE, completed |-> s = "complete",
     step |-> IF s = "complete" THEN s ELSE WIZARD_STEPS[index(s) + 1],
     done |-> done \union {s}]

WentBack(s, done) ==
    [here |-> TRUE, completed |-> FALSE,
     step |-> WIZARD_STEPS[index(s) - 1],
     done |-> done \ {s, WIZARD_STEPS[index(s) - 1]}]

Target(r) ==
    IF Calls(r, {"advance"}) THEN Advanced(Argument(r), req[r].done)
                             ELSE WentBack(Argument(r), req[r].done)

\* The columns of b that differ from those of a, put into row c.
Merge(a, b, c) ==
    [here      |-> TRUE,
     completed |-> IF a.completed # b.completed THEN b.completed ELSE c.completed,
     step      |-> IF a.step # b.step THEN b.step ELSE c.step,
     done      |-> IF a.done # b.done THEN b.done ELSE c.done]

Flush(r) ==
    /\ req[r].at = "loaded"
    /\ Target(r) # req[r].row => Writers(r) = {}
    /\ req' = [req EXCEPT
                  ![r].todo = Next1(r), ![r].at = "call", ![r].done = {}, ![r].row = NoRow,
                  ![r].mine = IF Target(r) = req[r].row THEN @
                              ELSE Merge(req[r].row, Target(r), View(r))]
    /\ UNCHANGED <<store, count, faults>>

----------------------------------------------------------------------------
\* AuthService.create_admin.  The session the browser's handler opens for the new
\* account after it is a row of the same transaction.

Count(r) ==
    /\ Calls(r, {"count"})
    /\ \/ users # {} /\ Roll(r)
       \/ users = {} /\ req' = [req EXCEPT ![r].todo = Next1(r)]
    /\ UNCHANGED <<store, count, faults>>

\* Mutant: the account is committed at once.
CreateUserCommitted(r) ==
    /\ Calls(r, {"user"})
    /\ users' = users \union {Argument(r)}
    /\ req' = [req EXCEPT ![r].todo = Next1(r), ![r].user = Argument(r)]
    /\ UNCHANGED <<setup, network, machines, shown, count, faults>>

CreateUser(r) ==
    /\ Calls(r, {"user"})
    /\ \A d \in Request \ {r} : req[d].user # Argument(r)
    /\ \/ Argument(r) \in users /\ Roll(r)
       \/ /\ Argument(r) \notin users
          /\ req' = [req EXCEPT ![r].todo = Next1(r), ![r].user = Argument(r)]
    /\ UNCHANGED <<store, count, faults>>

\* SettingsService.set: the keys are written in the same order by every request,
\* so the first one stands for them all.  An update that changes the value waits for
\* whoever has written the row, one that does not is not sent.

SettingsMissing(r) ==
    /\ Calls(r, {"settings"})
    /\ req[r].at = "call"
    /\ ~ network
    /\ req' = [req EXCEPT ![r].at = "missing"]
    /\ UNCHANGED <<store, count, faults>>

InsertSettings(r) ==
    /\ Calls(r, {"settings"})
    /\ req[r].at = "missing"
    /\ \A d \in Request \ {r} : ~ req[d].network
    /\ \/ network /\ Roll(r)
       \/ ~ network /\ req' = [req EXCEPT ![r].todo = Next1(r), ![r].at = "call",
                                          ![r].network = TRUE]
    /\ UNCHANGED <<store, count, faults>>

UpdateSettings(r) ==
    /\ Calls(r, {"settings"})
    /\ req[r].at = "call"
    /\ network
    /\ \/ req' = [req EXCEPT ![r].todo = Next1(r)]
       \/ /\ \A d \in Request \ {r} : ~ req[d].network
          /\ req' = [req EXCEPT ![r].todo = Next1(r), ![r].network = TRUE]
    /\ UNCHANGED <<store, count, faults>>

\* machine_new_post, for the logged-in only: who has an account can log in.
AddMachine(r) ==
    /\ Calls(r, {"machine"})
    /\ \/ users = {} /\ Roll(r)
       \/ users # {} /\ req' = [req EXCEPT ![r].todo = Next1(r), ![r].machine = TRUE]
    /\ UNCHANGED <<store, count, faults>>

\* get_db_session, once the handler has returned.
Commit(r) ==
    /\ req[r].at = "call"
    /\ req[r].todo = <<>>
    /\ setup' = View(r)
    /\ users' = users \union ({req[r].user} \ {Nobody})
    /\ network' = (network \/ req[r].network)
    /\ machines' = (machines \/ req[r].machine)
    /\ shown' = shown \union req[r].page
    /\ Roll(r)
    /\ UNCHANGED <<count, faults>>

\* The connection is lost: the transaction is rolled back.
Fails(r) ==
    /\ req[r] # Idle
    /\ faults < MaxFaults
    /\ faults' = faults + 1
    /\ Roll(r)
    /\ UNCHANGED <<store, count>>

----------------------------------------------------------------------------
Init ==
    /\ setup = NoRow
    /\ users = {}
    /\ network = FALSE
    /\ machines = FALSE
    /\ shown = {}
    /\ req = [r \in Request |-> Idle]
    /\ count = 0
    /\ faults = 0

Serve(r) ==
    \/ RowMissing(r) \/ InsertRow(r) \/ Guard(r) \/ Show(r)
    \/ Read(r) \/ Load(r) \/ Flush(r)
    \/ Count(r) \/ CreateUser(r)
    \/ SettingsMissing(r) \/ InsertSettings(r) \/ UpdateSettings(r) \/ AddMachine(r)
    \/ Commit(r)

Next == \E r \in Request : Receive(r) \/ Serve(r) \/ Fails(r)

Spec == Init /\ [][Next]_vars

\* Handlers run to their end; the database serves those who wait for a row in the order
\* of their arrival.
FairSpec == Spec /\ \A r \in Request : SF_vars(Serve(r))

----------------------------------------------------------------------------
\* Safety.

\* The pages shown keep a visitor who has no account from completing the wizard,
\* however many tabs are open and whatever is submitted twice (web.py:80-82).
CompletedHasAdmin == setup.completed => users # {}

\* The first account comes together with the step that records it, whichever requests
\* fail or overtake the one that creates it (web.py:117-126, setup_state.py:47-56).
FirstAccountComesWithStep ==
    [][users = {} /\ users' # {} => /\ "admin_account" \in setup'.done
                                   /\ setup'.step = "network"]_vars

----------------------------------------------------------------------------
\* Liveness.

\* Every request is answered: no two of them ever wait for each other's rows, although
\* each writes several and nothing but the order of the calls keeps them apart
\* (web.py:117-126, 152-165; setup.py:98-111, 119-127).
RequestsEnd == \A r \in Request : req[r] # Idle ~> req[r] = Idle
==============================================================================
