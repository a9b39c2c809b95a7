-------------------------- MODULE SetupWizardProofs --------------------------
(***************************************************************************)
(* Proofs about SetupWizard, for any requests, user names and bounds.      *)
(*                                                                         *)
(* Types hold whoever calls.  That nobody completes the wizard without an  *)
(* account is a matter of the pages: as long as no account is committed,   *)
(* every row that is committed, read or about to be written is at one of   *)
(* the first two steps (Early), so that only their pages are shown and     *)
(* only their forms sent (EarlyRequest); the one request that goes further *)
(* brings the account along.                                               *)
(***************************************************************************)
EXTENDS SetupWizard, TLAPS

----------------------------------------------------------------------------
\* The steps.

\* Steps by their places.
LEMMA Steps ==
    /\ Step = {"welcome", "admin_account", "network", "first_machine", "complete"}
    /\ WIZARD_STEPS[1] = "welcome" /\ WIZARD_STEPS[2] = "admin_account"
    /\ WIZARD_STEPS[3] = "network" /\ WIZARD_STEPS[4] = "first_machine"
    /\ WIZARD_STEPS[5] = "complete" /\ DOMAIN WIZARD_STEPS = 1..5
<1>1. /\ WIZARD_STEPS[1] = "welcome" /\ WIZARD_STEPS[2] = "admin_account"
      /\ WIZARD_STEPS[3] = "network" /\ WIZARD_STEPS[4] = "first_machine"
      /\ WIZARD_STEPS[5] = "complete" /\ DOMAIN WIZARD_STEPS = 1..5
  BY DEF WIZARD_STEPS
<1>2. Step = {WIZARD_STEPS[1], WIZARD_STEPS[2], WIZARD_STEPS[3], WIZARD_STEPS[4], WIZARD_STEPS[5]}
  BY <1>1 DEF Step
<1> QED
  BY <1>1, <1>2

\* Places by the steps.
LEMMA Places ==
    /\ index("welcome") = 1 /\ index("admin_account") = 2 /\ index("network") = 3
    /\ index("first_machine") = 4 /\ index("complete") = 5
<1>1. /\ \A i \in DOMAIN WIZARD_STEPS : WIZARD_STEPS[i] = "welcome" => i = 1
      /\ \A i \in DOMAIN WIZARD_STEPS : WIZARD_STEPS[i] = "admin_account" => i = 2
      /\ \A i \in DOMAIN WIZARD_STEPS : WIZARD_STEPS[i] = "network" => i = 3
      /\ \A i \in DOMAIN WIZARD_STEPS : WIZARD_STEPS[i] = "first_machine" => i = 4
      /\ \A i \in DOMAIN WIZARD_STEPS : WIZARD_STEPS[i] = "complete" => i = 5
      /\ \A i \in 1..5 : i \in DOMAIN WIZARD_STEPS
  BY Steps
<1>2. index("welcome") = 1
  BY <1>1, Steps DEF index
<1>3. index("admin_account") = 2
  BY <1>1, Steps DEF index
<1>4. index("network") = 3
  BY <1>1, Steps DEF index
<1>5. index("first_machine") = 4
  BY <1>1, Steps DEF index
<1>6. index("complete") = 5
  BY <1>1, Steps DEF index
<1> QED
  BY <1>2, <1>3, <1>4, <1>5, <1>6

----------------------------------------------------------------------------
\* Types.

\* A call that a handler may make: no page goes back from the first step.
Made == Call \ {<<"back", "welcome">>}

Served == [todo : Seq(Made), at : {"idle", "call", "missing", "read", "loaded"},
           done : SUBSET Step, row : Row, mine : Row, user : Name \union {Nobody},
           network : BOOLEAN, machine : BOOLEAN, page : SUBSET Step]

\* Between reading and flushing, the call at hand changes the row.
Moving(x) == x.at \in {"read", "loaded"} => x.todo # <<>> /\ Head(x.todo)[1] \in {"advance", "back"}

TInv ==
    /\ setup \in Row /\ users \subseteq Name /\ network \in BOOLEAN /\ machines \in BOOLEAN
    /\ shown \subseteq Step
    /\ req \in [Request -> Served] /\ \A r \in Request : Moving(req[r])
    /\ count \in 0..MaxRequests /\ faults \in 0..MaxFaults

\* Handlers make such calls, one after the other.
LEMMA HandlersMade ==
    ASSUME NEW todo \in Pages \union (UNION {Forms(s) : s \in Step}) \union ApiCalls
    PROVE  todo \in Seq(Made)
<1>1. /\ \A s \in Step : <<"show", s>> \in Made /\ <<"advance", s>> \in Made
      /\ \A s \in Step : s # "welcome" => <<"back", s>> \in Made
      /\ \A n \in Name : <<"user", n>> \in Made
      /\ <<"guard">> \in Made /\ <<"open">> \in Made /\ <<"count">> \in Made
      /\ <<"settings">> \in Made /\ <<"machine">> \in Made
  BY DEF Made, Call
<1>2. /\ \A a \in Made : <<a>> \in Seq(Made)
      /\ \A a, b \in Made : <<a, b>> \in Seq(Made)
      /\ \A a, b, c \in Made : <<a, b, c>> \in Seq(Made)
      /\ \A a, b, c, d \in Made : <<a, b, c, d>> \in Seq(Made)
  OBVIOUS
<1>3. CASE todo \in Pages
  BY <1>1, <1>2, <1>3 DEF Pages
<1>4. CASE todo \in ApiCalls
  <2>1. \/ \E n \in Name : todo = <<<<"guard">>, <<"count">>, <<"user", n>>, <<"advance", "admin_account">>>>
        \/ todo = <<<<"guard">>, <<"settings">>, <<"advance", "network">>>>
        \/ todo = <<<<"guard">>, <<"advance", "complete">>>>
    BY <1>4 DEF ApiCalls
  <2>2. /\ <<"advance", "admin_account">> \in Made /\ <<"advance", "network">> \in Made
        /\ <<"advance", "complete">> \in Made
    BY <1>1, Steps
  <2>3. \A n \in Name : <<<<"guard">>, <<"count">>, <<"user", n>>, <<"advance", "admin_account">>>>
                          \in Seq(Made)
    BY <1>1, <1>2, <2>2
  <2>4. /\ <<<<"guard">>, <<"settings">>, <<"advance", "network">>>> \in Seq(Made)
        /\ <<<<"guard">>, <<"advance", "complete">>>> \in Seq(Made)
    BY <1>1, <1>2, <2>2
  <2> QED
    BY <2>1, <2>3, <2>4
<1>5. ASSUME NEW s \in Step, todo \in Forms(s)
      PROVE  todo \in Seq(Made)
  <2>1. CASE s = "welcome"
    BY <1>1, <1>2, <1>5, <2>1 DEF Forms
  <2>2. CASE s = "admin_account"
    <3>1. \/ \E n \in Name : todo = <<<<"count">>, <<"user", n>>, <<"advance", "admin_account">>>>
          \/ todo = <<<<"back", "admin_account">>>>
      BY <1>5, <2>2 DEF Forms
    <3>2. <<"advance", "admin_account">> \in Made /\ <<"back", "admin_account">> \in Made
      BY <1>1, Steps
    <3>3. \A n \in Name : <<<<"count">>, <<"user", n>>, <<"advance", "admin_account">>>> \in Seq(Made)
      BY <1>1, <1>2, <3>2
    <3> QED
      BY <1>1, <1>2, <3>1, <3>2, <3>3
  <2>3. CASE s = "network"
    BY <1>1, <1>2, <1>5, <2>3 DEF Forms
  <2>4. CASE s = "first_machine"
    <3>1. \/ todo = <<<<"advance", "first_machine">>, <<"advance", "complete">>>>
          \/ todo = <<<<"machine">>>> \/ todo = <<<<"back", "first_machine">>>>
      BY <1>5, <2>4 DEF Forms
    <3>2. /\ <<"advance", "first_machine">> \in Made /\ <<"advance", "complete">> \in Made
          /\ <<"back", "first_machine">> \in Made
      BY <1>1, Steps
    <3> QED
      BY <1>1, <1>2, <3>1, <3>2
  <2>5. CASE s = "complete"
    BY <1>5, <2>5 DEF Forms
  <2> QED
    BY <2>1, <2>2, <2>3, <2>4, <2>5, Steps
<1>6. todo \in Pages \/ todo \in ApiCalls \/ \E s \in Step : todo \in Forms(s)
  OBVIOUS
<1> QED
  BY <1>3, <1>4, <1>5, <1>6

\* The call at hand, and those that are left.
LEMMA AtHand ==
    ASSUME TInv, NEW r \in Request
    PROVE  /\ req[r] \in Served /\ View(r) \in Row
           /\ req[r].todo # <<>> => Head(req[r].todo) \in Made /\ Next1(r) \in Seq(Made)
           /\ Calls(r, {"show", "advance", "back"}) => Argument(r) \in Step
           /\ Calls(r, {"back"}) => Argument(r) # "welcome"
           /\ Calls(r, {"user"}) => Argument(r) \in Name
<1>1. req[r] \in Served /\ req[r].todo \in Seq(Made) /\ req[r].mine \in Row /\ setup \in Row
  BY DEF TInv, Served
<1>2. req[r].todo # <<>> => Head(req[r].todo) \in Made /\ Next1(r) \in Seq(Made)
  BY <1>1 DEF Next1
<1>3. /\ \A c \in Made : c[1] \in {"show", "advance", "back"} => c[2] \in Step
      /\ \A c \in Made : c[1] = "back" => c[2] # "welcome"
      /\ \A c \in Made : c[1] = "user" => c[2] \in Name
  <2>1. ASSUME NEW c \in Made
        PROVE  /\ c[1] \in {"show", "advance", "back"} => c[2] \in Step
               /\ c[1] = "back" => c[2] # "welcome"
               /\ c[1] = "user" => c[2] \in Name
    <3>1. CASE c \in {<<"guard">>, <<"open">>, <<"count">>, <<"settings">>, <<"machine">>}
      BY <3>1
    <3>2. CASE c \in {"show", "advance", "back"} \X Step
      BY <3>2 DEF Made
    <3>3. CASE c \in {"user"} \X Name
      BY <3>3
    <3> QED
      BY <3>1, <3>2, <3>3 DEF Made, Call
  <2> QED
    BY <2>1
<1> QED
  BY <1>1, <1>2, <1>3 DEF Calls, Argument, View

\* A request goes on, and the rest stays.
LEMMA RequestMoves ==
    ASSUME TInv, NEW r \in Request, NEW x \in Served, Moving(x), req' = [req EXCEPT ![r] = x],
           UNCHANGED store, count' \in 0..MaxRequests, faults' \in 0..MaxFaults
    PROVE  TInv'
<1>1. req' \in [Request -> Served] /\ \A q \in Request : Moving(req'[q])
  BY DEF TInv
<1> QED
  BY <1>1 DEF TInv, store

\* Nothing asked.
LEMMA IdleServed == Idle \in Served /\ Moving(Idle)
<1>1. NoRow \in Row
  BY Steps DEF NoRow, Row
<1>2. <<>> \in Seq(Made)
  OBVIOUS
<1> QED
  BY <1>1, <1>2 DEF Idle, Served, Moving, Nobody

\* A request ends without a commit.
LEMMA Rolled ==
    ASSUME TInv, NEW r \in Request, Roll(r),
           UNCHANGED store, count' \in 0..MaxRequests, faults' \in 0..MaxFaults
    PROVE  TInv'
BY IdleServed, RequestMoves DEF Roll

\* What an update makes of the row.
LEMMA RowsMade ==
    /\ NewRow \in Row /\ NoRow \in Row
    /\ \A s \in Step, done \in SUBSET Step : Advanced(s, done) \in Row
    /\ \A s \in Step, done \in SUBSET Step : s # "welcome" => WentBack(s, done) \in Row
    /\ \A a, b, c \in Row : Merge(a, b, c) \in Row
<1>1. NewRow \in Row /\ NoRow \in Row
  BY Steps DEF NoRow, NewRow, Row
<1>2. ASSUME NEW s \in Step, NEW done \in SUBSET Step
      PROVE  /\ Advanced(s, done) \in Row
             /\ s # "welcome" => WentBack(s, done) \in Row
  <2>1. /\ s # "complete" => WIZARD_STEPS[index(s) + 1] \in Step
        /\ s # "welcome" => WIZARD_STEPS[index(s) - 1] \in Step
    BY Steps, Places
  <2>2. Advanced(s, done) \in Row
    BY <2>1 DEF Advanced, Row
  <2>3. s # "welcome" => WentBack(s, done) \in Row
    BY <2>1 DEF WentBack, Row
  <2> QED
    BY <2>2, <2>3
<1>3. ASSUME NEW a \in Row, NEW b \in Row, NEW c \in Row
      PROVE  Merge(a, b, c) \in Row
  BY DEF Merge, Row
<1> QED
  BY <1>1, <1>2, <1>3

\* Each step of a request keeps the types; the calls that begin, end or change nothing.
LEMMA PlainTypes ==
    ASSUME TInv, NEW r \in Request,
           Receive(r) \/ RowMissing(r) \/ InsertRow(r) \/ Guard(r) \/ Show(r) \/ Fails(r)
    PROVE  TInv'
<1>1. req[r] \in Served /\ Moving(req[r]) /\ count \in 0..MaxRequests /\ faults \in 0..MaxFaults
  BY AtHand DEF TInv
<1>2. CASE Receive(r)
  <2>1. PICK todo \in Pages \union (UNION {Forms(s) : s \in shown})
                      \union (IF Scripts THEN ApiCalls ELSE {}) :
            req' = [req EXCEPT ![r].todo = todo, ![r].at = "call"]
    BY <1>2 DEF Receive
  <2>2. todo \in Seq(Made)
    <3>1. shown \subseteq Step
      BY DEF TInv
    <3>2. todo \in Pages \union (UNION {Forms(s) : s \in Step}) \union ApiCalls
      BY <3>1
    <3> QED
      BY <3>2, HandlersMade
  <2> DEFINE x == [req[r] EXCEPT !.todo = todo, !.at = "call"]
  <2>3. x \in Served /\ Moving(x) /\ req' = [req EXCEPT ![r] = x]
    BY <1>1, <2>1, <2>2 DEF Served, Moving, TInv
  <2>4. UNCHANGED store /\ count' \in 0..MaxRequests /\ faults' \in 0..MaxFaults
    BY <1>1, <1>2, WizardAssumption DEF Receive
  <2> HIDE DEF x
  <2> QED
    BY <2>3, <2>4, RequestMoves
<1>3. CASE RowMissing(r)
  <2> DEFINE x == [req[r] EXCEPT !.at = "missing"]
  <2>1. x \in Served /\ Moving(x) /\ req' = [req EXCEPT ![r] = x]
    BY <1>1, <1>3 DEF RowMissing, Served, Moving, TInv
  <2>2. UNCHANGED store /\ count' \in 0..MaxRequests /\ faults' \in 0..MaxFaults
    BY <1>1, <1>3 DEF RowMissing
  <2> HIDE DEF x
  <2> QED
    BY <2>1, <2>2, RequestMoves
<1>4. CASE InsertRow(r)
  <2> DEFINE x == [req[r] EXCEPT !.at = "call", !.mine = NewRow]
  <2>1. x \in Served /\ Moving(x)
    BY <1>1, RowsMade DEF Served, Moving
  <2>2. UNCHANGED store /\ count' \in 0..MaxRequests /\ faults' \in 0..MaxFaults
    BY <1>1, <1>4 DEF InsertRow
  <2>3. Roll(r) \/ req' = [req EXCEPT ![r] = x]
    BY <1>4 DEF InsertRow, TInv
  <2> HIDE DEF x
  <2> QED
    BY <2>1, <2>2, <2>3, Rolled, RequestMoves
<1>5. CASE Guard(r)
  <2> DEFINE x == [req[r] EXCEPT !.todo = Next1(r)]
  <2>1. req[r].at = "call" /\ Next1(r) \in Seq(Made)
    BY <1>5, AtHand DEF Guard, Calls
  <2>2. x \in Served /\ Moving(x)
    BY <1>1, <2>1 DEF Served, Moving
  <2>3. UNCHANGED store /\ count' \in 0..MaxRequests /\ faults' \in 0..MaxFaults
    BY <1>1, <1>5 DEF Guard
  <2>4. Roll(r) \/ req' = [req EXCEPT ![r] = x]
    BY <1>5 DEF Guard, TInv
  <2> HIDE DEF x
  <2> QED
    BY <2>2, <2>3, <2>4, Rolled, RequestMoves
<1>6. CASE Show(r)
  <2> DEFINE page == IF index(Argument(r)) > index(View(r).step) THEN {} ELSE {Argument(r)}
             x == [req[r] EXCEPT !.todo = Next1(r), !.page = page]
  <2>1. req[r].at = "call" /\ Next1(r) \in Seq(Made) /\ page \subseteq Step
    BY <1>6, AtHand DEF Show, Calls
  <2>2. x \in Served /\ Moving(x)
    BY <1>1, <2>1 DEF Served, Moving
  <2>3. UNCHANGED store /\ count' \in 0..MaxRequests /\ faults' \in 0..MaxFaults
    BY <1>1, <1>6 DEF Show
  <2>4. req' = [req EXCEPT ![r] = x]
    BY <1>6 DEF Show, TInv
  <2> HIDE DEF x
  <2> QED
    BY <2>2, <2>3, <2>4, RequestMoves
<1>7. CASE Fails(r)
  <2>1. Roll(r) /\ UNCHANGED store /\ count' \in 0..MaxRequests /\ faults' \in 0..MaxFaults
    BY <1>1, <1>7, WizardAssumption DEF Fails
  <2> QED
    BY <2>1, Rolled
<1> QED
  BY <1>2, <1>3, <1>4, <1>5, <1>6, <1>7

\* Those that change the row of setup_state.
LEMMA RowTypes ==
    ASSUME TInv, NEW r \in Request, Read(r) \/ Load(r) \/ Flush(r)
    PROVE  TInv'
<1>1. /\ req[r] \in Served /\ Moving(req[r]) /\ View(r) \in Row
      /\ count \in 0..MaxRequests /\ faults \in 0..MaxFaults
  BY AtHand DEF TInv
<1>2. CASE Read(r)
  <2> DEFINE x == [req[r] EXCEPT !.at = "read", !.done = View(r).done]
  <2>1. x \in Served /\ Moving(x)
    BY <1>1, <1>2 DEF Read, Served, Moving, Row, Calls
  <2>2. UNCHANGED store /\ count' \in 0..MaxRequests /\ faults' \in 0..MaxFaults
        /\ req' = [req EXCEPT ![r] = x]
    BY <1>1, <1>2 DEF Read, TInv
  <2> HIDE DEF x
  <2> QED
    BY <2>1, <2>2, RequestMoves
<1>3. CASE Load(r)
  <2> DEFINE x == [req[r] EXCEPT !.at = "loaded", !.row = View(r)]
  <2>1. x \in Served /\ Moving(x)
    BY <1>1, <1>3 DEF Load, Served, Moving
  <2>2. UNCHANGED store /\ count' \in 0..MaxRequests /\ faults' \in 0..MaxFaults
        /\ req' = [req EXCEPT ![r] = x]
    BY <1>1, <1>3 DEF Load, TInv
  <2> HIDE DEF x
  <2> QED
    BY <2>1, <2>2, RequestMoves
<1>4. CASE Flush(r)
  <2> DEFINE mine == IF Target(r) = req[r].row THEN req[r].mine
                     ELSE Merge(req[r].row, Target(r), View(r))
             x == [req[r] EXCEPT !.todo = Next1(r), !.at = "call", !.done = {}, !.row = NoRow,
                                 !.mine = mine]
  <2>1. Next1(r) \in Seq(Made) /\ (Calls(r, {"advance"}) \/ Calls(r, {"back"}))
    BY <1>1, <1>4, AtHand DEF Flush, Moving, Calls
  <2>2. Target(r) \in Row
    <3>1. Argument(r) \in Step /\ (Calls(r, {"advance"}) \/ Argument(r) # "welcome")
      BY <2>1, AtHand DEF Calls
    <3>2. req[r].done \subseteq Step
      BY <1>1 DEF Served
    <3> QED
      BY <3>1, <3>2, RowsMade DEF Target
  <2>3. mine \in Row
    <3>1. req[r].mine \in Row /\ req[r].row \in Row
      BY <1>1 DEF Served
    <3> QED
      BY <1>1, <2>2, <3>1, RowsMade
  <2> HIDE DEF mine
  <2>4. x \in Served /\ Moving(x)
    BY <1>1, <2>1, <2>3, RowsMade DEF Served, Moving
  <2>5. UNCHANGED store /\ count' \in 0..MaxRequests /\ faults' \in 0..MaxFaults
        /\ req' = [req EXCEPT ![r] = x]
    BY <1>1, <1>4 DEF Flush, TInv, mine
  <2> HIDE DEF x
  <2> QED
    BY <2>4, <2>5, RequestMoves
<1> QED
  BY <1>2, <1>3, <1>4

\* Those that write accounts, settings and machines.
LEMMA OtherTypes ==
    ASSUME TInv, NEW r \in Request,
           \/ Count(r) \/ CreateUser(r) \/ SettingsMissing(r) \/ InsertSettings(r)
           \/ UpdateSettings(r) \/ AddMachine(r)
    PROVE  TInv'
<1>1. /\ req[r] \in Served /\ Moving(req[r]) /\ count \in 0..MaxRequests /\ faults \in 0..MaxFaults
  BY AtHand DEF TInv
<1>2. UNCHANGED store /\ count' \in 0..MaxRequests /\ faults' \in 0..MaxFaults
  BY <1>1 DEF Count, CreateUser, SettingsMissing, InsertSettings, UpdateSettings, AddMachine
<1>3. req[r].todo # <<>> => Next1(r) \in Seq(Made)
  BY AtHand
<1>4. req[r].todo # <<>>
  BY DEF Count, CreateUser, SettingsMissing, InsertSettings, UpdateSettings, AddMachine, Calls
<1>5. Roll(r) \/ \E x \in Served : Moving(x) /\ req' = [req EXCEPT ![r] = x]
  <2>1. CASE Count(r)
    <3> DEFINE x == [req[r] EXCEPT !.todo = Next1(r)]
    <3>1. x \in Served /\ Moving(x)
      BY <1>1, <1>3, <1>4, <2>1 DEF Count, Calls, Served, Moving
    <3>2. Roll(r) \/ req' = [req EXCEPT ![r] = x]
      BY <2>1 DEF Count, TInv
    <3> HIDE DEF x
    <3> QED
      BY <3>1, <3>2
  <2>2. CASE CreateUser(r)
    <3> DEFINE x == [req[r] EXCEPT !.todo = Next1(r), !.user = Argument(r)]
    <3>1. Argument(r) \in Name
      BY <2>2, AtHand DEF CreateUser
    <3>2. x \in Served /\ Moving(x)
      BY <1>1, <1>3, <1>4, <2>2, <3>1 DEF CreateUser, Calls, Served, Moving
    <3>3. Roll(r) \/ req' = [req EXCEPT ![r] = x]
      BY <2>2 DEF CreateUser, TInv
    <3> HIDE DEF x
    <3> QED
      BY <3>2, <3>3
  <2>3. CASE SettingsMissing(r)
    <3> DEFINE x == [req[r] EXCEPT !.at = "missing"]
    <3>1. x \in Served /\ Moving(x) /\ req' = [req EXCEPT ![r] = x]
      BY <1>1, <2>3 DEF SettingsMissing, Served, Moving, TInv
    <3> HIDE DEF x
    <3> QED
      BY <3>1
  <2>4. CASE InsertSettings(r)
    <3> DEFINE x == [req[r] EXCEPT !.todo = Next1(r), !.at = "call", !.network = TRUE]
    <3>1. x \in Served /\ Moving(x)
      BY <1>1, <1>3, <1>4 DEF Served, Moving
    <3>2. Roll(r) \/ req' = [req EXCEPT ![r] = x]
      BY <2>4 DEF InsertSettings, TInv
    <3> HIDE DEF x
    <3> QED
      BY <3>1, <3>2
  <2>5. CASE UpdateSettings(r)
    <3> DEFINE x == [req[r] EXCEPT !.todo = Next1(r)]
               y == [req[r] EXCEPT !.todo = Next1(r), !.network = TRUE]
    <3>1. x \in Served /\ Moving(x) /\ y \in Served /\ Moving(y)
      BY <1>1, <1>3, <1>4, <2>5 DEF UpdateSettings, Served, Moving
    <3>2. req' = [req EXCEPT ![r] = x] \/ req' = [req EXCEPT ![r] = y]
      BY <2>5 DEF UpdateSettings, TInv
    <3> HIDE DEF x, y
    <3> QED
      BY <3>1, <3>2
  <2>6. CASE AddMachine(r)
    <3> DEFINE x == [req[r] EXCEPT !.todo = Next1(r), !.machine = TRUE]
    <3>1. x \in Served /\ Moving(x)
      BY <1>1, <1>3, <1>4, <2>6 DEF AddMachine, Calls, Served, Moving
    <3>2. Roll(r) \/ req' = [req EXCEPT ![r] = x]
      BY <2>6 DEF AddMachine, TInv
    <3> HIDE DEF x
    <3> QED
      BY <3>1, <3>2
  <2> QED
    BY <2>1, <2>2, <2>3, <2>4, <2>5, <2>6
<1> QED
  BY <1>2, <1>5, Rolled, RequestMoves

\* The commit.
LEMMA CommitTypes ==
    ASSUME TInv, NEW r \in Request, Commit(r)
    PROVE  TInv'
<1>1. req[r] \in Served /\ View(r) \in Row
  BY AtHand
<1>2. setup' \in Row /\ users' \subseteq Name /\ shown' \subseteq Step
  BY <1>1 DEF TInv, Commit, Served
<1>3. network' \in BOOLEAN /\ machines' \in BOOLEAN
  BY DEF Commit
<1>4. req' \in [Request -> Served] /\ \A q \in Request : Moving(req'[q])
  BY IdleServed DEF TInv, Commit, Roll
<1>5. count' \in 0..MaxRequests /\ faults' \in 0..MaxFaults
  BY DEF TInv, Commit
<1> QED
  BY <1>2, <1>3, <1>4, <1>5 DEF TInv

\* Before the first request.
LEMMA TypesInit == Init => TInv
<1> SUFFICES ASSUME Init PROVE TInv
  OBVIOUS
<1>1. setup \in Row /\ users \subseteq Name /\ shown \subseteq Step
  BY RowsMade DEF Init
<1>2. network \in BOOLEAN /\ machines \in BOOLEAN
  BY DEF Init
<1>3. req \in [Request -> Served] /\ \A q \in Request : Moving(req[q])
  BY IdleServed DEF Init
<1>4. count \in 0..MaxRequests /\ faults \in 0..MaxFaults
  BY WizardAssumption DEF Init
<1> QED
  BY <1>1, <1>2, <1>3, <1>4 DEF TInv

\* Every step.
LEMMA TypesStep == TInv /\ [Next]_vars => TInv'
<1> SUFFICES ASSUME TInv, [Next]_vars PROVE TInv'
  OBVIOUS
<1>1. CASE Next
  BY <1>1, PlainTypes, RowTypes, OtherTypes, CommitTypes DEF Next, Serve
<1>2. CASE UNCHANGED vars
  BY <1>2 DEF TInv, vars
<1> QED
  BY <1>1, <1>2

\* Rows, requests and what they are about to write have their types, whoever calls: an update
\* finds a step after or before the one it is about (setup_state.py:31-78).
THEOREM TypeCorrect == Spec => []TypeOK
<1>1. TInv => TypeOK
  <2> SUFFICES ASSUME TInv PROVE TypeOK
    OBVIOUS
  <2>1. ASSUME NEW r \in Request
        PROVE  /\ \A i \in DOMAIN req[r].todo : req[r].todo[i] \in Call
               /\ req[r].at \in {"idle", "call", "missing", "read", "loaded"}
               /\ req[r].row \in Row /\ req[r].mine \in Row
               /\ req[r].user \in Name \union {Nobody}
    BY DEF TInv, Served, Made
  <2> QED
    BY <2>1 DEF TInv, TypeOK
<1> QED
  BY <1>1, TypesInit, TypesStep, PTL DEF Spec

----------------------------------------------------------------------------
\* Before there is an account.

\* A row at one of the first two steps, and the row that comes with the first account.
Early(v) == v.completed = FALSE /\ v.step \in {"welcome", "admin_account"} /\ v.done \subseteq {"welcome"}
First(v) == v.here = TRUE /\ v.step = "network" /\ "admin_account" \in v.done

\* What is left of the forms of the first two pages, and of requests for any page.
AdminStep == <<<<"advance", "admin_account">>>>
EarlyTodo ==
    {<<>>, AdminStep, <<<<"advance", "welcome">>>>, <<<<"back", "admin_account">>>>}
    \union {<<<<"open">>, <<"show", s>>>> : s \in Step} \union {<<<<"show", s>>>> : s \in Step}
    \union {<<<<"count">>, <<"user", n>>, <<"advance", "admin_account">>>> : n \in Name}
    \union {<<<<"user", n>>, <<"advance", "admin_account">>>> : n \in Name}

EarlyRequest(x) ==
    /\ x.todo \in EarlyTodo /\ x.page \subseteq {"welcome", "admin_account"}
    /\ Early(x.row) /\ x.done \subseteq {"welcome"}
    /\ x.user = Nobody => Early(x.mine) /\ x.todo # AdminStep
    /\ x.user # Nobody => \/ x.todo = AdminStep /\ Early(x.mine)
                          \/ x.todo = <<>> /\ First(x.mine)

NoAccount ==
    users = {} => /\ shown \subseteq {"welcome", "admin_account"} /\ Early(setup)
                  /\ \A r \in Request : EarlyRequest(req[r])

\* The next call of such a request, and what is left after it.
LEMMA EarlyCalls ==
    ASSUME NEW todo \in EarlyTodo, todo # <<>>
    PROVE  /\ Tail(todo) \in EarlyTodo
           /\ Head(todo)[1] \in {"open", "show", "advance", "back", "count", "user"}
           /\ Head(todo)[1] = "advance" => /\ Tail(todo) = <<>>
                                           /\ Head(todo)[2] = IF todo = AdminStep THEN "admin_account"
                                                                                  ELSE "welcome"
           /\ Head(todo)[1] = "back" => Tail(todo) = <<>> /\ Head(todo)[2] = "admin_account"
           /\ Head(todo)[1] = "user" <=> Tail(todo) = AdminStep
           /\ todo = AdminStep => Head(todo)[1] = "advance"
<1>1. CASE todo \in {AdminStep, <<<<"advance", "welcome">>>>, <<<<"back", "admin_account">>>>}
  <2>1. <<>> \in EarlyTodo /\ <<>> # AdminStep
    BY DEF EarlyTodo, AdminStep
  <2>2. CASE todo = AdminStep
    BY <2>1, <2>2 DEF AdminStep
  <2>3. CASE todo = <<<<"advance", "welcome">>>>
    BY <2>1, <2>3 DEF AdminStep
  <2>4. CASE todo = <<<<"back", "admin_account">>>>
    BY <2>1, <2>4 DEF AdminStep
  <2> QED
    BY <1>1, <2>2, <2>3, <2>4
<1>2. ASSUME NEW s \in Step, todo = <<<<"open">>, <<"show", s>>>>
      PROVE  Tail(todo) = <<<<"show", s>>>> /\ Head(todo) = <<"open">> /\ Tail(todo) # AdminStep
             /\ todo # AdminStep
  BY <1>2 DEF AdminStep
<1>3. ASSUME NEW s \in Step, todo = <<<<"show", s>>>>
      PROVE  Tail(todo) = <<>> /\ Head(todo) = <<"show", s>> /\ Tail(todo) # AdminStep
             /\ todo # AdminStep
  BY <1>3 DEF AdminStep
<1>4. ASSUME NEW n \in Name, todo = <<<<"count">>, <<"user", n>>, <<"advance", "admin_account">>>>
      PROVE  /\ Tail(todo) = <<<<"user", n>>, <<"advance", "admin_account">>>>
             /\ Head(todo) = <<"count">> /\ Tail(todo) # AdminStep /\ todo # AdminStep
  BY <1>4 DEF AdminStep
<1>5. ASSUME NEW n \in Name, todo = <<<<"user", n>>, <<"advance", "admin_account">>>>
      PROVE  Tail(todo) = AdminStep /\ Head(todo) = <<"user", n>> /\ todo # AdminStep
  BY <1>5 DEF AdminStep
<1>6. \/ todo \in {AdminStep, <<<<"advance", "welcome">>>>, <<<<"back", "admin_account">>>>}
      \/ \E s \in Step : todo = <<<<"open">>, <<"show", s>>>>
      \/ \E s \in Step : todo = <<<<"show", s>>>>
      \/ \E n \in Name : todo = <<<<"count">>, <<"user", n>>, <<"advance", "admin_account">>>>
      \/ \E n \in Name : todo = <<<<"user", n>>, <<"advance", "admin_account">>>>
  BY DEF EarlyTodo
<1>7. CASE \E s \in Step : todo = <<<<"open">>, <<"show", s>>>>
  <2>1. PICK s \in Step : todo = <<<<"open">>, <<"show", s>>>>
    BY <1>7
  <2>2. <<<<"show", s>>>> \in EarlyTodo /\ Head(todo)[1] = "open"
    BY <1>2, <2>1 DEF EarlyTodo
  <2> QED
    BY <1>2, <2>1, <2>2
<1>8. CASE \E s \in Step : todo = <<<<"show", s>>>>
  <2>1. PICK s \in Step : todo = <<<<"show", s>>>>
    BY <1>8
  <2>2. <<>> \in EarlyTodo /\ Head(todo)[1] = "show"
    BY <1>3, <2>1 DEF EarlyTodo
  <2> QED
    BY <1>3, <2>1, <2>2
<1>9. CASE \E n \in Name : todo = <<<<"count">>, <<"user", n>>, <<"advance", "admin_account">>>>
  <2>1. PICK n \in Name : todo = <<<<"count">>, <<"user", n>>, <<"advance", "admin_account">>>>
    BY <1>9
  <2>2. <<<<"user", n>>, <<"advance", "admin_account">>>> \in EarlyTodo /\ Head(todo)[1] = "count"
    BY <1>4, <2>1 DEF EarlyTodo
  <2> QED
    BY <1>4, <2>1, <2>2
<1>10. CASE \E n \in Name : todo = <<<<"user", n>>, <<"advance", "admin_account">>>>
  <2>1. PICK n \in Name : todo = <<<<"user", n>>, <<"advance", "admin_account">>>>
    BY <1>10
  <2>2. AdminStep \in EarlyTodo /\ Head(todo)[1] = "user"
    BY <1>5, <2>1 DEF EarlyTodo
  <2> QED
    BY <1>5, <2>1, <2>2
<1> QED
  BY <1>1, <1>6, <1>7, <1>8, <1>9, <1>10

\* The pages that have been shown send such forms only, and may ask for any page.
LEMMA EarlyForms ==
    ASSUME NEW todo \in Pages \union (UNION {Forms(s) : s \in {"welcome", "admin_account"}})
    PROVE  todo \in EarlyTodo /\ todo # AdminStep
<1>1. CASE todo \in Pages
  <2>1. PICK s \in Step : todo = <<<<"open">>, <<"show", s>>>>
    BY <1>1 DEF Pages
  <2> QED
    BY <2>1 DEF EarlyTodo, AdminStep
<1>2. CASE todo \in Forms("welcome")
  BY <1>2 DEF Forms, EarlyTodo, AdminStep
<1>3. CASE todo \in Forms("admin_account")
  <2>1. \/ \E n \in Name : todo = <<<<"count">>, <<"user", n>>, <<"advance", "admin_account">>>>
        \/ todo = <<<<"back", "admin_account">>>>
    BY <1>3 DEF Forms
  <2> QED
    BY <2>1 DEF EarlyTodo, AdminStep
<1> QED
  BY <1>1, <1>2, <1>3

\* What the row becomes.
LEMMA EarlyRows ==
    /\ Early(NoRow) /\ Early(NewRow) /\ EarlyRequest(Idle)
    /\ \A a, c \in Row, done \in SUBSET {"welcome"} : Early(a) /\ Early(c) =>
           /\ Early(Merge(a, Advanced("welcome", done), c))
           /\ Early(Merge(a, WentBack("admin_account", done), c))
           /\ Advanced("admin_account", done) # a
           /\ First(Merge(a, Advanced("admin_account", done), c))
<1>1. Early(NoRow) /\ Early(NewRow)
  BY DEF Early, NoRow, NewRow
<1>2. EarlyRequest(Idle)
  BY <1>1 DEF EarlyRequest, Idle, EarlyTodo, AdminStep
<1>3. ASSUME NEW a \in Row, NEW c \in Row, NEW done \in SUBSET {"welcome"}, Early(a), Early(c)
      PROVE  /\ Early(Merge(a, Advanced("welcome", done), c))
             /\ Early(Merge(a, WentBack("admin_account", done), c))
             /\ Advanced("admin_account", done) # a
             /\ First(Merge(a, Advanced("admin_account", done), c))
  <2>1. /\ WIZARD_STEPS[index("welcome") + 1] = "admin_account"
        /\ WIZARD_STEPS[index("admin_account") - 1] = "welcome"
        /\ WIZARD_STEPS[index("admin_account") + 1] = "network"
    BY Steps, Places
  <2>2. /\ Merge(a, Advanced("welcome", done), c).completed = FALSE
        /\ Merge(a, WentBack("admin_account", done), c).completed = FALSE
        /\ Merge(a, Advanced("admin_account", done), c).here = TRUE
    <3>1. "welcome" # "complete" /\ a.completed = FALSE /\ c.completed = FALSE
      BY <1>3 DEF Early
    <3> QED
      BY <3>1 DEF Merge, Advanced, WentBack
  <2>3. /\ Merge(a, Advanced("welcome", done), c).step \in {"welcome", "admin_account"}
        /\ Merge(a, WentBack("admin_account", done), c).step \in {"welcome", "admin_account"}
        /\ Merge(a, Advanced("admin_account", done), c).step = "network"
    BY <1>3, <2>1 DEF Early, Merge, Advanced, WentBack
  <2>4. /\ Merge(a, Advanced("welcome", done), c).done \subseteq {"welcome"}
        /\ Merge(a, WentBack("admin_account", done), c).done \subseteq {"welcome"}
        /\ "admin_account" \in Merge(a, Advanced("admin_account", done), c).done
    <3>1. a.done # done \union {"admin_account"}
      BY <1>3 DEF Early
    <3> QED
      BY <1>3, <2>1, <3>1 DEF Early, Merge, Advanced, WentBack
  <2>5. Advanced("admin_account", done) # a
    BY <1>3, <2>1 DEF Early, Advanced
  <2> QED
    BY <2>2, <2>3, <2>4, <2>5 DEF Early, First
<1> QED
  BY <1>1, <1>2, <1>3

\* As long as there is no account, a request that goes on keeps to the first steps.
LEMMA EarlyMoves ==
    ASSUME TInv, NoAccount, NEW r \in Request, NEW x, UNCHANGED store, req' = [req EXCEPT ![r] = x],
           users = {} => EarlyRequest(x)
    PROVE  NoAccount'
<1>1. req'[r] = x /\ \A q \in Request : q # r => req'[q] = req[q]
  BY DEF TInv
<1> QED
  BY <1>1 DEF NoAccount, store

\* The row that such a request sees.
LEMMA EarlyView ==
    ASSUME NoAccount, NEW r \in Request, users = {}, req[r].todo # <<>>
    PROVE  EarlyRequest(req[r]) /\ Early(View(r)) /\ Early(req[r].mine)
BY DEF NoAccount, EarlyRequest, View

\* Requests that begin, read, or end without a commit.
LEMMA EarlyPlain ==
    ASSUME Scripts = FALSE, TInv, NoAccount, NEW r \in Request,
           \/ Receive(r) \/ RowMissing(r) \/ InsertRow(r) \/ Guard(r) \/ Show(r) \/ Read(r) \/ Load(r)
           \/ Fails(r)
    PROVE  NoAccount'
<1>1. /\ req[r] \in Served /\ Moving(req[r])
      /\ users = {} => EarlyRequest(req[r])
  BY AtHand DEF TInv, NoAccount
<1>2. ASSUME Roll(r), UNCHANGED store PROVE NoAccount'
  BY <1>2, EarlyRows, EarlyMoves DEF Roll
<1>3. CASE Receive(r)
  <2>1. PICK todo \in Pages \union (UNION {Forms(s) : s \in shown})
                      \union (IF Scripts THEN ApiCalls ELSE {}) :
            req' = [req EXCEPT ![r].todo = todo, ![r].at = "call"]
    BY <1>3 DEF Receive
  <2> DEFINE x == [req[r] EXCEPT !.todo = todo, !.at = "call"]
  <2>2. /\ req' = [req EXCEPT ![r] = x] /\ UNCHANGED store
        /\ x.todo = todo /\ x.page = req[r].page /\ x.row = req[r].row /\ x.done = req[r].done
        /\ x.user = req[r].user /\ x.mine = req[r].mine
    BY <1>1, <1>3, <2>1 DEF Receive, Served, TInv
  <2> HIDE DEF x
  <2>3. users = {} => EarlyRequest(x)
    <3>1. SUFFICES ASSUME users = {} PROVE EarlyRequest(x)
      OBVIOUS
    <3>2. todo \in Pages \union (UNION {Forms(s) : s \in {"welcome", "admin_account"}})
      BY <2>1, <3>1 DEF NoAccount
    <3>3. req[r].user = Nobody
      BY <1>3 DEF Receive, Idle
    <3> QED
      BY <1>1, <2>2, <3>1, <3>2, <3>3, EarlyForms DEF EarlyRequest
  <2> QED
    BY <2>2, <2>3, EarlyMoves
<1>4. CASE RowMissing(r)
  <2> DEFINE x == [req[r] EXCEPT !.at = "missing"]
  <2>1. /\ req' = [req EXCEPT ![r] = x] /\ UNCHANGED store
        /\ x.todo = req[r].todo /\ x.page = req[r].page /\ x.row = req[r].row /\ x.done = req[r].done
        /\ x.user = req[r].user /\ x.mine = req[r].mine
    BY <1>1, <1>4 DEF RowMissing, Served, TInv
  <2> HIDE DEF x
  <2> QED
    BY <1>1, <2>1, EarlyMoves DEF EarlyRequest
<1>5. CASE InsertRow(r)
  <2> DEFINE x == [req[r] EXCEPT !.at = "call", !.mine = NewRow]
  <2>1. /\ x.todo = req[r].todo /\ x.page = req[r].page /\ x.row = req[r].row /\ x.done = req[r].done
        /\ x.user = req[r].user /\ x.mine = NewRow
    BY <1>1 DEF Served
  <2>2. UNCHANGED store /\ (Roll(r) \/ req' = [req EXCEPT ![r] = x]) /\ req[r].todo # <<>>
    BY <1>5 DEF InsertRow, TInv, Calls
  <2> HIDE DEF x
  <2> QED
    BY <1>1, <1>2, <2>1, <2>2, EarlyRows, EarlyMoves DEF EarlyRequest
<1>6. CASE Guard(r)
  <2> DEFINE x == [req[r] EXCEPT !.todo = Next1(r)]
  <2>1. /\ x.todo = Tail(req[r].todo) /\ x.page = req[r].page /\ x.row = req[r].row
        /\ x.done = req[r].done /\ x.user = req[r].user /\ x.mine = req[r].mine
    BY <1>1 DEF Served, Next1
  <2>2. /\ UNCHANGED store /\ (Roll(r) \/ req' = [req EXCEPT ![r] = x])
        /\ req[r].todo # <<>> /\ Head(req[r].todo)[1] \in {"guard", "open"}
    BY <1>6 DEF Guard, TInv, Calls
  <2> HIDE DEF x
  <2>3. users = {} => EarlyRequest(x)
    BY <1>1, <2>1, <2>2, EarlyCalls DEF EarlyRequest
  <2> QED
    BY <1>2, <2>2, <2>3, EarlyMoves
<1>7. CASE Show(r)
  <2> DEFINE page == IF index(Argument(r)) > index(View(r).step) THEN {} ELSE {Argument(r)}
             x == [req[r] EXCEPT !.todo = Next1(r), !.page = page]
  <2>1. /\ x.todo = Tail(req[r].todo) /\ x.page = page /\ x.row = req[r].row
        /\ x.done = req[r].done /\ x.user = req[r].user /\ x.mine = req[r].mine
    BY <1>1 DEF Served, Next1
  <2>2. /\ UNCHANGED store /\ req' = [req EXCEPT ![r] = x]
        /\ req[r].todo # <<>> /\ Head(req[r].todo)[1] = "show" /\ Argument(r) \in Step
    BY <1>7, AtHand DEF Show, TInv, Calls
  <2>3. users = {} => page \subseteq {"welcome", "admin_account"}
    <3>1. SUFFICES ASSUME users = {} PROVE page \subseteq {"welcome", "admin_account"}
      OBVIOUS
    <3>2. View(r).step \in {"welcome", "admin_account"}
      BY <2>2, <3>1, EarlyView DEF Early
    <3> QED
      BY <2>2, <3>2, Steps, Places
  <2> HIDE DEF x, page
  <2>4. users = {} => EarlyRequest(x)
    BY <1>1, <2>1, <2>2, <2>3, EarlyCalls DEF EarlyRequest
  <2> QED
    BY <2>2, <2>4, EarlyMoves
<1>8. CASE Read(r)
  <2> DEFINE x == [req[r] EXCEPT !.at = "read", !.done = View(r).done]
  <2>1. /\ x.todo = req[r].todo /\ x.page = req[r].page /\ x.row = req[r].row
        /\ x.done = View(r).done /\ x.user = req[r].user /\ x.mine = req[r].mine
    BY <1>1 DEF Served
  <2>2. UNCHANGED store /\ req' = [req EXCEPT ![r] = x] /\ req[r].todo # <<>>
    BY <1>8 DEF Read, TInv, Calls
  <2> HIDE DEF x
  <2>3. users = {} => EarlyRequest(x)
    BY <1>1, <2>1, <2>2, EarlyView DEF EarlyRequest, Early
  <2> QED
    BY <2>2, <2>3, EarlyMoves
<1>9. CASE Load(r)
  <2> DEFINE x == [req[r] EXCEPT !.at = "loaded", !.row = View(r)]
  <2>1. /\ x.todo = req[r].todo /\ x.page = req[r].page /\ x.row = View(r)
        /\ x.done = req[r].done /\ x.user = req[r].user /\ x.mine = req[r].mine
    BY <1>1 DEF Served
  <2>2. UNCHANGED store /\ req' = [req EXCEPT ![r] = x] /\ req[r].todo # <<>>
    BY <1>1, <1>9 DEF Load, TInv, Moving
  <2> HIDE DEF x
  <2>3. users = {} => EarlyRequest(x)
    BY <1>1, <2>1, <2>2, EarlyView DEF EarlyRequest
  <2> QED
    BY <2>2, <2>3, EarlyMoves
<1>10. CASE Fails(r)
  BY <1>2, <1>10 DEF Fails
<1> QED
  BY <1>3, <1>4, <1>5, <1>6, <1>7, <1>8, <1>9, <1>10

\* The update of the row: only the request that brings the account goes past the second step.
LEMMA EarlyFlush ==
    ASSUME TInv, NoAccount, NEW r \in Request, Flush(r)
    PROVE  NoAccount'
<1> DEFINE mine == IF Target(r) = req[r].row THEN req[r].mine
                   ELSE Merge(req[r].row, Target(r), View(r))
           x == [req[r] EXCEPT !.todo = Next1(r), !.at = "call", !.done = {}, !.row = NoRow,
                               !.mine = mine]
<1>1. req[r] \in Served /\ Moving(req[r]) /\ View(r) \in Row /\ req[r].row \in Row
  BY AtHand DEF TInv, Served
<1>2. /\ x.todo = Tail(req[r].todo) /\ x.page = req[r].page /\ x.row = NoRow
      /\ x.done = {} /\ x.user = req[r].user /\ x.mine = mine
  BY <1>1 DEF Served, Next1
<1>3. /\ UNCHANGED store /\ req' = [req EXCEPT ![r] = x]
      /\ req[r].todo # <<>> /\ Head(req[r].todo)[1] \in {"advance", "back"}
  BY <1>1 DEF Flush, TInv, Moving
<1>4. ASSUME users = {} PROVE EarlyRequest(x)
  <2>1. /\ EarlyRequest(req[r]) /\ Early(View(r)) /\ Early(req[r].mine) /\ Early(req[r].row)
        /\ req[r].done \in SUBSET {"welcome"} /\ req[r].todo \in EarlyTodo
    BY <1>3, <1>4, EarlyView DEF EarlyRequest
  <2>2. /\ Tail(req[r].todo) = <<>> /\ <<>> \in EarlyTodo /\ <<>> # AdminStep
    BY <1>3, <2>1, EarlyCalls DEF EarlyTodo, AdminStep
  <2>3. CASE req[r].todo = AdminStep
    <3>1. Target(r) = Advanced("admin_account", req[r].done)
      BY <1>3, <2>1, <2>3, EarlyCalls DEF Target, Calls, Argument
    <3>2. First(mine)
      BY <1>1, <2>1, <3>1, EarlyRows
    <3>3. req[r].user # Nobody
      BY <2>1, <2>3 DEF EarlyRequest
    <3> HIDE DEF mine, x
    <3> QED
      BY <1>2, <2>1, <2>2, <3>2, <3>3, EarlyRows DEF EarlyRequest
  <2>4. CASE req[r].todo # AdminStep
    <3>1. \/ Target(r) = Advanced("welcome", req[r].done)
          \/ Target(r) = WentBack("admin_account", req[r].done)
      BY <1>3, <2>1, <2>4, EarlyCalls DEF Target, Calls, Argument
    <3>2. Early(mine)
      BY <1>1, <2>1, <3>1, EarlyRows
    <3>3. req[r].user = Nobody
      BY <1>3, <2>1, <2>4 DEF EarlyRequest
    <3> HIDE DEF mine, x
    <3> QED
      BY <1>2, <2>1, <2>2, <3>2, <3>3, EarlyRows DEF EarlyRequest
  <2> QED
    BY <2>3, <2>4
<1> HIDE DEF mine, x
<1> QED
  BY <1>3, <1>4, EarlyMoves

\* The account is counted and inserted before the step; the later pages' calls are not made yet.
LEMMA EarlyAccount ==
    ASSUME TInv, NoAccount, NEW r \in Request,
           \/ Count(r) \/ CreateUser(r) \/ SettingsMissing(r) \/ InsertSettings(r)
           \/ UpdateSettings(r) \/ AddMachine(r)
    PROVE  NoAccount'
<1>1. /\ req[r] \in Served /\ (users = {} => EarlyRequest(req[r])) /\ UNCHANGED store
      /\ req[r].todo # <<>>
  BY AtHand DEF TInv, NoAccount, Count, CreateUser, SettingsMissing, InsertSettings, UpdateSettings,
                AddMachine, Calls
<1>2. CASE users # {}
  BY <1>1, <1>2 DEF NoAccount, store
<1>3. CASE users = {} /\ Head(req[r].todo)[1] \in {"settings", "machine"}
  BY <1>1, <1>3, EarlyCalls DEF EarlyRequest
<1>4. CASE users = {} /\ Count(r)
  <2> DEFINE x == [req[r] EXCEPT !.todo = Next1(r)]
  <2>1. /\ x.todo = Tail(req[r].todo) /\ x.page = req[r].page /\ x.row = req[r].row
        /\ x.done = req[r].done /\ x.user = req[r].user /\ x.mine = req[r].mine
    BY <1>1 DEF Served, Next1
  <2>2. req' = [req EXCEPT ![r] = x] /\ Head(req[r].todo)[1] = "count"
    BY <1>4 DEF Count, TInv, Calls
  <2> HIDE DEF x
  <2>3. EarlyRequest(x)
    BY <1>1, <1>4, <2>1, <2>2, EarlyCalls DEF EarlyRequest
  <2> QED
    BY <1>1, <2>2, <2>3, EarlyMoves
<1>5. CASE users = {} /\ CreateUser(r)
  <2> DEFINE x == [req[r] EXCEPT !.todo = Next1(r), !.user = Argument(r)]
  <2>1. /\ x.todo = Tail(req[r].todo) /\ x.page = req[r].page /\ x.row = req[r].row
        /\ x.done = req[r].done /\ x.user = Argument(r) /\ x.mine = req[r].mine
    BY <1>1 DEF Served, Next1
  <2>2. req' = [req EXCEPT ![r] = x] /\ Head(req[r].todo)[1] = "user"
    BY <1>5 DEF CreateUser, TInv, Calls
  <2>3. Argument(r) # Nobody
    BY <1>5, AtHand, WizardAssumption DEF CreateUser, Nobody
  <2> HIDE DEF x
  <2>4. EarlyRequest(x)
    <3>1. Tail(req[r].todo) = AdminStep /\ req[r].todo # AdminStep /\ AdminStep \in EarlyTodo
      BY <1>1, <1>5, <2>2, EarlyCalls DEF EarlyRequest
    <3>2. Early(req[r].mine)
      BY <1>1, <1>5, EarlyView
    <3> QED
      BY <1>1, <1>5, <2>1, <2>3, <3>1, <3>2 DEF EarlyRequest
  <2> QED
    BY <1>1, <2>2, <2>4, EarlyMoves
<1> QED
  BY <1>2, <1>3, <1>4, <1>5
     DEF Count, CreateUser, SettingsMissing, InsertSettings, UpdateSettings, AddMachine, Calls

\* A commit brings the account together with the step that records it, or neither.
LEMMA CommitFirst ==
    ASSUME TInv, NoAccount, NEW r \in Request, Commit(r)
    PROVE  /\ NoAccount'
           /\ users = {} /\ users' # {} => "admin_account" \in setup'.done /\ setup'.step = "network"
<1>1. req[r].todo = <<>> /\ users' = users \union ({req[r].user} \ {Nobody}) /\ setup' = View(r)
      /\ shown' = shown \union req[r].page
  BY DEF Commit
<1>2. req'[r] = Idle /\ \A q \in Request : q # r => req'[q] = req[q]
  BY DEF Commit, Roll, TInv
<1>3. <<>> # AdminStep
  BY DEF AdminStep
<1>4. CASE users # {}
  BY <1>1, <1>4 DEF NoAccount
<1>5. CASE users = {} /\ req[r].user = Nobody
  <2>1. users' = {} /\ EarlyRequest(req[r]) /\ Early(req[r].mine) /\ Early(setup)
    BY <1>1, <1>5 DEF NoAccount, EarlyRequest
  <2>2. Early(setup')
    BY <1>1, <2>1 DEF View
  <2>3. shown' \subseteq {"welcome", "admin_account"} /\ \A q \in Request : EarlyRequest(req'[q])
    BY <1>1, <1>2, <1>5, <2>1, EarlyRows DEF NoAccount, EarlyRequest
  <2> QED
    BY <2>1, <2>2, <2>3 DEF NoAccount
<1>6. CASE users = {} /\ req[r].user # Nobody
  <2>1. users' # {} /\ First(req[r].mine)
    BY <1>1, <1>3, <1>6 DEF NoAccount, EarlyRequest
  <2>2. setup' = req[r].mine
    BY <1>1, <2>1 DEF View, First
  <2> QED
    BY <2>1, <2>2 DEF NoAccount, First
<1> QED
  BY <1>4, <1>5, <1>6

\* Every step.
LEMMA EarlyStep ==
    ASSUME Scripts = FALSE, TInv, NoAccount, [Next]_vars
    PROVE  NoAccount'
<1>1. CASE Next
  BY <1>1, EarlyPlain, EarlyFlush, EarlyAccount, CommitFirst DEF Next, Serve
<1>2. CASE UNCHANGED vars
  BY <1>2 DEF NoAccount, vars
<1> QED
  BY <1>1, <1>2

\* Before the first request.
LEMMA EarlyInit == Init => NoAccount
<1> SUFFICES ASSUME Init PROVE NoAccount
  OBVIOUS
<1>1. Early(setup) /\ \A r \in Request : EarlyRequest(req[r])
  BY EarlyRows DEF Init
<1> QED
  BY <1>1 DEF NoAccount, Init

\* Accounts appear in commits only.
LEMMA AccountsByCommit ==
    ASSUME [Next]_vars, users' # users
    PROVE  \E r \in Request : Commit(r)
BY DEF Next, Serve, vars, store, Receive, RowMissing, InsertRow, Guard, Show, Read, Load, Flush, Count,
       CreateUser, SettingsMissing, InsertSettings, UpdateSettings, AddMachine, Fails

\* Both invariants hold of a wizard that only browsers use.
THEOREM WizardInvariance ==
    ASSUME Scripts = FALSE
    PROVE  Spec => [](TInv /\ NoAccount)
<1>1. Init => TInv /\ NoAccount
  BY TypesInit, EarlyInit
<1>2. (TInv /\ NoAccount) /\ [Next]_vars => (TInv /\ NoAccount)'
  BY TypesStep, EarlyStep
<1> QED
  BY <1>1, <1>2, PTL DEF Spec

\* The pages shown keep a visitor who has no account from completing the wizard,
\* however many tabs are open and whatever is submitted twice (web.py:80-82).
THEOREM WizardEndsWithAdmin ==
    ASSUME Scripts = FALSE
    PROVE  Spec => []CompletedHasAdmin
<1>1. TInv /\ NoAccount => CompletedHasAdmin
  BY DEF NoAccount, Early, CompletedHasAdmin
<1> QED
  BY <1>1, WizardInvariance, PTL

\* The first account comes together with the step that records it, whichever requests
\* fail or overtake the one that creates it (web.py:117-126, setup_state.py:47-56).
THEOREM FirstAccountIsRecorded ==
    ASSUME Scripts = FALSE
    PROVE  Spec => FirstAccountComesWithStep
<1>1. TInv /\ NoAccount /\ [Next]_vars =>
          [users = {} /\ users' # {} => "admin_account" \in setup'.done /\ setup'.step = "network"]_vars
  BY AccountsByCommit, CommitFirst
<1> QED
  BY <1>1, WizardInvariance, PTL DEF Spec, FirstAccountComesWithStep
=============================================================================
