---------------------------- MODULE MachineStore ----------------------------
(***************************************************************************)
(* Machines and settings as operators edit them: the machine endpoints     *)
(* (app/api/machines.py), the forms of the pages (app/api/web.py), their    *)
(* repositories and the constraints of the tables.                         *)
(*                                                                         *)
(* A request is the list of its statements, in one transaction under READ  *)
(* COMMITTED.  A statement reads its row, and after an await writes the    *)
(* columns that differ from what it has read.  The rows a transaction has  *)
(* written are locked until it ends.                                       *)
(***************************************************************************)
EXTENDS Integers, Sequences, FiniteSets, Functions

CONSTANTS
    Request,     \* requests served at a time
    Machine,     \* identifiers of machines
    Mac,         \* values of the unique column
    Text,        \* values of another column, and of settings
    Inet,        \* those of an IP address column: read back as objects, equal to no string
    Keys,        \* the settings, in the order in which the handlers write them
    MaxRequests, \* requests that come
    MaxFaults    \* lost connections

\* The two tables are apart, and the settings of a form are names of which none comes twice.
ASSUME StoreAssumption ==
    /\ MaxRequests \in Nat /\ MaxFaults \in Nat
    /\ Inet \subseteq Text
    /\ Keys \in Seq(Range(Keys)) /\ Keys # <<>> /\ IsInjective(Keys)
    /\ Machine \intersect Range(Keys) = {}

VARIABLES
    row,         \* the committed rows
    req,         \* the requests, each with its transaction
    count, faults

vars == <<row, req, count, faults>>
bounds == <<count, faults>>

Key == Range(Keys)
Table == Machine \union Key

MachineColumns == [mac : Mac, name : Text]
SettingColumns == [value : Text]
Body == MachineColumns \union [mac : Mac] \union [name : Text]

Live(x) == row[x].state = "live"

Idle == [asked |-> <<>>, k |-> 1, at |-> "idle", read |-> {}, wrote |-> {}, over |-> {},
         answer |-> {}]

\* No transaction holds an UPDATE of a row that is not there: one that is deleted under an edit
\* does not come back with it.
TypeOK ==
    /\ \A x \in Table :
          row[x] \in [state : {"unused", "live", "deleted"},
                      cols : IF x \in Key THEN SettingColumns \union {<<>>}
                                          ELSE MachineColumns \union {<<>>}]
    /\ \A r \in Request :
          /\ req[r].at \in {"idle", "next", "got", "missing", "unique", "done"}
          /\ req[r].read \subseteq MachineColumns \union SettingColumns
          /\ \A w \in req[r].wrote : w.on \in Table /\ (w.op = "update" => Live(w.on))
    /\ count \in 0..MaxRequests /\ faults \in 0..MaxFaults

\* Any machines that keep the constraint, or any settings: no statement is about both.
Init ==
    /\ row \in [Table -> [state : {"unused"}, cols : {<<>>}]
                         \union [state : {"live"}, cols : MachineColumns \union SettingColumns]]
    /\ \A x \in Table : Live(x) => row[x].cols \in IF x \in Key THEN SettingColumns
                                                                ELSE MachineColumns
    /\ \A x, y \in Machine : x # y /\ Live(x) /\ Live(y) => row[x].cols.mac # row[y].cols.mac
    /\ \A x \in Machine, y \in Key : ~(Live(x) /\ Live(y))
    /\ req = [r \in Request |-> Idle]
    /\ count = 0 /\ faults = 0

-----------------------------------------------------------------------------
\* Requests that come.

Insert(x, cols) == [op |-> "insert", on |-> x, cols |-> cols]
Update(x, cols) == [op |-> "update", on |-> x, cols |-> cols]
Delete(x) == [op |-> "delete", on |-> x, cols |-> <<>>]
Set(x, v) == [op |-> "set", on |-> x, cols |-> [value |-> v]]

\* An identifier is made for each insert, and known to clients from then on.
Fresh == {x \in Machine : row[x].state = "unused"
                          /\ \A q \in Request : req[q].asked # <<>> => req[q].asked[1].on # x}
Known == {x \in Machine : row[x].state # "unused"}

create_machine == {<<Insert(x, cols)>> : x \in Fresh, cols \in MachineColumns}

\* A PATCH names some columns, the form all of them.
update_machine == {<<Update(x, cols)>> : x \in Known, cols \in Body}

delete_machine == {<<Delete(x)>> : x \in Known}

\* Mutant: the settings are written in the order in which the browser sends them.
settings_unordered ==
    {[k \in DOMAIN Keys |-> Set(Keys[p[k]], v[k])] :
        p \in {q \in [DOMAIN Keys -> DOMAIN Keys] : IsInjective(q)}, v \in [DOMAIN Keys -> Text]}

settings_post == {[k \in DOMAIN Keys |-> Set(Keys[k], v[k])] : v \in [DOMAIN Keys -> Text]}

Arrive(r) ==
    /\ req[r].at = "idle" /\ count < MaxRequests
    /\ \E s \in create_machine \union update_machine \union delete_machine \union settings_post :
           req' = [req EXCEPT ![r] = [Idle EXCEPT !.asked = s, !.at = "next"]]
    /\ count' = count + 1
    /\ UNCHANGED <<row, faults>>

-----------------------------------------------------------------------------
\* The statement at hand, and whom it waits for.

Statement(r) == req[r].asked[req[r].k]
Is(r, ops, at) == req[r].at = at /\ Statement(r).op \in ops

With(cols, new) == [c \in DOMAIN cols |-> IF c \in DOMAIN new THEN new[c] ELSE cols[c]]

\* Mutant: an UPDATE names what was read as well, but for the address.
ChangedAll(read, cols) ==
    With([c \in (DOMAIN read \ {"mac"}) \union DOMAIN cols |-> read[c]], cols)

\* An UPDATE names the columns whose values differ from those that were read, and the IP
\* addresses that the request names: they always seem to differ.
Changed(read, cols) ==
    Restrict(cols, {c \in DOMAIN cols : cols[c] # read[c] \/ (c = "name" /\ cols[c] \in Inet)})

Changes(r) == LET read == CHOOSE v \in req[r].read : TRUE
              IN  Changed(read, Statement(r).cols)

RowHolders(r) ==
    {q \in Request \ {r} : \E w \in req[q].wrote : w.on = Statement(r).on}

\* Mutant: the handler looks for the address itself, in what is committed.
MacHoldersNone(r) == {}

\* The unique index: whoever has written the same address, or is about to give it up.
MacHolders(r) ==
    {q \in Request \ {r} : \E w \in req[q].wrote :
        /\ w.on \in Machine
        /\ \/ /\ "mac" \in DOMAIN w.cols /\ req[q].at # "unique"
              /\ w.cols.mac = Statement(r).cols.mac
           \/ /\ w.op # "insert" /\ row[w.on].cols.mac = Statement(r).cols.mac
              /\ w.op = "delete" \/ "mac" \in DOMAIN w.cols}

MacTaken(r) == \E y \in Machine \ {Statement(r).on} :
                   Live(y) /\ row[y].cols.mac = Statement(r).cols.mac

WaitsFor(r) ==
    CASE Is(r, {"insert"}, "next") \/ Is(r, {"update"}, "unique") -> MacHolders(r)
      [] Is(r, {"set"}, "missing") \/ Is(r, {"delete"}, "got") -> RowHolders(r)
      [] Is(r, {"update", "set"}, "got") -> IF Changes(r) = <<>> THEN {} ELSE RowHolders(r)
      [] OTHER -> {}

-----------------------------------------------------------------------------
\* Steps of a request.

Ends(r) == req' = [req EXCEPT ![r] = Idle]

\* Mutant: an error in the handler leaves the transaction open.
RefusedOpen(r) == req' = [req EXCEPT ![r].at = "idle"]

\* An exception of the flush: the API's and the settings' handlers let it pass, the edit form rolls
\* back and reads the machine again, the creation form answers and fails in the commit.
Refused(r) == Ends(r)

\* On to the next statement, or to the commit.
Goes(r, w, answer) ==
    req' = [req EXCEPT ![r].wrote = @ \union w, ![r].answer = answer, ![r].read = {},
                       ![r].k = IF @ < Len(req[r].asked) THEN @ + 1 ELSE @,
                       ![r].at = IF req[r].k < Len(req[r].asked) THEN "next" ELSE "done"]

\* session.get; what others have committed before is no longer over it.
Get(r) ==
    /\ Is(r, {"update", "delete", "set"}, "next")
    /\ \/ /\ Live(Statement(r).on)
          /\ req' = [req EXCEPT ![r].at = "got", ![r].read = {row[Statement(r).on].cols},
                                ![r].over = {o \in @ : o[1] # Statement(r).on}]
       \/ /\ ~Live(Statement(r).on) /\ Statement(r).op = "set"
          /\ req' = [req EXCEPT ![r].at = "missing"]
       \/ ~Live(Statement(r).on) /\ Statement(r).op # "set" /\ Ends(r)
    /\ UNCHANGED <<row, bounds>>

Inserted(r) ==
    /\ Is(r, {"insert"}, "next") \/ Is(r, {"set"}, "missing")
    /\ WaitsFor(r) = {}
    /\ IF IF Statement(r).op = "set" THEN Live(Statement(r).on) ELSE MacTaken(r)
       THEN Refused(r)
       ELSE Goes(r, {[Statement(r) EXCEPT !.op = "insert"]}, {Statement(r).cols})
    /\ UNCHANGED <<row, bounds>>

\* Mutant: the answer is put together from what was read and asked.
AnswerUnrefreshed(r) == With(CHOOSE v \in req[r].read : TRUE, Statement(r).cols)

\* session.refresh reads the row again, under the lock that the UPDATE took.
Refreshed(r) == With(row[Statement(r).on].cols, Changes(r))

\* Mutant: session.merge inserts a row that is gone.
GoneInserted(r) == ~Live(Statement(r).on) /\ Is(r, {"set"}, "got")

\* An UPDATE or a refresh that finds no row raises.
Gone(r) == ~Live(Statement(r).on)

Updated(r) ==
    /\ Is(r, {"update", "set"}, "got")
    /\ WaitsFor(r) = {}
    /\ LET w == [op |-> "update", on |-> Statement(r).on, cols |-> Changes(r)]
       IN  \/ Gone(r) /\ Refused(r)
           \/ /\ ~Gone(r) /\ "mac" \in DOMAIN w.cols
              /\ req' = [req EXCEPT ![r].at = "unique", ![r].wrote = @ \union {w},
                                    ![r].answer = {Refreshed(r)}]
           \/ /\ ~Gone(r) /\ "mac" \notin DOMAIN w.cols
              /\ Goes(r, IF w.cols = <<>> THEN {} ELSE {w}, {Refreshed(r)})
    /\ UNCHANGED <<row, bounds>>

\* The UPDATE has its row and puts the new address into the index.
Indexed(r) ==
    /\ Is(r, {"update"}, "unique")
    /\ WaitsFor(r) = {}
    /\ IF MacTaken(r) THEN Refused(r) ELSE Goes(r, {}, req[r].answer)
    /\ UNCHANGED <<row, bounds>>

\* A DELETE that finds no row is none.
Deleted(r) ==
    /\ Is(r, {"delete"}, "got")
    /\ WaitsFor(r) = {}
    /\ Goes(r, IF Live(Statement(r).on) THEN {Statement(r)} ELSE {}, {})
    /\ UNCHANGED <<row, bounds>>

RowAfter(x, wrote) ==
    IF \E w \in wrote : w.on = x
    THEN LET w == CHOOSE v \in wrote : v.on = x
         IN  CASE w.op = "insert" -> [state |-> "live", cols |-> w.cols]
               [] w.op = "update" -> [state |-> "live", cols |-> With(row[x].cols, w.cols)]
               [] OTHER -> [state |-> "deleted", cols |-> <<>>]
    ELSE row[x]

Commit(r) ==
    /\ req[r].at = "done"
    /\ row' = [x \in Table |-> RowAfter(x, req[r].wrote)]
    /\ LET written == {<<w.on, c>> : w \in req[r].wrote, c \in {"mac", "name", "value"}}
       IN  req' = [q \in Request |->
                      IF q = r THEN Idle
                      ELSE IF req[q].at = "idle" THEN req[q]
                      ELSE [req[q] EXCEPT !.over = @ \union
                               {o \in written : \E w \in req[r].wrote :
                                                    w.on = o[1] /\ o[2] \in DOMAIN w.cols}]]
    /\ UNCHANGED bounds

\* PostgreSQL gives up one of two transactions that wait for each other.
DeadlockDetected(r) ==
    /\ \E q \in WaitsFor(r) : r \in WaitsFor(q)
    /\ Refused(r)
    /\ UNCHANGED <<row, bounds>>

Fails(r) ==
    /\ req[r].at # "idle" /\ faults < MaxFaults
    /\ faults' = faults + 1
    /\ Ends(r)
    /\ UNCHANGED <<row, count>>

Serve(r) ==
    Get(r) \/ Inserted(r) \/ Updated(r) \/ Indexed(r) \/ Deleted(r) \/ Commit(r)
    \/ DeadlockDetected(r)

Next == \E r \in Request : Arrive(r) \/ Serve(r) \/ Fails(r)

Spec == Init /\ [][Next]_vars

\* Locks are granted in the order in which they are asked for.
FairSpec == Spec /\ \A r \in Request : SF_vars(Serve(r))

-----------------------------------------------------------------------------
\* No two machines have one address, although neither handler looks for it: the index makes the
\* second of two inserts or edits wait for the first (models.py:80).
UniqueMacs ==
    \A x, y \in Machine : x # y /\ Live(x) /\ Live(y) => row[x].cols.mac # row[y].cols.mac

\* A request ends with its commit rather than with a lost connection.
Committing(r) == req[r].at = "done" /\ req'[r].at = "idle" /\ faults' = faults
Asked(r) == Range(req[r].asked)

\* What an edit or a settings form names is stored as it says, unless another request has
\* changed it since the form's request read it; the columns that an edit does not name stay as
\* they are, even when another edit has changed them meanwhile (machines.py:181,
\* repositories.py:204-207, 446-452).
EditsDoNotUndo ==
    [][\A r \in Request : Committing(r) =>
          \A s \in Asked(r) : s.op \in {"update", "set"} /\ Live(s.on)' =>
              \A c \in DOMAIN row'[s.on].cols :
                  IF c \in DOMAIN s.cols
                  THEN row'[s.on].cols[c] = s.cols[c] \/ <<s.on, c>> \in req[r].over
                  ELSE row'[s.on].cols[c] = row[s.on].cols[c]]_vars

\* The machine that a request answers with is the one it stores: what others commit between the
\* flush and the commit cannot be a change of that row (repositories.py:206-208).
AnswerIsStored ==
    [][\A r \in Request : Committing(r) =>
          \A w \in req[r].wrote : w.on \in Machine /\ w.op # "delete" =>
              req[r].answer = {row'[w.on].cols}]_vars

\* Only two edits that exchange addresses can wait for each other: forms that write several
\* settings take them in one order (web.py:503-507, setup.py:121-123).
CirclesAreSwaps ==
    \A r, q \in Request : q \in WaitsFor(r) /\ r \in WaitsFor(q) =>
        req[r].at = "unique" /\ req[q].at = "unique"

\* Every request ends, those that exchange addresses included.
RequestsEnd == \A r \in Request : req[r].at # "idle" ~> req[r].at = "idle"
=============================================================================
