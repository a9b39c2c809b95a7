------------------------- MODULE MachineStoreProofs -------------------------
(***************************************************************************)
(* Proofs about MachineStore, for any machines, addresses, texts, settings *)
(* and bounds.                                                             *)
(*                                                                         *)
(* The inductive invariant IInv says of each request what it has written   *)
(* and why: the writes are of statements it has carried out (Written), the *)
(* rows of pending writes are locked (RowLocks) and as they were (Pending), *)
(* and the addresses it has put into the index are new to it, to the rows  *)
(* and to the other transactions (ClaimIsNew).  A commit then keeps the    *)
(* addresses apart.  For what a commit stores, IInv keeps what was read    *)
(* (ReadStays), what the carried-out statements named (NamedStays) and     *)
(* what the answer has to be (Answered).  Requests take their steps one at *)
(* a time: Moves is the step of one before its commit, which leaves the    *)
(* others sound as long as it takes no row, address or identifier of       *)
(* theirs, CarriedOut a statement, and CommitStep the commit.              *)
(***************************************************************************)
EXTENDS MachineStore, SequenceTheorems, TLAPS

----------------------------------------------------------------------------
\* The inductive invariant.

MachineStatement == [op : {"insert"}, on : Machine, cols : MachineColumns]
                    \union [op : {"update"}, on : Machine, cols : Body]
                    \union [op : {"delete"}, on : Machine, cols : {<<>>}]
SetStatement == [op : {"set"}, on : Key, cols : SettingColumns]

\* What a record of a request consists of.
Served(x) == x \in [asked : {x.asked}, k : {x.k}, at : {x.at}, read : {x.read},
                    wrote : {x.wrote}, over : {x.over}, answer : {x.answer}]
Records == req = [r \in Request |-> req[r]] /\ \A r \in Request : Served(req[r])

\* The rows; settings are never deleted.
Rows == /\ \A x \in Machine : /\ row[x].state \in {"unused", "live", "deleted"}
                              /\ row[x].cols \in IF Live(x) THEN MachineColumns ELSE {<<>>}
        /\ \A x \in Key : /\ row[x].state \in {"unused", "live"}
                          /\ row[x].cols \in IF Live(x) THEN SettingColumns ELSE {<<>>}
        /\ \A x \in Table : row[x] = [state |-> row[x].state, cols |-> row[x].cols]

\* One statement about a machine, or one for each setting in their order.
OfMachine(r) == /\ DOMAIN req[r].asked = {1} /\ Len(req[r].asked) = 1 /\ req[r].k = 1
                /\ req[r].asked[1] \in MachineStatement
OfSettings(r) == /\ DOMAIN req[r].asked = 1..Len(Keys) /\ Len(req[r].asked) = Len(Keys)
                 /\ req[r].k \in 1..Len(Keys)
                 /\ \A i \in 1..Len(Keys) : /\ req[r].asked[i] \in SetStatement
                                            /\ req[r].asked[i].on = Keys[i]
                 /\ req[r].at # "unique"

\* Where a request is with which statement, and what it has read.
Shape(r) ==
    /\ req[r].at \in {"idle", "next", "got", "missing", "unique", "done"}
    /\ req[r].at = "idle" => req[r] = Idle
    /\ req[r].at # "idle" => OfMachine(r) \/ OfSettings(r)
    /\ req[r].read \subseteq MachineColumns \union SettingColumns
    /\ req[r].at = "got" =>
           /\ Statement(r).op \in {"update", "delete", "set"}
           /\ \E v \in IF Statement(r).op = "set" THEN SettingColumns ELSE MachineColumns :
                  req[r].read = {v}
    /\ req[r].at = "missing" => Statement(r).op = "set"
    /\ req[r].at = "unique" => Statement(r).op = "update"

\* The statements that have been carried out, up to the index.
Past(r) == {i \in DOMAIN req[r].asked : i < req[r].k \/ req[r].at \in {"unique", "done"}}

\* What is written of a statement.
Fits(w, s) ==
    /\ w.on = s.on
    /\ \/ w.op = "insert" /\ s.op \in {"insert", "set"} /\ w.cols = s.cols
       \/ /\ w.op = "update" /\ s.op \in {"update", "set"}
          /\ DOMAIN w.cols \subseteq DOMAIN s.cols
          /\ \A c \in DOMAIN w.cols : w.cols[c] = s.cols[c]
       \/ w.op = "delete" /\ s.op = "delete" /\ w.cols = <<>>
Written(r) ==
    /\ \A w \in req[r].wrote : \E i \in Past(r) : Fits(w, req[r].asked[i])
    /\ \A v, w \in req[r].wrote : v.on = w.on => v = w
    /\ req[r].at = "unique" => \E w \in req[r].wrote : "mac" \in DOMAIN w.cols

\* The rows of pending writes are locked: they stay as they were.
Pending(r) ==
    \A w \in req[r].wrote : row[w.on].state = IF w.op = "insert" THEN "unused" ELSE "live"
RowLocks ==
    \A r, q \in Request : r # q => \A w \in req[r].wrote, v \in req[q].wrote : w.on # v.on

\* A machine to be inserted is known to nobody else.
Own(r) ==
    req[r].at # "idle" /\ req[r].asked[1].op = "insert" =>
        /\ row[req[r].asked[1].on].state = "unused"
        /\ \A q \in Request : q # r /\ req[q].at # "idle" => req[q].asked[1].on # req[r].asked[1].on

\* Addresses that transactions have put into the index are new to it.
Claims(r) == {w \in req[r].wrote : w.on \in Machine /\ "mac" \in DOMAIN w.cols /\ req[r].at # "unique"}
ClaimIsNew(r) ==
    \A w \in Claims(r) :
        /\ \A y \in Machine \ {w.on} : Live(y) => row[y].cols.mac # w.cols.mac
        /\ \A q \in Request \ {r} : \A v \in Claims(q) : v.cols.mac # w.cols.mac

\* A column that was read stays as it was, or is known to have been overwritten.
Stays(r, x, c, v) ==
    /\ row[x].state # "unused"
    /\ Live(x) => row[x].cols[c] = v \/ <<x, c>> \in req[r].over
ReadStays(r) ==
    req[r].at = "got" => \A v \in req[r].read : \A c \in DOMAIN v : Stays(r, Statement(r).on, c, v[c])

\* What an edit or a setting names is about to be written, or was found so.
NamedStays(r) ==
    \A i \in Past(r) : req[r].asked[i].op \in {"update", "set"} =>
        \A c \in DOMAIN req[r].asked[i].cols :
            \/ \E w \in req[r].wrote : w.on = req[r].asked[i].on /\ c \in DOMAIN w.cols
            \/ Stays(r, req[r].asked[i].on, c, req[r].asked[i].cols[c])

\* The answer is the row as it is going to be.
Answered(r) ==
    \A w \in req[r].wrote : w.on \in Machine /\ w.op # "delete" =>
        req[r].answer = {IF w.op = "insert" THEN w.cols ELSE With(row[w.on].cols, w.cols)}

Sound(r) == /\ Shape(r) /\ Written(r) /\ Pending(r) /\ Own(r) /\ ClaimIsNew(r)
            /\ ReadStays(r) /\ NamedStays(r) /\ Answered(r)

Bounds == count \in 0..MaxRequests /\ faults \in 0..MaxFaults

IInv == Records /\ Rows /\ RowLocks /\ UniqueMacs /\ Bounds /\ \A r \in Request : Sound(r)

----------------------------------------------------------------------------
\* Rows of the two tables.
LEMMA TablesApart == \A x \in Key : x \in Table /\ x \notin Machine
BY StoreAssumption DEF Key, Table

\* There are settings, and each is written once.
LEMMA SettingsInOrder ==
    /\ Len(Keys) \in Nat \ {0} /\ DOMAIN Keys = 1..Len(Keys)
    /\ \A i \in 1..Len(Keys) : Keys[i] \in Key
    /\ \A i, j \in 1..Len(Keys) : Keys[i] = Keys[j] => i = j
<1>1. Keys \in Seq(Key) /\ Keys # <<>>
  BY StoreAssumption DEF Key
<1>2. Len(Keys) \in Nat \ {0} /\ DOMAIN Keys = 1..Len(Keys)
  BY <1>1
<1> QED
  BY <1>2, StoreAssumption DEF Key, Range, IsInjective

\* Columns.
LEMMA Columns ==
    /\ \A v \in MachineColumns : DOMAIN v = {"mac", "name"} /\ v.mac \in Mac
    /\ \A v \in SettingColumns : DOMAIN v = {"value"}
    /\ \A v \in Body : DOMAIN v \subseteq {"mac", "name"}
    /\ DOMAIN <<>> = {}
BY DEF MachineColumns, SettingColumns, Body

\* An UPDATE names columns of the body only, and leaves out those that are as they were.
LEMMA ChangedFacts ==
    ASSUME NEW read, NEW cols
    PROVE  /\ DOMAIN Changed(read, cols) \subseteq DOMAIN cols
           /\ \A c \in DOMAIN Changed(read, cols) : Changed(read, cols)[c] = cols[c]
           /\ \A c \in DOMAIN cols : c \in DOMAIN Changed(read, cols) \/ cols[c] = read[c]
BY DEF Changed, Restrict

\* A row with some columns overwritten.
LEMMA WithFacts ==
    ASSUME NEW old, NEW new
    PROVE  /\ DOMAIN With(old, new) = DOMAIN old
           /\ \A c \in DOMAIN old : With(old, new)[c] = IF c \in DOMAIN new THEN new[c] ELSE old[c]
BY DEF With

\* A machine keeps its columns, and so does a setting.
LEMMA WithMachine ==
    ASSUME NEW v \in MachineColumns, NEW s \in Body, NEW n, DOMAIN n \subseteq DOMAIN s,
           \A c \in DOMAIN n : n[c] = s[c]
    PROVE  /\ With(v, n) \in MachineColumns
           /\ With(v, n).mac = IF "mac" \in DOMAIN n THEN n.mac ELSE v.mac
<1>1. /\ DOMAIN n \subseteq {"mac", "name"}
      /\ "mac" \in DOMAIN s => s["mac"] \in Mac
      /\ "name" \in DOMAIN s => s["name"] \in Text
  BY DEF Body, MachineColumns
<1> QED
  BY <1>1 DEF With, MachineColumns

\* The same of a setting.
LEMMA WithSetting ==
    ASSUME NEW v \in SettingColumns, NEW s \in SettingColumns, NEW n, DOMAIN n \subseteq DOMAIN s,
           \A c \in DOMAIN n : n[c] = s[c]
    PROVE  With(v, n) \in SettingColumns
<1>1. DOMAIN n \subseteq {"value"} /\ s["value"] \in Text
  BY DEF SettingColumns
<1> QED
  BY <1>1 DEF With, SettingColumns

\* The statement at hand, of either kind.
LEMMA AtHand ==
    ASSUME NEW r \in Request, Shape(r), req[r].at # "idle"
    PROVE  /\ req[r].k \in DOMAIN req[r].asked /\ 1 \in DOMAIN req[r].asked
           /\ DOMAIN req[r].asked = 1..Len(req[r].asked) /\ Len(req[r].asked) \in Nat
           /\ \/ Statement(r) \in MachineStatement /\ OfMachine(r)
              \/ Statement(r) \in SetStatement /\ OfSettings(r)
<1>1. CASE OfMachine(r)
  BY <1>1 DEF OfMachine, Statement
<1>2. CASE OfSettings(r)
  BY <1>2, SettingsInOrder DEF OfSettings, Statement
<1> QED
  BY <1>1, <1>2 DEF Shape

\* What the statements are about.
LEMMA StatementFacts ==
    /\ \A s \in MachineStatement : /\ s.op \in {"insert", "update", "delete"} /\ s.on \in Machine
                                   /\ s.op = "insert" => s.cols \in MachineColumns
                                   /\ s.op = "update" => s.cols \in Body
                                   /\ s.op = "delete" => s.cols = <<>>
                                   /\ s.on \in Table /\ s.on \notin Key
    /\ \A s \in SetStatement : /\ s.op = "set" /\ s.on \in Key /\ s.cols \in SettingColumns
                               /\ s.on \in Table /\ s.on \notin Machine
BY TablesApart DEF MachineStatement, SetStatement, Table

\* One request's record is replaced.
LEMMA Replaced ==
    ASSUME Records, NEW r \in Request, NEW x, Served(x), req' = [req EXCEPT ![r] = x]
    PROVE  Records' /\ req'[r] = x /\ \A q \in Request : q # r => req'[q] = req[q]
BY DEF Records

----------------------------------------------------------------------------
\* Steps of one request.

\* What request r does before it commits is none of the others' business, if it takes no
\* row, address or identifier that they have.
LEMMA OthersAreSound ==
    ASSUME NEW r \in Request, NEW q \in Request, q # r, Sound(q), row' = row,
           \A p \in Request : p # r => req'[p] = req[p], Own(q)', ClaimIsNew(r)'
    PROVE  Sound(q)'
<1>1. req'[q] = req[q]
  OBVIOUS
<1>2. Shape(q)' /\ Written(q)' /\ Pending(q)'
  BY <1>1 DEF Sound, Shape, OfMachine, OfSettings, Statement, Written, Past, Pending
<1>3. ReadStays(q)' /\ NamedStays(q)' /\ Answered(q)'
  BY <1>1 DEF Sound, ReadStays, NamedStays, Answered, Statement, Past, Stays, Live
<1>4. ClaimIsNew(q)'
  <2>1. \A p \in Request : p # r => Claims(p)' = Claims(p)
    BY DEF Claims
  <2>2. \A v \in Claims(q) : \A w \in Claims(r)' : v.cols.mac # w.cols.mac
    BY <2>1 DEF ClaimIsNew
  <2> QED
    BY <2>1, <2>2 DEF Sound, ClaimIsNew, Live
<1> QED
  BY <1>2, <1>3, <1>4 DEF Sound

\* The step as a whole.
LEMMA Moves ==
    ASSUME IInv, NEW r \in Request, Records', row' = row, Bounds', Sound(r)',
           \A q \in Request : q # r => req'[q] = req[q] /\ Own(q)',
           \A w \in req'[r].wrote : \A q \in Request : q # r => \A v \in req[q].wrote : w.on # v.on
    PROVE  IInv'
<1>1. \A q \in Request : Sound(q)'
  BY OthersAreSound DEF IInv, Sound
<1>2. RowLocks'
  BY DEF IInv, RowLocks
<1>3. Rows' /\ UniqueMacs'
  BY DEF IInv, Rows, UniqueMacs, Live
<1> QED
  BY <1>1, <1>2, <1>3 DEF IInv

\* A request keeps what it was asked for, or ends.
LEMMA OwnStays ==
    ASSUME IInv, NEW r \in Request, row' = row,
           \A q \in Request : q # r => req'[q] = req[q],
           req'[r].at # "idle" => req[r].at # "idle" /\ req'[r].asked = req[r].asked
    PROVE  \A q \in Request : Own(q)'
<1>1. \A p \in Request : req'[p].at # "idle" => req[p].at # "idle" /\ req'[p].asked = req[p].asked
  OBVIOUS
<1> QED
  BY <1>1 DEF IInv, Sound, Own

\* A request that is over, or has not begun.
LEMMA IdleIsSound ==
    ASSUME NEW r \in Request, req'[r] = Idle
    PROVE  Sound(r)' /\ req'[r].wrote = {}
<1>1. req'[r].wrote = {} /\ Claims(r)' = {} /\ req'[r].asked = <<>> /\ req'[r].at = "idle"
  BY DEF Idle, Claims
<1>2. Past(r)' = {}
  BY <1>1 DEF Past
<1>3. Shape(r)' /\ Written(r)' /\ Pending(r)' /\ Own(r)'
  BY <1>1 DEF Shape, Written, Pending, Own, Idle
<1>4. ClaimIsNew(r)' /\ ReadStays(r)' /\ NamedStays(r)' /\ Answered(r)'
  BY <1>1, <1>2 DEF ClaimIsNew, ReadStays, NamedStays, Answered
<1> QED
  BY <1>1, <1>3, <1>4 DEF Sound

\* A request ends without a commit.
LEMMA Ending ==
    ASSUME IInv, NEW r \in Request, Ends(r), row' = row, Bounds'
    PROVE  IInv'
<1>1. Served(Idle) /\ Records
  BY DEF Idle, Served, IInv
<1>2. Records' /\ req'[r] = Idle /\ \A q \in Request : q # r => req'[q] = req[q]
  BY <1>1, Replaced DEF Ends
<1>3. Sound(r)' /\ req'[r].wrote = {} /\ req'[r].at = "idle"
  BY <1>2, IdleIsSound DEF Idle
<1>4. \A q \in Request : Own(q)'
  BY <1>2, <1>3, OwnStays
<1> QED
  BY <1>2, <1>3, <1>4, Moves

\* A request that has yet to carry out its statement has not written that row.
LEMMA PastIsElsewhere ==
    ASSUME NEW r \in Request, Shape(r), req[r].at \in {"next", "got", "missing"}
    PROVE  /\ \A i \in Past(r) : req[r].asked[i].on # Statement(r).on
           /\ OfMachine(r) => Past(r) = {}
           /\ req[r].k \notin Past(r)
<1>1. CASE OfMachine(r)
  BY <1>1, SettingsInOrder DEF OfMachine, Past
<1>2. CASE OfSettings(r)
  <2>1. \A i \in Past(r) : i \in 1..Len(Keys) /\ i < req[r].k
    BY <1>2 DEF OfSettings, Past
  <2>2. req[r].k \in 1..Len(Keys) /\ Statement(r).on = Keys[req[r].k]
    BY <1>2 DEF OfSettings, Statement
  <2>3. \A i \in Past(r) : req[r].asked[i].on = Keys[i] /\ i # req[r].k
    BY <1>2, <2>1, <2>2, SettingsInOrder DEF OfSettings
  <2>4. ~ OfMachine(r) \/ Past(r) = {}
    BY <2>1 DEF OfMachine, Past
  <2> QED
    BY <2>1, <2>2, <2>3, <2>4, SettingsInOrder
<1> QED
  BY <1>1, <1>2, SettingsInOrder DEF Shape, OfMachine, OfSettings, Past

\* The row is read, or found missing.
LEMMA GetStep ==
    ASSUME IInv, NEW r \in Request, Get(r)
    PROVE  IInv'
<1>1. /\ Records /\ Rows /\ Sound(r) /\ Shape(r) /\ Bounds' /\ row' = row
      /\ req[r].at = "next" /\ Served(req[r])
      /\ Statement(r).op \in {"update", "delete", "set"}
  BY DEF IInv, Sound, Get, Is, Bounds, bounds, Records
<1>2. /\ Statement(r).on \in Table
      /\ \/ OfMachine(r) /\ Statement(r).on \in Machine /\ Statement(r).op # "set"
         \/ OfSettings(r) /\ Statement(r).on \in Key /\ Statement(r).op = "set"
  BY <1>1, AtHand, StatementFacts
<1>3. ASSUME NEW x, Served(x), req' = [req EXCEPT ![r] = x], x.asked = req[r].asked,
             x.wrote = req[r].wrote, x.at # "idle", Sound(r)'
      PROVE  IInv'
  <2>1. Records' /\ req'[r] = x /\ \A q \in Request : q # r => req'[q] = req[q]
    BY <1>1, <1>3, Replaced
  <2>2. \A q \in Request : Own(q)'
    BY <1>1, <1>3, <2>1, OwnStays
  <2> QED
    BY <1>1, <1>3, <2>1, <2>2, Moves DEF IInv, RowLocks
<1>4. CASE Ends(r)
  BY <1>1, <1>4, Ending
<1>5. CASE Live(Statement(r).on)
  <2> DEFINE x == [req[r] EXCEPT !.at = "got", !.read = {row[Statement(r).on].cols},
                                 !.over = {o \in @ : o[1] # Statement(r).on}]
  <2>1. req' = [req EXCEPT ![r] = x]
    BY <1>5 DEF Get
  <2>2. /\ Served(x) /\ x.asked = req[r].asked /\ x.k = req[r].k /\ x.wrote = req[r].wrote
        /\ x.answer = req[r].answer /\ x.at = "got" /\ x.read = {row[Statement(r).on].cols}
        /\ x.over = {o \in req[r].over : o[1] # Statement(r).on}
    BY <1>1 DEF Served
  <2> HIDE DEF x
  <2>3. req'[r] = x /\ (\A q \in Request : q # r => req'[q] = req[q])
    BY <1>1, <2>1, <2>2, Replaced
  <2>4. Statement(r)' = Statement(r) /\ Past(r)' = Past(r) /\ Claims(r)' = Claims(r)
    BY <1>1, <2>2, <2>3 DEF Statement, Past, Claims
  <2>5. row[Statement(r).on].cols \in IF Statement(r).op = "set" THEN SettingColumns ELSE MachineColumns
    BY <1>1, <1>2, <1>5 DEF Rows
  <2>6. Shape(r)'
    <3>1. OfMachine(r)' \/ OfSettings(r)'
      BY <1>1, <1>2, <2>2, <2>3 DEF OfMachine, OfSettings
    <3> QED
      BY <1>1, <2>2, <2>3, <2>4, <2>5, <3>1 DEF Shape
  <2>7. Written(r)' /\ Pending(r)' /\ Answered(r)'
    BY <1>1, <2>2, <2>3, <2>4 DEF Sound, Written, Pending, Answered
  <2>8. ClaimIsNew(r)'
    <3>1. \A q \in Request : Claims(q)' = Claims(q)
      BY <2>3, <2>4 DEF Claims
    <3> QED
      BY <1>1, <3>1 DEF Sound, ClaimIsNew, Live
  <2>9. Own(r)'
    BY <1>1, <2>2, <2>3, OwnStays
  <2>10. ReadStays(r)'
    BY <1>1, <1>5, <2>2, <2>3, <2>4 DEF ReadStays, Stays, Live
  <2>11. NamedStays(r)'
    <3>1. \A i \in Past(r) : \A c : <<req[r].asked[i].on, c>> \in req[r].over =>
              <<req[r].asked[i].on, c>> \in x.over
      BY <1>1, <2>2, PastIsElsewhere
    <3> QED
      BY <1>1, <2>2, <2>3, <2>4, <3>1 DEF Sound, NamedStays, Stays, Live
  <2> QED
    BY <1>3, <2>1, <2>2, <2>6, <2>7, <2>8, <2>9, <2>10, <2>11 DEF Sound
<1>6. CASE ~ Live(Statement(r).on) /\ Statement(r).op = "set"
  <2> DEFINE x == [req[r] EXCEPT !.at = "missing"]
  <2>1. req' = [req EXCEPT ![r] = x]
    BY <1>1, <1>6 DEF Get
  <2>2. /\ Served(x) /\ x.asked = req[r].asked /\ x.k = req[r].k /\ x.wrote = req[r].wrote
        /\ x.answer = req[r].answer /\ x.at = "missing" /\ x.read = req[r].read
        /\ x.over = req[r].over
    BY <1>1 DEF Served
  <2> HIDE DEF x
  <2>3. req'[r] = x /\ (\A q \in Request : q # r => req'[q] = req[q])
    BY <1>1, <2>1, <2>2, Replaced
  <2>4. Statement(r)' = Statement(r) /\ Past(r)' = Past(r) /\ Claims(r)' = Claims(r)
    BY <1>1, <2>2, <2>3 DEF Statement, Past, Claims
  <2>5. Shape(r)'
    <3>1. OfMachine(r)' \/ OfSettings(r)'
      BY <1>1, <1>2, <2>2, <2>3 DEF OfMachine, OfSettings
    <3> QED
      BY <1>1, <1>6, <2>2, <2>3, <2>4, <3>1 DEF Shape
  <2>6. Written(r)' /\ Pending(r)' /\ Answered(r)'
    BY <1>1, <2>2, <2>3, <2>4 DEF Sound, Written, Pending, Answered
  <2>7. ClaimIsNew(r)'
    <3>1. \A q \in Request : Claims(q)' = Claims(q)
      BY <2>3, <2>4 DEF Claims
    <3> QED
      BY <1>1, <3>1 DEF Sound, ClaimIsNew, Live
  <2>8. Own(r)'
    BY <1>1, <2>2, <2>3, OwnStays
  <2>9. ReadStays(r)' /\ NamedStays(r)'
    BY <1>1, <2>2, <2>3, <2>4 DEF Sound, ReadStays, NamedStays, Stays, Live
  <2> QED
    BY <1>3, <2>1, <2>2, <2>5, <2>6, <2>7, <2>8, <2>9 DEF Sound
<1> QED
  BY <1>1, <1>4, <1>5, <1>6 DEF Get

\* On to the next statement.
LEMMA GoesOn ==
    ASSUME NEW r \in Request, NEW W, NEW A, Records, Sound(r), Goes(r, W, A),
           req[r].at \in {"next", "got", "missing", "unique"}
    PROVE  /\ Records' /\ \A q \in Request : q # r => req'[q] = req[q]
           /\ req'[r].asked = req[r].asked /\ req'[r].over = req[r].over
           /\ req'[r].wrote = req[r].wrote \union W /\ req'[r].answer = A
           /\ req'[r].at \in {"next", "done"}
           /\ Shape(r)' /\ Past(r)' = Past(r) \union {req[r].k}
<1> DEFINE k == IF req[r].k < Len(req[r].asked) THEN req[r].k + 1 ELSE req[r].k
           at == IF req[r].k < Len(req[r].asked) THEN "next" ELSE "done"
           x == [req[r] EXCEPT !.wrote = @ \union W, !.answer = A, !.read = {}, !.k = k, !.at = at]
<1>1. Served(req[r]) /\ Shape(r)
  BY DEF Records, Sound
<1>2. req' = [req EXCEPT ![r] = x]
  BY <1>1 DEF Goes, Served, Records
<1>3. /\ Served(x) /\ x.asked = req[r].asked /\ x.k = k /\ x.wrote = req[r].wrote \union W
      /\ x.answer = A /\ x.at = at /\ x.read = {} /\ x.over = req[r].over
  BY <1>1 DEF Served
<1> HIDE DEF x
<1>4. Records' /\ req'[r] = x /\ \A q \in Request : q # r => req'[q] = req[q]
  BY <1>1, <1>2, <1>3, Replaced
<1>5. /\ req[r].k \in DOMAIN req[r].asked
      /\ DOMAIN req[r].asked = 1..Len(req[r].asked) /\ Len(req[r].asked) \in Nat
  BY <1>1, AtHand
<1>6. OfMachine(r)' \/ OfSettings(r)'
  <2>1. CASE OfMachine(r)
    BY <1>3, <1>4, <2>1 DEF OfMachine
  <2>2. CASE OfSettings(r)
    BY <1>3, <1>4, <2>2, SettingsInOrder DEF OfSettings
  <2> QED
    BY <1>1, <2>1, <2>2 DEF Shape
<1>7. Shape(r)'
  BY <1>3, <1>4, <1>6 DEF Shape
<1>8. Past(r)' = Past(r) \union {req[r].k}
  <2> DEFINE a == req[r].asked
             m == req[r].k
  <2>1. CASE m < Len(a)
    <3>1. k = m + 1 /\ at = "next" /\ m \in Nat
      BY <1>5, <2>1
    <3>2. Past(r)' = {i \in DOMAIN a : i < m + 1}
      BY <1>3, <1>4, <3>1 DEF Past
    <3>3. OfSettings(r)
      <4>1. ~ OfMachine(r)
        <5>1. SUFFICES ASSUME m = 1, Len(a) = 1 PROVE FALSE
          BY DEF OfMachine
        <5>2. Len(a) \in Nat /\ m \in 1..Len(a)
          BY <1>5
        <5> HIDE DEF a, m
        <5> QED
          BY <5>1, <5>2, <2>1
      <4> QED
        BY <1>1, <4>1 DEF Shape
    <3>4. Past(r) = {i \in DOMAIN a : i < m}
      BY <3>3 DEF Past, OfSettings
    <3> QED
      BY <1>5, <3>1, <3>2, <3>4
  <2>2. CASE ~ (m < Len(a))
    BY <1>3, <1>4, <1>5, <2>2 DEF Past
  <2> QED
    BY <2>1, <2>2
<1> QED
  BY <1>3, <1>4, <1>7, <1>8

\* An address is new to the index.
NewAddress(r, x, mac) ==
    /\ \A y \in Machine \ {x} : Live(y) => row[y].cols.mac # mac
    /\ \A q \in Request \ {r} : \A v \in Claims(q) : v.cols.mac # mac

\* A statement is carried out: what it has to see to for the invariant.
LEMMA CarriedOut ==
    ASSUME IInv, NEW r \in Request, NEW W, NEW A, Goes(r, W, A), row' = row, bounds' = bounds,
           req[r].at \in {"next", "got", "missing"},
           \A w \in W : Fits(w, Statement(r)),
           \A v, w \in W : v = w,
           \A w \in W : row[w.on].state = IF w.op = "insert" THEN "unused" ELSE "live",
           W # {} => \A q \in Request : q # r => \A v \in req[q].wrote : v.on # Statement(r).on,
           \A w \in W : w.on \in Machine /\ "mac" \in DOMAIN w.cols => NewAddress(r, w.on, w.cols.mac),
           \A w \in W : w.on \in Machine /\ w.op # "delete" =>
               A = {IF w.op = "insert" THEN w.cols ELSE With(row[w.on].cols, w.cols)},
           Statement(r).op \in {"update", "set"} => \A c \in DOMAIN Statement(r).cols :
               \/ \E w \in W : c \in DOMAIN w.cols
               \/ Stays(r, Statement(r).on, c, Statement(r).cols[c])
    PROVE  IInv'
<1>1. /\ Records /\ Sound(r) /\ Shape(r) /\ Bounds' /\ RowLocks
      /\ Written(r) /\ Pending(r) /\ ClaimIsNew(r) /\ NamedStays(r) /\ Answered(r)
  BY DEF IInv, Sound, Bounds, bounds
<1>2. /\ Records' /\ \A q \in Request : q # r => req'[q] = req[q]
      /\ req'[r].asked = req[r].asked /\ req'[r].over = req[r].over
      /\ req'[r].wrote = req[r].wrote \union W /\ req'[r].answer = A
      /\ req'[r].at \in {"next", "done"}
      /\ Shape(r)' /\ Past(r)' = Past(r) \union {req[r].k}
  BY <1>1, GoesOn
<1>3. /\ \A i \in Past(r) : req[r].asked[i].on # Statement(r).on
      /\ OfMachine(r) => Past(r) = {}
  BY <1>1, PastIsElsewhere
<1>4. Statement(r) = req[r].asked[req[r].k]
  BY DEF Statement
<1>5. \A w \in req[r].wrote : w.on # Statement(r).on
  BY <1>1, <1>3 DEF Written, Fits
<1>6. \A w \in W : w.on = Statement(r).on
  BY DEF Fits
<1>7. Written(r)'
  <2>1. \A w \in req'[r].wrote : \E i \in Past(r)' : Fits(w, req'[r].asked[i])
    BY <1>1, <1>2, <1>4 DEF Written
  <2>2. \A v, w \in req'[r].wrote : v.on = w.on => v = w
    BY <1>1, <1>2, <1>5, <1>6 DEF Written
  <2> QED
    BY <1>2, <2>1, <2>2 DEF Written
<1>8. Pending(r)'
  BY <1>1, <1>2 DEF Pending
<1>9. ClaimIsNew(r)'
  <2>1. Claims(r)' = Claims(r) \union {w \in W : w.on \in Machine /\ "mac" \in DOMAIN w.cols}
    BY <1>2 DEF Claims
  <2>2. \A q \in Request \ {r} : Claims(q)' = Claims(q)
    BY <1>2 DEF Claims
  <2>3. \A w \in Claims(r)' : NewAddress(r, w.on, w.cols.mac)
    BY <1>1, <2>1 DEF ClaimIsNew, NewAddress
  <2> QED
    BY <2>2, <2>3 DEF ClaimIsNew, NewAddress, Live
<1>10. ReadStays(r)'
  BY <1>2 DEF ReadStays
<1>11. NamedStays(r)'
  <2>1. \A i \in Past(r)' : i \in Past(r) \/ i = req[r].k
    BY <1>2
  <2>2. ASSUME NEW i \in Past(r)', req[r].asked[i].op \in {"update", "set"},
               NEW c \in DOMAIN req[r].asked[i].cols
        PROVE  \/ \E w \in req'[r].wrote : w.on = req[r].asked[i].on /\ c \in DOMAIN w.cols
               \/ Stays(r, req[r].asked[i].on, c, req[r].asked[i].cols[c])
    <3>1. CASE i \in Past(r)
      BY <1>1, <1>2, <2>2, <3>1 DEF NamedStays
    <3>2. CASE i = req[r].k
      BY <1>2, <1>4, <1>6, <2>2, <3>2
    <3> QED
      BY <2>1, <3>1, <3>2
  <2>3. \A x, c, v :
            Stays(r, x, c, v) => /\ row'[x].state # "unused"
                                 /\ Live(x)' => row'[x].cols[c] = v \/ <<x, c>> \in req'[r].over
    BY <1>2 DEF Stays, Live
  <2> QED
    BY <1>2, <2>2, <2>3 DEF NamedStays, Stays, Live
<1>12. Answered(r)'
  <2>1. CASE OfMachine(r)
    <3>1. req[r].wrote = {}
      BY <1>1, <1>3, <2>1 DEF Written
    <3> QED
      BY <1>2, <3>1 DEF Answered
  <2>2. CASE OfSettings(r)
    <3>1. \A w \in req'[r].wrote : w.on \notin Machine
      <4>1. \A i \in Past(r)' : req[r].asked[i].on \notin Machine
        <5>1. \A i \in Past(r)' : i \in 1..Len(Keys)
          BY <1>2, <2>2 DEF Past, OfSettings
        <5> QED
          BY <2>2, <5>1, StatementFacts DEF OfSettings
      <4> QED
        BY <1>2, <1>7, <4>1 DEF Written, Fits
    <3> QED
      BY <3>1 DEF Answered
  <2> QED
    BY <1>1, <2>1, <2>2 DEF Shape
<1>13. \A q \in Request : Own(q)'
  BY <1>2, OwnStays
<1>14. \A w \in req'[r].wrote : \A q \in Request : q # r => \A v \in req[q].wrote : w.on # v.on
  BY <1>1, <1>2, <1>6 DEF RowLocks
<1>15. Sound(r)'
  BY <1>2, <1>7, <1>8, <1>9, <1>10, <1>11, <1>12, <1>13 DEF Sound
<1> QED
  BY <1>1, <1>2, <1>13, <1>14, <1>15, Moves

----------------------------------------------------------------------------
\* The statements.

\* Whom a statement waits for.
LEMMA Waits ==
    ASSUME NEW r \in Request
    PROVE  /\ Is(r, {"insert"}, "next") \/ Is(r, {"update"}, "unique") => WaitsFor(r) = MacHolders(r)
           /\ Is(r, {"set"}, "missing") \/ Is(r, {"delete"}, "got") => WaitsFor(r) = RowHolders(r)
           /\ Is(r, {"update", "set"}, "got") =>
                  WaitsFor(r) = IF Changes(r) = <<>> THEN {} ELSE RowHolders(r)
           /\ WaitsFor(r) # {} => \/ Is(r, {"insert"}, "next") \/ Is(r, {"update"}, "unique")
                                  \/ Is(r, {"set"}, "missing")
                                  \/ Is(r, {"delete", "update", "set"}, "got")
BY DEF WaitsFor, Is

\* Nobody holds the row.
LEMMA RowIsFree ==
    ASSUME NEW r \in Request, RowHolders(r) = {}
    PROVE  \A q \in Request : q # r => \A v \in req[q].wrote : v.on # Statement(r).on
BY DEF RowHolders

\* Nobody holds the address, and no row has it.
LEMMA AddressIsFree ==
    ASSUME NEW r \in Request, MacHolders(r) = {}, ~ MacTaken(r)
    PROVE  NewAddress(r, Statement(r).on, Statement(r).cols.mac)
BY DEF MacHolders, MacTaken, NewAddress, Claims

\* A machine to be inserted is written by nobody else.
LEMMA OwnIsFree ==
    ASSUME IInv, NEW r \in Request, req[r].at # "idle", Statement(r).op = "insert"
    PROVE  /\ OfMachine(r) /\ Statement(r) = req[r].asked[1] /\ Statement(r).cols \in MachineColumns
           /\ row[Statement(r).on].state = "unused" /\ Statement(r).on \in Machine
           /\ \A q \in Request : q # r => \A v \in req[q].wrote : v.on # Statement(r).on
<1>1. Sound(r) /\ Shape(r) /\ Own(r)
  BY DEF IInv, Sound
<1>2. /\ OfMachine(r) /\ Statement(r) = req[r].asked[1] /\ Statement(r).cols \in MachineColumns
      /\ Statement(r).on \in Machine
  BY <1>1, AtHand, StatementFacts DEF OfMachine, Statement
<1>3. ASSUME NEW q \in Request, q # r, NEW v \in req[q].wrote
      PROVE  v.on # Statement(r).on
  <2>1. Sound(q) /\ Shape(q) /\ Written(q)
    BY DEF IInv, Sound
  <2>2. PICK i \in Past(q) : Fits(v, req[q].asked[i])
    BY <1>3, <2>1 DEF Written
  <2>3. req[q].at # "idle"
    BY <2>1, <2>2 DEF Shape, Past, Idle
  <2>4. CASE OfMachine(q)
    <3>1. i = 1
      BY <2>2, <2>4 DEF OfMachine, Past
    <3> QED
      BY <1>1, <1>2, <1>3, <2>2, <2>3, <3>1 DEF Own, Fits
  <2>5. CASE OfSettings(q)
    <3>1. req[q].asked[i].on \in Key
      BY <2>2, <2>5, StatementFacts DEF OfSettings, Past
    <3> QED
      BY <1>2, <2>2, <3>1, TablesApart DEF Fits
  <2> QED
    BY <2>1, <2>3, <2>4, <2>5 DEF Shape
<1> QED
  BY <1>1, <1>2, <1>3 DEF Own

\* An INSERT, of a machine or of a setting.
LEMMA InsertedStep ==
    ASSUME IInv, NEW r \in Request, Inserted(r)
    PROVE  IInv'
<1> DEFINE s == Statement(r)
           w == [s EXCEPT !.op = "insert"]
<1>1. /\ Rows /\ Sound(r) /\ Shape(r) /\ Bounds' /\ row' = row /\ bounds' = bounds
      /\ WaitsFor(r) = {} /\ req[r].at \in {"next", "missing"}
      /\ s \in MachineStatement \union SetStatement
      /\ s.op \in {"insert", "set"}
  <2>1. Rows /\ Sound(r) /\ Shape(r) /\ Bounds' /\ row' = row /\ bounds' = bounds
    BY DEF IInv, Sound, Bounds, bounds, Inserted
  <2>2. WaitsFor(r) = {} /\ req[r].at \in {"next", "missing"} /\ s.op \in {"insert", "set"}
    BY DEF Inserted, Is
  <2> QED
    BY <2>1, <2>2, AtHand
<1>2. w.on = s.on /\ w.cols = s.cols /\ w.op = "insert"
  BY <1>1 DEF MachineStatement, SetStatement
<1>3. CASE Refused(r)
  BY <1>1, <1>3, Ending DEF Refused
<1>4. CASE s.op = "insert" /\ Goes(r, {w}, {s.cols}) /\ ~ MacTaken(r)
  <2>1. /\ s.on \in Machine /\ row[s.on].state = "unused"
        /\ \A q \in Request : q # r => \A v \in req[q].wrote : v.on # s.on
    BY <1>1, <1>4, OwnIsFree
  <2>2. MacHolders(r) = {}
    BY <1>1, <1>4, Waits DEF Inserted, Is
  <2>3. NewAddress(r, s.on, s.cols.mac)
    BY <1>4, <2>2, AddressIsFree
  <2>4. Fits(w, s)
    BY <1>2, <1>4 DEF Fits
  <2> HIDE DEF s, w
  <2> QED
    BY <1>1, <1>2, <1>4, <2>1, <2>3, <2>4, CarriedOut DEF s
<1>5. CASE s.op = "set" /\ Goes(r, {w}, {s.cols}) /\ ~ Live(s.on)
  <2>1. s \in SetStatement /\ s.on \in Key /\ s.on \notin Machine
    BY <1>1, <1>5, StatementFacts
  <2>2. row[s.on].state = "unused"
    BY <1>1, <1>5, <2>1 DEF Rows, Live
  <2>3. RowHolders(r) = {}
    BY <1>1, <1>5, Waits DEF Inserted, Is
  <2>4. \A q \in Request : q # r => \A v \in req[q].wrote : v.on # s.on
    BY <2>3, RowIsFree
  <2>5. Fits(w, s)
    BY <1>2, <1>5 DEF Fits
  <2> HIDE DEF s, w
  <2> QED
    BY <1>1, <1>2, <1>5, <2>1, <2>2, <2>4, <2>5, CarriedOut DEF s
<1> QED
  BY <1>1, <1>3, <1>4, <1>5 DEF Inserted

\* A DELETE.
LEMMA DeletedStep ==
    ASSUME IInv, NEW r \in Request, Deleted(r)
    PROVE  IInv'
<1> DEFINE s == Statement(r)
           W == IF Live(s.on) THEN {s} ELSE {}
<1>1. /\ row' = row /\ bounds' = bounds /\ req[r].at = "got" /\ s.op = "delete"
      /\ WaitsFor(r) = {} /\ Goes(r, W, {}) /\ Shape(r)
  BY DEF IInv, Sound, Deleted, Is
<1>2. s.on \in Machine /\ s.cols = <<>>
  BY <1>1, AtHand, StatementFacts
<1>3. RowHolders(r) = {}
  BY <1>1, Waits DEF Is
<1>4. \A q \in Request : q # r => \A v \in req[q].wrote : v.on # s.on
  BY <1>3, RowIsFree
<1>5. /\ \A w \in W : Fits(w, s) /\ w.op = "delete" /\ DOMAIN w.cols = {} /\ row[w.on].state = "live"
      /\ \A v, w \in W : v = w
  BY <1>1, <1>2, Columns DEF Fits, Live
<1> HIDE DEF s, W
<1> QED
  BY <1>1, <1>4, <1>5, CarriedOut DEF s

\* What an UPDATE is going to be.
LEMMA ChangesFacts ==
    ASSUME IInv, NEW r \in Request, Is(r, {"update", "set"}, "got")
    PROVE  /\ DOMAIN Changes(r) \subseteq DOMAIN Statement(r).cols
           /\ \A c \in DOMAIN Changes(r) : Changes(r)[c] = Statement(r).cols[c]
           /\ \A c \in DOMAIN Statement(r).cols :
                  \/ c \in DOMAIN Changes(r)
                  \/ Stays(r, Statement(r).on, c, Statement(r).cols[c])
<1>1. Shape(r) /\ ReadStays(r) /\ req[r].at = "got" /\ Statement(r).op \in {"update", "set"}
  BY DEF IInv, Sound, Is
<1>2. PICK v \in IF Statement(r).op = "set" THEN SettingColumns ELSE MachineColumns : req[r].read = {v}
  BY <1>1 DEF Shape
<1>3. Changes(r) = Changed(v, Statement(r).cols)
  BY <1>2 DEF Changes
<1>4. DOMAIN Statement(r).cols \subseteq DOMAIN v
  BY <1>1, <1>2, AtHand, StatementFacts, Columns
<1>5. \A c \in DOMAIN v : Stays(r, Statement(r).on, c, v[c])
  BY <1>1, <1>2 DEF ReadStays
<1> QED
  BY <1>3, <1>4, <1>5, ChangedFacts

\* An UPDATE, which then waits for the index if it changes the address.
LEMMA UpdatedStep ==
    ASSUME IInv, NEW r \in Request, Updated(r)
    PROVE  IInv'
<1> DEFINE s == Statement(r)
           n == Changes(r)
           w == [op |-> "update", on |-> s.on, cols |-> n]
<1>1. /\ Records /\ Rows /\ Sound(r) /\ Shape(r) /\ Bounds' /\ row' = row /\ bounds' = bounds
      /\ req[r].at = "got" /\ s.op \in {"update", "set"} /\ Is(r, {"update", "set"}, "got")
      /\ n = <<>> \/ RowHolders(r) = {}
  <2>1. Is(r, {"update", "set"}, "got") /\ WaitsFor(r) = {}
    BY DEF Updated
  <2> QED
    BY <2>1, Waits DEF IInv, Sound, Bounds, bounds, Updated, Is
<1>2. w.on = s.on /\ w.op = "update" /\ w.cols = n
  OBVIOUS
<1>3. Fits(w, s)
  BY <1>1, <1>2, ChangesFacts DEF Fits
<1>4. \A c \in DOMAIN s.cols : c \in DOMAIN n \/ Stays(r, s.on, c, s.cols[c])
  BY <1>1, ChangesFacts
<1>5. n # <<>> => \A q \in Request : q # r => \A v \in req[q].wrote : v.on # s.on
  BY <1>1, RowIsFree
<1>6. CASE Refused(r)
  BY <1>1, <1>6, Ending DEF Refused
<1>7. CASE Live(s.on) /\ "mac" \notin DOMAIN n /\ Goes(r, IF n = <<>> THEN {} ELSE {w}, {Refreshed(r)})
  <2> DEFINE W == IF n = <<>> THEN {} ELSE {w}
  <2>1. /\ \A v \in W : /\ Fits(v, s) /\ v.on = s.on /\ v.op = "update" /\ v.cols = n
                        /\ "mac" \notin DOMAIN v.cols /\ row[v.on].state = "live"
                        /\ {Refreshed(r)} = {With(row[v.on].cols, v.cols)}
        /\ \A u, v \in W : u = v
        /\ W # {} => \A q \in Request : q # r => \A v \in req[q].wrote : v.on # s.on
        /\ Goes(r, W, {Refreshed(r)})
    BY <1>2, <1>3, <1>5, <1>7 DEF Live, Refreshed
  <2>2. \A c \in DOMAIN s.cols : (\E v \in W : c \in DOMAIN v.cols) \/ Stays(r, s.on, c, s.cols[c])
    BY <1>2, <1>4, Columns
  <2> HIDE DEF s, n, w, W
  <2> QED
    BY <1>1, <2>1, <2>2, CarriedOut DEF s
<1>8. CASE /\ Live(s.on) /\ "mac" \in DOMAIN n
           /\ req' = [req EXCEPT ![r].at = "unique", ![r].wrote = @ \union {w},
                                 ![r].answer = {Refreshed(r)}]
  <2> DEFINE x == [req[r] EXCEPT !.at = "unique", !.wrote = @ \union {w}, !.answer = {Refreshed(r)}]
  <2>1. req' = [req EXCEPT ![r] = x] /\ Served(req[r])
    BY <1>1, <1>8 DEF Records, Served
  <2>2. /\ Served(x) /\ x.asked = req[r].asked /\ x.k = req[r].k /\ x.wrote = req[r].wrote \union {w}
        /\ x.answer = {Refreshed(r)} /\ x.at = "unique" /\ x.read = req[r].read /\ x.over = req[r].over
    BY <2>1 DEF Served
  <2> HIDE DEF x
  <2>3. Records' /\ req'[r] = x /\ \A q \in Request : q # r => req'[q] = req[q]
    BY <1>1, <2>1, <2>2, Replaced
  <2>4. OfMachine(r) /\ s \in MachineStatement /\ s.op = "update" /\ s = req[r].asked[1] /\ req[r].k = 1
    <3>1. s \in MachineStatement /\ OfMachine(r)
      <4>1. s \notin SetStatement
        BY <1>1, <1>8, ChangesFacts, StatementFacts, Columns
      <4> QED
        BY <1>1, <4>1, AtHand
    <3> QED
      BY <1>1, <3>1, StatementFacts DEF OfMachine, Statement
  <2>5. req[r].wrote = {} /\ req'[r].wrote = {w}
    <3>1. Past(r) = {} /\ Written(r)
      BY <1>1, <2>4, PastIsElsewhere DEF Sound
    <3> QED
      BY <2>2, <2>3, <3>1 DEF Written
  <2>6. OfMachine(r)' /\ Past(r)' = {1} /\ Statement(r)' = s /\ Claims(r)' = {} /\ req'[r].asked[1] = s
    BY <2>2, <2>3, <2>4 DEF OfMachine, Past, Statement, Claims
  <2>7. Shape(r)'
    BY <1>1, <2>2, <2>3, <2>4, <2>6 DEF Shape
  <2>8. Written(r)'
    BY <1>2, <1>3, <1>8, <2>5, <2>6 DEF Written
  <2>9. Pending(r)'
    BY <1>1, <1>2, <1>8, <2>5 DEF Pending, Live
  <2>10. ClaimIsNew(r)' /\ ReadStays(r)'
    BY <2>2, <2>3, <2>6 DEF ClaimIsNew, ReadStays
  <2>11. NamedStays(r)'
    <3>1. \A c \in DOMAIN s.cols : \/ \E v \in req'[r].wrote : v.on = s.on /\ c \in DOMAIN v.cols
                                   \/ Stays(r, s.on, c, s.cols[c])
      BY <1>2, <1>4, <2>5
    <3> DEFINE Kept(y, c, v) ==
                   /\ row'[y].state # "unused"
                   /\ row'[y].state = "live" => row'[y].cols[c] = v \/ <<y, c>> \in req'[r].over
    <3>2. \A y, c, v : Stays(r, y, c, v) => Kept(y, c, v)
      BY <1>1, <2>2, <2>3 DEF Stays, Live
    <3> HIDE DEF s, w, n, Kept
    <3>3. \A i \in Past(r)' : req'[r].asked[i] = s
      BY <2>6
    <3>4. \A i \in Past(r)' : \A c \in DOMAIN req'[r].asked[i].cols :
              \/ \E v \in req'[r].wrote : v.on = req'[r].asked[i].on /\ c \in DOMAIN v.cols
              \/ Kept(req'[r].asked[i].on, c, req'[r].asked[i].cols[c])
      BY <3>1, <3>2, <3>3
    <3> QED
      BY <3>4 DEF NamedStays, Stays, Live, Kept
  <2>12. Answered(r)'
    BY <1>1, <1>2, <2>2, <2>3, <2>5 DEF Answered, Refreshed
  <2>13. \A q \in Request : Own(q)'
    BY <1>1, <2>2, <2>3, OwnStays
  <2>14. Sound(r)'
    BY <2>7, <2>8, <2>9, <2>10, <2>11, <2>12, <2>13 DEF Sound
  <2>15. \A v \in req'[r].wrote : \A q \in Request : q # r => \A u \in req[q].wrote : v.on # u.on
    <3>1. n # <<>>
      BY <1>8, Columns
    <3> QED
      BY <1>2, <1>5, <2>5, <3>1
  <2> QED
    BY <1>1, <2>3, <2>13, <2>14, <2>15, Moves
<1> QED
  BY <1>6, <1>7, <1>8 DEF Updated, Gone

\* The address is put into the index.
LEMMA IndexedStep ==
    ASSUME IInv, NEW r \in Request, Indexed(r)
    PROVE  IInv'
<1>1. /\ Records /\ Sound(r) /\ Shape(r) /\ Bounds' /\ row' = row /\ bounds' = bounds
      /\ Written(r) /\ Pending(r) /\ NamedStays(r) /\ Answered(r)
      /\ req[r].at = "unique" /\ Statement(r).op = "update" /\ MacHolders(r) = {}
  BY Waits DEF IInv, Sound, Bounds, bounds, Indexed, Is
<1>2. CASE Refused(r)
  BY <1>1, <1>2, Ending DEF Refused
<1>3. CASE ~ MacTaken(r) /\ Goes(r, {}, req[r].answer)
  <2>1. /\ Records' /\ \A q \in Request : q # r => req'[q] = req[q]
        /\ req'[r].asked = req[r].asked /\ req'[r].over = req[r].over
        /\ req'[r].wrote = req[r].wrote /\ req'[r].answer = req[r].answer
        /\ req'[r].at \in {"next", "done"}
        /\ Shape(r)' /\ Past(r)' = Past(r) \union {req[r].k}
    <3>1. req[r].at # "idle" /\ req[r].at \in {"next", "got", "missing", "unique"}
      BY <1>1
    <3>2. \A W : W \union {} = W
      OBVIOUS
    <3> QED
      BY <1>1, <1>3, <3>1, <3>2, GoesOn
  <2>2. OfMachine(r) /\ Past(r)' = Past(r) /\ \A i \in Past(r) : req[r].asked[i] = Statement(r)
    BY <1>1, <2>1 DEF Shape, OfMachine, OfSettings, Past, Statement
  <2>3. Written(r)' /\ Pending(r)' /\ ReadStays(r)' /\ Answered(r)'
    BY <1>1, <2>1, <2>2 DEF Written, Pending, ReadStays, Answered
  <2>4. NamedStays(r)'
    BY <1>1, <2>1, <2>2 DEF NamedStays, Stays, Live
  <2>5. ClaimIsNew(r)'
    <3>1. NewAddress(r, Statement(r).on, Statement(r).cols.mac)
      BY <1>1, <1>3, AddressIsFree
    <3>2. \A w \in Claims(r)' : w.on = Statement(r).on /\ w.cols.mac = Statement(r).cols.mac
      BY <1>1, <2>1, <2>2 DEF Claims, Written, Fits
    <3>3. \A q \in Request \ {r} : Claims(q)' = Claims(q)
      BY <2>1 DEF Claims
    <3> QED
      BY <1>1, <3>1, <3>2, <3>3 DEF ClaimIsNew, NewAddress, Live
  <2>6. \A q \in Request : Own(q)'
    BY <1>1, <2>1, OwnStays
  <2>7. \A v \in req'[r].wrote : \A q \in Request : q # r => \A u \in req[q].wrote : v.on # u.on
    BY <2>1 DEF IInv, RowLocks
  <2>8. Sound(r)'
    BY <2>1, <2>3, <2>4, <2>5, <2>6 DEF Sound
  <2> QED
    BY <1>1, <2>1, <2>6, <2>7, <2>8, Moves
<1> QED
  BY <1>2, <1>3 DEF Indexed

----------------------------------------------------------------------------
\* The commit.

\* What is written.
LEMMA WroteFacts ==
    ASSUME IInv, NEW r \in Request, NEW w \in req[r].wrote
    PROVE  /\ w.op \in {"insert", "update", "delete"} /\ w.on \in Table
           /\ DOMAIN w.cols \subseteq {"mac", "name", "value"}
           /\ w.op = "insert" => /\ row[w.on].state = "unused"
                                 /\ w.cols \in IF w.on \in Machine THEN MachineColumns ELSE SettingColumns
           /\ w.op = "update" => /\ row[w.on].state = "live"
                                 /\ With(row[w.on].cols, w.cols) \in
                                        IF w.on \in Machine THEN MachineColumns ELSE SettingColumns
           /\ w.op = "delete" => w.on \in Machine /\ w.cols = <<>> /\ row[w.on].state = "live"
           /\ w.on \in Machine => OfMachine(r) /\ Fits(w, req[r].asked[1])
<1>1. Shape(r) /\ Written(r) /\ Pending(r) /\ Rows
  BY DEF IInv, Sound
<1>2. PICK i \in Past(r) : Fits(w, req[r].asked[i])
  BY <1>1 DEF Written
<1>3. req[r].at # "idle"
  BY <1>1, <1>2 DEF Shape, Past, Idle
<1> DEFINE s == req[r].asked[i]
<1>4. CASE OfMachine(r)
  <2>1. s \in MachineStatement /\ i = 1
    BY <1>4, <1>2 DEF OfMachine, Past
  <2>2. w.op \in {"insert", "update", "delete"} /\ w.on \in Machine /\ w.on \in Table
    BY <1>2, <2>1, StatementFacts DEF Fits
  <2>3. w.op = "insert" => /\ row[w.on].state = "unused" /\ w.cols \in MachineColumns
                           /\ DOMAIN w.cols \subseteq {"mac", "name", "value"}
    BY <1>1, <1>2, <2>1, StatementFacts, Columns DEF Fits, Pending
  <2>4. w.op = "delete" => w.cols = <<>> /\ row[w.on].state = "live"
    BY <1>1, <1>2 DEF Fits, Pending
  <2>5. w.op = "update" => /\ row[w.on].state = "live" /\ row[w.on].cols \in MachineColumns
                           /\ s.cols \in Body /\ DOMAIN w.cols \subseteq DOMAIN s.cols
                           /\ \A c \in DOMAIN w.cols : w.cols[c] = s.cols[c]
    BY <1>1, <1>2, <2>1, <2>2, StatementFacts DEF Fits, Pending, Rows, Live
  <2>6. w.op = "update" => With(row[w.on].cols, w.cols) \in MachineColumns
    BY <2>5, WithMachine
  <2>7. w.op = "update" => DOMAIN w.cols \subseteq {"mac", "name", "value"}
    BY <2>5, Columns
  <2> QED
    BY <1>2, <1>4, <2>1, <2>2, <2>3, <2>4, <2>5, <2>6, <2>7, Columns
<1>5. CASE OfSettings(r)
  <2>1. s \in SetStatement /\ s.op = "set" /\ s.on \in Key /\ s.on \notin Machine /\ s.on \in Table
        /\ s.cols \in SettingColumns
    BY <1>5, <1>2, StatementFacts DEF OfSettings, Past
  <2>2. w.on = s.on /\ w.op \in {"insert", "update"}
    BY <1>2, <2>1 DEF Fits
  <2>3. w.op = "insert" => /\ row[w.on].state = "unused" /\ w.cols \in SettingColumns
                           /\ DOMAIN w.cols \subseteq {"mac", "name", "value"}
    BY <1>1, <1>2, <2>1, Columns DEF Fits, Pending
  <2>4. w.op = "update" => /\ row[w.on].state = "live" /\ row[w.on].cols \in SettingColumns
                           /\ DOMAIN w.cols \subseteq DOMAIN s.cols
                           /\ \A c \in DOMAIN w.cols : w.cols[c] = s.cols[c]
    BY <1>1, <1>2, <2>1, <2>2 DEF Fits, Pending, Rows, Live
  <2>5. w.op = "update" => With(row[w.on].cols, w.cols) \in SettingColumns
    BY <2>1, <2>4, WithSetting
  <2>6. w.op = "update" => DOMAIN w.cols \subseteq {"mac", "name", "value"}
    BY <2>1, <2>4, Columns
  <2> QED
    BY <2>1, <2>2, <2>3, <2>4, <2>5, <2>6
<1> QED
  BY <1>1, <1>3, <1>4, <1>5 DEF Shape

\* A transaction writes one machine at most.
LEMMA OneMachine ==
    ASSUME IInv, NEW r \in Request, NEW v \in req[r].wrote, NEW w \in req[r].wrote,
           v.on \in Machine, w.on \in Machine
    PROVE  v = w
<1>1. v.on = w.on
  BY WroteFacts DEF Fits
<1> QED
  BY <1>1 DEF IInv, Sound, Written

\* The rows after a commit.
LEMMA CommittedRows ==
    ASSUME IInv, NEW r \in Request, Commit(r)
    PROVE  /\ \A x \in Table : (\A w \in req[r].wrote : w.on # x) => row'[x] = row[x]
           /\ \A w \in req[r].wrote :
                  /\ row'[w.on].state = IF w.op = "delete" THEN "deleted" ELSE "live"
                  /\ w.op = "insert" => row'[w.on].cols = w.cols
                  /\ w.op = "update" => row'[w.on].cols = With(row[w.on].cols, w.cols)
                  /\ w.op = "delete" => row'[w.on].cols = <<>>
                  /\ row'[w.on] = [state |-> row'[w.on].state, cols |-> row'[w.on].cols]
           /\ \A x : (\A w \in req[r].wrote : w.on # x) \/ \E w \in req[r].wrote : w.on = x
<1>1. \A x \in Table : row'[x] = RowAfter(x, req[r].wrote)
  BY DEF Commit
<1>2. ASSUME NEW x \in Table, \A w \in req[r].wrote : w.on # x
      PROVE  row'[x] = row[x]
  BY <1>1, <1>2 DEF RowAfter
<1>3. ASSUME NEW w \in req[r].wrote
      PROVE  /\ row'[w.on].state = IF w.op = "delete" THEN "deleted" ELSE "live"
             /\ w.op = "insert" => row'[w.on].cols = w.cols
             /\ w.op = "update" => row'[w.on].cols = With(row[w.on].cols, w.cols)
             /\ w.op = "delete" => row'[w.on].cols = <<>>
             /\ row'[w.on] = [state |-> row'[w.on].state, cols |-> row'[w.on].cols]
  <2>1. \A v \in req[r].wrote : v.on = w.on => v = w
    BY DEF IInv, Sound, Written
  <2>2. (CHOOSE v \in req[r].wrote : v.on = w.on) = w
    BY <2>1
  <2>3. w.on \in Table /\ w.op \in {"insert", "update", "delete"}
    BY WroteFacts
  <2>4. row'[w.on] = CASE w.op = "insert" -> [state |-> "live", cols |-> w.cols]
                       [] w.op = "update" -> [state |-> "live", cols |-> With(row[w.on].cols, w.cols)]
                       [] OTHER -> [state |-> "deleted", cols |-> <<>>]
    BY <1>1, <2>2, <2>3 DEF RowAfter
  <2>5. CASE w.op = "insert"
    BY <2>4, <2>5
  <2>6. CASE w.op = "update"
    BY <2>4, <2>6
  <2>7. CASE w.op = "delete"
    BY <2>4, <2>7
  <2> QED
    BY <2>3, <2>5, <2>6, <2>7
<1> QED
  BY <1>2, <1>3

\* The addresses after a commit are those before, or were put into the index.
LEMMA CommittedMacs ==
    ASSUME IInv, NEW r \in Request, Commit(r), NEW x \in Machine, Live(x)'
    PROVE  \/ Live(x) /\ row'[x].cols.mac = row[x].cols.mac
           \/ \E w \in Claims(r) : w.on = x /\ row'[x].cols.mac = w.cols.mac
<1>1. req[r].at = "done" /\ Rows /\ x \in Table
  BY DEF Commit, IInv, Table
<1>2. CASE \A w \in req[r].wrote : w.on # x
  BY <1>1, <1>2, CommittedRows DEF Live
<1>3. CASE \E w \in req[r].wrote : w.on = x
  <2>1. PICK w \in req[r].wrote : w.on = x
    BY <1>3
  <2>2. w.op # "delete"
    BY <2>1, CommittedRows DEF Live
  <2>3. CASE w.op = "insert"
    <3>1. w.cols \in MachineColumns /\ row'[x].cols = w.cols
      BY <2>1, <2>3, WroteFacts, CommittedRows
    <3> QED
      BY <1>1, <2>1, <3>1, Columns DEF Claims
  <2>4. CASE w.op = "update"
    <3>1. row[x].state = "live" /\ row'[x].cols = With(row[x].cols, w.cols)
      BY <2>1, <2>4, WroteFacts, CommittedRows
    <3>2. "mac" \in DOMAIN row[x].cols
      BY <1>1, <3>1, Columns DEF Rows, Live
    <3>3. row'[x].cols.mac = IF "mac" \in DOMAIN w.cols THEN w.cols.mac ELSE row[x].cols.mac
      BY <3>1, <3>2, WithFacts
    <3> QED
      BY <1>1, <2>1, <3>1, <3>3 DEF Claims, Live
  <2> QED
    BY <2>2, <2>3, <2>4, WroteFacts
<1> QED
  BY <1>2, <1>3

\* What a commit does to the requests.
LEMMA CommittedRequests ==
    ASSUME IInv, NEW r \in Request, Commit(r)
    PROVE  /\ Records' /\ req'[r] = Idle
           /\ \A q \in Request : q # r =>
                  /\ req[q].at = "idle" => req'[q] = req[q]
                  /\ req'[q].asked = req[q].asked /\ req'[q].k = req[q].k /\ req'[q].at = req[q].at
                  /\ req'[q].read = req[q].read /\ req'[q].wrote = req[q].wrote
                  /\ req'[q].answer = req[q].answer
                  /\ req[q].over \subseteq req'[q].over
                  /\ req[q].at # "idle" => \A w \in req[r].wrote : \A c \in DOMAIN w.cols :
                                               <<w.on, c>> \in req'[q].over
<1> DEFINE written == {<<w.on, c>> : w \in req[r].wrote, c \in {"mac", "name", "value"}}
           more == {o \in written : \E w \in req[r].wrote : w.on = o[1] /\ o[2] \in DOMAIN w.cols}
           x(q) == [req[q] EXCEPT !.over = @ \union more]
<1>1. req' = [q \in Request |-> IF q = r THEN Idle ELSE IF req[q].at = "idle" THEN req[q] ELSE x(q)]
  BY DEF Commit
<1>2. \A w \in req[r].wrote : \A c \in DOMAIN w.cols : <<w.on, c>> \in more
  BY WroteFacts
<1>3. ASSUME NEW q \in Request
      PROVE  /\ Served(x(q)) /\ x(q).asked = req[q].asked /\ x(q).k = req[q].k /\ x(q).at = req[q].at
             /\ x(q).read = req[q].read /\ x(q).wrote = req[q].wrote /\ x(q).answer = req[q].answer
             /\ x(q).over = req[q].over \union more
  BY DEF IInv, Records, Served
<1>4. Served(Idle) /\ Records
  BY DEF Idle, Served, IInv
<1> HIDE DEF x, more
<1>5. Records'
  BY <1>1, <1>3, <1>4 DEF Records
<1> QED
  BY <1>1, <1>2, <1>3, <1>5

\* A column of a row that is there is kept by a commit, or known to be overwritten.
LEMMA CommittedStays ==
    ASSUME IInv, NEW r \in Request, Commit(r), NEW q \in Request, q # r, req[q].at # "idle",
           NEW x \in Table, NEW c \in IF x \in Machine THEN {"mac", "name"} ELSE {"value"}, NEW v,
           Stays(q, x, c, v)
    PROVE  /\ row'[x].state # "unused"
           /\ row'[x].state = "live" => row'[x].cols[c] = v \/ <<x, c>> \in req'[q].over
<1>1. CASE \A w \in req[r].wrote : w.on # x
  BY <1>1, CommittedRows, CommittedRequests DEF Stays, Live
<1>2. CASE \E w \in req[r].wrote : w.on = x
  <2>1. PICK w \in req[r].wrote : w.on = x
    BY <1>2
  <2>2. w.op \in {"update", "delete"} /\ row[x].state = "live"
    BY <2>1, WroteFacts DEF Stays
  <2>3. CASE w.op = "delete"
    BY <2>1, <2>3, CommittedRows
  <2>4. CASE w.op = "update"
    <3>1. row'[x].state = "live" /\ row'[x].cols = With(row[x].cols, w.cols)
      BY <2>1, <2>4, CommittedRows
    <3>2. c \in DOMAIN row[x].cols
      BY <2>2, StoreAssumption, Columns DEF IInv, Rows, Live, Table, Key
    <3>3. c \in DOMAIN w.cols \/ row'[x].cols[c] = row[x].cols[c]
      BY <3>1, <3>2, WithFacts
    <3>4. c \in DOMAIN w.cols => <<x, c>> \in req'[q].over
      BY <2>1, CommittedRequests
    <3> QED
      BY <2>2, <3>1, <3>3, <3>4, CommittedRequests DEF Stays, Live
  <2> QED
    BY <2>2, <2>3, <2>4
<1> QED
  BY <1>1, <1>2

\* What others commit does not make a request unsound.
LEMMA CommitLeavesOthers ==
    ASSUME IInv, NEW r \in Request, Commit(r), NEW q \in Request, q # r
    PROVE  Sound(q)'
<1>1. /\ req[q].at = "idle" => req'[q] = req[q]
      /\ req'[q].asked = req[q].asked /\ req'[q].k = req[q].k /\ req'[q].at = req[q].at
      /\ req'[q].read = req[q].read /\ req'[q].wrote = req[q].wrote /\ req'[q].answer = req[q].answer
  BY CommittedRequests
<1>2. Sound(q) /\ Shape(q)
  BY DEF IInv, Sound
<1>3. \A w \in req[q].wrote : row'[w.on] = row[w.on]
  <2>1. \A w \in req[q].wrote : w.on \in Table /\ \A v \in req[r].wrote : v.on # w.on
    BY WroteFacts DEF IInv, RowLocks
  <2> QED
    BY <2>1, CommittedRows
<1>4. Statement(q)' = Statement(q) /\ Past(q)' = Past(q) /\ Claims(q)' = Claims(q)
  BY <1>1 DEF Statement, Past, Claims
<1>5. Shape(q)'
  <2>1. (OfMachine(q) => OfMachine(q)') /\ (OfSettings(q) => OfSettings(q)')
    BY <1>1 DEF OfMachine, OfSettings
  <2>2. req[q].at = "idle" => req'[q] = Idle
    BY <1>1, <1>2 DEF Shape
  <2> QED
    BY <1>1, <1>2, <1>4, <2>1, <2>2 DEF Shape
<1>6. Written(q)'
  BY <1>1, <1>2, <1>4 DEF Sound, Written
<1>7. Pending(q)'
  BY <1>1, <1>2, <1>3 DEF Sound, Pending
<1>8. Answered(q)'
  BY <1>1, <1>2, <1>3 DEF Sound, Answered
<1>9. Own(q)'
  <2>1. SUFFICES ASSUME req[q].at # "idle", req[q].asked[1].op = "insert"
                 PROVE  Own(q)'
    BY <1>1 DEF Own
  <2>2. Statement(q) = req[q].asked[1] /\ Statement(q).op = "insert"
    BY <1>2, <2>1, StatementFacts, SettingsInOrder DEF Shape, OfMachine, OfSettings, Statement
  <2>3. /\ Statement(q).on \in Machine
        /\ \A v \in req[r].wrote : v.on # Statement(q).on
    BY <2>1, <2>2, OwnIsFree
  <2>4. row'[Statement(q).on] = row[Statement(q).on]
    BY <2>3, CommittedRows DEF Table
  <2>5. \A p \in Request : req'[p].at # "idle" => req[p].at # "idle" /\ req'[p].asked = req[p].asked
    BY CommittedRequests DEF Idle
  <2> QED
    BY <1>1, <1>2, <2>1, <2>2, <2>4, <2>5 DEF Sound, Own
<1>10. ClaimIsNew(q)'
  <2>1. \A p \in Request : Claims(p)' \subseteq Claims(p)
    BY CommittedRequests DEF Claims, Idle
  <2>2. \A w \in Claims(q) : \A v \in Claims(r) : v.cols.mac # w.cols.mac
    BY <1>2 DEF Sound, ClaimIsNew
  <2>3. ASSUME NEW w \in Claims(q), NEW y \in Machine \ {w.on}, Live(y)'
        PROVE  row'[y].cols.mac # w.cols.mac
    BY <1>2, <2>2, <2>3, CommittedMacs DEF Sound, ClaimIsNew
  <2> QED
    BY <1>2, <1>4, <2>1, <2>3 DEF Sound, ClaimIsNew
<1>11. ReadStays(q)'
  <2>1. SUFFICES ASSUME req[q].at = "got", NEW v \in req[q].read, NEW c \in DOMAIN v
                 PROVE  /\ row'[Statement(q).on].state # "unused"
                        /\ row'[Statement(q).on].state = "live" =>
                               \/ row'[Statement(q).on].cols[c] = v[c]
                               \/ <<Statement(q).on, c>> \in req'[q].over
    BY <1>1, <1>4 DEF ReadStays, Stays, Live
  <2>2. Stays(q, Statement(q).on, c, v[c])
    BY <1>2, <2>1 DEF Sound, ReadStays
  <2>3. /\ Statement(q).on \in Table
        /\ c \in IF Statement(q).on \in Machine THEN {"mac", "name"} ELSE {"value"}
    BY <1>2, <2>1, AtHand, StatementFacts, Columns DEF Shape
  <2> QED
    BY <2>1, <2>2, <2>3, CommittedStays
<1>12. NamedStays(q)'
  <2>1. ASSUME NEW i \in Past(q), req[q].asked[i].op \in {"update", "set"},
               NEW c \in DOMAIN req[q].asked[i].cols,
               Stays(q, req[q].asked[i].on, c, req[q].asked[i].cols[c])
        PROVE  /\ row'[req[q].asked[i].on].state # "unused"
               /\ row'[req[q].asked[i].on].state = "live" =>
                      \/ row'[req[q].asked[i].on].cols[c] = req[q].asked[i].cols[c]
                      \/ <<req[q].asked[i].on, c>> \in req'[q].over
    <3>1. req[q].at # "idle"
      BY <1>2, <2>1 DEF Shape, Past, Idle
    <3>2. /\ req[q].asked[i].on \in Table
          /\ c \in IF req[q].asked[i].on \in Machine THEN {"mac", "name"} ELSE {"value"}
      <4>1. CASE OfMachine(q)
        BY <2>1, <4>1, StatementFacts, Columns DEF OfMachine, Past
      <4>2. CASE OfSettings(q)
        BY <2>1, <4>2, StatementFacts, Columns DEF OfSettings, Past
      <4> QED
        BY <1>2, <3>1, <4>1, <4>2 DEF Shape
    <3> QED
      BY <2>1, <3>1, <3>2, CommittedStays
  <2> QED
    BY <1>1, <1>2, <1>4, <2>1 DEF Sound, NamedStays, Stays, Live
<1> QED
  BY <1>5, <1>6, <1>7, <1>8, <1>9, <1>10, <1>11, <1>12 DEF Sound

\* The transaction's writes become the rows.
LEMMA CommitStep ==
    ASSUME IInv, NEW r \in Request, Commit(r)
    PROVE  IInv'
<1>1. Records' /\ req'[r] = Idle
  BY CommittedRequests
<1>2. \A q \in Request : Sound(q)'
  BY <1>1, IdleIsSound, CommitLeavesOthers
<1>3. RowLocks'
  BY CommittedRequests DEF IInv, RowLocks, Idle
<1>4. Bounds'
  BY DEF IInv, Bounds, Commit, bounds
<1>5. Rows'
  <2>1. Rows
    BY DEF IInv
  <2>2. \A x \in Table : \/ row'[x] = row[x]
                         \/ \E w \in req[r].wrote : w.on = x
    BY CommittedRows
  <2>3. ASSUME NEW w \in req[r].wrote
        PROVE  /\ row'[w.on].state \in {"live", "deleted"}
               /\ w.on \notin Machine => row'[w.on].state = "live"
               /\ row'[w.on].cols \in IF row'[w.on].state = "live"
                                      THEN IF w.on \in Machine THEN MachineColumns ELSE SettingColumns
                                      ELSE {<<>>}
               /\ row'[w.on] = [state |-> row'[w.on].state, cols |-> row'[w.on].cols]
    BY WroteFacts, CommittedRows
  <2>4. \A x \in Machine : x \in Table
    BY DEF Table
  <2>5. ASSUME NEW x \in Table
        PROVE  /\ x \in Machine => /\ row'[x].state \in {"unused", "live", "deleted"}
                                   /\ row'[x].cols \in IF row'[x].state = "live" THEN MachineColumns
                                                                               ELSE {<<>>}
               /\ x \in Key => /\ row'[x].state \in {"unused", "live"}
                               /\ row'[x].cols \in IF row'[x].state = "live" THEN SettingColumns
                                                                           ELSE {<<>>}
               /\ row'[x] = [state |-> row'[x].state, cols |-> row'[x].cols]
    <3>1. CASE row'[x] = row[x]
      BY <2>1, <3>1 DEF Rows, Live
    <3>2. CASE \E w \in req[r].wrote : w.on = x
      <4>1. PICK w \in req[r].wrote : w.on = x
        BY <3>2
      <4> QED
        BY <4>1, <2>3, TablesApart
    <3> QED
      BY <2>2, <3>1, <3>2
  <2> QED
    BY <2>4, <2>5, TablesApart DEF Rows, Live
<1>6. UniqueMacs'
  <2>1. SUFFICES ASSUME NEW x \in Machine, NEW y \in Machine, x # y, Live(x)', Live(y)',
                        row'[x].cols.mac = row'[y].cols.mac
                 PROVE  FALSE
    BY DEF UniqueMacs
  <2>2. \/ Live(x) /\ row'[x].cols.mac = row[x].cols.mac
        \/ \E w \in Claims(r) : w.on = x /\ row'[x].cols.mac = w.cols.mac
    BY <2>1, CommittedMacs
  <2>3. \/ Live(y) /\ row'[y].cols.mac = row[y].cols.mac
        \/ \E w \in Claims(r) : w.on = y /\ row'[y].cols.mac = w.cols.mac
    BY <2>1, CommittedMacs
  <2>4. UniqueMacs /\ ClaimIsNew(r)
    BY DEF IInv, Sound
  <2>5. \A v, w \in Claims(r) : v = w
    BY OneMachine DEF Claims
  <2> QED
    BY <2>1, <2>2, <2>3, <2>4, <2>5 DEF UniqueMacs, ClaimIsNew
<1> QED
  BY <1>1, <1>2, <1>3, <1>4, <1>5, <1>6 DEF IInv

----------------------------------------------------------------------------
\* Requests that come.

\* What a request is asked for: one statement about a machine, which nobody inserts but
\* itself, or the settings in their order.
LEMMA ArriveStep ==
    ASSUME IInv, NEW r \in Request, Arrive(r)
    PROVE  IInv'
<1>1. /\ Records /\ Bounds /\ Sound(r) /\ req[r] = Idle /\ row' = row /\ faults' = faults
      /\ count' = count + 1 /\ count < MaxRequests
  BY DEF IInv, Sound, Shape, Arrive
<1>2. Bounds'
  BY <1>1, StoreAssumption DEF Bounds
<1>3. PICK s \in create_machine \union update_machine \union delete_machine \union settings_post :
          req' = [req EXCEPT ![r] = [Idle EXCEPT !.asked = s, !.at = "next"]]
  BY DEF Arrive
<1> DEFINE x == [Idle EXCEPT !.asked = s, !.at = "next"]
<1>4. /\ Served(x) /\ x.asked = s /\ x.k = 1 /\ x.at = "next" /\ x.read = {} /\ x.wrote = {}
  BY DEF Served, Idle
<1> HIDE DEF x
<1>5. Records' /\ req'[r] = x /\ \A q \in Request : q # r => req'[q] = req[q]
  BY <1>1, <1>3, <1>4, Replaced DEF x
<1>6. ASSUME NEW m \in Machine, NEW t \in MachineStatement, t.on = m, s = <<t>>
      PROVE  OfMachine(r)' /\ s[1].on = m
  BY <1>4, <1>5, <1>6 DEF OfMachine
<1>7. /\ OfMachine(r)' \/ OfSettings(r)'
      /\ \/ s[1].on \in Fresh
         \/ s[1].on \in Known /\ s[1].op # "insert"
         \/ s[1].on \in Key /\ s[1].op # "insert"
  <2>1. CASE s \in create_machine
    <3>1. PICK m \in Fresh, cols \in MachineColumns : s = <<Insert(m, cols)>>
      BY <2>1 DEF create_machine
    <3>2. Insert(m, cols) \in MachineStatement /\ Insert(m, cols).on = m /\ m \in Machine
      BY DEF MachineStatement, Insert, Fresh
    <3> QED
      BY <1>6, <3>1, <3>2
  <2>2. CASE s \in update_machine
    <3>1. PICK m \in Known, cols \in Body : s = <<Update(m, cols)>>
      BY <2>2 DEF update_machine
    <3>2. /\ Update(m, cols) \in MachineStatement /\ Update(m, cols).on = m /\ m \in Machine
          /\ Update(m, cols).op = "update"
      BY DEF MachineStatement, Update, Known
    <3> QED
      BY <1>6, <3>1, <3>2
  <2>3. CASE s \in delete_machine
    <3>1. PICK m \in Known : s = <<Delete(m)>>
      BY <2>3 DEF delete_machine
    <3>2. /\ Delete(m) \in MachineStatement /\ Delete(m).on = m /\ m \in Machine
          /\ Delete(m).op = "delete"
      BY DEF MachineStatement, Delete, Known
    <3> QED
      BY <1>6, <3>1, <3>2
  <2>4. CASE s \in settings_post
    <3>1. PICK v \in [DOMAIN Keys -> Text] : s = [k \in DOMAIN Keys |-> Set(Keys[k], v[k])]
      BY <2>4 DEF settings_post
    <3>2. DOMAIN s = 1..Len(Keys) /\ Len(Keys) \in Nat \ {0}
      BY <3>1, SettingsInOrder
    <3>3. Len(s) = Len(Keys)
      <4>1. s \in Seq({s[i] : i \in 1..Len(Keys)})
        BY <3>1, <3>2, SettingsInOrder
      <4> QED
        BY <3>2, <4>1, LenProperties
    <3>4. ASSUME NEW i \in 1..Len(Keys)
          PROVE  s[i] \in SetStatement /\ s[i].on = Keys[i] /\ s[i].op = "set" /\ s[i].on \in Key
      BY <3>1, SettingsInOrder DEF SetStatement, SettingColumns, Set
    <3>5. 1 \in 1..Len(Keys)
      BY <3>2
    <3> QED
      BY <1>4, <1>5, <3>2, <3>3, <3>4, <3>5 DEF OfSettings
  <2> QED
    BY <2>1, <2>2, <2>3, <2>4
<1>8. Past(r)' = {} /\ Claims(r)' = {}
  <2>1. \A i \in DOMAIN s : ~ (i < 1)
    BY <1>4, <1>5, <1>7, SettingsInOrder DEF OfMachine, OfSettings
  <2> QED
    BY <1>4, <1>5, <2>1 DEF Past, Claims
<1>9. /\ Shape(r)' /\ Written(r)' /\ Pending(r)' /\ ClaimIsNew(r)' /\ ReadStays(r)' /\ NamedStays(r)'
      /\ Answered(r)'
  BY <1>4, <1>5, <1>7, <1>8
     DEF Shape, Written, Pending, ClaimIsNew, ReadStays, NamedStays, Answered
<1>10. ASSUME NEW q \in Request, q # r, req[q].at # "idle"
       PROVE  /\ s[1].on \in Fresh => req[q].asked[1].on # s[1].on
              /\ req[q].asked[1].op = "insert" => req[q].asked[1].on # s[1].on
  <2>1. Sound(q) /\ Shape(q) /\ Own(q)
    BY DEF IInv, Sound
  <2>2. req[q].asked # <<>> /\ (req[q].asked[1].op = "insert" => req[q].asked[1].on \notin Key)
    BY <1>10, <2>1, AtHand, StatementFacts, Columns, SettingsInOrder DEF Shape, OfMachine, OfSettings
  <2> QED
    BY <1>7, <1>10, <2>1, <2>2 DEF Fresh, Known, Own
<1>11. \A q \in Request : q # r => Own(q)'
  BY <1>1, <1>4, <1>5, <1>10 DEF IInv, Sound, Own
<1>12. Own(r)'
  BY <1>1, <1>4, <1>5, <1>7, <1>10 DEF Own, Fresh
<1> QED
  BY <1>1, <1>2, <1>4, <1>5, <1>9, <1>11, <1>12, Moves DEF Sound

----------------------------------------------------------------------------
\* The invariant of all behaviours.

\* The invariant holds before the first request.
LEMMA InvInit == Init => IInv
<1> SUFFICES ASSUME Init PROVE IInv
  OBVIOUS
<1>1. Records
  BY DEF Init, Records, Served, Idle
<1>2. Rows
  <2>1. ASSUME NEW x \in Table
        PROVE  /\ row[x] = [state |-> row[x].state, cols |-> row[x].cols]
               /\ row[x].state \in {"unused", "live"}
               /\ row[x].state = "unused" => row[x].cols = <<>>
               /\ Live(x) => row[x].cols \in IF x \in Key THEN SettingColumns ELSE MachineColumns
    BY <2>1 DEF Init, Live
  <2>2. \A x \in Machine : x \in Table /\ x \notin Key
    BY TablesApart DEF Table
  <2> QED
    BY <2>1, <2>2, TablesApart DEF Rows, Live
<1>3. RowLocks
  BY DEF Init, RowLocks, Idle
<1>4. UniqueMacs /\ Bounds
  BY StoreAssumption DEF Init, UniqueMacs, Bounds
<1>5. ASSUME NEW r \in Request
      PROVE  Sound(r)
  <2>1. /\ req[r] = Idle /\ req[r].wrote = {} /\ Claims(r) = {} /\ req[r].asked = <<>>
        /\ req[r].at = "idle" /\ req[r].read = {}
    BY DEF Init, Idle, Claims
  <2>2. Past(r) = {}
    BY <2>1 DEF Past
  <2> QED
    BY <2>1, <2>2
       DEF Sound, Shape, Written, Pending, Own, ClaimIsNew, ReadStays, NamedStays, Answered
<1> QED
  BY <1>1, <1>2, <1>3, <1>4, <1>5 DEF IInv

\* Every step of every request keeps it.
LEMMA InvStep == IInv /\ [Next]_vars => IInv'
<1> SUFFICES ASSUME IInv, [Next]_vars PROVE IInv'
  OBVIOUS
<1>1. ASSUME NEW r \in Request, DeadlockDetected(r)
      PROVE  IInv'
  <2>1. Ends(r) /\ row' = row /\ Bounds'
    BY <1>1 DEF DeadlockDetected, Refused, IInv, Bounds, bounds
  <2> QED
    BY <2>1, Ending
<1>2. ASSUME NEW r \in Request, Fails(r)
      PROVE  IInv'
  <2>1. Ends(r) /\ row' = row /\ Bounds'
    BY <1>2, StoreAssumption DEF Fails, IInv, Bounds
  <2> QED
    BY <2>1, Ending
<1>3. CASE Next
  BY <1>1, <1>2, <1>3, ArriveStep, GetStep, InsertedStep, UpdatedStep, IndexedStep, DeletedStep,
     CommitStep DEF Next, Serve
<1>4. CASE UNCHANGED vars
  <2>1. row' = row /\ req' = req /\ count' = count /\ faults' = faults
    BY <1>4 DEF vars
  <2>2. Records' /\ Rows' /\ RowLocks' /\ UniqueMacs' /\ Bounds'
    BY <2>1 DEF IInv, Records, Rows, RowLocks, UniqueMacs, Bounds, Live
  <2>3. ASSUME NEW r \in Request
        PROVE  Sound(r)'
    <3>1. Claims(r)' = Claims(r)
      BY <2>1 DEF Claims
    <3>2. Sound(r)
      BY DEF IInv
    <3>3. Shape(r)' /\ Written(r)' /\ Pending(r)' /\ Own(r)'
      BY <2>1, <3>2 DEF Sound, Shape, OfMachine, OfSettings, Statement, Written, Past, Pending, Own
    <3>4. ReadStays(r)' /\ NamedStays(r)' /\ Answered(r)'
      BY <2>1, <3>2 DEF Sound, ReadStays, NamedStays, Answered, Statement, Past, Stays, Live
    <3>5. ClaimIsNew(r)'
      <4>1. \A q \in Request : Claims(q)' = Claims(q)
        BY <2>1 DEF Claims
      <4> QED
        BY <2>1, <3>2, <4>1 DEF Sound, ClaimIsNew, Live
    <3> QED
      BY <3>3, <3>4, <3>5 DEF Sound
  <2> QED
    BY <2>2, <2>3 DEF IInv
<1> QED
  BY <1>3, <1>4

\* The invariant holds of every behaviour of the machine and settings endpoints.
THEOREM Invariance == Spec => []IInv
<1> QED
  BY InvInit, InvStep, PTL DEF Spec

\* Rows and requests have their types, and a pending UPDATE is of a row that is there: the lock
\* it took keeps the row from being deleted under it (repositories.py:204-208).
THEOREM TypeCorrect == Spec => []TypeOK
<1>1. IInv => TypeOK
  <2> SUFFICES ASSUME IInv PROVE TypeOK
    OBVIOUS
  <2>1. ASSUME NEW x \in Table
        PROVE  row[x] \in [state : {"unused", "live", "deleted"},
                           cols : IF x \in Key THEN SettingColumns \union {<<>>}
                                               ELSE MachineColumns \union {<<>>}]
    <3>1. /\ row[x] = [state |-> row[x].state, cols |-> row[x].cols]
          /\ row[x].state \in {"unused", "live", "deleted"}
          /\ row[x].cols \in IF x \in Key THEN SettingColumns \union {<<>>}
                                          ELSE MachineColumns \union {<<>>}
      BY TablesApart DEF IInv, Rows, Table
    <3> QED
      BY <3>1
  <2>2. ASSUME NEW r \in Request
        PROVE  /\ req[r].at \in {"idle", "next", "got", "missing", "unique", "done"}
               /\ req[r].read \subseteq MachineColumns \union SettingColumns
               /\ \A w \in req[r].wrote : w.on \in Table /\ (w.op = "update" => Live(w.on))
    BY WroteFacts DEF IInv, Sound, Shape, Live
  <2> QED
    BY <2>1, <2>2 DEF TypeOK, IInv, Bounds
<1> QED
  BY <1>1, Invariance, PTL

\* No two machines have one address, although neither handler looks for it: the index makes
\* the second of two inserts or edits wait for the first, which then commits or not
\* (models.py:80).
THEOREM MacsAreUnique == Spec => []UniqueMacs
<1>1. IInv => UniqueMacs
  BY DEF IInv
<1> QED
  BY <1>1, Invariance, PTL

----------------------------------------------------------------------------
\* Who waits for whom.

\* Who is waited for has written; for a setting, the setting that is waited for.
LEMMA HolderWrote ==
    ASSUME NEW r \in Request, NEW q \in WaitsFor(r)
    PROVE  /\ q \in Request /\ q # r /\ req[q].wrote # {}
           /\ req[r].at \in {"next", "got", "missing", "unique"}
           /\ Statement(r).op = "set" => \E w \in req[q].wrote : w.on = Statement(r).on
<1>1. \/ Is(r, {"insert"}, "next") \/ Is(r, {"update"}, "unique")
      \/ Is(r, {"set"}, "missing") \/ Is(r, {"delete", "update", "set"}, "got")
  BY Waits
<1>2. CASE Is(r, {"insert"}, "next") \/ Is(r, {"update"}, "unique")
  <2>1. q \in MacHolders(r) /\ Statement(r).op # "set"
    BY <1>2, Waits DEF Is
  <2> QED
    BY <1>1, <2>1 DEF Is, MacHolders
<1>3. CASE Is(r, {"set"}, "missing") \/ Is(r, {"delete", "update", "set"}, "got")
  <2>1. q \in RowHolders(r)
    BY <1>3, Waits DEF Is
  <2> QED
    BY <1>1, <2>1 DEF Is, RowHolders
<1> QED
  BY <1>1, <1>2, <1>3

\* A form that waits for a setting is behind the form that has written it.
LEMMA BehindInOrder ==
    ASSUME IInv, NEW r \in Request, OfSettings(r), NEW q \in WaitsFor(r), req[q].at # "done"
    PROVE  OfSettings(q) /\ req[r].k < req[q].k
<1>1. /\ req[r].at # "idle" /\ q \in Request /\ Shape(r) /\ Shape(q) /\ Written(q)
  BY HolderWrote DEF IInv, Sound
<1>2. /\ Statement(r).op = "set" /\ Statement(r).on = Keys[req[r].k]
      /\ req[r].k \in 1..Len(Keys) /\ Statement(r).on \notin Machine
  BY StatementFacts DEF OfSettings, Statement
<1>3. PICK w \in req[q].wrote : w.on = Statement(r).on
  BY <1>2, HolderWrote
<1>4. PICK i \in Past(q) : Fits(w, req[q].asked[i])
  BY <1>1 DEF Written
<1>5. req[q].at # "idle"
  BY <1>1, <1>4 DEF Shape, Past, Idle
<1>6. OfSettings(q)
  <2>1. CASE OfMachine(q)
    BY <1>2, <1>3, <1>4, <2>1, StatementFacts DEF OfMachine, Past, Fits
  <2> QED
    BY <1>1, <1>5, <2>1 DEF Shape
<1>7. i \in 1..Len(Keys) /\ req[q].asked[i].on = Keys[i] /\ i < req[q].k
  BY <1>4, <1>6 DEF OfSettings, Past
<1>8. i = req[r].k
  BY <1>2, <1>3, <1>4, <1>7, SettingsInOrder DEF Fits
<1> QED
  BY <1>6, <1>7, <1>8

\* Only two edits that exchange addresses can wait for each other: a request about a machine
\* has written nothing before it waits for the index, and forms take the settings in one order
\* (web.py:503-507, setup.py:121-123).
THEOREM OnlySwapsDeadlock == Spec => []CirclesAreSwaps
<1>1. ASSUME IInv, NEW r \in Request, NEW q \in Request, q \in WaitsFor(r), r \in WaitsFor(q)
      PROVE  req[r].at = "unique"
  <2>1. /\ Shape(r) /\ Written(r) /\ req[r].wrote # {}
        /\ req[r].at \in {"next", "got", "missing", "unique"}
        /\ req[q].at \in {"next", "got", "missing", "unique"}
    BY <1>1, HolderWrote DEF IInv, Sound
  <2>2. CASE OfMachine(r)
    BY <2>1, <2>2, PastIsElsewhere DEF Written
  <2>3. CASE OfSettings(r)
    <3>1. OfSettings(q) /\ req[r].k < req[q].k
      BY <1>1, <2>1, <2>3, BehindInOrder
    <3>2. req[q].k < req[r].k
      BY <1>1, <2>1, <3>1, BehindInOrder
    <3> QED
      BY <2>3, <3>1, <3>2 DEF OfSettings
  <2> QED
    BY <2>1, <2>2, <2>3 DEF Shape
<1>2. IInv => CirclesAreSwaps
  BY <1>1 DEF CirclesAreSwaps
<1> QED
  BY <1>2, Invariance, PTL

----------------------------------------------------------------------------
\* What a commit stores.

\* A request that ends with nothing lost has committed.
LEMMA OnlyCommits ==
    ASSUME IInv, [Next]_vars, NEW r \in Request, Committing(r)
    PROVE  Commit(r)
<1>1. req[r].at = "done" /\ req'[r].at = "idle" /\ faults' = faults /\ Records /\ Bounds
  BY DEF Committing, IInv
<1>2. req' # req /\ Next
  BY <1>1 DEF vars
<1>3. PICK p \in Request : Arrive(p) \/ Serve(p) \/ Fails(p)
  BY <1>2 DEF Next
<1>4. ~ Fails(p)
  BY <1>1 DEF Fails, Bounds
<1>5. p # r => ~ Commit(p)
  BY <1>1, CommittedRequests
<1>6. Commit(p) \/ (p = r => req[p].at # "done")
  BY <1>3, <1>4, Waits DEF Serve, Arrive, Get, Inserted, Updated, Indexed, Deleted, DeadlockDetected, Is
<1>7. p # r => Commit(p) \/ req'[r] = req[r]
  BY <1>1, <1>3, <1>4
     DEF Records, Serve, Arrive, Get, Inserted, Updated, Indexed, Deleted, DeadlockDetected, Refused,
         Ends, Goes
<1> QED
  BY <1>1, <1>5, <1>6, <1>7

\* A form asks once for each row.
LEMMA AskedOnce ==
    ASSUME NEW r \in Request, Shape(r), req[r].at # "idle", NEW i \in DOMAIN req[r].asked,
           NEW j \in DOMAIN req[r].asked, req[r].asked[i].on = req[r].asked[j].on
    PROVE  i = j
BY SettingsInOrder DEF Shape, OfMachine, OfSettings

\* What an edit or a settings form names is stored as it says, unless another request has
\* changed it since the form's request read it; the columns that an edit does not name stay as
\* they are, even when another edit has changed them meanwhile (machines.py:181,
\* repositories.py:204-207, 446-452).
THEOREM NothingIsUndone == Spec => EditsDoNotUndo
<1>1. ASSUME IInv, [Next]_vars, NEW r \in Request, Committing(r), NEW s \in Asked(r),
             s.op \in {"update", "set"}, Live(s.on)', NEW c \in DOMAIN row'[s.on].cols
      PROVE  IF c \in DOMAIN s.cols
             THEN row'[s.on].cols[c] = s.cols[c] \/ <<s.on, c>> \in req[r].over
             ELSE row'[s.on].cols[c] = row[s.on].cols[c]
  <2>1. /\ Commit(r) /\ req[r].at = "done" /\ Shape(r) /\ Written(r) /\ NamedStays(r)
        /\ row'[s.on].state = "live"
    BY <1>1, OnlyCommits DEF Commit, IInv, Sound, Live
  <2>2. PICK i \in DOMAIN req[r].asked : s = req[r].asked[i]
    BY DEF Asked, Range
  <2>3. i \in Past(r) /\ s.on \in Table
    <3>1. i \in Past(r)
      BY <2>1 DEF Past
    <3> QED
      BY <2>1, <2>2, <3>1, StatementFacts DEF Shape, OfMachine, OfSettings
  <2>4. CASE \A w \in req[r].wrote : w.on # s.on
    BY <1>1, <2>1, <2>2, <2>3, <2>4, CommittedRows DEF NamedStays, Stays, Live
  <2>5. CASE \E w \in req[r].wrote : w.on = s.on
    <3>1. PICK w \in req[r].wrote : w.on = s.on
      BY <2>5
    <3>2. Fits(w, s)
      <4>1. PICK j \in Past(r) : Fits(w, req[r].asked[j])
        BY <2>1 DEF Written
      <4>2. j = i
        BY <2>1, <2>2, <3>1, <4>1, AskedOnce DEF Past, Fits
      <4> QED
        BY <2>2, <4>1, <4>2
    <3>3. CASE w.op = "insert"
      BY <1>1, <2>1, <3>1, <3>2, <3>3, CommittedRows DEF Fits
    <3>4. CASE w.op = "update"
      <4>1. /\ row'[s.on].cols = With(row[s.on].cols, w.cols) /\ row[s.on].state = "live"
            /\ DOMAIN w.cols \subseteq DOMAIN s.cols /\ \A d \in DOMAIN w.cols : w.cols[d] = s.cols[d]
        <5>1. row'[s.on].cols = With(row[s.on].cols, w.cols)
          BY <1>1, <2>1, <3>1, <3>4, CommittedRows
        <5>2. row[s.on].state = "live"
          BY <1>1, <3>1, <3>4, WroteFacts
        <5> QED
          BY <3>2, <3>4, <5>1, <5>2 DEF Fits
      <4>2. row'[s.on].cols[c] = IF c \in DOMAIN w.cols THEN w.cols[c] ELSE row[s.on].cols[c]
        BY <4>1, WithFacts
      <4>3. c \in DOMAIN s.cols \ DOMAIN w.cols => Stays(r, s.on, c, s.cols[c])
        <5>1. \A v \in req[r].wrote : v.on = s.on => v = w
          BY <2>1, <3>1 DEF Written
        <5> QED
          BY <1>1, <2>1, <2>2, <2>3, <5>1 DEF NamedStays
      <4> QED
        BY <4>1, <4>2, <4>3 DEF Stays, Live
    <3> QED
      BY <1>1, <3>2, <3>3, <3>4 DEF Fits
  <2> QED
    BY <2>4, <2>5
<1>2. IInv /\ [Next]_vars =>
          [\A r \in Request : Committing(r) =>
              \A s \in Asked(r) : s.op \in {"update", "set"} /\ Live(s.on)' =>
                  \A c \in DOMAIN row'[s.on].cols :
                      IF c \in DOMAIN s.cols
                      THEN row'[s.on].cols[c] = s.cols[c] \/ <<s.on, c>> \in req[r].over
                      ELSE row'[s.on].cols[c] = row[s.on].cols[c]]_vars
  BY <1>1
<1> QED
  BY <1>2, Invariance, PTL DEF Spec, EditsDoNotUndo

\* The machine that a request answers with is the one it stores: what others commit between the
\* flush and the commit cannot be a change of that row (repositories.py:206-208).
THEOREM AnswersAreStored == Spec => AnswerIsStored
<1>1. ASSUME IInv, [Next]_vars, NEW r \in Request, Committing(r), NEW w \in req[r].wrote,
             w.on \in Machine, w.op # "delete"
      PROVE  req[r].answer = {row'[w.on].cols}
  <2>1. Commit(r) /\ Answered(r)
    BY <1>1, OnlyCommits DEF IInv, Sound
  <2>2. w.op \in {"insert", "update"}
    BY <1>1, WroteFacts
  <2>3. /\ w.op = "insert" => row'[w.on].cols = w.cols
        /\ w.op = "update" => row'[w.on].cols = With(row[w.on].cols, w.cols)
    BY <1>1, <2>1, CommittedRows
  <2> QED
    BY <1>1, <2>1, <2>2, <2>3 DEF Answered
<1>2. IInv /\ [Next]_vars =>
          [\A r \in Request : Committing(r) =>
              \A w \in req[r].wrote : w.on \in Machine /\ w.op # "delete" =>
                  req[r].answer = {row'[w.on].cols}]_vars
  BY <1>1
<1> QED
  BY <1>2, Invariance, PTL DEF Spec, AnswerIsStored
=============================================================================
