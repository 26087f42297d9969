------------------------------ MODULE TableList ------------------------------
(***************************************************************************)
(* The list of tables (TableViewController), over what the Firestore       *)
(* client promises (TableStore).                                           *)
(*                                                                         *)
(* The list keeps the rows it knows in tables, nearest first; what the     *)
(* screen shows are cells, filled from tables when the table view reloads  *)
(* and, one by one, when they scroll back into sight.  A timer reloads     *)
(* until the first search.  Each letter typed starts a fetch that does not *)
(* reload, and filters the rows before that fetch can answer.  A text      *)
(* stands for the owners whose names contain it; the empty one is Users.   *)
(***************************************************************************)
EXTENDS TableStore, Filters, FiniteSetsExt

CONSTANT Distance \* Distance[p]: how far p is from ViewController.myLocationVar

ASSUME DistanceAssumption == Distance \in [Spots -> Nat]
ASSUME FiniteAssumption == IsFiniteSet(Users)
ASSUME FirstReadAssumption == MaxCalls > 0

VARIABLES
  tables,  \* the rows the list knows
  cells,   \* the rows the screen shows
  timer,   \* the timer runs
  reloads, \* reloads[c]: the completion of fetch c reloads the table view
  text,    \* what the search bar holds
  screen,  \* "list", or "map" once a row is tapped, or "closed"
  tapped,  \* history: the row tapped, and the place it led to
  found    \* history: the tables of the last answer

listVars == <<tables, cells, timer, reloads, text, screen, tapped, found>>
vars == <<storeVars, listVars>>

Row == [id : Users, at : Spots]
Untapped == [row |-> NoTable, to |-> NoTable]

Ids(rows) == {rows[i].id : i \in 1..Len(rows)}

----------------------------------------------------------------------------
\* Insert a row at the front, then sort the rows by distance.
Insert(rows, r) ==
  LET nearer == {s \in Row : Distance[s.at] < Distance[r.at]}
  IN  Filter(rows, nearer) \o <<r>> \o Filter(rows, Row \ nearer)

\* The tables of the owners in us join the rows, the greatest key last.
Joined(rows, docs, us) ==
  MapThenFoldSet(LAMBDA r, s : Insert(s, r), rows, LAMBDA u : [id |-> u, at |-> docs[u]], Max, us)

\* Mutant of Fetch: a table already in the list is listed again.
FetchAll(rows, docs) == Joined(rows, docs, {u \in Users : docs[u] # NoTable})

\* The documents of an answer join the rows, in key order, unless their id is
\* listed already.
Fetch(rows, docs) == Joined(rows, docs, {u \in Users \ Ids(rows) : docs[u] # NoTable})

\* Mutant of fetchAnswered: the completion never reloads.
fetchAnsweredQuietly(c) ==
  /\ Complete(c, <<>>)
  /\ LET docs == IF reply[c].ok THEN reply[c].docs ELSE NoDocs
     IN  /\ tables' = Fetch(tables, docs)
         /\ found' = IF reply[c].ok THEN {u \in Users : docs[u] # NoTable} ELSE {}
  /\ UNCHANGED <<cells, timer, reloads, text, screen, tapped>>

\* The completion of fetch c.  It reloads once per document, if asked to.
fetchAnswered(c) ==
  /\ Complete(c, <<>>)
  /\ LET docs == IF reply[c].ok THEN reply[c].docs ELSE NoDocs
     IN  /\ tables' = Fetch(tables, docs)
         /\ cells' = IF reloads[c] /\ docs # NoDocs THEN tables' ELSE cells
         /\ found' = IF reply[c].ok THEN {u \in Users : docs[u] # NoTable} ELSE {}
  /\ UNCHANGED <<timer, reloads, text, screen, tapped>>

toggleData ==
  /\ timer
  /\ cells' = tables
  /\ UNCHANGED <<storeVars, tables, timer, reloads, text, screen, tapped, found>>

\* Mutants of textDidChange: two fetches; no reload; no fetch to bring back what
\* the filter drops.
textDidChangeTwice(t) ==
  /\ screen = "list" /\ t # text
  /\ text' = t
  /\ timer' = FALSE
  /\ Ask(<<>>, <<Users, Users>>)
  /\ reloads' = Append(reloads, FALSE)
  /\ tables' = Filter(tables, [id : t, at : Spots])
  /\ cells' = tables'
  /\ UNCHANGED <<screen, tapped, found>>

textDidChangeUnseen(t) ==
  /\ screen = "list" /\ t # text
  /\ text' = t
  /\ timer' = FALSE
  /\ Ask(<<>>, <<Users>>)
  /\ reloads' = Append(reloads, FALSE)
  /\ tables' = Filter(tables, [id : t, at : Spots])
  /\ UNCHANGED <<cells, screen, tapped, found>>

textDidChangeUnfetched(t) ==
  /\ screen = "list" /\ t # text
  /\ text' = t
  /\ timer' = FALSE
  /\ tables' = Filter(tables, [id : t, at : Spots])
  /\ cells' = tables'
  /\ UNCHANGED <<storeVars, reloads, screen, tapped, found>>

\* stopTimer, a fetch that does not reload, the filter, and a reload.
textDidChange(t) ==
  /\ screen = "list" /\ t # text
  /\ text' = t
  /\ timer' = FALSE
  /\ Ask(<<>>, <<Users>>)
  /\ reloads' = Append(reloads, FALSE)
  /\ tables' = Filter(tables, [id : t, at : Spots])
  /\ cells' = tables'
  /\ UNCHANGED <<screen, tapped, found>>

\* Cell i scrolls out of sight and back: cellForRowAt fills it again.
cellForRowAt(i) ==
  /\ screen = "list"
  /\ cells' = [cells EXCEPT ![i] = tables[i]]
  /\ UNCHANGED <<storeVars, tables, timer, reloads, text, screen, tapped, found>>

\* The row is looked up by the position of the cell; a map takes over.
didSelectRowAt(i) ==
  /\ screen = "list"
  /\ tapped' = [row |-> cells[i], to |-> tables[i].at]
  /\ screen' = "map"
  /\ UNCHANGED <<storeVars, tables, cells, timer, reloads, text, found>>

\* The list was presented over the map, and is swiped down.
Dismiss ==
  /\ screen = "list"
  /\ screen' = "closed"
  /\ UNCHANGED <<storeVars, tables, cells, timer, reloads, text, tapped, found>>

----------------------------------------------------------------------------
\* viewDidLoad: the first fetch reloads, and the timer starts.
Init ==
  /\ server \in Docs
  /\ local \in {server, NoDocs}
  /\ pending = <<>>
  /\ calls = <<Users>> /\ workerQ = <<Listen(1)>>
  /\ reply = [c \in Calls |-> Waiting]
  /\ tables = <<>> /\ cells = <<>>
  /\ timer = TRUE
  /\ reloads = <<TRUE>>
  /\ text = Users
  /\ screen = "list" /\ tapped = Untapped
  /\ found = {}

User ==
  \/ \E t \in SUBSET Users : textDidChange(t)
  \/ \E i \in 1..Len(cells) : cellForRowAt(i) \/ didSelectRowAt(i)
  \/ Dismiss

Completions == \E c \in 1..Len(calls) : fetchAnswered(c)

Worker == TakeListen /\ UNCHANGED listVars

OtherDevice == (\E u \in Users, p \in Places : Elsewhere({u}, p)) /\ UNCHANGED listVars

\* Where this device's view differs from the server.
Behind == {u \in Users : server[u] # local[u]}

\* The view catches up, and reads are answered or refused.
Store ==
  /\ \/ \E D \in SUBSET Behind, S \in SUBSET Registered : Sync(D, S)
     \/ \E S \in SUBSET Registered \ {{}} : Reject(S)
  /\ UNCHANGED listVars

Next == User \/ toggleData \/ Completions \/ Worker \/ OtherDevice \/ Store

Spec == Init /\ [][Next]_vars

----------------------------------------------------------------------------
TypeOK ==
  /\ StoreTypeOK
  /\ tables \in Seq(Row) /\ cells \in Seq(Row)
  /\ timer \in BOOLEAN
  /\ reloads \in Seq(BOOLEAN) /\ Len(reloads) = Len(calls)
  /\ text \subseteq Users
  /\ screen \in {"list", "map", "closed"}
  /\ tapped \in [row : Row, to : Spots] \cup {Untapped}
  /\ found \subseteq Users

\* However fetches and searches overlap, no owner is listed twice and the nearest
\* table comes first (TableViewController.swift:188-194).
OneRowEach ==
  \A i, j \in 1..Len(tables) :
    i < j => /\ tables[i].id # tables[j].id
             /\ Distance[tables[i].at] <= Distance[tables[j].at]

\* cellForRowAt:106 and didSelectRowAt:137 index tables by the position of a
\* cell: an index out of range would abort the application.
CellsHaveRows == Len(cells) <= Len(tables)

\* Until the first search the screen shows exactly the rows known, so a row
\* tapped is the row shown (TableViewController.swift:197, :59).
ShownUntilSearch == timer => cells = tables

\* When every fetch has been answered, the rows hold each table of the last
\* answer, whatever was searched before: a search that is then cleared lists all
\* tables (TableListSearch.md:16).
NothingLost ==
  (\A c \in 1..Len(calls) : reply[c].state = "done") => found \subseteq Ids(tables)

\* TableViewController.swift:26: the row tapped brings to its table's location.
TapLeadsToRow == tapped # Untapped => tapped.to = tapped.row.at
=============================================================================
