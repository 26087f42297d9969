------------------------------ MODULE TableMap ------------------------------
(***************************************************************************)
(* The map of tables (ViewController) and the table form                   *)
(* (TableFormViewController) on the device of one user, over what the      *)
(* Firestore client promises (TableStore).  Handlers and completions run   *)
(* one at a time on the main queue; the client's worker, the network and   *)
(* the devices of the other users interleave with them.                    *)
(*                                                                         *)
(* Every return to the map creates a new ViewController, whose viewDidLoad *)
(* reads the collection; every tap on a marker creates a new form, which   *)
(* reads one document.  A controller is therefore named by its read.       *)
(***************************************************************************)
EXTENDS TableStore

CONSTANTS Me,      \* the uid of the signed-in user
          Origin,  \* CLLocationCoordinate2D(): latitude 0, longitude 0
          SpotsOf  \* SpotsOf[u]: where user u places tables

ASSUME MeAssumption == Me \in Users
\* The first map of a session reads.
ASSUME FirstReadAssumption == MaxCalls > 0
ASSUME SpotsAssumption == Origin \in Spots /\ SpotsOf \in [Users -> SUBSET Spots]
\* The mark of a table that was never written is no place.
ASSUME UnwrittenAssumption == "unwritten" \notin Spots

VARIABLES
  todo,       \* todo[c]: the completion of read c
  mapRead,    \* the read of the newest map
  placed,     \* the hand-placed markers on that map: where they stand
  allMarkers, \* allMarkers[c]: the markers appended by the completion of read c
  toRemove,   \* the place whose marker the next load hides
  form,       \* the table form
  image,      \* images/<Me>.png exists in Storage
  wiping,     \* a request to delete that image is under way
  removed,    \* history: removed[c]: the documents deleted on the answer to c
  mine,       \* history: the last own table written here, or "unwritten"
  posted      \* history: the last submit: its place, and the read of its map

mapVars == <<todo, mapRead, placed, allMarkers, toRemove, form, image, wiping,
             removed, mine, posted>>
vars == <<storeVars, mapVars>>

Marker == [pos : Spots, owner : Users, shown : BOOLEAN]
Completion == [do : {"show", "load"}] \cup [do : {"remove"}, at : Spots]

----------------------------------------------------------------------------
(* The screen shows the form whose read is form.read, or the map when that *)
(* is 0.  buttons stands for the five buttons that are disabled together.  *)

Form == [read : 0..MaxCalls, pos : Spots, owner : Users, buttons : BOOLEAN,
         fields : BOOLEAN, filled : BOOLEAN, alert : {"none", "delete", "invalid"}]

Closed == [read |-> 0, pos |-> Origin, owner |-> Me, buttons |-> TRUE,
           fields |-> TRUE, filled |-> FALSE, alert |-> "none"]

OnMap  == form.read = 0
OnForm == form.read # 0 /\ form.alert = "none"

\* Make the writes ws, then the reads rs: pairs of a query and a completion.
Issue(ws, rs) ==
  /\ Ask(ws, [i \in 1..Len(rs) |-> rs[i][1]])
  /\ todo' = todo \o [i \in 1..Len(rs) |-> rs[i][2]]

\* Mutant of ShowNewMap: counts one read too many.
ShowMapAfter(n) ==
  /\ mapRead' = Len(calls) + n + 1
  /\ placed' = {}
  /\ form' = Closed

\* A new map becomes the root; its setData is the n-th read of the handler.
ShowNewMap(n) ==
  /\ mapRead' = Len(calls) + n
  /\ placed' = {}
  /\ form' = Closed

setData == <<Users, [do |-> "show"]>>

----------------------------------------------------------------------------
(* The map.                                                                *)

PlaceMarker(p) ==
  /\ OnMap
  /\ placed' = placed \cup {p}
  /\ UNCHANGED <<storeVars, todo, mapRead, allMarkers, toRemove, form, image,
                 wiping, removed, mine, posted>>

didLongPressAt(p) == PlaceMarker(p)

\* At the device's location, or at the default one when that is not known.
add_table(p) == PlaceMarker(p)

\* The markers the user can tap.
Visible == {<<m.pos, m.owner>> : m \in {n \in allMarkers[mapRead] : n.shown}}
             \cup {<<p, Me>> : p \in placed}

didTapInfoWindowOf(p, u) ==
  /\ OnMap /\ <<p, u>> \in Visible
  /\ Issue(<<>>, <<<<{u}, [do |-> "load"]>>>>)
  /\ form' = [Closed EXCEPT !.read = Len(calls) + 1, !.pos = p, !.owner = u]
  /\ UNCHANGED <<mapRead, placed, allMarkers, toRemove, image, wiping, removed,
                 mine, posted>>

\* Mutant of Skipped: nothing is skipped.
SkippedNone(docs) == {}

\* The documents setData skips, in key order: the first one at toRemove, which
\* resets toRemove to Origin, and from then on every one at Origin.
Skipped(docs) ==
  {u \in Users : \/ /\ docs[u] = toRemove
                    /\ \/ toRemove = Origin
                       \/ \A v \in Users : docs[v] = toRemove => u <= v
                 \/ /\ docs[u] = Origin
                    /\ \E v \in Users : v < u /\ docs[v] = toRemove}

setDataAnswered(c) ==
  /\ todo[c].do = "show"
  /\ Complete(c, <<>>)
  /\ IF reply[c].ok
       THEN LET docs == reply[c].docs
                skip == Skipped(docs)
                keep == {u \in Users \ skip : docs[u] # NoTable}
            IN  /\ allMarkers' = [allMarkers EXCEPT ![c] =
                     {[pos |-> docs[u], owner |-> u, shown |-> TRUE] : u \in keep}]
                /\ toRemove' = IF skip = {} THEN toRemove ELSE Origin
       ELSE UNCHANGED <<allMarkers, toRemove>>
  /\ UNCHANGED <<todo, mapRead, placed, form, image, wiping, removed, mine, posted>>

\* m, appended by read c, is the first marker at p in allMarkers.
IsFirstAt(c, m, p) ==
  /\ m.pos = p
  /\ \A d \in Calls : \A n \in allMarkers[d] :
       n.pos = p => c < d \/ (c = d /\ m.owner <= n.owner)

HideFirstAt(p) ==
  allMarkers' = [c \in Calls |->
    {[m EXCEPT !.shown = @ /\ ~IsFirstAt(c, m, p)] : m \in allMarkers[c]}]

\* remove_marker's completion: delete every document at the place.
removeAnswered(c) ==
  LET p == todo[c].at
      hits == IF reply[c].ok THEN {u \in Users : reply[c].docs[u] = p} ELSE {}
  IN  /\ todo[c].do = "remove"
      /\ Complete(c, IF hits = {} THEN <<>> ELSE <<Write(hits, NoTable)>>)
      /\ toRemove' = IF hits = {} THEN toRemove ELSE p
      /\ removed' = [removed EXCEPT ![c] = hits]
      /\ mine' = IF Me \in hits THEN NoTable ELSE mine
      /\ UNCHANGED <<todo, mapRead, placed, allMarkers, form, image, wiping, posted>>

----------------------------------------------------------------------------
(* The form.                                                               *)

\* Mutant of isAuthor: everyone is.
isAnyone(id) == id \in Users

isAuthor(id) == id = Me

\* setElements' completion.  When the document is missing, or the client is
\* offline and does not know it, the form stays as it is.
setElementsAnswered(c) ==
  /\ todo[c].do = "load"
  /\ Complete(c, <<>>)
  /\ form' = IF c = form.read /\ reply[c].ok /\ reply[c].docs[form.owner] # NoTable
             THEN [form EXCEPT !.fields = FALSE, !.filled = TRUE,
                               !.buttons = @ /\ isAuthor(form.owner)]
             ELSE form
  /\ UNCHANGED <<todo, mapRead, placed, allMarkers, toRemove, image, wiping,
                 removed, mine, posted>>

FormBecomes(f) ==
  /\ form' = f
  /\ UNCHANGED <<storeVars, todo, mapRead, placed, allMarkers, toRemove, image,
                 wiping, removed, mine, posted>>

\* The form was presented over the map: swiping it down uncovers the map.
Dismiss      == OnForm /\ FormBecomes(Closed)
Type         == OnForm /\ form.fields /\ FormBecomes([form EXCEPT !.filled = ~@])
editTapped   == OnForm /\ form.buttons /\ FormBecomes([form EXCEPT !.fields = TRUE])
deleteTapped == OnForm /\ form.buttons /\ FormBecomes([form EXCEPT !.alert = "delete"])
CancelAlert  == form.alert # "none" /\ FormBecomes([form EXCEPT !.alert = "none"])

submitIncomplete ==
  /\ OnForm /\ form.buttons /\ ~form.filled
  /\ FormBecomes([form EXCEPT !.alert = "invalid"])

\* The table goes to the submitter's own document, whoever the form was for.
submitPressed ==
  /\ OnForm /\ form.buttons /\ form.filled
  /\ Issue(<<Write({Me}, form.pos)>>, <<setData>>)
  /\ ShowNewMap(1)
  /\ mine' = form.pos
  /\ posted' = [pos |-> form.pos, read |-> Len(calls) + 1]
  /\ UNCHANGED <<allMarkers, toRemove, image, wiping, removed>>

BackToMap ==
  /\ form.alert = "invalid"
  /\ Issue(<<>>, <<setData>>)
  /\ ShowNewMap(1)
  /\ UNCHANGED <<allMarkers, toRemove, image, wiping, removed, mine, posted>>

\* remove_marker, then transitionToHome.
ConfirmDelete ==
  /\ form.alert = "delete"
  /\ HideFirstAt(form.pos)
  /\ wiping' = TRUE
  /\ Issue(<<>>, <<<<Users, [do |-> "remove", at |-> form.pos]>>, setData>>)
  /\ ShowNewMap(2)
  /\ UNCHANGED <<toRemove, image, removed, mine, posted>>

\* The image's delete request ends, done or failed.
ImageRequestEnds(done) ==
  /\ wiping /\ wiping' = FALSE
  /\ image' = (image /\ ~done)
  /\ UNCHANGED <<storeVars, todo, mapRead, placed, allMarkers, toRemove, form,
                 removed, mine, posted>>

----------------------------------------------------------------------------
(* The other users run the same application on their devices: they submit  *)
(* their own table, and delete tables, one document after the other.  The  *)
(* documents are those their view had at a place, so anyone's may be hit.  *)

OtherSubmits(u, p) == Elsewhere({u}, p)

OtherDeletes(v) == server[v] # NoTable /\ Elsewhere({v}, NoTable)

Others ==
  \E u \in Users \ {Me} : \/ \E p \in SpotsOf[u] : OtherSubmits(u, p)
                         \/ \E v \in Users : OtherDeletes(v)

----------------------------------------------------------------------------
\* The first map of a session, just after the login; the cache of an earlier
\* session may be warm.
Init ==
  /\ server \in {d \in Docs : \A u \in Users : d[u] \in SpotsOf[u] \cup {NoTable}}
  /\ local \in {server, NoDocs}
  /\ pending = <<>>
  /\ calls = <<Users>> /\ workerQ = <<Listen(1)>>
  /\ reply = [c \in Calls |-> Waiting]
  /\ todo = <<[do |-> "show"]>>
  /\ mapRead = 1 /\ placed = {}
  /\ allMarkers = [c \in Calls |-> {}]
  /\ toRemove = Origin
  /\ form = Closed
  /\ image = TRUE /\ wiping = FALSE
  /\ removed = [c \in Calls |-> {}]
  /\ mine = "unwritten" /\ posted = [pos |-> Origin, read |-> 0]

UserAction ==
  \/ \E p \in SpotsOf[Me] : didLongPressAt(p) \/ add_table(p)
  \/ \E v \in Visible : didTapInfoWindowOf(v[1], v[2])
  \/ Dismiss \/ Type \/ editTapped \/ deleteTapped \/ CancelAlert
  \/ submitIncomplete \/ submitPressed \/ BackToMap \/ ConfirmDelete

Completions ==
  \E c \in 1..Len(calls) :
    setDataAnswered(c) \/ removeAnswered(c) \/ setElementsAnswered(c)

Worker      == (TakeListen \/ TakeWrite) /\ UNCHANGED mapVars
ServerAck   == Acknowledge /\ UNCHANGED mapVars
OtherDevice == Others /\ UNCHANGED mapVars

\* Where this device's view differs from the server.
Behind == {u \in Users : server[u] # local[u]}

Catchup ==
  /\ \E D \in SUBSET Behind, S \in SUBSET Registered : Sync(D, S)
  /\ UNCHANGED mapVars

\* Answers, from the cache, from the server, or with an error.
Answer ==
  /\ \/ \E D \in SUBSET Behind, S \in SUBSET Registered \ {{}} : Sync(D, S)
     \/ \E S \in SUBSET Registered \ {{}} : Reject(S)
  /\ UNCHANGED mapVars

Next ==
  \/ UserAction \/ Completions \/ Worker \/ ServerAck \/ OtherDevice
  \/ Catchup \/ Answer \/ \E done \in BOOLEAN : ImageRequestEnds(done)

\* The queues are served, the server answers the writes it gets, and every
\* read is answered in the end: FirestoreClient!EveryReadAnswered.
Fairness ==
  WF_vars(Worker) /\ WF_vars(Completions) /\ WF_vars(ServerAck) /\ WF_vars(Answer)

Spec == Init /\ [][Next]_vars /\ Fairness

----------------------------------------------------------------------------
TypeOK ==
  /\ StoreTypeOK
  /\ todo \in Seq(Completion) /\ Len(todo) = Len(calls)
  /\ mapRead \in 1..Len(calls)
  /\ placed \subseteq Spots
  /\ allMarkers \in [Calls -> SUBSET Marker]
  /\ toRemove \in Spots
  /\ form \in Form /\ form.read <= Len(calls)
  /\ image \in BOOLEAN /\ wiping \in BOOLEAN
  /\ removed \in [Calls -> SUBSET Users]
  /\ mine \in Places \cup {"unwritten"}
  /\ posted \in [pos : Spots, read : 0..Len(calls)]

\* A form that has shown another user's table offers none of its buttons.
ForeignFormLocked == ~form.fields /\ form.owner # Me => ~form.buttons

\* DeleteTable.md:13: when a delete found tables at the place, the map that
\* then loads shows no marker there.
DeletedStaysHidden ==
  \A c \in 1..Len(calls) - 1 :
    todo[c].do = "remove" /\ removed[c] # {} =>
      \A m \in allMarkers[c + 1] : m.pos # todo[c].at

\* A write of the own document.
OwnWrite(o) == o.op = "write" /\ Me \in o.docs
Settled(q)  == \A i \in 1..Len(q) : ~OwnWrite(q[i])

\* The last own write in the queue q writes p.
LastWord(q, p) ==
  \A i \in 1..Len(q) :
    OwnWrite(q[i]) /\ (\A j \in i + 1..Len(q) : ~OwnWrite(q[j])) => q[i].to = p

\* The newest write of the own document that is under way, on the worker queue
\* or else in the mutation queue, is the one the user asked for last.
OwnLastWord ==
  LastWord(workerQ, mine) /\ (Settled(workerQ) => LastWord(pending, mine))

\* With no own write under way, the own document is what this device wrote last
\* (submitPressed:327, remove_marker:257), unless someone else's delete took it:
\* a deleted table never comes back, a moved one never moves back.
OwnTableSettles ==
  Settled(workerQ) /\ Settled(pending) /\ mine # "unwritten" =>
    server[Me] \in {mine, NoTable}

\* The same where nobody else uses the application: nothing takes the table.
OwnTableStays ==
  Settled(workerQ) /\ Settled(pending) /\ mine # "unwritten" => server[Me] = mine

\* Read c, of the newest map, shows its tables in this step.
Shows(c) ==
  /\ c = mapRead /\ reply[c].state = "posted" /\ reply'[c].state = "done"
  /\ reply[c].ok

\* A map shows the own table written before it was opened, unless a delete at
\* that very place is waiting to hide its marker.
OwnTableShown ==
  [][\A c \in Calls : Shows(c) /\ mine \in Spots /\ toRemove # mine =>
       [pos |-> mine, owner |-> Me, shown |-> TRUE] \in allMarkers'[c]]_vars

\* AddTable.md:20: when the map refreshes after a submit, the table is on it.
TableAppears ==
  [][\A c \in Calls : Shows(c) /\ c = posted.read =>
       [pos |-> posted.pos, owner |-> Me, shown |-> TRUE] \in allMarkers'[c]]_vars

\* TableFormViewController.swift:23: other users may view a table, not delete it.
OnlyOwnDeleted == \A c \in Calls : removed[c] \subseteq {Me}

\* However often the map is replaced, the load of the newest one is answered
\* and its markers are drawn, again and again.
MapLoads == []<>(reply[mapRead].state = "done")

\* A deleted own table leaves the server, unless it is submitted again.
DeleteReachesServer ==
  mine = NoTable ~> server[Me] = NoTable \/ mine \in Spots
=============================================================================
