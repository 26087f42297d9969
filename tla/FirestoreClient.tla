--------------------------- MODULE FirestoreClient ---------------------------
(***************************************************************************)
(* The Firestore client under the most general application: it reads the   *)
(* collection or a document, and sets or deletes documents, at any time.   *)
(* The documents in Owned are written by this device only.                 *)
(***************************************************************************)
EXTENDS Firestore, Filters

CONSTANTS Owned,    \* documents no other device writes
          MaxWrites \* bound: writes the application makes

ASSUME OwnedAssumption == Owned \subseteq Users /\ MaxWrites \in Nat

VARIABLE written \* how many writes the application has made

vars == <<storeVars, written>>

Queries == {Users} \cup {{u} : u \in Users}

Init ==
  /\ server \in Docs
  /\ local = [u \in Users |-> NoTable]
  /\ pending = <<>>
  /\ net = "unknown" /\ stream = "closed" /\ timer = FALSE
  /\ calls = <<>> /\ answers = [c \in Calls |-> 0]
  /\ listening = {} /\ raised = {} /\ muted = {} /\ synced = {}
  /\ workerQ = <<>> /\ mainQ = <<>>
  /\ written = 0

Get(q) ==
  /\ Len(calls) < MaxCalls
  /\ calls' = Append(calls, q)
  /\ workerQ' = Append(workerQ, Listen(Len(calls) + 1))
  /\ UNCHANGED <<server, local, pending, net, stream, timer, answers, listening, raised,
                 muted, synced, mainQ, written>>

Set(u, p) ==
  /\ written < MaxWrites
  /\ written' = written + 1
  /\ workerQ' = Append(workerQ, Write({u}, p))
  /\ UNCHANGED <<server, local, pending, net, stream, timer, calls, answers, listening,
                 raised, muted, synced, mainQ>>

MainQueue ==
  \E c \in 1..Len(calls) : DropEvent(c) \/ Deliver(c, <<>>)

App == (\E q \in Queries : Get(q)) \/ (\E u \in Users, p \in Places : Set(u, p))

Others == \E u \in Users \ Owned, p \in Places : Elsewhere({u}, p)

Next == App \/ ((Worker \/ Network \/ MainQueue \/ Others) /\ UNCHANGED written)

\* An attempt to connect ends, one way or the other.
AttemptEnds == stream = "starting" /\ (StreamOpens \/ StreamBreaks)

\* The queues are served, the timer fires, an attempt to connect ends, and a
\* stream that stays up brings its messages; nothing makes it stay up.
Fairness ==
  /\ WF_vars(Worker /\ UNCHANGED written)
  /\ WF_vars(MainQueue /\ UNCHANGED written)
  /\ WF_vars(OnlineStateTimeout /\ UNCHANGED written)
  /\ WF_vars(AttemptEnds /\ UNCHANGED written)
  /\ WF_vars(FirstMessage /\ UNCHANGED written)
  /\ \A q \in Queries : WF_vars(RemoteEvent(q) /\ UNCHANGED written)

Spec == Init /\ [][Next]_vars /\ Fairness

----------------------------------------------------------------------------
\* What the worker queue may hold: nothing about a read not yet made.
Asked == [op : {"listen", "unlisten"}, call : 1..Len(calls)] \cup Mutation

TypeOK ==
  /\ server \in Docs /\ local \in Docs
  /\ pending \in Seq(Mutation)
  /\ net \in {"unknown", "online", "offline"} /\ stream \in {"closed", "starting", "open"}
  /\ timer \in BOOLEAN
  /\ calls \in Seq(SUBSET Users) /\ Len(calls) <= MaxCalls
  /\ answers \in [Calls -> Nat]
  /\ listening \subseteq 1..Len(calls)
  /\ raised \subseteq 1..Len(calls)
  /\ muted \subseteq 1..Len(calls)
  /\ synced \subseteq SUBSET Users
  /\ workerQ \in Seq(Asked)
  /\ mainQ \in Seq(Event)

\* A completion runs at most once, although a listener goes on raising events
\* until the worker has removed it (query_core.cc:139-163).
AnsweredOnce == \A c \in Calls : answers[c] <= 1

\* Reads of one query are answered in the order in which they were made.
AnsweredInOrder ==
  \A c, d \in 1..Len(calls) :
    /\ d < c /\ calls[d] = calls[c] /\ answers[c] > 0
    => answers[d] > 0

\* Latency compensation: what the device sees of a document with unsent
\* writes is the last of them, whatever the server sends meanwhile.
PendingWritesShow ==
  \A i \in 1..Len(pending) : \A u \in pending[i].docs :
    (\A j \in i+1..Len(pending) : u \notin pending[j].docs)
    => local[u] = pending[i].to

\* What the device sees of a document only it writes is never out of date,
\* except that it may not have fetched the document yet.
OwnNeverStale ==
  \A u \in Owned \ Written(pending) : local[u] \in {server[u], NoTable}

\* No listener waits although it may be told (query_listener.cc:127-152).
NoLostWakeup == \A c \in listening : MayRaise(c, net) => c \in raised

\* A listener that has raised an event is muted, or its event is queued.
NoLostEvent ==
  \A c \in raised \ muted :
    answers[c] > 0 \/ \E i \in 1..Len(mainQ) : c \in mainQ[i].calls

\* The assertions of online_state_tracker.cc:61 and :67: a timer is started only
\* when none runs, and fires only when the state is still unknown.
TimerSound == timer => net = "unknown" /\ stream # "closed"

\* online_state_tracker.cc:47: a timeout takes an attempt to connect that neither
\* succeeds nor fails to offline, rather than wait indefinitely.
AttemptTimesOut ==
  Targets # {} /\ stream = "starting" /\ net = "unknown" => timer

\* Unless the network keeps changing, or connections keep breaking once they are
\* proved, every read is answered.
EveryReadAnswered ==
  <>[][~RestartNetwork /\ ~(net = "online" /\ StreamBreaks)]_vars =>
    \A c \in Calls : (c <= Len(calls)) ~> (answers[c] > 0)

----------------------------------------------------------------------------
(* The client keeps the promise of TableStore.  A read is posted when an   *)
(* event for it waits on the main queue: the first such event is the       *)
(* answer.  Later events meet a muted listener.                            *)

Events(c) == {i \in 1..Len(mainQ) : c \in mainQ[i].calls}
FirstEventOf(c) == mainQ[CHOOSE i \in Events(c) : \A j \in Events(c) : i <= j]

NotUnlisten == {o \in Op : o.op # "unlisten"}

ReplyTo(c) ==
  LET state(s, e) == [state |-> s, ok |-> e.ok, docs |-> e.docs]
      blank == [ok |-> FALSE, docs |-> NoDocs]
  IN  IF answers[c] > 0 THEN state("done", blank)
      ELSE IF Events(c) # {} THEN state("posted", FirstEventOf(c))
      ELSE state("waiting", blank)

Promise == INSTANCE TableStore WITH
             workerQ <- Filter(workerQ, NotUnlisten),
             reply   <- [c \in Calls |-> ReplyTo(c)]

PromiseKept == Promise!StoreSpec
=============================================================================
