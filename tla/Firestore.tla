------------------------------ MODULE Firestore ------------------------------
(***************************************************************************)
(* The Firestore client of one device, over the collection "Tables", and   *)
(* the server copy of that collection.                                     *)
(*                                                                         *)
(* The application runs on the main queue.  It reads with getDocument(s),  *)
(* a "listen once": a listener is registered on the client's worker queue, *)
(* its first acceptable snapshot is posted to the main queue, and there    *)
(* the listener is removed and muted before the completion runs.  It       *)
(* writes with setData and delete, which the worker applies to the local   *)
(* view at once and sends to the server in order.                          *)
(***************************************************************************)
EXTENDS Tables

CONSTANT Backlog \* bound: batches of events waiting on the main queue

ASSUME BacklogAssumption == Backlog \in Nat

VARIABLES
  server,    \* the collection as the backend holds it
  local,     \* the collection as this device sees it, own writes included
  pending,   \* the mutation queue: writes applied locally, not acknowledged
  net,       \* OnlineState: "unknown", "online" or "offline"
  stream,    \* the watch stream: "closed", "starting" or "open"
  timer,     \* the timer that will take an unknown state to offline
  calls,     \* calls[c]: the query the c-th read asks
  answers,   \* answers[c]: how often the completion of read c has run
  listening, \* reads whose listener is registered
  raised,    \* listeners that have raised their first event
  muted,     \* reads whose AsyncEventListener is muted
  synced,    \* queries whose view is current with the server
  workerQ,   \* the worker queue: what the application enqueued
  mainQ      \* the main queue: snapshots on their way to the completions

storeVars == <<server, local, pending, net, stream, timer, calls, answers, listening,
               raised, muted, synced, workerQ, mainQ>>

----------------------------------------------------------------------------
(* The main queue holds batches of events, one event for each listener in  *)
(* calls.                                                                  *)

Event == [calls : SUBSET Calls, docs : Docs, ok : BOOLEAN]

\* The queries the client listens to.
Targets == {calls[c] : c \in listening}

----------------------------------------------------------------------------
(* Raising events.  A listener that waits for a sync raises its first      *)
(* event when its view is synced, or when the client knows it is offline.  *)

MayRaise(c, state) == calls[c] \in synced \/ state = "offline"

\* Mutant of Post: the newest batch is served first.
PostFirst(S, docs, ok) ==
  mainQ' = IF S = {} THEN mainQ
           ELSE <<[calls |-> S, docs |-> docs, ok |-> ok]>> \o mainQ

\* Post one batch of events, for the listeners in S, with the view docs.
Post(S, docs, ok) ==
  mainQ' = IF S = {} THEN mainQ
           ELSE Append(mainQ, [calls |-> S, docs |-> docs, ok |-> ok])

\* The listeners that hear of a change of the documents in D.
Told(D) == {c \in listening : /\ calls[c] \cap D # {}
                              /\ c \in raised \/ MayRaise(c, net)}

\* Mutant of ToldOffline: listeners that still wait for a sync go on waiting.
ToldOfflineSynced == {c \in listening : calls[c] \in synced}

\* The online state becomes offline: views lose their sync, and a listener
\* that was waiting for one raises what the cache holds.
ToldOffline == {c \in listening : c \notin raised \/ calls[c] \in synced}

OnlineStateBecomes(state) ==
  /\ net' = state
  /\ IF state = "offline"
       THEN /\ Post(ToldOffline, local, TRUE)
            /\ raised' = raised \cup ToldOffline
            /\ synced' = {}
       ELSE UNCHANGED <<mainQ, raised, synced>>

----------------------------------------------------------------------------
(* The worker takes the next item the application enqueued.                *)

AddListener ==
  /\ workerQ # <<>>
  /\ Head(workerQ).op = "listen"
  /\ LET c == Head(workerQ).call
         S == IF MayRaise(c, net) THEN {c} ELSE {}
     IN  /\ listening' = listening \cup {c}
         /\ raised' = raised \cup S
         /\ Post(S, local, TRUE)
  /\ IF stream = "closed" THEN stream' = "starting" /\ timer' = TRUE
                          ELSE UNCHANGED <<stream, timer>>
  /\ workerQ' = Tail(workerQ)
  /\ UNCHANGED <<server, local, pending, net, calls, answers, muted, synced>>

\* Without a listener left, a stream that is not open proves nothing any more.
RemoveListener ==
  /\ workerQ # <<>>
  /\ Head(workerQ).op = "unlisten"
  /\ LET rest == listening \ {Head(workerQ).call}
     IN  /\ listening' = rest
         /\ synced' = synced \cap {calls[c] : c \in rest}
         /\ IF rest = {} /\ listening # {} /\ stream # "open"
              THEN net' = "unknown" /\ timer' = FALSE
              ELSE UNCHANGED <<net, timer>>
  /\ workerQ' = Tail(workerQ)
  /\ UNCHANGED <<server, local, pending, stream, calls, answers, raised, muted, mainQ>>

WriteLocally ==
  /\ workerQ # <<>>
  /\ Head(workerQ).op = "write"
  /\ LET m == Head(workerQ)
     IN  /\ local' = Put(m, local)
         /\ pending' = Append(pending, m)
         /\ Post(Told(m.docs), Put(m, local), TRUE)
  /\ workerQ' = Tail(workerQ)
  /\ UNCHANGED <<server, net, stream, timer, calls, answers, listening, raised, muted, synced>>

----------------------------------------------------------------------------
(* The worker hears from the network.                                      *)

\* The response to the oldest write: the server has applied it.
WriteAcknowledged ==
  /\ pending # <<>>
  /\ server' = Put(Head(pending), server)
  /\ pending' = Tail(pending)
  /\ UNCHANGED <<local, net, stream, timer, calls, answers, listening, raised, muted, synced,
                 workerQ, mainQ>>

\* A consistent snapshot for query q.
RemoteEvent(q) ==
  /\ stream = "open" /\ net = "online"
  /\ q \in Targets
  /\ Len(mainQ) < Backlog
  /\ LET seen == Refreshed(local, q, server, pending)
         changed == {u \in Users : seen[u] # local[u]}
         S == Told(changed) \cup
              (IF q \in synced THEN {} ELSE {c \in listening : calls[c] = q})
     IN  /\ q \notin synced \/ changed # {}
         /\ local' = seen
         /\ synced' = synced \cup {q}
         /\ raised' = raised \cup S
         /\ Post(S, seen, TRUE)
  /\ UNCHANGED <<server, pending, net, stream, timer, calls, answers, listening, muted, workerQ>>

\* The backend refuses query q.
ListenRejected(q) ==
  /\ stream = "open" /\ net = "online"
  /\ q \in Targets
  /\ Len(mainQ) < Backlog
  /\ LET S == {c \in listening : calls[c] = q}
     IN  /\ listening' = listening \ S
         /\ synced' = synced \ {q}
         /\ Post(S, NoDocs, FALSE)
  /\ UNCHANGED <<server, local, pending, net, stream, timer, calls, answers, raised, muted, workerQ>>

\* An attempt to connect, or the wait before the next one, ends well.
StreamOpens ==
  /\ stream = "starting"
  /\ stream' = "open"
  /\ UNCHANGED <<server, local, pending, net, timer, calls, answers, listening, raised,
                 muted, synced, workerQ, mainQ>>

\* Mutant of FirstMessage: the timer goes on running.
FirstMessageTimed ==
  /\ stream = "open" /\ net # "online"
  /\ OnlineStateBecomes("online")
  /\ UNCHANGED <<server, local, pending, stream, timer, calls, answers, listening, muted,
                 workerQ>>

\* Any message from the server proves the connection.
FirstMessage ==
  /\ stream = "open" /\ net # "online"
  /\ OnlineStateBecomes("online")
  /\ timer' = FALSE
  /\ UNCHANGED <<server, local, pending, stream, calls, answers, listening, muted, workerQ>>

\* The stream breaks, or its attempt fails, while it is needed.  It is started
\* again; the timer runs only for the first attempt after a good connection.
StreamBreaks ==
  /\ Targets # {} /\ stream # "closed"
  /\ Len(mainQ) < Backlog
  /\ stream' = "starting"
  /\ IF net = "offline" THEN UNCHANGED <<net, mainQ, raised, synced>>
     ELSE OnlineStateBecomes(IF net = "online" THEN "unknown" ELSE "offline")
  /\ timer' = (net = "online")
  /\ UNCHANGED <<server, local, pending, calls, answers, listening, muted, workerQ>>

\* It breaks, or closes for idleness, while nothing is listened to.
StreamEnds ==
  /\ Targets = {} /\ stream # "closed"
  /\ stream' = "closed"
  /\ OnlineStateBecomes("unknown")
  /\ timer' = FALSE
  /\ UNCHANGED <<server, local, pending, calls, answers, listening, muted, workerQ>>

\* Ten seconds without a message.
OnlineStateTimeout ==
  /\ timer
  /\ Len(mainQ) < Backlog
  /\ OnlineStateBecomes("offline")
  /\ timer' = FALSE
  /\ UNCHANGED <<server, local, pending, stream, calls, answers, listening, muted, workerQ>>

\* The connectivity monitor reports another network.
RestartNetwork ==
  /\ stream' = IF Targets = {} THEN "closed" ELSE "starting"
  /\ OnlineStateBecomes("unknown")
  /\ timer' = (Targets # {})
  /\ UNCHANGED <<server, local, pending, calls, answers, listening, muted, workerQ>>

Worker == AddListener \/ RemoveListener \/ WriteLocally

Network ==
  \/ WriteAcknowledged
  \/ \E q \in Targets : RemoteEvent(q) \/ ListenRejected(q)
  \/ StreamOpens \/ FirstMessage \/ StreamBreaks \/ StreamEnds
  \/ OnlineStateTimeout \/ RestartNetwork

\* Another device writes the documents in D.
Elsewhere(D, p) ==
  /\ server' = Put(Write(D, p), server)
  /\ UNCHANGED <<local, pending, net, stream, timer, calls, answers, listening, raised, muted,
                 synced, workerQ, mainQ>>

----------------------------------------------------------------------------
(* The main queue.  One event of the batch at its head is delivered; the   *)
(* listeners of one query hear in the order in which they registered.      *)

\* Mutant of FirstEvent: the newest listener of a query hears first.
FirstEventOfNewest(c) ==
  /\ mainQ # <<>>
  /\ c \in Head(mainQ).calls
  /\ \A d \in Head(mainQ).calls : calls[d] = calls[c] => c >= d

FirstEvent(c) ==
  /\ mainQ # <<>>
  /\ c \in Head(mainQ).calls
  /\ \A d \in Head(mainQ).calls : calls[d] = calls[c] => c <= d

\* Mutant of Pop: the rest of the batch is lost.
PopBatch(c) == mainQ' = Tail(mainQ)

Pop(c) ==
  mainQ' = IF Head(mainQ).calls = {c} THEN Tail(mainQ)
           ELSE <<[Head(mainQ) EXCEPT !.calls = @ \ {c}]>> \o Tail(mainQ)

\* A muted listener ignores what was still queued for it.
DropEvent(c) ==
  /\ FirstEvent(c) /\ c \in muted
  /\ Pop(c)
  /\ UNCHANGED <<server, local, pending, net, stream, timer, calls, answers, listening, raised,
                 muted, synced, workerQ>>

\* Mutant of Mute: the listener is left to its removal by the worker.
MuteLater(c) == UNCHANGED muted

Mute(c) == muted' = muted \cup {c}

\* The completion of read c runs and enqueues ops.  A listen-once first mutes
\* and removes its listener, unless the event is an error.
Deliver(c, ops) ==
  /\ FirstEvent(c) /\ c \notin muted
  /\ Pop(c)
  /\ answers' = [answers EXCEPT ![c] = @ + 1]
  /\ IF Head(mainQ).ok
       THEN /\ Mute(c)
            /\ workerQ' = workerQ \o <<Unlisten(c)>> \o ops
       ELSE /\ workerQ' = workerQ \o ops
            /\ UNCHANGED muted
  /\ UNCHANGED <<server, local, pending, net, stream, timer, calls, listening, raised, synced>>
=============================================================================
