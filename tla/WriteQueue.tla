----------------------------- MODULE WriteQueue -----------------------------
(***************************************************************************)
(* What the Firestore client promises about the writes made by each user:  *)
(* they are kept in the order in which they were made, over crashes and    *)
(* while other users are signed in; they reach the server in that order;   *)
(* and one leaves the queue only when the server has taken or refused it.  *)
(* The server may see a write more than once: whenever the connection is   *)
(* lost, the client begins again with the oldest write it has no answer    *)
(* for.  WriteStream.tla is the client that keeps this promise.            *)
(***************************************************************************)
EXTENDS Naturals, Sequences

CONSTANTS Owners, \* whose writes are kept apart
          Batches \* the writes, numbered in the order in which they are made

VARIABLES
  queue,  \* queue[u]: u's writes the server has not answered
  sent,   \* sent[u]: how many of them it has applied on this connection
  server  \* server[u]: the last write of u's it has applied, 0 at first

Init ==
  /\ queue = [u \in Owners |-> <<>>]
  /\ sent = [u \in Owners |-> 0]
  /\ server = [u \in Owners |-> 0]

\* u makes the write b, newer than every write that is kept.
Make(u, b) ==
  /\ \A v \in Owners : \A i \in 1..Len(queue[v]) : queue[v][i] < b
  /\ queue' = [queue EXCEPT ![u] = Append(@, b)]
  /\ UNCHANGED <<sent, server>>

\* The server applies the next write on the connection.
Apply(u) ==
  /\ sent[u] < Len(queue[u])
  /\ sent' = [sent EXCEPT ![u] = @ + 1]
  /\ server' = [server EXCEPT ![u] = queue[u][sent[u] + 1]]
  /\ UNCHANGED queue

\* The connection is lost.
Retry(u) == sent' = [sent EXCEPT ![u] = 0] /\ UNCHANGED <<queue, server>>

\* The answer to the oldest write: it was applied.
Acknowledge(u) ==
  /\ sent[u] > 0
  /\ sent' = [sent EXCEPT ![u] = @ - 1]
  /\ queue' = [queue EXCEPT ![u] = Tail(@)]
  /\ UNCHANGED server

\* It was refused, and the connection is lost with it.
Refuse(u) ==
  /\ sent[u] = 0 /\ queue[u] # <<>>
  /\ queue' = [queue EXCEPT ![u] = Tail(@)]
  /\ UNCHANGED <<sent, server>>

Next ==
  \E u \in Owners : \/ \E b \in Batches : Make(u, b)
                    \/ Apply(u) \/ Retry(u) \/ Acknowledge(u) \/ Refuse(u)

Spec == Init /\ [][Next]_<<queue, sent, server>>
=============================================================================
