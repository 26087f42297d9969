----------------------------- MODULE TableStore -----------------------------
(***************************************************************************)
(* What a Firestore client promises the application, whatever the          *)
(* connection does:                                                        *)
(*   - what the application asks takes effect in the order it was asked;   *)
(*   - a write shows at once in this device's view of the collection, and  *)
(*     goes on to the server in order;                                     *)
(*   - every read is answered at most once, with the view at some moment   *)
(*     after the writes asked before it, or with an error;                 *)
(*   - the answers to one query come in the order of the reads.            *)
(* When an answer is posted, and how fresh it is, is left open: from the   *)
(* cache when the client is offline, from the server when it is not.       *)
(* Firestore.tla is the client that keeps this promise.                    *)
(***************************************************************************)
EXTENDS Tables

VARIABLES
  server,  \* the collection as the backend holds it
  local,   \* the collection as this device sees it, own writes included
  pending, \* the mutation queue: writes the server has not acknowledged
  calls,   \* calls[c]: the query the c-th read asks
  workerQ, \* what the application has asked and the worker not yet done
  reply    \* reply[c]: the answer to read c

storeVars == <<server, local, pending, calls, workerQ, reply>>

Reply   == [state : {"waiting", "posted", "done"}, ok : BOOLEAN, docs : Docs]
Waiting == [state |-> "waiting", ok |-> FALSE, docs |-> NoDocs]
Done    == [state |-> "done", ok |-> FALSE, docs |-> NoDocs]

StoreInit ==
  /\ server \in Docs
  /\ local \in Docs
  /\ pending = <<>> /\ calls = <<>> /\ workerQ = <<>>
  /\ reply = [c \in Calls |-> Waiting]

StoreTypeOK ==
  /\ server \in Docs /\ local \in Docs
  /\ pending \in Seq(Mutation)
  /\ calls \in Seq(SUBSET Users) /\ Len(calls) <= MaxCalls
  /\ workerQ \in Seq(Op)
  /\ reply \in [Calls -> Reply]

----------------------------------------------------------------------------
\* The reads whose listener is registered and waits for its first event.
Registered ==
  {c \in 1..Len(calls) : /\ reply[c].state = "waiting"
                         /\ \A i \in 1..Len(workerQ) : workerQ[i] # Listen(c)}

\* S can be answered before the rest of W: it holds the oldest reads of every
\* query.
Oldest(S, W) == \A c \in S, d \in W \ S : calls[c] = calls[d] => c < d

Post(S, docs, ok) ==
  reply' = [c \in Calls |-> IF c \in S
                            THEN [state |-> "posted", ok |-> ok, docs |-> docs]
                            ELSE reply[c]]

\* The worker registers the next listener, and may answer it from the view.
TakeListen ==
  /\ workerQ # <<>> /\ Head(workerQ).op = "listen"
  /\ workerQ' = Tail(workerQ)
  /\ LET c == Head(workerQ).call
     IN  \E S \in SUBSET {c} : Oldest(S, Registered \cup {c}) /\ Post(S, local, TRUE)
  /\ UNCHANGED <<server, local, pending, calls>>

\* Mutant of TakeWrite: the write stays on this device.
TakeWriteLocally ==
  /\ workerQ # <<>> /\ Head(workerQ).op = "write"
  /\ workerQ' = Tail(workerQ)
  /\ local' = Put(Head(workerQ), local)
  /\ UNCHANGED <<server, pending, calls, reply>>

\* Mutant of TakeWrite: the write overtakes those that are pending.
TakeWriteFirst ==
  /\ workerQ # <<>> /\ Head(workerQ).op = "write"
  /\ workerQ' = Tail(workerQ)
  /\ local' = Put(Head(workerQ), local)
  /\ pending' = <<Head(workerQ)>> \o pending
  /\ UNCHANGED <<server, calls, reply>>

\* The worker applies the next write.
TakeWrite ==
  /\ workerQ # <<>> /\ Head(workerQ).op = "write"
  /\ workerQ' = Tail(workerQ)
  /\ local' = Put(Head(workerQ), local)
  /\ pending' = Append(pending, Head(workerQ))
  /\ UNCHANGED <<server, calls, reply>>

\* Mutant of Acknowledge: the newest write reaches the server first.
AcknowledgeNewest ==
  /\ pending # <<>>
  /\ server' = Put(pending[Len(pending)], server)
  /\ pending' = SubSeq(pending, 1, Len(pending) - 1)
  /\ UNCHANGED <<local, calls, workerQ, reply>>

\* The server has applied the oldest write.
Acknowledge ==
  /\ pending # <<>>
  /\ server' = Put(Head(pending), server)
  /\ pending' = Tail(pending)
  /\ UNCHANGED <<local, calls, workerQ, reply>>

\* The view catches up with the server in D, and the reads in S are answered.
Sync(D, S) ==
  /\ Oldest(S, Registered)
  /\ local' = Refreshed(local, D, server, pending)
  /\ Post(S, local', TRUE)
  /\ UNCHANGED <<server, pending, calls, workerQ>>

\* The backend refuses the query of the reads in S.
Reject(S) ==
  /\ Oldest(S, Registered)
  /\ Post(S, NoDocs, FALSE)
  /\ UNCHANGED <<server, local, pending, calls, workerQ>>

\* Other devices write the documents in D.
Elsewhere(D, p) ==
  /\ server' = Put(Write(D, p), server)
  /\ UNCHANGED <<local, pending, calls, workerQ, reply>>

----------------------------------------------------------------------------
(* The application, on the main queue.                                     *)

\* Mutant of Ask: the reads overtake the writes.
AskReadsFirst(ws, qs) ==
  /\ Len(calls) + Len(qs) <= MaxCalls
  /\ calls' = calls \o qs
  /\ workerQ' = workerQ \o [i \in 1..Len(qs) |-> Listen(Len(calls) + i)] \o ws
  /\ UNCHANGED <<server, local, pending, reply>>

\* It makes the writes ws, then reads the queries qs.
Ask(ws, qs) ==
  /\ Len(calls) + Len(qs) <= MaxCalls
  /\ calls' = calls \o qs
  /\ workerQ' = workerQ \o ws \o [i \in 1..Len(qs) |-> Listen(Len(calls) + i)]
  /\ UNCHANGED <<server, local, pending, reply>>

\* Mutant of Complete: a completion waits for itself.
CompleteAfterSelf(c, ws) ==
  /\ reply[c].state = "posted"
  /\ \A d \in 1..c : calls[d] = calls[c] => reply[d].state = "done"
  /\ reply' = [reply EXCEPT ![c] = Done]
  /\ workerQ' = workerQ \o ws
  /\ UNCHANGED <<server, local, pending, calls>>

\* The completion of read c runs, and makes the writes ws.
Complete(c, ws) ==
  /\ reply[c].state = "posted"
  /\ \A d \in 1..c - 1 : calls[d] = calls[c] => reply[d].state = "done"
  /\ reply' = [reply EXCEPT ![c] = Done]
  /\ workerQ' = workerQ \o ws
  /\ UNCHANGED <<server, local, pending, calls>>

----------------------------------------------------------------------------
(* Any application.                                                        *)

Queries   == {Users} \cup {{u} : u \in Users}
Mutations == {<<>>} \cup {<<Write(D, p)>> : D \in SUBSET Users, p \in Places}

StoreStep ==
  \/ TakeListen \/ TakeWrite \/ Acknowledge
  \/ \E D \in SUBSET Users, S \in SUBSET Registered : Sync(D, S)
  \/ \E S \in SUBSET Registered : Reject(S)
  \/ \E D \in SUBSET Users, p \in Places : Elsewhere(D, p)

AppStep ==
  \/ \E ws \in Mutations, n \in 0..2 : \E qs \in [1..n -> Queries] : Ask(ws, qs)
  \/ \E c \in 1..Len(calls), ws \in Mutations : Complete(c, ws)

StoreSpec == StoreInit /\ [][StoreStep \/ AppStep]_storeVars
=============================================================================
