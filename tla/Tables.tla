------------------------------- MODULE Tables -------------------------------
(***************************************************************************)
(* The collection "Tables", and what an application asks of a Firestore    *)
(* client.                                                                 *)
(*                                                                         *)
(* A table document is abstracted to its place, the coordinates it holds.  *)
(* Its key is the uid of the user who submitted it, which is also its "id" *)
(* field.  A query is the set of keys it matches: Users for the whole      *)
(* collection, {u} for the document of u.  Reads are numbered.             *)
(***************************************************************************)
EXTENDS Naturals, Sequences

CONSTANTS Users,    \* the uids, in the order of document keys
          Spots,    \* the coordinates that occur
          NoTable,  \* "this document does not exist"
          MaxCalls  \* bound: reads the application makes

ASSUME UsersAssumption == Users \subseteq Nat
ASSUME NoTableAssumption == NoTable \notin Spots
ASSUME MaxCallsAssumption == MaxCalls \in Nat

Places == Spots \cup {NoTable}
Docs   == [Users -> Places]
Calls  == 1..MaxCalls

NoDocs == [u \in Users |-> NoTable]

\* What the application enqueues on the client's worker queue: the listener of
\* read c, its removal, and a write of p to the documents in D.  The deletes
\* one completion enqueues back to back are one write of NoTable.
Listen(c)   == [op |-> "listen", call |-> c]
Unlisten(c) == [op |-> "unlisten", call |-> c]
Write(D, p) == [op |-> "write", docs |-> D, to |-> p]

Mutation == [op : {"write"}, docs : SUBSET Users, to : Places]
Op       == [op : {"listen", "unlisten"}, call : Calls] \cup Mutation

\* Mutant of Put: the other documents are lost.
PutAlone(m, docs) == [u \in m.docs |-> m.to]

\* A mutation replaces whole documents.
Put(m, docs) == [u \in Users |-> IF u \in m.docs THEN m.to ELSE docs[u]]

\* The documents that the mutations in the queue q still write.
Written(q) == UNION {q[i].docs : i \in 1..Len(q)}

\* Mutant of Refreshed: the server overwrites what this device has not sent yet.
RefreshedOverwrites(docs, D, server, pending) ==
  [u \in Users |-> IF u \in D THEN server[u] ELSE docs[u]]

\* The view docs, brought up to date with the server in D, except where writes
\* of this device are pending.
Refreshed(docs, D, server, pending) ==
  [u \in Users |-> IF u \in D \ Written(pending) THEN server[u] ELSE docs[u]]
=============================================================================
