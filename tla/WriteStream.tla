----------------------------- MODULE WriteStream -----------------------------
(***************************************************************************)
(* How writes leave the device: the mutation queues of the users, the      *)
(* write pipeline and the write stream of the Firestore client, the        *)
(* credentials it connects with, and the process that may be killed and    *)
(* started again.                                                          *)
(*                                                                         *)
(* Four parties take turns.  The Auth queue holds the current user and     *)
(* fetches tokens.  The main queue delivers its notifications and tokens,  *)
(* and runs the application, which writes.  The client's worker queue runs *)
(* everything of the client.  The server answers what the stream brings.   *)
(*                                                                         *)
(* Batches are numbered as they are made.  A user's writes all go to the   *)
(* user's own document, so the server's copy is the last batch it applied. *)
(***************************************************************************)
EXTENDS Naturals, SequencesExt

CONSTANTS Users,
          Nobody,      \* User::Unauthenticated(): no user is signed in
          MaxPipeline, \* kMaxPendingWrites
          MaxWrites,   \* bound: writes the application makes
          MaxTurns     \* bound: changes of the user, token refreshes, and kills

ASSUME NobodyAssumption == Nobody \notin Users
ASSUME BoundsAssumption == MaxPipeline \in Nat \ {0} /\ MaxWrites \in Nat /\ MaxTurns \in Nat

VARIABLES
  authUser, \* FIRAuth's current user, kept in the keychain
  provider, \* the credentials provider's: the user it was last notified of
  mainQ,    \* notifications and tokens on their way through the main queue
  token,    \* the token request the write stream waits for
  workerQ,  \* the worker queue
  user,     \* the sync engine's current user, whose queue is being sent
  queue,    \* queue[u]: the mutation queue of u, kept on disk
  pipeline, \* write_pipeline_
  stream,   \* the write stream
  toServer, \* messages the server has not taken from the stream
  toClient, \* its answers the client has not taken
  server,   \* server[u]: the last batch of u's the server has applied
  turns,    \* changes of the user, refreshes and kills so far
  by,       \* history: by[b]: the provider's user when batch b was made
  acked,    \* history: the batches acknowledged,
  refused,  \* refused by the server,
  dropped   \* and dropped by the client as refused

authVars   == <<authUser, provider, turns>>
diskVars   == <<queue, acked, dropped>>
streamVars == <<pipeline, stream, token>>
wireVars   == <<toServer, toClient>>
vars == <<authUser, provider, mainQ, token, workerQ, user, queue, pipeline, stream, toServer,
          toClient, server, turns, by, acked, refused, dropped>>

Owners  == Users \cup {Nobody}
Batches == 1..MaxWrites

Handshake == 0 \* the first message of a stream

----------------------------------------------------------------------------
(* Items of the queues.                                                    *)

Notify(u)      == [op |-> "notify", user |-> u, ok |-> TRUE]
Token(u, ok)   == [op |-> "token", user |-> u, ok |-> ok]
Resume(u, ok)  == [op |-> "resume", user |-> u, ok |-> ok]
Credentials(u) == [op |-> "credentials", user |-> u]
Mutate(b)      == [op |-> "write", batch |-> b]

Shaken     == [op |-> "shaken", batch |-> Handshake]
Applied(b) == [op |-> "applied", batch |-> b]
Refused(b) == [op |-> "refused", batch |-> b]

\* A request is asked on the worker, fetched by the Auth queue for the user it
\* finds there, and posted.  It is fresh while token_counter is as it was.
NoRequest == [at |-> "none", user |-> Nobody, fresh |-> TRUE]
Requested == [at |-> "asked", user |-> Nobody, fresh |-> TRUE]

Closed == [state |-> "initial", shaken |-> FALSE, idle |-> FALSE, user |-> Nobody]

----------------------------------------------------------------------------
(* The pipeline and the stream.                                            *)

IsStarted == stream.state \in {"starting", "backoff", "open"}

\* Mutant of Void: answers to the requests of an earlier start still count.
VoidNothing(q) == q

\* close_count_ has changed: the token under way for the stream, in one queue or
\* the other, counts no more.
Void(q) == RemoveFirstMatch(q, LAMBDA e : e.op \in {"token", "resume"})

\* Mutant of Without: the newest batch leaves the queue.
WithoutNewest(q, b) == SubSeq(q, 1, Len(q) - 1)

\* Batch b leaves the mutation queue q.
Without(q, b) == RemoveFirst(q, b)

\* Mutant of Filled: the pipeline has no limit.
FilledUp(p, q) ==
  LET next == SelectInSeq(q, LAMBDA x : \A i \in 1..Len(p) : p[i] < x)
  IN  IF next = 0 THEN p ELSE p \o SubSeq(q, next, Len(q))

\* The pipeline p filled from the mutation queue q, from its last batch on.
Filled(p, q) ==
  LET next == SelectInSeq(q, LAMBDA x : \A i \in 1..Len(p) : p[i] < x)
      last == Min({next - 1 + MaxPipeline - Len(p), Len(q)})
  IN  IF next = 0 THEN p ELSE p \o SubSeq(q, next, last)

\* Mutant of Started: a stream in error is not started again.
StartedUnlessError(state, p) ==
  IF p = <<>> \/ state = "error" THEN state ELSE "starting"

\* The state of a stream not started, once it is started for the pipeline p,
\* if that holds anything: at once, or after a wait when it broke.
Started(state, p) ==
  IF p = <<>> THEN state ELSE IF state = "error" THEN "backoff" ELSE "starting"

\* Mutant of StillIdle: sending does not cancel the idle timer.
IdleAnyway(news, p) == stream.idle \/ p = <<>>

\* The idle timer of an open stream with the pipeline p, once it sent news.
StillIdle(news, p) == (stream.idle /\ news = <<>>) \/ p = <<>>

\* FillWritePipeline while p is in the pipeline: a stream past its handshake
\* sends what is new at once; one not started is started.
FillWritePipeline(p, q) ==
  LET full == Filled(p, q)
      news == SubSeq(full, Len(p) + 1, Len(full))
  IN  /\ pipeline' = full
      /\ IF stream.state = "open"
           THEN /\ stream' = [stream EXCEPT !.idle = StillIdle(news, full)]
                /\ toServer' = IF stream.shaken THEN toServer \o news ELSE toServer
                /\ UNCHANGED token
           ELSE /\ UNCHANGED toServer
                /\ IF IsStarted THEN UNCHANGED <<stream, token>>
                   ELSE /\ stream' = [stream EXCEPT !.state = Started(@, full)]
                        /\ token' = IF stream'.state = "starting" THEN Requested ELSE token

\* The stream has ended in this state, with the pipeline p to be sent anew.
Ended(state, p) ==
  /\ pipeline' = p
  /\ stream' = [Closed EXCEPT !.state = Started(state, p)]
  /\ token' = IF stream'.state = "starting" THEN Requested ELSE NoRequest
  /\ toServer' = <<>> /\ toClient' = <<>>
  /\ mainQ' = Void(mainQ)

\* Mutant of WriteFailed: an error before the handshake blames a write too.
WriteFailedAnytime(status) == status = "permanent" /\ pipeline # <<>>

\* The error of a stream is about the oldest write in the pipeline.
WriteFailed(status) == status = "permanent" /\ stream.shaken /\ pipeline # <<>>

\* The stream closes with an error: OnWriteStreamClose.
CloseStream(status) ==
  IF WriteFailed(status)
    THEN LET b == Head(pipeline)
             rest == Without(queue[user], b)
         IN  /\ queue' = [queue EXCEPT ![user] = rest]
             /\ dropped' = dropped \cup {b}
             /\ Ended("initial", Filled(Tail(pipeline), rest))
    ELSE Ended("error", pipeline) /\ UNCHANGED <<queue, dropped>>

----------------------------------------------------------------------------
(* The Auth queue.                                                         *)

\* A sign-in, a sign-out or a refresh of the token: observers are notified.
AuthChanges(u) ==
  /\ turns < MaxTurns /\ (u # Nobody \/ authUser # Nobody)
  /\ turns' = turns + 1
  /\ authUser' = u
  /\ mainQ' = Append(mainQ, Notify(u))
  /\ UNCHANGED <<provider, workerQ, user, diskVars, streamVars, wireVars, server, by, refused>>

FetchToken ==
  /\ token.at = "asked"
  /\ token' = [token EXCEPT !.at = "fetching", !.user = authUser]
  /\ UNCHANGED <<authVars, mainQ, workerQ, user, diskVars, pipeline, stream, wireVars, server,
                 by, refused>>

PostToken(ok) ==
  /\ token.at = "fetching"
  /\ ok \/ token.user # Nobody
  /\ token' = [token EXCEPT !.at = "posted"]
  /\ mainQ' = Append(mainQ, Token(token.user, ok))
  /\ UNCHANGED <<authVars, workerQ, user, diskVars, pipeline, stream, wireVars, server, by,
                 refused>>

TokenFails == PostToken(FALSE)

----------------------------------------------------------------------------
(* The main queue.                                                         *)

AuthStateDidChange ==
  /\ mainQ # <<>> /\ Head(mainQ).op = "notify"
  /\ mainQ' = Tail(mainQ)
  /\ provider' = Head(mainQ).user
  /\ token' = [token EXCEPT !.fresh = (token.at = "none")]
  /\ workerQ' = Append(workerQ, Credentials(Head(mainQ).user))
  /\ UNCHANGED <<authUser, turns, user, diskVars, pipeline, stream, wireVars, server, by, refused>>

\* A token fetched while the user changed is asked for again.
GotToken ==
  /\ mainQ # <<>> /\ Head(mainQ).op = "token"
  /\ mainQ' = Tail(mainQ)
  /\ IF token.fresh
       THEN /\ token' = NoRequest
            /\ workerQ' = Append(workerQ, Resume(Head(mainQ).user, Head(mainQ).ok))
       ELSE token' = Requested /\ UNCHANGED workerQ
  /\ UNCHANGED <<authVars, user, diskVars, pipeline, stream, wireVars, server, by, refused>>

\* The application writes.
Write ==
  /\ Len(by) < MaxWrites
  /\ by' = Append(by, provider)
  /\ workerQ' = Append(workerQ, Mutate(Len(by) + 1))
  /\ UNCHANGED <<authVars, mainQ, user, diskVars, streamVars, wireVars, server, refused>>

----------------------------------------------------------------------------
(* The worker queue.                                                       *)

Takes(op) == workerQ # <<>> /\ Head(workerQ).op = op

WriteMutations ==
  /\ Takes("write")
  /\ workerQ' = Tail(workerQ)
  /\ queue' = [queue EXCEPT ![user] = Append(@, Head(workerQ).batch)]
  /\ FillWritePipeline(pipeline, queue'[user])
  /\ UNCHANGED <<authVars, mainQ, user, acked, dropped, toClient, server, by, refused>>

\* Mutant of Reconnect: the batches of the pipeline stay in it.
ReconnectRefilled(u) == Ended("initial", Filled(pipeline, queue[u]))

\* The streams are torn down and created again, with u's batches.
Reconnect(u) == Ended("initial", Filled(<<>>, queue[u]))

\* Mutant of HandleCredentialChange: the stream stays for the new user.
CredentialsOnly ==
  /\ Takes("credentials")
  /\ workerQ' = Tail(workerQ)
  /\ user' = Head(workerQ).user
  /\ FillWritePipeline(<<>>, queue[user'])
  /\ UNCHANGED <<authVars, mainQ, diskVars, toClient, server, by, refused>>

HandleCredentialChange ==
  /\ Takes("credentials")
  /\ workerQ' = Void(Tail(workerQ))
  /\ user' = Head(workerQ).user
  /\ Reconnect(user')
  /\ UNCHANGED <<authVars, diskVars, server, by, refused>>

\* The stream opens with the token and sends its handshake; or without one it
\* fails.
ResumeStart ==
  /\ Takes("resume")
  /\ workerQ' = Tail(workerQ)
  /\ IF Head(workerQ).ok
       THEN /\ stream' = [stream EXCEPT !.state = "open", !.user = Head(workerQ).user]
            /\ toServer' = <<Handshake>>
            /\ UNCHANGED <<mainQ, token, pipeline, toClient, queue, dropped>>
       ELSE CloseStream("transient")
  /\ UNCHANGED <<authVars, user, acked, server, by, refused>>

BackoffElapsed ==
  /\ stream.state = "backoff"
  /\ stream' = [stream EXCEPT !.state = "starting"]
  /\ token' = Requested
  /\ UNCHANGED <<authVars, mainQ, workerQ, user, diskVars, pipeline, wireVars, server, by,
                 refused>>

IdleTimeout ==
  /\ stream.idle
  /\ stream' = Closed
  /\ toServer' = <<>> /\ toClient' = <<>>
  /\ UNCHANGED <<authVars, mainQ, workerQ, user, diskVars, pipeline, token, server, by, refused>>

\* Mutant of HandshakeComplete: the batches that waited are forgotten.
HandshakeUnheeded ==
  /\ toClient # <<>> /\ ~stream.shaken
  /\ stream' = [stream EXCEPT !.shaken = TRUE]
  /\ toClient' = Tail(toClient)
  /\ UNCHANGED <<authVars, mainQ, workerQ, user, diskVars, pipeline, token, toServer, server,
                 by, refused>>

HandshakeComplete ==
  /\ toClient # <<>> /\ ~stream.shaken
  /\ stream' = [stream EXCEPT !.shaken = TRUE]
  /\ toServer' = toServer \o pipeline
  /\ toClient' = Tail(toClient)
  /\ UNCHANGED <<authVars, mainQ, workerQ, user, diskVars, pipeline, token, server, by, refused>>

\* A response carries no batch: it is taken for that to the oldest.
MutationResult ==
  /\ stream.shaken /\ toClient # <<>> /\ Head(toClient).op = "applied"
  /\ LET b == Head(pipeline)
         rest == Without(queue[user], b)
     IN  /\ queue' = [queue EXCEPT ![user] = rest]
         /\ acked' = acked \cup {b}
         /\ FillWritePipeline(Tail(pipeline), rest)
  /\ toClient' = Tail(toClient)
  /\ UNCHANGED <<authVars, mainQ, workerQ, user, dropped, server, by, refused>>

\* The stream ends: the write it last brought was refused; or it breaks, or is
\* refused itself before the handshake is done.
StreamEnds(status) ==
  /\ CloseStream(status)
  /\ workerQ' = Void(workerQ)
  /\ UNCHANGED <<authVars, user, acked, server, by, refused>>

WriteRefused ==
  /\ stream.shaken /\ toClient # <<>> /\ Head(toClient).op = "refused"
  /\ StreamEnds("permanent")

HandshakeRefused ==
  /\ stream.state = "open" /\ ~stream.shaken
  /\ StreamEnds("permanent")

StreamBreaks == stream.state = "open" /\ StreamEnds("transient")

\* The connectivity monitor reports another network.
RestartNetwork ==
  /\ Reconnect(user)
  /\ workerQ' = Void(workerQ)
  /\ UNCHANGED <<authVars, user, diskVars, server, by, refused>>

----------------------------------------------------------------------------
(* The server.  It ends the stream with the write it refuses.              *)

Listens == \A i \in 1..Len(toClient) : toClient[i].op # "refused"

AcceptStream ==
  /\ toServer # <<>> /\ Head(toServer) = Handshake
  /\ toServer' = Tail(toServer) /\ toClient' = Append(toClient, Shaken)
  /\ UNCHANGED <<authVars, mainQ, workerQ, user, diskVars, streamVars, server, by, refused>>

Apply ==
  /\ toServer # <<>> /\ Head(toServer) # Handshake /\ Listens
  /\ toServer' = Tail(toServer) /\ toClient' = Append(toClient, Applied(Head(toServer)))
  /\ server' = [server EXCEPT ![by[Head(toServer)]] = Head(toServer)]
  /\ UNCHANGED <<authVars, mainQ, workerQ, user, diskVars, streamVars, by, refused>>

Refuse ==
  /\ toServer # <<>> /\ Head(toServer) # Handshake /\ Listens
  /\ toServer' = Tail(toServer) /\ toClient' = Append(toClient, Refused(Head(toServer)))
  /\ refused' = refused \cup {Head(toServer)}
  /\ UNCHANGED <<authVars, mainQ, workerQ, user, diskVars, streamVars, server, by>>

----------------------------------------------------------------------------
\* The process starts.  The provider finds the user p; if it asks before the
\* notification of the user in the keychain is delivered, that is still to come,
\* and if it asks before the keychain is read, it finds nobody.
Launched(p, told) ==
  /\ p = authUser \/ (p = Nobody /\ ~told)
  /\ told \/ authUser # Nobody
  /\ provider' = p
  /\ mainQ' = IF told THEN <<>> ELSE <<Notify(authUser)>>
  /\ workerQ' = <<Credentials(p)>>
  /\ user' = Nobody
  /\ pipeline' = <<>> /\ stream' = Closed /\ token' = NoRequest
  /\ toServer' = <<>> /\ toClient' = <<>>

\* Mutant of Relaunch: the writes not yet sent are lost.
RelaunchForgetful(p, told) ==
  /\ turns < MaxTurns /\ turns' = turns + 1
  /\ Launched(p, told)
  /\ queue' = [u \in Owners |-> <<>>]
  /\ UNCHANGED <<authUser, acked, dropped, server, by, refused>>

\* The process is killed, and started again: the keychain and the mutation
\* queues are all that is left.
Relaunch(p, told) ==
  /\ turns < MaxTurns /\ turns' = turns + 1
  /\ Launched(p, told)
  /\ UNCHANGED <<authUser, diskVars, server, by, refused>>

Init ==
  /\ authUser \in Owners /\ provider = authUser
  /\ mainQ = <<>> /\ workerQ = <<Credentials(authUser)>>
  /\ user = Nobody
  /\ queue = [u \in Owners |-> <<>>]
  /\ pipeline = <<>> /\ stream = Closed /\ token = NoRequest
  /\ toServer = <<>> /\ toClient = <<>>
  /\ server = [u \in Owners |-> 0]
  /\ turns = 0 /\ by = <<>>
  /\ acked = {} /\ refused = {} /\ dropped = {}

Main   == AuthStateDidChange \/ GotToken
Worker == WriteMutations \/ HandleCredentialChange \/ ResumeStart
Wire   == HandshakeComplete \/ MutationResult \/ WriteRefused
Backend == AcceptStream \/ Apply \/ Refuse

Next ==
  \/ \E u \in Owners : AuthChanges(u)
  \/ FetchToken \/ PostToken(TRUE) \/ TokenFails
  \/ Main \/ Write \/ Worker \/ Wire \/ Backend
  \/ BackoffElapsed \/ IdleTimeout
  \/ HandshakeRefused \/ StreamBreaks \/ RestartNetwork
  \/ \E p \in Owners, told \in BOOLEAN : Relaunch(p, told)

\* The queues and the timers are served, Auth and the server answer.
Fairness ==
  /\ WF_vars(FetchToken) /\ WF_vars(PostToken(TRUE) \/ TokenFails)
  /\ WF_vars(Main) /\ WF_vars(Worker) /\ WF_vars(BackoffElapsed)
  /\ WF_vars(Wire) /\ WF_vars(Backend)

Spec == Init /\ [][Next]_vars /\ Fairness

----------------------------------------------------------------------------
MainItem   == [op : {"notify", "token"}, user : Owners, ok : BOOLEAN]
WorkerItem == [op : {"resume"}, user : Owners, ok : BOOLEAN]
                \cup [op : {"credentials"}, user : Owners]
                \cup [op : {"write"}, batch : Batches]
Answer     == {Shaken} \cup [op : {"applied", "refused"}, batch : Batches]

TypeOK ==
  /\ authUser \in Owners /\ provider \in Owners /\ user \in Owners
  /\ mainQ \in Seq(MainItem) /\ workerQ \in Seq(WorkerItem)
  /\ token \in [at : {"none", "asked", "fetching", "posted"}, user : Owners, fresh : BOOLEAN]
  /\ queue \in [Owners -> Seq(Batches)]
  /\ pipeline \in Seq(Batches) /\ Len(pipeline) <= MaxPipeline
  /\ stream \in [state : {"initial", "starting", "backoff", "open", "error"},
                 shaken : BOOLEAN, idle : BOOLEAN, user : Owners]
  /\ toServer \in Seq(Batches \cup {Handshake}) /\ toClient \in Seq(Answer)
  /\ server \in [Owners -> Batches \cup {0}]
  /\ turns \in 0..MaxTurns
  /\ by \in Seq(Owners) /\ Len(by) <= MaxWrites
  /\ acked \subseteq Batches /\ refused \subseteq Batches /\ dropped \subseteq Batches

\* The pipeline is the head of the current user's mutation queue, and of no
\* other: what AcknowledgeBatch and RejectBatch remove is there to be removed.
PipelineHeadsQueue ==
  /\ Len(pipeline) <= Len(queue[user])
  /\ pipeline = SubSeq(queue[user], 1, Len(pipeline))

\* Answers and requests under way are about the batches of the pipeline, one
\* each and in its order: the answer taken for the oldest write is its answer,
\* and none comes for an empty pipeline (remote_store.cc:437).
InFlight ==
  LET answered == [i \in 1..Len(toClient) |-> toClient[i].batch]
  IN  answered \o toServer = IF stream.shaken THEN pipeline
                             ELSE IF stream.state = "open" THEN <<Handshake>> ELSE <<>>

\* A stream is stopped for idleness only when nothing is to be sent on it
\* (remote_store.cc:456).
IdleIsUnneeded == stream.idle => stream.shaken /\ pipeline = <<>>

\* A token comes to a stream that waits for it (stream.cc:171).
ResumedWhileStarting ==
  \A i \in 1..Len(workerQ) : workerQ[i].op = "resume" => stream.state = "starting"

\* A batch travels only on a stream opened with the credentials of the user
\* who made it, whoever signs in and out meanwhile.
OwnCredentials ==
  stream.state = "open" => \A i \in 1..Len(pipeline) : by[pipeline[i]] = stream.user

\* A write the client knows to be done is not undone by an older one sent again.
AckedIsDurable == \A b \in acked : server[by[b]] >= b

\* The client gives up no write that the server has not refused.
OnlyRefusedDropped == dropped \subseteq refused

\* The application stops writing (at its bound), and unless connections keep
\* breaking, networks changing or tokens failing, every write of the user who
\* stays signed in is answered.
WritesSettle ==
  <>[][~(StreamBreaks \/ HandshakeRefused \/ RestartNetwork \/ TokenFails)]_vars =>
    []<>(queue[authUser] = <<>>)

----------------------------------------------------------------------------
(* The client keeps the promise of WriteQueue: what the server has applied *)
(* on this connection is what it has answered with; a refusal is its last  *)
(* answer.                                                                 *)

AppliedNow(u) ==
  IF u # user \/ ~stream.shaken THEN 0
  ELSE IF Listens THEN Len(toClient) ELSE Len(toClient) - 1

Queue == INSTANCE WriteQueue WITH sent <- [u \in Owners |-> AppliedNow(u)]

SentInOrder == Queue!Spec
=============================================================================
