------------------------------- MODULE Adapter -------------------------------
(***************************************************************************)
(* The life of the adapter a server uses to reach other servers: two       *)
(* database clients, a start the server's constructor makes once, and a    *)
(* close() that may come while the clients still connect.  Both adapters   *)
(* are here, because they differ only in what close() waits for and in     *)
(* who ends the clients when start() fails.  The client libraries are not  *)
(* part of the repository: connecting, a query and end() settle either way *)
(* at any time, and a connection may be lost.                              *)
(***************************************************************************)
EXTENDS Naturals

CONSTANT MaxMessages    \* bound: calls of publish()

ASSUME AdapterAssumption == MaxMessages \in Nat

Messages == 1 .. MaxMessages
Clients == {"publisher", "subscriber"}
Kinds == {"postgres", "redis"}

VARIABLES
    adapter,        \* which of the two this server has
    client,         \* the state of each database client
    connectedFlag,  \* publisherConnected, subscriberConnected (PostgreSQL)
    startPromise,   \* how far start() is
    closer,         \* how far close() is; `closed` is set from its first step
    publication,    \* of each call of publish()
    late            \* history: a message came in after close() had completed

adapterVars == <<adapter, client, connectedFlag, startPromise, closer, publication, late>>

AdapterTypeOK ==
    /\ adapter \in Kinds
    /\ client \in [Clients -> {"connecting", "connected", "failed", "ended"}]
    /\ connectedFlag \in [Clients -> BOOLEAN]
    /\ startPromise \in {"connecting", "listening", "cleanup", "started", "failed"}
    /\ closer \in {"open", "waiting", "ending", "done"}
    /\ publication \in [Messages -> {"idle", "waiting", "accepted", "rejected"}]
    /\ late \in BOOLEAN

\* The server's constructor has called start().
AdapterInit ==
    /\ adapter \in Kinds
    /\ client = [c \in Clients |-> "connecting"]
    /\ connectedFlag = [c \in Clients |-> FALSE]
    /\ startPromise = "connecting"
    /\ closer = "open"
    /\ publication = [m \in Messages |-> "idle"]
    /\ late = FALSE

closed == closer # "open"
Settled == startPromise \in {"started", "failed"}

\* Messages of the channel reach this server.
Subscribed == startPromise = "started" /\ client["subscriber"] = "connected"

-----------------------------------------------------------------------------
(* start() *)

\* A client's connect() settles.
ConnectSettles(c) ==
    /\ client[c] = "connecting"
    /\ \/ /\ client' = [client EXCEPT ![c] = "connected"]
          /\ connectedFlag' = [connectedFlag EXCEPT ![c] = TRUE]
       \/ /\ client' = [client EXCEPT ![c] = "failed"]
          /\ UNCHANGED connectedFlag
    /\ UNCHANGED <<adapter, startPromise, closer, publication, late>>

\* An established connection is lost.  Nobody opens a PostgreSQL client again;
\* the Redis library reconnects on its own.
Lost(c) ==
    /\ client[c] = "connected" /\ adapter = "postgres"
    /\ client' = [client EXCEPT ![c] = "ended"]
    /\ connectedFlag' = [connectedFlag EXCEPT ![c] = FALSE]
    /\ UNCHANGED <<adapter, startPromise, closer, publication, late>>

\* Both connects were fulfilled: LISTEN, or subscribe.
Listen ==
    /\ startPromise = "connecting"
    /\ \A c \in Clients : client[c] \in {"connected", "ended"}
    /\ startPromise' = "listening"
    /\ UNCHANGED <<adapter, client, connectedFlag, closer, publication, late>>

Listening ==
    /\ startPromise = "listening" /\ client["subscriber"] = "connected"
    /\ startPromise' = "started"
    /\ UNCHANGED <<adapter, client, connectedFlag, closer, publication, late>>

\* closeClients up to its await: only clients whose connect() is known to
\* have succeeded are ended.
EndClients ==
    client' = [c \in Clients |-> IF connectedFlag[c] THEN "ended" ELSE client[c]]

StartRejected ==
    \/ startPromise = "connecting" /\ \E c \in Clients : client[c] = "failed"
    \/ startPromise = "listening"

\* A connect was rejected, or LISTEN was: what is connected is ended first.
PostgresStartFails ==
    /\ adapter = "postgres" /\ StartRejected
    /\ EndClients
    /\ startPromise' = "cleanup"
    /\ UNCHANGED <<adapter, connectedFlag, closer, publication, late>>

\* Redis leaves a client that connected as it is.
RedisStartFails ==
    /\ adapter = "redis" /\ StartRejected
    /\ startPromise' = "failed"
    /\ UNCHANGED <<adapter, client, connectedFlag, closer, publication, late>>

\* closeClients after its await clears both flags, whatever happened meanwhile.
CleanupEnds ==
    /\ startPromise = "cleanup"
    /\ startPromise' = "failed"
    /\ connectedFlag' = [c \in Clients |-> FALSE]
    /\ UNCHANGED <<adapter, client, closer, publication, late>>

-----------------------------------------------------------------------------
(* close() *)

ClosePostgres ==
    /\ adapter = "postgres" /\ ~closed
    /\ closer' = "waiting"
    /\ UNCHANGED <<adapter, client, connectedFlag, startPromise, publication, late>>

\* A Redis client that is open, connecting included, is closed at once, and a
\* connect() under way is rejected.
CloseRedis ==
    /\ adapter = "redis" /\ ~closed
    /\ closer' = "ending"
    /\ client' = [c \in Clients |-> CASE client[c] = "connecting" -> "failed"
                                      [] client[c] = "connected" -> "ended"
                                      [] OTHER -> client[c]]
    /\ UNCHANGED <<adapter, connectedFlag, startPromise, publication, late>>

\* Faulty variant: close() does not wait for a start that is under way.
CloseClientsAtOnce ==
    /\ closer = "waiting"
    /\ EndClients
    /\ closer' = "ending"
    /\ UNCHANGED <<adapter, connectedFlag, startPromise, publication, late>>

\* Faulty variant: close() waits for a start that succeeds.
CloseClientsIfStarted ==
    /\ closer = "waiting" /\ startPromise = "started"
    /\ EndClients
    /\ closer' = "ending"
    /\ UNCHANGED <<adapter, connectedFlag, startPromise, publication, late>>

\* PostgreSQL waits until start() has settled, then ends the clients.
CloseClients ==
    /\ closer = "waiting" /\ Settled
    /\ EndClients
    /\ closer' = "ending"
    /\ UNCHANGED <<adapter, connectedFlag, startPromise, publication, late>>

CloseEnds ==
    /\ closer = "ending"
    /\ closer' = "done"
    /\ connectedFlag' = [c \in Clients |-> FALSE]
    /\ UNCHANGED <<adapter, client, startPromise, publication, late>>

-----------------------------------------------------------------------------
(* Messages *)

\* Up to `await startPromise`; a closed adapter refuses at once.
Publish(m) ==
    /\ publication[m] = "idle" /\ (m > 1 => publication[m - 1] # "idle")
    /\ publication' = [publication EXCEPT ![m] = IF closed THEN "rejected" ELSE "waiting"]
    /\ UNCHANGED <<adapter, client, connectedFlag, startPromise, closer, late>>

\* The start failed, the payload is too large for NOTIFY, the query failed, or
\* the database took the message.  `closed` is not looked at again.
Published(m) ==
    /\ publication[m] = "waiting" /\ Settled
    /\ \/ publication' = [publication EXCEPT ![m] = "rejected"]
       \/ /\ startPromise = "started" /\ client["publisher"] = "connected"
          /\ publication' = [publication EXCEPT ![m] = "accepted"]
    /\ UNCHANGED <<adapter, client, connectedFlag, startPromise, closer, late>>

\* A message of the channel goes to the receiver the server gave to start().
Receive ==
    /\ Subscribed
    /\ late' = (late \/ closer = "done")
    /\ UNCHANGED <<adapter, client, connectedFlag, startPromise, closer, publication>>

StartSteps ==
    Listen \/ Listening \/ PostgresStartFails \/ RedisStartFails \/ CleanupEnds
CloseSteps == CloseClients \/ CloseEnds

AdapterNext ==
    \/ \E c \in Clients : ConnectSettles(c) \/ Lost(c)
    \/ StartSteps \/ ClosePostgres \/ CloseRedis \/ CloseSteps
    \/ \E m \in Messages : Publish(m) \/ Published(m)
    \/ Receive

\* Promises of the client libraries settle.
AdapterFairness ==
    /\ \A c \in Clients : WF_adapterVars(ConnectSettles(c))
    /\ WF_adapterVars(StartSteps) /\ WF_adapterVars(CloseSteps)
    /\ \A m \in Messages : WF_adapterVars(Published(m))

AdapterSpec == AdapterInit /\ [][AdapterNext]_adapterVars /\ AdapterFairness

-----------------------------------------------------------------------------
(* Properties *)

\* When close() has completed no message reaches the server any more, although
\* close() may come while the clients connect and start() goes on regardless; and
\* a client is connected only if the connect of the other one was rejected: then
\* nobody ends a client whose own connect succeeds later.
ClientsEnded ==
    /\ ~late
    /\ closer = "done" /\ (\E c \in Clients : client[c] = "connected") =>
          \E c \in Clients : client[c] = "failed"

\* Whenever close() is called and whatever the clients do, close() and every
\* publish() that waits for the start complete.
EveryCallEnds ==
    /\ closer = "waiting" ~> closer = "done"
    /\ \A m \in Messages : publication[m] = "waiting" ~> publication[m] # "waiting"

=============================================================================
