------------------------------ MODULE Requests ------------------------------
(***************************************************************************)
(* RPC between one TypeScript client and its server: request() and         *)
(* respond() at both ends, over transports the client replaces when it     *)
(* reconnects.                                                             *)
(*                                                                         *)
(* A server connection is named by the number of its transport and keeps   *)
(* its own request ids, pending requests and responders.  The client is    *)
(* one object for all transports: its ids, pending requests, timers,       *)
(* running responders and send queue outlive the transport they began on.  *)
(* The queue is handleQueue of PacketUtils.ts, which SendQueue models for  *)
(* send(): one call at a time encodes its packet.  Calls are the           *)
(* calls of request(), numbered in the order they are made; a frame        *)
(* carries the call it belongs to as a ghost, which no guard reads.        *)
(***************************************************************************)
EXTENDS Integers, Sequences, FiniteSets

CONSTANTS
    MaxCalls,           \* bound: calls of request(), by either end
    MaxTransports,      \* bound: transports the client opens
    IdLimit             \* the largest request id, 0x7fffffff in the code

ASSUME RequestsAssumption ==
    {MaxCalls, MaxTransports, IdLimit} \subseteq Nat \ {0}

Calls == 1 .. MaxCalls
Transports == 1 .. MaxTransports
Client == 0
Ends == {Client} \cup Transports
Ids == 1 .. IdLimit
None == 0

VARIABLES
    \* the calls
    stage,       \* how far a call of request() got
    owner,       \* the end that made it
    answer,      \* the call whose response settled it
    settled,     \* how often its resolve or reject was called
    \* each end
    nextRequestId, pendingRequests, timers, responders, jobs,
    locked,      \* sendQueue[0]
    waiting,     \* sendQueue[1], without the calls of send()
    \* the client's transport
    link, phase,
    \* the server's connections
    status,
    \* the wires
    toServer, toClient,
    \* history
    threw,       \* calls whose frame was refused by raw_send
    stuck,       \* ends whose queue a refused packet has left locked
    outlived     \* calls whose responder ended on a later transport

calls == <<stage, owner, answer, settled, threw>>
queue == <<locked, waiting, stuck>>
transport == <<link, phase>>
vars == <<calls, queue, nextRequestId, pendingRequests, timers, jobs, transport, status,
          responders, toServer, toClient, outlived>>

\* A call encodes as the one that found its queue free, or that was taken off it.
Unsent == {"queued", "encoding", "dequeued", "encoded"}
Done == {"resolved", "rejected"}
Stages == {"idle", "waiting", "hung"} \cup Unsent \cup Done
Phases == {"connecting", "up", "down", "ended"}
Statuses == {"none", "open", "closing", "closed"}

Requested(i, c) == [type |-> "request", id |-> i, call |-> c]
Responded(i, c, good) == [type |-> "response", id |-> i, call |-> c, ok |-> good]
Messages ==
         [type: {"request"}, id: Ids, call: Calls]
    \cup [type: {"response"}, id: Ids, call: Calls, ok: BOOLEAN]
Jobs == [at: Ends, on: Transports, id: Ids, call: Calls, step: {"middleware", "respond"}]
Timers == [end: Ends, id: Ids, call: Calls]

TypeOK ==
    /\ stage \in [Calls -> Stages]
    /\ owner \in [Calls -> Ends]
    /\ answer \in [Calls -> Calls \cup {None}]
    /\ settled \in [Calls -> 0 .. 2]
    /\ nextRequestId \in [Ends -> Ids]
    /\ pendingRequests \in [Ends -> [Ids -> Calls \cup {None}]]
    /\ timers \subseteq Timers
    /\ responders \subseteq Ends
    /\ jobs \subseteq Jobs
    /\ locked \in [Ends -> BOOLEAN] /\ waiting \in [Ends -> Seq(Calls)]
    /\ link \in Transports /\ phase \in Phases
    /\ status \in [Transports -> Statuses]
    /\ toServer \in [Transports -> Seq(Messages)]
    /\ toClient \in [Transports -> Seq(Messages)]
    /\ threw \subseteq Calls /\ outlived \subseteq Calls /\ stuck \subseteq Ends

Init ==
    /\ stage = [c \in Calls |-> "idle"]
    /\ owner = [c \in Calls |-> Client]
    /\ answer = [c \in Calls |-> None]
    /\ settled = [c \in Calls |-> 0]
    /\ nextRequestId = [e \in Ends |-> 1]
    /\ pendingRequests = [e \in Ends |-> [i \in Ids |-> None]]
    /\ timers = {}
    /\ responders = {}
    /\ jobs = {}
    /\ locked = [e \in Ends |-> FALSE] /\ waiting = [e \in Ends |-> <<>>]
    /\ link = 1 /\ phase = "connecting"
    /\ status = [t \in Transports |-> "none"]
    /\ toServer = [t \in Transports |-> <<>>]
    /\ toClient = [t \in Transports |-> <<>>]
    /\ threw = {} /\ outlived = {} /\ stuck = {}

-----------------------------------------------------------------------------
(* raw_send.  A connection over its outbound limit closes and throws; the  *)
(* server's rate limit closes without throwing; a socket that is not open  *)
(* any more swallows what it is given, one that is still connecting throws.*)

ServerSends(t, m, throws) ==
    /\ UNCHANGED <<toServer, transport>>
    /\ \/ /\ status[t] = "open" /\ ~throws
          /\ toClient' = [toClient EXCEPT ![t] = IF link = t /\ phase = "up"
                                                 THEN Append(@, m) ELSE @]
          /\ UNCHANGED status
       \/ /\ status[t] = "open"
          /\ status' = [status EXCEPT ![t] = "closing"]
          /\ throws \in BOOLEAN
          /\ UNCHANGED toClient
       \/ /\ status[t] # "open" /\ ~throws
          /\ UNCHANGED <<status, toClient>>

ClientSends(m, throws) ==
    /\ UNCHANGED <<toClient, status, link>>
    /\ \/ /\ phase = "up" /\ ~throws
          /\ toServer' = [toServer EXCEPT ![link] = IF status[link] = "closed"
                                                    THEN @ ELSE Append(@, m)]
          /\ UNCHANGED phase
       \/ /\ phase = "up" /\ throws       \* close() also ends reconnecting
          /\ phase' = "ended"
          /\ UNCHANGED toServer
       \/ /\ phase \in {"down", "ended"} /\ ~throws
          /\ UNCHANGED <<toServer, phase>>
       \/ /\ phase = "connecting" /\ throws
          /\ UNCHANGED <<toServer, phase>>

Sends(e, m, throws) ==
    IF e = Client THEN ClientSends(m, throws) ELSE ServerSends(e, m, throws)

-----------------------------------------------------------------------------
(* request() *)

\* The ids go round after IdLimit.
After(i) == IF i = IdLimit THEN 1 ELSE i + 1

Settle(c, how, whose) ==
    /\ stage' = [stage EXCEPT ![c] = IF @ \in Done THEN @ ELSE how]
    /\ answer' = [answer EXCEPT ![c] = IF stage[c] \in Done THEN @ ELSE whose]
    /\ settled' = [settled EXCEPT ![c] = @ + 1]

\* Up to `await processPacket`.  The tag is unknown, as every tag is to a client
\* before the schema handshake of its transport: the call rejects.  Otherwise it
\* waits for the queue, or takes it.
Request(e, c) ==
    /\ stage[c] = "idle" /\ (c > 1 => stage[c - 1] # "idle")
    /\ e # Client => status[e] # "none"
    /\ owner' = [owner EXCEPT ![c] = e]
    /\ \/ /\ Settle(c, "rejected", None)
          /\ UNCHANGED <<locked, waiting>>
       \/ /\ ~(e = Client /\ phase = "connecting") /\ locked[e]
          /\ stage' = [stage EXCEPT ![c] = "queued"]
          /\ waiting' = [waiting EXCEPT ![e] = Append(@, c)]
          /\ UNCHANGED <<answer, settled, locked>>
       \/ /\ ~(e = Client /\ phase = "connecting") /\ ~locked[e]
          /\ stage' = [stage EXCEPT ![c] = "encoding"]
          /\ locked' = [locked EXCEPT ![e] = TRUE]
          /\ UNCHANGED <<answer, settled, waiting>>
    /\ UNCHANGED <<threw, stuck, nextRequestId, pendingRequests, timers, jobs, transport,
                   status, responders, toServer, toClient, outlived>>

\* The packet is encoded, and the next call taken off the queue, or the queue
\* unlocked; the promise has yet to come back to request().
Encode(c) ==
    LET e == owner[c]
    IN  /\ stage[c] \in {"encoding", "dequeued"}
        /\ IF waiting[e] = <<>>
           THEN /\ locked' = [locked EXCEPT ![e] = FALSE]
                /\ stage' = [stage EXCEPT ![c] = "encoded"]
                /\ UNCHANGED waiting
           ELSE /\ waiting' = [waiting EXCEPT ![e] = Tail(@)]
                /\ stage' = [stage EXCEPT ![c] = "encoded", ![Head(waiting[e])] = "dequeued"]
                /\ UNCHANGED locked
        /\ UNCHANGED <<owner, answer, settled, threw, stuck, nextRequestId, pendingRequests,
                       timers, jobs, transport, status, responders, toServer, toClient,
                       outlived>>

\* The values are refused, and the queue stays locked.  The call rejects, but
\* not if it had waited: then its promise is never settled.
Refuse(c) ==
    /\ stage[c] \in {"encoding", "dequeued"}
    /\ IF stage[c] = "encoding"
       THEN Settle(c, "rejected", None)
       ELSE stage' = [stage EXCEPT ![c] = "hung"] /\ UNCHANGED <<answer, settled>>
    /\ stuck' = stuck \cup {owner[c]}
    /\ UNCHANGED <<owner, threw, locked, waiting, nextRequestId, pendingRequests, timers,
                   jobs, transport, status, responders, toServer, toClient, outlived>>

\* A call of send() shares the queue, and its values are refused.  Bound: this
\* happens once, before the first call of request().
SendRefused(e) ==
    /\ stuck = {} /\ stage[1] = "idle"
    /\ ~locked[e]
    /\ e = Client => phase # "connecting"
    /\ e # Client => status[e] # "none"
    /\ locked' = [locked EXCEPT ![e] = TRUE]
    /\ stuck' = stuck \cup {e}
    /\ UNCHANGED <<calls, waiting, nextRequestId, pendingRequests, timers, jobs, transport,
                   status, responders, toServer, toClient, outlived>>

\* The packet is over its rate limit, which also closes the server's connection.
OverRate(c) ==
    LET e == owner[c]
    IN  /\ stage[c] = "encoded" /\ e # Client
        /\ Settle(c, "rejected", None)
        /\ status' = [status EXCEPT ![e] = IF @ = "open" THEN "closing" ELSE @]
        /\ UNCHANGED <<owner, threw, queue, nextRequestId, pendingRequests, timers, jobs,
                       transport, responders, toServer, toClient, outlived>>

\* After the await: the id, the timer, the pending record and the frame.
\* 2^31 requests cannot be pending at once, so the id is free.
Issue(c) ==
    LET e == owner[c]
        id == nextRequestId[e]
    IN  /\ stage[c] = "encoded"
        /\ pendingRequests[e][id] = None
        /\ nextRequestId' = [nextRequestId EXCEPT ![e] = After(id)]
        /\ pendingRequests' = [pendingRequests EXCEPT ![e][id] = c]
        /\ timers' = timers \cup {[end |-> e, id |-> id, call |-> c]}
        /\ \E throws \in BOOLEAN :
              /\ Sends(e, Requested(id, c), throws)
              /\ IF throws
                 THEN /\ Settle(c, "rejected", None)
                      /\ threw' = threw \cup {c}
                 ELSE /\ stage' = [stage EXCEPT ![c] = "waiting"]
                      /\ UNCHANGED <<answer, settled, threw>>
        /\ UNCHANGED <<owner, queue, jobs, responders, outlived>>

\* The timer of a request; its callback knows the id and the promise.
Timeout(tm) ==
    /\ tm \in timers
    /\ timers' = timers \ {tm}
    /\ pendingRequests' = [pendingRequests EXCEPT ![tm.end][tm.id] = None]
    /\ Settle(tm.call, "rejected", None)
    /\ UNCHANGED <<owner, threw, queue, nextRequestId, jobs, transport, status, responders,
                   toServer, toClient, outlived>>

-----------------------------------------------------------------------------
(* handleControl *)

\* Faulty variant: a response does not stop the timer.
SettleTicking(e, m) ==
    LET c == pendingRequests[e][m.id]
    IN  IF c = None
        THEN UNCHANGED <<stage, answer, settled, timers, pendingRequests>>
        ELSE /\ pendingRequests' = [pendingRequests EXCEPT ![e][m.id] = None]
             /\ Settle(c, IF m.ok THEN "resolved" ELSE "rejected", m.call)
             /\ UNCHANGED timers

\* A response settles what is pending under its id, if anything is.
SettleResponse(e, m) ==
    LET c == pendingRequests[e][m.id]
    IN  IF c = None
        THEN UNCHANGED <<stage, answer, settled, timers, pendingRequests>>
        ELSE /\ timers' = {tm \in timers : ~(tm.end = e /\ tm.call = c)}
             /\ pendingRequests' = [pendingRequests EXCEPT ![e][m.id] = None]
             /\ Settle(c, IF m.ok THEN "resolved" ELSE "rejected", m.call)

\* The server's end of a connection begins to close: close() or socket.close.
Closing(t) == status' = [status EXCEPT ![t] = IF @ = "open" THEN "closing" ELSE @]

\* The server handles a frame, or refuses it: over a rate limit, before the
\* application handshake, or for a disabled packet, it closes instead.  Frames
\* under way when the connection began to close are still handled.
ServerReceives(t) ==
    LET m == Head(toServer[t])
        job == [at |-> t, on |-> t, id |-> m.id, call |-> m.call, step |-> "middleware"]
    IN  /\ status[t] \in {"open", "closing"}
        /\ toServer[t] # <<>>
        /\ toServer' = [toServer EXCEPT ![t] = Tail(@)]
        /\ \/ /\ Closing(t)
              /\ UNCHANGED <<stage, answer, settled, timers, pendingRequests, jobs>>
           \/ /\ m.type = "response"
              /\ SettleResponse(t, m)
              /\ UNCHANGED <<status, jobs>>
           \/ /\ m.type = "request"
              /\ jobs' = jobs \cup {job}
              /\ UNCHANGED <<stage, answer, settled, timers, pendingRequests, status>>
        /\ UNCHANGED <<owner, threw, queue, nextRequestId, transport, responders, toClient,
                       outlived>>

\* The client handles a frame; it looks the responder up at once, and answers
\* a request without one with an error.
ClientReceives ==
    LET m == Head(toClient[link])
        job == [at |-> Client, on |-> link, id |-> m.id, call |-> m.call, step |-> "respond"]
    IN  /\ phase = "up"
        /\ toClient[link] # <<>>
        /\ toClient' = [toClient EXCEPT ![link] = Tail(@)]
        /\ \/ /\ m.type = "response"
              /\ SettleResponse(Client, m)
              /\ UNCHANGED <<jobs, toServer>>
           \/ /\ m.type = "request" /\ Client \in responders
              /\ jobs' = jobs \cup {job}
              /\ UNCHANGED <<stage, answer, settled, timers, pendingRequests, toServer>>
           \/ /\ m.type = "request" /\ Client \notin responders
              /\ toServer' = [toServer EXCEPT ![link] =
                                IF status[link] = "closed" THEN @
                                ELSE Append(@, Responded(m.id, m.call, FALSE))]
              /\ UNCHANGED <<stage, answer, settled, timers, pendingRequests, jobs>>
        /\ UNCHANGED <<owner, threw, queue, nextRequestId, transport, status, responders,
                       outlived>>

\* The server's middleware let the request pass: only now is the responder
\* looked up; then the payload is decoded and the responder called.
Admit(j) ==
    /\ j \in jobs /\ j.step = "middleware" /\ j.at \in responders
    /\ jobs' = (jobs \ {j}) \cup {[j EXCEPT !.step = "respond"]}
    /\ UNCHANGED <<calls, queue, nextRequestId, pendingRequests, timers, transport, status,
                   responders, toServer, toClient, outlived>>

\* A responder returned or threw, middleware or the decoder refused, or the
\* server has no responder: one response, on the transport of now.
Respond(j) ==
    /\ j \in jobs
    /\ jobs' = jobs \ {j}
    /\ \E good \in BOOLEAN, throws \in BOOLEAN :
          /\ good => j.step = "respond"
          /\ Sends(j.at, Responded(j.id, j.call, good), throws)
    /\ outlived' = IF j.at = Client /\ j.on # link THEN outlived \cup {j.call} ELSE outlived
    /\ UNCHANGED <<calls, queue, nextRequestId, pendingRequests, timers, responders>>

-----------------------------------------------------------------------------
(* Transports *)

\* The schema handshake is done at both ends.
Connect ==
    /\ phase = "connecting"
    /\ phase' = "up"
    /\ status' = [status EXCEPT ![link] = "open"]
    /\ UNCHANGED <<calls, queue, nextRequestId, pendingRequests, timers, jobs, link, responders,
                   toServer, toClient, outlived>>

\* The client's close event, or its own close().  Pending requests stay.  A
\* transport lost before the schema handshake is not replaced.
Lose ==
    /\ phase # "ended"
    /\ phase' \in (IF phase = "up" THEN {"down", "ended"} ELSE {"ended"})
    /\ toClient' = [toClient EXCEPT ![link] = <<>>]
    /\ UNCHANGED <<calls, queue, nextRequestId, pendingRequests, timers, jobs, link, status,
                   responders, toServer, outlived>>

\* Faulty variant: reconnecting forgets the pending requests and their timers.
ReconnectAfresh ==
    /\ phase = "down" /\ link < MaxTransports
    /\ phase' = "connecting" /\ link' = link + 1
    /\ pendingRequests' = [pendingRequests EXCEPT ![Client] = [i \in Ids |-> None]]
    /\ timers' = {tm \in timers : tm.end # Client}
    /\ UNCHANGED <<calls, queue, nextRequestId, jobs, status, responders, toServer, toClient,
                   outlived>>

\* beginReconnect: neither ids nor pending requests nor responders are reset.
Reconnect ==
    /\ phase = "down" /\ link < MaxTransports
    /\ phase' = "connecting" /\ link' = link + 1
    /\ UNCHANGED <<calls, queue, nextRequestId, pendingRequests, timers, jobs, status, responders,
                   toServer, toClient, outlived>>

\* The server's close event; frames it has not read are gone.
CloseEvent(t) ==
    /\ status[t] \in {"open", "closing"}
    /\ status[t] = "closing" \/ link # t \/ phase # "up"
    /\ status' = [status EXCEPT ![t] = "closed"]
    /\ toServer' = [toServer EXCEPT ![t] = <<>>]
    /\ UNCHANGED <<calls, queue, nextRequestId, pendingRequests, timers, jobs, transport,
                   responders, toClient, outlived>>

\* respond(): a server connection registers its own responders.
RegisterResponder(e) ==
    /\ e \notin responders
    /\ e \in {Client} \cup {t \in Transports : status[t] = "open"}
    /\ responders' = responders \cup {e}
    /\ UNCHANGED <<calls, queue, nextRequestId, pendingRequests, timers, jobs, transport,
                   status, toServer, toClient, outlived>>

\* The server's application closes a connection.
Close(t) ==
    /\ status[t] = "open"
    /\ Closing(t)
    /\ UNCHANGED <<calls, queue, nextRequestId, pendingRequests, timers, jobs, transport,
                   responders, toServer, toClient, outlived>>

Next ==
    \/ \E c \in Calls : (\E e \in Ends : Request(e, c)) \/ Encode(c) \/ Refuse(c)
                        \/ OverRate(c) \/ Issue(c)
    \/ \E tm \in timers : Timeout(tm)
    \/ \E t \in Transports : ServerReceives(t) \/ Close(t) \/ CloseEvent(t)
    \/ ClientReceives
    \/ \E j \in jobs : Admit(j) \/ Respond(j)
    \/ Connect \/ Lose \/ Reconnect
    \/ \E e \in Ends : RegisterResponder(e) \/ SendRefused(e)

\* Timers run, an encoder ends, and a settled promise comes back.  Nothing else
\* has to happen: transports and responders may hang.
Fairness ==
    \A c \in Calls :
        /\ WF_vars(Encode(c) \/ Refuse(c) \/ OverRate(c) \/ Issue(c))
        /\ WF_vars(\E tm \in timers : tm.call = c /\ Timeout(tm))

Spec == Init /\ [][Next]_vars /\ Fairness

-----------------------------------------------------------------------------
(* Properties *)

\* Response, timeout and a refused frame race for one promise: unless its frame
\* was refused, a request is settled by one of them only; and by the response to
\* it, although late responses meet ids of later requests and frames of a dead
\* transport meet a new one.  The exception is a responder of the client that
\* outlives its transport: it answers on the next one, whose server connection
\* numbers from 1 again.
OwnAnswerOnce ==
    \A c \in Calls :
        /\ c \notin threw => settled[c] <= 1
        /\ answer[c] \notin {None, c} =>
              /\ answer[c] \in outlived
              /\ Client < owner[answer[c]] /\ owner[answer[c]] < owner[c]

\* Every request ends, whatever becomes of the transport it went out on, unless
\* its end's queue stays locked while it waits there, or as it is refused after
\* it had waited: then nothing settles it, and it has no timer yet.
EveryCallSettles ==
    \A c \in Calls :
        stage[c] \in Unsent \cup {"waiting"} ~>
            \/ stage[c] \in Done
            \/ stage[c] \in {"queued", "hung"} /\ owner[c] \in stuck

=============================================================================
