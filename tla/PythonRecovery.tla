---------------------------- MODULE PythonRecovery -----------------------------
(***************************************************************************)
(* Connection-state recovery in the Python runtime: client.py, whose reader*)
(* task reconnects in a loop, and server.py, where the handler task of a   *)
(* connection awaits hooks, policies and sockets between its steps.        *)
(*                                                                         *)
(* Connections are numbered in the order of their acceptance, and a session*)
(* has the number of the connection it was created for.  stage[c] is the   *)
(* await at which the handler task of connection c is suspended; a "leaked"*)
(* connection is one whose task ended without removing it.  Time is        *)
(* abstract: a session whose deadline is set (`expiring`) expires some     *)
(* time.  Sequence 0 marks a frame that was sent unnumbered.  Ids, the     *)
(* adapter and the application's state are left out.                       *)
(*                                                                         *)
(* `odd` is a history variable: the events under which recovery guarantees *)
(* less, so that a property can say which of them it depends on.           *)
(***************************************************************************)
EXTENDS Integers, Sequences, FiniteSets, SequencesExt

CONSTANTS
    MaxConns,     \* bound: connections the server accepts
    MaxSends,     \* bound: replayable packets the application sends
    MaxPackets,   \* recovery max_packets, the capacity of a session's buffer
    Attempts      \* reconnect attempts

ASSUME PythonRecoveryAssumption ==
    /\ {MaxConns, MaxSends} \subseteq Nat \ {0}
    /\ {MaxPackets, Attempts} \subseteq Nat

Conns == 1 .. MaxConns
None == 0

VARIABLES
    \* the server
    stage,           \* of the handler task of a connection
    open,            \* connections whose socket is open
    sessionOf,       \* connection.session_id
    session,         \* in the sessions map (alive), sequence, frames, expiring
    request,         \* the RESUME frame of a connection that is not answered yet
    todo,            \* the replay under way on a connection
    \* the client
    link,            \* the connection of its socket, or None
    phase,           \* where the reader task is
    attempt,         \* _reconnect_attempt
    closed,          \* _closed
    intentionalClose,
    sessionId,       \* None until the first schema handshake
    pendingResume,   \* _pending_resume_session
    last,            \* last_replay_sequence
    inbox,           \* frames on the way to the client
    \* history
    sent, delivered, odd

resume == <<request, todo>>
server == <<stage, open, sessionOf, session, resume>>
transport == <<link, phase, attempt, closed, intentionalClose>>
identity == <<sessionId, pendingResume, last>>
history == <<sent, delivered, odd>>
client == <<transport, identity, inbox, history>>
vars == <<server, client>>

Stages == {"none", "admitting", "greeting", "serving", "authorizing", "replaying",
           "closing", "gone", "leaked"}
Phases == {"dialing", "handshake", "reading", "backoff", "ended", "broken"}
Oddities == {"earlySend", "earlyLoss", "staleSend", "overtaken", "staleOwner"}
Frames == [session: Conns, sequence: 0 .. MaxSends]

Schema(s) == [type |-> "schema", session |-> s]
Data(f) == [type |-> "frame", frame |-> f]
Resumed(ok) == [type |-> "resumed", recovered |-> ok]

Init ==
    /\ stage = [c \in Conns |-> "none"]
    /\ open = {}
    /\ sessionOf = [c \in Conns |-> None]
    /\ session = [s \in Conns |-> [alive |-> FALSE, sequence |-> 0, frames |-> <<>>,
                                   expiring |-> FALSE]]
    /\ request = [c \in Conns |-> <<>>]
    /\ todo = [c \in Conns |-> <<>>]
    /\ link = None /\ phase = "dialing" /\ attempt = 0
    /\ closed = FALSE /\ intentionalClose = FALSE
    /\ sessionId = None /\ pendingResume = None /\ last = 0 /\ inbox = <<>>
    /\ sent = 0 /\ delivered = <<>> /\ odd = {}

Accepted == {c \in Conns : sessionOf[c] # None}
\* The members of server.connections.
Registered == {c \in Conns : stage[c] \notin {"none", "gone"}}
\* A connection whose session another one has taken over since.
Superseded(c) == \E d \in Accepted : d > c /\ sessionOf[d] = sessionOf[c]

\* The handler task of c gets from one await to the next.
Goes(c, from, to) ==
    /\ stage[c] \in from
    /\ stage' = [stage EXCEPT ![c] = to]
    /\ UNCHANGED <<sessionOf, session, resume, client>>

-----------------------------------------------------------------------------
(* The server: from the socket to the run loop *)

\* socket.send: what is written on a socket whose client has left it is lost.
Push(c, msg) == inbox' = IF link = c /\ c \in open THEN Append(inbox, msg) ELSE inbox

\* _accept up to the await of onClientConnect: a session, and a connection
\* that broadcasts already reach.
Accept ==
    LET c == Cardinality(Accepted) + 1
    IN  /\ c \in Conns
        /\ stage' = [stage EXCEPT ![c] = "admitting"]
        /\ open' = open \cup {c}
        /\ sessionOf' = [sessionOf EXCEPT ![c] = c]
        /\ session' = [session EXCEPT ![c].alive = TRUE]
        /\ link' = c
        /\ phase' = "handshake"
        /\ UNCHANGED <<request, todo>>

\* onClientConnect cancels: closed, removed, and its session given up.
Reject(c) ==
    /\ stage[c] = "admitting"
    /\ stage' = [stage EXCEPT ![c] = "gone"]
    /\ open' = open \ {c}
    /\ session' = [session EXCEPT ![c].alive = FALSE]
    /\ UNCHANGED <<sessionOf, resume, client>>

\* The schema handshake goes out.  On a socket that was closed meanwhile the
\* send raises, and the handler ends without removing the connection.
Greet(c) ==
    /\ stage[c] = "admitting"
    /\ stage' = [stage EXCEPT ![c] = IF c \in open THEN "greeting" ELSE "leaked"]
    /\ Push(c, Schema(c))
    /\ UNCHANGED <<open, sessionOf, session, resume, transport, identity, history>>

\* The connect listeners return, and run() starts to read.
Serve(c) == Goes(c, {"greeting"}, "serving") /\ UNCHANGED open

\* A connect listener raises before run(), or a close listener before _remove.
ListenerRaises(c) == Goes(c, {"greeting", "closing"}, "leaked") /\ open' = open \ {c}

\* The socket of a connection is closed, by either side or by the network.
SocketCloses(c) ==
    /\ c \in open
    /\ open' = open \ {c}
    /\ UNCHANGED <<stage, sessionOf, session, resume, client>>

\* The read loop of run() ends, with the socket or because a listener of raw
\* messages or the policy raised; its finally block awaits the close hooks.
ServingEnds(c) == Goes(c, {"serving", "authorizing"}, "closing") /\ UNCHANGED open

\* What _remove does to a session that is still in the map.
Leaves(s) ==
    session' = IF session[s].alive THEN [session EXCEPT ![s].expiring = TRUE] ELSE session

\* _remove.  It asks for the session by name, and does not see whether a later
\* connection has resumed it.
RemoveConnection(c) ==
    /\ stage[c] = "closing"
    /\ stage' = [stage EXCEPT ![c] = "gone"]
    /\ open' = open \ {c}
    /\ Leaves(sessionOf[c])
    /\ odd' = IF Superseded(c) THEN odd \cup {"staleOwner"} ELSE odd
    /\ UNCHANGED <<sessionOf, resume, transport, identity, inbox, sent,
                   delivered>>

\* _expire_session, when the deadline of the last _remove has passed.
Expire(s) ==
    /\ session[s].alive /\ session[s].expiring
    /\ session' = [session EXCEPT ![s].alive = FALSE]
    /\ UNCHANGED <<stage, open, sessionOf, resume, client>>

-----------------------------------------------------------------------------
(* The server: replayable frames and their recovery *)

\* A buffer of n frames is left as it is: 0 is no limit, as `frames[:-0]` is empty.
Fits(n) == MaxPackets # 0 => n <= MaxPackets

\* replay_frame keeps the newest MaxPackets frames.
Keep(frames) ==
    SubSeq(frames, 1 + (IF Fits(Len(frames)) THEN 0 ELSE Len(frames) - MaxPackets),
           Len(frames))

\* The client judges frames of this connection by the counter of a session the
\* connection does not have, or not yet.
Undecided(c) ==
    /\ c = link /\ sessionOf[c] = c
    /\ \/ phase = "handshake" /\ sessionId # None
       \/ pendingResume # None

\* send_processed of a replayable packet, to a connection the application holds:
\* one that is gone still records, and a broadcast reaches one not yet admitted.
Send(c) ==
    LET s == sessionOf[c]
        f == [session |-> s, sequence |-> session[s].sequence + 1]
    IN  /\ c \in Accepted
        /\ sent < MaxSends
        /\ sent' = sent + 1
        /\ IF session[s].alive
           THEN /\ session' = [session EXCEPT ![s].sequence = f.sequence,
                                              ![s].frames = Keep(Append(@, f))]
                /\ Push(c, Data(f))
           ELSE /\ Push(c, Data([f EXCEPT !.sequence = 0]))
                /\ UNCHANGED session
        /\ odd' = odd \cup (IF Undecided(c) THEN {"earlySend"} ELSE {})
                      \cup (IF Superseded(c) THEN {"staleSend"} ELSE {})
                      \cup (IF todo[c] # <<>> THEN {"overtaken"} ELSE {})
        /\ UNCHANGED <<stage, open, sessionOf, resume, transport, identity,
                       delivered>>

\* resume_session up to the await of the policy; without the session it answers.
ReceiveResume(c) ==
    /\ request[c] # <<>> /\ session[request[c][1].session].alive
    /\ Goes(c, {"serving"}, "authorizing")
    /\ UNCHANGED open

\* The session is unknown or past its deadline, or the policy refuses.  Sending
\* the answer on a closed socket raises and ends run().
Refuse(c) ==
    /\ request[c] # <<>>
    /\ LET s == session[request[c][1].session]
       IN  stage[c] = "authorizing" \/ (stage[c] = "serving" /\ (~s.alive \/ s.expiring))
    /\ stage' = [stage EXCEPT ![c] = IF c \in open THEN "serving" ELSE "closing"]
    /\ request' = [request EXCEPT ![c] = <<>>]
    /\ Push(c, Resumed(FALSE))
    /\ UNCHANGED <<open, sessionOf, session, todo, transport, identity, history>>

\* The buffer is numbered without gaps, so the frames beyond a number are those
\* from this position on.
FirstAfter(frames, seen) ==
    CHOOSE i \in 1 .. Len(frames) + 1 :
        \A j \in DOMAIN frames : frames[j].sequence > seen <=> j >= i

\* Faulty variant: the client's last frame taken for the next one it expects.
MissingAfterNext(frames, seen) == SubSeq(frames, FirstAfter(frames, seen + 1), Len(frames))

Missing(frames, seen) == SubSeq(frames, FirstAfter(frames, seen), Len(frames))

\* Faulty variant: a resumed session keeps its deadline.
TakesKeepingDeadline(c, s) ==
    session' = [[session EXCEPT ![sessionOf[c]].alive = FALSE] EXCEPT ![s].alive = TRUE]

\* The session the connection had is dropped, and the old one is put (back) into
\* the map without a deadline.
Takes(c, s) ==
    session' = [[session EXCEPT ![sessionOf[c]].alive = FALSE]
                    EXCEPT ![s].alive = TRUE, ![s].expiring = FALSE]

\* resume_session from the policy's consent to the first await of the replay.
Resume(c) ==
    /\ stage[c] = "authorizing"
    /\ LET s == request[c][1].session
       IN  /\ Takes(c, s)
           /\ sessionOf' = [sessionOf EXCEPT ![c] = s]
           /\ todo' = [todo EXCEPT ![c] = Missing(session[s].frames, request[c][1].last)]
    /\ request' = [request EXCEPT ![c] = <<>>]
    /\ stage' = [stage EXCEPT ![c] = "replaying"]
    /\ odd' = IF Superseded(c) THEN odd \cup {"staleOwner"} ELSE odd
    /\ UNCHANGED <<open, transport, identity, inbox, sent, delivered>>

\* One frame of the replay, or RESUMED after the last one.  A closed socket and
\* a recovery listener that raises end run().
Replay(c) ==
    /\ stage[c] = "replaying"
    /\ IF c \in open /\ todo[c] # <<>>
       THEN /\ Push(c, Data(Head(todo[c])))
            /\ todo' = [todo EXCEPT ![c] = Tail(@)]
            /\ UNCHANGED stage
       ELSE /\ Push(c, Resumed(TRUE))
            /\ todo' = [todo EXCEPT ![c] = <<>>]
            /\ \E next \in IF c \in open THEN {"serving", "closing"} ELSE {"closing"} :
                  stage' = [stage EXCEPT ![c] = next]
    /\ UNCHANGED <<open, sessionOf, session, request, transport, identity, history>>

-----------------------------------------------------------------------------
(* The client: the loop of its reader task *)

\* Faulty variant: an attempt counts once its transport is there.
RetryUncounted ==
    IF attempt >= Attempts
    THEN phase' = "ended" /\ closed' = TRUE /\ UNCHANGED attempt
    ELSE phase' = "backoff" /\ UNCHANGED <<attempt, closed>>

\* The top of the reconnect loop: one more attempt, or _shutdown.
Retry ==
    IF attempt >= Attempts
    THEN phase' = "ended" /\ closed' = TRUE /\ UNCHANGED attempt
    ELSE phase' = "backoff" /\ attempt' = attempt + 1 /\ UNCHANGED closed

\* _run_transport returned or raised.  Before the first schema, after close() and
\* after a close code of 1000 (`final`) the client ends; the old socket is left as
\* it is, so that the server may go on regarding it as open.
Transport(final) ==
    /\ link' = None
    /\ inbox' = <<>>
    /\ IF sessionId = None \/ intentionalClose \/ final
       THEN phase' = "ended" /\ closed' = TRUE /\ UNCHANGED attempt
       ELSE Retry
    /\ UNCHANGED intentionalClose

Connect ==
    /\ phase = "dialing"
    /\ Accept
    /\ UNCHANGED <<attempt, closed, intentionalClose, identity, inbox, history>>

\* Faulty variant: a new transport counts its frames from the beginning.
ReconnectForgetsSequence ==
    /\ phase = "backoff"
    /\ Accept
    /\ closed' = FALSE
    /\ last' = 0
    /\ UNCHANGED <<attempt, intentionalClose, sessionId, pendingResume, inbox, history>>

\* The delay is over and connect() returns; nobody looks at _intentional_close.
Reconnect ==
    /\ phase = "backoff"
    /\ Accept
    /\ closed' = FALSE
    /\ UNCHANGED <<attempt, intentionalClose, identity, inbox, history>>

ReconnectFails ==
    /\ phase = "backoff"
    /\ Retry
    /\ UNCHANGED <<server, link, intentionalClose, identity, inbox, history>>

\* A close or reconnecting listener raises, outside of any try: the reader task
\* is at its end without _shutdown.
ReaderRaises ==
    /\ phase = "backoff"
    /\ phase' = "broken"
    /\ UNCHANGED <<server, link, attempt, closed, intentionalClose, identity, inbox, history>>

\* The socket is lost or closed, or handling a message raised.
TransportEnds(final) ==
    /\ phase \in {"handshake", "reading"}
    /\ Transport(final)
    /\ odd' = IF pendingResume # None THEN odd \cup {"earlyLoss"} ELSE odd
    /\ UNCHANGED <<server, identity, sent, delivered>>

Arrives(type) == inbox # <<>> /\ Head(inbox).type = type

\* _run_transport on the schema: the session becomes the new one, and the one
\* before is presented.  If that send raises, the transport is at its end.
ReceiveSchema ==
    /\ phase = "handshake" /\ Arrives("schema")
    /\ sessionId' = Head(inbox).session
    /\ pendingResume' = IF sessionId # None THEN sessionId ELSE pendingResume
    /\ \/ /\ phase' = "reading"
          /\ attempt' = 0
          /\ inbox' = Tail(inbox)
          /\ request' = IF sessionId # None /\ link \in open
                        THEN [request EXCEPT ![link] = <<[session |-> sessionId, last |-> last]>>]
                        ELSE request
          /\ UNCHANGED <<link, closed, intentionalClose, odd>>
       \/ /\ sessionId # None
          /\ \E final \in BOOLEAN : Transport(final)
          /\ odd' = odd \cup {"earlyLoss"}
          /\ UNCHANGED request
    /\ UNCHANGED <<stage, open, sessionOf, session, todo, last, sent, delivered>>

\* Any other first message is not from a SonicWS server.
RefuseTransport ==
    /\ phase = "handshake" /\ Arrives("frame")
    /\ Transport(FALSE)
    /\ UNCHANGED <<server, identity, history>>

\* A REPLAY frame is dropped if its sequence is not new; a closed client counts
\* frames without handing them to listeners.
ReceiveFrame ==
    /\ phase = "reading" /\ Arrives("frame")
    /\ LET f == Head(inbox).frame
           fresh == f.sequence = 0 \/ f.sequence > last
       IN  /\ last' = IF f.sequence > last THEN f.sequence ELSE last
           /\ delivered' = IF fresh /\ ~closed THEN Append(delivered, f) ELSE delivered
    /\ inbox' = Tail(inbox)
    /\ UNCHANGED <<server, transport, sessionId, pendingResume, sent, odd>>

ReceiveResumed ==
    /\ phase = "reading" /\ Arrives("resumed")
    /\ sessionId' = IF Head(inbox).recovered /\ pendingResume # None
                    THEN pendingResume ELSE sessionId
    /\ pendingResume' = None
    /\ last' = IF Head(inbox).recovered THEN last ELSE 0
    /\ inbox' = Tail(inbox)
    /\ UNCHANGED <<server, transport, history>>

\* close() by the application, or by connect() when the schema is late.
Close ==
    /\ phase # "dialing" /\ ~intentionalClose
    /\ intentionalClose' = TRUE
    /\ closed' = TRUE
    /\ UNCHANGED <<server, link, phase, attempt, identity, inbox, history>>

-----------------------------------------------------------------------------
Next ==
    \/ \E c \in Conns :
          \/ Reject(c) \/ Greet(c) \/ Serve(c) \/ ListenerRaises(c)
          \/ SocketCloses(c) \/ ServingEnds(c) \/ RemoveConnection(c) \/ Expire(c)
          \/ Send(c) \/ ReceiveResume(c) \/ Refuse(c) \/ Resume(c) \/ Replay(c)
    \/ Connect \/ Reconnect \/ ReconnectFails \/ ReaderRaises
    \/ \E final \in BOOLEAN : TransportEnds(final)
    \/ ReceiveSchema \/ RefuseTransport \/ ReceiveFrame \/ ReceiveResumed
    \/ Close

Spec == Init /\ [][Next]_vars

\* The server admits or rejects, messages that arrived are handled, the end of a
\* socket is noticed, and delays pass.
Fairness ==
    /\ \A c \in Conns : WF_vars(Greet(c) \/ Reject(c))
    /\ WF_vars(ReceiveSchema \/ RefuseTransport)
    /\ WF_vars(link \notin open /\ TransportEnds(FALSE))
    /\ WF_vars(Reconnect \/ ReconnectFails)

FairSpec == Spec /\ Fairness

-----------------------------------------------------------------------------
(* Properties *)

TypeOK ==
    /\ stage \in [Conns -> Stages]
    /\ open \subseteq Conns
    /\ sessionOf \in [Conns -> Conns \cup {None}]
    /\ \A s \in Conns : /\ {session[s].alive, session[s].expiring} \subseteq BOOLEAN
                        /\ session[s].sequence \in 0 .. MaxSends
                        /\ session[s].frames \in Seq(Frames)
                        /\ Fits(Len(session[s].frames))
    /\ \A c \in Conns : Len(request[c]) <= 1 /\ todo[c] \in Seq(Frames)
    /\ link \in Conns \cup {None}
    /\ phase \in Phases
    /\ attempt \in 0 .. Attempts
    /\ {closed, intentionalClose} \subseteq BOOLEAN
    /\ {sessionId, pendingResume} \subseteq Conns \cup {None}
    /\ last \in 0 .. MaxSends
    /\ sent \in 0 .. MaxSends
    /\ delivered \in Seq(Frames)
    /\ odd \subseteq Oddities

\* The retained frames that the client never got: it believes to have them, or it
\* has an open socket and they are not on their way.
Missed ==
    {f \in ToSet(session[sessionId].frames) \ ToSet(delivered) :
        f.sequence <= last \/ (link \in open /\ Data(f) \notin ToSet(inbox))}

Settled ==
    phase = "reading" /\ pendingResume = None /\ ~closed /\ session[sessionId].alive

\* resume_session and the client's sequence check together deliver all that was
\* retained, as long as one counter follows one session, and no frame is sent
\* between two frames of a replay (server.py:643 awaits each of them).
ReplayComplete ==
    odd \ {"staleOwner"} = {} /\ Settled => Missed = {}

\* The application never sees a frame of a session twice or out of order, over
\* any number of transports; frames that the client judges by the counter of
\* another session are the exception.
DeliveredInOrder ==
    "earlySend" \notin odd =>
        \A i, j \in DOMAIN delivered :
            i < j /\ delivered[i].session = delivered[j].session
                  /\ delivered[i].sequence * delivered[j].sequence # 0
            => delivered[i].sequence < delivered[j].sequence

\* A session is in the map without a deadline if and only if it has a connection:
\* one that is served keeps the session it resumed last, unless a connection that
\* had lost the session gave it up (server.py:578, :633); and a session that has
\* none expires, whatever is resumed, refused, expired or rejected in between.
SessionFollowsOwner ==
    LET Kept(s) == session[s].alive /\ ~session[s].expiring
    IN  /\ \A s \in Conns : Kept(s) => \E c \in Registered : sessionOf[c] = s
        /\ "staleOwner" \notin odd =>
              \A c \in Registered :
                  ~Superseded(c) /\ stage[c] # "leaked" => Kept(sessionOf[c])

\* A client that lost its transport gets another, or ends once the attempts are
\* used up, or a listener raised; a transport that fails before the schema counts
\* as an attempt.
RetriesUntilExhausted == phase = "backoff" ~> phase \in {"reading", "ended", "broken"}
=============================================================================
