---------------------------- MODULE SessionRecovery ----------------------------
(***************************************************************************)
(* Connection-state recovery between one TypeScript client and its server: *)
(* ClientCore.ts reconnects after a lost transport, presents the session   *)
(* it had, and SonicWSServer.ts replays the frames the session buffered.   *)
(*                                                                         *)
(* Connections are numbered in the order the server accepts them, and the  *)
(* session a connection is given has its number.  A replayable frame is    *)
(* named by its session and its sequence number; sequence 0 stands for a   *)
(* frame sent when the connection had no session, which is not buffered.   *)
(* The two ends notice the end of a transport at different times: the      *)
(* server may regard a connection as open long after the client lost it.   *)
(*                                                                         *)
(* `odd` is a history variable.  It collects the events under which        *)
(* recovery gives weaker guarantees, so that a property can say which of   *)
(* them it depends on.                                                     *)
(***************************************************************************)
EXTENDS Integers, Sequences, FiniteSets, SequencesExt

CONSTANTS
    MaxConns,     \* bound: connections the server accepts
    MaxSends,     \* bound: replayable packets the application sends
    MaxPackets,   \* recovery.maxPackets, the capacity of a session's buffer
    Attempts      \* reconnect.attempts

ASSUME RecoveryAssumption ==
    /\ {MaxConns, MaxSends} \subseteq Nat \ {0}
    /\ {MaxPackets, Attempts} \subseteq Nat

Conns == 1 .. MaxConns
None == 0

VARIABLES
    \* the server
    open,            \* connections whose close event has not run
    sessionOf,       \* connection.sessionId
    session,         \* the sessions map: alive (in the map), sequence, frames
    resume,          \* the RESUME frame under way on a connection, if any
    \* the client
    link,            \* the accepted connection of its transport, or None
    phase,           \* what reconnect handling is doing
    attempt,         \* reconnectAttempt
    closed,          \* Connection.closed
    intentionalClose,
    sessionId,       \* None until the first schema handshake
    pendingResumeSession,
    lastReplaySequence,
    inbox,           \* frames on the way to the client
    listenLock,      \* the serial lane: its lock,
    packetQueue,     \* its queue,
    running,         \* and the handler that holds it, as a sequence of length <= 1
    \* history
    sent, delivered, dropped, odd,
    lateTimer        \* was a timer armed after a reconnecting listener called close()

server == <<open, sessionOf, session, resume>>
transport == <<link, phase, attempt, closed, intentionalClose, lateTimer>>
identity == <<sessionId, pendingResumeSession, lastReplaySequence>>
lane == <<listenLock, packetQueue, running, delivered, dropped>>
vars == <<server, transport, identity, inbox, lane, sent, odd>>

Frames == [session: Conns, sequence: 0 .. MaxSends]
Messages ==
         [type: {"schema"}, session: Conns]
    \cup [type: {"frame"}, frame: Frames]
    \cup [type: {"resumed"}, recovered: BOOLEAN, replayed: 0 .. MaxSends]
Phases == {"connecting", "ready", "waiting", "failed", "ended", "broken"}
Oddities == {"earlySend", "earlyLoss", "staleSend", "busyLoss", "listenerThrew"}

Schema(s) == [type |-> "schema", session |-> s]
Data(f) == [type |-> "frame", frame |-> f]
Resumed(ok, n) == [type |-> "resumed", recovered |-> ok, replayed |-> n]

NoSession == [alive |-> FALSE, sequence |-> 0, frames |-> <<>>]

Init ==
    /\ open = {}
    /\ sessionOf = [c \in Conns |-> None]
    /\ session = [s \in Conns |-> NoSession]
    /\ resume = [c \in Conns |-> <<>>]
    /\ link = None
    /\ phase = "connecting"
    /\ attempt = 0
    /\ closed = FALSE
    /\ intentionalClose = FALSE
    /\ sessionId = None
    /\ pendingResumeSession = None
    /\ lastReplaySequence = 0
    /\ inbox = <<>>
    /\ listenLock = FALSE
    /\ packetQueue = <<>>
    /\ running = <<>>
    /\ sent = 0
    /\ delivered = <<>>
    /\ dropped = {}
    /\ odd = {}
    /\ lateTimer = FALSE

-----------------------------------------------------------------------------
(* The server *)

Accepted == {c \in Conns : sessionOf[c] # None}

\* socket.send: what is written on a transport that is gone is lost.
Push(c, msgs) == inbox' = IF link = c /\ c \in open THEN inbox \o msgs ELSE inbox

\* The connection event: a session, and the schema handshake.
Accept ==
    LET c == Cardinality(Accepted) + 1
    IN  /\ c \in Conns
        /\ phase = "connecting" /\ link = None /\ ~closed
        /\ open' = open \cup {c}
        /\ sessionOf' = [sessionOf EXCEPT ![c] = c]
        /\ session' = [session EXCEPT ![c] = [NoSession EXCEPT !.alive = TRUE]]
        /\ link' = c
        /\ inbox' = <<Schema(c)>>
        /\ UNCHANGED <<resume, phase, attempt, closed, intentionalClose, lateTimer,
                       identity, lane, sent, odd>>

\* replayFrame keeps the newest MaxPackets frames.
Keep(frames) ==
    SubSeq(frames, 1 + (IF Len(frames) > MaxPackets THEN Len(frames) - MaxPackets ELSE 0),
           Len(frames))

\* A connection whose client has a session to resume and no answer yet.
Undecided(c) ==
    /\ c = link
    /\ \/ phase = "connecting" /\ sessionId # None
       \/ pendingResumeSession # None
\* A connection whose session was taken over by a later one.
Superseded(c) == \E d \in Accepted : d > c /\ sessionOf[d] = sessionOf[c]

\* send_processed of a replay packet, on a connection the application holds;
\* a closed one still records into its session.
Send(c) ==
    LET s == sessionOf[c]
        f == [session |-> s, sequence |-> session[s].sequence + 1]
    IN  /\ c \in Accepted
        /\ sent < MaxSends
        /\ sent' = sent + 1
        /\ IF session[s].alive
           THEN /\ session' = [session EXCEPT ![s].sequence = f.sequence,
                                              ![s].frames = Keep(Append(@, f))]
                /\ Push(c, <<Data(f)>>)
           ELSE /\ Push(c, <<Data([f EXCEPT !.sequence = 0])>>)
                /\ UNCHANGED session
        /\ odd' = odd \cup (IF Undecided(c) THEN {"earlySend"} ELSE {})
                      \cup (IF Superseded(c) THEN {"staleSend"} ELSE {})
        /\ UNCHANGED <<open, sessionOf, resume, transport, identity, lane>>

\* The buffer is numbered without gaps, so frames.filter(sequence > last) keeps
\* what stands from this position on.
FirstAfter(frames, last) ==
    CHOOSE i \in 1 .. Len(frames) + 1 :
        \A j \in DOMAIN frames : frames[j].sequence > last <=> j >= i

\* Faulty variant: the client's last frame taken for the next one it expects.
MissingAfterNext(frames, last) == SubSeq(frames, FirstAfter(frames, last + 1), Len(frames))

Missing(frames, last) == SubSeq(frames, FirstAfter(frames, last), Len(frames))

\* resumeSession with an unknown, expired or refused session.  When sessions
\* expire is the subject of ServerLifecycle; here any request may be refused.
ResumeRefused(c) ==
    /\ c \in open /\ resume[c] # <<>>
    /\ resume' = [resume EXCEPT ![c] = <<>>]
    /\ Push(c, <<Resumed(FALSE, 0)>>)
    /\ UNCHANGED <<open, sessionOf, session, transport, identity, lane, sent, odd>>

\* resumeSession: the session moves to this connection, then the replay.
ResumeGranted(c) ==
    /\ c \in open /\ resume[c] # <<>>
    /\ LET s == resume[c][1].session
           frames == Missing(session[s].frames, resume[c][1].last)
       IN  /\ session[s].alive
           /\ session' = [session EXCEPT ![sessionOf[c]] = NoSession]
           /\ sessionOf' = [sessionOf EXCEPT ![c] = s]
           /\ Push(c, Append([i \in 1 .. Len(frames) |-> Data(frames[i])],
                             Resumed(TRUE, Len(frames))))
    /\ resume' = [resume EXCEPT ![c] = <<>>]
    /\ UNCHANGED <<open, transport, identity, lane, sent, odd>>

ServerClose(c) ==
    /\ c \in open
    /\ open' = open \ {c}
    /\ UNCHANGED <<sessionOf, session, resume, transport, identity, inbox, lane, sent, odd>>

-----------------------------------------------------------------------------
(* The client's serial lane *)

\* dataHandler, given the lane as the event leaves it: an unlocked lane takes
\* the frame up to the await of onReceive_pre or of the decoder.
Handle(f, locked, queue) ==
    IF locked
    THEN listenLock' = TRUE /\ packetQueue' = Append(queue, f) /\ UNCHANGED running
    ELSE listenLock' = TRUE /\ packetQueue' = queue /\ running' = <<[frame |-> f, stage |-> "decode"]>>

\* Faulty variant: the last release leaves the lock set.
ReleaseKeepsLock ==
    /\ running' = IF packetQueue = <<>> THEN <<>>
                  ELSE <<[frame |-> Head(packetQueue), stage |-> "decode"]>>
    /\ packetQueue' = IF packetQueue = <<>> THEN <<>> ELSE Tail(packetQueue)
    /\ UNCHANGED <<listenLock, dropped>>

\* releasePacketLock: unlock, and run the handler of the oldest queued frame.
\* Between a reconnect and its schema the packet tables are empty, and that
\* handler throws once it has taken the lock.
Release ==
    /\ listenLock' = (packetQueue # <<>>)
    /\ packetQueue' = IF packetQueue = <<>> THEN <<>> ELSE Tail(packetQueue)
    /\ running' = IF packetQueue = <<>> \/ phase = "connecting" THEN <<>>
                  ELSE <<[frame |-> Head(packetQueue), stage |-> "decode"]>>
    /\ dropped' = dropped \cup
         (IF packetQueue # <<>> /\ phase = "connecting" THEN {Head(packetQueue)} ELSE {})

\* deliverPacket up to its await: a closed connection drops the frame; with
\* the tables empty it throws and the lane stays locked.
Deliver ==
    /\ running # <<>> /\ running[1].stage = "decode"
    /\ IF closed
       THEN /\ listenLock' = (packetQueue # <<>>)
            /\ packetQueue' = IF packetQueue = <<>> THEN <<>> ELSE Tail(packetQueue)
            /\ running' = IF packetQueue = <<>> THEN <<>>
                          ELSE <<[frame |-> Head(packetQueue), stage |-> "decode"]>>
            /\ dropped' = dropped \cup {running[1].frame}
            /\ UNCHANGED delivered
       ELSE IF phase = "connecting"
       THEN /\ running' = <<>>
            /\ dropped' = dropped \cup {running[1].frame}
            /\ UNCHANGED <<listenLock, packetQueue, delivered>>
       ELSE /\ running' = <<[running[1] EXCEPT !.stage = "listen"]>>
            /\ delivered' = Append(delivered, running[1].frame)
            /\ UNCHANGED <<listenLock, packetQueue, dropped>>
    /\ UNCHANGED <<server, transport, identity, inbox, sent, odd>>

\* The listeners and onReceive_post settled.
Listened ==
    /\ running # <<>> /\ running[1].stage = "listen"
    /\ Release
    /\ UNCHANGED <<server, transport, identity, inbox, delivered, sent, odd>>

\* A listener threw: invalidPacket throws in turn and nothing unlocks the lane.
ListenerThrows ==
    /\ running # <<>> /\ running[1].stage = "listen"
    /\ running' = <<>>
    /\ odd' = odd \cup {"listenerThrew"}
    /\ UNCHANGED <<server, transport, identity, inbox, listenLock, packetQueue,
                   delivered, dropped, sent>>

-----------------------------------------------------------------------------
(* Frames that reach the client *)

Arrives(type) == inbox # <<>> /\ Head(inbox).type = type

\* Faulty variant: only the first schema fills the packet tables; after a
\* reconnect they stay empty.
SchemaFillsTablesOnce ==
    /\ Arrives("schema")
    /\ LET s == Head(inbox).session
       IN  /\ sessionId' = s
           /\ IF sessionId \notin {None, s}
              THEN /\ pendingResumeSession' = sessionId
                   /\ resume' = IF link \in open /\ ~closed
                                THEN [resume EXCEPT ![link] =
                                        <<[session |-> sessionId, last |-> lastReplaySequence]>>]
                                ELSE resume
              ELSE UNCHANGED <<pendingResumeSession, resume>>
    /\ inbox' = Tail(inbox)
    /\ phase' = IF sessionId = None THEN "ready" ELSE phase
    /\ attempt' = IF sessionId = None THEN attempt ELSE 0
    /\ UNCHANGED <<open, sessionOf, session, link, closed, intentionalClose, lateTimer,
                   lastReplaySequence, lane, sent, odd>>

\* serverKeyHandler: the session becomes the new one, and the previous one is
\* presented on the wire.
ReceiveSchema ==
    /\ Arrives("schema")
    /\ LET s == Head(inbox).session
       IN  /\ sessionId' = s
           /\ IF sessionId \notin {None, s}
              THEN /\ pendingResumeSession' = sessionId
                   /\ resume' = IF link \in open /\ ~closed
                                THEN [resume EXCEPT ![link] =
                                        <<[session |-> sessionId, last |-> lastReplaySequence]>>]
                                ELSE resume
              ELSE UNCHANGED <<pendingResumeSession, resume>>
    /\ inbox' = Tail(inbox)
    /\ phase' = "ready"
    /\ attempt' = IF sessionId = None THEN attempt ELSE 0
    /\ UNCHANGED <<open, sessionOf, session, link, closed, intentionalClose, lateTimer,
                   lastReplaySequence, lane, sent, odd>>

\* A REPLAY frame or a plain one.
Fresh(f) == f.sequence = 0 \/ f.sequence > lastReplaySequence

ReceiveFrame ==
    /\ Arrives("frame")
    /\ LET f == Head(inbox).frame
       IN  IF Fresh(f)
           THEN /\ lastReplaySequence' = IF f.sequence = 0 THEN lastReplaySequence ELSE f.sequence
                /\ Handle(f, listenLock, packetQueue)
           ELSE UNCHANGED <<lastReplaySequence, listenLock, packetQueue, running>>
    /\ inbox' = Tail(inbox)
    /\ UNCHANGED <<server, transport, sessionId, pendingResumeSession, delivered,
                   dropped, sent, odd>>

ReceiveResumed ==
    /\ Arrives("resumed")
    /\ sessionId' = IF Head(inbox).recovered /\ pendingResumeSession # None
                    THEN pendingResumeSession ELSE sessionId
    /\ pendingResumeSession' = None
    /\ lastReplaySequence' = IF Head(inbox).recovered THEN lastReplaySequence ELSE 0
    /\ inbox' = Tail(inbox)
    /\ UNCHANGED <<server, transport, lane, sent, odd>>

-----------------------------------------------------------------------------
(* The client's transport *)

\* scheduleReconnect: one more attempt, or none is left.  The reconnecting
\* listeners run before the timer is armed, and one may call close(), which
\* finds no timer to call off.
ScheduleReconnect ==
    IF attempt >= Attempts
    THEN phase' = "failed" /\ UNCHANGED <<attempt, intentionalClose, lateTimer>>
    ELSE /\ phase' = "waiting" /\ attempt' = attempt + 1
         /\ \/ UNCHANGED <<intentionalClose, lateTimer>>
            \/ intentionalClose' = TRUE /\ lateTimer' = TRUE

\* The client's close event; `retry` is a close code other than 1000.  Before
\* the schema the packet tables have no list of packets to clear: the handler
\* throws, and does not get as far as scheduleReconnect.
TransportClosed(retry) ==
    /\ phase \in {"connecting", "ready"}
    /\ link' = None
    /\ inbox' = <<>>
    /\ closed' = TRUE
    /\ IF phase = "ready" /\ ~intentionalClose /\ retry
       THEN ScheduleReconnect
       ELSE /\ phase' = IF phase = "connecting" THEN "broken" ELSE "ended"
            /\ UNCHANGED <<attempt, intentionalClose, lateTimer>>
    /\ odd' = odd \cup (IF pendingResumeSession # None THEN {"earlyLoss"} ELSE {})
                  \cup (IF listenLock THEN {"busyLoss"} ELSE {})
    /\ UNCHANGED <<server, identity, lane, sent>>

\* Faulty variant: a new transport counts its frames from the beginning.
ReconnectForgetsSequence ==
    /\ phase = "waiting"
    /\ phase' = "connecting"
    /\ closed' = FALSE
    /\ lastReplaySequence' = 0
    /\ UNCHANGED <<server, link, attempt, intentionalClose, lateTimer, sessionId,
                   pendingResumeSession, inbox, lane, sent, odd>>

\* beginReconnect: the lane keeps its lock and its queue.  The factory may throw.
BeginReconnect ==
    /\ phase = "waiting"
    /\ \/ /\ phase' = "connecting"
          /\ closed' = FALSE
          /\ UNCHANGED <<attempt, intentionalClose, lateTimer>>
       \/ /\ ScheduleReconnect
          /\ UNCHANGED closed
    /\ UNCHANGED <<server, link, identity, inbox, lane, sent, odd>>

\* Faulty variant: close() does not call a pending reconnect off.
CloseLeavesTimer ==
    /\ intentionalClose' = TRUE
    /\ closed' = TRUE
    /\ UNCHANGED <<server, link, phase, attempt, lateTimer, identity, inbox, lane, sent, odd>>

\* close() by the application; a pending reconnect is called off.
Close ==
    /\ intentionalClose' = TRUE
    /\ closed' = TRUE
    /\ phase' = IF phase = "waiting" THEN "ended" ELSE phase
    /\ UNCHANGED <<server, link, attempt, lateTimer, identity, inbox, lane, sent, odd>>

-----------------------------------------------------------------------------
Next ==
    \/ Accept
    \/ \E c \in Conns : Send(c) \/ ResumeRefused(c) \/ ResumeGranted(c) \/ ServerClose(c)
    \/ Deliver \/ Listened \/ ListenerThrows
    \/ ReceiveSchema \/ ReceiveFrame \/ ReceiveResumed
    \/ \E retry \in BOOLEAN : TransportClosed(retry)
    \/ BeginReconnect \/ Close

Spec == Init /\ [][Next]_vars

\* Timers that are due fire, frames that arrived are handled, and a transport is
\* accepted or fails.
Fairness ==
    /\ WF_vars(ReceiveSchema \/ ReceiveFrame \/ ReceiveResumed)
    /\ WF_vars(BeginReconnect)
    /\ WF_vars(phase = "connecting" /\ link = None /\ (Accept \/ TransportClosed(TRUE)))

FairSpec == Spec /\ Fairness

-----------------------------------------------------------------------------
(* Properties *)

TypeOK ==
    /\ open \subseteq Conns
    /\ sessionOf \in [Conns -> Conns \cup {None}]
    /\ \A s \in Conns : /\ session[s].alive \in BOOLEAN
                        /\ session[s].sequence \in 0 .. MaxSends
                        /\ session[s].frames \in Seq(Frames)
                        /\ Len(session[s].frames) <= MaxPackets
    /\ \A c \in Conns : Len(resume[c]) <= 1
    /\ inbox \in Seq(Messages)
    /\ link \in Conns \cup {None}
    /\ phase \in Phases
    /\ attempt \in 0 .. Attempts
    /\ closed \in BOOLEAN
    /\ intentionalClose \in BOOLEAN
    /\ lateTimer \in BOOLEAN
    /\ {sessionId, pendingResumeSession} \subseteq Conns \cup {None}
    /\ lastReplaySequence \in 0 .. MaxSends
    /\ listenLock \in BOOLEAN
    /\ packetQueue \in Seq(Frames)
    /\ Len(running) <= 1
    /\ sent \in 0 .. MaxSends
    /\ delivered \in Seq(Frames)
    /\ dropped \subseteq Frames
    /\ odd \subseteq Oddities

InLane == ToSet(packetQueue) \cup {running[i].frame : i \in DOMAIN running}
Received == ToSet(delivered) \cup dropped \cup InLane

\* The retained frames the client believes it has and never got.
Missed ==
    {f \in ToSet(session[sessionId].frames) :
        f.sequence <= lastReplaySequence /\ f \notin Received}

Settled ==
    phase = "ready" /\ pendingResumeSession = None /\ session[sessionId].alive

\* resumeSession and the sequence check of handleControl together replay all
\* that was retained, as long as one counter follows one session: no frame is
\* sent on the new connection before RESUMED, none on a connection whose session
\* has moved on, and no transport is lost while a RESUME is unanswered.
ReplayComplete ==
    odd \cap {"earlySend", "earlyLoss", "staleSend"} = {} /\ Settled => Missed = {}

\* The application never sees a frame of a session twice or out of order, not
\* even when frames queued on the lost transport meet the replay; a frame sent
\* before RESUMED is the exception, since a refusal resets the counter.
DeliveredInOrder ==
    "earlySend" \notin odd =>
        \A i, j \in DOMAIN delivered :
            i < j /\ delivered[i].session = delivered[j].session
                  /\ delivered[i].sequence * delivered[j].sequence # 0
            => delivered[i].sequence < delivered[j].sequence

\* A frame whose sequence was acknowledged reaches the listeners unless its
\* connection ended while the lane was busy: reconnecting loses nothing else.
DropsOnlyWhenBusy ==
    dropped # {} => intentionalClose \/ "busyLoss" \in odd

\* close() by the application is final: no transport is opened after it, unless a
\* reconnecting listener called it, before the timer of that attempt was armed
\* (docs/ts/client.md:7 makes no such exception).
ExplicitCloseFinal ==
    [][intentionalClose /\ ~lateTimer =>
         ~(phase # "connecting" /\ phase' = "connecting")]_vars

\* A locked lane has a handler that will release it, and frames wait only behind
\* a lock, also when a reconnect falls between two frames of the lane, unless a
\* listener threw or the tables were empty when a frame's turn came.
LockHasHandler ==
    odd \cap {"busyLoss", "listenerThrew"} = {} =>
        /\ listenLock <=> running # <<>>
        /\ packetQueue # <<>> => listenLock

\* Reconnecting ends in a connection, or in on_reconnect_failed once the attempts
\* are used up, or because the other side closed for good.
RetriesUntilExhausted ==
    phase = "waiting" ~> phase \in {"ready", "failed", "ended"}
=============================================================================
