--------------------------- MODULE ServerLifecycle --------------------------
(***************************************************************************)
(* The life of the connections of a TypeScript server                      *)
(* (projects/ts/src/ws/server/SonicWSServer.ts): acceptance with its       *)
(* awaited onClientConnect middleware, socket ids, tags and rooms, the     *)
(* close handler, and the recovery sessions that outlive a connection and  *)
(* that a later connection of the same client resumes.                     *)
(*                                                                         *)
(* Connection objects are numbered in the order of their 'connection'      *)
(* events.  A session is named by the connection it was created for (the   *)
(* code draws a random UUID).  phase stands for the connections array: it  *)
(* holds exactly the connections whose phase is "connected".  Packets and  *)
(* replayed frames, the adapter and the user's state are left out.         *)
(***************************************************************************)
EXTENDS Naturals, Sequences

CONSTANTS
  MaxConns,        \* bound: connections accepted over the server's life
  Rooms,           \* tags and rooms, one namespace in the code
  None,
  Disconnection,   \* recovery.maxDisconnectionMs, in ticks
  MaxTime,         \* bound: ticks of the clock
  Schedules,       \* the sets of delays under which the server is checked
  SlowConns,       \* bound: connections under a schedule with delays
  SlowTime,        \* bound: ticks of the clock under a schedule with delays
  PromptRooms      \* bound: the rooms used under the schedule without any

\* What may take longer than the next event: onClientConnect, recovery.authorize,
\* that the server notices the loss of a socket whose client is back already, and
\* the application, which may tag a connection after its close.  With "throwing"
\* an on_connect listener may throw, in an application that survives it.
Delays == {"connect", "authorize", "loss", "tagging", "throwing"}

ASSUME LifecycleAssumption ==
  /\ MaxConns \in Nat
  /\ Disconnection \in Nat
  /\ MaxTime \in Nat
  /\ None \notin 1..MaxConns
  /\ Schedules \subseteq SUBSET Delays
  /\ SlowConns \in 0..MaxConns
  /\ SlowTime \in 0..MaxTime
  /\ PromptRooms \subseteq Rooms

Conn == 1..MaxConns
Id == 1..MaxConns
Infinity == MaxTime + Disconnection + 2
Time == 0..Infinity

VARIABLES
  phase,         \* "absent", "accepting", "connected", "removed", "rejected"
  socket,        \* "none", "open", or "closed" once the close event has fired
  reached,       \* has the schema handshake been sent on an open socket
  handled,       \* has the close handler been registered
  id,            \* connection.id
  lastId, availableIds,
  connectionMap,
  tags, tagsInv,
  sessionId,     \* connection.sessionId
  sessions,      \* the keys of the sessions map
  sessionRooms,  \* session.rooms
  expiresAt,     \* session.expiresAt
  timerAt,       \* when the expiry timer a close armed is due, or Infinity
  timerFor,      \* the session object that timer captured
  authorizing,   \* the session whose authorization resumeSession awaits
  asked,         \* has this connection sent its RESUME frame
  serving,       \* shutdown has not been called
  now,
  delays,        \* the schedule of this behaviour
  held           \* history: rooms of the session's client, while connected

handshake == <<reached, handled>>
ids == <<id, lastId, availableIds, connectionMap>>
membership == <<tags, tagsInv, held>>
session == <<sessionId, sessions, sessionRooms, expiresAt>>
timers == <<timerAt, timerFor>>
resume == <<authorizing, asked>>
environment == <<now, delays>>
vars == <<phase, socket, handshake, ids, membership, session, timers, resume, serving,
          environment>>

Init ==
  /\ phase = [c \in Conn |-> "absent"]
  /\ socket = [c \in Conn |-> "none"]
  /\ reached = [c \in Conn |-> FALSE]
  /\ handled = [c \in Conn |-> FALSE]
  /\ id = [c \in Conn |-> 0]
  /\ lastId = 0
  /\ availableIds = <<>>
  /\ connectionMap = [i \in Id |-> None]
  /\ tags = [c \in Conn |-> {}]
  /\ tagsInv = [r \in Rooms |-> {}]
  /\ sessionId = [c \in Conn |-> None]
  /\ sessions = {}
  /\ sessionRooms = [s \in Conn |-> {}]
  /\ expiresAt = [s \in Conn |-> Infinity]
  /\ timerAt = [c \in Conn |-> Infinity]
  /\ timerFor = [c \in Conn |-> None]
  /\ authorizing = [c \in Conn |-> None]
  /\ asked = [c \in Conn |-> FALSE]
  /\ serving = TRUE
  /\ now = 0
  /\ delays \in Schedules
  /\ held = [s \in Conn |-> {}]

-----------------------------------------------------------------------------
(* Acceptance *)

\* generateSocketID: the oldest released id, or the id after the last one
\* handed out.
TakeId(c) ==
  LET free == IF availableIds = <<>> THEN <<lastId + 1>> ELSE availableIds
  IN /\ id' = [id EXCEPT ![c] = Head(free)]
     /\ lastId' = Head(free)
     /\ availableIds' = Tail(free)

\* The 'connection' event, up to the await of onClientConnect.
Connect(c) ==
  /\ serving
  /\ delays # {} => c <= SlowConns
  /\ phase[c] = "absent"
  /\ \A b \in 1..(c - 1) : phase[b] # "absent"
  /\ phase' = [phase EXCEPT ![c] = "accepting"]
  /\ socket' = [socket EXCEPT ![c] = "open"]
  /\ TakeId(c)
  /\ sessionId' = [sessionId EXCEPT ![c] = c]
  /\ sessions' = sessions \cup {c}
  /\ UNCHANGED <<handshake, connectionMap, membership, sessionRooms, expiresAt, timers,
                 resume, serving, environment>>

\* onClientConnect cancelled: the connection is closed with 4007, its id and
\* session are given up at once, and no close handler is ever registered.
Reject(c) ==
  /\ phase[c] = "accepting"
  /\ phase' = [phase EXCEPT ![c] = "rejected"]
  /\ availableIds' = Append(availableIds, id[c])
  /\ sessions' = sessions \ {c}
  /\ UNCHANGED <<socket, handshake, id, lastId, connectionMap, membership, sessionId,
                 sessionRooms, expiresAt, timers, resume, serving, environment>>

\* onClientConnect let it in, if only after the socket closed: the schema handshake
\* is sent and the connection is registered ...
Registered(c) ==
  /\ phase[c] = "accepting"
  /\ phase' = [phase EXCEPT ![c] = "connected"]
  /\ reached' = [reached EXCEPT ![c] = socket[c] = "open"]
  /\ connectionMap' = [connectionMap EXCEPT ![id[c]] = c]

\* ... and then, after the on_connect listeners, the close handler.
Admit(c) ==
  /\ Registered(c)
  /\ handled' = [handled EXCEPT ![c] = TRUE]
  /\ UNCHANGED <<socket, id, lastId, availableIds, membership, session,
                 timers, resume, serving, environment>>

\* A listener that throws keeps the handler from being registered.
AdmitThrows(c) ==
  /\ "throwing" \in delays
  /\ Registered(c)
  /\ UNCHANGED <<socket, handled, id, lastId, availableIds, membership, session,
                 timers, resume, serving, environment>>

-----------------------------------------------------------------------------
(* The close event *)

\* A close event that finds no handler: the connection was rejected, its
\* middleware is still being awaited, or a listener threw.
ClosedUnhandled(c) ==
  /\ socket[c] = "open"
  /\ \/ phase[c] = "rejected"
     \/ phase[c] = "accepting" /\ "connect" \in delays
     \/ phase[c] = "connected" /\ ~handled[c]
  /\ socket' = [socket EXCEPT ![c] = "closed"]
  /\ UNCHANGED <<phase, handshake, ids, membership, session, timers, resume, serving, environment>>

\* What a close does to the session: start its recovery period with the rooms
\* the connection was in.
Disconnected(c, rooms) ==
  LET s == sessionId[c]
  IN IF s \in sessions
     THEN /\ sessionRooms' = [sessionRooms EXCEPT ![s] = rooms]
          /\ expiresAt' = [expiresAt EXCEPT ![s] = now + Disconnection]
          /\ timerAt' = [timerAt EXCEPT ![c] = now + Disconnection + 1]
          /\ timerFor' = [timerFor EXCEPT ![c] = s]
     ELSE UNCHANGED <<sessionRooms, expiresAt, timers>>

\* Faulty variant: the tags go, the members of the tags stay.
ClosedKeepsMembers(c) ==
  /\ phase[c] = "connected" /\ handled[c]
  /\ socket[c] = "open"
  /\ phase' = [phase EXCEPT ![c] = "removed"]
  /\ socket' = [socket EXCEPT ![c] = "closed"]
  /\ connectionMap' = [connectionMap EXCEPT ![id[c]] = None]
  /\ availableIds' = Append(availableIds, id[c])
  /\ tags' = [tags EXCEPT ![c] = {}]
  /\ Disconnected(c, tags[c])
  /\ UNCHANGED <<handshake, id, lastId, tagsInv, sessionId, sessions, held, resume, serving, environment>>

\* Faulty variant: the rooms are copied after they were dropped.
ClosedCopiesLate(c) ==
  /\ phase[c] = "connected" /\ handled[c]
  /\ socket[c] = "open"
  /\ phase' = [phase EXCEPT ![c] = "removed"]
  /\ socket' = [socket EXCEPT ![c] = "closed"]
  /\ connectionMap' = [connectionMap EXCEPT ![id[c]] = None]
  /\ availableIds' = Append(availableIds, id[c])
  /\ tags' = [tags EXCEPT ![c] = {}]
  /\ tagsInv' = [r \in Rooms |-> tagsInv[r] \ {c}]
  /\ Disconnected(c, tags'[c])
  /\ UNCHANGED <<handshake, id, lastId, sessionId, sessions, held, resume, serving, environment>>

\* The registered close handler: unregister, release the id, drop the tags,
\* and start the recovery period of the connection's session.
Closed(c) ==
  /\ phase[c] = "connected" /\ handled[c]
  /\ socket[c] = "open"
  /\ phase' = [phase EXCEPT ![c] = "removed"]
  /\ socket' = [socket EXCEPT ![c] = "closed"]
  /\ connectionMap' = [connectionMap EXCEPT ![id[c]] = None]
  /\ availableIds' = Append(availableIds, id[c])
  /\ tags' = [tags EXCEPT ![c] = {}]
  /\ tagsInv' = [r \in Rooms |-> IF r \in tags[c] THEN tagsInv[r] \ {c} ELSE tagsInv[r]]
  /\ Disconnected(c, tags[c])
  /\ UNCHANGED <<handshake, id, lastId, sessionId, sessions, held, resume, serving, environment>>

\* Faulty variants: a timer that does not look whether the session was
\* extended, and one that looks the wrong way.
ExpiryTimerBlind(c) ==
  /\ timerAt[c] <= now
  /\ timerAt' = [timerAt EXCEPT ![c] = Infinity]
  /\ sessions' = sessions \ {timerFor[c]}
  /\ UNCHANGED <<phase, socket, handshake, ids, membership, sessionId, sessionRooms,
                 expiresAt, timerFor, resume, serving, environment>>

ExpiryTimerReversed(c) ==
  /\ timerAt[c] <= now
  /\ timerAt' = [timerAt EXCEPT ![c] = Infinity]
  /\ LET s == sessionId[c]
     IN sessions' = IF s = timerFor[c] /\ expiresAt[s] > now
                    THEN sessions \ {s} ELSE sessions
  /\ UNCHANGED <<phase, socket, handshake, ids, membership, sessionId, sessionRooms,
                 expiresAt, timerFor, resume, serving, environment>>

\* The expiry timer of a close: the session goes unless it was extended or
\* replaced in the meantime.
ExpiryTimer(c) ==
  /\ timerAt[c] <= now
  /\ timerAt' = [timerAt EXCEPT ![c] = Infinity]
  /\ LET s == sessionId[c]
     IN sessions' = IF s = timerFor[c] /\ expiresAt[s] <= now
                    THEN sessions \ {s} ELSE sessions
  /\ UNCHANGED <<phase, socket, handshake, ids, membership, sessionId, sessionRooms,
                 expiresAt, timerFor, resume, serving, environment>>

-----------------------------------------------------------------------------
(* Tags and rooms *)

\* The rooms a live connection holds are its client's rooms (history).
Remember(c) ==
  held' = IF phase[c] = "connected" THEN [held EXCEPT ![sessionId[c]] = tags'[c]]
          ELSE held

\* The application holds connection objects from on_connect on, and may keep
\* one past its close.
InUse(c) == phase[c] = "connected" \/ ("tagging" \in delays /\ phase[c] = "removed")

\* tag with replace: the connection leaves its other tags.
TagReplace(c, r) ==
  /\ InUse(c)
  /\ tags' = [tags EXCEPT ![c] = {r}]
  /\ tagsInv' = [q \in Rooms |-> IF q = r THEN tagsInv[q] \cup {c}
                                 ELSE IF q \in tags[c] THEN tagsInv[q] \ {c}
                                 ELSE tagsInv[q]]
  /\ Remember(c)
  /\ UNCHANGED <<phase, socket, handshake, ids, session, timers, resume, serving, environment>>

Join(c, r) ==
  /\ InUse(c)
  /\ tags' = [tags EXCEPT ![c] = @ \cup {r}]
  /\ tagsInv' = [tagsInv EXCEPT ![r] = @ \cup {c}]
  /\ Remember(c)
  /\ UNCHANGED <<phase, socket, handshake, ids, session, timers, resume, serving, environment>>

Leave(c, r) ==
  /\ InUse(c)
  /\ tags' = [tags EXCEPT ![c] = @ \ {r}]
  /\ tagsInv' = [tagsInv EXCEPT ![r] = @ \ {c}]
  /\ Remember(c)
  /\ UNCHANGED <<phase, socket, handshake, ids, session, timers, resume, serving, environment>>

-----------------------------------------------------------------------------
(* Recovery *)

Recoverable(s) == s \in sessions /\ expiresAt[s] >= now

\* Some connection of session s is still open from the server's side.
Owned(s) == \E b \in Conn : socket[b] = "open" /\ sessionId[b] = s

\* Faulty variant: the session the connection started with is kept.
RestoreKeepsOwn(c, s) ==
  /\ sessionId' = [sessionId EXCEPT ![c] = s]
  /\ sessions' = sessions \cup {s}
  /\ expiresAt' = [expiresAt EXCEPT ![s] = Infinity]
  /\ tags' = [tags EXCEPT ![c] = @ \cup sessionRooms[s]]
  /\ tagsInv' = [r \in Rooms |-> IF r \in sessionRooms[s] THEN tagsInv[r] \cup {c}
                                 ELSE tagsInv[r]]
  /\ UNCHANGED <<sessionRooms, held>>

\* What resumeSession does once authorization succeeded: the connection gives
\* up its own session, takes the old one over and joins the rooms it recorded.
Restore(c, s) ==
  /\ sessionId' = [sessionId EXCEPT ![c] = s]
  /\ sessions' = (sessions \ {sessionId[c]}) \cup {s}
  /\ expiresAt' = [expiresAt EXCEPT ![s] = Infinity]
  /\ tags' = [tags EXCEPT ![c] = @ \cup sessionRooms[s]]
  /\ tagsInv' = [r \in Rooms |-> IF r \in sessionRooms[s] THEN tagsInv[r] \cup {c}
                                 ELSE tagsInv[r]]
  /\ UNCHANGED <<sessionRooms, held>>

\* The session id of s has reached a client: its schema handshake was sent
\* while the socket was open.
Known(s) == reached[s]

\* A RESUME frame.  A client sends one on each replacement transport, right
\* after the schema handshake, naming the session it had before.
MayAsk(c, s) ==
  /\ phase[c] = "connected" /\ socket[c] = "open"
  /\ ~asked[c]
  /\ s < c /\ Known(s)
  /\ "loss" \in delays \/ ~Owned(s)

ResumeRefused(c, s) ==
  /\ MayAsk(c, s)
  /\ asked' = [asked EXCEPT ![c] = TRUE]
  /\ UNCHANGED <<phase, socket, handshake, ids, membership, session, timers, authorizing,
                 serving, environment>>

ResumeNow(c, s) ==
  /\ MayAsk(c, s)
  /\ Recoverable(s)
  /\ "authorize" \notin delays
  /\ asked' = [asked EXCEPT ![c] = TRUE]
  /\ Restore(c, s)
  /\ UNCHANGED <<phase, socket, handshake, ids, timers, authorizing, serving, environment>>

ResumeAwaits(c, s) ==
  /\ MayAsk(c, s)
  /\ Recoverable(s)
  /\ "authorize" \in delays
  /\ asked' = [asked EXCEPT ![c] = TRUE]
  /\ authorizing' = [authorizing EXCEPT ![c] = s]
  /\ UNCHANGED <<phase, socket, handshake, ids, membership, session, timers, serving, environment>>

\* The awaited authorization refuses ...
AuthorizeRefuses(c) ==
  /\ authorizing[c] # None
  /\ authorizing' = [authorizing EXCEPT ![c] = None]
  /\ UNCHANGED <<phase, socket, handshake, ids, membership, session, timers, asked,
                 serving, environment>>

\* ... or succeeds, whatever has happened to the session and the connection.
AuthorizeGrants(c) ==
  /\ authorizing[c] # None
  /\ authorizing' = [authorizing EXCEPT ![c] = None]
  /\ Restore(c, authorizing[c])
  /\ UNCHANGED <<phase, socket, handshake, ids, timers, asked, serving, environment>>

Shutdown ==
  /\ serving
  /\ serving' = FALSE
  /\ sessions' = {}
  /\ UNCHANGED <<phase, socket, handshake, ids, membership, sessionId, sessionRooms,
                 expiresAt, timers, resume, environment>>

\* The last tick.
Horizon == IF delays = {} THEN MaxTime ELSE SlowTime

Tick ==
  /\ now < Horizon
  /\ now' = now + 1
  /\ UNCHANGED <<phase, socket, handshake, ids, membership, session, timers, resume, serving, delays>>

-----------------------------------------------------------------------------
Accept(c) == Connect(c) \/ Reject(c) \/ Admit(c) \/ AdmitThrows(c)
Authorize(c) == AuthorizeRefuses(c) \/ AuthorizeGrants(c)

Next ==
  \/ \E c \in Conn :
       \/ Accept(c) \/ ClosedUnhandled(c) \/ Closed(c) \/ ExpiryTimer(c)
       \/ Authorize(c)
       \/ \E r \in IF delays = {} THEN PromptRooms ELSE Rooms :
            TagReplace(c, r) \/ Join(c, r) \/ Leave(c, r)
       \/ \E s \in Conn : ResumeRefused(c, s) \/ ResumeNow(c, s) \/ ResumeAwaits(c, s)
  \/ Shutdown
  \/ Tick

Spec == Init /\ [][Next]_vars

\* Time passes and due timers fire; middleware and authorization settle.
Fairness ==
  /\ WF_vars(Tick)
  /\ \A c \in Conn :
       /\ WF_vars(ExpiryTimer(c))
       /\ WF_vars(Reject(c) \/ Admit(c) \/ AdmitThrows(c))
       /\ WF_vars(Authorize(c))

FairSpec == Spec /\ Fairness

-----------------------------------------------------------------------------
(* Properties *)

Phases == {"absent", "accepting", "connected", "removed", "rejected"}

\* Every variable keeps its shape.
TypeOK ==
  /\ phase \in [Conn -> Phases]
  /\ socket \in [Conn -> {"none", "open", "closed"}]
  /\ reached \in [Conn -> BOOLEAN]
  /\ handled \in [Conn -> BOOLEAN]
  /\ id \in [Conn -> Nat]
  /\ lastId \in Nat
  /\ availableIds \in Seq(Id)
  /\ connectionMap \in [Id -> Conn \cup {None}]
  /\ tags \in [Conn -> SUBSET Rooms]
  /\ tagsInv \in [Rooms -> SUBSET Conn]
  /\ sessionId \in [Conn -> Conn \cup {None}]
  /\ sessions \subseteq Conn
  /\ sessionRooms \in [Conn -> SUBSET Rooms]
  /\ expiresAt \in [Conn -> Time]
  /\ timerAt \in [Conn -> Time]
  /\ timerFor \in [Conn -> Conn \cup {None}]
  /\ authorizing \in [Conn -> Conn \cup {None}]
  /\ asked \in [Conn -> BOOLEAN]
  /\ serving \in BOOLEAN
  /\ now \in 0..MaxTime
  /\ delays \in Schedules
  /\ held \in [Conn -> SUBSET Rooms]

Connected(c) == phase[c] = "connected"

\* No two connected sockets have the same id, whatever order ids are released
\* and handed out in ("id is unique among currently connected sockets").
UniqueIds ==
  \A b, c \in Conn : (Connected(b) /\ Connected(c) /\ id[b] = id[c]) => b = c

\* The two indexes of tag membership, by connection and by tag, agree after
\* every operation, closes and resumes included.
TagIndexesAgree ==
  \A c \in Conn, r \in Rooms : c \in tagsInv[r] <=> r \in tags[c]

\* The session of a connected socket exists and does not expire, so its
\* replayable frames are recorded and its next disconnection is recoverable;
\* except that a policy that takes its time, a loss noticed late, and a close that
\* found no handler let two connections have one session, which the close of one
\* gives up for both.
LiveSessionKept ==
  delays \cap {"authorize", "loss", "throwing"} = {} /\ serving =>
    \A c \in Conn :
      Connected(c) => sessionId[c] \in sessions /\ expiresAt[sessionId[c]] = Infinity

\* The close of c is still to come, and will find its handler.
Watched(c) ==
  /\ socket[c] = "open"
  /\ phase[c] = "accepting" \/ (Connected(c) /\ handled[c])

\* c was let in, or will be, but its close came too early, or a listener threw:
\* nobody handles its close, ever.
Missed(c) ==
  \/ phase[c] = "accepting" /\ socket[c] = "closed"
  \/ Connected(c) /\ (socket[c] = "closed" \/ ~handled[c])

\* A session that never expires belongs to a connection whose close will start
\* its recovery period, however late losses are noticed: sessions whose client is
\* gone are all on their way out.  (The sessions of connections that close while
\* onClientConnect is awaited, or whose listener threw, are nobody's to end; and a
\* policy that consents after the close of its connection leaves one behind.)
NoSessionLeak ==
  "authorize" \notin delays =>
    \A s \in sessions : expiresAt[s] = Infinity =>
      \E c \in Conn :
        /\ sessionId[c] = s
        /\ Watched(c) \/ (delays \cap {"connect", "throwing"} # {} /\ Missed(c))

\* A successful resume puts the connection in every room its client was in
\* ("successful recovery also restores server-side state and room membership"),
\* unless the connection before still had the rooms or its close found no handler.
RoomsRestored ==
  [][\A c \in Conn :
       LET s == sessionId'[c]
       IN delays \cap {"authorize", "loss", "throwing"} = {}
          /\ sessionId[c] # None /\ s # sessionId[c] => held[s] \subseteq tags'[c]]_vars

\* A session whose connection has closed is deleted or resumed in the end,
\* although every close arms a timer of its own and a resumed session closes
\* again under another connection; unless a connection that lost the session
\* closes after the one that has it, and leaves the deadline to the wrong timer.
SessionsExpire ==
  \A s \in Conn :
    (delays \cap {"authorize", "loss"} = {} /\ s \in sessions
     /\ expiresAt[s] + 1 <= Horizon)
      ~> (s \notin sessions \/ expiresAt[s] = Infinity)
=============================================================================
