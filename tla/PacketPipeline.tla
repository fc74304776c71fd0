--------------------------- MODULE PacketPipeline ---------------------------
(***************************************************************************)
(* The inbound packet pipeline of a TypeScript server connection           *)
(* (projects/ts/src/ws/server/SonicWSConnection.ts): every frame the peer  *)
(* sends goes through parseData, waits for the lane of its packet, passes  *)
(* the onReceive_pre middleware, is decoded, runs the listeners and the    *)
(* onReceive_post middleware, and then hands the lane to the next frame.   *)
(*                                                                         *)
(* A lane is one listen lock with its queue: asynchronous packets have one *)
(* each (asyncData), all the others share listenLock and packetQueue.      *)
(* A frame is named by its arrival number; stage[n] is the await at which  *)
(* its messageHandler is suspended.  A payload is the sequence of values   *)
(* it decodes to: one value for an ordinary packet, <<>> for the empty     *)
(* payload of a re-referenced packet, one value per sector for a batch.    *)
(* Invalid stands for a value that validation or decoding refuses.         *)
(***************************************************************************)
EXTENDS Naturals, Sequences

CONSTANTS
  Tags,           \* packets of the client table
  Async,          \* those declared async
  Batched,        \* those with dataBatching # 0
  Rereference,    \* those declared rereference
  Handshakes,     \* what requireHandshake may have named: packets, or NoTag
  NoTag,
  SyncLane,       \* the lane shared by the packets that are not async
  Values,         \* decoded values
  Invalid,        \* a value validation refuses
  None,           \* no value received yet
  Bodies,         \* the payloads the peer may send, by tag
  MaxFrames,      \* bound: frames received on the connection
  Listeners,      \* how many listeners each packet has
  Toggled,        \* bound: packets the application disables and enables
  Cancels         \* may the onReceive_pre middleware cancel a frame

ASSUME PipelineAssumption ==
  /\ Async \subseteq Tags
  /\ Batched \subseteq Tags
  /\ Rereference \subseteq Tags
  /\ Toggled \subseteq Tags
  /\ Handshakes \subseteq (Tags \ Batched) \cup {NoTag}
  /\ SyncLane \notin Tags
  /\ NoTag \notin Tags
  /\ Invalid \notin Values /\ None \notin Values /\ None # Invalid
  /\ Bodies \in [Tags -> SUBSET Seq(Values \cup {Invalid})]
  /\ \A t \in Tags \ Batched : \A b \in Bodies[t] :
        Len(b) = 1 \/ (b = <<>> /\ t \in Rereference)
  /\ Listeners \in [Tags -> Nat \ {0}]
  /\ MaxFrames \in Nat
  /\ None \notin 1..MaxFrames
  /\ Cancels \in BOOLEAN

Lanes == Async \cup {SyncLane}
LaneOf(t) == IF t \in Async THEN t ELSE SyncLane
FrameId == 1..MaxFrames

Stages == { "absent", "queued", "pre", "decode", "listen", "post",
            "done", "cancelled", "invalid", "abandoned" }

VARIABLES
  closed,             \* Connection.closed
  socket,             \* the transport: "open", "closing" or "closed"
  enabled,            \* enabledPackets
  handshakePacket,    \* the packet this connection must send first, or NoTag
  handshakeComplete,
  arrived,            \* how many frames parseData has accepted
  tag, body,          \* the frames, by arrival number
  stage,              \* where messageHandler is suspended, by frame
  rest,               \* results the batch loop has still to deliver, by frame
  listenLock,         \* listenLock and asyncData[tag][0], by lane
  packetQueue,        \* packetQueue and asyncData[tag][1], by lane
  lastReceived,       \* packet.lastReceived[this.id]
  delivered,          \* history: values handed to the listeners, by lane
  calls               \* listeners called with the present result, by frame

handshake == <<handshakePacket, handshakeComplete>>
conn == <<closed, socket, enabled, handshake>>
input == <<arrived, tag, body>>
vars == <<conn, input, stage, rest, listenLock, packetQueue,
          lastReceived, delivered, calls>>

Lane(n) == LaneOf(tag[n])

Init ==
  /\ closed = FALSE
  /\ socket = "open"
  /\ enabled = Tags
  /\ handshakePacket \in Handshakes
  /\ handshakeComplete = FALSE
  /\ arrived = 0
  /\ tag = [n \in FrameId |-> NoTag]
  /\ body = [n \in FrameId |-> <<>>]
  /\ stage = [n \in FrameId |-> "absent"]
  /\ rest = [n \in FrameId |-> <<>>]
  /\ listenLock = [l \in Lanes |-> FALSE]
  /\ packetQueue = [l \in Lanes |-> <<>>]
  /\ lastReceived = [t \in Tags |-> None]
  /\ delivered = [l \in Lanes |-> <<>>]
  /\ calls = [n \in FrameId |-> 0]

-----------------------------------------------------------------------------
(* Effects the handlers share. *)

\* socket.close(code): starts the closing handshake.  Connection.closed stays
\* false until the close event.
SocketClose == socket' = IF socket = "open" THEN "closing" ELSE socket

\* The synchronous head of deliverPacket: the stage it leaves frame n in ...
DeliverStage(v) ==
  IF closed THEN "abandoned" ELSE IF v = Invalid THEN "post" ELSE "listen"

\* Faulty variant: the listeners run on a closed connection.
DeliverClosed(n, v) ==
  IF v = Invalid THEN SocketClose /\ UNCHANGED <<delivered, calls>>
  ELSE /\ delivered' = [delivered EXCEPT ![Lane(n)] =
                           Append(@, [frame |-> n, value |-> v])]
       /\ calls' = [calls EXCEPT ![n] = 1]
       /\ UNCHANGED socket

\* ... and what it does: look at closed, once for all the listeners, and call
\* the first of them, or refuse the value.
Deliver(n, v) ==
  IF closed THEN UNCHANGED <<socket, delivered, calls>>
  ELSE IF v = Invalid THEN SocketClose /\ UNCHANGED <<delivered, calls>>
  ELSE /\ delivered' = [delivered EXCEPT ![Lane(n)] =
                          Append(@, [frame |-> n, value |-> v])]
       /\ calls' = [calls EXCEPT ![n] = 1]
       /\ UNCHANGED socket

\* Faulty variant: the youngest frame of the queue is started.
ReleaseYoungest(n, s) ==
  LET l == Lane(n)
      q == packetQueue[l]
      k == Len(q)
  IN IF k = 0
     THEN /\ listenLock' = [listenLock EXCEPT ![l] = FALSE]
          /\ stage' = [stage EXCEPT ![n] = s]
          /\ UNCHANGED packetQueue
     ELSE /\ stage' = [stage EXCEPT ![n] = s, ![q[k]] = "pre"]
          /\ packetQueue' = [packetQueue EXCEPT ![l] = SubSeq(q, 1, k - 1)]
          /\ UNCHANGED listenLock

\* releasePacketLock: unlock, then start messageHandler on the queue's head,
\* which finds the lane free and locks it again.
Release(n, s) ==
  LET l == Lane(n)
      q == packetQueue[l]
  IN IF q = <<>>
     THEN /\ listenLock' = [listenLock EXCEPT ![l] = FALSE]
          /\ stage' = [stage EXCEPT ![n] = s]
          /\ UNCHANGED packetQueue
     ELSE /\ listenLock' = [listenLock EXCEPT ![l] = TRUE]
          /\ stage' = [stage EXCEPT ![n] = s, ![Head(q)] = "pre"]
          /\ packetQueue' = [packetQueue EXCEPT ![l] = Tail(@)]

-----------------------------------------------------------------------------
(* A message event. *)

\* Faulty variant: a frame with an empty payload does not wait for the lane.
HandleEmptyAtOnce(n, t) ==
  LET l == LaneOf(t)
  IN IF listenLock[l] /\ body'[n] # <<>>
     THEN /\ packetQueue' = [packetQueue EXCEPT ![l] = Append(@, n)]
          /\ stage' = [stage EXCEPT ![n] = "queued"]
          /\ UNCHANGED listenLock
     ELSE /\ listenLock' = [listenLock EXCEPT ![l] = TRUE]
          /\ stage' = [stage EXCEPT ![n] = "pre"]
          /\ UNCHANGED packetQueue

\* messageHandler up to its first await.
Handle(n, t) ==
  LET l == LaneOf(t)
  IN IF listenLock[l]
     THEN /\ packetQueue' = [packetQueue EXCEPT ![l] = Append(@, n)]
          /\ stage' = [stage EXCEPT ![n] = "queued"]
          /\ UNCHANGED listenLock
     ELSE /\ listenLock' = [listenLock EXCEPT ![l] = TRUE]
          /\ stage' = [stage EXCEPT ![n] = "pre"]
          /\ UNCHANGED packetQueue

\* Faulty variant: the gate looks at repeats of the handshake only.
AdmittedEarly(t) ==
  handshakePacket = NoTag \/ ~handshakeComplete \/ t # handshakePacket

\* The handshake gate lets a frame of packet t through.
Admitted(t) ==
  \/ handshakePacket = NoTag
  \/ handshakeComplete /\ t # handshakePacket
  \/ ~handshakeComplete /\ t = handshakePacket

ReceiveFrame(t, b) ==
  /\ socket # "closed"
  /\ arrived < MaxFrames
  /\ t \in enabled
  /\ Admitted(t)
  /\ LET n == arrived + 1
     IN /\ arrived' = n
        /\ tag' = [tag EXCEPT ![n] = t]
        /\ body' = [body EXCEPT ![n] = b]
        /\ Handle(n, t)
  /\ handshakeComplete' = (handshakePacket # NoTag)
  /\ UNCHANGED <<closed, socket, enabled, handshakePacket, rest, lastReceived,
                 delivered, calls>>

\* parseData refuses the frame (size, key, disabled packet, rate limit), or
\* the handshake gate does: the socket is closed and nothing else happens.
RejectFrame ==
  /\ socket = "open"
  /\ SocketClose
  /\ UNCHANGED <<closed, enabled, handshake, input, stage, rest,
                 listenLock, packetQueue, lastReceived, delivered, calls>>

-----------------------------------------------------------------------------
(* The awaits of messageHandler, in the order a frame meets them. *)

IsRereference(n) == tag[n] \in Rereference /\ body[n] = <<>>

\* Faulty variant: a cancelled frame keeps the lane.
PreCancelsLocked(n) ==
  /\ stage[n] = "pre"
  /\ Cancels
  /\ stage' = [stage EXCEPT ![n] = "cancelled"]
  /\ UNCHANGED <<conn, input, rest, listenLock, packetQueue, lastReceived,
                 delivered, calls>>

\* onReceive_pre returned true.
PreCancels(n) ==
  /\ stage[n] = "pre"
  /\ Cancels
  /\ Release(n, "cancelled")
  /\ UNCHANGED <<conn, input, rest, lastReceived, delivered, calls>>

\* An empty payload stands for the last value received.  With no such value
\* the socket is closed and the lane is never released.
PreThenRereference(n) ==
  /\ stage[n] = "pre"
  /\ IsRereference(n)
  /\ LET v == lastReceived[tag[n]]
     IN \/ /\ v = None
           /\ stage' = [stage EXCEPT ![n] = "invalid"]
           /\ SocketClose
           /\ UNCHANGED <<delivered, calls>>
        \/ /\ v # None
           /\ stage' = [stage EXCEPT ![n] = DeliverStage(v)]
           /\ Deliver(n, v)
  /\ UNCHANGED <<closed, enabled, handshake, input, rest, listenLock,
                 packetQueue, lastReceived>>

PreThenDecode(n) ==
  /\ stage[n] = "pre"
  /\ ~IsRereference(n)
  /\ stage' = [stage EXCEPT ![n] = "decode"]
  /\ UNCHANGED <<conn, input, rest, listenLock, packetQueue, lastReceived,
                 delivered, calls>>

\* packet.listen has decoded and validated an ordinary packet.
Decode(n) ==
  /\ stage[n] = "decode"
  /\ tag[n] \notin Batched
  /\ LET v == body[n][1]
     IN /\ lastReceived' = [lastReceived EXCEPT ![tag[n]] = v]
        /\ stage' = [stage EXCEPT ![n] = DeliverStage(v)]
        /\ Deliver(n, v)
  /\ UNCHANGED <<closed, enabled, handshake, input, rest, listenLock,
                 packetQueue>>

HasInvalid(b) == \E i \in DOMAIN b : b[i] = Invalid

\* unravelBatch has decoded every sector.  A bad sector closes the socket and
\* the lane is never released; a batch of no sectors never releases it either.
DecodeBatch(n) ==
  /\ stage[n] = "decode"
  /\ tag[n] \in Batched
  /\ \/ /\ HasInvalid(body[n])
        /\ stage' = [stage EXCEPT ![n] = "invalid"]
        /\ SocketClose
        /\ UNCHANGED <<rest, delivered, calls>>
     \/ /\ body[n] = <<>>
        /\ stage' = [stage EXCEPT ![n] = "done"]
        /\ UNCHANGED <<socket, rest, delivered, calls>>
     \/ /\ body[n] # <<>>
        /\ ~HasInvalid(body[n])
        /\ stage' = [stage EXCEPT ![n] = DeliverStage(body[n][1])]
        /\ rest' = [rest EXCEPT ![n] = Tail(body[n])]
        /\ Deliver(n, body[n][1])
  /\ UNCHANGED <<closed, enabled, handshake, input, listenLock,
                 packetQueue, lastReceived>>

\* A listener has returned and there is another one: listenPacket calls it,
\* whatever has become of the connection meanwhile.
NextListener(n) ==
  /\ stage[n] = "listen"
  /\ calls[n] < Listeners[tag[n]]
  /\ calls' = [calls EXCEPT ![n] = @ + 1]
  /\ UNCHANGED <<conn, input, stage, rest, listenLock, packetQueue,
                 lastReceived, delivered>>

\* The last listener has returned.
ListenersReturn(n) ==
  /\ stage[n] = "listen"
  /\ calls[n] = Listeners[tag[n]]
  /\ stage' = [stage EXCEPT ![n] = "post"]
  /\ UNCHANGED <<conn, input, rest, listenLock, packetQueue, lastReceived,
                 delivered, calls>>

\* A listener threw: listenPacket calls no other one, reports it to
\* invalidPacket and carries on.
ListenerThrows(n) ==
  /\ stage[n] = "listen"
  /\ stage' = [stage EXCEPT ![n] = "post"]
  /\ SocketClose
  /\ UNCHANGED <<closed, enabled, handshake, input, rest, listenLock,
                 packetQueue, lastReceived, delivered, calls>>

\* onReceive_post is over and no result is left: the lane goes to the next.
PostThenRelease(n) ==
  /\ stage[n] = "post"
  /\ rest[n] = <<>>
  /\ Release(n, "done")
  /\ UNCHANGED <<conn, input, rest, lastReceived, delivered, calls>>

\* The same inside the batch loop: deliverPacket releases the lane, which
\* starts the queue's head, and the loop locks it again for its next result.
PostThenNextResult(n) ==
  /\ stage[n] = "post"
  /\ rest[n] # <<>>
  /\ LET l == Lane(n)
         q == packetQueue[l]
         s == DeliverStage(Head(rest[n]))
     IN /\ listenLock' = [listenLock EXCEPT ![l] = TRUE]
        /\ IF q = <<>>
           THEN /\ stage' = [stage EXCEPT ![n] = s]
                /\ UNCHANGED packetQueue
           ELSE /\ stage' = [stage EXCEPT ![n] = s, ![Head(q)] = "pre"]
                /\ packetQueue' = [packetQueue EXCEPT ![l] = Tail(@)]
  /\ Deliver(n, Head(rest[n]))
  /\ rest' = [rest EXCEPT ![n] = Tail(@)]
  /\ UNCHANGED <<closed, enabled, handshake, input, lastReceived>>

-----------------------------------------------------------------------------
(* The connection around the pipeline. *)

\* Connection.close, called by the application or by another component.
Close ==
  /\ ~closed
  /\ closed' = TRUE
  /\ SocketClose
  /\ UNCHANGED <<enabled, handshake, input, stage, rest, listenLock,
                 packetQueue, lastReceived, delivered, calls>>

\* The timer the constructor sets when a handshake packet is required.
HandshakeTimeout ==
  /\ handshakePacket # NoTag
  /\ ~handshakeComplete
  /\ socket # "closed"
  /\ closed' = TRUE
  /\ SocketClose
  /\ UNCHANGED <<enabled, handshake, input, stage, rest, listenLock,
                 packetQueue, lastReceived, delivered, calls>>

\* The close event: the peer or the network ended the connection, or a close
\* started here has completed.
SocketClosed ==
  /\ socket # "closed"
  /\ socket' = "closed"
  /\ closed' = TRUE
  /\ lastReceived' = [t \in Tags |-> None]
  /\ UNCHANGED <<enabled, handshake, input, stage, rest, listenLock,
                 packetQueue, delivered, calls>>

EnablePacket(t) ==
  /\ t \notin enabled
  /\ enabled' = enabled \cup {t}
  /\ UNCHANGED <<closed, socket, handshake, input, stage, rest,
                 listenLock, packetQueue, lastReceived, delivered, calls>>

DisablePacket(t) ==
  /\ t \in enabled
  /\ enabled' = enabled \ {t}
  /\ UNCHANGED <<closed, socket, handshake, input, stage, rest,
                 listenLock, packetQueue, lastReceived, delivered, calls>>

-----------------------------------------------------------------------------
Handler(n) ==
  \/ PreThenRereference(n) \/ PreThenDecode(n)
  \/ Decode(n) \/ DecodeBatch(n)
  \/ NextListener(n) \/ ListenersReturn(n) \/ ListenerThrows(n)
  \/ PostThenRelease(n) \/ PostThenNextResult(n)

Next ==
  \/ \E t \in Tags : \E b \in Bodies[t] : ReceiveFrame(t, b)
  \/ RejectFrame
  \/ \E n \in FrameId : Handler(n) \/ PreCancels(n)
  \/ Close \/ HandshakeTimeout \/ SocketClosed
  \/ \E t \in Toggled : EnablePacket(t) \/ DisablePacket(t)

Spec == Init /\ [][Next]_vars

\* The event loop resumes every suspended handler.  Listeners and middleware
\* are assumed to settle: a listener that never returns holds its lane.
Fairness == \A n \in FrameId : WF_vars(Handler(n) \/ PreCancels(n))

FairSpec == Spec /\ Fairness

-----------------------------------------------------------------------------
(* Properties *)

Running(n) == stage[n] \in {"pre", "decode", "listen", "post"}

\* Every variable keeps its shape: frames beyond arrived are absent, queues
\* hold arrived frames, histories hold values that passed validation.
TypeOK ==
  /\ closed \in BOOLEAN
  /\ socket \in {"open", "closing", "closed"}
  /\ enabled \subseteq Tags
  /\ handshakePacket \in Handshakes
  /\ handshakeComplete \in BOOLEAN
  /\ arrived \in 0..MaxFrames
  /\ tag \in [FrameId -> Tags \cup {NoTag}]
  /\ body \in [FrameId -> Seq(Values \cup {Invalid})]
  /\ \A n \in FrameId : n <= arrived => tag[n] \in Tags /\ body[n] \in Bodies[tag[n]]
  /\ stage \in [FrameId -> Stages]
  /\ \A n \in FrameId : stage[n] = "absent" <=> n > arrived
  /\ rest \in [FrameId -> Seq(Values \cup {Invalid})]
  /\ listenLock \in [Lanes -> BOOLEAN]
  /\ packetQueue \in [Lanes -> Seq(FrameId)]
  /\ lastReceived \in [Tags -> Values \cup {Invalid, None}]
  /\ delivered \in [Lanes -> Seq([frame : FrameId, value : Values])]
  /\ calls \in [FrameId -> Nat]
  /\ \A n \in FrameId : stage[n] = "listen" => calls[n] \in 1..Listeners[tag[n]]

\* A lane no batched packet uses.
Serial(l) == \A t \in Batched : LaneOf(t) # l

\* On a lane that no batched packet uses, the listeners of one packet have
\* finished before the listeners of another one start (README: "your
\* callbacks will not be called until the last one finishes").
SerialLaneListeners ==
  \A m, n \in FrameId :
    (m # n /\ stage[m] = "listen" /\ stage[n] = "listen" /\ Lane(m) = Lane(n))
      => ~Serial(Lane(m))

\* A frame waits in a queue only while the lane is locked, exactly once, and
\* in arrival order.
QueueBehindLock ==
  \A l \in Lanes :
    /\ packetQueue[l] # <<>> => listenLock[l]
    /\ \A i, j \in DOMAIN packetQueue[l] :
          i < j => packetQueue[l][i] < packetQueue[l][j]
    /\ {packetQueue[l][i] : i \in DOMAIN packetQueue[l]}
         = {n \in FrameId : stage[n] = "queued" /\ Lane(n) = l}

\* The payloads of the packet of n that its sender sent before n ...
Earlier(n) == {m \in 1..(n - 1) : tag[m] = tag[n] /\ body[m] # <<>>}

\* ... the last of which an empty payload n stands for, as its sender means it.
StandsFor(n, m) == m \in Earlier(n) /\ \A k \in Earlier(n) : k <= m

\* An empty payload is delivered as the value its sender re-referenced, the
\* one in the last preceding frame of the packet, though frames of other
\* packets and the decoding of that frame itself were pending when it arrived;
\* unless middleware cancelled that frame: onReceive_pre keeps it out of
\* lastReceived, and the value before it is delivered.
RereferenceFaithful ==
  \A l \in Lanes : \A i \in DOMAIN delivered[l] :
    LET d == delivered[l][i]
    IN IsRereference(d.frame) =>
         /\ Earlier(d.frame) # {}
         /\ \A m \in Earlier(d.frame) :
              (StandsFor(d.frame, m) /\ stage[m] # "cancelled") => d.value = body[m][1]

\* With a required handshake packet, a packet that shares its lane is delivered
\* only after the handshake packet's listeners have finished ("require one
\* non-batched client packet before all others").  The gate itself opens when
\* the handshake frame arrives: this holds as long as the socket is open, which
\* a refused handshake frame ends, and no middleware cancels that frame.
HandshakeFirstInLane ==
  (/\ handshakePacket # NoTag
   /\ socket = "open"
   /\ \A m \in FrameId : stage[m] = "cancelled" => tag[m] # handshakePacket) =>
    \A l \in Lanes : (Serial(l) /\ l = LaneOf(handshakePacket)) =>
      \A i \in DOMAIN delivered[l] :
        LET n == delivered[l][i].frame
        IN tag[n] # handshakePacket =>
             \E m \in 1..(n - 1) : tag[m] = handshakePacket /\ stage[m] = "done"

\* Once the connection is closed no further value is handed to listeners,
\* although frames are still queued, decoding or waiting for their middleware.
\* Of a value that was handed over before, the listeners not called yet are
\* still called: between two of them nobody looks at closed (README.md:50 says
\* that no function is called after the close).
NoDeliveryAfterClose == [][closed => delivered' = delivered]_vars

\* A batch without sectors, from whose handler the lane is never released.
EmptyBatch(m) == tag[m] \in Batched /\ body[m] = <<>>

\* A frame that was accepted while the socket stays open is delivered or
\* cancelled in the end, however many frames are ahead of it, unless an empty
\* batch came before it on its lane.
EveryFrameSettles ==
  \A n \in FrameId :
    n <= arrived ~> \/ stage[n] \in {"done", "cancelled"}
                    \/ socket # "open"
                    \/ \E m \in 1..n : EmptyBatch(m) /\ Lane(m) = Lane(n)

-----------------------------------------------------------------------------
(* Refinement: each lane that no batched packet uses is a first-in first-out *)
(* server of one frame at a time.                                            *)

SerialLanes == {l \in Lanes : Serial(l)}

\* The member of a set of at most one frame.
Only(S) == IF S = {} THEN None ELSE CHOOSE n \in S : TRUE

\* The frame of lane l whose handler has not come to its listeners yet ...
Handed(l) == {n \in FrameId : stage[n] \in {"pre", "decode"} /\ Lane(n) = l}

\* ... goes ahead of those that wait for the lane.
WaitingIn(l) ==
  IF Handed(l) = {} THEN packetQueue[l] ELSE <<Only(Handed(l))>> \o packetQueue[l]

Listening(l) == {n \in FrameId : stage[n] = "listen" /\ Lane(n) = l}

Abstract == INSTANCE SerialListeners WITH
  Lanes <- SerialLanes,
  Idle <- None,
  waiting <- [l \in SerialLanes |-> WaitingIn(l)],
  running <- [l \in SerialLanes |-> Only(Listening(l))]

\* On lanes that no batched packet uses, the locks, queues and awaits of the
\* connection implement a first-in first-out server of one frame at a time.
ImplementsSerialListeners == Abstract!Spec
=============================================================================
