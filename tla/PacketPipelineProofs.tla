------------------------ MODULE PacketPipelineProofs ------------------------
(***************************************************************************)
(* What holds of the packet pipeline for every table of packets, every     *)
(* traffic and any number of frames: its types, the discipline of its      *)
(* locks and queues, and the serialisation of listeners that follows; the  *)
(* frame an empty payload stands for, and the handshake packet's start;    *)
(* and that the pipeline implements SerialListeners.                       *)
(***************************************************************************)
EXTENDS PacketPipeline, TLAPS

\* A handler past its middleware decodes a payload that is there.
DecodingHasPayload == \A n \in FrameId : stage[n] = "decode" => ~IsRereference(n)

\* Only the batch loop leaves results behind.
RestOnlyBatched ==
  \A n \in FrameId : rest[n] # <<>> => n <= arrived /\ tag[n] \in Batched

\* On a lane no batch uses, a running handler holds the lock ...
LaneHeld ==
  \A n \in FrameId : (Running(n) /\ Serial(Lane(n))) => listenLock[Lane(n)]

\* ... and it is the only one: no two are between their first await and their
\* release.
OneRunning ==
  \A m, n \in FrameId :
    (m # n /\ Running(m) /\ Running(n) /\ Lane(m) = Lane(n)) => ~Serial(Lane(m))

\* The part of the invariant about lanes, and the variables it speaks of.
LaneTypes ==
  /\ arrived \in 0..MaxFrames
  /\ tag \in [FrameId -> Tags \cup {NoTag}]
  /\ stage \in [FrameId -> Stages]
  /\ \A n \in FrameId : stage[n] = "absent" <=> n > arrived
  /\ listenLock \in [Lanes -> BOOLEAN]
  /\ packetQueue \in [Lanes -> Seq(FrameId)]

LaneInv == LaneTypes /\ QueueBehindLock /\ LaneHeld /\ OneRunning

IInv == TypeOK /\ LaneInv /\ DecodingHasPayload /\ RestOnlyBatched

-----------------------------------------------------------------------------
(* The four ways a step touches the lanes. *)

\* Every frame, accepted or not, is on a lane.
LEMMA LaneOfFrame ==
  ASSUME LaneTypes, PipelineAssumption, NEW n \in FrameId
  PROVE  Lane(n) \in Lanes
BY DEF LaneTypes, PipelineAssumption, Lane, LaneOf, Lanes

\* A running handler that goes on, or stops without releasing its lane, keeps
\* the discipline of the lanes; so does one that locks a lane again.
LEMMA MovePreserves ==
  ASSUME LaneInv, PipelineAssumption,
         NEW n \in FrameId, Running(n),
         NEW x \in Stages \ {"absent", "queued"},
         stage' = [stage EXCEPT ![n] = x],
         listenLock' \in [Lanes -> BOOLEAN],
         \A l \in Lanes : listenLock[l] => listenLock'[l],
         UNCHANGED <<arrived, tag, packetQueue>>
  PROVE  LaneInv'
<1> USE DEF LaneInv
<1>1. LaneTypes'
  BY DEF LaneTypes, Running, Stages
<1>2. \A m \in FrameId : Lane(m)' = Lane(m)
  BY DEF Lane
<1>3. QueueBehindLock'
  <2>1. \A m \in FrameId : stage'[m] = "queued" <=> stage[m] = "queued"
    BY DEF LaneTypes, Running, Stages
  <2>2. QED BY <1>2, <2>1 DEF QueueBehindLock
<1>4. \A m \in FrameId : Running(m)' => Running(m)
  BY DEF LaneTypes, Running
<1>5. LaneHeld'
  BY <1>2, <1>4, LaneOfFrame DEF LaneHeld, Serial
<1>6. OneRunning'
  BY <1>2, <1>4 DEF OneRunning, Serial
<1>7. QED BY <1>1, <1>3, <1>5, <1>6

\* A frame that arrives takes its lane if it is free and queues otherwise.
LEMMA HandlePreserves ==
  ASSUME LaneInv, PipelineAssumption,
         NEW t \in Tags, NEW n, n = arrived + 1, arrived < MaxFrames,
         arrived' = n,
         tag' = [tag EXCEPT ![n] = t],
         Handle(n, t)
  PROVE  LaneInv'
<1> DEFINE l == LaneOf(t)
<1> USE DEF LaneInv
<1>1. n \in FrameId /\ l \in Lanes /\ MaxFrames \in Nat /\ arrived \in Nat
  BY DEF LaneTypes, PipelineAssumption, FrameId, LaneOf, Lanes
<1>2. stage[n] = "absent"
  BY <1>1 DEF LaneTypes
<1>3. /\ Lane(n)' = l
      /\ \A m \in FrameId : m # n => Lane(m)' = Lane(m)
  BY <1>1 DEF Lane, LaneTypes
<1>4. \A k \in Lanes : \A i \in DOMAIN packetQueue[k] :
        /\ packetQueue[k][i] \in FrameId
        /\ packetQueue[k][i] # n
        /\ packetQueue[k][i] < n
  <2> SUFFICES ASSUME NEW k \in Lanes, NEW i \in DOMAIN packetQueue[k]
               PROVE  /\ packetQueue[k][i] \in FrameId
                      /\ packetQueue[k][i] # n
                      /\ packetQueue[k][i] < n
    OBVIOUS
  <2>1. packetQueue[k][i] \in FrameId
    BY DEF LaneTypes
  <2>2. stage[packetQueue[k][i]] = "queued"
    BY DEF QueueBehindLock
  <2>3. ~(packetQueue[k][i] > arrived)
    BY <2>1, <2>2 DEF LaneTypes
  <2>4. QED BY <1>1, <2>1, <2>3 DEF FrameId
<1>5. CASE listenLock[l]
  <2>1. /\ packetQueue' = [packetQueue EXCEPT ![l] = Append(@, n)]
        /\ stage' = [stage EXCEPT ![n] = "queued"]
        /\ listenLock' = listenLock
    BY <1>5 DEF Handle
  <2>2. LaneTypes'
    BY <1>1, <2>1 DEF LaneTypes, Stages, FrameId
  <2>3. \A m \in FrameId : Running(m)' <=> Running(m)
    BY <1>1, <1>2, <2>1 DEF LaneTypes, Running
  <2>4. LaneHeld' /\ OneRunning'
    <3>1. ~Running(n)
      BY <1>2 DEF Running
    <3>2. LaneHeld'
      BY <1>3, <2>1, <2>3, <3>1 DEF LaneHeld, Serial
    <3>3. OneRunning'
      BY <1>3, <2>1, <2>3, <3>1 DEF OneRunning, Serial
    <3>4. QED BY <3>2, <3>3
  <2>5. QueueBehindLock'
    <3> SUFFICES ASSUME NEW k \in Lanes
                 PROVE  /\ packetQueue'[k] # <<>> => listenLock'[k]
                        /\ \A i, j \in DOMAIN packetQueue'[k] :
                              i < j => packetQueue'[k][i] < packetQueue'[k][j]
                        /\ {packetQueue'[k][i] : i \in DOMAIN packetQueue'[k]}
                             = {m \in FrameId : stage'[m] = "queued" /\ Lane(m)' = k}
      BY DEF QueueBehindLock
    <3>1. CASE k # l
      <4>1. packetQueue'[k] = packetQueue[k] /\ listenLock'[k] = listenLock[k]
        BY <2>1, <3>1 DEF LaneTypes
      <4>2. {m \in FrameId : stage'[m] = "queued" /\ Lane(m)' = k}
              = {m \in FrameId : stage[m] = "queued" /\ Lane(m) = k}
        BY <1>1, <1>2, <1>3, <2>1, <3>1 DEF LaneTypes
      <4>3. QED BY <4>1, <4>2 DEF QueueBehindLock
    <3>2. CASE k = l
      <4> DEFINE q == packetQueue[l]
      <4>1. q \in Seq(FrameId)
        BY <1>1 DEF LaneTypes
      <4>2. packetQueue'[k] = Append(q, n)
        BY <1>1, <2>1, <3>2 DEF LaneTypes
      <4>3. /\ DOMAIN Append(q, n) = DOMAIN q \cup {Len(q) + 1}
            /\ \A i \in DOMAIN q : Append(q, n)[i] = q[i]
            /\ Append(q, n)[Len(q) + 1] = n
            /\ DOMAIN q = 1..Len(q) /\ Len(q) \in Nat
        BY <1>1, <4>1
      <4>4. {Append(q, n)[i] : i \in DOMAIN Append(q, n)}
              = {q[i] : i \in DOMAIN q} \cup {n}
        BY <4>3
      <4>5. {m \in FrameId : stage'[m] = "queued" /\ Lane(m)' = k}
              = {m \in FrameId : stage[m] = "queued" /\ Lane(m) = l} \cup {n}
        BY ZenonT(40), <1>1, <1>2, <1>3, <2>1, <3>2 DEF LaneTypes
      <4>6. \A i, j \in DOMAIN Append(q, n) :
              i < j => Append(q, n)[i] < Append(q, n)[j]
        BY <1>1, <1>4, <4>3 DEF QueueBehindLock
      <4>7. listenLock'[k]
        BY <1>5, <2>1, <3>2
      <4>8. {q[i] : i \in DOMAIN q}
              = {m \in FrameId : stage[m] = "queued" /\ Lane(m) = l}
        BY <1>1 DEF QueueBehindLock
      <4>9. {packetQueue'[k][i] : i \in DOMAIN packetQueue'[k]}
              = {m \in FrameId : stage'[m] = "queued" /\ Lane(m)' = k}
        <5> DEFINE A == {Append(q, n)[i] : i \in DOMAIN Append(q, n)}
                   Q == {q[i] : i \in DOMAIN q}
        <5>1. {packetQueue'[k][i] : i \in DOMAIN packetQueue'[k]} = A
          BY <4>2
        <5>2. A = Q \cup {n}
          BY <4>4
        <5>3. Q = {m \in FrameId : stage[m] = "queued" /\ Lane(m) = l}
          BY <4>8
        <5> HIDE DEF A, Q
        <5>4. QED BY <5>1, <5>2, <5>3, <4>5
      <4>10. QED BY <4>2, <4>6, <4>7, <4>9, Zenon
    <3>3. QED BY <3>1, <3>2
  <2>6. QED BY <2>2, <2>4, <2>5
<1>6. CASE ~listenLock[l]
  <2>1. /\ packetQueue' = packetQueue
        /\ stage' = [stage EXCEPT ![n] = "pre"]
        /\ listenLock' = [listenLock EXCEPT ![l] = TRUE]
    BY <1>6 DEF Handle
  <2>2. LaneTypes'
    BY <1>1, <2>1 DEF LaneTypes, Stages, FrameId
  <2>3. \A m \in FrameId : m # n => (Running(m)' <=> Running(m))
    BY <1>1, <2>1 DEF LaneTypes, Running
  <2>4. LaneHeld'
    BY <1>1, <1>3, <2>1, <2>3 DEF LaneHeld, Serial, LaneTypes
  <2>5. OneRunning'
    <3>1. \A m \in FrameId : (m # n /\ Running(m) /\ Lane(m) = l) => ~Serial(l)
      BY <1>6 DEF LaneHeld
    <3>2. QED BY <1>3, <2>3, <3>1 DEF OneRunning, Serial
  <2>6. QueueBehindLock'
    <3>1. \A k \in Lanes : {m \in FrameId : stage'[m] = "queued" /\ Lane(m)' = k}
                         = {m \in FrameId : stage[m] = "queued" /\ Lane(m) = k}
      BY <1>1, <1>2, <1>3, <2>1 DEF LaneTypes
    <3>2. \A k \in Lanes : listenLock[k] => listenLock'[k]
      BY <1>1, <2>1 DEF LaneTypes
    <3>3. QED BY <2>1, <3>1, <3>2 DEF QueueBehindLock
  <2>7. QED BY <2>2, <2>4, <2>5, <2>6
<1>7. QED BY <1>5, <1>6

\* Handing the lane to the head of its queue keeps the discipline, provided a
\* handler that goes on all the same (the batch loop) is not on a serial lane.
LEMMA StartHeadPreserves ==
  ASSUME LaneInv, PipelineAssumption,
         NEW n \in FrameId, Running(n),
         NEW x \in Stages \ {"absent", "queued"},
         x \in {"pre", "decode", "listen", "post"} => ~Serial(Lane(n)),
         packetQueue[Lane(n)] # <<>>,
         stage' = [stage EXCEPT ![n] = x, ![Head(packetQueue[Lane(n)])] = "pre"],
         packetQueue' = [packetQueue EXCEPT ![Lane(n)] = Tail(@)],
         listenLock' = [listenLock EXCEPT ![Lane(n)] = TRUE],
         UNCHANGED <<arrived, tag>>
  PROVE  LaneInv'
<1> DEFINE q == packetQueue[Lane(n)]
<1> USE DEF LaneInv
<1>0. Lane(n) \in Lanes
  BY LaneOfFrame
<1> PICK l \in Lanes : l = Lane(n)
  BY <1>0
<1>1. PICK h : h = Head(q)
  OBVIOUS
<1>2. /\ q \in Seq(FrameId)
      /\ Len(q) \in Nat /\ Len(q) >= 1
      /\ DOMAIN q = 1..Len(q)
      /\ Tail(q) \in Seq(FrameId)
      /\ DOMAIN Tail(q) = 1..(Len(q) - 1)
      /\ \A i \in 1..(Len(q) - 1) : Tail(q)[i] = q[i + 1]
      /\ h = q[1]
  BY <1>0, <1>1 DEF LaneTypes
<1>3. /\ h \in FrameId
      /\ stage[h] = "queued"
      /\ Lane(h) = l
      /\ h # n
  BY <1>0, <1>2 DEF QueueBehindLock, Running
<1>4. \A m \in FrameId : Lane(m)' = Lane(m)
  BY DEF Lane
<1>5. /\ stage'[h] = "pre"
      /\ stage'[n] = x
      /\ \A m \in FrameId \ {h, n} : stage'[m] = stage[m]
  BY <1>1, <1>3 DEF LaneTypes
<1>6. LaneTypes'
  <2>1. stage' \in [FrameId -> Stages]
    BY DEF LaneTypes, Stages
  <2>2. \A m \in FrameId : stage'[m] = "absent" <=> stage[m] = "absent"
    BY <1>3, <1>5 DEF Running
  <2>3. packetQueue' \in [Lanes -> Seq(FrameId)]
    BY <1>2 DEF LaneTypes
  <2>4. listenLock' \in [Lanes -> BOOLEAN]
    BY DEF LaneTypes
  <2>5. QED BY <2>1, <2>2, <2>3, <2>4 DEF LaneTypes
<1>7. \A m \in FrameId \ {h, n} : Running(m)' <=> Running(m)
  BY <1>5 DEF Running
<1>8. Running(n)' => ~Serial(l)
  BY <1>5 DEF Running
<1>9. ~Running(h) /\ \A k \in Lanes : listenLock[k] => listenLock'[k]
  BY <1>3 DEF Running, LaneTypes
<1>10. LaneHeld'
  <2> SUFFICES ASSUME NEW m \in FrameId, Running(m)', Serial(Lane(m))
               PROVE  listenLock'[Lane(m)]
    BY <1>4 DEF LaneHeld, Serial
  <2>1. Lane(m) \in Lanes
    BY LaneOfFrame
  <2>2. CASE m = h
    BY <1>0, <1>3, <2>2 DEF LaneTypes
  <2>3. CASE m = n
    BY <1>8, <2>3
  <2>4. CASE m \notin {h, n}
    BY <1>7, <1>9, <2>1, <2>4 DEF LaneHeld
  <2>5. QED BY <2>2, <2>3, <2>4
<1>11. OneRunning'
  <2> SUFFICES ASSUME NEW k \in FrameId, NEW m \in FrameId, k # m,
                      Running(k)', Running(m)', Lane(k) = Lane(m),
                      Serial(Lane(k))
               PROVE  FALSE
    BY <1>4 DEF OneRunning, Serial
  <2>1. k # n /\ m # n
    BY <1>8
  <2>2. \A j \in FrameId \ {h, n} : (Running(j)' /\ Lane(j) = l) => ~Serial(l)
    BY <1>7 DEF OneRunning
  <2>3. k # h /\ m # h
    BY <1>3, <2>1, <2>2
  <2>4. QED BY <1>7, <2>1, <2>3 DEF OneRunning
<1>12. QueueBehindLock'
  <2> SUFFICES ASSUME NEW k \in Lanes
               PROVE  /\ packetQueue'[k] # <<>> => listenLock'[k]
                      /\ \A i, j \in DOMAIN packetQueue'[k] :
                            i < j => packetQueue'[k][i] < packetQueue'[k][j]
                      /\ {packetQueue'[k][i] : i \in DOMAIN packetQueue'[k]}
                           = {m \in FrameId : stage'[m] = "queued" /\ Lane(m) = k}
    BY ZenonT(40), <1>4 DEF QueueBehindLock
  <2>1. CASE k # l
    <3>1. packetQueue'[k] = packetQueue[k] /\ listenLock'[k] = listenLock[k]
      BY <2>1 DEF LaneTypes
    <3>2. {m \in FrameId : stage'[m] = "queued" /\ Lane(m) = k}
            = {m \in FrameId : stage[m] = "queued" /\ Lane(m) = k}
      BY <1>3, <1>5, <2>1
    <3>3. /\ packetQueue[k] # <<>> => listenLock[k]
          /\ \A i, j \in DOMAIN packetQueue[k] :
                i < j => packetQueue[k][i] < packetQueue[k][j]
          /\ {packetQueue[k][i] : i \in DOMAIN packetQueue[k]}
               = {m \in FrameId : stage[m] = "queued" /\ Lane(m) = k}
      BY DEF QueueBehindLock
    <3>4. {packetQueue'[k][i] : i \in DOMAIN packetQueue'[k]}
            = {packetQueue[k][i] : i \in DOMAIN packetQueue[k]}
      BY <3>1, Zenon
    <3>5. QED BY <3>1, <3>2, <3>3, <3>4
  <2>2. CASE k = l
    <3>1. packetQueue'[k] = Tail(q) /\ listenLock'[k]
      BY <2>2 DEF LaneTypes
    <3>2. \A i, j \in 1..(Len(q) - 1) : i < j => Tail(q)[i] < Tail(q)[j]
      BY <1>0, <1>2 DEF QueueBehindLock
    <3>3. {q[i] : i \in 1..Len(q)}
            = {m \in FrameId : stage[m] = "queued" /\ Lane(m) = l}
      BY <1>0, <1>2 DEF QueueBehindLock
    <3>4. {Tail(q)[i] : i \in 1..(Len(q) - 1)} = {q[i] : i \in 2..Len(q)}
      <4>1. \A i \in 1..(Len(q) - 1) : i + 1 \in 2..Len(q) /\ Tail(q)[i] = q[i + 1]
        BY <1>2
      <4>2. \A i \in 2..Len(q) : i - 1 \in 1..(Len(q) - 1) /\ Tail(q)[i - 1] = q[i]
        BY <1>2
      <4>3. {Tail(q)[i] : i \in 1..(Len(q) - 1)} \subseteq {q[i] : i \in 2..Len(q)}
        BY <4>1
      <4>4. {q[i] : i \in 2..Len(q)} \subseteq {Tail(q)[i] : i \in 1..(Len(q) - 1)}
        BY <4>2
      <4>5. QED BY <4>3, <4>4
    <3>5. {q[i] : i \in 2..Len(q)} = {q[i] : i \in 1..Len(q)} \ {h}
      <4>1. \A i \in 2..Len(q) : q[i] \in FrameId /\ q[1] < q[i]
        BY <1>0, <1>2 DEF QueueBehindLock
      <4>2. \A i \in 2..Len(q) : q[i] # h
        BY <1>2, <4>1 DEF FrameId
      <4>3. \A i \in 1..Len(q) : q[i] # h => i \in 2..Len(q)
        BY <1>2
      <4>4. QED BY <1>2, <4>2, <4>3
    <3>6. {m \in FrameId : stage'[m] = "queued" /\ Lane(m) = k}
            = {m \in FrameId : stage[m] = "queued" /\ Lane(m) = l} \ {h}
      BY <1>3, <1>5, <2>2 DEF Running
    <3>7. {Tail(q)[i] : i \in DOMAIN Tail(q)}
            = {m \in FrameId : stage'[m] = "queued" /\ Lane(m) = k}
      BY <1>2, <3>3, <3>4, <3>5, <3>6
    <3>8. \A i, j \in DOMAIN Tail(q) : i < j => Tail(q)[i] < Tail(q)[j]
      BY <1>2, <3>2
    <3>9. {packetQueue'[k][i] : i \in DOMAIN packetQueue'[k]}
            = {Tail(q)[i] : i \in DOMAIN Tail(q)}
      BY <3>1, Zenon
    <3>10. QED BY <3>1, <3>7, <3>8, <3>9
  <2>3. QED BY <2>1, <2>2
<1>13. QED BY <1>6, <1>10, <1>11, <1>12

\* releasePacketLock keeps the discipline, whether it starts the next frame or
\* leaves the lane free.
LEMMA ReleasePreserves ==
  ASSUME LaneInv, PipelineAssumption,
         NEW n \in FrameId, Running(n),
         NEW s \in {"done", "cancelled"},
         Release(n, s),
         UNCHANGED <<arrived, tag>>
  PROVE  LaneInv'
<1> USE DEF LaneInv
<1>0. Lane(n) \in Lanes /\ s \in Stages \ {"absent", "queued"}
  BY LaneOfFrame DEF Stages
<1>1. CASE packetQueue[Lane(n)] # <<>>
  BY <1>0, <1>1, StartHeadPreserves DEF Release
<1>2. CASE packetQueue[Lane(n)] = <<>>
  <2>1. /\ listenLock' = [listenLock EXCEPT ![Lane(n)] = FALSE]
        /\ stage' = [stage EXCEPT ![n] = s]
        /\ packetQueue' = packetQueue
    BY <1>2 DEF Release
  <2>2. \A m \in FrameId : Lane(m)' = Lane(m)
    BY DEF Lane
  <2>3. LaneTypes'
    BY <1>0, <2>1 DEF LaneTypes, Running
  <2>4. \A m \in FrameId : /\ stage'[m] = "queued" <=> stage[m] = "queued"
                           /\ Running(m)' => Running(m) /\ m # n
    BY <2>1 DEF LaneTypes, Running
  <2>5. QueueBehindLock'
    <3>1. \A k \in Lanes : packetQueue[k] # <<>> => listenLock'[k]
      BY <1>0, <1>2, <2>1 DEF QueueBehindLock, LaneTypes
    <3>2. QED BY <2>1, <2>2, <2>4, <3>1 DEF QueueBehindLock
  <2>6. LaneHeld'
    <3> SUFFICES ASSUME NEW m \in FrameId, Running(m)', Serial(Lane(m))
                 PROVE  listenLock'[Lane(m)]
      BY <2>2 DEF LaneHeld, Serial
    <3>1. Lane(m) \in Lanes /\ Lane(m) # Lane(n)
      BY <2>4, LaneOfFrame DEF OneRunning
    <3>2. QED BY <2>1, <2>4, <3>1 DEF LaneHeld, LaneTypes
  <2>7. OneRunning'
    BY <2>2, <2>4 DEF OneRunning, Serial
  <2>8. QED BY <2>3, <2>5, <2>6, <2>7
<1>3. QED BY <1>1, <1>2

\* The batch loop, which releases its lane and locks it again, keeps it too.
LEMMA NextResultPreserves ==
  ASSUME IInv, PipelineAssumption, NEW n \in FrameId, PostThenNextResult(n)
  PROVE  LaneInv'
<1> DEFINE x == DeliverStage(Head(rest[n]))
<1>1. LaneInv /\ Running(n) /\ Lane(n) \in Lanes
  BY LaneOfFrame DEF IInv, LaneInv, PostThenNextResult, Running
<1>2. x \in Stages \ {"absent", "queued"}
  BY DEF DeliverStage, Stages
<1>3. ~Serial(Lane(n))
  BY DEF IInv, RestOnlyBatched, PostThenNextResult, Serial, Lane
<1>4. UNCHANGED <<arrived, tag>> /\ listenLock' = [listenLock EXCEPT ![Lane(n)] = TRUE]
  BY DEF PostThenNextResult, input
<1>5. CASE packetQueue[Lane(n)] = <<>>
  <2>1. stage' = [stage EXCEPT ![n] = x] /\ packetQueue' = packetQueue
    BY <1>5 DEF PostThenNextResult
  <2>2. /\ listenLock' \in [Lanes -> BOOLEAN]
        /\ \A l \in Lanes : listenLock[l] => listenLock'[l]
    BY <1>1, <1>4 DEF LaneInv, LaneTypes
  <2>3. QED BY <1>1, <1>2, <1>4, <2>1, <2>2, MovePreserves
<1>6. CASE packetQueue[Lane(n)] # <<>>
  <2>1. /\ stage' = [stage EXCEPT ![n] = x, ![Head(packetQueue[Lane(n)])] = "pre"]
        /\ packetQueue' = [packetQueue EXCEPT ![Lane(n)] = Tail(@)]
    BY <1>6 DEF PostThenNextResult
  <2>2. QED BY <1>1, <1>2, <1>3, <1>4, <1>6, <2>1, StartHeadPreserves
<1>7. QED BY <1>5, <1>6

-----------------------------------------------------------------------------
(* The rest of the invariant. *)

\* The types of the variables that are not about lanes.
DataTypes ==
  /\ closed \in BOOLEAN
  /\ socket \in {"open", "closing", "closed"}
  /\ enabled \subseteq Tags
  /\ handshakePacket \in Handshakes
  /\ handshakeComplete \in BOOLEAN
  /\ body \in [FrameId -> Seq(Values \cup {Invalid})]
  /\ \A n \in FrameId : n <= arrived => tag[n] \in Tags /\ body[n] \in Bodies[tag[n]]
  /\ rest \in [FrameId -> Seq(Values \cup {Invalid})]
  /\ lastReceived \in [Tags -> Values \cup {Invalid, None}]
  /\ delivered \in [Lanes -> Seq([frame : FrameId, value : Values])]

\* A value with listeners is with one of its packet's.
CallTypes ==
  /\ calls \in [FrameId -> Nat]
  /\ \A n \in FrameId : stage[n] = "listen" => calls[n] \in 1..Listeners[tag[n]]

LEMMA TypeSplit == TypeOK <=> LaneTypes /\ DataTypes /\ CallTypes
BY DEF TypeOK, LaneTypes, DataTypes, CallTypes

LEMMA TypeSplitPrime == TypeOK' <=> LaneTypes' /\ DataTypes' /\ CallTypes'
BY DEF TypeOK, LaneTypes, DataTypes, CallTypes

\* A frame past the absent stage has arrived with a payload of its packet.
LEMMA ArrivedFrame ==
  ASSUME LaneTypes, DataTypes, PipelineAssumption,
         NEW n \in FrameId, stage[n] # "absent"
  PROVE  /\ tag[n] \in Tags
         /\ body[n] \in Bodies[tag[n]]
         /\ body[n] \in Seq(Values \cup {Invalid})
         /\ Lane(n) \in Lanes
<1>1. ~(n > arrived)
  BY DEF LaneTypes
<1>2. n <= arrived
  BY <1>1 DEF LaneTypes, FrameId, PipelineAssumption
<1>3. QED BY <1>2, LaneOfFrame DEF DataTypes

\* What Append makes of a sequence over a set.
LEMMA AppendInSeq ==
  ASSUME NEW S, NEW q \in Seq(S), NEW e \in S
  PROVE  Append(q, e) \in Seq(S)
OBVIOUS

\* Starting listeners, or refusing a value, keeps the types: what the history
\* records passed validation.
LEMMA DeliverTypes ==
  ASSUME DataTypes, PipelineAssumption, NEW n \in FrameId, Lane(n) \in Lanes,
         NEW v \in Values \cup {Invalid}, Deliver(n, v)
  PROVE  /\ socket' \in {"open", "closing", "closed"}
         /\ delivered' \in [Lanes -> Seq([frame : FrameId, value : Values])]
<1>1. CASE closed
  BY <1>1 DEF Deliver, DataTypes
<1>2. CASE ~closed /\ v = Invalid
  BY <1>2 DEF Deliver, DataTypes, SocketClose
<1>3. CASE ~closed /\ v # Invalid
  <2>1. [frame |-> n, value |-> v] \in [frame : FrameId, value : Values]
    BY <1>3
  <2>2. Append(delivered[Lane(n)], [frame |-> n, value |-> v])
          \in Seq([frame : FrameId, value : Values])
    BY <2>1, AppendInSeq, Zenon DEF DataTypes
  <2>3. /\ delivered' = [delivered EXCEPT ![Lane(n)] =
                             Append(@, [frame |-> n, value |-> v])]
        /\ socket' = socket
    BY <1>3 DEF Deliver
  <2> DEFINE E == Seq([frame : FrameId, value : Values])
  <2>4. delivered \in [Lanes -> E] /\ Append(delivered[Lane(n)], [frame |-> n, value |-> v]) \in E
    BY <2>2 DEF DataTypes
  <2> HIDE DEF E
  <2>5. delivered' \in [Lanes -> E]
    BY <2>3, <2>4
  <2>6. QED BY <2>3, <2>5 DEF DataTypes, E
<1>4. QED BY <1>1, <1>2, <1>3

\* A step that leaves the lanes alone keeps their discipline.
LEMMA LanesUntouched ==
  ASSUME LaneInv, UNCHANGED <<arrived, tag, stage, listenLock, packetQueue>>
  PROVE  LaneInv'
BY DEF LaneInv, LaneTypes, QueueBehindLock, LaneHeld, OneRunning, Running,
       Lane, Serial

\* The head of a queue is older than the rest of it.
LEMMA HeadOldest ==
  ASSUME LaneInv, PipelineAssumption, NEW l \in Lanes, packetQueue[l] # <<>>,
         NEW h, h = Head(packetQueue[l])
  PROVE  /\ h \in FrameId /\ stage[h] = "queued" /\ Lane(h) = l
         /\ \A m \in FrameId : (stage[m] = "queued" /\ Lane(m) = l) => ~(m < h)
<1> PICK q : q = packetQueue[l]
  OBVIOUS
<1>1. /\ q \in Seq(FrameId) /\ q # <<>>
  BY DEF LaneInv, LaneTypes
<1>2. Len(q) \in Nat /\ 1 \in DOMAIN q /\ DOMAIN q = 1..Len(q) /\ h = q[1]
  BY <1>1
<1>3. {q[i] : i \in DOMAIN q} = {m \in FrameId : stage[m] = "queued" /\ Lane(m) = l}
  BY DEF LaneInv, QueueBehindLock
<1>4. h \in FrameId /\ stage[h] = "queued" /\ Lane(h) = l
  BY <1>2, <1>3
<1>5. \A i, j \in DOMAIN q : i < j => q[i] < q[j]
  BY DEF LaneInv, QueueBehindLock
<1>6. ASSUME NEW m \in FrameId, stage[m] = "queued", Lane(m) = l
      PROVE  ~(m < h)
  <2>1. m \in {q[i] : i \in DOMAIN q}
    BY <1>3, <1>6
  <2>2. PICK i \in DOMAIN q : m = q[i]
    BY <2>1
  <2>3. CASE i = 1
    BY <1>2, <2>2, <2>3 DEF FrameId
  <2>4. CASE i # 1
    <3>1. 1 < i
      BY <1>2, <2>4
    <3>2. h < m
      BY <1>2, <1>5, <2>2, <3>1
    <3>3. QED BY <1>4, <3>2 DEF FrameId
  <2>5. QED BY <2>3, <2>4
<1>7. QED BY <1>4, <1>6

\* The listeners of a value are called one by one, from the first on.
LEMMA CallsKept ==
  ASSUME IInv, PipelineAssumption, [Next]_vars
  PROVE  CallTypes'
<1>0. LaneTypes /\ DataTypes /\ CallTypes
  BY TypeSplit DEF IInv
<1>1. ASSUME calls' = calls, \A m \in FrameId : stage'[m] = "listen" =>
                stage[m] = "listen" /\ tag'[m] = tag[m]
      PROVE  CallTypes'
  BY <1>0, <1>1 DEF CallTypes
<1>2. ASSUME NEW n \in FrameId, NEW v, Deliver(n, v), stage'[n] = DeliverStage(v),
             tag' = tag, tag[n] \in Tags,
             \A m \in FrameId \ {n} : stage'[m] = "listen" => stage[m] = "listen"
      PROVE  CallTypes'
  <2>1. CASE closed \/ v = Invalid
    <3>1. calls' = calls /\ stage'[n] # "listen"
      BY <1>2, <2>1 DEF Deliver, DeliverStage
    <3>2. QED BY <1>1, <1>2, <3>1
  <2>2. CASE ~closed /\ v # Invalid
    <3>1. calls' = [calls EXCEPT ![n] = 1]
      BY <1>2, <2>2 DEF Deliver
    <3>2. 1 \in 1..Listeners[tag[n]]
      BY <1>2 DEF PipelineAssumption
    <3>3. QED BY <1>0, <1>2, <3>1, <3>2 DEF CallTypes
  <2>3. QED BY <2>1, <2>2
<1>3. ASSUME NEW t \in Tags, NEW b \in Bodies[t], ReceiveFrame(t, b)
      PROVE  CallTypes'
  <2> PICK n : n = arrived + 1
    OBVIOUS
  <2>1. /\ tag' = [tag EXCEPT ![n] = t]
        /\ Handle(n, t)
        /\ arrived < MaxFrames
        /\ calls' = calls
    BY <1>3 DEF ReceiveFrame
  <2>2. n \in FrameId
    BY <1>0, <2>1 DEF LaneTypes, FrameId, PipelineAssumption
  <2>3. stage'[n] \in {"queued", "pre"} /\ \A m \in FrameId \ {n} : stage'[m] = stage[m]
    BY <1>0, <2>1, <2>2 DEF LaneTypes, Handle
  <2>4. \A m \in FrameId \ {n} : tag'[m] = tag[m]
    BY <1>0, <2>1 DEF LaneTypes
  <2>5. QED BY <1>1, <2>1, <2>3, <2>4
<1>4. ASSUME NEW n \in FrameId, Handler(n) \/ PreCancels(n)
      PROVE  CallTypes'
  <2>1. tag' = tag /\ Running(n) /\ tag[n] \in Tags
    <3>1. tag' = tag /\ Running(n)
      BY <1>4 DEF Handler, PreCancels, PreThenRereference, PreThenDecode, Decode,
         DecodeBatch, NextListener, ListenersReturn, ListenerThrows, PostThenRelease,
         PostThenNextResult, Running, input
    <3>2. stage[n] # "absent"
      BY <3>1 DEF Running
    <3>3. QED BY <1>0, <3>1, <3>2, ArrivedFrame
  <2>2. ASSUME NEW x, x # "listen", stage' = [stage EXCEPT ![n] = x], calls' = calls
        PROVE  CallTypes'
    BY <1>0, <1>1, <2>1, <2>2 DEF LaneTypes
  <2>3. ASSUME NEW s \in {"done", "cancelled"}, Release(n, s), calls' = calls
        PROVE  CallTypes'
    <3>1. \A m \in FrameId : stage'[m] = "listen" => stage[m] = "listen"
      BY <1>0, <2>3 DEF Release, LaneTypes
    <3>2. QED BY <1>1, <2>1, <2>3, <3>1
  <2>4. ASSUME NEW v, Deliver(n, v), stage' = [stage EXCEPT ![n] = DeliverStage(v)]
        PROVE  CallTypes'
    BY <1>0, <1>2, <2>1, <2>4 DEF LaneTypes
  <2>5. CASE PreThenRereference(n)
    BY <2>2, <2>4, <2>5 DEF PreThenRereference
  <2>6. CASE PreThenDecode(n)
    BY <2>2, <2>6 DEF PreThenDecode
  <2>7. CASE Decode(n)
    BY <2>4, <2>7 DEF Decode
  <2>8. CASE DecodeBatch(n)
    BY <2>2, <2>4, <2>8 DEF DecodeBatch
  <2>9. CASE NextListener(n)
    <3>1. /\ calls[n] < Listeners[tag[n]]
          /\ stage[n] = "listen"
          /\ calls' = [calls EXCEPT ![n] = @ + 1]
          /\ stage' = stage
      BY <2>9 DEF NextListener
    <3>2. calls[n] \in Nat /\ Listeners[tag[n]] \in Nat
      BY <1>0, <2>1 DEF CallTypes, PipelineAssumption
    <3>3. calls[n] + 1 \in 1..Listeners[tag[n]] /\ calls[n] + 1 \in Nat
      BY <3>1, <3>2
    <3>4. QED BY <1>0, <2>1, <3>1, <3>3 DEF CallTypes
  <2>10. CASE ListenersReturn(n) \/ ListenerThrows(n)
    BY <2>2, <2>10 DEF ListenersReturn, ListenerThrows
  <2>11. CASE PostThenRelease(n) \/ PreCancels(n)
    BY <2>3, <2>11 DEF PostThenRelease, PreCancels
  <2>12. CASE PostThenNextResult(n)
    <3> DEFINE v == Head(rest[n])
    <3>1. /\ Deliver(n, v)
          /\ stage[n] = "post"
          /\ \A m \in FrameId \ {n} : stage'[m] = "listen" => stage[m] = "listen"
      BY <1>0, <2>12 DEF PostThenNextResult, LaneTypes
    <3>2. stage'[n] = DeliverStage(v)
      <4>1. CASE packetQueue[Lane(n)] = <<>>
        BY <1>0, <2>12, <4>1 DEF PostThenNextResult, LaneTypes
      <4>2. CASE packetQueue[Lane(n)] # <<>>
        <5>1. Lane(n) \in Lanes /\ LaneInv
          BY <1>0, LaneOfFrame DEF IInv
        <5>2. stage[Head(packetQueue[Lane(n)])] = "queued"
          BY <4>2, <5>1, HeadOldest
        <5> PICK h : h = Head(packetQueue[Lane(n)])
          OBVIOUS
        <5>3. stage' = [stage EXCEPT ![n] = DeliverStage(v), ![h] = "pre"]
          BY <2>12, <4>2 DEF PostThenNextResult
        <5>4. h # n
          BY <3>1, <5>2
        <5>5. QED BY <1>0, <5>3, <5>4 DEF LaneTypes
      <4>3. QED BY <4>1, <4>2
    <3>3. QED BY <1>2, <2>1, <3>1, <3>2
  <2>13. QED
    BY <1>4, <2>5, <2>6, <2>7, <2>8, <2>9, <2>10, <2>11, <2>12 DEF Handler
<1>5. CASE \/ RejectFrame \/ Close \/ HandshakeTimeout \/ SocketClosed \/ UNCHANGED vars
           \/ \E t \in Toggled : EnablePacket(t) \/ DisablePacket(t)
  <2>1. UNCHANGED <<tag, stage, calls>>
    BY <1>5 DEF RejectFrame, Close, HandshakeTimeout, SocketClosed, EnablePacket,
       DisablePacket, vars, input
  <2>2. QED BY <1>1, <2>1
<1>6. QED BY <1>3, <1>4, <1>5 DEF Next

\* The invariant is inductive: what a handler does after an await preserves it.
LEMMA HandlerPreserves ==
  ASSUME IInv, PipelineAssumption, NEW n \in FrameId,
         Handler(n) \/ PreCancels(n)
  PROVE  IInv'
<1> SUFFICES LaneInv' /\ DataTypes' /\ DecodingHasPayload' /\ RestOnlyBatched'
  <2>1. Next
    BY DEF Next
  <2>2. QED BY <2>1, CallsKept, TypeSplitPrime DEF IInv, LaneInv
<1>0. LaneInv /\ LaneTypes /\ DataTypes /\ DecodingHasPayload /\ RestOnlyBatched
  BY TypeSplit DEF IInv, LaneInv
<1>1. Running(n) /\ stage[n] # "absent"
  BY DEF Handler, PreCancels, PreThenRereference, PreThenDecode, Decode,
         DecodeBatch, NextListener, ListenersReturn, ListenerThrows, PostThenRelease,
         PostThenNextResult, Running
<1>2. /\ tag[n] \in Tags
      /\ body[n] \in Bodies[tag[n]]
      /\ body[n] \in Seq(Values \cup {Invalid})
      /\ Lane(n) \in Lanes
  BY <1>0, <1>1, ArrivedFrame
<1>3. ASSUME UNCHANGED <<closed, enabled, handshake, input, rest,
                         lastReceived>>,
             socket' \in {"open", "closing", "closed"},
             delivered' \in [Lanes -> Seq([frame : FrameId, value : Values])]
      PROVE  DataTypes'
  BY <1>0, <1>3 DEF DataTypes, input, handshake
<1>4. ASSUME UNCHANGED <<tag, body>>,
             \A m \in FrameId : stage'[m] = "decode" => stage[m] = "decode" \/ ~IsRereference(m)
      PROVE  DecodingHasPayload'
  BY <1>0, <1>4 DEF DecodingHasPayload, IsRereference
<1>5. ASSUME UNCHANGED <<tag, rest, arrived>>
      PROVE  RestOnlyBatched'
  BY <1>0, <1>5 DEF RestOnlyBatched
<1>6. ASSUME NEW x \in Stages \ {"absent", "queued"},
             stage' = [stage EXCEPT ![n] = x],
             UNCHANGED <<input, listenLock, packetQueue>>
      PROVE  LaneInv'
  <2>1. /\ listenLock' \in [Lanes -> BOOLEAN]
        /\ \A l \in Lanes : listenLock[l] => listenLock'[l]
    BY <1>0, <1>6 DEF LaneTypes
  <2>2. UNCHANGED <<arrived, tag, packetQueue>>
    BY <1>6 DEF input
  <2>3. QED BY <1>0, <1>1, <1>6, <2>1, <2>2, MovePreserves
<1>7. SocketClose => socket' \in {"open", "closing", "closed"}
  BY <1>0 DEF DataTypes, SocketClose
<1>8. ASSUME NEW x \in Stages, x # "decode", stage' = [stage EXCEPT ![n] = x],
             UNCHANGED <<tag, body>>
      PROVE  DecodingHasPayload'
  <2>1. \A m \in FrameId : stage'[m] = "decode" => stage[m] = "decode"
    BY <1>0, <1>8 DEF LaneTypes
  <2>2. QED BY <1>4, <1>8, <2>1
<1>9. \A v : DeliverStage(v) \in {"abandoned", "post", "listen"}
  BY DEF DeliverStage
<1>10. ASSUME NEW s \in {"done", "cancelled"}, Release(n, s),
              UNCHANGED <<conn, input, rest, lastReceived, delivered>>
       PROVE  LaneInv' /\ DataTypes' /\ DecodingHasPayload' /\ RestOnlyBatched'
  <2>1. UNCHANGED <<arrived, tag, body>>
    BY <1>10 DEF input
  <2>2. LaneInv'
    BY <1>0, <1>1, <1>10, <2>1, ReleasePreserves
  <2>3. DataTypes'
    BY <1>0, <1>3, <1>10 DEF conn, handshake, DataTypes
  <2>4. \A m \in FrameId : stage'[m] = "decode" => stage[m] = "decode"
    BY <1>0, <1>10 DEF Release, LaneTypes
  <2>5. QED BY <1>4, <1>5, <1>10, <2>1, <2>2, <2>3, <2>4
<1>11. CASE PreCancels(n)
  BY <1>10, <1>11 DEF PreCancels
<1>12. CASE PreThenRereference(n)
  <2> DEFINE v == lastReceived[tag[n]]
  <2>0. v \in Values \cup {Invalid, None}
    BY <1>0, <1>2 DEF DataTypes
  <2>1. /\ UNCHANGED <<closed, enabled, handshake, input, rest,
                       listenLock, packetQueue, lastReceived>>
        /\ UNCHANGED <<arrived, tag, body>>
    BY <1>12 DEF PreThenRereference, input
  <2>2. CASE v = None
    <3>1. /\ stage' = [stage EXCEPT ![n] = "invalid"]
          /\ SocketClose
          /\ delivered' = delivered
      BY <1>12, <2>2 DEF PreThenRereference
    <3>2. "invalid" \in Stages \ {"absent", "queued", "decode"}
      BY DEF Stages
    <3>3. DataTypes'
      BY <1>0, <1>3, <1>7, <2>1, <3>1 DEF DataTypes
    <3>4. QED BY <1>5, <1>6, <1>8, <2>1, <3>1, <3>2, <3>3
  <2>3. CASE v # None
    <3>1. stage' = [stage EXCEPT ![n] = DeliverStage(v)] /\ Deliver(n, v)
      BY <1>12, <2>3 DEF PreThenRereference
    <3>2. DeliverStage(v) \in Stages \ {"absent", "queued", "decode"}
      BY <1>9 DEF Stages
    <3>3. /\ socket' \in {"open", "closing", "closed"}
          /\ delivered' \in [Lanes -> Seq([frame : FrameId, value : Values])]
      BY <1>0, <1>2, <2>0, <2>3, <3>1, DeliverTypes
    <3>4. DataTypes'
      BY <1>3, <2>1, <3>3
    <3>5. QED BY <1>5, <1>6, <1>8, <2>1, <3>1, <3>2, <3>4
  <2>4. QED BY <2>2, <2>3
<1>13. CASE PreThenDecode(n)
  <2>1. /\ stage' = [stage EXCEPT ![n] = "decode"]
        /\ UNCHANGED <<conn, input, rest, listenLock, packetQueue, lastReceived,
                       delivered>>
        /\ UNCHANGED <<arrived, tag, body>>
        /\ ~IsRereference(n)
    BY <1>13 DEF PreThenDecode, input
  <2>2. \A m \in FrameId : stage'[m] = "decode" => stage[m] = "decode" \/ ~IsRereference(m)
    BY <1>0, <2>1 DEF LaneTypes
  <2>3. DataTypes'
    BY <1>0, <1>3, <2>1 DEF DataTypes, conn, handshake
  <2>4. "decode" \in Stages \ {"absent", "queued"}
    BY DEF Stages
  <2>5. QED BY <1>4, <1>5, <1>6, <2>1, <2>2, <2>3, <2>4
<1>14. CASE Decode(n)
  <2> DEFINE v == body[n][1]
  <2>1. v \in Values \cup {Invalid}
    <3>1. ~IsRereference(n) /\ tag[n] \notin Batched
      BY <1>0, <1>14 DEF DecodingHasPayload, Decode
    <3>2. Len(body[n]) = 1
      BY <1>2, <3>1 DEF PipelineAssumption, IsRereference
    <3>3. QED BY <1>2, <3>2
  <2>2. /\ stage' = [stage EXCEPT ![n] = DeliverStage(v)]
        /\ Deliver(n, v)
        /\ lastReceived' = [lastReceived EXCEPT ![tag[n]] = v]
        /\ UNCHANGED <<closed, enabled, handshake, input, rest,
                       listenLock, packetQueue>>
        /\ UNCHANGED <<arrived, tag, body>>
    BY <1>14 DEF Decode, input
  <2>3. DeliverStage(v) \in Stages \ {"absent", "queued", "decode"}
    BY <1>9 DEF Stages
  <2>4. /\ socket' \in {"open", "closing", "closed"}
        /\ delivered' \in [Lanes -> Seq([frame : FrameId, value : Values])]
    BY <1>0, <1>2, <2>1, <2>2, DeliverTypes
  <2>5. DataTypes'
    BY <1>0, <1>2, <2>1, <2>2, <2>4 DEF DataTypes, handshake
  <2>6. QED BY <1>5, <1>6, <1>8, <2>2, <2>3, <2>5
<1>15. CASE DecodeBatch(n)
  <2>1. /\ UNCHANGED <<closed, enabled, handshake, input, listenLock,
                       packetQueue, lastReceived>>
        /\ UNCHANGED <<arrived, tag, body>>
        /\ tag[n] \in Batched
    BY <1>15 DEF DecodeBatch, input
  <2>2. PICK x : /\ x \in Stages \ {"absent", "queued", "decode"}
                 /\ stage' = [stage EXCEPT ![n] = x]
    BY <1>9, <1>15 DEF DecodeBatch, Stages
  <2>3. LaneInv' /\ DecodingHasPayload'
    BY <1>6, <1>8, <2>1, <2>2
  <2>4. CASE rest' = rest /\ delivered' = delivered /\ (SocketClose \/ socket' = socket)
    <3>1. DataTypes'
      BY <1>0, <1>3, <1>7, <2>1, <2>4 DEF DataTypes
    <3>2. QED BY <1>5, <2>1, <2>3, <2>4, <3>1
  <2>5. CASE /\ body[n] # <<>>
             /\ rest' = [rest EXCEPT ![n] = Tail(body[n])]
             /\ Deliver(n, body[n][1])
    <3>1. body[n][1] \in Values \cup {Invalid} /\ Tail(body[n]) \in Seq(Values \cup {Invalid})
      BY <1>2, <2>5
    <3>2. /\ socket' \in {"open", "closing", "closed"}
          /\ delivered' \in [Lanes -> Seq([frame : FrameId, value : Values])]
      BY <1>0, <1>2, <2>5, <3>1, DeliverTypes
    <3>3. rest' \in [FrameId -> Seq(Values \cup {Invalid})]
      BY <1>0, <2>5, <3>1 DEF DataTypes
    <3>4. DataTypes'
      BY <1>0, <2>1, <3>2, <3>3 DEF DataTypes, handshake
    <3>5. n <= arrived
      BY <1>0, <1>1 DEF LaneTypes, FrameId, PipelineAssumption
    <3>6. RestOnlyBatched'
      BY <1>0, <2>1, <2>5, <3>5 DEF RestOnlyBatched, DataTypes
    <3>7. QED BY <2>3, <3>4, <3>6
  <2>6. QED BY <1>15, <2>4, <2>5 DEF DecodeBatch
<1>16. CASE ListenersReturn(n) \/ ListenerThrows(n)
  <2>1. /\ stage' = [stage EXCEPT ![n] = "post"]
        /\ UNCHANGED <<closed, enabled, handshake, input, rest,
                       listenLock, packetQueue, lastReceived, delivered>>
        /\ UNCHANGED <<arrived, tag, body>>
        /\ SocketClose \/ socket' = socket
    BY <1>16 DEF ListenersReturn, ListenerThrows, input, conn
  <2>2. "post" \in Stages \ {"absent", "queued", "decode"}
    BY DEF Stages
  <2>3. DataTypes'
    BY <1>0, <1>3, <1>7, <2>1 DEF DataTypes
  <2>4. QED BY <1>5, <1>6, <1>8, <2>1, <2>2, <2>3
<1>17. CASE NextListener(n)
  <2>1. /\ UNCHANGED <<closed, enabled, handshake, input, rest, lastReceived,
                       socket, delivered, stage>>
        /\ UNCHANGED <<arrived, tag, body, stage, listenLock, packetQueue>>
    BY <1>17 DEF NextListener, conn, input
  <2>2. LaneInv'
    BY <1>0, <2>1, LanesUntouched
  <2>3. DataTypes'
    BY <1>0, <1>3, <2>1 DEF DataTypes
  <2>4. QED BY <1>4, <1>5, <2>1, <2>2, <2>3
<1>18. CASE PostThenRelease(n)
  BY <1>10, <1>18 DEF PostThenRelease
<1>19. CASE PostThenNextResult(n)
  <2> DEFINE v == Head(rest[n])
  <2>1. LaneInv'
    BY <1>19, NextResultPreserves
  <2>2. /\ rest[n] # <<>>
        /\ Deliver(n, v)
        /\ rest' = [rest EXCEPT ![n] = Tail(@)]
        /\ UNCHANGED <<closed, enabled, handshake, input, lastReceived>>
        /\ UNCHANGED <<arrived, tag, body>>
    BY <1>19 DEF PostThenNextResult, input
  <2>3. v \in Values \cup {Invalid} /\ Tail(rest[n]) \in Seq(Values \cup {Invalid})
    BY <1>0, <2>2 DEF DataTypes
  <2>4. /\ socket' \in {"open", "closing", "closed"}
        /\ delivered' \in [Lanes -> Seq([frame : FrameId, value : Values])]
    BY <1>0, <1>2, <2>2, <2>3, DeliverTypes
  <2>5. rest' \in [FrameId -> Seq(Values \cup {Invalid})]
    BY <1>0, <2>2, <2>3 DEF DataTypes
  <2>6. DataTypes'
    BY <1>0, <2>2, <2>4, <2>5 DEF DataTypes, handshake
  <2>7. RestOnlyBatched'
    BY <1>0, <2>2 DEF RestOnlyBatched, DataTypes
  <2>8. \A m \in FrameId : stage'[m] = "decode" => stage[m] = "decode"
    BY <1>0, <1>9, <1>19 DEF PostThenNextResult, LaneTypes
  <2>9. QED BY <1>4, <2>1, <2>2, <2>6, <2>7, <2>8
<1>20. QED
  BY <1>11, <1>12, <1>13, <1>14, <1>15, <1>16, <1>17, <1>18, <1>19 DEF Handler

\* The arrival of a frame preserves the invariant.
LEMMA ReceivePreserves ==
  ASSUME IInv, PipelineAssumption, NEW t \in Tags, NEW b \in Bodies[t],
         ReceiveFrame(t, b)
  PROVE  IInv'
<1> SUFFICES LaneInv' /\ DataTypes' /\ DecodingHasPayload' /\ RestOnlyBatched'
  <2>1. Next
    BY DEF Next
  <2>2. QED BY <2>1, CallsKept, TypeSplitPrime DEF IInv, LaneInv
<1>0. LaneInv /\ LaneTypes /\ DataTypes /\ DecodingHasPayload /\ RestOnlyBatched
  BY TypeSplit DEF IInv, LaneInv
<1> PICK n : n = arrived + 1
  OBVIOUS
<1>1. /\ arrived < MaxFrames
      /\ arrived' = n
      /\ tag' = [tag EXCEPT ![n] = t]
      /\ body' = [body EXCEPT ![n] = b]
      /\ Handle(n, t)
      /\ handshakeComplete' = (handshakePacket # NoTag)
      /\ UNCHANGED <<closed, socket, enabled, handshakePacket, rest, lastReceived, delivered>>
  BY DEF ReceiveFrame
<1>2. n \in FrameId /\ arrived \in Nat /\ MaxFrames \in Nat
  BY <1>0, <1>1 DEF LaneTypes, FrameId, PipelineAssumption
<1>3. b \in Seq(Values \cup {Invalid})
  BY DEF PipelineAssumption
<1>4. LaneInv'
  BY <1>0, <1>1, HandlePreserves
<1>5. DataTypes'
  <2>1. body' \in [FrameId -> Seq(Values \cup {Invalid})]
    BY <1>0, <1>1, <1>2, <1>3 DEF DataTypes
  <2>2. \A m \in FrameId : m <= arrived' => tag'[m] \in Tags /\ body'[m] \in Bodies[tag'[m]]
    <3> SUFFICES ASSUME NEW m \in FrameId, m <= arrived'
                 PROVE  tag'[m] \in Tags /\ body'[m] \in Bodies[tag'[m]]
      OBVIOUS
    <3>1. CASE m = n
      BY <1>0, <1>1, <1>2, <3>1 DEF DataTypes, LaneTypes
    <3>2. CASE m # n
      <4>1. m <= arrived
        BY <1>1, <1>2, <3>2 DEF FrameId
      <4>2. tag'[m] = tag[m] /\ body'[m] = body[m]
        BY <1>0, <1>1, <3>2 DEF DataTypes, LaneTypes
      <4>3. QED BY <1>0, <4>1, <4>2 DEF DataTypes
    <3>3. QED BY <3>1, <3>2
  <2>3. QED BY <1>0, <1>1, <2>1, <2>2 DEF DataTypes
<1>6. stage[n] = "absent" /\ stage'[n] \in {"queued", "pre"}
      /\ \A m \in FrameId \ {n} : stage'[m] = stage[m]
  BY <1>0, <1>1, <1>2 DEF LaneTypes, Handle
<1>7. DecodingHasPayload'
  <2>1. \A m \in FrameId : stage'[m] = "decode" =>
          m # n /\ stage[m] = "decode" /\ tag'[m] = tag[m] /\ body'[m] = body[m]
    BY <1>0, <1>1, <1>6 DEF DataTypes, LaneTypes
  <2>2. QED BY <1>0, <2>1 DEF DecodingHasPayload, IsRereference
<1>8. RestOnlyBatched'
  <2>1. \A m \in FrameId : m <= arrived => m # n /\ m <= arrived'
    BY <1>1, <1>2 DEF FrameId
  <2>2. \A m \in FrameId : m # n => tag'[m] = tag[m]
    BY <1>0, <1>1 DEF LaneTypes
  <2>3. QED BY <1>0, <1>1, <2>1, <2>2 DEF RestOnlyBatched
<1>9. QED BY <1>4, <1>5, <1>7, <1>8

\* So do the steps of the connection around the pipeline.
LEMMA SurroundingsPreserve ==
  ASSUME IInv, PipelineAssumption,
         \/ RejectFrame \/ Close \/ HandshakeTimeout \/ SocketClosed
         \/ \E t \in Toggled : EnablePacket(t) \/ DisablePacket(t)
  PROVE  IInv'
<1>1. UNCHANGED <<input, stage, rest, listenLock, packetQueue, delivered>>
  BY DEF RejectFrame, Close, HandshakeTimeout, SocketClosed, EnablePacket,
         DisablePacket
<1>2. UNCHANGED <<arrived, tag, body, stage, listenLock, packetQueue>>
  BY <1>1 DEF input
<1>3. LaneInv' /\ LaneTypes'
  BY <1>2, LanesUntouched DEF IInv, LaneInv
<1>4. /\ closed' \in BOOLEAN
      /\ socket' \in {"open", "closing", "closed"}
      /\ enabled' \subseteq Tags
      /\ handshakePacket' \in Handshakes
      /\ handshakeComplete' \in BOOLEAN
      /\ lastReceived' \in [Tags -> Values \cup {Invalid, None}]
  BY DEF IInv, TypeOK, PipelineAssumption, RejectFrame, Close,
         HandshakeTimeout, SocketClosed, EnablePacket, DisablePacket, SocketClose,
         handshake
<1>5. DataTypes'
  BY <1>1, <1>2, <1>4, TypeSplit DEF IInv, DataTypes
<1>6. DecodingHasPayload' /\ RestOnlyBatched'
  BY <1>1, <1>2 DEF IInv, DecodingHasPayload, RestOnlyBatched, IsRereference
<1>7. CallTypes'
  BY CallsKept DEF Next
<1>8. QED BY <1>3, <1>5, <1>6, <1>7, TypeSplitPrime DEF IInv

LEMMA InitInv ==
  ASSUME Init, PipelineAssumption
  PROVE  IInv
<1>1. \A l \in Lanes : packetQueue[l] = <<>> /\ DOMAIN packetQueue[l] = {}
  BY DEF Init
<1>2. LaneTypes
  BY DEF Init, LaneTypes, Stages, PipelineAssumption, FrameId
<1>3. QueueBehindLock
  BY <1>1 DEF Init, QueueBehindLock
<1>4. LaneHeld /\ OneRunning
  BY DEF Init, LaneHeld, OneRunning, Running
<1>5. DataTypes
  <2>1. \A S : <<>> \in Seq(S)
    OBVIOUS
  <2>2. /\ body \in [FrameId -> Seq(Values \cup {Invalid})]
        /\ rest \in [FrameId -> Seq(Values \cup {Invalid})]
        /\ delivered \in [Lanes -> Seq([frame : FrameId, value : Values])]
    BY <2>1, Zenon DEF Init
  <2>3. \A n \in FrameId : ~(n <= arrived)
    BY DEF Init, FrameId, PipelineAssumption
  <2>4. QED BY <2>2, <2>3 DEF Init, DataTypes
<1>6. DecodingHasPayload /\ RestOnlyBatched
  BY DEF Init, DecodingHasPayload, RestOnlyBatched
<1>7. CallTypes
  BY DEF Init, CallTypes
<1>8. QED BY <1>2, <1>3, <1>4, <1>5, <1>6, <1>7, TypeSplit DEF IInv, LaneInv

\* A step that changes nothing.
LEMMA StutterPreserves ==
  ASSUME IInv, PipelineAssumption, UNCHANGED vars
  PROVE  IInv'
<1>1. /\ UNCHANGED <<conn, input, stage, rest, listenLock, packetQueue, lastReceived,
                     delivered>>
      /\ UNCHANGED <<arrived, tag, body, stage, listenLock, packetQueue>>
  BY DEF vars, input
<1>2. LaneInv' /\ LaneTypes'
  BY <1>1, LanesUntouched DEF IInv, LaneInv
<1>3. DataTypes'
  BY <1>1, TypeSplit DEF IInv, DataTypes, conn, handshake
<1>4. DecodingHasPayload' /\ RestOnlyBatched'
  BY <1>1 DEF IInv, DecodingHasPayload, RestOnlyBatched, IsRereference
<1>5. CallTypes'
  BY CallsKept
<1>6. QED BY <1>2, <1>3, <1>4, <1>5, TypeSplitPrime DEF IInv

-----------------------------------------------------------------------------
(* What frames of a lane follow each other, and what was decoded last *)

Terminal == {"done", "cancelled", "invalid", "abandoned"}
Started(n) == stage[n] \notin {"absent", "queued"}

\* On a lane no batch uses, a frame starts after the handlers of all earlier
\* ones are over.
Passed ==
  \A m, n \in FrameId :
    (m < n /\ Lane(m) = Lane(n) /\ Serial(Lane(n)) /\ Started(n)) => stage[m] \in Terminal

\* The history of a lane names frames of the lane that have started.
HistoryInv ==
  \A l \in Lanes : \A i \in DOMAIN delivered[l] :
    LET n == delivered[l][i].frame IN n \in FrameId /\ Lane(n) = l /\ Started(n)

\* What a handler that gave up says of the connection and of its frame.
GivenUp ==
  /\ closed => socket # "open"
  /\ \A n \in FrameId :
        /\ stage[n] = "abandoned" => closed
        /\ stage[n] = "invalid" => socket # "open" /\ (tag[n] \in Batched \/ body[n] = <<>>)
        /\ rest[n] # <<>> => body[n] # <<>>

\* A required handshake packet is the first frame, and never comes again.
FirstIsHandshake ==
  handshakePacket # NoTag =>
    /\ handshakeComplete <=> arrived > 0
    /\ \A n \in FrameId : n <= arrived => (tag[n] = handshakePacket <=> n = 1)

\* The frames of packet t whose payload was decoded.
Decoded(t) ==
  {n \in FrameId : tag[n] = t /\ body[n] # <<>> /\ stage[n] \in {"listen", "post", "done"}}

\* lastReceived is the value of the last of them.
LastInv ==
  ~closed =>
    \A t \in Tags : (Serial(LaneOf(t)) /\ lastReceived[t] # None) =>
      /\ t \notin Batched
      /\ \E m \in Decoded(t) : lastReceived[t] = body[m][1] /\ \A k \in Decoded(t) : k <= m

\* Re-references are repeated on lanes no batch uses.
SerialRereferences == \A t \in Rereference : Serial(LaneOf(t))

\* The greatest of a set of frames, 0 if there is none.
Greatest(S) == IF S = {} THEN 0 ELSE CHOOSE m \in S : \A k \in S : k <= m

\* The frames before n of its packet that had a payload and were not cancelled ...
Before(n) == {m \in 1..(n - 1) : /\ tag[m] = tag[n]
                                 /\ body[m] # <<>>
                                 /\ stage[m] # "cancelled"}

\* ... and the last of them, which the empty payload n is delivered as.
Kept(n) == Greatest(Before(n))

\* An empty payload was delivered as what an earlier frame carried.
StandsForEarlier ==
  \A l \in Lanes : \A i \in DOMAIN delivered[l] :
    LET d == delivered[l][i]
    IN IsRereference(d.frame) =>
         /\ Kept(d.frame) \in 1..(d.frame - 1)
         /\ d.value = body[Kept(d.frame)][1]

\* All that the two properties about contents rest on.
ContentInv ==
  /\ Passed
  /\ HistoryInv
  /\ GivenUp
  /\ FirstIsHandshake
  /\ LastInv
  /\ SerialRereferences => StandsForEarlier

-----------------------------------------------------------------------------
(* What every step keeps *)

\* What a step may change of the frames: a frame that has arrived keeps its
\* packet and payload, a handler that is over stays over, one that has started
\* stays so, and one that starts on a serial lane finds all earlier ones over.
FramesKept ==
  /\ \A m \in FrameId : stage[m] # "absent" =>
        stage'[m] # "absent" /\ tag'[m] = tag[m] /\ body'[m] = body[m]
  /\ \A m \in FrameId : stage[m] \in Terminal => stage'[m] = stage[m]
  /\ \A m \in FrameId : Started(m) => Started(m)'
  /\ \A m, n \in FrameId :
        (m < n /\ Started(n)' /\ ~Started(n) /\ Lane(m)' = Lane(n)' /\ Serial(Lane(n)'))
          => stage'[m] \in Terminal

\* A handler that goes on or stops without releasing its lane.
LEMMA MoveKeepsFrames ==
  ASSUME LaneInv, NEW n \in FrameId, Running(n),
         NEW x \in Stages \ {"absent", "queued"},
         stage' = [stage EXCEPT ![n] = x],
         UNCHANGED <<tag, body>>
  PROVE  FramesKept
<1>1. stage'[n] = x /\ \A m \in FrameId \ {n} : stage'[m] = stage[m]
  BY DEF LaneInv, LaneTypes
<1>2. \A m \in FrameId : Started(m)' <=> Started(m)
  BY <1>1 DEF Started, Running
<1>3. \A m \in FrameId : stage[m] \in Terminal => stage'[m] = stage[m]
  BY <1>1 DEF Terminal, Running
<1>4. \A m \in FrameId : stage[m] # "absent" => stage'[m] # "absent"
  BY <1>1
<1>5. QED BY <1>2, <1>3, <1>4 DEF FramesKept

\* Handing the lane to the head of its queue, whatever the running handler
\* does then; it goes on only where the lane is not serial.
LEMMA StartHeadKeepsFrames ==
  ASSUME LaneInv, PipelineAssumption, NEW n \in FrameId, Running(n),
         NEW x \in Stages \ {"absent", "queued"},
         x \notin Terminal => ~Serial(Lane(n)),
         packetQueue[Lane(n)] # <<>>,
         stage' = [stage EXCEPT ![n] = x, ![Head(packetQueue[Lane(n)])] = "pre"],
         UNCHANGED <<tag, body>>
  PROVE  FramesKept
<1> PICK l \in Lanes : l = Lane(n)
  BY LaneOfFrame DEF LaneInv
<1> PICK h : h = Head(packetQueue[l])
  OBVIOUS
<1>1. /\ h \in FrameId /\ stage[h] = "queued" /\ Lane(h) = l
      /\ \A m \in FrameId : (stage[m] = "queued" /\ Lane(m) = l) => ~(m < h)
  BY HeadOldest
<1>2. /\ stage'[h] = "pre" /\ stage'[n] = x /\ h # n
      /\ \A m \in FrameId \ {n, h} : stage'[m] = stage[m]
  BY <1>1 DEF LaneInv, LaneTypes, Running
<1>3. \A m \in FrameId : stage[m] # "absent" => stage'[m] # "absent"
  BY <1>2
<1>4. \A m \in FrameId : stage[m] \in Terminal => stage'[m] = stage[m]
  BY <1>1, <1>2 DEF Terminal, Running
<1>5. \A m \in FrameId : Started(m) => Started(m)'
  BY <1>2 DEF Started
<1>6. \A m \in FrameId : Lane(m)' = Lane(m)
  BY DEF Lane
<1>7. ASSUME NEW m \in FrameId, NEW k \in FrameId, m < k,
             Started(k)', ~Started(k), Lane(m)' = Lane(k)', Serial(Lane(k)')
      PROVE  stage'[m] \in Terminal
  <2>1. k = h
    BY <1>2, <1>7 DEF Started, Running
  <2>2. Lane(m) = l /\ Serial(l)
    BY <1>1, <1>6, <1>7, <2>1
  <2>3. CASE m = n
    BY <1>2, <2>2, <2>3
  <2>4. CASE m # n
    <3>1. ~Running(m)
      BY <2>2, <2>4 DEF LaneInv, OneRunning
    <3>2. stage[m] # "queued"
      BY <1>1, <1>7, <2>1, <2>2
    <3>3. stage[m] # "absent"
      <4>1. arrived \in Nat /\ ~(h > arrived)
        BY <1>1 DEF LaneInv, LaneTypes, PipelineAssumption
      <4>2. ~(m > arrived)
        BY <1>1, <1>7, <2>1, <4>1 DEF FrameId
      <4>3. QED BY <4>2 DEF LaneInv, LaneTypes
    <3>4. stage[m] \in Terminal
      BY <3>1, <3>2, <3>3 DEF LaneInv, LaneTypes, Stages, Running, Terminal
    <3>5. QED BY <1>1, <1>2, <2>4, <3>4 DEF Terminal
  <2>5. QED BY <2>3, <2>4
<1>8. QED BY <1>3, <1>4, <1>5, <1>7 DEF FramesKept

LEMMA ReleaseKeepsFrames ==
  ASSUME LaneInv, PipelineAssumption, NEW n \in FrameId, Running(n),
         NEW s \in {"done", "cancelled"}, Release(n, s),
         UNCHANGED <<tag, body>>
  PROVE  FramesKept
<1>1. s \in Stages \ {"absent", "queued"} /\ s \in Terminal
  BY DEF Stages, Terminal
<1>2. CASE packetQueue[Lane(n)] = <<>>
  BY <1>1, <1>2, MoveKeepsFrames DEF Release
<1>3. CASE packetQueue[Lane(n)] # <<>>
  BY <1>1, <1>3, StartHeadKeepsFrames DEF Release
<1>4. QED BY <1>2, <1>3

LEMMA NextResultKeepsFrames ==
  ASSUME IInv, PipelineAssumption, NEW n \in FrameId, PostThenNextResult(n)
  PROVE  FramesKept
<1> DEFINE x == DeliverStage(Head(rest[n]))
<1>1. LaneInv /\ Running(n)
  BY DEF IInv, PostThenNextResult, Running
<1>2. x \in Stages \ {"absent", "queued"}
  BY DEF DeliverStage, Stages
<1>3. ~Serial(Lane(n))
  BY DEF IInv, RestOnlyBatched, PostThenNextResult, Serial, Lane
<1>4. UNCHANGED <<tag, body>>
  BY DEF PostThenNextResult, input
<1>5. CASE packetQueue[Lane(n)] = <<>>
  <2>1. stage' = [stage EXCEPT ![n] = x]
    BY <1>5 DEF PostThenNextResult
  <2>2. QED BY <1>1, <1>2, <1>4, <2>1, MoveKeepsFrames
<1>6. CASE packetQueue[Lane(n)] # <<>>
  <2>1. stage' = [stage EXCEPT ![n] = x, ![Head(packetQueue[Lane(n)])] = "pre"]
    BY <1>6 DEF PostThenNextResult
  <2>2. QED BY <1>1, <1>2, <1>3, <1>4, <1>6, <2>1, StartHeadKeepsFrames
<1>7. QED BY <1>5, <1>6

\* A frame that arrives on a free lane finds all earlier ones over.
LEMMA ReceiveKeepsFrames ==
  ASSUME IInv, PipelineAssumption, NEW t \in Tags, NEW b \in Bodies[t],
         ReceiveFrame(t, b)
  PROVE  FramesKept
<1> PICK n : n = arrived + 1
  OBVIOUS
<1>0. LaneInv /\ LaneTypes /\ DataTypes
  BY TypeSplit DEF IInv, LaneInv
<1>1. /\ arrived < MaxFrames
      /\ tag' = [tag EXCEPT ![n] = t]
      /\ body' = [body EXCEPT ![n] = b]
      /\ Handle(n, t)
  BY DEF ReceiveFrame
<1>2. n \in FrameId /\ arrived \in Nat /\ MaxFrames \in Nat
  BY <1>0, <1>1 DEF LaneTypes, FrameId, PipelineAssumption
<1>3. stage[n] = "absent" /\ stage'[n] \in {"queued", "pre"}
      /\ \A m \in FrameId \ {n} : stage'[m] = stage[m]
  BY <1>0, <1>1, <1>2 DEF LaneTypes, Handle
<1>4. \A m \in FrameId \ {n} : tag'[m] = tag[m] /\ body'[m] = body[m]
  BY <1>0, <1>1 DEF LaneTypes, DataTypes
<1>5. \A m \in FrameId : stage[m] # "absent" =>
        stage'[m] # "absent" /\ tag'[m] = tag[m] /\ body'[m] = body[m]
  BY <1>3, <1>4
<1>6. \A m \in FrameId : stage[m] \in Terminal => stage'[m] = stage[m]
  BY <1>3 DEF Terminal
<1>7. \A m \in FrameId : Started(m) => Started(m)'
  BY <1>3 DEF Started
<1>8. ASSUME NEW m \in FrameId, NEW k \in FrameId, m < k,
             Started(k)', ~Started(k), Lane(m)' = Lane(k)', Serial(Lane(k)')
      PROVE  stage'[m] \in Terminal
  <2>1. k = n
    BY <1>3, <1>8 DEF Started
  <2>2. m # n /\ stage'[n] # "queued"
    BY <1>2, <1>8, <2>1 DEF FrameId, Started
  <2>3. ~listenLock[LaneOf(t)]
    BY <1>0, <1>1, <1>2, <2>2 DEF Handle, LaneTypes
  <2>4. tag'[n] = t /\ tag'[m] = tag[m]
    BY <1>0, <1>1, <1>2, <1>4, <2>2 DEF LaneTypes
  <2>5. Lane(m) = LaneOf(t) /\ Serial(LaneOf(t))
    BY <1>8, <2>1, <2>4 DEF Lane
  <2>6. LaneOf(t) \in Lanes
    BY DEF LaneOf, Lanes
  <2>7. ~Running(m)
    BY <1>0, <2>3, <2>5 DEF LaneInv, LaneHeld
  <2>8. stage[m] # "queued"
    <3>1. packetQueue[LaneOf(t)] = <<>>
      BY <1>0, <2>3, <2>6 DEF LaneInv, QueueBehindLock
    <3>2. DOMAIN packetQueue[LaneOf(t)] = {}
      BY <3>1
    <3>3. {j \in FrameId : stage[j] = "queued" /\ Lane(j) = LaneOf(t)}
             = {packetQueue[LaneOf(t)][i] : i \in DOMAIN packetQueue[LaneOf(t)]}
      BY <1>0, <2>6 DEF LaneInv, QueueBehindLock
    <3>4. {j \in FrameId : stage[j] = "queued" /\ Lane(j) = LaneOf(t)} = {}
      BY <3>2, <3>3
    <3>5. QED BY <2>5, <3>4
  <2>9. stage[m] # "absent"
    BY <1>0, <1>2, <1>8, <2>1 DEF LaneTypes, FrameId
  <2>10. stage[m] \in Terminal
    BY <1>0, <2>7, <2>8, <2>9 DEF LaneTypes, Stages, Running, Terminal
  <2>11. QED BY <1>3, <2>2, <2>10
<1>9. QED BY <1>5, <1>6, <1>7, <1>8 DEF FramesKept

\* The steps of the connection around the pipeline leave the frames alone.
LEMMA RestKeepsFrames ==
  ASSUME UNCHANGED <<tag, body, stage>>
  PROVE  FramesKept
BY DEF FramesKept, Started

LEMMA StepKeepsFrames ==
  ASSUME IInv, PipelineAssumption, [Next]_vars
  PROVE  FramesKept
<1>0. LaneInv
  BY DEF IInv
<1>1. ASSUME NEW t \in Tags, NEW b \in Bodies[t], ReceiveFrame(t, b)
      PROVE  FramesKept
  BY <1>1, ReceiveKeepsFrames
<1>2. ASSUME NEW n \in FrameId, Handler(n) \/ PreCancels(n)
      PROVE  FramesKept
  <2>1. CASE PostThenNextResult(n)
    BY <2>1, NextResultKeepsFrames
  <2>2. CASE PreCancels(n) \/ PostThenRelease(n)
    <3>1. PICK s \in {"done", "cancelled"} :
             Running(n) /\ Release(n, s) /\ UNCHANGED <<tag, body>>
      BY <2>2 DEF PreCancels, PostThenRelease, Running, input
    <3>2. QED BY <1>0, <3>1, ReleaseKeepsFrames
  <2>3. CASE \/ PreThenRereference(n) \/ PreThenDecode(n) \/ Decode(n) \/ DecodeBatch(n)
             \/ ListenersReturn(n) \/ ListenerThrows(n)
    <3>1. PICK x \in Stages \ {"absent", "queued"} :
             Running(n) /\ stage' = [stage EXCEPT ![n] = x] /\ UNCHANGED <<tag, body>>
      BY <2>3 DEF PreThenRereference, PreThenDecode, Decode, DecodeBatch,
         ListenersReturn, ListenerThrows, Running, input, Stages, DeliverStage
    <3>2. QED BY <1>0, <3>1, MoveKeepsFrames
  <2>4. CASE NextListener(n)
    BY <2>4, RestKeepsFrames DEF NextListener, input
  <2>5. QED BY <1>2, <2>1, <2>2, <2>3, <2>4 DEF Handler
<1>3. CASE \/ RejectFrame \/ Close \/ HandshakeTimeout \/ SocketClosed
           \/ \E t \in Toggled : EnablePacket(t) \/ DisablePacket(t)
  <2>1. UNCHANGED <<tag, body, stage>>
    BY <1>3 DEF RejectFrame, Close, HandshakeTimeout, SocketClosed,
       EnablePacket, DisablePacket, input
  <2>2. QED BY <2>1, RestKeepsFrames
<1>4. CASE UNCHANGED vars
  BY <1>4, RestKeepsFrames DEF vars, input
<1>5. QED BY <1>1, <1>2, <1>3, <1>4 DEF Next

\* So the frames before a started one are over, for ever.
LEMMA PassedKept ==
  ASSUME LaneInv, PipelineAssumption, Passed, FramesKept, LaneTypes'
  PROVE  Passed'
<1> SUFFICES ASSUME NEW m \in FrameId, NEW n \in FrameId, m < n,
                    Lane(m)' = Lane(n)', Serial(Lane(n)'), Started(n)'
             PROVE  stage'[m] \in Terminal
  BY DEF Passed, Serial
<1>1. CASE ~Started(n)
  BY <1>1 DEF FramesKept
<1>2. CASE Started(n)
  <2>1. stage[n] # "absent" /\ arrived \in Nat
    BY <1>2 DEF Started, LaneInv, LaneTypes, PipelineAssumption
  <2>2. stage[m] # "absent"
    BY <2>1 DEF LaneInv, LaneTypes, FrameId
  <2>3. Lane(m) = Lane(n) /\ Serial(Lane(n))
    BY <2>1, <2>2 DEF FramesKept, Lane
  <2>4. stage[m] \in Terminal
    BY <1>2, <2>3 DEF Passed
  <2>5. QED BY <2>4 DEF FramesKept
<1>3. QED BY <1>1, <1>2

-----------------------------------------------------------------------------
(* The history, the handlers that gave up, and the handshake *)

\* What Append adds to a sequence.
LEMMA AppendEntries ==
  ASSUME NEW S, NEW q \in Seq(S), NEW e, NEW i \in DOMAIN Append(q, e)
  PROVE  \/ i \in DOMAIN q /\ Append(q, e)[i] = q[i]
         \/ Append(q, e)[i] = e
OBVIOUS

\* A frame whose listeners may start with value v: it is not an empty payload,
\* or v is what was received last.
Delivering(n, v) ==
  /\ Running(n)
  /\ ~closed
  /\ v # Invalid
  /\ IsRereference(n) => stage[n] = "pre" /\ v = lastReceived[tag[n]] /\ v # None

\* Deliver adds at most one entry to the history of its lane.
LEMMA DeliverAdds ==
  ASSUME DataTypes, NEW n \in FrameId, NEW v, Deliver(n, v),
         NEW l \in Lanes, NEW i \in DOMAIN delivered'[l]
  PROVE  \/ i \in DOMAIN delivered[l] /\ delivered'[l][i] = delivered[l][i]
         \/ /\ ~closed /\ v # Invalid /\ l = Lane(n)
            /\ delivered'[l][i] = [frame |-> n, value |-> v]
<1>1. CASE closed \/ v = Invalid \/ l # Lane(n)
  <2>1. delivered'[l] = delivered[l]
    BY <1>1 DEF Deliver, DataTypes
  <2>2. QED BY <2>1
<1>2. CASE ~closed /\ v # Invalid /\ l = Lane(n)
  <2> DEFINE S == [frame : FrameId, value : Values]
             e == [frame |-> n, value |-> v]
  <2>1. delivered[l] \in Seq(S)
    BY DEF DataTypes
  <2>2. delivered' = [delivered EXCEPT ![l] = Append(@, e)]
    BY <1>2 DEF Deliver
  <2>3. delivered'[l] = Append(delivered[l], e)
    BY <2>2 DEF DataTypes
  <2> HIDE DEF S, e
  <2>4. \/ i \in DOMAIN delivered[l] /\ delivered'[l][i] = delivered[l][i]
        \/ delivered'[l][i] = e
    BY <2>1, <2>3, AppendEntries
  <2>5. QED BY <1>2, <2>4 DEF e
<1>3. QED BY <1>1, <1>2

\* The history grows by values its frames may deliver.
LEMMA HistoryGrows ==
  ASSUME IInv, GivenUp, PipelineAssumption, [Next]_vars,
         NEW l \in Lanes, NEW i \in DOMAIN delivered'[l]
  PROVE  \/ i \in DOMAIN delivered[l] /\ delivered'[l][i] = delivered[l][i]
         \/ \E n \in FrameId : \E v : /\ Delivering(n, v) /\ l = Lane(n)
                                      /\ delivered'[l][i] = [frame |-> n, value |-> v]
<1>0. DataTypes /\ DecodingHasPayload
  BY TypeSplit DEF IInv
<1>1. CASE delivered' = delivered
  BY <1>1
<1>2. ASSUME NEW n \in FrameId, NEW v, Deliver(n, v), Running(n),
             IsRereference(n) => stage[n] = "pre" /\ v = lastReceived[tag[n]] /\ v # None
      PROVE  \/ i \in DOMAIN delivered[l] /\ delivered'[l][i] = delivered[l][i]
             \/ Delivering(n, v) /\ l = Lane(n) /\ delivered'[l][i] = [frame |-> n, value |-> v]
  BY <1>0, <1>2, DeliverAdds DEF Delivering
<1>3. ASSUME NEW n \in FrameId, Handler(n) \/ PreCancels(n), delivered' # delivered
      PROVE  \E v : /\ Deliver(n, v) /\ Running(n)
                    /\ IsRereference(n) => stage[n] = "pre" /\ v = lastReceived[tag[n]] /\ v # None
  <2>1. CASE PreThenRereference(n)
    BY <1>3, <2>1 DEF PreThenRereference, Running
  <2>2. CASE Decode(n)
    <3>1. ~IsRereference(n) /\ Running(n) /\ Deliver(n, body[n][1])
      BY <1>0, <2>2 DEF Decode, DecodingHasPayload, Running
    <3>2. QED BY <3>1
  <2>3. CASE DecodeBatch(n)
    <3>1. ~IsRereference(n) /\ Running(n) /\ Deliver(n, body[n][1])
      BY <1>0, <1>3, <2>3 DEF DecodeBatch, DecodingHasPayload, Running
    <3>2. QED BY <3>1
  <2>4. CASE PostThenNextResult(n)
    <3>1. ~IsRereference(n) /\ Running(n) /\ Deliver(n, Head(rest[n]))
      BY <2>4 DEF PostThenNextResult, GivenUp, IsRereference, Running
    <3>2. QED BY <3>1
  <2>5. CASE \/ PreCancels(n) \/ PreThenDecode(n) \/ NextListener(n) \/ ListenersReturn(n)
             \/ ListenerThrows(n) \/ PostThenRelease(n)
    BY <1>3, <2>5 DEF PreCancels, PreThenDecode, NextListener, ListenersReturn,
       ListenerThrows, PostThenRelease
  <2>6. QED BY <1>3, <2>1, <2>2, <2>3, <2>4, <2>5 DEF Handler
<1>4. CASE delivered' # delivered
  <2>1. PICK n \in FrameId : Handler(n) \/ PreCancels(n)
    BY <1>4 DEF Next, ReceiveFrame, RejectFrame, Close, HandshakeTimeout,
       SocketClosed, EnablePacket, DisablePacket, vars
  <2>2. PICK v : /\ Deliver(n, v) /\ Running(n)
                 /\ IsRereference(n) => stage[n] = "pre" /\ v = lastReceived[tag[n]] /\ v # None
    BY <1>3, <1>4, <2>1
  <2>3. QED BY <1>2, <2>2
<1>5. QED BY <1>1, <1>4

\* The history of a lane stays one of frames of the lane that have started.
LEMMA HistoryKept ==
  ASSUME IInv, GivenUp, HistoryInv, FramesKept, PipelineAssumption, [Next]_vars
  PROVE  HistoryInv'
<1> SUFFICES ASSUME NEW l \in Lanes, NEW i \in DOMAIN delivered'[l],
                    NEW n, n = delivered'[l][i].frame
             PROVE  n \in FrameId /\ Lane(n)' = l /\ Started(n)'
  BY DEF HistoryInv
<1>1. ASSUME n \in FrameId, Lane(n) = l, Started(n)
      PROVE  Lane(n)' = l /\ Started(n)'
  BY <1>1 DEF FramesKept, Started, Lane
<1>2. CASE i \in DOMAIN delivered[l] /\ delivered'[l][i] = delivered[l][i]
  BY <1>1, <1>2 DEF HistoryInv
<1>3. CASE \E k \in FrameId : \E v : /\ Delivering(k, v) /\ l = Lane(k)
                                     /\ delivered'[l][i] = [frame |-> k, value |-> v]
  BY <1>1, <1>3 DEF Delivering, Running, Started
<1>4. QED BY <1>2, <1>3, HistoryGrows

\* A handler abandons its frame only on a closed connection, refuses it only
\* with the socket, and an ordinary payload never for want of a value.
LEMMA GivenUpKept ==
  ASSUME IInv, GivenUp, PipelineAssumption, [Next]_vars
  PROVE  GivenUp'
<1>0. LaneTypes /\ DataTypes /\ LaneInv
  BY TypeSplit DEF IInv, LaneInv
<1>1. ASSUME UNCHANGED <<tag, body, stage, rest>>,
             closed => closed', closed' => socket' # "open",
             socket # "open" => socket' # "open"
      PROVE  GivenUp'
  BY <1>1 DEF GivenUp
<1>2. CASE \/ RejectFrame \/ Close \/ HandshakeTimeout \/ SocketClosed
           \/ \E t \in Toggled : EnablePacket(t) \/ DisablePacket(t)
  <2>1. UNCHANGED <<tag, body, stage, rest>>
    BY <1>2 DEF RejectFrame, Close, HandshakeTimeout, SocketClosed,
       EnablePacket, DisablePacket, input
  <2>2. /\ closed => closed'
        /\ closed' => socket' # "open"
        /\ socket # "open" => socket' # "open"
    BY <1>2 DEF RejectFrame, Close, HandshakeTimeout, SocketClosed,
       EnablePacket, DisablePacket, SocketClose, GivenUp
  <2>3. QED BY <1>1, <2>1, <2>2
<1>3. CASE UNCHANGED vars
  BY <1>1, <1>3 DEF vars, conn, input, GivenUp
<1>4. ASSUME NEW t \in Tags, NEW b \in Bodies[t], ReceiveFrame(t, b)
      PROVE  GivenUp'
  <2> PICK n : n = arrived + 1
    OBVIOUS
  <2>1. /\ arrived < MaxFrames
        /\ tag' = [tag EXCEPT ![n] = t]
        /\ body' = [body EXCEPT ![n] = b]
        /\ Handle(n, t)
        /\ UNCHANGED <<closed, socket, rest>>
    BY <1>4 DEF ReceiveFrame
  <2>2. n \in FrameId /\ arrived \in Nat /\ ~(n <= arrived)
    BY <1>0, <2>1 DEF LaneTypes, FrameId, PipelineAssumption
  <2>3. stage[n] = "absent" /\ stage'[n] \in {"queued", "pre"}
        /\ \A m \in FrameId \ {n} : stage'[m] = stage[m]
    BY <1>0, <2>1, <2>2 DEF LaneTypes, Handle
  <2>4. \A m \in FrameId \ {n} : tag'[m] = tag[m] /\ body'[m] = body[m]
    BY <1>0, <2>1 DEF LaneTypes, DataTypes
  <2>5. rest[n] = <<>>
    BY <2>2 DEF IInv, RestOnlyBatched
  <2>6. QED BY <2>1, <2>3, <2>4, <2>5 DEF GivenUp
<1>5. ASSUME NEW n \in FrameId, Handler(n) \/ PreCancels(n)
      PROVE  GivenUp'
  <2>1. UNCHANGED <<closed, tag, body>>
    BY <1>5 DEF Handler, PreCancels, PreThenRereference, PreThenDecode, Decode,
       DecodeBatch, NextListener, ListenersReturn, ListenerThrows, PostThenRelease,
       PostThenNextResult, conn, input
  <2>2. socket # "open" => socket' # "open"
    BY <1>5 DEF Handler, PreCancels, PreThenRereference, PreThenDecode, Decode,
       DecodeBatch, NextListener, ListenersReturn, ListenerThrows, PostThenRelease,
       PostThenNextResult, conn, Deliver, SocketClose
  <2>3. ASSUME NEW m \in FrameId, stage'[m] = "abandoned"
        PROVE  closed'
    <3>1. CASE stage[m] = "abandoned"
      BY <2>1, <3>1 DEF GivenUp
    <3>2. CASE stage[m] # "abandoned"
      BY <1>0, <1>5, <2>1, <2>3, <3>2 DEF Handler, PreCancels, PreThenRereference,
         PreThenDecode, Decode, DecodeBatch, NextListener, ListenersReturn, ListenerThrows,
         PostThenRelease, PostThenNextResult, DeliverStage, Release, LaneTypes
    <3>3. QED BY <3>1, <3>2
  <2>4. ASSUME NEW m \in FrameId, stage'[m] = "invalid"
        PROVE  socket' # "open" /\ (tag'[m] \in Batched \/ body'[m] = <<>>)
    <3>1. CASE stage[m] = "invalid"
      BY <2>1, <2>2, <3>1 DEF GivenUp
    <3>2. CASE stage[m] # "invalid"
      <4>1. \/ PreThenRereference(n) /\ lastReceived[tag[n]] = None
            \/ DecodeBatch(n) /\ HasInvalid(body[n])
        BY <1>0, <1>5, <2>4, <3>2 DEF Handler, PreCancels, PreThenRereference,
           PreThenDecode, Decode, DecodeBatch, NextListener, ListenersReturn, ListenerThrows,
           PostThenRelease, PostThenNextResult, DeliverStage, Release, LaneTypes
      <4>2. m = n /\ SocketClose
        BY <1>0, <2>4, <3>2, <4>1 DEF PreThenRereference, DecodeBatch, LaneTypes,
           HasInvalid, DeliverStage
      <4>3. tag[n] \in Batched \/ body[n] = <<>>
        BY <4>1 DEF PreThenRereference, DecodeBatch, IsRereference
      <4>4. QED BY <2>1, <4>2, <4>3 DEF SocketClose
    <3>3. QED BY <3>1, <3>2
  <2>5. ASSUME NEW m \in FrameId, rest'[m] # <<>>
        PROVE  body'[m] # <<>>
    <3>1. CASE rest[m] # <<>>
      BY <2>1, <3>1 DEF GivenUp
    <3>2. CASE rest[m] = <<>>
      <4>1. \/ rest' = rest
            \/ rest' = [rest EXCEPT ![n] = Tail(body[n])] /\ body[n] # <<>>
            \/ rest' = [rest EXCEPT ![n] = Tail(@)] /\ rest[n] # <<>>
        BY <1>5 DEF Handler, PreCancels, PreThenRereference, PreThenDecode, Decode,
           DecodeBatch, NextListener, ListenersReturn, ListenerThrows, PostThenRelease,
           PostThenNextResult
      <4>2. m = n => body[n] # <<>>
        BY <2>5, <3>2, <4>1
      <4>3. m # n => rest'[m] = rest[m]
        BY <1>0, <4>1 DEF DataTypes
      <4>4. QED BY <2>1, <2>5, <3>2, <4>2, <4>3
    <3>3. QED BY <3>1, <3>2
  <2>6. QED BY <2>1, <2>2, <2>3, <2>4, <2>5 DEF GivenUp
<1>6. QED BY <1>2, <1>3, <1>4, <1>5 DEF Next

\* The handshake packet opens the gate and cannot pass it again.
LEMMA HandshakeKept ==
  ASSUME IInv, FirstIsHandshake, PipelineAssumption, [Next]_vars
  PROVE  FirstIsHandshake'
<1>0. LaneTypes
  BY TypeSplit DEF IInv
<1>1. CASE UNCHANGED <<handshake, input>>
  BY <1>1 DEF FirstIsHandshake, handshake, input
<1>2. ASSUME NEW t \in Tags, NEW b \in Bodies[t], ReceiveFrame(t, b)
      PROVE  FirstIsHandshake'
  <2> SUFFICES ASSUME handshakePacket # NoTag PROVE FirstIsHandshake'
    BY <1>2 DEF ReceiveFrame, FirstIsHandshake
  <2> PICK n : n = arrived + 1
    OBVIOUS
  <2>1. /\ arrived < MaxFrames
        /\ Admitted(t)
        /\ arrived' = n
        /\ tag' = [tag EXCEPT ![n] = t]
        /\ handshakeComplete' = TRUE
        /\ handshakePacket' = handshakePacket
    BY <1>2 DEF ReceiveFrame
  <2>2. n \in FrameId /\ arrived \in Nat /\ MaxFrames \in Nat
    BY <1>0, <2>1 DEF LaneTypes, FrameId, PipelineAssumption
  <2>3. handshakeComplete <=> arrived > 0
    BY DEF FirstIsHandshake
  <2>4. t = handshakePacket <=> n = 1
    BY <2>1, <2>2, <2>3 DEF Admitted
  <2>5. ASSUME NEW m \in FrameId, m <= n
        PROVE  tag'[m] = handshakePacket <=> m = 1
    <3>1. CASE m = n
      BY <1>0, <2>1, <2>2, <2>4, <3>1 DEF LaneTypes
    <3>2. CASE m # n
      <4>1. m <= arrived
        BY <2>2, <2>5, <3>2 DEF FrameId
      <4>2. tag'[m] = tag[m]
        BY <1>0, <2>1, <3>2 DEF LaneTypes
      <4>3. QED BY <4>1, <4>2 DEF FirstIsHandshake
    <3>3. QED BY <3>1, <3>2
  <2>6. n > 0
    BY <2>2 DEF FrameId
  <2>7. QED BY <2>1, <2>5, <2>6 DEF FirstIsHandshake
<1>3. CASE \A t \in Tags : \A b \in Bodies[t] : ~ReceiveFrame(t, b)
  <2>1. UNCHANGED <<handshake, input>>
    BY <1>3 DEF Next, Handler, PreCancels, PreThenRereference, PreThenDecode, Decode,
       DecodeBatch, NextListener, ListenersReturn, ListenerThrows, PostThenRelease,
       PostThenNextResult, RejectFrame, Close, HandshakeTimeout, SocketClosed,
       EnablePacket, DisablePacket, vars, conn, handshake, input
  <2>2. QED BY <1>1, <2>1
<1>4. QED BY <1>2, <1>3

-----------------------------------------------------------------------------
(* The value received last, and what an empty payload stands for *)

LEMMA GreatestIs ==
  ASSUME NEW S \in SUBSET FrameId, NEW m \in S, \A k \in S : k <= m
  PROVE  Greatest(S) = m
<1>1. PICK g : g = CHOOSE j \in S : \A k \in S : k <= j
  OBVIOUS
<1>2. g \in S /\ \A k \in S : k <= g
  BY <1>1
<1>3. g <= m /\ m <= g /\ g \in FrameId /\ m \in FrameId
  BY <1>2
<1>4. g = m
  BY <1>3 DEF FrameId
<1>5. QED BY <1>1, <1>4 DEF Greatest

\* On a serial lane a frame is decoded, with the value of its payload, only by
\* Decode; the other steps leave the decoded frames as they are.
LEMMA DecodedKept ==
  ASSUME IInv, PipelineAssumption, [Next]_vars, NEW t \in Tags, Serial(LaneOf(t)),
         \A n \in FrameId : Decode(n) => tag[n] # t
  PROVE  Decoded(t)' = Decoded(t)
<1>0. LaneTypes /\ DataTypes /\ LaneInv /\ t \notin Batched
  BY TypeSplit DEF IInv, LaneInv, Serial
<1> DEFINE Over(s) == s \in {"listen", "post", "done"}
<1>1. ASSUME \A m \in FrameId :
               \/ tag[m] # t /\ tag'[m] = tag[m]
               \/ body[m] = <<>> /\ UNCHANGED <<tag, body>>
               \/ /\ tag'[m] = tag[m] /\ body'[m] = body[m]
                  /\ Over(stage'[m]) <=> Over(stage[m])
               \/ ~Over(stage[m]) /\ ~Over(stage'[m])
      PROVE  Decoded(t)' = Decoded(t)
  BY <1>1 DEF Decoded
<1>2. ASSUME NEW u \in Tags, NEW b \in Bodies[u], ReceiveFrame(u, b)
      PROVE  Decoded(t)' = Decoded(t)
  <2> PICK n : n = arrived + 1
    OBVIOUS
  <2>1. /\ arrived < MaxFrames
        /\ tag' = [tag EXCEPT ![n] = u]
        /\ body' = [body EXCEPT ![n] = b]
        /\ Handle(n, u)
    BY <1>2 DEF ReceiveFrame
  <2>2. n \in FrameId /\ stage[n] = "absent"
    BY <1>0, <2>1 DEF LaneTypes, FrameId, PipelineAssumption
  <2>3. stage'[n] \in {"queued", "pre"} /\ \A m \in FrameId \ {n} : stage'[m] = stage[m]
    BY <1>0, <2>1, <2>2 DEF LaneTypes, Handle
  <2>4. \A m \in FrameId \ {n} : tag'[m] = tag[m] /\ body'[m] = body[m]
    BY <1>0, <2>1 DEF LaneTypes, DataTypes
  <2>5. QED BY <1>1, <2>2, <2>3, <2>4
<1>3. ASSUME NEW n \in FrameId, Handler(n) \/ PreCancels(n)
      PROVE  Decoded(t)' = Decoded(t)
  <2>1. UNCHANGED <<tag, body>>
    BY <1>3 DEF Handler, PreCancels, PreThenRereference, PreThenDecode, Decode,
       DecodeBatch, NextListener, ListenersReturn, ListenerThrows, PostThenRelease,
       PostThenNextResult, input
  <2>2. ASSUME NEW s \in {"done", "cancelled"}, Release(n, s), Running(n), Over(s) <=> Over(stage[n])
        PROVE  Decoded(t)' = Decoded(t)
    <3>1. CASE packetQueue[Lane(n)] = <<>>
      <4>1. stage' = [stage EXCEPT ![n] = s]
        BY <2>2, <3>1 DEF Release
      <4>2. \A m \in FrameId : Over(stage'[m]) <=> Over(stage[m])
        BY <1>0, <2>2, <4>1 DEF LaneTypes
      <4>3. QED BY <1>1, <2>1, <4>2
    <3>2. CASE packetQueue[Lane(n)] # <<>>
      <4> PICK h : h = Head(packetQueue[Lane(n)])
        OBVIOUS
      <4>1. h \in FrameId /\ stage[h] = "queued"
        BY <1>0, <3>2, HeadOldest, LaneOfFrame
      <4>2. stage' = [stage EXCEPT ![n] = s, ![h] = "pre"]
        BY <2>2, <3>2 DEF Release
      <4>3. \A m \in FrameId : Over(stage'[m]) <=> Over(stage[m])
        BY <1>0, <2>2, <4>1, <4>2 DEF LaneTypes, Running
      <4>4. QED BY <1>1, <2>1, <4>3
    <3>3. QED BY <3>1, <3>2
  <2>3. CASE PreCancels(n)
    BY <2>2, <2>3 DEF PreCancels, Running
  <2>4. CASE PostThenRelease(n)
    BY <2>2, <2>4 DEF PostThenRelease, Running
  <2>5. CASE PreThenRereference(n)
    <3>1. body[n] = <<>> /\ \A m \in FrameId \ {n} : stage'[m] = stage[m]
      BY <1>0, <2>5 DEF PreThenRereference, IsRereference, LaneTypes
    <3>2. QED BY <1>1, <2>1, <3>1
  <2>6. CASE Decode(n) \/ DecodeBatch(n)
    <3>1. tag[n] # t
      BY <1>0, <2>6 DEF DecodeBatch
    <3>2. \A m \in FrameId \ {n} : stage'[m] = stage[m]
      BY <1>0, <2>6 DEF Decode, DecodeBatch, LaneTypes
    <3>3. QED BY <1>1, <2>1, <3>1, <3>2
  <2>7. CASE PreThenDecode(n) \/ NextListener(n) \/ NextListener(n) \/ ListenersReturn(n) \/ ListenerThrows(n)
    <3>1. \A m \in FrameId : Over(stage'[m]) <=> Over(stage[m])
      BY <1>0, <2>7 DEF PreThenDecode, NextListener, ListenersReturn, ListenerThrows, LaneTypes
    <3>2. QED BY <1>1, <2>1, <3>1
  <2>8. CASE PostThenNextResult(n)
    <3>1. tag[n] # t /\ Lane(n) \in Lanes
      BY <1>0, <2>8, LaneOfFrame DEF PostThenNextResult, IInv, RestOnlyBatched
    <3>2. CASE packetQueue[Lane(n)] = <<>>
      <4>1. \A m \in FrameId \ {n} : stage'[m] = stage[m]
        BY <1>0, <2>8, <3>2 DEF PostThenNextResult, LaneTypes
      <4>2. QED BY <1>1, <2>1, <3>1, <4>1
    <3>3. CASE packetQueue[Lane(n)] # <<>>
      <4> PICK h : h = Head(packetQueue[Lane(n)])
        OBVIOUS
      <4>1. h \in FrameId /\ stage[h] = "queued"
        BY <1>0, <3>1, <3>3, HeadOldest
      <4>2. h # n /\ stage'[h] = "pre" /\ \A m \in FrameId \ {n, h} : stage'[m] = stage[m]
        BY <1>0, <2>8, <3>3, <4>1 DEF PostThenNextResult, LaneTypes
      <4>3. QED BY <1>1, <2>1, <3>1, <4>1, <4>2
    <3>4. QED BY <3>2, <3>3
  <2>9. QED BY <1>3, <2>3, <2>4, <2>5, <2>6, <2>7, <2>8 DEF Handler
<1>4. CASE \/ RejectFrame \/ Close \/ HandshakeTimeout \/ SocketClosed \/ UNCHANGED vars
           \/ \E u \in Toggled : EnablePacket(u) \/ DisablePacket(u)
  <2>1. UNCHANGED <<tag, body, stage>>
    BY <1>4 DEF RejectFrame, Close, HandshakeTimeout, SocketClosed,
       EnablePacket, DisablePacket, input, vars
  <2>2. QED BY <2>1 DEF Decoded
<1>5. QED BY <1>2, <1>3, <1>4 DEF Next

\* The value of an ordinary payload is the last one received once it is
\* decoded: the frames of the packet decoded before are earlier ones.
LEMMA LastAfterDecode ==
  ASSUME IInv, Passed, PipelineAssumption, NEW n \in FrameId, Decode(n), ~closed,
         Serial(Lane(n)), NEW t, t = tag[n]
  PROVE  /\ t \notin Batched
         /\ n \in Decoded(t)'
         /\ lastReceived'[t] = body'[n][1]
         /\ \A k \in Decoded(t)' : k <= n
<1>0. LaneTypes /\ DataTypes /\ LaneInv
  BY TypeSplit DEF IInv, LaneInv
<1>1. /\ stage[n] = "decode" /\ tag[n] \notin Batched
      /\ lastReceived' = [lastReceived EXCEPT ![tag[n]] = body[n][1]]
      /\ stage' = [stage EXCEPT ![n] = DeliverStage(body[n][1])]
      /\ UNCHANGED <<tag, body>>
  BY DEF Decode, input
<1>2. tag[n] \in Tags /\ body[n] \in Bodies[tag[n]]
  BY <1>0, <1>1, ArrivedFrame
<1>3. body[n] # <<>>
  <2>1. ~IsRereference(n)
    BY <1>1 DEF IInv, DecodingHasPayload
  <2>2. Len(body[n]) = 1
    BY <1>1, <1>2, <2>1 DEF PipelineAssumption, IsRereference
  <2>3. QED BY <2>2
<1>4. stage'[n] \in {"listen", "post"} /\ \A m \in FrameId \ {n} : stage'[m] = stage[m]
  BY <1>0, <1>1 DEF LaneTypes, DeliverStage
<1>5. n \in Decoded(t)'
  BY <1>1, <1>3, <1>4 DEF Decoded
<1>6. lastReceived'[t] = body'[n][1]
  BY <1>0, <1>1, <1>2 DEF DataTypes
<1>7. ASSUME NEW k \in Decoded(t)'
      PROVE  k <= n
  <2>1. k \in FrameId /\ tag[k] = tag[n] /\ (k # n => Started(k))
    BY <1>1, <1>4, <1>7 DEF Decoded, Started
  <2>2. ~(n < k)
    <3>1. SUFFICES ASSUME n < k PROVE FALSE
      OBVIOUS
    <3>2. k # n /\ Lane(k) = Lane(n)
      BY <2>1, <3>1 DEF Lane, FrameId
    <3>3. stage[n] \in Terminal
      BY <2>1, <3>1, <3>2 DEF Passed
    <3>4. QED BY <1>1, <3>3 DEF Terminal
  <2>3. QED BY <2>1, <2>2 DEF FrameId
<1>8. QED BY <1>1, <1>5, <1>6, <1>7

LEMMA LastKept ==
  ASSUME IInv, Passed, LastInv, FramesKept, GivenUp, PipelineAssumption, [Next]_vars
  PROVE  LastInv'
<1> SUFFICES ASSUME ~closed', NEW t \in Tags, Serial(LaneOf(t)), lastReceived'[t] # None
             PROVE  /\ t \notin Batched
                    /\ \E m \in Decoded(t)' : /\ lastReceived'[t] = body'[m][1]
                                              /\ \A k \in Decoded(t)' : k <= m
  BY DEF LastInv, Serial
<1>0. LaneTypes /\ DataTypes /\ LaneInv
  BY TypeSplit DEF IInv, LaneInv
<1>1. ~closed
  BY DEF Next, Handler, PreCancels, PreThenRereference, PreThenDecode, Decode,
     DecodeBatch, NextListener, ListenersReturn, ListenerThrows, PostThenRelease,
     PostThenNextResult, ReceiveFrame, RejectFrame, Close, HandshakeTimeout,
     SocketClosed, EnablePacket, DisablePacket, vars, conn
<1>2. CASE \E n \in FrameId : Decode(n) /\ tag[n] = t
  <2> PICK n \in FrameId : Decode(n) /\ tag[n] = t
    BY <1>2
  <2>1. Serial(Lane(n))
    BY DEF Lane
  <2>2. QED BY <1>1, <2>1, LastAfterDecode
<1>3. CASE \A n \in FrameId : Decode(n) => tag[n] # t
  <2>1. Decoded(t)' = Decoded(t)
    BY <1>3, DecodedKept
  <2>2. lastReceived'[t] = lastReceived[t]
    <3>1. CASE \E n \in FrameId : Decode(n)
      BY <1>0, <1>3, <3>1 DEF Decode, DataTypes
    <3>2. CASE \A n \in FrameId : ~Decode(n)
      BY <3>2 DEF Next, Handler, PreCancels, PreThenRereference, PreThenDecode,
         DecodeBatch, NextListener, ListenersReturn, ListenerThrows, PostThenRelease,
         PostThenNextResult, ReceiveFrame, RejectFrame, Close, HandshakeTimeout,
         SocketClosed, EnablePacket, DisablePacket, vars
    <3>3. QED BY <3>1, <3>2
  <2>3. PICK m \in Decoded(t) : lastReceived[t] = body[m][1] /\ \A k \in Decoded(t) : k <= m
    BY <1>1, <2>2 DEF LastInv
  <2>4. t \notin Batched
    BY <1>1, <2>2 DEF LastInv
  <2>5. body'[m] = body[m]
    BY DEF Decoded, FramesKept
  <2>6. QED BY <2>1, <2>2, <2>3, <2>4, <2>5
<1>4. QED BY <1>2, <1>3

\* On a serial lane the frame an empty payload stands for is fixed once its
\* handler has started.
LEMMA KeptStays ==
  ASSUME LaneInv, DataTypes, Passed, FramesKept, PipelineAssumption,
         NEW n \in FrameId, Started(n), Serial(Lane(n))
  PROVE  Kept(n)' = Kept(n)
<1>1. ASSUME NEW m \in 1..(n - 1)
      PROVE  /\ m \in FrameId /\ m < n
             /\ tag'[m] = tag[m] /\ body'[m] = body[m]
             /\ tag[m] = tag[n] => stage'[m] = stage[m]
  <2>1. m \in FrameId /\ m < n
    BY DEF FrameId, PipelineAssumption
  <2>2. stage[n] # "absent" /\ arrived \in Nat
    BY DEF Started, LaneInv, LaneTypes, PipelineAssumption
  <2>3. stage[m] # "absent"
    BY <2>1, <2>2 DEF LaneInv, LaneTypes, FrameId
  <2>4. tag[m] = tag[n] => stage[m] \in Terminal
    BY <2>1 DEF Passed, Lane
  <2>5. QED BY <2>1, <2>3, <2>4 DEF FramesKept
<1>2. tag'[n] = tag[n]
  BY DEF FramesKept, Started
<1>3. Before(n)' = Before(n)
  BY <1>1, <1>2 DEF Before
<1>4. QED BY <1>3 DEF Kept

\* An empty payload whose handler is about to deliver the last value stands
\* for the frame that value came from.
LEMMA KeptIsLast ==
  ASSUME IInv, Passed, LastInv, GivenUp, PipelineAssumption,
         NEW n \in FrameId, Serial(Lane(n)), stage[n] = "pre", body[n] = <<>>,
         ~closed, lastReceived[tag[n]] # None
  PROVE  Kept(n) \in 1..(n - 1) /\ lastReceived[tag[n]] = body[Kept(n)][1]
<1>0. LaneTypes /\ DataTypes /\ LaneInv
  BY TypeSplit DEF IInv, LaneInv
<1>1. tag[n] \in Tags /\ Serial(LaneOf(tag[n]))
  BY <1>0, ArrivedFrame DEF Lane
<1>2. PICK j \in Decoded(tag[n]) : /\ lastReceived[tag[n]] = body[j][1]
                                   /\ \A k \in Decoded(tag[n]) : k <= j
  BY <1>1 DEF LastInv
<1>3. tag[n] \notin Batched
  BY <1>1 DEF LastInv
<1>4. j \in FrameId /\ tag[j] = tag[n] /\ body[j] # <<>> /\ Started(j) /\ stage[j] # "cancelled"
  BY DEF Decoded, Started
<1>5. j \in 1..(n - 1)
  <2>1. j # n
    BY <1>4
  <2>2. ~(n < j)
    <3>1. SUFFICES ASSUME n < j PROVE FALSE
      OBVIOUS
    <3>2. stage[n] \in Terminal
      BY <1>4, <3>1 DEF Passed, Lane
    <3>3. QED BY <3>2 DEF Terminal
  <2>3. QED BY <1>4, <2>1, <2>2 DEF FrameId, PipelineAssumption
<1>6. j \in Before(n)
  BY <1>4, <1>5 DEF Before
<1>7. ASSUME NEW k \in Before(n)
      PROVE  k \in FrameId /\ k <= j
  <2>1. k \in FrameId /\ k < n /\ tag[k] = tag[n] /\ body[k] # <<>> /\ stage[k] # "cancelled"
    BY DEF Before, FrameId, PipelineAssumption
  <2>2. stage[k] \in Terminal
    BY <2>1 DEF Passed, Lane, Started
  <2>3. stage[k] # "abandoned" /\ stage[k] # "invalid"
    BY <1>3, <2>1 DEF GivenUp
  <2>4. stage[k] = "done"
    BY <2>1, <2>2, <2>3 DEF Terminal
  <2>5. k \in Decoded(tag[n])
    BY <2>1, <2>4 DEF Decoded
  <2>6. QED BY <1>2, <2>1, <2>5
<1>8. Before(n) \in SUBSET FrameId
  BY <1>7
<1>9. Kept(n) = j
  BY <1>6, <1>7, <1>8, GreatestIs DEF Kept
<1>10. QED BY <1>2, <1>5, <1>9

\* Empty payloads go on being delivered as what they stand for.
LEMMA RereferenceKept ==
  ASSUME IInv, Passed, HistoryInv, GivenUp, LastInv, FramesKept,
         SerialRereferences, StandsForEarlier, PipelineAssumption, [Next]_vars
  PROVE  StandsForEarlier'
<1>0. LaneTypes /\ DataTypes /\ LaneInv
  BY TypeSplit DEF IInv, LaneInv
<1> SUFFICES ASSUME NEW l \in Lanes, NEW i \in DOMAIN delivered'[l],
                    NEW n, n = delivered'[l][i].frame,
                    NEW v, v = delivered'[l][i].value,
                    IsRereference(n)'
             PROVE  Kept(n)' \in 1..(n - 1) /\ v = body'[Kept(n)'][1]
  BY DEF StandsForEarlier
<1>1. ASSUME n \in FrameId, Started(n), IsRereference(n) =>
                Kept(n) \in 1..(n - 1) /\ v = body[Kept(n)][1]
      PROVE  Kept(n)' \in 1..(n - 1) /\ v = body'[Kept(n)'][1]
  <2>1. stage[n] # "absent" /\ arrived \in Nat
    BY <1>0, <1>1 DEF Started, LaneTypes, PipelineAssumption
  <2>2. tag'[n] = tag[n] /\ body'[n] = body[n]
    BY <1>1, <2>1 DEF FramesKept
  <2>3. IsRereference(n)
    BY <2>2 DEF IsRereference
  <2>4. Serial(Lane(n))
    BY <2>3 DEF IsRereference, SerialRereferences, Lane
  <2>5. Kept(n)' = Kept(n)
    BY <1>0, <1>1, <2>4, KeptStays
  <2>6. stage[Kept(n)] # "absent"
    <3>1. Kept(n) \in FrameId /\ Kept(n) < n
      BY <1>1, <2>3 DEF FrameId, PipelineAssumption
    <3>2. ~(n > arrived)
      BY <1>0, <1>1, <2>1 DEF LaneTypes
    <3>3. QED BY <1>0, <1>1, <2>1, <3>1, <3>2 DEF LaneTypes, FrameId
  <2>7. body'[Kept(n)] = body[Kept(n)]
    <3>1. Kept(n) \in FrameId
      BY <1>1, <2>3 DEF FrameId, PipelineAssumption
    <3>2. QED BY <2>6, <3>1 DEF FramesKept
  <2>8. QED BY <1>1, <2>3, <2>5, <2>7
<1>2. CASE i \in DOMAIN delivered[l] /\ delivered'[l][i] = delivered[l][i]
  <2>1. n \in FrameId /\ Started(n)
    BY <1>2 DEF HistoryInv
  <2>2. IsRereference(n) => Kept(n) \in 1..(n - 1) /\ v = body[Kept(n)][1]
    BY <1>2 DEF StandsForEarlier
  <2>3. QED BY <1>1, <2>1, <2>2
<1>3. CASE \E k \in FrameId : \E w : /\ Delivering(k, w) /\ l = Lane(k)
                                     /\ delivered'[l][i] = [frame |-> k, value |-> w]
  <2>1. n \in FrameId /\ Delivering(n, v)
    BY <1>3
  <2>2. Started(n)
    BY <2>1 DEF Delivering, Running, Started
  <2>3. ASSUME IsRereference(n)
        PROVE  Kept(n) \in 1..(n - 1) /\ v = body[Kept(n)][1]
    <3>1. Serial(Lane(n)) /\ body[n] = <<>>
      BY <2>3 DEF IsRereference, SerialRereferences, Lane
    <3>2. stage[n] = "pre" /\ ~closed /\ v = lastReceived[tag[n]] /\ v # None
      BY <2>1, <2>3 DEF Delivering
    <3>3. QED BY <2>1, <3>1, <3>2, KeptIsLast
  <2>4. QED BY <1>1, <2>1, <2>2, <2>3
<1>4. QED BY <1>2, <1>3, HistoryGrows

\* What the sender re-referenced is what the receiver kept, unless the frame
\* was cancelled.
LEMMA StandsForKept ==
  ASSUME NEW n \in FrameId, Kept(n) \in 1..(n - 1),
         NEW m \in Earlier(n), StandsFor(n, m), stage[m] # "cancelled"
  PROVE  m = Kept(n)
<1>1. m \in Before(n) /\ Before(n) \subseteq Earlier(n) /\ n \in Nat
  BY DEF Before, Earlier, FrameId
<1>2. Before(n) \in SUBSET FrameId
  BY PipelineAssumption DEF Before, FrameId, PipelineAssumption
<1>3. \A k \in Before(n) : k <= m
  BY <1>1 DEF StandsFor
<1>4. QED BY <1>1, <1>2, <1>3, GreatestIs DEF Kept

\* All the parts together.
LEMMA ContentKept ==
  ASSUME IInv, IInv', ContentInv, PipelineAssumption, [Next]_vars
  PROVE  ContentInv'
<1>1. FramesKept /\ LaneInv /\ LaneTypes'
  BY StepKeepsFrames DEF IInv, LaneInv
<1>2. Passed'
  BY <1>1, PassedKept DEF ContentInv
<1>3. HistoryInv'
  BY <1>1, HistoryKept DEF ContentInv
<1>4. GivenUp'
  BY GivenUpKept DEF ContentInv
<1>5. FirstIsHandshake'
  BY HandshakeKept DEF ContentInv
<1>6. LastInv'
  BY <1>1, LastKept DEF ContentInv
<1>7. SerialRereferences' => StandsForEarlier'
  BY <1>1, RereferenceKept DEF ContentInv, SerialRereferences, Serial
<1>8. QED BY <1>2, <1>3, <1>4, <1>5, <1>6, <1>7 DEF ContentInv

LEMMA InitContent ==
  ASSUME Init, PipelineAssumption
  PROVE  ContentInv
<1>1. \A l \in Lanes : DOMAIN delivered[l] = {}
  BY DEF Init
<1>2. HistoryInv /\ StandsForEarlier
  BY <1>1 DEF HistoryInv, StandsForEarlier
<1>3. Passed
  BY DEF Init, Passed, Started
<1>4. GivenUp
  BY DEF Init, GivenUp
<1>5. FirstIsHandshake
  BY DEF Init, FirstIsHandshake, FrameId, PipelineAssumption
<1>6. LastInv
  BY DEF Init, LastInv
<1>7. QED BY <1>2, <1>3, <1>4, <1>5, <1>6 DEF ContentInv

-----------------------------------------------------------------------------
(* The theorems. *)

\* The invariant holds in every reachable state.
THEOREM Invariance == Spec => []IInv
<1>1. Init => IInv
  BY InitInv, PipelineAssumption
<1>2. IInv /\ [Next]_vars => IInv'
  <2> SUFFICES ASSUME IInv, [Next]_vars PROVE IInv'
    OBVIOUS
  <2>1. CASE Next
    BY <2>1, ReceivePreserves, HandlerPreserves, SurroundingsPreserve,
       PipelineAssumption DEF Next
  <2>2. CASE UNCHANGED vars
    BY <2>2, StutterPreserves, PipelineAssumption
  <2>3. QED BY <2>1, <2>2
<1>3. QED BY <1>1, <1>2, PTL DEF Spec

\* Every variable keeps its type, whatever the traffic: no refused value is
\* ever recorded as delivered, and stages and arrivals agree.
THEOREM TypeCorrect == Spec => []TypeOK
<1>1. IInv => TypeOK
  BY DEF IInv
<1>2. QED BY <1>1, Invariance, PTL

\* On a lane no batched packet uses, listeners of two frames never overlap:
\* any number of frames, lanes, cancellations, invalid values and closes.
THEOREM ListenersSerialized == Spec => []SerialLaneListeners
<1>1. IInv => SerialLaneListeners
  BY DEF IInv, LaneInv, OneRunning, SerialLaneListeners, Running
<1>2. QED BY <1>1, Invariance, PTL

\* Frames wait exactly once, in arrival order, and only behind a locked lane;
\* this one holds of batches too.
THEOREM QueuesOrdered == Spec => []QueueBehindLock
<1>1. IInv => QueueBehindLock
  BY DEF IInv, LaneInv
<1>2. QED BY <1>1, Invariance, PTL

\* No value is handed to listeners once the connection is closed, from any
\* stage; those of a value handed over before are still called.
THEOREM SilentAfterClose == Spec => NoDeliveryAfterClose
<1>1. ASSUME closed, [Next]_vars PROVE delivered' = delivered
  <2>1. \A n, v : Deliver(n, v) => delivered' = delivered
    BY <1>1 DEF Deliver
  <2>2. CASE UNCHANGED vars
    BY <2>2 DEF vars
  <2>3. CASE \E n \in FrameId : Handler(n) \/ PreCancels(n)
    BY <2>1, <2>3 DEF Handler, PreCancels, PreThenRereference, PreThenDecode,
       Decode, DecodeBatch, NextListener, ListenersReturn, ListenerThrows, PostThenRelease,
       PostThenNextResult
  <2>4. CASE \E t \in Tags : \E b \in Bodies[t] : ReceiveFrame(t, b)
    BY <2>4 DEF ReceiveFrame
  <2>5. CASE \/ RejectFrame \/ Close \/ HandshakeTimeout \/ SocketClosed
             \/ \E t \in Toggled : EnablePacket(t) \/ DisablePacket(t)
    BY <2>5 DEF RejectFrame, Close, HandshakeTimeout, SocketClosed,
       EnablePacket, DisablePacket
  <2>6. QED BY <1>1, <2>2, <2>3, <2>4, <2>5 DEF Next
<1>2. [Next]_vars => [closed => delivered' = delivered]_vars
  BY <1>1
<1>3. QED BY <1>2, PTL DEF Spec, NoDeliveryAfterClose

\* What the frames of a lane say of each other holds in every reachable state.
THEOREM ContentInvariance == Spec => []ContentInv
<1>1. Init => ContentInv
  BY InitContent, PipelineAssumption
<1>2. IInv /\ IInv' /\ ContentInv /\ [Next]_vars => ContentInv'
  BY ContentKept, PipelineAssumption
<1>3. QED BY <1>1, <1>2, Invariance, PTL DEF Spec

\* Where no batch shares the lane of a re-referenced packet, an empty payload
\* is delivered as the value of the last frame of its packet before it that had
\* one, unless middleware cancelled that frame, whatever was pending when it
\* arrived: for any traffic, cancellations, refused values and closes.
THEOREM RereferencesFaithful == Spec => [](SerialRereferences => RereferenceFaithful)
<1>1. ContentInv => (SerialRereferences => RereferenceFaithful)
  <2>2. SUFFICES ASSUME ContentInv, SerialRereferences, NEW l \in Lanes,
                        NEW i \in DOMAIN delivered[l],
                        NEW n, n = delivered[l][i].frame, IsRereference(n)
                 PROVE  /\ Earlier(n) # {}
                        /\ \A m \in Earlier(n) :
                             (StandsFor(n, m) /\ stage[m] # "cancelled")
                               => delivered[l][i].value = body[m][1]
    BY DEF RereferenceFaithful
  <2>3. n \in FrameId
    BY <2>2 DEF ContentInv, HistoryInv
  <2>4. Kept(n) \in 1..(n - 1) /\ delivered[l][i].value = body[Kept(n)][1]
    BY <2>2 DEF ContentInv, StandsForEarlier
  <2>5. Before(n) # {} /\ Before(n) \subseteq Earlier(n)
    BY <2>3, <2>4 DEF Before, Earlier, Kept, Greatest, FrameId
  <2>6. Earlier(n) # {}
    BY <2>5
  <2>7. QED BY <2>3, <2>4, <2>6, StandsForKept
<1>2. QED BY <1>1, ContentInvariance, PTL

\* On the lane of a required handshake packet nothing is delivered before the
\* handshake's own listeners are done, though the gate opens on its arrival.
THEOREM HandshakeGoesFirst == Spec => []HandshakeFirstInLane
<1>1. IInv /\ ContentInv => HandshakeFirstInLane
  <2> SUFFICES ASSUME IInv, ContentInv, handshakePacket # NoTag, socket = "open",
                      \A m \in FrameId : stage[m] = "cancelled" => tag[m] # handshakePacket,
                      NEW l \in Lanes, Serial(l), l = LaneOf(handshakePacket),
                      NEW i \in DOMAIN delivered[l],
                      NEW n, n = delivered[l][i].frame, tag[n] # handshakePacket
               PROVE  \E m \in 1..(n - 1) : tag[m] = handshakePacket /\ stage[m] = "done"
    BY DEF HandshakeFirstInLane
  <2>1. n \in FrameId /\ Lane(n) = l /\ Started(n)
    BY DEF ContentInv, HistoryInv
  <2>2. n <= arrived /\ arrived \in Nat
    BY <2>1 DEF IInv, LaneInv, LaneTypes, Started, FrameId, PipelineAssumption
  <2>3. 1 \in FrameId /\ 1 <= arrived /\ n # 1 /\ 1 < n /\ 1 \in 1..(n - 1)
    <3>1. n # 1
      BY <2>1, <2>2 DEF ContentInv, FirstIsHandshake
    <3>2. QED BY <2>1, <2>2, <3>1, PipelineAssumption DEF FrameId, PipelineAssumption
  <2>4. tag[1] = handshakePacket
    BY <2>3 DEF ContentInv, FirstIsHandshake
  <2>5. stage[1] \in Terminal
    BY <2>1, <2>3, <2>4 DEF ContentInv, Passed, Lane
  <2>6. stage[1] \notin {"abandoned", "invalid", "cancelled"}
    BY <2>3, <2>4 DEF ContentInv, GivenUp
  <2>7. stage[1] = "done"
    BY <2>5, <2>6 DEF Terminal
  <2>8. QED BY <2>3, <2>4, <2>7
<1>2. QED BY <1>1, Invariance, ContentInvariance, PTL
-----------------------------------------------------------------------------
(* Refinement: with its locks, queues and awaits out of sight, every lane
   that no batched packet uses is a first-in first-out server of one frame at
   a time (SerialListeners). *)

\* What waits on a lane: the frame its handler holds, if any, then the queue.
Listed(H, q) == IF H = {} THEN q ELSE <<Only(H)>> \o q

LEMMA WaitingIsListed ==
  \A l : WaitingIn(l) = Listed(Handed(l), packetQueue[l])
BY DEF WaitingIn, Listed

LEMMA WaitingIsListedPrime ==
  \A l : WaitingIn(l)' = Listed(Handed(l)', packetQueue'[l])
BY DEF WaitingIn, Listed

LEMMA OnlyOne == Only({}) = None /\ \A n : Only({n}) = n
BY DEF Only

\* A frame in front of a sequence of frames.
LEMMA InFront ==
  ASSUME NEW n \in FrameId, NEW q \in Seq(FrameId)
  PROVE  /\ Listed({}, q) = q
         /\ Listed({n}, q) \in Seq(FrameId) /\ Listed({n}, q) # <<>>
         /\ Head(Listed({n}, q)) = n /\ Tail(Listed({n}, q)) = q
<1>1. Listed({}, q) = q /\ Listed({n}, q) = <<n>> \o q
  BY OnlyOne DEF Listed
<1>2. <<n>> \in Seq(FrameId)
  OBVIOUS
<1>3. /\ <<n>> \o q \in Seq(FrameId)
      /\ Len(<<n>> \o q) = 1 + Len(q) /\ Len(q) \in Nat
      /\ (<<n>> \o q)[1] = n
      /\ \A i \in 1..Len(q) : (<<n>> \o q)[i + 1] = q[i]
  BY <1>2
<1>4. <<n>> \o q # <<>> /\ Head(<<n>> \o q) = n
  BY <1>3
<1>5. Tail(<<n>> \o q) = q
  <2> DEFINE s == Tail(<<n>> \o q)
  <2>1. s \in Seq(FrameId) /\ Len(s) = Len(q) /\ \A i \in 1..Len(q) : s[i] = q[i]
    BY <1>3, <1>4
  <2> HIDE DEF s
  <2>2. QED BY <2>1
<1>6. QED BY <1>1, <1>3, <1>4, <1>5

\* The head of a queue goes in front of the rest of it.
LEMMA HeadInFront ==
  ASSUME NEW q \in Seq(FrameId), q # <<>>
  PROVE  Head(q) \in FrameId /\ Tail(q) \in Seq(FrameId) /\ Listed({Head(q)}, Tail(q)) = q
<1>1. Head(q) \in FrameId /\ Tail(q) \in Seq(FrameId) /\ Len(q) \in Nat /\ Len(q) >= 1
  OBVIOUS
<1>2. Listed({Head(q)}, Tail(q)) = <<Head(q)>> \o Tail(q)
  BY OnlyOne DEF Listed
<1> DEFINE s == <<Head(q)>> \o Tail(q)
<1>3. /\ s \in Seq(FrameId) /\ Len(s) = Len(q)
      /\ s[1] = q[1]
      /\ \A i \in 2..Len(q) : s[i] = q[i]
  <2>1. /\ s \in Seq(FrameId) /\ Len(s) = 1 + Len(Tail(q)) /\ Len(Tail(q)) = Len(q) - 1
        /\ s[1] = Head(q)
        /\ \A i \in 2..Len(q) : s[i] = Tail(q)[i - 1]
    BY <1>1
  <2>2. \A i \in 2..Len(q) : Tail(q)[i - 1] = q[i]
    BY <1>1
  <2> HIDE DEF s
  <2>3. QED BY <1>1, <2>1, <2>2
<1> HIDE DEF s
<1>4. s = q
  BY <1>1, <1>3
<1>5. QED BY <1>1, <1>2, <1>4 DEF s

\* A younger frame goes behind both.
LEMMA BehindAll ==
  ASSUME NEW n \in FrameId, NEW q \in Seq(FrameId), NEW m \in FrameId
  PROVE  Listed({m}, Append(q, n)) = Append(Listed({m}, q), n)
<1> DEFINE s == <<m>> \o Append(q, n)
           t == Append(<<m>> \o q, n)
<1>1. /\ Append(q, n) \in Seq(FrameId) /\ Len(Append(q, n)) = Len(q) + 1 /\ Len(q) \in Nat
      /\ <<m>> \o q \in Seq(FrameId) /\ Len(<<m>> \o q) = Len(q) + 1
  OBVIOUS
<1>2. s \in Seq(FrameId) /\ t \in Seq(FrameId) /\ Len(s) = Len(q) + 2 /\ Len(t) = Len(q) + 2
  BY <1>1
<1>3. \A i \in 1..(Len(q) + 2) : s[i] = t[i]
  <2>1. s[1] = m /\ t[1] = m
    BY <1>1
  <2>2. \A i \in 2..(Len(q) + 1) : s[i] = q[i - 1] /\ t[i] = q[i - 1]
    BY <1>1
  <2>3. s[Len(q) + 2] = n /\ t[Len(q) + 2] = n
    BY <1>1
  <2> HIDE DEF s, t
  <2>4. QED BY <1>1, <2>1, <2>2, <2>3
<1> HIDE DEF s, t
<1>4. s = t
  BY <1>2, <1>3
<1>5. QED BY <1>4, OnlyOne DEF Listed, s, t

-----------------------------------------------------------------------------
(* What a step does to the frames of a lane *)

\* A lane keeps its view when all that changes is on another one.
LEMMA OtherLane ==
  ASSUME NEW l, NEW k, k # l, packetQueue'[k] = packetQueue[k],
         \A m \in FrameId :
            \/ stage'[m] = stage[m] /\ tag'[m] = tag[m]
            \/ Lane(m)' = l /\ (Lane(m) = l \/ stage[m] = "absent")
  PROVE  Handed(k)' = Handed(k) /\ Listening(k)' = Listening(k) /\ WaitingIn(k)' = WaitingIn(k)
<1>1. \A m \in FrameId : /\ m \in Handed(k)' <=> m \in Handed(k)
                         /\ m \in Listening(k)' <=> m \in Listening(k)
  BY DEF Handed, Listening, Lane
<1>2. Handed(k)' = Handed(k) /\ Listening(k)' = Listening(k)
  BY <1>1 DEF Handed, Listening
<1>3. QED BY <1>2, WaitingIsListed, WaitingIsListedPrime

\* The handler that runs on a serial lane is all there is to see of it, before
\* and after it moves.
LEMMA MoveView ==
  ASSUME LaneInv, NEW n \in FrameId, Running(n), NEW l, l = Lane(n), Serial(l),
         NEW x \in Stages, stage' = [stage EXCEPT ![n] = x], UNCHANGED tag
  PROVE  /\ Handed(l) = IF stage[n] \in {"pre", "decode"} THEN {n} ELSE {}
         /\ Listening(l) = IF stage[n] = "listen" THEN {n} ELSE {}
         /\ Handed(l)' = IF x \in {"pre", "decode"} THEN {n} ELSE {}
         /\ Listening(l)' = IF x = "listen" THEN {n} ELSE {}
<1>1. \A m \in FrameId : (m # n /\ Lane(m) = l) => ~Running(m)
  BY DEF LaneInv, OneRunning
<1>2. stage'[n] = x /\ \A m \in FrameId \ {n} : stage'[m] = stage[m]
  BY DEF LaneInv, LaneTypes
<1>3. \A m \in FrameId : Lane(m)' = Lane(m)
  BY DEF Lane
<1>4. Handed(l) = IF stage[n] \in {"pre", "decode"} THEN {n} ELSE {}
  BY <1>1 DEF Handed, Running
<1>5. Listening(l) = IF stage[n] = "listen" THEN {n} ELSE {}
  BY <1>1 DEF Listening, Running
<1>6. Handed(l)' = IF x \in {"pre", "decode"} THEN {n} ELSE {}
  BY <1>1, <1>2, <1>3 DEF Handed, Running
<1>7. Listening(l)' = IF x = "listen" THEN {n} ELSE {}
  BY <1>1, <1>2, <1>3 DEF Listening, Running
<1>8. QED BY <1>4, <1>5, <1>6, <1>7

\* A released serial lane shows the head of its queue, if there is one.
LEMMA ReleaseView ==
  ASSUME LaneInv, PipelineAssumption, NEW n \in FrameId, Running(n),
         NEW l \in Lanes, l = Lane(n), Serial(l),
         NEW s \in {"done", "cancelled"}, Release(n, s), UNCHANGED tag
  PROVE  /\ Listening(l)' = {}
         /\ WaitingIn(l)' = packetQueue[l]
<1> PICK q : q = packetQueue[l]
  OBVIOUS
<1>0. q \in Seq(FrameId) /\ s \in Stages
  BY DEF LaneInv, LaneTypes, Stages
<1>1. CASE q = <<>>
  <2>1. stage' = [stage EXCEPT ![n] = s] /\ packetQueue' = packetQueue
    BY <1>1 DEF Release
  <2>2. Listening(l)' = {} /\ Handed(l)' = {}
    BY <1>0, <2>1, MoveView
  <2>3. WaitingIn(l)' = Listed({}, q)
    BY <2>1, <2>2, WaitingIsListedPrime
  <2>4. QED BY <2>2, <2>3 DEF Listed
<1>2. CASE q # <<>>
  <2> PICK h : h = Head(q)
    OBVIOUS
  <2>1. h \in FrameId /\ stage[h] = "queued" /\ Lane(h) = l
    BY <1>2, HeadOldest
  <2>2. /\ stage' = [stage EXCEPT ![n] = s, ![h] = "pre"]
        /\ packetQueue' = [packetQueue EXCEPT ![l] = Tail(q)]
    BY <1>2 DEF Release
  <2>3. /\ stage'[h] = "pre" /\ stage'[n] = s
        /\ \A m \in FrameId \ {n, h} : stage'[m] = stage[m]
    BY <2>1, <2>2 DEF LaneInv, LaneTypes, Running
  <2>4. \A m \in FrameId : (m # n /\ Lane(m) = l) => ~Running(m)
    BY DEF LaneInv, OneRunning
  <2>5. \A m \in FrameId : Lane(m)' = Lane(m)
    BY DEF Lane
  <2>6. Handed(l)' = {h} /\ Listening(l)' = {}
    BY <2>1, <2>3, <2>4, <2>5 DEF Handed, Listening, Running
  <2>7. packetQueue'[l] = Tail(q)
    BY <2>2 DEF LaneInv, LaneTypes
  <2>8. WaitingIn(l)' = Listed({h}, Tail(q))
    BY <2>6, <2>7, WaitingIsListedPrime
  <2>9. QED BY <1>0, <1>2, <2>6, <2>8, HeadInFront
<1>3. QED BY <1>1, <1>2

-----------------------------------------------------------------------------
(* The steps of the server *)

\* The other serial lanes are as they were.
OthersKept(l) ==
  \A k \in SerialLanes \ {l} : WaitingIn(k)' = WaitingIn(k) /\ Listening(k)' = Listening(k)

LEMMA ServerStutters ==
  ASSUME \A k \in SerialLanes : WaitingIn(k)' = WaitingIn(k) /\ Listening(k)' = Listening(k)
  PROVE  UNCHANGED Abstract!vars
BY DEF Abstract!vars

LEMMA ServerAccepts ==
  ASSUME NEW l \in SerialLanes, NEW n \in FrameId, OthersKept(l),
         \A i \in DOMAIN WaitingIn(l) : WaitingIn(l)[i] < n,
         Only(Listening(l)) # None => Only(Listening(l)) < n,
         WaitingIn(l)' = Append(WaitingIn(l), n),
         Listening(l)' = Listening(l)
  PROVE  Abstract!Accept(l, n)
BY DEF Abstract!Accept, OthersKept

LEMMA ServerStarts ==
  ASSUME NEW l \in SerialLanes, OthersKept(l),
         WaitingIn(l) # <<>>, Listening(l) = {},
         WaitingIn(l)' = Tail(WaitingIn(l)),
         Only(Listening(l))' = Head(WaitingIn(l))
  PROVE  Abstract!Start(l)
BY OnlyOne DEF Abstract!Start, OthersKept

LEMMA ServerDrops ==
  ASSUME NEW l \in SerialLanes, OthersKept(l),
         WaitingIn(l) # <<>>, Listening(l) = {},
         WaitingIn(l)' = Tail(WaitingIn(l)),
         Listening(l)' = {}
  PROVE  Abstract!Drop(l)
BY OnlyOne DEF Abstract!Drop, OthersKept

LEMMA ServerFinishes ==
  ASSUME NEW l \in SerialLanes, OthersKept(l), PipelineAssumption,
         NEW n \in FrameId, Listening(l) = {n}, Listening(l)' = {},
         WaitingIn(l)' = WaitingIn(l)
  PROVE  Abstract!Finish(l)
<1>1. n # None
  BY DEF PipelineAssumption, FrameId
<1>2. QED BY <1>1, OnlyOne DEF Abstract!Finish, OthersKept

-----------------------------------------------------------------------------
(* The steps of the pipeline, as steps of the server *)

ServerStep == [Abstract!Next]_(Abstract!vars)

LEMMA ActionIsServerStep ==
  ASSUME NEW l \in SerialLanes,
         \/ \E n \in FrameId : Abstract!Accept(l, n)
         \/ Abstract!Start(l) \/ Abstract!Drop(l) \/ Abstract!Finish(l)
  PROVE  ServerStep
BY DEF ServerStep, Abstract!Next

\* A frame that arrives is accepted by its lane.
LEMMA ReceiveAccepts ==
  ASSUME IInv, PipelineAssumption, NEW t \in Tags, NEW b \in Bodies[t],
         ReceiveFrame(t, b)
  PROVE  ServerStep
<1>0. LaneInv /\ LaneTypes
  BY DEF IInv, LaneInv
<1> PICK n : n = arrived + 1
  OBVIOUS
<1> PICK l \in Lanes : l = LaneOf(t)
  BY DEF LaneOf, Lanes
<1>1. arrived < MaxFrames /\ tag' = [tag EXCEPT ![n] = t] /\ Handle(n, t)
  BY DEF ReceiveFrame
<1>2. n \in FrameId /\ arrived \in Nat
  BY <1>0, <1>1 DEF LaneTypes, FrameId, PipelineAssumption
<1>3. /\ stage[n] = "absent" /\ stage'[n] \in {"queued", "pre"}
      /\ \A m \in FrameId \ {n} : stage'[m] = stage[m] /\ tag'[m] = tag[m]
      /\ Lane(n)' = l
  BY <1>0, <1>1, <1>2 DEF LaneTypes, Handle, Lane
<1>4. \A k \in Lanes \ {l} : packetQueue'[k] = packetQueue[k]
  BY <1>0, <1>1 DEF LaneTypes, Handle
<1>5. \A k \in Lanes \ {l} : WaitingIn(k)' = WaitingIn(k) /\ Listening(k)' = Listening(k)
  <2>1. \A m \in FrameId :
            \/ stage'[m] = stage[m] /\ tag'[m] = tag[m]
            \/ Lane(m)' = l /\ (Lane(m) = l \/ stage[m] = "absent")
    BY <1>2, <1>3
  <2>2. QED BY <1>4, <2>1, OtherLane
<1>6. CASE l \notin SerialLanes
  <2>1. UNCHANGED Abstract!vars
    BY <1>5, <1>6, ServerStutters DEF SerialLanes
  <2>2. QED BY <2>1 DEF ServerStep
<1>7. CASE l \in SerialLanes
  <2>1. OthersKept(l) /\ Serial(l)
    BY <1>5, <1>7 DEF OthersKept, SerialLanes
  <2> PICK q \in Seq(FrameId) : q = packetQueue[l]
    BY <1>0 DEF LaneTypes
  <2>2. ASSUME NEW m \in FrameId, stage[m] # "absent"
        PROVE  m < n
    BY <1>0, <1>2, <2>2 DEF LaneTypes, FrameId
  <2>3. Listening(l)' = Listening(l)
    BY <1>3 DEF Listening, Lane
  <2>4. Only(Listening(l)) # None => Only(Listening(l)) < n
    <3>1. CASE Listening(l) = {}
      BY <3>1, OnlyOne
    <3>2. CASE Listening(l) # {}
      <4>1. Only(Listening(l)) \in Listening(l)
        BY <3>2 DEF Only
      <4>2. QED BY <2>2, <4>1 DEF Listening
    <3>3. QED BY <3>1, <3>2
  <2>5. \A i \in DOMAIN q : q[i] \in FrameId /\ q[i] < n
    <3> SUFFICES ASSUME NEW i \in DOMAIN q PROVE q[i] \in FrameId /\ q[i] < n
      OBVIOUS
    <3>1. {q[j] : j \in DOMAIN q} = {m \in FrameId : stage[m] = "queued" /\ Lane(m) = l}
      BY <1>0 DEF LaneInv, QueueBehindLock
    <3>2. q[i] \in FrameId /\ stage[q[i]] = "queued"
      BY <3>1
    <3>3. QED BY <2>2, <3>2
  <2>6. CASE listenLock[l]
    <3>1. packetQueue'[l] = Append(q, n) /\ stage'[n] = "queued"
      BY <1>0, <1>1, <1>2, <2>6 DEF Handle, LaneTypes
    <3>2. Handed(l)' = Handed(l)
      BY <1>3, <3>1 DEF Handed, Lane
    <3>3. CASE Handed(l) = {}
      <4>1. WaitingIn(l) = q /\ WaitingIn(l)' = Append(q, n)
        BY <3>1, <3>2, <3>3, WaitingIsListed, WaitingIsListedPrime DEF Listed
      <4>2. QED BY <1>2, <1>7, <2>1, <2>3, <2>4, <2>5, <4>1, ServerAccepts, ActionIsServerStep
    <3>4. CASE Handed(l) # {}
      <4>1. PICK m \in Handed(l) : m = Only(Handed(l))
        BY <3>4 DEF Only
      <4>2. m \in FrameId /\ Running(m) /\ Lane(m) = l /\ stage[m] # "absent"
        BY DEF Handed, Running
      <4>3. Handed(l) = {m}
        BY <1>0, <2>1, <4>2 DEF Handed, LaneInv, OneRunning, Running
      <4>4. WaitingIn(l) = Listed({m}, q) /\ WaitingIn(l)' = Listed({m}, Append(q, n))
        BY <3>1, <3>2, <4>3, WaitingIsListed, WaitingIsListedPrime
      <4>5. WaitingIn(l)' = Append(WaitingIn(l), n)
        <5>1. Listed({m}, Append(q, n)) = Append(Listed({m}, q), n)
          BY <1>2, <4>2, BehindAll
        <5>2. QED BY <4>4, <5>1, Zenon
      <4>6. \A i \in DOMAIN WaitingIn(l) : WaitingIn(l)[i] < n
        <5>1. WaitingIn(l) = <<m>> \o q
          BY <4>4, OnlyOne DEF Listed
        <5>2. \A i \in DOMAIN (<<m>> \o q) :
                 (<<m>> \o q)[i] = m \/ \E j \in DOMAIN q : (<<m>> \o q)[i] = q[j]
          BY <4>2
        <5>3. m < n
          BY <2>2, <4>2
        <5>4. QED BY <2>5, <5>1, <5>2, <5>3
      <4>7. QED BY <1>2, <1>7, <2>1, <2>3, <2>4, <4>5, <4>6, ServerAccepts, ActionIsServerStep
    <3>5. QED BY <3>3, <3>4
  <2>7. CASE ~listenLock[l]
    <3>1. packetQueue'[l] = q /\ stage'[n] = "pre"
      BY <1>0, <1>1, <1>2, <2>7 DEF Handle, LaneTypes
    <3>2. q = <<>> /\ \A m \in FrameId : Lane(m) = l => ~Running(m)
      BY <1>0, <2>1, <2>7 DEF LaneInv, QueueBehindLock, LaneHeld
    <3>3. Handed(l) = {} /\ Handed(l)' = {n}
      <4>1. Handed(l) = {}
        BY <3>2 DEF Handed, Running
      <4>2. \A m \in FrameId : m \in Handed(l)' <=> m = n
        BY <1>2, <1>3, <3>1, <4>1 DEF Handed, Lane
      <4>3. Handed(l)' \subseteq FrameId
        BY DEF Handed
      <4>4. QED BY <1>2, <4>1, <4>2, <4>3
    <3>4. WaitingIn(l) = <<>> /\ WaitingIn(l)' = <<n>> \o <<>>
      BY <3>1, <3>2, <3>3, WaitingIsListed, WaitingIsListedPrime, OnlyOne DEF Listed
    <3>5. <<n>> \o <<>> = Append(<<>>, n)
      OBVIOUS
    <3>6. \A i \in DOMAIN WaitingIn(l) : WaitingIn(l)[i] < n
      BY <3>4
    <3>7. QED BY <1>2, <1>7, <2>1, <2>3, <2>4, <3>4, <3>5, <3>6, ServerAccepts, ActionIsServerStep
  <2>8. QED BY <2>6, <2>7
<1>8. QED BY <1>6, <1>7

\* A handler that goes on, or stops with its lane, starts its frame's
\* listeners, drops the frame, finishes it or does nothing the server sees.
LEMMA MoveIsServerStep ==
  ASSUME LaneInv, PipelineAssumption, NEW n \in FrameId, Running(n),
         NEW x \in Stages, stage' = [stage EXCEPT ![n] = x],
         UNCHANGED <<tag, packetQueue>>,
         Serial(Lane(n)) =>
           \/ stage[n] = "pre" /\ x = "decode"
           \/ stage[n] \in {"pre", "decode"} /\ x \notin {"pre", "decode"}
           \/ stage[n] = "listen" /\ x = "post"
  PROVE  ServerStep
<1> PICK l \in Lanes : l = Lane(n)
  BY LaneOfFrame DEF LaneInv
<1>1. /\ \A m \in FrameId \ {n} : stage'[m] = stage[m] /\ tag'[m] = tag[m]
      /\ Lane(n)' = l
  BY DEF LaneInv, LaneTypes, Lane
<1>2. \A k \in Lanes \ {l} : WaitingIn(k)' = WaitingIn(k) /\ Listening(k)' = Listening(k)
  <2>1. \A m \in FrameId :
            \/ stage'[m] = stage[m] /\ tag'[m] = tag[m]
            \/ Lane(m)' = l /\ (Lane(m) = l \/ stage[m] = "absent")
    BY <1>1
  <2>2. \A k \in Lanes \ {l} : packetQueue'[k] = packetQueue[k]
    OBVIOUS
  <2>3. QED BY <2>1, <2>2, OtherLane
<1>3. CASE l \notin SerialLanes
  <2>1. UNCHANGED Abstract!vars
    BY <1>2, <1>3, ServerStutters DEF SerialLanes
  <2>2. QED BY <2>1 DEF ServerStep
<1>4. CASE l \in SerialLanes
  <2>1. OthersKept(l) /\ Serial(l)
    BY <1>2, <1>4 DEF OthersKept, SerialLanes
  <2> PICK q \in Seq(FrameId) : q = packetQueue[l] /\ q = packetQueue'[l]
    BY DEF LaneInv, LaneTypes
  <2>2. /\ Handed(l) = IF stage[n] \in {"pre", "decode"} THEN {n} ELSE {}
        /\ Listening(l) = IF stage[n] = "listen" THEN {n} ELSE {}
        /\ Handed(l)' = IF x \in {"pre", "decode"} THEN {n} ELSE {}
        /\ Listening(l)' = IF x = "listen" THEN {n} ELSE {}
    BY <2>1, MoveView
  <2>3. WaitingIn(l) = Listed(Handed(l), q) /\ WaitingIn(l)' = Listed(Handed(l)', q)
    BY WaitingIsListed, WaitingIsListedPrime
  <2>4. CASE stage[n] = "pre" /\ x = "decode"
    <3>1. WaitingIn(l)' = WaitingIn(l) /\ Listening(l)' = Listening(l)
      BY <2>2, <2>3, <2>4
    <3>2. UNCHANGED Abstract!vars
      BY <2>1, <3>1, ServerStutters DEF OthersKept
    <3>3. QED BY <3>2 DEF ServerStep
  <2>5. CASE stage[n] \in {"pre", "decode"} /\ x \notin {"pre", "decode"}
    <3>0. Listed({n}, q) # <<>> /\ Head(Listed({n}, q)) = n /\ Tail(Listed({n}, q)) = q
      BY InFront
    <3>1. /\ WaitingIn(l) # <<>> /\ Listening(l) = {}
          /\ WaitingIn(l)' = Tail(WaitingIn(l))
          /\ Head(WaitingIn(l)) = n
      BY <2>2, <2>3, <2>5, <3>0, InFront
    <3>2. CASE x = "listen"
      <4>1. Only(Listening(l))' = Head(WaitingIn(l))
        BY <2>2, <3>1, <3>2, OnlyOne DEF Only
      <4>2. QED BY <1>4, <2>1, <3>1, <4>1, ServerStarts, ActionIsServerStep
    <3>3. CASE x # "listen"
      BY <1>4, <2>1, <2>2, <3>1, <3>3, ServerDrops, ActionIsServerStep
    <3>4. QED BY <3>2, <3>3
  <2>6. CASE stage[n] = "listen" /\ x = "post"
    <3>1. Listening(l) = {n} /\ Listening(l)' = {} /\ WaitingIn(l)' = WaitingIn(l)
      BY <2>2, <2>3, <2>6
    <3>2. QED BY <1>4, <2>1, <3>1, ServerFinishes, ActionIsServerStep
  <2>7. QED BY <2>1, <2>4, <2>5, <2>6
<1>5. QED BY <1>3, <1>4

\* releasePacketLock drops a cancelled frame; for one that is done the server
\* does nothing: the next frame is still waiting when its handler starts.
LEMMA ReleaseIsServerStep ==
  ASSUME LaneInv, PipelineAssumption, NEW n \in FrameId, stage[n] \in {"pre", "post"},
         NEW s \in {"done", "cancelled"}, Release(n, s), UNCHANGED tag
  PROVE  ServerStep
<1>0. Running(n)
  BY DEF Running
<1> PICK l \in Lanes : l = Lane(n)
  BY LaneOfFrame DEF LaneInv
<1>1. \A k \in Lanes \ {l} : WaitingIn(k)' = WaitingIn(k) /\ Listening(k)' = Listening(k)
  <2>1. \A k \in Lanes \ {l} : packetQueue'[k] = packetQueue[k]
    BY DEF Release, LaneInv, LaneTypes
  <2>2. \A m \in FrameId : (Lane(m) # l) => stage'[m] = stage[m]
    <3>1. CASE packetQueue[l] = <<>>
      BY <3>1 DEF Release, LaneInv, LaneTypes
    <3>2. CASE packetQueue[l] # <<>>
      <4> PICK h : h = Head(packetQueue[l])
        OBVIOUS
      <4>1. h \in FrameId /\ Lane(h) = l
        BY <3>2, HeadOldest
      <4>2. stage' = [stage EXCEPT ![n] = s, ![h] = "pre"]
        BY <3>2 DEF Release
      <4>3. QED BY <4>1, <4>2 DEF LaneInv, LaneTypes
    <3>3. QED BY <3>1, <3>2
  <2>3. \A m \in FrameId : Lane(m)' = Lane(m)
    BY DEF Lane
  <2>4. QED BY <2>1, <2>2, <2>3, OtherLane
<1>2. CASE l \notin SerialLanes
  <2>1. UNCHANGED Abstract!vars
    BY <1>1, <1>2, ServerStutters DEF SerialLanes
  <2>2. QED BY <2>1 DEF ServerStep
<1>3. CASE l \in SerialLanes
  <2>1. OthersKept(l) /\ Serial(l)
    BY <1>1, <1>3 DEF OthersKept, SerialLanes
  <2> PICK q \in Seq(FrameId) : q = packetQueue[l]
    BY DEF LaneInv, LaneTypes
  <2>2. Listening(l)' = {} /\ WaitingIn(l)' = q
    BY <1>0, <2>1, ReleaseView
  <2>3. \A m \in FrameId : (m # n /\ Lane(m) = l) => ~Running(m)
    BY <1>0, <2>1 DEF LaneInv, OneRunning
  <2>4. /\ Handed(l) = IF stage[n] = "pre" THEN {n} ELSE {}
        /\ Listening(l) = {}
    BY <2>3 DEF Handed, Listening, Running
  <2>5. CASE stage[n] = "pre"
    <3>0. Listed({n}, q) # <<>> /\ Tail(Listed({n}, q)) = q
      BY InFront
    <3>1. WaitingIn(l) # <<>> /\ Tail(WaitingIn(l)) = q
      BY <2>4, <2>5, <3>0, WaitingIsListed
    <3>2. QED BY <1>3, <2>1, <2>2, <2>4, <3>1, ServerDrops, ActionIsServerStep
  <2>6. CASE stage[n] = "post"
    <3>1. WaitingIn(l)' = WaitingIn(l) /\ Listening(l)' = Listening(l)
      BY <2>2, <2>4, <2>6, InFront, WaitingIsListed
    <3>2. UNCHANGED Abstract!vars
      BY <2>1, <3>1, ServerStutters DEF OthersKept
    <3>3. QED BY <3>2 DEF ServerStep
  <2>7. QED BY <2>5, <2>6
<1>4. QED BY <1>2, <1>3

\* The batch loop is on no serial lane: the server sees nothing of it.
LEMMA NextResultIsServerStep ==
  ASSUME IInv, PipelineAssumption, NEW n \in FrameId, PostThenNextResult(n)
  PROVE  ServerStep
<1>0. LaneInv /\ LaneTypes /\ UNCHANGED tag
  BY DEF IInv, LaneInv, PostThenNextResult, input
<1> PICK l \in Lanes : l = Lane(n)
  BY <1>0, LaneOfFrame
<1>1. ~Serial(l)
  BY DEF IInv, RestOnlyBatched, PostThenNextResult, Serial, Lane
<1>2. \A k \in Lanes \ {l} : packetQueue'[k] = packetQueue[k]
  BY <1>0 DEF PostThenNextResult, LaneTypes
<1>3. \A m \in FrameId : (Lane(m) # l) => stage'[m] = stage[m]
  <2>1. CASE packetQueue[l] = <<>>
    BY <1>0, <2>1 DEF PostThenNextResult, LaneTypes
  <2>2. CASE packetQueue[l] # <<>>
    <3> PICK h : h = Head(packetQueue[l])
      OBVIOUS
    <3> PICK x : x = DeliverStage(Head(rest[n]))
      OBVIOUS
    <3>1. h \in FrameId /\ Lane(h) = l
      BY <1>0, <2>2, HeadOldest
    <3>2. stage' = [stage EXCEPT ![n] = x, ![h] = "pre"]
      BY <2>2 DEF PostThenNextResult
    <3>3. QED BY <1>0, <3>1, <3>2 DEF LaneTypes
  <2>3. QED BY <2>1, <2>2
<1>4. \A m \in FrameId : Lane(m)' = Lane(m)
  BY <1>0 DEF Lane
<1>5. \A k \in SerialLanes : WaitingIn(k)' = WaitingIn(k) /\ Listening(k)' = Listening(k)
  <2> SUFFICES ASSUME NEW k \in SerialLanes
               PROVE  WaitingIn(k)' = WaitingIn(k) /\ Listening(k)' = Listening(k)
    OBVIOUS
  <2>1. k \in Lanes \ {l}
    BY <1>1 DEF SerialLanes
  <2>2. QED BY <1>0, <1>2, <1>3, <1>4, <2>1, OtherLane
<1>6. UNCHANGED Abstract!vars
  BY <1>5, ServerStutters
<1>7. QED BY <1>6 DEF ServerStep

\* Every step of the pipeline is a step of the server, or none.
LEMMA StepIsServerStep ==
  ASSUME IInv, PipelineAssumption, [Next]_vars
  PROVE  ServerStep
<1>0. LaneInv
  BY DEF IInv
<1>1. ASSUME NEW n \in FrameId, Handler(n) \/ PreCancels(n)
      PROVE  ServerStep
  <2>1. CASE PostThenNextResult(n)
    BY <2>1, NextResultIsServerStep
  <2>2. CASE PreCancels(n) \/ PostThenRelease(n)
    <3>1. PICK s \in {"done", "cancelled"} :
             stage[n] \in {"pre", "post"} /\ Release(n, s) /\ UNCHANGED tag
      BY <2>2 DEF PreCancels, PostThenRelease, input
    <3>2. QED BY <1>0, <3>1, ReleaseIsServerStep
  <2>3. CASE \/ PreThenRereference(n) \/ PreThenDecode(n) \/ Decode(n) \/ DecodeBatch(n)
             \/ ListenersReturn(n) \/ ListenerThrows(n)
    <3>1. Running(n) /\ UNCHANGED <<tag, packetQueue>>
      BY <2>3 DEF PreThenRereference, PreThenDecode, Decode, DecodeBatch,
         ListenersReturn, ListenerThrows, Running, input
    <3>2. PICK x \in Stages :
             /\ stage' = [stage EXCEPT ![n] = x]
             /\ \/ stage[n] = "pre" /\ x = "decode"
                \/ stage[n] \in {"pre", "decode"} /\ x \notin {"pre", "decode"}
                \/ stage[n] = "listen" /\ x = "post"
      BY <2>3 DEF PreThenRereference, PreThenDecode, Decode, DecodeBatch,
         ListenersReturn, ListenerThrows, Stages, DeliverStage
    <3>3. QED BY <1>0, <3>1, <3>2, MoveIsServerStep
  <2>4. CASE NextListener(n)
    <3>1. UNCHANGED <<tag, stage, packetQueue>>
      BY <2>4 DEF NextListener, input
    <3>2. \A k : WaitingIn(k)' = WaitingIn(k) /\ Listening(k)' = Listening(k)
      BY <3>1 DEF WaitingIn, Handed, Listening, Lane
    <3>3. QED BY <3>2, ServerStutters DEF ServerStep
  <2>5. QED BY <1>1, <2>1, <2>2, <2>3, <2>4 DEF Handler
<1>2. CASE \/ RejectFrame \/ Close \/ HandshakeTimeout \/ SocketClosed \/ UNCHANGED vars
           \/ \E t \in Toggled : EnablePacket(t) \/ DisablePacket(t)
  <2>1. UNCHANGED <<tag, stage, packetQueue>>
    BY <1>2 DEF RejectFrame, Close, HandshakeTimeout, SocketClosed,
       EnablePacket, DisablePacket, input, vars
  <2>2. \A k : WaitingIn(k)' = WaitingIn(k) /\ Listening(k)' = Listening(k)
    BY <2>1 DEF WaitingIn, Handed, Listening, Lane
  <2>3. QED BY <2>2, ServerStutters DEF ServerStep
<1>3. QED BY <1>1, <1>2, ReceiveAccepts DEF Next

\* A new connection is an idle server.
LEMMA InitIsServerInit ==
  ASSUME Init
  PROVE  Abstract!Init
<1>1. \A l : Handed(l) = {} /\ Listening(l) = {}
  BY DEF Init, Handed, Listening
<1>2. \A l \in SerialLanes : WaitingIn(l) = <<>> /\ Only(Listening(l)) = None
  BY <1>1, OnlyOne DEF Init, WaitingIn, SerialLanes
<1>3. QED BY <1>2 DEF Abstract!Init

-----------------------------------------------------------------------------
(* The theorem. *)

\* The locks, queues and awaits of a connection implement, on every lane no
\* batched packet uses, a first-in first-out server of one frame at a time.
THEOREM PipelineServes == Spec => ImplementsSerialListeners
<1>1. Init => Abstract!Init
  BY InitIsServerInit
<1>2. IInv /\ [Next]_vars => [Abstract!Next]_(Abstract!vars)
  BY StepIsServerStep, PipelineAssumption DEF ServerStep
<1>3. QED
  BY <1>1, <1>2, Invariance, PTL DEF Spec, ImplementsSerialListeners, Abstract!Spec
=============================================================================
