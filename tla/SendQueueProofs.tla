--------------------------- MODULE SendQueueProofs --------------------------
(***************************************************************************)
(* What holds of the send queue for any packets, values and number of      *)
(* calls: its types, that at most one call encodes, that calls wait behind *)
(* a locked queue only, that frames are written in the order of the queue, *)
(* and that the peer reads from them what was sent.                        *)
(***************************************************************************)
EXTENDS SendQueue, TLAPS

\* The call that encodes has locked the queue, so that an arriving one waits.
EncoderHoldsLock == \A s \in SendId : stage[s] = "encode" => locked

\* The part of the invariant about the queue, and the variables it speaks of.
QueueTypes ==
  /\ called \in 0..MaxSends
  /\ stage \in [SendId -> Stages]
  /\ \A s \in SendId : stage[s] = "absent" <=> s > called
  /\ locked \in BOOLEAN
  /\ waiting \in Seq(SendId)

QueueInv == QueueTypes /\ OneEncoder /\ EncoderHoldsLock /\ WaitingBehindLock

IInv == TypeOK /\ QueueInv

-----------------------------------------------------------------------------
(* The ways a step touches the queue. *)

\* The discipline survives a step that changes neither the queue nor which calls
\* wait, unless it frees the lock they wait for.
LEMMA SameWaiting ==
  ASSUME WaitingBehindLock, UNCHANGED waiting, waiting # <<>> => locked',
         \A r \in SendId : stage'[r] = "waiting" <=> stage[r] = "waiting"
  PROVE  WaitingBehindLock'
<1>1. {r \in SendId : stage[r] = "waiting"}' = {r \in SendId : stage[r] = "waiting"}
  OBVIOUS
<1>2. {waiting[i] : i \in DOMAIN waiting}' = {waiting[i] : i \in DOMAIN waiting}
  BY Zenon
<1>3. /\ (waiting # <<>> => locked)'
      /\ ({waiting[i] : i \in DOMAIN waiting} = {r \in SendId : stage[r] = "waiting"})'
  BY <1>1, <1>2 DEF WaitingBehindLock
<1>4. (\A i, j \in DOMAIN waiting : waiting[i] = waiting[j] => i = j)'
  BY DEF WaitingBehindLock
<1>5. QED BY <1>3, <1>4 DEF WaitingBehindLock

\* A call that neither starts nor stops waiting or encoding leaves the queue as
\* it is; so does one whose encoding failed.
LEMMA MovePreserves ==
  ASSUME QueueInv, SendAssumption,
         NEW s \in SendId, stage[s] \notin {"absent", "waiting"},
         NEW x \in Stages \ {"absent", "waiting", "encode"},
         stage' = [stage EXCEPT ![s] = x],
         UNCHANGED <<called, locked, waiting>>
  PROVE  QueueInv'
<1> USE DEF QueueInv
<1>1. QueueTypes'
  BY DEF QueueTypes, Stages
<1>2. OneEncoder' /\ EncoderHoldsLock'
  BY DEF QueueTypes, OneEncoder, EncoderHoldsLock, Stages
<1>3. \A r \in SendId : stage'[r] = "waiting" <=> stage[r] = "waiting"
  BY DEF QueueTypes, Stages
<1>4. WaitingBehindLock'
  BY <1>3, SameWaiting DEF WaitingBehindLock
<1>5. QED BY <1>1, <1>2, <1>4

\* A new call waits for nothing.
LEMMA CallPreserves ==
  ASSUME QueueInv, SendAssumption, called < MaxSends,
         called' = called + 1,
         stage' = [stage EXCEPT ![called + 1] = "pre"],
         UNCHANGED <<locked, waiting>>
  PROVE  QueueInv'
<1> USE DEF QueueInv
<1>1. called + 1 \in SendId /\ stage[called + 1] = "absent"
  BY DEF QueueTypes, SendId, SendAssumption
<1>2. QueueTypes'
  BY <1>1 DEF QueueTypes, Stages, SendId, SendAssumption
<1>3. OneEncoder' /\ EncoderHoldsLock'
  BY <1>1 DEF QueueTypes, OneEncoder, EncoderHoldsLock
<1>4. \A r \in SendId : stage'[r] = "waiting" <=> stage[r] = "waiting"
  BY <1>1 DEF QueueTypes
<1>5. WaitingBehindLock'
  BY <1>4, SameWaiting DEF WaitingBehindLock
<1>6. QED BY <1>2, <1>3, <1>5

\* A call that finds the queue locked becomes the last of those that wait.
LEMMA EnqueuePreserves ==
  ASSUME QueueInv, SendAssumption,
         NEW s \in SendId, stage[s] = "pre", locked,
         waiting' = Append(waiting, s),
         stage' = [stage EXCEPT ![s] = "waiting"],
         UNCHANGED <<called, locked>>
  PROVE  QueueInv'
<1> USE DEF QueueInv
<1>1. QueueTypes'
  BY DEF QueueTypes, Stages
<1>2. OneEncoder' /\ EncoderHoldsLock'
  BY DEF QueueTypes, OneEncoder, EncoderHoldsLock
<1>3. /\ DOMAIN waiting' = 1 .. (Len(waiting) + 1)
      /\ waiting'[Len(waiting) + 1] = s
      /\ \A i \in DOMAIN waiting : waiting'[i] = waiting[i] /\ waiting[i] # s
      /\ DOMAIN waiting = 1 .. Len(waiting) /\ Len(waiting) \in Nat
  BY DEF QueueTypes, WaitingBehindLock
<1>4. \A i, j \in DOMAIN waiting' : waiting'[i] = waiting'[j] => i = j
  BY <1>3 DEF WaitingBehindLock
<1>5. \A r : (\E i \in DOMAIN waiting' : waiting'[i] = r)
               <=> (r = s \/ \E i \in DOMAIN waiting : waiting[i] = r)
  BY <1>3
<1>6. {r \in SendId : stage'[r] = "waiting"} = {r \in SendId : stage[r] = "waiting"} \cup {s}
  BY DEF QueueTypes
<1>7. {waiting'[i] : i \in DOMAIN waiting'} = {waiting[i] : i \in DOMAIN waiting} \cup {s}
  BY <1>5
<1>8. WaitingBehindLock'
  BY <1>4, <1>6, <1>7 DEF WaitingBehindLock
<1>9. QED BY <1>1, <1>2, <1>8

\* A call that finds the queue free locks it and is the only one that encodes.
LEMMA TakePreserves ==
  ASSUME QueueInv, SendAssumption,
         NEW s \in SendId, stage[s] = "pre", ~locked,
         locked' = TRUE,
         stage' = [stage EXCEPT ![s] = "encode"],
         UNCHANGED <<called, waiting>>
  PROVE  QueueInv'
<1> USE DEF QueueInv
<1>1. QueueTypes'
  BY DEF QueueTypes, Stages
<1>2. OneEncoder' /\ EncoderHoldsLock'
  BY DEF QueueTypes, OneEncoder, EncoderHoldsLock
<1>3. \A r \in SendId : stage'[r] = "waiting" <=> stage[r] = "waiting"
  BY DEF QueueTypes
<1>4. WaitingBehindLock'
  BY <1>3, SameWaiting DEF WaitingBehindLock
<1>5. QED BY <1>1, <1>2, <1>4

\* The head of the queue, if there is one, is a call that waits.
LEMMA HeadWaits ==
  ASSUME QueueInv, waiting # <<>>
  PROVE  Head(waiting) \in SendId /\ stage[Head(waiting)] = "waiting"
<1>1. Head(waiting) = waiting[1] /\ 1 \in DOMAIN waiting
  BY DEF QueueInv, QueueTypes
<1>2. QED BY <1>1 DEF QueueInv, WaitingBehindLock

\* A call that has encoded starts the one that waits longest, which encodes
\* alone as its predecessor did, or frees the queue when nobody waits.
LEMMA HandOverPreserves ==
  ASSUME QueueInv, SendAssumption,
         NEW s \in SendId, stage[s] = "encode",
         NEW x \in Stages \ {"absent", "waiting", "encode"},
         HandOver(s, x), UNCHANGED called
  PROVE  QueueInv'
<1> USE DEF QueueInv
<1>1. CASE waiting = <<>>
  <2>1. /\ locked' = FALSE /\ waiting' = waiting
        /\ stage' = [stage EXCEPT ![s] = x]
    BY <1>1 DEF HandOver
  <2>2. QueueTypes'
    BY <2>1 DEF QueueTypes, Stages
  <2>3. OneEncoder' /\ EncoderHoldsLock'
    BY <2>1 DEF QueueTypes, OneEncoder, EncoderHoldsLock
  <2>4. \A r \in SendId : stage'[r] = "waiting" <=> stage[r] = "waiting"
    BY <2>1 DEF QueueTypes
  <2>5. WaitingBehindLock'
    BY <1>1, <2>1, <2>4, SameWaiting
  <2>6. QED BY <2>2, <2>3, <2>5
<1>2. CASE waiting # <<>>
  <2>1. PICK w \in SendId : w = Head(waiting) /\ stage[w] = "waiting"
    BY <1>2, HeadWaits
  <2>2. /\ locked' = locked /\ waiting' = Tail(waiting)
        /\ stage' = [stage EXCEPT ![s] = x, ![w] = "encode"]
    BY <1>2, <2>1 DEF HandOver
  <2>3. QueueTypes'
    BY <1>2, <2>1, <2>2 DEF QueueTypes, Stages
  <2>4. OneEncoder' /\ EncoderHoldsLock'
    BY <1>2, <2>1, <2>2 DEF QueueTypes, OneEncoder, EncoderHoldsLock, WaitingBehindLock
  <2>5. /\ DOMAIN waiting = 1 .. Len(waiting) /\ Len(waiting) \in Nat \ {0}
        /\ DOMAIN waiting' = 1 .. (Len(waiting) - 1)
        /\ \A i \in DOMAIN waiting' : waiting'[i] = waiting[i + 1]
        /\ waiting[1] = w
    BY <1>2, <2>1, <2>2 DEF QueueTypes
  <2>6. \A i, j \in DOMAIN waiting' : waiting'[i] = waiting'[j] => i = j
    BY <2>5 DEF WaitingBehindLock
  <2>7. \A i \in DOMAIN waiting' : waiting'[i] # w
    BY <2>5 DEF WaitingBehindLock
  <2>8. \A i \in DOMAIN waiting : waiting[i] # w => i - 1 \in DOMAIN waiting' /\ waiting'[i - 1] = waiting[i]
    BY <2>5
  <2>9. \A i \in DOMAIN waiting' : i + 1 \in DOMAIN waiting
    BY <2>5
  <2>10. {waiting'[i] : i \in DOMAIN waiting'} = {waiting[i] : i \in DOMAIN waiting} \ {w}
    BY <2>5, <2>7, <2>8, <2>9
  <2>11. {r \in SendId : stage'[r] = "waiting"} = {r \in SendId : stage[r] = "waiting"} \ {w}
    BY <2>1, <2>2 DEF QueueTypes
  <2>12. WaitingBehindLock'
    BY <1>2, <2>2, <2>6, <2>10, <2>11 DEF WaitingBehindLock
  <2>13. QED BY <2>3, <2>4, <2>12
<1>3. QED BY <1>1, <1>2

-----------------------------------------------------------------------------
(* Types *)

\* What Append makes of a sequence over a set.
LEMMA AppendInSeq ==
  ASSUME NEW S, NEW q \in Seq(S), NEW e \in S
  PROVE  Append(q, e) \in Seq(S)
OBVIOUS

\* A call that was made has a packet and values.
LEMMA CallHasArguments ==
  ASSUME TypeOK, NEW s \in SendId, stage[s] # "absent"
  PROVE  tag[s] \in Tags /\ value[s] \in Values
BY DEF TypeOK, SendId, SendAssumption

\* Encoding a call keeps the types of what is recorded about the packet.
LEMMA BeginTypes ==
  ASSUME TypeOK, SendAssumption, NEW s \in SendId, stage[s] # "absent", Begin(s)
  PROVE  /\ lastSent' \in [Tags -> Values \cup {None}]
         /\ payload' \in [SendId -> Values \cup {Empty, None}]
<1>1. tag[s] \in Tags /\ value[s] \in Values
  BY CallHasArguments
<1>2. /\ lastSent \in [Tags -> Values \cup {None}]
      /\ payload \in [SendId -> Values \cup {Empty, None}]
  BY DEF TypeOK
<1>3. CASE tag[s] \in Rereference
  BY <1>1, <1>2, <1>3 DEF Begin
<1>4. CASE tag[s] \notin Rereference
  BY <1>1, <1>2, <1>4 DEF Begin
<1>5. QED BY <1>3, <1>4

\* So does handing the queue over.
LEMMA HandOverTypes ==
  ASSUME TypeOK, QueueInv, SendAssumption, NEW s, NEW x, HandOver(s, x)
  PROVE  /\ forced' \in [SendId -> BOOLEAN]
         /\ lastSent' \in [Tags -> Values \cup {None}]
         /\ payload' \in [SendId -> Values \cup {Empty, None}]
<1>1. CASE waiting = <<>>
  BY <1>1 DEF HandOver, TypeOK
<1>2. CASE waiting # <<>>
  <2>1. PICK w \in SendId : w = Head(waiting) /\ stage[w] = "waiting"
    BY <1>2, HeadWaits
  <2>2. Begin(w) /\ forced' = [forced EXCEPT ![w] = TRUE]
    BY <1>2, <2>1 DEF HandOver
  <2>3. QED BY <2>1, <2>2, BeginTypes DEF TypeOK
<1>3. QED BY <1>1, <1>2

\* The types that do not concern the queue.
DataTypes ==
  /\ role \in {"client", "server"}
  /\ open \in BOOLEAN
  /\ tag \in [SendId -> Tags \cup {None}]
  /\ value \in [SendId -> Values \cup {None}]
  /\ \A s \in SendId : s <= called => tag[s] \in Tags /\ value[s] \in Values
  /\ forced \in [SendId -> BOOLEAN]
  /\ lastSent \in [Tags -> Values \cup {None}]
  /\ payload \in [SendId -> Values \cup {Empty, None}]
  /\ encoded \in Seq(SendId)
  /\ entered \in Seq(SendId)
  /\ wire \in Seq(SendId)

\* The type invariant is the types of the queue and the others.
LEMMA TypesSplit == TypeOK <=> QueueTypes /\ DataTypes
BY DEF TypeOK, QueueTypes, DataTypes

-----------------------------------------------------------------------------
(* The invariant *)

\* Nobody has called send() yet.
LEMMA InitInv == SendAssumption /\ Init => IInv
<1> SUFFICES ASSUME SendAssumption, Init PROVE IInv
  OBVIOUS
<1>1. QueueTypes /\ DataTypes
  <2>1. called \in 0..MaxSends /\ \A s \in SendId : s > called
    BY DEF Init, SendId, SendAssumption
  <2>2. stage \in [SendId -> Stages] /\ \A s \in SendId : stage[s] = "absent"
    BY DEF Init, Stages
  <2>3. QueueTypes
    <3>1. \A s \in SendId : stage[s] = "absent" <=> s > called
      BY <2>1, <2>2
    <3>2. locked \in BOOLEAN
      BY Zenon DEF Init
    <3>3. waiting \in Seq(SendId)
      BY DEF Init
    <3>4. QED BY <2>1, <2>2, <3>1, <3>2, <3>3 DEF QueueTypes
  <2>4. DataTypes
    BY <2>1 DEF Init, DataTypes, SendId
  <2>5. QED BY <2>3, <2>4
<1>2. OneEncoder /\ EncoderHoldsLock
  BY DEF Init, OneEncoder, EncoderHoldsLock
<1>3. {waiting[i] : i \in DOMAIN waiting} = {} /\ {s \in SendId : stage[s] = "waiting"} = {}
  BY DEF Init
<1>4. WaitingBehindLock
  BY <1>3 DEF Init, WaitingBehindLock
<1>5. QED BY <1>1, <1>2, <1>4, TypesSplit DEF IInv, QueueInv

\* Every action of a call keeps the discipline of the queue.
LEMMA StepPreservesQueue ==
  ASSUME IInv, SendAssumption, NEW s \in SendId, Step(s)
  PROVE  QueueInv'
<1> USE DEF IInv
<1>1. CASE PreCancels(s)
  BY <1>1, MovePreserves DEF PreCancels, queue, args, Stages
<1>2. CASE Enqueue(s)
  BY <1>2, EnqueuePreserves DEF Enqueue, args
<1>3. CASE Take(s)
  BY <1>3, TakePreserves DEF Take, args
<1>4. CASE EncodeThenReturn(s)
  BY <1>4, HandOverPreserves DEF EncodeThenReturn, args, Stages
<1>5. CASE EncodeThrows(s)
  BY <1>5, MovePreserves DEF EncodeThrows, queue, args, Stages
<1>6. CASE ReturnThenWrite(s)
  BY <1>6, MovePreserves DEF ReturnThenWrite, Written, queue, args, Stages
<1>7. CASE ReturnThenPost(s)
  BY <1>7, MovePreserves DEF ReturnThenPost, queue, args, Stages
<1>8. CASE PostThenWrite(s)
  BY <1>8, MovePreserves DEF PostThenWrite, Written, queue, args, Stages
<1>9. CASE PostCancel(s)
  BY <1>9, MovePreserves DEF PostCancel, queue, args, Stages
<1>10. QED BY <1>1, <1>2, <1>3, <1>4, <1>5, <1>6, <1>7, <1>8, <1>9 DEF Step

\* And the types of everything else.
LEMMA StepPreservesData ==
  ASSUME IInv, SendAssumption, NEW s \in SendId, Step(s)
  PROVE  DataTypes'
<1>1. TypeOK /\ QueueInv /\ DataTypes
  BY TypesSplit DEF IInv
<1>2. /\ Append(wire, s) \in Seq(SendId) /\ Append(entered, s) \in Seq(SendId)
      /\ Append(encoded, s) \in Seq(SendId)
  BY <1>1, AppendInSeq DEF DataTypes
<1>3. CASE PreCancels(s) \/ EncodeThrows(s) \/ PostCancel(s)
  BY <1>1, <1>3 DEF DataTypes, PreCancels, EncodeThrows, PostCancel, args, queue
<1>4. CASE Enqueue(s)
  BY <1>1, <1>2, <1>4 DEF DataTypes, Enqueue, args
<1>5. CASE Take(s)
  <2>1. stage[s] # "absent" /\ Begin(s)
    BY <1>5 DEF Take
  <2>2. QED BY <1>1, <1>2, <1>5, <2>1, BeginTypes DEF DataTypes, Take, args
<1>6. CASE EncodeThenReturn(s)
  BY <1>1, <1>6, HandOverTypes DEF DataTypes, EncodeThenReturn, args
<1>7. CASE ReturnThenWrite(s)
  BY <1>1, <1>2, <1>7 DEF DataTypes, ReturnThenWrite, Write, args, queue
<1>8. CASE ReturnThenPost(s)
  BY <1>1, <1>2, <1>8 DEF DataTypes, ReturnThenPost, args, queue
<1>9. CASE PostThenWrite(s)
  BY <1>1, <1>2, <1>9 DEF DataTypes, PostThenWrite, Write, args, queue
<1>10. QED BY <1>3, <1>4, <1>5, <1>6, <1>7, <1>8, <1>9 DEF Step

\* A new call, and the close of the connection.
LEMMA OthersPreserve ==
  ASSUME IInv, SendAssumption,
         Close \/ UNCHANGED vars \/ \E t \in Tags, v \in Values : Call(t, v)
  PROVE  IInv'
<1>1. TypeOK /\ QueueInv /\ DataTypes
  BY TypesSplit DEF IInv
<1>2. CASE Close \/ UNCHANGED vars
  <2>1. UNCHANGED <<called, stage, locked, waiting>>
    BY <1>2 DEF Close, vars, args, queue
  <2>2. QueueTypes' /\ OneEncoder' /\ EncoderHoldsLock'
    BY <1>1, <2>1 DEF QueueInv, QueueTypes, OneEncoder, EncoderHoldsLock
  <2>3. WaitingBehindLock'
    BY <1>1, <2>1, SameWaiting DEF QueueInv, WaitingBehindLock
  <2>4. DataTypes'
    BY <1>1, <1>2 DEF DataTypes, Close, vars, args, queue
  <2>5. QED BY <2>2, <2>3, <2>4, TypesSplit, PTL DEF IInv, QueueInv
<1>3. CASE \E t \in Tags, v \in Values : Call(t, v)
  <2>1. PICK t \in Tags, v \in Values : Call(t, v)
    BY <1>3
  <2>2. QueueInv'
    BY <1>1, <2>1, CallPreserves DEF Call, queue
  <2>3. called + 1 \in SendId /\ called \in Nat
    BY <1>1, <2>1 DEF Call, SendId, QueueInv, QueueTypes, SendAssumption
  <2>4. DataTypes'
    BY <1>1, <2>1, <2>3 DEF DataTypes, Call, SendId, queue
  <2>5. QED BY <2>2, <2>4, TypesSplit, PTL DEF IInv, QueueInv
<1>4. QED BY <1>2, <1>3

\* The invariant is inductive.
LEMMA Inductive == SendAssumption /\ IInv /\ [Next]_vars => IInv'
<1> SUFFICES ASSUME SendAssumption, IInv, [Next]_vars PROVE IInv'
  OBVIOUS
<1>1. CASE \E s \in SendId : Step(s)
  <2>1. QueueInv' /\ DataTypes'
    BY <1>1, StepPreservesQueue, StepPreservesData
  <2>2. QED BY <2>1, TypesSplit, PTL DEF IInv, QueueInv
<1>2. CASE ~ \E s \in SendId : Step(s)
  BY <1>2, OthersPreserve DEF Next
<1>3. QED BY <1>1, <1>2

LEMMA AlwaysInv == Spec => []IInv
<1>1. Init => IInv
  BY SendAssumption, InitInv
<1>2. IInv /\ [Next]_vars => IInv'
  BY SendAssumption, Inductive
<1>3. QED BY <1>1, <1>2, PTL DEF Spec

-----------------------------------------------------------------------------

\* Every variable of the send path keeps its type, whatever is sent.
THEOREM TypeCorrect == Spec => []TypeOK
<1>1. IInv => TypeOK
  BY DEF IInv
<1>2. QED BY <1>1, AlwaysInv, PTL

\* At most one call of send() is between the start of its encoding in
\* processPacket and the end of it, so one call at a time reads and writes
\* lastSent and the quantization residual.
THEOREM EncoderAlone == Spec => []OneEncoder
<1>1. IInv => OneEncoder
  BY DEF IInv, QueueInv
<1>2. QED BY <1>1, AlwaysInv, PTL

\* handleQueue never leaves a call waiting at a free queue, forgets one or
\* queues one twice.
THEOREM NobodyForgotten == Spec => []WaitingBehindLock
<1>1. IInv => WaitingBehindLock
  BY DEF IInv, QueueInv
<1>2. QED BY <1>1, AlwaysInv, PTL

-----------------------------------------------------------------------------
(* The order of the wire *)

\* Calls leave onSend_post in the order they entered it: on a client, which
\* writes before it, and on a server whose hooks take equally long.
InOrder == role = "client" \/ ~PostDelays

Has(q, s) == \E i \in DOMAIN q : q[i] = s

Past == {"post", "sent", "cancelled", "dropped"}

\* Where a call is recorded at each stage.
RecordInv ==
  /\ \A s \in SendId : stage[s] \in {"waiting", "encode", "returned"} => Has(entered, s)
  /\ \A s \in SendId : stage[s] \in {"absent", "pre"} => ~Has(entered, s)
  /\ \A s \in SendId : Has(encoded, s) => stage[s] \in Past /\ Has(entered, s)
  /\ \A s \in SendId : stage[s] \in {"post", "sent", "dropped"} => Has(encoded, s)
  /\ \A s \in SendId : stage[s] = "cancelled" /\ Has(entered, s) => Has(encoded, s)
  /\ \A s \in SendId : stage[s] = "post" => role = "server"
  /\ \A s \in SendId : stage[s] = "dropped" => ~open
  /\ \A s \in SendId : Has(wire, s) <=> stage[s] = "sent"

\* No call enters twice, none is written twice.
OnceInv ==
  /\ \A r, s \in SendId : Before(entered, r, s) => ~Before(entered, s, r) /\ r # s
  /\ \A r, s \in SendId : Before(wire, r, s) => ~Before(wire, s, r) /\ r # s

\* r came first, or was direct while s waited.
InTurn(r, s) == Before(entered, r, s) \/ (forced[s] /\ ~forced[r])

\* Calls are encoded in the order they reached the queue: who has been encoded
\* comes before who encodes, who before those that wait.
EntryOrder ==
  /\ \A r, s \in SendId : Before(waiting, r, s) => Before(entered, r, s)
  /\ \A r, s \in SendId : stage[r] = "encode" /\ stage[s] = "waiting" => Before(entered, r, s)
  /\ \A r, s \in SendId :
        (Has(encoded, r) \/ stage[r] = "returned") /\ stage[s] \in {"waiting", "encode"}
           => Before(entered, r, s)

\* Their promises come back in turn ...
ReturnOrder ==
  /\ \A r, s \in SendId : Has(encoded, r) /\ stage[s] = "returned" => InTurn(r, s)
  /\ \A r, s \in SendId : Before(encoded, r, s) => InTurn(r, s)

\* ... and they are written in the order these came back.
WireOrder ==
  InOrder =>
    /\ \A r, s \in SendId :
          Has(wire, r) /\ stage[s] \in {"post", "dropped"} => Before(encoded, r, s)
    /\ \A r, s \in SendId : Before(wire, r, s) => Before(encoded, r, s)

OrderInv == RecordInv /\ OnceInv /\ EntryOrder /\ ReturnOrder /\ WireOrder

-----------------------------------------------------------------------------
(* What the peer makes of the wire *)

\* A call encodes to nothing until it leaves the queue, then to its values or
\* to the empty payload.
PayloadInv ==
  \A s \in SendId :
    /\ payload[s] \in {None, Empty, value[s]}
    /\ Has(entered, s) => (payload[s] = None <=> stage[s] = "waiting")
    /\ ~Has(entered, s) => payload[s] = None

\* A call that was refused left the queue locked: nothing is encoded after it.
StuckInv ==
  \A s \in SendId : stage[s] \in {"failed", "hung"} =>
    /\ locked
    /\ \A r \in SendId : stage[r] # "encode"
    /\ \A r \in SendId : Before(entered, s, r) => payload[r] = None

\* The k-th call of e encoded packet t in full; and no later one of the first n.
\* Here e stands for entered, g for tag, p for payload.
FullAt(e, g, p, t, k) == g[e[k]] = t /\ p[e[k]] \notin {Empty, None}
LastFull(e, g, p, t, j, n) ==
  j \in 1..n /\ FullAt(e, g, p, t, j) /\ \A k \in 1..n : FullAt(e, g, p, t, k) => k <= j

\* An empty payload repeats the last full one of its packet before it; l, which
\* stands for lastSent, holds the values of the last full one; the calls that
\* encode to nothing yet are the last ones.
Repeat(e, g, v, p, l) ==
  /\ \A i \in 1..Len(e) : p[e[i]] = Empty =>
       \E j \in 1..(i - 1) : LastFull(e, g, p, g[e[i]], j, i - 1) /\ p[e[j]] = v[e[i]]
  /\ \A t \in Rereference :
       \/ l[t] = None
       \/ \E j \in 1..Len(e) : LastFull(e, g, p, t, j, Len(e)) /\ p[e[j]] = l[t]
  /\ \A i, j \in 1..Len(e) : i < j /\ p[e[i]] = None => p[e[j]] = None

RepeatInv == Repeat(entered, tag, value, payload, lastSent)

PeerInv == PayloadInv /\ StuckInv /\ RepeatInv

-----------------------------------------------------------------------------
(* Sequences of calls *)

LEMMA AppendIs ==
  ASSUME NEW S, NEW q \in Seq(S), NEW x \in S
  PROVE  /\ Append(q, x) \in Seq(S) /\ Len(q) \in Nat
         /\ Len(Append(q, x)) = Len(q) + 1
         /\ DOMAIN q = 1..Len(q) /\ DOMAIN Append(q, x) = 1..(Len(q) + 1)
         /\ Append(q, x)[Len(q) + 1] = x
         /\ \A i \in 1..Len(q) : Append(q, x)[i] = q[i]
OBVIOUS

LEMMA TailIs ==
  ASSUME NEW S, NEW q \in Seq(S), q # <<>>
  PROVE  /\ Tail(q) \in Seq(S) /\ Len(q) \in Nat \ {0}
         /\ DOMAIN q = 1..Len(q) /\ DOMAIN Tail(q) = 1..(Len(q) - 1)
         /\ Head(q) = q[1] /\ Head(q) \in S
         /\ \A i \in 1..(Len(q) - 1) : Tail(q)[i] = q[i + 1]
OBVIOUS

\* What was appended comes last.
LEMMA AppendHas ==
  ASSUME NEW S, NEW q \in Seq(S), NEW x \in S
  PROVE  \A r : Has(Append(q, x), r) <=> Has(q, r) \/ r = x
<1> DEFINE n == Len(q)
           a == Append(q, x)
<1>1. /\ n \in Nat /\ DOMAIN q = 1..n /\ DOMAIN a = 1..(n + 1)
      /\ a[n + 1] = x /\ \A i \in 1..n : a[i] = q[i]
  BY AppendIs
<1> HIDE DEF n, a
<1>2. ASSUME NEW r, Has(a, r) PROVE Has(q, r) \/ r = x
  <2>1. PICK i \in 1..(n + 1) : a[i] = r
    BY <1>1, <1>2 DEF Has
  <2>2. CASE i = n + 1
    BY <1>1, <2>1, <2>2
  <2>3. CASE i # n + 1
    <3>1. i \in 1..n
      BY <1>1, <2>3
    <3>2. QED BY <1>1, <2>1, <3>1 DEF Has
  <2>4. QED BY <2>2, <2>3
<1>3. ASSUME NEW r, Has(q, r) PROVE Has(a, r)
  <2>1. PICK i \in 1..n : q[i] = r
    BY <1>1, <1>3 DEF Has
  <2>2. i \in DOMAIN a /\ a[i] = r
    BY <1>1, <2>1
  <2>3. QED BY <2>2 DEF Has
<1>4. Has(a, x)
  <2>1. n + 1 \in DOMAIN a /\ a[n + 1] = x
    BY <1>1
  <2>2. QED BY <2>1 DEF Has
<1>5. QED BY <1>2, <1>3, <1>4 DEF a

LEMMA AppendBefore ==
  ASSUME NEW S, NEW q \in Seq(S), NEW x \in S
  PROVE  \A r, s : Before(Append(q, x), r, s) <=> Before(q, r, s) \/ (s = x /\ Has(q, r))
<1> DEFINE n == Len(q)
           a == Append(q, x)
<1>1. /\ n \in Nat /\ DOMAIN q = 1..n /\ DOMAIN a = 1..(n + 1)
      /\ a[n + 1] = x /\ \A i \in 1..n : a[i] = q[i]
  BY AppendIs
<1> HIDE DEF n, a
<1>2. ASSUME NEW r, NEW s, Before(a, r, s) PROVE Before(q, r, s) \/ (s = x /\ Has(q, r))
  <2>1. PICK i \in 1..(n + 1), j \in 1..(n + 1) : i < j /\ a[i] = r /\ a[j] = s
    BY <1>1, <1>2 DEF Before
  <2>2. i \in 1..n /\ q[i] = r
    BY <1>1, <2>1
  <2>3. CASE j = n + 1
    BY <1>1, <2>1, <2>2, <2>3 DEF Has
  <2>4. CASE j # n + 1
    <3>1. j \in 1..n /\ q[j] = s
      BY <1>1, <2>1, <2>4
    <3>2. QED BY <1>1, <2>1, <2>2, <3>1 DEF Before
  <2>5. QED BY <2>3, <2>4
<1>3. ASSUME NEW r, NEW s, Before(q, r, s) PROVE Before(a, r, s)
  <2>1. PICK i \in 1..n, j \in 1..n : i < j /\ q[i] = r /\ q[j] = s
    BY <1>1, <1>3 DEF Before
  <2>2. i \in DOMAIN a /\ j \in DOMAIN a /\ a[i] = r /\ a[j] = s
    BY <1>1, <2>1
  <2>3. QED BY <2>1, <2>2 DEF Before
<1>4. ASSUME NEW r, Has(q, r) PROVE Before(a, r, x)
  <2>1. PICK i \in 1..n : q[i] = r
    BY <1>1, <1>4 DEF Has
  <2>2. /\ i \in DOMAIN a /\ n + 1 \in DOMAIN a /\ i < n + 1
        /\ a[i] = r /\ a[n + 1] = x
    BY <1>1, <2>1
  <2>3. QED BY <2>2 DEF Before
<1>5. QED BY <1>2, <1>3, <1>4 DEF a

LEMMA TailBefore ==
  ASSUME NEW S, NEW q \in Seq(S), q # <<>>
  PROVE  /\ \A r, s : Before(Tail(q), r, s) => Before(q, r, s)
         /\ \A s : Has(q, s) => s = Head(q) \/ Before(q, Head(q), s)
<1> DEFINE n == Len(q)
           p == Tail(q)
<1>1. /\ n \in Nat \ {0} /\ DOMAIN q = 1..n /\ DOMAIN p = 1..(n - 1)
      /\ Head(q) = q[1] /\ \A i \in 1..(n - 1) : p[i] = q[i + 1]
  BY TailIs
<1> HIDE DEF n, p
<1>2. ASSUME NEW r, NEW s, Before(p, r, s) PROVE Before(q, r, s)
  <2>1. PICK i \in 1..(n - 1), j \in 1..(n - 1) : i < j /\ p[i] = r /\ p[j] = s
    BY <1>1, <1>2 DEF Before
  <2>2. /\ i + 1 \in DOMAIN q /\ j + 1 \in DOMAIN q /\ i + 1 < j + 1
        /\ q[i + 1] = r /\ q[j + 1] = s
    BY <1>1, <2>1
  <2>3. QED BY <2>2 DEF Before
<1>3. ASSUME NEW s, Has(q, s), s # q[1] PROVE Before(q, q[1], s)
  <2>1. PICK i \in 1..n : q[i] = s
    BY <1>1, <1>3 DEF Has
  <2>2. 1 \in DOMAIN q /\ i \in DOMAIN q /\ 1 < i
    BY <1>1, <1>3, <2>1
  <2>3. QED BY <2>1, <2>2 DEF Before
<1>4. QED BY <1>1, <1>2, <1>3 DEF p

LEMMA BeforeHas ==
  ASSUME NEW q, NEW r, NEW s, Before(q, r, s)
  PROVE  Has(q, r) /\ Has(q, s)
BY DEF Before, Has

\* Of two calls in a sequence, one comes first.
LEMMA Ordered ==
  ASSUME NEW S, NEW q \in Seq(S), NEW r, NEW s, Has(q, r), Has(q, s), r # s
  PROVE  Before(q, r, s) \/ Before(q, s, r)
<1>1. PICK i \in DOMAIN q, j \in DOMAIN q : q[i] = r /\ q[j] = s
  BY DEF Has
<1>2. i < j \/ j < i
  BY <1>1
<1>3. QED BY <1>1, <1>2 DEF Before

\* The queue holds the calls that wait.
LEMMA WaitingHas ==
  ASSUME QueueInv, NEW s \in SendId
  PROVE  Has(waiting, s) <=> stage[s] = "waiting"
<1>1. s \in {waiting[i] : i \in DOMAIN waiting} <=> s \in {r \in SendId : stage[r] = "waiting"}
  BY DEF QueueInv, WaitingBehindLock
<1>2. QED BY <1>1 DEF Has

-----------------------------------------------------------------------------
(* The order is kept *)

LEMMA OrderInitially == Init => OrderInv
<1> SUFFICES ASSUME Init PROVE OrderInv
  OBVIOUS
<1>1. /\ \A s \in SendId : stage[s] = "absent"
      /\ DOMAIN encoded = {} /\ DOMAIN wire = {} /\ DOMAIN waiting = {} /\ DOMAIN entered = {}
  BY DEF Init
<1>2. \A r, s : /\ ~Has(encoded, r) /\ ~Has(wire, r) /\ ~Has(entered, r) /\ ~Before(encoded, r, s)
                /\ ~Before(wire, r, s) /\ ~Before(waiting, r, s) /\ ~Before(entered, r, s)
  BY <1>1 DEF Has, Before
<1>3. RecordInv
  BY <1>1, <1>2 DEF RecordInv
<1>4. EntryOrder /\ OnceInv
  BY <1>1, <1>2 DEF EntryOrder, OnceInv
<1>5. WireOrder /\ ReturnOrder
  BY <1>1, <1>2 DEF WireOrder, ReturnOrder
<1>6. QED BY <1>3, <1>4, <1>5 DEF OrderInv

\* A call that is cancelled or refused, and one that is written or dropped after
\* onSend_post, in turn.
LEMMA OrderMove ==
  ASSUME QueueInv, DataTypes, OrderInv,
         NEW s \in SendId, stage[s] \in {"pre", "encode", "post"},
         NEW x \in {"sent", "cancelled", "dropped", "failed", "hung"},
         stage[s] = "post" => x \in Past, stage[s] = "encode" => x \in {"failed", "hung"},
         stage' = [stage EXCEPT ![s] = x],
         UNCHANGED <<role, open, waiting, forced, encoded, entered>>,
         \/ x \notin {"sent", "dropped"} /\ wire' = wire
         \/ x = "dropped" /\ ~open /\ stage[s] = "post" /\ PostInTurn(s) /\ wire' = wire
         \/ x = "sent" /\ open /\ stage[s] = "post" /\ PostInTurn(s) /\ wire' = Append(wire, s)
  PROVE  OrderInv'
<1>1. \A r \in SendId : stage'[r] = IF r = s THEN x ELSE stage[r]
  BY DEF QueueInv, QueueTypes
<1>2. /\ \A r : Has(wire', r) <=> Has(wire, r) \/ (x = "sent" /\ r = s)
      /\ \A r, t : Before(wire', r, t) <=> Before(wire, r, t) \/ (x = "sent" /\ t = s /\ Has(wire, r))
  <2>1. CASE x # "sent"
    BY <2>1
  <2>2. CASE x = "sent"
    <3>1. wire' = Append(wire, s) /\ wire \in Seq(SendId)
      BY <2>2 DEF DataTypes
    <3>2. \A r : Has(Append(wire, s), r) <=> Has(wire, r) \/ r = s
      BY <3>1, AppendHas
    <3>3. \A r, t : Before(Append(wire, s), r, t) <=> Before(wire, r, t) \/ (t = s /\ Has(wire, r))
      BY <3>1, AppendBefore
    <3>4. QED BY <2>2, <3>1, <3>2, <3>3
  <2>3. QED BY <2>1, <2>2
<1>3. ~Has(wire, s) /\ (stage[s] = "post" => Has(encoded, s))
  BY DEF OrderInv, RecordInv
<1>4. \A r : /\ Has(encoded', r) <=> Has(encoded, r)
             /\ Has(entered', r) <=> Has(entered, r)
  OBVIOUS
<1>5. RecordInv'
  BY <1>1, <1>2, <1>3, <1>4 DEF OrderInv, RecordInv, Past
<1>6. OnceInv'
  <2>1. \A r, t : Before(wire, r, t) => Has(wire, r) /\ Has(wire, t)
    BY BeforeHas
  <2>2. \A r, t \in SendId : Before(wire', r, t) => ~Before(wire', t, r) /\ r # t
    BY <1>2, <1>3, <2>1 DEF OrderInv, OnceInv
  <2>3. QED BY <2>2 DEF OrderInv, OnceInv
<1>7. EntryOrder'
  BY <1>1 DEF OrderInv, EntryOrder
<1>8. ReturnOrder'
  BY <1>1 DEF OrderInv, ReturnOrder, InTurn
<1>9. WireOrder'
  <2> SUFFICES ASSUME InOrder
               PROVE  /\ \A r, t \in SendId :
                           Has(wire', r) /\ stage'[t] \in {"post", "dropped"} => Before(encoded, r, t)
                      /\ \A r, t \in SendId : Before(wire', r, t) => Before(encoded, r, t)
    BY DEF WireOrder, InOrder
  <2>1. /\ \A r, t \in SendId : Has(wire, r) /\ stage[t] \in {"post", "dropped"} => Before(encoded, r, t)
        /\ \A r, t \in SendId : Before(wire, r, t) => Before(encoded, r, t)
    BY DEF OrderInv, WireOrder
  <2>2. ASSUME NEW t \in SendId, stage'[t] \in {"post", "dropped"}, x = "sent"
        PROVE  Before(encoded, s, t)
    <3>1. t # s /\ stage[t] \in {"post", "dropped"} /\ stage[s] = "post" /\ PostInTurn(s)
      BY <1>1, <2>2
    <3>2. Has(encoded, s) /\ Has(encoded, t) /\ ~PostDelays
      BY <3>1 DEF OrderInv, RecordInv, InOrder
    <3>3. PICK a \in DOMAIN encoded, b \in DOMAIN encoded :
            encoded[a] = s /\ encoded[b] = t
      BY <3>2 DEF Has
    <3>4. CASE stage[t] = "post"
      <4>1. ~Before(encoded, t, s)
        BY <3>2, <3>1, <3>4 DEF PostInTurn, Before
      <4>2. QED BY <3>1, <3>2, <4>1, Ordered DEF DataTypes
    <3>5. CASE stage[t] = "dropped"
      BY <3>5, <2>2 DEF OrderInv, RecordInv
    <3>6. QED BY <3>1, <3>4, <3>5
  <2>3. ASSUME NEW r \in SendId, NEW t \in SendId, Has(wire', r), stage'[t] \in {"post", "dropped"}
        PROVE  Before(encoded, r, t)
    <3>1. CASE Has(wire, r)
      <4>1. stage[t] \in {"post", "dropped"}
        BY <1>1, <2>3
      <4>2. QED BY <2>1, <3>1, <4>1
    <3>2. CASE x = "sent" /\ r = s
      BY <2>2, <2>3, <3>2
    <3>3. QED BY <1>2, <2>3, <3>1, <3>2
  <2>4. ASSUME NEW r \in SendId, NEW t \in SendId, Before(wire', r, t)
        PROVE  Before(encoded, r, t)
    BY <1>2, <2>1, <2>4
  <2>5. QED BY <2>3, <2>4
<1>10. QED BY <1>5, <1>6, <1>7, <1>8, <1>9 DEF OrderInv

\* A call that has reached the queue is in the history of those.
LEMMA OrderEnter ==
  ASSUME QueueInv, DataTypes, OrderInv,
         NEW s \in SendId, stage[s] = "pre", entered' = Append(entered, s)
  PROVE  /\ \A r : Has(entered', r) <=> Has(entered, r) \/ r = s
         /\ \A r, t : Before(entered', r, t) <=> Before(entered, r, t) \/ (t = s /\ Has(entered, r))
         /\ ~Has(entered, s)
         /\ \A r, t \in SendId : Before(entered', r, t) => ~Before(entered', t, r) /\ r # t
<1>1. ~Has(entered, s) /\ \A r, t : Before(entered, r, t) => Has(entered, r) /\ Has(entered, t)
  BY BeforeHas DEF OrderInv, RecordInv
<1>2. \A r : Has(entered', r) <=> Has(entered, r) \/ r = s
  BY AppendHas DEF DataTypes
<1>3. \A r, t : Before(entered', r, t) <=> Before(entered, r, t) \/ (t = s /\ Has(entered, r))
  BY AppendBefore DEF DataTypes
<1>4. \A r, t \in SendId : Before(entered', r, t) => ~Before(entered', t, r) /\ r # t
  BY <1>1, <1>3 DEF OrderInv, OnceInv
<1>5. QED BY <1>1, <1>2, <1>3, <1>4

\* A call that waits behind the lock came last.
LEMMA OrderEnqueue ==
  ASSUME QueueInv, DataTypes, OrderInv,
         NEW s \in SendId, stage[s] = "pre",
         waiting' = Append(waiting, s), entered' = Append(entered, s),
         stage' = [stage EXCEPT ![s] = "waiting"],
         UNCHANGED <<role, open, forced, encoded, wire>>
  PROVE  OrderInv'
<1>1. \A r \in SendId : stage'[r] = IF r = s THEN "waiting" ELSE stage[r]
  BY DEF QueueInv, QueueTypes
<1>2. /\ \A r : Has(entered', r) <=> Has(entered, r) \/ r = s
      /\ \A r, t : Before(entered', r, t) <=> Before(entered, r, t) \/ (t = s /\ Has(entered, r))
      /\ ~Has(entered, s)
      /\ \A r, t \in SendId : Before(entered', r, t) => ~Before(entered', t, r) /\ r # t
  BY OrderEnter
<1>3. \A r, t : Before(waiting', r, t) <=> Before(waiting, r, t) \/ (t = s /\ Has(waiting, r))
  BY AppendBefore DEF QueueInv, QueueTypes
<1>4. \A r \in SendId : Has(waiting, r) => Has(entered, r)
  BY WaitingHas DEF OrderInv, RecordInv
<1>5. \A r : /\ Has(encoded', r) <=> Has(encoded, r)
             /\ Has(wire', r) <=> Has(wire, r)
  OBVIOUS
<1>6. RecordInv'
  BY <1>1, <1>2, <1>5 DEF OrderInv, RecordInv, Past
<1>7. OnceInv'
  BY <1>2 DEF OrderInv, OnceInv
<1>8. EntryOrder'
  <2>1. \A r, t \in SendId : Before(waiting', r, t) => Before(entered', r, t)
    BY <1>2, <1>3, <1>4 DEF OrderInv, EntryOrder
  <2>2. \A r, t \in SendId : stage'[r] = "encode" /\ stage'[t] = "waiting" => Before(entered', r, t)
    <3>1. \A r \in SendId : stage[r] = "encode" => Has(entered, r)
      BY DEF OrderInv, RecordInv
    <3>2. QED BY <1>1, <1>2, <3>1 DEF OrderInv, EntryOrder
  <2>3. \A r, t \in SendId :
          (Has(encoded', r) \/ stage'[r] = "returned") /\ stage'[t] \in {"waiting", "encode"}
             => Before(entered', r, t)
    <3>1. \A r \in SendId : Has(encoded, r) \/ stage[r] = "returned" => Has(entered, r)
      BY DEF OrderInv, RecordInv
    <3>2. QED BY <1>1, <1>2, <1>5, <3>1 DEF OrderInv, EntryOrder
  <2>4. QED BY <2>1, <2>2, <2>3 DEF EntryOrder
<1>9. ReturnOrder'
  BY <1>1, <1>2 DEF OrderInv, ReturnOrder, InTurn
<1>10. WireOrder'
  BY <1>1 DEF OrderInv, WireOrder, InOrder
<1>11. QED BY <1>6, <1>7, <1>8, <1>9, <1>10 DEF OrderInv

\* A call that finds the queue free comes after all that were encoded.
LEMMA OrderTake ==
  ASSUME QueueInv, DataTypes, OrderInv,
         NEW s \in SendId, stage[s] = "pre", ~locked,
         entered' = Append(entered, s),
         stage' = [stage EXCEPT ![s] = "encode"],
         UNCHANGED <<role, open, waiting, forced, encoded, wire>>
  PROVE  OrderInv'
<1>1. \A r \in SendId : stage'[r] = IF r = s THEN "encode" ELSE stage[r]
  BY DEF QueueInv, QueueTypes
<1>2. /\ \A r : Has(entered', r) <=> Has(entered, r) \/ r = s
      /\ \A r, t : Before(entered', r, t) <=> Before(entered, r, t) \/ (t = s /\ Has(entered, r))
      /\ ~Has(entered, s)
      /\ \A r, t \in SendId : Before(entered', r, t) => ~Before(entered', t, r) /\ r # t
  BY OrderEnter
<1>3. \A r \in SendId : stage'[r] # "waiting"
  <2>1. DOMAIN waiting = {}
    BY DEF QueueInv, WaitingBehindLock
  <2>2. \A r \in SendId : stage[r] # "waiting"
    BY <2>1, WaitingHas DEF Has
  <2>3. QED BY <1>1, <2>2
<1>4. \A r \in SendId : Has(encoded, r) \/ stage[r] = "returned" => Has(entered, r)
  BY DEF OrderInv, RecordInv
<1>5. \A r : /\ Has(encoded', r) <=> Has(encoded, r)
             /\ Has(wire', r) <=> Has(wire, r)
  OBVIOUS
<1>6. RecordInv'
  BY <1>1, <1>2, <1>5 DEF OrderInv, RecordInv, Past
<1>7. OnceInv'
  BY <1>2 DEF OrderInv, OnceInv
<1>8. EntryOrder'
  <2>1. \A r, t \in SendId : Before(waiting', r, t) => Before(entered', r, t)
    BY <1>2 DEF OrderInv, EntryOrder
  <2>2. \A r, t \in SendId :
          (Has(encoded', r) \/ stage'[r] = "returned") /\ stage'[t] \in {"waiting", "encode"}
             => Before(entered', r, t)
    BY <1>1, <1>2, <1>4, <1>5 DEF OrderInv, EntryOrder
  <2>3. QED BY <1>3, <2>1, <2>2 DEF EntryOrder
<1>9. ReturnOrder'
  BY <1>1, <1>2 DEF OrderInv, ReturnOrder, InTurn
<1>10. WireOrder'
  BY <1>1 DEF OrderInv, WireOrder, InOrder
<1>11. QED BY <1>6, <1>7, <1>8, <1>9, <1>10 DEF OrderInv

\* What handing the queue over does to the stages and to the queue.
LEMMA HandOverIs ==
  ASSUME QueueInv, DataTypes, NEW s \in SendId, stage[s] = "encode", HandOver(s, "returned")
  PROVE  /\ stage'[s] = "returned"
         /\ \/ /\ waiting = <<>> /\ UNCHANGED <<waiting, forced, lastSent, payload>>
               /\ \A r \in SendId : r # s => stage'[r] = stage[r]
            \/ /\ waiting # <<>> /\ waiting' = Tail(waiting)
               /\ Head(waiting) \in SendId /\ stage[Head(waiting)] = "waiting"
               /\ Begin(Head(waiting))
               /\ forced'[Head(waiting)] /\ \A r \in SendId : r # Head(waiting) => forced'[r] = forced[r]
               /\ stage'[Head(waiting)] = "encode"
               /\ \A r \in SendId : r # s /\ r # Head(waiting) => stage'[r] = stage[r]
<1>1. CASE waiting = <<>>
  BY <1>1 DEF HandOver, QueueInv, QueueTypes
<1>2. CASE waiting # <<>>
  <2>1. PICK w \in SendId : w = Head(waiting) /\ stage[w] = "waiting"
    BY <1>2, HeadWaits
  <2>2. /\ stage' = [stage EXCEPT ![s] = "returned", ![w] = "encode"]
        /\ forced' = [forced EXCEPT ![w] = TRUE] /\ Begin(w) /\ waiting' = Tail(waiting)
    BY <1>2, <2>1 DEF HandOver
  <2>3. forced'[w] /\ \A r \in SendId : r # w => forced'[r] = forced[r]
    BY Zenon, <2>2 DEF DataTypes
  <2>4. /\ stage'[s] = "returned" /\ stage'[w] = "encode"
        /\ \A r \in SendId : r # s /\ r # w => stage'[r] = stage[r]
    BY <2>1, <2>2 DEF QueueInv, QueueTypes
  <2>5. QED BY Zenon, <1>2, <2>1, <2>2, <2>3, <2>4
<1>3. QED BY Zenon, <1>1, <1>2

\* A call that has encoded hands the queue to the one that waited longest.
LEMMA OrderHandOver ==
  ASSUME QueueInv, DataTypes, OrderInv,
         NEW s \in SendId, stage[s] = "encode", HandOver(s, "returned"),
         UNCHANGED <<role, open, encoded, entered, wire>>
  PROVE  OrderInv'
<1>1. /\ stage'[s] = "returned"
      /\ \A r \in SendId : r # s =>
           stage'[r] = stage[r] \/ (stage[r] = "waiting" /\ stage'[r] = "encode")
      /\ \A r \in SendId : stage[r] # "waiting" => forced'[r] = forced[r]
      /\ \A r \in SendId : forced[r] => forced'[r]
  <2>1. CASE UNCHANGED forced /\ stage'[s] = "returned" /\ \A r \in SendId : r # s => stage'[r] = stage[r]
    BY <2>1
  <2>2. ASSUME stage'[s] = "returned",
               NEW w \in SendId, stage[w] = "waiting", stage'[w] = "encode",
               forced'[w], \A r \in SendId : r # w => forced'[r] = forced[r],
               \A r \in SendId : r # s /\ r # w => stage'[r] = stage[r]
        PROVE  /\ \A r \in SendId : r # s =>
                    stage'[r] = stage[r] \/ (stage[r] = "waiting" /\ stage'[r] = "encode")
               /\ \A r \in SendId : stage[r] # "waiting" => forced'[r] = forced[r]
               /\ \A r \in SendId : forced[r] => forced'[r]
    BY Zenon, <2>2
  <2>3. QED BY Zenon, <2>1, <2>2, HandOverIs
<1>2. RecordInv'
  BY <1>1 DEF OrderInv, RecordInv, Past
<1>3. OnceInv'
  BY DEF OrderInv, OnceInv
<1>4. EntryOrder'
  <2>1. \A r, t \in SendId : Before(waiting', r, t) => Before(waiting, r, t)
    <3>1. CASE waiting = <<>>
      BY <3>1 DEF HandOver
    <3>2. CASE waiting # <<>>
      <4>1. waiting' = Tail(waiting) /\ waiting \in Seq(SendId)
        BY <3>2 DEF HandOver, QueueInv, QueueTypes
      <4>2. QED BY <3>2, <4>1, TailBefore
    <3>3. QED BY <3>1, <3>2
  <2>2. ASSUME NEW r \in SendId, NEW t \in SendId, stage'[r] = "encode", stage'[t] = "waiting"
        PROVE  Before(entered', r, t)
    <3>1. t # s /\ r # s /\ stage[t] = "waiting" /\ stage[r] = "waiting"
      BY <1>1, <2>2 DEF QueueInv, OneEncoder
    <3>2. Has(waiting, t)
      BY <3>1, WaitingHas
    <3>3. waiting # <<>> /\ waiting \in Seq(SendId)
      BY <3>2 DEF Has, QueueInv, QueueTypes
    <3>4. r = Head(waiting) /\ t # Head(waiting)
      BY <2>2, <3>1, <3>3, HandOverIs
    <3>5. Before(waiting, r, t)
      BY <3>2, <3>3, <3>4, TailBefore
    <3>6. QED BY <3>5 DEF OrderInv, EntryOrder
  <2>3. ASSUME NEW r \in SendId, NEW t \in SendId,
               Has(encoded', r) \/ stage'[r] = "returned", stage'[t] \in {"waiting", "encode"}
        PROVE  Before(entered', r, t)
    <3>1. t # s /\ stage[t] \in {"waiting", "encode"}
      BY <1>1, <2>3
    <3>2. CASE r = s
      <4>1. stage[t] = "waiting"
        BY <3>1 DEF QueueInv, OneEncoder
      <4>2. QED BY <3>2, <4>1 DEF OrderInv, EntryOrder
    <3>3. CASE r # s
      <4>1. Has(encoded, r) \/ stage[r] = "returned"
        BY <1>1, <2>3, <3>3
      <4>2. QED BY <3>1, <4>1 DEF OrderInv, EntryOrder
    <3>4. QED BY <3>2, <3>3
  <2>4. QED BY <2>1, <2>2, <2>3 DEF OrderInv, EntryOrder
<1>5. ReturnOrder'
  <2>1. \A r \in SendId : Has(encoded, r) => forced'[r] = forced[r]
    BY <1>1 DEF OrderInv, RecordInv, Past
  <2>2. \A r, t \in SendId : Has(encoded, r) /\ InTurn(r, t) => InTurn(r, t)'
    BY <1>1, <2>1 DEF InTurn
  <2>3. ASSUME NEW r \in SendId, NEW t \in SendId, Has(encoded, r), stage'[t] = "returned"
        PROVE  InTurn(r, t)'
    <3>1. CASE t = s
      BY <2>3, <3>1 DEF OrderInv, EntryOrder, InTurn
    <3>2. CASE t # s
      <4>1. stage[t] = "returned"
        BY <1>1, <2>3, <3>2
      <4>2. QED BY <2>2, <2>3, <4>1 DEF OrderInv, ReturnOrder
    <3>3. QED BY <3>1, <3>2
  <2>4. \A r, t \in SendId : Before(encoded, r, t) => Has(encoded, r)
    BY BeforeHas
  <2>5. QED BY <2>2, <2>3, <2>4 DEF OrderInv, ReturnOrder
<1>6. WireOrder'
  BY <1>1 DEF OrderInv, WireOrder, InOrder
<1>7. QED BY <1>2, <1>3, <1>4, <1>5, <1>6 DEF OrderInv

\* A call whose promise has come back, in turn: it is written on a client and
\* enters onSend_post on a server.
LEMMA OrderReturn ==
  ASSUME QueueInv, DataTypes, OrderInv,
         NEW s \in SendId, stage[s] = "returned", ReturnsInTurn(s),
         NEW x \in {"sent", "dropped", "post"},
         stage' = [stage EXCEPT ![s] = x],
         encoded' = Append(encoded, s),
         UNCHANGED <<role, open, waiting, forced, entered>>,
         \/ x = "sent" /\ open /\ role = "client" /\ wire' = Append(wire, s)
         \/ x = "dropped" /\ role = "client" /\ ~open /\ wire' = wire
         \/ x = "post" /\ role = "server" /\ wire' = wire
  PROVE  OrderInv'
<1>1. \A r \in SendId : stage'[r] = IF r = s THEN x ELSE stage[r]
  BY DEF QueueInv, QueueTypes
<1>2. /\ \A r : Has(encoded', r) <=> Has(encoded, r) \/ r = s
      /\ \A r, t : Before(encoded', r, t) <=> Before(encoded, r, t) \/ (t = s /\ Has(encoded, r))
  BY AppendHas, AppendBefore DEF DataTypes
<1>3. /\ \A r : Has(wire', r) <=> Has(wire, r) \/ (x = "sent" /\ r = s)
      /\ \A r, t : Before(wire', r, t) <=> Before(wire, r, t) \/ (x = "sent" /\ t = s /\ Has(wire, r))
  <2>1. CASE x # "sent"
    BY <2>1
  <2>2. CASE x = "sent"
    <3>1. wire' = Append(wire, s) /\ wire \in Seq(SendId)
      BY <2>2 DEF DataTypes
    <3>2. \A r : Has(Append(wire, s), r) <=> Has(wire, r) \/ r = s
      BY <3>1, AppendHas
    <3>3. \A r, t : Before(Append(wire, s), r, t) <=> Before(wire, r, t) \/ (t = s /\ Has(wire, r))
      BY <3>1, AppendBefore
    <3>4. QED BY <2>2, <3>1, <3>2, <3>3
  <2>3. QED BY <2>1, <2>2
<1>4. /\ ~Has(wire, s) /\ ~Has(encoded, s) /\ Has(entered, s)
      /\ \A r \in SendId : Has(wire, r) => Has(encoded, r)
  BY DEF OrderInv, RecordInv, Past
<1>5. RecordInv'
  BY <1>1, <1>2, <1>3, <1>4 DEF OrderInv, RecordInv, Past
<1>6. OnceInv'
  <2>1. \A r, t : Before(wire, r, t) => Has(wire, r) /\ Has(wire, t)
    BY BeforeHas
  <2>2. \A r, t \in SendId : Before(wire', r, t) => ~Before(wire', t, r) /\ r # t
    BY <1>3, <1>4, <2>1 DEF OrderInv, OnceInv
  <2>3. QED BY <2>2 DEF OrderInv, OnceInv
<1>7. EntryOrder'
  BY <1>1, <1>2 DEF OrderInv, EntryOrder
<1>8. ReturnOrder'
  <2>1. ASSUME NEW r \in SendId, NEW t \in SendId, Has(encoded', r), stage'[t] = "returned"
        PROVE  InTurn(r, t)
    <3>1. t # s /\ stage[t] = "returned"
      BY <1>1, <2>1
    <3>2. CASE Has(encoded, r)
      BY <3>1, <3>2 DEF OrderInv, ReturnOrder
    <3>3. CASE r = s
      <4>1. Has(entered, t)
        BY <3>1 DEF OrderInv, RecordInv
      <4>2. Before(entered, s, t) \/ Before(entered, t, s)
        BY <1>4, <3>1, <4>1, Ordered DEF DataTypes
      <4>3. CASE Before(entered, t, s)
        BY <3>1, <3>3, <4>3 DEF ReturnsInTurn, InTurn
      <4>4. QED BY <3>3, <4>2, <4>3 DEF InTurn
    <3>4. QED BY <1>2, <2>1, <3>2, <3>3
  <2>2. \A r, t \in SendId : Before(encoded', r, t) => InTurn(r, t)
    BY <1>2 DEF OrderInv, ReturnOrder
  <2>3. \A r, t \in SendId : InTurn(r, t) <=> InTurn(r, t)'
    BY DEF InTurn
  <2>4. QED BY <2>1, <2>2, <2>3 DEF ReturnOrder
<1>9. WireOrder'
  <2> SUFFICES ASSUME InOrder
               PROVE  /\ \A r, t \in SendId :
                           Has(wire', r) /\ stage'[t] \in {"post", "dropped"} => Before(encoded', r, t)
                      /\ \A r, t \in SendId : Before(wire', r, t) => Before(encoded', r, t)
    BY DEF WireOrder, InOrder
  <2>1. ASSUME NEW r \in SendId, NEW t \in SendId, Has(wire', r), stage'[t] \in {"post", "dropped"}
        PROVE  Before(encoded', r, t)
    <3>1. CASE Has(wire, r) /\ t = s
      BY <1>2, <1>4, <3>1
    <3>2. CASE Has(wire, r) /\ t # s
      <4>1. stage[t] \in {"post", "dropped"}
        BY <1>1, <2>1, <3>2
      <4>2. QED BY <1>2, <3>2, <4>1 DEF OrderInv, WireOrder
    <3>3. CASE x = "sent" /\ r = s
\* On a client nothing waits in onSend_post, and on an open connection nothing
\* was dropped.
      <4>1. role = "client" /\ t # s /\ stage[t] \in {"post", "dropped"}
        BY <1>1, <2>1, <3>3
      <4>2. stage[t] = "dropped" /\ ~open
        BY <4>1 DEF OrderInv, RecordInv
      <4>3. QED BY <3>3, <4>2
    <3>4. QED BY <1>3, <2>1, <3>1, <3>2, <3>3
  <2>2. ASSUME NEW r \in SendId, NEW t \in SendId, Before(wire', r, t)
        PROVE  Before(encoded', r, t)
    <3>1. CASE Before(wire, r, t)
      BY <1>2, <3>1 DEF OrderInv, WireOrder
    <3>2. CASE t = s /\ Has(wire, r)
      BY <1>2, <1>4, <3>2
    <3>3. QED BY <1>3, <2>2, <3>1, <3>2
  <2>3. QED BY <2>1, <2>2
<1>10. QED BY <1>5, <1>6, <1>7, <1>8, <1>9 DEF OrderInv

LEMMA OrderStep ==
  ASSUME IInv, SendAssumption, OrderInv, NEW s \in SendId, Step(s)
  PROVE  OrderInv'
<1>1. QueueInv /\ DataTypes
  BY TypesSplit DEF IInv
<1>2. CASE PreCancels(s)
  BY <1>1, <1>2, OrderMove DEF PreCancels, queue
<1>3. CASE Enqueue(s)
  BY <1>1, <1>3, OrderEnqueue DEF Enqueue
<1>4. CASE Take(s)
  BY <1>1, <1>4, OrderTake DEF Take
<1>5. CASE EncodeThenReturn(s)
  BY <1>1, <1>5, OrderHandOver DEF EncodeThenReturn
<1>6. CASE EncodeThrows(s)
  BY <1>1, <1>6, OrderMove DEF EncodeThrows, queue
<1>7. CASE ReturnThenWrite(s)
  BY <1>1, <1>7, OrderReturn DEF ReturnThenWrite, Written, Write, queue
<1>8. CASE ReturnThenPost(s)
  BY <1>1, <1>8, OrderReturn DEF ReturnThenPost, queue
<1>9. CASE PostThenWrite(s)
  BY <1>1, <1>9, OrderMove DEF PostThenWrite, Written, Write, queue, Past
<1>10. CASE PostCancel(s)
  BY <1>1, <1>10, OrderMove DEF PostCancel, queue, Past
<1>11. QED BY <1>2, <1>3, <1>4, <1>5, <1>6, <1>7, <1>8, <1>9, <1>10 DEF Step

LEMMA OrderOthers ==
  ASSUME IInv, SendAssumption, OrderInv,
         Close \/ UNCHANGED vars \/ \E t \in Tags, v \in Values : Call(t, v)
  PROVE  OrderInv'
<1>1. QueueInv /\ DataTypes
  BY TypesSplit DEF IInv
<1>2. /\ UNCHANGED <<role, waiting, forced, encoded, entered, wire>>
      /\ open' => open
      /\ \/ UNCHANGED stage
         \/ /\ called + 1 \in SendId /\ stage[called + 1] = "absent"
            /\ stage' = [stage EXCEPT ![called + 1] = "pre"]
  <2>1. CASE Close \/ UNCHANGED vars
    BY <2>1 DEF Close, vars, queue
  <2>2. CASE \E t \in Tags, v \in Values : Call(t, v)
    <3>1. /\ called < MaxSends /\ called \in Nat
          /\ stage' = [stage EXCEPT ![called + 1] = "pre"]
          /\ UNCHANGED <<role, open, waiting, forced, encoded, entered, wire>>
      BY <1>1, <2>2, SendAssumption DEF Call, queue, QueueInv, QueueTypes, SendAssumption
    <3>2. called + 1 \in SendId /\ called + 1 > called
      BY <3>1, SendAssumption DEF SendId, SendAssumption
    <3>3. QED BY <1>1, <3>1, <3>2 DEF QueueInv, QueueTypes
  <2>3. QED BY <2>1, <2>2
<1>3. \A r \in SendId : stage'[r] = stage[r] \/ (stage[r] = "absent" /\ stage'[r] = "pre")
  BY <1>1, <1>2 DEF QueueInv, QueueTypes
<1>4. RecordInv'
  BY <1>2, <1>3 DEF OrderInv, RecordInv, Past
<1>5. EntryOrder' /\ OnceInv'
  BY <1>2, <1>3 DEF OrderInv, EntryOrder, OnceInv
<1>6. ReturnOrder' /\ WireOrder'
  BY <1>2, <1>3 DEF OrderInv, ReturnOrder, InTurn, WireOrder, InOrder
<1>7. QED BY <1>4, <1>5, <1>6 DEF OrderInv

LEMMA OrderPreserved ==
  ASSUME IInv, SendAssumption, OrderInv, [Next]_vars
  PROVE  OrderInv'
BY OrderStep, OrderOthers DEF Next

-----------------------------------------------------------------------------
(* What the peer reads is kept *)

\* Repetitions depend on the calls of e only.
LEMMA RepeatSame ==
  ASSUME NEW e, Len(e) \in Nat, NEW g, NEW v, NEW p, NEW l, NEW gg, NEW vv, NEW pp,
         \A i \in 1..Len(e) : gg[e[i]] = g[e[i]] /\ vv[e[i]] = v[e[i]] /\ pp[e[i]] = p[e[i]],
         Repeat(e, g, v, p, l)
  PROVE  Repeat(e, gg, vv, pp, l)
<1>1. \A t : \A k \in 1..Len(e) : FullAt(e, gg, pp, t, k) <=> FullAt(e, g, p, t, k)
  BY DEF FullAt
<1>2. ASSUME NEW t, NEW n \in Nat, n <= Len(e), NEW j, LastFull(e, g, p, t, j, n)
      PROVE  LastFull(e, gg, pp, t, j, n)
  <2>1. 1..n \subseteq 1..Len(e)
    BY <1>2
  <2>2. QED BY <1>1, <1>2, <2>1 DEF LastFull
<1>3. ASSUME NEW i \in 1..Len(e), pp[e[i]] = Empty
      PROVE  \E j \in 1..(i - 1) : LastFull(e, gg, pp, gg[e[i]], j, i - 1) /\ pp[e[j]] = vv[e[i]]
  <2>1. PICK j \in 1..(i - 1) : LastFull(e, g, p, g[e[i]], j, i - 1) /\ p[e[j]] = v[e[i]]
    BY <1>3 DEF Repeat
  <2>2. i - 1 \in Nat /\ i - 1 <= Len(e) /\ j \in 1..Len(e)
    OBVIOUS
  <2>3. LastFull(e, gg, pp, g[e[i]], j, i - 1)
    BY <1>2, <2>1, <2>2
  <2>4. QED BY <2>1, <2>2, <2>3
<1>4. ASSUME NEW t \in Rereference, l[t] # None
      PROVE  \E j \in 1..Len(e) : LastFull(e, gg, pp, t, j, Len(e)) /\ pp[e[j]] = l[t]
  <2>1. PICK j \in 1..Len(e) : LastFull(e, g, p, t, j, Len(e)) /\ p[e[j]] = l[t]
    BY <1>4 DEF Repeat
  <2>2. LastFull(e, gg, pp, t, j, Len(e))
    BY <1>2, <2>1
  <2>3. QED BY <2>1, <2>2
<1>5. \A i, j \in 1..Len(e) : i < j /\ pp[e[i]] = None => pp[e[j]] = None
  BY DEF Repeat
<1>6. QED BY <1>3, <1>4, <1>5 DEF Repeat

\* A call that waits changes nothing about them.
LEMMA RepeatAppend ==
  ASSUME NEW S, NEW e \in Seq(S), NEW s \in S, NEW g, NEW v, NEW p, NEW l,
         p[s] = None, Empty # None, Repeat(e, g, v, p, l)
  PROVE  Repeat(Append(e, s), g, v, p, l)
<1> DEFINE n == Len(e)
           a == Append(e, s)
<1>1. /\ n \in Nat /\ Len(a) = n + 1 /\ a[n + 1] = s /\ \A i \in 1..n : a[i] = e[i]
  BY AppendIs
<1>2. Repeat(e, g, v, p, l) /\ n = Len(e)
  OBVIOUS
<1> HIDE DEF n, a
<1>3. \A i \in 1..(n + 1) : i = n + 1 \/ i \in 1..n
  BY <1>1
<1>4. \A t : /\ \A k \in 1..n : FullAt(a, g, p, t, k) <=> FullAt(e, g, p, t, k)
             /\ ~FullAt(a, g, p, t, n + 1)
  BY <1>1 DEF FullAt
<1>5. ASSUME NEW t, NEW m \in Nat, m <= n, NEW j, LastFull(e, g, p, t, j, m)
      PROVE  LastFull(a, g, p, t, j, m)
  <2>1. 1..m \subseteq 1..n
    BY <1>1, <1>5
  <2>2. QED BY <1>4, <1>5, <2>1 DEF LastFull
<1>6. ASSUME NEW i \in 1..(n + 1), p[a[i]] = Empty
      PROVE  \E j \in 1..(i - 1) : LastFull(a, g, p, g[a[i]], j, i - 1) /\ p[a[j]] = v[a[i]]
  <2>1. i \in 1..n /\ a[i] = e[i]
    BY <1>1, <1>3, <1>6
  <2>2. PICK j \in 1..(i - 1) : LastFull(e, g, p, g[e[i]], j, i - 1) /\ p[e[j]] = v[e[i]]
    BY <1>2, <1>6, <2>1 DEF Repeat
  <2>3. i - 1 \in Nat /\ i - 1 <= n /\ j \in 1..n
    BY <1>1, <2>1
  <2>4. LastFull(a, g, p, g[e[i]], j, i - 1) /\ a[j] = e[j]
    BY <1>1, <1>5, <2>2, <2>3
  <2>5. QED BY <2>1, <2>2, <2>4
<1>7. ASSUME NEW t \in Rereference, l[t] # None
      PROVE  \E j \in 1..(n + 1) : LastFull(a, g, p, t, j, n + 1) /\ p[a[j]] = l[t]
  <2>1. PICK j \in 1..n : LastFull(e, g, p, t, j, n) /\ p[e[j]] = l[t]
    BY <1>2, <1>7 DEF Repeat
  <2>2. LastFull(a, g, p, t, j, n)
    BY <1>1, <1>5, <2>1
  <2>3. LastFull(a, g, p, t, j, n + 1) /\ j \in 1..(n + 1) /\ a[j] = e[j]
    BY <1>1, <1>3, <1>4, <2>1, <2>2 DEF LastFull
  <2>4. QED BY <2>1, <2>3
<1>8. ASSUME NEW i \in 1..(n + 1), NEW j \in 1..(n + 1), i < j, p[a[i]] = None
      PROVE  p[a[j]] = None
  <2>1. CASE j = n + 1
    BY <1>1, <2>1
  <2>2. CASE j # n + 1
    <3>1. i \in 1..n /\ j \in 1..n
      BY <1>1, <1>8, <2>2
    <3>2. QED BY <1>1, <1>2, <1>8, <3>1 DEF Repeat
  <2>3. QED BY <2>1, <2>2
<1>9. Repeat(a, g, v, p, l)
  BY <1>1, <1>6, <1>7, <1>8 DEF Repeat
<1>10. QED BY <1>9 DEF a

\* Nor does the first call that encodes to nothing yet once it begins: it
\* compares its values with those of the last full one, and is that itself if
\* they differ.
LEMMA RepeatBegin ==
  ASSUME NEW e, Len(e) \in Nat, NEW q \in 1..Len(e), NEW g, NEW v, NEW p, NEW l, NEW pp, NEW ll,
         Repeat(e, g, v, p, l), Empty # None, v[e[q]] \notin {Empty, None},
         \A i \in 1..Len(e) : i < q => p[e[i]] # None,
         \A i \in 1..Len(e) : i >= q => p[e[i]] = None,
         \A i \in 1..Len(e) : i # q => pp[e[i]] = p[e[i]],
         \A t \in Rereference : t # g[e[q]] => ll[t] = l[t],
         g[e[q]] \in Rereference =>
           /\ pp[e[q]] = IF l[g[e[q]]] = v[e[q]] THEN Empty ELSE v[e[q]]
           /\ ll[g[e[q]]] = v[e[q]],
         g[e[q]] \notin Rereference => pp[e[q]] = v[e[q]]
  PROVE  Repeat(e, g, v, pp, ll)
<1>1. PICK n \in Nat : n = Len(e)
  OBVIOUS
<1>2. \A t : /\ \A k \in 1..n : k # q => (FullAt(e, g, pp, t, k) <=> FullAt(e, g, p, t, k))
             /\ \A k \in 1..n : FullAt(e, g, p, t, k) => k < q
             /\ FullAt(e, g, pp, t, q) <=> t = g[e[q]] /\ pp[e[q]] = v[e[q]]
             /\ \A k \in 1..n : k > q => ~FullAt(e, g, pp, t, k)
  BY <1>1 DEF FullAt
<1>3. pp[e[q]] \in {Empty, v[e[q]]}
  OBVIOUS
<1>4. ASSUME NEW t, NEW m \in Nat, m < q, NEW j, LastFull(e, g, p, t, j, m)
      PROVE  LastFull(e, g, pp, t, j, m) /\ pp[e[j]] = p[e[j]]
  <2>1. \A k \in 1..m : k \in 1..n /\ k # q
    BY <1>1, <1>4
  <2>2. QED BY <1>1, <1>2, <1>4, <2>1 DEF LastFull
\* The last full one of all comes before the call that begins.
<1>5. ASSUME NEW t, NEW j, LastFull(e, g, p, t, j, n)
      PROVE  j \in 1..(q - 1) /\ LastFull(e, g, p, t, j, q - 1)
  <2>1. j \in 1..n /\ FullAt(e, g, p, t, j) /\ \A k \in 1..n : FullAt(e, g, p, t, k) => k <= j
    BY <1>5 DEF LastFull
  <2>2. j < q /\ q \in 1..n
    BY <1>1, <1>2, <2>1
  <2>3. j \in 1..(q - 1) /\ \A k \in 1..(q - 1) : k \in 1..n
    BY <1>1, <2>1, <2>2
  <2>4. QED BY <2>1, <2>3 DEF LastFull
<1>6. ASSUME NEW i \in 1..n, pp[e[i]] = Empty
      PROVE  \E j \in 1..(i - 1) : LastFull(e, g, pp, g[e[i]], j, i - 1) /\ pp[e[j]] = v[e[i]]
  <2>1. CASE i < q
    <3>1. p[e[i]] = Empty
      BY <1>1, <1>6, <2>1
    <3>2. PICK j \in 1..(i - 1) : LastFull(e, g, p, g[e[i]], j, i - 1) /\ p[e[j]] = v[e[i]]
      BY <1>1, <3>1 DEF Repeat
    <3>3. i - 1 \in Nat /\ i - 1 < q
      BY <2>1
    <3>4. QED BY <1>4, <3>2, <3>3
  <2>2. CASE i = q
    <3>1. g[e[q]] \in Rereference /\ l[g[e[q]]] = v[e[q]]
      BY <1>6, <2>2
    <3>2. PICK j \in 1..n : LastFull(e, g, p, g[e[q]], j, n) /\ p[e[j]] = v[e[q]]
      BY <1>1, <3>1 DEF Repeat
    <3>3. j \in 1..(q - 1) /\ LastFull(e, g, p, g[e[q]], j, q - 1)
      BY <1>5, <3>2
    <3>4. q - 1 \in Nat /\ q - 1 < q
      OBVIOUS
    <3>5. LastFull(e, g, pp, g[e[q]], j, q - 1) /\ pp[e[j]] = p[e[j]]
      BY <1>4, <3>3, <3>4
    <3>6. QED BY <2>2, <3>2, <3>3, <3>5
  <2>3. CASE i > q
    BY <1>1, <1>6, <2>3
  <2>4. QED BY <2>1, <2>2, <2>3
<1>7. ASSUME NEW t \in Rereference, ll[t] # None
      PROVE  \E j \in 1..n : LastFull(e, g, pp, t, j, n) /\ pp[e[j]] = ll[t]
  <2>1. CASE t = g[e[q]] /\ pp[e[q]] # Empty
    <3>1. FullAt(e, g, pp, t, q) /\ pp[e[q]] = ll[t]
      <4>1. pp[e[q]] = v[e[q]] /\ ll[t] = v[e[q]]
        BY <1>3, <2>1
      <4>2. FullAt(e, g, pp, t, q)
        BY <2>1, <4>1 DEF FullAt
      <4>3. QED BY <4>1, <4>2
    <3>2. ASSUME NEW k \in 1..n, FullAt(e, g, pp, t, k) PROVE k <= q
      <4>1. ~(k > q)
        BY <1>2, <3>2
      <4>2. QED BY <1>1, <4>1
    <3>3. q \in 1..n
      BY <1>1
    <3>4. QED BY <3>1, <3>2, <3>3 DEF LastFull
  <2>2. CASE t # g[e[q]] \/ pp[e[q]] = Empty
    <3>1. l[t] = ll[t]
      BY <1>7, <2>2
    <3>2. PICK j \in 1..n : LastFull(e, g, p, t, j, n) /\ p[e[j]] = l[t]
      BY <1>1, <1>7, <3>1 DEF Repeat
    <3>3. j < q
      BY <1>2, <3>2 DEF LastFull
    <3>4. FullAt(e, g, pp, t, j) /\ pp[e[j]] = l[t]
      BY <1>1, <1>2, <3>2, <3>3 DEF LastFull
    <3>5. ~FullAt(e, g, pp, t, q)
      BY <1>2, <2>2
    <3>6. \A k \in 1..n : FullAt(e, g, pp, t, k) => k <= j
      BY <1>2, <3>2, <3>5 DEF LastFull
    <3>7. LastFull(e, g, pp, t, j, n)
      BY <3>2, <3>4, <3>6 DEF LastFull
    <3>8. QED BY <3>1, <3>4, <3>7
  <2>3. QED BY <2>1, <2>2
<1>8. ASSUME NEW i \in 1..n, NEW j \in 1..n, i < j, pp[e[i]] = None
      PROVE  pp[e[j]] = None
  <2>1. i > q
    BY <1>1, <1>3, <1>8
  <2>2. QED BY <1>1, <1>8, <2>1
<1>9. QED BY <1>1, <1>6, <1>7, <1>8 DEF Repeat

LEMMA PeerInitially == ASSUME SendAssumption, Init PROVE PeerInv
<1>1. /\ \A s \in SendId : stage[s] = "absent" /\ payload[s] = None
      /\ entered = <<>> /\ \A t \in Tags : lastSent[t] = None
  BY DEF Init
<1>2. Len(entered) = 0 /\ \A s : ~Has(entered, s)
  BY <1>1 DEF Has
<1>3. PayloadInv
  BY <1>1, <1>2 DEF PayloadInv
<1>4. StuckInv
  BY <1>1 DEF StuckInv
<1>5. RepeatInv
  BY <1>1, <1>2 DEF RepeatInv, Repeat, SendAssumption
<1>6. QED BY <1>3, <1>4, <1>5 DEF PeerInv

\* A call that goes on after its encoding, or is cancelled before it.
LEMMA PeerQuiet ==
  ASSUME PeerInv, UNCHANGED <<locked, tag, value, payload, lastSent, entered>>,
         \A r \in SendId : stage'[r] = "waiting" <=> stage[r] = "waiting",
         \A r \in SendId : stage'[r] = "encode" => stage[r] = "encode",
         \A r \in SendId : stage'[r] \in {"failed", "hung"} => stage[r] \in {"failed", "hung"}
  PROVE  PeerInv'
<1>1. PayloadInv'
  BY DEF PeerInv, PayloadInv
<1>2. StuckInv'
  BY DEF PeerInv, StuckInv
<1>3. RepeatInv'
  BY DEF PeerInv, RepeatInv
<1>4. QED BY <1>1, <1>2, <1>3 DEF PeerInv

\* A call that is refused is the last to have begun.
LEMMA PeerThrows ==
  ASSUME QueueInv, OrderInv, PeerInv, UNCHANGED <<locked, tag, value, payload, lastSent, entered>>,
         NEW s \in SendId, stage[s] = "encode",
         stage'[s] \in {"failed", "hung"},
         \A r \in SendId : r # s => stage'[r] = stage[r]
  PROVE  PeerInv'
<1>1. PayloadInv'
  BY DEF PeerInv, PayloadInv
<1>2. locked /\ \A r \in SendId : stage'[r] # "encode" /\ stage[r] \notin {"failed", "hung"}
  BY DEF QueueInv, EncoderHoldsLock, OneEncoder, PeerInv, StuckInv
<1>3. ASSUME NEW r \in SendId, Before(entered, s, r) PROVE payload[r] = None
  <2>1. Has(entered, r) /\ r # s /\ ~Before(entered, r, s)
    BY <1>3, BeforeHas DEF OrderInv, OnceInv
  <2>2. ~Has(encoded, r) /\ stage[r] # "returned" /\ stage[r] # "encode"
    BY <2>1 DEF OrderInv, EntryOrder, QueueInv, OneEncoder
  <2>3. stage[r] = "waiting"
    BY <1>2, <2>1, <2>2 DEF OrderInv, RecordInv, QueueInv, QueueTypes, Stages
  <2>4. QED BY <2>1, <2>3 DEF PeerInv, PayloadInv
<1>4. StuckInv'
  BY <1>2, <1>3 DEF StuckInv
<1>5. RepeatInv'
  BY DEF PeerInv, RepeatInv
<1>6. QED BY <1>1, <1>4, <1>5 DEF PeerInv

\* A call that waits encodes to nothing yet.
LEMMA PeerEnqueue ==
  ASSUME QueueInv, DataTypes, OrderInv, PeerInv, SendAssumption,
         UNCHANGED <<locked, tag, value, payload, lastSent>>,
         NEW s \in SendId, stage[s] = "pre", entered' = Append(entered, s),
         stage' = [stage EXCEPT ![s] = "waiting"]
  PROVE  PeerInv'
<1>1. \A r \in SendId : stage'[r] = IF r = s THEN "waiting" ELSE stage[r]
  BY DEF QueueInv, QueueTypes
<1>2. /\ \A r : Has(entered', r) <=> Has(entered, r) \/ r = s
      /\ \A r, t : Before(entered', r, t) <=> Before(entered, r, t) \/ (t = s /\ Has(entered, r))
      /\ ~Has(entered, s)
  BY OrderEnter
<1>3. payload[s] = None
  BY <1>2 DEF PeerInv, PayloadInv
<1>4. PayloadInv'
  BY <1>1, <1>2, <1>3 DEF PeerInv, PayloadInv
<1>5. StuckInv'
  BY <1>1, <1>2, <1>3 DEF PeerInv, StuckInv
<1>6. RepeatInv'
  BY <1>3, RepeatAppend DEF PeerInv, RepeatInv, DataTypes, SendAssumption
<1>7. QED BY <1>4, <1>5, <1>6 DEF PeerInv

\* What Begin does, with the calls and packets it does not concern.
LEMMA BeginIs ==
  ASSUME DataTypes, SendAssumption, NEW w \in SendId, tag[w] \in Tags, value[w] \in Values, Begin(w)
  PROVE  /\ \A r \in SendId : r # w => payload'[r] = payload[r]
         /\ payload'[w] \in {Empty, value[w]} /\ payload'[w] # None
         /\ \A t \in Rereference : t # tag[w] => lastSent'[t] = lastSent[t]
         /\ tag[w] \in Rereference =>
              /\ payload'[w] = IF lastSent[tag[w]] = value[w] THEN Empty ELSE value[w]
              /\ lastSent'[tag[w]] = value[w]
         /\ tag[w] \notin Rereference => payload'[w] = value[w]
<1>1. /\ payload \in [SendId -> Values \cup {Empty, None}]
      /\ lastSent \in [Tags -> Values \cup {None}]
      /\ Rereference \subseteq Tags /\ Empty # None /\ value[w] # None
  BY DEF DataTypes, SendAssumption
<1>2. CASE tag[w] \in Rereference
  BY <1>1, <1>2 DEF Begin
<1>3. CASE tag[w] \notin Rereference
  BY <1>1, <1>3 DEF Begin
<1>4. QED BY <1>2, <1>3

\* A call that begins to encode where all before it have begun and no later one.
LEMMA PeerBegin ==
  ASSUME DataTypes, SendAssumption, NEW e \in Seq(SendId), NEW w \in SendId, Has(e, w),
         tag[w] \in Tags, value[w] \in Values, Begin(w), UNCHANGED <<tag, value>>,
         \A r, s \in SendId : Before(e, r, s) => ~Before(e, s, r) /\ r # s,
         \A r \in SendId : Before(e, r, w) => payload[r] # None,
         \A r \in SendId : Before(e, w, r) => payload[r] = None,
         payload[w] = None, Repeat(e, tag, value, payload, lastSent)
  PROVE  Repeat(e, tag', value', payload', lastSent')
<1>1. PICK q \in 1..Len(e) : e[q] = w
  BY DEF Has
<1>2. Len(e) \in Nat /\ DOMAIN e = 1..Len(e) /\ \A i \in 1..Len(e) : e[i] \in SendId
  OBVIOUS
<1>3. \A i \in 1..Len(e) : (i < q => Before(e, e[i], w)) /\ (i > q => Before(e, w, e[i]))
  BY <1>1, <1>2 DEF Before
<1>4. \A i \in 1..Len(e) : i # q => e[i] # w
  <2>1. \A i \in 1..Len(e) : i # q => i < q \/ i > q
    OBVIOUS
  <2>2. QED BY <1>2, <1>3, <2>1
<1>5. /\ \A r \in SendId : r # w => payload'[r] = payload[r]
      /\ \A t \in Rereference : t # tag[w] => lastSent'[t] = lastSent[t]
      /\ tag[w] \in Rereference =>
           /\ payload'[w] = IF lastSent[tag[w]] = value[w] THEN Empty ELSE value[w]
           /\ lastSent'[tag[w]] = value[w]
      /\ tag[w] \notin Rereference => payload'[w] = value[w]
  BY BeginIs
<1>6. \A i \in 1..Len(e) : i < q => payload[e[i]] # None
  BY <1>2, <1>3
<1>7. \A i \in 1..Len(e) : i >= q => payload[e[i]] = None
  <2>1. \A i \in 1..Len(e) : i >= q => i = q \/ i > q
    OBVIOUS
  <2>2. QED BY <1>1, <1>2, <1>3, <2>1
<1>8. \A i \in 1..Len(e) : i # q => payload'[e[i]] = payload[e[i]]
  BY <1>2, <1>4, <1>5
<1>9. Empty # None /\ value[e[q]] \notin {Empty, None}
  BY <1>1 DEF SendAssumption
<1>10. Repeat(e, tag, value, payload', lastSent')
  BY <1>1, <1>2, <1>5, <1>6, <1>7, <1>8, <1>9, RepeatBegin
<1>11. QED BY <1>10

\* A call that finds the queue free enters and begins.
LEMMA PeerTake ==
  ASSUME IInv, SendAssumption, OrderInv, PeerInv, NEW s \in SendId, Take(s)
  PROVE  PeerInv'
<1>1. QueueInv /\ DataTypes /\ tag[s] \in Tags /\ value[s] \in Values
  BY TypesSplit, CallHasArguments DEF IInv, Take
<1>2. /\ stage[s] = "pre" /\ ~locked /\ stage' = [stage EXCEPT ![s] = "encode"]
      /\ entered' = Append(entered, s) /\ Begin(s) /\ UNCHANGED <<tag, value>>
  BY DEF Take, args
<1>3. \A r \in SendId : stage'[r] = IF r = s THEN "encode" ELSE stage[r]
  BY <1>1, <1>2 DEF QueueInv, QueueTypes
<1>4. /\ \A r : Has(entered', r) <=> Has(entered, r) \/ r = s
      /\ \A r, t : Before(entered', r, t) <=> Before(entered, r, t) \/ (t = s /\ Has(entered, r))
      /\ ~Has(entered, s)
      /\ \A r, t \in SendId : Before(entered', r, t) => ~Before(entered', t, r) /\ r # t
  BY <1>1, <1>2, OrderEnter
<1>5. \A r \in SendId : stage[r] # "waiting"
  <2>1. DOMAIN waiting = {}
    BY <1>1, <1>2 DEF QueueInv, WaitingBehindLock
  <2>2. QED BY <1>1, <2>1, WaitingHas DEF Has
<1>6. payload[s] = None
  BY <1>4 DEF PeerInv, PayloadInv
<1>7. /\ \A r \in SendId : r # s => payload'[r] = payload[r]
      /\ payload'[s] \in {Empty, value[s]} /\ payload'[s] # None
  BY <1>1, <1>2, BeginIs
<1>8. PayloadInv'
  BY <1>2, <1>3, <1>4, <1>5, <1>7 DEF PeerInv, PayloadInv
<1>9. StuckInv'
  BY <1>2, <1>3 DEF PeerInv, StuckInv
<1>10. RepeatInv'
  <2>1. Repeat(entered', tag, value, payload, lastSent)
    BY <1>1, <1>2, <1>6, RepeatAppend DEF PeerInv, RepeatInv, DataTypes, SendAssumption
  <2>2. entered' \in Seq(SendId) /\ Has(entered', s)
    BY <1>1, <1>2, <1>4, AppendInSeq DEF DataTypes
  <2>3. \A r \in SendId : Before(entered', r, s) => payload[r] # None
    <3>1. \A r \in SendId : Before(entered', r, s) => Has(entered, r)
      BY <1>4, BeforeHas
    <3>2. QED BY <1>5, <3>1 DEF PeerInv, PayloadInv
  <2>4. \A r \in SendId : ~Before(entered', s, r)
    <3>1. \A r : Before(entered, s, r) => Has(entered, s)
      BY BeforeHas
    <3>2. QED BY <1>4, <3>1
  <2>5. QED BY <1>1, <1>2, <1>4, <1>6, <2>1, <2>2, <2>3, <2>4, PeerBegin DEF RepeatInv
<1>11. QED BY <1>8, <1>9, <1>10 DEF PeerInv

\* The call that waited longest begins when another one has encoded.
LEMMA PeerHandOver ==
  ASSUME IInv, SendAssumption, OrderInv, PeerInv,
         NEW s \in SendId, stage[s] = "encode", HandOver(s, "returned"),
         UNCHANGED <<tag, value, entered>>
  PROVE  PeerInv'
<1>1. QueueInv /\ DataTypes
  BY TypesSplit DEF IInv
<1>2. \A r \in SendId : stage[r] \notin {"failed", "hung"}
  BY DEF PeerInv, StuckInv
<1>3. CASE waiting = <<>>
  <2>1. /\ stage'[s] = "returned" /\ UNCHANGED <<lastSent, payload>>
        /\ \A r \in SendId : r # s => stage'[r] = stage[r]
    BY <1>1, <1>3, HandOverIs
  <2>2. PayloadInv'
    BY <2>1 DEF PeerInv, PayloadInv
  <2>3. StuckInv'
    BY <1>2, <2>1 DEF StuckInv
  <2>4. RepeatInv'
    BY <2>1 DEF PeerInv, RepeatInv
  <2>5. QED BY <2>2, <2>3, <2>4 DEF PeerInv
<1>4. CASE waiting # <<>>
  <2>1. PICK w \in SendId :
          /\ w = Head(waiting) /\ stage[w] = "waiting" /\ Begin(w)
          /\ stage'[s] = "returned" /\ stage'[w] = "encode"
          /\ \A r \in SendId : r # s /\ r # w => stage'[r] = stage[r]
    BY <1>1, <1>4, HandOverIs
  <2>2. tag[w] \in Tags /\ value[w] \in Values
    BY <2>1, CallHasArguments DEF IInv
  <2>3. /\ \A r \in SendId : r # w => payload'[r] = payload[r]
        /\ payload'[w] \in {Empty, value[w]} /\ payload'[w] # None
    BY <1>1, <2>1, <2>2, BeginIs
  <2>4. Has(entered, w) /\ payload[w] = None
    BY <2>1 DEF OrderInv, RecordInv, PeerInv, PayloadInv
  <2>5. PayloadInv'
    BY <2>1, <2>3, <2>4 DEF PeerInv, PayloadInv
  <2>6. StuckInv'
    BY <1>2, <2>1 DEF StuckInv
  <2>7. \A r \in SendId : Before(entered, r, w) => payload[r] # None
    <3>1. ASSUME NEW r \in SendId, Before(entered, r, w), payload[r] = None PROVE FALSE
      <4>1. Has(entered, r) /\ r # w /\ ~Before(entered, w, r)
        BY <3>1, BeforeHas DEF OrderInv, OnceInv
      <4>2. stage[r] = "waiting"
        BY <3>1, <4>1 DEF PeerInv, PayloadInv
      <4>3. Before(waiting, w, r)
        BY <1>1, <1>4, <2>1, <4>1, <4>2, WaitingHas, TailBefore DEF QueueInv, QueueTypes
      <4>4. QED BY <4>1, <4>3 DEF OrderInv, EntryOrder
    <3>2. QED BY <3>1
  <2>8. \A r \in SendId : Before(entered, w, r) => payload[r] = None
    <3>1. PICK e : e = entered /\ Repeat(e, tag, value, payload, lastSent)
      BY DEF PeerInv, RepeatInv
    <3>2. DOMAIN e = 1..Len(e)
      BY <1>1, <3>1 DEF DataTypes
    <3>3. QED BY <2>4, <3>1, <3>2 DEF Repeat, Before
  <2>9. RepeatInv'
    <3>1. entered \in Seq(SendId) /\ Repeat(entered, tag, value, payload, lastSent)
      BY <1>1 DEF DataTypes, PeerInv, RepeatInv
    <3>2. \A r, t \in SendId : Before(entered, r, t) => ~Before(entered, t, r) /\ r # t
      BY DEF OrderInv, OnceInv
    <3>3. Repeat(entered, tag', value', payload', lastSent')
      BY <1>1, <2>1, <2>2, <2>4, <2>7, <2>8, <3>1, <3>2, PeerBegin
    <3>4. QED BY <3>3 DEF RepeatInv
  <2>10. QED BY <2>5, <2>6, <2>9 DEF PeerInv
<1>5. QED BY <1>3, <1>4

LEMMA PeerStep ==
  ASSUME IInv, SendAssumption, OrderInv, PeerInv, NEW s \in SendId, Step(s)
  PROVE  PeerInv'
<1>1. QueueInv /\ DataTypes /\ stage \in [SendId -> Stages]
  BY TypesSplit DEF IInv, QueueInv, QueueTypes
<1>2. CASE PreCancels(s) \/ ReturnThenWrite(s) \/ ReturnThenPost(s) \/ PostThenWrite(s) \/ PostCancel(s)
  <2>1. /\ UNCHANGED <<locked, tag, value, payload, lastSent, entered>>
        /\ stage[s] \in {"pre", "returned", "post"}
        /\ \E x \in {"cancelled", "post", "sent", "dropped"} : stage' = [stage EXCEPT ![s] = x]
    BY <1>2 DEF PreCancels, ReturnThenWrite, ReturnThenPost, PostThenWrite, PostCancel,
                Written, args, queue
  <2>2. PICK x \in {"cancelled", "post", "sent", "dropped"} :
          \A r \in SendId : stage'[r] = IF r = s THEN x ELSE stage[r]
    BY <1>1, <2>1
  <2>3. QED BY <2>1, <2>2, PeerQuiet
<1>3. CASE Enqueue(s)
  BY <1>1, <1>3, PeerEnqueue DEF Enqueue, args
<1>4. CASE Take(s)
  BY <1>4, PeerTake
<1>5. CASE EncodeThenReturn(s)
  BY <1>5, PeerHandOver DEF EncodeThenReturn, args
<1>6. CASE EncodeThrows(s)
  <2>1. /\ UNCHANGED <<locked, tag, value, payload, lastSent, entered>> /\ stage[s] = "encode"
        /\ stage' = [stage EXCEPT ![s] = IF forced[s] THEN "hung" ELSE "failed"]
    BY <1>6 DEF EncodeThrows, args, queue
  <2>2. /\ stage'[s] \in {"failed", "hung"}
        /\ \A r \in SendId : r # s => stage'[r] = stage[r]
    BY <1>1, <2>1
  <2>3. QED BY <1>1, <2>1, <2>2, PeerThrows
<1>7. QED BY <1>2, <1>3, <1>4, <1>5, <1>6 DEF Step

\* A new call, and the close of the connection, change nothing about these.
LEMMA PeerOthers ==
  ASSUME IInv, SendAssumption, OrderInv, PeerInv,
         Close \/ UNCHANGED vars \/ \E t \in Tags, v \in Values : Call(t, v)
  PROVE  PeerInv'
<1>1. /\ QueueInv /\ DataTypes /\ stage \in [SendId -> Stages]
      /\ tag \in [SendId -> Tags \cup {None}] /\ value \in [SendId -> Values \cup {None}]
  BY TypesSplit DEF IInv, QueueInv, QueueTypes, DataTypes
<1>2. /\ UNCHANGED <<locked, payload, lastSent, entered>>
      /\ \A r \in SendId :
           \/ stage'[r] = stage[r] /\ tag'[r] = tag[r] /\ value'[r] = value[r]
           \/ stage[r] = "absent" /\ stage'[r] = "pre"
  <2>1. CASE Close \/ UNCHANGED vars
    BY <2>1 DEF Close, vars, queue, args
  <2>2. CASE \E t \in Tags, v \in Values : Call(t, v)
    <3>1. PICK t \in Tags, v \in Values : Call(t, v)
      BY <2>2
    <3>2. /\ called < MaxSends /\ called \in Nat
          /\ stage' = [stage EXCEPT ![called + 1] = "pre"]
          /\ tag' = [tag EXCEPT ![called + 1] = t]
          /\ value' = [value EXCEPT ![called + 1] = v]
          /\ UNCHANGED <<locked, payload, lastSent, entered>>
      BY <1>1, <3>1, SendAssumption DEF Call, queue, QueueInv, QueueTypes, SendAssumption
    <3>3. called + 1 \in SendId /\ called + 1 > called
      BY <3>2, SendAssumption DEF SendId, SendAssumption
    <3>4. stage[called + 1] = "absent"
      BY <1>1, <3>3 DEF QueueInv, QueueTypes
    <3>5. QED BY <1>1, <3>2, <3>3, <3>4
  <2>3. QED BY <2>1, <2>2
<1>3. \A r \in SendId : Has(entered, r) => stage[r] # "absent"
  BY DEF OrderInv, RecordInv
<1>4. PayloadInv'
  BY <1>2, <1>3 DEF PeerInv, PayloadInv
<1>5. StuckInv'
  BY <1>2 DEF PeerInv, StuckInv
<1>6. RepeatInv'
  <2>1. /\ Len(entered) \in Nat
        /\ \A i \in 1..Len(entered) : entered[i] \in SendId /\ Has(entered, entered[i])
    BY <1>1 DEF DataTypes, Has
  <2>2. \A i \in 1..Len(entered) : /\ tag'[entered[i]] = tag[entered[i]]
                                   /\ value'[entered[i]] = value[entered[i]]
                                   /\ payload'[entered[i]] = payload[entered[i]]
    BY <1>2, <1>3, <2>1
  <2>3. Repeat(entered, tag', value', payload', lastSent)
    BY <2>1, <2>2, RepeatSame DEF PeerInv, RepeatInv
  <2>4. QED BY <1>2, <2>3 DEF RepeatInv
<1>7. QED BY <1>4, <1>5, <1>6 DEF PeerInv

LEMMA PeerPreserved ==
  ASSUME IInv, SendAssumption, OrderInv, PeerInv, [Next]_vars
  PROVE  PeerInv'
BY PeerStep, PeerOthers DEF Next

\* What all this says of a peer, unless a frame was overtaken or stopped late: a
\* frame on the wire that repeats another one comes after it, and no full one of
\* its packet comes between.
LEMMA PeerReads ==
  ASSUME IInv, SendAssumption, PeerInv, OrderInv
  PROVE  PeerReadsWhatWasSent
<1> SUFFICES ASSUME ~CancelledLate, \A r, s \in SendId : ~Overtakes(s, r), NEW i \in DOMAIN wire
             PROVE  Received(i) = value[wire[i]]
  BY DEF PeerReadsWhatWasSent, AllReadAsSent
<1>1. /\ DataTypes /\ wire \in Seq(SendId) /\ DOMAIN wire = 1..Len(wire) /\ Len(wire) \in Nat
      /\ entered \in Seq(SendId) /\ DOMAIN entered = 1..Len(entered) /\ Len(entered) \in Nat
  BY TypesSplit DEF IInv, DataTypes
<1>2. \A k \in DOMAIN wire :
        /\ wire[k] \in SendId /\ Has(wire, wire[k]) /\ Has(entered, wire[k])
        /\ payload[wire[k]] # None /\ payload[wire[k]] \in {Empty, value[wire[k]]}
  <2>1. \A k \in DOMAIN wire : wire[k] \in SendId /\ Has(wire, wire[k])
    BY <1>1 DEF Has
  <2>2. QED BY <2>1 DEF OrderInv, RecordInv, PeerInv, PayloadInv
<1>3. CASE payload[wire[i]] # Empty
  BY <1>2, <1>3 DEF Received
<1>4. CASE payload[wire[i]] = Empty
  <2>1. PICK s \in SendId : s = wire[i] /\ Has(wire, s) /\ payload[s] = Empty /\ Has(entered, s)
    BY <1>2, <1>4
  <2>2. PICK p \in 1..Len(entered) : entered[p] = s
    BY <1>1, <2>1 DEF Has
  <2>3. PICK j \in 1..(p - 1) :
          LastFull(entered, tag, payload, tag[s], j, p - 1) /\ payload[entered[j]] = value[s]
    BY <2>1, <2>2 DEF PeerInv, RepeatInv, Repeat
  <2>4. PICK r \in SendId :
          /\ r = entered[j] /\ tag[r] = tag[s] /\ payload[r] \notin {Empty, None}
          /\ payload[r] = value[s] /\ Before(entered, r, s) /\ r # s
    <3>1. j \in 1..Len(entered) /\ entered[j] \in SendId /\ Before(entered, entered[j], s)
      BY <1>1, <2>2 DEF Before
    <3>2. QED BY <2>3, <3>1 DEF LastFull, FullAt, OrderInv, OnceInv
\* The frame that is repeated was written, and before.
  <2>5. Has(wire, r) /\ Before(wire, r, s)
    <3>1. stage[r] \notin {"returned", "post", "dropped"} /\ ~Before(wire, s, r)
      BY <2>1, <2>4 DEF Overtakes, Has
    <3>2. stage[r] # "cancelled"
      BY <2>4 DEF CancelledLate
    <3>3. stage[r] \notin {"failed", "hung"}
      BY <2>1, <2>4, SendAssumption DEF PeerInv, StuckInv, SendAssumption
    <3>4. stage[s] = "sent" /\ Has(encoded, s) /\ ~Before(entered, s, r)
      BY <2>1, <2>4 DEF OrderInv, RecordInv, OnceInv
    <3>5. stage[r] \notin {"waiting", "encode"}
      BY <3>4 DEF OrderInv, EntryOrder
    <3>6. Has(entered, r)
      BY <2>4, BeforeHas
    <3>7. stage[r] = "sent"
      BY <1>1, <3>1, <3>2, <3>3, <3>5, <3>6
         DEF OrderInv, RecordInv, IInv, QueueInv, QueueTypes, Stages
    <3>8. Has(wire, r)
      BY <3>7 DEF OrderInv, RecordInv
    <3>9. QED BY <1>1, <2>1, <2>4, <3>1, <3>8, Ordered
  <2>6. PICK a \in DOMAIN wire : wire[a] = r
    BY <2>5 DEF Has
  <2>7. a < i
    <3>1. i < a => Before(wire, s, r)
      BY <1>1, <2>1, <2>6 DEF Before
    <3>2. ~Before(wire, s, r) /\ a # i
      BY <2>1, <2>4, <2>5, <2>6 DEF OrderInv, OnceInv
    <3>3. QED BY <1>1, <3>1, <3>2
\* No other full frame of the packet lies between.
  <2>8. ASSUME NEW k \in 1..(i - 1), tag[wire[k]] = tag[s], payload[wire[k]] # Empty
        PROVE  k <= a
    <3>1. SUFFICES ASSUME a < k PROVE FALSE
      BY <1>1
    <3>2. k \in DOMAIN wire
      BY <1>1
    <3>3. PICK u \in SendId : u = wire[k] /\ Has(wire, u) /\ Has(entered, u) /\ payload[u] \notin {None, Empty}
      BY <1>2, <2>8, <3>2
    <3>4. Before(wire, r, u) /\ Before(wire, u, s)
      BY <1>1, <2>1, <2>6, <3>1, <3>2, <3>3 DEF Before
    <3>5. u # r /\ u # s
      BY <3>4 DEF OrderInv, OnceInv
    <3>6. ~Before(entered, u, r) /\ ~Before(entered, s, u)
      BY <2>1, <2>5, <3>3, <3>4 DEF Overtakes, Has
    <3>7. PICK q \in 1..Len(entered) : entered[q] = u
      BY <1>1, <3>3 DEF Has
    <3>8. j < q /\ q < p
      <4>1. j \in DOMAIN entered /\ q \in DOMAIN entered /\ p \in DOMAIN entered
        BY <1>1, <2>2
      <4>2. ~(q < j) /\ ~(p < q)
        BY <2>2, <2>4, <3>6, <3>7, <4>1 DEF Before
      <4>3. q # j /\ q # p
        BY <2>2, <2>4, <3>5, <3>7
      <4>4. QED BY <1>1, <2>2, <4>2, <4>3
    <3>9. q \in 1..(p - 1) /\ FullAt(entered, tag, payload, tag[s], q)
      BY <2>2, <2>8, <3>3, <3>7, <3>8 DEF FullAt
    <3>10. QED BY <2>3, <3>8, <3>9 DEF LastFull
  <2>9. PICK full : full = {k \in 1..(i - 1) : tag[wire[k]] = tag[wire[i]] /\ payload[wire[k]] # Empty}
    OBVIOUS
  <2>10. a \in full /\ \A k \in full : k \in Nat /\ k <= a
    <3>1. a \in 1..(i - 1)
      BY <1>1, <2>7
    <3>2. QED BY <2>1, <2>4, <2>6, <2>8, <2>9, <3>1
  <2>11. (CHOOSE k \in full : \A l \in full : l <= k) = a
    <3>1. \A k \in full : (\A l \in full : l <= k) => k = a
      BY <2>10
    <3>2. QED BY <2>10, <3>1
  <2>12. Received(i) = payload[wire[a]]
    BY <1>4, <2>9, <2>10, <2>11 DEF Received
  <2>13. QED BY <2>1, <2>4, <2>6, <2>12
<1>5. QED BY <1>3, <1>4

\* The calls overtaken are among those the order of the promises allows.
LEMMA OrderReads ==
  ASSUME OrderInv, InOrder
  PROVE  WireInOrder
<1> SUFFICES ASSUME NEW r \in SendId, NEW s \in SendId, Overtakes(s, r)
             PROVE  forced[r] /\ ~forced[s]
  BY DEF WireInOrder
<1>1. Before(entered, r, s) /\ Has(wire, s) /\ ~Before(entered, s, r)
  BY DEF Overtakes, Has, OrderInv, OnceInv
<1>2. Has(encoded, s)
  BY <1>1 DEF OrderInv, RecordInv
<1>3. InTurn(s, r)
  <2>1. CASE stage[r] = "returned"
    BY <1>2, <2>1 DEF OrderInv, ReturnOrder
  <2>2. CASE stage[r] \in {"post", "dropped"} \/ Before(wire, s, r)
    <3>1. Before(encoded, s, r)
      BY <1>1, <2>2 DEF OrderInv, WireOrder
    <3>2. QED BY <3>1 DEF OrderInv, ReturnOrder
  <2>3. QED BY <2>1, <2>2 DEF Overtakes
<1>4. QED BY <1>1, <1>3 DEF InTurn

LEMMA AlwaysOrdered == Spec => [](IInv /\ OrderInv /\ PeerInv)
<1>1. Init => IInv /\ OrderInv /\ PeerInv
  BY SendAssumption, InitInv, OrderInitially, PeerInitially
<1>2. (IInv /\ OrderInv /\ PeerInv) /\ [Next]_vars => (IInv /\ OrderInv /\ PeerInv)'
  BY SendAssumption, Inductive, OrderPreserved, PeerPreserved
<1>3. QED BY <1>1, <1>2, PTL DEF Spec

\* Frames reach the socket in the order their calls of send() reached the queue,
\* but for a direct call that overtakes one which waited and whose promise is on
\* its way: on a client always, on a server connection unless an onSend_post hook
\* of a call outlasts that of a later one.
THEOREM SentInOrder == Spec => [](InOrder => WireInOrder)
<1>1. OrderInv => (InOrder => WireInOrder)
  BY OrderReads
<1>2. QED BY <1>1, AlwaysOrdered, PTL

\* As long as no frame was overtaken and onSend_post stopped none, the peer reads
\* from every frame the values that were passed to its send(), re-references
\* included.
THEOREM PeerUnderstands == Spec => []PeerReadsWhatWasSent
<1>1. IInv /\ OrderInv /\ PeerInv => PeerReadsWhatWasSent
  BY SendAssumption, PeerReads
<1>2. QED BY <1>1, AlwaysOrdered, PTL
=============================================================================
