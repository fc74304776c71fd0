------------------------------ MODULE SendQueue -----------------------------
(***************************************************************************)
(* The outgoing half of a TypeScript connection: send() of                 *)
(* SonicWSConnection.ts and ClientCore.ts, and handleQueue/processPacket   *)
(* of PacketUtils.ts, which let one call at a time encode its packet.      *)
(*                                                                         *)
(* Calls of send() overlap freely; a call is named by its number.  A call  *)
(* awaits onSend_pre, waits for the queue, encodes, hands the queue on,    *)
(* and, when its promise has come back to send(), is written to the        *)
(* socket: on the client at once, on a server connection only after the    *)
(* onSend_post middleware, which may still cancel it.  Batched packets and *)
(* the rate limits are left out.                                           *)
(* A re-referenced packet whose values hash like the last ones sent goes   *)
(* out with an empty payload (Empty); hash collisions are left out.        *)
(***************************************************************************)
EXTENDS Naturals, Sequences

CONSTANTS
  Tags,          \* packets of the sending table
  Rereference,   \* those declared rereference
  Values,        \* argument lists of send()
  Refused,       \* those prepareSend, the size checks or the encoder throw on
  Empty,         \* the empty payload
  None,          \* nothing sent yet, or no payload yet
  PostDelays,    \* may onSend_post of one call outlast that of a later call
  MaxSends       \* bound: calls of send()

ASSUME SendAssumption ==
  /\ Rereference \subseteq Tags
  /\ Refused \subseteq Values
  /\ None \notin Values /\ Empty \notin Values /\ Empty # None
  /\ None \notin Tags
  /\ PostDelays \in BOOLEAN
  /\ MaxSends \in Nat

SendId == 1..MaxSends

Stages == { "absent", "pre", "waiting", "encode", "returned", "post",
            "sent", "cancelled", "failed", "dropped", "hung" }

VARIABLES
  role,       \* "client" (ClientCore) or "server" (SonicWSConnection)
  open,       \* raw_send still writes to the socket
  called,     \* how many calls of send() were made
  tag, value, \* their arguments
  stage,      \* the await each call is suspended at
  locked,     \* sendQueue[0]
  waiting,    \* sendQueue[1]
  forced,     \* was this call started from the queue
  lastSent,   \* packet.lastSent[id]
  payload,    \* what the call encodes to
  encoded,    \* history: calls that send() went on with, in order
  entered,    \* history: calls in the order they reached handleQueue
  wire        \* calls written to the socket, in order

args == <<called, tag, value>>
queue == <<locked, waiting, forced>>
vars == <<role, open, args, stage, queue, lastSent, payload, encoded, entered, wire>>

Init ==
  /\ role \in {"client", "server"}
  /\ open = TRUE
  /\ called = 0
  /\ tag = [s \in SendId |-> None]
  /\ value = [s \in SendId |-> None]
  /\ stage = [s \in SendId |-> "absent"]
  /\ locked = FALSE
  /\ waiting = <<>>
  /\ forced = [s \in SendId |-> FALSE]
  /\ lastSent = [t \in Tags |-> None]
  /\ payload = [s \in SendId |-> None]
  /\ encoded = <<>>
  /\ entered = <<>>
  /\ wire = <<>>

-----------------------------------------------------------------------------
\* Faulty variant: any repetition of a packet counts as one of its values.
BeginIgnoresValues(s) ==
  LET t == tag[s]
  IN IF t \in Rereference
     THEN /\ payload' = [payload EXCEPT ![s] = IF lastSent[t] # None THEN Empty ELSE value[s]]
          /\ lastSent' = [lastSent EXCEPT ![t] = value[s]]
     ELSE payload' = [payload EXCEPT ![s] = value[s]] /\ UNCHANGED lastSent

\* The body processPacket hands to handleQueue, up to its first await: the
\* re-reference check records the values before anything can refuse them.
Begin(s) ==
  LET t == tag[s]
      v == value[s]
  IN IF t \in Rereference
     THEN /\ payload' = [payload EXCEPT ![s] = IF lastSent[t] = v THEN Empty ELSE v]
          /\ lastSent' = [lastSent EXCEPT ![t] = v]
     ELSE /\ payload' = [payload EXCEPT ![s] = v]
          /\ UNCHANGED lastSent

\* raw_send: a frame for a closed connection is dropped with a warning.
Write(s) == wire' = IF open THEN Append(wire, s) ELSE wire

Written(s) == IF open THEN "sent" ELSE "dropped"

Call(t, v) ==
  /\ called < MaxSends
  /\ LET s == called + 1
     IN /\ called' = s
        /\ tag' = [tag EXCEPT ![s] = t]
        /\ value' = [value EXCEPT ![s] = v]
        /\ stage' = [stage EXCEPT ![s] = "pre"]
  /\ UNCHANGED <<role, open, queue, lastSent, payload, encoded, entered, wire>>

\* onSend_pre returned true.
PreCancels(s) ==
  /\ stage[s] = "pre"
  /\ stage' = [stage EXCEPT ![s] = "cancelled"]
  /\ UNCHANGED <<role, open, args, queue, lastSent, payload, encoded, entered, wire>>

\* handleQueue: wait behind the call that is encoding ...
Enqueue(s) ==
  /\ stage[s] = "pre"
  /\ locked
  /\ waiting' = Append(waiting, s)
  /\ stage' = [stage EXCEPT ![s] = "waiting"]
  /\ entered' = Append(entered, s)
  /\ UNCHANGED <<role, open, args, locked, forced, lastSent, payload, encoded, wire>>

\* Faulty variant: the lock is not looked at.
TakeUnlocked(s) ==
  /\ stage[s] = "pre"
  /\ locked' = TRUE
  /\ stage' = [stage EXCEPT ![s] = "encode"]
  /\ entered' = Append(entered, s)
  /\ Begin(s)
  /\ UNCHANGED <<role, open, args, waiting, forced, encoded, wire>>

\* ... or take the queue and encode.
Take(s) ==
  /\ stage[s] = "pre"
  /\ ~locked
  /\ locked' = TRUE
  /\ stage' = [stage EXCEPT ![s] = "encode"]
  /\ entered' = Append(entered, s)
  /\ Begin(s)
  /\ UNCHANGED <<role, open, args, waiting, forced, encoded, wire>>

\* Faulty variant: the youngest waiting call is started (pop for shift).
HandOverYoungest(s, next) ==
  LET n == Len(waiting)
  IN IF n = 0
     THEN /\ locked' = FALSE
          /\ stage' = [stage EXCEPT ![s] = next]
          /\ UNCHANGED <<waiting, forced, lastSent, payload>>
     ELSE /\ waiting' = SubSeq(waiting, 1, n - 1)
          /\ stage' = [stage EXCEPT ![s] = next, ![waiting[n]] = "encode"]
          /\ forced' = [forced EXCEPT ![waiting[n]] = TRUE]
          /\ Begin(waiting[n])
          /\ UNCHANGED locked

\* The body returned: a microtask starts the next waiting call with force, or
\* the queue is unlocked.
HandOver(s, next) ==
  IF waiting = <<>>
  THEN /\ locked' = FALSE
       /\ stage' = [stage EXCEPT ![s] = next]
       /\ UNCHANGED <<waiting, forced, lastSent, payload>>
  ELSE LET w == Head(waiting)
       IN /\ waiting' = Tail(waiting)
          /\ stage' = [stage EXCEPT ![s] = next, ![w] = "encode"]
          /\ forced' = [forced EXCEPT ![w] = TRUE]
          /\ Begin(w)
          /\ UNCHANGED locked

\* What the encoder is given: nothing, for a re-reference.
Accepted(s) == payload[s] = Empty \/ value[s] \notin Refused

\* Faulty variant: the queue is not handed on.
EncodeKeepsQueueLocked(s) ==
  /\ stage[s] = "encode"
  /\ Accepted(s)
  /\ stage' = [stage EXCEPT ![s] = "returned"]
  /\ UNCHANGED <<role, open, args, queue, lastSent, payload, encoded, entered, wire>>

\* The packet is encoded and the queue handed on; the promise of processPacket
\* has yet to come back to send().
EncodeThenReturn(s) ==
  /\ stage[s] = "encode"
  /\ Accepted(s)
  /\ HandOver(s, "returned")
  /\ UNCHANGED <<role, open, args, encoded, entered, wire>>

\* The body threw.  handleQueue has no finally: the queue stays locked.  The
\* promise of a direct call rejects; the one of a waiting call never settles,
\* as its resolve function is called only on success.
EncodeThrows(s) ==
  /\ stage[s] = "encode"
  /\ ~Accepted(s)
  /\ stage' = [stage EXCEPT ![s] = IF forced[s] THEN "hung" ELSE "failed"]
  /\ UNCHANGED <<role, open, args, queue, lastSent, payload, encoded, entered, wire>>

Before(q, r, s) == \E i, j \in DOMAIN q : i < j /\ q[i] = r /\ q[j] = s

\* Promises come back in the order the calls entered, but that of a direct call
\* has fewer links than that of a call which waited (resolve in the microtask,
\* then the promise handleQueue returned): it need not wait for those.
ReturnsInTurn(s) ==
  \A r \in SendId : (Before(entered, r, s) /\ stage[r] = "returned")
                       => forced[r] /\ ~forced[s]

\* Back in send() on the client: the frame is written at once.
ReturnThenWrite(s) ==
  /\ role = "client"
  /\ stage[s] = "returned"
  /\ ReturnsInTurn(s)
  /\ stage' = [stage EXCEPT ![s] = Written(s)]
  /\ Write(s)
  /\ encoded' = Append(encoded, s)
  /\ UNCHANGED <<role, open, args, queue, lastSent, payload, entered>>

\* Back in send() on a server connection: onSend_post is awaited.
ReturnThenPost(s) ==
  /\ role = "server"
  /\ stage[s] = "returned"
  /\ ReturnsInTurn(s)
  /\ stage' = [stage EXCEPT ![s] = "post"]
  /\ encoded' = Append(encoded, s)
  /\ UNCHANGED <<role, open, args, queue, lastSent, payload, entered, wire>>

\* No call that came back earlier is still in its onSend_post.
PostInTurn(s) ==
  PostDelays \/ \A i, j \in DOMAIN encoded :
                  (encoded[j] = s /\ i < j) => stage[encoded[i]] # "post"

\* send_processed: raw_send.
PostThenWrite(s) ==
  /\ stage[s] = "post"
  /\ PostInTurn(s)
  /\ stage' = [stage EXCEPT ![s] = Written(s)]
  /\ Write(s)
  /\ UNCHANGED <<role, open, args, queue, lastSent, payload, encoded, entered>>

\* onSend_post returned true.
PostCancel(s) ==
  /\ stage[s] = "post"
  /\ PostInTurn(s)
  /\ stage' = [stage EXCEPT ![s] = "cancelled"]
  /\ UNCHANGED <<role, open, args, queue, lastSent, payload, encoded, entered, wire>>

\* The connection is closed, from either side.
Close ==
  /\ open
  /\ open' = FALSE
  /\ UNCHANGED <<role, args, stage, queue, lastSent, payload, encoded, entered, wire>>

-----------------------------------------------------------------------------
Step(s) ==
  \/ PreCancels(s) \/ Enqueue(s) \/ Take(s)
  \/ EncodeThenReturn(s) \/ EncodeThrows(s)
  \/ ReturnThenWrite(s) \/ ReturnThenPost(s)
  \/ PostThenWrite(s) \/ PostCancel(s)

Next ==
  \/ \E t \in Tags, v \in Values : Call(t, v)
  \/ \E s \in SendId : Step(s)
  \/ Close

Spec == Init /\ [][Next]_vars

\* The event loop resumes every call whose middleware or encoder settled.
Fairness == \A s \in SendId : WF_vars(Step(s))

FairSpec == Spec /\ Fairness

-----------------------------------------------------------------------------
(* Properties *)

\* Every variable keeps its shape; the queue and the histories name calls.
TypeOK ==
  /\ role \in {"client", "server"}
  /\ open \in BOOLEAN
  /\ called \in 0..MaxSends
  /\ tag \in [SendId -> Tags \cup {None}]
  /\ value \in [SendId -> Values \cup {None}]
  /\ stage \in [SendId -> Stages]
  /\ \A s \in SendId :
        /\ stage[s] = "absent" <=> s > called
        /\ s <= called => tag[s] \in Tags /\ value[s] \in Values
  /\ locked \in BOOLEAN
  /\ waiting \in Seq(SendId)
  /\ forced \in [SendId -> BOOLEAN]
  /\ lastSent \in [Tags -> Values \cup {None}]
  /\ payload \in [SendId -> Values \cup {Empty, None}]
  /\ encoded \in Seq(SendId)
  /\ entered \in Seq(SendId)
  /\ wire \in Seq(SendId)

\* Two calls never encode at the same time, so the re-reference hash and the
\* quantization residual of a packet are read and written by one call: the
\* reason for the queue.
OneEncoder ==
  \A r, s \in SendId : (stage[r] = "encode" /\ stage[s] = "encode") => r = s

\* A call waits only behind a locked queue, and once.
WaitingBehindLock ==
  /\ waiting # <<>> => locked
  /\ {waiting[i] : i \in DOMAIN waiting} = {s \in SendId : stage[s] = "waiting"}
  /\ \A i, j \in DOMAIN waiting : waiting[i] = waiting[j] => i = j

\* The frame of s was written before that of r, whose call entered earlier and
\* was not cancelled or refused; or r still has to be written, or cannot be.
Overtakes(s, r) ==
  /\ Before(entered, r, s)
  /\ \E i \in DOMAIN wire : wire[i] = s
  /\ Before(wire, s, r) \/ stage[r] \in {"returned", "post", "dropped"}

\* Frames reach the socket in the order their calls reached the queue, although
\* encoders and middleware of different calls take arbitrarily long; but a call
\* that found the queue free may overtake one that had waited for it and whose
\* promise is still on its way.
WireInOrder ==
  \A r, s \in SendId : Overtakes(s, r) => forced[r] /\ ~forced[s]

\* What the peer makes of the i-th frame: an empty payload stands for the last
\* payload of the packet the peer received before.
Received(i) ==
  LET t == tag[wire[i]]
      full == {j \in 1..(i - 1) : tag[wire[j]] = t /\ payload[wire[j]] # Empty}
  IN IF payload[wire[i]] # Empty THEN payload[wire[i]]
     ELSE IF full = {} THEN None
     ELSE payload[wire[CHOOSE j \in full : \A k \in full : k <= j]]

\* onSend_post has stopped a frame that was already encoded.
CancelledLate == \E s \in SendId : stage[s] = "cancelled" /\ payload[s] # None

\* Every frame on the wire is read as the values that were passed to its send().
AllReadAsSent == \A i \in DOMAIN wire : Received(i) = value[wire[i]]

\* The peer reads from every frame the values that were passed to its send():
\* no empty payload reaches it that stands for something else, whatever was
\* cancelled before it was encoded, refused, or dropped.  The exceptions are a
\* frame stopped after its values were recorded as sent, and one overtaken: a
\* direct call that repeats the values of a queued one may have its empty payload
\* written before the full one.
PeerReadsWhatWasSent ==
  \/ CancelledLate
  \/ \E r, s \in SendId : Overtakes(s, r)
  \/ AllReadAsSent

Settled(s) == stage[s] \in {"sent", "cancelled", "failed", "dropped"}

\* What the queue does guarantee: calls settle as long as none was refused.
SettlesUntilFailure ==
  \A s \in SendId :
    s <= called ~> (Settled(s) \/ \E r \in SendId : stage[r] \in {"failed", "hung"})
=============================================================================
