--------------------------- MODULE ConnectionTimers ---------------------------
(***************************************************************************)
(* What time does to one connection of the TypeScript server: heartbeats,  *)
(* the rate limit's windows, the intervals of batched packets, and timers  *)
(* the application set on the connection, up to and after its close.       *)
(*                                                                         *)
(* Time is discrete and timers are punctual: it does not pass while a      *)
(* timer is due, and timers due at one instant run in any order.  One      *)
(* packet is batched; one rate limit is counted.                           *)
(***************************************************************************)
EXTENDS Integers, Functions

CONSTANTS
    HeartbeatInterval, HeartbeatTimeout, ForceClose,
    RateWindow, RateLimit,
    Batching,       \* dataBatching of the packet
    Intervals,      \* bound: batch intervals ever started
    Horizon         \* bound: the last instant

ASSUME TimersAssumption ==
    {HeartbeatInterval, HeartbeatTimeout, ForceClose, RateWindow, RateLimit, Batching,
     Intervals, Horizon} \subseteq Nat \ {0}

Times == 0 .. Horizon
Ids == 1 .. Intervals
Off == -1

VARIABLES
    now, status,
    handler,        \* is the close handler of the server registered
    \* heartbeat
    lastActivity, nextBeat, heartbeatTimeout, heartbeatTimers, forceClose,
    \* rates
    rates, nextReset,
    recent,         \* history: frames handled in this instant and the k before
    \* batching
    batchedData, batchTimeout, batchIntervals,
    \* a timeout of the application with callOnClose
    timer, calls,
    \* history
    reason,         \* why the connection was closed
    lastMessage,    \* when the peer was heard last
    afterClose,     \* batch intervals started after the close event
    outlives        \* what the close event could not end

heart == <<lastActivity, nextBeat, heartbeatTimeout, heartbeatTimers, forceClose>>
rating == <<rates, nextReset, recent>>
batching == <<batchedData, batchTimeout, batchIntervals>>
user == <<timer, calls>>
ending == <<handler, outlives>>
history == <<reason, lastMessage, afterClose>>
vars == <<now, status, ending, heart, rating, batching, user, history>>

Probes == [sentAt : Times, due : Int]

TypeOK ==
    /\ now \in Times /\ status \in {"open", "closing", "closed"}
    /\ handler \in {"pending", "registered", "missing"}
    /\ lastActivity \in Times /\ nextBeat \in Int
    /\ heartbeatTimeout \in Times \cup {Off} /\ heartbeatTimers \subseteq Probes
    /\ forceClose \in Int
    /\ rates \in 0 .. RateLimit + 2 /\ nextReset \in Int
    /\ recent \in [0 .. RateWindow - 1 -> Nat]
    /\ batchedData \subseteq Times /\ batchTimeout \in Ids \cup {Off}
    /\ batchIntervals \in [Ids -> Int]
    /\ timer \in Int /\ calls \in Nat
    /\ reason \in {"none", "rate", "heartbeat", "other"}
    /\ lastMessage \in Times /\ afterClose \subseteq Ids
    /\ outlives \subseteq {"timeout", "heartbeat"}

\* The connection handler awaits onClientConnect.  The heartbeat interval and,
\* as there is a rate limit, the interval of RateHandler.start run already.
Init ==
    /\ now = 0 /\ status = "open" /\ handler = "pending"
    /\ lastActivity = 0 /\ nextBeat = HeartbeatInterval
    /\ heartbeatTimeout = Off /\ heartbeatTimers = {} /\ forceClose = Off
    /\ rates = 0 /\ nextReset = RateWindow
    /\ recent = [k \in 0 .. RateWindow - 1 |-> 0]
    /\ batchedData = {} /\ batchTimeout = Off
    /\ batchIntervals = [i \in Ids |-> Off]
    /\ timer = Off /\ calls = 0
    /\ reason = "none" /\ lastMessage = 0 /\ afterClose = {}
    /\ outlives = {}

\* socket.close: the first cause counts, and the close event follows later.
Closing(why) ==
    /\ status' = IF status = "open" THEN "closing" ELSE status
    /\ reason' = IF status = "open" THEN why ELSE reason

-----------------------------------------------------------------------------
(* Heartbeat *)

\* The first of the message listeners: the peer is alive.
Alive ==
    /\ lastActivity' = now
    /\ heartbeatTimers' = {h \in heartbeatTimers : h.sentAt # heartbeatTimeout}
    /\ heartbeatTimeout' = Off

\* Faulty variant: a probe replaces the timer of the one before.
Rearmed(h) == {h}

\* The timer of an earlier probe keeps running.
Armed(h) == heartbeatTimers \cup {h}

\* The heartbeat interval: probe a peer that was silent for an interval.
Beat ==
    /\ nextBeat = now
    /\ nextBeat' = now + HeartbeatInterval
    /\ IF status = "open" /\ now - lastActivity >= HeartbeatInterval
       THEN /\ heartbeatTimers' = Armed([sentAt |-> now, due |-> now + HeartbeatTimeout])
            /\ heartbeatTimeout' = now
       ELSE UNCHANGED <<heartbeatTimers, heartbeatTimeout>>
    /\ UNCHANGED <<now, status, ending, lastActivity, forceClose, rating, batching, user,
                   history>>

\* Faulty variant: the timer does not look at the activity again.
AnsweredByClear(h) == FALSE

\* The probe was answered although its timer was not cleared: only the timer
\* of the last probe is.
Answered(h) == lastActivity >= h.sentAt

HeartbeatExpires(h) ==
    /\ h \in heartbeatTimers /\ h.due = now
    /\ heartbeatTimers' = heartbeatTimers \ {h}
    /\ IF Answered(h)
       THEN UNCHANGED <<status, reason, forceClose>>
       ELSE /\ Closing("heartbeat")
            /\ forceClose' = IF forceClose = Off THEN now + ForceClose ELSE forceClose
    /\ UNCHANGED <<now, ending, lastActivity, nextBeat, heartbeatTimeout, rating, batching, user,
                   lastMessage, afterClose>>

-----------------------------------------------------------------------------
(* Rate limits *)

Reset ==
    /\ nextReset = now
    /\ nextReset' = now + RateWindow
    /\ rates' = 0
    /\ UNCHANGED <<now, status, ending, heart, recent, batching, user, history>>

\* Faulty variant: the frame is compared before it is counted.
OverByOne == rates > RateLimit

\* trigger: the frame is counted, and over the limit it closes the connection.
Over == rates + 1 > RateLimit

\* A frame arrives.  Frames that come while the connection closes are still
\* handled, and counted; RateLimit + 2 bounds the count.
Message ==
    /\ status \in {"open", "closing"} /\ rates <= RateLimit + 1
    /\ Alive
    /\ rates' = rates + 1
    /\ IF Over
       THEN Closing("rate") /\ UNCHANGED recent
       ELSE recent' = [k \in DOMAIN recent |-> recent[k] + 1] /\ UNCHANGED <<status, reason>>
    /\ lastMessage' = now
    /\ UNCHANGED <<now, ending, nextBeat, forceClose, nextReset, batching, user, afterClose>>

\* The answer to a probe, a frame of one byte, is not counted.
Acknowledge ==
    /\ status \in {"open", "closing"}
    /\ Alive
    /\ lastMessage' = now
    /\ UNCHANGED <<now, status, ending, nextBeat, forceClose, rating, batching, user, reason,
                   afterClose>>

-----------------------------------------------------------------------------
(* Batched packets *)

Free == {i \in Ids : batchIntervals[i] = Off}

\* batchPacket: a packet without an interval on record starts one, on a
\* connection that is closed as well.
BatchPacket ==
    /\ batchTimeout = Off => Free # {}
    /\ batchedData' = batchedData \cup {now}
    /\ IF batchTimeout = Off
       THEN \E i \in Free :
              /\ \A j \in Free : i <= j
              /\ batchTimeout' = i
              /\ batchIntervals' = [batchIntervals EXCEPT ![i] = now + Batching]
              /\ afterClose' = IF status = "closed" THEN afterClose \cup {i} ELSE afterClose
       ELSE UNCHANGED <<batchTimeout, batchIntervals, afterClose>>
    /\ UNCHANGED <<now, status, ending, heart, rating, user, reason, lastMessage>>

\* The record is deleted; the interval goes on and flushes later packets too.
Unrecord(i) ==
    /\ batchIntervals' = [batchIntervals EXCEPT ![i] = now + Batching]
    /\ batchTimeout' = Off

\* An interval fires.  raw_send may close the connection, quietly or by
\* throwing, which keeps the data and the record.
Flush(i) ==
    /\ batchIntervals[i] = now
    /\ \/ /\ batchedData = {}
          /\ batchIntervals' = [batchIntervals EXCEPT ![i] = now + Batching]
          /\ UNCHANGED <<status, reason, batchedData, batchTimeout>>
       \/ /\ batchedData # {}
          /\ batchedData' = {}
          /\ Unrecord(i)
          /\ UNCHANGED <<status, reason>> \/ Closing("other")
       \/ /\ batchedData # {} /\ status = "open"
          /\ Closing("other")
          /\ batchIntervals' = [batchIntervals EXCEPT ![i] = now + Batching]
          /\ UNCHANGED <<batchedData, batchTimeout>>
    /\ UNCHANGED <<now, ending, heart, rating, user, lastMessage, afterClose>>

-----------------------------------------------------------------------------
(* Timers of the application, and the end *)

\* setTimeout does not ask whether the connection is closed.  One timeout is
\* set until one has run.
SetTimeout ==
    /\ timer = Off /\ calls = 0
    /\ \E t \in 1 .. HeartbeatInterval : timer' = now + t
    /\ outlives' = outlives \cup (IF status = "closed" THEN {"timeout"} ELSE {})
    /\ UNCHANGED <<now, status, handler, heart, rating, batching, calls, history>>

\* The callback runs, then the record is deleted.
TimeoutFires ==
    /\ timer = now
    /\ calls' = calls + 1
    /\ timer' = Off
    /\ UNCHANGED <<now, status, ending, heart, rating, batching, history>>

ClearTimeout ==
    /\ timer # Off
    /\ timer' = Off
    /\ UNCHANGED <<now, status, ending, heart, rating, batching, calls, history>>

\* onClientConnect let the connection pass: the close handler is registered,
\* for a close event that may have been.
Admit ==
    /\ handler = "pending"
    /\ handler' = "registered"
    /\ UNCHANGED <<now, status, outlives, heart, rating, batching, user, history>>

\* onClientConnect rejects the connection, which is closed; or it, or a connect
\* listener, throws.
NotAdmitted ==
    /\ handler = "pending"
    /\ handler' = "missing"
    /\ Closing("other") \/ UNCHANGED <<status, reason>>
    /\ UNCHANGED <<now, outlives, heart, rating, batching, user, lastMessage, afterClose>>

Close ==
    /\ status = "open"
    /\ Closing("other")
    /\ UNCHANGED <<now, ending, heart, rating, batching, user, lastMessage, afterClose>>

\* Faulty variant: the callbacks are called, their timers are not cleared.
CallOnly == UNCHANGED timer

\* Every timer on record is cleared, and called if it asked for it.
ClearAll == timer' = Off

\* The close handler of the server: the interval is cleared, and the timer of
\* the last probe.
StopHeartbeat ==
    /\ nextBeat' = Off
    /\ heartbeatTimers' = {h \in heartbeatTimers : h.sentAt # heartbeatTimeout}

\* The close event.  The socket is terminated if the peer lets it wait.
CloseEvent ==
    /\ status \in {"open", "closing"}
    /\ status' = "closed"
    /\ ClearAll
    /\ calls' = IF timer # Off THEN calls + 1 ELSE calls
    /\ batchIntervals' = [i \in Ids |-> Off]
    /\ nextReset' = Off
    /\ IF handler = "registered"
       THEN StopHeartbeat /\ UNCHANGED outlives
       ELSE outlives' = outlives \cup {"heartbeat"} /\ UNCHANGED <<nextBeat, heartbeatTimers>>
    /\ UNCHANGED <<now, handler, lastActivity, heartbeatTimeout, forceClose, rates, recent,
                   batchedData, batchTimeout, history>>

\* terminate() emits the close event, unless that has been.
Terminate ==
    /\ forceClose = now /\ status = "closed"
    /\ forceClose' = Off
    /\ UNCHANGED <<now, status, ending, lastActivity, nextBeat, heartbeatTimeout, heartbeatTimers,
                   rating, batching, user, history>>

Due ==
    {nextBeat, nextReset, forceClose, timer} \cup {h.due : h \in heartbeatTimers}
        \cup Range(batchIntervals)

Tick ==
    /\ now < Horizon /\ now \notin Due
    /\ now' = now + 1
    /\ recent' = [k \in DOMAIN recent |-> IF k = 0 THEN 0 ELSE recent[k - 1]]
    /\ UNCHANGED <<status, ending, heart, rates, nextReset, batching, user, history>>

Next ==
    \/ Beat \/ (\E h \in heartbeatTimers : HeartbeatExpires(h))
    \/ Reset \/ Message \/ Acknowledge
    \/ BatchPacket \/ \E i \in Ids : Flush(i)
    \/ Admit \/ NotAdmitted
    \/ SetTimeout \/ TimeoutFires \/ ClearTimeout
    \/ Close \/ CloseEvent \/ Terminate \/ Tick

Spec == Init /\ [][Next]_vars

-----------------------------------------------------------------------------
(* Properties *)

\* The heartbeat closes no connection whose peer was heard within an interval
\* and a timeout, also when the timers of several probes overlap.
ClosesTheSilent ==
    [][reason # "heartbeat" /\ reason' = "heartbeat" =>
          now - lastMessage >= HeartbeatInterval + HeartbeatTimeout]_vars

\* A peer that fell silent is noticed within two intervals and a timeout, and
\* is gone a force-close later.
DeadPeerNoticed ==
    /\ status = "open" =>
          now - lastMessage <= 2 * HeartbeatInterval + HeartbeatTimeout
    /\ reason = "heartbeat" /\ status = "closing" => forceClose # Off /\ now <= forceClose

\* The counters start again with every window, so two windows' worth of frames
\* may come in the time of one, and never more.
RateBounded ==
    recent[RateWindow - 1] <= 2 * RateLimit

\* After the close event nothing of the connection runs on: neither its rate
\* window nor its heartbeat, its batches or a timeout, which was called once.
\* But what is started on the closed connection runs, and the heartbeat of a
\* connection that was rejected, or closed before onClientConnect was done,
\* goes on forever.
EndsWithConnection ==
    /\ calls <= 1
    /\ status = "closed" =>
          /\ nextReset = Off
          /\ nextBeat # Off => "heartbeat" \in outlives
          /\ timer # Off => "timeout" \in outlives
          /\ \A i \in Ids : batchIntervals[i] # Off => i \in afterClose

=============================================================================
