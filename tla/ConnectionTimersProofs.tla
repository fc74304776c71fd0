------------------------ MODULE ConnectionTimersProofs ------------------------
(***************************************************************************)
(* What holds of the timers of a connection for any intervals, timeouts and*)
(* limits, however long it lives: which peers the heartbeat closes and how *)
(* soon, what a rate limit admits, and what survives the close.            *)
(***************************************************************************)
EXTENDS ConnectionTimers, TLAPS

LEMMA ConstantTypes ==
    /\ HeartbeatInterval \in Nat \ {0} /\ HeartbeatTimeout \in Nat \ {0}
    /\ ForceClose \in Nat \ {0}
    /\ RateWindow \in Nat \ {0} /\ RateLimit \in Nat \ {0}
    /\ Batching \in Nat \ {0} /\ Intervals \in Nat \ {0} /\ Horizon \in Nat \ {0}
BY TimersAssumption

USE ConstantTypes DEF Times, Ids, Off

\* Intervals run until the close event; no timer is overdue.
TimersInv ==
    /\ status # "closed" => /\ nextBeat \in now .. now + HeartbeatInterval
                            /\ nextReset \in now .. now + RateWindow
    /\ forceClose = Off \/ now <= forceClose
    /\ \A h \in heartbeatTimers : /\ h.sentAt <= now /\ now <= h.due
                                  /\ h.due = h.sentAt + HeartbeatTimeout

\* The probe whose timer will find the peer silent.
Unanswered(h) == lastActivity < h.sentAt /\ h.sentAt < lastActivity + 2 * HeartbeatInterval

\* A probe follows an interval of silence; and a peer that has not been probed
\* since it was heard was heard within an interval of the last beat.
HeartInv ==
    /\ lastActivity = lastMessage /\ lastMessage <= now
    /\ \A h \in heartbeatTimers :
          Answered(h) \/ h.sentAt - lastActivity >= HeartbeatInterval
    /\ status = "open" =>
          \/ nextBeat < lastActivity + 2 * HeartbeatInterval
          \/ \E h \in heartbeatTimers : Unanswered(h)

ReasonInv ==
    /\ status = "open" => reason = "none"
    /\ reason = "heartbeat" /\ status = "closing" => forceClose # Off

\* The frames handled since the last reset, and in the window before it.
Admitted == IF rates <= RateLimit THEN rates ELSE RateLimit
SinceReset == now - (nextReset - RateWindow)

\* An instant after the last reset counts in the present window only.
RateInv ==
    \A k \in 0 .. RateWindow - 1 :
        IF status = "closed" THEN recent[k] <= 2 * RateLimit
        ELSE recent[k] <= Admitted + (IF k < SinceReset THEN 0 ELSE RateLimit)

EndInv ==
    /\ calls <= 1 /\ (timer # Off => calls = 0)
    /\ status = "closed" =>
          /\ nextReset = Off
          /\ nextBeat # Off => "heartbeat" \in outlives
          /\ timer # Off => "timeout" \in outlives
          /\ \A i \in Ids : batchIntervals[i] # Off => i \in afterClose

IInv == TypeOK /\ TimersInv /\ HeartInv /\ ReasonInv /\ RateInv /\ EndInv

-----------------------------------------------------------------------------
LEMMA Initially == Init => IInv
<1> SUFFICES ASSUME Init PROVE IInv
    OBVIOUS
<1>1. TypeOK
    BY DEF Init, TypeOK
<1>2. TimersInv /\ HeartInv /\ ReasonInv /\ EndInv
    BY DEF Init, TimersInv, HeartInv, ReasonInv, EndInv
<1>3. RateInv
    BY DEF Init, RateInv, Admitted, SinceReset
<1>4. QED BY <1>1, <1>2, <1>3 DEF IInv

LEMMA TypeStep == ASSUME TypeOK, [Next]_vars PROVE TypeOK'
<1> USE DEF TypeOK
<1>1. CASE Beat
    <2>1. [sentAt |-> now, due |-> now + HeartbeatTimeout] \in Probes
        BY DEF Probes
    <2>2. QED BY SMTT(20), <1>1, <2>1 DEF ending, Beat, Armed, rating, batching, user, history
<1>2. ASSUME NEW h \in heartbeatTimers, HeartbeatExpires(h) PROVE TypeOK'
    <2>1. heartbeatTimers' \subseteq Probes /\ forceClose' \in Int
        BY <1>2 DEF ending, HeartbeatExpires
    <2>2. /\ status' \in {"open", "closing", "closed"}
          /\ reason' \in {"none", "rate", "heartbeat", "other"}
        BY <1>2 DEF ending, HeartbeatExpires, Closing
    <2>3. QED BY <1>2, <2>1, <2>2 DEF ending, HeartbeatExpires, rating, batching, user
<1>3. CASE Reset
    BY <1>3 DEF ending, Reset, heart, batching, user, history
<1>4. CASE Message
    <2>1. recent' \in [0 .. RateWindow - 1 -> Nat] /\ rates' \in 0 .. RateLimit + 2
        BY SMTT(20), <1>4 DEF ending, Message
    <2>2. /\ lastActivity' \in Times /\ heartbeatTimeout' \in Times \cup {Off}
          /\ heartbeatTimers' \subseteq Probes /\ lastMessage' \in Times
        BY <1>4 DEF ending, Message, Alive
    <2>3. /\ status' \in {"open", "closing", "closed"}
          /\ reason' \in {"none", "rate", "heartbeat", "other"}
        BY <1>4 DEF ending, Message, Closing
    <2>4. QED BY <1>4, <2>1, <2>2, <2>3 DEF ending, Message, batching, user
<1>5. CASE Acknowledge
    BY <1>5 DEF ending, Acknowledge, Alive, rating, batching, user
<1>6. CASE BatchPacket
    <2>1. batchedData' \subseteq Times
        BY <1>6 DEF ending, BatchPacket
    <2>2. /\ batchTimeout' \in Ids \cup {Off} /\ batchIntervals' \in [Ids -> Int]
          /\ afterClose' \subseteq Ids
        <3>1. CASE batchTimeout = Off
            <4>1. PICK i \in Ids :
                      /\ batchTimeout' = i
                      /\ batchIntervals' = [batchIntervals EXCEPT ![i] = now + Batching]
                      /\ afterClose' \in {afterClose, afterClose \cup {i}}
                BY <1>6, <3>1 DEF ending, BatchPacket, Free
            <4>2. QED BY <4>1
        <3>2. CASE batchTimeout # Off
            BY <1>6, <3>2 DEF ending, BatchPacket
        <3>3. QED BY <3>1, <3>2
    <2>3. QED BY <1>6, <2>1, <2>2 DEF ending, BatchPacket, heart, rating, user
<1>7. ASSUME NEW i \in Ids, Flush(i) PROVE TypeOK'
    <2>1. /\ batchIntervals' = [batchIntervals EXCEPT ![i] = now + Batching]
          /\ batchTimeout' \in {batchTimeout, Off}
          /\ batchedData' \in {batchedData, {}}
        BY <1>7 DEF ending, Flush, Unrecord
    <2>2. /\ status' \in {"open", "closing", "closed"}
          /\ reason' \in {"none", "rate", "heartbeat", "other"}
        BY <1>7 DEF ending, Flush, Closing
    <2>3. batchIntervals' \in [Ids -> Int]
        BY <2>1
    <2>4. QED BY <1>7, <2>1, <2>2, <2>3 DEF ending, Flush, heart, rating, user
<1>8. CASE SetTimeout \/ TimeoutFires \/ ClearTimeout
    <2>1. timer' \in Int /\ calls' \in Nat
        BY <1>8 DEF SetTimeout, TimeoutFires, ClearTimeout
    <2>3. outlives' \subseteq {"timeout", "heartbeat"}
        <3>1. outlives' \in {outlives, outlives \cup {"timeout"}}
            BY <1>8 DEF ending, SetTimeout, TimeoutFires, ClearTimeout
        <3>2. QED BY <3>1
    <2>2. UNCHANGED <<now, status, handler, heart, rating, batching, history>>
        BY <1>8 DEF ending, SetTimeout, TimeoutFires, ClearTimeout
    <2>4. QED BY <2>1, <2>2, <2>3 DEF ending, heart, rating, batching, history
<1>9. CASE Admit \/ NotAdmitted
    BY <1>9 DEF Admit, NotAdmitted, Closing, heart, rating, batching, user, history
<1>10. CASE Close
    BY <1>10 DEF ending, Close, Closing, heart, rating, batching, user
<1>11. CASE CloseEvent
    <2>1. outlives' \subseteq {"timeout", "heartbeat"}
        <3>1. outlives' \in {outlives, outlives \cup {"heartbeat"}}
            BY <1>11 DEF CloseEvent
        <3>2. QED BY <3>1
    <2>2. nextBeat' \in Int /\ heartbeatTimers' \subseteq Probes
        BY <1>11 DEF CloseEvent, StopHeartbeat
    <2>3. QED BY <1>11, <2>1, <2>2 DEF CloseEvent, ClearAll, history
<1>12. CASE Terminate
    BY <1>12 DEF ending, Terminate, rating, batching, user, history
<1>13. CASE Tick
    BY <1>13 DEF ending, Tick, heart, batching, user, history
<1>14. CASE UNCHANGED vars
    BY <1>14 DEF ending, vars, heart, rating, batching, user, history
<1>15. QED
    BY <1>1, <1>2, <1>3, <1>4, <1>5, <1>6, <1>7, <1>8, <1>9, <1>10, <1>11, <1>12, <1>13,
       <1>14
    DEF Next

\* The steps that leave the heartbeat, the rates and the clock alone.
LEMMA Elsewhere ==
    ASSUME [Next]_vars
    PROVE  \/ Beat \/ (\E h \in heartbeatTimers : HeartbeatExpires(h))
           \/ Reset \/ Message \/ Acknowledge \/ CloseEvent \/ Terminate \/ Tick
           \/ /\ UNCHANGED <<now, heart, rating, lastMessage>>
              /\ UNCHANGED <<status, reason>> \/ Closing("other")
BY DEF Next, BatchPacket, Flush, Unrecord, SetTimeout, TimeoutFires, ClearTimeout, Close,
       Admit, NotAdmitted, heart, rating, batching, user, history, vars

LEMMA ReasonStep == ASSUME IInv, [Next]_vars PROVE ReasonInv'
<1> USE DEF IInv, TypeOK, ReasonInv
<1>1. CASE Beat \/ Reset \/ Acknowledge \/ Terminate \/ CloseEvent \/ Tick
    BY <1>1 DEF Beat, Reset, Acknowledge, Terminate, CloseEvent, Tick, heart, history
<1>2. ASSUME NEW h \in heartbeatTimers, HeartbeatExpires(h) PROVE ReasonInv'
    BY <1>2 DEF HeartbeatExpires, Closing
<1>3. CASE Message
    BY <1>3 DEF Message, Closing
<1>4. CASE /\ UNCHANGED <<now, heart, rating, lastMessage>>
           /\ UNCHANGED <<status, reason>> \/ Closing("other")
    BY <1>4 DEF heart, Closing
<1>5. QED BY <1>1, <1>2, <1>3, <1>4, Elsewhere

LEMMA TimersStep == ASSUME IInv, [Next]_vars PROVE TimersInv'
<1> USE DEF IInv, TypeOK, TimersInv, Probes
<1>1. CASE Beat
    BY <1>1 DEF Beat, Armed, rating
<1>2. ASSUME NEW h \in heartbeatTimers, HeartbeatExpires(h) PROVE TimersInv'
    BY <1>2 DEF HeartbeatExpires, Closing, rating
<1>3. CASE Reset
    BY <1>3 DEF Reset, heart
<1>4. CASE Message \/ Acknowledge
    BY <1>4 DEF Message, Acknowledge, Alive, Closing, rating
<1>5. CASE CloseEvent
    BY <1>5 DEF StopHeartbeat, CloseEvent
<1>6. CASE Terminate
    BY <1>6 DEF Terminate, rating
<1>7. CASE Tick
    <2>1. /\ now # nextBeat /\ now # nextReset /\ now # forceClose
          /\ \A h \in heartbeatTimers : now # h.due
        BY <1>7 DEF Tick, Due
    <2>2. QED BY <1>7, <2>1 DEF Tick, heart
<1>8. CASE /\ UNCHANGED <<now, heart, rating, lastMessage>>
           /\ UNCHANGED <<status, reason>> \/ Closing("other")
    BY <1>8 DEF heart, rating, Closing
<1>9. QED BY <1>1, <1>2, <1>3, <1>4, <1>5, <1>6, <1>7, <1>8, Elsewhere

LEMMA HeartStep == ASSUME IInv, [Next]_vars PROVE HeartInv'
<1> USE DEF IInv, TypeOK, TimersInv, HeartInv, Answered, Probes
<1>1. CASE Beat
    <2>1. CASE status = "open" /\ now - lastActivity >= HeartbeatInterval
        <3>1. PICK h \in Probes : h.sentAt = now /\ h.due = now + HeartbeatTimeout
                                  /\ h = [sentAt |-> now, due |-> now + HeartbeatTimeout]
            <4>1. [sentAt |-> now, due |-> now + HeartbeatTimeout] \in Probes
                OBVIOUS
            <4>2. QED BY <4>1
        <3>2. heartbeatTimers' = heartbeatTimers \cup {h}
            BY <1>1, <2>1, <3>1 DEF Beat, Armed
        <3>3. (\E g \in heartbeatTimers : Unanswered(g)) \/ Unanswered(h)
            BY <1>1, <2>1, <3>1 DEF Beat, Unanswered
        <3>4. QED BY <1>1, <2>1, <3>1, <3>2, <3>3 DEF Beat, Unanswered, history
    <2>2. CASE ~(status = "open" /\ now - lastActivity >= HeartbeatInterval)
        BY <1>1, <2>2 DEF Beat, history
    <2>3. QED BY <2>1, <2>2
<1>2. ASSUME NEW h \in heartbeatTimers, HeartbeatExpires(h) PROVE HeartInv'
    <2>1. CASE Answered(h)
        <3>1. ~Unanswered(h)
            BY <2>1 DEF Unanswered
        <3>2. QED BY <1>2, <2>1, <3>1 DEF HeartbeatExpires, Unanswered
    <2>2. CASE ~Answered(h)
        BY <1>2, <2>2 DEF HeartbeatExpires, Closing
    <2>3. QED BY <2>1, <2>2
<1>3. CASE Reset
    BY <1>3 DEF Reset, heart, history, Unanswered
<1>4. CASE Message \/ Acknowledge
    BY SMTT(40), <1>4 DEF Message, Acknowledge, Alive, Closing
<1>5. CASE CloseEvent
    BY <1>5 DEF StopHeartbeat, CloseEvent, history
<1>6. CASE Terminate
    BY <1>6 DEF Terminate, history
<1>7. CASE Tick
    BY <1>7 DEF Tick, heart, history, Unanswered
<1>8. CASE /\ UNCHANGED <<now, heart, rating, lastMessage>>
           /\ UNCHANGED <<status, reason>> \/ Closing("other")
    BY <1>8 DEF heart, Closing, Unanswered
<1>9. QED BY <1>1, <1>2, <1>3, <1>4, <1>5, <1>6, <1>7, <1>8, Elsewhere

\* Whatever the instant, at most the two windows' worth of frames.
LEMMA RateCeiling ==
    ASSUME IInv, NEW k \in 0 .. RateWindow - 1
    PROVE  recent[k] <= 2 * RateLimit
<1>1. recent[k] \in Nat /\ Admitted \in Nat /\ Admitted <= RateLimit
    BY DEF IInv, TypeOK, Admitted
<1>2. PICK extra \in {0, RateLimit} : status # "closed" => recent[k] <= Admitted + extra
    BY DEF IInv, RateInv
<1>3. status = "closed" => recent[k] <= 2 * RateLimit
    BY DEF IInv, RateInv
<1>4. QED BY <1>1, <1>2, <1>3

LEMMA RateStep == ASSUME IInv, [Next]_vars PROVE RateInv'
<1> USE DEF IInv, TypeOK, TimersInv, RateInv, Admitted, SinceReset
<1>1. CASE Beat
    BY <1>1 DEF Beat, rating
<1>2. ASSUME NEW h \in heartbeatTimers, HeartbeatExpires(h) PROVE RateInv'
    BY <1>2 DEF HeartbeatExpires, Closing, rating
<1>3. CASE Reset
    BY <1>3 DEF Reset
<1>4. CASE Message
    <2>1. CASE rates + 1 > RateLimit
        <3>1. /\ status' # "closed" /\ status # "closed"
              /\ Admitted' = Admitted /\ SinceReset' = SinceReset /\ recent' = recent
            BY <1>4, <2>1 DEF Message, Over, Closing
        <3>2. QED BY <3>1
    <2>2. CASE rates + 1 <= RateLimit
        <3>1. /\ Admitted' = Admitted + 1 /\ SinceReset' = SinceReset /\ status' = status
              /\ \A k \in 0 .. RateWindow - 1 : recent'[k] = recent[k] + 1
            <4>1. /\ rates' = rates + 1 /\ UNCHANGED <<now, nextReset, status>>
                  /\ recent' = [k \in DOMAIN recent |-> recent[k] + 1]
                BY <1>4, <2>2 DEF Message, Over
            <4>2. QED BY <2>2, <4>1
        <3>2. status # "closed"
            BY <1>4 DEF Message
        <3>3. ASSUME NEW k \in 0 .. RateWindow - 1
              PROVE  recent'[k] <= Admitted' + (IF k < SinceReset' THEN 0 ELSE RateLimit)
            <4>1. recent[k] <= Admitted + (IF k < SinceReset THEN 0 ELSE RateLimit)
                BY <3>2
            <4>2. recent[k] \in Nat /\ Admitted \in Int /\ SinceReset \in Int
                OBVIOUS
            <4>3. QED BY SMTT(20), <3>1, <4>1, <4>2
        <3>4. QED BY <3>1, <3>2, <3>3
    <2>3. QED BY <2>1, <2>2
<1>5. CASE Acknowledge
    BY <1>5 DEF Acknowledge, rating
<1>6. CASE CloseEvent
    BY <1>6, RateCeiling DEF StopHeartbeat, CloseEvent
<1>7. CASE Terminate
    BY <1>7 DEF Terminate, rating
<1>8. CASE Tick
    BY SMTT(40), <1>8 DEF Tick
<1>9. CASE /\ UNCHANGED <<now, heart, rating, lastMessage>>
           /\ UNCHANGED <<status, reason>> \/ Closing("other")
    BY <1>9 DEF rating, Closing
<1>10. QED
    BY <1>1, <1>2, <1>3, <1>4, <1>5, <1>6, <1>7, <1>8, <1>9, Elsewhere

LEMMA EndStep == ASSUME IInv, [Next]_vars PROVE EndInv'
<1> USE DEF IInv, TypeOK, EndInv
<1>1. CASE Beat
    BY <1>1 DEF Beat, ending, rating, batching, user, history
<1>2. ASSUME NEW h \in heartbeatTimers, HeartbeatExpires(h) PROVE EndInv'
    BY <1>2 DEF HeartbeatExpires, Closing, ending, rating, batching, user
<1>3. CASE Reset
    BY <1>3 DEF Reset, ending, heart, batching, user, history
<1>4. CASE Message
    BY <1>4 DEF Message, Closing, ending, batching, user
<1>5. CASE BatchPacket
    <2>1. \A i \in Ids : status' = "closed" /\ batchIntervals'[i] # Off => i \in afterClose'
        BY <1>5 DEF BatchPacket, Free
    <2>2. UNCHANGED <<status, nextReset, nextBeat, outlives, timer, calls>>
        BY <1>5 DEF BatchPacket, ending, heart, rating, user
    <2>3. QED BY <2>1, <2>2
<1>6. ASSUME NEW i \in Ids, Flush(i) PROVE EndInv'
    <2>1. \A k \in Ids : status' = "closed" /\ batchIntervals'[k] # Off => k \in afterClose'
        BY <1>6 DEF Flush, Unrecord, Closing
    <2>2. /\ UNCHANGED <<nextReset, nextBeat, outlives, timer, calls>>
          /\ status' = "closed" => status = "closed"
        BY <1>6 DEF Flush, Closing, ending, heart, rating, user
    <2>3. QED BY <2>1, <2>2
<1>7. CASE SetTimeout
    <2>1. /\ calls' = 0 /\ UNCHANGED <<status, nextReset, nextBeat, batchIntervals, afterClose>>
          /\ outlives \subseteq outlives'
          /\ status = "closed" => "timeout" \in outlives'
        BY <1>7 DEF SetTimeout, heart, rating, batching, history
    <2>2. QED BY <2>1
<1>8. CASE TimeoutFires \/ ClearTimeout
    <2>1. /\ UNCHANGED <<status, nextReset, nextBeat, outlives, batchIntervals, afterClose>>
          /\ timer' = Off
        BY <1>8 DEF TimeoutFires, ClearTimeout, ending, heart, rating, batching, history
    <2>2. calls' <= 1
        BY <1>8 DEF TimeoutFires, ClearTimeout
    <2>3. QED BY <2>1, <2>2
<1>9. CASE Admit \/ NotAdmitted
    <2>1. /\ UNCHANGED <<nextReset, nextBeat, outlives, timer, calls>>
          /\ UNCHANGED <<batchIntervals, afterClose>>
        BY <1>9 DEF Admit, NotAdmitted, heart, rating, batching, user, history
    <2>2. status' = "closed" => status = "closed"
        BY <1>9 DEF Admit, NotAdmitted, Closing
    <2>3. QED BY <2>1, <2>2
<1>10. CASE Close
    BY <1>10 DEF Close, Closing, ending, heart, rating, batching, user
<1>11. CASE CloseEvent
    <2>1. nextBeat' # Off => "heartbeat" \in outlives'
        BY <1>11 DEF CloseEvent, StopHeartbeat
    <2>2. /\ timer' = Off /\ nextReset' = Off /\ \A i \in Ids : batchIntervals'[i] = Off
          /\ calls' = IF timer # Off THEN calls + 1 ELSE calls
        BY <1>11 DEF CloseEvent, ClearAll
    <2>3. QED BY <2>1, <2>2
<1>12. CASE Acknowledge \/ Terminate \/ Tick
    <2>1. /\ UNCHANGED <<status, nextReset, nextBeat, outlives, timer, calls>>
          /\ UNCHANGED <<batchIntervals, afterClose>>
        BY <1>12 DEF Acknowledge, Terminate, Tick, ending, heart, rating, batching, user, history
    <2>2. QED BY <2>1
<1>13. CASE UNCHANGED vars
    BY <1>13 DEF vars, ending, heart, rating, batching, user, history
<1>14. QED
    BY <1>1, <1>2, <1>3, <1>4, <1>5, <1>6, <1>7, <1>8, <1>9, <1>10, <1>11, <1>12, <1>13
    DEF Next

LEMMA Preserved == ASSUME IInv, [Next]_vars PROVE IInv'
BY TypeStep, TimersStep, HeartStep, ReasonStep, RateStep, EndStep DEF IInv

LEMMA Invariance == Spec => []IInv
BY Initially, Preserved, PTL DEF Spec

-----------------------------------------------------------------------------
\* Every variable of a connection's timers keeps its shape.
THEOREM TypeCorrect == Spec => []TypeOK
<1>1. IInv => TypeOK
    BY DEF IInv
<1>2. QED BY <1>1, Invariance, PTL

\* A peer that falls silent loses an open connection within two heartbeat
\* intervals and a timeout, and its socket a force-close later, although a beat
\* arms a timer of its own and only the last one is ever cleared
\* (SonicWSConnection's heartbeat).
THEOREM SilenceNoticed == Spec => []DeadPeerNoticed
<1>1. IInv => DeadPeerNoticed
    <2> SUFFICES ASSUME IInv PROVE DeadPeerNoticed
        OBVIOUS
    <2>1. ASSUME status = "open"
          PROVE  now - lastMessage <= 2 * HeartbeatInterval + HeartbeatTimeout
        <3>1. CASE nextBeat < lastActivity + 2 * HeartbeatInterval
            BY <2>1, <3>1 DEF IInv, TypeOK, TimersInv, HeartInv
        <3>2. CASE \E h \in heartbeatTimers : Unanswered(h)
            <4>1. PICK h \in heartbeatTimers : Unanswered(h)
                BY <3>2
            <4>2. /\ h.sentAt \in Int /\ now <= h.sentAt + HeartbeatTimeout
                  /\ h.sentAt < lastMessage + 2 * HeartbeatInterval
                BY <4>1 DEF IInv, TypeOK, TimersInv, HeartInv, Unanswered, Probes
            <4>3. QED BY <4>2 DEF IInv, TypeOK
        <3>3. QED BY <2>1, <3>1, <3>2 DEF IInv, HeartInv
    <2>2. QED BY <2>1 DEF IInv, DeadPeerNoticed, ReasonInv, TimersInv
<1>2. QED BY <1>1, Invariance, PTL

\* The heartbeat closes nobody who was heard within an interval and a timeout,
\* whichever of the overlapping timers runs out.
THEOREM TheSilentOnly == Spec => ClosesTheSilent
<1>1. ASSUME IInv, [Next]_vars, reason # "heartbeat", reason' = "heartbeat"
      PROVE  now - lastMessage >= HeartbeatInterval + HeartbeatTimeout
    <2>1. PICK h \in heartbeatTimers : HeartbeatExpires(h)
        BY <1>1, Elsewhere
        DEF Beat, Reset, Message, Acknowledge, CloseEvent, Terminate, Tick, Closing, history
    <2>2. ~Answered(h) /\ h.due = now
        BY <1>1, <2>1 DEF HeartbeatExpires
    <2>3. QED BY <1>1, <2>2 DEF IInv, TypeOK, TimersInv, HeartInv, Probes
<1>2. IInv /\ [Next]_vars =>
          [reason # "heartbeat" /\ reason' = "heartbeat" =>
              now - lastMessage >= HeartbeatInterval + HeartbeatTimeout]_vars
    BY <1>1
<1>3. QED BY <1>2, Invariance, PTL DEF Spec, ClosesTheSilent

\* In any span of a window's length no more than twice the limit is handled: the
\* windows of RateHandler restart at fixed times, not with the frames.
THEOREM RateLimited == Spec => []RateBounded
<1>1. IInv => RateBounded
    <2> SUFFICES ASSUME IInv PROVE RateBounded
        OBVIOUS
    <2>1. RateWindow - 1 \in 0 .. RateWindow - 1
        OBVIOUS
    <2>2. QED BY <2>1, RateCeiling DEF RateBounded
<1>2. QED BY <1>1, Invariance, PTL

\* After the close event the connection's rate window is not reset any more, and
\* no timeout or batch interval is left but what was started on the closed
\* connection; its heartbeat is, if the server's close handler had not been
\* registered (SonicWSServer.ts, the await of onClientConnect).
THEOREM NothingRunsOn == Spec => []EndsWithConnection
<1>1. IInv => EndsWithConnection
    BY DEF IInv, EndInv, EndsWithConnection
<1>2. QED BY <1>1, Invariance, PTL
=============================================================================
