--------------------------- MODULE RequestsProofs ---------------------------
(***************************************************************************)
(* What holds of RPC for any number of calls, transports and request ids:  *)
(* the types, that one of response, timeout and refused frame settles a    *)
(* call, and, before the ids go round, that the response is its own.       *)
(***************************************************************************)
EXTENDS Requests, FiniteSetTheorems, TLAPS

-----------------------------------------------------------------------------
(* Timers and pending requests *)

\* The record under an id and the timer with that id belong together, and a
\* call has one timer.
TimersPaired ==
    /\ \A tm \in timers : pendingRequests[tm.end][tm.id] = tm.call
    /\ \A e \in Ends, i \in Ids : pendingRequests[e][i] # None =>
            [end |-> e, id |-> i, call |-> pendingRequests[e][i]] \in timers
    /\ \A tm, tn \in timers : tm.call = tn.call => tm = tn

\* The stages of a call that has no id yet, or never gets one.
Early == {"idle", "hung"} \cup Unsent

\* Only a request whose frame was refused is settled while its timer runs.
SettledBefore ==
    /\ \A c \in Calls : stage[c] \in Early \cup {"waiting"} => settled[c] = 0
    /\ \A c \in Calls : c \notin threw => settled[c] <= 1
    /\ \A tm \in timers :
          /\ owner[tm.call] = tm.end
          /\ stage[tm.call] \notin Early
          /\ settled[tm.call] = 0 \/ (tm.call \in threw /\ settled[tm.call] = 1)

\* The types of the calls and of what waits for their answers, and the rest.
CallTypes ==
    /\ stage \in [Calls -> Stages]
    /\ owner \in [Calls -> Ends]
    /\ answer \in [Calls -> Calls \cup {None}]
    /\ settled \in [Calls -> 0 .. 2]
    /\ pendingRequests \in [Ends -> [Ids -> Calls \cup {None}]]
    /\ timers \subseteq Timers
    /\ threw \subseteq Calls

WireTypes ==
    /\ link \in Transports /\ phase \in Phases
    /\ status \in [Transports -> Statuses]
    /\ toServer \in [Transports -> Seq(Messages)]
    /\ toClient \in [Transports -> Seq(Messages)]

OtherTypes ==
    /\ nextRequestId \in [Ends -> Ids]
    /\ responders \subseteq Ends
    /\ jobs \subseteq Jobs
    /\ outlived \subseteq Calls

\* A call waits in one queue, at one place, and is marked so.
QueueInv ==
    /\ waiting \in [Ends -> Seq(Calls)] /\ stuck \subseteq Ends
    /\ \A e \in Ends, k \in Nat : k \in DOMAIN waiting[e] => stage[waiting[e][k]] = "queued"
    /\ \A e, f \in Ends, k, l \in Nat :
          k \in DOMAIN waiting[e] /\ l \in DOMAIN waiting[f] /\ waiting[e][k] = waiting[f][l]
          => e = f /\ k = l

LockTypes == locked \in [Ends -> BOOLEAN]

CallInv == CallTypes /\ TimersPaired /\ SettledBefore
Others == CallInv /\ WireTypes /\ OtherTypes
TypeInv == Others /\ QueueInv

-----------------------------------------------------------------------------
(* What carries a request id *)

\* The frames of a wire.
Frames(wire) == {wire[k] : k \in DOMAIN wire}

\* Id i stands for call c in a timer, a job or a frame under way.
Tagged(i, c) ==
    \/ \E tm \in timers : tm.id = i /\ tm.call = c
    \/ \E j \in jobs : j.id = i /\ j.call = c
    \/ \E t \in Transports : \E m \in Frames(toServer[t]) \cup Frames(toClient[t]) :
          m.id = i /\ m.call = c

\* The calls of an end that got an id, or were refused before.
Ended(e) == {c \in Calls : owner[c] = e /\ stage[c] \notin Early}

\* An end has numbered no more calls than it made, so that the id it gives out
\* next is one it has not used, or there is no call left to give it to.
IdsFresh ==
    /\ \A e \in Ends : nextRequestId[e] <= Cardinality(Ended(e)) + 1
    /\ \A e \in Ends, i \in Ids, c \in Calls : Tagged(i, c) /\ owner[c] = e =>
          /\ c \in Ended(e)
          /\ i < nextRequestId[e] \/ Ended(e) = Calls
    /\ \A i \in Ids, c, d \in Calls :
          Tagged(i, c) /\ Tagged(i, d) /\ owner[c] = owner[d] => c = d

\* A responder of the client for an earlier server connection outlived it.
FromBefore(c, t) == c \in outlived /\ Client < owner[c] /\ owner[c] < t

\* Whose calls the frames and jobs are about.
ServerFrame(m, t) ==
    IF m.type = "request" THEN owner[m.call] = Client
    ELSE owner[m.call] = t \/ FromBefore(m.call, t)
ClientFrame(m, t) == owner[m.call] = IF m.type = "request" THEN t ELSE Client
JobOwned(j) ==
    /\ j.at = Client => j.on <= link
    /\ owner[j.call] = IF j.at = Client THEN j.on ELSE Client

WiresInv ==
    /\ \A t \in Transports : \A m \in Frames(toServer[t]) : ServerFrame(m, t)
    /\ \A t \in Transports : \A m \in Frames(toClient[t]) : ClientFrame(m, t)
    /\ \A j \in jobs : JobOwned(j)

\* The answers given so far are about calls that were made.
AnswersInv ==
    \A c \in Calls :
        /\ answer[c] # None => stage[c] # "idle" /\ stage[answer[c]] # "idle"
        /\ answer[c] \notin {None, c} => FromBefore(answer[c], owner[c])

IInv == TypeInv /\ IdsFresh /\ WiresInv /\ AnswersInv

-----------------------------------------------------------------------------
(* The ways a step touches the calls *)

LEMMA CallsAlone ==
    ASSUME CallInv, UNCHANGED <<calls, pendingRequests, timers>>
    PROVE  CallInv'
BY DEF CallInv, CallTypes, TimersPaired, SettledBefore, calls

\* Settling a call that was settled once at most.
LEMMA SettleTypes ==
    ASSUME CallTypes, NEW c \in Calls, settled[c] \in {0, 1},
           NEW how \in {"resolved", "rejected"}, NEW whose \in Calls \cup {None},
           Settle(c, how, whose)
    PROVE  /\ stage' \in [Calls -> Stages]
           /\ answer' \in [Calls -> Calls \cup {None}]
           /\ settled' \in [Calls -> 0 .. 2]
           /\ \A d \in Calls : /\ settled'[d] = IF d = c THEN settled[c] + 1 ELSE settled[d]
                               /\ d # c => stage'[d] = stage[d]
           /\ stage'[c] \in Done
<1>1. settled[c] + 1 \in 0 .. 2
    OBVIOUS
<1>2. settled' \in [Calls -> 0 .. 2]
    BY <1>1 DEF CallTypes, Settle, Done
<1>3. stage' \in [Calls -> Stages] /\ answer' \in [Calls -> Calls \cup {None}]
    BY DEF CallTypes, Settle, Done, Stages, Unsent
<1>4. QED BY <1>2, <1>3 DEF CallTypes, Settle, Done

\* A call that has no id yet is made or refused.
LEMMA EarlyCall ==
    ASSUME CallInv, NEW c \in Calls, stage[c] \in Early,
           NEW e \in Ends, owner' = [owner EXCEPT ![c] = e],
           \/ /\ stage' = [stage EXCEPT ![c] = "queued"]
              /\ UNCHANGED <<answer, settled>>
           \/ /\ stage' = [stage EXCEPT ![c] = "encoding"]
              /\ UNCHANGED <<answer, settled>>
           \/ Settle(c, "rejected", None),
           UNCHANGED <<threw, pendingRequests, timers>>
    PROVE  CallInv'
<1> USE DEF CallInv, CallTypes
<1>1. settled[c] = 0 /\ \A tm \in timers : tm.call # c /\ tm.call \in Calls
    BY DEF SettledBefore, Timers
<1>2. TimersPaired'
    BY DEF TimersPaired
<1>3. CASE Settle(c, "rejected", None)
    <2>1. CallTypes'
        BY <1>1, <1>3, SettleTypes
    <2>2. /\ \A d \in Calls : /\ settled'[d] = IF d = c THEN 1 ELSE settled[d]
                              /\ d # c => stage'[d] = stage[d] /\ owner'[d] = owner[d]
          /\ stage'[c] \in Done
        BY <1>1, <1>3, SettleTypes
    <2>3. SettledBefore'
        BY SMTT(40), <1>1, <2>2 DEF SettledBefore, Early, Unsent, Done, Timers
    <2>4. QED BY <1>2, <2>1, <2>3
<1>4. CASE /\ \E how \in {"queued", "encoding"} : stage' = [stage EXCEPT ![c] = how]
           /\ UNCHANGED <<answer, settled>>
    <2>1. PICK how \in {"queued", "encoding"} : stage' = [stage EXCEPT ![c] = how]
        BY <1>4
    <2>2. CallTypes'
        BY <1>4, <2>1 DEF Stages, Unsent
    <2>3. \A d \in Calls : d # c => stage'[d] = stage[d] /\ owner'[d] = owner[d]
        BY <2>1
    <2>4. SettledBefore'
        BY <1>1, <1>4, <2>3 DEF SettledBefore, Timers
    <2>5. QED BY <1>2, <2>2, <2>4
<1>5. QED BY <1>3, <1>4

\* Calls that have no id yet get on towards one, or hang.
LEMMA EarlyCalls ==
    ASSUME CallInv, stage' \in [Calls -> Stages],
           \A d \in Calls : stage'[d] = stage[d]
                              \/ (stage[d] \in Early /\ stage'[d] \in Early),
           UNCHANGED <<owner, answer, settled, threw, pendingRequests, timers>>
    PROVE  CallInv'
<1>1. CallTypes' /\ TimersPaired'
    BY DEF CallInv, CallTypes, TimersPaired
<1>2. \A tm \in timers : tm.call \in Calls
    BY DEF CallInv, CallTypes, Timers
<1>3. SettledBefore'
    BY <1>2 DEF CallInv, SettledBefore
<1>4. QED BY <1>1, <1>3 DEF CallInv

\* A call gets its id, its timer and its record, and is sent or refused.
LEMMA IssuedCall ==
    ASSUME CallInv, OtherTypes, NEW c \in Calls, stage[c] = "encoded",
           NEW e \in Ends, e = owner[c], NEW i \in Ids, pendingRequests[e][i] = None,
           pendingRequests' = [pendingRequests EXCEPT ![e][i] = c],
           timers' = timers \cup {[end |-> e, id |-> i, call |-> c]},
           \/ /\ Settle(c, "rejected", None)
              /\ threw' = threw \cup {c}
           \/ /\ stage' = [stage EXCEPT ![c] = "waiting"]
              /\ UNCHANGED <<answer, settled, threw>>,
           UNCHANGED owner
    PROVE  CallInv'
<1> DEFINE new == [end |-> e, id |-> i, call |-> c]
<1> USE DEF CallInv, CallTypes
<1>1. settled[c] = 0 /\ \A tm \in timers : tm.call # c
    BY DEF SettledBefore, Early, Unsent
<1>2. c # None /\ new \in Timers
    BY DEF Calls, None, Timers
<1>3. CallTypes'
    <2>1. timers' \subseteq Timers /\ pendingRequests' \in [Ends -> [Ids -> Calls \cup {None}]]
        BY <1>2
    <2>2. CASE Settle(c, "rejected", None) /\ threw' = threw \cup {c}
        BY <1>1, <2>1, <2>2, SettleTypes
    <2>3. CASE /\ stage' = [stage EXCEPT ![c] = "waiting"]
               /\ UNCHANGED <<answer, settled, threw>>
        BY <2>1, <2>3 DEF Stages, Unsent, Done
    <2>4. QED BY <2>2, <2>3
<1>4. \A d \in Ends, k \in Ids :
        pendingRequests'[d][k] = IF d = e /\ k = i THEN c ELSE pendingRequests[d][k]
    OBVIOUS
<1>5. \A tm \in timers : tm.end \in Ends /\ tm.id \in Ids /\ tm.call \in Calls /\ tm.call # None
    BY DEF Timers, Calls, None
<1>6. TimersPaired'
    <2>1. \A tm \in timers' : pendingRequests'[tm.end][tm.id] = tm.call
        BY <1>2, <1>4, <1>5 DEF TimersPaired
    <2>2. \A d \in Ends, k \in Ids : pendingRequests'[d][k] # None =>
            [end |-> d, id |-> k, call |-> pendingRequests'[d][k]] \in timers'
        BY <1>4 DEF TimersPaired
    <2>3. \A tm, tn \in timers' : tm.call = tn.call => tm = tn
        BY <1>1 DEF TimersPaired
    <2>4. QED BY <2>1, <2>2, <2>3 DEF TimersPaired
<1>7. SettledBefore'
    <2>1. /\ stage'[c] \notin Early /\ \A d \in Calls : d # c => stage'[d] = stage[d]
          /\ \A d \in Calls : d # c => settled'[d] = settled[d]
          /\ \/ settled'[c] = 0 /\ threw' = threw
             \/ settled'[c] = 1 /\ stage'[c] = "rejected" /\ threw' = threw \cup {c}
        BY <1>1 DEF Settle, Early, Unsent, Done
    <2>2. \A d \in Calls : stage'[d] \in Early \cup {"waiting"} => settled'[d] = 0
        BY <1>1, <2>1 DEF SettledBefore
    <2>3. \A d \in Calls : d \notin threw' => settled'[d] <= 1
        BY <1>1, <2>1 DEF SettledBefore
    <2>4. ASSUME NEW tm \in timers'
          PROVE  /\ owner'[tm.call] = tm.end
                 /\ stage'[tm.call] \notin Early
                 /\ settled'[tm.call] = 0 \/ (tm.call \in threw' /\ settled'[tm.call] = 1)
        <3>1. CASE tm \in timers
            BY <1>1, <1>5, <2>1, <3>1 DEF SettledBefore
        <3>2. CASE tm = new
            BY <2>1, <3>2
        <3>3. QED BY <2>4, <3>1, <3>2
    <2>5. \A tm \in timers' :
                /\ owner'[tm.call] = tm.end
                /\ stage'[tm.call] \notin Early
                /\ settled'[tm.call] = 0 \/ (tm.call \in threw' /\ settled'[tm.call] = 1)
        BY <2>4
    <2> HIDE DEF CallInv, CallTypes
    <2>6. QED BY <2>2, <2>3, <2>5 DEF SettledBefore, Early, Unsent
<1>8. QED BY <1>3, <1>6, <1>7

\* What has a timer is settled, and its timer and record are gone.
LEMMA SettledCall ==
    ASSUME CallInv, NEW tm \in timers, NEW how \in {"resolved", "rejected"},
           NEW whose \in Calls \cup {None},
           timers' = timers \ {tm},
           pendingRequests' = [pendingRequests EXCEPT ![tm.end][tm.id] = None],
           Settle(tm.call, how, whose),
           UNCHANGED <<owner, threw>>
    PROVE  CallInv'
<1> USE DEF CallInv, CallTypes
<1>1. tm \in Timers /\ tm.end \in Ends /\ tm.id \in Ids /\ tm.call \in Calls
    BY DEF Timers
<1>2. settled[tm.call] = 0 \/ (tm.call \in threw /\ settled[tm.call] = 1)
    BY DEF SettledBefore
<1>3. CallTypes'
    BY <1>1, <1>2 DEF Settle, Done, Stages, Unsent
<1>4. \A d \in Ends, k \in Ids :
        pendingRequests'[d][k] = IF d = tm.end /\ k = tm.id THEN None ELSE pendingRequests[d][k]
    BY <1>1
<1>5. ASSUME NEW tn \in timers, tn # tm
      PROVE  /\ tn.call # tm.call /\ tn.end \in Ends /\ tn.id \in Ids /\ tn.call \in Calls
             /\ ~(tn.end = tm.end /\ tn.id = tm.id)
    BY <1>5 DEF TimersPaired, Timers
<1>6. TimersPaired'
    <2>1. \A tn \in timers' : pendingRequests'[tn.end][tn.id] = tn.call
        BY <1>4, <1>5 DEF TimersPaired
    <2>2. \A d \in Ends, k \in Ids : pendingRequests'[d][k] # None =>
            [end |-> d, id |-> k, call |-> pendingRequests'[d][k]] \in timers'
        <3> SUFFICES ASSUME NEW d \in Ends, NEW k \in Ids, pendingRequests'[d][k] # None
                     PROVE  [end |-> d, id |-> k, call |-> pendingRequests'[d][k]] \in timers'
            OBVIOUS
        <3>1. pendingRequests'[d][k] = pendingRequests[d][k] /\ ~(d = tm.end /\ k = tm.id)
            BY <1>4
        <3>2. [end |-> d, id |-> k, call |-> pendingRequests[d][k]] \in timers
            BY <3>1 DEF TimersPaired
        <3>3. [end |-> d, id |-> k, call |-> pendingRequests[d][k]] # tm
            BY <3>1
        <3>4. QED BY <3>1, <3>2, <3>3
    <2>3. \A tn, to \in timers' : tn.call = to.call => tn = to
        BY DEF TimersPaired
    <2>4. QED BY <2>1, <2>2, <2>3 DEF TimersPaired
<1>7. SettledBefore'
    BY <1>1, <1>2, <1>5 DEF SettledBefore, Settle, Early, Unsent, Done
<1>8. QED BY <1>3, <1>6, <1>7

\* A response settles the call its id stands for, if there is one.
LEMMA ResponseSettles ==
    ASSUME CallInv, NEW e \in Ends, NEW m \in Messages, SettleResponse(e, m),
           UNCHANGED <<owner, threw>>
    PROVE  CallInv'
<1> DEFINE c == pendingRequests[e][m.id]
<1>1. m.id \in Ids /\ m.call \in Calls
    BY DEF Messages
<1>2. CASE c = None
    BY <1>2, CallsAlone DEF SettleResponse, calls
<1>3. CASE c # None
    <2> DEFINE tm == [end |-> e, id |-> m.id, call |-> c]
    <2>1. tm \in timers
        BY <1>1, <1>3 DEF CallInv, TimersPaired
    <2>2. {tn \in timers : ~(tn.end = e /\ tn.call = c)} = timers \ {tm}
        BY <2>1 DEF CallInv, TimersPaired
    <2>3. /\ timers' = timers \ {tm}
          /\ pendingRequests' = [pendingRequests EXCEPT ![tm.end][tm.id] = None]
          /\ Settle(tm.call, IF m.ok THEN "resolved" ELSE "rejected", m.call)
        BY <1>3, <2>2 DEF SettleResponse
    <2>4. QED BY <1>1, <2>1, <2>3, SettledCall
<1>4. QED BY <1>2, <1>3

-----------------------------------------------------------------------------
(* The ways a step touches the wires *)

LEMMA AppendedFrame ==
    ASSUME NEW w \in Seq(Messages), NEW m \in Messages
    PROVE  Append(w, m) \in Seq(Messages) /\ Frames(Append(w, m)) = Frames(w) \cup {m}
<1>1. \A k \in DOMAIN Append(w, m) :
        (k \in DOMAIN w /\ Append(w, m)[k] = w[k]) \/ Append(w, m)[k] = m
    OBVIOUS
<1>2. \A k \in DOMAIN w : k \in DOMAIN Append(w, m) /\ Append(w, m)[k] = w[k]
    OBVIOUS
<1>3. Len(w) + 1 \in DOMAIN Append(w, m) /\ Append(w, m)[Len(w) + 1] = m
    OBVIOUS
<1>4. Frames(Append(w, m)) \subseteq Frames(w) \cup {m}
    BY <1>1 DEF Frames
<1>5. Frames(w) \cup {m} \subseteq Frames(Append(w, m))
    BY <1>2, <1>3 DEF Frames
<1>6. QED BY <1>4, <1>5

LEMMA FirstFrame ==
    ASSUME NEW w \in Seq(Messages), w # <<>>
    PROVE  /\ Head(w) \in Messages /\ Head(w) \in Frames(w)
           /\ Tail(w) \in Seq(Messages) /\ Frames(Tail(w)) \subseteq Frames(w)
<1>1. 1 \in DOMAIN w /\ Head(w) = w[1]
    OBVIOUS
<1>2. \A k \in DOMAIN Tail(w) : k + 1 \in DOMAIN w /\ Tail(w)[k] = w[k + 1]
    OBVIOUS
<1>3. QED BY <1>1, <1>2 DEF Frames

LEMMA NoFrame == <<>> \in Seq(Messages) /\ Frames(<<>>) = {}
BY DEF Frames

\* raw_send puts the frame on its own wire or nowhere, and moves no transport.
LEMMA SendsOne ==
    ASSUME WireTypes, NEW e \in Ends, NEW m \in Messages, NEW throws, Sends(e, m, throws)
    PROVE  /\ WireTypes' /\ link' = link
           /\ \A t \in Transports :
                /\ \A x \in Frames(toServer'[t]) :
                     x \in Frames(toServer[t]) \/ (e = Client /\ t = link /\ x = m)
                /\ \A x \in Frames(toClient'[t]) :
                     x \in Frames(toClient[t]) \/ (e = t /\ x = m)
<1> USE DEF WireTypes
<1>1. CASE e = Client
    <2>1. ClientSends(m, throws)
        BY <1>1 DEF Sends
    <2>2. /\ toServer' = toServer \/ toServer' = [toServer EXCEPT ![link] = Append(@, m)]
          /\ UNCHANGED <<toClient, status, link>> /\ phase' \in Phases
        BY <2>1 DEF ClientSends, Phases
    <2>3. \A t \in Transports : toServer'[t] = toServer[t]
                                  \/ (t = link /\ toServer'[t] = Append(toServer[t], m))
        BY <2>2
    <2>4. ASSUME NEW t \in Transports
          PROVE  /\ toServer[t] \in Seq(Messages)
                 /\ Append(toServer[t], m) \in Seq(Messages)
                 /\ Frames(Append(toServer[t], m)) = Frames(toServer[t]) \cup {m}
        <3>1. toServer[t] \in Seq(Messages)
            OBVIOUS
        <3>2. QED BY <3>1, AppendedFrame
    <2>5. /\ toServer' \in [Transports -> Seq(Messages)]
          /\ \A t \in Transports : \A x \in Frames(toServer'[t]) :
               x \in Frames(toServer[t]) \/ (t = link /\ x = m)
        <3>1. toServer' \in [Transports -> Seq(Messages)]
            BY <2>2, <2>3, <2>4
        <3>2. ASSUME NEW t \in Transports, NEW x \in Frames(toServer'[t])
              PROVE  x \in Frames(toServer[t]) \/ (t = link /\ x = m)
            <4>1. CASE toServer'[t] = toServer[t]
                BY <4>1, <3>2
            <4>2. CASE t = link /\ toServer'[t] = Append(toServer[t], m)
                BY <4>2, <3>2, <2>4
            <4>3. QED BY <2>3, <4>1, <4>2
        <3>3. QED BY <3>1, <3>2
    <2>6. QED BY <1>1, <2>2, <2>4, <2>5
<1>2. CASE e # Client
    <2>1. e \in Transports /\ ServerSends(e, m, throws)
        BY <1>2 DEF Sends, Ends
    <2>2. /\ toClient' = toClient \/ toClient' = [toClient EXCEPT ![e] = Append(@, m)]
          /\ UNCHANGED <<toServer, transport>> /\ status' \in [Transports -> Statuses]
        BY <2>1 DEF ServerSends, Statuses
    <2>3. \A t \in Transports : toClient'[t] = toClient[t]
                                  \/ (t = e /\ toClient'[t] = Append(toClient[t], m))
        BY <2>2
    <2>4. ASSUME NEW t \in Transports
          PROVE  /\ toClient[t] \in Seq(Messages)
                 /\ Append(toClient[t], m) \in Seq(Messages)
                 /\ Frames(Append(toClient[t], m)) = Frames(toClient[t]) \cup {m}
        <3>1. toClient[t] \in Seq(Messages)
            OBVIOUS
        <3>2. QED BY <3>1, AppendedFrame
    <2>5. /\ toClient' \in [Transports -> Seq(Messages)]
          /\ \A t \in Transports : \A x \in Frames(toClient'[t]) :
               x \in Frames(toClient[t]) \/ (t = e /\ x = m)
        <3>1. toClient' \in [Transports -> Seq(Messages)]
            BY <2>2, <2>3, <2>4
        <3>2. ASSUME NEW t \in Transports, NEW x \in Frames(toClient'[t])
              PROVE  x \in Frames(toClient[t]) \/ (t = e /\ x = m)
            <4>1. CASE toClient'[t] = toClient[t]
                BY <4>1, <3>2
            <4>2. CASE t = e /\ toClient'[t] = Append(toClient[t], m)
                BY <4>2, <3>2, <2>4
            <4>3. QED BY <2>3, <4>1, <4>2
        <3>3. QED BY <3>1, <3>2
    <2>6. QED BY <1>2, <2>2, <2>4, <2>5 DEF transport
<1>3. QED BY <1>1, <1>2

\* A frame is read, or the frames of a wire are lost: nothing new is under way.
LEMMA ServerWireShrinks ==
    ASSUME NEW w \in Transports, toServer \in [Transports -> Seq(Messages)],
           \/ toServer[w] # <<>> /\ toServer' = [toServer EXCEPT ![w] = Tail(@)]
           \/ toServer' = [toServer EXCEPT ![w] = <<>>]
    PROVE  /\ toServer' \in [Transports -> Seq(Messages)]
           /\ \A t \in Transports : Frames(toServer'[t]) \subseteq Frames(toServer[t])
<1>1. \A t \in Transports : t # w => toServer'[t] = toServer[t]
    OBVIOUS
<1>2. toServer'[w] \in Seq(Messages) /\ Frames(toServer'[w]) \subseteq Frames(toServer[w])
    <2>1. toServer[w] \in Seq(Messages)
        OBVIOUS
    <2>2. CASE toServer[w] # <<>> /\ toServer' = [toServer EXCEPT ![w] = Tail(@)]
        <3>1. toServer'[w] = Tail(toServer[w])
            BY <2>2
        <3>2. QED BY <2>1, <2>2, <3>1, FirstFrame
    <2>3. CASE toServer' = [toServer EXCEPT ![w] = <<>>]
        <3>1. toServer'[w] = <<>>
            BY <2>3
        <3>2. QED BY <3>1, NoFrame
    <2>4. QED BY <2>2, <2>3
<1>3. toServer' = [t \in Transports |-> toServer'[t]]
    OBVIOUS
<1>4. QED
    <2>1. toServer' \in [Transports -> Seq(Messages)]
        BY <1>1, <1>2, <1>3
    <2>2. ASSUME NEW t \in Transports PROVE Frames(toServer'[t]) \subseteq Frames(toServer[t])
        BY <1>1, <1>2
    <2>3. QED BY <2>1, <2>2

LEMMA ClientWireShrinks ==
    ASSUME NEW w \in Transports, toClient \in [Transports -> Seq(Messages)],
           \/ toClient[w] # <<>> /\ toClient' = [toClient EXCEPT ![w] = Tail(@)]
           \/ toClient' = [toClient EXCEPT ![w] = <<>>]
    PROVE  /\ toClient' \in [Transports -> Seq(Messages)]
           /\ \A t \in Transports : Frames(toClient'[t]) \subseteq Frames(toClient[t])
<1>1. \A t \in Transports : t # w => toClient'[t] = toClient[t]
    OBVIOUS
<1>2. toClient'[w] \in Seq(Messages) /\ Frames(toClient'[w]) \subseteq Frames(toClient[w])
    <2>1. toClient[w] \in Seq(Messages)
        OBVIOUS
    <2>2. CASE toClient[w] # <<>> /\ toClient' = [toClient EXCEPT ![w] = Tail(@)]
        <3>1. toClient'[w] = Tail(toClient[w])
            BY <2>2
        <3>2. QED BY <2>1, <2>2, <3>1, FirstFrame
    <2>3. CASE toClient' = [toClient EXCEPT ![w] = <<>>]
        <3>1. toClient'[w] = <<>>
            BY <2>3
        <3>2. QED BY <3>1, NoFrame
    <2>4. QED BY <2>2, <2>3
<1>3. toClient' = [t \in Transports |-> toClient'[t]]
    OBVIOUS
<1>4. QED
    <2>1. toClient' \in [Transports -> Seq(Messages)]
        BY <1>1, <1>2, <1>3
    <2>2. ASSUME NEW t \in Transports PROVE Frames(toClient'[t]) \subseteq Frames(toClient[t])
        BY <1>1, <1>2
    <2>3. QED BY <2>1, <2>2

-----------------------------------------------------------------------------
(* Types *)

LEMMA TypesInitially == Init => TypeInv
<1> SUFFICES ASSUME Init PROVE TypeInv
    OBVIOUS
<1> USE DEF Init
<1>1. {MaxCalls, MaxTransports, IdLimit} \subseteq Nat \ {0}
    BY RequestsAssumption DEF RequestsAssumption
<1>2. 1 \in Transports /\ 1 \in Ids
    BY <1>1 DEF Transports, Ids
<1>3. CallInv
    BY DEF CallInv, CallTypes, TimersPaired, SettledBefore, Stages, Unsent, Done, Ends
<1>4. WireTypes /\ OtherTypes
    BY <1>2 DEF WireTypes, OtherTypes, Phases, Statuses
<1>5. QueueInv
    BY DEF QueueInv
<1>6. QED BY <1>3, <1>4, <1>5 DEF TypeInv, Others

\* The id after the last one is the first.
LEMMA NextId ==
    ASSUME NEW i \in Ids
    PROVE  /\ After(i) \in Ids
           /\ i = IdLimit \/ After(i) = i + 1
<1>1. IdLimit \in Nat \ {0}
    BY RequestsAssumption DEF RequestsAssumption
<1>2. QED BY <1>1 DEF After, Ids

\* What issuing a request does to the calls.
LEMMA IssuePreservesCalls ==
    ASSUME TypeInv, NEW c \in Calls, Issue(c)
    PROVE  CallInv'
<1> DEFINE e == owner[c]
           i == nextRequestId[e]
<1>1. e \in Ends /\ i \in Ids /\ e = owner[c]
    BY DEF TypeInv, Others, CallInv, CallTypes, OtherTypes
<1>2. /\ stage[c] = "encoded" /\ pendingRequests[e][i] = None
      /\ pendingRequests' = [pendingRequests EXCEPT ![e][i] = c]
      /\ timers' = timers \cup {[end |-> e, id |-> i, call |-> c]}
      /\ UNCHANGED owner
      /\ \/ /\ Settle(c, "rejected", None)
            /\ threw' = threw \cup {c}
         \/ /\ stage' = [stage EXCEPT ![c] = "waiting"]
            /\ UNCHANGED <<answer, settled, threw>>
    BY DEF Issue
<1> HIDE DEF e, i
<1>3. QED BY <1>1, <1>2, IssuedCall DEF TypeInv, Others

\* What issuing a request does to the wires: the new frame may be under way.
LEMMA IssueSends ==
    ASSUME TypeInv, NEW c \in Calls, Issue(c)
    PROVE  \E throws \in BOOLEAN :
             /\ Sends(owner[c], Requested(nextRequestId[owner[c]], c), throws)
             /\ Requested(nextRequestId[owner[c]], c) \in Messages
             /\ owner[c] \in Ends
<1>1. owner[c] \in Ends /\ nextRequestId[owner[c]] \in Ids
    BY DEF TypeInv, Others, CallInv, CallTypes, OtherTypes
<1>2. Requested(nextRequestId[owner[c]], c) \in Messages
    BY <1>1 DEF Requested, Messages
<1>3. QED BY <1>1, <1>2 DEF Issue

LEMMA RespondSends ==
    ASSUME TypeInv, NEW j \in jobs, Respond(j)
    PROVE  \E good \in BOOLEAN, throws \in BOOLEAN :
             /\ Sends(j.at, Responded(j.id, j.call, good), throws)
             /\ Responded(j.id, j.call, good) \in Messages
             /\ j.at \in Ends /\ j.on \in Transports /\ j.call \in Calls /\ j.id \in Ids
<1>1. j.at \in Ends /\ j.on \in Transports /\ j.call \in Calls /\ j.id \in Ids
    BY DEF TypeInv, Others, OtherTypes, Jobs
<1>2. \A good \in BOOLEAN : Responded(j.id, j.call, good) \in Messages
    BY <1>1 DEF Responded, Messages
<1>3. QED BY <1>1, <1>2 DEF Respond

LEMMA QueueKept ==
    ASSUME TypeInv, UNCHANGED waiting, stuck' \subseteq Ends,
           \A c \in Calls : stage[c] = "queued" => stage'[c] = "queued"
    PROVE  QueueInv'
<1>1. \A e \in Ends, k \in Nat : k \in DOMAIN waiting[e] => waiting[e][k] \in Calls
    BY DEF TypeInv, Others, QueueInv
<1>2. QED BY <1>1 DEF TypeInv, Others, QueueInv

\* A call that is made while the queue is taken goes to its end.
LEMMA QueueGrows ==
    ASSUME TypeInv, NEW e \in Ends, NEW c \in Calls, stage[c] = "idle",
           waiting' = [waiting EXCEPT ![e] = Append(@, c)],
           stage' = [stage EXCEPT ![c] = "queued"], UNCHANGED stuck
    PROVE  QueueInv'
<1> USE DEF TypeInv, Others, QueueInv
<1>1. waiting[e] \in Seq(Calls)
    OBVIOUS
<1>2. /\ Append(waiting[e], c) \in Seq(Calls)
      /\ \A k \in DOMAIN Append(waiting[e], c) :
            \/ k \in DOMAIN waiting[e] /\ Append(waiting[e], c)[k] = waiting[e][k]
            \/ k = Len(waiting[e]) + 1 /\ Append(waiting[e], c)[k] = c
    BY <1>1
<1>3. ASSUME NEW f \in Ends, NEW k \in Nat, k \in DOMAIN waiting'[f]
      PROVE  \/ k \in DOMAIN waiting[f] /\ waiting'[f][k] = waiting[f][k]
             \/ f = e /\ k = Len(waiting[e]) + 1 /\ waiting'[f][k] = c
    <2>1. f # e => waiting'[f] = waiting[f]
        OBVIOUS
    <2>2. f = e => waiting'[f] = Append(waiting[e], c)
        OBVIOUS
    <2>3. QED BY <1>2, <1>3, <2>1, <2>2
<1>4. \A f \in Ends, k \in Nat : k \in DOMAIN waiting[f] =>
        waiting[f][k] \in Calls /\ waiting[f][k] # c
    OBVIOUS
<1>5. stage'[c] = "queued" /\ \A d \in Calls : d # c => stage'[d] = stage[d]
    BY DEF CallInv, CallTypes
<1>6. waiting' \in [Ends -> Seq(Calls)]
    BY <1>2
<1>7. \A f \in Ends, k \in Nat : k \in DOMAIN waiting'[f] => stage'[waiting'[f][k]] = "queued"
    BY <1>3, <1>4, <1>5
<1>8. ASSUME NEW f \in Ends, NEW g \in Ends, NEW k \in Nat, NEW l \in Nat,
             k \in DOMAIN waiting'[f], l \in DOMAIN waiting'[g], waiting'[f][k] = waiting'[g][l]
      PROVE  f = g /\ k = l
    <2>1. CASE waiting'[f][k] = c
        BY <1>3, <1>4, <1>8, <2>1
    <2>2. CASE waiting'[f][k] # c
        <3>1. /\ k \in DOMAIN waiting[f] /\ waiting'[f][k] = waiting[f][k]
              /\ l \in DOMAIN waiting[g] /\ waiting'[g][l] = waiting[g][l]
            BY <1>3, <1>8, <2>2
        <3>2. QED BY <1>8, <3>1
    <2>3. QED BY <2>1, <2>2
<1>9. QED BY SMTT(40), <1>6, <1>7, <1>8

\* The first call of a queue is taken off it.
LEMMA QueueShrinks ==
    ASSUME TypeInv, NEW e \in Ends, waiting[e] # <<>>,
           NEW c \in Calls, stage[c] # "queued",
           waiting' = [waiting EXCEPT ![e] = Tail(@)],
           stage' = [stage EXCEPT ![c] = "encoded", ![Head(waiting[e])] = "dequeued"],
           UNCHANGED stuck
    PROVE  /\ QueueInv'
           /\ Head(waiting[e]) \in Calls /\ stage[Head(waiting[e])] = "queued"
<1> DEFINE h == Head(waiting[e])
<1> USE DEF TypeInv, Others, QueueInv
<1>1. waiting[e] \in Seq(Calls)
    OBVIOUS
<1>2. /\ Tail(waiting[e]) \in Seq(Calls)
      /\ 1 \in DOMAIN waiting[e] /\ h = waiting[e][1] /\ h \in Calls
      /\ \A k \in DOMAIN Tail(waiting[e]) :
            /\ k \in Nat /\ k + 1 \in Nat /\ k + 1 # 1
            /\ k + 1 \in DOMAIN waiting[e] /\ Tail(waiting[e])[k] = waiting[e][k + 1]
    BY <1>1
<1> HIDE DEF h
<1>3. stage[h] = "queued"
    BY <1>2
<1>4. ASSUME NEW f \in Ends, NEW k \in Nat, k \in DOMAIN waiting'[f]
      PROVE  \/ f # e /\ k \in DOMAIN waiting[f] /\ waiting'[f][k] = waiting[f][k]
             \/ /\ f = e /\ k + 1 \in Nat /\ k + 1 # 1 /\ k + 1 \in DOMAIN waiting[e]
                /\ waiting'[f][k] = waiting[e][k + 1]
    <2>1. f # e => waiting'[f] = waiting[f]
        OBVIOUS
    <2>2. f = e => waiting'[f] = Tail(waiting[e])
        OBVIOUS
    <2>3. QED BY <1>2, <1>4, <2>1, <2>2
<1>5. ASSUME NEW f \in Ends, NEW k \in Nat, k \in DOMAIN waiting'[f]
      PROVE  waiting'[f][k] \in Calls /\ waiting'[f][k] # h /\ stage[waiting'[f][k]] = "queued"
    <2>1. CASE f # e /\ k \in DOMAIN waiting[f] /\ waiting'[f][k] = waiting[f][k]
        BY <1>2, <2>1
    <2>2. CASE /\ f = e /\ k + 1 \in Nat /\ k + 1 # 1 /\ k + 1 \in DOMAIN waiting[e]
               /\ waiting'[f][k] = waiting[e][k + 1]
        <3>1. waiting[e][k + 1] # waiting[e][1]
            BY <1>2, <2>2
        <3>2. QED BY <1>2, <2>2, <3>1
    <2>3. QED BY <1>4, <1>5, <2>1, <2>2
<1>6. waiting' \in [Ends -> Seq(Calls)]
    BY <1>2
<1>7. \A d \in Calls : d # c /\ d # h => stage'[d] = stage[d]
    BY DEF CallInv, CallTypes, h
<1>8. ASSUME NEW f \in Ends, NEW k \in Nat, k \in DOMAIN waiting'[f]
      PROVE  stage'[waiting'[f][k]] = "queued"
    <2>1. PICK d \in Calls : d = waiting'[f][k] /\ d # h /\ stage[d] = "queued"
        BY <1>5, <1>8
    <2>2. d # c
        BY <2>1
    <2> HIDE DEF TypeInv, Others, QueueInv
    <2>3. QED BY <1>7, <2>1, <2>2
<1>9. ASSUME NEW f \in Ends, NEW g \in Ends, NEW k \in Nat, NEW l \in Nat,
             k \in DOMAIN waiting'[f], l \in DOMAIN waiting'[g], waiting'[f][k] = waiting'[g][l]
      PROVE  f = g /\ k = l
    <2>1. k + 1 \in Nat /\ l + 1 \in Nat /\ (k + 1 = l + 1 => k = l)
        OBVIOUS
    <2>2. QED BY <1>4, <1>9, <2>1
<1>10. QueueInv'
    <2>1. stuck' \subseteq Ends
        OBVIOUS
    <2>2. \A f, g \in Ends, k, l \in Nat :
             k \in DOMAIN waiting'[f] /\ l \in DOMAIN waiting'[g] /\ waiting'[f][k] = waiting'[g][l]
             => f = g /\ k = l
        BY <1>9
    <2> HIDE DEF TypeInv, Others, QueueInv
    <2>3. QED BY <1>6, <1>8, <2>1, <2>2 DEF QueueInv
<1>11. h \in Calls /\ stage[h] = "queued"
    BY <1>2, <1>3
<1> HIDE DEF TypeInv, Others, QueueInv
<1>12. QED BY <1>10, <1>11 DEF h

\* What a response settles had its id.
LEMMA SettlesLate ==
    ASSUME TypeInv, NEW e \in Ends, NEW m \in Messages, SettleResponse(e, m)
    PROVE  \A c \in Calls : stage[c] \in Early => stage'[c] = stage[c]
<1>1. m.id \in Ids
    BY DEF Messages
<1>2. CASE pendingRequests[e][m.id] = None
    BY <1>2 DEF SettleResponse
<1>3. CASE pendingRequests[e][m.id] # None
    <2> DEFINE d == pendingRequests[e][m.id]
    <2>1. [end |-> e, id |-> m.id, call |-> d] \in timers
        BY <1>1, <1>3 DEF TypeInv, Others, CallInv, TimersPaired
    <2>2. stage[d] \notin Early
        BY <2>1 DEF TypeInv, Others, CallInv, SettledBefore
    <2>3. \A c \in Calls : c # d => stage'[c] = stage[c]
        BY <1>3 DEF SettleResponse, Settle, TypeInv, Others, CallInv, CallTypes
    <2>4. QED BY <2>2, <2>3
<1>4. QED BY <1>2, <1>3

LEMMA EncodeEffect ==
    ASSUME TypeInv, NEW c \in Calls, Encode(c)
    PROVE  /\ QueueInv'
           /\ stage' \in [Calls -> Stages]
           /\ \A d \in Calls : stage'[d] = stage[d] \/
                 (stage[d] \in Unsent /\ stage'[d] \in Unsent)
<1> DEFINE e == owner[c]
<1>1. e \in Ends /\ stage[c] \in {"encoding", "dequeued"} /\ UNCHANGED stuck
      /\ stage \in [Calls -> Stages]
    BY DEF Encode, TypeInv, Others, CallInv, CallTypes
<1>2. CASE waiting[e] = <<>>
    <2>1. stage' = [stage EXCEPT ![c] = "encoded"] /\ UNCHANGED waiting
        BY <1>2 DEF Encode
    <2>2. QueueInv'
        BY <1>1, <2>1, QueueKept DEF TypeInv, Others, QueueInv
    <2>3. QED BY <1>1, <2>1, <2>2 DEF Stages, Unsent
<1>3. CASE waiting[e] # <<>>
    <2> DEFINE h == Head(waiting[e])
    <2>1. /\ waiting' = [waiting EXCEPT ![e] = Tail(@)]
          /\ stage' = [stage EXCEPT ![c] = "encoded", ![h] = "dequeued"]
        BY <1>3 DEF Encode
    <2>2. stage[c] # "queued"
        BY <1>1
    <2> HIDE DEF e
    <2>3. QueueInv' /\ h \in Calls /\ stage[h] = "queued"
        BY <1>1, <1>3, <2>1, <2>2, QueueShrinks
    <2> HIDE DEF h
    <2>4. QED BY <1>1, <2>1, <2>3 DEF Stages, Unsent
<1>4. QED BY <1>2, <1>3

LEMMA QueuePreserved == ASSUME TypeInv, [Next]_vars PROVE QueueInv'
<1>1. stage \in [Calls -> Stages] /\ stuck \subseteq Ends
      /\ \A c \in Calls : owner[c] \in Ends
      /\ \A tm \in timers : tm.call \in Calls /\ stage[tm.call] # "queued"
    BY DEF TypeInv, Others, CallInv, CallTypes, SettledBefore, QueueInv, Timers, Early, Unsent
<1>2. ASSUME NEW c \in Calls, NEW e \in Ends, Request(e, c) PROVE QueueInv'
    <2>1. CASE UNCHANGED waiting
        <3>1. stage[c] = "idle" /\ \A d \in Calls : d # c => stage'[d] = stage[d]
            BY <1>1, <1>2 DEF Request, Settle
        <3>2. QED BY <1>1, <1>2, <2>1, <3>1, QueueKept DEF Request
    <2>2. CASE /\ stage' = [stage EXCEPT ![c] = "queued"]
               /\ waiting' = [waiting EXCEPT ![e] = Append(@, c)]
        BY <1>2, <2>2, QueueGrows DEF Request
    <2>3. QED BY <1>2, <2>1, <2>2 DEF Request
<1>3. ASSUME NEW c \in Calls, Encode(c) PROVE QueueInv'
    BY <1>3, EncodeEffect
<1>4. ASSUME NEW c \in Calls, Refuse(c) \/ OverRate(c) \/ Issue(c) PROVE QueueInv'
    <2>1. stage[c] # "queued" /\ \A d \in Calls : d # c => stage'[d] = stage[d]
        BY <1>1, <1>4 DEF Refuse, OverRate, Issue, Settle
    <2>2. stuck' \subseteq Ends /\ UNCHANGED waiting
        BY <1>1, <1>4 DEF Refuse, OverRate, Issue, queue
    <2>3. QED BY <2>1, <2>2, QueueKept
<1>5. ASSUME NEW tm \in timers, Timeout(tm) PROVE QueueInv'
    <2>1. \A d \in Calls : d # tm.call => stage'[d] = stage[d]
        BY <1>1, <1>5 DEF Timeout, Settle
    <2>2. QED BY <1>1, <1>5, <2>1, QueueKept DEF Timeout, queue
<1>6. ASSUME NEW t \in Transports, ServerReceives(t) PROVE QueueInv'
    <2>1. Head(toServer[t]) \in Messages /\ t \in Ends
        BY <1>6, FirstFrame DEF ServerReceives, TypeInv, Others, WireTypes, Ends
    <2>2. \A c \in Calls : stage[c] \in Early => stage'[c] = stage[c]
        BY <1>6, <2>1, SettlesLate DEF ServerReceives
    <2>3. UNCHANGED queue
        BY <1>6 DEF ServerReceives
    <2>4. QED BY <1>1, <2>2, <2>3, QueueKept DEF queue, Early, Unsent
<1>7. CASE ClientReceives
    <2>1. Head(toClient[link]) \in Messages /\ Client \in Ends
        BY <1>7, FirstFrame DEF ClientReceives, TypeInv, Others, WireTypes, Ends
    <2>2. \A c \in Calls : stage[c] \in Early => stage'[c] = stage[c]
        BY <1>7, <2>1, SettlesLate DEF ClientReceives
    <2>3. UNCHANGED queue
        BY <1>7 DEF ClientReceives
    <2>4. QED BY <1>1, <2>2, <2>3, QueueKept DEF queue, Early, Unsent
<1>8. ASSUME NEW e \in Ends, SendRefused(e) PROVE QueueInv'
    BY <1>1, <1>8, QueueKept DEF SendRefused, calls
<1>9. ASSUME UNCHANGED <<stage, queue>> PROVE QueueInv'
    BY <1>1, <1>9, QueueKept DEF queue
<1>10. ASSUME NEW t \in Transports, Close(t) \/ CloseEvent(t) PROVE UNCHANGED <<stage, queue>>
    BY <1>10 DEF Close, CloseEvent, calls
<1>11. ASSUME NEW j \in jobs, Admit(j) \/ Respond(j) PROVE UNCHANGED <<stage, queue>>
    BY <1>11 DEF Admit, Respond, calls
<1>12. ASSUME NEW e \in Ends, RegisterResponder(e) PROVE UNCHANGED <<stage, queue>>
    BY <1>12 DEF RegisterResponder, calls
<1>13. ASSUME Connect \/ Lose \/ Reconnect \/ UNCHANGED vars PROVE UNCHANGED <<stage, queue>>
    BY <1>13 DEF Connect, Lose, Reconnect, vars, calls
<1>14. QED
    BY <1>2, <1>3, <1>4, <1>5, <1>6, <1>7, <1>8, <1>9, <1>10, <1>11, <1>12, <1>13 DEF Next

LEMMA TypesPreserved == ASSUME TypeInv, [Next]_vars PROVE TypeInv'
<1> SUFFICES Others'
    BY QueuePreserved DEF TypeInv, Others
<1> USE DEF TypeInv, Others
<1>1. ASSUME NEW c \in Calls, NEW e \in Ends, Request(e, c) PROVE Others'
    <2>1. stage[c] = "idle" /\ stage[c] \in Early
        BY <1>1 DEF Request, Early
    <2>2. CallInv'
        BY <1>1, <2>1, EarlyCall DEF Request
    <2>3. WireTypes' /\ OtherTypes'
        BY <1>1 DEF Request, WireTypes, OtherTypes, transport
    <2>4. QED BY <2>2, <2>3
<1>2. ASSUME NEW c \in Calls, Encode(c) PROVE Others'
    <2>1. CallInv'
        BY <1>2, EncodeEffect, EarlyCalls DEF Encode, Early
    <2>2. WireTypes' /\ OtherTypes'
        BY <1>2 DEF Encode, WireTypes, OtherTypes, transport
    <2>3. QED BY <2>1, <2>2
<1>3. ASSUME NEW c \in Calls, Refuse(c) PROVE Others'
    <2>1. /\ owner[c] \in Ends /\ owner = [owner EXCEPT ![c] = owner[c]]
          /\ stage[c] \in {"encoding", "dequeued"} /\ stage[c] \in Early
        BY <1>3 DEF CallInv, CallTypes, Refuse, Early, Unsent
    <2>2. CallInv'
        <3>1. CASE Settle(c, "rejected", None)
            BY <1>3, <2>1, <3>1, EarlyCall DEF Refuse
        <3>2. CASE stage' = [stage EXCEPT ![c] = "hung"] /\ UNCHANGED <<answer, settled>>
            <4>1. stage' \in [Calls -> Stages]
                BY <3>2 DEF CallInv, CallTypes, Stages
            <4>2. \A d \in Calls : stage'[d] = stage[d]
                                     \/ (stage[d] \in Early /\ stage'[d] \in Early)
                BY <2>1, <3>2 DEF CallInv, CallTypes, Early
            <4>3. QED BY <1>3, <3>2, <4>1, <4>2, EarlyCalls DEF Refuse
        <3>3. QED BY <1>3, <3>1, <3>2 DEF Refuse
    <2>3. WireTypes' /\ OtherTypes'
        BY <1>3 DEF Refuse, WireTypes, OtherTypes, transport
    <2>4. QED BY <2>2, <2>3
<1>4. ASSUME NEW c \in Calls, OverRate(c) PROVE Others'
    <2>1. /\ owner[c] \in Ends /\ owner = [owner EXCEPT ![c] = owner[c]]
          /\ stage[c] = "encoded" /\ stage[c] \in Early
        BY <1>4 DEF CallInv, CallTypes, OverRate, Early, Unsent
    <2>2. CallInv'
        BY <1>4, <2>1, EarlyCall DEF OverRate
    <2>3. status' \in [Transports -> Statuses]
        BY <1>4 DEF OverRate, WireTypes, Statuses
    <2>4. WireTypes' /\ OtherTypes'
        BY <1>4, <2>3 DEF OverRate, WireTypes, OtherTypes, transport
    <2>5. QED BY <2>2, <2>4
<1>5. ASSUME NEW e \in Ends, SendRefused(e) PROVE Others'
    BY <1>5, CallsAlone DEF SendRefused, WireTypes, OtherTypes, transport
<1>6. ASSUME NEW c \in Calls, Issue(c) PROVE Others'
    <2>1. CallInv'
        BY <1>6, IssuePreservesCalls
    <2>2. WireTypes'
        BY <1>6, IssueSends, SendsOne
    <2>3. owner[c] \in Ends /\ nextRequestId[owner[c]] \in Ids
        BY DEF CallInv, CallTypes, OtherTypes
    <2>4. OtherTypes'
        BY <1>6, <2>3, NextId DEF Issue, OtherTypes
    <2>5. QED BY <2>1, <2>2, <2>4
<1>7. ASSUME NEW tm \in timers, Timeout(tm) PROVE Others'
    <2>1. CallInv'
        BY <1>7, SettledCall DEF Timeout
    <2>2. WireTypes' /\ OtherTypes'
        BY <1>7 DEF Timeout, WireTypes, OtherTypes, transport
    <2>3. QED BY <2>1, <2>2
<1>8. ASSUME NEW t \in Transports, ServerReceives(t) PROVE Others'
    <2> DEFINE m == Head(toServer[t])
    <2>1. /\ m \in Messages /\ m.id \in Ids /\ m.call \in Calls /\ t \in Ends
          /\ toServer' \in [Transports -> Seq(Messages)]
        BY <1>8, FirstFrame, ServerWireShrinks DEF ServerReceives, WireTypes, Ends, Messages
    <2>2. CallInv'
        <3>1. CASE UNCHANGED <<stage, answer, settled, timers, pendingRequests>>
            BY <1>8, <3>1, CallsAlone DEF ServerReceives, calls
        <3>2. CASE SettleResponse(t, m)
            BY <1>8, <2>1, <3>2, ResponseSettles DEF ServerReceives
        <3>3. QED BY <1>8, <3>1, <3>2 DEF ServerReceives
    <2>3. status' \in [Transports -> Statuses]
        BY <1>8 DEF ServerReceives, Closing, WireTypes, Statuses
    <2>4. jobs' \subseteq Jobs
        <3>1. [at |-> t, on |-> t, id |-> m.id, call |-> m.call, step |-> "middleware"] \in Jobs
            BY <2>1 DEF Jobs
        <3>2. QED BY <1>8, <3>1 DEF ServerReceives, OtherTypes
    <2>5. WireTypes' /\ OtherTypes'
        BY <1>8, <2>1, <2>3, <2>4 DEF ServerReceives, WireTypes, OtherTypes, transport
    <2>6. QED BY <2>2, <2>5
<1>9. CASE ClientReceives
    <2> DEFINE m == Head(toClient[link])
    <2>1. /\ m \in Messages /\ m.id \in Ids /\ m.call \in Calls /\ Client \in Ends
          /\ toClient' \in [Transports -> Seq(Messages)]
        BY <1>9, FirstFrame, ClientWireShrinks DEF ClientReceives, WireTypes, Ends, Messages
    <2>2. CallInv'
        <3>1. CASE UNCHANGED <<stage, answer, settled, timers, pendingRequests>>
            BY <1>9, <3>1, CallsAlone DEF ClientReceives, calls
        <3>2. CASE SettleResponse(Client, m)
            BY <1>9, <2>1, <3>2, ResponseSettles DEF ClientReceives
        <3>3. QED BY <1>9, <3>1, <3>2 DEF ClientReceives
    <2>3. toServer' \in [Transports -> Seq(Messages)]
        <3>1. Responded(m.id, m.call, FALSE) \in Messages
            BY <2>1 DEF Responded, Messages
        <3>2. \A r \in Messages : Append(toServer[link], r) \in Seq(Messages)
            BY DEF WireTypes
        <3>3. Append(toServer[link], Responded(m.id, m.call, FALSE)) \in Seq(Messages)
            BY <3>1, <3>2
        <3>4. QED BY <1>9, <3>3 DEF ClientReceives, WireTypes
    <2>4. jobs' \subseteq Jobs
        <3>1. [at |-> Client, on |-> link, id |-> m.id, call |-> m.call, step |-> "respond"] \in Jobs
            BY <2>1 DEF Jobs, WireTypes
        <3>2. QED BY <1>9, <3>1 DEF ClientReceives, OtherTypes
    <2>5. WireTypes' /\ OtherTypes'
        BY <1>9, <2>1, <2>3, <2>4 DEF ClientReceives, WireTypes, OtherTypes, transport
    <2>6. QED BY <2>2, <2>5
<1>10. ASSUME NEW j \in jobs, Admit(j) PROVE Others'
    <2>1. [j EXCEPT !.step = "respond"] \in Jobs
        BY DEF OtherTypes, Jobs
    <2>2. CallInv'
        BY <1>10, CallsAlone DEF Admit
    <2>3. WireTypes' /\ OtherTypes'
        BY <1>10, <2>1 DEF Admit, WireTypes, OtherTypes, transport
    <2>4. QED BY <2>2, <2>3
<1>11. ASSUME NEW j \in jobs, Respond(j) PROVE Others'
    <2>1. CallInv'
        BY <1>11, CallsAlone DEF Respond
    <2>2. WireTypes'
        BY <1>11, RespondSends, SendsOne
    <2>3. OtherTypes'
        BY <1>11, RespondSends DEF Respond, OtherTypes
    <2>4. QED BY <2>1, <2>2, <2>3
<1>12. CASE Connect
    BY <1>12, CallsAlone DEF Connect, WireTypes, OtherTypes, Phases, Statuses
<1>13. CASE Lose
    BY <1>13, CallsAlone DEF Lose, WireTypes, OtherTypes, Phases
<1>14. CASE Reconnect
    <2>1. link + 1 \in Transports
        BY <1>14, RequestsAssumption DEF Reconnect, WireTypes, Transports, RequestsAssumption
    <2>2. QED BY <1>14, <2>1, CallsAlone DEF Reconnect, WireTypes, OtherTypes, Phases
<1>15. ASSUME NEW t \in Transports, CloseEvent(t) \/ Close(t) PROVE Others'
    <2>1. CallInv' /\ OtherTypes'
        BY <1>15, CallsAlone DEF CloseEvent, Close, OtherTypes
    <2>2. CASE CloseEvent(t)
        BY <2>1, <2>2 DEF CloseEvent, WireTypes, Statuses, transport
    <2>3. CASE Close(t)
        BY <2>1, <2>3 DEF Close, Closing, WireTypes, Statuses, transport
    <2>4. QED BY <1>15, <2>2, <2>3
<1>16. ASSUME NEW e \in Ends, RegisterResponder(e) PROVE Others'
    BY <1>16, CallsAlone DEF RegisterResponder, WireTypes, OtherTypes, transport
<1>17. CASE UNCHANGED vars
    BY <1>17, CallsAlone DEF vars, WireTypes, OtherTypes, transport
<1>18. QED
    BY <1>1, <1>2, <1>3, <1>4, <1>5, <1>6, <1>7, <1>8, <1>9, <1>10, <1>11, <1>12, <1>13, <1>14,
       <1>15, <1>16, <1>17
    DEF Next

LEMMA LocksPreserved == ASSUME LockTypes, [Next]_vars PROVE LockTypes'
<1>1. ASSUME NEW e \in Ends, NEW value \in BOOLEAN, locked' = [locked EXCEPT ![e] = value]
      PROVE  LockTypes'
    BY Zenon, <1>1 DEF LockTypes
<1>2. ASSUME UNCHANGED locked PROVE LockTypes'
    BY <1>2 DEF LockTypes
<1>3. ASSUME NEW c \in Calls, NEW e \in Ends, Request(e, c) PROVE LockTypes'
    BY Zenon, <1>1, <1>2, <1>3 DEF Request
<1>4. ASSUME NEW c \in Calls, Encode(c) PROVE LockTypes'
    <2>1. CASE locked' = [locked EXCEPT ![owner[c]] = FALSE]
        BY Zenon, <2>1 DEF LockTypes
    <2>2. QED BY Zenon, <1>2, <1>4, <2>1 DEF Encode
<1>5. ASSUME NEW e \in Ends, SendRefused(e) PROVE LockTypes'
    BY Zenon, <1>1, <1>5 DEF SendRefused
<1>6. ASSUME NEW c \in Calls, Refuse(c) \/ OverRate(c) \/ Issue(c) PROVE UNCHANGED locked
    BY <1>6 DEF Refuse, OverRate, Issue, queue
<1>7. ASSUME NEW tm \in timers, Timeout(tm) PROVE UNCHANGED locked
    BY <1>7 DEF Timeout, queue
<1>8. ASSUME NEW t \in Transports, ServerReceives(t) \/ Close(t) \/ CloseEvent(t)
      PROVE  UNCHANGED locked
    BY <1>8 DEF ServerReceives, Close, CloseEvent, queue
<1>9. ASSUME NEW j \in jobs, Admit(j) \/ Respond(j) PROVE UNCHANGED locked
    BY <1>9 DEF Admit, Respond, queue
<1>10. ASSUME NEW e \in Ends, RegisterResponder(e) PROVE UNCHANGED locked
    BY <1>10 DEF RegisterResponder, queue
<1>11. ASSUME ClientReceives \/ Connect \/ Lose \/ Reconnect \/ UNCHANGED vars
       PROVE  UNCHANGED locked
    BY <1>11 DEF ClientReceives, Connect, Lose, Reconnect, vars, queue
<1>12. QED
    BY <1>2, <1>3, <1>4, <1>5, <1>6, <1>7, <1>8, <1>9, <1>10, <1>11 DEF Next

-----------------------------------------------------------------------------
(* How calls and ids go on *)

\* A call that was made keeps its owner, and once it ended waiting for an id it
\* never waits for one again.
LEMMA CallsMoveOn ==
    ASSUME TypeInv, [Next]_vars
    PROVE  /\ \A c \in Calls : stage[c] # "idle" => owner'[c] = owner[c] /\ stage'[c] # "idle"
           /\ \A c \in Calls : stage[c] \notin Early =>
                                  stage'[c] \notin Early
           /\ outlived \subseteq outlived'
<1> USE DEF TypeInv, Others, CallInv, CallTypes
<1> DEFINE Goal == /\ \A c \in Calls : stage[c] # "idle" => owner'[c] = owner[c] /\ stage'[c] # "idle"
                   /\ \A c \in Calls : stage[c] \notin Early =>
                                          stage'[c] \notin Early
                   /\ outlived \subseteq outlived'
<1>1. ASSUME NEW c \in Calls, NEW e \in Ends, Request(e, c) PROVE Goal
    BY <1>1 DEF Request, Settle, Done, Early
<1>11. ASSUME NEW c \in Calls, Encode(c) PROVE Goal
    BY <1>11, EncodeEffect DEF Encode, Early, Unsent
<1>2. ASSUME NEW c \in Calls, Refuse(c) \/ OverRate(c) \/ Issue(c) PROVE Goal
    BY <1>2 DEF Refuse, OverRate, Issue, Settle, Done, Early, Unsent
<1>3. ASSUME NEW tm \in timers, Timeout(tm) PROVE Goal
    BY <1>3 DEF Timeout, Settle, Done, Early, Unsent
<1>4. ASSUME NEW t \in Transports, ServerReceives(t) PROVE Goal
    BY ZenonT(40), <1>4 DEF ServerReceives, SettleResponse, Settle, Done, Early, Unsent
<1>5. CASE ClientReceives
    BY ZenonT(40), <1>5 DEF ClientReceives, SettleResponse, Settle, Done, Early, Unsent
<1>6. ASSUME NEW j \in jobs, Admit(j) \/ Respond(j) PROVE Goal
    BY <1>6 DEF Admit, Respond, calls
<1>7. ASSUME NEW t \in Transports, Close(t) \/ CloseEvent(t) PROVE Goal
    BY <1>7 DEF Close, CloseEvent, calls
<1>8. ASSUME NEW e \in Ends, RegisterResponder(e) \/ SendRefused(e) PROVE Goal
    BY <1>8 DEF RegisterResponder, SendRefused, calls
<1>9. CASE Connect \/ Lose \/ Reconnect \/ UNCHANGED vars
    BY <1>9 DEF Connect, Lose, Reconnect, vars, calls
<1>10. QED
    BY <1>1, <1>2, <1>3, <1>4, <1>5, <1>6, <1>7, <1>8, <1>9, <1>11 DEF Next

\* What a step's timers, jobs and frames may carry without tagging a call anew.
NoNewTags ==
    /\ timers' \subseteq timers
    /\ \A j \in jobs' : Tagged(j.id, j.call)
    /\ \A t \in Transports : \A m \in Frames(toServer'[t]) \cup Frames(toClient'[t]) :
         Tagged(m.id, m.call)

LEMMA TagsKept == ASSUME NoNewTags PROVE \A i, c : Tagged(i, c)' => Tagged(i, c)
BY DEF NoNewTags, Tagged

LEMMA OldTags ==
    /\ \A tm \in timers : Tagged(tm.id, tm.call)
    /\ \A j \in jobs : Tagged(j.id, j.call)
    /\ \A t \in Transports : \A m \in Frames(toServer[t]) \cup Frames(toClient[t]) :
         Tagged(m.id, m.call)
BY DEF Tagged

\* There are finitely many calls.
LEMMA CallsFinite ==
    /\ IsFiniteSet(Calls) /\ Cardinality(Calls) = MaxCalls
    /\ \A S, T : S \subseteq T /\ T \subseteq Calls =>
         /\ IsFiniteSet(S) /\ Cardinality(S) \in Nat /\ Cardinality(T) \in Nat
         /\ Cardinality(S) <= Cardinality(T)
         /\ Cardinality(S) = Cardinality(T) => S = T
<1>1. MaxCalls \in Nat
    BY RequestsAssumption DEF RequestsAssumption
<1>2. IsFiniteSet(Calls) /\ Cardinality(Calls) = MaxCalls
    BY <1>1, FS_Interval DEF Calls
<1>3. QED BY <1>2, FS_Subset, FS_CardinalityType

LEMMA EndedAreCalls == ASSUME NEW e PROVE Ended(e) \subseteq Calls /\ Ended(e)' \subseteq Calls
BY DEF Ended

LEMMA IdsAreNaturals ==
    ASSUME TypeInv
    PROVE  Ids \subseteq Nat /\ \A e \in Ends : nextRequestId[e] \in Ids /\ nextRequestId[e] \in Nat
BY RequestsAssumption DEF TypeInv, Others, OtherTypes, Ids, RequestsAssumption

\* A step that numbers no request leaves the ids in order.
LEMMA FreshKept ==
    ASSUME TypeInv, TypeInv', IdsFresh, [Next]_vars, NoNewTags, UNCHANGED nextRequestId
    PROVE  IdsFresh'
<1>1. ASSUME NEW e \in Ends PROVE Ended(e) \subseteq Ended(e)'
    BY CallsMoveOn DEF Ended, Early
<1>2. ASSUME NEW e \in Ends PROVE nextRequestId'[e] <= Cardinality(Ended(e)') + 1
    <2>1. /\ Cardinality(Ended(e)) \in Nat /\ Cardinality(Ended(e)') \in Nat
          /\ Cardinality(Ended(e)) <= Cardinality(Ended(e)')
        BY <1>1, EndedAreCalls, CallsFinite
    <2>2. nextRequestId[e] \in Nat
        BY IdsAreNaturals
    <2>3. QED BY <2>1, <2>2 DEF IdsFresh
<1>3. ASSUME NEW i \in Ids, NEW c \in Calls, Tagged(i, c)'
      PROVE  Tagged(i, c) /\ owner'[c] = owner[c] /\ owner[c] \in Ends
    <2>1. Tagged(i, c)
        BY <1>3, TagsKept
    <2>2. owner[c] \in Ends
        BY DEF TypeInv, Others, CallInv, CallTypes
    <2>3. c \in Ended(owner[c])
        BY <2>1, <2>2 DEF IdsFresh
    <2>4. QED BY <2>1, <2>2, <2>3, CallsMoveOn DEF Ended, Early
<1>4. ASSUME NEW e \in Ends, NEW i \in Ids, NEW c \in Calls, Tagged(i, c)', owner'[c] = e
      PROVE  /\ c \in Ended(e)'
             /\ i < nextRequestId'[e] \/ Ended(e)' = Calls
    <2>1. /\ c \in Ended(e)
          /\ i < nextRequestId[e] \/ Ended(e) = Calls
        BY <1>3, <1>4 DEF IdsFresh
    <2>2. QED BY <1>1, <2>1, EndedAreCalls
<1>5. ASSUME NEW i \in Ids, NEW c \in Calls, NEW d \in Calls,
             Tagged(i, c)', Tagged(i, d)', owner'[c] = owner'[d]
      PROVE  c = d
    BY <1>3, <1>5 DEF IdsFresh
<1>6. QED BY <1>2, <1>4, <1>5 DEF IdsFresh

\* The request that is numbered is new to its end, and after the last id no call
\* is left.
LEMMA FreshIssue ==
    ASSUME MaxCalls <= IdLimit, TypeInv, TypeInv', IdsFresh, [Next]_vars,
           NEW c \in Calls, Issue(c), NEW e \in Ends, e = owner[c],
           NEW i \in Ids, i = nextRequestId[e]
    PROVE  IdsFresh'
<1> DEFINE m == Requested(i, c)
<1>1. /\ stage[c] = "encoded"
      /\ nextRequestId' = [nextRequestId EXCEPT ![e] = After(i)]
      /\ timers' = timers \cup {[end |-> e, id |-> i, call |-> c]}
      /\ stage'[c] \notin Early
      /\ UNCHANGED <<owner, jobs>>
      /\ \A d \in Calls : d # c => stage'[d] = stage[d]
    BY DEF TypeInv, Others, CallInv, CallTypes, OtherTypes, Issue, Settle, Done, Early, Unsent
<1>2. \A t \in Transports : \A x \in Frames(toServer'[t]) \cup Frames(toClient'[t]) :
        x \in Frames(toServer[t]) \cup Frames(toClient[t]) \/ x = m
    <2>1. PICK throws \in BOOLEAN : Sends(e, m, throws) /\ m \in Messages
        BY IssueSends
    <2>2. \A t \in Transports :
             /\ \A x \in Frames(toServer'[t]) : x \in Frames(toServer[t]) \/ x = m
             /\ \A x \in Frames(toClient'[t]) : x \in Frames(toClient[t]) \/ x = m
        <3> HIDE DEF m
        <3>1. QED BY <2>1, SendsOne DEF TypeInv, Others
    <2>3. QED BY <2>2
<1>3. m.id = i /\ m.call = c
    BY DEF Requested
<1>4. i \in Nat /\ IdLimit \in Nat /\ MaxCalls \in Nat /\ IdLimit >= 1
    BY RequestsAssumption, IdsAreNaturals DEF RequestsAssumption
<1> HIDE DEF m
<1>5. \A k, d : Tagged(k, d)' => Tagged(k, d) \/ (k = i /\ d = c)
    BY <1>1, <1>2, <1>3 DEF Tagged
<1>6. /\ c \notin Ended(e) /\ Ended(e)' = Ended(e) \cup {c}
      /\ \A d \in Ends : d # e => Ended(d)' = Ended(d)
    BY <1>1 DEF Ended, Early, Unsent
<1>7. Cardinality(Ended(e)') = Cardinality(Ended(e)) + 1 /\ Cardinality(Ended(e)) \in Nat
    BY <1>6, EndedAreCalls, CallsFinite, FS_AddElement
<1>8. i <= Cardinality(Ended(e)) + 1
    BY DEF IdsFresh
<1>9. i = IdLimit => Ended(e)' = Calls
    <2>1. i = IdLimit => Cardinality(Ended(e)') >= MaxCalls
        BY <1>4, <1>7, <1>8
    <2>2. /\ Cardinality(Ended(e)') <= MaxCalls /\ Cardinality(Ended(e)') \in Nat
          /\ Cardinality(Ended(e)') = MaxCalls => Ended(e)' = Calls
        BY EndedAreCalls, CallsFinite
    <2>3. QED BY <1>4, <2>1, <2>2
<1>10. /\ (i = IdLimit /\ nextRequestId'[e] = 1) \/ nextRequestId'[e] = i + 1
       /\ \A d \in Ends : d # e => nextRequestId'[d] = nextRequestId[d]
    BY <1>1, <1>4 DEF After, TypeInv, Others, OtherTypes
<1>11. ASSUME NEW d \in Ends PROVE nextRequestId'[d] <= Cardinality(Ended(d)') + 1
    <2>1. CASE d = e
        BY <2>1, <1>4, <1>7, <1>8, <1>10
    <2>2. CASE d # e
        <3>1. Ended(d)' = Ended(d) /\ nextRequestId'[d] = nextRequestId[d]
            BY <2>2, <1>6, <1>10
        <3>2. QED BY <3>1 DEF IdsFresh
    <2>3. QED BY <2>1, <2>2
<1>12. ASSUME NEW k \in Ids, NEW d \in Calls, Tagged(k, d), owner[d] = e
       PROVE  k < i
    BY <1>6, <1>12 DEF IdsFresh
<1>13. ASSUME NEW f \in Ends, NEW k \in Ids, NEW d \in Calls, Tagged(k, d)', owner'[d] = f
       PROVE  /\ d \in Ended(f)'
              /\ k < nextRequestId'[f] \/ Ended(f)' = Calls
    <2>1. k \in Nat /\ owner[d] = f
        BY <1>1, <1>13, IdsAreNaturals
    <2>2. CASE Tagged(k, d) /\ f = e
        <3>1. k < i /\ d \in Ended(e)
            BY <2>1, <2>2, <1>12 DEF IdsFresh
        <3>2. QED BY <2>1, <2>2, <3>1, <1>4, <1>6, <1>9, <1>10
    <2>3. CASE Tagged(k, d) /\ f # e
        <3>1. d \in Ended(f) /\ (k < nextRequestId[f] \/ Ended(f) = Calls)
            BY <2>1, <2>3 DEF IdsFresh
        <3>2. QED BY <2>3, <3>1, <1>6, <1>10
    <2>4. CASE k = i /\ d = c
        <3>1. f = e /\ c \in Ended(e)'
            BY <2>1, <2>4, <1>6
        <3>2. QED BY <2>4, <3>1, <1>4, <1>9, <1>10
    <2>5. QED BY <1>5, <1>13, <2>2, <2>3, <2>4
<1>14. ASSUME NEW k \in Ids, NEW a \in Calls, NEW b \in Calls,
              Tagged(k, a)', Tagged(k, b)', owner'[a] = owner'[b]
       PROVE  a = b
    <2>1. owner[a] = owner[b] /\ i \in Nat
        BY <1>1, <1>4, <1>14
    <2>2. CASE Tagged(k, a) /\ Tagged(k, b)
        BY <2>1, <2>2 DEF IdsFresh
    <2>3. CASE k = i /\ a = c /\ Tagged(k, b)
        BY <2>1, <2>3, <1>12
    <2>4. CASE k = i /\ b = c /\ Tagged(k, a)
        BY <2>1, <2>4, <1>12
    <2>5. QED BY <1>5, <1>14, <2>2, <2>3, <2>4
<1>15. QED BY <1>11, <1>13, <1>14 DEF IdsFresh

-----------------------------------------------------------------------------
(* What each step puts on the wires and into the jobs *)

NoNewFrames ==
    /\ \A t \in Transports : \A x \in Frames(toServer'[t]) : x \in Frames(toServer[t])
    /\ \A t \in Transports : \A x \in Frames(toClient'[t]) : x \in Frames(toClient[t])

\* The server's end takes a frame from its wire.
LEMMA ServerTakes ==
    ASSUME TypeInv, NEW t \in Transports, ServerReceives(t)
    PROVE  /\ NoNewFrames
           /\ timers' \subseteq timers
           /\ \E m \in Frames(toServer[t]) :
                /\ m = Head(toServer[t]) /\ m \in Messages
                /\ \A j \in jobs' : j \in jobs \/
                     /\ m.type = "request" /\ j.at = t /\ j.on = t /\ j.id = m.id /\ j.call = m.call
<1> DEFINE m == Head(toServer[t])
           job == [at |-> t, on |-> t, id |-> m.id, call |-> m.call, step |-> "middleware"]
<1>1. m \in Frames(toServer[t]) /\ m \in Messages
    BY FirstFrame DEF ServerReceives, TypeInv, Others, WireTypes
<1>2. NoNewFrames
    <2>1. toServer \in [Transports -> Seq(Messages)] /\ toServer[t] # <<>>
          /\ toServer' = [toServer EXCEPT ![t] = Tail(@)] /\ UNCHANGED toClient
        BY DEF ServerReceives, TypeInv, Others, WireTypes
    <2>2. QED BY <2>1, ServerWireShrinks DEF NoNewFrames
<1>3. timers' \subseteq timers
    BY DEF ServerReceives, SettleResponse
<1>4. jobs' = jobs \/ (m.type = "request" /\ jobs' = jobs \cup {job})
    BY DEF ServerReceives
<1>5. job.at = t /\ job.on = t /\ job.id = m.id /\ job.call = m.call
    OBVIOUS
<1> HIDE DEF m, job
<1>6. \A j \in jobs' : j \in jobs \/
         /\ m.type = "request" /\ j.at = t /\ j.on = t /\ j.id = m.id /\ j.call = m.call
    BY <1>4, <1>5
<1>7. QED BY <1>1, <1>2, <1>3, <1>6 DEF m

\* The client takes a frame from its wire, and answers at once what it has no
\* responder for.
LEMMA ClientTakes ==
    ASSUME TypeInv, ClientReceives
    PROVE  /\ timers' \subseteq timers
           /\ \A t \in Transports : \A x \in Frames(toClient'[t]) : x \in Frames(toClient[t])
           /\ \E m \in Frames(toClient[link]) :
                /\ m = Head(toClient[link]) /\ m \in Messages
                /\ \A j \in jobs' : j \in jobs \/
                     /\ m.type = "request" /\ j.at = Client /\ j.on = link
                     /\ j.id = m.id /\ j.call = m.call
                /\ \A t \in Transports : \A x \in Frames(toServer'[t]) : x \in Frames(toServer[t]) \/
                     /\ m.type = "request" /\ t = link
                     /\ x = Responded(m.id, m.call, FALSE)
<1> DEFINE m == Head(toClient[link])
           job == [at |-> Client, on |-> link, id |-> m.id, call |-> m.call, step |-> "respond"]
           answered == Responded(m.id, m.call, FALSE)
<1>1. m \in Frames(toClient[link]) /\ m \in Messages /\ answered \in Messages /\ link \in Transports
    <2>1. m \in Frames(toClient[link]) /\ m \in Messages
        BY FirstFrame DEF ClientReceives, TypeInv, Others, WireTypes
    <2>2. m.id \in Ids /\ m.call \in Calls
        BY <2>1 DEF Messages
    <2>3. QED BY <2>1, <2>2 DEF Responded, Messages, TypeInv, Others, WireTypes
<1>2. \A t \in Transports : \A x \in Frames(toClient'[t]) : x \in Frames(toClient[t])
    <2>1. toClient \in [Transports -> Seq(Messages)] /\ toClient[link] # <<>>
          /\ toClient' = [toClient EXCEPT ![link] = Tail(@)] /\ link \in Transports
        BY DEF ClientReceives, TypeInv, Others, WireTypes
    <2>2. QED BY <2>1, ClientWireShrinks
<1>3. timers' \subseteq timers
    BY DEF ClientReceives, SettleResponse
<1>4. jobs' = jobs \/ (m.type = "request" /\ jobs' = jobs \cup {job})
    BY DEF ClientReceives
<1>5. job.at = Client /\ job.on = link /\ job.id = m.id /\ job.call = m.call
    OBVIOUS
<1>6. \/ toServer' = toServer
      \/ m.type = "request" /\ toServer' = [toServer EXCEPT ![link] = IF status[link] = "closed" THEN @
                                                                      ELSE Append(@, answered)]
    BY DEF ClientReceives
<1>7. toServer \in [Transports -> Seq(Messages)]
    BY DEF TypeInv, Others, WireTypes
<1> HIDE DEF m, job, answered
<1>8. \A j \in jobs' : j \in jobs \/
         /\ m.type = "request" /\ j.at = Client /\ j.on = link /\ j.id = m.id /\ j.call = m.call
    BY <1>4, <1>5
<1>9. ASSUME NEW t \in Transports, NEW x \in Frames(toServer'[t])
      PROVE  x \in Frames(toServer[t]) \/ (m.type = "request" /\ t = link /\ x = answered)
    <2>1. \/ toServer'[t] = toServer[t]
          \/ m.type = "request" /\ t = link /\ toServer'[t] = Append(toServer[t], answered)
        BY <1>6, <1>7
    <2>2. toServer[t] \in Seq(Messages)
        BY <1>7
    <2>3. Frames(Append(toServer[t], answered)) = Frames(toServer[t]) \cup {answered}
        BY <1>1, <2>2, AppendedFrame
    <2>4. CASE toServer'[t] = toServer[t]
        BY <1>9, <2>4
    <2>5. CASE m.type = "request" /\ t = link /\ toServer'[t] = Append(toServer[t], answered)
        BY <1>9, <2>3, <2>5
    <2>6. QED BY <2>1, <2>4, <2>5
<1>10. QED BY <1>1, <1>2, <1>3, <1>8, <1>9 DEF m, answered

\* The steps of the calls, of the transports and of the jobs but one put nothing
\* new on a wire.
LEMMA QuietSteps ==
    ASSUME TypeInv,
           \/ \E c \in Calls : (\E e \in Ends : Request(e, c)) \/ Encode(c) \/ Refuse(c) \/ OverRate(c)
           \/ \E tm \in timers : Timeout(tm)
           \/ \E t \in Transports : Close(t) \/ CloseEvent(t)
           \/ \E j \in jobs : Admit(j)
           \/ Connect \/ Lose \/ Reconnect
           \/ \E e \in Ends : RegisterResponder(e) \/ SendRefused(e)
           \/ UNCHANGED vars
    PROVE  /\ NoNewFrames /\ timers' \subseteq timers /\ UNCHANGED nextRequestId
           /\ \A j \in jobs' : \E k \in jobs :
                j.id = k.id /\ j.call = k.call /\ j.at = k.at /\ j.on = k.on
           /\ link' = link \/ (link \in Nat /\ link' = link + 1)
           /\ \A c \in Calls : answer'[c] = answer[c] \/ answer'[c] = None
<1> DEFINE Goal ==
           /\ NoNewFrames /\ timers' \subseteq timers /\ UNCHANGED nextRequestId
           /\ \A j \in jobs' : \E k \in jobs :
                j.id = k.id /\ j.call = k.call /\ j.at = k.at /\ j.on = k.on
           /\ link' = link \/ (link \in Nat /\ link' = link + 1)
           /\ \A c \in Calls : answer'[c] = answer[c] \/ answer'[c] = None
<1>1. /\ toServer \in [Transports -> Seq(Messages)] /\ toClient \in [Transports -> Seq(Messages)]
      /\ answer \in [Calls -> Calls \cup {None}] /\ link \in Transports /\ Transports \subseteq Nat
    BY RequestsAssumption DEF TypeInv, Others, WireTypes, CallInv, CallTypes, Transports, RequestsAssumption
<1>2. ASSUME NEW c \in Calls, NEW e \in Ends,
             Request(e, c) \/ Encode(c) \/ Refuse(c) \/ OverRate(c)
      PROVE  Goal
    BY <1>1, <1>2 DEF Request, Encode, Refuse, OverRate, Settle, NoNewFrames, transport
<1>3. ASSUME NEW tm \in timers, Timeout(tm) PROVE Goal
    BY <1>1, <1>3 DEF Timeout, Settle, Done, NoNewFrames, transport
<1>4. ASSUME NEW t \in Transports, Close(t) PROVE Goal
    BY <1>1, <1>4 DEF Close, NoNewFrames, transport, calls
<1>5. ASSUME NEW t \in Transports, CloseEvent(t) PROVE Goal
    BY <1>1, <1>5, ServerWireShrinks DEF CloseEvent, NoNewFrames, transport, calls
<1>6. ASSUME NEW j \in jobs, Admit(j) PROVE Goal
    <2>1. j \in Jobs
        BY DEF TypeInv, Others, OtherTypes
    <2>2. LET k == [j EXCEPT !.step = "respond"]
          IN  k.id = j.id /\ k.call = j.call /\ k.at = j.at /\ k.on = j.on
        BY <2>1 DEF Jobs
    <2>3. QED BY <1>1, <1>6, <2>2 DEF Admit, NoNewFrames, transport, calls
<1>7. CASE Lose
    BY <1>1, <1>7, ClientWireShrinks DEF Lose, NoNewFrames, calls
<1>8. CASE Connect \/ Reconnect \/ UNCHANGED vars
    BY <1>1, <1>8 DEF Connect, Reconnect, vars, NoNewFrames, transport, calls
<1>9. ASSUME NEW e \in Ends, RegisterResponder(e) \/ SendRefused(e) PROVE Goal
    BY <1>1, <1>9 DEF RegisterResponder, SendRefused, NoNewFrames, transport, calls
<1>10. Client \in Ends
    BY DEF Ends
<1>11. QED BY <1>2, <1>3, <1>4, <1>5, <1>6, <1>7, <1>8, <1>9, <1>10

-----------------------------------------------------------------------------
(* Ids, frames and answers *)

\* The steps, by what they put on the wires.
LEMMA StepKinds ==
    ASSUME [Next]_vars
    PROVE  \/ \E c \in Calls : Issue(c)
           \/ \E t \in Transports : ServerReceives(t)
           \/ ClientReceives
           \/ \E j \in jobs : Respond(j)
           \/ \E c \in Calls : (\E e \in Ends : Request(e, c)) \/ Encode(c) \/ Refuse(c) \/ OverRate(c)
           \/ \E tm \in timers : Timeout(tm)
           \/ \E t \in Transports : Close(t) \/ CloseEvent(t)
           \/ \E j \in jobs : Admit(j)
           \/ Connect \/ Lose \/ Reconnect
           \/ \E e \in Ends : RegisterResponder(e) \/ SendRefused(e)
           \/ UNCHANGED vars
BY DEF Next

LEMMA FreshPreserved ==
    ASSUME MaxCalls <= IdLimit, TypeInv, TypeInv', IdsFresh, [Next]_vars
    PROVE  IdsFresh'
<1>1. ASSUME NEW c \in Calls, Issue(c) PROVE IdsFresh'
    <2>1. owner[c] \in Ends /\ nextRequestId[owner[c]] \in Ids
        BY DEF TypeInv, Others, CallInv, CallTypes, OtherTypes
    <2>2. QED BY <1>1, <2>1, FreshIssue
<1>2. ASSUME NEW t \in Transports, ServerReceives(t) PROVE IdsFresh'
    <2>1. NoNewTags
        BY <1>2, ServerTakes, OldTags DEF NoNewTags, NoNewFrames
    <2>2. QED BY <1>2, <2>1, FreshKept DEF ServerReceives
<1>3. CASE ClientReceives
    <2>1. link \in Transports
        BY DEF TypeInv, Others, WireTypes
    <2>2. PICK m \in Frames(toClient[link]) :
             /\ \A j \in jobs' : j \in jobs \/ (j.id = m.id /\ j.call = m.call)
             /\ \A t \in Transports : \A x \in Frames(toServer'[t]) :
                  x \in Frames(toServer[t]) \/ x = Responded(m.id, m.call, FALSE)
        BY <1>3, ClientTakes
    <2>3. Tagged(m.id, m.call)
        BY <2>1, OldTags
    <2>4. /\ timers' \subseteq timers
          /\ \A t \in Transports : \A x \in Frames(toClient'[t]) : x \in Frames(toClient[t])
        BY <1>3, ClientTakes
    <2>5. \A t \in Transports : \A x \in Frames(toServer'[t]) : Tagged(x.id, x.call)
        <3>1. Responded(m.id, m.call, FALSE).id = m.id /\ Responded(m.id, m.call, FALSE).call = m.call
            BY DEF Responded
        <3>2. QED BY <2>2, <2>3, <3>1, OldTags
    <2>6. \A j \in jobs' : Tagged(j.id, j.call)
        BY <2>2, <2>3, OldTags
    <2>7. NoNewTags
        BY <2>4, <2>5, <2>6, OldTags DEF NoNewTags
    <2>8. QED BY <1>3, <2>7, FreshKept DEF ClientReceives
<1>4. ASSUME NEW j \in jobs, Respond(j) PROVE IdsFresh'
    <2>1. PICK good \in BOOLEAN, throws \in BOOLEAN :
             /\ Sends(j.at, Responded(j.id, j.call, good), throws)
             /\ Responded(j.id, j.call, good) \in Messages /\ j.at \in Ends
        BY <1>4, RespondSends
    <2>2. \A t \in Transports :
            /\ \A x \in Frames(toServer'[t]) : x \in Frames(toServer[t]) \/ x = Responded(j.id, j.call, good)
            /\ \A x \in Frames(toClient'[t]) : x \in Frames(toClient[t]) \/ x = Responded(j.id, j.call, good)
        <3>1. WireTypes
            BY DEF TypeInv, Others
        <3> DEFINE m == Responded(j.id, j.call, good)
        <3>2. m \in Messages /\ j.at \in Ends /\ Sends(j.at, m, throws)
            BY <2>1
        <3> HIDE DEF m
        <3>3. \A t \in Transports :
                /\ \A x \in Frames(toServer'[t]) : x \in Frames(toServer[t]) \/ x = m
                /\ \A x \in Frames(toClient'[t]) : x \in Frames(toClient[t]) \/ x = m
            BY <3>1, <3>2, SendsOne
        <3>4. QED BY <3>3 DEF m
    <2>3. Responded(j.id, j.call, good).id = j.id /\ Responded(j.id, j.call, good).call = j.call
        BY DEF Responded
    <2>4. UNCHANGED <<timers, nextRequestId>> /\ jobs' \subseteq jobs
        BY <1>4 DEF Respond
    <2>5. NoNewTags
        BY <2>2, <2>3, <2>4, OldTags DEF NoNewTags
    <2>6. QED BY <2>4, <2>5, FreshKept
<1>5. ASSUME NoNewFrames, timers' \subseteq timers, UNCHANGED nextRequestId,
             \A j \in jobs' : \E k \in jobs :
               j.id = k.id /\ j.call = k.call /\ j.at = k.at /\ j.on = k.on
      PROVE IdsFresh'
    <2>1. NoNewTags
        BY <1>5, OldTags DEF NoNewTags, NoNewFrames
    <2>2. QED BY <1>5, <2>1, FreshKept
<1>6. QED BY <1>1, <1>2, <1>3, <1>4, <1>5, StepKinds, QuietSteps

\* A call that an id stands for was made, so what was said of its frames and
\* jobs stays true.
LEMMA OwnedStays ==
    ASSUME TypeInv, IdsFresh, [Next]_vars, link' >= link, link \in Nat, link' \in Nat,
           NEW i \in Ids, NEW c \in Calls, Tagged(i, c)
    PROVE  /\ owner'[c] = owner[c] /\ owner[c] \in Ends /\ stage[c] # "idle"
           /\ \A t : FromBefore(c, t) => FromBefore(c, t)'
<1>1. owner[c] \in Ends
    BY DEF TypeInv, Others, CallInv, CallTypes
<1>2. stage[c] # "idle"
    BY <1>1 DEF IdsFresh, Ended, Early
<1>3. owner'[c] = owner[c] /\ outlived \subseteq outlived'
    BY <1>2, CallsMoveOn
<1>4. QED BY <1>1, <1>2, <1>3 DEF FromBefore

\* A frame under way is a message that tags its call.
LEMMA FrameTypes ==
    ASSUME TypeInv, NEW t \in Transports, NEW m \in Frames(toServer[t]) \cup Frames(toClient[t])
    PROVE  m \in Messages /\ m.id \in Ids /\ m.call \in Calls /\ Tagged(m.id, m.call)
<1>1. toServer[t] \in Seq(Messages) /\ toClient[t] \in Seq(Messages)
    BY DEF TypeInv, Others, WireTypes
<1>2. \A w \in Seq(Messages) : Frames(w) \subseteq Messages
    BY DEF Frames
<1>3. m \in Messages
    BY <1>1, <1>2
<1>4. QED BY <1>3, OldTags DEF Messages

\* What is on the wires and in the jobs stays as it was described.
LEMMA WiresKept ==
    ASSUME TypeInv, IdsFresh, WiresInv, [Next]_vars, link' >= link, link \in Nat, link' \in Nat
    PROVE  /\ \A t \in Transports : \A m \in Frames(toServer[t]) : ServerFrame(m, t)'
           /\ \A t \in Transports : \A m \in Frames(toClient[t]) : ClientFrame(m, t)'
           /\ \A j \in jobs : JobOwned(j)' /\ owner'[j.call] = owner[j.call] /\ owner[j.call] \in Ends
<1>1. ASSUME NEW t \in Transports, NEW m \in Frames(toServer[t]) PROVE ServerFrame(m, t)'
    <2>1. m.id \in Ids /\ m.call \in Calls /\ Tagged(m.id, m.call)
        BY FrameTypes
    <2>2. QED BY <2>1, OwnedStays DEF WiresInv, ServerFrame
<1>2. ASSUME NEW t \in Transports, NEW m \in Frames(toClient[t]) PROVE ClientFrame(m, t)'
    <2>1. m.id \in Ids /\ m.call \in Calls /\ Tagged(m.id, m.call)
        BY FrameTypes
    <2>2. QED BY <2>1, OwnedStays DEF WiresInv, ClientFrame
<1>3. ASSUME NEW j \in jobs
      PROVE  JobOwned(j)' /\ owner'[j.call] = owner[j.call] /\ owner[j.call] \in Ends
    <2>1. j.id \in Ids /\ j.call \in Calls /\ Tagged(j.id, j.call) /\ j.on \in Nat
        BY OldTags, RequestsAssumption
        DEF TypeInv, Others, OtherTypes, Jobs, Transports, RequestsAssumption
    <2>2. QED BY <2>1, OwnedStays DEF WiresInv, JobOwned
<1>4. QED BY <1>1, <1>2, <1>3

LEMMA WiresPreserved ==
    ASSUME TypeInv, TypeInv', IdsFresh, WiresInv, [Next]_vars
    PROVE  WiresInv'
<1>1. link \in Nat /\ link' \in Nat /\ Transports \subseteq Nat
      /\ link \in Transports /\ \A t \in Transports : t # Client
    BY RequestsAssumption DEF TypeInv, Others, WireTypes, Transports, Client, RequestsAssumption
<1>2. ASSUME NEW c \in Calls, Issue(c) PROVE WiresInv'
    <2>1. PICK throws \in BOOLEAN, m \in Messages :
             /\ Sends(owner[c], m, throws)
             /\ m = Requested(nextRequestId[owner[c]], c) /\ owner[c] \in Ends
        BY <1>2, IssueSends
    <2>2. m.type = "request" /\ m.call = c
        BY <2>1 DEF Requested
    <2>3. jobs' = jobs /\ owner' = owner
        BY <1>2 DEF Issue
    <2>4. /\ link' = link
          /\ \A t \in Transports :
               /\ \A x \in Frames(toServer'[t]) :
                    x \in Frames(toServer[t]) \/ (owner[c] = Client /\ x = m)
               /\ \A x \in Frames(toClient'[t]) : x \in Frames(toClient[t]) \/ (owner[c] = t /\ x = m)
        BY <2>1, SendsOne DEF TypeInv, Others
    <2>5. \A t \in Transports : /\ owner[c] = Client => ServerFrame(m, t)'
                                /\ owner[c] = t => ClientFrame(m, t)'
        BY <2>2, <2>3 DEF ServerFrame, ClientFrame
    <2>6. QED BY <1>1, <2>3, <2>4, <2>5, WiresKept DEF WiresInv
<1>3. ASSUME NEW t \in Transports, ServerReceives(t) PROVE WiresInv'
    <2>1. PICK m \in Frames(toServer[t]) : \A j \in jobs' : j \in jobs \/
             /\ m.type = "request" /\ j.at = t /\ j.on = t /\ j.id = m.id /\ j.call = m.call
        BY <1>3, ServerTakes
    <2>2. NoNewFrames /\ UNCHANGED <<link, owner>>
        BY <1>3, ServerTakes DEF ServerReceives, transport
    <2>3. ASSUME NEW j \in jobs' PROVE JobOwned(j)'
        <3>1. CASE j \in jobs
            BY <1>1, <2>2, <3>1, WiresKept
        <3>2. CASE m.type = "request" /\ j.at = t /\ j.on = t /\ j.call = m.call
            BY <1>1, <2>2, <3>2 DEF WiresInv, ServerFrame, JobOwned
        <3>3. QED BY <2>1, <3>1, <3>2
    <2>4. QED BY <1>1, <2>2, <2>3, WiresKept DEF WiresInv, NoNewFrames
<1>4. CASE ClientReceives
    <2>1. PICK m \in Frames(toClient[link]) :
             /\ \A j \in jobs' : j \in jobs \/
                  /\ m.type = "request" /\ j.at = Client /\ j.on = link
                  /\ j.id = m.id /\ j.call = m.call
             /\ \A t \in Transports : \A x \in Frames(toServer'[t]) : x \in Frames(toServer[t]) \/
                  /\ m.type = "request" /\ t = link
                  /\ x = Responded(m.id, m.call, FALSE)
        BY <1>4, ClientTakes
    <2>2. /\ \A t \in Transports : \A x \in Frames(toClient'[t]) : x \in Frames(toClient[t])
          /\ UNCHANGED <<link, owner>>
        BY <1>4, ClientTakes DEF ClientReceives, transport
    <2>3. m.type = "request" => owner[m.call] = link
        BY <1>1 DEF WiresInv, ClientFrame
    <2>4. ASSUME NEW j \in jobs' PROVE JobOwned(j)'
        <3>1. CASE j \in jobs
            BY <1>1, <2>2, <3>1, WiresKept
        <3>2. CASE m.type = "request" /\ j.at = Client /\ j.on = link /\ j.call = m.call
            BY <1>1, <2>2, <2>3, <3>2 DEF JobOwned
        <3>3. QED BY <2>1, <3>1, <3>2
    <2>5. ASSUME NEW t \in Transports, NEW x \in Frames(toServer'[t]) PROVE ServerFrame(x, t)'
        <3>1. CASE x \in Frames(toServer[t])
            BY <1>1, <2>2, <3>1, WiresKept
        <3>2. CASE m.type = "request" /\ t = link /\ x = Responded(m.id, m.call, FALSE)
            BY <2>2, <2>3, <3>2 DEF ServerFrame, Responded
        <3>3. QED BY <2>1, <3>1, <3>2
    <2>6. \A t \in Transports : \A x \in Frames(toClient'[t]) : ClientFrame(x, t)'
        BY <1>1, <2>2, WiresKept
    <2>7. QED BY <2>4, <2>5, <2>6 DEF WiresInv
<1>5. ASSUME NEW j \in jobs, Respond(j) PROVE WiresInv'
    <2>1. PICK good \in BOOLEAN, throws \in BOOLEAN :
             /\ Sends(j.at, Responded(j.id, j.call, good), throws)
             /\ Responded(j.id, j.call, good) \in Messages /\ j.at \in Ends
             /\ j.on \in Transports
        BY <1>5, RespondSends
    <2> DEFINE m == Responded(j.id, j.call, good)
    <2>2. m.type = "response" /\ m.call = j.call
        BY DEF Responded
    <2>3. /\ jobs' \subseteq jobs /\ owner' = owner
          /\ j.at = Client /\ j.on # link => j.call \in outlived'
        BY <1>5 DEF Respond, calls
    <2> HIDE DEF m
    <2>4. /\ link' = link
          /\ \A t \in Transports :
               /\ \A x \in Frames(toServer'[t]) :
                    x \in Frames(toServer[t]) \/ (j.at = Client /\ t = link /\ x = m)
               /\ \A x \in Frames(toClient'[t]) : x \in Frames(toClient[t]) \/ (j.at = t /\ x = m)
        BY <2>1, SendsOne DEF TypeInv, Others, m
    <2>5. ASSUME j.at = Client PROVE ServerFrame(m, link)'
        <3>1. owner[j.call] = j.on /\ j.on <= link /\ j.on \in Nat /\ j.on > 0
            BY <1>1, <2>1, <2>5, RequestsAssumption DEF WiresInv, JobOwned, Transports, RequestsAssumption
        <3>2. CASE j.on = link
            BY <2>2, <2>3, <2>4, <3>1, <3>2 DEF ServerFrame
        <3>3. CASE j.on # link
            BY <1>1, <2>2, <2>3, <2>4, <2>5, <3>1, <3>3 DEF ServerFrame, FromBefore, Client
        <3>4. QED BY <3>2, <3>3
    <2>6. \A t \in Transports : j.at = t => ClientFrame(m, t)'
        BY <1>1, <2>2, <2>3 DEF WiresInv, JobOwned, ClientFrame
    <2>7. QED BY <1>1, <2>3, <2>4, <2>5, <2>6, WiresKept DEF WiresInv
<1>6. ASSUME NoNewFrames, timers' \subseteq timers, UNCHANGED nextRequestId,
             \A j \in jobs' : \E k \in jobs :
               j.id = k.id /\ j.call = k.call /\ j.at = k.at /\ j.on = k.on,
             link' = link \/ (link \in Nat /\ link' = link + 1)
      PROVE  WiresInv'
    <2>1. link' >= link
        BY <1>1, <1>6
    <2>2. \A j \in jobs' : JobOwned(j)'
        BY <1>1, <1>6, <2>1, WiresKept DEF JobOwned
    <2>3. QED BY <1>1, <1>6, <2>1, <2>2, WiresKept DEF WiresInv, NoNewFrames
<1>7. QED BY <1>2, <1>3, <1>4, <1>5, <1>6, StepKinds, QuietSteps

\* A response is answered by whom its frame is about, or by a call of the client's
\* that outlived an earlier connection.
LEMMA RightAnswer ==
    ASSUME TypeInv, IdsFresh, NEW e \in Ends, NEW m \in Messages, Tagged(m.id, m.call),
           NEW c \in Calls, c = pendingRequests[e][m.id],
           owner[m.call] = e \/ FromBefore(m.call, e)
    PROVE  /\ m.call = c \/ FromBefore(m.call, owner[c])
           /\ stage[c] # "idle" /\ stage[m.call] # "idle"
<1>1. m.id \in Ids /\ m.call \in Calls
    BY DEF Messages
<1>2. [end |-> e, id |-> m.id, call |-> c] \in timers
    BY <1>1 DEF TypeInv, Others, CallInv, TimersPaired, Calls, None
<1>3. Tagged(m.id, c) /\ owner[c] = e
    BY <1>2 DEF Tagged, TypeInv, Others, CallInv, SettledBefore
<1>4. owner[m.call] \in Ends
    BY <1>1 DEF TypeInv, Others, CallInv, CallTypes
<1>5. stage[c] # "idle" /\ stage[m.call] # "idle"
    BY <1>1, <1>3, <1>4 DEF IdsFresh, Ended, Early
<1>6. CASE owner[m.call] = e
    BY <1>1, <1>3, <1>5, <1>6 DEF IdsFresh
<1>7. CASE FromBefore(m.call, e)
    BY <1>3, <1>5, <1>7
<1>8. QED BY <1>6, <1>7

\* Answers that stay, or go, are about calls that were made and stay so.
LEMMA AnswersKept ==
    ASSUME TypeInv, AnswersInv, [Next]_vars,
           \A c \in Calls : answer'[c] = answer[c] \/ answer'[c] = None
    PROVE  AnswersInv'
<1> SUFFICES ASSUME NEW c \in Calls
             PROVE  /\ answer'[c] # None => stage'[c] # "idle" /\ stage'[answer'[c]] # "idle"
                    /\ answer'[c] \notin {None, c} => FromBefore(answer[c], owner[c])'
    BY DEF AnswersInv
<1>1. CASE answer'[c] = None
    BY <1>1
<1>2. CASE answer'[c] = answer[c] /\ answer[c] # None
    <2>1. answer[c] \in Calls /\ stage[c] # "idle" /\ stage[answer[c]] # "idle"
        BY <1>2 DEF AnswersInv, TypeInv, Others, CallInv, CallTypes
    <2>2. /\ owner'[c] = owner[c] /\ stage'[c] # "idle" /\ outlived \subseteq outlived'
          /\ owner'[answer[c]] = owner[answer[c]] /\ stage'[answer[c]] # "idle"
        BY <2>1, CallsMoveOn
    <2>3. answer[c] # c => FromBefore(answer[c], owner[c])
        BY <1>2 DEF AnswersInv
    <2>4. QED BY <1>2, <2>2, <2>3 DEF FromBefore
<1>3. QED BY <1>1, <1>2

\* A response that settles a call.
LEMMA AnsweredKept ==
    ASSUME TypeInv, IdsFresh, AnswersInv, [Next]_vars,
           NEW e \in Ends, NEW m \in Messages, Tagged(m.id, m.call), SettleResponse(e, m),
           owner[m.call] = e \/ FromBefore(m.call, e)
    PROVE  AnswersInv'
<1>1. CASE pendingRequests[e][m.id] = None
    BY <1>1, AnswersKept DEF SettleResponse
<1>2. CASE pendingRequests[e][m.id] # None
    <2>1. m.id \in Ids /\ m.call \in Calls
        BY DEF Messages
    <2>2. PICK c \in Calls : c = pendingRequests[e][m.id]
        BY <1>2, <2>1 DEF TypeInv, Others, CallInv, CallTypes
    <2>3. answer' = [answer EXCEPT ![c] = IF stage[c] \in Done
                                          THEN @ ELSE m.call]
        BY <1>2, <2>2 DEF SettleResponse, Settle, Done
    <2>4. /\ m.call = c \/ FromBefore(m.call, owner[c])
          /\ stage[c] # "idle" /\ stage[m.call] # "idle"
        BY <2>2, RightAnswer
    <2>5. /\ owner'[c] = owner[c] /\ stage'[c] # "idle" /\ outlived \subseteq outlived'
          /\ owner'[m.call] = owner[m.call] /\ stage'[m.call] # "idle"
        BY <2>1, <2>4, CallsMoveOn
    <2>6. FromBefore(m.call, owner[c]) => FromBefore(m.call, owner[c])'
        BY <2>5 DEF FromBefore
    <2>7. \A d \in Calls : \/ answer'[d] = answer[d]
                           \/ d = c /\ answer'[d] = m.call
        BY <2>3 DEF TypeInv, Others, CallInv, CallTypes
    <2>8. ASSUME NEW d \in Calls
          PROVE  /\ answer'[d] # None => stage'[d] # "idle" /\ stage'[answer'[d]] # "idle"
                 /\ answer'[d] \notin {None, d} => FromBefore(answer[d], owner[d])'
        <3>1. CASE answer'[d] = answer[d] /\ answer[d] = None
            BY <3>1
        <3>2. CASE answer'[d] = answer[d] /\ answer[d] # None
            <4>1. answer[d] \in Calls /\ stage[d] # "idle" /\ stage[answer[d]] # "idle"
                BY <3>2 DEF AnswersInv, TypeInv, Others, CallInv, CallTypes
            <4>2. /\ owner'[d] = owner[d] /\ stage'[d] # "idle"
                  /\ owner'[answer[d]] = owner[answer[d]] /\ stage'[answer[d]] # "idle"
                BY <4>1, CallsMoveOn
            <4>3. answer[d] # d => FromBefore(answer[d], owner[d])
                BY <3>2 DEF AnswersInv
            <4>4. QED BY <2>5, <3>2, <4>2, <4>3 DEF FromBefore
        <3>3. CASE d = c /\ answer'[d] = m.call
            BY <3>3, <2>4, <2>5, <2>6 DEF FromBefore
        <3>4. QED BY <2>7, <3>1, <3>2, <3>3
    <2>9. QED BY <2>8 DEF AnswersInv
<1>3. QED BY <1>1, <1>2

LEMMA AnswersPreserved ==
    ASSUME TypeInv, IdsFresh, WiresInv, AnswersInv, [Next]_vars
    PROVE  AnswersInv'
<1>1. ASSUME NEW c \in Calls, Issue(c) PROVE AnswersInv'
    BY <1>1, AnswersKept DEF Issue, Settle, Done, TypeInv, Others, CallInv, CallTypes
<1>2. ASSUME NEW t \in Transports, ServerReceives(t) PROVE AnswersInv'
    <2>1. PICK m \in Frames(toServer[t]) : m = Head(toServer[t]) /\ m \in Messages
        BY <1>2, ServerTakes
    <2>2. CASE UNCHANGED answer
        BY <2>2, AnswersKept
    <2>3. CASE m.type = "response" /\ SettleResponse(t, m)
        <3>1. owner[m.call] = t \/ FromBefore(m.call, t)
            BY <2>3 DEF WiresInv, ServerFrame
        <3>2. QED BY <2>1, <2>3, <3>1, FrameTypes, AnsweredKept DEF Ends
    <2>4. QED BY <1>2, <2>1, <2>2, <2>3 DEF ServerReceives
<1>3. CASE ClientReceives
    <2>1. PICK m \in Frames(toClient[link]) : m = Head(toClient[link]) /\ m \in Messages
        BY <1>3, ClientTakes
    <2>2. CASE UNCHANGED answer
        BY <2>2, AnswersKept
    <2>3. CASE m.type = "response" /\ SettleResponse(Client, m)
        <3>1. link \in Transports
            BY DEF TypeInv, Others, WireTypes
        <3>2. owner[m.call] = Client
            BY <2>3, <3>1 DEF WiresInv, ClientFrame
        <3>3. QED BY <2>1, <2>3, <3>1, <3>2, FrameTypes, AnsweredKept DEF Ends
    <2>4. QED BY <1>3, <2>1, <2>2, <2>3 DEF ClientReceives
<1>4. ASSUME NEW j \in jobs, Respond(j) PROVE AnswersInv'
    BY <1>4, AnswersKept DEF Respond, calls
<1>5. QED BY <1>1, <1>2, <1>3, <1>4, StepKinds, QuietSteps, AnswersKept

-----------------------------------------------------------------------------
(* The theorems *)

LEMMA Initially == Init => IInv
<1> SUFFICES ASSUME Init PROVE IInv
    OBVIOUS
<1>1. TypeInv
    BY TypesInitially
<1>2. /\ \A t \in Transports : Frames(toServer[t]) = {} /\ Frames(toClient[t]) = {}
      /\ timers = {} /\ jobs = {}
    BY NoFrame DEF Init
<1>3. \A i, c : ~Tagged(i, c)
    BY <1>2 DEF Tagged
<1>4. \A e \in Ends : nextRequestId[e] <= Cardinality(Ended(e)) + 1
    <2>1. ASSUME NEW e \in Ends PROVE Cardinality(Ended(e)) \in Nat
        BY EndedAreCalls, CallsFinite
    <2>2. \A e \in Ends : nextRequestId[e] = 1
        BY DEF Init
    <2>3. QED BY <2>1, <2>2
<1>5. IdsFresh
    BY <1>3, <1>4 DEF IdsFresh
<1>6. WiresInv /\ AnswersInv
    BY <1>2 DEF WiresInv, AnswersInv, Init
<1>7. QED BY <1>1, <1>5, <1>6 DEF IInv

LEMMA AlwaysTypes == Spec => []TypeInv
BY TypesInitially, TypesPreserved, PTL DEF Spec

\* Every variable of the two ends keeps its shape; in particular no promise is
\* settled more than twice.
THEOREM TypeCorrect == Spec => []TypeOK
<1>1. Init => LockTypes
    BY DEF Init, LockTypes
<1>2. TypeInv /\ LockTypes => TypeOK
    BY DEF TypeInv, Others, CallInv, CallTypes, WireTypes, OtherTypes, QueueInv, LockTypes, TypeOK
<1>3. QED BY <1>1, <1>2, LocksPreserved, AlwaysTypes, PTL DEF Spec

SettledOnce == \A c \in Calls : c \notin threw => settled[c] <= 1

\* Response and timeout race for a promise (request(), handleControl and the
\* timer's callback), and one of them settles it; a request whose frame raw_send
\* refused is the exception.  This needs nothing of the ids.
THEOREM OneSettles == Spec => []SettledOnce
<1>1. TypeInv => SettledOnce
    BY DEF TypeInv, Others, CallInv, SettledBefore, SettledOnce
<1>2. QED BY <1>1, AlwaysTypes, PTL

\* As long as no end makes more calls than there are ids (0x7fffffff), a call is
\* settled once, by the response to it: late responses, frames of dead transports
\* and the ids that a new server connection starts again do not mix the calls up,
\* but for a client's responder that outlives the connection it was called on.
THEOREM AnswersAreOwn ==
    ASSUME MaxCalls <= IdLimit
    PROVE  Spec => []OwnAnswerOnce
<1>1. IInv /\ [Next]_vars => IInv'
    BY TypesPreserved, FreshPreserved, WiresPreserved, AnswersPreserved DEF IInv
<1>2. IInv => OwnAnswerOnce
    BY DEF IInv, TypeInv, Others, CallInv, SettledBefore, AnswersInv, FromBefore, OwnAnswerOnce
<1>3. QED BY <1>1, <1>2, Initially, PTL DEF Spec
=============================================================================
