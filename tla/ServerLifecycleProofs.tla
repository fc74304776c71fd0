----------------------- MODULE ServerLifecycleProofs ------------------------
(***************************************************************************)
(* What holds of a server's connections and sessions for any number of     *)
(* connections, any rooms, any recovery period and any schedules: the      *)
(* types, the agreement of the two tag indexes, that no session is leaked  *)
(* or lost under its owner, and that a resume restores the client's rooms; *)
(* and of the adapter the server owns, that a completed close() has ended  *)
(* its clients.                                                            *)
(***************************************************************************)
EXTENDS ServerLifecycle, Adapter, TLAPS

\* Ids are handed out in the range of the connections: neither the last one nor
\* a released one is beyond the connections accepted so far.
IdsInRange ==
  /\ \A c \in Conn : phase[c] # "absent" => id[c] \in Id
  /\ \A b \in Conn : phase[b] = "absent" =>
       /\ lastId < b
       /\ \A i \in 1..Len(availableIds) : availableIds[i] < b
       /\ \A c \in Conn : phase[c] # "absent" => c < b /\ id[c] < b

TypeInv == TypeOK /\ IdsInRange

\* The connections that use a session: the accepted ones that have not closed.
Alive(c) == phase[c] \in {"accepting", "connected"}

\* Which connection can have, or be waiting for, which session.
Origins ==
  /\ \A c \in Conn : phase[c] = "absent" <=> sessionId[c] = None
  /\ \A c \in Conn : phase[c] \in {"accepting", "rejected"} => sessionId[c] = c
  /\ \A c \in Conn : phase[c] = "absent" \/ socket[c] # "none"
  /\ \A c \in Conn : reached[c] => phase[c] \in {"connected", "removed"}
  /\ \A c \in Conn : Connected(c) /\ socket[c] = "open" => reached[c]
  /\ \A c \in Conn : sessionId[c] \in {None, c} \/ Known(sessionId[c])
  /\ \A c \in Conn : authorizing[c] # None =>
       "authorize" \in delays /\ Known(c) /\ Known(authorizing[c])
  /\ \A s \in sessions : phase[s] \notin {"absent", "rejected"}
  /\ \A s \in Conn : phase[s] \in {"absent", "accepting"} =>
       expiresAt[s] = Infinity /\ held[s] = {}

\* Neither the policy nor the notice of a loss takes its time, and no listener
\* throws.
Prompt == delays \cap {"authorize", "loss", "throwing"} = {}

\* Then a connection is let in with its close handler, and one whose socket was
\* closed by then is unknown to any client.
HandlerKept ==
  Prompt => \A c \in Conn : Connected(c) =>
              handled[c] /\ (socket[c] # "open" => sessionId[c] = c /\ ~reached[c])

\* And where closes wait for their handler, none is missed.
NoneMissed ==
  delays \cap {"connect", "throwing"} = {} => \A c \in Conn : Alive(c) => Watched(c)

\* Then no two connections have one session ...
OneOwner ==
  Prompt => \A b, c \in Conn :
              Alive(b) /\ Alive(c) /\ sessionId[b] = sessionId[c] => b = c

\* ... nor does one lose it, from its acceptance on ...
OwnerKeeps ==
  Prompt /\ serving =>
    \A c \in Conn : Alive(c) => sessionId[c] \in sessions /\ expiresAt[sessionId[c]] = Infinity

\* ... and the rooms of its client are those of the connection while there is
\* one, and recorded in the session when there is none.
RoomsKept ==
  Prompt =>
    /\ \A c \in Conn : Connected(c) => held[sessionId[c]] \subseteq tags[c]
    /\ \A s \in sessions : Known(s) /\ (\A c \in Conn : Connected(c) => sessionId[c] # s)
                             => held[s] \subseteq sessionRooms[s]

IInv == TypeInv /\ Origins /\ HandlerKept /\ NoneMissed /\ OneOwner /\ OwnerKeeps /\ RoomsKept

-----------------------------------------------------------------------------
(* Types *)

\* A deadline set now is in the range of the clock and is not Infinity.
LEMMA Deadline ==
  ASSUME LifecycleAssumption, TypeOK
  PROVE  /\ now + Disconnection \in Time /\ now + Disconnection + 1 \in Time
         /\ now + Disconnection < Infinity
         /\ Infinity \in Time /\ now < Infinity
BY DEF LifecycleAssumption, TypeOK, Time, Infinity

\* An id is taken from the released ones, or is the next one.
LEMMA TakenId ==
  ASSUME LifecycleAssumption, TypeInv, NEW c \in Conn, Connect(c)
  PROVE  /\ lastId' \in Id /\ lastId' <= c
         /\ id' = [id EXCEPT ![c] = lastId']
         /\ availableIds' \in Seq(Id)
         /\ \A i \in 1..Len(availableIds') :
              \E j \in 1..Len(availableIds) : availableIds'[i] = availableIds[j]
<1>1. /\ lastId \in Nat /\ lastId < c /\ c \in Nat /\ c <= MaxConns
      /\ \A i \in 1..Len(availableIds) : availableIds[i] < c
      /\ availableIds \in Seq(Nat) /\ availableIds \in Seq(Id) /\ MaxConns \in Nat
  BY DEF TypeInv, TypeOK, IdsInRange, Connect, Id, Conn, LifecycleAssumption
<1>2. CASE availableIds = <<>>
  <2>1. /\ id' = [id EXCEPT ![c] = lastId + 1]
        /\ lastId' = lastId + 1
        /\ availableIds' = <<>>
    BY <1>2 DEF Connect, TakeId
  <2>2. QED BY <1>1, <2>1 DEF Id
<1>3. CASE availableIds # <<>>
  <2>1. /\ id' = [id EXCEPT ![c] = Head(availableIds)]
        /\ lastId' = Head(availableIds)
        /\ availableIds' = Tail(availableIds)
    BY <1>3 DEF Connect, TakeId
  <2>2. /\ Head(availableIds) = availableIds[1] /\ 1 \in 1..Len(availableIds)
        /\ Len(Tail(availableIds)) = Len(availableIds) - 1
        /\ Tail(availableIds) \in Seq(Id)
        /\ \A i \in 1..Len(Tail(availableIds)) :
             i + 1 \in 1..Len(availableIds) /\ Tail(availableIds)[i] = availableIds[i + 1]
    BY <1>1, <1>3
  <2>3. availableIds[1] \in Id /\ availableIds[1] < c
    BY <1>1, <2>2
  <2>4. QED BY <1>1, <2>1, <2>2, <2>3
<1>4. QED BY <1>2, <1>3

LEMMA TypesInitially == ASSUME LifecycleAssumption, Init PROVE TypeInv
BY DEF LifecycleAssumption, Init, TypeInv, TypeOK, IdsInRange, Phases, Conn, Id, Time, Infinity

\* An id that is released is in range, and below every connection to come.
LEMMA Released ==
  ASSUME LifecycleAssumption, TypeInv, NEW c \in Conn, phase[c] # "absent",
         availableIds' = Append(availableIds, id[c]),
         \A b \in Conn : phase'[b] = "absent" => phase[b] = "absent"
  PROVE  /\ availableIds' \in Seq(Id)
         /\ \A b \in Conn : phase'[b] = "absent" =>
              \A i \in 1..Len(availableIds') : availableIds'[i] < b
BY DEF TypeInv, TypeOK, IdsInRange

\* What letting a connection in changes.
LEMMA LetIn ==
  ASSUME TypeInv, NEW c \in Conn, Registered(c)
  PROVE  /\ phase[c] = "accepting" /\ phase'[c] = "connected"
         /\ phase' \in [Conn -> Phases] /\ reached' \in [Conn -> BOOLEAN]
         /\ \A b \in Conn : b # c => phase'[b] = phase[b] /\ reached'[b] = reached[b]
         /\ reached'[c] <=> socket[c] = "open"
         /\ connectionMap' = [connectionMap EXCEPT ![id[c]] = c]
<1>1. phase[c] = "accepting" /\ phase' = [phase EXCEPT ![c] = "connected"]
  BY DEF Registered
<1>2. phase \in [Conn -> Phases] /\ reached \in [Conn -> BOOLEAN]
  BY DEF TypeInv, TypeOK
<1>3. reached' = [reached EXCEPT ![c] = (socket[c] = "open")]
  BY DEF Registered
<1>4. \A b \in Conn : b # c => reached'[b] = reached[b]
  BY Zenon, <1>2, <1>3
<1>5. reached'[c] <=> socket[c] = "open"
  BY Zenon, <1>2, <1>3
<1>6. reached' \in [Conn -> BOOLEAN]
  BY Zenon, <1>2, <1>3
<1>7. QED BY <1>1, <1>2, <1>4, <1>5, <1>6 DEF Registered, Phases

LEMMA TypesPreserved ==
  ASSUME LifecycleAssumption, TypeInv, [Next]_vars
  PROVE  TypeInv'
<1> USE DEF TypeInv, Phases, handshake
<1> USE Deadline
<1>1. ASSUME NEW c \in Conn, Connect(c) PROVE TypeInv'
  <2>1. /\ lastId' \in Id /\ lastId' <= c /\ lastId' \in Nat
        /\ id' = [id EXCEPT ![c] = lastId']
        /\ availableIds' \in Seq(Id)
    BY <1>1, TakenId DEF Id
  <2>2. TypeOK'
    BY <1>1, <2>1 DEF Connect, TypeOK, membership, timers, resume, environment
  <2>3. \A b \in Conn : phase'[b] = "absent" => phase[b] = "absent" /\ c < b /\ lastId' < b
    BY <1>1, <2>1 DEF Connect, TypeOK, Conn
  <2>4. \A b \in Conn : phase'[b] = "absent" =>
          \A i \in 1..Len(availableIds') : availableIds'[i] < b
    BY <1>1, <2>3, TakenId DEF IdsInRange
  <2>5. \A d \in Conn : phase'[d] # "absent" =>
          \/ d = c /\ id'[d] = lastId'
          \/ phase[d] # "absent" /\ id'[d] = id[d]
    BY <1>1, <2>1 DEF Connect, TypeOK
  <2>6. IdsInRange'
    BY <2>1, <2>3, <2>4, <2>5 DEF IdsInRange
  <2>7. QED BY <2>2, <2>6
<1>2. ASSUME NEW c \in Conn, Reject(c) PROVE TypeInv'
  <2>1. phase[c] # "absent" /\ \A b \in Conn : phase'[b] = "absent" <=> phase[b] = "absent"
    BY <1>2 DEF Reject, TypeOK
  <2>2. TypeOK'
    BY <1>2, <2>1, Released DEF Reject, TypeOK, membership, timers, resume, environment
  <2>3. IdsInRange'
    BY <1>2, <2>1, Released DEF Reject, TypeOK, IdsInRange
  <2>4. QED BY <2>2, <2>3
<1>3. ASSUME NEW c \in Conn, Admit(c) \/ AdmitThrows(c) PROVE TypeInv'
  <2>1. /\ Registered(c) /\ handled' \in [Conn -> BOOLEAN]
        /\ UNCHANGED <<socket, id, lastId, availableIds, membership, session, timers, resume,
                       serving, environment>>
    <3>1. CASE Admit(c)
      BY <3>1 DEF Admit, TypeOK
    <3>2. CASE AdmitThrows(c)
      BY <3>2 DEF AdmitThrows, TypeOK
    <3>3. QED BY <1>3, <3>1, <3>2
  <2>4. connectionMap' \in [Id -> Conn \cup {None}]
    <3>1. connectionMap' = [connectionMap EXCEPT ![id[c]] = c]
      BY <2>1, LetIn
    <3>2. QED BY <3>1 DEF TypeOK
  <2>5. TypeOK'
    BY <2>1, <2>4, LetIn DEF TypeOK, membership, session, timers, resume, environment
  <2>2. IdsInRange'
    BY <2>1, LetIn DEF TypeOK, IdsInRange
  <2>3. QED BY <2>5, <2>2
<1>4. ASSUME NEW c \in Conn, ClosedUnhandled(c) PROVE TypeInv'
  BY <1>4 DEF ClosedUnhandled, TypeOK, IdsInRange, ids, membership, session, timers, resume, environment
<1>5. ASSUME NEW c \in Conn, Closed(c) PROVE TypeInv'
  <2>1. phase[c] # "absent" /\ \A b \in Conn : phase'[b] = "absent" <=> phase[b] = "absent"
    BY <1>5 DEF Closed, TypeOK
  <2>2. sessionRooms' \in [Conn -> SUBSET Rooms] /\ expiresAt' \in [Conn -> Time]
        /\ timerAt' \in [Conn -> Time] /\ timerFor' \in [Conn -> Conn \cup {None}]
    <3>1. CASE sessionId[c] \in sessions
      <4>1. /\ sessionRooms' = [sessionRooms EXCEPT ![sessionId[c]] = tags[c]]
            /\ expiresAt' = [expiresAt EXCEPT ![sessionId[c]] = now + Disconnection]
            /\ timerAt' = [timerAt EXCEPT ![c] = now + Disconnection + 1]
            /\ timerFor' = [timerFor EXCEPT ![c] = sessionId[c]]
        BY <1>5, <3>1 DEF Closed, Disconnected
      <4>2. now + Disconnection \in Time /\ now + Disconnection + 1 \in Time
        OBVIOUS
      <4>3. QED BY <3>1, <4>1, <4>2 DEF TypeOK
    <3>2. CASE sessionId[c] \notin sessions
      BY <1>5, <3>2 DEF Closed, Disconnected, TypeOK, timers
    <3>3. QED BY <3>1, <3>2
  <2>3. TypeOK'
    BY <1>5, <2>1, <2>2, Released DEF Closed, TypeOK, resume, environment
  <2>4. IdsInRange'
    BY <1>5, <2>1, Released DEF Closed, TypeOK, IdsInRange
  <2>5. QED BY <2>3, <2>4
<1>6. ASSUME NEW c \in Conn, ExpiryTimer(c) PROVE TypeInv'
  BY <1>6 DEF ExpiryTimer, TypeOK, IdsInRange, ids, membership, resume, environment
<1>7. ASSUME NEW c \in Conn, AuthorizeRefuses(c) PROVE TypeInv'
  BY <1>7 DEF AuthorizeRefuses, TypeOK, IdsInRange, ids, membership, session, timers, environment
<1>8. ASSUME NEW c \in Conn, AuthorizeGrants(c) PROVE TypeInv'
  BY <1>8 DEF AuthorizeGrants, Restore, TypeOK, IdsInRange, ids, timers, environment
<1>9. ASSUME NEW c \in Conn, NEW r \in Rooms, TagReplace(c, r) \/ Join(c, r) \/ Leave(c, r)
      PROVE TypeInv'
  <2>1. tags' \in [Conn -> SUBSET Rooms] /\ tagsInv' \in [Rooms -> SUBSET Conn]
    <3>1. CASE TagReplace(c, r)
      BY <3>1 DEF TagReplace, TypeOK
    <3>2. CASE Join(c, r)
      BY <3>2 DEF Join, TypeOK
    <3>3. CASE Leave(c, r)
      BY <3>3 DEF Leave, TypeOK
    <3>4. QED BY <1>9, <3>1, <3>2, <3>3
  <2>2. held' \in [Conn -> SUBSET Rooms]
    BY <1>9, <2>1 DEF TagReplace, Join, Leave, Remember, TypeOK
  <2>3. UNCHANGED <<phase, socket, handshake, ids, session, timers, resume, serving, environment>>
    BY <1>9 DEF TagReplace, Join, Leave
  <2>4. QED
    BY <2>1, <2>2, <2>3 DEF TypeOK, IdsInRange, ids, session, timers, resume, environment
<1>10. ASSUME NEW c \in Conn, NEW s \in Conn, ResumeRefused(c, s) PROVE TypeInv'
  BY <1>10 DEF ResumeRefused, TypeOK, IdsInRange, ids, membership, session, timers, environment
<1>11. ASSUME NEW c \in Conn, NEW s \in Conn, ResumeNow(c, s) PROVE TypeInv'
  BY <1>11 DEF ResumeNow, Restore, TypeOK, IdsInRange, ids, timers, environment
<1>12. ASSUME NEW c \in Conn, NEW s \in Conn, ResumeAwaits(c, s) PROVE TypeInv'
  BY <1>12 DEF ResumeAwaits, TypeOK, IdsInRange, ids, membership, session, timers, environment
<1>13. CASE Shutdown
  BY <1>13 DEF Shutdown, TypeOK, IdsInRange, ids, membership, timers, resume, environment
<1>14. CASE Tick
  BY <1>14 DEF Tick, Horizon, TypeOK, IdsInRange, ids, membership, session, timers, resume, LifecycleAssumption
<1>15. CASE UNCHANGED vars
  BY <1>15 DEF vars, TypeOK, IdsInRange, ids, membership, session, timers, resume, environment
<1>16. QED
  BY <1>1, <1>2, <1>3, <1>4, <1>5, <1>6, <1>7, <1>8, <1>9, <1>10, <1>11, <1>12, <1>13,
     <1>14, <1>15, LifecycleAssumption DEF Next, Accept, Authorize, LifecycleAssumption

-----------------------------------------------------------------------------
(* The two indexes of tag membership *)

LEMMA IndexesInitially == ASSUME LifecycleAssumption, Init PROVE TagIndexesAgree
BY DEF Init, TagIndexesAgree

\* Joining the rooms of a session keeps the indexes in agreement.
LEMMA RestoreKeepsIndexes ==
  ASSUME TypeInv, TagIndexesAgree, NEW c \in Conn, NEW s \in Conn, Restore(c, s)
  PROVE  TagIndexesAgree'
BY DEF TypeInv, TypeOK, TagIndexesAgree, Restore

LEMMA IndexesPreserved ==
  ASSUME LifecycleAssumption, TypeInv, TagIndexesAgree, [Next]_vars
  PROVE  TagIndexesAgree'
<1> USE DEF TypeInv
<1>1. ASSUME UNCHANGED <<tags, tagsInv>> PROVE TagIndexesAgree'
  BY <1>1 DEF TagIndexesAgree
<1>2. ASSUME NEW c \in Conn, Accept(c) \/ ClosedUnhandled(c) \/ ExpiryTimer(c) \/ AuthorizeRefuses(c)
      PROVE TagIndexesAgree'
  BY <1>1, <1>2 DEF Accept, Connect, Reject, Admit, AdmitThrows, ClosedUnhandled, ExpiryTimer,
     AuthorizeRefuses, membership
<1>3. ASSUME NEW c \in Conn, Closed(c) PROVE TagIndexesAgree'
  BY <1>3 DEF Closed, TypeOK, TagIndexesAgree
<1>4. ASSUME NEW c \in Conn, NEW r \in Rooms, TagReplace(c, r) PROVE TagIndexesAgree'
  BY <1>4 DEF TagReplace, TypeOK, TagIndexesAgree
<1>5. ASSUME NEW c \in Conn, NEW r \in Rooms, Join(c, r) PROVE TagIndexesAgree'
  BY <1>5 DEF Join, TypeOK, TagIndexesAgree
<1>6. ASSUME NEW c \in Conn, NEW r \in Rooms, Leave(c, r) PROVE TagIndexesAgree'
  BY <1>6 DEF Leave, TypeOK, TagIndexesAgree
<1>7. ASSUME NEW c \in Conn, AuthorizeGrants(c) PROVE TagIndexesAgree'
  <2>1. authorizing[c] \in Conn /\ Restore(c, authorizing[c])
    BY <1>7 DEF AuthorizeGrants, TypeOK
  <2>2. QED BY <2>1, RestoreKeepsIndexes
<1>8. ASSUME NEW c \in Conn, NEW s \in Conn, ResumeNow(c, s) PROVE TagIndexesAgree'
  BY <1>8, RestoreKeepsIndexes DEF ResumeNow
<1>9. ASSUME NEW c \in Conn, NEW s \in Conn, ResumeRefused(c, s) \/ ResumeAwaits(c, s)
      PROVE TagIndexesAgree'
  BY <1>1, <1>9 DEF ResumeRefused, ResumeAwaits, membership
<1>10. CASE Shutdown \/ Tick \/ UNCHANGED vars
  BY <1>1, <1>10 DEF Shutdown, Tick, vars, membership
<1>11. QED
  BY <1>2, <1>3, <1>4, <1>5, <1>6, <1>7, <1>8, <1>9, <1>10, LifecycleAssumption
  DEF Next, Authorize, LifecycleAssumption

-----------------------------------------------------------------------------
(* Which connection can have which session *)

LEMMA OriginsInitially == ASSUME LifecycleAssumption, Init PROVE Origins
BY DEF LifecycleAssumption, Init, Origins, Conn, Connected

\* A session whose id has reached a client stays one.
LEMMA KnownStays ==
  ASSUME TypeInv, Origins, [Next]_vars, NEW s \in Conn, Known(s)
  PROVE  Known(s)'
<1> USE DEF TypeInv, TypeOK, Known, handshake
<1>1. ASSUME UNCHANGED reached PROVE Known(s)'
  BY <1>1
<1>2. ASSUME NEW c \in Conn, Accept(c) PROVE Known(s)'
  <2>1. CASE Admit(c) \/ AdmitThrows(c)
    <3>1. Registered(c) /\ s # c
      BY <2>1, LetIn DEF Admit, AdmitThrows, Origins
    <3>2. QED BY <3>1, LetIn
  <2>2. CASE Connect(c) \/ Reject(c)
    BY <1>1, <2>2 DEF Connect, Reject
  <2>3. QED BY <1>2, <2>1, <2>2 DEF Accept
<1>3. ASSUME NEW c \in Conn, ClosedUnhandled(c) \/ Closed(c) PROVE Known(s)'
  BY <1>3 DEF ClosedUnhandled, Closed
<1>4. ASSUME NEW c \in Conn, ExpiryTimer(c) \/ Authorize(c) PROVE Known(s)'
  BY <1>1, <1>4 DEF ExpiryTimer, Authorize, AuthorizeRefuses, AuthorizeGrants
<1>5. ASSUME NEW c \in Conn, NEW r \in Rooms, TagReplace(c, r) \/ Join(c, r) \/ Leave(c, r)
      PROVE Known(s)'
  BY <1>1, <1>5 DEF TagReplace, Join, Leave
<1>6. ASSUME NEW c \in Conn, NEW t \in Conn, ResumeRefused(c, t) \/ ResumeNow(c, t) \/ ResumeAwaits(c, t)
      PROVE Known(s)'
  BY <1>1, <1>6 DEF ResumeRefused, ResumeNow, ResumeAwaits
<1>7. CASE Shutdown \/ Tick \/ UNCHANGED vars
  BY <1>1, <1>7 DEF Shutdown, Tick, vars
<1>8. QED
  BY <1>2, <1>3, <1>4, <1>5, <1>6, <1>7, LifecycleAssumption DEF Next, LifecycleAssumption

\* A connection that takes over a session known to a client keeps the relation.
LEMMA RestoreKeepsOrigins ==
  ASSUME LifecycleAssumption, TypeInv, Origins, [Next]_vars,
         NEW c \in Conn, NEW s \in Conn, Known(c), Known(s), Restore(c, s),
         UNCHANGED <<phase, socket, handshake, delays>>,
         \A b \in Conn : authorizing'[b] \in {None, authorizing[b]}
  PROVE  Origins'
<1> USE DEF TypeInv, TypeOK, Connected
<1>1. \A b \in Conn : b # c => sessionId'[b] = sessionId[b]
  BY DEF Restore
<1>2. sessionId'[c] = s /\ phase[s] \in {"connected", "removed"}
      /\ phase[c] \in {"connected", "removed"}
  BY DEF Restore, Known, Origins
<1>3. \A t \in Conn : Known(t) => Known(t)'
  BY KnownStays
<1>4. \A t \in sessions' : t \in sessions \/ t = s
  BY DEF Restore
<1>5. \A t \in Conn : t # s => expiresAt'[t] = expiresAt[t]
  BY DEF Restore
<1>6. UNCHANGED held
  BY DEF Restore
<1>7. s # None
  BY DEF LifecycleAssumption, Conn
<1>8. (\A b \in Conn : sessionId[b] \in {None, b} \/ Known(sessionId[b]))'
  <2> SUFFICES ASSUME NEW b \in Conn PROVE (sessionId[b] \in {None, b} \/ Known(sessionId[b]))'
    OBVIOUS
  <2>1. CASE b = c
    BY <2>1, <1>2, <1>3
  <2>2. CASE b # c /\ sessionId[b] \in {None, b}
    BY <2>2, <1>1
  <2>3. CASE b # c /\ sessionId[b] \in Conn /\ Known(sessionId[b])
    BY <2>3, <1>1, <1>3 DEF Known
  <2>4. QED BY <2>1, <2>2, <2>3 DEF Origins
<1>9. QED
  BY <1>1, <1>2, <1>3, <1>4, <1>5, <1>6, <1>7, <1>8 DEF Origins, handshake

\* A step that gives no connection another session, and holds and deadlines only
\* change for sessions that a client knows.
LEMMA SameSessionsKeepOrigins ==
  ASSUME LifecycleAssumption, TypeInv, Origins, [Next]_vars,
         UNCHANGED <<phase, socket, handshake, sessionId, delays>>,
         sessions' \subseteq sessions,
         \A b \in Conn : authorizing'[b] \in {None, authorizing[b]}
                         \/ ("authorize" \in delays /\ Known(b) /\ Known(authorizing'[b])
                             /\ authorizing'[b] \in Conn),
         \A t \in Conn : phase[t] \in {"absent", "accepting"} =>
                           expiresAt'[t] = expiresAt[t] /\ held'[t] = held[t]
  PROVE  Origins'
<1>1. \A t \in Conn : Known(t) => Known(t)'
  BY KnownStays
<1>2. QED
  BY <1>1 DEF Origins, TypeInv, TypeOK, Connected, Known, handshake

LEMMA OriginsPreserved ==
  ASSUME LifecycleAssumption, TypeInv, Origins, [Next]_vars
  PROVE  Origins'
<1> USE DEF TypeInv, TypeOK, Connected, handshake
<1>1. \A t \in Conn : Known(t) => Known(t)'
  BY KnownStays
<1>2. ASSUME NEW c \in Conn, Connect(c) PROVE Origins'
  BY SMTT(40), <1>1, <1>2 DEF Connect, Origins, Known, membership, resume, environment, LifecycleAssumption, Conn
<1>3. ASSUME NEW c \in Conn, Reject(c) PROVE Origins'
  BY <1>1, <1>3 DEF Reject, Origins, Known, membership, resume, environment
<1>4. ASSUME NEW c \in Conn, Admit(c) \/ AdmitThrows(c) PROVE Origins'
  <2>1. Registered(c) /\ UNCHANGED <<socket, membership, session, resume, environment>>
    BY <1>4 DEF Admit, AdmitThrows
  <2>2. /\ phase[c] = "accepting" /\ phase'[c] = "connected"
        /\ \A b \in Conn : b # c => phase'[b] = phase[b] /\ (reached'[b] <=> reached[b])
        /\ reached'[c] <=> socket[c] = "open"
    BY <2>1, LetIn
  <2>3. ~Known(c)
    BY <2>2 DEF Known, Origins
  <2>4. /\ (\A b \in Conn : b # c => (Known(b)' <=> Known(b)))
        /\ (\A b \in Conn : phase'[b] \in {"absent", "accepting", "rejected"} =>
              b # c /\ phase'[b] = phase[b])
        /\ (\A b \in Conn : phase[b] = "absent" => phase'[b] = "absent")
    BY <2>2 DEF Known
  <2>5. (/\ \A b \in Conn : phase[b] = "absent" \/ socket[b] # "none"
         /\ \A b \in Conn : reached[b] => phase[b] \in {"connected", "removed"}
         /\ \A b \in Conn : Connected(b) /\ socket[b] = "open" => reached[b])'
    BY <2>1, <2>2 DEF Origins
  <2>6. (/\ \A b \in Conn : phase[b] = "absent" <=> sessionId[b] = None
         /\ \A b \in Conn : phase[b] \in {"accepting", "rejected"} => sessionId[b] = b
         /\ \A b \in Conn : sessionId[b] \in {None, b} \/ Known(sessionId[b]))'
    BY <1>1, <2>1, <2>2, <2>4 DEF Origins, session
  <2>7. (/\ \A b \in Conn : authorizing[b] # None =>
              "authorize" \in delays /\ Known(b) /\ Known(authorizing[b])
         /\ \A t \in sessions : phase[t] \notin {"absent", "rejected"}
         /\ \A t \in Conn : phase[t] \in {"absent", "accepting"} =>
              expiresAt[t] = Infinity /\ held[t] = {})'
    BY <1>1, <2>1, <2>4 DEF Origins, membership, session, resume, environment, Infinity
  <2>8. QED BY <2>5, <2>6, <2>7 DEF Origins
<1>5. ASSUME NEW c \in Conn, ClosedUnhandled(c) PROVE Origins'
  BY <1>1, <1>5 DEF ClosedUnhandled, Origins, Known, membership, session, resume, environment
<1>6. ASSUME NEW c \in Conn, Closed(c) PROVE Origins'
  BY <1>1, <1>6 DEF Closed, Disconnected, Origins, Known, resume, environment
<1>7. ASSUME NEW c \in Conn, ExpiryTimer(c) PROVE Origins'
  BY <1>7, SameSessionsKeepOrigins DEF ExpiryTimer, membership, resume, environment
<1>8. ASSUME NEW c \in Conn, AuthorizeRefuses(c) PROVE Origins'
  BY <1>8, SameSessionsKeepOrigins DEF AuthorizeRefuses, membership, session, environment
<1>9. ASSUME NEW c \in Conn, AuthorizeGrants(c) PROVE Origins'
  <2>1. authorizing[c] \in Conn /\ Known(c) /\ Known(authorizing[c])
    BY <1>9 DEF AuthorizeGrants, Origins
  <2>2. QED
    BY <1>9, <2>1, RestoreKeepsOrigins DEF AuthorizeGrants, environment
<1>10. ASSUME NEW c \in Conn, NEW r \in Rooms, TagReplace(c, r) \/ Join(c, r) \/ Leave(c, r)
       PROVE Origins'
  <2>1. UNCHANGED <<phase, socket, handshake, session, resume, environment>> /\ Remember(c)
    BY <1>10 DEF TagReplace, Join, Leave
  <2>2. \A t \in Conn : phase[t] \in {"absent", "accepting"} => held'[t] = held[t]
    <3>1. CASE phase[c] = "connected"
      <4>1. phase[sessionId[c]] \in {"connected", "removed"}
        BY <3>1, LifecycleAssumption DEF Origins, Known
      <4>2. held' = [held EXCEPT ![sessionId[c]] = tags'[c]]
        BY <2>1, <3>1 DEF Remember
      <4>3. QED BY <4>1, <4>2
    <3>2. CASE phase[c] # "connected"
      BY <2>1, <3>2 DEF Remember
    <3>3. QED BY <3>1, <3>2
  <2>3. QED
    BY <2>1, <2>2, SameSessionsKeepOrigins DEF session, resume, environment
<1>11. ASSUME NEW c \in Conn, NEW s \in Conn, ResumeRefused(c, s) PROVE Origins'
  BY <1>11, SameSessionsKeepOrigins DEF ResumeRefused, membership, session, environment
<1>12. ASSUME NEW c \in Conn, NEW s \in Conn, ResumeNow(c, s) PROVE Origins'
  <2>1. Restore(c, s) /\ UNCHANGED <<phase, socket, handshake, authorizing, environment>>
    BY <1>12 DEF ResumeNow
  <2>2. Known(c) /\ Known(s)
    BY <1>12 DEF ResumeNow, MayAsk, Known, Origins
  <2>3. QED
    BY <2>1, <2>2, RestoreKeepsOrigins DEF environment
<1>13. ASSUME NEW c \in Conn, NEW s \in Conn, ResumeAwaits(c, s) PROVE Origins'
  <2>1. "authorize" \in delays /\ Known(c) /\ Known(s)
    BY <1>13 DEF ResumeAwaits, MayAsk, Known, Origins
  <2>2. QED
    BY <1>13, <2>1, SameSessionsKeepOrigins DEF ResumeAwaits, membership, session, environment
<1>14. CASE Shutdown
  BY <1>14, SameSessionsKeepOrigins DEF Shutdown, membership, resume, environment
<1>15. CASE Tick \/ UNCHANGED vars
  BY <1>15, SameSessionsKeepOrigins DEF Tick, vars, membership, session, resume, environment
<1>16. QED
  BY <1>2, <1>3, <1>4, <1>5, <1>6, <1>7, <1>8, <1>9, <1>10, <1>11, <1>12, <1>13, <1>14, <1>15,
     LifecycleAssumption DEF Next, Accept, Authorize, LifecycleAssumption

-----------------------------------------------------------------------------
(* One owner for each session *)

\* The schedule of a behaviour is chosen once.
LEMMA DelaysStay == ASSUME [Next]_vars PROVE delays' = delays
BY DEF Next, Accept, Authorize, Connect, Reject, Admit, AdmitThrows, ClosedUnhandled, Closed, ExpiryTimer,
   AuthorizeRefuses, AuthorizeGrants, TagReplace, Join, Leave, ResumeRefused, ResumeNow,
   ResumeAwaits, Shutdown, Tick, vars, environment

LEMMA HandlersInitially == ASSUME LifecycleAssumption, Init PROVE HandlerKept /\ NoneMissed
BY DEF Init, HandlerKept, NoneMissed, Connected, Alive

\* A step that lets no connection in, and changes no handler and no session of one
\* that is.
LEMMA SameHandlers ==
  ASSUME HandlerKept, Prompt' = Prompt,
         \A b \in Conn : Connected(b)' =>
           /\ Connected(b) /\ (handled[b] => handled'[b])
           /\ socket'[b] # "open" => /\ socket[b] # "open"
                                     /\ sessionId'[b] = sessionId[b]
                                     /\ reached'[b] => reached[b]
  PROVE  HandlerKept'
BY DEF HandlerKept

LEMMA HandlersPreserved ==
  ASSUME LifecycleAssumption, TypeInv, Origins, HandlerKept, [Next]_vars
  PROVE  HandlerKept'
<1> USE DEF TypeInv, TypeOK, Connected, handshake
<1>1. Prompt' = Prompt
  BY DelaysStay DEF Prompt
<1>2. CASE ~Prompt
  BY <1>1, <1>2 DEF HandlerKept
<1> SUFFICES ASSUME Prompt PROVE HandlerKept'
  BY <1>2
<1>3. ASSUME UNCHANGED <<phase, socket, handshake, sessionId>> PROVE HandlerKept'
  BY <1>1, <1>3, SameHandlers
<1>4. ASSUME NEW c \in Conn, Connect(c) PROVE HandlerKept'
  BY <1>1, <1>4, SameHandlers DEF Connect
<1>5. ASSUME NEW c \in Conn, Reject(c) PROVE HandlerKept'
  BY <1>1, <1>5, SameHandlers DEF Reject
<1>6. ASSUME NEW c \in Conn, Admit(c) PROVE HandlerKept'
  <2>1. /\ \A b \in Conn : b # c => phase'[b] = phase[b] /\ (reached'[b] => reached[b])
        /\ \A b \in Conn : handled[b] => handled'[b]
        /\ handled'[c] /\ (socket[c] # "open" => ~reached'[c]) /\ sessionId[c] = c
        /\ UNCHANGED <<socket, sessionId>>
    <3>1. Registered(c) /\ handled' = [handled EXCEPT ![c] = TRUE] /\ UNCHANGED <<socket, session>>
      BY <1>6 DEF Admit
    <3>2. handled'[c] /\ \A b \in Conn : b # c => handled'[b] = handled[b]
      BY Zenon, <3>1
    <3>3. QED BY <3>1, <3>2, LetIn DEF Origins, session
  <2>2. QED BY <1>1, <2>1 DEF HandlerKept
<1>7. ASSUME NEW c \in Conn, AdmitThrows(c) PROVE HandlerKept'
  BY <1>7 DEF AdmitThrows, Prompt
<1>8. ASSUME NEW c \in Conn, ClosedUnhandled(c) PROVE HandlerKept'
  <2>1. ~Connected(c)
    BY <1>8 DEF ClosedUnhandled, HandlerKept
  <2>2. /\ \A b \in Conn : b # c => socket'[b] = socket[b]
        /\ UNCHANGED <<phase, handshake, sessionId>>
    BY <1>8 DEF ClosedUnhandled, session
  <2>3. QED BY <1>1, <2>1, <2>2 DEF HandlerKept
<1>9. ASSUME NEW c \in Conn, Closed(c) PROVE HandlerKept'
  BY <1>1, <1>9, SameHandlers DEF Closed
<1>10. ASSUME NEW c \in Conn, ExpiryTimer(c) \/ AuthorizeRefuses(c) PROVE HandlerKept'
  BY <1>3, <1>10 DEF ExpiryTimer, AuthorizeRefuses, session
<1>11. ASSUME NEW c \in Conn, AuthorizeGrants(c) PROVE HandlerKept'
  BY <1>11 DEF AuthorizeGrants, Origins, Prompt
<1>12. ASSUME NEW c \in Conn, NEW r \in Rooms, TagReplace(c, r) \/ Join(c, r) \/ Leave(c, r)
       PROVE HandlerKept'
  BY <1>3, <1>12 DEF TagReplace, Join, Leave, session
<1>13. ASSUME NEW c \in Conn, NEW s \in Conn, ResumeRefused(c, s) \/ ResumeAwaits(c, s)
       PROVE HandlerKept'
  BY <1>3, <1>13 DEF ResumeRefused, ResumeAwaits, session
<1>14. ASSUME NEW c \in Conn, NEW s \in Conn, ResumeNow(c, s) PROVE HandlerKept'
  BY <1>1, <1>14, SameHandlers DEF ResumeNow, MayAsk, Restore
<1>15. CASE Shutdown \/ Tick \/ UNCHANGED vars
  BY <1>3, <1>15 DEF Shutdown, Tick, vars, session
<1>16. QED
  BY <1>4, <1>5, <1>6, <1>7, <1>8, <1>9, <1>10, <1>11, <1>12, <1>13, <1>14, <1>15,
     LifecycleAssumption DEF Next, Accept, Authorize, LifecycleAssumption

\* Where neither middleware takes its time nor a listener throws, a connection that
\* uses a session is open, and admitted with its handler.
LEMMA NoneMissedPreserved ==
  ASSUME LifecycleAssumption, TypeInv, NoneMissed, [Next]_vars
  PROVE  NoneMissed'
<1> USE DEF TypeInv, TypeOK, Connected, handshake, Alive, Watched
<1>1. delays' = delays
  BY DelaysStay
<1>2. CASE delays \cap {"connect", "throwing"} # {}
  BY <1>1, <1>2 DEF NoneMissed
<1> SUFFICES ASSUME delays \cap {"connect", "throwing"} = {} PROVE NoneMissed'
  BY <1>2
<1>3. ASSUME UNCHANGED <<phase, socket, handshake>> PROVE NoneMissed'
  BY <1>1, <1>3 DEF NoneMissed
<1>4. ASSUME NEW c \in Conn, Connect(c) \/ Reject(c) PROVE NoneMissed'
  BY <1>1, <1>4 DEF Connect, Reject, NoneMissed
<1>5. ASSUME NEW c \in Conn, Admit(c) PROVE NoneMissed'
  BY <1>1, <1>5 DEF Admit, Registered, NoneMissed
<1>6. ASSUME NEW c \in Conn, AdmitThrows(c) PROVE NoneMissed'
  BY <1>6 DEF AdmitThrows
<1>7. ASSUME NEW c \in Conn, ClosedUnhandled(c) PROVE NoneMissed'
  <2>1. ~Alive(c)
    BY <1>7 DEF ClosedUnhandled, NoneMissed
  <2>2. QED BY <1>1, <1>7, <2>1 DEF ClosedUnhandled, NoneMissed
<1>8. ASSUME NEW c \in Conn, Closed(c) PROVE NoneMissed'
  BY <1>1, <1>8 DEF Closed, NoneMissed
<1>9. ASSUME NEW c \in Conn, ExpiryTimer(c) \/ Authorize(c) PROVE NoneMissed'
  BY <1>3, <1>9 DEF ExpiryTimer, Authorize, AuthorizeRefuses, AuthorizeGrants
<1>10. ASSUME NEW c \in Conn, NEW r \in Rooms, TagReplace(c, r) \/ Join(c, r) \/ Leave(c, r)
       PROVE NoneMissed'
  BY <1>3, <1>10 DEF TagReplace, Join, Leave
<1>11. ASSUME NEW c \in Conn, NEW s \in Conn,
              ResumeRefused(c, s) \/ ResumeNow(c, s) \/ ResumeAwaits(c, s)
       PROVE NoneMissed'
  BY <1>3, <1>11 DEF ResumeRefused, ResumeNow, ResumeAwaits
<1>12. CASE Shutdown \/ Tick \/ UNCHANGED vars
  BY <1>3, <1>12 DEF Shutdown, Tick, vars
<1>13. QED
  BY <1>4, <1>5, <1>6, <1>7, <1>8, <1>9, <1>10, <1>11, <1>12, LifecycleAssumption
  DEF Next, Accept, LifecycleAssumption

LEMMA OwnersInitially == ASSUME LifecycleAssumption, Init PROVE OneOwner /\ OwnerKeeps /\ RoomsKept
BY DEF Init, OneOwner, OwnerKeeps, RoomsKept, Alive, Connected

\* No connection that uses a session is still there when another resumes it.
LEMMA ResumedIsFree ==
  ASSUME LifecycleAssumption, TypeInv, Origins, HandlerKept, Prompt,
         NEW c \in Conn, NEW s \in Conn, MayAsk(c, s),
         NEW b \in Conn, Alive(b), sessionId[b] = s
  PROVE  FALSE
<1>1. ~Owned(s) /\ Known(s)
  BY DEF Prompt, MayAsk
<1>2. socket[b] # "open"
  BY <1>1 DEF Owned
<1>3. b = s
  BY <1>2 DEF Alive, Origins, HandlerKept, Connected
<1>4. QED BY <1>1, <1>2, <1>3 DEF Alive, Known, Origins, HandlerKept, Connected

\* What a prompt resume leaves the sessions in.
LEMMA RestorePreservesOwners ==
  ASSUME LifecycleAssumption, TypeInv, Origins, HandlerKept, OneOwner, OwnerKeeps, Prompt,
         NEW c \in Conn, NEW s \in Conn, MayAsk(c, s), Restore(c, s),
         UNCHANGED <<phase, socket, serving, environment>>
  PROVE  OneOwner' /\ OwnerKeeps'
<1> USE DEF TypeInv, TypeOK, Alive, environment
<1>1. \A b \in Conn : Alive(b) => sessionId[b] # s
  BY ResumedIsFree
<1>2. /\ \A b \in Conn : Alive(b)' <=> Alive(b)
      /\ \A b \in Conn : sessionId'[b] = IF b = c THEN s ELSE sessionId[b]
      /\ sessions' = (sessions \ {sessionId[c]}) \cup {s}
      /\ \A t \in Conn : expiresAt'[t] = IF t = s THEN Infinity ELSE expiresAt[t]
      /\ Infinity' = Infinity /\ Prompt' = Prompt /\ Alive(c)
  BY DEF Restore, MayAsk, Infinity, Prompt
<1>3. OneOwner'
  BY <1>1, <1>2 DEF OneOwner
<1>4. \A b \in Conn : Alive(b) /\ b # c => sessionId[b] # sessionId[c]
  BY <1>2 DEF OneOwner
<1>5. OwnerKeeps'
  <2> SUFFICES ASSUME serving', NEW b \in Conn, Alive(b)'
               PROVE  sessionId'[b] \in sessions' /\ expiresAt'[sessionId'[b]] = Infinity
    BY <1>2 DEF OwnerKeeps
  <2>1. CASE b = c
    BY <2>1, <1>2
  <2>2. CASE b # c
    <3>1. sessionId[b] \in sessions /\ expiresAt[sessionId[b]] = Infinity
      BY <1>2 DEF OwnerKeeps
    <3>2. QED BY <2>2, <3>1, <1>2, <1>4, <1>1
  <2>3. QED BY <2>1, <2>2
<1>6. QED BY <1>3, <1>5

\* A step that lets no session change hands and takes none from who uses it.
LEMMA SameOwners ==
  ASSUME TypeInv, OneOwner, OwnerKeeps, Prompt' = Prompt, Infinity' = Infinity, serving' => serving,
         \A b \in Conn : Alive(b)' => Alive(b) /\ sessionId'[b] = sessionId[b],
         \A b \in Conn : Prompt /\ serving' /\ Alive(b)' /\ sessionId[b] \in sessions
                         /\ expiresAt[sessionId[b]] = Infinity =>
           sessionId[b] \in sessions' /\ expiresAt'[sessionId[b]] = Infinity
  PROVE  OneOwner' /\ OwnerKeeps'
BY DEF OneOwner, OwnerKeeps

LEMMA OwnersPreserved ==
  ASSUME LifecycleAssumption, TypeInv, Origins, HandlerKept, OneOwner, OwnerKeeps, [Next]_vars
  PROVE  OneOwner' /\ OwnerKeeps'
<1> USE DEF TypeInv, TypeOK
<1>1. Prompt' = Prompt /\ Infinity' = Infinity
  BY DelaysStay DEF Prompt, Infinity
<1>2. ASSUME UNCHANGED <<phase, session, serving>> PROVE OneOwner' /\ OwnerKeeps'
  BY <1>1, <1>2, SameOwners DEF session, Alive
<1>3. ASSUME NEW c \in Conn, Connect(c) PROVE OneOwner' /\ OwnerKeeps'
  <2>1. /\ \A b \in Conn : Alive(b)' => b = c \/ Alive(b)
        /\ \A b \in Conn : Alive(b) => b # c /\ sessionId[b] # c
        /\ \A b \in Conn : sessionId'[b] = IF b = c THEN c ELSE sessionId[b]
        /\ sessions' = sessions \cup {c} /\ expiresAt' = expiresAt /\ expiresAt[c] = Infinity
        /\ serving' = serving
    <3>1. phase[c] = "absent" /\ ~Known(c) /\ c # None
      BY <1>3 DEF Connect, Origins, Known, Conn, LifecycleAssumption
    <3>2. \A b \in Conn : Alive(b) => b # c /\ sessionId[b] # c
      BY <3>1 DEF Alive, Origins
    <3>3. expiresAt[c] = Infinity
      BY <3>1 DEF Origins
    <3>4. /\ phase' = [phase EXCEPT ![c] = "accepting"]
          /\ sessionId' = [sessionId EXCEPT ![c] = c]
          /\ sessions' = sessions \cup {c} /\ expiresAt' = expiresAt /\ serving' = serving
      BY <1>3 DEF Connect
    <3>5. QED BY <3>2, <3>3, <3>4 DEF Alive
  <2>2. OneOwner'
    BY <1>1, <2>1 DEF OneOwner
  <2>3. OwnerKeeps'
    BY <1>1, <2>1 DEF OwnerKeeps
  <2>4. QED BY <2>2, <2>3
<1>4. ASSUME NEW c \in Conn, Reject(c) PROVE OneOwner' /\ OwnerKeeps'
  <2>1. /\ \A b \in Conn : Alive(b)' => Alive(b) /\ sessionId[b] # c /\ b # c
        /\ sessionId' = sessionId /\ sessions' = sessions \ {c} /\ expiresAt' = expiresAt
        /\ serving' = serving
    <3>1. phase[c] = "accepting" /\ ~Known(c) /\ sessionId[c] = c
      BY <1>4 DEF Reject, Origins, Known
    <3>2. \A b \in Conn : Alive(b) /\ b # c => sessionId[b] # c
      BY <3>1 DEF Alive, Origins
    <3>3. QED BY <1>4, <3>2 DEF Reject, Alive
  <2>2. QED BY <1>1, <2>1, SameOwners
<1>5. ASSUME NEW c \in Conn, Admit(c) \/ AdmitThrows(c) PROVE OneOwner' /\ OwnerKeeps'
  <2>1. /\ \A b \in Conn : Alive(b)' => Alive(b)
        /\ UNCHANGED <<session, serving>>
    BY <1>5 DEF Admit, AdmitThrows, Registered, Alive
  <2>2. QED BY <1>1, <2>1, SameOwners DEF session
<1>6. ASSUME NEW c \in Conn, ClosedUnhandled(c) PROVE OneOwner' /\ OwnerKeeps'
  BY <1>2, <1>6 DEF ClosedUnhandled
<1>7. ASSUME NEW c \in Conn, Closed(c) PROVE OneOwner' /\ OwnerKeeps'
  <2>1. \A b \in Conn : Alive(b)' => Alive(b) /\ b # c
    BY <1>7 DEF Closed, Alive
  <2>2. Alive(c) /\ sessionId' = sessionId /\ sessions' = sessions /\ serving' = serving
    BY <1>7 DEF Closed, Alive
  <2>3. \A t \in Conn : t # sessionId[c] => expiresAt'[t] = expiresAt[t]
    BY <1>7 DEF Closed, Disconnected
  <2>4. \A b \in Conn : Prompt /\ Alive(b)' => sessionId[b] # sessionId[c]
    BY <2>1, <2>2 DEF OneOwner
  <2>5. QED BY <1>1, <2>1, <2>2, <2>3, <2>4, SameOwners
<1>8. ASSUME NEW c \in Conn, ExpiryTimer(c) PROVE OneOwner' /\ OwnerKeeps'
  <2>1. /\ \A t \in sessions : expiresAt[t] = Infinity => t \in sessions'
        /\ UNCHANGED <<phase, sessionId, expiresAt, serving>>
    BY <1>8, Deadline DEF ExpiryTimer, Time
  <2>2. QED BY <1>1, <2>1, SameOwners DEF Alive
<1>9. ASSUME NEW c \in Conn, AuthorizeRefuses(c) PROVE OneOwner' /\ OwnerKeeps'
  BY <1>2, <1>9 DEF AuthorizeRefuses
<1>10. ASSUME NEW c \in Conn, AuthorizeGrants(c) PROVE OneOwner' /\ OwnerKeeps'
  <2>1. ~Prompt
    BY <1>10 DEF AuthorizeGrants, Origins, Prompt
  <2>2. QED BY <2>1, <1>1 DEF OneOwner, OwnerKeeps
<1>11. ASSUME NEW c \in Conn, NEW r \in Rooms, TagReplace(c, r) \/ Join(c, r) \/ Leave(c, r)
       PROVE OneOwner' /\ OwnerKeeps'
  BY <1>2, <1>11 DEF TagReplace, Join, Leave
<1>12. ASSUME NEW c \in Conn, NEW s \in Conn, ResumeRefused(c, s) \/ ResumeAwaits(c, s)
       PROVE OneOwner' /\ OwnerKeeps'
  BY <1>2, <1>12 DEF ResumeRefused, ResumeAwaits
<1>13. ASSUME NEW c \in Conn, NEW s \in Conn, ResumeNow(c, s) PROVE OneOwner' /\ OwnerKeeps'
  <2>1. CASE Prompt
    BY <2>1, <1>13, RestorePreservesOwners DEF ResumeNow
  <2>2. CASE ~Prompt
    BY <2>2, <1>1 DEF OneOwner, OwnerKeeps
  <2>3. QED BY <2>1, <2>2
<1>14. CASE Shutdown
  BY <1>1, <1>14, SameOwners DEF Shutdown, Alive
<1>15. CASE Tick \/ UNCHANGED vars
  BY <1>2, <1>15 DEF Tick, vars
<1>16. QED
  BY <1>3, <1>4, <1>5, <1>6, <1>7, <1>8, <1>9, <1>10, <1>11, <1>12, <1>13, <1>14, <1>15,
     LifecycleAssumption DEF Next, Accept, Authorize, LifecycleAssumption

-----------------------------------------------------------------------------
(* The rooms of a client *)

\* A step that changes no rooms, opens no session and makes no connection alive.
LEMMA SameRooms ==
  ASSUME TypeInv, RoomsKept, Prompt' = Prompt,
         UNCHANGED <<tags, held, sessionId, sessionRooms>>, sessions' \subseteq sessions,
         \A t \in sessions' : Known(t)' => Known(t),
         \A b \in Conn : Connected(b)' <=> Connected(b)
  PROVE  RoomsKept'
BY DEF RoomsKept, TypeInv, TypeOK

LEMMA RoomsPreserved ==
  ASSUME LifecycleAssumption, TypeInv, Origins, HandlerKept, OneOwner, RoomsKept, [Next]_vars
  PROVE  RoomsKept'
<1> USE DEF TypeInv, TypeOK, Connected, handshake
<1>1. Prompt' = Prompt
  BY DelaysStay DEF Prompt
<1>2. CASE ~Prompt
  BY <1>1, <1>2 DEF RoomsKept
<1> SUFFICES ASSUME Prompt PROVE RoomsKept'
  BY <1>2
<1>3. ASSUME NEW c \in Conn, Connect(c) PROVE RoomsKept'
  <2>1. /\ \A b \in Conn : Connected(b)' <=> Connected(b)
        /\ \A b \in Conn : Connected(b) => b # c
        /\ \A t \in sessions' : Known(t)' => Known(t) /\ t # c
        /\ \A b \in Conn : b # c => sessionId'[b] = sessionId[b]
        /\ sessions' = sessions \cup {c} /\ UNCHANGED <<tags, held, sessionRooms>>
    BY <1>3 DEF Connect, Known, Origins, membership
  <2>2. QED BY <1>1, <2>1 DEF RoomsKept
<1>4. ASSUME NEW c \in Conn, Reject(c) PROVE RoomsKept'
  BY <1>1, <1>4, SameRooms DEF Reject, Known, membership
<1>5. ASSUME NEW c \in Conn, Admit(c) \/ AdmitThrows(c) PROVE RoomsKept'
  <2>1. /\ \A b \in Conn : Connected(b)' <=> Connected(b) \/ b = c
        /\ \A t \in Conn : Known(t)' => Known(t) \/ t = c
        /\ sessionId[c] = c /\ held[c] = {}
        /\ UNCHANGED <<tags, held, sessionId, sessions, sessionRooms>>
    BY <1>5 DEF Admit, AdmitThrows, Registered, Known, Origins, membership, session
  <2>2. QED BY <1>1, <2>1 DEF RoomsKept
<1>6. ASSUME NEW c \in Conn, ClosedUnhandled(c) PROVE RoomsKept'
  BY <1>1, <1>6, SameRooms DEF ClosedUnhandled, Known, membership, session
<1>7. ASSUME NEW c \in Conn, Closed(c) PROVE RoomsKept'
  <2>1. /\ Alive(c)
        /\ \A b \in Conn : Connected(b)' <=> Connected(b) /\ b # c
        /\ \A b \in Conn : Connected(b) => Alive(b)
        /\ \A b \in Conn : b # c => tags'[b] = tags[b]
        /\ \A t \in Conn : Known(t)' <=> Known(t)
        /\ UNCHANGED <<held, sessionId, sessions>>
    BY <1>7 DEF Closed, Known, Alive
  <2>2. /\ sessionId[c] \in sessions => sessionRooms'[sessionId[c]] = tags[c]
        /\ \A t \in Conn : t # sessionId[c] => sessionRooms'[t] = sessionRooms[t]
    BY <1>7 DEF Closed, Disconnected
  <2>3. held[sessionId[c]] \subseteq tags[c]
    BY <1>7 DEF RoomsKept, Closed
  <2>4. (\A b \in Conn : Connected(b) => held[sessionId[b]] \subseteq tags[b])'
    BY <2>1 DEF RoomsKept
  <2>5. ASSUME NEW t \in sessions', Known(t)', (\A b \in Conn : Connected(b) => sessionId[b] # t)'
        PROVE  (held[t] \subseteq sessionRooms[t])'
    <3>1. CASE t = sessionId[c]
      BY <3>1, <2>1, <2>2, <2>3
    <3>2. CASE t # sessionId[c]
      BY <3>2, <2>1, <2>2, <2>5 DEF RoomsKept
    <3>3. QED BY <3>1, <3>2
  <2>6. QED BY <1>1, <2>4, <2>5 DEF RoomsKept
<1>8. ASSUME NEW c \in Conn, ExpiryTimer(c) PROVE RoomsKept'
  BY <1>1, <1>8, SameRooms DEF ExpiryTimer, Known, membership
<1>9. ASSUME NEW c \in Conn, AuthorizeRefuses(c) PROVE RoomsKept'
  BY <1>1, <1>9, SameRooms DEF AuthorizeRefuses, Known, membership, session
<1>10. ASSUME NEW c \in Conn, AuthorizeGrants(c) PROVE RoomsKept'
  BY <1>10 DEF AuthorizeGrants, Origins, Prompt
<1>11. ASSUME NEW c \in Conn, NEW r \in Rooms, TagReplace(c, r) \/ Join(c, r) \/ Leave(c, r)
       PROVE RoomsKept'
  <2>1. /\ \A b \in Conn : b # c => tags'[b] = tags[b]
        /\ tags' \in [Conn -> SUBSET Rooms]
    <3>1. CASE TagReplace(c, r)
      BY <3>1 DEF TagReplace
    <3>2. CASE Join(c, r)
      BY <3>2 DEF Join
    <3>3. CASE Leave(c, r)
      BY <3>3 DEF Leave
    <3>4. QED BY <1>11, <3>1, <3>2, <3>3
  <2>2. UNCHANGED <<phase, socket, handshake, session, resume, environment>> /\ Remember(c)
    BY <1>11 DEF TagReplace, Join, Leave
  <2>3. CASE phase[c] = "connected"
    <3>1. /\ sessionId[c] \in Conn
          /\ held' = [held EXCEPT ![sessionId[c]] = tags'[c]]
      BY <2>2, <2>3 DEF Remember, Origins
    <3>2. \A b \in Conn : Connected(b) /\ b # c => sessionId[b] # sessionId[c]
      BY <2>3 DEF OneOwner, Alive
    <3>3. (\A b \in Conn : Connected(b) => held[sessionId[b]] \subseteq tags[b])'
      BY <2>1, <2>2, <2>3, <3>1, <3>2 DEF RoomsKept, session
    <3>4. ASSUME NEW t \in sessions', Known(t)', (\A b \in Conn : Connected(b) => sessionId[b] # t)'
          PROVE  (held[t] \subseteq sessionRooms[t])'
      <4>1. t \in sessions /\ Known(t) /\ t # sessionId[c]
        BY <2>2, <2>3, <3>4 DEF Known, session
      <4>2. \A b \in Conn : Connected(b) => sessionId[b] # t
        BY <2>2, <3>4 DEF session
      <4>3. QED BY <2>2, <3>1, <4>1, <4>2 DEF RoomsKept, session
    <3>5. QED BY <1>1, <3>3, <3>4 DEF RoomsKept
  <2>4. CASE phase[c] # "connected"
    BY <1>1, <2>1, <2>2, <2>4 DEF Remember, RoomsKept, Known, session
  <2>5. QED BY <2>3, <2>4
<1>12. ASSUME NEW c \in Conn, NEW s \in Conn, ResumeRefused(c, s) \/ ResumeAwaits(c, s)
       PROVE RoomsKept'
  BY <1>1, <1>12, SameRooms DEF ResumeRefused, ResumeAwaits, Known, membership, session
<1>13. ASSUME NEW c \in Conn, NEW s \in Conn, ResumeNow(c, s) PROVE RoomsKept'
  <2>1. /\ s \in sessions /\ Known(s) /\ Restore(c, s) /\ MayAsk(c, s) /\ Alive(c) /\ Connected(c)
        /\ UNCHANGED <<phase, socket, handshake, held>>
    BY <1>13 DEF ResumeNow, MayAsk, Recoverable, Restore, Alive
  <2>2. \A b \in Conn : Connected(b) => Alive(b) /\ sessionId[b] # s
    BY <2>1, ResumedIsFree DEF Alive
  <2>3. held[s] \subseteq sessionRooms[s]
    BY <2>1, <2>2 DEF RoomsKept
  <2>4. \A b \in Conn : Connected(b) /\ b # c => sessionId[b] # sessionId[c]
    BY <2>1 DEF OneOwner, Alive
  <2>5. /\ \A b \in Conn : sessionId'[b] = IF b = c THEN s ELSE sessionId[b]
        /\ \A b \in Conn : tags'[b] = IF b = c THEN tags[c] \cup sessionRooms[s] ELSE tags[b]
        /\ sessions' = (sessions \ {sessionId[c]}) \cup {s} /\ UNCHANGED sessionRooms
    BY <2>1 DEF Restore
  <2>6. (\A b \in Conn : Connected(b) => held[sessionId[b]] \subseteq tags[b])'
    BY <2>1, <2>3, <2>5 DEF RoomsKept
  <2>7. ASSUME NEW t \in sessions', Known(t)', (\A b \in Conn : Connected(b) => sessionId[b] # t)'
        PROVE  (held[t] \subseteq sessionRooms[t])'
    <3>1. t \in sessions /\ Known(t) /\ t # sessionId[c]
      BY <2>1, <2>5, <2>7 DEF Known
    <3>2. \A b \in Conn : Connected(b) => sessionId[b] # t
      BY <2>1, <2>5, <2>7, <3>1
    <3>3. QED BY <2>1, <2>5, <3>1, <3>2 DEF RoomsKept
  <2>8. QED BY <1>1, <2>6, <2>7 DEF RoomsKept
<1>14. CASE Shutdown
  BY <1>1, <1>14, SameRooms DEF Shutdown, Known, membership
<1>15. CASE Tick \/ UNCHANGED vars
  BY <1>1, <1>15, SameRooms DEF Tick, vars, Known, membership, session
<1>16. QED
  BY <1>3, <1>4, <1>5, <1>6, <1>7, <1>8, <1>9, <1>10, <1>11, <1>12, <1>13, <1>14, <1>15,
     LifecycleAssumption DEF Next, Accept, Authorize, LifecycleAssumption

-----------------------------------------------------------------------------
(* The sessions of clients that are gone *)

\* A session without a deadline has a connection that uses it.
LeakInv ==
  "authorize" \notin delays =>
    \A s \in sessions : expiresAt[s] = Infinity => \E c \in Conn : sessionId[c] = s /\ Alive(c)

LEMMA LeakInitially == ASSUME LifecycleAssumption, Init PROVE LeakInv
BY DEF Init, LeakInv

\* A step that opens no session, extends none and takes none from a connection.
LEMMA SameUsers ==
  ASSUME LeakInv, TypeInv, delays' = delays, Infinity' = Infinity,
         sessions' \subseteq sessions,
         \A t \in sessions' : expiresAt'[t] = Infinity => expiresAt[t] = Infinity,
         \A t \in sessions', b \in Conn :
           Alive(b) /\ sessionId[b] = t /\ expiresAt'[t] = Infinity =>
             Alive(b)' /\ sessionId'[b] = t
  PROVE  LeakInv'
BY DEF LeakInv, Alive

LEMMA LeakPreserved ==
  ASSUME LifecycleAssumption, TypeInv, Origins, LeakInv, [Next]_vars
  PROVE  LeakInv'
<1> USE DEF TypeInv, TypeOK
<1>1. delays' = delays /\ Infinity' = Infinity
  BY DelaysStay DEF Infinity
<1>2. CASE "authorize" \in delays
  BY <1>1, <1>2 DEF LeakInv
<1> SUFFICES ASSUME "authorize" \notin delays PROVE LeakInv'
  BY <1>2
<1>3. ASSUME UNCHANGED <<phase, session>> PROVE LeakInv'
  BY <1>1, <1>3, SameUsers DEF session, Alive
<1>4. ASSUME NEW c \in Conn, Connect(c) PROVE LeakInv'
  <2>1. /\ \A b \in Conn : Alive(b) => Alive(b)' /\ b # c
        /\ \A b \in Conn : sessionId'[b] = IF b = c THEN c ELSE sessionId[b]
        /\ Alive(c)' /\ sessions' = sessions \cup {c} /\ expiresAt' = expiresAt
    BY <1>4 DEF Connect, Alive
  <2>2. ASSUME NEW t \in sessions', expiresAt'[t] = Infinity
        PROVE  \E b \in Conn : sessionId'[b] = t /\ Alive(b)'
    <3>1. CASE t = c
      BY <2>1, <3>1
    <3>2. CASE t # c
      <4>1. PICK b \in Conn : sessionId[b] = t /\ Alive(b)
        BY <2>1, <2>2, <3>2 DEF LeakInv
      <4>2. QED BY <2>1, <4>1
    <3>3. QED BY <3>1, <3>2
  <2>3. QED BY <1>1, <2>2 DEF LeakInv
<1>5. ASSUME NEW c \in Conn, Reject(c) PROVE LeakInv'
  <2>1. /\ \A b \in Conn : Alive(b) => Alive(b)' \/ b = c
        /\ sessionId' = sessionId /\ sessionId[c] = c
        /\ sessions' = sessions \ {c} /\ expiresAt' = expiresAt
    BY <1>5 DEF Reject, Alive, Origins
  <2>2. QED BY <1>1, <2>1, SameUsers
<1>6. ASSUME NEW c \in Conn, Admit(c) \/ AdmitThrows(c) PROVE LeakInv'
  <2>1. (\A b \in Conn : Alive(b) => Alive(b)') /\ UNCHANGED session
    BY <1>6 DEF Admit, AdmitThrows, Registered, Alive
  <2>2. QED BY <1>1, <2>1, SameUsers DEF session
<1>7. ASSUME NEW c \in Conn, Closed(c) PROVE LeakInv'
  <2>1. /\ \A b \in Conn : Alive(b) => Alive(b)' \/ b = c
        /\ UNCHANGED <<sessionId, sessions>>
    BY <1>7 DEF Closed, Alive
  <2>2. /\ sessionId[c] \in sessions => expiresAt'[sessionId[c]] # Infinity
        /\ \A t \in Conn : t # sessionId[c] => expiresAt'[t] = expiresAt[t]
    <3>1. /\ expiresAt \in [Conn -> Time] /\ sessions \subseteq Conn
          /\ now + Disconnection # Infinity
      BY Deadline, LifecycleAssumption DEF LifecycleAssumption, Infinity
    <3>2. CASE sessionId[c] \in sessions
      <4>1. expiresAt' = [expiresAt EXCEPT ![sessionId[c]] = now + Disconnection]
        BY <1>7, <3>2 DEF Closed, Disconnected
      <4>2. QED BY ONLY <3>1, <3>2, <4>1
    <3>3. CASE sessionId[c] \notin sessions
      <4>1. expiresAt' = expiresAt
        BY <1>7, <3>3 DEF Closed, Disconnected
      <4>2. QED BY ONLY <3>3, <4>1
    <3>4. QED BY <3>2, <3>3
  <2>3. QED BY <1>1, <2>1, <2>2, SameUsers
<1>8. ASSUME NEW c \in Conn, ClosedUnhandled(c) \/ AuthorizeRefuses(c) PROVE LeakInv'
  BY <1>3, <1>8 DEF ClosedUnhandled, AuthorizeRefuses
<1>9. ASSUME NEW c \in Conn, ExpiryTimer(c) PROVE LeakInv'
  BY <1>1, <1>9, SameUsers DEF ExpiryTimer, Alive
<1>10. ASSUME NEW c \in Conn, AuthorizeGrants(c) PROVE LeakInv'
  BY <1>10 DEF AuthorizeGrants, Origins
<1>11. ASSUME NEW c \in Conn, NEW r \in Rooms, TagReplace(c, r) \/ Join(c, r) \/ Leave(c, r)
       PROVE LeakInv'
  BY <1>3, <1>11 DEF TagReplace, Join, Leave
<1>12. ASSUME NEW c \in Conn, NEW s \in Conn, ResumeRefused(c, s) \/ ResumeAwaits(c, s)
       PROVE LeakInv'
  BY <1>3, <1>12 DEF ResumeRefused, ResumeAwaits
<1>13. ASSUME NEW c \in Conn, NEW s \in Conn, ResumeNow(c, s) PROVE LeakInv'
  <2>1. /\ \A b \in Conn : Alive(b)' <=> Alive(b)
        /\ Alive(c)
        /\ \A b \in Conn : sessionId'[b] = IF b = c THEN s ELSE sessionId[b]
        /\ sessions' = (sessions \ {sessionId[c]}) \cup {s}
        /\ \A t \in Conn : t # s => expiresAt'[t] = expiresAt[t]
    BY <1>13 DEF ResumeNow, MayAsk, Restore, Alive, Connected
  <2>2. QED BY <1>1, <2>1 DEF LeakInv, Alive
<1>14. CASE Shutdown
  BY <1>1, <1>14, SameUsers DEF Shutdown
<1>15. CASE Tick \/ UNCHANGED vars
  BY <1>3, <1>15 DEF Tick, vars
<1>16. QED
  BY <1>4, <1>5, <1>6, <1>7, <1>8, <1>9, <1>10, <1>11, <1>12, <1>13, <1>14, <1>15,
     LifecycleAssumption DEF Next, Accept, Authorize, LifecycleAssumption

-----------------------------------------------------------------------------
(* The theorems *)

LEMMA Initially == Init => IInv /\ TagIndexesAgree /\ LeakInv
BY LifecycleAssumption, TypesInitially, OriginsInitially, HandlersInitially, OwnersInitially,
   IndexesInitially, LeakInitially DEF IInv

LEMMA Inductive ==
  IInv /\ TagIndexesAgree /\ LeakInv /\ [Next]_vars => (IInv /\ TagIndexesAgree /\ LeakInv)'
BY LifecycleAssumption, TypesPreserved, OriginsPreserved, HandlersPreserved, NoneMissedPreserved,
   OwnersPreserved, RoomsPreserved, IndexesPreserved, LeakPreserved DEF IInv

LEMMA AlwaysInv == Spec => [](IInv /\ TagIndexesAgree /\ LeakInv)
BY Initially, Inductive, PTL DEF Spec

\* Every variable of a server keeps its shape; in particular a released or
\* fresh id is always one of as many ids as there were connections.
THEOREM TypeCorrect == Spec => []TypeOK
<1>1. IInv => TypeOK
  BY DEF IInv, TypeInv
<1>2. QED BY <1>1, AlwaysInv, PTL

\* The tags of a connection and the members of a tag (tag, join, leave, the
\* close handler, resumeSession) never disagree, not even for a connection
\* that the application tags after its close.
THEOREM IndexesAgree == Spec => []TagIndexesAgree
BY AlwaysInv, PTL

\* A session that never expires has a connection whose close handler will end it:
\* acceptance, refusal, closes, expiry timers and immediate resumes
\* (setupConnection, resumeSession) leave no session behind, unless a policy takes
\* its time, or under the schedules where a close may find no handler, and then
\* only with the connection whose close it was.
THEOREM NothingLeaks == Spec => []NoSessionLeak
<1>1. IInv /\ LeakInv => NoSessionLeak
  <2>1. \A c \in Conn : TypeInv /\ Alive(c) /\ ~Watched(c) /\ Origins => Missed(c)
    BY DEF TypeInv, TypeOK, Alive, Watched, Missed, Connected, Origins
  <2>2. QED BY <2>1 DEF IInv, NoneMissed, LeakInv, NoSessionLeak
<1>2. QED BY <1>1, AlwaysInv, PTL

\* While policies and the notice of losses are prompt and no listener throws, a
\* connected socket has its session, unexpired, however many timers closes have left armed.
THEOREM SessionsLive == Spec => []LiveSessionKept
<1>1. IInv => LiveSessionKept
  BY DEF IInv, OwnerKeeps, LiveSessionKept, Prompt, Alive, Connected
<1>2. QED BY <1>1, AlwaysInv, PTL

\* Under the same schedules a connection that takes over a session joins every
\* room the session's client was in.
THEOREM ResumeRestoresRooms == Spec => RoomsRestored
<1>1. IInv /\ [Next]_vars =>
        [\A c \in Conn :
           LET s == sessionId'[c]
           IN delays \cap {"authorize", "loss", "throwing"} = {}
              /\ sessionId[c] # None /\ s # sessionId[c] => held[s] \subseteq tags'[c]]_vars
  <2> SUFFICES ASSUME IInv, Next, NEW c \in Conn, Prompt,
                      sessionId[c] # None, sessionId'[c] # sessionId[c]
               PROVE  held[sessionId'[c]] \subseteq tags'[c]
    BY DEF Prompt
  <2> USE DEF IInv, TypeInv, TypeOK
  <2>1. ASSUME UNCHANGED sessionId PROVE FALSE
    BY <2>1
  <2>2. PICK b \in Conn, t \in Conn : Connect(b) \/ ResumeNow(b, t) \/ (AuthorizeGrants(b) /\ t = authorizing[b])
    <3>1. \A b \in Conn : AuthorizeGrants(b) => authorizing[b] \in Conn
      BY DEF AuthorizeGrants
    <3>2. QED
      BY <2>1, <3>1 DEF Next, Accept, Authorize, Reject, Admit, AdmitThrows, ClosedUnhandled, Closed, ExpiryTimer,
         AuthorizeRefuses, TagReplace, Join, Leave, ResumeRefused, ResumeAwaits, Shutdown, Tick,
         session
  <2>3. CASE Connect(b)
    BY <2>3 DEF Connect, Origins
  <2>4. CASE AuthorizeGrants(b)
    BY <2>4 DEF AuthorizeGrants, Origins, Prompt
  <2>5. CASE ResumeNow(b, t)
    <3>1. /\ MayAsk(b, t) /\ t \in sessions /\ Known(t) /\ Restore(b, t)
          /\ b = c /\ sessionId'[c] = t
      BY <2>5 DEF ResumeNow, MayAsk, Recoverable, Restore
    <3>2. \A d \in Conn : Connected(d) => sessionId[d] # t
      BY <3>1, ResumedIsFree, LifecycleAssumption DEF Connected, Alive
    <3>3. held[t] \subseteq sessionRooms[t]
      BY <3>1, <3>2 DEF RoomsKept
    <3>4. QED BY <3>1, <3>3 DEF Restore
  <2>6. QED BY <2>2, <2>3, <2>4, <2>5
<1>2. QED BY <1>1, AlwaysInv, PTL DEF Spec, RoomsRestored

-----------------------------------------------------------------------------
(* The adapter the server starts and closes *)

SomeFailed == \E c \in Clients : client[c] = "failed"
AnyConnected == \E c \in Clients : client[c] = "connected"

\* A client that is known to have connected has; one that connected and is not
\* known to have done so belongs to a start that failed on the other client.
FlagsInv ==
    \A c \in Clients :
        /\ connectedFlag[c] => client[c] \in {"connected", "ended"}
        /\ client[c] = "connected" => connectedFlag[c] \/ SomeFailed

\* Start() listens when both clients have connected; once it has given up, a
\* client that still connects does so beside a failed one, and what had
\* connected has been ended.
StartInv ==
    /\ startPromise \in {"listening", "started"} =>
         \A c \in Clients : client[c] \in {"connected", "ended"}
    /\ startPromise # "connecting" /\ (\E c \in Clients : client[c] = "connecting") => SomeFailed
    /\ startPromise = "cleanup" /\ AnyConnected => SomeFailed

\* Only PostgreSQL's close() waits for the start, and no start is under way when
\* it goes on; Redis's close() leaves no client that could connect.
CloseInv ==
    /\ closer = "waiting" => adapter = "postgres"
    /\ closer \in {"ending", "done"} =>
         /\ AnyConnected => SomeFailed
         /\ adapter = "postgres" => Settled
         /\ adapter = "redis" => \A c \in Clients : client[c] \in {"failed", "ended"}

AdapterInv == AdapterTypeOK /\ FlagsInv /\ StartInv /\ CloseInv /\ ~late

-----------------------------------------------------------------------------
LEMMA AdapterInitially == AdapterInit => AdapterInv
BY DEF AdapterInit, AdapterInv, AdapterTypeOK, FlagsInv, StartInv, CloseInv, AnyConnected, Clients, Kinds

\* Ending what is flagged leaves nothing connected, unless the start failed.
LEMMA EndsConnected ==
    ASSUME AdapterInv, EndClients
    PROVE  /\ client' \in [Clients -> {"connecting", "connected", "failed", "ended"}]
           /\ SomeFailed => SomeFailed'
           /\ AnyConnected' => SomeFailed'
           /\ \A c \in Clients : client[c] \in {"connected", "ended"} =>
                                    client'[c] \in {"connected", "ended"}
           /\ \A c \in Clients : client'[c] = "connecting" => client[c] = "connecting"
           /\ \A c \in Clients : client[c] = "failed" => client'[c] = "failed"
           /\ \A c \in Clients : connectedFlag[c] => client'[c] = "ended"
BY DEF AdapterInv, AdapterTypeOK, FlagsInv, EndClients, SomeFailed, AnyConnected

LEMMA AdapterPreserved == ASSUME AdapterInv, [AdapterNext]_adapterVars PROVE AdapterInv'
<1> USE DEF AdapterInv, AdapterTypeOK, closed, Settled
<1>1. ASSUME NEW c \in Clients, ConnectSettles(c) PROVE AdapterInv'
    <2>1. /\ SomeFailed => SomeFailed'
          /\ client'[c] \in {"connected", "failed"}
          /\ \A d \in Clients : d # c => client'[d] = client[d] /\ connectedFlag'[d] = connectedFlag[d]
          /\ connectedFlag'[c] = (client'[c] = "connected")
        BY ZenonT(40), <1>1 DEF ConnectSettles, SomeFailed, FlagsInv
    <2>2. FlagsInv'
        BY <2>1 DEF FlagsInv
    <2>3. StartInv' /\ CloseInv'
        BY <1>1, <2>1 DEF ConnectSettles, StartInv, CloseInv, AnyConnected, Kinds
    <2>4. QED BY <1>1, <2>2, <2>3 DEF ConnectSettles
<1>2. ASSUME NEW c \in Clients, Lost(c) PROVE AdapterInv'
    BY <1>2 DEF Lost, FlagsInv, StartInv, CloseInv, SomeFailed, AnyConnected
<1>3. CASE Listen
    BY <1>3 DEF Listen, FlagsInv, StartInv, CloseInv, SomeFailed, AnyConnected, StartRejected
<1>4. CASE Listening
    BY <1>4 DEF Listening, FlagsInv, StartInv, CloseInv, SomeFailed, AnyConnected
<1>5. CASE PostgresStartFails
    <2>1. (\E c \in Clients : client[c] = "connecting") => SomeFailed
        BY <1>5 DEF PostgresStartFails, StartRejected, StartInv, SomeFailed
    <2>2. closer \in {"open", "waiting"}
        BY <1>5 DEF PostgresStartFails, StartRejected, CloseInv
    <2>3. QED
        BY <1>5, <2>1, <2>2, EndsConnected DEF PostgresStartFails, FlagsInv, StartInv, CloseInv, AnyConnected
<1>6. CASE RedisStartFails
    BY <1>6 DEF RedisStartFails, StartRejected, FlagsInv, StartInv, CloseInv, SomeFailed, AnyConnected
<1>7. CASE CleanupEnds
    BY <1>7 DEF CleanupEnds, FlagsInv, StartInv, CloseInv, SomeFailed, AnyConnected
<1>8. CASE ClosePostgres
    BY <1>8 DEF ClosePostgres, FlagsInv, StartInv, CloseInv, SomeFailed, AnyConnected
<1>9. CASE CloseRedis
    <2>1. \A c \in Clients : client'[c] \in {"failed", "ended"}
        BY <1>9 DEF CloseRedis
    <2>2. \A c \in Clients : client[c] \in {"connected", "ended"} => client'[c] \in {"connected", "ended"}
        BY <1>9 DEF CloseRedis
    <2>3. QED
        BY <1>9, <2>1, <2>2 DEF CloseRedis, FlagsInv, StartInv, CloseInv, SomeFailed, AnyConnected
<1>10. CASE CloseClients
    BY <1>10, EndsConnected DEF CloseClients, FlagsInv, StartInv, CloseInv, AnyConnected
<1>11. CASE CloseEnds
    BY <1>11 DEF CloseEnds, FlagsInv, StartInv, CloseInv, SomeFailed, AnyConnected
<1>12. ASSUME NEW m \in Messages, Publish(m) \/ Published(m) PROVE AdapterInv'
    BY <1>12 DEF Publish, Published, FlagsInv, StartInv, CloseInv, SomeFailed, AnyConnected
<1>13. CASE Receive
    BY <1>13 DEF Receive, Subscribed, FlagsInv, StartInv, CloseInv, SomeFailed, AnyConnected, Clients
<1>14. CASE UNCHANGED adapterVars
    BY <1>14 DEF adapterVars, FlagsInv, StartInv, CloseInv, SomeFailed, AnyConnected
<1>15. QED
    BY <1>1, <1>2, <1>3, <1>4, <1>5, <1>6, <1>7, <1>8, <1>9, <1>10, <1>11, <1>12, <1>13, <1>14
    DEF AdapterNext, StartSteps, CloseSteps

LEMMA AdapterInvariance == AdapterSpec => []AdapterInv
BY AdapterInitially, AdapterPreserved, PTL DEF AdapterSpec

-----------------------------------------------------------------------------
\* Every variable of an adapter keeps its shape.
THEOREM AdapterTypeCorrect == AdapterSpec => []AdapterTypeOK
<1>1. AdapterInv => AdapterTypeOK
    BY DEF AdapterInv
<1>2. QED BY <1>1, AdapterInvariance, PTL

\* After close() has completed (RedisAdapter.close, PostgresAdapter.close) no
\* message comes in, and the only client left connected is one whose connect
\* succeeded after the other's had been rejected, however the connects, LISTEN,
\* the cleanup of a failed start and losses of connections interleave with it.
THEOREM CloseEndsClients == AdapterSpec => []ClientsEnded
<1>1. AdapterInv => ClientsEnded
    BY DEF AdapterInv, CloseInv, ClientsEnded, SomeFailed, AnyConnected
<1>2. QED BY <1>1, AdapterInvariance, PTL
=============================================================================
