-------------------------- MODULE PythonRecoveryProofs --------------------------
(***************************************************************************)
(* What holds of the Python runtime's recovery for any number of           *)
(* connections, frames and attempts: its types; the ownership of sessions, *)
(* which the interleavings of handler tasks make delicate; the order of    *)
(* delivery; and that a recovery misses nothing that was retained.         *)
(***************************************************************************)
EXTENDS PythonRecovery, FiniteSetTheorems, SequenceTheorems, TLAPS

USE PythonRecoveryAssumption DEF None, Conns

Sessions == [alive: BOOLEAN, sequence: 0 .. MaxSends, frames: Seq(Frames), expiring: BOOLEAN]
Requests == [session: Conns, last: 0 .. MaxSends]
Messages == [type: {"schema"}, session: Conns]
                \cup [type: {"frame"}, frame: Frames]
                \cup [type: {"resumed"}, recovered: BOOLEAN]

ServerTypes ==
    /\ stage \in [Conns -> Stages]
    /\ open \subseteq Conns
    /\ sessionOf \in [Conns -> Conns \cup {None}]
    /\ session \in [Conns -> Sessions]
    /\ \A s \in Conns : Fits(Len(session[s].frames)) /\ session[s].sequence <= sent
    /\ request \in [Conns -> Seq(Requests)]
    /\ \A c \in Conns : Len(request[c]) <= 1
    /\ todo \in [Conns -> Seq(Frames)]
    /\ sent \in 0 .. MaxSends

ClientTypes ==
    /\ link \in Conns \cup {None}
    /\ phase \in Phases
    /\ attempt \in 0 .. Attempts
    /\ closed \in BOOLEAN
    /\ intentionalClose \in BOOLEAN
    /\ sessionId \in Conns \cup {None}
    /\ pendingResume \in Conns \cup {None}
    /\ last \in 0 .. MaxSends
    /\ inbox \in Seq(Messages)
    /\ delivered \in Seq(Frames)
    /\ odd \subseteq Oddities

TypeInv == ServerTypes /\ ClientTypes

\* The buffer of a session holds its newest frames, numbered without a gap.
BufferInv ==
    \A s \in Conns :
        LET n == Len(session[s].frames)
        IN  /\ n <= session[s].sequence
            /\ \A i \in DOMAIN session[s].frames :
                  session[s].frames[i] =
                      [session |-> s, sequence |-> session[s].sequence - n + i]

\* A connection whose schema handshake went out.
Greeted(c) == c \in Conns /\ stage[c] \notin {"none", "admitting"}

\* Connections are numbered as they are accepted, and nothing is known of the
\* others.
NumberInv ==
    /\ \E n \in 0 .. MaxConns : Accepted = 1 .. n
    /\ \A c \in Conns : stage[c] = "none" <=> c \notin Accepted
    /\ \A c \in Conns \ Accepted :
          c \notin open /\ ~session[c].alive /\ ~session[c].expiring /\ request[c] = <<>>

\* A connection has the session it was created with until it resumes an older
\* one, whose connection got as far as the schema handshake.
TakeoverInv ==
    \A c \in Accepted :
        /\ sessionOf[c] = c \/ (sessionOf[c] < c /\ Greeted(sessionOf[c]))
        /\ stage[c] = "admitting" => sessionOf[c] = c
        /\ stage[c] = "authorizing" => request[c] # <<>>
        /\ request[c] # <<>> =>
              sessionOf[c] = c /\ request[c][1].session < c /\ Greeted(request[c][1].session)

\* What the client knows of sessions: those whose schema it received.  Its link
\* is the newest connection, and during the handshake that one has resumed none.
ClientInv ==
    /\ link # None <=> phase \in {"handshake", "reading"}
    /\ link = None => inbox = <<>>
    /\ link # None => link \in Accepted /\ \A c \in Accepted : c <= link
    /\ sessionId # None => Greeted(sessionId)
    /\ pendingResume # None => Greeted(pendingResume)
    /\ \A i \in DOMAIN inbox :
          inbox[i].type = "schema" => inbox[i].session = link /\ Greeted(link)
    /\ phase = "handshake" => /\ sessionId # link
                              /\ sessionOf[link] = link /\ request[link] = <<>>

IInv == TypeInv /\ BufferInv /\ NumberInv /\ TakeoverInv /\ ClientInv

-----------------------------------------------------------------------------
(* Messages and buffers *)

LEMMA MessageTypes ==
    /\ \A s \in Conns : Schema(s) \in Messages
    /\ \A f \in Frames : Data(f) \in Messages
    /\ \A b \in BOOLEAN : Resumed(b) \in Messages
BY DEF Schema, Data, Resumed, Messages

LEMMA PushTypes ==
    ASSUME TypeInv, NEW c \in Conns, NEW msg \in Messages, Push(c, msg)
    PROVE  inbox' \in Seq(Messages)
<1>1. Append(inbox, msg) \in Seq(Messages)
    BY DEF TypeInv, ClientTypes
<1>2. QED BY <1>1 DEF Push, TypeInv, ClientTypes

\* The first frame beyond a number exists, as a buffer has no gaps.
LEMMA FirstAfterIs ==
    ASSUME NEW frames \in Seq(Frames), NEW q \in Nat, Len(frames) <= q, NEW seen \in Nat,
           \A i \in DOMAIN frames : frames[i].sequence = q - Len(frames) + i
    PROVE  /\ FirstAfter(frames, seen) \in 1 .. Len(frames) + 1
           /\ \A j \in DOMAIN frames :
                 frames[j].sequence > seen <=> j >= FirstAfter(frames, seen)
<1> DEFINE n == Len(frames)
<1>1. n \in Nat /\ DOMAIN frames = 1 .. n
    OBVIOUS
<1>2. \E i \in 1 .. n + 1 : \A j \in DOMAIN frames : frames[j].sequence > seen <=> j >= i
    <2>1. CASE seen <= q - n
        <3>1. \A j \in DOMAIN frames : frames[j].sequence > seen <=> j >= 1
            BY <1>1, <2>1
        <3>2. QED BY <1>1, <3>1
    <2>2. CASE seen >= q
        <3>1. \A j \in DOMAIN frames : frames[j].sequence > seen <=> j >= n + 1
            BY <1>1, <2>2
        <3>2. QED BY <1>1, <3>1
    <2>3. CASE q - n < seen /\ seen < q
        <3>1. /\ seen - (q - n) + 1 \in 1 .. n + 1
              /\ \A j \in DOMAIN frames : frames[j].sequence > seen <=> j >= seen - (q - n) + 1
            BY <1>1, <2>3
        <3>2. QED BY <3>1
    <2>4. seen <= q - n \/ seen >= q \/ (q - n < seen /\ seen < q)
        BY <1>1
    <2>5. QED BY <2>1, <2>2, <2>3, <2>4
<1>3. QED BY <1>2 DEF FirstAfter

\* What is replayed is a suffix of the buffer.
LEMMA MissingTypes ==
    ASSUME TypeInv, BufferInv, NEW s \in Conns, NEW seen \in Nat
    PROVE  Missing(session[s].frames, seen) \in Seq(Frames)
<1>1. PICK frames \in Seq(Frames), q \in Nat :
          frames = session[s].frames /\ q = session[s].sequence
    <2>1. session[s] \in Sessions
        BY DEF TypeInv, ServerTypes
    <2>2. session[s].frames \in Seq(Frames) /\ session[s].sequence \in Nat
        BY <2>1 DEF Sessions
    <2>3. QED BY <2>2
<1>2. Len(frames) <= q /\ \A i \in DOMAIN frames : frames[i].sequence = q - Len(frames) + i
    <2>1. Len(session[s].frames) <= session[s].sequence
        BY DEF BufferInv
    <2>2. ASSUME NEW i \in DOMAIN frames
          PROVE  frames[i].sequence = q - Len(frames) + i
        <3>1. frames[i] = [session |-> s, sequence |-> q - Len(frames) + i]
            BY <1>1 DEF BufferInv
        <3>2. QED BY <3>1
    <2>3. QED BY <1>1, <2>1, <2>2
<1>3. PICK k \in 1 .. Len(frames) + 1 : k = FirstAfter(frames, seen)
    BY <1>2, FirstAfterIs
<1>4. PICK n \in Nat : n = Len(frames)
    OBVIOUS
<1>5. \A i \in k .. n : frames[i] \in Frames
    BY <1>4
<1>6. SubSeq(frames, k, n) \in Seq(Frames)
    BY <1>4, <1>5, SubSeqProperties
<1>7. QED BY <1>1, <1>3, <1>4, <1>6 DEF Missing

LEMMA KeepIs ==
    ASSUME NEW frames \in Seq(Frames), NEW f \in Frames, Fits(Len(frames))
    PROVE  \E d \in {0, 1} :
              /\ d <= Len(frames)
              /\ Keep(Append(frames, f)) \in Seq(Frames)
              /\ Len(Keep(Append(frames, f))) = Len(frames) + 1 - d
              /\ Fits(Len(Keep(Append(frames, f))))
              /\ \A i \in 1 .. Len(frames) + 1 - d :
                    Keep(Append(frames, f))[i] =
                        IF i = Len(frames) + 1 - d THEN f ELSE frames[i + d]
<1>1. PICK all \in Seq(Frames) :
          /\ all = Append(frames, f) /\ Len(all) = Len(frames) + 1
          /\ \A i \in 1 .. Len(frames) + 1 : all[i] = IF i = Len(frames) + 1 THEN f ELSE frames[i]
    <2>1. PICK n \in Nat : n = Len(frames)
        OBVIOUS
    <2>2. /\ Append(frames, f) \in Seq(Frames) /\ Len(Append(frames, f)) = n + 1
          /\ \A i \in 1 .. n : Append(frames, f)[i] = frames[i]
          /\ Append(frames, f)[n + 1] = f
        BY <2>1, AppendProperties
    <2>3. \A i \in 1 .. n + 1 : Append(frames, f)[i] = IF i = n + 1 THEN f ELSE frames[i]
        BY <2>2
    <2>4. QED BY <2>1, <2>2, <2>3
<1>2. PICK n \in Nat : n = Len(frames)
    OBVIOUS
<1>3. PICK d \in {0, 1} : d = IF Fits(n + 1) THEN 0 ELSE n + 1 - MaxPackets
    BY <1>2 DEF Fits
<1>4. PICK kept : kept = SubSeq(all, 1 + d, n + 1)
    OBVIOUS
<1>5. Keep(all) = kept
    <2>1. Len(all) = n + 1
        BY <1>1, <1>2
    <2>2. Len(all) - MaxPackets = n + 1 - MaxPackets
        BY <2>1
    <2>3. QED BY <1>3, <1>4, <2>1, <2>2 DEF Keep
<1>6. /\ kept \in Seq(Frames) /\ Len(kept) = n + 1 - d
      /\ \A i \in 1 .. n + 1 - d : kept[i] = all[i + d]
    <2>1. \A i \in 1 + d .. n + 1 : all[i] \in Frames
        BY <1>1, <1>2
    <2>2. /\ kept \in Seq(Frames)
          /\ Len(kept) = IF 1 + d <= n + 1 THEN n + 1 - (1 + d) + 1 ELSE 0
          /\ \A i \in 1 .. n + 1 - (1 + d) + 1 : kept[i] = all[1 + d + i - 1]
        BY <1>4, <2>1, SubSeqProperties
    <2>3. QED BY <2>2
<1>7. \A i \in 1 .. n + 1 - d : kept[i] = IF i = n + 1 - d THEN f ELSE frames[i + d]
    <2>1. ASSUME NEW i \in 1 .. n + 1 - d
          PROVE  kept[i] = IF i = n + 1 - d THEN f ELSE frames[i + d]
        <3>1. i + d \in 1 .. n + 1 /\ kept[i] = all[i + d]
            BY <1>6
        <3>2. all[i + d] = IF i + d = n + 1 THEN f ELSE frames[i + d]
            BY <1>1, <1>2, <3>1
        <3>3. QED BY <3>1, <3>2
    <2>2. QED BY <2>1
<1>8. d <= n /\ Fits(n + 1 - d)
    BY <1>2, <1>3 DEF Fits
<1>9. QED BY <1>1, <1>2, <1>5, <1>6, <1>7, <1>8


-----------------------------------------------------------------------------
(* The records of the sessions map *)

\* The four ways in which a session's record changes.
Revived(f, c) == [f EXCEPT ![c].alive = TRUE]
Dropped(f, c) == [f EXCEPT ![c].alive = FALSE]
Ending(f, c) == [f EXCEPT ![c].expiring = TRUE]
Lasting(f, c) == [f EXCEPT ![c].expiring = FALSE]

LEMMA RevivedIs ==
    ASSUME NEW f \in [Conns -> Sessions], NEW c \in Conns, NEW g, g = Revived(f, c)
    PROVE  /\ g \in [Conns -> Sessions]
           /\ \A t \in Conns \ {c} : g[t] = f[t]
           /\ g[c].alive /\ g[c].expiring = f[c].expiring
           /\ g[c].sequence = f[c].sequence /\ g[c].frames = f[c].frames
<1>1. f[c] \in Sessions
    OBVIOUS
<1>2. PICK r \in Sessions : r = [f[c] EXCEPT !.alive = TRUE]
    <2>1. [f[c] EXCEPT !.alive = TRUE] \in Sessions
        BY <1>1 DEF Sessions
    <2>2. QED BY <2>1
<1>3. g = [f EXCEPT ![c] = r]
    BY <1>2 DEF Revived
<1>4. /\ r.alive /\ r.expiring = f[c].expiring
      /\ r.sequence = f[c].sequence /\ r.frames = f[c].frames
    BY <1>1, <1>2 DEF Sessions
<1>5. QED BY <1>3, <1>4

LEMMA DroppedIs ==
    ASSUME NEW f \in [Conns -> Sessions], NEW c \in Conns, NEW g, g = Dropped(f, c)
    PROVE  /\ g \in [Conns -> Sessions]
           /\ \A t \in Conns \ {c} : g[t] = f[t]
           /\ ~g[c].alive /\ g[c].expiring = f[c].expiring
           /\ g[c].sequence = f[c].sequence /\ g[c].frames = f[c].frames
<1>1. f[c] \in Sessions
    OBVIOUS
<1>2. PICK r \in Sessions : r = [f[c] EXCEPT !.alive = FALSE]
    <2>1. [f[c] EXCEPT !.alive = FALSE] \in Sessions
        BY <1>1 DEF Sessions
    <2>2. QED BY <2>1
<1>3. g = [f EXCEPT ![c] = r]
    BY <1>2 DEF Dropped
<1>4. /\ ~r.alive /\ r.expiring = f[c].expiring
      /\ r.sequence = f[c].sequence /\ r.frames = f[c].frames
    BY <1>1, <1>2 DEF Sessions
<1>5. QED BY <1>3, <1>4

LEMMA EndingIs ==
    ASSUME NEW f \in [Conns -> Sessions], NEW c \in Conns, NEW g, g = Ending(f, c)
    PROVE  /\ g \in [Conns -> Sessions]
           /\ \A t \in Conns \ {c} : g[t] = f[t]
           /\ g[c].expiring /\ g[c].alive = f[c].alive
           /\ g[c].sequence = f[c].sequence /\ g[c].frames = f[c].frames
<1>1. f[c] \in Sessions
    OBVIOUS
<1>2. PICK r \in Sessions : r = [f[c] EXCEPT !.expiring = TRUE]
    <2>1. [f[c] EXCEPT !.expiring = TRUE] \in Sessions
        BY <1>1 DEF Sessions
    <2>2. QED BY <2>1
<1>3. g = [f EXCEPT ![c] = r]
    BY <1>2 DEF Ending
<1>4. /\ r.expiring /\ r.alive = f[c].alive
      /\ r.sequence = f[c].sequence /\ r.frames = f[c].frames
    BY <1>1, <1>2 DEF Sessions
<1>5. QED BY <1>3, <1>4

LEMMA LastingIs ==
    ASSUME NEW f \in [Conns -> Sessions], NEW c \in Conns, NEW g, g = Lasting(f, c)
    PROVE  /\ g \in [Conns -> Sessions]
           /\ \A t \in Conns \ {c} : g[t] = f[t]
           /\ ~g[c].expiring /\ g[c].alive = f[c].alive
           /\ g[c].sequence = f[c].sequence /\ g[c].frames = f[c].frames
<1>1. f[c] \in Sessions
    OBVIOUS
<1>2. PICK r \in Sessions : r = [f[c] EXCEPT !.expiring = FALSE]
    <2>1. [f[c] EXCEPT !.expiring = FALSE] \in Sessions
        BY <1>1 DEF Sessions
    <2>2. QED BY <2>1
<1>3. g = [f EXCEPT ![c] = r]
    BY <1>2 DEF Lasting
<1>4. /\ ~r.expiring /\ r.alive = f[c].alive
      /\ r.sequence = f[c].sequence /\ r.frames = f[c].frames
    BY <1>1, <1>2 DEF Sessions
<1>5. QED BY <1>3, <1>4

\* Sequence numbers and buffers are only touched by a send.
SameFrames ==
    \A t \in Conns : session'[t].sequence = session[t].sequence /\ session'[t].frames = session[t].frames

\* A resume drops the session the connection had, and revives the other one.
LEMMA TakesIs ==
    ASSUME TypeInv, NEW c \in Conns, NEW s \in Conns, NEW t \in Conns, Takes(c, s),
           t = sessionOf[c], t # s
    PROVE  /\ session' \in [Conns -> Sessions] /\ SameFrames
           /\ \A u \in Conns \ {s, t} : session'[u] = session[u]
           /\ ~session'[t].alive
           /\ session'[s].alive /\ ~session'[s].expiring
<1>1. PICK f \in [Conns -> Sessions] : f = session
    BY DEF TypeInv, ServerTypes
<1>2. PICK g : g = Dropped(f, t)
    OBVIOUS
<1>3. /\ g \in [Conns -> Sessions]
      /\ \A u \in Conns \ {t} : g[u] = f[u]
      /\ ~g[t].alive
      /\ g[t].sequence = f[t].sequence /\ g[t].frames = f[t].frames
    BY SMTT(30), <1>2, DroppedIs
<1>4. PICK h : h = Revived(g, s)
    OBVIOUS
<1>5. /\ h \in [Conns -> Sessions]
      /\ \A u \in Conns \ {s} : h[u] = g[u]
      /\ h[s].alive
      /\ h[s].sequence = g[s].sequence /\ h[s].frames = g[s].frames
    BY <1>3, <1>4, RevivedIs
<1>6. PICK k : k = Lasting(h, s)
    OBVIOUS
<1>7. /\ k \in [Conns -> Sessions]
      /\ \A u \in Conns \ {s} : k[u] = h[u]
      /\ ~k[s].expiring /\ k[s].alive = h[s].alive
      /\ k[s].sequence = h[s].sequence /\ k[s].frames = h[s].frames
    <2>1. h \in [Conns -> Sessions]
        BY <1>5
    <2>2. PICK m \in [Conns -> Sessions] : m = h
        BY <2>1
    <2>3. k = Lasting(m, s)
        BY <1>6, <2>2
    <2>4. /\ k \in [Conns -> Sessions]
          /\ \A u \in Conns \ {s} : k[u] = m[u]
          /\ ~k[s].expiring /\ k[s].alive = m[s].alive
          /\ k[s].sequence = m[s].sequence /\ k[s].frames = m[s].frames
        BY <2>3, LastingIs
    <2>5. QED BY <2>2, <2>4
<1>8. session' = k
    <2>1. session' = [g EXCEPT ![s].alive = TRUE, ![s].expiring = FALSE]
        BY <1>1, <1>2 DEF Takes, Dropped
    <2>2. QED BY <1>4, <1>6, <2>1 DEF Revived, Lasting
<1>9. SameFrames
    BY SMTT(20), <1>1, <1>3, <1>5, <1>7, <1>8 DEF SameFrames
<1>10. QED BY <1>1, <1>3, <1>5, <1>7, <1>8, <1>9

-----------------------------------------------------------------------------
(* What the actions do to the server *)

LEMMA AcceptIs ==
    ASSUME TypeInv, NumberInv, Accept
    PROVE  \E c \in Conns :
              /\ Accepted = 1 .. c - 1 /\ Accepted' = 1 .. c
              /\ stage[c] = "none" /\ stage' = [stage EXCEPT ![c] = "admitting"]
              /\ open' = open \cup {c}
              /\ sessionOf' = [sessionOf EXCEPT ![c] = c]
              /\ session' \in [Conns -> Sessions] /\ SameFrames
              /\ \A t \in Conns \ {c} : session'[t] = session[t]
              /\ session'[c].alive /\ ~session'[c].expiring
              /\ request[c] = <<>>
              /\ link' = c /\ phase' = "handshake"
              /\ UNCHANGED <<request, todo>>
<1>1. PICK n \in 0 .. MaxConns : Accepted = 1 .. n
    BY DEF NumberInv
<1>2. Cardinality(Accepted) = n
    BY <1>1, FS_Interval
<1>3. PICK c \in Conns : c = n + 1 /\ c = Cardinality(Accepted) + 1
    BY <1>2 DEF Accept
<1>4. /\ stage' = [stage EXCEPT ![c] = "admitting"]
      /\ open' = open \cup {c}
      /\ sessionOf' = [sessionOf EXCEPT ![c] = c]
      /\ session' = [session EXCEPT ![c].alive = TRUE]
      /\ link' = c /\ phase' = "handshake"
      /\ UNCHANGED <<request, todo>>
    BY <1>3 DEF Accept
<1>5. c \notin Accepted /\ Accepted = 1 .. c - 1
    BY <1>1, <1>3
<1>6. stage[c] = "none" /\ ~session[c].expiring /\ request[c] = <<>>
    BY <1>5 DEF NumberInv
<1>7. sessionOf' \in [Conns -> Conns \cup {None}] /\ Accepted' = Accepted \cup {c}
    BY <1>4 DEF TypeInv, ServerTypes, Accepted, None, Conns
<1>8. Accepted' = 1 .. c
    BY <1>5, <1>7 DEF Conns
<1>9. /\ session' \in [Conns -> Sessions]
      /\ \A t \in Conns \ {c} : session'[t] = session[t]
      /\ session'[c].alive /\ session'[c].expiring = session[c].expiring
      /\ session'[c].sequence = session[c].sequence /\ session'[c].frames = session[c].frames
    <2>1. session \in [Conns -> Sessions]
        BY DEF TypeInv, ServerTypes
    <2>2. session' = Revived(session, c)
        BY <1>4 DEF Revived
    <2>3. QED BY <2>1, <2>2, RevivedIs
<1>10. SameFrames
    BY <1>9 DEF SameFrames
<1>11. QED BY <1>4, <1>5, <1>6, <1>8, <1>9, <1>10

LEMMA RejectIs ==
    ASSUME TypeInv, NEW c \in Conns, Reject(c)
    PROVE  /\ session' \in [Conns -> Sessions] /\ SameFrames
           /\ \A t \in Conns \ {c} : session'[t] = session[t]
           /\ ~session'[c].alive /\ session'[c].expiring = session[c].expiring
<1>1. session \in [Conns -> Sessions] /\ session' = Dropped(session, c)
    BY DEF TypeInv, ServerTypes, Reject, Dropped
<1>2. /\ session' \in [Conns -> Sessions]
      /\ \A t \in Conns \ {c} : session'[t] = session[t]
      /\ ~session'[c].alive /\ session'[c].expiring = session[c].expiring
      /\ session'[c].sequence = session[c].sequence /\ session'[c].frames = session[c].frames
    BY <1>1, DroppedIs
<1>3. QED BY <1>2 DEF SameFrames

LEMMA ExpireIs ==
    ASSUME TypeInv, NEW s \in Conns, Expire(s)
    PROVE  /\ session' \in [Conns -> Sessions] /\ SameFrames
           /\ \A t \in Conns \ {s} : session'[t] = session[t]
           /\ session[s].expiring
           /\ ~session'[s].alive /\ session'[s].expiring = session[s].expiring
<1>1. session \in [Conns -> Sessions] /\ session' = Dropped(session, s)
    BY DEF TypeInv, ServerTypes, Expire, Dropped
<1>2. /\ session' \in [Conns -> Sessions]
      /\ \A t \in Conns \ {s} : session'[t] = session[t]
      /\ ~session'[s].alive /\ session'[s].expiring = session[s].expiring
      /\ session'[s].sequence = session[s].sequence /\ session'[s].frames = session[s].frames
    BY <1>1, DroppedIs
<1>3. QED BY <1>2 DEF SameFrames, Expire

LEMMA LeavesIs ==
    ASSUME TypeInv, NEW s \in Conns, Leaves(s)
    PROVE  /\ session' \in [Conns -> Sessions] /\ SameFrames
           /\ \A t \in Conns \ {s} : session'[t] = session[t]
           /\ session'[s].alive = session[s].alive
           /\ session'[s].alive => session'[s].expiring
           /\ ~session[s].alive => session' = session
<1>1. session \in [Conns -> Sessions]
    BY DEF TypeInv, ServerTypes
<1>2. CASE session[s].alive
    <2>1. session' = Ending(session, s)
        BY <1>2 DEF Leaves, Ending
    <2>2. /\ session' \in [Conns -> Sessions]
          /\ \A t \in Conns \ {s} : session'[t] = session[t]
          /\ session'[s].expiring /\ session'[s].alive = session[s].alive
          /\ session'[s].sequence = session[s].sequence /\ session'[s].frames = session[s].frames
        BY <1>1, <2>1, EndingIs
    <2>3. QED BY <1>2, <2>2 DEF SameFrames
<1>3. CASE ~session[s].alive
    <2>1. session' = session
        BY <1>3 DEF Leaves
    <2>2. QED BY <1>1, <1>3, <2>1 DEF SameFrames
<1>4. QED BY <1>2, <1>3

\* What a send records and pushes: a numbered frame while the session is there.
LEMMA SendIs ==
    ASSUME TypeInv, NEW c \in Conns, Send(c)
    PROVE  \E s \in Conns, f \in Frames :
              /\ s = sessionOf[c] /\ c \in Accepted
              /\ f = [session |-> s, sequence |-> session[s].sequence + 1]
              /\ session[s].alive =>
                    session' = [session EXCEPT ![s].sequence = f.sequence,
                                               ![s].frames = Keep(Append(@, f))]
              /\ ~session[s].alive => session' = session
              /\ \E msg \in Messages : Push(c, msg) /\ msg.type = "frame"
              /\ sent' = sent + 1 /\ sent' \in 0 .. MaxSends
              /\ odd \subseteq odd' /\ odd' \subseteq Oddities
              /\ "staleOwner" \in odd' => "staleOwner" \in odd
              /\ UNCHANGED <<stage, open, sessionOf, resume, transport, identity, delivered>>
<1>1. PICK s \in Conns : s = sessionOf[c] /\ c \in Accepted
    BY DEF Send, TypeInv, ServerTypes, Accepted
<1>2. session[s] \in Sessions
    BY DEF TypeInv, ServerTypes
<1>3. session[s].sequence \in 0 .. MaxSends /\ session[s].sequence <= sent
    BY <1>2 DEF TypeInv, ServerTypes, Sessions
<1>4. sent' = sent + 1 /\ sent' \in 0 .. MaxSends /\ sent \in 0 .. MaxSends - 1
    BY SMTT(20) DEF Send, TypeInv, ServerTypes
<1>5. session[s].sequence + 1 \in 0 .. MaxSends
    BY <1>3, <1>4
<1>6. PICK f \in Frames : f = [session |-> s, sequence |-> session[s].sequence + 1]
    BY <1>5 DEF Frames
<1>7. \E msg \in Messages : Push(c, msg) /\ msg.type = "frame"
    <2>1. CASE session[s].alive
        <3>1. Push(c, Data(f))
            BY <1>1, <1>6, <2>1 DEF Send
        <3>2. Data(f) \in Messages /\ Data(f).type = "frame"
            BY MessageTypes DEF Data
        <3>3. QED BY <3>1, <3>2
    <2>2. CASE ~session[s].alive
        <3>1. PICK g \in Frames : g = [f EXCEPT !.sequence = 0]
            <4>1. [f EXCEPT !.sequence = 0] \in Frames
                BY DEF Frames
            <4>2. QED BY <4>1
        <3>2. Push(c, Data(g))
            BY <1>1, <1>6, <2>2, <3>1 DEF Send
        <3>3. Data(g) \in Messages /\ Data(g).type = "frame"
            BY MessageTypes DEF Data
        <3>4. QED BY <3>2, <3>3
    <2>3. QED BY <2>1, <2>2
<1>8. /\ session[s].alive =>
            session' = [session EXCEPT ![s].sequence = f.sequence,
                                       ![s].frames = Keep(Append(@, f))]
      /\ ~session[s].alive => session' = session
    BY <1>1, <1>6 DEF Send
<1>9. /\ odd \subseteq odd' /\ odd' \subseteq Oddities
      /\ "staleOwner" \in odd' => "staleOwner" \in odd
    BY DEF Send, TypeInv, ClientTypes, Oddities
<1>10. UNCHANGED <<stage, open, sessionOf, resume, transport, identity, delivered>>
    BY DEF Send
<1>11. QED BY <1>1, <1>4, <1>6, <1>7, <1>8, <1>9, <1>10

\* What an appended frame leaves in the session.
LEMMA RecordIs ==
    ASSUME TypeInv, NEW s \in Conns, NEW f \in Frames, session[s].alive,
           session' = [session EXCEPT ![s].sequence = f.sequence,
                                      ![s].frames = Keep(Append(@, f))]
    PROVE  /\ session' \in [Conns -> Sessions]
           /\ \A t \in Conns \ {s} : session'[t] = session[t]
           /\ session'[s].alive /\ session'[s].expiring = session[s].expiring
           /\ session'[s].sequence = f.sequence
           /\ session'[s].frames = Keep(Append(session[s].frames, f))
<1>1. session[s] \in Sessions
    BY DEF TypeInv, ServerTypes
<1>2. session[s].frames \in Seq(Frames) /\ Fits(Len(session[s].frames))
    BY <1>1 DEF TypeInv, ServerTypes, Sessions
<1>3. f.sequence \in 0 .. MaxSends
    BY DEF Frames
<1>4. PICK kept \in Seq(Frames) : kept = Keep(Append(session[s].frames, f))
    BY <1>2, KeepIs
<1>5. PICK r \in Sessions : r = [session[s] EXCEPT !.sequence = f.sequence, !.frames = kept]
    <2>1. [session[s] EXCEPT !.sequence = f.sequence, !.frames = kept] \in Sessions
        BY <1>1, <1>3 DEF Sessions
    <2>2. QED BY <2>1
<1>6. /\ r.alive = session[s].alive /\ r.expiring = session[s].expiring
      /\ r.sequence = f.sequence /\ r.frames = kept
    BY <1>1, <1>5 DEF Sessions
<1>7. session' = [session EXCEPT ![s] = r]
    BY <1>4, <1>5
<1>8. session \in [Conns -> Sessions]
    BY DEF TypeInv, ServerTypes
<1>9. QED BY <1>4, <1>6, <1>7, <1>8

\* A resume: the connection takes over an older session, and its buffer.
LEMMA ResumeIs ==
    ASSUME TypeInv, BufferInv, NumberInv, TakeoverInv, NEW c \in Conns, Resume(c)
    PROVE  \E s \in Conns :
              /\ stage[c] = "authorizing" /\ c \in Accepted
              /\ sessionOf[c] = c /\ s < c /\ Greeted(s)
              /\ session' \in [Conns -> Sessions] /\ SameFrames
              /\ \A t \in Conns \ {s, c} : session'[t] = session[t]
              /\ ~session'[c].alive /\ session'[s].alive /\ ~session'[s].expiring
              /\ sessionOf' = [sessionOf EXCEPT ![c] = s]
              /\ \E frames \in Seq(Frames) : todo' = [todo EXCEPT ![c] = frames]
              /\ request' = [request EXCEPT ![c] = <<>>]
              /\ stage' = [stage EXCEPT ![c] = "replaying"]
              /\ "staleOwner" \in odd' <=> "staleOwner" \in odd \/ Superseded(c)
              /\ odd' \subseteq Oddities
              /\ UNCHANGED <<open, transport, identity, inbox, sent, delivered>>
<1>1. stage[c] = "authorizing" /\ c \in Accepted
    BY DEF Resume, NumberInv
<1>2. request[c] # <<>> /\ sessionOf[c] = c /\ request[c][1].session < c
      /\ Greeted(request[c][1].session)
    BY <1>1 DEF TakeoverInv
<1>3. request[c] \in Seq(Requests)
    BY DEF TypeInv, ServerTypes
<1>4. request[c][1] \in Requests
    BY <1>2, <1>3
<1>5. PICK s \in Conns, seen \in Nat : s = request[c][1].session /\ seen = request[c][1].last
    BY <1>4 DEF Requests
<1>6. /\ Takes(c, s) /\ sessionOf' = [sessionOf EXCEPT ![c] = s]
      /\ todo' = [todo EXCEPT ![c] = Missing(session[s].frames, seen)]
    BY <1>5 DEF Resume
<1>7. PICK frames \in Seq(Frames) : frames = Missing(session[s].frames, seen)
    BY MissingTypes
<1>8. c # s
    BY <1>2, <1>5
<1>9. /\ session' \in [Conns -> Sessions] /\ SameFrames
      /\ \A u \in Conns \ {s, c} : session'[u] = session[u]
      /\ ~session'[c].alive
      /\ session'[s].alive /\ ~session'[s].expiring
    <2>1. c = sessionOf[c]
        BY <1>2
    <2>2. QED BY <1>6, <1>8, <2>1, TakesIs
<1>10. /\ "staleOwner" \in odd' <=> "staleOwner" \in odd \/ Superseded(c)
       /\ odd' \subseteq Oddities
    BY DEF Resume, TypeInv, ClientTypes, Oddities
<1>11. /\ request' = [request EXCEPT ![c] = <<>>]
       /\ stage' = [stage EXCEPT ![c] = "replaying"]
       /\ UNCHANGED <<open, transport, identity, inbox, sent, delivered>>
    BY DEF Resume
<1>12. QED BY <1>1, <1>2, <1>5, <1>6, <1>7, <1>9, <1>10, <1>11

-----------------------------------------------------------------------------
(* Types *)

SessionTypes ==
    /\ session \in [Conns -> Sessions]
    /\ \A s \in Conns : Fits(Len(session[s].frames)) /\ session[s].sequence <= sent

LEMMA SameFramesTypes ==
    ASSUME TypeInv, session' \in [Conns -> Sessions], SameFrames, sent' = sent
    PROVE  SessionTypes'
BY DEF TypeInv, ServerTypes, SessionTypes, SameFrames

LEMMA RecordTypes ==
    ASSUME TypeInv, NEW c \in Conns, Send(c)
    PROVE  SessionTypes'
<1>1. PICK s \in Conns, f \in Frames :
          /\ f = [session |-> s, sequence |-> session[s].sequence + 1]
          /\ session[s].alive =>
                session' = [session EXCEPT ![s].sequence = f.sequence,
                                           ![s].frames = Keep(Append(@, f))]
          /\ ~session[s].alive => session' = session
          /\ sent' = sent + 1 /\ sent' \in 0 .. MaxSends
    BY SendIs
<1>2. sent \in Nat /\ session \in [Conns -> Sessions]
      /\ \A t \in Conns : session[t].sequence \in Nat /\ session[t].sequence <= sent
                          /\ Fits(Len(session[t].frames))
    <2>1. \A t \in Conns : session[t] \in Sessions
        BY DEF TypeInv, ServerTypes
    <2>2. \A t \in Conns : session[t].sequence \in Nat
        BY <2>1 DEF Sessions
    <2>3. /\ sent \in Nat /\ session \in [Conns -> Sessions]
          /\ \A t \in Conns : session[t].sequence <= sent /\ Fits(Len(session[t].frames))
        <3>1. ServerTypes
            BY DEF TypeInv
        <3>2. sent \in 0 .. MaxSends
            BY <3>1 DEF ServerTypes
        <3>3. sent \in Nat
            BY <3>2
        <3>4. QED BY <3>1, <3>3 DEF ServerTypes
    <2>4. QED BY <2>2, <2>3
<1>3. CASE ~session[s].alive
    BY SMTT(30), <1>1, <1>2, <1>3 DEF SessionTypes
<1>4. CASE session[s].alive
    <2>1. /\ session' \in [Conns -> Sessions]
          /\ \A t \in Conns \ {s} : session'[t] = session[t]
          /\ session'[s].sequence = f.sequence
          /\ session'[s].frames = Keep(Append(session[s].frames, f))
        BY <1>1, <1>4, RecordIs
    <2>2. f.sequence <= sent'
        BY <1>1, <1>2
    <2>3. session[s].frames \in Seq(Frames)
        <3>1. session[s] \in Sessions
            BY <1>2
        <3>2. QED BY <3>1 DEF Sessions
    <2>4. Fits(Len(Keep(Append(session[s].frames, f))))
        BY <1>2, <2>3, KeepIs
    <2>5. ASSUME NEW t \in Conns
          PROVE  Fits(Len(session'[t].frames)) /\ session'[t].sequence <= sent'
        <3>1. CASE t = s
            BY <2>1, <2>2, <2>4, <3>1
        <3>2. CASE t # s
            BY <1>1, <1>2, <2>1, <3>2
        <3>3. QED BY <3>1, <3>2
    <2>6. QED BY <2>1, <2>5 DEF SessionTypes
<1>5. QED BY <1>3, <1>4

LEMMA AcceptTypes ==
    ASSUME IInv, Connect \/ Reconnect
    PROVE  TypeInv'
<1>1. Accept /\ closed' \in BOOLEAN
      /\ UNCHANGED <<attempt, intentionalClose, sessionId, pendingResume, last, inbox, sent,
                     delivered, odd>>
    BY DEF Connect, Reconnect, IInv, TypeInv, ClientTypes, identity, history
<1>2. PICK c \in Conns :
          /\ stage' = [stage EXCEPT ![c] = "admitting"]
          /\ open' = open \cup {c}
          /\ sessionOf' = [sessionOf EXCEPT ![c] = c]
          /\ session' \in [Conns -> Sessions] /\ SameFrames
          /\ link' = c /\ phase' = "handshake"
          /\ UNCHANGED <<request, todo>>
    BY <1>1, AcceptIs DEF IInv
<1>3. SessionTypes'
    BY <1>1, <1>2, SameFramesTypes DEF IInv
<1>4. ServerTypes'
    BY <1>1, <1>2, <1>3 DEF IInv, TypeInv, ServerTypes, SessionTypes, Stages
<1>5. ClientTypes'
    BY <1>1, <1>2 DEF IInv, TypeInv, ClientTypes, Phases
<1>6. QED BY <1>4, <1>5 DEF TypeInv

LEMMA ServerStepTypes ==
    ASSUME IInv, NEW c \in Conns,
           \/ Reject(c) \/ Serve(c) \/ ListenerRaises(c) \/ SocketCloses(c)
           \/ ServingEnds(c) \/ RemoveConnection(c) \/ Expire(c) \/ ReceiveResume(c)
    PROVE  TypeInv'
<1>1. session' \in [Conns -> Sessions] /\ SameFrames
    <2>1. CASE Reject(c)
        BY <2>1, RejectIs DEF IInv
    <2>2. CASE Expire(c)
        BY <2>2, ExpireIs DEF IInv
    <2>3. CASE RemoveConnection(c)
        <3>1. sessionOf[c] \in Conns /\ Leaves(sessionOf[c])
            <4>1. c \in Accepted
                BY <2>3 DEF RemoveConnection, IInv, NumberInv
            <4>2. QED BY <2>3, <4>1 DEF RemoveConnection, IInv, TypeInv, ServerTypes, Accepted
        <3>2. QED BY <3>1, LeavesIs DEF IInv
    <2>4. CASE UNCHANGED session
        BY <2>4 DEF IInv, TypeInv, ServerTypes, SameFrames
    <2>5. QED
        BY <2>1, <2>2, <2>3, <2>4
        DEF Serve, ListenerRaises, SocketCloses, ServingEnds, ReceiveResume, Goes
<1>2. /\ stage' \in [Conns -> Stages] /\ open' \subseteq Conns
      /\ UNCHANGED <<sessionOf, request, todo, sent, inbox, delivered>>
      /\ UNCHANGED <<transport, identity>>
    BY DEF Reject, Serve, ListenerRaises, SocketCloses, ServingEnds, RemoveConnection, Expire,
           ReceiveResume, Goes, IInv, TypeInv, ServerTypes, Stages, resume, client, history
<1>3. odd' \subseteq Oddities
    BY DEF Reject, Serve, ListenerRaises, SocketCloses, ServingEnds, RemoveConnection, Expire,
           ReceiveResume, Goes, IInv, TypeInv, ClientTypes, Oddities, client, history
<1>4. SessionTypes'
    BY <1>1, <1>2, SameFramesTypes DEF IInv
<1>5. ServerTypes'
    BY <1>2, <1>4 DEF IInv, TypeInv, ServerTypes, SessionTypes
<1>6. ClientTypes'
    BY <1>2, <1>3 DEF IInv, TypeInv, ClientTypes, transport, identity
<1>7. QED BY <1>5, <1>6 DEF TypeInv

LEMMA PushingTypes ==
    ASSUME IInv, NEW c \in Conns,
           Greet(c) \/ Send(c) \/ Refuse(c) \/ Replay(c)
    PROVE  TypeInv'
<1>1. inbox' \in Seq(Messages)
    <2>1. CASE Greet(c)
        BY <2>1, MessageTypes, PushTypes DEF Greet, IInv
    <2>2. CASE Send(c)
        <3>1. PICK msg \in Messages : Push(c, msg)
            BY <2>2, SendIs DEF IInv
        <3>2. QED BY <3>1, PushTypes DEF IInv
    <2>3. CASE Refuse(c)
        <3>1. Resumed(FALSE) \in Messages
            BY MessageTypes
        <3>2. QED BY <2>3, <3>1, PushTypes DEF Refuse, IInv
    <2>4. CASE Replay(c)
        <3>1. CASE c \in open /\ todo[c] # <<>>
            <4>1. todo[c] \in Seq(Frames)
                BY DEF IInv, TypeInv, ServerTypes
            <4>2. Head(todo[c]) \in Frames
                BY <3>1, <4>1
            <4>3. Push(c, Data(Head(todo[c])))
                BY <2>4, <3>1 DEF Replay
            <4>4. QED BY <4>2, <4>3, MessageTypes, PushTypes DEF IInv
        <3>2. CASE ~(c \in open /\ todo[c] # <<>>)
            <4>1. Push(c, Resumed(TRUE)) /\ Resumed(TRUE) \in Messages
                BY <2>4, <3>2, MessageTypes DEF Replay
            <4>2. QED BY <4>1, PushTypes DEF IInv
        <3>3. QED BY <3>1, <3>2
    <2>5. QED BY <2>1, <2>2, <2>3, <2>4
<1>2. SessionTypes'
    <2>1. CASE Send(c)
        BY <2>1, RecordTypes DEF IInv
    <2>2. CASE UNCHANGED <<session, sent>>
        BY <2>2 DEF SessionTypes, IInv, TypeInv, ServerTypes
    <2>3. QED BY <2>1, <2>2 DEF Greet, Refuse, Replay, history
<1>3. stage' \in [Conns -> Stages]
    BY DEF Greet, Send, Refuse, Replay, IInv, TypeInv, ServerTypes, Stages
<1>4. todo' \in [Conns -> Seq(Frames)]
    <2>1. CASE Replay(c)
        <3>1. todo[c] \in Seq(Frames)
            BY DEF IInv, TypeInv, ServerTypes
        <3>2. todo[c] # <<>> => Tail(todo[c]) \in Seq(Frames)
            BY <3>1
        <3>3. <<>> \in Seq(Frames)
            OBVIOUS
        <3>4. QED BY <2>1, <3>2, <3>3 DEF Replay, IInv, TypeInv, ServerTypes
    <2>2. CASE ~Replay(c)
        BY <2>2 DEF Greet, Send, Refuse, resume, IInv, TypeInv, ServerTypes
    <2>3. QED BY <2>1, <2>2
<1>5. request' \in [Conns -> Seq(Requests)] /\ \A d \in Conns : Len(request'[d]) <= 1
    <2>1. CASE request' = [request EXCEPT ![c] = <<>>]
        <3>1. <<>> \in Seq(Requests) /\ Len(<<>>) = 0
            OBVIOUS
        <3>2. QED BY <2>1, <3>1 DEF IInv, TypeInv, ServerTypes
    <2>2. CASE UNCHANGED request
        BY <2>2 DEF IInv, TypeInv, ServerTypes
    <2>3. QED BY <2>1, <2>2 DEF Greet, Send, Refuse, Replay, resume
<1>6. /\ sent' \in 0 .. MaxSends /\ odd' \subseteq Oddities
      /\ UNCHANGED <<open, sessionOf, transport, identity, delivered>>
    <2>1. CASE Send(c)
        BY <2>1, SendIs DEF IInv
    <2>2. CASE ~Send(c)
        BY <2>2 DEF Greet, Refuse, Replay, IInv, TypeInv, ServerTypes, ClientTypes, history
    <2>3. QED BY <2>1, <2>2
<1>7. ServerTypes'
    BY <1>2, <1>3, <1>4, <1>5, <1>6 DEF IInv, TypeInv, ServerTypes, SessionTypes
<1>8. ClientTypes'
    BY <1>1, <1>6 DEF IInv, TypeInv, ClientTypes, transport, identity
<1>9. QED BY <1>7, <1>8 DEF TypeInv

LEMMA ResumeTypes ==
    ASSUME IInv, NEW c \in Conns, Resume(c)
    PROVE  TypeInv'
<1>1. PICK s \in Conns :
          /\ session' \in [Conns -> Sessions] /\ SameFrames
          /\ sessionOf' = [sessionOf EXCEPT ![c] = s]
          /\ \E frames \in Seq(Frames) : todo' = [todo EXCEPT ![c] = frames]
          /\ request' = [request EXCEPT ![c] = <<>>]
          /\ stage' = [stage EXCEPT ![c] = "replaying"]
          /\ odd' \subseteq Oddities
          /\ UNCHANGED <<open, transport, identity, inbox, sent, delivered>>
    BY SMTT(30), ResumeIs DEF IInv
<1>2. SessionTypes'
    BY <1>1, SameFramesTypes DEF IInv
<1>3. <<>> \in Seq(Requests) /\ Len(<<>>) = 0
    OBVIOUS
<1>4. request' \in [Conns -> Seq(Requests)] /\ \A d \in Conns : Len(request'[d]) <= 1
    BY <1>1, <1>3 DEF IInv, TypeInv, ServerTypes
<1>5. todo' \in [Conns -> Seq(Frames)] /\ stage' \in [Conns -> Stages]
      /\ sessionOf' \in [Conns -> Conns \cup {None}]
    BY <1>1 DEF IInv, TypeInv, ServerTypes, Stages
<1>6. ServerTypes'
    BY <1>1, <1>2, <1>4, <1>5 DEF IInv, TypeInv, ServerTypes, SessionTypes
<1>7. ClientTypes'
    BY <1>1 DEF IInv, TypeInv, ClientTypes, transport, identity
<1>8. QED BY <1>6, <1>7 DEF TypeInv

\* What handling a schema does, when the session is presented and when not.
LEMMA ReceiveSchemaIs ==
    ASSUME IInv, ReceiveSchema
    PROVE  /\ link \in Conns /\ Greeted(link) /\ phase = "handshake"
           /\ sessionId' = link /\ sessionId # link
           /\ pendingResume' \in {sessionId, pendingResume}
           /\ \/ /\ phase' = "reading" /\ attempt' = 0 /\ inbox' = Tail(inbox)
                 /\ inbox # <<>>
                 /\ \/ UNCHANGED request
                    \/ /\ sessionId # None
                       /\ request' = [request EXCEPT
                                        ![link] = <<[session |-> sessionId, last |-> last]>>]
                 /\ UNCHANGED <<link, closed, intentionalClose, odd>>
              \/ /\ \E final \in BOOLEAN : Transport(final)
                 /\ odd' = odd \cup {"earlyLoss"}
                 /\ UNCHANGED request
           /\ UNCHANGED <<stage, open, sessionOf, session, todo, last, sent, delivered>>
<1>1. inbox # <<>> /\ Head(inbox).type = "schema" /\ phase = "handshake"
    BY DEF ReceiveSchema, Arrives
<1>2. inbox \in Seq(Messages)
    BY DEF IInv, TypeInv, ClientTypes
<1>3. 1 \in DOMAIN inbox /\ Head(inbox) = inbox[1]
    BY <1>1, <1>2, EmptySeq
<1>4. Head(inbox).session = link /\ Greeted(link)
    BY <1>1, <1>3 DEF IInv, ClientInv
<1>5. link # None /\ link \in Conns /\ sessionId # link
    BY <1>1 DEF IInv, ClientInv, TypeInv, ClientTypes
<1>6. sessionId' = link /\ pendingResume' \in {sessionId, pendingResume}
    BY <1>4 DEF ReceiveSchema
<1>7. CASE /\ phase' = "reading" /\ attempt' = 0 /\ inbox' = Tail(inbox)
           /\ request' = IF sessionId # None /\ link \in open
                         THEN [request EXCEPT ![link] = <<[session |-> sessionId, last |-> last]>>]
                         ELSE request
           /\ UNCHANGED <<link, closed, intentionalClose, odd>>
    BY <1>1, <1>4, <1>5, <1>6, <1>7 DEF ReceiveSchema
<1>8. CASE /\ \E final \in BOOLEAN : Transport(final)
           /\ odd' = odd \cup {"earlyLoss"}
           /\ UNCHANGED request
    BY <1>1, <1>4, <1>5, <1>6, <1>8 DEF ReceiveSchema
<1>9. \/ /\ phase' = "reading" /\ attempt' = 0 /\ inbox' = Tail(inbox)
         /\ request' = IF sessionId # None /\ link \in open
                       THEN [request EXCEPT ![link] = <<[session |-> sessionId, last |-> last]>>]
                       ELSE request
         /\ UNCHANGED <<link, closed, intentionalClose, odd>>
      \/ /\ \E final \in BOOLEAN : Transport(final)
         /\ odd' = odd \cup {"earlyLoss"}
         /\ UNCHANGED request
    BY DEF ReceiveSchema
<1>10. QED BY <1>7, <1>8, <1>9

LEMMA RetryIs ==
    ASSUME TypeInv, Retry
    PROVE  phase' \in {"backoff", "ended"} /\ attempt' \in 0 .. Attempts /\ closed' \in BOOLEAN
<1>1. attempt \in 0 .. Attempts /\ closed \in BOOLEAN
    BY DEF TypeInv, ClientTypes
<1>2. closed' \in {TRUE, closed} /\ phase' \in {"backoff", "ended"}
    BY DEF Retry
<1>3. attempt' \in 0 .. Attempts
    <2>1. \/ attempt' = attempt
          \/ ~(attempt >= Attempts) /\ attempt' = attempt + 1
        BY DEF Retry
    <2>2. QED BY <1>1, <2>1
<1>4. QED BY <1>1, <1>2, <1>3

\* The end of a transport: the client backs off or is at its end.
LEMMA TransportIs ==
    ASSUME TypeInv, NEW final \in BOOLEAN, Transport(final)
    PROVE  /\ link' = None /\ inbox' = <<>> /\ phase' \in {"backoff", "ended"}
           /\ attempt' \in 0 .. Attempts /\ closed' \in BOOLEAN
           /\ intentionalClose' = intentionalClose
<1>1. link' = None /\ inbox' = <<>> /\ intentionalClose' = intentionalClose
    BY DEF Transport
<1>2. attempt \in 0 .. Attempts /\ closed \in BOOLEAN
    BY DEF TypeInv, ClientTypes
<1>3. \/ phase' = "ended" /\ closed' = TRUE /\ attempt' = attempt
      \/ Retry
    BY DEF Transport
<1>4. Retry => phase' \in {"backoff", "ended"} /\ attempt' \in 0 .. Attempts /\ closed' \in BOOLEAN
    BY RetryIs
<1>5. QED BY <1>1, <1>2, <1>3, <1>4

LEMMA SchemaTypes ==
    ASSUME IInv, ReceiveSchema
    PROVE  TypeInv'
<1>1. /\ link \in Conns /\ sessionId' = link
      /\ pendingResume' \in {sessionId, pendingResume}
      /\ UNCHANGED <<stage, open, sessionOf, session, todo, last, sent, delivered>>
    BY ReceiveSchemaIs
<1>2. request' \in [Conns -> Seq(Requests)] /\ \A d \in Conns : Len(request'[d]) <= 1
    <2>1. CASE UNCHANGED request
        BY <2>1 DEF IInv, TypeInv, ServerTypes
    <2>2. CASE /\ sessionId # None
               /\ request' = [request EXCEPT
                                ![link] = <<[session |-> sessionId, last |-> last]>>]
        <3>1. PICK r \in Requests : r = [session |-> sessionId, last |-> last]
            BY <2>2 DEF Requests, IInv, TypeInv, ClientTypes
        <3>2. <<r>> \in Seq(Requests) /\ Len(<<r>>) = 1
            OBVIOUS
        <3>3. request' = [request EXCEPT ![link] = <<r>>]
            BY <2>2, <3>1
        <3>4. QED BY <1>1, <3>2, <3>3 DEF IInv, TypeInv, ServerTypes
    <2>3. QED BY <2>1, <2>2, ReceiveSchemaIs
<1>3. ServerTypes'
    BY <1>1, <1>2 DEF IInv, TypeInv, ServerTypes
<1>4. /\ link' \in Conns \cup {None} /\ phase' \in Phases /\ attempt' \in 0 .. Attempts
      /\ closed' \in BOOLEAN /\ intentionalClose' \in BOOLEAN
      /\ inbox' \in Seq(Messages) /\ odd' \subseteq Oddities
    <2>1. CASE /\ phase' = "reading" /\ attempt' = 0 /\ inbox' = Tail(inbox)
               /\ inbox # <<>>
               /\ UNCHANGED <<link, closed, intentionalClose, odd>>
        <3>1. Tail(inbox) \in Seq(Messages)
            BY <2>1 DEF IInv, TypeInv, ClientTypes
        <3>2. QED BY <2>1, <3>1 DEF IInv, TypeInv, ClientTypes, Phases
    <2>2. CASE /\ \E final \in BOOLEAN : Transport(final)
               /\ odd' = odd \cup {"earlyLoss"}
        <3>1. PICK final \in BOOLEAN : Transport(final)
            BY <2>2
        <3>2. /\ link' = None /\ inbox' = <<>> /\ phase' \in {"backoff", "ended"}
              /\ attempt' \in 0 .. Attempts /\ closed' \in BOOLEAN
              /\ intentionalClose' = intentionalClose
            BY <3>1, TransportIs DEF IInv
        <3>3. <<>> \in Seq(Messages)
            OBVIOUS
        <3>4. QED BY <2>2, <3>2, <3>3 DEF IInv, TypeInv, ClientTypes, Phases, Oddities
    <2>3. QED BY <2>1, <2>2, ReceiveSchemaIs
<1>5. ClientTypes'
    BY <1>1, <1>4 DEF IInv, TypeInv, ClientTypes
<1>6. QED BY <1>3, <1>5 DEF TypeInv

LEMMA ClientStepTypes ==
    ASSUME IInv,
           \/ ReconnectFails \/ ReaderRaises \/ \E final \in BOOLEAN : TransportEnds(final)
           \/ RefuseTransport \/ ReceiveFrame \/ ReceiveResumed \/ Close
    PROVE  TypeInv'
<1>1. ServerTypes'
    BY DEF ReconnectFails, ReaderRaises, TransportEnds, RefuseTransport, ReceiveFrame,
           ReceiveResumed, Close, server, resume, history, IInv, TypeInv, ServerTypes
<1>2. ASSUME NEW final \in BOOLEAN, TransportEnds(final) \/ (RefuseTransport /\ ~final)
      PROVE  ClientTypes'
    <2>1. Transport(final)
        BY <1>2 DEF TransportEnds, RefuseTransport
    <2>2. /\ link' = None /\ inbox' = <<>> /\ phase' \in {"backoff", "ended"}
          /\ attempt' \in 0 .. Attempts /\ closed' \in BOOLEAN
          /\ intentionalClose' = intentionalClose
        BY <2>1, TransportIs DEF IInv
    <2>3. <<>> \in Seq(Messages)
        OBVIOUS
    <2>4. odd' \subseteq Oddities /\ UNCHANGED <<sessionId, pendingResume, last, delivered>>
        BY <1>2 DEF TransportEnds, RefuseTransport, history, identity, Oddities, IInv, TypeInv,
                    ClientTypes
    <2>5. QED BY <2>2, <2>3, <2>4 DEF IInv, TypeInv, ClientTypes, Phases
<1>3. ASSUME ReceiveFrame PROVE ClientTypes'
    <2>1. inbox # <<>> /\ Head(inbox).type = "frame" /\ inbox \in Seq(Messages)
        BY <1>3 DEF ReceiveFrame, Arrives, IInv, TypeInv, ClientTypes
    <2>2. Head(inbox) \in Messages /\ Tail(inbox) \in Seq(Messages)
        BY <2>1
    <2>3. PICK f \in Frames : f = Head(inbox).frame
        BY <2>1, <2>2 DEF Messages
    <2>4. f.sequence \in 0 .. MaxSends /\ Append(delivered, f) \in Seq(Frames)
        BY DEF Frames, IInv, TypeInv, ClientTypes
    <2>5. /\ last' = IF f.sequence > last THEN f.sequence ELSE last
          /\ delivered' \in {delivered, Append(delivered, f)}
          /\ inbox' = Tail(inbox)
          /\ UNCHANGED <<transport, sessionId, pendingResume, odd>>
        BY <1>3, <2>3 DEF ReceiveFrame
    <2>6. delivered' \in Seq(Frames) /\ last' \in 0 .. MaxSends
        BY <2>4, <2>5 DEF IInv, TypeInv, ClientTypes
    <2>7. QED BY <2>2, <2>5, <2>6 DEF IInv, TypeInv, ClientTypes, transport
<1>4. ASSUME ReceiveResumed PROVE ClientTypes'
    <2>1. inbox # <<>> /\ inbox \in Seq(Messages)
        BY <1>4 DEF ReceiveResumed, Arrives, IInv, TypeInv, ClientTypes
    <2>2. Tail(inbox) \in Seq(Messages)
        BY <2>1
    <2>3. QED BY <1>4, <2>2 DEF ReceiveResumed, IInv, TypeInv, ClientTypes, transport, history
<1>5. ASSUME ReconnectFails \/ ReaderRaises \/ Close PROVE ClientTypes'
    <2>1. CASE ReconnectFails
        <3>1. Retry /\ UNCHANGED <<link, intentionalClose, identity, inbox, history>>
            BY <2>1 DEF ReconnectFails
        <3>2. /\ phase' \in {"backoff", "ended"} /\ attempt' \in 0 .. Attempts
              /\ closed' \in BOOLEAN
            BY <3>1, RetryIs DEF IInv
        <3>3. QED BY <3>1, <3>2 DEF identity, history, IInv, TypeInv, ClientTypes, Phases
    <2>2. CASE ReaderRaises
        BY <2>2 DEF ReaderRaises, identity, history, IInv, TypeInv, ClientTypes, Phases
    <2>3. CASE Close
        BY <2>3 DEF Close, identity, history, IInv, TypeInv, ClientTypes, Phases
    <2>4. QED BY <1>5, <2>1, <2>2, <2>3
<1>6. ClientTypes'
    <2>1. CASE RefuseTransport
        <3>1. PICK final \in BOOLEAN : ~final
            OBVIOUS
        <3>2. QED BY <1>2, <2>1, <3>1
    <2>2. QED BY <1>2, <1>3, <1>4, <1>5, <2>1
<1>7. QED BY <1>1, <1>6 DEF TypeInv

LEMMA TypeStep ==
    ASSUME IInv, [Next]_vars
    PROVE  TypeInv'
<1>1. CASE Connect \/ Reconnect
    BY <1>1, AcceptTypes
<1>2. ASSUME NEW c \in Conns,
             \/ Reject(c) \/ Serve(c) \/ ListenerRaises(c) \/ SocketCloses(c)
             \/ ServingEnds(c) \/ RemoveConnection(c) \/ Expire(c) \/ ReceiveResume(c)
      PROVE  TypeInv'
    BY <1>2, ServerStepTypes
<1>3. ASSUME NEW c \in Conns, Greet(c) \/ Send(c) \/ Refuse(c) \/ Replay(c)
      PROVE  TypeInv'
    BY <1>3, PushingTypes
<1>4. ASSUME NEW c \in Conns, Resume(c) PROVE TypeInv'
    BY <1>4, ResumeTypes
<1>5. CASE ReceiveSchema
    BY <1>5, SchemaTypes
<1>6. CASE \/ ReconnectFails \/ ReaderRaises \/ \E final \in BOOLEAN : TransportEnds(final)
           \/ RefuseTransport \/ ReceiveFrame \/ ReceiveResumed \/ Close
    BY <1>6, ClientStepTypes
<1>7. CASE UNCHANGED vars
    BY <1>7 DEF vars, server, resume, client, transport, identity, history, IInv, TypeInv,
                ServerTypes, ClientTypes
<1>8. QED BY <1>1, <1>2, <1>3, <1>4, <1>5, <1>6, <1>7 DEF Next

-----------------------------------------------------------------------------
(* The buffers *)

\* A recorded frame follows the newest one, and the oldest may leave.
LEMMA RecordInOrder ==
    ASSUME TypeInv, BufferInv, NEW s \in Conns, NEW f \in Frames, session[s].alive,
           f = [session |-> s, sequence |-> session[s].sequence + 1],
           session' = [session EXCEPT ![s].sequence = f.sequence,
                                      ![s].frames = Keep(Append(@, f))]
    PROVE  BufferInv'
<1>1. /\ session' \in [Conns -> Sessions]
      /\ \A t \in Conns \ {s} : session'[t] = session[t]
      /\ session'[s].sequence = f.sequence
      /\ session'[s].frames = Keep(Append(session[s].frames, f))
    BY ZenonT(40), RecordIs
<1>2. PICK frames \in Seq(Frames), q \in Nat :
          frames = session[s].frames /\ q = session[s].sequence
    <2>1. session[s] \in Sessions
        BY DEF TypeInv, ServerTypes
    <2>2. session[s].frames \in Seq(Frames) /\ session[s].sequence \in Nat
        BY <2>1 DEF Sessions
    <2>3. QED BY <2>2
<1>3. PICK n \in Nat : n = Len(frames) /\ Fits(n) /\ n <= q /\ DOMAIN frames = 1 .. n
    <2>1. Fits(Len(frames)) /\ Len(frames) <= q
        BY <1>2 DEF TypeInv, ServerTypes, BufferInv
    <2>2. Len(frames) \in Nat /\ DOMAIN frames = 1 .. Len(frames)
        OBVIOUS
    <2>3. QED BY <2>1, <2>2
<1>4. \A i \in 1 .. n : frames[i] = [session |-> s, sequence |-> q - n + i]
    BY <1>2, <1>3 DEF BufferInv
<1>5. PICK kept \in Seq(Frames) : kept = Keep(Append(frames, f))
    BY <1>2, <1>3, KeepIs
<1>6. PICK d \in 0 .. 1 :
          /\ d <= n /\ Len(kept) = n + 1 - d
          /\ \A i \in 1 .. n + 1 - d : kept[i] = IF i = n + 1 - d THEN f ELSE frames[i + d]
    <2>1. Fits(Len(frames))
        BY <1>3
    <2>2. PICK d \in {0, 1} :
              /\ d <= Len(frames)
              /\ Len(Keep(Append(frames, f))) = Len(frames) + 1 - d
              /\ \A i \in 1 .. Len(frames) + 1 - d :
                    Keep(Append(frames, f))[i] =
                        IF i = Len(frames) + 1 - d THEN f ELSE frames[i + d]
        BY ZenonT(40), <2>1, KeepIs
    <2>3. d \in 0 .. 1
        OBVIOUS
    <2>4. /\ d <= n /\ Len(kept) = n + 1 - d
          /\ \A i \in 1 .. n + 1 - d : kept[i] = IF i = n + 1 - d THEN f ELSE frames[i + d]
        BY <1>3, <1>5, <2>2
    <2>5. QED BY <2>3, <2>4
<1>7. DOMAIN kept = 1 .. n + 1 - d
    BY <1>6
<1>8. ASSUME NEW i \in 1 .. n + 1 - d
      PROVE  kept[i] = [session |-> s, sequence |-> (q + 1) - (n + 1 - d) + i]
    <2>1. CASE i = n + 1 - d
        <3>1. kept[i] = f /\ f = [session |-> s, sequence |-> q + 1]
            BY <1>2, <1>6, <2>1
        <3>2. q + 1 = (q + 1) - (n + 1 - d) + i
            <4>1. \A a, b \in Int : a = a - b + b
                OBVIOUS
            <4>2. q + 1 \in Int /\ n + 1 - d \in Int
                BY <1>3, <1>6
            <4>3. QED BY <2>1, <4>1, <4>2
        <3>3. QED BY <3>1, <3>2
    <2>2. CASE i # n + 1 - d
        <3>1. PICK j \in 1 .. n : j = i + d
            BY <1>3, <1>6, <2>2
        <3>2. kept[i] = frames[j] /\ frames[j] = [session |-> s, sequence |-> q - n + j]
            BY <1>4, <1>6, <2>2, <3>1
        <3>3. q - n + j = (q + 1) - (n + 1 - d) + i
            <4>1. \A a, b, e, g \in Int : b - a + (g + e) = (b + 1) - (a + 1 - e) + g
                BY SMTT(20)
            <4>2. d \in Int /\ i \in Int
                OBVIOUS
            <4>3. QED BY SMTT(20), <3>1, <4>1, <4>2
        <3>4. QED BY <3>2, <3>3
    <2>3. QED BY <2>1, <2>2
<1>9. session'[s].frames = kept /\ session'[s].sequence = q + 1
    BY <1>1, <1>2, <1>5
<1>10. n + 1 - d <= q + 1
    BY <1>3, <1>6
<1>11. /\ Len(session'[s].frames) <= session'[s].sequence
       /\ \A i \in DOMAIN session'[s].frames :
             session'[s].frames[i] =
                 [session |-> s, sequence |-> session'[s].sequence - Len(session'[s].frames) + i]
    BY <1>6, <1>7, <1>8, <1>9, <1>10
<1>12. ASSUME NEW t \in Conns
       PROVE  /\ Len(session'[t].frames) <= session'[t].sequence
              /\ \A i \in DOMAIN session'[t].frames :
                    session'[t].frames[i] =
                        [session |-> t,
                         sequence |-> session'[t].sequence - Len(session'[t].frames) + i]
    <2>1. CASE t = s
        BY <1>11, <2>1
    <2>2. CASE t # s
        <3>1. session'[t] = session[t]
            BY <1>1, <2>2
        <3>2. QED BY <3>1 DEF BufferInv
    <2>3. QED BY <2>1, <2>2
<1>13. QED BY <1>12 DEF BufferInv

\* Only a send touches a buffer.
LEMMA OthersKeepFrames ==
    ASSUME IInv, [Next]_vars, ~(\E c \in Conns : Send(c))
    PROVE  SameFrames
<1>1. CASE Accept
    <2>1. \E c \in Conns : SameFrames
        BY <1>1, AcceptIs DEF IInv
    <2>2. QED BY <2>1
<1>2. ASSUME NEW c \in Conns,
             \/ Reject(c) \/ RemoveConnection(c) \/ Expire(c) \/ Resume(c)
      PROVE  SameFrames
    <2>1. CASE Reject(c)
        BY <2>1, RejectIs DEF IInv
    <2>2. CASE Expire(c)
        BY <2>2, ExpireIs DEF IInv
    <2>3. CASE RemoveConnection(c)
        <3>1. c \in Accepted
            BY <2>3 DEF RemoveConnection, IInv, NumberInv
        <3>2. sessionOf[c] \in Conns
            BY <3>1 DEF IInv, TypeInv, ServerTypes, Accepted
        <3>3. Leaves(sessionOf[c])
            BY <2>3 DEF RemoveConnection
        <3>4. QED BY <3>2, <3>3, LeavesIs DEF IInv
    <2>4. CASE Resume(c)
        <3>1. \E s \in Conns : SameFrames
            BY <2>4, ResumeIs DEF IInv
        <3>2. QED BY <3>1
    <2>5. QED BY <1>2, <2>1, <2>2, <2>3, <2>4
<1>3. CASE UNCHANGED session
    BY <1>3 DEF SameFrames
<1>4. QED
    BY <1>1, <1>2, <1>3
    DEF Next, Connect, Reconnect, Greet, Serve, ListenerRaises, SocketCloses, ServingEnds,
        ReceiveResume, Goes, Refuse, Replay, ReconnectFails, ReaderRaises, TransportEnds,
        ReceiveSchema, RefuseTransport, ReceiveFrame, ReceiveResumed, Close, vars, server

LEMMA BufferStep ==
    ASSUME IInv, [Next]_vars
    PROVE  BufferInv'
<1>1. CASE \E c \in Conns : Send(c)
    <2>1. PICK c \in Conns : Send(c)
        BY <1>1
    <2>2. PICK s \in Conns, f \in Frames :
              /\ f = [session |-> s, sequence |-> session[s].sequence + 1]
              /\ session[s].alive =>
                    session' = [session EXCEPT ![s].sequence = f.sequence,
                                               ![s].frames = Keep(Append(@, f))]
              /\ ~session[s].alive => session' = session
        BY <2>1, SendIs DEF IInv
    <2>3. CASE session[s].alive
        BY <2>2, <2>3, RecordInOrder DEF IInv
    <2>4. CASE ~session[s].alive
        BY <2>2, <2>4 DEF BufferInv, IInv
    <2>5. QED BY <2>3, <2>4
<1>2. CASE ~(\E c \in Conns : Send(c))
    <2>1. \A s \in Conns : session'[s].sequence = session[s].sequence
                           /\ session'[s].frames = session[s].frames
        BY <1>2, OthersKeepFrames DEF SameFrames
    <2>2. QED BY <2>1 DEF BufferInv, IInv
<1>3. QED BY <1>1, <1>2

-----------------------------------------------------------------------------
(* Numbers, takeovers, and what the client knows *)

\* Every step but a new connection moves handler tasks on, none back to its start.
LEMMA StagesMoveOn ==
    ASSUME IInv, [Next]_vars, ~Accept
    PROVE  /\ \A c \in Conns : stage[c] = "none" <=> stage'[c] = "none"
           /\ \A c \in Conns : stage'[c] = "admitting" => stage[c] = "admitting"
           /\ Accepted' = Accepted
           /\ open' \subseteq open
<1>1. ASSUME NEW c \in Conns, Resume(c)
      PROVE  /\ Accepted' = Accepted /\ stage' = [stage EXCEPT ![c] = "replaying"]
             /\ stage[c] = "authorizing" /\ open' = open
    <2>1. PICK s \in Conns : sessionOf' = [sessionOf EXCEPT ![c] = s]
        BY <1>1, ResumeIs DEF IInv
    <2>2. /\ stage[c] = "authorizing" /\ c \in Accepted
          /\ stage' = [stage EXCEPT ![c] = "replaying"] /\ UNCHANGED open
        BY <1>1 DEF Resume, IInv, NumberInv
    <2>3. QED BY <2>1, <2>2 DEF Accepted, IInv, TypeInv, ServerTypes
<1>2. CASE \E c \in Conns : Resume(c)
    BY <1>1, <1>2 DEF IInv, TypeInv, ServerTypes
<1>3. CASE ~(\E c \in Conns : Resume(c))
    <2>1. UNCHANGED sessionOf
        BY <1>3 DEF Next, Connect, Reconnect, Reject, Greet, Serve, ListenerRaises, SocketCloses,
            ServingEnds, RemoveConnection, Expire, Send, ReceiveResume, Goes, Refuse, Replay,
            ReconnectFails, ReaderRaises, TransportEnds, ReceiveSchema, RefuseTransport,
            ReceiveFrame, ReceiveResumed, Close, vars, server
    <2>2. open' \subseteq open
        BY <1>3 DEF Next, Connect, Reconnect, Reject, Greet, Serve, ListenerRaises, SocketCloses,
            ServingEnds, RemoveConnection, Expire, Send, ReceiveResume, Goes, Refuse, Replay,
            ReconnectFails, ReaderRaises, TransportEnds, ReceiveSchema, RefuseTransport,
            ReceiveFrame, ReceiveResumed, Close, vars, server
    <2>3. \/ UNCHANGED stage
          \/ \E c \in Conns : \E to \in Stages \ {"none", "admitting"} :
                stage[c] # "none" /\ stage' = [stage EXCEPT ![c] = to]
        BY <1>3 DEF Next, Connect, Reconnect, Reject, Greet, Serve, ListenerRaises, SocketCloses,
            ServingEnds, RemoveConnection, Expire, Send, ReceiveResume, Goes, Refuse, Replay,
            ReconnectFails, ReaderRaises, TransportEnds, ReceiveSchema, RefuseTransport,
            ReceiveFrame, ReceiveResumed, Close, vars, server, Stages
    <2>4. QED BY <2>1, <2>2, <2>3 DEF Accepted, IInv, TypeInv, ServerTypes
<1>4. QED BY <1>2, <1>3

LEMMA GreetedStays ==
    ASSUME IInv, [Next]_vars, NEW c, Greeted(c)
    PROVE  Greeted(c)' /\ c \in Accepted
<1>1. c \in Conns /\ stage[c] \notin {"none", "admitting"} /\ c \in Accepted
    BY DEF Greeted, IInv, NumberInv
<1>2. CASE Accept
    <2>1. PICK d \in Conns : stage[d] = "none" /\ stage' = [stage EXCEPT ![d] = "admitting"]
        BY <1>2, AcceptIs DEF IInv
    <2>2. QED BY <1>1, <2>1 DEF Greeted, IInv, TypeInv, ServerTypes
<1>3. CASE ~Accept
    <2>1. stage'[c] # "none" /\ stage'[c] # "admitting"
        BY <1>1, <1>3, StagesMoveOn
    <2>2. QED BY <1>1, <2>1 DEF Greeted
<1>4. QED BY <1>2, <1>3

LEMMA NumberStep ==
    ASSUME IInv, TypeInv', [Next]_vars
    PROVE  NumberInv'
<1>1. CASE Accept
    <2>1. PICK c \in Conns :
              /\ Accepted = 1 .. c - 1 /\ Accepted' = 1 .. c
              /\ stage' = [stage EXCEPT ![c] = "admitting"]
              /\ open' = open \cup {c}
              /\ \A t \in Conns \ {c} : session'[t] = session[t]
              /\ UNCHANGED <<request, todo>>
        BY <1>1, AcceptIs DEF IInv
    <2>2. c \in 0 .. MaxConns /\ Accepted' = 1 .. c
        BY <2>1
    <2>3. \A d \in Conns : d \in Accepted' <=> d \in Accepted \/ d = c
        BY <2>1
    <2>4. \A d \in Conns : stage'[d] = "none" <=> d \notin Accepted'
        BY <2>1, <2>3 DEF IInv, NumberInv, TypeInv, ServerTypes
    <2>5. \A d \in Conns \ Accepted' :
             d \notin open' /\ ~session'[d].alive /\ ~session'[d].expiring /\ request'[d] = <<>>
        BY <2>1, <2>3 DEF IInv, NumberInv
    <2>6. QED BY <2>2, <2>4, <2>5 DEF NumberInv
<1>2. CASE ~Accept
    <2>1. /\ Accepted' = Accepted /\ open' \subseteq open
          /\ \A c \in Conns : stage'[c] = "none" <=> c \notin Accepted
        BY <1>2, StagesMoveOn DEF IInv, NumberInv
    <2>2. ASSUME NEW d \in Conns \ Accepted PROVE request'[d] = <<>>
        <3>1. request[d] = <<>>
            BY DEF IInv, NumberInv
        <3>2. CASE ReceiveSchema
            <4>1. Greeted(link)
                BY <3>2, ReceiveSchemaIs
            <4>2. link \in Accepted
                BY <4>1 DEF Greeted, IInv, NumberInv
            <4>3. UNCHANGED request \/ \E r : request' = [request EXCEPT ![link] = r]
                BY <3>2, ReceiveSchemaIs
            <4>4. QED BY <3>1, <4>2, <4>3 DEF IInv, TypeInv, ServerTypes
        <3>3. CASE UNCHANGED request \/ \E c \in Conns : request' = [request EXCEPT ![c] = <<>>]
            BY <3>1, <3>3 DEF IInv, TypeInv, ServerTypes
        <3>4. QED
            BY <1>2, <3>2, <3>3 DEF Next, Connect, Reconnect, Reject, Greet, Serve, ListenerRaises,
                SocketCloses, ServingEnds, RemoveConnection, Expire, Send, ReceiveResume, Goes,
                Refuse, Resume, Replay, ReconnectFails, ReaderRaises, TransportEnds,
                RefuseTransport, ReceiveFrame, ReceiveResumed, Close, vars, server, resume
    <2>3. ASSUME NEW d \in Conns \ Accepted PROVE session'[d] = session[d]
        <3>1. ~session[d].alive /\ stage[d] = "none"
            BY DEF IInv, NumberInv
        <3>2. ASSUME NEW c \in Conns, Reject(c) PROVE session'[d] = session[d]
            <4>1. c # d
                BY <3>1, <3>2 DEF Reject
            <4>2. QED BY <3>2, <4>1, RejectIs DEF IInv
        <3>3. ASSUME NEW s \in Conns, Expire(s) PROVE session'[d] = session[d]
            <4>1. s # d
                BY <3>1, <3>3 DEF Expire
            <4>2. QED BY <3>3, <4>1, ExpireIs DEF IInv
        <3>4. ASSUME NEW c \in Conns, RemoveConnection(c) PROVE session'[d] = session[d]
            <4>1. PICK s \in Conns : s = sessionOf[c]
                <5>1. c \in Accepted
                    BY <3>4 DEF RemoveConnection, IInv, NumberInv
                <5>2. QED BY <5>1 DEF IInv, TypeInv, ServerTypes, Accepted
            <4>2. Leaves(s)
                BY <3>4, <4>1 DEF RemoveConnection
            <4>3. QED BY <3>1, <4>2, LeavesIs DEF IInv
        <3>5. ASSUME NEW c \in Conns, Resume(c) PROVE session'[d] = session[d]
            <4>1. PICK s \in Conns :
                      /\ c \in Accepted /\ Greeted(s)
                      /\ \A t \in Conns \ {s, c} : session'[t] = session[t]
                BY <3>5, ResumeIs DEF IInv
            <4>2. d # c /\ d # s
                BY <3>1, <4>1 DEF Greeted
            <4>3. QED BY <4>1, <4>2
        <3>6. ASSUME NEW c \in Conns, Send(c) PROVE session'[d] = session[d]
            <4>1. PICK s \in Conns, f \in Frames :
                      /\ session[s].alive =>
                            session' = [session EXCEPT ![s].sequence = f.sequence,
                                                       ![s].frames = Keep(Append(@, f))]
                      /\ ~session[s].alive => session' = session
                BY <3>6, SendIs DEF IInv
            <4>2. CASE session[s].alive
                <5>1. \A t \in Conns \ {s} : session'[t] = session[t]
                    BY <4>1, <4>2, RecordIs DEF IInv
                <5>2. QED BY <3>1, <4>2, <5>1
            <4>3. CASE ~session[s].alive
                BY <4>1, <4>3
            <4>4. QED BY <4>2, <4>3
        <3>7. CASE UNCHANGED session
            BY <3>7
        <3>8. QED
            BY <1>2, <3>2, <3>3, <3>4, <3>5, <3>6, <3>7
            DEF Next, Connect, Reconnect, Greet, Serve, ListenerRaises, SocketCloses, ServingEnds,
                ReceiveResume, Goes, Refuse, Replay, ReconnectFails, ReaderRaises, TransportEnds,
                ReceiveSchema, RefuseTransport, ReceiveFrame, ReceiveResumed, Close, vars, server
    <2>4. ASSUME NEW d \in Conns \ Accepted'
          PROVE  d \notin open' /\ ~session'[d].alive /\ ~session'[d].expiring /\ request'[d] = <<>>
        BY <2>1, <2>2, <2>3 DEF IInv, NumberInv
    <2>5. \E n \in 0 .. MaxConns : Accepted' = 1 .. n
        BY <2>1 DEF IInv, NumberInv
    <2>6. QED BY <2>1, <2>4, <2>5 DEF NumberInv
<1>3. QED BY <1>1, <1>2

\* The conjuncts of TakeoverInv for one connection.
Holds(c) ==
    /\ sessionOf[c] = c \/ (sessionOf[c] < c /\ Greeted(sessionOf[c]))
    /\ stage[c] = "admitting" => sessionOf[c] = c
    /\ stage[c] = "authorizing" => request[c] # <<>>
    /\ request[c] # <<>> =>
          sessionOf[c] = c /\ request[c][1].session < c /\ Greeted(request[c][1].session)

LEMMA HoldsAll == TakeoverInv <=> \A c \in Accepted : Holds(c)
BY DEF TakeoverInv, Holds

\* A connection stays in order while its session and request stay as they are.
LEMMA HoldsStays ==
    ASSUME IInv, [Next]_vars, NEW c \in Accepted,
           sessionOf'[c] = sessionOf[c], request'[c] \in {request[c], <<>>},
           stage'[c] = "admitting" => stage[c] = "admitting",
           stage'[c] = "authorizing" => request'[c] # <<>>
    PROVE  Holds(c)'
<1>1. Holds(c)
    BY HoldsAll DEF IInv
<1>2. PICK s : s = sessionOf[c] /\ s = sessionOf'[c]
    OBVIOUS
<1>3. PICK r : r = request[c]
    OBVIOUS
<1>4. s = c \/ (s < c /\ Greeted(s))
    BY <1>1, <1>2 DEF Holds
<1>5. s = c \/ (s < c /\ Greeted(s)')
    BY <1>4, GreetedStays
<1>6. r # <<>> => s = c /\ r[1].session < c /\ Greeted(r[1].session)
    BY <1>1, <1>2, <1>3 DEF Holds
<1>7. PICK t : t = r[1].session
    OBVIOUS
<1>8. r # <<>> => s = c /\ t < c /\ Greeted(t)'
    <2>1. r # <<>> => s = c /\ t < c /\ Greeted(t)
        BY <1>6, <1>7
    <2>2. QED BY <2>1, GreetedStays
<1>9. request'[c] # <<>> => request'[c] = r
    BY <1>3
<1>10. stage'[c] = "admitting" => s = c
    BY <1>1, <1>2 DEF Holds
<1>11. sessionOf'[c] = c \/ (sessionOf'[c] < c /\ Greeted(sessionOf[c])')
    BY <1>2, <1>5 DEF Greeted
<1>12. request'[c] # <<>> =>
          sessionOf'[c] = c /\ request'[c][1].session < c /\ Greeted(request[c][1].session)'
    BY <1>2, <1>7, <1>8, <1>9 DEF Greeted
<1>13. QED BY <1>2, <1>10, <1>11, <1>12 DEF Holds

LEMMA TakeoverStep ==
    ASSUME IInv, TypeInv', NumberInv', [Next]_vars
    PROVE  TakeoverInv'
<1>1. SUFFICES ASSUME NEW d \in Accepted' PROVE Holds(d)'
    BY HoldsAll DEF TakeoverInv, Holds
<1>2. CASE Accept
    <2>1. PICK c \in Conns :
              /\ Accepted = 1 .. c - 1 /\ Accepted' = 1 .. c
              /\ stage' = [stage EXCEPT ![c] = "admitting"]
              /\ sessionOf' = [sessionOf EXCEPT ![c] = c]
              /\ request[c] = <<>>
              /\ UNCHANGED <<request, todo>>
        BY <1>2, AcceptIs DEF IInv
    <2>2. CASE d = c
        BY <2>1, <2>2 DEF Holds, IInv, TypeInv, ServerTypes
    <2>3. CASE d # c
        <3>1. d \in Accepted /\ Holds(d)
            BY <2>1, <2>3, HoldsAll DEF IInv
        <3>2. /\ sessionOf'[d] = sessionOf[d] /\ stage'[d] = stage[d] /\ request'[d] = request[d]
            BY <2>1, <2>3 DEF IInv, TypeInv, ServerTypes
        <3>3. stage[d] = "authorizing" => request[d] # <<>>
            BY <3>1 DEF Holds
        <3>4. QED BY <3>1, <3>2, <3>3, HoldsStays
    <2>4. QED BY <2>2, <2>3
<1>3. CASE ~Accept
    <2>1. d \in Accepted /\ (stage'[d] = "admitting" => stage[d] = "admitting")
        <3>1. Accepted' = Accepted
            BY <1>3, StagesMoveOn
        <3>2. d \in Conns
            BY DEF Accepted
        <3>3. QED BY <1>1, <1>3, <3>1, <3>2, StagesMoveOn
    <2>2. Holds(d) /\ d \in Conns
        BY <2>1, HoldsAll DEF IInv, Accepted
    <2>3. ASSUME NEW c \in Conns, Resume(c) PROVE Holds(d)'
        <3>1. PICK s \in Conns :
                  /\ s < c /\ Greeted(s)
                  /\ sessionOf' = [sessionOf EXCEPT ![c] = s]
                  /\ request' = [request EXCEPT ![c] = <<>>]
                  /\ stage' = [stage EXCEPT ![c] = "replaying"]
            BY <2>3, ResumeIs DEF IInv
        <3>2. CASE d = c
            <4>1. Greeted(s)'
                BY <3>1, GreetedStays
            <4>2. stage'[d] = "replaying" /\ request'[d] = <<>> /\ sessionOf'[d] = s
                BY <2>2, <3>1, <3>2 DEF IInv, TypeInv, ServerTypes
            <4>3. QED BY <3>1, <3>2, <4>1, <4>2 DEF Holds, Greeted
        <3>3. CASE d # c
            <4>1. sessionOf'[d] = sessionOf[d] /\ request'[d] = request[d] /\ stage'[d] = stage[d]
                BY <2>2, <3>1, <3>3 DEF IInv, TypeInv, ServerTypes
            <4>2. stage[d] = "authorizing" => request[d] # <<>>
                BY <2>2 DEF Holds
            <4>3. QED BY <2>1, <4>1, <4>2, HoldsStays
        <3>4. QED BY <3>2, <3>3
    <2>4. CASE ReceiveSchema
        <3>1. /\ link \in Conns /\ Greeted(link) /\ phase = "handshake" /\ sessionId # link
              /\ \/ UNCHANGED request
                 \/ /\ sessionId # None
                    /\ request' = [request EXCEPT
                                     ![link] = <<[session |-> sessionId, last |-> last]>>]
              /\ UNCHANGED <<stage, sessionOf>>
            BY <2>4, ReceiveSchemaIs
        <3>2. CASE request'[d] = request[d]
            <4>1. stage[d] = "authorizing" => request[d] # <<>>
                BY <2>2 DEF Holds
            <4>2. QED BY <2>1, <3>1, <3>2, <4>1, HoldsStays
        <3>3. CASE request'[d] # request[d]
            <4>1. d = link /\ sessionId # None
                  /\ request'[d] = <<[session |-> sessionId, last |-> last]>>
                BY <2>2, <3>1, <3>3 DEF IInv, TypeInv, ServerTypes
            <4>2. PICK s \in Conns : s = sessionId /\ Greeted(s)
                BY <4>1 DEF IInv, ClientInv, Greeted
            <4>3. s \in Accepted /\ Greeted(s)'
                BY <4>2, GreetedStays
            <4>4. \A c \in Accepted : c <= link
                BY <4>1, <3>1 DEF IInv, ClientInv
            <4>5. s <= link
                BY <4>3, <4>4
            <4>6. s < link
                BY <3>1, <4>2, <4>5
            <4>7. sessionOf[link] = link
                BY <3>1 DEF IInv, ClientInv
            <4>8. request'[d] # <<>> /\ request'[d][1].session = s
                BY <4>1, <4>2
            <4>9. sessionOf'[d] = d /\ request'[d][1].session < d
                BY <3>1, <4>1, <4>6, <4>7, <4>8
            <4>10. QED BY <4>3, <4>8, <4>9 DEF Holds, Greeted
        <3>4. QED BY <3>2, <3>3
    <2>5. CASE ~ReceiveSchema /\ ~(\E c \in Conns : Resume(c))
        <3>1. UNCHANGED sessionOf
            BY <1>3, <2>5 DEF Next, Connect, Reconnect, Reject, Greet, Serve, ListenerRaises,
                SocketCloses, ServingEnds, RemoveConnection, Expire, Send, ReceiveResume, Goes,
                Refuse, Replay, ReconnectFails, ReaderRaises, TransportEnds, RefuseTransport,
                ReceiveFrame, ReceiveResumed, Close, vars, server
        <3>2. \/ UNCHANGED request /\ (stage'[d] = "authorizing" => request[d] # <<>>)
              \/ \E c \in Conns : Refuse(c)
            <4>1. stage[d] = "authorizing" => request[d] # <<>>
                BY <2>2 DEF Holds
            <4>2. ASSUME NEW c \in Conns, ReceiveResume(c)
                  PROVE  UNCHANGED request /\ (stage'[d] = "authorizing" => request[d] # <<>>)
                <5>1. request[c] # <<>> /\ stage' = [stage EXCEPT ![c] = "authorizing"]
                      /\ UNCHANGED request
                    BY <4>2 DEF ReceiveResume, Goes, resume
                <5>2. QED BY <2>2, <4>1, <5>1 DEF IInv, TypeInv, ServerTypes
            <4>3. ASSUME UNCHANGED request,
                         \/ UNCHANGED stage
                         \/ \E c \in Conns : \E to \in Stages \ {"authorizing"} :
                               stage' = [stage EXCEPT ![c] = to]
                  PROVE  UNCHANGED request /\ (stage'[d] = "authorizing" => request[d] # <<>>)
                BY <2>2, <4>1, <4>3 DEF IInv, TypeInv, ServerTypes
            <4>4. QED
                BY <1>3, <2>5, <4>2, <4>3 DEF Next, Connect, Reconnect, Reject, Greet, Serve,
                    ListenerRaises, SocketCloses, ServingEnds, RemoveConnection, Expire, Send,
                    Goes, Replay, ReconnectFails, ReaderRaises, TransportEnds, RefuseTransport,
                    ReceiveFrame, ReceiveResumed, Close, vars, server, resume, Stages
        <3>3. CASE UNCHANGED request /\ (stage'[d] = "authorizing" => request[d] # <<>>)
            BY <2>1, <3>1, <3>3, HoldsStays
        <3>4. ASSUME NEW c \in Conns, Refuse(c) PROVE Holds(d)'
            <4>1. /\ request' = [request EXCEPT ![c] = <<>>]
                  /\ \E to \in {"serving", "closing"} : stage' = [stage EXCEPT ![c] = to]
                BY <3>4 DEF Refuse
            <4>2. CASE d = c
                <5>1. request'[d] = <<>> /\ stage'[d] # "authorizing"
                    BY <2>2, <4>1, <4>2 DEF IInv, TypeInv, ServerTypes
                <5>2. QED BY <2>1, <3>1, <5>1, HoldsStays
            <4>3. CASE d # c
                <5>1. request'[d] = request[d] /\ stage'[d] = stage[d]
                    BY <2>2, <4>1, <4>3 DEF IInv, TypeInv, ServerTypes
                <5>2. stage[d] = "authorizing" => request[d] # <<>>
                    BY <2>2 DEF Holds
                <5>3. QED BY <2>1, <3>1, <5>1, <5>2, HoldsStays
            <4>4. QED BY <4>2, <4>3
        <3>5. QED BY <3>2, <3>3, <3>4
    <2>6. QED BY <2>3, <2>4, <2>5
<1>4. QED BY <1>2, <1>3

\* A schema on its way is that of the link.
Schemas == \A i \in DOMAIN inbox :
    inbox[i].type = "schema" => inbox[i].session = link /\ Greeted(link)

LEMMA PushSchemas ==
    ASSUME IInv, [Next]_vars, TypeInv', NEW c \in Conns, NEW msg \in Messages, Push(c, msg),
           link' = link, msg.type = "schema" /\ c \in open => msg.session = c /\ Greeted(c)'
    PROVE  Schemas' /\ (link' = None => inbox' = <<>>)
<1>1. PICK k : k = link /\ k = link'
    OBVIOUS
<1>2. \A i \in DOMAIN inbox : inbox[i].type = "schema" => inbox[i].session = k /\ Greeted(k)'
    BY <1>1, GreetedStays DEF IInv, ClientInv
<1>3. CASE k = c /\ c \in open
    <2>1. inbox \in Seq(Messages) /\ inbox' = Append(inbox, msg)
        BY <1>1, <1>3 DEF IInv, TypeInv, ClientTypes, Push
    <2>2. PICK n \in Nat : n = Len(inbox)
        BY <2>1
    <2>3. /\ DOMAIN inbox = 1 .. n /\ DOMAIN inbox' = 1 .. n + 1
          /\ inbox'[n + 1] = msg /\ \A i \in 1 .. n : inbox'[i] = inbox[i]
        BY <2>1, <2>2, AppendProperties
    <2>4. ASSUME NEW i \in DOMAIN inbox', inbox'[i].type = "schema"
          PROVE  inbox'[i].session = k /\ Greeted(k)'
        <3>1. CASE i = n + 1
            BY <1>3, <2>3, <2>4, <3>1
        <3>2. CASE i \in 1 .. n
            BY <1>2, <2>3, <2>4, <3>2
        <3>3. QED BY <2>3, <3>1, <3>2
    <2>5. Schemas'
        BY <1>1, <2>4 DEF Schemas, Greeted
    <2>6. QED BY <1>1, <1>3, <2>5
<1>4. CASE ~(k = c /\ c \in open)
    <2>1. inbox' = inbox
        BY <1>1, <1>4 DEF Push
    <2>2. QED BY <1>1, <1>2, <2>1 DEF Schemas, Greeted, IInv, ClientInv
<1>5. QED BY <1>3, <1>4

\* What is taken from the inbox leaves the others as they are.
LEMMA TakeSchemas ==
    ASSUME IInv, [Next]_vars, inbox # <<>>, inbox' = Tail(inbox), link' = link
    PROVE  Schemas' /\ (link' = None => inbox' = <<>>)
<1>1. PICK k : k = link /\ k = link'
    OBVIOUS
<1>2. inbox \in Seq(Messages)
    BY DEF IInv, TypeInv, ClientTypes
<1>3. PICK n \in Nat : n = Len(inbox) /\ DOMAIN inbox = 1 .. n
    BY <1>2
<1>4. DOMAIN inbox' = 1 .. n - 1 /\ \A i \in 1 .. n - 1 : inbox'[i] = inbox[i + 1]
    BY <1>2, <1>3
<1>5. \A i \in DOMAIN inbox : inbox[i].type = "schema" => inbox[i].session = k /\ Greeted(k)'
    BY <1>1, GreetedStays DEF IInv, ClientInv
<1>6. ASSUME NEW i \in DOMAIN inbox', inbox'[i].type = "schema"
      PROVE  inbox'[i].session = k /\ Greeted(k)'
    <2>1. i + 1 \in DOMAIN inbox /\ inbox'[i] = inbox[i + 1]
        BY <1>3, <1>4
    <2>2. QED BY <1>5, <1>6, <2>1
<1>7. Schemas'
    BY <1>1, <1>6 DEF Schemas, Greeted
<1>8. QED BY <1>7 DEF IInv, ClientInv

\* The client's session ids, once greeted, remain so.
LEMMA IdsStay ==
    ASSUME IInv, [Next]_vars, sessionId' \in {sessionId, pendingResume},
           pendingResume' \in {pendingResume, sessionId, None}
    PROVE  /\ sessionId' # None => Greeted(sessionId)'
           /\ pendingResume' # None => Greeted(pendingResume)'
<1>1. PICK s, p : s = sessionId' /\ p = pendingResume'
    OBVIOUS
<1>2. s # None => Greeted(s)
    BY <1>1 DEF IInv, ClientInv
<1>3. p # None => Greeted(p)
    BY <1>1 DEF IInv, ClientInv
<1>4. (s # None => Greeted(s)') /\ (p # None => Greeted(p)')
    BY <1>2, <1>3, GreetedStays
<1>5. QED BY <1>1, <1>4 DEF Greeted

LEMMA ServerKeepsClient ==
    ASSUME IInv, TypeInv', [Next]_vars, NEW c \in Conns,
           \/ Reject(c) \/ Greet(c) \/ Serve(c) \/ ListenerRaises(c) \/ SocketCloses(c)
           \/ ServingEnds(c) \/ RemoveConnection(c) \/ Expire(c)
           \/ Send(c) \/ ReceiveResume(c) \/ Refuse(c) \/ Resume(c) \/ Replay(c)
    PROVE  ClientInv'
<1>1. UNCHANGED <<link, phase, sessionId, pendingResume>>
    <2>1. CASE Resume(c) \/ Send(c)
        BY <2>1 DEF Resume, Send, transport, identity
    <2>2. CASE ~(Resume(c) \/ Send(c))
        BY <2>2 DEF Reject, Greet, Serve, ListenerRaises, SocketCloses, ServingEnds, Goes,
            RemoveConnection, Expire, ReceiveResume, Refuse, Replay, client, transport, identity
    <2>3. QED BY <2>1, <2>2
<1>2. /\ sessionId' # None => Greeted(sessionId)'
      /\ pendingResume' # None => Greeted(pendingResume)'
    BY <1>1, IdsStay
<1>3. Schemas' /\ (link' = None => inbox' = <<>>)
    <2>1. ASSUME NEW msg \in Messages, Push(c, msg), msg.type # "schema"
          PROVE  Schemas' /\ (link' = None => inbox' = <<>>)
        BY <1>1, <2>1, PushSchemas
    <2>2. CASE Send(c)
        <3>1. PICK msg \in Messages : Push(c, msg) /\ msg.type = "frame"
            BY <2>2, SendIs DEF IInv
        <3>2. QED BY <2>1, <3>1
    <2>3. CASE Refuse(c)
        <3>1. Resumed(FALSE) \in Messages /\ Push(c, Resumed(FALSE))
            BY <2>3, MessageTypes DEF Refuse
        <3>2. Resumed(FALSE).type # "schema"
            BY DEF Resumed
        <3>3. QED BY <2>1, <3>1, <3>2
    <2>4. CASE Replay(c)
        <3>1. CASE c \in open /\ todo[c] # <<>>
            <4>1. todo[c] \in Seq(Frames)
                BY DEF IInv, TypeInv, ServerTypes
            <4>2. PICK f \in Frames : f = Head(todo[c])
                BY <3>1, <4>1
            <4>3. Push(c, Data(f)) /\ Data(f) \in Messages /\ Data(f).type # "schema"
                BY <2>4, <3>1, <4>2, MessageTypes DEF Replay, Data
            <4>4. QED BY <2>1, <4>3
        <3>2. CASE ~(c \in open /\ todo[c] # <<>>)
            <4>1. Push(c, Resumed(TRUE)) /\ Resumed(TRUE) \in Messages
                BY <2>4, <3>2, MessageTypes DEF Replay
            <4>2. Resumed(TRUE).type # "schema"
                BY DEF Resumed
            <4>3. QED BY <2>1, <4>1, <4>2
        <3>3. QED BY <3>1, <3>2
    <2>5. CASE Greet(c)
        <3>1. Push(c, Schema(c)) /\ Schema(c) \in Messages /\ Schema(c).session = c
            BY <2>5, MessageTypes DEF Greet, Schema
        <3>2. c \in open => Greeted(c)'
            BY <2>5 DEF Greet, Greeted, IInv, TypeInv, ServerTypes
        <3>3. QED BY <1>1, <3>1, <3>2, PushSchemas
    <2>6. CASE UNCHANGED inbox
        <3>1. PICK k : k = link /\ k = link'
            BY <1>1
        <3>2. \A i \in DOMAIN inbox : inbox[i].type = "schema" => inbox[i].session = k /\ Greeted(k)'
            BY <3>1, GreetedStays DEF IInv, ClientInv
        <3>3. QED BY <2>6, <3>1, <3>2 DEF Schemas, Greeted, IInv, ClientInv
    <2>7. QED
        BY <2>2, <2>3, <2>4, <2>5, <2>6 DEF Reject, Serve, ListenerRaises, SocketCloses,
            ServingEnds, Goes, RemoveConnection, Expire, ReceiveResume, Resume, client
<1>4. Accepted' = Accepted
    <2>1. CASE Resume(c)
        <3>1. PICK s \in Conns :
                  c \in Accepted /\ sessionOf' = [sessionOf EXCEPT ![c] = s]
            BY <2>1, ResumeIs DEF IInv
        <3>2. QED BY <3>1 DEF Accepted, IInv, TypeInv, ServerTypes
    <2>2. CASE ~Resume(c)
        <3>1. UNCHANGED sessionOf
            BY <2>2 DEF Reject, Greet, Serve, ListenerRaises, SocketCloses, ServingEnds, Goes,
                RemoveConnection, Expire, Send, ReceiveResume, Refuse, Replay
        <3>2. QED BY <3>1 DEF Accepted
    <2>3. QED BY <2>1, <2>2
<1>5. ASSUME phase' = "handshake"
      PROVE  sessionOf'[link'] = link' /\ request'[link'] = <<>>
    <2>1. sessionOf[link] = link /\ request[link] = <<>> /\ link' = link /\ link \in Conns
        BY <1>1, <1>5 DEF IInv, ClientInv, TypeInv, ClientTypes
    <2>2. CASE Resume(c)
        <3>1. stage[c] = "authorizing" /\ c \in Accepted
            BY <2>2 DEF Resume, IInv, NumberInv
        <3>2. c # link
            BY <2>1, <3>1 DEF IInv, TakeoverInv
        <3>3. \E s \in Conns : sessionOf' = [sessionOf EXCEPT ![c] = s]
            BY <2>2, ResumeIs DEF IInv
        <3>4. request' = [request EXCEPT ![c] = <<>>]
            BY <2>2 DEF Resume
        <3>5. QED BY <2>1, <3>2, <3>3, <3>4
    <2>3. CASE ~Resume(c)
        <3>1. UNCHANGED sessionOf /\ (UNCHANGED request \/ request' = [request EXCEPT ![c] = <<>>])
            BY <2>3 DEF Reject, Greet, Serve, ListenerRaises, SocketCloses, ServingEnds, Goes,
                RemoveConnection, Expire, Send, ReceiveResume, Refuse, Replay, resume
        <3>2. QED BY <2>1, <3>1 DEF IInv, TypeInv, ServerTypes
    <2>4. QED BY <2>2, <2>3
<1>6. /\ link' # None <=> phase' \in {"handshake", "reading"}
      /\ link' # None => link' \in Accepted' /\ \A d \in Accepted' : d <= link'
      /\ phase' = "handshake" => sessionId' # link'
    BY <1>1, <1>4 DEF IInv, ClientInv
<1>7. QED BY <1>2, <1>3, <1>5, <1>6 DEF ClientInv, Schemas

LEMMA AcceptKeepsClient ==
    ASSUME IInv, TypeInv', [Next]_vars, Connect \/ Reconnect
    PROVE  ClientInv'
<1>1. Accept /\ phase \in {"dialing", "backoff"} /\ UNCHANGED <<sessionId, pendingResume, inbox>>
    BY DEF Connect, Reconnect, identity
<1>2. PICK c \in Conns :
          /\ Accepted = 1 .. c - 1 /\ Accepted' = 1 .. c
          /\ stage[c] = "none"
          /\ sessionOf' = [sessionOf EXCEPT ![c] = c]
          /\ request[c] = <<>>
          /\ link' = c /\ phase' = "handshake"
          /\ UNCHANGED <<request, todo>>
    BY <1>1, AcceptIs DEF IInv
<1>3. /\ sessionId' # None => Greeted(sessionId)'
      /\ pendingResume' # None => Greeted(pendingResume)'
    BY <1>1, IdsStay
<1>4. inbox' = <<>> /\ DOMAIN inbox' = {}
    <2>1. inbox' = <<>>
        BY <1>1 DEF IInv, ClientInv
    <2>2. QED BY <2>1
<1>5. sessionId' # c
    BY <1>1, <1>2 DEF IInv, ClientInv, Greeted
<1>6. c \in Accepted' /\ \A d \in Accepted' : d <= c
    BY <1>2
<1>7. sessionOf'[c] = c /\ request'[c] = <<>>
    BY <1>2 DEF IInv, TypeInv, ServerTypes
<1>8. QED BY <1>2, <1>3, <1>4, <1>5, <1>6, <1>7 DEF ClientInv

LEMMA ClientKeepsClient ==
    ASSUME IInv, TypeInv', [Next]_vars,
           \/ ReconnectFails \/ ReaderRaises
           \/ \E final \in BOOLEAN : TransportEnds(final)
           \/ ReceiveSchema \/ RefuseTransport \/ ReceiveFrame \/ ReceiveResumed
           \/ Close \/ UNCHANGED vars
    PROVE  ClientInv'
<1>1. Accepted' = Accepted
    BY DEF ReconnectFails, ReaderRaises, TransportEnds, ReceiveSchema, RefuseTransport,
           ReceiveFrame, ReceiveResumed, Close, vars, server, Accepted
<1>2. /\ sessionId' # None => Greeted(sessionId)'
      /\ pendingResume' # None => Greeted(pendingResume)'
    <2>1. CASE ReceiveSchema
        <3>1. PICK k, p : k = link /\ k = sessionId' /\ p = pendingResume' /\ Greeted(k)
                          /\ p \in {sessionId, pendingResume}
            BY <2>1, ReceiveSchemaIs
        <3>2. p # None => Greeted(p)
            BY <3>1 DEF IInv, ClientInv
        <3>3. Greeted(k)' /\ (p # None => Greeted(p)')
            BY <3>1, <3>2, GreetedStays
        <3>4. QED BY <3>1, <3>3 DEF Greeted
    <2>2. CASE ~ReceiveSchema
        <3>1. sessionId' \in {sessionId, pendingResume}
              /\ pendingResume' \in {pendingResume, sessionId, None}
            BY <2>2 DEF ReconnectFails, ReaderRaises, TransportEnds, RefuseTransport,
                ReceiveFrame, ReceiveResumed, Close, vars, client, identity
        <3>2. QED BY <3>1, IdsStay
    <2>3. QED BY <2>1, <2>2
<1>3. ASSUME NEW final \in BOOLEAN, Transport(final)
      PROVE  ClientInv'
    <2>1. link' = None /\ inbox' = <<>> /\ phase' \in {"backoff", "ended"}
        BY <1>3, TransportIs DEF IInv
    <2>2. DOMAIN inbox' = {}
        BY <2>1
    <2>3. QED BY <1>2, <2>1, <2>2 DEF ClientInv
<1>4. ASSUME link' = link, inbox' = inbox \/ (inbox # <<>> /\ inbox' = Tail(inbox)),
             phase' = "handshake" => phase = "handshake" /\ UNCHANGED <<sessionId, request>>,
             phase' \in {"handshake", "reading"} <=> phase \in {"handshake", "reading"},
             UNCHANGED sessionOf
      PROVE  ClientInv'
    <2>1. Schemas' /\ (link' = None => inbox' = <<>>)
        <3>1. CASE inbox' = inbox
            <4>1. PICK k : k = link /\ k = link'
                BY <1>4
            <4>2. \A i \in DOMAIN inbox :
                     inbox[i].type = "schema" => inbox[i].session = k /\ Greeted(k)'
                BY <4>1, GreetedStays DEF IInv, ClientInv
            <4>3. QED BY <3>1, <4>1, <4>2 DEF Schemas, Greeted, IInv, ClientInv
        <3>2. QED BY <1>4, <3>1, TakeSchemas
    <2>2. /\ link' # None <=> phase' \in {"handshake", "reading"}
          /\ link' # None => link' \in Accepted' /\ \A d \in Accepted' : d <= link'
        BY <1>1, <1>4 DEF IInv, ClientInv
    <2>3. phase' = "handshake" =>
             /\ sessionId' # link'
             /\ sessionOf'[link'] = link' /\ request'[link'] = <<>>
        BY <1>4 DEF IInv, ClientInv
    <2>4. QED BY <1>2, <2>1, <2>2, <2>3 DEF ClientInv, Schemas
<1>5. CASE ReceiveSchema
    <2>1. CASE \E final \in BOOLEAN : Transport(final)
        BY <1>3, <2>1
    <2>2. CASE ~(\E final \in BOOLEAN : Transport(final))
        <3>1. /\ phase = "handshake" /\ phase' = "reading" /\ inbox # <<>>
              /\ inbox' = Tail(inbox) /\ UNCHANGED <<link, sessionOf>>
            BY <1>5, <2>2, ReceiveSchemaIs
        <3>2. QED BY <1>4, <3>1
    <2>3. QED BY <2>1, <2>2
<1>6. CASE ReconnectFails \/ ReaderRaises
    <2>1. /\ phase = "backoff" /\ phase' \notin {"handshake", "reading"}
          /\ UNCHANGED <<link, inbox, sessionOf>>
        BY <1>6 DEF ReconnectFails, ReaderRaises, Retry, server
    <2>2. QED BY <1>4, <2>1
<1>7. CASE ReceiveFrame \/ ReceiveResumed
    <2>1. /\ phase = "reading" /\ phase' = "reading" /\ inbox # <<>>
          /\ inbox' = Tail(inbox) /\ UNCHANGED <<link, sessionOf>>
        BY <1>7 DEF ReceiveFrame, ReceiveResumed, Arrives, server, transport
    <2>2. QED BY <1>4, <2>1
<1>8. CASE Close \/ UNCHANGED vars
    <2>1. UNCHANGED <<link, phase, sessionId, request, inbox, sessionOf>>
        BY <1>8 DEF Close, vars, server, client, transport, identity, resume
    <2>2. QED BY <1>4, <2>1
<1>9. CASE RefuseTransport \/ \E final \in BOOLEAN : TransportEnds(final)
    <2>1. PICK final \in BOOLEAN : Transport(final)
        BY <1>9 DEF RefuseTransport, TransportEnds
    <2>2. QED BY <1>3, <2>1
<1>10. QED BY <1>5, <1>6, <1>7, <1>8, <1>9

-----------------------------------------------------------------------------
(* Types and order of the whole system *)

LEMMA InitInv ==
    ASSUME Init
    PROVE  IInv
<1>1. TypeInv
    <2>1. <<>> \in Seq(Frames) /\ <<>> \in Seq(Requests) /\ <<>> \in Seq(Messages) /\ Len(<<>>) = 0
        OBVIOUS
    <2>2. PICK r : r = [alive |-> FALSE, sequence |-> 0, frames |-> <<>>, expiring |-> FALSE]
        OBVIOUS
    <2>3. r \in Sessions /\ Len(r.frames) = 0 /\ r.sequence = 0
        BY <2>1, <2>2 DEF Sessions
    <2>4. session = [s \in Conns |-> r]
        BY <2>2 DEF Init
    <2>5. ServerTypes
        <3>1. 0 \in 0 .. MaxSends /\ Fits(0)
            BY DEF Fits
        <3>2. \A s \in Conns : session[s] = r
            BY <2>4
        <3>3. /\ session \in [Conns -> Sessions] /\ sent = 0
              /\ \A s \in Conns : Fits(Len(session[s].frames)) /\ session[s].sequence <= sent
            <4>1. session \in [Conns -> Sessions] /\ sent = 0
                BY <2>3, <2>4 DEF Init
            <4>2. \A s \in Conns : Len(session[s].frames) = 0 /\ session[s].sequence = 0
                BY <2>3, <3>2
            <4>3. Fits(0) /\ 0 <= 0
                BY DEF Fits
            <4>4. QED BY <4>1, <4>2, <4>3
        <3>4. /\ stage \in [Conns -> Stages] /\ open \subseteq Conns
              /\ sessionOf \in [Conns -> Conns \cup {None}]
            BY DEF Init, Stages
        <3>5. /\ request \in [Conns -> Seq(Requests)] /\ todo \in [Conns -> Seq(Frames)]
              /\ \A c \in Conns : Len(request[c]) <= 1
            BY <2>1 DEF Init
        <3>6. QED BY <3>1, <3>3, <3>4, <3>5 DEF ServerTypes
    <2>6. ClientTypes
        <3>1. 0 \in 0 .. MaxSends /\ 0 \in 0 .. Attempts
            OBVIOUS
        <3>2. QED BY <2>1, <3>1 DEF Init, ClientTypes, Phases, Oddities
    <2>7. QED BY <2>5, <2>6 DEF TypeInv
<1>2. BufferInv
    <2>1. Len(<<>>) = 0 /\ DOMAIN <<>> = {}
        OBVIOUS
    <2>2. QED BY <2>1 DEF Init, BufferInv
<1>3. Accepted = {} /\ Accepted = 1 .. 0
    BY DEF Init, Accepted
<1>4. NumberInv
    BY <1>3 DEF Init, NumberInv
<1>5. TakeoverInv
    BY <1>3 DEF TakeoverInv
<1>6. ClientInv
    <2>1. DOMAIN inbox = {}
        BY DEF Init
    <2>2. QED BY <2>1 DEF Init, ClientInv
<1>7. QED BY <1>1, <1>2, <1>4, <1>5, <1>6 DEF IInv

LEMMA StepInv ==
    ASSUME IInv, [Next]_vars
    PROVE  IInv'
<1>1. TypeInv' /\ BufferInv'
    BY TypeStep, BufferStep
<1>2. NumberInv'
    BY <1>1, NumberStep
<1>3. TakeoverInv'
    BY <1>1, <1>2, TakeoverStep
<1>4. ClientInv'
    <2>1. ASSUME NEW c \in Conns,
                 \/ Reject(c) \/ Greet(c) \/ Serve(c) \/ ListenerRaises(c) \/ SocketCloses(c)
                 \/ ServingEnds(c) \/ RemoveConnection(c) \/ Expire(c)
                 \/ Send(c) \/ ReceiveResume(c) \/ Refuse(c) \/ Resume(c) \/ Replay(c)
          PROVE  ClientInv'
        BY <1>1, <2>1, ServerKeepsClient
    <2>2. CASE Connect \/ Reconnect
        BY <1>1, <2>2, AcceptKeepsClient
    <2>3. CASE \/ ReconnectFails \/ ReaderRaises
               \/ \E final \in BOOLEAN : TransportEnds(final)
               \/ ReceiveSchema \/ RefuseTransport \/ ReceiveFrame \/ ReceiveResumed
               \/ Close \/ UNCHANGED vars
        BY <1>1, <2>3, ClientKeepsClient
    <2>4. QED BY <2>1, <2>2, <2>3 DEF Next
<1>5. QED BY <1>1, <1>2, <1>3, <1>4 DEF IInv

LEMMA Invariance == Spec => []IInv
<1>1. Init => IInv
    BY InitInv
<1>2. IInv /\ [Next]_vars => IInv'
    BY StepInv
<1>3. QED BY <1>1, <1>2, PTL DEF Spec

\* Every state of server and client has its type: no session's buffer outgrows
\* max_packets, a connection has at most one resume under way, and the client
\* never counts more attempts than it has.
THEOREM TypeCorrect == Spec => []TypeOK
<1>1. IInv => TypeOK
    <2>1. SUFFICES ASSUME IInv PROVE TypeOK
        OBVIOUS
    <2>2. ServerTypes /\ ClientTypes
        BY <2>1 DEF IInv, TypeInv
    <2>3. ASSUME NEW s \in Conns
          PROVE  /\ {session[s].alive, session[s].expiring} \subseteq BOOLEAN
                 /\ session[s].sequence \in 0 .. MaxSends
                 /\ session[s].frames \in Seq(Frames)
        <3>1. session[s] \in Sessions
            BY <2>2 DEF ServerTypes
        <3>2. QED BY <3>1 DEF Sessions
    <2>4. {closed, intentionalClose} \subseteq BOOLEAN
        BY <2>2 DEF ClientTypes
    <2>5. \A s \in Conns : Fits(Len(session[s].frames))
        BY <2>2 DEF ServerTypes
    <2>6. \A c \in Conns : Len(request[c]) <= 1 /\ todo[c] \in Seq(Frames)
        BY <2>2 DEF ServerTypes
    <2>7. /\ stage \in [Conns -> Stages] /\ open \subseteq Conns
          /\ sessionOf \in [Conns -> Conns \cup {None}]
          /\ sent \in 0 .. MaxSends
        BY <2>2 DEF ServerTypes
    <2>8. /\ link \in Conns \cup {None} /\ phase \in Phases /\ attempt \in 0 .. Attempts
          /\ {sessionId, pendingResume} \subseteq Conns \cup {None}
          /\ last \in 0 .. MaxSends /\ delivered \in Seq(Frames) /\ odd \subseteq Oddities
        BY <2>2 DEF ClientTypes
    <2>9. QED BY <2>3, <2>4, <2>5, <2>6, <2>7, <2>8 DEF TypeOK
<1>2. QED BY <1>1, Invariance, PTL

-----------------------------------------------------------------------------
(* A session and its owner *)

Kept(s) == session[s].alive /\ ~session[s].expiring

\* SessionFollowsOwner, with its two halves named.
OwnedInv == \A s \in Conns : Kept(s) => \E c \in Registered : sessionOf[c] = s
Owners == {c \in Registered : ~Superseded(c) /\ stage[c] # "leaked"}
OwnerInv == "staleOwner" \notin odd => \A c \in Owners : Kept(sessionOf[c])

LEMMA FollowsIs == SessionFollowsOwner <=> OwnedInv /\ OwnerInv
BY DEF SessionFollowsOwner, OwnedInv, OwnerInv, Owners, Kept

\* What a connection without a later one in its session is told apart by.
LEMMA LastOwner ==
    ASSUME IInv, NEW c \in Accepted, NEW d \in Accepted, c # d, sessionOf[c] = sessionOf[d]
    PROVE  Superseded(c) \/ Superseded(d)
<1>1. c \in Nat /\ d \in Nat
    BY DEF Accepted
<1>2. c < d \/ d < c
    BY <1>1
<1>3. QED BY <1>2 DEF Superseded

\* Tasks move on and sessions stay: nothing changes but that tasks may leak.
LEMMA MovesKeepOwners ==
    ASSUME IInv, [Next]_vars, OwnedInv, OwnerInv, UNCHANGED sessionOf,
           "staleOwner" \in odd' <=> "staleOwner" \in odd,
           \A s \in Conns : Kept(s)' <=> Kept(s),
           Registered' = Registered,
           \A c \in Registered : stage'[c] # "leaked" => stage[c] # "leaked"
    PROVE  OwnedInv' /\ OwnerInv'
<1>1. \A c \in Registered : Superseded(c)' <=> Superseded(c)
    BY DEF Superseded, Accepted
<1>2. \A c \in Registered : sessionOf[c] \in Conns
    BY DEF Registered, IInv, NumberInv, TypeInv, ServerTypes, Accepted
<1>3. OwnedInv'
    BY DEF OwnedInv
<1>4. OwnerInv'
    <2>1. SUFFICES ASSUME "staleOwner" \notin odd, NEW c \in Owners' PROVE Kept(sessionOf[c])'
        BY DEF OwnerInv
    <2>2. c \in Registered /\ ~Superseded(c) /\ stage[c] # "leaked"
        BY <1>1 DEF Owners
    <2>3. PICK s \in Conns : s = sessionOf[c] /\ Kept(s)
        BY <1>2, <2>1, <2>2 DEF OwnerInv, Owners
    <2>4. Kept(s)'
        BY <2>3
    <2>5. QED BY <2>3, <2>4 DEF Kept
<1>5. QED BY <1>3, <1>4

LEMMA AcceptKeepsOwners ==
    ASSUME IInv, OwnedInv, OwnerInv, Accept, UNCHANGED odd
    PROVE  OwnedInv' /\ OwnerInv'
<1>1. PICK c \in Conns :
          /\ Accepted = 1 .. c - 1 /\ Accepted' = 1 .. c
          /\ stage[c] = "none" /\ stage' = [stage EXCEPT ![c] = "admitting"]
          /\ sessionOf' = [sessionOf EXCEPT ![c] = c]
          /\ \A t \in Conns \ {c} : session'[t] = session[t]
          /\ session'[c].alive /\ ~session'[c].expiring
    BY AcceptIs DEF IInv
<1>2. sessionOf'[c] = c /\ stage'[c] = "admitting"
      /\ \A d \in Conns \ {c} : sessionOf'[d] = sessionOf[d] /\ stage'[d] = stage[d]
    BY <1>1 DEF IInv, TypeInv, ServerTypes
<1>3. Kept(c)' /\ \A t \in Conns \ {c} : Kept(t)' <=> Kept(t)
    BY <1>1 DEF Kept
<1>4. c \in Registered' /\ Registered \subseteq Registered' /\ c \notin Registered
      /\ \A d \in Registered' : d = c \/ d \in Registered
    BY <1>1, <1>2 DEF Registered
<1>5. OwnedInv'
    <2>1. SUFFICES ASSUME NEW s \in Conns, Kept(s)' PROVE \E d \in Registered' : sessionOf'[d] = s
        BY DEF OwnedInv
    <2>2. CASE s = c
        BY <1>2, <1>4, <2>2
    <2>3. CASE s # c
        <3>1. PICK d \in Registered : sessionOf[d] = s
            BY <1>3, <2>1, <2>3 DEF OwnedInv
        <3>2. d # c /\ d \in Conns
            BY <1>4, <3>1 DEF Registered
        <3>3. QED BY <1>2, <1>4, <3>1, <3>2
    <2>4. QED BY <2>2, <2>3
<1>6. OwnerInv'
    <2>1. SUFFICES ASSUME "staleOwner" \notin odd, NEW d \in Owners' PROVE Kept(sessionOf[d])'
        BY DEF OwnerInv
    <2>2. d \in Registered' /\ ~Superseded(d)' /\ stage'[d] # "leaked"
        BY DEF Owners
    <2>3. CASE d = c
        BY <1>2, <1>3, <2>3 DEF Kept
    <2>4. CASE d # c
        <3>1. d \in Registered /\ d \in Conns /\ sessionOf'[d] = sessionOf[d] /\ stage'[d] = stage[d]
            BY <1>2, <1>4, <2>2, <2>4 DEF Registered
        <3>2. ~Superseded(d)
            <4>1. ASSUME NEW e \in Accepted, e > d, sessionOf[e] = sessionOf[d]
                  PROVE  Superseded(d)'
                <5>1. e \in Accepted' /\ e # c
                    BY <1>1
                <5>2. sessionOf'[e] = sessionOf'[d]
                    BY <1>2, <3>1, <4>1, <5>1 DEF Accepted
                <5>3. QED BY <4>1, <5>1, <5>2 DEF Superseded
            <4>2. QED BY <2>2, <4>1 DEF Superseded
        <3>3. d \in Accepted
            BY <3>1 DEF Registered, IInv, NumberInv
        <3>4. PICK s \in Conns : s = sessionOf[d] /\ Kept(s)
            BY <2>1, <2>2, <3>1, <3>2, <3>3 DEF OwnerInv, Owners, Accepted, IInv, TypeInv, ServerTypes
        <3>5. s # c
            <4>1. s <= d /\ d < c
                BY <1>1, <3>3, <3>4 DEF IInv, TakeoverInv, Accepted
            <4>2. d \in Nat /\ c \in Nat
                BY <3>1
            <4>3. QED BY <4>1, <4>2
        <3>6. Kept(s)' /\ s = sessionOf'[d]
            BY <1>3, <3>1, <3>4, <3>5
        <3>7. QED BY <3>6 DEF Kept
    <2>5. QED BY <2>3, <2>4
<1>7. QED BY <1>5, <1>6

\* A handler task at its end: its connection leaves, and with it one session at
\* most loses its keeper - never one that another connection owns.
LEMMA LeavingKeepsOwners ==
    ASSUME IInv, OwnedInv, OwnerInv, NEW c \in Accepted, NEW s \in Conns,
           UNCHANGED sessionOf, stage' = [stage EXCEPT ![c] = "gone"],
           "staleOwner" \in odd => "staleOwner" \in odd',
           s = sessionOf[c], ~Kept(s)',
           \A t \in Conns \ {s} : session'[t] = session[t],
           \A d \in Registered \ {c} :
              "staleOwner" \notin odd' /\ ~Superseded(d) => sessionOf[d] # s
    PROVE  OwnedInv' /\ OwnerInv'
<1>1. c \in Conns /\ stage'[c] = "gone" /\ \A d \in Conns \ {c} : stage'[d] = stage[d]
    BY DEF IInv, TypeInv, ServerTypes, Accepted
<1>2. Registered' = Registered \ {c}
    BY <1>1 DEF Registered
<1>3. \A t \in Conns \ {s} : Kept(t)' <=> Kept(t)
    BY DEF Kept
<1>4. OwnedInv'
    <2>1. SUFFICES ASSUME NEW t \in Conns, Kept(t)' PROVE \E d \in Registered' : sessionOf'[d] = t
        BY DEF OwnedInv
    <2>2. t # s /\ Kept(t)
        BY <1>3, <2>1
    <2>3. PICK d \in Registered : sessionOf[d] = t
        BY <2>2 DEF OwnedInv
    <2>4. QED BY <1>2, <2>2, <2>3
<1>5. OwnerInv'
    <2>1. SUFFICES ASSUME "staleOwner" \notin odd', NEW d \in Owners' PROVE Kept(sessionOf[d])'
        BY DEF OwnerInv
    <2>2. d \in Registered \ {c} /\ ~Superseded(d)' /\ stage'[d] # "leaked" /\ d \in Conns
        BY <1>2 DEF Owners, Registered
    <2>3. ~Superseded(d) /\ stage[d] # "leaked"
        BY <1>1, <2>2 DEF Superseded, Accepted
    <2>4. sessionOf[d] # s /\ Kept(sessionOf[d]) /\ sessionOf[d] \in Conns
        BY <2>1, <2>2, <2>3 DEF OwnerInv, Owners, Registered, IInv, NumberInv, TypeInv, ServerTypes,
                                Accepted
    <2>5. PICK t \in Conns : t = sessionOf[d] /\ t # s /\ Kept(t)
        BY <2>4
    <2>6. Kept(t)' /\ t = sessionOf'[d]
        BY <1>3, <2>5
    <2>7. QED BY <2>6 DEF Kept
<1>6. QED BY <1>4, <1>5

LEMMA RejectKeepsOwners ==
    ASSUME IInv, OwnedInv, OwnerInv, NEW c \in Conns, Reject(c)
    PROVE  OwnedInv' /\ OwnerInv'
<1>1. /\ stage[c] = "admitting" /\ stage' = [stage EXCEPT ![c] = "gone"]
      /\ UNCHANGED <<sessionOf, odd>>
    BY DEF Reject, client, history
<1>2. c \in Accepted /\ sessionOf[c] = c
    BY <1>1 DEF IInv, NumberInv, TakeoverInv
<1>3. ~Kept(c)' /\ \A t \in Conns \ {c} : session'[t] = session[t]
    BY RejectIs DEF Kept, IInv
<1>4. ASSUME NEW d \in Registered \ {c} PROVE sessionOf[d] # c
    <2>1. d \in Accepted
        BY DEF Registered, IInv, NumberInv
    <2>2. sessionOf[d] = d \/ Greeted(sessionOf[d])
        BY <2>1 DEF IInv, TakeoverInv
    <2>3. ~Greeted(c)
        BY <1>1 DEF Greeted
    <2>4. QED BY <2>2, <2>3
<1>5. QED BY <1>1, <1>2, <1>3, <1>4, LeavingKeepsOwners

LEMMA RemoveKeepsOwners ==
    ASSUME IInv, OwnedInv, OwnerInv, NEW c \in Conns, RemoveConnection(c)
    PROVE  OwnedInv' /\ OwnerInv'
<1>1. /\ stage[c] = "closing" /\ stage' = [stage EXCEPT ![c] = "gone"]
      /\ UNCHANGED sessionOf /\ Leaves(sessionOf[c])
      /\ "staleOwner" \in odd => "staleOwner" \in odd'
      /\ Superseded(c) => "staleOwner" \in odd'
    BY DEF RemoveConnection
<1>2. c \in Accepted
    BY <1>1 DEF IInv, NumberInv
<1>3. PICK s \in Conns : s = sessionOf[c] /\ Leaves(s)
    BY <1>1, <1>2 DEF Accepted, IInv, TypeInv, ServerTypes
<1>4. ~Kept(s)' /\ \A t \in Conns \ {s} : session'[t] = session[t]
    <2>1. /\ \A t \in Conns \ {s} : session'[t] = session[t]
          /\ session'[s].alive = session[s].alive
          /\ session'[s].alive => session'[s].expiring
          /\ ~session[s].alive => session' = session
        BY <1>3, LeavesIs DEF IInv
    <2>2. QED BY <2>1 DEF Kept
<1>5. ASSUME NEW d \in Registered \ {c}, "staleOwner" \notin odd', ~Superseded(d)
      PROVE  sessionOf[d] # s
    <2>1. d \in Accepted
        BY DEF Registered, IInv, NumberInv
    <2>2. QED BY <1>1, <1>2, <1>3, <1>5, <2>1, LastOwner
<1>6. QED BY <1>1, <1>2, <1>3, <1>4, <1>5, LeavingKeepsOwners

LEMMA ResumeKeepsOwners ==
    ASSUME IInv, OwnedInv, OwnerInv, NEW c \in Conns, Resume(c)
    PROVE  OwnedInv' /\ OwnerInv'
<1>1. PICK s \in Conns :
          /\ stage[c] = "authorizing" /\ c \in Accepted
          /\ sessionOf[c] = c /\ s < c /\ Greeted(s)
          /\ \A t \in Conns \ {s, c} : session'[t] = session[t]
          /\ ~session'[c].alive /\ session'[s].alive /\ ~session'[s].expiring
          /\ sessionOf' = [sessionOf EXCEPT ![c] = s]
          /\ stage' = [stage EXCEPT ![c] = "replaying"]
          /\ "staleOwner" \in odd' <=> "staleOwner" \in odd \/ Superseded(c)
    BY ResumeIs DEF IInv
<1>2. /\ sessionOf'[c] = s /\ stage'[c] = "replaying"
      /\ \A d \in Conns \ {c} : sessionOf'[d] = sessionOf[d] /\ stage'[d] = stage[d]
    BY <1>1 DEF IInv, TypeInv, ServerTypes
<1>3. Kept(s)' /\ ~Kept(c)' /\ \A t \in Conns \ {s, c} : Kept(t)' <=> Kept(t)
    BY <1>1 DEF Kept
<1>4. Registered' = Registered /\ c \in Registered
    BY <1>1, <1>2 DEF Registered
<1>5. OwnedInv'
    <2>1. SUFFICES ASSUME NEW t \in Conns, Kept(t)' PROVE \E d \in Registered' : sessionOf'[d] = t
        BY DEF OwnedInv
    <2>2. CASE t = s
        BY <1>2, <1>4, <2>2
    <2>3. CASE t # s
        <3>1. t # c /\ Kept(t)
            BY <1>3, <2>1, <2>3
        <3>2. PICK d \in Registered : sessionOf[d] = t
            BY <3>1 DEF OwnedInv
        <3>3. d # c /\ d \in Conns
            BY <1>1, <3>1, <3>2 DEF Registered
        <3>4. QED BY <1>2, <1>4, <3>2, <3>3
    <2>4. QED BY <2>2, <2>3
<1>6. OwnerInv'
    <2>1. SUFFICES ASSUME "staleOwner" \notin odd', NEW d \in Owners' PROVE Kept(sessionOf[d])'
        BY DEF OwnerInv
    <2>2. d \in Registered /\ ~Superseded(d)' /\ stage'[d] # "leaked" /\ d \in Conns
        BY <1>4 DEF Owners, Registered
    <2>3. PICK t : t = sessionOf'[d]
        OBVIOUS
    <2>4. CASE t = s
        BY <1>3, <2>3, <2>4 DEF Kept
    <2>5. CASE t # s
        <3>1. d # c /\ sessionOf[d] = t /\ stage[d] # "leaked"
            BY <1>2, <2>2, <2>3, <2>5
        <3>2. d \in Accepted
            BY <2>2 DEF Registered, IInv, NumberInv
        <3>3. t # c
            <4>1. SUFFICES ASSUME t = c PROVE FALSE
                OBVIOUS
            <4>2. sessionOf[d] = c /\ d # c /\ (sessionOf[d] = d \/ sessionOf[d] < d)
                BY <3>1, <3>2, <4>1 DEF IInv, TakeoverInv
            <4>3. d > c /\ sessionOf[d] = sessionOf[c]
                BY <1>1, <4>2
            <4>4. Superseded(c)
                BY <3>2, <4>3 DEF Superseded
            <4>5. QED BY <1>1, <2>1, <4>4
        <3>4. ~Superseded(d)
            <4>1. ASSUME NEW e \in Accepted, e > d, sessionOf[e] = sessionOf[d]
                  PROVE  Superseded(d)'
                <5>1. e # c /\ e \in Conns
                    BY <1>1, <3>1, <3>3, <4>1 DEF Accepted
                <5>2. sessionOf'[e] = sessionOf'[d] /\ sessionOf'[e] # None
                    BY <1>2, <2>2, <3>1, <4>1, <5>1 DEF Accepted
                <5>3. e \in Accepted'
                    BY <5>1, <5>2 DEF Accepted
                <5>4. QED BY <4>1, <5>2, <5>3 DEF Superseded
            <4>2. QED BY <2>2, <4>1 DEF Superseded
        <3>5. Kept(t) /\ t \in Conns
            <4>1. "staleOwner" \notin odd
                BY <1>1, <2>1
            <4>2. Kept(sessionOf[d])
                BY <2>2, <3>1, <3>4, <4>1 DEF OwnerInv, Owners
            <4>3. QED BY <3>1, <3>2, <4>2 DEF IInv, TypeInv, ServerTypes, Accepted
        <3>6. Kept(t)'
            BY <1>3, <2>5, <3>3, <3>5
        <3>7. QED BY <2>3, <3>6 DEF Kept
    <2>6. QED BY <2>4, <2>5
<1>7. QED BY <1>5, <1>6

LEMMA ExpireKeepsOwners ==
    ASSUME IInv, [Next]_vars, OwnedInv, OwnerInv, NEW s \in Conns, Expire(s)
    PROVE  OwnedInv' /\ OwnerInv'
<1>1. /\ \A t \in Conns \ {s} : session'[t] = session[t]
      /\ session[s].expiring /\ ~session'[s].alive
    BY ExpireIs DEF IInv
<1>2. \A t \in Conns : Kept(t)' <=> Kept(t)
    BY <1>1 DEF Kept
<1>3. UNCHANGED <<stage, sessionOf, odd>>
    BY DEF Expire, client, history
<1>4. QED BY <1>2, <1>3, MovesKeepOwners DEF Registered

LEMMA SendKeepsOwners ==
    ASSUME IInv, [Next]_vars, OwnedInv, OwnerInv, NEW c \in Conns, Send(c)
    PROVE  OwnedInv' /\ OwnerInv'
<1>1. PICK s \in Conns, f \in Frames :
          /\ session[s].alive =>
                session' = [session EXCEPT ![s].sequence = f.sequence,
                                           ![s].frames = Keep(Append(@, f))]
          /\ ~session[s].alive => session' = session
          /\ odd \subseteq odd'
          /\ "staleOwner" \in odd' => "staleOwner" \in odd
          /\ UNCHANGED <<stage, sessionOf>>
    BY SendIs DEF IInv
<1>2. \A t \in Conns : Kept(t)' <=> Kept(t)
    <2>1. CASE session[s].alive
        <3>1. /\ \A t \in Conns \ {s} : session'[t] = session[t]
              /\ session'[s].alive /\ session'[s].expiring = session[s].expiring
            BY <1>1, <2>1, RecordIs DEF IInv
        <3>2. QED BY <2>1, <3>1 DEF Kept
    <2>2. CASE ~session[s].alive
        BY <1>1, <2>2 DEF Kept
    <2>3. QED BY <2>1, <2>2
<1>3. QED BY <1>1, <1>2, MovesKeepOwners DEF Registered

LEMMA TasksKeepOwners ==
    ASSUME IInv, [Next]_vars, OwnedInv, OwnerInv, UNCHANGED <<session, sessionOf>>,
           "staleOwner" \in odd' <=> "staleOwner" \in odd,
           \/ UNCHANGED stage
           \/ \E c \in Conns : \E to \in Stages \ {"none", "gone"} :
                 stage[c] \notin {"none", "gone", "leaked"} /\ stage' = [stage EXCEPT ![c] = to]
    PROVE  OwnedInv' /\ OwnerInv'
<1>1. \A t \in Conns : Kept(t)' <=> Kept(t)
    BY DEF Kept
<1>2. /\ Registered' = Registered
      /\ \A c \in Registered : stage'[c] # "leaked" => stage[c] # "leaked"
    BY DEF Registered, IInv, TypeInv, ServerTypes
<1>3. QED BY <1>1, <1>2, MovesKeepOwners

LEMMA OwnerStep ==
    ASSUME IInv, [Next]_vars, OwnedInv, OwnerInv
    PROVE  OwnedInv' /\ OwnerInv'
<1>1. CASE Connect \/ Reconnect
    <2>1. Accept /\ UNCHANGED odd
        BY <1>1 DEF Connect, Reconnect, history
    <2>2. QED BY <2>1, AcceptKeepsOwners
<1>2. ASSUME NEW c \in Conns,
             \/ Reject(c) \/ RemoveConnection(c) \/ Expire(c) \/ Resume(c) \/ Send(c)
      PROVE  OwnedInv' /\ OwnerInv'
    BY <1>2, RejectKeepsOwners, RemoveKeepsOwners, ExpireKeepsOwners, ResumeKeepsOwners,
       SendKeepsOwners
<1>3. ASSUME NEW c \in Conns,
             \/ Greet(c) \/ Serve(c) \/ ListenerRaises(c) \/ SocketCloses(c)
             \/ ServingEnds(c) \/ ReceiveResume(c) \/ Refuse(c) \/ Replay(c)
      PROVE  OwnedInv' /\ OwnerInv'
    <2>1. UNCHANGED <<session, sessionOf, odd>>
        BY <1>3 DEF Greet, Serve, ListenerRaises, SocketCloses, ServingEnds, ReceiveResume, Goes,
            Refuse, Replay, client, history
    <2>2. \/ UNCHANGED stage
          \/ \E to \in Stages \ {"none", "gone"} :
                stage[c] \notin {"none", "gone", "leaked"} /\ stage' = [stage EXCEPT ![c] = to]
        BY <1>3 DEF Greet, Serve, ListenerRaises, SocketCloses, ServingEnds, ReceiveResume, Goes,
            Refuse, Replay, Stages
    <2>3. QED BY <2>1, <2>2, TasksKeepOwners
<1>4. CASE \/ ReconnectFails \/ ReaderRaises \/ \E final \in BOOLEAN : TransportEnds(final)
           \/ ReceiveSchema \/ RefuseTransport \/ ReceiveFrame \/ ReceiveResumed
           \/ Close \/ UNCHANGED vars
    <2>1. UNCHANGED <<stage, session, sessionOf>>
        BY <1>4 DEF ReconnectFails, ReaderRaises, TransportEnds, ReceiveSchema, RefuseTransport,
            ReceiveFrame, ReceiveResumed, Close, vars, server
    <2>2. "staleOwner" \in odd' <=> "staleOwner" \in odd
        <3>1. odd' \in {odd, odd \cup {"earlyLoss"}}
            BY <1>4 DEF ReconnectFails, ReaderRaises, TransportEnds, ReceiveSchema,
                RefuseTransport, ReceiveFrame, ReceiveResumed, Close, vars, client, history
        <3>2. QED BY <3>1
    <2>3. QED BY <2>1, <2>2, TasksKeepOwners
<1>5. QED BY <1>1, <1>2, <1>3, <1>4 DEF Next

\* A session stays in the map without a deadline exactly as long as a connection
\* holds it, however resumes, refusals, rejections, expiries and the ends of
\* other handler tasks interleave: a session without a holder always has its
\* deadline, and a served connection keeps its session, unless one that had lost
\* the session to it gave it up or took another (server.py:578, :633).
THEOREM OwnersKeepSessions == Spec => []SessionFollowsOwner
<1>1. Init => OwnedInv /\ OwnerInv
    BY DEF Init, OwnedInv, OwnerInv, Kept, Owners, Registered
<1>2. IInv /\ OwnedInv /\ OwnerInv /\ [Next]_vars => OwnedInv' /\ OwnerInv'
    BY OwnerStep
<1>3. OwnedInv /\ OwnerInv => SessionFollowsOwner
    BY FollowsIs
<1>4. QED BY <1>1, <1>2, <1>3, Invariance, PTL DEF Spec

-----------------------------------------------------------------------------
(* Steps, as the delivery of frames sees them *)

Framed(m) == m.type = "frame"

\* The inbox with one message more, and without its first.
Grows(msg) ==
    \E n \in Nat : /\ DOMAIN inbox = 1 .. n /\ DOMAIN inbox' = 1 .. n + 1
                   /\ inbox'[n + 1] = msg /\ \A i \in 1 .. n : inbox'[i] = inbox[i]
Shrinks ==
    \E n \in Nat : /\ n > 0 /\ DOMAIN inbox = 1 .. n /\ DOMAIN inbox' = 1 .. n - 1
                   /\ \A i \in 1 .. n - 1 : inbox'[i] = inbox[i + 1]
Pushed(c, msg) == IF c = link /\ c \in open THEN Grows(msg) ELSE inbox' = inbox

ClientStays ==
    UNCHANGED <<link, phase, closed, intentionalClose, sessionId, pendingResume, last, delivered>>

\* A handler task or the application moves on, and nothing is sent or resumed.
QuietStep ==
    /\ UNCHANGED <<link, sessionId, pendingResume, last, inbox, delivered, sessionOf, request, todo>>
    /\ SameFrames /\ open' \subseteq open
    /\ odd' \in {odd, odd \cup {"staleOwner"}}
    /\ \A c \in Conns :
          stage'[c] # stage[c] =>
              /\ "replaying" \notin {stage[c], stage'[c]}
              /\ stage'[c] = "authorizing" => request[c] # <<>>
    /\ \/ UNCHANGED <<phase, closed, intentionalClose>>
       \/ UNCHANGED phase /\ intentionalClose' /\ closed'
       \/ /\ phase = "backoff" /\ phase' \in {"backoff", "ended", "broken"}
          /\ UNCHANGED intentionalClose
          /\ phase' = "backoff" => UNCHANGED closed

\* The handler task of c sends something, gets to another stage, and may have
\* answered a request or got on with a replay.
TalkStep(c, msg) ==
    /\ c \in Accepted /\ ClientStays /\ Pushed(c, msg)
    /\ UNCHANGED <<open, sessionOf, session, odd>>
    /\ \A d \in Conns \ {c} : stage'[d] = stage[d] /\ request'[d] = request[d] /\ todo'[d] = todo[d]

GreetStep(c) ==
    /\ TalkStep(c, Schema(c)) /\ UNCHANGED <<request, todo>>
    /\ stage[c] = "admitting" /\ stage'[c] \notin {"authorizing", "replaying"}

RefuseStep(c) ==
    /\ TalkStep(c, Resumed(FALSE)) /\ UNCHANGED todo
    /\ stage[c] # "replaying" /\ stage'[c] \notin {"authorizing", "replaying"}
    /\ request[c] # <<>> /\ request'[c] = <<>>

ReplayStep(c) ==
    /\ 1 \in DOMAIN todo[c] /\ todo[c][1] \in Frames /\ c \in open
    /\ TalkStep(c, Data(todo[c][1])) /\ UNCHANGED <<stage, request>>
    /\ stage[c] = "replaying"
    /\ \E n \in Nat : /\ DOMAIN todo[c] = 1 .. n /\ DOMAIN todo'[c] = 1 .. n - 1
                      /\ \A i \in 1 .. n - 1 : todo'[c][i] = todo[c][i + 1]

AnswerStep(c) ==
    /\ TalkStep(c, Resumed(TRUE)) /\ UNCHANGED request
    /\ stage[c] = "replaying" /\ stage'[c] \notin {"authorizing", "replaying"}
    /\ c \in open => todo[c] = <<>>
    /\ todo'[c] = <<>>

\* A send: f is what it numbers in a session of the map, g what it pushes.
SendStep(c, f, g) ==
    /\ c \in Accepted /\ ClientStays /\ Pushed(c, Data(g))
    /\ {f, g} \subseteq Frames /\ f.session = sessionOf[c] /\ g.session = f.session
    /\ f.sequence = session[f.session].sequence + 1
    /\ UNCHANGED <<stage, open, sessionOf, request, todo>>
    /\ odd \subseteq odd'
    /\ Undecided(c) => "earlySend" \in odd'
    /\ Superseded(c) => "staleSend" \in odd'
    /\ todo[c] # <<>> => "overtaken" \in odd'
    /\ \A s \in Conns \ {f.session} :
          session'[s].sequence = session[s].sequence /\ session'[s].frames = session[s].frames
    /\ \/ /\ g = f /\ session'[f.session].sequence = f.sequence
          /\ ToSet(session'[f.session].frames) \subseteq ToSet(session[f.session].frames) \cup {f}
       \/ g.sequence = 0 /\ SameFrames

\* A resume: c gets the session s, and what its buffer holds beyond the number asked
\* for.
ResumeStep(c, s) ==
    /\ c \in Accepted /\ ClientStays
    /\ UNCHANGED <<open, inbox>> /\ SameFrames /\ odd' \in {odd, odd \cup {"staleOwner"}}
    /\ stage[c] = "authorizing" /\ request[c] # <<>> /\ s = request[c][1].session
    /\ sessionOf[c] = c /\ s < c /\ Greeted(s)
    /\ request[c][1].last \in Nat
    /\ stage'[c] = "replaying" /\ request'[c] = <<>> /\ sessionOf'[c] = s
    /\ \A d \in Conns \ {c} : /\ stage'[d] = stage[d] /\ request'[d] = request[d]
                              /\ todo'[d] = todo[d] /\ sessionOf'[d] = sessionOf[d]
    /\ \A i \in DOMAIN todo'[c] :
          /\ todo'[c][i].session = s
          /\ todo'[c][i].sequence \in 1 .. session[s].sequence
          /\ \A j \in DOMAIN todo'[c] : i < j => todo'[c][i].sequence < todo'[c][j].sequence
    /\ \A f \in ToSet(session[s].frames) :
          f.sequence > request[c][1].last => \E i \in DOMAIN todo'[c] : todo'[c][i] = f

\* A new connection c.
AcceptStep(c) ==
    /\ link = None /\ phase \in {"dialing", "backoff"} /\ DOMAIN inbox = {}
    /\ Accepted = 1 .. c - 1 /\ Accepted' = 1 .. c /\ stage[c] = "none"
    /\ link' = c /\ phase' = "handshake"
    /\ IF phase = "backoff" THEN ~closed' ELSE UNCHANGED closed
    /\ UNCHANGED <<intentionalClose, sessionId, pendingResume, last, inbox, delivered, odd>>
    /\ SameFrames /\ UNCHANGED <<request, todo>> /\ request[c] = <<>>
    /\ stage'[c] = "admitting" /\ sessionOf'[c] = c
    /\ sessionId # c /\ pendingResume # c
    /\ \A d \in Conns \ {c} : stage'[d] = stage[d] /\ sessionOf'[d] = sessionOf[d]

\* The end of a transport; the schema may have made its session the client's.
EndStep ==
    /\ link \in Accepted /\ link' = None /\ DOMAIN inbox' = {}
    /\ phase \in {"handshake", "reading"} /\ phase' \in {"backoff", "ended"}
    /\ phase' = "backoff" => ~intentionalClose /\ UNCHANGED closed
    /\ phase' = "ended" => closed'
    /\ UNCHANGED <<intentionalClose, last, delivered, stage, open, sessionOf, session, request, todo>>
    /\ odd \subseteq odd'
    /\ \/ /\ UNCHANGED <<sessionId, pendingResume>>
          /\ phase = "reading" /\ pendingResume # None => "earlyLoss" \in odd'
       \/ /\ phase = "handshake" /\ "earlyLoss" \in odd'
          /\ sessionId' = link /\ pendingResume' \in {sessionId, pendingResume}

\* The client reads its session from the schema, and asks for the one before.
SchemaStep ==
    /\ link \in Accepted /\ phase = "handshake" /\ phase' = "reading" /\ Shrinks
    /\ ~Framed(inbox[1]) /\ inbox[1].type # "resumed"
    /\ sessionId # link /\ sessionOf[link] = link /\ request[link] = <<>>
    /\ sessionId' = link
    /\ pendingResume' = IF sessionId # None THEN sessionId ELSE pendingResume
    /\ \A d \in Conns \ {link} : request'[d] = request[d]
    /\ request'[link] # <<>> =>
          /\ sessionId # None
          /\ request'[link][1].session = sessionId /\ request'[link][1].last = last
    /\ UNCHANGED <<link, closed, intentionalClose, last, delivered, stage, open, sessionOf, session,
                   todo, odd>>

\* A frame reaches the client.
FrameStep(f) ==
    /\ link \in Accepted /\ phase = "reading" /\ Shrinks /\ inbox[1] = Data(f) /\ f \in Frames
    /\ last' = IF f.sequence > last THEN f.sequence ELSE last
    /\ \/ UNCHANGED delivered /\ (closed \/ ~(f.sequence = 0 \/ f.sequence > last))
       \/ /\ f.sequence = 0 \/ f.sequence > last
          /\ \E n \in Nat : /\ DOMAIN delivered = 1 .. n /\ DOMAIN delivered' = 1 .. n + 1
                            /\ delivered'[n + 1] = f
                            /\ \A i \in 1 .. n : delivered'[i] = delivered[i]
    /\ UNCHANGED <<link, phase, closed, intentionalClose, sessionId, pendingResume, stage, open,
                   sessionOf, session, request, todo, odd>>

\* The answer to a resume reaches the client.
ResumedStep ==
    /\ link \in Accepted /\ phase = "reading" /\ Shrinks /\ inbox[1].type = "resumed"
    /\ sessionId' = IF inbox[1].recovered /\ pendingResume # None THEN pendingResume ELSE sessionId
    /\ pendingResume' = None
    /\ last' = IF inbox[1].recovered THEN last ELSE 0
    /\ UNCHANGED <<link, phase, closed, intentionalClose, delivered, stage, open, sessionOf, session,
                   request, todo, odd>>

LEMMA PushedIs ==
    ASSUME TypeInv, NEW c \in Conns, NEW msg \in Messages, Push(c, msg)
    PROVE  Pushed(c, msg)
<1>1. CASE c = link /\ c \in open
    <2>1. inbox \in Seq(Messages) /\ inbox' = Append(inbox, msg)
        BY <1>1 DEF TypeInv, ClientTypes, Push
    <2>2. PICK n \in Nat : n = Len(inbox)
        BY <2>1
    <2>3. /\ DOMAIN inbox = 1 .. n /\ DOMAIN inbox' = 1 .. n + 1
          /\ inbox'[n + 1] = msg /\ \A i \in 1 .. n : inbox'[i] = inbox[i]
        BY <2>1, <2>2, AppendProperties
    <2>4. QED BY <1>1, <2>3 DEF Pushed, Grows
<1>2. CASE ~(c = link /\ c \in open)
    BY <1>2 DEF Push, Pushed
<1>3. QED BY <1>1, <1>2

LEMMA ShrinksIs ==
    ASSUME TypeInv, inbox # <<>>, inbox' = Tail(inbox)
    PROVE  Shrinks /\ Head(inbox) = inbox[1] /\ inbox[1] \in Messages
<1>1. inbox \in Seq(Messages)
    BY DEF TypeInv, ClientTypes
<1>2. PICK n \in Nat : n = Len(inbox) /\ DOMAIN inbox = 1 .. n /\ n > 0
    BY <1>1, EmptySeq
<1>3. DOMAIN inbox' = 1 .. n - 1 /\ \A i \in 1 .. n - 1 : inbox'[i] = inbox[i + 1]
    BY <1>1, <1>2
<1>4. Head(inbox) = inbox[1] /\ inbox[1] \in Messages
    BY <1>1, <1>2
<1>5. QED BY <1>2, <1>3, <1>4 DEF Shrinks

\* What a message of the inbox is.
LEMMA FramedIs ==
    ASSUME NEW m \in Messages, Framed(m)
    PROVE  m.frame \in Frames /\ m = Data(m.frame)
BY DEF Framed, Messages, Data

LEMMA Kinds ==
    /\ \A s : ~Framed(Schema(s)) /\ Schema(s).type = "schema"
    /\ \A ok : ~Framed(Resumed(ok)) /\ Resumed(ok).type = "resumed" /\ Resumed(ok).recovered = ok
    /\ \A f : Framed(Data(f)) /\ Data(f).type = "frame" /\ Data(f).frame = f
BY DEF Framed, Schema, Resumed, Data

\* What a buffer holds: frames of its session, each number once.
LEMMA RetainedIs ==
    ASSUME IInv, NEW s \in Conns, NEW f \in ToSet(session[s].frames)
    PROVE  /\ f \in Frames /\ f.session = s /\ f.sequence \in 1 .. session[s].sequence
           /\ \A g \in Frames : g.session = s /\ g.sequence = f.sequence => g = f
<1>1. session[s] \in Sessions
    BY DEF IInv, TypeInv, ServerTypes
<1>2. PICK n \in Nat, q \in Nat : n = Len(session[s].frames) /\ q = session[s].sequence
    BY <1>1 DEF Sessions
<1>3. session[s].frames \in Seq(Frames)
    BY <1>1 DEF Sessions
<1>4. PICK i \in 1 .. n : f = session[s].frames[i]
    BY <1>2, <1>3 DEF ToSet
<1>5. n <= q /\ f = [session |-> s, sequence |-> q - n + i]
    <2>1. /\ Len(session[s].frames) <= session[s].sequence
          /\ \A j \in DOMAIN session[s].frames :
                session[s].frames[j] =
                    [session |-> s,
                     sequence |-> session[s].sequence - Len(session[s].frames) + j]
        BY DEF IInv, BufferInv
    <2>2. i \in DOMAIN session[s].frames
        BY <1>2, <1>3
    <2>3. QED BY <1>2, <1>4, <2>1, <2>2
<1>6. f \in Frames
    BY <1>2, <1>3, <1>4
<1>7. \A g \in Frames : g = [session |-> g.session, sequence |-> g.sequence]
    BY DEF Frames
<1>8. f.session = s /\ f.sequence = q - n + i
    BY <1>5
<1>9. \A g \in Frames : g.session = s /\ g.sequence = f.sequence => g = f
    BY <1>6, <1>7, <1>8
<1>10. f.sequence \in 1 .. q
    <2>1. i \in 1 .. n /\ n \in Nat /\ q \in Nat
        BY <1>2, <1>4
    <2>2. n <= q /\ f.sequence = q - n + i
        BY <1>5, <1>8
    <2>3. QED BY <2>1, <2>2
<1>11. QED BY <1>2, <1>6, <1>8, <1>9, <1>10

LEMMA TasksQuiet ==
    ASSUME IInv, [Next]_vars, NEW c \in Conns,
           \/ Reject(c) \/ Serve(c) \/ ListenerRaises(c) \/ SocketCloses(c)
           \/ ServingEnds(c) \/ RemoveConnection(c) \/ Expire(c) \/ ReceiveResume(c)
    PROVE  QuietStep
<1>1. ~(\E d \in Conns : Send(d)) => SameFrames
    BY OthersKeepFrames
<1>2. SameFrames
    <2>1. CASE Reject(c)
        BY <2>1, RejectIs DEF IInv
    <2>2. CASE Expire(c)
        BY <2>2, ExpireIs DEF IInv
    <2>3. CASE RemoveConnection(c)
        <3>1. sessionOf[c] \in Conns /\ Leaves(sessionOf[c])
            <4>1. c \in Accepted
                BY <2>3 DEF RemoveConnection, IInv, NumberInv
            <4>2. QED BY <2>3, <4>1 DEF RemoveConnection, IInv, TypeInv, ServerTypes, Accepted
        <3>2. QED BY <3>1, LeavesIs DEF IInv
    <2>4. CASE UNCHANGED session
        BY <2>4 DEF SameFrames
    <2>5. QED
        BY <2>1, <2>2, <2>3, <2>4
        DEF Serve, ListenerRaises, SocketCloses, ServingEnds, ReceiveResume, Goes
<1>3. /\ UNCHANGED <<sessionOf, request, todo, inbox, delivered>> /\ UNCHANGED <<transport, identity>>
      /\ open' \subseteq open
      /\ odd' \in {odd, odd \cup {"staleOwner"}}
    BY DEF Reject, Serve, ListenerRaises, SocketCloses, ServingEnds, RemoveConnection, Expire,
           ReceiveResume, Goes, resume, client, history
<1>4. \/ UNCHANGED stage
      \/ \E to \in Stages \ {"authorizing", "replaying"} :
            stage[c] # "replaying" /\ stage' = [stage EXCEPT ![c] = to]
      \/ /\ stage[c] # "replaying" /\ request[c] # <<>>
         /\ stage' = [stage EXCEPT ![c] = "authorizing"]
    BY DEF Reject, Serve, ListenerRaises, SocketCloses, ServingEnds, RemoveConnection, Expire,
           ReceiveResume, Goes, Stages
<1>5. \A d \in Conns :
          stage'[d] # stage[d] =>
              /\ "replaying" \notin {stage[d], stage'[d]}
              /\ stage'[d] = "authorizing" => request[d] # <<>>
    <2>1. stage \in [Conns -> Stages]
        BY DEF IInv, TypeInv, ServerTypes
    <2>2. QED BY <1>4, <2>1
<1>6. QED BY <1>2, <1>3, <1>5 DEF QuietStep, transport, identity

LEMMA ClientQuiet ==
    ASSUME IInv, ReconnectFails \/ ReaderRaises \/ Close \/ UNCHANGED vars
    PROVE  QuietStep
<1>1. UNCHANGED <<stage, open, sessionOf, session, request, todo, link, inbox, sessionId,
                  pendingResume, last, delivered, odd>>
    BY DEF ReconnectFails, ReaderRaises, Close, vars, server, resume, client, transport, identity,
           history
<1>2. \/ UNCHANGED <<phase, closed, intentionalClose>>
      \/ UNCHANGED phase /\ intentionalClose' /\ closed'
      \/ /\ phase = "backoff" /\ phase' \in {"backoff", "ended", "broken"}
         /\ UNCHANGED intentionalClose
         /\ phase' = "backoff" => UNCHANGED closed
    <2>1. CASE ReconnectFails
        BY <2>1 DEF ReconnectFails, Retry
    <2>2. CASE ReaderRaises
        BY <2>2 DEF ReaderRaises
    <2>3. CASE Close
        BY <2>3 DEF Close
    <2>4. CASE UNCHANGED vars
        BY <2>4 DEF vars, client, transport
    <2>5. QED BY <2>1, <2>2, <2>3, <2>4
<1>3. SameFrames
    BY <1>1 DEF SameFrames
<1>4. QED BY <1>1, <1>2, <1>3 DEF QuietStep

LEMMA Greets ==
    ASSUME IInv, NEW c \in Conns, Greet(c)
    PROVE  GreetStep(c)
<1>1. /\ stage[c] = "admitting" /\ Push(c, Schema(c))
      /\ \E to \in {"greeting", "leaked"} : stage' = [stage EXCEPT ![c] = to]
      /\ UNCHANGED <<open, sessionOf, session, request, todo, odd>> /\ ClientStays
    BY DEF Greet, resume, transport, identity, history, ClientStays
<1>2. Pushed(c, Schema(c)) /\ c \in Accepted
    BY <1>1, PushedIs, MessageTypes DEF IInv, NumberInv
<1>3. /\ stage'[c] \notin {"authorizing", "replaying"}
      /\ \A d \in Conns \ {c} : stage'[d] = stage[d]
    BY <1>1 DEF IInv, TypeInv, ServerTypes
<1>4. QED BY <1>1, <1>2, <1>3 DEF GreetStep, TalkStep

LEMMA Refuses ==
    ASSUME IInv, NEW c \in Conns, Refuse(c)
    PROVE  RefuseStep(c)
<1>1. /\ request[c] # <<>> /\ stage[c] \in {"authorizing", "serving"} /\ Push(c, Resumed(FALSE))
      /\ \E to \in {"serving", "closing"} : stage' = [stage EXCEPT ![c] = to]
      /\ request' = [request EXCEPT ![c] = <<>>]
      /\ UNCHANGED <<open, sessionOf, session, todo, odd>> /\ ClientStays
    BY DEF Refuse, transport, identity, history, ClientStays
<1>2. Pushed(c, Resumed(FALSE)) /\ c \in Accepted
    BY <1>1, PushedIs, MessageTypes DEF IInv, NumberInv
<1>3. /\ stage'[c] \notin {"authorizing", "replaying"} /\ request'[c] = <<>>
      /\ \A d \in Conns \ {c} : stage'[d] = stage[d] /\ request'[d] = request[d]
    BY <1>1 DEF IInv, TypeInv, ServerTypes
<1>4. QED BY <1>1, <1>2, <1>3 DEF RefuseStep, TalkStep

LEMMA Replays ==
    ASSUME IInv, NEW c \in Conns, Replay(c)
    PROVE  ReplayStep(c) \/ AnswerStep(c)
<1>1. /\ stage[c] = "replaying"
      /\ UNCHANGED <<open, sessionOf, session, request, odd>> /\ ClientStays
    BY DEF Replay, transport, identity, history, ClientStays
<1>2. c \in Accepted /\ todo \in [Conns -> Seq(Frames)] /\ stage \in [Conns -> Stages]
    BY <1>1 DEF IInv, NumberInv, TypeInv, ServerTypes
<1>3. CASE c \in open /\ todo[c] # <<>>
    <2>1. PICK r \in Seq(Frames) : r = todo[c]
        BY <1>2
    <2>2. PICK n \in Nat : n = Len(r) /\ DOMAIN r = 1 .. n /\ n > 0
        BY <1>3, <2>1, EmptySeq
    <2>3. /\ Head(r) = r[1] /\ r[1] \in Frames
          /\ DOMAIN Tail(r) = 1 .. n - 1 /\ \A i \in 1 .. n - 1 : Tail(r)[i] = r[i + 1]
        BY <2>1, <2>2
    <2>4. /\ Push(c, Data(r[1])) /\ UNCHANGED stage
          /\ todo'[c] = Tail(r) /\ \A d \in Conns \ {c} : todo'[d] = todo[d]
        BY <1>2, <1>3, <2>1, <2>3 DEF Replay
    <2>5. Pushed(c, Data(r[1]))
        BY <2>3, <2>4, PushedIs, MessageTypes DEF IInv
    <2>6. TalkStep(c, Data(r[1]))
        BY <1>1, <1>2, <2>4, <2>5 DEF TalkStep
    <2>7. \E k \in Nat : /\ DOMAIN todo[c] = 1 .. k /\ DOMAIN todo'[c] = 1 .. k - 1
                         /\ \A i \in 1 .. k - 1 : todo'[c][i] = todo[c][i + 1]
        BY <2>1, <2>2, <2>3, <2>4
    <2>8. ReplayStep(c)
        BY <1>1, <1>3, <2>1, <2>2, <2>3, <2>4, <2>6, <2>7 DEF ReplayStep
    <2>9. QED BY <2>8
<1>4. CASE ~(c \in open /\ todo[c] # <<>>)
    <2>1. /\ Push(c, Resumed(TRUE))
          /\ todo' = [todo EXCEPT ![c] = <<>>]
          /\ \E to \in {"serving", "closing"} : stage' = [stage EXCEPT ![c] = to]
        BY <1>4 DEF Replay
    <2>2. Pushed(c, Resumed(TRUE))
        BY <2>1, PushedIs, MessageTypes DEF IInv
    <2>3. /\ stage'[c] \notin {"authorizing", "replaying"} /\ todo'[c] = <<>>
          /\ \A d \in Conns \ {c} : stage'[d] = stage[d] /\ todo'[d] = todo[d]
        BY <1>2, <2>1
    <2>4. QED BY <1>1, <1>2, <1>4, <2>2, <2>3 DEF AnswerStep, TalkStep
<1>5. QED BY <1>3, <1>4

LEMMA Unnumbered ==
    ASSUME NEW f \in Frames
    PROVE  /\ [f EXCEPT !.sequence = 0] \in Frames
           /\ [f EXCEPT !.sequence = 0].session = f.session
           /\ [f EXCEPT !.sequence = 0].sequence = 0
<1>1. PICK s \in Conns, q \in 0 .. MaxSends : f = [session |-> s, sequence |-> q]
    BY DEF Frames
<1>2. [f EXCEPT !.sequence = 0] = [session |-> s, sequence |-> 0]
    BY <1>1
<1>3. 0 \in 0 .. MaxSends
    OBVIOUS
<1>4. QED BY <1>1, <1>2, <1>3 DEF Frames

LEMMA Sends ==
    ASSUME IInv, NEW c \in Conns, Send(c)
    PROVE  \E f, g \in Frames : SendStep(c, f, g)
<1>1. PICK s \in Conns, f \in Frames :
          /\ s = sessionOf[c] /\ c \in Accepted
          /\ f = [session |-> s, sequence |-> session[s].sequence + 1]
          /\ session[s].alive =>
                session' = [session EXCEPT ![s].sequence = f.sequence,
                                           ![s].frames = Keep(Append(@, f))]
          /\ ~session[s].alive => session' = session
          /\ odd \subseteq odd'
          /\ UNCHANGED <<stage, open, sessionOf, resume, transport, identity, delivered>>
    BY SendIs DEF IInv
<1>2. f.session = s /\ f.sequence = session[s].sequence + 1
    BY <1>1
<1>3. PICK g \in Frames :
          /\ g.session = s /\ Push(c, Data(g))
          /\ session[s].alive => g = f
          /\ ~session[s].alive => g.sequence = 0
    <2>1. CASE session[s].alive
        <3>1. Push(c, Data(f))
            BY <1>1, <2>1 DEF Send
        <3>2. QED BY <1>2, <2>1, <3>1
    <2>2. CASE ~session[s].alive
        <3>1. PICK g \in Frames : g = [f EXCEPT !.sequence = 0]
            BY Unnumbered
        <3>2. Push(c, Data(g))
            BY <1>1, <2>2, <3>1 DEF Send
        <3>3. g.session = s /\ g.sequence = 0
            BY <1>2, <3>1, Unnumbered
        <3>4. QED BY <2>2, <3>2, <3>3
    <2>3. QED BY <2>1, <2>2
<1>4. Pushed(c, Data(g))
    BY <1>3, PushedIs, MessageTypes DEF IInv
<1>5. /\ Undecided(c) => "earlySend" \in odd'
      /\ Superseded(c) => "staleSend" \in odd'
      /\ todo[c] # <<>> => "overtaken" \in odd'
    BY DEF Send
<1>6. /\ \A t \in Conns \ {s} :
            session'[t].sequence = session[t].sequence /\ session'[t].frames = session[t].frames
      /\ \/ /\ g = f /\ session'[s].sequence = f.sequence
            /\ ToSet(session'[s].frames) \subseteq ToSet(session[s].frames) \cup {f}
         \/ g.sequence = 0 /\ SameFrames
    <2>1. CASE session[s].alive
        <3>1. /\ \A t \in Conns \ {s} : session'[t] = session[t]
              /\ session'[s].sequence = f.sequence
              /\ session'[s].frames = Keep(Append(session[s].frames, f))
            BY <1>1, <2>1, RecordIs DEF IInv
        <3>2. PICK r \in Seq(Frames) : r = session[s].frames /\ Fits(Len(r))
            <4>1. session[s] \in Sessions
                BY DEF IInv, TypeInv, ServerTypes
            <4>2. QED BY <4>1 DEF Sessions, IInv, TypeInv, ServerTypes
        <3>3. PICK k \in Seq(Frames), d \in {0, 1} :
                  /\ k = Keep(Append(r, f)) /\ d <= Len(r) /\ Len(k) = Len(r) + 1 - d
                  /\ \A i \in 1 .. Len(r) + 1 - d :
                        k[i] = IF i = Len(r) + 1 - d THEN f ELSE r[i + d]
            <4>1. PICK d \in {0, 1} :
                      /\ d <= Len(r)
                      /\ Keep(Append(r, f)) \in Seq(Frames)
                      /\ Len(Keep(Append(r, f))) = Len(r) + 1 - d
                      /\ Fits(Len(Keep(Append(r, f))))
                      /\ \A i \in 1 .. Len(r) + 1 - d :
                            Keep(Append(r, f))[i] = IF i = Len(r) + 1 - d THEN f ELSE r[i + d]
                BY <3>2, KeepIs
            <4>2. QED BY <4>1
        <3>4. PICK n \in Nat : n = Len(r)
            BY <3>2
        <3>5. DOMAIN k = 1 .. n + 1 - d /\ DOMAIN r = 1 .. n
            BY <3>2, <3>3, <3>4
        <3>6. \A i \in DOMAIN k : k[i] = f \/ \E j \in DOMAIN r : k[i] = r[j]
            <4>1. SUFFICES ASSUME NEW i \in 1 .. n + 1 - d, i # n + 1 - d
                           PROVE  \E j \in 1 .. n : k[i] = r[j]
                BY <3>3, <3>4, <3>5
            <4>2. i + d \in 1 .. n /\ k[i] = r[i + d]
                BY <3>3, <3>4, <4>1
            <4>3. QED BY <4>2
        <3>7. ToSet(k) \subseteq ToSet(r) \cup {f}
            BY <3>6 DEF ToSet
        <3>8. QED BY <1>3, <2>1, <3>1, <3>2, <3>3, <3>7
    <2>2. CASE ~session[s].alive
        <3>1. session' = session
            BY <1>1, <2>2
        <3>2. QED BY <1>3, <2>2, <3>1 DEF SameFrames
    <2>3. QED BY <2>1, <2>2
<1>7. ClientStays /\ UNCHANGED <<stage, open, sessionOf, request, todo>>
    BY <1>1 DEF resume, transport, identity, ClientStays
<1>8. SendStep(c, f, g)
    BY <1>1, <1>2, <1>3, <1>4, <1>5, <1>6, <1>7 DEF SendStep
<1>9. QED BY <1>8

\* What is replayed: the frames beyond the number asked for, ascending.
LEMMA MissingIs ==
    ASSUME IInv, NEW s \in Conns, NEW seen \in Nat
    PROVE  \E m : /\ m = Missing(session[s].frames, seen)
                  /\ \A i \in DOMAIN m :
                        /\ m[i].session = s /\ m[i].sequence \in 1 .. session[s].sequence
                        /\ \A j \in DOMAIN m : i < j => m[i].sequence < m[j].sequence
                  /\ \A f \in ToSet(session[s].frames) :
                        f.sequence > seen => \E i \in DOMAIN m : m[i] = f
<1> DEFINE m == Missing(session[s].frames, seen)
<1> HIDE DEF m
<1>1. session[s] \in Sessions
    BY DEF IInv, TypeInv, ServerTypes
<1>2. PICK frames \in Seq(Frames), q \in Nat :
          frames = session[s].frames /\ q = session[s].sequence
    BY <1>1 DEF Sessions
<1>3. PICK n \in Nat : n = Len(frames) /\ DOMAIN frames = 1 .. n
    OBVIOUS
<1>4. n <= q /\ \A i \in 1 .. n : frames[i] = [session |-> s, sequence |-> q - n + i]
    <2>1. /\ Len(session[s].frames) <= session[s].sequence
          /\ \A j \in DOMAIN session[s].frames :
                session[s].frames[j] =
                    [session |-> s,
                     sequence |-> session[s].sequence - Len(session[s].frames) + j]
        BY DEF IInv, BufferInv
    <2>2. n <= q
        BY <1>2, <1>3, <2>1
    <2>3. ASSUME NEW i \in 1 .. n
          PROVE  frames[i] = [session |-> s, sequence |-> q - n + i]
        <3>1. i \in DOMAIN session[s].frames /\ Len(session[s].frames) = n
            BY <1>2, <1>3
        <3>2. QED BY <1>2, <2>1, <3>1
    <2>4. QED BY <2>2, <2>3
<1>5. ASSUME NEW i \in 1 .. n
      PROVE  frames[i].session = s /\ frames[i].sequence = q - n + i
    <2>1. PICK r : r = frames[i] /\ r = [session |-> s, sequence |-> q - n + i]
        BY <1>4
    <2>2. QED BY <2>1
<1>6. PICK k \in 1 .. n + 1 :
          /\ k = FirstAfter(frames, seen)
          /\ \A j \in 1 .. n : frames[j].sequence > seen <=> j >= k
    <2>1. Len(frames) <= q
          /\ \A i \in DOMAIN frames : frames[i].sequence = q - Len(frames) + i
        BY <1>3, <1>4, <1>5
    <2>2. /\ FirstAfter(frames, seen) \in 1 .. Len(frames) + 1
          /\ \A j \in DOMAIN frames : frames[j].sequence > seen <=> j >= FirstAfter(frames, seen)
        BY <2>1, FirstAfterIs
    <2>3. QED BY <1>3, <2>2
<1>7. m = SubSeq(frames, k, n)
    BY <1>2, <1>3, <1>6 DEF Missing, m
<1>8. DOMAIN m = 1 .. n - k + 1 /\ \A i \in 1 .. n - k + 1 : m[i] = frames[k + i - 1]
    <2>1. \A i \in k .. n : frames[i] \in Frames
        BY <1>3
    <2>2. /\ m \in Seq(Frames)
          /\ Len(m) = IF k <= n THEN n - k + 1 ELSE 0
          /\ \A i \in 1 .. n - k + 1 : m[i] = frames[k + i - 1]
        <3>1. PICK a \in Int, b \in Int : a = k /\ b = n
            BY <1>6
        <3>2. /\ SubSeq(frames, a, b) \in Seq(Frames)
              /\ Len(SubSeq(frames, a, b)) = IF a <= b THEN b - a + 1 ELSE 0
              /\ \A i \in 1 .. b - a + 1 : SubSeq(frames, a, b)[i] = frames[a + i - 1]
            BY <2>1, <3>1, SubSeqProperties
        <3>3. QED BY <1>7, <3>1, <3>2
    <2>3. Len(m) = n - k + 1
        BY SMTT(30), <1>6, <2>2
    <2>4. QED BY <2>2, <2>3
<1>9. \A i \in DOMAIN m : /\ k + i - 1 \in 1 .. n
                          /\ m[i].session = s /\ m[i].sequence = q - n + k + i - 1
    <2>1. SUFFICES ASSUME NEW i \in 1 .. n - k + 1
                   PROVE  /\ k + i - 1 \in 1 .. n
                          /\ m[i].session = s /\ m[i].sequence = q - n + k + i - 1
        BY <1>8
    <2>2. PICK j \in 1 .. n : j = k + i - 1
        <3>1. k + i - 1 \in 1 .. n
            OBVIOUS
        <3>2. QED BY <3>1
    <2>3. m[i] = frames[j] /\ frames[j].session = s /\ frames[j].sequence = q - n + j
        BY <1>5, <1>8, <2>1, <2>2
    <2>4. q - n + j = q - n + k + i - 1
        BY <2>2
    <2>5. QED BY <2>2, <2>3, <2>4
<1>10. ASSUME NEW i \in DOMAIN m
       PROVE  /\ m[i].session = s /\ m[i].sequence \in 1 .. session[s].sequence
              /\ \A j \in DOMAIN m : i < j => m[i].sequence < m[j].sequence
    <2>1. m[i].sequence \in 1 .. q
        BY <1>4, <1>8, <1>9
    <2>2. ASSUME NEW j \in DOMAIN m, i < j PROVE m[i].sequence < m[j].sequence
        BY SMTT(30), <1>8, <1>9, <2>2
    <2>3. QED BY <1>2, <1>9, <2>1, <2>2
<1>11. ASSUME NEW f \in ToSet(session[s].frames), f.sequence > seen
       PROVE  \E i \in DOMAIN m : m[i] = f
    <2>1. PICK j \in 1 .. n : f = frames[j]
        BY <1>2, <1>3 DEF ToSet
    <2>2. j >= k
        BY <1>6, <1>11, <2>1
    <2>3. PICK i \in 1 .. n - k + 1 : i = j - k + 1
        BY <2>2
    <2>4. m[i] = frames[k + i - 1] /\ k + i - 1 = j
        BY <1>8, <2>3
    <2>5. QED BY <1>8, <2>1, <2>4
<1>12. QED BY <1>10, <1>11 DEF m

LEMMA Resumes ==
    ASSUME IInv, NEW c \in Conns, Resume(c)
    PROVE  \E s \in Conns : ResumeStep(c, s)
<1>1. stage[c] = "authorizing" /\ c \in Accepted
    BY DEF Resume, IInv, NumberInv
<1>2. request[c] # <<>> /\ sessionOf[c] = c /\ request[c][1].session < c
      /\ Greeted(request[c][1].session)
    BY <1>1 DEF IInv, TakeoverInv
<1>3. request[c][1] \in Requests
    <2>1. PICK r \in Seq(Requests) : r = request[c]
        BY DEF IInv, TypeInv, ServerTypes
    <2>2. r # <<>>
        BY <1>2, <2>1
    <2>3. r[1] \in Requests
        BY <2>2
    <2>4. QED BY <2>1, <2>3
<1>4. PICK s \in Conns, seen \in Nat : s = request[c][1].session /\ seen = request[c][1].last
    BY <1>3 DEF Requests
<1>5. PICK m :
          /\ m = Missing(session[s].frames, seen)
          /\ \A i \in DOMAIN m :
                /\ m[i].session = s /\ m[i].sequence \in 1 .. session[s].sequence
                /\ \A j \in DOMAIN m : i < j => m[i].sequence < m[j].sequence
          /\ \A f \in ToSet(session[s].frames) :
                f.sequence > seen => \E i \in DOMAIN m : m[i] = f
    BY MissingIs
<1>6. todo' = [todo EXCEPT ![c] = m] /\ sessionOf' = [sessionOf EXCEPT ![c] = s] /\ Takes(c, s)
    BY <1>4, <1>5 DEF Resume
<1>7. SameFrames
    BY <1>2, <1>4, <1>6, TakesIs DEF IInv
<1>8. /\ request' = [request EXCEPT ![c] = <<>>]
      /\ stage' = [stage EXCEPT ![c] = "replaying"]
      /\ odd' \in {odd, odd \cup {"staleOwner"}}
      /\ UNCHANGED <<open, inbox>> /\ ClientStays
    BY DEF Resume, transport, identity, ClientStays
<1>9. /\ stage'[c] = "replaying" /\ request'[c] = <<>> /\ sessionOf'[c] = s /\ todo'[c] = m
      /\ \A d \in Conns \ {c} : /\ stage'[d] = stage[d] /\ request'[d] = request[d]
                                /\ todo'[d] = todo[d] /\ sessionOf'[d] = sessionOf[d]
    BY <1>6, <1>8 DEF IInv, TypeInv, ServerTypes
<1>10. ResumeStep(c, s)
    <2>1. /\ \A i \in DOMAIN todo'[c] :
                /\ todo'[c][i].session = s
                /\ todo'[c][i].sequence \in 1 .. session[s].sequence
                /\ \A j \in DOMAIN todo'[c] : i < j => todo'[c][i].sequence < todo'[c][j].sequence
          /\ \A f \in ToSet(session[s].frames) :
                f.sequence > request[c][1].last => \E i \in DOMAIN todo'[c] : todo'[c][i] = f
        <3>1. PICK t : t = todo'[c] /\ t = m
            BY <1>9
        <3>2. /\ \A i \in DOMAIN t :
                    /\ t[i].session = s /\ t[i].sequence \in 1 .. session[s].sequence
                    /\ \A j \in DOMAIN t : i < j => t[i].sequence < t[j].sequence
              /\ \A f \in ToSet(session[s].frames) :
                    f.sequence > seen => \E i \in DOMAIN t : t[i] = f
            BY ONLY <1>5, <3>1
        <3>3. QED BY ONLY <1>4, <3>1, <3>2
    <2>2. s < c /\ Greeted(s) /\ s = request[c][1].session /\ request[c][1].last \in Nat
        BY <1>2, <1>4
    <2>3. QED BY <1>1, <1>2, <1>7, <1>8, <1>9, <2>1, <2>2 DEF ResumeStep
<1>11. QED BY <1>10

LEMMA Accepts ==
    ASSUME IInv, Connect \/ Reconnect
    PROVE  \E c \in Conns : AcceptStep(c)
<1>1. /\ Accept /\ phase \in {"dialing", "backoff"}
      /\ IF phase = "backoff" THEN ~closed' ELSE UNCHANGED closed
      /\ UNCHANGED <<intentionalClose, sessionId, pendingResume, last, inbox, delivered, odd>>
    BY DEF Connect, Reconnect, identity, history
<1>2. PICK c \in Conns :
          /\ Accepted = 1 .. c - 1 /\ Accepted' = 1 .. c
          /\ stage[c] = "none" /\ stage' = [stage EXCEPT ![c] = "admitting"]
          /\ sessionOf' = [sessionOf EXCEPT ![c] = c]
          /\ SameFrames
          /\ request[c] = <<>>
          /\ link' = c /\ phase' = "handshake"
          /\ UNCHANGED <<request, todo>>
    BY <1>1, AcceptIs DEF IInv
<1>3. link = None /\ inbox = <<>> /\ DOMAIN inbox = {}
    <2>1. link = None /\ inbox = <<>>
        BY <1>1 DEF IInv, ClientInv
    <2>2. QED BY <2>1
<1>4. sessionId # c /\ pendingResume # c
    BY <1>2 DEF IInv, ClientInv, Greeted
<1>5. /\ stage'[c] = "admitting" /\ sessionOf'[c] = c
      /\ \A d \in Conns \ {c} : stage'[d] = stage[d] /\ sessionOf'[d] = sessionOf[d]
    BY <1>2 DEF IInv, TypeInv, ServerTypes
<1>6. AcceptStep(c)
    BY <1>1, <1>2, <1>3, <1>4, <1>5 DEF AcceptStep
<1>7. QED BY <1>6

LEMMA Linked ==
    ASSUME IInv, phase \in {"handshake", "reading"}
    PROVE  link \in Accepted /\ link \in Conns /\ link # None
BY DEF IInv, ClientInv, Accepted

\* How the client is left by a transport.
LEMMA Leaving ==
    ASSUME IInv, NEW final \in BOOLEAN, Transport(final)
    PROVE  /\ link' = None /\ DOMAIN inbox' = {} /\ UNCHANGED intentionalClose
           /\ phase' \in {"backoff", "ended"}
           /\ phase' = "backoff" => ~intentionalClose /\ UNCHANGED closed
           /\ phase' = "ended" => closed'
<1>1. link' = None /\ inbox' = <<>> /\ UNCHANGED intentionalClose
    BY DEF Transport
<1>2. \/ phase' = "ended" /\ closed'
      \/ ~intentionalClose /\ Retry
    BY DEF Transport
<1>3. DOMAIN inbox' = {}
    BY <1>1
<1>4. QED BY <1>1, <1>2, <1>3 DEF Retry

LEMMA Ends ==
    ASSUME IInv,
           \/ \E final \in BOOLEAN : TransportEnds(final)
           \/ RefuseTransport
           \/ ReceiveSchema /\ \E final \in BOOLEAN : Transport(final)
    PROVE  EndStep
<1>1. phase \in {"handshake", "reading"}
    BY DEF TransportEnds, RefuseTransport, ReceiveSchema
<1>2. PICK final \in BOOLEAN : Transport(final)
    BY DEF TransportEnds, RefuseTransport
<1>3. /\ link' = None /\ DOMAIN inbox' = {} /\ UNCHANGED intentionalClose
      /\ phase' \in {"backoff", "ended"}
      /\ phase' = "backoff" => ~intentionalClose /\ UNCHANGED closed
      /\ phase' = "ended" => closed'
    BY <1>2, Leaving
<1>4. /\ UNCHANGED <<last, delivered, stage, open, sessionOf, session, request, todo>>
      /\ odd \subseteq odd'
      /\ \/ /\ UNCHANGED <<sessionId, pendingResume>>
            /\ phase = "reading" /\ pendingResume # None => "earlyLoss" \in odd'
         \/ /\ phase = "handshake" /\ "earlyLoss" \in odd'
            /\ sessionId' = link /\ pendingResume' \in {sessionId, pendingResume}
    <2>1. CASE \E fin \in BOOLEAN : TransportEnds(fin)
        BY <2>1 DEF TransportEnds, server, resume, identity
    <2>2. CASE RefuseTransport
        BY <2>2 DEF RefuseTransport, server, resume, identity, history
    <2>3. CASE ReceiveSchema
        <3>1. link' = None /\ link # None
            BY <1>1, <1>3, Linked
        <3>2. "earlyLoss" \in odd' /\ odd \subseteq odd' /\ UNCHANGED request
            BY <2>3, <3>1, ReceiveSchemaIs
        <3>3. /\ sessionId' = link /\ pendingResume' \in {sessionId, pendingResume}
              /\ UNCHANGED <<stage, open, sessionOf, session, todo, last, delivered>>
              /\ phase = "handshake"
            BY <2>3, ReceiveSchemaIs
        <3>4. QED BY <3>2, <3>3
    <2>4. QED BY <2>1, <2>2, <2>3
<1>5. QED BY <1>1, <1>3, <1>4, Linked DEF EndStep

LEMMA Reads ==
    ASSUME IInv, ReceiveSchema, ~ \E final \in BOOLEAN : Transport(final)
    PROVE  SchemaStep
<1>1. /\ inbox # <<>> /\ Head(inbox).type = "schema" /\ phase = "handshake"
      /\ phase' = "reading" /\ inbox' = Tail(inbox)
      /\ request' = IF sessionId # None /\ link \in open
                    THEN [request EXCEPT ![link] = <<[session |-> sessionId, last |-> last]>>]
                    ELSE request
      /\ pendingResume' = IF sessionId # None THEN sessionId ELSE pendingResume
      /\ UNCHANGED <<link, closed, intentionalClose, last, delivered, stage, open, sessionOf,
                     session, todo, odd>>
    BY DEF ReceiveSchema, Arrives
<1>2. Shrinks /\ inbox[1].type = "schema"
    BY <1>1, ShrinksIs DEF IInv
<1>3. /\ link \in Accepted /\ link \in Conns /\ sessionId # link
      /\ sessionOf[link] = link /\ request[link] = <<>>
    BY <1>1, Linked DEF IInv, ClientInv
<1>4. sessionId' = link
    BY ReceiveSchemaIs
<1>5. /\ \A d \in Conns \ {link} : request'[d] = request[d]
      /\ request'[link] # <<>> =>
            /\ sessionId # None
            /\ request'[link][1].session = sessionId /\ request'[link][1].last = last
    <2>1. request \in [Conns -> Seq(Requests)]
        BY DEF IInv, TypeInv, ServerTypes
    <2>2. CASE sessionId # None /\ link \in open
        <3>1. PICK r : r = [session |-> sessionId, last |-> last]
            OBVIOUS
        <3>2. request' = [request EXCEPT ![link] = <<r>>]
            BY <1>1, <2>2, <3>1
        <3>3. request'[link] = <<r>> /\ \A d \in Conns \ {link} : request'[d] = request[d]
            BY <1>3, <2>1, <3>2
        <3>4. r.session = sessionId /\ r.last = last
            BY <3>1
        <3>5. QED BY <2>2, <3>3, <3>4
    <2>3. CASE ~(sessionId # None /\ link \in open)
        BY <1>1, <1>3, <2>3
    <2>4. QED BY <2>2, <2>3
<1>6. QED BY <1>1, <1>2, <1>3, <1>4, <1>5 DEF SchemaStep, Framed

LEMMA FrameArrives ==
    ASSUME IInv, ReceiveFrame
    PROVE  \E f \in Frames : FrameStep(f)
<1>1. inbox # <<>> /\ Head(inbox).type = "frame" /\ inbox' = Tail(inbox) /\ phase = "reading"
    BY DEF ReceiveFrame, Arrives
<1>2. Shrinks /\ Head(inbox) = inbox[1] /\ inbox[1] \in Messages
    BY <1>1, ShrinksIs DEF IInv
<1>3. PICK f \in Frames : f = inbox[1].frame /\ inbox[1] = Data(f)
    BY <1>1, <1>2, FramedIs DEF Framed
<1>4. /\ last' = IF f.sequence > last THEN f.sequence ELSE last
      /\ delivered' = IF (f.sequence = 0 \/ f.sequence > last) /\ ~closed
                      THEN Append(delivered, f) ELSE delivered
    BY <1>2, <1>3 DEF ReceiveFrame
<1>5. \/ UNCHANGED delivered /\ (closed \/ ~(f.sequence = 0 \/ f.sequence > last))
      \/ /\ f.sequence = 0 \/ f.sequence > last
         /\ \E n \in Nat : /\ DOMAIN delivered = 1 .. n /\ DOMAIN delivered' = 1 .. n + 1
                           /\ delivered'[n + 1] = f
                           /\ \A i \in 1 .. n : delivered'[i] = delivered[i]
    <2>1. CASE (f.sequence = 0 \/ f.sequence > last) /\ ~closed
        <3>1. PICK d \in Seq(Frames) : d = delivered
            BY DEF IInv, TypeInv, ClientTypes
        <3>2. PICK n \in Nat : n = Len(d) /\ DOMAIN d = 1 .. n
            OBVIOUS
        <3>3. /\ DOMAIN Append(d, f) = 1 .. n + 1 /\ Append(d, f)[n + 1] = f
              /\ \A i \in 1 .. n : Append(d, f)[i] = d[i]
            BY <3>2, AppendProperties
        <3>4. delivered' = Append(d, f)
            BY <1>4, <2>1, <3>1
        <3>5. QED BY <2>1, <3>1, <3>2, <3>3, <3>4
    <2>2. CASE ~((f.sequence = 0 \/ f.sequence > last) /\ ~closed)
        BY <1>4, <2>2
    <2>3. QED BY <2>1, <2>2
<1>6. UNCHANGED <<link, phase, closed, intentionalClose, sessionId, pendingResume, stage, open,
                  sessionOf, session, request, todo, odd>>
    BY DEF ReceiveFrame, server, resume, transport
<1>7. FrameStep(f)
    BY <1>1, <1>2, <1>3, <1>4, <1>5, <1>6, Linked DEF FrameStep
<1>8. QED BY <1>7

LEMMA AnswerArrives ==
    ASSUME IInv, ReceiveResumed
    PROVE  ResumedStep
<1>1. inbox # <<>> /\ Head(inbox).type = "resumed" /\ inbox' = Tail(inbox) /\ phase = "reading"
    BY DEF ReceiveResumed, Arrives
<1>2. Shrinks /\ Head(inbox) = inbox[1]
    BY <1>1, ShrinksIs DEF IInv
<1>3. /\ sessionId' = IF inbox[1].recovered /\ pendingResume # None THEN pendingResume ELSE sessionId
      /\ pendingResume' = None
      /\ last' = IF inbox[1].recovered THEN last ELSE 0
    BY <1>2 DEF ReceiveResumed
<1>4. UNCHANGED <<link, phase, closed, intentionalClose, delivered, stage, open, sessionOf, session,
                  request, todo, odd>>
    BY DEF ReceiveResumed, server, resume, transport, history
<1>5. QED BY <1>1, <1>2, <1>3, <1>4, Linked DEF ResumedStep

ServerStep ==
    \E c \in Conns : \/ GreetStep(c) \/ RefuseStep(c) \/ ReplayStep(c) \/ AnswerStep(c)
                     \/ \E f, g \in Frames : SendStep(c, f, g)
                     \/ \E s \in Conns : ResumeStep(c, s)
ClientStep ==
    \/ EndStep \/ SchemaStep \/ ResumedStep \/ \E f \in Frames : FrameStep(f)
    \/ \E c \in Conns : AcceptStep(c)

\* Every step is one of these.
LEMMA Steps ==
    ASSUME IInv, [Next]_vars
    PROVE  QuietStep \/ ServerStep \/ ClientStep
<1>1. ASSUME NEW c \in Conns,
             \/ Reject(c) \/ Serve(c) \/ ListenerRaises(c) \/ SocketCloses(c)
             \/ ServingEnds(c) \/ RemoveConnection(c) \/ Expire(c) \/ ReceiveResume(c)
      PROVE  QuietStep
    BY <1>1, TasksQuiet
<1>2. ASSUME NEW c \in Conns, Greet(c) \/ Refuse(c) \/ Replay(c) \/ Send(c) \/ Resume(c)
      PROVE  ServerStep
    BY <1>2, Greets, Refuses, Replays, Sends, Resumes DEF ServerStep
<1>3. CASE Connect \/ Reconnect
    BY <1>3, Accepts DEF ClientStep
<1>4. CASE ReconnectFails \/ ReaderRaises \/ Close \/ UNCHANGED vars
    BY <1>4, ClientQuiet
<1>5. CASE ReceiveSchema
    <2>1. CASE \E final \in BOOLEAN : Transport(final)
        BY <1>5, <2>1, Ends DEF ClientStep
    <2>2. CASE ~ \E final \in BOOLEAN : Transport(final)
        BY <1>5, <2>2, Reads DEF ClientStep
    <2>3. QED BY <2>1, <2>2
<1>6. CASE RefuseTransport \/ \E final \in BOOLEAN : TransportEnds(final)
    BY <1>6, Ends DEF ClientStep
<1>7. CASE ReceiveFrame \/ ReceiveResumed
    BY <1>7, FrameArrives, AnswerArrives DEF ClientStep
<1>8. QED BY <1>1, <1>2, <1>3, <1>4, <1>5, <1>6, <1>7 DEF Next

-----------------------------------------------------------------------------
(* The resume of the client's connection, seen from both ends *)

\* The session whose frames the client counts: the one it asked back, else its
\* own, and during the first handshake the one it is about to be given.
Counted ==
    IF pendingResume # None THEN pendingResume
    ELSE IF sessionId # None THEN sessionId ELSE link

LinkInv ==
    link # None =>
        /\ pendingResume # link
        /\ request[link] # <<>> =>
              phase = "reading" /\ pendingResume # None /\ request[link][1].session = pendingResume
        /\ sessionOf[link] # link => phase = "reading" /\ sessionOf[link] = Counted
        /\ phase = "reading" /\ (pendingResume # None \/ sessionOf[link] = link) =>
              sessionId = link
        /\ stage[link] = "replaying" => pendingResume # None /\ sessionOf[link] # link

\* RESUMED is sent once, when nothing else of the resume is left on the server.
Answered ==
    /\ pendingResume # None /\ phase = "reading"
    /\ request[link] = <<>> /\ stage[link] \notin {"authorizing", "replaying"}

AnswerInv ==
    \A i \in DOMAIN inbox :
        inbox[i].type = "resumed" =>
            /\ Answered
            /\ inbox[i].recovered <=> sessionOf[link] # link
            /\ \A j \in DOMAIN inbox : inbox[j].type = "resumed" => i = j

\* Requests and replays of a connection go as its handler task does.
LEMMA RequestStage ==
    ASSUME IInv, NEW c \in Accepted
    PROVE  /\ c \in Conns /\ c # None
           /\ request[c] # <<>> => sessionOf[c] = c
           /\ stage[c] = "authorizing" => request[c] # <<>>
BY DEF IInv, TakeoverInv, Accepted

LEMMA LinkStep ==
    ASSUME IInv, [Next]_vars, LinkInv, AnswerInv
    PROVE  LinkInv'
<1>1. link # None => link \in Accepted /\ link \in Conns
    BY DEF IInv, ClientInv, Accepted
<1>2. link # None => phase # "backoff"
    BY DEF IInv, ClientInv
<1>3. ASSUME UNCHANGED <<link, sessionOf, phase, sessionId, pendingResume>>,
             link # None => request'[link] \in {request[link], <<>>},
             link # None /\ stage'[link] = "replaying" => stage[link] = "replaying"
      PROVE  LinkInv'
    BY <1>3 DEF LinkInv, Counted
<1>4. CASE QuietStep
    <2>1. CASE link = None
        BY <1>4, <2>1 DEF QuietStep, LinkInv
    <2>2. CASE link # None
        <3>1. /\ UNCHANGED <<link, sessionOf, phase, sessionId, pendingResume>>
              /\ request'[link] \in {request[link], <<>>}
              /\ stage'[link] = "replaying" => stage[link] = "replaying"
            BY <1>1, <1>2, <1>4, <2>2 DEF QuietStep
        <3>2. QED BY <1>3, <3>1
    <2>3. QED BY <2>1, <2>2
<1>5. ASSUME NEW c \in Conns, GreetStep(c) \/ RefuseStep(c) \/ ReplayStep(c) \/ AnswerStep(c)
      PROVE  LinkInv'
    <2>1. UNCHANGED <<link, sessionOf, phase, sessionId, pendingResume>>
        BY <1>5 DEF GreetStep, RefuseStep, ReplayStep, AnswerStep, TalkStep, ClientStays
    <2>2. /\ \A d \in Conns : request'[d] \in {request[d], <<>>}
          /\ \A d \in Conns : stage'[d] = "replaying" => stage[d] = "replaying"
        BY <1>5 DEF GreetStep, RefuseStep, ReplayStep, AnswerStep, TalkStep
    <2>3. QED BY <1>1, <1>3, <2>1, <2>2
<1>6. ASSUME NEW c \in Conns, NEW f, NEW g, SendStep(c, f, g)
      PROVE  LinkInv'
    BY <1>1, <1>3, <1>6 DEF SendStep, ClientStays
<1>7. ASSUME NEW c \in Conns, NEW s \in Conns, ResumeStep(c, s)
      PROVE  LinkInv'
    <2>1. UNCHANGED <<link, phase, sessionId, pendingResume>>
        BY <1>7 DEF ResumeStep, ClientStays
    <2>2. CASE link = c
        <3>1. /\ phase = "reading" /\ pendingResume # None /\ s = pendingResume
              /\ pendingResume # link /\ sessionId = link
            BY <1>1, <1>7, <2>2 DEF ResumeStep, LinkInv
        <3>2. request'[link] = <<>> /\ sessionOf'[link] = s /\ s # link
            BY <1>7, <2>2, <3>1 DEF ResumeStep
        <3>3. QED BY <2>1, <3>1, <3>2 DEF LinkInv, Counted
    <2>3. CASE link # c
        <3>1. link # None => /\ request'[link] = request[link] /\ stage'[link] = stage[link]
                             /\ sessionOf'[link] = sessionOf[link]
            BY <1>1, <1>7, <2>3 DEF ResumeStep
        <3>2. QED BY <2>1, <3>1 DEF LinkInv, Counted
    <2>4. QED BY <2>2, <2>3
<1>8. ASSUME NEW c \in Conns, AcceptStep(c)
      PROVE  LinkInv'
    BY <1>8 DEF AcceptStep, LinkInv
<1>9. CASE EndStep
    BY <1>9 DEF EndStep, LinkInv
<1>10. CASE SchemaStep
    <2>1. link \in Conns /\ stage[link] # "replaying"
        BY <1>10, RequestStage DEF SchemaStep, LinkInv
    <2>2. QED BY <1>10, <2>1 DEF SchemaStep, LinkInv
<1>11. CASE ResumedStep
    <2>1. 1 \in DOMAIN inbox /\ inbox[1].type = "resumed"
        BY <1>11 DEF ResumedStep, Shrinks
    <2>2. Answered /\ (inbox[1].recovered <=> sessionOf[link] # link)
        BY <2>1 DEF AnswerInv
    <2>3. link # None /\ link \in Conns
        BY <1>11, RequestStage DEF ResumedStep
    <2>4. sessionId = link
        BY <2>2, <2>3, <1>11 DEF LinkInv, Answered
    <2>5. QED BY <1>11, <2>2, <2>3, <2>4 DEF ResumedStep, LinkInv, Answered, Counted
<1>12. ASSUME NEW f \in Frames, FrameStep(f)
       PROVE  LinkInv'
    BY <1>1, <1>3, <1>12 DEF FrameStep
<1>13. QED BY Steps, <1>4, <1>5, <1>6, <1>7, <1>8, <1>9, <1>10, <1>11, <1>12 DEF ServerStep, ClientStep

\* What is pushed, with the answer of a resume in view.
LEMMA AnswersPushed ==
    ASSUME AnswerInv, NEW c \in Conns, NEW m, Pushed(c, m), UNCHANGED <<link, sessionOf>>,
           Answered => Answered',
           m.type = "resumed" /\ c = link =>
               /\ ~Answered /\ Answered'
               /\ m.recovered <=> sessionOf[link] # link
    PROVE  AnswerInv'
<1>1. CASE c = link /\ c \in open
    <2>1. PICK n \in Nat : /\ DOMAIN inbox = 1 .. n /\ DOMAIN inbox' = 1 .. n + 1
                           /\ inbox'[n + 1] = m /\ \A i \in 1 .. n : inbox'[i] = inbox[i]
        BY <1>1 DEF Pushed, Grows
    <2>2. ASSUME NEW i \in DOMAIN inbox', inbox'[i].type = "resumed"
          PROVE  /\ Answered'
                 /\ inbox'[i].recovered <=> sessionOf[link] # link
                 /\ \A j \in DOMAIN inbox' : inbox'[j].type = "resumed" => i = j
        <3>1. CASE m.type = "resumed"
            <4>1. \A j \in 1 .. n : inbox[j].type # "resumed"
                BY <1>1, <2>1, <3>1 DEF AnswerInv
            <4>2. \A j \in DOMAIN inbox' : inbox'[j].type = "resumed" => j = n + 1
                BY <2>1, <4>1
            <4>3. i = n + 1
                BY <2>2, <4>2
            <4>4. QED BY <1>1, <2>1, <3>1, <4>2, <4>3
        <3>2. CASE m.type # "resumed"
            <4>1. \A j \in DOMAIN inbox' :
                     inbox'[j].type = "resumed" => j \in DOMAIN inbox /\ inbox'[j] = inbox[j]
                BY <2>1, <3>2
            <4>2. i \in DOMAIN inbox /\ inbox[i].type = "resumed" /\ inbox'[i] = inbox[i]
                BY <2>2, <4>1
            <4>3. QED BY <4>1, <4>2 DEF AnswerInv
        <3>3. QED BY <3>1, <3>2
    <2>3. QED BY <2>2 DEF AnswerInv
<1>2. CASE ~(c = link /\ c \in open)
    <2>1. inbox' = inbox
        BY <1>2 DEF Pushed
    <2>2. QED BY <2>1 DEF AnswerInv
<1>3. QED BY <1>1, <1>2

LEMMA AnswersStay ==
    ASSUME IInv, [Next]_vars, LinkInv, AnswerInv
    PROVE  AnswerInv'
<1>1. link # None => link \in Accepted /\ link \in Conns
    BY DEF IInv, ClientInv, Accepted
<1>2. link = None => DOMAIN inbox = {}
    BY DEF IInv, ClientInv
<1>4. CASE QuietStep
    <2>1. CASE link = None
        BY <1>2, <1>4, <2>1 DEF QuietStep, AnswerInv
    <2>2. CASE link # None
        <3>1. UNCHANGED phase
            BY <1>4, <2>2 DEF QuietStep, IInv, ClientInv
        <3>2. Answered => Answered'
            BY <1>1, <1>4, <2>2, <3>1 DEF QuietStep, Answered
        <3>3. UNCHANGED <<inbox, link, sessionOf>>
            BY <1>4 DEF QuietStep
        <3>4. QED BY <3>2, <3>3 DEF AnswerInv
    <2>3. QED BY <2>1, <2>2
<1>5. ASSUME NEW c \in Conns, GreetStep(c)
      PROVE  AnswerInv'
    <2>1. /\ Pushed(c, Schema(c)) /\ UNCHANGED <<link, sessionOf>>
          /\ UNCHANGED <<phase, pendingResume, request>>
          /\ stage'[c] \notin {"authorizing", "replaying"}
          /\ \A d \in Conns \ {c} : stage'[d] = stage[d]
        BY <1>5 DEF GreetStep, TalkStep, ClientStays
    <2>2. CASE link = None
        BY <1>2, <2>1, <2>2 DEF AnswerInv, Pushed, IInv, TypeInv, ServerTypes
    <2>3. CASE link # None
        <3>1. Answered => Answered'
            BY <1>1, <2>1, <2>3 DEF Answered
        <3>2. QED BY <2>1, <3>1, AnswersPushed, Kinds
    <2>4. QED BY <2>2, <2>3
<1>6. ASSUME NEW c \in Conns, NEW f \in Frames, NEW g \in Frames, SendStep(c, f, g)
      PROVE  AnswerInv'
    <2>1. /\ Pushed(c, Data(g)) /\ UNCHANGED <<link, sessionOf>>
          /\ UNCHANGED <<phase, pendingResume, request, stage>>
        BY <1>6 DEF SendStep, ClientStays
    <2>2. Answered => Answered'
        BY <2>1 DEF Answered
    <2>3. Data(g).type # "resumed"
        BY Kinds
    <2>4. QED BY <2>1, <2>2, <2>3, AnswersPushed
<1>7. ASSUME NEW c \in Conns, RefuseStep(c)
      PROVE  AnswerInv'
    <2>1. /\ Pushed(c, Resumed(FALSE)) /\ UNCHANGED <<link, sessionOf>>
          /\ UNCHANGED <<phase, pendingResume>> /\ c \in Accepted
          /\ request[c] # <<>> /\ request'[c] = <<>>
          /\ stage'[c] \notin {"authorizing", "replaying"}
          /\ \A d \in Conns \ {c} : stage'[d] = stage[d] /\ request'[d] = request[d]
        BY <1>7 DEF RefuseStep, TalkStep, ClientStays
    <2>2. CASE c = link
        <3>1. ~Answered
            BY <2>1, <2>2 DEF Answered
        <3>2. link # None /\ phase = "reading" /\ pendingResume # None /\ sessionOf[link] = link
            BY <2>1, <2>2, RequestStage DEF LinkInv
        <3>3. Answered'
            BY <2>1, <2>2, <3>2 DEF Answered
        <3>4. QED BY <2>1, <3>1, <3>2, <3>3, AnswersPushed, Kinds
    <2>3. CASE c # link
        <3>1. inbox' = inbox
            BY <2>1, <2>3 DEF Pushed
        <3>2. link # None => (Answered => Answered')
            BY <1>1, <2>1, <2>3 DEF Answered
        <3>3. QED BY <1>2, <2>1, <3>1, <3>2 DEF AnswerInv
    <2>4. QED BY <2>2, <2>3
<1>8. ASSUME NEW c \in Conns, AnswerStep(c)
      PROVE  AnswerInv'
    <2>1. /\ Pushed(c, Resumed(TRUE)) /\ UNCHANGED <<link, sessionOf>>
          /\ UNCHANGED <<phase, pendingResume, request>> /\ c \in Accepted
          /\ stage[c] = "replaying" /\ stage'[c] \notin {"authorizing", "replaying"}
          /\ \A d \in Conns \ {c} : stage'[d] = stage[d]
        BY <1>8 DEF AnswerStep, TalkStep, ClientStays
    <2>2. CASE c = link
        <3>1. ~Answered
            BY <2>1, <2>2 DEF Answered
        <3>2. /\ link # None /\ phase = "reading" /\ pendingResume # None
              /\ sessionOf[link] # link /\ request[link] = <<>>
            BY <2>1, <2>2, RequestStage DEF LinkInv
        <3>3. Answered'
            BY <2>1, <2>2, <3>2 DEF Answered
        <3>4. QED BY <2>1, <3>1, <3>2, <3>3, AnswersPushed, Kinds
    <2>3. CASE c # link
        <3>1. inbox' = inbox
            BY <2>1, <2>3 DEF Pushed
        <3>2. link # None => (Answered => Answered')
            BY <1>1, <2>1, <2>3 DEF Answered
        <3>3. QED BY <1>2, <2>1, <3>1, <3>2 DEF AnswerInv
    <2>4. QED BY <2>2, <2>3
<1>9. ASSUME NEW c \in Conns, ReplayStep(c)
      PROVE  AnswerInv'
    <2>1. /\ Pushed(c, Data(todo[c][1])) /\ UNCHANGED <<link, sessionOf>>
          /\ UNCHANGED <<phase, pendingResume, request, stage>>
        BY <1>9 DEF ReplayStep, TalkStep, ClientStays
    <2>2. Answered => Answered'
        BY <2>1 DEF Answered
    <2>3. Data(todo[c][1]).type # "resumed"
        BY Kinds
    <2>4. QED BY <2>1, <2>2, <2>3, AnswersPushed
<1>10. ASSUME NEW c \in Conns, NEW s \in Conns, ResumeStep(c, s)
       PROVE  AnswerInv'
    <2>1. /\ UNCHANGED <<link, phase, pendingResume, inbox>> /\ request[c] # <<>>
          /\ \A d \in Conns \ {c} : /\ stage'[d] = stage[d] /\ request'[d] = request[d]
                                    /\ sessionOf'[d] = sessionOf[d]
        BY <1>10 DEF ResumeStep, ClientStays
    <2>2. CASE c = link
        BY <2>1, <2>2 DEF AnswerInv, Answered
    <2>3. CASE c # link
        <3>1. link # None => (Answered => Answered') /\ sessionOf'[link] = sessionOf[link]
            BY <1>1, <2>1, <2>3 DEF Answered
        <3>2. QED BY <1>2, <2>1, <3>1 DEF AnswerInv
    <2>4. QED BY <2>2, <2>3
<1>11. ASSUME NEW c \in Conns, AcceptStep(c)
       PROVE  AnswerInv'
    BY <1>11 DEF AcceptStep, AnswerInv
<1>12. CASE EndStep
    BY <1>12 DEF EndStep, AnswerInv
<1>13. CASE SchemaStep
    <2>1. \A i \in DOMAIN inbox : inbox[i].type # "resumed"
        BY <1>13 DEF SchemaStep, AnswerInv, Answered
    <2>2. \A i \in DOMAIN inbox' : i + 1 \in DOMAIN inbox /\ inbox'[i] = inbox[i + 1]
        BY <1>13 DEF SchemaStep, Shrinks
    <2>3. QED BY <2>1, <2>2 DEF AnswerInv
<1>14. CASE ResumedStep
    <2>1. \A i \in DOMAIN inbox : inbox[i].type = "resumed" => i = 1
        BY SMTT(30), <1>14 DEF ResumedStep, Shrinks, AnswerInv
    <2>2. \A i \in DOMAIN inbox' : i + 1 \in DOMAIN inbox /\ inbox'[i] = inbox[i + 1] /\ i + 1 # 1
        BY <1>14 DEF ResumedStep, Shrinks
    <2>3. QED BY <2>1, <2>2 DEF AnswerInv
<1>15. ASSUME NEW f \in Frames, FrameStep(f)
       PROVE  AnswerInv'
    <2>1. UNCHANGED <<link, phase, pendingResume, sessionOf, request, stage>> /\ Shrinks
        BY <1>15 DEF FrameStep
    <2>2. Answered => Answered'
        BY <2>1 DEF Answered
    <2>3. PICK n \in Nat : /\ n > 0 /\ DOMAIN inbox = 1 .. n /\ DOMAIN inbox' = 1 .. n - 1
                           /\ \A i \in 1 .. n - 1 : inbox'[i] = inbox[i + 1]
        BY <2>1 DEF Shrinks
    <2>4. \A i \in DOMAIN inbox' : i + 1 \in DOMAIN inbox /\ inbox'[i] = inbox[i + 1]
        BY <2>3
    <2>5. \A i, j \in DOMAIN inbox' : i + 1 = j + 1 => i = j
        BY <2>3
    <2>6. QED BY <2>1, <2>2, <2>4, <2>5 DEF AnswerInv
<1>16. QED BY Steps, <1>4, <1>5, <1>6, <1>7, <1>8, <1>9, <1>10, <1>11, <1>12, <1>13, <1>14, <1>15
           DEF ServerStep, ClientStep

-----------------------------------------------------------------------------
(* Numbers that were given out *)

\* What is left of a replay: frames of the session the connection has, ascending.
Replaying(c) ==
    /\ todo[c] # <<>> => stage[c] = "replaying"
    /\ \A i \in DOMAIN todo[c] :
          /\ todo[c][i].session = sessionOf[c]
          /\ todo[c][i].sequence \in 1 .. session[sessionOf[c]].sequence
          /\ \A j \in DOMAIN todo[c] : i < j => todo[c][i].sequence < todo[c][j].sequence

TodoInv == \A c \in Conns : Replaying(c)

\* Numbers are given out by sends, so a connection still to come has none, and
\* what is under way carries one that was given out.
Given(f) == f.sequence <= session[f.session].sequence

GivenInv ==
    /\ \A c \in Conns \ Accepted : session[c].sequence = 0
    /\ \A i \in DOMAIN inbox : Framed(inbox[i]) => Given(inbox[i].frame)

\* Sequence numbers never fall.
LEMMA SequencesGrow ==
    ASSUME IInv, [Next]_vars, NEW s \in Conns
    PROVE  /\ session[s].sequence \in Nat /\ session'[s].sequence \in Nat
           /\ session[s].sequence <= session'[s].sequence
<1>1. IInv'
    BY StepInv
<1>2. session[s] \in Sessions /\ session'[s] \in Sessions
    BY <1>1 DEF IInv, TypeInv, ServerTypes
<1>3. session[s].sequence \in Nat /\ session'[s].sequence \in Nat
    BY <1>2 DEF Sessions
<1>4. CASE SameFrames
    BY <1>3, <1>4 DEF SameFrames
<1>5. CASE \E c \in Conns : Send(c)
    <2>1. PICK c \in Conns, f \in Frames, g \in Frames : SendStep(c, f, g)
        BY <1>5, Sends
    <2>2. CASE s = f.session
        <3>1. f.sequence = session[s].sequence + 1
            BY <2>1, <2>2 DEF SendStep
        <3>2. session'[s].sequence = f.sequence \/ session'[s].sequence = session[s].sequence
            BY <2>1, <2>2 DEF SendStep, SameFrames
        <3>3. QED BY <1>3, <3>1, <3>2
    <2>3. CASE s # f.session
        <3>1. session'[s].sequence = session[s].sequence
            BY <2>1, <2>3 DEF SendStep
        <3>2. QED BY <1>3, <3>1
    <2>4. QED BY <2>2, <2>3
<1>6. QED BY <1>3, <1>4, <1>5, OthersKeepFrames

LEMMA TodoStep ==
    ASSUME IInv, [Next]_vars, TodoInv
    PROVE  TodoInv'
<1>1. SUFFICES ASSUME NEW d \in Conns PROVE Replaying(d)'
    BY DEF TodoInv
<1>2. /\ todo[d] # <<>> => stage[d] = "replaying"
      /\ \A i \in DOMAIN todo[d] :
            /\ todo[d][i].session = sessionOf[d]
            /\ todo[d][i].sequence \in 1 .. session[sessionOf[d]].sequence
            /\ \A j \in DOMAIN todo[d] : i < j => todo[d][i].sequence < todo[d][j].sequence
    BY DEF TodoInv, Replaying
<1>3. \A s \in Conns : /\ session[s].sequence \in Nat /\ session'[s].sequence \in Nat
                       /\ session[s].sequence <= session'[s].sequence
    BY SequencesGrow
<1>4. DOMAIN <<>> = {}
    OBVIOUS
<1>5. ASSUME todo[d] # <<>>
      PROVE  sessionOf[d] \in Conns
    <2>1. d \in Accepted
        BY <1>2, <1>5 DEF IInv, NumberInv
    <2>2. QED BY <2>1 DEF Accepted, IInv, TypeInv, ServerTypes
<1>6. ASSUME todo'[d] = todo[d],
             todo[d] # <<>> => stage'[d] = "replaying" /\ sessionOf'[d] = sessionOf[d]
      PROVE  Replaying(d)'
    <2>1. CASE todo[d] = <<>>
        BY <1>4, <1>6, <2>1 DEF Replaying
    <2>2. CASE todo[d] # <<>>
        <3>1. PICK s \in Conns : s = sessionOf[d] /\ s = sessionOf'[d]
            BY <1>5, <1>6, <2>2
        <3>2. ASSUME NEW i \in DOMAIN todo[d]
              PROVE  todo[d][i].sequence \in 1 .. session'[s].sequence
            <4>1. todo[d][i].sequence \in 1 .. session[s].sequence
                BY <1>2, <3>1
            <4>2. QED BY <1>3, <4>1
        <3>3. QED BY <1>2, <1>6, <2>2, <3>1, <3>2 DEF Replaying
    <2>3. QED BY <2>1, <2>2
<1>7. CASE QuietStep
    BY <1>2, <1>6, <1>7 DEF QuietStep
<1>8. ASSUME NEW c \in Conns, GreetStep(c) \/ RefuseStep(c)
      PROVE  Replaying(d)'
    <2>1. /\ UNCHANGED <<sessionOf, todo>> /\ stage[c] # "replaying"
          /\ d # c => stage'[d] = stage[d]
        BY <1>8 DEF GreetStep, RefuseStep, TalkStep
    <2>2. QED BY <1>2, <1>6, <2>1
<1>9. ASSUME NEW c \in Conns, NEW f \in Frames, NEW g \in Frames, SendStep(c, f, g)
      PROVE  Replaying(d)'
    BY <1>2, <1>6, <1>9 DEF SendStep
<1>10. ASSUME NEW c \in Conns, ReplayStep(c)
       PROVE  Replaying(d)'
    <2>1. CASE d # c
        BY <1>2, <1>6, <1>10, <2>1 DEF ReplayStep, TalkStep
    <2>2. CASE d = c
        <3>1. PICK n \in Nat : /\ DOMAIN todo[d] = 1 .. n /\ DOMAIN todo'[d] = 1 .. n - 1
                               /\ \A i \in 1 .. n - 1 : todo'[d][i] = todo[d][i + 1]
            BY <1>10, <2>2 DEF ReplayStep
        <3>2. /\ stage'[d] = "replaying" /\ UNCHANGED <<sessionOf, session>>
            BY <1>10, <2>2 DEF ReplayStep, TalkStep
        <3>3. ASSUME NEW i \in 1 .. n - 1
              PROVE  /\ todo'[d][i].session = sessionOf[d]
                     /\ todo'[d][i].sequence \in 1 .. session[sessionOf[d]].sequence
                     /\ \A j \in 1 .. n - 1 : i < j => todo'[d][i].sequence < todo'[d][j].sequence
            <4>1. i + 1 \in DOMAIN todo[d] /\ todo'[d][i] = todo[d][i + 1]
                BY <3>1
            <4>2. \A j \in 1 .. n - 1 : i < j =>
                     j + 1 \in DOMAIN todo[d] /\ todo'[d][j] = todo[d][j + 1] /\ i + 1 < j + 1
                BY <3>1
            <4>3. QED BY <1>2, <4>1, <4>2
        <3>4. QED BY <3>1, <3>2, <3>3 DEF Replaying
    <2>3. QED BY <2>1, <2>2
<1>11. ASSUME NEW c \in Conns, AnswerStep(c)
       PROVE  Replaying(d)'
    <2>1. CASE d # c
        BY <1>2, <1>6, <1>11, <2>1 DEF AnswerStep, TalkStep
    <2>2. CASE d = c
        BY <1>4, <1>11, <2>2 DEF AnswerStep, Replaying
    <2>3. QED BY <2>1, <2>2
<1>12. ASSUME NEW c \in Conns, NEW s \in Conns, ResumeStep(c, s)
       PROVE  Replaying(d)'
    <2>1. CASE d # c
        BY <1>2, <1>6, <1>12, <2>1 DEF ResumeStep
    <2>2. CASE d = c
        <3>1. /\ stage'[d] = "replaying" /\ sessionOf'[d] = s
              /\ session'[s].sequence = session[s].sequence
              /\ \A i \in DOMAIN todo'[d] :
                    /\ todo'[d][i].session = s
                    /\ todo'[d][i].sequence \in 1 .. session[s].sequence
                    /\ \A j \in DOMAIN todo'[d] :
                          i < j => todo'[d][i].sequence < todo'[d][j].sequence
            BY <1>12, <2>2 DEF ResumeStep, SameFrames
        <3>2. QED BY <3>1 DEF Replaying
    <2>3. QED BY <2>1, <2>2
<1>13. ASSUME NEW c \in Conns, AcceptStep(c)
       PROVE  Replaying(d)'
    <2>1. /\ UNCHANGED todo /\ stage[c] = "none"
          /\ d # c => stage'[d] = stage[d] /\ sessionOf'[d] = sessionOf[d]
        BY <1>13 DEF AcceptStep
    <2>2. QED BY <1>2, <1>6, <2>1
<1>14. CASE EndStep \/ SchemaStep \/ ResumedStep \/ \E f \in Frames : FrameStep(f)
    <2>1. UNCHANGED <<stage, sessionOf, todo>>
        BY <1>14 DEF EndStep, SchemaStep, ResumedStep, FrameStep
    <2>2. QED BY <1>2, <1>6, <2>1
<1>15. QED BY Steps, <1>7, <1>8, <1>9, <1>10, <1>11, <1>12, <1>13, <1>14 DEF ServerStep, ClientStep

\* What is in the inbox after a push or a reception.
LEMMA PushedFrames ==
    ASSUME NEW c, NEW m, Pushed(c, m), NEW i \in DOMAIN inbox'
    PROVE  \/ i \in DOMAIN inbox /\ inbox'[i] = inbox[i]
           \/ c = link /\ c \in open /\ inbox'[i] = m
BY DEF Pushed, Grows

LEMMA TakenFrames ==
    ASSUME Shrinks, NEW i \in DOMAIN inbox'
    PROVE  i + 1 \in DOMAIN inbox /\ inbox'[i] = inbox[i + 1] /\ i \in Nat /\ i > 0
BY DEF Shrinks

LEMMA GivenStep ==
    ASSUME IInv, [Next]_vars, TodoInv, GivenInv
    PROVE  GivenInv'
<1>1. \A s \in Conns : /\ session[s].sequence \in Nat /\ session'[s].sequence \in Nat
                       /\ session[s].sequence <= session'[s].sequence
    BY SequencesGrow
<1>2. IInv'
    BY StepInv
<1>3. \A f \in Frames : f.session \in Conns /\ f.sequence \in Nat
    BY DEF Frames
<1>4. inbox \in Seq(Messages)
    BY DEF IInv, TypeInv, ClientTypes
<1>5. ASSUME NEW i \in DOMAIN inbox, Framed(inbox[i])
      PROVE  Given(inbox[i].frame) /\ \A f : f = inbox[i].frame => Given(f)'
    <2>1. PICK f \in Frames : f = inbox[i].frame
        BY <1>4, <1>5, FramedIs
    <2>2. f.sequence <= session[f.session].sequence
        BY <1>5, <2>1 DEF GivenInv, Given
    <2>3. f.sequence <= session'[f.session].sequence
        BY <1>1, <1>3, <2>2
    <2>4. QED BY <2>1, <2>2, <2>3 DEF Given
<1>6. ASSUME NEW i \in DOMAIN inbox', Framed(inbox'[i])
      PROVE  Given(inbox[i].frame)'
    <2>1. ASSUME NEW j \in DOMAIN inbox, inbox'[i] = inbox[j]
          PROVE  Given(inbox[i].frame)'
        <3>1. PICK f : f = inbox[j].frame /\ f = inbox'[i].frame /\ Framed(inbox[j])
            BY <1>6, <2>1
        <3>2. Given(f)'
            BY <1>5, <3>1
        <3>3. QED BY <3>1, <3>2 DEF Given
    <2>2. CASE inbox' = inbox
        BY <2>1, <2>2
    <2>3. CASE Shrinks
        BY <2>1, <2>3, TakenFrames
    <2>4. CASE DOMAIN inbox' = {}
        BY <2>4
    <2>5. ASSUME NEW c, NEW m, Pushed(c, m), ~Framed(m)
          PROVE  Given(inbox[i].frame)'
        BY <1>6, <2>1, <2>5, PushedFrames
    <2>6. ASSUME NEW c, NEW f \in Frames, Pushed(c, Data(f)), Given(f)'
          PROVE  Given(inbox[i].frame)'
        <3>1. CASE inbox'[i] = Data(f)
            <4>1. inbox'[i].frame = f
                BY <3>1, Kinds
            <4>2. QED BY <2>6, <4>1 DEF Given
        <3>2. QED BY <2>1, <2>6, <3>1, PushedFrames
    <2>7. ASSUME NEW c \in Conns, NEW f \in Frames, NEW g \in Frames, SendStep(c, f, g)
          PROVE  Given(g)'
        <3>1. /\ g.session = f.session
              /\ \/ g = f /\ session'[f.session].sequence = f.sequence
                 \/ g.sequence = 0
            BY <2>7 DEF SendStep
        <3>2. g.sequence <= session'[g.session].sequence
            BY <1>1, <1>3, <3>1
        <3>3. QED BY <3>2 DEF Given
    <2>8. ASSUME NEW c \in Conns, ReplayStep(c)
          PROVE  Given(inbox[i].frame)'
        <3>1. PICK f \in Frames :
                  f = todo[c][1] /\ 1 \in DOMAIN todo[c] /\ Pushed(c, Data(f))
            BY <2>8 DEF ReplayStep, TalkStep
        <3>2. f.session = sessionOf[c] /\ f.sequence \in 1 .. session[sessionOf[c]].sequence
            BY <3>1 DEF TodoInv, Replaying
        <3>3. f.sequence <= session'[f.session].sequence
            BY <1>1, <1>3, <3>2
        <3>4. Given(f)'
            BY <3>3 DEF Given
        <3>5. QED BY <2>6, <3>1, <3>4
    <2>9. CASE ServerStep
        <3>1. ASSUME NEW c \in Conns, GreetStep(c) \/ RefuseStep(c) \/ AnswerStep(c)
              PROVE  Given(inbox[i].frame)'
            BY <2>5, <3>1, Kinds DEF GreetStep, RefuseStep, AnswerStep, TalkStep
        <3>2. ASSUME NEW c \in Conns, NEW f \in Frames, NEW g \in Frames, SendStep(c, f, g)
              PROVE  Given(inbox[i].frame)'
            BY <2>6, <2>7, <3>2 DEF SendStep
        <3>3. ASSUME NEW c \in Conns, NEW s \in Conns, ResumeStep(c, s)
              PROVE  Given(inbox[i].frame)'
            BY <2>2, <3>3 DEF ResumeStep
        <3>4. QED BY <2>8, <2>9, <3>1, <3>2, <3>3 DEF ServerStep
    <2>10. CASE ClientStep
        <3>1. CASE EndStep \/ \E c \in Conns : AcceptStep(c)
            BY <2>2, <2>4, <3>1 DEF EndStep, AcceptStep
        <3>2. CASE SchemaStep \/ ResumedStep \/ \E f \in Frames : FrameStep(f)
            BY <2>3, <3>2 DEF SchemaStep, ResumedStep, FrameStep
        <3>3. QED BY <2>10, <3>1, <3>2 DEF ClientStep
    <2>11. QED BY Steps, <2>2, <2>9, <2>10 DEF QuietStep
<1>7. ASSUME NEW d \in Conns \ Accepted'
      PROVE  session'[d].sequence = 0
    <2>1. d \notin Accepted
        <3>1. CASE Accept
            BY <1>7, <3>1, AcceptIs DEF IInv
        <3>2. CASE ~Accept
            BY <1>7, <3>2, StagesMoveOn
        <3>3. QED BY <3>1, <3>2
    <2>2. session[d].sequence = 0
        BY <2>1 DEF GivenInv
    <2>3. CASE SameFrames
        BY <2>2, <2>3 DEF SameFrames
    <2>4. CASE \E c \in Conns : Send(c)
        <3>1. PICK c \in Conns, f \in Frames, g \in Frames : SendStep(c, f, g)
            BY <2>4, Sends
        <3>2. c \in Accepted /\ f.session = sessionOf[c]
            BY <3>1 DEF SendStep
        <3>3. f.session \in Accepted
            BY <3>2 DEF IInv, TakeoverInv, Greeted, NumberInv
        <3>4. QED BY <2>1, <2>2, <3>1, <3>3 DEF SendStep
    <2>5. QED BY <2>3, <2>4, OthersKeepFrames
<1>8. QED BY <1>6, <1>7 DEF GivenInv

-----------------------------------------------------------------------------
(* The session that the client counts *)

NoFrames == \A i \in DOMAIN inbox : ~Framed(inbox[i])

\* Without early sends what arrives is of the session that the client counts,
\* and a session whose number it does not know yet has sent nothing.
CountingInv ==
    "earlySend" \notin odd =>
        /\ \A i \in DOMAIN inbox : Framed(inbox[i]) => inbox[i].frame.session = Counted
        /\ link # None /\ Undecided(link) => NoFrames /\ session[link].sequence = 0

LinkIs ==
    link # None =>
        /\ link \in Accepted /\ link \in Conns /\ phase \in {"handshake", "reading"}
        /\ \A c \in Accepted : c <= link

LEMMA LinkKnown ==
    ASSUME IInv
    PROVE  LinkIs
BY DEF IInv, ClientInv, LinkIs, Accepted

\* Once it is decided which session a connection has, that is the counted one.
LEMMA DecidedIsCounted ==
    ASSUME IInv, LinkInv, link # None, ~Undecided(link)
    PROVE  sessionOf[link] = Counted
<1>1. CASE sessionOf[link] # link
    BY <1>1 DEF LinkInv
<1>2. CASE sessionOf[link] = link
    <2>1. pendingResume = None /\ (phase = "handshake" => sessionId = None)
        BY <1>2 DEF Undecided
    <2>2. CASE phase = "handshake"
        BY <1>2, <2>1, <2>2 DEF Counted
    <2>3. CASE phase = "reading"
        BY <1>2, <2>1, <2>3 DEF Counted, LinkInv
    <2>4. QED BY <2>2, <2>3, LinkKnown DEF LinkIs
<1>3. QED BY <1>1, <1>2

LEMMA ReadingCounted ==
    ASSUME IInv, LinkInv, phase = "reading"
    PROVE  /\ Counted \in {sessionId, pendingResume} /\ Counted \in Accepted /\ Counted \in Conns
           /\ pendingResume # None => Counted = pendingResume
<1>1. link # None /\ link \in Conns
    BY Linked
<1>2. CASE pendingResume # None
    <2>1. Greeted(pendingResume)
        BY <1>2 DEF IInv, ClientInv
    <2>2. QED BY <1>2, <2>1 DEF Counted, Greeted, IInv, NumberInv
<1>3. CASE pendingResume = None
    <2>1. sessionId # None
        BY <1>1, <1>3 DEF LinkInv, Counted
    <2>2. Greeted(sessionId)
        BY <2>1 DEF IInv, ClientInv
    <2>3. QED BY <1>3, <2>1, <2>2 DEF Counted, Greeted, IInv, NumberInv
<1>4. QED BY <1>2, <1>3

\* What is pushed to the client's connection, if it is a frame, is of the counted
\* session.
LEMMA CountingPushed ==
    ASSUME IInv, CountingInv, NEW c \in Conns, NEW m, Pushed(c, m), odd \subseteq odd',
           UNCHANGED <<link, phase, sessionId, pendingResume, sessionOf>>, "earlySend" \notin odd',
           link # None => session'[link].sequence = session[link].sequence \/ ~Undecided(link),
           Framed(m) /\ c = link => m.frame.session = Counted /\ ~Undecided(link)
    PROVE  CountingInv'
<1>1. /\ \A i \in DOMAIN inbox : Framed(inbox[i]) => inbox[i].frame.session = Counted
      /\ link # None /\ Undecided(link) => NoFrames /\ session[link].sequence = 0
    BY DEF CountingInv
<1>2. Counted' = Counted /\ (Undecided(link)' <=> Undecided(link))
    BY DEF Counted, Undecided
<1>3. ASSUME NEW i \in DOMAIN inbox', Framed(inbox'[i])
      PROVE  inbox'[i].frame.session = Counted'
    BY <1>1, <1>2, <1>3, PushedFrames
<1>4. ASSUME link' # None, Undecided(link)'
      PROVE  NoFrames' /\ session'[link'].sequence = 0
    <2>1. NoFrames /\ session[link].sequence = 0 /\ Undecided(link) /\ link # None
        BY <1>1, <1>2, <1>4
    <2>2. \A i \in DOMAIN inbox' : ~Framed(inbox'[i])
        BY <2>1, PushedFrames DEF NoFrames
    <2>3. QED BY <2>1, <2>2 DEF NoFrames
<1>5. QED BY <1>3, <1>4 DEF CountingInv

LEMMA CountingStep ==
    ASSUME IInv, [Next]_vars, LinkInv, AnswerInv, TodoInv, GivenInv, CountingInv
    PROVE  CountingInv'
<1>1. SUFFICES ASSUME "earlySend" \notin odd' PROVE CountingInv'
    BY DEF CountingInv
<1>2. LinkIs
    BY LinkKnown
<1>3. "earlySend" \notin odd =>
         /\ \A i \in DOMAIN inbox : Framed(inbox[i]) => inbox[i].frame.session = Counted
         /\ link # None /\ Undecided(link) => NoFrames /\ session[link].sequence = 0
    BY DEF CountingInv
<1>4. CASE QuietStep
    <2>1. /\ UNCHANGED <<link, sessionId, pendingResume, inbox, sessionOf>> /\ SameFrames
          /\ "earlySend" \notin odd
          /\ link # None => phase' = phase
        BY <1>1, <1>2, <1>4 DEF QuietStep, LinkIs
    <2>2. Counted' = Counted
        BY <2>1 DEF Counted
    <2>3. link' # None /\ Undecided(link)' => link # None /\ Undecided(link)
        BY <2>1 DEF Undecided
    <2>4. link # None => session'[link].sequence = session[link].sequence
        BY <1>2, <2>1 DEF LinkIs, SameFrames
    <2>5. QED BY <1>3, <2>1, <2>2, <2>3, <2>4 DEF CountingInv, NoFrames
<1>5. ASSUME NEW c \in Conns, GreetStep(c) \/ RefuseStep(c) \/ AnswerStep(c)
      PROVE  CountingInv'
    <2>1. PICK m : Pushed(c, m) /\ ~Framed(m) /\ TalkStep(c, m)
        BY <1>5, Kinds DEF GreetStep, RefuseStep, AnswerStep, TalkStep
    <2>2. UNCHANGED <<link, phase, sessionId, pendingResume, sessionOf, session>> /\ UNCHANGED odd
        BY <2>1 DEF TalkStep, ClientStays
    <2>3. QED BY <1>1, <2>1, <2>2, CountingPushed
<1>6. ASSUME NEW c \in Conns, ReplayStep(c)
      PROVE  CountingInv'
    <2>1. PICK f \in Frames :
              f = todo[c][1] /\ 1 \in DOMAIN todo[c] /\ Pushed(c, Data(f)) /\ stage[c] = "replaying"
        BY <1>6 DEF ReplayStep, TalkStep
    <2>2. /\ UNCHANGED <<link, phase, sessionId, pendingResume, sessionOf, session>> /\ UNCHANGED odd
          /\ c \in Accepted
        BY <1>6 DEF ReplayStep, TalkStep, ClientStays
    <2>3. f.session = sessionOf[c]
        BY <2>1 DEF TodoInv, Replaying
    <2>4. c = link => sessionOf[link] # link /\ sessionOf[link] = Counted
        BY <2>1, <2>2, RequestStage DEF LinkInv
    <2>5. Data(f).frame = f
        BY Kinds
    <2>6. c = link => Data(f).frame.session = Counted /\ ~Undecided(link)
        BY <2>3, <2>4, <2>5 DEF Undecided
    <2>7. QED BY <1>1, <2>1, <2>2, <2>6, CountingPushed
<1>7. ASSUME NEW c \in Conns, NEW f \in Frames, NEW g \in Frames, SendStep(c, f, g)
      PROVE  CountingInv'
    <2>1. /\ UNCHANGED <<link, phase, sessionId, pendingResume, sessionOf>>
          /\ odd \subseteq odd' /\ Pushed(c, Data(g)) /\ ~Undecided(c) /\ c \in Accepted
          /\ f.session = sessionOf[c] /\ g.session = f.session
        BY <1>1, <1>7 DEF SendStep, ClientStays
    <2>2. c = link => g.session = Counted
        BY <2>1, DecidedIsCounted
    <2>3. Data(g).frame = g
        BY Kinds
    <2>4. ASSUME link # None, Undecided(link)
          PROVE  session'[link].sequence = session[link].sequence
        <3>1. sessionOf[c] # link
            <4>1. c # link /\ c <= link /\ c \in Nat /\ link \in Nat
                BY <1>2, <2>1, <2>4 DEF LinkIs
            <4>2. sessionOf[c] = c \/ sessionOf[c] < c
                BY <2>1 DEF IInv, TakeoverInv
            <4>3. QED BY <4>1, <4>2
        <3>2. link \in Conns \ {f.session}
            BY <1>2, <2>1, <2>4, <3>1 DEF LinkIs
        <3>3. QED BY <1>7, <3>2 DEF SendStep
    <2>5. QED BY <1>1, <2>1, <2>2, <2>3, <2>4, CountingPushed
<1>8. ASSUME NEW c \in Conns, NEW s \in Conns, ResumeStep(c, s)
      PROVE  CountingInv'
    <2>1. /\ UNCHANGED <<link, phase, sessionId, pendingResume, inbox>> /\ SameFrames
          /\ "earlySend" \notin odd
          /\ sessionOf'[c] = s /\ s < c
          /\ \A d \in Conns \ {c} : sessionOf'[d] = sessionOf[d]
        BY <1>1, <1>8 DEF ResumeStep, ClientStays
    <2>2. Counted' = Counted
        BY <2>1 DEF Counted
    <2>3. link' # None /\ Undecided(link)' => link # None /\ Undecided(link)
        <3>1. CASE link = c
            BY <2>1, <3>1 DEF Undecided
        <3>2. CASE link # c
            BY <1>2, <2>1, <3>2 DEF Undecided, LinkIs
        <3>3. QED BY <3>1, <3>2
    <2>4. link # None => session'[link].sequence = session[link].sequence
        BY <1>2, <2>1 DEF LinkIs, SameFrames
    <2>5. QED BY <1>3, <2>1, <2>2, <2>3, <2>4 DEF CountingInv, NoFrames
<1>9. ASSUME NEW c \in Conns, AcceptStep(c)
      PROVE  CountingInv'
    <2>1. c \notin Accepted
        BY <1>9 DEF AcceptStep
    <2>2. session'[c].sequence = 0
        BY <1>9, <2>1 DEF AcceptStep, SameFrames, GivenInv
    <2>3. QED BY <1>9, <2>2 DEF AcceptStep, CountingInv, NoFrames
<1>10. CASE EndStep
    BY <1>10 DEF EndStep, CountingInv
<1>11. CASE SchemaStep
    <2>1. /\ UNCHANGED <<link, odd>> /\ Shrinks /\ phase' = "reading" /\ phase = "handshake"
          /\ sessionOf[link] = link /\ link \in Accepted /\ session' = session
          /\ sessionId' = link
          /\ pendingResume' = IF sessionId # None THEN sessionId ELSE pendingResume
        BY <1>11 DEF SchemaStep
    <2>2. link # None /\ "earlySend" \notin odd
        BY <1>1, <2>1, RequestStage
    <2>3. CASE Undecided(link)
        <3>1. NoFrames /\ session[link].sequence = 0
            BY <1>3, <2>2, <2>3
        <3>2. \A i \in DOMAIN inbox' : ~Framed(inbox'[i])
            BY <2>1, <3>1, TakenFrames DEF NoFrames
        <3>3. QED BY <2>1, <3>1, <3>2 DEF CountingInv, NoFrames
    <2>4. CASE ~Undecided(link)
        <3>1. sessionId = None /\ pendingResume = None
            BY <2>1, <2>4 DEF Undecided
        <3>2. Counted = link /\ Counted' = link /\ ~Undecided(link)'
            BY <2>1, <2>2, <3>1 DEF Counted, Undecided
        <3>3. \A i \in DOMAIN inbox' : Framed(inbox'[i]) => inbox'[i].frame.session = link
            BY <1>3, <2>1, <2>2, <3>2, TakenFrames
        <3>4. QED BY <3>2, <3>3 DEF CountingInv
    <2>5. QED BY <2>3, <2>4
<1>12. CASE ResumedStep
    <2>1. /\ UNCHANGED <<link, phase, sessionOf, odd>> /\ Shrinks /\ phase = "reading"
          /\ inbox[1].type = "resumed" /\ pendingResume' = None
          /\ sessionId' = IF inbox[1].recovered /\ pendingResume # None THEN pendingResume ELSE sessionId
        BY <1>12 DEF ResumedStep
    <2>2. 1 \in DOMAIN inbox
        BY <2>1 DEF Shrinks
    <2>3. pendingResume # None /\ (inbox[1].recovered <=> sessionOf[link] # link)
        BY <2>1, <2>2 DEF AnswerInv, Answered
    <2>4. ~Undecided(link)' /\ link # None
        BY <2>1, Linked DEF Undecided
    <2>5. CASE inbox[1].recovered
        <3>1. Counted' = Counted
            BY <2>1, <2>3, <2>5 DEF Counted
        <3>2. \A i \in DOMAIN inbox' : Framed(inbox'[i]) => inbox'[i].frame.session = Counted
            BY <1>1, <1>3, <2>1, TakenFrames
        <3>3. QED BY <2>4, <3>1, <3>2 DEF CountingInv
    <2>6. CASE ~inbox[1].recovered
        <3>1. NoFrames
            BY <1>1, <1>3, <2>1, <2>3, <2>4, <2>6 DEF Undecided
        <3>2. \A i \in DOMAIN inbox' : ~Framed(inbox'[i])
            BY <2>1, <3>1, TakenFrames DEF NoFrames
        <3>3. QED BY <2>4, <3>2 DEF CountingInv
    <2>7. QED BY <2>5, <2>6
<1>13. ASSUME NEW f \in Frames, FrameStep(f)
       PROVE  CountingInv'
    <2>1. /\ UNCHANGED <<link, phase, sessionOf, session, sessionId, pendingResume, odd>> /\ Shrinks
        BY <1>13 DEF FrameStep
    <2>2. Counted' = Counted /\ (Undecided(link)' <=> Undecided(link))
        BY <2>1 DEF Counted, Undecided
    <2>3. \A i \in DOMAIN inbox' : Framed(inbox'[i]) => inbox'[i].frame.session = Counted
        BY <1>1, <1>3, <2>1, TakenFrames
    <2>4. NoFrames => NoFrames'
        BY <2>1, TakenFrames DEF NoFrames
    <2>5. QED BY <1>3, <2>1, <2>2, <2>3, <2>4 DEF CountingInv
<1>14. QED BY Steps, <1>4, <1>5, <1>6, <1>7, <1>8, <1>9, <1>10, <1>11, <1>12, <1>13
           DEF ServerStep, ClientStep

-----------------------------------------------------------------------------
(* The order of delivery *)

\* The counter is beyond all that was delivered of the client's sessions, and
\* nothing was delivered of a connection whose number it does not know yet.
Counts(f) ==
    /\ f.session \in Accepted
    /\ f.session \in {sessionId, pendingResume} => f.sequence <= last
    /\ link # None /\ (phase = "handshake" \/ pendingResume # None) => f.session # link

CounterInv == "earlySend" \notin odd => \A i \in DOMAIN delivered : Counts(delivered[i])

OrderInv ==
    LinkInv /\ AnswerInv /\ TodoInv /\ GivenInv /\ CountingInv /\ CounterInv /\ DeliveredInOrder

LEMMA AcceptedGrows ==
    ASSUME IInv, [Next]_vars
    PROVE  Accepted \subseteq Accepted'
<1>1. CASE Accept
    <2>1. PICK c \in Conns : Accepted = 1 .. c - 1 /\ Accepted' = 1 .. c
        BY <1>1, AcceptIs DEF IInv
    <2>2. QED BY <2>1
<1>2. QED BY <1>1, StagesMoveOn

\* What only the server or a task does leaves the client's account as it is.
LEMMA CountsStay ==
    ASSUME IInv, [Next]_vars, QuietStep \/ ServerStep
    PROVE  /\ UNCHANGED <<link, sessionId, pendingResume, last, delivered>> /\ odd \subseteq odd'
           /\ link # None => UNCHANGED phase
<1>1. CASE QuietStep
    BY <1>1, LinkKnown DEF QuietStep, LinkIs
<1>2. CASE ServerStep
    BY ZenonT(40), <1>2 DEF ServerStep, GreetStep, RefuseStep, ReplayStep, AnswerStep, SendStep, ResumeStep,
                TalkStep, ClientStays
<1>3. QED BY <1>1, <1>2

LEMMA CounterStep ==
    ASSUME IInv, [Next]_vars, LinkInv, AnswerInv, CountingInv, CounterInv
    PROVE  CounterInv'
<1>1. SUFFICES ASSUME "earlySend" \notin odd' PROVE CounterInv'
    BY DEF CounterInv
<1>2. Accepted \subseteq Accepted'
    BY AcceptedGrows
<1>3. "earlySend" \notin odd => \A i \in DOMAIN delivered :
          /\ delivered[i].session \in Accepted
          /\ delivered[i].session \in {sessionId, pendingResume} => delivered[i].sequence <= last
          /\ link # None /\ (phase = "handshake" \/ pendingResume # None) =>
                delivered[i].session # link
    BY DEF CounterInv, Counts
<1>4. None \notin Accepted /\ Accepted \subseteq Conns
    BY DEF Accepted
<1>5. CASE QuietStep \/ ServerStep
    <2>1. /\ UNCHANGED <<link, sessionId, pendingResume, last, delivered>> /\ odd \subseteq odd'
          /\ link # None => UNCHANGED phase
        BY <1>5, CountsStay
    <2>2. QED BY <1>1, <1>2, <1>3, <2>1 DEF CounterInv, Counts
<1>6. ASSUME NEW c \in Conns, AcceptStep(c)
      PROVE  CounterInv'
    <2>1. c \notin Accepted
        BY <1>6 DEF AcceptStep
    <2>2. QED BY <1>1, <1>2, <1>3, <1>6, <2>1 DEF AcceptStep, CounterInv, Counts
<1>7. CASE EndStep
    BY <1>1, <1>2, <1>3, <1>4, <1>7 DEF EndStep, CounterInv, Counts
<1>8. CASE SchemaStep
    <2>1. link # None
        BY <1>8, RequestStage DEF SchemaStep
    <2>2. QED BY <1>1, <1>2, <1>3, <1>4, <1>8, <2>1 DEF SchemaStep, CounterInv, Counts
<1>9. CASE ResumedStep
    <2>1. /\ UNCHANGED <<link, phase, delivered, odd>> /\ phase = "reading" /\ link \in Accepted
          /\ pendingResume' = None
          /\ sessionId' = IF inbox[1].recovered /\ pendingResume # None THEN pendingResume ELSE sessionId
          /\ last' = IF inbox[1].recovered THEN last ELSE 0
          /\ 1 \in DOMAIN inbox /\ inbox[1].type = "resumed"
        BY <1>9 DEF ResumedStep, Shrinks
    <2>2. pendingResume # None /\ (inbox[1].recovered <=> sessionOf[link] # link)
        BY <2>1 DEF AnswerInv, Answered
    <2>3. link # None
        BY <2>1, RequestStage
    <2>4. CASE inbox[1].recovered
        BY <1>1, <1>2, <1>3, <1>4, <2>1, <2>2, <2>4 DEF CounterInv, Counts
    <2>5. CASE ~inbox[1].recovered
        <3>1. sessionId = link
            BY <2>1, <2>2, <2>3 DEF LinkInv
        <3>2. QED BY <1>1, <1>2, <1>3, <1>4, <2>1, <2>2, <2>3, <2>5, <3>1 DEF CounterInv, Counts
    <2>6. QED BY <2>4, <2>5
<1>10. ASSUME NEW f \in Frames, FrameStep(f)
       PROVE  CounterInv'
    <2>1. /\ UNCHANGED <<link, phase, sessionId, pendingResume, odd>> /\ phase = "reading"
          /\ last' = IF f.sequence > last THEN f.sequence ELSE last
          /\ link \in Accepted
          /\ 1 \in DOMAIN inbox /\ inbox[1] = Data(f)
        BY <1>10 DEF FrameStep, Shrinks
    <2>2. f.session = Counted
        BY <1>1, <2>1, Kinds DEF CountingInv
    <2>3. f.sequence \in Nat /\ last \in Nat
        BY DEF Frames, IInv, TypeInv, ClientTypes
    <2>4. last <= last' /\ f.sequence <= last'
        BY <2>1, <2>3
    <2>5. /\ f.session \in Accepted' /\ f.sequence <= last'
          /\ pendingResume' # None => f.session # link'
        BY <1>2, <2>1, <2>2, <2>4, ReadingCounted, RequestStage DEF LinkInv
    <2>6. Counts(f)'
        BY <2>1, <2>5 DEF Counts
    <2>7. ASSUME NEW i \in DOMAIN delivered
          PROVE  \A g : g = delivered[i] => Counts(g)'
        <3>1. PICK g \in Frames : g = delivered[i]
            BY DEF IInv, TypeInv, ClientTypes
        <3>2. g.sequence \in Nat
            BY DEF Frames
        <3>3. Counts(g)'
            BY <1>1, <1>2, <1>3, <2>1, <2>3, <2>4, <3>1, <3>2 DEF Counts
        <3>4. QED BY <3>1, <3>3
    <2>8. CASE UNCHANGED delivered
        BY <2>7, <2>8 DEF CounterInv, Counts
    <2>9. CASE ~UNCHANGED delivered
        <3>1. PICK n \in Nat : /\ DOMAIN delivered = 1 .. n /\ DOMAIN delivered' = 1 .. n + 1
                               /\ delivered'[n + 1] = f
                               /\ \A i \in 1 .. n : delivered'[i] = delivered[i]
            BY <1>10, <2>9 DEF FrameStep
        <3>2. ASSUME NEW i \in DOMAIN delivered'
              PROVE  \A g : g = delivered'[i] => Counts(g)'
            <4>1. CASE i = n + 1
                BY <2>6, <3>1, <4>1
            <4>2. CASE i \in 1 .. n
                BY <2>7, <3>1, <4>2
            <4>3. QED BY <3>1, <4>1, <4>2
        <3>3. QED BY <3>2 DEF CounterInv, Counts
    <2>10. QED BY <2>8, <2>9
<1>11. QED BY Steps, <1>5, <1>6, <1>7, <1>8, <1>9, <1>10 DEF ClientStep

LEMMA DeliveryStep ==
    ASSUME IInv, [Next]_vars, LinkInv, CountingInv, CounterInv, DeliveredInOrder
    PROVE  DeliveredInOrder'
<1>1. CASE UNCHANGED delivered /\ odd \subseteq odd'
    BY <1>1 DEF DeliveredInOrder
<1>2. ASSUME NEW f \in Frames, FrameStep(f), ~UNCHANGED delivered
      PROVE  DeliveredInOrder'
    <2>1. SUFFICES ASSUME "earlySend" \notin odd PROVE DeliveredInOrder'
        BY <1>2 DEF DeliveredInOrder, FrameStep
    <2>2. PICK n \in Nat : /\ DOMAIN delivered = 1 .. n /\ DOMAIN delivered' = 1 .. n + 1
                           /\ delivered'[n + 1] = f
                           /\ \A i \in 1 .. n : delivered'[i] = delivered[i]
        BY <1>2 DEF FrameStep
    <2>3. /\ phase = "reading" /\ (f.sequence = 0 \/ f.sequence > last)
          /\ 1 \in DOMAIN inbox /\ inbox[1] = Data(f)
        BY <1>2 DEF FrameStep, Shrinks
    <2>4. f.session = Counted
        BY <2>1, <2>3, Kinds DEF CountingInv
    <2>5. f.session \in {sessionId, pendingResume}
        BY <1>2, <2>4, ReadingCounted DEF FrameStep
    <2>6. ASSUME NEW i \in 1 .. n + 1, NEW j \in 1 .. n + 1, i < j,
                 delivered'[i].session = delivered'[j].session,
                 delivered'[i].sequence * delivered'[j].sequence # 0
          PROVE  delivered'[i].sequence < delivered'[j].sequence
        <3>1. i \in 1 .. n /\ delivered'[i] = delivered[i]
            BY <2>2, <2>6
        <3>2. CASE j = n + 1
            <4>1. PICK g \in Frames : g = delivered[i]
                BY <2>2, <3>1 DEF IInv, TypeInv, ClientTypes
            <4>2. g.sequence <= last /\ g.session = f.session
                BY <2>1, <2>2, <2>5, <2>6, <3>1, <3>2, <4>1 DEF CounterInv, Counts
            <4>3. g.sequence \in Nat /\ f.sequence \in Nat /\ last \in Nat
                BY DEF Frames, IInv, TypeInv, ClientTypes
            <4>4. f.sequence # 0
                BY <2>2, <2>6, <3>1, <3>2, <4>1, <4>3
            <4>5. g.sequence < f.sequence
                BY <2>3, <4>2, <4>3, <4>4
            <4>6. QED BY <2>2, <3>1, <3>2, <4>1, <4>5
        <3>3. CASE j \in 1 .. n
            BY <2>1, <2>2, <2>6, <3>1, <3>3 DEF DeliveredInOrder
        <3>4. QED BY <3>2, <3>3
    <2>7. QED BY <2>2, <2>6 DEF DeliveredInOrder
<1>3. CASE QuietStep \/ ServerStep
    BY <1>1, <1>3, CountsStay
<1>4. CASE ClientStep
    <2>1. (\E f \in Frames : FrameStep(f)) \/ (UNCHANGED delivered /\ odd \subseteq odd')
        BY <1>4 DEF ClientStep, EndStep, SchemaStep, ResumedStep, AcceptStep
    <2>2. \A f \in Frames : FrameStep(f) => odd' = odd
        BY DEF FrameStep
    <2>3. QED BY <1>1, <1>2, <2>1, <2>2
<1>5. QED BY Steps, <1>3, <1>4

LEMMA OrderStep ==
    ASSUME IInv, [Next]_vars, OrderInv
    PROVE  OrderInv'
BY LinkStep, AnswersStay, TodoStep, GivenStep, CountingStep, CounterStep, DeliveryStep DEF OrderInv

LEMMA OrderInit ==
    ASSUME Init
    PROVE  OrderInv
<1>1. DOMAIN inbox = {} /\ DOMAIN delivered = {} /\ link = None
    BY DEF Init
<1>2. LinkInv /\ AnswerInv /\ CountingInv /\ CounterInv /\ DeliveredInOrder
    BY <1>1 DEF LinkInv, AnswerInv, CountingInv, CounterInv, DeliveredInOrder
<1>3. \A c \in Conns : todo[c] = <<>> /\ DOMAIN todo[c] = {}
    BY DEF Init
<1>4. TodoInv
    BY <1>3 DEF TodoInv, Replaying
<1>5. \A s \in Conns : session[s].sequence = 0
    <2>1. PICK r : r = [alive |-> FALSE, sequence |-> 0, frames |-> <<>>, expiring |-> FALSE]
        OBVIOUS
    <2>2. r.sequence = 0 /\ \A s \in Conns : session[s] = r
        BY <2>1 DEF Init
    <2>3. QED BY <2>2
<1>6. GivenInv
    BY <1>1, <1>5 DEF GivenInv
<1>7. QED BY <1>2, <1>4, <1>6 DEF OrderInv

LEMMA OrderInvariance == Spec => []OrderInv
<1>1. Init => OrderInv
    BY OrderInit
<1>2. IInv /\ OrderInv /\ [Next]_vars => OrderInv'
    BY OrderStep
<1>3. QED BY <1>1, <1>2, Invariance, PTL DEF Spec

\* No frame of a session reaches the application twice or out of order, over any
\* number of transports, resumes and refusals: the client's one counter is beyond
\* all it delivered of the session it counts (client.py's last_replay_sequence),
\* and what a connection sends is of that session as soon as the client knows it.
THEOREM InOrder == Spec => []DeliveredInOrder
<1>1. OrderInv => DeliveredInOrder
    BY DEF OrderInv
<1>2. QED BY <1>1, OrderInvariance, PTL

-----------------------------------------------------------------------------
(* What the client has, and what is under way *)

Plain == odd \subseteq {"staleOwner"}
Retained == ToSet(session[Counted].frames)

\* A client that counts without delivering was closed for good.
ClosedInv == closed /\ phase \notin {"ended", "broken"} => intentionalClose
Counting == closed => phase = "backoff"

\* The counter is that of the counted session, and what a resume asks for.
PlainInv ==
    Plain =>
        /\ link = None \/ phase = "handshake" => pendingResume = None
        /\ sessionId = None => last = 0
        /\ Counted # None => last <= session[Counted].sequence
        /\ link # None /\ request[link] # <<>> => request[link][1].last = last

\* What the client has counted of the buffer it has delivered.
Got(f) == \E i \in DOMAIN delivered : delivered[i] = f
CountedInv ==
    Plain /\ Counting /\ Counted # None => \A f \in Retained : f.sequence <= last => Got(f)

\* No frame arrives before one of the buffer that the client still lacks.
NoGapInv ==
    Plain /\ link # None =>
        \A i \in DOMAIN inbox : Framed(inbox[i]) =>
            \A f \in Retained :
                last < f.sequence /\ f.sequence < inbox[i].frame.sequence =>
                    \E j \in DOMAIN inbox : j < i /\ inbox[j] = Data(f)

\* On an open socket that has the session, all the client lacks is under way.
Coming(f) == \E i \in DOMAIN inbox : inbox[i] = Data(f)
Queued(c, f) == \E i \in DOMAIN todo[c] : todo[c][i] = f
UnderWayInv ==
    Plain /\ link \in open /\ sessionOf[link] = Counted =>
        \A f \in Retained : last < f.sequence => Coming(f) \/ Queued(link, f)

ReplayInv == ClosedInv /\ PlainInv /\ CountedInv /\ NoGapInv /\ UnderWayInv

LEMMA PlainBefore ==
    ASSUME IInv, [Next]_vars, Plain'
    PROVE  Plain /\ "earlySend" \notin odd /\ "earlySend" \notin odd'
<1>1. odd \subseteq odd'
    BY Steps, CountsStay
    DEF ClientStep, EndStep, SchemaStep, ResumedStep, FrameStep, AcceptStep
<1>2. QED BY <1>1 DEF Plain

LEMMA CountedType ==
    ASSUME IInv, Counted # None
    PROVE  Counted \in Conns
BY DEF Counted, IInv, TypeInv, ClientTypes

\* What the server and the tasks do changes neither the counted session nor a
\* request, except that it may be answered.
LEMMA CountedStays ==
    ASSUME IInv, [Next]_vars, QuietStep \/ ServerStep
    PROVE  /\ Counted' = Counted
           /\ \A d \in Conns : request'[d] \in {request[d], <<>>}
           /\ Counting' => Counting
           /\ ClosedInv => ClosedInv'
<1>1. Counted' = Counted
    BY CountsStay DEF Counted
<1>2. CASE QuietStep
    <2>1. \A d \in Conns : request'[d] \in {request[d], <<>>}
        BY <1>2 DEF QuietStep
    <2>2. (Counting' => Counting) /\ (ClosedInv => ClosedInv')
        BY <1>2 DEF QuietStep, Counting, ClosedInv
    <2>3. QED BY <1>1, <2>1, <2>2
<1>3. CASE ServerStep
    <2>1. \A d \in Conns : request'[d] \in {request[d], <<>>}
        BY ZenonT(40), <1>3
        DEF ServerStep, GreetStep, RefuseStep, ReplayStep, AnswerStep, SendStep, ResumeStep,
            TalkStep
    <2>2. UNCHANGED <<closed, phase, intentionalClose>>
        BY ZenonT(40), <1>3
        DEF ServerStep, GreetStep, RefuseStep, ReplayStep, AnswerStep, SendStep, ResumeStep,
            TalkStep, ClientStays
    <2>3. QED BY <1>1, <2>1, <2>2 DEF Counting, ClosedInv
<1>4. QED BY <1>2, <1>3

LEMMA ClosedStep ==
    ASSUME IInv, [Next]_vars, ClosedInv
    PROVE  ClosedInv'
<1>1. CASE QuietStep \/ ServerStep
    BY <1>1, CountedStays
<1>2. CASE ClientStep
    BY <1>2 DEF ClientStep, EndStep, SchemaStep, ResumedStep, FrameStep, AcceptStep, ClosedInv
<1>3. QED BY Steps, <1>1, <1>2

\* In a plain history the schema is read, and a resume answered, so that the client
\* goes on counting the same session, or one that has sent nothing.
LEMMA SchemaCounted ==
    ASSUME IInv, SchemaStep, PlainInv, Plain
    PROVE  Counted' = Counted /\ pendingResume = None
<1>1. /\ pendingResume = None /\ link # None
      /\ sessionId' = link /\ link' = link
      /\ pendingResume' = IF sessionId # None THEN sessionId ELSE pendingResume
    BY RequestStage DEF SchemaStep, PlainInv
<1>2. QED BY <1>1 DEF Counted

LEMMA ResumedCounted ==
    ASSUME IInv, ResumedStep, LinkInv, AnswerInv, CountingInv, "earlySend" \notin odd
    PROVE  /\ pendingResume # None /\ link # None /\ request[link] = <<>>
           /\ \/ Counted' = Counted /\ last' = last
              \/ /\ Counted' = link /\ last' = 0 /\ NoFrames
                 /\ session[link].sequence = 0
<1>1. /\ UNCHANGED <<link, phase, sessionOf, odd>> /\ phase = "reading"
      /\ inbox[1].type = "resumed" /\ 1 \in DOMAIN inbox
      /\ pendingResume' = None
      /\ sessionId' = IF inbox[1].recovered /\ pendingResume # None THEN pendingResume ELSE sessionId
      /\ last' = IF inbox[1].recovered THEN last ELSE 0
    BY DEF ResumedStep, Shrinks
<1>2. /\ pendingResume # None /\ request[link] = <<>>
      /\ inbox[1].recovered <=> sessionOf[link] # link
    BY <1>1 DEF AnswerInv, Answered
<1>3. link # None
    BY <1>1, Linked
<1>4. CASE inbox[1].recovered
    BY <1>1, <1>2, <1>3, <1>4 DEF Counted
<1>5. CASE ~inbox[1].recovered
    <2>1. sessionId = link
        BY <1>1, <1>2, <1>3 DEF LinkInv
    <2>2. NoFrames /\ session[link].sequence = 0
        BY <1>2, <1>3, <1>5 DEF CountingInv, Undecided
    <2>3. QED BY <1>1, <1>2, <1>3, <1>5, <2>1, <2>2 DEF Counted
<1>6. QED BY <1>4, <1>5

LEMMA EndCounted ==
    ASSUME IInv, EndStep, PlainInv, Plain, Plain'
    PROVE  /\ UNCHANGED <<sessionId, pendingResume>> /\ pendingResume = None
           /\ Counted' = sessionId
           /\ sessionId # None => Counted = sessionId
<1>1. UNCHANGED <<sessionId, pendingResume>> /\ pendingResume = None /\ link' = None
    BY DEF EndStep, Plain, PlainInv
<1>2. QED BY <1>1 DEF Counted

\* The buffer of a session that has sent nothing is empty.
LEMMA NothingRetained ==
    ASSUME IInv, NEW s \in Conns, session[s].sequence = 0
    PROVE  ToSet(session[s].frames) = {}
<1>1. SUFFICES ASSUME NEW f \in ToSet(session[s].frames) PROVE FALSE
    OBVIOUS
<1>2. f.sequence \in 1 .. 0
    BY RetainedIs
<1>3. QED BY <1>2

LEMMA AcceptCounted ==
    ASSUME IInv, GivenInv, PlainInv, Plain, NEW c \in Conns, AcceptStep(c)
    PROVE  \/ /\ Counted' = Counted /\ Counted # c /\ Counted # None /\ Counted = sessionId
           \/ /\ Counted' = c /\ last = 0 /\ session[c].sequence = 0
              /\ session'[c].sequence = 0 /\ ToSet(session'[c].frames) = {}
<1>1. /\ link = None /\ link' = c /\ sessionId # c /\ c \notin Accepted
      /\ UNCHANGED <<sessionId, pendingResume>> /\ SameFrames
    BY DEF AcceptStep
<1>2. pendingResume = None
    BY <1>1 DEF PlainInv
<1>3. session[c].sequence = 0 /\ session'[c].sequence = 0
    BY <1>1 DEF GivenInv, SameFrames
<1>4. ToSet(session'[c].frames) = {}
    BY <1>1, <1>3, NothingRetained DEF SameFrames
<1>5. sessionId = None => last = 0
    BY DEF PlainInv
<1>6. QED BY <1>1, <1>2, <1>3, <1>4, <1>5 DEF Counted

\* A frame on its way to a client whose resume is not answered: there is none.
LEMMA FrameUnasked ==
    ASSUME IInv, LinkInv, CountingInv, "earlySend" \notin odd, NEW f \in Frames, FrameStep(f)
    PROVE  /\ f.session = Counted /\ Counted \in Conns /\ Counted' = Counted
           /\ link # None /\ request[link] = <<>>
           /\ sessionId # None /\ f.sequence \in Nat /\ last \in Nat
<1>1. /\ phase = "reading" /\ 1 \in DOMAIN inbox /\ inbox[1] = Data(f)
      /\ UNCHANGED <<link, sessionId, pendingResume>>
    BY DEF FrameStep, Shrinks
<1>2. f.session = Counted /\ Framed(inbox[1])
    BY <1>1, Kinds DEF CountingInv
<1>3. Counted \in Conns /\ link # None /\ link \in Accepted
    BY <1>1, ReadingCounted, Linked
<1>4. request[link] = <<>>
    <2>1. SUFFICES ASSUME request[link] # <<>> PROVE FALSE
        OBVIOUS
    <2>2. sessionOf[link] = link /\ pendingResume # None
        BY <1>3, <2>1, RequestStage DEF LinkInv
    <2>3. QED BY <1>1, <1>2, <1>3, <2>2 DEF CountingInv, Undecided, NoFrames
<1>5. sessionId # None
    <2>1. CASE pendingResume # None
        BY <1>1, <1>3, <2>1 DEF LinkInv
    <2>2. CASE pendingResume = None
        BY <1>1, <1>3, <2>2, ReadingCounted
    <2>3. QED BY <2>1, <2>2
<1>6. f.sequence \in Nat /\ last \in Nat
    BY DEF Frames, IInv, TypeInv, ClientTypes
<1>7. QED BY <1>1, <1>2, <1>3, <1>4, <1>5, <1>6 DEF Counted

LEMMA PlainStep ==
    ASSUME IInv, [Next]_vars, OrderInv, PlainInv
    PROVE  PlainInv'
<1>1. SUFFICES ASSUME Plain' PROVE PlainInv'
    BY DEF PlainInv
<1>2. /\ Plain /\ "earlySend" \notin odd
      /\ LinkInv /\ AnswerInv /\ GivenInv /\ CountingInv
    BY <1>1, PlainBefore DEF OrderInv
<1>3. /\ link = None \/ phase = "handshake" => pendingResume = None
      /\ sessionId = None => last = 0
      /\ Counted # None => last <= session[Counted].sequence
      /\ link # None /\ request[link] # <<>> => request[link][1].last = last
    BY <1>2 DEF PlainInv
<1>4. \A s \in Conns : /\ session[s].sequence \in Nat /\ session'[s].sequence \in Nat
                       /\ session[s].sequence <= session'[s].sequence
    BY SequencesGrow
<1>5. last \in Nat /\ last' \in Nat
    BY StepInv DEF IInv, TypeInv, ClientTypes
<1>6. ASSUME Counted' = Counted, last' = last, Counted' # None
      PROVE  last' <= session'[Counted'].sequence
    BY <1>3, <1>4, <1>5, <1>6, CountedType
<1>7. CASE QuietStep \/ ServerStep
    <2>1. /\ UNCHANGED <<link, sessionId, pendingResume, last>> /\ Counted' = Counted
          /\ link # None => UNCHANGED phase
          /\ \A d \in Conns : request'[d] \in {request[d], <<>>}
        BY <1>7, CountsStay, CountedStays
    <2>2. QED BY <1>3, <1>6, <2>1, LinkKnown DEF PlainInv, LinkIs
<1>8. ASSUME NEW c \in Conns, AcceptStep(c)
      PROVE  PlainInv'
    <2>1. /\ link = None /\ link' = c /\ request'[c] = <<>>
          /\ UNCHANGED <<sessionId, pendingResume, last>>
        BY <1>8 DEF AcceptStep
    <2>2. Counted' # None => last' <= session'[Counted'].sequence
        BY <1>2, <1>4, <1>6, <1>8, <2>1, AcceptCounted
    <2>3. QED BY <1>3, <2>1, <2>2 DEF PlainInv
<1>9. CASE EndStep
    <2>1. /\ UNCHANGED <<sessionId, pendingResume, last>> /\ pendingResume = None
          /\ link' = None /\ Counted' = sessionId /\ (sessionId # None => Counted = sessionId)
        BY <1>1, <1>2, <1>9, EndCounted DEF EndStep
    <2>2. Counted' # None => last' <= session'[Counted'].sequence
        BY <1>6, <2>1
    <2>3. QED BY <1>3, <2>1, <2>2 DEF PlainInv
<1>10. CASE SchemaStep
    <2>1. /\ link' = link /\ phase' = "reading" /\ sessionId' = link /\ link # None /\ last' = last
          /\ request'[link] # <<>> => request'[link][1].last = last
        BY <1>10, RequestStage DEF SchemaStep
    <2>2. Counted' = Counted
        BY <1>2, <1>10, SchemaCounted
    <2>3. QED BY <1>6, <2>1, <2>2 DEF PlainInv
<1>11. CASE ResumedStep
    <2>1. /\ link # None /\ request[link] = <<>>
          /\ \/ Counted' = Counted /\ last' = last
             \/ Counted' = link /\ last' = 0
        BY <1>2, <1>11, ResumedCounted
    <2>2. /\ UNCHANGED <<link, phase, request>> /\ phase = "reading"
          /\ sessionId' = None => sessionId = None
        BY <1>11 DEF ResumedStep
    <2>3. Counted' # None => last' <= session'[Counted'].sequence
        BY <1>4, <1>6, <2>1, LinkKnown DEF LinkIs
    <2>4. QED BY <1>3, <2>1, <2>2, <2>3 DEF PlainInv
<1>12. ASSUME NEW f \in Frames, FrameStep(f)
       PROVE  PlainInv'
    <2>1. /\ f.session = Counted /\ Counted \in Conns /\ Counted' = Counted
          /\ link # None /\ request[link] = <<>> /\ sessionId # None
          /\ f.sequence \in Nat
        BY <1>2, <1>12, FrameUnasked
    <2>2. /\ UNCHANGED <<link, phase, sessionId, pendingResume, session, request>>
          /\ last' = IF f.sequence > last THEN f.sequence ELSE last
          /\ 1 \in DOMAIN inbox /\ inbox[1] = Data(f)
        BY <1>12 DEF FrameStep, Shrinks
    <2>3. f.sequence <= session[Counted].sequence
        BY <1>2, <2>1, <2>2, Kinds DEF GivenInv, Given
    <2>4. last' <= session'[Counted'].sequence
        BY <1>3, <2>1, <2>2, <2>3
    <2>5. QED BY <1>3, <2>1, <2>2, <2>4 DEF PlainInv
<1>13. QED BY Steps, <1>7, <1>8, <1>9, <1>10, <1>11, <1>12 DEF ClientStep

\* Frames enter a buffer by a send only, and the inbox at its end.
LEMMA FramesAdded ==
    ASSUME IInv, QuietStep \/ ServerStep, NEW s \in Conns, NEW f \in ToSet(session'[s].frames)
    PROVE  \/ f \in ToSet(session[s].frames)
           \/ /\ f.sequence = session[s].sequence + 1 /\ f.session = s
              /\ \E c \in Conns : SendStep(c, f, f)
<1>1. CASE SameFrames
    BY <1>1 DEF SameFrames
<1>2. ASSUME NEW c \in Conns, NEW e \in Frames, NEW g \in Frames, SendStep(c, e, g)
      PROVE  \/ f \in ToSet(session[s].frames)
             \/ /\ f.sequence = session[s].sequence + 1 /\ f.session = s
                /\ \E d \in Conns : SendStep(d, f, f)
    <2>1. CASE s # e.session
        BY <1>2, <2>1 DEF SendStep
    <2>2. CASE s = e.session /\ ~SameFrames
        <3>1. /\ ToSet(session'[s].frames) \subseteq ToSet(session[s].frames) \cup {e}
              /\ e.sequence = session[s].sequence + 1 /\ g = e
            BY <1>2, <2>2 DEF SendStep
        <3>2. CASE f = e
            BY <1>2, <2>2, <3>1, <3>2
        <3>3. QED BY <3>1, <3>2
    <2>3. QED BY <1>1, <2>1, <2>2
<1>3. ASSUME UNCHANGED session
      PROVE  SameFrames
    BY <1>3 DEF SameFrames
<1>4. QED
    BY <1>1, <1>2, <1>3
    DEF QuietStep, ServerStep, GreetStep, RefuseStep, ReplayStep, AnswerStep, ResumeStep, TalkStep

LEMMA PushedKept ==
    ASSUME NEW c, NEW m, Pushed(c, m)
    PROVE  \A j \in DOMAIN inbox : j \in DOMAIN inbox' /\ inbox'[j] = inbox[j]
BY DEF Pushed, Grows

LEMMA InboxKept ==
    ASSUME QuietStep \/ ServerStep
    PROVE  \A j \in DOMAIN inbox : j \in DOMAIN inbox' /\ inbox'[j] = inbox[j]
<1>1. \/ UNCHANGED inbox
      \/ \E c \in Conns, m \in {Schema(d) : d \in Conns} \cup {Resumed(ok) : ok \in BOOLEAN}
                                \cup {Data(f) : f \in Frames} : Pushed(c, m)
    BY ZenonT(40) DEF QuietStep, ServerStep, GreetStep, RefuseStep, ReplayStep, AnswerStep, SendStep,
           ResumeStep, TalkStep
<1>2. QED BY <1>1, PushedKept

\* Who sends a frame to the client.
LEMMA FramePushed ==
    ASSUME QuietStep \/ ServerStep, NEW i \in DOMAIN inbox', Framed(inbox'[i])
    PROVE  \/ i \in DOMAIN inbox /\ inbox'[i] = inbox[i]
           \/ /\ link \in Conns /\ link \in open /\ \A j \in DOMAIN inbox : j < i
              /\ \/ ReplayStep(link) /\ inbox'[i] = Data(todo[link][1])
                 \/ \E f, g \in Frames : SendStep(link, f, g) /\ inbox'[i] = Data(g)
<1>1. CASE UNCHANGED inbox
    BY <1>1
<1>2. ASSUME NEW c \in Conns, NEW m, Pushed(c, m), ~(i \in DOMAIN inbox /\ inbox'[i] = inbox[i])
      PROVE  c = link /\ link \in open /\ inbox'[i] = m /\ \A j \in DOMAIN inbox : j < i
    BY <1>2 DEF Pushed, Grows
<1>3. ASSUME NEW c \in Conns, GreetStep(c) \/ RefuseStep(c) \/ AnswerStep(c)
      PROVE  i \in DOMAIN inbox /\ inbox'[i] = inbox[i]
    <2>1. \/ Pushed(c, Schema(c)) \/ Pushed(c, Resumed(FALSE)) \/ Pushed(c, Resumed(TRUE))
        BY <1>3 DEF GreetStep, RefuseStep, AnswerStep, TalkStep
    <2>2. QED BY ZenonT(40), <1>2, <2>1, Kinds
<1>4. ASSUME NEW c \in Conns, ReplayStep(c), ~(i \in DOMAIN inbox /\ inbox'[i] = inbox[i])
      PROVE  /\ link \in Conns /\ link \in open /\ \A j \in DOMAIN inbox : j < i
             /\ ReplayStep(link) /\ inbox'[i] = Data(todo[link][1])
    <2>1. Pushed(c, Data(todo[c][1]))
        BY <1>4 DEF ReplayStep, TalkStep
    <2>2. QED BY <1>2, <1>4, <2>1
<1>5. ASSUME NEW c \in Conns, NEW f \in Frames, NEW g \in Frames, SendStep(c, f, g),
             ~(i \in DOMAIN inbox /\ inbox'[i] = inbox[i])
      PROVE  /\ link \in Conns /\ link \in open /\ \A j \in DOMAIN inbox : j < i
             /\ SendStep(link, f, g) /\ inbox'[i] = Data(g)
    <2>1. Pushed(c, Data(g))
        BY <1>5 DEF SendStep
    <2>2. QED BY <1>2, <1>5, <2>1
<1>6. QED BY <1>1, <1>3, <1>4, <1>5 DEF QuietStep, ServerStep, ResumeStep

LEMMA CountedStep ==
    ASSUME IInv, [Next]_vars, OrderInv, ReplayInv
    PROVE  CountedInv'
<1>1. SUFFICES ASSUME Plain', Counting', Counted' # None, NEW f \in Retained', f.sequence <= last'
               PROVE  Got(f)'
    BY DEF CountedInv
<1>2. /\ Plain /\ "earlySend" \notin odd
      /\ LinkInv /\ AnswerInv /\ GivenInv /\ CountingInv
      /\ ClosedInv /\ PlainInv /\ CountedInv /\ NoGapInv
    BY <1>1, PlainBefore DEF OrderInv, ReplayInv
<1>3. ASSUME Counting, Counted # None, f \in Retained, f.sequence <= last
      PROVE  Got(f)
    BY <1>2, <1>3 DEF CountedInv
<1>4. CASE QuietStep \/ ServerStep
    <2>1. UNCHANGED <<last, delivered>> /\ Counted' = Counted /\ Counting
        BY <1>1, <1>4, CountsStay, CountedStays
    <2>2. Counted \in Conns /\ last <= session[Counted].sequence
        BY <1>1, <1>2, <2>1, CountedType DEF PlainInv
    <2>3. f \in Retained
        <3>1. f \in ToSet(session'[Counted].frames)
            BY <2>1 DEF Retained
        <3>2. CASE f.sequence = session[Counted].sequence + 1
            <4>1. last \in Nat /\ session[Counted].sequence \in Nat
                BY <2>2, SequencesGrow DEF IInv, TypeInv, ClientTypes
            <4>2. QED BY <1>1, <2>1, <2>2, <3>2, <4>1
        <3>3. QED BY <1>4, <2>2, <3>1, <3>2, FramesAdded DEF Retained
    <2>4. Got(f)
        BY <1>1, <1>3, <2>1, <2>3
    <2>5. QED BY <2>1, <2>4 DEF Got
<1>5. ASSUME NEW c \in Conns, AcceptStep(c)
      PROVE  Got(f)'
    <2>1. /\ UNCHANGED <<last, delivered>> /\ SameFrames /\ phase' = "handshake"
          /\ phase \in {"dialing", "backoff"}
          /\ IF phase = "backoff" THEN ~closed' ELSE UNCHANGED closed
        BY <1>5 DEF AcceptStep
    <2>2. Counting
        BY <1>1, <2>1 DEF Counting
    <2>3. Counted' = Counted /\ Counted # None
        BY <1>1, <1>2, <1>5, AcceptCounted DEF Retained
    <2>4. f \in Retained
        BY <2>1, <2>3, CountedType DEF Retained, SameFrames
    <2>5. QED BY <1>1, <1>3, <2>1, <2>2, <2>3, <2>4 DEF Got
<1>6. CASE EndStep
    <2>1. /\ UNCHANGED <<last, delivered, session>> /\ phase \in {"handshake", "reading"}
          /\ phase' = "backoff" => ~intentionalClose /\ UNCHANGED closed
          /\ phase' \in {"backoff", "ended"} /\ (phase' = "ended" => closed')
        BY <1>6 DEF EndStep
    <2>2. Counting
        BY <1>1, <1>2, <2>1 DEF Counting, ClosedInv
    <2>3. Counted' = Counted /\ Counted # None
        BY <1>1, <1>2, <1>6, EndCounted
    <2>4. QED BY <1>1, <1>3, <2>1, <2>2, <2>3 DEF Got, Retained
<1>7. CASE SchemaStep
    <2>1. UNCHANGED <<last, delivered, session, closed>> /\ phase' = "reading"
        BY <1>7 DEF SchemaStep
    <2>2. Counting /\ Counted' = Counted
        BY <1>1, <1>2, <1>7, <2>1, SchemaCounted DEF Counting
    <2>3. QED BY <1>1, <1>3, <2>1, <2>2 DEF Got, Retained
<1>8. CASE ResumedStep
    <2>1. UNCHANGED <<delivered, session, closed, phase>>
        BY <1>8 DEF ResumedStep
    <2>2. Counted' = Counted /\ last' = last
        <3>1. CASE Counted' = link /\ session[link].sequence = 0 /\ link # None
            <4>1. ToSet(session[link].frames) = {}
                BY <3>1, NothingRetained, LinkKnown DEF LinkIs
            <4>2. QED BY <1>1, <2>1, <3>1, <4>1 DEF Retained
        <3>2. QED BY <1>2, <1>8, <3>1, ResumedCounted
    <2>3. QED BY <1>1, <1>3, <2>1, <2>2 DEF Got, Retained, Counting
<1>9. ASSUME NEW h \in Frames, FrameStep(h)
      PROVE  Got(f)'
    <2>1. /\ UNCHANGED <<session, closed, phase>> /\ phase = "reading"
          /\ last' = IF h.sequence > last THEN h.sequence ELSE last
          /\ 1 \in DOMAIN inbox /\ inbox[1] = Data(h)
        BY <1>9 DEF FrameStep, Shrinks
    <2>2. /\ h.session = Counted /\ Counted \in Conns /\ Counted' = Counted /\ link # None
          /\ h.sequence \in Nat /\ last \in Nat
        BY <1>2, <1>9, FrameUnasked
    <2>3. ~closed /\ Counting /\ f \in Retained
        BY <1>1, <2>1, <2>2 DEF Counting, Retained
    <2>4. f.sequence \in Nat /\ (f.sequence = h.sequence => h = f)
        <3>1. session[Counted].sequence \in Nat
            BY <1>2, <2>2, SequencesGrow
        <3>2. QED BY <2>2, <2>3, <3>1, RetainedIs DEF Retained
    <2>5. CASE f.sequence <= last
        <3>1. PICK i \in DOMAIN delivered : delivered[i] = f
            BY <1>1, <1>3, <2>2, <2>3, <2>5 DEF Got
        <3>2. i \in DOMAIN delivered' /\ delivered'[i] = f
            BY <1>9, <3>1 DEF FrameStep
        <3>3. QED BY <3>2 DEF Got
    <2>6. CASE last < f.sequence
        <3>1. f.sequence <= h.sequence
            BY <1>1, <2>1, <2>2, <2>4, <2>6
        <3>2. ~(f.sequence < h.sequence)
            <4>1. SUFFICES ASSUME f.sequence < h.sequence PROVE FALSE
                OBVIOUS
            <4>2. Framed(inbox[1]) /\ inbox[1].frame = h
                BY <2>1, Kinds
            <4>3. \E j \in DOMAIN inbox : j < 1
                BY <1>2, <2>1, <2>2, <2>3, <2>6, <4>1, <4>2 DEF NoGapInv
            <4>4. QED BY <1>9, <4>3 DEF FrameStep, Shrinks
        <3>3. h = f /\ h.sequence > last
            BY <2>2, <2>4, <2>6, <3>1, <3>2
        <3>4. \E i \in DOMAIN delivered' : delivered'[i] = h
            BY <1>9, <2>3, <3>3 DEF FrameStep
        <3>5. QED BY <3>3, <3>4 DEF Got
    <2>7. QED BY <2>2, <2>4, <2>5, <2>6
<1>10. QED BY Steps, <1>4, <1>5, <1>6, <1>7, <1>8, <1>9 DEF ClientStep

\* A frame the client takes moves those behind it up by one.
LEMMA Moves ==
    ASSUME Shrinks, NEW j \in DOMAIN inbox, j # 1
    PROVE  /\ j - 1 \in DOMAIN inbox' /\ inbox'[j - 1] = inbox[j]
           /\ j \in Nat /\ j > 1
BY DEF Shrinks

LEMMA NoGapStep ==
    ASSUME IInv, [Next]_vars, OrderInv, ReplayInv
    PROVE  NoGapInv'
<1>1. SUFFICES ASSUME Plain', link' # None, NEW i \in DOMAIN inbox', Framed(inbox'[i]),
                      NEW f \in Retained', last' < f.sequence, f.sequence < inbox'[i].frame.sequence
               PROVE  \E j \in DOMAIN inbox' : j < i /\ inbox'[j] = Data(f)
    BY DEF NoGapInv
<1>2. /\ Plain /\ "earlySend" \notin odd /\ "earlySend" \notin odd'
      /\ LinkInv /\ AnswerInv /\ TodoInv /\ GivenInv /\ CountingInv
      /\ PlainInv /\ NoGapInv /\ UnderWayInv
    BY <1>1, PlainBefore DEF OrderInv, ReplayInv
<1>3. ASSUME NEW k \in DOMAIN inbox, Framed(inbox[k])
      PROVE  /\ inbox[k].frame.session = Counted /\ link # None /\ Counted \in Conns
             /\ inbox[k].frame.sequence \in Nat
             /\ inbox[k].frame.sequence <= session[Counted].sequence
    <2>1. inbox[k] \in Messages /\ inbox[k].frame \in Frames
        BY <1>3, FramedIs DEF IInv, TypeInv, ClientTypes
    <2>2. inbox[k].frame.session = Counted /\ inbox[k].frame.sequence <= session[Counted].sequence
        BY <1>2, <1>3 DEF CountingInv, GivenInv, Given
    <2>3. link # None
        BY DEF IInv, ClientInv
    <2>4. QED BY <2>1, <2>2, <2>3 DEF Frames
<1>4. CASE QuietStep \/ ServerStep
    <2>1. UNCHANGED <<last, link>> /\ Counted' = Counted /\ link # None
        BY <1>1, <1>4, CountsStay, CountedStays
    <2>2. Counted # None /\ Counted \in Conns
        BY <2>1, CountedType DEF Counted
    <2>3. f \in ToSet(session'[Counted].frames)
        BY <2>1 DEF Retained
    <2>4. CASE f \notin Retained
        <3>1. /\ f.sequence = session[Counted].sequence + 1 /\ f.session = Counted
              /\ \E c \in Conns : SendStep(c, f, f)
            BY <1>4, <2>2, <2>3, <2>4, FramesAdded DEF Retained
        <3>2. PICK c \in Conns : SendStep(c, f, f)
            BY <3>1
        <3>3. /\ session[Counted].sequence \in Nat
              /\ f.sequence \in Nat
            BY <2>2, <3>1, SequencesGrow
        <3>4. CASE i \in DOMAIN inbox /\ inbox'[i] = inbox[i]
            BY <1>1, <1>3, <3>1, <3>3, <3>4
        <3>5. CASE inbox'[i] = Data(f)
            <4>1. inbox'[i].frame = f
                BY <3>5, Kinds
            <4>2. QED BY <1>1, <3>3, <4>1
        <3>6. QED BY <3>2, <3>4, <3>5, PushedFrames DEF SendStep
    <2>5. CASE f \in Retained
        <3>1. /\ f \in Frames /\ f.session = Counted /\ f.sequence \in 1 .. session[Counted].sequence
              /\ session[Counted].sequence \in Nat
            BY <2>2, <2>5, RetainedIs, SequencesGrow DEF Retained
        <3>2. ASSUME NEW j \in DOMAIN inbox, j < i, inbox[j] = Data(f)
              PROVE  \E k \in DOMAIN inbox' : k < i /\ inbox'[k] = Data(f)
            BY <1>4, <3>2, InboxKept
        <3>3. CASE i \in DOMAIN inbox /\ inbox'[i] = inbox[i]
            BY <1>1, <1>2, <2>1, <2>5, <3>2, <3>3 DEF NoGapInv
        <3>4. ASSUME link \in open, sessionOf[link] = Counted, \A j \in DOMAIN inbox : j < i,
                     ~Queued(link, f)
              PROVE  \E k \in DOMAIN inbox' : k < i /\ inbox'[k] = Data(f)
            BY <1>1, <1>2, <2>1, <2>5, <3>2, <3>4 DEF UnderWayInv, Coming
        <3>5. CASE /\ link \in Conns /\ link \in open /\ \A j \in DOMAIN inbox : j < i
                   /\ ReplayStep(link) /\ inbox'[i] = Data(todo[link][1])
            <4>1. stage[link] = "replaying" /\ 1 \in DOMAIN todo[link]
                BY <3>5 DEF ReplayStep
            <4>2. sessionOf[link] = Counted
                BY <1>2, <2>1, <4>1 DEF LinkInv
            <4>3. f.sequence < todo[link][1].sequence
                BY <1>1, <3>5, Kinds
            <4>4. ~Queued(link, f)
                <5>1. SUFFICES ASSUME NEW k \in DOMAIN todo[link], todo[link][k] = f PROVE FALSE
                    BY DEF Queued
                <5>2. todo \in [Conns -> Seq(Frames)]
                    BY DEF IInv, TypeInv, ServerTypes
                <5>3. k \in Nat /\ k >= 1
                    BY <3>5, <5>2
                <5>4. k # 1
                    BY <3>1, <4>3, <5>1
                <5>5. todo[link][1].sequence < todo[link][k].sequence
                    BY <1>2, <3>5, <4>1, <5>3, <5>4 DEF TodoInv, Replaying
                <5>6. todo[link][1].sequence \in Nat
                    BY <4>1, <3>5 DEF ReplayStep, Frames
                <5>7. QED BY <3>1, <4>3, <5>1, <5>5, <5>6
            <4>5. QED BY <3>4, <3>5, <4>2, <4>4
        <3>6. ASSUME NEW e \in Frames, NEW g \in Frames, SendStep(link, e, g), inbox'[i] = Data(g),
                     link \in Conns, link \in open, \A j \in DOMAIN inbox : j < i
              PROVE  \E k \in DOMAIN inbox' : k < i /\ inbox'[k] = Data(f)
            <4>1. ~Undecided(link) /\ todo[link] = <<>>
                BY <1>1, <1>2, <3>6 DEF SendStep, Plain
            <4>2. sessionOf[link] = Counted
                BY <1>2, <2>1, <4>1, DecidedIsCounted
            <4>3. ~Queued(link, f)
                <5>1. DOMAIN todo[link] = {}
                    BY <4>1
                <5>2. QED BY <5>1 DEF Queued
            <4>4. QED BY <3>4, <3>6, <4>2, <4>3
        <3>7. QED BY <1>1, <1>4, <3>3, <3>5, <3>6, FramePushed
    <2>6. QED BY <2>4, <2>5
<1>5. ASSUME NEW c \in Conns, AcceptStep(c)
      PROVE  FALSE
    BY <1>1, <1>5 DEF AcceptStep
<1>6. CASE EndStep
    BY <1>1, <1>6 DEF EndStep
<1>7. ASSUME Shrinks, UNCHANGED <<session, link>>, Counted' = Counted, last <= last',
             inbox[1] = Data(f) => f.sequence <= last'
      PROVE  \E j \in DOMAIN inbox' : j < i /\ inbox'[j] = Data(f)
    <2>1. i + 1 \in DOMAIN inbox /\ inbox'[i] = inbox[i + 1] /\ i \in Nat
        BY <1>7, TakenFrames
    <2>2. Counted \in Conns /\ link # None
        BY <1>1, <1>3, <2>1
    <2>3. f \in Retained /\ f.sequence \in Nat
        <3>1. f \in Retained
            BY <1>7 DEF Retained
        <3>2. session[Counted].sequence \in Nat
            BY <2>2, SequencesGrow
        <3>3. QED BY <2>2, <3>1, <3>2, RetainedIs DEF Retained
    <2>4. last \in Nat /\ last' \in Nat
        BY StepInv DEF IInv, TypeInv, ClientTypes
    <2>5. last < f.sequence
        BY <1>1, <1>7, <2>3, <2>4
    <2>6. PICK j \in DOMAIN inbox : j < i + 1 /\ inbox[j] = Data(f)
        BY <1>1, <1>2, <2>1, <2>2, <2>3, <2>5 DEF NoGapInv
    <2>7. j # 1
        BY <1>1, <1>7, <2>3, <2>4, <2>6
    <2>8. QED BY <1>7, <2>1, <2>6, <2>7, Moves
<1>8. CASE SchemaStep
    <2>1. Shrinks /\ UNCHANGED <<session, link, last>> /\ ~Framed(inbox[1])
        BY <1>8 DEF SchemaStep
    <2>2. last <= last'
        BY <2>1 DEF IInv, TypeInv, ClientTypes
    <2>3. QED BY <1>2, <1>7, <1>8, <2>1, <2>2, SchemaCounted, Kinds
<1>9. CASE ResumedStep
    <2>1. Shrinks /\ UNCHANGED <<session, link>> /\ inbox[1].type = "resumed"
        BY <1>9 DEF ResumedStep
    <2>2. Counted' = Counted /\ last' = last
        <3>1. ~NoFrames
            BY <1>1, <2>1, TakenFrames DEF NoFrames
        <3>2. QED BY <1>2, <1>9, <3>1, ResumedCounted
    <2>3. last <= last'
        BY <2>2 DEF IInv, TypeInv, ClientTypes
    <2>4. QED BY <1>7, <2>1, <2>2, <2>3, Kinds
<1>10. ASSUME NEW h \in Frames, FrameStep(h)
       PROVE  \E j \in DOMAIN inbox' : j < i /\ inbox'[j] = Data(f)
    <2>1. /\ Shrinks /\ UNCHANGED <<session, link>> /\ inbox[1] = Data(h)
          /\ last' = IF h.sequence > last THEN h.sequence ELSE last
        BY <1>10 DEF FrameStep
    <2>2. Counted' = Counted /\ h.sequence \in Nat /\ last \in Nat
        BY <1>2, <1>10, FrameUnasked
    <2>3. last <= last' /\ h.sequence <= last'
        BY <2>1, <2>2
    <2>4. inbox[1] = Data(f) => f = h
        <3>1. Data(f).frame = f /\ Data(h).frame = h
            BY Kinds
        <3>2. QED BY <2>1, <3>1
    <2>5. QED BY <1>7, <2>1, <2>2, <2>3, <2>4
<1>11. QED BY Steps, <1>4, <1>5, <1>6, <1>8, <1>9, <1>10 DEF ClientStep

LEMMA UnderWayStep ==
    ASSUME IInv, [Next]_vars, OrderInv, ReplayInv
    PROVE  UnderWayInv'
<1>1. SUFFICES ASSUME Plain', link' \in open', sessionOf'[link'] = Counted',
                      NEW f \in Retained', last' < f.sequence
               PROVE  Coming(f)' \/ Queued(link, f)'
    BY DEF UnderWayInv
<1>2. /\ Plain /\ "earlySend" \notin odd
      /\ LinkInv /\ AnswerInv /\ TodoInv /\ GivenInv /\ CountingInv
      /\ PlainInv /\ UnderWayInv
    BY <1>1, PlainBefore DEF OrderInv, ReplayInv
<1>3. IInv'
    BY StepInv
<1>4. link' \in Conns /\ link' # None /\ link' \in Accepted' /\ Counted' # None
    BY <1>1, <1>3 DEF IInv, TypeInv, ServerTypes, ClientInv, Accepted, Counted
<1>5. ASSUME link \in open, sessionOf[link] = Counted, f \in Retained, last < f.sequence
      PROVE  Coming(f) \/ Queued(link, f)
    BY <1>2, <1>5 DEF UnderWayInv
<1>6. CASE QuietStep \/ ServerStep
    <2>1. UNCHANGED <<last, link>> /\ Counted' = Counted /\ link \in Accepted /\ link \in Conns
        BY <1>4, <1>6, CountsStay, CountedStays, LinkKnown DEF LinkIs
    <2>2. Counted \in Conns
        BY <1>4, <2>1, CountedType
    <2>3. link \in open
        BY ZenonT(40), <1>1, <1>6, <2>1
        DEF QuietStep, ServerStep, GreetStep, RefuseStep, ReplayStep, AnswerStep, SendStep,
            ResumeStep, TalkStep
    <2>4. CASE f \notin Retained
        <3>1. f \in ToSet(session'[Counted].frames)
            BY <2>1 DEF Retained
        <3>2. f.session = Counted /\ \E c \in Conns : SendStep(c, f, f)
            BY <1>6, <2>2, <2>4, <3>1, FramesAdded DEF Retained
        <3>3. PICK c \in Conns : SendStep(c, f, f)
            BY <3>2
        <3>4. c \in Accepted /\ sessionOf[c] = Counted /\ sessionOf[link] = Counted
            BY <1>1, <2>1, <3>2, <3>3 DEF SendStep
        <3>5. ~Superseded(c)
            BY <1>1, <3>3 DEF SendStep, Plain
        <3>6. c = link
            <4>1. c <= link
                BY <1>4, <2>1, <3>4, LinkKnown DEF LinkIs
            <4>2. ~(link > c)
                BY <2>1, <3>4, <3>5 DEF Superseded
            <4>3. QED BY <2>1, <4>1, <4>2
        <3>7. Grows(Data(f))
            BY <2>3, <3>3, <3>6 DEF SendStep, Pushed
        <3>8. \E j \in DOMAIN inbox' : inbox'[j] = Data(f)
            BY <3>7 DEF Grows
        <3>9. QED BY <3>8 DEF Coming
    <2>5. CASE f \in Retained
        <3>1. Coming(f) => Coming(f)'
            BY <1>6, InboxKept DEF Coming
        <3>2. CASE sessionOf'[link] = sessionOf[link] /\ todo'[link] = todo[link]
            <4>1. Coming(f) \/ Queued(link, f)
                BY <1>1, <1>5, <2>1, <2>3, <2>5, <3>2
            <4>2. Queued(link, f) => Queued(link, f)'
                BY <2>1, <3>2 DEF Queued
            <4>3. QED BY <3>1, <4>1, <4>2
        <3>3. CASE ReplayStep(link)
            <4>1. Coming(f) \/ Queued(link, f)
                BY <1>1, <1>5, <2>1, <2>3, <2>5, <3>3 DEF ReplayStep, TalkStep
            <4>2. ASSUME NEW k \in DOMAIN todo[link], todo[link][k] = f
                  PROVE  Coming(f)' \/ Queued(link, f)'
                <5>1. CASE k = 1
                    <6>1. Grows(Data(f))
                        BY <3>3, <4>2, <5>1 DEF ReplayStep, TalkStep, Pushed
                    <6>2. \E j \in DOMAIN inbox' : inbox'[j] = Data(f)
                        BY <6>1 DEF Grows
                    <6>3. QED BY <6>2 DEF Coming
                <5>2. CASE k # 1
                    <6>1. PICK n \in Nat :
                              /\ DOMAIN todo[link] = 1 .. n /\ DOMAIN todo'[link] = 1 .. n - 1
                              /\ \A i \in 1 .. n - 1 : todo'[link][i] = todo[link][i + 1]
                        BY <3>3 DEF ReplayStep
                    <6>2. k - 1 \in 1 .. n - 1 /\ todo'[link][k - 1] = todo[link][k]
                        BY <4>2, <5>2, <6>1
                    <6>3. \E j \in DOMAIN todo'[link] : todo'[link][j] = f
                        BY <4>2, <6>1, <6>2
                    <6>4. QED BY <2>1, <6>3 DEF Queued
                <5>3. QED BY <5>1, <5>2
            <4>3. QED BY <3>1, <4>1, <4>2 DEF Queued
        <3>4. CASE AnswerStep(link)
            <4>1. todo[link] = <<>> /\ sessionOf'[link] = sessionOf[link]
                BY <2>3, <3>4 DEF AnswerStep, TalkStep
            <4>2. DOMAIN todo[link] = {}
                BY <4>1
            <4>3. Coming(f)
                BY <1>1, <1>5, <2>1, <2>3, <2>5, <4>1, <4>2 DEF Queued
            <4>4. QED BY <3>1, <4>3
        <3>5. ASSUME NEW s \in Conns, ResumeStep(link, s)
              PROVE  Queued(link, f)'
            <4>1. /\ s = Counted /\ request[link] # <<>>
                  /\ \A e \in ToSet(session[s].frames) :
                        e.sequence > request[link][1].last => \E i \in DOMAIN todo'[link] : todo'[link][i] = e
                BY <1>1, <2>1, <3>5 DEF ResumeStep
            <4>2. request[link][1].last = last
                BY <1>2, <1>4, <2>1, <4>1 DEF PlainInv
            <4>3. last \in Nat /\ f.sequence \in Nat
                <5>1. last \in Nat /\ session[Counted].sequence \in Nat
                    BY <2>2, SequencesGrow DEF IInv, TypeInv, ClientTypes
                <5>2. QED BY <2>2, <2>5, <5>1, RetainedIs DEF Retained
            <4>4. f.sequence > request[link][1].last
                BY <1>1, <2>1, <4>2, <4>3
            <4>5. \E i \in DOMAIN todo'[link] : todo'[link][i] = f
                BY <2>5, <4>1, <4>4 DEF Retained
            <4>6. QED BY <2>1, <4>5 DEF Queued
        <3>6. CASE QuietStep
            BY <3>2, <3>6 DEF QuietStep
        <3>7. ASSUME NEW c \in Conns, c # link,
                     GreetStep(c) \/ RefuseStep(c) \/ ReplayStep(c) \/ AnswerStep(c)
              PROVE  sessionOf'[link] = sessionOf[link] /\ todo'[link] = todo[link]
            BY <2>1, <3>7 DEF GreetStep, RefuseStep, ReplayStep, AnswerStep, TalkStep
        <3>8. ASSUME NEW c \in Conns, GreetStep(c) \/ RefuseStep(c) \/ \E e, g \in Frames : SendStep(c, e, g)
              PROVE  sessionOf'[link] = sessionOf[link] /\ todo'[link] = todo[link]
            BY <2>1, <3>8 DEF GreetStep, RefuseStep, SendStep, TalkStep
        <3>9. ASSUME NEW c \in Conns, c # link, NEW s \in Conns, ResumeStep(c, s)
              PROVE  sessionOf'[link] = sessionOf[link] /\ todo'[link] = todo[link]
            BY <2>1, <3>9 DEF ResumeStep
        <3>10. QED BY <1>6, <3>2, <3>3, <3>4, <3>5, <3>6, <3>7, <3>8, <3>9 DEF ServerStep
    <2>6. QED BY <2>4, <2>5
<1>7. ASSUME NEW c \in Conns, AcceptStep(c)
      PROVE  FALSE
    <2>1. link' = c /\ sessionOf'[c] = c
        BY <1>7 DEF AcceptStep
    <2>2. Counted' # c \/ ToSet(session'[c].frames) = {}
        BY <1>2, <1>7, AcceptCounted
    <2>3. QED BY <1>1, <2>1, <2>2 DEF Retained
<1>8. CASE EndStep
    BY <1>4, <1>8 DEF EndStep
<1>9. ASSUME Shrinks, UNCHANGED <<session, link, open, todo, sessionOf>>, Counted' = Counted,
             last <= last', inbox[1] = Data(f) => f.sequence <= last'
      PROVE  Coming(f)' \/ Queued(link, f)'
    <2>1. Counted \in Conns
        BY <1>4, <1>9, CountedType
    <2>2. f \in Retained /\ f.sequence \in Nat
        <3>1. f \in Retained
            BY <1>9 DEF Retained
        <3>2. session[Counted].sequence \in Nat
            BY <2>1, SequencesGrow
        <3>3. QED BY <2>1, <3>1, <3>2, RetainedIs DEF Retained
    <2>3. last \in Nat /\ last' \in Nat
        BY <1>3 DEF IInv, TypeInv, ClientTypes
    <2>4. last < f.sequence /\ inbox[1] # Data(f)
        BY <1>1, <1>9, <2>2, <2>3
    <2>5. Coming(f) \/ Queued(link, f)
        BY <1>1, <1>5, <1>9, <2>2, <2>4
    <2>6. ASSUME NEW j \in DOMAIN inbox, inbox[j] = Data(f)
          PROVE  Coming(f)'
        <3>1. j - 1 \in DOMAIN inbox' /\ inbox'[j - 1] = Data(f)
            BY <1>9, <2>4, <2>6, Moves
        <3>2. QED BY <3>1 DEF Coming
    <2>7. Queued(link, f) => Queued(link, f)'
        BY <1>9 DEF Queued
    <2>8. QED BY <2>5, <2>6, <2>7 DEF Coming
<1>10. CASE SchemaStep
    <2>1. Shrinks /\ UNCHANGED <<session, link, open, todo, sessionOf, last>> /\ ~Framed(inbox[1])
        BY <1>10 DEF SchemaStep
    <2>2. last <= last'
        BY <2>1 DEF IInv, TypeInv, ClientTypes
    <2>3. QED BY <1>2, <1>9, <1>10, <2>1, <2>2, SchemaCounted, Kinds
<1>11. CASE ResumedStep
    <2>1. Shrinks /\ UNCHANGED <<session, link, open, todo, sessionOf>> /\ inbox[1].type = "resumed"
        BY <1>11 DEF ResumedStep
    <2>2. Counted' = Counted /\ last' = last
        <3>1. CASE Counted' = link /\ session[link].sequence = 0 /\ link # None
            <4>1. ToSet(session[link].frames) = {}
                BY <3>1, NothingRetained, LinkKnown DEF LinkIs
            <4>2. QED BY <1>1, <2>1, <3>1, <4>1 DEF Retained
        <3>2. QED BY <1>2, <1>11, <3>1, ResumedCounted
    <2>3. last <= last'
        BY <2>2 DEF IInv, TypeInv, ClientTypes
    <2>4. QED BY <1>9, <2>1, <2>2, <2>3, Kinds
<1>12. ASSUME NEW h \in Frames, FrameStep(h)
       PROVE  Coming(f)' \/ Queued(link, f)'
    <2>1. /\ Shrinks /\ UNCHANGED <<session, link, open, todo, sessionOf>> /\ inbox[1] = Data(h)
          /\ last' = IF h.sequence > last THEN h.sequence ELSE last
        BY <1>12 DEF FrameStep
    <2>2. Counted' = Counted /\ h.sequence \in Nat /\ last \in Nat
        BY <1>2, <1>12, FrameUnasked
    <2>3. last <= last' /\ h.sequence <= last'
        BY <2>1, <2>2
    <2>4. inbox[1] = Data(f) => f = h
        <3>1. Data(f).frame = f /\ Data(h).frame = h
            BY Kinds
        <3>2. QED BY <2>1, <3>1
    <2>5. QED BY <1>9, <2>1, <2>2, <2>3, <2>4
<1>13. QED BY Steps, <1>6, <1>7, <1>8, <1>10, <1>11, <1>12 DEF ClientStep

LEMMA ReplayStay ==
    ASSUME IInv, [Next]_vars, OrderInv, ReplayInv
    PROVE  ReplayInv'
BY ClosedStep, PlainStep, CountedStep, NoGapStep, UnderWayStep DEF ReplayInv

LEMMA ReplayInit ==
    ASSUME Init
    PROVE  ReplayInv
<1>1. /\ link = None /\ phase = "dialing" /\ open = {} /\ sessionId = None /\ pendingResume = None
      /\ last = 0 /\ closed = FALSE
    BY DEF Init
<1>2. Counted = None
    BY <1>1 DEF Counted
<1>3. QED BY <1>1, <1>2 DEF ReplayInv, ClosedInv, PlainInv, CountedInv, NoGapInv, UnderWayInv

LEMMA ReplayInvariance == Spec => []ReplayInv
<1>1. Init => ReplayInv
    BY ReplayInit
<1>2. IInv /\ OrderInv /\ ReplayInv /\ [Next]_vars => ReplayInv'
    BY ReplayStay
<1>3. QED BY <1>1, <1>2, Invariance, OrderInvariance, PTL DEF Spec

\* Once its resume is answered, a client has, or will get, every frame that the
\* buffer of its session retains: what resume_session takes from the buffer, the
\* counter it is asked with, and what is sent meanwhile leave no gap.
THEOREM NothingMissed == Spec => []ReplayComplete
<1>1. ASSUME IInv, OrderInv, ReplayInv
      PROVE  ReplayComplete
    <2> SUFFICES ASSUME odd \ {"staleOwner"} = {}, Settled PROVE Missed = {}
        BY DEF ReplayComplete
    <2>1. Plain
        BY DEF Plain
    <2>2. /\ phase = "reading" /\ pendingResume = None /\ ~closed
          /\ link # None /\ link \in Conns
        BY <1>1, Linked DEF Settled
    <2>3. LinkInv /\ TodoInv /\ CountedInv /\ UnderWayInv
        BY <1>1 DEF OrderInv, ReplayInv
    <2>4. Counted = sessionId /\ Counted \in Conns /\ Counted # None
        BY <1>1, <2>2, <2>3, ReadingCounted DEF Counted
    <2>5. sessionOf[link] = Counted
        BY <1>1, <2>2, <2>3, DecidedIsCounted DEF Undecided
    <2>6. todo[link] = <<>> /\ DOMAIN todo[link] = {}
        BY <2>2, <2>3 DEF LinkInv, TodoInv, Replaying
    <2>7. ASSUME NEW f \in ToSet(session[sessionId].frames), f \notin ToSet(delivered),
                 f.sequence <= last \/ (link \in open /\ Data(f) \notin ToSet(inbox))
          PROVE  FALSE
        <3>1. f \in Retained
            BY <2>4, <2>7 DEF Retained
        <3>2. ~Got(f)
            BY <2>7 DEF Got, ToSet
        <3>3. ~(f.sequence <= last)
            BY <2>1, <2>2, <2>3, <2>4, <3>1, <3>2 DEF CountedInv, Counting
        <3>4. last < f.sequence
            <4>1. last \in Nat /\ session[Counted].sequence \in Nat
                <5>1. last \in Nat
                    BY <1>1 DEF IInv, TypeInv, ClientTypes
                <5>2. \A s \in Conns : session[s] \in Sessions
                    BY <1>1 DEF IInv, TypeInv, ServerTypes
                <5>3. \A s \in Conns : session[s].sequence \in Nat
                    BY <5>2 DEF Sessions
                <5>4. QED BY <2>4, <5>1, <5>3
            <4>2. f.sequence \in 1 .. session[Counted].sequence
                BY <1>1, <2>4, <3>1, RetainedIs DEF Retained
            <4>3. QED BY <3>3, <4>1, <4>2
        <3>5. link \in open /\ ~Coming(f)
            BY <2>7, <3>3 DEF Coming, ToSet
        <3>6. QED BY <2>1, <2>3, <2>5, <2>6, <3>1, <3>4, <3>5 DEF UnderWayInv, Queued
    <2>8. QED BY <2>7 DEF Missed
<1>2. QED BY <1>1, Invariance, OrderInvariance, ReplayInvariance, PTL
===============================================================================
