------------------------ MODULE SessionRecoveryProofs ------------------------
(***************************************************************************)
(* What holds of connection-state recovery for any number of connections,  *)
(* frames and attempts, and for a buffer of any size: the types, that the  *)
(* lane is never locked with nobody to release it, what a reconnect may    *)
(* drop, that close() is final, that frames are delivered in order and     *)
(* once, and that a replay misses nothing the buffer retains.              *)
(***************************************************************************)
EXTENDS SessionRecovery, FiniteSetTheorems, SequenceTheorems, TLAPS

USE RecoveryAssumption DEF None, Conns

-----------------------------------------------------------------------------
(* The inductive invariant *)

Sessions == [alive : BOOLEAN, sequence : 0 .. MaxSends, frames : Seq(Frames)]
Requests == [session : Conns, last : 0 .. MaxSends]
Handlers == [frame : Frames, stage : {"decode", "listen"}]

ServerTypes ==
    /\ open \subseteq Conns
    /\ sessionOf \in [Conns -> Conns \cup {None}]
    /\ session \in [Conns -> Sessions]
    /\ \A s \in Conns : Len(session[s].frames) <= MaxPackets /\ session[s].sequence <= sent
    /\ resume \in [Conns -> Seq(Requests)]
    /\ \A c \in Conns : Len(resume[c]) <= 1
    /\ sent \in 0 .. MaxSends

ClientTypes ==
    /\ link \in Conns \cup {None}
    /\ phase \in Phases
    /\ attempt \in 0 .. Attempts
    /\ closed \in BOOLEAN
    /\ intentionalClose \in BOOLEAN
    /\ lateTimer \in BOOLEAN
    /\ {sessionId, pendingResumeSession} \subseteq Conns \cup {None}
    /\ lastReplaySequence \in 0 .. MaxSends
    /\ inbox \in Seq(Messages)

LaneTypes ==
    /\ listenLock \in BOOLEAN
    /\ packetQueue \in Seq(Frames)
    /\ running \in Seq(Handlers)
    /\ Len(running) <= 1
    /\ delivered \in Seq(Frames)
    /\ dropped \subseteq Frames
    /\ odd \subseteq Oddities

TypeInv == ServerTypes /\ ClientTypes /\ LaneTypes

\* The frames the client holds or has shown to the application.
Held == ToSet(delivered) \cup InLane

\* What a message of the inbox is.
IsData(i) == inbox[i].type = "frame"
IsResumed(i) == inbox[i].type = "resumed"

\* Connections are numbered as they are accepted, and the client is on the
\* newest one or on none.
NumberInv ==
    /\ \E n \in 0 .. MaxConns : Accepted = 1 .. n
    /\ \A c \in Conns \ Accepted : ~session[c].alive /\ resume[c] = <<>> /\ c \notin open
    /\ \A c \in Accepted : sessionOf[c] \in Accepted /\ sessionOf[c] <= c
    /\ \A c \in Conns : resume[c] # <<>> =>
          sessionOf[c] = c /\ resume[c][1].session \in Accepted /\ resume[c][1].session < c
    /\ link # None => link \in Accepted /\ \A c \in Accepted : c <= link
    /\ {sessionId, pendingResumeSession} \subseteq Accepted \cup {None}
    /\ \A f \in Held : f.session \in Accepted
    /\ \A i \in DOMAIN inbox : IsData(i) => inbox[i].frame.session \in Accepted

\* How far the handshake and the resumption of the client's transport are.
HandshakeInv ==
    /\ link = None => inbox = <<>> /\ phase # "ready"
    /\ link # None => phase \in {"connecting", "ready"}
    /\ sessionId = None =>
          /\ pendingResumeSession = None /\ lastReplaySequence = 0
          /\ phase \in {"connecting", "broken"}
          /\ delivered = <<>> /\ packetQueue = <<>> /\ running = <<>>
    /\ phase = "connecting" /\ link # None =>
          /\ inbox # <<>> /\ inbox[1] = Schema(link)
          /\ \A i \in DOMAIN inbox : i > 1 => IsData(i)
          /\ sessionOf[link] = link /\ resume[link] = <<>> /\ sessionId # link
    /\ phase = "ready" =>
          /\ \A i \in DOMAIN inbox : inbox[i].type # "schema"
          /\ pendingResumeSession # None => sessionId = link /\ pendingResumeSession # link
          /\ pendingResumeSession = None =>
                sessionOf[link] = sessionId /\ \A i \in DOMAIN inbox : IsData(i)
          /\ resume[link] # <<>> =>
                /\ pendingResumeSession # None
                /\ resume[link][1].session = pendingResumeSession
                /\ \A i \in DOMAIN inbox : IsData(i)
          /\ \A i \in DOMAIN inbox : IsResumed(i) =>
                /\ sessionOf[link] = IF inbox[i].recovered THEN pendingResumeSession ELSE link
                /\ \A j \in DOMAIN inbox : IsResumed(j) => i = j

\* Frames f and g, f received first, are not of one session or in its order.
Before(f, g) ==
    f.session = g.session /\ f.sequence # 0 /\ g.sequence # 0 => f.sequence < g.sequence

LaneOrder ==
    /\ \A i, j \in DOMAIN delivered : i < j => Before(delivered[i], delivered[j])
    /\ \A i \in DOMAIN delivered, j \in DOMAIN packetQueue : Before(delivered[i], packetQueue[j])
    /\ \A i, j \in DOMAIN packetQueue : i < j => Before(packetQueue[i], packetQueue[j])
    /\ \A h \in DOMAIN running : running[h].stage = "decode" =>
          /\ \A i \in DOMAIN delivered : Before(delivered[i], running[h].frame)
          /\ \A j \in DOMAIN packetQueue : Before(running[h].frame, packetQueue[j])

\* The counter of the client and the session it counts.
CounterInv ==
    /\ \A f \in Held : f.session \in {sessionId, pendingResumeSession} =>
          f.sequence <= lastReplaySequence
    /\ link # None /\ (phase = "connecting" \/ pendingResumeSession # None) =>
          \A f \in Held : f.session # link
    /\ \A i \in DOMAIN inbox : IsData(i) => inbox[i].frame.session = sessionOf[link]
    /\ phase = "connecting" /\ link # None /\ sessionId # None => Len(inbox) = 1
    /\ phase = "ready" /\ pendingResumeSession # None =>
          \A i \in DOMAIN inbox : IsData(i) => sessionOf[link] = pendingResumeSession
    /\ phase = "ready" /\ resume[link] # <<>> =>
          inbox = <<>> /\ resume[link][1].last = lastReplaySequence

OrderInv == "earlySend" \notin odd => LaneOrder /\ CounterInv

\* A buffer holds the newest frames of its session, numbered without gaps.
BufferInv ==
    \A s \in Conns : session[s].alive =>
        /\ Len(session[s].frames) <= session[s].sequence
        /\ \A i \in DOMAIN session[s].frames :
              /\ session[s].frames[i].session = s
              /\ session[s].frames[i].sequence = session[s].sequence - Len(session[s].frames) + i

\* The lane and what has been dropped from it.
LaneInv ==
    /\ running # <<>> \/ packetQueue # <<>> => listenLock
    /\ \A h \in DOMAIN running : running[h].stage = "listen" => running[h].frame \in ToSet(delivered)
    /\ "busyLoss" \notin odd /\ phase # "ready" => running = <<>> /\ packetQueue = <<>>
    /\ odd \cap {"busyLoss", "listenerThrew"} = {} /\ listenLock => running # <<>>

CloseInv ==
    /\ closed /\ phase \in {"connecting", "ready"} => intentionalClose
    /\ intentionalClose /\ ~lateTimer => phase # "waiting"
    /\ "busyLoss" \notin odd /\ ~intentionalClose => dropped = {}

Calm == odd \cap {"earlySend", "earlyLoss", "staleSend"} = {}

\* The session whose frames the client counts, and its buffer.
Current ==
    IF pendingResumeSession # None THEN pendingResumeSession
    ELSE IF sessionId # None THEN sessionId ELSE link
Retained == ToSet(session[Current].frames)

OnWire(f) == \E k \in DOMAIN inbox : inbox[k] = Data(f)

\* What the client counted it received, and what it did not is on the wire, or
\* still to be replayed with all that follows it.
Complete ==
    Current # None /\ session[Current].alive =>
        /\ lastReplaySequence <= session[Current].sequence
        /\ \A f \in Retained : f.sequence <= lastReplaySequence => f \in Received
        /\ \A i \in DOMAIN inbox : IsData(i) => inbox[i].frame.sequence <= session[Current].sequence
        /\ \A i \in DOMAIN inbox, f \in Retained :
              IsData(i) /\ lastReplaySequence < f.sequence /\ f.sequence < inbox[i].frame.sequence
              => OnWire(f)
        /\ link \in open /\ sessionOf[link] = Current =>
              \A f \in Retained : lastReplaySequence < f.sequence => OnWire(f)

\* Who asks for a replay: only the client's transport, which has sent nothing of
\* its own while it asks.
Asking ==
    /\ \A c \in Conns : resume[c] # <<>> => c = link
    /\ pendingResumeSession # None => phase = "ready"
    /\ link # None /\ Undecided(link) => session[link].frames = <<>>

Ascending ==
    \A i, j \in DOMAIN inbox :
        IsData(i) /\ IsData(j) /\ i < j => Before(inbox[i].frame, inbox[j].frame)

ReplayInv == Calm => Asking /\ Ascending /\ Complete

IInv == /\ TypeInv /\ NumberInv /\ HandshakeInv /\ OrderInv /\ BufferInv
        /\ LaneInv /\ CloseInv /\ ReplayInv

-----------------------------------------------------------------------------
(* Messages, sequences and the buffer *)

LEMMA MessageKinds ==
    /\ \A m \in Messages :
          /\ m.type \in {"schema", "frame", "resumed"}
          /\ m.type = "schema" => m.session \in Conns
          /\ m.type = "frame" => m.frame \in Frames /\ m = Data(m.frame)
          /\ m.type = "resumed" => m.recovered \in BOOLEAN
    /\ \A s \in Conns : Schema(s) \in Messages /\ Schema(s).type = "schema" /\ Schema(s).session = s
    /\ \A f \in Frames : Data(f) \in Messages /\ Data(f).type = "frame" /\ Data(f).frame = f
    /\ \A ok \in BOOLEAN, n \in 0 .. MaxSends :
          /\ Resumed(ok, n) \in Messages /\ Resumed(ok, n).type = "resumed"
          /\ Resumed(ok, n).recovered = ok
<1>1. ASSUME NEW m \in Messages
      PROVE  /\ m.type \in {"schema", "frame", "resumed"}
             /\ m.type = "schema" => m.session \in Conns
             /\ m.type = "frame" => m.frame \in Frames /\ m = Data(m.frame)
             /\ m.type = "resumed" => m.recovered \in BOOLEAN
    <2>1. CASE m \in [type : {"schema"}, session : Conns]
        BY <2>1
    <2>2. CASE m \in [type : {"frame"}, frame : Frames]
        BY <2>2 DEF Data
    <2>3. CASE m \in [type : {"resumed"}, recovered : BOOLEAN, replayed : 0 .. MaxSends]
        BY <2>3
    <2>4. QED BY <2>1, <2>2, <2>3 DEF Messages
<1>2. QED BY <1>1 DEF Messages, Schema, Data, Resumed

LEMMA OneElement ==
    ASSUME NEW S, NEW x \in S
    PROVE  /\ <<x>> \in Seq(S) /\ Len(<<x>>) = 1 /\ <<x>>[1] = x /\ DOMAIN <<x>> = {1}
           /\ <<x>> # <<>>
OBVIOUS

LEMMA AtMostOne ==
    ASSUME NEW S, NEW q \in Seq(S), Len(q) <= 1, q # <<>>
    PROVE  Len(q) = 1 /\ DOMAIN q = {1} /\ q[1] \in S
<1>1. PICK n \in Nat : n = Len(q) /\ DOMAIN q = 1 .. n /\ \A i \in 1 .. n : q[i] \in S
    OBVIOUS
<1>2. n # 0
    BY <1>1, EmptySeq
<1>3. n = 1
    BY <1>1, <1>2
<1>4. QED BY <1>1, <1>3

LEMMA HandlerIs ==
    /\ \A f \in Frames : \E h \in Handlers :
          h = [frame |-> f, stage |-> "decode"] /\ h.frame = f /\ h.stage = "decode"
    /\ \A g \in Handlers : \E h \in Handlers :
          h = [g EXCEPT !.stage = "listen"] /\ h.frame = g.frame /\ h.stage = "listen"
<1>1. ASSUME NEW f \in Frames
      PROVE  \E h \in Handlers :
                h = [frame |-> f, stage |-> "decode"] /\ h.frame = f /\ h.stage = "decode"
    <2>1. [frame |-> f, stage |-> "decode"] \in Handlers
        BY DEF Handlers
    <2>2. QED BY <2>1
<1>2. ASSUME NEW g \in Handlers
      PROVE  \E h \in Handlers :
                h = [g EXCEPT !.stage = "listen"] /\ h.frame = g.frame /\ h.stage = "listen"
    <2>1. /\ [g EXCEPT !.stage = "listen"] \in Handlers
          /\ [g EXCEPT !.stage = "listen"].frame = g.frame
          /\ [g EXCEPT !.stage = "listen"].stage = "listen"
        BY DEF Handlers
    <2>2. QED BY <2>1
<1>3. QED BY <1>1, <1>2

LEMMA ToSetAppend ==
    ASSUME NEW S, NEW seq \in Seq(S), NEW e \in S
    PROVE  ToSet(Append(seq, e)) = ToSet(seq) \cup {e}
<1>1. /\ DOMAIN Append(seq, e) = 1 .. Len(seq) + 1
      /\ DOMAIN seq = 1 .. Len(seq)
      /\ Len(seq) \in Nat
      /\ \A i \in 1 .. Len(seq) : Append(seq, e)[i] = seq[i]
      /\ Append(seq, e)[Len(seq) + 1] = e
    OBVIOUS
<1>2. QED BY <1>1 DEF ToSet

LEMMA ToSetTail ==
    ASSUME NEW S, NEW seq \in Seq(S), seq # <<>>
    PROVE  ToSet(seq) = ToSet(Tail(seq)) \cup {Head(seq)}
<1>1. /\ DOMAIN seq = 1 .. Len(seq) /\ Len(seq) \in Nat \ {0}
      /\ DOMAIN Tail(seq) = 1 .. Len(seq) - 1
      /\ \A i \in 1 .. Len(seq) - 1 : Tail(seq)[i] = seq[i + 1]
      /\ Head(seq) = seq[1]
    BY EmptySeq
<1>2. \A i \in 1 .. Len(seq) : i = 1 \/ i - 1 \in 1 .. Len(seq) - 1
    BY <1>1
<1>3. ASSUME NEW x \in ToSet(seq) PROVE x \in ToSet(Tail(seq)) \cup {Head(seq)}
    <2>1. PICK i \in 1 .. Len(seq) : x = seq[i]
        BY <1>1 DEF ToSet
    <2>2. CASE i = 1
        BY <1>1, <2>1, <2>2
    <2>3. CASE i # 1
        <3>1. i - 1 \in 1 .. Len(seq) - 1 /\ Tail(seq)[i - 1] = seq[i]
            BY <1>1, <1>2, <2>3
        <3>2. QED BY <1>1, <2>1, <3>1 DEF ToSet
    <2>4. QED BY <2>2, <2>3
<1>4. ASSUME NEW x \in ToSet(Tail(seq)) \cup {Head(seq)} PROVE x \in ToSet(seq)
    <2>1. 1 \in DOMAIN seq /\ \A i \in 1 .. Len(seq) - 1 : i + 1 \in DOMAIN seq
        BY <1>1
    <2>2. QED BY <1>1, <1>4, <2>1 DEF ToSet
<1>5. QED BY <1>3, <1>4

LEMMA ToSetType ==
    ASSUME NEW S, NEW seq \in Seq(S)
    PROVE  ToSet(seq) \subseteq S
BY DEF ToSet

\* The first frame beyond a number exists, as a buffer has no gaps.
LEMMA FirstAfterIs ==
    ASSUME NEW frames \in Seq(Frames), NEW q \in Nat, Len(frames) <= q, NEW last \in Nat,
           \A i \in DOMAIN frames : frames[i].sequence = q - Len(frames) + i
    PROVE  /\ FirstAfter(frames, last) \in 1 .. Len(frames) + 1
           /\ \A j \in DOMAIN frames :
                 frames[j].sequence > last <=> j >= FirstAfter(frames, last)
<1> DEFINE n == Len(frames)
<1>1. n \in Nat /\ DOMAIN frames = 1 .. n
    OBVIOUS
<1>2. \E i \in 1 .. n + 1 : \A j \in DOMAIN frames : frames[j].sequence > last <=> j >= i
    <2>1. CASE last <= q - n
        <3>1. \A j \in DOMAIN frames : frames[j].sequence > last <=> j >= 1
            BY <1>1, <2>1
        <3>2. QED BY <1>1, <3>1
    <2>2. CASE last >= q
        <3>1. \A j \in DOMAIN frames : frames[j].sequence > last <=> j >= n + 1
            BY <1>1, <2>2
        <3>2. QED BY <1>1, <3>1
    <2>3. CASE q - n < last /\ last < q
        <3>1. /\ last - (q - n) + 1 \in 1 .. n + 1
              /\ \A j \in DOMAIN frames : frames[j].sequence > last <=> j >= last - (q - n) + 1
            BY <1>1, <2>3
        <3>2. QED BY <3>1
    <2>4. QED BY <1>1, <2>1, <2>2, <2>3
<1>3. QED BY <1>2 DEF FirstAfter

\* What is replayed: the frames of the buffer beyond a number, in order.
LEMMA MissingIs ==
    ASSUME NEW frames \in Seq(Frames), NEW q \in Nat, Len(frames) <= q, NEW last \in Nat,
           \A i \in DOMAIN frames : frames[i].sequence = q - Len(frames) + i
    PROVE  /\ Missing(frames, last) \in Seq(Frames)
           /\ Len(Missing(frames, last)) <= q
           /\ \A i \in DOMAIN Missing(frames, last) :
                 Missing(frames, last)[i] \in ToSet(frames)
           /\ \A i, j \in DOMAIN Missing(frames, last) : i < j =>
                 Missing(frames, last)[i].sequence < Missing(frames, last)[j].sequence
           /\ \A f \in ToSet(frames) : f.sequence > last => f \in ToSet(Missing(frames, last))
<1>1. PICK k \in 1 .. Len(frames) + 1 :
          /\ k = FirstAfter(frames, last)
          /\ \A j \in DOMAIN frames : frames[j].sequence > last <=> j >= k
    BY FirstAfterIs
<1>2. PICK n \in Nat : n = Len(frames)
    OBVIOUS
<1>3. PICK kept : kept = SubSeq(frames, k, n)
    OBVIOUS
<1>4. /\ kept \in Seq(Frames) /\ Len(kept) = n - k + 1
      /\ DOMAIN kept = 1 .. n - k + 1
      /\ \A i \in 1 .. n - k + 1 : kept[i] = frames[k + i - 1] /\ k + i - 1 \in 1 .. n
    <2>1. \A i \in k .. n : frames[i] \in Frames
        BY <1>2
    <2>2. /\ kept \in Seq(Frames) /\ Len(kept) = IF k <= n THEN n - k + 1 ELSE 0
          /\ \A i \in 1 .. n - k + 1 : kept[i] = frames[k + i - 1]
        BY <1>2, <1>3, <2>1, SubSeqProperties
    <2>3. QED BY <1>2, <2>2
<1>5. \A i \in 1 .. n - k + 1 : kept[i].sequence = q - n + (k + i - 1)
    <2>1. ASSUME NEW j \in 1 .. n PROVE frames[j].sequence = q - n + j
        <3>1. j \in DOMAIN frames
            BY <1>2
        <3>2. frames[j].sequence = q - Len(frames) + j
            BY <3>1
        <3>3. QED BY <1>2, <3>2
    <2>2. ASSUME NEW i \in 1 .. n - k + 1
          PROVE  kept[i].sequence = q - n + (k + i - 1)
        <3>1. k + i - 1 \in 1 .. n /\ kept[i] = frames[k + i - 1]
            BY <1>4
        <3>2. PICK j \in 1 .. n : j = k + i - 1
            BY <3>1
        <3>3. QED BY <2>1, <3>1, <3>2
    <2>3. QED BY <2>2
<1>6. \A f \in ToSet(frames) : f.sequence > last => f \in ToSet(kept)
    <2>1. SUFFICES ASSUME NEW j \in 1 .. n, frames[j].sequence > last
                   PROVE  frames[j] \in ToSet(kept)
        BY <1>2 DEF ToSet
    <2>2. j >= k /\ j - k + 1 \in 1 .. n - k + 1 /\ k + (j - k + 1) - 1 = j
        BY <1>1, <1>2, <2>1
    <2>3. QED BY <1>4, <2>2 DEF ToSet
<1>7. \A i \in DOMAIN kept : kept[i] \in ToSet(frames)
    BY <1>2, <1>4 DEF ToSet
<1>8. \A i, j \in DOMAIN kept : i < j => kept[i].sequence < kept[j].sequence
    BY <1>4, <1>5, SMTT(60)
<1>9. Missing(frames, last) = kept
    BY <1>1, <1>2, <1>3 DEF Missing
<1>10. Len(kept) <= q
    BY <1>2, <1>4
<1>11. QED BY <1>4, <1>6, <1>7, <1>8, <1>9, <1>10

\* The buffer that grew by a frame: the newest frames, the last one among them.
LEMMA KeepIs ==
    ASSUME NEW frames \in Seq(Frames), NEW f \in Frames, Len(frames) <= MaxPackets
    PROVE  \E d \in {0, 1} :
              /\ d <= Len(frames) + 1
              /\ Keep(Append(frames, f)) \in Seq(Frames)
              /\ Len(Keep(Append(frames, f))) = Len(frames) + 1 - d
              /\ Len(Keep(Append(frames, f))) <= MaxPackets
              /\ \A i \in 1 .. Len(frames) + 1 - d :
                    Keep(Append(frames, f))[i] =
                        IF i = Len(frames) + 1 - d THEN f ELSE frames[i + d]
<1>1. PICK all \in Seq(Frames) :
          /\ all = Append(frames, f) /\ Len(all) = Len(frames) + 1
          /\ \A i \in 1 .. Len(frames) + 1 : all[i] = IF i = Len(frames) + 1 THEN f ELSE frames[i]
    <2>1. PICK n \in Nat : n = Len(frames)
        OBVIOUS
    <2>2. /\ Append(frames, f) \in Seq(Frames) /\ Len(Append(frames, f)) = n + 1
          /\ \A i \in 1 .. n : Append(frames, f)[i] = frames[i]
          /\ Append(frames, f)[n + 1] = f
        BY <2>1, AppendProperties
    <2>3. \A i \in 1 .. n + 1 : Append(frames, f)[i] = IF i = n + 1 THEN f ELSE frames[i]
        BY <2>2
    <2>4. QED BY <2>1, <2>2, <2>3
<1>2. PICK n \in Nat : n = Len(frames)
    OBVIOUS
<1>3. PICK d \in {0, 1} : d = IF n + 1 > MaxPackets THEN n + 1 - MaxPackets ELSE 0
    BY <1>2
<1>4. PICK kept : kept = SubSeq(all, 1 + d, n + 1)
    OBVIOUS
<1>5. Keep(all) = kept
    <2>1. Len(all) = n + 1
        BY <1>1, <1>2
    <2>2. Len(all) - MaxPackets = n + 1 - MaxPackets
        BY <2>1
    <2>3. QED BY <1>3, <1>4, <2>1, <2>2 DEF Keep
<1>6. /\ kept \in Seq(Frames) /\ Len(kept) = n + 1 - d
      /\ \A i \in 1 .. n + 1 - d : kept[i] = all[i + d]
    <2>1. \A i \in 1 + d .. n + 1 : all[i] \in Frames
        BY <1>1, <1>2
    <2>2. /\ kept \in Seq(Frames)
          /\ Len(kept) = IF 1 + d <= n + 1 THEN n + 1 - (1 + d) + 1 ELSE 0
          /\ \A i \in 1 .. n + 1 - (1 + d) + 1 : kept[i] = all[1 + d + i - 1]
        BY <1>4, <2>1, SubSeqProperties
    <2>3. QED BY <2>2
<1>7. \A i \in 1 .. n + 1 - d : kept[i] = IF i = n + 1 - d THEN f ELSE frames[i + d]
    <2>1. ASSUME NEW i \in 1 .. n + 1 - d
          PROVE  kept[i] = IF i = n + 1 - d THEN f ELSE frames[i + d]
        <3>1. i + d \in 1 .. n + 1 /\ kept[i] = all[i + d]
            BY <1>6
        <3>2. all[i + d] = IF i + d = n + 1 THEN f ELSE frames[i + d]
            BY <1>1, <1>2, <3>1
        <3>3. QED BY <3>1, <3>2
    <2>2. QED BY <2>1
<1>8. d <= n + 1 /\ n + 1 - d <= MaxPackets
    BY <1>2, <1>3, RecoveryAssumption DEF RecoveryAssumption
<1>9. QED BY <1>1, <1>2, <1>5, <1>6, <1>7, <1>8

\* What a push leaves in the inbox.
LEMMA PushIs ==
    ASSUME inbox \in Seq(Messages), NEW msgs \in Seq(Messages), NEW c, Push(c, msgs)
    PROVE  /\ inbox' \in Seq(Messages)
           /\ ~(link = c /\ c \in open) => inbox' = inbox
           /\ link = c /\ c \in open =>
                 /\ Len(inbox') = Len(inbox) + Len(msgs)
                 /\ \A i \in 1 .. Len(inbox) : inbox'[i] = inbox[i]
                 /\ \A i \in 1 .. Len(msgs) : inbox'[Len(inbox) + i] = msgs[i]
<1>1. CASE ~(link = c /\ c \in open)
    BY <1>1 DEF Push
<1>2. CASE link = c /\ c \in open
    <2>1. inbox' = inbox \o msgs
        BY <1>2 DEF Push
    <2>2. PICK a \in Nat, b \in Nat : a = Len(inbox) /\ b = Len(msgs)
        OBVIOUS
    <2>3. /\ inbox \o msgs \in Seq(Messages) /\ Len(inbox \o msgs) = a + b
          /\ \A i \in 1 .. a + b :
                (inbox \o msgs)[i] = IF i <= a THEN inbox[i] ELSE msgs[i - a]
        BY <2>2, ConcatProperties
    <2>4. \A i \in 1 .. b : (inbox \o msgs)[a + i] = msgs[i]
        BY <2>3
    <2>5. QED BY <1>2, <2>1, <2>2, <2>3, <2>4
<1>3. QED BY <1>1, <1>2

\* The oldest message leaves the inbox.
LEMMA InboxTail ==
    ASSUME inbox \in Seq(Messages), inbox # <<>>, inbox' = Tail(inbox)
    PROVE  /\ inbox' \in Seq(Messages)
           /\ Len(inbox) \in Nat \ {0} /\ Len(inbox') = Len(inbox) - 1
           /\ inbox[1] = Head(inbox) /\ Head(inbox) \in Messages
           /\ \A i \in 1 .. Len(inbox) - 1 : inbox'[i] = inbox[i + 1] /\ i + 1 \in DOMAIN inbox
BY EmptySeq, HeadTailProperties

LEMMA InitInv == Init => IInv
<1> SUFFICES ASSUME Init PROVE IInv
    OBVIOUS
<1> USE DEF Init
<1>1. TypeInv
    <2>1. ServerTypes
        <3>1. NoSession \in Sessions /\ Len(NoSession.frames) = 0 /\ NoSession.sequence = 0
            BY EmptySeq DEF NoSession, Sessions
        <3>2. sessionOf \in [Conns -> Conns \cup {None}] /\ session \in [Conns -> Sessions]
            BY <3>1
        <3>3. resume \in [Conns -> Seq(Requests)] /\ \A c \in Conns : Len(resume[c]) = 0
            BY EmptySeq
        <3>4. QED BY <3>1, <3>2, <3>3 DEF ServerTypes
    <2>2. ClientTypes
        <3>1. inbox \in Seq(Messages)
            BY EmptySeq
        <3>2. closed \in BOOLEAN /\ intentionalClose \in BOOLEAN
            OBVIOUS
        <3>3. /\ link \in Conns \cup {None} /\ phase \in Phases /\ attempt \in 0 .. Attempts
              /\ {sessionId, pendingResumeSession} \subseteq Conns \cup {None}
              /\ lastReplaySequence \in 0 .. MaxSends
            BY DEF Phases
        <3>4. QED BY <3>1, <3>2, <3>3 DEF ClientTypes
    <2>3. LaneTypes
        <3>1. /\ packetQueue \in Seq(Frames) /\ delivered \in Seq(Frames)
              /\ running \in Seq(Handlers) /\ Len(running) <= 1
            BY EmptySeq
        <3>2. listenLock \in BOOLEAN
            OBVIOUS
        <3>3. dropped \subseteq Frames /\ odd \subseteq Oddities
            OBVIOUS
        <3>4. QED BY <3>1, <3>2, <3>3 DEF LaneTypes
    <2>4. QED BY <2>1, <2>2, <2>3 DEF TypeInv
<1>2. Held = {} /\ Received = {} /\ Accepted = {}
    BY DEF Held, Received, InLane, ToSet, Accepted
<1>3. NumberInv
    <2>1. Accepted = 1 .. 0
        BY <1>2
    <2>2. QED BY <1>2, <2>1 DEF NumberInv, NoSession
<1>4. HandshakeInv
    BY DEF HandshakeInv
<1>5. OrderInv
    BY <1>2 DEF OrderInv, LaneOrder, CounterInv
<1>6. BufferInv
    BY DEF BufferInv, NoSession
<1>7. LaneInv /\ CloseInv
    BY DEF LaneInv, CloseInv
<1>8. ReplayInv
    BY DEF ReplayInv, Asking, Ascending, Complete, Current
<1>9. QED BY <1>1, <1>3, <1>4, <1>5, <1>6, <1>7, <1>8 DEF IInv

-----------------------------------------------------------------------------
(* Type correctness *)

LEMMA TailTypes ==
    ASSUME NEW S, NEW q \in Seq(S)
    PROVE  (IF q = <<>> THEN <<>> ELSE Tail(q)) \in Seq(S)
BY EmptySeq, HeadTailProperties

\* The lane hands its oldest frame to a handler or is left without one.
LEMMA HandOverTypes ==
    ASSUME LaneTypes, NEW idle \in BOOLEAN,
           packetQueue' = IF packetQueue = <<>> THEN <<>> ELSE Tail(packetQueue),
           running' = IF packetQueue = <<>> \/ idle THEN <<>>
                      ELSE <<[frame |-> Head(packetQueue), stage |-> "decode"]>>
    PROVE  /\ packetQueue' \in Seq(Frames)
           /\ running' \in Seq(Handlers) /\ Len(running') <= 1
<1>1. packetQueue' \in Seq(Frames)
    BY TailTypes DEF LaneTypes
<1>2. CASE packetQueue = <<>> \/ idle
    <2>1. running' = <<>>
        BY <1>2
    <2>2. QED BY <1>1, <2>1, EmptySeq
<1>3. CASE ~(packetQueue = <<>> \/ idle)
    <2>1. Head(packetQueue) \in Frames
        BY <1>3, HeadTailProperties DEF LaneTypes
    <2>2. [frame |-> Head(packetQueue), stage |-> "decode"] \in Handlers
        BY <2>1 DEF Handlers
    <2>3. running' = <<[frame |-> Head(packetQueue), stage |-> "decode"]>>
        BY <1>3
    <2>4. QED BY <1>1, <2>2, <2>3
<1>4. QED BY <1>2, <1>3

LEMMA RunningTypes ==
    ASSUME LaneTypes, running # <<>>
    PROVE  /\ running[1] \in Handlers /\ running[1].frame \in Frames
           /\ Len(running) = 1 /\ DOMAIN running = {1}
<1>1. Len(running) = 1 /\ DOMAIN running = {1} /\ running[1] \in Handlers
    BY AtMostOne DEF LaneTypes
<1>2. QED BY <1>1 DEF Handlers

LEMMA ReleaseTypes ==
    ASSUME LaneTypes, Release, UNCHANGED <<delivered, odd>>
    PROVE  LaneTypes'
<1>1. /\ packetQueue' \in Seq(Frames)
      /\ running' \in Seq(Handlers) /\ Len(running') <= 1
    <2>1. PICK idle \in BOOLEAN : idle <=> phase = "connecting"
        OBVIOUS
    <2>2. QED BY <2>1, HandOverTypes DEF Release
<1>2. listenLock' \in BOOLEAN
    BY DEF Release
<1>3. dropped' \subseteq Frames
    <2>1. packetQueue # <<>> => Head(packetQueue) \in Frames
        BY HeadTailProperties DEF LaneTypes
    <2>2. QED BY <2>1 DEF Release, LaneTypes
<1>4. QED BY <1>1, <1>2, <1>3 DEF LaneTypes

LEMMA DeliverTypes ==
    ASSUME LaneTypes, Deliver
    PROVE  LaneTypes'
<1>1. running # <<>> /\ running[1].frame \in Frames /\ running[1] \in Handlers
    BY RunningTypes DEF Deliver
<1>2. odd' = odd
    BY DEF Deliver
<1>3. CASE closed
    <2>1. /\ packetQueue' \in Seq(Frames)
          /\ running' \in Seq(Handlers) /\ Len(running') <= 1
        BY <1>3, HandOverTypes DEF Deliver
    <2>2. listenLock' \in BOOLEAN
        BY <1>3 DEF Deliver
    <2>3. dropped' \subseteq Frames /\ delivered' = delivered
        BY <1>1, <1>3 DEF Deliver, LaneTypes
    <2>4. QED BY <1>2, <2>1, <2>2, <2>3 DEF LaneTypes
<1>4. CASE ~closed /\ phase = "connecting"
    <2>1. running' = <<>> /\ dropped' \subseteq Frames
        BY <1>1, <1>4 DEF Deliver, LaneTypes
    <2>2. UNCHANGED <<listenLock, packetQueue, delivered>>
        BY <1>4 DEF Deliver
    <2>3. QED BY <1>2, <2>1, <2>2, EmptySeq DEF LaneTypes
<1>5. CASE ~closed /\ phase # "connecting"
    <2>1. PICK h \in Handlers : h = [running[1] EXCEPT !.stage = "listen"]
        BY <1>1, HandlerIs
    <2>2. running' \in Seq(Handlers) /\ Len(running') <= 1
        <3>1. running' = <<h>>
            BY <1>5, <2>1 DEF Deliver
        <3>2. QED BY <3>1, OneElement
    <2>3. delivered' \in Seq(Frames)
        BY SMTT(20), <1>1, <1>5 DEF Deliver, LaneTypes
    <2>4. UNCHANGED <<listenLock, packetQueue, dropped>>
        BY <1>5 DEF Deliver
    <2>5. QED BY <1>2, <2>2, <2>3, <2>4 DEF LaneTypes
<1>6. QED BY <1>3, <1>4, <1>5

LEMMA HandleTypes ==
    ASSUME LaneTypes, NEW f \in Frames, Handle(f, listenLock, packetQueue),
           UNCHANGED <<delivered, dropped, odd>>
    PROVE  LaneTypes'
<1>1. CASE listenLock
    <2>1. packetQueue' \in Seq(Frames)
        BY <1>1 DEF Handle, LaneTypes
    <2>2. listenLock' \in BOOLEAN /\ running' = running
        BY <1>1 DEF Handle
    <2>3. QED BY <2>1, <2>2 DEF LaneTypes
<1>2. CASE ~listenLock
    <2>1. PICK h \in Handlers : h = [frame |-> f, stage |-> "decode"]
        BY HandlerIs
    <2>2. running' \in Seq(Handlers) /\ Len(running') <= 1
        <3>1. running' = <<h>>
            BY <1>2, <2>1 DEF Handle
        <3>2. QED BY <3>1, OneElement
    <2>3. listenLock' \in BOOLEAN /\ packetQueue' = packetQueue
        BY <1>2 DEF Handle
    <2>4. QED BY <2>2, <2>3 DEF LaneTypes
<1>3. QED BY <1>1, <1>2

LEMMA RetryTypes ==
    ASSUME ClientTypes, ScheduleReconnect
    PROVE  /\ phase' \in Phases /\ attempt' \in 0 .. Attempts
           /\ intentionalClose' \in BOOLEAN /\ lateTimer' \in BOOLEAN
<1>1. phase' \in Phases /\ attempt' \in 0 .. Attempts
    BY DEF ClientTypes, ScheduleReconnect, Phases
<1>2. intentionalClose' \in BOOLEAN /\ lateTimer' \in BOOLEAN
    BY Zenon DEF ClientTypes, ScheduleReconnect
<1>3. QED BY <1>1, <1>2

LEMMA AcceptTypes ==
    ASSUME TypeInv, Accept
    PROVE  TypeInv'
<1> DEFINE n == Cardinality(Accepted) + 1
<1>1. PICK c \in Conns : c = n
    BY DEF Accept
<1> HIDE DEF n
<1>2. /\ open' = open \cup {c} /\ link' = c /\ inbox' = <<Schema(c)>>
      /\ sessionOf' = [sessionOf EXCEPT ![c] = c]
      /\ session' = [session EXCEPT ![c] = [NoSession EXCEPT !.alive = TRUE]]
      /\ UNCHANGED <<resume, phase, attempt, closed, intentionalClose, lateTimer, identity, lane, sent, odd>>
    BY <1>1 DEF Accept, n
<1>3. PICK blank \in Sessions :
          /\ blank = [NoSession EXCEPT !.alive = TRUE]
          /\ Len(blank.frames) = 0 /\ blank.sequence = 0
    <2>1. PICK empty \in Sessions :
              empty = NoSession /\ empty.sequence = 0 /\ Len(empty.frames) = 0
        <3>1. NoSession \in Sessions /\ Len(NoSession.frames) = 0 /\ NoSession.sequence = 0
            BY EmptySeq DEF NoSession, Sessions
        <3>2. QED BY <3>1
    <2>2. PICK blank \in Sessions : blank = [empty EXCEPT !.alive = TRUE]
        <3>1. [empty EXCEPT !.alive = TRUE] \in Sessions
            BY DEF Sessions
        <3>2. QED BY <3>1
    <2>3. blank.sequence = empty.sequence /\ blank.frames = empty.frames
        BY <2>2 DEF Sessions
    <2>4. QED BY <2>1, <2>2, <2>3
<1>4. session' = [session EXCEPT ![c] = blank]
    BY <1>2, <1>3
<1>5. \A s \in Conns : session'[s] = IF s = c THEN blank ELSE session[s]
    BY <1>4 DEF TypeInv, ServerTypes
<1>6. ServerTypes'
    <2>1. session' \in [Conns -> Sessions] /\ sessionOf' \in [Conns -> Conns \cup {None}]
        BY <1>2, <1>4 DEF TypeInv, ServerTypes
    <2>2. open' \subseteq Conns
        BY <1>2 DEF TypeInv, ServerTypes
    <2>3. QED BY <1>2, <1>3, <1>5, <2>1, <2>2 DEF TypeInv, ServerTypes
<1>7. ClientTypes'
    <2>1. inbox' \in Seq(Messages)
        BY <1>2, MessageKinds, OneElement
    <2>2. QED BY <1>2, <2>1 DEF TypeInv, ClientTypes, identity
<1>8. LaneTypes'
    BY <1>2 DEF TypeInv, LaneTypes, lane
<1>9. QED BY <1>6, <1>7, <1>8 DEF TypeInv

\* What a send records and pushes.
LEMMA SendIs ==
    ASSUME TypeInv, NumberInv, NEW c \in Conns, Send(c)
    PROVE  \E s \in Conns, f \in Frames :
              /\ s = sessionOf[c] /\ c \in Accepted
              /\ f.session = s
              /\ f.sequence = IF session[s].alive THEN session[s].sequence + 1 ELSE 0
              /\ Push(c, <<Data(f)>>)
              /\ session[s].alive =>
                    session' = [session EXCEPT ![s].sequence = f.sequence,
                                               ![s].frames = Keep(Append(@, f))]
              /\ ~session[s].alive => session' = session
              /\ sent' = sent + 1 /\ sent' \in 0 .. MaxSends
              /\ UNCHANGED <<open, sessionOf, resume, transport, identity, lane>>
<1>1. PICK s \in Conns : s = sessionOf[c] /\ c \in Accepted
    BY DEF Send, TypeInv, ServerTypes, Accepted
<1>2. session[s] \in Sessions /\ session[s].sequence \in 0 .. MaxSends
    BY DEF TypeInv, ServerTypes, Sessions
<1>3. session[s].sequence + 1 \in 0 .. MaxSends
    BY <1>1, <1>2 DEF TypeInv, ServerTypes, Send
<1>4. PICK g \in Frames : g = [session |-> s, sequence |-> session[s].sequence + 1]
    BY <1>1, <1>3 DEF Frames
<1>5. g.session = s /\ g.sequence = session[s].sequence + 1
    BY <1>4
<1>6. sent' = sent + 1 /\ sent' \in 0 .. MaxSends
    BY DEF Send, TypeInv, ServerTypes
<1>7. CASE session[s].alive
    BY <1>1, <1>4, <1>5, <1>6, <1>7 DEF Send
<1>8. CASE ~session[s].alive
    <2>1. PICK f \in Frames : f = [g EXCEPT !.sequence = 0]
        <3>1. [g EXCEPT !.sequence = 0] \in Frames
            BY DEF Frames
        <3>2. QED BY <3>1
    <2>2. f.session = s /\ f.sequence = 0
        BY <1>5, <2>1 DEF Frames
    <2>3. Push(c, <<Data(f)>>)
        BY <1>1, <1>4, <1>8, <2>1 DEF Send
    <2>4. QED BY <1>1, <1>6, <1>8, <2>2, <2>3 DEF Send
<1>9. QED BY <1>7, <1>8

\* What an appended frame leaves in the session.
LEMMA RecordIs ==
    ASSUME TypeInv, NEW s \in Conns, NEW f \in Frames, session[s].alive,
           session' = [session EXCEPT ![s].sequence = f.sequence,
                                      ![s].frames = Keep(Append(@, f))]
    PROVE  /\ session' \in [Conns -> Sessions]
           /\ \A t \in Conns : t # s => session'[t] = session[t]
           /\ session'[s].alive /\ session'[s].sequence = f.sequence
           /\ session'[s].frames = Keep(Append(session[s].frames, f))
<1>1. session[s] \in Sessions /\ session[s].frames \in Seq(Frames)
      /\ Len(session[s].frames) <= MaxPackets /\ f.sequence \in 0 .. MaxSends
    BY DEF TypeInv, ServerTypes, Sessions, Frames
<1>2. Keep(Append(session[s].frames, f)) \in Seq(Frames)
    BY <1>1, KeepIs
<1>3. PICK r \in Sessions :
          r = [session[s] EXCEPT !.sequence = f.sequence,
                                 !.frames = Keep(Append(session[s].frames, f))]
    BY <1>1, <1>2 DEF Sessions
<1>4. /\ r.alive /\ r.sequence = f.sequence
      /\ r.frames = Keep(Append(session[s].frames, f))
    BY <1>1, <1>3 DEF Sessions
<1>5. session' = [session EXCEPT ![s] = r]
    BY <1>3
<1>6. QED BY <1>4, <1>5 DEF TypeInv, ServerTypes

LEMMA SendTypes ==
    ASSUME TypeInv, NumberInv, NEW c \in Conns, Send(c)
    PROVE  TypeInv'
<1>1. PICK s \in Conns, f \in Frames :
          /\ s = sessionOf[c] /\ c \in Accepted
          /\ f.session = s
          /\ f.sequence = IF session[s].alive THEN session[s].sequence + 1 ELSE 0
          /\ Push(c, <<Data(f)>>)
          /\ session[s].alive =>
                session' = [session EXCEPT ![s].sequence = f.sequence,
                                           ![s].frames = Keep(Append(@, f))]
          /\ ~session[s].alive => session' = session
          /\ sent' = sent + 1 /\ sent' \in 0 .. MaxSends
          /\ UNCHANGED <<open, sessionOf, resume, transport, identity, lane>>
    BY SendIs
<1>2. ServerTypes'
    <2>1. CASE session[s].alive
        <3>1. /\ session' \in [Conns -> Sessions]
              /\ \A t \in Conns : t # s => session'[t] = session[t]
              /\ session'[s].sequence = f.sequence
              /\ session'[s].frames = Keep(Append(session[s].frames, f))
            BY <1>1, <2>1, RecordIs
        <3>2. Len(session'[s].frames) <= MaxPackets
            BY <3>1, KeepIs DEF TypeInv, ServerTypes, Sessions
        <3>3. session'[s].sequence <= sent'
            BY <1>1, <2>1, <3>1 DEF TypeInv, ServerTypes, Sessions
        <3>4. ASSUME NEW t \in Conns
              PROVE  Len(session'[t].frames) <= MaxPackets /\ session'[t].sequence <= sent'
            <4>1. CASE t = s
                BY <3>2, <3>3, <4>1
            <4>2. CASE t # s
                <5>1. session'[t] = session[t] /\ session[t].sequence \in Nat
                    <6>1. session[t] \in Sessions
                        BY DEF TypeInv, ServerTypes
                    <6>2. QED BY <3>1, <4>2, <6>1 DEF Sessions
                <5>2. Len(session[t].frames) <= MaxPackets /\ session[t].sequence <= sent
                    BY DEF TypeInv, ServerTypes
                <5>3. QED BY <1>1, <5>1, <5>2 DEF TypeInv, ServerTypes
            <4>3. QED BY <4>1, <4>2
        <3>5. QED BY <1>1, <3>1, <3>4 DEF TypeInv, ServerTypes
    <2>2. CASE ~session[s].alive
        <3>1. session' = session
            BY <1>1, <2>2
        <3>2. \A t \in Conns : session'[t].sequence <= sent'
            BY SMTT(20), <1>1, <3>1 DEF TypeInv, ServerTypes, Sessions
        <3>3. QED BY <1>1, <3>1, <3>2 DEF TypeInv, ServerTypes
    <2>3. QED BY <2>1, <2>2
<1>3. ClientTypes'
    <2>1. <<Data(f)>> \in Seq(Messages)
        BY MessageKinds, OneElement
    <2>2. inbox' \in Seq(Messages)
        BY <1>1, <2>1, PushIs DEF TypeInv, ClientTypes
    <2>3. QED BY <1>1, <2>2 DEF TypeInv, ClientTypes, transport, identity
<1>4. LaneTypes'
    <2>1. odd' \subseteq Oddities
        BY DEF Send, TypeInv, LaneTypes, Oddities
    <2>2. QED BY <1>1, <2>1 DEF TypeInv, LaneTypes, lane
<1>5. QED BY <1>2, <1>3, <1>4 DEF TypeInv

LEMMA RefusedTypes ==
    ASSUME TypeInv, NEW c \in Conns, ResumeRefused(c)
    PROVE  TypeInv'
<1>1. resume' \in [Conns -> Seq(Requests)] /\ \A d \in Conns : Len(resume'[d]) <= 1
    <2>1. <<>> \in Seq(Requests) /\ Len(<<>>) = 0
        BY EmptySeq
    <2>2. resume' = [resume EXCEPT ![c] = <<>>]
        BY DEF ResumeRefused
    <2>3. QED BY <2>1, <2>2 DEF TypeInv, ServerTypes
<1>2. inbox' \in Seq(Messages)
    <2>1. <<Resumed(FALSE, 0)>> \in Seq(Messages)
        <3>1. Resumed(FALSE, 0) \in Messages
            BY DEF Resumed, Messages
        <3>2. QED BY <3>1, OneElement
    <2>2. Push(c, <<Resumed(FALSE, 0)>>)
        BY DEF ResumeRefused
    <2>3. QED BY <2>1, <2>2, PushIs DEF TypeInv, ClientTypes
<1>3. UNCHANGED <<open, sessionOf, session, transport, identity, lane, sent, odd>>
    BY DEF ResumeRefused
<1>4. ServerTypes'
    BY <1>1, <1>3 DEF TypeInv, ServerTypes
<1>5. ClientTypes'
    BY <1>2, <1>3 DEF TypeInv, ClientTypes, transport, identity
<1>6. LaneTypes'
    BY <1>3 DEF TypeInv, LaneTypes, lane
<1>7. QED BY <1>4, <1>5, <1>6 DEF TypeInv

\* What a granted resumption moves, and the replay it pushes.
LEMMA GrantedIs ==
    ASSUME TypeInv, NumberInv, BufferInv, NEW c \in Conns, ResumeGranted(c)
    PROVE  \E s \in Conns, replay \in Seq(Messages) :
              /\ resume[c] # <<>> /\ resume[c][1] \in Requests /\ s = resume[c][1].session
              /\ c \in open /\ c \in Accepted /\ sessionOf[c] = c
              /\ s \in Accepted /\ s < c /\ session[s].alive
              /\ session' = [session EXCEPT ![c] = NoSession]
              /\ sessionOf' = [sessionOf EXCEPT ![c] = s]
              /\ resume' = [resume EXCEPT ![c] = <<>>]
              /\ Push(c, replay)
              /\ replay # <<>> /\ replay[Len(replay)].type = "resumed"
              /\ replay[Len(replay)].recovered
              /\ \A i \in 1 .. Len(replay) - 1 :
                    replay[i].type = "frame" /\ replay[i].frame \in ToSet(session[s].frames)
              /\ \A i, j \in 1 .. Len(replay) - 1 : i < j =>
                    replay[i].frame.sequence < replay[j].frame.sequence
              /\ \A f \in ToSet(session[s].frames) : f.sequence > resume[c][1].last =>
                    \E i \in 1 .. Len(replay) - 1 : replay[i] = Data(f)
              /\ UNCHANGED <<open, transport, identity, lane, sent, odd>>
<1>1. /\ resume[c] # <<>> /\ c \in open
      /\ resume' = [resume EXCEPT ![c] = <<>>]
      /\ UNCHANGED <<open, transport, identity, lane, sent, odd>>
    BY DEF ResumeGranted
<1>2. PICK r \in Requests : r = resume[c][1]
    <2>1. resume[c] \in Seq(Requests) /\ Len(resume[c]) <= 1
        BY DEF TypeInv, ServerTypes
    <2>2. QED BY <1>1, <2>1, AtMostOne
<1>3. PICK s \in Conns : s = r.session
    BY DEF Requests
<1>4. s \in Accepted /\ s < c /\ sessionOf[c] = c /\ c \in Accepted
    BY <1>1, <1>2, <1>3 DEF NumberInv
<1>5. PICK last \in Nat : last = r.last
    BY DEF Requests
<1>6. PICK frames \in Seq(Frames), q \in 0 .. MaxSends :
          frames = session[s].frames /\ q = session[s].sequence
    <2>1. session[s] \in Sessions
        BY DEF TypeInv, ServerTypes
    <2>2. session[s].frames \in Seq(Frames) /\ session[s].sequence \in 0 .. MaxSends
        BY <2>1 DEF Sessions
    <2>3. QED BY <2>2
<1>7. /\ session[s].alive
      /\ session' = [session EXCEPT ![c] = NoSession]
      /\ sessionOf' = [sessionOf EXCEPT ![c] = s]
      /\ Push(c, Append([i \in 1 .. Len(Missing(frames, last)) |-> Data(Missing(frames, last)[i])],
                        Resumed(TRUE, Len(Missing(frames, last)))))
    BY <1>2, <1>3, <1>4, <1>5, <1>6 DEF ResumeGranted
<1>8. PICK missing \in Seq(Frames) :
          /\ missing = Missing(frames, last)
          /\ Len(missing) <= q
          /\ \A i \in DOMAIN missing : missing[i] \in ToSet(frames)
          /\ \A i, j \in DOMAIN missing : i < j => missing[i].sequence < missing[j].sequence
          /\ \A f \in ToSet(frames) : f.sequence > last => f \in ToSet(missing)
    <2>1. Len(frames) <= q /\ \A i \in DOMAIN frames : frames[i].sequence = q - Len(frames) + i
        BY <1>6, <1>7 DEF BufferInv
    <2>2. QED BY <2>1, MissingIs
<1>9. PICK n \in 0 .. MaxSends : n = Len(missing) /\ DOMAIN missing = 1 .. n
    BY <1>6, <1>8
<1>10. PICK data \in Seq(Messages) :
           /\ data = [i \in 1 .. n |-> Data(missing[i])]
           /\ Len(data) = n /\ \A i \in 1 .. n : data[i] = Data(missing[i])
    <2>1. \A i \in 1 .. n : Data(missing[i]) \in Messages
        BY <1>9, MessageKinds
    <2>2. [i \in 1 .. n |-> Data(missing[i])] \in Seq(Messages)
        BY <1>9, <2>1, IsASeq
    <2>3. Len([i \in 1 .. n |-> Data(missing[i])]) = n
        BY <1>9
    <2>4. QED BY <2>2, <2>3
<1>11. PICK end \in Messages : end = Resumed(TRUE, n) /\ end.type = "resumed" /\ end.recovered
    BY MessageKinds
<1>12. PICK replay \in Seq(Messages) :
           /\ replay = Append(data, end) /\ Len(replay) = n + 1
           /\ \A i \in 1 .. n : replay[i] = Data(missing[i])
           /\ replay[n + 1] = end
    <2>1. /\ Append(data, end) \in Seq(Messages) /\ Len(Append(data, end)) = n + 1
          /\ \A i \in 1 .. n : Append(data, end)[i] = data[i]
          /\ Append(data, end)[n + 1] = end
        BY <1>10, AppendProperties
    <2>2. QED BY <1>10, <2>1
<1>13. Push(c, replay)
    BY <1>7, <1>8, <1>9, <1>10, <1>11, <1>12
<1>14. \A i \in 1 .. n :
           replay[i].type = "frame" /\ replay[i].frame = missing[i] /\ missing[i] \in ToSet(frames)
    <2>1. ASSUME NEW i \in 1 .. n
          PROVE  /\ replay[i].type = "frame" /\ replay[i].frame = missing[i]
                 /\ missing[i] \in ToSet(frames)
        <3>1. missing[i] \in Frames /\ missing[i] \in ToSet(frames)
            <4>1. i \in DOMAIN missing /\ i \in 1 .. Len(missing)
                BY <1>9
            <4>2. missing[i] \in Frames
                BY ONLY missing \in Seq(Frames), <4>1, ElementOfSeq
            <4>3. missing[i] \in ToSet(frames)
                BY <1>8, <4>1
            <4>4. QED BY <4>2, <4>3
        <3>2. replay[i] = Data(missing[i])
            BY <1>12
        <3>3. QED BY <3>1, <3>2, MessageKinds
    <2>2. QED BY <2>1
<1>15. \A i, j \in 1 .. n : i < j => replay[i].frame.sequence < replay[j].frame.sequence
    <2>1. ASSUME NEW i \in 1 .. n, NEW j \in 1 .. n, i < j
          PROVE  replay[i].frame.sequence < replay[j].frame.sequence
        <3>1. missing[i].sequence < missing[j].sequence
            BY <1>8, <1>9, <2>1
        <3>2. replay[i].frame = missing[i] /\ replay[j].frame = missing[j]
            BY <1>14
        <3>3. QED BY <3>1, <3>2
    <2>2. QED BY <2>1
<1>16. \A f \in ToSet(frames) : f.sequence > last => \E i \in 1 .. n : replay[i] = Data(f)
    <2>1. ASSUME NEW f \in ToSet(frames), f.sequence > last
          PROVE  \E i \in 1 .. n : replay[i] = Data(f)
        <3>1. f \in ToSet(missing)
            BY <1>8, <2>1
        <3>2. PICK i \in 1 .. n : missing[i] = f
            BY <1>9, <3>1 DEF ToSet
        <3>3. QED BY <1>12, <3>2
    <2>2. QED BY <2>1
<1>17. Len(replay) - 1 = n /\ replay # <<>> /\ replay[Len(replay)] = end
    BY SMTT(20), <1>12, EmptySeq
<1>18. \A i \in 1 .. Len(replay) - 1 :
           replay[i].type = "frame" /\ replay[i].frame \in ToSet(session[s].frames)
    BY <1>6, <1>14, <1>17
<1>19. \A i, j \in 1 .. Len(replay) - 1 : i < j =>
           replay[i].frame.sequence < replay[j].frame.sequence
    BY <1>15, <1>17
<1>20. \A f \in ToSet(session[s].frames) : f.sequence > resume[c][1].last =>
           \E i \in 1 .. Len(replay) - 1 : replay[i] = Data(f)
    BY <1>2, <1>5, <1>6, <1>16, <1>17
<1>21. /\ replay # <<>> /\ replay[Len(replay)].type = "resumed"
       /\ replay[Len(replay)].recovered
    BY <1>11, <1>17
<1>22. /\ resume[c][1] \in Requests /\ s = resume[c][1].session
       /\ session[s].alive
       /\ session' = [session EXCEPT ![c] = NoSession]
       /\ sessionOf' = [sessionOf EXCEPT ![c] = s]
    BY <1>2, <1>3, <1>7
<1> WITNESS s \in Conns, replay \in Seq(Messages)
<1>23. QED BY <1>1, <1>4, <1>13, <1>18, <1>19, <1>20, <1>21, <1>22

LEMMA GrantedTypes ==
    ASSUME TypeInv, NumberInv, BufferInv, NEW c \in Conns, ResumeGranted(c)
    PROVE  TypeInv'
<1>1. PICK s \in Conns, replay \in Seq(Messages) :
          /\ session' = [session EXCEPT ![c] = NoSession]
          /\ sessionOf' = [sessionOf EXCEPT ![c] = s]
          /\ resume' = [resume EXCEPT ![c] = <<>>]
          /\ Push(c, replay)
          /\ UNCHANGED <<open, transport, identity, lane, sent, odd>>
    BY SMTT(60), GrantedIs
<1>2. resume' \in [Conns -> Seq(Requests)] /\ \A d \in Conns : Len(resume'[d]) <= 1
    <2>1. <<>> \in Seq(Requests) /\ Len(<<>>) = 0
        BY EmptySeq
    <2>2. QED BY <1>1, <2>1 DEF TypeInv, ServerTypes
<1>3. session' \in [Conns -> Sessions]
      /\ \A t \in Conns : Len(session'[t].frames) <= MaxPackets /\ session'[t].sequence <= sent
    <2>1. NoSession \in Sessions /\ Len(NoSession.frames) = 0 /\ NoSession.sequence = 0
        BY EmptySeq DEF NoSession, Sessions
    <2>2. \A t \in Conns : session'[t] = IF t = c THEN NoSession ELSE session[t]
        BY <1>1 DEF TypeInv, ServerTypes
    <2>3. sent \in Nat /\ session' \in [Conns -> Sessions]
        BY <1>1, <2>1 DEF TypeInv, ServerTypes
    <2>4. ASSUME NEW t \in Conns
          PROVE  Len(session'[t].frames) <= MaxPackets /\ session'[t].sequence <= sent
        <3>1. CASE t = c
            BY <2>1, <2>2, <2>3, <3>1
        <3>2. CASE t # c
            <4>1. session'[t] = session[t]
                BY <2>2, <3>2
            <4>2. QED BY <4>1 DEF TypeInv, ServerTypes
        <3>3. QED BY <3>1, <3>2
    <2>5. QED BY <2>3, <2>4
<1>4. ServerTypes'
    BY <1>1, <1>2, <1>3 DEF TypeInv, ServerTypes
<1>5. ClientTypes'
    <2>1. inbox' \in Seq(Messages)
        BY <1>1, PushIs DEF TypeInv, ClientTypes
    <2>2. QED BY <1>1, <2>1 DEF TypeInv, ClientTypes, transport, identity
<1>6. LaneTypes'
    BY <1>1 DEF TypeInv, LaneTypes, lane
<1>7. QED BY <1>4, <1>5, <1>6 DEF TypeInv

LEMMA ReceiveSchemaTypes ==
    ASSUME TypeInv, NumberInv, HandshakeInv, ReceiveSchema
    PROVE  TypeInv'
<1>1. inbox # <<>> /\ inbox' = Tail(inbox) /\ Head(inbox).type = "schema"
    BY DEF ReceiveSchema, Arrives
<1>2. inbox' \in Seq(Messages) /\ Head(inbox) \in Messages
    BY <1>1, InboxTail DEF TypeInv, ClientTypes
<1>3. PICK s \in Conns : s = Head(inbox).session
    BY <1>1, <1>2, MessageKinds
<1>4. /\ sessionId' = s /\ phase' = "ready"
      /\ attempt' = IF sessionId = None THEN attempt ELSE 0
      /\ IF sessionId \notin {None, s}
         THEN /\ pendingResumeSession' = sessionId
              /\ resume' = IF link \in open /\ ~closed
                           THEN [resume EXCEPT ![link] =
                                   <<[session |-> sessionId, last |-> lastReplaySequence]>>]
                           ELSE resume
         ELSE UNCHANGED <<pendingResumeSession, resume>>
      /\ UNCHANGED <<open, sessionOf, session, link, closed, intentionalClose, lateTimer,
                     lastReplaySequence, lane, sent, odd>>
    BY <1>3 DEF ReceiveSchema
<1>5. resume' \in [Conns -> Seq(Requests)] /\ \A c \in Conns : Len(resume'[c]) <= 1
    <2>1. CASE sessionId \notin {None, s} /\ link \in open /\ ~closed
        <3>1. PICK r \in Requests : r = [session |-> sessionId, last |-> lastReplaySequence]
            <4>1. [session |-> sessionId, last |-> lastReplaySequence] \in Requests
                BY <2>1 DEF TypeInv, ClientTypes, Requests
            <4>2. QED BY <4>1
        <3>2. resume' = [resume EXCEPT ![link] = <<r>>]
            BY <1>4, <2>1, <3>1
        <3>3. PICK q \in Seq(Requests) : q = <<r>> /\ Len(q) = 1
            BY OneElement
        <3>4. resume' = [resume EXCEPT ![link] = q]
            BY <3>2, <3>3
        <3>5. \A c \in Conns : resume'[c] = q \/ resume'[c] = resume[c]
            BY <3>4 DEF TypeInv, ServerTypes
        <3>6. ASSUME NEW c \in Conns PROVE Len(resume'[c]) <= 1
            <4>1. CASE resume'[c] = q
                BY <3>3, <4>1
            <4>2. CASE resume'[c] = resume[c]
                BY <4>2 DEF TypeInv, ServerTypes
            <4>3. QED BY <3>5, <4>1, <4>2
        <3>7. resume' \in [Conns -> Seq(Requests)]
            BY <3>4 DEF TypeInv, ServerTypes
        <3>8. QED BY <3>6, <3>7
    <2>2. CASE ~(sessionId \notin {None, s} /\ link \in open /\ ~closed)
        <3>1. resume' = resume
            BY <1>4, <2>2
        <3>2. QED BY <3>1 DEF TypeInv, ServerTypes
    <2>3. QED BY <2>1, <2>2
<1>6. ServerTypes'
    BY <1>4, <1>5 DEF TypeInv, ServerTypes
<1>7. ClientTypes'
    <2>1. /\ pendingResumeSession' \in Conns \cup {None}
          /\ phase' \in Phases /\ attempt' \in 0 .. Attempts
        BY <1>4 DEF TypeInv, ClientTypes, Phases
    <2>2. QED BY <1>2, <1>3, <1>4, <2>1 DEF TypeInv, ClientTypes
<1>8. LaneTypes'
    BY <1>4 DEF TypeInv, LaneTypes, lane
<1>9. QED BY <1>6, <1>7, <1>8 DEF TypeInv

\* The frame at the head of the inbox, and what becomes of it.
LEMMA FrameIs ==
    ASSUME TypeInv, ReceiveFrame
    PROVE  \E f \in Frames :
              /\ inbox # <<>> /\ inbox[1] = Head(inbox) /\ Head(inbox) = Data(f)
              /\ Head(inbox).type = "frame" /\ f = Head(inbox).frame
              /\ inbox' = Tail(inbox)
              /\ Fresh(f) => /\ lastReplaySequence' =
                                   IF f.sequence = 0 THEN lastReplaySequence ELSE f.sequence
                             /\ Handle(f, listenLock, packetQueue)
              /\ ~Fresh(f) => UNCHANGED <<lastReplaySequence, listenLock, packetQueue, running>>
              /\ UNCHANGED <<server, transport, sessionId, pendingResumeSession, delivered,
                             dropped, sent, odd>>
<1>1. inbox # <<>> /\ inbox' = Tail(inbox) /\ Head(inbox).type = "frame"
    BY DEF ReceiveFrame, Arrives
<1>2. inbox[1] = Head(inbox) /\ Head(inbox) \in Messages
    BY <1>1, InboxTail DEF TypeInv, ClientTypes
<1>3. PICK f \in Frames : f = Head(inbox).frame /\ Head(inbox) = Data(f)
    BY <1>1, <1>2, MessageKinds
<1>4. QED BY <1>1, <1>2, <1>3 DEF ReceiveFrame

LEMMA ReceiveFrameTypes ==
    ASSUME TypeInv, ReceiveFrame
    PROVE  TypeInv'
<1>1. PICK f \in Frames :
          /\ inbox # <<>> /\ inbox' = Tail(inbox)
          /\ Fresh(f) => /\ lastReplaySequence' =
                               IF f.sequence = 0 THEN lastReplaySequence ELSE f.sequence
                         /\ Handle(f, listenLock, packetQueue)
          /\ ~Fresh(f) => UNCHANGED <<lastReplaySequence, listenLock, packetQueue, running>>
          /\ UNCHANGED <<server, transport, sessionId, pendingResumeSession, delivered,
                         dropped, sent, odd>>
    BY FrameIs
<1>2. ServerTypes'
    BY <1>1 DEF TypeInv, ServerTypes, server
<1>3. ClientTypes'
    <2>1. inbox' \in Seq(Messages)
        BY <1>1, InboxTail DEF TypeInv, ClientTypes
    <2>2. lastReplaySequence' \in 0 .. MaxSends
        BY <1>1 DEF TypeInv, ClientTypes, Frames
    <2>3. QED BY <1>1, <2>1, <2>2 DEF TypeInv, ClientTypes, transport
<1>4. LaneTypes'
    <2>1. CASE Fresh(f)
        BY <1>1, <2>1, HandleTypes DEF TypeInv
    <2>2. CASE ~Fresh(f)
        BY <1>1, <2>2 DEF TypeInv, LaneTypes
    <2>3. QED BY <2>1, <2>2
<1>5. QED BY <1>2, <1>3, <1>4 DEF TypeInv

LEMMA ReceiveResumedTypes ==
    ASSUME TypeInv, ReceiveResumed
    PROVE  TypeInv'
<1>1. inbox # <<>> /\ inbox' = Tail(inbox)
    BY DEF ReceiveResumed, Arrives
<1>2. inbox' \in Seq(Messages)
    BY <1>1, InboxTail DEF TypeInv, ClientTypes
<1>3. ServerTypes'
    BY DEF ReceiveResumed, TypeInv, ServerTypes, server
<1>4. ClientTypes'
    <2>1. UNCHANGED transport
        BY DEF ReceiveResumed
    <2>2. /\ {sessionId', pendingResumeSession'} \subseteq Conns \cup {None}
          /\ lastReplaySequence' \in 0 .. MaxSends
        BY DEF ReceiveResumed, TypeInv, ClientTypes
    <2>3. QED BY <1>2, <2>1, <2>2 DEF TypeInv, ClientTypes, transport
<1>5. LaneTypes'
    BY DEF ReceiveResumed, TypeInv, LaneTypes, lane
<1>6. QED BY <1>3, <1>4, <1>5 DEF TypeInv

LEMMA ClosedTypes ==
    ASSUME TypeInv, NEW retry \in BOOLEAN, TransportClosed(retry)
    PROVE  TypeInv'
<1>1. ServerTypes'
    BY DEF TransportClosed, TypeInv, ServerTypes, server
<1>2. ClientTypes'
    <2>1. /\ phase' \in Phases /\ attempt' \in 0 .. Attempts
          /\ intentionalClose' \in BOOLEAN /\ lateTimer' \in BOOLEAN
        <3>1. CASE ScheduleReconnect
            BY <3>1, RetryTypes DEF TypeInv
        <3>2. CASE phase' \in {"broken", "ended"}
                   /\ UNCHANGED <<attempt, intentionalClose, lateTimer>>
            BY <3>2 DEF TypeInv, ClientTypes, Phases
        <3>3. QED BY <3>1, <3>2 DEF TransportClosed
    <2>2. inbox' \in Seq(Messages) /\ link' = None
        BY EmptySeq DEF TransportClosed
    <2>3. closed' \in BOOLEAN
        BY DEF TransportClosed
    <2>4. UNCHANGED identity
        BY DEF TransportClosed
    <2>5. QED BY <2>1, <2>2, <2>3, <2>4 DEF TypeInv, ClientTypes, identity
<1>3. LaneTypes'
    <2>1. odd' \subseteq Oddities
        BY DEF TransportClosed, TypeInv, LaneTypes, Oddities
    <2>2. UNCHANGED lane
        BY DEF TransportClosed
    <2>3. QED BY <2>1, <2>2 DEF TypeInv, LaneTypes, lane
<1>4. QED BY <1>1, <1>2, <1>3 DEF TypeInv

LEMMA ReconnectTypes ==
    ASSUME TypeInv, BeginReconnect
    PROVE  TypeInv'
<1>1. UNCHANGED <<server, link, identity, inbox, lane, sent, odd>>
    BY DEF BeginReconnect
<1>2. /\ phase' \in Phases /\ attempt' \in 0 .. Attempts
      /\ intentionalClose' \in BOOLEAN /\ lateTimer' \in BOOLEAN
    <2>1. CASE ScheduleReconnect
        BY <2>1, RetryTypes DEF TypeInv
    <2>2. CASE phase' = "connecting" /\ UNCHANGED <<attempt, intentionalClose, lateTimer>>
        BY <2>2 DEF TypeInv, ClientTypes, Phases
    <2>3. QED BY <2>1, <2>2 DEF BeginReconnect
<1>3. closed' \in BOOLEAN
    BY DEF BeginReconnect, TypeInv, ClientTypes
<1>4. ServerTypes'
    BY <1>1 DEF TypeInv, ServerTypes, server
<1>5. ClientTypes'
    BY <1>1, <1>2, <1>3 DEF TypeInv, ClientTypes, identity
<1>6. LaneTypes'
    BY <1>1 DEF TypeInv, LaneTypes, lane
<1>7. QED BY <1>4, <1>5, <1>6 DEF TypeInv

LEMMA TypeStep ==
    ASSUME TypeInv, NumberInv, HandshakeInv, BufferInv, [Next]_vars
    PROVE  TypeInv'
<1>1. CASE Accept
    BY <1>1, AcceptTypes
<1>2. ASSUME NEW c \in Conns, Send(c) PROVE TypeInv'
    BY <1>2, SendTypes
<1>3. ASSUME NEW c \in Conns, ResumeRefused(c) PROVE TypeInv'
    BY <1>3, RefusedTypes
<1>4. ASSUME NEW c \in Conns, ResumeGranted(c) PROVE TypeInv'
    BY <1>4, GrantedTypes
<1>5. ASSUME NEW c \in Conns, ServerClose(c) PROVE TypeInv'
    <2>1. UNCHANGED <<sessionOf, session, resume, transport, identity, inbox, lane, sent, odd>>
          /\ open' \subseteq Conns
        BY <1>5 DEF ServerClose, TypeInv, ServerTypes
    <2>2. ServerTypes'
        BY <2>1 DEF TypeInv, ServerTypes
    <2>3. ClientTypes' /\ LaneTypes'
        BY <2>1 DEF TypeInv, ClientTypes, LaneTypes, transport, identity, lane
    <2>4. QED BY <2>2, <2>3 DEF TypeInv
<1>6. CASE Deliver
    <2>1. UNCHANGED <<server, transport, identity, inbox, sent>>
        BY <1>6 DEF Deliver
    <2>2. ServerTypes' /\ ClientTypes'
        BY <2>1 DEF TypeInv, ServerTypes, ClientTypes, server, transport, identity
    <2>3. QED BY <1>6, <2>2, DeliverTypes DEF TypeInv
<1>7. CASE Listened
    <2>1. UNCHANGED <<server, transport, identity, inbox, sent>>
          /\ Release /\ UNCHANGED <<delivered, odd>>
        BY <1>7 DEF Listened
    <2>2. ServerTypes' /\ ClientTypes'
        BY <2>1 DEF TypeInv, ServerTypes, ClientTypes, server, transport, identity
    <2>3. QED BY <2>1, <2>2, ReleaseTypes DEF TypeInv
<1>8. CASE ListenerThrows
    <2>1. UNCHANGED <<server, transport, identity, inbox, sent>>
          /\ running' = <<>> /\ odd' = odd \cup {"listenerThrew"}
          /\ UNCHANGED <<listenLock, packetQueue, delivered, dropped>>
        BY <1>8 DEF ListenerThrows
    <2>2. ServerTypes' /\ ClientTypes'
        BY <2>1 DEF TypeInv, ServerTypes, ClientTypes, server, transport, identity
    <2>3. odd' \subseteq Oddities
        BY <2>1 DEF TypeInv, LaneTypes, Oddities
    <2>4. LaneTypes'
        BY <2>1, <2>3, EmptySeq DEF TypeInv, LaneTypes
    <2>5. QED BY <2>2, <2>4 DEF TypeInv
<1>9. CASE ReceiveSchema
    BY <1>9, ReceiveSchemaTypes
<1>10. CASE ReceiveFrame
    BY <1>10, ReceiveFrameTypes
<1>11. CASE ReceiveResumed
    BY <1>11, ReceiveResumedTypes
<1>12. ASSUME NEW retry \in BOOLEAN, TransportClosed(retry) PROVE TypeInv'
    BY <1>12, ClosedTypes
<1>13. CASE BeginReconnect
    BY <1>13, ReconnectTypes
<1>14. CASE Close
    <2>1. UNCHANGED <<server, link, attempt, lateTimer, identity, inbox, lane, sent, odd>>
        BY <1>14 DEF Close
    <2>2. intentionalClose' \in BOOLEAN /\ closed' \in BOOLEAN
        BY <1>14 DEF Close
    <2>3. phase' \in Phases
        BY <1>14 DEF Close, TypeInv, ClientTypes, Phases
    <2>4. ServerTypes' /\ LaneTypes'
        BY <2>1 DEF TypeInv, ServerTypes, LaneTypes, server, lane
    <2>5. ClientTypes'
        BY <2>1, <2>2, <2>3 DEF TypeInv, ClientTypes, identity
    <2>6. QED BY <2>4, <2>5 DEF TypeInv
<1>15. CASE UNCHANGED vars
    BY <1>15 DEF TypeInv, ServerTypes, ClientTypes, LaneTypes, vars, server, transport,
                 identity, lane
<1>16. QED
    BY <1>1, <1>2, <1>3, <1>4, <1>5, <1>6, <1>7, <1>8, <1>9, <1>10, <1>11, <1>12, <1>13,
       <1>14, <1>15 DEF Next

-----------------------------------------------------------------------------
(* The lane and its lock *)

\* Frames arrive only after the handshake.
LEMMA FramesWhenReady ==
    ASSUME TypeInv, HandshakeInv, inbox # <<>>, Head(inbox).type # "schema"
    PROVE  phase = "ready" /\ link # None
<1>1. link # None
    BY DEF HandshakeInv
<1>2. inbox[1] = Head(inbox)
    BY InboxTail, EmptySeq DEF TypeInv, ClientTypes
<1>3. phase # "connecting"
    BY <1>1, <1>2 DEF HandshakeInv, Schema
<1>4. QED BY <1>1, <1>3 DEF HandshakeInv

LEMMA LaneAlone ==
    ASSUME LaneInv, UNCHANGED <<listenLock, packetQueue, running, delivered>>,
           phase' # "ready" => phase # "ready",
           odd' \cap {"busyLoss", "listenerThrew"} = odd \cap {"busyLoss", "listenerThrew"}
    PROVE  LaneInv'
BY DEF LaneInv

\* The lane is handed to the oldest frame or left.
LEMMA LaneHandOver ==
    ASSUME TypeInv, LaneInv, running # <<>>, NEW idle \in BOOLEAN,
           idle => phase # "ready",
           listenLock' = (packetQueue # <<>>),
           packetQueue' = IF packetQueue = <<>> THEN <<>> ELSE Tail(packetQueue),
           running' = IF packetQueue = <<>> \/ idle THEN <<>>
                      ELSE <<[frame |-> Head(packetQueue), stage |-> "decode"]>>,
           UNCHANGED <<phase, odd, delivered>>
    PROVE  LaneInv'
<1>1. "busyLoss" \in odd \/ phase = "ready"
    BY DEF LaneInv
<1>2. CASE packetQueue = <<>>
    <2>1. running' = <<>> /\ packetQueue' = <<>> /\ ~listenLock'
        BY <1>2
    <2>2. DOMAIN running' = {}
        BY <2>1
    <2>3. QED BY <2>1, <2>2 DEF LaneInv
<1>3. CASE packetQueue # <<>> /\ idle
    <2>1. running' = <<>> /\ listenLock' /\ "busyLoss" \in odd'
        BY <1>1, <1>3
    <2>2. DOMAIN running' = {}
        BY <2>1
    <2>3. QED BY <2>1, <2>2 DEF LaneInv
<1>4. CASE packetQueue # <<>> /\ ~idle
    <2>1. PICK h \in Handlers :
              h = [frame |-> Head(packetQueue), stage |-> "decode"] /\ h.stage = "decode"
        <3>1. Head(packetQueue) \in Frames
            BY <1>4, HeadTailProperties DEF TypeInv, LaneTypes
        <3>2. QED BY <3>1, HandlerIs
    <2>2. running' = <<h>>
        BY <1>4, <2>1
    <2>3. running' # <<>> /\ DOMAIN running' = {1} /\ running'[1] = h
        BY <2>2, OneElement
    <2>4. listenLock'
        BY <1>4
    <2>5. QED BY <1>1, <2>1, <2>3, <2>4 DEF LaneInv
<1>5. QED BY <1>2, <1>3, <1>4

LEMMA LaneStep ==
    ASSUME TypeInv, HandshakeInv, LaneInv, [Next]_vars
    PROVE  LaneInv'
<1>1. ASSUME NEW c \in Conns, Send(c) PROVE LaneInv'
    <2>1. UNCHANGED <<lane, phase>>
          /\ odd' \cap {"busyLoss", "listenerThrew"} = odd \cap {"busyLoss", "listenerThrew"}
        BY <1>1 DEF Send, transport
    <2>2. QED BY <2>1, LaneAlone DEF lane
<1>2. CASE Accept \/ \E c \in Conns : ResumeRefused(c) \/ ResumeGranted(c) \/ ServerClose(c)
    <2>1. UNCHANGED <<lane, phase, odd>>
        BY <1>2 DEF Accept, ResumeRefused, ResumeGranted, ServerClose, transport
    <2>2. QED BY <2>1, LaneAlone DEF lane
<1>3. CASE ReceiveSchema \/ ReceiveResumed
    <2>1. UNCHANGED <<lane, odd>> /\ (phase' # "ready" => phase # "ready")
        BY <1>3 DEF ReceiveSchema, ReceiveResumed, transport
    <2>2. QED BY <2>1, LaneAlone DEF lane
<1>4. CASE BeginReconnect \/ Close
    <2>1. UNCHANGED <<lane, odd>> /\ (phase' # "ready" => phase # "ready")
        BY <1>4 DEF BeginReconnect, Close
    <2>2. QED BY <2>1, LaneAlone DEF lane
<1>5. CASE UNCHANGED vars
    BY <1>5, LaneAlone DEF vars, lane, transport
<1>6. ASSUME NEW retry \in BOOLEAN, TransportClosed(retry) PROVE LaneInv'
    <2>1. UNCHANGED lane
          /\ odd' = odd \cup (IF pendingResumeSession # None THEN {"earlyLoss"} ELSE {})
                        \cup (IF listenLock THEN {"busyLoss"} ELSE {})
        BY <1>6 DEF TransportClosed
    <2>2. "busyLoss" \notin odd' => ~listenLock
        BY <2>1
    <2>3. "listenerThrew" \notin odd' => "listenerThrew" \notin odd
        BY <2>1
    <2>4. QED BY <2>1, <2>2, <2>3 DEF LaneInv, lane
<1>7. CASE Deliver
    <2>1. running # <<>> /\ DOMAIN running = {1} /\ running[1] \in Handlers
          /\ running[1].frame \in Frames
        BY <1>7, RunningTypes DEF Deliver, TypeInv
    <2>2. UNCHANGED <<phase, odd>> /\ ("busyLoss" \in odd \/ phase = "ready")
        BY <1>7, <2>1 DEF Deliver, transport, LaneInv
    <2>3. CASE closed
        <3>1. /\ listenLock' = (packetQueue # <<>>)
              /\ packetQueue' = IF packetQueue = <<>> THEN <<>> ELSE Tail(packetQueue)
              /\ running' = IF packetQueue = <<>> THEN <<>>
                            ELSE <<[frame |-> Head(packetQueue), stage |-> "decode"]>>
              /\ UNCHANGED delivered
            BY <1>7, <2>3 DEF Deliver
        <3>2. QED BY <2>1, <2>2, <3>1, LaneHandOver
    <2>4. CASE ~closed /\ phase = "connecting"
        <3>1. running' = <<>> /\ UNCHANGED <<listenLock, packetQueue, delivered>>
            BY <1>7, <2>4 DEF Deliver
        <3>2. "busyLoss" \in odd' /\ DOMAIN running' = {}
            BY <2>2, <2>4, <3>1
        <3>3. QED BY <3>1, <3>2 DEF LaneInv
    <2>5. CASE ~closed /\ phase # "connecting"
        <3>1. PICK h \in Handlers :
                  h = [running[1] EXCEPT !.stage = "listen"] /\ h.frame = running[1].frame
            BY <2>1, HandlerIs
        <3>2. running' = <<h>> /\ delivered' = Append(delivered, running[1].frame)
              /\ UNCHANGED <<listenLock, packetQueue>>
            BY <1>7, <2>5, <3>1 DEF Deliver
        <3>3. DOMAIN running' = {1} /\ running'[1] = h /\ running' # <<>>
            BY <3>2, OneElement
        <3>4. running[1].frame \in ToSet(delivered')
            BY <2>1, <3>2, ToSetAppend DEF TypeInv, LaneTypes
        <3>5. listenLock'
            BY <2>1, <3>2 DEF LaneInv
        <3>6. QED BY <2>2, <3>1, <3>2, <3>3, <3>4, <3>5 DEF LaneInv
    <2>6. QED BY <2>3, <2>4, <2>5
<1>8. CASE Listened
    <2>1. running # <<>> /\ UNCHANGED <<phase, odd, delivered>>
        BY <1>8 DEF Listened, transport
    <2>2. PICK idle \in BOOLEAN : idle <=> phase = "connecting"
        OBVIOUS
    <2>3. /\ listenLock' = (packetQueue # <<>>)
          /\ packetQueue' = IF packetQueue = <<>> THEN <<>> ELSE Tail(packetQueue)
          /\ running' = IF packetQueue = <<>> \/ idle THEN <<>>
                        ELSE <<[frame |-> Head(packetQueue), stage |-> "decode"]>>
        BY <1>8, <2>2 DEF Listened, Release
    <2>4. QED BY <2>1, <2>2, <2>3, LaneHandOver
<1>9. CASE ListenerThrows
    <2>1. running # <<>> /\ running' = <<>> /\ odd' = odd \cup {"listenerThrew"}
          /\ UNCHANGED <<listenLock, packetQueue, delivered, phase>>
        BY <1>9 DEF ListenerThrows, transport
    <2>2. "busyLoss" \in odd \/ phase = "ready"
        BY <2>1 DEF LaneInv
    <2>3. DOMAIN running' = {} /\ "listenerThrew" \in odd'
        BY <2>1
    <2>4. QED BY <2>1, <2>2, <2>3 DEF LaneInv
<1>10. CASE ReceiveFrame
    <2>1. PICK f \in Frames :
              /\ inbox # <<>> /\ Head(inbox).type = "frame"
              /\ Fresh(f) => Handle(f, listenLock, packetQueue)
              /\ ~Fresh(f) => UNCHANGED <<listenLock, packetQueue, running>>
              /\ UNCHANGED <<phase, delivered, odd>>
        BY <1>10, FrameIs DEF transport
    <2>2. phase = "ready"
        BY <2>1, FramesWhenReady
    <2>3. CASE ~Fresh(f)
        BY <2>1, <2>3, LaneAlone
    <2>4. CASE Fresh(f) /\ listenLock
        <3>1. listenLock' /\ running' = running
            BY <2>1, <2>4 DEF Handle
        <3>2. QED BY <2>1, <2>2, <2>4, <3>1 DEF LaneInv
    <2>5. CASE Fresh(f) /\ ~listenLock
        <3>1. PICK h \in Handlers : h = [frame |-> f, stage |-> "decode"] /\ h.stage = "decode"
            BY HandlerIs
        <3>2. listenLock' /\ running' = <<h>>
            BY <2>1, <2>5, <3>1 DEF Handle
        <3>3. DOMAIN running' = {1} /\ running'[1] = h /\ running' # <<>>
            BY <3>2, OneElement
        <3>4. QED BY <2>1, <2>2, <3>1, <3>2, <3>3 DEF LaneInv
    <2>6. QED BY <2>3, <2>4, <2>5
<1>11. QED
    BY <1>1, <1>2, <1>3, <1>4, <1>5, <1>6, <1>7, <1>8, <1>9, <1>10 DEF Next


LEMMA CloseStep ==
    ASSUME TypeInv, HandshakeInv, LaneInv, CloseInv, [Next]_vars
    PROVE  CloseInv'
<1>1. CASE Accept \/ ReceiveFrame \/ ReceiveResumed
           \/ \E c \in Conns : ResumeRefused(c) \/ ResumeGranted(c) \/ ServerClose(c)
    <2>1. UNCHANGED <<closed, phase, intentionalClose, lateTimer, odd, dropped>>
        BY <1>1 DEF Accept, ReceiveFrame, ReceiveResumed, ResumeRefused, ResumeGranted,
                    ServerClose, transport, lane
    <2>2. QED BY <2>1 DEF CloseInv
<1>2. ASSUME NEW c \in Conns, Send(c) PROVE CloseInv'
    <2>1. UNCHANGED <<closed, phase, intentionalClose, lateTimer, dropped>>
          /\ ("busyLoss" \in odd => "busyLoss" \in odd')
        BY <1>2 DEF Send, transport, lane
    <2>2. QED BY <2>1 DEF CloseInv
<1>3. CASE ReceiveSchema
    <2>1. UNCHANGED <<closed, intentionalClose, lateTimer, odd, dropped>> /\ phase' = "ready"
        BY <1>3 DEF ReceiveSchema, lane
    <2>2. phase \in {"connecting", "ready"}
        BY <1>3 DEF ReceiveSchema, Arrives, HandshakeInv
    <2>3. QED BY <2>1, <2>2 DEF CloseInv
<1>4. ASSUME NEW retry \in BOOLEAN, TransportClosed(retry) PROVE CloseInv'
    <2>1. UNCHANGED dropped /\ ("busyLoss" \in odd => "busyLoss" \in odd')
          /\ (intentionalClose => intentionalClose')
        BY <1>4 DEF TransportClosed, ScheduleReconnect, lane
    <2>2. phase' \in {"broken", "ended", "failed", "waiting"}
          /\ (intentionalClose' /\ ~lateTimer' => phase' # "waiting")
        BY <1>4 DEF TransportClosed, ScheduleReconnect
    <2>3. QED BY <2>1, <2>2 DEF CloseInv
<1>5. CASE BeginReconnect
    <2>1. UNCHANGED <<odd, dropped>> /\ (intentionalClose => lateTimer)
        BY <1>5 DEF BeginReconnect, lane, CloseInv
    <2>2. /\ phase' \in {"failed", "waiting"} \/ ~closed'
          /\ (intentionalClose => intentionalClose' /\ lateTimer')
          /\ (intentionalClose' /\ ~intentionalClose => lateTimer')
        BY <1>5, <2>1 DEF BeginReconnect, ScheduleReconnect
    <2>3. QED BY <2>1, <2>2 DEF CloseInv
<1>6. CASE Close
    <2>1. intentionalClose' /\ phase' # "waiting"
        BY <1>6 DEF Close
    <2>2. QED BY <2>1 DEF CloseInv
<1>7. CASE Deliver
    <2>1. running # <<>> /\ UNCHANGED <<closed, phase, intentionalClose, lateTimer, odd>>
        BY <1>7 DEF Deliver, transport
    <2>2. "busyLoss" \in odd \/ phase = "ready"
        BY <2>1 DEF LaneInv
    <2>3. dropped' = dropped \/ closed \/ phase = "connecting"
        BY <1>7 DEF Deliver
    <2>4. QED BY <2>1, <2>2, <2>3 DEF CloseInv
<1>8. CASE Listened
    <2>1. running # <<>> /\ UNCHANGED <<closed, phase, intentionalClose, lateTimer, odd>>
        BY <1>8 DEF Listened, transport
    <2>2. "busyLoss" \in odd \/ phase = "ready"
        BY <2>1 DEF LaneInv
    <2>3. dropped' = dropped \/ phase = "connecting"
        BY <1>8 DEF Listened, Release
    <2>4. QED BY <2>1, <2>2, <2>3 DEF CloseInv
<1>9. CASE ListenerThrows
    <2>1. UNCHANGED <<closed, phase, intentionalClose, lateTimer, dropped>>
          /\ ("busyLoss" \in odd => "busyLoss" \in odd')
        BY <1>9 DEF ListenerThrows, transport
    <2>2. QED BY <2>1 DEF CloseInv
<1>10. CASE UNCHANGED vars
    BY <1>10 DEF CloseInv, vars, transport, lane
<1>11. QED
    BY <1>1, <1>2, <1>3, <1>4, <1>5, <1>6, <1>7, <1>8, <1>9, <1>10 DEF Next

-----------------------------------------------------------------------------
(* The frames the client holds *)

LEMMA LaneFrames ==
    ASSUME LaneTypes
    PROVE  /\ running = <<>> => InLane = ToSet(packetQueue)
           /\ running # <<>> => InLane = ToSet(packetQueue) \cup {running[1].frame}
           /\ Held \subseteq Frames
<1>1. CASE running = <<>>
    <2>1. InLane = ToSet(packetQueue)
        BY <1>1 DEF InLane
    <2>2. QED BY <1>1, <2>1, ToSetType DEF Held, LaneTypes
<1>2. CASE running # <<>>
    <2>1. DOMAIN running = {1} /\ running[1].frame \in Frames
        BY <1>2, RunningTypes
    <2>2. InLane = ToSet(packetQueue) \cup {running[1].frame}
        BY <2>1 DEF InLane
    <2>3. QED BY <1>2, <2>1, <2>2, ToSetType DEF Held, LaneTypes
<1>3. QED BY <1>1, <1>2

\* Handing the lane over moves its oldest frame, or drops it.
LEMMA HandOverFrames ==
    ASSUME LaneTypes, LaneTypes', NEW idle \in BOOLEAN,
           packetQueue' = IF packetQueue = <<>> THEN <<>> ELSE Tail(packetQueue),
           running' = IF packetQueue = <<>> \/ idle THEN <<>>
                      ELSE <<[frame |-> Head(packetQueue), stage |-> "decode"]>>
    PROVE  /\ InLane' \subseteq ToSet(packetQueue)
           /\ ToSet(packetQueue) \subseteq InLane' \cup
                 (IF packetQueue # <<>> /\ idle THEN {Head(packetQueue)} ELSE {})
<1>1. CASE packetQueue = <<>>
    <2>1. running' = <<>> /\ packetQueue' = <<>>
        BY <1>1
    <2>2. ToSet(packetQueue) = {} /\ ToSet(packetQueue') = {} /\ InLane' = {}
        BY <1>1, <2>1 DEF ToSet, InLane
    <2>3. QED BY <2>2
<1>2. CASE packetQueue # <<>>
    <2>1. packetQueue' = Tail(packetQueue)
        BY <1>2
    <2>2. ToSet(packetQueue) = ToSet(packetQueue') \cup {Head(packetQueue)}
        BY <1>2, <2>1, ToSetTail DEF LaneTypes
    <2>3. CASE idle
        <3>1. InLane' = ToSet(packetQueue')
            BY <2>3 DEF InLane
        <3>2. QED BY <1>2, <2>2, <2>3, <3>1
    <2>4. CASE ~idle
        <3>1. PICK h \in Handlers :
                  h = [frame |-> Head(packetQueue), stage |-> "decode"]
                  /\ h.frame = Head(packetQueue)
            <4>1. Head(packetQueue) \in Frames
                BY <1>2, HeadTailProperties DEF LaneTypes
            <4>2. QED BY <4>1, HandlerIs
        <3>2. running' = <<h>>
            BY <1>2, <2>4, <3>1
        <3>3. DOMAIN running' = {1} /\ running'[1] = h
            BY <3>2, OneElement
        <3>4. InLane' = ToSet(packetQueue') \cup {Head(packetQueue)}
            BY <3>1, <3>3 DEF InLane
        <3>5. QED BY <1>2, <2>2, <2>4, <3>4
    <2>5. QED BY <2>3, <2>4
<1>3. QED BY <1>1, <1>2

\* The frames of an arrived message join those that are held.
LEMMA HandleFrames ==
    ASSUME LaneTypes, LaneInv, NEW f \in Frames, Handle(f, listenLock, packetQueue),
           UNCHANGED delivered
    PROVE  Held' = Held \cup {f} /\ f \in InLane' /\ InLane \subseteq InLane'
<1>1. CASE listenLock
    <2>1. packetQueue' = Append(packetQueue, f) /\ running' = running
        BY <1>1 DEF Handle
    <2>2. ToSet(packetQueue') = ToSet(packetQueue) \cup {f}
        BY <2>1, ToSetAppend DEF LaneTypes
    <2>3. QED BY <2>1, <2>2 DEF Held, InLane
<1>2. CASE ~listenLock
    <2>1. running = <<>> /\ packetQueue' = packetQueue
        BY <1>2 DEF Handle, LaneInv
    <2>2. PICK h \in Handlers : h = [frame |-> f, stage |-> "decode"] /\ h.frame = f
        BY HandlerIs
    <2>3. running' = <<h>>
        BY <1>2, <2>2 DEF Handle
    <2>4. DOMAIN running' = {1} /\ running'[1] = h
        BY <2>3, OneElement
    <2>5. InLane' = ToSet(packetQueue) \cup {f} /\ InLane = ToSet(packetQueue)
        BY <2>1, <2>2, <2>4 DEF InLane
    <2>6. QED BY <2>5 DEF Held
<1>3. QED BY <1>1, <1>2

\* No frame is lost without a trace, and none appears but from the wire.
LEMMA FramesKept ==
    ASSUME TypeInv, TypeInv', LaneInv, [Next]_vars
    PROVE  /\ Received \subseteq Received'
           /\ ~ReceiveFrame => Held' \subseteq Held
<1>1. CASE UNCHANGED lane
    BY <1>1 DEF lane, Held, Received, InLane
<1>2. CASE Deliver
    <2>1. running # <<>> /\ DOMAIN running = {1} /\ running[1] \in Handlers
          /\ running[1].frame \in Frames
        BY <1>2, RunningTypes DEF Deliver, TypeInv
    <2>2. InLane = ToSet(packetQueue) \cup {running[1].frame}
        BY <2>1, LaneFrames DEF TypeInv
    <2>3. CASE closed
        <3>1. /\ packetQueue' = IF packetQueue = <<>> THEN <<>> ELSE Tail(packetQueue)
              /\ running' = IF packetQueue = <<>> THEN <<>>
                            ELSE <<[frame |-> Head(packetQueue), stage |-> "decode"]>>
              /\ dropped' = dropped \cup {running[1].frame}
              /\ UNCHANGED delivered
            BY <1>2, <2>3 DEF Deliver
        <3>2. InLane' = ToSet(packetQueue)
            BY <3>1, HandOverFrames DEF TypeInv
        <3>3. QED BY <2>2, <3>1, <3>2 DEF Held, Received
    <2>4. CASE ~closed /\ phase = "connecting"
        <3>1. running' = <<>> /\ UNCHANGED <<packetQueue, delivered>>
              /\ dropped' = dropped \cup {running[1].frame}
            BY <1>2, <2>4 DEF Deliver
        <3>2. InLane' = ToSet(packetQueue)
            BY <3>1 DEF InLane
        <3>3. QED BY <2>2, <3>1, <3>2 DEF Held, Received
    <2>5. CASE ~closed /\ phase # "connecting"
        <3>1. PICK h \in Handlers :
                  h = [running[1] EXCEPT !.stage = "listen"] /\ h.frame = running[1].frame
            BY <2>1, HandlerIs
        <3>2. running' = <<h>> /\ delivered' = Append(delivered, running[1].frame)
              /\ UNCHANGED <<packetQueue, dropped>>
            BY <1>2, <2>5, <3>1 DEF Deliver
        <3>3. DOMAIN running' = {1} /\ running'[1] = h
            BY <3>2, OneElement
        <3>4. InLane' = InLane
            <4>1. PICK x : x = h.frame /\ x = running[1].frame
                BY <3>1
            <4>2. InLane' = ToSet(packetQueue) \cup {x}
                BY <3>2, <3>3, <4>1 DEF InLane
            <4>3. QED BY <2>2, <4>1, <4>2
        <3>5. ToSet(delivered') = ToSet(delivered) \cup {running[1].frame}
            BY <2>1, <3>2, ToSetAppend DEF TypeInv, LaneTypes
        <3>6. QED BY <2>2, <3>2, <3>4, <3>5 DEF Held, Received
    <2>6. QED BY <1>2, <2>3, <2>4, <2>5 DEF Deliver
<1>3. CASE Listened
    <2>1. running # <<>> /\ running[1].stage = "listen" /\ UNCHANGED delivered
        BY <1>3 DEF Listened
    <2>2. DOMAIN running = {1} /\ InLane = ToSet(packetQueue) \cup {running[1].frame}
        BY <2>1, RunningTypes, LaneFrames DEF TypeInv
    <2>3. running[1].frame \in ToSet(delivered)
        BY <2>1, <2>2 DEF LaneInv
    <2>4. PICK idle \in BOOLEAN : idle <=> phase = "connecting"
        OBVIOUS
    <2>5. /\ packetQueue' = IF packetQueue = <<>> THEN <<>> ELSE Tail(packetQueue)
          /\ running' = IF packetQueue = <<>> \/ idle THEN <<>>
                        ELSE <<[frame |-> Head(packetQueue), stage |-> "decode"]>>
          /\ dropped' = dropped \cup
                (IF packetQueue # <<>> /\ idle THEN {Head(packetQueue)} ELSE {})
        BY <1>3, <2>4 DEF Listened, Release
    <2>6. /\ InLane' \subseteq ToSet(packetQueue)
          /\ ToSet(packetQueue) \subseteq InLane' \cup
                (IF packetQueue # <<>> /\ idle THEN {Head(packetQueue)} ELSE {})
        BY <2>5, HandOverFrames DEF TypeInv
    <2>7. QED BY <2>1, <2>2, <2>3, <2>5, <2>6 DEF Held, Received
<1>4. CASE ListenerThrows
    <2>1. running # <<>> /\ running[1].stage = "listen" /\ running' = <<>>
          /\ UNCHANGED <<packetQueue, delivered, dropped>>
        BY <1>4 DEF ListenerThrows
    <2>2. DOMAIN running = {1} /\ InLane = ToSet(packetQueue) \cup {running[1].frame}
        BY <2>1, RunningTypes, LaneFrames DEF TypeInv
    <2>3. running[1].frame \in ToSet(delivered)
        BY <2>1, <2>2 DEF LaneInv
    <2>4. InLane' = ToSet(packetQueue)
        BY <2>1 DEF InLane
    <2>5. QED BY <2>1, <2>2, <2>3, <2>4 DEF Held, Received
<1>5. CASE ReceiveFrame
    <2>1. PICK f \in Frames :
              /\ Fresh(f) => Handle(f, listenLock, packetQueue)
              /\ ~Fresh(f) => UNCHANGED <<listenLock, packetQueue, running>>
              /\ UNCHANGED <<delivered, dropped>>
        BY <1>5, FrameIs
    <2>2. InLane \subseteq InLane'
        BY <2>1, HandleFrames DEF TypeInv, InLane
    <2>3. QED BY <1>5, <2>1, <2>2 DEF Received
<1>6. QED
    BY <1>1, <1>2, <1>3, <1>4, <1>5
    DEF Next, Accept, Send, ResumeRefused, ResumeGranted, ServerClose, ReceiveSchema,
        ReceiveResumed, TransportClosed, BeginReconnect, Close, vars

-----------------------------------------------------------------------------
(* Connections and sessions by number *)

LEMMA AcceptIs ==
    ASSUME TypeInv, NumberInv, Accept
    PROVE  \E c \in Conns :
              /\ Accepted = 1 .. c - 1 /\ Accepted' = 1 .. c
              /\ phase = "connecting" /\ link = None
              /\ open' = open \cup {c} /\ link' = c /\ inbox' = <<Schema(c)>>
              /\ sessionOf' = [sessionOf EXCEPT ![c] = c]
              /\ session' = [session EXCEPT ![c] = [NoSession EXCEPT !.alive = TRUE]]
              /\ UNCHANGED <<resume, phase, attempt, closed, intentionalClose, lateTimer, identity,
                             lane, sent, odd>>
<1>1. PICK n \in 0 .. MaxConns : Accepted = 1 .. n
    BY DEF NumberInv
<1>2. Cardinality(Accepted) = n
    BY <1>1, FS_Interval
<1>3. PICK c \in Conns : c = n + 1 /\ c = Cardinality(Accepted) + 1
    BY <1>2 DEF Accept
<1>4. /\ phase = "connecting" /\ link = None
      /\ open' = open \cup {c} /\ link' = c /\ inbox' = <<Schema(c)>>
      /\ sessionOf' = [sessionOf EXCEPT ![c] = c]
      /\ session' = [session EXCEPT ![c] = [NoSession EXCEPT !.alive = TRUE]]
      /\ UNCHANGED <<resume, phase, attempt, closed, intentionalClose, lateTimer, identity, lane, sent, odd>>
    BY <1>3 DEF Accept
<1>5. \A d \in Conns : sessionOf'[d] = IF d = c THEN c ELSE sessionOf[d]
    BY <1>4 DEF TypeInv, ServerTypes
<1>6. Accepted' = Accepted \cup {c}
    BY <1>5 DEF Accepted
<1>7. Accepted = 1 .. c - 1 /\ Accepted' = 1 .. c
    BY <1>1, <1>3, <1>6
<1>8. QED BY <1>4, <1>7

LEMMA NumberAlone ==
    ASSUME NumberInv,
           UNCHANGED <<sessionOf, session, resume, sessionId, pendingResumeSession>>,
           open' \subseteq open, link' \in {link, None}, Held' \subseteq Held,
           inbox' = inbox \/ inbox' = <<>>
    PROVE  NumberInv'
<1>1. Accepted' = Accepted
    BY DEF Accepted
<1>2. DOMAIN inbox' = {} \/ inbox' = inbox
    OBVIOUS
<1>3. \A i \in DOMAIN inbox' : IsData(i)' => inbox'[i].frame.session \in Accepted
    BY <1>2 DEF NumberInv, IsData
<1>4. QED BY <1>1, <1>3 DEF NumberInv

LEMMA AcceptNumbers ==
    ASSUME TypeInv, TypeInv', NumberInv, LaneInv, Accept
    PROVE  NumberInv'
<1>1. PICK c \in Conns :
          /\ Accepted = 1 .. c - 1 /\ Accepted' = 1 .. c
          /\ open' = open \cup {c} /\ link' = c /\ inbox' = <<Schema(c)>>
          /\ sessionOf' = [sessionOf EXCEPT ![c] = c]
          /\ session' = [session EXCEPT ![c] = [NoSession EXCEPT !.alive = TRUE]]
          /\ UNCHANGED <<resume, identity, lane>>
    BY AcceptIs
<1>2. c \in Conns \ Accepted /\ Accepted \subseteq Accepted' /\ c \in 0 .. MaxConns
    BY <1>1
<1>3. /\ \A d \in Conns \ {c} : sessionOf'[d] = sessionOf[d] /\ session'[d] = session[d]
      /\ sessionOf'[c] = c
    BY <1>1 DEF TypeInv, ServerTypes
<1>4. \A d \in Conns \ Accepted' : ~session'[d].alive /\ resume'[d] = <<>> /\ d \notin open'
    BY <1>1, <1>2, <1>3 DEF NumberInv
<1>5. \A d \in Accepted' : sessionOf'[d] \in Accepted' /\ sessionOf'[d] <= d
    BY <1>1, <1>2, <1>3 DEF NumberInv
<1>6. \A d \in Conns : resume'[d] # <<>> =>
          sessionOf'[d] = d /\ resume'[d][1].session \in Accepted' /\ resume'[d][1].session < d
    BY <1>1, <1>2, <1>3 DEF NumberInv
<1>7. link' \in Accepted' /\ \A d \in Accepted' : d <= link'
    BY <1>1
<1>8. {sessionId', pendingResumeSession'} \subseteq Accepted' \cup {None}
    BY <1>1, <1>2 DEF NumberInv, identity
<1>9. \A f \in Held' : f.session \in Accepted'
    BY <1>1, <1>2 DEF NumberInv, Held, InLane, lane
<1>10. \A i \in DOMAIN inbox' : ~IsData(i)'
    <2>1. Schema(c) \in Messages /\ Schema(c).type = "schema"
        BY MessageKinds
    <2>2. DOMAIN inbox' = {1} /\ inbox'[1] = Schema(c)
        BY <1>1, <2>1, OneElement
    <2>3. QED BY <2>1, <2>2 DEF IsData
<1>11. QED BY <1>1, <1>2, <1>4, <1>5, <1>6, <1>7, <1>8, <1>9, <1>10 DEF NumberInv

\* What is in the inbox after a push was there before or was pushed.
LEMMA PushedOrThere ==
    ASSUME inbox \in Seq(Messages), NEW msgs \in Seq(Messages), NEW c, Push(c, msgs),
           NEW i \in DOMAIN inbox'
    PROVE  \/ i \in DOMAIN inbox /\ inbox'[i] = inbox[i]
           \/ /\ link = c /\ c \in open /\ i - Len(inbox) \in DOMAIN msgs
              /\ inbox'[i] = msgs[i - Len(inbox)] /\ i \notin DOMAIN inbox
<1>1. PICK a \in Nat, b \in Nat : a = Len(inbox) /\ b = Len(msgs)
    OBVIOUS
<1>2. DOMAIN inbox = 1 .. a /\ DOMAIN msgs = 1 .. b
    BY <1>1
<1>3. CASE ~(link = c /\ c \in open)
    BY <1>3, PushIs
<1>4. CASE link = c /\ c \in open
    <2>1. /\ inbox' \in Seq(Messages) /\ Len(inbox') = a + b
          /\ \A j \in 1 .. a : inbox'[j] = inbox[j]
          /\ \A j \in 1 .. b : inbox'[a + j] = msgs[j]
        BY <1>1, <1>4, PushIs
    <2>2. i \in 1 .. a + b
        BY <2>1
    <2>3. CASE i <= a
        BY <1>2, <2>1, <2>2, <2>3
    <2>4. CASE i > a
        <3>1. PICK j \in 1 .. b : j = i - a /\ a + j = i
            BY SMTT(20), <2>2, <2>4
        <3>2. QED BY <1>1, <1>2, <1>4, <2>1, <2>4, <3>1
    <2>5. QED BY <2>2, <2>3, <2>4
<1>5. QED BY <1>3, <1>4

LEMMA PushOne ==
    ASSUME inbox \in Seq(Messages), NEW m \in Messages, NEW c, Push(c, <<m>>)
    PROVE  /\ \A i \in DOMAIN inbox' : \/ i \in DOMAIN inbox /\ inbox'[i] = inbox[i]
                                     \/ /\ link = c /\ c \in open /\ inbox'[i] = m
                                        /\ i = Len(inbox) + 1
           /\ \A i \in DOMAIN inbox : i \in DOMAIN inbox' /\ inbox'[i] = inbox[i]
           /\ link = c /\ c \in open =>
                 Len(inbox) + 1 \in DOMAIN inbox' /\ inbox'[Len(inbox) + 1] = m
<1>1. PICK msgs \in Seq(Messages) :
          msgs = <<m>> /\ Len(msgs) = 1 /\ DOMAIN msgs = {1} /\ msgs[1] = m
    <2>1. <<m>> \in Seq(Messages) /\ Len(<<m>>) = 1 /\ DOMAIN <<m>> = {1} /\ <<m>>[1] = m
        BY OneElement
    <2>2. QED BY <2>1
<1>2. PICK a \in Nat : a = Len(inbox) /\ DOMAIN inbox = 1 .. a
    OBVIOUS
<1>3. CASE ~(link = c /\ c \in open)
    BY <1>1, <1>3, PushIs
<1>4. CASE link = c /\ c \in open
    <2>1. /\ inbox' \in Seq(Messages) /\ Len(inbox') = a + 1
          /\ \A j \in 1 .. a : inbox'[j] = inbox[j]
          /\ \A j \in 1 .. 1 : inbox'[a + j] = msgs[j]
        BY <1>1, <1>2, <1>4, PushIs
    <2>2. DOMAIN inbox' = 1 .. a + 1 /\ inbox'[a + 1] = m
        BY <1>1, <2>1
    <2>3. QED BY <1>2, <1>4, <2>1, <2>2
<1>5. QED BY <1>3, <1>4

LEMMA SendNumbers ==
    ASSUME TypeInv, TypeInv', NumberInv, NEW c \in Conns, Send(c)
    PROVE  NumberInv'
<1>1. PICK s \in Conns, f \in Frames :
          /\ s = sessionOf[c] /\ c \in Accepted
          /\ f.session = s
          /\ Push(c, <<Data(f)>>)
          /\ session[s].alive =>
                session' = [session EXCEPT ![s].sequence = f.sequence,
                                           ![s].frames = Keep(Append(@, f))]
          /\ ~session[s].alive => session' = session
          /\ UNCHANGED <<open, sessionOf, resume, transport, identity, lane>>
    BY SendIs
<1>2. Accepted' = Accepted /\ s \in Accepted
    BY <1>1 DEF Accepted, NumberInv
<1>3. \A t \in Conns : t # s => session'[t] = session[t]
    BY <1>1, RecordIs
<1>4. \A d \in Conns \ Accepted : ~session'[d].alive
    BY <1>2, <1>3 DEF NumberInv
<1>5. Held' = Held
    BY <1>1 DEF Held, InLane, lane
<1>6. ASSUME NEW i \in DOMAIN inbox', IsData(i)'
      PROVE  inbox'[i].frame.session \in Accepted
    <2>1. Data(f) \in Messages
        BY MessageKinds
    <2>2. \/ i \in DOMAIN inbox /\ inbox'[i] = inbox[i]
          \/ inbox'[i] = Data(f)
        BY <1>1, <2>1, PushOne DEF TypeInv, ClientTypes
    <2>3. Data(f).frame = f
        BY MessageKinds
    <2>4. QED BY <1>1, <1>2, <1>6, <2>2, <2>3 DEF NumberInv, IsData
<1>7. QED BY <1>1, <1>2, <1>4, <1>5, <1>6 DEF NumberInv, transport, identity

LEMMA RefusedNumbers ==
    ASSUME TypeInv, TypeInv', NumberInv, NEW c \in Conns, ResumeRefused(c)
    PROVE  NumberInv'
<1>1. /\ resume' = [resume EXCEPT ![c] = <<>>] /\ Push(c, <<Resumed(FALSE, 0)>>)
      /\ UNCHANGED <<open, sessionOf, session, transport, identity, lane, sent, odd>>
    BY DEF ResumeRefused
<1>2. Accepted' = Accepted /\ Held' = Held
    BY <1>1 DEF Accepted, Held, InLane, lane
<1>3. \A d \in Conns : resume'[d] = <<>> \/ resume'[d] = resume[d]
    BY <1>1 DEF TypeInv, ServerTypes
<1>4. ASSUME NEW i \in DOMAIN inbox', IsData(i)'
      PROVE  inbox'[i].frame.session \in Accepted
    <2>1. Resumed(FALSE, 0) \in Messages /\ Resumed(FALSE, 0).type = "resumed"
        BY DEF Resumed, Messages
    <2>2. i \in DOMAIN inbox /\ inbox'[i] = inbox[i]
        BY <1>1, <1>4, <2>1, PushOne DEF TypeInv, ClientTypes, IsData
    <2>3. QED BY <1>4, <2>2 DEF NumberInv, IsData
<1>5. QED BY <1>1, <1>2, <1>3, <1>4 DEF NumberInv, transport, identity

LEMMA GrantedNumbers ==
    ASSUME TypeInv, TypeInv', NumberInv, BufferInv, NEW c \in Conns, ResumeGranted(c)
    PROVE  NumberInv'
<1>1. PICK s \in Conns, replay \in Seq(Messages) :
          /\ resume[c] # <<>>
          /\ c \in Accepted /\ s \in Accepted /\ s < c /\ session[s].alive
          /\ session' = [session EXCEPT ![c] = NoSession]
          /\ sessionOf' = [sessionOf EXCEPT ![c] = s]
          /\ resume' = [resume EXCEPT ![c] = <<>>]
          /\ Push(c, replay)
          /\ replay # <<>> /\ replay[Len(replay)].type = "resumed"
          /\ \A i \in 1 .. Len(replay) - 1 :
                replay[i].type = "frame" /\ replay[i].frame \in ToSet(session[s].frames)
          /\ UNCHANGED <<open, transport, identity, lane, sent, odd>>
    BY GrantedIs
<1>2. \A d \in Conns : sessionOf'[d] = IF d = c THEN s ELSE sessionOf[d]
    BY <1>1 DEF TypeInv, ServerTypes
<1>3. Accepted' = Accepted /\ Held' = Held
    BY <1>1, <1>2 DEF Accepted, Held, InLane, lane
<1>4. \A d \in Conns : resume'[d] # <<>> => d # c /\ resume'[d] = resume[d]
    BY <1>1 DEF TypeInv, ServerTypes
<1>5. \A d \in Conns : d # c => session'[d] = session[d]
    BY <1>1 DEF TypeInv, ServerTypes
<1>6. ASSUME NEW i \in DOMAIN inbox', IsData(i)'
      PROVE  inbox'[i].frame.session \in Accepted
    <2>1. CASE i \in DOMAIN inbox /\ inbox'[i] = inbox[i]
        BY <1>6, <2>1 DEF NumberInv, IsData
    <2>2. CASE i - Len(inbox) \in DOMAIN replay /\ inbox'[i] = replay[i - Len(inbox)]
        <3>1. PICK n \in Nat \ {0} : n = Len(replay) /\ DOMAIN replay = 1 .. n
            BY <1>1, EmptySeq
        <3>2. PICK j \in 1 .. n : inbox'[i] = replay[j]
            BY <2>2, <3>1
        <3>3. j # n
            BY <1>1, <1>6, <3>1, <3>2 DEF IsData
        <3>4. j \in 1 .. n - 1
            BY <3>3
        <3>5. replay[j].frame \in ToSet(session[s].frames)
            BY <1>1, <3>1, <3>4
        <3>6. \A f \in ToSet(session[s].frames) : f.session = s
            BY <1>1 DEF BufferInv, ToSet
        <3>7. QED BY <1>1, <3>2, <3>5, <3>6
    <2>3. QED BY <1>1, <2>1, <2>2, PushedOrThere DEF TypeInv, ClientTypes
<1>7. \A d \in Accepted' : sessionOf'[d] \in Accepted' /\ sessionOf'[d] <= d
    BY <1>1, <1>2, <1>3 DEF NumberInv, Accepted
<1>8. \A d \in Conns \ Accepted' : ~session'[d].alive /\ resume'[d] = <<>> /\ d \notin open'
    BY <1>1, <1>3, <1>4, <1>5 DEF NumberInv
<1>9. \A d \in Conns : resume'[d] # <<>> =>
          sessionOf'[d] = d /\ resume'[d][1].session \in Accepted' /\ resume'[d][1].session < d
    BY <1>2, <1>3, <1>4 DEF NumberInv
<1>10. QED BY <1>1, <1>3, <1>6, <1>7, <1>8, <1>9 DEF NumberInv, transport, identity

LEMMA SchemaIs ==
    ASSUME TypeInv, NumberInv, HandshakeInv, ReceiveSchema
    PROVE  /\ phase = "connecting" /\ link \in Conns /\ link \in Accepted
           /\ inbox # <<>> /\ inbox' = Tail(inbox)
           /\ sessionId' = link /\ phase' = "ready" /\ sessionId # link
           /\ sessionId # None =>
                 /\ pendingResumeSession' = sessionId /\ sessionId < link
                 /\ IF link \in open /\ ~closed
                    THEN \E q \in Seq(Requests) :
                            /\ q # <<>> /\ q[1].session = sessionId
                            /\ q[1].last = lastReplaySequence
                            /\ resume' = [resume EXCEPT ![link] = q]
                    ELSE resume' = resume
           /\ sessionId = None => pendingResumeSession' = None /\ resume' = resume
           /\ UNCHANGED <<open, sessionOf, session, link, closed, intentionalClose, lateTimer,
                          lastReplaySequence, lane, sent, odd>>
<1>1. inbox # <<>> /\ inbox' = Tail(inbox) /\ Head(inbox).type = "schema"
    BY DEF ReceiveSchema, Arrives
<1>2. inbox[1] = Head(inbox) /\ Head(inbox) \in Messages /\ 1 \in DOMAIN inbox
    <2>1. Len(inbox) \in Nat \ {0} /\ inbox[1] = Head(inbox) /\ Head(inbox) \in Messages
        BY <1>1, InboxTail DEF TypeInv, ClientTypes
    <2>2. QED BY <2>1 DEF TypeInv, ClientTypes
<1>3. link # None /\ phase = "connecting"
    BY <1>1, <1>2 DEF HandshakeInv
<1>4. link \in Conns /\ link \in Accepted /\ sessionId # link
    BY <1>3 DEF HandshakeInv, NumberInv, TypeInv, ClientTypes
<1>5. Head(inbox).session = link
    BY <1>2, <1>3, <1>4, MessageKinds DEF HandshakeInv
<1>6. /\ sessionId' = link /\ phase' = "ready"
      /\ IF sessionId \notin {None, link}
         THEN /\ pendingResumeSession' = sessionId
              /\ resume' = IF link \in open /\ ~closed
                           THEN [resume EXCEPT ![link] =
                                   <<[session |-> sessionId, last |-> lastReplaySequence]>>]
                           ELSE resume
         ELSE UNCHANGED <<pendingResumeSession, resume>>
      /\ UNCHANGED <<open, sessionOf, session, link, closed, intentionalClose, lateTimer,
                     lastReplaySequence, lane, sent, odd>>
    BY <1>5 DEF ReceiveSchema
<1>7. sessionId = None => pendingResumeSession' = None /\ resume' = resume
    BY <1>6 DEF HandshakeInv
<1>8. ASSUME sessionId # None
      PROVE  /\ pendingResumeSession' = sessionId /\ sessionId < link
             /\ IF link \in open /\ ~closed
                THEN \E q \in Seq(Requests) :
                        /\ q # <<>> /\ q[1].session = sessionId
                        /\ q[1].last = lastReplaySequence
                        /\ resume' = [resume EXCEPT ![link] = q]
                ELSE resume' = resume
    <2>1. pendingResumeSession' = sessionId
        BY <1>4, <1>6, <1>8
    <2>2. sessionId < link
        <3>1. sessionId \in Accepted /\ sessionId \in Conns
            BY <1>8 DEF NumberInv, TypeInv, ClientTypes
        <3>2. sessionId <= link
            BY <1>3, <3>1 DEF NumberInv
        <3>3. QED BY <1>4, <3>1, <3>2
    <2>3. CASE link \in open /\ ~closed
        <3>1. PICK r \in Requests : r.session = sessionId /\ r.last = lastReplaySequence
                  /\ r = [session |-> sessionId, last |-> lastReplaySequence]
            <4>1. [session |-> sessionId, last |-> lastReplaySequence] \in Requests
                BY <1>8 DEF TypeInv, ClientTypes, Requests
            <4>2. QED BY <4>1
        <3>2. resume' = [resume EXCEPT ![link] = <<r>>]
            BY <1>4, <1>6, <1>8, <2>3, <3>1
        <3>3. <<r>> \in Seq(Requests) /\ <<r>> # <<>> /\ <<r>>[1] = r
            BY OneElement
        <3>4. QED BY <2>1, <2>2, <2>3, <3>1, <3>2, <3>3
    <2>4. CASE ~(link \in open /\ ~closed)
        BY <1>4, <1>6, <1>8, <2>1, <2>2, <2>4
    <2>5. QED BY <2>3, <2>4
<1>9. QED BY <1>1, <1>3, <1>4, <1>6, <1>7, <1>8

\* What is left of the inbox was there.
LEMMA StillThere ==
    ASSUME TypeInv, inbox # <<>>, inbox' = Tail(inbox)
    PROVE  /\ \A i \in DOMAIN inbox' : i + 1 \in DOMAIN inbox /\ inbox'[i] = inbox[i + 1]
           /\ \A i \in DOMAIN inbox :
                 i = 1 \/ (i - 1 \in DOMAIN inbox' /\ inbox'[i - 1] = inbox[i])
           /\ DOMAIN inbox \subseteq Nat /\ 1 \in DOMAIN inbox
           /\ inbox[1] = Head(inbox)
<1>1. inbox' \in Seq(Messages) /\ Len(inbox) \in Nat \ {0} /\ Len(inbox') = Len(inbox) - 1
      /\ \A i \in 1 .. Len(inbox) - 1 : inbox'[i] = inbox[i + 1] /\ i + 1 \in DOMAIN inbox
      /\ inbox[1] = Head(inbox)
    BY InboxTail DEF TypeInv, ClientTypes
<1>2. PICK n \in Nat : n = Len(inbox) /\ DOMAIN inbox = 1 .. n
    BY DEF TypeInv, ClientTypes
<1>3. DOMAIN inbox' = 1 .. n - 1 /\ \A i \in 1 .. n - 1 : inbox'[i] = inbox[i + 1]
    BY <1>1, <1>2
<1>4. ASSUME NEW i \in DOMAIN inbox, i # 1
      PROVE  i - 1 \in DOMAIN inbox' /\ inbox'[i - 1] = inbox[i]
    <2>1. PICK j \in 1 .. n - 1 : j = i - 1 /\ j + 1 = i
        BY <1>2, <1>4
    <2>2. QED BY <1>3, <2>1
<1>5. QED BY <1>1, <1>2, <1>3, <1>4

LEMMA NumberStep ==
    ASSUME TypeInv, TypeInv', NumberInv, HandshakeInv, BufferInv, LaneInv, [Next]_vars
    PROVE  NumberInv'
<1>1. CASE Accept
    BY <1>1, AcceptNumbers
<1>2. ASSUME NEW c \in Conns, Send(c) PROVE NumberInv'
    BY <1>2, SendNumbers
<1>3. ASSUME NEW c \in Conns, ResumeRefused(c) PROVE NumberInv'
    BY <1>3, RefusedNumbers
<1>4. ASSUME NEW c \in Conns, ResumeGranted(c) PROVE NumberInv'
    BY <1>4, GrantedNumbers
<1>5. CASE \/ \E c \in Conns : ServerClose(c)
           \/ \E retry \in BOOLEAN : TransportClosed(retry)
           \/ Deliver \/ Listened \/ ListenerThrows \/ BeginReconnect \/ Close \/ UNCHANGED vars
    <2>1. /\ UNCHANGED <<sessionOf, session, resume, sessionId, pendingResumeSession>>
          /\ open' \subseteq open /\ link' \in {link, None}
          /\ inbox' = inbox \/ inbox' = <<>>
        BY <1>5 DEF ServerClose, TransportClosed, Deliver, Listened, ListenerThrows,
                    BeginReconnect, Close, vars, server, transport, identity
    <2>2. CASE \/ \E c \in Conns : ServerClose(c)
               \/ \E retry \in BOOLEAN : TransportClosed(retry)
               \/ BeginReconnect \/ Close \/ UNCHANGED vars
        <3>1. UNCHANGED lane
            BY <2>2 DEF ServerClose, TransportClosed, BeginReconnect, Close, vars
        <3>2. Held' = Held
            BY <3>1 DEF Held, InLane, lane
        <3>3. QED BY <2>1, <3>2, NumberAlone
    <2>3. CASE Deliver \/ Listened \/ ListenerThrows
        <3>1. Held' \subseteq Held
            <4>1. CASE UNCHANGED lane
                BY <4>1 DEF Held, InLane, lane
            <4>2. CASE ~UNCHANGED lane
                <5>1. ~ReceiveFrame \/ inbox' = inbox
                    BY <2>3 DEF Deliver, Listened, ListenerThrows
                <5>2. ReceiveFrame => inbox' # inbox
                    <6>1. SUFFICES ASSUME ReceiveFrame PROVE inbox' # inbox
                        OBVIOUS
                    <6>2. inbox # <<>> /\ inbox' = Tail(inbox)
                        BY <6>1 DEF ReceiveFrame, Arrives
                    <6>3. Len(inbox') = Len(inbox) - 1 /\ Len(inbox) \in Nat
                        BY <6>2, InboxTail DEF TypeInv, ClientTypes
                    <6>4. QED BY <6>3
                <5>3. QED BY <5>1, <5>2, FramesKept
            <4>3. QED BY <4>1, <4>2
        <3>2. QED BY <2>1, <3>1, NumberAlone
    <2>4. QED BY <1>5, <2>2, <2>3
<1>6. CASE ReceiveSchema
    <2>1. /\ link \in Conns /\ link \in Accepted /\ inbox # <<>> /\ inbox' = Tail(inbox)
          /\ sessionId' = link
          /\ sessionId # None =>
                /\ pendingResumeSession' = sessionId /\ sessionId < link
                /\ IF link \in open /\ ~closed
                   THEN \E q \in Seq(Requests) :
                           /\ q # <<>> /\ q[1].session = sessionId
                           /\ resume' = [resume EXCEPT ![link] = q]
                   ELSE resume' = resume
          /\ sessionId = None => pendingResumeSession' = None /\ resume' = resume
          /\ UNCHANGED <<open, sessionOf, session, link, lane>>
          /\ phase = "connecting"
        BY <1>6, SchemaIs
    <2>2. Accepted' = Accepted /\ Held' = Held
        BY <2>1 DEF Accepted, Held, InLane, lane
    <2>3. \A i \in DOMAIN inbox' : IsData(i)' => inbox'[i].frame.session \in Accepted
        BY <2>1, StillThere DEF NumberInv, IsData
    <2>4. \A d \in Conns : resume'[d] = resume[d] \/
              (d = link /\ sessionId # None /\ resume'[d][1].session = sessionId)
        BY <2>1 DEF TypeInv, ServerTypes
    <2>5. sessionOf[link] = link /\ link # None
        BY <2>1 DEF HandshakeInv
    <2>6. sessionId \in Accepted \cup {None} /\ pendingResumeSession' \in Accepted \cup {None}
        BY <2>1 DEF NumberInv
    <2>7. \A d \in Conns : resume'[d] # <<>> =>
              sessionOf[d] = d /\ resume'[d][1].session \in Accepted /\ resume'[d][1].session < d
        BY <2>1, <2>4, <2>5, <2>6 DEF NumberInv
    <2>8. \A d \in Conns \ Accepted : resume'[d] = <<>>
        BY <2>1, <2>4 DEF NumberInv
    <2>9. QED BY <2>1, <2>2, <2>3, <2>6, <2>7, <2>8 DEF NumberInv
<1>7. CASE ReceiveFrame
    <2>1. PICK f \in Frames :
              /\ inbox # <<>> /\ inbox[1] = Head(inbox) /\ Head(inbox).type = "frame"
              /\ f = Head(inbox).frame /\ inbox' = Tail(inbox)
              /\ Fresh(f) => Handle(f, listenLock, packetQueue)
              /\ ~Fresh(f) => UNCHANGED <<listenLock, packetQueue, running>>
              /\ UNCHANGED <<server, transport, sessionId, pendingResumeSession, delivered>>
        BY <1>7, FrameIs
    <2>2. Accepted' = Accepted
        BY <2>1 DEF Accepted, server
    <2>3. \A i \in DOMAIN inbox' : IsData(i)' => inbox'[i].frame.session \in Accepted
        BY <2>1, StillThere DEF NumberInv, IsData
    <2>4. f.session \in Accepted
        BY <2>1, StillThere DEF NumberInv, IsData
    <2>5. Held' \subseteq Held \cup {f}
        <3>1. CASE Fresh(f)
            BY <2>1, <3>1, HandleFrames DEF TypeInv
        <3>2. CASE ~Fresh(f)
            BY <2>1, <3>2 DEF Held, InLane
        <3>3. QED BY <3>1, <3>2
    <2>6. \A g \in Held' : g.session \in Accepted
        BY <2>4, <2>5 DEF NumberInv
    <2>7. QED BY <2>1, <2>2, <2>3, <2>6 DEF NumberInv, server, transport
<1>8. CASE ReceiveResumed
    <2>1. /\ inbox # <<>> /\ inbox' = Tail(inbox) /\ UNCHANGED <<server, transport, lane>>
          /\ sessionId' \in {sessionId, pendingResumeSession}
          /\ pendingResumeSession' = None
        BY <1>8 DEF ReceiveResumed, Arrives
    <2>2. Accepted' = Accepted /\ Held' = Held
        BY <2>1 DEF Accepted, Held, InLane, lane, server
    <2>3. \A i \in DOMAIN inbox' : IsData(i)' => inbox'[i].frame.session \in Accepted
        BY <2>1, StillThere DEF NumberInv, IsData
    <2>4. QED BY <2>1, <2>2, <2>3 DEF NumberInv, server, transport
<1>9. QED
    BY <1>1, <1>2, <1>3, <1>4, <1>5, <1>6, <1>7, <1>8 DEF Next

-----------------------------------------------------------------------------
(* The buffers *)

\* A recorded frame follows the newest one, and the oldest may leave.
LEMMA RecordInOrder ==
    ASSUME TypeInv, BufferInv, NEW s \in Conns, NEW f \in Frames, session[s].alive,
           f.session = s, f.sequence = session[s].sequence + 1,
           session' = [session EXCEPT ![s].sequence = f.sequence,
                                      ![s].frames = Keep(Append(@, f))]
    PROVE  BufferInv'
<1>1. /\ session' \in [Conns -> Sessions]
      /\ \A t \in Conns : t # s => session'[t] = session[t]
      /\ session'[s].alive /\ session'[s].sequence = f.sequence
      /\ session'[s].frames = Keep(Append(session[s].frames, f))
    BY ZenonT(40), RecordIs
<1>2. PICK frames \in Seq(Frames), q \in Nat :
          frames = session[s].frames /\ q = session[s].sequence
    BY DEF TypeInv, ServerTypes, Sessions
<1>3. PICK n \in Nat : n = Len(frames) /\ n <= MaxPackets /\ n <= q /\ DOMAIN frames = 1 .. n
    <2>1. Len(frames) <= MaxPackets /\ Len(frames) <= q
        BY <1>2 DEF TypeInv, ServerTypes, BufferInv
    <2>2. Len(frames) \in Nat /\ DOMAIN frames = 1 .. Len(frames)
        OBVIOUS
    <2>3. QED BY <2>1, <2>2
<1>4. \A i \in 1 .. n : frames[i].session = s /\ frames[i].sequence = q - n + i
    BY SMTT(20), <1>2, <1>3 DEF BufferInv
<1>5. PICK kept \in Seq(Frames) : kept = Keep(Append(frames, f))
    BY <1>2, <1>3, KeepIs
<1>6. PICK d \in 0 .. 1 :
          /\ d <= n + 1 /\ Len(kept) = n + 1 - d
          /\ \A i \in 1 .. n + 1 - d : kept[i] = IF i = n + 1 - d THEN f ELSE frames[i + d]
    <2>1. Len(frames) <= MaxPackets
        BY <1>3
    <2>2. PICK d \in {0, 1} :
              /\ d <= Len(frames) + 1
              /\ Len(Keep(Append(frames, f))) = Len(frames) + 1 - d
              /\ \A i \in 1 .. Len(frames) + 1 - d :
                    Keep(Append(frames, f))[i] =
                        IF i = Len(frames) + 1 - d THEN f ELSE frames[i + d]
        BY <2>1, KeepIs
    <2>3. d \in 0 .. 1
        OBVIOUS
    <2>4. /\ d <= n + 1 /\ Len(kept) = n + 1 - d
          /\ \A i \in 1 .. n + 1 - d : kept[i] = IF i = n + 1 - d THEN f ELSE frames[i + d]
        BY <1>3, <1>5, <2>2
    <2>5. QED BY <2>3, <2>4
<1>7. DOMAIN kept = 1 .. n + 1 - d
    BY <1>6
<1>8. ASSUME NEW i \in 1 .. n + 1 - d
      PROVE  kept[i].session = s /\ kept[i].sequence = (q + 1) - (n + 1 - d) + i
    <2>1. CASE i = n + 1 - d
        BY <1>2, <1>3, <1>6, <2>1
    <2>2. CASE i # n + 1 - d
        <3>1. PICK j \in 1 .. n : j = i + d
            BY <1>3, <1>6, <2>2
        <3>2. kept[i] = frames[j] /\ frames[j].session = s /\ frames[j].sequence = q - n + j
            BY <1>4, <1>6, <2>2, <3>1
        <3>3. q - n + j = (q + 1) - (n + 1 - d) + i
            <4>1. \A a, b, e, g \in Int : b - a + (g + e) = (b + 1) - (a + 1 - e) + g
                BY SMTT(20)
            <4>2. d \in Int /\ i \in Int
                OBVIOUS
            <4>3. QED BY SMTT(20), <3>1, <4>1, <4>2
        <3>4. QED BY <3>2, <3>3
    <2>3. QED BY <2>1, <2>2
<1>9. session'[s].frames = kept /\ session'[s].sequence = q + 1
    BY <1>1, <1>2, <1>5
<1>10. n + 1 - d <= q + 1
    BY <1>3, <1>6
<1>11. /\ Len(session'[s].frames) <= session'[s].sequence
       /\ \A i \in DOMAIN session'[s].frames :
             /\ session'[s].frames[i].session = s
             /\ session'[s].frames[i].sequence =
                   session'[s].sequence - Len(session'[s].frames) + i
    BY <1>6, <1>7, <1>8, <1>9, <1>10
<1>12. QED BY SMTT(20), <1>1, <1>11 DEF BufferInv

LEMMA BufferStep ==
    ASSUME TypeInv, NumberInv, BufferInv, [Next]_vars
    PROVE  BufferInv'
<1>1. CASE Accept
    <2>1. PICK c \in Conns : session' = [session EXCEPT ![c] = [NoSession EXCEPT !.alive = TRUE]]
        BY <1>1, AcceptIs
    <2>2. \A t \in Conns : t # c => session'[t] = session[t]
        BY <2>1 DEF TypeInv, ServerTypes
    <2>3. session'[c].sequence = 0 /\ session'[c].frames = <<>>
        BY <2>1 DEF TypeInv, ServerTypes, NoSession
    <2>4. QED BY <2>2, <2>3 DEF BufferInv
<1>2. ASSUME NEW c \in Conns, Send(c) PROVE BufferInv'
    <2>1. PICK s \in Conns, f \in Frames :
              /\ f.session = s
              /\ f.sequence = IF session[s].alive THEN session[s].sequence + 1 ELSE 0
              /\ session[s].alive =>
                    session' = [session EXCEPT ![s].sequence = f.sequence,
                                               ![s].frames = Keep(Append(@, f))]
              /\ ~session[s].alive => session' = session
        BY <1>2, SendIs
    <2>2. CASE session[s].alive
        BY <2>1, <2>2, RecordInOrder
    <2>3. CASE ~session[s].alive
        BY <2>1, <2>3 DEF BufferInv
    <2>4. QED BY <2>2, <2>3
<1>3. ASSUME NEW c \in Conns, ResumeGranted(c) PROVE BufferInv'
    <2>1. session' = [session EXCEPT ![c] = NoSession] /\ c \in Conns
        <3>1. sessionOf[c] = c
            BY <1>3 DEF ResumeGranted, NumberInv
        <3>2. QED BY <1>3, <3>1 DEF ResumeGranted
    <2>2. \A t \in Conns : session'[t] = session[t] \/ ~session'[t].alive
        BY <2>1 DEF TypeInv, ServerTypes, NoSession
    <2>3. QED BY <2>2, SMTT(60) DEF BufferInv
<1>4. ASSUME UNCHANGED session PROVE BufferInv'
    BY <1>4 DEF BufferInv
<1>5. QED
    BY <1>1, <1>2, <1>3, <1>4
    DEF Next, ResumeRefused, ServerClose, Deliver, Listened, ListenerThrows, ReceiveSchema,
        ReceiveFrame, ReceiveResumed, TransportClosed, BeginReconnect, Close, vars, server

-----------------------------------------------------------------------------
(* The handshake and the resumption *)

\* Steps that leave the server's side of the client's transport alone.
LEMMA HandshakeAlone ==
    ASSUME HandshakeInv, UNCHANGED <<inbox, link, phase, identity>>,
           link # None => sessionOf'[link] = sessionOf[link] /\ resume'[link] = resume[link],
           sessionId # None \/ UNCHANGED <<delivered, packetQueue, running>>
    PROVE  HandshakeInv'
<1>1. CASE link = None
    BY <1>1 DEF HandshakeInv, identity
<1>2. CASE link # None
    BY <1>2 DEF HandshakeInv, identity, IsData, IsResumed
<1>3. QED BY <1>1, <1>2

LEMMA AcceptHandshake ==
    ASSUME TypeInv, NumberInv, HandshakeInv, Accept
    PROVE  HandshakeInv'
<1>1. PICK c \in Conns :
          /\ Accepted = 1 .. c - 1
          /\ phase = "connecting"
          /\ link' = c /\ inbox' = <<Schema(c)>>
          /\ sessionOf' = [sessionOf EXCEPT ![c] = c]
          /\ UNCHANGED <<resume, phase, identity, lane>>
    BY AcceptIs
<1>2. c \notin Accepted /\ c # None
    BY <1>1
<1>3. sessionOf'[c] = c /\ resume'[c] = <<>> /\ sessionId' # c
    BY <1>1, <1>2 DEF TypeInv, ServerTypes, NumberInv, identity
<1>4. inbox' # <<>> /\ inbox'[1] = Schema(link') /\ DOMAIN inbox' = {1}
    BY <1>1, MessageKinds, OneElement
<1>5. \A i \in DOMAIN inbox' : ~(i > 1)
    BY <1>4
<1>6. phase' = "connecting" /\ phase' # "ready" /\ link' # None
    BY <1>1, <1>2
<1>7. UNCHANGED <<sessionId, pendingResumeSession, lastReplaySequence, delivered, packetQueue,
                  running>>
    BY <1>1 DEF identity, lane
<1>8. QED BY <1>1, <1>3, <1>4, <1>5, <1>6, <1>7 DEF HandshakeInv

LEMMA SendHandshake ==
    ASSUME TypeInv, NumberInv, HandshakeInv, NEW c \in Conns, Send(c)
    PROVE  HandshakeInv'
<1>1. PICK f \in Frames :
          /\ Push(c, <<Data(f)>>)
          /\ UNCHANGED <<sessionOf, resume, transport, identity, lane>>
    BY SendIs
<1>2. CASE link # c
    <2>1. inbox' = inbox
        BY <1>1, <1>2 DEF Push
    <2>2. QED BY <1>1, <2>1, HandshakeAlone DEF transport, lane
<1>3. CASE link = c
    <2>1. PICK m \in Messages : m = Data(f) /\ m.type = "frame"
        BY MessageKinds
    <2>2. /\ \A i \in DOMAIN inbox' : \/ i \in DOMAIN inbox /\ inbox'[i] = inbox[i]
                                      \/ inbox'[i].type = "frame"
          /\ \A i \in DOMAIN inbox : i \in DOMAIN inbox' /\ inbox'[i] = inbox[i]
        BY <1>1, <2>1, PushOne DEF TypeInv, ClientTypes
    <2>3. link # None /\ UNCHANGED <<link, phase, sessionId, pendingResumeSession,
                                     lastReplaySequence, delivered, packetQueue, running>>
        BY <1>1, <1>3 DEF transport, identity, lane
    <2>4. inbox # <<>> => inbox' # <<>> /\ inbox'[1] = inbox[1]
        <3>1. inbox # <<>> => 1 \in DOMAIN inbox
            BY EmptySeq DEF TypeInv, ClientTypes
        <3>2. QED BY <2>2, <3>1
    <2>5. CASE phase = "connecting"
        <3>1. inbox' # <<>> /\ inbox'[1] = Schema(link)
            BY <2>3, <2>4, <2>5 DEF HandshakeInv
        <3>2. \A i \in DOMAIN inbox' : i > 1 => IsData(i)'
            BY <2>2, <2>3, <2>5 DEF HandshakeInv, IsData
        <3>3. QED BY <1>1, <2>3, <2>5, <3>1, <3>2 DEF HandshakeInv
    <2>6. CASE phase = "ready"
        <3>1. \A i \in DOMAIN inbox' : IsData(i)' \/ (i \in DOMAIN inbox /\ inbox'[i] = inbox[i])
            BY <2>2 DEF IsData
        <3>2. \A i \in DOMAIN inbox' : inbox'[i].type # "schema"
            BY <2>6, <3>1 DEF HandshakeInv, IsData
        <3>3. (\A i \in DOMAIN inbox : IsData(i)) => \A i \in DOMAIN inbox' : IsData(i)'
            BY <3>1 DEF IsData
        <3>4. \A i \in DOMAIN inbox' : IsResumed(i)' =>
                  i \in DOMAIN inbox /\ inbox'[i] = inbox[i] /\ IsResumed(i)
            BY <3>1 DEF IsData, IsResumed
        <3>5. \A i \in DOMAIN inbox' : IsResumed(i)' =>
                  /\ sessionOf[link] = IF inbox'[i].recovered THEN pendingResumeSession ELSE link
                  /\ \A j \in DOMAIN inbox' : IsResumed(j)' => i = j
            BY <2>6, <3>4 DEF HandshakeInv
        <3>6. QED BY <1>1, <2>3, <2>6, <3>2, <3>3, <3>5 DEF HandshakeInv
    <2>7. QED BY <2>3, <2>5, <2>6 DEF HandshakeInv
<1>4. QED BY <1>2, <1>3

\* A request is on the way only while the client awaits its answer.
LEMMA ResumeWhenPending ==
    ASSUME TypeInv, NumberInv, HandshakeInv, link # None, resume[link] # <<>>
    PROVE  /\ phase = "ready" /\ sessionId = link /\ sessionOf[link] = link
           /\ pendingResumeSession # None /\ pendingResumeSession # link
           /\ resume[link][1].session = pendingResumeSession
           /\ \A i \in DOMAIN inbox : IsData(i)
<1>1. link \in Conns
    BY DEF TypeInv, ClientTypes
<1>2. phase = "ready"
    BY DEF HandshakeInv
<1>3. QED BY <1>1, <1>2 DEF HandshakeInv, NumberInv

LEMMA RefusedHandshake ==
    ASSUME TypeInv, NumberInv, HandshakeInv, NEW c \in Conns, ResumeRefused(c)
    PROVE  HandshakeInv'
<1>1. /\ c \in open /\ resume[c] # <<>>
      /\ resume' = [resume EXCEPT ![c] = <<>>] /\ Push(c, <<Resumed(FALSE, 0)>>)
      /\ UNCHANGED <<sessionOf, transport, identity, lane>>
    BY DEF ResumeRefused
<1>2. \A d \in Conns : resume'[d] = IF d = c THEN <<>> ELSE resume[d]
    BY <1>1 DEF TypeInv, ServerTypes
<1>3. CASE link # c
    <2>1. inbox' = inbox
        BY <1>1, <1>3 DEF Push
    <2>2. link # None => resume'[link] = resume[link]
        BY <1>2, <1>3 DEF TypeInv, ClientTypes
    <2>3. QED BY <1>1, <2>1, <2>2, HandshakeAlone DEF transport, lane
<1>4. CASE link = c
    <2>1. PICK m \in Messages : m = Resumed(FALSE, 0) /\ m.type = "resumed" /\ ~m.recovered
        <3>1. Resumed(FALSE, 0) \in Messages /\ Resumed(FALSE, 0).type = "resumed"
              /\ Resumed(FALSE, 0).recovered = FALSE
            BY DEF Resumed, Messages
        <3>2. QED BY <3>1
    <2>2. \A i \in DOMAIN inbox' : \/ i \in DOMAIN inbox /\ inbox'[i] = inbox[i]
                                   \/ inbox'[i] = m /\ i = Len(inbox) + 1
        BY <1>1, <2>1, PushOne DEF TypeInv, ClientTypes
    <2>3. link # None /\ UNCHANGED <<link, phase, sessionId, pendingResumeSession,
                                     lastReplaySequence, delivered, packetQueue, running>>
        BY <1>1, <1>4 DEF transport, identity, lane
    <2>4. /\ phase = "ready" /\ sessionId = link /\ sessionOf[link] = link
          /\ pendingResumeSession # None /\ pendingResumeSession # link
          /\ \A i \in DOMAIN inbox : IsData(i)
        BY <1>1, <1>4, <2>3, ResumeWhenPending
    <2>5. \A i \in DOMAIN inbox' : IsData(i)' \/ (inbox'[i] = m /\ i = Len(inbox) + 1)
        BY <2>2, <2>4 DEF IsData
    <2>6. \A i \in DOMAIN inbox' : inbox'[i].type # "schema"
        BY <2>1, <2>5 DEF IsData
    <2>7. \A i \in DOMAIN inbox' : IsResumed(i)' =>
              /\ sessionOf'[link'] = IF inbox'[i].recovered THEN pendingResumeSession' ELSE link'
              /\ \A j \in DOMAIN inbox' : IsResumed(j)' => i = j
        BY <1>1, <2>1, <2>3, <2>4, <2>5 DEF IsData, IsResumed
    <2>8. resume'[link'] = <<>>
        BY <1>2, <1>4, <2>3
    <2>9. QED BY <2>3, <2>4, <2>6, <2>7, <2>8 DEF HandshakeInv
<1>5. QED BY <1>3, <1>4

\* What a granted resumption leaves in the client's inbox.
LEMMA ReplayPushed ==
    ASSUME TypeInv, NEW c \in Conns, link = c, c \in open,
           NEW replay \in Seq(Messages), replay # <<>>, Push(c, replay)
    PROVE  \E a \in Nat, b \in Nat \ {0} :
              /\ DOMAIN inbox = 1 .. a /\ DOMAIN replay = 1 .. b /\ b = Len(replay)
              /\ DOMAIN inbox' = 1 .. a + b
              /\ \A i \in 1 .. a : inbox'[i] = inbox[i]
              /\ \A i \in 1 .. b : inbox'[a + i] = replay[i]
              /\ \A i \in 1 .. a + b :
                    i \in 1 .. a \/ \E j \in 1 .. b : i = a + j
<1>1. PICK a \in Nat, b \in Nat :
          a = Len(inbox) /\ b = Len(replay) /\ DOMAIN inbox = 1 .. a /\ DOMAIN replay = 1 .. b
    BY DEF TypeInv, ClientTypes
<1>2. b # 0
    BY <1>1, EmptySeq
<1>3. /\ inbox' \in Seq(Messages) /\ Len(inbox') = a + b
      /\ \A i \in 1 .. a : inbox'[i] = inbox[i]
      /\ \A i \in 1 .. b : inbox'[a + i] = replay[i]
    BY <1>1, PushIs DEF TypeInv, ClientTypes
<1>4. DOMAIN inbox' = 1 .. a + b
    BY <1>3
<1>5. ASSUME NEW i \in 1 .. a + b, i \notin 1 .. a
      PROVE  \E j \in 1 .. b : i = a + j
    <2>1. i - a \in 1 .. b /\ i = a + (i - a)
        BY <1>5
    <2>2. QED BY <2>1
<1>6. \A i \in 1 .. a + b : i \in 1 .. a \/ \E j \in 1 .. b : i = a + j
    BY <1>5
<1>7. b \in Nat \ {0}
    BY <1>2
<1> WITNESS a \in Nat, b \in Nat \ {0}
<1>8. QED BY <1>1, <1>3, <1>4, <1>6

LEMMA GrantedHandshake ==
    ASSUME TypeInv, NumberInv, HandshakeInv, BufferInv, NEW c \in Conns, ResumeGranted(c)
    PROVE  HandshakeInv'
<1>1. PICK s \in Conns, replay \in Seq(Messages) :
          /\ resume[c] # <<>> /\ s = resume[c][1].session
          /\ c \in open
          /\ sessionOf' = [sessionOf EXCEPT ![c] = s]
          /\ resume' = [resume EXCEPT ![c] = <<>>]
          /\ Push(c, replay)
          /\ replay # <<>> /\ replay[Len(replay)].type = "resumed"
          /\ replay[Len(replay)].recovered
          /\ \A i \in 1 .. Len(replay) - 1 : replay[i].type = "frame"
          /\ UNCHANGED <<transport, identity, lane>>
    BY GrantedIs, SMTT(60)
<1>2. \A d \in Conns : /\ resume'[d] = IF d = c THEN <<>> ELSE resume[d]
                       /\ sessionOf'[d] = IF d = c THEN s ELSE sessionOf[d]
    BY <1>1 DEF TypeInv, ServerTypes
<1>3. CASE link # c
    <2>1. inbox' = inbox
        BY <1>1, <1>3 DEF Push
    <2>2. link # None => resume'[link] = resume[link] /\ sessionOf'[link] = sessionOf[link]
        BY <1>2, <1>3 DEF TypeInv, ClientTypes
    <2>3. QED BY <1>1, <2>1, <2>2, HandshakeAlone DEF transport, lane
<1>4. CASE link = c
    <2>1. link # None /\ UNCHANGED <<link, phase, sessionId, pendingResumeSession,
                                     lastReplaySequence, delivered, packetQueue, running>>
        BY <1>1, <1>4 DEF transport, identity, lane
    <2>2. /\ phase = "ready" /\ sessionId = link /\ s = pendingResumeSession
          /\ pendingResumeSession # None /\ pendingResumeSession # link
          /\ \A i \in DOMAIN inbox : IsData(i)
        BY <1>1, <1>4, <2>1, ResumeWhenPending
    <2>3. PICK a \in Nat, b \in Nat \ {0} :
              /\ DOMAIN inbox = 1 .. a /\ DOMAIN replay = 1 .. b /\ b = Len(replay)
              /\ DOMAIN inbox' = 1 .. a + b
              /\ \A i \in 1 .. a : inbox'[i] = inbox[i]
              /\ \A i \in 1 .. b : inbox'[a + i] = replay[i]
              /\ \A i \in 1 .. a + b :
                    i \in 1 .. a \/ \E j \in 1 .. b : i = a + j
        BY <1>1, <1>4, ReplayPushed
    <2>4. PICK last \in Nat : last = a + b
        OBVIOUS
    <2>5. inbox'[last].type = "resumed" /\ inbox'[last].recovered
        <3>1. b \in 1 .. b /\ b = Len(replay) /\ last = a + b
            BY <2>3, <2>4
        <3>2. inbox'[a + b] = replay[b]
            BY <2>3, <3>1
        <3>3. QED BY <1>1, <3>1, <3>2
    <2>6. ASSUME NEW i \in DOMAIN inbox', i # last PROVE IsData(i)'
        <3>1. CASE i \in 1 .. a
            BY <2>2, <2>3, <3>1 DEF IsData
        <3>2. CASE \E j \in 1 .. b : i = a + j
            <4>1. PICK j \in 1 .. b : i = a + j
                BY <3>2
            <4>2. j \in 1 .. b - 1
                BY <2>4, <2>6, <4>1
            <4>3. QED BY <1>1, <2>3, <4>1, <4>2 DEF IsData
        <3>3. QED BY <2>3, <3>1, <3>2
    <2>7. \A i \in DOMAIN inbox' : inbox'[i].type # "schema"
        BY <2>5, <2>6 DEF IsData
    <2>8. \A i \in DOMAIN inbox' : IsResumed(i)' =>
              /\ sessionOf'[link'] = IF inbox'[i].recovered THEN pendingResumeSession' ELSE link'
              /\ \A j \in DOMAIN inbox' : IsResumed(j)' => i = j
        BY <1>2, <1>4, <2>1, <2>2, <2>5, <2>6 DEF IsData, IsResumed
    <2>9. resume'[link'] = <<>>
        BY <1>2, <1>4, <2>1
    <2>10. QED BY <2>1, <2>2, <2>7, <2>8, <2>9 DEF HandshakeInv
<1>5. QED BY <1>3, <1>4

LEMMA SchemaHandshake ==
    ASSUME TypeInv, NumberInv, HandshakeInv, ReceiveSchema
    PROVE  HandshakeInv'
<1>1. /\ phase = "connecting" /\ link \in Conns
      /\ inbox # <<>> /\ inbox' = Tail(inbox)
      /\ sessionId' = link /\ phase' = "ready" /\ sessionId # link
      /\ sessionId # None =>
            /\ pendingResumeSession' = sessionId
            /\ IF link \in open /\ ~closed
               THEN \E q \in Seq(Requests) :
                       /\ q # <<>> /\ q[1].session = sessionId
                       /\ resume' = [resume EXCEPT ![link] = q]
               ELSE resume' = resume
      /\ sessionId = None => pendingResumeSession' = None /\ resume' = resume
      /\ UNCHANGED <<sessionOf, link>>
    BY SchemaIs
<1>2. link' # None /\ phase' = "ready" /\ sessionId' # None
    BY <1>1
<1>3. sessionOf[link] = link /\ resume[link] = <<>> /\ \A i \in DOMAIN inbox : i > 1 => IsData(i)
    BY <1>1 DEF HandshakeInv
<1>4. \A i \in DOMAIN inbox' : i + 1 \in DOMAIN inbox /\ inbox'[i] = inbox[i + 1]
                               /\ i \in DOMAIN inbox' /\ i + 1 > 1
    BY <1>1, StillThere, InboxTail DEF TypeInv, ClientTypes
<1>5. \A i \in DOMAIN inbox' : IsData(i)' /\ ~IsResumed(i)' /\ inbox'[i].type # "schema"
    BY <1>3, <1>4 DEF IsData, IsResumed
<1>6. CASE sessionId = None
    BY <1>1, <1>2, <1>3, <1>5, <1>6 DEF HandshakeInv
<1>7. CASE sessionId # None
    <2>1. pendingResumeSession' = sessionId /\ pendingResumeSession' # link'
        BY <1>1, <1>7
    <2>2. resume'[link] # <<>> => resume'[link][1].session = sessionId
        BY <1>1, <1>3, <1>7 DEF TypeInv, ServerTypes
    <2>3. QED BY <1>1, <1>2, <1>5, <1>7, <2>1, <2>2 DEF HandshakeInv
<1>8. QED BY <1>6, <1>7

LEMMA FrameHandshake ==
    ASSUME TypeInv, NumberInv, HandshakeInv, ReceiveFrame
    PROVE  HandshakeInv'
<1>1. /\ inbox # <<>> /\ inbox' = Tail(inbox) /\ Head(inbox).type = "frame"
      /\ UNCHANGED <<sessionOf, resume, link, phase, sessionId, pendingResumeSession>>
    BY FrameIs DEF server, transport
<1>2. phase = "ready" /\ link # None /\ sessionId # None
    <2>1. phase = "ready" /\ link # None
        BY <1>1, FramesWhenReady
    <2>2. QED BY <2>1 DEF HandshakeInv
<1>3. \A i \in DOMAIN inbox' : i + 1 \in DOMAIN inbox /\ inbox'[i] = inbox[i + 1]
    BY <1>1, StillThere
<1>4. \A i, j \in DOMAIN inbox' : i + 1 = j + 1 => i = j
    <2>1. DOMAIN inbox' \subseteq Nat
        BY <1>1, InboxTail DEF TypeInv, ClientTypes
    <2>2. QED BY <2>1
<1>5. \A i \in DOMAIN inbox' : inbox'[i].type # "schema"
    BY <1>2, <1>3 DEF HandshakeInv
<1>6. (\A i \in DOMAIN inbox : IsData(i)) => \A i \in DOMAIN inbox' : IsData(i)'
    BY <1>3 DEF IsData
<1>7. \A i \in DOMAIN inbox' : IsResumed(i)' =>
          /\ sessionOf[link] = IF inbox'[i].recovered THEN pendingResumeSession ELSE link
          /\ \A j \in DOMAIN inbox' : IsResumed(j)' => i = j
    BY <1>2, <1>3, <1>4 DEF HandshakeInv, IsResumed
<1>8. QED BY <1>1, <1>2, <1>5, <1>6, <1>7 DEF HandshakeInv

\* The state a RESUMED finds, and the one it leaves.
LEMMA ResumedIs ==
    ASSUME TypeInv, NumberInv, HandshakeInv, ReceiveResumed
    PROVE  \E ok \in BOOLEAN :
              /\ phase = "ready" /\ link # None
              /\ sessionId = link /\ pendingResumeSession # None /\ pendingResumeSession # link
              /\ inbox # <<>> /\ inbox[1] = Head(inbox) /\ inbox' = Tail(inbox)
              /\ IsResumed(1) /\ inbox[1].recovered = ok
              /\ sessionOf[link] = (IF ok THEN pendingResumeSession ELSE link)
              /\ sessionId' = (IF ok THEN pendingResumeSession ELSE link)
              /\ pendingResumeSession' = None
              /\ lastReplaySequence' = (IF ok THEN lastReplaySequence ELSE 0)
              /\ resume[link] = <<>>
              /\ \A i \in DOMAIN inbox' : IsData(i)'
              /\ UNCHANGED <<server, transport, lane, sent, odd>>
<1>1. /\ inbox # <<>> /\ inbox' = Tail(inbox) /\ Head(inbox).type = "resumed"
      /\ sessionId' = IF Head(inbox).recovered /\ pendingResumeSession # None
                      THEN pendingResumeSession ELSE sessionId
      /\ pendingResumeSession' = None
      /\ lastReplaySequence' = IF Head(inbox).recovered THEN lastReplaySequence ELSE 0
      /\ UNCHANGED <<server, transport, lane, sent, odd>>
    BY DEF ReceiveResumed, Arrives
<1>2. phase = "ready" /\ link # None
    BY <1>1, FramesWhenReady
<1>3. /\ 1 \in DOMAIN inbox /\ inbox[1] = Head(inbox) /\ DOMAIN inbox \subseteq Nat
      /\ \A i \in DOMAIN inbox' : i + 1 \in DOMAIN inbox /\ inbox'[i] = inbox[i + 1]
    BY <1>1, StillThere
<1>4. IsResumed(1) /\ ~IsData(1) /\ inbox[1] \in Messages
    BY <1>1, <1>3 DEF IsResumed, IsData, TypeInv, ClientTypes
<1>5. PICK ok \in BOOLEAN : inbox[1].recovered = ok
    BY <1>4, MessageKinds DEF IsResumed
<1>6. pendingResumeSession # None /\ resume[link] = <<>>
    BY <1>2, <1>3, <1>4 DEF HandshakeInv
<1>7. sessionId = link /\ pendingResumeSession # link
      /\ sessionOf[link] = (IF ok THEN pendingResumeSession ELSE link)
    BY <1>2, <1>3, <1>4, <1>5, <1>6 DEF HandshakeInv
<1>8. ASSUME NEW i \in DOMAIN inbox' PROVE IsData(i)'
    <2>1. PICK k \in DOMAIN inbox : k = i + 1 /\ inbox'[i] = inbox[k] /\ k # 1
        <3>1. DOMAIN inbox' \subseteq Nat /\ 0 \notin DOMAIN inbox'
            BY <1>1, InboxTail DEF TypeInv, ClientTypes
        <3>2. QED BY <1>3, <3>1
    <2>2. ~IsResumed(k) /\ inbox[k].type # "schema" /\ inbox[k] \in Messages
        BY <1>2, <1>3, <1>4, <2>1 DEF HandshakeInv, TypeInv, ClientTypes
    <2>3. inbox[k].type = "frame"
        BY <2>2, MessageKinds DEF IsResumed
    <2>4. QED BY <2>1, <2>3 DEF IsData
<1>9. QED BY <1>1, <1>2, <1>3, <1>4, <1>5, <1>6, <1>7, <1>8

LEMMA ResumedHandshake ==
    ASSUME TypeInv, NumberInv, HandshakeInv, ReceiveResumed
    PROVE  HandshakeInv'
<1>1. PICK ok \in BOOLEAN :
          /\ phase = "ready" /\ link # None
          /\ pendingResumeSession # None
          /\ sessionOf[link] = (IF ok THEN pendingResumeSession ELSE link)
          /\ sessionId' = (IF ok THEN pendingResumeSession ELSE link)
          /\ pendingResumeSession' = None
          /\ resume[link] = <<>>
          /\ \A i \in DOMAIN inbox' : IsData(i)'
          /\ UNCHANGED <<server, transport, lane, sent, odd>>
    BY ResumedIs
<1>2. UNCHANGED <<sessionOf, resume, link, phase>>
    BY <1>1 DEF server, transport
<1>3. \A i \in DOMAIN inbox' : ~IsResumed(i)' /\ inbox'[i].type # "schema"
    BY <1>1 DEF IsData, IsResumed
<1>4. sessionId' # None /\ sessionOf'[link'] = sessionId' /\ resume'[link'] = <<>>
    BY <1>1, <1>2
<1>5. QED BY <1>1, <1>2, <1>3, <1>4 DEF HandshakeInv

LEMMA HandshakeStep ==
    ASSUME TypeInv, NumberInv, HandshakeInv, BufferInv, [Next]_vars
    PROVE  HandshakeInv'
<1>1. CASE Accept
    BY <1>1, AcceptHandshake
<1>2. ASSUME NEW c \in Conns, Send(c) PROVE HandshakeInv'
    BY <1>2, SendHandshake
<1>3. ASSUME NEW c \in Conns, ResumeRefused(c) PROVE HandshakeInv'
    BY <1>3, RefusedHandshake
<1>4. ASSUME NEW c \in Conns, ResumeGranted(c) PROVE HandshakeInv'
    BY <1>4, GrantedHandshake
<1>5. CASE UNCHANGED vars \/ \E c \in Conns : ServerClose(c)
    <2>1. UNCHANGED <<inbox, link, phase, identity, sessionOf, resume, delivered, packetQueue,
                      running>>
        BY <1>5 DEF vars, server, transport, lane, ServerClose
    <2>2. QED BY <2>1, HandshakeAlone
<1>6. CASE Deliver \/ Listened \/ ListenerThrows
    <2>1. UNCHANGED <<inbox, link, phase, identity, sessionOf, resume>> /\ running # <<>>
        BY <1>6 DEF Deliver, Listened, ListenerThrows, server, transport
    <2>2. sessionId # None
        BY <2>1 DEF HandshakeInv
    <2>3. QED BY <2>1, <2>2, HandshakeAlone
<1>7. CASE ReceiveSchema
    BY <1>7, SchemaHandshake
<1>8. CASE ReceiveFrame
    BY <1>8, FrameHandshake
<1>9. CASE ReceiveResumed
    BY <1>9, ResumedHandshake
<1>10. ASSUME NEW retry \in BOOLEAN, TransportClosed(retry) PROVE HandshakeInv'
    <2>1. /\ link' = None /\ inbox' = <<>> /\ UNCHANGED <<identity, lane>>
          /\ phase \in {"connecting", "ready"}
          /\ phase = "connecting" => phase' = "broken"
          /\ phase' \in {"broken", "ended", "failed", "waiting"}
        BY <1>10 DEF TransportClosed, ScheduleReconnect
    <2>2. sessionId = None => phase' = "broken"
        BY <2>1 DEF HandshakeInv
    <2>3. phase' # "ready" /\ phase' # "connecting" /\ link' = None
        BY <2>1
    <2>4. QED BY <2>1, <2>2, <2>3 DEF HandshakeInv, identity, lane
<1>11. CASE BeginReconnect
    <2>1. /\ phase = "waiting" /\ phase' \in {"connecting", "failed", "waiting"}
          /\ UNCHANGED <<link, identity, inbox, lane>>
        BY <1>11 DEF BeginReconnect, ScheduleReconnect
    <2>2. link = None /\ sessionId # None /\ phase' # "ready"
        BY <2>1 DEF HandshakeInv
    <2>3. QED BY <2>1, <2>2 DEF HandshakeInv, identity, lane
<1>12. CASE Close
    <2>1. UNCHANGED <<server, link, identity, inbox, lane>>
          /\ phase' = IF phase = "waiting" THEN "ended" ELSE phase
        BY <1>12 DEF Close
    <2>2. CASE phase = "waiting"
        <3>1. link = None /\ sessionId # None /\ phase' = "ended"
            BY <2>1, <2>2 DEF HandshakeInv
        <3>2. QED BY <2>1, <3>1 DEF HandshakeInv, identity, lane
    <2>3. CASE phase # "waiting"
        BY <2>1, <2>3, HandshakeAlone DEF server, lane
    <2>4. QED BY <2>2, <2>3
<1>13. QED
    BY <1>1, <1>2, <1>3, <1>4, <1>5, <1>6, <1>7, <1>8, <1>9, <1>10, <1>11, <1>12 DEF Next

-----------------------------------------------------------------------------
(* The order of the lane *)

\* The queue without its oldest frame.
LEMMA QueueTail ==
    ASSUME LaneTypes, packetQueue # <<>>
    PROVE  /\ 1 \in DOMAIN packetQueue /\ packetQueue[1] = Head(packetQueue)
           /\ Head(packetQueue) \in Frames
           /\ \A j \in DOMAIN Tail(packetQueue) :
                 /\ j + 1 \in DOMAIN packetQueue /\ 1 < j + 1
                 /\ Tail(packetQueue)[j] = packetQueue[j + 1]
           /\ \A i, j \in DOMAIN Tail(packetQueue) : i < j => i + 1 < j + 1
<1>1. PICK n \in Nat : n = Len(packetQueue) /\ DOMAIN packetQueue = 1 .. n
    BY DEF LaneTypes
<1>2. n # 0
    BY <1>1, EmptySeq DEF LaneTypes
<1>3. /\ packetQueue[1] = Head(packetQueue) /\ Head(packetQueue) \in Frames
      /\ DOMAIN Tail(packetQueue) = 1 .. n - 1
      /\ \A j \in 1 .. n - 1 : Tail(packetQueue)[j] = packetQueue[j + 1]
    BY <1>1, <1>2, HeadTailProperties DEF LaneTypes
<1>4. 1 \in 1 .. n /\ \A j \in 1 .. n - 1 : j + 1 \in 1 .. n /\ 1 < j + 1
    BY <1>1, <1>2
<1>5. \A i, j \in 1 .. n - 1 : i < j => i + 1 < j + 1
    OBVIOUS
<1>6. QED BY <1>1, <1>3, <1>4, <1>5

LEMMA HandOverOrder ==
    ASSUME LaneTypes, LaneOrder, NEW idle \in BOOLEAN,
           packetQueue' = IF packetQueue = <<>> THEN <<>> ELSE Tail(packetQueue),
           running' = IF packetQueue = <<>> \/ idle THEN <<>>
                      ELSE <<[frame |-> Head(packetQueue), stage |-> "decode"]>>,
           UNCHANGED delivered
    PROVE  LaneOrder'
<1>1. CASE packetQueue = <<>>
    <2>1. DOMAIN packetQueue' = {} /\ DOMAIN running' = {}
        BY <1>1
    <2>2. QED BY <2>1 DEF LaneOrder
<1>2. CASE packetQueue # <<>>
    <2>1. packetQueue' = Tail(packetQueue)
        BY <1>2
    <2>2. /\ 1 \in DOMAIN packetQueue /\ packetQueue[1] = Head(packetQueue)
          /\ Head(packetQueue) \in Frames
          /\ \A j \in DOMAIN packetQueue' :
                /\ j + 1 \in DOMAIN packetQueue /\ 1 < j + 1
                /\ packetQueue'[j] = packetQueue[j + 1]
          /\ \A i, j \in DOMAIN packetQueue' : i < j => i + 1 < j + 1
        BY <1>2, <2>1, QueueTail
    <2>3. \A i, j \in DOMAIN packetQueue' : i < j => Before(packetQueue'[i], packetQueue'[j])
        BY <2>2 DEF LaneOrder
    <2>4. \A i \in DOMAIN delivered, j \in DOMAIN packetQueue' :
              Before(delivered[i], packetQueue'[j])
        BY <2>2 DEF LaneOrder
    <2>5. /\ \A i \in DOMAIN delivered : Before(delivered[i], Head(packetQueue))
          /\ \A j \in DOMAIN packetQueue' : Before(Head(packetQueue), packetQueue'[j])
        BY <2>2 DEF LaneOrder
    <2>6. \A h \in DOMAIN running' : running'[h].frame = Head(packetQueue)
        <3>1. CASE idle
            <4>1. DOMAIN running' = {}
                BY <3>1
            <4>2. QED BY <4>1
        <3>2. CASE ~idle
            <4>1. PICK h \in Handlers :
                      h = [frame |-> Head(packetQueue), stage |-> "decode"]
                      /\ h.frame = Head(packetQueue)
                BY <2>2, HandlerIs
            <4>2. running' = <<h>>
                BY <1>2, <3>2, <4>1
            <4>3. DOMAIN running' = {1} /\ running'[1] = h
                BY <4>2, OneElement
            <4>4. QED BY <4>1, <4>3
        <3>3. QED BY <3>1, <3>2
    <2>7. QED BY <2>3, <2>4, <2>5, <2>6 DEF LaneOrder
<1>3. QED BY <1>1, <1>2

LEMMA DeliverOrder ==
    ASSUME TypeInv, LaneOrder, Deliver
    PROVE  LaneOrder'
<1>1. running # <<>> /\ DOMAIN running = {1} /\ running[1] \in Handlers
      /\ running[1].frame \in Frames /\ running[1].stage = "decode"
    BY RunningTypes DEF Deliver, TypeInv
<1>2. CASE closed
    <2>1. PICK idle \in BOOLEAN : ~idle
        OBVIOUS
    <2>2. /\ packetQueue' = IF packetQueue = <<>> THEN <<>> ELSE Tail(packetQueue)
          /\ running' = IF packetQueue = <<>> \/ idle THEN <<>>
                        ELSE <<[frame |-> Head(packetQueue), stage |-> "decode"]>>
          /\ UNCHANGED delivered
        BY <1>2, <2>1 DEF Deliver
    <2>3. QED BY <2>2, HandOverOrder DEF TypeInv
<1>3. CASE ~closed /\ phase = "connecting"
    <2>1. running' = <<>> /\ UNCHANGED <<packetQueue, delivered>>
        BY <1>3 DEF Deliver
    <2>2. DOMAIN running' = {}
        BY <2>1
    <2>3. QED BY <2>1, <2>2 DEF LaneOrder
<1>4. CASE ~closed /\ phase # "connecting"
    <2>1. PICK h \in Handlers :
              /\ h = [running[1] EXCEPT !.stage = "listen"] /\ h.frame = running[1].frame
              /\ h.stage = "listen"
        BY <1>1, HandlerIs
    <2>2. running' = <<h>> /\ delivered' = Append(delivered, running[1].frame)
          /\ packetQueue' = packetQueue
        BY <1>4, <2>1 DEF Deliver
    <2>3. DOMAIN running' = {1} /\ running'[1].stage # "decode"
        BY <2>1, <2>2, OneElement
    <2>4. PICK n \in Nat : n = Len(delivered) /\ DOMAIN delivered = 1 .. n
        BY DEF TypeInv, LaneTypes
    <2>5. /\ DOMAIN delivered' = 1 .. n + 1
          /\ \A i \in 1 .. n : delivered'[i] = delivered[i]
          /\ delivered'[n + 1] = running[1].frame
        BY <1>1, <2>2, <2>4, AppendProperties DEF TypeInv, LaneTypes
    <2>6. \A i, j \in 1 .. n + 1 : i < j => i \in 1 .. n /\ (j \in 1 .. n \/ j = n + 1)
        OBVIOUS
    <2>7. \A i \in 1 .. n : Before(delivered[i], running[1].frame)
        BY <1>1, <2>4 DEF LaneOrder
    <2>8. \A i, j \in DOMAIN delivered' : i < j => Before(delivered'[i], delivered'[j])
        <3>1. ASSUME NEW i \in 1 .. n + 1, NEW j \in 1 .. n + 1, i < j
              PROVE  Before(delivered'[i], delivered'[j])
            <4>1. i \in 1 .. n /\ delivered'[i] = delivered[i]
                BY <2>5, <2>6, <3>1
            <4>2. CASE j \in 1 .. n
                BY <2>4, <2>5, <3>1, <4>1, <4>2 DEF LaneOrder
            <4>3. CASE j = n + 1
                BY <2>5, <2>7, <4>1, <4>3
            <4>4. QED BY <2>6, <3>1, <4>2, <4>3
        <3>2. QED BY <2>5, <3>1
    <2>9. \A i \in DOMAIN delivered', j \in DOMAIN packetQueue' :
              Before(delivered'[i], packetQueue'[j])
        <3>1. ASSUME NEW i \in 1 .. n + 1, NEW j \in DOMAIN packetQueue
              PROVE  Before(delivered'[i], packetQueue[j])
            <4>1. CASE i \in 1 .. n
                BY <2>4, <2>5, <4>1 DEF LaneOrder
            <4>2. CASE i = n + 1
                BY <1>1, <2>5, <4>2 DEF LaneOrder
            <4>3. QED BY <4>1, <4>2
        <3>2. QED BY <2>2, <2>5, <3>1
    <2>10. QED BY <2>2, <2>3, <2>8, <2>9 DEF LaneOrder
<1>5. QED BY <1>2, <1>3, <1>4

\* A frame that follows all that is held takes its place behind them.
LEMMA HandleOrder ==
    ASSUME LaneTypes, LaneInv, LaneOrder, NEW f \in Frames, Handle(f, listenLock, packetQueue),
           UNCHANGED delivered, \A g \in Held : Before(g, f)
    PROVE  LaneOrder'
<1>1. /\ \A i \in DOMAIN delivered : delivered[i] \in Held
      /\ \A i \in DOMAIN packetQueue : packetQueue[i] \in Held
      /\ \A h \in DOMAIN running : running[h].frame \in Held
    BY DEF Held, InLane, ToSet
<1>2. CASE listenLock
    <2>1. packetQueue' = Append(packetQueue, f) /\ running' = running
        BY <1>2 DEF Handle
    <2>2. PICK n \in Nat : n = Len(packetQueue) /\ DOMAIN packetQueue = 1 .. n
        BY DEF LaneTypes
    <2>3. /\ DOMAIN packetQueue' = 1 .. n + 1
          /\ \A i \in 1 .. n : packetQueue'[i] = packetQueue[i]
          /\ packetQueue'[n + 1] = f
        BY <2>1, <2>2, AppendProperties DEF LaneTypes
    <2>4. \A i \in 1 .. n + 1 : i \in 1 .. n \/ i = n + 1
        OBVIOUS
    <2>5. \A i \in DOMAIN packetQueue' :
              (i \in DOMAIN packetQueue /\ packetQueue'[i] = packetQueue[i]) \/ packetQueue'[i] = f
        BY <2>2, <2>3, <2>4
    <2>6. \A i, j \in DOMAIN packetQueue' : i < j => Before(packetQueue'[i], packetQueue'[j])
        <3>1. ASSUME NEW i \in 1 .. n + 1, NEW j \in 1 .. n + 1, i < j
              PROVE  Before(packetQueue'[i], packetQueue'[j])
            <4>1. i \in 1 .. n /\ packetQueue'[i] = packetQueue[i]
                BY <2>3, <3>1
            <4>2. CASE j \in 1 .. n
                BY <2>2, <2>3, <3>1, <4>1, <4>2 DEF LaneOrder
            <4>3. CASE j = n + 1
                BY <1>1, <2>2, <2>3, <4>1, <4>3
            <4>4. QED BY <2>4, <4>2, <4>3
        <3>2. QED BY <2>3, <3>1
    <2>7. \A i \in DOMAIN delivered, j \in DOMAIN packetQueue' :
              Before(delivered[i], packetQueue'[j])
        BY <1>1, <2>5 DEF LaneOrder
    <2>8. \A h \in DOMAIN running : running[h].stage = "decode" =>
              \A j \in DOMAIN packetQueue' : Before(running[h].frame, packetQueue'[j])
        BY <1>1, <2>5 DEF LaneOrder
    <2>9. QED BY <2>1, <2>6, <2>7, <2>8 DEF LaneOrder
<1>3. CASE ~listenLock
    <2>1. packetQueue = <<>> /\ packetQueue' = packetQueue
        BY <1>3 DEF Handle, LaneInv
    <2>2. PICK h \in Handlers : h = [frame |-> f, stage |-> "decode"] /\ h.frame = f
        BY HandlerIs
    <2>3. running' = <<h>>
        BY <1>3, <2>2 DEF Handle
    <2>4. DOMAIN running' = {1} /\ running'[1].frame = f /\ DOMAIN packetQueue' = {}
        BY <2>1, <2>2, <2>3, OneElement
    <2>5. QED BY <1>1, <2>1, <2>4 DEF LaneOrder
<1>4. QED BY <1>2, <1>3

LEMMA LaneOrderStep ==
    ASSUME TypeInv, LaneInv, LaneOrder, [Next]_vars,
           ReceiveFrame /\ Fresh(Head(inbox).frame) => \A g \in Held : Before(g, Head(inbox).frame)
    PROVE  LaneOrder'
<1>1. CASE UNCHANGED lane
    BY <1>1 DEF lane, LaneOrder
<1>2. CASE Deliver
    BY <1>2, DeliverOrder
<1>3. CASE Listened
    <2>1. PICK idle \in BOOLEAN : idle <=> phase = "connecting"
        OBVIOUS
    <2>2. /\ packetQueue' = IF packetQueue = <<>> THEN <<>> ELSE Tail(packetQueue)
          /\ running' = IF packetQueue = <<>> \/ idle THEN <<>>
                        ELSE <<[frame |-> Head(packetQueue), stage |-> "decode"]>>
          /\ UNCHANGED delivered
        BY <1>3, <2>1 DEF Listened, Release
    <2>3. QED BY <2>2, HandOverOrder DEF TypeInv
<1>4. CASE ListenerThrows
    <2>1. running' = <<>> /\ UNCHANGED <<packetQueue, delivered>>
        BY <1>4 DEF ListenerThrows
    <2>2. DOMAIN running' = {}
        BY <2>1
    <2>3. QED BY <2>1, <2>2 DEF LaneOrder
<1>5. CASE ReceiveFrame
    <2>1. PICK f \in Frames :
              /\ f = Head(inbox).frame
              /\ Fresh(f) => Handle(f, listenLock, packetQueue)
              /\ ~Fresh(f) => UNCHANGED <<packetQueue, running>>
              /\ UNCHANGED delivered
        BY <1>5, FrameIs
    <2>2. CASE Fresh(f)
        BY <1>5, <2>1, <2>2, HandleOrder DEF TypeInv
    <2>3. CASE ~Fresh(f)
        BY <2>1, <2>3 DEF LaneOrder
    <2>4. QED BY <2>2, <2>3
<1>6. QED
    BY <1>1, <1>2, <1>3, <1>4, <1>5
    DEF Next, Accept, Send, ResumeRefused, ResumeGranted, ServerClose, ReceiveSchema,
        ReceiveResumed, TransportClosed, BeginReconnect, Close, vars

-----------------------------------------------------------------------------
(* The counter *)

\* A frame that has arrived belongs to the session the client counts.
LEMMA ArrivedIsCounted ==
    ASSUME TypeInv, NumberInv, HandshakeInv, CounterInv, ReceiveFrame
    PROVE  \E f \in Frames :
              /\ f = Head(inbox).frame
              /\ phase = "ready" /\ link # None
              /\ f.session = sessionOf[link]
              /\ f.session \in {sessionId, pendingResumeSession}
              /\ pendingResumeSession # None =>
                    f.session = pendingResumeSession /\ f.session # link
              /\ resume[link] = <<>>
<1>1. PICK f \in Frames :
          /\ inbox # <<>> /\ inbox[1] = Head(inbox) /\ Head(inbox).type = "frame"
          /\ f = Head(inbox).frame /\ inbox' = Tail(inbox)
    BY FrameIs
<1>2. phase = "ready" /\ link # None
    BY <1>1, FramesWhenReady
<1>3. 1 \in DOMAIN inbox /\ IsData(1)
    BY <1>1, StillThere DEF IsData
<1>4. f.session = sessionOf[link] /\ resume[link] = <<>>
    BY <1>1, <1>2, <1>3 DEF CounterInv
<1>5. CASE pendingResumeSession # None
    <2>1. sessionOf[link] = pendingResumeSession /\ pendingResumeSession # link
        BY <1>2, <1>3, <1>5 DEF CounterInv, HandshakeInv
    <2>2. QED BY <1>1, <1>2, <1>4, <1>5, <2>1
<1>6. CASE pendingResumeSession = None
    BY <1>1, <1>2, <1>4, <1>6 DEF HandshakeInv
<1>7. QED BY <1>5, <1>6

\* A fresh frame follows all that is held.
LEMMA FreshFollows ==
    ASSUME TypeInv, NumberInv, HandshakeInv, CounterInv, ReceiveFrame,
           Fresh(Head(inbox).frame), NEW g \in Held
    PROVE  Before(g, Head(inbox).frame)
<1>1. PICK f \in Frames :
          f = Head(inbox).frame /\ f.session \in {sessionId, pendingResumeSession}
    BY ArrivedIsCounted
<1>2. g \in Frames
    BY LaneFrames DEF TypeInv
<1>3. g.sequence \in Int /\ f.sequence \in Int /\ lastReplaySequence \in Int
    BY <1>2 DEF Frames, TypeInv, ClientTypes
<1>4. g.session = f.session => g.sequence <= lastReplaySequence
    BY <1>1 DEF CounterInv
<1>5. f.sequence # 0 => f.sequence > lastReplaySequence
    BY <1>1 DEF Fresh
<1>6. QED BY <1>1, <1>3, <1>4, <1>5 DEF Before

LEMMA CounterAlone ==
    ASSUME CounterInv, Held' \subseteq Held, UNCHANGED <<inbox, link, phase, identity>>,
           link # None => sessionOf'[link] = sessionOf[link] /\ resume'[link] = resume[link],
           link = None => inbox = <<>> /\ phase # "ready"
    PROVE  CounterInv'
<1>1. CASE link = None
    <2>1. DOMAIN inbox' = {} /\ link' = None /\ phase' # "ready"
        BY <1>1
    <2>2. QED BY <1>1, <2>1 DEF CounterInv, identity
<1>2. CASE link # None
    BY <1>2 DEF CounterInv, identity, IsData
<1>3. QED BY <1>1, <1>2

LEMMA AcceptCounter ==
    ASSUME TypeInv, NumberInv, HandshakeInv, CounterInv, Accept
    PROVE  CounterInv'
<1>1. PICK c \in Conns :
          /\ Accepted = 1 .. c - 1
          /\ phase = "connecting"
          /\ link' = c /\ inbox' = <<Schema(c)>>
          /\ UNCHANGED <<phase, identity, lane>>
    BY AcceptIs
<1>2. c \notin Accepted /\ phase' # "ready"
    BY <1>1
<1>3. PICK m \in Messages : m = Schema(c) /\ m.type = "schema"
    BY MessageKinds
<1>4. inbox' = <<m>>
    BY <1>1, <1>3
<1>5. inbox'[1] = m /\ DOMAIN inbox' = {1} /\ Len(inbox') = 1
    BY <1>4, OneElement
<1>6. \A i \in DOMAIN inbox' : ~IsData(i)'
    BY <1>3, <1>5 DEF IsData
<1>7. Held' = Held
    BY <1>1 DEF Held, InLane, lane
<1>8. \A f \in Held' : f.session # link'
    BY <1>1, <1>2, <1>7 DEF NumberInv
<1>9. QED BY <1>1, <1>2, <1>5, <1>6, <1>7, <1>8 DEF CounterInv, identity

LEMMA SendCounter ==
    ASSUME TypeInv, NumberInv, HandshakeInv, CounterInv, NEW c \in Conns, Send(c),
           ~Undecided(c)
    PROVE  CounterInv'
<1>1. PICK f \in Frames :
          /\ f.session = sessionOf[c] /\ c \in Accepted
          /\ Push(c, <<Data(f)>>)
          /\ UNCHANGED <<sessionOf, resume, transport, identity, lane>>
    BY SendIs
<1>2. Held' = Held
    BY <1>1 DEF Held, InLane, lane
<1>3. CASE link # c
    <2>1. inbox' = inbox
        BY <1>1, <1>3 DEF Push
    <2>2. QED BY <1>1, <1>2, <2>1, CounterAlone DEF transport, HandshakeInv
<1>4. CASE link = c
    <2>1. link # None /\ pendingResumeSession = None
          /\ ~(phase = "connecting" /\ sessionId # None)
        BY <1>4 DEF Undecided
    <2>2. resume[link] = <<>>
        BY <2>1, ResumeWhenPending
    <2>3. PICK m \in Messages : m = Data(f) /\ m.frame = f
        BY MessageKinds
    <2>4. \A i \in DOMAIN inbox' : (i \in DOMAIN inbox /\ inbox'[i] = inbox[i]) \/ inbox'[i] = m
        BY <1>1, <2>3, PushOne DEF TypeInv, ClientTypes
    <2>5. \A i \in DOMAIN inbox' : IsData(i)' => inbox'[i].frame.session = sessionOf[link]
        BY <1>1, <1>4, <2>3, <2>4 DEF CounterInv, IsData
    <2>6. UNCHANGED <<sessionOf, resume, link, phase, sessionId, pendingResumeSession,
                      lastReplaySequence>>
        BY <1>1 DEF transport, identity
    <2>7. QED BY <1>2, <2>1, <2>2, <2>5, <2>6 DEF CounterInv
<1>5. QED BY <1>3, <1>4

LEMMA RefusedCounter ==
    ASSUME TypeInv, NumberInv, HandshakeInv, CounterInv, NEW c \in Conns, ResumeRefused(c)
    PROVE  CounterInv'
<1>1. /\ c \in open /\ resume[c] # <<>>
      /\ resume' = [resume EXCEPT ![c] = <<>>] /\ Push(c, <<Resumed(FALSE, 0)>>)
      /\ UNCHANGED <<sessionOf, transport, identity, lane>>
    BY DEF ResumeRefused
<1>2. \A d \in Conns : resume'[d] = IF d = c THEN <<>> ELSE resume[d]
    BY <1>1 DEF TypeInv, ServerTypes
<1>3. Held' = Held
    BY <1>1 DEF Held, InLane, lane
<1>4. CASE link # c
    <2>1. inbox' = inbox
        BY <1>1, <1>4 DEF Push
    <2>2. link # None => resume'[link] = resume[link]
        BY <1>2, <1>4 DEF TypeInv, ClientTypes
    <2>3. QED BY <1>1, <1>3, <2>1, <2>2, CounterAlone DEF transport, HandshakeInv
<1>5. CASE link = c
    <2>1. phase = "ready" /\ inbox = <<>>
        BY <1>1, <1>5, ResumeWhenPending DEF CounterInv
    <2>2. PICK m \in Messages : m = Resumed(FALSE, 0) /\ m.type = "resumed"
        <3>1. Resumed(FALSE, 0) \in Messages /\ Resumed(FALSE, 0).type = "resumed"
            BY DEF Resumed, Messages
        <3>2. QED BY <3>1
    <2>3. \A i \in DOMAIN inbox' : i \in DOMAIN inbox \/ inbox'[i] = m
        BY <1>1, <2>2, PushOne DEF TypeInv, ClientTypes
    <2>4. \A i \in DOMAIN inbox' : ~IsData(i)'
        <3>1. m.type # "frame"
            BY <2>2
        <3>2. DOMAIN inbox = {}
            BY <2>1
        <3>3. \A i \in DOMAIN inbox' : inbox'[i] = m
            BY <2>3, <3>2
        <3>4. QED BY <3>1, <3>3 DEF IsData
    <2>5. resume'[link] = <<>>
        BY <1>2, <1>5
    <2>6. UNCHANGED <<link, phase, sessionId, pendingResumeSession, lastReplaySequence>>
        BY <1>1 DEF transport, identity
    <2>7. QED BY <1>3, <2>1, <2>4, <2>5, <2>6 DEF CounterInv
<1>6. QED BY <1>4, <1>5

LEMMA GrantedCounter ==
    ASSUME TypeInv, NumberInv, HandshakeInv, BufferInv, CounterInv, NEW c \in Conns,
           ResumeGranted(c)
    PROVE  CounterInv'
<1>1. PICK s \in Conns, replay \in Seq(Messages) :
          /\ resume[c] # <<>> /\ resume[c][1] \in Requests /\ s = resume[c][1].session
          /\ c \in open /\ c \in Accepted /\ sessionOf[c] = c
          /\ s \in Accepted /\ s < c /\ session[s].alive
          /\ session' = [session EXCEPT ![c] = NoSession]
          /\ sessionOf' = [sessionOf EXCEPT ![c] = s]
          /\ resume' = [resume EXCEPT ![c] = <<>>]
          /\ Push(c, replay)
          /\ replay # <<>> /\ replay[Len(replay)].type = "resumed"
          /\ replay[Len(replay)].recovered
          /\ \A i \in 1 .. Len(replay) - 1 :
                replay[i].type = "frame" /\ replay[i].frame \in ToSet(session[s].frames)
          /\ \A i, j \in 1 .. Len(replay) - 1 : i < j =>
                replay[i].frame.sequence < replay[j].frame.sequence
          /\ \A f \in ToSet(session[s].frames) : f.sequence > resume[c][1].last =>
                \E i \in 1 .. Len(replay) - 1 : replay[i] = Data(f)
          /\ UNCHANGED <<open, transport, identity, lane, sent, odd>>
    BY GrantedIs
<1>2. \A d \in Conns : /\ resume'[d] = IF d = c THEN <<>> ELSE resume[d]
                       /\ sessionOf'[d] = IF d = c THEN s ELSE sessionOf[d]
    BY <1>1 DEF TypeInv, ServerTypes
<1>3. Held' = Held
    BY <1>1 DEF Held, InLane, lane
<1>4. CASE link # c
    <2>1. inbox' = inbox
        BY <1>1, <1>4 DEF Push
    <2>2. link # None => resume'[link] = resume[link] /\ sessionOf'[link] = sessionOf[link]
        BY <1>2, <1>4 DEF TypeInv, ClientTypes
    <2>3. QED BY <1>1, <1>3, <2>1, <2>2, CounterAlone DEF transport, HandshakeInv
<1>5. CASE link = c
    <2>1. phase = "ready" /\ inbox = <<>> /\ s = pendingResumeSession
        BY <1>1, <1>5, ResumeWhenPending DEF CounterInv
    <2>. link = c /\ c \in open /\ replay # <<>> /\ Push(c, replay)
        BY <1>1, <1>5
    <2>2. PICK a \in Nat, b \in Nat \ {0} :
              /\ DOMAIN inbox = 1 .. a /\ DOMAIN replay = 1 .. b /\ b = Len(replay)
              /\ DOMAIN inbox' = 1 .. a + b
              /\ \A i \in 1 .. a : inbox'[i] = inbox[i]
              /\ \A i \in 1 .. b : inbox'[a + i] = replay[i]
              /\ \A i \in 1 .. a + b :
                    i \in 1 .. a \/ \E j \in 1 .. b : i = a + j
        BY ReplayPushed
    <2>3. \A f \in ToSet(session[s].frames) : f.session = s
        BY <1>1 DEF BufferInv, ToSet
    <2>4. ASSUME NEW i \in DOMAIN inbox', IsData(i)' PROVE inbox'[i].frame.session = s
        <3>1. i \notin 1 .. a
            <4>1. DOMAIN inbox = {}
                BY <2>1
            <4>2. QED BY <2>2, <4>1
        <3>2. PICK j \in 1 .. b : i = a + j
            BY <2>2, <3>1
        <3>3. inbox'[i] = replay[j]
            BY <2>2, <3>2
        <3>4. j # b
            BY <1>1, <2>2, <2>4, <3>3 DEF IsData
        <3>5. j \in 1 .. b - 1
            BY <3>4
        <3>6. QED BY <1>1, <2>2, <2>3, <3>3, <3>5
    <2>5. resume'[link] = <<>> /\ sessionOf'[link] = s
        BY <1>2, <1>5
    <2>6. UNCHANGED <<link, phase, sessionId, pendingResumeSession, lastReplaySequence>>
        BY <1>1 DEF transport, identity
    <2>7. QED BY <1>3, <2>1, <2>4, <2>5, <2>6 DEF CounterInv
<1>6. QED BY <1>4, <1>5

LEMMA SchemaCounter ==
    ASSUME TypeInv, NumberInv, HandshakeInv, CounterInv, ReceiveSchema
    PROVE  CounterInv'
<1>1. /\ phase = "connecting" /\ link \in Conns
      /\ inbox # <<>> /\ inbox' = Tail(inbox)
      /\ sessionId' = link /\ phase' = "ready"
      /\ sessionId # None =>
            /\ pendingResumeSession' = sessionId
            /\ IF link \in open /\ ~closed
               THEN \E q \in Seq(Requests) :
                       /\ q # <<>> /\ q[1].last = lastReplaySequence
                       /\ resume' = [resume EXCEPT ![link] = q]
               ELSE resume' = resume
      /\ sessionId = None => pendingResumeSession' = None /\ resume' = resume
      /\ UNCHANGED <<sessionOf, link, lastReplaySequence, lane>>
    BY SchemaIs
<1>2. Held' = Held /\ \A f \in Held : f.session # link
    BY <1>1 DEF Held, InLane, lane, CounterInv
<1>3. \A f \in Held : f.session # None
    BY LaneFrames DEF TypeInv, Frames
<1>4. resume[link] = <<>>
    BY <1>1 DEF HandshakeInv
<1>5. \A i \in DOMAIN inbox' : IsData(i)' => inbox'[i].frame.session = sessionOf[link]
    BY <1>1, StillThere DEF CounterInv, IsData
<1>6. CASE sessionId = None
    <2>1. pendingResumeSession' = None /\ resume'[link'] = <<>> /\ sessionId' = link'
        BY <1>1, <1>4, <1>6
    <2>2. QED BY <1>1, <1>2, <1>3, <1>5, <2>1 DEF CounterInv
<1>7. CASE sessionId # None
    <2>1. inbox' = <<>>
        <3>1. Len(inbox) = 1
            BY <1>1, <1>7 DEF CounterInv
        <3>2. inbox' \in Seq(Messages) /\ Len(inbox') = 0
            BY <1>1, <3>1, InboxTail DEF TypeInv, ClientTypes
        <3>3. QED BY <3>2, EmptySeq
    <2>2. resume'[link] # <<>> => resume'[link][1].last = lastReplaySequence
        BY <1>1, <1>4, <1>7 DEF TypeInv, ServerTypes
    <2>3. \A f \in Held' : f.session \in {sessionId', pendingResumeSession'} =>
              f.sequence <= lastReplaySequence'
        BY <1>1, <1>2, <1>7 DEF CounterInv
    <2>4. DOMAIN inbox' = {}
        BY <2>1
    <2>5. QED BY <1>1, <1>2, <2>1, <2>2, <2>3, <2>4 DEF CounterInv
<1>8. QED BY <1>6, <1>7

LEMMA FrameCounter ==
    ASSUME TypeInv, NumberInv, HandshakeInv, LaneInv, CounterInv, ReceiveFrame
    PROVE  CounterInv'
<1>1. PICK f \in Frames :
          /\ inbox # <<>> /\ f = Head(inbox).frame /\ inbox' = Tail(inbox)
          /\ Fresh(f) => /\ lastReplaySequence' =
                               IF f.sequence = 0 THEN lastReplaySequence ELSE f.sequence
                         /\ Handle(f, listenLock, packetQueue)
          /\ ~Fresh(f) => UNCHANGED <<lastReplaySequence, listenLock, packetQueue, running>>
          /\ UNCHANGED <<server, transport, sessionId, pendingResumeSession, delivered>>
    BY FrameIs
<1>2. /\ phase = "ready" /\ link # None
      /\ f.session = sessionOf[link]
      /\ pendingResumeSession # None => f.session # link
      /\ resume[link] = <<>>
    BY <1>1, ArrivedIsCounted
<1>3. Held' \subseteq Held \cup {f}
    <2>1. CASE Fresh(f)
        BY <1>1, <2>1, HandleFrames DEF TypeInv
    <2>2. CASE ~Fresh(f)
        BY <1>1, <2>2 DEF Held, InLane
    <2>3. QED BY <2>1, <2>2
<1>4. UNCHANGED <<sessionOf, resume, link, phase>>
    BY <1>1 DEF server, transport
<1>5. lastReplaySequence \in Nat /\ f.sequence \in Nat
    BY DEF TypeInv, ClientTypes, Frames
<1>6. lastReplaySequence <= lastReplaySequence'
    BY <1>1, <1>5 DEF Fresh
<1>7. Fresh(f) => f.sequence <= lastReplaySequence'
    BY <1>1, <1>5 DEF Fresh
<1>8. ~Fresh(f) => f.sequence <= lastReplaySequence'
    BY <1>1, <1>5 DEF Fresh
<1>9. ASSUME NEW g \in Held', g.session \in {sessionId, pendingResumeSession}
      PROVE  g.sequence <= lastReplaySequence'
    <2>1. CASE g = f
        BY <1>7, <1>8, <2>1
    <2>2. CASE g \in Held
        <3>1. g.sequence <= lastReplaySequence
            BY <1>9, <2>2 DEF CounterInv
        <3>2. g.sequence \in Int
            BY <2>2, LaneFrames DEF TypeInv, Frames
        <3>3. lastReplaySequence' \in Int
            BY <1>1, <1>5
        <3>4. QED BY <1>5, <1>6, <3>1, <3>2, <3>3
    <2>3. QED BY <1>3, <2>1, <2>2
<1>10. \A i \in DOMAIN inbox' : i + 1 \in DOMAIN inbox /\ inbox'[i] = inbox[i + 1]
    BY <1>1, StillThere
<1>11. \A i \in DOMAIN inbox' : IsData(i)' =>
           /\ inbox'[i].frame.session = sessionOf[link]
           /\ pendingResumeSession # None => sessionOf[link] = pendingResumeSession
    BY <1>2, <1>10 DEF CounterInv, IsData
<1>12. pendingResumeSession # None => \A g \in Held' : g.session # link
    BY <1>2, <1>3 DEF CounterInv
<1>13. QED BY <1>1, <1>2, <1>4, <1>9, <1>11, <1>12 DEF CounterInv

LEMMA ResumedCounter ==
    ASSUME TypeInv, NumberInv, HandshakeInv, CounterInv, ReceiveResumed
    PROVE  CounterInv'
<1>1. PICK ok \in BOOLEAN :
          /\ phase = "ready" /\ link # None
          /\ pendingResumeSession # None
          /\ inbox # <<>> /\ inbox' = Tail(inbox)
          /\ sessionId' = (IF ok THEN pendingResumeSession ELSE link)
          /\ pendingResumeSession' = None
          /\ lastReplaySequence' = (IF ok THEN lastReplaySequence ELSE 0)
          /\ resume[link] = <<>>
          /\ UNCHANGED <<server, transport, lane, sent, odd>>
    BY ResumedIs
<1>2. UNCHANGED <<sessionOf, resume, link, phase>>
    BY <1>1 DEF server, transport
<1>3. Held' = Held /\ \A f \in Held : f.session # None
    BY <1>1, LaneFrames DEF Held, InLane, lane, TypeInv, Frames
<1>4. \A f \in Held : f.session # link
    BY <1>1 DEF CounterInv
<1>5. \A f \in Held' : f.session \in {sessionId', pendingResumeSession'} =>
          f.sequence <= lastReplaySequence'
    <2>1. CASE ok
        BY <1>1, <1>3, <2>1 DEF CounterInv
    <2>2. CASE ~ok
        BY <1>1, <1>3, <1>4, <2>2
    <2>3. QED BY <2>1, <2>2
<1>6. \A i \in DOMAIN inbox' : IsData(i)' => inbox'[i].frame.session = sessionOf[link]
    BY <1>1, StillThere DEF CounterInv, IsData
<1>7. phase' = "ready" /\ pendingResumeSession' = None /\ resume'[link'] = <<>>
    BY <1>1, <1>2
<1>8. QED BY <1>2, <1>5, <1>6, <1>7 DEF CounterInv

LEMMA CounterStep ==
    ASSUME TypeInv, TypeInv', NumberInv, HandshakeInv, BufferInv, LaneInv, CounterInv, [Next]_vars,
           "earlySend" \notin odd'
    PROVE  CounterInv'
<1>1. CASE Accept
    BY <1>1, AcceptCounter
<1>2. ASSUME NEW c \in Conns, Send(c) PROVE CounterInv'
    <2>1. ~Undecided(c)
        BY <1>2 DEF Send
    <2>2. QED BY <1>2, <2>1, SendCounter
<1>3. ASSUME NEW c \in Conns, ResumeRefused(c) PROVE CounterInv'
    BY <1>3, RefusedCounter
<1>4. ASSUME NEW c \in Conns, ResumeGranted(c) PROVE CounterInv'
    BY <1>4, GrantedCounter
<1>5. CASE UNCHANGED vars \/ \E c \in Conns : ServerClose(c)
    <2>1. UNCHANGED <<inbox, link, phase, identity, sessionOf, resume, lane>>
        BY <1>5 DEF vars, server, transport, ServerClose
    <2>2. Held' = Held
        BY <2>1 DEF Held, InLane, lane
    <2>3. QED BY <2>1, <2>2, CounterAlone DEF HandshakeInv
<1>6. CASE Deliver \/ Listened \/ ListenerThrows
    <2>1. UNCHANGED <<inbox, link, phase, identity, sessionOf, resume>>
        BY <1>6 DEF Deliver, Listened, ListenerThrows, server, transport
    <2>2. CASE ReceiveFrame
        BY <2>2, FrameCounter
    <2>3. CASE ~ReceiveFrame
        BY <2>1, <2>3, FramesKept, CounterAlone DEF HandshakeInv
    <2>4. QED BY <2>2, <2>3
<1>7. CASE ReceiveSchema
    BY <1>7, SchemaCounter
<1>8. CASE ReceiveFrame
    BY <1>8, FrameCounter
<1>9. CASE ReceiveResumed
    BY <1>9, ResumedCounter
<1>10. ASSUME NEW retry \in BOOLEAN, TransportClosed(retry) PROVE CounterInv'
    <2>1. /\ link' = None /\ inbox' = <<>> /\ UNCHANGED <<identity, lane>>
          /\ phase' \in {"broken", "ended", "failed", "waiting"}
        BY <1>10 DEF TransportClosed, ScheduleReconnect
    <2>2. Held' = Held /\ DOMAIN inbox' = {} /\ phase' # "ready"
        BY <2>1 DEF Held, InLane, lane
    <2>3. QED BY <2>1, <2>2 DEF CounterInv, identity
<1>11. CASE BeginReconnect
    <2>1. /\ phase = "waiting" /\ phase' \in {"connecting", "failed", "waiting"}
          /\ UNCHANGED <<link, identity, inbox, lane>>
        BY <1>11 DEF BeginReconnect, ScheduleReconnect
    <2>2. Held' = Held
        BY <2>1 DEF Held, InLane, lane
    <2>3. link' = None /\ DOMAIN inbox' = {} /\ phase' # "ready"
        BY <2>1 DEF HandshakeInv
    <2>4. QED BY <2>1, <2>2, <2>3 DEF CounterInv, identity
<1>12. CASE Close
    <2>1. UNCHANGED <<server, link, identity, inbox, lane>>
          /\ phase' = IF phase = "waiting" THEN "ended" ELSE phase
        BY <1>12 DEF Close
    <2>2. Held' = Held
        BY <2>1 DEF Held, InLane, lane
    <2>3. CASE phase = "waiting"
        <3>1. link' = None /\ DOMAIN inbox' = {} /\ phase' = "ended"
            BY <2>1, <2>3 DEF HandshakeInv
        <3>2. QED BY <2>1, <2>2, <3>1 DEF CounterInv, identity
    <2>4. CASE phase # "waiting"
        BY <2>1, <2>2, <2>4, CounterAlone DEF server, HandshakeInv
    <2>5. QED BY <2>3, <2>4
<1>13. QED
    BY <1>1, <1>2, <1>3, <1>4, <1>5, <1>6, <1>7, <1>8, <1>9, <1>10, <1>11, <1>12 DEF Next

LEMMA OrderStep ==
    ASSUME TypeInv, TypeInv', NumberInv, HandshakeInv, OrderInv, BufferInv, LaneInv, [Next]_vars
    PROVE  OrderInv'
<1>1. odd \subseteq odd'
    BY DEF Next, Accept, Send, ResumeRefused, ResumeGranted, ServerClose, Deliver, Listened,
           ListenerThrows, ReceiveSchema, ReceiveFrame, ReceiveResumed, TransportClosed,
           BeginReconnect, Close, vars
<1>2. SUFFICES ASSUME "earlySend" \notin odd' PROVE LaneOrder' /\ CounterInv'
    BY DEF OrderInv
<1>3. LaneOrder /\ CounterInv
    BY <1>1, <1>2 DEF OrderInv
<1>4. CounterInv'
    BY <1>2, <1>3, CounterStep
<1>5. ReceiveFrame /\ Fresh(Head(inbox).frame) => \A g \in Held : Before(g, Head(inbox).frame)
    BY <1>3, FreshFollows
<1>6. LaneOrder'
    BY <1>3, <1>5, LaneOrderStep
<1>7. QED BY <1>4, <1>6

-----------------------------------------------------------------------------
(* Who asks for a replay *)

LEMMA AskingAlone ==
    ASSUME Asking, UNCHANGED <<link, phase, identity>>,
           \A c \in Conns : resume'[c] # <<>> => resume[c] # <<>>,
           link # None => session'[link].frames = session[link].frames
                          \/ session'[link].frames = <<>>
    PROVE  Asking'
BY DEF Asking, Undecided, identity

LEMMA AskingStep ==
    ASSUME TypeInv, NumberInv, HandshakeInv, BufferInv, Asking, [Next]_vars,
           "earlySend" \notin odd', "earlyLoss" \notin odd'
    PROVE  Asking'
<1>1. CASE Accept
    <2>1. PICK c \in Conns :
              /\ phase = "connecting" /\ link = None /\ link' = c
              /\ session' = [session EXCEPT ![c] = [NoSession EXCEPT !.alive = TRUE]]
              /\ UNCHANGED <<resume, phase, identity>>
        BY <1>1, AcceptIs
    <2>2. session'[c].frames = <<>>
        BY <2>1 DEF TypeInv, ServerTypes, NoSession
    <2>3. \A d \in Conns : resume[d] = <<>>
        BY <2>1 DEF Asking
    <2>4. QED BY <2>1, <2>2, <2>3 DEF Asking, identity
<1>2. ASSUME NEW c \in Conns, Send(c) PROVE Asking'
    <2>1. PICK s \in Conns, f \in Frames :
              /\ s = sessionOf[c] /\ c \in Accepted
              /\ f.session = s
              /\ Push(c, <<Data(f)>>)
              /\ session[s].alive =>
                    session' = [session EXCEPT ![s].sequence = f.sequence,
                                               ![s].frames = Keep(Append(@, f))]
              /\ ~session[s].alive => session' = session
              /\ UNCHANGED <<open, sessionOf, resume, transport, identity, lane>>
        BY <1>2, SendIs
    <2>2. ~Undecided(c)
        BY <1>2 DEF Send
    <2>3. UNCHANGED <<link, phase, pendingResumeSession, sessionId>>
        BY <2>1 DEF transport, identity
    <2>4. ASSUME link # None, Undecided(link) PROVE session'[link].frames = <<>>
        <3>1. link \in Accepted /\ link \in Conns /\ c <= link /\ c # link /\ s <= c
            BY <2>1, <2>2, <2>4 DEF NumberInv, TypeInv, ClientTypes
        <3>2. s # link
            BY <3>1
        <3>3. session'[link] = session[link]
            BY <2>1, <3>1, <3>2, RecordIs
        <3>4. QED BY <2>4, <3>3 DEF Asking
    <2>5. Undecided(link)' => Undecided(link)
        BY <2>3 DEF Undecided
    <2>6. QED BY <2>1, <2>3, <2>4, <2>5 DEF Asking
<1>3. ASSUME NEW c \in Conns, ResumeRefused(c) PROVE Asking'
    <2>1. resume' = [resume EXCEPT ![c] = <<>>] /\ UNCHANGED <<link, phase, identity, session>>
        BY <1>3 DEF ResumeRefused, transport
    <2>2. \A d \in Conns : resume'[d] # <<>> => resume[d] # <<>>
        BY <2>1 DEF TypeInv, ServerTypes
    <2>3. QED BY <2>1, <2>2, AskingAlone
<1>4. ASSUME NEW c \in Conns, ResumeGranted(c) PROVE Asking'
    <2>1. /\ resume' = [resume EXCEPT ![c] = <<>>] /\ UNCHANGED <<link, phase, identity>>
          /\ session' = [session EXCEPT ![c] = NoSession]
        BY <1>4, GrantedIs DEF transport
    <2>2. \A d \in Conns : /\ resume'[d] # <<>> => resume[d] # <<>>
                           /\ session'[d] = session[d] \/ session'[d].frames = <<>>
        BY <2>1 DEF TypeInv, ServerTypes, NoSession
    <2>3. link # None => link \in Conns
        BY DEF TypeInv, ClientTypes
    <2>4. QED BY <2>1, <2>2, <2>3, AskingAlone
<1>5. CASE \/ UNCHANGED vars \/ ReceiveFrame \/ Deliver \/ Listened \/ ListenerThrows
           \/ \E c \in Conns : ServerClose(c)
    <2>1. UNCHANGED <<resume, session, link, phase, sessionId, pendingResumeSession>>
        BY <1>5 DEF vars, ReceiveFrame, Deliver, Listened, ListenerThrows, ServerClose, server,
                    transport, identity
    <2>2. QED BY <2>1 DEF Asking, Undecided
<1>6. CASE ReceiveSchema
    <2>1. /\ phase = "connecting" /\ link \in Conns
          /\ phase' = "ready"
          /\ sessionId # None =>
                /\ pendingResumeSession' = sessionId
                /\ IF link \in open /\ ~closed
                   THEN \E q \in Seq(Requests) : resume' = [resume EXCEPT ![link] = q]
                   ELSE resume' = resume
          /\ sessionId = None => pendingResumeSession' = None /\ resume' = resume
          /\ UNCHANGED <<session, link>>
        BY <1>6, SchemaIs
    <2>2. \A d \in Conns : d # link => resume'[d] = resume[d]
        BY <2>1 DEF TypeInv, ServerTypes
    <2>3. Undecided(link)' => Undecided(link)
        BY <2>1 DEF Undecided
    <2>4. QED BY <2>1, <2>2, <2>3 DEF Asking
<1>7. CASE ReceiveResumed
    <2>1. UNCHANGED <<server, transport>> /\ pendingResumeSession' = None /\ phase = "ready"
        BY <1>7, ResumedIs
    <2>2. ~Undecided(link)'
        BY <2>1 DEF Undecided, transport
    <2>3. QED BY <2>1, <2>2 DEF Asking, server, transport
<1>8. ASSUME NEW retry \in BOOLEAN, TransportClosed(retry) PROVE Asking'
    <2>1. link' = None /\ UNCHANGED <<server, identity>> /\ pendingResumeSession = None
        BY <1>8 DEF TransportClosed
    <2>2. \A c \in Conns : resume[c] = <<>>
        <3>1. ASSUME NEW c \in Conns, resume[c] # <<>> PROVE FALSE
            <4>1. c = link /\ link # None
                BY <3>1 DEF Asking
            <4>2. pendingResumeSession # None
                BY <3>1, <4>1, ResumeWhenPending
            <4>3. QED BY <2>1, <4>2
        <3>2. QED BY <3>1
    <2>3. QED BY <2>1, <2>2 DEF Asking, server, identity
<1>9. CASE BeginReconnect \/ Close
    <2>1. UNCHANGED <<server, link, identity>> /\ (phase' = phase \/ phase = "waiting")
        BY <1>9 DEF BeginReconnect, Close
    <2>2. CASE phase' = phase
        BY <2>1, <2>2, AskingAlone DEF server
    <2>3. CASE phase = "waiting"
        <3>1. link = None /\ pendingResumeSession = None
            BY <2>3 DEF HandshakeInv, Asking
        <3>2. QED BY <2>1, <3>1 DEF Asking, server, identity
    <2>4. QED BY <2>1, <2>2, <2>3
<1>10. QED
    BY <1>1, <1>2, <1>3, <1>4, <1>5, <1>6, <1>7, <1>8, <1>9 DEF Next

-----------------------------------------------------------------------------
(* The frames on the wire *)

\* The session that the client counts, when it has one.
LEMMA CurrentIs ==
    ASSUME TypeInv, NumberInv, HandshakeInv, Asking
    PROVE  /\ Current \in Accepted \cup {None}
           /\ link # None /\ ~Undecided(link) => sessionOf[link] = Current
           /\ pendingResumeSession # None => Current = pendingResumeSession
           /\ pendingResumeSession = None /\ sessionId # None => Current = sessionId
           /\ pendingResumeSession = None /\ sessionId = None => Current = link
<1>1. Current \in Accepted \cup {None}
    BY DEF Current, NumberInv
<1>2. ASSUME link # None, ~Undecided(link) PROVE sessionOf[link] = Current
    <2>1. pendingResumeSession = None
        BY <1>2 DEF Undecided
    <2>2. CASE phase = "connecting"
        <3>1. sessionId = None /\ sessionOf[link] = link
            BY <1>2, <2>2 DEF Undecided, HandshakeInv
        <3>2. QED BY <2>1, <3>1 DEF Current
    <2>3. CASE phase = "ready"
        <3>1. sessionId # None /\ sessionOf[link] = sessionId
            BY <2>1, <2>3 DEF HandshakeInv
        <3>2. QED BY <2>1, <3>1 DEF Current
    <2>4. QED BY <1>2, <2>2, <2>3 DEF HandshakeInv
<1>3. QED BY <1>1, <1>2 DEF Current

\* What the buffer of the client's session holds.
LEMMA RetainedIs ==
    ASSUME TypeInv, BufferInv, NEW cur \in Conns, cur = Current, session[cur].alive
    PROVE  \A f \in Retained :
              /\ f \in Frames /\ f.session = cur /\ f.sequence \in Nat
              /\ f.sequence > 0 /\ f.sequence <= session[cur].sequence
<1>1. PICK frames \in Seq(Frames), q \in Nat :
          frames = session[cur].frames /\ q = session[cur].sequence
    <2>1. session[cur] \in Sessions
        BY DEF TypeInv, ServerTypes
    <2>2. session[cur].frames \in Seq(Frames) /\ session[cur].sequence \in 0 .. MaxSends
        BY <2>1 DEF Sessions
    <2>3. session[cur].sequence \in Nat
        BY <2>2
    <2>4. QED BY <2>2, <2>3
<1>2. PICK n \in Nat : n = Len(frames) /\ DOMAIN frames = 1 .. n
    OBVIOUS
<1>3. n <= q /\ \A i \in 1 .. n : frames[i].session = cur /\ frames[i].sequence = q - n + i
    BY <1>1, <1>2 DEF BufferInv
<1>4. \A i \in 1 .. n : q - n + i > 0 /\ q - n + i <= q
    BY <1>3
<1>5. ASSUME NEW f \in Retained
      PROVE  /\ f \in Frames /\ f.session = cur /\ f.sequence \in Nat
             /\ f.sequence > 0 /\ f.sequence <= q
    <2>1. PICK i \in 1 .. n : f = frames[i]
        BY <1>1, <1>2 DEF Retained, ToSet
    <2>2. f \in Frames
        BY <1>2, <2>1
    <2>3. f.sequence \in Nat
        BY <2>2 DEF Frames
    <2>4. QED BY <1>3, <1>4, <2>1, <2>2, <2>3
<1>6. QED BY <1>1, <1>5

\* Steps that move only what is not data.
LEMMA CompleteAlone ==
    ASSUME TypeInv, BufferInv, Complete,
           NEW cur \in Conns, cur = Current, Current' = cur, session'[cur] = session[cur],
           UNCHANGED lastReplaySequence, Received \subseteq Received',
           \A i \in DOMAIN inbox' : IsData(i)' =>
               \E k \in DOMAIN inbox : inbox'[i] = inbox[k],
           \/ \A k \in DOMAIN inbox : IsData(k) => \E i \in DOMAIN inbox' : inbox'[i] = inbox[k]
           \/ DOMAIN inbox' = {} /\ link' \notin open',
           link' \in open' /\ sessionOf'[link'] = cur => link \in open /\ sessionOf[link] = cur
    PROVE  Complete'
<1>1. SUFFICES ASSUME session[cur].alive PROVE Complete'
    BY DEF Complete
<1>2. cur # None /\ Retained' = Retained
    BY DEF Retained
<1>3. /\ lastReplaySequence <= session[cur].sequence
      /\ \A f \in Retained : f.sequence <= lastReplaySequence => f \in Received
      /\ \A i \in DOMAIN inbox : IsData(i) => inbox[i].frame.sequence <= session[cur].sequence
      /\ \A i \in DOMAIN inbox, f \in Retained :
            IsData(i) /\ lastReplaySequence < f.sequence /\ f.sequence < inbox[i].frame.sequence
            => OnWire(f)
      /\ link \in open /\ sessionOf[link] = cur =>
            \A f \in Retained : lastReplaySequence < f.sequence => OnWire(f)
    BY <1>1, <1>2 DEF Complete
<1>4. \A i \in DOMAIN inbox' : IsData(i)' =>
          \E k \in DOMAIN inbox : inbox'[i] = inbox[k] /\ IsData(k)
    BY DEF IsData
<1>5. \A i \in DOMAIN inbox' : IsData(i)' => inbox'[i].frame.sequence <= session[cur].sequence
    BY <1>3, <1>4
<1>6. CASE \A k \in DOMAIN inbox : IsData(k) => \E i \in DOMAIN inbox' : inbox'[i] = inbox[k]
    <2>1. ASSUME NEW f \in Retained, OnWire(f) PROVE OnWire(f)'
        <3>1. PICK k \in DOMAIN inbox : inbox[k] = Data(f)
            BY <2>1 DEF OnWire
        <3>2. IsData(k)
            BY <1>1, <3>1, RetainedIs, MessageKinds DEF IsData
        <3>3. QED BY <1>6, <3>1, <3>2 DEF OnWire
    <2>2. \A i \in DOMAIN inbox', f \in Retained :
              IsData(i)' /\ lastReplaySequence < f.sequence /\ f.sequence < inbox'[i].frame.sequence
              => OnWire(f)'
        BY <1>3, <1>4, <2>1
    <2>3. link' \in open' /\ sessionOf'[link'] = cur =>
              \A f \in Retained : lastReplaySequence < f.sequence => OnWire(f)'
        BY <1>3, <2>1
    <2>4. QED BY <1>2, <1>3, <1>5, <2>2, <2>3 DEF Complete
<1>7. CASE DOMAIN inbox' = {} /\ link' \notin open'
    BY <1>2, <1>3, <1>7 DEF Complete
<1>8. QED BY <1>6, <1>7

LEMMA TailAscending ==
    ASSUME TypeInv, Ascending, inbox # <<>>, inbox' = Tail(inbox)
    PROVE  Ascending'
<1>1. \A i \in DOMAIN inbox' : i + 1 \in DOMAIN inbox /\ inbox'[i] = inbox[i + 1]
    BY StillThere
<1>2. DOMAIN inbox' \subseteq Nat
    BY InboxTail DEF TypeInv, ClientTypes
<1>3. \A i, j \in DOMAIN inbox' : i < j => i + 1 < j + 1
    BY <1>2
<1>4. QED BY <1>1, <1>3 DEF Ascending, IsData

\* The session a frame is sent in, when the client is to receive it.
LEMMA SentToClient ==
    ASSUME TypeInv, NumberInv, HandshakeInv, Asking, CounterInv,
           NEW c \in Conns, Send(c), link = c, "earlySend" \notin odd'
    PROVE  sessionOf[c] = Current /\ \A i \in DOMAIN inbox : IsData(i) => inbox[i].frame.session = Current
<1>1. ~Undecided(c) /\ link # None
    BY DEF Send
<1>2. sessionOf[c] = Current
    BY <1>1, CurrentIs
<1>3. QED BY <1>2 DEF CounterInv

LEMMA SendAscending ==
    ASSUME TypeInv, NumberInv, HandshakeInv, Asking, CounterInv, Ascending, Complete,
           NEW c \in Conns, Send(c), "earlySend" \notin odd'
    PROVE  Ascending'
<1>1. PICK s \in Conns, f \in Frames :
          /\ s = sessionOf[c] /\ c \in Accepted
          /\ f.session = s
          /\ f.sequence = IF session[s].alive THEN session[s].sequence + 1 ELSE 0
          /\ Push(c, <<Data(f)>>)
    BY SendIs
<1>2. CASE ~(link = c /\ c \in open)
    <2>1. inbox' = inbox
        BY <1>1, <1>2 DEF Push
    <2>2. QED BY <2>1 DEF Ascending, IsData
<1>3. CASE link = c /\ c \in open
    <2>1. PICK m \in Messages : m = Data(f) /\ m.type = "frame" /\ m.frame = f
        BY MessageKinds
    <2>2. PICK n \in Nat : n = Len(inbox) /\ DOMAIN inbox = 1 .. n
        BY DEF TypeInv, ClientTypes
    <2>3. \A i \in DOMAIN inbox' : \/ i \in 1 .. n /\ inbox'[i] = inbox[i]
                                   \/ inbox'[i] = m /\ i = n + 1
        BY <1>1, <2>1, <2>2, PushOne DEF TypeInv, ClientTypes
    <2>4. s = Current /\ \A i \in DOMAIN inbox : IsData(i) => inbox[i].frame.session = s
        BY <1>1, <1>3, SentToClient
    <2>5. ASSUME NEW i \in DOMAIN inbox, IsData(i) PROVE Before(inbox[i].frame, f)
        <3>1. CASE session[s].alive
            <4>1. inbox[i].frame.sequence <= session[s].sequence
                BY <2>4, <2>5, <3>1 DEF Complete
            <4>2. inbox[i].frame \in Frames
                BY <2>5, MessageKinds DEF IsData, TypeInv, ClientTypes
            <4>3. inbox[i].frame.sequence \in Int
                BY <4>2 DEF Frames
            <4>4. session[s] \in Sessions
                <5>1. session \in [Conns -> Sessions] /\ sessionOf \in [Conns -> Conns \cup {None}]
                    BY DEF TypeInv, ServerTypes
                <5>2. QED BY <1>1, <5>1 DEF Accepted
            <4>5. session[s].sequence \in Int
                BY <4>4 DEF Sessions
            <4>6. QED BY <1>1, <3>1, <4>1, <4>3, <4>5 DEF Before
        <3>2. CASE ~session[s].alive
            BY <1>1, <3>2 DEF Before
        <3>3. QED BY <3>1, <3>2
    <2>6. ASSUME NEW i \in DOMAIN inbox', NEW j \in DOMAIN inbox', IsData(i)', IsData(j)', i < j
          PROVE  Before(inbox'[i].frame, inbox'[j].frame)
        <3>1. i \in DOMAIN inbox /\ inbox'[i] = inbox[i] /\ IsData(i)
            <4>1. i \in 1 .. n /\ inbox'[i] = inbox[i]
                BY <2>3, <2>6
            <4>2. QED BY <2>2, <2>6, <4>1 DEF IsData
        <3>2. CASE j \in DOMAIN inbox /\ inbox'[j] = inbox[j]
            BY <2>6, <3>1, <3>2 DEF Ascending, IsData
        <3>3. CASE inbox'[j] = m
            BY <2>1, <2>5, <3>1, <3>3
        <3>4. QED BY <2>2, <2>3, <3>2, <3>3
    <2>7. QED BY <2>6 DEF Ascending
<1>4. QED BY <1>2, <1>3

\* The replay of a granted resumption is all there is on the wire.
LEMMA ReplayOnWire ==
    ASSUME TypeInv, NumberInv, HandshakeInv, BufferInv, CounterInv, Asking,
           NEW c \in Conns, ResumeGranted(c)
    PROVE  \E s \in Conns :
              /\ c = link /\ c \in open /\ session[s].alive /\ s = Current
              /\ s = pendingResumeSession
              /\ session' = [session EXCEPT ![c] = NoSession] /\ s # c
              /\ sessionOf' = [sessionOf EXCEPT ![c] = s]
              /\ DOMAIN inbox' \subseteq Nat
              /\ \A i \in DOMAIN inbox' : IsData(i)' =>
                    inbox'[i].frame \in ToSet(session[s].frames)
              /\ \A i, j \in DOMAIN inbox' : IsData(i)' /\ IsData(j)' /\ i < j =>
                    inbox'[i].frame.sequence < inbox'[j].frame.sequence
              /\ \A f \in ToSet(session[s].frames) : f.sequence > lastReplaySequence =>
                    OnWire(f)'
              /\ UNCHANGED <<open, transport, identity, lane>>
<1>1. c = link /\ link # None
    BY DEF ResumeGranted, Asking
<1>2. PICK s \in Conns, replay \in Seq(Messages) :
          /\ resume[c] # <<>> /\ resume[c][1] \in Requests /\ s = resume[c][1].session
          /\ c \in open /\ c \in Accepted /\ sessionOf[c] = c
          /\ s \in Accepted /\ s < c /\ session[s].alive
          /\ session' = [session EXCEPT ![c] = NoSession]
          /\ sessionOf' = [sessionOf EXCEPT ![c] = s]
          /\ resume' = [resume EXCEPT ![c] = <<>>]
          /\ Push(c, replay)
          /\ replay # <<>> /\ replay[Len(replay)].type = "resumed"
          /\ replay[Len(replay)].recovered
          /\ \A i \in 1 .. Len(replay) - 1 :
                replay[i].type = "frame" /\ replay[i].frame \in ToSet(session[s].frames)
          /\ \A i, j \in 1 .. Len(replay) - 1 : i < j =>
                replay[i].frame.sequence < replay[j].frame.sequence
          /\ \A f \in ToSet(session[s].frames) : f.sequence > resume[c][1].last =>
                \E i \in 1 .. Len(replay) - 1 : replay[i] = Data(f)
          /\ UNCHANGED <<open, transport, identity, lane, sent, odd>>
    BY GrantedIs
<1>3. s = pendingResumeSession /\ phase = "ready" /\ pendingResumeSession # None
    BY <1>1, <1>2, ResumeWhenPending
<1>4. inbox = <<>> /\ resume[c][1].last = lastReplaySequence
    BY <1>1, <1>2, <1>3 DEF CounterInv
<1>5. link = c /\ c \in open /\ replay # <<>> /\ Push(c, replay)
    BY <1>1, <1>2
<1>6. PICK a \in Nat, b \in Nat \ {0} :
          /\ DOMAIN inbox = 1 .. a /\ DOMAIN replay = 1 .. b /\ b = Len(replay)
          /\ DOMAIN inbox' = 1 .. a + b
          /\ \A i \in 1 .. a : inbox'[i] = inbox[i]
          /\ \A i \in 1 .. b : inbox'[a + i] = replay[i]
          /\ \A i \in 1 .. a + b :
                i \in 1 .. a \/ \E j \in 1 .. b : i = a + j
    BY <1>5, ReplayPushed
<1>7. a = 0
    <2>1. DOMAIN inbox = {}
        BY <1>4
    <2>2. QED BY <1>6, <2>1
<1>8. DOMAIN inbox' = 1 .. b /\ \A i \in 1 .. b : inbox'[i] = replay[i]
    BY <1>6, <1>7
<1>9. \A i \in 1 .. b : replay[i].type = "frame" => i \in 1 .. b - 1
    <2>1. ASSUME NEW i \in 1 .. b, replay[i].type = "frame" PROVE i \in 1 .. b - 1
        <3>1. i # b
            BY <1>2, <1>6, <2>1
        <3>2. QED BY <3>1
    <2>2. QED BY <2>1
<1>10. \A i \in DOMAIN inbox' : IsData(i)' => i \in 1 .. b - 1 /\ inbox'[i] = replay[i]
    BY <1>8, <1>9 DEF IsData
<1>11. \A f \in ToSet(session[s].frames) : f.sequence > lastReplaySequence => OnWire(f)'
    <2>1. \A i \in 1 .. b - 1 : i \in DOMAIN inbox' /\ inbox'[i] = replay[i]
        BY <1>8
    <2>2. ASSUME NEW f \in ToSet(session[s].frames), f.sequence > lastReplaySequence
          PROVE  OnWire(f)'
        <3>1. f.sequence > resume[c][1].last
            BY <1>4, <2>2
        <3>2. PICK i \in 1 .. b - 1 : replay[i] = Data(f)
            BY <1>2, <1>6, <3>1
        <3>3. i \in DOMAIN inbox' /\ inbox'[i] = Data(f)
            BY <2>1, <3>2
        <3>4. QED BY <3>3 DEF OnWire
    <2>3. QED BY <2>2
<1>12. s # c /\ s = Current /\ DOMAIN inbox' \subseteq Nat
    BY <1>2, <1>3, <1>8 DEF Current
<1>13. \A i \in DOMAIN inbox' : IsData(i)' => inbox'[i].frame \in ToSet(session[s].frames)
    BY <1>2, <1>6, <1>10
<1>14. \A i, j \in DOMAIN inbox' : IsData(i)' /\ IsData(j)' /\ i < j =>
           inbox'[i].frame.sequence < inbox'[j].frame.sequence
    BY <1>2, <1>6, <1>10
<1>15. QED BY <1>1, <1>2, <1>3, <1>11, <1>12, <1>13, <1>14

LEMMA AscendingStep ==
    ASSUME TypeInv, NumberInv, HandshakeInv, BufferInv, CounterInv, Asking, Ascending, Complete,
           [Next]_vars, "earlySend" \notin odd'
    PROVE  Ascending'
<1>1. CASE Accept
    <2>1. PICK c \in Conns : inbox' = <<Schema(c)>>
        BY <1>1, AcceptIs
    <2>2. DOMAIN inbox' = {1}
        BY <2>1, MessageKinds, OneElement
    <2>3. QED BY <2>2 DEF Ascending
<1>2. ASSUME NEW c \in Conns, Send(c) PROVE Ascending'
    BY <1>2, SendAscending
<1>3. ASSUME NEW c \in Conns, ResumeRefused(c) PROVE Ascending'
    <2>1. Push(c, <<Resumed(FALSE, 0)>>)
        BY <1>3 DEF ResumeRefused
    <2>2. PICK m \in Messages : m = Resumed(FALSE, 0) /\ m.type = "resumed"
        <3>1. Resumed(FALSE, 0) \in Messages /\ Resumed(FALSE, 0).type = "resumed"
            BY DEF Resumed, Messages
        <3>2. QED BY <3>1
    <2>3. \A i \in DOMAIN inbox' : (i \in DOMAIN inbox /\ inbox'[i] = inbox[i]) \/ inbox'[i] = m
        BY <2>1, <2>2, PushOne DEF TypeInv, ClientTypes
    <2>4. \A i \in DOMAIN inbox' : IsData(i)' =>
              i \in DOMAIN inbox /\ inbox'[i] = inbox[i] /\ IsData(i)
        BY <2>2, <2>3 DEF IsData
    <2>5. QED BY <2>4 DEF Ascending
<1>4. ASSUME NEW c \in Conns, ResumeGranted(c) PROVE Ascending'
    <2>1. PICK s \in Conns :
              /\ session[s].alive /\ s = Current
              /\ \A i \in DOMAIN inbox' : IsData(i)' =>
                    inbox'[i].frame \in ToSet(session[s].frames)
              /\ \A i, j \in DOMAIN inbox' : IsData(i)' /\ IsData(j)' /\ i < j =>
                    inbox'[i].frame.sequence < inbox'[j].frame.sequence
        BY <1>4, ReplayOnWire
    <2>2. QED BY <2>1 DEF Ascending, Before
<1>5. CASE ReceiveSchema \/ ReceiveFrame \/ ReceiveResumed
    <2>1. inbox # <<>> /\ inbox' = Tail(inbox)
        BY <1>5 DEF ReceiveSchema, ReceiveFrame, ReceiveResumed, Arrives
    <2>2. QED BY <2>1, TailAscending
<1>6. CASE inbox' = inbox
    BY <1>6 DEF Ascending, IsData
<1>7. CASE \E retry \in BOOLEAN : TransportClosed(retry)
    <2>1. inbox' = <<>>
        BY <1>7 DEF TransportClosed
    <2>2. DOMAIN inbox' = {}
        BY <2>1
    <2>3. QED BY <2>2 DEF Ascending
<1>8. QED
    BY <1>1, <1>2, <1>3, <1>4, <1>5, <1>6, <1>7
    DEF Next, ServerClose, Deliver, Listened, ListenerThrows, BeginReconnect, Close, vars

-----------------------------------------------------------------------------
(* The replay is complete *)

LEMMA AcceptComplete ==
    ASSUME TypeInv, NumberInv, HandshakeInv, BufferInv, Asking, Complete, Accept
    PROVE  Complete'
<1>1. PICK c \in Conns :
          /\ Accepted = 1 .. c - 1
          /\ phase = "connecting" /\ link = None
          /\ open' = open \cup {c} /\ link' = c /\ inbox' = <<Schema(c)>>
          /\ sessionOf' = [sessionOf EXCEPT ![c] = c]
          /\ session' = [session EXCEPT ![c] = [NoSession EXCEPT !.alive = TRUE]]
          /\ UNCHANGED <<identity, lane>>
    BY AcceptIs
<1>2. /\ \A d \in Conns : d # c => session'[d] = session[d]
      /\ session'[c].frames = <<>> /\ session'[c].sequence = 0 /\ sessionOf'[c] = c
    BY <1>1 DEF TypeInv, ServerTypes, NoSession
<1>3. PICK m \in Messages : m = Schema(c) /\ m.type = "schema"
    BY MessageKinds
<1>4. \A i \in DOMAIN inbox' : ~IsData(i)'
    <2>1. inbox' = <<m>>
        BY <1>1, <1>3
    <2>2. DOMAIN inbox' = {1} /\ inbox'[1] = m
        BY <2>1, OneElement
    <2>3. QED BY <1>3, <2>2 DEF IsData
<1>5. pendingResumeSession = None /\ DOMAIN inbox = {}
    BY <1>1 DEF Asking, HandshakeInv
<1>6. Received' = Received
    BY <1>1 DEF Received, InLane, lane
<1>7. CASE sessionId = None
    <2>1. Current' = c /\ lastReplaySequence' = 0
        BY <1>1, <1>5, <1>7 DEF Current, identity, HandshakeInv
    <2>2. Retained' = {}
        BY <1>2, <2>1 DEF Retained, ToSet
    <2>3. lastReplaySequence' <= session'[Current'].sequence
        BY <1>2, <2>1
    <2>4. QED BY <1>4, <2>2, <2>3 DEF Complete
<1>8. CASE sessionId # None
    <2>1. PICK cur \in Conns : cur = Current /\ cur = sessionId
        BY <1>5, <1>8 DEF Current, TypeInv, ClientTypes
    <2>2. Current' = cur /\ cur # c
        <3>1. cur \in Accepted
            BY <1>8, <2>1 DEF NumberInv
        <3>2. QED BY <1>1, <1>5, <1>8, <2>1, <3>1 DEF Current, identity
    <2>3. session'[cur] = session[cur] /\ sessionOf'[link'] # cur /\ UNCHANGED lastReplaySequence
        BY <1>1, <1>2, <2>2 DEF identity
    <2>4. QED BY <1>4, <1>5, <1>6, <2>1, <2>2, <2>3, CompleteAlone
<1>9. QED BY <1>7, <1>8

LEMMA Numbers ==
    ASSUME TypeInv
    PROVE  /\ lastReplaySequence \in Nat
           /\ \A s \in Conns : session[s].sequence \in Nat
           /\ \A i \in DOMAIN inbox : IsData(i) => inbox[i].frame.sequence \in Nat
<1>1. lastReplaySequence \in Nat /\ MaxSends \in Nat
    BY DEF TypeInv, ClientTypes
<1>2. ASSUME NEW s \in Conns PROVE session[s].sequence \in Nat
    <2>1. session[s] \in Sessions
        BY DEF TypeInv, ServerTypes
    <2>2. QED BY <1>1, <2>1 DEF Sessions
<1>3. ASSUME NEW i \in DOMAIN inbox, IsData(i) PROVE inbox[i].frame.sequence \in Nat
    <2>1. inbox[i] \in Messages
        BY DEF TypeInv, ClientTypes
    <2>2. inbox[i].frame \in Frames
        BY <1>3, <2>1, MessageKinds DEF IsData
    <2>3. QED BY <1>1, <2>2 DEF Frames
<1>4. QED BY <1>1, <1>2, <1>3

\* What recording a frame adds to the buffer.
LEMMA RecordAdds ==
    ASSUME TypeInv, NEW s \in Conns, NEW f \in Frames, session[s].alive,
           session' = [session EXCEPT ![s].sequence = f.sequence,
                                      ![s].frames = Keep(Append(@, f))]
    PROVE  ToSet(session'[s].frames) \subseteq ToSet(session[s].frames) \cup {f}
<1>1. session'[s].frames = Keep(Append(session[s].frames, f))
    BY RecordIs
<1>2. PICK frames \in Seq(Frames) : frames = session[s].frames /\ Len(frames) <= MaxPackets
    BY DEF TypeInv, ServerTypes, Sessions
<1>3. PICK n \in Nat : n = Len(frames) /\ DOMAIN frames = 1 .. n
    OBVIOUS
<1>4. PICK d \in {0, 1} :
          /\ d <= Len(frames) + 1
          /\ Len(Keep(Append(frames, f))) = Len(frames) + 1 - d
          /\ \A i \in 1 .. Len(frames) + 1 - d :
                Keep(Append(frames, f))[i] =
                    IF i = Len(frames) + 1 - d THEN f ELSE frames[i + d]
    <2>1. Len(frames) <= MaxPackets
        BY <1>2
    <2>2. QED BY <2>1, KeepIs
<1>5. PICK kept \in Seq(Frames) : kept = Keep(Append(frames, f)) /\ DOMAIN kept = 1 .. n + 1 - d
    <2>1. Keep(Append(frames, f)) \in Seq(Frames)
        BY <1>2, KeepIs
    <2>2. QED BY <1>3, <1>4, <2>1
<1>6. ASSUME NEW i \in 1 .. n + 1 - d
      PROVE  Keep(Append(frames, f))[i] \in ToSet(frames) \cup {f}
    <2>1. CASE i = n + 1 - d
        BY <1>3, <1>4, <2>1
    <2>2. CASE i # n + 1 - d
        <3>1. Keep(Append(frames, f))[i] = frames[i + d]
            BY <1>3, <1>4, <2>2
        <3>2. i + d \in 1 .. n
            <4>1. d \in 0 .. 1
                OBVIOUS
            <4>2. QED BY <1>3, <2>2, <4>1
        <3>3. QED BY <1>3, <3>1, <3>2 DEF ToSet
    <2>3. QED BY <2>1, <2>2
<1>7. ToSet(kept) \subseteq ToSet(frames) \cup {f}
    <2>1. \A i \in DOMAIN kept : kept[i] \in ToSet(frames) \cup {f}
        BY <1>5, <1>6
    <2>2. ToSet(kept) = {kept[i] : i \in DOMAIN kept}
        BY DEF ToSet
    <2>3. QED BY <2>1, <2>2
<1>8. QED BY <1>1, <1>2, <1>5, <1>7

\* A frame sent in the session the client counts is on the wire, or the client
\* is not on a transport of that session.
LEMMA SendComplete ==
    ASSUME TypeInv, TypeInv', NumberInv, HandshakeInv, BufferInv, CounterInv, Asking, Complete,
           NEW c \in Conns, Send(c), "earlySend" \notin odd', "staleSend" \notin odd'
    PROVE  Complete'
<1>1. PICK s \in Conns, f \in Frames :
          /\ s = sessionOf[c] /\ c \in Accepted
          /\ f.session = s
          /\ f.sequence = IF session[s].alive THEN session[s].sequence + 1 ELSE 0
          /\ Push(c, <<Data(f)>>)
          /\ session[s].alive =>
                session' = [session EXCEPT ![s].sequence = f.sequence,
                                           ![s].frames = Keep(Append(@, f))]
          /\ ~session[s].alive => session' = session
          /\ UNCHANGED <<open, sessionOf, resume, transport, identity, lane>>
    BY SendIs
<1>2. ~Undecided(c) /\ ~Superseded(c)
    BY DEF Send
<1>3. UNCHANGED <<link, phase, sessionId, pendingResumeSession, lastReplaySequence, open,
                  sessionOf>> /\ Received' = Received /\ Current' = Current
    BY <1>1 DEF transport, identity, lane, Received, InLane, Current
<1>4. link = c => s = Current
    BY <1>1, SentToClient
<1>5. SUFFICES ASSUME NEW cur \in Conns, cur = Current PROVE Complete'
    <2>1. Current \in Conns \/ Current = None
        BY CurrentIs DEF Accepted
    <2>2. QED BY <1>3, <2>1 DEF Complete
<1>6. CASE link # c
    <2>1. inbox' = inbox
        BY <1>1, <1>6 DEF Push
    <2>2. CASE session'[cur] = session[cur]
        <3>1. \A i \in DOMAIN inbox' : IsData(i)' => \E k \in DOMAIN inbox : inbox'[i] = inbox[k]
            BY <2>1
        <3>2. \A k \in DOMAIN inbox : IsData(k) => \E i \in DOMAIN inbox' : inbox'[i] = inbox[k]
            BY <2>1
        <3>3. QED BY <1>3, <1>5, <2>2, <3>1, <3>2, CompleteAlone
    <2>3. CASE session'[cur] # session[cur]
        <3>1. s = cur /\ session[s].alive
            BY <1>1, <2>3, RecordIs
        <3>2. PICK q \in Nat : q = session[cur].sequence
            BY Numbers
        <3>3. f.sequence = q + 1 /\ session'[cur].sequence = q + 1
              /\ ToSet(session'[cur].frames) \subseteq ToSet(session[cur].frames) \cup {f}
            <4>1. session' = [session EXCEPT ![s].sequence = f.sequence,
                                             ![s].frames = Keep(Append(@, f))]
                BY <1>1, <3>1
            <4>2. f.sequence = q + 1
                BY <1>1, <3>1, <3>2
            <4>3. session'[s].sequence = f.sequence
                BY <3>1, <4>1, RecordIs
            <4>4. ToSet(session'[s].frames) \subseteq ToSet(session[s].frames) \cup {f}
                BY <3>1, <4>1, RecordAdds
            <4>5. QED BY <3>1, <4>2, <4>3, <4>4
        <3>4. Retained' \subseteq Retained \cup {f}
            BY <1>3, <1>5, <3>3 DEF Retained
        <3>5. ~(link \in open /\ sessionOf[link] = cur)
            <4>1. SUFFICES ASSUME link \in open, sessionOf[link] = cur PROVE FALSE
                OBVIOUS
            <4>2. link \in Conns /\ link \in Accepted
                BY <4>1 DEF NumberInv, TypeInv, ServerTypes
            <4>3. link > c
                BY <1>1, <1>6, <4>2 DEF NumberInv
            <4>4. Superseded(c)
                BY <1>1, <3>1, <4>1, <4>2, <4>3 DEF Superseded
            <4>5. QED BY <1>2, <4>4
        <3>6. /\ lastReplaySequence <= q
              /\ \A g \in Retained : g.sequence <= lastReplaySequence => g \in Received
              /\ \A i \in DOMAIN inbox : IsData(i) => inbox[i].frame.sequence <= q
              /\ \A i \in DOMAIN inbox, g \in Retained :
                    IsData(i) /\ lastReplaySequence < g.sequence
                              /\ g.sequence < inbox[i].frame.sequence => OnWire(g)
            BY <1>5, <3>1, <3>2 DEF Complete
        <3>7. lastReplaySequence \in Nat /\ \A i \in DOMAIN inbox : IsData(i) =>
                  inbox[i].frame.sequence \in Nat
            BY Numbers
        <3>8. lastReplaySequence <= q + 1 /\ ~(f.sequence <= lastReplaySequence)
            BY <3>3, <3>6, <3>7
        <3>9. \A g \in Retained' : g.sequence <= lastReplaySequence => g \in Received
            BY <3>4, <3>6, <3>8
        <3>10. \A i \in DOMAIN inbox : IsData(i) =>
                   inbox[i].frame.sequence <= q + 1 /\ ~(f.sequence < inbox[i].frame.sequence)
            BY <3>3, <3>6, <3>7
        <3>11. \A i \in DOMAIN inbox, g \in Retained' :
                    IsData(i) /\ lastReplaySequence < g.sequence
                              /\ g.sequence < inbox[i].frame.sequence => OnWire(g)
            BY <3>4, <3>6, <3>10
        <3>12. DOMAIN inbox' = DOMAIN inbox /\ \A i \in DOMAIN inbox : inbox'[i] = inbox[i]
            BY <2>1
        <3>13. \A g : OnWire(g) => OnWire(g)'
            BY <2>1 DEF OnWire
        <3>14. QED
            BY <1>3, <1>5, <3>3, <3>5, <3>8, <3>9, <3>10, <3>11, <3>12, <3>13 DEF Complete, IsData
    <2>4. QED BY <2>2, <2>3
<1>7. CASE link = c
    <2>1. s = cur
        BY <1>4, <1>5, <1>7
    <2>2. SUFFICES ASSUME session[cur].alive PROVE Complete'
        BY <1>1, <1>3, <1>5, <2>1 DEF Complete
    <2>3. PICK q \in Nat : q = session[cur].sequence
        BY Numbers
    <2>4. f.sequence = q + 1 /\ session'[cur].sequence = q + 1
          /\ ToSet(session'[cur].frames) \subseteq ToSet(session[cur].frames) \cup {f}
        <3>1. session[s].alive /\ session' = [session EXCEPT ![s].sequence = f.sequence,
                                                             ![s].frames = Keep(Append(@, f))]
            BY <1>1, <2>1, <2>2
        <3>2. f.sequence = q + 1
            BY <1>1, <2>1, <2>3, <3>1
        <3>3. session'[s].sequence = f.sequence
            BY <3>1, RecordIs
        <3>4. ToSet(session'[s].frames) \subseteq ToSet(session[s].frames) \cup {f}
            BY <3>1, RecordAdds
        <3>5. QED BY <2>1, <3>2, <3>3, <3>4
    <2>5. Retained' \subseteq Retained \cup {f}
        BY <1>3, <1>5, <2>4 DEF Retained
    <2>6. PICK m \in Messages : m = Data(f) /\ m.frame = f /\ m.type = "frame"
        BY MessageKinds
    <2>7. /\ \A i \in DOMAIN inbox' : (i \in DOMAIN inbox /\ inbox'[i] = inbox[i])
                                      \/ (c \in open /\ inbox'[i] = m)
          /\ \A i \in DOMAIN inbox : i \in DOMAIN inbox' /\ inbox'[i] = inbox[i]
          /\ c \in open => \E i \in DOMAIN inbox' : inbox'[i] = m
        BY <1>1, <1>7, <2>6, PushOne DEF TypeInv, ClientTypes
    <2>8. /\ \A g : OnWire(g) => OnWire(g)'
          /\ c \in open => OnWire(f)'
        BY <2>6, <2>7 DEF OnWire
    <2>9. /\ lastReplaySequence <= q
          /\ \A g \in Retained : g.sequence <= lastReplaySequence => g \in Received
          /\ \A i \in DOMAIN inbox : IsData(i) => inbox[i].frame.sequence <= q
          /\ \A i \in DOMAIN inbox, g \in Retained :
                IsData(i) /\ lastReplaySequence < g.sequence
                          /\ g.sequence < inbox[i].frame.sequence => OnWire(g)
          /\ c \in open => \A g \in Retained : lastReplaySequence < g.sequence => OnWire(g)
        BY <1>1, <1>5, <1>7, <2>1, <2>2, <2>3 DEF Complete
    <2>10. lastReplaySequence \in Nat /\ \A i \in DOMAIN inbox : IsData(i) =>
              inbox[i].frame.sequence \in Nat
        BY Numbers
    <2>11. lastReplaySequence <= q + 1 /\ ~(f.sequence <= lastReplaySequence)
        BY <2>4, <2>9, <2>10
    <2>12. \A g \in Retained' : g.sequence <= lastReplaySequence => g \in Received
        BY <2>5, <2>9, <2>11
    <2>13. \A i \in DOMAIN inbox : IsData(i) =>
               inbox[i].frame.sequence <= q + 1 /\ ~(f.sequence < inbox[i].frame.sequence)
        BY <2>4, <2>9, <2>10
    <2>14. \A i \in DOMAIN inbox' : IsData(i)' =>
               \/ i \in DOMAIN inbox /\ inbox'[i] = inbox[i] /\ IsData(i)
               \/ c \in open /\ inbox'[i].frame = f
        BY <2>6, <2>7 DEF IsData
    <2>15. \A i \in DOMAIN inbox' : IsData(i)' => inbox'[i].frame.sequence <= q + 1
        BY <2>4, <2>13, <2>14
    <2>16. c \in open => \A g \in Retained' : lastReplaySequence < g.sequence => OnWire(g)'
        BY <2>5, <2>8, <2>9
    <2>17. ASSUME NEW i \in DOMAIN inbox', NEW g \in Retained', IsData(i)',
                  lastReplaySequence < g.sequence, g.sequence < inbox'[i].frame.sequence
           PROVE  OnWire(g)'
        <3>1. CASE c \in open
            BY <2>16, <2>17, <3>1
        <3>2. CASE i \in DOMAIN inbox /\ inbox'[i] = inbox[i] /\ IsData(i)
            <4>1. g # f
                BY <2>13, <2>17, <3>2
            <4>2. QED BY <2>5, <2>8, <2>9, <2>17, <3>2, <4>1
        <3>3. QED BY <2>14, <2>17, <3>1, <3>2
    <2>18. QED
        BY <1>3, <1>5, <1>7, <2>4, <2>11, <2>12, <2>15, <2>16, <2>17 DEF Complete
<1>8. QED BY <1>6, <1>7

LEMMA GrantedComplete ==
    ASSUME TypeInv, NumberInv, HandshakeInv, BufferInv, CounterInv, Asking, Complete,
           NEW c \in Conns, ResumeGranted(c)
    PROVE  Complete'
<1>1. PICK s \in Conns :
          /\ c = link /\ c \in open /\ session[s].alive /\ s = Current
          /\ s = pendingResumeSession
          /\ session' = [session EXCEPT ![c] = NoSession] /\ s # c
          /\ sessionOf' = [sessionOf EXCEPT ![c] = s]
          /\ DOMAIN inbox' \subseteq Nat
          /\ \A i \in DOMAIN inbox' : IsData(i)' =>
                inbox'[i].frame \in ToSet(session[s].frames)
          /\ \A i, j \in DOMAIN inbox' : IsData(i)' /\ IsData(j)' /\ i < j =>
                inbox'[i].frame.sequence < inbox'[j].frame.sequence
          /\ \A f \in ToSet(session[s].frames) : f.sequence > lastReplaySequence =>
                OnWire(f)'
          /\ UNCHANGED <<open, transport, identity, lane>>
    BY ReplayOnWire
<1>2. session'[s] = session[s]
    BY <1>1 DEF TypeInv, ServerTypes
<1>3. Current' = s /\ Received' = Received /\ UNCHANGED lastReplaySequence
    BY <1>1 DEF Current, Received, InLane, identity, lane, transport
<1>4. Retained = ToSet(session[s].frames) /\ Retained' = Retained
    BY <1>1, <1>2, <1>3 DEF Retained
<1>5. /\ lastReplaySequence <= session[s].sequence
      /\ \A f \in Retained : f.sequence <= lastReplaySequence => f \in Received
    BY <1>1 DEF Complete
<1>6. \A f \in Retained : f.sequence \in Nat /\ f.sequence <= session[s].sequence
    BY <1>1, RetainedIs
<1>7. \A f \in Retained : lastReplaySequence < f.sequence => OnWire(f)'
    BY <1>1, <1>4, <1>6, Numbers
<1>8. \A i \in DOMAIN inbox' : IsData(i)' => inbox'[i].frame.sequence <= session[s].sequence
    BY <1>1, <1>4, <1>6
<1>9. QED BY <1>2, <1>3, <1>4, <1>5, <1>7, <1>8 DEF Complete

LEMMA SchemaComplete ==
    ASSUME TypeInv, NumberInv, HandshakeInv, BufferInv, Asking, Complete, ReceiveSchema
    PROVE  Complete'
<1>1. /\ phase = "connecting" /\ link \in Conns /\ link \in Accepted
      /\ inbox # <<>> /\ inbox' = Tail(inbox)
      /\ sessionId' = link
      /\ sessionId # None => pendingResumeSession' = sessionId
      /\ sessionId = None => pendingResumeSession' = None
      /\ UNCHANGED <<open, sessionOf, session, link, lastReplaySequence, lane>>
    BY SchemaIs
<1>2. pendingResumeSession = None
    BY <1>1 DEF Asking
<1>3. PICK cur \in Conns : cur = Current
    BY <1>1, <1>2 DEF Current, TypeInv, ClientTypes
<1>4. Current' = cur
    BY <1>1, <1>2, <1>3 DEF Current
<1>5. Received' = Received
    BY <1>1 DEF Received, InLane, lane
<1>6. /\ \A i \in DOMAIN inbox' : i + 1 \in DOMAIN inbox /\ inbox'[i] = inbox[i + 1]
      /\ \A i \in DOMAIN inbox : i = 1 \/ (i - 1 \in DOMAIN inbox' /\ inbox'[i - 1] = inbox[i])
      /\ inbox[1] = Head(inbox)
    BY <1>1, StillThere
<1>7. ~IsData(1)
    BY <1>6 DEF ReceiveSchema, Arrives, IsData
<1>8. \A k \in DOMAIN inbox : IsData(k) => \E i \in DOMAIN inbox' : inbox'[i] = inbox[k]
    BY <1>6, <1>7
<1>9. \A i \in DOMAIN inbox' : IsData(i)' => \E k \in DOMAIN inbox : inbox'[i] = inbox[k]
    BY <1>6
<1>10. QED BY <1>1, <1>3, <1>4, <1>5, <1>8, <1>9, CompleteAlone

LEMMA ResumedComplete ==
    ASSUME TypeInv, NumberInv, HandshakeInv, BufferInv, CounterInv, Asking, Complete,
           ReceiveResumed
    PROVE  Complete'
<1>1. PICK ok \in BOOLEAN :
          /\ phase = "ready" /\ link # None
          /\ sessionId = link /\ pendingResumeSession # None /\ pendingResumeSession # link
          /\ inbox # <<>> /\ inbox[1] = Head(inbox) /\ inbox' = Tail(inbox)
          /\ IsResumed(1)
          /\ sessionOf[link] = (IF ok THEN pendingResumeSession ELSE link)
          /\ sessionId' = (IF ok THEN pendingResumeSession ELSE link)
          /\ pendingResumeSession' = None
          /\ lastReplaySequence' = (IF ok THEN lastReplaySequence ELSE 0)
          /\ \A i \in DOMAIN inbox' : IsData(i)'
          /\ UNCHANGED <<server, transport, lane, sent, odd>>
    BY ResumedIs
<1>2. UNCHANGED <<open, sessionOf, session, link>> /\ Received' = Received
    BY <1>1 DEF server, transport, lane, Received, InLane
<1>3. /\ \A i \in DOMAIN inbox' : i + 1 \in DOMAIN inbox /\ inbox'[i] = inbox[i + 1]
      /\ \A i \in DOMAIN inbox : i = 1 \/ (i - 1 \in DOMAIN inbox' /\ inbox'[i - 1] = inbox[i])
    BY <1>1, StillThere
<1>4. CASE ok
    <2>1. PICK cur \in Conns : cur = Current /\ cur = pendingResumeSession
        BY <1>1 DEF Current, TypeInv, ClientTypes
    <2>2. Current' = cur /\ UNCHANGED lastReplaySequence
        BY <1>1, <1>4, <2>1 DEF Current
    <2>3. ~IsData(1)
        BY <1>1 DEF IsData, IsResumed
    <2>4. \A k \in DOMAIN inbox : IsData(k) => \E i \in DOMAIN inbox' : inbox'[i] = inbox[k]
        BY <1>3, <2>3
    <2>5. \A i \in DOMAIN inbox' : IsData(i)' => \E k \in DOMAIN inbox : inbox'[i] = inbox[k]
        BY <1>3
    <2>6. QED BY <1>2, <2>1, <2>2, <2>4, <2>5, CompleteAlone
<1>5. CASE ~ok
    <2>1. Current' = link /\ lastReplaySequence' = 0 /\ link \in Conns
        BY <1>1, <1>5 DEF Current, TypeInv, ClientTypes
    <2>2. session[link].frames = <<>>
        BY <1>1 DEF Asking, Undecided
    <2>3. Retained' = {}
        BY <1>2, <2>1, <2>2 DEF Retained, ToSet
    <2>4. \A i \in DOMAIN inbox' : ~IsData(i)'
        <3>1. ASSUME NEW i \in DOMAIN inbox', IsData(i)' PROVE FALSE
            <4>1. i + 1 \in DOMAIN inbox /\ IsData(i + 1)
                BY <1>3, <3>1 DEF IsData
            <4>2. sessionOf[link] = pendingResumeSession
                BY <1>1, <4>1 DEF CounterInv
            <4>3. QED BY <1>1, <1>5, <4>2
        <3>2. QED BY <3>1
    <2>5. lastReplaySequence' <= session'[Current'].sequence
        BY <1>2, <2>1, Numbers
    <2>6. QED BY <2>3, <2>4, <2>5 DEF Complete
<1>6. QED BY <1>4, <1>5

\* The frame that arrives is the next of those the client counts: what it skips
\* the buffer no longer has.
LEMMA FrameComplete ==
    ASSUME TypeInv, NumberInv, HandshakeInv, BufferInv, LaneInv, CounterInv, Asking, Ascending,
           Complete, ReceiveFrame
    PROVE  Complete'
<1>1. PICK f \in Frames :
          /\ inbox # <<>> /\ inbox[1] = Head(inbox) /\ Head(inbox) = Data(f)
          /\ Head(inbox).type = "frame" /\ f = Head(inbox).frame
          /\ inbox' = Tail(inbox)
          /\ Fresh(f) => /\ lastReplaySequence' =
                               IF f.sequence = 0 THEN lastReplaySequence ELSE f.sequence
                         /\ Handle(f, listenLock, packetQueue)
          /\ ~Fresh(f) => UNCHANGED <<lastReplaySequence, listenLock, packetQueue, running>>
          /\ UNCHANGED <<server, transport, sessionId, pendingResumeSession, delivered,
                         dropped, sent, odd>>
    BY FrameIs
<1>2. UNCHANGED <<open, sessionOf, session, link>> /\ Current' = Current
    BY <1>1 DEF server, transport, Current
<1>3. SUFFICES ASSUME NEW cur \in Conns, cur = Current, session[cur].alive PROVE Complete'
    <2>1. Current \in Conns \/ Current = None
        BY CurrentIs DEF Accepted
    <2>2. QED BY <1>2, <2>1 DEF Complete
<1>4. f.session = cur
    <2>1. /\ phase = "ready" /\ link # None /\ f.session = sessionOf[link]
          /\ pendingResumeSession # None => f.session = pendingResumeSession
        BY <1>1, ArrivedIsCounted
    <2>2. pendingResumeSession = None => ~Undecided(link)
        BY <2>1 DEF Undecided
    <2>3. QED BY <1>3, <2>1, <2>2, CurrentIs
<1>5. Retained' = Retained
    BY <1>2 DEF Retained
<1>6. /\ lastReplaySequence <= session[cur].sequence
      /\ \A g \in Retained : g.sequence <= lastReplaySequence => g \in Received
      /\ \A i \in DOMAIN inbox : IsData(i) => inbox[i].frame.sequence <= session[cur].sequence
      /\ \A i \in DOMAIN inbox, g \in Retained :
            IsData(i) /\ lastReplaySequence < g.sequence /\ g.sequence < inbox[i].frame.sequence
            => OnWire(g)
      /\ link \in open /\ sessionOf[link] = cur =>
            \A g \in Retained : lastReplaySequence < g.sequence => OnWire(g)
    BY <1>3 DEF Complete
<1>7. \A g \in Retained : g \in Frames /\ g.session = cur /\ g.sequence \in Nat /\ g.sequence > 0
    BY <1>3, RetainedIs
<1>8. /\ \A i \in DOMAIN inbox' : i + 1 \in DOMAIN inbox /\ inbox'[i] = inbox[i + 1]
      /\ \A i \in DOMAIN inbox : i = 1 \/ (i - 1 \in DOMAIN inbox' /\ inbox'[i - 1] = inbox[i])
      /\ 1 \in DOMAIN inbox /\ DOMAIN inbox \subseteq Nat /\ 0 \notin DOMAIN inbox
    <2>1. 0 \notin DOMAIN inbox
        BY DEF TypeInv, ClientTypes
    <2>2. QED BY <1>1, <2>1, StillThere
<1>9. IsData(1) /\ inbox[1].frame = f
    BY <1>1 DEF IsData
<1>10. f.sequence \in Nat /\ lastReplaySequence \in Nat /\ lastReplaySequence' \in Nat
       /\ session[cur].sequence \in Nat
    <2>1. f.sequence \in Nat
        BY DEF Frames
    <2>2. lastReplaySequence \in Nat /\ session[cur].sequence \in Nat
        BY Numbers
    <2>3. QED BY <1>1, <2>1, <2>2
<1>11. /\ lastReplaySequence <= lastReplaySequence' /\ f.sequence <= lastReplaySequence'
       /\ lastReplaySequence' = lastReplaySequence \/ (lastReplaySequence' = f.sequence /\ Fresh(f))
    BY <1>1, <1>10 DEF Fresh
<1>12. Received \subseteq Received' /\ (Fresh(f) => f \in Received')
    <2>1. CASE Fresh(f)
        BY <1>1, <2>1, HandleFrames DEF TypeInv, Received
    <2>2. CASE ~Fresh(f)
        BY <1>1, <2>2 DEF Received, InLane
    <2>3. QED BY <2>1, <2>2
<1>13. lastReplaySequence' <= session[cur].sequence
    BY <1>6, <1>8, <1>9, <1>11
\* What stays on the wire, and what was never to come before f.
<1>14. ASSUME NEW g \in Retained, OnWire(g), lastReplaySequence' < g.sequence
       PROVE  OnWire(g)'
    <2>1. PICK k \in DOMAIN inbox : inbox[k] = Data(g)
        BY <1>14 DEF OnWire
    <2>2. g # f
        BY <1>7, <1>10, <1>11, <1>14
    <2>3. k # 1
        BY <1>1, <1>7, <2>1, <2>2, MessageKinds
    <2>4. QED BY <1>8, <2>1, <2>3 DEF OnWire
<1>15. ASSUME NEW g \in Retained, g.sequence <= lastReplaySequence' PROVE g \in Received'
    <2>1. CASE g.sequence <= lastReplaySequence
        BY <1>6, <1>12, <2>1
    <2>2. CASE lastReplaySequence < g.sequence /\ g.sequence = f.sequence
        <3>1. g = f
            BY <1>4, <1>7, <2>2 DEF Frames
        <3>2. Fresh(f)
            BY <2>2 DEF Fresh
        <3>3. QED BY <1>12, <3>1, <3>2
    <2>3. CASE lastReplaySequence < g.sequence /\ g.sequence < f.sequence
        <3>1. OnWire(g)
            BY <1>6, <1>8, <1>9, <2>3
        <3>2. PICK k \in DOMAIN inbox : inbox[k] = Data(g)
            BY <3>1 DEF OnWire
        <3>3. IsData(k) /\ inbox[k].frame = g
            BY <1>7, <3>2, MessageKinds DEF IsData
        <3>4. k # 1
            BY <1>7, <1>9, <1>10, <2>3, <3>3
        <3>5. 1 < k
            BY <1>8, <3>4
        <3>6. Before(f, g)
            BY <1>8, <1>9, <3>3, <3>5 DEF Ascending
        <3>7. f.sequence < g.sequence
            BY <1>4, <1>7, <1>10, <2>3, <3>6 DEF Before
        <3>8. QED BY <1>7, <1>10, <2>3, <3>7
    <2>4. g.sequence <= lastReplaySequence \/ g.sequence <= f.sequence
        BY <1>11, <1>15
    <2>5. QED BY <1>7, <1>10, <2>1, <2>2, <2>3, <2>4
<1>16. \A i \in DOMAIN inbox' : IsData(i)' => inbox'[i].frame.sequence <= session[cur].sequence
    BY <1>6, <1>8 DEF IsData
<1>17. \A g \in Retained : lastReplaySequence' < g.sequence => lastReplaySequence < g.sequence
    BY <1>7, <1>10, <1>11
<1>18. \A i \in DOMAIN inbox', g \in Retained :
           IsData(i)' /\ lastReplaySequence' < g.sequence /\ g.sequence < inbox'[i].frame.sequence
           => OnWire(g)'
    <2>1. ASSUME NEW i \in DOMAIN inbox', NEW g \in Retained, IsData(i)',
                 lastReplaySequence' < g.sequence, g.sequence < inbox'[i].frame.sequence
          PROVE  OnWire(g)'
        <3>1. PICK k \in DOMAIN inbox : inbox'[i] = inbox[k] /\ IsData(k)
            BY <1>8, <2>1 DEF IsData
        <3>2. OnWire(g)
            BY <1>6, <1>17, <2>1, <3>1
        <3>3. QED BY <1>14, <2>1, <3>2
    <2>2. QED BY <2>1
<1>19. link \in open /\ sessionOf[link] = cur =>
           \A g \in Retained : lastReplaySequence' < g.sequence => OnWire(g)'
    BY <1>6, <1>14, <1>17
<1>20. QED BY <1>2, <1>3, <1>5, <1>13, <1>15, <1>16, <1>18, <1>19 DEF Complete

\* Steps in which the client hears nothing and the server forgets nothing.
LEMMA QuietComplete ==
    ASSUME TypeInv, NumberInv, HandshakeInv, BufferInv, Asking, Complete,
           UNCHANGED <<session, sessionOf, identity, link>>,
           \A k \in DOMAIN inbox : IsData(k) => \E i \in DOMAIN inbox' : inbox'[i] = inbox[k],
           \A i \in DOMAIN inbox' : IsData(i)' => \E k \in DOMAIN inbox : inbox'[i] = inbox[k],
           open' \subseteq open, Received \subseteq Received'
    PROVE  Complete'
<1>1. Current' = Current
    BY DEF Current, identity
<1>2. CASE Current = None
    BY <1>1, <1>2 DEF Complete
<1>3. CASE Current # None
    <2>1. PICK cur \in Conns : cur = Current
        BY <1>3, CurrentIs DEF Accepted
    <2>2. UNCHANGED lastReplaySequence /\ session'[cur] = session[cur] /\ Current' = cur
        BY <1>1, <2>1 DEF identity
    <2>3. link' \in open' /\ sessionOf'[link'] = cur => link \in open /\ sessionOf[link] = cur
        OBVIOUS
    <2>4. QED BY <2>1, <2>2, <2>3, CompleteAlone
<1>4. QED BY <1>2, <1>3

LEMMA CompleteStep ==
    ASSUME TypeInv, TypeInv', NumberInv, HandshakeInv, BufferInv, LaneInv, CounterInv, Asking,
           Ascending, Complete, [Next]_vars,
           odd' \cap {"earlySend", "earlyLoss", "staleSend"} = {}
    PROVE  Complete'
<1>0. "earlySend" \notin odd' /\ "earlyLoss" \notin odd' /\ "staleSend" \notin odd'
    OBVIOUS
<1>1. CASE Accept
    BY <1>1, AcceptComplete
<1>2. ASSUME NEW c \in Conns, Send(c) PROVE Complete'
    BY <1>0, <1>2, SendComplete
<1>3. ASSUME NEW c \in Conns, ResumeRefused(c) PROVE Complete'
    <2>1. Push(c, <<Resumed(FALSE, 0)>>) /\ UNCHANGED <<open, session, sessionOf, identity, link, lane>>
        BY <1>3 DEF ResumeRefused, transport
    <2>2. PICK m \in Messages : m = Resumed(FALSE, 0) /\ m.type = "resumed"
        <3>1. Resumed(FALSE, 0) \in Messages /\ Resumed(FALSE, 0).type = "resumed"
            BY DEF Resumed, Messages
        <3>2. QED BY <3>1
    <2>3. /\ \A i \in DOMAIN inbox' : (i \in DOMAIN inbox /\ inbox'[i] = inbox[i]) \/ inbox'[i] = m
          /\ \A i \in DOMAIN inbox : i \in DOMAIN inbox' /\ inbox'[i] = inbox[i]
        BY <2>1, <2>2, PushOne DEF TypeInv, ClientTypes
    <2>4. \A k \in DOMAIN inbox : IsData(k) => \E i \in DOMAIN inbox' : inbox'[i] = inbox[k]
        BY <2>3
    <2>5. \A i \in DOMAIN inbox' : IsData(i)' => \E k \in DOMAIN inbox : inbox'[i] = inbox[k]
        BY <2>2, <2>3 DEF IsData
    <2>6. Received' = Received
        BY <2>1 DEF Received, InLane, lane
    <2>7. QED BY <2>1, <2>4, <2>5, <2>6, QuietComplete
<1>4. ASSUME NEW c \in Conns, ResumeGranted(c) PROVE Complete'
    BY <1>4, GrantedComplete
<1>5. CASE \/ UNCHANGED vars \/ Deliver \/ Listened \/ ListenerThrows \/ BeginReconnect \/ Close
           \/ \E c \in Conns : ServerClose(c)
    <2>1. UNCHANGED <<session, sessionOf, identity, link, inbox>> /\ open' \subseteq open
        BY <1>5 DEF vars, Deliver, Listened, ListenerThrows, BeginReconnect, Close, ServerClose,
                    server, transport
    <2>2. /\ \A k \in DOMAIN inbox : IsData(k) => \E i \in DOMAIN inbox' : inbox'[i] = inbox[k]
          /\ \A i \in DOMAIN inbox' : IsData(i)' => \E k \in DOMAIN inbox : inbox'[i] = inbox[k]
        BY <2>1
    <2>3. Received \subseteq Received'
        BY FramesKept
    <2>4. QED BY <2>1, <2>2, <2>3, QuietComplete
<1>6. CASE ReceiveSchema
    BY <1>6, SchemaComplete
<1>7. CASE ReceiveFrame
    BY <1>7, FrameComplete
<1>8. CASE ReceiveResumed
    BY <1>8, ResumedComplete
<1>9. ASSUME NEW retry \in BOOLEAN, TransportClosed(retry) PROVE Complete'
    <2>1. /\ link' = None /\ inbox' = <<>> /\ UNCHANGED <<server, identity, lane>>
          /\ pendingResumeSession = None
        BY <1>0, <1>9 DEF TransportClosed
    <2>2. CASE sessionId = None
        <3>1. Current' = None
            BY <2>1, <2>2 DEF Current, identity
        <3>2. QED BY <3>1 DEF Complete
    <2>3. CASE sessionId # None
        <3>1. PICK cur \in Conns : cur = Current /\ cur = sessionId
            BY <2>1, <2>3 DEF Current, TypeInv, ClientTypes
        <3>2. Current' = cur /\ UNCHANGED <<lastReplaySequence, session, sessionOf, open>>
            BY <2>1, <2>3, <3>1 DEF Current, identity, server
        <3>3. DOMAIN inbox' = {} /\ link' \notin open'
            BY <2>1, <3>2 DEF TypeInv, ServerTypes
        <3>4. Received' = Received
            BY <2>1 DEF Received, InLane, lane
        <3>5. QED BY <3>1, <3>2, <3>3, <3>4, CompleteAlone
    <2>4. QED BY <2>2, <2>3
<1>10. QED
    BY <1>1, <1>2, <1>3, <1>4, <1>5, <1>6, <1>7, <1>8, <1>9 DEF Next

LEMMA OddGrows ==
    ASSUME [Next]_vars
    PROVE  odd \subseteq odd'
BY DEF Next, Accept, Send, ResumeRefused, ResumeGranted, ServerClose, Deliver, Listened,
       ListenerThrows, ReceiveSchema, ReceiveFrame, ReceiveResumed, TransportClosed,
       BeginReconnect, Close, vars

LEMMA ReplayStep ==
    ASSUME TypeInv, TypeInv', NumberInv, HandshakeInv, OrderInv, BufferInv, LaneInv, ReplayInv,
           [Next]_vars
    PROVE  ReplayInv'
<1>1. SUFFICES ASSUME Calm' PROVE Asking' /\ Ascending' /\ Complete'
    BY DEF ReplayInv
<1>2. odd' \cap {"earlySend", "earlyLoss", "staleSend"} = {}
    BY <1>1 DEF Calm
<1>3. "earlySend" \notin odd' /\ "earlyLoss" \notin odd'
    BY <1>2
<1>4. Calm /\ "earlySend" \notin odd
    BY <1>2, OddGrows DEF Calm
<1>5. Asking /\ Ascending /\ Complete /\ CounterInv
    BY <1>4 DEF ReplayInv, OrderInv
<1>6. Asking'
    BY <1>3, <1>5, AskingStep
<1>7. Ascending'
    BY <1>3, <1>5, AscendingStep
<1>8. Complete'
    BY <1>2, <1>5, CompleteStep
<1>9. QED BY <1>6, <1>7, <1>8

-----------------------------------------------------------------------------
(* The invariant, and what follows from it *)

LEMMA Inductive == IInv /\ [Next]_vars => IInv'
<1>1. SUFFICES ASSUME IInv, [Next]_vars PROVE IInv'
    OBVIOUS
<1>2. /\ TypeInv /\ NumberInv /\ HandshakeInv /\ OrderInv /\ BufferInv
      /\ LaneInv /\ CloseInv /\ ReplayInv
    BY <1>1 DEF IInv
<1>3. TypeInv'
    BY <1>1, <1>2, TypeStep
<1>4. NumberInv'
    BY <1>1, <1>2, <1>3, NumberStep
<1>5. HandshakeInv'
    BY <1>1, <1>2, HandshakeStep
<1>6. OrderInv'
    BY <1>1, <1>2, <1>3, OrderStep
<1>7. BufferInv'
    BY <1>1, <1>2, BufferStep
<1>8. LaneInv'
    BY <1>1, <1>2, LaneStep
<1>9. CloseInv'
    BY <1>1, <1>2, CloseStep
<1>10. ReplayInv'
    BY <1>1, <1>2, <1>3, ReplayStep
<1>11. QED
    BY <1>3, <1>4, <1>5, <1>6, <1>7, <1>8, <1>9, <1>10 DEF IInv

LEMMA AlwaysInv == Spec => []IInv
<1>1. Init => IInv
    BY InitInv
<1>2. IInv /\ [Next]_vars => IInv'
    BY Inductive
<1>3. QED BY <1>1, <1>2, PTL DEF Spec

\* Every variable keeps its type: buffers and counters stay within their bounds.
THEOREM TypeCorrect == Spec => []TypeOK
<1>1. IInv => TypeOK
    <2>1. SUFFICES ASSUME TypeInv PROVE TypeOK
        BY DEF IInv
    <2>2. \A s \in Conns : /\ session[s].alive \in BOOLEAN
                           /\ session[s].sequence \in 0 .. MaxSends
                           /\ session[s].frames \in Seq(Frames)
                           /\ Len(session[s].frames) <= MaxPackets
        BY <2>1 DEF TypeInv, ServerTypes, Sessions
    <2>3. closed \in BOOLEAN /\ intentionalClose \in BOOLEAN /\ listenLock \in BOOLEAN
        BY <2>1 DEF TypeInv, ClientTypes, LaneTypes
    <2>4. QED BY <2>1, <2>2, <2>3 DEF TypeOK, TypeInv, ServerTypes, ClientTypes, LaneTypes
<1>2. QED BY <1>1, AlwaysInv, PTL

\* A locked lane of the client has a handler that will release it, also when a
\* reconnect falls between two of its frames.
THEOREM LaneReleased == Spec => []LockHasHandler
<1>1. IInv => LockHasHandler
    <2>1. SUFFICES ASSUME LaneInv PROVE LockHasHandler
        BY DEF IInv
    <2>2. QED BY <2>1 DEF LaneInv, LockHasHandler
<1>2. QED BY <1>1, AlwaysInv, PTL

\* Reconnecting drops a frame only when a transport was lost while the lane was
\* busy, or after the application's close().
THEOREM ReconnectKeepsFrames == Spec => []DropsOnlyWhenBusy
<1>1. IInv => DropsOnlyWhenBusy
    BY DEF IInv, CloseInv, DropsOnlyWhenBusy
<1>2. QED BY <1>1, AlwaysInv, PTL

\* After the application's close() no transport is opened, unless a reconnecting
\* listener called it before scheduleReconnect armed its timer.
THEOREM CloseIsFinal == Spec => ExplicitCloseFinal
<1>1. IInv /\ [Next]_vars =>
          [intentionalClose /\ ~lateTimer =>
             ~(phase # "connecting" /\ phase' = "connecting")]_vars
    <2>1. SUFFICES ASSUME IInv, [Next]_vars, intentionalClose, ~lateTimer, phase # "connecting",
                          phase' = "connecting"
                   PROVE  FALSE
        OBVIOUS
    <2>2. phase # "waiting"
        BY <2>1 DEF IInv, CloseInv
    <2>3. ~BeginReconnect
        BY <2>2 DEF BeginReconnect
    <2>4. QED
        BY <2>1, <2>3
        DEF Next, Accept, Send, ResumeRefused, ResumeGranted, ServerClose, Deliver, Listened,
            ListenerThrows, ReceiveSchema, ReceiveFrame, ReceiveResumed, TransportClosed,
            ScheduleReconnect, Close, vars, transport
<1>2. QED BY <1>1, AlwaysInv, PTL DEF Spec, ExplicitCloseFinal

\* The application sees the frames of a session in their order and none twice,
\* whatever is queued, replayed or lost with a transport.
THEOREM OrderKept == Spec => []DeliveredInOrder
<1>1. IInv => DeliveredInOrder
    <2>1. SUFFICES ASSUME IInv, "earlySend" \notin odd,
                          NEW i \in DOMAIN delivered, NEW j \in DOMAIN delivered, i < j,
                          delivered[i].session = delivered[j].session,
                          delivered[i].sequence * delivered[j].sequence # 0
                   PROVE  delivered[i].sequence < delivered[j].sequence
        BY DEF DeliveredInOrder
    <2>2. delivered[i].sequence \in Nat /\ delivered[j].sequence \in Nat
        <3>1. delivered[i] \in Frames /\ delivered[j] \in Frames
            BY <2>1 DEF IInv, TypeInv, LaneTypes
        <3>2. QED BY <3>1 DEF Frames
    <2>3. \A a, b \in Nat : a * b # 0 => a # 0 /\ b # 0
        OBVIOUS
    <2>4. delivered[i].sequence # 0 /\ delivered[j].sequence # 0
        BY <2>1, <2>2, <2>3
    <2>5. Before(delivered[i], delivered[j])
        BY <2>1 DEF IInv, OrderInv, LaneOrder
    <2>6. QED BY <2>1, <2>4, <2>5 DEF Before
<1>2. QED BY <1>1, AlwaysInv, PTL

\* Once a resumption is settled, the client has had every frame the session
\* retains up to the last one it counted.
THEOREM NothingMissed == Spec => []ReplayComplete
<1>1. IInv => ReplayComplete
    <2>1. SUFFICES ASSUME IInv, Calm, Settled, NEW f \in Missed PROVE FALSE
        BY DEF ReplayComplete, Calm
    <2>2. sessionId # None
        BY <2>1 DEF IInv, HandshakeInv, Settled
    <2>3. Current = sessionId /\ session[Current].alive
        BY <2>1, <2>2 DEF Current, Settled
    <2>4. f \in Retained /\ f.sequence <= lastReplaySequence /\ f \notin Received
        BY <2>1, <2>3 DEF Missed, Retained
    <2>5. Complete
        BY <2>1 DEF IInv, ReplayInv
    <2>6. QED BY <2>2, <2>3, <2>4, <2>5 DEF Complete
<1>2. QED BY <1>1, AlwaysInv, PTL
=============================================================================
