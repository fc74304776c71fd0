------------------------------ MODULE Broadcast ------------------------------
(***************************************************************************)
(* Broadcasts of one TypeScript server: who is chosen, what the two        *)
(* middleware hooks and the server-wide send queue do to their order, the  *)
(* synchronous loop over the recipients, batched packets, and the round    *)
(* trip of a room broadcast through the adapter.                           *)
(*                                                                         *)
(* A cast is one run of broadcastInternal.  Most are a broadcast of their  *)
(* own; one the adapter brings stands for the broadcast it was published   *)
(* for.  There is one room.  What a connection was sent is the sequence of *)
(* broadcasts on its wire; replay buffers are in SessionRecovery.  Arrays  *)
(* of connections are sets: the loop may go through them in any order.     *)
(***************************************************************************)
EXTENDS Naturals, Sequences, SequencesExt

CONSTANTS
    Conns,      \* connections
    MaxCasts    \* bound: runs of broadcastInternal

Casts == 1 .. MaxCasts

Nobody == "nobody"

ASSUME BroadcastAssumption == MaxCasts \in Nat \ {0} /\ Nobody \notin Conns

VARIABLES
    status,       \* of each connection
    connections,  \* the server's array of connections
    members,      \* tagsInv of the room
    stage, target, recipients, spared, origin,   \* of each cast
    batched,      \* casts of a packet with dataBatching
    lane,         \* casts in the server-wide send queue, the running one first
    batch, wire,  \* of each connection
    echoes,       \* broadcasts published here that the channel brings back
    \* history
    audience,     \* who fitted the target when a broadcast was called
    cutShort      \* broadcasts whose loop an overflow ended

castVars == <<stage, target, recipients, spared, origin, batched>>
connVars == <<status, connections, members, batch, wire>>
vars == <<castVars, connVars, lane, echoes, audience, cutShort>>

Targets == {"all", "tagged", "room", "except", "filter"}
Published == {"room", "except"}

TypeOK ==
    /\ status \in [Conns -> {"none", "open", "closing", "gone"}]
    /\ connections \subseteq Conns /\ members \subseteq Conns
    /\ stage \in [Casts -> {"idle", "pre", "encoding", "post", "publishing",
                            "done", "failed"}]
    /\ target \in [Casts -> Targets]
    /\ recipients \in [Casts -> SUBSET Conns]
    /\ spared \in [Casts -> Conns \cup {Nobody}]
    /\ origin \in [Casts -> Casts]
    /\ lane \in Seq(Casts)
    /\ batch \in [Conns -> Seq(Casts)] /\ wire \in [Conns -> Seq(Casts)]
    /\ batched \subseteq Casts /\ echoes \subseteq Casts /\ cutShort \subseteq Casts
    /\ audience \in [Casts -> SUBSET Conns]

Init ==
    /\ status = [c \in Conns |-> "none"]
    /\ connections = {} /\ members = {}
    /\ stage = [i \in Casts |-> "idle"]
    /\ target = [i \in Casts |-> "all"]
    /\ recipients = [i \in Casts |-> {}]
    /\ spared = [i \in Casts |-> Nobody]
    /\ origin = [i \in Casts |-> i]
    /\ lane = <<>>
    /\ batch = [c \in Conns |-> <<>>] /\ wire = [c \in Conns |-> <<>>]
    /\ batched = {} /\ echoes = {} /\ cutShort = {}
    /\ audience = [i \in Casts |-> {}]

-----------------------------------------------------------------------------
(* Connections come, go, join and leave; ServerLifecycle has the details.  *)

Connect(c) ==
    /\ status[c] = "none"
    /\ status' = [status EXCEPT ![c] = "open"]
    /\ connections' = connections \cup {c}
    /\ UNCHANGED <<members, castVars, lane, batch, wire, echoes, audience, cutShort>>

\* The close event clears the connection's timers: its batch is never sent.
CloseEvent(c) ==
    /\ status[c] \in {"open", "closing"}
    /\ status' = [status EXCEPT ![c] = "gone"]
    /\ connections' = connections \ {c}
    /\ members' = members \ {c}
    /\ batch' = [batch EXCEPT ![c] = <<>>]
    /\ UNCHANGED <<castVars, lane, wire, echoes, audience, cutShort>>

Join(c) ==
    /\ status[c] = "open" /\ c \notin members
    /\ members' = members \cup {c}
    /\ UNCHANGED <<status, connections, castVars, lane, batch, wire, echoes, audience,
                   cutShort>>

Leave(c) ==
    /\ c \in members
    /\ members' = members \ {c}
    /\ UNCHANGED <<status, connections, castVars, lane, batch, wire, echoes, audience,
                   cutShort>>

-----------------------------------------------------------------------------
(* broadcastInternal *)

\* Faulty variant: a room's members are looked up when the packet goes out.
LiveMembers(i) ==
    CASE target[i] = "all" -> connections
      [] target[i] \in {"tagged", "room"} -> members
      [] OTHER -> recipients[i]

\* The recipients of a cast: for "all" the array the server goes on changing.
Recipients(i) == IF target[i] = "all" THEN connections ELSE recipients[i]

\* What a call selects: the members, the filtered connections.
Chosen(k, x) ==
    CASE k = "all" -> connections
      [] k \in {"tagged", "room"} -> members
      [] k = "except" -> (connections \cap members) \ {x}
      [] k = "filter" -> connections \ {x}

\* The local part of a cast is over; a room broadcast goes on to the adapter,
\* a cancelled one too.
LocalEnd(i, k) ==
    stage' = [stage EXCEPT ![i] = IF k \in Published THEN "publishing" ELSE "done"]

\* Up to the first await.  The first broadcast to an unknown room ends at once.
Begin(i, k, x, o) ==
    /\ stage[i] = "idle" /\ (i > 1 => stage[i - 1] # "idle")
    /\ target' = [target EXCEPT ![i] = k]
    /\ spared' = [spared EXCEPT ![i] = x]
    /\ origin' = [origin EXCEPT ![i] = o]
    /\ batched' \in {batched, batched \cup {i}}
    /\ recipients' = [recipients EXCEPT ![i] = IF k = "all" THEN {} ELSE Chosen(k, x)]
    /\ audience' = [audience EXCEPT ![i] = {c \in Chosen(k, x) : status[c] = "open"}]
    /\ \/ stage' = [stage EXCEPT ![i] = "pre"]
       \/ /\ k \in {"tagged", "room"} /\ members = {}
          /\ LocalEnd(i, k)

BroadcastAll(i) == Begin(i, "all", Nobody, i)
BroadcastTagged(i) == Begin(i, "tagged", Nobody, i)
BroadcastRoom(i) == Begin(i, "room", Nobody, i)
BroadcastRoomExcept(i, x) == Begin(i, "except", x, i)

\* A connection's broadcast(): everybody else.
BroadcastFiltered(i, x) == Begin(i, "filter", x, i)

Call(i) ==
    /\ \/ BroadcastAll(i) \/ BroadcastTagged(i) \/ BroadcastRoom(i)
       \/ \E x \in connections : BroadcastRoomExcept(i, x) \/ BroadcastFiltered(i, x)
    /\ UNCHANGED <<connVars, lane, echoes, cutShort>>

\* onPacketBroadcast_pre returned.  An array that is empty now ends the cast.
PreHook(i) ==
    /\ stage[i] = "pre"
    /\ \/ LocalEnd(i, target[i]) /\ UNCHANGED lane
       \/ /\ Recipients(i) # {}
          /\ stage' = [stage EXCEPT ![i] = "encoding"]
          /\ lane' = Append(lane, i)
    /\ UNCHANGED <<target, recipients, spared, origin, batched, connVars, echoes, audience,
                   cutShort>>

\* processPacket on the server-wide queue.  A refused one, and a rereferenced
\* packet always is, leaves the queue locked (SendQueue).
Encode(i) ==
    /\ lane # <<>> /\ Head(lane) = i /\ stage[i] = "encoding"
    /\ \/ stage' = [stage EXCEPT ![i] = "post"] /\ lane' = Tail(lane)
       \/ stage' = [stage EXCEPT ![i] = "failed"] /\ UNCHANGED lane
    /\ UNCHANGED <<target, recipients, spared, origin, batched, connVars, echoes, audience,
                   cutShort>>

\* send_processed for the recipients in turn, in one step.  `rated` are those
\* over a rate limit, which closes them; at the one in `over` raw_send finds an
\* outbound buffer over its limit, closes and throws out of the loop, so that
\* only those before it are `served`.
SendProcessed(i, to, served, rated, over) ==
    LET live == {c \in to : \/ status[c] = "open"
                             \/ (i \in batched /\ status[c] = "closing")}
        Sends(q) == [c \in Conns |-> IF c \in served \ rated THEN Append(q[c], origin[i])
                                     ELSE q[c]]
    IN  /\ \/ served = live /\ over = {}
           \/ /\ i \notin batched /\ served \subseteq live
              /\ \E c \in live \ served : over = {c}
        /\ rated \subseteq {c \in served : status[c] = "open"}
        /\ IF i \in batched
           THEN batch' = Sends(batch) /\ UNCHANGED wire
           ELSE wire' = Sends(wire) /\ UNCHANGED batch
        /\ status' = [c \in Conns |-> IF c \in rated \cup over THEN "closing" ELSE status[c]]

\* Faulty variant: the loop awaits after each recipient.
DeliverOneByOne(i) ==
    LET next == {c \in Recipients(i) : origin[i] \notin ToSet(wire[c]) /\ status[c] = "open"}
    IN  /\ IF next = {}
           THEN LocalEnd(i, target[i]) /\ UNCHANGED <<status, wire, batch>>
           ELSE /\ \E c \in next : SendProcessed(i, {c}, {c}, {}, {})
                /\ UNCHANGED stage
        /\ UNCHANGED cutShort

Deliver(i) ==
    \E served, rated, over \in SUBSET Conns :
        /\ SendProcessed(i, Recipients(i), served, rated, over)
        /\ IF over = {}
           THEN LocalEnd(i, target[i]) /\ UNCHANGED cutShort
           ELSE /\ stage' = [stage EXCEPT ![i] = "failed"]
                /\ cutShort' = cutShort \cup {i}

\* onPacketBroadcast_post returned; it may take longer than a later cast's.
PostHook(i) ==
    /\ stage[i] = "post"
    /\ \/ /\ LocalEnd(i, target[i])      \* cancelled
          /\ UNCHANGED <<status, wire, batch, cutShort>>
       \/ Deliver(i)
    /\ UNCHANGED <<target, recipients, spared, origin, batched, connections, members, lane, echoes,
                   audience>>

\* The interval of a batch: one frame with all that waits.
Flush(c) ==
    /\ batch[c] # <<>> /\ status[c] \in {"open", "closing"}
    /\ \/ /\ batch' = [batch EXCEPT ![c] = <<>>]
          /\ wire' = [wire EXCEPT ![c] = IF status[c] = "open" THEN @ \o batch[c] ELSE @]
          /\ UNCHANGED status
       \/ /\ status[c] = "open"               \* over the server's rate limit
          /\ batch' = [batch EXCEPT ![c] = <<>>]
          /\ status' = [status EXCEPT ![c] = "closing"]
          /\ UNCHANGED wire
       \/ /\ status[c] = "open"               \* raw_send closes and throws
          /\ status' = [status EXCEPT ![c] = "closing"]
          /\ UNCHANGED <<batch, wire>>
    /\ UNCHANGED <<connections, members, castVars, lane, echoes, audience, cutShort>>

-----------------------------------------------------------------------------
(* The adapter *)

\* publish() settles, in whatever state the adapter is (Adapter).  The channel
\* brings the message back, if this server is subscribed to it.
Publish(i) ==
    /\ stage[i] = "publishing"
    /\ \/ /\ stage' = [stage EXCEPT ![i] = "done"]
          /\ echoes' \in {echoes, echoes \cup {i}}
       \/ stage' = [stage EXCEPT ![i] = "failed"] /\ UNCHANGED echoes
    /\ UNCHANGED <<target, recipients, spared, origin, batched, connVars, lane, audience, cutShort>>

\* Faulty variant: every message of the channel is broadcast.
IgnoreNothing(o) == \E i \in Casts : Begin(i, "tagged", Nobody, o)

\* receiveAdapterBroadcast ignores what this server published.
Ignore(o) == UNCHANGED <<castVars, audience>>

ReceiveOwn(o) ==
    /\ o \in echoes
    /\ echoes' = echoes \ {o}
    /\ Ignore(o)
    /\ UNCHANGED <<connVars, lane, cutShort>>

\* A message of another server is broadcast to the room, and not published.
ReceiveOther(i) ==
    /\ Begin(i, "tagged", Nobody, i)
    /\ UNCHANGED <<connVars, lane, echoes, cutShort>>

Next ==
    \/ \E c \in Conns : \/ Connect(c) \/ CloseEvent(c)
                        \/ Join(c) \/ Leave(c) \/ Flush(c)
    \/ \E i \in Casts : \/ Call(i) \/ PreHook(i) \/ Encode(i) \/ PostHook(i)
                        \/ Publish(i) \/ ReceiveOwn(i) \/ ReceiveOther(i)

Spec == Init /\ [][Next]_vars

-----------------------------------------------------------------------------
(* Properties *)

Sent(c) == ToSet(wire[c])

\* A broadcast reaches a connection once, and never the one it spares,
\* although the channel brings every published broadcast back.
OncePerBroadcast ==
    \A c \in Conns :
        /\ IsInjective(wire[c] \o batch[c])
        /\ \A i \in Casts : spared[i] = c => i \notin Sent(c)

\* Two broadcasts of the same packet reach any two connections in the same
\* order, however their hooks, calls and batches overlapped.
SameOrder ==
    \A c, d \in Conns :
        \A j, k \in DOMAIN wire[c], m, n \in DOMAIN wire[d] :
            /\ wire[c][j] = wire[d][m] /\ wire[c][k] = wire[d][n]
            /\ wire[c][j] \in batched <=> wire[c][k] \in batched
            /\ j < k
            => m < n

\* A broadcast goes to everybody it was for when it was called, and who is still
\* connected, unless a hook cancelled it: it cannot have gone to some only, except
\* when an overflowing connection threw out of the loop.  One to a room or a filter
\* goes to nobody else, whoever came while it waited for hooks and the encoder.
ExactlyTheAudience ==
    /\ \A i \in Casts, c \in Conns :
          i \in Sent(c) /\ target[i] # "all" => c \in audience[i]
    /\ \A i \in Casts \ cutShort, c, d \in Conns :
          LET Has(x) == i \in Sent(x) \cup ToSet(batch[x])
          IN  Has(d) /\ c \in audience[i] /\ status[c] = "open" /\ stage[i] # "post" => Has(c)

=============================================================================
