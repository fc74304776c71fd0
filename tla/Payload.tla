------------------------------- MODULE Payload -------------------------------
(***************************************************************************)
(* A table of packets from its declaration to the values that listeners    *)
(* are called with: the server declares it, the client rebuilds it from    *)
(* the negotiated bytes, and either end sends payloads that the other      *)
(* validates and decodes, with a TypeScript runtime or another one built   *)
(* on the codec core.  The bytes may be changed on their way, as by a peer *)
(* that does not follow the schema.                                        *)
(*                                                                         *)
(* One packet of the table is in use, by one sender, for a few messages.   *)
(***************************************************************************)
EXTENDS PacketCodec

CONSTANTS
    Tables,         \* sequences of declarations
    Registries,     \* the enum packages a client may know from earlier
    Inputs(_),      \* the batches of items an application sends with a packet
    MaxRounds(_)    \* how many messages are sent with a packet

VARIABLES
    declared,       \* the declarations
    known,          \* the client's registry of enum packages
    server,         \* the server's table
    client,         \* the client's
    ends,           \* which packet is used, which way, by which runtimes
    stage, round,
    input, wire, damage, output,
    memory,         \* the sender's residual and last hash
    last,           \* lastReceived of the receiver
    sums            \* the values sent and delivered, in 1/Unit, and the refused messages

vars == <<declared, known, server, client, ends, stage, round, input, wire, damage, output,
          memory, last, sums>>

message == <<input, wire, damage, output, memory, last, sums, round>>

Nobody == [key |-> 0, up |-> FALSE, sender |-> "ts", receiver |-> "ts"]

Init ==
    /\ declared \in Tables /\ known \in Registries
    /\ server = <<>> /\ client = <<>>
    /\ ends = Nobody
    /\ stage = "start" /\ round = 0
    /\ input = <<>> /\ wire = <<>> /\ damage = "none" /\ output = <<>>
    /\ memory = [lastSent |-> Undefined, residual |-> 0]
    /\ last = Undefined
    /\ sums = [sent |-> 0, got |-> 0, refused |-> 0]

\* The server is constructed with its tables, or its constructor throws.
Declare ==
    /\ stage = "start"
    /\ LET tables == UNION {HoldPackets(FlattenSeq(t)) : t \in All([i \in DOMAIN declared |-> Create(declared[i])])}
       IN  IF tables = {} THEN stage' = "undeclared" /\ UNCHANGED server
           ELSE stage' = "declared" /\ server' = CHOOSE t \in tables : TRUE
    /\ UNCHANGED <<declared, known, client, ends, message>>

\* The client reads the schema; it gives up if it cannot.
Connect ==
    /\ stage = "declared"
    /\ LET tables == Negotiate(server, known)
       IN  IF tables = {} THEN stage' = "mismatched" /\ UNCHANGED <<client, known>>
           ELSE LET t == CHOOSE u \in tables : TRUE
                IN  stage' = "connected" /\ client' = t.packets /\ known' = t.registry
    /\ UNCHANGED <<declared, server, ends, message>>

\* Peers built on the core alone are used with positional values.
Choose ==
    /\ stage = "connected" /\ ends = Nobody
    /\ \E key \in DOMAIN server, up \in BOOLEAN, s \in {"ts", "core"}, r \in {"ts", "core"} :
          /\ Inputs(server[key]) # {}
          /\ "core" \in {s, r} =>
                /\ server[key].fields = Undefined /\ ~server[key].autoFlatten
                /\ server[key].quantized = Undefined /\ ~server[key].rereference
                /\ server[key].valueMin = Undefined /\ server[key].valueMax = Undefined
          /\ ends' = [key |-> key, up |-> up, sender |-> s, receiver |-> r]
    /\ UNCHANGED <<declared, known, server, client, stage, message>>

\* The packet as the sender has it, and as the receiver has it.
Ours == IF ends.up THEN client[ends.key] ELSE server[ends.key]
Theirs == IF ends.up THEN server[ends.key] ELSE client[ends.key]

\* The core's view of a packet and of an item, one value sequence per column.
Core(p) == [NativeSchema(p) EXCEPT !.maxBatch = IF p.client \/ p.maxBatchSize < 0 THEN 0 ELSE @]
Columns(p, item) == IF p.object THEN item.data ELSE <<item.data>>

\* The items of a message, one after the other; the first that throws ends it.
And(acc, processed) ==
    [ok |-> processed.data # {}, memory |-> processed.memory,
     frames |-> acc.frames \o SetToSeq(processed.data)]
Processed(p, items) ==
    FoldLeft(LAMBDA acc, item : IF acc.ok THEN And(acc, ProcessPacket(p, item, acc.memory)) ELSE acc,
             [ok |-> TRUE, memory |-> memory, frames |-> <<>>], items)

\* What goes out, at most one frame, and the memory it leaves.
SentByTs(processed) ==
    [memory |-> processed.memory,
     frames |-> IF ~processed.ok THEN {}
                ELSE IF Ours.dataBatching # 0
                THEN {EncodeNativeBatch(processed.frames, Ours.gzipCompression)}
                ELSE {processed.frames[1]}]
SentByCore(items) ==
    [memory |-> memory,
     frames |-> EncodeWire(Core(Ours), [i \in DOMAIN items |-> Columns(Ours, items[i])])]

\* The sum of the numbers of an item, or of what it is delivered as.
Form(p) == IF p.autoFlatten THEN "rows" ELSE IF p.fields # Undefined THEN "record" ELSE "values"
InOrder(p, record) == [i \in DOMAIN p.fields |-> record[p.fields[i]]]
ValuesOf(p, form, data) ==
    CASE form = "values" -> data
      [] form = "record" -> InOrder(p, data)
      [] form = "rows" -> FlattenSeq([k \in DOMAIN data |-> InOrder(p, data[k])])
Amount(p, form, data) == IF p.quantized = Undefined THEN 0 ELSE SumOf(ValuesOf(p, form, data))

\* An application passes the items of a message to send(); a batch goes out whole.
Send ==
    /\ ends # Nobody /\ stage \in {"connected", "delivered", "refused"} /\ damage = "none"
    /\ round < MaxRounds(server[ends.key])
    /\ round' = round + 1
    /\ \E items \in Inputs(server[ends.key]) :
          /\ input' = items
          /\ \E sent \in {IF ends.sender = "core" THEN SentByCore(items)
                         ELSE SentByTs(Processed(Ours, items))} :
                /\ memory' = sent.memory
                /\ \/ /\ sent.frames = {}
                      /\ stage' = "refused" /\ wire' = <<>>
                      /\ sums' = [sums EXCEPT !.refused = @ + 1]
                   \/ /\ stage' = "sent" /\ wire' \in sent.frames
                      /\ sums' = [sums EXCEPT !.sent = @ + SumOf(
                             [i \in DOMAIN items |-> Amount(Ours, items[i].form, items[i].data)])]
    /\ output' = <<>>
    /\ UNCHANGED <<declared, known, server, client, ends, damage, last>>

\* What a client that does not follow the schema may send instead.
Damage ==
    /\ stage = "sent" /\ damage = "none" /\ ends.up /\ ends.sender = "ts" /\ round = 1
    /\ \/ damage' = "cut" /\ \E n \in 0 .. (Len(wire) - 1) : wire' = SubSeq(wire, 1, n)
       \/ damage' = "changed" /\ \E i \in DOMAIN wire : \E b \in Bytes \ {wire[i]} :
                                    wire' = [wire EXCEPT ![i] = b]
       \/ damage' = "grown" /\ \E b \in Bytes : wire' = Append(wire, b)
    /\ UNCHANGED <<declared, known, server, client, ends, stage, round, input, output, memory, last, sums>>

\* The core validates, then decodes; its values are positional.
ReceivedByCore ==
    LET payload(item) == [payload |-> IF Theirs.object THEN item ELSE item[1],
                          spread |-> TRUE, permutation |-> Undefined]
    IN  {[i \in DOMAIN items |-> payload(items[i])] : items \in DecodeWire(Core(Theirs), wire)}

\* An empty payload of a re-referenced packet is the last one once more.
Repeats == Theirs.rereference /\ wire = <<>>
ReceivedByTs ==
    IF Repeats THEN {last} \ {Undefined}
    ELSE IF Theirs.dataBatching = 0 THEN {<<l>> : l \in Listen(Theirs, wire)}
    ELSE UnravelBatch(Theirs, wire)

Receive ==
    /\ stage = "sent"
    /\ \E valid \in {ends.receiver = "ts" \/ ValidateWire(Core(Theirs), wire)} :
       \E received \in {IF ~valid THEN {} ELSE IF ends.receiver = "ts" THEN ReceivedByTs ELSE ReceivedByCore} :
           \/ /\ received = {}
              /\ stage' = IF ends.receiver = "core" /\ valid THEN "broken" ELSE "rejected"
              /\ UNCHANGED <<output, last, sums>>
           \/ /\ stage' = "delivered" /\ output' \in received
              /\ last' = IF ends.receiver = "ts" /\ Theirs.dataBatching = 0 /\ ~Repeats THEN output' ELSE last
              /\ sums' = IF damage # "none" THEN sums
                         ELSE [sums EXCEPT !.got = @ + SumOf(
                                  [i \in DOMAIN output' |-> Amount(Theirs, Form(Theirs), output'[i].payload)])]
    /\ UNCHANGED <<declared, known, server, client, ends, round, input, wire, damage, memory>>

Next == Declare \/ Connect \/ Choose \/ Send \/ Damage \/ Receive

Spec == Init /\ [][Next]_vars

-----------------------------------------------------------------------------
(* What a schema allows *)

\* The application's values of an item, one sequence per column.
AppColumns(p, item) ==
    IF ~p.object THEN <<ValuesOf(p, item.form, item.data)>>
    ELSE IF item.form # "rows" THEN item.data
    ELSE [c \in DOMAIN p.type |-> [k \in DOMAIN item.data |->
             IF p.fields = Undefined THEN item.data[k][c] ELSE item.data[k][p.fields[c]]]]

\* The numbers a quantized value may become: with the residual, either neighbour.
Neighbours(p, v) ==
    IF p.quantized = Undefined THEN {v}
    ELSE {(v * p.quantized.scale) \div Unit, -((-v * p.quantized.scale) \div Unit)}

\* The values a kind carries without loss.  Differences that do not fit an i32
\* are the one restriction that is not on single values.
FitsInt32(v) == AsInt32(v) = v
Carries(kind, values, size) ==
    CASE kind = "NONE" -> values = <<>>
      [] kind = "BYTES" -> \A i \in DOMAIN values : FitsInt32(values[i]) /\ Zigzag(values[i]) \in Bytes
      [] kind = "SHORTS" ->
            \A i \in DOMAIN values : FitsInt32(values[i]) /\ Zigzag(values[i]) < Byte * Byte
      [] kind = "VARINT" -> \A i \in DOMAIN values : FitsInt32(values[i])
      [] kind = "DELTAS" ->
            \A i \in DOMAIN values : FitsInt32(values[i]) /\ FitsInt32(Differences(values)[i])
      [] kind \in {"RAW", "UBYTES"} -> Range(values) \subseteq Bytes
      [] kind = "USHORTS" -> Range(values) \subseteq 0 .. (Byte * Byte - 1)
      [] kind = "UVARINT" -> Range(values) \subseteq 0 .. ((IF ends.sender = "ts" THEN Int32 ELSE Word) - 1)
      [] kind = "BOOLEANS" -> Range(values) \subseteq {0, 1}
      [] kind = "STRINGS_ASCII" -> Range(FlattenSeq(values)) \subseteq DOMAIN Codes
      [] kind = "STRINGS_UTF16" -> Range(FlattenSeq(values)) \subseteq CodePoints
      [] kind = "ENUMS" -> Range(values) \subseteq 0 .. (size - 1)

LegalColumn(p, c, values) ==
    /\ InRange(Len(values), p.dataMin[c], p.dataMax[c])
    /\ \A n \in [DOMAIN values -> UNION {Neighbours(p, values[i]) : i \in DOMAIN values}] :
          (\A i \in DOMAIN values : n[i] \in Neighbours(p, values[i]))
             => Carries(p.type[c], n, IF p.type[c] = "ENUMS" THEN Len(PackageOf(p, c).values) ELSE 0)
    /\ \A i \in DOMAIN values :
          /\ InBounds(p, values[i])
          /\ p.quantized # Undefined =>
                \A n \in Neighbours(p, values[i]) : InBounds(p, (n * Unit) \div p.quantized.scale)

\* A record names the schema's fields, rows are whole, and an object has all columns.
LegalShape(p, item) ==
    /\ p.autoFlatten => item.form = "rows"
    /\ item.form = "record" => p.fields # Undefined /\ DOMAIN item.data = Range(p.fields)
    /\ item.form = "rows" /\ p.fields # Undefined =>
          \A k \in DOMAIN item.data : DOMAIN item.data[k] = Range(p.fields)
    /\ item.form = "rows" /\ p.fields = Undefined =>
          item.data # <<>> /\ \A k \in DOMAIN item.data : Len(item.data[k]) = Len(p.type)
    /\ item.form = "values" /\ p.object => Len(item.data) = Len(p.type)

\* What the code is known not to keep: no strings at all without a count, booleans
\* in rows, the ends of strings and fractions in a hash.
Excepted(p, item) ==
    \/ ends.sender = "ts" /\ p.type = <<"STRINGS_ASCII">> /\ item.data = <<>>
    \/ p.autoFlatten /\ "BOOLEANS" \in Range(p.type)
    \/ p.rereference /\ (p.dataBatching # 0 \/ \E others \in Inputs(server[ends.key]) :
                            others[1] # item /\ Walk(p, others[1]) = Walk(p, item))

\* The sender's schema and the limits of the server, which only it knows.
Legal ==
    /\ server[ends.key].dataBatching # 0 /\ server[ends.key].maxBatchSize > 0
          => Len(input) <= server[ends.key].maxBatchSize
    /\ \A i \in DOMAIN input :
          /\ LegalShape(Ours, input[i]) /\ ~Excepted(Ours, input[i])
          /\ \A c \in DOMAIN Ours.type : LegalColumn(Ours, c, AppColumns(Ours, input[i])[c])

\* The client knew no other values for a package of the table.
FreshRegistry ==
    \A k \in DOMAIN server : \A e \in Range(server[k].enumData) :
        e.tag \in DOMAIN known => known[e.tag] = e.values

-----------------------------------------------------------------------------
(* Properties *)

\* The schema's record of a payload's values, and the values as they arrive: a
\* TypeScript receiver is given the values of an enum, booleans come padded.
Arriving(p, c, values) ==
    IF p.type[c] = "ENUMS" /\ ends.receiver = "ts"
    THEN [i \in DOMAIN values |-> PackageOf(p, c).values[values[i] + 1]]
    ELSE IF p.type[c] = "BOOLEANS"
    THEN [i \in 1 .. p.dataMax[c] |-> IF i \in DOMAIN values THEN values[i] ELSE 0]
    ELSE values

\* One value sequence per column of what a listener was given.
ListenedColumns(p, payload) ==
    IF p.object /\ ~p.autoFlatten THEN payload
    ELSE IF Form(p) = "values" /\ ~p.object THEN <<payload>>
    ELSE AppColumns(p, [form |-> Form(p), data |-> payload])

\* Within one wire unit, if the packet rounds.
Alike(p, v, w) ==
    IF p.quantized = Undefined THEN v = w
    ELSE LET d == p.quantized.scale * (v - w) IN -Unit <= d /\ d <= Unit

\* What the core sends and a TypeScript receiver has no exact number for.
Inexact(c, v) == Ours.type[c] = "UVARINT" /\ ends.receiver = "ts" /\ v > 2 ^ NumberBits

Arrives(i) ==
    LET sent == AppColumns(Ours, input[i])
        got == ListenedColumns(Theirs, output[i].payload)
    IN  \A c \in DOMAIN sent :
            LET values == Arriving(Ours, c, sent[c])
            IN  /\ Len(got[c]) = Len(values)
                /\ \A k \in DOMAIN values :
                      Inexact(c, values[k]) \/ Alike(Ours, values[k], got[c][k])

\* Listeners are called with what was sent, whichever runtimes are at the ends:
\* through the columns of an object, the rows of a table, a batch, compression, a
\* payload that only refers to the last one, and a table read from its bytes.
\* Words beyond the whole numbers a double is exact for arrive rounded.
RoundTrip ==
    /\ stage = "delivered" /\ damage = "none" /\ Legal /\ FreshRegistry
    /\ Theirs.quantized # Undefined => Theirs.fields # Undefined
    => Len(output) = Len(input) /\ \A i \in DOMAIN input : Arrives(i)

\* A payload the schema allows is refused by nobody: not by the sender's checks,
\* nor by the receiver's, which see the wire and not the values.
LegalIsAccepted ==
    stage \in {"refused", "rejected", "broken"} /\ damage = "none" => ~(Legal /\ FreshRegistry)

\* What a receiver accepts, from whatever peer, decodes without an error to as
\* many values as the schema allows, within its bounds and its enum packages.
AcceptedDecodes ==
    /\ stage # "broken"
    /\ stage = "delivered" /\ FreshRegistry => \A i \in DOMAIN output :
          LET columns == ListenedColumns(Theirs, output[i].payload)
              whole == Form(Theirs) # "record" \/ Theirs.dataMin = Theirs.dataMax
          IN  whole => \A c \in DOMAIN columns :
                /\ Theirs.type[c] \notin {"NONE", "RAW"} =>
                      InRange(Len(columns[c]), Theirs.dataMin[c], Theirs.dataMax[c])
                /\ Theirs.type[c] = "ENUMS" =>
                      Range(columns[c]) \subseteq
                          IF ends.receiver = "ts" THEN Range(PackageOf(Theirs, c).values)
                          ELSE 0 .. (Len(PackageOf(Theirs, c).values) - 1)
                /\ Theirs.quantized = Undefined \/ Theirs.fields # Undefined =>
                      \A k \in DOMAIN columns[c] : InBounds(Theirs, columns[c][k])

\* Rounding never accumulates: however many values were sent, their sum and the
\* sum of what arrived differ by half a wire unit, and by one more for each message
\* that was refused after some of its values had moved the residual.
DriftBounded ==
    /\ stage \in {"delivered", "refused"} /\ damage = "none"
    /\ Ours.quantized # Undefined /\ Ours.quantized.trackError /\ Ours.fields # Undefined
    => LET d == 2 * Ours.quantized.scale * (sums.sent - sums.got)
           most == Unit * (1 + 2 * sums.refused)
       IN  -most <= d /\ d <= most

\* The schema a client reads is the schema the server has.  The rate limit and
\* the batch limit stay with the server; the batching interval is one byte.
TablesAgree ==
    /\ stage = "mismatched" => ~FreshRegistry
    /\ stage \notin {"start", "declared", "undeclared", "mismatched"}
          /\ FreshRegistry /\ (\A k \in DOMAIN server : server[k].dataBatching <= MaxByte)
       => client = [k \in DOMAIN server |->
              [server[k] EXCEPT !.client = TRUE, !.rateLimit = -1, !.maxBatchSize = Undefined,
                  !.minSize = IF server[k].object THEN @ ELSE server[k].dataMin[1],
                  !.maxSize = IF server[k].object THEN @ ELSE server[k].dataMax[1]]]

\* A selection of a group's values is sent as the variant it resolves to, on either
\* side, and received as the same selection; one with opposites has no variant.
SelectionRoundTrip ==
    stage = "connected" =>
        \A i \in DOMAIN declared : declared[i].shape = "group" /\ declared[i].permutation # Undefined =>
            LET m == declared[i].permutation
                selections == [Range(m.values) -> BOOLEAN]
            IN  \A table \in {server, client} : \A s \in selections :
                    LET tags == GetPermutationVariant(table, declared[i].tag, s)
                        chosen == {v \in DOMAIN m.values : s[m.values[v]]}
                    IN  /\ tags = {} <=> ContainsOpposites(m, chosen)
                        /\ \A t \in tags : \A k \in GetKey(table, t) :
                              /\ Permutation(table[k]) = s
                              /\ Resolve(m, s) = {table[k].group.variant}
                              /\ Expand(m, table[k].group.variant) = {s}

=============================================================================
