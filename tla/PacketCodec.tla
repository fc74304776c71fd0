----------------------------- MODULE PacketCodec -----------------------------
(***************************************************************************)
(* A TypeScript packet's way to the wire and back: processPacket with      *)
(* prepareSend and processSend on the sender's side, validate,             *)
(* processReceive and finishReceive on the receiver's (packets/Packets.ts, *)
(* PacketUtils.ts, BatchHelper.ts, HashUtil.ts).  Deflate is lossless; the *)
(* wire is shown inflated.                                                 *)
(***************************************************************************)
EXTENDS Quantization, NativeWrapper

Trunc(n) == IF n >= 0 THEN n \div Unit ELSE -((-n) \div Unit)

\* What hashValue walks over: numbers without their fractions, characters
\* without the ends of their strings, the values of records and rows.
Walk(p, item) ==
    LET numbers(values) == IF p.type[1] \in Strings THEN FlattenSeq(values)
                           ELSE [i \in DOMAIN values |->
                                    IF p.quantized = Undefined THEN values[i] ELSE Trunc(values[i])]
        ofRecord(r) == numbers([i \in DOMAIN p.fields |-> r[p.fields[i]]])
    IN  CASE item.form = "values" -> numbers(item.data)
          [] item.form = "record" -> ofRecord(item.data)
          [] item.form = "rows" -> FlattenSeq([k \in DOMAIN item.data |-> ofRecord(item.data[k])])

ProcessSend(p, values) ==
    IF p.object
    THEN LET column(i) ==
                 IF p.type[i] # "ENUMS" THEN {values[i]}
                 ELSE {[k \in DOMAIN v |-> PackageOf(p, i).values[v[k] + 1]] :
                          v \in {w \in {values[i]} :
                                    Range(w) \subseteq 0 .. (Len(PackageOf(p, i).values) - 1)}}
         IN  IF Len(values) # Len(p.type) THEN {}
             ELSE UNION {EncodeNativeObject(p, d) : d \in All([i \in DOMAIN p.type |-> column(i)])}
    ELSE IF p.type[1] = "ENUMS" THEN {[i \in DOMAIN values |-> values[i] % Byte]}
    ELSE EncodeNative(p.type[1], values, <<>>)

\* Which counts processPacket refuses; rows are not counted by column.
Countable(p, values) ==
    LET flattened == p.object /\ p.autoFlatten
    IN  /\ (flattened /\ p.fields = Undefined) \/ (p.minSize <= Len(values) /\ Len(values) <= p.maxSize)
        /\ p.object /\ ~p.autoFlatten =>
              \A i \in DOMAIN values : p.dataMin[i] <= Len(values[i]) /\ Len(values[i]) <= p.dataMax[i]

Encoded(p, values) ==
    IF ~Countable(p, values) THEN {} ELSE IF values = <<>> THEN {<<>>} ELSE ProcessSend(p, values)

\* A repeated payload, and one without values, goes out empty.
ProcessPacket(p, item, memory) ==
    LET hash == Walk(p, item)
        values(prepared) == IF p.object /\ p.autoFlatten /\ p.fields = Undefined
                            THEN Transpose(prepared.values) ELSE prepared.values
    IN  IF p.rereference /\ memory.lastSent = hash
        THEN [data |-> {<<>>}, memory |-> memory]
        ELSE LET prepared == PrepareSend(p, item, memory.residual)
             IN  [data |-> UNION {Encoded(p, v) : v \in {values(q) : q \in {r \in {prepared} : r.ok}}},
                  memory |-> [lastSent |-> IF p.rereference THEN hash ELSE memory.lastSent,
                              residual |-> prepared.residual]]

-----------------------------------------------------------------------------
(* The receiver *)

Validate(p, bytes) ==
    IF p.object THEN ValidateNativeObject(p, bytes)
    ELSE /\ p.gzipCompression /\ p.dataBatching = 0 => Len(bytes) <= MaxInflated
         /\ ValidateNative(p.type[1], bytes, p.dataMin[1], p.dataMax[1],
                           IF p.enumData = <<>> THEN <<>> ELSE p.enumData[1])

ProcessReceive(p, bytes) ==
    IF p.object THEN DecodeNativeObject(p, bytes)
    ELSE DecodeNative(p.type[1], bytes, p.dataMax[1], IF p.enumData = <<>> THEN <<>> ELSE p.enumData[1])

\* What the listeners are called with: the payload, whether its values are spread,
\* and for the parent of a permutation what the variant stands for.
Listened(p, usable) ==
    [payload |-> usable, spread |-> ~IsParent(p) /\ p.fields = Undefined /\ ~p.dontSpread,
     permutation |-> IF p.group = Undefined \/ p.group.permutation = Undefined THEN Undefined
                     ELSE Permutation(p)]

Listen(p, bytes) ==
    UNION {{Listened(p, u) : u \in FinishReceive(p, d)} :
              d \in UNION {ProcessReceive(p, b) : b \in {c \in {bytes} : Validate(p, c)}}}

\* unravelBatch: one bad item, and the whole batch is refused.
UnravelBatch(p, bytes) ==
    LET limit == IF p.maxBatchSize = Undefined \/ p.maxBatchSize < 0 THEN 0 ELSE p.maxBatchSize
    IN  UNION {All([i \in DOMAIN s |-> Listen(p, s[i])]) :
                  s \in DecodeNativeBatch(bytes, p.gzipCompression, limit)}
=============================================================================
