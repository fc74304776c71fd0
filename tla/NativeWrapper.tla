---------------------------- MODULE NativeWrapper ----------------------------
(***************************************************************************)
(* native/wrapper.ts: how the TypeScript runtime calls the codec core, and *)
(* the encoders it has of its own for varints and plain batches.  The      *)
(* conversions of numbers at the boundary are those of core/ffi/wasm.rs.   *)
(* An enum package is [tag, values]; the application sends indexes, and    *)
(* receives the values themselves.                                         *)
(***************************************************************************)
EXTENDS Codec

CONSTANT NumberBits     \* the whole numbers a double is exact for: 53 bits

ASSUME NumberAssumption == NumberBits \in IntBits .. WordBits

\* Numbers become i32 by saturation, and u32 or an error.
Saturate(n) ==
    IF n < -(Int32 \div 2) THEN -(Int32 \div 2) ELSE IF n >= Int32 \div 2 THEN Int32 \div 2 - 1 ELSE n
Saturated(values) == [i \in DOMAIN values |-> Saturate(values[i])]
AreUnsigned(values) == Range(values) \subseteq 0 .. (Int32 - 1)

\* Lowest group first, with the top bit set on all but the last byte.
RECURSIVE LowGroups(_)
LowGroups(n) == IF n < Group THEN <<n>> ELSE <<(n % Group) + Group>> \o LowGroups(n \div Group)

\* The shifts of (n << 1) ^ (n >> 31), read as an unsigned word.
ShiftedSign(n) == (2 * n) % Int32
ZigzagBits(n) == IF n >= 0 THEN ShiftedSign(n) ELSE (Int32 - 1) - ShiftedSign(n)

EncodeIntegerVarints(values, signed) ==
    FlattenSeq([i \in DOMAIN values |->
        LowGroups(IF signed THEN ZigzagBits(Saturate(values[i])) ELSE values[i])])

EnumIndex(package, value) ==
    LET places == {i \in DOMAIN package.values : package.values[i] = value}
    IN  {(CHOOSE i \in places : \A j \in places : i <= j) - 1 : v \in {w \in {value} : places # {}}}

\* What the core is given, if the conversion at its boundary allows it.
Native(type, values) ==
    CASE type \in {"BYTES", "SHORTS", "DELTAS"} -> {Saturated(values)}
      [] type \in {"UBYTES", "USHORTS"} -> {v \in {values} : AreUnsigned(v)}
      [] type \in Strings \cup {"NONE", "BOOLEANS"} -> {values}

EncodeNative(type, values, package) ==
    CASE type = "RAW" -> {[i \in DOMAIN values |-> values[i] % Byte]}
      [] type = "VARINT" -> {EncodeIntegerVarints(values, TRUE)}
      [] type = "UVARINT" -> {EncodeIntegerVarints(v, FALSE) : v \in {w \in {values} : AreUnsigned(w)}}
      [] type = "ENUMS" -> All([i \in DOMAIN values |-> EnumIndex(package, values[i])])
      [] OTHER -> UNION {EncodeType(type, v, 0) : v \in Native(type, values)}

\* `n as f64`: to the nearest multiple of the unit in the last place, and to the
\* even one of two.
AsNumber(n) ==
    LET unit == CHOOSE u \in {2 ^ k : k \in 0 .. (WordBits - NumberBits)} :
                    /\ n < u * 2 ^ NumberBits
                    /\ u = 1 \/ n >= (u \div 2) * 2 ^ NumberBits
        below == n \div unit
        rest == 2 * (n % unit)
    IN  unit * (IF rest > unit \/ (rest = unit /\ below % 2 = 1) THEN below + 1 ELSE below)

AsNumbers(values) == [i \in DOMAIN values |-> AsNumber(values[i])]

DecodeNative(type, bytes, cap, package) ==
    CASE type \in {"UBYTES", "USHORTS", "UVARINT"} -> {AsNumbers(v) : v \in DecodeType(type, bytes, cap, 0)}
      [] type \notin {"UBYTES", "USHORTS", "UVARINT", "ENUMS"} -> DecodeType(type, bytes, cap, 0)
      [] type = "ENUMS" ->
            {[i \in DOMAIN b |-> package.values[b[i] + 1]] :
                b \in {c \in {bytes} : \A i \in DOMAIN c : c[i] < Len(package.values)}}

ValidateNative(type, bytes, min, max, package) ==
    IF type = "ENUMS" THEN ValidEnums(bytes, min, max, Len(package.values))
    ELSE ValidateType(type, bytes, min, max, 0)

-----------------------------------------------------------------------------
(* Objects and batches *)

\* The i-th column's package: the n-th one for the n-th ENUMS column.
PackageOf(p, i) == p.enumData[Cardinality({j \in 1 .. i : p.type[j] = "ENUMS"})]

EncodeNativeObject(p, fields) ==
    IF Len(fields) # Len(p.type) THEN {}
    ELSE {EncodeSectors(d) : d \in
             All([i \in DOMAIN fields |-> EncodeNative(p.type[i], fields[i], PackageOf(p, i))])}

\* Faulty variant: every ENUMS column is read with the first package.
DecodeWithFirstPackage(p, bytes) ==
    UNION {All([i \in DOMAIN d |-> DecodeNative(p.type[i], d[i], p.dataMax[i], p.enumData[1])]) :
              d \in {s \in Batches(bytes, Len(p.type)) : Len(s) = Len(p.type)}}

DecodeNativeObject(p, bytes) ==
    UNION {All([i \in DOMAIN d |-> DecodeNative(p.type[i], d[i], p.dataMax[i], PackageOf(p, i))]) :
              d \in {s \in Batches(bytes, Len(p.type)) : Len(s) = Len(p.type)}}

\* What the core knows of a packet.
NativeSchema(p) ==
    [object |-> p.object, kinds |-> p.type, min |-> p.dataMin, max |-> p.dataMax,
     sizes |-> [i \in DOMAIN p.enumData |-> Len(p.enumData[i].values)],
     compressed |-> p.gzipCompression, batching |-> p.dataBatching # 0, maxBatch |-> p.maxBatchSize]

ValidateNativeObject(p, bytes) == ValidatePacket(NativeSchema(p), bytes)

\* Plain batches are framed here, compressed ones in the core.
EncodeNativeBatch(payloads, compressed) ==
    IF compressed THEN EncodeSectors(payloads)
    ELSE FlattenSeq([i \in DOMAIN payloads |-> LowGroups(Len(payloads[i])) \o payloads[i]])

DecodeNativeBatch(bytes, compressed, limit) ==
    UNION {Batches(b, limit) : b \in {c \in {bytes} : compressed => Len(c) <= MaxInflated}}
=============================================================================
