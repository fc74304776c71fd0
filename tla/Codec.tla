------------------------------- MODULE Codec -------------------------------
(***************************************************************************)
(* The codec core (core/src) that every runtime encodes and decodes packet *)
(* payloads with: varints, zigzag, deltas, packed booleans, prefix-coded   *)
(* strings, sectors of object packets, batches, and the validation a       *)
(* receiver runs before it decodes.                                        *)
(*                                                                         *)
(* The widths are constants, so that a small instance meets every boundary *)
(* the real one has: a varint group of GroupBits (7) in a byte of one more *)
(* bit, words of WordBits (64), integers of IntBits (32).  As in the code, *)
(* WordBits need not be a multiple of GroupBits.                           *)
(*                                                                         *)
(* An operation that may fail returns a set: {} for an error, {v} for v.   *)
(* A payload is one sequence of values per field; booleans are 0 and 1, an *)
(* enum value is its index, a string is the sequence of its characters.    *)
(* Floats are opaque bytes and deflate is lossless, so neither is modelled *)
(* but for the bound a receiver puts on the inflated size.                 *)
(***************************************************************************)
EXTENDS Integers, Sequences, FiniteSets, SequencesExt

CONSTANTS
    GroupBits, IntBits, WordBits,
    Codes,       \* the prefix code: the bits of each ASCII character
    CodePoints,  \* the Unicode scalar values
    MaxInflated  \* MAX_DECOMPRESSED_SIZE

ASSUME CodecAssumption ==
    /\ GroupBits \in Nat \ {0} /\ IntBits \in Nat \ {0} /\ WordBits \in Nat \ {0}
    /\ 2 * (GroupBits + 1) <= IntBits /\ IntBits < WordBits
    /\ CodePoints \subseteq 0 .. (2 ^ IntBits - 1)

Group == 2 ^ GroupBits
ByteBits == GroupBits + 1
Byte == 2 ^ ByteBits
Int32 == 2 ^ IntBits
Word == 2 ^ WordBits
MaxGroups == (WordBits + GroupBits - 1) \div GroupBits

Bytes == 0 .. (Byte - 1)
CeilDiv(a, b) == (a + b - 1) \div b
From(s, i) == SubSeq(s, i, Len(s))

\* Whole or not at all: one value of each of the sets, or none.
All(parts) ==
    IF \E i \in DOMAIN parts : parts[i] = {} THEN {}
    ELSE {[i \in DOMAIN parts |-> CHOOSE v \in parts[i] : TRUE]}

-----------------------------------------------------------------------------
(* Varints and zigzag *)

Groups(n) == CHOOSE k \in 1 .. MaxGroups : n < Group ^ k /\ (k = 1 \/ n >= Group ^ (k - 1))

EncodeVarInt(n) ==
    [i \in 1 .. Groups(n) |->
        ((n \div (Group ^ (i - 1))) % Group) + (IF i < Groups(n) THEN Group ELSE 0)]

\* The bits a last group has beyond the word are shifted out.
DecodeVarInt(bytes) ==
    LET ends == {i \in DOMAIN bytes : i <= MaxGroups /\ bytes[i] < Group}
        last == CHOOSE i \in ends : \A j \in ends : i <= j
        part(i) == (bytes[i] % Group) * (Group ^ (i - 1))
    IN  IF ends = {} THEN {}
        ELSE {[value |-> FoldLeft(LAMBDA a, i : a + part(i), 0, [i \in 1 .. last |-> i]) % Word,
               rest |-> From(bytes, last + 1)]}

\* `value as i32`.
AsInt32(v) == LET u == v % Int32 IN IF u < Int32 \div 2 THEN u ELSE u - Int32

Zigzag(v) == LET w == AsInt32(v) IN IF w >= 0 THEN 2 * w ELSE - 2 * w - 1
Unzigzag(n) == LET u == n % Int32 IN IF u % 2 = 0 THEN u \div 2 ELSE - ((u + 1) \div 2)

\* The first k varints of a buffer, and what follows them.
RECURSIVE TakeVarInts(_, _)
TakeVarInts(k, bytes) ==
    IF k = 0 THEN {[values |-> <<>>, rest |-> bytes]}
    ELSE UNION {{[values |-> <<h.value>> \o t.values, rest |-> t.rest] :
                    t \in TakeVarInts(k - 1, h.rest)} : h \in DecodeVarInt(bytes)}

\* A buffer of varints and nothing else.
RECURSIVE Numbers(_)
Numbers(bytes) ==
    IF bytes = <<>> THEN {<<>>}
    ELSE UNION {{<<h.value>> \o t : t \in Numbers(h.rest)} : h \in DecodeVarInt(bytes)}

-----------------------------------------------------------------------------
(* Sectors: the framing of batches and of object packets *)

EncodeSectors(payloads) ==
    FlattenSeq([i \in DOMAIN payloads |-> EncodeVarInt(Len(payloads[i])) \o payloads[i]])

RECURSIVE Sectors(_)
Sectors(bytes) ==
    IF bytes = <<>> THEN {<<>>}
    ELSE UNION {{<<SubSeq(h.rest, 1, h.value)>> \o t : t \in Sectors(From(h.rest, h.value + 1))} :
                    h \in {d \in DecodeVarInt(bytes) : d.value <= Len(d.rest)}}

\* decode_batches_limited: a limit of zero is none.
Batches(bytes, limit) == {b \in Sectors(bytes) : limit <= 0 \/ Len(b) <= limit}

-----------------------------------------------------------------------------
(* Bits, most significant first *)

Pack(bits) ==
    [i \in 1 .. CeilDiv(Len(bits), ByteBits) |->
        FoldLeft(LAMBDA a, b : 2 * a +
                     (IF (i - 1) * ByteBits + b <= Len(bits) THEN bits[(i - 1) * ByteBits + b] ELSE 0),
                 0, [b \in 1 .. ByteBits |-> b])]

BitAt(bytes, i) ==
    (bytes[((i - 1) \div ByteBits) + 1] \div (2 ^ (ByteBits - 1 - ((i - 1) % ByteBits)))) % 2
Bits(bytes) == [i \in 1 .. Len(bytes) * ByteBits |-> BitAt(bytes, i)]

\* bools::decode: as many booleans as the schema's maximum, false past the end.
DecodeBooleans(bytes, cap) ==
    [i \in 1 .. cap |-> IF i <= Len(bytes) * ByteBits THEN BitAt(bytes, i) ELSE 0]

\* decode_huffman_exact: n characters and less than a byte of zero padding.
RECURSIVE Huffman(_, _)
Huffman(bits, n) ==
    IF n = 0
    THEN IF Len(bits) < ByteBits /\ \A i \in DOMAIN bits : bits[i] = 0 THEN {<<>>} ELSE {}
    ELSE UNION {{<<c>> \o t : t \in Huffman(From(bits, Len(Codes[c]) + 1), n - 1)} :
                    c \in {c \in DOMAIN Codes : IsPrefix(Codes[c], bits)}}

\* Splits a sequence of characters into strings of the given lengths.
Split(chars, lengths) ==
    LET start[i \in 1 .. Len(lengths) + 1] == IF i = 1 THEN 0 ELSE start[i - 1] + lengths[i - 1]
    IN  [i \in DOMAIN lengths |-> SubSeq(chars, start[i] + 1, start[i + 1])]

SumOf(numbers) == FoldLeft(LAMBDA a, b : a + b, 0, numbers)

-----------------------------------------------------------------------------
(* One sector *)

Signed == {"BYTES", "SHORTS", "VARINT", "DELTAS"}
Varints == {"VARINT", "UVARINT", "DELTAS"}
Strings == {"STRINGS_ASCII", "STRINGS_UTF16"}
Kinds == Signed \cup Varints \cup Strings \cup
         {"NONE", "RAW", "UBYTES", "USHORTS", "BOOLEANS", "ENUMS"}

EncodeBytes(numbers) == {n \in {numbers} : \A i \in DOMAIN n : n[i] \in Bytes}

EncodeShorts(numbers) ==
    {FlattenSeq([i \in DOMAIN n |-> <<n[i] \div Byte, n[i] % Byte>>]) :
        n \in {m \in {numbers} : \A i \in DOMAIN m : m[i] \in 0 .. (Byte * Byte - 1)}}

EncodeVarInts(numbers) ==
    {FlattenSeq([i \in DOMAIN n |-> EncodeVarInt(n[i])]) :
        n \in {m \in {numbers} : \A i \in DOMAIN m : m[i] \in 0 .. (Word - 1)}}

Zigzags(values) == [i \in DOMAIN values |-> Zigzag(values[i])]
Unzigzags(numbers) == [i \in DOMAIN numbers |-> Unzigzag(numbers[i])]

Differences(values) == [i \in DOMAIN values |-> values[i] - (IF i = 1 THEN 0 ELSE values[i - 1])]
RunningSums(values) == [i \in DOMAIN values |-> SumOf(SubSeq(values, 1, i))]

EncodeAscii(strings) ==
    {EncodeVarInt(Len(s))
        \o FlattenSeq([i \in DOMAIN s |-> EncodeVarInt(Len(s[i]))])
        \o Pack(FlattenSeq([i \in DOMAIN FlattenSeq(s) |-> Codes[FlattenSeq(s)[i]]])) :
        s \in {t \in {strings} : Range(FlattenSeq(t)) \subseteq DOMAIN Codes}}

EncodeUtf16(strings) ==
    FlattenSeq([i \in DOMAIN strings |->
        EncodeVarInt(Len(strings[i])) \o
        FlattenSeq([j \in DOMAIN strings[i] |-> EncodeVarInt(strings[i][j])])])

EncodeType(kind, values, size) ==
    CASE kind = "NONE" -> {v \in {values} : v = <<>>}
      [] kind = "RAW" -> {values}
      [] kind = "BYTES" -> EncodeBytes(Zigzags(values))
      [] kind = "UBYTES" -> EncodeBytes(values)
      [] kind = "SHORTS" -> EncodeShorts(Zigzags(values))
      [] kind = "USHORTS" -> EncodeShorts(values)
      [] kind = "VARINT" -> EncodeVarInts(Zigzags(values))
      [] kind = "UVARINT" -> EncodeVarInts(values)
      [] kind = "DELTAS" -> EncodeVarInts(Zigzags(Differences(values)))
      [] kind = "BOOLEANS" -> {Pack(values)}
      [] kind = "STRINGS_ASCII" -> EncodeAscii(values)
      [] kind = "STRINGS_UTF16" -> {EncodeUtf16(values)}
      [] kind = "ENUMS" -> {v \in {values} : \A i \in DOMAIN v : v[i] \in 0 .. (size - 1)}

Words(bytes) ==
    IF Len(bytes) % 2 # 0 THEN {}
    ELSE {[i \in 1 .. (Len(bytes) \div 2) |-> bytes[2 * i - 1] * Byte + bytes[2 * i]]}

DecodeAscii(bytes) ==
    UNION {UNION {
        {Split(chars, l.values) :
            chars \in LET total == SumOf(l.values)
                      IN  IF total = 0 THEN {<<>> : x \in {b \in {l.rest} : b = <<>>}}
                          ELSE Huffman(Bits(l.rest), total)} :
        l \in TakeVarInts(h.value, h.rest)} : h \in DecodeVarInt(bytes)}

RECURSIVE DecodeUtf16(_)
DecodeUtf16(bytes) ==
    IF bytes = <<>> THEN {<<>>}
    ELSE UNION {UNION {
        {<<[i \in DOMAIN l.values |-> l.values[i] % Int32]>> \o t : t \in DecodeUtf16(l.rest)} :
        l \in {m \in TakeVarInts(h.value, h.rest) :
                 \A i \in DOMAIN m.values : (m.values[i] % Int32) \in CodePoints}} :
        h \in DecodeVarInt(bytes)}

DecodeType(kind, bytes, cap, size) ==
    CASE kind = "NONE" -> {b \in {bytes} : b = <<>>}
      [] kind = "RAW" -> {bytes}
      [] kind = "BYTES" -> {Unzigzags(bytes)}
      [] kind = "UBYTES" -> {bytes}
      [] kind = "SHORTS" -> {Unzigzags(n) : n \in Words(bytes)}
      [] kind = "USHORTS" -> Words(bytes)
      [] kind = "VARINT" -> {Unzigzags(n) : n \in Numbers(bytes)}
      [] kind = "UVARINT" -> Numbers(bytes)
      [] kind = "DELTAS" -> {RunningSums(Unzigzags(n)) : n \in Numbers(bytes)}
      [] kind = "BOOLEANS" -> {DecodeBooleans(bytes, cap)}
      [] kind = "STRINGS_ASCII" -> DecodeAscii(bytes)
      [] kind = "STRINGS_UTF16" -> DecodeUtf16(bytes)
      [] kind = "ENUMS" -> {b \in {bytes} : \A i \in DOMAIN b : b[i] < size}

-----------------------------------------------------------------------------
(* Validation *)

InRange(n, min, max) == min <= n /\ n <= max

\* The header is checked before the characters are decoded.
ValidAscii(bytes, min, max) ==
    \E h \in DecodeVarInt(bytes) :
        /\ InRange(h.value, min, max)
        /\ \E l \in TakeVarInts(h.value, h.rest) :
              /\ SumOf(l.values) < Word
              /\ Len(l.rest) >= CeilDiv(SumOf(l.values), ByteBits)
              /\ DecodeAscii(bytes) # {}

\* Faulty variant: an index one past the package is let through.
ValidEnumsOffByOne(bytes, min, max, size) ==
    InRange(Len(bytes), min, max) /\ \A i \in DOMAIN bytes : bytes[i] <= size

ValidEnums(bytes, min, max, size) ==
    InRange(Len(bytes), min, max) /\ \A i \in DOMAIN bytes : bytes[i] < size

ValidateType(kind, bytes, min, max, size) ==
    CASE kind = "NONE" -> bytes = <<>>
      [] kind = "RAW" -> TRUE
      [] kind \in {"BYTES", "UBYTES"} -> InRange(Len(bytes), min, max)
      [] kind \in {"SHORTS", "USHORTS"} ->
            Len(bytes) % 2 = 0 /\ InRange(Len(bytes) \div 2, min, max)
      [] kind \in Varints -> \E n \in Numbers(bytes) : InRange(Len(n), min, max)
      [] kind = "BOOLEANS" -> InRange(Len(bytes), CeilDiv(min, ByteBits), CeilDiv(max, ByteBits))
      [] kind = "STRINGS_ASCII" -> ValidAscii(bytes, min, max)
      [] kind = "STRINGS_UTF16" -> \E s \in DecodeUtf16(bytes) : InRange(Len(s), min, max)
      [] kind = "ENUMS" -> ValidEnums(bytes, min, max, size)

-----------------------------------------------------------------------------
(* Packets *)

\* A packet's enum packages belong to its ENUMS sectors, in order.
SizeOf(p, i) == p.sizes[Cardinality({j \in 1 .. (i - 1) : p.kinds[j] = "ENUMS"}) + 1]

EncodePacket(p, fields) ==
    {IF p.object THEN EncodeSectors(d) ELSE d[1] :
        d \in All([i \in DOMAIN p.kinds |-> EncodeType(p.kinds[i], fields[i], SizeOf(p, i))])}

\* The sectors of a payload; an object has exactly as many as its schema.
SectorsOf(p, bytes) ==
    IF p.object THEN {d \in Sectors(bytes) : Len(d) = Len(p.kinds)} ELSE {<<bytes>>}

ValidatePacket(p, bytes) ==
    \E d \in SectorsOf(p, bytes) : \A i \in DOMAIN d :
        ValidateType(p.kinds[i], d[i], p.min[i], p.max[i], SizeOf(p, i))

DecodePacket(p, bytes) ==
    UNION {All([i \in DOMAIN d |-> DecodeType(p.kinds[i], d[i], p.max[i], SizeOf(p, i))]) :
              d \in SectorsOf(p, bytes)}

\* encoded_size_limit: the most bytes that many values take, if there is a most.
SizeLimit(kind, values) ==
    CASE kind = "NONE" -> {0}
      [] kind \in {"RAW", "BYTES", "UBYTES", "ENUMS"} -> {values}
      [] kind \in {"SHORTS", "USHORTS"} -> {2 * values}
      [] kind \in Varints -> {MaxGroups * values}
      [] kind = "BOOLEANS" -> {CeilDiv(values, ByteBits)}
      [] OTHER -> {}

\* Faulty variant: the length prefixes of a batch are forgotten.
InflateLimitWithoutPrefixes(p) ==
    LET payload == IF p.object THEN {} ELSE SizeLimit(p.kinds[1], p.max[1])
        total == IF p.batching THEN {s * p.maxBatch : s \in payload} ELSE payload
    IN  IF total = {} THEN MaxInflated ELSE CHOOSE n \in total : TRUE

InflateLimit(p) ==
    LET payload == IF p.object THEN {} ELSE SizeLimit(p.kinds[1], p.max[1])
        total == IF ~p.batching THEN payload
                 ELSE IF p.maxBatch <= 0 THEN {}
                 ELSE {(s + MaxGroups) * p.maxBatch : s \in payload}
    IN  IF \E n \in total : n <= MaxInflated THEN CHOOSE n \in total : TRUE ELSE MaxInflated

\* Objects are not compressed unless they are batched.
Inflates(p, bytes) == p.compressed /\ (p.batching \/ ~p.object) => Len(bytes) <= InflateLimit(p)

EncodeWire(p, items) ==
    {IF p.batching THEN EncodeSectors(d) ELSE d[1] :
        d \in All([i \in DOMAIN items |-> EncodePacket(p, items[i])])}

Payloads(p, bytes) == IF p.batching THEN Batches(bytes, p.maxBatch) ELSE {<<bytes>>}

ValidateWire(p, bytes) ==
    /\ Inflates(p, bytes)
    /\ \E b \in Payloads(p, bytes) : \A i \in DOMAIN b : ValidatePacket(p, b[i])

DecodeWire(p, bytes) ==
    UNION {All([i \in DOMAIN b |-> DecodePacket(p, b[i])]) : b \in Payloads(p, bytes)}
=============================================================================
