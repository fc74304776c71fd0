----------------------------- MODULE MCPayload -----------------------------
(***************************************************************************)
(* A small instance of Payload: groups of 2 bits, integers of 6 and words  *)
(* of 7, so that a varint has up to 4 bytes and its last group one bit, as *)
(* the tenth byte of the real one; a byte goes up to 7, the protocol's     *)
(* data maximum is 4, and quantized values are counted in quarters.        *)
(***************************************************************************)
EXTENDS Payload

\* A prefix code with codewords of one, two and three bits.
MCCodes == [c \in 0 .. 2 |-> CASE c = 0 -> <<0>> [] c = 1 -> <<1, 0>> [] c = 2 -> <<1, 1, 0>>]
MCCodePoints == {0, 5, 20}

None == Undefined
Defaults == [shape |-> "packet", tag |-> <<"p">>, type |-> "NONE", enum |-> None, dataMax |-> None,
    dataMin |-> None, noDataRange |-> FALSE, dontSpread |-> FALSE, dataBatching |-> 0,
    maxBatchSize |-> 10, rateLimit |-> 0, async |-> FALSE, gzipCompression |-> FALSE,
    rereference |-> FALSE, schema |-> None, autoFlatten |-> FALSE, quantized |-> None,
    min |-> None, max |-> None, replay |-> FALSE]

Single(name, type, min, max) ==
    [Defaults EXCEPT !.tag = <<name>>, !.type = type, !.dataMin = min, !.dataMax = max]

Object(name, types, enums, min, max) ==
    [shape |-> "object", tag |-> <<name>>, types |-> types, enums |-> enums,
     dataMaxes |-> [each |-> FALSE, value |-> max], dataMins |-> [each |-> FALSE, value |-> min],
     noDataRange |-> FALSE, autoTranspose |-> None, autoFlatten |-> FALSE, schema |-> None,
     dontSpread |-> FALSE, dataBatching |-> 0, maxBatchSize |-> 10, rateLimit |-> 0,
     async |-> FALSE, gzipCompression |-> FALSE, replay |-> FALSE]

-----------------------------------------------------------------------------
(* Tables *)

Text(t) == [type |-> "string", text |-> t]
Number(t) == [type |-> "number", text |-> t]
Colours == [tag |-> "colours", values |-> <<Text("red"), Number("0")>>]
Sizes == [tag |-> "sizes", values |-> <<Text("s")>>]

KindsInOrder == <<"NONE", "RAW", "BYTES", "UBYTES", "SHORTS", "USHORTS", "VARINT", "UVARINT", "DELTAS",
                  "BOOLEANS", "STRINGS_ASCII", "STRINGS_UTF16">>
Kind(k) == IF k = "NONE" THEN Single(k, k, None, None) ELSE Single(k, k, 1, IF k = "DELTAS" THEN 3 ELSE 2)
Kinds0 == [i \in DOMAIN KindsInOrder |-> Kind(KindsInOrder[i])]
       \o <<[Single("enum", "ENUMS", None, 2) EXCEPT !.shape = "enum", !.enum = Colours]>>
Compressed == [i \in DOMAIN KindsInOrder |-> [Kind(KindsInOrder[i]) EXCEPT !.gzipCompression = TRUE]]

Objects == <<
    Object("mixed", <<"ENUMS", "VARINT", "ENUMS">>, <<Sizes, Colours>>, 1, 2),
    Object("flags", <<"BOOLEANS", "STRINGS_UTF16">>, <<>>, 0, 1),
    [Object("table", <<"UBYTES", "ENUMS">>, <<Colours>>, 1, 2) EXCEPT
        !.autoTranspose = TRUE, !.schema = <<"a", "b">>, !.dataMins = None, !.dataMaxes =
            [each |-> TRUE, values |-> <<2, 2>>]],
    [Object("rows", <<"UBYTES", "VARINT">>, <<>>, 0, 2) EXCEPT !.autoFlatten = TRUE],
    [Object("batched", <<"UBYTES", "NONE">>, <<>>, 1, 1) EXCEPT !.dataBatching = 5, !.maxBatchSize = 2]>>

Batches0 == <<
    [Single("varints", "VARINT", 0, 2) EXCEPT !.dataBatching = 3, !.maxBatchSize = 2],
    [Single("bytes", "UBYTES", 0, 2) EXCEPT !.dataBatching = 3, !.maxBatchSize = 0],
    [Single("deflated", "VARINT", 0, 2) EXCEPT !.dataBatching = 3, !.maxBatchSize = 2, !.gzipCompression = TRUE],
    [Single("any", "STRINGS_ASCII", None, None) EXCEPT !.noDataRange = TRUE]>>

\* Scale 2 over quarters: a wire unit is half, and two quarters lie between its multiples.
Scaled(track) == [scale |-> 2, trackError |-> track]
Quantized == <<
    [Single("move", "BYTES", 2, 2) EXCEPT !.schema = <<"x", "y">>, !.quantized = Scaled(None),
        !.min = -4, !.max = 6],
    [Single("path", "VARINT", None, None) EXCEPT !.schema = <<"x">>, !.autoFlatten = TRUE,
        !.quantized = Scaled(TRUE), !.min = -2],
    [Single("still", "UBYTES", 1, 1) EXCEPT !.schema = <<"x">>, !.quantized = Scaled(FALSE), !.max = 5]>>

Others == <<
    [Single("again", "UBYTES", 1, 2) EXCEPT !.rereference = TRUE],
    [Single("names", "STRINGS_ASCII", 1, 2) EXCEPT !.rereference = TRUE],
    [Single("point", "SHORTS", 2, 2) EXCEPT !.rereference = TRUE, !.schema = <<"x", "y">>, !.min = -2, !.max = 3],
    [Single("plain", "VARINT", 0, 2) EXCEPT !.min = 0, !.async = TRUE, !.dontSpread = TRUE]>>

Switches == [values |-> <<"fast", "slow", "lit">>, opposites |-> <<<<1, 2>>>>]
Groups0 == <<
    [shape |-> "group", tag |-> "car", permutation |-> Switches, variants |-> <<>>,
     defaults |-> Single("", "UBYTES", 1, 1)],
    [shape |-> "group", tag |-> "bike", permutation |-> None, defaults |-> Single("", "UBYTES", 1, 1),
     variants |-> <<[variant |-> <<"old">>, definition |-> [type |-> "VARINT", dataMax |-> 2]]>>]>>

\* Declarations that throw, or that one of the later checks refuses.
Wrong == {
    <<Kind("VARINT"), Kind("VARINT")>>,
    <<[Kind("RAW") EXCEPT !.quantized = Scaled(TRUE)]>>,
    <<[Kind("UBYTES") EXCEPT !.min = -1]>>,
    <<[Kind("UBYTES") EXCEPT !.schema = <<"x", "x">>]>>,
    <<[Kind("UBYTES") EXCEPT !.replay = TRUE, !.dataBatching = 1]>>,
    <<[Kind("UBYTES") EXCEPT !.rateLimit = -1]>>,
    <<[Kind("UBYTES") EXCEPT !.rereference = TRUE, !.dataMin = 0]>>,
    <<[Groups0[1] EXCEPT !.permutation.opposites = <<<<1, 1>>>>]>>,
    <<[Groups0[2] EXCEPT !.variants = <<>>]>>,
    <<Objects[1], [Objects[2] EXCEPT !.types = <<>>]>>}

\* Settings out of range, which are clamped or kept as the code does.
Clamped == <<
    [Single("most", "VARINT", -1, 9) EXCEPT !.rateLimit = 99],
    [Single("least", "VARINT", 3, 2) EXCEPT !.replay = TRUE],
    [Single("slow", "UBYTES", 1, 1) EXCEPT !.dataBatching = 8]>>

MCTables == Wrong \cup {Kinds0, Compressed, Objects, Batches0, Quantized, Others, Groups0, Clamped}

\* What a client may know of an enum package from an earlier connection.
Registry(colours) == [t \in {"colours"} |-> colours]
MCRegistries == {
    <<>>, Registry(Colours.values), Registry(<<Text("red"), Text("green")>>), Registry(<<Text("red")>>)}
-----------------------------------------------------------------------------
(* Inputs *)

Few(S, n) == UNION {[1 .. k -> S] : k \in 0 .. n}

\* Values at the boundaries of each kind, some of them outside.
Samples(kind) ==
    CASE kind = "NONE" -> Few({0}, 1)
      [] kind = "RAW" -> Few({0, 7}, 2)
      [] kind = "UBYTES" -> Few({-1, 0, 3, 4, 7, 8}, 2)
      [] kind = "BYTES" -> Few({-5, -4, -1, 0, 3, 4}, 2)
      [] kind = "USHORTS" -> Few({0, 7, 8, 63, 64}, 2)
      [] kind = "SHORTS" -> Few({-32, -1, 0, 31}, 2)
      [] kind = "VARINT" -> Few({-33, -32, -1, 0, 1, 31, 32}, 2)
      [] kind = "DELTAS" -> Few({-32, 1, 31}, 3) \cup Few({-33, 0}, 1)
      [] kind = "UVARINT" -> Few({0, 3, 4, 16, 63, 64, 127}, 2)
      [] kind = "BOOLEANS" -> Few({0, 1}, 2)
      [] kind = "STRINGS_ASCII" -> Few(Few({0, 2}, 2) \cup {<<1, 2>>, <<3>>}, 2)
      [] kind = "STRINGS_UTF16" -> Few(Few({0, 5}, 2) \ {<<5, 0>>, <<0>>}, 2)
      [] kind = "ENUMS" -> Few({0, 1, 2}, 2)

Small(kind) ==
    CASE kind = "NONE" -> {<<>>}
      [] kind = "VARINT" -> Few({-1, 31}, 1)
      [] kind = "UBYTES" -> Few({4}, 2)
      [] kind = "BOOLEANS" -> Few({0, 1}, 1)
      [] kind = "STRINGS_UTF16" -> Few(Few({5}, 1), 1)
      [] kind = "STRINGS_ASCII" -> Few({<<2>>}, 2)
      [] kind = "ENUMS" -> Few({0, 1}, 1)

Items(form, S) == {[form |-> form, data |-> d] : d \in S}
One(items) == {<<i>> : i \in items}

Records(fields, S) == [Range(fields) -> S]
Product(p) ==
    LET column(c) == Small(p.type[c])
    IN  IF Len(p.type) = 2 THEN {<<v, w>> : v \in column(1), w \in column(2)}
        ELSE {<<v, w, x>> : v \in column(1), w \in column(2), x \in column(3)}

\* A record with a field too many, and one with a field too few.
Misfits(fields) == Items("record", {[f \in Range(fields) \cup {"extra"} |-> 0]} \cup
                                   {[f \in Range(fields) \ {fields[1]} |-> 0]})

MCInputs(p) ==
    CASE p.tag = <<"table">> ->
            One(Items("rows", Few(Records(<<"a", "b">>, {0, 1}), 3)
                              \cup {<<[f \in {"a"} |-> 1]>>}))
      [] p.tag = <<"rows">> -> One(Items("rows", Few([1 .. 2 -> {0, 3}], 2) \cup {<<<<1>>>>}))
      [] p.object /\ p.dataBatching = 0 -> One(Items("values", Product(p)))
      [] p.object -> Few(Items("values", Product(p)), 2)
      [] p.dataBatching # 0 /\ p.tag # <<"slow">> -> Few(Items("values", Small(p.type[1])), 3) \ {<<>>}
      [] p.tag = <<"move">> ->
            One(Items("record", Records(<<"x", "y">>, {-4, -1, 1, 3, 6, 7}))
                    \cup Items("values", {<<1, 3>>, <<1>>}) \cup Misfits(<<"x", "y">>))
      [] p.tag = <<"path">> -> One(Items("rows", Few(Records(<<"x">>, {-3, -1, 1, 5}), 2)))
      [] p.tag = <<"still">> -> One(Items("values", {<<v>> : v \in {0, 1, 4, 5}}))
      [] p.tag = <<"again">> -> One(Items("values", {<<1>>, <<1, 1>>, <<2>>, <<8>>, <<>>}))
      [] p.tag = <<"names">> -> One(Items("values", {<<<<0>>, <<1>>>>, <<<<0, 1>>>>, <<<<2>>>>, <<<<3>>>>}))
      [] p.tag = <<"point">> -> One(Items("record", Records(<<"x", "y">>, {-2, 3, 4})))
      [] p.tag[1] \in {"plain", "most", "least"} -> One(Items("values", Few({-1, 0, 2}, 3)))
      [] p.tag[1] \in {"car", "bike"} -> One(Items("values", {<<>>, <<2>>, <<2, 3>>}))
      [] p.tag = <<"slow">> -> {}
      [] OTHER -> One(Items("values", Samples(p.type[1])))

\* Packets with a memory are used more than once.
MCMaxRounds(p) == IF p.rereference \/ p.quantized # Undefined THEN 3 ELSE 1
=============================================================================
