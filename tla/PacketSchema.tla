---------------------------- MODULE PacketSchema ----------------------------
(***************************************************************************)
(* Packet declarations of the TypeScript runtime: CreatePacket and its     *)
(* siblings, the Packet they build, the checks on a whole table, the bytes *)
(* a server negotiates it with and the table a client rebuilds from them,  *)
(* and the generated variants of a packet group (util/packets/             *)
(* PacketUtils.ts, packets/Packets.ts, PacketHolder.ts,                    *)
(* SchemaValidation.ts, VariantPermutation.ts, EnumHandler.ts).            *)
(*                                                                         *)
(* A packet keeps its types and limits as sequences, of length one unless  *)
(* it is an object.  An operation that may throw returns a set: {} for an  *)
(* exception, {v} for v.  A tag is a tuple, <<name>> or                    *)
(* <<parent, variant>>; a variant is the sequence of the values it is      *)
(* joined from, <<>> being the parent's own.  Validators, `enabled`,       *)
(* constructors and the JSON, HEX, FLOATS and DOUBLES types are left out.  *)
(***************************************************************************)
EXTENDS Integers, Sequences, FiniteSets, SequencesExt

CONSTANTS
    Undefined,      \* a setting that is not given
    MaxByte,        \* MAX_BYTE
    MaxShort,       \* MAX_USHORT
    MaxDataMax,     \* MAX_DATA_MAX
    MaxPackets      \* the largest table

-----------------------------------------------------------------------------
(* Settings *)

NumericTypes == {"BYTES", "UBYTES", "SHORTS", "USHORTS", "VARINT", "UVARINT", "DELTAS"}
UnsignedTypes == {"UBYTES", "USHORTS", "UVARINT"}
PacketTypes == NumericTypes \cup
    {"NONE", "RAW", "BOOLEANS", "STRINGS_ASCII", "STRINGS_UTF16", "ENUMS"}

Default(value, default) == IF value = Undefined THEN default ELSE value

ClampDataMax(max) == IF max < 0 THEN 0 ELSE IF max > MaxDataMax THEN MaxDataMax ELSE max
ClampDataMin(min, max) == IF min < 0 THEN 0 ELSE IF min > max THEN max ELSE min
ClampRateLimit(limit) == {IF r > MaxShort THEN 0 ELSE r : r \in {limit} \cap Nat}

\* The range of a single packet before it is clamped.
DataRange(s) ==
    LET repeated == s.autoFlatten /\ s.dataMax = Undefined /\ s.dataMin = Undefined
        max == Default(s.dataMax, 1)
    IN  IF s.noDataRange \/ repeated
        THEN [min |-> IF s.rereference THEN 1 ELSE 0, max |-> MaxDataMax]
        ELSE [min |-> Default(s.dataMin, IF s.type = "NONE" THEN 0 ELSE max), max |-> max]

ValidFields(fields) == fields # Undefined => fields # <<>> /\ IsInjective(fields)

ValidNumericOptions(type, quantized, min, max) ==
    /\ min # Undefined /\ max # Undefined => min <= max
    /\ quantized # Undefined \/ min # Undefined \/ max # Undefined => type \in NumericTypes
    /\ quantized # Undefined => quantized.scale > 0

-----------------------------------------------------------------------------
(* Packets *)

\* The schema's fields, and those only a single packet or a group has.
PacketSchema(object, types, enums, mins, maxes, s, fields, transposed) ==
    [tag |-> s.tag, object |-> object, type |-> types, enumData |-> enums,
     dataMin |-> mins, dataMax |-> maxes,
     dataBatching |-> s.dataBatching, maxBatchSize |-> s.maxBatchSize, rateLimit |-> 0,
     dontSpread |-> s.dontSpread, async |-> s.async, autoFlatten |-> transposed,
     gzipCompression |-> s.gzipCompression, replay |-> s.replay, fields |-> fields,
     rereference |-> FALSE, quantized |-> Undefined, valueMin |-> Undefined, valueMax |-> Undefined,
     group |-> Undefined, minSize |-> 0, maxSize |-> 0, client |-> FALSE]

\* The constructor: NONE carries nothing, a client does not limit batches, and
\* residuals are tracked unless the declaration says no.
Packet(schema, client) ==
    LET none(i) == schema.type[i] = "NONE"
        q == schema.quantized
    IN  [schema EXCEPT
            !.dataMin = [i \in DOMAIN @ |-> IF none(i) THEN 0 ELSE @[i]],
            !.dataMax = [i \in DOMAIN @ |-> IF none(i) THEN 0 ELSE @[i]],
            !.minSize = IF schema.object THEN Len(schema.type) ELSE schema.dataMin[1],
            !.maxSize = IF schema.object THEN Len(schema.type) ELSE schema.dataMax[1],
            !.maxBatchSize = IF client THEN Undefined ELSE @,
            !.quantized = IF q = Undefined THEN Undefined
                          ELSE [scale |-> q.scale, trackError |-> Default(q.trackError, TRUE)],
            !.client = client]

CreatePacket(s, group) ==
    LET range == DataRange(s)
        accepted ==
            /\ s.rereference => range.min # 0
            /\ s.replay => s.dataBatching = 0
            /\ s.type \in PacketTypes
            /\ ValidFields(s.schema)
            /\ s.autoFlatten => s.schema # Undefined
            /\ s.schema # Undefined /\ ~s.autoFlatten /\ range.min = range.max
                  => Len(s.schema) = range.max
            /\ ValidNumericOptions(s.type, s.quantized, s.min, s.max)
        schema == PacketSchema(FALSE, <<s.type>>, IF s.enum = Undefined THEN <<>> ELSE <<s.enum>>,
                      <<ClampDataMin(range.min, range.max)>>, <<ClampDataMax(range.max)>>,
                      s, s.schema, s.autoFlatten)
    IN  {Packet([schema EXCEPT !.rateLimit = rate, !.rereference = s.rereference,
                     !.quantized = s.quantized, !.valueMin = s.min, !.valueMax = s.max,
                     !.group = group], FALSE) :
            rate \in {r \in ClampRateLimit(s.rateLimit) : accepted}}

\* An enum packet fixes its type and, unlike CreatePacket, its minimum to zero.
CreateEnumPacket(s) ==
    CreatePacket([s EXCEPT !.type = "ENUMS", !.dataMax = Default(@, 1), !.dataMin = Default(@, 0),
                      !.gzipCompression = FALSE, !.rereference = FALSE, !.schema = Undefined,
                      !.autoFlatten = FALSE, !.quantized = Undefined, !.min = Undefined,
                      !.max = Undefined, !.replay = FALSE], Undefined)

\* A limit is given for each column, or once for all of them.
Column(limit, default, i) ==
    IF limit = Undefined THEN default ELSE IF limit.each THEN limit.values[i] ELSE limit.value

CreateObjPacket(s) ==
    LET columns == DOMAIN s.types
        max(i) == IF s.noDataRange THEN MaxDataMax ELSE Column(s.dataMaxes, 1, i)
        min(i) == IF s.noDataRange THEN 0 ELSE Column(s.dataMins, max(i), i)
        transposed == Default(s.autoTranspose, s.autoFlatten)
        accepted ==
            /\ s.types # <<>>
            /\ s.replay => s.dataBatching = 0
            /\ ValidFields(s.schema)
            /\ s.schema # Undefined => Len(s.schema) = Len(s.types)
            /\ s.autoTranspose = FALSE => ~s.autoFlatten
            /\ \A i \in columns : s.types[i] \in PacketTypes
    IN  {Packet([PacketSchema(TRUE, s.types, s.enums,
                     [i \in columns |-> IF s.types[i] = "NONE" THEN 0
                                        ELSE ClampDataMin(min(i), ClampDataMax(max(i)))],
                     [i \in columns |-> ClampDataMax(max(i))],
                     s, s.schema, transposed) EXCEPT !.rateLimit = rate], FALSE) :
            rate \in {r \in ClampRateLimit(s.rateLimit) : accepted}}

-----------------------------------------------------------------------------
(* Variant permutations: [values, opposites] *)

ValidPermutation(m) ==
    /\ m.values # <<>> /\ IsInjective(m.values)
    /\ \A k \in DOMAIN m.opposites :
          /\ {m.opposites[k][1], m.opposites[k][2]} \subseteq DOMAIN m.values
          /\ m.opposites[k][1] # m.opposites[k][2]

ContainsOpposites(m, indexes) ==
    \E k \in DOMAIN m.opposites : {m.opposites[k][1], m.opposites[k][2]} \subseteq indexes

\* The first pair an index is in; then the single indexes, in their order.
GroupOrder(m) ==
    LET pairs(i) == {k \in DOMAIN m.opposites : i \in {m.opposites[k][1], m.opposites[k][2]}}
        first(i) == CHOOSE k \in pairs(i) : \A l \in pairs(i) : k <= l
    IN  [i \in DOMAIN m.values |->
            IF pairs(i) # {} THEN first(i)
            ELSE Len(m.opposites) + Cardinality({j \in 1 .. i : pairs(j) = {}})]

\* Every valid combination, as the sequence of its indexes in group order; by
\* size, then in lexicographic order.
Generate(m) ==
    LET order == GroupOrder(m)
        ordered(c) == SetToSortSeq(c, LAMBDA a, b :
                          order[a] < order[b] \/ (order[a] = order[b] /\ a < b))
        before(a, b) ==
            \/ Len(a) < Len(b)
            \/ /\ Len(a) = Len(b)
               /\ \E i \in DOMAIN a : a[i] < b[i] /\ \A j \in 1 .. (i - 1) : a[j] = b[j]
    IN  SetToSortSeq({ordered(c) : c \in {d \in SUBSET DOMAIN m.values \ {{}} :
                                              ~ContainsOpposites(m, d)}}, before)

Variants(m) == LET g == Generate(m) IN [k \in DOMAIN g |-> [i \in DOMAIN g[k] |-> m.values[g[k][i]]]]

\* The variant that a choice of values stands for; a selection maps each to a boolean.
Resolve(m, selection) ==
    LET enabled == {v \in DOMAIN selection : selection[v]}
    IN  IF DOMAIN selection # Range(m.values) THEN {}
        ELSE IF enabled = {} THEN {<<>>}
        ELSE {v \in Range(Variants(m)) : Len(v) = Cardinality(enabled) /\ Range(v) \subseteq enabled}

Expand(m, variant) ==
    IF variant # <<>> /\ variant \notin Range(Variants(m)) THEN {}
    ELSE {[v \in Range(m.values) |-> v \in Range(variant)]}

-----------------------------------------------------------------------------
(* Groups *)

GroupOf(g, variant, isParent) ==
    [parent |-> g.tag, variant |-> variant, isParent |-> isParent,
     permutation |-> IF g.permutation = Undefined THEN Undefined ELSE g.permutation.values]

\* The entries of a group: a variant and the settings it overrides.
Generated(variants) == [k \in DOMAIN variants |-> [variant |-> variants[k], definition |-> <<>>]]

GroupPackets(g, entries) ==
    LET settings(e) == [name \in DOMAIN g.defaults |->
                            IF name \in DOMAIN e.definition THEN e.definition[name]
                            ELSE g.defaults[name]]
        parent == CreatePacket([g.defaults EXCEPT !.tag = <<g.tag>>, !.type = "NONE", !.enum = Undefined,
                          !.dataMin = 0, !.dataMax = 0, !.noDataRange = FALSE, !.dontSpread = FALSE,
                          !.dataBatching = 0, !.maxBatchSize = 10, !.rateLimit = 0, !.async = FALSE,
                          !.gzipCompression = FALSE, !.rereference = FALSE, !.schema = Undefined,
                          !.autoFlatten = FALSE, !.quantized = Undefined, !.min = Undefined,
                          !.max = Undefined, !.replay = FALSE], GroupOf(g, <<>>, TRUE))
        child(e) == CreatePacket([settings(e) EXCEPT !.tag = <<g.tag, e.variant>>],
                        GroupOf(g, e.variant, FALSE))
        accepted ==
            /\ g.permutation # Undefined => ValidPermutation(g.permutation)
            /\ entries # <<>>
            /\ \A k, l \in DOMAIN entries : entries[k].variant = entries[l].variant => k = l
            /\ \A k \in DOMAIN entries : entries[k].variant # <<>> /\ child(entries[k]) # {}
    IN  IF ~accepted THEN {}
        ELSE {<<p>> \o [k \in DOMAIN entries |-> CHOOSE c \in child(entries[k]) : TRUE] : p \in parent}

CreatePacketGroup(g) ==
    GroupPackets(g, IF g.permutation = Undefined THEN g.variants ELSE Generated(Variants(g.permutation)))

Create(s) ==
    CASE s.shape = "packet" -> {<<p>> : p \in CreatePacket(s, Undefined)}
      [] s.shape = "enum" -> {<<p>> : p \in CreateEnumPacket(s)}
      [] s.shape = "object" -> {<<p>> : p \in CreateObjPacket(s)}
      [] s.shape = "group" -> CreatePacketGroup(s)

-----------------------------------------------------------------------------
(* Tables *)

IsParent(p) == p.group # Undefined /\ p.group.isParent
IsVariant(p) == p.group # Undefined /\ p.group.variant # <<>>

\* ValidatePacketSchema: what makes a table unusable.
TableErrors(packets) ==
    \/ Len(packets) > MaxPackets
    \/ \E i, j \in DOMAIN packets : i # j /\
          \/ packets[i].tag = packets[j].tag
          \/ /\ IsVariant(packets[i]) /\ IsVariant(packets[j])
             /\ packets[i].group.parent = packets[j].group.parent
             /\ packets[i].group.variant = packets[j].group.variant
    \/ \E i \in DOMAIN packets : LET p == packets[i] IN
          \/ p.replay /\ p.dataBatching # 0
          \/ p.quantized # Undefined /\ ~(Range(p.type) \subseteq NumericTypes)
          \/ p.valueMin # Undefined /\ p.valueMin < 0 /\ Range(p.type) \cap UnsignedTypes # {}
          \/ /\ p.fields # Undefined /\ ~p.autoFlatten /\ ~p.object
             /\ p.dataMin = p.dataMax /\ Len(p.fields) # p.dataMax[1]
          \/ p.group # Undefined /\ ~\E j \in DOMAIN packets :
                IsParent(packets[j]) /\ packets[j].tag = <<p.group.parent>> /\ packets[j].type = <<"NONE">>

\* holdPackets: a packet's key is its place in the table, from 1.
HoldPackets(packets) == IF TableErrors(packets) THEN {} ELSE {packets}

GetKey(packets, tag) == {k \in DOMAIN packets : packets[k].tag = tag}

\* Faulty variant: a variant of some of the chosen values will do.
SomeVariant(packets, parent, selection) ==
    LET enabled == {v \in DOMAIN selection : selection[v]}
        fits == {k \in DOMAIN packets : IsVariant(packets[k]) /\ packets[k].group.parent = parent
                                           /\ Range(packets[k].group.variant) \subseteq enabled}
    IN  IF enabled = {} THEN {<<parent>>}
        ELSE IF fits = {} THEN {} ELSE {packets[CHOOSE k \in fits : \A l \in fits : k <= l].tag}

\* getPermutationVariant: the tag to send for a selection of the group's values.
GetPermutationVariant(packets, parent, selection) ==
    LET values == packets[CHOOSE k \in GetKey(packets, <<parent>>) : TRUE].group.permutation
        enabled == {v \in DOMAIN selection : selection[v]}
        fits == {k \in DOMAIN packets :
                    /\ IsVariant(packets[k]) /\ packets[k].group.parent = parent
                    /\ Len(packets[k].group.variant) = Cardinality(enabled)
                    /\ Range(packets[k].group.variant) \subseteq enabled}
    IN  IF values = Undefined \/ DOMAIN selection # Range(values) THEN {}
        ELSE IF enabled = {} THEN {<<parent>>}
        ELSE IF fits = {} THEN {} ELSE {packets[CHOOSE k \in fits : \A l \in fits : k <= l].tag}

\* permutation(): the selection that a received variant stands for.
Permutation(p) ==
    [v \in Range(p.group.permutation) |-> v \in Range(p.group.variant)]

-----------------------------------------------------------------------------
(* Enum packages: a registry maps tags to the values of the packages known *)

Falsy(v) == v.text \in {"0", "NaN", "", "false", "null", "undefined"} /\
            (v.type = "string" => v.text = "")

LooselyEqual(v, w) ==
    \/ v = w
    \/ v.text = w.text /\ {v.type, w.type} = {"string", "number"}
    \/ {v.text, w.text} = {"null", "undefined"} /\ "string" \notin {v.type, w.type}

Nothing == [type |-> "undefined", text |-> "undefined"]

\* find() gives the first value that differs, which counts only if it is truthy.
DefineEnum(registry, tag, values) ==
    IF tag \notin DOMAIN registry
    THEN {[registry |-> [t \in DOMAIN registry \cup {tag} |-> IF t = tag THEN values ELSE registry[t]],
           values |-> values] : v \in {n \in {Len(values)} : n <= MaxByte}}
    ELSE LET known == registry[tag]
             differs == {i \in DOMAIN known : ~LooselyEqual(known[i],
                            IF i \in DOMAIN values THEN values[i] ELSE Nothing)}
         IN  IF differs # {} /\ ~Falsy(known[CHOOSE i \in differs : \A j \in differs : i <= j])
             THEN {} ELSE {[registry |-> registry, values |-> known]}

-----------------------------------------------------------------------------
(* Negotiation *)

\* Faulty variant: the minimum is written where the maximum belongs.
SerializeSwapped(p) ==
    [tag |-> p.tag, bools |-> <<p.dontSpread, p.async, p.object, p.autoFlatten, p.gzipCompression, p.rereference>>,
     metadata |-> [schema |-> p.fields, quantized |-> p.quantized, min |-> p.valueMin, max |-> p.valueMax,
                   group |-> p.group, replay |-> p.replay],
     dataBatching |-> p.dataBatching % (MaxByte + 1), enums |-> p.enumData,
     dataMax |-> p.dataMin, dataMin |-> p.dataMax, type |-> p.type]

\* The batching interval is one byte; rate limits and batch limits stay here.
Serialize(p) ==
    [tag |-> p.tag,
     bools |-> <<p.dontSpread, p.async, p.object, p.autoFlatten, p.gzipCompression, p.rereference>>,
     metadata |-> [schema |-> p.fields, quantized |-> p.quantized, min |-> p.valueMin, max |-> p.valueMax,
                   group |-> p.group, replay |-> p.replay],
     dataBatching |-> p.dataBatching % (MaxByte + 1),
     enums |-> p.enumData,
     dataMax |-> p.dataMax, dataMin |-> p.dataMin, type |-> p.type]

\* The packages of one packet, each defined in the registry the last one left.
DefineEnums(registry, enums) ==
    FoldLeft(LAMBDA acc, e :
                 UNION {{[registry |-> d.registry, enums |-> Append(a.enums, [tag |-> e.tag, values |-> d.values])] :
                            d \in DefineEnum(a.registry, e.tag, e.values)} : a \in acc},
             {[registry |-> registry, enums |-> <<>>]}, enums)

Deserialize(w, registry, client) ==
    LET object == w.bools[3]
        single(value) == IF object THEN Undefined ELSE value
        schema(enums) ==
            [tag |-> w.tag, object |-> object, type |-> w.type, enumData |-> enums,
             dataMin |-> w.dataMin, dataMax |-> w.dataMax,
             dataBatching |-> w.dataBatching, maxBatchSize |-> -1, rateLimit |-> -1,
             dontSpread |-> w.bools[1], async |-> w.bools[2], autoFlatten |-> w.bools[4],
             gzipCompression |-> w.bools[5], replay |-> w.metadata.replay, fields |-> w.metadata.schema,
             rereference |-> w.bools[6] /\ ~object, quantized |-> single(w.metadata.quantized),
             valueMin |-> single(w.metadata.min), valueMax |-> single(w.metadata.max),
             group |-> w.metadata.group, minSize |-> 0, maxSize |-> 0, client |-> client]
    IN  {[registry |-> d.registry, packet |-> Packet(schema(d.enums), client)] :
            d \in DefineEnums(registry, w.enums)}

\* deserializeAll, and holdPackets of what it returns.
Negotiate(packets, registry) ==
    LET all == FoldLeft(LAMBDA acc, p :
                   UNION {{[registry |-> d.registry, packets |-> Append(a.packets, d.packet)] :
                              d \in Deserialize(Serialize(p), a.registry, TRUE)} : a \in acc},
                   {[registry |-> registry, packets |-> <<>>]}, packets)
    IN  {a \in all : HoldPackets(a.packets) # {}}
=============================================================================
