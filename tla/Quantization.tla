---------------------------- MODULE Quantization ----------------------------
(***************************************************************************)
(* Application values and the numbers on the wire (packets/Packets.ts:     *)
(* logicalValue, prepareSend, finishReceive).  A quantized packet sends    *)
(* round(value * scale + residual) and keeps what rounding lost for the    *)
(* next value.  There is one residual per packet and connection, shared by *)
(* every field of a record.                                                *)
(*                                                                         *)
(* The values and bounds of a quantized packet are counted in units of     *)
(* 1/Unit, so that the arithmetic is exact; every scale divides Unit.      *)
(* Doubles, whose products the code rounds, are not modelled.              *)
(***************************************************************************)
EXTENDS PacketSchema

CONSTANT Unit

\* Math.round of n/Unit: halves go up.
Round(n) == (2 * n + Unit) \div (2 * Unit)

\* Faulty variant: the residual of the last value is dropped.
QuantizeAfresh(v, q, residual) ==
    [wire |-> Round(v * q.scale), residual |-> v * q.scale - Round(v * q.scale) * Unit]

Quantize(v, q, residual) ==
    LET adjusted == v * q.scale + (IF q.trackError THEN residual ELSE 0)
    IN  [wire |-> Round(adjusted),
         residual |-> IF q.trackError THEN adjusted - Round(adjusted) * Unit ELSE residual]

InBounds(p, v) ==
    /\ p.valueMin # Undefined => v >= p.valueMin
    /\ p.valueMax # Undefined => v <= p.valueMax

\* One value on its way out; a value out of bounds throws, and what the values
\* before it did to the residual stays done.
LogicalValue(p, acc, v) ==
    IF ~acc.ok \/ ~InBounds(p, v) THEN [acc EXCEPT !.ok = FALSE]
    ELSE IF p.quantized = Undefined THEN [acc EXCEPT !.values = Append(@, v)]
    ELSE LET n == Quantize(v, p.quantized, acc.residual)
         IN  [acc EXCEPT !.values = Append(@, n.wire), !.residual = n.residual]

Logical(p, acc, values) == FoldLeft(LAMBDA a, v : LogicalValue(p, a, v), acc, values)

\* Nothing is asked of the values.
Unbounded(p) == p.quantized = Undefined /\ p.valueMin = Undefined /\ p.valueMax = Undefined

\* The values of a message as they arrive, if all are numbers in bounds.
LogicalReceive(p, values) ==
    LET logical == [i \in DOMAIN values |->
                       IF p.quantized = Undefined THEN values[i]
                       ELSE (values[i] * Unit) \div p.quantized.scale]
        numbers == p.type[1] \notin {"NONE", "RAW", "BOOLEANS", "STRINGS_ASCII", "STRINGS_UTF16"}
    IN  IF Unbounded(p) THEN {values}
        ELSE IF numbers /\ \A i \in DOMAIN logical : InBounds(p, logical[i]) THEN {logical} ELSE {}

\* A record has exactly the schema's fields; its values, in the schema's order.
AssertRecord(p, record) ==
    IF DOMAIN record = Range(p.fields) THEN {[i \in DOMAIN p.fields |-> record[p.fields[i]]]} ELSE {}

\* UnFlattenData and FlattenData: the first row or column says how many there are.
Transpose(rows) ==
    IF rows = <<>> THEN <<>>
    ELSE [c \in DOMAIN rows[1] |-> [r \in DOMAIN rows |->
             IF c \in DOMAIN rows[r] THEN rows[r][c] ELSE Undefined]]

\* An item is [form, data]: positional values, one record, or rows of a table.
\* The result says whether it was accepted and keeps the residual either way.
PrepareSend(p, item, residual) ==
    LET start == [ok |-> TRUE, values |-> <<>>, residual |-> residual]
        row(acc, r) == IF ~acc.ok \/ AssertRecord(p, r) = {} THEN [acc EXCEPT !.ok = FALSE]
                       ELSE Logical(p, acc, CHOOSE v \in AssertRecord(p, r) : TRUE)
    IN  IF p.object
        THEN IF p.autoFlatten /\ p.fields # Undefined
             THEN IF item.form # "rows" \/ \E k \in DOMAIN item.data : AssertRecord(p, item.data[k]) = {}
                  THEN [start EXCEPT !.ok = FALSE]
                  ELSE [start EXCEPT !.values = [c \in DOMAIN p.fields |->
                           [k \in DOMAIN item.data |-> item.data[k][p.fields[c]]]]]
             ELSE [start EXCEPT !.values = item.data]
        ELSE IF p.autoFlatten
        THEN IF item.form # "rows" THEN [start EXCEPT !.ok = FALSE] ELSE FoldLeft(row, start, item.data)
        ELSE IF p.fields # Undefined /\ item.form = "record" THEN row(start, item.data)
        ELSE Logical(p, start, item.data)

RecordOf(p, values) == [f \in Range(p.fields) |->
    LET i == CHOOSE j \in DOMAIN p.fields : p.fields[j] = f
    IN  IF i \in DOMAIN values THEN values[i] ELSE Undefined]

\* What was decoded as the list of a message's values: the bytes of RAW, and the
\* nothing of NONE, are one value.
AsList(p, decoded) ==
    CASE p.type[1] = "RAW" -> <<decoded>>
      [] p.type[1] = "NONE" -> <<Undefined>>
      [] OTHER -> decoded

\* Without fields the values are checked in the application's units, but passed
\* on as they were decoded: the wire number n, which is n * Unit units.
FinishReceive(p, decoded) ==
    IF p.object
    THEN IF ~p.autoFlatten THEN {decoded}
         ELSE IF p.fields = Undefined THEN {Transpose(decoded)}
         ELSE {[r \in DOMAIN d[1] |-> RecordOf(p, [c \in DOMAIN d |-> d[c][r]])] :
                  d \in {e \in {decoded} : \A c \in DOMAIN e : Len(e[c]) = Len(e[1])}}
    ELSE IF p.autoFlatten
    THEN {[r \in 1 .. (Len(v) \div Len(p.fields)) |->
              RecordOf(p, SubSeq(v, (r - 1) * Len(p.fields) + 1, r * Len(p.fields)))] :
             v \in {w \in LogicalReceive(p, AsList(p, decoded)) : Len(w) % Len(p.fields) = 0}}
    ELSE IF p.fields # Undefined THEN {RecordOf(p, v) : v \in LogicalReceive(p, AsList(p, decoded))}
    ELSE {IF p.quantized = Undefined THEN decoded ELSE [i \in DOMAIN decoded |-> decoded[i] * Unit] :
             v \in LogicalReceive(p, AsList(p, decoded))}
=============================================================================
