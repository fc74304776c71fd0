--------------------------- MODULE BroadcastProofs ---------------------------
(***************************************************************************)
(* What holds of the broadcasts of one server for any connections and any  *)
(* number of broadcasts: the types, and who is sent what, once and in      *)
(* which order.                                                            *)
(***************************************************************************)
EXTENDS Broadcast, TLAPS

\* What a connection was sent or will be with its batch.
Waiting(c) == ToSet(batch[c])
Has(c, i) == i \in Sent(c) \cup Waiting(c)

\* The order of both, the batch after the wire.
Before(q, x, y) == \E j, k \in DOMAIN q : j < k /\ q[j] = x /\ q[k] = y

Precedes(c, x, y) ==
    \/ Before(wire[c], x, y) \/ Before(batch[c], x, y)
    \/ x \in Sent(c) /\ y \in Waiting(c)

\* The array of the server has who is not gone, and a member is in it.
ConnInv ==
    /\ \A c \in Conns : c \in connections <=> status[c] \in {"open", "closing"}
    /\ members \subseteq connections

\* A cast is for its own broadcast.  Its snapshot leaves out who it spares, has
\* who fitted its target, and otherwise only who was closing already.
CastInv ==
    \A i \in Casts :
        /\ origin[i] = i
        /\ spared[i] \in Conns => target[i] # "all" /\ spared[i] \notin recipients[i]
        /\ target[i] # "all" => audience[i] \subseteq recipients[i]
        /\ \A c \in audience[i] : status[c] # "none"
        /\ \A c \in recipients[i] :
              status[c] # "none" /\ (c \in audience[i] \/ status[c] # "open")

Over == {"publishing", "done", "failed"}

\* What is on a line was delivered: to a recipient, by a cast that is past its loop.
LineInv ==
    \A c \in Conns :
        /\ Waiting(c) \subseteq batched
        /\ \A i \in Casts : Has(c, i) => stage[i] \in Over /\ spared[i] # c /\ status[c] # "none"
        /\ \A i \in Casts : target[i] # "all" =>
              /\ i \in Sent(c) => c \in audience[i]
              /\ i \in Waiting(c) => c \in audience[i] \/ status[c] # "open"

\* Nothing is on a line twice, and what two lines share has one order.
OrderInv ==
    /\ \A c \in Conns, x \in Casts : ~Precedes(c, x, x)
    /\ \A c, d \in Conns, x, y \in Casts :
          /\ Precedes(c, x, y) /\ Has(d, x) /\ Has(d, y)
          /\ x \in batched <=> y \in batched
          => Precedes(d, x, y)

\* Whoever a cast was for has it when anybody has, or is leaving.
ServedInv ==
    \A i \in Casts \ cutShort, c, d \in Conns :
        Has(d, i) /\ c \in audience[i] /\ status[c] = "open" => Has(c, i)

IInv == TypeOK /\ ConnInv /\ CastInv /\ LineInv /\ OrderInv /\ ServedInv

-----------------------------------------------------------------------------
(* Sequences of casts *)

LEMMA EmptyIs == ToSet(<<>>) = {} /\ \A x, y : ~Before(<<>>, x, y)
BY DEF ToSet, Before

LEMMA AppendIs ==
    ASSUME NEW q \in Seq(Casts), NEW i \in Casts
    PROVE  /\ Append(q, i) \in Seq(Casts)
           /\ ToSet(Append(q, i)) = ToSet(q) \cup {i}
           /\ \A x, y : Before(Append(q, i), x, y) <=> Before(q, x, y) \/ (x \in ToSet(q) /\ y = i)
<1>1. PICK n \in Nat : n = Len(q)
    OBVIOUS
<1>2. PICK p \in Seq(Casts) : p = Append(q, i)
    <2>1. Append(q, i) \in Seq(Casts)
        OBVIOUS
    <2>2. QED BY Zenon, <2>1
<1>3. /\ DOMAIN q = 1 .. n /\ DOMAIN p = 1 .. n + 1
      /\ p[n + 1] = i /\ \A j \in 1 .. n : p[j] = q[j]
    BY <1>1, <1>2
<1>4. /\ n + 1 \in 1 .. n + 1
      /\ \A j \in 1 .. n + 1 : j = n + 1 \/ (j \in 1 .. n /\ j < n + 1)
    <2>1. \A j \in 1 .. n + 1 : j = n + 1 \/ j \in 1 .. n
        OBVIOUS
    <2>2. n + 1 \in 1 .. n + 1 /\ \A j \in 1 .. n : j < n + 1
        OBVIOUS
    <2>3. QED BY <2>1, <2>2
<1>5. \A j \in 1 .. n : j \in 1 .. n + 1 /\ j < n + 1
    OBVIOUS
<1>6. ToSet(p) = ToSet(q) \cup {i}
    BY <1>3, <1>4, <1>5 DEF ToSet
<1>7. ASSUME NEW x, NEW y
      PROVE  Before(p, x, y) <=> Before(q, x, y) \/ (x \in ToSet(q) /\ y = i)
    <2>1. ASSUME Before(p, x, y) PROVE Before(q, x, y) \/ (x \in ToSet(q) /\ y = i)
        <3>1. PICK j, k \in 1 .. n + 1 : j < k /\ p[j] = x /\ p[k] = y
            BY <1>3, <2>1 DEF Before
        <3>2. j \in 1 .. n
            BY <3>1
        <3>3. CASE k = n + 1
            BY <1>3, <3>1, <3>2, <3>3 DEF ToSet
        <3>4. CASE k \in 1 .. n
            BY <1>3, <3>1, <3>2, <3>4 DEF Before
        <3>5. QED BY <1>4, <3>3, <3>4
    <2>2. ASSUME Before(q, x, y) PROVE Before(p, x, y)
        <3>1. PICK j, k \in 1 .. n : j < k /\ q[j] = x /\ q[k] = y
            BY <1>3, <2>2 DEF Before
        <3>2. QED BY <1>3, <1>5, <3>1 DEF Before
    <2>3. ASSUME x \in ToSet(q), y = i PROVE Before(p, x, y)
        <3>1. PICK j \in 1 .. n : q[j] = x
            BY <1>3, <2>3 DEF ToSet
        <3>2. QED BY <1>3, <1>4, <1>5, <2>3, <3>1 DEF Before
    <2>4. QED BY <2>1, <2>2, <2>3
<1>8. QED BY <1>2, <1>6, <1>7

LEMMA ConcatIs ==
    ASSUME NEW q \in Seq(Casts), NEW r \in Seq(Casts)
    PROVE  /\ q \o r \in Seq(Casts)
           /\ ToSet(q \o r) = ToSet(q) \cup ToSet(r)
           /\ \A x, y : Before(q \o r, x, y) <=>
                 Before(q, x, y) \/ Before(r, x, y) \/ (x \in ToSet(q) /\ y \in ToSet(r))
<1>1. PICK n \in Nat, m \in Nat : n = Len(q) /\ m = Len(r)
    OBVIOUS
<1>2. PICK p \in Seq(Casts) : p = q \o r
    <2>1. (q \o r) \in Seq(Casts)
        OBVIOUS
    <2>2. QED BY Zenon, <2>1
<1>3. /\ DOMAIN q = 1 .. n /\ DOMAIN r = 1 .. m /\ DOMAIN p = 1 .. n + m
      /\ \A j \in 1 .. n : p[j] = q[j]
      /\ \A j \in 1 .. m : p[n + j] = r[j]
    BY <1>1, <1>2
<1>4. ASSUME NEW j \in 1 .. n + m
      PROVE  j \in 1 .. n \/ \E k \in 1 .. m : j = n + k
    <2>1. CASE j <= n
        BY <2>1
    <2>2. CASE j > n
        <3>1. j - n \in 1 .. m /\ j = n + (j - n)
            BY <2>2
        <3>2. QED BY <3>1
    <2>3. QED BY <2>1, <2>2
<1>5. /\ \A j \in 1 .. n : j \in 1 .. n + m
      /\ \A j \in 1 .. m : n + j \in 1 .. n + m
      /\ \A j \in 1 .. n, k \in 1 .. m : j < n + k
      /\ \A j, k \in 1 .. m : j < k <=> n + j < n + k
    <2>1. \A j \in 1 .. n : j \in 1 .. n + m
        OBVIOUS
    <2>2. \A j \in 1 .. m : n + j \in 1 .. n + m
        OBVIOUS
    <2>3. \A j \in 1 .. n, k \in 1 .. m : j < n + k
        OBVIOUS
    <2>4. \A j, k \in 1 .. m : j < k <=> n + j < n + k
        OBVIOUS
    <2>5. QED BY <2>1, <2>2, <2>3, <2>4
<1>6. ToSet(p) = ToSet(q) \cup ToSet(r)
    <2>1. ToSet(p) \subseteq ToSet(q) \cup ToSet(r)
        <3>1. ASSUME NEW j \in 1 .. n + m PROVE p[j] \in ToSet(q) \cup ToSet(r)
            <4>1. CASE j \in 1 .. n
                BY <1>3, <4>1 DEF ToSet
            <4>2. CASE \E k \in 1 .. m : j = n + k
                BY <1>3, <4>2 DEF ToSet
            <4>3. QED BY <1>4, <4>1, <4>2
        <3>2. QED BY <1>3, <3>1 DEF ToSet
    <2>2. ToSet(q) \cup ToSet(r) \subseteq ToSet(p)
        BY <1>3, <1>5 DEF ToSet
    <2>3. QED BY <2>1, <2>2
<1>7. ASSUME NEW x, NEW y
      PROVE  Before(p, x, y) <=>
                Before(q, x, y) \/ Before(r, x, y) \/ (x \in ToSet(q) /\ y \in ToSet(r))
    <2>1. ASSUME Before(p, x, y)
          PROVE  Before(q, x, y) \/ Before(r, x, y) \/ (x \in ToSet(q) /\ y \in ToSet(r))
        <3>1. PICK j, k \in 1 .. n + m : j < k /\ p[j] = x /\ p[k] = y
            BY <1>3, <2>1 DEF Before
        <3>2. CASE k \in 1 .. n
            <4>1. j \in 1 .. n
                BY <3>1, <3>2
            <4>2. QED BY <1>3, <3>1, <3>2, <4>1 DEF Before
        <3>3. CASE k \notin 1 .. n
            <4>1. PICK b \in 1 .. m : k = n + b
                BY <1>4, <3>3
            <4>2. CASE j \in 1 .. n
                BY <1>3, <3>1, <4>1, <4>2 DEF ToSet
            <4>3. CASE j \notin 1 .. n
                <5>1. PICK a \in 1 .. m : j = n + a
                    BY <1>4, <4>3
                <5>2. a < b /\ r[a] = x /\ r[b] = y
                    BY <1>3, <1>5, <3>1, <4>1, <5>1
                <5>3. QED BY <1>3, <5>2 DEF Before
            <4>4. QED BY <4>2, <4>3
        <3>4. QED BY <3>2, <3>3
    <2>2. ASSUME Before(q, x, y) PROVE Before(p, x, y)
        <3>1. PICK j, k \in 1 .. n : j < k /\ q[j] = x /\ q[k] = y
            BY <1>3, <2>2 DEF Before
        <3>2. QED BY <1>3, <1>5, <3>1 DEF Before
    <2>3. ASSUME Before(r, x, y) PROVE Before(p, x, y)
        <3>1. PICK j, k \in 1 .. m : j < k /\ r[j] = x /\ r[k] = y
            BY <1>3, <2>3 DEF Before
        <3>2. n + j < n + k /\ p[n + j] = x /\ p[n + k] = y
            BY <1>3, <1>5, <3>1
        <3>3. QED BY <1>3, <1>5, <3>2 DEF Before
    <2>4. ASSUME x \in ToSet(q), y \in ToSet(r) PROVE Before(p, x, y)
        <3>1. PICK j \in 1 .. n, k \in 1 .. m : q[j] = x /\ r[k] = y
            BY <1>3, <2>4 DEF ToSet
        <3>2. j < n + k /\ p[j] = x /\ p[n + k] = y
            BY <1>3, <1>5, <3>1
        <3>3. QED BY <1>3, <1>5, <3>2 DEF Before
    <2>5. QED BY <2>1, <2>2, <2>3, <2>4
<1>8. QED BY <1>2, <1>6, <1>7

\* A sequence that has nothing before itself has everything once.
LEMMA OnceIs ==
    ASSUME NEW q \in Seq(Casts), \A x \in Casts : ~Before(q, x, x)
    PROVE  IsInjective(q)
<1> SUFFICES ASSUME NEW j \in DOMAIN q, NEW k \in DOMAIN q, q[j] = q[k] PROVE j = k
    BY DEF IsInjective
<1>1. j \in Nat /\ k \in Nat /\ q[j] \in Casts
    OBVIOUS
<1>2. ~(j < k) /\ ~(k < j)
    BY <1>1 DEF Before
<1>3. QED BY <1>1, <1>2

-----------------------------------------------------------------------------
(* Steps that put nothing on a line *)

LEMMA InitInv == ASSUME BroadcastAssumption, Init PROVE IInv
<1>1. \A c \in Conns : /\ Sent(c) = {} /\ Waiting(c) = {}
                       /\ \A x, y : ~Precedes(c, x, y)
    BY EmptyIs DEF Init, Sent, Waiting, Precedes
<1>2. TypeOK
    BY DEF Init, TypeOK, Casts, Targets, BroadcastAssumption
<1>3. ConnInv /\ CastInv
    BY DEF Init, ConnInv, CastInv, BroadcastAssumption
<1>4. LineInv /\ OrderInv /\ ServedInv
    BY <1>1 DEF LineInv, OrderInv, ServedInv, Has
<1>5. QED BY <1>2, <1>3, <1>4 DEF IInv

\* A line that loses what waited keeps the order of the rest.
LEMMA LinesShrink ==
    ASSUME TypeOK, OrderInv, UNCHANGED <<wire, batched>>,
           \A c \in Conns : batch'[c] = batch[c] \/ batch'[c] = <<>>
    PROVE  /\ OrderInv'
           /\ \A c \in Conns : Sent(c)' = Sent(c) /\ Waiting(c)' \subseteq Waiting(c)
           /\ \A c \in Conns : batch'[c] = batch[c] => Waiting(c)' = Waiting(c)
<1>1. \A c \in Conns : Sent(c)' = Sent(c)
    BY DEF Sent
<1>2. \A c \in Conns : batch'[c] = batch[c] => Waiting(c)' = Waiting(c)
    BY DEF Waiting
<1>3. \A c \in Conns : batch'[c] = <<>> => Waiting(c)' = {}
    BY EmptyIs DEF Waiting
<1>4. \A c \in Conns, x, y \in Casts :
        /\ Precedes(c, x, y)' => Precedes(c, x, y)
        /\ batch'[c] = batch[c] /\ Precedes(c, x, y) => Precedes(c, x, y)'
        /\ batch'[c] = <<>> => (Precedes(c, x, y)' <=> Before(wire[c], x, y))
    <2> TAKE c \in Conns, x, y \in Casts
    <2>1. CASE batch'[c] = batch[c]
        <3>1. Precedes(c, x, y)' <=> Precedes(c, x, y)
            BY <1>1, <1>2, <2>1 DEF Precedes
        <3>2. batch'[c] = <<>> => Waiting(c) = {} /\ ~Before(batch[c], x, y)
            BY <1>2, <1>3, <2>1, EmptyIs
        <3>3. QED BY <3>1, <3>2 DEF Precedes
    <2>2. CASE batch'[c] # batch[c]
        <3>1. Waiting(c)' = {} /\ ~Before(batch'[c], x, y)
            BY <1>3, <2>2, EmptyIs
        <3>2. QED BY <2>2, <3>1 DEF Precedes
    <2>3. QED BY <2>1, <2>2
<1>5. ASSUME NEW d \in Conns, NEW x \in Casts, NEW y \in Casts,
             Precedes(d, x, y), Has(d, x)', Has(d, y)'
      PROVE  Precedes(d, x, y)'
    <2>1. CASE batch'[d] = batch[d]
        BY <1>4, <1>5, <2>1
    <2>2. CASE batch'[d] = <<>>
        <3>1. x \in Sent(d) /\ y \in Sent(d)
            BY <1>1, <1>3, <1>5, <2>2 DEF Has
        <3>2. y \notin Waiting(d) /\ ~Before(batch[d], x, y)
            <4>1. ~Precedes(d, y, y)
                BY DEF OrderInv
            <4>2. y \notin Waiting(d)
                BY <3>1, <4>1 DEF Precedes
            <4>3. QED BY <4>2 DEF Before, Waiting, ToSet
        <3>3. QED BY <1>4, <1>5, <2>2, <3>2 DEF Precedes
    <2>3. QED BY <2>1, <2>2
<1>6. \A c \in Conns, x \in Casts : Has(c, x)' => Has(c, x)
    BY <1>1, <1>2, <1>3 DEF Has
<1>7. OrderInv'
    <2>1. \A c \in Conns, x \in Casts : ~Precedes(c, x, x)'
        BY <1>4 DEF OrderInv
    <2>2. ASSUME NEW c \in Conns, NEW d \in Conns, NEW x \in Casts, NEW y \in Casts,
                 Precedes(c, x, y)', Has(d, x)', Has(d, y)', x \in batched' <=> y \in batched'
          PROVE  Precedes(d, x, y)'
        <3>1. Precedes(d, x, y)
            BY <1>4, <1>6, <2>2 DEF OrderInv
        <3>2. QED BY <1>5, <2>2, <3>1
    <2>3. QED BY <2>1, <2>2 DEF OrderInv
<1>8. QED BY <1>1, <1>2, <1>3, <1>7

\* What may happen to casts and connections beside the lines.
LEMMA QuietLines ==
    ASSUME TypeOK, LineInv, OrderInv, ServedInv, CastInv,
           UNCHANGED <<wire, batched, target, spared, audience>>,
           \A i \in Casts : stage[i] \in Over => stage'[i] \in Over,
           \A c \in Conns : batch'[c] = batch[c] \/ (batch'[c] = <<>> /\ status'[c] # "open"),
           \A c \in Conns : /\ status'[c] = "open" => status[c] \in {"open", "none"}
                            /\ status[c] # "none" => status'[c] # "none",
           cutShort \subseteq cutShort'
    PROVE  LineInv' /\ OrderInv' /\ ServedInv'
<1>1. /\ OrderInv'
      /\ \A c \in Conns : Sent(c)' = Sent(c) /\ Waiting(c)' \subseteq Waiting(c)
      /\ \A c \in Conns : batch'[c] = batch[c] => Waiting(c)' = Waiting(c)
    BY LinesShrink
<1>2. \A c \in Conns, i \in Casts : Has(c, i)' => Has(c, i)
    BY <1>1 DEF Has
<1>3. LineInv'
    <2> SUFFICES ASSUME NEW c \in Conns
                 PROVE  /\ Waiting(c)' \subseteq batched'
                        /\ \A i \in Casts : Has(c, i)' => /\ stage'[i] \in Over /\ spared'[i] # c
                                                         /\ status'[c] # "none"
                        /\ \A i \in Casts : target'[i] # "all" =>
                              /\ i \in Sent(c)' => c \in audience'[i]
                              /\ i \in Waiting(c)' => c \in audience'[i] \/ status'[c] # "open"
        BY DEF LineInv, Over
    <2>1. Waiting(c)' \subseteq batched'
        BY <1>1 DEF LineInv
    <2>2. ASSUME NEW i \in Casts, Has(c, i)'
          PROVE  stage'[i] \in Over /\ spared'[i] # c /\ status'[c] # "none"
        BY <1>2, <2>2 DEF LineInv
    <2>3. ASSUME NEW i \in Casts, target'[i] # "all"
          PROVE  /\ i \in Sent(c)' => c \in audience'[i]
                 /\ i \in Waiting(c)' => c \in audience'[i] \/ status'[c] # "open"
        <3>1. i \in Sent(c)' => c \in audience'[i]
            BY <1>1, <2>3 DEF LineInv
        <3>2. ASSUME i \in Waiting(c)', status'[c] = "open" PROVE c \in audience'[i]
            <4>1. i \in Waiting(c)
                BY <1>1, <3>2
            <4>2. status[c] # "none"
                BY <4>1 DEF LineInv, Has
            <4>3. QED BY <2>3, <3>2, <4>1, <4>2 DEF LineInv
        <3>3. QED BY <3>1, <3>2
    <2>4. QED BY <2>1, <2>2, <2>3
<1>4. ServedInv'
    <2> SUFFICES ASSUME NEW i \in Casts \ cutShort', NEW c \in Conns, NEW d \in Conns,
                        Has(d, i)', c \in audience'[i], status'[c] = "open"
                 PROVE  Has(c, i)'
        BY DEF ServedInv
    <2>1. status[c] = "open" /\ batch'[c] = batch[c]
        BY DEF CastInv
    <2>2. Has(c, i)
        BY <1>2, <2>1 DEF ServedInv
    <2>3. QED BY <1>1, <2>1, <2>2 DEF Has
<1>5. QED BY <1>1, <1>3, <1>4

\* A frame with all that waited follows what was sent before.
LEMMA FlushOpen ==
    ASSUME TypeOK, LineInv, OrderInv, ServedInv, NEW f \in Conns, status[f] = "open",
           batch' = [batch EXCEPT ![f] = <<>>],
           wire' = [wire EXCEPT ![f] = wire[f] \o batch[f]],
           UNCHANGED <<status, castVars, audience, cutShort>>
    PROVE  LineInv' /\ OrderInv' /\ ServedInv'
<1>1. /\ \A c \in Conns : c # f => batch'[c] = batch[c] /\ wire'[c] = wire[c]
      /\ batch'[f] = <<>> /\ wire'[f] = wire[f] \o batch[f]
      /\ \A c \in Conns : wire[c] \in Seq(Casts) /\ batch[c] \in Seq(Casts)
    BY DEF TypeOK
<1>2. \A c \in Conns : c # f => Sent(c)' = Sent(c) /\ Waiting(c)' = Waiting(c)
    BY <1>1 DEF Sent, Waiting
<1>3. Sent(f)' = Sent(f) \cup Waiting(f) /\ Waiting(f)' = {}
    <2>1. ToSet(wire[f] \o batch[f]) = ToSet(wire[f]) \cup ToSet(batch[f])
        BY <1>1, ConcatIs
    <2>2. QED BY <1>1, <2>1, EmptyIs DEF Sent, Waiting
<1>4. \A c \in Conns, x, y \in Casts : Precedes(c, x, y)' <=> Precedes(c, x, y)
    <2> TAKE c \in Conns, x, y \in Casts
    <2>1. CASE c # f
        BY <1>1, <1>2, <2>1 DEF Precedes
    <2>2. CASE c = f
        <3>1. ~Before(batch'[f], x, y)
            BY <1>1, EmptyIs
        <3>2. Before(wire'[f], x, y) <=> Before(wire[f], x, y) \/ Before(batch[f], x, y)
                                           \/ (x \in Sent(f) /\ y \in Waiting(f))
            <4>1. Before(wire[f] \o batch[f], x, y) <=>
                    Before(wire[f], x, y) \/ Before(batch[f], x, y)
                    \/ (x \in ToSet(wire[f]) /\ y \in ToSet(batch[f]))
                BY <1>1, ConcatIs
            <4>2. QED BY <1>1, <4>1 DEF Sent, Waiting
        <3>3. QED BY <1>3, <2>2, <3>1, <3>2 DEF Precedes
    <2>3. QED BY <2>1, <2>2
<1>5. \A c \in Conns, i \in Casts : Has(c, i)' <=> Has(c, i)
    BY <1>2, <1>3 DEF Has
<1>6. OrderInv'
    BY <1>4, <1>5 DEF OrderInv, castVars
<1>7. ServedInv'
    BY <1>5 DEF ServedInv
<1>8. LineInv'
    <2> SUFFICES ASSUME NEW c \in Conns
                 PROVE  /\ Waiting(c)' \subseteq batched'
                        /\ \A i \in Casts : Has(c, i)' => /\ stage'[i] \in Over /\ spared'[i] # c
                                                         /\ status'[c] # "none"
                        /\ \A i \in Casts : target'[i] # "all" =>
                              /\ i \in Sent(c)' => c \in audience'[i]
                              /\ i \in Waiting(c)' => c \in audience'[i] \/ status'[c] # "open"
        BY DEF LineInv, Over
    <2>1. CASE c # f
        BY <1>2, <1>5, <2>1 DEF LineInv, castVars
    <2>2. CASE c = f
        BY <1>3, <1>5, <2>2 DEF LineInv, castVars
    <2>3. QED BY <2>1, <2>2
<1>9. QED BY <1>6, <1>7, <1>8

\* A call starts over with a cast that is on no line.
LEMMA BeginLines ==
    ASSUME TypeOK, LineInv, OrderInv, ServedInv, NEW i \in Casts, stage[i] = "idle",
           \A j \in Casts : j # i => /\ target'[j] = target[j] /\ spared'[j] = spared[j]
                                     /\ stage'[j] = stage[j] /\ audience'[j] = audience[j],
           batched' \in {batched, batched \cup {i}},
           UNCHANGED <<wire, batch, status, cutShort>>
    PROVE  LineInv' /\ OrderInv' /\ ServedInv'
<1>1. \A c \in Conns : Sent(c)' = Sent(c) /\ Waiting(c)' = Waiting(c)
    BY DEF Sent, Waiting
<1>2. \A c \in Conns, j \in Casts : Has(c, j)' <=> Has(c, j)
    BY <1>1 DEF Has
<1>3. \A c \in Conns : ~Has(c, i)
    BY DEF LineInv, Over
<1>4. \A c \in Conns, x, y \in Casts : Precedes(c, x, y)' <=> Precedes(c, x, y)
    BY <1>1 DEF Precedes
<1>5. \A j \in Casts : j # i => (j \in batched' <=> j \in batched)
    OBVIOUS
<1>6. OrderInv'
    <2>1. \A c \in Conns, x \in Casts : ~Precedes(c, x, x)'
        BY <1>4 DEF OrderInv
    <2>2. ASSUME NEW c \in Conns, NEW d \in Conns, NEW x \in Casts, NEW y \in Casts,
                 Precedes(c, x, y)', Has(d, x)', Has(d, y)', x \in batched' <=> y \in batched'
          PROVE  Precedes(d, x, y)'
        <3>1. x # i /\ y # i /\ (x \in batched <=> y \in batched)
            BY <1>2, <1>3, <1>5, <2>2
        <3>2. QED BY <1>2, <1>4, <2>2, <3>1 DEF OrderInv
    <2>3. QED BY <2>1, <2>2 DEF OrderInv
<1>7. ServedInv'
    BY <1>2, <1>3 DEF ServedInv
<1>8. LineInv'
    <2> SUFFICES ASSUME NEW c \in Conns
                 PROVE  /\ Waiting(c)' \subseteq batched'
                        /\ \A j \in Casts : Has(c, j)' => /\ stage'[j] \in Over /\ spared'[j] # c
                                                         /\ status'[c] # "none"
                        /\ \A j \in Casts : target'[j] # "all" =>
                              /\ j \in Sent(c)' => c \in audience'[j]
                              /\ j \in Waiting(c)' => c \in audience'[j] \/ status'[c] # "open"
        BY DEF LineInv, Over
    <2>1. i \notin Sent(c)' /\ i \notin Waiting(c)'
        BY <1>1, <1>3 DEF Has
    <2>2. QED BY <1>1, <1>2, <1>3, <2>1 DEF LineInv
<1>9. QED BY <1>6, <1>7, <1>8

-----------------------------------------------------------------------------
(* The loop over the recipients *)

LEMMA DeliverIs ==
    ASSUME TypeOK, CastInv, NEW i \in Casts, Deliver(i)
    PROVE  \E R \in SUBSET Conns :
              /\ R \subseteq Recipients(i)
              /\ \A c \in R : status[c] = "open" \/ (i \in batched /\ status[c] = "closing")
              /\ \A c \in Conns : \/ status'[c] = status[c]
                                  \/ status[c] = "open" /\ status'[c] = "closing"
              /\ status' \in [Conns -> {"none", "open", "closing", "gone"}]
              /\ i \in batched =>
                    /\ wire' = wire
                    /\ batch' = [c \in Conns |-> IF c \in R THEN Append(batch[c], i) ELSE batch[c]]
              /\ i \notin batched =>
                    /\ batch' = batch
                    /\ wire' = [c \in Conns |-> IF c \in R THEN Append(wire[c], i) ELSE wire[c]]
              /\ stage'[i] \in Over /\ stage' = [stage EXCEPT ![i] = stage'[i]]
              /\ cutShort' \in {cutShort, cutShort \cup {i}}
              /\ i \notin cutShort' => \A c \in Recipients(i) : status'[c] = "open" => c \in R
<1>1. PICK served, rated, over \in SUBSET Conns :
          /\ SendProcessed(i, Recipients(i), served, rated, over)
          /\ IF over = {}
             THEN LocalEnd(i, target[i]) /\ UNCHANGED cutShort
             ELSE /\ stage' = [stage EXCEPT ![i] = "failed"]
                  /\ cutShort' = cutShort \cup {i}
    BY DEF Deliver
<1>2. origin[i] = i
    BY DEF CastInv
<1>3. PICK live \in SUBSET Conns :
          live = {c \in Recipients(i) : \/ status[c] = "open"
                                        \/ (i \in batched /\ status[c] = "closing")}
    BY DEF Recipients, TypeOK
<1>4. /\ \/ served = live /\ over = {}
         \/ /\ i \notin batched /\ served \subseteq live
            /\ \E c \in live \ served : over = {c}
      /\ rated \subseteq {c \in served : status[c] = "open"}
      /\ i \in batched => /\ wire' = wire
                          /\ batch' = [c \in Conns |-> IF c \in served \ rated
                                                       THEN Append(batch[c], i) ELSE batch[c]]
      /\ i \notin batched => /\ batch' = batch
                             /\ wire' = [c \in Conns |-> IF c \in served \ rated
                                                         THEN Append(wire[c], i) ELSE wire[c]]
      /\ status' = [c \in Conns |-> IF c \in rated \cup over THEN "closing" ELSE status[c]]
    BY <1>1, <1>2, <1>3 DEF SendProcessed
<1>5. served \subseteq live /\ (served \ rated) \subseteq Recipients(i)
    BY <1>3, <1>4
<1>6. \A c \in served : status[c] = "open" \/ (i \in batched /\ status[c] = "closing")
    BY <1>3, <1>5
<1>7. \A c \in over : status[c] = "open"
    BY <1>3, <1>4
<1>8. /\ \A c \in Conns : \/ status'[c] = status[c]
                          \/ status[c] = "open" /\ status'[c] = "closing"
      /\ status' \in [Conns -> {"none", "open", "closing", "gone"}]
    BY <1>4, <1>7 DEF TypeOK
<1>9. stage'[i] \in Over /\ stage' = [stage EXCEPT ![i] = stage'[i]]
    BY <1>1 DEF LocalEnd, Over, TypeOK
<1>10. cutShort' \in {cutShort, cutShort \cup {i}}
    BY <1>1
<1>11. ASSUME i \notin cutShort', NEW c \in Recipients(i), status'[c] = "open"
       PROVE  c \in served \ rated
    <2>1. over = {} /\ served = live /\ c \in Conns
        BY <1>1, <1>4, <1>11 DEF Recipients, TypeOK
    <2>2. c \notin rated /\ status[c] = "open"
        BY <1>4, <1>8, <1>11, <2>1
    <2>3. QED BY <1>3, <1>11, <2>1, <2>2
<1>12. QED BY <1>4, <1>5, <1>6, <1>8, <1>9, <1>10, <1>11

LEMMA Ends == \A c \in Conns : \A x, y : Precedes(c, x, y) => Has(c, x) /\ Has(c, y)
BY DEF Precedes, Before, Has, Sent, Waiting, ToSet

LEMMA DeliverLines ==
    ASSUME TypeOK, ConnInv, CastInv, LineInv, OrderInv, ServedInv,
           NEW i \in Casts, stage[i] = "post", Deliver(i),
           UNCHANGED <<target, recipients, spared, origin, batched, connections, audience>>
    PROVE  LineInv' /\ OrderInv' /\ ServedInv'
<1>1. PICK R \in SUBSET Conns :
          /\ R \subseteq Recipients(i)
          /\ \A c \in R : status[c] = "open" \/ (i \in batched /\ status[c] = "closing")
          /\ \A c \in Conns : \/ status'[c] = status[c]
                              \/ status[c] = "open" /\ status'[c] = "closing"
          /\ status' \in [Conns -> {"none", "open", "closing", "gone"}]
          /\ i \in batched =>
                /\ wire' = wire
                /\ batch' = [c \in Conns |-> IF c \in R THEN Append(batch[c], i) ELSE batch[c]]
          /\ i \notin batched =>
                /\ batch' = batch
                /\ wire' = [c \in Conns |-> IF c \in R THEN Append(wire[c], i) ELSE wire[c]]
          /\ stage'[i] \in Over /\ stage' = [stage EXCEPT ![i] = stage'[i]]
          /\ cutShort' \in {cutShort, cutShort \cup {i}}
          /\ i \notin cutShort' => \A c \in Recipients(i) : status'[c] = "open" => c \in R
    BY DeliverIs
<1>2. \A c \in Conns : wire[c] \in Seq(Casts) /\ batch[c] \in Seq(Casts)
    BY DEF TypeOK
<1>3. \A c \in Conns : ~Has(c, i)
    BY DEF LineInv, Over
\* What the lines have, and in which order.
<1>4. \A c \in Conns :
        /\ Sent(c)' = IF c \in R /\ i \notin batched THEN Sent(c) \cup {i} ELSE Sent(c)
        /\ Waiting(c)' = IF c \in R /\ i \in batched THEN Waiting(c) \cup {i} ELSE Waiting(c)
    <2> TAKE c \in Conns
    <2>1. CASE c \in R /\ i \in batched
        <3>1. wire'[c] = wire[c] /\ batch'[c] = Append(batch[c], i)
            BY <1>1, <2>1
        <3>2. QED BY <1>2, <2>1, <3>1, AppendIs DEF Sent, Waiting
    <2>2. CASE c \in R /\ i \notin batched
        <3>1. batch'[c] = batch[c] /\ wire'[c] = Append(wire[c], i)
            BY <1>1, <2>2
        <3>2. QED BY <1>2, <2>2, <3>1, AppendIs DEF Sent, Waiting
    <2>3. CASE c \notin R
        <3>1. wire'[c] = wire[c] /\ batch'[c] = batch[c]
            BY <1>1, <2>3
        <3>2. QED BY <2>3, <3>1 DEF Sent, Waiting
    <2>4. QED BY <2>1, <2>2, <2>3
<1>5. \A c \in Conns, x \in Casts : Has(c, x)' <=> Has(c, x) \/ (c \in R /\ x = i)
    BY <1>4 DEF Has
<1>6. \A c \in Conns, x, y \in Casts :
        Precedes(c, x, y)' <=>
            \/ Precedes(c, x, y)
            \/ c \in R /\ i \in batched /\ y = i /\ Has(c, x)
            \/ c \in R /\ i \notin batched /\ y = i /\ x \in Sent(c)
            \/ c \in R /\ i \notin batched /\ x = i /\ y \in Waiting(c)
    <2> TAKE c \in Conns, x, y \in Casts
    <2>1. CASE c \in R /\ i \in batched
        <3>1. wire'[c] = wire[c] /\ batch'[c] = Append(batch[c], i)
            BY <1>1, <2>1
        <3>2. Before(batch'[c], x, y) <=> Before(batch[c], x, y) \/ (x \in Waiting(c) /\ y = i)
            BY <1>2, <3>1, AppendIs DEF Waiting
        <3>3. QED BY <1>4, <2>1, <3>1, <3>2 DEF Precedes, Has
    <2>2. CASE c \in R /\ i \notin batched
        <3>1. batch'[c] = batch[c] /\ wire'[c] = Append(wire[c], i)
            BY <1>1, <2>2
        <3>2. Before(wire'[c], x, y) <=> Before(wire[c], x, y) \/ (x \in Sent(c) /\ y = i)
            BY <1>2, <3>1, AppendIs DEF Sent
        <3>3. QED BY <1>4, <2>2, <3>1, <3>2 DEF Precedes
    <2>3. CASE c \notin R
        <3>1. wire'[c] = wire[c] /\ batch'[c] = batch[c]
            BY <1>1, <2>3
        <3>2. QED BY <1>4, <2>3, <3>1 DEF Precedes
    <2>4. QED BY <2>1, <2>2, <2>3
<1>7. OrderInv'
    <2>1. ASSUME NEW c \in Conns, NEW x \in Casts PROVE ~Precedes(c, x, x)'
        <3>1. ~Precedes(c, x, x) /\ (x = i => ~Has(c, x))
            BY <1>3 DEF OrderInv
        <3>2. QED BY <1>6, <3>1 DEF Has
    <2>2. ASSUME NEW c \in Conns, NEW d \in Conns, NEW x \in Casts, NEW y \in Casts,
                 Precedes(c, x, y)', Has(d, x)', Has(d, y)', x \in batched' <=> y \in batched'
          PROVE  Precedes(d, x, y)'
        <3>1. x # y
            BY <2>1, <2>2
        <3>2. CASE y = i
            <4>1. d \in R /\ Has(d, x) /\ (x \in batched <=> i \in batched)
                BY <1>3, <1>5, <2>2, <3>1, <3>2
            <4>2. i \notin batched => x \in Sent(d)
                BY <4>1 DEF LineInv, Has
            <4>3. QED BY <1>6, <3>2, <4>1, <4>2
        <3>3. CASE x = i
            <4>1. ~Precedes(c, x, y)
                BY <1>3, <3>3, Ends
            <4>2. y \in Waiting(c) /\ i \notin batched
                BY <1>6, <2>2, <3>1, <3>3, <4>1
            <4>3. y \in batched
                BY <4>2 DEF LineInv
            <4>4. QED BY <2>2, <3>3, <4>2, <4>3
        <3>4. CASE x # i /\ y # i
            <4>1. Precedes(c, x, y) /\ Has(d, x) /\ Has(d, y)
                BY <1>5, <1>6, <2>2, <3>4
            <4>2. Precedes(d, x, y)
                BY <2>2, <4>1 DEF OrderInv
            <4>3. QED BY <1>6, <4>2
        <3>5. QED BY <3>2, <3>3, <3>4
    <2>3. QED BY <2>1, <2>2 DEF OrderInv
<1>8. ServedInv'
    <2> SUFFICES ASSUME NEW j \in Casts \ cutShort', NEW c \in Conns, NEW d \in Conns,
                        Has(d, j)', c \in audience'[j], status'[c] = "open"
                 PROVE  Has(c, j)'
        BY DEF ServedInv
    <2>1. status[c] = "open" /\ c \in audience[j] /\ j \notin cutShort
        BY <1>1
    <2>2. CASE j # i
        <3>1. Has(d, j)
            BY <1>5, <2>2
        <3>2. Has(c, j)
            BY <2>1, <3>1 DEF ServedInv
        <3>3. QED BY <1>5, <3>2
    <2>3. CASE j = i
        <3>1. c \in Recipients(i)
            BY <2>1, <2>3 DEF Recipients, ConnInv, CastInv
        <3>2. QED BY <1>1, <1>5, <2>3, <3>1
    <2>4. QED BY <2>2, <2>3
<1>9. LineInv'
    <2> SUFFICES ASSUME NEW c \in Conns
                 PROVE  /\ Waiting(c)' \subseteq batched'
                        /\ \A j \in Casts : Has(c, j)' => /\ stage'[j] \in Over /\ spared'[j] # c
                                                         /\ status'[c] # "none"
                        /\ \A j \in Casts : target'[j] # "all" =>
                              /\ j \in Sent(c)' => c \in audience'[j]
                              /\ j \in Waiting(c)' => c \in audience'[j] \/ status'[c] # "open"
        BY DEF LineInv, Over
    <2>1. Waiting(c)' \subseteq batched'
        BY <1>4 DEF LineInv
    <2>2. status[c] # "none" => status'[c] # "none"
        BY <1>1
    <2>3. ASSUME c \in R
          PROVE  /\ spared[i] # c /\ status[c] # "none"
                 /\ target[i] # "all" => /\ c \in audience[i] \/ status[c] # "open"
                                         /\ i \notin batched => c \in audience[i]
        <3>1. c \in Recipients(i) /\ (i \notin batched => status[c] = "open") /\ status[c] # "none"
            BY <1>1, <2>3
        <3>2. target[i] # "all" => c \in recipients[i]
            BY <3>1 DEF Recipients
        <3>3. QED BY <3>1, <3>2 DEF CastInv
    <2>4. ASSUME NEW j \in Casts, Has(c, j)'
          PROVE  stage'[j] \in Over /\ spared'[j] # c /\ status'[c] # "none"
        <3>1. CASE j = i
            BY <1>1, <1>3, <1>5, <2>2, <2>3, <2>4, <3>1
        <3>2. CASE j # i
            <4>1. Has(c, j) /\ stage'[j] = stage[j]
                BY <1>1, <1>5, <2>4, <3>2 DEF TypeOK
            <4>2. QED BY <2>2, <4>1 DEF LineInv
        <3>3. QED BY <3>1, <3>2
    <2>5. ASSUME NEW j \in Casts, target'[j] # "all"
          PROVE  /\ j \in Sent(c)' => c \in audience'[j]
                 /\ j \in Waiting(c)' => c \in audience'[j] \/ status'[c] # "open"
        <3>1. status[c] # "open" => status'[c] # "open"
            BY <1>1
        <3>2. CASE j = i
            <4>1. /\ j \in Sent(c)' => c \in R /\ i \notin batched
                  /\ j \in Waiting(c)' => c \in R
                BY <1>3, <1>4, <3>2 DEF Has
            <4>2. QED BY <2>3, <2>5, <3>1, <3>2, <4>1
        <3>3. CASE j # i
            <4>1. (j \in Sent(c)' => j \in Sent(c)) /\ (j \in Waiting(c)' => j \in Waiting(c))
                BY <1>4, <3>3
            <4>2. QED BY <2>5, <3>1, <4>1 DEF LineInv
        <3>4. QED BY <3>2, <3>3
    <2>6. QED BY <2>1, <2>4, <2>5
<1>10. QED BY <1>7, <1>8, <1>9

-----------------------------------------------------------------------------
(* The steps *)

Rest == LineInv /\ OrderInv /\ ServedInv

\* Casts whose stage goes on and nothing else.
LEMMA StageMoves ==
    ASSUME IInv, NEW i \in Casts, stage[i] # "idle",
           NEW p \in {"encoding", "post", "publishing", "done", "failed"},
           stage' = [stage EXCEPT ![i] = p], stage[i] \in Over => p \in Over,
           lane' \in Seq(Casts), echoes' \subseteq Casts,
           UNCHANGED <<target, recipients, spared, origin, batched, connVars, audience, cutShort>>
    PROVE  IInv'
<1>1. TypeOK'
    BY DEF IInv, TypeOK, connVars
<1>2. ConnInv' /\ CastInv'
    BY DEF IInv, ConnInv, CastInv, connVars
<1>3. Rest'
    <2>1. \A j \in Casts : stage[j] \in Over => stage'[j] \in Over
        BY DEF IInv, TypeOK
    <2>2. LineInv' /\ OrderInv' /\ ServedInv'
        BY <2>1, QuietLines DEF IInv, connVars
    <2>3. QED BY <2>2 DEF Rest
<1>4. QED BY <1>1, <1>2, <1>3 DEF IInv, Rest

\* A call chooses by what is connected and in the room now.
LEMMA BeginKeeps ==
    ASSUME IInv, NEW i \in Casts, NEW k \in Targets, NEW x \in Conns \cup {Nobody},
           x \in Conns => k \in {"except", "filter"},
           Begin(i, k, x, i), UNCHANGED <<connVars, lane, echoes, cutShort>>
    PROVE  IInv'
<1>1. PICK S \in SUBSET connections : S = Chosen(k, x) /\ (x \in Conns => x \notin S)
    <2>1. members \subseteq connections
        BY DEF IInv, ConnInv
    <2>2. Chosen(k, x) \subseteq connections /\ (x \in Conns => x \notin Chosen(k, x))
        <3>1. CASE k = "all"
            <4>1. Chosen(k, x) = connections
                BY <3>1 DEF Chosen
            <4>2. QED BY <3>1, <4>1
        <3>2. CASE k \in {"tagged", "room"}
            <4>1. Chosen(k, x) = members
                BY <3>2 DEF Chosen
            <4>2. QED BY <2>1, <3>2, <4>1
        <3>3. CASE k = "except"
            <4>1. Chosen(k, x) = (connections \cap members) \ {x}
                BY <3>3 DEF Chosen
            <4>2. QED BY <4>1
        <3>4. CASE k = "filter"
            <4>1. Chosen(k, x) = connections \ {x}
                BY <3>4 DEF Chosen
            <4>2. QED BY <4>1
        <3>5. QED BY <3>1, <3>2, <3>3, <3>4 DEF Targets
    <2>3. QED BY Zenon, <2>2
<1>2. S \subseteq Conns /\ \A c \in S : status[c] \in {"open", "closing"}
    BY DEF IInv, TypeOK, ConnInv
<1>3. /\ stage[i] = "idle"
      /\ target' = [target EXCEPT ![i] = k]
      /\ spared' = [spared EXCEPT ![i] = x]
      /\ origin' = [origin EXCEPT ![i] = i]
      /\ batched' \in {batched, batched \cup {i}}
      /\ recipients' = [recipients EXCEPT ![i] = IF k = "all" THEN {} ELSE S]
      /\ audience' = [audience EXCEPT ![i] = {c \in S : status[c] = "open"}]
      /\ \E p \in {"pre", "publishing", "done"} : stage' = [stage EXCEPT ![i] = p]
    BY <1>1 DEF Begin, LocalEnd
<1>4. TypeOK'
    BY <1>2, <1>3 DEF IInv, TypeOK, connVars
<1>5. ConnInv'
    BY DEF IInv, ConnInv, connVars
<1>6. CastInv'
    <2> SUFFICES ASSUME NEW j \in Casts
                 PROVE  /\ origin'[j] = j
                        /\ spared'[j] \in Conns => target'[j] # "all" /\ spared'[j] \notin recipients'[j]
                        /\ target'[j] # "all" => audience'[j] \subseteq recipients'[j]
                        /\ \A c \in audience'[j] : status'[c] # "none"
                        /\ \A c \in recipients'[j] :
                              status'[c] # "none" /\ (c \in audience'[j] \/ status'[c] # "open")
        BY DEF CastInv
    <2>1. status' = status
        BY DEF connVars
    <2>2. CASE j # i
        <3>1. /\ origin'[j] = origin[j] /\ spared'[j] = spared[j] /\ target'[j] = target[j]
              /\ recipients'[j] = recipients[j] /\ audience'[j] = audience[j]
            BY <1>3, <2>2 DEF IInv, TypeOK
        <3>2. QED BY <2>1, <3>1 DEF IInv, CastInv
    <2>3. CASE j = i
        <3>1. /\ origin'[i] = i /\ spared'[i] = x /\ target'[i] = k
              /\ recipients'[i] = (IF k = "all" THEN {} ELSE S)
              /\ audience'[i] = {c \in S : status[c] = "open"}
            BY <1>3 DEF IInv, TypeOK
        <3>2. x \in Conns => k # "all" /\ x \notin S
            BY <1>1
        <3>3. QED BY <1>2, <2>1, <2>3, <3>1, <3>2
    <2>4. QED BY <2>2, <2>3
<1>7. Rest'
    <2>1. \A j \in Casts : j # i => /\ target'[j] = target[j] /\ spared'[j] = spared[j]
                                    /\ stage'[j] = stage[j] /\ audience'[j] = audience[j]
        BY <1>3 DEF IInv, TypeOK
    <2>2. LineInv' /\ OrderInv' /\ ServedInv'
        BY <1>3, <2>1, BeginLines DEF IInv, connVars
    <2>3. QED BY <2>2 DEF Rest
<1>8. QED BY <1>4, <1>5, <1>6, <1>7 DEF IInv, Rest

\* Connections change beside the casts.
LEMMA ConnectionMoves ==
    ASSUME IInv, UNCHANGED <<castVars, lane, wire, echoes, audience, cutShort>>,
           TypeOK', ConnInv',
           \A c \in Conns : batch'[c] = batch[c] \/ (batch'[c] = <<>> /\ status'[c] # "open"),
           \A c \in Conns : /\ status'[c] = "open" => status[c] \in {"open", "none"}
                            /\ status[c] # "none" => status'[c] # "none"
    PROVE  IInv'
<1>1. CastInv'
    <2>1. \A i \in Casts : recipients[i] \subseteq Conns /\ audience[i] \subseteq Conns
        BY DEF IInv, TypeOK
    <2>2. QED BY <2>1 DEF IInv, CastInv, castVars
<1>2. Rest'
    <2>1. LineInv' /\ OrderInv' /\ ServedInv'
        BY QuietLines DEF IInv, castVars
    <2>2. QED BY <2>1 DEF Rest
<1>3. QED BY <1>1, <1>2 DEF IInv, Rest

LEMMA ConnStep ==
    ASSUME IInv, NEW c \in Conns, Connect(c) \/ CloseEvent(c) \/ Join(c) \/ Leave(c)
    PROVE  IInv'
<1>1. TypeOK /\ ConnInv
    BY DEF IInv
<1>2. CASE Connect(c)
    <2>1. TypeOK' /\ ConnInv'
        BY <1>1, <1>2 DEF Connect, TypeOK, ConnInv, castVars
    <2>2. QED BY <1>1, <1>2, <2>1, ConnectionMoves DEF Connect, TypeOK
<1>3. CASE CloseEvent(c)
    <2>1. TypeOK' /\ ConnInv'
        BY <1>1, <1>3 DEF CloseEvent, TypeOK, ConnInv, castVars
    <2>2. QED BY <1>1, <1>3, <2>1, ConnectionMoves DEF CloseEvent, TypeOK
<1>4. CASE Join(c)
    <2>1. TypeOK' /\ ConnInv'
        BY <1>1, <1>4 DEF Join, TypeOK, ConnInv, castVars
    <2>2. QED BY <1>1, <1>4, <2>1, ConnectionMoves DEF Join, TypeOK
<1>5. CASE Leave(c)
    <2>1. TypeOK' /\ ConnInv'
        BY <1>1, <1>5 DEF Leave, TypeOK, ConnInv, castVars
    <2>2. QED BY <1>1, <1>5, <2>1, ConnectionMoves DEF Leave, TypeOK
<1>6. QED BY <1>2, <1>3, <1>4, <1>5

LEMMA FlushStep == ASSUME IInv, NEW c \in Conns, Flush(c) PROVE IInv'
<1>1. TypeOK /\ ConnInv /\ wire[c] \in Seq(Casts) /\ batch[c] \in Seq(Casts)
    BY DEF IInv, TypeOK
<1>2. UNCHANGED <<connections, members, castVars, lane, echoes, audience, cutShort>>
    BY DEF Flush
<1>3. CASE status[c] = "open" /\ UNCHANGED status
    <2>1. /\ batch' = [batch EXCEPT ![c] = <<>>] /\ wire' = [wire EXCEPT ![c] = wire[c] \o batch[c]]
        BY <1>1, <1>3 DEF Flush, TypeOK
    <2>2. wire[c] \o batch[c] \in Seq(Casts)
        BY <1>1, ConcatIs
    <2>3. TypeOK' /\ ConnInv' /\ CastInv'
        <3>1. TypeOK'
            BY <1>1, <1>2, <1>3, <2>1, <2>2 DEF TypeOK, castVars
        <3>2. ConnInv' /\ CastInv'
            BY <1>2, <1>3 DEF IInv, ConnInv, CastInv, castVars
        <3>3. QED BY <3>1, <3>2
    <2>4. LineInv' /\ OrderInv' /\ ServedInv'
        BY <1>2, <1>3, <2>1, FlushOpen DEF IInv
    <2>5. QED BY <2>3, <2>4 DEF IInv
<1>4. CASE ~(status[c] = "open" /\ UNCHANGED status)
    <2>1. /\ wire' = wire
          /\ batch' = batch \/ (batch' = [batch EXCEPT ![c] = <<>>])
          /\ status' = status \/ (status[c] = "open" /\ status' = [status EXCEPT ![c] = "closing"])
          /\ batch' = batch \/ status'[c] # "open"
        BY <1>1, <1>4 DEF Flush, TypeOK
    <2>2. TypeOK' /\ ConnInv'
        <3>1. /\ batch' \in [Conns -> Seq(Casts)]
              /\ status' \in [Conns -> {"none", "open", "closing", "gone"}]
            <4>1. /\ batch \in [Conns -> Seq(Casts)] /\ <<>> \in Seq(Casts)
                  /\ status \in [Conns -> {"none", "open", "closing", "gone"}]
                BY <1>1 DEF TypeOK
            <4>2. batch' \in [Conns -> Seq(Casts)]
                BY <2>1, <4>1
            <4>3. QED BY <2>1, <4>1, <4>2
        <3>2. TypeOK'
            BY <1>1, <1>2, <2>1, <3>1 DEF TypeOK, castVars
        <3>3. \A d \in Conns : status'[d] = status[d]
                                \/ (status[d] = "open" /\ status'[d] = "closing")
            BY <1>1, <2>1 DEF TypeOK
        <3>4. QED BY <1>1, <1>2, <3>2, <3>3 DEF ConnInv
    <2>3. \A d \in Conns : /\ batch'[d] = batch[d] \/ (batch'[d] = <<>> /\ status'[d] # "open")
                           /\ status'[d] = "open" => status[d] \in {"open", "none"}
                           /\ status[d] # "none" => status'[d] # "none"
        BY <1>1, <2>1 DEF TypeOK
    <2>4. QED BY <1>2, <2>1, <2>2, <2>3, ConnectionMoves
<1>5. QED BY <1>3, <1>4

LEMMA HookStep == ASSUME IInv, NEW i \in Casts, PostHook(i) PROVE IInv'
<1>1. /\ stage[i] = "post" /\ TypeOK
      /\ UNCHANGED <<target, recipients, spared, origin, batched, connections, members, lane,
                     echoes, audience>>
    BY DEF PostHook, IInv
<1>2. CASE LocalEnd(i, target[i]) /\ UNCHANGED <<status, wire, batch, cutShort>>
    <2>1. PICK p \in {"publishing", "done"} : stage' = [stage EXCEPT ![i] = p]
        BY <1>2 DEF LocalEnd
    <2>2. p \in Over
        BY DEF Over
    <2>3. lane \in Seq(Casts) /\ echoes \subseteq Casts
        BY <1>1 DEF TypeOK
    <2>4. QED BY <1>1, <1>2, <2>1, <2>2, <2>3, StageMoves DEF connVars
<1>3. CASE Deliver(i)
    <2>1. LineInv' /\ OrderInv' /\ ServedInv'
        BY <1>1, <1>3, DeliverLines DEF IInv
    <2>2. PICK R \in SUBSET Conns :
              /\ \A c \in Conns : \/ status'[c] = status[c]
                                  \/ status[c] = "open" /\ status'[c] = "closing"
              /\ status' \in [Conns -> {"none", "open", "closing", "gone"}]
              /\ i \in batched =>
                    /\ wire' = wire
                    /\ batch' = [c \in Conns |-> IF c \in R THEN Append(batch[c], i) ELSE batch[c]]
              /\ i \notin batched =>
                    /\ batch' = batch
                    /\ wire' = [c \in Conns |-> IF c \in R THEN Append(wire[c], i) ELSE wire[c]]
              /\ stage'[i] \in Over /\ stage' = [stage EXCEPT ![i] = stage'[i]]
              /\ cutShort' \in {cutShort, cutShort \cup {i}}
        BY <1>1, <1>3, DeliverIs DEF IInv
    <2>3. ConnInv'
        BY <1>1, <2>2 DEF IInv, ConnInv
    <2>4. CastInv'
        <3>1. \A j \in Casts : recipients[j] \subseteq Conns /\ audience[j] \subseteq Conns
            BY <1>1 DEF TypeOK
        <3>2. \A c \in Conns : /\ status[c] # "none" => status'[c] # "none"
                               /\ status[c] # "open" => status'[c] # "open"
            BY <2>2
        <3>3. QED BY <1>1, <3>1, <3>2 DEF IInv, CastInv
    <2>5. TypeOK'
        <3>1. \A c \in Conns : /\ Append(batch[c], i) \in Seq(Casts) /\ batch[c] \in Seq(Casts)
                               /\ Append(wire[c], i) \in Seq(Casts) /\ wire[c] \in Seq(Casts)
            BY <1>1, AppendIs DEF TypeOK
        <3>2. batch' \in [Conns -> Seq(Casts)] /\ wire' \in [Conns -> Seq(Casts)]
            <4>1. batch \in [Conns -> Seq(Casts)] /\ wire \in [Conns -> Seq(Casts)]
                BY <1>1 DEF TypeOK
            <4>2. CASE i \in batched
                BY <2>2, <3>1, <4>1, <4>2
            <4>3. CASE i \notin batched
                BY <2>2, <3>1, <4>1, <4>3
            <4>4. QED BY <4>2, <4>3
        <3>3. stage' \in [Casts -> {"idle", "pre", "encoding", "post", "publishing", "done", "failed"}]
            BY <1>1, <2>2 DEF TypeOK, Over
        <3>4. cutShort' \subseteq Casts
            BY <1>1, <2>2 DEF TypeOK
        <3>5. QED BY <1>1, <2>2, <3>2, <3>3, <3>4 DEF TypeOK
    <2>6. QED BY <2>1, <2>3, <2>4, <2>5 DEF IInv
<1>4. QED BY <1>2, <1>3 DEF PostHook

LEMMA CastStep ==
    ASSUME IInv, BroadcastAssumption, NEW i \in Casts,
           Call(i) \/ ReceiveOther(i) \/ PreHook(i) \/ Encode(i) \/ Publish(i) \/ ReceiveOwn(i)
    PROVE  IInv'
<1>1. TypeOK /\ lane \in Seq(Casts) /\ echoes \subseteq Casts
    BY DEF IInv, TypeOK
<1>2. Nobody \notin Conns
    BY DEF BroadcastAssumption
<1>3. CASE Call(i)
    <2>1. PICK k \in Targets, x \in Conns \cup {Nobody} :
              Begin(i, k, x, i) /\ (x \in Conns => k \in {"except", "filter"})
        BY <1>1, <1>2, <1>3 DEF Call, BroadcastAll, BroadcastTagged, BroadcastRoom,
           BroadcastRoomExcept, BroadcastFiltered, Targets, TypeOK
    <2>2. QED BY <1>3, <2>1, BeginKeeps DEF Call
<1>4. CASE ReceiveOther(i)
    BY <1>2, <1>4, BeginKeeps DEF ReceiveOther, Targets
<1>5. CASE PreHook(i)
    <2>1. PICK p \in {"encoding", "publishing", "done"} : stage' = [stage EXCEPT ![i] = p]
        BY <1>5 DEF PreHook, LocalEnd
    <2>2. lane' \in Seq(Casts)
        BY <1>1, <1>5, AppendIs DEF PreHook
    <2>3. stage[i] \notin Over
        BY <1>5 DEF PreHook, Over
    <2>4. QED BY <1>1, <1>5, <2>1, <2>2, <2>3, StageMoves DEF PreHook
<1>6. CASE Encode(i)
    <2>1. PICK p \in {"post", "failed"} : stage' = [stage EXCEPT ![i] = p]
        BY <1>6 DEF Encode
    <2>2. lane' \in Seq(Casts)
        BY <1>1, <1>6 DEF Encode
    <2>3. stage[i] \notin Over
        BY <1>6 DEF Encode, Over
    <2>4. QED BY <1>1, <1>6, <2>1, <2>2, <2>3, StageMoves DEF Encode
<1>7. CASE Publish(i)
    <2>1. PICK p \in {"done", "failed"} : stage' = [stage EXCEPT ![i] = p]
        BY <1>7 DEF Publish
    <2>2. p \in Over /\ echoes' \subseteq Casts
        BY <1>1, <1>7 DEF Publish, Over
    <2>3. QED BY <1>1, <1>7, <2>1, <2>2, StageMoves DEF Publish
<1>8. CASE ReceiveOwn(i)
    <2>1. /\ echoes' \subseteq Casts
          /\ UNCHANGED <<castVars, connVars, lane, audience, cutShort>>
        BY <1>1, <1>8 DEF ReceiveOwn, Ignore
    <2>2. TypeOK' /\ ConnInv'
        BY <1>1, <2>1 DEF IInv, TypeOK, ConnInv, castVars, connVars
    <2>3. CastInv'
        BY <2>1 DEF IInv, CastInv, castVars, connVars
    <2>4. LineInv' /\ OrderInv' /\ ServedInv'
        BY <2>1, QuietLines DEF IInv, castVars, connVars
    <2>5. QED BY <2>2, <2>3, <2>4 DEF IInv
<1>9. QED BY <1>3, <1>4, <1>5, <1>6, <1>7, <1>8

LEMMA Preserved == ASSUME IInv, BroadcastAssumption, [Next]_vars PROVE IInv'
<1>1. CASE UNCHANGED vars
    BY <1>1 DEF vars, castVars, connVars, IInv, TypeOK, ConnInv, CastInv, LineInv, OrderInv, ServedInv,
       Has, Sent, Waiting, Precedes
<1>2. CASE Next
    BY <1>2, ConnStep, FlushStep, CastStep, HookStep DEF Next
<1>3. QED BY <1>1, <1>2

LEMMA Invariance == Spec => []IInv
<1>1. Init => IInv
    BY InitInv, BroadcastAssumption
<1>2. IInv /\ [Next]_vars => IInv'
    BY Preserved, BroadcastAssumption
<1>3. QED BY <1>1, <1>2, PTL DEF Spec

-----------------------------------------------------------------------------
(* Theorems *)

\* Every variable of the broadcasts keeps its type.
THEOREM TypeCorrect == Spec => []TypeOK
<1>1. IInv => TypeOK
    BY DEF IInv
<1>2. QED BY <1>1, Invariance, PTL

\* Nobody is sent a broadcast twice, whether at once or in a batch, nor one that
\* spares it: a published one that the channel brings back is not broadcast again.
THEOREM SentOnce == Spec => []OncePerBroadcast
<1>1. ASSUME IInv PROVE OncePerBroadcast
    <2> SUFFICES ASSUME NEW c \in Conns
                 PROVE  /\ IsInjective(wire[c] \o batch[c])
                        /\ \A i \in Casts : spared[i] = c => i \notin Sent(c)
        BY DEF OncePerBroadcast
    <2>1. wire[c] \in Seq(Casts) /\ batch[c] \in Seq(Casts)
        BY <1>1 DEF IInv, TypeOK
    <2>2. \A x, y \in Casts : Before(wire[c] \o batch[c], x, y) <=> Precedes(c, x, y)
        BY <2>1, ConcatIs DEF Precedes, Sent, Waiting
    <2>3. wire[c] \o batch[c] \in Seq(Casts) /\ \A x \in Casts : ~Before(wire[c] \o batch[c], x, x)
        BY <1>1, <2>1, <2>2, ConcatIs DEF IInv, OrderInv
    <2>4. IsInjective(wire[c] \o batch[c])
        BY <2>3, OnceIs
    <2>5. \A i \in Casts : spared[i] = c => i \notin Sent(c)
        BY <1>1 DEF IInv, LineInv, Has
    <2>6. QED BY <2>4, <2>5
<1>2. QED BY <1>1, Invariance, PTL

\* Any two connections receive the broadcasts they share in one order, those in
\* batches and the others each for themselves.
THEOREM OneOrder == Spec => []SameOrder
<1>1. ASSUME IInv PROVE SameOrder
    <2> SUFFICES ASSUME NEW c \in Conns, NEW d \in Conns,
                        NEW j \in DOMAIN wire[c], NEW k \in DOMAIN wire[c],
                        NEW m \in DOMAIN wire[d], NEW n \in DOMAIN wire[d],
                        wire[c][j] = wire[d][m], wire[c][k] = wire[d][n],
                        wire[c][j] \in batched <=> wire[c][k] \in batched, j < k
                 PROVE  m < n
        BY DEF SameOrder
    <2>1. wire[c] \in Seq(Casts) /\ wire[d] \in Seq(Casts)
        BY <1>1 DEF IInv, TypeOK
    <2>2. PICK x \in Casts, y \in Casts : x = wire[c][j] /\ y = wire[c][k]
        BY <2>1
    <2>3. Precedes(c, x, y) /\ Has(d, x) /\ Has(d, y)
        BY <2>2 DEF Precedes, Before, Has, Sent, ToSet
    <2>4. Precedes(d, x, y)
        BY <1>1, <2>2, <2>3 DEF IInv, OrderInv
    <2>5. \A z \in Casts : ~Precedes(d, z, z)
        BY <1>1 DEF IInv, OrderInv
    <2>6. Before(wire[d], x, y)
        <3>1. x \in Sent(d) /\ y \in Sent(d)
            BY <2>2 DEF Sent, ToSet
        <3>2. x \notin Waiting(d) /\ y \notin Waiting(d)
            BY <2>5, <3>1 DEF Precedes
        <3>3. QED BY <2>4, <3>2 DEF Precedes, Before, Waiting, ToSet
    <2>7. PICK a \in DOMAIN wire[d], b \in DOMAIN wire[d] : a < b /\ wire[d][a] = x /\ wire[d][b] = y
        BY <2>6 DEF Before
    <2>8. IsInjective(wire[d])
        <3>1. \A z \in Casts : ~Before(wire[d], z, z)
            BY <2>5 DEF Precedes
        <3>2. QED BY <2>1, <3>1, OnceIs
    <2>9. a = m /\ b = n
        BY <2>2, <2>7, <2>8 DEF IsInjective
    <2>10. QED BY <2>7, <2>9
<1>2. QED BY <1>1, Invariance, PTL

\* A broadcast to a room or a filter reaches nobody whom it was not for when it was
\* called, and when it reaches anybody it is sent to everybody it was for who
\* is still connected, unless an overflowing connection cut its loop short.
THEOREM AudienceExact == Spec => []ExactlyTheAudience
<1>1. ASSUME IInv PROVE ExactlyTheAudience
    <2>1. \A i \in Casts, c \in Conns : i \in Sent(c) /\ target[i] # "all" => c \in audience[i]
        BY <1>1 DEF IInv, LineInv
    <2>2. \A i \in Casts \ cutShort, c, d \in Conns :
             Has(d, i) /\ c \in audience[i] /\ status[c] = "open" => Has(c, i)
        BY <1>1 DEF IInv, ServedInv
    <2>3. QED BY <2>1, <2>2 DEF ExactlyTheAudience, Has, Waiting
<1>2. QED BY <1>1, Invariance, PTL
=============================================================================
