----------------------------- MODULE XPipeRing ------------------------------
(***************************************************************************)
(* Lemmas for the proofs about XPipe: the arithmetic of ring indices (a    *)
(* counter that only grows is reduced modulo the length of the ring), the  *)
(* slots of the ring, the copies into and out of it, and the histories.    *)
(***************************************************************************)
EXTENDS XPipe, SequenceTheorems, TLAPS

\* The quotient and remainder of a counter by the ring's length.
LEMMA DivMod ==
  ASSUME NEW a \in Nat, NEW L \in Nat \ {0}
  PROVE  \E q \in Nat, r \in 0..(L - 1) : a = L * q + r /\ r = a % L
<1>1. /\ a % L \in 0..(L - 1)
      /\ a \div L \in Nat
      /\ a = L * (a \div L) + (a % L)
  OBVIOUS
<1> WITNESS a \div L \in Nat, a % L \in 0..(L - 1)
<1> QED BY <1>1, Zenon

\* An index is inside the ring.
LEMMA ModRange ==
  ASSUME NEW a \in Nat, NEW L \in Nat \ {0}
  PROVE  a % L \in 0..(L - 1)
OBVIOUS

\* Quotient and remainder are unique.
LEMMA DivModUnique ==
  ASSUME NEW L \in Nat \ {0}, NEW q \in Int, NEW p \in Int,
         NEW r \in 0..(L - 1), NEW s \in 0..(L - 1),
         L * q + r = L * p + s
  PROVE  r = s
<1>1. L * (q - p) = s - r
  OBVIOUS
<1>2. ~(q - p >= 1)
  <2> SUFFICES ASSUME q - p >= 1 PROVE FALSE
    OBVIOUS
  <2>1. L * (q - p) >= L * 1
    OBVIOUS
  <2> QED BY <1>1, <2>1
<1>3. ~(q - p <= -1)
  <2> SUFFICES ASSUME q - p <= -1 PROVE FALSE
    OBVIOUS
  <2>1. L * (p - q) >= L * 1
    OBVIOUS
  <2>2. L * (p - q) = r - s
    BY <1>1
  <2> QED BY <2>1, <2>2
<1> QED BY <1>2, <1>3

\* A counter written as a multiple and a rest has that rest.
LEMMA ModIs ==
  ASSUME NEW L \in Nat \ {0}, NEW a \in Nat, NEW q \in Int,
         NEW r \in 0..(L - 1), a = L * q + r
  PROVE  a % L = r
<1>1. PICK p \in Nat, s \in 0..(L - 1) : a = L * p + s /\ s = a % L
  BY DivMod, Zenon
<1>2. L * q + r = L * p + s
  BY <1>1, Zenon
<1>3. r = s
  BY <1>2, DivModUnique
<1> QED BY <1>1, <1>3, Zenon

\* Where the ring folds: the index of a counter that advanced by at most L.
LEMMA ModAdd ==
  ASSUME NEW a \in Nat, NEW L \in Nat \ {0}, NEW d \in 0..L
  PROVE  (a + d) % L = IF (a % L) + d < L THEN (a % L) + d ELSE (a % L) + d - L
<1>1. PICK q \in Nat, r \in 0..(L - 1) : a = L * q + r /\ r = a % L
  BY DivMod, Zenon
<1>2. CASE r + d < L
  <2>1. a + d = L * q + (r + d)
    BY <1>1
  <2>2. r + d \in 0..(L - 1) /\ q \in Int /\ a + d \in Nat
    BY <1>2
  <2>3. (a + d) % L = r + d
    BY <2>1, <2>2, ModIs, Zenon
  <2> QED BY <1>1, <1>2, <2>3, Zenon
<1>3. CASE r + d >= L
  <2>1. a + d = L * (q + 1) + (r + d - L)
    BY <1>1
  <2>2. r + d - L \in 0..(L - 1) /\ q + 1 \in Int /\ a + d \in Nat
    BY <1>1, <1>3
  <2>3. (a + d) % L = r + d - L
    BY <2>1, <2>2, ModIs, Zenon
  <2> QED BY <1>1, <1>3, <2>3
<1> QED BY <1>1, <1>2, <1>3

\* Two counters less than L apart never share a slot.
LEMMA ModDistinct ==
  ASSUME NEW a \in Nat, NEW b \in Nat, NEW L \in Nat \ {0},
         a < b, b - a < L
  PROVE  a % L # b % L
<1>1. b - a \in 0..L /\ a + (b - a) = b
  OBVIOUS
<1>2. (a + (b - a)) % L =
        IF (a % L) + (b - a) < L THEN (a % L) + (b - a) ELSE (a % L) + (b - a) - L
  BY <1>1, ModAdd, Zenon
<1>3. b % L = IF (a % L) + (b - a) < L THEN (a % L) + (b - a)
                                         ELSE (a % L) + (b - a) - L
  BY <1>1, <1>2, Zenon
<1>4. a % L \in 0..(L - 1)
  BY ModRange, Zenon
<1> QED BY <1>3, <1>4

\* The largest multiple of m below a.
LEMMA MultipleBelow ==
  ASSUME NEW a \in Nat, NEW m \in Nat \ {0}
  PROVE  m * (a \div m) \in 0..a /\ a - m * (a \div m) < m
<1>1. /\ a % m \in 0..(m - 1)
      /\ a \div m \in Nat
      /\ a = m * (a \div m) + (a % m)
  OBVIOUS
<1>2. m * (a \div m) \in Nat
  BY <1>1
<1> QED BY <1>1, <1>2

----------------------------------------------------------------------------
(* The ring of xpipe.h *)

\* A slot is an index of the buffer.
LEMMA SlotRange ==
  ASSUME PipeLen \in Nat \ {0}, NEW i \in Nat
  PROVE  Slot(i) \in 0..(PipeLen - 1)
BY ModRange, Zenon DEF Slot

\* The slot d units further, at most one turn of the ring away.
LEMMA SlotAdd ==
  ASSUME PipeLen \in Nat \ {0}, NEW i \in Nat, NEW d \in 0..PipeLen
  PROVE  Slot(i + d) = IF Slot(i) + d < PipeLen THEN Slot(i) + d
                                                ELSE Slot(i) + d - PipeLen
BY ModAdd, Zenon DEF Slot

\* c is b with num units of src written behind writer.
Filled(c, b, src, from, num) ==
  /\ \A d \in 0..(num - 1) : c[Slot(writer + d)] = src[from + d]
  /\ \A d \in num..(PipeLen - 1) : c[Slot(writer + d)] = b[Slot(writer + d)]

\* The two mcopy calls of __xpipe_write fill the slots that follow writer,
\* across the end of the buffer, and leave every other slot alone.
LEMMA StoreAt ==
  ASSUME PipeLen \in Nat \ {0}, writer \in Nat,
         NEW b, DOMAIN b = 0..(PipeLen - 1),
         NEW src, NEW from \in Nat, NEW num \in 0..PipeLen
  PROVE  Filled(Store(b, src, from, num), b, src, from, num)
<1> DEFINE c == Store(b, src, from, num)
<1>1. ASSUME NEW d \in 0..(PipeLen - 1)
      PROVE  c[Slot(writer + d)] =
               IF d < num THEN src[from + d] ELSE b[Slot(writer + d)]
  <2> DEFINE off == Slot(writer)
             k == Slot(writer + d)
  <2>1. off \in 0..(PipeLen - 1)
    BY SlotRange, Zenon
  <2>2. k = IF off + d < PipeLen THEN off + d ELSE off + d - PipeLen
    BY d \in 0..PipeLen, SlotAdd, Zenon
  <2>3. k \in 0..(PipeLen - 1)
    BY <2>1, <2>2
  <2> HIDE DEF off, k
  <2>4. c[k] = IF d < num THEN src[from + d] ELSE b[k]
    <3>1. CASE PipeLen - off >= num
      <4>1. Store(b, src, from, num) = MCopy(b, off, src, from, num)
        BY <3>1, Zenon DEF Store, off
      <4>2. MCopy(b, off, src, from, num)[k] =
              IF off <= k /\ k < off + num THEN src[from + (k - off)] ELSE b[k]
        BY <2>3, Zenon DEF MCopy
      <4> QED BY <2>1, <2>2, <3>1, <4>1, <4>2
    <3>2. CASE PipeLen - off < num
      <4> DEFINE left == PipeLen - off
                 m == MCopy(b, off, src, from, left)
      <4>1. Store(b, src, from, num) = MCopy(m, 0, src, from + left, num - left)
        BY <3>2, <2>1 DEF Store, off
      <4>2. DOMAIN m = 0..(PipeLen - 1)
        BY Zenon DEF MCopy
      <4>3. m[k] = IF off <= k /\ k < off + left THEN src[from + (k - off)] ELSE b[k]
        BY <2>3, Zenon DEF MCopy
      <4>4. MCopy(m, 0, src, from + left, num - left)[k] =
              IF 0 <= k /\ k < 0 + (num - left)
              THEN src[(from + left) + (k - 0)] ELSE m[k]
        BY <2>3, <4>2, Zenon DEF MCopy
      <4> QED BY <2>1, <2>2, <2>3, <3>2, <4>1, <4>3, <4>4
    <3> QED BY <2>1, <3>1, <3>2
  <2> QED BY <2>4, Zenon DEF k
<1>2. ASSUME NEW d \in 0..(num - 1)
      PROVE  c[Slot(writer + d)] = src[from + d]
  <2>1. d \in 0..(PipeLen - 1) /\ d < num
    OBVIOUS
  <2> QED BY <1>1, <2>1, Zenon
<1>3. ASSUME NEW d \in num..(PipeLen - 1)
      PROVE  c[Slot(writer + d)] = b[Slot(writer + d)]
  <2>1. d \in 0..(PipeLen - 1) /\ ~(d < num)
    OBVIOUS
  <2> QED BY <1>1, <2>1, Zenon
<1> HIDE DEF c
<1> QED BY <1>2, <1>3, Zenon DEF Filled, c

\* p is the part of s that follows its first a elements, of length m, and
\* c is s followed by p: what SubSeq and \o give, as the steps use it.
IsPart(p, s, a, m, S) ==
  /\ p \in Seq(S)
  /\ Len(p) = m
  /\ \A d \in 1..m : p[d] = s[a + d]

IsConcat(c, s, p, S) ==
  /\ c \in Seq(S)
  /\ Len(c) = Len(s) + Len(p)
  /\ \A i \in 1..Len(s) : c[i] = s[i]
  /\ \A d \in 1..Len(p) : c[Len(s) + d] = p[d]

\* SubSeq gives the part it should: what WAdd commits of a message.
LEMMA PartOf ==
  ASSUME NEW S, NEW s \in Seq(S), NEW a \in Nat, NEW m \in Nat,
         a + m <= Len(s)
  PROVE  IsPart(SubSeq(s, a + 1, a + m), s, a, m, S)
<1>1. /\ \A i \in (a + 1)..(a + m) : s[i] \in S
      /\ a + 1 \in Int /\ a + m \in Int
  BY ElementOfSeq
<1> DEFINE p == SubSeq(s, a + 1, a + m)
<1>2. /\ p \in Seq(S)
      /\ Len(p) = IF a + 1 <= a + m THEN (a + m) - (a + 1) + 1 ELSE 0
      /\ \A d \in 1..((a + m) - (a + 1) + 1) : p[d] = s[(a + 1) + d - 1]
  BY <1>1, SubSeqProperties
<1> HIDE DEF p
<1>3. ASSUME NEW d \in 1..m
      PROVE  p[d] = s[a + d]
  BY <1>2, (a + 1) + d - 1 = a + d, (a + m) - (a + 1) + 1 = m, Zenon
<1>4. Len(p) = m
  BY <1>2
<1> QED BY <1>2, <1>3, <1>4, Zenon DEF p, IsPart

\* Concatenation keeps both parts: the histories grow at their end.
LEMMA Appended ==
  ASSUME NEW S, NEW s \in Seq(S), NEW p \in Seq(S)
  PROVE  IsConcat(s \o p, s, p, S)
<1> DEFINE c == s \o p
<1>1. /\ c \in Seq(S)
      /\ Len(c) = Len(s) + Len(p)
      /\ \A i \in 1..(Len(s) + Len(p)) :
           c[i] = IF i <= Len(s) THEN s[i] ELSE p[i - Len(s)]
  BY ConcatProperties, Zenon
<1> HIDE DEF c
<1>2. Len(s) \in Nat /\ Len(p) \in Nat
  OBVIOUS
<1>3. \A i \in 1..Len(s) : c[i] = s[i]
  BY <1>1, <1>2
<1>4. ASSUME NEW d \in 1..Len(p)
      PROVE  c[Len(s) + d] = p[d]
  BY <1>1, <1>2, Len(s) + d \in 1..(Len(s) + Len(p)), ~(Len(s) + d <= Len(s)),
     Len(s) + d - Len(s) = d
<1> QED BY <1>1, <1>3, <1>4, Zenon DEF c, IsConcat

\* The addition to pipe->writer commits the next units of the writer's message.
LEMMA Committed ==
  ASSUME IInv, NEW w \in Writers, WAdd(w)
  PROVE  /\ sent' \in Seq(Unit)
         /\ Len(sent') = Len(sent) + n[w]
         /\ \A i \in 1..Len(sent) : sent'[i] = sent[i]
         /\ \A d \in 1..n[w] : sent'[Len(sent) + d] = Message(w)[pos[w] + d]
<1> USE PipeAssumption
<1>1. /\ n[w] \in Nat /\ pos[w] \in Nat /\ pos[w] + n[w] <= MsgLen
      /\ calls[w] > 0 /\ calls[w] \in 0..MaxCalls /\ sent \in Seq(Unit)
  BY DEF IInv, TypeOK, WriterInv, WAdd, At, Threads
<1> DEFINE part == SubSeq(Message(w), pos[w] + 1, pos[w] + n[w])
<1>2. /\ part \in Seq(Unit) /\ Len(part) = n[w]
      /\ \A d \in 1..n[w] : part[d] = Message(w)[pos[w] + d]
  <2>1. Message(w) \in Seq(Unit) /\ Len(Message(w)) = MsgLen
    <3>1. calls[w] \in 1..MaxCalls
      BY <1>1
    <3>2. Message(w) \in [1..MsgLen -> Unit]
      BY <3>1, Zenon DEF Message, Unit
    <3> QED BY <3>2, MsgLen \in Nat
  <2>2. pos[w] + n[w] <= Len(Message(w))
    BY <1>1, <2>1, Zenon
  <2> HIDE PipeAssumption
  <2>3. IsPart(SubSeq(Message(w), pos[w] + 1, pos[w] + n[w]),
               Message(w), pos[w], n[w], Unit)
    BY <1>1, <2>1, <2>2, PartOf, Zenon
  <2> QED BY <2>3, Zenon DEF IsPart
<1> HIDE DEF part
<1>3. sent' = sent \o part
  BY Zenon DEF WAdd, part
<1>4. IsConcat(sent \o part, sent, part, Unit)
  BY <1>1, <1>2, Appended, Zenon
<1> QED BY <1>2, <1>3, <1>4, Zenon DEF IsConcat

\* mcopy writes only what it is given.
LEMMA MCopyType ==
  ASSUME PipeLen \in Nat \ {0},
         NEW b \in [0..(PipeLen - 1) -> Cell],
         NEW src, NEW from \in Nat, NEW off \in Nat, NEW num \in Nat,
         \A d \in 0..(num - 1) : src[from + d] \in Cell
  PROVE  MCopy(b, off, src, from, num) \in [0..(PipeLen - 1) -> Cell]
<1>1. ASSUME NEW k \in 0..(PipeLen - 1)
      PROVE  (IF off <= k /\ k < off + num THEN src[from + (k - off)] ELSE b[k])
               \in Cell
  <2>1. CASE off <= k /\ k < off + num
    BY <2>1, k - off \in 0..(num - 1), SMTT(30)
  <2>2. CASE ~(off <= k /\ k < off + num)
    BY <2>2, Zenon
  <2> QED BY <2>1, <2>2, Zenon
<1> QED BY <1>1, Zenon DEF MCopy

\* A store keeps the buffer a buffer.
LEMMA StoreType ==
  ASSUME PipeLen \in Nat \ {0}, writer \in Nat,
         NEW b \in [0..(PipeLen - 1) -> Cell],
         NEW src, NEW from \in Nat, NEW num \in 0..PipeLen,
         \A d \in 0..(num - 1) : src[from + d] \in Cell
  PROVE  Store(b, src, from, num) \in [0..(PipeLen - 1) -> Cell]
<1> DEFINE off == Slot(writer)
<1>1. off \in 0..(PipeLen - 1) /\ off \in Nat /\ num \in Nat
  BY SlotRange
<1> HIDE DEF off
<1>2. CASE PipeLen - off >= num
  <2>1. MCopy(b, off, src, from, num) \in [0..(PipeLen - 1) -> Cell]
    BY <1>1, MCopyType, Zenon
  <2> QED BY <1>2, <2>1, Zenon DEF Store, off
<1>3. CASE PipeLen - off < num
  <2> DEFINE left == PipeLen - off
             c == MCopy(b, off, src, from, left)
  <2>1. left \in Nat /\ num - left \in Nat /\ from + left \in Nat
    BY <1>1, <1>3
  <2>2. \A d \in 0..(left - 1) : src[from + d] \in Cell
    BY <1>1, <1>3
  <2>3. ASSUME NEW d \in 0..(num - left - 1)
        PROVE  src[from + left + d] \in Cell
    BY <1>1, <1>3, left + d \in 0..(num - 1), from + (left + d) = from + left + d, Zenon
  <2> HIDE DEF left
  <2>4. c \in [0..(PipeLen - 1) -> Cell]
    BY <1>1, <2>1, <2>2, MCopyType, Zenon
  <2> HIDE DEF c
  <2>5. MCopy(c, 0, src, from + left, num - left) \in [0..(PipeLen - 1) -> Cell]
    BY <2>1, <2>3, <2>4, MCopyType, Zenon
  <2> QED BY <1>1, <1>3, <2>5 DEF Store, off, left, c
<1> QED BY <1>1, <1>2, <1>3

\* f is the num units that follow reader in b.
Fetched(f, b, num) ==
  /\ f \in Seq(Cell)
  /\ Len(f) = num
  /\ \A k \in 1..num : f[k] = b[Slot(reader + (k - 1))]

\* __xpipe_read copies the slots that follow reader, across the end.
LEMMA FetchAt ==
  ASSUME PipeLen \in Nat \ {0}, reader \in Nat,
         NEW b \in [0..(PipeLen - 1) -> Cell], NEW num \in 0..PipeLen
  PROVE  Fetched(Fetch(b, num), b, num)
<1> DEFINE off == Slot(reader)
<1>1. off \in 0..(PipeLen - 1)
  BY SlotRange, Zenon
<1>2. ASSUME NEW k \in 1..num
      PROVE  /\ Fetch(b, num)[k] = b[Slot(reader + (k - 1))]
             /\ Fetch(b, num)[k] \in Cell
  <2>1. Slot(reader + (k - 1)) =
          IF off + (k - 1) < PipeLen THEN off + (k - 1) ELSE off + (k - 1) - PipeLen
    BY k - 1 \in 0..PipeLen, SlotAdd, Zenon
  <2>2. Fetch(b, num)[k] = IF k <= PipeLen - off THEN b[off + (k - 1)]
                                                ELSE b[k - 1 - (PipeLen - off)]
    BY Zenon DEF Fetch
  <2> HIDE DEF off
  <2> QED BY <1>1, <2>1, <2>2
<1>3. Fetch(b, num) = [k \in 1..num |-> Fetch(b, num)[k]]
  BY Zenon DEF Fetch
<1>4. Fetch(b, num) \in [1..num -> Cell]
  BY <1>2, <1>3, Zenon
<1>5. Fetch(b, num) \in Seq(Cell) /\ Len(Fetch(b, num)) = num
  BY <1>4, num \in Nat
<1> QED BY <1>2, <1>5, Zenon DEF Fetched

=============================================================================
