----------------------------- MODULE XPipeMoves -----------------------------
(***************************************************************************)
(* The steps of __xpipe_write and __xpipe_read, the ones that move data,   *)
(* keep the invariant.                                                     *)
(***************************************************************************)
EXTENDS XPipeRing

(* __xpipe_write *)

\* The size a writer computes is at most the room, and the room can only grow
\* while it holds wlock.
LEMMA WSizeStep ==
  ASSUME IInv, NEW w \in Writers, WSize(w)
  PROVE  IInv'
<1> USE PipeAssumption DEF IInv, Threads, At, Goto, ring, flags, hist
<1>a. /\ ~freed
      /\ pc[w] = "w_size"
      /\ \A r \in Readers : r # w
  BY Zenon DEF WSize, FreedInv
<1>b. /\ n'[w] \in 0..MsgLen
      /\ n'[w] <= Writable
      /\ pos[w] + n'[w] <= MsgLen
      /\ \A t \in Threads : t # w => n'[t] = n[t]
  <2>1. /\ n'[w] = Least(Writable, MsgLen - pos[w])
        /\ \A t \in Threads : t # w => n'[t] = n[t]
    BY Zenon DEF WSize, TypeOK
  <2>2. /\ writer \in Nat /\ reader \in Nat
        /\ pos[w] \in 0..MsgLen
    BY Zenon DEF TypeOK
  <2>3. Readable <= PipeLen
    BY <1>a, Zenon DEF RingInv
  <2>4. Writable \in Int /\ 0 <= Writable
    BY <2>2, <2>3 DEF Writable, Readable
  <2> HIDE DEF IInv
  <2> QED BY <2>1, <2>2, <2>4 DEF Least
<1>c. /\ pc'[w] \in {"w_copy", "w_unlock"}
      /\ \A t \in Threads : t # w => pc'[t] = pc[t]
  BY Zenon DEF WSize, TypeOK
<1>1. TypeOK'
  <2>1. n' \in [Threads -> 0..MsgLen]
    BY <1>b, SMTT(30) DEF WSize, TypeOK
  <2>2. pc' \in [Threads -> WLabels \cup RLabels]
    BY Zenon DEF WSize, TypeOK, WLabels
  <2> QED BY <2>1, <2>2, SMTT(30) DEF WSize, TypeOK
<1>2. LockInv'
  BY <1>a, <1>c, ZenonT(60) DEF WSize, LockInv, WLabels, WHold
<1>3. WriterInv'
  <2> SUFFICES ASSUME NEW v \in Writers
               PROVE  WriterInv!(v)'
    BY Zenon DEF WriterInv
  <2>1. CASE v = w
    BY <1>a, <1>b, <1>c, <2>1, Zenon DEF WSize, WriterInv, Writable
  <2>2. CASE v # w
    <3>1. Message(v)' = Message(v)
      BY Zenon DEF WSize, Message
    <3> QED BY <1>b, <1>c, <2>2, <3>1 DEF WSize, WriterInv, Writable
  <2> QED BY <2>1, <2>2, Zenon
<1>4. ReaderInv'
  BY <1>a, <1>b, <1>c DEF WSize, ReaderInv, Readable
<1>5. RingInv' /\ FifoInv' /\ FreedInv'
  BY <1>a, Zenon DEF WSize, RingInv, FifoInv, FreedInv, Readable
<1> QED BY <1>1, <1>2, <1>3, <1>4, <1>5, Zenon

\* The copy fills free slots only: what is unread stays as it was.
LEMMA WCopyStep ==
  ASSUME IInv, NEW w \in Writers, WCopy(w)
  PROVE  IInv'
<1> USE PipeAssumption DEF IInv, Threads, At, Goto, ring, flags, hist
<1>a. /\ ~freed
      /\ pc[w] = "w_copy"
      /\ \A r \in Readers : r # w
  BY Zenon DEF WCopy, FreedInv
<1>b. /\ pc'[w] = "w_add"
      /\ \A t \in Threads : t # w => pc'[t] = pc[t]
  BY Zenon DEF WCopy, TypeOK
<1>c. /\ writer \in Nat /\ reader \in Nat
      /\ 0 <= Readable /\ Readable <= PipeLen
      /\ n[w] \in 0..PipeLen /\ n[w] <= Writable
      /\ pos[w] + 1 \in Nat /\ n[w] \in Nat /\ pos[w] \in Nat
      /\ pos[w] + n[w] <= MsgLen
      /\ calls[w] > 0 /\ calls[w] \in 0..MaxCalls
  <2>1. /\ writer \in Nat /\ reader \in Nat
        /\ n[w] \in 0..MsgLen /\ pos[w] \in 0..MsgLen /\ calls[w] \in 0..MaxCalls
    BY Zenon DEF TypeOK
  <2>2. 0 <= Readable /\ Readable <= PipeLen
    BY <1>a, Zenon DEF RingInv
  <2>3. n[w] <= Writable /\ pos[w] + n[w] <= MsgLen /\ calls[w] > 0
    BY <1>a, Zenon DEF WriterInv
  <2> HIDE DEF IInv
  <2> QED BY <2>1, <2>2, <2>3 DEF Readable, Writable
<1>d. /\ \A d \in 0..(n[w] - 1) :
           buf'[Slot(writer + d)] = Message(w)[pos[w] + 1 + d]
      /\ \A d \in n[w]..(PipeLen - 1) :
           buf'[Slot(writer + d)] = buf[Slot(writer + d)]
  <2>1. /\ buf' = Store(buf, Message(w), pos[w] + 1, n[w])
        /\ DOMAIN buf = 0..(PipeLen - 1)
    BY Zenon DEF WCopy, TypeOK
  <2>2. PipeLen \in Nat \ {0}
    OBVIOUS
  <2> HIDE PipeAssumption DEF IInv
  <2>3. Filled(Store(buf, Message(w), pos[w] + 1, n[w]),
               buf, Message(w), pos[w] + 1, n[w])
    BY <1>c, <2>1, <2>2, StoreAt, Zenon
  <2> QED BY <2>1, <2>3, Zenon DEF Filled
<1>e. \A v \in Writers : Message(v)' = Message(v)
  BY Zenon DEF WCopy, Message
<1>1. TypeOK'
  <2>1. \A d \in 0..(n[w] - 1) : Message(w)[(pos[w] + 1) + d] \in Cell
    <3> SUFFICES ASSUME NEW d \in 0..(n[w] - 1)
                 PROVE  Message(w)[(pos[w] + 1) + d] \in Cell
      OBVIOUS
    <3>1. (pos[w] + 1) + d \in 1..MsgLen /\ calls[w] \in 1..MaxCalls
      BY <1>c
    <3> QED BY <3>1, Zenon DEF Message, Cell, Unit
  <2>2. buf' \in [0..(PipeLen - 1) -> Cell]
    BY <1>c, <2>1, StoreType, Zenon DEF WCopy, TypeOK
  <2>3. pc' \in [Threads -> WLabels \cup RLabels]
    BY Zenon DEF WCopy, TypeOK, WLabels
  <2> QED BY <2>2, <2>3, SMTT(30) DEF WCopy, TypeOK
<1>2. LockInv'
  BY <1>a, <1>b, Zenon DEF WCopy, LockInv, WLabels, WHold
<1>3. WriterInv'
  <2> SUFFICES ASSUME NEW v \in Writers
               PROVE  WriterInv!(v)'
    BY Zenon DEF WriterInv
  <2>1. CASE v = w
    <3>1. \A d \in 0..(n[w] - 1) :
            buf'[Slot(writer + d)] = Message(w)[pos[w] + 1 + d]
      BY <1>c, <1>d, Zenon
    <3> QED BY <1>a, <1>b, <1>c, <1>e, <2>1, <3>1, SMTT(30) DEF WCopy, WriterInv, Writable
  <2>2. CASE v # w
    <3>1. pc[v] # "w_add"
      BY <1>a, <2>2, Zenon DEF LockInv, WHold
    <3> QED BY <1>b, <2>2, <3>1, Zenon DEF WCopy, WriterInv, Writable
  <2> QED BY <2>1, <2>2, Zenon
<1>4. ReaderInv'
  BY <1>a, <1>b, ZenonT(60) DEF WCopy, ReaderInv, Readable
<1>5. RingInv'
  <2>1. ASSUME NEW i \in reader..(writer - 1)
        PROVE  buf'[Slot(i)] = sent[i + 1]
    <3>1. /\ i + PipeLen - writer \in n[w]..(PipeLen - 1)
          /\ writer + (i + PipeLen - writer) = i + PipeLen
          /\ i \in Nat
      BY <1>c DEF Readable, Writable
    <3>2. Slot(i + PipeLen) = Slot(i)
      <4>1. Slot(i) \in 0..(PipeLen - 1)
        BY <3>1, SlotRange, Zenon
      <4> QED BY <3>1, <4>1, SlotAdd, PipeLen \in 0..PipeLen
    <3>3. buf'[Slot(i)] = buf[Slot(i)]
      BY <1>c, <1>d, <3>1, <3>2, Zenon
    <3> QED BY <1>a, <3>3, Zenon DEF RingInv
  <2> QED BY <1>a, <2>1, Zenon DEF WCopy, RingInv, Readable
<1>6. FifoInv' /\ FreedInv'
  BY <1>a, Zenon DEF WCopy, FifoInv, FreedInv
<1> QED BY <1>1, <1>2, <1>3, <1>4, <1>5, <1>6, Zenon

\* Moving pipe->writer commits exactly the part that was copied.
LEMMA WAddStep ==
  ASSUME IInv, NEW w \in Writers, WAdd(w)
  PROVE  IInv'
<1> USE PipeAssumption DEF IInv, Threads, At, Goto, ring, flags, hist
<1>a. /\ ~freed
      /\ pc[w] = "w_add"
      /\ \A r \in Readers : r # w
  BY Zenon DEF WAdd, FreedInv
<1>u. /\ writer' = writer + n[w]
      /\ UNCHANGED <<reader, buf, wlock, rlock, breaker, pos, n, rbuf, calls,
                     recvd, freed>>
  BY Zenon DEF WAdd
<1>b. /\ pc'[w] = "w_unlock"
      /\ \A t \in Threads : t # w => pc'[t] = pc[t]
  BY Zenon DEF WAdd, TypeOK
<1>c. /\ writer \in Nat /\ reader \in Nat
      /\ 0 <= Readable /\ Readable <= PipeLen
      /\ n[w] <= Writable
      /\ n[w] \in Nat /\ pos[w] \in Nat
      /\ pos[w] + n[w] <= MsgLen
      /\ calls[w] > 0 /\ calls[w] \in 0..MaxCalls
  <2>1. /\ writer \in Nat /\ reader \in Nat
        /\ n[w] \in 0..MsgLen /\ pos[w] \in 0..MsgLen /\ calls[w] \in 0..MaxCalls
    BY Zenon DEF TypeOK
  <2>2. 0 <= Readable /\ Readable <= PipeLen
    BY <1>a, Zenon DEF RingInv
  <2>3. n[w] <= Writable /\ pos[w] + n[w] <= MsgLen /\ calls[w] > 0
    BY <1>a, Zenon DEF WriterInv
  <2> HIDE DEF IInv
  <2> QED BY <2>1, <2>2, <2>3 DEF Readable, Writable
<1>f. /\ Len(sent) = writer /\ Len(recvd) = reader
      /\ sent \in Seq(Unit) /\ recvd \in Seq(Cell)
  BY <1>a, Zenon DEF TypeOK, RingInv
<1>e. /\ sent' \in Seq(Unit)
      /\ Len(sent') = writer + n[w]
      /\ \A i \in 1..writer : sent'[i] = sent[i]
      /\ \A d \in 1..n[w] : sent'[writer + d] = Message(w)[pos[w] + d]
  BY <1>f, Committed, Zenon
<1>1. TypeOK'
  <2>1. pc' \in [Threads -> WLabels \cup RLabels]
    BY Zenon DEF WAdd, TypeOK, WLabels
  <2>2. writer' \in Nat
    BY <1>c, <1>u
  <2> QED BY <1>e, <2>1, <2>2, Zenon DEF WAdd, TypeOK
<1>2. LockInv'
  BY <1>a, <1>b, Zenon DEF WAdd, LockInv, WLabels, WHold
<1>3. WriterInv'
  <2> SUFFICES ASSUME NEW v \in Writers
               PROVE  WriterInv!(v)'
    BY Zenon DEF WriterInv
  <2>1. CASE v = w
    BY <1>a, <1>b, <1>c, <2>1, <1>u, Zenon DEF WriterInv
  <2>2. CASE v # w
    <3>1. pc[v] \notin {"w_copy", "w_add"}
      BY <1>a, <2>2, Zenon DEF LockInv, WHold
    <3> QED BY <1>b, <2>2, <3>1, <1>u, Zenon DEF WriterInv
  <2> QED BY <2>1, <2>2, Zenon
<1>4. ReaderInv'
  <2> SUFFICES ASSUME NEW r \in Readers
               PROVE  ReaderInv!(r)'
    BY Zenon DEF ReaderInv
  <2>1. /\ pc'[r] = pc[r]
        /\ Readable' = Readable + n[w]
        /\ n[r] \in Nat
    <3>1. n[r] \in 0..MsgLen
      BY Zenon DEF TypeOK
    <3>3. pc'[r] = pc[r]
      BY <1>a, <1>b, Zenon
    <3>2. Readable' = Readable + n[w]
      BY <1>c, <1>u DEF Readable
    <3> QED BY <3>1, <3>2, <3>3
  <2>2. pc[r] = "r_add" =>
          \A d \in 1..n[r] : rbuf[r][pos[r] + d] = sent'[reader + d]
    BY <1>c, <1>f, <1>e, <2>1, SMTT(30) DEF ReaderInv, Readable
  <2>3. Readable \in Int
    BY <1>c DEF Readable
  <2>4. ReaderInv!(r)
    BY DEF ReaderInv
  <2> HIDE DEF IInv
  <2> QED BY <1>c, <2>1, <2>2, <2>3, <2>4, <1>u
<1>5. RingInv'
  <2>1. ASSUME NEW i \in reader'..(writer' - 1)
        PROVE  buf'[Slot(i)] = sent'[i + 1]
    <3>1. CASE i < writer
      <4>1. i \in reader..(writer - 1) /\ i + 1 \in 1..writer
        BY <1>c, <1>u, <3>1
      <4>2. buf[Slot(i)] = sent[i + 1]
        BY <1>a, <4>1, Zenon DEF RingInv
      <4> QED BY <1>e, <1>u, <4>1, <4>2, Zenon
    <3>2. CASE i >= writer
      <4>1. /\ i - writer \in 0..(n[w] - 1)
            /\ writer + (i - writer) = i
            /\ pos[w] + 1 + (i - writer) = pos[w] + (i - writer + 1)
            /\ writer + (i - writer + 1) = i + 1
            /\ i - writer + 1 \in 1..n[w]
        BY <1>c, <3>2, <1>u
      <4>2. buf[Slot(i)] = Message(w)[pos[w] + (i - writer + 1)]
        BY <1>a, <4>1 DEF WriterInv
      <4>3. sent'[i + 1] = Message(w)[pos[w] + (i - writer + 1)]
        BY <1>e, <4>1, ZenonT(30)
      <4> QED BY <4>2, <4>3, <1>u, Zenon
    <3> QED BY <1>c, <3>1, <3>2, <1>u
  <2>2. 0 <= Readable' /\ Readable' <= PipeLen
    BY <1>c, <1>u DEF Readable, Writable
  <2> QED BY <1>c, <1>f, <1>e, <2>1, <2>2, <1>u, SMTT(30) DEF RingInv
<1>6. FifoInv'
  BY <1>c, <1>f, <1>e, <1>u DEF FifoInv, Readable
<1>7. FreedInv'
  BY <1>a, <1>u, Zenon DEF FreedInv
<1> QED BY <1>1, <1>2, <1>3, <1>4, <1>5, <1>6, <1>7, Zenon

\* A writer that gives wlock back has accounted for its part.
LEMMA WUnlockStep ==
  ASSUME IInv, NEW w \in Writers, WUnlock(w)
  PROVE  IInv'
<1> USE PipeAssumption DEF IInv, Threads, At, Goto, ring, flags, hist
<1>a. /\ ~freed
      /\ pc[w] = "w_unlock"
      /\ \A r \in Readers : r # w
  BY Zenon DEF WUnlock, FreedInv
<1>b. /\ pc'[w] \in {"w_mutex", "w_signal"}
      /\ \A t \in Threads : t # w => pc'[t] = pc[t]
      /\ pos'[w] = pos[w] + n[w] /\ n'[w] = 0
      /\ \A t \in Threads : t # w => pos'[t] = pos[t] /\ n'[t] = n[t]
  BY Zenon DEF WUnlock, TypeOK
<1>c. pos[w] + n[w] \in 0..MsgLen /\ calls[w] > 0
  BY <1>a, SMTT(30) DEF TypeOK, WriterInv
<1>1. TypeOK'
  <2>1. pc' \in [Threads -> WLabels \cup RLabels]
    BY Zenon DEF WUnlock, TypeOK, WLabels
  <2>2. pos' \in [Threads -> 0..MsgLen] /\ n' \in [Threads -> 0..MsgLen]
    BY <1>c, SMTT(30) DEF WUnlock, TypeOK
  <2> QED BY <2>1, <2>2, Zenon DEF WUnlock, TypeOK
<1>2. LockInv'
  <2>1. \A v \in Writers : pc'[v] \in WLabels /\ pc'[v] \notin WHold
    BY <1>a, <1>b, Zenon DEF LockInv, WLabels, WHold
  <2> QED BY <1>a, <1>b, <2>1, Zenon DEF WUnlock, LockInv
<1>3. WriterInv'
  <2> SUFFICES ASSUME NEW v \in Writers
               PROVE  WriterInv!(v)'
    BY Zenon DEF WriterInv
  <2>1. CASE v = w
    BY <1>a, <1>b, <1>c, <2>1 DEF WUnlock, WriterInv
  <2>2. CASE v # w
    <3>1. Message(v)' = Message(v)
      BY Zenon DEF WUnlock, Message
    <3> QED BY <1>b, <2>2, <3>1 DEF WUnlock, WriterInv, Writable
  <2> QED BY <2>1, <2>2, Zenon
<1>4. ReaderInv'
  BY <1>a, <1>b DEF WUnlock, ReaderInv, Readable
<1>5. RingInv' /\ FifoInv' /\ FreedInv'
  BY <1>a, Zenon DEF WUnlock, RingInv, FifoInv, FreedInv, Readable
<1> QED BY <1>1, <1>2, <1>3, <1>4, <1>5, Zenon

----------------------------------------------------------------------------
(* __xpipe_read *)

\* What a reader finds behind reader is what was sent there.
LEMMA FetchSent ==
  ASSUME IInv, ~freed, PipeLen \in Nat \ {0},
         NEW num \in 0..Readable
  PROVE  /\ Fetch(buf, num) \in Seq(Cell)
         /\ Len(Fetch(buf, num)) = num
         /\ \A d \in 1..num : Fetch(buf, num)[d] = sent[reader + d]
<1>1. /\ reader \in Nat /\ writer \in Nat /\ num \in 0..PipeLen
      /\ buf \in [0..(PipeLen - 1) -> Cell]
      /\ Readable = writer - reader
  BY DEF IInv, TypeOK, RingInv, Readable
<1> DEFINE f == Fetch(buf, num)
<1>2. Fetched(f, buf, num)
  BY <1>1, FetchAt, Zenon
<1> HIDE DEF f
<1>3. ASSUME NEW d \in 1..num
      PROVE  f[d] = sent[reader + d]
  <2>1. reader + (d - 1) \in reader..(writer - 1) /\ reader + (d - 1) + 1 = reader + d
    BY <1>1
  <2>2. buf[Slot(reader + (d - 1))] = sent[reader + d]
    BY <2>1, Zenon DEF IInv, RingInv
  <2> QED BY <1>2, <2>2, Zenon DEF Fetched
<1> QED BY <1>2, <1>3, Zenon DEF f, Fetched

\* The size a reader computes is at most what is unread, which can only grow
\* while it holds rlock.
LEMMA RSizeStep ==
  ASSUME IInv, NEW r \in Readers, RSize(r)
  PROVE  IInv'
<1> USE PipeAssumption DEF IInv, Threads, At, Goto, ring, flags, hist
<1>a. /\ ~freed
      /\ pc[r] = "r_size"
      /\ \A w \in Writers : r # w
  BY Zenon DEF RSize, FreedInv
<1>b. /\ n'[r] \in 0..MsgLen
      /\ n'[r] <= Readable
      /\ n'[r] > 0 \/ n'[r] = 0
      /\ pos[r] + n'[r] <= MsgLen
      /\ \A t \in Threads : t # r => n'[t] = n[t]
  <2>1. /\ n'[r] = Least(Readable, MsgLen - pos[r])
        /\ \A t \in Threads : t # r => n'[t] = n[t]
    BY Zenon DEF RSize, TypeOK
  <2>2. /\ Readable \in Int /\ 0 <= Readable
        /\ pos[r] \in 0..MsgLen
    BY <1>a DEF TypeOK, RingInv, Readable
  <2> HIDE DEF IInv
  <2> QED BY <2>1, <2>2 DEF Least
<1>c. /\ pc'[r] = IF n'[r] > 0 THEN "r_copy" ELSE "r_unlock"
      /\ \A t \in Threads : t # r => pc'[t] = pc[t]
  BY Zenon DEF RSize, TypeOK
<1>1. TypeOK'
  <2>1. n' \in [Threads -> 0..MsgLen]
    BY <1>b, SMTT(30) DEF RSize, TypeOK
  <2>2. pc' \in [Threads -> WLabels \cup RLabels]
    BY Zenon DEF RSize, TypeOK, RLabels
  <2> QED BY <2>1, <2>2, SMTT(30) DEF RSize, TypeOK
<1>2. LockInv'
  BY <1>a, <1>c, Zenon DEF RSize, LockInv, RLabels, RHold
<1>3. WriterInv'
  <2>1. \A w \in Writers : Message(w)' = Message(w)
    BY Zenon DEF RSize, Message
  <2> QED BY <1>a, <1>b, <1>c, <2>1 DEF RSize, WriterInv, Writable
<1>4. ReaderInv'
  <2> SUFFICES ASSUME NEW q \in Readers
               PROVE  ReaderInv!(q)'
    BY Zenon DEF ReaderInv
  <2>1. CASE q = r
    <3>1. n[r] = 0 /\ Len(rbuf[r]) = pos[r] /\ pos[r] \in Nat
      <4>1. ReaderInv!(r) /\ pos[r] \in 0..MsgLen
        BY SMTT(30) DEF ReaderInv, TypeOK
      <4> HIDE DEF IInv
      <4> QED BY <1>a, <4>1
    <3> HIDE DEF IInv
    <3> QED BY <1>a, <1>b, <1>c, <2>1, <3>1 DEF RSize, Readable
  <2>2. CASE q # r
    <3>1. ReaderInv!(q)
      BY Zenon DEF ReaderInv
    <3>2. pc'[q] = pc[q] /\ n'[q] = n[q]
      BY <1>b, <1>c, <2>2, Zenon
    <3> HIDE DEF IInv
    <3> QED BY <3>1, <3>2, Zenon DEF RSize, Readable
  <2> QED BY <2>1, <2>2, Zenon
<1>5. RingInv' /\ FifoInv' /\ FreedInv'
  BY <1>a, Zenon DEF RSize, RingInv, FifoInv, FreedInv, Readable
<1> QED BY <1>1, <1>2, <1>3, <1>4, <1>5, Zenon

\* A reader copies out what was sent at its place.
LEMMA RCopyStep ==
  ASSUME IInv, NEW r \in Readers, RCopy(r)
  PROVE  IInv'
<1> USE PipeAssumption DEF IInv, Threads, At, Goto, ring, flags, hist
<1>a. /\ ~freed
      /\ pc[r] = "r_copy"
      /\ \A w \in Writers : r # w
  BY Zenon DEF RCopy, FreedInv
<1>b. /\ pc'[r] = "r_add"
      /\ \A t \in Threads : t # r => pc'[t] = pc[t]
  BY Zenon DEF RCopy, TypeOK
<1>u. UNCHANGED <<writer, reader, buf, breaker, wlock, rlock, pos, n, calls,
                  sent, recvd, freed>>
  BY Zenon DEF RCopy
<1>c. /\ n[r] \in 0..Readable /\ pos[r] \in Nat /\ n[r] \in Nat
      /\ rbuf[r] \in Seq(Cell) /\ Len(rbuf[r]) = pos[r]
  BY <1>a DEF TypeOK, ReaderInv, Readable
<1> DEFINE got == Fetch(buf, n[r])
<1>d. /\ got \in Seq(Cell) /\ Len(got) = n[r]
      /\ \A d \in 1..n[r] : got[d] = sent[reader + d]
  <2> HIDE DEF IInv
  <2> QED BY <1>a, <1>c, FetchSent, Zenon
<1> HIDE DEF got
<1>e. /\ rbuf'[r] \in Seq(Cell)
      /\ Len(rbuf'[r]) = pos[r] + n[r]
      /\ \A d \in 1..n[r] : rbuf'[r][pos[r] + d] = sent[reader + d]
  <2>1. rbuf'[r] = rbuf[r] \o got
    BY SMTT(30) DEF RCopy, TypeOK, got
  <2> HIDE PipeAssumption DEF IInv
  <2>2. IsConcat(rbuf[r] \o got, rbuf[r], got, Cell)
    BY <1>c, <1>d, Appended, Zenon
  <2> QED BY <1>c, <1>d, <2>1, <2>2, Zenon DEF IsConcat
<1>f. \A q \in Readers : q # r => rbuf'[q] = rbuf[q]
  BY Zenon DEF RCopy, TypeOK
<1>1. TypeOK'
  <2>1. pc' \in [Threads -> WLabels \cup RLabels]
    BY Zenon DEF RCopy, TypeOK, RLabels
  <2>2. rbuf' \in [Readers -> Seq(Cell)]
    BY <1>e, <1>f, Zenon DEF RCopy, TypeOK
  <2> QED BY <2>1, <2>2, SMTT(30) DEF RCopy, TypeOK
<1>2. LockInv'
  BY <1>a, <1>b, <1>u, Zenon DEF LockInv, RLabels, RHold
<1>3. WriterInv'
  <2>1. \A w \in Writers : Message(w)' = Message(w)
    BY <1>u, Zenon DEF Message
  <2> QED BY <1>a, <1>b, <1>u, <2>1, Zenon DEF WriterInv, Writable
<1>4. ReaderInv'
  <2> SUFFICES ASSUME NEW q \in Readers
               PROVE  ReaderInv!(q)'
    BY Zenon DEF ReaderInv
  <2>1. ReaderInv!(q)
    BY Zenon DEF ReaderInv
  <2>2. CASE q = r
    <3> HIDE DEF IInv
    <3> QED BY <1>a, <1>b, <1>c, <1>e, <1>u, <2>1, <2>2, Zenon DEF Readable
  <2>3. CASE q # r
    <3>1. pc'[q] = pc[q] /\ rbuf'[q] = rbuf[q]
      BY <1>b, <1>f, <2>3, Zenon
    <3> HIDE DEF IInv
    <3> QED BY <1>u, <2>1, <3>1, Zenon DEF Readable
  <2> QED BY <2>2, <2>3, Zenon
<1>5. RingInv' /\ FifoInv' /\ FreedInv'
  BY <1>a, <1>u, Zenon DEF RingInv, FifoInv, FreedInv, Readable
<1> QED BY <1>1, <1>2, <1>3, <1>4, <1>5, Zenon

\* Moving pipe->reader takes exactly the part that was copied out.
LEMMA RAddStep ==
  ASSUME IInv, NEW r \in Readers, RAdd(r)
  PROVE  IInv'
<1> USE PipeAssumption DEF IInv, Threads, At, Goto, ring, flags, hist
<1>a. /\ ~freed
      /\ pc[r] = "r_add"
      /\ \A w \in Writers : r # w
  BY Zenon DEF RAdd, FreedInv
<1>b. /\ pc'[r] = "r_unlock"
      /\ \A t \in Threads : t # r => pc'[t] = pc[t]
  BY Zenon DEF RAdd, TypeOK
<1>u. /\ reader' = reader + n[r]
      /\ UNCHANGED <<writer, buf, breaker, wlock, rlock, pos, n, rbuf, calls,
                     sent, freed>>
  BY Zenon DEF RAdd
<1>c. /\ writer \in Nat /\ reader \in Nat
      /\ Len(sent) = writer /\ Len(recvd) = reader
      /\ sent \in Seq(Unit) /\ recvd \in Seq(Cell)
      /\ n[r] \in 0..MsgLen /\ pos[r] \in 0..MsgLen
      /\ rbuf[r] \in Seq(Cell)
      /\ 0 <= writer - reader /\ writer - reader <= PipeLen
  BY <1>a, Zenon DEF TypeOK, RingInv, Readable
<1>d. /\ Len(rbuf[r]) = pos[r] + n[r]
      /\ n[r] <= writer - reader
      /\ \A d \in 1..n[r] : rbuf[r][pos[r] + d] = sent[reader + d]
  <2>1. ReaderInv!(r)
    BY Zenon DEF ReaderInv
  <2> HIDE DEF IInv
  <2> QED BY <1>a, <2>1, Zenon DEF Readable
<1> DEFINE part == SubSeq(rbuf[r], pos[r] + 1, pos[r] + n[r])
<1>e. /\ part \in Seq(Cell) /\ Len(part) = n[r]
      /\ \A d \in 1..n[r] : part[d] = sent[reader + d]
  <2>1. n[r] \in Nat /\ pos[r] \in Nat /\ pos[r] + n[r] <= Len(rbuf[r])
    BY <1>c, <1>d
  <2> HIDE PipeAssumption DEF IInv
  <2>2. IsPart(SubSeq(rbuf[r], pos[r] + 1, pos[r] + n[r]),
               rbuf[r], pos[r], n[r], Cell)
    BY <1>c, <2>1, PartOf, Zenon
  <2> HIDE DEF part
  <2>3. IsPart(part, rbuf[r], pos[r], n[r], Cell)
    BY <2>2, Zenon DEF part
  <2> QED BY <1>d, <2>3, Zenon DEF IsPart
<1> HIDE DEF part
<1>f. /\ recvd' \in Seq(Cell)
      /\ Len(recvd') = reader + n[r]
      /\ \A i \in 1..reader : recvd'[i] = recvd[i]
      /\ \A d \in 1..n[r] : recvd'[reader + d] = sent[reader + d]
  <2>1. recvd' = recvd \o part
    BY Zenon DEF RAdd, part
  <2> HIDE PipeAssumption DEF IInv
  <2>2. IsConcat(recvd \o part, recvd, part, Cell)
    BY <1>c, <1>e, Appended, Zenon
  <2> QED BY <1>c, <1>e, <2>1, <2>2, Zenon DEF IsConcat
<1>1. TypeOK'
  <2>1. pc' \in [Threads -> WLabels \cup RLabels]
    BY Zenon DEF RAdd, TypeOK, RLabels
  <2>2. reader' \in Nat
    BY <1>c, <1>u
  <2> QED BY <1>f, <2>1, <2>2, Zenon DEF RAdd, TypeOK
<1>2. LockInv'
  BY <1>a, <1>b, <1>u, Zenon DEF LockInv, RLabels, RHold
<1>3. WriterInv'
  <2> SUFFICES ASSUME NEW w \in Writers
               PROVE  WriterInv!(w)'
    BY Zenon DEF WriterInv
  <2>1. Message(w)' = Message(w)
    BY <1>u, Zenon DEF Message
  <2>2. WriterInv!(w) /\ n[w] \in Int
    BY DEF WriterInv, TypeOK
  <2>3. pc'[w] = pc[w]
    BY <1>a, <1>b, Zenon
  <2>4. Writable' \in Int /\ Writable \in Int /\ Writable' >= Writable
    BY <1>c, <1>u DEF Writable
  <2> HIDE DEF IInv
  <2> QED BY <1>u, <2>1, <2>2, <2>3, <2>4
<1>4. ReaderInv'
  <2> SUFFICES ASSUME NEW q \in Readers
               PROVE  ReaderInv!(q)'
    BY Zenon DEF ReaderInv
  <2>1. ReaderInv!(q)
    BY Zenon DEF ReaderInv
  <2>2. CASE q = r
    <3> HIDE DEF IInv
    <3> QED BY <1>a, <1>b, <1>c, <1>u, <2>1, <2>2, Zenon
  <2>3. CASE q # r
    <3>1. pc'[q] = pc[q] /\ pc[q] \notin {"r_copy", "r_add"}
      BY <1>a, <1>b, <2>3, Zenon DEF LockInv, RHold
    <3> HIDE DEF IInv
    <3> QED BY <1>u, <2>1, <3>1, Zenon
  <2> QED BY <2>2, <2>3, Zenon
<1>5. RingInv'
  <2>1. ASSUME NEW i \in reader'..(writer' - 1)
        PROVE  buf'[Slot(i)] = sent'[i + 1]
    <3>1. i \in reader..(writer - 1)
      BY <1>c, <1>u
    <3> QED BY <1>a, <1>u, <3>1, Zenon DEF RingInv
  <2> QED BY <1>c, <1>d, <1>f, <1>u, <2>1, SMTT(30) DEF RingInv, Readable
<1>6. FifoInv'
  <2>1. ASSUME NEW i \in 1..(reader + n[r])
        PROVE  recvd'[i] = sent[i]
    <3>1. CASE i <= reader
      <4>1. i \in 1..reader
        BY <1>c, <3>1
      <4> QED BY <1>c, <1>f, <4>1, Zenon DEF FifoInv
    <3>2. CASE i > reader
      <4>1. i - reader \in 1..n[r] /\ reader + (i - reader) = i
        BY <1>c, <3>2
      <4> HIDE DEF IInv
      <4> QED BY <1>f, <4>1, Zenon
    <3> QED BY <1>c, <3>1, <3>2
  <2>2. Len(recvd') <= Len(sent')
    BY <1>c, <1>d, <1>f, <1>u
  <2> QED BY <1>f, <1>u, <2>1, <2>2, Zenon DEF FifoInv
<1>7. FreedInv'
  BY <1>a, <1>u, Zenon DEF FreedInv
<1> QED BY <1>1, <1>2, <1>3, <1>4, <1>5, <1>6, <1>7, Zenon

\* A reader that gives rlock back has accounted for its part.
LEMMA RUnlockStep ==
  ASSUME IInv, NEW r \in Readers, RUnlock(r)
  PROVE  IInv'
<1> USE PipeAssumption DEF IInv, Threads, At, Goto, ring, flags, hist
<1>a. /\ ~freed
      /\ pc[r] = "r_unlock"
      /\ \A w \in Writers : r # w
  BY Zenon DEF RUnlock, FreedInv
<1>b. /\ pc'[r] \in {"r_mutex", "r_signal"}
      /\ \A t \in Threads : t # r => pc'[t] = pc[t]
      /\ pos'[r] = pos[r] + n[r] /\ n'[r] = 0
      /\ \A t \in Threads : t # r => pos'[t] = pos[t] /\ n'[t] = n[t]
  BY Zenon DEF RUnlock, TypeOK
<1>u. UNCHANGED <<writer, reader, buf, breaker, wlock, rbuf, calls, sent, recvd,
                  freed>>
  BY Zenon DEF RUnlock
<1>c. /\ pos[r] + n[r] \in 0..MsgLen
      /\ Len(rbuf[r]) = pos[r] + n[r]
  <2>1. ReaderInv!(r) /\ pos[r] \in 0..MsgLen /\ n[r] \in 0..MsgLen
    BY SMTT(30) DEF ReaderInv, TypeOK
  <2> HIDE DEF IInv
  <2> QED BY <1>a, <2>1
<1>1. TypeOK'
  <2>1. pc' \in [Threads -> WLabels \cup RLabels]
    BY Zenon DEF RUnlock, TypeOK, RLabels
  <2>2. pos' \in [Threads -> 0..MsgLen] /\ n' \in [Threads -> 0..MsgLen]
    BY <1>c DEF RUnlock, TypeOK
  <2> QED BY <2>1, <2>2, Zenon DEF RUnlock, TypeOK
<1>2. LockInv'
  <2>1. \A q \in Readers : pc'[q] \in RLabels /\ pc'[q] \notin RHold
    BY <1>a, <1>b, Zenon DEF LockInv, RLabels, RHold
  <2> QED BY <1>a, <1>b, <1>u, <2>1, Zenon DEF LockInv
<1>3. WriterInv'
  <2>1. \A w \in Writers : Message(w)' = Message(w)
    BY <1>u, Zenon DEF Message
  <2> QED BY <1>a, <1>b, <1>u, <2>1 DEF WriterInv, Writable
<1>4. ReaderInv'
  <2> SUFFICES ASSUME NEW q \in Readers
               PROVE  ReaderInv!(q)'
    BY Zenon DEF ReaderInv
  <2>1. CASE q = r
    <3> HIDE DEF IInv
    <3> QED BY <1>a, <1>b, <1>c, <1>u, <2>1
  <2>2. CASE q # r
    <3>1. ReaderInv!(q)
      BY Zenon DEF ReaderInv
    <3>2. pc'[q] = pc[q] /\ pos'[q] = pos[q] /\ n'[q] = n[q]
      BY <1>b, <2>2, Zenon
    <3> HIDE DEF IInv
    <3> QED BY <1>u, <3>1, <3>2, Zenon DEF Readable
  <2> QED BY <2>1, <2>2, Zenon
<1>5. RingInv' /\ FifoInv' /\ FreedInv'
  BY <1>a, <1>u, Zenon DEF RingInv, FifoInv, FreedInv, Readable
<1> QED BY <1>1, <1>2, <1>3, <1>4, <1>5, Zenon

=============================================================================
