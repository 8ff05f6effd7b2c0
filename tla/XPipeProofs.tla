---------------------------- MODULE XPipeProofs -----------------------------
(***************************************************************************)
(* The owner of the pipe, the invariance of IInv, the theorems about the   *)
(* pipe that follow from it, and that XPipe implements XQueue: through the *)
(* mapping Content the steps of the threads are steps of a bounded         *)
(* first-in first-out queue.                                               *)
(***************************************************************************)
EXTENDS XPipeControl, XPipeMoves, XPipeWakeup, XPipeMessages

\* xpipe_break and spurious wake-ups touch neither the ring nor a local.
LEMMA BreakStep ==
  ASSUME IInv, Break \/ Spurious \/ Finished
  PROVE  IInv'
<1> USE DEF IInv
<1>1. CASE Break \/ Spurious
  <2>1. /\ UNCHANGED <<writer, reader, buf, wlock, rlock, wblock, rblock, mutex,
                       pc, pos, n, rbuf, calls, sent, recvd, freed>>
        /\ waiting' \subseteq waiting
        /\ breaker' \in BOOLEAN /\ (breaker => breaker')
    BY <1>1, Zenon DEF Break, Spurious, ring, flags, hist, TypeOK
  <2>2. TypeOK'
    BY <2>1, Zenon DEF TypeOK
  <2>3. LockInv' /\ ReaderInv' /\ RingInv' /\ FifoInv' /\ FreedInv'
    BY <2>1, Zenon DEF LockInv, ReaderInv, RingInv, FifoInv, FreedInv, Readable
  <2>4. WriterInv'
    BY <2>1, Zenon DEF WriterInv, Message, Writable
  <2> QED BY <2>2, <2>3, <2>4, Zenon
<1>2. CASE Finished
  <2>1. UNCHANGED <<writer, reader, buf, wlock, rlock, wblock, rblock, mutex,
                    waiting, breaker, pc, pos, n, rbuf, calls, sent, recvd, freed>>
    BY <1>2, Zenon DEF Finished, vars, ring, flags, hist
  <2> QED BY <2>1, SMTT(30) DEF TypeOK, LockInv, WriterInv, ReaderInv, RingInv, FifoInv,
                      FreedInv, Readable, Writable, Message
<1> QED BY <1>1, <1>2, Zenon

\* What Free takes out of the ring.
Left == MsgLen * (Readable \div MsgLen)

\* The owner takes whole messages, in the order sent, out of what is left.
LEMMA FreeTakes ==
  ASSUME IInv, Free
  PROVE  /\ Left \in 0..Readable
         /\ recvd' \in Seq(Cell)
         /\ Len(recvd') = Len(recvd) + Left
         /\ Len(recvd') <= Len(sent)
         /\ \A i \in 1..Len(recvd') : recvd'[i] = sent[i]
<1> USE PipeAssumption
<1>1. /\ ~freed
      /\ recvd' = recvd \o Fetch(buf, Left)
  BY Zenon DEF Free, Clear, Left
<1>2. /\ writer \in Nat /\ reader \in Nat /\ Readable \in Nat
      /\ Readable = writer - reader
      /\ Len(sent) = writer /\ Len(recvd) = reader
      /\ recvd \in Seq(Cell)
  BY <1>1 DEF IInv, TypeOK, RingInv, Readable
<1>3. Left \in 0..Readable
  BY <1>2, MultipleBelow, Zenon DEF Left
<1> DEFINE f == Fetch(buf, Left)
<1>4. /\ f \in Seq(Cell) /\ Len(f) = Left
      /\ \A d \in 1..Left : f[d] = sent[reader + d]
  BY <1>1, <1>3, FetchSent, Zenon
<1> HIDE DEF f
<1>5. IsConcat(recvd \o f, recvd, f, Cell)
  BY <1>2, <1>4, Appended, Zenon
<1>6. /\ recvd' \in Seq(Cell)
      /\ Len(recvd') = reader + Left
      /\ \A i \in 1..reader : recvd'[i] = recvd[i]
      /\ \A d \in 1..Left : recvd'[reader + d] = f[d]
  BY <1>1, <1>2, <1>4, <1>5, Zenon DEF IsConcat, f
<1>7. ASSUME NEW i \in 1..Len(recvd')
      PROVE  recvd'[i] = sent[i]
  <2>1. CASE i <= reader
    <3>1. i \in 1..reader
      BY <1>2, <2>1
    <3>2. recvd[i] = sent[i]
      BY <1>2, <3>1, Zenon DEF IInv, FifoInv
    <3> QED BY <1>6, <3>1, <3>2, Zenon
  <2>2. CASE i > reader
    <3>1. i - reader \in 1..Left /\ reader + (i - reader) = i
      BY <1>2, <1>3, <1>6, <2>2
    <3> QED BY <1>4, <1>6, <3>1, ZenonT(60)
  <2>3. i \in Int
    BY <1>2, <1>3, <1>6
  <2> QED BY <1>2, <2>1, <2>2, <2>3
<1>8. Len(recvd') <= Len(sent)
  BY <1>2, <1>3, <1>6
<1> QED BY <1>2, <1>3, <1>6, <1>7, <1>8, Zenon

\* xpipe_free keeps the invariant.
LEMMA FreeStep ==
  ASSUME IInv, Free
  PROVE  IInv'
<1> USE PipeAssumption
<1>1. /\ UNCHANGED <<buf, wlock, rlock, wblock, rblock, breaker, mutex, waiting,
                     pc, pos, n, rbuf, calls, sent>>
      /\ writer' = 0 /\ reader' = 0 /\ freed' = TRUE /\ breaker
      /\ \A w \in Writers : pc[w] = "idle"
      /\ \A r \in Readers : pc[r] = "exit"
  BY Zenon DEF Free, Clear, flags, At
<1>2. TypeOK'
  BY <1>1, FreeTakes, SMTT(30) DEF IInv, TypeOK
<1>3. LockInv' /\ FreedInv' /\ RingInv'
  BY <1>1, Zenon DEF IInv, LockInv, FreedInv, RingInv
<1>4. WriterInv'
  BY <1>1, Zenon DEF IInv, WriterInv
<1>5. ReaderInv'
  BY <1>1, Zenon DEF IInv, ReaderInv
<1>6. FifoInv'
  BY <1>1, FreeTakes, Zenon DEF FifoInv
<1> QED BY <1>2, <1>3, <1>4, <1>5, <1>6, Zenon DEF IInv

\* A pipe fresh from xpipe_create satisfies the invariant.
LEMMA InitInv ==
  ASSUME Init
  PROVE  IInv
<1> USE PipeAssumption DEF Init
<1>1. TypeOK
  <2>1. buf \in [0..(PipeLen - 1) -> Cell]
    BY Zenon DEF Cell
  <2>2. /\ pc \in [Threads -> WLabels \cup RLabels]
        /\ pos \in [Threads -> 0..MsgLen] /\ n \in [Threads -> 0..MsgLen]
        /\ rbuf \in [Readers -> Seq(Cell)]
        /\ calls \in [Writers -> 0..MaxCalls]
    BY DEF WLabels
  <2>3. sent \in Seq(Unit) /\ recvd \in Seq(Cell)
    BY EmptySeq, Zenon
  <2>4. /\ writer \in Nat /\ reader \in Nat
        /\ breaker \in BOOLEAN /\ freed \in BOOLEAN
        /\ wlock \in BOOLEAN /\ rlock \in BOOLEAN
        /\ wblock \in BOOLEAN /\ rblock \in BOOLEAN
        /\ mutex \in Threads \cup {NoThread} /\ waiting \subseteq Threads
    BY Zenon
  <2> HIDE DEF Init
  <2> QED BY <2>1, <2>2, <2>3, <2>4, Zenon DEF TypeOK
<1>2. LockInv /\ FreedInv
  BY Zenon DEF LockInv, FreedInv, WLabels, RLabels, WHold, RHold, Threads
<1>3. WriterInv /\ ReaderInv
  BY DEF WriterInv, ReaderInv, Threads
<1>4. RingInv /\ FifoInv
  BY DEF RingInv, FifoInv, Readable
<1> QED BY <1>1, <1>2, <1>3, <1>4, Zenon DEF IInv

\* Every step keeps the invariant.
LEMMA NextInv ==
  ASSUME IInv, [Next]_vars
  PROVE  IInv'
<1>1. CASE UNCHANGED vars
  <2>1. UNCHANGED <<writer, reader, buf, wlock, rlock, wblock, rblock, mutex,
                    waiting, breaker, pc, pos, n, rbuf, calls, sent, recvd, freed>>
    BY <1>1, Zenon DEF vars, ring, flags, hist
  <2> QED BY <2>1, SMTT(30) DEF IInv, TypeOK, LockInv, WriterInv, ReaderInv, RingInv,
                      FifoInv, FreedInv, Readable, Writable, Message
<1>2. ASSUME NEW w \in Writers, WCall(w) \/ WStep(w)
      PROVE  IInv'
  BY <1>2, WriterControl, WSizeStep, WCopyStep, WAddStep, WUnlockStep DEF WStep
<1>3. ASSUME NEW r \in Readers, RStep(r)
      PROVE  IInv'
  BY <1>3, ReaderControl, RSizeStep, RCopyStep, RAddStep, RUnlockStep, Zenon DEF RStep
<1>4. CASE Break \/ Spurious \/ Finished
  BY <1>4, BreakStep, Zenon
<1>5. CASE Free
  BY <1>5, FreeStep, Zenon
<1> QED BY <1>1, <1>2, <1>3, <1>4, <1>5, Zenon DEF Next

\* The invariant of the pipe: the flags exclude, a size read earlier is still
\* safe when it is used, and the ring and the histories agree.
THEOREM Invariance == Spec => []IInv
<1>1. Init => IInv
  BY InitInv, Zenon
<1>2. IInv /\ [Next]_vars => IInv'
  BY NextInv, Zenon
<1> QED BY <1>1, <1>2, PTL DEF Spec

\* Every field of the pipe and every local of xpipe_write and xpipe_read keeps
\* its type; no index leaves the buffer.
THEOREM TypeCorrect == Spec => []TypeOK
<1>1. IInv => TypeOK
  BY Zenon DEF IInv
<1> QED BY <1>1, Invariance, PTL

\* No slot is overwritten before it is read, and none is read before it is
\* written: __xpipe_write and __xpipe_read may use counters they read earlier.
THEOREM UnreadIsKept == Spec => []RingHoldsUnread
<1>1. IInv => RingHoldsUnread
  BY Zenon DEF IInv, RingInv, RingHoldsUnread
<1> QED BY <1>1, Invariance, PTL

\* Units come out of the pipe once and in the order in which they were
\* committed, for any number of concurrent readers and writers.
THEOREM Fifo == Spec => []FirstInFirstOut
<1>1. ASSUME IInv
      PROVE  FirstInFirstOut
  <2>1. /\ sent \in Seq(Unit) /\ recvd \in Seq(Cell)
        /\ Len(recvd) \in Nat /\ Len(recvd) <= Len(sent)
        /\ \A i \in 1..Len(recvd) : recvd[i] = sent[i]
    BY <1>1 DEF IInv, TypeOK, FifoInv
  <2>2. sent \in Seq(Cell)
    <3>1. Unit \subseteq Cell
      BY Zenon DEF Cell
    <3> QED BY <2>1, <3>1
  <2>3. IsPart(SubSeq(sent, 0 + 1, 0 + Len(recvd)), sent, 0, Len(recvd), Cell)
    BY <2>1, <2>2, PartOf
  <2> DEFINE p == SubSeq(sent, 1, Len(recvd))
  <2>4. IsPart(p, sent, 0, Len(recvd), Cell)
    BY <2>1, <2>3, 0 + 1 = 1, 0 + Len(recvd) = Len(recvd), Zenon
  <2> HIDE DEF p
  <2>5. /\ p \in Seq(Cell) /\ Len(p) = Len(recvd)
        /\ \A i \in 1..Len(recvd) : p[i] = recvd[i]
    BY <2>1, <2>4 DEF IsPart
  <2>6. recvd = p
    BY <2>1, <2>5, SeqEqual, Zenon
  <2> QED BY <2>1, <2>6, Zenon DEF FirstInFirstOut, p
<1> QED BY <1>1, Invariance, PTL

\* No message committed to the pipe is lost when the pipe is freed: the drain
\* loops of xltp_free and xlio_free take out all that the readers left.
THEOREM NoMessageLeaks == Spec => []NothingLeaks
<1>1. Init => NothingLeaks
  BY Zenon DEF Init, NothingLeaks
<1>2. ASSUME IInv, NothingLeaks, [Next]_vars
      PROVE  NothingLeaks'
  <2>1. CASE Free
    <3>1. /\ Readable \in Nat
          /\ Len(sent) = writer /\ Len(recvd) = reader
          /\ Readable = writer - reader /\ writer \in Nat /\ reader \in Nat
          /\ sent' = sent
      BY <1>2, <2>1 DEF IInv, TypeOK, RingInv, Readable, Free, Clear
    <3>2. Left \in 0..Readable /\ Readable - Left < MsgLen
      BY <3>1, MultipleBelow, PipeAssumption, Zenon DEF Left
    <3>3. Len(recvd') = Len(recvd) + Left
      BY <1>2, <2>1, FreeTakes, Zenon
    <3> QED BY <3>1, <3>2, <3>3 DEF NothingLeaks
  <2>2. CASE ~Free /\ freed
    <3>1. UNCHANGED <<sent, recvd, freed>>
      <4>1. CASE UNCHANGED vars
        BY <4>1, Zenon DEF vars, hist
      <4>2. ASSUME NEW w \in Writers, WCall(w) \/ WStep(w)
            PROVE  FALSE
        BY <1>2, <2>2, <4>2, Zenon DEF IInv, FreedInv, WCall, WStep, At, WLoop, WTry,
           WSize, WCopy, WAdd, WUnlock, WMutex, WCheck, WBlock, WFull, WWait,
           WUnblock, WRelease, WSignal, WProbe, WNotify
      <4>3. ASSUME NEW r \in Readers, RStep(r)
            PROVE  FALSE
        BY <1>2, <2>2, <4>3, Zenon DEF IInv, FreedInv, RStep, At, RCall, RTry, RSize,
           RCopy, RAdd, RUnlock, RMutex, RCheck, RRefused, RBlock, REmpty,
           RWait, RUnblock, RRelease, RSignal, RProbe, RNotify
      <4>4. CASE Break \/ Spurious \/ Finished
        BY <4>4, Zenon DEF Break, Spurious, Finished, vars, hist
      <4> QED BY <1>2, <2>2, <4>1, <4>2, <4>3, <4>4, Zenon DEF Next
    <3> QED BY <1>2, <3>1, Zenon DEF NothingLeaks
  <2>3. CASE ~Free /\ ~freed
    <3>1. freed' = freed
      <4>1. CASE UNCHANGED vars
        BY <4>1, Zenon DEF vars
      <4>2. ASSUME NEW w \in Writers, WCall(w) \/ WStep(w)
            PROVE  freed' = freed
        BY <4>2, SMTT(60) DEF WCall, WStep, WLoop, WTry, WSize, WCopy, WAdd, WUnlock,
           WMutex, WCheck, WBlock, WFull, WWait, WUnblock, WRelease, WSignal,
           WProbe, WNotify
      <4>3. ASSUME NEW r \in Readers, RStep(r)
            PROVE  freed' = freed
        BY <4>3, Zenon DEF RStep, RCall, RTry, RSize, RCopy, RAdd, RUnlock, RMutex,
           RCheck, RRefused, RBlock, REmpty, RWait, RUnblock, RRelease,
           RSignal, RProbe, RNotify
      <4>4. CASE Break \/ Spurious \/ Finished
        BY <4>4, Zenon DEF Break, Spurious, Finished, vars
      <4> QED BY <1>2, <2>3, <4>1, <4>2, <4>3, <4>4, Zenon DEF Next
    <3> QED BY <2>3, <3>1, Zenon DEF NothingLeaks
  <2> QED BY <2>1, <2>2, <2>3, Zenon
<1> QED BY <1>1, <1>2, Invariance, PTL DEF Spec

\* The pipe's wake-ups are never lost, for any number of readers and writers: a
\* sleeping reader with data in the pipe, or a sleeping writer with room in it, is
\* about to be notified by a thread of the other side.
THEOREM WakeupsReach == Spec => []NoLostWakeup
<1>1. IInv /\ WakeInv /\ [Next]_vars => WakeInv'
  BY NextWakes, Zenon DEF IInv
<1>2. WakeInv => NoLostWakeup
  BY Zenon DEF WakeInv
<1> QED BY <1>1, <1>2, InitWakes, Invariance, PTL DEF Spec

\* No unit of a message comes out of the pipe a second time.
NoUnitTwice == \A i, j \in 1..Len(recvd) : i # j => recvd[i] # recvd[j]

\* A unit goes through the pipe once, for any lengths of the pipe and of the
\* messages and however the parts of several writers and readers interleave.
THEOREM EachUnitOnce == Spec => []NoUnitTwice
<1>1. Init => UnitsInv
  BY InitMsg, Zenon
<1>2. IInv /\ IInv' /\ UnitsInv /\ [Next]_vars => UnitsInv'
  BY UnitsNext, Zenon
<1>3. IInv /\ UnitsInv => NoUnitTwice
  BY DEF IInv, TypeOK, FifoInv, UnitsInv, NoUnitTwice
<1> QED BY <1>1, <1>2, <1>3, Invariance, PTL DEF Spec

\* When MsgLen divides the pipe's length, as it does for the 8-byte pointers that
\* every caller passes, what comes out are whole messages, each of one writer and
\* each once, whatever the number of readers and writers.
THEOREM WholeMessages ==
  ASSUME Divides
  PROVE  Spec => []NoTornMessage
<1>1. Init => UnitsInv /\ MsgInv
  BY InitMsg, Zenon
<1>2. IInv /\ IInv' /\ UnitsInv /\ MsgInv /\ [Next]_vars => UnitsInv' /\ MsgInv'
  BY UnitsNext, MsgNext, Zenon
<1>3. IInv /\ UnitsInv /\ MsgInv => NoTornMessage
  BY TakenWhole, Zenon
<1> QED BY <1>1, <1>2, <1>3, Invariance, PTL DEF Spec

-----------------------------------------------------------------------------
\* The places of the units between the counters r and w.
LEMMA UnreadIndex ==
  ASSUME NEW w \in Nat, NEW r \in Nat, r <= w
  PROVE  /\ w - r \in Nat
         /\ \A i \in 1..(w - r) : /\ r + (i - 1) \in r..(w - 1)
                                 /\ (r + (i - 1)) + 1 = r + i
OBVIOUS

\* In a pipe that is not freed the contents are the committed units that have
\* not come out yet; before a step and after it.
LEMMA Unread ==
  ASSUME IInv, ~freed
  PROVE  /\ writer \in Nat /\ reader \in Nat /\ reader <= writer
         /\ writer - reader <= PipeLen
         /\ Len(sent) = writer /\ Len(recvd) = reader /\ sent \in Seq(Unit)
         /\ \A i \in 1..reader : recvd[i] = sent[i]
         /\ Len(Content) = writer - reader
         /\ \A i \in 1..(writer - reader) : Content[i] = sent[reader + i]
<1>1. /\ writer \in Nat /\ reader \in Nat /\ Readable = writer - reader
      /\ reader <= writer /\ writer - reader <= PipeLen
      /\ Len(sent) = writer /\ Len(recvd) = reader /\ sent \in Seq(Unit)
      /\ \A i \in reader..(writer - 1) : buf[Slot(i)] = sent[i + 1]
      /\ \A i \in 1..reader : recvd[i] = sent[i]
  BY PipeAssumption, Zenon DEF IInv, TypeOK, RingInv, FifoInv, Readable
<1>2. Content = [i \in 1..(writer - reader) |-> buf[Slot(reader + (i - 1))]]
  BY <1>1, Zenon DEF Content
<1>3. Len(Content) = writer - reader
  <2>1. writer - reader \in Nat
    BY <1>1, UnreadIndex, Zenon
  <2> QED BY <1>2, <2>1
<1>4. ASSUME NEW i \in 1..(writer - reader)
      PROVE  Content[i] = sent[reader + i]
  <2>1. /\ reader + (i - 1) \in reader..(writer - 1)
        /\ (reader + (i - 1)) + 1 = reader + i
    BY <1>1, UnreadIndex, ZenonT(60)
  <2>2. Content[i] = buf[Slot(reader + (i - 1))]
    BY <1>2, Zenon
  <2> QED BY <1>1, <2>1, <2>2, Zenon
<1> QED BY <1>1, <1>3, <1>4, Zenon

LEMMA UnreadNext ==
  ASSUME IInv', ~freed'
  PROVE  /\ writer' \in Nat /\ reader' \in Nat /\ reader' <= writer'
         /\ writer' - reader' <= PipeLen
         /\ Len(sent') = writer' /\ Len(recvd') = reader' /\ sent' \in Seq(Unit)
         /\ \A i \in 1..reader' : recvd'[i] = sent'[i]
         /\ Len(Content') = writer' - reader'
         /\ \A i \in 1..(writer' - reader') : Content'[i] = sent'[reader' + i]
<1>1. /\ writer' \in Nat /\ reader' \in Nat /\ Readable' = writer' - reader'
      /\ reader' <= writer' /\ writer' - reader' <= PipeLen
      /\ Len(sent') = writer' /\ Len(recvd') = reader' /\ sent' \in Seq(Unit)
      /\ \A i \in reader'..(writer' - 1) : buf'[Slot(i)] = sent'[i + 1]
      /\ \A i \in 1..reader' : recvd'[i] = sent'[i]
  BY PipeAssumption, Zenon DEF IInv, TypeOK, RingInv, FifoInv, Readable
<1>2. Content' = [i \in 1..(writer' - reader') |-> buf'[Slot(reader' + (i - 1))]]
  BY <1>1, Zenon DEF Content
<1>3. Len(Content') = writer' - reader'
  <2>1. writer' - reader' \in Nat
    BY <1>1, UnreadIndex, Zenon
  <2> QED BY <1>2, <2>1
<1>4. ASSUME NEW i \in 1..(writer' - reader')
      PROVE  Content'[i] = sent'[reader' + i]
  <2>1. /\ reader' + (i - 1) \in reader'..(writer' - 1)
        /\ (reader' + (i - 1)) + 1 = reader' + i
    BY <1>1, UnreadIndex, ZenonT(60)
  <2>2. Content'[i] = buf'[Slot(reader' + (i - 1))]
    BY <1>2, Zenon
  <2> QED BY <1>1, <2>1, <2>2, Zenon
<1> QED BY <1>1, <1>3, <1>4, Zenon

\* What xpipe_write copies before it commits is outside of the contents.
LEMMA CopyUnseen ==
  ASSUME IInv, IInv', NEW w \in Writers, WCopy(w)
  PROVE  UNCHANGED Queue!qvars
<1>1. ~freed /\ UNCHANGED <<writer, reader, recvd, freed, sent>>
  BY Zenon DEF WCopy, At, IInv, FreedInv, hist
<1>2. \A i \in 1..(writer - reader) : Content'[i] = Content[i]
  BY <1>1, Unread, UnreadNext, Zenon
<1>3. /\ Content = [i \in 1..(writer - reader) |-> Content[i]]
      /\ Content' = [i \in 1..(writer - reader) |-> Content'[i]]
  BY <1>1, Zenon DEF Content, Readable
<1>4. Content' = Content
  BY <1>2, <1>3, Zenon
<1> QED BY <1>1, <1>4, Zenon DEF Queue!qvars

LEMMA AboveIndex ==
  ASSUME NEW k \in Nat, NEW w \in Nat, NEW r \in Nat, NEW i \in (k + 1)..(w - r)
  PROVE  i \in 1..(w - r) /\ r + i \in 1..w
OBVIOUS

\* The places behind the first num of the units between the counters r and w.
LEMMA IndexAbove ==
  ASSUME NEW w \in Nat, NEW r \in Nat, NEW num \in Nat, NEW i \in Nat,
         1 <= i, i <= (w - r) - num
  PROVE  /\ i \in 1..(w - (r + num)) /\ num + i \in 1..(w - r)
         /\ (r + num) + i = r + (num + i)
OBVIOUS

\* The addition to pipe->writer adds a part of a message at the back.
LEMMA AddPuts ==
  ASSUME IInv, IInv', NEW w \in Writers, WAdd(w)
  PROVE  Queue!Put \/ UNCHANGED Queue!qvars
<1>1. /\ ~freed /\ writer' = writer + n[w] /\ n[w] \in Nat
      /\ UNCHANGED <<reader, buf, recvd, freed>>
  BY DEF WAdd, At, IInv, FreedInv, TypeOK, Threads
<1>2. CASE n[w] = 0
  <2>1. Content' = Content
    BY <1>1, <1>2, Unread DEF Content, Readable
  <2> QED BY <1>1, <2>1, Zenon DEF Queue!qvars
<1>3. CASE n[w] > 0
  <2>1. \A i \in 1..writer : sent'[i] = sent[i]
    <3> DEFINE part == SubSeq(Message(w), pos[w] + 1, pos[w] + n[w])
    <3>1. sent' = sent \o part
      BY Zenon DEF WAdd
    <3>2. Len(sent) = writer /\ writer \in Nat /\ sent \in Seq(Unit)
      BY <1>1, Unread, Zenon
    <3> HIDE DEF part
    <3> QED BY <3>1, <3>2
  <2>2. Len(Content) < Len(Content') /\ Len(Content') <= PipeLen
    BY <1>1, <1>3, Unread, UnreadNext, SMTT(30)
  <2>3. ASSUME NEW i \in 1..Len(Content) PROVE Content'[i] = Content[i]
    <3>1. i \in 1..(writer - reader) /\ i \in 1..(writer' - reader')
          /\ reader + i \in 1..writer
      BY <1>1, Unread, SMTT(30)
    <3> QED BY <1>1, <2>1, <3>1, Unread, UnreadNext, Zenon
  <2>4. ASSUME NEW i \in (Len(Content) + 1)..Len(Content') PROVE Content'[i] \in Unit
    <3>1. i \in 1..(writer' - reader') /\ reader' + i \in 1..Len(sent')
      <4>1. /\ Len(Content) \in Nat /\ Len(Content') = writer' - reader'
            /\ writer' \in Nat /\ reader' \in Nat /\ Len(sent') = writer'
        BY <1>1, Unread, UnreadNext
      <4>2. i \in (Len(Content) + 1)..(writer' - reader')
        BY <4>1, Zenon
      <4> QED BY <4>1, <4>2, AboveIndex, Zenon
    <3>2. sent'[reader' + i] \in Unit
      BY <1>1, <3>1, UnreadNext
    <3> QED BY <1>1, <3>1, <3>2, UnreadNext, SMTT(30)
  <2> QED BY <1>1, <2>2, <2>3, <2>4, Zenon DEF Queue!Put
<1> QED BY <1>1, <1>2, <1>3

\* The addition to pipe->reader hands out units from the front.
LEMMA AddTakes ==
  ASSUME IInv, IInv', NEW r \in Readers, RAdd(r)
  PROVE  Queue!Take \/ UNCHANGED Queue!qvars
<1>1. /\ ~freed /\ reader' = reader + n[r] /\ n[r] \in Nat
      /\ UNCHANGED <<writer, buf, sent, freed>>
  BY DEF RAdd, At, IInv, FreedInv, TypeOK, Threads
<1>c. /\ writer \in Nat /\ reader \in Nat /\ reader <= writer
      /\ reader' <= writer /\ Len(recvd) = reader /\ Len(recvd') = reader + n[r]
      /\ Len(Content) = writer - reader
      /\ Len(Content') = (writer - reader) - n[r]
  BY <1>1, Unread, UnreadNext, SMTT(30)
<1>2. Len(recvd') = Len(recvd) + n[r] /\ \A i \in 1..Len(recvd) : recvd'[i] = recvd[i]
  <2>1. ASSUME NEW i \in 1..reader PROVE recvd'[i] = recvd[i]
    <3>1. i \in 1..reader'
      BY <1>1, <1>c
    <3> QED BY <1>1, <3>1, Unread, UnreadNext, SMTT(30)
  <2> QED BY <1>c, <2>1, Zenon
<1>3. CASE n[r] = 0
  <2>1. Content' = Content
    BY <1>1, <1>3, Unread DEF Content, Readable
  <2>2. recvd' = recvd
    <3>1. recvd \in Seq(Cell) /\ recvd' \in Seq(Cell)
      BY Zenon DEF IInv, TypeOK
    <3> QED BY <1>2, <1>3, <3>1, SeqEqual
  <2> QED BY <1>1, <2>1, <2>2, Zenon DEF Queue!qvars
<1>4. CASE n[r] > 0
  <2>1. n[r] \in 1..Len(Content) /\ Len(Content') = Len(Content) - n[r]
    BY <1>1, <1>4, Unread, UnreadNext, SMTT(30)
  <2>2. ASSUME NEW i \in 1..n[r] PROVE recvd'[Len(recvd) + i] = Content[i]
    <3>1. i \in 1..(writer - reader) /\ reader + i \in 1..reader'
      BY <1>1, <1>c, <2>1
    <3>2. Content[i] = sent[reader + i] /\ recvd'[reader + i] = sent'[reader + i]
      BY <1>1, <3>1, Unread, UnreadNext, SMTT(30)
    <3> QED BY <1>1, <1>c, <3>2, Zenon
  <2>3. ASSUME NEW i \in 1..(Len(Content) - n[r]) PROVE Content'[i] = Content[n[r] + i]
    <3>a. /\ i \in Nat /\ 1 <= i /\ i <= (writer - reader) - n[r]
          /\ writer' = writer /\ reader' = reader + n[r]
      BY <1>1, <1>c, SMTT(30)
    <3>1. /\ i \in 1..(writer' - reader') /\ n[r] + i \in 1..(writer - reader)
          /\ reader' + i = reader + (n[r] + i)
      BY <1>1, <1>c, <3>a, IndexAbove, SMTT(40)
    <3>2. /\ Content'[i] = sent'[reader' + i]
          /\ Content[n[r] + i] = sent[reader + (n[r] + i)]
      BY <1>1, <3>1, Unread, UnreadNext, Zenon
    <3> QED BY <1>1, <3>1, <3>2, Zenon
  <2> QED BY <1>1, <1>2, <2>1, <2>2, <2>3, Zenon DEF Queue!Take, Queue!Moved
<1> QED BY <1>1, <1>3, <1>4

\* xpipe_free after the drain loop closes the queue.
LEMMA FreeCloses ==
  ASSUME IInv, Free
  PROVE  Queue!Close
<1>1. /\ ~freed /\ freed' = TRUE /\ writer' = 0 /\ reader' = 0
  BY Zenon DEF Free, Clear
<1>2. /\ Left \in 0..Readable /\ Len(recvd') = Len(recvd) + Left
      /\ \A i \in 1..Len(recvd') : recvd'[i] = sent[i]
  BY FreeTakes, Zenon
<1>3. Readable = Len(Content) /\ Readable = writer - reader
  BY <1>1, Unread, Zenon DEF Readable
<1>4. Readable - Left < MsgLen
  <2>1. Readable \in Nat /\ MsgLen \in Nat \ {0}
    BY <1>1, <1>3, Unread, PipeAssumption
  <2> QED BY <2>1, MultipleBelow, Zenon DEF Left
<1>5. /\ \A i \in 1..Len(recvd) : recvd'[i] = recvd[i]
      /\ \A i \in 1..Left : recvd'[Len(recvd) + i] = Content[i]
  <2>1. /\ Len(recvd) = reader /\ reader \in Nat /\ Readable \in Nat
        /\ \A i \in 1..reader : recvd[i] = sent[i]
        /\ \A i \in 1..(writer - reader) : Content[i] = sent[reader + i]
    BY <1>1, <1>3, Unread
  <2>2. ASSUME NEW i \in 1..reader PROVE recvd'[i] = recvd[i]
    <3>1. i \in 1..Len(recvd')
      BY <1>2, <2>1
    <3> QED BY <1>2, <2>1, <3>1, Zenon
  <2>3. ASSUME NEW i \in 1..Left PROVE recvd'[reader + i] = Content[i]
    <3>1. reader + i \in 1..Len(recvd') /\ i \in 1..(writer - reader)
      BY <1>2, <1>3, <2>1
    <3> QED BY <1>2, <2>1, <3>1, Zenon
  <2> QED BY <2>1, <2>2, <2>3, Zenon
<1>6. Content' = <<>>
  BY <1>1 DEF Content, Readable
<1> QED BY <1>1, <1>2, <1>3, <1>4, <1>5, <1>6, Zenon DEF Queue!Close, Queue!Moved

\* Every other step of a thread leaves the counters, the buffer and what came out
\* alone.
LEMMA QuietWriter ==
  ASSUME NEW w \in Writers, WCall(w) \/ WStep(w)
  PROVE  WCopy(w) \/ WAdd(w) \/ UNCHANGED <<writer, reader, buf, recvd, freed>>
BY SMTT(60) DEF WStep, WCall, WLoop, WTry, WSize, WUnlock, WMutex, WCheck, WBlock, WFull,
       WWait, WUnblock, WRelease, WSignal, WProbe, WNotify, ring, hist

LEMMA QuietReader ==
  ASSUME NEW r \in Readers, RStep(r)
  PROVE  RAdd(r) \/ UNCHANGED <<writer, reader, buf, recvd, freed>>
BY Zenon DEF RStep, RCall, RTry, RSize, RCopy, RUnlock, RMutex, RCheck, RRefused,
       RBlock, REmpty, RWait, RUnblock, RRelease, RSignal, RProbe, RNotify, ring, hist

LEMMA QuietStutters ==
  ASSUME UNCHANGED <<writer, reader, buf, recvd, freed>>
  PROVE  UNCHANGED Queue!qvars
BY Zenon DEF Content, Readable, Queue!qvars

\* The pipe of xpipe.h, with its locks, its counters and its ring, implements the
\* bounded queue: whatever the threads do at the same time, units enter at the
\* back and leave at the front, once, and xpipe_free leaves less than a message.
THEOREM PipeImplementsQueue == Spec => PipeIsQueue
<1>1. Init => Queue!QInit
  BY DEF Init, Queue!QInit, Content, Readable
<1>2. IInv /\ IInv' /\ [Next]_vars => [Queue!QNext]_(Queue!qvars)
  <2> SUFFICES ASSUME IInv, IInv', [Next]_vars
               PROVE  Queue!QNext \/ UNCHANGED Queue!qvars
    OBVIOUS
  <2>1. ASSUME NEW w \in Writers, WCall(w) \/ WStep(w)
        PROVE  Queue!QNext \/ UNCHANGED Queue!qvars
    BY <2>1, QuietWriter, QuietStutters, CopyUnseen, AddPuts, Zenon DEF Queue!QNext
  <2>2. ASSUME NEW r \in Readers, RStep(r)
        PROVE  Queue!QNext \/ UNCHANGED Queue!qvars
    BY <2>2, QuietReader, QuietStutters, AddTakes, Zenon DEF Queue!QNext
  <2>3. CASE Free
    BY <2>3, FreeCloses, Zenon DEF Queue!QNext
  <2>4. CASE Break \/ Spurious \/ Finished \/ UNCHANGED vars
    <3>1. UNCHANGED <<writer, reader, buf, recvd, freed>>
      BY <2>4, Zenon DEF Break, Spurious, Finished, vars, ring, hist
    <3> QED BY <3>1, QuietStutters, Zenon
  <2> QED BY <2>1, <2>2, <2>3, <2>4, Zenon DEF Next
<1> QED BY <1>1, <1>2, Invariance, PTL DEF Spec, PipeIsQueue, Queue!QSpec

=============================================================================
