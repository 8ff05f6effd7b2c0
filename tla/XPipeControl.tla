---------------------------- MODULE XPipeControl ----------------------------
(***************************************************************************)
(* The control steps of xpipe_write and xpipe_read keep the invariant: the *)
(* loops, the locks, the sleep and the wake-up.                            *)
(***************************************************************************)
EXTENDS XPipe, TLAPS

\* A writer's step that leaves the ring alone and takes it to label l.
WQuiet(w, l) ==
  /\ ~freed /\ l \in WLabels /\ pc' = [pc EXCEPT ![w] = l]
  /\ pc[w] \notin WHold /\ l \notin {"w_copy", "w_add", "w_unlock"}
  /\ l = "w_size" => ~wlock /\ wlock'
  /\ l # "w_size" => wlock' = wlock
  /\ UNCHANGED <<ring, rlock, rbuf, hist, freed>>
  /\ \A t \in Threads : t # w => pos'[t] = pos[t] /\ n'[t] = n[t]
  /\ pos'[w] + n'[w] <= MsgLen
  /\ \A v \in Writers : v # w => calls'[v] = calls[v]
  /\ l # "idle" => calls'[w] > 0

\* A step of a writer that moves no data (WQuiet) keeps the invariant.
LEMMA WriterQuiet ==
  ASSUME IInv, TypeOK', NEW w \in Writers, NEW l, WQuiet(w, l)
  PROVE  IInv'
<1> USE PipeAssumption DEF IInv, Threads, WQuiet
<1>a. /\ pc'[w] = l
      /\ \A t \in Threads : t # w => pc'[t] = pc[t]
      /\ \A r \in Readers : r # w
  BY Zenon DEF TypeOK
<1>1. LockInv'
  <2>1. \A v \in Writers : pc'[v] \in WLabels /\ (pc'[v] \in WHold => wlock')
    BY <1>a DEF LockInv, WHold
  <2>2. \A r \in Readers : pc'[r] \in RLabels /\ (pc'[r] \in RHold => rlock')
    BY <1>a, Zenon DEF LockInv
  <2>3. \A v, u \in Writers : pc'[v] \in WHold /\ pc'[u] \in WHold => v = u
    BY <1>a DEF LockInv, WHold
  <2>4. \A q, r \in Readers : pc'[q] \in RHold /\ pc'[r] \in RHold => q = r
    BY <1>a, Zenon DEF LockInv
  <2> QED BY <2>1, <2>2, <2>3, <2>4, Zenon DEF LockInv
<1>2. WriterInv'
  <2> SUFFICES ASSUME NEW v \in Writers
               PROVE  WriterInv!(v)'
    BY Zenon DEF WriterInv
  <2>1. CASE v = w
    BY <1>a, <2>1, Zenon DEF WriterInv
  <2>2. CASE v # w
    <3>1. Message(v)' = Message(v)
      BY <2>2, Zenon DEF Message
    <3> QED BY <1>a, <2>2, <3>1, Zenon DEF WriterInv, ring, Writable
  <2> QED BY <2>1, <2>2, Zenon
<1>3. ReaderInv'
  BY <1>a DEF ReaderInv, ring, hist, Readable
<1>4. RingInv'
  BY Zenon DEF RingInv, ring, hist, Readable
<1>5. FifoInv'
  BY Zenon DEF FifoInv, hist
<1>6. FreedInv'
  BY Zenon DEF FreedInv
<1> QED BY <1>1, <1>2, <1>3, <1>4, <1>5, <1>6, Zenon

\* A reader's step that leaves the ring alone and takes it to label l.
RQuiet(r, l) ==
  /\ ~freed /\ l \in RLabels /\ pc' = [pc EXCEPT ![r] = l]
  /\ pc[r] \notin RHold /\ l \notin {"r_copy", "r_add", "r_unlock"}
  /\ l = "r_size" => ~rlock /\ rlock'
  /\ l # "r_size" => rlock' = rlock
  /\ UNCHANGED <<ring, wlock, calls, hist, freed>>
  /\ \A t \in Threads : t # r => pos'[t] = pos[t] /\ n'[t] = n[t]
  /\ n'[r] = 0 /\ pos'[r] <= MsgLen
  /\ l = "idle" => pos'[r] = 0
  /\ \A q \in Readers : q # r => rbuf'[q] = rbuf[q]
  /\ l \notin {"idle", "exit"} => Len(rbuf'[r]) = pos'[r]

\* A step of a reader that moves no data (RQuiet) keeps the invariant.
LEMMA ReaderQuiet ==
  ASSUME IInv, TypeOK', NEW r \in Readers, NEW l, RQuiet(r, l)
  PROVE  IInv'
<1> USE PipeAssumption DEF IInv, Threads, RQuiet
<1>a. /\ pc'[r] = l
      /\ \A t \in Threads : t # r => pc'[t] = pc[t]
      /\ \A w \in Writers : w # r
      /\ pos'[r] \in Nat
  BY DEF TypeOK
<1>1. LockInv'
  <2>1. \A w \in Writers : pc'[w] \in WLabels /\ (pc'[w] \in WHold => wlock')
    BY <1>a, Zenon DEF LockInv
  <2>2. \A q \in Readers : pc'[q] \in RLabels /\ (pc'[q] \in RHold => rlock')
    BY <1>a DEF LockInv, RHold
  <2>3. \A v, w \in Writers : pc'[v] \in WHold /\ pc'[w] \in WHold => v = w
    BY <1>a, Zenon DEF LockInv
  <2>4. \A p, q \in Readers : pc'[p] \in RHold /\ pc'[q] \in RHold => p = q
    BY <1>a DEF LockInv, RHold
  <2> QED BY <2>1, <2>2, <2>3, <2>4, Zenon DEF LockInv
<1>2. WriterInv'
  <2>1. \A w \in Writers : Message(w)' = Message(w)
    BY Zenon DEF Message
  <2> QED BY <1>a, <2>1 DEF WriterInv, ring, Writable
<1>3. ReaderInv'
  <2> SUFFICES ASSUME NEW q \in Readers
               PROVE  ReaderInv!(q)'
    BY Zenon DEF ReaderInv
  <2>1. CASE q = r
    BY <1>a, <2>1 DEF ReaderInv
  <2>2. CASE q # r
    BY <1>a, <2>2 DEF ReaderInv, ring, hist, Readable
  <2> QED BY <2>1, <2>2, Zenon
<1>4. RingInv'
  BY Zenon DEF RingInv, ring, hist, Readable
<1>5. FifoInv'
  BY Zenon DEF FifoInv, hist
<1>6. FreedInv'
  BY Zenon DEF FreedInv
<1> QED BY <1>1, <1>2, <1>3, <1>4, <1>5, <1>6, Zenon

----------------------------------------------------------------------------
\* The control steps of xpipe_write keep the invariant.
LEMMA WriterControl ==
  ASSUME IInv, NEW w \in Writers,
         \/ WCall(w) \/ WLoop(w) \/ WTry(w) \/ WMutex(w) \/ WCheck(w)
         \/ WBlock(w) \/ WFull(w) \/ WWait(w) \/ WUnblock(w)
         \/ WRelease(w) \/ WSignal(w) \/ WProbe(w) \/ WNotify(w)
  PROVE  IInv'
<1> USE PipeAssumption DEF Threads, At, Goto, Return, Acquire, Notify, ring,
        flags, hist
<1>a. TypeOK /\ 0 \in 0..MsgLen
  BY DEF IInv
<1>b. FreedInv /\ WriterInv
  BY Zenon DEF IInv
<1>1. CASE WCall(w)
  <2>1. TypeOK'
    <3>1. /\ calls' \in [Writers -> 0..MaxCalls]
          /\ pc' \in [Threads -> WLabels \cup RLabels]
      <4>1. calls[w] + 1 \in 0..MaxCalls
        BY <1>a, <1>1, SMTT(30) DEF WCall, TypeOK
      <4>2. "w_loop" \in WLabels \cup RLabels
        BY Zenon DEF WLabels
      <4> QED BY <1>a, <1>1, <4>1, <4>2, SMTT(30) DEF WCall, TypeOK
    <3> QED BY <1>a, <1>1, <3>1, SMTT(30) DEF WCall, TypeOK
  <2>2. WQuiet(w, pc'[w])
    BY <1>a, <1>b, <1>1
    DEF WCall, WQuiet, TypeOK, FreedInv, WriterInv, WLabels, WHold
  <2> QED BY <2>1, <2>2, WriterQuiet, Zenon
<1>2. CASE WLoop(w)
  <2>1. TypeOK'
    <3>1. CASE breaker
      <4>a. Return(w, "idle")
        BY <1>2, <3>1, Zenon DEF WLoop
      <4>1. /\ pc' \in [Threads -> WLabels \cup RLabels]
            /\ pos' \in [Threads -> 0..MsgLen]
            /\ n' \in [Threads -> 0..MsgLen]
        BY <1>a, <4>a, Zenon DEF TypeOK, WLabels
      <4> QED BY <1>a, <1>2, <3>1, <4>1, SMTT(30) DEF WLoop, TypeOK
    <3>2. CASE ~breaker
      BY <1>a, <1>2, <3>2, Zenon DEF WLoop, TypeOK, WLabels
    <3> QED BY <3>1, <3>2, Zenon
  <2>2. WQuiet(w, pc'[w])
    BY <1>a, <1>b, <1>2, SMTT(30)
    DEF WLoop, WQuiet, TypeOK, FreedInv, WriterInv, WLabels, WHold
  <2> QED BY <2>1, <2>2, WriterQuiet, Zenon
<1>3. CASE WTry(w)
  <2>1. TypeOK'
    BY <1>a, <1>3, ZenonT(30) DEF WTry, TypeOK, WLabels, RLabels
  <2>2. WQuiet(w, pc'[w])
    BY <1>a, <1>b, <1>3, SMTT(30)
    DEF WTry, WQuiet, TypeOK, FreedInv, WriterInv, WLabels, WHold
  <2> QED BY <2>1, <2>2, WriterQuiet, Zenon
<1>4. CASE WMutex(w)
  <2>1. TypeOK'
    BY <1>a, <1>4, Zenon DEF WMutex, TypeOK, WLabels, RLabels
  <2>2. WQuiet(w, pc'[w])
    BY <1>a, <1>b, <1>4, Zenon
    DEF WMutex, WQuiet, TypeOK, FreedInv, WriterInv, WLabels, WHold
  <2> QED BY <2>1, <2>2, WriterQuiet, Zenon
<1>5. CASE WCheck(w)
  <2>1. TypeOK'
    BY <1>a, <1>5, ZenonT(30) DEF WCheck, TypeOK, WLabels, RLabels
  <2>2. WQuiet(w, pc'[w])
    BY <1>a, <1>b, <1>5, SMTT(30)
    DEF WCheck, WQuiet, TypeOK, FreedInv, WriterInv, WLabels, WHold
  <2> QED BY <2>1, <2>2, WriterQuiet, Zenon
<1>6. CASE WBlock(w)
  <2>1. TypeOK'
    BY <1>a, <1>6, SMTT(30) DEF WBlock, TypeOK, WLabels, RLabels
  <2>2. WQuiet(w, pc'[w])
    BY <1>a, <1>b, <1>6, Zenon
    DEF WBlock, WQuiet, TypeOK, FreedInv, WriterInv, WLabels, WHold
  <2> QED BY <2>1, <2>2, WriterQuiet, Zenon
<1>7. CASE WFull(w)
  <2>1. TypeOK'
    BY <1>a, <1>7, ZenonT(30) DEF WFull, TypeOK, WLabels, RLabels
  <2>2. WQuiet(w, pc'[w])
    BY <1>a, <1>b, <1>7, SMTT(30)
    DEF WFull, WQuiet, TypeOK, FreedInv, WriterInv, WLabels, WHold
  <2> QED BY <2>1, <2>2, WriterQuiet, Zenon
<1>8. CASE WWait(w)
  <2>1. TypeOK'
    BY <1>a, <1>8, Zenon DEF WWait, TypeOK, WLabels, RLabels
  <2>2. WQuiet(w, pc'[w])
    BY <1>a, <1>b, <1>8, Zenon
    DEF WWait, WQuiet, TypeOK, FreedInv, WriterInv, WLabels, WHold
  <2> QED BY <2>1, <2>2, WriterQuiet, Zenon
<1>9. CASE WUnblock(w)
  <2>1. TypeOK'
    BY <1>a, <1>9, ZenonT(30) DEF WUnblock, TypeOK, WLabels, RLabels
  <2>2. WQuiet(w, pc'[w])
    BY <1>a, <1>b, <1>9, Zenon
    DEF WUnblock, WQuiet, TypeOK, FreedInv, WriterInv, WLabels, WHold
  <2> QED BY <2>1, <2>2, WriterQuiet, Zenon
<1>10. CASE WRelease(w)
  <2>1. TypeOK'
    BY <1>a, <1>10, SMTT(30) DEF WRelease, TypeOK, WLabels, RLabels
  <2>2. WQuiet(w, pc'[w])
    BY <1>a, <1>b, <1>10, Zenon
    DEF WRelease, WQuiet, TypeOK, FreedInv, WriterInv, WLabels, WHold
  <2> QED BY <2>1, <2>2, WriterQuiet, Zenon
<1>11. CASE WSignal(w)
  <2>1. TypeOK'
    BY <1>a, <1>11, ZenonT(30) DEF WSignal, TypeOK, WLabels, RLabels
  <2>2. WQuiet(w, pc'[w])
    BY <1>a, <1>b, <1>11, SMTT(30)
    DEF WSignal, WQuiet, TypeOK, FreedInv, WriterInv, WLabels, WHold
  <2> QED BY <2>1, <2>2, WriterQuiet, Zenon
<1>12. CASE WProbe(w)
  <2>1. TypeOK'
    BY <1>a, <1>12, ZenonT(30) DEF WProbe, TypeOK, WLabels, RLabels
  <2>2. WQuiet(w, pc'[w])
    BY <1>a, <1>b, <1>12
    DEF WProbe, WQuiet, TypeOK, FreedInv, WriterInv, WLabels, WHold
  <2> QED BY <2>1, <2>2, WriterQuiet, Zenon
<1>13. CASE WNotify(w)
  <2>1. TypeOK'
    BY <1>a, <1>13, Zenon DEF WNotify, TypeOK, WLabels, RLabels
  <2>2. WQuiet(w, pc'[w])
    BY <1>a, <1>b, <1>13
    DEF WNotify, WQuiet, TypeOK, FreedInv, WriterInv, WLabels, WHold
  <2> QED BY <2>1, <2>2, WriterQuiet, Zenon
<1> QED BY <1>1, <1>2, <1>3, <1>4, <1>5, <1>6, <1>7, <1>8, <1>9, <1>10, <1>11, <1>12, <1>13, Zenon

\* The control steps of xpipe_read keep the invariant.
LEMMA ReaderControl ==
  ASSUME IInv, NEW r \in Readers,
         \/ RCall(r) \/ RTry(r) \/ RMutex(r) \/ RCheck(r) \/ RRefused(r)
         \/ RBlock(r) \/ REmpty(r) \/ RWait(r) \/ RUnblock(r)
         \/ RRelease(r) \/ RSignal(r) \/ RProbe(r) \/ RNotify(r)
  PROVE  IInv'
<1> USE PipeAssumption DEF Threads, At, Goto, Return, Acquire, Notify, ring,
        flags, hist
<1>a. TypeOK /\ 0 \in 0..MsgLen
  BY DEF IInv
<1>b. /\ FreedInv
      /\ pc[r] \notin {"r_copy", "r_add", "r_unlock"} => n[r] = 0
      /\ pc[r] = "idle" => pos[r] = 0
      /\ pc[r] \notin {"idle", "exit", "r_copy"} => Len(rbuf[r]) = pos[r] + n[r]
      /\ pos[r] \in 0..MsgLen
  BY Zenon DEF IInv, TypeOK, ReaderInv
<1>1. CASE RCall(r)
  <2>1. TypeOK'
    BY <1>a, <1>1, SMTT(30) DEF RCall, TypeOK, WLabels, RLabels
  <2>2. RQuiet(r, pc'[r])
    BY <1>a, <1>b, <1>1
    DEF RCall, RQuiet, TypeOK, FreedInv, RLabels, RHold
  <2> QED BY <2>1, <2>2, ReaderQuiet, Zenon
<1>2. CASE RTry(r)
  <2>1. TypeOK'
    BY <1>a, <1>2, ZenonT(30) DEF RTry, TypeOK, WLabels, RLabels
  <2>2. RQuiet(r, pc'[r])
    BY <1>a, <1>b, <1>2, SMTT(30)
    DEF RTry, RQuiet, TypeOK, FreedInv, RLabels, RHold
  <2> QED BY <2>1, <2>2, ReaderQuiet, Zenon
<1>3. CASE RMutex(r)
  <2>1. TypeOK'
    BY <1>a, <1>3, Zenon DEF RMutex, TypeOK, WLabels, RLabels
  <2>2. RQuiet(r, pc'[r])
    BY <1>a, <1>b, <1>3
    DEF RMutex, RQuiet, TypeOK, FreedInv, RLabels, RHold
  <2> QED BY <2>1, <2>2, ReaderQuiet, Zenon
<1>4. CASE RCheck(r)
  <2>1. TypeOK'
    BY <1>a, <1>4, SMTT(30) DEF RCheck, TypeOK, WLabels, RLabels
  <2>2. RQuiet(r, pc'[r])
    BY <1>a, <1>b, <1>4
    DEF RCheck, RQuiet, TypeOK, FreedInv, RLabels, RHold
  <2> QED BY <2>1, <2>2, ReaderQuiet, Zenon
<1>5. CASE RRefused(r)
  <2>1. TypeOK'
    BY <1>a, <1>5, SMTT(30) DEF RRefused, TypeOK, WLabels, RLabels
  <2>2. RQuiet(r, pc'[r])
    BY <1>a, <1>b, <1>5
    DEF RRefused, RQuiet, TypeOK, FreedInv, RLabels, RHold
  <2> QED BY <2>1, <2>2, ReaderQuiet, Zenon
<1>6. CASE RBlock(r)
  <2>1. TypeOK'
    BY <1>a, <1>6, ZenonT(30) DEF RBlock, TypeOK, WLabels, RLabels
  <2>2. RQuiet(r, pc'[r])
    BY <1>a, <1>b, <1>6
    DEF RBlock, RQuiet, TypeOK, FreedInv, RLabels, RHold
  <2> QED BY <2>1, <2>2, ReaderQuiet, Zenon
<1>7. CASE REmpty(r)
  <2>1. TypeOK'
    BY <1>a, <1>7, ZenonT(30) DEF REmpty, TypeOK, WLabels, RLabels
  <2>2. RQuiet(r, pc'[r])
    BY <1>a, <1>b, <1>7, SMTT(30)
    DEF REmpty, RQuiet, TypeOK, FreedInv, RLabels, RHold
  <2> QED BY <2>1, <2>2, ReaderQuiet, Zenon
<1>8. CASE RWait(r)
  <2>1. TypeOK'
    BY <1>a, <1>8, Zenon DEF RWait, TypeOK, WLabels, RLabels
  <2>2. RQuiet(r, pc'[r])
    BY <1>a, <1>b, <1>8
    DEF RWait, RQuiet, TypeOK, FreedInv, RLabels, RHold
  <2> QED BY <2>1, <2>2, ReaderQuiet, Zenon
<1>9. CASE RUnblock(r)
  <2>1. TypeOK'
    BY <1>a, <1>9, ZenonT(30) DEF RUnblock, TypeOK, WLabels, RLabels
  <2>2. RQuiet(r, pc'[r])
    BY <1>a, <1>b, <1>9
    DEF RUnblock, RQuiet, TypeOK, FreedInv, RLabels, RHold
  <2> QED BY <2>1, <2>2, ReaderQuiet, Zenon
<1>10. CASE RRelease(r)
  <2>1. TypeOK'
    BY <1>a, <1>10, SMTT(30) DEF RRelease, TypeOK, WLabels, RLabels
  <2>2. RQuiet(r, pc'[r])
    BY <1>a, <1>b, <1>10
    DEF RRelease, RQuiet, TypeOK, FreedInv, RLabels, RHold
  <2> QED BY <2>1, <2>2, ReaderQuiet, Zenon
<1>11. CASE RSignal(r)
  <2>1. TypeOK'
    BY <1>a, <1>11, ZenonT(30) DEF RSignal, TypeOK, WLabels, RLabels
  <2>2. RQuiet(r, pc'[r])
    BY <1>a, <1>b, <1>11, SMTT(30)
    DEF RSignal, RQuiet, TypeOK, FreedInv, RLabels, RHold
  <2> QED BY <2>1, <2>2, ReaderQuiet, Zenon
<1>12. CASE RProbe(r)
  <2>1. TypeOK'
    BY <1>a, <1>12, ZenonT(30) DEF RProbe, TypeOK, WLabels, RLabels
  <2>2. RQuiet(r, pc'[r])
    BY <1>a, <1>b, <1>12
    DEF RProbe, RQuiet, TypeOK, FreedInv, RLabels, RHold
  <2> QED BY <2>1, <2>2, ReaderQuiet, Zenon
<1>13. CASE RNotify(r)
  <2>1. TypeOK'
    BY <1>a, <1>13, Zenon DEF RNotify, TypeOK, WLabels, RLabels
  <2>2. RQuiet(r, pc'[r])
    BY <1>a, <1>b, <1>13
    DEF RNotify, RQuiet, TypeOK, FreedInv, RLabels, RHold
  <2> QED BY <2>1, <2>2, ReaderQuiet, Zenon
<1> QED BY <1>1, <1>2, <1>3, <1>4, <1>5, <1>6, <1>7, <1>8, <1>9, <1>10, <1>11, <1>12, <1>13, Zenon

=============================================================================
