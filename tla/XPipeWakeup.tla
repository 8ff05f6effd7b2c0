---------------------------- MODULE XPipeWakeup -----------------------------
(***************************************************************************)
(* The sleep and the wake-up of xpipe_write and xpipe_read.  The flags     *)
(* wblock and rblock are locks between the sleepers of one side and the    *)
(* probers of the other, and every thread wakes the sleeper before it      *)
(* sleeps itself; so one thread sleeps at most, and nobody passes it by.   *)
(***************************************************************************)
EXTENDS XPipe, TLAPS

\* The threads that own pipe->mutex, and those that own the spin flags wblock
\* and rblock: a sleeper of one side, or a prober of the other.
HoldsMutex(t) == pc[t] \in {"w_check", "w_block", "w_full", "w_unblock", "w_release",
                            "r_check", "r_block", "r_empty", "r_unblock", "r_release"}
HoldsWblock(t) == pc[t] \in {"w_full", "w_wait", "w_unblock", "r_probe"}
HoldsRblock(t) == pc[t] \in {"r_empty", "r_wait", "r_unblock", "w_probe"}

\* About to look at the pipe once more and then sleep.
Poised(t) == pc[t] \in {"w_block", "w_full", "r_block", "r_empty"}

\* The labels of the handshake, and those from which a notification follows.
Inside == {"w_check", "w_block", "w_full", "w_wait", "w_unblock", "w_release", "w_probe",
           "r_check", "r_block", "r_empty", "r_wait", "r_unblock", "r_release", "r_probe"}
WSignals == {"w_unlock", "w_signal", "w_notify", "w_mutex", "w_check"}
RSignals == {"r_unlock", "r_signal", "r_notify", "r_mutex", "r_check"}

MutexInv == \A t \in Threads : HoldsMutex(t) => mutex = t

BlockInv ==
  /\ \A t \in Threads : (HoldsWblock(t) => wblock) /\ (HoldsRblock(t) => rblock)
  /\ \A s, t \in Threads : HoldsWblock(s) /\ HoldsWblock(t) => s = t
  /\ \A s, t \in Threads : HoldsRblock(s) /\ HoldsRblock(t) => s = t

\* One thread sleeps at most: each one wakes the sleeper before it sleeps.
SleepInv ==
  /\ \A t \in waiting : pc[t] \in {"w_wait", "r_wait"}
  /\ \A s, t \in waiting : s = t
  /\ \A t \in Threads : Poised(t) => waiting = {} /\ ~breaker
  /\ breaker => waiting = {}

HandInv == MutexInv /\ BlockInv /\ SleepInv

WakeInv == HandInv /\ NoLostWakeup

\* Nobody sleeps in a fresh pipe.
LEMMA InitWakes == Init => WakeInv
BY Zenon DEF Init, WakeInv, HandInv, MutexInv, BlockInv, SleepInv, NoLostWakeup, HoldsMutex,
       HoldsWblock, HoldsRblock, Poised

\* uv_cond_signal leaves nobody asleep.
LEMMA NotifyWakes ==
  ASSUME SleepInv, Notify
  PROVE  waiting' = {}
BY Zenon DEF SleepInv, Notify

\* A step of a thread outside the handshake.
Outside(t, l) ==
  /\ Goto(t, l) /\ pc[t] \notin Inside /\ l \notin Inside
  /\ UNCHANGED <<wblock, rblock, mutex, waiting, breaker>>

\* A step outside the handshake keeps its invariant.
LEMMA OutsideStep ==
  ASSUME TypeOK, HandInv, NEW t \in Threads, NEW l, Outside(t, l)
  PROVE  HandInv'
<1>1. /\ pc'[t] = l
      /\ \A s \in Threads : s # t => pc'[s] = pc[s]
  BY Zenon DEF Outside, Goto, TypeOK
<1> USE <1>1 DEF HandInv, Outside, Inside, HoldsMutex, HoldsWblock, HoldsRblock, Poised
<1>2. MutexInv'
  BY Zenon DEF MutexInv
<1>3. BlockInv'
  BY Zenon DEF BlockInv
<1>4. SleepInv'
  BY Zenon DEF SleepInv, TypeOK
<1> QED BY <1>2, <1>3, <1>4, Zenon

\* The steps of xpipe_write outside the handshake; a writer that has to notify
\* a reader does not forget it.
LEMMA WriterOutside ==
  ASSUME TypeOK, NEW w \in Writers,
         WCall(w) \/ WLoop(w) \/ WTry(w) \/ WSize(w) \/ WCopy(w) \/ WAdd(w) \/ WUnlock(w)
  PROVE  \E l : Outside(w, l) /\ (pc[w] \in WSignals => l \in WSignals)
<1> USE DEF Outside, Inside, WSignals, At, Return, flags
<1>1. CASE WCall(w) \/ WCopy(w) \/ WAdd(w)
  BY <1>1, Zenon DEF WCall, WCopy, WAdd
<1>2. CASE WLoop(w)
  BY <1>2, Zenon DEF WLoop
<1>3. CASE WTry(w)
  BY <1>3, Zenon DEF WTry
<1>4. CASE WSize(w)
  BY <1>4, Zenon DEF WSize
<1>5. CASE WUnlock(w)
  BY <1>5, Zenon DEF WUnlock
<1> QED BY <1>1, <1>2, <1>3, <1>4, <1>5, Zenon

\* The steps of xpipe_read outside the handshake.
LEMMA ReaderOutside ==
  ASSUME TypeOK, NEW r \in Readers,
         RCall(r) \/ RTry(r) \/ RSize(r) \/ RCopy(r) \/ RAdd(r) \/ RUnlock(r)
  PROVE  \E l : Outside(r, l) /\ (pc[r] \in RSignals => l \in RSignals)
<1> USE DEF Outside, Inside, RSignals, At, Return, flags
<1>1. CASE RCall(r) \/ RCopy(r) \/ RAdd(r)
  BY <1>1, Zenon DEF RCall, RCopy, RAdd
<1>2. CASE RTry(r)
  BY <1>2, Zenon DEF RTry
<1>3. CASE RSize(r)
  BY <1>3, Zenon DEF RSize
<1>4. CASE RUnlock(r)
  BY <1>4, Zenon DEF RUnlock
<1> QED BY <1>1, <1>2, <1>3, <1>4, Zenon

\* The steps of xpipe_write that lock, sleep, probe and notify.
LEMMA WriterHandshake ==
  ASSUME TypeOK, LockInv, HandInv, NEW w \in Writers,
         \/ WMutex(w) \/ WCheck(w) \/ WBlock(w) \/ WFull(w) \/ WWait(w)
         \/ WUnblock(w) \/ WRelease(w) \/ WSignal(w) \/ WProbe(w) \/ WNotify(w)
  PROVE  HandInv'
<1> USE PipeAssumption DEF HandInv, HoldsMutex, HoldsWblock, HoldsRblock, Poised, Threads, At
<1>a. \A l : Goto(w, l) => pc'[w] = l /\ \A s \in Threads : s # w => pc'[s] = pc[s]
  BY Zenon DEF Goto, TypeOK
<1>b. w \in Threads /\ waiting \subseteq Threads
  BY Zenon DEF TypeOK
<1>1. CASE WMutex(w)
  <2>1. MutexInv'
    BY <1>a, <1>b, <1>1, Zenon DEF WMutex, Acquire, MutexInv
  <2>2. BlockInv'
    BY <1>a, <1>b, <1>1, ZenonT(60) DEF WMutex, Acquire, BlockInv, flags
  <2>3. SleepInv'
    BY <1>a, <1>b, <1>1, Zenon DEF WMutex, Acquire, MutexInv, SleepInv
  <2> QED BY <2>1, <2>2, <2>3, Zenon
<1>2. CASE WCheck(w)
  <2>1. MutexInv'
    BY <1>a, <1>b, <1>2, Zenon DEF WCheck, MutexInv
  <2>2. BlockInv'
    BY <1>a, <1>b, <1>2 DEF WCheck, BlockInv, flags
  <2>3. SleepInv'
    <3>1. waiting' = {}
      BY <1>2, NotifyWakes, Zenon DEF WCheck, SleepInv
    <3> QED BY <1>a, <1>2, <3>1, Zenon DEF WCheck, MutexInv, SleepInv
  <2> QED BY <2>1, <2>2, <2>3, Zenon
<1>3. CASE WBlock(w)
  <2>1. MutexInv'
    BY <1>a, <1>b, <1>3, Zenon DEF WBlock, MutexInv
  <2>2. BlockInv'
    BY <1>a, <1>b, <1>3 DEF WBlock, BlockInv, flags
  <2>3. SleepInv'
    BY <1>a, <1>b, <1>3, Zenon DEF WBlock, MutexInv, SleepInv
  <2> QED BY <2>1, <2>2, <2>3, Zenon
<1>4. CASE WFull(w)
  <2>1. MutexInv'
    BY <1>a, <1>b, <1>4 DEF WFull, MutexInv
  <2>2. BlockInv'
    BY <1>a, <1>b, <1>4 DEF WFull, BlockInv, flags
  <2>3. SleepInv'
    BY <1>a, <1>b, <1>4 DEF WFull, MutexInv, SleepInv
  <2> QED BY <2>1, <2>2, <2>3, Zenon
<1>5. CASE WWait(w)
  <2>1. MutexInv'
    BY <1>a, <1>b, <1>5, Zenon DEF WWait, Acquire, MutexInv
  <2>2. BlockInv'
    BY <1>a, <1>b, <1>5 DEF WWait, Acquire, BlockInv, flags
  <2>3. SleepInv'
    BY <1>a, <1>b, <1>5, Zenon DEF WWait, Acquire, MutexInv, SleepInv
  <2> QED BY <2>1, <2>2, <2>3, Zenon
<1>6. CASE WUnblock(w)
  <2>1. MutexInv'
    BY <1>a, <1>b, <1>6, Zenon DEF WUnblock, MutexInv
  <2>2. BlockInv'
    BY <1>a, <1>b, <1>6 DEF WUnblock, BlockInv, flags
  <2>3. SleepInv'
    BY <1>a, <1>b, <1>6, Zenon DEF WUnblock, MutexInv, SleepInv
  <2> QED BY <2>1, <2>2, <2>3, Zenon
<1>7. CASE WRelease(w)
  <2>1. MutexInv'
    BY <1>a, <1>b, <1>7 DEF WRelease, MutexInv
  <2>2. BlockInv'
    BY <1>a, <1>b, <1>7, ZenonT(60) DEF WRelease, BlockInv, flags
  <2>3. SleepInv'
    BY <1>a, <1>b, <1>7, Zenon DEF WRelease, MutexInv, SleepInv
  <2> QED BY <2>1, <2>2, <2>3, Zenon
<1>8. CASE WSignal(w)
  <2>1. MutexInv'
    BY <1>a, <1>b, <1>8 DEF WSignal, MutexInv
  <2>2. BlockInv'
    BY <1>a, <1>b, <1>8, ZenonT(60) DEF WSignal, BlockInv, flags
  <2>3. SleepInv'
    BY <1>a, <1>b, <1>8 DEF WSignal, MutexInv, SleepInv
  <2> QED BY <2>1, <2>2, <2>3, Zenon
<1>9. CASE WProbe(w)
  <2>1. MutexInv'
    BY <1>a, <1>b, <1>9 DEF WProbe, Return, MutexInv
  <2>2. BlockInv'
    BY <1>a, <1>b, <1>9 DEF WProbe, Return, BlockInv, flags
  <2>3. SleepInv'
    BY <1>a, <1>b, <1>9, Zenon DEF WProbe, Return, MutexInv, SleepInv
  <2> QED BY <2>1, <2>2, <2>3, Zenon
<1>10. CASE WNotify(w)
  <2>1. MutexInv'
    BY <1>a, <1>b, <1>10 DEF WNotify, Return, MutexInv
  <2>2. BlockInv'
    BY <1>a, <1>b, <1>10 DEF WNotify, Return, BlockInv, flags
  <2>3. SleepInv'
    <3>1. waiting' = {}
      BY <1>10, NotifyWakes, Zenon DEF WNotify, SleepInv
    <3> QED BY <1>a, <1>10, <3>1, Zenon DEF WNotify, Return, MutexInv, SleepInv
  <2> QED BY <2>1, <2>2, <2>3, Zenon
<1> QED BY <1>1, <1>2, <1>3, <1>4, <1>5, <1>6, <1>7, <1>8, <1>9, <1>10, Zenon

\* The steps of xpipe_read that lock, sleep, probe and notify.
LEMMA ReaderHandshake ==
  ASSUME TypeOK, LockInv, HandInv, NEW r \in Readers,
         \/ RMutex(r) \/ RCheck(r) \/ RRefused(r) \/ RBlock(r) \/ REmpty(r)
         \/ RWait(r) \/ RUnblock(r) \/ RRelease(r) \/ RSignal(r) \/ RProbe(r) \/ RNotify(r)
  PROVE  HandInv'
<1> USE PipeAssumption DEF HandInv, HoldsMutex, HoldsWblock, HoldsRblock, Poised, Threads, At
<1>a. \A l : Goto(r, l) => pc'[r] = l /\ \A s \in Threads : s # r => pc'[s] = pc[s]
  BY Zenon DEF Goto, TypeOK
<1>b. r \in Threads /\ waiting \subseteq Threads
  BY Zenon DEF TypeOK
<1>1. CASE RMutex(r)
  <2>1. MutexInv'
    BY <1>a, <1>b, <1>1, Zenon DEF RMutex, Acquire, MutexInv
  <2>2. BlockInv'
    BY <1>a, <1>b, <1>1, ZenonT(60) DEF RMutex, Acquire, BlockInv, flags
  <2>3. SleepInv'
    BY <1>a, <1>b, <1>1, Zenon DEF RMutex, Acquire, MutexInv, SleepInv
  <2> QED BY <2>1, <2>2, <2>3, Zenon
<1>2. CASE RCheck(r)
  <2>1. MutexInv'
    BY <1>a, <1>b, <1>2, Zenon DEF RCheck, MutexInv
  <2>2. BlockInv'
    BY <1>a, <1>b, <1>2, ZenonT(60) DEF RCheck, BlockInv, flags
  <2>3. SleepInv'
    <3>1. waiting' = {}
      BY <1>2, NotifyWakes, Zenon DEF RCheck, SleepInv
    <3> QED BY <1>a, <1>2, <3>1, Zenon DEF RCheck, MutexInv, SleepInv
  <2> QED BY <2>1, <2>2, <2>3, Zenon
<1>3. CASE RRefused(r)
  <2>1. MutexInv'
    BY <1>a, <1>b, <1>3 DEF RRefused, Return, MutexInv
  <2>2. BlockInv'
    BY <1>a, <1>b, <1>3, ZenonT(60) DEF RRefused, Return, BlockInv, flags
  <2>3. SleepInv'
    BY <1>a, <1>b, <1>3, Zenon DEF RRefused, Return, MutexInv, SleepInv
  <2> QED BY <2>1, <2>2, <2>3, Zenon
<1>4. CASE RBlock(r)
  <2>1. MutexInv'
    BY <1>a, <1>b, <1>4, Zenon DEF RBlock, MutexInv
  <2>2. BlockInv'
    BY <1>a, <1>b, <1>4 DEF RBlock, BlockInv, flags
  <2>3. SleepInv'
    BY <1>a, <1>b, <1>4, Zenon DEF RBlock, MutexInv, SleepInv
  <2> QED BY <2>1, <2>2, <2>3, Zenon
<1>5. CASE REmpty(r)
  <2>1. MutexInv'
    BY <1>a, <1>b, <1>5 DEF REmpty, MutexInv
  <2>2. BlockInv'
    BY <1>a, <1>b, <1>5 DEF REmpty, BlockInv, flags
  <2>3. SleepInv'
    BY <1>a, <1>b, <1>5, Zenon DEF REmpty, MutexInv, SleepInv
  <2> QED BY <2>1, <2>2, <2>3, Zenon
<1>6. CASE RWait(r)
  <2>1. MutexInv'
    BY <1>a, <1>b, <1>6, Zenon DEF RWait, Acquire, MutexInv
  <2>2. BlockInv'
    BY <1>a, <1>b, <1>6 DEF RWait, Acquire, BlockInv, flags
  <2>3. SleepInv'
    BY <1>a, <1>b, <1>6, Zenon DEF RWait, Acquire, MutexInv, SleepInv
  <2> QED BY <2>1, <2>2, <2>3, Zenon
<1>7. CASE RUnblock(r)
  <2>1. MutexInv'
    BY <1>a, <1>b, <1>7, Zenon DEF RUnblock, MutexInv
  <2>2. BlockInv'
    BY <1>a, <1>b, <1>7 DEF RUnblock, BlockInv, flags
  <2>3. SleepInv'
    BY <1>a, <1>b, <1>7, Zenon DEF RUnblock, MutexInv, SleepInv
  <2> QED BY <2>1, <2>2, <2>3, Zenon
<1>8. CASE RRelease(r)
  <2>1. MutexInv'
    BY <1>a, <1>b, <1>8 DEF RRelease, MutexInv
  <2>2. BlockInv'
    BY <1>a, <1>b, <1>8, ZenonT(60) DEF RRelease, BlockInv, flags
  <2>3. SleepInv'
    BY <1>a, <1>b, <1>8, Zenon DEF RRelease, MutexInv, SleepInv
  <2> QED BY <2>1, <2>2, <2>3, Zenon
<1>9. CASE RSignal(r)
  <2>1. MutexInv'
    BY <1>a, <1>b, <1>9 DEF RSignal, MutexInv
  <2>2. BlockInv'
    BY <1>a, <1>b, <1>9 DEF RSignal, BlockInv, flags
  <2>3. SleepInv'
    BY <1>a, <1>b, <1>9 DEF RSignal, MutexInv, SleepInv
  <2> QED BY <2>1, <2>2, <2>3, Zenon
<1>10. CASE RProbe(r)
  <2>1. MutexInv'
    BY <1>a, <1>b, <1>10 DEF RProbe, Return, MutexInv
  <2>2. BlockInv'
    BY <1>a, <1>b, <1>10 DEF RProbe, Return, BlockInv, flags
  <2>3. SleepInv'
    BY <1>a, <1>b, <1>10, Zenon DEF RProbe, Return, MutexInv, SleepInv
  <2> QED BY <2>1, <2>2, <2>3, Zenon
<1>11. CASE RNotify(r)
  <2>1. MutexInv'
    BY <1>a, <1>b, <1>11 DEF RNotify, Return, MutexInv
  <2>2. BlockInv'
    BY <1>a, <1>b, <1>11 DEF RNotify, Return, BlockInv, flags
  <2>3. SleepInv'
    <3>1. waiting' = {}
      BY <1>11, NotifyWakes, Zenon DEF RNotify, SleepInv
    <3> QED BY <1>a, <1>11, <3>1, Zenon DEF RNotify, Return, MutexInv, SleepInv
  <2> QED BY <2>1, <2>2, <2>3, Zenon
<1> QED BY <1>1, <1>2, <1>3, <1>4, <1>5, <1>6, <1>7, <1>8, <1>9, <1>10, <1>11, Zenon

\* A step of a thread that notifies nobody: whoever had to notify still has to.
LEMMA StillSignals ==
  ASSUME TypeOK, NoLostWakeup, NEW t \in Threads, NEW l, Goto(t, l),
         pc[t] \in WSignals => l \in WSignals,
         pc[t] \in RSignals => l \in RSignals,
         UNCHANGED <<writer, reader, waiting>>
  PROVE  NoLostWakeup'
<1>1. /\ pc'[t] = l
      /\ \A s \in Threads : s # t => pc'[s] = pc[s]
  BY Zenon DEF Goto, TypeOK
<1> QED BY <1>1, Zenon DEF NoLostWakeup, WSignals, RSignals, Readable, Writable, Threads

\* The steps of xpipe_write: only the addition to pipe->writer gives a sleeping
\* reader something to read, and the writer then goes on to notify; the flag
\* rblock of the sleeper makes the writer notice it.
LEMMA WriterWakes ==
  ASSUME TypeOK, LockInv, HandInv, NoLostWakeup, NEW w \in Writers, WCall(w) \/ WStep(w)
  PROVE  NoLostWakeup'
<1> USE PipeAssumption DEF At
<1>a. w \in Threads /\ pc[w] \in WLabels /\ pc[w] \notin RSignals
  BY Zenon DEF Threads, LockInv, WLabels, RSignals
<1>b. waiting' = {} => NoLostWakeup'
  BY Zenon DEF NoLostWakeup
<1>1. CASE WCall(w) \/ WLoop(w) \/ WTry(w) \/ WSize(w) \/ WCopy(w) \/ WUnlock(w)
  <2>1. PICK l : Outside(w, l) /\ (pc[w] \in WSignals => l \in WSignals)
    BY <1>1, WriterOutside, Zenon
  <2>2. UNCHANGED <<writer, reader>>
    BY <1>1, Zenon DEF WCall, WLoop, WTry, WSize, WCopy, WUnlock, ring
  <2> QED BY <1>a, <2>1, <2>2, StillSignals, Zenon DEF Outside
<1>2. CASE WAdd(w)
  <2>1. /\ pc'[w] = "w_unlock" /\ waiting' = waiting
        /\ \A r \in Readers : pc'[r] = pc[r]
    BY <1>2, Zenon DEF WAdd, Goto, TypeOK, Threads
  <2>2. Writable' <= Writable /\ Writable \in Int /\ Writable' \in Int
    <3>1. writer \in Nat /\ reader \in Nat /\ n[w] \in Nat /\ PipeLen \in Nat
      BY <1>a DEF TypeOK
    <3> QED BY <1>2, <3>1 DEF WAdd, Writable
  <2> QED BY <2>1, <2>2 DEF NoLostWakeup
<1>3. CASE WMutex(w) \/ WBlock(w) \/ WWait(w) \/ WUnblock(w) \/ WRelease(w) \/ WProbe(w)
  <2>1. PICK l : Goto(w, l) /\ (pc[w] \in WSignals => l \in WSignals)
    BY <1>3, Zenon DEF WMutex, WBlock, WWait, WUnblock, WRelease, WProbe, Return, WSignals
  <2>2. UNCHANGED <<writer, reader, waiting>>
    BY <1>3, Zenon DEF WMutex, WBlock, WWait, WUnblock, WRelease, WProbe, ring
  <2> QED BY <1>a, <2>1, <2>2, StillSignals, Zenon
<1>4. CASE WCheck(w) \/ WNotify(w)
  BY <1>b, <1>4, NotifyWakes, Zenon DEF WCheck, WNotify, HandInv, SleepInv
<1>5. CASE WFull(w)
  <2>1. CASE Writable = 0
    <3>1. /\ waiting' = waiting \cup {w} /\ UNCHANGED <<writer, reader>>
          /\ \A s \in Threads : pc[s] \in WSignals \cup RSignals => pc'[s] = pc[s]
      BY <1>5, <2>1, Zenon DEF WFull, Goto, TypeOK, ring, WSignals, RSignals
    <3>2. \A r \in Readers : r # w
      BY Zenon DEF Threads
    <3> QED BY <2>1, <3>1, <3>2
            DEF NoLostWakeup, Threads, WSignals, RSignals, Readable, Writable
  <2>2. CASE Writable # 0
    <3>1. Goto(w, "w_unblock") /\ pc[w] \notin WSignals /\ UNCHANGED <<writer, reader, waiting>>
      BY <1>5, <2>2, Zenon DEF WFull, WSignals, ring
    <3> QED BY <1>a, <3>1, StillSignals, Zenon
  <2> QED BY <2>1, <2>2, Zenon
<1>6. CASE WSignal(w)
  <2>1. CASE rblock
    <3>1. Goto(w, "w_notify") /\ UNCHANGED <<writer, reader, waiting>>
      BY <1>6, <2>1, Zenon DEF WSignal, ring
    <3> QED BY <1>a, <3>1, StillSignals, Zenon DEF WSignals
  <2>2. CASE ~rblock
    <3>1. \A r \in Readers : r \notin waiting
      BY <2>2, Zenon DEF HandInv, BlockInv, SleepInv, HoldsRblock, LockInv, WLabels, RLabels, Threads
    <3>2. /\ UNCHANGED <<writer, reader, waiting>>
          /\ \A r \in Readers : pc'[r] = pc[r]
      BY <1>6, Zenon DEF WSignal, Goto, TypeOK, Threads, ring
    <3> QED BY <3>1, <3>2, Zenon DEF NoLostWakeup, Writable
  <2> QED BY <2>1, <2>2, Zenon
<1> QED BY <1>1, <1>2, <1>3, <1>4, <1>5, <1>6, Zenon DEF WStep

\* The steps of xpipe_read, likewise.
LEMMA ReaderWakes ==
  ASSUME TypeOK, LockInv, HandInv, NoLostWakeup, NEW r \in Readers, RStep(r)
  PROVE  NoLostWakeup'
<1> USE PipeAssumption DEF At
<1>a. r \in Threads /\ pc[r] \in RLabels /\ pc[r] \notin WSignals
  BY Zenon DEF Threads, LockInv, RLabels, WSignals
<1>b. waiting' = {} => NoLostWakeup'
  BY Zenon DEF NoLostWakeup
<1>1. CASE RCall(r) \/ RTry(r) \/ RSize(r) \/ RCopy(r) \/ RUnlock(r)
  <2>1. PICK l : Outside(r, l) /\ (pc[r] \in RSignals => l \in RSignals)
    BY <1>1, ReaderOutside, Zenon
  <2>2. UNCHANGED <<writer, reader>>
    BY <1>1, Zenon DEF RCall, RTry, RSize, RCopy, RUnlock, ring
  <2> QED BY <1>a, <2>1, <2>2, StillSignals, Zenon DEF Outside
<1>2. CASE RAdd(r)
  <2>1. /\ pc'[r] = "r_unlock" /\ waiting' = waiting
        /\ \A w \in Writers : pc'[w] = pc[w]
    BY <1>2, Zenon DEF RAdd, Goto, TypeOK, Threads
  <2>2. Readable' <= Readable /\ Readable \in Int /\ Readable' \in Int
    <3>1. writer \in Nat /\ reader \in Nat /\ n[r] \in Nat /\ PipeLen \in Nat
      BY <1>a DEF TypeOK
    <3> QED BY <1>2, <3>1 DEF RAdd, Readable
  <2> QED BY <2>1, <2>2 DEF NoLostWakeup
<1>3. CASE RMutex(r) \/ RBlock(r) \/ RWait(r) \/ RUnblock(r) \/ RRelease(r) \/ RProbe(r)
  <2>1. PICK l : Goto(r, l) /\ (pc[r] \in RSignals => l \in RSignals)
    BY <1>3, Zenon DEF RMutex, RBlock, RWait, RUnblock, RRelease, RProbe, Return, RSignals
  <2>2. UNCHANGED <<writer, reader, waiting>>
    BY <1>3, Zenon DEF RMutex, RBlock, RWait, RUnblock, RRelease, RProbe, ring
  <2> QED BY <1>a, <2>1, <2>2, StillSignals, Zenon
<1>4. CASE RCheck(r) \/ RRefused(r) \/ RNotify(r)
  BY <1>b, <1>4, NotifyWakes, Zenon DEF RCheck, RRefused, RNotify, HandInv, SleepInv
<1>5. CASE REmpty(r)
  <2>1. CASE Readable = 0
    <3>1. /\ waiting' = waiting \cup {r} /\ UNCHANGED <<writer, reader>>
          /\ \A s \in Threads : pc[s] \in WSignals \cup RSignals => pc'[s] = pc[s]
      BY <1>5, <2>1, Zenon DEF REmpty, Goto, TypeOK, ring, WSignals, RSignals
    <3>2. \A w \in Writers : w # r
      BY Zenon DEF Threads
    <3> QED BY <2>1, <3>1, <3>2
            DEF NoLostWakeup, Threads, WSignals, RSignals, Readable, Writable
  <2>2. CASE Readable # 0
    <3>1. Goto(r, "r_unblock") /\ pc[r] \notin RSignals /\ UNCHANGED <<writer, reader, waiting>>
      BY <1>5, <2>2, Zenon DEF REmpty, RSignals, ring
    <3> QED BY <1>a, <3>1, StillSignals, Zenon
  <2> QED BY <2>1, <2>2, Zenon
<1>6. CASE RSignal(r)
  <2>1. CASE wblock
    <3>1. Goto(r, "r_notify") /\ UNCHANGED <<writer, reader, waiting>>
      BY <1>6, <2>1, Zenon DEF RSignal, ring
    <3> QED BY <1>a, <3>1, StillSignals, Zenon DEF RSignals
  <2>2. CASE ~wblock
    <3>1. \A w \in Writers : w \notin waiting
      BY <2>2, Zenon DEF HandInv, BlockInv, SleepInv, HoldsWblock, LockInv, WLabels, RLabels, Threads
    <3>2. /\ UNCHANGED <<writer, reader, waiting>>
          /\ \A w \in Writers : pc'[w] = pc[w]
      BY <1>6, Zenon DEF RSignal, Goto, TypeOK, Threads, ring
    <3> QED BY <3>1, <3>2, Zenon DEF NoLostWakeup, Readable
  <2> QED BY <2>1, <2>2, Zenon
<1> QED BY <1>1, <1>2, <1>3, <1>4, <1>5, <1>6, Zenon DEF RStep

\* xpipe_break, xpipe_free and a spurious wake-up: nobody new sleeps.
LEMMA OwnerWakes ==
  ASSUME TypeOK, WakeInv, Break \/ Spurious \/ Free \/ UNCHANGED vars
  PROVE  WakeInv'
<1> USE DEF WakeInv, HandInv
<1>1. /\ UNCHANGED <<pc, mutex, wblock, rblock>> /\ waiting' \subseteq waiting
      /\ breaker' => breaker \/ waiting' = {}
      /\ waiting' = {} \/ (UNCHANGED <<writer, reader>> /\ breaker' = breaker)
      /\ breaker' # breaker => mutex = NoThread
  <2>1. CASE Break
    BY <2>1, Zenon DEF Break, flags
  <2>2. CASE Spurious
    BY <2>2, Zenon DEF Spurious, flags, ring
  <2>3. CASE Free
    BY <2>3, Zenon DEF Free, Clear, flags, SleepInv
  <2>4. CASE UNCHANGED vars
    BY <2>4, Zenon DEF vars, flags, ring
  <2> QED BY <2>1, <2>2, <2>3, <2>4, Zenon
<1>2. MutexInv' /\ BlockInv'
  BY <1>1, Zenon DEF MutexInv, BlockInv, HoldsMutex, HoldsWblock, HoldsRblock
<1>3. SleepInv'
  BY <1>1, PipeAssumption DEF SleepInv, MutexInv, HoldsMutex, Poised, TypeOK
<1>4. NoLostWakeup'
  BY <1>1, Zenon DEF NoLostWakeup, Readable, Writable
<1> QED BY <1>2, <1>3, <1>4, Zenon

\* Every step keeps the invariant of the handshake.
LEMMA NextWakes ==
  ASSUME TypeOK, LockInv, WakeInv, [Next]_vars
  PROVE  WakeInv'
<1>a. HandInv /\ NoLostWakeup
  BY Zenon DEF WakeInv
<1>1. ASSUME NEW w \in Writers, WCall(w) \/ WStep(w)
      PROVE  WakeInv'
  <2>1. w \in Threads
    BY Zenon DEF Threads
  <2>2. HandInv'
    BY <1>a, <1>1, <2>1, WriterOutside, OutsideStep, WriterHandshake, Zenon DEF WStep
  <2> QED BY <1>a, <1>1, <2>2, WriterWakes, Zenon DEF WakeInv
<1>2. ASSUME NEW r \in Readers, RStep(r)
      PROVE  WakeInv'
  <2>1. r \in Threads
    BY Zenon DEF Threads
  <2>2. HandInv'
    BY <1>a, <1>2, <2>1, ReaderOutside, OutsideStep, ReaderHandshake, Zenon DEF RStep
  <2> QED BY <1>a, <1>2, <2>2, ReaderWakes, Zenon DEF WakeInv
<1>3. CASE Break \/ Spurious \/ Free \/ Finished \/ UNCHANGED vars
  BY <1>a, <1>3, OwnerWakes, Zenon DEF Finished
<1> QED BY <1>1, <1>2, <1>3, Zenon DEF Next

=============================================================================
