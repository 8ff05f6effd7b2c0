--------------------------- MODULE XPipeMessages ----------------------------
(***************************************************************************)
(* The messages that go through the pipe: a unit is committed once, and    *)
(* when MsgLen divides the pipe's length the units of a message stay       *)
(* together.                                                               *)
(***************************************************************************)
EXTENDS XPipeRing

\* How far a writer is in its message, as far as it is committed.
Done(w) == pos[w] + (IF pc[w] = "w_unlock" THEN n[w] ELSE 0)

\* What is committed of the call that a writer is in is what it has done of it.
UnitsInv ==
  /\ \A i \in 1..Len(sent), w \in Writers, c \in 1..MaxCalls, j \in 1..MsgLen :
       sent[i] = <<w, c, j>> =>
         c <= calls[w] /\ (c = calls[w] /\ pc[w] # "idle" => j <= Done(w))
  /\ \A i, j \in 1..Len(sent) : i # j => sent[i] # sent[j]
  /\ \A w \in Writers : pc[w] \notin {"w_copy", "w_add", "w_unlock"} => n[w] = 0

\* The history is a whole messages.
Whole(a) ==
  /\ Len(sent) = MsgLen * a
  /\ \A k \in 1..a : \E m \in Writers \X (1..MaxCalls) :
       \A j \in 1..MsgLen : sent[(k - 1) * MsgLen + j] = <<m[1], m[2], j>>

\* Every call moves its message in one part, or not yet.
MsgInv ==
  /\ \E a \in Nat : Whole(a)
  /\ \E b \in Nat : reader = MsgLen * b
  /\ \A t \in Threads : pos[t] \in {0, MsgLen} /\ n[t] \in {0, MsgLen}
  /\ \A w \in Writers : pc[w] \in {"w_copy", "w_add"} => n[w] = MsgLen

\* A step of a thread that commits nothing and takes nothing out.
Passes(t) ==
  /\ UNCHANGED <<sent, reader>>
  /\ \A s \in Threads : s # t => pc'[s] = pc[s] /\ pos'[s] = pos[s] /\ n'[s] = n[s]
  /\ \/ pc'[t] \in {"idle", "exit"} /\ pos'[t] = 0 /\ n'[t] = 0
     \/ /\ pos'[t] = pos[t] /\ n'[t] = n[t]
        /\ pc[t] # "w_unlock" /\ pc'[t] # "w_unlock"
        /\ pc[t] \in {"w_copy", "w_add"} <=> pc'[t] \in {"w_copy", "w_add"}

\* A writer's steps other than the ones of __xpipe_write that count.
LEMMA WriterPasses ==
  ASSUME TypeOK, NEW w \in Writers,
         \/ WCall(w) \/ WLoop(w) \/ WTry(w) \/ WCopy(w) \/ WMutex(w) \/ WCheck(w)
         \/ WBlock(w) \/ WFull(w) \/ WWait(w) \/ WUnblock(w)
         \/ WRelease(w) \/ WSignal(w) \/ WProbe(w) \/ WNotify(w)
  PROVE  Passes(w) /\ ((calls' = calls /\ pc[w] # "idle") \/ WCall(w))
<1> USE DEF At, ring, hist
<1>1. UNCHANGED <<sent, reader>> /\ ((calls' = calls /\ pc[w] # "idle") \/ WCall(w))
  BY Zenon DEF WCall, WLoop, WTry, WCopy, WMutex, WCheck, WBlock, WFull, WWait, WUnblock,
         WRelease, WSignal, WProbe, WNotify
<1>2. \/ \E l : /\ Goto(w, l) /\ UNCHANGED <<pos, n>>
                /\ pc[w] # "w_unlock" /\ l # "w_unlock"
                /\ pc[w] \in {"w_copy", "w_add"} <=> l \in {"w_copy", "w_add"}
      \/ Return(w, "idle")
  <2>1. CASE WLoop(w)
    BY <2>1 DEF WLoop
  <2>2. CASE WTry(w)
    BY <2>2 DEF WTry
  <2>3. CASE WCheck(w)
    BY <2>3 DEF WCheck
  <2>4. CASE WFull(w)
    BY <2>4 DEF WFull
  <2>5. CASE WSignal(w)
    BY <2>5 DEF WSignal
  <2>6. CASE \/ WCall(w) \/ WCopy(w) \/ WMutex(w) \/ WBlock(w) \/ WWait(w)
             \/ WUnblock(w) \/ WRelease(w) \/ WProbe(w) \/ WNotify(w)
    BY <2>6, SMTT(40) DEF WCall, WCopy, WMutex, WBlock, WWait, WUnblock, WRelease, WProbe, WNotify
  <2> QED BY <2>1, <2>2, <2>3, <2>4, <2>5, <2>6, Zenon
<1>3. w \in Threads
  BY Zenon DEF Threads
<1> QED BY <1>1, <1>2, <1>3, Zenon DEF Passes, Goto, Return, TypeOK

\* A reader's steps other than the ones of __xpipe_read that count.
LEMMA ReaderPasses ==
  ASSUME TypeOK, LockInv, NEW r \in Readers,
         \/ RCall(r) \/ RTry(r) \/ RCopy(r) \/ RMutex(r) \/ RCheck(r) \/ RRefused(r)
         \/ RBlock(r) \/ REmpty(r) \/ RWait(r) \/ RUnblock(r)
         \/ RRelease(r) \/ RSignal(r) \/ RProbe(r) \/ RNotify(r)
  PROVE  Passes(r) /\ calls' = calls
<1> USE DEF At, ring, hist
<1>1. UNCHANGED <<sent, reader, calls>>
  BY Zenon DEF RCall, RTry, RCopy, RMutex, RCheck, RRefused, RBlock, REmpty, RWait, RUnblock,
         RRelease, RSignal, RProbe, RNotify
<1>2. \/ \E l \in RLabels : Goto(r, l) /\ UNCHANGED <<pos, n>>
      \/ Return(r, "idle") \/ Return(r, "exit")
  <2>1. CASE RTry(r)
    BY <2>1, Zenon DEF RTry, RLabels
  <2>2. CASE REmpty(r)
    BY <2>2, Zenon DEF REmpty, RLabels
  <2>3. CASE RSignal(r)
    BY <2>3, Zenon DEF RSignal, RLabels
  <2>4. CASE \/ RCall(r) \/ RCopy(r) \/ RMutex(r) \/ RCheck(r) \/ RRefused(r) \/ RBlock(r)
             \/ RWait(r) \/ RUnblock(r) \/ RRelease(r) \/ RProbe(r) \/ RNotify(r)
    BY <2>4, Zenon DEF RCall, RCopy, RMutex, RCheck, RRefused, RBlock, RWait, RUnblock, RRelease,
                RProbe, RNotify, RLabels
  <2> QED BY <2>1, <2>2, <2>3, <2>4, Zenon
<1>3. r \in Threads /\ pc[r] \in RLabels
  BY Zenon DEF Threads, LockInv
<1> QED BY <1>1, <1>2, <1>3, Zenon DEF Passes, Goto, Return, TypeOK, RLabels

\* Done is a number of units.
LEMMA DoneType ==
  ASSUME TypeOK, TypeOK', NEW w \in Writers
  PROVE  Done(w) \in Int /\ Done(w)' \in Int
<1>1. /\ pos[w] \in 0..MsgLen /\ n[w] \in 0..MsgLen
      /\ pos'[w] \in 0..MsgLen /\ n'[w] \in 0..MsgLen
  BY Zenon DEF TypeOK, Threads
<1> QED BY <1>1 DEF Done

\* Nothing is committed and no writer loses count.
LEMMA UnitsKept ==
  ASSUME TypeOK, TypeOK', UnitsInv, sent' = sent, calls' = calls,
         \A w \in Writers : pc'[w] = "idle" \/ (pc[w] # "idle" /\ Done(w) <= Done(w)'),
         \A w \in Writers : pc'[w] \notin {"w_copy", "w_add", "w_unlock"} => n'[w] = 0
  PROVE  UnitsInv'
<1>1. \A w \in Writers : Done(w) \in Int /\ Done(w)' \in Int
  BY DoneType, Zenon
<1> SUFFICES ASSUME NEW i \in 1..Len(sent), NEW w \in Writers, NEW c \in 1..MaxCalls,
                    NEW j \in 1..MsgLen, sent[i] = <<w, c, j>>
             PROVE  c <= calls[w] /\ (c = calls[w] /\ pc'[w] # "idle" => j <= Done(w)')
  BY Zenon DEF UnitsInv
<1>2. c <= calls[w] /\ (c = calls[w] /\ pc[w] # "idle" => j <= Done(w))
  BY Zenon DEF UnitsInv
<1> QED BY <1>1, <1>2

\* A step that passes, of a writer inside its call or of a reader.
LEMMA UnitsPass ==
  ASSUME TypeOK, TypeOK', UnitsInv, NEW t \in Threads, Passes(t), calls' = calls,
         t \in Writers => pc[t] # "idle",
         t \in Writers => pc'[t] # "exit"
  PROVE  UnitsInv'
<1>1. ASSUME NEW w \in Writers
      PROVE  /\ pc'[w] = "idle" \/ (pc[w] # "idle" /\ Done(w) <= Done(w)')
             /\ pc'[w] \notin {"w_copy", "w_add", "w_unlock"} => n'[w] = 0
  <2>1. Done(w) \in Int /\ Done(w)' \in Int
    BY DoneType, Zenon
  <2>2. CASE w = t
    BY <2>1, <2>2 DEF Passes, Done, UnitsInv
  <2>3. CASE w # t
    BY <2>1, <2>3 DEF Passes, Done, UnitsInv, Threads
  <2> QED BY <2>2, <2>3, Zenon
<1> QED BY <1>1, UnitsKept, Zenon DEF Passes

\* The call of xpipe_write begins a message that is not in the history.
LEMMA UnitsCall ==
  ASSUME TypeOK, TypeOK', UnitsInv, NEW w \in Writers, WCall(w)
  PROVE  UnitsInv'
<1>1. /\ sent' = sent /\ calls[w] \in Nat /\ calls'[w] = calls[w] + 1
      /\ \A v \in Writers : v # w => calls'[v] = calls[v] /\ pc'[v] = pc[v]
      /\ pos' = pos /\ n' = n /\ pc[w] = "idle"
  BY DEF WCall, At, Goto, TypeOK, hist, Threads
<1>2. ASSUME NEW i \in 1..Len(sent), NEW v \in Writers, NEW c \in 1..MaxCalls,
             NEW j \in 1..MsgLen, sent[i] = <<v, c, j>>
      PROVE  c <= calls'[v] /\ (c = calls'[v] /\ pc'[v] # "idle" => j <= Done(v)')
  <2>1. c <= calls[v] /\ (c = calls[v] /\ pc[v] # "idle" => j <= Done(v))
    BY <1>2, Zenon DEF UnitsInv
  <2>2. CASE v = w
    BY <1>1, <2>1, <2>2
  <2>3. CASE v # w
    BY <1>1, <2>1, <2>3, Zenon DEF Done
  <2> QED BY <2>2, <2>3, Zenon
<1>3. \A v \in Writers : pc'[v] \notin {"w_copy", "w_add", "w_unlock"} => n'[v] = 0
  BY <1>1, Zenon DEF UnitsInv
<1> QED BY <1>1, <1>2, <1>3, Zenon DEF UnitsInv

\* The addition to pipe->writer commits units that were not committed before.
LEMMA UnitsAdd ==
  ASSUME IInv, TypeOK', UnitsInv, NEW w \in Writers, WAdd(w)
  PROVE  UnitsInv'
<1>1. /\ UNCHANGED <<calls, pos, n>> /\ pc[w] = "w_add" /\ pc'[w] = "w_unlock"
      /\ \A v \in Writers : v # w => pc'[v] = pc[v]
      /\ n[w] \in Nat /\ pos[w] \in Nat /\ pos[w] + n[w] <= MsgLen
      /\ calls[w] \in 1..MaxCalls
  <2>1. /\ UNCHANGED <<calls, pos, n>> /\ pc[w] = "w_add" /\ pc'[w] = "w_unlock"
        /\ \A v \in Writers : v # w => pc'[v] = pc[v]
    BY Zenon DEF WAdd, At, Goto, IInv, TypeOK, Threads
  <2>2. n[w] \in 0..MsgLen /\ pos[w] \in 0..MsgLen /\ calls[w] \in 0..MaxCalls
    BY Zenon DEF IInv, TypeOK, Threads
  <2>3. pos[w] + n[w] <= MsgLen /\ calls[w] > 0
    BY <2>1, Zenon DEF IInv, WriterInv
  <2> QED BY <2>1, <2>2, <2>3, PipeAssumption
<1>2. /\ Len(sent) \in Nat /\ Len(sent') = Len(sent) + n[w]
      /\ \A i \in 1..Len(sent) : sent'[i] = sent[i]
      /\ \A d \in 1..n[w] : sent'[Len(sent) + d] = <<w, calls[w], pos[w] + d>>
  <2>1. \A d \in 1..n[w] : pos[w] + d \in 1..MsgLen
    BY <1>1, PipeAssumption
  <2>2. \A d \in 1..n[w] : Message(w)[pos[w] + d] = <<w, calls[w], pos[w] + d>>
    BY <2>1, Zenon DEF Message
  <2>3. Len(sent) \in Nat
    BY DEF IInv, TypeOK
  <2> QED BY <2>2, <2>3, Committed, Zenon
<1>3. \A i \in 1..Len(sent') :
        \/ i \in 1..Len(sent) /\ sent'[i] = sent[i]
        \/ \E d \in 1..n[w] : i = Len(sent) + d /\ sent'[i] = <<w, calls[w], pos[w] + d>>
  <2> SUFFICES ASSUME NEW i \in 1..Len(sent'), i \notin 1..Len(sent)
               PROVE  \E d \in 1..n[w] : i = Len(sent) + d
    BY <1>2, Zenon
  <2>1. i - Len(sent) \in 1..n[w] /\ i = Len(sent) + (i - Len(sent))
    BY <1>1, <1>2
  <2> QED BY <2>1, Zenon
<1>4. \A i \in 1..Len(sent), d \in 1..n[w] : sent[i] # <<w, calls[w], pos[w] + d>>
  <2> SUFFICES ASSUME NEW i \in 1..Len(sent), NEW d \in 1..n[w],
                      sent[i] = <<w, calls[w], pos[w] + d>>
               PROVE  FALSE
    BY Zenon
  <2>1. pos[w] + d \in 1..MsgLen /\ ~(pos[w] + d <= pos[w])
    BY <1>1, PipeAssumption
  <2>2. pos[w] + d <= Done(w)
    BY <1>1, <2>1, Zenon DEF UnitsInv
  <2> QED BY <1>1, <2>1, <2>2 DEF Done
<1>5. \A i, j \in 1..Len(sent') : i # j => sent'[i] # sent'[j]
  <2> SUFFICES ASSUME NEW i \in 1..Len(sent'), NEW j \in 1..Len(sent'), i # j,
                      sent'[i] = sent'[j]
               PROVE  FALSE
    BY Zenon
  <2>1. CASE i \in 1..Len(sent) /\ j \in 1..Len(sent)
    BY <1>2, <2>1, Zenon DEF UnitsInv
  <2>2. CASE i \notin 1..Len(sent) /\ j \notin 1..Len(sent)
    <3>1. PICK d \in 1..n[w] : i = Len(sent) + d /\ sent'[i] = <<w, calls[w], pos[w] + d>>
      BY <1>3, <2>2, Zenon
    <3>2. PICK e \in 1..n[w] : j = Len(sent) + e /\ sent'[j] = <<w, calls[w], pos[w] + e>>
      BY <1>3, <2>2, Zenon
    <3>3. pos[w] + d = pos[w] + e
      BY <3>1, <3>2
    <3> QED BY <1>1, <3>1, <3>2, <3>3, SMTT(40)
  <2>3. CASE i \in 1..Len(sent) /\ j \notin 1..Len(sent)
    BY <1>2, <1>3, <1>4, <2>3, Zenon
  <2>4. CASE i \notin 1..Len(sent) /\ j \in 1..Len(sent)
    BY <1>2, <1>3, <1>4, <2>4, Zenon
  <2> QED BY <2>1, <2>2, <2>3, <2>4, Zenon
<1>6. ASSUME NEW i \in 1..Len(sent'), NEW v \in Writers, NEW c \in 1..MaxCalls,
             NEW j \in 1..MsgLen, sent'[i] = <<v, c, j>>
      PROVE  c <= calls[v] /\ (c = calls[v] /\ pc'[v] # "idle" => j <= Done(v)')
  <2>1. CASE i \in 1..Len(sent)
    <3>1. c <= calls[v] /\ (c = calls[v] /\ pc[v] # "idle" => j <= Done(v))
      BY <1>2, <1>6, <2>1, Zenon DEF UnitsInv
    <3> QED BY <1>1, <3>1 DEF Done
  <2>2. CASE i \notin 1..Len(sent)
    <3>1. PICK d \in 1..n[w] : sent'[i] = <<w, calls[w], pos[w] + d>>
      BY <1>3, <2>2, Zenon
    <3>2. v = w /\ c = calls[w] /\ j = pos[w] + d
      BY <1>6, <3>1
    <3> QED BY <1>1, <3>2 DEF Done
  <2> QED BY <2>1, <2>2, Zenon
<1>7. \A v \in Writers : pc'[v] \notin {"w_copy", "w_add", "w_unlock"} => n'[v] = 0
  BY <1>1, Zenon DEF UnitsInv
<1> QED BY <1>1, <1>5, <1>6, <1>7, Zenon DEF UnitsInv

\* Every step commits each unit once.
LEMMA UnitsNext ==
  ASSUME IInv, IInv', UnitsInv, [Next]_vars
  PROVE  UnitsInv'
<1>a. TypeOK /\ TypeOK' /\ LockInv /\ LockInv'
  BY Zenon DEF IInv
<1>1. ASSUME NEW w \in Writers, WCall(w) \/ WStep(w), ~WSize(w), ~WAdd(w), ~WUnlock(w)
      PROVE  UnitsInv'
  <2>1. Passes(w) /\ ((calls' = calls /\ pc[w] # "idle") \/ WCall(w))
    BY <1>a, <1>1, WriterPasses, Zenon DEF WStep
  <2>2. w \in Threads /\ pc'[w] # "exit"
    BY <1>a, Zenon DEF Threads, LockInv, WLabels
  <2> QED BY <1>a, <2>1, <2>2, UnitsPass, UnitsCall, Zenon
<1>2. ASSUME NEW w \in Writers, WSize(w) \/ WUnlock(w)
      PROVE  UnitsInv'
  <2>1. /\ n[w] \in 0..MsgLen /\ pos[w] \in 0..MsgLen /\ n'[w] \in 0..MsgLen
        /\ w \in Threads
    BY <1>a, Zenon DEF TypeOK, Threads
  <2>2. /\ sent' = sent /\ calls' = calls
        /\ \A v \in Writers : v # w => pc'[v] = pc[v] /\ pos'[v] = pos[v] /\ n'[v] = n[v]
    BY <1>a, <1>2, Zenon DEF WSize, WUnlock, Goto, hist, TypeOK, Threads
  <2>3. /\ pc[w] # "idle" /\ Done(w) <= Done(w)'
        /\ pc'[w] \notin {"w_copy", "w_add", "w_unlock"} => n'[w] = 0
    <3>1. CASE WSize(w)
      <4>1. pc[w] = "w_size" /\ pc'[w] \in {"w_copy", "w_unlock"} /\ pos' = pos
        BY <1>a, <2>1, <3>1, Zenon DEF WSize, At, Goto, TypeOK
      <4> QED BY <2>1, <4>1, PipeAssumption DEF Done
    <3>2. CASE WUnlock(w)
      <4>1. /\ pc[w] = "w_unlock" /\ pc'[w] \in {"w_mutex", "w_signal"}
            /\ pos'[w] = pos[w] + n[w] /\ n'[w] = 0
        BY <1>a, <2>1, <3>2, Zenon DEF WUnlock, At, Goto, TypeOK
      <4> QED BY <2>1, <4>1, PipeAssumption DEF Done
    <3> QED BY <1>2, <3>1, <3>2, Zenon
  <2>4. \A v \in Writers : v # w => Done(v)' = Done(v)
    BY <2>2, Zenon DEF Done
  <2>5. \A v \in Writers : /\ pc'[v] = "idle" \/ (pc[v] # "idle" /\ Done(v) <= Done(v)')
                           /\ pc'[v] \notin {"w_copy", "w_add", "w_unlock"} => n'[v] = 0
    BY <1>a, <2>2, <2>3, <2>4, DoneType DEF UnitsInv
  <2> QED BY <1>a, <2>2, <2>5, UnitsKept, Zenon
<1>3. ASSUME NEW w \in Writers, WAdd(w)
      PROVE  UnitsInv'
  BY <1>a, <1>3, UnitsAdd, Zenon
<1>4. ASSUME NEW r \in Readers, RStep(r)
      PROVE  UnitsInv'
  <2>1. CASE RSize(r) \/ RAdd(r) \/ RUnlock(r)
    <3>1. /\ sent' = sent /\ calls' = calls
          /\ \A v \in Writers : pc'[v] = pc[v] /\ pos'[v] = pos[v] /\ n'[v] = n[v]
      BY <1>a, <2>1, PipeAssumption, Zenon DEF RSize, RAdd, RUnlock, Goto, hist, TypeOK, Threads
    <3>2. \A v \in Writers : Done(v)' = Done(v)
      BY <3>1, Zenon DEF Done
    <3>3. \A v \in Writers : /\ pc'[v] = "idle" \/ (pc[v] # "idle" /\ Done(v) <= Done(v)')
                             /\ pc'[v] \notin {"w_copy", "w_add", "w_unlock"} => n'[v] = 0
      BY <1>a, <3>1, <3>2, DoneType DEF UnitsInv
    <3> QED BY <1>a, <3>1, <3>3, UnitsKept, Zenon
  <2>2. CASE ~(RSize(r) \/ RAdd(r) \/ RUnlock(r))
    <3>1. Passes(r) /\ calls' = calls
      BY <1>a, <1>4, <2>2, ReaderPasses, Zenon DEF RStep
    <3>2. r \in Threads /\ r \notin Writers
      BY PipeAssumption, Zenon DEF Threads
    <3> QED BY <1>a, <3>1, <3>2, UnitsPass, Zenon
  <2> QED BY <2>1, <2>2, Zenon
<1>5. CASE Break \/ Spurious \/ Free \/ Finished \/ UNCHANGED vars
  <2>1. UNCHANGED <<sent, calls, pc, pos, n>>
    BY <1>5, Zenon DEF Break, Spurious, Free, Clear, Finished, vars, hist
  <2>2. \A v \in Writers : Done(v)' = Done(v)
    BY <2>1, Zenon DEF Done
  <2> QED BY <1>a, <2>1, <2>2, DoneType, UnitsKept DEF UnitsInv
<1> QED BY <1>1, <1>2, <1>3, <1>4, <1>5, Zenon DEF Next

----------------------------------------------------------------------------
(* Whole messages *)

\* The ring holds a whole number of messages.
Divides == \E q \in Nat : PipeLen = MsgLen * q

\* A number of whole messages that is not 0 is one at least.
LEMMA LeastWhole ==
  ASSUME NEW m \in Nat \ {0}, NEW c \in Int, 0 <= m * c, NEW p \in {0, m}
  PROVE  Least(m * c, m - p) \in {0, m}
<1>1. CASE c <= 0
  <2>1. m * c <= 0
    BY <1>1
  <2> QED BY <2>1 DEF Least
<1>2. CASE c >= 1
  <2>1. m * c = m + m * (c - 1) /\ m * (c - 1) >= 0
    BY <1>2
  <2> QED BY <2>1 DEF Least
<1> QED BY <1>1, <1>2

\* The numbers of whole messages: what the additions to the counters do.
LEMMA WholeSum ==
  ASSUME NEW m \in Nat \ {0}, NEW a \in Nat, NEW b \in Nat, NEW q \in Nat
  PROVE  /\ m * q - m * a + m * b = m * (q - a + b)
         /\ m * a - m * b = m * (a - b)
         /\ m * a + m = m * (a + 1)
OBVIOUS

\* The j-th unit of the k-th of a messages is one of the first m * a units.
LEMMA WholeIndex ==
  ASSUME NEW m \in Nat \ {0}, NEW a \in Nat, NEW k \in 1..a, NEW j \in 1..m
  PROVE  (k - 1) * m + j \in 1..(m * a)
<1>1. (k - 1) * m >= 0 /\ (a - k) * m >= 0
  OBVIOUS
<1>2. m * a = (k - 1) * m + m + (a - k) * m
  OBVIOUS
<1>3. (k - 1) * m \in Nat /\ (a - k) * m \in Nat /\ m * a \in Nat
  BY <1>1
<1> QED BY <1>2, <1>3

\* A step that passes moves no part of a message.
LEMMA MsgPass ==
  ASSUME TypeOK, MsgInv, NEW t \in Threads, Passes(t)
  PROVE  MsgInv'
<1>1. \A a \in Nat : Whole(a)' = Whole(a)
  BY Zenon DEF Passes, Whole
<1>2. \A s \in Threads : pos'[s] \in {0, MsgLen} /\ n'[s] \in {0, MsgLen}
  BY Zenon DEF Passes, MsgInv
<1>3. \A w \in Writers : pc'[w] \in {"w_copy", "w_add"} => n'[w] = MsgLen
  BY Zenon DEF Passes, MsgInv, Threads
<1> QED BY <1>1, <1>2, <1>3, Zenon DEF Passes, MsgInv

\* __xpipe_write takes the room for a whole message or none.
LEMMA MsgSize ==
  ASSUME IInv, IInv', MsgInv, Divides, NEW w \in Writers, WSize(w)
  PROVE  MsgInv'
<1> USE PipeAssumption
<1>1. PICK a \in Nat, b \in Nat : Whole(a) /\ reader = MsgLen * b
  BY Zenon DEF MsgInv
<1>2. PICK q \in Nat : PipeLen = MsgLen * q
  BY Zenon DEF Divides
<1>3. ~freed /\ pc[w] = "w_size" /\ w \in Threads
  BY Zenon DEF IInv, FreedInv, WSize, At, Threads
<1>4. writer = MsgLen * a /\ Writable = MsgLen * (q - a + b) /\ 0 <= Writable
  <2>1. writer = MsgLen * a /\ 0 <= Writable
    BY <1>1, <1>3 DEF IInv, RingInv, Whole, TypeOK, Readable, Writable
  <2> QED BY <1>1, <1>2, <2>1, WholeSum DEF Writable
<1>5. n'[w] \in {0, MsgLen}
  <2>1. pos[w] \in {0, MsgLen} /\ n'[w] = Least(Writable, MsgLen - pos[w])
    BY <1>3, Zenon DEF MsgInv, WSize, IInv, TypeOK
  <2>2. q - a + b \in Int /\ 0 <= MsgLen * (q - a + b)
    BY <1>4
  <2>3. Least(MsgLen * (q - a + b), MsgLen - pos[w]) \in {0, MsgLen}
    BY <2>1, <2>2, LeastWhole, Zenon
  <2> QED BY <1>4, <2>1, <2>3, Zenon
<1>6. /\ UNCHANGED <<sent, reader, pos>>
      /\ \A t \in Threads : t # w => pc'[t] = pc[t] /\ n'[t] = n[t]
      /\ pc'[w] = "w_copy" => n'[w] > 0
      /\ pc'[w] # "w_add"
  BY <1>3, Zenon DEF WSize, Goto, IInv, TypeOK, ring, hist
<1>7. \A c \in Nat : Whole(c)' = Whole(c)
  BY <1>6, ZenonT(60) DEF Whole
<1>8. \A v \in Writers : pc'[v] \in {"w_copy", "w_add"} => n'[v] = MsgLen
  BY <1>5, <1>6 DEF MsgInv, Threads
<1> QED BY <1>5, <1>6, <1>7, <1>8, Zenon DEF MsgInv

\* The addition to pipe->writer commits a whole message.
LEMMA MsgAdd ==
  ASSUME IInv, IInv', MsgInv, NEW w \in Writers, WAdd(w)
  PROVE  MsgInv'
<1> USE PipeAssumption
<1>1. PICK a \in Nat : Whole(a)
  BY Zenon DEF MsgInv
<1>2. /\ UNCHANGED <<reader, calls, pos, n>> /\ pc[w] = "w_add" /\ pc'[w] = "w_unlock"
      /\ \A v \in Writers : v # w => pc'[v] = pc[v]
      /\ w \in Threads
  BY Zenon DEF WAdd, At, Goto, IInv, TypeOK, Threads
<1>3. n[w] = MsgLen /\ pos[w] = 0 /\ calls[w] \in 1..MaxCalls
  <2>1. n[w] = MsgLen /\ pos[w] \in {0, MsgLen}
    BY <1>2, Zenon DEF MsgInv
  <2>2. pos[w] + n[w] <= MsgLen /\ calls[w] > 0 /\ calls[w] \in 0..MaxCalls
    BY <1>2, Zenon DEF IInv, WriterInv, TypeOK
  <2> QED BY <2>1, <2>2
<1>4. /\ Len(sent) = MsgLen * a /\ Len(sent') = MsgLen * (a + 1)
      /\ \A i \in 1..(MsgLen * a) : sent'[i] = sent[i]
      /\ \A d \in 1..MsgLen : sent'[a * MsgLen + d] = <<w, calls[w], d>>
  <2>1. /\ Len(sent') = Len(sent) + MsgLen
        /\ \A i \in 1..Len(sent) : sent'[i] = sent[i]
        /\ \A d \in 1..MsgLen : sent'[Len(sent) + d] = Message(w)[0 + d]
    BY <1>3, Committed, Zenon
  <2>2. \A d \in 1..MsgLen : Message(w)[0 + d] = <<w, calls[w], d>>
    BY DEF Message
  <2>3. Len(sent) = MsgLen * a /\ MsgLen * a = a * MsgLen
    BY <1>1 DEF Whole
  <2>4. MsgLen * a + MsgLen = MsgLen * (a + 1)
    BY WholeSum, Zenon
  <2> QED BY <2>1, <2>2, <2>3, <2>4, Zenon
<1>5. Whole(a + 1)'
  <2>1. ASSUME NEW k \in 1..(a + 1)
        PROVE  \E m \in Writers \X (1..MaxCalls) :
                 \A j \in 1..MsgLen : sent'[(k - 1) * MsgLen + j] = <<m[1], m[2], j>>
    <3>1. CASE k = a + 1
      <4>0. k - 1 = a
        BY <3>1
      <4>1. \A j \in 1..MsgLen : sent'[(k - 1) * MsgLen + j] = <<w, calls[w], j>>
        BY <1>4, <4>0, Zenon
      <4>2. <<w, calls[w]>> \in Writers \X (1..MaxCalls)
        BY <1>3, Zenon
      <4> QED BY <4>1, <4>2, Zenon
    <3>2. CASE k \in 1..a
      <4>1. PICK m \in Writers \X (1..MaxCalls) :
              \A j \in 1..MsgLen : sent[(k - 1) * MsgLen + j] = <<m[1], m[2], j>>
        BY <1>1, <3>2, Zenon DEF Whole
      <4>2. \A j \in 1..MsgLen : sent'[(k - 1) * MsgLen + j] = sent[(k - 1) * MsgLen + j]
        BY <1>4, <3>2, WholeIndex, Zenon
      <4> QED BY <4>1, <4>2, Zenon
    <3> QED BY <3>1, <3>2
  <2> QED BY <1>4, <2>1, Zenon DEF Whole
<1>6. \A v \in Writers : pc'[v] \in {"w_copy", "w_add"} => n'[v] = MsgLen
  BY <1>2, Zenon DEF MsgInv
<1> QED BY <1>2, <1>5, <1>6 DEF MsgInv

\* __xpipe_read takes a whole message or none.
LEMMA MsgReadSize ==
  ASSUME IInv, IInv', MsgInv, NEW r \in Readers, RSize(r)
  PROVE  MsgInv'
<1> USE PipeAssumption
<1>1. PICK a \in Nat, b \in Nat : Whole(a) /\ reader = MsgLen * b
  BY Zenon DEF MsgInv
<1>2. ~freed /\ pc[r] = "r_size" /\ r \in Threads /\ \A w \in Writers : w # r
  BY Zenon DEF IInv, FreedInv, RSize, At, Threads
<1>3. writer = MsgLen * a /\ Readable = MsgLen * (a - b) /\ 0 <= Readable
  <2>1. writer = MsgLen * a /\ 0 <= Readable
    BY <1>1, <1>2, Zenon DEF IInv, RingInv, Whole
  <2> QED BY <1>1, <2>1, WholeSum, ZenonT(60) DEF Readable
<1>4. n'[r] \in {0, MsgLen}
  <2>1. pos[r] \in {0, MsgLen} /\ n'[r] = Least(Readable, MsgLen - pos[r])
    BY <1>2, Zenon DEF MsgInv, RSize, IInv, TypeOK
  <2>2. a - b \in Int /\ 0 <= MsgLen * (a - b)
    BY <1>3
  <2>3. Least(MsgLen * (a - b), MsgLen - pos[r]) \in {0, MsgLen}
    BY <2>1, <2>2, LeastWhole, Zenon
  <2> QED BY <1>3, <2>1, <2>3, Zenon
<1>5. /\ UNCHANGED <<sent, reader, pos>>
      /\ \A t \in Threads : t # r => pc'[t] = pc[t] /\ n'[t] = n[t]
  BY <1>2, Zenon DEF RSize, Goto, IInv, TypeOK, ring, hist
<1>6. \A c \in Nat : Whole(c)' = Whole(c)
  BY <1>5 DEF Whole
<1>7. \A v \in Writers : pc'[v] \in {"w_copy", "w_add"} => n'[v] = MsgLen
  BY <1>2, <1>5, Zenon DEF MsgInv, Threads
<1> QED BY <1>4, <1>5, <1>6, <1>7, Zenon DEF MsgInv

\* The addition to pipe->reader, and the end of a part on either side.
LEMMA MsgMoved ==
  ASSUME IInv, IInv', MsgInv, NEW t \in Threads,
         RAdd(t) \/ RUnlock(t) \/ WUnlock(t),
         WUnlock(t) => t \in Writers, RAdd(t) \/ RUnlock(t) => t \in Readers
  PROVE  MsgInv'
<1> USE PipeAssumption
<1>a. TypeOK /\ pos[t] \in {0, MsgLen} /\ n[t] \in {0, MsgLen} /\ pos[t] + n[t] <= MsgLen
  BY Zenon DEF IInv, MsgInv, WriterInv, ReaderInv
<1>b. /\ sent' = sent
      /\ \A s \in Threads : s # t => pc'[s] = pc[s] /\ pos'[s] = pos[s] /\ n'[s] = n[s]
      /\ pc'[t] \notin {"w_copy", "w_add"}
  BY <1>a, Zenon DEF RAdd, RUnlock, WUnlock, Goto, TypeOK, hist
<1>c. \A c \in Nat : Whole(c)' = Whole(c)
  BY <1>b, ZenonT(60) DEF Whole
<1>1. \E b \in Nat : reader' = MsgLen * b
  <2>1. PICK b \in Nat : reader = MsgLen * b
    BY Zenon DEF MsgInv
  <2>2. reader' \in {reader, reader + MsgLen}
    <3>1. reader' \in {reader, reader + n[t]} /\ reader \in Nat
      BY <1>a, Zenon DEF RAdd, RUnlock, WUnlock, ring, TypeOK
    <3> QED BY <1>a, <3>1
  <2>3. MsgLen * b + MsgLen = MsgLen * (b + 1) /\ b + 1 \in Nat
    BY WholeSum
  <2> QED BY <2>1, <2>2, <2>3, Zenon
<1>2. pos'[t] \in {0, MsgLen} /\ n'[t] \in {0, MsgLen}
  <2>1. \/ pos'[t] = pos[t] /\ n'[t] = n[t]
        \/ pos'[t] = pos[t] + n[t] /\ n'[t] = 0
    BY <1>a, Zenon DEF RAdd, RUnlock, WUnlock, TypeOK
  <2> QED BY <1>a, <2>1
<1>3. \A v \in Writers : pc'[v] \in {"w_copy", "w_add"} => n'[v] = MsgLen
  BY <1>b, Zenon DEF MsgInv, Threads
<1> QED BY <1>b, <1>c, <1>1, <1>2, <1>3, Zenon DEF MsgInv

\* Every step moves whole messages.
LEMMA MsgNext ==
  ASSUME IInv, IInv', MsgInv, Divides, [Next]_vars
  PROVE  MsgInv'
<1>a. TypeOK /\ LockInv
  BY Zenon DEF IInv
<1>1. ASSUME NEW w \in Writers, WCall(w) \/ WStep(w)
      PROVE  MsgInv'
  <2>1. w \in Threads /\ w \notin Readers
    BY PipeAssumption, Zenon DEF Threads
  <2>2. CASE WSize(w)
    BY <2>2, MsgSize, Zenon
  <2>3. CASE WAdd(w)
    BY <2>3, MsgAdd, Zenon
  <2>4. CASE WUnlock(w)
    <3>1. ~RAdd(w) /\ ~RUnlock(w)
      BY <2>4, Zenon DEF WUnlock, RAdd, RUnlock, At
    <3> QED BY <2>1, <2>4, <3>1, MsgMoved, Zenon
  <2>5. CASE ~WSize(w) /\ ~WAdd(w) /\ ~WUnlock(w)
    <3>1. Passes(w)
      BY <1>a, <1>1, <2>5, WriterPasses, Zenon DEF WStep
    <3> QED BY <1>a, <2>1, <3>1, MsgPass, Zenon
  <2> QED BY <2>2, <2>3, <2>4, <2>5, Zenon
<1>2. ASSUME NEW r \in Readers, RStep(r)
      PROVE  MsgInv'
  <2>1. r \in Threads /\ r \notin Writers
    BY PipeAssumption, Zenon DEF Threads
  <2>2. CASE RSize(r)
    BY <2>2, MsgReadSize, Zenon
  <2>3. CASE RAdd(r) \/ RUnlock(r)
    <3>1. ~WUnlock(r)
      BY <2>3, Zenon DEF WUnlock, RAdd, RUnlock, At
    <3> QED BY <2>1, <2>3, <3>1, MsgMoved, Zenon
  <2>4. CASE ~RSize(r) /\ ~RAdd(r) /\ ~RUnlock(r)
    <3>1. Passes(r)
      BY <1>a, <1>2, <2>4, ReaderPasses, Zenon DEF RStep
    <3> QED BY <1>a, <2>1, <3>1, MsgPass, Zenon
  <2> QED BY <2>2, <2>3, <2>4, Zenon
<1>3. CASE Break \/ Spurious \/ Free \/ Finished \/ UNCHANGED vars
  <2>1. UNCHANGED <<sent, pc, pos, n>> /\ reader' \in {reader, MsgLen * 0}
    BY <1>3, PipeAssumption DEF Break, Spurious, Free, Clear, Finished, vars, ring, hist
  <2>2. \A c \in Nat : Whole(c)' = Whole(c)
    BY <2>1, Zenon DEF Whole
  <2> QED BY <2>1, <2>2, Zenon DEF MsgInv
<1> QED BY <1>1, <1>2, <1>3, Zenon DEF Next

\* The histories are empty in a fresh pipe.
LEMMA InitMsg == Init => UnitsInv /\ MsgInv
<1> SUFFICES ASSUME Init PROVE UnitsInv /\ MsgInv
  OBVIOUS
<1>1. Len(sent) = 0 /\ UnitsInv
  BY DEF Init, UnitsInv, Threads
<1>2. Whole(0) /\ reader = MsgLen * 0
  BY <1>1, PipeAssumption DEF Init, Whole
<1> QED BY <1>1, <1>2, Zenon DEF Init, MsgInv, Threads

\* What came out is a beginning of what was committed, so it is whole, too.
LEMMA TakenWhole ==
  ASSUME IInv, UnitsInv, MsgInv
  PROVE  NoTornMessage
<1> USE PipeAssumption
<1>1. /\ Len(recvd) \in Nat /\ Len(sent) \in Nat /\ Len(recvd) <= Len(sent)
      /\ \A i \in 1..Len(recvd) : recvd[i] = sent[i]
  BY DEF IInv, TypeOK, FifoInv
<1>2. \A i, j \in 1..Len(recvd) : i # j => recvd[i] # recvd[j]
  BY <1>1 DEF UnitsInv
<1>3. PICK a \in Nat : Whole(a)
  BY Zenon DEF MsgInv
<1>4. ASSUME NEW k \in 1..(Len(recvd) \div MsgLen)
      PROVE  \E m \in Writers \X (1..MaxCalls) :
               \A j \in 1..MsgLen : recvd[(k - 1) * MsgLen + j] = <<m[1], m[2], j>>
  <2> DEFINE b == Len(recvd) \div MsgLen
  <2>1. b \in Nat /\ MsgLen * b \in 0..Len(recvd)
    BY <1>1, MultipleBelow
  <2>2. k \in 1..a
    <3>1. MsgLen * b <= MsgLen * a
      BY <1>1, <1>3, <2>1 DEF Whole
    <3> HIDE DEF b
    <3>2. b <= a
      BY <2>1, <3>1
    <3> QED BY <2>1, <3>2 DEF b
  <2>3. PICK m \in Writers \X (1..MaxCalls) :
          \A j \in 1..MsgLen : sent[(k - 1) * MsgLen + j] = <<m[1], m[2], j>>
    BY <1>3, <2>2, Zenon DEF Whole
  <2>4. ASSUME NEW j \in 1..MsgLen PROVE (k - 1) * MsgLen + j \in 1..Len(recvd)
    <3>1. (k - 1) * MsgLen + j \in 1..(MsgLen * b)
      BY <2>1, WholeIndex, Zenon
    <3> QED BY <1>1, <2>1, <3>1
  <2> QED BY <1>1, <2>3, <2>4, Zenon
<1> QED BY <1>2, <1>4, Zenon DEF NoTornMessage

============================================================================
