------------------------------- MODULE XPipe -------------------------------
(***************************************************************************)
(* The pipe of src/xnet/xpipe.h: a ring buffer shared by writer threads    *)
(* and reader threads.  Data moves without the mutex, under the spin flags *)
(* wlock and rlock.  A thread that cannot finish its call blocks on one    *)
(* condition variable shared by both sides, after announcing itself with   *)
(* the flag wblock (a writer) or rblock (a reader).                        *)
(*                                                                         *)
(* One unit stands for one byte or, with MsgLen = 1, for the 8-byte        *)
(* pointer that every caller in the repository passes.  The counters       *)
(* writer and reader are 64 bits wide in the code and never wrap there.    *)
(* The constant PipeLen is the field pipe->len.                            *)
(***************************************************************************)
EXTENDS Integers, Sequences

CONSTANTS
  Writers,      \* threads that call xpipe_write
  Readers,      \* threads that call xpipe_read in a loop
  PipeLen,      \* pipe->len, a power of two in the code
  MsgLen,       \* the argument len of every xpipe_write and xpipe_read
  MaxCalls,     \* bound: calls of xpipe_write per writer
  NoThread      \* the owner of a free mutex

Threads == Writers \cup Readers

ASSUME PipeAssumption ==
  /\ PipeLen \in Nat \ {0}
  /\ MsgLen \in Nat \ {0}
  /\ MaxCalls \in Nat
  /\ Writers \cap Readers = {}
  /\ NoThread \notin Threads

\* The j-th unit of the k-th message of a writer, and what a slot may hold:
\* <<>> stands for the uninitialised memory of a fresh buffer.
Unit == Writers \X (1..MaxCalls) \X (1..MsgLen)
Cell == Unit \cup {<<>>}

VARIABLES
  writer, reader,     \* pipe->writer, pipe->reader
  buf,                \* pipe->buf
  breaker,            \* pipe->breaker
  wlock, rlock,       \* spin flags around the data moves
  wblock, rblock,     \* spin flags that announce a thread about to wait
  mutex,              \* the thread that owns pipe->mutex, or NoThread
  waiting,            \* threads asleep on the condition variable
  pc,                 \* where each thread is
  pos, n,             \* the locals pos and writable/readable of a call
  rbuf,               \* what a reader's current call has copied out
  calls,              \* calls of xpipe_write begun by each writer
  sent, recvd,        \* history: units committed to, and taken from the ring
  freed               \* xpipe_free has run

ring  == <<writer, reader, buf>>
flags == <<wlock, rlock, wblock, rblock>>
hist  == <<sent, recvd>>
vars  == <<ring, flags, breaker, mutex, waiting, pc, pos, n, rbuf, calls,
           hist, freed>>

Message(w) == [j \in 1..MsgLen |-> <<w, calls[w], j>>]

\* Mutant: the ring is believed one slot larger than it is.
WritableOneMore == PipeLen + 1 - writer + reader

\* xpipe_writable and xpipe_readable
Writable == PipeLen - writer + reader
Readable == writer - reader

\* The slot of the unit at counter value i.
Slot(i) == i % PipeLen

\* Mutant: the larger of the two sizes.
LeastNot(a, b) == IF a <= b THEN b ELSE a

Least(a, b) == IF a <= b THEN a ELSE b

\* mcopy: num units of src, from index from on, to dst at offset off (from 0)
MCopy(dst, off, src, from, num) ==
  [k \in DOMAIN dst |->
     IF off <= k /\ k < off + num THEN src[from + (k - off)] ELSE dst[k]]

\* The copy into the ring, folded at its end.
Store(b, src, from, num) ==
  LET off == Slot(writer)
      leftover == PipeLen - off
  IN IF leftover >= num
     THEN MCopy(b, off, src, from, num)
     ELSE MCopy(MCopy(b, off, src, from, leftover),
                0, src, from + leftover, num - leftover)

\* Mutant: the second mcopy does not start at the beginning of the buffer.
FetchAhead(b, num) ==
  LET off == Slot(reader)
      leftover == PipeLen - off
  IN [k \in 1..num |-> IF k <= leftover THEN b[off + (k - 1)] ELSE b[k - 1]]

\* The copy out of the ring, folded at its end.
Fetch(b, num) ==
  LET off == Slot(reader)
      leftover == PipeLen - off
  IN [k \in 1..num |-> IF k <= leftover THEN b[off + (k - 1)]
                                        ELSE b[k - 1 - leftover]]

Init ==
  /\ writer = 0 /\ reader = 0
  /\ buf = [k \in 0..(PipeLen - 1) |-> <<>>]
  /\ breaker = FALSE
  /\ wlock = FALSE /\ rlock = FALSE /\ wblock = FALSE /\ rblock = FALSE
  /\ mutex = NoThread
  /\ waiting = {}
  /\ pc = [t \in Threads |-> "idle"]
  /\ pos = [t \in Threads |-> 0]
  /\ n = [t \in Threads |-> 0]
  /\ rbuf = [r \in Readers |-> <<>>]
  /\ calls = [w \in Writers |-> 0]
  /\ sent = <<>> /\ recvd = <<>>
  /\ freed = FALSE

At(t, l) == pc[t] = l

Goto(t, l) == pc' = [pc EXCEPT ![t] = l]

\* Return to the caller; the locals die.
Return(t, l) ==
  /\ Goto(t, l)
  /\ pos' = [pos EXCEPT ![t] = 0]
  /\ n' = [n EXCEPT ![t] = 0]

Acquire(t) == mutex = NoThread /\ mutex' = t

\* uv_cond_signal wakes one sleeping thread, of either side, if there is one.
Notify ==
  \/ waiting = {} /\ waiting' = {}
  \/ \E t \in waiting : waiting' = waiting \ {t}

----------------------------------------------------------------------------
(* xpipe_write *)

WCall(w) ==
  /\ At(w, "idle") /\ ~freed /\ calls[w] < MaxCalls
  /\ calls' = [calls EXCEPT ![w] = @ + 1]
  /\ Goto(w, "w_loop")
  /\ UNCHANGED <<ring, flags, breaker, mutex, waiting, pos, n, rbuf, hist, freed>>

\* while (!pipe->breaker && pos < len); the read of breaker is not locked
WLoop(w) ==
  /\ At(w, "w_loop")
  /\ IF breaker THEN Return(w, "idle")
                ELSE Goto(w, "w_try") /\ UNCHANGED <<pos, n>>
  /\ UNCHANGED <<ring, flags, breaker, mutex, waiting, rbuf, calls, hist, freed>>

\* Mutant: the flag is taken without looking at it.
WTryTake(w) ==
  /\ At(w, "w_try")
  /\ Goto(w, "w_size") /\ wlock' = TRUE
  /\ UNCHANGED <<ring, rlock, wblock, rblock, breaker, mutex, waiting, pos, n,
                 rbuf, calls, hist, freed>>

WTry(w) ==
  /\ At(w, "w_try")
  /\ IF wlock THEN Goto(w, "w_mutex") /\ UNCHANGED wlock
              ELSE Goto(w, "w_size") /\ wlock' = TRUE
  /\ UNCHANGED <<ring, rlock, wblock, rblock, breaker, mutex, waiting, pos, n,
                 rbuf, calls, hist, freed>>

WSize(w) ==
  /\ At(w, "w_size")
  /\ n' = [n EXCEPT ![w] = Least(Writable, MsgLen - pos[w])]
  /\ Goto(w, IF n'[w] > 0 THEN "w_copy" ELSE "w_unlock")
  /\ UNCHANGED <<ring, flags, breaker, mutex, waiting, pos, rbuf, calls, hist, freed>>

WCopy(w) ==
  /\ At(w, "w_copy")
  /\ buf' = Store(buf, Message(w), pos[w] + 1, n[w])
  /\ Goto(w, "w_add")
  /\ UNCHANGED <<writer, reader, flags, breaker, mutex, waiting, pos, n, rbuf,
                 calls, hist, freed>>

WAdd(w) ==
  /\ At(w, "w_add")
  /\ writer' = writer + n[w]
  /\ sent' = sent \o SubSeq(Message(w), pos[w] + 1, pos[w] + n[w])
  /\ Goto(w, "w_unlock")
  /\ UNCHANGED <<reader, buf, flags, breaker, mutex, waiting, pos, n, rbuf,
                 calls, recvd, freed>>

\* Mutant: the flag is not given back.
WUnlockKeep(w) ==
  /\ At(w, "w_unlock")
  /\ pos' = [pos EXCEPT ![w] = @ + n[w]]
  /\ n' = [n EXCEPT ![w] = 0]
  /\ Goto(w, IF pos'[w] # MsgLen THEN "w_mutex" ELSE "w_signal")
  /\ UNCHANGED <<ring, flags, breaker, mutex, waiting, rbuf, calls, hist, freed>>

WUnlock(w) ==
  /\ At(w, "w_unlock")
  /\ wlock' = FALSE
  /\ pos' = [pos EXCEPT ![w] = @ + n[w]]
  /\ n' = [n EXCEPT ![w] = 0]
  /\ Goto(w, IF pos'[w] # MsgLen THEN "w_mutex" ELSE "w_signal")
  /\ UNCHANGED <<ring, rlock, wblock, rblock, breaker, mutex, waiting, rbuf,
                 calls, hist, freed>>

WMutex(w) ==
  /\ At(w, "w_mutex") /\ Acquire(w)
  /\ Goto(w, "w_check")
  /\ UNCHANGED <<ring, flags, breaker, waiting, pos, n, rbuf, calls, hist, freed>>

\* Mutant: a writer goes to sleep without waking the reader first.
WCheckQuiet(w) ==
  /\ At(w, "w_check")
  /\ Goto(w, IF breaker THEN "w_release" ELSE "w_block")
  /\ UNCHANGED <<ring, flags, breaker, mutex, waiting, pos, n, rbuf, calls, hist,
                 freed>>

WCheck(w) ==
  /\ At(w, "w_check")
  /\ IF breaker THEN Goto(w, "w_release") /\ UNCHANGED waiting
                ELSE Goto(w, "w_block") /\ Notify
  /\ UNCHANGED <<ring, flags, breaker, mutex, pos, n, rbuf, calls, hist, freed>>

\* __atom_lock(pipe->wblock) spins with the mutex held
WBlock(w) ==
  /\ At(w, "w_block") /\ ~wblock
  /\ wblock' = TRUE
  /\ Goto(w, "w_full")
  /\ UNCHANGED <<ring, wlock, rlock, rblock, breaker, mutex, waiting, pos, n,
                 rbuf, calls, hist, freed>>

WFull(w) ==
  /\ At(w, "w_full")
  /\ IF Writable = 0
     THEN /\ mutex' = NoThread
          /\ waiting' = waiting \cup {w}
          /\ Goto(w, "w_wait")
     ELSE Goto(w, "w_unblock") /\ UNCHANGED <<mutex, waiting>>
  /\ UNCHANGED <<ring, flags, breaker, pos, n, rbuf, calls, hist, freed>>

WWait(w) ==
  /\ At(w, "w_wait") /\ w \notin waiting /\ Acquire(w)
  /\ Goto(w, "w_unblock")
  /\ UNCHANGED <<ring, flags, breaker, waiting, pos, n, rbuf, calls, hist, freed>>

WUnblock(w) ==
  /\ At(w, "w_unblock")
  /\ wblock' = FALSE
  /\ Goto(w, "w_release")
  /\ UNCHANGED <<ring, wlock, rlock, rblock, breaker, mutex, waiting, pos, n,
                 rbuf, calls, hist, freed>>

WRelease(w) ==
  /\ At(w, "w_release")
  /\ mutex' = NoThread
  /\ Goto(w, "w_loop")
  /\ UNCHANGED <<ring, flags, breaker, waiting, pos, n, rbuf, calls, hist, freed>>

\* Mutant: nobody is notified.
WSignalSkip(w) ==
  /\ At(w, "w_signal")
  /\ Return(w, "idle")
  /\ UNCHANGED <<ring, flags, breaker, mutex, waiting, rbuf, calls, hist, freed>>

\* The call is complete: probe rblock to learn whether a reader sleeps.
WSignal(w) ==
  /\ At(w, "w_signal")
  /\ IF rblock THEN Goto(w, "w_notify") /\ UNCHANGED rblock
               ELSE Goto(w, "w_probe") /\ rblock' = TRUE
  /\ UNCHANGED <<ring, wlock, rlock, wblock, breaker, mutex, waiting, pos, n,
                 rbuf, calls, hist, freed>>

WProbe(w) ==
  /\ At(w, "w_probe")
  /\ rblock' = FALSE
  /\ Return(w, "idle")
  /\ UNCHANGED <<ring, wlock, rlock, wblock, breaker, mutex, waiting, rbuf,
                 calls, hist, freed>>

\* mutex_lock, mutex_notify, mutex_unlock: nobody can act in between
WNotify(w) ==
  /\ At(w, "w_notify") /\ mutex = NoThread
  /\ Notify
  /\ Return(w, "idle")
  /\ UNCHANGED <<ring, flags, breaker, mutex, rbuf, calls, hist, freed>>

----------------------------------------------------------------------------
(* xpipe_read *)

RCall(r) ==
  /\ At(r, "idle") /\ ~freed
  /\ rbuf' = [rbuf EXCEPT ![r] = <<>>]
  /\ Goto(r, "r_try")
  /\ UNCHANGED <<ring, flags, breaker, mutex, waiting, pos, n, calls, hist, freed>>

RTry(r) ==
  /\ At(r, "r_try")
  /\ IF rlock THEN Goto(r, "r_mutex") /\ UNCHANGED rlock
              ELSE Goto(r, "r_size") /\ rlock' = TRUE
  /\ UNCHANGED <<ring, wlock, wblock, rblock, breaker, mutex, waiting, pos, n,
                 rbuf, calls, hist, freed>>

RSize(r) ==
  /\ At(r, "r_size")
  /\ n' = [n EXCEPT ![r] = Least(Readable, MsgLen - pos[r])]
  /\ Goto(r, IF n'[r] > 0 THEN "r_copy" ELSE "r_unlock")
  /\ UNCHANGED <<ring, flags, breaker, mutex, waiting, pos, rbuf, calls, hist, freed>>

RCopy(r) ==
  /\ At(r, "r_copy")
  /\ rbuf' = [rbuf EXCEPT ![r] = @ \o Fetch(buf, n[r])]
  /\ Goto(r, "r_add")
  /\ UNCHANGED <<ring, flags, breaker, mutex, waiting, pos, n, calls, hist, freed>>

\* Mutant: the counter stops one short of what was copied.
RAddShort(r) ==
  /\ At(r, "r_add")
  /\ reader' = reader + n[r] - 1
  /\ recvd' = recvd \o SubSeq(rbuf[r], pos[r] + 1, pos[r] + n[r])
  /\ Goto(r, "r_unlock")
  /\ UNCHANGED <<writer, buf, flags, breaker, mutex, waiting, pos, n, rbuf,
                 calls, sent, freed>>

RAdd(r) ==
  /\ At(r, "r_add")
  /\ reader' = reader + n[r]
  /\ recvd' = recvd \o SubSeq(rbuf[r], pos[r] + 1, pos[r] + n[r])
  /\ Goto(r, "r_unlock")
  /\ UNCHANGED <<writer, buf, flags, breaker, mutex, waiting, pos, n, rbuf,
                 calls, sent, freed>>

RUnlock(r) ==
  /\ At(r, "r_unlock")
  /\ rlock' = FALSE
  /\ pos' = [pos EXCEPT ![r] = @ + n[r]]
  /\ n' = [n EXCEPT ![r] = 0]
  /\ Goto(r, IF pos'[r] # MsgLen THEN "r_mutex" ELSE "r_signal")
  /\ UNCHANGED <<ring, wlock, wblock, rblock, breaker, mutex, waiting, rbuf,
                 calls, hist, freed>>

RMutex(r) ==
  /\ At(r, "r_mutex") /\ Acquire(r)
  /\ Goto(r, "r_check")
  /\ UNCHANGED <<ring, flags, breaker, waiting, pos, n, rbuf, calls, hist, freed>>

RCheck(r) ==
  /\ At(r, "r_check") /\ ~breaker
  /\ Notify
  /\ Goto(r, "r_block")
  /\ UNCHANGED <<ring, flags, breaker, mutex, pos, n, rbuf, calls, hist, freed>>

\* A broken pipe: unlock and return what was read; the loop of the caller ends.
RRefused(r) ==
  /\ At(r, "r_check") /\ breaker
  /\ mutex' = NoThread
  /\ Return(r, "exit")
  /\ UNCHANGED <<ring, flags, breaker, waiting, rbuf, calls, hist, freed>>

\* __atom_lock(pipe->rblock) spins with the mutex held
RBlock(r) ==
  /\ At(r, "r_block") /\ ~rblock
  /\ rblock' = TRUE
  /\ Goto(r, "r_empty")
  /\ UNCHANGED <<ring, wlock, rlock, wblock, breaker, mutex, waiting, pos, n,
                 rbuf, calls, hist, freed>>

\* Mutant: the reader sleeps without looking at the pipe again.
REmptyAlways(r) ==
  /\ At(r, "r_empty")
  /\ mutex' = NoThread
  /\ waiting' = waiting \cup {r}
  /\ Goto(r, "r_wait")
  /\ UNCHANGED <<ring, flags, breaker, pos, n, rbuf, calls, hist, freed>>

REmpty(r) ==
  /\ At(r, "r_empty")
  /\ IF Readable = 0
     THEN /\ mutex' = NoThread
          /\ waiting' = waiting \cup {r}
          /\ Goto(r, "r_wait")
     ELSE Goto(r, "r_unblock") /\ UNCHANGED <<mutex, waiting>>
  /\ UNCHANGED <<ring, flags, breaker, pos, n, rbuf, calls, hist, freed>>

RWait(r) ==
  /\ At(r, "r_wait") /\ r \notin waiting /\ Acquire(r)
  /\ Goto(r, "r_unblock")
  /\ UNCHANGED <<ring, flags, breaker, waiting, pos, n, rbuf, calls, hist, freed>>

RUnblock(r) ==
  /\ At(r, "r_unblock")
  /\ rblock' = FALSE
  /\ Goto(r, "r_release")
  /\ UNCHANGED <<ring, wlock, rlock, wblock, breaker, mutex, waiting, pos, n,
                 rbuf, calls, hist, freed>>

RRelease(r) ==
  /\ At(r, "r_release")
  /\ mutex' = NoThread
  /\ Goto(r, "r_try")
  /\ UNCHANGED <<ring, flags, breaker, waiting, pos, n, rbuf, calls, hist, freed>>

\* The call is complete: probe wblock to learn whether a writer sleeps.
RSignal(r) ==
  /\ At(r, "r_signal")
  /\ IF wblock THEN Goto(r, "r_notify") /\ UNCHANGED wblock
               ELSE Goto(r, "r_probe") /\ wblock' = TRUE
  /\ UNCHANGED <<ring, wlock, rlock, rblock, breaker, mutex, waiting, pos, n,
                 rbuf, calls, hist, freed>>

RProbe(r) ==
  /\ At(r, "r_probe")
  /\ wblock' = FALSE
  /\ Return(r, "idle")
  /\ UNCHANGED <<ring, wlock, rlock, rblock, breaker, mutex, waiting, rbuf,
                 calls, hist, freed>>

\* mutex_lock, mutex_notify, mutex_unlock: nobody can act in between
RNotify(r) ==
  /\ At(r, "r_notify") /\ mutex = NoThread
  /\ Notify
  /\ Return(r, "idle")
  /\ UNCHANGED <<ring, flags, breaker, mutex, rbuf, calls, hist, freed>>

----------------------------------------------------------------------------
(* The owner of the pipe *)

Break ==
  /\ ~breaker /\ mutex = NoThread
  /\ breaker' = TRUE
  /\ waiting' = {}
  /\ UNCHANGED <<ring, flags, mutex, pc, pos, n, rbuf, calls, hist, freed>>

\* A condition variable may wake a thread that nobody signalled.
Spurious ==
  /\ \E t \in waiting : waiting' = waiting \ {t}
  /\ UNCHANGED <<ring, flags, breaker, mutex, pc, pos, n, rbuf, calls, hist, freed>>

\* xpipe_clear, as part of xpipe_free
Clear == reader' = 0 /\ writer' = 0

\* Mutant: the owner does not empty the pipe.
FreeOnly ==
  /\ breaker /\ ~freed
  /\ \A w \in Writers : At(w, "idle")
  /\ \A r \in Readers : At(r, "exit")
  /\ Clear
  /\ freed' = TRUE
  /\ UNCHANGED <<buf, flags, breaker, mutex, waiting, pc, pos, n, rbuf, calls, hist>>

\* xltp_free and xlio_free: once the threads are joined, take whole messages
\* out with __xpipe_read until one is missing, then xpipe_free.
Free ==
  /\ breaker /\ ~freed
  /\ \A w \in Writers : At(w, "idle")
  /\ \A r \in Readers : At(r, "exit")
  /\ LET left == MsgLen * (Readable \div MsgLen)
     IN recvd' = recvd \o Fetch(buf, left)
  /\ Clear
  /\ freed' = TRUE
  /\ UNCHANGED <<buf, flags, breaker, mutex, waiting, pc, pos, n, rbuf, calls, sent>>

Finished == freed /\ UNCHANGED vars

WStep(w) ==
  \/ WLoop(w) \/ WTry(w) \/ WSize(w) \/ WCopy(w) \/ WAdd(w) \/ WUnlock(w)
  \/ WMutex(w) \/ WCheck(w) \/ WBlock(w) \/ WFull(w) \/ WWait(w)
  \/ WUnblock(w) \/ WRelease(w) \/ WSignal(w) \/ WProbe(w) \/ WNotify(w)

RStep(r) ==
  \/ RCall(r) \/ RTry(r) \/ RSize(r) \/ RCopy(r) \/ RAdd(r) \/ RUnlock(r)
  \/ RMutex(r) \/ RCheck(r) \/ RRefused(r) \/ RBlock(r) \/ REmpty(r)
  \/ RWait(r) \/ RUnblock(r) \/ RRelease(r) \/ RSignal(r) \/ RProbe(r)
  \/ RNotify(r)

Next ==
  \/ \E w \in Writers : WCall(w) \/ WStep(w)
  \/ \E r \in Readers : RStep(r)
  \/ Break \/ Spurious \/ Free \/ Finished

Spec == Init /\ [][Next]_vars

(***************************************************************************)
(* Every thread keeps running, and a thread that wants the mutex gets it   *)
(* if it is free again and again.  Nothing is assumed about WCall, Break,  *)
(* Free and spurious wakeups.                                              *)
(***************************************************************************)
Fairness ==
  /\ \A w \in Writers : WF_vars(WStep(w))
  /\ \A r \in Readers : WF_vars(RStep(r))
  /\ \A w \in Writers : SF_vars(WMutex(w) \/ WWait(w) \/ WNotify(w))
  /\ \A r \in Readers : SF_vars(RMutex(r) \/ RWait(r) \/ RNotify(r))

FairSpec == Spec /\ Fairness

----------------------------------------------------------------------------
(* Properties *)

WLabels ==
  {"idle", "w_loop", "w_try", "w_size", "w_copy", "w_add", "w_unlock",
   "w_mutex", "w_check", "w_block", "w_full", "w_wait", "w_unblock",
   "w_release", "w_signal", "w_probe", "w_notify"}

RLabels ==
  {"idle", "exit", "r_try", "r_size", "r_copy", "r_add", "r_unlock",
   "r_mutex", "r_check", "r_block", "r_empty", "r_wait", "r_unblock",
   "r_release", "r_signal", "r_probe", "r_notify"}

\* Every field of the pipe and every local keeps its type.
TypeOK ==
  /\ writer \in Nat /\ reader \in Nat
  /\ buf \in [0..(PipeLen - 1) -> Cell]
  /\ breaker \in BOOLEAN /\ freed \in BOOLEAN
  /\ wlock \in BOOLEAN /\ rlock \in BOOLEAN
  /\ wblock \in BOOLEAN /\ rblock \in BOOLEAN
  /\ mutex \in Threads \cup {NoThread}
  /\ waiting \subseteq Threads
  /\ pc \in [Threads -> WLabels \cup RLabels]
  /\ pos \in [Threads -> 0..MsgLen]
  /\ n \in [Threads -> 0..MsgLen]
  /\ rbuf \in [Readers -> Seq(Cell)]
  /\ calls \in [Writers -> 0..MaxCalls]
  /\ sent \in Seq(Unit) /\ recvd \in Seq(Cell)

\* The units between reader and writer are the committed ones that have not
\* been read: no slot is overwritten before it is read, although a writer
\* reads pipe->reader, and a reader pipe->writer, before it copies.
RingHoldsUnread ==
  ~freed =>
    /\ 0 <= Readable /\ Readable <= PipeLen
    /\ Len(sent) = writer
    /\ \A i \in reader..(writer - 1) : buf[Slot(i)] = sent[i + 1]

\* Every unit comes out once, in the order in which the units were committed,
\* whatever the number of readers and writers.
FirstInFirstOut ==
  /\ Len(recvd) <= Len(sent)
  /\ recvd = SubSeq(sent, 1, Len(recvd))

\* A sleeping reader with data in the pipe, or a sleeping writer with room in
\* it, is about to be notified by a thread of the other side.
NoLostWakeup ==
  /\ \A r \in Readers :
       r \in waiting /\ Readable > 0 =>
         \E w \in Writers : pc[w] \in {"w_unlock", "w_signal", "w_notify",
                                       "w_mutex", "w_check"}
  /\ \A w \in Writers :
       w \in waiting /\ Writable > 0 =>
         \E r \in Readers : pc[r] \in {"r_unlock", "r_signal", "r_notify",
                                       "r_mutex", "r_check"}

\* What comes out are whole messages, each of one writer and each once, when
\* MsgLen divides the pipe's length, as it does for the 8-byte pointers of every
\* caller: the flag wlock keeps the parts of two writers apart.
NoTornMessage ==
  /\ \A k \in 1..(Len(recvd) \div MsgLen) :
       \E m \in Writers \X (1..MaxCalls) :
         \A j \in 1..MsgLen : recvd[(k - 1) * MsgLen + j] = <<m[1], m[2], j>>
  /\ \A i, j \in 1..Len(recvd) : i # j => recvd[i] # recvd[j]

\* The contents of the ring: what a reader that came now could copy out.
Content == [i \in 1..Readable |-> buf[Slot(reader + (i - 1))]]

Queue == INSTANCE XQueue WITH
           Units <- Unit, Cap <- PipeLen, Whole <- MsgLen,
           queue <- Content, taken <- recvd, closed <- freed

\* For every thread that uses it the pipe is a bounded first-in first-out queue:
\* each step of xpipe_write, xpipe_read, xpipe_break and xpipe_free adds units at
\* the back of the ring's contents, hands out units from the front, or changes
\* nothing that can be seen from outside.
PipeIsQueue == Queue!QSpec

\* When the pipe is freed no message committed to it is lost: every one was read
\* by a reader or taken out by the loops of xltp_free and xlio_free.  (Those stop
\* when less than a message is left; with messages of one unit nothing is.)
NothingLeaks == freed => Len(sent) - Len(recvd) < MsgLen

\* What was committed is read, or taken out by the owner: the reader is
\* always woken while the pipe holds data.
EverythingIsRead ==
  \A i \in 1..(MaxCalls * MsgLen) :
    Len(sent) >= i ~> Len(recvd) >= i \/ \A r \in Readers : At(r, "exit")

\* A call of xpipe_write returns: a writer that found the pipe full is woken.
WriteReturns ==
  \A w \in Writers : At(w, "w_loop") ~> At(w, "idle")

\* The comment in xpipe_read: "多线程读写时，后到这里的线程会在这里循环尝试，
\* 直到获取锁为止" (with several threads the later one retries here until it
\* gets the lock): the spins on wblock and rblock end.
SpinEnds ==
  /\ \A w \in Writers : At(w, "w_block") ~> ~At(w, "w_block")
  /\ \A r \in Readers : At(r, "r_block") ~> ~At(r, "r_block")

----------------------------------------------------------------------------
(***************************************************************************)
(* The inductive invariant behind RingHoldsUnread and FirstInFirstOut.     *)
(***************************************************************************)

\* Each side stays in its own code, and one thread at most is inside the
\* part of it that the flag protects.
WHold == {"w_size", "w_copy", "w_add", "w_unlock"}
RHold == {"r_size", "r_copy", "r_add", "r_unlock"}

LockInv ==
  /\ \A w \in Writers : pc[w] \in WLabels /\ (pc[w] \in WHold => wlock)
  /\ \A r \in Readers : pc[r] \in RLabels /\ (pc[r] \in RHold => rlock)
  /\ \A v, w \in Writers : pc[v] \in WHold /\ pc[w] \in WHold => v = w
  /\ \A q, r \in Readers : pc[q] \in RHold /\ pc[r] \in RHold => q = r

\* A stale size is still a safe size, and a copied part is the right part.
WriterInv ==
  \A w \in Writers :
    /\ pos[w] + n[w] <= MsgLen
    /\ pc[w] # "idle" => calls[w] > 0
    /\ pc[w] \in {"w_copy", "w_add"} => n[w] <= Writable
    /\ pc[w] = "w_add" =>
         \A d \in 0..(n[w] - 1) :
           buf[Slot(writer + d)] = Message(w)[pos[w] + 1 + d]

ReaderInv ==
  \A r \in Readers :
    /\ pos[r] + n[r] <= MsgLen
    /\ pc[r] \notin {"r_copy", "r_add", "r_unlock"} => n[r] = 0
    /\ pc[r] = "idle" => pos[r] = 0
    /\ pc[r] = "r_copy" => Len(rbuf[r]) = pos[r]
    /\ pc[r] \notin {"idle", "exit", "r_copy"} => Len(rbuf[r]) = pos[r] + n[r]
    /\ pc[r] \in {"r_copy", "r_add"} => n[r] <= Readable
    /\ pc[r] = "r_add" =>
         \A d \in 1..n[r] : rbuf[r][pos[r] + d] = sent[reader + d]

RingInv ==
  ~freed =>
    /\ 0 <= Readable /\ Readable <= PipeLen
    /\ Len(sent) = writer /\ Len(recvd) = reader
    /\ \A i \in reader..(writer - 1) : buf[Slot(i)] = sent[i + 1]

FifoInv ==
  /\ Len(recvd) <= Len(sent)
  /\ \A i \in 1..Len(recvd) : recvd[i] = sent[i]

FreedInv ==
  freed => /\ breaker
           /\ \A w \in Writers : pc[w] = "idle"
           /\ \A r \in Readers : pc[r] = "exit"

IInv ==
  /\ TypeOK
  /\ LockInv
  /\ WriterInv
  /\ ReaderInv
  /\ RingInv
  /\ FifoInv
  /\ FreedInv

=============================================================================
