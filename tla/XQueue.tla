------------------------------- MODULE XQueue -------------------------------
(***************************************************************************)
(* What the pipe of src/xnet/xpipe.h promises to the threads that share    *)
(* it, without locks, slots or counters: a bounded queue of units.  Units  *)
(* go in at the back and out at the front, and the owner who closes the    *)
(* queue takes out all whole messages.  XPipe is shown to implement it.    *)
(***************************************************************************)
EXTENDS Integers, Sequences

CONSTANTS
  Units,     \* what the queue may hold
  Cap,       \* how much of it
  Whole      \* the length of a message

VARIABLES
  queue,     \* the units inside
  taken,     \* the units that came out, in order
  closed

qvars == <<queue, taken, closed>>

QInit == queue = <<>> /\ taken = <<>> /\ closed = FALSE

\* Part of a message, as much as there is room for, is added at the back.
Put ==
  /\ ~closed
  /\ Len(queue) < Len(queue') /\ Len(queue') <= Cap
  /\ \A i \in 1..Len(queue) : queue'[i] = queue[i]
  /\ \A i \in (Len(queue) + 1)..Len(queue') : queue'[i] \in Units
  /\ UNCHANGED <<taken, closed>>

\* Units leave from the front, and only from there.
Moved(k) ==
  /\ Len(taken') = Len(taken) + k
  /\ \A i \in 1..Len(taken) : taken'[i] = taken[i]
  /\ \A i \in 1..k : taken'[Len(taken) + i] = queue[i]

Take ==
  /\ ~closed
  /\ \E k \in 1..Len(queue) :
       /\ Moved(k)
       /\ Len(queue') = Len(queue) - k
       /\ \A i \in 1..(Len(queue) - k) : queue'[i] = queue[k + i]
  /\ UNCHANGED closed

\* The owner takes what is left, except for less than a message.
Close ==
  /\ ~closed
  /\ \E k \in 0..Len(queue) : Len(queue) - k < Whole /\ Moved(k)
  /\ queue' = <<>>
  /\ closed' = TRUE

QNext == Put \/ Take \/ Close

QSpec == QInit /\ [][QNext]_qvars
=============================================================================
