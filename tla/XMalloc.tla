------------------------------- MODULE XMalloc -------------------------------
(***************************************************************************)
(* One page of the allocator of src/xnet/xmalloc.c and the threads that    *)
(* use it.  Addresses and sizes are in words (size_t).  A page is          *)
(*                                                                         *)
(*     head | blocks ... | end                                             *)
(*                                                                         *)
(* where head and end are the sentinels of the list of free blocks.  One   *)
(* block, page->ptr, is the one new blocks are cut from.  Whether a block  *)
(* is in use is told by the flag of the block after it: in use, or else    *)
(* the size of the block before.                                           *)
(*                                                                         *)
(* What runs under page->lock is one step; the steps between are those     *)
(* that take and give back the locks, which are only ever tried.  A malloc *)
(* that does not find the page free, or finds no room in it, goes on to    *)
(* the other pages, which are left out.                                    *)
(***************************************************************************)
EXTENDS Integers, Sequences, FiniteSets

CONSTANTS
  Threads,
  PageSize,       \* page->size
  Requests,       \* sizes malloc is asked for
  AlignRequests,  \* sizes aligned_alloc is asked for
  Alignment,      \* ... and the alignment
  Recyclers       \* __max_recycle_pool

F == 4            \* __free_pointer_size: flag, size, prev, next
W == 2            \* __work_pointer_size: flag, size

ASSUME MallocAssumption ==
  /\ PageSize \in Nat /\ PageSize > 4 * F /\ Recyclers \in Nat \ {0}
  /\ Requests \subseteq Nat /\ AlignRequests \subseteq Nat \ {0}
  /\ Alignment \in Nat /\ Alignment > 1

VARIABLES
  mem,      \* mem[a]: the xpointer at address a
  main,     \* page->ptr
  lock,     \* page->lock: the thread that has it
  recycle,  \* recycle[i]: lock and head of page->recycle_pool[i]
  pc, ptr, want, after, i,   \* the threads
  owned     \* the blocks the program has
locals == <<pc, ptr, want, after, i>>
vars == <<mem, main, lock, recycle, locals, owned>>

Addrs == 0..(PageSize - 1)
None == -1
Nobody == "nobody"
InUse == 0        \* a flag; another one is a size

HeadPtr == 0
EndPtr == PageSize - F

Xpointer(flag, size, prev, next) ==
  [flag |-> flag, size |-> size, prev |-> prev, next |-> next]
Blank == Xpointer(InUse, 0, None, None)

\* __req2align
Req2Align(req) == IF req + W < F THEN F ELSE req + W

Mergeable(m, a) == m[a].flag # InUse
PrevPtr(m, a) == a - m[a].flag
NextPtr(m, a) == a + m[a].size

----------------------------------------------------------------------------
(* The free list *)

Unlink(m, a) ==
  [m EXCEPT ![m[a].next].prev = m[a].prev, ![m[a].prev].next = m[a].next]

\* a comes between p and n.
Link(m, p, a, n) ==
  [m EXCEPT ![a].next = n, ![a].prev = p, ![n].prev = a, ![p].next = a]

LinkFirst(m, a) == Link(m, HeadPtr, a, m[HeadPtr].next)
LinkLast(m, a) == Link(m, m[EndPtr].prev, a, EndPtr)

\* Two neighbours become one block; what was the second is inside of it.
Join(m, a, b) == [m EXCEPT ![a].size = @ + m[b].size, ![b] = Blank]

\* The flag of the block after a tells that a is free.
MarkFree(m, a) == [m EXCEPT ![NextPtr(m, a)].flag = m[a].size]

\* The links of a block outside of a list are words of its user, or unused.
NoLinks(m, a) == [m EXCEPT ![a].prev = None, ![a].next = None]

----------------------------------------------------------------------------
(* free_pointer, on a record of mem and main *)

\* The block before a is free: it leaves the list and takes a in.
JoinLeft(m, a) ==
  IF Mergeable(m, a)
  THEN LET l == PrevPtr(m, a) IN [m |-> Unlink(Join(m, l, a), l), a |-> l]
  ELSE [m |-> m, a |-> a]

\* Mutant: a free block on the right is left alone.
JoinRightNot(m, a) == m

\* The block after a is free: it leaves the list and goes into a.
JoinRight(m, a) ==
  LET r == NextPtr(m, a)
  IN IF Mergeable(m, NextPtr(m, r)) THEN Join(Unlink(m, r), a, r) ELSE m

\* Mutant: the block is not marked as free.
FreeAsideQuiet(m, a) ==
  LET left == JoinLeft(m, a)
      both == JoinRight(left.m, left.a)
  IN LinkFirst(both, left.a)

\* A block that does not touch page->ptr goes into the list.
FreeAside(m, a) ==
  LET left == JoinLeft(m, a)
      both == MarkFree(JoinRight(left.m, left.a), left.a)
      large == both[left.a].size >= both[both[HeadPtr].next].size
  IN IF large THEN LinkFirst(both, left.a) ELSE LinkLast(both, left.a)

FreePointer(p, a) ==
  LET left == JoinLeft(p.mem, a)
      joined == NoLinks(MarkFree(Join(left.m, left.a, p.main), left.a), left.a)
      right == Join(JoinRight(p.mem, a), p.main, a)
  IN IF NextPtr(p.mem, a) = p.main THEN [mem |-> joined, main |-> left.a]
     ELSE IF NextPtr(p.mem, p.main) = a
     THEN [p EXCEPT !.mem = MarkFree(right, p.main)]
     ELSE [p EXCEPT !.mem = FreeAside(p.mem, a)]

\* The loop over the blocks that wait in a recycle pool.
RECURSIVE FreeAll(_, _)
FreeAll(p, a) ==
  IF a = None THEN p
  ELSE FreeAll(FreePointer([p EXCEPT !.mem = NoLinks(@, a)], a), p.mem[a].next)

----------------------------------------------------------------------------
(* malloc, in the page *)

\* A block of the given size is cut from the front of page->ptr.
Cut(m, a, size) ==
  LET rest == [m EXCEPT ![a + size] = Xpointer(InUse, m[a].size - size, None, None),
                        ![a].size = size]
  IN MarkFree(rest, a + size)

\* page->ptr goes to the end of the list and the first of the list takes its place.
Exchange(p) ==
  LET kept == MarkFree(LinkLast(p.mem, p.main), p.main)
      first == kept[HeadPtr].next
  IN [mem |-> NoLinks(Unlink(kept, first), first), main |-> first]

\* Mutant: page->ptr may also be used up.
HasRoomAll(m, a, size) == size + F <= m[a].size \/ size = m[a].size

\* What is left of page->ptr is never smaller than a free block.
HasRoom(m, a, size) == size + F <= m[a].size

CanExchange(m, size) == m[m[HeadPtr].next].size > size + F

CanCut(size) == HasRoom(mem, main, size) \/ CanExchange(mem, size)

----------------------------------------------------------------------------
(* The threads *)

Init ==
  /\ mem = [a \in Addrs |->
       CASE a = HeadPtr -> Xpointer(InUse, F, None, EndPtr)
         [] a = F       -> Xpointer(InUse, PageSize - 2 * F, None, None)
         [] a = EndPtr  -> Xpointer(PageSize - 2 * F, F, HeadPtr, None)
         [] OTHER       -> Blank]
  /\ main = F
  /\ lock = Nobody
  /\ recycle = [k \in 0..(Recyclers - 1) |-> [lock |-> Nobody, head |-> None]]
  /\ pc = [t \in Threads |-> "idle"]
  /\ ptr = [t \in Threads |-> None]
  /\ want = [t \in Threads |-> 0]
  /\ after = [t \in Threads |-> None]
  /\ i = [t \in Threads |-> 0]
  /\ owned = {}

\* malloc(size), or realloc of the block old, which is freed afterwards
CallMalloc(t, size, old) ==
  /\ pc[t] = "idle"
  /\ pc' = [pc EXCEPT ![t] = "try"]
  /\ want' = [want EXCEPT ![t] = Req2Align(size)]
  /\ after' = [after EXCEPT ![t] = old]
  /\ owned' = owned \ {old}
  /\ UNCHANGED <<mem, main, lock, recycle, ptr, i>>

\* aligned_alloc asks for so much that it can cut off the front.
CallAligned(t, size) ==
  /\ pc[t] = "idle"
  /\ pc' = [pc EXCEPT ![t] = "try"]
  /\ want' = [want EXCEPT ![t] = Req2Align(size + Alignment + F)]
  /\ after' = [after EXCEPT ![t] = HeadPtr]
  /\ UNCHANGED <<mem, main, lock, recycle, ptr, i, owned>>

Aligning(t) == after[t] = HeadPtr

\* The call is over; realloc that got nothing leaves the old block to the program.
Return(t) ==
  /\ pc' = [pc EXCEPT ![t] = "idle"]
  /\ ptr' = [ptr EXCEPT ![t] = None]
  /\ want' = [want EXCEPT ![t] = 0]
  /\ after' = [after EXCEPT ![t] = None]
  /\ i' = [i EXCEPT ![t] = 0]

Miss(t) ==
  /\ Return(t)
  /\ owned' = IF after[t] \in {None, HeadPtr} THEN owned ELSE owned \cup {after[t]}

\* if (!__atom_try_lock(page->lock)) continue
TryPage(t) ==
  /\ pc[t] = "try"
  /\ \/ /\ lock = Nobody /\ lock' = t
        /\ pc' = [pc EXCEPT ![t] = "cut"]
        /\ UNCHANGED <<ptr, want, after, i, owned>>
     \/ lock # Nobody /\ Miss(t) /\ UNCHANGED lock
  /\ UNCHANGED <<mem, main, recycle>>

\* What the caller of malloc does with the block at a.
Got(t, a) ==
  IF Aligning(t)
  THEN /\ pc' = [pc EXCEPT ![t] = "align"]
       /\ ptr' = [ptr EXCEPT ![t] = a]
       /\ UNCHANGED <<want, after, i, owned>>
  ELSE IF after[t] # None
  THEN /\ pc' = [pc EXCEPT ![t] = "free"]
       /\ ptr' = [ptr EXCEPT ![t] = after[t]]
       /\ after' = [after EXCEPT ![t] = None]
       /\ owned' = owned \cup {a}
       /\ UNCHANGED <<want, i>>
  ELSE Return(t) /\ owned' = owned \cup {a}

\* malloc with the lock of the page
CutPage(t) ==
  LET here == [mem |-> mem, main |-> main]
      p == IF HasRoom(mem, main, want[t]) THEN here ELSE Exchange(here)
  IN /\ pc[t] = "cut"
     /\ lock' = Nobody
     /\ \/ /\ CanCut(want[t])
           /\ mem' = Cut(p.mem, p.main, want[t])
           /\ main' = p.main + want[t]
           /\ Got(t, p.main)
        \/ /\ ~CanCut(want[t])
           /\ Miss(t) /\ UNCHANGED <<mem, main>>
     /\ UNCHANGED recycle

\* aligned_alloc cuts off the front, without the lock: the block is its own.
Align(t) ==
  LET a == ptr[t]
      b == ((a + W + Alignment + F) \div Alignment) * Alignment - W
  IN /\ pc[t] = "align"
     /\ \/ /\ (a + W) % Alignment = 0
           /\ Return(t)
           /\ owned' = owned \cup {a}
           /\ UNCHANGED mem
        \/ /\ (a + W) % Alignment # 0
           /\ mem' = [mem EXCEPT ![a].size = b - a,
                        ![b] = Xpointer(mem[NextPtr(mem, a)].flag, mem[a].size - (b - a),
                                        None, None)]
           /\ pc' = [pc EXCEPT ![t] = "free"]
           /\ after' = [after EXCEPT ![t] = None]
           /\ owned' = owned \cup {b}
           /\ UNCHANGED <<ptr, want, i>>
     /\ UNCHANGED <<main, lock, recycle>>

CallFree(t, a) ==
  /\ pc[t] = "idle"
  /\ pc' = [pc EXCEPT ![t] = "free"]
  /\ ptr' = [ptr EXCEPT ![t] = a]
  /\ owned' = owned \ {a}
  /\ UNCHANGED <<mem, main, lock, recycle, want, after, i>>

\* free tries the lock of the page once.
FreeTry(t) ==
  /\ pc[t] = "free"
  /\ \/ lock = Nobody /\ lock' = t /\ pc' = [pc EXCEPT ![t] = "merge"]
     \/ lock # Nobody /\ pc' = [pc EXCEPT ![t] = "recycle"] /\ UNCHANGED lock
  /\ UNCHANGED <<mem, main, recycle, ptr, want, after, i, owned>>

Merge(t) ==
  LET p == FreePointer([mem |-> mem, main |-> main], ptr[t])
  IN /\ pc[t] = "merge"
     /\ mem' = p.mem /\ main' = p.main
     /\ lock' = Nobody
     /\ Return(t)
     /\ UNCHANGED <<recycle, owned>>

\* The block is put into the first recycle pool whose lock is free.
Recycle(t) ==
  /\ pc[t] = "recycle"
  /\ \/ /\ recycle[i[t]].lock = Nobody
        /\ mem' = [mem EXCEPT ![ptr[t]].next = recycle[i[t]].head]
        /\ recycle' = [recycle EXCEPT ![i[t]] = [lock |-> t, head |-> ptr[t]]]
        /\ pc' = [pc EXCEPT ![t] = "again"]
        /\ UNCHANGED i
     \/ /\ recycle[i[t]].lock # Nobody
        /\ i' = [i EXCEPT ![t] = (@ + 1) % Recyclers]
        /\ UNCHANGED <<mem, recycle, pc>>
  /\ UNCHANGED <<main, lock, ptr, want, after, owned>>

\* The lock of the page is tried again, and left to its holder if it is taken.
Again(t) ==
  /\ pc[t] = "again"
  /\ \/ lock = Nobody /\ lock' = t /\ pc' = [pc EXCEPT ![t] = "drain"]
     \/ lock # Nobody /\ pc' = [pc EXCEPT ![t] = "leave"] /\ UNCHANGED lock
  /\ UNCHANGED <<mem, main, recycle, ptr, want, after, i, owned>>

Drain(t) ==
  LET p == FreeAll([mem |-> mem, main |-> main], recycle[i[t]].head)
  IN /\ pc[t] = "drain"
     /\ mem' = p.mem /\ main' = p.main
     /\ recycle' = [recycle EXCEPT ![i[t]].head = None]
     /\ lock' = Nobody
     /\ pc' = [pc EXCEPT ![t] = "leave"]
     /\ UNCHANGED <<ptr, want, after, i, owned>>

\* Mutant: the lock of the pool is kept.
LeaveLocked(t) ==
  /\ pc[t] = "leave"
  /\ Return(t)
  /\ UNCHANGED <<mem, main, lock, recycle, owned>>

Leave(t) ==
  /\ pc[t] = "leave"
  /\ recycle' = [recycle EXCEPT ![i[t]].lock = Nobody]
  /\ Return(t)
  /\ UNCHANGED <<mem, main, lock, owned>>

Step(t) ==
  \/ TryPage(t) \/ CutPage(t) \/ Align(t)
  \/ FreeTry(t) \/ Merge(t) \/ Recycle(t) \/ Again(t) \/ Drain(t) \/ Leave(t)

Call(t) ==
  \/ \E size \in Requests : \E old \in owned \cup {None} : CallMalloc(t, size, old)
  \/ \E size \in AlignRequests : CallAligned(t, size)
  \/ \E a \in owned : CallFree(t, a)

Next == \E t \in Threads : Call(t) \/ Step(t)

Spec == Init /\ [][Next]_vars

\* A thread that is in a call keeps running: Step(t) is enabled in every state in
\* which t is not idle.
Fairness == \A t \in Threads : []<>(pc[t] = "idle") \/ []<><<Step(t)>>_vars

FairSpec == Spec /\ Fairness

----------------------------------------------------------------------------
(* Properties *)

\* The blocks as __next_pointer finds them from the first to the end.
Blocks ==
  LET walk[n \in 0..(PageSize \div F)] ==
        IF n = 0 THEN {F}
        ELSE LET seen == walk[n - 1]
             IN seen \cup {NextPtr(mem, a) : a \in seen \ {EndPtr}}
  IN walk[PageSize \div F] \ {EndPtr}

\* The list of free blocks, and the blocks in the recycle pools.
Chain(first, stop) ==
  LET walk[n \in 0..(PageSize \div F)] ==
        IF n = 0 THEN {first} \ {stop}
        ELSE LET seen == walk[n - 1]
             IN seen \cup ({mem[a].next : a \in seen} \ {stop})
  IN walk[PageSize \div F]
FreeList == Chain(mem[HeadPtr].next, EndPtr)
Waiting == UNION {Chain(recycle[k].head, None) : k \in DOMAIN recycle}

\* Blocks that a thread has in its hands in the middle of a call.
InHand ==
  {ptr[t] : t \in {u \in Threads : pc[u] \in {"align", "free", "merge", "recycle"}}}
  \cup {after[t] : t \in {u \in Threads : after[u] \notin {None, HeadPtr}}}
Used == owned \cup InHand \cup Waiting

\* The blocks fill the page without gap or overlap; each is big enough to be
\* linked into the list when it is freed, and is in exactly one place: it is
\* page->ptr, in the list, in a recycle pool, in the hands of a free, or the
\* program has it.  The last block of the page is never in use: free_pointer looks
\* at the flag two blocks to the right, which for it would lie behind the page.
PageTiled ==
  /\ Blocks = {main} \cup FreeList \cup Used
  /\ main \notin FreeList \cup Used /\ FreeList \cap Used = {}
  /\ \A a \in Blocks : mem[a].size >= F
  /\ owned \cap (InHand \cup Waiting) = {} /\ InHand \cap Waiting = {}
  /\ \A a \in Used : NextPtr(mem, a) # EndPtr

\* The flag after a block is its size exactly when the block is free or page->ptr,
\* which is what every merge of free_pointer relies on; and both directions of the
\* list agree, so that a merge can take its neighbour out.
TagsTell ==
  /\ \A a \in Blocks :
       mem[NextPtr(mem, a)].flag =
         IF a \in FreeList \cup {main} THEN mem[a].size ELSE InUse
  /\ \A a \in FreeList \cup {HeadPtr} : mem[mem[a].next].prev = a

\* When the program has given everything back and no recycle pool keeps a block,
\* the page is one block again (what xmalloc_leak_trace takes for no leak).
AllMergesBack == Used = {} => mem[main].size = PageSize - 2 * F

\* free ends although it only ever tries the locks: while a pool is being
\* emptied by another thread the next one is tried.
FreeReturns ==
  \A t \in Threads : pc[t] = "free" ~> pc[t] = "idle"
=============================================================================
