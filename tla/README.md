# Verification of wenas

wenas is a network storage program in C: a reliable transport over UDP (the
xltp protocol), requests and file streams on top of it, and the containers,
allocator and platform layer below.  This directory keeps TLA+ models of its
concurrent and distributed core, the TLC configurations that check them, and
TLAPS proofs about them.  Paths below are relative to `src/src/`.

## The system

| part | source | role | module |
|---|---|---|---|
| pipe | `xnet/xpipe.h` | ring buffer between threads; blocks readers and writers | `XPipe`, abstractly `XQueue` |
| messenger | `xnet/xmsger.c` | one thread that owns the channels, cuts messages into packets, acknowledges, retransmits, joins | `XChannel`, abstractly `XLink` |
| channel life | `xnet/xmsger.c`, `xnet/xltp.c` | REQ, RES, final ACK, timeout, flush | `XConnect` |
| requests | `xnet/xltp.c` | thread that runs callbacks for frames from the messenger | `XConnect`, `XLio` |
| file streams | `xnet/xlio.c` | thread that exchanges lists and files on a channel | `XLio` |
| data | `xnet/xline.h`, `xnet/xmsg.h` | key-value frames | no |
| containers | `xlib/avlmini.c`, `xnet/xtable.c`, `xnet/uuid.c` | AVL tree, tables, lists | `AvlTree`, `XTable`, `XUuidList`, `XPeers` |
| more containers | `xnet/xtree.h`, `xnet/xheap.h` | prefix tree, heap | no |
| allocator | `xnet/xmalloc.c` | replaces malloc | `XMalloc` (one page) |
| platform | `xapi/xapi.c`, `xapi/xatom.h` | mutex, condition variable, sockets, files (on libuv) | as far as the above need it |
| hashes, logger, programs | `xlib/`, `xapi/xlog.c`, `main.c`, `app/` | arithmetic, output | no |

A request goes like this.  A caller writes a frame into the message pipe of
xltp.  The xltp thread reads it and sends the messenger thread a datagram over
the loopback interface (connect).  The messenger creates a channel, cuts the
frame into packets and sends them.  The messenger of the server creates its
channel when the first packet comes, joins the packets and writes the frame
into the message pipe of its own xltp thread, which runs the callback.  The
response takes the same way back.  Both messengers report finished (BACK) and
overdue (TIMEDOUT) messages through the pipe, and both xltp threads ask for the
release of the channel (flush) through the loopback interface.  All frames
carry the plain address of a channel, and only the messenger thread knows when
that is freed.

## Modules

### XPipe

State: the fields of `struct xpipe`, the mutex with its owner, the set of
threads asleep on the condition variable, and for every thread its place in the
code (`pc`) and the locals `pos` and `writable`/`readable` (`n`).  There is one
action per access to shared state, named after the side (W or R) and the step:
`WTry` is the try-lock of `wlock`, `WSize` reads the counters, `WCopy` copies,
`WAdd` moves `pipe->writer`, `WMutex` ... `WRelease` are the path of a writer
that finds the pipe full, `WSignal`, `WProbe`, `WNotify` the search for a
sleeping reader.  `Break` and `Free` are the owner's `xpipe_break`, the draining
loop of `xltp_free` and `xlio_free`, and `xpipe_free`.  `Spurious` is a wake-up
without a signal.  Atomic operations are sequentially consistent, as
`xatom.h` asks for.  The histories `sent` and `recvd` hold every unit
committed to and taken from the ring.

The counters are 64 bits wide; `Nat` stands for them because they count bytes
and do not wrap in the lifetime of a process.

`xpipe_free` clears the counters before it breaks the pipe; the model has it run
only after the threads have ended, which is what the comment on line 205 of the
source demands and the callers do.

### XChannel

The two ends of one channel and the network.  A step is one datagram handled by
`msger_loop` or one visit of a channel by `xmsger_send_all`, because the
messenger is one thread; the only concurrent entry is `Submit` (`xmsger_send`).
Each function of the code is an operator from the record of an end to the new
record (`SerialMsg`, `SendPack`, `SendAck`, `RecvAck`, `RecvMsg`, `RecvPack`),
composed in the order of the code.  `msger_loop` visits the channels after
every datagram; since pacing and timers may make that visit do nothing, it is
an action of its own (`SendTurn`, `Resend`, `TimedOut`).

Serial numbers are taken modulo `SnSpace` (2^16 in the code), so the checked
instances wrap.  A message is a sequence of bytes known by their message and
place.  Times are left out: a timer may have run out or not, and the threshold,
which the code computes from round-trip samples, is any value from its least
one.  The network reorders; it loses, repeats and refuses (`udp_sendto` fails)
within the bounds of a run.  A datagram more than `NetCap` on the way to an end
is lost.  A conversation (what each end says, and how often the network may lose,
repeat or refuse) is a record `plan`, chosen at the start from `Plans`; its
`starts` lets it begin on an established channel near the wrap.

### XConnect

A client and a server, each with a messenger thread and an xltp thread, the
message pipe between them (here a queue, which XPipe justifies) and the local
socket (a reliable queue).  A request and a response are one packet each.  A
channel is the pair of its request and a generation, so a frame that refers to a
channel that was freed can be told from one whose channel is alive.  `Local` is
`xmsger_local_recv`, `Hear` the branches of `msger_loop`, `Transmit` and
`TimeOut` `xmsger_send_all`, `Work` `xltp_loop`.  What the code does with a
freed channel is undefined; the model records it (`stale`, `twice`) and goes on
without effect.

### XQueue and XLink

What the pipe and the channel promise.  `XQueue` is a bounded first-in first-out
queue whose owner takes out all whole messages when it closes it; `Content` and
the instance `Queue` in XPipe map the pipe to it.  `XLink` has for each side what it said, how much of that
the other side heard, in order, and how much was handed back; `Said` and the
instance `Link` in XChannel map a channel to it, and XLio uses its actions in
place of a channel.

### XLio

The uploader and the downloader of one transfer, each with its messenger thread
(reduced to XLink), its xltp thread and its xlio thread, and the two pipes
between them.  A stream is a record of the fields of `xlio_stream_t`; the
functions of the code (`TakeFrame`, `SendFile`, `UploadList`, `ScanDir`,
`RecvFile`, ...) map such records, and `XlioStep` is one turn of `xlio_loop`,
`XltpStep` one of `xltp_loop`.  A file is a sequence of units, a frame has room
for `Room` of them, and a list for `Chunk` entries.  A transfer (`plan`) says who
asks for what, which files the downloader has, which end may refuse and which
may time out.  Where the code goes through a null or dangling pointer, or uses
an id that was not set, the end is `crashed` and stops.  Errors of the file
system and the ownership of single frames are left out.

### XMalloc

One page of the allocator, in words: the `xpointer` at every address, the block
`page->ptr` that new blocks are cut from, the list of free blocks, the lock of
the page and the recycle pools.  What is done under `page->lock` is one step;
the try-locks are steps of their own.  `FreePointer` is `free_pointer` with its
three cases, `Cut` and `Exchange` are `malloc`, `Align` is the part of
`aligned_alloc` that runs without a lock.  A call that misses the page would go
on to other pages, which are left out.

### AvlTree, XTable, XUuidList, XPeers

`AvlTree` has the operations of `avlmini.c` on the pointers of the nodes; the
side of a rotation or a repair is a parameter.  `XTable` is `index_table`: slots,
the list through all nodes, and the tree of the nodes that found their slot
taken.  `number_compare` is modelled with its cut to an int (`IntBits`).
`XUuidList` is the list of uuids, with two trees that share the `avl_node` of
each node.  `XPeers` is the tree of channels of a messenger.  The fields of a
node outside of a container are forgotten, since they are written before they
are read or the caller hands in a fresh node.

## Runs

| run | what it shows |
|---|---|
| `pipe_parts` | Messages longer than the pipe: the ring keeps what is unread, units come out in order, everything is read, writes return. |
| `pipe_shared` | Two writers on a pipe that never fills: messages are not mixed, no wake-up is lost, no message leaks when the pipe is freed, writes return. |
| `channel_safe` | Three kinds of conversation: a request with its closing response, fresh or near the wrap of the serial numbers (`Reply`); more packets than the window, with early packets and fast retransmission (`Burst`); both ends sending, with acknowledgements on packets and a duplicate (`Talk`), a failing send (`TalkFails`), or, with one message less, both (`TalkShort`). |
| `channel_live` | Unlimited loss: everything arrives unless an end gives up, and the channel implements XLink (`ChannelIsLink`). |
| `connect_settle` | Request, response and release without timeouts: no double flush, no final ACK for a RES nobody took, a freed channel is used only when a RES overtook the ACK of its REQ, and the final ACK lets the server release its channel. |
| `connect_end` | With timeouts no channel stays for ever. |
| `transfer` | Nine transfers (see Bounds).  In all of them the frame pool stays whole, files on disk are prefixes of their source, and a downloader that closes the transfer has every file with data.  With timeouts, three of them, each end releases its channel whatever becomes of the other. |
| `page` | Two threads allocate, reallocate, align and free: blocks tile the page, tags and list tell the truth, everything merges back, and `free` returns. |
| `tables` | Every order of operations on the table of numbers, the list of uuids and the tree of channels: searches find exactly what is there, and trees, lists, rings and counters agree. |

Some properties of `transfer` are conditional, and the conditions matter.
`NoCrash`, `FreedWhenQuiet` and `TransferCompletes` leave out behaviours in which
an answer overtakes an ACK, a message is held because no frame is free, an end
refuses, or an end may time out (`Troubled`); `NoCrash` also leaves out transfers
with an empty file, and `TransferCompletes` accepts a crash.  In the cases left
out the model does reach crashes: with an overtaking alone, with a held message
alone, with a refusal, and with an empty file at the end of a list that another
list follows.  They are in the list of hazards in `PROJECT.json`, without a
property.

`BothEndsRelease` excuses an end whose own process crashes before it has released
its channel, and only that end: a crash of the other does not excuse it.  A second
flush, which timeouts cause too, crashes after the release.  Crashes before it
are those above, and one more: between a timeout and the release a client gets
another message and goes through the freed arguments of its request.  TLC also
reaches the end without any crash, with both timeouts and half of a file on disk.

Three runs expect a violation.  They state what a comment of the source says and
show what the code does:

| run | comment | what happens |
|---|---|---|
| `pipe_spin` | `xpipe.h:144` | A second writer on a full pipe spins on `wblock` with the mutex held, and the sleeping first one can never clear it. |
| `channel_hasty` | `xmsger.c:629`, `:555` | A resent packet combines a new `ack.pos` with an old `ack.sn`; the retransmission walk goes round the ring and sends a packet that was never sent. |
| `connect_twice` | `xmsger.c:1141` | A timeout and a completion flush the same channel. |

### Bounds

The pipe holds 1 to 4 units and a writer makes 1 to 4 calls: enough for it to
fill, empty and wrap more than once.  The serial numbers wrap at 16 and the
window has 4 packets, the ratio that the code has with 65536 and 64 is larger,
so the small instance is the harder one.  Messages take 1 to 3 packets, so one
message is spread over a window, ends inside a packet, and meets another.  One
or two losses and duplicates suffice to reach every branch of `RecvAck` and
`RecvPack`.  `MaxGen` lets a server create a channel for a request once more
after it was released.

`transfer` has a pool of 4 frames with positions modulo 8 (the code has
`uint8_t`), frames of 3 units and lists of 2 entries: single files and
directories, put and get, a file over several frames, a directory over two lists
with one file already there, an empty file between two lists, refusals, and
timeouts of both ends.  Where the first timeout is considered is a bound, since
its moment multiplies the states: at any moment of the transfer of an empty file,
at the downloader between the two parts of a file, and at the uploader of a file
of one part until that part has come in.  An end whose peer is gone or has
crashed may time out at any moment.  `page` has 28 words, room for five smallest blocks, and
an alignment of 4 words.  For an alignment of 8 words an aligned request of one
word violates `PageTiled`: the block that is left has 3 words, less than a free
block.  `tables` has 7 nodes in two slots with an index that occurs twice, 9
uuids with two rings, and 12 channels, the size from which one removal can need
rotations on two levels.  Indices and keys are close enough for their
differences to fit into an int, as in `test/xnet/dht_test.c`.

### Fairness

Threads keep running, and a thread that wants a mutex which is free again and
again gets it (the scheduler and the mutex of the platform).  The messenger
keeps visiting its channels, so timers run out.  Datagrams of a kind that keep
being sent keep arriving; without that no protocol could promise anything.
Nothing is assumed of callers, of `xpipe_break`, of spurious wake-ups, of
losses and of the time limit, except in `connect_end`, where time passes.

In XLio and XMalloc fairness is written out, as "again and again the step cannot
be taken, or again and again it is taken", with the guard of the step as a
definition: this is weak fairness without ENABLED, which TLC would evaluate
slowly.  For the same reason XLio tells a step by the change that only it makes.
In XLio every thread keeps running, the link delivers while neither end
has freed its channel, and a channel that may time out does so unless it is
released.  In XMalloc a thread inside a call keeps running.

## Proofs

The proofs are about the pipe and about the life of a channel.  The two have
nothing in common but their method: an inductive invariant, one lemma per kind of
step, and a theorem that combines them.

Where a leaf cites `Zenon`, the default solver does not find the step, or only
after most of its time; the pragma saves that time.

### The pipe

`XPipeRing` has the arithmetic of ring indices and the lemmas about slots, copies
and histories, `XPipeMoves` the steps that move data, `XPipeControl` the other
steps of the threads, `XPipeWakeup` the handshake of sleepers and wakers,
`XPipeMessages` what the units of the messages do, and `XPipeProofs` the
theorems.  They hold for any number of readers and writers, any pipe length and
any message length (`PipeAssumption`):

* `TypeCorrect`: `Spec => []TypeOK`
* `UnreadIsKept`: `Spec => []RingHoldsUnread`
* `Fifo`: `Spec => []FirstInFirstOut`
* `NoMessageLeaks`: `Spec => []NothingLeaks`
* `WakeupsReach`: `Spec => []NoLostWakeup`
* `EachUnitOnce`: `Spec => []NoUnitTwice`
* `WholeMessages`: `Spec => []NoTornMessage`, for messages whose length divides
  that of the pipe (`Divides`)
* `PipeImplementsQueue`: `Spec => PipeIsQueue`, from `IInv`: `AddPuts`,
  `AddTakes` and `FreeCloses` say which steps are steps of the queue,
  `CopyUnseen` that a copy is not seen before it is committed, and
  `QuietStutters` that all other steps leave the queue unchanged

`RingHoldsUnread` is not inductive: a writer uses a size it computed before, and
the slots it has filled belong to nobody until it moves `pipe->writer`.  `IInv`
adds that the flags `wlock` and `rlock` admit one thread (`LockInv`), that a
size computed under the flag is still at most the room or the content, because
only the other side can change it and only in the right direction (`WriterInv`,
`ReaderInv`), and that the slots copied but not committed hold the right part of
the message.  There is one lemma per data step and one for all the steps that
move no data (`WriterQuiet`, `ReaderQuiet`).

Why no wake-up is lost: `wblock` and `rblock` are locks as well.  `wblock` is held
by a writer that sleeps or is about to, or by a reader that looks for one, never
by two threads (`BlockInv`); the same goes for `rblock`.  A thread wakes whoever
sleeps before it looks at the pipe a last time and sleeps itself, so at most one
thread sleeps at all (`SleepInv`), and the one `uv_cond_signal` reaches it.  `WakeInv`
joins these with `NoLostWakeup`.

For the messages, `UnitsInv` says that of the call a writer is in there is
committed just what the writer has done of it; no unit can then be committed
twice.  `MsgInv` says that everything moves by whole messages.  It is inductive
only if the room of the ring is always a whole number of messages, which is
`Divides`; the callers pass pointers through pipes of a power of two, at least
one pointer long.  Otherwise a message is written in parts and the property is
false, since another writer may come between.

### The life of a channel

`XConnectTypes` reduces each step to what it does to the pipe and the socket of a
process, and has the ranges.  `XConnectRelease` has the release.  They hold for
every set of requests and every bound (`ConnectAssumption`):

* `TypeCorrect`: `Spec => []TypeOK`, with and without timeouts
* `FlushesOnce`: `Spec => []FlushedOnce`, if nothing times out
* `StaleNeedsOvertaking`: `Spec => []StaleOnlyIfOvertaken`, if nothing times out
* `AckMeansTaken`: `Spec => []AckedWasHeard`, if nothing times out
* `FinalOnlyRepeats`: `Spec => []FinalForRepeated`, if nothing times out

The condition `~MayTimeOut` is the one of the run `connect_settle`, and it is
needed: with timeouts the run `connect_twice` shows a channel flushed twice.

None of these is inductive, because the steps of the two threads of a process are
tied only by what is in the queues between them.  The invariant therefore says,
for every kind of frame in the pipe and of command in the socket, in which state
the channel is that it names, and that it is there once.  `TypeInv` and `OnceInv`
are for all executions: a client creates one channel for a request, because the
posted request, then the connect, is in a queue once and only before that.
`ReleaseInv` adds, while nothing times out, for the client (`ClientOf`): a RES in
the pipe belongs to a channel that is live and not flushed, a flush in the socket
to one that is live, and unless the RES overtook it the report that the REQ is
through comes out before the RES, so it still finds the channel.  For the server
(`ServerOf`): a request in the pipe, or its response in the socket, belongs to a
channel that has nothing to send yet, a report that the response is through, or a
flush, to one that is through, and always to the latest generation.  For the
network (`NetOf`): an ACK on its way to the server is about a RES that the client
took.

### Only model-checked

* All liveness: `EverythingIsRead`, `WriteReturns`, `EverythingArrives`,
  `AnswerSettles`, `EveryChannelEnds`, `TransferCompletes` and the like are out
  of the prover's reach.
* The transport on a channel (XChannel), and that it implements XLink.
* Transfers, the allocator and the containers, whose modules use recursive
  operators.

## Not modelled

* The start and the shutdown of the threads (`xltp_create`, `xltp_free`,
  `xmsger_free`, `xlio_free`) with a bounded message pipe, and several channels
  on one send list (the `break` on line 902 of `xmsger.c`).
* Errors of the file system in `xlio`, and who owns a single frame.
* Pools and the creation of pages in `xmalloc`; `search_table`, whose add, del and
  find have the shape of `index_table`, and whose clear reads nodes it has freed
  (line 79 of `xtable.c`).
* `xtree`, of which the program uses little, `xheap`, which only a test uses, and
  the byte layout of `xline`.
* Pacing, round-trip times and the threshold computed from them.
* A RES that `xmsger_local_recv` puts into a full message buffer (line 820 of
  `xmsger.c` does not look at the room): `Submit` waits for room for every message.
* Hashes (arithmetic without a reference), logger and backtrace (output), the
  programs around xltp, sources that are not built (`xalloc.c`, `task.c`,
  `file.c`, `socket.c`, `app/xpeer.c`), and the vendored libuv, a library with a
  life of its own that makes up most of the lines under `src/`.
