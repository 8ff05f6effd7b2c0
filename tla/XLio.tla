-------------------------------- MODULE XLio --------------------------------
(***************************************************************************)
(* A file transfer of src/xnet/xlio.c: two streams, an uploader and a      *)
(* downloader, one at each end of a channel, with the threads of their     *)
(* processes.  The messenger thread of an end reports what the channel     *)
(* brings (XLink) into msgpipe; the thread of xltp passes it on to the     *)
(* thread of xlio through a second pipe; that thread runs the stream.      *)
(*                                                                         *)
(* A file is a sequence of units, a frame has room for Room of them, the   *)
(* entry of a file takes one.  Names, paths and checksums are left out: an *)
(* item of the directory is known by its place in the order of the         *)
(* scanner.  A handler of xlio_loop is a function on a record r of what it *)
(* has done so far: the stream r.s, the frames r.out it gave to the        *)
(* channel, the files r.disk, and r.end: "ok", "fail" (it returned -1) or  *)
(* "crash" (it went through a null or dangling pointer).                   *)
(***************************************************************************)
EXTENDS Integers, Sequences, SequencesExt, FiniteSets

CONSTANTS
  Plans,      \* the transfers considered, see below
  MsgRange,   \* MSGBUF_RANGE
  PosSpace,   \* 2^8, the values of rpos and wpos
  Room,       \* MSGBUF_SIZE, in units
  Chunk       \* items whose description fits into a frame

Up == "up"
Down == "down"
Ends == {Up, Down}
Other(e) == IF e = Up THEN Down ELSE Up

ASSUME LioAssumption ==
  /\ MsgRange \in Nat \ {0} /\ PosSpace \in Nat /\ PosSpace > MsgRange
  /\ PosSpace % MsgRange = 0
  /\ Room \in Nat /\ Room > 1 /\ Chunk \in Nat \ {0}

VARIABLES
  plan,       \* the transfer, which does not change
  said, heard, back,   \* the channel
  stream,     \* stream[e]: struct xlio_stream
  ctx,        \* ctx[e]: whether the channel of e points to its stream
  started,    \* started[e]: the client has used up its request
  msgpipe,    \* msgpipe[e]: from the messenger thread to the thread of xltp
  iopipe,     \* iopipe[e]: to the thread of xlio
  local,      \* local[e]: flushes on their way to the messenger thread
  gone,       \* gone[e]: the messenger thread has freed the channel
  timedout,   \* timedout[e]: channel->timedout
  disk,       \* disk[i]: the units of item i at the downloader
  held,       \* the ends that had to put a message aside
  overtook,   \* the ends that got a message before the ACK that preceded it
  crashed     \* the ends whose process went through a bad pointer
link == <<said, heard, back>>
pipes == <<msgpipe, iopipe>>
marks == <<held, overtook>>
vars == <<plan, link, stream, ctx, started, pipes, local, gone, timedout, disk,
          marks, crashed>>

\* One transfer: tree is what the scanner finds, each item a record of dir and
\* size; single if the path names a file; have are the items the downloader has
\* already; refuse the ends that cannot open or create their path; timeouts those
\* that may time out.  Two bounds say where the first timeout is considered: at the
\* ends in first, when one of the numbers in when of messages of the uploader have
\* been delivered.
Tree == plan.tree
Client == IF plan.put THEN Up ELSE Down
Server == Other(Client)

Link == INSTANCE XLink WITH Sides <- Ends

Null == [type |-> "NULL"]
Nothing == <<>>      \* no list
Dangling == -1       \* obj points into a list that was freed

Frame(type, slot, api, list, size) ==
  [type |-> type, slot |-> slot, api |-> api, list |-> list, size |-> size]

NoSlot == MsgRange   \* the id of a frame that was never in a pool is not set
ReqFrame == Frame("REQ", NoSlot, "put/get", <<>>, 0)
Refusal == Frame("RES", NoSlot, "code", <<>>, 0)

Size(i) == Tree[i].size
Total(list) == FoldLeft(LAMBDA sum, i : sum + Size(i), 0, list)
Unit(i, k) == <<i, k>>
Source(i) == [k \in 1..Size(i) |-> Unit(i, k)]

----------------------------------------------------------------------------
(* The pool of frames of a stream *)

Readable(s) == (s.wpos - s.rpos) % PosSpace

NewStream ==
  [open |-> TRUE, pool |-> 0..(MsgRange - 1), rpos |-> 0, wpos |-> MsgRange,
   recv |-> Null, upload |-> Nothing, uploading |-> FALSE, next |-> 1, obj |-> 0,
   file_pos |-> 0, list_pos |-> 0, list_size |-> 0, fd |-> 0,
   scan |-> 1, scanner |-> ~plan.single, file_size |-> IF plan.single THEN Size(1) ELSE 0]
NoStream == [NewStream EXCEPT !.open = FALSE]

\* Mutant: the frame stays in its slot.
TakeFrameKeep(s) ==
  [s EXCEPT !.rpos = (@ + 1) % PosSpace]

\* xlio_take_frame, when the slot holds a frame
TakeFrame(s) ==
  [s EXCEPT !.pool = @ \ {s.rpos % MsgRange}, !.rpos = (@ + 1) % PosSpace]

\* xlio_resave_frame
ResaveFrame(s, slot) ==
  [s EXCEPT !.pool = @ \cup {slot}, !.wpos = (@ + 1) % PosSpace]

Fail(r) == [r EXCEPT !.end = "fail"]
Crash(r) == [r EXCEPT !.end = "crash"]

\* A frame is taken, filled and given to the channel, which has room for it:
\* XMSG_BUF_RANGE is larger than the pool and the request together.
SendFrame(r, type, api, list, size) ==
  LET slot == r.s.rpos % MsgRange
  IN IF slot \notin r.s.pool
     THEN Crash(r)
     ELSE [r EXCEPT !.s = TakeFrame(@),
                    !.out = Append(@, Frame(type, slot, api, list, size))]

----------------------------------------------------------------------------
(* The uploader *)

\* The loop of xlio_send_file: entries with data while there is room.
RECURSIVE Fill(_, _, _)
Fill(s, room, parts) ==
  IF s.obj = 0
  THEN IF s.next > Len(s.upload)
       THEN [s |-> s, parts |-> parts]
       ELSE Fill([s EXCEPT !.obj = s.next, !.next = @ + 1], room, parts)
  ELSE IF room <= 1
  THEN [s |-> s, parts |-> parts]
  ELSE LET i == s.upload[s.obj]
           left == Size(i) - s.file_pos
           len == IF left < room - 1 THEN left ELSE room - 1
           data == SubSeq(Source(i), s.file_pos + 1, s.file_pos + len)
           more == Append(parts, [file |-> i, pos |-> s.file_pos, data |-> data])
       IN IF len < left
          THEN [s |-> [s EXCEPT !.file_pos = @ + len, !.list_pos = @ + len],
                parts |-> more]
          ELSE Fill([s EXCEPT !.file_pos = 0, !.list_pos = @ + len, !.obj = 0],
                    room - 1 - len, more)

SendFile(r) ==
  IF r.s.obj = Dangling
  THEN Crash(r)
  ELSE LET full == Fill(r.s, Room, <<>>)
       IN SendFrame([r EXCEPT !.s = full.s], "MSG", "upload_list", full.parts, 0)

\* xlio_upload_list, when a frame has come back
UploadList(r) ==
  IF ~r.s.uploading
  THEN r
  ELSE IF r.s.list_pos < r.s.list_size
  THEN SendFile(r)
  ELSE IF r.s.list_pos # r.s.list_size
  THEN Fail(r)
  ELSE LET sent == SendFrame(r, "MSG", "upload_list", <<>>, 0)
       IN [sent EXCEPT !.s.uploading = FALSE, !.s.upload = Nothing,
                       !.s.obj = IF @ = 0 THEN 0 ELSE Dangling,
                       !.s.list_pos = 0, !.s.list_size = 0]

\* xlio_scan_dir fills a list and keeps the item that did not fit; the scanner
\* is closed when it has no more.
ScanDir(r) ==
  LET last == IF r.s.scan + Chunk - 1 < Len(Tree) THEN r.s.scan + Chunk - 1
                                                 ELSE Len(Tree)
      list == [k \in 1..(last - r.s.scan + 1) |-> r.s.scan + k - 1]
      sent == SendFrame(r, "MSG", "res_list", list, 0)
  IN [sent EXCEPT !.s.scan = last + 1, !.s.scanner = last < Len(Tree),
                  !.s.list_size = @ + Total(list)]

\* xlio_gen_list
GenList(r) ==
  LET sent == SendFrame(r, "MSG", "res_list", <<1>>, 0)
  IN [sent EXCEPT !.s.file_size = 0]

ReqList(r) ==
  IF r.s.scanner THEN ScanDir(r)
  ELSE IF r.s.file_size > 0 THEN GenList(r)
  ELSE SendFrame(r, "MSG", "res_list", <<>>, 0)

\* Mutant: it sends on without a free frame.
RECURSIVE SendWhileAny(_)
SendWhileAny(r) ==
  IF r.end = "ok" /\ r.s.list_pos < r.s.list_size THEN SendWhileAny(SendFile(r)) ELSE r

\* Frames are sent as long as there is one in the pool.
RECURSIVE SendWhile(_)
SendWhile(r) ==
  IF r.end = "ok" /\ r.s.list_pos < r.s.list_size /\ Readable(r.s) > 0
  THEN SendWhile(SendFile(r))
  ELSE r

DownloadList(r, m) ==
  IF r.s.uploading
  THEN Fail(r)
  ELSE SendWhile([r EXCEPT !.s.uploading = TRUE, !.s.upload = m.list,
                           !.s.next = 1, !.s.list_size = m.size])

----------------------------------------------------------------------------
(* The downloader *)

\* Mutant: the stream is closed as soon as the RES is given to the channel.
DisconnectNow(r) == Fail(SendFrame(r, "RES", "none", <<>>, 0))

\* There is nothing more to ask for.
Disconnect(r) == SendFrame(r, "RES", "none", <<>>, 0)

\* xlio_check_list: directories are made, files that exist are not asked for.
\* An answer that asks for no data is turned into the next REQ_LIST.
ResList(r, m) ==
  LET files == SelectSeq(m.list, LAMBDA i : ~Tree[i].dir /\ i \notin DOMAIN r.disk)
      dirs == {i \in Range(m.list) : Tree[i].dir /\ i \notin DOMAIN r.disk}
      size == r.s.list_size + Total(files)
      made == [i \in DOMAIN r.disk \cup dirs |-> IF i \in dirs THEN <<>> ELSE r.disk[i]]
      seen == [r EXCEPT !.disk = made, !.s.list_size = size]
  IN IF m.list = <<>>
     THEN Disconnect(r)
     ELSE SendFrame(seen, "MSG", IF size > 0 THEN "download_list" ELSE "req_list",
                    files, size)

\* Mutant: a part is written wherever the file stands.
RecvPartAnywhere(r, p) ==
  LET file == IF r.s.fd = 0 THEN p.file ELSE r.s.fd
      opened == [i \in DOMAIN r.disk \cup {p.file} |->
                   IF i = p.file /\ r.s.fd = 0 THEN <<>> ELSE r.disk[i]]
      pos == r.s.file_pos + Len(p.data)
      whole == pos = Size(p.file)
  IN IF r.end # "ok"
     THEN r
     ELSE [r EXCEPT !.disk = [opened EXCEPT ![file] = @ \o p.data],
                    !.s.list_pos = @ + Len(p.data),
                    !.s.file_pos = IF whole THEN 0 ELSE pos,
                    !.s.fd = IF whole THEN 0 ELSE file]

\* One entry of xlio_recv_file.  A file that is opened again stands at 0,
\* whatever it holds (O_APPEND and lseek).
RecvPart(r, p) ==
  LET file == IF r.s.fd = 0 THEN p.file ELSE r.s.fd
      opened == [i \in DOMAIN r.disk \cup {p.file} |->
                   IF i = p.file /\ r.s.fd = 0 /\ (p.pos = 0 \/ i \notin DOMAIN r.disk)
                   THEN <<>> ELSE r.disk[i]]
      tell == IF r.s.fd = 0 THEN 0 ELSE Len(r.disk[r.s.fd])
      pos == r.s.file_pos + Len(p.data)
      whole == pos = Size(p.file)
  IN IF r.end # "ok"
     THEN r
     ELSE IF p.pos # tell
     THEN Fail([r EXCEPT !.disk = opened])
     ELSE [r EXCEPT !.disk = [opened EXCEPT ![file] = @ \o p.data],
                    !.s.list_pos = @ + Len(p.data),
                    !.s.file_pos = IF whole THEN 0 ELSE pos,
                    !.s.fd = IF whole THEN 0 ELSE file]

\* Mutant: an end that comes too early is taken.
RecvFileAnyEnd(r, m) ==
  IF m.list # <<>>
  THEN FoldLeft(RecvPart, r, m.list)
  ELSE LET sent == SendFrame(r, "MSG", "req_list", <<>>, 0)
       IN [sent EXCEPT !.s.list_pos = 0, !.s.list_size = 0]

\* xlio_recv_file
RecvFile(r, m) ==
  IF m.list # <<>>
  THEN FoldLeft(RecvPart, r, m.list)
  ELSE IF r.s.list_pos # r.s.list_size
  THEN Fail(r)
  ELSE LET sent == SendFrame(r, "MSG", "req_list", <<>>, 0)
       IN [sent EXCEPT !.s.list_pos = 0, !.s.list_size = 0]

\* xlio_recv_frame
RecvFrame(r, m) ==
  CASE m.api = "req_list" -> ReqList(r)
    [] m.api = "res_list" -> ResList(r, m)
    [] m.api = "download_list" -> DownloadList(r, m)
    [] m.api = "upload_list" -> RecvFile(r, m)

----------------------------------------------------------------------------
(* The messenger threads *)

Event(flag, m) == [flag |-> flag, m |-> m]

Init ==
  /\ plan \in Plans
  /\ said = [e \in Ends |-> IF e = Client THEN <<ReqFrame>> ELSE <<>>]
  /\ heard = [e \in Ends |-> <<>>]
  /\ back = [e \in Ends |-> 0]
  /\ stream = [e \in Ends |-> NoStream]
  /\ ctx = [e \in Ends |-> FALSE]
  /\ started = [e \in Ends |-> FALSE]
  /\ msgpipe = [e \in Ends |-> <<>>]
  /\ iopipe = [e \in Ends |-> <<>>]
  /\ local = [e \in Ends |-> 0]
  /\ gone = [e \in Ends |-> FALSE]
  /\ timedout = [e \in Ends |-> FALSE]
  /\ disk = [i \in plan.have |-> <<>>]
  /\ held = {} /\ overtook = {} /\ crashed = {}

\* The channel of e is there, and its process is.
Alive(e) == e \notin crashed /\ ~gone[e]

\* The channel of e brings the next message of the other end.  It may do so
\* before it has brought the ACKs of what that end answers.
Receive(e) ==
  LET p == Other(e)
      m == said[p][Len(heard[p]) + 1]
  IN /\ Alive(e) /\ Link!Hear(p)
     /\ msgpipe' = [msgpipe EXCEPT ![e] = Append(@, Event("recv", m))]
     /\ overtook' = IF (m.api = "status" \/ m.type = "RES") /\ back[e] < Len(said[e])
                    THEN overtook \cup {e} ELSE overtook
     /\ UNCHANGED <<plan, stream, ctx, started, iopipe, local, gone, timedout,
                    disk, held, crashed>>

\* A frame of e has arrived at the other end.
Release(e) ==
  /\ Alive(e) /\ Link!Back(e)
  /\ msgpipe' = [msgpipe EXCEPT ![e] = Append(@, Event("back", said[e][back'[e]]))]
  /\ UNCHANGED <<plan, stream, ctx, started, iopipe, local, gone, timedout,
                 disk, marks, crashed>>

\* A RES to a channel that is gone is answered with a final ACK, which releases
\* all frames of e.
CanReleaseAll(e) ==
  /\ Alive(e) /\ gone[Other(e)] /\ Other(e) \notin crashed
  /\ back[e] < Len(said[e]) /\ Last(said[e]).type = "RES"

ReleaseAll(e) ==
  /\ CanReleaseAll(e)
  /\ back' = [back EXCEPT ![e] = Len(said[e])]
  /\ msgpipe' = [msgpipe EXCEPT ![e] = @ \o
                   [k \in 1..(Len(said[e]) - back[e]) |->
                      Event("back", said[e][back[e] + k])]]
  /\ UNCHANGED <<plan, said, heard, stream, ctx, started, iopipe, local, gone,
                 timedout, disk, marks, crashed>>

\* The first timeout is one of plan.first, at a moment of plan.when; an end whose
\* peer is gone or has crashed times out at any moment.
CanTimeOut(e) ==
  /\ e \in plan.timeouts /\ Alive(e) /\ ~timedout[e]
  /\ e = Client \/ heard[Client] # <<>>
  /\ ~Alive(Other(e)) \/ (e \in plan.first /\ Len(heard[Up]) \in plan.when)

TimeOut(e) ==
  /\ CanTimeOut(e)
  /\ timedout' = [timedout EXCEPT ![e] = TRUE]
  /\ msgpipe' = [msgpipe EXCEPT ![e] = Append(@, Event("timedout", Null))]
  /\ UNCHANGED <<plan, link, stream, ctx, started, iopipe, local, gone, disk,
                 marks, crashed>>

\* FLUSH reaches the messenger thread: xchannel_free, once.
FreeChannel(e) ==
  /\ e \notin crashed /\ local[e] > 0
  /\ local' = [local EXCEPT ![e] = @ - 1]
  /\ gone' = [gone EXCEPT ![e] = TRUE]
  /\ crashed' = IF gone[e] THEN crashed \cup {e} ELSE crashed
  /\ UNCHANGED <<plan, link, stream, ctx, started, pipes, timedout, disk, marks>>

----------------------------------------------------------------------------
(* The thread of xltp *)

\* xmsger_flush
Flush(e) == local' = [local EXCEPT ![e] = @ + 1]

\* xlio_start_downloader and xlio_start_uploader, with what the server sends.
\* The downloader asks for the first list from the thread of xlio.
Start(e) ==
  LET r == [s |-> NewStream, out |-> <<>>, disk |-> disk, end |-> "ok"]
      sent == IF e = Server THEN SendFrame(r, "MSG", "status", <<>>, 0) ELSE r
  IN /\ stream' = [stream EXCEPT ![e] = sent.s]
     /\ ctx' = [ctx EXCEPT ![e] = TRUE]
     /\ started' = [started EXCEPT ![e] = TRUE]
     /\ iopipe' = IF e = Down
                  THEN [iopipe EXCEPT ![e] = Append(@, Event("post_download", Null))]
                  ELSE iopipe
     /\ Link!Say(e, sent.out)

\* api_put and api_get cannot open or create the path.  xlio_start_uploader has
\* then freed the request that api_get writes its answer into.
Refuse(e) ==
  /\ Link!Say(e, <<Refusal>>)
  /\ UNCHANGED <<stream, ctx, started, iopipe>>

KeepStream == UNCHANGED <<link, stream, ctx, started, iopipe>>

\* A process that frees twice, or uses what it has freed.
Break(e) == crashed' = crashed \cup {e} /\ KeepStream /\ UNCHANGED local

\* res_put and res_get.  On failure they free what has been freed; a second
\* message finds the arguments of the request freed.
Answer(e) ==
  \/ ~started[e] /\ Start(e) /\ UNCHANGED <<local, crashed>>
  \/ (started[e] \/ e \in plan.refuse) /\ Break(e)

\* Mutant: a timeout without a stream is ignored.
TimedOutIdle(e) == UNCHANGED local

\* xltp_timedout, for a channel without a stream
TimedOut(e) == Flush(e)

\* xltp_recv, xltp_back and xltp_timedout for a channel without a stream.
HandleMessage(e, ev) ==
  \/ /\ ev.flag = "recv" /\ ev.m.type = "REQ"
     /\ \/ Start(e) /\ UNCHANGED <<local, crashed>>
        \/ e \in plan.refuse /\ Refuse(e) /\ UNCHANGED <<local, crashed>>
        \/ e \in plan.refuse /\ e = Up /\ Break(e)
  \/ /\ ev.flag = "recv" /\ ev.m.type = "MSG"
     /\ IF e = Client THEN Answer(e) ELSE KeepStream /\ UNCHANGED <<local, crashed>>
  \/ /\ ev.flag = "recv" /\ ev.m = Refusal
     /\ \/ ~started[e] /\ Start(e) /\ Flush(e) /\ UNCHANGED crashed
        \/ (started[e] \/ e \in plan.refuse) /\ Break(e)
  \/ /\ \/ ev.flag = "recv" /\ ev.m.type = "RES" /\ ev.m # Refusal
        \/ ev.flag = "back" /\ ev.m.type = "RES"
     /\ Flush(e) /\ KeepStream /\ UNCHANGED crashed
  \/ /\ ev.flag = "timedout"
     /\ TimedOut(e) /\ KeepStream /\ UNCHANGED crashed
  \/ /\ ev.flag = "back" /\ ev.m.type # "RES"
     /\ KeepStream /\ UNCHANGED <<local, crashed>>

\* xltp_loop takes the next frame.  That of a channel with a stream goes into the
\* pipe of xlio (xlio_stream_write, xlio_stream_resave, xlio_stream_close).  The
\* channel may have been freed meanwhile; its memory is then taken to be as it was
\* left, without a stream (FreedWhenQuiet says when this does not happen).
XltpStep(e) ==
  LET ev == Head(msgpipe[e])
  IN /\ e \notin crashed /\ msgpipe[e] # <<>>
     /\ msgpipe' = [msgpipe EXCEPT ![e] = Tail(@)]
     /\ IF ctx[e]
        THEN /\ iopipe' = [iopipe EXCEPT ![e] =
                  Append(@, IF ev.flag = "timedout" THEN Event("post_close", Null) ELSE ev)]
             /\ UNCHANGED <<link, stream, ctx, started, local, crashed>>
        ELSE HandleMessage(e, ev)
     /\ UNCHANGED <<plan, gone, timedout, disk, marks>>

----------------------------------------------------------------------------
(* The thread of xlio *)

Begin(e) == [s |-> stream[e], out |-> <<>>, disk |-> disk, end |-> "ok"]

\* xlio_stream_free clears the pointer of the channel and has it flushed.
StreamFree(e) ==
  /\ stream' = [stream EXCEPT ![e] = NoStream]
  /\ ctx' = [ctx EXCEPT ![e] = FALSE]
  /\ Flush(e)

\* The end of a handler; a stream whose handler has failed is freed.
Settle(e, r) ==
  /\ Link!Say(e, r.out)
  /\ disk' = r.disk
  /\ \/ r.end = "ok" /\ stream' = [stream EXCEPT ![e] = r.s] /\ UNCHANGED <<ctx, local>>
     \/ r.end = "fail" /\ StreamFree(e)
     \/ r.end = "crash" /\ UNCHANGED <<stream, ctx, local>>
  /\ crashed' = IF r.end = "crash" THEN crashed \cup {e} ELSE crashed

\* A message; without a free frame to answer it is put aside in recv_frame.
RecvMsg(e, m) ==
  IF Readable(stream[e]) = 0
  THEN /\ Settle(e, [Begin(e) EXCEPT !.s.recv = m])
       /\ held' = held \cup {e}
  ELSE Settle(e, RecvFrame(Begin(e), m)) /\ UNCHANGED held

\* The message put aside is handled.  xl_free clears the pointer only with the
\* last reference, and a DOWNLOAD_LIST is held by the stream; after a failure
\* the pointer is cleared through the stream that was freed.
HandleHeld(r) ==
  LET m == r.s.recv
      done == RecvFrame(r, m)
  IN IF done.end = "ok"
     THEN [done EXCEPT !.s.recv = IF m.api = "download_list" THEN m ELSE Null]
     ELSE Crash(done)

\* Mutant: the frame that came back is not used to go on.
BackIdle(e, slot) ==
  LET r == [Begin(e) EXCEPT !.s = ResaveFrame(@, slot)]
  IN IF r.s.recv # Null THEN HandleHeld(r) ELSE r

Back(e, slot) ==
  LET r == [Begin(e) EXCEPT !.s = ResaveFrame(@, slot)]
  IN IF r.s.recv # Null THEN HandleHeld(r)
     ELSE IF e = Up THEN UploadList(r)
     ELSE r

\* A frame has come back; the RES is the last one of a stream.  The type is read
\* when the frame may have been taken, filled and sent again.  The id of the
\* request was never set, and it would be stored in the slot of that number.
GetBack(e, m) ==
  LET r == Back(e, m.slot)
      again == SelectSeq(r.out, LAMBDA f : f.slot = m.slot)
      type == IF again = <<>> THEN m.type ELSE Last(again).type
  IN Settle(e, IF m.slot = NoSlot THEN Crash(Begin(e))
               ELSE IF r.end = "ok" /\ type = "RES" THEN Fail(r) ELSE r)

\* xlio_post_download
PostDownload(e) ==
  Settle(e, IF Readable(stream[e]) = 0 THEN Begin(e)
            ELSE SendFrame(Begin(e), "MSG", "req_list", <<>>, 0))

\* xlio_loop
XlioStep(e) ==
  LET ev == Head(iopipe[e])
  IN /\ e \notin crashed /\ iopipe[e] # <<>>
     /\ iopipe' = [iopipe EXCEPT ![e] = Tail(@)]
     /\ \/ ~ctx[e] /\ UNCHANGED <<link, stream, ctx, local, disk, held, crashed>>
        \/ /\ ctx[e] /\ ev.flag = "recv" /\ ev.m.type = "MSG"
           /\ RecvMsg(e, ev.m)
        \/ /\ ctx[e] /\ ev.flag = "recv" /\ ev.m.type = "RES"
           /\ Settle(e, Fail(Begin(e))) /\ UNCHANGED held
        \/ /\ ctx[e] /\ ev.flag = "back"
           /\ GetBack(e, ev.m) /\ UNCHANGED held
        \/ /\ ctx[e] /\ ev.flag = "post_download"
           /\ PostDownload(e) /\ UNCHANGED held
        \/ /\ ctx[e] /\ ev.flag = "post_close"
           /\ Settle(e, Fail(Begin(e))) /\ UNCHANGED held
     /\ UNCHANGED <<plan, started, msgpipe, gone, timedout, overtook>>

----------------------------------------------------------------------------

Wanted == {i \in 1..Len(Tree) : i \notin plan.have}
EmptyFile == \E i \in Wanted : ~Tree[i].dir /\ Size(i) = 0
Complete == \A i \in Wanted : Size(i) > 0 => i \in DOMAIN disk /\ disk[i] = Source(i)

\* The channel of e is released, or the request that makes it never came.
Released(e) == gone[e] \/ (e = Server /\ heard[Client] = <<>>)

\* Both channels are released and nothing is left to do.
Over ==
  /\ \A e \in Ends : Released(e) /\ local[e] = 0
  /\ pipes = [x \in 1..2 |-> [e \in Ends |-> <<>>]]

Troubled == held # {} \/ overtook # {} \/ plan.refuse # {} \/ plan.timeouts # {}

MessengerStep(e) == Receive(e) \/ Release(e) \/ ReleaseAll(e) \/ FreeChannel(e)

Next == \E e \in Ends : MessengerStep(e) \/ TimeOut(e) \/ XltpStep(e) \/ XlioStep(e)

Spec == Init /\ [][Next]_vars

\* Every thread keeps running; a channel delivers what it is given as long as
\* neither end frees it (XChannel); and one that may time out does so unless it
\* is released before.  This is weak fairness of every action of an end; a step is
\* told by what no other action does: Receive moves heard, Release and ReleaseAll
\* move back, FreeChannel takes from local, XltpStep and XlioStep from their pipes.
CanReceive(e) == Alive(e) /\ ~gone[Other(e)] /\ Len(heard[Other(e)]) < Len(said[Other(e)])
CanRelease(e) == Alive(e) /\ back[e] < Len(heard[e])
CanFree(e) == e \notin crashed /\ local[e] > 0
CanXltp(e) == e \notin crashed /\ msgpipe[e] # <<>>
CanXlio(e) == e \notin crashed /\ iopipe[e] # <<>>

Fairness ==
  \A e \in Ends :
    /\ []<>~CanReceive(e) \/ []<><<heard'[Other(e)] # heard[Other(e)]>>_heard
    /\ []<>~CanRelease(e) \/ []<><<back'[e] # back[e]>>_back
    /\ []<>~CanReleaseAll(e) \/ []<><<back'[e] # back[e]>>_back
    /\ []<>~CanTimeOut(e) \/ []<><<timedout'[e] # timedout[e]>>_timedout
    /\ []<>~CanFree(e) \/ []<><<local'[e] < local[e]>>_local
    /\ []<>~CanXltp(e) \/ []<><<Len(msgpipe'[e]) < Len(msgpipe[e])>>_msgpipe
    /\ []<>~CanXlio(e) \/ []<><<Len(iopipe'[e]) < Len(iopipe[e])>>_iopipe

FairSpec == Spec /\ Fairness

----------------------------------------------------------------------------
(* Properties *)

\* xlio_take_frame never meets an empty slot and xlio_resave_frame never a full
\* one: the frames outside of a pool are those that were not handed back yet, and
\* rpos points to the oldest frame inside.
PoolWhole ==
  \A e \in Ends : stream[e].open =>
    LET s == stream[e]
    IN /\ Cardinality(s.pool) = Readable(s)
       /\ s.pool = {(s.rpos + k) % MsgRange : k \in 0..(Readable(s) - 1)}

\* What xlio_recv_file writes is always the beginning of the file of the
\* uploader: no part is lost, repeated or written into another file, whatever
\* happens to the two streams.
FilesArePrefixes ==
  \A i \in DOMAIN disk : i \in Wanted => IsPrefix(disk[i], Source(i))

\* A downloader that closes the transfer (RES) has every file that has data.
ClosedMeansComplete ==
  \A m \in Range(said[Down]) : m.type = "RES" /\ m # Refusal => Complete

\* Without a timeout, a refusal or an answer that overtakes an ACK, as long as no
\* end runs out of frames and no file is empty, no handler of xlio_loop goes
\* through the pointer of a frame it does not have or an entry it has freed.
NoCrash == ~Troubled /\ ~EmptyFile => crashed = {}

\* Without a timeout, a refusal, an answer that overtakes an ACK or a message put
\* aside (~Troubled), when xlio_stream_free frees a stream nothing in a pipe or in
\* the channel refers to it any more: the thread of xltp cannot have read the
\* pointer of the channel before it was cleared.
FreedWhenQuiet ==
  [][\A e \in Ends :
       stream[e].open /\ ~stream'[e].open /\ ~Troubled =>
         /\ msgpipe[e] = <<>> /\ iopipe'[e] = <<>>
         /\ back[e] = Len(said'[e])
         /\ heard[Other(e)] = said[Other(e)]]_vars

\* Under the same conditions both streams end, both channels are released and
\* every file that has data is transferred.
TransferCompletes ==
  <>(Troubled \/ crashed # {} \/ (Over /\ Complete))

\* With the timeouts of both channels no end waits for ever: whatever becomes of
\* the other end, be it that it closes, times out, falls silent or crashes, the
\* channel of an end is released in the end.  Excused is only an end whose own
\* process has crashed before the release; a second flush crashes after it.
BothEndsRelease ==
  plan.timeouts = Ends => <>[](\A e \in Ends : Released(e) \/ e \in crashed)
=============================================================================
