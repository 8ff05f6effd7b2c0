------------------------------ MODULE XChannel ------------------------------
(***************************************************************************)
(* The two ends of one channel of src/xnet/xmsger.c and the UDP network    *)
(* between them: messages are cut into packets, numbered, acknowledged,    *)
(* retransmitted, put in order and joined again.  End "a" opened the       *)
(* channel with a REQ; end "b" creates its own end when that arrives.      *)
(*                                                                         *)
(* The messenger thread of an end handles one datagram, or visits the      *)
(* channel once in xmsger_send_all, per step.  Each such step is written   *)
(* as a function on the record of the end, in the order of the code: the   *)
(* operators SerialMsg, SendPack, RecvAck, RecvPack ... take a record and  *)
(* return the new one.  What they transmit collects in the field out.      *)
(*                                                                         *)
(* Time is left out: a timeout may expire whenever its timer runs, pacing  *)
(* may delay any packet.  xpack.ts keeps only whether it is 0, which is    *)
(* how the code marks a packet the peer is known to have.                  *)
(***************************************************************************)
EXTENDS Integers, Sequences, FiniteSets

CONSTANTS
  Plans,         \* the conversations considered, see below
  BodySize,      \* XBODY_SIZE
  SnSpace,       \* 2^16, the serial numbers
  Range,         \* serial_range, a power of two
  ResendGap,     \* the 3 of xchannel_recv_ack
  MsgBufRange,   \* XMSG_BUF_RANGE
  MinThreshold   \* the least threshold the code computes

Ends == {"a", "b"}
Other(e) == IF e = "a" THEN "b" ELSE "a"

ASSUME ChannelAssumption ==
  /\ BodySize \in Nat \ {0} /\ Range \in Nat \ {0} /\ MsgBufRange \in Nat \ {0}
  /\ SnSpace \in Nat /\ SnSpace >= 4 * Range /\ SnSpace % Range = 0
  /\ MinThreshold \in 2..Range
  /\ \A p \in Plans : p.starts \subseteq 0..(SnSpace - 1)

Unbounded == -1

VARIABLES
  chan,     \* chan[e]: the channel of end e
  net,      \* net[e]: datagrams on their way to e
  spent,    \* losses, duplicates and failed sends so far
  plan      \* the conversation, which does not change
vars == <<chan, net, spent, plan>>

\* What the application will send and what the network may do.
Lens == plan.lens          \* Lens[e]: the lengths of the messages of end e
Closing == plan.closing    \* the ends whose last message is a RES
Starts == plan.starts      \* serial numbers at which the connection is taken up
GiveUp == plan.giveup      \* the ends whose channel may time out
NetCap == plan.netcap      \* bound: datagrams on their way to an end
MaxDup == plan.dup         \* bound: datagrams the network duplicates
MaxLoss == plan.loss       \* bound: datagrams it loses by itself, or Unbounded
MaxFails == plan.fails     \* bound: failed calls of udp_sendto

Null == <<>>
Least(a, b) == IF a <= b THEN a ELSE b

\* (uint16_t)(a - b), and the slot of a serial number
Diff(a, b) == (a - b) % SnSpace
Slot(i) == i % Range

Recvable(c) == Diff(c.spos, c.rpos)
Sendable(c) == Diff(c.wpos, c.spos)
Readable(c) == Diff(c.wpos, c.rpos)
Writable(c) == (Range - c.wpos + c.rpos) % SnSpace

\* A mutant of PackRange: the remainder gets no packet.
PackRangeFloor(len) == IF len > 0 THEN len \div BodySize ELSE 1

\* xmsg_fixed: the number of packets of a message of len bytes
PackRange(len) ==
  IF len > 0
  THEN LET range == len \div BodySize
       IN IF range * BodySize < len THEN range + 1 ELSE range
  ELSE 1

MsgType(e, c, m) ==
  IF e = "a" /\ m = 1 /\ c.fresh THEN "REQ"
  ELSE IF e \in Closing /\ m = Len(Lens[e]) THEN "RES" ELSE "MSG"

\* The bytes of a message, each known by its message and its place.
Bytes(m, from, len) == [i \in 1..len |-> <<m, from + i>>]

NoAck == [on |-> FALSE, sn |-> 0, pos |-> 0]

\* A slot of a fresh send buffer (calloc).
NoPack == [type |-> "MSG", sn |-> 0, range |-> 0, msg |-> 0, body |-> <<>>,
           ack |-> NoAck, ts |-> FALSE, resend |-> 0]

\* The part of a packet that travels.
Wire(pack) == [type |-> pack.type, sn |-> pack.sn, range |-> pack.range,
               body |-> pack.body, ack |-> pack.ack]

AckPack(ack) == [type |-> "ACK", sn |-> 0, range |-> 0, body |-> <<>>,
                 ack |-> [ack EXCEPT !.on = TRUE]]

----------------------------------------------------------------------------
(* Sending *)

\* A mutant of SerialMsg: the room in the send buffer is not checked.
SerialMsgAlways(e, c) ==
  IF c.mwpos > c.mspos
  THEN LET m == c.mspos + 1
           len == Least(Lens[e][m] - c.cut, BodySize)
           pack == [type |-> MsgType(e, c, m), sn |-> c.wpos,
                    range |-> PackRange(Lens[e][m]) - (c.cut \div BodySize),
                    msg |-> m, body |-> Bytes(m, c.cut, len),
                    ack |-> NoAck, ts |-> TRUE, resend |-> 0]
           whole == c.cut + len = Lens[e][m]
       IN [c EXCEPT !.buf[Slot(c.wpos)] = pack,
                    !.wpos = (@ + 1) % SnSpace,
                    !.cut = IF whole THEN 0 ELSE @ + len,
                    !.mspos = IF whole THEN @ + 1 ELSE @]
  ELSE c

\* xchannel_serial_msg: the next packet of the next message
SerialMsg(e, c) ==
  IF Writable(c) > 0 /\ c.mwpos > c.mspos
  THEN LET m == c.mspos + 1
           len == Least(Lens[e][m] - c.cut, BodySize)
           pack == [type |-> MsgType(e, c, m), sn |-> c.wpos,
                    range |-> PackRange(Lens[e][m]) - (c.cut \div BodySize),
                    msg |-> m, body |-> Bytes(m, c.cut, len),
                    ack |-> NoAck, ts |-> TRUE, resend |-> 0]
           whole == c.cut + len = Lens[e][m]
       IN [c EXCEPT !.buf[Slot(c.wpos)] = pack,
                    !.wpos = (@ + 1) % SnSpace,
                    !.cut = IF whole THEN 0 ELSE @ + len,
                    !.mspos = IF whole THEN @ + 1 ELSE @]
  ELSE c

\* udp_sendto: the attempts whose number is in c.failing fail
SendFails(c) == c.tries + 1 \in c.failing

\* xchannel_send_pack
SendPack(e, c0) ==
  LET c == IF Sendable(c0) = 0 THEN SerialMsg(e, c0) ELSE c0
      i == Slot(c.spos)
      pack == IF c.ack.on THEN [c.buf[i] EXCEPT !.ack = c.ack] ELSE c.buf[i]
      tried == [c EXCEPT !.buf[i] = pack, !.tries = @ + 1]
  IN IF Sendable(c) = 0 THEN c
     ELSE IF SendFails(c) THEN tried
     ELSE SerialMsg(e, [tried EXCEPT !.buf[i].resend = 1,
                                     !.buf[i].ts = TRUE,
                                     !.ack.on = FALSE,
                                     !.spos = (@ + 1) % SnSpace,
                                     !.out = @ \cup {Wire(pack)}])

\* xchannel_send_ack
SendAck(c) ==
  IF SendFails(c) THEN [c EXCEPT !.tries = @ + 1]
  ELSE [c EXCEPT !.tries = @ + 1, !.ack.on = FALSE,
                 !.out = @ \cup {AckPack(c.ack)}]

----------------------------------------------------------------------------
(* Acknowledgements *)

\* A mutant of Release: every packet counts as a full one.
ReleaseFull(e, c) ==
  LET i == Slot(c.rpos)
      pack == c.buf[i]
      len == Len(pack.body)
      whole == c.got[pack.msg] + len = Lens[e][pack.msg]
  IN [c EXCEPT !.buf[i].ts = FALSE,
               !.acked = @ + BodySize,
               !.got[pack.msg] = @ + len,
               !.mrpos = IF whole THEN @ + 1 ELSE @,
               !.back = IF whole THEN Append(@, pack.msg) ELSE @,
               !.rpos = (@ + 1) % SnSpace]

\* One turn of the first loop of xchannel_recv_ack: the packet at rpos is out.
Release(e, c) ==
  LET i == Slot(c.rpos)
      pack == c.buf[i]
      len == Len(pack.body)
      whole == c.got[pack.msg] + len = Lens[e][pack.msg]
  IN [c EXCEPT !.buf[i].ts = FALSE,
               !.acked = @ + len,
               !.got[pack.msg] = @ + len,
               !.mrpos = IF whole THEN @ + 1 ELSE @,
               !.back = IF whole THEN Append(@, pack.msg) ELSE @,
               !.rpos = (@ + 1) % SnSpace]

\* The packet in slot i is sent again, with the newest ack.pos and the old
\* ack.sn.  The history hasty tells that it had never been sent.
SendAgain(c, i) ==
  LET pack == IF c.buf[i].ack.on
              THEN [c.buf[i] EXCEPT !.ack.pos = c.rwpos] ELSE c.buf[i]
      tried == [c EXCEPT !.buf[i] = [pack EXCEPT !.ts = TRUE], !.tries = @ + 1]
  IN IF SendFails(c) THEN tried
     ELSE [tried EXCEPT !.out = @ \cup {Wire(pack)},
                        !.hasty = @ \/ Diff(pack.sn, c.rpos) >= Recvable(c)]

\* The second loop: the first packet between rpos and sn that the peer is not
\* known to have, and that was resent less than twice, is sent again.  A walk
\* over more than two turns of the ring meets nothing new.
FastResend(c, sn) ==
  LET count == Least(Diff(sn, c.rpos), 2 * Range)
      walk[k \in 0..count] ==
        IF k = 0 THEN c
        ELSE LET w == walk[k - 1]
                 i == Slot(c.rpos + k - 1)
             IN IF w.out # c.out \/ ~w.buf[i].ts \/ w.buf[i].resend >= 2
                THEN w
                ELSE SendAgain([w EXCEPT !.buf[i].resend = @ + 1], i)
  IN walk[count]

\* A mutant of RecvAck: the window ends one packet early.
RecvAckShort(e, c, ack) ==
  LET inWindow == Recvable(c) > 0 /\ Diff(ack.sn, c.rpos) < Recvable(c)
      steps == IF Diff(ack.pos, c.rpos) <= Recvable(c)
               THEN Diff(ack.pos, c.rpos) ELSE 0
      released[k \in 0..steps] ==
        IF k = 0 THEN c ELSE Release(e, released[k - 1])
      marked == [released[steps] EXCEPT !.buf[Slot(ack.sn)].ts = FALSE]
  IN IF ~inWindow THEN c
     ELSE IF ack.sn = ack.pos THEN released[steps]
     ELSE IF Diff(ack.sn, marked.rpos) > ResendGap THEN FastResend(marked, ack.sn)
     ELSE marked

\* xchannel_recv_ack
RecvAck(e, c, ack) ==
  LET inWindow == Recvable(c) > 0 /\ Diff(ack.sn, c.rpos) <= Recvable(c)
      steps == IF Diff(ack.pos, c.rpos) <= Recvable(c)
               THEN Diff(ack.pos, c.rpos) ELSE 0
      released[k \in 0..steps] ==
        IF k = 0 THEN c ELSE Release(e, released[k - 1])
      marked == [released[steps] EXCEPT !.buf[Slot(ack.sn)].ts = FALSE]
  IN IF ~inWindow THEN c
     ELSE IF ack.sn = ack.pos THEN released[steps]
     ELSE IF Diff(ack.sn, marked.rpos) > ResendGap THEN FastResend(marked, ack.sn)
     ELSE marked

----------------------------------------------------------------------------
(* Receiving *)

\* xchannel_recv_msg: one packet is joined to the message that is coming in.
Join(c) ==
  LET pack == c.rbuf[Slot(c.rrpos)]
      first == c.inmsg = Null
      left == (IF first THEN pack.range ELSE c.inmsg.left) - 1
      data == (IF first THEN <<>> ELSE c.inmsg.data) \o pack.body
  IN [c EXCEPT !.inmsg = IF left = 0 THEN Null ELSE [left |-> left, data |-> data],
               !.delivered = IF left = 0 THEN Append(@, data) ELSE @,
               !.rbuf[Slot(c.rrpos)] = Null,
               !.rrpos = (@ + 1) % SnSpace]

\* A mutant of RecvMsg: one packet a call.
RecvMsgOne(c) == IF c.rwpos # c.rrpos THEN Join(c) ELSE c

\* do { ... } while (pack != NULL)
RecvMsg(c) ==
  LET read[k \in 0..Range] ==
        IF k = 0 THEN c
        ELSE LET w == read[k - 1]
             IN IF k = 1 \/ w.rbuf[Slot(w.rrpos)] # Null THEN Join(w) ELSE w
  IN IF c.rwpos # c.rrpos THEN read[Range] ELSE c

\* A mutant of Advance: the serial number does not wrap.
AdvanceWide(c) ==
  [c EXCEPT !.rwpos = @ + 1,
            !.ack = [on |-> TRUE, sn |-> c.rwpos + 1, pos |-> c.rwpos + 1]]

\* The loop that moves wpos over packets that came early, and the ack.
Advance(c) ==
  LET room(w) == (Range - w.rwpos + w.rrpos) % SnSpace > 0
      moved[k \in 0..Range] ==
        IF k = 0 THEN [c EXCEPT !.rwpos = (@ + 1) % SnSpace]
        ELSE LET w == moved[k - 1]
             IN IF w.rbuf[Slot(w.rwpos)] # Null /\ room(w)
                THEN [w EXCEPT !.rwpos = (@ + 1) % SnSpace] ELSE w
      w == moved[Range]
  IN [w EXCEPT !.ack = [on |-> TRUE, sn |-> w.rwpos, pos |-> w.rwpos]]

Carried(e, c, pack) == IF pack.ack.on THEN RecvAck(e, c, pack.ack) ELSE c

\* A mutant of RecvPack: an early packet is acknowledged as if all before it
\* had come.
RecvPackAhead(e, c, pack) ==
  LET i == Slot(pack.sn)
      early == Diff(c.rwpos, pack.sn) > Diff(pack.sn, c.rwpos)
      past == (pack.sn + 1) % SnSpace
      late == [c EXCEPT !.ack = [on |-> TRUE, sn |-> c.rwpos, pos |-> c.rwpos]]
      told == [c EXCEPT !.ack = [on |-> TRUE, sn |-> past, pos |-> past]]
      next == Carried(e, c, pack)
      kept == Carried(e, told, pack)
  IN RecvMsg(IF pack.sn = c.rwpos
             THEN Advance([next EXCEPT !.rbuf[i] = pack])
             ELSE IF ~early THEN late
             ELSE IF c.rbuf[i] # Null THEN told
             ELSE [kept EXCEPT !.rbuf[i] = pack])

\* A mutant of RecvPack: every packet is taken for the next one.
RecvPackAny(e, c, pack) ==
  RecvMsg(Advance([Carried(e, c, pack) EXCEPT !.rbuf[Slot(c.rwpos)] = pack]))

\* xchannel_recv_pack
RecvPack(e, c, pack) ==
  LET i == Slot(pack.sn)
      early == Diff(c.rwpos, pack.sn) > Diff(pack.sn, c.rwpos)
      late == [c EXCEPT !.ack = [on |-> TRUE, sn |-> c.rwpos, pos |-> c.rwpos]]
      told == [c EXCEPT !.ack = [on |-> TRUE, sn |-> pack.sn, pos |-> c.rwpos]]
      next == Carried(e, c, pack)
      kept == Carried(e, told, pack)
  IN RecvMsg(IF pack.sn = c.rwpos
             THEN Advance([next EXCEPT !.rbuf[i] = pack])
             ELSE IF ~early THEN late
             ELSE IF c.rbuf[i] # Null THEN told
             ELSE [kept EXCEPT !.rbuf[i] = pack])

\* The branches of msger_loop on the type of the datagram.  Without a channel
\* only a REQ is answered: it creates one.  (A REQ for a known channel is
\* taken when it was resent or shows the serial range, which it always does: no
\* packet of a REQ carries an acknowledgement.)
Handle(e, c, pack) ==
  IF pack.type = "ACK" THEN IF c.open THEN RecvAck(e, c, pack.ack) ELSE c
  ELSE IF pack.type = "MSG" THEN
    IF ~c.open THEN c
    ELSE LET got == RecvPack(e, c, pack)
         IN IF Sendable(got) > 0 THEN SendPack(e, got) ELSE SendAck(got)
  ELSE IF pack.type = "REQ" \/ c.open THEN
    SendAck(RecvPack(e, [c EXCEPT !.open = TRUE], pack))
  ELSE c

----------------------------------------------------------------------------
(* The system *)

\* A connection that is taken up at serial number 0 is a fresh one; another
\* start is an established connection on which everything is acknowledged.
InitEnd(e, start) ==
  [fresh |-> start = 0, open |-> e = "a" \/ start # 0, timedout |-> FALSE,
   rpos |-> start, spos |-> start, wpos |-> start,
   buf |-> [i \in 0..(Range - 1) |-> NoPack],
   rrpos |-> start, rwpos |-> start,
   rbuf |-> [i \in 0..(Range - 1) |-> Null],
   ack |-> NoAck,
   mrpos |-> 0, mspos |-> 0, mwpos |-> 0,
   cut |-> 0, got |-> [m \in 1..Len(Lens[e]) |-> 0],
   handed |-> 0, acked |-> 0,
   inmsg |-> Null, delivered |-> <<>>, back |-> <<>>,
   out |-> {}, hasty |-> FALSE, tries |-> 0, failing |-> {}]

Init ==
  /\ plan \in Plans
  /\ \E start \in Starts : chan = [e \in Ends |-> InitEnd(e, start)]
  /\ net = [e \in Ends |-> {}]
  /\ spent = [loss |-> 0, dup |-> 0, fail |-> 0]

\* The messenger of e runs: c is its channel after the step, its datagrams go
\* out, and are lost when the network is full.
Step(e, c, left, used) ==
  LET there == net[Other(e)] \cup c.out
  IN /\ chan' = [chan EXCEPT ![e] = [c EXCEPT !.out = {}, !.tries = 0,
                                              !.failing = {}]]
     /\ net' = [net EXCEPT ![e] = left,
                           ![Other(e)] = IF Cardinality(there) <= NetCap
                                         THEN there ELSE @]
     /\ spent' = used
     /\ UNCHANGED plan

\* Which of the calls of udp_sendto of a step will fail.
Begin(e, failing) == [chan[e] EXCEPT !.failing = failing]
Failing == {f \in SUBSET (1..2) : spent.fail + Cardinality(f) <= MaxFails}
Failed(f) == [spent EXCEPT !.fail = @ + Cardinality(f)]

Receive(e, pack, f) ==
  Step(e, Handle(e, Begin(e, f), pack), net[e] \ {pack}, Failed(f))

\* The network delivers a datagram and will deliver it again.
ReceiveDup(e, pack) ==
  /\ spent.dup < MaxDup
  /\ Step(e, Handle(e, Begin(e, {}), pack), net[e],
          [spent EXCEPT !.dup = @ + 1])

Lose(e, pack) ==
  /\ MaxLoss = Unbounded \/ spent.loss < MaxLoss
  /\ net' = [net EXCEPT ![e] = @ \ {pack}]
  /\ spent' = IF MaxLoss = Unbounded THEN spent
              ELSE [spent EXCEPT !.loss = @ + 1]
  /\ UNCHANGED <<chan, plan>>

\* xmsger_send, from a thread of the application.  The first message of a
\* fresh connection is the REQ, which xmsger_local_recv puts into the buffer of
\* the new channel; the other end has nothing to say before it came in.  A REQ or
\* a RES that comes through xmsger_local_recv is put into the buffer without a look
\* at the room: the REQ finds it empty, and the RES is taken to find a place.
Submit(e) ==
  LET c == chan[e]
  IN /\ c.open /\ c.mwpos < Len(Lens[e])
     /\ e = "b" /\ c.fresh => c.delivered # <<>>
     /\ c.mwpos - c.mrpos < MsgBufRange
     /\ chan' = [chan EXCEPT ![e].mwpos = @ + 1,
                             ![e].handed = @ + Lens[e][c.mwpos + 1]]
     /\ UNCHANGED <<net, spent, plan>>

\* xmsger_send_all visits the channel and the pacing lets a packet go; the
\* threshold is whatever the sampling of round trips made it.
SendTurn(e, threshold, f) ==
  LET c == chan[e]
  IN /\ c.open /\ Readable(c) < threshold
     /\ Sendable(c) > 0 \/ c.mwpos > c.mspos
     /\ Step(e, SendPack(e, Begin(e, f)), net[e], Failed(f))

\* xmsger_send_all finds the packet at rpos overdue and sends it again.  Only
\* resend < 2 matters to the code, so the count stops at 2.
Resend(e, f) ==
  LET c == chan[e]
      i == Slot(c.rpos)
      sent == SendAgain(Begin(e, f), i)
  IN /\ c.open /\ Recvable(c) > 0
     /\ Step(e, IF sent.out = {} THEN sent
                ELSE [sent EXCEPT !.buf[i].resend = Least(@ + 1, 2)],
             net[e], Failed(f))

\* Nothing came from the peer for XCHANNEL_TIMEDOUT_LIMIT: the owner is told.
TimedOut(e) ==
  LET c == chan[e]
  IN /\ e \in GiveUp /\ c.open /\ ~c.timedout
     /\ Recvable(c) > 0 \/ c.acked = c.handed
     /\ chan' = [chan EXCEPT ![e].timedout = TRUE]
     /\ UNCHANGED <<net, spent, plan>>

Next ==
  \E e \in Ends :
    \/ \E pack \in net[e] :
         \/ \E f \in Failing : Receive(e, pack, f)
         \/ ReceiveDup(e, pack)
         \/ Lose(e, pack)
    \/ Submit(e)
    \/ \E f \in Failing : \/ \E t \in MinThreshold..Range : SendTurn(e, t, f)
                          \/ Resend(e, f)
    \/ TimedOut(e)

Spec == Init /\ [][Next]_vars

----------------------------------------------------------------------------
(* What the channel promises *)

Cell == [type : {"REQ", "MSG", "RES"}, sn : 0..(SnSpace - 1), range : Nat,
         body : Seq(Nat \X Nat), ack : [on : BOOLEAN, sn : Nat, pos : Nat]]

\* Every variable stays in its range.
TypeOK ==
  /\ \A e \in Ends :
       LET c == chan[e]
       IN /\ {c.rpos, c.spos, c.wpos, c.rrpos, c.rwpos} \subseteq 0..(SnSpace - 1)
          /\ {c.mrpos, c.mspos, c.mwpos} \subseteq 0..Len(Lens[e])
          /\ \A i \in 0..(Range - 1) :
               /\ Wire(c.buf[i]) \in Cell /\ c.buf[i].resend \in 0..2
               /\ c.rbuf[i] = Null \/ c.rbuf[i] \in Cell
          /\ c.out = {} /\ c.tries = 0 /\ c.failing = {}
  /\ \A e \in Ends : Cardinality(net[e]) <= NetCap

\* Whatever the network does, the messages an end has been given are the
\* messages the other end sent, complete, each once and in the order sent
\* (xchannel_recv_pack, xchannel_recv_msg).
InOrderOnce ==
  \A e \in Ends :
    LET came == chan[e].delivered
    IN /\ Len(came) <= chan[Other(e)].mspos
       /\ \A m \in 1..Len(came) : came[m] = Bytes(m, 0, Lens[Other(e)][m])

\* A message is handed back to its sender (on_message_to_peer, which frees or
\* reuses the frame) only when the peer has been given all of it, and messages
\* are handed back in the order sent.
BackMeansDelivered ==
  \A e \in Ends :
    /\ chan[e].back = [i \in 1..chan[e].mrpos |-> i]
    /\ chan[e].mrpos <= Len(chan[Other(e)].delivered)

\* The windows of the two ends fit: the sender's positions are in order, it is
\* never ahead of what the receiver took, the receiver is never ahead of what
\* was numbered, and the slots between rpos and wpos hold the packets with these
\* serial numbers, also when uint16_t wraps.
WindowsFit ==
  \A e \in Ends :
    LET c == chan[e]
        d == chan[Other(e)]
    IN /\ Recvable(c) <= Readable(c) /\ Readable(c) <= Range
       /\ Diff(d.rwpos, c.rpos) <= Readable(c)
       /\ \A k \in 0..(Range - 1) :
            k < Readable(c) =>
              c.buf[Slot(c.rpos + k)].sn = (c.rpos + k) % SnSpace

\* A packet that came early waits in the slot of its own serial number, inside
\* the window, and everything in order has been passed on.
EarlyInWindow ==
  \A e \in Ends :
    LET c == chan[e]
    IN /\ c.rrpos = c.rwpos
       /\ \A i \in 0..(Range - 1) :
            c.rbuf[i] # Null =>
              /\ Slot(c.rbuf[i].sn) = i
              /\ Diff(c.rbuf[i].sn, c.rwpos) \in 1..(Range - 1)

\* xchannel.wpos - xchannel.rpos (and so msger.len - msger.pos) is the number of
\* bytes handed over and not yet acknowledged.
BytesAddUp ==
  \A e \in Ends :
    LET c == chan[e]
        unacked == {k \in 0..(Range - 1) : k < Readable(c)}
        sum[k \in 0..Range] ==
          IF k = 0 THEN 0
          ELSE sum[k - 1] + IF k - 1 \in unacked
                            THEN Len(c.buf[Slot(c.rpos + k - 1)].body) ELSE 0
        waiting[m \in 0..Len(Lens[e])] ==
          IF m = 0 THEN 0
          ELSE waiting[m - 1] + IF m \in (c.mspos + 1)..c.mwpos
                                THEN Lens[e][m] ELSE 0
    IN c.handed - c.acked = sum[Range] + waiting[Len(Lens[e])] - c.cut

\* Retransmission is for packets that were sent (comment in xchannel_recv_ack:
\* resend the packets between rpos and SN that are not yet confirmed).
ResendsOnlySent == \A e \in Ends : ~chan[e].hasty

\* The messenger keeps visiting the channel: the pacing delay and the resend
\* timer run out, udp_sendto works again, and of the packets and of the bare
\* acknowledgements that keep being sent some keep getting through (strong
\* fairness of Receive, which is enabled when there is such a datagram).
\* Nothing is assumed of a threshold above the least one.
Kind(pack) == IF pack.type = "ACK" THEN "ack" ELSE "data"
Coming(e, kind) == {pack \in net[e] : Kind(pack) = kind}
ReceiveKind(e, kind) == \E pack \in Coming(e, kind) : Receive(e, pack, {})

Fairness ==
  \A e \in Ends :
    /\ WF_vars(Submit(e))
    /\ WF_vars(SendTurn(e, MinThreshold, {}))
    /\ WF_vars(Resend(e, {}))
    /\ \A kind \in {"ack", "data"} :
         []<>(Coming(e, kind) # {}) => []<><<ReceiveKind(e, kind)>>_vars

FairSpec == Spec /\ Fairness

\* Every message is delivered and handed back, unless an end gives up.
EverythingArrives ==
  <>(\/ \E e \in Ends : chan[e].timedout
     \/ \A e \in Ends : /\ Len(chan[e].delivered) = Len(Lens[Other(e)])
                        /\ chan[e].mrpos = Len(Lens[e]))

\* What xltp and xlio see of a channel is the abstract link they are modelled
\* on (XLio): each end gets the messages of the other whole, once and in the order
\* of xmsger_send, and gets its own back in that order, not before they arrived.
Said(e) == [m \in 1..chan[e].mwpos |-> Bytes(m, 0, Lens[e][m])]

Link == INSTANCE XLink WITH
          Sides <- Ends, said <- [e \in Ends |-> Said(e)],
          heard <- [e \in Ends |-> chan[Other(e)].delivered],
          back <- [e \in Ends |-> Len(chan[e].back)]

ChannelIsLink == Link!LSpec

=============================================================================
