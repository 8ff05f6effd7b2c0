------------------------------ MODULE XConnect ------------------------------
(***************************************************************************)
(* The life of a channel: a request (REQ) of a client, the response (RES)  *)
(* of a server, and the release of both ends, through the two threads of   *)
(* each process.  The messenger thread (msger_loop) owns the channels and  *)
(* reports to the thread of xltp (xltp_loop) through a pipe: messages that *)
(* came (RECV), messages that are through (BACK), channels that timed out  *)
(* (TIMEDOUT).  The thread of xltp answers with datagrams to itself:       *)
(* connect, respond, flush.  Frames on both ways carry the address of the  *)
(* channel, which is only good until xchannel_free.                        *)
(*                                                                         *)
(* A request and a response are one packet each here; XChannel has the     *)
(* transport of longer ones.  A channel is known by its request (its cid)  *)
(* and its generation: the address of the n-th channel for that request.   *)
(***************************************************************************)
EXTENDS Integers, Sequences, FiniteSets

CONSTANTS
  Reqs,         \* requests the client posts
  MayTimeOut,   \* whether XCHANNEL_TIMEDOUT_LIMIT can pass
  MaxGen,       \* bound: channels a server creates for one request
  MaxDup,       \* bound: datagrams delivered twice
  MaxResend     \* bound: transmissions of one message, or Unbounded

Unbounded == -1

ASSUME ConnectAssumption ==
  /\ MayTimeOut \in BOOLEAN
  /\ MaxGen \in Nat \ {0} /\ MaxDup \in Nat /\ MaxResend \in Nat \cup {Unbounded}

Peers == {"client", "server"}
Other(p) == IF p = "client" THEN "server" ELSE "client"

VARIABLES
  live,      \* live[p][r]: the channel of p for r in msger.peers, or Null
  made,      \* made[p][r]: how many channels p has created for r
  pipe,      \* pipe[p]: msgpipe, from the messenger to the thread of xltp
  local,     \* local[p]: datagrams of the thread of xltp to its messenger
  net,       \* net[p]: datagrams on their way to p
  posted,    \* requests handed to xltp_echo and the like
  ran, got,  \* history: how often a request was run, how often answered
  flushed,   \* history: flushed[p]: the channels p has asked to free
  twice,     \* history: a channel was freed, or asked to be freed, twice
  stale,     \* history: a channel was used after it was freed
  heard,     \* history: requests whose RES a client's channel took
  overtook,  \* history: requests whose RES was taken before the ACK of the REQ
  unheard,   \* history: requests with a final ACK for a RES never taken
  dups
vars == <<live, made, pipe, local, net, posted, ran, got, flushed, twice, stale,
          heard, overtook, unheard, dups>>

Null == [gen |-> 0]

\* xchannel_create; out is what became of the message this end sends, in
\* whether the message of the other end came, late which timeout has passed.
Channel(p, gen) == [gen |-> gen, out |-> IF p = "client" THEN "ready" ELSE "none",
                    in |-> p = "server", late |-> "no", sends |-> 0]

\* Mutant: a request leaves as an ordinary message.
OutTypeMsg(p) == IF p = "client" THEN "MSG" ELSE "RES"

OutType(p) == IF p = "client" THEN "REQ" ELSE "RES"

Init ==
  /\ live = [p \in Peers |-> [r \in Reqs |-> Null]]
  /\ made = [p \in Peers |-> [r \in Reqs |-> 0]]
  /\ pipe = [p \in Peers |-> <<>>]
  /\ local = [p \in Peers |-> <<>>]
  /\ net = [p \in Peers |-> {}]
  /\ posted = {}
  /\ ran = [r \in Reqs |-> 0] /\ got = [r \in Reqs |-> 0]
  /\ flushed = [p \in Peers |-> {}]
  /\ twice = FALSE /\ stale = FALSE /\ heard = {} /\ overtook = {} /\ unheard = {} /\ dups = 0

IsLive(p, r, gen) == gen > 0 /\ live[p][r].gen = gen

\* xpipe_write of a frame that carries its channel
Report(p, flag, type, r, gen) ==
  pipe' = [pipe EXCEPT ![p] = Append(@, [flag |-> flag, type |-> type,
                                         r |-> r, gen |-> gen])]

\* What is on its way to p after a datagram of type is sent to it.
Sent(n, p, type, r) == [n EXCEPT ![p] = @ \cup {[type |-> type, r |-> r]}]

----------------------------------------------------------------------------
(* The messenger thread *)

\* xmsger_local_recv: xchannel_create, the RES into the message buffer, or
\* xchannel_free.  A command for a channel that is gone is undefined behaviour.
Local(p) ==
  /\ local[p] # <<>>
  /\ LET h == Head(local[p])
         alive == IsLive(p, h.r, h.gen)
     IN /\ local' = [local EXCEPT ![p] = Tail(@)]
        /\ CASE h.what = "connect" ->
                  /\ made' = [made EXCEPT ![p][h.r] = @ + 1]
                  /\ live' = [live EXCEPT ![p][h.r] = Channel(p, made'[p][h.r])]
                  /\ UNCHANGED <<stale, twice>>
             [] h.what = "respond" ->
                  /\ live' = IF alive THEN [live EXCEPT ![p][h.r].out = "ready"]
                             ELSE live
                  /\ stale' = (stale \/ ~alive)
                  /\ UNCHANGED <<made, twice>>
             [] h.what = "flush" ->
                  /\ live' = IF alive THEN [live EXCEPT ![p][h.r] = Null] ELSE live
                  /\ twice' = (twice \/ ~alive)
                  /\ UNCHANGED <<made, stale>>
  /\ UNCHANGED <<pipe, net, posted, ran, got, flushed, heard, overtook, unheard, dups>>

\* xmsger_send_all sends the message of a channel, or sends it again until
\* XCHANNEL_TIMEDOUT_LIMIT has passed without an ACK.
Transmit(p, r) ==
  LET c == live[p][r]
  IN /\ c # Null /\ c.out \in {"ready", "sent"} /\ c.late # "send"
     /\ MaxResend = Unbounded \/ c.sends < MaxResend
     /\ live' = [live EXCEPT ![p][r].out = "sent",
                             ![p][r].sends = IF MaxResend = Unbounded THEN @
                                             ELSE @ + 1]
     /\ net' = Sent(net, Other(p), OutType(p), r)
     /\ UNCHANGED <<made, pipe, local, posted, ran, got, flushed, twice, stale,
                    heard, overtook, unheard, dups>>

\* Mutant: the channel is released as soon as its message is acknowledged.
HearAckFree(p, r) ==
  /\ live' = IF live[p][r] # Null /\ live[p][r].out = "sent"
             THEN [live EXCEPT ![p][r] = Null] ELSE live
  /\ UNCHANGED <<made, pipe, heard, overtook, unheard>>

\* XPACK_TYPE_ACK: xchannel_recv_ack, which looks only at what was sent
HearAck(p, r) ==
  /\ IF live[p][r] # Null /\ live[p][r].out = "sent"
     THEN /\ live' = [live EXCEPT ![p][r].out = "acked"]
          /\ Report(p, "BACK", OutType(p), r, live[p][r].gen)
     ELSE UNCHANGED <<live, pipe>>
  /\ UNCHANGED <<made, heard, overtook, unheard>>

\* XPACK_TYPE_REQ: a known channel answers the same ACK, else one is created.
HearReq(p, r) ==
  /\ IF live[p][r] # Null THEN UNCHANGED <<live, made, pipe>>
     ELSE /\ made[p][r] < MaxGen
          /\ made' = [made EXCEPT ![p][r] = @ + 1]
          /\ live' = [live EXCEPT ![p][r] = Channel(p, made'[p][r])]
          /\ Report(p, "RECV", "REQ", r, made'[p][r])
  /\ UNCHANGED <<heard, overtook, unheard>>

\* Mutant: the messenger releases the channel itself when the RES is complete.
HearResFree(p, r) ==
  LET c == live[p][r]
  IN /\ IF c # Null
        THEN /\ live' = [live EXCEPT ![p][r] = Null]
             /\ heard' = heard \cup {r}
             /\ overtook' = IF c.out = "acked" THEN overtook ELSE overtook \cup {r}
             /\ Report(p, "RECV", "RES", r, c.gen)
        ELSE UNCHANGED <<live, heard, overtook, pipe>>
     /\ unheard' = IF c = Null THEN unheard \cup ({r} \ heard) ELSE unheard
     /\ UNCHANGED made

\* Mutant: a RES that comes again is taken again.
HearResAgain(p, r) ==
  LET c == live[p][r]
  IN /\ IF c # Null
        THEN /\ heard' = heard \cup {r}
             /\ overtook' = IF c.out = "acked" THEN overtook ELSE overtook \cup {r}
             /\ Report(p, "RECV", "RES", r, c.gen)
        ELSE UNCHANGED <<heard, overtook, pipe>>
     /\ unheard' = IF c = Null THEN unheard \cup ({r} \ heard) ELSE unheard
     /\ UNCHANGED <<live, made>>

\* Mutant: a RES is ignored, but acknowledged, before the ACK of the REQ came.
HearResWait(p, r) ==
  LET c == live[p][r]
  IN /\ IF c # Null /\ ~c.in /\ c.out = "acked"
        THEN /\ live' = [live EXCEPT ![p][r].in = TRUE]
             /\ heard' = heard \cup {r}
             /\ Report(p, "RECV", "RES", r, c.gen)
        ELSE UNCHANGED <<live, heard, pipe>>
     /\ unheard' = IF c = Null THEN unheard \cup ({r} \ heard) ELSE unheard
     /\ UNCHANGED <<made, overtook>>

\* XPACK_TYPE_RES: taken once; without a channel xchannel_send_final answers.
HearRes(p, r) ==
  LET c == live[p][r]
  IN /\ IF c # Null /\ ~c.in
        THEN /\ live' = [live EXCEPT ![p][r].in = TRUE]
             /\ heard' = heard \cup {r}
             /\ overtook' = IF c.out = "acked" THEN overtook ELSE overtook \cup {r}
             /\ Report(p, "RECV", "RES", r, c.gen)
        ELSE UNCHANGED <<live, heard, overtook, pipe>>
     /\ unheard' = IF c = Null THEN unheard \cup ({r} \ heard) ELSE unheard
     /\ UNCHANGED made

\* Mutant: a RES without a channel is not answered.
HearNoFinal(p, d, again) ==
  /\ d \in net[p]
  /\ again => dups < MaxDup
  /\ dups' = IF again THEN dups + 1 ELSE dups
  /\ CASE d.type = "ACK" -> HearAck(p, d.r)
       [] d.type = "REQ" -> HearReq(p, d.r)
       [] d.type = "RES" -> HearRes(p, d.r)
  /\ LET rest == IF again THEN net ELSE [net EXCEPT ![p] = @ \ {d}]
     IN net' = IF d.type = "ACK" \/ (d.type = "RES" /\ live[p][d.r] = Null)
               THEN rest ELSE Sent(rest, Other(p), "ACK", d.r)
  /\ UNCHANGED <<local, posted, ran, got, flushed, twice, stale>>

\* msger_loop takes a datagram; again tells that the network repeats it.
\* Every packet is answered with an ACK.
Hear(p, d, again) ==
  /\ d \in net[p]
  /\ again => dups < MaxDup
  /\ dups' = IF again THEN dups + 1 ELSE dups
  /\ CASE d.type = "ACK" -> HearAck(p, d.r)
       [] d.type = "REQ" -> HearReq(p, d.r)
       [] d.type = "RES" -> HearRes(p, d.r)
  /\ LET rest == IF again THEN net ELSE [net EXCEPT ![p] = @ \ {d}]
     IN net' = IF d.type = "ACK" THEN rest ELSE Sent(rest, Other(p), "ACK", d.r)
  /\ UNCHANGED <<local, posted, ran, got, flushed, twice, stale>>

Lose(p, d) ==
  /\ d \in net[p]
  /\ net' = [net EXCEPT ![p] = @ \ {d}]
  /\ UNCHANGED <<live, made, pipe, local, posted, ran, got, flushed, twice, stale,
                 heard, overtook, unheard, dups>>

\* Mutant: a channel that waits for the other end does not time out.
TimeOutSendOnly(p, r) ==
  LET c == live[p][r]
  IN /\ MayTimeOut /\ c # Null /\ c.out = "sent" /\ c.late = "no"
     /\ live' = [live EXCEPT ![p][r].late = "send"]
     /\ Report(p, "TIMEDOUT", "", r, c.gen)
     /\ UNCHANGED <<made, local, net, posted, ran, got, flushed, twice, stale,
                    heard, overtook, unheard, dups>>

\* xmsger_send_all: nothing was acknowledged, or nothing came, for too long.
TimeOut(p, r) ==
  LET c == live[p][r]
  IN /\ MayTimeOut /\ c # Null /\ c.out # "ready" /\ c.late = "no"
     /\ live' = [live EXCEPT ![p][r].late = IF c.out = "sent" THEN "send" ELSE "recv"]
     /\ Report(p, "TIMEDOUT", "", r, c.gen)
     /\ UNCHANGED <<made, local, net, posted, ran, got, flushed, twice, stale,
                    heard, overtook, unheard, dups>>

----------------------------------------------------------------------------
(* The thread of xltp *)

Post(r) ==
  /\ r \notin posted
  /\ posted' = posted \cup {r}
  /\ Report("client", "POST", "", r, 0)
  /\ UNCHANGED <<live, made, local, net, ran, got, flushed, twice, stale, heard,
                 overtook, unheard, dups>>

Tell(p, what, m) ==
  local' = [local EXCEPT ![p] = Append(@, [what |-> what, r |-> m.r, gen |-> m.gen])]

\* xmsger_flush
Flush(p, m) ==
  /\ Tell(p, "flush", m)
  /\ flushed' = [flushed EXCEPT ![p] = @ \cup {<<m.r, m.gen>>}]
  /\ twice' = (twice \/ <<m.r, m.gen>> \in flushed[p])

Quiet == UNCHANGED <<local, flushed, twice>>

\* xltp_recv_req: the callback answers, or refuses and nothing is sent
RecvReq(p, m, refused) ==
  /\ m.flag = "RECV" /\ m.type = "REQ"
  /\ IF refused THEN UNCHANGED <<local, ran>>
     ELSE Tell(p, "respond", m) /\ ran' = [ran EXCEPT ![m.r] = @ + 1]
  /\ UNCHANGED <<got, flushed, twice>>

\* xltp_recv_res
RecvRes(p, m) ==
  /\ m.flag = "RECV" /\ m.type = "RES"
  /\ got' = [got EXCEPT ![m.r] = @ + 1]
  /\ Flush(p, m)
  /\ UNCHANGED ran

\* xltp_back
Back(p, m) ==
  /\ m.flag = "BACK"
  /\ IF m.type = "RES" THEN Flush(p, m) ELSE Quiet
  /\ UNCHANGED <<ran, got>>

\* xltp_timedout
TimedOut(p, m) ==
  /\ m.flag = "TIMEDOUT"
  /\ Flush(p, m)
  /\ UNCHANGED <<ran, got>>

\* req_echo and the like: xltp_send_req
Request(p, m) ==
  /\ m.flag = "POST"
  /\ Tell(p, "connect", m)
  /\ UNCHANGED <<ran, got, flushed, twice>>

\* xltp_loop: every frame but a posted one is asked for the context of its
\* channel first.
Work(p) ==
  /\ pipe[p] # <<>>
  /\ LET m == Head(pipe[p])
     IN /\ pipe' = [pipe EXCEPT ![p] = Tail(@)]
        /\ stale' = (stale \/ (m.flag # "POST" /\ ~IsLive(p, m.r, m.gen)))
        /\ \/ \E refused \in BOOLEAN : RecvReq(p, m, refused)
           \/ RecvRes(p, m) \/ Back(p, m) \/ TimedOut(p, m) \/ Request(p, m)
  /\ UNCHANGED <<live, made, net, posted, heard, overtook, unheard, dups>>

Idle ==
  /\ posted = Reqs
  /\ \A p \in Peers : pipe[p] = <<>> /\ local[p] = <<>>
  /\ UNCHANGED vars

Datagrams == [type : {"REQ", "RES", "ACK"}, r : Reqs]

Next ==
  \/ \E p \in Peers :
       \/ Local(p) \/ Work(p)
       \/ \E r \in Reqs : Transmit(p, r) \/ TimeOut(p, r)
       \/ \E d \in Datagrams : Lose(p, d) \/ \E again \in BOOLEAN : Hear(p, d, again)
  \/ \E r \in Reqs : Post(r)
  \/ Idle

Spec == Init /\ [][Next]_vars

\* Both threads of a process keep running, a message that is not acknowledged
\* is sent again and again, a datagram that is sent again and again arrives, and
\* a channel that stays as it is times out.
Fairness ==
  \A p \in Peers :
    /\ WF_vars(Local(p)) /\ WF_vars(Work(p))
    /\ \A r \in Reqs : WF_vars(Transmit(p, r)) /\ WF_vars(TimeOut(p, r))
    /\ \A d \in Datagrams : SF_vars(Hear(p, d, FALSE))

FairSpec == Spec /\ Fairness

----------------------------------------------------------------------------
(* Properties *)

Frame == [flag : {"POST", "RECV", "BACK", "TIMEDOUT"}, type : {"REQ", "RES", ""},
          r : Reqs, gen : 0..MaxGen]
Command == [what : {"connect", "respond", "flush"}, r : Reqs, gen : 0..MaxGen]

\* Every variable stays in its range.
TypeOK ==
  /\ \A p \in Peers, r \in Reqs :
       \/ live[p][r] = Null
       \/ live[p][r] \in [gen : 1..MaxGen, out : {"none", "ready", "sent", "acked"},
                          in : BOOLEAN, late : {"no", "send", "recv"}, sends : Nat]
  /\ made \in [Peers -> [Reqs -> 0..MaxGen]]
  /\ \A p \in Peers : /\ \A i \in DOMAIN pipe[p] : pipe[p][i] \in Frame
                      /\ \A i \in DOMAIN local[p] : local[p][i] \in Command
                      /\ net[p] \subseteq Datagrams
  /\ posted \subseteq Reqs /\ heard \subseteq posted

\* The address of a channel is not used after xchannel_free, not by a frame that
\* waits in the pipe and not by a command that waits in the socket, unless a RES
\* overtook the ACK of its REQ (or a channel timed out: this is checked without).
StaleOnlyIfOvertaken == stale => overtook # {}

\* xmsger_flush, "状态错误会报错" (a wrong state is reported as an error): a
\* channel is not flushed a second time.
FlushedOnce == ~twice

\* msger_loop on a RES without a channel, "被动端收到重复的 BYE，回复最后的 ACK"
\* (a repeated BYE gets the last ACK): only a RES that was taken before gets it.
FinalForRepeated == unheard = {}

\* A server whose response is through can rely on it: the client took it.
AckedWasHeard ==
  \A r \in Reqs :
    live["server"][r] # Null /\ live["server"][r].out = "acked" => r \in heard

\* A request that was run is answered, and a server that responds gets rid of
\* its channel, also when the client has released its own and only the final ACK
\* can tell the server.
AnswerSettles ==
  \A r \in Reqs :
    /\ ran[r] > 0 ~> got[r] > 0
    /\ (live["server"][r] # Null /\ live["server"][r].out = "sent")
         ~> live["server"][r] = Null

\* No channel stays for ever, whether its request is answered, refused or lost.
EveryChannelEnds ==
  \A p \in Peers, r \in Reqs : live[p][r] # Null ~> live[p][r] = Null

=============================================================================
