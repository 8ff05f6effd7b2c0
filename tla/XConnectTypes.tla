--------------------------- MODULE XConnectTypes ----------------------------
(***************************************************************************)
(* The steps of the messenger and of the thread of xltp (XConnect), each   *)
(* reduced to what it does to the two queues of a process, and the ranges  *)
(* of the variables.                                                       *)
(*                                                                         *)
(* The argument follows one request through the pipe and the socket.  A    *)
(* frame or a command for a channel joins its queue at the tail and leaves *)
(* it at the head (Joins, Leaves); Work, Local, Hear, Transmit, TimeOut    *)
(* and Post are then described by the frame or command that moves, which   *)
(* is what the invariants speak of.                                        *)
(***************************************************************************)
EXTENDS XConnect, TLAPS

----------------------------------------------------------------------------
(* Queues *)

\* e is in the queue s; it is there once at most; every e is before every f.
In(s, e) == \E i \in 1..Len(s) : s[i] = e
Once(s, e) == \A i, j \in 1..Len(s) : s[i] = e /\ s[j] = e => i = j
Before(s, e, f) == \A i, j \in 1..Len(s) : s[i] = e /\ s[j] = f => i < j

\* What of In, Once and Before survives when x joins the queue s, which then
\* is t, and when x, its head, leaves it.
Joins(s, t, x) ==
  /\ \A e : In(t, e) <=> In(s, e) \/ e = x
  /\ \A e : Once(s, e) /\ (e = x => ~In(s, e)) => Once(t, e)
  /\ \A e, f : Before(s, e, f) /\ (e = x => ~In(s, f) /\ f # x) => Before(t, e, f)
Leaves(s, t, x) ==
  /\ \A e : In(s, e) <=> In(t, e) \/ e = x
  /\ \A e : Once(s, e) => Once(t, e)
  /\ Once(s, x) => ~In(t, x)
  /\ \A e, f : Before(s, e, f) => Before(t, e, f)
  /\ \A e : Before(s, e, x) => ~In(t, e)

\* Nothing is in an empty queue.
LEMMA EmptyQueue == \A e : ~In(<< >>, e)
  BY DEF In

\* Where nothing is, all is in order.
LEMMA AbsentOnce ==
  ASSUME NEW s, NEW e, ~In(s, e)
  PROVE  Once(s, e) /\ \A f : Before(s, e, f) /\ Before(s, f, e)
  BY Zenon DEF In, Once, Before

\* Append, as xpipe_write and the datagram to itself use it.
LEMMA AppendJoins ==
  ASSUME NEW S, NEW s \in Seq(S), NEW x \in S
  PROVE  Joins(s, Append(s, x), x)
<1> DEFINE t == Append(s, x)
<1>1. /\ Len(s) \in Nat /\ Len(t) = Len(s) + 1 /\ t[Len(s) + 1] = x
      /\ \A i \in 1..Len(s) : t[i] = s[i]
  OBVIOUS
<1> HIDE DEF t
<1>2. 1..Len(t) = 1..Len(s) \cup {Len(s) + 1}
  BY <1>1
<1>3. ASSUME NEW e PROVE In(t, e) <=> In(s, e) \/ e = x
  BY <1>1, <1>2, Zenon DEF In
<1>4. ASSUME NEW e, Once(s, e), e = x => ~In(s, e) PROVE Once(t, e)
  <2> SUFFICES ASSUME NEW i \in 1..Len(t), NEW j \in 1..Len(t), t[i] = e, t[j] = e
               PROVE  i = j
    BY Zenon DEF Once
  <2>1. CASE e = x
    BY <1>1, <1>2, <1>4, <2>1, Zenon DEF In
  <2>2. CASE e # x
    <3>1. i \in 1..Len(s) /\ j \in 1..Len(s)
      BY <1>1, <1>2, <2>2, Zenon
    <3> QED BY <1>1, <1>4, <3>1, Zenon DEF Once
  <2> QED BY <2>1, <2>2, Zenon
<1>5. ASSUME NEW e, NEW f, Before(s, e, f), e = x => ~In(s, f) /\ f # x
      PROVE  Before(t, e, f)
  <2> SUFFICES ASSUME NEW i \in 1..Len(t), NEW j \in 1..Len(t), t[i] = e, t[j] = f
               PROVE  i < j
    BY Zenon DEF Before
  <2>1. CASE i \in 1..Len(s) /\ j \in 1..Len(s)
    BY <1>1, <1>5, <2>1, Zenon DEF Before
  <2>2. CASE i \in 1..Len(s) /\ j = Len(s) + 1
    BY <1>1, <2>2
  <2>3. CASE i = Len(s) + 1
    BY <1>1, <1>2, <1>5, <2>3, Zenon DEF In
  <2> QED BY <1>2, <2>1, <2>2, <2>3, Zenon
<1> QED BY <1>3, <1>4, <1>5, Zenon DEF Joins, t

\* Head and Tail, as xpipe_read and the socket use them.
LEMMA TailLeaves ==
  ASSUME NEW S, NEW s \in Seq(S), s # << >>
  PROVE  Leaves(s, Tail(s), Head(s))
<1> DEFINE t == Tail(s)
           x == Head(s)
<1>1. /\ Len(s) \in Nat \ {0} /\ Len(t) = Len(s) - 1 /\ x = s[1]
      /\ \A i \in 1..Len(t) : t[i] = s[i + 1]
  OBVIOUS
<1> HIDE DEF t, x
<1>2. \A i \in 1..Len(t) : i + 1 \in 1..Len(s)
  BY <1>1
<1>3. \A i \in 1..Len(s) : i = 1 \/ (i - 1 \in 1..Len(t) /\ s[i] = t[i - 1])
  BY <1>1
<1>4. 1 \in 1..Len(s)
  BY <1>1
<1>5. ASSUME NEW e PROVE In(s, e) <=> In(t, e) \/ e = x
  BY <1>1, <1>2, <1>3, <1>4, Zenon DEF In
<1>6. ASSUME NEW e, Once(s, e) PROVE Once(t, e)
  <2> SUFFICES ASSUME NEW i \in 1..Len(t), NEW j \in 1..Len(t), t[i] = e, t[j] = e
               PROVE  i = j
    BY Zenon DEF Once
  <2>1. i + 1 = j + 1
    BY <1>1, <1>2, <1>6, Zenon DEF Once
  <2> QED BY <2>1
<1>7. ASSUME Once(s, x) PROVE ~In(t, x)
  <2> SUFFICES ASSUME NEW i \in 1..Len(t), t[i] = x PROVE FALSE
    BY Zenon DEF In
  <2>1. i + 1 = 1
    BY <1>1, <1>2, <1>4, <1>7, Zenon DEF Once
  <2> QED BY <2>1
<1>8. ASSUME NEW e, NEW f, Before(s, e, f) PROVE Before(t, e, f)
  <2> SUFFICES ASSUME NEW i \in 1..Len(t), NEW j \in 1..Len(t), t[i] = e, t[j] = f
               PROVE  i < j
    BY Zenon DEF Before
  <2>1. i + 1 < j + 1
    BY <1>1, <1>2, <1>8, Zenon DEF Before
  <2> QED BY <2>1
<1>9. ASSUME NEW e, Before(s, e, x) PROVE ~In(t, e)
  <2> SUFFICES ASSUME NEW i \in 1..Len(t), t[i] = e PROVE FALSE
    BY Zenon DEF In
  <2>1. i + 1 < 1
    BY <1>1, <1>2, <1>4, <1>9, Zenon DEF Before
  <2> QED BY <2>1
<1> QED BY <1>5, <1>6, <1>7, <1>8, <1>9, Zenon DEF Leaves, t, x

----------------------------------------------------------------------------
(* Frames and commands *)

\* The frames and the commands about a request r; g is the generation of the
\* channel.  A client has one channel for a request, of generation 1.
PostF(r) == [flag |-> "POST", type |-> "", r |-> r, gen |-> 0]
ResF(r) == [flag |-> "RECV", type |-> "RES", r |-> r, gen |-> 1]
ReqBackF(r) == [flag |-> "BACK", type |-> "REQ", r |-> r, gen |-> 1]
ReqF(r, g) == [flag |-> "RECV", type |-> "REQ", r |-> r, gen |-> g]
ResBackF(r, g) == [flag |-> "BACK", type |-> "RES", r |-> r, gen |-> g]
LateF(r, g) == [flag |-> "TIMEDOUT", type |-> "", r |-> r, gen |-> g]
ConnectC(r) == [what |-> "connect", r |-> r, gen |-> 0]
RespondC(r, g) == [what |-> "respond", r |-> r, gen |-> g]
FlushC(r, g) == [what |-> "flush", r |-> r, gen |-> g]

Gens == 1..MaxGen

\* What a frame in the pipe, and a command in the socket, of a client and of
\* a server can be.
ClientFrame == {f \in Frame : \E r \in Reqs : f \in {PostF(r), ResF(r), ReqBackF(r), LateF(r, 1)}}
ServerFrame ==
  {f \in Frame : \E r \in Reqs, g \in Gens : f \in {ReqF(r, g), ResBackF(r, g), LateF(r, g)}}
ClientCommand == {h \in Command : \E r \in Reqs : h \in {ConnectC(r), FlushC(r, 1)}}
ServerCommand == {h \in Command : \E r \in Reqs, g \in Gens : h \in {RespondC(r, g), FlushC(r, g)}}

\* The fields of the frames.
LEMMA FrameFlags ==
  /\ \A r : PostF(r).flag = "POST" /\ ResF(r).flag = "RECV" /\ ReqBackF(r).flag = "BACK"
  /\ \A r, g : /\ ReqF(r, g).flag = "RECV" /\ ResBackF(r, g).flag = "BACK"
               /\ LateF(r, g).flag = "TIMEDOUT"
  BY Zenon DEF PostF, ResF, ReqBackF, ReqF, ResBackF, LateF
LEMMA FrameTypes ==
  /\ \A r : ResF(r).type = "RES" /\ ReqBackF(r).type = "REQ"
  /\ \A r, g : /\ ReqF(r, g).type = "REQ" /\ ResBackF(r, g).type = "RES"
               /\ LateF(r, g).type = ""
  BY Zenon DEF ResF, ReqBackF, ReqF, ResBackF, LateF
LEMMA FrameKeys ==
  /\ \A r : PostF(r).r = r /\ ResF(r).r = r /\ ReqBackF(r).r = r
  /\ \A r, g : /\ ReqF(r, g).r = r /\ ResBackF(r, g).r = r /\ LateF(r, g).r = r
               /\ ReqF(r, g).gen = g /\ ResBackF(r, g).gen = g /\ LateF(r, g).gen = g
  BY Zenon DEF PostF, ResF, ReqBackF, ReqF, ResBackF, LateF
LEMMA FirstGen ==
  \A r : PostF(r).gen = 0 /\ ResF(r).gen = 1 /\ ReqBackF(r).gen = 1
  BY Zenon DEF PostF, ResF, ReqBackF

\* Frames differ when their kind, their request or their generation does.
LEMMA FramesDiffer ==
  /\ \A r, q : /\ PostF(r) # ResF(q) /\ PostF(r) # ReqBackF(q) /\ ResF(r) # ReqBackF(q)
               /\ PostF(r) = PostF(q) => r = q
               /\ ResF(r) = ResF(q) => r = q
               /\ ReqBackF(r) = ReqBackF(q) => r = q
  /\ \A r, q, h : PostF(r) # LateF(q, h) /\ ResF(r) # LateF(q, h) /\ ReqBackF(r) # LateF(q, h)
  /\ \A r, q, g, h : /\ ReqF(r, g) # ResBackF(q, h) /\ ReqF(r, g) # LateF(q, h)
                     /\ ResBackF(r, g) # LateF(q, h)
                     /\ ReqF(r, g) = ReqF(q, h) => r = q /\ g = h
                     /\ ResBackF(r, g) = ResBackF(q, h) => r = q /\ g = h
                     /\ LateF(r, g) = LateF(q, h) => r = q /\ g = h
  BY FrameFlags, FrameKeys

\* And so do commands.
LEMMA CommandsDiffer ==
  \A r, q, g, h : /\ ConnectC(r) # FlushC(q, h) /\ RespondC(r, g) # FlushC(q, h)
                  /\ ConnectC(r) = ConnectC(q) => r = q
                  /\ FlushC(r, g) = FlushC(q, h) => r = q /\ g = h
                  /\ RespondC(r, g) = RespondC(q, h) => r = q /\ g = h
  BY ZenonT(30) DEF ConnectC, RespondC, FlushC

\* The frames and commands are of their sets.
LEMMA FramesFit ==
  /\ \A r \in Reqs : /\ {PostF(r), ResF(r), ReqBackF(r), LateF(r, 1)} \subseteq ClientFrame
                     /\ {ConnectC(r), FlushC(r, 1)} \subseteq ClientCommand
  /\ \A r \in Reqs, g \in Gens :
       /\ {ReqF(r, g), ResBackF(r, g), LateF(r, g)} \subseteq ServerFrame
       /\ {RespondC(r, g), FlushC(r, g)} \subseteq ServerCommand
<1>1. 1 \in Gens /\ 0 \in 0..MaxGen /\ Gens \subseteq 0..MaxGen
  BY ConnectAssumption DEF Gens
<1>2. ASSUME NEW r \in Reqs
      PROVE  /\ {PostF(r), ResF(r), ReqBackF(r), LateF(r, 1)} \subseteq Frame
             /\ {ConnectC(r), FlushC(r, 1)} \subseteq Command
  BY <1>1 DEF PostF, ResF, ReqBackF, LateF, ConnectC, FlushC, Frame, Command
<1>3. ASSUME NEW r \in Reqs, NEW g \in Gens
      PROVE  /\ {ReqF(r, g), ResBackF(r, g), LateF(r, g)} \subseteq Frame
             /\ {RespondC(r, g), FlushC(r, g)} \subseteq Command
  BY <1>1 DEF ReqF, ResBackF, LateF, RespondC, FlushC, Frame, Command
<1>4. ASSUME NEW r \in Reqs
      PROVE  /\ {PostF(r), ResF(r), ReqBackF(r), LateF(r, 1)} \subseteq ClientFrame
             /\ {ConnectC(r), FlushC(r, 1)} \subseteq ClientCommand
  BY <1>2, Zenon DEF ClientFrame, ClientCommand
<1>5. ASSUME NEW r \in Reqs, NEW g \in Gens
      PROVE  /\ {ReqF(r, g), ResBackF(r, g), LateF(r, g)} \subseteq ServerFrame
             /\ {RespondC(r, g), FlushC(r, g)} \subseteq ServerCommand
  BY <1>3, Zenon DEF ServerFrame, ServerCommand
<1> QED BY <1>4, <1>5, Zenon

----------------------------------------------------------------------------
(* What the variables are, and what the steps do to the queues *)

Chan == [gen : Gens, out : {"none", "ready", "sent", "acked"},
         in : BOOLEAN, late : {"no", "send", "recv"}, sends : Nat]

FrameOf(p) == IF p = "client" THEN ClientFrame ELSE ServerFrame
CommandOf(p) == IF p = "client" THEN ClientCommand ELSE ServerCommand

PipeType ==
  pipe = [p \in Peers |-> pipe[p]] /\ \A p \in Peers : pipe[p] \in Seq(FrameOf(p))
LocalType ==
  local = [p \in Peers |-> local[p]] /\ \A p \in Peers : local[p] \in Seq(CommandOf(p))

\* The ranges of the variables; the network carries a REQ only to the server
\* and a RES only to the client.
TypeInv ==
  /\ live \in [Peers -> [Reqs -> {Null} \cup Chan]]
  /\ made \in [Peers -> [Reqs -> 0..MaxGen]]
  /\ PipeType /\ LocalType
  /\ net \in [Peers -> SUBSET Datagrams]
  /\ \A d \in net["client"] : d.type # "REQ"
  /\ \A d \in net["server"] : d.type # "RES"
  /\ posted \subseteq Reqs /\ heard \subseteq posted
  /\ flushed \in [Peers -> SUBSET (Reqs \X Gens)]
  /\ twice \in BOOLEAN /\ stale \in BOOLEAN

\* Frame f joins, or leaves, the pipe of p; command h its socket.
Reports(p, f) == Joins(pipe[p], pipe'[p], f) /\ pipe'[Other(p)] = pipe[Other(p)]
Handles(p, f) == Leaves(pipe[p], pipe'[p], f) /\ pipe'[Other(p)] = pipe[Other(p)]
Tells(p, h) == Joins(local[p], local'[p], h) /\ local'[Other(p)] = local[Other(p)]
Obeys(p, h) == Leaves(local[p], local'[p], h) /\ local'[Other(p)] = local[Other(p)]
Flushes(p, r, g) ==
  /\ Tells(p, FlushC(r, g))
  /\ flushed' = [flushed EXCEPT ![p] = @ \cup {<<r, g>>}]
  /\ twice' = (twice \/ <<r, g>> \in flushed[p])

\* What Work does: a posted request is turned into a connect, a request that is
\* through needs nothing, a request is answered or refused, a frame f that ends
\* the channel flushes it.
Looks(p, r, g) == stale' = (stale \/ ~IsLive(p, r, g))
Connecting(r) ==
  /\ Handles("client", PostF(r)) /\ Tells("client", ConnectC(r))
  /\ UNCHANGED <<flushed, twice, stale>>
ReqThrough(r) ==
  /\ Handles("client", ReqBackF(r)) /\ Looks("client", r, 1)
  /\ UNCHANGED <<local, flushed, twice>>
Answering(r, g) ==
  /\ Handles("server", ReqF(r, g)) /\ Looks("server", r, g)
  /\ local' = local \/ Tells("server", RespondC(r, g))
  /\ UNCHANGED <<flushed, twice>>
Ending(p, f, r, g) == Handles(p, f) /\ Looks(p, r, g) /\ Flushes(p, r, g)

\* What Local does: a channel is created, gets its response, or is freed.
Connected(r) ==
  /\ Obeys("client", ConnectC(r))
  /\ made' = [made EXCEPT !["client"][r] = @ + 1]
  /\ live' = [live EXCEPT !["client"][r] = Channel("client", made'["client"][r])]
  /\ UNCHANGED <<stale, twice>>
Responding(r, g) ==
  /\ Obeys("server", RespondC(r, g)) /\ Looks("server", r, g)
  /\ live' = IF IsLive("server", r, g)
             THEN [live EXCEPT !["server"][r].out = "ready"] ELSE live
  /\ UNCHANGED <<made, twice>>
Freeing(p, r, g) ==
  /\ Obeys(p, FlushC(r, g))
  /\ live' = IF IsLive(p, r, g) THEN [live EXCEPT ![p][r] = Null] ELSE live
  /\ twice' = (twice \/ ~IsLive(p, r, g))
  /\ UNCHANGED <<made, stale>>

\* Report adds a frame to the pipe, the head leaves it with Work.
LEMMA PipeMoves ==
  ASSUME PipeType, NEW p \in Peers
  PROVE  /\ \A f \in FrameOf(p) :
              pipe' = [pipe EXCEPT ![p] = Append(@, f)] =>
                Reports(p, f) /\ PipeType'
         /\ pipe[p] # << >> /\ pipe' = [pipe EXCEPT ![p] = Tail(@)] =>
              /\ Head(pipe[p]) \in FrameOf(p) /\ Handles(p, Head(pipe[p]))
              /\ PipeType'
<1>1. /\ pipe = [q \in Peers |-> pipe[q]] /\ pipe[p] \in Seq(FrameOf(p))
      /\ \A q \in Peers : pipe[q] \in Seq(FrameOf(q))
  BY Zenon DEF PipeType
<1>2. Other(p) \in Peers /\ Other(p) # p
  BY Zenon DEF Other, Peers
<1>3. ASSUME NEW f \in FrameOf(p), pipe' = [pipe EXCEPT ![p] = Append(@, f)]
      PROVE  Reports(p, f) /\ PipeType'
  <2>1. pipe'[p] = Append(pipe[p], f) /\ \A q \in Peers \ {p} : pipe'[q] = pipe[q]
    BY <1>1, <1>3, Zenon
  <2>2. Append(pipe[p], f) \in Seq(FrameOf(p))
    BY <1>1
  <2>3. Joins(pipe[p], Append(pipe[p], f), f)
    BY <1>1, AppendJoins, Zenon
  <2>4. pipe' = [q \in Peers |-> pipe'[q]]
    BY <1>1, <1>3, Zenon
  <2> QED BY <1>1, <1>2, <2>1, <2>2, <2>3, <2>4, Zenon DEF Reports, PipeType
<1>4. ASSUME pipe[p] # << >>, pipe' = [pipe EXCEPT ![p] = Tail(@)]
      PROVE  /\ Head(pipe[p]) \in FrameOf(p) /\ Handles(p, Head(pipe[p]))
             /\ PipeType'
  <2>1. pipe'[p] = Tail(pipe[p]) /\ \A q \in Peers \ {p} : pipe'[q] = pipe[q]
    BY <1>1, <1>4, Zenon
  <2>2. Tail(pipe[p]) \in Seq(FrameOf(p)) /\ Head(pipe[p]) \in FrameOf(p)
    BY <1>1, <1>4
  <2>3. Leaves(pipe[p], Tail(pipe[p]), Head(pipe[p]))
    BY <1>1, <1>4, TailLeaves, Zenon
  <2>4. pipe' = [q \in Peers |-> pipe'[q]]
    BY <1>1, <1>4, Zenon
  <2> QED BY <1>1, <1>2, <2>1, <2>2, <2>3, <2>4, Zenon DEF Handles, PipeType
<1> QED BY <1>3, <1>4, Zenon

\* Tell adds a command to the socket, the head leaves it with Local.
LEMMA LocalMoves ==
  ASSUME LocalType, NEW p \in Peers
  PROVE  /\ \A h \in CommandOf(p) :
              local' = [local EXCEPT ![p] = Append(@, h)] =>
                Tells(p, h) /\ LocalType'
         /\ local[p] # << >> /\ local' = [local EXCEPT ![p] = Tail(@)] =>
              /\ Head(local[p]) \in CommandOf(p) /\ Obeys(p, Head(local[p]))
              /\ LocalType'
<1>1. /\ local = [q \in Peers |-> local[q]] /\ local[p] \in Seq(CommandOf(p))
      /\ \A q \in Peers : local[q] \in Seq(CommandOf(q))
  BY Zenon DEF LocalType
<1>2. Other(p) \in Peers /\ Other(p) # p
  BY Zenon DEF Other, Peers
<1>3. ASSUME NEW h \in CommandOf(p), local' = [local EXCEPT ![p] = Append(@, h)]
      PROVE  Tells(p, h) /\ LocalType'
  <2>1. local'[p] = Append(local[p], h) /\ \A q \in Peers \ {p} : local'[q] = local[q]
    BY <1>1, <1>3, Zenon
  <2>2. Append(local[p], h) \in Seq(CommandOf(p))
    BY <1>1
  <2>3. Joins(local[p], Append(local[p], h), h)
    BY <1>1, AppendJoins, Zenon
  <2>4. local' = [q \in Peers |-> local'[q]]
    BY <1>1, <1>3, Zenon
  <2> QED BY <1>1, <1>2, <2>1, <2>2, <2>3, <2>4, Zenon DEF Tells, LocalType
<1>4. ASSUME local[p] # << >>, local' = [local EXCEPT ![p] = Tail(@)]
      PROVE  /\ Head(local[p]) \in CommandOf(p) /\ Obeys(p, Head(local[p]))
             /\ LocalType'
  <2>1. local'[p] = Tail(local[p]) /\ \A q \in Peers \ {p} : local'[q] = local[q]
    BY <1>1, <1>4, Zenon
  <2>2. Tail(local[p]) \in Seq(CommandOf(p)) /\ Head(local[p]) \in CommandOf(p)
    BY <1>1, <1>4
  <2>3. Leaves(local[p], Tail(local[p]), Head(local[p]))
    BY <1>1, <1>4, TailLeaves, Zenon
  <2>4. local' = [q \in Peers |-> local'[q]]
    BY <1>1, <1>4, Zenon
  <2> QED BY <1>1, <1>2, <2>1, <2>2, <2>3, <2>4, Zenon DEF Obeys, LocalType
<1> QED BY <1>3, <1>4, Zenon

\* xltp_loop of a client: a posted request is connected, a response flushes its
\* channel, a request that is through asks for nothing, a timeout flushes.
LEMMA ClientWorks ==
  ASSUME TypeInv, Work("client")
  PROVE  /\ PipeType' /\ LocalType'
         /\ UNCHANGED <<live, made, net, posted, heard, overtook, unheard, dups>>
         /\ \E r \in Reqs : \/ Connecting(r) \/ ReqThrough(r)
                            \/ \E f \in {ResF(r), LateF(r, 1)} : Ending("client", f, r, 1)
<1> DEFINE m == Head(pipe["client"])
<1>1. "client" \in Peers /\ FrameOf("client") = ClientFrame /\ CommandOf("client") = ClientCommand
  BY Zenon DEF Peers, FrameOf, CommandOf
<1>2. /\ m \in ClientFrame /\ Handles("client", m) /\ PipeType'
      /\ stale' = (stale \/ (m.flag # "POST" /\ ~IsLive("client", m.r, m.gen)))
      /\ UNCHANGED <<live, made, net, posted, heard, overtook, unheard, dups>>
  BY <1>1, PipeMoves, Zenon DEF Work, TypeInv
<1>3. PICK r \in Reqs : m \in {PostF(r), ResF(r), ReqBackF(r), LateF(r, 1)}
  BY <1>2, Zenon DEF ClientFrame
<1>4. \A h \in ClientCommand : local' = [local EXCEPT !["client"] = Append(@, h)] =>
        Tells("client", h) /\ LocalType'
  BY <1>1, LocalMoves, Zenon DEF TypeInv
<1>5. LocalType /\ (local' = local => LocalType')
  BY Zenon DEF TypeInv, LocalType
<1>6. \/ \E refused \in BOOLEAN : RecvReq("client", m, refused)
      \/ RecvRes("client", m) \/ Back("client", m) \/ TimedOut("client", m)
      \/ Request("client", m)
  BY Zenon DEF Work
<1> HIDE DEF m
<1>7. CASE m = PostF(r)
  <2>1. m.flag = "POST" /\ m.r = r /\ m.gen = 0
    BY <1>7, FrameFlags, FrameTypes, FrameKeys, FirstGen, Zenon
  <2>2. Tell("client", "connect", m) /\ UNCHANGED <<flushed, twice>>
    BY <1>6, <2>1, Zenon DEF RecvReq, RecvRes, Back, TimedOut, Request
  <2>3. local' = [local EXCEPT !["client"] = Append(@, ConnectC(r))]
    BY <2>1, <2>2, Zenon DEF Tell, ConnectC
  <2>4. Tells("client", ConnectC(r)) /\ LocalType'
    BY <1>4, <2>3, FramesFit, Zenon
  <2>5. stale' = stale
    BY <1>2, <2>1, Zenon DEF TypeInv
  <2> QED BY <1>2, <1>7, <2>2, <2>4, <2>5, Zenon DEF Connecting
<1>8. CASE m = ReqBackF(r)
  <2>1. m.flag = "BACK" /\ m.type = "REQ" /\ m.r = r /\ m.gen = 1
    BY <1>8, FrameFlags, FrameTypes, FrameKeys, FirstGen, Zenon
  <2>2. UNCHANGED <<local, flushed, twice>>
    BY <1>6, <2>1, Zenon DEF RecvReq, RecvRes, Back, TimedOut, Request, Quiet
  <2>3. Looks("client", r, 1)
    BY <1>2, <2>1, Zenon DEF Looks
  <2> QED BY <1>2, <1>5, <1>8, <2>2, <2>3, Zenon DEF ReqThrough
<1>9. CASE m \in {ResF(r), LateF(r, 1)}
  <2>1. m.flag \in {"RECV", "TIMEDOUT"} /\ m.type # "REQ" /\ m.r = r /\ m.gen = 1
    <3>1. m.flag \in {"RECV", "TIMEDOUT"} /\ m.type \in {"RES", ""}
      <4>1. CASE m = ResF(r)
        BY <4>1, FrameFlags, FrameTypes, Zenon
      <4>2. CASE m = LateF(r, 1)
        BY <4>2, FrameFlags, FrameTypes, Zenon
      <4> QED BY <1>9, <4>1, <4>2, Zenon
    <3>2. m.r = r
      BY <1>9, FrameKeys
    <3>3. m.gen = 1
      BY <1>9, FrameKeys, FirstGen
    <3> QED BY <3>1, <3>2, <3>3, Zenon
  <2>2. Flush("client", m)
    BY <1>6, <2>1, Zenon DEF RecvReq, RecvRes, Back, TimedOut, Request
  <2>3. /\ local' = [local EXCEPT !["client"] = Append(@, FlushC(r, 1))]
        /\ flushed' = [flushed EXCEPT !["client"] = @ \cup {<<r, 1>>}]
        /\ twice' = (twice \/ <<r, 1>> \in flushed["client"])
    BY <2>1, <2>2, Zenon DEF Flush, Tell, FlushC
  <2>4. Tells("client", FlushC(r, 1)) /\ LocalType'
    BY <1>4, <2>3, FramesFit, Zenon
  <2>5. Flushes("client", r, 1)
    BY <2>3, <2>4, Zenon DEF Flushes
  <2>6. Looks("client", r, 1)
    BY <1>2, <2>1, Zenon DEF Looks
  <2> QED BY <1>2, <1>9, <2>4, <2>5, <2>6, Zenon DEF Ending
<1> QED BY <1>3, <1>7, <1>8, <1>9, Zenon

\* xltp_loop of a server: a request is answered or refused, a response that is
\* through and a timeout flush the channel.
LEMMA ServerWorks ==
  ASSUME TypeInv, Work("server")
  PROVE  /\ PipeType' /\ LocalType'
         /\ UNCHANGED <<live, made, net, posted, heard, overtook, unheard, dups>>
         /\ \E r \in Reqs, g \in Gens :
              \/ Answering(r, g)
              \/ \E f \in {ResBackF(r, g), LateF(r, g)} : Ending("server", f, r, g)
<1> DEFINE m == Head(pipe["server"])
<1>1. "server" \in Peers /\ FrameOf("server") = ServerFrame /\ CommandOf("server") = ServerCommand
  BY Zenon DEF Peers, FrameOf, CommandOf
<1>2. /\ m \in ServerFrame /\ Handles("server", m) /\ PipeType'
      /\ stale' = (stale \/ (m.flag # "POST" /\ ~IsLive("server", m.r, m.gen)))
      /\ UNCHANGED <<live, made, net, posted, heard, overtook, unheard, dups>>
  BY <1>1, PipeMoves, Zenon DEF Work, TypeInv
<1>3. PICK r \in Reqs, g \in Gens : m \in {ReqF(r, g), ResBackF(r, g), LateF(r, g)}
  BY <1>2, Zenon DEF ServerFrame
<1>4. \A h \in ServerCommand : local' = [local EXCEPT !["server"] = Append(@, h)] =>
        Tells("server", h) /\ LocalType'
  BY <1>1, LocalMoves, Zenon DEF TypeInv
<1>5. LocalType /\ (local' = local => LocalType')
  BY Zenon DEF TypeInv, LocalType
<1>6. \/ \E refused \in BOOLEAN : RecvReq("server", m, refused)
      \/ RecvRes("server", m) \/ Back("server", m) \/ TimedOut("server", m)
      \/ Request("server", m)
  BY Zenon DEF Work
<1> HIDE DEF m
<1>7. m.flag # "POST" /\ m.r = r /\ m.gen = g
  BY <1>3, FrameFlags, FrameKeys
<1>8. Looks("server", r, g)
  BY <1>2, <1>7, Zenon DEF Looks
<1>9. CASE m = ReqF(r, g)
  <2>1. m.flag = "RECV" /\ m.type = "REQ"
    BY <1>9, FrameFlags, FrameTypes, Zenon
  <2>2. /\ local' = local \/ Tell("server", "respond", m)
        /\ UNCHANGED <<flushed, twice>>
    BY <1>6, <2>1, Zenon DEF RecvReq, RecvRes, Back, TimedOut, Request
  <2>3. ASSUME Tell("server", "respond", m)
        PROVE  Tells("server", RespondC(r, g)) /\ LocalType'
    <3>1. local' = [local EXCEPT !["server"] = Append(@, RespondC(r, g))]
      BY <1>7, <2>3, Zenon DEF Tell, RespondC
    <3> QED BY <1>4, <3>1, FramesFit, Zenon
  <2> QED BY <1>2, <1>5, <1>8, <1>9, <2>2, <2>3, Zenon DEF Answering
<1>10. CASE m \in {ResBackF(r, g), LateF(r, g)}
  <2>1. (m.flag = "BACK" /\ m.type = "RES") \/ m.flag = "TIMEDOUT"
    BY <1>10, FrameFlags, FrameTypes, Zenon
  <2>2. Flush("server", m)
    BY <1>6, <2>1, Zenon DEF RecvReq, RecvRes, Back, TimedOut, Request
  <2>3. /\ local' = [local EXCEPT !["server"] = Append(@, FlushC(r, g))]
        /\ flushed' = [flushed EXCEPT !["server"] = @ \cup {<<r, g>>}]
        /\ twice' = (twice \/ <<r, g>> \in flushed["server"])
    BY <1>7, <2>2, Zenon DEF Flush, Tell, FlushC
  <2>4. Tells("server", FlushC(r, g)) /\ LocalType'
    BY <1>4, <2>3, FramesFit, Zenon
  <2>5. Flushes("server", r, g)
    BY <2>3, <2>4, Zenon DEF Flushes
  <2> QED BY <1>2, <1>8, <1>10, <2>4, <2>5, Zenon DEF Ending
<1> QED BY <1>3, <1>9, <1>10, Zenon

\* The fields of the commands.
LEMMA CommandFields ==
  /\ \A r : ConnectC(r).what = "connect" /\ ConnectC(r).r = r
  /\ \A r, g : /\ RespondC(r, g).what = "respond" /\ RespondC(r, g).r = r /\ RespondC(r, g).gen = g
               /\ FlushC(r, g).what = "flush" /\ FlushC(r, g).r = r /\ FlushC(r, g).gen = g
  BY Zenon DEF ConnectC, RespondC, FlushC

\* xmsger_local_recv of a client: a channel is created, or freed.
LEMMA ClientObeys ==
  ASSUME TypeInv, Local("client")
  PROVE  /\ LocalType'
         /\ UNCHANGED <<pipe, net, posted, flushed, heard, overtook, unheard, dups>>
         /\ \E r \in Reqs : Connected(r) \/ Freeing("client", r, 1)
<1> DEFINE h == Head(local["client"])
<1>1. "client" \in Peers /\ CommandOf("client") = ClientCommand
  BY Zenon DEF Peers, CommandOf
<1>2. /\ h \in ClientCommand /\ Obeys("client", h) /\ LocalType'
      /\ UNCHANGED <<pipe, net, posted, flushed, heard, overtook, unheard, dups>>
  BY <1>1, LocalMoves, Zenon DEF Local, TypeInv
<1>3. PICK r \in Reqs : h \in {ConnectC(r), FlushC(r, 1)}
  BY <1>2, Zenon DEF ClientCommand
<1>4. CASE h = ConnectC(r)
  <2>1. h.what = "connect" /\ h.r = r
    BY <1>4, CommandFields, Zenon
  <2>2. /\ made' = [made EXCEPT !["client"][r] = @ + 1]
        /\ live' = [live EXCEPT !["client"][r] = Channel("client", made'["client"][r])]
        /\ UNCHANGED <<stale, twice>>
    BY <2>1, Zenon DEF Local
  <2> QED BY <1>2, <1>4, <2>2, Zenon DEF Connected
<1>5. CASE h = FlushC(r, 1)
  <2>1. h.what = "flush" /\ h.r = r /\ h.gen = 1
    BY <1>5, CommandFields
  <2>2. /\ live' = IF IsLive("client", r, 1)
                   THEN [live EXCEPT !["client"][r] = Null] ELSE live
        /\ twice' = (twice \/ ~IsLive("client", r, 1))
        /\ UNCHANGED <<made, stale>>
    BY <2>1, Zenon DEF Local
  <2> QED BY <1>2, <1>5, <2>2, Zenon DEF Freeing
<1> QED BY <1>3, <1>4, <1>5, Zenon

\* xmsger_local_recv of a server: a response is made ready, or a channel freed.
LEMMA ServerObeys ==
  ASSUME TypeInv, Local("server")
  PROVE  /\ LocalType'
         /\ UNCHANGED <<pipe, net, posted, flushed, heard, overtook, unheard, dups>>
         /\ \E r \in Reqs, g \in Gens : Responding(r, g) \/ Freeing("server", r, g)
<1> DEFINE h == Head(local["server"])
<1>1. "server" \in Peers /\ CommandOf("server") = ServerCommand
  BY Zenon DEF Peers, CommandOf
<1>2. /\ h \in ServerCommand /\ Obeys("server", h) /\ LocalType'
      /\ UNCHANGED <<pipe, net, posted, flushed, heard, overtook, unheard, dups>>
  BY <1>1, LocalMoves, Zenon DEF Local, TypeInv
<1>3. PICK r \in Reqs, g \in Gens : h \in {RespondC(r, g), FlushC(r, g)}
  BY <1>2, Zenon DEF ServerCommand
<1>4. CASE h = RespondC(r, g)
  <2>1. h.what = "respond" /\ h.r = r /\ h.gen = g
    BY <1>4, CommandFields
  <2>2. /\ live' = IF IsLive("server", r, g)
                   THEN [live EXCEPT !["server"][r].out = "ready"] ELSE live
        /\ Looks("server", r, g) /\ UNCHANGED <<made, twice>>
    BY <2>1, Zenon DEF Local, Looks
  <2> QED BY <1>2, <1>4, <2>2, Zenon DEF Responding
<1>5. CASE h = FlushC(r, g)
  <2>1. h.what = "flush" /\ h.r = r /\ h.gen = g
    BY <1>5, CommandFields
  <2>2. /\ live' = IF IsLive("server", r, g)
                   THEN [live EXCEPT !["server"][r] = Null] ELSE live
        /\ twice' = (twice \/ ~IsLive("server", r, g))
        /\ UNCHANGED <<made, stale>>
    BY <2>1, Zenon DEF Local
  <2> QED BY <1>2, <1>5, <2>2, Zenon DEF Freeing
<1> QED BY <1>3, <1>4, <1>5, Zenon

\* A channel is put in its place and the others stay.
LEMMA PutChannel ==
  ASSUME live \in [Peers -> [Reqs -> {Null} \cup Chan]],
         NEW p \in Peers, NEW r \in Reqs, NEW c \in {Null} \cup Chan,
         live' = [live EXCEPT ![p][r] = c]
  PROVE  /\ live' \in [Peers -> [Reqs -> {Null} \cup Chan]]
         /\ live'[p][r] = c
         /\ \A q \in Peers, s \in Reqs : q # p \/ s # r => live'[q][s] = live[q][s]
  OBVIOUS

\* What a new channel is.
LEMMA NewChannel ==
  \A g \in Gens :
    /\ Channel("client", g) \in Chan /\ Channel("server", g) \in Chan
    /\ Channel("client", g).gen = g /\ Channel("server", g).gen = g
    /\ Channel("client", g).out = "ready" /\ Channel("server", g).out = "none"
    /\ ~Channel("client", g).in /\ Channel("server", g).in
  BY Zenon DEF Channel, Chan

\* A channel is known from none by its generation.
LEMMA ChanNotNull == \A c \in Chan : c # Null /\ c.gen \in Gens /\ c.gen # 0 /\ Null.gen = 0
  BY DEF Chan, Null, Gens

\* A request is posted, connected and given a channel once; the channel of a
\* server has its message from the start.
OnceOf(r) ==
  LET P == pipe["client"]
      L == local["client"]
      m == made["client"][r]
  IN /\ In(P, PostF(r)) =>
          r \in posted /\ m = 0 /\ Once(P, PostF(r)) /\ ~In(L, ConnectC(r))
     /\ In(L, ConnectC(r)) => r \in posted /\ m = 0 /\ Once(L, ConnectC(r))
     /\ m \in {0, 1} /\ (m = 1 => r \in posted)
     /\ live["client"][r] # Null => m = 1 /\ live["client"][r].gen = 1
     /\ live["server"][r] # Null => live["server"][r].in
OnceInv == \A r \in Reqs : OnceOf(r)

\* What the updates of a channel's fields leave.
LEMMA ChanUpdates ==
  ASSUME NEW c \in Chan
  PROVE  /\ \A o \in {"ready", "acked"} :
              LET u == [c EXCEPT !.out = o]
              IN u \in Chan /\ u.out = o /\ u.in = c.in /\ u.gen = c.gen
         /\ LET u == [c EXCEPT !.in = TRUE]
            IN u \in Chan /\ u.out = c.out /\ u.in /\ u.gen = c.gen
         /\ \A l \in {"send", "recv"} :
              LET u == [c EXCEPT !.late = l]
              IN u \in Chan /\ u.out = c.out /\ u.in = c.in /\ u.gen = c.gen
         /\ \A n \in {c.sends, c.sends + 1} :
              LET u == [c EXCEPT !.out = "sent", !.sends = n]
              IN u \in Chan /\ u.out = "sent" /\ u.in = c.in /\ u.gen = c.gen
<1>1. c.sends \in Nat /\ c.sends + 1 \in Nat
  BY DEF Chan
<1>2. ASSUME NEW o \in {"ready", "acked"}
      PROVE  LET u == [c EXCEPT !.out = o]
             IN u \in Chan /\ u.out = o /\ u.in = c.in /\ u.gen = c.gen
  BY Zenon DEF Chan
<1>3. LET u == [c EXCEPT !.in = TRUE]
      IN u \in Chan /\ u.out = c.out /\ u.in /\ u.gen = c.gen
  BY Zenon DEF Chan
<1>4. ASSUME NEW l \in {"send", "recv"}
      PROVE  LET u == [c EXCEPT !.late = l]
             IN u \in Chan /\ u.out = c.out /\ u.in = c.in /\ u.gen = c.gen
  BY Zenon DEF Chan
<1>5. ASSUME NEW n \in {c.sends, c.sends + 1}
      PROVE  LET u == [c EXCEPT !.out = "sent", !.sends = n]
             IN u \in Chan /\ u.out = "sent" /\ u.in = c.in /\ u.gen = c.gen
  BY <1>1, Zenon DEF Chan
<1> QED BY <1>2, <1>3, <1>4, <1>5, Zenon

\* The channel of p for r becomes one with the given fields, and no other
\* channel changes.
Becomes(p, r, out, in) ==
  /\ live' \in [Peers -> [Reqs -> {Null} \cup Chan]]
  /\ live'[p][r] \in Chan /\ live'[p][r].gen = live[p][r].gen
  /\ live'[p][r].out = out /\ (live'[p][r].in <=> in)
  /\ \A q \in Peers, s \in Reqs : q # p \/ s # r => live'[q][s] = live[q][s]

\* Network traffic: datagrams to p may be lost; what is sent to the other peer
\* is x at most.
Carries(p, x) ==
  /\ net' \in [Peers -> SUBSET Datagrams]
  /\ net'[p] \subseteq net[p] /\ net'[Other(p)] \subseteq net[Other(p)] \cup x

\* What Hear does: an ACK makes the message of p be through, which f reports;
\* a RES is taken, or came again; a REQ is given a channel.
AckTaken(p, r, f) ==
  /\ live[p][r] \in Chan /\ live[p][r].out = "sent"
  /\ Becomes(p, r, "acked", live[p][r].in) /\ Reports(p, f)
ResTaken(r) ==
  LET c == live["client"][r]
  IN /\ c \in Chan /\ ~c.in /\ Becomes("client", r, c.out, TRUE)
     /\ heard' = heard \cup {r}
     /\ overtook' = IF c.out = "acked" THEN overtook ELSE overtook \cup {r}
     /\ Reports("client", ResF(r)) /\ UNCHANGED unheard
ResAgain(r) ==
  LET c == live["client"][r]
  IN /\ c = Null \/ (c \in Chan /\ c.in)
     /\ UNCHANGED <<live, heard, overtook, pipe>>
     /\ r \in heard \/ c # Null => unheard' = unheard
ReqTaken(r, g) ==
  /\ live["server"][r] = Null /\ g = made["server"][r] + 1
  /\ made' = [made EXCEPT !["server"][r] = g]
  /\ live' = [live EXCEPT !["server"][r] = Channel("server", g)]
  /\ Reports("server", ReqF(r, g))

\* XPACK_TYPE_ACK: an ACK closes the message that is on its way, and does
\* nothing else.
LEMMA AckHeard ==
  ASSUME TypeInv, NEW p \in Peers, NEW r \in Reqs, HearAck(p, r)
  PROVE  /\ UNCHANGED <<made, heard, overtook, unheard>>
         /\ \/ UNCHANGED <<live, pipe>>
            \/ /\ live[p][r] \in Chan /\ live[p][r].out = "sent"
               /\ Becomes(p, r, "acked", live[p][r].in)
               /\ Report(p, "BACK", OutType(p), r, live[p][r].gen)
<1>1. live \in [Peers -> [Reqs -> {Null} \cup Chan]]
  BY Zenon DEF TypeInv
<1>2. CASE live[p][r] # Null /\ live[p][r].out = "sent"
  <2>1. live[p][r] \in Chan
    BY <1>1, <1>2, Zenon
  <2> DEFINE u == [live[p][r] EXCEPT !.out = "acked"]
  <2>2. live' = [live EXCEPT ![p][r] = u]
    BY <1>1, <1>2, Zenon DEF HearAck
  <2>3. u \in Chan /\ u.out = "acked" /\ u.in = live[p][r].in /\ u.gen = live[p][r].gen
    BY <2>1, ChanUpdates, Zenon
  <2> HIDE DEF u
  <2>4. Becomes(p, r, "acked", live[p][r].in)
    BY <1>1, <2>2, <2>3, PutChannel DEF Becomes
  <2> QED BY <1>2, <2>1, <2>4, Zenon DEF HearAck
<1>3. CASE ~(live[p][r] # Null /\ live[p][r].out = "sent")
  BY <1>3, Zenon DEF HearAck
<1> QED BY <1>2, <1>3, Zenon

\* XPACK_TYPE_RES: a RES is taken by the channel that waits for it.
LEMMA ResHeard ==
  ASSUME TypeInv, NEW p \in Peers, NEW r \in Reqs, HearRes(p, r)
  PROVE  /\ UNCHANGED made
         /\ \/ /\ live[p][r] = Null \/ (live[p][r] \in Chan /\ live[p][r].in)
               /\ UNCHANGED <<live, heard, overtook, pipe>>
               /\ r \in heard \/ live[p][r] # Null => unheard' = unheard
            \/ /\ live[p][r] \in Chan /\ ~live[p][r].in
               /\ Becomes(p, r, live[p][r].out, TRUE)
               /\ heard' = heard \cup {r}
               /\ overtook' = IF live[p][r].out = "acked" THEN overtook
                              ELSE overtook \cup {r}
               /\ Report(p, "RECV", "RES", r, live[p][r].gen)
               /\ UNCHANGED unheard
<1>1. live \in [Peers -> [Reqs -> {Null} \cup Chan]]
  BY Zenon DEF TypeInv
<1>2. CASE live[p][r] # Null /\ ~live[p][r].in
  <2>1. live[p][r] \in Chan
    BY <1>1, <1>2, Zenon
  <2> DEFINE u == [live[p][r] EXCEPT !.in = TRUE]
  <2>2. live' = [live EXCEPT ![p][r] = u]
    BY <1>1, <1>2, Zenon DEF HearRes
  <2>3. u \in Chan /\ u.out = live[p][r].out /\ u.in /\ u.gen = live[p][r].gen
    BY <2>1, ChanUpdates, Zenon
  <2> HIDE DEF u
  <2>4. Becomes(p, r, live[p][r].out, TRUE)
    BY <1>1, <2>2, <2>3, PutChannel DEF Becomes
  <2> QED BY <1>2, <2>1, <2>4, Zenon DEF HearRes
<1>3. CASE ~(live[p][r] # Null /\ ~live[p][r].in)
  BY <1>1, <1>3, Zenon DEF HearRes
<1> QED BY <1>2, <1>3, Zenon

\* msger_loop takes a datagram off the network and answers all but an ACK.
LEMMA HearNet ==
  ASSUME TypeInv, NEW p \in Peers, NEW d \in Datagrams, NEW again \in BOOLEAN,
         Hear(p, d, again)
  PROVE  /\ d.r \in Reqs /\ d \in net[p] /\ d = [type |-> d.type, r |-> d.r]
         /\ d.type \in {"REQ", "RES", "ACK"}
         /\ d.type = "ACK" => Carries(p, {}) /\ HearAck(p, d.r)
         /\ d.type # "ACK" => Carries(p, {[type |-> "ACK", r |-> d.r]})
         /\ d.type = "REQ" => HearReq(p, d.r)
         /\ d.type = "RES" => HearRes(p, d.r)
         /\ UNCHANGED <<local, posted, flushed, twice, stale>>
<1> DEFINE rest == IF again THEN net ELSE [net EXCEPT ![p] = @ \ {d}]
<1>1. net \in [Peers -> SUBSET Datagrams] /\ Other(p) \in Peers /\ Other(p) # p
  BY Zenon DEF TypeInv, Other, Peers
<1>2. /\ d.r \in Reqs /\ d = [type |-> d.type, r |-> d.r]
      /\ d.type \in {"REQ", "RES", "ACK"}
      /\ [type |-> "ACK", r |-> d.r] \in Datagrams
  BY Zenon DEF Datagrams
<1>3. /\ rest \in [Peers -> SUBSET Datagrams]
      /\ rest[p] \subseteq net[p] /\ rest[Other(p)] = net[Other(p)]
  BY <1>1, Zenon
<1>4. d.type = "ACK" => net' = rest
  BY Zenon DEF Hear
<1>5. d.type # "ACK" => net' = [rest EXCEPT ![Other(p)] = @ \cup {[type |-> "ACK", r |-> d.r]}]
  BY Zenon DEF Hear, Sent
<1> HIDE DEF rest
<1>6. d.type = "ACK" => Carries(p, {})
  BY <1>3, <1>4, Zenon DEF Carries
<1>7. d.type # "ACK" => Carries(p, {[type |-> "ACK", r |-> d.r]})
  BY <1>1, <1>2, <1>3, <1>5 DEF Carries
<1>8. /\ d.type = "ACK" => HearAck(p, d.r)
      /\ d.type = "REQ" => HearReq(p, d.r)
      /\ d.type = "RES" => HearRes(p, d.r)
  BY Zenon DEF Hear
<1> QED BY <1>2, <1>6, <1>7, <1>8, Zenon DEF Hear

\* What a client hears: an ACK of its REQ, or the RES.
LEMMA ClientHears ==
  ASSUME TypeInv, OnceInv, NEW d \in Datagrams, NEW again \in BOOLEAN,
         Hear("client", d, again)
  PROVE  /\ PipeType' /\ UNCHANGED <<made, local, posted, flushed, twice, stale>>
         /\ \E r \in Reqs :
              \/ /\ Carries("client", {}) /\ UNCHANGED <<heard, overtook, unheard>>
                 /\ UNCHANGED <<live, pipe>> \/ AckTaken("client", r, ReqBackF(r))
              \/ /\ [type |-> "RES", r |-> r] \in net["client"]
                 /\ Carries("client", {[type |-> "ACK", r |-> r]})
                 /\ ResAgain(r) \/ ResTaken(r)
<1>1. "client" \in Peers /\ FrameOf("client") = ClientFrame /\ OutType("client") = "REQ"
  BY Zenon DEF Peers, FrameOf, OutType
<1> DEFINE r == d.r
           c == live["client"][r]
<1>2. r \in Reqs /\ d \in net["client"] /\ UNCHANGED <<local, posted, flushed, twice, stale>>
  BY <1>1, HearNet, Zenon
<1>3. d.type \in {"ACK", "RES"}
  BY <1>1, <1>2, HearNet, Zenon DEF TypeInv
<1>4. c \in Chan => c.gen = 1
  BY <1>2, ChanNotNull, Zenon DEF OnceInv, OnceOf
<1>5. \A f \in ClientFrame : pipe' = [pipe EXCEPT !["client"] = Append(@, f)] =>
        Reports("client", f) /\ PipeType'
  BY <1>1, PipeMoves, Zenon DEF TypeInv
<1>6. PipeType /\ (pipe' = pipe => PipeType')
  BY Zenon DEF TypeInv, PipeType
<1>7. CASE d.type = "ACK"
  <2>1. Carries("client", {}) /\ HearAck("client", r)
    BY <1>1, <1>7, HearNet, Zenon
  <2>2. UNCHANGED <<made, heard, overtook, unheard>>
    BY <1>1, <1>2, <2>1, AckHeard, Zenon
  <2>3. CASE UNCHANGED <<live, pipe>>
    BY <1>2, <1>6, <2>1, <2>2, <2>3, Zenon
  <2>4. CASE /\ c \in Chan /\ c.out = "sent" /\ Becomes("client", r, "acked", c.in)
             /\ Report("client", "BACK", OutType("client"), r, c.gen)
    <3>1. pipe' = [pipe EXCEPT !["client"] = Append(@, ReqBackF(r))]
      BY <1>1, <1>4, <2>4, Zenon DEF Report, ReqBackF
    <3>2. Reports("client", ReqBackF(r)) /\ PipeType'
      BY <1>2, <1>5, <3>1, FramesFit, Zenon
    <3> QED BY <1>2, <2>1, <2>2, <2>4, <3>2, Zenon DEF AckTaken
  <2> QED BY <1>1, <1>2, <2>1, <2>3, <2>4, AckHeard, Zenon
<1>8. CASE d.type = "RES"
  <2>1. /\ Carries("client", {[type |-> "ACK", r |-> r]}) /\ HearRes("client", r)
        /\ [type |-> "RES", r |-> r] \in net["client"]
    BY <1>1, <1>8, HearNet, Zenon
  <2>2. UNCHANGED made
    BY <1>1, <1>2, <2>1, ResHeard, Zenon
  <2>3. CASE /\ c = Null \/ (c \in Chan /\ c.in)
             /\ UNCHANGED <<live, heard, overtook, pipe>>
             /\ r \in heard \/ c # Null => unheard' = unheard
    BY <1>2, <1>6, <2>1, <2>2, <2>3, Zenon DEF ResAgain
  <2>4. CASE /\ c \in Chan /\ ~c.in /\ Becomes("client", r, c.out, TRUE)
             /\ heard' = heard \cup {r}
             /\ overtook' = IF c.out = "acked" THEN overtook ELSE overtook \cup {r}
             /\ Report("client", "RECV", "RES", r, c.gen) /\ UNCHANGED unheard
    <3>1. pipe' = [pipe EXCEPT !["client"] = Append(@, ResF(r))]
      BY <1>1, <1>4, <2>4, Zenon DEF Report, ResF
    <3>2. Reports("client", ResF(r)) /\ PipeType'
      BY <1>2, <1>5, <3>1, FramesFit, Zenon
    <3> QED BY <1>2, <2>1, <2>2, <2>4, <3>2, Zenon DEF ResTaken
  <2> QED BY <1>1, <1>2, <2>1, <2>3, <2>4, ResHeard, Zenon
<1> QED BY <1>3, <1>7, <1>8, Zenon

\* What a server hears: an ACK of its RES, or the REQ, for which it creates a
\* channel when it has none.
LEMMA ServerHears ==
  ASSUME TypeInv, NEW d \in Datagrams, NEW again \in BOOLEAN, Hear("server", d, again)
  PROVE  /\ PipeType'
         /\ UNCHANGED <<local, posted, flushed, twice, stale, heard, overtook, unheard>>
         /\ \E r \in Reqs :
              \/ /\ [type |-> "ACK", r |-> r] \in net["server"]
                 /\ Carries("server", {}) /\ UNCHANGED made
                 /\ \/ UNCHANGED <<live, pipe>>
                    \/ AckTaken("server", r, ResBackF(r, live["server"][r].gen))
              \/ /\ [type |-> "REQ", r |-> r] \in net["server"]
                 /\ Carries("server", {[type |-> "ACK", r |-> r]})
                 /\ UNCHANGED <<live, made, pipe>> \/ \E g \in Gens : ReqTaken(r, g)
<1>1. "server" \in Peers /\ FrameOf("server") = ServerFrame /\ OutType("server") = "RES"
  BY Zenon DEF Peers, FrameOf, OutType
<1> DEFINE r == d.r
           c == live["server"][r]
<1>2. r \in Reqs /\ d \in net["server"] /\ UNCHANGED <<local, posted, flushed, twice, stale>>
  BY <1>1, HearNet, Zenon
<1>3. d.type \in {"ACK", "REQ"}
  BY <1>1, <1>2, HearNet, Zenon DEF TypeInv
<1>5. \A f \in ServerFrame : pipe' = [pipe EXCEPT !["server"] = Append(@, f)] =>
        Reports("server", f) /\ PipeType'
  BY <1>1, PipeMoves, Zenon DEF TypeInv
<1>6. PipeType /\ (pipe' = pipe => PipeType')
  BY Zenon DEF TypeInv, PipeType
<1>7. CASE d.type = "ACK"
  <2>1. /\ Carries("server", {}) /\ HearAck("server", r)
        /\ [type |-> "ACK", r |-> r] \in net["server"]
    BY <1>1, <1>7, HearNet, Zenon
  <2>2. UNCHANGED <<made, heard, overtook, unheard>>
    BY <1>1, <1>2, <2>1, AckHeard, Zenon
  <2>3. CASE UNCHANGED <<live, pipe>>
    BY <1>2, <1>6, <2>1, <2>2, <2>3, Zenon
  <2>4. CASE /\ c \in Chan /\ c.out = "sent" /\ Becomes("server", r, "acked", c.in)
             /\ Report("server", "BACK", OutType("server"), r, c.gen)
    <3>1. pipe' = [pipe EXCEPT !["server"] = Append(@, ResBackF(r, c.gen))]
      BY <1>1, <2>4, Zenon DEF Report, ResBackF
    <3>2. c.gen \in Gens
      BY <2>4, ChanNotNull, Zenon
    <3>3. Reports("server", ResBackF(r, c.gen)) /\ PipeType'
      BY <1>2, <1>5, <3>1, <3>2, FramesFit, Zenon
    <3> QED BY <1>2, <2>1, <2>2, <2>4, <3>3, Zenon DEF AckTaken
  <2> QED BY <1>1, <1>2, <2>1, <2>3, <2>4, AckHeard, Zenon
<1>8. CASE d.type = "REQ"
  <2>1. /\ Carries("server", {[type |-> "ACK", r |-> r]}) /\ HearReq("server", r)
        /\ [type |-> "REQ", r |-> r] \in net["server"]
    BY <1>1, <1>8, HearNet, Zenon
  <2>2. UNCHANGED <<heard, overtook, unheard>>
    BY <2>1, Zenon DEF HearReq
  <2>3. CASE c # Null
    <3>1. UNCHANGED <<live, made, pipe>>
      BY <2>1, <2>3, Zenon DEF HearReq
    <3> QED BY <1>2, <1>6, <2>1, <2>2, <3>1, Zenon
  <2>4. CASE c = Null
    <3> DEFINE g == made["server"][r] + 1
    <3>1. made \in [Peers -> [Reqs -> 0..MaxGen]]
      BY Zenon DEF TypeInv
    <3>2. made["server"][r] \in 0..MaxGen /\ made["server"][r] < MaxGen
      BY <1>1, <1>2, <2>1, <2>4, <3>1, Zenon DEF HearReq
    <3>3. g \in Gens
      BY <3>2, ConnectAssumption DEF Gens
    <3>4. made' = [made EXCEPT !["server"][r] = g]
      BY <1>2, <2>1, <2>4, <3>1, Zenon DEF HearReq
    <3>5. made'["server"][r] = g
      BY <1>1, <1>2, <3>1, <3>4, Zenon
    <3>6. /\ live' = [live EXCEPT !["server"][r] = Channel("server", g)]
          /\ pipe' = [pipe EXCEPT !["server"] = Append(@, ReqF(r, g))]
      BY <2>1, <2>4, <3>5, Zenon DEF HearReq, Report, ReqF
    <3> HIDE DEF g
    <3>7. Reports("server", ReqF(r, g)) /\ PipeType'
      BY <1>2, <1>5, <3>3, <3>6, FramesFit, Zenon
    <3>8. g = made["server"][r] + 1
      BY Zenon DEF g
    <3>9. ReqTaken(r, g)
      BY <2>4, <3>4, <3>6, <3>7, <3>8, Zenon DEF ReqTaken
    <3> QED BY <1>2, <2>1, <2>2, <3>3, <3>7, <3>9, Zenon
  <2> QED BY <2>3, <2>4, Zenon
<1> QED BY <1>3, <1>7, <1>8, Zenon

\* xmsger_send_all sends the message of a channel that is not acknowledged.
LEMMA Transmits ==
  ASSUME TypeInv, NEW p \in Peers, NEW r \in Reqs, Transmit(p, r)
  PROVE  /\ live[p][r] \in Chan /\ live[p][r].out \in {"ready", "sent"}
         /\ Becomes(p, r, "sent", live[p][r].in)
         /\ Carries(p, {[type |-> OutType(p), r |-> r]})
         /\ UNCHANGED <<made, pipe, local, posted, flushed, twice, stale,
                        heard, overtook, unheard>>
<1>1. /\ live \in [Peers -> [Reqs -> {Null} \cup Chan]] /\ net \in [Peers -> SUBSET Datagrams]
      /\ Other(p) \in Peers /\ Other(p) # p
  BY Zenon DEF TypeInv, Other, Peers
<1>2. live[p][r] \in Chan /\ live[p][r].out \in {"ready", "sent"}
  BY <1>1, Zenon DEF Transmit
<1>3. PICK n \in {live[p][r].sends, live[p][r].sends + 1} :
        live' = [live EXCEPT ![p][r] = [live[p][r] EXCEPT !.out = "sent", !.sends = n]]
  <2>1. CASE MaxResend = Unbounded
    BY <1>1, <2>1, Zenon DEF Transmit
  <2>2. CASE MaxResend # Unbounded
    BY <1>1, <2>2, Zenon DEF Transmit
  <2> QED BY <2>1, <2>2, Zenon
<1> DEFINE u == [live[p][r] EXCEPT !.out = "sent", !.sends = n]
<1>4. u \in Chan /\ u.out = "sent" /\ u.in = live[p][r].in /\ u.gen = live[p][r].gen
  BY <1>2, ChanUpdates, ZenonT(30)
<1>5. live' = [live EXCEPT ![p][r] = u]
  BY <1>3, Zenon
<1> HIDE DEF u
<1>6. Becomes(p, r, "sent", live[p][r].in)
  BY <1>1, <1>4, <1>5, PutChannel DEF Becomes
<1>7. [type |-> OutType(p), r |-> r] \in Datagrams
  BY Zenon DEF Datagrams, OutType
<1>8. net' = [net EXCEPT ![Other(p)] = @ \cup {[type |-> OutType(p), r |-> r]}]
  BY Zenon DEF Transmit, Sent
<1>9. Carries(p, {[type |-> OutType(p), r |-> r]})
  BY <1>1, <1>7, <1>8, Zenon DEF Carries
<1> QED BY <1>2, <1>6, <1>9, Zenon DEF Transmit

\* xmsger_send_all gives up on a channel and says so.
LEMMA TimesOut ==
  ASSUME TypeInv, OnceInv, NEW p \in Peers, NEW r \in Reqs, TimeOut(p, r)
  PROVE  /\ MayTimeOut /\ live[p][r] \in Chan
         /\ Becomes(p, r, live[p][r].out, live[p][r].in)
         /\ Reports(p, LateF(r, live[p][r].gen)) /\ PipeType'
         /\ UNCHANGED <<made, net, local, posted, flushed, twice, stale,
                        heard, overtook, unheard>>
<1>1. live \in [Peers -> [Reqs -> {Null} \cup Chan]]
  BY Zenon DEF TypeInv
<1>2. live[p][r] \in Chan
  BY <1>1, Zenon DEF TimeOut
<1>3. PICK l \in {"send", "recv"} : live' = [live EXCEPT ![p][r] = [live[p][r] EXCEPT !.late = l]]
  <2>1. CASE live[p][r].out = "sent"
    BY <1>1, <2>1, Zenon DEF TimeOut
  <2>2. CASE live[p][r].out # "sent"
    BY <1>1, <2>2, Zenon DEF TimeOut
  <2> QED BY <2>1, <2>2, Zenon
<1> DEFINE u == [live[p][r] EXCEPT !.late = l]
           g == live[p][r].gen
<1>4. u \in Chan /\ u.out = live[p][r].out /\ u.in = live[p][r].in /\ u.gen = live[p][r].gen
  BY <1>2, ChanUpdates, ZenonT(30)
<1>5. live' = [live EXCEPT ![p][r] = u]
  BY <1>3, Zenon
<1>6. pipe' = [pipe EXCEPT ![p] = Append(@, LateF(r, g))]
  BY Zenon DEF TimeOut, Report, LateF
<1>7. g \in Gens /\ (p = "client" => g = 1)
  BY <1>2, ChanNotNull, Zenon DEF OnceInv, OnceOf
<1> HIDE DEF u, g
<1>8. Becomes(p, r, live[p][r].out, live[p][r].in)
  BY <1>1, <1>4, <1>5, PutChannel DEF Becomes
<1>9. LateF(r, g) \in FrameOf(p)
  <2>1. CASE p = "client"
    BY <1>7, <2>1, FramesFit, Zenon DEF FrameOf
  <2>2. CASE p # "client"
    BY <1>7, <2>2, FramesFit, Zenon DEF FrameOf
  <2> QED BY <2>1, <2>2, Zenon
<1>10. Reports(p, LateF(r, g)) /\ PipeType'
  BY <1>6, <1>9, PipeMoves, Zenon DEF TypeInv
<1>11. Reports(p, LateF(r, live[p][r].gen))
  BY <1>10, Zenon DEF g
<1> QED BY <1>2, <1>8, <1>10, <1>11, Zenon DEF TimeOut

\* xltp_echo and the like: a request is posted once.
LEMMA Posts ==
  ASSUME TypeInv, NEW r \in Reqs, Post(r)
  PROVE  /\ r \notin posted /\ posted' = posted \cup {r}
         /\ Reports("client", PostF(r)) /\ PipeType'
         /\ UNCHANGED <<live, made, local, net, flushed, twice, stale, heard,
                        overtook, unheard>>
<1>1. "client" \in Peers /\ FrameOf("client") = ClientFrame
  BY Zenon DEF Peers, FrameOf
<1>2. pipe' = [pipe EXCEPT !["client"] = Append(@, PostF(r))]
  BY Zenon DEF Post, Report, PostF
<1>3. PostF(r) \in FrameOf("client")
  BY <1>1, FramesFit, Zenon
<1>4. Reports("client", PostF(r)) /\ PipeType'
  BY <1>1, <1>2, <1>3, PipeMoves, Zenon DEF TypeInv
<1> QED BY <1>4, Zenon DEF Post

----------------------------------------------------------------------------
(* Types *)

\* Traffic keeps the REQs on the way to the server and the RESs on the way to
\* the client.
LEMMA NetTypes ==
  ASSUME TypeInv, NEW p \in Peers, NEW x, Carries(p, x),
         \A d \in x : d.type \in {OutType(p), "ACK"}
  PROVE  /\ net' \in [Peers -> SUBSET Datagrams]
         /\ \A d \in net'["client"] : d.type # "REQ"
         /\ \A d \in net'["server"] : d.type # "RES"
<1>1. net' \in [Peers -> SUBSET Datagrams]
  BY Zenon DEF Carries
<1>2. CASE p = "client"
  <2>1. net'["client"] \subseteq net["client"] /\ net'["server"] \subseteq net["server"] \cup x
    BY <1>2, Zenon DEF Carries, Other
  <2>2. \A d \in x : d.type # "RES"
    BY <1>2, Zenon DEF OutType
  <2> QED BY <1>1, <2>1, <2>2, Zenon DEF TypeInv
<1>3. CASE p = "server"
  <2>1. net'["server"] \subseteq net["server"] /\ net'["client"] \subseteq net["client"] \cup x
    BY <1>3, Zenon DEF Carries, Other
  <2>2. \A d \in x : d.type # "REQ"
    BY <1>3, Zenon DEF OutType
  <2> QED BY <1>1, <2>1, <2>2, Zenon DEF TypeInv
<1> QED BY <1>2, <1>3, Zenon DEF Peers

\* The ranges, and that a request is connected once, hold at the start.
LEMMA InitTypes == Init => TypeInv /\ OnceInv
<1> SUFFICES ASSUME Init PROVE TypeInv /\ OnceInv
  OBVIOUS
<1>1. 0 \in 0..MaxGen /\ "client" \in Peers /\ "server" \in Peers
  BY ConnectAssumption DEF Peers
<1>2. PipeType /\ LocalType
  <2>1. \A S : << >> \in Seq(S)
    OBVIOUS
  <2> QED BY <2>1, Zenon DEF Init, PipeType, LocalType
<1>3. TypeInv
  BY <1>1, <1>2, Zenon DEF Init, TypeInv
<1>4. OnceInv
  BY <1>1, EmptyQueue DEF Init, OnceInv, OnceOf
<1> QED BY <1>3, <1>4, Zenon

\* xmsger_flush adds a channel to the ones that are flushed.
LEMMA FlushTypes ==
  ASSUME TypeInv, NEW p \in Peers, NEW r \in Reqs, NEW g \in Gens, Flushes(p, r, g)
  PROVE  flushed' \in [Peers -> SUBSET (Reqs \X Gens)] /\ twice' \in BOOLEAN
<1>1. <<r, g>> \in Reqs \X Gens /\ flushed \in [Peers -> SUBSET (Reqs \X Gens)]
  BY Zenon DEF TypeInv
<1>2. flushed' = [flushed EXCEPT ![p] = @ \cup {<<r, g>>}]
  BY Zenon DEF Flushes
<1>3. flushed' \in [Peers -> SUBSET (Reqs \X Gens)]
  BY <1>1, <1>2, Zenon
<1>4. twice' \in BOOLEAN
  BY Zenon DEF Flushes
<1> QED BY <1>3, <1>4, Zenon

\* The thread of xltp keeps them.
LEMMA WorkTypes ==
  ASSUME TypeInv, OnceInv, NEW p \in Peers, Work(p)
  PROVE  TypeInv' /\ OnceInv'
<1>1. CASE p = "client"
  <2>1. /\ PipeType' /\ LocalType'
        /\ UNCHANGED <<live, made, net, posted, heard>>
    BY <1>1, ClientWorks, Zenon
  <2>2. PICK r \in Reqs : \/ Connecting(r) \/ ReqThrough(r)
                         \/ \E f \in {ResF(r), LateF(r, 1)} : Ending("client", f, r, 1)
    BY <1>1, ClientWorks, Zenon
  <2>3. /\ flushed' \in [Peers -> SUBSET (Reqs \X Gens)]
        /\ twice' \in BOOLEAN /\ stale' \in BOOLEAN
    <3>1. 1 \in Gens
      BY ConnectAssumption DEF Gens
    <3>2. ASSUME Flushes("client", r, 1)
          PROVE  flushed' \in [Peers -> SUBSET (Reqs \X Gens)] /\ twice' \in BOOLEAN
      BY <1>1, <3>1, <3>2, FlushTypes, Zenon
    <3> QED BY <2>2, <3>2, Zenon DEF TypeInv, Connecting, ReqThrough, Ending, Looks
  <2>4. TypeInv'
    BY <2>1, <2>3, Zenon DEF TypeInv
  <2>5. ASSUME NEW q \in Reqs PROVE OnceOf(q)'
    <3>1. OnceOf(q)
      BY Zenon DEF OnceInv
    <3>2. CASE Connecting(r)
      BY <2>1, <3>1, <3>2, FramesDiffer, CommandsDiffer, AbsentOnce, Zenon
         DEF Connecting, OnceOf, Handles, Leaves, Tells, Joins
    <3>3. CASE ReqThrough(r)
      BY <2>1, <3>1, <3>3, FramesDiffer, Zenon DEF ReqThrough, OnceOf, Handles, Leaves
    <3>4. CASE \E f \in {ResF(r), LateF(r, 1)} : Ending("client", f, r, 1)
      BY <2>1, <3>1, <3>4, FramesDiffer, CommandsDiffer
         DEF Ending, OnceOf, Handles, Leaves, Flushes, Tells, Joins
    <3> QED BY <2>2, <3>2, <3>3, <3>4, Zenon
  <2> QED BY <2>4, <2>5, Zenon DEF OnceInv
<1>2. CASE p = "server"
  <2>1. /\ PipeType' /\ LocalType'
        /\ UNCHANGED <<live, made, net, posted, heard>>
    BY <1>2, ServerWorks, Zenon
  <2>2. PICK r \in Reqs, g \in Gens :
          \/ Answering(r, g)
          \/ \E f \in {ResBackF(r, g), LateF(r, g)} : Ending("server", f, r, g)
    BY <1>2, ServerWorks, Zenon
  <2>3. /\ flushed' \in [Peers -> SUBSET (Reqs \X Gens)]
        /\ twice' \in BOOLEAN /\ stale' \in BOOLEAN
    <3>1. ASSUME Flushes("server", r, g)
          PROVE  flushed' \in [Peers -> SUBSET (Reqs \X Gens)] /\ twice' \in BOOLEAN
      BY <1>2, <3>1, FlushTypes, Zenon
    <3> QED BY <2>2, <3>1, Zenon DEF TypeInv, Answering, Ending, Looks
  <2>4. TypeInv'
    BY <2>1, <2>3, Zenon DEF TypeInv
  <2>5. pipe'["client"] = pipe["client"] /\ local'["client"] = local["client"]
    BY <2>2, Zenon DEF Answering, Ending, Handles, Flushes, Tells, Other
  <2>6. ASSUME NEW q \in Reqs PROVE OnceOf(q)'
    BY <2>1, <2>5, Zenon DEF OnceInv, OnceOf
  <2> QED BY <2>4, <2>6, Zenon DEF OnceInv
<1> QED BY <1>1, <1>2, Zenon DEF Peers

\* The messenger keeps them when it obeys a command.
LEMMA LocalTypes ==
  ASSUME TypeInv, OnceInv, NEW p \in Peers, Local(p)
  PROVE  TypeInv' /\ OnceInv'
<1>0. /\ live \in [Peers -> [Reqs -> {Null} \cup Chan]]
      /\ made \in [Peers -> [Reqs -> 0..MaxGen]]
  BY Zenon DEF TypeInv
<1>1. CASE p = "client"
  <2>1. /\ LocalType' /\ UNCHANGED <<pipe, net, posted, flushed, heard>>
    BY <1>1, ClientObeys, Zenon
  <2>2. PICK r \in Reqs : Connected(r) \/ Freeing("client", r, 1)
    BY <1>1, ClientObeys, Zenon
  <2>3. CASE Connected(r)
    <3>0. /\ Obeys("client", ConnectC(r))
          /\ made' = [made EXCEPT !["client"][r] = @ + 1]
          /\ live' = [live EXCEPT !["client"][r] = Channel("client", made'["client"][r])]
          /\ UNCHANGED <<stale, twice>>
      BY <2>3, Zenon DEF Connected
    <3>1. OnceOf(r) /\ In(local["client"], ConnectC(r))
      BY <3>0, Zenon DEF OnceInv, Obeys, Leaves
    <3>2. /\ made["client"][r] = 0 /\ r \in posted /\ ~In(pipe["client"], PostF(r))
          /\ ~In(local'["client"], ConnectC(r))
      BY <3>0, <3>1, Zenon DEF OnceOf, Obeys, Leaves
    <3>3. /\ made'["client"][r] = 1 /\ made' \in [Peers -> [Reqs -> 0..MaxGen]]
          /\ \A q \in Reqs \ {r} : made'["client"][q] = made["client"][q]
      BY <1>0, <1>1, <3>0, <3>2, ConnectAssumption
    <3>4. 1 \in Gens
      BY ConnectAssumption DEF Gens
    <3>5. Channel("client", 1) \in Chan /\ Channel("client", 1).gen = 1
      BY <3>4, NewChannel, Zenon
    <3>6. /\ live' \in [Peers -> [Reqs -> {Null} \cup Chan]]
          /\ live'["client"][r] = Channel("client", 1)
          /\ \A q \in Peers, s \in Reqs : q # "client" \/ s # r => live'[q][s] = live[q][s]
      BY <1>0, <1>1, <3>0, <3>3, <3>5, PutChannel
    <3>7. TypeInv'
      <4>1. PipeType'
        BY <2>1, Zenon DEF TypeInv, PipeType
      <4> QED BY <2>1, <3>0, <3>3, <3>6, <4>1, Zenon DEF TypeInv
    <3>8. ASSUME NEW q \in Reqs PROVE OnceOf(q)'
      <4>1. OnceOf(q)
        BY Zenon DEF OnceInv
      <4>2. live'["server"][q] = live["server"][q]
        BY <3>6, Zenon DEF Peers
      <4>3. CASE q = r
        BY <2>1, <3>2, <3>3, <3>5, <3>6, <4>1, <4>2, <4>3, Zenon DEF OnceOf
      <4>4. CASE q # r
        <5>1. live'["client"][q] = live["client"][q] /\ made'["client"][q] = made["client"][q]
          BY <3>3, <3>6, <4>4, Zenon DEF Peers
        <5>2. /\ In(local'["client"], ConnectC(q)) <=> In(local["client"], ConnectC(q))
              /\ Once(local["client"], ConnectC(q)) => Once(local'["client"], ConnectC(q))
          BY <3>0, <4>4, CommandsDiffer, Zenon DEF Obeys, Leaves
        <5> QED BY <2>1, <4>1, <4>2, <5>1, <5>2, Zenon DEF OnceOf
      <4> QED BY <4>3, <4>4, Zenon
    <3> QED BY <3>7, <3>8, Zenon DEF OnceInv
  <2>4. CASE Freeing("client", r, 1)
    <3>0. /\ Obeys("client", FlushC(r, 1))
          /\ live' = IF IsLive("client", r, 1)
                     THEN [live EXCEPT !["client"][r] = Null] ELSE live
          /\ twice' = (twice \/ ~IsLive("client", r, 1))
          /\ UNCHANGED <<made, stale>>
      BY <2>4, Zenon DEF Freeing
    <3>1. /\ live' \in [Peers -> [Reqs -> {Null} \cup Chan]]
          /\ \A q \in Peers, s \in Reqs : live'[q][s] = live[q][s] \/ live'[q][s] = Null
      <4>1. CASE IsLive("client", r, 1)
        BY <1>0, <1>1, <3>0, <4>1, PutChannel
      <4>2. CASE ~IsLive("client", r, 1)
        BY <1>0, <3>0, <4>2, Zenon
      <4> QED BY <4>1, <4>2, Zenon
    <3>2. TypeInv'
      <4>1. PipeType' /\ twice' \in BOOLEAN
        BY <2>1, <3>0, Zenon DEF TypeInv, PipeType
      <4> QED BY <2>1, <3>0, <3>1, <4>1, Zenon DEF TypeInv
    <3>3. ASSUME NEW q \in Reqs PROVE OnceOf(q)'
      <4>1. /\ In(local'["client"], ConnectC(q)) <=> In(local["client"], ConnectC(q))
            /\ Once(local["client"], ConnectC(q)) => Once(local'["client"], ConnectC(q))
        BY <3>0, CommandsDiffer, Zenon DEF Obeys, Leaves
      <4> QED BY <2>1, <3>0, <3>1, <4>1, Zenon DEF OnceInv, OnceOf, Peers
    <3> QED BY <3>2, <3>3, Zenon DEF OnceInv
  <2> QED BY <2>2, <2>3, <2>4, Zenon
<1>2. CASE p = "server"
  <2>1. /\ LocalType' /\ UNCHANGED <<pipe, net, posted, flushed, heard>>
    BY <1>2, ServerObeys, Zenon
  <2>2. PICK r \in Reqs, g \in Gens : Responding(r, g) \/ Freeing("server", r, g)
    BY <1>2, ServerObeys, Zenon
  <2>3. /\ live' \in [Peers -> [Reqs -> {Null} \cup Chan]]
        /\ \A q \in Peers, s \in Reqs :
             \/ live'[q][s] = live[q][s] \/ live'[q][s] = Null
             \/ q = "server" /\ live[q][s] # Null /\ live'[q][s].in = live[q][s].in
    <3>1. CASE live' = live
      BY <1>0, <3>1, Zenon
    <3>2. CASE live' = [live EXCEPT !["server"][r] = Null]
      BY <1>0, <1>2, <3>2, PutChannel
    <3>3. CASE IsLive("server", r, g) /\ live' = [live EXCEPT !["server"][r].out = "ready"]
      <4>1. live["server"][r] # Null
        BY <3>3 DEF IsLive, Gens, Null
      <4>2. live["server"][r] \in Chan
        BY <1>0, <1>2, <4>1, Zenon
      <4> DEFINE u == [live["server"][r] EXCEPT !.out = "ready"]
      <4>3. u \in Chan /\ u.in = live["server"][r].in
        BY <4>2, ChanUpdates, Zenon
      <4>4. live' = [live EXCEPT !["server"][r] = u]
        BY <1>0, <3>3, Zenon
      <4> HIDE DEF u
      <4> QED BY <1>0, <1>2, <4>1, <4>3, <4>4, PutChannel
    <3> QED BY <2>2, <3>1, <3>2, <3>3, Zenon DEF Responding, Freeing
  <2>4. TypeInv'
    <3>1. PipeType'
      BY <2>1, Zenon DEF TypeInv, PipeType
    <3>2. twice' \in BOOLEAN /\ stale' \in BOOLEAN /\ made' = made
      <4>1. twice \in BOOLEAN /\ stale \in BOOLEAN
        BY Zenon DEF TypeInv
      <4> QED BY <2>2, <4>1, Zenon DEF Responding, Freeing, Looks
    <3> QED BY <2>1, <2>3, <3>1, <3>2, Zenon DEF TypeInv
  <2>5. local'["client"] = local["client"] /\ made' = made
    BY <2>2, Zenon DEF Responding, Freeing, Obeys, Other
  <2>6. ASSUME NEW q \in Reqs PROVE OnceOf(q)'
    BY <2>1, <2>3, <2>5, Zenon DEF OnceInv, OnceOf, Peers
  <2> QED BY <2>4, <2>6, Zenon DEF OnceInv
<1> QED BY <1>1, <1>2, Zenon DEF Peers

\* A step that only moves the channels on, reports what is no posted request and
\* sends keeps a request connected once.
LEMMA OnceKept ==
  ASSUME OnceInv, posted \subseteq posted', local' = local,
         NEW q \in Reqs, made'["client"][q] = made["client"][q],
         live'["client"][q] # Null =>
           live["client"][q] # Null /\ live'["client"][q].gen = live["client"][q].gen,
         live'["server"][q] # Null => live'["server"][q].in,
         In(pipe'["client"], PostF(q)) => In(pipe["client"], PostF(q)),
         Once(pipe["client"], PostF(q)) => Once(pipe'["client"], PostF(q))
  PROVE  OnceOf(q)'
  BY Zenon DEF OnceInv, OnceOf

\* The messenger keeps the ranges when it sends.
LEMMA TransmitTypes ==
  ASSUME TypeInv, OnceInv, NEW p \in Peers, NEW r \in Reqs, Transmit(p, r)
  PROVE  TypeInv' /\ OnceInv'
<1>1. /\ live[p][r] \in Chan /\ Becomes(p, r, "sent", live[p][r].in)
      /\ Carries(p, {[type |-> OutType(p), r |-> r]})
      /\ UNCHANGED <<made, pipe, local, posted, flushed, twice, stale, heard>>
  BY Transmits, Zenon
<1>2. TypeInv'
  <2>1. /\ net' \in [Peers -> SUBSET Datagrams]
        /\ \A d \in net'["client"] : d.type # "REQ"
        /\ \A d \in net'["server"] : d.type # "RES"
    BY <1>1, NetTypes
  <2>2. PipeType' /\ LocalType'
    BY <1>1, Zenon DEF TypeInv, PipeType, LocalType
  <2> QED BY <1>1, <2>1, <2>2, Zenon DEF TypeInv, Becomes
<1>3. ASSUME NEW q \in Reqs PROVE OnceOf(q)'
  <2>1. OnceOf(q) /\ "client" \in Peers /\ "server" \in Peers
    BY Zenon DEF OnceInv, Peers
  <2>2. live'["client"][q] # Null =>
          live["client"][q] # Null /\ live'["client"][q].gen = live["client"][q].gen
    BY <1>1, <2>1, ChanNotNull, Zenon DEF Becomes
  <2>3. live'["server"][q] # Null => live'["server"][q].in
    BY <1>1, <2>1, ChanNotNull, Zenon DEF Becomes, OnceOf
  <2> QED BY <1>1, <2>2, <2>3, OnceKept, Zenon
<1> QED BY <1>2, <1>3, Zenon DEF OnceInv

\* And when it gives up.
LEMMA TimeOutTypes ==
  ASSUME TypeInv, OnceInv, NEW p \in Peers, NEW r \in Reqs, TimeOut(p, r)
  PROVE  TypeInv' /\ OnceInv'
<1>1. /\ live[p][r] \in Chan /\ Becomes(p, r, live[p][r].out, live[p][r].in)
      /\ Reports(p, LateF(r, live[p][r].gen)) /\ PipeType'
      /\ UNCHANGED <<made, net, local, posted, flushed, twice, stale, heard>>
  BY TimesOut, Zenon
<1>2. TypeInv'
  <2>1. LocalType'
    BY <1>1, Zenon DEF TypeInv, LocalType
  <2> QED BY <1>1, <2>1, Zenon DEF TypeInv, Becomes
<1>3. ASSUME NEW q \in Reqs PROVE OnceOf(q)'
  <2>1. OnceOf(q) /\ "client" \in Peers /\ "server" \in Peers
    BY Zenon DEF OnceInv, Peers
  <2>2. live'["client"][q] # Null =>
          live["client"][q] # Null /\ live'["client"][q].gen = live["client"][q].gen
    BY <1>1, <2>1, ChanNotNull, Zenon DEF Becomes
  <2>3. live'["server"][q] # Null => live'["server"][q].in
    BY <1>1, <2>1, ChanNotNull, Zenon DEF Becomes, OnceOf
  <2>4. /\ In(pipe'["client"], PostF(q)) => In(pipe["client"], PostF(q))
        /\ Once(pipe["client"], PostF(q)) => Once(pipe'["client"], PostF(q))
    <3>1. CASE p = "client"
      BY <1>1, <3>1, FramesDiffer DEF Reports, Joins
    <3>2. CASE p = "server"
      BY <1>1, <3>2, Zenon DEF Reports, Other
    <3> QED BY <3>1, <3>2, Zenon DEF Peers
  <2> QED BY <1>1, <2>2, <2>3, <2>4, OnceKept, Zenon
<1> QED BY <1>2, <1>3, Zenon DEF OnceInv

\* A client keeps the ranges when it takes a datagram.
LEMMA ClientHearTypes ==
  ASSUME TypeInv, OnceInv, NEW d \in Datagrams, NEW again \in BOOLEAN,
         Hear("client", d, again)
  PROVE  TypeInv' /\ OnceInv'
<1>1. PICK r \in Reqs :
        LET c == live["client"][r]
        IN /\ PipeType' /\ UNCHANGED <<made, local, posted, flushed, twice, stale>>
           /\ Carries("client", {}) \/ Carries("client", {[type |-> "ACK", r |-> r]})
           /\ \/ UNCHANGED <<live, pipe, heard>>
              \/ /\ c \in Chan /\ Becomes("client", r, "acked", c.in)
                 /\ Reports("client", ReqBackF(r)) /\ heard' = heard
              \/ /\ c \in Chan /\ ~c.in /\ Becomes("client", r, c.out, TRUE)
                 /\ heard' = heard \cup {r} /\ Reports("client", ResF(r))
  BY ClientHears, Zenon DEF AckTaken, ResTaken, ResAgain
<1>2. /\ "client" \in Peers /\ "server" \in Peers
      /\ live \in [Peers -> [Reqs -> {Null} \cup Chan]]
  BY Zenon DEF Peers, TypeInv
<1>3. TypeInv'
  <2>1. /\ net' \in [Peers -> SUBSET Datagrams]
        /\ \A e \in net'["client"] : e.type # "REQ"
        /\ \A e \in net'["server"] : e.type # "RES"
    <3>1. CASE Carries("client", {})
      BY <1>2, <3>1, NetTypes
    <3>2. CASE Carries("client", {[type |-> "ACK", r |-> r]})
      BY <1>2, <3>2, NetTypes
    <3> QED BY <1>1, <3>1, <3>2, Zenon
  <2>2. LocalType'
    BY <1>1, Zenon DEF TypeInv, LocalType
  <2>3. live["client"][r] \in Chan => r \in posted
    BY ChanNotNull, Zenon DEF OnceInv, OnceOf
  <2>4. live' \in [Peers -> [Reqs -> {Null} \cup Chan]] /\ heard' \subseteq posted
    BY <1>1, <1>2, <2>3, Zenon DEF TypeInv, Becomes
  <2> QED BY <1>1, <2>1, <2>2, <2>4, Zenon DEF TypeInv
<1>4. ASSUME NEW q \in Reqs PROVE OnceOf(q)'
  <2>1. OnceOf(q)
    BY Zenon DEF OnceInv
  <2>2. live'["client"][q] # Null =>
          live["client"][q] # Null /\ live'["client"][q].gen = live["client"][q].gen
    BY <1>1, <1>2, <2>1, ChanNotNull, Zenon DEF Becomes
  <2>3. live'["server"][q] = live["server"][q]
    BY <1>1, <1>2, Zenon DEF Becomes
  <2>4. /\ In(pipe'["client"], PostF(q)) => In(pipe["client"], PostF(q))
        /\ Once(pipe["client"], PostF(q)) => Once(pipe'["client"], PostF(q))
    BY <1>1, FramesDiffer, Zenon DEF Reports, Joins
  <2>5. live'["server"][q] # Null => live'["server"][q].in
    BY <2>1, <2>3, Zenon DEF OnceOf
  <2> QED BY <1>1, <2>2, <2>4, <2>5, OnceKept, Zenon
<1> QED BY <1>3, <1>4, Zenon DEF OnceInv

\* And so does a server.
LEMMA ServerHearTypes ==
  ASSUME TypeInv, OnceInv, NEW d \in Datagrams, NEW again \in BOOLEAN,
         Hear("server", d, again)
  PROVE  TypeInv' /\ OnceInv'
<1>1. PICK r \in Reqs :
        LET c == live["server"][r]
        IN /\ PipeType' /\ UNCHANGED <<local, posted, flushed, twice, stale, heard>>
           /\ Carries("server", {}) \/ Carries("server", {[type |-> "ACK", r |-> r]})
           /\ \/ UNCHANGED <<live, pipe, made>>
              \/ /\ c \in Chan /\ Becomes("server", r, "acked", c.in) /\ made' = made
                 /\ Reports("server", ResBackF(r, c.gen))
              \/ \E g \in Gens :
                   /\ made' = [made EXCEPT !["server"][r] = g]
                   /\ live' = [live EXCEPT !["server"][r] = Channel("server", g)]
                   /\ Reports("server", ReqF(r, g))
  BY ServerHears, Zenon DEF AckTaken, ReqTaken
<1>2. /\ "client" \in Peers /\ "server" \in Peers
      /\ live \in [Peers -> [Reqs -> {Null} \cup Chan]]
      /\ made \in [Peers -> [Reqs -> 0..MaxGen]]
  BY Zenon DEF Peers, TypeInv
<1>3. /\ live' \in [Peers -> [Reqs -> {Null} \cup Chan]]
      /\ \A q \in Reqs : live'["client"][q] = live["client"][q]
      /\ \A q \in Reqs : live'["server"][q] # Null => live'["server"][q].in
  <2>0. \A q \in Reqs : live["server"][q] # Null => live["server"][q].in
    BY Zenon DEF OnceInv, OnceOf
  <2>1. CASE live' = live
    BY <1>2, <2>0, <2>1, Zenon
  <2>2. CASE live["server"][r] \in Chan /\ Becomes("server", r, "acked", live["server"][r].in)
    <3>1. live["server"][r].in
      BY <2>0, <2>2, ChanNotNull, Zenon
    <3> QED BY <1>2, <2>0, <2>2, <3>1, Zenon DEF Becomes
  <2>3. ASSUME NEW g \in Gens, live' = [live EXCEPT !["server"][r] = Channel("server", g)]
        PROVE  /\ live' \in [Peers -> [Reqs -> {Null} \cup Chan]]
               /\ \A q \in Reqs : live'["client"][q] = live["client"][q]
               /\ \A q \in Reqs : live'["server"][q] # Null => live'["server"][q].in
    <3> DEFINE u == Channel("server", g)
    <3>1. u \in Chan /\ u.in /\ live' = [live EXCEPT !["server"][r] = u]
      BY <2>3, NewChannel, Zenon
    <3> HIDE DEF u
    <3>2. /\ live' \in [Peers -> [Reqs -> {Null} \cup Chan]] /\ live'["server"][r] = u
          /\ \A p \in Peers, q \in Reqs : p # "server" \/ q # r => live'[p][q] = live[p][q]
      BY <1>2, <3>1, PutChannel
    <3> QED BY <1>2, <2>0, <3>1, <3>2, Zenon
  <2> QED BY <1>1, <2>1, <2>2, <2>3, Zenon
<1>4. /\ made' \in [Peers -> [Reqs -> 0..MaxGen]]
      /\ \A q \in Reqs : made'["client"][q] = made["client"][q]
  <2>1. CASE made' = made
    BY <1>2, <2>1, Zenon
  <2>2. ASSUME NEW g \in Gens, made' = [made EXCEPT !["server"][r] = g]
        PROVE  /\ made' \in [Peers -> [Reqs -> 0..MaxGen]]
               /\ \A q \in Reqs : made'["client"][q] = made["client"][q]
    <3>1. g \in 0..MaxGen
      BY DEF Gens
    <3> QED BY <1>2, <2>2, <3>1, Zenon
  <2> QED BY <1>1, <2>1, <2>2, Zenon
<1>5. TypeInv'
  <2>1. /\ net' \in [Peers -> SUBSET Datagrams]
        /\ \A e \in net'["client"] : e.type # "REQ"
        /\ \A e \in net'["server"] : e.type # "RES"
    <3>1. CASE Carries("server", {})
      BY <1>2, <3>1, NetTypes
    <3>2. CASE Carries("server", {[type |-> "ACK", r |-> r]})
      BY <1>2, <3>2, NetTypes
    <3> QED BY <1>1, <3>1, <3>2, Zenon
  <2>2. LocalType'
    BY <1>1, Zenon DEF TypeInv, LocalType
  <2> QED BY <1>1, <1>3, <1>4, <2>1, <2>2, Zenon DEF TypeInv
<1>6. pipe'["client"] = pipe["client"]
  BY <1>1, Zenon DEF Reports, Other
<1>7. ASSUME NEW q \in Reqs PROVE OnceOf(q)'
  <2>1. OnceOf(q)
    BY Zenon DEF OnceInv
  <2>2. live'["server"][q] # Null => live'["server"][q].in
    BY <1>3, <2>1, Zenon DEF OnceOf
  <2> QED BY <1>1, <1>3, <1>4, <1>6, <2>2, OnceKept, Zenon
<1> QED BY <1>5, <1>7, Zenon DEF OnceInv

\* Every step keeps the ranges and connects a request once at most.
LEMMA NextTypes ==
  TypeInv /\ OnceInv /\ [Next]_vars => TypeInv' /\ OnceInv'
<1> SUFFICES ASSUME TypeInv, OnceInv, [Next]_vars
             PROVE  TypeInv' /\ OnceInv'
  OBVIOUS
<1>1. ASSUME NEW p \in Peers, NEW d \in Datagrams, Lose(p, d)
      PROVE  TypeInv' /\ OnceInv'
  <2>1. Carries(p, {})
    BY <1>1, Zenon DEF Lose, Carries, TypeInv, Other, Peers
  <2>2. /\ net' \in [Peers -> SUBSET Datagrams]
        /\ \A e \in net'["client"] : e.type # "REQ"
        /\ \A e \in net'["server"] : e.type # "RES"
    BY <2>1, NetTypes
  <2>3. PipeType' /\ LocalType'
    BY <1>1, Zenon DEF Lose, TypeInv, PipeType, LocalType
  <2>4. TypeInv'
    BY <1>1, <2>2, <2>3, Zenon DEF Lose, TypeInv
  <2> QED BY <1>1, <2>4, Zenon DEF Lose, OnceInv, OnceOf
<1>2. ASSUME NEW r \in Reqs, Post(r) PROVE TypeInv' /\ OnceInv'
  <2>1. /\ r \notin posted /\ posted' = posted \cup {r}
        /\ Reports("client", PostF(r)) /\ PipeType'
        /\ UNCHANGED <<live, made, local, net, flushed, twice, stale, heard>>
    BY <1>2, Posts, Zenon
  <2>2. LocalType'
    BY <2>1, Zenon DEF TypeInv, LocalType
  <2>3. TypeInv'
    BY <2>1, <2>2, Zenon DEF TypeInv
  <2>4. ASSUME NEW q \in Reqs PROVE OnceOf(q)'
    <3>1. OnceOf(q)
      BY Zenon DEF OnceInv
    <3>2. CASE q = r
      <4>1. ~In(pipe["client"], PostF(q)) /\ ~In(local["client"], ConnectC(q))
        BY <2>1, <3>1, <3>2, Zenon DEF OnceOf
      <4>2. Once(pipe'["client"], PostF(q))
        BY <2>1, <3>2, <4>1, AbsentOnce, Zenon DEF Reports, Joins
      <4>3. made["client"][q] = 0
        BY <2>1, <3>1, <3>2, Zenon DEF OnceOf
      <4> QED BY <2>1, <3>1, <3>2, <4>1, <4>2, <4>3, Zenon DEF OnceOf
    <3>3. CASE q # r
      BY <2>1, <3>3, FramesDiffer, OnceKept, <3>1, Zenon DEF Reports, Joins, OnceOf
    <3> QED BY <3>2, <3>3, Zenon
  <2> QED BY <2>3, <2>4, Zenon DEF OnceInv
<1>3. ASSUME NEW p \in Peers, NEW d \in Datagrams, NEW again \in BOOLEAN, Hear(p, d, again)
      PROVE  TypeInv' /\ OnceInv'
  BY <1>3, ClientHearTypes, ServerHearTypes, Zenon DEF Peers
<1>4. CASE UNCHANGED vars
  <2>1. PipeType' /\ LocalType'
    BY <1>4, Zenon DEF vars, TypeInv, PipeType, LocalType
  <2> QED BY <1>4, <2>1, Zenon DEF vars, TypeInv, OnceInv, OnceOf
<1>5. ASSUME Idle PROVE TypeInv' /\ OnceInv'
  BY <1>4, <1>5, Zenon DEF Idle
<1> QED
  BY <1>1, <1>2, <1>3, <1>4, <1>5, WorkTypes, LocalTypes, TransmitTypes, TimeOutTypes, Zenon
  DEF Next

\* The ranges follow.
LEMMA TypesFit == TypeInv => TypeOK
<1> SUFFICES ASSUME TypeInv PROVE TypeOK
  OBVIOUS
<1>1. /\ live \in [Peers -> [Reqs -> {Null} \cup Chan]]
      /\ made \in [Peers -> [Reqs -> 0..MaxGen]]
      /\ net \in [Peers -> SUBSET Datagrams]
      /\ posted \subseteq Reqs /\ heard \subseteq posted
  BY Zenon DEF TypeInv
<1>2. \A p \in Peers : pipe[p] \in Seq(Frame) /\ local[p] \in Seq(Command)
  <2>1. ASSUME NEW p \in Peers PROVE FrameOf(p) \subseteq Frame /\ CommandOf(p) \subseteq Command
    BY Zenon DEF FrameOf, CommandOf, ClientFrame, ServerFrame, ClientCommand, ServerCommand
  <2> QED BY <2>1 DEF TypeInv, PipeType, LocalType
<1>3. \A p \in Peers : /\ \A i \in DOMAIN pipe[p] : pipe[p][i] \in Frame
                       /\ \A i \in DOMAIN local[p] : local[p][i] \in Command
  BY <1>2
<1> QED BY <1>1, <1>3 DEF TypeOK, Chan, Gens

\* Every variable of a client and of a server stays in its range, and a request
\* is connected once, whatever is lost, repeated or times out.
THEOREM TypeCorrect == Spec => []TypeOK
<1>1. Spec => [](TypeInv /\ OnceInv)
  BY InitTypes, NextTypes, PTL DEF Spec
<1> QED BY <1>1, TypesFit, PTL

=============================================================================
