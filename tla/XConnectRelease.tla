-------------------------- MODULE XConnectRelease ---------------------------
(***************************************************************************)
(* The release of channels, for every set of requests and every bound of   *)
(* XConnect, while nothing times out: a channel is flushed once, its       *)
(* address is not used after xchannel_free unless a RES overtook the ACK   *)
(* of its REQ, and an ACK tells the truth.                                 *)
(*                                                                         *)
(* A frame or a command is in its queue once, and while it is there the    *)
(* channel it names is in the state it tells of: ClientOf and ServerOf say *)
(* so for each kind of frame and command, and NetOf for the datagrams.     *)
(***************************************************************************)
EXTENDS XConnectTypes

\* The client's end of a request while nothing times out.  The RES is in the
\* pipe once, for a channel that is not flushed; the flush is in the socket
\* once, for a channel that is live.  Unless the RES overtook it, the report
\* that the REQ is through comes before the RES, so its channel is live as well.
ClientOf(r) ==
  LET c == live["client"][r]
      P == pipe["client"]
      L == local["client"]
      F == flushed["client"]
  IN /\ ~In(P, LateF(r, 1))
     /\ made["client"][r] = 0 =>
          /\ r \notin heard /\ <<r, 1>> \notin F
          /\ ~In(P, ResF(r)) /\ ~In(P, ReqBackF(r)) /\ ~In(L, FlushC(r, 1))
     /\ In(P, ResF(r)) => /\ c # Null /\ c.in /\ <<r, 1>> \notin F
                          /\ Once(P, ResF(r)) /\ ~In(L, FlushC(r, 1))
     /\ In(L, FlushC(r, 1)) =>
          c # Null /\ c.in /\ <<r, 1>> \in F /\ Once(L, FlushC(r, 1))
     /\ <<r, 1>> \in F => ~In(P, ResF(r)) /\ (c = Null \/ In(L, FlushC(r, 1)))
     /\ c # Null => (c.in <=> r \in heard)
     /\ c = Null /\ made["client"][r] = 1 => r \in heard
     /\ r \notin overtook /\ c # Null /\ c.in => c.out = "acked"
     /\ r \notin overtook /\ In(P, ReqBackF(r)) =>
          c # Null /\ <<r, 1>> \notin F /\ Before(P, ReqBackF(r), ResF(r))

\* The server's end of a request while nothing times out.  A request waits in
\* the pipe, or its response in the socket, while the channel has nothing to
\* send; the report that the response is through, or the flush, while the
\* channel is through; all of them for the channel that is live.
ServerOf(r) ==
  LET c == live["server"][r]
      m == made["server"][r]
      P == pipe["server"]
      L == local["server"]
      F == flushed["server"]
  IN /\ c # Null => c.gen = m /\ (c.out = "acked" => r \in heard)
     /\ \A g \in Gens :
          /\ ~In(P, LateF(r, g))
          /\ In(P, ReqF(r, g)) => /\ c # Null /\ g = m /\ c.out = "none"
                                  /\ Once(P, ReqF(r, g)) /\ ~In(L, RespondC(r, g))
          /\ In(L, RespondC(r, g)) =>
               c # Null /\ g = m /\ c.out = "none" /\ Once(L, RespondC(r, g))
          /\ In(P, ResBackF(r, g)) =>
               /\ c # Null /\ g = m /\ c.out = "acked" /\ <<r, g>> \notin F
               /\ Once(P, ResBackF(r, g)) /\ ~In(L, FlushC(r, g))
          /\ In(L, FlushC(r, g)) =>
               c # Null /\ g = m /\ c.out = "acked" /\ Once(L, FlushC(r, g))
          /\ <<r, g>> \in F =>
               /\ g <= m /\ ~In(P, ResBackF(r, g))
               /\ c # Null /\ g = m => c.out = "acked" /\ In(L, FlushC(r, g))

\* What is on the network is about a request that was connected, and an ACK on
\* its way to the server about a RES that was taken.
NetOf(r) ==
  /\ \A p \in Peers, t \in {"REQ", "RES", "ACK"} :
       [type |-> t, r |-> r] \in net[p] => made["client"][r] = 1
  /\ made["server"][r] > 0 => made["client"][r] = 1
  /\ [type |-> "ACK", r |-> r] \in net["server"] => r \in heard

HistInv == ~twice /\ unheard = {} /\ (stale => overtook # {})

ReleaseInv ==
  /\ TypeInv /\ OnceInv /\ HistInv
  /\ \A r \in Reqs : ClientOf(r) /\ ServerOf(r) /\ NetOf(r)

\* A request of which nothing changes at the client.
LEMMA ClientKept ==
  ASSUME NEW r \in Reqs, ClientOf(r),
         live'["client"][r] = live["client"][r], made'["client"][r] = made["client"][r],
         r \in heard' <=> r \in heard, r \in overtook => r \in overtook',
         <<r, 1>> \in flushed'["client"] <=> <<r, 1>> \in flushed["client"],
         \A e \in {LateF(r, 1), ResF(r), ReqBackF(r)} :
           In(pipe'["client"], e) <=> In(pipe["client"], e),
         Once(pipe["client"], ResF(r)) => Once(pipe'["client"], ResF(r)),
         Before(pipe["client"], ReqBackF(r), ResF(r)) =>
           Before(pipe'["client"], ReqBackF(r), ResF(r)),
         In(local'["client"], FlushC(r, 1)) <=> In(local["client"], FlushC(r, 1)),
         Once(local["client"], FlushC(r, 1)) => Once(local'["client"], FlushC(r, 1))
  PROVE  ClientOf(r)'
  BY Zenon DEF ClientOf

\* A request of which nothing changes at the server.
LEMMA ServerKept ==
  ASSUME NEW r \in Reqs, ServerOf(r),
         live'["server"][r] = live["server"][r], made'["server"][r] = made["server"][r],
         r \in heard => r \in heard',
         \A g \in Gens :
           /\ <<r, g>> \in flushed'["server"] <=> <<r, g>> \in flushed["server"]
           /\ \A e \in {LateF(r, g), ReqF(r, g), ResBackF(r, g)} :
                /\ In(pipe'["server"], e) <=> In(pipe["server"], e)
                /\ Once(pipe["server"], e) => Once(pipe'["server"], e)
           /\ \A e \in {RespondC(r, g), FlushC(r, g)} :
                /\ In(local'["server"], e) <=> In(local["server"], e)
                /\ Once(local["server"], e) => Once(local'["server"], e)
  PROVE  ServerOf(r)'
<1>1. \A g \in Gens :
        /\ In(pipe'["server"], LateF(r, g)) <=> In(pipe["server"], LateF(r, g))
        /\ In(pipe'["server"], ReqF(r, g)) <=> In(pipe["server"], ReqF(r, g))
        /\ In(pipe'["server"], ResBackF(r, g)) <=> In(pipe["server"], ResBackF(r, g))
        /\ Once(pipe["server"], ReqF(r, g)) => Once(pipe'["server"], ReqF(r, g))
        /\ Once(pipe["server"], ResBackF(r, g)) => Once(pipe'["server"], ResBackF(r, g))
        /\ In(local'["server"], RespondC(r, g)) <=> In(local["server"], RespondC(r, g))
        /\ In(local'["server"], FlushC(r, g)) <=> In(local["server"], FlushC(r, g))
        /\ Once(local["server"], RespondC(r, g)) => Once(local'["server"], RespondC(r, g))
        /\ Once(local["server"], FlushC(r, g)) => Once(local'["server"], FlushC(r, g))
  BY Zenon
<1> QED BY <1>1, Zenon DEF ServerOf

\* The invariant holds at the start.
LEMMA InitRelease == Init => ReleaseInv
<1> SUFFICES ASSUME Init PROVE ReleaseInv
  OBVIOUS
<1>1. TypeInv /\ OnceInv
  BY InitTypes, Zenon
<1>2. "client" \in Peers /\ "server" \in Peers
  BY Zenon DEF Peers
<1>3. ASSUME NEW r \in Reqs PROVE ClientOf(r) /\ ServerOf(r) /\ NetOf(r)
  <2>1. ClientOf(r)
    BY <1>2, EmptyQueue DEF Init, ClientOf
  <2>2. ServerOf(r)
    BY <1>2, EmptyQueue, Zenon DEF Init, ServerOf
  <2>3. NetOf(r)
    BY <1>2 DEF Init, NetOf
  <2> QED BY <2>1, <2>2, <2>3, Zenon
<1>4. HistInv
  BY Zenon DEF Init, HistInv
<1> QED BY <1>1, <1>3, <1>4, Zenon DEF ReleaseInv

\* A posted request is turned into a connect: nothing is there of it yet.
\* The response is flushed while its channel is live, and was not flushed before.
LEMMA ClientWorkKeeps ==
  ASSUME ReleaseInv, Work("client")
  PROVE  (\A r \in Reqs : ClientOf(r)') /\ HistInv'
<1>1. /\ TypeInv /\ OnceInv /\ HistInv /\ (\A r \in Reqs : ClientOf(r))
      /\ "client" \in Peers /\ flushed \in [Peers -> SUBSET (Reqs \X Gens)]
  BY Zenon DEF ReleaseInv, TypeInv, Peers
<1>2. UNCHANGED <<live, made, net, posted, heard, overtook, unheard, dups>>
  BY <1>1, ClientWorks, Zenon
<1>3. PICK r \in Reqs : \/ Connecting(r) \/ ReqThrough(r)
                       \/ \E f \in {ResF(r), LateF(r, 1)} : Ending("client", f, r, 1)
  BY <1>1, ClientWorks, Zenon
<1>4. live["client"][r] # Null => IsLive("client", r, 1)
  BY <1>1 DEF OnceInv, OnceOf, IsLive
<1>5. CASE Connecting(r)
  <2>0. UNCHANGED <<flushed, twice, stale>>
    BY <1>5, Zenon DEF Connecting
  <2>1. ASSUME NEW q \in Reqs PROVE ClientOf(q)'
    <3>1. ClientOf(q)
      BY <1>1, Zenon
    <3>2. /\ \A e \in {LateF(q, 1), ResF(q), ReqBackF(q)} :
               In(pipe'["client"], e) <=> In(pipe["client"], e)
          /\ Once(pipe["client"], ResF(q)) => Once(pipe'["client"], ResF(q))
          /\ Before(pipe["client"], ReqBackF(q), ResF(q)) =>
               Before(pipe'["client"], ReqBackF(q), ResF(q))
      BY <1>5, FramesDiffer, Zenon DEF Connecting, Handles, Leaves
    <3>3. /\ In(local'["client"], FlushC(q, 1)) <=> In(local["client"], FlushC(q, 1))
          /\ Once(local["client"], FlushC(q, 1)) => Once(local'["client"], FlushC(q, 1))
      BY <1>5, CommandsDiffer, Zenon DEF Connecting, Tells, Joins
    <3> QED BY <1>2, <2>0, <3>1, <3>2, <3>3, ClientKept, Zenon
  <2> QED BY <1>1, <1>2, <2>0, <2>1, Zenon DEF HistInv
<1>6. CASE ReqThrough(r)
  <2>0. /\ Leaves(pipe["client"], pipe'["client"], ReqBackF(r))
        /\ stale' = (stale \/ ~IsLive("client", r, 1))
        /\ UNCHANGED <<local, flushed, twice>>
    BY <1>6, Zenon DEF ReqThrough, Handles, Looks
  <2>1. ASSUME NEW q \in Reqs PROVE ClientOf(q)'
    <3>1. ClientOf(q)
      BY <1>1, Zenon
    <3> QED BY <1>2, <2>0, <3>1, FramesDiffer, ZenonT(30) DEF ClientOf, Leaves
  <2>2. In(pipe["client"], ReqBackF(r))
    BY <2>0, Zenon DEF Leaves
  <2>3. r \in overtook \/ IsLive("client", r, 1)
    BY <1>1, <1>4, <2>2, Zenon DEF ClientOf
  <2> QED BY <1>1, <1>2, <2>0, <2>1, <2>3, Zenon DEF HistInv
<1>7. ASSUME NEW f \in {ResF(r), LateF(r, 1)}, Ending("client", f, r, 1)
      PROVE  (\A q \in Reqs : ClientOf(q)') /\ HistInv'
  <2>0. /\ Handles("client", f) /\ Flushes("client", r, 1)
        /\ stale' = (stale \/ ~IsLive("client", r, 1))
    BY <1>7, Zenon DEF Ending, Looks
  <2>1. In(pipe["client"], f)
    BY <2>0, Zenon DEF Handles, Leaves
  <2>2. f = ResF(r) /\ In(pipe["client"], ResF(r))
    BY <1>1, <1>7, <2>1, Zenon DEF ClientOf
  <2>3. /\ live["client"][r] # Null /\ live["client"][r].in
        /\ <<r, 1>> \notin flushed["client"]
        /\ Once(pipe["client"], ResF(r)) /\ ~In(local["client"], FlushC(r, 1))
        /\ made["client"][r] # 0
    BY <1>1, <2>2, Zenon DEF ClientOf
  <2>4. /\ <<r, 1>> \in flushed'["client"]
        /\ \A q \in Reqs : q # r =>
             (<<q, 1>> \in flushed'["client"] <=> <<q, 1>> \in flushed["client"])
    BY <1>1, <2>0, Zenon DEF Flushes
  <2>5. /\ Leaves(pipe["client"], pipe'["client"], ResF(r))
        /\ Joins(local["client"], local'["client"], FlushC(r, 1))
    BY <2>0, <2>2, Zenon DEF Handles, Flushes, Tells
  <2>6. ASSUME NEW q \in Reqs PROVE ClientOf(q)'
    <3>1. ClientOf(q)
      BY <1>1, Zenon
    <3>2. CASE q # r
      <4>1. /\ \A e \in {LateF(q, 1), ResF(q), ReqBackF(q)} :
                 In(pipe'["client"], e) <=> In(pipe["client"], e)
            /\ Once(pipe["client"], ResF(q)) => Once(pipe'["client"], ResF(q))
            /\ Before(pipe["client"], ReqBackF(q), ResF(q)) =>
                 Before(pipe'["client"], ReqBackF(q), ResF(q))
        BY <2>5, <3>2, FramesDiffer DEF Leaves
      <4>2. /\ In(local'["client"], FlushC(q, 1)) <=> In(local["client"], FlushC(q, 1))
            /\ Once(local["client"], FlushC(q, 1)) => Once(local'["client"], FlushC(q, 1))
        BY <2>5, <3>2, CommandsDiffer DEF Joins
      <4> QED BY <1>2, <2>4, <3>1, <3>2, <4>1, <4>2, ClientKept, Zenon
    <3>3. CASE q = r
      <4>1. ~In(pipe'["client"], ResF(r)) /\ ~In(pipe'["client"], LateF(r, 1))
        BY <2>3, <2>5, <3>1, <3>3, Zenon DEF Leaves, ClientOf
      <4>2. In(local'["client"], FlushC(r, 1)) /\ Once(local'["client"], FlushC(r, 1))
        BY <2>3, <2>5, AbsentOnce, Zenon DEF Joins
      <4>3. r \notin overtook => ~In(pipe'["client"], ReqBackF(r))
        BY <2>5, <3>1, <3>3, Zenon DEF Leaves, ClientOf
      <4> QED BY <1>2, <2>3, <2>4, <3>1, <3>3, <4>1, <4>2, <4>3, ZenonT(30) DEF ClientOf
    <3> QED BY <3>2, <3>3, Zenon
  <2>7. twice' = twice /\ stale' = stale
    BY <1>1, <1>4, <2>0, <2>3, Zenon DEF Flushes, TypeInv
  <2> QED BY <1>1, <1>2, <2>6, <2>7, Zenon DEF HistInv
<1> QED BY <1>3, <1>5, <1>6, <1>7, Zenon

\* The messenger of a client frees a channel that is live, once.
LEMMA ClientLocalKeeps ==
  ASSUME ReleaseInv, Local("client")
  PROVE  (\A r \in Reqs : ClientOf(r)' /\ NetOf(r)') /\ HistInv'
<1>1. /\ TypeInv /\ OnceInv /\ HistInv /\ (\A r \in Reqs : ClientOf(r) /\ NetOf(r))
      /\ "client" \in Peers /\ "server" \in Peers
      /\ live \in [Peers -> [Reqs -> {Null} \cup Chan]]
      /\ made \in [Peers -> [Reqs -> 0..MaxGen]]
  BY Zenon DEF ReleaseInv, TypeInv, Peers
<1>2. UNCHANGED <<pipe, net, posted, flushed, heard, overtook, unheard, dups>>
  BY <1>1, ClientObeys, Zenon
<1>3. PICK r \in Reqs : Connected(r) \/ Freeing("client", r, 1)
  BY <1>1, ClientObeys, Zenon
<1>4. CASE Connected(r)
  <2>0. /\ Leaves(local["client"], local'["client"], ConnectC(r))
        /\ made' = [made EXCEPT !["client"][r] = @ + 1]
        /\ live' = [live EXCEPT !["client"][r] = Channel("client", made'["client"][r])]
        /\ UNCHANGED <<stale, twice>>
    BY <1>4, Zenon DEF Connected, Obeys
  <2>1. made["client"][r] = 0
    BY <1>1, <2>0, Zenon DEF OnceInv, OnceOf, Leaves
  <2>2. /\ made'["client"][r] = 1
        /\ \A q \in Reqs : q # r => made'["client"][q] = made["client"][q]
        /\ \A q \in Reqs : made'["server"][q] = made["server"][q]
    BY <1>1, <2>0, <2>1
  <2> DEFINE u == Channel("client", 1)
  <2>3. u \in Chan /\ u # Null /\ u.gen = 1 /\ ~u.in /\ live' = [live EXCEPT !["client"][r] = u]
    <3>1. 1 \in Gens
      BY ConnectAssumption DEF Gens
    <3> QED BY <2>0, <2>2, <3>1, NewChannel, ChanNotNull, Zenon
  <2> HIDE DEF u
  <2>4. /\ live'["client"][r] = u
        /\ \A q \in Reqs : q # r => live'["client"][q] = live["client"][q]
    BY <1>1, <2>3, PutChannel
  <2>5. ASSUME NEW q \in Reqs PROVE ClientOf(q)' /\ NetOf(q)'
    <3>1. ClientOf(q) /\ NetOf(q)
      BY <1>1, Zenon
    <3>2. /\ In(local'["client"], FlushC(q, 1)) <=> In(local["client"], FlushC(q, 1))
          /\ Once(local["client"], FlushC(q, 1)) => Once(local'["client"], FlushC(q, 1))
      BY <2>0, CommandsDiffer, Zenon DEF Leaves
    <3>3. CASE q = r
      <4>1. ClientOf(q)'
        BY <1>2, <2>1, <2>2, <2>3, <2>4, <3>1, <3>2, <3>3, ZenonT(30) DEF ClientOf
      <4>2. NetOf(q)'
        BY <1>2, <2>1, <2>2, <3>1, <3>3, Zenon DEF NetOf
      <4> QED BY <4>1, <4>2, Zenon
    <3>4. CASE q # r
      <4>1. ClientOf(q)'
        BY <1>2, <2>2, <2>4, <3>1, <3>2, <3>4, ClientKept, Zenon
      <4>2. NetOf(q)'
        BY <1>2, <2>2, <3>1, <3>4, Zenon DEF NetOf
      <4> QED BY <4>1, <4>2, Zenon
    <3> QED BY <3>3, <3>4, Zenon
  <2> QED BY <1>1, <1>2, <2>0, <2>5, Zenon DEF HistInv
<1>5. CASE Freeing("client", r, 1)
  <2>0. /\ Leaves(local["client"], local'["client"], FlushC(r, 1))
        /\ live' = IF IsLive("client", r, 1)
                   THEN [live EXCEPT !["client"][r] = Null] ELSE live
        /\ twice' = (twice \/ ~IsLive("client", r, 1))
        /\ UNCHANGED <<made, stale>>
    BY <1>5, Zenon DEF Freeing, Obeys
  <2>1. In(local["client"], FlushC(r, 1))
    BY <2>0, Zenon DEF Leaves
  <2>2. /\ live["client"][r] # Null /\ live["client"][r].in
        /\ Once(local["client"], FlushC(r, 1)) /\ ~In(pipe["client"], ResF(r))
        /\ <<r, 1>> \in flushed["client"]
    BY <1>1, <2>1, Zenon DEF ClientOf
  <2>3. IsLive("client", r, 1)
    BY <1>1, <2>2 DEF OnceInv, OnceOf, IsLive
  <2>4. /\ live'["client"][r] = Null
        /\ \A q \in Reqs : q # r => live'["client"][q] = live["client"][q]
    BY <1>1, <2>0, <2>3, PutChannel
  <2>5. ASSUME NEW q \in Reqs PROVE ClientOf(q)' /\ NetOf(q)'
    <3>1. ClientOf(q) /\ NetOf(q)
      BY <1>1, Zenon
    <3>2. CASE q = r
      <4>1. ~In(local'["client"], FlushC(r, 1))
        BY <2>0, <2>2, Zenon DEF Leaves
      <4>2. ClientOf(q)'
        BY <1>2, <2>0, <2>2, <2>4, <3>1, <3>2, <4>1, ZenonT(30) DEF ClientOf
      <4> QED BY <1>2, <2>0, <3>1, <4>2, Zenon DEF NetOf
    <3>3. CASE q # r
      <4>1. /\ In(local'["client"], FlushC(q, 1)) <=> In(local["client"], FlushC(q, 1))
            /\ Once(local["client"], FlushC(q, 1)) => Once(local'["client"], FlushC(q, 1))
        BY <2>0, <3>3, CommandsDiffer DEF Leaves
      <4>2. ClientOf(q)'
        BY <1>2, <2>0, <2>4, <3>1, <3>3, <4>1, ClientKept, Zenon
      <4> QED BY <1>2, <2>0, <3>1, <4>2, Zenon DEF NetOf
    <3> QED BY <3>2, <3>3, Zenon
  <2>6. twice' = twice
    BY <1>1, <2>0, <2>3, Zenon DEF TypeInv
  <2> QED BY <1>1, <1>2, <2>0, <2>5, <2>6 DEF HistInv
<1> QED BY <1>3, <1>4, <1>5, Zenon

\* Traffic about requests that are connected.
LEMMA NetKept ==
  ASSUME NEW p \in Peers, NEW x, Carries(p, x), NEW r \in Reqs, NetOf(r),
         made'["client"][r] = made["client"][r],
         made'["server"][r] > 0 => made["client"][r] = 1,
         r \in heard => r \in heard',
         \A t \in {"REQ", "RES", "ACK"} : [type |-> t, r |-> r] \in x => made["client"][r] = 1,
         p = "client" /\ [type |-> "ACK", r |-> r] \in x => r \in heard'
  PROVE  NetOf(r)'
<1>1. /\ "client" \in Peers /\ "server" \in Peers
      /\ \A q \in Peers : net'[q] \subseteq net[q] \cup x
      /\ p = "client" \/ net'["server"] \subseteq net["server"]
  BY Zenon DEF Carries, Other, Peers
<1>2. [type |-> "ACK", r |-> r] \in net'["server"] => r \in heard'
  BY <1>1, Zenon DEF NetOf
<1> QED BY <1>1, <1>2, Zenon DEF NetOf

\* And when nothing is sent.
LEMMA NetLess ==
  ASSUME NEW p \in Peers, Carries(p, {}), NEW r \in Reqs, NetOf(r),
         made'["client"][r] = made["client"][r], made'["server"][r] = made["server"][r],
         r \in heard => r \in heard'
  PROVE  NetOf(r)'
<1>1. made'["server"][r] > 0 => made["client"][r] = 1
  BY Zenon DEF NetOf
<1>2. \A y : y \notin {}
  OBVIOUS
<1> QED BY <1>1, <1>2, NetKept, Zenon

\* A client takes the RES once, on a channel that is not flushed, and answers it
\* with an ACK; without a channel it does so for a RES it took before.
LEMMA ClientHearKeeps ==
  ASSUME ReleaseInv, NEW d \in Datagrams, NEW again \in BOOLEAN, Hear("client", d, again)
  PROVE  (\A r \in Reqs : ClientOf(r)' /\ NetOf(r)') /\ HistInv'
<1>1. /\ TypeInv /\ OnceInv /\ HistInv /\ (\A r \in Reqs : ClientOf(r) /\ NetOf(r))
      /\ "client" \in Peers /\ "server" \in Peers
      /\ live \in [Peers -> [Reqs -> {Null} \cup Chan]]
  BY Zenon DEF ReleaseInv, TypeInv, Peers
<1>2. UNCHANGED <<made, local, posted, flushed, twice, stale>>
  BY <1>1, ClientHears, Zenon
<1>7. PICK r \in Reqs :
        \/ /\ Carries("client", {}) /\ UNCHANGED <<heard, overtook, unheard>>
           /\ UNCHANGED <<live, pipe>> \/ AckTaken("client", r, ReqBackF(r))
        \/ /\ [type |-> "RES", r |-> r] \in net["client"]
           /\ Carries("client", {[type |-> "ACK", r |-> r]})
           /\ ResAgain(r) \/ ResTaken(r)
  BY <1>1, ClientHears, Zenon
<1> DEFINE c == live["client"][r]
<1>3. CASE /\ Carries("client", {}) /\ UNCHANGED <<heard, overtook, unheard>>
           /\ UNCHANGED <<live, pipe>>
  <2>1. ASSUME NEW q \in Reqs PROVE ClientOf(q)' /\ NetOf(q)'
    <3>1. ClientOf(q)'
      BY <1>1, <1>2, <1>3, ClientKept, Zenon
    <3>3. NetOf(q)'
      BY <1>1, <1>2, <1>3, NetLess, Zenon
    <3> QED BY <3>1, <3>3, Zenon
  <2> QED BY <1>1, <1>2, <1>3, <2>1, Zenon DEF HistInv
<1>4. CASE /\ Carries("client", {}) /\ UNCHANGED <<heard, overtook, unheard>>
           /\ AckTaken("client", r, ReqBackF(r))
  <2>0. /\ c \in Chan /\ c.out = "sent" /\ Becomes("client", r, "acked", c.in)
        /\ Joins(pipe["client"], pipe'["client"], ReqBackF(r))
    BY <1>4, Zenon DEF AckTaken, Reports
  <2>1. ASSUME NEW q \in Reqs PROVE ClientOf(q)' /\ NetOf(q)'
    <3>1. ClientOf(q) /\ NetOf(q)
      BY <1>1, Zenon
    <3>2. NetOf(q)'
      BY <1>1, <1>2, <1>4, <3>1, NetLess, Zenon
    <3>4. CASE q # r
      <4>1. live'["client"][q] = live["client"][q]
        BY <1>1, <2>0, <3>4, Zenon DEF Becomes
      <4>2. /\ \A e \in {LateF(q, 1), ResF(q), ReqBackF(q)} :
                 In(pipe'["client"], e) <=> In(pipe["client"], e)
            /\ Once(pipe["client"], ResF(q)) => Once(pipe'["client"], ResF(q))
            /\ Before(pipe["client"], ReqBackF(q), ResF(q)) =>
                 Before(pipe'["client"], ReqBackF(q), ResF(q))
        BY <2>0, <3>4, FramesDiffer, Zenon DEF Joins
      <4>3. ClientOf(q)'
        BY <1>2, <1>4, <3>1, <4>1, <4>2, ClientKept, Zenon
      <4> QED BY <3>2, <4>3, Zenon
    <3>5. CASE q = r
      <4>1. /\ live'["client"][r] # Null /\ live'["client"][r].out = "acked"
            /\ live'["client"][r].in <=> c.in
        BY <2>0, ChanNotNull, Zenon DEF Becomes
      <4>2. c # Null /\ made["client"][r] = 1
        BY <1>1, <2>0, ChanNotNull, Zenon DEF OnceInv, OnceOf
      <4>3. /\ \A e \in {LateF(r, 1), ResF(r)} :
                 In(pipe'["client"], e) <=> In(pipe["client"], e)
            /\ Once(pipe["client"], ResF(r)) => Once(pipe'["client"], ResF(r))
        BY <2>0, FramesDiffer, Zenon DEF Joins
      <4>4. r \notin overtook =>
              ~c.in /\ <<r, 1>> \notin flushed["client"] /\ ~In(pipe["client"], ResF(r))
        BY <2>0, <3>1, <3>5, <4>2, Zenon DEF ClientOf
      <4>5. r \notin overtook => Before(pipe'["client"], ReqBackF(r), ResF(r))
        BY <4>3, <4>4, AbsentOnce, Zenon
      <4>6. made'["client"][r] # 0 /\ UNCHANGED <<local, flushed, heard, overtook>>
        BY <1>2, <1>4, <4>2
      <4>7. ClientOf(q)'
        BY <3>1, <3>5, <4>1, <4>2, <4>3, <4>4, <4>5, <4>6, ZenonT(30) DEF ClientOf
      <4> QED BY <3>2, <4>7, Zenon
    <3> QED BY <3>4, <3>5, Zenon
  <2> QED BY <1>1, <1>2, <1>4, <2>1, Zenon DEF HistInv
<1>5. CASE /\ [type |-> "RES", r |-> r] \in net["client"]
           /\ Carries("client", {[type |-> "ACK", r |-> r]}) /\ ResAgain(r)
  <2>0. /\ c = Null \/ (c \in Chan /\ c.in)
        /\ UNCHANGED <<live, heard, overtook, pipe>>
        /\ r \in heard \/ c # Null => unheard' = unheard
    BY <1>5, Zenon DEF ResAgain
  <2>1. made["client"][r] = 1
    BY <1>1, <1>5, Zenon DEF NetOf
  <2>2. r \in heard
    BY <1>1, <2>0, <2>1, ChanNotNull, Zenon DEF ClientOf
  <2>3. ASSUME NEW q \in Reqs PROVE ClientOf(q)' /\ NetOf(q)'
    <3>1. ClientOf(q)'
      BY <1>1, <1>2, <2>0, ClientKept, Zenon
    <3>2. NetOf(q) /\ (made'["server"][q] > 0 => made["client"][q] = 1)
      BY <1>1, <1>2, Zenon DEF NetOf
    <3>3. \A t \in {"REQ", "RES", "ACK"} :
            [type |-> t, r |-> q] \in {[type |-> "ACK", r |-> r]} => q = r
      OBVIOUS
    <3>4. NetOf(q)'
      BY <1>1, <1>2, <1>5, <2>0, <2>1, <2>2, <3>2, <3>3, NetKept, Zenon
    <3> QED BY <3>1, <3>4, Zenon
  <2> QED BY <1>1, <1>2, <2>0, <2>2, <2>3, Zenon DEF HistInv
<1>6. CASE /\ [type |-> "RES", r |-> r] \in net["client"]
           /\ Carries("client", {[type |-> "ACK", r |-> r]}) /\ ResTaken(r)
  <2>0. /\ c \in Chan /\ ~c.in /\ Becomes("client", r, c.out, TRUE)
        /\ heard' = heard \cup {r}
        /\ overtook' = IF c.out = "acked" THEN overtook ELSE overtook \cup {r}
        /\ Joins(pipe["client"], pipe'["client"], ResF(r)) /\ UNCHANGED unheard
    BY <1>6, Zenon DEF ResTaken, Reports
  <2>1. c # Null /\ made["client"][r] = 1
    BY <1>1, <2>0, ChanNotNull, Zenon DEF OnceInv, OnceOf
  <2>2. ASSUME NEW q \in Reqs PROVE ClientOf(q)' /\ NetOf(q)'
    <3>1. ClientOf(q) /\ NetOf(q) /\ (made'["server"][q] > 0 => made["client"][q] = 1)
      BY <1>1, <1>2, Zenon DEF NetOf
    <3>2. \A t \in {"REQ", "RES", "ACK"} :
            [type |-> t, r |-> q] \in {[type |-> "ACK", r |-> r]} => q = r
      OBVIOUS
    <3>3. NetOf(q)'
      BY <1>1, <1>2, <1>6, <2>0, <2>1, <3>1, <3>2, NetKept, Zenon
    <3>5. CASE q # r
      <4>1. live'["client"][q] = live["client"][q]
        BY <1>1, <2>0, <3>5, Zenon DEF Becomes
      <4>2. /\ \A e \in {LateF(q, 1), ResF(q), ReqBackF(q)} :
                 In(pipe'["client"], e) <=> In(pipe["client"], e)
            /\ Once(pipe["client"], ResF(q)) => Once(pipe'["client"], ResF(q))
            /\ Before(pipe["client"], ReqBackF(q), ResF(q)) =>
                 Before(pipe'["client"], ReqBackF(q), ResF(q))
        BY <2>0, <3>5, FramesDiffer, Zenon DEF Joins
      <4>3. (q \in heard' <=> q \in heard) /\ (q \in overtook => q \in overtook')
        BY <2>0, <3>5, Zenon
      <4>4. ClientOf(q)'
        BY <1>2, <3>1, <4>1, <4>2, <4>3, ClientKept, ZenonT(30)
      <4> QED BY <3>3, <4>4, Zenon
    <3>6. CASE q = r
      <4>1. /\ live'["client"][r] # Null /\ live'["client"][r].in
            /\ live'["client"][r].out = c.out
        BY <2>0, ChanNotNull, Zenon DEF Becomes
      <4>2. /\ ~In(pipe["client"], ResF(r)) /\ ~In(local["client"], FlushC(r, 1))
            /\ <<r, 1>> \notin flushed["client"]
        BY <2>0, <2>1, <3>1, <3>6, Zenon DEF ClientOf
      <4>3. /\ ~In(pipe'["client"], LateF(r, 1))
            /\ In(pipe'["client"], ReqBackF(r)) => In(pipe["client"], ReqBackF(r))
            /\ In(pipe'["client"], ResF(r)) /\ Once(pipe'["client"], ResF(r))
            /\ Before(pipe'["client"], ReqBackF(r), ResF(r))
        BY <2>0, <3>1, <3>6, <4>2, FramesDiffer, AbsentOnce, ZenonT(30) DEF Joins, ClientOf
      <4>4. /\ (r \notin overtook' => c.out = "acked" /\ r \notin overtook) /\ r \in heard'
            /\ made'["client"][r] # 0 /\ UNCHANGED <<local, flushed>>
        BY <1>2, <2>0, <2>1
      <4>5. ClientOf(q)'
        BY <2>1, <3>1, <3>6, <4>1, <4>2, <4>3, <4>4, ZenonT(30) DEF ClientOf
      <4> QED BY <3>3, <4>5, Zenon
    <3> QED BY <3>5, <3>6, Zenon
  <2>3. overtook # {} => overtook' # {}
    BY <2>0, Zenon
  <2> QED BY <1>1, <1>2, <2>0, <2>2, <2>3, Zenon DEF HistInv
<1> QED BY <1>3, <1>4, <1>5, <1>6, <1>7, Zenon

\* The thread of a server answers a request once and flushes the channel once,
\* while it is live.
LEMMA ServerWorkKeeps ==
  ASSUME ReleaseInv, Work("server")
  PROVE  (\A r \in Reqs : ServerOf(r)') /\ HistInv'
<1>1. /\ TypeInv /\ HistInv /\ (\A r \in Reqs : ServerOf(r))
      /\ "server" \in Peers /\ flushed \in [Peers -> SUBSET (Reqs \X Gens)]
  BY Zenon DEF ReleaseInv, TypeInv, Peers
<1>2. UNCHANGED <<live, made, net, posted, heard, overtook, unheard, dups>>
  BY <1>1, ServerWorks, Zenon
<1>3. PICK r \in Reqs, g \in Gens :
        \/ Answering(r, g)
        \/ \E f \in {ResBackF(r, g), LateF(r, g)} : Ending("server", f, r, g)
  BY <1>1, ServerWorks, Zenon
<1>4. live["server"][r] # Null /\ g = made["server"][r] => IsLive("server", r, g)
  BY <1>1 DEF ServerOf, IsLive, Gens
<1>5. CASE Answering(r, g)
  <2>0. /\ local' = local \/ Tells("server", RespondC(r, g))
        /\ stale' = (stale \/ ~IsLive("server", r, g)) /\ UNCHANGED <<flushed, twice>>
    BY <1>5, Zenon DEF Answering, Looks
  <2>1. Leaves(pipe["server"], pipe'["server"], ReqF(r, g))
    BY <1>5, Zenon DEF Answering, Handles
  <2>2. /\ live["server"][r] # Null /\ g = made["server"][r]
        /\ live["server"][r].out = "none" /\ Once(pipe["server"], ReqF(r, g))
        /\ ~In(local["server"], RespondC(r, g))
    BY <1>1, <2>1, Zenon DEF ServerOf, Leaves
  <2>3. ~In(pipe'["server"], ReqF(r, g))
    BY <2>1, <2>2, Zenon DEF Leaves
  <2>4. ASSUME NEW q \in Reqs PROVE ServerOf(q)'
    <3>1. ServerOf(q)
      BY <1>1, Zenon
    <3>2. \A h \in Gens :
            /\ In(pipe'["server"], LateF(q, h)) <=> In(pipe["server"], LateF(q, h))
            /\ In(pipe'["server"], ReqF(q, h)) => In(pipe["server"], ReqF(q, h))
            /\ In(pipe'["server"], ResBackF(q, h)) <=> In(pipe["server"], ResBackF(q, h))
            /\ Once(pipe["server"], ReqF(q, h)) => Once(pipe'["server"], ReqF(q, h))
            /\ Once(pipe["server"], ResBackF(q, h)) => Once(pipe'["server"], ResBackF(q, h))
      BY <2>1, FramesDiffer, Zenon DEF Leaves
    <3>3. CASE local' = local
      BY <1>2, <2>0, <3>1, <3>2, <3>3, ZenonT(30) DEF ServerOf
    <3>4. CASE Tells("server", RespondC(r, g))
      <4>1. Joins(local["server"], local'["server"], RespondC(r, g))
        BY <3>4, Zenon DEF Tells
      <4>2. \A h \in Gens :
              /\ In(local'["server"], FlushC(q, h)) <=> In(local["server"], FlushC(q, h))
              /\ Once(local["server"], FlushC(q, h)) => Once(local'["server"], FlushC(q, h))
        BY <4>1, CommandsDiffer DEF Joins
      <4>3. \A h \in Gens :
              /\ In(local'["server"], RespondC(q, h)) =>
                   In(local["server"], RespondC(q, h)) \/ (q = r /\ h = g)
              /\ Once(local["server"], RespondC(q, h)) => Once(local'["server"], RespondC(q, h))
        BY <2>2, <4>1, CommandsDiffer DEF Joins
      <4>4. Once(local'["server"], RespondC(r, g))
        BY <2>2, <4>1, AbsentOnce, Zenon DEF Joins
      <4> QED BY <1>2, <2>0, <2>2, <2>3, <3>1, <3>2, <4>2, <4>3, <4>4, ZenonT(30) DEF ServerOf
    <3> QED BY <2>0, <3>3, <3>4, Zenon
  <2>5. stale' = stale
    BY <1>1, <1>4, <2>0, <2>2, Zenon DEF TypeInv
  <2> QED BY <1>1, <1>2, <2>0, <2>4, <2>5 DEF HistInv
<1>6. ASSUME NEW f \in {ResBackF(r, g), LateF(r, g)}, Ending("server", f, r, g)
      PROVE  (\A q \in Reqs : ServerOf(q)') /\ HistInv'
  <2>0. /\ Handles("server", f) /\ Flushes("server", r, g)
        /\ stale' = (stale \/ ~IsLive("server", r, g))
    BY <1>6, Zenon DEF Ending, Looks
  <2>1. f = ResBackF(r, g)
    BY <1>1, <1>6, <2>0, Zenon DEF ServerOf, Handles, Leaves
  <2>2. /\ Leaves(pipe["server"], pipe'["server"], ResBackF(r, g))
        /\ Joins(local["server"], local'["server"], FlushC(r, g))
    BY <2>0, <2>1, Zenon DEF Handles, Flushes, Tells
  <2>3. /\ live["server"][r] # Null /\ g = made["server"][r]
        /\ live["server"][r].out = "acked" /\ Once(pipe["server"], ResBackF(r, g))
        /\ <<r, g>> \notin flushed["server"] /\ ~In(local["server"], FlushC(r, g))
    BY <1>1, <2>2, Zenon DEF ServerOf, Leaves
  <2>4. ~In(pipe'["server"], ResBackF(r, g)) /\ g <= made["server"][r]
    BY <2>2, <2>3 DEF Leaves, Gens
  <2>5. \A q \in Reqs, h \in Gens :
          <<q, h>> \in flushed'["server"] <=> <<q, h>> \in flushed["server"] \/ (q = r /\ h = g)
    BY <1>1, <2>0, Zenon DEF Flushes
  <2>6. ASSUME NEW q \in Reqs PROVE ServerOf(q)'
    <3>1. ServerOf(q)
      BY <1>1, Zenon
    <3>2. \A h \in Gens :
            /\ In(pipe'["server"], LateF(q, h)) <=> In(pipe["server"], LateF(q, h))
            /\ In(pipe'["server"], ReqF(q, h)) <=> In(pipe["server"], ReqF(q, h))
            /\ In(pipe'["server"], ResBackF(q, h)) => In(pipe["server"], ResBackF(q, h))
            /\ Once(pipe["server"], ReqF(q, h)) => Once(pipe'["server"], ReqF(q, h))
            /\ Once(pipe["server"], ResBackF(q, h)) => Once(pipe'["server"], ResBackF(q, h))
      BY <2>2, FramesDiffer DEF Leaves
    <3>3. \A h \in Gens :
            /\ In(local'["server"], RespondC(q, h)) <=> In(local["server"], RespondC(q, h))
            /\ Once(local["server"], RespondC(q, h)) => Once(local'["server"], RespondC(q, h))
      BY <2>2, CommandsDiffer DEF Joins
    <3>4. \A h \in Gens :
            /\ In(local'["server"], FlushC(q, h)) <=>
                 In(local["server"], FlushC(q, h)) \/ (q = r /\ h = g)
            /\ Once(local["server"], FlushC(q, h)) => Once(local'["server"], FlushC(q, h))
      BY <2>2, <2>3, CommandsDiffer DEF Joins
    <3>5. Once(local'["server"], FlushC(r, g))
      BY <2>2, <2>3, AbsentOnce, Zenon DEF Joins
    <3> QED BY <1>2, <2>3, <2>4, <2>5, <3>1, <3>2, <3>3, <3>4, <3>5, ZenonT(30) DEF ServerOf
  <2>7. twice' = twice /\ stale' = stale
    BY <1>1, <1>4, <2>0, <2>3, Zenon DEF Flushes, TypeInv
  <2> QED BY <1>1, <1>2, <2>6, <2>7, Zenon DEF HistInv
<1> QED BY <1>3, <1>5, <1>6, Zenon

\* The messenger of a server answers on, and frees, a channel that is live.
LEMMA ServerLocalKeeps ==
  ASSUME ReleaseInv, Local("server")
  PROVE  /\ (\A r \in Reqs : ServerOf(r)') /\ HistInv'
         /\ \A q \in Reqs : live'["client"][q] = live["client"][q]
<1>1. /\ TypeInv /\ HistInv /\ (\A r \in Reqs : ServerOf(r))
      /\ "server" \in Peers /\ "client" \in Peers
      /\ live \in [Peers -> [Reqs -> {Null} \cup Chan]]
  BY Zenon DEF ReleaseInv, TypeInv, Peers
<1>2. UNCHANGED <<pipe, net, posted, flushed, heard, overtook, unheard, dups, made>>
  BY <1>1, ServerObeys, Zenon DEF Responding, Freeing
<1>3. PICK r \in Reqs, g \in Gens : Responding(r, g) \/ Freeing("server", r, g)
  BY <1>1, ServerObeys, Zenon
<1>4. live["server"][r] # Null /\ g = made["server"][r] => IsLive("server", r, g)
  BY <1>1 DEF ServerOf, IsLive, Gens
<1>5. CASE Responding(r, g)
  <2>0. /\ live' = IF IsLive("server", r, g)
                   THEN [live EXCEPT !["server"][r].out = "ready"] ELSE live
        /\ stale' = (stale \/ ~IsLive("server", r, g)) /\ UNCHANGED twice
    BY <1>5, Zenon DEF Responding, Looks
  <2>1. Leaves(local["server"], local'["server"], RespondC(r, g))
    BY <1>5, Zenon DEF Responding, Obeys
  <2>2. /\ live["server"][r] # Null /\ g = made["server"][r]
        /\ live["server"][r].out = "none" /\ Once(local["server"], RespondC(r, g))
    BY <1>1, <2>1, Zenon DEF ServerOf, Leaves
  <2>3. ~In(local'["server"], RespondC(r, g)) /\ IsLive("server", r, g)
    BY <1>4, <2>1, <2>2, Zenon DEF Leaves
  <2> DEFINE u == [live["server"][r] EXCEPT !.out = "ready"]
  <2>4. u \in Chan /\ u.out = "ready" /\ u.gen = live["server"][r].gen
    <3>1. live["server"][r] \in Chan
      BY <1>1, <2>2, Zenon
    <3> QED BY <3>1, ChanUpdates, Zenon
  <2>5. live' = [live EXCEPT !["server"][r] = u]
    BY <1>1, <2>0, <2>3, Zenon
  <2> HIDE DEF u
  <2>6. /\ live'["server"][r] = u
        /\ \A q \in Reqs : q # r => live'["server"][q] = live["server"][q]
        /\ \A q \in Reqs : live'["client"][q] = live["client"][q]
    BY <1>1, <2>4, <2>5, PutChannel
  <2>7. ASSUME NEW q \in Reqs PROVE ServerOf(q)'
    <3>1. ServerOf(q)
      BY <1>1, Zenon
    <3>2. \A h \in Gens :
            /\ In(local'["server"], FlushC(q, h)) <=> In(local["server"], FlushC(q, h))
            /\ Once(local["server"], FlushC(q, h)) => Once(local'["server"], FlushC(q, h))
      BY <2>1, CommandsDiffer DEF Leaves
    <3>3. CASE q = r
      <4>1. /\ ~In(pipe["server"], ReqF(r, g))
            /\ \A h \in Gens : ~In(local'["server"], RespondC(r, h))
        BY <2>1, <2>2, <2>3, <3>1, <3>3, Zenon DEF ServerOf, Leaves
      <4>2. \A h \in Gens : ~In(pipe["server"], ReqF(r, h)) /\ ~In(pipe["server"], ResBackF(r, h))
                            /\ ~In(local["server"], FlushC(r, h))
        BY <2>2, <3>1, <3>3, <4>1, Zenon DEF ServerOf
      <4>3. \A h \in Gens : <<r, h>> \in flushed["server"] => h # made["server"][r]
        BY <2>2, <3>1, <3>3, Zenon DEF ServerOf
      <4>4. u # Null
        BY <2>4, ChanNotNull, Zenon
      <4> QED BY <1>2, <2>2, <2>4, <2>6, <3>1, <3>2, <3>3, <4>1, <4>2, <4>3, <4>4, ZenonT(30)
                 DEF ServerOf
    <3>4. CASE q # r
      <4>1. \A h \in Gens :
              /\ In(local'["server"], RespondC(q, h)) <=> In(local["server"], RespondC(q, h))
              /\ Once(local["server"], RespondC(q, h)) => Once(local'["server"], RespondC(q, h))
        BY <2>1, <3>4, CommandsDiffer DEF Leaves
      <4> QED BY <1>2, <2>6, <3>1, <3>2, <3>4, <4>1, ServerKept, Zenon
    <3> QED BY <3>3, <3>4, Zenon
  <2>8. stale' = stale
    BY <1>1, <2>0, <2>3, Zenon DEF TypeInv
  <2> QED BY <1>1, <1>2, <2>0, <2>6, <2>7, <2>8 DEF HistInv
<1>6. CASE Freeing("server", r, g)
  <2>0. /\ live' = IF IsLive("server", r, g)
                   THEN [live EXCEPT !["server"][r] = Null] ELSE live
        /\ twice' = (twice \/ ~IsLive("server", r, g)) /\ UNCHANGED stale
    BY <1>6, Zenon DEF Freeing
  <2>1. Leaves(local["server"], local'["server"], FlushC(r, g))
    BY <1>6, Zenon DEF Freeing, Obeys
  <2>2. /\ live["server"][r] # Null /\ g = made["server"][r]
        /\ live["server"][r].out = "acked" /\ Once(local["server"], FlushC(r, g))
    BY <1>1, <2>1, Zenon DEF ServerOf, Leaves
  <2>3. ~In(local'["server"], FlushC(r, g)) /\ IsLive("server", r, g)
    BY <1>4, <2>1, <2>2, Zenon DEF Leaves
  <2>4. /\ live'["server"][r] = Null
        /\ \A q \in Reqs : q # r => live'["server"][q] = live["server"][q]
        /\ \A q \in Reqs : live'["client"][q] = live["client"][q]
    BY <1>1, <2>0, <2>3, PutChannel
  <2>5. ASSUME NEW q \in Reqs PROVE ServerOf(q)'
    <3>1. ServerOf(q)
      BY <1>1, Zenon
    <3>2. \A h \in Gens :
            /\ In(local'["server"], RespondC(q, h)) <=> In(local["server"], RespondC(q, h))
            /\ Once(local["server"], RespondC(q, h)) => Once(local'["server"], RespondC(q, h))
      BY <2>1, CommandsDiffer DEF Leaves
    <3>3. CASE q = r
      <4>1. \A h \in Gens : /\ ~In(local'["server"], FlushC(r, h))
                            /\ ~In(local["server"], RespondC(r, h))
                            /\ ~In(pipe["server"], ReqF(r, h))
        BY <2>1, <2>2, <2>3, <3>1, <3>3, Zenon DEF ServerOf, Leaves
      <4>2. \A h \in Gens : ~In(pipe["server"], ResBackF(r, h))
        BY <2>1, <2>2, <3>1, <3>3, Zenon DEF ServerOf, Leaves
      <4> QED BY <1>2, <2>4, <3>1, <3>2, <3>3, <4>1, <4>2, ZenonT(30) DEF ServerOf
    <3>4. CASE q # r
      <4>1. \A h \in Gens :
              /\ In(local'["server"], FlushC(q, h)) <=> In(local["server"], FlushC(q, h))
              /\ Once(local["server"], FlushC(q, h)) => Once(local'["server"], FlushC(q, h))
        BY <2>1, <3>4, CommandsDiffer DEF Leaves
      <4> QED BY <1>2, <2>4, <3>1, <3>2, <3>4, <4>1, ServerKept, ZenonT(30)
    <3> QED BY <3>3, <3>4, Zenon
  <2>6. twice' = twice
    BY <1>1, <2>0, <2>3, Zenon DEF TypeInv
  <2> QED BY <1>1, <1>2, <2>0, <2>4, <2>5, <2>6 DEF HistInv
<1> QED BY <1>3, <1>5, <1>6, Zenon

\* A server creates a channel for a REQ when it has none, of a new generation,
\* and is through when the ACK of its RES comes, which the client has taken.
LEMMA ServerHearKeeps ==
  ASSUME ReleaseInv, NEW d \in Datagrams, NEW again \in BOOLEAN, Hear("server", d, again)
  PROVE  /\ \A q \in Reqs : ServerOf(q)' /\ NetOf(q)'
         /\ \A q \in Reqs : /\ live'["client"][q] = live["client"][q]
                            /\ made'["client"][q] = made["client"][q]
<1>1. /\ TypeInv /\ (\A q \in Reqs : ServerOf(q) /\ NetOf(q))
      /\ "client" \in Peers /\ "server" \in Peers
      /\ live \in [Peers -> [Reqs -> {Null} \cup Chan]]
      /\ made \in [Peers -> [Reqs -> 0..MaxGen]]
  BY Zenon DEF ReleaseInv, TypeInv, Peers
<1>2. UNCHANGED <<local, posted, flushed, twice, stale, heard, overtook, unheard>>
  BY <1>1, ServerHears, Zenon
<1>8. PICK r \in Reqs :
        \/ /\ [type |-> "ACK", r |-> r] \in net["server"]
           /\ Carries("server", {}) /\ UNCHANGED made
           /\ \/ UNCHANGED <<live, pipe>>
              \/ AckTaken("server", r, ResBackF(r, live["server"][r].gen))
        \/ /\ [type |-> "REQ", r |-> r] \in net["server"]
           /\ Carries("server", {[type |-> "ACK", r |-> r]})
           /\ UNCHANGED <<live, made, pipe>> \/ \E g \in Gens : ReqTaken(r, g)
  BY <1>1, ServerHears, Zenon
<1> DEFINE c == live["server"][r]
<1>3. ASSUME [type |-> "REQ", r |-> r] \in net["server"],
             Carries("server", {[type |-> "ACK", r |-> r]}),
             \A q \in Reqs : /\ made'["client"][q] = made["client"][q]
                             /\ q # r => made'["server"][q] = made["server"][q]
      PROVE  \A q \in Reqs : NetOf(q)'
  <2>1. made["client"][r] = 1
    BY <1>1, <1>3, Zenon DEF NetOf
  <2>2. ASSUME NEW q \in Reqs PROVE NetOf(q)'
    <3>1. \A t \in {"REQ", "RES", "ACK"} :
            [type |-> t, r |-> q] \in {[type |-> "ACK", r |-> r]} => q = r
      OBVIOUS
    <3>2. NetOf(q) /\ (made'["server"][q] > 0 => made["client"][q] = 1)
      BY <1>1, <1>3, <2>1, Zenon DEF NetOf
    <3> QED BY <1>1, <1>2, <1>3, <2>1, <3>1, <3>2, NetKept, Zenon
  <2> QED BY <2>2, Zenon
<1>4. CASE Carries("server", {}) /\ UNCHANGED <<made, live, pipe>>
  <2>1. ASSUME NEW q \in Reqs PROVE ServerOf(q)' /\ NetOf(q)'
    <3>1. ServerOf(q)'
      BY <1>1, <1>2, <1>4, ServerKept, Zenon
    <3>2. NetOf(q)'
      BY <1>1, <1>2, <1>4, NetLess, Zenon
    <3> QED BY <3>1, <3>2, Zenon
  <2> QED BY <1>4, <2>1, Zenon
<1>5. CASE /\ [type |-> "ACK", r |-> r] \in net["server"]
           /\ Carries("server", {}) /\ UNCHANGED made
           /\ AckTaken("server", r, ResBackF(r, c.gen))
  <2>0. /\ c \in Chan /\ c.out = "sent" /\ Becomes("server", r, "acked", c.in)
        /\ Joins(pipe["server"], pipe'["server"], ResBackF(r, c.gen))
    BY <1>5, Zenon DEF AckTaken, Reports
  <2>1. r \in heard /\ c # Null
    BY <1>1, <1>5, <2>0, ChanNotNull, Zenon DEF NetOf
  <2>2. \A q \in Reqs : live'["client"][q] = live["client"][q]
    BY <1>1, <2>0, Zenon DEF Becomes
  <2> DEFINE g == c.gen
  <2>3. /\ g \in Gens /\ g = made["server"][r]
        /\ Joins(pipe["server"], pipe'["server"], ResBackF(r, g))
    BY <1>1, <2>0, <2>1, ChanNotNull, Zenon DEF ServerOf
  <2>4. /\ live'["server"][r] # Null /\ live'["server"][r].out = "acked"
        /\ live'["server"][r].gen = g
    BY <2>0, ChanNotNull, Zenon DEF Becomes
  <2> HIDE DEF g
  <2>5. ASSUME NEW q \in Reqs PROVE ServerOf(q)' /\ NetOf(q)'
    <3>1. ServerOf(q) /\ NetOf(q)
      BY <1>1, Zenon
    <3>2. NetOf(q)'
      BY <1>1, <1>2, <1>5, <3>1, NetLess, Zenon
    <3>3. \A h \in Gens :
            /\ In(pipe'["server"], LateF(q, h)) <=> In(pipe["server"], LateF(q, h))
            /\ In(pipe'["server"], ReqF(q, h)) <=> In(pipe["server"], ReqF(q, h))
            /\ Once(pipe["server"], ReqF(q, h)) => Once(pipe'["server"], ReqF(q, h))
      BY <2>3, FramesDiffer DEF Joins
    <3>4. CASE q = r
      <4>1. \A h \in Gens : /\ ~In(pipe["server"], ReqF(r, h))
                            /\ ~In(local["server"], RespondC(r, h))
                            /\ ~In(pipe["server"], ResBackF(r, h))
                            /\ ~In(local["server"], FlushC(r, h))
        BY <2>0, <2>1, <3>1, <3>4, Zenon DEF ServerOf
      <4>2. <<r, g>> \notin flushed["server"]
        BY <2>0, <2>1, <2>3, <3>1, <3>4, ZenonT(30) DEF ServerOf
      <4>3. /\ \A h \in Gens : In(pipe'["server"], ResBackF(r, h)) => h = g
            /\ Once(pipe'["server"], ResBackF(r, g))
        BY <2>3, <4>1, FramesDiffer, AbsentOnce, Zenon DEF Joins
      <4>4. ServerOf(q)'
        BY <1>2, <1>5, <2>1, <2>3, <2>4, <3>1, <3>3, <3>4, <4>1, <4>2, <4>3, ZenonT(30)
           DEF ServerOf
      <4> QED BY <3>2, <4>4, Zenon
    <3>5. CASE q # r
      <4>1. live'["server"][q] = live["server"][q]
        BY <1>1, <2>0, <3>5, Zenon DEF Becomes
      <4>2. \A h \in Gens :
              /\ In(pipe'["server"], ResBackF(q, h)) <=> In(pipe["server"], ResBackF(q, h))
              /\ Once(pipe["server"], ResBackF(q, h)) => Once(pipe'["server"], ResBackF(q, h))
        BY <2>3, <3>5, FramesDiffer DEF Joins
      <4>3. ServerOf(q)'
        BY <1>2, <1>5, <3>1, <3>3, <4>1, <4>2, ZenonT(30) DEF ServerOf
      <4> QED BY <3>2, <4>3, Zenon
    <3> QED BY <3>4, <3>5, Zenon
  <2> QED BY <1>5, <2>2, <2>5, Zenon
<1>6. CASE /\ [type |-> "REQ", r |-> r] \in net["server"]
           /\ Carries("server", {[type |-> "ACK", r |-> r]}) /\ UNCHANGED <<live, made, pipe>>
  <2>1. ASSUME NEW q \in Reqs PROVE ServerOf(q)'
    BY <1>1, <1>2, <1>6, ServerKept, Zenon
  <2> QED BY <1>3, <1>6, <2>1, Zenon
<1>7. ASSUME [type |-> "REQ", r |-> r] \in net["server"],
             Carries("server", {[type |-> "ACK", r |-> r]}), NEW g \in Gens, ReqTaken(r, g)
      PROVE  /\ \A q \in Reqs : ServerOf(q)' /\ NetOf(q)'
             /\ \A q \in Reqs : /\ live'["client"][q] = live["client"][q]
                                /\ made'["client"][q] = made["client"][q]
  <2>0. /\ c = Null /\ g = made["server"][r] + 1
        /\ made' = [made EXCEPT !["server"][r] = g]
        /\ live' = [live EXCEPT !["server"][r] = Channel("server", g)]
        /\ Joins(pipe["server"], pipe'["server"], ReqF(r, g))
    BY <1>7, Zenon DEF ReqTaken, Reports
  <2> DEFINE u == Channel("server", g)
  <2>1. /\ u \in Chan /\ u # Null /\ u.gen = g /\ u.out = "none"
        /\ live' = [live EXCEPT !["server"][r] = u]
    BY <2>0, NewChannel, ChanNotNull, Zenon
  <2> HIDE DEF u
  <2>2. /\ live'["server"][r] = u
        /\ \A q \in Reqs : q # r => live'["server"][q] = live["server"][q]
        /\ \A q \in Reqs : live'["client"][q] = live["client"][q]
    BY <1>1, <2>1, PutChannel
  <2>3. /\ made'["server"][r] = g
        /\ \A q \in Reqs : /\ made'["client"][q] = made["client"][q]
                           /\ q # r => made'["server"][q] = made["server"][q]
    BY <1>1, <2>0, Zenon
  <2>5. ASSUME NEW q \in Reqs PROVE ServerOf(q)'
    <3>1. ServerOf(q)
      BY <1>1, Zenon
    <3>2. \A h \in Gens :
            /\ In(pipe'["server"], LateF(q, h)) <=> In(pipe["server"], LateF(q, h))
            /\ In(pipe'["server"], ResBackF(q, h)) <=> In(pipe["server"], ResBackF(q, h))
            /\ Once(pipe["server"], ResBackF(q, h)) => Once(pipe'["server"], ResBackF(q, h))
      BY <2>0, FramesDiffer DEF Joins
    <3>3. CASE q = r
      <4>1. \A h \in Gens : /\ ~In(pipe["server"], ReqF(r, h))
                            /\ ~In(local["server"], RespondC(r, h))
                            /\ ~In(pipe["server"], ResBackF(r, h))
                            /\ ~In(local["server"], FlushC(r, h))
        BY <2>0, <3>1, <3>3, Zenon DEF ServerOf
      <4>2. \A h \in Gens : <<r, h>> \in flushed["server"] => h <= g /\ h # g
        <5>1. made["server"][r] \in Nat
          BY <1>1
        <5> QED BY <2>0, <3>1, <3>3, <5>1 DEF ServerOf, Gens
      <4>3. /\ \A h \in Gens : In(pipe'["server"], ReqF(r, h)) => h = g
            /\ Once(pipe'["server"], ReqF(r, g))
        BY <2>0, <4>1, FramesDiffer, AbsentOnce DEF Joins
      <4> QED BY <1>2, <2>1, <2>2, <2>3, <3>1, <3>2, <3>3, <4>1, <4>2, <4>3, ZenonT(30)
                 DEF ServerOf
    <3>4. CASE q # r
      <4>1. \A h \in Gens :
              /\ In(pipe'["server"], ReqF(q, h)) <=> In(pipe["server"], ReqF(q, h))
              /\ Once(pipe["server"], ReqF(q, h)) => Once(pipe'["server"], ReqF(q, h))
        BY <2>0, <3>4, FramesDiffer DEF Joins
      <4> QED BY <1>2, <2>2, <2>3, <3>1, <3>2, <3>4, <4>1, ZenonT(30) DEF ServerOf
    <3> QED BY <3>3, <3>4, Zenon
  <2> QED BY <1>3, <1>7, <2>2, <2>3, <2>5, Zenon
<1> QED BY <1>4, <1>5, <1>6, <1>7, <1>8, Zenon

\* A message on its way is neither through nor to be answered.
LEMMA TransmitKeeps ==
  ASSUME ReleaseInv, NEW p \in Peers, NEW r \in Reqs, Transmit(p, r)
  PROVE  \A q \in Reqs : ClientOf(q)' /\ ServerOf(q)' /\ NetOf(q)'
<1>1. /\ TypeInv /\ OnceInv /\ (\A q \in Reqs : ClientOf(q) /\ ServerOf(q) /\ NetOf(q))
      /\ "client" \in Peers /\ "server" \in Peers
      /\ made \in [Peers -> [Reqs -> 0..MaxGen]]
  BY Zenon DEF ReleaseInv, TypeInv, Peers
<1>2. /\ live[p][r] \in Chan /\ live[p][r].out \in {"ready", "sent"}
      /\ Becomes(p, r, "sent", live[p][r].in)
      /\ Carries(p, {[type |-> OutType(p), r |-> r]})
      /\ UNCHANGED <<made, pipe, local, posted, flushed, twice, stale,
                     heard, overtook, unheard>>
  BY <1>1, Transmits, Zenon
<1>3. live[p][r] # Null /\ live'[p][r] # Null
  BY <1>2, ChanNotNull, Zenon DEF Becomes
<1>4. made["client"][r] = 1
  <2>1. CASE p = "client"
    BY <1>1, <1>3, <2>1, Zenon DEF OnceInv, OnceOf
  <2>2. CASE p = "server"
    <3>1. made["server"][r] > 0
      <4>1. live["server"][r].gen = made["server"][r]
        BY <1>1, <1>3, <2>2, Zenon DEF ServerOf
      <4>2. live["server"][r].gen \in Gens
        BY <1>2, <2>2, ChanNotNull, Zenon
      <4> QED BY <4>1, <4>2 DEF Gens
    <3> QED BY <1>1, <3>1, Zenon DEF NetOf
  <2> QED BY <2>1, <2>2, Zenon DEF Peers
<1>5. ASSUME NEW q \in Reqs PROVE NetOf(q)'
  <2>1. \A t \in {"REQ", "RES", "ACK"} :
          [type |-> t, r |-> q] \in {[type |-> OutType(p), r |-> r]} => q = r /\ t = OutType(p)
    OBVIOUS
  <2>2. OutType(p) # "ACK"
    BY Zenon DEF OutType
  <2>3. NetOf(q) /\ (made'["server"][q] > 0 => made["client"][q] = 1)
    BY <1>1, <1>2, Zenon DEF NetOf
  <2> QED BY <1>2, <1>4, <2>1, <2>2, <2>3, NetKept
<1>6. ASSUME NEW q \in Reqs PROVE ClientOf(q)'
  <2>1. CASE p = "client" /\ q = r
    BY <1>1, <1>2, <1>3, <2>1, Zenon DEF Becomes, ClientOf
  <2>2. CASE ~(p = "client" /\ q = r)
    <3>1. live'["client"][q] = live["client"][q]
      BY <1>1, <1>2, <2>2, Zenon DEF Becomes
    <3> QED BY <1>1, <1>2, <3>1, ClientKept, Zenon
  <2> QED BY <2>1, <2>2, Zenon
<1>7. ASSUME NEW q \in Reqs PROVE ServerOf(q)'
  <2>1. CASE p = "server" /\ q = r
    <3>1. /\ live'["server"][r].gen = live["server"][r].gen /\ live'["server"][r].out = "sent"
          /\ live["server"][r] # Null /\ live'["server"][r] # Null
          /\ live["server"][r].out \in {"ready", "sent"}
      BY <1>2, <1>3, <2>1, Zenon DEF Becomes
    <3> QED BY <1>1, <1>2, <2>1, <3>1, ZenonT(30) DEF ServerOf
  <2>2. CASE ~(p = "server" /\ q = r)
    <3>1. live'["server"][q] = live["server"][q]
      BY <1>1, <1>2, <2>2, Zenon DEF Becomes
    <3> QED BY <1>1, <1>2, <3>1, ServerKept, Zenon
  <2> QED BY <2>1, <2>2, Zenon
<1> QED BY <1>5, <1>6, <1>7, Zenon

\* What a client does to itself leaves the server's end as it is.
LEMMA ServerApart ==
  ASSUME ReleaseInv, NEW r \in Reqs,
         live'["server"][r] = live["server"][r], made'["server"][r] = made["server"][r],
         pipe'["server"] = pipe["server"], local'["server"] = local["server"],
         flushed'["server"] = flushed["server"], heard \subseteq heard'
  PROVE  ServerOf(r)'
  BY ServerKept, Zenon DEF ReleaseInv

\* And what a server does leaves the client's.
LEMMA ClientApart ==
  ASSUME ReleaseInv, NEW r \in Reqs,
         live'["client"][r] = live["client"][r], made'["client"][r] = made["client"][r],
         pipe'["client"] = pipe["client"], local'["client"] = local["client"],
         flushed'["client"] = flushed["client"], heard' = heard, overtook' = overtook
  PROVE  ClientOf(r)'
  BY ClientKept, Zenon DEF ReleaseInv

\* Every step of the two threads of the client keeps all of it.
LEMMA ClientStep ==
  ASSUME ReleaseInv, Work("client") \/ Local("client")
  PROVE  HistInv' /\ \A q \in Reqs : ClientOf(q)' /\ ServerOf(q)' /\ NetOf(q)'
<1>1. /\ TypeInv /\ OnceInv /\ (\A q \in Reqs : NetOf(q))
      /\ "client" \in Peers /\ "server" \in Peers
      /\ live \in [Peers -> [Reqs -> {Null} \cup Chan]]
      /\ made \in [Peers -> [Reqs -> 0..MaxGen]]
      /\ flushed \in [Peers -> SUBSET (Reqs \X Gens)]
  BY Zenon DEF ReleaseInv, TypeInv, Peers
<1>2. CASE Work("client")
  <2>1. UNCHANGED <<live, made, net, heard>>
    BY <1>1, <1>2, ClientWorks, Zenon
  <2>2. /\ pipe'["server"] = pipe["server"] /\ local'["server"] = local["server"]
        /\ flushed'["server"] = flushed["server"]
    BY <1>1, <1>2, ClientWorks, Zenon
       DEF Connecting, ReqThrough, Ending, Handles, Flushes, Tells, Other
  <2>3. ASSUME NEW q \in Reqs PROVE ServerOf(q)'
    BY <2>1, <2>2, ServerApart, Zenon
  <2>4. ASSUME NEW q \in Reqs PROVE NetOf(q)'
    BY <1>1, <2>1, Zenon DEF NetOf
  <2> QED BY <1>2, <2>3, <2>4, ClientWorkKeeps, Zenon
<1>3. CASE Local("client")
  <2>1. UNCHANGED <<pipe, net, flushed, heard>>
    BY <1>1, <1>3, ClientObeys, Zenon
  <2>2. local'["server"] = local["server"]
    BY <1>1, <1>3, ClientObeys, Zenon DEF Connected, Freeing, Obeys, Other
  <2>3. PICK r \in Reqs : /\ made' = made \/ made' = [made EXCEPT !["client"][r] = @ + 1]
                          /\ \/ live' = live \/ live' = [live EXCEPT !["client"][r] = Null]
                             \/ live' = [live EXCEPT !["client"][r] =
                                                Channel("client", made'["client"][r])]
    BY <1>1, <1>3, ClientObeys, Zenon DEF Connected, Freeing
  <2>4. \A q \in Reqs : /\ live'["server"][q] = live["server"][q]
                        /\ made'["server"][q] = made["server"][q]
    BY <1>1, <2>3, Zenon
  <2>5. ASSUME NEW q \in Reqs PROVE ServerOf(q)'
    BY <2>1, <2>2, <2>4, ServerApart, Zenon
  <2> QED BY <1>3, <2>5, ClientLocalKeeps, Zenon
<1> QED BY <1>2, <1>3, Zenon

\* And so does every step of the two threads of the server.
LEMMA ServerStep ==
  ASSUME ReleaseInv, Work("server") \/ Local("server")
  PROVE  HistInv' /\ \A q \in Reqs : ClientOf(q)' /\ ServerOf(q)' /\ NetOf(q)'
<1>1. /\ TypeInv /\ (\A q \in Reqs : NetOf(q))
      /\ "client" \in Peers /\ "server" \in Peers
      /\ flushed \in [Peers -> SUBSET (Reqs \X Gens)]
  BY Zenon DEF ReleaseInv, TypeInv, Peers
<1>2. CASE Work("server")
  <2>1. UNCHANGED <<live, made, net, heard, overtook>>
    BY <1>1, <1>2, ServerWorks, Zenon
  <2>2. /\ pipe'["client"] = pipe["client"] /\ local'["client"] = local["client"]
        /\ flushed'["client"] = flushed["client"]
    BY <1>1, <1>2, ServerWorks, Zenon DEF Answering, Ending, Handles, Flushes, Tells, Other
  <2>3. ASSUME NEW q \in Reqs PROVE ClientOf(q)'
    BY <2>1, <2>2, ClientApart, Zenon
  <2>4. ASSUME NEW q \in Reqs PROVE NetOf(q)'
    BY <1>1, <2>1, Zenon DEF NetOf
  <2> QED BY <1>2, <2>3, <2>4, ServerWorkKeeps, Zenon
<1>3. CASE Local("server")
  <2>1. UNCHANGED <<pipe, net, flushed, heard, overtook, made>>
    BY <1>1, <1>3, ServerObeys, Zenon DEF Responding, Freeing
  <2>2. local'["client"] = local["client"]
    BY <1>1, <1>3, ServerObeys, Zenon DEF Responding, Freeing, Obeys, Other
  <2>3. ASSUME NEW q \in Reqs PROVE ClientOf(q)'
    BY <1>3, <2>1, <2>2, ServerLocalKeeps, ClientApart, Zenon
  <2>4. ASSUME NEW q \in Reqs PROVE NetOf(q)'
    BY <1>1, <2>1, Zenon DEF NetOf
  <2> QED BY <1>3, <2>3, <2>4, ServerLocalKeeps, Zenon
<1> QED BY <1>2, <1>3, Zenon

\* A datagram that is taken keeps all of it.
LEMMA HearStep ==
  ASSUME ReleaseInv, NEW p \in Peers, NEW d \in Datagrams, NEW again \in BOOLEAN,
         Hear(p, d, again)
  PROVE  HistInv' /\ \A q \in Reqs : ClientOf(q)' /\ ServerOf(q)' /\ NetOf(q)'
<1>1. TypeInv /\ OnceInv /\ HistInv /\ "server" \in Peers
  BY Zenon DEF ReleaseInv, Peers
<1>2. CASE p = "client"
  <2>1. UNCHANGED <<made, local, flushed>> /\ heard \subseteq heard'
    BY <1>1, <1>2, ClientHears, Zenon DEF AckTaken, ResTaken, ResAgain
  <2>2. /\ pipe'["server"] = pipe["server"]
        /\ \A q \in Reqs : live'["server"][q] = live["server"][q]
    BY <1>1, <1>2, ClientHears, Zenon
       DEF AckTaken, ResTaken, ResAgain, Reports, Other, Becomes
  <2>3. ASSUME NEW q \in Reqs PROVE ServerOf(q)'
    BY <2>1, <2>2, ServerApart, Zenon
  <2> QED BY <1>2, <2>3, ClientHearKeeps, Zenon
<1>3. CASE p = "server"
  <2>1. UNCHANGED <<local, flushed, twice, stale, heard, overtook, unheard>>
    BY <1>1, <1>3, ServerHears, Zenon
  <2>2. pipe'["client"] = pipe["client"]
    BY <1>1, <1>3, ServerHears, Zenon DEF AckTaken, ReqTaken, Reports, Other
  <2>3. ASSUME NEW q \in Reqs PROVE ClientOf(q)'
    BY <1>3, <2>1, <2>2, ServerHearKeeps, ClientApart, Zenon
  <2>4. HistInv'
    BY <1>1, <2>1, Zenon DEF HistInv
  <2> QED BY <1>3, <2>3, <2>4, ServerHearKeeps, Zenon
<1> QED BY <1>2, <1>3, Zenon DEF Peers

\* Every step keeps the invariant while nothing times out.
LEMMA NextRelease ==
  ASSUME ~MayTimeOut, ReleaseInv, [Next]_vars
  PROVE  ReleaseInv'
<1>1. /\ TypeInv /\ OnceInv /\ HistInv
      /\ \A q \in Reqs : ClientOf(q) /\ ServerOf(q) /\ NetOf(q)
  BY Zenon DEF ReleaseInv
<1>2. TypeInv' /\ OnceInv'
  BY <1>1, NextTypes, Zenon
<1> SUFFICES HistInv' /\ \A q \in Reqs : ClientOf(q)' /\ ServerOf(q)' /\ NetOf(q)'
  BY <1>2, Zenon DEF ReleaseInv
<1>3. ASSUME NEW p \in Peers, Work(p) \/ Local(p)
      PROVE  HistInv' /\ \A q \in Reqs : ClientOf(q)' /\ ServerOf(q)' /\ NetOf(q)'
  BY <1>3, ClientStep, ServerStep, Zenon DEF Peers
<1>4. ASSUME NEW p \in Peers, NEW r \in Reqs, Transmit(p, r)
      PROVE  HistInv' /\ \A q \in Reqs : ClientOf(q)' /\ ServerOf(q)' /\ NetOf(q)'
  <2>1. HistInv'
    BY <1>1, <1>4, Zenon DEF Transmit, HistInv
  <2> QED BY <1>4, <2>1, TransmitKeeps, Zenon
<1>5. ASSUME NEW p \in Peers, NEW r \in Reqs, TimeOut(p, r) PROVE FALSE
  BY <1>5, Zenon DEF TimeOut
<1>6. ASSUME NEW p \in Peers, NEW d \in Datagrams, Lose(p, d)
      PROVE  HistInv' /\ \A q \in Reqs : ClientOf(q)' /\ ServerOf(q)' /\ NetOf(q)'
  <2>1. Carries(p, {})
    BY <1>1, <1>6, Zenon DEF Lose, Carries, TypeInv, Other, Peers
  <2>2. UNCHANGED <<live, made, pipe, local, flushed, twice, stale, heard, overtook, unheard>>
    BY <1>6, Zenon DEF Lose
  <2>3. ASSUME NEW q \in Reqs PROVE ClientOf(q)' /\ ServerOf(q)' /\ NetOf(q)'
    BY <1>1, <2>1, <2>2, ClientApart, ServerApart, NetLess, Zenon
  <2> QED BY <1>1, <2>2, <2>3, Zenon DEF HistInv
<1>7. ASSUME NEW r \in Reqs, Post(r)
      PROVE  HistInv' /\ \A q \in Reqs : ClientOf(q)' /\ ServerOf(q)' /\ NetOf(q)'
  <2>1. /\ Reports("client", PostF(r))
        /\ UNCHANGED <<live, made, local, net, flushed, twice, stale, heard, overtook, unheard>>
    BY <1>1, <1>7, Posts, Zenon
  <2>2. Joins(pipe["client"], pipe'["client"], PostF(r)) /\ pipe'["server"] = pipe["server"]
    BY <2>1, Zenon DEF Reports, Other
  <2>3. ASSUME NEW q \in Reqs PROVE ClientOf(q)' /\ ServerOf(q)' /\ NetOf(q)'
    <3>1. /\ \A e \in {LateF(q, 1), ResF(q), ReqBackF(q)} :
               In(pipe'["client"], e) <=> In(pipe["client"], e)
          /\ Once(pipe["client"], ResF(q)) => Once(pipe'["client"], ResF(q))
          /\ Before(pipe["client"], ReqBackF(q), ResF(q)) =>
               Before(pipe'["client"], ReqBackF(q), ResF(q))
      BY <2>2, FramesDiffer, Zenon DEF Joins
    <3>2. ClientOf(q)'
      BY <1>1, <2>1, <3>1, ClientKept, Zenon
    <3>3. ServerOf(q)'
      BY <2>1, <2>2, ServerApart, Zenon
    <3>4. NetOf(q)'
      BY <1>1, <2>1, Zenon DEF NetOf
    <3> QED BY <3>2, <3>3, <3>4, Zenon
  <2> QED BY <1>1, <2>1, <2>3, Zenon DEF HistInv
<1>8. CASE UNCHANGED vars
  <2>1. UNCHANGED <<live, made, pipe, local, net, flushed, twice, stale, heard, overtook, unheard>>
    BY <1>8, Zenon DEF vars
  <2>2. ASSUME NEW q \in Reqs PROVE ClientOf(q)' /\ ServerOf(q)' /\ NetOf(q)'
    BY <1>1, <2>1, ClientApart, ServerApart, Zenon DEF NetOf
  <2> QED BY <1>1, <2>1, <2>2, Zenon DEF HistInv
<1>9. ASSUME Idle
      PROVE  HistInv' /\ \A q \in Reqs : ClientOf(q)' /\ ServerOf(q)' /\ NetOf(q)'
  BY <1>8, <1>9, Zenon DEF Idle
<1> QED BY <1>3, <1>4, <1>5, <1>6, <1>7, <1>8, <1>9, HearStep, Zenon DEF Next

\* The invariant holds of every execution in which nothing times out.
LEMMA Released ==
  ASSUME ~MayTimeOut
  PROVE  Spec => []ReleaseInv
<1>1. ReleaseInv /\ [Next]_vars => ReleaseInv'
  BY NextRelease, Zenon
<1> QED BY <1>1, InitRelease, PTL DEF Spec

\* xmsger_flush: while nothing times out, no channel is flushed, or freed, a
\* second time, however the network loses, repeats and reorders.
THEOREM FlushesOnce ==
  ASSUME ~MayTimeOut
  PROVE  Spec => []FlushedOnce
<1>1. ReleaseInv => FlushedOnce
  BY Zenon DEF ReleaseInv, HistInv, FlushedOnce
<1> QED BY <1>1, Released, PTL

\* The address of a channel, in a frame of the pipe or in a command, is used
\* after xchannel_free only when a RES overtook the ACK of its REQ.
THEOREM StaleNeedsOvertaking ==
  ASSUME ~MayTimeOut
  PROVE  Spec => []StaleOnlyIfOvertaken
<1>1. ReleaseInv => StaleOnlyIfOvertaken
  BY Zenon DEF ReleaseInv, HistInv, StaleOnlyIfOvertaken
<1> QED BY <1>1, Released, PTL

\* A server whose response is acknowledged knows that the client took it, also
\* when the ACK is the final one of a client without a channel.
THEOREM AckMeansTaken ==
  ASSUME ~MayTimeOut
  PROVE  Spec => []AckedWasHeard
<1>1. ReleaseInv => AckedWasHeard
  BY Zenon DEF ReleaseInv, ServerOf, AckedWasHeard
<1> QED BY <1>1, Released, PTL

\* xchannel_send_final answers only a RES that was taken before.
THEOREM FinalOnlyRepeats ==
  ASSUME ~MayTimeOut
  PROVE  Spec => []FinalForRepeated
<1>1. ReleaseInv => FinalForRepeated
  BY Zenon DEF ReleaseInv, HistInv, FinalForRepeated
<1> QED BY <1>1, Released, PTL

=============================================================================
