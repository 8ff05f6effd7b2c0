----------------------------- MODULE MCXChannel -----------------------------
(* Small instances of XChannel. *)
EXTENDS XChannel

\* The lengths of the messages of each end; BodySize = 2 makes 3 bytes two packets
\* and an empty message one.
Says(a, b) == [e \in Ends |-> IF e = "a" THEN a ELSE b]

\* A request, an empty message and the closing response, on a fresh connection and
\* on one whose serial numbers are about to wrap.
Reply == [lens |-> Says(<<3, 0>>, <<2>>), closing |-> {"b"}, starts |-> {0, 15},
          giveup |-> {}, netcap |-> 2, dup |-> 1, loss |-> 1, fails |-> 0]

\* More packets than the window holds, from one end.
Burst == [lens |-> Says(<<5, 4>>, <<>>), closing |-> {}, starts |-> {15},
          giveup |-> {}, netcap |-> 3, dup |-> 0, loss |-> 1, fails |-> 0]

\* Both ends send at the same time, over a network that duplicates once or with a
\* udp_sendto that fails once, and, in a shorter conversation, with both.
Talk == [lens |-> Says(<<3>>, <<2, 1>>), closing |-> {}, starts |-> {14},
         giveup |-> {}, netcap |-> 2, dup |-> 1, loss |-> 0, fails |-> 0]
TalkFails == [Talk EXCEPT !.dup = 0, !.fails = 1]
TalkShort == [Talk EXCEPT !.lens = Says(<<3>>, <<2>>), !.fails = 1]

\* A short conversation over a network that loses without limit.
Lossy == [lens |-> Says(<<1, 1>>, <<1>>), closing |-> {"b"}, starts |-> {0},
          giveup |-> Ends, netcap |-> 2, dup |-> 0, loss |-> Unbounded, fails |-> 0]

\* Two packets one way, three the other, and one lost.
Cross == [lens |-> Says(<<3>>, <<6>>), closing |-> {}, starts |-> {15},
          giveup |-> {}, netcap |-> 3, dup |-> 0, loss |-> 1, fails |-> 0]

PlansSafe  == {Reply, Burst, Talk, TalkFails, TalkShort}
PlansLive  == {Lossy}
PlansHasty == {Cross}

=============================================================================
