------------------------------- MODULE XPeers -------------------------------
(***************************************************************************)
(* The channels of a messenger of src/xnet/xmsger.c, msger->peers: an AVL  *)
(* tree ordered by the address of the peer and the channel id (ucid).  A   *)
(* node stands for the channel with that ucid; which id msger->cid offers  *)
(* next is left open.                                                      *)
(***************************************************************************)
EXTENDS AvlTree

VARIABLE peers   \* msger->peers
pvars == <<peers>>

\* unicid_comp, unicid_find: a full comparison, with no difference cut short
UnicidSigns(n) == [m \in Nodes |-> n - m]

PeersInit == peers = EmptyTree

\* A new channel, made here (the loop ends with an id that is free) or for a peer
\* that no channel was found for.
PeerAdd(n) ==
  /\ Find(peers, UnicidSigns(n)) = Nil
  /\ peers' = Add(peers, n, UnicidSigns(n))

\* xchannel_free, after which the memory of the node is gone
PeerRemove(n) ==
  /\ Find(peers, UnicidSigns(n)) = n
  /\ peers' = [Remove(peers, n) EXCEPT !.parent[n] = Nil]

PeersNext == \E n \in Nodes : PeerAdd(n) \/ PeerRemove(n)
PeersSpec == PeersInit /\ [][PeersNext]_pvars

----------------------------------------------------------------------------
(* Properties *)

\* Also when one removal makes rotations at several levels necessary, the tree
\* stays balanced and in order, so that avl_tree_find of a packet's ucid reaches
\* every channel.
PeersReachable ==
  /\ Balanced(peers)
  /\ \A n \in Members(peers) : Find(peers, UnicidSigns(n)) = n
  /\ peers.count = Cardinality(Members(peers))
=============================================================================
