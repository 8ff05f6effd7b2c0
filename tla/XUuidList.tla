----------------------------- MODULE XUuidList -----------------------------
(***************************************************************************)
(* The list of uuids of src/xnet/uuid.c: one node of every hash key is in  *)
(* hash_tree; the others with the same key form a ring with it and are in  *)
(* uuid_tree.  A node has one struct avl_node, which serves for both trees. *)
(*                                                                         *)
(* As in test/xnet/dht_test.c, all uuids differ, only nodes of the list    *)
(* are deleted, and a node that was deleted is freed: the next node added  *)
(* with its uuid is a fresh one.                                           *)
(***************************************************************************)
EXTENDS AvlTree

CONSTANTS
  UuidNodes,  \* the nodes that are put into the list
  HashKey,  \* HashKey[n]: node->hash_key
  Uuid      \* Uuid[n]: node->uuid, as a number
ASSUME UuidAssumption ==
  /\ UuidNodes \subseteq Nodes
  /\ HashKey \in [UuidNodes -> Nat] /\ Uuid \in [UuidNodes -> Nat]
  /\ \A m, n \in UuidNodes : Uuid[m] = Uuid[n] => m = n

VARIABLES
  avl,           \* the avl_nodes of all nodes
  hashTree, uuidTree,   \* root and count of the trees
  unext, uprev, ulen,   \* the rings
  ucount
uvars == <<avl, hashTree, uuidTree, unext, uprev, ulen, ucount>>

\* One of the trees as AvlTree has it, and its two parts.
Tree(part, fields) ==
  [root |-> part.root, kid |-> fields.kid, parent |-> fields.parent,
   height |-> fields.height, count |-> part.count]
Part(t) == [root |-> t.root, count |-> t.count]
Fields(t) == [kid |-> t.kid, parent |-> t.parent, height |-> t.height]

HashTree == Tree(hashTree, avl)
UuidTree == Tree(uuidTree, avl)

\* number_compare, for keys whose difference fits into an int, and uuid_compare
HashSigns(n) == [m \in UuidNodes |-> HashKey[n] - HashKey[m]]
UuidSigns(n) == [m \in UuidNodes |-> Uuid[n] - Uuid[m]]

HeadOf(n) == Find(HashTree, HashSigns(n))

UuidInit ==
  /\ avl = Fields(EmptyTree)
  /\ hashTree = Part(EmptyTree) /\ uuidTree = Part(EmptyTree)
  /\ unext = [n \in UuidNodes |-> n] /\ uprev = [n \in UuidNodes |-> n]
  /\ ulen = [n \in UuidNodes |-> 0]
  /\ ucount = 0

\* n leaves its ring, and is fresh when it comes back.
LeaveRing(n) ==
  /\ unext' = [unext EXCEPT ![uprev[n]] = unext[n], ![n] = n]
  /\ uprev' = [uprev EXCEPT ![unext[n]] = uprev[n], ![n] = n]
Fresh(t, n) == [t EXCEPT !.parent[n] = Nil]

\* uuid_list_add of the first node with its key
UuidAddHash(n) ==
  LET t == Add(HashTree, n, HashSigns(n))
  IN /\ HeadOf(n) = Nil
     /\ hashTree' = Part(t) /\ avl' = Fields(t)
     /\ ucount' = ucount + 1
     /\ UNCHANGED <<uuidTree, unext, uprev, ulen>>

\* ... and of a further one, which goes to the end of the ring
UuidAddRing(n) ==
  LET head == HeadOf(n)
      t == Add(UuidTree, n, UuidSigns(n))
  IN /\ head # Nil
     /\ uuidTree' = Part(t) /\ avl' = Fields(t)
     /\ ulen' = [ulen EXCEPT ![head] = @ + 1]
     /\ unext' = [unext EXCEPT ![n] = head, ![uprev[head]] = n]
     /\ uprev' = [uprev EXCEPT ![n] = uprev[head], ![head] = n]
     /\ ucount' = ucount + 1
     /\ UNCHANGED hashTree

\* uuid_list_del of the only node with its key
UuidDelAlone(n) ==
  LET head == HeadOf(n)
      t == Fresh(Remove(HashTree, head), head)
  IN /\ head # Nil /\ ulen[head] = 0
     /\ hashTree' = Part(t) /\ avl' = Fields(t)
     /\ ucount' = ucount - 1
     /\ UNCHANGED <<uuidTree, unext, uprev, ulen>>

\* ... of the head of a ring: the second node replaces it in hash_tree
UuidDelHead(n) ==
  LET second == unext[n]
      u == Remove(UuidTree, second)
      h == Fresh(Replace(Tree(hashTree, Fields(u)), n, second), n)
  IN /\ HeadOf(n) = n /\ ulen[n] > 0
     /\ ulen' = [ulen EXCEPT ![second] = ulen[n] - 1, ![n] = 0]
     /\ LeaveRing(n)
     /\ uuidTree' = Part(u) /\ hashTree' = Part(h) /\ avl' = Fields(h)
     /\ ucount' = ucount - 1

\* ... of another node of a ring
UuidDelRing(n) ==
  LET head == HeadOf(n)
      found == Find(UuidTree, UuidSigns(n))
      u == Fresh(Remove(UuidTree, found), found)
  IN /\ head \notin {Nil, n} /\ ulen[head] > 0
     /\ ulen' = [ulen EXCEPT ![head] = @ - 1]
     /\ LeaveRing(found)
     /\ uuidTree' = Part(u) /\ avl' = Fields(u)
     /\ ucount' = ucount - 1
     /\ UNCHANGED hashTree

\* uuid_list_clear; the nodes are the caller's again.
UuidClear ==
  LET h == Clear(HashTree)
      u == Clear(Tree(uuidTree, Fields(h)))
  IN /\ hashTree' = Part(h) /\ uuidTree' = Part(u)
     /\ avl' = Fields(EmptyTree)
     /\ unext' = [n \in UuidNodes |-> n] /\ uprev' = [n \in UuidNodes |-> n]
     /\ ulen' = [n \in UuidNodes |-> 0]
     /\ ucount' = 0

\* uuid_list_find
UuidFind(n) ==
  LET head == HeadOf(n)
  IN IF head = Nil THEN Nil
     ELSE IF Uuid[head] = Uuid[n] THEN head
     ELSE IF ulen[head] > 0 THEN Find(UuidTree, UuidSigns(n)) ELSE Nil

UuidRows == Members(HashTree) \cup Members(UuidTree)

UuidNext ==
  \/ \E n \in UuidNodes \ UuidRows : UuidAddHash(n) \/ UuidAddRing(n)
  \/ \E n \in UuidRows : UuidDelAlone(n) \/ UuidDelHead(n) \/ UuidDelRing(n)
  \/ UuidClear

UuidSpec == UuidInit /\ [][UuidNext]_uvars

----------------------------------------------------------------------------
(* Properties *)

\* Although they share the avl_node of each node, both trees are AVL trees in the
\* order of their keys, after every move of a node from one to the other.
BothTrees ==
  /\ Balanced(HashTree) /\ Ordered(HashTree, HashKey)
  /\ Balanced(UuidTree) /\ Ordered(UuidTree, Uuid)
  /\ Members(HashTree) \cap Members(UuidTree) = {}
  /\ ucount = hashTree.count + uuidTree.count

\* The ring of a node of hash_tree has list_len further nodes, which are the nodes
\* of uuid_tree with its key.
RingsWhole ==
  \A head \in Members(HashTree) :
    LET run[k \in 0..Cardinality(UuidNodes)] == IF k = 0 THEN head ELSE unext[run[k - 1]]
        mine == {m \in Members(UuidTree) : HashKey[m] = HashKey[head]}
    IN /\ {run[k] : k \in 1..ulen[head]} = mine
       /\ run[ulen[head] + 1] = head

\* uuid_list_find finds exactly the nodes of the list.
UuidFindsExactly ==
  \A n \in UuidNodes : UuidFind(n) = IF n \in UuidRows THEN n ELSE Nil

\* From uuid_list_first on, uuid_list_next visits every hash key once, in order,
\* and ends at uuid_list_last; uuid_list_prev goes the same way back.
WalkInOrder ==
  LET there == Walk(HashTree, First(HashTree), "right")
      back == Walk(HashTree, Last(HashTree), "left")
      size == Len(there)
  IN /\ {there[k] : k \in 1..size} = Members(HashTree)
     /\ \A k \in 1..(size - 1) : HashKey[there[k]] < HashKey[there[k + 1]]
     /\ back = [k \in 1..size |-> there[size + 1 - k]]

\* Trees and rings of the list are in step after every call, a search finds exactly
\* the uuids that are there, and walking over the keys meets each of them once.
UuidWhole == BothTrees /\ RingsWhole /\ UuidFindsExactly /\ WalkInOrder
=============================================================================
