------------------------------- MODULE XTable -------------------------------
(***************************************************************************)
(* The hash table of src/xnet/xtable.c over numbers (index_table).  A slot *)
(* holds one node; further nodes of the slot are in an AVL tree that all   *)
(* slots share.  All nodes are in one list, those of a slot side by side   *)
(* behind the node in the slot, which counts them in list_len.             *)
(***************************************************************************)
EXTENDS AvlTree

CONSTANTS
  TableNodes,  \* the nodes that are put into the table
  Index,    \* Index[n]: node->index
  Slots,    \* it->size, a power of two
  IntBits   \* width of an int, the result of number_compare
ASSUME TableAssumption ==
  /\ TableNodes \subseteq Nodes /\ Index \in [TableNodes -> Nat]
  /\ Slots \in Nat \ {0} /\ IntBits \in Nat \ {0}

VARIABLES
  tree,          \* it->tree
  table,         \* it->table
  next, prev,    \* the list, with it->head
  len,           \* list_len
  count          \* it->count
tvars == <<tree, table, next, prev, len, count>>

Anchor == -1     \* it->head
Pos(index) == index % Slots

\* Mutant: the difference is cut down to fewer bits than the indices need.
NumberCompareNarrow(a, b) ==
  LET d == (a - b) % 2^(IntBits - 2)
  IN IF d >= 2^(IntBits - 3) THEN d - 2^(IntBits - 2) ELSE d

\* number_compare: the difference of two uint64_t, cut down to an int
NumberCompare(a, b) ==
  LET d == (a - b) % 2^IntBits
  IN IF d >= 2^(IntBits - 1) THEN d - 2^IntBits ELSE d
Signs(index) == [n \in TableNodes |-> NumberCompare(index, Index[n])]

Between(n, p, x) ==
  /\ next' = [next EXCEPT ![n] = x, ![p] = n]
  /\ prev' = [prev EXCEPT ![n] = p, ![x] = n]

\* A node that has left the list is the caller's.
TakeOut(n) ==
  /\ next' = [next EXCEPT ![prev[n]] = next[n], ![n] = n]
  /\ prev' = [prev EXCEPT ![next[n]] = prev[n], ![n] = n]

TableInit ==
  /\ tree = EmptyTree
  /\ table = [k \in 0..(Slots - 1) |-> Nil]
  /\ next = [n \in TableNodes \cup {Anchor} |-> n]
  /\ prev = [n \in TableNodes \cup {Anchor} |-> n]
  /\ len = [n \in TableNodes |-> 0]
  /\ count = 0

\* index_table_add
AddToSlot(n) ==
  /\ table[Pos(Index[n])] = Nil
  /\ table' = [table EXCEPT ![Pos(Index[n])] = n]
  /\ Between(n, Anchor, next[Anchor])
  /\ len' = [len EXCEPT ![n] = 0]
  /\ count' = count + 1
  /\ UNCHANGED tree

\* Mutant: the node goes to the end of the list.
AddToTreeLast(n) ==
  LET head == table[Pos(Index[n])]
      added == Add(tree, n, Signs(Index[n]))
  IN /\ head # Nil /\ Index[n] # Index[head] /\ added # tree
     /\ tree' = added
     /\ Between(n, prev[Anchor], Anchor)
     /\ len' = [len EXCEPT ![head] = @ + 1]
     /\ count' = count + 1
     /\ UNCHANGED table

AddToTree(n) ==
  LET head == table[Pos(Index[n])]
      added == Add(tree, n, Signs(Index[n]))
  IN /\ head # Nil /\ Index[n] # Index[head] /\ added # tree
     /\ tree' = added
     /\ Between(n, head, next[head])
     /\ len' = [len EXCEPT ![head] = @ + 1]
     /\ count' = count + 1
     /\ UNCHANGED table

\* index_table_del(it, node) for a node with the given index: the slot is left
\* empty, ...
DelAlone(index) ==
  LET head == table[Pos(index)]
  IN /\ head # Nil /\ len[head] = 0 /\ Index[head] = index
     /\ table' = [table EXCEPT ![Pos(index)] = Nil]
     /\ TakeOut(head)
     /\ count' = count - 1
     /\ UNCHANGED <<tree, len>>

\* ... the next node of the list moves up from the tree into the slot, ...
DelHead(index) ==
  LET head == table[Pos(index)]
  IN /\ head # Nil /\ len[head] > 0 /\ Index[head] = index
     /\ len' = [len EXCEPT ![next[head]] = len[head] - 1, ![head] = 0]
     /\ table' = [table EXCEPT ![Pos(index)] = next[head]]
     /\ tree' = Remove(tree, next[head])
     /\ TakeOut(head)
     /\ count' = count - 1

\* ... or the node is taken out of the tree.
DelInTree(index) ==
  LET head == table[Pos(index)]
      found == Find(tree, Signs(index))
  IN /\ head # Nil /\ len[head] > 0 /\ Index[head] # index /\ found # Nil
     /\ len' = [len EXCEPT ![head] = @ - 1, ![found] = 0]
     /\ tree' = Remove(tree, found)
     /\ TakeOut(found)
     /\ count' = count - 1
     /\ UNCHANGED table

\* index_table_find
IndexFind(index) ==
  LET head == table[Pos(index)]
  IN IF head = Nil THEN Nil
     ELSE IF Index[head] = index THEN head ELSE Find(tree, Signs(index))

\* index_table_clear, and index_table_init of the table for its next use.  The nodes
\* are the caller's again.
ClearTable ==
  /\ tree' = EmptyTree
  /\ table' = [k \in 0..(Slots - 1) |-> Nil]
  /\ next' = [n \in TableNodes \cup {Anchor} |-> n]
  /\ prev' = [n \in TableNodes \cup {Anchor} |-> n]
  /\ len' = [n \in TableNodes |-> 0]
  /\ count' = 0

Outsiders == {n \in TableNodes : next[n] = n}

TableNext ==
  \/ \E n \in Outsiders : AddToSlot(n) \/ AddToTree(n)
  \/ \E n \in TableNodes : DelAlone(Index[n]) \/ DelHead(Index[n]) \/ DelInTree(Index[n])
  \/ ClearTable

TableSpec == TableInit /\ [][TableNext]_tvars

----------------------------------------------------------------------------
(* Properties *)

Rows == TableNodes \ Outsiders
Heads == {table[k] : k \in DOMAIN table} \ {Nil}

\* index_table_find finds the node of an index when the list has one, and
\* nothing when it has none: slot, tree and list always tell the same.
FindsExactly ==
  \A n \in TableNodes :
    LET found == IndexFind(Index[n]) rows == {m \in Rows : Index[m] = Index[n]}
    IN IF found = Nil THEN rows = {} ELSE rows = {found}

\* The nodes behind a node in a slot are list_len many, of the same slot, and in
\* the tree: the one that index_table_del moves up is always one of them.
SlotsTogether ==
  \A head \in Heads :
    LET run[k \in 0..Cardinality(TableNodes)] == IF k = 0 THEN head ELSE next[run[k - 1]]
        mine == {m \in Rows : Pos(Index[m]) = Pos(Index[head])}
    IN {run[k] : k \in 0..len[head]} = mine

\* avl_tree_clear takes every node off and ends with count = 0, which it asserts.
ClearEmpties ==
  LET cleared == Clear(tree)
  IN /\ cleared.root = Nil /\ cleared.count = 0
     /\ \A n \in Members(tree) : cleared.parent[n] = n

\* A node is in a slot or in the tree, never in both, and both counters are right.
CountsAgree ==
  /\ Members(tree) = Rows \ Heads
  /\ tree.count = Cardinality(Members(tree)) /\ count = Cardinality(Rows)

\* Slots, list, tree and counters of the table are in step after every call, and
\* index_table_clear can take all of it apart.
TableWhole == SlotsTogether /\ CountsAgree /\ ClearEmpties
=============================================================================
