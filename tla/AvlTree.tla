------------------------------ MODULE AvlTree ------------------------------
(***************************************************************************)
(* The intrusive AVL tree of src/xlib/avlmini.c.  A tree is a record of    *)
(* the root and of the fields of the nodes; an operation maps a tree to a  *)
(* tree.  The code has each rotation and each repair twice, once for each  *)
(* side; here the side is a parameter.                                     *)
(***************************************************************************)
EXTENDS Integers, Sequences, FiniteSets

CONSTANT Nodes
ASSUME NodesAssumption == Nodes \subseteq Nat \ {0}

Nil == 0
Sides == {"left", "right"}
Other(s) == IF s = "left" THEN "right" ELSE "left"

\* A node that is in no tree: its fields are not read before avl_tree_add sets them.
EmptyTree ==
  [root   |-> Nil,
   kid    |-> [s \in Sides |-> [n \in Nodes |-> Nil]],
   parent |-> [n \in Nodes |-> Nil],
   height |-> [n \in Nodes |-> 0],
   count  |-> 0]

Height(t, n) == IF n = Nil THEN 0 ELSE t.height[n]
Taller(t, n) == LET l == Height(t, t.kid["left"][n])
                    r == Height(t, t.kid["right"][n])
                IN IF l < r THEN r ELSE l
Diff(t, n) == Height(t, t.kid["left"][n]) - Height(t, t.kid["right"][n])

\* _avl_node_height_update
Measure(t, n) == [t EXCEPT !.height[n] = Taller(t, n) + 1]

SetParent(t, n, p) == IF n = Nil THEN t ELSE [t EXCEPT !.parent[n] = p]

\* _avl_child_replace
ChildReplace(t, old, new, p) ==
  IF p = Nil THEN [t EXCEPT !.root = new]
  ELSE IF t.kid["left"][p] = old THEN [t EXCEPT !.kid["left"][p] = new]
  ELSE [t EXCEPT !.kid["right"][p] = new]

\* _avl_node_rotate_left, _avl_node_rotate_right: n sinks to side s.
Rotate(t, n, s) ==
  LET c == t.kid[Other(s)][n]
      inner == t.kid[s][c]
      moved == [SetParent(t, inner, n) EXCEPT
                  !.kid[Other(s)][n] = inner, !.kid[s][c] = n, !.parent[c] = t.parent[n]]
  IN SetParent(ChildReplace(moved, n, c, t.parent[n]), n, c)

\* _avl_node_fix_l (s = "left"), _avl_node_fix_r: the other side of n is too tall.
Fix(t, n, s) ==
  LET c == t.kid[Other(s)][n]
      lean == Height(t, t.kid[s][c]) > Height(t, t.kid[Other(s)][c])
      up == Rotate(t, c, Other(s))
      first == IF lean THEN Measure(Measure(up, c), up.parent[c]) ELSE t
      turned == Rotate(first, n, s)
  IN Measure(Measure(turned, n), turned.parent[n])

\* The repair at n, and the node above it with which the loop goes on.
Repair(t, n, diff) ==
  IF diff <= -2 THEN Fix(t, n, "left")
  ELSE IF diff >= 2 THEN Fix(t, n, "right") ELSE t

\* Mutant: the loop ends with the first rotation, as it could after an insertion.
OnwardStop(t, n, diff) == IF diff \in -1..1 THEN t.parent[n] ELSE Nil

Onward(t, n, diff) == t.parent[IF diff \in -1..1 THEN n ELSE t.parent[n]]

\* avl_node_post_insert, from the parent of the new node
RECURSIVE PostInsert(_, _)
PostInsert(t, n) ==
  IF n = Nil \/ Taller(t, n) + 1 = t.height[n] THEN t
  ELSE LET d == Diff(t, n)
           fixed == Repair(Measure(t, n), n, d)
       IN PostInsert(fixed, Onward(fixed, n, d))

\* _avl_node_rebalance
RECURSIVE Rebalance(_, _)
Rebalance(t, n) ==
  IF n = Nil \/ (Taller(t, n) + 1 = t.height[n] /\ Diff(t, n) \in -1..1) THEN t
  ELSE LET d == Diff(t, n)
           fixed == Repair(Measure(t, n), n, d)
       IN Rebalance(fixed, Onward(fixed, n, d))

RECURSIVE Outmost(_, _, _)
Outmost(t, n, s) ==
  IF n = Nil \/ t.kid[s][n] = Nil THEN n ELSE Outmost(t, t.kid[s][n], s)

\* avl_node_first, avl_node_last
First(t) == Outmost(t, t.root, "left")
Last(t) == Outmost(t, t.root, "right")

\* The first ancestor that has n on side s.
RECURSIVE Climb(_, _, _)
Climb(t, n, s) ==
  LET p == t.parent[n]
  IN IF p = Nil \/ t.kid[s][p] = n THEN p ELSE Climb(t, p, s)

\* avl_node_next (s = "right"), avl_node_prev
Beside(t, n, s) ==
  IF t.kid[s][n] # Nil THEN Outmost(t, t.kid[s][n], Other(s))
  ELSE Climb(t, n, Other(s))

\* The successor takes the place of a node with two children.
EraseInner(t, old) ==
  LET n == Outmost(t, t.kid["right"][old], "left")
      child == t.kid["right"][n]
      out == ChildReplace(SetParent(t, child, t.parent[n]), n, child, t.parent[n])
      below == IF t.parent[n] = old THEN n ELSE t.parent[n]
      in == [out EXCEPT !.kid["left"][n] = out.kid["left"][old],
                        !.kid["right"][n] = out.kid["right"][old],
                        !.parent[n] = out.parent[old],
                        !.height[n] = out.height[old]]
      placed == ChildReplace(in, old, n, in.parent[old])
      kids == SetParent(SetParent(placed, placed.kid["left"][old], n),
                        placed.kid["right"][old], n)
  IN Rebalance(kids, below)

EraseOuter(t, n) ==
  LET child == IF t.kid["left"][n] = Nil THEN t.kid["right"][n] ELSE t.kid["left"][n]
      out == SetParent(ChildReplace(t, n, child, t.parent[n]), child, t.parent[n])
  IN Rebalance(out, t.parent[n])

\* avl_node_erase
Erase(t, n) ==
  IF t.kid["left"][n] # Nil /\ t.kid["right"][n] # Nil
  THEN EraseInner(t, n) ELSE EraseOuter(t, n)

\* The fields of n are left to avl_tree_add; parent = n says that n is in no tree.
Outside(t, n) ==
  [t EXCEPT !.kid["left"][n] = Nil, !.kid["right"][n] = Nil, !.height[n] = 0,
            !.parent[n] = n]

\* avl_tree_remove
Remove(t, n) ==
  IF t.parent[n] = n THEN t
  ELSE LET out == Outside(Erase(t, n), n) IN [out EXCEPT !.count = @ - 1]

\* Mutant: the children keep the old node as their parent.
ReplaceLoose(t, old, new) ==
  LET placed == ChildReplace(t, old, new, t.parent[old])
  IN Outside([placed EXCEPT !.kid["left"][new] = t.kid["left"][old],
                            !.kid["right"][new] = t.kid["right"][old],
                            !.parent[new] = t.parent[old],
                            !.height[new] = t.height[old]], old)

\* avl_tree_replace
Replace(t, old, new) ==
  LET placed == ChildReplace(t, old, new, t.parent[old])
      kids == SetParent(SetParent(placed, t.kid["left"][old], new),
                        t.kid["right"][old], new)
  IN Outside([kids EXCEPT !.kid["left"][new] = t.kid["left"][old],
                          !.kid["right"][new] = t.kid["right"][old],
                          !.parent[new] = t.parent[old],
                          !.height[new] = t.height[old]], old)

----------------------------------------------------------------------------
(* Searching: for the key that is looked for, sign[n] is what tree->compare *)
(* tells of it and the key of node n                                        *)

Turn(sign, n) == IF sign[n] < 0 THEN "left" ELSE "right"

\* avl_tree_find
RECURSIVE Descend(_, _, _)
Descend(t, n, sign) ==
  IF n = Nil THEN Nil
  ELSE IF sign[n] = 0 THEN n ELSE Descend(t, t.kid[Turn(sign, n)][n], sign)
Find(t, sign) == Descend(t, t.root, sign)

\* The node below which a new key goes.
RECURSIVE Place(_, _, _)
Place(t, n, sign) ==
  IF n = Nil \/ t.kid[Turn(sign, n)][n] = Nil THEN n
  ELSE Place(t, t.kid[Turn(sign, n)][n], sign)

\* avl_tree_add of n; the tree stays as it is when its key is there already.
Add(t, n, sign) ==
  LET p == Place(t, t.root, sign)
      new == [t EXCEPT !.parent[n] = p, !.kid["left"][n] = Nil, !.kid["right"][n] = Nil,
                       !.height[n] = 1]
      linked == IF p = Nil THEN [new EXCEPT !.root = n]
                ELSE [new EXCEPT !.kid[Turn(sign, p)][p] = n]
      done == PostInsert(linked, p)
  IN IF Find(t, sign) # Nil THEN t ELSE [done EXCEPT !.count = @ + 1]

----------------------------------------------------------------------------
(* avl_node_tear takes one leaf off; avl_tree_clear does so until none is left *)

RECURSIVE Leaf(_, _)
Leaf(t, n) ==
  IF t.kid["left"][n] # Nil THEN Leaf(t, t.kid["left"][n])
  ELSE IF t.kid["right"][n] # Nil THEN Leaf(t, t.kid["right"][n]) ELSE n

RECURSIVE TearFrom(_, _)
TearFrom(t, next) ==
  LET n == Leaf(t, IF next = Nil THEN t.root ELSE next)
      p == t.parent[n]
      cut == Outside(ChildReplace(t, n, Nil, p), n)
  IN IF t.root = Nil THEN t ELSE TearFrom([cut EXCEPT !.count = @ - 1], p)

\* avl_tree_clear
Clear(t) == TearFrom(t, Nil)

----------------------------------------------------------------------------
(* What an AVL tree is *)

RECURSIVE Below(_, _)
Below(t, n) ==
  IF n = Nil THEN {}
  ELSE {n} \cup Below(t, t.kid["left"][n]) \cup Below(t, t.kid["right"][n])
Members(t) == Below(t, t.root)

\* Every height is the real one, no two siblings differ by more than one level,
\* and the parent of a child is the node that has it.
Balanced(t) ==
  \A n \in Members(t) :
    /\ t.height[n] = Taller(t, n) + 1 /\ Diff(t, n) \in -1..1
    /\ \A s \in Sides : t.kid[s][n] # Nil => t.parent[t.kid[s][n]] = n

\* Left of a node are smaller keys, right of it larger ones.
Ordered(t, key) ==
  \A n \in Members(t) :
    /\ \A m \in Below(t, t.kid["left"][n]) : key[m] < key[n]
    /\ \A m \in Below(t, t.kid["right"][n]) : key[m] > key[n]

\* The nodes that Beside visits from n on, at most one more than there are.
RECURSIVE WalkFrom(_, _, _, _)
WalkFrom(t, n, s, most) ==
  IF n = Nil \/ most < 0 THEN <<>>
  ELSE <<n>> \o WalkFrom(t, Beside(t, n, s), s, most - 1)
Walk(t, n, s) == WalkFrom(t, n, s, Cardinality(Nodes))
=============================================================================
