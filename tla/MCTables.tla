------------------------------ MODULE MCTables ------------------------------
(* The containers on the AVL tree, one at a time: which one is chosen in Init. *)
EXTENDS XTable, XUuidList, XPeers

VARIABLE container
vars == <<container, tvars, uvars, pvars>>

\* Twelve nodes, the size from which a removal can need rotations on two levels.
MCNodes == 1..12
\* Index 2 is there twice; four indices share a slot and two the other.
MCTableNodes == 1..7
MCIndex == <<1, 2, 3, 4, 6, 8, 2>>
\* Two keys have rings.
MCUuidNodes == 1..9
MCHashKey == <<0, 1, 2, 3, 1, 2, 1, 4, 2>>
MCUuid == <<1, 2, 3, 4, 5, 6, 7, 8, 9>>

Init ==
  /\ TableInit /\ UuidInit /\ PeersInit
  /\ container \in {"index_table", "uuid_list", "peers"}
Next ==
  /\ \/ container = "index_table" /\ TableNext /\ UNCHANGED <<uvars, pvars>>
     \/ container = "uuid_list" /\ UuidNext /\ UNCHANGED <<tvars, pvars>>
     \/ container = "peers" /\ PeersNext /\ UNCHANGED <<tvars, uvars>>
  /\ UNCHANGED container
Spec == Init /\ [][Next]_vars
=============================================================================
