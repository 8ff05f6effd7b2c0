CONSTANTS
  Nodes <- MCNodes
  TableNodes <- MCTableNodes
  UuidNodes <- MCUuidNodes
  Index <- MCIndex
  HashKey <- MCHashKey
  Uuid <- MCUuid
  Slots = 2
  IntBits = 5
SPECIFICATION Spec
INVARIANTS TableWhole FindsExactly UuidWhole PeersReachable
