CONSTANTS
  NumPorts <- MCNumPorts
SPECIFICATION RunSpec
INVARIANT SnapshotOutlivesProcess SnapshotReleased
