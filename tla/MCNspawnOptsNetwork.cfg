CONSTANTS
  Snapshots <- MCSnapshots
  VersionLocks <- MCVersionLocks
  Users <- MCUsers
  MaxArgs <- MCMaxArgs
  None = None
SPECIFICATION Spec
INVARIANT PrivateNetworkFlagHonoured
