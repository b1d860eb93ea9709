CONSTANT NumPorts <- MCNumPorts
SPECIFICATION FairSpec
INVARIANT TypeOK NoOrphanServers
PROPERTY ReverseTeardown Termination
