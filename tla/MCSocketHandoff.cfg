CONSTANT NumSocks <- MCNumSocks
SPECIFICATION FairSpec
INVARIANT TypeOK HandoffComplete
PROPERTY HandoffTerminates
