CONSTANT NumPorts <- MCNumPorts
SPECIFICATION Spec
INVARIANT ServedSocketsListen
