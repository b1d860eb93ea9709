CONSTANT NumPorts <- MCNumPorts
SPECIFICATION Spec
INVARIANT SocketsClosedWhenDone
