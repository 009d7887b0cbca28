SPECIFICATION FabricSpec
CONSTANTS
    n1 = n1
    n2 = n2
    http1 = http1
    listener1 = listener1
    http2 = http2
    Members = {n1, n2}
    Callers = {http1, listener1, http2}
    NodeOf <- MCNodeOf
    Enabled = {n1}
    Heights = {1}
    MaxOps = 2
    MaxMoves = 1
INVARIANT SequenceIsPosition
PROPERTY LossNeedsOverlap
CHECK_DEADLOCK FALSE
