CONSTANT MaxCalls = 2
SPECIFICATION Spec
INVARIANT WaitsForReply
CHECK_DEADLOCK FALSE
