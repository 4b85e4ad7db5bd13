SPECIFICATION Spec
CONSTANT MaxTargets = 2
INVARIANT LeaveBeforeShutdown
