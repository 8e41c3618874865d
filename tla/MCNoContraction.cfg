SPECIFICATION MCPreciseSpec
INVARIANT DereferencesMarked
CHECK_DEADLOCK FALSE
