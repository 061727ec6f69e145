CONSTANT Files <- AllFiles
SPECIFICATION Spec
INVARIANT FreeIsIgnored
CHECK_DEADLOCK FALSE
