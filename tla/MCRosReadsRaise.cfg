SPECIFICATION ReadsSpec
CONSTANT Calls <- RaiseCalls
INVARIANT UrdfNeverRaises
CHECK_DEADLOCK FALSE
