SPECIFICATION InputSpec
INVARIANT OneReceiver
CHECK_DEADLOCK FALSE
