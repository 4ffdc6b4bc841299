SPECIFICATION Spec
CONSTANTS
  Threads = {"t1", "t2"}
  Agents = {"a"}
  Frameworks = {"pageindex"}
  MaxHandlers = 1
  MaxDepth = 3
INVARIANT ChatsAreAnswered
CHECK_DEADLOCK FALSE
