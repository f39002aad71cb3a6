SPECIFICATION FairSpec
CONSTANTS
  t1 = t1
  t2 = t2
  NoTask = NoTask
  Task <- Tasks
  MaxStatements = 2
INVARIANTS
  
  BatchUnbroken
  NothingAfterClose
PROPERTIES
  TasksFinish
  ClosedSessionEnds
CHECK_DEADLOCK FALSE
