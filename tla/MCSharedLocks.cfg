SPECIFICATION Spec
CONSTANTS
  Task = {"main", "telegram", "rtds", "clob", "summary"}
  Reconfigure = FALSE
INVARIANTS
  NoDeadlock
PROPERTIES
  EveryWaiterServed
