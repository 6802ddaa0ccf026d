SPECIFICATION Spec
CONSTANTS
  Task = {"main", "telegram", "rtds", "binance_ws", "clob", "summary", "shutdown"}
  Reconfigure = TRUE
INVARIANTS
  NoDeadlock
