\* Two reconnects and two turns.
CONSTANTS
  MaxSockets = 3
  MaxTurns = 2
SPECIFICATION Spec
INVARIANTS SessionInOrder SpokenRequestsExecuteInOrder ExecutesOnceInOrder
PROPERTY SilenceIsNoticed
CHECK_DEADLOCK FALSE
