SPECIFICATION LifecycleFairSpec
CONSTANTS
  Work = {"j", "s", "p", "h", "w", "t"}
  Kind <- KindsOfWork
PROPERTY StopFinishes
CHECK_DEADLOCK FALSE
