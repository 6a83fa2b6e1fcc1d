CONSTANTS
  Calls = {c1, c2}
  Connections = {1, 2, 3, 4, 5}
  Pools <- PoolsOfTwoToFive
SPECIFICATION Spec
INVARIANTS
  TypeOK
  ConnectionsAccounted
  OrdersNeedThree
  NoStall
  TimeoutsPartNothing
PROPERTIES
  CallsEnd
CHECK_DEADLOCK FALSE
