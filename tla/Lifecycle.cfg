SPECIFICATION Spec
CONSTANTS
  Conns = {c1, c2, c3}
CHECK_DEADLOCK FALSE
INVARIANTS TypeOK WgCountsHandlers StartReturnsAfterStop
PROPERTIES StartEnds StopEnds SignalEndsProcess
