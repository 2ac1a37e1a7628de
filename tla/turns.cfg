SPECIFICATION TurnsSpec
CONSTANTS
  c1 = c1
  c2 = c2
  w1 = w1
  w2 = w2
  Conns <- TwoConns
  NoConn = NoConn
  Workers <- TwoWorkers
  MaxRequests = 2
  MaxSteps = 2
INVARIANT TypeOK
INVARIANT NoSilentApproval
INVARIANT NewestIsActive
INVARIANT EndedIsSettled
INVARIANT ConsentIsReal
PROPERTY OnlyUserDeclines
PROPERTY BridgeIsGate
PROPERTY EveryRequestReturns
PROPERTY EveryTurnEnds
CHECK_DEADLOCK FALSE
