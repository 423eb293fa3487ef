SPECIFICATION ClientFairSpec
CONSTANTS
  P = 3
  MaxData = 3
PROPERTY EchoEstablishes
CHECK_DEADLOCK FALSE
