SPECIFICATION LinuxSpec
CONSTANTS
  MaxArrivals = 1
  MaxAsync = 1
PROPERTY WriteAnswered
CHECK_DEADLOCK FALSE
