SPECIFICATION FairSpec
CONSTANTS
  Chatters = {1}
  Askers = {2}
  SockBuf = 12
  LNCMD_BUF_SIZE = 13
  Cuts = {7}
  Typists = {1}
  MaxTyped = 2
INVARIANTS
  NothingLostOrTwice
  FramingIsExact
  CountIsRight
  StreamInv
PROPERTIES
  ServerComesBack
  AskersAreAnswered
CHECK_DEADLOCK FALSE
