SPECIFICATION Spec
CONSTANTS
  c1 = c1
  c2 = c2
  c3 = c3
  u1 = u1
  u2 = u2
  Users = {u1, u2}
  NoUser = NoUser
  Strings <- MCStrings
  NoString = NoString
  Ttys = {"none"}
  TTYSET_UNSET = "none"
  NoTty = NoTty
  Conns = {c1, c2}
  NoConn = NoConn
  Cmds <- ModerationCmds
  EmptyString = ""
  LCS_OPER_PASSWORD = "password"
  MAGIC_WHO_ARG = "crystalball"
  WHO_SYSTEM = "1"
  MAX_CLIENTS = 3
  SERVER_BACKLOG = 1
  FdLimit = 2
  MaxUnread = 1
INVARIANTS
  RightsNeedPresence
PROPERTIES
  
  OnlyTheExpelledAreCut
  ImplementsRoom
CHECK_DEADLOCK FALSE
