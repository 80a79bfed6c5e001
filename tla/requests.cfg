SPECIFICATION Spec
CONSTANTS
  u1 = u1
  u2 = u2
  l1 = l1
  l2 = l2
  Users = {u1, u2}
  NoUser = NoUser
  Strings = {"ann"}
  NoString = NoString
  Ttys = {l1, l2, "none", "gone"}
  TTYSET_UNSET = "none"
  NoTty = NoTty
  Lines = {l1, l2}
  Accounts = {u1}
  Bytes <- MCBytes
  Requests <- MCAsked
  Chatters = {u1}
  Fds = {4}
INVARIANTS
  RequestInv
PROPERTIES
  
  SteadyPreferenceKept
  ListIsTrue
  ImplementsPreferences
