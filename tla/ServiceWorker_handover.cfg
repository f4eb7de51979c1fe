\* Three clients, one after the other.
SPECIFICATION Spec
CONSTANTS
  c1 = c1
  c2 = c2
  c3 = c3
  Conns = {c1, c2, c3}
  NoConn = NoConn
  MaxPosted = 2
  MaxUnread = 1
INVARIANTS
  PreviousClientDisconnected
