\* Three clients, queues of two, fair event loops.
SPECIFICATION FairSpec
CONSTANTS
  c1 = c1
  c2 = c2
  c3 = c3
  Conns = {c1, c2, c3}
  NoConn = NoConn
  MaxPosted = 2
  MaxUnread = 2
INVARIANTS
  TypeOK
  NoConnectionForgotten
  AskerIsServed
  ForeignAnswersFirst
  NeverListensTwice
PROPERTIES
  AnswersArrive
