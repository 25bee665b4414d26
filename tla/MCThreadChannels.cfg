SPECIFICATION Spec
CONSTANTS
  s1 = s1
  r1 = r1
  feed = feed
  dm = dm
  own = own
  t1 = t1
  t2 = t2
  Sub <- MCSub
  Reply <- MCReply
  Message <- MCMessage
  ReplyOf <- MCReplyOf
  Copy <- MCCopy
  Casts <- MCCasts
  Task <- MCTask
  MaxServes = 2
  MaxAsks = 2
  MaxRestarts = 1
INVARIANTS TypeOK RepublishedOnce  UnsubscribedStaysSo
SYMMETRY MCSymmetry
CHECK_DEADLOCK FALSE
