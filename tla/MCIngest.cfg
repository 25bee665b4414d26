SPECIFICATION Spec
CONSTANTS
  me = me
  p = p
  x = x
  r = r
  u = u
  y = y
  w = w
  g = g
  h = h
  feed = feed
  dm = dm
  t1 = t1
  t2 = t2
  Self = me
  Peer <- MCPeer
  Msg <- MCMsg
  Kind <- MCKind
  From <- MCFrom
  Chat <- MCChat
  About <- MCAbout
  After <- MCAfter
  Casts <- MCCasts
  Task <- MCTask
  MaxRestarts = 1
  MaxAsks = 1
  MaxFailures = 1
INVARIANTS TypeOK GrantedOnce NotifiedOnce SweepNotifies SweepRestoresTallies JoinsOnceIfAsked
SYMMETRY MCSymmetry
