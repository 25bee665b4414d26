SPECIFICATION Spec
CONSTANTS
  Missing = Missing
  Corrupt = Corrupt
  NoData = NoData
  MaxCommits = 4
INVARIANT TypeOK
INVARIANT AlwaysReadable
INVARIANT CacheIsCurrent
PROPERTY NothingSeenIsLost
