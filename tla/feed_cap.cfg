SPECIFICATION FairSpec
CONSTANTS
  f1 = f1
  Feeds = {f1}
  MaxLines = 3
CHECK_DEADLOCK FALSE
PROPERTY FeedsEnd
