SPECIFICATION FairWriterSpec
CONSTANTS
  f1 = f1
  Feeds = {f1}
  MaxLines = 3
INVARIANT TypeOK
PROPERTY FeedsEnd
CHECK_DEADLOCK FALSE
