CONSTANT
  MaxClock = 4
SPECIFICATION FairSpec
PROPERTIES
  CloseEndsStream
  NeverGoesBack
  ImplementsContract
