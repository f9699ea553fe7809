CONSTANTS
  UsPerMs = 5
  TicksPerUs = 2
  Threshold = 3
  Wrap = 16
  MaxLatency = 5
  Ms = 2
  MaxStall = 2
  MaxStep = 5
SPECIFICATION FairSpec
INVARIANTS TypeOK NoShootThrough MicrosExact
PROPERTIES HalfLength Alternates
