SPECIFICATION Spec
CONSTANTS
  zero = zero
  h1 = h1
  h2 = h2
  h3 = h3
  none = none
  a1 = a1
  a2 = a2
  s1 = s1
  Hash = {zero, h1, h2, h3}
  ZeroHash = zero
  ZeroAddress = none
  WindowSize = 2
  Number <- MCNumber
  ReceiptsOf <- MCReceiptsOf
  Announcements <- MCAnnouncements
  Watches <- MCWatches
  MaxWatches = 2
  MaxRequests = 4
  MaxAnswers = 2
INVARIANTS WindowIsLatest TipIsHighest EventsNameTheirBlock
PROPERTY DispatchExact
