CONSTANTS
  Capacity <- MCCapacity
  MaxTotal <- MCMaxTotal
  MaxSamples <- MCMaxSamples
  MaxOutages <- MCMaxOutages
  FakeNum = 3
  FakeDen = 2
SPECIFICATION FairSpec
INVARIANTS
  TypeOK
PROPERTIES
  FeedSpec
  NeverOlder
  CatchesUp
