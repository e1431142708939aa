SPECIFICATION Spec
CONSTANTS
  d1 = d1
  d2 = d2
  d3 = d3
  m = m
  a = a
  b = b
  c = c
  i1 = i1
  i2 = i2
  NoDigest = NoDigest
  NoName = NoName
  NoImage = NoImage
  Undecodable = Undecodable
  NoReport = NoReport
  Digests <- MCDigests
  Names <- MCNames
  Images <- MCImages
  Seqs <- MCSeqs
  SeqOf <- MCSeqOf
  ManifestNameOf <- MCManifestNameOf
  WappOf <- MCWappOfEach
  ImageOf <- MCImageOf
  CommandsOf <- MCCommandsOf
  Updates <- MCUpdatesAll
  QueryRequests <- MCQueryRequests
  MaxManifests = 2
  MaxRecords = 3
  TcListCapacity = 2
  Faults = {"envelope"}
  AgentFaults = {"key", "evidence", "memory", "send", "receive"}
  StackValues = {"OTHER"}
INVARIANTS TypeOK UpdateAnswersQuery StatusFollowsMessages TcListExact
PROPERTIES EcallReturns
