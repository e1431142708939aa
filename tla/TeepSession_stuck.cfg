SPECIFICATION Spec
CONSTANTS
  d1 = d1
  d2 = d2
  m = m
  a = a
  i1 = i1
  i2 = i2
  NoDigest = NoDigest
  NoName = NoName
  NoImage = NoImage
  Undecodable = Undecodable
  NoReport = NoReport
  Digests <- MCDigests
  Names <- MCNames
  Images <- MCImages
  Seqs <- MCSeqs
  SeqOf <- MCSeqOf
  ManifestNameOf <- MCManifestNameOf
  ImageOf <- MCImageOf
  CommandsOf <- MCCommandsOf
  QueryRequests <- MCQueryRequests
  MaxManifests = 1
  TcListCapacity = 2
  WappOf <- MCWappOf
  Updates <- MCUpdates
  MaxRecords = 2
  Faults = {"envelope"}
  AgentFaults = {"receive"}
  StackValues = {"OTHER"}
  MaxReceive = 2
  SizeOf <- MCSizeOf
  CurrentQuery <- MCCurrentQuery
  CurrentUpdate <- MCCurrentUpdate
PROPERTIES QueriesAnswered
