SPECIFICATION Spec
CONSTANTS
  d1 = d1
  d2 = d2
  d3 = d3
  m = m
  a = a
  b = b
  c = c
  i1 = i1
  i2 = i2
  NoDigest = NoDigest
  NoName = NoName
  NoImage = NoImage
  Undecodable = Undecodable
  NoReport = NoReport
  Digests <- MCDigests
  Names <- MCNames
  Images <- MCImages
  Seqs <- MCSeqs
  SeqOf <- MCSeqOf
  ManifestNameOf <- MCManifestNameOf
  WappOf <- MCWappOf
  ImageOf <- MCImageOf
  CommandsOf <- MCCommandsOf
  Updates <- MCUpdates
  QueryRequests <- MCQueryRequests
  MaxManifests = 1
  MaxRecords = 3
  TcListCapacity = 2
  Faults = {}
  AgentFaults = {}
  StackValues = {"QUERY_RESPONSE", "SUCCESS", "ERROR", "OTHER"}
INVARIANTS StatusFollowsMessages
