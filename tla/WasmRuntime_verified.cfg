SPECIFICATION Spec
CONSTANTS
  d1 = d1
  d2 = d2
  d3 = d3
  m = m
  a = a
  b = b
  i1 = i1
  i2 = i2
  NoDigest = NoDigest
  NoName = NoName
  NoImage = NoImage
  Undecodable = Undecodable
  NoReport = NoReport
  Digests <- MCDigests
  Names <- MCNames
  Images <- MCImages
  Seqs <- MCSeqs
  SeqOf <- MCSeqOf
  ManifestNameOf <- MCManifestNameOf
  WappOf <- MCWappOf
  ImageOf <- MCImageOf
  Updates <- MCUpdates
  CommandsOf <- MCCommandsOf
  Calls <- MCCalls
  MaxLen = 2
  MaxManifests = 1
  MaxRecords = 3
  Faults = {"payload"}
INVARIANTS RunsOnlyVerified
