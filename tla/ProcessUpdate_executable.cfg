SPECIFICATION Spec
CONSTANTS
  d1 = d1
  d2 = d2
  d3 = d3
  d4 = d4
  m = m
  a = a
  b = b
  i1 = i1
  i2 = i2
  NoDigest = NoDigest
  NoName = NoName
  NoImage = NoImage
  Undecodable = Undecodable
  NoReport = NoReport
  Digests <- MCDigests
  Names <- MCNames
  Images <- MCImages
  Seqs <- MCSeqs
  SeqOf <- MCSeqOf
  ManifestNameOf <- MCManifestNameOf
  WappOf <- MCWappOf
  ImageOf <- MCImageOf
  Updates <- MCUpdates
  MaxManifests = 2
  CommandsOf <- MCCommandsOf
  MaxRecords = 3
  Faults = {"memory", "envelope"}
INVARIANTS SuccessExecutable
