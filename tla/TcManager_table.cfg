SPECIFICATION HeapSpec
CONSTANTS
  d1 = d1
  d2 = d2
  d3 = d3
  d4 = d4
  m = m
  a = a
  b = b
  i1 = i1
  i2 = i2
  NoDigest = NoDigest
  NoName = NoName
  NoImage = NoImage
  Undecodable = Undecodable
  Digests <- MCDigests
  Names <- MCNames
  Images <- MCImages
  Seqs <- MCSeqs
  ManifestArgs <- MCManifestArgs
  PayloadArgs <- MCPayloadArgs
  ShaOutcomes = {TRUE}
  MaxRecords = 3
INVARIANTS TypeOK DigestIsKey FreeSlotsBlank  BuffersOwned
PROPERTIES NoDowngrade ImplementsLedger
