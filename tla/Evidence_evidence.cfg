SPECIFICATION Spec
CONSTANTS
  k1 = k1
  k2 = k2
  c1 = c1
  c2 = c2
  BuiltIn = BuiltIn
  NoPair = NoPair
  NoChallenge = NoChallenge
  DefaultNonce = DefaultNonce
  Blank = Blank
  Pairs <- MCPairs
  Challenges <- MCChallenges
  ChallengeLength <- MCChallengeLength
  QuoteSizes <- MCQuoteSizes
  KeyLength = 2
  EatLength = 4
  BufferLength = 5
INVARIANTS TypeOK ReadyIsWhole EvidenceBound 
