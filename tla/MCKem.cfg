SPECIFICATION Spec
CONSTANTS
  Coins <- MCCoins
  Messages <- MCMessages
  Flips <- MCFlips
  Vectors <- MCVectors
INVARIANTS MatrixOfSeed SecretAgreed KnownAnswer
