SPECIFICATION Spec
CONSTANTS
  Inputs <- MCInputs
  Factors <- MCFactors
INVARIANTS NoWrap TransformIsCRT ProductInRing FormatsExact
