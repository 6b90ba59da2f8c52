SPECIFICATION Spec
CONSTANTS
  P = 53
  Bits = 6
  A = 14
  Base <- CurveBase
  NB = 10
  ND = 4
  Points <- CurvePoints
  Scales = {5}
  Slides <- SmallScalars
  Few <- FewPoints
  Pairs <- DoubleScalars
  Scalars <- SingleScalars
  Limbs = 4
  LimbBits = 3
  MinusDelta <- MinusThirtyOne
  TopBits = 2
  WordBits = 2
  Encoded <- ShortScalars
  Wide <- LongScalars
  Factors <- Multiplied
  NULL = NULL
  AesKeys = {k1, k2}
INVARIANT CryptoExact
PROPERTY ImplementsField
SYMMETRY KeySymmetry
