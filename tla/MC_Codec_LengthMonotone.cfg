CONSTANTS
  FixedOverhead = 21000
  ZeroByteCost = 4
  NonZeroByteCost = 16
SPECIFICATION Spec
CONSTANT Word <- MCWord
INVARIANT LengthMonotone
