CONSTANTS
  FixedOverhead = 21000
  ZeroByteCost = 4
  NonZeroByteCost = 16
  MaxVerificationGas = 3000000
  Drafts <- MCDrafts
  Signatures <- MCSignatures
  SimulatedGas <- MCSimulatedGas
  Word <- MCWord
SPECIFICATION Spec
INVARIANTS
  EstimateAccepted
