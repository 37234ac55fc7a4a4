CONSTANTS
  FixedOverhead = 21000
  ZeroByteCost = 4
  NonZeroByteCost = 16
  Requests = {r1, r2}
  Ops <- MCOps
  Checks <- MCChecks
  MaxVerificationGas <- MCMaxVerificationGas
  EntryPoint <- Addr2
  ChainId = 1
  NoOp = NoOp
  Word <- MCWord
SPECIFICATION Spec
INVARIANTS
  TypeOK
  PoolSound
  RejectionFaithful
