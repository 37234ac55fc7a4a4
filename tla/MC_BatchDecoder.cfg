SPECIFICATION Spec
CONSTANT Word <- MCWord
CONSTANT WordValue <- MCWordValue
INVARIANTS
  BatchRoundTrip
  TruncatedBatchSafe
