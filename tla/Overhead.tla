------------------------------ MODULE Overhead ------------------------------
(***************************************************************************)
(* The overhead calculator (Overhead::calculate_pre_verification_gas of    *)
(* the uopool crate, outside src/ and modelled from spec section 4.3): the *)
(* minimum pre_verification_gas an operation must declare, from the full   *)
(* packed encoding (real signature included), charging every zero byte     *)
(* and every non-zero byte of it at a fixed price on top of a fixed        *)
(* per-operation overhead.  The cost table is process-wide configuration.  *)
(***************************************************************************)
EXTENDS UserOperation, FiniteSets

CONSTANTS
  FixedOverhead,    \* fixed per-operation gas
  ZeroByteCost,     \* gas per zero byte of the packed operation
  NonZeroByteCost   \* gas per non-zero byte of the packed operation

(* The cost table is made of naturals, and zero bytes are the cheaper ones *)
(* (the calldata pricing of the execution environment, spec 4.3).          *)
ASSUME CostTableAssumption ==
  /\ FixedOverhead \in Nat
  /\ ZeroByteCost \in Nat
  /\ NonZeroByteCost \in Nat
  /\ ZeroByteCost <= NonZeroByteCost

ZeroCount(bytes) == Cardinality({i \in DOMAIN bytes : bytes[i] = 0})

CalculatePreVerificationGas(uo) ==
  LET packed == Pack(uo)
      zeros  == ZeroCount(packed)
  IN  FixedOverhead + zeros * ZeroByteCost
        + (Len(packed) - zeros) * NonZeroByteCost

=============================================================================
