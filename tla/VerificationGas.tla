-------------------------- MODULE VerificationGas --------------------------
(***************************************************************************)
(* The VerificationGas sanity check of                                     *)
(* src/crates/uopool/src/validate/sanity/verification_gas.rs and the       *)
(* SanityCheckError values it returns.  It is synchronous and reads no     *)
(* chain state: a pure function of the operation and of the configured     *)
(* ceiling max_verification_gas.                                           *)
(***************************************************************************)
EXTENDS Overhead

CONSTANT MaxVerificationGas   \* VerificationGas.max_verification_gas

ASSUME MaxVerificationGasAssumption == MaxVerificationGas \in Nat

(* The name the check is registered under in the pipeline.                *)
VerificationGasName == "VerificationGas"

(* The result of a check: success, or a SanityCheckError.                  *)
CheckOk == [kind |-> "Ok"]

NoResult == [kind |-> "None"]

HighVerificationGasLimit(uo) ==
  [kind                   |-> "HighVerificationGasLimit",
   verification_gas_limit |-> uo.verification_gas_limit,
   max_verification_gas   |-> MaxVerificationGas]

LowPreVerificationGas(uo, preGas) ==
  [kind                          |-> "LowPreVerificationGas",
   pre_verification_gas          |-> uo.pre_verification_gas,
   pre_verification_gas_expected |-> preGas]

(* Mutant: a verification gas limit equal to the ceiling rejected.         *)
CheckUserOperationAtCeiling(uo) ==
  IF uo.verification_gas_limit >= MaxVerificationGas
  THEN HighVerificationGasLimit(uo)
  ELSE LET preGas == CalculatePreVerificationGas(uo)
       IN  IF uo.pre_verification_gas < preGas
           THEN LowPreVerificationGas(uo, preGas)
           ELSE CheckOk

(***************************************************************************)
(* VerificationGas::check_user_operation: reject a verification gas limit  *)
(* above the ceiling first, then a pre-verification gas below the          *)
(* overhead computed with the default cost table.                          *)
(***************************************************************************)
CheckUserOperation(uo) ==
  IF uo.verification_gas_limit > MaxVerificationGas
  THEN HighVerificationGasLimit(uo)
  ELSE LET preGas == CalculatePreVerificationGas(uo)
       IN  IF uo.pre_verification_gas < preGas
           THEN LowPreVerificationGas(uo, preGas)
           ELSE CheckOk

(* The bounds of spec section 4.4.1 an operation must meet: a verification *)
(* gas limit at most the ceiling, and a pre-verification gas at least the  *)
(* overhead of its packed encoding.                                        *)
WithinGasBounds(uo) ==
  /\ uo.verification_gas_limit <= MaxVerificationGas
  /\ uo.pre_verification_gas >= CalculatePreVerificationGas(uo)

=============================================================================
