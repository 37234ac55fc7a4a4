------------------------ MODULE SanityPipelineProofs ------------------------
(***************************************************************************)
(* Proofs, for every value of the constants, of the type invariant and of  *)
(* PoolSound for the sanity check pipeline: whatever the number of         *)
(* concurrent requests, the registration order of the checks, the          *)
(* interleaving of chain replies, cancellations and slot reuse, every      *)
(* operation admitted to the pool meets the bounds of the VerificationGas  *)
(* check.  The argument goes through the inductive invariant IInv of       *)
(* SanityPipeline.                                                         *)
(***************************************************************************)
EXTENDS SanityPipeline, TLAPS

USE PipelineAssumption, MaxVerificationGasAssumption, CostTableAssumption

-----------------------------------------------------------------------------
(* The VerificationGas check has one position in the registration order.  *)
LEMMA VerificationGasIndexFacts ==
  /\ VerificationGasIndex \in 1..Len(Checks)
  /\ Checks[VerificationGasIndex] = VerificationGasName
  /\ \A i \in 1..Len(Checks) :
       Checks[i] = VerificationGasName => i = VerificationGasIndex
<1>1. \E i \in 1..Len(Checks) : Checks[i] = VerificationGasName
  OBVIOUS
<1>2. /\ VerificationGasIndex \in 1..Len(Checks)
      /\ Checks[VerificationGasIndex] = VerificationGasName
  BY <1>1 DEF VerificationGasIndex
<1>3. \A i \in 1..Len(Checks) :
        Checks[i] = VerificationGasName => i = VerificationGasIndex
  BY <1>2
<1>. QED  BY <1>2, <1>3

(* check_user_operation returns one of the modelled results, and returns   *)
(* Ok only for an operation within both gas bounds.                        *)
LEMMA CheckUserOperationFacts ==
  ASSUME NEW uo \in Ops
  PROVE  /\ CheckUserOperation(uo) \in Results
         /\ CheckUserOperation(uo) = CheckOk => WithinGasBounds(uo)
<1>1. /\ uo.verification_gas_limit \in Nat
      /\ uo.pre_verification_gas \in Nat
      /\ CalculatePreVerificationGas(uo) \in Nat
  BY DEF UserOperations, U256
<1>2. CASE uo.verification_gas_limit > MaxVerificationGas
  <2>1. CheckUserOperation(uo) = HighVerificationGasLimit(uo)
    BY <1>2 DEF CheckUserOperation
  <2>2. HighVerificationGasLimit(uo) # CheckOk
    BY DEF HighVerificationGasLimit, CheckOk
  <2>. QED  BY <2>1, <2>2 DEF Results
<1>3. CASE /\ uo.verification_gas_limit <= MaxVerificationGas
           /\ uo.pre_verification_gas < CalculatePreVerificationGas(uo)
  <2>1. CheckUserOperation(uo)
          = LowPreVerificationGas(uo, CalculatePreVerificationGas(uo))
    BY <1>1, <1>3 DEF CheckUserOperation
  <2>2. LowPreVerificationGas(uo, CalculatePreVerificationGas(uo)) # CheckOk
    BY DEF LowPreVerificationGas, CheckOk
  <2>. QED  BY <2>1, <2>2 DEF Results
<1>4. CASE /\ uo.verification_gas_limit <= MaxVerificationGas
           /\ uo.pre_verification_gas >= CalculatePreVerificationGas(uo)
  <2>1. CheckUserOperation(uo) = CheckOk
    BY <1>1, <1>4 DEF CheckUserOperation
  <2>. QED  BY <2>1, <1>4 DEF Results, WithinGasBounds
<1>. QED  BY <1>1, <1>2, <1>3, <1>4

-----------------------------------------------------------------------------
(* The initial state satisfies the inductive invariant.                    *)
LEMMA InitIInv == Init => IInv
<1>. SUFFICES ASSUME Init PROVE IInv
  OBVIOUS
<1>1. TypeOK
  BY VerificationGasIndexFacts DEF Init, TypeOK, Phases, Results
<1>2. \A r \in Requests : SlotInv(r)
  BY DEF Init, SlotInv
<1>3. PoolSound
  BY DEF Init, PoolSound
<1>. QED  BY <1>1, <1>2, <1>3 DEF IInv

(* Every step of the pipeline, of any request, preserves the invariant.    *)
LEMMA NextIInv == IInv /\ [Next]_vars => IInv'
<1>. SUFFICES ASSUME IInv, [Next]_vars PROVE IInv'
  OBVIOUS
<1>. USE VerificationGasIndexFacts
<1>0. /\ TypeOK
      /\ \A r \in Requests : SlotInv(r)
      /\ PoolSound
  BY DEF IInv
<1>1. CASE UNCHANGED vars
  BY <1>0, <1>1 DEF vars, IInv, TypeOK, SlotInv, PoolSound
<1>2. ASSUME NEW r \in Requests, NEW uo \in Ops, Submit(r, uo) PROVE IInv'
  <2>1. TypeOK'
    BY <1>0, <1>2 DEF Submit, TypeOK, Phases
  <2>2. \A s \in Requests : SlotInv(s)'
    BY <1>0, <1>2 DEF Submit, TypeOK, SlotInv
  <2>3. PoolSound'
    BY <1>0, <1>2 DEF Submit, PoolSound
  <2>. QED  BY <2>1, <2>2, <2>3 DEF IInv
<1>3. ASSUME NEW r \in Requests, RunVerificationGas(r) PROVE IInv'
  <2>. DEFINE res == CheckUserOperation(op[r])
  <2>1. /\ phase[r] = "running"
        /\ next[r] = VerificationGasIndex
        /\ op[r] \in Ops
        /\ res \in Results
        /\ res = CheckOk => WithinGasBounds(op[r])
    <3>1. /\ phase[r] = "running"
          /\ next[r] \in 1..Len(Checks)
          /\ Checks[next[r]] = VerificationGasName
      BY <1>0, <1>3 DEF RunVerificationGas, TypeOK
    <3>2. op[r] \in Ops
      BY <1>0, <3>1 DEF SlotInv
    <3>. QED  BY <3>1, <3>2, CheckUserOperationFacts
  <2>2. CASE /\ res = CheckOk
             /\ next' = [next EXCEPT ![r] = @ + 1]
             /\ UNCHANGED <<phase, result>>
             /\ UNCHANGED <<op, pool>>
    <3>a. TypeOK'
      BY <1>0, <2>1, <2>2 DEF TypeOK
    <3>b. \A s \in Requests : SlotInv(s)'
      BY <1>0, <2>1, <2>2 DEF TypeOK, SlotInv
    <3>c. PoolSound'
      BY <1>0, <2>2 DEF PoolSound
    <3>. QED  BY <3>a, <3>b, <3>c DEF IInv
  <2>3. CASE /\ res # CheckOk
             /\ phase' = [phase EXCEPT ![r] = "rejected"]
             /\ result' = [result EXCEPT ![r] = res]
             /\ UNCHANGED next
             /\ UNCHANGED <<op, pool>>
    <3>a. TypeOK'
      BY <1>0, <2>1, <2>3 DEF TypeOK, Phases
    <3>b. \A s \in Requests : SlotInv(s)'
      BY <1>0, <2>1, <2>3 DEF TypeOK, SlotInv
    <3>c. PoolSound'
      BY <1>0, <2>3 DEF PoolSound
    <3>. QED  BY <3>a, <3>b, <3>c DEF IInv
  <2>. QED  BY <1>3, <2>2, <2>3 DEF RunVerificationGas
<1>4. ASSUME NEW r \in Requests, QueryChain(r) PROVE IInv'
  <2>1. TypeOK'
    BY <1>0, <1>4 DEF QueryChain, TypeOK, Phases
  <2>2. \A s \in Requests : SlotInv(s)'
    BY <1>0, <1>4 DEF QueryChain, TypeOK, SlotInv
  <2>3. PoolSound'
    BY <1>0, <1>4 DEF QueryChain, PoolSound
  <2>. QED  BY <2>1, <2>2, <2>3 DEF IInv
<1>5. ASSUME NEW r \in Requests, ChainReply(r) PROVE IInv'
  <2>1. /\ next[r] \in 1..Len(Checks)
        /\ Checks[next[r]] # VerificationGasName
        /\ next[r] # VerificationGasIndex
        /\ op[r] \in Ops
    BY <1>0, <1>5 DEF ChainReply, TypeOK, SlotInv
  <2>2. CASE /\ phase' = [phase EXCEPT ![r] = "running"]
             /\ next' = [next EXCEPT ![r] = @ + 1]
             /\ UNCHANGED result
             /\ UNCHANGED <<op, pool>>
    <3>a. TypeOK'
      BY <1>0, <2>1, <2>2 DEF TypeOK, Phases
    <3>b. \A s \in Requests : SlotInv(s)'
      BY <1>0, <2>1, <2>2 DEF TypeOK, SlotInv
    <3>c. PoolSound'
      BY <1>0, <2>2 DEF PoolSound
    <3>. QED  BY <3>a, <3>b, <3>c DEF IInv
  <2>3. CASE /\ phase' = [phase EXCEPT ![r] = "rejected"]
             /\ result' = [result EXCEPT ![r] = ChainCheckError(Checks[next[r]])]
             /\ UNCHANGED next
             /\ UNCHANGED <<op, pool>>
    <3>a. TypeOK'
      BY <1>0, <2>1, <2>3 DEF TypeOK, Phases, Results
    <3>b. \A s \in Requests : SlotInv(s)'
      BY <1>0, <2>1, <2>3 DEF TypeOK, SlotInv
    <3>c. PoolSound'
      BY <1>0, <2>3 DEF PoolSound
    <3>. QED  BY <3>a, <3>b, <3>c DEF IInv
  <2>. QED  BY <1>5, <2>2, <2>3 DEF ChainReply
<1>6. ASSUME NEW r \in Requests, Admit(r) PROVE IInv'
  <2>1. /\ op[r] \in Ops
        /\ WithinGasBounds(op[r])
    BY <1>0, <1>6 DEF Admit, TypeOK, SlotInv
  <2>2. TypeOK'
    BY <1>0, <1>6, <2>1 DEF Admit, TypeOK, Phases, Results
  <2>3. \A s \in Requests : SlotInv(s)'
    BY <1>0, <1>6 DEF Admit, TypeOK, SlotInv
  <2>4. PoolSound'
    BY <1>0, <1>6, <2>1 DEF Admit, PoolSound, PoolEntry
  <2>. QED  BY <2>2, <2>3, <2>4 DEF IInv
<1>7. ASSUME NEW r \in Requests, Cancel(r) PROVE IInv'
  <2>1. TypeOK'
    BY <1>0, <1>7 DEF Cancel, TypeOK, Phases
  <2>2. \A s \in Requests : SlotInv(s)'
    BY <1>0, <1>7 DEF Cancel, TypeOK, SlotInv
  <2>3. PoolSound'
    BY <1>0, <1>7 DEF Cancel, PoolSound
  <2>. QED  BY <2>1, <2>2, <2>3 DEF IInv
<1>8. ASSUME NEW r \in Requests, Finish(r) PROVE IInv'
  <2>1. NoResult \in Results
    BY DEF Results
  <2>2. TypeOK'
    BY <1>0, <1>8, <2>1 DEF Finish, TypeOK, Phases
  <2>3. \A s \in Requests : SlotInv(s)'
    BY <1>0, <1>8 DEF Finish, TypeOK, SlotInv
  <2>4. PoolSound'
    BY <1>0, <1>8 DEF Finish, PoolSound
  <2>. QED  BY <2>2, <2>3, <2>4 DEF IInv
<1>. QED  BY <1>1, <1>2, <1>3, <1>4, <1>5, <1>6, <1>7, <1>8 DEF Next

(* The inductive invariant holds in every reachable state.                *)
LEMMA SpecIInv == Spec => []IInv
BY InitIInv, NextIInv, PTL DEF Spec

(* A VerificationGas error names a violated bound: the gas limit one when  *)
(* the limit is exceeded, the pre-verification gas one otherwise.          *)
LEMMA CheckErrorFacts ==
  ASSUME NEW uo \in Ops, CheckUserOperation(uo) # CheckOk
  PROVE  /\ ~WithinGasBounds(uo)
         /\ uo.verification_gas_limit > MaxVerificationGas
              => CheckUserOperation(uo) = HighVerificationGasLimit(uo)
         /\ uo.verification_gas_limit <= MaxVerificationGas
              => CheckUserOperation(uo)
                   = LowPreVerificationGas(uo, CalculatePreVerificationGas(uo))
<1>1. /\ uo.verification_gas_limit \in Nat
      /\ uo.pre_verification_gas \in Nat
      /\ CalculatePreVerificationGas(uo) \in Nat
  BY DEF UserOperations, U256
<1>2. ~WithinGasBounds(uo)
  <2>. SUFFICES ASSUME WithinGasBounds(uo) PROVE FALSE
    OBVIOUS
  <2>1. CheckUserOperation(uo) = CheckOk
    BY <1>1 DEF WithinGasBounds, CheckUserOperation
  <2>. QED  BY <2>1
<1>3. uo.verification_gas_limit > MaxVerificationGas
        => CheckUserOperation(uo) = HighVerificationGasLimit(uo)
  BY DEF CheckUserOperation
<1>4. uo.verification_gas_limit <= MaxVerificationGas
        => CheckUserOperation(uo)
             = LowPreVerificationGas(uo, CalculatePreVerificationGas(uo))
  <2>. SUFFICES ASSUME uo.verification_gas_limit <= MaxVerificationGas
                PROVE  CheckUserOperation(uo)
                         = LowPreVerificationGas(uo, CalculatePreVerificationGas(uo))
    OBVIOUS
  <2>1. uo.pre_verification_gas < CalculatePreVerificationGas(uo)
    BY <1>1 DEF CheckUserOperation
  <2>. QED  BY <1>1, <2>1 DEF CheckUserOperation
<1>. QED  BY <1>2, <1>3, <1>4

-----------------------------------------------------------------------------
(* Type correctness: request phases, operations, check indices, reported   *)
(* results and pool entries always have the types the pipeline code gives *)
(* them, in particular the index of the next check never leaves            *)
(* 1..Len(Checks) + 1 however replies and cancellations interleave.        *)
THEOREM TypeCorrect == Spec => []TypeOK
<1>1. IInv => TypeOK
  BY DEF IInv
<1>. QED  BY <1>1, SpecIInv, PTL

(* Pool soundness: no interleaving of requests, replies, cancellations and *)
(* slot reuse admits to the pool an operation whose verification gas limit *)
(* exceeds max_verification_gas or whose pre_verification_gas is below     *)
(* calculate_pre_verification_gas (verification_gas.rs, check_user_operation). *)
THEOREM PoolSoundness == Spec => []PoolSound
<1>1. IInv => PoolSound
  BY DEF IInv
<1>. QED  BY <1>1, SpecIInv, PTL

(* Faithful rejection: whatever the interleaving, a request stopped at the *)
(* VerificationGas step was stopped by check_user_operation's own error    *)
(* (verification_gas.rs lines 19-32), for the first bound it violates in   *)
(* the code's order, and never for an operation within both bounds.        *)
THEOREM RejectionFaithfulness == Spec => []RejectionFaithful
<1>1. IInv => RejectionFaithful
  <2>. SUFFICES ASSUME IInv, NEW r \in Requests,
                       phase[r] = "rejected", next[r] = VerificationGasIndex
                PROVE  /\ ~WithinGasBounds(op[r])
                       /\ op[r].verification_gas_limit > MaxVerificationGas
                            => result[r] = HighVerificationGasLimit(op[r])
                       /\ op[r].verification_gas_limit <= MaxVerificationGas
                            => result[r] = LowPreVerificationGas(op[r],
                                             CalculatePreVerificationGas(op[r]))
    BY DEF RejectionFaithful
  <2>1. /\ op[r] \in Ops
        /\ result[r] = CheckUserOperation(op[r])
        /\ result[r] # CheckOk
    BY DEF IInv, SlotInv
  <2>. QED  BY <2>1, CheckErrorFacts
<1>. QED  BY <1>1, SpecIInv, PTL

=============================================================================
