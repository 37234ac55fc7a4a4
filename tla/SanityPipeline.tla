--------------------------- MODULE SanityPipeline ---------------------------
(***************************************************************************)
(* The sanity check pipeline that admits user operations into the pool.    *)
(*                                                                         *)
(* Several validation requests run concurrently, each on one candidate     *)
(* operation.  A request runs the registered checks sequentially in their  *)
(* registration order Checks and stops at the first failure.  The          *)
(* VerificationGas check (src/crates/uopool/src/validate/sanity/           *)
(* verification_gas.rs) is synchronous; every other check consults chain   *)
(* state, so the request suspends on a query to the node and resumes when  *)
(* the reply comes back with that check's verdict.  The caller may abandon *)
(* a request while it runs or waits.  A request that passes every check is *)
(* admitted to the pool under its hash.  Request slots are reused: once    *)
(* the caller has taken the result, the slot takes a new operation.        *)
(*                                                                         *)
(* The pipeline loop, the chain-state checks and the pool live outside     *)
(* src/ and are modelled from spec sections 4.4, 5 and 7; the              *)
(* VerificationGas check is translated from the source.                    *)
(***************************************************************************)
EXTENDS VerificationGas

CONSTANTS
  Requests,            \* concurrent validation requests
  Ops,                 \* candidate user operations
  Checks,              \* names of the registered checks, in order
  EntryPoint,          \* the entry point address the hash is bound to
  ChainId,             \* the chain id the hash is bound to
  NoOp                 \* the operation of an idle request slot

ASSUME PipelineAssumption ==
  /\ Checks \in Seq(STRING)
  /\ \E i \in 1..Len(Checks) : Checks[i] = VerificationGasName
  /\ \A i, j \in 1..Len(Checks) : Checks[i] = Checks[j] => i = j
  /\ Ops \subseteq UserOperations
  /\ \A uo \in Ops : CalculatePreVerificationGas(uo) \in U256
  /\ NoOp \notin Ops

(* Position of the VerificationGas check in the registration order.        *)
VerificationGasIndex ==
  CHOOSE i \in 1..Len(Checks) : Checks[i] = VerificationGasName

(* The error of a chain-state check, named after the check.                *)
ChainCheckError(c) == [kind |-> c]

-----------------------------------------------------------------------------
VARIABLES
  phase,    \* phase of each request
  op,       \* the operation each request validates
  next,     \* index in Checks of the next check to run
  result,   \* the outcome reported to the caller
  pool      \* entries admitted to the pool

vars == <<phase, op, next, result, pool>>

(* The pool entry of an admitted operation: UserOperation::hash, bound to *)
(* the entry point and the chain id, and the operation itself.             *)
PoolEntry(uo) == [hash |-> Hash(uo, EntryPoint, ChainId), op |-> uo]

Phases == {"idle", "running", "waiting", "accepted", "rejected", "cancelled"}

Terminal == {"accepted", "rejected", "cancelled"}

Init ==
  /\ phase = [r \in Requests |-> "idle"]
  /\ op = [r \in Requests |-> NoOp]
  /\ next = [r \in Requests |-> 1]
  /\ result = [r \in Requests |-> NoResult]
  /\ pool = {}

(* A caller submits an operation for validation.                           *)
Submit(r, uo) ==
  /\ phase[r] = "idle"
  /\ phase' = [phase EXCEPT ![r] = "running"]
  /\ op' = [op EXCEPT ![r] = uo]
  /\ UNCHANGED <<next, result, pool>>

(* Mutant: the request moves on to the next check whatever the verdict.   *)
RunVerificationGasNoEarlyReturn(r) ==
  /\ phase[r] = "running"
  /\ next[r] <= Len(Checks)
  /\ Checks[next[r]] = VerificationGasName
  /\ next' = [next EXCEPT ![r] = @ + 1]
  /\ UNCHANGED <<phase, op, result, pool>>

(* The VerificationGas check runs synchronously: on success the request    *)
(* moves to the next check, on failure it stops with the error.            *)
RunVerificationGas(r) ==
  LET res == CheckUserOperation(op[r])
  IN  /\ phase[r] = "running"
      /\ next[r] <= Len(Checks)
      /\ Checks[next[r]] = VerificationGasName
      /\ \/ /\ res = CheckOk
            /\ next' = [next EXCEPT ![r] = @ + 1]
            /\ UNCHANGED <<phase, result>>
         \/ /\ res # CheckOk
            /\ phase' = [phase EXCEPT ![r] = "rejected"]
            /\ result' = [result EXCEPT ![r] = res]
            /\ UNCHANGED next
      /\ UNCHANGED <<op, pool>>

(* A chain-state check issues its query to the node and suspends.          *)
QueryChain(r) ==
  /\ phase[r] = "running"
  /\ next[r] <= Len(Checks)
  /\ Checks[next[r]] # VerificationGasName
  /\ phase' = [phase EXCEPT ![r] = "waiting"]
  /\ UNCHANGED <<op, next, result, pool>>

(* The node's reply resumes the check, which passes or fails.              *)
ChainReply(r) ==
  /\ phase[r] = "waiting"
  /\ \/ /\ phase' = [phase EXCEPT ![r] = "running"]
        /\ next' = [next EXCEPT ![r] = @ + 1]
        /\ UNCHANGED result
     \/ /\ phase' = [phase EXCEPT ![r] = "rejected"]
        /\ result' = [result EXCEPT ![r] = ChainCheckError(Checks[next[r]])]
        /\ UNCHANGED next
  /\ UNCHANGED <<op, pool>>

(* Every check passed: the operation is admitted under its hash.           *)
Admit(r) ==
  /\ phase[r] = "running"
  /\ next[r] = Len(Checks) + 1
  /\ phase' = [phase EXCEPT ![r] = "accepted"]
  /\ result' = [result EXCEPT ![r] = CheckOk]
  /\ pool' = pool \cup {PoolEntry(op[r])}
  /\ UNCHANGED <<op, next>>

(* The caller abandons the request; its pending query is dropped.          *)
Cancel(r) ==
  /\ phase[r] \in {"running", "waiting"}
  /\ phase' = [phase EXCEPT ![r] = "cancelled"]
  /\ UNCHANGED <<op, next, result, pool>>

(* Mutant: the slot's check index reset to 0 instead of 1.                 *)
FinishZeroIndex(r) ==
  /\ phase[r] \in Terminal
  /\ phase' = [phase EXCEPT ![r] = "idle"]
  /\ op' = [op EXCEPT ![r] = NoOp]
  /\ next' = [next EXCEPT ![r] = 0]
  /\ result' = [result EXCEPT ![r] = NoResult]
  /\ UNCHANGED pool

(* The caller takes the outcome and the slot becomes idle.                 *)
Finish(r) ==
  /\ phase[r] \in Terminal
  /\ phase' = [phase EXCEPT ![r] = "idle"]
  /\ op' = [op EXCEPT ![r] = NoOp]
  /\ next' = [next EXCEPT ![r] = 1]
  /\ result' = [result EXCEPT ![r] = NoResult]
  /\ UNCHANGED pool

Next ==
  \E r \in Requests :
    \/ \E uo \in Ops : Submit(r, uo)
    \/ RunVerificationGas(r)
    \/ QueryChain(r)
    \/ ChainReply(r)
    \/ Admit(r)
    \/ Cancel(r)
    \/ Finish(r)

Spec == Init /\ [][Next]_vars

-----------------------------------------------------------------------------
Results ==
  {CheckOk, NoResult}
    \cup {HighVerificationGasLimit(uo) : uo \in Ops}
    \cup {LowPreVerificationGas(uo, CalculatePreVerificationGas(uo)) : uo \in Ops}
    \cup {ChainCheckError(Checks[i]) : i \in 1..Len(Checks)}

TypeOK ==
  /\ phase \in [Requests -> Phases]
  /\ op \in [Requests -> Ops \cup {NoOp}]
  /\ next \in [Requests -> 1..(Len(Checks) + 1)]
  /\ result \in [Requests -> Results]
  /\ pool \subseteq {PoolEntry(uo) : uo \in Ops}

(* Every operation in the pool meets both gas bounds, whatever the order   *)
(* of the checks, the interleaving of the requests and the cancellations:  *)
(* no request reaches admission without the VerificationGas check having   *)
(* accepted its operation.                                                 *)
PoolSound == \A e \in pool : WithinGasBounds(e.op)

(* A request rejected by the VerificationGas check was rejected rightly,   *)
(* and for the first bound its operation violates in the order of the      *)
(* code, with the declared and the limiting values: an operation within    *)
(* both bounds is never turned away, and a gas limit above the ceiling is  *)
(* reported as such even when the pre-verification gas is also too low.    *)
RejectionFaithful ==
  \A r \in Requests :
    phase[r] = "rejected" /\ next[r] = VerificationGasIndex =>
      /\ ~WithinGasBounds(op[r])
      /\ op[r].verification_gas_limit > MaxVerificationGas
           => result[r] = HighVerificationGasLimit(op[r])
      /\ op[r].verification_gas_limit <= MaxVerificationGas
           => result[r] = LowPreVerificationGas(op[r],
                             CalculatePreVerificationGas(op[r]))

-----------------------------------------------------------------------------
(***************************************************************************)
(* The inductive invariant behind PoolSound and TypeOK.  PoolSound alone   *)
(* is not inductive: admission reads the operation of a request that has   *)
(* run all its checks, so the invariant must say that a request past the   *)
(* VerificationGas check holds an operation within the bounds.  That in    *)
(* turn needs an idle slot to restart at the first check (else a reused    *)
(* slot could skip VerificationGas), and a suspended request to be waiting *)
(* on a chain-state check (so that its reply never skips VerificationGas). *)
(* A request stopped at the VerificationGas step holds that check's error  *)
(* (chain-state checks never fail at that index): RejectionFaithful.       *)
(***************************************************************************)
SlotInv(r) ==
  /\ phase[r] = "idle" => next[r] = 1
  /\ phase[r] # "idle" => op[r] \in Ops
  /\ phase[r] = "waiting" =>
       next[r] <= Len(Checks) /\ Checks[next[r]] # VerificationGasName
  /\ phase[r] # "idle" /\ next[r] > VerificationGasIndex =>
       WithinGasBounds(op[r])
  /\ phase[r] = "rejected" /\ next[r] = VerificationGasIndex =>
       /\ result[r] = CheckUserOperation(op[r])
       /\ result[r] # CheckOk

IInv ==
  /\ TypeOK
  /\ \A r \in Requests : SlotInv(r)
  /\ PoolSound

=============================================================================
