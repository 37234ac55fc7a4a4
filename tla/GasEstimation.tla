--------------------------- MODULE GasEstimation ---------------------------
(***************************************************************************)
(* Gas estimation followed by submission, as a client drives it.  The      *)
(* client holds a draft (UserOperationPartial) without gas values or       *)
(* signature and asks the relay for an estimate; the relay converts the    *)
(* draft into a UserOperation with the defaults of From<UserOperationPartial>*)
(* (src/src/types/user_operation.rs) and answers with the overhead of that *)
(* operation as preVerificationGas, and with the verification and call gas *)
(* its simulation found.  The client fills these values into the draft,    *)
(* signs it and submits it, and the VerificationGas check judges it.       *)
(*                                                                         *)
(* The estimation handler and the simulation are outside src/ and are      *)
(* modelled from spec sections 3 and 6: the simulated gas values are a     *)
(* nondeterministic choice from SimulatedGas.                              *)
(***************************************************************************)
EXTENDS VerificationGas

CONSTANTS
  Drafts,        \* drafts the client may start from
  Signatures,    \* signatures the client may sign with
  SimulatedGas   \* gas values the simulation may report

ASSUME EstimationAssumption ==
  /\ SimulatedGas \subseteq Nat
  /\ Signatures \subseteq Seq(Byte)

VARIABLES
  stage,     \* "draft", "estimated" or "judged"
  draft,     \* the client's draft
  estimate,  \* the relay's UserOperationGasEstimation
  final,     \* the operation the client submits
  verdict    \* the VerificationGas check's result on it

vars == <<stage, draft, estimate, final, verdict>>

NoEstimate == [pre_verification_gas |-> 0, verification_gas_limit |-> 0,
               call_gas_limit |-> 0]

Init ==
  /\ stage = "draft"
  /\ draft \in Drafts
  /\ estimate = NoEstimate
  /\ final = FromPartial(draft)
  /\ verdict = NoResult

(* The relay converts the draft with its defaults and estimates its gas.   *)
EstimateGas ==
  /\ stage = "draft"
  /\ \E vg, cg \in SimulatedGas :
       estimate' = [pre_verification_gas   |->
                      CalculatePreVerificationGas(FromPartial(draft)),
                    verification_gas_limit |-> vg,
                    call_gas_limit         |-> cg]
  /\ stage' = "estimated"
  /\ UNCHANGED <<draft, final, verdict>>

(* The client fills the estimate into the draft, signs and submits; the    *)
(* VerificationGas check judges the resulting operation.                   *)
SubmitEstimated ==
  /\ stage = "estimated"
  /\ \E sig \in Signatures :
       LET uo == FromPartial(
                   [draft EXCEPT
                      !.pre_verification_gas   =
                          Some(estimate.pre_verification_gas),
                      !.verification_gas_limit =
                          Some(estimate.verification_gas_limit),
                      !.call_gas_limit         = Some(estimate.call_gas_limit),
                      !.signature              = Some(sig)])
       IN  /\ final' = uo
           /\ verdict' = CheckUserOperation(uo)
  /\ stage' = "judged"
  /\ UNCHANGED <<draft, estimate>>

(* The client starts over with another draft.                              *)
NewDraft ==
  /\ stage = "judged"
  /\ \E d \in Drafts :
       /\ draft' = d
       /\ final' = FromPartial(d)
  /\ stage' = "draft"
  /\ estimate' = NoEstimate
  /\ verdict' = NoResult

Next == EstimateGas \/ SubmitEstimated \/ NewDraft

Spec == Init /\ [][Next]_vars

-----------------------------------------------------------------------------
(* The placeholder signature of From<UserOperationPartial> is large enough: *)
(* the overhead of the draft converted with it is at least the overhead of *)
(* the same operation carrying any real signature of at most 65 bytes, so  *)
(* the estimate never undercharges for the signature it stands for.        *)
DummySignatureCovers ==
  \A sig \in Signatures :
    Len(sig) <= 65 =>
      CalculatePreVerificationGas([final EXCEPT !.signature = sig])
        <= CalculatePreVerificationGas([final EXCEPT !.signature = DummySignature])

(* Spec section 3: the dummy signature makes "gas estimation against a      *)
(* correctly-sized payload accurate": an operation built from the relay's  *)
(* own estimate and signed with a signature of the placeholder's size is   *)
(* not turned away for too low a pre-verification gas.                     *)
EstimateAccepted ==
  stage = "judged" /\ Len(final.signature) = Len(DummySignature)
    => verdict.kind # "LowPreVerificationGas"

=============================================================================
