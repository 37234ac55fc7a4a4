------------------------- MODULE MC_SanityPipeline -------------------------
(***************************************************************************)
(* Two concurrent requests, three registered checks with VerificationGas   *)
(* between two chain-state checks, and eight candidate operations placed   *)
(* on both sides of both gas bounds: the verification gas limit at the     *)
(* ceiling and one above it, the pre-verification gas at the exact         *)
(* overhead of the operation's own encoding and one below it.              *)
(***************************************************************************)
EXTENDS SanityPipeline, MCUserOperation

MCChecks == <<"Sender", "VerificationGas", "Paymaster">>

MCMaxVerificationGas == 100000

(* Two operations of different sizes, the second carrying call data and a  *)
(* signature.                                                              *)
BaseOps ==
  {[sender |-> Addr1, nonce |-> 0, init_code |-> <<>>, call_data |-> cd,
    call_gas_limit |-> 0, verification_gas_limit |-> 0,
    pre_verification_gas |-> 0, max_fee_per_gas |-> 0,
    max_priority_fee_per_gas |-> 1000000000, paymaster_and_data |-> <<>>,
    signature |-> sig] : <<cd, sig>> \in {<<<<>>, <<>>>>, <<<<7>>, <<9, 0>>>>}}

(* The pre-verification gas that equals the overhead of the operation      *)
(* declaring it, for each operation of BaseOps (the overhead depends on    *)
(* the bytes of the declared value itself); MCAssumption checks it.        *)
ExactPreGas(uo) == IF uo.call_data = <<>> THEN 23124 ELSE 23428

WithGas(uo, vgl, pvg) ==
  [uo EXCEPT !.verification_gas_limit = vgl, !.pre_verification_gas = pvg]

MCOps ==
  UNION {{WithGas(b, vgl, pvg) :
            vgl \in {MCMaxVerificationGas, MCMaxVerificationGas + 1},
            pvg \in {ExactPreGas(b) - 1, ExactPreGas(b)}} : b \in BaseOps}

(* ExactPreGas is the fixed point: with it declared, the operation's        *)
(* overhead is exactly the declared value.                                 *)
ASSUME MCAssumption ==
  \A b \in BaseOps, vgl \in {MCMaxVerificationGas, MCMaxVerificationGas + 1} :
    CalculatePreVerificationGas(WithGas(b, vgl, ExactPreGas(b)))
      = ExactPreGas(b)

=============================================================================
