------------------------- MODULE MC_GasEstimation -------------------------
(***************************************************************************)
(* Three drafts without gas values or signature, simulated gas values of   *)
(* two and three significant bytes, and signatures of the placeholder's    *)
(* size (all bytes non-zero, or some zero) and shorter.                    *)
(***************************************************************************)
EXTENDS GasEstimation, MCUserOperation

DraftOf(cd, pmd) ==
  [sender |-> Addr1, nonce |-> 0, init_code |-> None, call_data |-> cd,
   call_gas_limit |-> None, verification_gas_limit |-> None,
   pre_verification_gas |-> None, max_fee_per_gas |-> Some(3000),
   max_priority_fee_per_gas |-> Some(1000), paymaster_and_data |-> pmd,
   signature |-> None]

MCDrafts ==
  {DraftOf(None, None), DraftOf(Some(<<7, 0, 7>>), None),
   DraftOf(None, Some(Bytes(20, 5)))}

(* A 65-byte signature with a zero byte in it (r, s, v with a leading zero *)
(* byte of s), one with no zero byte, a 64-byte one and an empty one.      *)
MCSignatures ==
  {[i \in 1..65 |-> IF i = 33 THEN 0 ELSE 28], Bytes(65, 27), Bytes(64, 27),
   <<>>}

MCSimulatedGas == {50000, 100000, 1500000}

=============================================================================
