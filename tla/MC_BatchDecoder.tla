--------------------------- MODULE MC_BatchDecoder ---------------------------
(***************************************************************************)
(* Model checking of parse_from_input_data over every batch of at most     *)
(* MaxBatch operations drawn from three distinct ones and every            *)
(* beneficiary: the state is the batch and the beneficiary of one          *)
(* handleOps call, and every step picks another.                           *)
(***************************************************************************)
EXTENDS BatchDecoder, MCUserOperation

VARIABLES batch, beneficiary

vars == <<batch, beneficiary>>

(* The largest batch: three elements put a middle one between two others,  *)
(* so an order or offset mistake shows.                                    *)
MaxBatch == 3

(* Above every length the model's data reach: WordValue of a word with a   *)
(* non-zero byte above the fourth from the right (an address read as a     *)
(* number) exceeds every length, and is only compared with lengths.        *)
Huge == 2^20

(* WordValue for TLC: the exact value when it fits the low four bytes,     *)
(* and Huge otherwise (256^k overflows TLC's integers for k > 3).          *)
MCWordValue(w) ==
  IF \E i \in 1..(WordSize - 4) : w[i] # 0
  THEN Huge
  ELSE LET acc[k \in (WordSize - 4)..WordSize] ==
             IF k = WordSize - 4 THEN 0 ELSE acc[k - 1] * 256 + w[k]
       IN  acc[WordSize]

(* Three operations that differ in the sender, in both fee fields (so a    *)
(* crossed copy shows) and in the length of every dynamic field.           *)
OpA ==
  [sender |-> Addr0, nonce |-> 0, init_code |-> <<>>, call_data |-> <<>>,
   call_gas_limit |-> 0, verification_gas_limit |-> 100000,
   pre_verification_gas |-> 21000, max_fee_per_gas |-> 0,
   max_priority_fee_per_gas |-> 1000000000, paymaster_and_data |-> <<>>,
   signature |-> <<>>]

OpB ==
  [OpA EXCEPT !.sender = Addr1, !.nonce = 1, !.call_data = <<7>>,
              !.signature = <<9, 0>>, !.max_fee_per_gas = 3]

OpC ==
  [OpA EXCEPT !.sender = Addr2, !.init_code = Bytes(33, 5),
              !.paymaster_and_data = <<6>>, !.max_priority_fee_per_gas = 2]

BatchOps == {OpA, OpB, OpC}

Batches == UNION {[1..k -> BatchOps] : k \in 0..MaxBatch}

Beneficiaries == {Addr0, Addr1, Addr2}

Init == batch \in Batches /\ beneficiary \in Beneficiaries

Next == batch' \in Batches /\ beneficiary' \in Beneficiaries

Spec == Init /\ [][Next]_vars

-----------------------------------------------------------------------------
TypeOK == batch \in Batches /\ beneficiary \in Beneficiaries

HandleOpsData == EncodeHandleOps(batch, beneficiary)

(* parse_from_input_data returns the operations of a handleOps call, all   *)
(* of them and in the order they were encoded (spec section 4.5), through  *)
(* both From conversions; an empty batch gives Some of no operations.      *)
BatchRoundTrip == ParseFromInputData(HandleOpsData) = Some(batch)

(* The lengths a truncated call is cut to: every word boundary of the       *)
(* arguments, one byte past it and one byte short of it, since the decoder *)
(* reads whole words and byte strings of a given length.                   *)
Cuts == {k \in 0..(Len(HandleOpsData) - 1) : (k - 4) % WordSize \in {0, 1, 31}}

(* Input data cut short (a partly received or tampered call) is rejected   *)
(* or decodes to the whole batch: the decoder never returns a batch with   *)
(* operations lost or altered.                                             *)
TruncatedBatchSafe ==
  \A k \in Cuts :
    ParseFromInputData(SubSeq(HandleOpsData, 1, k)) \in {None, Some(batch)}

=============================================================================
