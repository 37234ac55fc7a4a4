---------------------------- MODULE BatchDecoder ----------------------------
(***************************************************************************)
(* The batch decoder parse_from_input_data of                              *)
(* src/src/types/user_operation.rs: the input data of an entry point call  *)
(* is decoded as an EntryPointAPICalls value, and only a handleOps call    *)
(* yields its operations, converted from entry_point_api::UserOperation,   *)
(* in encoded order; any other call, and any undecodable input, yields     *)
(* None (an Option is <<>> or <<v>>, as in UserOperation).                 *)
(*                                                                         *)
(* The generated bindings and the ABI decoder they call are not under      *)
(* src/ and are modelled from spec sections 4.5 and 6 and the ABI rules    *)
(* the codec already follows: a call is a 4-byte selector and the ABI      *)
(* encoding of its argument tuple; decoding checks the selector, reads     *)
(* offsets and lengths, fails when one points past the end of the data,    *)
(* and ignores trailing bytes.  Two calls of the entry point are modelled: *)
(* handleOps(UserOperation[] ops, address beneficiary) and                 *)
(* simulateValidation(UserOperation op), which has another selector.       *)
(***************************************************************************)
EXTENDS UserOperation

LOCAL Seqs == INSTANCE SequencesExt

(* The selectors of handleOps (0x1fad948c) and simulateValidation          *)
(* (0xee219423).                                                           *)
HandleOpsSelector == <<31, 173, 148, 140>>

SimulateValidationSelector == <<238, 33, 148, 35>>

(* From<UserOperation> for entry_point_api::UserOperation: a copy of the   *)
(* eleven fields into the bindings' struct.                                *)
ToEntryPointOp(uo) ==
  [sender |-> uo.sender, nonce |-> uo.nonce, init_code |-> uo.init_code,
   call_data |-> uo.call_data, call_gas_limit |-> uo.call_gas_limit,
   verification_gas_limit |-> uo.verification_gas_limit,
   pre_verification_gas |-> uo.pre_verification_gas,
   max_fee_per_gas |-> uo.max_fee_per_gas,
   max_priority_fee_per_gas |-> uo.max_priority_fee_per_gas,
   paymaster_and_data |-> uo.paymaster_and_data, signature |-> uo.signature]

(* Mutant: the two fee fields crossed over in the copy.                    *)
FromEntryPointOpFeesSwapped(t) ==
  [sender |-> t.sender, nonce |-> t.nonce, init_code |-> t.init_code,
   call_data |-> t.call_data, call_gas_limit |-> t.call_gas_limit,
   verification_gas_limit |-> t.verification_gas_limit,
   pre_verification_gas |-> t.pre_verification_gas,
   max_fee_per_gas |-> t.max_priority_fee_per_gas,
   max_priority_fee_per_gas |-> t.max_fee_per_gas,
   paymaster_and_data |-> t.paymaster_and_data, signature |-> t.signature]

(* From<entry_point_api::UserOperation> for UserOperation.                 *)
FromEntryPointOp(t) ==
  [sender |-> t.sender, nonce |-> t.nonce, init_code |-> t.init_code,
   call_data |-> t.call_data, call_gas_limit |-> t.call_gas_limit,
   verification_gas_limit |-> t.verification_gas_limit,
   pre_verification_gas |-> t.pre_verification_gas,
   max_fee_per_gas |-> t.max_fee_per_gas,
   max_priority_fee_per_gas |-> t.max_priority_fee_per_gas,
   paymaster_and_data |-> t.paymaster_and_data, signature |-> t.signature]

(***************************************************************************)
(* The input data of handleOps(ops, beneficiary), as a bundler sends it:   *)
(* the selector, the head (offset of the array, beneficiary), the array    *)
(* length, one offset per element counted from the end of the length word, *)
(* and the elements, each the tuple encoding of the operation (Pack).      *)
(***************************************************************************)
EncodeHandleOps(ops, beneficiary) ==
  LET n      == Len(ops)
      elems  == [i \in 1..n |-> Pack(ToEntryPointOp(ops[i]))]
      start[i \in 0..n] ==
        IF i = 0 THEN WordSize * n ELSE start[i - 1] + Len(elems[i])
      offsets == Seqs!FlattenSeq([i \in 1..n |-> Word(start[i - 1])])
  IN  HandleOpsSelector \o Word(2 * WordSize) \o AddressWord(beneficiary)
        \o Word(n) \o offsets \o Seqs!FlattenSeq(elems)

(* The input data of simulateValidation(op): the offset of the tuple, then *)
(* the tuple.                                                              *)
EncodeSimulateValidation(uo) ==
  SimulateValidationSelector \o Word(WordSize) \o Pack(ToEntryPointOp(uo))

(* Mutant: a lenient decoder that returns the elements up to the first one *)
(* that does not decode, instead of failing the whole array.               *)
DecodeHandleOpsArgsPrefix(args) ==
  LET WordAt(k)  == WordValue(SubSeq(args, k + 1, k + WordSize))
      arrayAt    == WordAt(0)
      n          == WordAt(arrayAt)
      base       == arrayAt + WordSize
      ElemAt(i)  == base + WordAt(base + WordSize * (i - 1))
      Elem(i)    == Decompress(SubSeq(args, ElemAt(i) + 1, Len(args)))
      Good(i)    == ElemAt(i) <= Len(args) /\ Elem(i) # DecodeError
      m          == CHOOSE m \in 0..n : /\ \A i \in 1..m : Good(i)
                                       /\ m < n => ~Good(m + 1)
  IN  IF /\ Len(args) >= 2 * WordSize
         /\ arrayAt + WordSize <= Len(args)
         /\ base + WordSize * n <= Len(args)
      THEN [ops |-> [i \in 1..m |-> Elem(i)]]
      ELSE DecodeError

(***************************************************************************)
(* ABI decoding of the handleOps arguments (the bytes after the selector): *)
(* the record of the ops array, or DecodeError.  Every word is read only   *)
(* after the data is known to hold it.                                     *)
(***************************************************************************)
DecodeHandleOpsArgs(args) ==
  LET WordAt(k)  == WordValue(SubSeq(args, k + 1, k + WordSize))
      arrayAt    == WordAt(0)
      n          == WordAt(arrayAt)
      base       == arrayAt + WordSize
      ElemAt(i)  == base + WordAt(base + WordSize * (i - 1))
      Elem(i)    == Decompress(SubSeq(args, ElemAt(i) + 1, Len(args)))
  IN  IF /\ Len(args) >= 2 * WordSize
         /\ arrayAt + WordSize <= Len(args)
         /\ base + WordSize * n <= Len(args)
         /\ \A i \in 1..n : ElemAt(i) <= Len(args) /\ Elem(i) # DecodeError
      THEN [ops |-> [i \in 1..n |-> Elem(i)]]
      ELSE DecodeError

(***************************************************************************)
(* parse_from_input_data: EntryPointAPICalls::decode tries each call of    *)
(* the entry point, and a call decodes only under its own selector; a      *)
(* HandleOps call maps its ops to UserOperations, any other call or a      *)
(* decoding error (.ok()) gives None.                                      *)
(***************************************************************************)
ParseFromInputData(data) ==
  LET decoded == DecodeHandleOpsArgs(SubSeq(data, 5, Len(data)))
  IN  IF /\ Len(data) >= 4
         /\ SubSeq(data, 1, 4) = HandleOpsSelector
         /\ decoded # DecodeError
      THEN Some([i \in DOMAIN decoded.ops |-> FromEntryPointOp(decoded.ops[i])])
      ELSE None

=============================================================================
