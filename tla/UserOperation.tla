---------------------------- MODULE UserOperation ----------------------------
(***************************************************************************)
(* The user operation of src/src/types/user_operation.rs and the pure      *)
(* functions defined on it: the canonical ABI tuple encoding (pack,        *)
(* pack_for_signature, and decoding for Decompress), the operation hash    *)
(* bound to an entry point and a chain id, and the conversion of a draft   *)
(* UserOperationPartial into a UserOperation with its defaults.            *)
(*                                                                         *)
(* Data representation.  A byte string is a sequence over 0..255; an       *)
(* address is a sequence of 20 bytes; a U256 is a natural number (the      *)
(* model only uses values well below 2^256, so the 32-byte word of a       *)
(* number is its big-endian base-256 expansion).  keccak256 is idealised   *)
(* as an injective function: a digest is a record holding its preimage, so *)
(* two digests are equal exactly when their inputs are.  A digest stands   *)
(* for its 32 bytes as a single element of a byte string.                  *)
(*                                                                         *)
(* No RECURSIVE operator is used (the value of a word is a recursive       *)
(* function), so that modules proved with TLAPS may extend this one.       *)
(***************************************************************************)
EXTENDS Naturals, Sequences

WordSize == 32

Byte == 0..255

AddressSize == 20

(* The fields of a UserOperation and their types (U256 as Nat, Address as *)
(* 20 bytes, Bytes as a byte sequence).                                    *)
U256 == Nat

Address == [1..AddressSize -> Byte]

UserOperations ==
  [sender                   : Address,
   nonce                    : U256,
   init_code                : Seq(Byte),
   call_data                : Seq(Byte),
   call_gas_limit           : U256,
   verification_gas_limit   : U256,
   pre_verification_gas     : U256,
   max_fee_per_gas          : U256,
   max_priority_fee_per_gas : U256,
   paymaster_and_data       : Seq(Byte),
   signature                : Seq(Byte)]

(* The 32-byte big-endian encoding of a U256 (ethers AbiEncode of U256).   *)
Word(n) == [i \in 1..WordSize |-> (n \div 256^(WordSize - i)) % 256]

(* The 32-byte encoding of a 20-byte address: left-padded with zeros.      *)
AddressWord(a) == [i \in 1..(WordSize - AddressSize) |-> 0] \o a

(* The number a 32-byte big-endian word stands for (AbiDecode of U256).    *)
WordValue(w) ==
  LET acc[k \in 0..WordSize] == IF k = 0 THEN 0 ELSE acc[k - 1] * 256 + w[k]
  IN  acc[WordSize]

(* Mutant: a full word of padding after a value that fills its last word. *)
PadLengthNoWrap(l) == WordSize - (l % WordSize)

(* Zero bytes appended to a dynamic value to fill its last word.           *)
PadLength(l) == (WordSize - (l % WordSize)) % WordSize

(* Mutant: the length word counts words instead of bytes.                 *)
EncodeBytesWordLength(b) ==
  Word((Len(b) + PadLength(Len(b))) \div WordSize)
    \o b \o [i \in 1..PadLength(Len(b)) |-> 0]

(* The tail of a dynamic `bytes` field: its length word, then the bytes    *)
(* right-padded with zeros to a multiple of 32.                            *)
EncodeBytes(b) == Word(Len(b)) \o b \o [i \in 1..PadLength(Len(b)) |-> 0]

(* The head of the tuple has one word per field: 11 words.                 *)
HeadWords == 11

(***************************************************************************)
(* UserOperation::pack: the ABI tuple encoding derived by EthAbiCodec for  *)
(* the eleven fields in declaration order.  The four dynamic fields        *)
(* (init_code, call_data, paymaster_and_data, signature) have an offset    *)
(* word in the head, counted from the start of the tuple, and their tails  *)
(* follow the head in field order.                                         *)
(***************************************************************************)
Pack(uo) ==
  LET t1 == EncodeBytes(uo.init_code)
      t2 == EncodeBytes(uo.call_data)
      t3 == EncodeBytes(uo.paymaster_and_data)
      t4 == EncodeBytes(uo.signature)
      o1 == HeadWords * WordSize
      o2 == o1 + Len(t1)
      o3 == o2 + Len(t2)
      o4 == o3 + Len(t3)
  IN  AddressWord(uo.sender) \o Word(uo.nonce) \o Word(o1) \o Word(o2)
        \o Word(uo.call_gas_limit) \o Word(uo.verification_gas_limit)
        \o Word(uo.pre_verification_gas) \o Word(uo.max_fee_per_gas)
        \o Word(uo.max_priority_fee_per_gas) \o Word(o3) \o Word(o4)
        \o t1 \o t2 \o t3 \o t4

(***************************************************************************)
(* UserOperation::pack_for_signature: pack the operation with an empty     *)
(* signature and truncate the last 32 bytes, the length word of that empty *)
(* signature.                                                              *)
(***************************************************************************)
PackForSignature(uo) ==
  LET packed == Pack([uo EXCEPT !.signature = <<>>])
  IN  SubSeq(packed, 1, Len(packed) - 32)

(* keccak256, idealised as injective.                                      *)
Keccak256(bytes) == [keccak256 |-> bytes]

(***************************************************************************)
(* UserOperation::hash: keccak256 of the concatenation of                  *)
(* keccak256(pack_for_signature), the entry point's word and the chain     *)
(* id's word.                                                              *)
(***************************************************************************)
(* Mutant: the chain id left out of the outer hash.                        *)
HashWithoutChainId(uo, entryPoint, chainId) ==
  Keccak256(<<Keccak256(PackForSignature(uo))>> \o AddressWord(entryPoint))

Hash(uo, entryPoint, chainId) ==
  Keccak256(<<Keccak256(PackForSignature(uo))>>
              \o AddressWord(entryPoint) \o Word(chainId))

(***************************************************************************)
(* Decompress: AbiDecode of the tuple from its bytes, or DecodeError when  *)
(* the bytes are too short for the head, or an offset or a length points   *)
(* past their end.                                                         *)
(***************************************************************************)
DecodeError == [error |-> "DecodeError"]

Decompress(bytes) ==
  LET HeadWord(i)   == SubSeq(bytes, (i - 1) * WordSize + 1, i * WordSize)
      Num(i)        == WordValue(HeadWord(i))
      LenAt(off)    == WordValue(SubSeq(bytes, off + 1, off + WordSize))
      DynOk(i)      == /\ Num(i) + WordSize <= Len(bytes)
                       /\ Num(i) + WordSize + LenAt(Num(i)) <= Len(bytes)
      Dyn(i)        == SubSeq(bytes, Num(i) + WordSize + 1,
                              Num(i) + WordSize + LenAt(Num(i)))
  IN  IF /\ Len(bytes) >= HeadWords * WordSize
         /\ \A i \in {3, 4, 10, 11} : DynOk(i)
      THEN [sender                   |-> SubSeq(HeadWord(1),
                                                WordSize - AddressSize + 1,
                                                WordSize),
            nonce                    |-> Num(2),
            init_code                |-> Dyn(3),
            call_data                |-> Dyn(4),
            call_gas_limit           |-> Num(5),
            verification_gas_limit   |-> Num(6),
            pre_verification_gas     |-> Num(7),
            max_fee_per_gas          |-> Num(8),
            max_priority_fee_per_gas |-> Num(9),
            paymaster_and_data       |-> Dyn(10),
            signature                |-> Dyn(11)]
      ELSE DecodeError

(***************************************************************************)
(* UserOperationPartial: an Option field is a sequence of at most one      *)
(* element, <<>> for None and <<v>> for Some(v).                           *)
(***************************************************************************)
None == <<>>

Some(v) == <<v>>

Unwrap(opt, default) == IF opt = None THEN default ELSE opt[1]

(* Mutant: a placeholder one byte short.                                   *)
DummySignatureShort == [i \in 1..64 |-> 1]

(* The placeholder signature used when the draft has none: 65 bytes of 1.  *)
DummySignature == [i \in 1..65 |-> 1]

(* The verification gas limit assumed when the draft has none.            *)
DefaultVerificationGasLimit == 10000000

(* From<UserOperationPartial> for UserOperation.                           *)
FromPartial(p) ==
  [sender                   |-> p.sender,
   nonce                    |-> p.nonce,
   init_code                |-> Unwrap(p.init_code, <<>>),
   call_data                |-> Unwrap(p.call_data, <<>>),
   call_gas_limit           |-> Unwrap(p.call_gas_limit, 0),
   verification_gas_limit   |-> Unwrap(p.verification_gas_limit,
                                       DefaultVerificationGasLimit),
   pre_verification_gas     |-> Unwrap(p.pre_verification_gas, 0),
   max_fee_per_gas          |-> Unwrap(p.max_fee_per_gas, 0),
   max_priority_fee_per_gas |-> Unwrap(p.max_priority_fee_per_gas, 0),
   paymaster_and_data       |-> Unwrap(p.paymaster_and_data, <<>>),
   signature                |-> Unwrap(p.signature, DummySignature)]

(* Two operations that agree on every field except the signature.          *)
SameButSignature(uo1, uo2) ==
  [uo1 EXCEPT !.signature = <<>>] = [uo2 EXCEPT !.signature = <<>>]

=============================================================================
