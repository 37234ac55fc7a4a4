---------------------------- MODULE OverheadProofs ----------------------------
(***************************************************************************)
(* Proofs about the overhead calculator (Overhead.tla) and the dummy      *)
(* signature of gas estimation (GasEstimation.tla): the packed operation  *)
(* is the signed prefix followed by the signature's tail, the zero-byte   *)
(* count and so the byte cost are additive over concatenation, and so the *)
(* overhead charged for the signature is the cost of its tail alone,      *)
(* whatever the rest of the operation holds.                              *)
(***************************************************************************)
EXTENDS GasEstimation, UserOperationProofs, FiniteSetTheorems, TLAPS

(* The zero bytes of a concatenation are those of its two parts.          *)
LEMMA ZeroCountConcat ==
  ASSUME NEW a \in Seq(Byte), NEW b \in Seq(Byte)
  PROVE  ZeroCount(a \o b) = ZeroCount(a) + ZeroCount(b)
<1>. DEFINE A  == {i \in DOMAIN a : a[i] = 0}
            B  == {j \in DOMAIN b : b[j] = 0}
            B2 == {i \in Len(a)+1..Len(a)+Len(b) : b[i - Len(a)] = 0}
            C  == {i \in DOMAIN (a \o b) : (a \o b)[i] = 0}
<1>1. C = A \cup B2 /\ A \cap B2 = {}
  OBVIOUS
<1>2. IsFiniteSet(A) /\ IsFiniteSet(B) /\ IsFiniteSet(B2)
  <2>1. IsFiniteSet(1..Len(a)) /\ IsFiniteSet(1..Len(b))
        /\ IsFiniteSet(Len(a)+1..Len(a)+Len(b))
    BY FS_Interval
  <2>. QED  BY <2>1, FS_Subset
<1>3. Cardinality(B2) = Cardinality(B)
  <2>. DEFINE f == [j \in B |-> j + Len(a)]
  <2>1. f \in Bijection(B, B2)
    BY DEF Bijection, Injection, Surjection, IsInjective
  <2>. QED  BY <1>2, <2>1, FS_Bijection DEF ExistsBijection
<1>4. Cardinality(C) = Cardinality(A) + Cardinality(B2)
  <2>1. Cardinality(A \cup B2)
          = Cardinality(A) + Cardinality(B2) - Cardinality(A \cap B2)
    BY <1>2, FS_Union
  <2>2. Cardinality(A \cap B2) = 0
    BY <1>1, FS_EmptySet
  <2>3. Cardinality(A) \in Nat /\ Cardinality(B2) \in Nat
    BY <1>2, FS_CardinalityType
  <2>4. Cardinality(C) = Cardinality(A \cup B2)
    BY <1>1, Zenon
  <2>. HIDE DEF A, B2, C
  <2>. QED  BY <2>1, <2>2, <2>3, <2>4
<1>. QED  BY <1>3, <1>4 DEF ZeroCount

(* The zero bytes of a byte string are finitely many, at most its length. *)
LEMMA ZeroCountBound ==
  ASSUME NEW a \in Seq(Byte)
  PROVE  ZeroCount(a) \in 0..Len(a)
<1>. DEFINE A == {i \in DOMAIN a : a[i] = 0}
<1>0. Len(a) \in Nat
  OBVIOUS
<1>1. IsFiniteSet(1..Len(a)) /\ Cardinality(1..Len(a)) = Len(a)
  <2>1. IsFiniteSet(1..Len(a))
        /\ Cardinality(1..Len(a)) = IF 1 > Len(a) THEN 0 ELSE Len(a) - 1 + 1
    BY <1>0, FS_Interval
  <2>. QED  BY <1>0, <2>1
<1>2. A \subseteq 1..Len(a)
  OBVIOUS
<1>3. IsFiniteSet(A) /\ Cardinality(A) <= Cardinality(1..Len(a))
  BY <1>1, <1>2, FS_Subset
<1>4. Cardinality(A) \in Nat
  BY <1>3, FS_CardinalityType
<1>5. ZeroCount(a) = Cardinality(A)
  BY DEF ZeroCount
<1>. HIDE DEF A
<1>. QED  BY <1>1, <1>3, <1>4, <1>5

(* The gas the overhead calculator charges for the bytes of a string: a   *)
(* fixed price per zero byte and another per non-zero byte.               *)
ByteCost(bytes) ==
  ZeroCount(bytes) * ZeroByteCost + (Len(bytes) - ZeroCount(bytes)) * NonZeroByteCost

(* The byte cost of a string is a natural number.                         *)
LEMMA ByteCostType ==
  ASSUME NEW a \in Seq(Byte)
  PROVE  ByteCost(a) \in Nat
<1>1. ZeroCount(a) \in 0..Len(a)
  BY ZeroCountBound
<1>. QED  BY <1>1, CostTableAssumption DEF ByteCost

(* The byte cost of a concatenation is the sum of the parts' costs.       *)
LEMMA ByteCostConcat ==
  ASSUME NEW a \in Seq(Byte), NEW b \in Seq(Byte)
  PROVE  ByteCost(a \o b) = ByteCost(a) + ByteCost(b)
<1>1. ZeroCount(a \o b) = ZeroCount(a) + ZeroCount(b)
  BY ZeroCountConcat
<1>2. Len(a \o b) = Len(a) + Len(b)
  OBVIOUS
<1>3. ZeroCount(a) \in Nat /\ ZeroCount(b) \in Nat
  BY ZeroCountBound
<1>4. Len(a) \in Nat /\ Len(b) \in Nat
  OBVIOUS
<1>5. \A za, zb, la, lb, z, n \in Nat :
        (za + zb) * z + ((la + lb) - (za + zb)) * n
          = (za * z + (la - za) * n) + (zb * z + (lb - zb) * n)
  OBVIOUS
<1>6. ByteCost(a \o b) = (ZeroCount(a) + ZeroCount(b)) * ZeroByteCost
                        + ((Len(a) + Len(b)) - (ZeroCount(a) + ZeroCount(b))) * NonZeroByteCost
  BY <1>1, <1>2 DEF ByteCost
<1>. QED  BY <1>3, <1>4, <1>5, <1>6, CostTableAssumption DEF ByteCost

(* The overhead calculator charges the fixed overhead plus the byte cost   *)
(* of the packed operation.                                                *)
LEMMA OverheadIsByteCost ==
  ASSUME NEW uo, Pack(uo) \in Seq(Byte)
  PROVE  CalculatePreVerificationGas(uo) = FixedOverhead + ByteCost(Pack(uo))
<1>1. ZeroCount(Pack(uo)) \in 0..Len(Pack(uo))
  BY ZeroCountBound
<1>. QED  BY <1>1, CostTableAssumption DEF CalculatePreVerificationGas, ByteCost

(* The signed prefix (pack_for_signature) is a byte string.               *)
LEMMA PackForSignatureType ==
  ASSUME NEW uo \in UserOperations
  PROVE  PackForSignature(uo) \in Seq(Byte)
<1>1. Cat11(HeadFields(uo)) \in Seq(Byte)
  <2>1. Cat11Layout(HeadFields(uo))
    BY HeadFieldsWords, Cat11Type
  <2>. QED  BY <2>1 DEF Cat11Layout
<1>2. /\ EncodeBytes(uo.init_code) \in Seq(Byte)
      /\ EncodeBytes(uo.call_data) \in Seq(Byte)
      /\ EncodeBytes(uo.paymaster_and_data) \in Seq(Byte)
  <2>1. /\ uo.init_code \in Seq(Byte) /\ uo.call_data \in Seq(Byte)
        /\ uo.paymaster_and_data \in Seq(Byte)
    BY DEF UserOperations
  <2>. QED  BY <2>1, EncodeBytesType
<1>3. PackForSignature(uo) = Cat11(HeadFields(uo)) \o EncodeBytes(uo.init_code)
                               \o EncodeBytes(uo.call_data)
                               \o EncodeBytes(uo.paymaster_and_data)
  BY PackForSignatureShape
<1>. QED  BY <1>1, <1>2, <1>3

(* Packing an operation with any signature s gives the signed prefix of   *)
(* the operation followed by the tail of s: the head words and the other  *)
(* three tails do not depend on the signature (user_operation.rs, pack    *)
(* and pack_for_signature).                                                *)
LEMMA PackWithSignature ==
  ASSUME NEW uo \in UserOperations, NEW s \in Seq(Byte)
  PROVE  Pack([uo EXCEPT !.signature = s]) = PackForSignature(uo) \o EncodeBytes(s)
<1>. DEFINE us == [uo EXCEPT !.signature = s]
<1>1. /\ us.sender = uo.sender /\ us.nonce = uo.nonce
      /\ us.init_code = uo.init_code /\ us.call_data = uo.call_data
      /\ us.call_gas_limit = uo.call_gas_limit
      /\ us.verification_gas_limit = uo.verification_gas_limit
      /\ us.pre_verification_gas = uo.pre_verification_gas
      /\ us.max_fee_per_gas = uo.max_fee_per_gas
      /\ us.max_priority_fee_per_gas = uo.max_priority_fee_per_gas
      /\ us.paymaster_and_data = uo.paymaster_and_data
      /\ us.signature = s
  BY DEF UserOperations
<1>2. HeadFields(us) = HeadFields(uo)
  BY <1>1 DEF HeadFields
<1>3. Pack(us) = Cat11(HeadFields(us)) \o EncodeBytes(us.init_code)
                   \o EncodeBytes(us.call_data)
                   \o EncodeBytes(us.paymaster_and_data)
                   \o EncodeBytes(us.signature)
  BY PackSplit
<1>4. PackForSignature(uo) = Cat11(HeadFields(uo)) \o EncodeBytes(uo.init_code)
                               \o EncodeBytes(uo.call_data)
                               \o EncodeBytes(uo.paymaster_and_data)
  BY PackForSignatureShape
<1>. QED  BY <1>1, <1>2, <1>3, <1>4, Zenon

(* The overhead calculator charges an operation carrying signature s the  *)
(* fixed overhead, plus the cost of its signed prefix, plus the cost of    *)
(* the tail of s: the signature's share of the pre-verification gas is    *)
(* the cost of its own tail, independent of the rest of the operation.    *)
THEOREM SignatureOverhead ==
  ASSUME NEW uo \in UserOperations, NEW s \in Seq(Byte)
  PROVE  CalculatePreVerificationGas([uo EXCEPT !.signature = s])
           = FixedOverhead + ByteCost(PackForSignature(uo)) + ByteCost(EncodeBytes(s))
<1>. DEFINE us == [uo EXCEPT !.signature = s]
<1>1. PackForSignature(uo) \in Seq(Byte) /\ EncodeBytes(s) \in Seq(Byte)
  BY PackForSignatureType, EncodeBytesType
<1>2. Pack(us) = PackForSignature(uo) \o EncodeBytes(s)
  BY PackWithSignature
<1>3. CalculatePreVerificationGas(us) = FixedOverhead + ByteCost(Pack(us))
  <2>1. Pack(us) \in Seq(Byte)
    <3>1. us \in UserOperations
      BY DEF UserOperations
    <3>. QED  BY <3>1, PackType
  <2>. QED  BY <2>1, OverheadIsByteCost
<1>4. ByteCost(Pack(us)) = ByteCost(PackForSignature(uo)) + ByteCost(EncodeBytes(s))
  BY <1>1, <1>2, ByteCostConcat
<1>5. ByteCost(PackForSignature(uo)) \in Nat /\ ByteCost(EncodeBytes(s)) \in Nat
  BY <1>1, ByteCostType
<1>. QED  BY <1>3, <1>4, <1>5, CostTableAssumption

(* The placeholder signature of From<UserOperationPartial> is a byte       *)
(* string.                                                                 *)
LEMMA DummySignatureType == DummySignature \in Seq(Byte)
BY DEF DummySignature, Byte

(* Whether an operation signed with sig costs no more overhead than the    *)
(* same operation signed with the placeholder depends on the two tails     *)
(* only, never on the operation's other fields.                            *)
THEOREM PlaceholderComparison ==
  ASSUME NEW uo \in UserOperations, NEW sig \in Seq(Byte)
  PROVE  CalculatePreVerificationGas([uo EXCEPT !.signature = sig])
           <= CalculatePreVerificationGas([uo EXCEPT !.signature = DummySignature])
         <=> ByteCost(EncodeBytes(sig)) <= ByteCost(EncodeBytes(DummySignature))
<1>1. DummySignature \in Seq(Byte)
  BY DummySignatureType
<1>2. CalculatePreVerificationGas([uo EXCEPT !.signature = sig])
        = FixedOverhead + ByteCost(PackForSignature(uo)) + ByteCost(EncodeBytes(sig))
  BY SignatureOverhead
<1>3. CalculatePreVerificationGas([uo EXCEPT !.signature = DummySignature])
        = FixedOverhead + ByteCost(PackForSignature(uo))
          + ByteCost(EncodeBytes(DummySignature))
  BY <1>1, SignatureOverhead
<1>4. /\ ByteCost(PackForSignature(uo)) \in Nat
      /\ ByteCost(EncodeBytes(sig)) \in Nat
      /\ ByteCost(EncodeBytes(DummySignature)) \in Nat
  BY <1>1, PackForSignatureType, EncodeBytesType, ByteCostType
<1>. QED  BY <1>2, <1>3, <1>4, CostTableAssumption

(* Every real signature of at most 65 bytes has a tail that costs no more *)
(* than the placeholder's: a condition on the signatures alone.           *)
SignatureTailsCovered ==
  \A sig \in Signatures :
    Len(sig) <= 65 =>
      ByteCost(EncodeBytes(sig)) <= ByteCost(EncodeBytes(DummySignature))

(* The invariant that the placeholder covers every real signature          *)
(* (DummySignatureCovers, checked by the estimation run) holds of an       *)
(* operation exactly when the signatures' tails are covered: it does not  *)
(* depend on the draft, the estimate or the fields the client filled in.  *)
THEOREM DummySignatureCoversReduced ==
  ASSUME final \in UserOperations
  PROVE  DummySignatureCovers <=> SignatureTailsCovered
<1>1. \A sig \in Signatures :
        CalculatePreVerificationGas([final EXCEPT !.signature = sig])
          <= CalculatePreVerificationGas([final EXCEPT !.signature = DummySignature])
        <=> ByteCost(EncodeBytes(sig)) <= ByteCost(EncodeBytes(DummySignature))
  BY EstimationAssumption, PlaceholderComparison
<1>. QED  BY <1>1 DEF DummySignatureCovers, SignatureTailsCovered
====
