------------------------- MODULE UserOperationProofs -------------------------
(***************************************************************************)
(* Proofs about UserOperation::hash (src/src/types/user_operation.rs), for *)
(* all operations, entry points and chain ids: the hash does not depend on *)
(* the signature, and equal hashes have equal pack_for_signature, equal    *)
(* entry points and equal chain id words.  They rest on lemmas about the   *)
(* 32-byte words of the encoding: their type and length, and that the      *)
(* word of an address determines the address.                              *)
(***************************************************************************)
EXTENDS UserOperation, SequenceTheorems, TLAPS

(* The word of a U256 is 32 bytes.                                         *)
LEMMA WordType ==
  ASSUME NEW n \in Nat
  PROVE  Word(n) \in Seq(Byte) /\ Len(Word(n)) = WordSize
<1>1. \A i \in 1..32 : Word(n)[i] \in Byte
  BY DEF Word, Byte, WordSize
<1>2. Word(n) = [i \in 1..32 |-> Word(n)[i]]
  BY DEF Word, WordSize
<1>3. [i \in 1..32 |-> Word(n)[i]] \in Seq(Byte)
      /\ Len([i \in 1..32 |-> Word(n)[i]]) = 32
  BY <1>1
<1>. QED  BY <1>2, <1>3 DEF WordSize

(* The word of an address is 32 bytes: twelve zero bytes, then the address *)
(* bytes, so byte 12 + i of the word is byte i of the address.             *)
LEMMA AddressWordFacts ==
  ASSUME NEW a \in Address
  PROVE  /\ AddressWord(a) \in Seq(Byte)
         /\ Len(AddressWord(a)) = WordSize
         /\ \A i \in 1..AddressSize : AddressWord(a)[12 + i] = a[i]
<1>. DEFINE z == [i \in 1..12 |-> 0]
<1>1. z \in Seq(Byte) /\ Len(z) = 12
  BY DEF Byte
<1>2. a = [i \in 1..20 |-> a[i]] /\ a \in Seq(Byte) /\ Len(a) = 20
  <2>1. a = [i \in 1..20 |-> a[i]]
    BY DEF Address, AddressSize
  <2>2. \A i \in 1..20 : a[i] \in Byte
    BY DEF Address, AddressSize
  <2>. QED  BY <2>1, <2>2
<1>3. z \o a \in Seq(Byte) /\ Len(z \o a) = 32
  BY <1>1, <1>2
<1>4. \A i \in 1..Len(a) : (z \o a)[Len(z) + i] = a[i]
  BY <1>1, <1>2
<1>5. ASSUME NEW i \in 1..20 PROVE (z \o a)[12 + i] = a[i]
  <2>1. i \in 1..Len(a) /\ 12 + i = Len(z) + i
    BY <1>1, <1>2
  <2>. QED  BY <1>4, <2>1, Zenon
<1>6. AddressWord(a) = z \o a
  BY DEF AddressWord, WordSize, AddressSize
<1>. QED  BY <1>3, <1>5, <1>6 DEF WordSize, AddressSize

(* The tail of a dynamic bytes field (EncodeBytes) is a byte string.      *)
LEMMA EncodeBytesType ==
  ASSUME NEW b \in Seq(Byte)
  PROVE  EncodeBytes(b) \in Seq(Byte)
<1>1. Word(Len(b)) \in Seq(Byte)
  BY WordType
<1>2. PadLength(Len(b)) \in Nat
  BY DEF PadLength, WordSize
<1>3. [i \in 1..PadLength(Len(b)) |-> 0] \in Seq(Byte)
  BY <1>2 DEF Byte
<1>. QED  BY <1>1, <1>3 DEF EncodeBytes

(* The tuple encoding of an operation (pack) is a byte string.             *)
LEMMA PackType ==
  ASSUME NEW uo \in UserOperations
  PROVE  Pack(uo) \in Seq(Byte)
<1>. DEFINE t1 == EncodeBytes(uo.init_code)
            t2 == EncodeBytes(uo.call_data)
            t3 == EncodeBytes(uo.paymaster_and_data)
            t4 == EncodeBytes(uo.signature)
            o1 == HeadWords * WordSize
            o2 == o1 + Len(t1)
            o3 == o2 + Len(t2)
            o4 == o3 + Len(t3)
<1>1. AddressWord(uo.sender) \in Seq(Byte)
  BY AddressWordFacts DEF UserOperations
<1>2. t1 \in Seq(Byte) /\ t2 \in Seq(Byte) /\ t3 \in Seq(Byte) /\ t4 \in Seq(Byte)
  BY EncodeBytesType DEF UserOperations
<1>3. {uo.nonce, uo.call_gas_limit, uo.verification_gas_limit,
       uo.pre_verification_gas, uo.max_fee_per_gas,
       uo.max_priority_fee_per_gas, o1, o2, o3, o4} \subseteq Nat
  BY <1>2 DEF UserOperations, U256, HeadWords, WordSize
<1>4. \A n \in {uo.nonce, uo.call_gas_limit, uo.verification_gas_limit,
                uo.pre_verification_gas, uo.max_fee_per_gas,
                uo.max_priority_fee_per_gas, o1, o2, o3, o4} :
        Word(n) \in Seq(Byte)
  BY <1>3, WordType
<1>5. AddressWord(uo.sender) \o Word(uo.nonce) \o Word(o1) \o Word(o2)
        \o Word(uo.call_gas_limit) \o Word(uo.verification_gas_limit)
        \o Word(uo.pre_verification_gas) \o Word(uo.max_fee_per_gas)
        \o Word(uo.max_priority_fee_per_gas) \o Word(o3) \o Word(o4)
        \o t1 \o t2 \o t3 \o t4 \in Seq(Byte)
  BY <1>1, <1>2, <1>4
<1>. QED  BY <1>5, Zenon DEF Pack

(* Two addresses with the same word are the same address.                 *)
LEMMA AddressWordInjective ==
  ASSUME NEW a1 \in Address, NEW a2 \in Address,
         AddressWord(a1) = AddressWord(a2)
  PROVE  a1 = a2
<1>1. /\ \A i \in 1..AddressSize : AddressWord(a1)[12 + i] = a1[i]
      /\ \A i \in 1..AddressSize : AddressWord(a2)[12 + i] = a2[i]
  BY AddressWordFacts, Zenon
<1>2. \A i \in 1..20 : a1[i] = a2[i]
  BY <1>1 DEF AddressSize
<1>3. a1 = [i \in 1..20 |-> a1[i]] /\ a2 = [i \in 1..20 |-> a2[i]]
  BY DEF Address, AddressSize
<1>. QED  BY <1>2, <1>3

(* The layout of the input of the outer keccak of hash(): byte 1 is the    *)
(* inner digest k, bytes 2..33 the word of the entry point a, bytes 34..65 *)
(* the word of the chain id c.                                             *)
HashInputLayout(k, a, c) ==
  LET x == <<k>> \o AddressWord(a) \o Word(c)
  IN  /\ x[1] = k
      /\ \A i \in 1..WordSize : x[1 + i] = AddressWord(a)[i]
      /\ \A i \in 1..WordSize : x[33 + i] = Word(c)[i]

(* hash() lays its outer keccak input out as HashInputLayout says.         *)
LEMMA HashInputParts ==
  ASSUME NEW k, NEW a \in Address, NEW c \in Nat
  PROVE  HashInputLayout(k, a, c)
<1>. DEFINE w == AddressWord(a)
            v == Word(c)
            y == <<k>> \o w
<1>1. w \in Seq(Byte) /\ Len(w) = 32
  BY AddressWordFacts, Zenon DEF WordSize
<1>2. v \in Seq(Byte) /\ Len(v) = 32
  BY WordType, Zenon DEF WordSize
<1>3. w \in Seq(Byte \cup {k}) /\ v \in Seq(Byte \cup {k})
  BY <1>1, <1>2, SeqMonotonic, Zenon
<1>4. /\ y \in Seq(Byte \cup {k})
      /\ Len(y) = Len(<<k>>) + Len(w)
      /\ \A i \in 1..Len(<<k>>) : y[i] = <<k>>[i]
      /\ \A i \in 1..Len(w) : y[Len(<<k>>) + i] = w[i]
  BY <1>3
<1>5. /\ \A i \in 1..Len(y) : (y \o v)[i] = y[i]
      /\ \A i \in 1..Len(v) : (y \o v)[Len(y) + i] = v[i]
  BY <1>3, <1>4
<1>6. Len(<<k>>) = 1 /\ <<k>>[1] = k /\ Len(y) = 33
  BY <1>1, <1>4
<1>7. (y \o v)[1] = k
  <2>1. 1 \in 1..Len(y) /\ 1 \in 1..Len(<<k>>)
    BY <1>6
  <2>. QED  BY <1>4, <1>5, <1>6, <2>1, Zenon
<1>8. ASSUME NEW i \in 1..32 PROVE (y \o v)[1 + i] = w[i]
  <2>1. 1 + i \in 1..Len(y) /\ i \in 1..Len(w) /\ 1 + i = Len(<<k>>) + i
    BY <1>1, <1>6
  <2>2. (y \o v)[1 + i] = y[1 + i]
    BY <1>5, <2>1, Zenon
  <2>. QED  BY <1>4, <2>1, <2>2, Zenon
<1>9. ASSUME NEW i \in 1..32 PROVE (y \o v)[33 + i] = v[i]
  <2>1. i \in 1..Len(v) /\ 33 + i = Len(y) + i
    BY <1>2, <1>6
  <2>. QED  BY <1>5, <2>1, Zenon
<1>. QED  BY <1>7, <1>8, <1>9 DEF HashInputLayout, WordSize

-----------------------------------------------------------------------------
(* The pool key ignores the signature: operations that agree on every      *)
(* field but the signature have the same hash for the same entry point and *)
(* chain id, because pack_for_signature packs the operation with its      *)
(* signature emptied (user_operation.rs, pack_for_signature and hash).     *)
THEOREM HashIgnoresSignature ==
  ASSUME NEW uo1, NEW uo2, NEW ep, NEW c, SameButSignature(uo1, uo2)
  PROVE  Hash(uo1, ep, c) = Hash(uo2, ep, c)
BY DEF SameButSignature, Hash, PackForSignature

(* The hash binds what it covers: two operations with equal hashes have    *)
(* equal pack_for_signature encodings and were hashed for the same entry   *)
(* point and the same chain id word, so the same operation submitted to    *)
(* another entry point or chain gets another pool key (user_operation.rs,  *)
(* hash: keccak256 of the digest, the entry point word and the chain id    *)
(* word).                                                                  *)
THEOREM HashBinding ==
  ASSUME NEW uo1, NEW uo2, NEW ep1 \in Address, NEW ep2 \in Address,
         NEW c1 \in Nat, NEW c2 \in Nat,
         Hash(uo1, ep1, c1) = Hash(uo2, ep2, c2)
  PROVE  /\ PackForSignature(uo1) = PackForSignature(uo2)
         /\ ep1 = ep2
         /\ Word(c1) = Word(c2)
<1>. DEFINE k1 == Keccak256(PackForSignature(uo1))
            k2 == Keccak256(PackForSignature(uo2))
            x1 == <<k1>> \o AddressWord(ep1) \o Word(c1)
            x2 == <<k2>> \o AddressWord(ep2) \o Word(c2)
<1>1. x1 = x2
  BY DEF Hash, Keccak256
<1>2. /\ x1[1] = k1
      /\ \A i \in 1..WordSize : x1[1 + i] = AddressWord(ep1)[i]
      /\ \A i \in 1..WordSize : x1[33 + i] = Word(c1)[i]
  <2>1. HashInputLayout(k1, ep1, c1)
    BY HashInputParts
  <2>. QED  BY <2>1 DEF HashInputLayout, x1
<1>3. /\ x2[1] = k2
      /\ \A i \in 1..WordSize : x2[1 + i] = AddressWord(ep2)[i]
      /\ \A i \in 1..WordSize : x2[33 + i] = Word(c2)[i]
  <2>1. HashInputLayout(k2, ep2, c2)
    BY HashInputParts
  <2>. QED  BY <2>1 DEF HashInputLayout, x2
<1>4. PackForSignature(uo1) = PackForSignature(uo2)
  <2>1. k1 = k2
    BY <1>1, <1>2, <1>3
  <2>. QED  BY <2>1 DEF Keccak256
<1>5. ep1 = ep2
  <2>1. \A i \in 1..WordSize : AddressWord(ep1)[i] = AddressWord(ep2)[i]
    BY <1>1, <1>2, <1>3
  <2>2. AddressWord(ep1) = AddressWord(ep2)
    BY <2>1, AddressWordFacts, SeqEqual
  <2>. QED  BY <2>2, AddressWordInjective
<1>6. Word(c1) = Word(c2)
  <2>1. \A i \in 1..WordSize : Word(c1)[i] = Word(c2)[i]
    BY <1>1, <1>2, <1>3
  <2>. QED  BY <2>1, WordType, SeqEqual
<1>. QED  BY <1>4, <1>5, <1>6


-----------------------------------------------------------------------------
(* Two concatenations have the same parts (an opaque form of the          *)
(* conclusion of ConcatCancel, so that the provers can instantiate it).   *)
SameParts(a, b, c, d) == a = c /\ b = d

(* Two concatenations of byte strings that are equal and end in parts of  *)
(* the same length are made of the same parts.                           *)
LEMMA ConcatCancel ==
  \A a, b, c, d \in Seq(Byte) :
    Len(b) = Len(d) /\ a \o b = c \o d => SameParts(a, b, c, d)
<1>. SUFFICES ASSUME NEW a \in Seq(Byte), NEW b \in Seq(Byte),
                     NEW c \in Seq(Byte), NEW d \in Seq(Byte),
                     Len(b) = Len(d), a \o b = c \o d
              PROVE  a = c /\ b = d
  BY DEF SameParts
<1>1. Len(a) = Len(c)
  <2>1. Len(a \o b) = Len(a) + Len(b) /\ Len(c \o d) = Len(c) + Len(d)
    BY ConcatProperties
  <2>. QED  BY <2>1
<1>2. \A i \in 1..Len(a) : a[i] = c[i]
  <2>1. \A i \in 1..Len(a) : (a \o b)[i] = a[i] /\ (c \o d)[i] = c[i]
    BY <1>1
  <2>. QED  BY <2>1
<1>3. \A i \in 1..Len(b) : b[i] = d[i]
  <2>1. \A i \in 1..Len(b) : (a \o b)[Len(a) + i] = b[i] /\ (c \o d)[Len(c) + i] = d[i]
    OBVIOUS
  <2>. QED BY <1>1, <2>1
<1>. QED BY <1>1, <1>2, <1>3, SeqEqual

(* The eleven words of the head of pack(), in field order: the sender,    *)
(* the nonce, the offsets of init_code and call_data, the five gas and    *)
(* fee fields, the offsets of paymaster_and_data and signature.           *)
HeadFields(uo) ==
  LET o1 == HeadWords * WordSize
      o2 == o1 + Len(EncodeBytes(uo.init_code))
      o3 == o2 + Len(EncodeBytes(uo.call_data))
      o4 == o3 + Len(EncodeBytes(uo.paymaster_and_data))
  IN  <<AddressWord(uo.sender), Word(uo.nonce), Word(o1), Word(o2),
        Word(uo.call_gas_limit), Word(uo.verification_gas_limit),
        Word(uo.pre_verification_gas), Word(uo.max_fee_per_gas),
        Word(uo.max_priority_fee_per_gas), Word(o3), Word(o4)>>

(* The concatenation of eleven words, left to right as pack() writes      *)
(* them.                                                                   *)
Cat11(w) == w[1] \o w[2] \o w[3] \o w[4] \o w[5] \o w[6] \o w[7] \o w[8]
              \o w[9] \o w[10] \o w[11]

(* pack() is the head followed by the four tails.                         *)
LEMMA PackSplit ==
  ASSUME NEW uo
  PROVE  Pack(uo) = Cat11(HeadFields(uo)) \o EncodeBytes(uo.init_code)
                      \o EncodeBytes(uo.call_data)
                      \o EncodeBytes(uo.paymaster_and_data)
                      \o EncodeBytes(uo.signature)
BY DEF Pack, Cat11, HeadFields

(* w is a row of eleven 32-byte words.                                   *)
WordsOf(w) == w \in [1..HeadWords -> Seq(Byte)]
                /\ \A j \in 1..HeadWords : Len(w[j]) = WordSize

(* The head of an operation is eleven 32-byte words.                      *)
LEMMA HeadFieldsWords ==
  ASSUME NEW uo \in UserOperations
  PROVE  WordsOf(HeadFields(uo))
<1>. DEFINE o1 == HeadWords * WordSize
            o2 == o1 + Len(EncodeBytes(uo.init_code))
            o3 == o2 + Len(EncodeBytes(uo.call_data))
            o4 == o3 + Len(EncodeBytes(uo.paymaster_and_data))
<1>1. AddressWord(uo.sender) \in Seq(Byte) /\ Len(AddressWord(uo.sender)) = WordSize
  BY AddressWordFacts DEF UserOperations
<1>2. /\ EncodeBytes(uo.init_code) \in Seq(Byte)
      /\ EncodeBytes(uo.call_data) \in Seq(Byte)
  BY EncodeBytesType DEF UserOperations
<1>3. /\ uo.nonce \in Nat /\ uo.call_gas_limit \in Nat
      /\ uo.verification_gas_limit \in Nat /\ uo.pre_verification_gas \in Nat
      /\ uo.max_fee_per_gas \in Nat /\ uo.max_priority_fee_per_gas \in Nat
      /\ o1 \in Nat /\ o2 \in Nat /\ o3 \in Nat /\ o4 \in Nat
  BY <1>2 DEF UserOperations, U256, HeadWords, WordSize
<1>4. \A n \in Nat : Word(n) \in Seq(Byte) /\ Len(Word(n)) = WordSize
  BY WordType
<1>. DEFINE f == <<AddressWord(uo.sender), Word(uo.nonce), Word(o1), Word(o2),
                   Word(uo.call_gas_limit), Word(uo.verification_gas_limit),
                   Word(uo.pre_verification_gas), Word(uo.max_fee_per_gas),
                   Word(uo.max_priority_fee_per_gas), Word(o3), Word(o4)>>
<1>5. HeadFields(uo) = f
  BY DEF HeadFields
<1>6. DOMAIN f = 1..11
  BY DEF f
<1>7. \A j \in 1..11 : f[j] \in Seq(Byte) /\ Len(f[j]) = WordSize
  <2>1. \A j \in 1..11 : j \in {1, 2, 3, 4, 5, 6, 7, 8, 9, 10, 11}
    OBVIOUS
  <2>2. \A j \in 1..11 :
          \/ f[j] = AddressWord(uo.sender)
          \/ \E n \in {uo.nonce, uo.call_gas_limit, uo.verification_gas_limit,
                       uo.pre_verification_gas, uo.max_fee_per_gas,
                       uo.max_priority_fee_per_gas, o1, o2, o3, o4} : f[j] = Word(n)
    BY <2>1 DEF f
  <2>3. \A n \in {uo.nonce, uo.call_gas_limit, uo.verification_gas_limit,
                   uo.pre_verification_gas, uo.max_fee_per_gas,
                   uo.max_priority_fee_per_gas, o1, o2, o3, o4} :
          Word(n) \in Seq(Byte) /\ Len(Word(n)) = WordSize
    BY <1>3, <1>4
  <2>. QED  BY <1>1, <2>2, <2>3
<1>8. f \in [1..11 -> Seq(Byte)]
  BY <1>6, <1>7 DEF f
<1>. QED  BY <1>5, <1>7, <1>8 DEF WordsOf, HeadWords

(* The head is a byte string of 11 * 32 = 352 bytes.                      *)
Cat11Layout(w) == Cat11(w) \in Seq(Byte) /\ Len(Cat11(w)) = HeadWords * WordSize

(* Eleven words concatenate to 352 bytes.                                 *)
LEMMA Cat11Type ==
  ASSUME NEW w, WordsOf(w)
  PROVE  Cat11Layout(w)
<1>1. \A j \in 1..11 : w[j] \in Seq(Byte) /\ Len(w[j]) = 32
  BY DEF WordsOf, HeadWords, WordSize
<1>. DEFINE p1 == w[1]
            p2 == p1 \o w[2]
            p3 == p2 \o w[3]
            p4 == p3 \o w[4]
            p5 == p4 \o w[5]
            p6 == p5 \o w[6]
            p7 == p6 \o w[7]
            p8 == p7 \o w[8]
            p9 == p8 \o w[9]
            p10 == p9 \o w[10]
            p11 == p10 \o w[11]
<1>2. p1 \in Seq(Byte) /\ Len(p1) = 32
  BY <1>1
<1>3. p2 \in Seq(Byte) /\ Len(p2) = 64
  <2>1. w[2] \in Seq(Byte) /\ p1 \in Seq(Byte)
    BY <1>1, <1>2
  <2>2. p2 \in Seq(Byte) /\ Len(p2) = Len(p1) + Len(w[2])
    BY <2>1 DEF p2
  <2>3. Len(w[2]) = 32
    BY <1>1
  <2>. QED  BY <1>2, <2>2, <2>3
<1>4. p3 \in Seq(Byte) /\ Len(p3) = 96
  <2>1. w[3] \in Seq(Byte) /\ p2 \in Seq(Byte)
    BY <1>1, <1>3
  <2>2. p3 \in Seq(Byte) /\ Len(p3) = Len(p2) + Len(w[3])
    BY <2>1 DEF p3
  <2>3. Len(w[3]) = 32
    BY <1>1
  <2>. QED  BY <1>3, <2>2, <2>3
<1>5. p4 \in Seq(Byte) /\ Len(p4) = 128
  <2>1. w[4] \in Seq(Byte) /\ p3 \in Seq(Byte)
    BY <1>1, <1>4
  <2>2. p4 \in Seq(Byte) /\ Len(p4) = Len(p3) + Len(w[4])
    BY <2>1 DEF p4
  <2>3. Len(w[4]) = 32
    BY <1>1
  <2>. QED  BY <1>4, <2>2, <2>3
<1>6. p5 \in Seq(Byte) /\ Len(p5) = 160
  <2>1. w[5] \in Seq(Byte) /\ p4 \in Seq(Byte)
    BY <1>1, <1>5
  <2>2. p5 \in Seq(Byte) /\ Len(p5) = Len(p4) + Len(w[5])
    BY <2>1 DEF p5
  <2>3. Len(w[5]) = 32
    BY <1>1
  <2>. QED  BY <1>5, <2>2, <2>3
<1>7. p6 \in Seq(Byte) /\ Len(p6) = 192
  <2>1. w[6] \in Seq(Byte) /\ p5 \in Seq(Byte)
    BY <1>1, <1>6
  <2>2. p6 \in Seq(Byte) /\ Len(p6) = Len(p5) + Len(w[6])
    BY <2>1 DEF p6
  <2>3. Len(w[6]) = 32
    BY <1>1
  <2>. QED  BY <1>6, <2>2, <2>3
<1>8. p7 \in Seq(Byte) /\ Len(p7) = 224
  <2>1. w[7] \in Seq(Byte) /\ p6 \in Seq(Byte)
    BY <1>1, <1>7
  <2>2. p7 \in Seq(Byte) /\ Len(p7) = Len(p6) + Len(w[7])
    BY <2>1 DEF p7
  <2>3. Len(w[7]) = 32
    BY <1>1
  <2>. QED  BY <1>7, <2>2, <2>3
<1>9. p8 \in Seq(Byte) /\ Len(p8) = 256
  <2>1. w[8] \in Seq(Byte) /\ p7 \in Seq(Byte)
    BY <1>1, <1>8
  <2>2. p8 \in Seq(Byte) /\ Len(p8) = Len(p7) + Len(w[8])
    BY <2>1 DEF p8
  <2>3. Len(w[8]) = 32
    BY <1>1
  <2>. QED  BY <1>8, <2>2, <2>3
<1>10. p9 \in Seq(Byte) /\ Len(p9) = 288
  <2>1. w[9] \in Seq(Byte) /\ p8 \in Seq(Byte)
    BY <1>1, <1>9
  <2>2. p9 \in Seq(Byte) /\ Len(p9) = Len(p8) + Len(w[9])
    BY <2>1 DEF p9
  <2>3. Len(w[9]) = 32
    BY <1>1
  <2>. QED  BY <1>9, <2>2, <2>3
<1>11. p10 \in Seq(Byte) /\ Len(p10) = 320
  <2>1. w[10] \in Seq(Byte) /\ p9 \in Seq(Byte)
    BY <1>1, <1>10
  <2>2. p10 \in Seq(Byte) /\ Len(p10) = Len(p9) + Len(w[10])
    BY <2>1 DEF p10
  <2>3. Len(w[10]) = 32
    BY <1>1
  <2>. QED  BY <1>10, <2>2, <2>3
<1>12. p11 \in Seq(Byte) /\ Len(p11) = 352
  <2>1. w[11] \in Seq(Byte) /\ p10 \in Seq(Byte)
    BY <1>1, <1>11
  <2>2. p11 \in Seq(Byte) /\ Len(p11) = Len(p10) + Len(w[11])
    BY <2>1 DEF p11
  <2>3. Len(w[11]) = 32
    BY <1>1
  <2>. QED  BY <1>11, <2>2, <2>3
<1>. QED  BY <1>12 DEF Cat11Layout, Cat11, HeadWords, WordSize, p11, p10, p9, p8, p7, p6, p5, p4, p3, p2, p1

(* The concatenation of eleven 32-byte words determines the words.        *)
LEMMA Cat11Injective ==
  ASSUME NEW v, NEW w, WordsOf(v), WordsOf(w), Cat11(v) = Cat11(w)
  PROVE  v = w
<1>. DEFINE P1(u) == u[1]
            P2(u) == P1(u) \o u[2]
            P3(u) == P2(u) \o u[3]
            P4(u) == P3(u) \o u[4]
            P5(u) == P4(u) \o u[5]
            P6(u) == P5(u) \o u[6]
            P7(u) == P6(u) \o u[7]
            P8(u) == P7(u) \o u[8]
            P9(u) == P8(u) \o u[9]
            P10(u) == P9(u) \o u[10]
            P11(u) == P10(u) \o u[11]
<1>1. \A u : WordsOf(u) =>
             /\ \A j \in 1..11 : u[j] \in Seq(Byte) /\ Len(u[j]) = WordSize
             /\ P1(u) \in Seq(Byte)
             /\ P2(u) \in Seq(Byte)
             /\ P3(u) \in Seq(Byte)
             /\ P4(u) \in Seq(Byte)
             /\ P5(u) \in Seq(Byte)
             /\ P6(u) \in Seq(Byte)
             /\ P7(u) \in Seq(Byte)
             /\ P8(u) \in Seq(Byte)
             /\ P9(u) \in Seq(Byte)
             /\ P10(u) \in Seq(Byte)
             /\ P11(u) \in Seq(Byte)
  <2>. SUFFICES ASSUME NEW u, WordsOf(u)
               PROVE /\ \A j \in 1..11 : u[j] \in Seq(Byte) /\ Len(u[j]) = WordSize
                     /\ P1(u) \in Seq(Byte)
                     /\ P2(u) \in Seq(Byte)
                     /\ P3(u) \in Seq(Byte)
                     /\ P4(u) \in Seq(Byte)
                     /\ P5(u) \in Seq(Byte)
                     /\ P6(u) \in Seq(Byte)
                     /\ P7(u) \in Seq(Byte)
                     /\ P8(u) \in Seq(Byte)
                     /\ P9(u) \in Seq(Byte)
                     /\ P10(u) \in Seq(Byte)
                     /\ P11(u) \in Seq(Byte)
    OBVIOUS
  <2>1. \A j \in 1..11 : u[j] \in Seq(Byte) /\ Len(u[j]) = WordSize
    BY DEF WordsOf, HeadWords, WordSize
  <2>2. P1(u) \in Seq(Byte)
    BY <2>1
  <2>3. P2(u) \in Seq(Byte)
    <3>1. u[2] \in Seq(Byte)
      BY <2>1
    <3>. QED  BY <2>2, <3>1
  <2>4. P3(u) \in Seq(Byte)
    <3>1. u[3] \in Seq(Byte)
      BY <2>1
    <3>. QED  BY <2>3, <3>1
  <2>5. P4(u) \in Seq(Byte)
    <3>1. u[4] \in Seq(Byte)
      BY <2>1
    <3>. QED  BY <2>4, <3>1
  <2>6. P5(u) \in Seq(Byte)
    <3>1. u[5] \in Seq(Byte)
      BY <2>1
    <3>. QED  BY <2>5, <3>1
  <2>7. P6(u) \in Seq(Byte)
    <3>1. u[6] \in Seq(Byte)
      BY <2>1
    <3>. QED  BY <2>6, <3>1
  <2>8. P7(u) \in Seq(Byte)
    <3>1. u[7] \in Seq(Byte)
      BY <2>1
    <3>. QED  BY <2>7, <3>1
  <2>9. P8(u) \in Seq(Byte)
    <3>1. u[8] \in Seq(Byte)
      BY <2>1
    <3>. QED  BY <2>8, <3>1
  <2>10. P9(u) \in Seq(Byte)
    <3>1. u[9] \in Seq(Byte)
      BY <2>1
    <3>. QED  BY <2>9, <3>1
  <2>11. P10(u) \in Seq(Byte)
    <3>1. u[10] \in Seq(Byte)
      BY <2>1
    <3>. QED  BY <2>10, <3>1
  <2>12. P11(u) \in Seq(Byte)
    <3>1. u[11] \in Seq(Byte)
      BY <2>1
    <3>. QED  BY <2>11, <3>1
  <2>. QED  BY <2>1, <2>2, <2>3, <2>4, <2>5, <2>6, <2>7, <2>8, <2>9, <2>10, <2>11, <2>12
<1>2. \A j \in 1..11 : Len(v[j]) = Len(w[j])
  BY <1>1
<1>3. P11(v) = P11(w)
  BY DEF Cat11
<1>4. P10(v) = P10(w) /\ v[11] = w[11]
  <2>1. /\ P10(v) \in Seq(Byte) /\ P10(w) \in Seq(Byte)
        /\ v[11] \in Seq(Byte) /\ w[11] \in Seq(Byte)
        /\ Len(v[11]) = Len(w[11])
    BY <1>1, <1>2
  <2>2. P10(v) \o v[11] = P10(w) \o w[11]
    BY <1>3
  <2>3. SameParts(P10(v), v[11], P10(w), w[11])
    BY <2>1, <2>2, ConcatCancel
  <2>. QED  BY <2>3 DEF SameParts
<1>5. P9(v) = P9(w) /\ v[10] = w[10]
  <2>1. /\ P9(v) \in Seq(Byte) /\ P9(w) \in Seq(Byte)
        /\ v[10] \in Seq(Byte) /\ w[10] \in Seq(Byte)
        /\ Len(v[10]) = Len(w[10])
    BY <1>1, <1>2
  <2>2. P9(v) \o v[10] = P9(w) \o w[10]
    BY <1>4
  <2>3. SameParts(P9(v), v[10], P9(w), w[10])
    BY <2>1, <2>2, ConcatCancel
  <2>. QED  BY <2>3 DEF SameParts
<1>6. P8(v) = P8(w) /\ v[9] = w[9]
  <2>1. /\ P8(v) \in Seq(Byte) /\ P8(w) \in Seq(Byte)
        /\ v[9] \in Seq(Byte) /\ w[9] \in Seq(Byte)
        /\ Len(v[9]) = Len(w[9])
    BY <1>1, <1>2
  <2>2. P8(v) \o v[9] = P8(w) \o w[9]
    BY <1>5
  <2>3. SameParts(P8(v), v[9], P8(w), w[9])
    BY <2>1, <2>2, ConcatCancel
  <2>. QED  BY <2>3 DEF SameParts
<1>7. P7(v) = P7(w) /\ v[8] = w[8]
  <2>1. /\ P7(v) \in Seq(Byte) /\ P7(w) \in Seq(Byte)
        /\ v[8] \in Seq(Byte) /\ w[8] \in Seq(Byte)
        /\ Len(v[8]) = Len(w[8])
    BY <1>1, <1>2
  <2>2. P7(v) \o v[8] = P7(w) \o w[8]
    BY <1>6
  <2>3. SameParts(P7(v), v[8], P7(w), w[8])
    BY <2>1, <2>2, ConcatCancel
  <2>. QED  BY <2>3 DEF SameParts
<1>8. P6(v) = P6(w) /\ v[7] = w[7]
  <2>1. /\ P6(v) \in Seq(Byte) /\ P6(w) \in Seq(Byte)
        /\ v[7] \in Seq(Byte) /\ w[7] \in Seq(Byte)
        /\ Len(v[7]) = Len(w[7])
    BY <1>1, <1>2
  <2>2. P6(v) \o v[7] = P6(w) \o w[7]
    BY <1>7
  <2>3. SameParts(P6(v), v[7], P6(w), w[7])
    BY <2>1, <2>2, ConcatCancel
  <2>. QED  BY <2>3 DEF SameParts
<1>9. P5(v) = P5(w) /\ v[6] = w[6]
  <2>1. /\ P5(v) \in Seq(Byte) /\ P5(w) \in Seq(Byte)
        /\ v[6] \in Seq(Byte) /\ w[6] \in Seq(Byte)
        /\ Len(v[6]) = Len(w[6])
    BY <1>1, <1>2
  <2>2. P5(v) \o v[6] = P5(w) \o w[6]
    BY <1>8
  <2>3. SameParts(P5(v), v[6], P5(w), w[6])
    BY <2>1, <2>2, ConcatCancel
  <2>. QED  BY <2>3 DEF SameParts
<1>10. P4(v) = P4(w) /\ v[5] = w[5]
  <2>1. /\ P4(v) \in Seq(Byte) /\ P4(w) \in Seq(Byte)
        /\ v[5] \in Seq(Byte) /\ w[5] \in Seq(Byte)
        /\ Len(v[5]) = Len(w[5])
    BY <1>1, <1>2
  <2>2. P4(v) \o v[5] = P4(w) \o w[5]
    BY <1>9
  <2>3. SameParts(P4(v), v[5], P4(w), w[5])
    BY <2>1, <2>2, ConcatCancel
  <2>. QED  BY <2>3 DEF SameParts
<1>11. P3(v) = P3(w) /\ v[4] = w[4]
  <2>1. /\ P3(v) \in Seq(Byte) /\ P3(w) \in Seq(Byte)
        /\ v[4] \in Seq(Byte) /\ w[4] \in Seq(Byte)
        /\ Len(v[4]) = Len(w[4])
    BY <1>1, <1>2
  <2>2. P3(v) \o v[4] = P3(w) \o w[4]
    BY <1>10
  <2>3. SameParts(P3(v), v[4], P3(w), w[4])
    BY <2>1, <2>2, ConcatCancel
  <2>. QED  BY <2>3 DEF SameParts
<1>12. P2(v) = P2(w) /\ v[3] = w[3]
  <2>1. /\ P2(v) \in Seq(Byte) /\ P2(w) \in Seq(Byte)
        /\ v[3] \in Seq(Byte) /\ w[3] \in Seq(Byte)
        /\ Len(v[3]) = Len(w[3])
    BY <1>1, <1>2
  <2>2. P2(v) \o v[3] = P2(w) \o w[3]
    BY <1>11
  <2>3. SameParts(P2(v), v[3], P2(w), w[3])
    BY <2>1, <2>2, ConcatCancel
  <2>. QED  BY <2>3 DEF SameParts
<1>13. P1(v) = P1(w) /\ v[2] = w[2]
  <2>1. /\ P1(v) \in Seq(Byte) /\ P1(w) \in Seq(Byte)
        /\ v[2] \in Seq(Byte) /\ w[2] \in Seq(Byte)
        /\ Len(v[2]) = Len(w[2])
    BY <1>1, <1>2
  <2>2. P1(v) \o v[2] = P1(w) \o w[2]
    BY <1>12
  <2>3. SameParts(P1(v), v[2], P1(w), w[2])
    BY <2>1, <2>2, ConcatCancel
  <2>. QED  BY <2>3 DEF SameParts
<1>14. \A j \in 1..11 : v[j] = w[j]
  BY <1>4, <1>5, <1>6, <1>7, <1>8, <1>9, <1>10, <1>11, <1>12, <1>13
<1>15. v = [j \in 1..11 |-> v[j]] /\ w = [j \in 1..11 |-> w[j]]
  BY DEF WordsOf, HeadWords
<1>. QED  BY <1>14, <1>15

(* The tail of an empty bytes field is its length word alone: no bytes    *)
(* and no padding.                                                         *)
LEMMA EncodeEmpty == EncodeBytes(<<>>) = Word(0)
<1>1. PadLength(Len(<<>>)) = 0
  BY DEF PadLength, WordSize
<1>2. [i \in 1..PadLength(Len(<<>>)) |-> 0] = <<>>
  BY <1>1
<1>3. Word(0) \in Seq(Byte)
  BY WordType
<1>. QED BY <1>2, <1>3, ConcatEmptySeq DEF EncodeBytes

(* Taking all but the last 32 bytes of s \o Word(n) gives s back.         *)
LEMMA DropWord ==
  \A s \in Seq(Byte), n \in Nat :
    SubSeq(s \o Word(n), 1, Len(s \o Word(n)) - WordSize) = s
<1>. SUFFICES ASSUME NEW s \in Seq(Byte), NEW n \in Nat
              PROVE  SubSeq(s \o Word(n), 1, Len(s \o Word(n)) - WordSize) = s
  OBVIOUS
<1>1. Word(n) \in Seq(Byte) /\ Len(Word(n)) = WordSize
  BY WordType
<1>2. Len(s \o Word(n)) - WordSize = Len(s)
  BY <1>1
<1>3. \A i \in 1..Len(s) : (s \o Word(n))[i] = s[i]
  BY <1>1
<1>. QED  BY <1>1, <1>2, <1>3

(* pack_for_signature packs the operation with an empty signature and    *)
(* truncates 32 bytes: what it truncates is exactly the length word of    *)
(* that empty signature, and what it keeps is the head and the tails of   *)
(* init_code, call_data and paymaster_and_data, so nothing the operation  *)
(* carries but its signature is cut off (user_operation.rs,               *)
(* pack_for_signature, the comment on the truncation).                    *)
THEOREM PackForSignatureShape ==
  ASSUME NEW uo \in UserOperations
  PROVE  /\ PackForSignature(uo) = Cat11(HeadFields(uo)) \o EncodeBytes(uo.init_code)
                                    \o EncodeBytes(uo.call_data)
                                    \o EncodeBytes(uo.paymaster_and_data)
         /\ Pack([uo EXCEPT !.signature = <<>>]) = PackForSignature(uo) \o Word(0)
<1>. DEFINE u0 == [uo EXCEPT !.signature = <<>>]
            y  == Cat11(HeadFields(uo)) \o EncodeBytes(uo.init_code)
                    \o EncodeBytes(uo.call_data)
                    \o EncodeBytes(uo.paymaster_and_data)
<1>1. Pack(u0) = y \o Word(0)
  <2>0. /\ u0.sender = uo.sender /\ u0.nonce = uo.nonce
        /\ u0.init_code = uo.init_code /\ u0.call_data = uo.call_data
        /\ u0.call_gas_limit = uo.call_gas_limit
        /\ u0.verification_gas_limit = uo.verification_gas_limit
        /\ u0.pre_verification_gas = uo.pre_verification_gas
        /\ u0.max_fee_per_gas = uo.max_fee_per_gas
        /\ u0.max_priority_fee_per_gas = uo.max_priority_fee_per_gas
        /\ u0.paymaster_and_data = uo.paymaster_and_data
        /\ u0.signature = <<>>
    BY DEF UserOperations
  <2>1. HeadFields(u0) = HeadFields(uo)
    BY <2>0 DEF HeadFields
  <2>2. Pack(u0) = Cat11(HeadFields(u0)) \o EncodeBytes(u0.init_code)
                     \o EncodeBytes(u0.call_data)
                     \o EncodeBytes(u0.paymaster_and_data)
                     \o EncodeBytes(u0.signature)
    BY PackSplit
  <2>3. Pack(u0) = y \o EncodeBytes(<<>>)
    BY <2>0, <2>1, <2>2, Zenon
  <2>. QED  BY <2>3, EncodeEmpty
<1>2. y \in Seq(Byte)
  <2>1. Cat11(HeadFields(uo)) \in Seq(Byte)
    <3>1. Cat11Layout(HeadFields(uo))
      BY HeadFieldsWords, Cat11Type
    <3>. QED  BY <3>1 DEF Cat11Layout
  <2>2. /\ uo.init_code \in Seq(Byte) /\ uo.call_data \in Seq(Byte)
        /\ uo.paymaster_and_data \in Seq(Byte)
    BY DEF UserOperations
  <2>3. /\ EncodeBytes(uo.init_code) \in Seq(Byte)
        /\ EncodeBytes(uo.call_data) \in Seq(Byte)
        /\ EncodeBytes(uo.paymaster_and_data) \in Seq(Byte)
    BY <2>2, EncodeBytesType
  <2>. QED  BY <2>1, <2>3
<1>3. SubSeq(y \o Word(0), 1, Len(y \o Word(0)) - 32) = y
  <2>1. SubSeq(y \o Word(0), 1, Len(y \o Word(0)) - WordSize) = y
    BY <1>2, DropWord
  <2>. QED  BY <2>1 DEF WordSize
<1>. QED  BY <1>1, <1>3 DEF PackForSignature

(* h is the prefix of s of its own length.                                *)
PrefixIs(s, h) == SubSeq(s, 1, Len(h)) = h

(* A string followed by three more starts with that string.               *)
LEMMA PrefixOfConcat ==
  \A h, x, y, z \in Seq(Byte) : PrefixIs(h \o x \o y \o z, h)
<1>. SUFFICES ASSUME NEW h \in Seq(Byte), NEW x \in Seq(Byte),
                     NEW y \in Seq(Byte), NEW z \in Seq(Byte)
              PROVE  SubSeq(h \o x \o y \o z, 1, Len(h)) = h
  BY DEF PrefixIs
<1>1. h \o x \in Seq(Byte) /\ h \o x \o y \in Seq(Byte)
  OBVIOUS
<1>2. \A i \in 1..Len(h) : (h \o x)[i] = h[i]
  OBVIOUS
<1>3. \A i \in 1..Len(h) : (h \o x \o y)[i] = (h \o x)[i]
  BY <1>1
<1>4. \A i \in 1..Len(h) : (h \o x \o y \o z)[i] = (h \o x \o y)[i]
  BY <1>1
<1>. QED  BY <1>2, <1>3, <1>4

(* The hash binds the whole head of the operation: two operations with   *)
(* equal hashes (for any entry points and chain ids) have the same head    *)
(* words, so the same sender and the same words of the nonce and of every *)
(* gas and fee field.  A relayer cannot change the gas limits or fees, or *)
(* the sender, of a signed operation without changing its pool key and    *)
(* the digest the signature covers (user_operation.rs, hash and            *)
(* pack_for_signature).                                                    *)
THEOREM HashBindsHead ==
  ASSUME NEW uo1 \in UserOperations, NEW uo2 \in UserOperations,
         NEW ep1 \in Address, NEW ep2 \in Address,
         NEW c1 \in Nat, NEW c2 \in Nat,
         Hash(uo1, ep1, c1) = Hash(uo2, ep2, c2)
  PROVE  /\ HeadFields(uo1) = HeadFields(uo2)
         /\ uo1.sender = uo2.sender
         /\ Word(uo1.nonce) = Word(uo2.nonce)
         /\ Word(uo1.call_gas_limit) = Word(uo2.call_gas_limit)
         /\ Word(uo1.verification_gas_limit) = Word(uo2.verification_gas_limit)
         /\ Word(uo1.pre_verification_gas) = Word(uo2.pre_verification_gas)
         /\ Word(uo1.max_fee_per_gas) = Word(uo2.max_fee_per_gas)
         /\ Word(uo1.max_priority_fee_per_gas) = Word(uo2.max_priority_fee_per_gas)
<1>. DEFINE h1 == Cat11(HeadFields(uo1))
            h2 == Cat11(HeadFields(uo2))
<1>1. PackForSignature(uo1) = PackForSignature(uo2)
  BY HashBinding
<1>2. ASSUME NEW u \in UserOperations
      PROVE  /\ Cat11(HeadFields(u)) \in Seq(Byte)
             /\ Len(Cat11(HeadFields(u))) = HeadWords * WordSize
             /\ PrefixIs(PackForSignature(u), Cat11(HeadFields(u)))
  <2>1. Cat11Layout(HeadFields(u))
    BY HeadFieldsWords, Cat11Type
  <2>2. /\ EncodeBytes(u.init_code) \in Seq(Byte)
        /\ EncodeBytes(u.call_data) \in Seq(Byte)
        /\ EncodeBytes(u.paymaster_and_data) \in Seq(Byte)
    BY EncodeBytesType DEF UserOperations
  <2>3. PrefixIs(Cat11(HeadFields(u)) \o EncodeBytes(u.init_code)
                   \o EncodeBytes(u.call_data)
                   \o EncodeBytes(u.paymaster_and_data),
                 Cat11(HeadFields(u)))
    BY <2>1, <2>2, PrefixOfConcat DEF Cat11Layout
  <2>4. PackForSignature(u) = Cat11(HeadFields(u)) \o EncodeBytes(u.init_code)
                                \o EncodeBytes(u.call_data)
                                \o EncodeBytes(u.paymaster_and_data)
    BY PackForSignatureShape
  <2>. QED  BY <2>1, <2>3, <2>4 DEF Cat11Layout
<1>3. h1 = h2
  <2>1. PrefixIs(PackForSignature(uo1), h1) /\ PrefixIs(PackForSignature(uo2), h2)
        /\ Len(h1) = Len(h2)
    BY <1>2
  <2>. QED  BY <1>1, <2>1 DEF PrefixIs
<1>4. HeadFields(uo1) = HeadFields(uo2)
  BY <1>3, HeadFieldsWords, Cat11Injective
<1>5. ASSUME NEW u \in UserOperations
      PROVE  /\ HeadFields(u)[1] = AddressWord(u.sender)
             /\ HeadFields(u)[2] = Word(u.nonce)
             /\ HeadFields(u)[5] = Word(u.call_gas_limit)
             /\ HeadFields(u)[6] = Word(u.verification_gas_limit)
             /\ HeadFields(u)[7] = Word(u.pre_verification_gas)
             /\ HeadFields(u)[8] = Word(u.max_fee_per_gas)
             /\ HeadFields(u)[9] = Word(u.max_priority_fee_per_gas)
  BY DEF HeadFields
<1>6. uo1.sender = uo2.sender
  <2>1. AddressWord(uo1.sender) = AddressWord(uo2.sender)
    BY <1>4, <1>5
  <2>. QED  BY <2>1, AddressWordInjective DEF UserOperations
<1>. QED  BY <1>4, <1>5, <1>6

=============================================================================
