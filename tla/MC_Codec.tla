------------------------------ MODULE MC_Codec ------------------------------
(***************************************************************************)
(* Model checking of the pure functions of UserOperation and Overhead over *)
(* a bounded set of operations.  The state is a pair of operations: uo2   *)
(* is chosen initially and every step picks a new uo1, so the reachable   *)
(* states are all pairs of Ops, and every invariant is checked on each.   *)
(***************************************************************************)
EXTENDS Overhead, MCUserOperation

VARIABLES uo1, uo2

vars == <<uo1, uo2>>

EntryPoints == {Addr1, Addr2}

ChainIds == {1, 5}

(* Byte strings chosen to hit the word boundaries of the encoding: empty,  *)
(* one zero byte, one non-zero byte, a full word, one byte past it, and    *)
(* 511 bytes, one short of 16 words, whose length word 0x01FF turns into    *)
(* 0x0200 when one more byte is appended.                                  *)
CallDatas == {<<>>, <<0>>, <<7>>, Bytes(32, 7), Bytes(33, 0), Bytes(511, 7)}

Ops ==
  [sender                   : {Addr0, Addr1},
   nonce                    : {0},
   init_code                : {<<>>},
   call_data                : CallDatas,
   call_gas_limit           : {0},
   verification_gas_limit   : {100000},
   pre_verification_gas     : {21000},
   max_fee_per_gas          : {0},
   max_priority_fee_per_gas : {1000000000},
   paymaster_and_data       : {<<>>, <<5>>, <<6>>},
   signature                : {<<>>, <<9>>, <<9, 0>>}]

DynamicFields == {"init_code", "call_data", "paymaster_and_data", "signature"}

(* The zero-valued operation of the user_operation_pack test fixture.      *)
Fixture0 ==
  [sender |-> Addr0, nonce |-> 0, init_code |-> <<>>, call_data |-> <<>>,
   call_gas_limit |-> 0, verification_gas_limit |-> 100000,
   pre_verification_gas |-> 21000, max_fee_per_gas |-> 0,
   max_priority_fee_per_gas |-> 1000000000, paymaster_and_data |-> <<>>,
   signature |-> <<>>]

(* The non-zero bytes of the expected pack() of Fixture0 (480 bytes), by   *)
(* position, transcribed from the hex literal of the test.                 *)
FixtureNonZero0 ==
  (95 :> 1) @@ (96 :> 96) @@ (127 :> 1) @@ (128 :> 128) @@ (190 :> 1)
  @@ (191 :> 134) @@ (192 :> 160) @@ (223 :> 82) @@ (224 :> 8)
  @@ (285 :> 59) @@ (286 :> 154) @@ (287 :> 202) @@ (319 :> 1)
  @@ (320 :> 160) @@ (351 :> 1) @@ (352 :> 192)

FixtureBytes(n) ==
  [i \in 1..n |-> IF i \in DOMAIN FixtureNonZero0 THEN FixtureNonZero0[i]
                                                  ELSE 0]

Init == uo1 = Fixture0 /\ uo2 \in Ops

Next == uo1' \in Ops /\ UNCHANGED uo2

Spec == Init /\ [][Next]_vars

-----------------------------------------------------------------------------
TypeOK == uo1 \in Ops /\ uo2 \in Ops

(* pack() and pack_for_signature() of the test fixture give the bytes of   *)
(* the user_operation_pack and user_operation_pack_for_signature tests:    *)
(* 480 bytes, and the same bytes without the last (signature length) word. *)
PackMatchesFixture ==
  uo1 = Fixture0 => /\ Pack(uo1) = FixtureBytes(480)
                    /\ PackForSignature(uo1) = FixtureBytes(448)

(* Decompress inverts pack (the Compress/Decompress pair used to store     *)
(* operations): every field, dynamic ones included, is recovered.          *)
RoundTrip == Decompress(Pack(uo1)) = uo1

(* hash() identifies an operation up to its signature, and is bound to the *)
(* entry point and the chain id: two hashes are equal exactly when the     *)
(* operations agree on every field but the signature and the entry points  *)
(* and chain ids are equal.                                                *)
HashIdentity ==
  \A ep1, ep2 \in EntryPoints, c1, c2 \in ChainIds :
    Hash(uo1, ep1, c1) = Hash(uo2, ep2, c2)
      <=> SameButSignature(uo1, uo2) /\ ep1 = ep2 /\ c1 = c2

(* Spec section 8, "monotonic overhead": appending bytes to any variable-  *)
(* length field never decreases calculate_pre_verification_gas.  The        *)
(* appended byte is priced, but it also changes the field's length word    *)
(* in pack(), and may take the place of a padding zero.                    *)
AppendMonotone ==
  \A f \in DynamicFields, b \in {0, 7} :
    CalculatePreVerificationGas([uo1 EXCEPT ![f] = @ \o <<b>>])
      >= CalculatePreVerificationGas(uo1)

(* Spec section 4.3: the minimum pre-verification gas is "monotonically    *)
(* non-decreasing in encoded length".                                      *)
LengthMonotone ==
  Len(Pack(uo1)) <= Len(Pack(uo2))
    => CalculatePreVerificationGas(uo1) <= CalculatePreVerificationGas(uo2)

=============================================================================
