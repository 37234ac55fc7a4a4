# TLA+ verification of the user operation, its encoding and the VerificationGas check

This directory holds TLA+ models of the parts of the bundler in `src/`:

- `src/src/types/user_operation.rs`: the `UserOperation` type, its ABI encoding (`pack`, `pack_for_signature`), its hash, `Compress`/`Decompress`, the conversion from a draft `UserOperationPartial`, the conversions to and from the bindings' `entry_point_api::UserOperation`, and the batch decoder `parse_from_input_data`;
- `src/crates/uopool/src/validate/sanity/verification_gas.rs`: the `VerificationGas` sanity check;

and of the code around them that decides what they are for: the overhead calculator, the sanity-check pipeline that admits operations into the pool, and gas estimation. That code is not under `src/`, so it is modelled from `spec.md`, and the `map` of `PROJECT.json` marks those definitions `spec_modelled`.

## 1. Inventory

### Components and how they interact

| Component | Source | State / operations | Module |
|---|---|---|---|
| Operation model and codec | user_operation.rs 64-176 | Pure functions: `pack` (ABI tuple encoding, 11 head words, 4 dynamic tails), `pack_for_signature` (signature emptied, last word cut), `hash` (keccak of keccak(pfs) ‖ entry point word ‖ chain id word), `Compress` = `pack`, `Decompress` = ABI decode or `DecodeError` | `UserOperation` |
| Draft conversion | user_operation.rs 206-292 | `From<UserOperationPartial>`: every `Option` takes its default (empty bytes, zero gas, verification gas limit 10 000 000, a 65-byte signature of ones) | `UserOperation` |
| Overhead calculator | called at verification_gas.rs:26 (spec 4.3) | fixed overhead + per zero byte + per non-zero byte of `pack()` | `Overhead` |
| VerificationGas check | verification_gas.rs 8-35 | gas limit above `max_verification_gas` → `HighVerificationGasLimit`; else `pre_verification_gas` below the overhead → `LowPreVerificationGas`; else Ok | `VerificationGas` |
| Sanity pipeline and pool admission | spec 4.4, 5, 7 | concurrent requests; the checks run in registration order and stop at the first failure; chain-state checks suspend on the node; a request may be cancelled; a request that passes every check is admitted under its hash | `SanityPipeline` |
| Gas estimation | spec 3, 6 and user_operation.rs 222-301 | draft → estimate (overhead of the defaulted draft, simulated gas) → submit signed → VerificationGas verdict | `GasEstimation` |
| Batch decoder `parse_from_input_data` | user_operation.rs 81-115, 303-312 | decode the input data as an entry point call; only `handleOps` yields its operations, converted field by field, in encoded order; any other call or undecodable data gives `None` | `BatchDecoder` |
| Receipts and lookups | user_operation.rs 178-204, 294-301 | serde data only | not modelled (no operations) |

The components interact as follows:

- The pipeline calls the VerificationGas check.
- The check calls the overhead calculator.
- The overhead calculator prices `pack()`.
- The pool keys every entry by `hash()`, and `hash()` is built on `pack_for_signature()`.
- The batch decoder decodes each element of a `handleOps` array with the same tuple decoding as `Decompress`, and converts it with `From<entry_point_api::UserOperation>`.
- Estimation converts a draft with `From<UserOperationPartial>` and prices it with the overhead calculator. The VerificationGas check later judges what the client submits.

### Hard behaviours
- **Boundaries.**
  - The check compares against the ceiling with `>` (line 19) and against the overhead with `<` (line 27).
  - The overhead of an operation depends on the bytes of its own declared `pre_verification_gas`, so the exact value is a fixed point.
  - Padding is skipped exactly at multiples of 32 bytes.
  - `pack_for_signature` truncates exactly 32 bytes.
- **Order.** Both bounds may be violated, and then the gas-limit error is the one reported.
- **Interleaving.** Requests run concurrently, suspend on chain queries, are cancelled, and reuse their slots. Admission must still never skip the VerificationGas check.
- **Partial input.** One undecodable element of a batch must fail the whole call; only the selector separates `handleOps` from other calls whose arguments may decode as an ops array.
- **Length words.** A field's length is itself encoded as a word, so growing a field can make the encoding cheaper (a length word 0x01FF becoming 0x0200).
- **Protocol sequences.** Estimation runs on a draft whose gas fields are defaulted to zero, but the operation submitted afterwards carries non-zero values there.

## 2. Plan and module structure

The modules form one EXTENDS chain, with three composition modules on top:

```
UserOperation  ─▶  Overhead  ─▶  VerificationGas  ─┬─▶  SanityPipeline ─▶ SanityPipelineProofs
      │                                            └─▶  GasEstimation ──────┐
      ├─▶  BatchDecoder ───────────────┐                                   │
      └─▶  UserOperationProofs ────────┴─▶ BatchDecoderProofs               │
                 └──────────────────────────────────────────────────────────┴─▶ OverheadProofs
MCUserOperation (TLC helpers) ─▶ MC_Codec, MC_SanityPipeline, MC_GasEstimation, MC_BatchDecoder
```

- **`UserOperation`** has no constants and no recursive operators. `WordValue` is a recursive function, so modules with proofs can extend it.
  - A `U256` is a natural number, an address is 20 bytes, and a byte string is a sequence over 0..255.
  - keccak256 is idealised as an injective function: the digest is a record holding its preimage.
  - `Word(n)` is the big-endian 32-byte expansion.
- **`Overhead`** has the cost table as CONSTANTS, with `ASSUME CostTableAssumption`.
- **`VerificationGas`** has the constant `MaxVerificationGas`. It defines `CheckUserOperation` as the two-step early-return function of the source, and `WithinGasBounds` as the bounds of spec 4.4.1.
- **`SanityPipeline`**:
  - Variables, per request, are `phase`, `op`, `next` (the index of the next check) and `result`, plus the shared `pool`.
  - Actions:
    - `Submit`;
    - `RunVerificationGas` (the whole `check_user_operation`, with both outcomes);
    - `QueryChain`/`ChainReply` (a chain-state check split at its await);
    - `Admit`;
    - `Cancel`;
    - `Finish` (the slot is reused).
- **`BatchDecoder`** (TLC only; it uses `FlattenSeq` of SequencesExt through a local instance):
  - `ToEntryPointOp`/`FromEntryPointOp` are the two eleven-field copies of lines 81-115;
  - `EncodeHandleOps` and `EncodeSimulateValidation` build the input data a bundler sends (selector, head, array length, element offsets counted from the end of the length word, then each element's tuple encoding `Pack`);
  - `DecodeHandleOpsArgs` is the ABI decoding of the generated bindings: it reads every word only after checking the data holds it, fails on any offset or length past the end, fails the whole array if one element fails, and ignores trailing bytes;
  - `ParseFromInputData` is lines 303-312: selector check (`EntryPointAPICalls::decode` tries each call under its own selector), decode, convert, or `None`.
- **`GasEstimation`**:
  - Variables are `stage`, `draft`, `estimate`, `final` and `verdict`.
  - Actions are `EstimateGas`, `SubmitEstimated` and `NewDraft`.

`MC_BatchDecoder` also replaces `WordValue` by `MCWordValue`: the exact value when the word fits its low four bytes, and `2^20` otherwise. Decoding reads words that hold addresses as numbers (a sender word taken for an array length); such a value exceeds every length of the model, and the decoder only compares it with lengths, so the outcome is the same.

The MC modules:

- They replace `Word` by `MCWord`, which computes the low 4 bytes only. TLC's integers are 32-bit, and every number of the models is below 2^31. The high bytes of such a number are zero, so the two definitions agree on every value the runs use.
- They give the constants small values.

## 3. Runs

| Run | Cfg | Expect | Properties | Bounds and why they suffice |
|---|---|---|---|---|
| codec | MC_Codec.cfg | pass | PackMatchesFixture, RoundTrip, HashIdentity | 108 operations: 2 senders × 6 call-data values (empty, `<<0>>`, `<<7>>`, 32 bytes = a full word, 33 bytes = one past it, 511 bytes = one short of 16 words) × 3 paymaster × 3 signature values; every pair, 2 entry points × 2 chain ids; the test fixture of `user_operation_pack` |
| codec_length_monotone | MC_Codec_LengthMonotone.cfg | violation | LengthMonotone | see finding 1 |
| codec_append_monotone | MC_Codec_AppendMonotone.cfg | violation | AppendMonotone | see finding 3; the 511-byte call data is what reaches it |
| pipeline_safety | MC_SanityPipeline.cfg | pass | TypeOK, PoolSound, RejectionFaithful | 2 concurrent requests; checks `<<Sender, VerificationGas, Paymaster>>` (a chain check before and after); 8 operations with the gas limit at the ceiling and one above it, and the pre-verification gas at its exact fixed point and one below, so every side of both `if`s happens |
| batch_decoder | MC_BatchDecoder.cfg | pass | BatchRoundTrip, TruncatedBatchSafe | every batch of 0 to 3 operations out of three (120 states with 3 beneficiaries); the operations differ in sender, both fee fields and the length of every dynamic field, one has a zero sender and one a 33-byte init code; truncations at every word boundary of the arguments, one byte past and one short of it |
| estimation | MC_GasEstimation.cfg | pass | DummySignatureCovers | 3 drafts (empty, 3 call-data bytes with a zero, 20 paymaster bytes), 4 signatures (65 bytes with and without a zero, 64 bytes, empty), 3 simulated gas values |
| estimation_accepted | MC_GasEstimation_EstimateAccepted.cfg | violation | EstimateAccepted | see finding 2 |

What each property says:

- **PackMatchesFixture.** `pack` and `pack_for_signature` of the fixture are the 480 and 448 bytes of the unit tests, byte for byte.
- **RoundTrip.** `Decompress(pack(uo)) = uo` for every operation.
- **HashIdentity.** Two hashes are equal exactly when the operations agree on everything but the signature, and the entry points and chain ids are equal.
- **AppendMonotone** (violation run). Spec section 8: appending a byte to any dynamic field never lowers the overhead.
- **PoolSound.** Every pool entry is within both gas bounds. This holds whatever the interleaving of requests, replies, cancellations and slot reuse.
- **RejectionFaithful.** An operation rejected at the VerificationGas step violates a bound. The error is `HighVerificationGasLimit` whenever the limit is exceeded, even if the pre-verification gas is also too low, and otherwise `LowPreVerificationGas` with the computed overhead.
- **BatchRoundTrip.** `parse_from_input_data` of a `handleOps` call returns `Some` of exactly its operations, in order; an empty batch gives `Some(<<>>)`.
- **TruncatedBatchSafe.** Input data cut short gives `None` or the whole batch (a cut inside the final padding still decodes, since padding is not required), never a batch with operations lost or changed.
- **DummySignatureCovers.** The placeholder signature prices at least as much as any real signature of at most 65 bytes.

Every property of a passing run has a mutant in `PROJECT.json`: a plausible bug in the mapped code that TLC catches with that property.

## 4. Findings

1. **spec gap (LengthMonotone).** Spec 4.3 says the overhead is "monotonically non-decreasing in encoded length". Its own formula charges zero bytes less than non-zero bytes, so the claim is false:
   - One operation has 32 call-data bytes of 7; another has the 1-byte signature `<<9>>`.
   - Both pack to 512 bytes.
   - The first costs more than the second.
2. **spec/code divergence (EstimateAccepted).**
   - `From<UserOperationPartial>` defaults `pre_verification_gas` and `call_gas_limit` to zero (user_operation.rs:259, 245).
   - The relay estimates the overhead on that defaulted operation.
   - The client then fills in the estimated values, which adds non-zero bytes to the encoding.
   - The VerificationGas check rejects the operation built from the relay's own estimate with `LowPreVerificationGas`; for the empty draft, declared 24288 and expected 24324. Every draft of the run is rejected the same way, so TLC may report any of them.

   Spec 3 says the placeholder makes estimation against a correctly-sized payload accurate.
3. **spec gap (AppendMonotone).** Spec section 8 says appending bytes to any variable-length field never decreases the computed pre-verification gas. `pack()` writes the length of each field as a 32-byte word and pads the field to a multiple of 32 bytes.
   - Take an operation with 511 bytes of call data and append the byte 0.
   - The length word changes from 0x01FF to 0x0200, so it has one non-zero byte fewer.
   - The new byte takes the place of a padding zero, so the packed length stays at 992 bytes.
   - The overhead drops by `NonZeroByteCost - ZeroByteCost`, which is 12 gas with the default table.

   Appending only reaches this at a length one short of a multiple of 256. The codec run's earlier fields, at most 33 bytes long, never reached it.

## 5. Proofs (TLAPS)

Four modules hold proofs. They are checked from scratch by `tlapm`, with no step left unproved.

`SanityPipelineProofs` proves, for every value of the constants that satisfies the assumptions:

- `TypeCorrect: Spec => []TypeOK`
- `PoolSoundness: Spec => []PoolSound`
- `RejectionFaithfulness: Spec => []RejectionFaithful`

The assumptions:

- `PipelineAssumption`:
  - Checks is a sequence of names that contains `"VerificationGas"` exactly once;
  - Ops are user operations;
  - `CalculatePreVerificationGas` of each op is a U256, which is the Rust return type of the function;
  - `NoOp` is not an op.
- `MaxVerificationGas ∈ Nat`.
- The cost table is in Nat.

TLC evaluates all of them on every run of `MC_SanityPipeline`.

### The inductive invariant

`PoolSound` is not inductive on its own. `Admit` pools whatever operation its request holds, so the invariant must know that a request past the VerificationGas check holds a good operation. `IInv` (in `SanityPipeline`) adds `SlotInv(r)` for every request:

- An idle slot is at check 1. Without this, a reused slot could start past VerificationGas.
- A non-idle slot holds an operation of `Ops`.
- A waiting request waits on a chain-state check. Without this, its reply could step over VerificationGas.
- A request whose next check is past `VerificationGasIndex` holds an operation `WithinGasBounds`.
- A request rejected with its index at `VerificationGasIndex` holds the result `CheckUserOperation` gives its operation, and that result is not Ok. `RejectionFaithfulness` needs this: the chain checks also reject, and only this conjunct ties a VerificationGas rejection to the check's own verdict.

TLC checked `IInv` as an invariant of the pipeline_safety instance before it was proved.

The proof has these parts:

- `InitIInv` shows `Init => IInv`.
- `NextIInv` has one step per action, and under each one step per conjunct.
- The two lemmas used:
  - `VerificationGasIndexFacts`: the VerificationGas check has exactly one position.
  - `CheckUserOperationFacts`: the check's result is in `Results`, and `Ok` implies `WithinGasBounds`, by the three cases of the two `if`s.
- `CheckErrorFacts`: a non-Ok result of the check means the operation is outside the bounds, with the gas-limit error exactly when the limit exceeds the maximum.
- The invariance theorems follow from `SpecIInv` by PTL.

### The hash and the decoder

`UserOperationProofs` proves two theorems about `UserOperation::hash` for all operations, entry points and chain ids:

- `HashIgnoresSignature`: operations that differ only in the signature have the same hash, because `pack_for_signature` packs the operation with its signature emptied.
- `HashBinding`: equal hashes imply equal `pack_for_signature` encodings, the same entry point and the same chain id word. keccak is injective in the model, so equal hashes mean equal outer inputs `<<digest>> \o AddressWord(ep) \o Word(chain_id)`. `HashInputParts` shows where each part sits in that input: byte 1, bytes 2..33 and bytes 34..65. `AddressWordInjective` shows that the word of an address determines the address.

Two more theorems look inside `pack`:

- `PackForSignatureShape`: `pack_for_signature` is the eleven head words (`Cat11(HeadFields(uo))`) followed by the tails of `init_code`, `call_data` and `paymaster_and_data`. Packing the operation with its signature emptied gives that prefix followed by one zero word, the empty signature's length word, and the code's `SubSeq(.., 1, Len - 32)` removes exactly that word. `PackSplit` gives the head/tail layout of `Pack`, `EncodeEmpty` shows that the tail of `<<>>` is `Word(0)`, and `DropWord` shows that removing the last 32 bytes of `s \o Word(n)` gives back `s`.
- `HashBindsHead`: equal hashes imply the same head words. So the sender is the same, and so are the words of the nonce and of all five gas and fee fields. Gas limits and fees cannot change under a signature. The argument starts from `HashBinding`, which gives equal `pack_for_signature`. Both encodings begin with their 352-byte head (`PrefixOfConcat`, with `Cat11Type` for the length). `Cat11Injective` splits equal heads word by word: `ConcatCancel` peels one 32-byte word at a time off the end. The sender follows from `AddressWordInjective`.

The word equalities cannot go on to equal numbers: that would need `Word` to be injective, which depends on `^` (see below).

Together they are the `=>` half of `HashIdentity` that needs no knowledge of `pack` beyond its type. The other half, that equal `pack_for_signature` means the operations agree on every field but the signature, is the injectivity of the encoding. That stays model-checked (see below).

The lemmas on the model's operators, used by these proofs:

- `WordType`: a word is 32 bytes.
- `AddressWordFacts`: an address word is 32 bytes, with byte `12 + i` equal to byte `i` of the address.
- `EncodeBytesType` and `PackType`: a dynamic field's tail and the whole tuple encoding are byte strings.

`BatchDecoderProofs` proves `SimulateValidationNotBatch`: for every operation, `parse_from_input_data` of a `simulateValidation` call carrying it is `None`. The call's first byte is 238, the first byte of its own selector. The first byte of the `handleOps` selector is 31, so the selector check fails. The arguments of such a call are never decoded, although for an operation with a zero sender they would decode as an empty `handleOps` array. `FirstByteOfCall` gives the first byte of any selector followed by arguments.

How the provers were led through sequences:

- The SMT backend proves facts about `\o` in the general form `(s \o t)[Len(s) + i] = t[i]`. The proofs derive those facts first, then rewrite to literal indices in separate steps.
- Lemmas with arithmetic in their conclusions are instantiated through a predicate kept opaque until after instantiation (`HashInputLayout`, `CallStart`). The provers did not match these conclusions when they were written out.

### The overhead and the placeholder signature

`OverheadProofs` proves what the overhead calculator charges for a signature. `CalculatePreVerificationGas` charges `FixedOverhead + ByteCost(Pack(uo))`, where `ByteCost` prices every zero byte at `ZeroByteCost` and every other byte at `NonZeroByteCost`.

- `ZeroCountConcat` and `ByteCostConcat`: the zero-byte count, and so the byte cost, of `a \o b` is the sum over the two parts. The zero positions of the second part are carried into the concatenation by the bijection `j |-> j + Len(a)` (`FS_Bijection`), and the union with the first part is disjoint (`FS_Union`).
- `PackWithSignature`: packing an operation with any signature `s` gives `pack_for_signature` of the operation followed by the tail of `s`. The head and the other three tails do not depend on the signature.
- `SignatureOverhead`: the overhead of the operation signed with `s` is `FixedOverhead + ByteCost(PackForSignature(uo)) + ByteCost(EncodeBytes(s))`.
- `PlaceholderComparison`: signing with `sig` costs no more overhead than signing with the 65-byte `DummySignature` of `From<UserOperationPartial>` exactly when the tail of `sig` costs no more than the placeholder's tail. Nothing else about the operation matters.
- `DummySignatureCoversReduced`: in every state with a well-typed `final`, the invariant `DummySignatureCovers` of the estimation run is equivalent to `SignatureTailsCovered`, a condition on the set `Signatures` alone. The invariant therefore does not depend on the draft, the estimate or the gas values the client filled in. The estimation run checks it on three drafts, and this theorem covers every other draft.

`SignatureTailsCovered` itself is left to TLC. It compares the zero bytes of `Word(Len(sig))` with those of `Word(65)`, which is arithmetic on `^` (see below). `Spec => []DummySignatureCovers` is not stated either. It would need every `final` to be a well-typed operation, and the estimate's `CalculatePreVerificationGas` to fit in a U256, which is again a bound on `^`.

### Only model-checked
- **The codec properties.** Every property of `MC_Codec` quantifies over byte strings. The parts of `HashIdentity` proved above are the exception. Its proof would need induction over sequences and facts about `^` and `\div` on 256-bit words. The installed provers can do neither: the induction theorems take an operator parameter, and `^` is evaluated only for literal exponents up to 4. `256^5 = 256^4 * 256` is already out of reach, so `Word` cannot be shown injective, and the zero bytes of `Word(n)` cannot be counted.
- **The estimation and batch decoder properties.** They are about byte strings and words, like the codec's. `BatchRoundTrip` and `TruncatedBatchSafe` need what `Decompress` computes for every encoding, which is induction over data. `SimulateValidationNotBatch` proves for every operation that a `simulateValidation` call is not decoded as a batch. The encoder side (`EncodeHandleOps`) uses `FlattenSeq` of SequencesExt, a recursive function the provers cannot unfold. `DummySignatureCovers` is reduced by `DummySignatureCoversReduced` to a condition on the signatures, which TLC checks.

## 6. Not modelled
- Completion of a validation request (a liveness property). The pipeline loop is not under `src/`, `check_user_operation` never awaits, and the code sets no timeout on a chain query. Completion would therefore rest on the node always answering, an assumption the code does not provide, so no fairness is assumed and no liveness property is stated.
- `UserOperationHash` conversions, `FromStr`, `Encode`/`Decode` (user_operation.rs 15-62). They wrap and unwrap a 32-byte `H256`; the model's hash is an idealised injective keccak value rather than 32 bytes, so there is nothing for these wrappers to be checked against.
- Entry point calls other than `handleOps` and `simulateValidation`. Each has its own selector, so for `parse_from_input_data` they behave as `simulateValidation` does.
- Receipt and lookup types, and serde wire forms (camelCase names, checksum addresses). These are pure data.
- What the chain-state checks read (sender code, paymaster deposit, and so on). Each is abstracted to pass or fail on the node's reply. There is no refinement to the node's state, so a state change between a query and the admission is not examined.
- A configured cost table besides `Overhead::default()` (verification_gas.rs:26). Spec 2 makes the table process-wide and read-only and spec 4.4.1 has the check use the default one, so this code has one table, and the model has one (the CONSTANTS of `Overhead`).
