------------------------- MODULE BatchDecoderProofs -------------------------
(***************************************************************************)
(* Proofs about parse_from_input_data (src/src/types/user_operation.rs)    *)
(* for every operation: the input data of a simulateValidation call is     *)
(* never taken for a handleOps batch, whatever the operation it carries.   *)
(***************************************************************************)
EXTENDS BatchDecoder, UserOperationProofs, TLAPS

(* The copy into the bindings' struct keeps the field types.               *)
LEMMA ToEntryPointOpType ==
  ASSUME NEW uo \in UserOperations
  PROVE  ToEntryPointOp(uo) \in UserOperations
BY DEF ToEntryPointOp, UserOperations

(* The start of a call's input data: its first byte is the first byte of *)
(* the selector sel, and it is at least as long as sel, whatever words w  *)
(* and arguments q follow the selector.                                    *)
CallStart(sel, w, q) ==
  /\ ((sel \o w) \o q)[1] = sel[1]
  /\ Len((sel \o w) \o q) >= Len(sel)

(* Every call with a non-empty selector starts as CallStart says.          *)
LEMMA FirstByteOfCall ==
  ASSUME NEW sel \in Seq(Byte), NEW w \in Seq(Byte), NEW q \in Seq(Byte)
  PROVE  1 \in 1..Len(sel) => CallStart(sel, w, q)
<1>. HAVE 1 \in 1..Len(sel)
<1>1. sel \o w \in Seq(Byte) /\ Len(sel \o w) = Len(sel) + Len(w)
  OBVIOUS
<1>2. \A i \in 1..Len(sel \o w) : ((sel \o w) \o q)[i] = (sel \o w)[i]
  BY <1>1
<1>3. \A i \in 1..Len(sel) : (sel \o w)[i] = sel[i]
  OBVIOUS
<1>4. 1 \in 1..Len(sel \o w) /\ Len((sel \o w) \o q) >= Len(sel)
  BY <1>1
<1>. QED  BY <1>2, <1>3, <1>4 DEF CallStart

(* Whatever operation it carries, the input data of a simulateValidation  *)
(* call starts with the byte 238 of its selector and is at least as long  *)
(* as the selector.                                                        *)
LEMMA SimulateValidationFirstByte ==
  ASSUME NEW q \in Seq(Byte)
  PROVE  /\ (SimulateValidationSelector \o Word(WordSize) \o q)[1] = 238
         /\ Len(SimulateValidationSelector \o Word(WordSize) \o q) >= 4
<1>1. /\ SimulateValidationSelector \in Seq(Byte)
      /\ Len(SimulateValidationSelector) = 4
      /\ SimulateValidationSelector[1] = 238
  BY DEF SimulateValidationSelector, Byte
<1>2. Word(WordSize) \in Seq(Byte)
  BY WordType DEF WordSize
<1>3. 1 \in 1..Len(SimulateValidationSelector)
  BY <1>1
<1>4. CallStart(SimulateValidationSelector, Word(WordSize), q)
  BY <1>1, <1>2, <1>3, FirstByteOfCall
<1>. QED  BY <1>1, <1>4 DEF CallStart

(***************************************************************************)
(* A simulateValidation call never decodes as a batch: its first byte is   *)
(* that of its own selector, so the selector check of                      *)
(* parse_from_input_data (EntryPointAPICalls::decode trying each call      *)
(* under its own selector) rejects it before the arguments are decoded,    *)
(* although the arguments of some operations (a zero sender) would decode  *)
(* as an empty handleOps array.                                            *)
(***************************************************************************)
THEOREM SimulateValidationNotBatch ==
  ASSUME NEW uo \in UserOperations
  PROVE  ParseFromInputData(EncodeSimulateValidation(uo)) = None
<1>. DEFINE p == Pack(ToEntryPointOp(uo))
            d == SimulateValidationSelector \o Word(WordSize) \o p
<1>1. /\ p \in Seq(Byte)
      /\ Word(WordSize) \in Seq(Byte)
  BY ToEntryPointOpType, PackType, WordType DEF WordSize
<1>2. /\ SimulateValidationSelector \in Seq(Byte)
      /\ Len(SimulateValidationSelector) = 4
      /\ SimulateValidationSelector[1] = 238
  BY DEF SimulateValidationSelector, Byte
<1>3. d[1] = 238 /\ Len(d) >= 4
  BY <1>1, SimulateValidationFirstByte
<1>4. SubSeq(d, 1, 4)[1] = d[1]
  BY <1>1, <1>2, <1>3
<1>5. HandleOpsSelector[1] = 31
  BY DEF HandleOpsSelector
<1>6. SubSeq(d, 1, 4) # HandleOpsSelector
  BY <1>3, <1>4, <1>5
<1>7. EncodeSimulateValidation(uo) = d
  BY DEF EncodeSimulateValidation
<1>. QED  BY <1>6, <1>7 DEF ParseFromInputData

=============================================================================
