--------------------------- MODULE MCUserOperation ---------------------------
(***************************************************************************)
(* Definitions shared by the MC modules: a Word that TLC can evaluate, and *)
(* small addresses.                                                        *)
(***************************************************************************)
EXTENDS UserOperation, TLC

(* Word for TLC: the bytes above the fourth from the right are zero for    *)
(* every number TLC represents, and 256^k overflows TLC's integers for     *)
(* k > 3, so this equals Word(n) on the model's numbers.                   *)
MCWord(n) ==
  [i \in 1..WordSize |->
     IF WordSize - i > 3 THEN 0 ELSE (n \div 256^(WordSize - i)) % 256]

Bytes(n, b) == [i \in 1..n |-> b]

Addr0 == Bytes(AddressSize, 0)

Addr1 == [i \in 1..AddressSize |-> IF i = 1 THEN 102 ELSE 0]

Addr2 == [i \in 1..AddressSize |-> IF i = AddressSize THEN 14 ELSE 0]

=============================================================================
