-------------------------------- MODULE Varint ------------------------------
(***************************************************************************)
(* Integers of variable length (varint.c): an unsigned integer is written  *)
(* in groups of seven bits, the low ones first; a signed one is zigzagged  *)
(* first so that small absolute values take few bytes.                     *)
(***************************************************************************)
EXTENDS Integers, Functions

\* Signed to unsigned and back: 0, -1, 1, -2 are 0, 1, 2, 3.
Zigzag(n) == IF n >= 0 THEN 2 * n ELSE -2 * n - 1
Unzigzag(q) == IF q % 2 = 1 THEN -((q + 1) \div 2) ELSE q \div 2

\* Bytes of an unsigned 64-bit integer, at most ten.
MaxVarintBytes == 10
VarintBytes(q) == CHOOSE k \in 1..MaxVarintBytes :
                     /\ k = MaxVarintBytes \/ q < 128 ^ k
                     /\ \A j \in 1..(k - 1) : q >= 128 ^ j

\* All bytes but the last have their high bit set.
Encoded(q) ==
  [i \in 1..VarintBytes(q) |->
     ((q \div 128 ^ (i - 1)) % 128) + (IF i < VarintBytes(q) THEN 128 ELSE 0)]

\* The bytes of the varint at the start of a sequence, 0 if it has no end there.
EncodedBytes(bytes) ==
  IF \E i \in DOMAIN bytes : bytes[i] < 128
  THEN CHOOSE i \in DOMAIN bytes : bytes[i] < 128 /\ \A j \in 1..(i - 1) : bytes[j] >= 128
  ELSE 0

\* Its value.
Decoded(bytes) ==
  SumFunctionOnSet([i \in DOMAIN bytes |-> (bytes[i] % 128) * 128 ^ (i - 1)],
                   1..EncodedBytes(bytes))
=============================================================================
