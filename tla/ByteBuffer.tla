------------------------------ MODULE ByteBuffer -----------------------------
(***************************************************************************)
(* The buffer the TWKB writer fills (bytebuffer.c): every append makes     *)
(* room first, doubling the capacity until what it asks for fits, then     *)
(* writes.  For an integer of variable length it asks for VarintRoom bytes *)
(* before it knows how many it takes.                                      *)
(***************************************************************************)
EXTENDS Integers, Varint

CONSTANTS
  StartSizes,    \* sizes buffers are created with
  BulkSizes,     \* lengths of copied blocks and of appended buffers
  VarintSizes,   \* bytes that varints take
  MaxWritten     \* bound on the bytes in the buffer

VarintRoom == 8
IntSize    == 4
DoubleSize == 8

\* bytebuffer_merge creates a buffer of the exact size, which may be 0, but
\* nothing is appended to one.
ASSUME BufferAssumption ==
  /\ StartSizes \subseteq Nat \ {0} /\ BulkSizes \subseteq Nat
  /\ VarintSizes \subseteq 1..MaxVarintBytes
  /\ MaxWritten \in Nat

VARIABLES
  capacity,   \* bytes allocated
  written,    \* writecursor - buf_start
  wanted,     \* capacity looked for by bytebuffer_makeroom, not yet allocated
  call        \* the append under way: the room it asks for, the bytes it writes
bufferVars == <<capacity, written, wanted, call>>

NoCall == [room |-> 0, size |-> 0]

\* bytebuffer_create_with_size
BufferInit == capacity \in StartSizes /\ written = 0 /\ wanted = capacity /\ call = NoCall

\* bytebuffer_append_*: the call with its room and size
BeginAppend(room, size) ==
  /\ call = NoCall /\ size > 0 /\ written + size <= MaxWritten
  /\ call' = [room |-> room, size |-> size]
  /\ wanted' = capacity
  /\ UNCHANGED <<capacity, written>>
AppendByte == BeginAppend(1, 1)
AppendBulk == \E n \in BulkSizes : BeginAppend(n, n)
AppendVarint == \E n \in VarintSizes : BeginAppend(VarintRoom, n)
AppendInt == BeginAppend(IntSize, IntSize)
AppendDouble == BeginAppend(DoubleSize, DoubleSize)

\* bytebuffer_makeroom
Required_mutant == call.room
Required == written + call.room
Double ==
  /\ call # NoCall /\ wanted < Required
  /\ wanted' = 2 * wanted
  /\ UNCHANGED <<capacity, written, call>>

\* The buffer is reallocated if it must be, and the bytes are written.
WriteBytes ==
  /\ call # NoCall /\ wanted >= Required
  /\ capacity' = wanted
  /\ written' = written + call.size
  /\ call' = NoCall
  /\ UNCHANGED wanted

\* bytebuffer_clear
Clear ==
  /\ call = NoCall /\ written > 0
  /\ written' = 0
  /\ UNCHANGED <<capacity, wanted, call>>

BufferNext == \/ AppendByte \/ AppendBulk \/ AppendVarint \/ AppendInt \/ AppendDouble
              \/ Double \/ WriteBytes \/ Clear

BufferSpec == BufferInit /\ [][BufferNext]_bufferVars

-----------------------------------------------------------------------------
(* Properties *)

BufferOK ==
  /\ capacity \in Nat \ {0} /\ wanted \in Nat \ {0} /\ written \in Nat
  /\ call \in [room : Nat, size : Nat]
  /\ call.size <= call.room \/ (call.room = VarintRoom /\ call.size \in VarintSizes)
  /\ wanted >= capacity

\* The bytes in the buffer never exceed its capacity by more than the longest
\* varint exceeds the room that is made for one, whatever was appended before:
\* nothing else ever goes beyond, and an excess does not add up, since the next
\* append makes room for it too.
ExcessIsOfOneVarint ==
  written <= capacity \/ \E n \in VarintSizes : written <= capacity + (n - VarintRoom)

\* No append writes past what is allocated: true of buffers whose varints take
\* no more bytes than the room that is made for them.
WritesStayInside == written <= capacity
=============================================================================
