----------------------------- MODULE FieldValue -----------------------------
(***************************************************************************)
(* main/usb/descriptor_parser.c: extract_field_value takes the bits of a   *)
(* field out of a report, byte by byte from the lowest bit on, and extends *)
(* the sign.  One step is one pass of its loop.  It is not told how long    *)
(* the report is: behind it come the bytes of an earlier report, and then  *)
(* other memory.                                                           *)
(***************************************************************************)
EXTENDS Integers

CONSTANTS ByteBits,   \* bits of a byte
          Bytes,      \* bytes of memory from a report on that a field may reach
          MaxBits     \* the widest field: 64

ASSUME FieldAssumption ==
  ByteBits \in Nat \ {0} /\ Bytes \in Nat \ {0} /\ MaxBits \in Nat \ {0}

VARIABLES
  report,      \* data: the report and what comes behind it
  bitOffset,   \* bit_offset
  bitSize,     \* bit_size
  byteOffset,  \* byte_offset
  bitShift,    \* bit_shift
  taken,       \* current_bit
  value,       \* value
  extracted    \* the function has returned value

fieldVars == << report, bitOffset, bitSize, byteOffset, bitShift, taken, value,
                extracted >>

MemoryBits == Bytes * ByteBits

\* 1 << n, and the bit i of a number, of a negative one too.
TwoTo[n \in Nat] == IF n = 0 THEN 1 ELSE 2 * TwoTo[n - 1]
Bit(v, i) == (v \div TwoTo[i]) % 2

\* Every variable has its type.
FieldTypeOK ==
  /\ report \in [0..(Bytes - 1) -> 0..(TwoTo[ByteBits] - 1)]
  /\ bitOffset \in 0..MemoryBits /\ bitSize \in 0..(MaxBits + 1)
  /\ byteOffset \in 0..Bytes /\ bitShift \in 0..(ByteBits - 1)
  /\ taken \in 0..bitSize /\ value \in Int /\ extracted \in BOOLEAN

\* Any bytes and any field; the report is the first of them, however many it has.
FieldInit ==
  /\ report \in [0..(Bytes - 1) -> 0..(TwoTo[ByteBits] - 1)]
  /\ bitOffset \in 0..MemoryBits /\ bitSize \in 0..(MaxBits + 1)
  /\ bitOffset + bitSize <= MemoryBits
  /\ byteOffset = bitOffset \div ByteBits
  /\ bitShift = bitOffset % ByteBits
  /\ taken = 0 /\ value = 0 /\ extracted = FALSE

Inputs == << report, bitOffset, bitSize >>

\* No field, or one too wide, is worth 0.
RefuseField ==
  /\ ~extracted /\ bitSize \notin 1..MaxBits
  /\ extracted' = TRUE
  /\ UNCHANGED << Inputs, byteOffset, bitShift, taken, value >>

\* A single bit has no sign.
TakeSingleBit ==
  /\ ~extracted /\ bitSize = 1
  /\ value' = Bit(report[byteOffset], bitShift)
  /\ extracted' = TRUE
  /\ UNCHANGED << Inputs, byteOffset, bitShift, taken >>

BitsToRead ==
  IF ByteBits - bitShift < bitSize - taken THEN ByteBits - bitShift ELSE bitSize - taken

\* Mutant of TakeBits: the shift of the first byte is kept.
TakeBitsShifted ==
  /\ ~extracted /\ bitSize \in 2..MaxBits /\ taken < bitSize
  /\ LET bits == (report[byteOffset] \div TwoTo[bitShift]) % TwoTo[BitsToRead]
     IN value' = value + bits * TwoTo[taken]
  /\ taken' = taken + BitsToRead
  /\ byteOffset' = byteOffset + 1
  /\ UNCHANGED << Inputs, bitShift, extracted >>

\* One byte's share: from the shift on in the first byte, from bit 0 after it.
TakeBits ==
  /\ ~extracted /\ bitSize \in 2..MaxBits /\ taken < bitSize
  /\ LET bits == (report[byteOffset] \div TwoTo[bitShift]) % TwoTo[BitsToRead]
     IN value' = value + bits * TwoTo[taken]
  /\ taken' = taken + BitsToRead
  /\ byteOffset' = byteOffset + 1
  /\ bitShift' = 0
  /\ UNCHANGED << Inputs, extracted >>

\* The highest bit is the sign, of a field of 64 bits too: as an int64_t.
ExtendSign ==
  /\ ~extracted /\ bitSize \in 2..MaxBits /\ taken = bitSize
  /\ value' = IF value >= TwoTo[bitSize - 1] THEN value - TwoTo[bitSize] ELSE value
  /\ extracted' = TRUE
  /\ UNCHANGED << Inputs, byteOffset, bitShift, taken >>

FieldNext == RefuseField \/ TakeSingleBit \/ TakeBits \/ ExtendSign

FieldSpec == FieldInit /\ [][FieldNext]_fieldVars

-----------------------------------------------------------------------------
\* A bit of the report, and the numbers a field of that many bits can stand for.
ReportBit(i) == Bit(report[i \div ByteBits], i % ByteBits)

Numbers(bits) ==
  IF bits = 1 THEN 0..1 ELSE -TwoTo[bits - 1]..(TwoTo[bits - 1] - 1)

\* The value of a field is the two's complement number of its bits, wherever it lies
\* and however many bytes it touches: the one number in its range that has these bits.
\* No field and one that is too wide are worth 0.  Of a report of any length that has
\* the whole field no byte behind the report is read.  (process_report does not look at
\* the length: a field that the report does not have is worth what comes behind it.)
FieldReadRightly ==
  /\ extracted =>
       IF bitSize \in 1..MaxBits
       THEN /\ value \in Numbers(bitSize)
            /\ \A i \in 0..(bitSize - 1) : Bit(value, i) = ReportBit(bitOffset + i)
       ELSE value = 0
  /\ \A length \in 0..Bytes : bitOffset + bitSize <= length * ByteBits =>
       (~extracted /\ taken < bitSize => byteOffset < length)
=============================================================================
