----------------------------- MODULE BitIOProofs ----------------------------
(***************************************************************************)
(* Proofs about BitIO, for every byte size, buffer and initial memory.     *)
(***************************************************************************)
EXTENDS BitIO, SequenceTheorems, TLAPS

(* Bits of a lower byte lie before the first bit of a higher one. *)
LEMMA ByteOrder ==
  ASSUME NEW a \in Nat, NEW b \in Nat, a < b
  PROVE  a * ByteBits + ByteBits <= b * ByteBits
<1>1. (b - a) * ByteBits >= ByteBits
  BY BitIOAssumption
<1>2. (b - a) * ByteBits = b * ByteBits - a * ByteBits
  BY BitIOAssumption
<1> QED
  BY <1>1, <1>2, BitIOAssumption

(* A bit at or before the writer's position has been written, and only such  *)
(* a bit.                                                                    *)
LEMMA WrittenPosition ==
  ASSUME TypeOK, NEW a \in Nat, NEW j \in Offsets
  PROVE  Written(a, j) <=> Position(a, j) <= byte_pos * ByteBits + bit_pos
<1> USE BitIOAssumption DEF TypeOK, Offsets, Written, Position
<1>1. CASE a < byte_pos
  BY <1>1, ByteOrder
<1>2. CASE a = byte_pos
  BY <1>2
<1>3. CASE a > byte_pos
  <2>1. byte_pos * ByteBits + ByteBits <= a * ByteBits
    BY <1>3, ByteOrder
  <2> QED
    BY <1>3, <2>1
<1> QED
  BY <1>1, <1>2, <1>3

(* The initial states satisfy the invariant. *)
LEMMA InitInv == Init => IInv
<1> SUFFICES ASSUME Init PROVE IInv
  OBVIOUS
<1> USE BitIOAssumption DEF Init, WriterInit, NoReader
<1>1. ZeroByte \in Byte /\ 0 \in Offsets /\ 0 \in Addresses
  BY DEF ZeroByte, Byte, Bit, Offsets, Addresses
<1>2. TypeOK
  BY <1>1 DEF TypeOK
<1>3. WriterInv
  BY DEF WriterInv, Written, Offsets
<1>4. ReaderInv
  BY DEF ReaderInv
<1>5. PaddingIsZero
  BY <1>1 DEF PaddingIsZero, ZeroByte, Offsets, Addresses
<1>6. SlackUntouched
  BY DEF SlackUntouched, Addresses
<1>7. ReadBack
  BY DEF ReadBack
<1> QED
  BY <1>2, <1>3, <1>4, <1>5, <1>6, <1>7 DEF IInv

(* Accepting a bit preserves the invariant. *)
LEMMA PutBitInv ==
  ASSUME IInv, NEW bit \in Bit, PutBit(bit)
  PROVE  IInv'
<1> USE BitIOAssumption
<1>1. byte_pos \in 0 .. Cap - 1 /\ bit_pos \in Offsets /\ byte_pos \in Addresses
  BY DEF IInv, TypeOK, PutBit, Addresses
<1>2. /\ put' = Append(put, bit)
      /\ put' \in Seq(Bit)
      /\ Len(put') = Len(put) + 1
      /\ \A i \in 1 .. Len(put) : put'[i] = put[i]
      /\ put'[Len(put) + 1] = bit
  BY AppendProperties DEF IInv, TypeOK, PutBit
<1>3. Ored(bit) \in [Addresses -> Byte]
  BY <1>1 DEF IInv, TypeOK, Ored, Byte, Bit
<1>4. Entered(Ored(bit)) \in [Addresses -> Byte]
  <2>1. ZeroByte \in Byte
    BY DEF ZeroByte, Byte, Bit
  <2> QED
    BY <1>3, <2>1 DEF Entered
<1>5. \A a \in Addresses, j \in Offsets :
         Ored(bit)[a][j] = IF a = byte_pos /\ j = bit_pos /\ bit = 1 THEN 1 ELSE buf[a][j]
  BY <1>1 DEF IInv, TypeOK, Ored, Byte
<1>6. \A a \in Addresses :
         Entered(Ored(bit))[a] = IF a = byte_pos + 1 /\ a < Cap THEN ZeroByte ELSE Ored(bit)[a]
  BY <1>1, <1>3 DEF Entered, Addresses
<1>7. TypeOK'
  BY <1>1, <1>2, <1>3, <1>4 DEF IInv, TypeOK, PutBit, reader, Offsets
<1>8. WriterInv'
  <2>1. Len(put)' = byte_pos' * ByteBits + bit_pos'
    <3>1. /\ ByteBits \in Nat /\ byte_pos \in Nat /\ bit_pos \in Nat
          /\ Len(put) = byte_pos * ByteBits + bit_pos
      BY <1>1 DEF IInv, WriterInv, Offsets
    <3>2. \/ bit_pos' = bit_pos + 1 /\ byte_pos' = byte_pos
          \/ bit_pos + 1 = ByteBits /\ bit_pos' = 0 /\ byte_pos' = byte_pos + 1
      BY DEF PutBit
    <3>3. (byte_pos + 1) * ByteBits = byte_pos * ByteBits + ByteBits
      BY <3>1
    <3>4. Len(put') = Len(put) + 1
      BY <1>2
    <3> QED
      BY <3>1, <3>2, <3>3, <3>4
  <2>2. (byte_pos = Cap => bit_pos = 0)' /\ (overflow => byte_pos = Cap)'
    BY <1>1 DEF IInv, WriterInv, PutBit, Offsets
  <2>3. ASSUME NEW a \in 0 .. Cap - 1, NEW j \in Offsets, Written(a, j)'
        PROVE  buf'[a][j] = put'[Position(a, j)]
    <3>1. a \in Addresses /\ a <= byte_pos /\ Position(a, j) \in Nat \ {0}
      BY <2>3, <1>1 DEF Written, PutBit, Addresses, Offsets, Position
    <3>2. CASE a = byte_pos /\ j = bit_pos
      <4>1. Position(a, j) = Len(put) + 1
        BY <3>2 DEF IInv, WriterInv, Position
      <4>2. buf[a][j] = 0
        BY <3>2, <1>1 DEF IInv, PaddingIsZero, Offsets
      <4>3. buf'[a][j] = Ored(bit)[a][j]
        BY <3>1, <3>2, <1>1, <1>6 DEF PutBit
      <4> QED
        BY <4>1, <4>2, <4>3, <3>1, <3>2, <1>2, <1>5 DEF Bit
    <3>3. CASE ~ (a = byte_pos /\ j = bit_pos)
      <4>1. Written(a, j)
        BY <2>3, <3>3, <1>1 DEF Written, PutBit, Offsets
      <4>2. Position(a, j) \in 1 .. Len(put)
        BY <4>1, <3>1, WrittenPosition DEF IInv, WriterInv
      <4>3. buf'[a][j] = buf[a][j]
        BY <3>1, <3>3, <1>1, <1>5, <1>6 DEF PutBit
      <4> QED
        BY <4>1, <4>2, <4>3, <1>2 DEF IInv, WriterInv
    <3> QED
      BY <3>2, <3>3
  <2> QED
    BY <2>1, <2>2, <2>3 DEF WriterInv
<1>9. ReaderInv'
  BY DEF IInv, ReaderInv, PutBit, reader
<1>10. PaddingIsZero'
  <2> SUFFICES ASSUME byte_pos' < Cap, NEW j \in bit_pos' .. ByteBits - 1
               PROVE  buf'[byte_pos'][j] = 0
    BY DEF PaddingIsZero
  <2>1. j \in Offsets
    BY <1>7 DEF TypeOK, Offsets
  <2>2. CASE bit_pos + 1 < ByteBits
    BY <2>1, <2>2, <1>1, <1>5 DEF IInv, PaddingIsZero, PutBit, Offsets
  <2>3. CASE bit_pos + 1 = ByteBits
    BY <2>1, <2>3, <1>1, <1>6 DEF PutBit, ZeroByte, Offsets, Addresses
  <2> QED
    BY <2>2, <2>3, <1>1 DEF PutBit
<1>11. SlackUntouched'
  <2> SUFFICES ASSUME NEW a \in Cap .. Size - 1
               PROVE  buf'[a] = mem0[a]
    BY DEF SlackUntouched, PutBit
  <2>1. a \in Addresses /\ a # byte_pos
    BY <1>1 DEF Addresses
  <2>2. Ored(bit)[a] = buf[a]
    BY <2>1, <1>1 DEF IInv, TypeOK, Ored
  <2>3. buf'[a] = Ored(bit)[a]
    BY <2>1, <1>6 DEF PutBit
  <2> QED
    BY <2>2, <2>3 DEF IInv, SlackUntouched
<1>12. ReadBack'
  BY <1>2 DEF IInv, TypeOK, ReadBack, PutBit, reader
<1> QED
  BY <1>7, <1>8, <1>9, <1>10, <1>11, <1>12 DEF IInv

(* A refused bit changes nothing but the overflow mark. *)
LEMMA PutOverflowInv == IInv /\ PutOverflow => IInv'
BY BitIOAssumption
   DEF IInv, TypeOK, WriterInv, Written, ReaderInv, PaddingIsZero, SlackUntouched,
       ReadBack, PutOverflow, reader

(* A reader may be opened at any moment, on any length offered. *)
LEMMA OpenReaderInv ==
  ASSUME IInv, NEW len \in {WriterLen, Cap}, OpenReader(len)
  PROVE  IInv'
<1> USE BitIOAssumption
<1>1. len \in 0 .. Cap
  BY DEF IInv, TypeOK, WriterInv, WriterLen, Offsets
<1>2. Len(put) <= len * ByteBits
  <2>1. CASE byte_pos < len
    <3>1. byte_pos * ByteBits + ByteBits <= len * ByteBits
      BY <2>1, <1>1, ByteOrder DEF IInv, TypeOK
    <3> QED
      BY <3>1, <1>1 DEF IInv, TypeOK, WriterInv, Offsets
  <2>2. CASE byte_pos = len
    BY <2>2 DEF IInv, TypeOK, WriterInv, WriterLen, Offsets
  <2> QED
    BY <2>1, <2>2, <1>1 DEF IInv, TypeOK, WriterLen, Offsets
<1>3. TypeOK'
  <2>1. << >> \in Seq(Bit) /\ Len(put) \in Nat /\ 0 \in Offsets
    BY DEF IInv, TypeOK, Offsets
  <2>2. UNCHANGED <<buf, mem0, byte_pos, bit_pos, overflow, put>>
    BY DEF OpenReader, writer
  <2>3. (opened \in 0 .. Len(put))' /\ (got \in Seq(Bit))'
    BY <2>1, <2>2 DEF OpenReader
  <2>4. (r_cap \in 0 .. Cap)' /\ (r_byte \in 0 .. r_cap)' /\ (r_bit \in Offsets)'
    BY <1>1, <2>1 DEF OpenReader
  <2>5. (reading \in BOOLEAN)' /\ (eof \in BOOLEAN)'
    BY DEF OpenReader
  <2> QED
    BY <2>2, <2>3, <2>4, <2>5 DEF IInv, TypeOK
<1>4. WriterInv' /\ PaddingIsZero' /\ SlackUntouched'
  BY DEF IInv, WriterInv, Written, PaddingIsZero, SlackUntouched, OpenReader, writer
<1>5. ReaderInv' /\ ReadBack'
  BY <1>1, <1>2 DEF ReaderInv, ReadBack, OpenReader
<1> QED
  BY <1>3, <1>4, <1>5 DEF IInv

(* Reporting the end of input changes nothing but the mark. *)
LEMMA GetEofInv == IInv /\ GetEof => IInv'
BY BitIOAssumption
   DEF IInv, TypeOK, WriterInv, Written, ReaderInv, PaddingIsZero, SlackUntouched,
       ReadBack, GetEof, writer

(* A bit delivered below the opening mark is the bit that was put there. *)
LEMMA GetBitInv == IInv /\ GetBit => IInv'
<1> SUFFICES ASSUME IInv, GetBit PROVE IInv'
  OBVIOUS
<1> USE BitIOAssumption
<1>1. r_byte \in 0 .. r_cap - 1 /\ r_byte \in Addresses /\ r_bit \in Offsets
  BY DEF IInv, TypeOK, GetBit, Addresses
<1>2. buf[r_byte][r_bit] \in Bit
  BY <1>1 DEF IInv, TypeOK, Byte
<1>3. /\ got' = Append(got, buf[r_byte][r_bit])
      /\ got' \in Seq(Bit)
      /\ Len(got') = Len(got) + 1
      /\ \A i \in 1 .. Len(got) : got'[i] = got[i]
      /\ got'[Len(got) + 1] = buf[r_byte][r_bit]
  BY <1>2, AppendProperties DEF IInv, TypeOK, GetBit
<1>4. TypeOK'
  <2>1. /\ r_byte' \in 0 .. r_cap /\ r_bit' \in Offsets
        /\ UNCHANGED <<buf, mem0, byte_pos, bit_pos, overflow, put>>
        /\ UNCHANGED <<reading, r_cap, eof, opened>>
    BY <1>1 DEF IInv, TypeOK, GetBit, writer, Offsets
  <2> QED
    BY <1>3, <2>1 DEF IInv, TypeOK
<1>5. WriterInv' /\ PaddingIsZero' /\ SlackUntouched'
  BY DEF IInv, WriterInv, Written, PaddingIsZero, SlackUntouched, GetBit, writer
<1>6. ReaderInv'
  <2>1. (r_byte + 1) * ByteBits = r_byte * ByteBits + ByteBits
    BY <1>1
  <2>2. Len(got') = r_byte' * ByteBits + r_bit'
    BY <1>1, <1>3, <2>1 DEF IInv, ReaderInv, GetBit, Offsets
  <2>3. (r_byte = r_cap => r_bit = 0)' /\ (eof => r_byte = r_cap)'
    BY <1>1 DEF IInv, TypeOK, ReaderInv, GetBit
  <2>4. (opened <= r_cap * ByteBits)'
    BY DEF IInv, ReaderInv, GetBit
  <2> QED
    BY <2>2, <2>3, <2>4 DEF ReaderInv
<1>7. ReadBack'
  <2> SUFFICES ASSUME NEW i \in 1 .. Len(got'), i <= opened
               PROVE  got'[i] = put[i]
    BY DEF ReadBack, GetBit, writer
  <2>1. CASE i <= Len(got)
    BY <2>1, <1>3 DEF IInv, TypeOK, ReadBack
  <2>2. CASE i = Len(got) + 1
    <3>1. i = Position(r_byte, r_bit)
      BY <2>2, <1>1 DEF IInv, ReaderInv, Position
    <3>2. Written(r_byte, r_bit)
      BY <3>1, <1>1, WrittenPosition DEF IInv, TypeOK, WriterInv
    <3>3. r_byte \in 0 .. Cap - 1
      BY <1>1 DEF IInv, TypeOK
    <3> QED
      BY <3>1, <3>2, <3>3, <2>2, <1>1, <1>3 DEF IInv, WriterInv
  <2> QED
    BY <2>1, <2>2, <1>3 DEF IInv, TypeOK
<1> QED
  BY <1>4, <1>5, <1>6, <1>7 DEF IInv

(* The invariant is inductive. *)
LEMMA StepInv == IInv /\ [Next]_vars => IInv'
<1> SUFFICES ASSUME IInv, [Next]_vars PROVE IInv'
  OBVIOUS
<1>1. CASE PutOverflow
  BY <1>1, PutOverflowInv
<1>2. ASSUME NEW bit \in Bit, PutBit(bit) PROVE IInv'
  BY <1>2, PutBitInv
<1>3. ASSUME NEW len \in {WriterLen, Cap}, OpenReader(len) PROVE IInv'
  BY <1>3, OpenReaderInv
<1>4. CASE GetEof
  BY <1>4, GetEofInv
<1>5. CASE GetBit
  BY <1>5, GetBitInv
<1>6. CASE UNCHANGED vars
  BY <1>6 DEF IInv, TypeOK, WriterInv, Written, ReaderInv, PaddingIsZero, SlackUntouched,
              ReadBack, vars, writer, reader
<1> QED
  BY <1>1, <1>2, <1>3, <1>4, <1>5, <1>6 DEF Next

LEMMA Invariant == Spec => []IInv
BY InitInv, StepInv, PTL DEF Spec

-----------------------------------------------------------------------------
(* The variables of writer and reader keep their types: no position ever     *)
(* leaves the buffer it belongs to.                                          *)
THEOREM TypeCorrect == Spec => []TypeOK
<1>1. IInv => TypeOK
  BY DEF IInv
<1> QED
  BY <1>1, Invariant, PTL

(* Every bit accepted before a reader was opened is read back, whatever the  *)
(* memory held and whatever is written while the reader runs.                *)
THEOREM BitsReadBack == Spec => []ReadBack
<1>1. IInv => ReadBack
  BY DEF IInv
<1> QED
  BY <1>1, Invariant, PTL

(* The trailing partial byte is padded with zeros, not with old memory. *)
THEOREM ZeroPadding == Spec => []PaddingIsZero
<1>1. IInv => PaddingIsZero
  BY DEF IInv
<1> QED
  BY <1>1, Invariant, PTL

(* gt_put_bit never writes behind the buffer. *)
THEOREM NoWriteBehindBuffer == Spec => []SlackUntouched
<1>1. IInv => SlackUntouched
  BY DEF IInv
<1> QED
  BY <1>1, Invariant, PTL

(* End of input comes after every bit accepted before the opening. *)
THEOREM EofComplete == Spec => []EofAfterAll
<1>1. IInv => EofAfterAll
  BY BitIOAssumption DEF IInv, TypeOK, ReaderInv, EofAfterAll
<1> QED
  BY <1>1, Invariant, PTL

(* The byte-level writer implements the bounded bit log: each put either     *)
(* appends its bit or, on a full buffer, raises the overflow mark for good.  *)
THEOREM WriterIsBitLog == Spec => ImplementsBitLog
<1>1. Init => Log!Init
  BY DEF Init, WriterInit, Log!Init
<1>2. IInv /\ [Next]_vars => [Log!Next]_Log!vars
  <2> SUFFICES ASSUME IInv, [Next]_vars PROVE [Log!Next]_Log!vars
    OBVIOUS
  <2> USE DEF Log!Next, Log!vars
  <2>1. CASE PutOverflow
    <3>1. Len(put) = Cap * ByteBits
      BY <2>1, BitIOAssumption DEF IInv, TypeOK, WriterInv, PutOverflow
    <3> QED
      BY <2>1, <3>1 DEF PutOverflow, Log!Refuse
  <2>2. ASSUME NEW bit \in Bit, PutBit(bit) PROVE Log!Next
    <3>1. byte_pos * ByteBits + ByteBits <= Cap * ByteBits
      BY <2>2, BitIOAssumption, ByteOrder DEF IInv, TypeOK, PutBit
    <3>2. Len(put) < Cap * ByteBits
      BY <3>1, BitIOAssumption DEF IInv, TypeOK, WriterInv, Offsets
    <3> QED
      BY <2>2, <3>2 DEF PutBit, Log!Store, Bit
  <2>3. ASSUME NEW len \in {WriterLen, Cap}, OpenReader(len) PROVE UNCHANGED Log!vars
    BY <2>3 DEF OpenReader, writer
  <2>4. CASE GetEof
    BY <2>4 DEF GetEof, writer
  <2>5. CASE GetBit
    BY <2>5 DEF GetBit, writer
  <2>6. CASE UNCHANGED vars
    BY <2>6 DEF vars, writer
  <2> QED
    BY <2>1, <2>2, <2>3, <2>4, <2>5, <2>6 DEF Next
<1> QED
  BY <1>1, <1>2, Invariant, PTL DEF Spec, Log!Spec, ImplementsBitLog
=============================================================================
