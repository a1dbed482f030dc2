------------------------------- MODULE BitIO --------------------------------
(***************************************************************************)
(* gt_writer and gt_reader of src/gorillats.c, byte by byte: an MSB-first  *)
(* bit writer over memory the caller owns, whose old contents are          *)
(* arbitrary, and a bit reader over the first bytes of the same memory.    *)
(* ByteBits is 8 in the code; Size > Cap leaves bytes that belong to       *)
(* somebody else behind the writer's buffer.                               *)
(***************************************************************************)
EXTENDS Integers, Sequences

CONSTANTS ByteBits,  \* bits in a byte
          Cap,       \* bytes given to the writer
          Size,      \* bytes of the caller's memory, Cap of which are given away
          Memories   \* contents the caller's memory may start with

Bit       == {0, 1}
Offsets   == 0 .. ByteBits - 1
Addresses == 0 .. Size - 1
Byte      == [Offsets -> Bit]
ZeroByte  == [j \in Offsets |-> 0]

ASSUME BitIOAssumption ==
  /\ ByteBits \in Nat \ {0}
  /\ Cap \in Nat \ {0}
  /\ Size \in Nat
  /\ Cap <= Size
  /\ Memories \subseteq [Addresses -> Byte]

VARIABLES buf, byte_pos, bit_pos, overflow,    \* gt_writer and its memory
          reading, r_cap, r_byte, r_bit, eof,  \* gt_reader
          mem0,    \* history: the memory before gt_writer_init
          put,     \* history: the bits the writer accepted
          opened,  \* history: how many were accepted when the reader was opened
          got      \* history: the bits the reader delivered

writer == <<buf, byte_pos, bit_pos, overflow, mem0, put>>
reader == <<reading, r_cap, r_byte, r_bit, eof, opened, got>>
vars   == <<writer, reader>>

(* gt_writer_init clears the first byte only. *)
WriterInit ==
  /\ mem0 \in Memories
  /\ buf = [mem0 EXCEPT ![0] = ZeroByte]
  /\ byte_pos = 0
  /\ bit_pos = 0
  /\ overflow = FALSE
  /\ put = << >>

NoReader ==
  /\ reading = FALSE
  /\ r_cap = 0
  /\ r_byte = 0
  /\ r_bit = 0
  /\ eof = FALSE
  /\ opened = 0
  /\ got = << >>

Init == WriterInit /\ NoReader

(* Mutant: a full buffer is recognised one byte too early. *)
PutOverflowEarly ==
  /\ byte_pos + 1 >= Cap
  /\ overflow' = TRUE
  /\ UNCHANGED <<buf, byte_pos, bit_pos, mem0, put, reader>>

(* gt_put_bit on a full buffer. *)
PutOverflow ==
  /\ byte_pos >= Cap
  /\ overflow' = TRUE
  /\ UNCHANGED <<buf, byte_pos, bit_pos, mem0, put, reader>>

(* Mutant: the least significant bit comes first. *)
OredFromBelow(bit) ==
  IF bit = 1 THEN [buf EXCEPT ![byte_pos][ByteBits - 1 - bit_pos] = 1] ELSE buf

(* The byte with the bit OR-ed in: a 0 bit writes nothing. *)
Ored(bit) == IF bit = 1 THEN [buf EXCEPT ![byte_pos][bit_pos] = 1] ELSE buf

(* Mutants: the next byte is not cleared, or cleared without a look at Cap. *)
EnteredDirty(mem)     == mem
EnteredUnguarded(mem) == [mem EXCEPT ![byte_pos + 1] = ZeroByte]

(* Entering the next byte clears it, unless it lies behind the buffer. *)
Entered(mem) == IF byte_pos + 1 < Cap THEN [mem EXCEPT ![byte_pos + 1] = ZeroByte] ELSE mem

PutBit(bit) ==
  /\ byte_pos < Cap
  /\ \/ /\ bit_pos + 1 < ByteBits
        /\ bit_pos' = bit_pos + 1
        /\ buf' = Ored(bit)
        /\ UNCHANGED byte_pos
     \/ /\ bit_pos + 1 = ByteBits
        /\ bit_pos' = 0
        /\ byte_pos' = byte_pos + 1
        /\ buf' = Entered(Ored(bit))
  /\ put' = Append(put, bit)
  /\ UNCHANGED <<overflow, mem0, reader>>

(* Mutant: the partial byte is not counted. *)
WholeBytes == byte_pos

WriterLen == byte_pos + IF bit_pos > 0 THEN 1 ELSE 0

(* A reader is opened on the length finish returned, or on the whole buffer. *)
OpenReader(len) ==
  /\ reading' = TRUE
  /\ r_cap' = len
  /\ r_byte' = 0
  /\ r_bit' = 0
  /\ eof' = FALSE
  /\ opened' = Len(put)
  /\ got' = << >>
  /\ UNCHANGED writer

GetEof ==
  /\ reading
  /\ r_byte >= r_cap
  /\ eof' = TRUE
  /\ UNCHANGED <<writer, reading, r_cap, r_byte, r_bit, opened, got>>

(* Mutant: the end is noticed one byte too late. *)
GetBitPastEnd ==
  /\ reading
  /\ r_byte <= r_cap
  /\ got' = Append(got, buf[r_byte][r_bit])
  /\ \/ /\ r_bit + 1 < ByteBits
        /\ r_bit' = r_bit + 1
        /\ UNCHANGED r_byte
     \/ /\ r_bit + 1 = ByteBits
        /\ r_bit' = 0
        /\ r_byte' = r_byte + 1
  /\ UNCHANGED <<writer, reading, r_cap, eof, opened>>

GetBit ==
  /\ reading
  /\ r_byte < r_cap
  /\ got' = Append(got, buf[r_byte][r_bit])
  /\ \/ /\ r_bit + 1 < ByteBits
        /\ r_bit' = r_bit + 1
        /\ UNCHANGED r_byte
     \/ /\ r_bit + 1 = ByteBits
        /\ r_bit' = 0
        /\ r_byte' = r_byte + 1
  /\ UNCHANGED <<writer, reading, r_cap, eof, opened>>

Next ==
  \/ PutOverflow
  \/ \E bit \in Bit : PutBit(bit)
  \/ \E len \in {WriterLen, Cap} : OpenReader(len)
  \/ GetEof
  \/ GetBit

Spec == Init /\ [][Next]_vars

-----------------------------------------------------------------------------
TypeOK ==
  /\ buf \in [Addresses -> Byte]
  /\ mem0 \in [Addresses -> Byte]
  /\ byte_pos \in 0 .. Cap
  /\ bit_pos \in Offsets
  /\ overflow \in BOOLEAN
  /\ put \in Seq(Bit)
  /\ reading \in BOOLEAN
  /\ r_cap \in 0 .. Cap
  /\ r_byte \in 0 .. r_cap
  /\ r_bit \in Offsets
  /\ eof \in BOOLEAN
  /\ opened \in 0 .. Len(put)
  /\ got \in Seq(Bit)

(* Every bit that was accepted before the reader was opened is read back at  *)
(* its own position, whatever the memory held before and however many bits   *)
(* the writer ORs into the shared last byte while the reader is running.     *)
ReadBack ==
  \A i \in 1 .. Len(got) : i <= opened => got[i] = put[i]

(* The unwritten rest of the byte being written is zero although the memory  *)
(* was not: what finish hands over as the trailing partial byte never shows  *)
(* a bit the caller's memory held before.                                    *)
PaddingIsZero ==
  byte_pos < Cap => \A j \in bit_pos .. ByteBits - 1 : buf[byte_pos][j] = 0

(* Memory behind the buffer is never written, not even by the clearing of    *)
(* the byte after the last one.                                              *)
SlackUntouched ==
  \A a \in Cap .. Size - 1 : buf[a] = mem0[a]

(* End of input is reported only after every byte the reader was opened on  *)
(* was delivered, and by then every bit accepted before the opening has been *)
(* delivered: the length finish returns leaves no bit of the last byte out.  *)
EofAfterAll ==
  eof => Len(got) = r_cap * ByteBits /\ opened <= Len(got)

(* The writer implements the bounded bit log. *)
Log == INSTANCE BitLog WITH log <- put, Capacity <- Cap * ByteBits
ImplementsBitLog == Log!Spec

-----------------------------------------------------------------------------
(* The bits of the memory that have been written are the bits accepted, and  *)
(* the positions of writer and reader count bits.                            *)
Position(a, j) == a * ByteBits + j + 1
Written(a, j)  == a < byte_pos \/ (a = byte_pos /\ j < bit_pos)

WriterInv ==
  /\ Len(put) = byte_pos * ByteBits + bit_pos
  /\ byte_pos = Cap => bit_pos = 0
  /\ overflow => byte_pos = Cap
  /\ \A a \in 0 .. Cap - 1, j \in Offsets :
        Written(a, j) => buf[a][j] = put[Position(a, j)]

ReaderInv ==
  /\ Len(got) = r_byte * ByteBits + r_bit
  /\ r_byte = r_cap => r_bit = 0
  /\ eof => r_byte = r_cap
  /\ opened <= r_cap * ByteBits

IInv == TypeOK /\ WriterInv /\ ReaderInv /\ PaddingIsZero /\ SlackUntouched /\ ReadBack
=============================================================================
