-------------------------------- MODULE Blob --------------------------------
(***************************************************************************)
(* mutils_blob.c: a block of memory with a length and an offset.           *)
(*                                                                         *)
(* One blob at a time.  Memory that was allocated and not written holds    *)
(* Unset; every allocation may fail.                                       *)
(***************************************************************************)
EXTENDS Integers, Sequences

CONSTANTS
  BlobBytes,    \* the bytes that occur, a set of numbers below 256
  BlobMost      \* bound: no blob gets longer than this

ASSUME BlobAssumption ==
  BlobBytes \subseteq 0 .. 255 /\ 0 \in BlobBytes /\ BlobMost \in Nat

Unset == 256
NoData == <<-1>>        \* a null pointer
Buffers(n) == [1 .. n -> BlobBytes]
SomeBytes == UNION {Buffers(n) : n \in 0 .. BlobMost}

VARIABLES
  blobData,      \* the block that data points to, or NoData
  blobLength, blobOffset,
  blobAnswer,    \* what the last call read
  blobFds        \* descriptors that nobody will close

blobVars == <<blobData, blobLength, blobOffset, blobAnswer, blobFds>>

(* No blob, or one that was detached.                                      *)
NoBlob == /\ blobData' = NoData /\ blobLength' = 0 /\ blobOffset' = 0
          /\ blobAnswer' = << >>
BlobInit == /\ blobData = NoData /\ blobLength = 0 /\ blobOffset = 0
            /\ blobAnswer = << >> /\ blobFds = 0

Holding(block, length) ==
  /\ blobData' = block /\ blobLength' = length /\ blobOffset' = 0
  /\ blobAnswer' = << >>

(* mutils_allocate_blob, mutils_data_to_blob: one byte more than the       *)
(* length, set to zero; without memory there is no blob.                   *)
AllocateBlob ==
  /\ blobData = NoData
  /\ \E n \in 1 .. BlobMost : Holding([i \in 1 .. n + 1 |-> 0], n) \/ NoBlob
  /\ UNCHANGED blobFds
DataToBlob ==
  /\ blobData = NoData
  /\ \E bytes \in SomeBytes : Holding(Append(bytes, 0), Len(bytes)) \/ NoBlob
  /\ UNCHANGED blobFds

(* mutils_file_to_blob: no memory for the data leaves the file open.       *)
FileToBlob ==
  /\ blobData = NoData
  /\ \/ \E bytes \in SomeBytes : Holding(Append(bytes, 0), Len(bytes)) /\ UNCHANGED blobFds
     \/ NoBlob /\ blobFds' \in {blobFds, 1}

AttachBlob ==
  /\ blobData = NoData
  /\ \E bytes \in SomeBytes : Holding(bytes, Len(bytes))
  /\ UNCHANGED blobFds

(* mutils_detach_blob and mutils_destroy_blob.                             *)
LeaveBlob == blobData # NoData /\ NoBlob /\ UNCHANGED blobFds

RewindBlob ==
  /\ blobOffset' = 0 /\ blobAnswer' = << >>
  /\ UNCHANGED <<blobData, blobLength, blobFds>>

-----------------------------------------------------------------------------
(* Reading.                                                                *)

BlobMin(a, b) == IF a < b THEN a ELSE b
Taken(count) == SubSeq(blobData, blobOffset + 1, blobOffset + count)

(* mutils_read_blob: less at the end of the blob, and so the helpers that  *)
(* read a byte, two or four.  Mutant: up to the end of the block.          *)
ReadCountLong(length) == BlobMin(length, Len(blobData) - blobOffset)
ReadCount(length) == BlobMin(length, blobLength - blobOffset)
ReadBlob ==
  /\ blobData # NoData
  /\ \E length \in 1 .. BlobMost :
       /\ blobAnswer' = Taken(ReadCount(length))
       /\ blobOffset' = blobOffset + ReadCount(length)
  /\ UNCHANGED <<blobData, blobLength, blobFds>>

(* mutils_read_blob_string: byte by byte up to an end of line, slen bytes  *)
(* or the end of the blob; in the last case the caller gets a null pointer *)
(* and the bytes are gone.                                                 *)
IsEol(b) == b \in {10, 13}
LineEndsAt(count, most) ==
  /\ \A i \in 1 .. count - 1 : ~IsEol(blobData[blobOffset + i])
  /\ count = most \/ (count > 0 /\ IsEol(blobData[blobOffset + count]))
ReadBlobString ==
  /\ blobData # NoData
  /\ \E slen \in 1 .. BlobMost :
       \E count \in 0 .. ReadCount(slen) :
         /\ LineEndsAt(count, ReadCount(slen))
         /\ blobAnswer' = Taken(count)
         /\ blobOffset' = blobOffset + count
  /\ UNCHANGED <<blobData, blobLength, blobFds>>

-----------------------------------------------------------------------------
(* Writing.                                                                *)

(* mutils_write_blob: the block grows by what is missing; realloc may move *)
(* or refuse it, and then the blob is detached.                            *)
WriteBlob ==
  /\ blobData # NoData
  /\ \E bytes \in SomeBytes :
       LET missing == Len(bytes) - (blobLength - blobOffset)
           length == IF missing > 0 THEN blobLength + missing ELSE blobLength
           block == IF missing > 0
                    THEN [i \in 1 .. length |-> IF i <= Len(blobData) THEN blobData[i] ELSE Unset]
                    ELSE blobData
           after == blobOffset + Len(bytes)
       IN \/ /\ length <= BlobMost
             /\ blobData' = [i \in DOMAIN block |->
                               IF i \in blobOffset + 1 .. after THEN bytes[i - blobOffset]
                               ELSE block[i]]
             /\ blobLength' = IF after > length THEN after ELSE length
             /\ blobOffset' = after /\ blobAnswer' = << >>
          \/ missing > 0 /\ NoBlob
  /\ UNCHANGED blobFds

BlobNext == AllocateBlob \/ DataToBlob \/ FileToBlob \/ AttachBlob \/ LeaveBlob
            \/ RewindBlob \/ ReadBlob \/ ReadBlobString \/ WriteBlob

BlobSpec == BlobInit /\ [][BlobNext]_blobVars

-----------------------------------------------------------------------------
(* Numbers, as their bytes: what the write helpers put into the blob and   *)
(* what the read helpers make of four bytes.                               *)

LsbBytes(n) == [i \in 1 .. Len(n) |-> n[Len(n) + 1 - i]]
MsbBytes(n) == n
(* An unsigned long has eight bytes; buffer[3] << 24 is an int, whose sign *)
(* goes into the upper four.                                               *)
LongOfLsb(b) ==
  [i \in 1 .. 4 |-> IF b[4] >= 128 THEN 255 ELSE 0] \o [i \in 1 .. 4 |-> b[5 - i]]
LongOfMsb(b) == [i \in 1 .. 4 |-> 0] \o b
(* mutils_msb_order_long and _short, on one number.                        *)
MsbOrder(b) == LsbBytes(b)

-----------------------------------------------------------------------------
(* Properties.                                                             *)

BlobTypeOK ==
  /\ blobData = NoData \/ blobData \in Seq(BlobBytes \cup {Unset})
  /\ blobLength \in Nat /\ blobOffset \in Nat /\ blobFds \in {0, 1}

(* The offset stays within the length and the length within the block, so  *)
(* that no read or write leaves it (mutils_blob.c:274-299, 538-570).       *)
StaysInBlock ==
  /\ blobOffset <= blobLength
  /\ blobData # NoData => blobLength <= Len(blobData)

(* The blob behaves as a file: what is read is what was last written at    *)
(* that place, across every growth, and nothing that was never written;    *)
(* and a number written by one helper is the number that its counterpart   *)
(* reads, up to the sign that the least significant order gives it         *)
(* (mutils_blob.c:327-470, 592-663).                                       *)
File == INSTANCE ByteFile WITH
  FileBytes <- BlobBytes, NoFile <- NoData,
  contents <- IF blobData = NoData THEN NoData ELSE SubSeq(blobData, 1, blobLength),
  position <- blobOffset, answer <- blobAnswer
BlobIsByteFile == File!FileSpec

NothingUnset ==
  blobData # NoData => \A i \in 1 .. blobLength : blobData[i] # Unset
NumbersReturn ==
  \A n \in Buffers(4) :
    /\ LongOfMsb(MsbBytes(n)) = [i \in 1 .. 4 |-> 0] \o n
    /\ SubSeq(LongOfLsb(LsbBytes(n)), 5, 8) = n
    /\ n[1] < 128 => LongOfLsb(LsbBytes(n)) = LongOfMsb(MsbBytes(n))
    /\ MsbBytes(n) = MsbOrder(LsbBytes(n))
BlobWellFormed == StaysInBlock /\ NothingUnset /\ NumbersReturn
=============================================================================
