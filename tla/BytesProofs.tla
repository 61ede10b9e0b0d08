---------------------------- MODULE BytesProofs -----------------------------
(***************************************************************************)
(* Proofs about what mutils and the WebSocket server do with bytes.        *)
(*                                                                         *)
(* The blob of mutils_blob.c is a file, for every set of bytes and every   *)
(* bound on its length.  Three facts carry the refinement: the offset is   *)
(* within the length, the length is within the block, and what is below    *)
(* the length was written.                                                 *)
(*                                                                         *)
(* The conversions of Codecs give back what they were given, for bytes of  *)
(* any length.  A text is put together from pieces, one for each group of  *)
(* bytes, and read by a machine that is in a known state at the end of     *)
(* each piece.                                                             *)
(*                                                                         *)
(* So do those of WsCodec: a frame is header, mask and masked text, of     *)
(* which each stands where analyData reads it; a key is groups of four     *)
(* letters; and what SHA-1 has done after i bytes is the first i of the    *)
(* text and its padding, cut into blocks.                                  *)
(***************************************************************************)
EXTENDS Blob, Codecs, WsCodec, Inductions, SequenceTheorems, FiniteSetTheorems

Stored == BlobBytes \cup {Unset}

(* A blob has bytes up to its length; what follows in the block may be     *)
(* anything.                                                               *)
BlobInv ==
  /\ BlobTypeOK
  /\ StaysInBlock
  /\ blobData # NoData => \A i \in 1 .. blobLength : blobData[i] \in BlobBytes

-----------------------------------------------------------------------------
(* The data.                                                               *)

LEMMA FunctionIsSeq ==
  ASSUME NEW S, NEW n \in Nat, NEW f \in [1 .. n -> S]
  PROVE  f \in Seq(S) /\ Len(f) = n
<1>1. f \in Seq(S)
  BY SeqDef
<1>2. DOMAIN f = 1 .. Len(f) /\ Len(f) \in Nat
  BY <1>1, LenProperties
<1> QED
  BY <1>1, <1>2

(* A sequence is put together from its three parts.                        *)
LEMMA ThreeParts ==
  ASSUME NEW S, NEW a \in Seq(S), NEW b \in Seq(S), NEW c \in Seq(S),
         NEW s \in Seq(S), Len(s) = Len(a) + Len(b) + Len(c),
         \A i \in 1 .. Len(a) : s[i] = a[i],
         \A i \in 1 .. Len(b) : s[Len(a) + i] = b[i],
         \A i \in 1 .. Len(c) : s[Len(a) + Len(b) + i] = c[i]
  PROVE  s = (a \o b) \o c
<1>1. Len(a) \in Nat /\ Len(b) \in Nat /\ Len(c) \in Nat
  BY LenProperties
<1>2. /\ a \o b \in Seq(S) /\ Len(a \o b) = Len(a) + Len(b)
      /\ \A i \in 1 .. Len(a) + Len(b) :
           (a \o b)[i] = IF i <= Len(a) THEN a[i] ELSE b[i - Len(a)]
  BY ConcatProperties
<1>3. /\ (a \o b) \o c \in Seq(S) /\ Len((a \o b) \o c) = Len(a \o b) + Len(c)
      /\ \A i \in 1 .. Len(a \o b) + Len(c) :
           ((a \o b) \o c)[i] = IF i <= Len(a \o b) THEN (a \o b)[i]
                                ELSE c[i - Len(a \o b)]
  BY <1>2, ConcatProperties
<1>4. ASSUME NEW i \in 1 .. Len(s)
      PROVE  s[i] = ((a \o b) \o c)[i]
  <2>1. CASE i <= Len(a)
    BY <1>1, <1>2, <1>3, <2>1
  <2>2. CASE i > Len(a) /\ i <= Len(a) + Len(b)
    <3>1. i - Len(a) \in 1 .. Len(b) /\ Len(a) + (i - Len(a)) = i
      BY <1>1, <2>2
    <3>2. b[i - Len(a)] = s[i]
      BY <3>1
    <3> QED
      BY <1>1, <1>2, <1>3, <2>2, <3>2
  <2>3. CASE i > Len(a) + Len(b)
    <3>1. /\ i - (Len(a) + Len(b)) \in 1 .. Len(c)
          /\ Len(a) + Len(b) + (i - (Len(a) + Len(b))) = i
      BY <1>1, <2>3
    <3>2. c[i - (Len(a) + Len(b))] = s[i]
      BY <3>1
    <3> QED
      BY <1>1, <1>2, <1>3, <2>3, <3>2
  <2> QED
    BY <1>1, <2>1, <2>2, <2>3
<1> QED
  BY <1>1, <1>2, <1>3, <1>4, SeqEqual

(* A sequence that differs from another only in n elements behind at is    *)
(* the other one, overlaid with these.                                     *)
LEMMA OverlaidIsNew ==
  ASSUME NEW S, NEW old \in Seq(S), NEW new \in Seq(S),
         NEW at \in 0 .. Len(old), NEW n \in Nat,
         at + n <= Len(new), Len(new) \in {Len(old), at + n}, Len(old) <= Len(new),
         \A i \in 1 .. Len(new) : i \notin at + 1 .. at + n => new[i] = old[i]
  PROVE  new = File!Overlaid(old, at, SubSeq(new, at + 1, at + n))
<1> DEFINE a == SubSeq(old, 1, at)
           b == SubSeq(new, at + 1, at + n)
           c == SubSeq(old, at + Len(b) + 1, Len(old))
<1>1. /\ Len(old) \in Nat /\ Len(new) \in Nat
      /\ \A i \in 1 .. Len(old) : old[i] \in S
      /\ \A i \in 1 .. Len(new) : new[i] \in S
  BY LenProperties, ElementOfSeq
<1>2. /\ a \in Seq(S) /\ Len(a) = at
      /\ \A i \in 1 .. at : a[i] = old[i]
  BY <1>1, SubSeqProperties
<1>3. /\ b \in Seq(S) /\ Len(b) = n
      /\ \A i \in 1 .. n : b[i] = new[at + i]
  BY <1>1, SubSeqProperties
<1>4. /\ c \in Seq(S) /\ Len(c) = Len(new) - (at + n)
      /\ \A i \in 1 .. Len(c) : c[i] = old[at + n + i]
  <2>1. c = SubSeq(old, at + n + 1, Len(old))
    BY <1>3
  <2>2. \A i \in at + n + 1 .. Len(old) : old[i] \in S
    BY <1>1
  <2> HIDE DEF b, c
  <2>3. /\ c \in Seq(S)
        /\ Len(c) = IF at + n + 1 <= Len(old) THEN Len(old) - (at + n + 1) + 1 ELSE 0
        /\ \A i \in 1 .. Len(old) - (at + n + 1) + 1 : c[i] = old[at + n + 1 + i - 1]
    BY <1>1, <2>1, <2>2, SubSeqProperties
  <2>4. Len(c) = Len(new) - (at + n)
    BY <1>1, <2>3
  <2>5. \A i \in 1 .. Len(c) : i \in 1 .. Len(old) - (at + n + 1) + 1
                               /\ at + n + 1 + i - 1 = at + n + i
    BY <1>1, <2>4
  <2> QED
    BY ONLY <2>3, <2>4, <2>5
<1>5. /\ Len(new) = Len(a) + Len(b) + Len(c)
      /\ \A i \in 1 .. Len(a) : new[i] = a[i]
      /\ \A i \in 1 .. Len(b) : new[Len(a) + i] = b[i]
      /\ \A i \in 1 .. Len(c) : new[Len(a) + Len(b) + i] = c[i]
  <2> HIDE DEF a, b, c
  <2>1. Len(new) = Len(a) + Len(b) + Len(c)
    BY <1>1, <1>2, <1>3, <1>4
  <2>2. \A i \in 1 .. Len(a) : new[i] = a[i]
    BY <1>1, <1>2
  <2>3. \A i \in 1 .. Len(b) : new[Len(a) + i] = b[i]
    BY <1>2, <1>3
  <2>4. ASSUME NEW i \in 1 .. Len(c)
        PROVE  new[at + n + i] = c[i]
    <3>1. at + n + i \in 1 .. Len(new) /\ at + n + i \notin at + 1 .. at + n
      BY <1>1, <1>4
    <3> QED
      BY <1>4, <3>1
  <2> QED
    BY <1>2, <1>3, <2>1, <2>2, <2>3, <2>4
<1>6. new = (a \o b) \o c
  <2> HIDE DEF a, b, c
  <2>1. a \in Seq(S) /\ b \in Seq(S) /\ c \in Seq(S) /\ new \in Seq(S)
    BY <1>1, <1>2, <1>3, <1>4
  <2> QED
    BY <1>5, <2>1, ThreeParts
<1> QED
  BY <1>6 DEF File!Overlaid

(* A null pointer is no block.                                             *)
LEMMA NoDataIsNoBlock ==
  ASSUME NEW s \in Seq(Stored)
  PROVE  s # NoData
<1>1. \A i \in 1 .. Len(s) : s[i] # -1
  BY BlobAssumption, ElementOfSeq DEF Stored, Unset
<1>2. Len(NoData) = 1 /\ NoData[1] = -1
  BY DEF NoData
<1> QED
  BY <1>1, <1>2

LEMMA SomeBytesAreSeq ==
  ASSUME NEW bytes \in SomeBytes
  PROVE  bytes \in Seq(BlobBytes)
<1>1. PICK n \in 0 .. BlobMost : bytes \in [1 .. n -> BlobBytes]
  BY DEF SomeBytes, Buffers
<1> QED
  BY <1>1, BlobAssumption, FunctionIsSeq

(* A block with zero after its bytes.                                      *)
LEMMA HoldingKeepsInv ==
  ASSUME NEW block \in Seq(BlobBytes), NEW length \in Nat,
         length <= Len(block), Holding(block, length), blobFds' \in {0, 1}
  PROVE  BlobInv'
<1>1. block \in Seq(Stored)
  BY SeqMonotonic DEF Stored
<1>2. BlobTypeOK'
  BY <1>1 DEF BlobTypeOK, Holding, Stored
<1>3. StaysInBlock'
  BY DEF StaysInBlock, Holding
<1>4. \A i \in 1 .. length : block[i] \in BlobBytes
  BY ElementOfSeq, LenProperties
<1> QED
  BY <1>2, <1>3, <1>4 DEF BlobInv, Holding

LEMMA NoBlobKeepsInv ==
  ASSUME NoBlob, blobFds' \in {0, 1}
  PROVE  BlobInv'
BY DEF NoBlob, BlobInv, BlobTypeOK, StaysInBlock

-----------------------------------------------------------------------------
(* The bytes of the blob, as a file has them.                              *)

Contents == IF blobData = NoData THEN NoData ELSE SubSeq(blobData, 1, blobLength)

LEMMA ContentsOfBlob ==
  ASSUME BlobInv, blobData # NoData
  PROVE  /\ Contents \in Seq(BlobBytes) /\ Len(Contents) = blobLength
         /\ \A i \in 1 .. blobLength : Contents[i] = blobData[i]
         /\ Contents # NoData
<1>1. blobLength \in Nat /\ \A i \in 1 .. blobLength : blobData[i] \in BlobBytes
  BY DEF BlobInv, BlobTypeOK
<1>2. /\ Contents \in Seq(BlobBytes) /\ Len(Contents) = blobLength
      /\ \A i \in 1 .. blobLength : Contents[i] = blobData[i]
  BY <1>1, SubSeqProperties DEF Contents
<1>3. Contents \in Seq(Stored)
  BY <1>2, SeqMonotonic DEF Stored
<1> QED
  BY <1>2, <1>3, NoDataIsNoBlock

(* What a read hands out is taken from the contents, never from what       *)
(* follows in the block.                                                   *)
LEMMA ReadingIsFromContents ==
  ASSUME BlobInv, blobData # NoData,
         NEW count \in 0 .. blobLength - blobOffset,
         blobAnswer' = Taken(count), blobOffset' = blobOffset + count,
         UNCHANGED <<blobData, blobLength, blobFds>>
  PROVE  BlobInv' /\ File!Reads
<1> DEFINE from == SubSeq(Contents, blobOffset + 1, blobOffset + count)
<1>1. blobOffset \in Nat /\ blobLength \in Nat /\ blobOffset <= blobLength
  BY DEF BlobInv, BlobTypeOK, StaysInBlock
<1>2. \A i \in blobOffset + 1 .. blobOffset + count :
        blobData[i] \in BlobBytes /\ Contents[i] = blobData[i]
  BY <1>1, ContentsOfBlob DEF BlobInv
<1>3. /\ from \in Seq(BlobBytes) /\ Len(from) = count
      /\ \A i \in 1 .. count : from[i] = Contents[blobOffset + i]
  BY <1>1, <1>2, SubSeqProperties
<1>4. /\ Taken(count) \in Seq(BlobBytes) /\ Len(Taken(count)) = count
      /\ \A i \in 1 .. count : Taken(count)[i] = blobData[blobOffset + i]
  BY <1>1, <1>2, SubSeqProperties DEF Taken
<1>5. ASSUME NEW i \in 1 .. count PROVE Taken(count)[i] = from[i]
  <2>1. blobOffset + i \in blobOffset + 1 .. blobOffset + count
    BY ONLY <1>1, count \in 0 .. blobLength - blobOffset, i \in 1 .. count
  <2>2. blobData[blobOffset + i] = Contents[blobOffset + i]
    BY <1>2, <2>1, Zenon
  <2> QED
    BY <1>3, <1>4, <2>2, Zenon
<1>6. Taken(count) = from
  <2> HIDE DEF from
  <2>1. PICK taken : taken = Taken(count)
    BY Zenon
  <2>2. /\ taken \in Seq(BlobBytes) /\ Len(taken) = Len(from)
        /\ \A i \in 1 .. Len(taken) : taken[i] = from[i]
    BY ONLY <1>3, <1>4, <1>5, <2>1
  <2>3. taken = from
    BY ONLY <1>3, <2>2, SeqEqual
  <2> QED
    BY <2>1, <2>3, Zenon
<1>7. BlobInv'
  BY <1>1 DEF BlobInv, BlobTypeOK, StaysInBlock
<1>8. Contents # NoData /\ Contents' = Contents /\ Len(Contents) = blobLength
  BY ContentsOfBlob DEF Contents
<1>9. File!Reads
  BY <1>1, <1>6, <1>8 DEF File!Reads, Contents
<1> QED
  BY <1>7, <1>9

(* A write leaves what is below the offset and what is behind the bytes.   *)
LEMMA WritingOverlaysContents ==
  ASSUME BlobInv, blobData # NoData,
         NEW bytes \in Seq(BlobBytes), NEW length \in Nat, NEW block \in Seq(Stored),
         length <= Len(block), blobLength <= length,
         blobOffset + Len(bytes) <= length,
         length \in {blobLength, blobOffset + Len(bytes)},
         \A i \in 1 .. blobLength : block[i] = blobData[i],
         blobData' = [i \in DOMAIN block |->
                        IF i \in blobOffset + 1 .. blobOffset + Len(bytes)
                        THEN bytes[i - blobOffset] ELSE block[i]],
         blobLength' = length, blobOffset' = blobOffset + Len(bytes),
         blobAnswer' = << >>, blobFds' \in {0, 1}
  PROVE  BlobInv' /\ File!Overlays
<1>1. /\ blobOffset \in Nat /\ blobLength \in Nat /\ blobOffset <= blobLength
      /\ Len(bytes) \in Nat /\ \A i \in 1 .. Len(bytes) : bytes[i] \in BlobBytes
  BY LenProperties, ElementOfSeq DEF BlobInv, BlobTypeOK, StaysInBlock
<1>2. /\ Len(block) \in Nat /\ DOMAIN block = 1 .. Len(block)
      /\ \A i \in 1 .. Len(block) : block[i] \in Stored
  BY LenProperties, ElementOfSeq
<1>3. blobData' \in Seq(Stored) /\ Len(blobData') = Len(block)
  <2>1. blobData' \in [1 .. Len(block) -> Stored]
    BY <1>1, <1>2 DEF Stored
  <2> QED
    BY <2>1, <1>2, FunctionIsSeq
<1>4. \A i \in 1 .. length :
        blobData'[i] = IF i \in blobOffset + 1 .. blobOffset + Len(bytes)
                       THEN bytes[i - blobOffset] ELSE blobData[i]
  BY <1>1, <1>2
<1>5. ASSUME NEW i \in 1 .. length
      PROVE  blobData'[i] \in BlobBytes
  <2>1. CASE i \in blobOffset + 1 .. blobOffset + Len(bytes)
    <3>1. i - blobOffset \in 1 .. Len(bytes)
      BY <1>1, <2>1
    <3> QED
      BY <1>1, <1>4, <2>1, <3>1
  <2>2. CASE i \notin blobOffset + 1 .. blobOffset + Len(bytes)
    <3>1. i \in 1 .. blobLength
      BY <1>1, <2>2
    <3> QED
      BY <1>4, <2>2, <3>1 DEF BlobInv
  <2> QED
    BY <2>1, <2>2
<1>6. BlobInv'
  BY <1>1, <1>3, <1>5 DEF BlobInv, BlobTypeOK, StaysInBlock, Stored
<1>7. blobData' # NoData
  BY <1>3, NoDataIsNoBlock
<1>8. /\ Contents' \in Seq(BlobBytes) /\ Len(Contents') = length
      /\ \A i \in 1 .. length : Contents'[i] = blobData'[i]
  BY <1>5, <1>7, SubSeqProperties DEF Contents
<1>9. /\ Contents \in Seq(BlobBytes) /\ Len(Contents) = blobLength /\ Contents # NoData
      /\ \A i \in 1 .. blobLength : Contents[i] = blobData[i]
  BY ContentsOfBlob
<1>10. Contents' # NoData
  BY <1>8, SeqMonotonic, NoDataIsNoBlock DEF Stored
<1>11. ASSUME NEW i \in 1 .. length, i \notin blobOffset + 1 .. blobOffset + Len(bytes)
       PROVE  Contents'[i] = Contents[i]
  <2>1. i \in 1 .. blobLength
    BY <1>1, <1>11
  <2> QED
    BY <1>4, <1>8, <1>9, <1>11, <2>1
<1>12. ASSUME NEW new, new = Contents'
       PROVE  new = File!Overlaid(Contents, blobOffset,
                      SubSeq(new, blobOffset + 1, blobOffset + Len(bytes)))
  <2>1. /\ new \in Seq(BlobBytes) /\ Len(new) = length
        /\ \A i \in 1 .. length :
             i \notin blobOffset + 1 .. blobOffset + Len(bytes) => new[i] = Contents[i]
    BY <1>8, <1>11, <1>12
  <2> QED
    <3>1. blobOffset \in 0 .. Len(Contents)
      BY <1>1, <1>9
    <3>2. /\ blobOffset + Len(bytes) <= Len(new)
          /\ Len(new) \in {Len(Contents), blobOffset + Len(bytes)}
          /\ Len(Contents) <= Len(new)
          /\ \A i \in 1 .. Len(new) :
               i \notin blobOffset + 1 .. blobOffset + Len(bytes) => new[i] = Contents[i]
      BY <1>9, <2>1
    <3> QED
      BY <1>1, <1>9, <2>1, <3>1, <3>2, OverlaidIsNew
<1>13. Contents' = File!Overlaid(Contents, blobOffset,
                     SubSeq(Contents', blobOffset + 1, blobOffset'))
  BY <1>12
<1>14. File!Overlays
  <2>1. File!Overlays <=>
          /\ Contents # NoData /\ blobOffset' >= blobOffset /\ blobAnswer' = << >>
          /\ Contents' # NoData /\ Len(Contents') >= blobOffset'
          /\ Contents' = File!Overlaid(Contents, blobOffset,
                            SubSeq(Contents', blobOffset + 1, blobOffset'))
    BY DEF File!Overlays, Contents
  <2>2. blobOffset' >= blobOffset /\ Len(Contents') >= blobOffset'
    BY <1>1, <1>8
  <2> QED
    BY <1>9, <1>10, <1>13, <2>1, <2>2
<1> QED
  BY <1>6, <1>14

-----------------------------------------------------------------------------
(* The steps.                                                              *)

LEMMA OpeningOpens ==
  ASSUME BlobInv, NEW block \in Seq(BlobBytes), NEW length \in Nat,
         length <= Len(block), Holding(block, length), blobFds' \in {0, 1}
  PROVE  BlobInv' /\ File!Opens
<1>1. BlobInv'
  BY HoldingKeepsInv
<1>2. blobData' \in Seq(Stored) /\ blobData' # NoData
  BY SeqMonotonic, NoDataIsNoBlock DEF Stored, Holding
<1>3. Contents' # NoData
  <2>1. \A i \in 1 .. blobLength' : blobData'[i] \in Stored
    BY <1>1, <1>2 DEF BlobInv, Stored
  <2>2. blobLength' \in Nat
    BY DEF Holding
  <2>3. SubSeq(blobData', 1, blobLength') \in Seq(Stored)
    BY <2>1, <2>2, SubSeqProperties
  <2> QED
    BY <1>2, <2>3, NoDataIsNoBlock DEF Contents
<1> QED
  BY <1>1, <1>3 DEF File!Opens, Contents, Holding

LEMMA NoBlobCloses ==
  ASSUME NoBlob, blobFds' \in {0, 1}
  PROVE  BlobInv' /\ File!Closes
BY NoBlobKeepsInv DEF NoBlob, File!Closes

LEMMA AppendedZero ==
  ASSUME NEW bytes \in SomeBytes
  PROVE  /\ Append(bytes, 0) \in Seq(BlobBytes)
         /\ Len(bytes) \in Nat /\ Len(bytes) <= Len(Append(bytes, 0))
<1>1. bytes \in Seq(BlobBytes) /\ 0 \in BlobBytes
  BY BlobAssumption, SomeBytesAreSeq
<1>2. Len(bytes) \in Nat
  BY <1>1, LenProperties
<1> QED
  BY <1>1, <1>2, AppendProperties

(* A grown block has the old bytes, and behind them what was never written.*)
LEMMA WriteOverlays ==
  ASSUME BlobInv, WriteBlob
  PROVE  BlobInv' /\ (File!Overlays \/ File!Closes)
<1>1. PICK bytes \in SomeBytes :
        LET missing == Len(bytes) - (blobLength - blobOffset)
            length == IF missing > 0 THEN blobLength + missing ELSE blobLength
            block == IF missing > 0
                     THEN [i \in 1 .. length |-> IF i <= Len(blobData) THEN blobData[i] ELSE Unset]
                     ELSE blobData
            after == blobOffset + Len(bytes)
        IN \/ /\ length <= BlobMost
              /\ blobData' = [i \in DOMAIN block |->
                                IF i \in blobOffset + 1 .. after THEN bytes[i - blobOffset]
                                ELSE block[i]]
              /\ blobLength' = IF after > length THEN after ELSE length
              /\ blobOffset' = after /\ blobAnswer' = << >>
           \/ missing > 0 /\ NoBlob
  BY DEF WriteBlob
<1> DEFINE missing == Len(bytes) - (blobLength - blobOffset)
           length == IF missing > 0 THEN blobLength + missing ELSE blobLength
           grown == [i \in 1 .. length |-> IF i <= Len(blobData) THEN blobData[i] ELSE Unset]
           block == IF missing > 0 THEN grown ELSE blobData
<1>2. /\ blobData # NoData /\ blobData \in Seq(Stored) /\ blobFds' \in {0, 1}
      /\ blobOffset \in Nat /\ blobLength \in Nat
      /\ blobOffset <= blobLength /\ blobLength <= Len(blobData)
  BY DEF BlobInv, BlobTypeOK, StaysInBlock, WriteBlob, Stored
<1>3. bytes \in Seq(BlobBytes) /\ Len(bytes) \in Nat /\ Len(blobData) \in Nat
  BY <1>2, SomeBytesAreSeq, LenProperties
<1>4. CASE missing > 0 /\ NoBlob
  BY <1>2, <1>4, NoBlobCloses
<1>5. CASE ~(missing > 0 /\ NoBlob)
  <2>1. /\ length \in Nat /\ blobLength <= length
        /\ blobOffset + Len(bytes) <= length
        /\ length \in {blobLength, blobOffset + Len(bytes)}
    BY <1>2, <1>3
  <2>2. block \in Seq(Stored) /\ length <= Len(block)
    <3>1. \A i \in 1 .. Len(blobData) : blobData[i] \in Stored
      BY <1>2, ElementOfSeq
    <3>2. grown \in [1 .. length -> Stored]
      BY <1>3, <2>1, <3>1 DEF Stored
    <3>3. grown \in Seq(Stored) /\ Len(grown) = length
      <4> HIDE DEF grown, length
      <4> QED
        BY <2>1, <3>2, FunctionIsSeq
    <3> QED
      BY <1>2, <2>1, <3>3
  <2>3. \A i \in 1 .. blobLength : block[i] = blobData[i]
    BY <1>2, <1>3, <2>1
  <2>4. /\ blobData' = [i \in DOMAIN block |->
                          IF i \in blobOffset + 1 .. blobOffset + Len(bytes)
                          THEN bytes[i - blobOffset] ELSE block[i]]
        /\ blobLength' = length /\ blobOffset' = blobOffset + Len(bytes)
        /\ blobAnswer' = << >>
    <3>1. /\ blobData' = [i \in DOMAIN block |->
                            IF i \in blobOffset + 1 .. blobOffset + Len(bytes)
                            THEN bytes[i - blobOffset] ELSE block[i]]
          /\ blobLength' = IF blobOffset + Len(bytes) > length
                           THEN blobOffset + Len(bytes) ELSE length
          /\ blobOffset' = blobOffset + Len(bytes) /\ blobAnswer' = << >>
      BY <1>1, <1>5
    <3> HIDE DEF block, length
    <3>2. ~(blobOffset + Len(bytes) > length)
      BY <1>2, <1>3, <2>1
    <3> QED
      BY <3>1, <3>2
  <2> HIDE DEF length, block
  <2> QED
    BY <1>2, <1>3, <2>1, <2>2, <2>3, <2>4, WritingOverlaysContents
<1> QED
  BY <1>4, <1>5

(* Every call is a step of the file, or leaves it as it is.                *)
LEMMA BlobStep ==
  ASSUME BlobInv, [BlobNext]_blobVars
  PROVE  BlobInv' /\ [File!FileNext]_<<Contents, blobOffset, blobAnswer>>
<1>1. blobFds \in {0, 1} /\ blobOffset \in Nat /\ blobLength \in Nat
      /\ blobOffset <= blobLength
  BY DEF BlobInv, BlobTypeOK, StaysInBlock
<1>2. CASE AllocateBlob
  <2>1. CASE NoBlob
    BY <1>1, <1>2, <2>1, NoBlobCloses DEF AllocateBlob, File!FileNext, Contents
  <2>2. CASE ~NoBlob
    <3>1. PICK n \in 1 .. BlobMost : Holding([i \in 1 .. n + 1 |-> 0], n)
      BY <1>2, <2>2 DEF AllocateBlob
    <3>2. n \in Nat /\ [i \in 1 .. n + 1 |-> 0] \in [1 .. n + 1 -> BlobBytes]
      BY BlobAssumption
    <3>3. /\ [i \in 1 .. n + 1 |-> 0] \in Seq(BlobBytes)
          /\ n <= Len([i \in 1 .. n + 1 |-> 0])
      BY <3>2, FunctionIsSeq
    <3>4. BlobInv' /\ File!Opens
      BY <1>1, <1>2, <3>1, <3>2, <3>3, OpeningOpens DEF AllocateBlob
    <3> QED
      BY <3>4 DEF File!FileNext, Contents
  <2> QED
    BY <2>1, <2>2
<1>3. CASE DataToBlob \/ FileToBlob
  <2>1. blobFds' \in {0, 1}
    BY <1>1, <1>3 DEF DataToBlob, FileToBlob
  <2>2. CASE NoBlob
    BY <2>1, <2>2, NoBlobCloses DEF File!FileNext, Contents
  <2>3. CASE ~NoBlob
    <3>1. PICK bytes \in SomeBytes : Holding(Append(bytes, 0), Len(bytes))
      BY <1>3, <2>3 DEF DataToBlob, FileToBlob
    <3>2. BlobInv' /\ File!Opens
      BY <2>1, <3>1, AppendedZero, OpeningOpens
    <3> QED
      BY <3>2 DEF File!FileNext, Contents
  <2> QED
    BY <2>2, <2>3
<1>4. CASE AttachBlob
  <2>1. PICK bytes \in SomeBytes : Holding(bytes, Len(bytes))
    BY <1>4 DEF AttachBlob
  <2>2. bytes \in Seq(BlobBytes) /\ Len(bytes) \in Nat
    BY SomeBytesAreSeq, LenProperties
  <2>3. BlobInv' /\ File!Opens
    BY <1>1, <1>4, <2>1, <2>2, OpeningOpens DEF AttachBlob
  <2> QED
    BY <2>3 DEF File!FileNext, Contents
<1>5. CASE LeaveBlob
  BY <1>1, <1>5, NoBlobCloses DEF LeaveBlob, File!FileNext, Contents
<1>6. CASE RewindBlob
  <2>1. BlobInv'
    BY <1>1, <1>6 DEF RewindBlob, BlobInv, BlobTypeOK, StaysInBlock
  <2>2. File!Rewinds
    BY <1>6 DEF RewindBlob, File!Rewinds, Contents
  <2> QED
    BY <2>1, <2>2 DEF File!FileNext, Contents
<1>7. CASE ReadBlob
  <2>1. PICK length \in 1 .. BlobMost :
          /\ blobAnswer' = Taken(ReadCount(length))
          /\ blobOffset' = blobOffset + ReadCount(length)
    BY <1>7 DEF ReadBlob
  <2>2. ReadCount(length) \in 0 .. blobLength - blobOffset
    BY <1>1, BlobAssumption DEF ReadCount, BlobMin
  <2>3. BlobInv' /\ File!Reads
    BY <1>7, <2>1, <2>2, ReadingIsFromContents DEF ReadBlob
  <2> QED
    BY <2>3 DEF File!FileNext, Contents
<1>8. CASE ReadBlobString
  <2>1. PICK slen \in 1 .. BlobMost :
          \E count \in 0 .. ReadCount(slen) :
            blobAnswer' = Taken(count) /\ blobOffset' = blobOffset + count
    BY <1>8 DEF ReadBlobString
  <2> PICK count \in 0 .. ReadCount(slen) :
          blobAnswer' = Taken(count) /\ blobOffset' = blobOffset + count
    BY <2>1
  <2>2. count \in 0 .. blobLength - blobOffset
    BY <1>1, BlobAssumption DEF ReadCount, BlobMin
  <2>3. BlobInv' /\ File!Reads
    BY <1>8, <2>1, <2>2, ReadingIsFromContents DEF ReadBlobString
  <2> QED
    BY <2>3 DEF File!FileNext, Contents
<1>9. CASE WriteBlob
  BY <1>9, WriteOverlays DEF File!FileNext, Contents
<1>10. CASE UNCHANGED blobVars
  BY <1>10 DEF blobVars, BlobInv, BlobTypeOK, StaysInBlock, Contents
<1> QED
  BY <1>2, <1>3, <1>4, <1>5, <1>6, <1>7, <1>8, <1>9, <1>10 DEF BlobNext

-----------------------------------------------------------------------------
(* The theorems about the blob.                                            *)

THEOREM BlobStays == BlobSpec => []BlobInv
<1>1. BlobInit => BlobInv
  BY DEF BlobInit, BlobInv, BlobTypeOK, StaysInBlock
<1>2. BlobInv /\ [BlobNext]_blobVars => BlobInv'
  BY BlobStep
<1> QED
  BY <1>1, <1>2, PTL DEF BlobSpec

(* The blob implements the byte file: reads return what stands there,      *)
(* writes put their bytes at the offset and touch nothing else, across     *)
(* every growth of the block (mutils_blob.c:274-299, 538-570).             *)
THEOREM BlobRefines == BlobSpec => BlobIsByteFile
<1>1. BlobInit => File!Closed
  BY DEF BlobInit, File!Closed
<1>2. BlobInv /\ [BlobNext]_blobVars
        => [File!FileNext]_<<Contents, blobOffset, blobAnswer>>
  BY BlobStep
<1> QED
  BY <1>1, <1>2, BlobStays, PTL DEF BlobSpec, BlobIsByteFile, File!FileSpec, Contents

-----------------------------------------------------------------------------
(* Codecs.                                                                 *)

(* Where the pieces of a text stand in it.                                 *)
Placed(flat, seqs, at) ==
  /\ at \in [0 .. Len(seqs) -> Nat] /\ at[0] = 0 /\ Len(flat) = at[Len(seqs)]
  /\ \A i \in 1 .. Len(seqs) :
       /\ at[i] = at[i - 1] + Len(seqs[i]) /\ at[i] <= Len(flat)
       /\ \A k \in 1 .. Len(seqs[i]) : flat[at[i - 1] + k] = seqs[i][k]
LEMMA Flattened ==
  ASSUME NEW S, NEW seqs \in Seq(Seq(S))
  PROVE  FlattenSeq(seqs) \in Seq(S) /\ \E at : Placed(FlattenSeq(seqs), seqs, at)
<1> DEFINE n == Len(seqs)
<1>0. n \in Nat /\ \A i \in 1 .. n : seqs[i] \in Seq(S)
  BY LenProperties, ElementOfSeq
<1>1. PICK g \in [0 .. n -> Seq(S)] : g[0] = << >> /\ \A i \in 1 .. n : g[i] = g[i - 1] \o seqs[i]
  <2> DEFINE step == [x \in Seq(S) \X Nat |-> IF x[2] \in 1 .. n THEN x[1] \o seqs[x[2]] ELSE << >>]
  <2>1. << >> \in Seq(S)
    OBVIOUS
  <2>2. step \in [Seq(S) \X Nat -> Seq(S)]
    <3>1. ASSUME NEW x \in Seq(S) \X Nat PROVE step[x] \in Seq(S)
      <4>1. x[1] \in Seq(S)
        OBVIOUS
      <4>2. CASE x[2] \in 1 .. n
        <5>1. x[1] \o seqs[x[2]] \in Seq(S)
          BY <1>0, <4>1, <4>2, ConcatProperties
        <5> QED
          BY <4>2, <5>1
      <4>3. CASE x[2] \notin 1 .. n
        BY <2>1, <4>3
      <4> QED
        BY <4>2, <4>3
    <3> QED
      BY <3>1
  <2> HIDE DEF step
  <2>3. PICK g \in [0 .. n -> Seq(S)] : Runs(g, n, << >>, step)
    BY <1>0, <2>1, <2>2, Recursion
  <2>4. ASSUME NEW i \in 1 .. n PROVE g[i] = g[i - 1] \o seqs[i]
    <3>1. i - 1 \in 0 .. n /\ i \in Nat
      BY <1>0
    <3>2. g[i] = step[g[i - 1], i]
      BY ONLY <2>3, i \in 1 .. n DEF Runs
    <3>3. g[i - 1] \in Seq(S)
      BY ONLY <3>1, g \in [0 .. n -> Seq(S)]
    <3> QED
      BY <3>1, <3>2, <3>3 DEF step
  <2> QED
    BY <2>3, <2>4 DEF Runs
<1> DEFINE at == [i \in 0 .. n |-> Len(g[i])]
<1>2. FlattenSeq(seqs) = g[n]
  <2>1. CASE n = 0
    <3>1. seqs = << >>
      BY <2>1, EmptySeq
    <3> QED
      BY <1>1, <2>1, <3>1 DEF FlattenSeq
  <2>2. CASE n # 0
    <3> DEFINE F(f) == [i \in 1 .. n |-> IF i = 1 THEN seqs[i] ELSE f[i - 1] \o seqs[i]]
               f == CHOOSE f : f = F(f)
               h == [i \in 1 .. n |-> g[i]]
    <3>1. g[1] = seqs[1]
      <4>1. 1 \in 1 .. n /\ 1 - 1 = 0
        BY <1>0, <2>2
      <4>2. g[1] = << >> \o seqs[1]
        BY <1>1, <4>1
      <4> QED
        BY <1>0, <4>1, <4>2, ConcatEmptySeq
    <3>2. h = F(h)
      <4>1. ASSUME NEW i \in 1 .. n PROVE g[i] = IF i = 1 THEN seqs[i] ELSE h[i - 1] \o seqs[i]
        <5>1. CASE i = 1
          BY <3>1, <5>1
        <5>2. CASE i # 1
          <6>1. i - 1 \in 1 .. n
            BY <1>0, <5>2
          <6> QED
            BY <1>1, <5>2, <6>1
        <5> QED
          BY <5>1, <5>2
      <4> QED
        BY <4>1
    <3>3. f = F(f)
      <4> HIDE DEF h
      <4> QED
        BY <3>2
    <3>4. FlattenSeq(seqs) = f[n]
      BY <2>2 DEF FlattenSeq
    <3> HIDE DEF f
    <3> DEFINE T == {i \in Nat : i + 1 <= n => f[i + 1] = g[i + 1]}
    <3>5. 0 \in T
      BY <1>0, <2>2, <3>1, <3>3
    <3>6. ASSUME NEW i \in Nat, i \in T PROVE i + 1 \in T
      <4>1. CASE i + 1 + 1 <= n
        <5>1. i + 1 + 1 \in 1 .. n /\ i + 1 \in 1 .. n /\ i + 1 + 1 # 1 /\ (i + 1 + 1) - 1 = i + 1 /\ i + 1 <= n
          BY <1>0, <4>1
        <5>2. f[i + 1] = g[i + 1]
          BY <3>6, <5>1
        <5>3. f[i + 1 + 1] = f[i + 1] \o seqs[i + 1 + 1]
          BY <3>3, <5>1
        <5>4. g[i + 1 + 1] = g[i + 1] \o seqs[i + 1 + 1]
          BY <1>1, <5>1
        <5>5. f[i + 1 + 1] = g[i + 1 + 1]
          BY ONLY <5>2, <5>3, <5>4
        <5> QED
          BY <5>5
      <4>2. CASE ~(i + 1 + 1 <= n)
        BY <4>2
      <4> QED
        BY <4>1, <4>2
    <3> HIDE DEF T
    <3>7. \A i \in Nat : i \in T
      BY <3>5, <3>6, Induct
    <3>8. n - 1 \in Nat /\ (n - 1) + 1 = n
      BY <1>0, <2>2
    <3>9. n - 1 \in T
      BY <3>7, <3>8
    <3>10. (n - 1) + 1 <= n => f[(n - 1) + 1] = g[(n - 1) + 1]
      BY <3>9 DEF T
    <3>11. f[n] = g[n]
      BY <1>0, <3>8, <3>10
    <3> QED
      BY <3>4, <3>11
  <2> QED
    BY <2>1, <2>2
<1>3. ASSUME NEW i \in 1 .. n
      PROVE  /\ Len(g[i]) = Len(g[i - 1]) + Len(seqs[i]) /\ Len(g[i - 1]) \in Nat
             /\ \A k \in 1 .. Len(g[i]) : g[i][k] = IF k <= Len(g[i - 1]) THEN g[i - 1][k]
                                                  ELSE seqs[i][k - Len(g[i - 1])]
  <2>1. i - 1 \in 0 .. n
    BY <1>0
  <2>2. g[i - 1] \in Seq(S) /\ seqs[i] \in Seq(S) /\ g[i] = g[i - 1] \o seqs[i]
    BY <1>0, <1>1, <2>1
  <2>3. Len(g[i - 1]) \in Nat /\ Len(seqs[i]) \in Nat
    BY <2>2, LenProperties
  <2>4. /\ Len(g[i - 1] \o seqs[i]) = Len(g[i - 1]) + Len(seqs[i])
        /\ \A k \in 1 .. Len(g[i - 1]) + Len(seqs[i]) : (g[i - 1] \o seqs[i])[k] =
             IF k <= Len(g[i - 1]) THEN g[i - 1][k] ELSE seqs[i][k - Len(g[i - 1])]
    BY <2>2, ConcatProperties
  <2> QED
    BY <2>2, <2>3, <2>4
(* What was written stays at its place.                                    *)
<1>4. \A i \in 0 .. n : \A j \in Nat :
        i + j <= n => Len(g[i]) <= Len(g[i + j]) /\ \A k \in 1 .. Len(g[i]) : g[i + j][k] = g[i][k]
  <2> TAKE i \in 0 .. n
  <2> DEFINE T == {j \in Nat : i + j <= n =>
                 Len(g[i]) <= Len(g[i + j]) /\ \A k \in 1 .. Len(g[i]) : g[i + j][k] = g[i][k]}
  <2>0. Len(g[i]) \in Nat
    BY <1>1, LenProperties
  <2>1. 0 \in T
    BY <2>0
  <2>2. ASSUME NEW j \in Nat, j \in T PROVE j + 1 \in T
    <3>1. SUFFICES ASSUME i + (j + 1) <= n
                   PROVE  /\ Len(g[i]) <= Len(g[i + (j + 1)])
                          /\ \A k \in 1 .. Len(g[i]) : g[i + (j + 1)][k] = g[i][k]
      OBVIOUS
    <3>2. i + j <= n /\ i + (j + 1) \in 1 .. n /\ (i + (j + 1)) - 1 = i + j
      BY <1>0, <3>1
    <3>3. Len(g[i]) <= Len(g[i + j]) /\ \A k \in 1 .. Len(g[i]) : g[i + j][k] = g[i][k]
      BY <2>2, <3>2
    <3>4. seqs[i + (j + 1)] \in Seq(S) /\ Len(seqs[i + (j + 1)]) \in Nat
      BY <1>0, <3>2, LenProperties
    <3>5. /\ Len(g[i + (j + 1)]) = Len(g[i + j]) + Len(seqs[i + (j + 1)]) /\ Len(g[i + j]) \in Nat
          /\ \A k \in 1 .. Len(g[i + (j + 1)]) : g[i + (j + 1)][k] =
               IF k <= Len(g[i + j]) THEN g[i + j][k] ELSE seqs[i + (j + 1)][k - Len(g[i + j])]
      BY <1>3, <3>2
    <3>6. Len(g[i]) <= Len(g[i + (j + 1)])
      BY <2>0, <3>3, <3>4, <3>5
    <3>7. ASSUME NEW k \in 1 .. Len(g[i]) PROVE g[i + (j + 1)][k] = g[i][k]
      <4>1. k <= Len(g[i + j]) /\ k \in 1 .. Len(g[i + (j + 1)])
        <5>1. k \in Nat /\ 1 <= k /\ k <= Len(g[i])
          BY <2>0
        <5>2. Len(g[i + j]) \in Nat /\ Len(g[i]) <= Len(g[i + j])
          BY <3>3, <3>5
        <5>3. Len(g[i + (j + 1)]) \in Nat
          <6>0. i + (j + 1) \in 0 .. n
            BY <1>0, <3>2
          <6>1. g[i + (j + 1)] \in Seq(S)
            BY ONLY <6>0, g \in [0 .. n -> Seq(S)]
          <6> QED
            BY <6>1, LenProperties
        <5> QED
          BY ONLY <2>0, <3>6, <5>1, <5>2, <5>3
      <4> QED
        BY <3>3, <3>5, <4>1
    <3> QED
      BY <3>6, <3>7
  <2> HIDE DEF T
  <2>3. \A j \in Nat : j \in T
    BY <2>1, <2>2, Induct
  <2> QED
    BY <2>3 DEF T
<1>5. ASSUME NEW i \in 1 .. n
      PROVE  /\ at[i] = at[i - 1] + Len(seqs[i]) /\ at[i] <= Len(g[n])
             /\ \A k \in 1 .. Len(seqs[i]) : g[n][at[i - 1] + k] = seqs[i][k]
  <2>1. i - 1 \in 0 .. n /\ i \in 0 .. n /\ n - i \in Nat /\ i + (n - i) = n /\ n <= n
    BY <1>0
  <2>2. at[i] = Len(g[i]) /\ at[i - 1] = Len(g[i - 1])
    BY <2>1
  <2>3. Len(g[i]) <= Len(g[n]) /\ \A k \in 1 .. Len(g[i]) : g[n][k] = g[i][k]
    BY <1>4, <2>1
  <2>4. Len(seqs[i]) \in Nat
    BY <1>0, LenProperties
  <2>5. ASSUME NEW k \in 1 .. Len(seqs[i]) PROVE g[n][Len(g[i - 1]) + k] = seqs[i][k]
    <3>1. /\ Len(g[i - 1]) + k \in 1 .. Len(g[i]) /\ ~(Len(g[i - 1]) + k <= Len(g[i - 1]))
          /\ Len(g[i - 1]) + k - Len(g[i - 1]) = k
      BY <1>3, <2>4, <2>1
    <3>2. PICK p : p = Len(g[i - 1]) + k
      OBVIOUS
    <3>3. /\ p \in 1 .. Len(g[i]) /\ ~(p <= Len(g[i - 1])) /\ p - Len(g[i - 1]) = k
      BY <3>1, <3>2
    <3>4. g[i][p] = IF p <= Len(g[i - 1]) THEN g[i - 1][p] ELSE seqs[i][p - Len(g[i - 1])]
      BY <1>3, <3>3
    <3>5. g[i][p] = seqs[i][k]
      BY <3>3, <3>4
    <3> QED
      BY <2>3, <3>2, <3>3, <3>5
  <2> HIDE DEF at
  <2> QED
    BY <1>3, <2>2, <2>3, <2>5
<1>6. at \in [0 .. n -> Nat] /\ at[0] = 0 /\ at[n] = Len(g[n])
  <2>1. \A i \in 0 .. n : Len(g[i]) \in Nat
    BY <1>1, LenProperties
  <2>2. Len(<< >>) = 0 /\ 0 \in 0 .. n /\ n \in 0 .. n
    BY <1>0
  <2> QED
    BY <1>1, <2>1, <2>2
<1>7. Placed(g[n], seqs, at)
  <2> HIDE DEF at
  <2> QED
    BY <1>5, <1>6 DEF Placed
<1> HIDE DEF at
<1>8. n \in 0 .. n
  BY <1>0
<1> QED
  BY <1>1, <1>2, <1>7, <1>8
-----------------------------------------------------------------------------
(* The decoder.                                                            *)

DecodeStates == [at : {"data", "end", "bad"}, e : 0 .. 3, part : Nat, out : Seq(Nat)]

LEMMA LetterStays ==
  ASSUME NEW st \in DecodeStates, NEW c \in Nat
  PROVE  DecodeLetter(st, c) \in DecodeStates
<1>1. st.part \in Nat /\ st.out \in Seq(Nat) /\ st.e \in 0 .. 3
  BY DEF DecodeStates
<1>2. \A b \in Nat : Append(st.out, b) \in Seq(Nat)
  BY <1>1, AppendProperties
<1>3. /\ (c * 4) % 256 \in Nat /\ (c * 16) % 256 \in Nat /\ (c * 64) % 256 \in Nat
      /\ st.part + c \div 16 \in Nat /\ st.part + c \div 4 \in Nat /\ st.part + c \in Nat
  BY <1>1
<1>4. \A e \in 0 .. 3, part \in Nat, out \in Seq(Nat) : AtQuantum(e, part, out) \in DecodeStates
  BY DEF DecodeStates, AtQuantum
<1>5. 0 \in 0 .. 3 /\ 1 \in 0 .. 3 /\ 2 \in 0 .. 3 /\ 3 \in 0 .. 3
  OBVIOUS
<1>6. CASE st.e = 0
  <2>1. DecodeLetter(st, c) = AtQuantum(1, (c * 4) % 256, st.out)
    BY <1>6 DEF DecodeLetter
  <2> QED
    BY ONLY <1>1, <1>3, <1>4, <1>5, <2>1
<1>7. CASE st.e = 1
  <2>1. DecodeLetter(st, c) = AtQuantum(2, (c * 16) % 256, Append(st.out, st.part + c \div 16))
    BY <1>7 DEF DecodeLetter
  <2>2. PICK o \in Seq(Nat) : o = Append(st.out, st.part + c \div 16)
    BY <1>2, <1>3
  <2>3. DecodeLetter(st, c) = AtQuantum(2, (c * 16) % 256, o)
    BY <2>1, <2>2, Zenon
  <2> QED
    BY ONLY <1>1, <1>3, <1>4, <1>5, <2>3
<1>8. CASE st.e = 2
  <2>1. DecodeLetter(st, c) = AtQuantum(3, (c * 64) % 256, Append(st.out, st.part + c \div 4))
    BY <1>8 DEF DecodeLetter
  <2>2. PICK o \in Seq(Nat) : o = Append(st.out, st.part + c \div 4)
    BY <1>2, <1>3
  <2>3. DecodeLetter(st, c) = AtQuantum(3, (c * 64) % 256, o)
    BY <2>1, <2>2, Zenon
  <2> QED
    BY ONLY <1>1, <1>3, <1>4, <1>5, <2>3
<1>9. CASE st.e = 3
  <2>1. DecodeLetter(st, c) = AtQuantum(0, st.part, Append(st.out, st.part + c))
    BY <1>9 DEF DecodeLetter
  <2>2. PICK o \in Seq(Nat) : o = Append(st.out, st.part + c)
    BY <1>2, <1>3
  <2>3. DecodeLetter(st, c) = AtQuantum(0, st.part, o)
    BY <2>1, <2>2, Zenon
  <2> QED
    BY ONLY <1>1, <1>3, <1>4, <1>5, <2>3
<1> QED
  BY <1>1, <1>6, <1>7, <1>8, <1>9

LEMMA CharStays ==
  ASSUME NEW st \in DecodeStates, NEW src \in Seq(Nat), NEW i \in 1 .. Len(src)
  PROVE  DecodeChar(st, src, i) \in DecodeStates
<1>1. src[i] \in Nat
  BY ElementOfSeq
<1>2. \A another : DecodePad(st, another) \in DecodeStates
  <2>1. \A another : \/ DecodePad(st, another) = [st EXCEPT !.at = "end"]
                      \/ DecodePad(st, another) = [st EXCEPT !.e = 3]
                      \/ DecodePad(st, another) = [st EXCEPT !.at = "bad"]
    BY DEF DecodePad
  <2>2. [st EXCEPT !.at = "end"] \in DecodeStates
    BY DEF DecodeStates
  <2>3. [st EXCEPT !.e = 3] \in DecodeStates
    <3>1. 3 \in 0 .. 3
      OBVIOUS
    <3> QED
      BY ONLY <3>1, st \in DecodeStates DEF DecodeStates
  <2>4. [st EXCEPT !.at = "bad"] \in DecodeStates
    BY DEF DecodeStates
  <2> QED
    BY ONLY <2>1, <2>2, <2>3, <2>4
<1> QED
  BY <1>1, <1>2, LetterStays DEF DecodeChar

-----------------------------------------------------------------------------
(* base64: the decoder.                                                    *)

(* The states that the decoder goes through.                               *)
Decodes(f, src) ==
  /\ f \in [0 .. Len(src) -> DecodeStates] /\ f[0] = DecodeStart
  /\ \A i \in 1 .. Len(src) : f[i] = DecodeChar(f[i - 1], src, i)
  /\ Decoding(src) = f[Len(src)]
LEMMA Decoded ==
  ASSUME NEW src \in Seq(Nat)
  PROVE  \E f : Decodes(f, src)
<1> DEFINE n == Len(src)
           step == [x \in DecodeStates \X Nat |->
                      IF x[2] \in 1 .. n THEN DecodeChar(x[1], src, x[2]) ELSE DecodeStart]
           F(f) == [i \in 0 .. n |-> IF i = 0 THEN DecodeStart ELSE DecodeChar(f[i - 1], src, i)]
           f == CHOOSE f : f = F(f)
<1>1. n \in Nat
  BY LenProperties
<1>2. DecodeStart \in DecodeStates
  BY EmptySeq DEF DecodeStart, AtQuantum, DecodeStates
<1>3. step \in [DecodeStates \X Nat -> DecodeStates]
  BY <1>2, CharStays
<1> HIDE DEF step
<1>4. PICK g \in [0 .. n -> DecodeStates] : Runs(g, n, DecodeStart, step)
  BY <1>1, <1>2, <1>3, Recursion
<1>5. ASSUME NEW i \in 1 .. n PROVE g[i] = DecodeChar(g[i - 1], src, i)
  <2>1. i - 1 \in 0 .. n /\ i \in Nat
    BY <1>1
  <2>2. g[i] = step[g[i - 1], i]
    BY ONLY <1>4, i \in 1 .. n DEF Runs
  <2>3. g[i - 1] \in DecodeStates
    BY ONLY <2>1, g \in [0 .. n -> DecodeStates]
  <2> QED
    BY <2>1, <2>2, <2>3 DEF step
<1>6. g[0] = DecodeStart
  BY <1>4 DEF Runs
<1>7. g = F(g)
  <2>1. ASSUME NEW i \in 0 .. n
        PROVE  g[i] = IF i = 0 THEN DecodeStart ELSE DecodeChar(g[i - 1], src, i)
    <3>1. CASE i = 0
      BY <1>6, <3>1
    <3>2. CASE i # 0
      <4>1. i \in 1 .. n
        BY <1>1, <3>2
      <4> QED
        BY <1>5, <3>2, <4>1
    <3> QED
      BY <3>1, <3>2
  <2> QED
    BY <2>1
<1>8. f = F(f)
  BY <1>7
<1>9. Decoding(src) = f[n]
  BY DEF Decoding
<1> HIDE DEF f
<1>10. \A i \in 0 .. n : f[i] = g[i]
  <2>1. f[0] = g[0]
    BY <1>1, <1>6, <1>8
  <2>2. ASSUME NEW i \in 1 .. n, f[i - 1] = g[i - 1] PROVE f[i] = g[i]
    <3>1. i \in 0 .. n /\ i # 0
      BY <1>1
    <3> QED
      BY <1>5, <1>8, <2>2, <3>1
  <2> QED
    <3>1. StepAlike(f, g, n)
      BY ONLY <1>1, <2>1, <2>2 DEF StepAlike
    <3> QED
      BY ONLY <3>1, SameSteps
<1> QED
  BY <1>1, <1>4, <1>5, <1>6, <1>9, <1>10 DEF Decodes

(* However long the text: in a group of four characters there are at most  *)
(* three bytes.                                                            *)
Spare(e) == IF e = 0 THEN 0 ELSE e - 4
MovesOn(l, e, m, d) ==
  \/ m = l /\ (d = e \/ (e = 2 /\ d = 3) \/ (e = 0 /\ d = 1))
  \/ m = l + 1 /\ <<e, d>> \in {<<1, 2>>, <<2, 3>>, <<3, 0>>}
LEMMA SpareStep ==
  ASSUME NEW i \in Nat \ {0}, NEW l \in Nat, NEW e \in 0 .. 3, NEW m, NEW d,
         4 * l <= 3 * (i - 1) + Spare(e), MovesOn(l, e, m, d)
  PROVE  4 * m <= 3 * i + Spare(d)
<1>1. CASE e = 0
  BY <1>1 DEF Spare, MovesOn
<1>2. CASE e # 0
  BY <1>2 DEF Spare, MovesOn
<1> QED
  BY <1>1, <1>2

LEMMA DecodedIsShort ==
  ASSUME NEW src \in Seq(Nat)
  PROVE  Len(Decoding(src).out) <= 4 + (3 * Len(src)) \div 4
<1> DEFINE Short(st, i) == 4 * Len(st.out) <= 3 * i + Spare(st.e)
<1>1. PICK f : Decodes(f, src)
  BY Decoded
<1>2. Len(src) \in Nat
  BY LenProperties
<1>3. ASSUME NEW i \in 1 .. Len(src), Short(f[i - 1], i - 1) PROVE Short(f[i], i)
  <2>1. PICK st \in DecodeStates : st = f[i - 1] /\ f[i] = DecodeChar(st, src, i)
    BY <1>1, <1>2 DEF Decodes
  <2>2. st.out \in Seq(Nat) /\ Len(st.out) \in Nat /\ st.e \in 0 .. 3 /\ st.part \in Nat
    BY <2>1, LenProperties DEF DecodeStates
  <2>3. \A b : Len(Append(st.out, b)) = Len(st.out) + 1
    BY <2>2
  <2>4. i \in Nat \ {0} /\ 4 * Len(st.out) <= 3 * (i - 1) + Spare(st.e)
    BY <1>2, <1>3, <2>1
  <2>5. CASE f[i] = st
    <3>1. Len(f[i].out) = Len(st.out) /\ f[i].e = st.e
      BY <2>5
    <3>3. MovesOn(Len(st.out), st.e, Len(f[i].out), f[i].e)
      BY <3>1 DEF MovesOn
    <3> QED
      BY <2>2, <2>4, <3>3, SpareStep
  <2>6. ASSUME NEW another, f[i] = DecodePad(st, another) PROVE Short(f[i], i)
    <3>1. \/ f[i] = [st EXCEPT !.at = "end"] \/ f[i] = [st EXCEPT !.at = "bad"]
          \/ st.e = 2 /\ f[i] = [st EXCEPT !.e = 3]
      BY <2>6, Zenon DEF DecodePad
    <3>2. Len(f[i].out) = Len(st.out) /\ (f[i].e = st.e \/ (st.e = 2 /\ f[i].e = 3))
      BY <2>1, <3>1 DEF DecodeStates
    <3>3. MovesOn(Len(st.out), st.e, Len(f[i].out), f[i].e)
      BY <3>2 DEF MovesOn
    <3> QED
      BY <2>2, <2>4, <3>3, SpareStep
  <2>7. ASSUME NEW c, f[i] = DecodeLetter(st, c) PROVE Short(f[i], i)
    <3>1. \/ st.e = 0 /\ f[i].e = 1 /\ Len(f[i].out) = Len(st.out)
          \/ st.e = 1 /\ f[i].e = 2 /\ Len(f[i].out) = Len(st.out) + 1
          \/ st.e = 2 /\ f[i].e = 3 /\ Len(f[i].out) = Len(st.out) + 1
          \/ st.e = 3 /\ f[i].e = 0 /\ Len(f[i].out) = Len(st.out) + 1
      <4>1. CASE st.e = 0
        BY <2>7, <4>1 DEF DecodeLetter, AtQuantum
      <4>2. CASE st.e = 1
        BY <2>3, <2>7, <4>2 DEF DecodeLetter, AtQuantum
      <4>3. CASE st.e = 2
        BY <2>3, <2>7, <4>3 DEF DecodeLetter, AtQuantum
      <4>4. CASE st.e = 3
        BY <2>3, <2>7, <4>4 DEF DecodeLetter, AtQuantum
      <4> QED
        BY <2>2, <4>1, <4>2, <4>3, <4>4
    <3>3. MovesOn(Len(st.out), st.e, Len(f[i].out), f[i].e)
      BY <3>1 DEF MovesOn
    <3> QED
      BY <2>2, <2>4, <3>3, SpareStep
  <2> HIDE DEF Short
  <2> QED
    BY <2>1, <2>5, <2>6, <2>7 DEF DecodeChar
<1>4. Short(f[0], 0)
  <2>1. f[0].e = 0 /\ f[0].out = << >>
    BY <1>1 DEF Decodes, DecodeStart, AtQuantum
  <2> QED
    BY <2>1 DEF Spare
<1> DEFINE T == {i \in Nat : i <= Len(src) => Short(f[i], i)}
<1>5. 0 \in T
  BY <1>4
<1>6. ASSUME NEW i \in Nat, i \in T PROVE i + 1 \in T
  <2> HIDE DEF Short
  <2>1. i + 1 <= Len(src) => i + 1 \in 1 .. Len(src) /\ (i + 1) - 1 = i /\ i <= Len(src)
    BY <1>2
  <2> QED
    BY <1>3, <1>6, <2>1
<1> HIDE DEF T
<1>7. Len(src) \in T
  BY <1>2, <1>5, <1>6, Induct
<1>8. Short(f[Len(src)], Len(src))
  BY <1>7 DEF T
<1>9. f[Len(src)] \in DecodeStates
  BY <1>1, <1>2 DEF Decodes
<1>10. f[Len(src)].e \in 0 .. 3 /\ Len(f[Len(src)].out) \in Nat
  BY <1>9, LenProperties DEF DecodeStates
<1>11. PICK l \in Nat : l = Len(f[Len(src)].out)
  BY <1>10
<1>12. 4 * l <= 3 * Len(src)
  BY <1>2, <1>8, <1>10, <1>11 DEF Spare
<1>13. Decoding(src).out = f[Len(src)].out
  BY <1>1 DEF Decodes
<1>14. l <= 4 + (3 * Len(src)) \div 4
  BY <1>2, <1>12
<1> QED
  BY <1>11, <1>13, <1>14

(* Four letters stand for three bytes, of which each ends in another one.  *)
LEMMA FirstByte ==
  ASSUME NEW a \in 0 .. 255, NEW b \in 0 .. 255
  PROVE  /\ a \div 4 \in 0 .. 63 /\ (a % 4) * 16 + b \div 16 \in 0 .. 63
         /\ (((a \div 4) * 4) % 256) + ((a % 4) * 16 + b \div 16) \div 16 = a
  OBVIOUS
Halves(a, b, c, l, q) ==
  /\ a \in 0 .. 255 /\ b \in 0 .. 255 /\ c \in 0 .. 255
  /\ l = (a % 4) * 16 + b \div 16 /\ q = (b % 16) * 4 + c \div 64
LEMMA SecondByte ==
  ASSUME NEW a, NEW b, NEW c, NEW l, NEW q, Halves(a, b, c, l, q)
  PROVE  q \in 0 .. 63 /\ ((l * 16) % 256) + q \div 4 = b
<1>1. PICK h \in 0 .. 15, r \in 0 .. 15 : b \div 16 = h /\ b % 16 = r /\ b = 16 * h + r
  BY DEF Halves
<1>2. PICK u \in 0 .. 3, v \in 0 .. 3 : a % 4 = u /\ c \div 64 = v
  BY DEF Halves
<1>3. l = u * 16 + h /\ q = r * 4 + v
  BY <1>1, <1>2, Zenon DEF Halves
<1>4. q \in 0 .. 63 /\ q \div 4 = r /\ (l * 16) % 256 = 16 * h
  BY <1>3
<1> QED
  BY <1>1, <1>4
LEMMA ThirdByte ==
  ASSUME NEW b \in 0 .. 255, NEW c \in 0 .. 255
  PROVE  c % 64 \in 0 .. 63 /\ ((((b % 16) * 4 + c \div 64) * 64) % 256) + (c % 64) = c
<1>1. PICK q \in 0 .. 3, r \in 0 .. 63 : c \div 64 = q /\ c % 64 = r /\ c = 64 * q + r
  OBVIOUS
<1>2. PICK h \in 0 .. 15 : b % 16 = h
  OBVIOUS
<1>3. ((h * 4 + q) * 64) % 256 = 64 * q
  OBVIOUS
<1>4. ((((b % 16) * 4 + c \div 64) * 64) % 256) + (c % 64) = (((h * 4 + q) * 64) % 256) + r
  BY <1>1, <1>2, Zenon
<1> QED
  BY <1>1, <1>3, <1>4

(* What the decoder makes of a character.                                  *)
Follows(j, i, src) == i \in 1 .. Len(src) /\ j = i - 1
Reads(f, src, j, i, l, e, x, o) ==
  /\ Decodes(f, src) /\ Follows(j, i, src) /\ src[i] = l /\ l \in 0 .. 63
  /\ f[j] = AtQuantum(e, x, o)
LEMMA LetterIsRead ==
  ASSUME NEW src, NEW f, NEW j, NEW i, NEW l, NEW e, NEW x, NEW o,
         Reads(f, src, j, i, l, e, x, o)
  PROVE  /\ e = 0 => f[i] = AtQuantum(1, (l * 4) % 256, o)
         /\ e = 1 => f[i] = AtQuantum(2, (l * 16) % 256, Append(o, x + l \div 16))
         /\ e = 2 => f[i] = AtQuantum(3, (l * 64) % 256, Append(o, x + l \div 4))
         /\ e = 3 => f[i] = AtQuantum(0, x, Append(o, x + l))
<1> DEFINE st == AtQuantum(e, x, o)
<1>1. f[i] = DecodeChar(st, src, i)
  BY DEF Decodes, Follows, Reads
<1>2. st.at = "data" /\ st.e = e /\ st.part = x /\ st.out = o
  BY DEF AtQuantum
<1>3. ~(src[i] > Pad) /\ src[i] # Pad /\ src[i] = l
  BY DEF Pad, Reads
<1> HIDE DEF st
<1>4. f[i] = DecodeLetter(st, l)
  BY <1>1, <1>2, <1>3 DEF DecodeChar
<1>5. CASE e = 0
  BY <1>2, <1>4, <1>5 DEF DecodeLetter
<1>6. CASE e = 1
  BY <1>2, <1>4, <1>6 DEF DecodeLetter
<1>7. CASE e = 2
  BY <1>2, <1>4, <1>7 DEF DecodeLetter
<1>8. CASE e = 3
  BY <1>2, <1>4, <1>8 DEF DecodeLetter
<1> QED
  BY <1>5, <1>6, <1>7, <1>8

LEMMA FirstIsRead ==
  ASSUME NEW src, NEW f, NEW j, NEW i, NEW l, NEW x, NEW o, Reads(f, src, j, i, l, 0, x, o),
         NEW q, q = (l * 4) % 256
  PROVE  f[i] = AtQuantum(1, q, o)
BY LetterIsRead
LEMMA SecondIsRead ==
  ASSUME NEW src, NEW f, NEW j, NEW i, NEW l, NEW x, NEW o, Reads(f, src, j, i, l, 1, x, o),
         NEW q, q = (l * 16) % 256, NEW a, a = x + l \div 16
  PROVE  f[i] = AtQuantum(2, q, Append(o, a))
BY LetterIsRead
ReadsThird(f, src, j, i, l, x, o, q, a) ==
  Reads(f, src, j, i, l, 2, x, o) /\ q = (l * 64) % 256 /\ a = x + l \div 4
LEMMA ThirdIsRead ==
  ASSUME NEW src, NEW f, NEW j, NEW i, NEW l, NEW x, NEW o, NEW q, NEW a,
         ReadsThird(f, src, j, i, l, x, o, q, a)
  PROVE  f[i] = AtQuantum(3, q, Append(o, a))
<1>1. Reads(f, src, j, i, l, 2, x, o)
  BY DEF ReadsThird
<1>2. f[i] = AtQuantum(3, (l * 64) % 256, Append(o, x + l \div 4))
  BY ONLY <1>1, LetterIsRead
<1> QED
  BY <1>2 DEF ReadsThird
LEMMA FourthIsRead ==
  ASSUME NEW src, NEW f, NEW j, NEW i, NEW l, NEW x, NEW o, Reads(f, src, j, i, l, 3, x, o),
         NEW a, a = x + l
  PROVE  f[i] = AtQuantum(0, x, Append(o, a))
BY LetterIsRead

ReadsPad(f, src, j, i) ==
  /\ Decodes(f, src) /\ Follows(j, i, src) /\ src[i] = Pad /\ f[j].at = "data"
  /\ src \in Seq(Nat)
LEMMA PadIsRead ==
  ASSUME NEW src, NEW f, NEW j, NEW i, ReadsPad(f, src, j, i)
  PROVE  /\ f[j].e = 3 => f[i].at = "end" /\ f[i].out = f[j].out
         /\ f[j].e = 2 /\ i < Len(src) /\ src[i + 1] = Pad =>
              f[i].at = "data" /\ f[i].e = 3 /\ f[i].out = f[j].out
<1>1. PICK st \in DecodeStates : st = f[j] /\ f[i] = DecodeChar(st, src, i)
  <2>1. i - 1 \in 0 .. Len(src)
    BY LenProperties DEF Follows, ReadsPad
  <2> QED
    BY <2>1 DEF Decodes, Follows, ReadsPad
<1>0. st \in DecodeStates /\ st.at = "data"
  BY <1>1 DEF ReadsPad
<1>2. PICK another : another = (i < Len(src) /\ src[i + 1] = Pad)
  OBVIOUS
<1>3. ~(src[i] > Pad) /\ src[i] = Pad /\ st.at = "data"
  BY <1>1 DEF Pad, ReadsPad
<1>4. f[i] = DecodePad(st, another)
  BY <1>1, <1>2, <1>3 DEF DecodeChar
<1>5. ASSUME st.e = 3 PROVE f[i].at = "end" /\ f[i].out = st.out
  <2>1. f[i] = [st EXCEPT !.at = "end"]
    BY <1>4, <1>5 DEF DecodePad
  <2> QED
    BY ONLY <2>1, st \in DecodeStates DEF DecodeStates
<1>6. ASSUME st.e = 2, another PROVE f[i].at = "data" /\ f[i].e = 3 /\ f[i].out = st.out
  <2>1. f[i] = [st EXCEPT !.e = 3]
    BY <1>4, <1>6 DEF DecodePad
  <2> QED
    BY ONLY <1>0, <2>1 DEF DecodeStates
<1> QED
  BY <1>1, <1>2, <1>5, <1>6

LEMMA JunkIsPassed ==
  ASSUME NEW src \in Seq(Nat), NEW f, Decodes(f, src), NEW i \in 1 .. Len(src),
         src[i] > Pad \/ f[i - 1].at = "end"
  PROVE  f[i] = f[i - 1]
BY DEF Decodes, DecodeChar

Over(st, out) == st.at = "end" /\ st.out = out
Ready(st, out) == \E x \in Nat : st = AtQuantum(0, x, out)

Pair(f, src, p, k, l, o, a) ==
  /\ src \in Seq(Nat) /\ Decodes(f, src) /\ p \in Nat /\ p + 4 <= Len(src)
  /\ k \in 0 .. 63 /\ l \in 0 .. 63 /\ Ready(f[p], o)
  /\ src[p + 1] = k /\ src[p + 2] = l /\ ((k * 4) % 256) + l \div 16 = a
Third(src, p, l, m, b) ==
  m \in 0 .. 63 /\ src[p + 3] = m /\ ((l * 16) % 256) + m \div 4 = b
Fourth(src, p, m, n, c) ==
  n \in 0 .. 63 /\ src[p + 4] = n /\ ((m * 64) % 256) + n = c

(* Four characters, whatever the bytes are that the letters stand for.     *)
LEMMA GroupIsRead ==
  ASSUME NEW src, NEW f, NEW p, NEW k, NEW l, NEW o, NEW a, Pair(f, src, p, k, l, o, a)
  PROVE  /\ \A m, b : Third(src, p, l, m, b) =>
              /\ \A n, c : Fourth(src, p, m, n, c) =>
                   Ready(f[p + 4], Append(Append(Append(o, a), b), c))
              /\ src[p + 4] = Pad => Over(f[p + 4], Append(Append(o, a), b))
         /\ src[p + 3] = Pad /\ src[p + 4] = Pad => Over(f[p + 4], Append(o, a))
<1> USE DEF Pair
<1>1. PICK x \in Nat : f[p] = AtQuantum(0, x, o)
  BY DEF Ready
<1>2. PICK p1, p2, p3, p4 : p1 = p + 1 /\ p2 = p + 2 /\ p3 = p + 3 /\ p4 = p + 4
  OBVIOUS
<1>D. /\ Follows(p, p1, src) /\ Follows(p1, p2, src) /\ Follows(p2, p3, src) /\ Follows(p3, p4, src)
      /\ p3 + 1 = p4 /\ p3 < Len(src)
  BY <1>2, LenProperties DEF Follows
<1>L. src[p1] = k /\ src[p2] = l /\ k \in 0 .. 63 /\ l \in 0 .. 63
  BY <1>2
<1>3. PICK y \in Nat, z \in Nat : y = (k * 4) % 256 /\ z = (l * 16) % 256
  OBVIOUS
<1>4. f[p1] = AtQuantum(1, y, o)
  <2>1. Reads(f, src, p, p1, k, 0, x, o)
    BY <1>1, <1>D, <1>L DEF Reads
  <2> QED
    BY ONLY <1>3, <2>1, FirstIsRead
<1>5. f[p2] = AtQuantum(2, z, Append(o, a))
  <2>1. Reads(f, src, p1, p2, l, 1, y, o)
    BY <1>4, <1>D, <1>L DEF Reads
  <2>2. a = y + l \div 16
    BY <1>3
  <2> QED
    BY ONLY <1>3, <2>1, <2>2, SecondIsRead
<1>6. ASSUME src[p + 3] = Pad, src[p + 4] = Pad PROVE Over(f[p + 4], Append(o, a))
  <2>0. src[p3] = Pad /\ src[p4] = Pad /\ src[p3 + 1] = Pad
    BY <1>2, <1>6, <1>D
  <2>1. /\ f[p2].at = "data" /\ f[p2].e = 2
        /\ f[p2].out = Append(o, a)
    BY ONLY <1>5 DEF AtQuantum
  <2>2. /\ f[p3].at = "data" /\ f[p3].e = 3 /\ f[p3].out = Append(o, a)
    <3>1. ReadsPad(f, src, p2, p3)
      BY <1>D, <2>0, <2>1 DEF ReadsPad
    <3> QED
      BY ONLY <1>D, <2>0, <2>1, <3>1, PadIsRead
  <2>3. f[p4].at = "end" /\ f[p4].out = f[p3].out
    <3>1. ReadsPad(f, src, p3, p4)
      BY <1>D, <2>0, <2>2 DEF ReadsPad
    <3> QED
      BY ONLY <2>2, <3>1, PadIsRead
  <2> QED
    BY ONLY <1>2, <2>2, <2>3 DEF Over
<1>7. ASSUME NEW m, NEW b, Third(src, p, l, m, b)
      PROVE  /\ \A n, c : Fourth(src, p, m, n, c) =>
                  Ready(f[p + 4], Append(Append(Append(o, a), b), c))
             /\ src[p + 4] = Pad => Over(f[p + 4], Append(Append(o, a), b))
  <2>0. src[p3] = m /\ m \in 0 .. 63
    BY <1>2, <1>7 DEF Third
  <2>1. PICK w \in Nat : w = (m * 64) % 256
    BY <2>0
  <2>2. f[p3] = AtQuantum(3, w, Append(Append(o, a), b))
    <3>0. PICK u : u = Append(o, a)
      OBVIOUS
    <3>1. Reads(f, src, p2, p3, m, 2, z, u)
      BY <1>5, <1>D, <2>0, <3>0 DEF Reads
    <3>2. b = z + m \div 4
      BY <1>3, <1>7 DEF Third
    <3>3. f[p3] = AtQuantum(3, w, Append(u, b))
      <4>1. ReadsThird(f, src, p2, p3, m, z, u, w, b)
        BY ONLY <2>1, <3>1, <3>2 DEF ReadsThird
      <4> QED
        BY ONLY <4>1, ThirdIsRead
    <3> QED
      BY ONLY <3>0, <3>3
  <2>3. ASSUME NEW n, NEW c, Fourth(src, p, m, n, c)
        PROVE  Ready(f[p + 4], Append(Append(Append(o, a), b), c))
    <3>0. src[p4] = n /\ n \in 0 .. 63
      BY <1>2, <2>3 DEF Fourth
    <3>1. Reads(f, src, p3, p4, n, 3, w, Append(Append(o, a), b))
      BY <1>D, <2>2, <3>0 DEF Reads
    <3>2. c = w + n
      BY <2>1, <2>3 DEF Fourth
    <3>3. f[p4] = AtQuantum(0, w, Append(Append(Append(o, a), b), c))
      BY ONLY <3>1, <3>2, FourthIsRead
    <3> QED
      BY ONLY <1>2, <2>1, <3>3 DEF Ready
  <2>4. ASSUME src[p + 4] = Pad PROVE Over(f[p + 4], Append(Append(o, a), b))
    <3>1. /\ f[p3].at = "data" /\ f[p3].e = 3
          /\ f[p3].out = Append(Append(o, a), b)
      BY ONLY <2>2 DEF AtQuantum
    <3>2. src[p4] = Pad
      BY <1>2, <2>4
    <3>3. ReadsPad(f, src, p3, p4)
      BY <1>D, <3>1, <3>2 DEF ReadsPad
    <3>4. f[p4].at = "end" /\ f[p4].out = f[p3].out
      BY ONLY <3>1, <3>3, PadIsRead
    <3> QED
      BY ONLY <1>2, <3>1, <3>4 DEF Over
  <2> QED
    BY <2>3, <2>4
<1> QED
  BY <1>6, <1>7

(* The same, by the number of bytes that are read.                         *)
LEMMA OneByteIsRead ==
  ASSUME NEW src, NEW f, NEW p, NEW k, NEW l, NEW o, NEW a, Pair(f, src, p, k, l, o, a),
         src[p + 3] = Pad, src[p + 4] = Pad
  PROVE  Over(f[p + 4], Append(o, a))
BY GroupIsRead
LEMMA TwoBytesAreRead ==
  ASSUME NEW src, NEW f, NEW p, NEW k, NEW l, NEW o, NEW a, Pair(f, src, p, k, l, o, a),
         NEW m, NEW b, Third(src, p, l, m, b), src[p + 4] = Pad
  PROVE  Over(f[p + 4], Append(Append(o, a), b))
BY GroupIsRead
LEMMA ThreeBytesAreRead ==
  ASSUME NEW src, NEW f, NEW p, NEW k, NEW l, NEW o, NEW a, Pair(f, src, p, k, l, o, a),
         NEW m, NEW b, Third(src, p, l, m, b), NEW n, NEW c, Fourth(src, p, m, n, c)
  PROVE  Ready(f[p + 4], Append(Append(Append(o, a), b), c))
BY GroupIsRead

(* A prefix that grows by one byte.                                        *)
LEMMA PrefixGrows ==
  ASSUME NEW S, NEW s \in Seq(S), NEW m \in Nat, m + 1 <= Len(s)
  PROVE  Append(SubSeq(s, 1, m), s[m + 1]) = SubSeq(s, 1, m + 1)
<1>0. Len(s) \in Nat
  BY LenProperties
<1>1. /\ SubSeq(s, 1, m) \in Seq(S) /\ Len(SubSeq(s, 1, m)) = m
      /\ \A i \in 1 .. m : SubSeq(s, 1, m)[i] = s[i]
  BY <1>0, SubSeqProperties
<1>2. /\ SubSeq(s, 1, m + 1) \in Seq(S) /\ Len(SubSeq(s, 1, m + 1)) = m + 1
      /\ \A i \in 1 .. m + 1 : SubSeq(s, 1, m + 1)[i] = s[i]
  BY <1>0, SubSeqProperties
<1>3. s[m + 1] \in S
  BY <1>0, ElementOfSeq
<1> DEFINE q == Append(SubSeq(s, 1, m), s[m + 1])
<1>4. /\ q \in Seq(S) /\ Len(q) = m + 1 /\ q[m + 1] = s[m + 1]
      /\ \A i \in 1 .. m : q[i] = s[i]
  BY <1>1, <1>3, AppendProperties
<1> HIDE DEF q
<1>5. \A i \in 1 .. m + 1 : q[i] = SubSeq(s, 1, m + 1)[i]
  BY <1>2, <1>4
<1>6. q = SubSeq(s, 1, m + 1)
  BY <1>2, <1>4, <1>5, SeqEqual
<1> QED
  BY <1>6 DEF q

-----------------------------------------------------------------------------
(* base64: the encoders.                                                   *)

(* The letters of a group are the ones that the decoder reads.             *)
Given(src, p, letters) == \A k \in 1 .. 4 : src[p + k] = letters[k]
Got(st, s, g) ==
  IF 3 * g <= Len(s) THEN Ready(st, SubSeq(s, 1, 3 * g)) ELSE Over(st, s)
LEMMA GroupIsDecoded ==
  ASSUME NEW s \in Seq(0 .. 255), NEW src \in Seq(Nat), NEW f, Decodes(f, src),
         NEW p \in Nat, p + 4 <= Len(src), NEW g \in 1 .. Groups(s),
         Given(src, p, Letters(s, g)), Got(f[p], s, g - 1)
  PROVE  Got(f[p + 4], s, g)
<1> DEFINE n == Len(s)
           m == 3 * (g - 1)
<1>1. n \in Nat /\ g \in Nat /\ m \in Nat /\ m + 1 <= n /\ 3 * g = m + 3
      /\ 3 * g - 2 = m + 1 /\ 3 * g - 1 = m + 2
  <2>1. n \in Nat
    BY LenProperties
  <2> QED
    BY <2>1 DEF Groups
<1> HIDE DEF n, m
<1>2. PICK a \in 0 .. 255, b \in 0 .. 255, c \in 0 .. 255 :
        a = ByteAt(s, m + 1) /\ b = ByteAt(s, m + 2) /\ c = ByteAt(s, m + 3)
  <2>1. ASSUME NEW i \in Nat, i > 0 PROVE ByteAt(s, i) \in 0 .. 255
    <3>1. CASE i <= n
      <4>1. s[i] \in 0 .. 255
        BY <1>1, <2>1, <3>1, ElementOfSeq DEF n
      <4> QED
        BY <3>1, <4>1 DEF ByteAt, n
    <3>2. CASE ~(i <= n)
      BY <3>2 DEF ByteAt, n
    <3> QED
      BY <3>1, <3>2
  <2>2. m + 1 \in Nat /\ m + 2 \in Nat /\ m + 3 \in Nat /\ m + 1 > 0 /\ m + 2 > 0 /\ m + 3 > 0
    BY <1>1
  <2> QED
    BY <2>1, <2>2
<1>3. PICK k \in 0 .. 63, l \in 0 .. 63 : k = a \div 4 /\ l = (a % 4) * 16 + b \div 16
  <2>1. a \div 4 \in 0 .. 63 /\ (a % 4) * 16 + b \div 16 \in 0 .. 63
    BY ONLY a \in 0 .. 255, b \in 0 .. 255
  <2> QED
    BY ONLY <2>1
<1>4. ((k * 4) % 256) + l \div 16 = a
  BY <1>3, FirstByte
<1>5. Letters(s, g) = <<k, l, IF n - m > 1 THEN (b % 16) * 4 + c \div 64 ELSE Pad,
                       IF n - m > 2 THEN c % 64 ELSE Pad>>
  BY <1>1, <1>2, <1>3 DEF Letters, n, m
<1>6. /\ src[p + 1] = k /\ src[p + 2] = l
      /\ src[p + 3] = IF n - m > 1 THEN (b % 16) * 4 + c \div 64 ELSE Pad
      /\ src[p + 4] = IF n - m > 2 THEN c % 64 ELSE Pad
  BY <1>5 DEF Given
<1>7. PICK o : o = SubSeq(s, 1, m) /\ Ready(f[p], o)
  <2>1. 3 * (g - 1) <= n
    BY <1>1 DEF m
  <2> QED
    BY <2>1 DEF Got, m, n
<1>P. Pair(f, src, p, k, l, o, a)
  BY ONLY <1>3, <1>4, <1>6, <1>7, src \in Seq(Nat), Decodes(f, src), p \in Nat, p + 4 <= Len(src)
  DEF Pair
<1>8. Append(o, a) = SubSeq(s, 1, m + 1)
  <2>1. a = s[m + 1]
    BY <1>1, <1>2 DEF ByteAt, n
  <2> QED
    BY <1>1, <1>7, <2>1, PrefixGrows DEF n
<1>9. CASE n = m + 1
  <2>1. src[p + 3] = Pad /\ src[p + 4] = Pad
    BY <1>1, <1>6, <1>9
  <2>2. Over(f[p + 4], Append(o, a))
    BY ONLY <1>P, <2>1, OneByteIsRead
  <2>3. Append(o, a) = s
    BY <1>8, <1>9, SubSeqFull DEF n
  <2> QED
    BY <1>1, <1>9, <2>2, <2>3 DEF Got, n
<1>10. CASE n > m + 1
  <2>0. PICK q : q = (b % 16) * 4 + c \div 64 /\ q \in 0 .. 63 /\ ((l * 16) % 256) + q \div 4 = b
    <3>1. PICK q : q = (b % 16) * 4 + c \div 64
      OBVIOUS
    <3>2. Halves(a, b, c, l, q)
      BY ONLY a \in 0 .. 255, b \in 0 .. 255, c \in 0 .. 255, <1>3, <3>1 DEF Halves
    <3> QED
      BY ONLY <3>1, <3>2, SecondByte
  <2>1. src[p + 3] = q
    <3>1. n - m > 1
      BY <1>1, <1>10
    <3> QED
      BY ONLY <1>6, <2>0, <3>1
  <2>T. Third(src, p, l, q, b)
    BY ONLY <2>0, <2>1 DEF Third
  <2>2. Append(Append(o, a), b) = SubSeq(s, 1, m + 2)
    <3>1. b = s[m + 2] /\ m + 2 <= n
      BY <1>1, <1>2, <1>10 DEF ByteAt, n
    <3>2. m + 1 \in Nat /\ (m + 1) + 1 = m + 2
      BY <1>1
    <3>3. Append(SubSeq(s, 1, m + 1), s[m + 2]) = SubSeq(s, 1, m + 2)
      BY <3>1, <3>2, PrefixGrows DEF n
    <3> QED
      BY <1>8, <3>1, <3>3
  <2>3. CASE n = m + 2
    <3>1. src[p + 4] = Pad
      BY <1>1, <1>6, <2>3
    <3>2. Over(f[p + 4], Append(Append(o, a), b))
      BY ONLY <1>P, <2>T, <3>1, TwoBytesAreRead
    <3>3. Append(Append(o, a), b) = s
      BY <2>2, <2>3, SubSeqFull DEF n
    <3> QED
      BY <1>1, <2>3, <3>2, <3>3 DEF Got, n
  <2>4. CASE n > m + 2
    <3>0. PICK r \in 0 .. 63 : r = c % 64 /\ ((q * 64) % 256) + r = c
      <4>1. c % 64 \in 0 .. 63 /\ ((((b % 16) * 4 + c \div 64) * 64) % 256) + (c % 64) = c
        BY ThirdByte
      <4>2. PICK r : r = c % 64
        OBVIOUS
      <4>3. ((q * 64) % 256) + r = c
        BY <2>0, <4>1, <4>2, Zenon
      <4> QED
        BY <4>1, <4>2, <4>3, Zenon
    <3>1. src[p + 4] = r
      <4>1. n - m > 2
        BY <1>1, <2>4
      <4> QED
        BY ONLY <1>6, <3>0, <4>1
    <3>2. Ready(f[p + 4], Append(Append(Append(o, a), b), c))
      <4>1. Fourth(src, p, q, r, c)
        BY ONLY <3>0, <3>1 DEF Fourth
      <4> QED
        BY ONLY <1>P, <2>T, <4>1, ThreeBytesAreRead
    <3>3. Append(Append(Append(o, a), b), c) = SubSeq(s, 1, m + 3)
      <4>1. c = s[m + 3] /\ m + 3 <= n
        BY <1>1, <1>2, <2>4 DEF ByteAt, n
      <4>2. m + 2 \in Nat /\ (m + 2) + 1 = m + 3
        BY <1>1
      <4>3. Append(SubSeq(s, 1, m + 2), s[m + 3]) = SubSeq(s, 1, m + 3)
        BY <4>1, <4>2, PrefixGrows DEF n
      <4> QED
        BY <2>2, <4>1, <4>3
    <3> QED
      <4>1. 3 * g <= n /\ SubSeq(s, 1, m + 3) = SubSeq(s, 1, 3 * g)
        BY <1>1, <2>4
      <4> QED
        BY ONLY <3>2, <3>3, <4>1 DEF Got, n
  <2> QED
    BY <1>1, <1>10, <2>3, <2>4
<1> QED
  BY <1>1, <1>9, <1>10

(* A text of these letters, with line ends among them, is decoded.         *)
Piece(w, s, g) ==
  /\ w \in Seq(Nat) /\ \A k \in 1 .. 4 : w[k] = Letters(s, g)[k]
  /\ \/ Len(w) = 4
     \/ Len(w) = 6 /\ w[5] > Pad /\ w[6] > Pad
LEMMA TextIsDecoded ==
  ASSUME NEW s \in Seq(0 .. 255), NEW pieces \in Seq(Seq(Nat)), Len(pieces) = Groups(s),
         \A g \in 1 .. Groups(s) : Piece(pieces[g], s, g),
         NEW last, last \in {<< >>, CrLf}
  PROVE  DecodeBase64(FlattenSeq(pieces) \o last) = s
<1> DEFINE flat == FlattenSeq(pieces)
           src == flat \o last
           n == Groups(s)
<1>1. flat \in Seq(Nat) /\ \E at : Placed(flat, pieces, at)
  BY Flattened
<1>2. PICK at : Placed(flat, pieces, at)
  BY <1>1
<1>3. last \in Seq(Nat) /\ (Len(last) = 0 \/ (Len(last) = 2 /\ last[1] > Pad /\ last[2] > Pad))
  <2>1. CASE last = << >>
    BY <2>1
  <2>2. CASE last = CrLf
    BY <2>2 DEF CrLf, Pad
  <2> QED
    BY <2>1, <2>2
<1> HIDE DEF flat
<1>4. /\ src \in Seq(Nat) /\ Len(src) = Len(flat) + Len(last)
      /\ \A i \in 1 .. Len(flat) : src[i] = flat[i]
      /\ \A i \in 1 .. Len(last) : src[Len(flat) + i] = last[i]
  <2>1. /\ src \in Seq(Nat) /\ Len(src) = Len(flat) + Len(last)
        /\ \A i \in 1 .. Len(src) :
             src[i] = IF i <= Len(flat) THEN flat[i] ELSE last[i - Len(flat)]
    BY <1>1, <1>3, ConcatProperties
  <2>2. Len(flat) \in Nat /\ Len(last) \in Nat
    BY <1>1, <1>3, LenProperties
  <2>3. ASSUME NEW i \in 1 .. Len(last) PROVE src[Len(flat) + i] = last[i]
    <3>1. PICK j : j = Len(flat) + i
      OBVIOUS
    <3>2. j \in 1 .. Len(src) /\ ~(j <= Len(flat)) /\ j - Len(flat) = i
      BY <2>1, <2>2, <3>1
    <3>3. src[j] = last[i]
      BY <2>1, <3>2
    <3> QED
      BY <3>1, <3>3
  <2>4. ASSUME NEW i \in 1 .. Len(flat) PROVE src[i] = flat[i]
    <3>1. i \in 1 .. Len(src) /\ i <= Len(flat)
      BY <2>1, <2>2
    <3> QED
      BY <2>1, <3>1
  <2> QED
    BY <2>1, <2>3, <2>4
<1> HIDE DEF src
<1>5. PICK f : Decodes(f, src)
  BY <1>4, Decoded
<1>6. n \in Nat /\ Len(s) \in Nat /\ Len(flat) \in Nat /\ Len(src) \in Nat /\ n = Len(pieces)
  <2>1. Len(s) \in Nat /\ Len(flat) \in Nat /\ Len(src) \in Nat
    BY <1>1, <1>4, LenProperties
  <2> QED
    BY <2>1 DEF Groups
<1> HIDE DEF n
<1>7. ASSUME NEW i \in 1 .. Len(src), src[i] > Pad PROVE f[i] = f[i - 1]
  BY <1>4, <1>5, <1>7, JunkIsPassed
<1> DEFINE T == {g \in Nat : g <= n => Got(f[at[g]], s, g)}
<1>8. 0 \in T
  <2>1. at[0] = 0 /\ f[0] = DecodeStart
    BY <1>2, <1>5 DEF Decodes, Placed
  <2>2. Ready(DecodeStart, << >>)
    BY DEF DecodeStart, Ready
  <2>3. SubSeq(s, 1, 3 * 0) = << >>
    BY SubSeqEmpty
  <2>4. 3 * 0 <= Len(s)
    BY <1>6
  <2> QED
    BY <2>1, <2>2, <2>3, <2>4 DEF Got
<1>9. ASSUME NEW g \in Nat, g \in T PROVE g + 1 \in T
  <2> SUFFICES ASSUME g + 1 <= n PROVE Got(f[at[g + 1]], s, g + 1)
    OBVIOUS
  <2>1. PICK h : h = g + 1 /\ h \in 1 .. n /\ h - 1 = g /\ g <= n /\ h \in 0 .. n /\ g \in 0 .. n
    BY <1>6
  <2>2. PICK p \in Nat, q \in Nat : p = at[g] /\ q = at[h]
    BY <1>2, <1>6, <2>1 DEF Placed
  <2>3. PICK w : w = pieces[h] /\ Piece(w, s, h)
    BY <2>1 DEF n
  <2>L. Len(w) \in {4, 6}
    BY ONLY <2>3 DEF Piece
  <2>4. /\ q = p + Len(w) /\ q <= Len(flat)
        /\ \A k \in 1 .. Len(w) : flat[p + k] = w[k]
    BY <1>2, <1>6, <2>1, <2>2, <2>3 DEF Placed
  <2>5. \A k \in 1 .. Len(w) : src[p + k] = w[k]
    <3> SUFFICES ASSUME NEW k \in 1 .. Len(w) PROVE src[p + k] = w[k]
      OBVIOUS
    <3>1. PICK i : i = p + k
      OBVIOUS
    <3>2. i \in 1 .. Len(flat)
      <4>1. q = p + Len(w) /\ q <= Len(flat) /\ p \in Nat /\ q \in Nat
        BY <2>2, <2>4
      <4>2. CASE Len(w) = 4
        BY ONLY <1>6, <3>1, <4>1, <4>2, k \in 1 .. Len(w)
      <4>3. CASE Len(w) = 6
        BY ONLY <1>6, <3>1, <4>1, <4>3, k \in 1 .. Len(w)
      <4> QED
        BY ONLY <2>L, <4>2, <4>3
    <3> QED
      BY <1>4, <2>4, <3>1, <3>2
  <2>6. Got(f[p], s, h - 1)
    BY <1>9, <2>1, <2>2
  <2>7. Given(src, p, Letters(s, h)) /\ p + 4 <= Len(src)
    <3>1. Len(w) >= 4 /\ Len(w) \in Nat
      <4>1. CASE Len(w) = 4
        BY ONLY <4>1
      <4>2. CASE Len(w) = 6
        BY ONLY <4>2
      <4> QED
        BY ONLY <2>L, <4>1, <4>2
    <3>2. p + 4 <= Len(src)
      BY <1>3, <1>4, <1>6, <2>4, <3>1
    <3>3. ASSUME NEW k \in 1 .. 4 PROVE src[p + k] = Letters(s, h)[k]
      <4>1. k \in 1 .. Len(w)
        BY <3>1
      <4> QED
        BY <2>3, <2>5, <4>1 DEF Piece
    <3> QED
      BY <3>2, <3>3 DEF Given
  <2>8. Got(f[p + 4], s, h)
    BY <1>4, <1>5, <2>1, <2>6, <2>7, GroupIsDecoded DEF n
  <2>9. f[q] = f[p + 4]
    <3>1. CASE Len(w) = 4
      BY <2>4, <3>1
    <3>2. CASE Len(w) = 6 /\ w[5] > Pad /\ w[6] > Pad
      <4>1. PICK i, j : i = p + 5 /\ j = p + 6
        OBVIOUS
      <4>2. i \in 1 .. Len(src) /\ j \in 1 .. Len(src) /\ i - 1 = p + 4 /\ j - 1 = i /\ q = j
        BY <1>3, <1>4, <1>6, <2>4, <3>2, <4>1
      <4>3. src[i] > Pad /\ src[j] > Pad
        BY <2>5, <3>2, <4>1
      <4>4. f[i] = f[p + 4] /\ f[j] = f[i]
        BY <1>7, <4>2, <4>3
      <4> QED
        BY <4>2, <4>4
    <3> QED
      BY <2>3, <3>1, <3>2 DEF Piece
  <2> QED
    BY <2>1, <2>2, <2>8, <2>9
<1> HIDE DEF T
<1>10. n \in T
  BY <1>6, <1>8, <1>9, Induct
<1>11. Got(f[Len(flat)], s, n)
  BY <1>2, <1>6, <1>10 DEF Placed, T
<1>12. f[Len(flat)].at # "bad" /\ f[Len(flat)].out = s
  <2>1. CASE 3 * n <= Len(s)
    <3>1. Len(s) = 3 * n
      BY <1>6, <2>1 DEF Groups, n
    <3>2. Ready(f[Len(flat)], s)
      <4>1. SubSeq(s, 1, 3 * n) = s
        BY ONLY <3>1, s \in Seq(0 .. 255), SubSeqFull
      <4> QED
        BY ONLY <1>11, <2>1, <4>1 DEF Got
    <3> QED
      BY <3>2 DEF AtQuantum, Ready
  <2>2. CASE ~(3 * n <= Len(s))
    BY <1>11, <2>2 DEF Got, Over
  <2> QED
    BY <2>1, <2>2
<1>13. f[Len(src)] = f[Len(flat)]
  <2>1. CASE Len(last) = 0
    BY <1>4, <1>6, <2>1
  <2>2. CASE Len(last) = 2 /\ last[1] > Pad /\ last[2] > Pad
    <3>1. PICK i, j : i = Len(flat) + 1 /\ j = Len(flat) + 2
      OBVIOUS
    <3>2. i \in 1 .. Len(src) /\ j \in 1 .. Len(src) /\ i - 1 = Len(flat) /\ j - 1 = i /\ Len(src) = j
      BY <1>4, <1>6, <2>2, <3>1
    <3>3. src[i] > Pad /\ src[j] > Pad
      BY <1>4, <2>2, <3>1
    <3>4. f[i] = f[Len(flat)] /\ f[j] = f[i]
      BY <1>7, <3>2, <3>3
    <3> QED
      BY <3>2, <3>4
  <2> QED
    BY <1>3, <2>1, <2>2
<1>14. Decoding(src) = f[Len(src)]
  BY <1>5 DEF Decodes
<1>15. DecodeBase64(src) = s
  BY <1>12, <1>13, <1>14 DEF DecodeBase64
<1> QED
  BY <1>15 DEF flat, src

(* What the encoders write is such a text, and as long as predicted.       *)
LEMMA LettersArePiece ==
  ASSUME NEW s \in Seq(0 .. 255), NEW g \in 1 .. Groups(s), NEW end, end \in {<< >>, CrLf}
  PROVE  /\ Piece(Letters(s, g) \o end, s, g)
         /\ Len(Letters(s, g) \o end) = 4 + IF end = CrLf THEN 2 ELSE 0
         /\ Letters(s, g) \o << >> = Letters(s, g)
<1>0. Len(s) \in Nat /\ g \in Nat /\ g >= 1 /\ 3 * g - 2 <= Len(s)
  <2>1. Len(s) \in Nat
    BY LenProperties
  <2> QED
    BY <2>1 DEF Groups
<1>1. ASSUME NEW i \in Nat, i > 0 PROVE ByteAt(s, i) \in 0 .. 255
  <2>1. CASE i <= Len(s)
    <3>1. s[i] \in 0 .. 255
      BY <1>0, <1>1, <2>1, ElementOfSeq
    <3> QED
      BY <2>1, <3>1 DEF ByteAt
  <2>2. CASE ~(i <= Len(s))
    BY <2>2 DEF ByteAt
  <2> QED
    BY <2>1, <2>2
<1>2. PICK a \in 0 .. 255, b \in 0 .. 255, c \in 0 .. 255 :
        a = ByteAt(s, 3 * g - 2) /\ b = ByteAt(s, 3 * g - 1) /\ c = ByteAt(s, 3 * g)
  <2>1. 3 * g - 2 \in Nat /\ 3 * g - 1 \in Nat /\ 3 * g \in Nat
        /\ 3 * g - 2 > 0 /\ 3 * g - 1 > 0 /\ 3 * g > 0
    BY <1>0
  <2> QED
    BY <1>1, <2>1
<1>3. PICK k \in Nat, l \in Nat, m \in Nat, n \in Nat : Letters(s, g) = <<k, l, m, n>>
  <2>1. a \div 4 \in Nat /\ (a % 4) * 16 + b \div 16 \in Nat /\ (b % 16) * 4 + c \div 64 \in Nat
        /\ c % 64 \in Nat /\ Pad \in Nat
    BY DEF Pad
  <2>2. PICK left : left = Len(s) - 3 * (g - 1)
    OBVIOUS
  <2>3. Letters(s, g) = <<a \div 4, (a % 4) * 16 + b \div 16,
                          IF left > 1 THEN (b % 16) * 4 + c \div 64 ELSE Pad,
                          IF left > 2 THEN c % 64 ELSE Pad>>
    BY ONLY <1>2, <2>2 DEF Letters
  <2> QED
    BY ONLY <2>1, <2>3
<1>4. Letters(s, g) \o << >> = Letters(s, g)
  <2>1. <<k, l, m, n>> \in Seq(Nat)
    OBVIOUS
  <2> QED
    BY <1>3, <2>1, ConcatEmptySeq
<1>5. CASE end = << >>
  <2>1. end # CrLf
    BY <1>5 DEF CrLf
  <2> QED
    BY <1>3, <1>4, <1>5, <2>1 DEF Piece
<1>6. CASE end = CrLf
  <2>0. PICK u, v : u = <<k, l, m, n>> /\ v = <<65, 66>>
    OBVIOUS
  <2>1. /\ u \in Seq(Nat) /\ Len(u) = 4 /\ u[1] = k /\ u[2] = l /\ u[3] = m /\ u[4] = n
        /\ v \in Seq(Nat) /\ Len(v) = 2 /\ v[1] = 65 /\ v[2] = 66
    BY <2>0
  <2>2. PICK w : w = Letters(s, g) \o end /\ w = u \o v
    BY ONLY <1>3, <1>6, <2>0 DEF CrLf
  <2>3. w \in Seq(Nat) /\ Len(w) = 6 /\ w[5] = 65 /\ w[6] = 66
        /\ w[1] = k /\ w[2] = l /\ w[3] = m /\ w[4] = n
    <3>1. /\ w \in Seq(Nat) /\ Len(w) = 4 + 2
          /\ \A i \in 1 .. 4 + 2 : w[i] = IF i <= 4 THEN u[i] ELSE v[i - 4]
      <4>1. /\ u \o v \in Seq(Nat) /\ Len(u \o v) = Len(u) + Len(v)
            /\ \A i \in 1 .. Len(u) + Len(v) :
                 (u \o v)[i] = IF i <= Len(u) THEN u[i] ELSE v[i - Len(u)]
        <5>1. u \in Seq(Nat) /\ v \in Seq(Nat)
          BY ONLY <2>1
        <5> QED
          BY ONLY <5>1, ConcatProperties
      <4> QED
        BY ONLY <2>1, <2>2, <4>1
    <3> QED
      BY ONLY <2>1, <3>1
  <2>4. \A j \in 1 .. 4 : w[j] = Letters(s, g)[j]
    BY <1>3, <2>3
  <2> QED
    <3>1. Piece(w, s, g)
      BY ONLY <2>3, <2>4 DEF Pad, Piece
    <3> QED
      BY ONLY <1>4, <1>6, <2>2, <2>3, <3>1
<1> QED
  BY <1>5, <1>6

LinePieces(s, groups) ==
  [g \in 1 .. Groups(s) |-> Letters(s, g) \o IF g % groups = 0 THEN CrLf ELSE << >>]
LEMMA GroupsIsNat ==
  ASSUME NEW s \in Seq(0 .. 255)
  PROVE  /\ Groups(s) \in Nat /\ Len(s) \in Nat /\ 3 * Groups(s) >= Len(s)
         /\ 3 * Groups(s) <= Len(s) + 2
<1>1. Len(s) \in Nat
  BY LenProperties
<1> QED
  BY <1>1 DEF Groups
LEMMA LinesArePieces ==
  ASSUME NEW s \in Seq(0 .. 255), NEW groups \in Nat \ {0}
  PROVE  /\ LinePieces(s, groups) \in Seq(Seq(Nat)) /\ Len(LinePieces(s, groups)) = Groups(s)
         /\ \A g \in 1 .. Groups(s) :
              /\ Piece(LinePieces(s, groups)[g], s, g)
              /\ Len(LinePieces(s, groups)[g]) = 4 + IF g % groups = 0 THEN 2 ELSE 0
<1>1. ASSUME NEW g \in 1 .. Groups(s)
      PROVE  /\ Piece(LinePieces(s, groups)[g], s, g)
             /\ Len(LinePieces(s, groups)[g]) = 4 + IF g % groups = 0 THEN 2 ELSE 0
  <2>1. PICK end : end = (IF g % groups = 0 THEN CrLf ELSE << >>) /\ end \in {<< >>, CrLf}
    BY Zenon
  <2>2. LinePieces(s, groups)[g] = Letters(s, g) \o end
    BY <2>1 DEF LinePieces
  <2>3. CrLf # << >>
    BY DEF CrLf
  <2>4. (end = CrLf) = (g % groups = 0)
    BY <2>1, <2>3
  <2> QED
    BY <2>1, <2>2, <2>4, LettersArePiece
<1>2. LinePieces(s, groups) \in Seq(Seq(Nat)) /\ Len(LinePieces(s, groups)) = Groups(s)
  <2>1. \A g \in 1 .. Groups(s) : LinePieces(s, groups)[g] \in Seq(Nat)
    BY <1>1 DEF Piece
  <2>2. LinePieces(s, groups) \in [1 .. Groups(s) -> Seq(Nat)]
    <3>1. LinePieces(s, groups) = [g \in 1 .. Groups(s) |-> LinePieces(s, groups)[g]]
      BY DEF LinePieces
    <3> QED
      BY <2>1, <3>1
  <2> QED
    <3>1. Groups(s) \in Nat
      BY GroupsIsNat
    <3>2. PICK n, ps : n = Groups(s) /\ ps = LinePieces(s, groups)
      OBVIOUS
    <3>3. ps \in [1 .. n -> Seq(Nat)] /\ n \in Nat
      BY ONLY <2>2, <3>1, <3>2
    <3>4. ps \in Seq(Seq(Nat)) /\ Len(ps) = n
      BY ONLY <3>3
    <3> QED
      BY ONLY <3>2, <3>4
<1> QED
  BY <1>1, <1>2
LEMMA LinesAreRead ==
  ASSUME NEW s \in Seq(0 .. 255), NEW groups \in Nat \ {0}, NEW last, last \in {<< >>, CrLf}
  PROVE  DecodeBase64(InLines(s, groups) \o last) = s
<1>1. InLines(s, groups) = FlattenSeq(LinePieces(s, groups))
  BY DEF InLines, LinePieces
<1>2. PICK ps : /\ ps = LinePieces(s, groups) /\ ps \in Seq(Seq(Nat)) /\ Len(ps) = Groups(s)
                /\ \A g \in 1 .. Groups(s) : Piece(ps[g], s, g)
  BY LinesArePieces
<1>3. DecodeBase64(FlattenSeq(ps) \o last) = s
  BY ONLY <1>2, s \in Seq(0 .. 255), last \in {<< >>, CrLf}, TextIsDecoded
<1> QED
  BY ONLY <1>1, <1>2, <1>3

LEMMA LinesAreLong ==
  ASSUME NEW s \in Seq(0 .. 255)
  PROVE  Len(InLines(s, 15) \o CrLf) = EncodedLength(s)
<1> DEFINE ps == LinePieces(s, 15)
           n == Groups(s)
<1>1. /\ ps \in Seq(Seq(Nat)) /\ Len(ps) = n /\ n \in Nat
      /\ \A g \in 1 .. n : Len(ps[g]) = 4 + IF g % 15 = 0 THEN 2 ELSE 0
  <2>1. 15 \in Nat \ {0}
    OBVIOUS
  <2> QED
    BY ONLY s \in Seq(0 .. 255), <2>1, LinesArePieces, GroupsIsNat
<1>2. InLines(s, 15) = FlattenSeq(ps)
  BY DEF InLines, LinePieces
<1> HIDE DEF ps, n
<1>3. FlattenSeq(ps) \in Seq(Nat)
  BY <1>1, Flattened
<1>4. PICK at : Placed(FlattenSeq(ps), ps, at)
  BY <1>1, Flattened
<1> DEFINE T == {g \in Nat : g <= n => at[g] = 4 * g + 2 * (g \div 15)}
<1>5. 0 \in T
  BY <1>4 DEF Placed
<1>6. ASSUME NEW g \in Nat, g \in T PROVE g + 1 \in T
  <2> SUFFICES ASSUME g + 1 <= n PROVE at[g + 1] = 4 * (g + 1) + 2 * ((g + 1) \div 15)
    OBVIOUS
  <2>1. PICK h : h = g + 1 /\ h \in 1 .. n /\ h - 1 = g /\ g <= n
    BY <1>1
  <2>2. at[h] = at[g] + Len(ps[h])
    BY <1>1, <1>4, <2>1 DEF Placed
  <2>3. at[g] = 4 * g + 2 * (g \div 15)
    BY <1>6, <2>1
  <2>4. Len(ps[h]) = 4 + IF h % 15 = 0 THEN 2 ELSE 0
    BY <1>1, <2>1
  <2>5. h \div 15 = (g \div 15) + IF h % 15 = 0 THEN 1 ELSE 0
    BY ONLY g \in Nat, <2>1
  <2>6. PICK q \in Nat : q = g \div 15
    OBVIOUS
  <2>7. at[h] = 4 * h + 2 * (h \div 15)
    BY <2>1, <2>2, <2>3, <2>4, <2>5, <2>6
  <2> QED
    BY <2>1, <2>7
<1> HIDE DEF T
<1>7. n \in T
  BY <1>1, <1>5, <1>6, Induct
<1>8. Len(FlattenSeq(ps)) = 4 * n + 2 * (n \div 15)
  BY <1>1, <1>4, <1>7 DEF Placed, T
<1>9. Len(FlattenSeq(ps) \o CrLf) = Len(FlattenSeq(ps)) + 2
  <2>1. CrLf \in Seq(Nat) /\ Len(CrLf) = 2
    BY DEF CrLf
  <2> QED
    <3>1. PICK u \in Seq(Nat), v \in Seq(Nat) : u = FlattenSeq(ps) /\ v = CrLf
      BY <1>3, <2>1
    <3>2. Len(u \o v) = Len(u) + Len(v)
      BY ONLY u \in Seq(Nat), v \in Seq(Nat), ConcatProperties
    <3> QED
      BY ONLY <2>1, <3>1, <3>2
<1>10. (4 * n) \div 60 = n \div 15
  BY <1>1
<1>11. PICK q \in Nat : q = n \div 15
  BY <1>1
<1> QED
  <2>1. EncodedLength(s) = 4 * n + 2 * ((4 * n) \div 60 + 1)
    BY DEF EncodedLength, n
  <2>2. EncodedLength(s) = 4 * n + 2 * (q + 1)
    BY <1>10, <1>11, <2>1, Zenon
  <2>3. Len(FlattenSeq(ps) \o CrLf) = 4 * n + 2 * q + 2
    BY <1>8, <1>9, <1>11, Zenon
  <2> QED
    BY ONLY <1>1, <1>2, <1>11, <2>2, <2>3

LEMMA Base64ComesBack ==
  ASSUME NEW s \in Seq(0 .. 255)
  PROVE  Base64RoundTrip(s)
<1>1. DecodeBase64(EncodeBase64(s)) = s
  <2>1. EncodeBase64(s) = InLines(s, 15) \o CrLf
    BY LinesAreLong DEF EncodeBase64
  <2>2. DecodeBase64(InLines(s, 15) \o CrLf) = s
    BY LinesAreRead
  <2> QED
    BY <2>1, <2>2
<1>2. DecodeBase64(MimeEncode(s)) = s
  <2>1. PICK last : last = (IF Groups(s) % 18 # 0 THEN CrLf ELSE << >>) /\ last \in {<< >>, CrLf}
    BY Zenon
  <2>2. MimeEncode(s) = InLines(s, 18) \o last
    BY <2>1 DEF MimeEncode
  <2>3. DecodeBase64(InLines(s, 18) \o last) = s
    BY <2>1, LinesAreRead
  <2> QED
    BY <2>2, <2>3
<1>3. ASSUME s # << >> PROVE DecodeBase64(EncodeNoFormat(s)) = s
  <2> DEFINE ps == [g \in 1 .. Groups(s) |-> Letters(s, g)]
  <2>1. EncodeNoFormat(s) = FlattenSeq(ps)
    BY <1>3 DEF EncodeNoFormat
  <2>2. ASSUME NEW g \in 1 .. Groups(s) PROVE Piece(ps[g], s, g)
    <3>1. ps[g] = Letters(s, g) \o << >>
      BY LettersArePiece
    <3> HIDE DEF ps
    <3> QED
      BY <3>1, LettersArePiece
  <2>3. ps \in Seq(Seq(Nat)) /\ Len(ps) = Groups(s)
    <3>1. PICK n \in Nat : n = Groups(s)
      BY GroupsIsNat
    <3>2. \A g \in 1 .. n : ps[g] \in Seq(Nat)
      BY <2>2, <3>1 DEF Piece
    <3>3. ps = [g \in 1 .. n |-> ps[g]]
      BY <3>1
    <3> HIDE DEF ps
    <3>4. ps \in [1 .. n -> Seq(Nat)]
      BY <3>2, <3>3
    <3>5. PICK qs : qs = ps
      OBVIOUS
    <3>6. qs \in Seq(Seq(Nat)) /\ Len(qs) = n
      BY ONLY <3>4, <3>5, n \in Nat
    <3> QED
      BY <3>1, <3>5, <3>6
  <2> HIDE DEF ps
  <2>4. DecodeBase64(FlattenSeq(ps) \o << >>) = s
    BY <2>2, <2>3, TextIsDecoded
  <2>5. FlattenSeq(ps) \o << >> = FlattenSeq(ps)
    <3>1. FlattenSeq(ps) \in Seq(Nat)
      BY <2>3, Flattened
    <3> QED
      BY <3>1, ConcatEmptySeq
  <2> QED
    BY <2>1, <2>4, <2>5
<1> QED
  BY <1>1, <1>2, <1>3 DEF Base64RoundTrip

-----------------------------------------------------------------------------
(* Hexadecimal text.                                                       *)

(* The states that the reader of hexadecimal text goes through.            *)
HexStates == [next : Nat, out : Seq(Nat)]
LEMMA HexStays ==
  ASSUME NEW st \in HexStates, NEW text \in Seq(Nat), NEW i \in 1 .. Len(text)
  PROVE  HexChar(st, text, i) \in HexStates
<1>1. Len(text) \in Nat /\ i + 1 \in Nat /\ i + 2 \in Nat
  BY LenProperties
<1>2. CASE HexChar(st, text, i) = st
  BY <1>2
<1>3. ASSUME NEW q \in Nat, HexChar(st, text, i) = [st EXCEPT !.next = q]
      PROVE  HexChar(st, text, i) \in HexStates
  BY <1>3 DEF HexStates
<1>4. CASE /\ IsXdigit(text, i) /\ IsXdigit(text, i + 1)
           /\ HexChar(st, text, i)
                = [next |-> i + 2, out |-> Append(st.out, text[i] * 16 + text[i + 1])]
  <2>1. text[i] \in Nat /\ text[i + 1] \in Nat
    <3>1. i + 1 \in 1 .. Len(text)
      BY ONLY <1>1, <1>4, i \in 1 .. Len(text) DEF IsXdigit
    <3> QED
      BY ONLY <3>1, i \in 1 .. Len(text), text \in Seq(Nat), ElementOfSeq
  <2>2. st.out \in Seq(Nat)
    BY DEF HexStates
  <2>3. PICK b : b = text[i] * 16 + text[i + 1] /\ b \in Nat
    BY <2>1
  <2>4. Append(st.out, b) \in Seq(Nat)
    BY <2>2, <2>3, AppendProperties
  <2> QED
    BY <1>1, <1>4, <2>3, <2>4 DEF HexStates
<1> QED
  BY <1>1, <1>2, <1>3, <1>4 DEF HexChar

FirstHex(text) == IF Len(text) >= 2 /\ text[1] = 0 /\ text[2] = X THEN 3 ELSE 1
ReadsHex(f, text) ==
  /\ f \in [0 .. Len(text) -> HexStates]
  /\ f[0] = [next |-> FirstHex(text), out |-> << >>]
  /\ \A i \in 1 .. Len(text) : f[i] = HexChar(f[i - 1], text, i)
  /\ Len(text) >= 2 => HexToBin(text) = f[Len(text)].out
LEMMA HexRead ==
  ASSUME NEW text \in Seq(Nat)
  PROVE  \E f : ReadsHex(f, text)
<1> DEFINE n == Len(text)
           first == IF Len(text) >= 2 /\ text[1] = 0 /\ text[2] = X THEN 3 ELSE 1
           x0 == [next |-> first, out |-> << >>]
           step == [x \in HexStates \X Nat |->
                      IF x[2] \in 1 .. n THEN HexChar(x[1], text, x[2]) ELSE x0]
           F(f) == [i \in 0 .. n |-> IF i = 0 THEN x0 ELSE HexChar(f[i - 1], text, i)]
           f == CHOOSE f : f = F(f)
<1>1. n \in Nat
  BY LenProperties
<1>2. x0 \in HexStates
  BY EmptySeq DEF HexStates
<1>3. step \in [HexStates \X Nat -> HexStates]
  BY <1>2, HexStays
<1>9. n >= 2 => HexToBin(text) = f[n].out
  BY <1>1 DEF HexToBin
<1>0. x0 = [next |-> FirstHex(text), out |-> << >>]
  BY DEF FirstHex
<1> HIDE DEF step, x0
<1>4. PICK g \in [0 .. n -> HexStates] : Runs(g, n, x0, step)
  BY <1>1, <1>2, <1>3, Recursion
<1>5. ASSUME NEW i \in 1 .. n PROVE g[i] = HexChar(g[i - 1], text, i)
  <2>1. i - 1 \in 0 .. n /\ i \in Nat
    BY <1>1
  <2>2. g[i] = step[g[i - 1], i]
    BY ONLY <1>4, i \in 1 .. n DEF Runs
  <2>3. g[i - 1] \in HexStates
    BY ONLY <2>1, g \in [0 .. n -> HexStates]
  <2> QED
    BY <2>1, <2>2, <2>3 DEF step
<1>6. g[0] = x0
  BY <1>4 DEF Runs
<1>7. g = F(g)
  <2>1. ASSUME NEW i \in 0 .. n
        PROVE  g[i] = IF i = 0 THEN x0 ELSE HexChar(g[i - 1], text, i)
    <3>1. CASE i = 0
      BY <1>6, <3>1
    <3>2. CASE i # 0
      <4>1. i \in 1 .. n
        BY <1>1, <3>2
      <4> QED
        BY <1>5, <3>2, <4>1
    <3> QED
      BY <3>1, <3>2
  <2> QED
    BY <2>1
<1>8. f = F(f)
  BY <1>7
<1> HIDE DEF f
<1>10. \A i \in 0 .. n : f[i] = g[i]
  <2>1. f[0] = g[0]
    BY <1>1, <1>6, <1>8
  <2>2. ASSUME NEW i \in 1 .. n, f[i - 1] = g[i - 1] PROVE f[i] = g[i]
    <3>1. i \in 0 .. n /\ i # 0
      BY <1>1
    <3> QED
      BY <1>5, <1>8, <2>2, <3>1
  <2> QED
    <3>1. StepAlike(f, g, n)
      BY ONLY <1>1, <2>1, <2>2 DEF StepAlike
    <3> QED
      BY ONLY <3>1, SameSteps
<1> QED
  BY <1>0, <1>1, <1>4, <1>5, <1>6, <1>9, <1>10 DEF ReadsHex

(* Two digits are one byte, and a separator is passed.                     *)
AtHex(st, i, out) == st = [next |-> i + 1, out |-> out]
HexPiece(w, s, i) ==
  /\ w \in Seq(Nat) /\ w[1] = s[i] \div 16 /\ w[2] = s[i] % 16
  /\ \/ Len(w) = 2
     \/ Len(w) = 3 /\ w[3] = Separator
ReadsByte(f, text, p, b, out) ==
  /\ text \in Seq(Nat) /\ ReadsHex(f, text) /\ p \in Nat /\ p + 2 <= Len(text)
  /\ b \in 0 .. 255 /\ text[p + 1] = b \div 16 /\ text[p + 2] = b % 16
  /\ AtHex(f[p], p, out)
LEMMA ByteIsRead ==
  ASSUME NEW f, NEW text, NEW p, NEW b, NEW out, ReadsByte(f, text, p, b, out)
  PROVE  AtHex(f[p + 2], p + 2, Append(out, b))
<1> USE DEF ReadsByte
<1>1. PICK i, j : i = p + 1 /\ j = p + 2
  OBVIOUS
<1>2. Len(text) \in Nat
  BY LenProperties
<1>3. /\ i \in 1 .. Len(text) /\ j \in 1 .. Len(text) /\ i - 1 = p /\ j - 1 = i /\ i + 1 = j
      /\ i <= Len(text) /\ j <= Len(text) /\ i # j /\ i + 2 # j
  BY <1>1, <1>2
<1>4. PICK h \in 0 .. 15, l \in 0 .. 15 : h = b \div 16 /\ l = b % 16 /\ h * 16 + l = b
  OBVIOUS
<1>5. text[i] = h /\ text[j] = l
  BY <1>1, <1>4
<1>6. f[p] = [next |-> i, out |-> out]
  BY <1>1 DEF AtHex
<1>7. f[i] = HexChar(f[p], text, i) /\ f[j] = HexChar(f[i], text, j)
  BY <1>3 DEF ReadsHex
<1>8. text[i] # Separator /\ IsXdigit(text, i) /\ IsXdigit(text, j)
  BY <1>3, <1>5 DEF IsXdigit, Separator
<1>9. f[i] = [next |-> i + 2, out |-> Append(out, text[i] * 16 + text[j])]
  <2>1. f[p].next = i /\ f[p].out = out
    BY <1>6
  <2> QED
    BY ONLY <1>3, <1>7, <1>8, <2>1 DEF HexChar
<1>10. f[i] = [next |-> i + 2, out |-> Append(out, b)]
  BY ONLY <1>4, <1>5, <1>9
<1>11. f[j] = f[i]
  BY ONLY <1>3, <1>7, <1>10 DEF HexChar
<1>12. i + 2 = j + 1
  BY <1>1
<1> QED
  BY <1>1, <1>10, <1>11, <1>12 DEF AtHex
PassesSeparator(f, text, p, out) ==
  /\ text \in Seq(Nat) /\ ReadsHex(f, text) /\ p \in Nat /\ p + 1 <= Len(text)
  /\ text[p + 1] = Separator /\ AtHex(f[p], p, out)
LEMMA SeparatorIsPassed ==
  ASSUME NEW f, NEW text, NEW p, NEW out, PassesSeparator(f, text, p, out)
  PROVE  AtHex(f[p + 1], p + 1, out)
<1> USE DEF PassesSeparator
<1>1. PICK i : i = p + 1
  OBVIOUS
<1>2. Len(text) \in Nat
  BY LenProperties
<1>3. i \in 1 .. Len(text) /\ i - 1 = p
  BY <1>1, <1>2
<1>4. f[p] = [next |-> i, out |-> out]
  BY <1>1 DEF AtHex
<1>5. f[i] = HexChar(f[p], text, i)
  BY <1>3 DEF ReadsHex
<1>6. f[i] = [f[p] EXCEPT !.next = i + 1]
  BY <1>1, <1>4, <1>5 DEF HexChar
<1>7. f[i] = [next |-> i + 1, out |-> out]
  BY ONLY <1>4, <1>6
<1> QED
  BY <1>1, <1>7 DEF AtHex

LEMMA HexIsRead ==
  ASSUME NEW s \in Seq(0 .. 255), s # << >>, NEW pieces \in Seq(Seq(Nat)), Len(pieces) = Len(s),
         \A i \in 1 .. Len(s) : HexPiece(pieces[i], s, i),
         NEW front, front \in {<< >>, <<0, X>>}
  PROVE  HexToBin(front \o FlattenSeq(pieces)) = s
<1> DEFINE flat == FlattenSeq(pieces)
           text == front \o flat
           n == Len(s)
           o == Len(front)
<1>1. flat \in Seq(Nat) /\ \E at : Placed(flat, pieces, at)
  BY Flattened
<1>2. PICK at : Placed(flat, pieces, at)
  BY <1>1
<1>3. front \in Seq(Nat) /\ ((o = 2 /\ front[1] = 0 /\ front[2] = X) \/ o = 0)
  <2>1. CASE front = << >>
    BY <2>1
  <2>2. CASE front = <<0, X>>
    BY <2>2 DEF X
  <2> QED
    BY <2>1, <2>2
<1>4. /\ n \in Nat /\ n > 0 /\ Len(flat) \in Nat /\ o \in Nat
      /\ \A i \in 1 .. n : s[i] \in 0 .. 255
  <2>1. n \in Nat /\ n > 0
    <3>1. n \in Nat /\ n # 0
      BY EmptySeq, LenProperties
    <3> QED
      BY ONLY <3>1
  <2>2. Len(flat) \in Nat
    BY <1>1, LenProperties
  <2>3. o \in Nat
    BY ONLY <1>3
  <2>4. \A i \in 1 .. n : s[i] \in 0 .. 255
    BY ElementOfSeq
  <2> HIDE DEF o, n, flat
  <2> QED
    BY <2>1, <2>2, <2>3, <2>4
<1> HIDE DEF flat, o
<1>5. /\ text \in Seq(Nat) /\ Len(text) = o + Len(flat)
      /\ \A i \in 1 .. o : text[i] = front[i]
      /\ \A i \in 1 .. Len(flat) : text[o + i] = flat[i]
  <2>1. /\ text \in Seq(Nat) /\ Len(text) = o + Len(flat)
        /\ \A i \in 1 .. Len(text) : text[i] = IF i <= o THEN front[i] ELSE flat[i - o]
    BY <1>1, <1>3, ConcatProperties DEF o
  <2> HIDE DEF text
  <2>2. ASSUME NEW i \in 1 .. Len(flat) PROVE text[o + i] = flat[i]
    <3>1. PICK j : j = o + i
      OBVIOUS
    <3>2. j \in 1 .. Len(text) /\ ~(j <= o) /\ j - o = i
      BY <1>4, <2>1, <3>1
    <3>3. text[j] = flat[i]
      BY <2>1, <3>2
    <3> QED
      BY <3>1, <3>3
  <2>3. ASSUME NEW i \in 1 .. o PROVE text[i] = front[i]
    <3>1. i \in 1 .. Len(text) /\ i <= o
      BY <1>4, <2>1
    <3> QED
      BY <2>1, <3>1
  <2> QED
    BY <2>1, <2>2, <2>3
<1> HIDE DEF text, n
<1>6. PICK f : ReadsHex(f, text)
  BY <1>5, HexRead
<1>7. ASSUME NEW g \in 0 .. n - 1
      PROVE  /\ g + 1 \in 1 .. n /\ at[g] \in Nat /\ HexPiece(pieces[g + 1], s, g + 1)
             /\ at[g + 1] = at[g] + Len(pieces[g + 1]) /\ at[g + 1] <= Len(flat)
             /\ at[g] + 2 <= at[g + 1]
             /\ \A k \in 1 .. Len(pieces[g + 1]) : text[o + at[g] + k] = pieces[g + 1][k]
  <2>1. PICK h : h = g + 1
    OBVIOUS
  <2>2. h \in 1 .. n /\ h - 1 = g /\ g \in 0 .. n /\ h \in 0 .. n /\ n = Len(pieces)
    BY <1>4, <2>1 DEF n
  <2>3. PICK p \in Nat, q \in Nat : p = at[g] /\ q = at[h]
    BY <1>2, <2>2 DEF Placed
  <2>4. PICK w : w = pieces[h] /\ HexPiece(w, s, h)
    BY <2>2 DEF n
  <2>5. Len(w) \in {2, 3}
    BY ONLY <2>4 DEF HexPiece
  <2>6. q = p + Len(w) /\ q <= Len(flat) /\ \A k \in 1 .. Len(w) : flat[p + k] = w[k]
    BY <1>2, <2>2, <2>3, <2>4 DEF Placed
  <2>0. q = p + Len(w) /\ q <= Len(flat)
    BY <2>6
  <2>7. ASSUME NEW k \in 1 .. Len(w) PROVE text[o + p + k] = w[k]
    <3>1. PICK i : i = p + k
      OBVIOUS
    <3>2. i \in 1 .. Len(flat) /\ o + p + k = o + i
      BY ONLY <1>4, <2>0, <2>5, <3>1, p \in Nat, q \in Nat, k \in 1 .. Len(w)
    <3>3. text[o + i] = flat[i] /\ flat[i] = w[k]
      BY <1>5, <2>6, <3>1, <3>2
    <3> QED
      BY <3>2, <3>3
  <2>8. p + 2 <= q
    <3>1. CASE Len(w) = 2
      BY ONLY <2>0, <3>1, p \in Nat
    <3>2. CASE Len(w) = 3
      BY ONLY <2>0, <3>2, p \in Nat
    <3> QED
      BY ONLY <2>5, <3>1, <3>2
  <2> QED
    BY <2>1, <2>2, <2>3, <2>4, <2>6, <2>7, <2>8
<1>8. Len(text) >= 2 /\ FirstHex(text) = o + 1
  <2>1. PICK w : w = pieces[1] /\ HexPiece(w, s, 1) /\ at[0] = 0 /\ Len(w) \in Nat
                 /\ 2 <= Len(w) /\ Len(w) <= Len(flat) /\ \A k \in 1 .. Len(w) : text[o + 0 + k] = w[k]
    <3>1. 0 \in 0 .. n - 1 /\ 0 + 1 = 1
      BY <1>4
    <3>2. at[0] = 0
      BY <1>2 DEF Placed
    <3>3. Len(pieces[1]) \in {2, 3}
      BY ONLY <1>7, <3>1 DEF HexPiece
    <3>4. at[0 + 1] = 0 + Len(pieces[1]) /\ at[0 + 1] <= Len(flat)
      BY <1>7, <3>1, <3>2
    <3> QED
      BY <1>7, <3>1, <3>2, <3>3, <3>4
  <2>2. Len(text) >= 2
    BY <1>4, <1>5, <2>1
  <2>3. CASE o = 2 /\ front[1] = 0 /\ front[2] = X
    <3>1. text[1] = 0 /\ text[2] = X
      BY <1>5, <2>3
    <3> QED
      BY <2>2, <2>3, <3>1 DEF FirstHex
  <2>4. CASE o = 0
    <3>1. text[2] = s[1] % 16
      <4>1. 2 \in 1 .. Len(w) /\ o + 0 + 2 = 2
        BY <2>1, <2>4
      <4>2. w[2] = s[1] % 16
        BY ONLY <2>1 DEF HexPiece
      <4> QED
        BY <2>1, <4>1, <4>2
    <3>2. s[1] \in 0 .. 255
      BY <1>4
    <3>3. text[2] # X
      <4>1. PICK b \in 0 .. 255 : b = s[1]
        BY <3>2
      <4>2. b % 16 # 16
        BY ONLY b \in 0 .. 255
      <4> QED
        BY ONLY <3>1, <4>1, <4>2 DEF X
    <3> QED
      BY ONLY <2>2, <2>4, <3>3 DEF FirstHex
  <2> QED
    BY <1>3, <2>2, <2>3, <2>4
<1> DEFINE T == {g \in Nat : g <= n => AtHex(f[o + at[g]], o + at[g], SubSeq(s, 1, g))}
<1>9. 0 \in T
  <2>1. at[0] = 0 /\ SubSeq(s, 1, 0) = << >>
    BY <1>2, SubSeqEmpty DEF Placed
  <2>2. f[0] = [next |-> o + 1, out |-> << >>]
    BY <1>6, <1>8 DEF ReadsHex
  <2>3. f[o] = f[0]
    <3>1. CASE o = 0
      BY <3>1
    <3>2. CASE o = 2
      <4>1. 1 \in 1 .. Len(text) /\ 2 \in 1 .. Len(text) /\ 1 - 1 = 0 /\ 2 - 1 = 1
        BY <1>4, <1>5, <3>2
      <4>2. f[1] = HexChar(f[0], text, 1) /\ f[2] = HexChar(f[1], text, 2)
        BY <1>6, <4>1 DEF ReadsHex
      <4>3. f[0].next = 3
        BY <2>2, <3>2
      <4>4. f[1] = f[0]
        BY <4>2, <4>3 DEF HexChar
      <4>5. f[2] = f[0]
        BY <4>2, <4>3, <4>4 DEF HexChar
      <4> QED
        BY <3>2, <4>5
    <3> QED
      BY <1>3, <3>1, <3>2
  <2>4. o + 0 = o
    BY <1>4
  <2>5. AtHex(f[o + at[0]], o + at[0], SubSeq(s, 1, 0))
    BY <2>1, <2>2, <2>3, <2>4 DEF AtHex
  <2> QED
    BY <2>5
<1>10. ASSUME NEW g \in Nat, g \in T PROVE g + 1 \in T
  <2> SUFFICES ASSUME g + 1 <= n
               PROVE  AtHex(f[o + at[g + 1]], o + at[g + 1], SubSeq(s, 1, g + 1))
    OBVIOUS
  <2>1. g \in 0 .. n - 1 /\ g <= n
    BY <1>4
  <2>2. PICK p, q, h, w : h = g + 1 /\ p = o + at[g] /\ q = o + at[h] /\ w = pieces[h]
    OBVIOUS
  <2>3. p \in Nat /\ HexPiece(w, s, h) /\ h \in 1 .. n
    <3>1. g + 1 \in 1 .. n /\ at[g] \in Nat /\ HexPiece(pieces[g + 1], s, g + 1)
      BY <1>7, <2>1
    <3>2. o + at[g] \in Nat
      BY <1>4, <3>1
    <3> QED
      BY ONLY <2>2, <3>1, <3>2
  <2>4. Len(w) \in {2, 3}
    BY ONLY <2>3 DEF HexPiece
  <2>5. q = p + Len(w) /\ q <= Len(text) /\ \A k \in 1 .. Len(w) : text[p + k] = w[k]
    <3>1. at[g] \in Nat /\ at[h] = at[g] + Len(w) /\ at[h] <= Len(flat)
      BY <1>7, <2>1, <2>2
    <3>2. \A k \in 1 .. Len(w) : text[p + k] = w[k]
      BY <1>7, <2>1, <2>2
    <3>3. q = p + Len(w) /\ q <= Len(text)
      <4>1. PICK u \in Nat, l \in {2, 3}, v, e \in Nat :
               u = at[g] /\ l = Len(w) /\ v = at[h] /\ e = Len(flat)
        BY ONLY <1>4, <2>4, <3>1
      <4>2. v = u + l /\ v <= e /\ Len(text) = o + e /\ p = o + u /\ q = o + v /\ o \in Nat
        BY <1>4, <1>5, <2>2, <3>1, <4>1
      <4> QED
        <5>1. v \in Nat /\ q = o + u + l /\ p = o + u /\ q <= Len(text)
          BY ONLY <4>2, u \in Nat, l \in {2, 3}, e \in Nat
        <5> QED
          BY ONLY <4>1, <4>2, <5>1
    <3> QED
      BY <3>2, <3>3
  <2>6. PICK out : out = SubSeq(s, 1, g) /\ AtHex(f[p], p, out)
    BY <1>10, <2>1, <2>2
  <2>7. PICK b \in 0 .. 255 : b = s[h]
    BY <1>4, <2>3
  <2>8. Append(out, b) = SubSeq(s, 1, h)
    BY <2>2, <2>6, <2>7, PrefixGrows DEF n
  <2>9. AtHex(f[p + 2], p + 2, Append(out, b))
    <3>1. 1 \in 1 .. Len(w) /\ 2 \in 1 .. Len(w) /\ p + 2 <= Len(text)
      <4>1. Len(text) \in Nat
        BY <1>5, LenProperties
      <4> QED
        <5>1. q = p + Len(w) /\ q <= Len(text) /\ p \in Nat
          BY <2>3, <2>5
        <5> QED
          <6>1. CASE Len(w) = 2
            BY ONLY <4>1, <5>1, <6>1
          <6>2. CASE Len(w) = 3
            BY ONLY <4>1, <5>1, <6>2
          <6> QED
            BY ONLY <2>4, <6>1, <6>2
    <3>2. w[1] = b \div 16 /\ w[2] = b % 16
      BY ONLY <2>3, <2>7 DEF HexPiece
    <3>3. text[p + 1] = b \div 16 /\ text[p + 2] = b % 16
      BY ONLY <2>5, <3>1, <3>2
    <3>4. ReadsByte(f, text, p, b, out)
      BY ONLY <1>5, <1>6, <2>3, <2>6, <3>1, <3>3, b \in 0 .. 255 DEF ReadsByte
    <3> QED
      BY ONLY <3>4, ByteIsRead
  <2>10. AtHex(f[q], q, Append(out, b))
    <3>1. CASE Len(w) = 2
      BY ONLY <2>5, <2>9, <3>1
    <3>2. CASE Len(w) = 3 /\ w[3] = Separator
      <4>1. PICK r : r = p + 2 /\ r \in Nat /\ r + 1 = q /\ r + 1 = p + 3
        BY ONLY <2>3, <2>5, <3>2
      <4>2. 3 \in 1 .. Len(w)
        BY ONLY <3>2
      <4>3. text[r + 1] = Separator
        BY ONLY <2>5, <3>2, <4>1, <4>2
      <4>4. PassesSeparator(f, text, r, Append(out, b))
        BY ONLY <1>5, <1>6, <2>5, <2>9, <4>1, <4>3 DEF PassesSeparator
      <4> QED
        BY ONLY <4>1, <4>4, SeparatorIsPassed
    <3> QED
      BY ONLY <2>3, <3>1, <3>2 DEF HexPiece
  <2> QED
    BY ONLY <2>2, <2>8, <2>10
<1> HIDE DEF T
<1>11. n \in T
  BY <1>4, <1>9, <1>10, Induct
<1>12. AtHex(f[Len(text)], Len(text), SubSeq(s, 1, n))
  BY <1>2, <1>5, <1>11, <1>4 DEF Placed, T, n
<1>13. f[Len(text)].out = s
  BY <1>12, SubSeqFull DEF AtHex, n
<1>14. HexToBin(text) = s
  BY <1>6, <1>8, <1>13 DEF ReadsHex
<1> QED
  BY <1>14 DEF flat, text

DigitPieces(s) == [i \in 1 .. Len(s) |-> <<s[i] \div 16, s[i] % 16>>]
IsPieces(ps, s) ==
  /\ ps \in Seq(Seq(Nat)) /\ Len(ps) = Len(s) /\ \A i \in 1 .. Len(s) : HexPiece(ps[i], s, i)
LEMMA PiecesOf ==
  ASSUME NEW s \in Seq(0 .. 255), NEW ps, ps = [i \in 1 .. Len(s) |-> ps[i]],
         \A i \in 1 .. Len(s) : HexPiece(ps[i], s, i)
  PROVE  IsPieces(ps, s)
<1>1. PICK n \in Nat : n = Len(s)
  BY LenProperties
<1>2. \A i \in 1 .. n : ps[i] \in Seq(Nat)
  BY <1>1 DEF HexPiece
<1>3. ps = [i \in 1 .. n |-> ps[i]]
  BY <1>1
<1>4. ps \in [1 .. n -> Seq(Nat)]
  BY ONLY <1>2, <1>3
<1>5. ps \in Seq(Seq(Nat)) /\ Len(ps) = n
  BY ONLY <1>4, n \in Nat
<1> QED
  BY <1>1, <1>5 DEF IsPieces
LEMMA DigitsArePieces ==
  ASSUME NEW s \in Seq(0 .. 255)
  PROVE  IsPieces(DigitPieces(s), s) /\ \A i \in 1 .. Len(s) : Len(DigitPieces(s)[i]) = 2
<1> DEFINE ps == DigitPieces(s)
<1>1. ASSUME NEW i \in 1 .. Len(s) PROVE HexPiece(ps[i], s, i) /\ Len(ps[i]) = 2
  <2>1. PICK b \in 0 .. 255 : b = s[i]
    BY ElementOfSeq, LenProperties
  <2>2. PICK h \in Nat, l \in Nat : h = b \div 16 /\ l = b % 16
    OBVIOUS
  <2>3. ps[i] = <<h, l>>
    BY <2>1, <2>2 DEF DigitPieces
  <2>4. PICK w : w = <<h, l>>
    OBVIOUS
  <2>5. w \in Seq(Nat) /\ Len(w) = 2 /\ w[1] = h /\ w[2] = l
    BY <2>4
  <2>6. HexPiece(w, s, i)
    BY ONLY <2>1, <2>2, <2>5 DEF HexPiece
  <2> QED
    BY ONLY <2>3, <2>4, <2>5, <2>6
<1>2. ps = [i \in 1 .. Len(s) |-> ps[i]]
  BY DEF DigitPieces
<1> HIDE DEF ps
<1>3. IsPieces(ps, s)
  BY <1>1, <1>2, PiecesOf
<1> QED
  BY <1>1, <1>3 DEF ps
LEMMA DigitsOfByte ==
  ASSUME NEW s \in Seq(0 .. 255), NEW i \in 1 .. Len(s)
  PROVE  /\ SubSeq(BinaryToHex(s), 2 * i - 1, 2 * i) \in Seq(Nat)
         /\ Len(SubSeq(BinaryToHex(s), 2 * i - 1, 2 * i)) = 2
         /\ SubSeq(BinaryToHex(s), 2 * i - 1, 2 * i)[1] = s[i] \div 16
         /\ SubSeq(BinaryToHex(s), 2 * i - 1, 2 * i)[2] = s[i] % 16
<1>1. PICK hex, ps : hex = BinaryToHex(s) /\ ps = DigitPieces(s) /\ hex = FlattenSeq(ps)
  BY DEF BinaryToHex, DigitPieces
<1>2. IsPieces(ps, s) /\ \A j \in 1 .. Len(s) : Len(ps[j]) = 2
  BY <1>1, DigitsArePieces
<1>3. PICK at : Placed(hex, ps, at)
  BY <1>1, <1>2, Flattened DEF IsPieces
<1>4. hex \in Seq(Nat)
  BY <1>1, <1>2, Flattened DEF IsPieces
<1>5. PICK n \in Nat : n = Len(s) /\ n = Len(ps)
  BY <1>2, LenProperties DEF IsPieces
<1> DEFINE T == {g \in Nat : g <= n => at[g] = 2 * g}
<1>6. 0 \in T
  BY <1>3 DEF Placed
<1>7. ASSUME NEW g \in Nat, g \in T PROVE g + 1 \in T
  <2> SUFFICES ASSUME g + 1 <= n PROVE at[g + 1] = 2 * (g + 1)
    OBVIOUS
  <2>1. PICK h : h = g + 1 /\ h \in 1 .. n /\ h - 1 = g /\ g <= n
    OBVIOUS
  <2>2. at[h] = at[g] + Len(ps[h]) /\ Len(ps[h]) = 2
    BY <1>2, <1>3, <1>5, <2>1 DEF Placed
  <2>3. at[g] = 2 * g
    BY <1>7, <2>1
  <2> QED
    BY <2>1, <2>2, <2>3
<1> HIDE DEF T
<1>8. \A g \in Nat : g \in T
  BY <1>6, <1>7, Induct
<1>9. PICK j : j = i - 1 /\ j \in Nat /\ j <= n /\ i \in Nat /\ i <= n /\ i \in 1 .. n
  BY <1>5
<1>10. at[j] = 2 * j /\ at[i] = 2 * i
  BY <1>8, <1>9 DEF T
<1>11. PICK a, b : a = 2 * i - 1 /\ b = 2 * i /\ a \in Int /\ b \in Int /\ a = at[j] + 1 /\ b = at[j] + 2
  BY <1>9, <1>10
<1>12. b <= Len(hex) /\ Len(hex) \in Nat
  BY <1>3, <1>4, <1>5, <1>9, <1>10, <1>11, LenProperties DEF Placed
<1>13. hex[a] = ps[i][1] /\ hex[b] = ps[i][2]
  <2>1. 1 \in 1 .. Len(ps[i]) /\ 2 \in 1 .. Len(ps[i])
    <3>1. Len(ps[i]) = 2
      BY <1>2
    <3> QED
      BY ONLY <3>1
  <2>2. \A k \in 1 .. Len(ps[i]) : hex[at[j] + k] = ps[i][k]
    BY <1>3, <1>5, <1>9 DEF Placed
  <2> QED
    BY <1>11, <2>1, <2>2
<1>14. ps[i][1] = s[i] \div 16 /\ ps[i][2] = s[i] % 16
  BY <1>2 DEF HexPiece, IsPieces
<1>15. PICK w : w = SubSeq(hex, a, b)
  OBVIOUS
<1>16. w \in Seq(Nat) /\ Len(w) = 2 /\ w[1] = hex[a] /\ w[2] = hex[b]
  <2>1. a \in 1 .. Len(hex) /\ b \in 1 .. Len(hex) /\ b = a + 1
    BY ONLY <1>9, <1>11, <1>12
  <2>2. \A k \in a .. b : hex[k] \in Nat
    BY ONLY <1>4, <1>12, <2>1, ElementOfSeq
  <2>3. /\ w \in Seq(Nat) /\ Len(w) = (IF a <= b THEN b - a + 1 ELSE 0)
        /\ \A k \in 1 .. b - a + 1 : w[k] = hex[a + k - 1]
    BY ONLY <1>11, <1>15, <2>2, SubSeqProperties
  <2>4. b - a + 1 = 2 /\ a <= b /\ a + 1 - 1 = a /\ a + 2 - 1 = b
    BY ONLY <1>11, <2>1
  <2>5. 1 \in 1 .. b - a + 1 /\ 2 \in 1 .. b - a + 1
    BY ONLY <2>4
  <2> QED
    BY ONLY <2>3, <2>4, <2>5
<1> QED
  BY ONLY <1>1, <1>11, <1>13, <1>14, <1>15, <1>16

LEMMA HexComesBack ==
  ASSUME NEW s \in Seq(0 .. 255)
  PROVE  HexRoundTrip(s)
<1> SUFFICES ASSUME s # << >> PROVE HexRoundTrip(s)
  BY DEF HexRoundTrip
<1> DEFINE hex == BinaryToHex(s)
<1>1. HexToBin(<<0, X>> \o hex) = s
  <2>1. hex = FlattenSeq(DigitPieces(s))
    BY DEF BinaryToHex, DigitPieces
  <2>2. <<0, X>> \in {<< >>, <<0, X>>}
    OBVIOUS
  <2>3. HexToBin(<<0, X>> \o FlattenSeq(DigitPieces(s))) = s
    BY <2>2, DigitsArePieces, HexIsRead DEF IsPieces
  <2> QED
    BY <2>1, <2>3
<1>2. BinaryToHexBuf(s, 2 * Len(s) + 1) = hex /\ BinaryToHexBuf(s, 2 * Len(s)) = Nothing
  <2>1. PICK n \in Nat : n = Len(s)
    BY LenProperties
  <2>2. ~(2 * n + 1 < 2 * n + 1) /\ 2 * n < 2 * n + 1
    OBVIOUS
  <2> QED
    BY <2>1, <2>2 DEF BinaryToHexBuf
<1>3. ASSUME NEW at \in SUBSET (1 .. Len(s))
      PROVE  HexToBin(FlattenSeq([i \in 1 .. Len(s) |->
               SubSeq(hex, 2 * i - 1, 2 * i) \o IF i \in at THEN <<Separator>> ELSE << >>])) = s
  <2> DEFINE ps == [i \in 1 .. Len(s) |->
               SubSeq(hex, 2 * i - 1, 2 * i) \o IF i \in at THEN <<Separator>> ELSE << >>]
  <2>1. ASSUME NEW i \in 1 .. Len(s) PROVE HexPiece(ps[i], s, i)
    <3>1. PICK u \in Seq(Nat) : /\ u = SubSeq(hex, 2 * i - 1, 2 * i) /\ Len(u) = 2
                                /\ u[1] = s[i] \div 16 /\ u[2] = s[i] % 16
      BY DigitsOfByte
    <3>2. PICK v : v = (IF i \in at THEN <<Separator>> ELSE << >>) /\ v \in {<< >>, <<Separator>>}
      BY Zenon
    <3>3. PICK w : w = u \o v
      OBVIOUS
    <3>4. ps[i] = w
      BY <3>1, <3>2, <3>3
    <3> HIDE DEF ps
    <3>5. CASE v = << >>
      <4>1. w = u
        BY ONLY <3>3, <3>5, u \in Seq(Nat), ConcatEmptySeq
      <4> QED
        BY ONLY <3>1, <3>4, <4>1, u \in Seq(Nat) DEF HexPiece
    <3>6. CASE v = <<Separator>>
      <4>1. v \in Seq(Nat) /\ Len(v) = 1 /\ v[1] = Separator
        BY <3>6 DEF Separator
      <4>2. v \in Seq(Nat)
        BY <4>1
      <4>3. /\ w \in Seq(Nat) /\ Len(w) = Len(u) + Len(v)
            /\ \A k \in 1 .. Len(u) + Len(v) : w[k] = IF k <= Len(u) THEN u[k] ELSE v[k - Len(u)]
        BY ONLY <3>3, <4>2, u \in Seq(Nat), ConcatProperties
      <4>4. Len(u) = 2
        BY <3>1
      <4>5. Len(w) = 3 /\ w[1] = u[1] /\ w[2] = u[2] /\ w[3] = v[1]
        BY ONLY <4>1, <4>3, <4>4
      <4> QED
        BY ONLY <3>1, <3>4, <4>1, <4>3, <4>5 DEF HexPiece
    <3> QED
      BY <3>2, <3>5, <3>6
  <2>2. ps = [i \in 1 .. Len(s) |-> ps[i]]
    OBVIOUS
  <2> HIDE DEF ps
  <2>3. IsPieces(ps, s)
    BY <2>1, <2>2, PiecesOf
  <2>4. HexToBin(<< >> \o FlattenSeq(ps)) = s
    BY <2>3, HexIsRead DEF IsPieces
  <2>5. << >> \o FlattenSeq(ps) = FlattenSeq(ps)
    <3>1. FlattenSeq(ps) \in Seq(Nat)
      BY <2>3, Flattened DEF IsPieces
    <3> QED
      BY <3>1, ConcatEmptySeq
  <2>6. HexToBin(FlattenSeq(ps)) = s
    BY <2>4, <2>5
  <2> QED
    BY <2>6 DEF ps
<1> QED
  BY <1>1, <1>2, <1>3 DEF HexRoundTrip

-----------------------------------------------------------------------------
(* The kinds of files.                                                     *)

(* The flags of guess_file_type after some bytes.                          *)
GuessStates == [flags : SUBSET {"dos", "unix", "binary"}, cr : BOOLEAN, over : BOOLEAN]
Guesses(f, s) ==
  /\ f \in [0 .. Len(s) -> GuessStates]
  /\ f[0] = [flags |-> {}, cr |-> FALSE, over |-> FALSE]
  /\ \A i \in 1 .. Len(s) : f[i] = GuessByte(f[i - 1], s[i])
  /\ GuessFileType(s) = f[Len(s)].flags
LEMMA GuessStays ==
  ASSUME NEW st \in GuessStates, NEW b
  PROVE  GuessByte(st, b) \in GuessStates
<1>0. PICK fl, cr, over : fl = st.flags /\ cr = st.cr /\ over = st.over
  OBVIOUS
<1>1. /\ fl \in SUBSET {"dos", "unix", "binary"} /\ cr \in BOOLEAN /\ over \in BOOLEAN
      /\ st = [flags |-> fl, cr |-> cr, over |-> over]
  BY <1>0 DEF GuessStates
<1>2. GuessByte(st, b) \in {st, [flags |-> fl, cr |-> FALSE, over |-> over],
          [flags |-> fl \cup {"dos"}, cr |-> TRUE, over |-> over],
          [flags |-> fl \cup {"unix"}, cr |-> FALSE, over |-> over],
          [flags |-> fl \cup {"binary"}, cr |-> cr, over |-> TRUE]}
  BY <1>1 DEF GuessByte
<1>3. \A c \in BOOLEAN, o \in BOOLEAN, x \in SUBSET {"dos", "unix", "binary"} :
        [flags |-> x, cr |-> c, over |-> o] \in GuessStates
  BY DEF GuessStates
<1>4. \A x \in {"dos", "unix", "binary"} : fl \cup {x} \in SUBSET {"dos", "unix", "binary"}
  BY <1>1
<1>5. \A x \in {"dos", "unix", "binary"}, c \in BOOLEAN, o \in BOOLEAN :
        [flags |-> fl \cup {x}, cr |-> c, over |-> o] \in GuessStates
  BY <1>3, <1>4
<1>6. [flags |-> fl, cr |-> FALSE, over |-> over] \in GuessStates
  BY <1>1, <1>3
<1> QED
  BY <1>1, <1>2, <1>5, <1>6
LEMMA Guessed ==
  ASSUME NEW s \in Seq(0 .. 255)
  PROVE  \E f : Guesses(f, s)
<1> DEFINE n == Len(s)
           x0 == [flags |-> {}, cr |-> FALSE, over |-> FALSE]
           step == [x \in GuessStates \X Nat |-> GuessByte(x[1], s[x[2]])]
           F(f) == [i \in 0 .. n |-> IF i = 0 THEN x0 ELSE GuessByte(f[i - 1], s[i])]
           f == CHOOSE f : f = F(f)
<1>1. n \in Nat
  BY LenProperties
<1>2. x0 \in GuessStates
  BY DEF GuessStates
<1>3. step \in [GuessStates \X Nat -> GuessStates]
  BY GuessStays
<1>9. GuessFileType(s) = f[n].flags
  BY DEF GuessFileType
<1> HIDE DEF step
<1>4. PICK g \in [0 .. n -> GuessStates] : Runs(g, n, x0, step)
  BY <1>1, <1>2, <1>3, Recursion
<1>5. ASSUME NEW i \in 1 .. n PROVE g[i] = GuessByte(g[i - 1], s[i])
  <2>1. i - 1 \in 0 .. n /\ i \in Nat
    BY <1>1
  <2>2. g[i] = step[g[i - 1], i]
    BY ONLY <1>4, i \in 1 .. n DEF Runs
  <2>3. g[i - 1] \in GuessStates
    BY ONLY <2>1, g \in [0 .. n -> GuessStates]
  <2> QED
    BY <2>1, <2>2, <2>3 DEF step
<1>6. g[0] = x0
  BY <1>4 DEF Runs
<1> HIDE DEF x0
<1>7. g = F(g)
  <2>1. ASSUME NEW i \in 0 .. n
        PROVE  g[i] = IF i = 0 THEN x0 ELSE GuessByte(g[i - 1], s[i])
    <3>1. CASE i = 0
      BY <1>6, <3>1
    <3>2. CASE i # 0
      <4>1. i \in 1 .. n
        BY <1>1, <3>2
      <4> QED
        BY <1>5, <3>2, <4>1
    <3> QED
      BY <3>1, <3>2
  <2> QED
    BY <2>1
<1>8. f = F(f)
  BY <1>7
<1> HIDE DEF f
<1>10. \A i \in 0 .. n : f[i] = g[i]
  <2>1. f[0] = g[0]
    BY <1>1, <1>6, <1>8
  <2>2. ASSUME NEW i \in 1 .. n, f[i - 1] = g[i - 1] PROVE f[i] = g[i]
    <3>1. i \in 0 .. n /\ i # 0
      BY <1>1
    <3> QED
      BY <1>5, <1>8, <2>2, <3>1
  <2> QED
    <3>1. StepAlike(f, g, n)
      BY ONLY <1>1, <2>1, <2>2 DEF StepAlike
    <3> QED
      BY ONLY <3>1, SameSteps
<1> QED
  <2>1. g[0] = [flags |-> {}, cr |-> FALSE, over |-> FALSE]
    BY <1>6 DEF x0
  <2>2. f[n] = g[n] /\ n \in 0 .. n
    BY <1>1, <1>10
  <2> QED
    BY <1>1, <1>4, <1>5, <1>9, <2>1, <2>2 DEF Guesses

(* As long as every byte could be printed, the flags are the line ends.    *)
IsText(s, i) == \A j \in 1 .. i : Printable(s[j]) \/ s[j] = Cr \/ s[j] = Lf
HasCr(s, i) == \E j \in 1 .. i : s[j] = Cr
HasLf(s, i) == \E j \in 1 .. i : s[j] = Lf /\ ~(j > 1 /\ s[j - 1] = Cr)
LineEnds(st, s, i) ==
  IF st.over THEN "binary" \in st.flags
  ELSE /\ "binary" \notin st.flags /\ IsText(s, i)
       /\ "dos" \in st.flags <=> HasCr(s, i)
       /\ "unix" \in st.flags <=> HasLf(s, i)
       /\ st.cr <=> (i > 0 /\ s[i] = Cr)
LEMMA EndsGrow ==
  ASSUME NEW s, NEW i \in Nat \ {0}
  PROVE  /\ IsText(s, i) <=> IsText(s, i - 1) /\ (Printable(s[i]) \/ s[i] = Cr \/ s[i] = Lf)
         /\ HasCr(s, i) <=> HasCr(s, i - 1) \/ s[i] = Cr
         /\ HasLf(s, i) <=> HasLf(s, i - 1) \/ (s[i] = Lf /\ ~(i > 1 /\ s[i - 1] = Cr))
<1>1. \A j : j \in 1 .. i <=> j \in 1 .. i - 1 \/ j = i
  OBVIOUS
<1>2. IsText(s, i) <=> IsText(s, i - 1) /\ (Printable(s[i]) \/ s[i] = Cr \/ s[i] = Lf)
  BY <1>1 DEF IsText
<1>3. HasCr(s, i) <=> HasCr(s, i - 1) \/ s[i] = Cr
  BY <1>1 DEF HasCr
<1>4. HasLf(s, i) <=> HasLf(s, i - 1) \/ (s[i] = Lf /\ ~(i > 1 /\ s[i - 1] = Cr))
  BY <1>1 DEF HasLf
<1> QED
  BY <1>2, <1>3, <1>4
LEMMA LineEndsKept ==
  ASSUME NEW s, NEW i \in Nat \ {0}, NEW st \in GuessStates, LineEnds(st, s, i - 1)
  PROVE  LineEnds(GuessByte(st, s[i]), s, i)
<1>0. PICK fl, cr, over : fl = st.flags /\ cr = st.cr /\ over = st.over
  OBVIOUS
<1>1. /\ fl \in SUBSET {"dos", "unix", "binary"} /\ cr \in BOOLEAN /\ over \in BOOLEAN
      /\ st = [flags |-> fl, cr |-> cr, over |-> over]
  BY <1>0 DEF GuessStates
<1>2. PICK b : b = s[i]
  OBVIOUS
<1>3. st.flags = fl /\ st.cr = cr /\ st.over = over
  BY <1>0
<1>4. CASE over
  BY <1>3, <1>4 DEF GuessByte, LineEnds
<1>5. CASE ~over
  <2>1. /\ "binary" \notin fl /\ IsText(s, i - 1)
        /\ "dos" \in fl <=> HasCr(s, i - 1)
        /\ "unix" \in fl <=> HasLf(s, i - 1)
        /\ cr <=> (i - 1 > 0 /\ s[i - 1] = Cr)
    BY <1>3, <1>5 DEF LineEnds
  <2>2. cr <=> (i > 1 /\ s[i - 1] = Cr)
    BY <2>1
  <2>E. /\ IsText(s, i) <=> IsText(s, i - 1) /\ (Printable(b) \/ b = Cr \/ b = Lf)
        /\ HasCr(s, i) <=> HasCr(s, i - 1) \/ b = Cr
        /\ HasLf(s, i) <=> HasLf(s, i - 1) \/ (b = Lf /\ ~cr)
    BY <1>2, <2>2, EndsGrow
  <2>P. Cr # Lf /\ i > 0
    BY DEF Cr, Lf
  <2>3. CASE cr /\ b = Lf
    <3>1. GuessByte(st, b) = [flags |-> fl, cr |-> FALSE, over |-> FALSE]
      BY <1>1, <1>5, <2>3 DEF GuessByte
    <3> QED
      BY ONLY <1>2, <2>1, <2>3, <2>E, <2>P, <3>1 DEF LineEnds
  <2>4. CASE b = Cr
    <3>1. GuessByte(st, b) = [flags |-> fl \cup {"dos"}, cr |-> TRUE, over |-> FALSE]
      BY <1>1, <1>5, <2>4, <2>P DEF GuessByte
    <3> QED
      BY ONLY <1>2, <2>1, <2>4, <2>E, <2>P, <3>1 DEF LineEnds
  <2>5. CASE b = Lf /\ ~cr
    <3>1. GuessByte(st, b) = [flags |-> fl \cup {"unix"}, cr |-> FALSE, over |-> FALSE]
      BY <1>1, <1>5, <2>5, <2>P DEF GuessByte
    <3> QED
      BY ONLY <1>2, <2>1, <2>5, <2>E, <2>P, <3>1 DEF LineEnds
  <2>6. CASE b # Lf /\ b # Cr /\ ~Printable(b)
    <3>1. GuessByte(st, b) = [flags |-> fl \cup {"binary"}, cr |-> cr, over |-> TRUE]
      BY <1>1, <1>5, <2>6 DEF GuessByte
    <3> QED
      BY ONLY <1>2, <3>1 DEF LineEnds
  <2>7. CASE b # Lf /\ b # Cr /\ Printable(b)
    <3>1. GuessByte(st, b) = [flags |-> fl, cr |-> FALSE, over |-> FALSE]
      BY <1>1, <1>5, <2>7 DEF GuessByte
    <3> QED
      BY ONLY <1>2, <2>1, <2>7, <2>E, <2>P, <3>1 DEF LineEnds
  <2> QED
    BY <2>3, <2>4, <2>5, <2>6, <2>7
<1> QED
  BY <1>4, <1>5
LEMMA TextIsNotBinary ==
  ASSUME NEW s \in Seq(0 .. 255), s # << >>, IsText(s, Len(s))
  PROVE  ~FileIsBinary(s)
<1> DEFINE block == SubSeq(s, 1, IF Len(s) > 512 THEN 512 ELSE Len(s))
           text == IF block # << >> /\ Last(block) = 26 THEN Front(block) ELSE block
           nul == SelectInSeq(text, LAMBDA b : b = 0)
           seen == IF nul = 0 THEN text ELSE SubSeq(text, 1, nul - 1)
           odd == Cardinality({i \in DOMAIN seen : OddByte(seen[i])})
                  + IF nul = 0 THEN 0 ELSE Len(text)
<1>1. FileIsBinary(s) = (text = << >> \/ 10 * odd >= 3 * Len(text))
  BY DEF FileIsBinary
<1>2. PICK n \in Nat : n = Len(s) /\ n > 0
  <2>1. Len(s) \in Nat /\ Len(s) # 0
    BY EmptySeq, LenProperties
  <2> QED
    BY ONLY <2>1
<1>3. ASSUME NEW i \in 1 .. n
      PROVE  s[i] \in 0 .. 255 /\ (Printable(s[i]) \/ s[i] = Cr \/ s[i] = Lf)
  BY <1>2, <1>3, ElementOfSeq DEF IsText
<1>4. ASSUME NEW i \in 1 .. n PROVE s[i] # 26 /\ s[i] # 0 /\ ~OddByte(s[i])
  <2>1. PICK b \in 0 .. 255 : b = s[i] /\ (Printable(b) \/ b = Cr \/ b = Lf)
    BY <1>3
  <2>2. b \in 32 .. 126 \/ b = 9 \/ b = 13 \/ b = 10
    BY ONLY <2>1 DEF Printable, Cr, Lf, Tab
  <2>3. b # 26 /\ b # 0 /\ ~OddByte(b)
    BY ONLY <2>2, b \in 0 .. 255 DEF Cr, Lf, Tab, OddByte
  <2> QED
    BY <2>1, <2>3
<1>5. PICK m \in Nat : m = (IF Len(s) > 512 THEN 512 ELSE Len(s)) /\ m > 0 /\ m <= n
  BY <1>2
<1>6. /\ block \in Seq(0 .. 255) /\ Len(block) = m
      /\ \A i \in 1 .. m : block[i] = s[i]
  <2>1. \A i \in 1 .. m : s[i] \in 0 .. 255
    BY <1>3, <1>5
  <2>2. block = SubSeq(s, 1, m)
    BY <1>5
  <2> HIDE DEF block
  <2> QED
    BY <1>5, <2>1, <2>2, SubSeqProperties
<1> HIDE DEF block
<1>7. text = block
  <2>1. Last(block) = s[m]
    BY <1>5, <1>6 DEF Last
  <2> QED
    BY <1>4, <1>5, <2>1
<1>8. Len(text) = m /\ DOMAIN text = 1 .. m /\ \A i \in 1 .. m : text[i] = s[i]
  BY <1>6, <1>7
<1> HIDE DEF text
<1>9. nul = 0
  <2>1. {i \in 1 .. Len(text) : text[i] = 0} = {}
    BY <1>4, <1>5, <1>8
  <2> QED
    BY <2>1 DEF SelectInSeq
<1> HIDE DEF nul
<1>10. seen = text
  BY <1>9
<1> HIDE DEF seen
<1>11. {i \in DOMAIN seen : OddByte(seen[i])} = {}
  BY <1>4, <1>5, <1>8, <1>10
<1>12. odd = 0
  <2>1. Cardinality({i \in DOMAIN seen : OddByte(seen[i])}) = 0
    BY <1>11, FS_EmptySet, Zenon
  <2> QED
    BY <1>9, <2>1
<1> HIDE DEF odd
<1>13. text # << >>
  BY <1>5, <1>8
<1>14. ~(10 * 0 >= 3 * m)
  BY <1>5
<1> QED
  BY <1>1, <1>8, <1>12, <1>13, <1>14

LEMMA KindsDoAgree ==
  ASSUME NEW s \in Seq(0 .. 255)
  PROVE  FileKindsAgree(s)
<1>1. PICK n \in Nat : n = Len(s) /\ DOMAIN s = 1 .. n
  BY LenProperties
<1>2. PICK f : Guesses(f, s)
  BY Guessed
<1> DEFINE T == {i \in Nat : i <= n => LineEnds(f[i], s, i)}
<1>3. 0 \in T
  <2>1. IsText(s, 0) /\ ~HasCr(s, 0) /\ ~HasLf(s, 0)
    BY DEF HasCr, HasLf, IsText
  <2>2. f[0] = [flags |-> {}, cr |-> FALSE, over |-> FALSE]
    BY <1>2 DEF Guesses
  <2> QED
    BY <2>1, <2>2 DEF LineEnds
<1>4. ASSUME NEW i \in Nat, i \in T PROVE i + 1 \in T
  <2>1. PICK j \in Nat \ {0} : j = i + 1
    OBVIOUS
  <2>2. CASE j <= n
    <3>1. i <= n /\ j - 1 = i /\ j \in 1 .. n /\ i \in 0 .. n
      BY <2>1, <2>2
    <3>2. f[i] \in GuessStates /\ f[j] = GuessByte(f[i], s[j])
      BY <1>1, <1>2, <3>1 DEF Guesses
    <3>3. LineEnds(f[i], s, j - 1)
      BY <1>4, <3>1
    <3>4. LineEnds(f[j], s, j)
      BY ONLY <3>2, <3>3, j \in Nat \ {0}, LineEndsKept
    <3> QED
      BY <2>1, <3>4
  <2>3. CASE ~(j <= n)
    BY <2>1, <2>3
  <2> QED
    BY <2>2, <2>3
<1> HIDE DEF T
<1>5. n \in T
  BY <1>3, <1>4, Induct
<1>6. LineEnds(f[n], s, n) /\ GuessFileType(s) = f[n].flags
  BY <1>1, <1>2, <1>5 DEF Guesses, T
<1>7. ASSUME "binary" \notin GuessFileType(s)
      PROVE  /\ "dos" \in GuessFileType(s) <=> \E i \in DOMAIN s : s[i] = Cr
             /\ "unix" \in GuessFileType(s) <=>
                  \E i \in DOMAIN s : s[i] = Lf /\ ~(i > 1 /\ s[i - 1] = Cr)
             /\ s # << >> => ~FileIsBinary(s)
  <2>1. /\ IsText(s, n)
        /\ "dos" \in GuessFileType(s) <=> HasCr(s, n)
        /\ "unix" \in GuessFileType(s) <=> HasLf(s, n)
    BY <1>6, <1>7 DEF LineEnds
  <2>2. s # << >> => ~FileIsBinary(s)
    BY <1>1, <2>1, TextIsNotBinary
  <2> QED
    BY <1>1, <2>1, <2>2 DEF HasCr, HasLf
<1> QED
  BY <1>7 DEF FileKindsAgree

(* What holds of any bytes holds of those that have come.                  *)
LEMMA ConversionsHold ==
  ASSUME codBytes \in Seq(0 .. 255)
  PROVE  CodecsRoundTrip
<1>1. codBytes \in Seq(Nat)
  BY (0 .. 255) \subseteq Nat, SeqMonotonic
<1>2. DecodedFits(codBytes)
  BY <1>1, DecodedIsShort DEF DecodedFits
<1> QED
  BY <1>2, Base64ComesBack, HexComesBack, KindsDoAgree DEF CodecsRoundTrip

-----------------------------------------------------------------------------
(* For bytes of any number and any values, base64 and hexadecimal text are *)
(* read back to what they were made of, line ends, padding and separators  *)
(* and all, the decoder stays within what it allocates, and the two        *)
(* guesses at the kind of a file agree (mutils.c:1508-2060,                *)
(* mutils_mime.c:56-119, utils.c:563-634).                                 *)
THEOREM CodecsAreRight == CodInit /\ [][CodByte]_codBytes => []CodecsRoundTrip
<1> USE CodecsAssumption
<1> DEFINE Inv == codBytes \in Seq(0 .. 255)
<1>1. CodInit => Inv
  BY EmptySeq DEF CodInit
<1>2. Inv /\ [CodByte]_codBytes => Inv'
  <2> SUFFICES ASSUME Inv, CodByte PROVE Inv'
    OBVIOUS
  <2>1. PICK b \in CodBytes : codBytes' = Append(codBytes, b)
    BY DEF CodByte
  <2>2. b \in 0 .. 255
    BY <2>1
  <2> QED
    BY <2>1, <2>2, AppendProperties
<1>3. Inv => CodecsRoundTrip
  BY ConversionsHold
<1> QED
  BY <1>1, <1>2, <1>3, PTL
-----------------------------------------------------------------------------
(* The WebSocket server: masks.                                            *)

LEMMA BitsBack ==
  ASSUME NEW a \in 0 .. 1, NEW b \in 0 .. 1
  PROVE  XorBit(a, b) \in 0 .. 1 /\ XorBit(XorBit(a, b), b) = a
BY DEF XorBit
LEMMA TwosBack ==
  ASSUME NEW a \in 0 .. 3, NEW b \in 0 .. 3
  PROVE  XorTwo(a, b) \in 0 .. 3 /\ XorTwo(XorTwo(a, b), b) = a
<1>1. PICK h \in 0 .. 1, l \in 0 .. 1 : h = a \div 2 /\ l = a % 2 /\ a = 2 * h + l
  OBVIOUS
<1>2. PICK k \in 0 .. 1, m \in 0 .. 1 : k = b \div 2 /\ m = b % 2
  OBVIOUS
<1>3. PICK x \in 0 .. 1, y \in 0 .. 1 :
        x = XorBit(h, k) /\ y = XorBit(l, m) /\ XorBit(x, k) = h /\ XorBit(y, m) = l
  <2>1. XorBit(h, k) \in 0 .. 1 /\ XorBit(XorBit(h, k), k) = h
    BY ONLY h \in 0 .. 1, k \in 0 .. 1, BitsBack, Zenon
  <2>2. XorBit(l, m) \in 0 .. 1 /\ XorBit(XorBit(l, m), m) = l
    BY ONLY l \in 0 .. 1, m \in 0 .. 1, BitsBack, Zenon
  <2> QED
    BY ONLY <2>1, <2>2, Zenon
<1>4. XorTwo(a, b) = 2 * x + y
  BY <1>1, <1>2, <1>3 DEF XorTwo
<1>5. PICK z \in 0 .. 3 : z = 2 * x + y /\ z \div 2 = x /\ z % 2 = y
  BY ONLY x \in 0 .. 1, y \in 0 .. 1
<1>6. XorTwo(z, b) = 2 * h + l
  BY <1>2, <1>3, <1>5 DEF XorTwo
<1> QED
  BY <1>1, <1>4, <1>5, <1>6
LEMMA FoursBack ==
  ASSUME NEW a \in 0 .. 15, NEW b \in 0 .. 15
  PROVE  XorFour(a, b) \in 0 .. 15 /\ XorFour(XorFour(a, b), b) = a
<1>1. PICK h \in 0 .. 3, l \in 0 .. 3 : h = a \div 4 /\ l = a % 4 /\ a = 4 * h + l
  OBVIOUS
<1>2. PICK k \in 0 .. 3, m \in 0 .. 3 : k = b \div 4 /\ m = b % 4
  OBVIOUS
<1>3. PICK x \in 0 .. 3, y \in 0 .. 3 :
        x = XorTwo(h, k) /\ y = XorTwo(l, m) /\ XorTwo(x, k) = h /\ XorTwo(y, m) = l
  <2>1. XorTwo(h, k) \in 0 .. 3 /\ XorTwo(XorTwo(h, k), k) = h
    BY ONLY h \in 0 .. 3, k \in 0 .. 3, TwosBack, Zenon
  <2>2. XorTwo(l, m) \in 0 .. 3 /\ XorTwo(XorTwo(l, m), m) = l
    BY ONLY l \in 0 .. 3, m \in 0 .. 3, TwosBack, Zenon
  <2> QED
    BY ONLY <2>1, <2>2, Zenon
<1>4. XorFour(a, b) = 4 * x + y
  BY <1>1, <1>2, <1>3 DEF XorFour
<1>5. PICK z \in 0 .. 15 : z = 4 * x + y /\ z \div 4 = x /\ z % 4 = y
  BY ONLY x \in 0 .. 3, y \in 0 .. 3
<1>6. XorFour(z, b) = 4 * h + l
  BY <1>2, <1>3, <1>5 DEF XorFour
<1> QED
  BY <1>1, <1>4, <1>5, <1>6
(* A mask that is put on twice is taken off.                               *)
LEMMA XorBack ==
  ASSUME NEW a \in 0 .. 255, NEW b \in 0 .. 255
  PROVE  Xor(a, b) \in 0 .. 255 /\ Xor(Xor(a, b), b) = a
<1>1. PICK h \in 0 .. 15, l \in 0 .. 15 : h = a \div 16 /\ l = a % 16 /\ a = 16 * h + l
  OBVIOUS
<1>2. PICK k \in 0 .. 15, m \in 0 .. 15 : k = b \div 16 /\ m = b % 16
  OBVIOUS
<1>3. PICK x \in 0 .. 15, y \in 0 .. 15 :
        x = XorFour(h, k) /\ y = XorFour(l, m) /\ XorFour(x, k) = h /\ XorFour(y, m) = l
  <2>1. XorFour(h, k) \in 0 .. 15 /\ XorFour(XorFour(h, k), k) = h
    BY ONLY h \in 0 .. 15, k \in 0 .. 15, FoursBack, Zenon
  <2>2. XorFour(l, m) \in 0 .. 15 /\ XorFour(XorFour(l, m), m) = l
    BY ONLY l \in 0 .. 15, m \in 0 .. 15, FoursBack, Zenon
  <2> QED
    BY ONLY <2>1, <2>2, Zenon
<1>4. Xor(a, b) = 16 * x + y
  BY <1>1, <1>2, <1>3 DEF Xor
<1>5. PICK z \in 0 .. 255 : z = 16 * x + y /\ z \div 16 = x /\ z % 16 = y
  BY ONLY x \in 0 .. 15, y \in 0 .. 15
<1>6. Xor(z, b) = 16 * h + l
  BY <1>2, <1>3, <1>5 DEF Xor
<1> QED
  BY <1>1, <1>4, <1>5, <1>6

Masks == [1 .. 4 -> 0 .. 255]
LEMMA MaskedIs ==
  ASSUME NEW data, NEW n \in Nat, data \in [1 .. n -> 0 .. 255], NEW mask \in Masks
  PROVE  /\ Masked(data, mask) \in Seq(0 .. 255) /\ Len(Masked(data, mask)) = n
         /\ \A i \in 1 .. n : Masked(data, mask)[i] = Xor(data[i], mask[((i - 1) % 4) + 1])
<1>1. ASSUME NEW i \in 1 .. n
      PROVE  Xor(data[i], mask[((i - 1) % 4) + 1]) \in 0 .. 255
  <2>1. ((i - 1) % 4) + 1 \in 1 .. 4
    OBVIOUS
  <2>2. PICK j : j = ((i - 1) % 4) + 1 /\ j \in 1 .. 4
    BY <2>1
  <2>3. data[i] \in 0 .. 255 /\ mask[j] \in 0 .. 255
    BY <2>2 DEF Masks
  <2> QED
    BY <2>2, <2>3, XorBack
<1>2. Masked(data, mask) = [i \in 1 .. n |-> Xor(data[i], mask[((i - 1) % 4) + 1])]
  BY DEF Masked
<1>3. Masked(data, mask) \in [1 .. n -> 0 .. 255]
  BY <1>1, <1>2
<1>4. PICK t : t = Masked(data, mask)
  OBVIOUS
<1>5. t \in Seq(0 .. 255) /\ Len(t) = n
  BY ONLY <1>3, <1>4, n \in Nat
<1> QED
  BY <1>2, <1>4, <1>5

LEMMA MaskedAgain ==
  ASSUME NEW text \in Seq(0 .. 255), NEW mask \in Masks, NEW m \in 0 .. Len(text),
         NEW d, d \in [1 .. Len(text) -> 0 .. 255],
         \A i \in 1 .. m : d[i] = Masked(text, mask)[i]
  PROVE  /\ Masked(d, mask) \in Seq(0 .. 255) /\ Len(Masked(d, mask)) = Len(text)
         /\ \A i \in 1 .. m : Masked(d, mask)[i] = text[i]
<1>1. PICK n \in Nat : n = Len(text)
  BY LenProperties
<1>2. text \in [1 .. n -> 0 .. 255]
  BY <1>1, LenProperties
<1>3. /\ Masked(d, mask) \in Seq(0 .. 255) /\ Len(Masked(d, mask)) = n
      /\ \A i \in 1 .. n : Masked(d, mask)[i] = Xor(d[i], mask[((i - 1) % 4) + 1])
  BY <1>1, MaskedIs
<1>4. \A i \in 1 .. n : Masked(text, mask)[i] = Xor(text[i], mask[((i - 1) % 4) + 1])
  BY <1>2, MaskedIs
<1>5. ASSUME NEW i \in 1 .. m PROVE Masked(d, mask)[i] = text[i]
  <2>0. i \in 1 .. n
    BY <1>1
  <2>1. ((i - 1) % 4) + 1 \in 1 .. 4
    BY <2>0
  <2>2. PICK b \in 0 .. 255 : b = mask[((i - 1) % 4) + 1]
    BY <2>1 DEF Masks
  <2>3. text[i] \in 0 .. 255
    BY <1>2, <2>0
  <2>4. Masked(d, mask)[i] = Xor(Xor(text[i], b), b)
    BY <1>3, <1>4, <2>0, <2>2
  <2> QED
    BY <2>3, <2>4, XorBack
<1> QED
  BY <1>1, <1>3, <1>5

-----------------------------------------------------------------------------
(* Numbers in frames.                                                      *)

LEMMA TwoBytesAre ==
  ASSUME NEW n \in Nat
  PROVE  /\ TwoBytes(n) \in Seq(0 .. 255) /\ Len(TwoBytes(n)) = 2
         /\ TwoBytes(n)[1] = (n \div 256) % 256 /\ TwoBytes(n)[2] = n % 256
<1>0. (n \div 256) % 256 \in 0 .. 255 /\ n % 256 \in 0 .. 255
  OBVIOUS
<1>1. PICK a \in 0 .. 255, b \in 0 .. 255 : a = (n \div 256) % 256 /\ b = n % 256
  BY ONLY <1>0
<1>2. TwoBytes(n) = <<a, b>>
  BY <1>1 DEF TwoBytes
<1> QED
  BY ONLY <1>1, <1>2
(* The upper part of a number and its lowest two bytes.                    *)
High(n) == n \div 65536
Low(n) == n % 65536
Joint(h, l) == h * 65536 + l
Sized(n) == n < 2147483648
LEMMA HighAndLow ==
  ASSUME NEW n \in Nat
  PROVE  High(n) \in Nat /\ Low(n) \in Nat /\ Joint(High(n), Low(n)) = n
<1>1. PICK h \in Nat : h = n \div 65536
  BY SMT
<1>2. PICK l \in Nat : l = n % 65536
  BY SMT
<1>3. h * 65536 + l = n
  BY ONLY <1>1, <1>2, n \in Nat, h \in Nat, l \in Nat, SMTT(30)
<1> QED
  BY <1>1, <1>2, <1>3, SMT DEF High, Low, Joint
LEMMA ShortIsLow ==
  ASSUME NEW n \in Nat, InTwoBytes(n)
  PROVE  Low(n) = n /\ High(n) = 0
  BY SMT DEF Low, High, InTwoBytes
LEMMA SizedHasHalves ==
  ASSUME NEW n \in Nat, Sized(n)
  PROVE  InTwoBytes(High(n))
  BY SMT DEF High, InTwoBytes, Sized

LEMMA FourBytesAre ==
  ASSUME NEW n \in Nat
  PROVE  /\ FourBytes(n) \in Seq(0 .. 255) /\ Len(FourBytes(n)) = 4
         /\ FourBytes(n)[1] = TwoBytes(High(n))[1] /\ FourBytes(n)[2] = TwoBytes(High(n))[2]
         /\ FourBytes(n)[3] = TwoBytes(n)[1] /\ FourBytes(n)[4] = TwoBytes(n)[2]
<1>1. PICK h \in Nat : h = High(n)
  BY HighAndLow
<1>2. PICK a : a = TwoBytes(h) /\ a \in Seq(0 .. 255) /\ Len(a) = 2
  BY TwoBytesAre
<1>3. PICK b : b = TwoBytes(n) /\ b \in Seq(0 .. 255) /\ Len(b) = 2
  BY TwoBytesAre
<1>4. PICK q : q = a \o b
  BY Zenon
<1>5. FourBytes(n) = q
  BY <1>1, <1>2, <1>3, <1>4, SMT DEF FourBytes, High
<1>6. /\ q \in Seq(0 .. 255) /\ Len(q) = Len(a) + Len(b)
      /\ \A i \in 1 .. Len(a) + Len(b) : q[i] = IF i <= Len(a) THEN a[i] ELSE b[i - Len(a)]
  <2>1. a \in Seq(0 .. 255) /\ b \in Seq(0 .. 255)
    BY <1>2, <1>3
  <2> QED
    BY ONLY <1>4, <2>1, ConcatProperties
<1>7. \A i \in 1 .. 4 : q[i] = IF i <= 2 THEN a[i] ELSE b[i - 2]
  BY ONLY <1>2, <1>3, <1>6
<1>8. q[1] = a[1] /\ q[2] = a[2] /\ q[3] = b[1] /\ q[4] = b[2]
  BY ONLY <1>7
<1>9. Len(q) = 4
  BY ONLY <1>2, <1>3, <1>6
<1> QED
  BY <1>1, <1>2, <1>3, <1>5, <1>6, <1>8, <1>9, Zenon
LEMMA EightBytesAre ==
  ASSUME NEW n \in Nat
  PROVE  /\ EightBytes(n) \in Seq(0 .. 255) /\ Len(EightBytes(n)) = 8
         /\ \A i \in 1 .. 4 : /\ EightBytes(n)[i] = FourBytes(High(High(n)))[i]
                              /\ EightBytes(n)[i + 4] = FourBytes(n)[i]
<1>1. PICK h \in Nat : h = High(High(n))
  BY HighAndLow
<1>2. PICK a : a = FourBytes(h) /\ a \in Seq(0 .. 255) /\ Len(a) = 4
  BY FourBytesAre
<1>3. PICK b : b = FourBytes(n) /\ b \in Seq(0 .. 255) /\ Len(b) = 4
  BY FourBytesAre
<1>4. PICK q : q = a \o b
  BY Zenon
<1>5. EightBytes(n) = q
  BY <1>1, <1>2, <1>3, <1>4, SMT DEF EightBytes, High
<1>6. /\ q \in Seq(0 .. 255) /\ Len(q) = Len(a) + Len(b)
      /\ \A i \in 1 .. Len(a) + Len(b) : q[i] = IF i <= Len(a) THEN a[i] ELSE b[i - Len(a)]
  <2>1. a \in Seq(0 .. 255) /\ b \in Seq(0 .. 255)
    BY <1>2, <1>3
  <2> QED
    BY ONLY <1>4, <2>1, ConcatProperties
<1>7. Len(q) = 8
  BY ONLY <1>2, <1>3, <1>6
<1>8. ASSUME NEW i \in 1 .. 4 PROVE q[i] = a[i] /\ q[i + 4] = b[i]
  BY ONLY <1>2, <1>3, <1>6, i \in 1 .. 4
<1> QED
  BY <1>1, <1>2, <1>3, <1>5, <1>6, <1>7, <1>8, Zenon

(* They are read as they were written.                                     *)
StandsAt(p, buf, at) == \A i \in 1 .. Len(p) : buf[at + i] = p[i]
LEMMA LowIsRead ==
  ASSUME NEW n \in Nat, NEW buf, NEW at \in Nat, StandsAt(TwoBytes(n), buf, at)
  PROVE  TwoAt(buf, at) = Low(n)
<1>1. Len(TwoBytes(n)) = 2 /\ TwoBytes(n)[1] = (n \div 256) % 256 /\ TwoBytes(n)[2] = n % 256
  BY TwoBytesAre
<1>2. buf[at + 1] = (n \div 256) % 256 /\ buf[at + 2] = n % 256
  BY <1>1 DEF StandsAt
<1>3. PICK q \in Nat : q = n \div 256
  BY SMT
<1>4. PICK l \in 0 .. 255 : l = n % 256
  BY SMT
<1>5. PICK h \in 0 .. 255 : h = q % 256
  BY SMT
<1>6. PICK p \in Nat : p = q \div 256
  BY SMT
<1>7. n = 256 * q + l
  BY ONLY <1>3, <1>4, n \in Nat, q \in Nat, l \in 0 .. 255, SMT
<1>8. q = 256 * p + h
  BY ONLY <1>5, <1>6, q \in Nat, p \in Nat, h \in 0 .. 255, SMT
<1>9. n = 65536 * p + (h * 256 + l)
  BY ONLY <1>7, <1>8, q \in Nat, p \in Nat, n \in Nat, h \in 0 .. 255, l \in 0 .. 255, SMT
<1>10. PICK m \in Nat : m = h * 256 + l /\ InTwoBytes(m)
  BY SMT DEF InTwoBytes
<1>11. Low(n) = m
  BY ONLY <1>9, <1>10, p \in Nat, n \in Nat, m \in Nat, SMT DEF Low, InTwoBytes
<1>12. TwoAt(buf, at) = h * 256 + l
  BY <1>2, <1>3, <1>4, <1>5, Zenon DEF TwoAt
<1> QED
  BY <1>10, <1>11, <1>12, Zenon
LEMMA TwoAreRead ==
  ASSUME NEW n \in Nat, InTwoBytes(n), NEW buf, NEW at \in Nat, StandsAt(TwoBytes(n), buf, at)
  PROVE  TwoAt(buf, at) = n
  BY LowIsRead, ShortIsLow
LEMMA FourAreRead ==
  ASSUME NEW n \in Nat, NEW buf, NEW at \in Nat, StandsAt(FourBytes(n), buf, at)
  PROVE  FourAt(buf, at) = Joint(Low(High(n)), Low(n))
<1>1. PICK h \in Nat : h = High(n)
  BY HighAndLow
<1>2. /\ Len(FourBytes(n)) = 4
      /\ FourBytes(n)[1] = TwoBytes(h)[1] /\ FourBytes(n)[2] = TwoBytes(h)[2]
      /\ FourBytes(n)[3] = TwoBytes(n)[1] /\ FourBytes(n)[4] = TwoBytes(n)[2]
  BY <1>1, FourBytesAre
<1>3. /\ buf[at + 1] = TwoBytes(h)[1] /\ buf[at + 2] = TwoBytes(h)[2]
      /\ buf[at + 3] = TwoBytes(n)[1] /\ buf[at + 4] = TwoBytes(n)[2]
  BY <1>2 DEF StandsAt
<1>4. Len(TwoBytes(h)) = 2 /\ Len(TwoBytes(n)) = 2
  BY TwoBytesAre
<1>5. StandsAt(TwoBytes(h), buf, at)
  BY <1>3, <1>4 DEF StandsAt
<1>6. PICK to \in Nat : to = at + 2
  OBVIOUS
<1>7. buf[to + 1] = TwoBytes(n)[1] /\ buf[to + 2] = TwoBytes(n)[2]
  BY <1>3, <1>6
<1>8. StandsAt(TwoBytes(n), buf, to)
  BY <1>4, <1>7 DEF StandsAt
<1>9. TwoAt(buf, at) = Low(h) /\ TwoAt(buf, to) = Low(n)
  BY <1>5, <1>8, LowIsRead
<1>10. FourAt(buf, at) = Joint(TwoAt(buf, at), TwoAt(buf, at + 2))
  BY SMT DEF FourAt, Joint
<1> QED
  BY <1>1, <1>6, <1>9, <1>10, Zenon
LEMMA EightAreRead ==
  ASSUME NEW n \in Nat, Sized(n), NEW buf, NEW at \in Nat, StandsAt(EightBytes(n), buf, at)
  PROVE  EightAt(buf, at) = n
<1>1. PICK h \in Nat : h = High(n) /\ InTwoBytes(h)
  BY HighAndLow, SizedHasHalves
<1>2. High(h) = 0 /\ Low(h) = h
  BY <1>1, ShortIsLow
<1>3. PICK z \in Nat : z = 0
  OBVIOUS
<1>4. High(z) = z /\ Low(z) = z /\ Joint(z, z) = z
  BY <1>3, SMT DEF High, Low, Joint
<1>5. /\ Len(EightBytes(n)) = 8
      /\ \A i \in 1 .. 4 : /\ EightBytes(n)[i] = FourBytes(z)[i]
                           /\ EightBytes(n)[i + 4] = FourBytes(n)[i]
  <2>1. High(High(n)) = z
    BY <1>1, <1>2, <1>3, Zenon
  <2> QED
    BY <2>1, EightBytesAre
<1>6. Len(FourBytes(z)) = 4 /\ Len(FourBytes(n)) = 4
  BY FourBytesAre
<1>7. StandsAt(FourBytes(z), buf, at)
  <2>1. ASSUME NEW i \in 1 .. 4 PROVE buf[at + i] = FourBytes(z)[i]
    <3>1. i \in 1 .. 8
      OBVIOUS
    <3> QED
      BY <1>5, <3>1 DEF StandsAt
  <2> QED
    BY <1>6, <2>1 DEF StandsAt
<1>8. PICK to \in Nat : to = at + 4
  OBVIOUS
<1>9. StandsAt(FourBytes(n), buf, to)
  <2>1. ASSUME NEW i \in 1 .. 4 PROVE buf[to + i] = FourBytes(n)[i]
    <3>1. i + 4 \in 1 .. 8 /\ at + (i + 4) = to + i
      BY <1>8
    <3>2. buf[at + (i + 4)] = EightBytes(n)[i + 4]
      BY <1>5, <3>1 DEF StandsAt
    <3> QED
      BY <1>5, <3>1, <3>2
  <2> QED
    BY <1>6, <2>1 DEF StandsAt
<1>10. FourAt(buf, at) = z
  <2>1. FourAt(buf, at) = Joint(Low(High(z)), Low(z))
    BY <1>7, FourAreRead
  <2> QED
    BY <1>4, <2>1, Zenon
<1>11. FourAt(buf, to) = n
  <2>1. FourAt(buf, to) = Joint(Low(High(n)), Low(n))
    BY <1>9, FourAreRead
  <2>2. Joint(High(n), Low(n)) = n
    BY HighAndLow
  <2> QED
    BY <1>1, <1>2, <2>1, <2>2, Zenon
<1>12. FourAt(buf, at + 4) = n
  BY <1>8, <1>11, Zenon
<1> QED
  BY <1>3, <1>10, <1>12, SMT DEF EightAt

-----------------------------------------------------------------------------
(* What was received of a frame.                                           *)

LEMMA FrameIs ==
  ASSUME NEW S, NEW a \in Seq(S), NEW b \in Seq(S), NEW c \in Seq(S)
  PROVE  /\ a \o b \o c \in Seq(S) /\ Len(a \o b \o c) = Len(a) + Len(b) + Len(c)
         /\ \A i \in 1 .. Len(a) : (a \o b \o c)[i] = a[i]
         /\ \A i \in 1 .. Len(b) : (a \o b \o c)[Len(a) + i] = b[i]
         /\ \A i \in 1 .. Len(c) : (a \o b \o c)[Len(a) + Len(b) + i] = c[i]
<1>1. PICK p : p = a \o b
  OBVIOUS
<1>2. /\ p \in Seq(S) /\ Len(p) = Len(a) + Len(b)
      /\ \A i \in 1 .. Len(a) + Len(b) : p[i] = IF i <= Len(a) THEN a[i] ELSE b[i - Len(a)]
  BY <1>1, ConcatProperties
<1>3. PICK q : q = p \o c
  OBVIOUS
<1>4. /\ q \in Seq(S) /\ Len(q) = Len(p) + Len(c)
      /\ \A i \in 1 .. Len(p) + Len(c) : q[i] = IF i <= Len(p) THEN p[i] ELSE c[i - Len(p)]
  <2>1. p \in Seq(S)
    BY <1>2
  <2> QED
    BY ONLY <1>3, <2>1, c \in Seq(S), ConcatProperties
<1>5. Len(a) \in Nat /\ Len(b) \in Nat /\ Len(c) \in Nat
  BY LenProperties
<1>6. \A i \in 1 .. Len(a) : q[i] = a[i]
  BY ONLY <1>2, <1>4, <1>5
<1>7. \A i \in 1 .. Len(b) : q[Len(a) + i] = b[i]
  BY ONLY <1>2, <1>4, <1>5
<1>8. ASSUME NEW i \in 1 .. Len(c) PROVE q[Len(a) + Len(b) + i] = c[i]
  <2>1. PICK m, j : m = Len(p) /\ j = Len(a) + Len(b) + i
    OBVIOUS
  <2>2. m = Len(a) + Len(b) /\ j = m + i /\ m \in Nat
    BY <1>2, <1>5, <2>1
  <2>3. j \in 1 .. m + Len(c) /\ ~(j <= m) /\ j - m = i
    BY ONLY <1>5, <2>2, i \in 1 .. Len(c)
  <2>4. q[j] = IF j <= m THEN p[j] ELSE c[j - m]
    BY ONLY <1>4, <2>1, <2>3
  <2> QED
    BY <2>1, <2>3, <2>4
<1>9. q = a \o b \o c
  BY <1>1, <1>3
<1> QED
  BY ONLY <1>2, <1>4, <1>6, <1>7, <1>8, <1>9

(* A part of a sequence is what stands there.                              *)
LEMMA PartIs ==
  ASSUME NEW S, NEW q \in Seq(S), NEW at \in Nat, NEW p \in Seq(S), at + Len(p) <= Len(q),
         StandsAt(p, q, at)
  PROVE  SubSeq(q, at + 1, at + Len(p)) = p
<1>1. Len(p) \in Nat /\ Len(q) \in Nat
  BY LenProperties
<1>2. PICK k \in Nat : k = Len(p)
  BY <1>1
<1>3. \A i \in at + 1 .. at + k : q[i] \in S
  BY <1>1, <1>2, ElementOfSeq
<1>4. /\ SubSeq(q, at + 1, at + k) \in Seq(S)
      /\ Len(SubSeq(q, at + 1, at + k)) = IF at + 1 <= at + k THEN (at + k) - (at + 1) + 1 ELSE 0
      /\ \A i \in 1 .. (at + k) - (at + 1) + 1 : SubSeq(q, at + 1, at + k)[i] = q[(at + 1) + i - 1]
  <2>1. at + 1 \in Int /\ at + k \in Int
    OBVIOUS
  <2> QED
    BY ONLY <1>3, <2>1, SubSeqProperties
<1>5. PICK r : r = SubSeq(q, at + 1, at + k)
  OBVIOUS
<1>6. r \in Seq(S) /\ Len(r) = k
  BY ONLY <1>4, <1>5, at \in Nat, k \in Nat
<1>7. ASSUME NEW i \in 1 .. k PROVE r[i] = p[i]
  <2>1. r[i] = q[at + i]
    <3>1. i \in 1 .. (at + k) - (at + 1) + 1 /\ (at + 1) + i - 1 = at + i
      OBVIOUS
    <3> QED
      BY <1>4, <1>5, <3>1
  <2> QED
    BY <1>2, <2>1 DEF StandsAt
<1>8. r = p
  BY ONLY <1>2, <1>6, <1>7, p \in Seq(S), SeqEqual
<1> QED
  BY <1>2, <1>5, <1>8

(* The buffer after all of a frame but the last bytes was received: the    *)
(* header and the mask stand in it, and so does the data that came.        *)
Frame(hd, mask, text) == hd \o mask \o Masked(text, mask)
Came(buf, hd, mask, text, stale, lost) ==
  /\ text \in Seq(0 .. 255) /\ hd \in Seq(0 .. 255) /\ mask \in Masks
  /\ stale \in Seq(0 .. 255) /\ Len(stale) = Len(text) /\ lost \in 0 .. Len(text)
  /\ buf = SubSeq(Frame(hd, mask, text), 1, Len(Frame(hd, mask, text)) - lost) \o stale
Opens(r, text, m) ==
  r \in Seq(0 .. 255) /\ Len(r) = Len(text) /\ \A i \in 1 .. m : r[i] = text[i]
Payload(buf, k, n) == Masked(SubSeq(buf, k + 5, k + 4 + n), SubSeq(buf, k + 1, k + 4))
LEMMA FrameHas ==
  ASSUME NEW text \in Seq(0 .. 255), NEW hd \in Seq(0 .. 255), NEW mask \in Masks
  PROVE  /\ Frame(hd, mask, text) \in Seq(0 .. 255)
         /\ Len(Frame(hd, mask, text)) = Len(hd) + 4 + Len(text)
         /\ StandsAt(hd, Frame(hd, mask, text), 0)
         /\ StandsAt(mask, Frame(hd, mask, text), Len(hd))
         /\ StandsAt(Masked(text, mask), Frame(hd, mask, text), Len(hd) + 4)
         /\ mask \in Seq(0 .. 255) /\ Len(mask) = 4
         /\ Masked(text, mask) \in Seq(0 .. 255) /\ Len(Masked(text, mask)) = Len(text)
<1>1. PICK f, c, n : f = Frame(hd, mask, text) /\ c = Masked(text, mask) /\ n = Len(text)
  OBVIOUS
<1>2. f = hd \o mask \o c
  BY <1>1 DEF Frame
<1>3. c \in Seq(0 .. 255) /\ Len(c) = n /\ n \in Nat
  <2>1. n \in Nat /\ text \in [1 .. n -> 0 .. 255]
    BY <1>1, LenProperties
  <2> QED
    BY <1>1, <2>1, MaskedIs
<1>4. mask \in Seq(0 .. 255) /\ Len(mask) = 4
  <2>1. mask \in [1 .. 4 -> 0 .. 255]
    BY DEF Masks
  <2>2. PICK k \in Nat : k = 4
    OBVIOUS
  <2>3. mask \in [1 .. k -> 0 .. 255]
    BY <2>1, <2>2
  <2>4. mask \in Seq(0 .. 255) /\ Len(mask) = k
    BY ONLY <2>3, k \in Nat, FunctionIsSeq
  <2> QED
    BY ONLY <2>2, <2>4
<1>5. /\ f \in Seq(0 .. 255) /\ Len(f) = Len(hd) + Len(mask) + Len(c)
      /\ \A i \in 1 .. Len(hd) : f[i] = hd[i]
      /\ \A i \in 1 .. Len(mask) : f[Len(hd) + i] = mask[i]
      /\ \A i \in 1 .. Len(c) : f[Len(hd) + Len(mask) + i] = c[i]
  <2>1. mask \in Seq(0 .. 255) /\ c \in Seq(0 .. 255)
    BY <1>3, <1>4
  <2> QED
    BY ONLY <1>2, <2>1, hd \in Seq(0 .. 255), FrameIs
<1>6. Len(hd) \in Nat
  BY LenProperties
<1>7. Len(f) = Len(hd) + 4 + n
  BY <1>3, <1>4, <1>5, <1>6
<1>8. StandsAt(hd, f, 0)
  BY <1>5, <1>6 DEF StandsAt
<1>9. StandsAt(mask, f, Len(hd)) /\ StandsAt(c, f, Len(hd) + 4)
  BY <1>4, <1>5 DEF StandsAt
<1> QED
  BY <1>1, <1>3, <1>4, <1>5, <1>7, <1>8, <1>9

LEMMA BufferHas ==
  ASSUME NEW buf, NEW hd, NEW mask, NEW text, NEW stale, NEW lost,
         Came(buf, hd, mask, text, stale, lost)
  PROVE  /\ buf \in Seq(0 .. 255) /\ Len(buf) \in Nat
         /\ Len(buf) = Len(hd) + 4 + Len(text) - lost + Len(text)
         /\ \A i \in 1 .. Len(hd) + 4 + Len(text) - lost : buf[i] = Frame(hd, mask, text)[i]
<1>1. PICK f, n, k : f = Frame(hd, mask, text) /\ n = Len(text) /\ k = Len(hd)
  OBVIOUS
<1>2. f \in Seq(0 .. 255) /\ Len(f) = k + 4 + n /\ k \in Nat /\ n \in Nat /\ lost \in 0 .. n
  BY <1>1, FrameHas, LenProperties DEF Came
<1>3. PICK m \in Nat : m = k + 4 + n - lost /\ m <= Len(f)
  BY ONLY <1>2
<1>4. PICK g : g = SubSeq(f, 1, m)
  OBVIOUS
<1>5. g \in Seq(0 .. 255) /\ Len(g) = m /\ \A i \in 1 .. m : g[i] = f[i]
  <2>1. ASSUME NEW i \in 1 .. m PROVE f[i] \in 0 .. 255
    <3>1. i \in 1 .. Len(f)
      BY <1>2, <1>3
    <3> QED
      BY <1>2, <3>1, ElementOfSeq
  <2> QED
    BY <1>4, <2>1, SubSeqProperties
<1>6. stale \in Seq(0 .. 255) /\ Len(stale) = n /\ buf = g \o stale
  BY <1>1, <1>2, <1>3, <1>4 DEF Came
<1>7. /\ buf \in Seq(0 .. 255) /\ Len(buf) = Len(g) + Len(stale)
      /\ \A i \in 1 .. Len(g) + Len(stale) :
           buf[i] = IF i <= Len(g) THEN g[i] ELSE stale[i - Len(g)]
  <2>1. g \in Seq(0 .. 255)
    BY <1>5
  <2>2. stale \in Seq(0 .. 255) /\ buf = g \o stale
    BY <1>6, Zenon
  <2> QED
    BY ONLY <2>1, <2>2, ConcatProperties, SMTT(30)
<1>8. Len(buf) = m + n
  BY <1>5, <1>6, <1>7
<1>9. \A i \in 1 .. m : buf[i] = f[i]
  BY <1>2, <1>5, <1>6, <1>7
<1>10. Len(buf) = k + 4 + n - lost + n /\ Len(buf) \in Nat
  BY <1>2, <1>3, <1>8
<1> QED
  BY ONLY <1>1, <1>3, <1>7, <1>9, <1>10

LEMMA PayloadCame ==
  ASSUME NEW buf, NEW hd, NEW mask, NEW text, NEW stale, NEW lost,
         Came(buf, hd, mask, text, stale, lost)
  PROVE  /\ StandsAt(hd, buf, 0)
         /\ Opens(Payload(buf, Len(hd), Len(text)), text, Len(text) - lost)
<1>1. PICK f, n, k : f = Frame(hd, mask, text) /\ n = Len(text) /\ k = Len(hd)
  OBVIOUS
<1>2. PICK c : c = Masked(text, mask)
  OBVIOUS
<1>3. /\ text \in Seq(0 .. 255) /\ hd \in Seq(0 .. 255) /\ mask \in Masks
      /\ k \in Nat /\ n \in Nat /\ lost \in 0 .. n
  BY <1>1, LenProperties DEF Came
<1>4. PICK m \in Nat : m = n - lost /\ m <= n
  BY ONLY <1>3
<1>5. /\ StandsAt(hd, f, 0) /\ StandsAt(mask, f, k) /\ StandsAt(c, f, k + 4)
      /\ mask \in Seq(0 .. 255) /\ Len(mask) = 4 /\ Len(c) = n
  BY <1>1, <1>2, <1>3, FrameHas
<1>6. /\ buf \in Seq(0 .. 255) /\ Len(buf) = k + 4 + m + n
      /\ \A i \in 1 .. k + 4 + m : buf[i] = f[i]
  <2>1. /\ buf \in Seq(0 .. 255) /\ Len(buf) = k + 4 + n - lost + n
        /\ \A i \in 1 .. k + 4 + n - lost : buf[i] = f[i]
    BY <1>1, BufferHas
  <2>2. k + 4 + n - lost = k + 4 + m
    BY <1>3, <1>4
  <2> QED
    BY <2>1, <2>2
<1>7. StandsAt(hd, buf, 0)
  BY <1>1, <1>3, <1>5, <1>6 DEF StandsAt
<1>8. SubSeq(buf, k + 1, k + 4) = mask
  <2>1. StandsAt(mask, buf, k)
    BY <1>3, <1>5, <1>6 DEF StandsAt
  <2>2. k + Len(mask) <= Len(buf) /\ k + Len(mask) = k + 4
    BY <1>3, <1>5, <1>6
  <2> QED
    BY <1>3, <1>5, <1>6, <2>1, <2>2, PartIs
<1>9. PICK d : d = SubSeq(buf, k + 5, k + 4 + n)
  OBVIOUS
<1>10. d \in [1 .. n -> 0 .. 255] /\ \A i \in 1 .. m : d[i] = c[i]
  <2>1. ASSUME NEW i \in k + 5 .. k + 4 + n PROVE buf[i] \in 0 .. 255
    <3>1. i \in 1 .. Len(buf)
      BY <1>3, <1>4, <1>6
    <3> QED
      BY <1>6, <3>1, ElementOfSeq
  <2>2. k + 5 \in Int /\ k + 4 + n \in Int /\ (k + 4 + n) - (k + 5) + 1 = n
    BY <1>3
  <2>3. /\ d \in Seq(0 .. 255) /\ Len(d) = IF k + 5 <= k + 4 + n THEN n ELSE 0
        /\ \A i \in 1 .. n : d[i] = buf[k + 5 + i - 1]
    BY <1>9, <2>1, <2>2, SubSeqProperties
  <2>4. Len(d) = n
    BY <1>3, <2>3
  <2>5. d \in [1 .. n -> 0 .. 255]
    BY <2>3, <2>4, LenProperties
  <2>6. ASSUME NEW i \in 1 .. m PROVE d[i] = c[i]
    <3>1. i \in 1 .. n /\ k + 5 + i - 1 = k + 4 + i /\ k + 4 + i \in 1 .. k + 4 + m
      BY <1>3, <1>4
    <3>2. f[k + 4 + i] = c[i]
      BY <1>5, <3>1 DEF StandsAt
    <3> QED
      BY <1>6, <2>3, <3>1, <3>2
  <2> QED
    BY <2>5, <2>6
<1>11. Opens(Masked(d, mask), text, m)
  <2>1. m \in 0 .. Len(text) /\ d \in [1 .. Len(text) -> 0 .. 255]
        /\ \A i \in 1 .. m : d[i] = Masked(text, mask)[i]
    BY <1>1, <1>2, <1>4, <1>10
  <2>2. /\ Masked(d, mask) \in Seq(0 .. 255) /\ Len(Masked(d, mask)) = Len(text)
        /\ \A i \in 1 .. m : Masked(d, mask)[i] = text[i]
    BY ONLY <1>3, <2>1, MaskedAgain
  <2> QED
    BY <2>2 DEF Opens
<1> QED
  BY <1>1, <1>4, <1>7, <1>8, <1>9, <1>11 DEF Payload

-----------------------------------------------------------------------------
(* Frames of the client.                                                   *)

LEMMA ShortAnalysed ==
  ASSUME NEW n \in Nat, n < 126, NEW buf, buf[1] = 129, buf[2] = 128 + n,
         NEW len \in Nat, len >= 2
  PROVE  AnalyData(buf, len) = Payload(buf, 2, n)
<1>1. (128 + n) % 128 = n /\ n # 126 /\ n # 127
  OBVIOUS
<1>2. ~(len < 2) /\ ~(129 < 128) /\ ~(128 + n < 128)
  OBVIOUS
<1>3. 6 + 1 = 2 + 5 /\ 6 + n = 2 + 4 + n
  OBVIOUS
<1>4. AnalyData(buf, len) = Masked(SubSeq(buf, 6 + 1, 6 + n), SubSeq(buf, 2 + 1, 2 + 4))
  <2>1. ~(len < 2) /\ ~(buf[1] < 128 \/ buf[2] < 128) /\ ~(buf[2] % 128 = 126)
        /\ ~(buf[2] % 128 = 127) /\ buf[2] % 128 = n
    BY <1>1, <1>2
  <2> QED
    BY ONLY <2>1, Zenon DEF AnalyData
<1> QED
  BY ONLY <1>3, <1>4, Zenon DEF Payload
LEMMA LongAnalysed ==
  ASSUME NEW n \in Nat, NEW buf, buf[1] = 129, buf[2] = 254, TwoAt(buf, 2) = n,
         NEW len \in Nat, len >= 2
  PROVE  AnalyData(buf, len) = Payload(buf, 4, n)
<1>1. 254 % 128 = 126 /\ ~(len < 2) /\ ~(129 < 128) /\ ~(254 < 128)
  OBVIOUS
<1>2. 8 + 1 = 4 + 5 /\ 8 + n = 4 + 4 + n
  OBVIOUS
<1> QED
  BY <1>1, <1>2, Zenon DEF AnalyData, Payload, LongMaskAt
LEMMA HugeAnalysed ==
  ASSUME NEW n \in Nat, NEW buf, buf[1] = 129, buf[2] = 255, EightAt(buf, 2) = n,
         NEW len \in Nat, len >= 2
  PROVE  AnalyData(buf, len) = Payload(buf, 10, n)
<1>1. 255 % 128 = 127 /\ 127 # 126 /\ ~(len < 2) /\ ~(129 < 128) /\ ~(255 < 128)
  OBVIOUS
<1>2. 14 + 1 = 10 + 5 /\ 14 + n = 10 + 4 + n
  OBVIOUS
<1>3. AnalyData(buf, len) = Masked(SubSeq(buf, 14 + 1, 14 + n), SubSeq(buf, 10 + 1, 10 + 4))
  <2>1. ~(len < 2) /\ ~(buf[1] < 128 \/ buf[2] < 128) /\ ~(buf[2] % 128 = 126)
        /\ buf[2] % 128 = 127 /\ EightAt(buf, 2) = n
    BY <1>1
  <2> QED
    BY ONLY <2>1, Zenon DEF AnalyData
<1> QED
  BY ONLY <1>2, <1>3, Zenon DEF Payload

PutBehind(q, h, m) ==
  /\ q \in Seq(0 .. 255) /\ Len(q) = Len(h) + Len(m)
  /\ StandsAt(h, q, 0) /\ StandsAt(m, q, Len(h))
  /\ SubSeq(q, Len(h) + 1, Len(h) + Len(m)) = m
LEMMA Behind ==
  ASSUME NEW h \in Seq(0 .. 255), NEW m \in Seq(0 .. 255), NEW q, q = h \o m
  PROVE  PutBehind(q, h, m)
<1>1. /\ q \in Seq(0 .. 255) /\ Len(q) = Len(h) + Len(m)
      /\ \A i \in 1 .. Len(h) + Len(m) : q[i] = IF i <= Len(h) THEN h[i] ELSE m[i - Len(h)]
  BY ConcatProperties
<1>2. PICK a \in Nat, b \in Nat : a = Len(h) /\ b = Len(m)
  BY LenProperties
<1>3. \A i \in 1 .. a : q[0 + i] = h[i]
  BY <1>1, <1>2
<1>4. \A i \in 1 .. b : q[a + i] = m[i]
  <2>1. ASSUME NEW i \in 1 .. b PROVE q[a + i] = m[i]
    <3>1. a + i \in 1 .. a + b /\ ~(a + i <= a) /\ (a + i) - a = i
      OBVIOUS
    <3> QED
      BY <1>1, <1>2, <3>1
  <2> QED
    BY <2>1
<1>5. StandsAt(h, q, 0) /\ StandsAt(m, q, a)
  BY <1>2, <1>3, <1>4 DEF StandsAt
<1>6. SubSeq(q, a + 1, a + Len(m)) = m
  <2>1. q \in Seq(0 .. 255) /\ a + Len(m) <= Len(q)
    BY <1>1, <1>2
  <2> QED
    BY ONLY <2>1, <1>5, a \in Nat, m \in Seq(0 .. 255), PartIs
<1> QED
  BY <1>1, <1>2, <1>5, <1>6, Zenon DEF PutBehind
(* A header of four bytes.                                                 *)
TwoHeaded(q, a, n) ==
  /\ q \in Seq(0 .. 255) /\ Len(q) = 4 /\ q[1] = a[1] /\ q[2] = a[2]
  /\ StandsAt(TwoBytes(n), q, 2)
LEMMA TwoHeader ==
  ASSUME NEW n \in Nat, NEW a \in Seq(0 .. 255), Len(a) = 2, NEW q, q = a \o TwoBytes(n)
  PROVE  TwoHeaded(q, a, n)
<1>1. PICK b : b = TwoBytes(n)
  BY Zenon
<1>2. b \in Seq(0 .. 255) /\ Len(b) = 2 /\ q = a \o b
  BY <1>1, TwoBytesAre
<1>3. /\ q \in Seq(0 .. 255) /\ Len(q) = Len(a) + Len(b)
      /\ StandsAt(a, q, 0) /\ StandsAt(b, q, Len(a))
  <2>1. PutBehind(q, a, b)
    BY ONLY <1>2, a \in Seq(0 .. 255), Behind, Zenon
  <2> QED
    BY ONLY <2>1, Zenon DEF PutBehind
<1>4. Len(q) = 4
  BY ONLY <1>2, <1>3, Len(a) = 2
<1>5. q[1] = a[1] /\ q[2] = a[2]
  <2>1. 1 \in 1 .. Len(a) /\ 2 \in 1 .. Len(a) /\ 0 + 1 = 1 /\ 0 + 2 = 2
    BY ONLY Len(a) = 2
  <2> QED
    BY ONLY <1>3, <2>1 DEF StandsAt
<1> QED
  BY <1>1, <1>3, <1>4, <1>5, Len(a) = 2, Zenon DEF TwoHeaded

ClientHeader(n) == IF n < 126 THEN <<129, 128 + n>> ELSE <<129, 254>> \o TwoBytes(n)
LongHeader(n) == <<129, 255>> \o EightBytes(n)
LEMMA LongHeaderIs ==
  ASSUME NEW n \in Nat
  PROVE  /\ LongHeader(n) \in Seq(0 .. 255) /\ Len(LongHeader(n)) = 10
         /\ LongHeader(n)[1] = 129 /\ LongHeader(n)[2] = 255
         /\ StandsAt(EightBytes(n), LongHeader(n), 2)
<1>1. PICK a, b, q : a = <<129, 255>> /\ b = EightBytes(n) /\ q = LongHeader(n)
  OBVIOUS
<1>2. a \in Seq(0 .. 255) /\ Len(a) = 2 /\ b \in Seq(0 .. 255) /\ Len(b) = 8 /\ q = a \o b
  BY <1>1, EightBytesAre DEF LongHeader
<1>3. /\ q \in Seq(0 .. 255) /\ Len(q) = Len(a) + Len(b)
      /\ \A i \in 1 .. Len(a) + Len(b) : q[i] = IF i <= Len(a) THEN a[i] ELSE b[i - Len(a)]
  BY ONLY <1>2, ConcatProperties
<1>4. Len(q) = 10 /\ q[1] = 129 /\ q[2] = 255 /\ \A i \in 1 .. 8 : q[2 + i] = b[i]
  BY ONLY <1>1, <1>2, <1>3
<1> QED
  BY ONLY <1>1, <1>2, <1>3, <1>4 DEF StandsAt
(* What stands in a part stands where that part does.                      *)
LEMMA StandsWithin ==
  ASSUME NEW p, NEW hd, NEW buf, NEW at \in Nat, StandsAt(hd, buf, 0), StandsAt(p, hd, at),
         Len(p) \in Nat, Len(hd) \in Nat, at + Len(p) <= Len(hd)
  PROVE  StandsAt(p, buf, at)
<1>1. ASSUME NEW i \in 1 .. Len(p) PROVE buf[at + i] = p[i]
  <2>1. at + i \in 1 .. Len(hd) /\ 0 + (at + i) = at + i
    OBVIOUS
  <2>2. buf[0 + (at + i)] = hd[at + i]
    BY <2>1 DEF StandsAt
  <2> QED
    BY <2>1, <2>2 DEF StandsAt
<1> QED
  BY <1>1 DEF StandsAt

LEMMA LongDecoded ==
  ASSUME NEW text, Sized(Len(text)), NEW mask, NEW stale, NEW lost, NEW buf,
         Came(buf, LongHeader(Len(text)), mask, text, stale, lost), NEW len \in Nat, len >= 2
  PROVE  Opens(AnalyData(buf, len), text, Len(text) - lost)
<1>1. PICK n \in Nat : n = Len(text) /\ Sized(n)
  BY LenProperties, SMTT(20) DEF Came
<1>2. PICK hd : hd = LongHeader(n)
  BY SMTT(20)
<1>3. /\ Len(hd) = 10 /\ hd[1] = 129 /\ hd[2] = 255 /\ StandsAt(EightBytes(n), hd, 2)
      /\ Len(EightBytes(n)) = 8
  BY <1>2, LongHeaderIs, EightBytesAre, SMTT(20)
<1>4. Came(buf, hd, mask, text, stale, lost)
  BY <1>1, <1>2, SMTT(20)
<1>5. StandsAt(hd, buf, 0) /\ Opens(Payload(buf, Len(hd), Len(text)), text, Len(text) - lost)
  BY <1>4, PayloadCame, SMTT(20)
<1>6. buf[1] = 129 /\ buf[2] = 255
  <2>1. 1 \in 1 .. 10 /\ 2 \in 1 .. 10 /\ 0 + 1 = 1 /\ 0 + 2 = 2
    BY SMTT(20)
  <2> QED
    BY <1>3, <1>5, <2>1, SMTT(20) DEF StandsAt
<1>7. EightAt(buf, 2) = n
  <2>1. StandsAt(EightBytes(n), buf, 2)
    <3>1. Len(EightBytes(n)) \in Nat /\ Len(hd) \in Nat /\ 2 + Len(EightBytes(n)) <= Len(hd) /\ 2 \in Nat
      BY <1>3, SMTT(20)
    <3>2. StandsAt(EightBytes(n), hd, 2) /\ StandsAt(hd, buf, 0)
      BY <1>3, <1>5, SMTT(20)
    <3> QED
      BY ONLY <3>1, <3>2, StandsWithin, Zenon
  <2>2. 2 \in Nat
    BY SMTT(20)
  <2> QED
    BY ONLY <1>1, <2>1, <2>2, n \in Nat, EightAreRead, SMTT(20)
<1>8. AnalyData(buf, len) = Payload(buf, 10, n)
  BY ONLY <1>6, <1>7, n \in Nat, len \in Nat, len >= 2, HugeAnalysed, SMTT(20)
<1> QED
  BY <1>1, <1>3, <1>5, <1>8, Zenon

Brief(m) == InTwoBytes(Len(m))
LEMMA ClientDecoded ==
  ASSUME NEW text, Brief(text), NEW mask, NEW stale, NEW lost, NEW buf,
         Came(buf, ClientHeader(Len(text)), mask, text, stale, lost), NEW len \in Nat, len >= 2
  PROVE  Opens(AnalyData(buf, len), text, Len(text) - lost)
<1>1. PICK n \in Nat : n = Len(text) /\ InTwoBytes(n)
  BY LenProperties, Zenon DEF Came, Brief
<1>2. PICK hd : hd = ClientHeader(n)
  BY SMTT(20)
<1>4. Came(buf, hd, mask, text, stale, lost)
  BY <1>1, <1>2, SMTT(20)
<1>5. StandsAt(hd, buf, 0) /\ Opens(Payload(buf, Len(hd), Len(text)), text, Len(text) - lost)
  BY <1>4, PayloadCame, SMTT(20)
<1>3. StandsAt(hd, buf, 0)
  BY <1>5, SMTT(20)
<1>6. CASE n < 126
  <2>1. hd = <<129, 128 + n>>
    BY <1>2, <1>6, SMTT(20) DEF ClientHeader
  <2>2. Len(hd) = 2 /\ hd[1] = 129 /\ hd[2] = 128 + n
    BY ONLY <2>1, SMTT(20)
  <2>3. buf[1] = 129 /\ buf[2] = 128 + n
    <3>1. 1 \in 1 .. 2 /\ 2 \in 1 .. 2 /\ 0 + 1 = 1 /\ 0 + 2 = 2
      BY SMTT(20)
    <3> QED
      BY ONLY <1>5, <2>2, <3>1, SMTT(20) DEF StandsAt
  <2>4. AnalyData(buf, len) = Payload(buf, 2, n)
    BY ONLY <1>6, <2>3, n \in Nat, len \in Nat, len >= 2, ShortAnalysed, SMTT(20)
  <2> QED
    BY ONLY <1>1, <1>5, <2>2, <2>4, SMTT(20)
<1>7. CASE ~(n < 126)
  <2>1. hd = <<129, 254>> \o TwoBytes(n)
    BY <1>2, <1>7, SMTT(20) DEF ClientHeader
  <2>2. /\ Len(hd) = 4 /\ hd[1] = 129 /\ hd[2] = 254 /\ StandsAt(TwoBytes(n), hd, 2)
        /\ Len(TwoBytes(n)) = 2
    <3>1. PICK a : a = <<129, 254>>
      BY Zenon
    <3>2. a \in Seq(0 .. 255) /\ Len(a) = 2 /\ a[1] = 129 /\ a[2] = 254
      BY ONLY <3>1, SMTT(20)
    <3>3. hd = a \o TwoBytes(n)
      BY <2>1, <3>1, Zenon
    <3>4. TwoHeaded(hd, a, n)
      BY <3>2, <3>3, TwoHeader, Zenon
    <3> QED
      BY <3>2, <3>4, TwoBytesAre, SMTT(20) DEF TwoHeaded
  <2>3. buf[1] = 129 /\ buf[2] = 254
    <3>1. 1 \in 1 .. 4 /\ 2 \in 1 .. 4 /\ 0 + 1 = 1 /\ 0 + 2 = 2
      BY SMTT(20)
    <3> QED
      BY ONLY <1>5, <2>2, <3>1, SMTT(20) DEF StandsAt
  <2>4. TwoAt(buf, 2) = n
    <3>1. StandsAt(TwoBytes(n), buf, 2)
      <4>0. StandsAt(TwoBytes(n), hd, 2)
        BY <2>2, SMTT(20)
      <4>1. Len(TwoBytes(n)) \in Nat /\ Len(hd) \in Nat /\ 2 + Len(TwoBytes(n)) <= Len(hd) /\ 2 \in Nat
        BY <2>2, SMTT(20)
      <4> QED
        BY ONLY <1>3, <4>0, <4>1, StandsWithin, SMTT(20)
    <3>2. 2 \in Nat
      BY SMTT(20)
    <3> QED
      BY ONLY <1>1, <3>1, <3>2, n \in Nat, TwoAreRead, Zenon
  <2>5. AnalyData(buf, len) = Payload(buf, 4, n)
    BY ONLY <2>3, <2>4, n \in Nat, len \in Nat, len >= 2, LongAnalysed, SMTT(20)
  <2> QED
    BY ONLY <1>1, <1>5, <2>2, <2>5, SMTT(20)
<1> QED
  BY <1>6, <1>7, SMTT(20)

LEMMA OpensAll ==
  ASSUME NEW r, NEW text \in Seq(0 .. 255), Opens(r, text, Len(text))
  PROVE  r = text
BY SeqEqual DEF Opens
LEMMA OpensWithPrefix ==
  ASSUME NEW r, NEW text \in Seq(0 .. 255), NEW m \in 0 .. Len(text), Opens(r, text, m)
  PROVE  IsPrefix(SubSeq(text, 1, m), r)
<1>1. r \in Seq(0 .. 255) /\ Len(r) = Len(text) /\ Len(text) \in Nat /\ m \in Nat
  BY LenProperties DEF Opens
<1>2. ASSUME NEW i \in 1 .. m PROVE text[i] \in 0 .. 255 /\ r[i] = text[i] /\ r[i] \in 0 .. 255
  <2>1. i \in 1 .. Len(text) /\ i \in 1 .. Len(r)
    BY <1>1
  <2> QED
    BY <1>1, <2>1, ElementOfSeq DEF Opens
<1>3. PICK p : p = SubSeq(text, 1, m)
  OBVIOUS
<1>4. p \in Seq(0 .. 255) /\ Len(p) = m /\ \A i \in 1 .. m : p[i] = text[i]
  BY <1>1, <1>2, <1>3, SubSeqProperties
<1>5. PICK q : q = SubSeq(r, 1, m)
  OBVIOUS
<1>6. q \in Seq(0 .. 255) /\ Len(q) = m /\ \A i \in 1 .. m : q[i] = r[i]
  BY <1>1, <1>2, <1>5, SubSeqProperties
<1>7. p = q
  <2>1. \A i \in 1 .. m : p[i] = q[i]
    BY <1>2, <1>4, <1>6
  <2> QED
    BY ONLY <1>4, <1>6, <2>1, SeqEqual
<1>8. SubSeq(p, 1, m) = p
  BY <1>4, SubSeqFull
<1>9. Len(p) <= Len(r)
  BY <1>1, <1>4
<1> QED
  BY <1>3, <1>4, <1>5, <1>7, <1>8, <1>9 DEF IsPrefix

LEMMA FramesAreRead ==
  ASSUME NEW text \in Seq(0 .. 255), Sized(Len(text)), WsMasks \subseteq Masks
  PROVE  FramesReturn(text)
<1> SUFFICES ASSUME NEW mask \in WsMasks
             PROVE  LET n == Len(text)
                        long == LongFrame(text, mask)
                        frame == ClientFrame(text, mask)
                        stale == [i \in 1 .. n |-> 48]
                    IN /\ AnalyData(long \o stale, Len(long)) = text
                       /\ InTwoBytes(n) =>
                            /\ AnalyData(frame \o stale, Len(frame)) = text
                            /\ \A lost \in {n \div 2, n} :
                                 LET came == Len(frame) - lost
                                 IN IsPrefix(SubSeq(text, 1, n - lost),
                                             AnalyData(SubSeq(frame, 1, came) \o stale, came))
  BY Zenon DEF FramesReturn
<1>1. mask \in Masks
  BY SMTT(20)
<1>2. PICK n \in Nat : n = Len(text) /\ Sized(n)
  BY LenProperties, Zenon
<1>3. PICK stale : stale = [i \in 1 .. n |-> 48]
  BY Zenon
<1>4. stale \in Seq(0 .. 255) /\ Len(stale) = n
  <2>1. stale \in [1 .. n -> 0 .. 255]
    BY <1>3, SMTT(20)
  <2> QED
    BY <2>1, FunctionIsSeq, SMTT(20)
<1>5. LongFrame(text, mask) = Frame(LongHeader(n), mask, text)
  BY <1>2, Zenon DEF LongFrame, Frame, LongHeader
<1>6. ClientFrame(text, mask) = Frame(ClientHeader(n), mask, text)
  BY <1>2, Zenon DEF ClientFrame, Frame, ClientHeader
<1>7. LongHeader(n) \in Seq(0 .. 255) /\ Len(LongHeader(n)) = 10
  BY LongHeaderIs, SMTT(20)
<1>8. ASSUME InTwoBytes(n)
      PROVE  ClientHeader(n) \in Seq(0 .. 255) /\ Len(ClientHeader(n)) \in Nat
  <2>1. CASE n < 126
    <3>1. PICK x \in 0 .. 255 : x = 128 + n
      BY <2>1, SMTT(20)
    <3>2. ClientHeader(n) = <<129, x>>
      BY <2>1, <3>1, SMTT(20) DEF ClientHeader
    <3>3. <<129, x>> \in Seq(0 .. 255) /\ Len(<<129, x>>) = 2
      BY SMTT(20)
    <3> QED
      BY <3>2, <3>3, SMTT(20)
  <2>2. CASE ~(n < 126)
    <3>1. ClientHeader(n) = <<129, 254>> \o TwoBytes(n)
      BY <2>2, SMTT(20) DEF ClientHeader
    <3>2. PICK a : a = <<129, 254>>
      BY Zenon
    <3>3. a \in Seq(0 .. 255) /\ Len(a) = 2
      BY ONLY <3>2, SMTT(20)
    <3>4. ClientHeader(n) = a \o TwoBytes(n)
      BY <3>1, <3>2, Zenon
    <3>5. TwoHeaded(ClientHeader(n), a, n)
      BY ONLY <3>3, <3>4, n \in Nat, TwoHeader, Zenon
    <3>6. ClientHeader(n) \in Seq(0 .. 255) /\ Len(ClientHeader(n)) = 4
      BY ONLY <3>5, Zenon DEF TwoHeaded
    <3> QED
      BY <3>6, SMTT(20)
  <2> QED
    BY <2>1, <2>2, SMTT(20)
<1>9. ASSUME NEW hd, hd \in Seq(0 .. 255)
      PROVE  /\ Frame(hd, mask, text) \in Seq(0 .. 255)
             /\ Len(Frame(hd, mask, text)) = Len(hd) + 4 + n /\ Len(hd) \in Nat
             /\ Came(Frame(hd, mask, text) \o stale, hd, mask, text, stale, 0)
             /\ \A lost \in 0 .. n :
                  Came(SubSeq(Frame(hd, mask, text), 1, Len(Frame(hd, mask, text)) - lost) \o stale,
                       hd, mask, text, stale, lost)
  <2>1. PICK f : f = Frame(hd, mask, text)
    BY SMTT(20)
  <2>2. f \in Seq(0 .. 255) /\ Len(f) = Len(hd) + 4 + n /\ Len(hd) \in Nat
    BY <1>1, <1>2, <1>9, <2>1, FrameHas, LenProperties, SMTT(20)
  <2>3. \A lost \in 0 .. n : Came(SubSeq(f, 1, Len(f) - lost) \o stale, hd, mask, text, stale, lost)
    BY <1>1, <1>2, <1>4, <1>9, <2>1, SMTT(20) DEF Came
  <2>4. SubSeq(f, 1, Len(f) - 0) = f
    <3>1. Len(f) - 0 = Len(f)
      BY <2>2, SMTT(20)
    <3> QED
      BY <2>2, <3>1, SubSeqFull, SMTT(20)
  <2>5. Came(f \o stale, hd, mask, text, stale, 0)
    <3>1. 0 \in 0 .. n
      BY SMTT(20)
    <3> QED
      BY <2>3, <2>4, <3>1, Zenon
  <2> QED
    BY <2>1, <2>2, <2>3, <2>5, SMTT(20)
<1>10. ASSUME NEW r, Opens(r, text, Len(text) - 0) PROVE r = text
  <2>1. Len(text) - 0 = Len(text)
    BY <1>2, SMTT(20)
  <2>2. Opens(r, text, Len(text))
    BY ONLY <1>10, <2>1, SMTT(20)
  <2> QED
    BY <2>2, OpensAll, SMTT(20)
<1>11. AnalyData(LongFrame(text, mask) \o stale, Len(LongFrame(text, mask))) = text
  <2>1. PICK f, hd : f = LongFrame(text, mask) /\ hd = LongHeader(n)
    BY SMTT(20)
  <2>2. Len(f) \in Nat /\ Len(f) >= 2 /\ Came(f \o stale, LongHeader(Len(text)), mask, text, stale, 0)
    BY <1>2, <1>5, <1>7, <1>9, <2>1, SMTT(20)
  <2>3. Opens(AnalyData(f \o stale, Len(f)), text, Len(text) - 0)
    BY <1>2, <2>2, LongDecoded, SMTT(20)
  <2> QED
    BY <1>10, <2>1, <2>3, SMTT(20)
<1>12. ASSUME InTwoBytes(n)
       PROVE  /\ AnalyData(ClientFrame(text, mask) \o stale, Len(ClientFrame(text, mask))) = text
              /\ \A lost \in {n \div 2, n} :
                   IsPrefix(SubSeq(text, 1, n - lost),
                     AnalyData(SubSeq(ClientFrame(text, mask), 1, Len(ClientFrame(text, mask)) - lost)
                                 \o stale, Len(ClientFrame(text, mask)) - lost))
  <2>1. PICK f : f = ClientFrame(text, mask)
    BY SMTT(20)
  <2>2. /\ Len(f) \in Nat /\ Len(f) >= 4 + n
        /\ Came(f \o stale, ClientHeader(Len(text)), mask, text, stale, 0)
        /\ \A lost \in 0 .. n :
             Came(SubSeq(f, 1, Len(f) - lost) \o stale, ClientHeader(Len(text)), mask, text, stale, lost)
    <3>1. PICK hd : hd = ClientHeader(n) /\ hd \in Seq(0 .. 255) /\ Len(hd) \in Nat
      BY <1>8, <1>12, Zenon
    <3>2. f = Frame(hd, mask, text)
      BY <1>6, <2>1, <3>1, Zenon
    <3>3. /\ Len(f) = Len(hd) + 4 + n /\ Came(f \o stale, hd, mask, text, stale, 0)
          /\ \A lost \in 0 .. n :
               Came(SubSeq(f, 1, Len(f) - lost) \o stale, hd, mask, text, stale, lost)
      BY <1>9, <3>1, <3>2, Zenon
    <3>4. Len(f) \in Nat /\ Len(f) >= 4 + n
      BY ONLY <3>1, <3>3, n \in Nat, SMT
    <3> QED
      BY <1>2, <3>1, <3>3, <3>4, Zenon
  <2>3. Opens(AnalyData(f \o stale, Len(f)), text, Len(text) - 0)
    <3>1. Len(f) >= 2 /\ Brief(text)
      BY <1>2, <1>12, <2>2, SMTT(20) DEF Brief
    <3> QED
      BY ONLY <2>2, <3>1, ClientDecoded, SMTT(20)
  <2>4. ASSUME NEW lost \in {n \div 2, n}
        PROVE  IsPrefix(SubSeq(text, 1, n - lost),
                        AnalyData(SubSeq(f, 1, Len(f) - lost) \o stale, Len(f) - lost))
    <3>1. lost \in 0 .. n /\ n - lost \in 0 .. n
      BY SMTT(20)
    <3>2. Len(f) - lost \in Nat /\ Len(f) - lost >= 2 /\ Brief(text)
      BY <1>2, <1>12, <2>2, <3>1, SMTT(20) DEF Brief
    <3>3. Came(SubSeq(f, 1, Len(f) - lost) \o stale, ClientHeader(Len(text)), mask, text, stale, lost)
      BY <2>2, <3>1, SMTT(20)
    <3>4. Opens(AnalyData(SubSeq(f, 1, Len(f) - lost) \o stale, Len(f) - lost), text, n - lost)
      BY ONLY <1>2, <3>2, <3>3, ClientDecoded, SMTT(20)
    <3> QED
      BY <1>2, <3>1, <3>4, OpensWithPrefix, SMTT(20)
  <2> QED
    BY <1>10, <2>1, <2>3, <2>4, SMTT(20)
<1> QED
  BY <1>2, <1>3, <1>11, <1>12, Zenon

-----------------------------------------------------------------------------
(* Strings.                                                                *)

(* m is where the string ends that begins text: at its first zero, or with *)
(* the text itself.                                                        *)
EndsAt(text, m) ==
  /\ m \in 0 .. Len(text) /\ \A i \in 1 .. m : text[i] # 0
  /\ m < Len(text) => text[m + 1] = 0
LEMMA StringIs ==
  ASSUME NEW text \in Seq(0 .. 255)
  PROVE  \E m : EndsAt(text, m) /\ AsString(text) = SubSeq(text, 1, m)
<1> DEFINE Z == {i \in 1 .. Len(text) : text[i] = 0}
           z == SelectInSeq(text, LAMBDA b : b = 0)
<1>0. Len(text) \in Nat
  BY LenProperties
<1>1. AsString(text) = IF z = 0 THEN text ELSE SubSeq(text, 1, z - 1)
  BY DEF AsString
<1>2. CASE Z = {}
  <2>1. z = 0
    BY <1>2 DEF SelectInSeq
  <2>2. AsString(text) = SubSeq(text, 1, Len(text))
    BY <1>1, <2>1, SubSeqFull
  <2>3. EndsAt(text, Len(text))
    BY <1>0, <1>2 DEF EndsAt
  <2> QED
    BY <2>2, <2>3
<1>3. CASE Z # {}
  <2>1. z = CHOOSE x \in Z : \A y \in Z : x <= y
    BY <1>3 DEF SelectInSeq, Min
  <2>2. \E x \in Z : \A y \in Z : x <= y
    <3>1. Z \subseteq Nat
      OBVIOUS
    <3> HIDE DEF Z
    <3> QED
      BY <1>3, <3>1, LeastNumber
  <2>3. z \in Z /\ \A y \in Z : z <= y
    BY ONLY <2>1, <2>2, Zenon
  <2> HIDE DEF z
  <2>4. AsString(text) = SubSeq(text, 1, z - 1)
    BY <1>0, <1>1, <2>3
  <2>5. EndsAt(text, z - 1)
    <3>1. z \in 1 .. Len(text) /\ text[z] = 0
      BY <2>3
    <3>2. ASSUME NEW i \in 1 .. z - 1 PROVE text[i] # 0
      <4>1. i \in 1 .. Len(text) /\ ~(z <= i)
        BY <1>0, <3>1
      <4> QED
        BY <2>3, <4>1
    <3>3. z - 1 \in 0 .. Len(text) /\ z - 1 + 1 = z
      BY <1>0, <3>1
    <3> QED
      BY <3>1, <3>2, <3>3 DEF EndsAt
  <2> QED
    BY <2>4, <2>5
<1> QED
  BY <1>2, <1>3

(* There is one such place only.                                           *)
LEMMA OneEnd ==
  ASSUME NEW text \in Seq(0 .. 255), NEW m, EndsAt(text, m), NEW k, EndsAt(text, k)
  PROVE  m = k
<1>0. Len(text) \in Nat
  BY LenProperties
<1>1. ASSUME m < k PROVE FALSE
  BY <1>0, <1>1 DEF EndsAt
<1>2. ASSUME k < m PROVE FALSE
  BY <1>0, <1>2 DEF EndsAt
<1> QED
  BY <1>0, <1>1, <1>2 DEF EndsAt

LEMMA StringHas ==
  ASSUME NEW text \in Seq(0 .. 255)
  PROVE  /\ AsString(text) \in Seq(0 .. 255) /\ Len(AsString(text)) \in 0 .. Len(text)
         /\ \A i \in 1 .. Len(AsString(text)) : AsString(text)[i] = text[i] /\ text[i] # 0
<1>1. PICK m : EndsAt(text, m) /\ AsString(text) = SubSeq(text, 1, m)
  BY StringIs
<1>2. m \in 0 .. Len(text) /\ Len(text) \in Nat
  BY <1>1, LenProperties DEF EndsAt
<1>3. ASSUME NEW i \in 1 .. m PROVE text[i] \in 0 .. 255
  <2>1. i \in 1 .. Len(text)
    BY <1>2
  <2> QED
    BY <2>1, ElementOfSeq
<1>4. PICK t : t = SubSeq(text, 1, m)
  OBVIOUS
<1>5. t \in Seq(0 .. 255) /\ Len(t) = m /\ \A i \in 1 .. m : t[i] = text[i]
  BY <1>2, <1>3, <1>4, SubSeqProperties
<1>6. \A i \in 1 .. m : text[i] # 0
  BY <1>1 DEF EndsAt
<1> QED
  BY <1>1, <1>2, <1>4, <1>5, <1>6

Plain(t) == t \in Seq(0 .. 255) /\ \A i \in 1 .. Len(t) : t[i] # 0
LEMMA ZerosBehind ==
  ASSUME NEW t, Plain(t), NEW j \in Nat
  PROVE  AsString(t \o Zeros(j)) = t
<1>1. PICK n \in Nat : n = Len(t)
  BY LenProperties DEF Plain
<1>2. PICK z : z = Zeros(j)
  OBVIOUS
<1>3. z \in Seq(0 .. 255) /\ Len(z) = j /\ \A i \in 1 .. j : z[i] = 0
  <2>1. z = [i \in 1 .. j |-> 0]
    BY <1>2 DEF Zeros
  <2>2. z \in [1 .. j -> 0 .. 255] /\ \A i \in 1 .. j : z[i] = 0
    BY <2>1
  <2> QED
    BY <2>2, FunctionIsSeq
<1>4. PICK q : q = t \o z
  OBVIOUS
<1>5. /\ q \in Seq(0 .. 255) /\ Len(q) = n + j
      /\ \A i \in 1 .. n + j : q[i] = IF i <= n THEN t[i] ELSE z[i - n]
  <2>1. t \in Seq(0 .. 255)
    BY DEF Plain
  <2>2. /\ q \in Seq(0 .. 255) /\ Len(q) = Len(t) + Len(z)
        /\ \A i \in 1 .. Len(t) + Len(z) : q[i] = IF i <= Len(t) THEN t[i] ELSE z[i - Len(t)]
    <3>1. z \in Seq(0 .. 255)
      BY <1>3, Zenon
    <3> QED
      BY ONLY <1>4, <2>1, <3>1, ConcatProperties, SMTT(30)
  <2> QED
    BY <1>1, <1>3, <2>2
<1>6. EndsAt(q, n)
  <2>1. \A i \in 1 .. n : q[i] # 0
    BY <1>1, <1>5 DEF Plain
  <2>2. ASSUME n < n + j PROVE q[n + 1] = 0
    <3>1. n + 1 \in 1 .. n + j /\ ~(n + 1 <= n) /\ n + 1 - n = 1 /\ 1 \in 1 .. j
      BY <2>2
    <3> QED
      BY <1>3, <1>5, <3>1
  <2> QED
    BY <1>5, <2>1, <2>2 DEF EndsAt
<1>7. PICK m : EndsAt(q, m) /\ AsString(q) = SubSeq(q, 1, m)
  BY <1>5, StringIs
<1>8. m = n
  BY <1>5, <1>6, <1>7, OneEnd
<1>9. SubSeq(q, 1, n) = t
  <2>1. \A i \in 1 .. n : q[0 + i] = t[i]
    BY <1>5
  <2>2. StandsAt(t, q, 0) /\ 0 + Len(t) <= Len(q) /\ 0 \in Nat
    BY <1>1, <1>5, <2>1 DEF StandsAt
  <2>3. SubSeq(q, 0 + 1, 0 + Len(t)) = t
    <3>1. t \in Seq(0 .. 255) /\ q \in Seq(0 .. 255)
      BY <1>5 DEF Plain
    <3> QED
      BY ONLY <2>2, <3>1, PartIs
  <2>4. 0 + 1 = 1 /\ 0 + Len(t) = n
    BY <1>1
  <2> QED
    BY <2>3, <2>4
<1> QED
  BY <1>2, <1>4, <1>7, <1>8, <1>9

LEMMA StringOfString ==
  ASSUME NEW text \in Seq(0 .. 255)
  PROVE  Plain(AsString(text)) /\ AsString(AsString(text)) = AsString(text)
<1>1. PICK t : t = AsString(text)
  OBVIOUS
<1>2. Plain(t)
  BY <1>1, StringHas DEF Plain
<1>3. t \o Zeros(0) = t
  <2>1. Zeros(0) = << >>
    BY DEF Zeros
  <2> QED
    BY <1>2, <2>1, ConcatEmptySeq DEF Plain
<1>4. AsString(t \o Zeros(0)) = t
  BY <1>2, ZerosBehind
<1> QED
  BY <1>1, <1>2, <1>3, <1>4

-----------------------------------------------------------------------------
(* Frames of the server.                                                   *)

LEMMA ShortIsRead ==
  ASSUME NEW m \in Seq(0 .. 255), NEW h \in Seq(0 .. 255), Len(h) = 2, h[2] = Len(m), h[2] # 126
  PROVE  ClientReads(h \o m) = m
<1>1. PICK q : q = h \o m
  OBVIOUS
<1>2. StandsAt(h, q, 0) /\ SubSeq(q, Len(h) + 1, Len(h) + Len(m)) = m
  <2>1. PutBehind(q, h, m)
    BY ONLY <1>1, h \in Seq(0 .. 255), m \in Seq(0 .. 255), Behind, Zenon
  <2> QED
    BY ONLY <2>1, Zenon DEF PutBehind
<1>3. 2 \in 1 .. Len(h) /\ 0 + 2 = 2
  OBVIOUS
<1>4. q[2] = h[2]
  <2>1. q[0 + 2] = h[2]
    BY <1>2, <1>3, Zenon DEF StandsAt
  <2> QED
    BY ONLY <1>3, <2>1, Zenon
<1>5. SubSeq(q, 2 + 1, 2 + h[2]) = m
  BY ONLY <1>2, Len(h) = 2, h[2] = Len(m), Zenon
<1>6. SubSeq(q, 3, 2 + q[2]) = m
  <2>1. 2 + 1 = 3
    OBVIOUS
  <2> QED
    BY ONLY <1>4, <1>5, <2>1, Zenon
<1> QED
  BY <1>1, <1>4, <1>6, Zenon DEF ClientReads

LEMMA LongIsRead ==
  ASSUME NEW m \in Seq(0 .. 255), Brief(m)
  PROVE  ClientReads((<<129, 126>> \o TwoBytes(Len(m))) \o m) = m
<1>0. Len(m) \in Nat
  BY LenProperties, SMTT(20)
<1>1. PICK h : h = <<129, 126>> \o TwoBytes(Len(m))
  BY Zenon
<1>2. h \in Seq(0 .. 255) /\ Len(h) = 4 /\ h[2] = 126 /\ StandsAt(TwoBytes(Len(m)), h, 2)
  <2>1. 126 \in 0 .. 255
    BY SMTT(20)
  <2>2. PICK n \in Nat : n = Len(m)
    BY <1>0, Zenon
  <2>3. PICK x \in 0 .. 255 : x = 126
    BY <2>1, Zenon
  <2>4. PICK a : a = <<129, x>>
    BY Zenon
  <2>5. a \in Seq(0 .. 255) /\ Len(a) = 2 /\ a[2] = x
    BY ONLY <2>4, x \in 0 .. 255, SMTT(20)
  <2>6. h = a \o TwoBytes(n)
    BY <1>1, <2>2, <2>3, <2>4, Zenon
  <2>7. TwoHeaded(h, a, n)
    BY ONLY <2>5, <2>6, n \in Nat, TwoHeader, Zenon
  <2> QED
    BY <2>2, <2>3, <2>5, <2>7, Zenon DEF TwoHeaded
<1>3. PICK q : q = h \o m
  BY Zenon
<1>4. StandsAt(h, q, 0) /\ SubSeq(q, Len(h) + 1, Len(h) + Len(m)) = m
  <2>1. h \in Seq(0 .. 255)
    BY <1>2, Zenon
  <2>2. PutBehind(q, h, m)
    BY ONLY <2>1, <1>3, m \in Seq(0 .. 255), Behind, Zenon
  <2> QED
    BY ONLY <2>2, Zenon DEF PutBehind
<1>5. 2 \in 1 .. Len(h) /\ 0 + 2 = 2
  BY <1>2, SMTT(20)
<1>6. q[2] = 126
  <2>1. q[0 + 2] = h[2]
    BY <1>4, <1>5, Zenon DEF StandsAt
  <2> QED
    BY ONLY <1>2, <1>5, <2>1, Zenon
<1>7. TwoAt(q, 2) = Len(m)
  <2>1. Len(TwoBytes(Len(m))) = 2
    BY <1>0, TwoBytesAre, SMTT(20)
  <2>2. 2 \in Nat /\ Len(TwoBytes(Len(m))) \in Nat /\ Len(h) \in Nat /\ 2 + Len(TwoBytes(Len(m))) <= Len(h)
    BY ONLY <1>2, <2>1, SMTT(20)
  <2>3. StandsAt(TwoBytes(Len(m)), q, 2)
    <3>1. StandsAt(h, q, 0) /\ StandsAt(TwoBytes(Len(m)), h, 2)
      BY <1>2, <1>4, Zenon
    <3> QED
      BY ONLY <2>2, <3>1, StandsWithin, Zenon
  <2>4. InTwoBytes(Len(m))
    BY Zenon DEF Brief
  <2> QED
    BY ONLY <2>2, <2>3, <1>0, <2>4, TwoAreRead, Zenon
<1>8. SubSeq(q, 5, 4 + TwoAt(q, 2)) = m
  <2>1. 4 + 1 = 5
    BY SMTT(20)
  <2> QED
    BY ONLY <1>2, <1>4, <1>7, <2>1, Zenon
<1> QED
  BY <1>1, <1>3, <1>6, <1>8, Zenon DEF ClientReads

LEMMA NoSuchFrame ==
  ASSUME NEW h, NEW n \in Nat, n # 1, Len(h) = n
  PROVE  h # NoFrame
<1>1. Len(NoFrame) = 1
  BY SMTT(20) DEF NoFrame
<1> QED
  BY <1>1, Zenon

(* What the server packs, up to the end of the string.                     *)
AnswerOf(m) == IF Len(m) < 126 THEN <<129, Len(m)>> ELSE <<129, 126>> \o TwoBytes(Len(m))
Packable(m) == Len(m) < 65535
LEMMA AnswerIs ==
  ASSUME NEW m \in Seq(0 .. 255), Packable(m)
  PROVE  AnswerOf(m) \in Seq(0 .. 255) /\ Len(AnswerOf(m)) \in {2, 4} /\ PackHeader(Len(m)) = AnswerOf(m)
<1>1. PICK n \in Nat : n = Len(m) /\ n < 65535
  BY LenProperties, SMTT(20) DEF Packable
<1>2. CASE n < 126
  <2>1. PICK x \in 0 .. 255 : x = n
    BY <1>2, SMTT(20)
  <2>2. AnswerOf(m) = <<129, x>> /\ PackHeader(Len(m)) = <<129, x>>
    BY <1>1, <1>2, <2>1, SMTT(20) DEF AnswerOf, PackHeader
  <2>3. <<129, x>> \in Seq(0 .. 255) /\ Len(<<129, x>>) = 2
    BY SMTT(20)
  <2> QED
    BY <2>2, <2>3, SMTT(20)
<1>3. CASE ~(n < 126)
  <2>1. PICK h : h = <<129, 126>> \o TwoBytes(n)
    BY Zenon
  <2>2. h \in Seq(0 .. 255) /\ Len(h) = 4
    <3>1. PICK x \in 0 .. 255 : x = 126
      BY SMTT(20)
    <3>2. PICK a : a = <<129, x>>
      BY Zenon
    <3>3. a \in Seq(0 .. 255) /\ Len(a) = 2
      BY ONLY <3>2, x \in 0 .. 255, SMTT(20)
    <3>4. h = a \o TwoBytes(n)
      BY <2>1, <3>1, <3>2, Zenon
    <3> QED
      BY ONLY <3>3, <3>4, n \in Nat, TwoHeader, Zenon DEF TwoHeaded
  <2>3. AnswerOf(m) = h /\ PackHeader(Len(m)) = h
    BY <1>1, <1>3, <2>1, SMTT(20) DEF AnswerOf, PackHeader
  <2> QED
    BY <2>2, <2>3, SMTT(20)
<1> QED
  BY <1>2, <1>3, SMTT(20)

LEMMA AnswersAreRead ==
  ASSUME NEW text \in Seq(0 .. 255)
  PROVE  AnswersReturn(text)
<1> SUFFICES ASSUME Packable(AsString(text))
             PROVE  ClientReads(PackData(text)) = AsString(text)
  BY SMTT(20) DEF AnswersReturn, Packable
<1>1. PICK m : m = AsString(text)
  BY Zenon
<1>2. m \in Seq(0 .. 255) /\ Packable(m)
  BY <1>1, StringHas, SMTT(20)
<1>3. PICK h : h = AnswerOf(m)
  BY Zenon
<1>4. h \in Seq(0 .. 255) /\ Len(h) \in {2, 4} /\ PackHeader(Len(m)) = h
  BY ONLY <1>2, <1>3, AnswerIs, SMTT(20)
<1>5. h # NoFrame
  <2>1. ASSUME NEW n \in Nat, n # 1, Len(h) = n PROVE h # NoFrame
    BY ONLY <2>1, n \in Nat, NoSuchFrame, SMTT(20)
  <2>2. 2 \in Nat /\ 4 \in Nat /\ 2 # 1 /\ 4 # 1
    BY SMTT(20)
  <2>3. Len(h) = 2 \/ Len(h) = 4
    BY <1>4, Zenon
  <2> QED
    BY <2>1, <2>2, <2>3, Zenon
<1>6. PackData(text) = h \o m
  BY <1>1, <1>4, <1>5, Zenon DEF PackData
<1>7. ClientReads(h \o m) = m
  <2>1. CASE Len(m) < 126
    <3>1. h = <<129, Len(m)>>
      BY <1>3, <2>1, SMTT(20) DEF AnswerOf
    <3>2. Len(h) = 2 /\ h[2] = Len(m)
      BY ONLY <3>1, SMTT(20)
    <3>3. PICK n \in Nat : n = Len(m) /\ n # 126
      <4>1. Len(m) \in Nat
        BY <1>2, LenProperties, SMTT(20)
      <4> QED
        BY ONLY <2>1, <4>1, SMTT(20)
    <3>4. h[2] # 126
      BY <3>2, <3>3, Zenon
    <3> QED
      BY ONLY <1>2, <1>4, <3>2, <3>4, ShortIsRead, Zenon
  <2>2. CASE ~(Len(m) < 126)
    <3>1. h = <<129, 126>> \o TwoBytes(Len(m))
      BY <1>3, <2>2, Zenon DEF AnswerOf
    <3>2. Brief(m)
      <4>1. Len(m) \in Nat /\ Packable(m)
        BY <1>2, LenProperties, Zenon
      <4> QED
        BY ONLY <4>1, SMTT(20) DEF Brief, InTwoBytes, Packable
    <3>3. m \in Seq(0 .. 255)
      BY <1>2, SMTT(20)
    <3> QED
      BY <3>1, <3>2, <3>3, LongIsRead, Zenon
  <2> QED
    BY <2>1, <2>2, SMTT(20)
<1> QED
  BY <1>1, <1>6, <1>7, Zenon

HeaderReturns(n, h) == h # NoFrame <=> n < 65535 /\ n = (IF h[2] = 126 THEN TwoAt(h, 2) ELSE h[2])
Middle(n) == ~(n < 126) /\ n < 65535
LEMMA HeaderIsRead ==
  ASSUME NEW n \in Nat
  PROVE  HeaderReturns(n, PackHeader(n))
<1>1. PICK h : h = PackHeader(n)
  BY Zenon
<1>2. CASE n < 126
  <2>1. PICK x \in Nat : x = n /\ x # 126
    BY <1>2, SMTT(20)
  <2>2. h = <<129, x>>
    BY <1>1, <1>2, <2>1, SMTT(20) DEF PackHeader
  <2>3. Len(h) = 2 /\ h[2] = x
    BY ONLY <2>2, SMTT(20)
  <2>4. h # NoFrame
    <3>1. 2 \in Nat /\ 2 # 1
      BY SMTT(20)
    <3> QED
      BY <2>3, <3>1, NoSuchFrame, Zenon
  <2>5. n < 65535
    BY <1>2, SMTT(20)
  <2> QED
    BY <1>1, <2>1, <2>3, <2>4, <2>5, SMT DEF HeaderReturns
<1>3. CASE Middle(n)
  <2>1. PICK a : a = <<129, 126>>
    BY Zenon
  <2>2. a \in Seq(0 .. 255) /\ Len(a) = 2 /\ a[2] = 126
    BY ONLY <2>1, SMTT(20)
  <2>3. h = a \o TwoBytes(n)
    BY <1>1, <1>3, <2>1, SMT DEF PackHeader, Middle
  <2>4. TwoHeaded(h, a, n)
    BY <2>2, <2>3, TwoHeader, Zenon
  <2>5. h[2] = 126 /\ Len(h) = 4
    BY <2>2, <2>4, Zenon DEF TwoHeaded
  <2>6. TwoAt(h, 2) = n
    <3>1. StandsAt(TwoBytes(n), h, 2)
      BY <2>4, SMTT(20) DEF TwoHeaded
    <3>2. 2 \in Nat /\ InTwoBytes(n)
      BY <1>3, SMTT(20) DEF Middle, InTwoBytes
    <3> QED
      BY ONLY <3>1, <3>2, n \in Nat, TwoAreRead, Zenon
  <2>7. h # NoFrame
    <3>1. 4 \in Nat /\ 4 # 1
      BY SMTT(20)
    <3>2. PICK k \in Nat : k = Len(h) /\ k # 1
      BY <2>5, <3>1, Zenon
    <3> QED
      BY ONLY <3>2, NoSuchFrame, Zenon
  <2> QED
    BY <1>1, <1>3, <2>5, <2>6, <2>7, SMT DEF HeaderReturns, Middle
<1>4. CASE ~(n < 65535)
  <2>1. ~(n < 126)
    BY <1>4, SMTT(20)
  <2>2. h = NoFrame
    BY <1>1, <1>4, <2>1, SMT DEF PackHeader
  <2> QED
    BY <1>1, <1>4, <2>2, SMT DEF HeaderReturns
<1> QED
  BY <1>2, <1>3, <1>4, SMT DEF Middle
LEMMA HeadersAreRead == HeadersReturn
<1>1. {0, 1, 125, 126, 127, 255, 256, 65534, 65535} \subseteq Nat
  BY SMTT(20)
<1>2. \A n \in Nat : HeaderReturns(n, PackHeader(n))
  BY HeaderIsRead, SMTT(20)
<1>3. \A n \in {0, 1, 125, 126, 127, 255, 256, 65534, 65535} : HeaderReturns(n, PackHeader(n))
  BY ONLY <1>1, <1>2, SMTT(20)
<1> QED
  BY ONLY <1>3, SMTT(20) DEF HeadersReturn, HeaderReturns

-----------------------------------------------------------------------------
(* Keys.                                                                   *)
(* The first end of line.                                                  *)
FirstEol(rest) == SelectInSeq(rest, LAMBDA b : b \in {10, 13})
LEMMA NoEol ==
  ASSUME NEW rest \in Seq(0 .. 255), \A i \in 1 .. Len(rest) : rest[i] \notin {10, 13}
  PROVE  FirstEol(rest) = 0
<1>1. {i \in 1 .. Len(rest) : rest[i] \in {10, 13}} = {}
  OBVIOUS
<1> QED
  BY <1>1 DEF FirstEol, SelectInSeq

LEMMA EolAfter ==
  ASSUME NEW rest \in Seq(0 .. 255), NEW n \in Nat, n < Len(rest),
         \A i \in 1 .. n : rest[i] \notin {10, 13}, rest[n + 1] \in {10, 13}
  PROVE  FirstEol(rest) = n + 1
<1> DEFINE Z == {i \in 1 .. Len(rest) : rest[i] \in {10, 13}}
           z == FirstEol(rest)
<1>0. Len(rest) \in Nat /\ n + 1 \in Z
  BY LenProperties
<1>1. z = CHOOSE x \in Z : \A y \in Z : x <= y
  <2>1. Z # {}
    BY <1>0
  <2> QED
    BY <2>1 DEF FirstEol, SelectInSeq, Min
<1>2. \E x \in Z : \A y \in Z : x <= y
  <2>1. Z \subseteq Nat /\ Z # {}
    BY <1>0
  <2> HIDE DEF Z
  <2> QED
    BY <2>1, LeastNumber
<1>3. z \in Z /\ \A y \in Z : z <= y
  BY ONLY <1>1, <1>2, Zenon
<1> HIDE DEF z
<1>4. z \in 1 .. Len(rest) /\ rest[z] \in {10, 13} /\ z <= n + 1
  BY <1>0, <1>3
<1>5. ~(z <= n)
  BY <1>4
<1>6. z = n + 1
  BY <1>0, <1>4, <1>5
<1> QED
  BY <1>6 DEF z

(* A string without a zero is read whole.                                  *)
LEMMA PlainIsWhole ==
  ASSUME NEW t, Plain(t)
  PROVE  AsString(t) = t
<1>1. t \in Seq(0 .. 255) /\ Len(t) \in Nat
  BY LenProperties DEF Plain
<1>2. PICK m : EndsAt(t, m) /\ AsString(t) = SubSeq(t, 1, m)
  BY <1>1, StringIs
<1>3. EndsAt(t, Len(t))
  BY <1>1 DEF EndsAt, Plain
<1>4. m = Len(t)
  BY <1>1, <1>2, <1>3, OneEnd
<1> QED
  BY <1>1, <1>2, <1>4, SubSeqFull

LEMMA KeyFields ==
  ASSUME NEW r, NEW k, NEW b \in BOOLEAN, r = [key |-> k, overrun |-> b]
  PROVE  r.key = k /\ r.overrun = b
OBVIOUS

LEMMA KeyIsFetched ==
  ASSUME NEW text \in Seq(0 .. 255)
  PROVE  KeyFetched(text)
<1> SUFFICES ASSUME OneLine(text), NEW head \in Heads
             PROVE  LET lined == FetchSecKey(head, text \o <<13, 10>>)
                        bare == FetchSecKey(head, text)
                    IN /\ lined.key = text /\ (lined.overrun <=> Len(text) > 219)
                       /\ bare.key = text
                       /\ bare.overrun <=> Len(text) > 219 \/ head + Len(text) > 256
  BY DEF KeyFetched
<1>0. PICK n \in Nat : n = Len(text)
  BY LenProperties
<1>1. head \in Nat /\ (n + 36 >= 256 <=> n > 219)
  BY <1>0 DEF Heads
<1>2. Plain(text) /\ \A i \in 1 .. n : text[i] \notin {10, 13}
  BY <1>0 DEF Plain, OneLine
<1>3. AsString(text) = text /\ SubSeq(text, 1, n) = text /\ FirstEol(text) = 0
  BY <1>0, <1>2, PlainIsWhole, SubSeqFull, NoEol
<1>4. FetchSecKey(head, text) = [key |-> text, overrun |-> head + n > 256 \/ n + 36 >= 256]
  <2>1. ~(FirstEol(text) \in 1 .. head + n)
    BY <1>1, <1>3
  <2>2. (IF head + n < n THEN head + n ELSE n) = n
    BY <1>1, head \in Heads DEF Heads
  <2> QED
    BY <1>0, <1>3, <2>1, <2>2 DEF FetchSecKey, FirstEol, KeyRoom, GuidLength
<1>5. PICK e : e = <<13, 10>>
  OBVIOUS
<1>6. e \in Seq(0 .. 255) /\ Len(e) = 2 /\ e[1] = 13 /\ e[2] = 10
  BY ONLY <1>5
<1>7. PICK q : q = text \o e
  OBVIOUS
<1>8. /\ q \in Seq(0 .. 255) /\ Len(q) = n + 2
      /\ \A i \in 1 .. n : q[i] = text[i]
      /\ q[n + 1] = 13 /\ q[n + 2] = 10
  <2>1. q \in Seq(0 .. 255) /\ Len(q) = Len(text) + Len(e) /\ StandsAt(text, q, 0) /\ StandsAt(e, q, Len(text))
    <3>1. e \in Seq(0 .. 255)
      BY <1>6, Zenon
    <3>2. PutBehind(q, text, e)
      BY ONLY <3>1, <1>7, text \in Seq(0 .. 255), Behind, Zenon
    <3> QED
      BY ONLY <3>2, Zenon DEF PutBehind
  <2>2. \A i \in 1 .. n : q[0 + i] = text[i]
    BY <1>0, <2>1 DEF StandsAt
  <2>3. q[n + 1] = e[1] /\ q[n + 2] = e[2]
    BY <1>0, <1>6, <2>1 DEF StandsAt
  <2> QED
    BY <1>0, <1>6, <2>1, <2>2, <2>3
<1>9. Plain(q) /\ AsString(q) = q
  <2>1. ASSUME NEW i \in 1 .. n + 2 PROVE q[i] # 0
    <3>1. i \in 1 .. n \/ i = n + 1 \/ i = n + 2
      BY <1>0
    <3> QED
      BY <1>0, <1>2, <1>8, <3>1 DEF Plain
  <2> QED
    BY <1>8, <2>1, PlainIsWhole DEF Plain
<1>10. FirstEol(q) = n + 1
  <2>1. n < Len(q) /\ \A i \in 1 .. n : q[i] \notin {10, 13}
    BY <1>2, <1>8
  <2> QED
    BY <1>8, <2>1, EolAfter
<1>11. SubSeq(q, 1, n) = text
  <2>1. PICK a : a = SubSeq(q, 1, n)
    OBVIOUS
  <2>2. ASSUME NEW i \in 1 .. n PROVE q[i] \in 0 .. 255 /\ q[i] = text[i]
    <3>1. i \in 1 .. Len(q)
      BY <1>8
    <3> QED
      BY <1>8, <3>1, ElementOfSeq
  <2>3. a \in Seq(0 .. 255) /\ Len(a) = n /\ \A i \in 1 .. n : a[i] = q[i]
    BY <1>8, <2>1, <2>2, SubSeqProperties
  <2>4. \A i \in 1 .. n : a[i] = text[i]
    BY <2>2, <2>3
  <2>5. a = text
    <3>1. Len(text) = n /\ Len(a) = n
      BY <1>0, <2>3
    <3>2. \A i \in 1 .. Len(a) : a[i] = text[i]
      BY <2>4, <3>1
    <3> QED
      BY ONLY <2>3, <3>1, <3>2, text \in Seq(0 .. 255), SeqEqual
  <2> QED
    BY <2>1, <2>5
<1>12. FetchSecKey(head, q) = [key |-> text, overrun |-> n > 256 \/ n + 36 >= 256]
  <2>1. n + 1 \in 1 .. head + (n + 2) /\ n + 1 - 1 = n /\ n < n + 2
    BY <1>1
  <2>6. Len(q) = n + 2 /\ AsString(q) = q
    BY <1>8, <1>9
  <2>2. (IF FirstEol(q) \in 1 .. head + Len(AsString(q)) THEN FirstEol(q) - 1
         ELSE head + Len(AsString(q))) = n
    BY <1>10, <2>1, <2>6
  <2> DEFINE all == head + Len(AsString(q))
             stop == IF FirstEol(q) \in 1 .. all THEN FirstEol(q) - 1 ELSE all
             key == AsString(SubSeq(q, 1, IF stop < Len(q) THEN stop ELSE Len(q)))
  <2>3. FetchSecKey(head, q) =
          [key |-> key, overrun |-> stop > 256 \/ Len(key) + 36 >= 256]
    BY DEF FetchSecKey, FirstEol, KeyRoom, GuidLength
  <2>4. stop = n /\ (IF stop < Len(q) THEN stop ELSE Len(q)) = n
    BY <1>8, <2>1, <2>2
  <2>5. key = text
    BY <1>3, <1>11, <2>4
  <2> HIDE DEF stop, key
  <2> QED
    BY <1>0, <2>3, <2>4, <2>5
<1>13. /\ n > 256 \/ n + 36 >= 256 <=> n > 219
       /\ head + n > 256 \/ n + 36 >= 256 <=> n > 219 \/ head + n > 256
  BY <1>1
<1>14. PICK lined, bare : /\ lined = FetchSecKey(head, text \o <<13, 10>>)
                          /\ bare = FetchSecKey(head, text)
  OBVIOUS
<1>15. lined = FetchSecKey(head, q)
  BY <1>5, <1>7, <1>14, Zenon
<1>16. PICK l \in BOOLEAN, o \in BOOLEAN :
         /\ l <=> Len(text) > 219
         /\ o <=> Len(text) > 219 \/ head + Len(text) > 256
  OBVIOUS
<1>17. lined = [key |-> text, overrun |-> l] /\ bare = [key |-> text, overrun |-> o]
  <2>1. (n > 256 \/ n + 36 >= 256) = l /\ (head + n > 256 \/ n + 36 >= 256) = o
    BY <1>0, <1>13, <1>16
  <2> QED
    BY <1>4, <1>12, <1>14, <1>15, <2>1, Zenon
<1>18. /\ lined.key = text /\ lined.overrun = l
       /\ bare.key = text /\ bare.overrun = o
  BY <1>17, KeyFields, Zenon
<1>19. /\ lined.key = text /\ (lined.overrun <=> Len(text) > 219)
       /\ bare.key = text /\ (bare.overrun <=> Len(text) > 219 \/ head + Len(text) > 256)
  BY <1>16, <1>18, Zenon
<1> QED
  BY <1>14, <1>19, Zenon

-----------------------------------------------------------------------------
(* Base64.                                                                 *)

(* Pieces of w elements each, but for the last.                            *)
Strides(ps, w) == \A i \in 1 .. Len(ps) : i < Len(ps) => Len(ps[i]) = w
Lined(flat, ps, w) ==
  /\ \A i \in 1 .. Len(ps) : \A k \in 1 .. Len(ps[i]) : flat[w * (i - 1) + k] = ps[i][k]
  /\ Len(flat) = IF Len(ps) = 0 THEN 0 ELSE w * (Len(ps) - 1) + Len(ps[Len(ps)])
LEMMA PiecesLined ==
  ASSUME NEW S, NEW ps \in Seq(Seq(S)), NEW w \in Nat, Strides(ps, w)
  PROVE  FlattenSeq(ps) \in Seq(S) /\ Lined(FlattenSeq(ps), ps, w)
<1>1. PICK flat, at : flat = FlattenSeq(ps) /\ flat \in Seq(S) /\ Placed(flat, ps, at)
  BY Flattened, SMTT(20)
<1>2. PICK n \in Nat : n = Len(ps)
  BY LenProperties, SMTT(20)
<1> DEFINE T == {g \in Nat : g < n => at[g] = w * g}
<1>3. 0 \in T
  BY <1>1, SMTT(20) DEF Placed
<1>4. ASSUME NEW g \in Nat, g \in T PROVE g + 1 \in T
  <2> SUFFICES ASSUME g + 1 < n PROVE at[g + 1] = w * (g + 1)
    BY SMTT(20)
  <2>1. PICK h : h = g + 1 /\ h \in 1 .. n /\ h - 1 = g /\ h < n
    BY SMTT(20)
  <2>2. at[h] = at[g] + Len(ps[h]) /\ Len(ps[h]) = w
    BY <1>1, <1>2, <2>1, SMTT(20) DEF Placed, Strides
  <2>3. at[g] = w * g
    BY <1>4, <2>1, SMTT(20)
  <2>4. w * (g + 1) = w * g + w
    BY SMTT(20)
  <2> QED
    BY <2>1, <2>2, <2>3, <2>4, SMTT(20)
<1> HIDE DEF T
<1>5. \A g \in Nat : g \in T
  BY <1>3, <1>4, Induct, SMTT(20)
<1>6. ASSUME NEW i \in 1 .. n, NEW k \in 1 .. Len(ps[i]) PROVE flat[w * (i - 1) + k] = ps[i][k]
  <2>1. PICK j \in Nat : j = i - 1 /\ j < n
    BY SMTT(20)
  <2>2. at[j] = w * j
    BY <1>5, <2>1, SMTT(20) DEF T
  <2>3. flat[at[i - 1] + k] = ps[i][k]
    BY <1>1, <1>2, SMTT(20) DEF Placed
  <2> QED
    BY <2>1, <2>2, <2>3, SMTT(20)
<1>7. Len(flat) = IF n = 0 THEN 0 ELSE w * (n - 1) + Len(ps[n])
  <2>1. CASE n = 0
    BY <1>1, <1>2, <2>1, SMTT(20) DEF Placed
  <2>2. CASE n # 0
    <3>1. PICK j \in Nat : j = n - 1 /\ j < n /\ n \in 1 .. n
      BY <2>2, SMTT(20)
    <3>2. at[j] = w * j
      BY <1>5, <3>1, SMTT(20) DEF T
    <3>3. Len(flat) = at[n - 1] + Len(ps[n])
      BY <1>1, <1>2, <3>1, SMTT(20) DEF Placed
    <3> QED
      BY <2>2, <3>1, <3>2, <3>3, Zenon
  <2> QED
    BY <2>1, <2>2, Zenon
<1> QED
  BY <1>1, <1>2, <1>6, <1>7, SMTT(20) DEF Lined

(* Six bits four times are the three bytes again.                          *)
Sextets(p, a, b, c, d) ==
  /\ a = (p \div 262144) % 64 /\ b = (p \div 4096) % 64 /\ c = (p \div 64) % 64 /\ d = p % 64
Packed(p) == p < 16777216
LEMMA SextetsAre ==
  ASSUME NEW p \in Nat, Packed(p), NEW a, NEW b, NEW c, NEW d, Sextets(p, a, b, c, d)
  PROVE  /\ a \in 0 .. 63 /\ b \in 0 .. 63 /\ c \in 0 .. 63 /\ d \in 0 .. 63
         /\ a * 262144 + b * 4096 + c * 64 + d = p
<1>1. PICK q \in Nat, r \in 0 .. 63 : p = 64 * q + r /\ p \div 64 = q /\ p % 64 = r
  BY SMT
<1>2. PICK u \in Nat, v \in 0 .. 63 : q = 64 * u + v /\ q % 64 = v
  BY SMT
<1>3. PICK x \in Nat, y \in 0 .. 63 : u = 64 * x + y /\ u % 64 = y
  BY SMT
<1>4. x < 64 /\ x % 64 = x
  BY <1>1, <1>2, <1>3, SMT DEF Packed
<1>5. p = 4096 * u + (64 * v + r) /\ 64 * v + r \in 0 .. 4095
  BY <1>1, <1>2, SMT
<1>6. p \div 4096 = u
  BY ONLY <1>5, u \in Nat, SMT
<1>7. p = 262144 * x + (4096 * y + 64 * v + r)
  <2>1. p = 64 * q + r /\ q = 64 * u + v /\ u = 64 * x + y
    BY <1>1, <1>2, <1>3, SMT
  <2> QED
    BY ONLY <2>1, x \in Nat, y \in 0 .. 63, v \in 0 .. 63, r \in 0 .. 63, SMT
<1>8. p \div 262144 = x
  <2>1. y \in Nat /\ v \in Nat /\ r \in Nat /\ y <= 63 /\ v <= 63 /\ r <= 63
    BY SMT
  <2>2. PICK z \in Nat : z = 4096 * y + 64 * v + r
    BY ONLY <2>1, SMT
  <2>3. z < 262144
    BY ONLY <2>1, <2>2, SMT
  <2>4. p = 262144 * x + z
    BY ONLY <1>7, <2>1, <2>2, x \in Nat, SMT
  <2> QED
    BY ONLY <2>3, <2>4, x \in Nat, z \in Nat, p \in Nat, SMT
<1>9. a = x /\ b = y /\ c = v /\ d = r
  BY <1>1, <1>2, <1>3, <1>4, <1>6, <1>8, SMT DEF Sextets
<1>10. x \in 0 .. 63
  BY <1>4, SMT
<1>11. x * 262144 + y * 4096 + v * 64 + r = p
  BY ONLY <1>7, x \in Nat, y \in 0 .. 63, v \in 0 .. 63, r \in 0 .. 63, SMT
<1> QED
  BY <1>9, <1>10, <1>11, SMT

Three(b1, b2, b3) == b1 * 65536 + b2 * 256 + b3
ThreeReads(p, b1, b2, b3) ==
  (p \div 65536) % 256 = b1 /\ (p \div 256) % 256 = b2 /\ p % 256 = b3
LEMMA ThreeBack ==
  ASSUME NEW b1 \in 0 .. 255, NEW b2 \in 0 .. 255, NEW b3 \in 0 .. 255
  PROVE  /\ Three(b1, b2, b3) \in Nat /\ Packed(Three(b1, b2, b3))
         /\ ThreeReads(Three(b1, b2, b3), b1, b2, b3)
<1>1. PICK p \in Nat : p = b1 * 65536 + b2 * 256 + b3
  BY SMT
<1>2. p \div 65536 = b1 /\ p \div 256 = b1 * 256 + b2 /\ p % 256 = b3 /\ p < 16777216
  BY <1>1, SMT
<1>3. b1 % 256 = b1 /\ (b1 * 256 + b2) % 256 = b2
  BY SMT
<1> QED
  BY <1>1, <1>2, <1>3, SMT DEF Three, Packed, ThreeReads

(* With no third byte the last six bits are none, and with no second byte  *)
(* the six before them neither.                                            *)
LEMMA NoThird ==
  ASSUME NEW b1 \in 0 .. 255, NEW b2 \in 0 .. 255
  PROVE  /\ Three(b1, b2, 0) % 64 = 0
         /\ b2 = 0 => (Three(b1, b2, 0) \div 64) % 64 = 0
  BY SMT DEF Three

GroupValue(s) == Three(ByteAt(s, 1), ByteAt(s, 2), ByteAt(s, 3))
Encoded(w, p, m) ==
  /\ w \in Seq(Nat) /\ Len(w) = 4
  /\ w[1] = (p \div 262144) % 64 /\ w[2] = (p \div 4096) % 64
  /\ w[3] = (IF m < 2 THEN 64 ELSE (p \div 64) % 64) /\ w[4] = (IF m < 3 THEN 64 ELSE p % 64)
LEMMA GroupEncoded ==
  ASSUME NEW s, NEW m \in 1 .. 3, Len(s) = m, GroupValue(s) \in Nat
  PROVE  Encoded(Base64Group(s), GroupValue(s), m)
<1>1. PICK p \in Nat : p = GroupValue(s)
  BY Zenon
<1> DEFINE w == [i \in 1 .. 4 |-> IF m < i - 1 THEN 64
                                   ELSE (p \div <<262144, 4096, 64, 1>>[i]) % 64]
<1>3. Base64Group(s) = w
  BY <1>1, SMT DEF Base64Group, GroupValue, ByteAt, Three
<1>4. w[1] = (p \div 262144) % 64 /\ w[2] = (p \div 4096) % 64
  BY SMT
<1>5. w[3] = (IF m < 2 THEN 64 ELSE (p \div 64) % 64) /\ w[4] = (IF m < 3 THEN 64 ELSE p % 64)
  <2>1. p \div 1 = p
    BY SMT
  <2> QED
    BY <2>1, SMT
<1>6. PICK k \in Nat : k = 4
  BY SMT
<1>7. \A i \in 1 .. k : w[i] \in Nat
  <2>1. /\ (p \div 262144) % 64 \in Nat /\ (p \div 4096) % 64 \in Nat
        /\ (p \div 64) % 64 \in Nat /\ p % 64 \in Nat
    BY ONLY p \in Nat, SMT
  <2>2. \A i \in 1 .. k : i = 1 \/ i = 2 \/ i = 3 \/ i = 4
    BY ONLY <1>6, SMT
  <2> HIDE DEF w
  <2>3. w[1] \in Nat /\ w[2] \in Nat /\ w[3] \in Nat /\ w[4] \in Nat
    BY ONLY <1>4, <1>5, <2>1, SMT
  <2> QED
    BY ONLY <2>2, <2>3, Zenon
<1>8. w = [i \in 1 .. k |-> w[i]]
  BY <1>6, SMT
<1> HIDE DEF w
<1>9. w \in Seq(Nat) /\ Len(w) = k
  BY ONLY <1>7, <1>8, k \in Nat, FunctionIsSeq, SMT
<1> QED
  BY <1>1, <1>3, <1>4, <1>5, <1>6, <1>9, SMT DEF Encoded

(* What the decoder makes of the letters of a group: the bytes, and a zero *)
(* if there were less than three.                                          *)
Lettered(t, w, l) == t \in Seq(Nat) /\ Len(t) = l /\ \A i \in 1 .. l : t[i] = w[i]
LettersValue(t) ==
  ByteAt(t, 1) * 262144 + ByteAt(t, 2) * 4096 + ByteAt(t, 3) * 64 + ByteAt(t, 4)
LEMMA LettersValued ==
  ASSUME NEW s, NEW m \in 1 .. 3, Len(s) = m, s \in Seq(0 .. 255),
         NEW w, Encoded(w, GroupValue(s), m), NEW t, Lettered(t, w, m + 1)
  PROVE  LettersValue(t) = GroupValue(s) /\ GroupValue(s) \in Nat
<1>1. PICK b1 \in 0 .. 255, b2 \in 0 .. 255, b3 \in 0 .. 255 :
        b1 = ByteAt(s, 1) /\ b2 = ByteAt(s, 2) /\ b3 = ByteAt(s, 3)
  <2>1. \A i \in 1 .. m : s[i] \in 0 .. 255
    BY ONLY Len(s) = m, s \in Seq(0 .. 255), ElementOfSeq, Zenon
  <2>2. ByteAt(s, 1) \in 0 .. 255 /\ ByteAt(s, 2) \in 0 .. 255 /\ ByteAt(s, 3) \in 0 .. 255
    BY <2>1, SMT DEF ByteAt
  <2> QED
    BY <2>2, Zenon
<1>2. PICK p \in Nat : p = Three(b1, b2, b3) /\ Packed(p)
  BY ThreeBack, Zenon
<1>3. p = GroupValue(s)
  BY <1>1, <1>2, Zenon DEF GroupValue
<1>4. /\ m < 3 => b3 = 0 /\ p % 64 = 0
      /\ m < 2 => b2 = 0 /\ (p \div 64) % 64 = 0
  <2>1. m < 3 => b3 = 0
    BY <1>1, SMT DEF ByteAt
  <2>2. m < 2 => b2 = 0 /\ m < 3
    BY <1>1, SMT DEF ByteAt
  <2>3. m < 3 => p = Three(b1, b2, 0)
    BY <1>2, <2>1, Zenon
  <2>4. Three(b1, b2, 0) % 64 = 0 /\ (b2 = 0 => (Three(b1, b2, 0) \div 64) % 64 = 0)
    BY ONLY b1 \in 0 .. 255, b2 \in 0 .. 255, NoThird
  <2> QED
    BY ONLY <2>1, <2>2, <2>3, <2>4, SMT
<1>5. PICK a, b, c, d : Sextets(p, a, b, c, d)
  BY SMT DEF Sextets
<1>6. a * 262144 + b * 4096 + c * 64 + d = p
  BY <1>2, <1>5, SextetsAre, SMT
<1>7. w[1] = a /\ w[2] = b /\ (m >= 2 => w[3] = c) /\ (m = 3 => w[4] = d)
  BY <1>3, <1>5, SMT DEF Encoded, Sextets
<1>8. (m < 2 => c = 0) /\ (m < 3 => d = 0)
  BY <1>4, <1>5, SMT DEF Sextets
<1>9. ByteAt(t, 1) = a /\ ByteAt(t, 2) = b /\ ByteAt(t, 3) = c /\ ByteAt(t, 4) = d
  BY <1>7, <1>8, SMT DEF ByteAt, Lettered
<1>10. LettersValue(t) = p
  BY <1>6, <1>9, SMT DEF LettersValue
<1> QED
  BY <1>3, <1>10, Zenon

ValueBytes(p, k) == [i \in 1 .. k |-> (p \div <<65536, 256, 1>>[i]) % 256]
DecodedGroup(t) == ValueBytes(LettersValue(t), IF Len(t) < 3 THEN Len(t) ELSE 3)
Padded(r, s, m) ==
  /\ r \in Seq(0 .. 255) /\ Len(r) = (IF m = 1 THEN 2 ELSE 3)
  /\ \A i \in 1 .. Len(r) : r[i] = ByteAt(s, i)
LEMMA GroupDecoded ==
  ASSUME NEW s, NEW m \in 1 .. 3, Len(s) = m, s \in Seq(0 .. 255),
         NEW w, Encoded(w, GroupValue(s), m), NEW t, Lettered(t, w, m + 1)
  PROVE  Padded(DecodedGroup(t), s, m)
<1>1. PICK b1 \in 0 .. 255, b2 \in 0 .. 255, b3 \in 0 .. 255 :
        b1 = ByteAt(s, 1) /\ b2 = ByteAt(s, 2) /\ b3 = ByteAt(s, 3)
  <2>1. \A i \in 1 .. m : s[i] \in 0 .. 255
    BY ONLY Len(s) = m, s \in Seq(0 .. 255), ElementOfSeq, Zenon
  <2>2. ByteAt(s, 1) \in 0 .. 255 /\ ByteAt(s, 2) \in 0 .. 255 /\ ByteAt(s, 3) \in 0 .. 255
    BY <2>1, SMT DEF ByteAt
  <2> QED
    BY <2>2, Zenon
<1>2. PICK p \in Nat : p = Three(b1, b2, b3) /\ p = LettersValue(t)
  BY <1>1, LettersValued, Zenon DEF GroupValue
<1>3. ThreeReads(p, b1, b2, b3)
  BY <1>2, ThreeBack, Zenon
<1>4. PICK k \in Nat : k = (IF m = 1 THEN 2 ELSE 3)
  BY SMT
<1>5. (IF Len(t) < 3 THEN Len(t) ELSE 3) = k
  BY <1>4, SMT DEF Lettered
<1>6. PICK r : r = ValueBytes(p, k)
  BY Zenon
<1>7. DecodedGroup(t) = r
  BY <1>2, <1>5, <1>6, Zenon DEF DecodedGroup
<1>8. r[1] = b1 /\ r[2] = b2 /\ (3 \in 1 .. k => r[3] = b3)
  <2>1. p \div 1 = p
    BY ONLY p \in Nat, SMT
  <2>2. (p \div 65536) % 256 = b1 /\ (p \div 256) % 256 = b2 /\ p % 256 = b3
    BY ONLY <1>3, SMT DEF ThreeReads
  <2>3. r = [i \in 1 .. k |-> (p \div <<65536, 256, 1>>[i]) % 256]
    BY ONLY <1>6, SMT DEF ValueBytes
  <2>4. 1 \in 1 .. k /\ 2 \in 1 .. k
    BY ONLY <1>4, SMT
  <2>5. r[1] = (p \div 65536) % 256 /\ r[2] = (p \div 256) % 256
    BY ONLY <2>3, <2>4, SMT
  <2>6. ASSUME NEW j \in 1 .. k PROVE r[j] = (p \div <<65536, 256, 1>>[j]) % 256
    BY ONLY <2>3, j \in 1 .. k, SMT
  <2>7. <<65536, 256, 1>>[3] = 1
    BY ONLY SMT
  <2> QED
    BY ONLY <2>1, <2>2, <2>5, <2>6, <2>7, SMT
<1>9. \A i \in 1 .. k : r[i] = ByteAt(s, i) /\ r[i] \in 0 .. 255
  <2>1. \A i \in 1 .. k : i = 1 \/ i = 2 \/ i = 3
    BY ONLY <1>4, SMT
  <2>2. r[1] \in 0 .. 255 /\ r[2] \in 0 .. 255 /\ (3 \in 1 .. k => r[3] \in 0 .. 255)
    BY <1>8, Zenon
  <2> QED
    BY ONLY <1>1, <1>8, <2>1, <2>2, Zenon
<1>10. r = [i \in 1 .. k |-> r[i]]
  BY <1>6, SMT DEF ValueBytes
<1>11. r \in Seq(0 .. 255) /\ Len(r) = k
  BY ONLY <1>9, <1>10, k \in Nat, FunctionIsSeq, SMT
<1> QED
  BY <1>4, <1>7, <1>9, <1>11, SMT DEF Padded

(* The groups of a text that is not empty: G of them, the last of m bytes. *)
Grouped(s, n, G, m) ==
  /\ s \in Seq(0 .. 255) /\ n \in Nat /\ n = Len(s) /\ G \in Nat /\ G >= 1 /\ m \in 1 .. 3
  /\ n = 3 * (G - 1) + m
LEMMA GroupsOf ==
  ASSUME NEW s \in Seq(0 .. 255), s # << >>
  PROVE  \E n, G, m : Grouped(s, n, G, m) /\ G = (n + 2) \div 3 /\ (m = 3 <=> n % 3 = 0)
<1>1. PICK n \in Nat : n = Len(s) /\ n # 0
  BY LenProperties, EmptySeq
<1>2. PICK q \in Nat, r \in 0 .. 2 : n - 1 = 3 * q + r
  <2>1. PICK p \in Nat : p = n - 1
    BY <1>1, SMT
  <2>2. PICK q \in Nat : q = p \div 3
    BY SMT
  <2>3. PICK r \in 0 .. 2 : r = p % 3
    BY SMT
  <2>4. p = 3 * q + r
    BY ONLY <2>2, <2>3, p \in Nat, q \in Nat, r \in 0 .. 2, SMT
  <2> QED
    BY <2>1, <2>4
<1>3. PICK G \in Nat, m \in 1 .. 3 : G = q + 1 /\ m = r + 1
  BY SMT
<1>4. n = 3 * (G - 1) + m /\ G >= 1
  BY <1>1, <1>2, <1>3, SMT
<1>5. G = (n + 2) \div 3 /\ (m = 3 <=> n % 3 = 0)
  BY <1>4, SMT
<1>6. Grouped(s, n, G, m)
  BY <1>1, <1>4 DEF Grouped
<1> QED
  BY <1>5, <1>6

GroupLen(g, G, m) == IF g < G THEN 3 ELSE m
GroupOf(b, s, g, l) ==
  b \in Seq(0 .. 255) /\ Len(b) = l /\ \A k \in 1 .. 3 : ByteAt(b, k) = ByteAt(s, 3 * (g - 1) + k)
LEMMA GroupIs ==
  ASSUME NEW s, NEW n, NEW G, NEW m, Grouped(s, n, G, m), NEW g \in Nat, 1 <= g, g <= G
  PROVE  GroupOf(Group(s, g), s, g, GroupLen(g, G, m)) /\ GroupLen(g, G, m) \in 1 .. 3
<1>1. PICK l \in 1 .. 3 : l = GroupLen(g, G, m)
  BY SMT DEF GroupLen, Grouped
<1>2. PICK j \in Nat : j = 3 * (g - 1) /\ j + l <= n /\ (l < 3 => j + l = n)
  BY <1>1, SMT DEF GroupLen, Grouped
<1>3. Group(s, g) = SubSeq(s, j + 1, j + l)
  <2>1. 3 * g - 2 = j + 1
    BY <1>2, SMT
  <2>2. (IF 3 * g < Len(s) THEN 3 * g ELSE Len(s)) = j + l
    BY <1>1, <1>2, SMT DEF GroupLen, Grouped
  <2> QED
    BY <2>1, <2>2, Zenon DEF Group
<1>4. PICK b : b = SubSeq(s, j + 1, j + l)
  BY Zenon
<1>5. ASSUME NEW i \in j + 1 .. j + l PROVE s[i] \in 0 .. 255
  <2>1. i \in 1 .. Len(s) /\ s \in Seq(0 .. 255)
    BY <1>2, SMT DEF Grouped
  <2> QED
    BY <2>1, ElementOfSeq
<1>6. /\ b \in Seq(0 .. 255)
      /\ Len(b) = (IF j + 1 <= j + l THEN (j + l) - (j + 1) + 1 ELSE 0)
      /\ \A i \in 1 .. (j + l) - (j + 1) + 1 : b[i] = s[(j + 1) + i - 1]
  <2>1. j + 1 \in Int /\ j + l \in Int
    BY SMT
  <2> QED
    BY ONLY <1>4, <1>5, <2>1, SubSeqProperties
<1>7. b \in Seq(0 .. 255) /\ Len(b) = l /\ \A i \in 1 .. l : b[i] = s[j + i]
  <2>1. (j + l) - (j + 1) + 1 = l /\ j + 1 <= j + l /\ \A i \in 1 .. l : (j + 1) + i - 1 = j + i
    BY SMT
  <2> QED
    BY ONLY <1>6, <2>1
<1>8. ASSUME NEW k \in 1 .. 3 PROVE ByteAt(b, k) = ByteAt(s, j + k)
  <2>1. CASE k <= l
    <3>1. j + k <= Len(s)
      BY <1>2, <2>1, SMT DEF Grouped
    <3> QED
      BY <1>7, <2>1, <3>1 DEF ByteAt
  <2>2. CASE ~(k <= l)
    <3>1. ~(j + k <= Len(s))
      BY <1>2, <2>2, SMT DEF Grouped
    <3> QED
      BY <1>7, <2>2, <3>1 DEF ByteAt
  <2> QED
    BY <2>1, <2>2
<1> QED
  BY <1>1, <1>2, <1>3, <1>4, <1>7, <1>8 DEF GroupOf

EncodePieces(s) == [g \in 1 .. (Len(s) + 2) \div 3 |-> Base64Group(Group(s, g))]
EncodedText(e, s, G, m) ==
  /\ e \in Seq(Nat) /\ Len(e) = 4 * G
  /\ \A g \in 1 .. G :
       /\ Encoded(Base64Group(Group(s, g)), GroupValue(Group(s, g)), GroupLen(g, G, m))
       /\ \A k \in 1 .. 4 : e[4 * (g - 1) + k] = Base64Group(Group(s, g))[k]
LEMMA GroupIsEncoded ==
  ASSUME NEW s, NEW l \in 1 .. 3, NEW b, NEW g, GroupOf(b, s, g, l)
  PROVE  Encoded(Base64Group(b), GroupValue(b), l)
<1>1. b \in Seq(0 .. 255) /\ Len(b) = l
  BY DEF GroupOf
<1>2. \A i \in 1 .. l : b[i] \in 0 .. 255
  BY <1>1, ElementOfSeq
<1>3. ByteAt(b, 1) \in 0 .. 255 /\ ByteAt(b, 2) \in 0 .. 255 /\ ByteAt(b, 3) \in 0 .. 255
  BY <1>1, <1>2, SMT DEF ByteAt
<1>4. GroupValue(b) \in Nat
  <2>1. \A b1 \in 0 .. 255, b2 \in 0 .. 255, b3 \in 0 .. 255 : Three(b1, b2, b3) \in Nat
    BY ThreeBack, Zenon
  <2> QED
    BY <1>3, <2>1, Zenon DEF GroupValue
<1> QED
  BY <1>1, <1>4, GroupEncoded
LEMMA TextIsEncoded ==
  ASSUME NEW s, NEW n, NEW G, NEW m, Grouped(s, n, G, m), G = (n + 2) \div 3
  PROVE  EncodedText(WsBase64Encode(s), s, G, m)
<1>1. PICK ps : ps = EncodePieces(s)
  BY Zenon
<1>2. WsBase64Encode(s) = FlattenSeq(ps)
  BY <1>1, Zenon DEF WsBase64Encode, EncodePieces
<1>3. ps = [g \in 1 .. G |-> Base64Group(Group(s, g))] /\ G \in Nat /\ G >= 1
  BY <1>1, Zenon DEF EncodePieces, Grouped
<1>4. ASSUME NEW g \in 1 .. G
      PROVE  /\ Encoded(ps[g], GroupValue(Group(s, g)), GroupLen(g, G, m))
             /\ ps[g] = Base64Group(Group(s, g)) /\ ps[g] \in Seq(Nat) /\ Len(ps[g]) = 4
  <2>1. g \in Nat /\ 1 <= g /\ g <= G
    BY <1>3
  <2>2. GroupOf(Group(s, g), s, g, GroupLen(g, G, m)) /\ GroupLen(g, G, m) \in 1 .. 3
    BY <2>1, GroupIs
  <2>3. Encoded(Base64Group(Group(s, g)), GroupValue(Group(s, g)), GroupLen(g, G, m))
    BY <2>2, GroupIsEncoded
  <2>4. ps[g] = Base64Group(Group(s, g))
    BY <1>3
  <2>5. ps[g] \in Seq(Nat) /\ Len(ps[g]) = 4
    BY <2>3, <2>4, SMT DEF Encoded
  <2> QED
    BY <2>3, <2>4, <2>5, Zenon
<1>5. ps \in Seq(Seq(Nat)) /\ Len(ps) = G
  <2>1. ps = [g \in 1 .. G |-> ps[g]]
    BY <1>3
  <2>2. \A g \in 1 .. G : ps[g] \in Seq(Nat)
    BY <1>4
  <2>3. ps \in [1 .. G -> Seq(Nat)]
    BY ONLY <2>1, <2>2
  <2> QED
    BY <1>3, <2>3, FunctionIsSeq
<1>6. Strides(ps, 4)
  BY <1>4, <1>5 DEF Strides
<1>7. PICK e : e = FlattenSeq(ps)
  BY Zenon
<1>8. e \in Seq(Nat) /\ Lined(e, ps, 4)
  <2>1. PICK w \in Nat : w = 4
    OBVIOUS
  <2>2. Strides(ps, w)
    BY <1>6, <2>1
  <2>3. e \in Seq(Nat) /\ Lined(e, ps, w)
    BY ONLY <1>5, <1>7, <2>2, w \in Nat, PiecesLined
  <2> QED
    BY <2>1, <2>3
<1>9. Len(e) = 4 * G
  <2>1. G \in 1 .. G /\ G # 0
    BY <1>3
  <2>2. Len(ps[G]) = 4
    BY <1>4, <2>1
  <2>3. Len(e) = 4 * (G - 1) + Len(ps[G])
    BY <1>5, <1>8, <2>1 DEF Lined
  <2> QED
    BY <1>3, <2>2, <2>3
<1>10. ASSUME NEW g \in 1 .. G, NEW k \in 1 .. 4
       PROVE  e[4 * (g - 1) + k] = Base64Group(Group(s, g))[k]
  <2>1. \A i \in 1 .. G : \A j \in 1 .. Len(ps[i]) : e[4 * (i - 1) + j] = ps[i][j]
    BY <1>5, <1>8 DEF Lined
  <2>2. k \in 1 .. Len(ps[g])
    BY <1>4
  <2>3. ps[g] = Base64Group(Group(s, g))
    BY <1>4
  <2> QED
    BY <2>1, <2>2, <2>3
<1>11. \A g \in 1 .. G :
         Encoded(Base64Group(Group(s, g)), GroupValue(Group(s, g)), GroupLen(g, G, m))
  BY <1>4
<1> QED
  BY <1>2, <1>7, <1>8, <1>9, <1>10, <1>11 DEF EncodedText

Pads(e) == {k \in 1 .. 3 : k <= Len(e) /\ e[Len(e) + 1 - k] = 64}
LEMMA PadsCounted ==
  ASSUME NEW s, NEW n, NEW G, NEW m, Grouped(s, n, G, m), NEW e, EncodedText(e, s, G, m)
  PROVE  Cardinality(Pads(e)) = 3 - m
<1>1. PICK w, p : w = Base64Group(Group(s, G)) /\ p = GroupValue(Group(s, G))
  BY Zenon
<1>2. G \in Nat /\ G >= 1 /\ m \in 1 .. 3 /\ G \in 1 .. G /\ GroupLen(G, G, m) = m
  BY SMT DEF Grouped, GroupLen
<1>3. Encoded(w, p, m) /\ Len(e) = 4 * G /\ \A k \in 1 .. 4 : e[4 * (G - 1) + k] = w[k]
  BY <1>1, <1>2 DEF EncodedText
<1>4. p \in Nat
  <2>1. GroupOf(Group(s, G), s, G, m)
    BY <1>2, GroupIs
  <2>2. PICK b : b = Group(s, G) /\ b \in Seq(0 .. 255) /\ Len(b) = m
    BY <2>1 DEF GroupOf
  <2>3. \A i \in 1 .. m : b[i] \in 0 .. 255
    BY <2>2, ElementOfSeq
  <2>4. ByteAt(b, 1) \in 0 .. 255 /\ ByteAt(b, 2) \in 0 .. 255 /\ ByteAt(b, 3) \in 0 .. 255
    BY <1>2, <2>2, <2>3, SMT DEF ByteAt
  <2>5. \A b1 \in 0 .. 255, b2 \in 0 .. 255, b3 \in 0 .. 255 : Three(b1, b2, b3) \in Nat
    BY ThreeBack, Zenon
  <2> QED
    BY <1>1, <2>2, <2>4, <2>5, Zenon DEF GroupValue
<1>5. w[2] # 64 /\ (w[3] = 64 <=> m < 2) /\ (w[4] = 64 <=> m < 3)
  <2>1. (p \div 4096) % 64 < 64 /\ (p \div 64) % 64 < 64 /\ p % 64 < 64
    BY <1>4, SMT
  <2>2. (p \div 4096) % 64 # 64 /\ (p \div 64) % 64 # 64 /\ p % 64 # 64
    BY <1>4, <2>1, SMT
  <2> QED
    BY <1>2, <1>3, <2>2, SMT DEF Encoded
<1>6. \A k \in 1 .. 3 : k <= Len(e) /\ e[Len(e) + 1 - k] = w[5 - k]
  <2>1. ASSUME NEW k \in 1 .. 3 PROVE k <= Len(e) /\ e[Len(e) + 1 - k] = w[5 - k]
    <3>1. 5 - k \in 1 .. 4 /\ 4 * (G - 1) + (5 - k) = Len(e) + 1 - k /\ k <= Len(e)
      BY <1>2, <1>3, SMT
    <3>2. e[4 * (G - 1) + (5 - k)] = w[5 - k]
      BY <1>3, <3>1
    <3> QED
      BY <3>1, <3>2
  <2> QED
    BY <2>1
<1>7. Pads(e) = 1 .. 3 - m
  <2>1. \A k \in 1 .. 3 : k \in Pads(e) <=> w[5 - k] = 64
    BY <1>6 DEF Pads
  <2>2. \A k \in 1 .. 3 : w[5 - k] = 64 <=> k <= 3 - m
    BY <1>2, <1>5, SMT
  <2>3. Pads(e) \subseteq 1 .. 3 /\ 1 .. 3 - m \subseteq 1 .. 3
    BY <1>2, SMT DEF Pads
  <2>4. \A k \in 1 .. 3 : k <= 3 - m <=> k \in 1 .. 3 - m
    BY <1>2, SMT
  <2> QED
    BY ONLY <2>1, <2>2, <2>3, <2>4, Zenon
<1> QED
  <2>1. 1 \in Int /\ 3 - m \in Int
    BY <1>2, SMT
  <2>2. Cardinality(1 .. 3 - m) = IF 1 > 3 - m THEN 0 ELSE (3 - m) - 1 + 1
    BY <2>1, FS_Interval
  <2> QED
    BY <1>2, <1>7, <2>2, SMT

LettersOf(t, s, G, m) ==
  /\ t \in Seq(Nat) /\ Len(t) = 4 * (G - 1) + m + 1
  /\ \A g \in 1 .. G : \A k \in 1 .. GroupLen(g, G, m) + 1 :
       t[4 * (g - 1) + k] = Base64Group(Group(s, g))[k]
LEMMA LettersTaken ==
  ASSUME NEW s, NEW n, NEW G, NEW m, Grouped(s, n, G, m), NEW e, EncodedText(e, s, G, m)
  PROVE  LettersOf(SubSeq(e, 1, Len(e) - (3 - m)), s, G, m)
<1>1. G \in Nat /\ G >= 1 /\ m \in 1 .. 3
  BY DEF Grouped
<1>2. e \in Seq(Nat) /\ Len(e) = 4 * G
  BY DEF EncodedText
<1>3. PICK l \in Nat : l = Len(e) - (3 - m) /\ l = 4 * (G - 1) + m + 1 /\ l <= Len(e)
  BY <1>1, <1>2, SMT
<1>4. PICK t : t = SubSeq(e, 1, l)
  BY Zenon
<1>5. t \in Seq(Nat) /\ Len(t) = l /\ \A i \in 1 .. l : t[i] = e[i]
  <2>1. ASSUME NEW i \in 1 .. l PROVE e[i] \in Nat
    <3>1. i \in 1 .. Len(e)
      BY <1>1, <1>2, <1>3, SMT
    <3> QED
      BY <1>2, <3>1, ElementOfSeq
  <2> QED
    BY <1>4, <2>1, SubSeqProperties
<1>6. ASSUME NEW g \in 1 .. G, NEW k \in 1 .. GroupLen(g, G, m) + 1
      PROVE  t[4 * (g - 1) + k] = Base64Group(Group(s, g))[k]
  <2>1. k \in 1 .. 4 /\ 4 * (g - 1) + k \in 1 .. l
    BY <1>1, <1>3, SMT DEF GroupLen
  <2>2. e[4 * (g - 1) + k] = Base64Group(Group(s, g))[k]
    BY <2>1 DEF EncodedText
  <2> QED
    BY <1>5, <2>1, <2>2
<1> QED
  BY <1>3, <1>4, <1>5, <1>6 DEF LettersOf

Need(t, g) == SubSeq(t, 4 * g - 3, IF 4 * g < Len(t) THEN 4 * g ELSE Len(t))
LEMMA NeedIs ==
  ASSUME NEW s, NEW n, NEW G, NEW m, Grouped(s, n, G, m), NEW t, LettersOf(t, s, G, m),
         NEW g \in Nat, 1 <= g, g <= G
  PROVE  Lettered(Need(t, g), Base64Group(Group(s, g)), GroupLen(g, G, m) + 1)
<1>1. G \in Nat /\ G >= 1 /\ m \in 1 .. 3
  BY DEF Grouped
<1>2. t \in Seq(Nat) /\ Len(t) = 4 * (G - 1) + m + 1
  BY DEF LettersOf
<1>3. PICK l \in 2 .. 4 : l = GroupLen(g, G, m) + 1
  BY <1>1, SMT DEF GroupLen
<1>4. PICK j \in Nat : j = 4 * (g - 1) /\ j + l <= Len(t)
  BY <1>1, <1>2, <1>3, SMT DEF GroupLen
<1>5. Need(t, g) = SubSeq(t, j + 1, j + l)
  <2>1. 4 * g - 3 = j + 1
    BY <1>4, SMT
  <2>2. (IF 4 * g < Len(t) THEN 4 * g ELSE Len(t)) = j + l
    BY <1>1, <1>2, <1>3, <1>4, SMT DEF GroupLen
  <2> QED
    BY <2>1, <2>2, Zenon DEF Need
<1>6. PICK b : b = SubSeq(t, j + 1, j + l)
  BY Zenon
<1>7. ASSUME NEW i \in j + 1 .. j + l PROVE t[i] \in Nat
  <2>1. i \in 1 .. Len(t)
    BY <1>1, <1>2, <1>4, SMT
  <2> QED
    BY <1>2, <2>1, ElementOfSeq
<1>8. /\ b \in Seq(Nat)
      /\ Len(b) = (IF j + 1 <= j + l THEN (j + l) - (j + 1) + 1 ELSE 0)
      /\ \A i \in 1 .. (j + l) - (j + 1) + 1 : b[i] = t[(j + 1) + i - 1]
  <2>1. j + 1 \in Int /\ j + l \in Int
    BY SMT
  <2> QED
    BY ONLY <1>6, <1>7, <2>1, SubSeqProperties
<1>9. b \in Seq(Nat) /\ Len(b) = l /\ \A i \in 1 .. l : b[i] = t[j + i]
  <2>1. (j + l) - (j + 1) + 1 = l /\ j + 1 <= j + l /\ \A i \in 1 .. l : (j + 1) + i - 1 = j + i
    BY SMT
  <2> QED
    BY ONLY <1>8, <2>1
<1>10. \A i \in 1 .. l : t[j + i] = Base64Group(Group(s, g))[i]
  <2>1. g \in 1 .. G
    BY <1>1
  <2> QED
    BY <1>3, <1>4, <2>1 DEF LettersOf
<1> QED
  BY <1>3, <1>5, <1>6, <1>9, <1>10 DEF Lettered

DecodePieces(t) == [g \in 1 .. (Len(t) + 3) \div 4 |-> DecodedGroup(Need(t, g))]
LEMMA DecodeIs ==
  ASSUME NEW e, NEW k, k = Cardinality(Pads(e)), NEW t, t = SubSeq(e, 1, Len(e) - k)
  PROVE  WsBase64Decode(e) = FlattenSeq(DecodePieces(t))
BY SMT DEF WsBase64Decode, DecodePieces, DecodedGroup, ValueBytes, Need, LettersValue, ByteAt, Pads

(* Where the bytes come back: those of the text and a zero if it was       *)
(* padded.                                                                 *)
Spare0(m) == IF m = 3 THEN 0 ELSE 1
LEMMA LettersAreDecoded ==
  ASSUME NEW s, NEW n, NEW G, NEW m, Grouped(s, n, G, m), NEW e, EncodedText(e, s, G, m),
         NEW t, LettersOf(t, s, G, m)
  PROVE  /\ FlattenSeq(DecodePieces(t)) \in Seq(0 .. 255)
         /\ Len(FlattenSeq(DecodePieces(t))) = n + Spare0(m)
         /\ \A i \in 1 .. n + Spare0(m) : FlattenSeq(DecodePieces(t))[i] = ByteAt(s, i)
<1>1. G \in Nat /\ G >= 1 /\ m \in 1 .. 3 /\ n \in Nat /\ n = 3 * (G - 1) + m
  BY DEF Grouped
<1>2. PICK ps : ps = DecodePieces(t)
  BY Zenon
<1>3. (Len(t) + 3) \div 4 = G
  <2>1. Len(t) = 4 * (G - 1) + m + 1
    BY DEF LettersOf
  <2> QED
    BY <1>1, <2>1, SMT
<1>4. ps = [g \in 1 .. G |-> DecodedGroup(Need(t, g))]
  BY <1>2, <1>3, Zenon DEF DecodePieces
<1>5. ASSUME NEW g \in 1 .. G
      PROVE  /\ ps[g] \in Seq(0 .. 255)
             /\ Len(ps[g]) = (IF GroupLen(g, G, m) = 1 THEN 2 ELSE 3)
             /\ \A k \in 1 .. Len(ps[g]) : ps[g][k] = ByteAt(s, 3 * (g - 1) + k)
  <2>1. g \in Nat /\ 1 <= g /\ g <= G
    BY <1>1
  <2>0. PICK l \in 1 .. 3 : l = GroupLen(g, G, m)
    BY <2>1, GroupIs
  <2>2. PICK b, w :
          /\ l = GroupLen(g, G, m) /\ b = Group(s, g) /\ w = Base64Group(Group(s, g))
          /\ GroupOf(b, s, g, l)
    BY <2>0, <2>1, GroupIs
  <2>3. Encoded(w, GroupValue(b), l)
    BY <2>2, EncodedText(e, s, G, m), Zenon DEF EncodedText
  <2>4. Lettered(Need(t, g), w, l + 1)
    BY <2>1, <2>2, NeedIs
  <2>5. b \in Seq(0 .. 255) /\ Len(b) = l
    BY <2>2 DEF GroupOf
  <2>6. Padded(DecodedGroup(Need(t, g)), b, l)
    BY ONLY <2>3, <2>4, <2>5, l \in 1 .. 3, GroupDecoded
  <2>7. PICK r : r = ps[g] /\ Padded(r, b, l)
    BY <1>4, <2>6
  <2>8. r \in Seq(0 .. 255) /\ Len(r) = (IF l = 1 THEN 2 ELSE 3) /\ \A k \in 1 .. Len(r) : r[k] = ByteAt(b, k)
    BY <2>7, Zenon DEF Padded
  <2>9. \A k \in 1 .. 3 : ByteAt(b, k) = ByteAt(s, 3 * (g - 1) + k)
    BY <2>2, Zenon DEF GroupOf
  <2>10. \A k \in 1 .. Len(r) : k \in 1 .. 3
    BY <2>8, SMT
  <2> QED
    BY <2>2, <2>7, <2>8, <2>9, <2>10, Zenon
<1>6. ps \in Seq(Seq(0 .. 255)) /\ Len(ps) = G
  <2>1. ps = [g \in 1 .. G |-> ps[g]]
    BY <1>4
  <2>2. \A g \in 1 .. G : ps[g] \in Seq(0 .. 255)
    BY <1>5
  <2>3. ps \in [1 .. G -> Seq(0 .. 255)]
    BY ONLY <2>1, <2>2
  <2> QED
    BY <1>1, <2>3, FunctionIsSeq
<1>7. Strides(ps, 3)
  <2>1. ASSUME NEW i \in 1 .. G, i < G PROVE Len(ps[i]) = 3
    <3>1. GroupLen(i, G, m) = 3
      BY <2>1 DEF GroupLen
    <3>2. Len(ps[i]) = (IF GroupLen(i, G, m) = 1 THEN 2 ELSE 3)
      BY <1>5, Zenon
    <3> QED
      BY ONLY <3>1, <3>2
  <2> QED
    BY <1>6, <2>1 DEF Strides
<1>8. PICK r : r = FlattenSeq(ps)
  BY Zenon
<1>9. r \in Seq(0 .. 255) /\ Lined(r, ps, 3)
  <2>1. PICK w \in Nat : w = 3
    OBVIOUS
  <2>2. Strides(ps, w)
    BY <1>7, <2>1
  <2>3. r \in Seq(0 .. 255) /\ Lined(r, ps, w)
    BY ONLY <1>6, <1>8, <2>2, w \in Nat, PiecesLined
  <2> QED
    BY <2>1, <2>3
<1>10. Len(r) = n + Spare0(m)
  <2>1. G \in 1 .. G /\ G # 0 /\ GroupLen(G, G, m) = m
    BY <1>1 DEF GroupLen
  <2>2. Len(ps[G]) = IF m = 1 THEN 2 ELSE 3
    BY <1>5, <2>1
  <2>3. Len(r) = 3 * (G - 1) + Len(ps[G])
    BY <1>6, <1>9, <2>1 DEF Lined
  <2> QED
    BY <1>1, <2>2, <2>3, SMT DEF Spare0
<1>11. ASSUME NEW i \in 1 .. n + Spare0(m) PROVE r[i] = ByteAt(s, i)
  <2>1. PICK g \in 1 .. G, k \in 1 .. 3 : i = 3 * (g - 1) + k /\ k <= (IF GroupLen(g, G, m) = 1 THEN 2 ELSE 3)
    <3>1. PICK p \in Nat : p = i - 1 /\ p < n + Spare0(m)
      BY <1>1, SMT DEF Spare0
    <3>2. PICK q \in Nat : q = p \div 3
      BY SMT
    <3>3. PICK c \in 0 .. 2 : c = p % 3
      BY SMT
    <3>4. p = 3 * q + c
      BY ONLY <3>2, <3>3, p \in Nat, q \in Nat, c \in 0 .. 2, SMT
    <3>5. PICK g \in 1 .. G, k \in 1 .. 3 : g = q + 1 /\ k = c + 1
      BY <1>1, <3>1, <3>4, SMT DEF Spare0
    <3>6. i = 3 * (g - 1) + k
      BY <3>1, <3>4, <3>5, SMT
    <3>7. k <= (IF GroupLen(g, G, m) = 1 THEN 2 ELSE 3)
      BY <1>1, <3>6, SMT DEF GroupLen, Spare0
    <3> QED
      BY <3>6, <3>7
  <2>2. k \in 1 .. Len(ps[g])
    BY <1>5, <2>1
  <2>3. \A a \in 1 .. G : \A b \in 1 .. Len(ps[a]) : r[3 * (a - 1) + b] = ps[a][b]
    BY <1>6, <1>9 DEF Lined
  <2>4. r[3 * (g - 1) + k] = ps[g][k]
    BY <2>2, <2>3
  <2>5. ps[g][k] = ByteAt(s, 3 * (g - 1) + k)
    BY <1>5, <2>2
  <2> QED
    BY <2>1, <2>4, <2>5
<1> QED
  BY <1>2, <1>8, <1>9, <1>10, <1>11

LEMMA Base64Decoded ==
  ASSUME NEW s \in Seq(0 .. 255)
  PROVE  WsBase64Decode(WsBase64Encode(s)) = s \o Zeros(IF Len(s) % 3 = 0 THEN 0 ELSE 1)
<1>1. CASE s = << >>
  <2>1. Len(s) = 0 /\ (0 + 2) \div 3 = 0 /\ (0 + 3) \div 4 = 0 /\ 0 % 3 = 0
    BY <1>1, SMT
  <2>2. WsBase64Encode(s) = << >>
    <3>1. Len([g \in 1 .. 0 |-> Base64Group(Group(s, g))]) = 0
      BY SMT
    <3>2. FlattenSeq([g \in 1 .. 0 |-> Base64Group(Group(s, g))])
            = [g \in 1 .. 0 |-> Base64Group(Group(s, g))]
      BY <3>1, Zenon DEF FlattenSeq
    <3>3. [g \in 1 .. 0 |-> Base64Group(Group(s, g))] = << >>
      BY SMT
    <3> QED
      BY <2>1, <3>2, <3>3, Zenon DEF WsBase64Encode
  <2>3. Pads(<< >>) = {}
    BY SMT DEF Pads
  <2>4. Cardinality(Pads(<< >>)) = 0
    BY <2>3, FS_EmptySet
  <2>5. PICK t : t = SubSeq(<< >>, 1, 0)
    BY Zenon
  <2>6. t = << >>
    BY <2>5, SMT
  <2>7. WsBase64Decode(<< >>) = FlattenSeq(DecodePieces(t))
    <3>1. Len(<< >>) - 0 = 0
      BY SMT
    <3> QED
      BY ONLY <2>4, <2>5, <3>1, DecodeIs
  <2>8. DecodePieces(t) = << >>
    <3>1. (Len(t) + 3) \div 4 = 0
      BY <2>6, SMT
    <3>2. DecodePieces(t) = [g \in 1 .. 0 |-> DecodedGroup(Need(t, g))]
      BY <3>1, Zenon DEF DecodePieces
    <3> QED
      BY <3>2, SMT
  <2>9. FlattenSeq(<< >>) = << >>
    BY SMT DEF FlattenSeq
  <2>10. Zeros(0) = << >>
    BY DEF Zeros
  <2>11. << >> \o << >> = << >>
    BY SMT
  <2> QED
    BY <1>1, <2>1, <2>2, <2>7, <2>8, <2>9, <2>10, <2>11, Zenon
<1>2. CASE s # << >>
  <2>1. PICK n, G, m : Grouped(s, n, G, m) /\ G = (n + 2) \div 3 /\ (m = 3 <=> n % 3 = 0)
    BY <1>2, GroupsOf
  <2>2. n \in Nat /\ n = Len(s) /\ m \in 1 .. 3
    BY <2>1 DEF Grouped
  <2>3. PICK e : e = WsBase64Encode(s) /\ EncodedText(e, s, G, m)
    BY <2>1, TextIsEncoded
  <2>4. PICK k : k = 3 - m
    BY Zenon
  <2>5. k = Cardinality(Pads(e))
    BY <2>1, <2>3, <2>4, PadsCounted
  <2>6. PICK t : t = SubSeq(e, 1, Len(e) - k)
    BY Zenon
  <2>7. LettersOf(t, s, G, m)
    BY <2>1, <2>3, <2>4, <2>6, LettersTaken
  <2>8. PICK r : r = FlattenSeq(DecodePieces(t))
    BY Zenon
  <2>9. WsBase64Decode(e) = r
    BY <2>5, <2>6, <2>8, DecodeIs, Zenon
  <2>10. /\ r \in Seq(0 .. 255) /\ Len(r) = n + Spare0(m)
         /\ \A i \in 1 .. n + Spare0(m) : r[i] = ByteAt(s, i)
    BY <2>1, <2>3, <2>7, <2>8, LettersAreDecoded
  <2>11. PICK j \in Nat : j = Spare0(m) /\ j = (IF Len(s) % 3 = 0 THEN 0 ELSE 1)
    BY <2>1, <2>2 DEF Spare0
  <2>12. PICK z : z = Zeros(j)
    BY Zenon
  <2>13. z \in Seq(0 .. 255) /\ Len(z) = j /\ \A i \in 1 .. j : z[i] = 0
    <3>1. z = [i \in 1 .. j |-> 0]
      BY <2>12 DEF Zeros
    <3>2. z \in [1 .. j -> 0 .. 255] /\ \A i \in 1 .. j : z[i] = 0
      BY <3>1
    <3> QED
      BY <3>2, FunctionIsSeq
  <2>14. PICK q : q = s \o z
    BY Zenon
  <2>15. /\ q \in Seq(0 .. 255) /\ Len(q) = n + j
         /\ \A i \in 1 .. n + j : q[i] = IF i <= n THEN s[i] ELSE z[i - n]
    <3>1. /\ q \in Seq(0 .. 255) /\ Len(q) = Len(s) + Len(z)
          /\ \A i \in 1 .. Len(s) + Len(z) : q[i] = IF i <= Len(s) THEN s[i] ELSE z[i - Len(s)]
      <4>1. z \in Seq(0 .. 255)
        BY <2>13, Zenon
      <4> QED
        BY ONLY <2>14, <4>1, s \in Seq(0 .. 255), ConcatProperties, SMTT(30)
    <3> QED
      BY ONLY <2>2, <2>13, <3>1
  <2>16. ASSUME NEW i \in 1 .. n + j PROVE r[i] = q[i]
    <3>1. CASE i <= n
      BY <2>2, <2>10, <2>11, <2>15, <3>1 DEF ByteAt
    <3>2. CASE ~(i <= n)
      <4>1. i - n \in 1 .. j
        BY <2>2, <3>2
      <4>2. q[i] = 0
        BY <2>13, <2>15, <3>2, <4>1
      <4>3. ByteAt(s, i) = 0
        BY <2>2, <3>2 DEF ByteAt
      <4> QED
        BY <2>10, <2>11, <4>2, <4>3
    <3> QED
      BY <3>1, <3>2
  <2>17. r = q
    <3>1. Len(r) = n + j
      BY <2>10, <2>11
    <3> QED
      BY ONLY <2>10, <2>15, <2>16, <3>1, SeqEqual
  <2> QED
    BY <2>3, <2>9, <2>11, <2>12, <2>14, <2>17, Zenon
<1> QED
  BY <1>1, <1>2

(* The digits of a digest are its bytes again.                             *)
LEMMA DigitsAreBytes ==
  ASSUME NEW s \in Seq(0 .. 255)
  PROVE  [i \in 1 .. Len(HexDigits(s)) \div 2 |-> Htoi(HexDigits(s), 2 * (i - 1))] = s
<1>1. PICK n \in Nat : n = Len(s)
  BY LenProperties
<1>2. PICK ps : ps = DigitPieces(s)
  BY Zenon
<1>3. PICK h : h = HexDigits(s)
  BY Zenon
<1>4. h = FlattenSeq(ps)
  <2>1. DOMAIN s = 1 .. Len(s)
    BY LenProperties
  <2> QED
    BY <1>2, <1>3, <2>1, Zenon DEF HexDigits, DigitPieces
<1>5. /\ ps \in Seq(Seq(Nat)) /\ Len(ps) = n
      /\ \A i \in 1 .. n : Len(ps[i]) = 2 /\ ps[i][1] = s[i] \div 16 /\ ps[i][2] = s[i] % 16
  <2>1. IsPieces(ps, s) /\ \A i \in 1 .. n : Len(ps[i]) = 2
    BY <1>1, <1>2, DigitsArePieces
  <2> QED
    BY <1>1, <2>1 DEF IsPieces, HexPiece
<1>6. Lined(h, ps, 2)
  <2>1. PICK w \in Nat : w = 2
    OBVIOUS
  <2>2. Strides(ps, w)
    BY <1>5, <2>1 DEF Strides
  <2>3. ps \in Seq(Seq(Nat))
    BY <1>5
  <2>4. Lined(h, ps, w)
    BY ONLY <1>4, <2>2, <2>3, w \in Nat, PiecesLined
  <2> QED
    BY <2>1, <2>4
<1>7. Len(h) \div 2 = n
  <2>1. CASE n = 0
    BY <1>5, <1>6, <2>1 DEF Lined
  <2>2. CASE n # 0
    <3>1. n \in 1 .. n
      BY <2>2
    <3>2. Len(ps[n]) = 2
      BY <1>5, <3>1
    <3>3. Len(h) = 2 * (n - 1) + Len(ps[n])
      BY <1>5, <1>6, <2>2 DEF Lined
    <3> QED
      BY <3>2, <3>3
  <2> QED
    BY <2>1, <2>2
<1>8. ASSUME NEW i \in 1 .. n PROVE Htoi(h, 2 * (i - 1)) = s[i]
  <2>1. \A j \in 1 .. n : \A k \in 1 .. Len(ps[j]) : h[2 * (j - 1) + k] = ps[j][k]
    BY <1>5, <1>6 DEF Lined
  <2>2. 1 \in 1 .. Len(ps[i]) /\ 2 \in 1 .. Len(ps[i])
    <3>1. Len(ps[i]) = 2
      BY <1>5
    <3> QED
      BY ONLY <3>1
  <2>3. h[2 * (i - 1) + 1] = s[i] \div 16 /\ h[2 * (i - 1) + 2] = s[i] % 16
    BY <1>5, <2>1, <2>2
  <2>4. s[i] \in 0 .. 255
    BY <1>1, ElementOfSeq
  <2>5. PICK b \in 0 .. 255 : b = s[i]
    BY <2>4
  <2>6. PICK x \in Nat : x = b \div 16
    BY SMT
  <2>7. PICK y \in 0 .. 15 : y = b % 16
    BY SMT
  <2>8. x * 16 + y = b
    BY ONLY <2>6, <2>7, b \in 0 .. 255, x \in Nat, y \in 0 .. 15, SMT
  <2>9. h[2 * (i - 1) + 1] = x /\ h[2 * (i - 1) + 2] = y
    BY <2>3, <2>5, <2>6, <2>7, Zenon
  <2> QED
    BY <2>5, <2>8, <2>9, Zenon DEF Htoi
<1>9. s = [i \in 1 .. n |-> s[i]]
  BY <1>1, LenProperties
<1>10. [i \in 1 .. n |-> Htoi(h, 2 * (i - 1))] = [i \in 1 .. n |-> s[i]]
  BY <1>8
<1> QED
  BY <1>3, <1>7, <1>9, <1>10, Zenon

LEMMA KeysAreRight ==
  ASSUME NEW text \in Seq(0 .. 255)
  PROVE  KeysReturn(text)
<1>1. PICK n \in Nat : n = Len(text)
  BY LenProperties
<1>2. WsBase64Decode(WsBase64Encode(text)) = text \o Zeros(IF Len(text) % 3 = 0 THEN 0 ELSE 1)
  BY Base64Decoded
<1>3. AsString(WsBase64Decode(AcceptKey(text))) = AsString(text)
  <2>1. PICK t : t = AsString(text) /\ Plain(t)
    BY StringOfString
  <2>2. AcceptKey(text) = WsBase64Encode(t)
    BY <2>1, DigitsAreBytes, Zenon DEF AcceptKey
  <2>3. t \in Seq(0 .. 255)
    BY <2>1 DEF Plain
  <2>4. PICK j \in Nat : j = (IF Len(t) % 3 = 0 THEN 0 ELSE 1)
    OBVIOUS
  <2>5. WsBase64Decode(AcceptKey(text)) = t \o Zeros(j)
    BY <2>2, <2>3, <2>4, Base64Decoded, Zenon
  <2>6. AsString(t \o Zeros(j)) = t
    BY <2>1, ZerosBehind
  <2> QED
    BY <2>1, <2>5, <2>6, Zenon
<1>4. KeyFetched(text)
  BY KeyIsFetched
<1> QED
  BY <1>2, <1>3, <1>4, Zenon DEF KeysReturn

-----------------------------------------------------------------------------
(* The blocks of SHA-1.                                                    *)

ShaStates == [block : Seq(0 .. 255), done : Seq(Seq(0 .. 255)), bits : Nat]
Sha(b, d, n) == [block |-> b, done |-> d, bits |-> n]
LEMMA ShaIs ==
  ASSUME NEW b \in Seq(0 .. 255), NEW d \in Seq(Seq(0 .. 255)), NEW n \in Nat
  PROVE  /\ Sha(b, d, n) \in ShaStates
         /\ Sha(b, d, n).block = b /\ Sha(b, d, n).done = d /\ Sha(b, d, n).bits = n
  BY DEF Sha, ShaStates
LEMMA ShaParts ==
  ASSUME NEW c \in ShaStates
  PROVE  /\ c.block \in Seq(0 .. 255) /\ c.done \in Seq(Seq(0 .. 255)) /\ c.bits \in Nat
         /\ c = Sha(c.block, c.done, c.bits)
  BY DEF Sha, ShaStates
LEMMA ProcessedIs ==
  ASSUME NEW b, NEW d, NEW n
  PROVE  Processed(Sha(b, d, n)) = Sha(<< >>, Append(d, b), n)
<1>1. PICK c, e : c = Sha(b, d, n) /\ e = Append(d, b)
  BY Zenon
<1>2. c.done = d /\ c.block = b
  BY <1>1 DEF Sha
<1>3. Append(c.done, c.block) = e
  BY <1>1, <1>2, Zenon
<1>4. PICK k : k = [c EXCEPT !.done = e]
  BY Zenon
<1>5. k = Sha(b, e, n)
  BY ONLY <1>1, <1>4 DEF Sha
<1>6. [k EXCEPT !.block = << >>] = Sha(<< >>, e, n)
  BY ONLY <1>5 DEF Sha
<1>7. [c EXCEPT !.done = Append(c.done, c.block), !.block = << >>] = Processed(c)
  BY SMT DEF Processed
<1> QED
  BY <1>1, <1>3, <1>4, <1>6, <1>7, Zenon
Takes(b, n, x, e, m) == e = Append(b, x) /\ m = n + 8
TakenIn(c, x, d, e, m) ==
  /\ Len(e) = 64 => Sha1Input(c, x) = Sha(<< >>, Append(d, e), m)
  /\ Len(e) # 64 => Sha1Input(c, x) = Sha(e, d, m)
LEMMA InputIs ==
  ASSUME NEW b, NEW d, NEW n, NEW x, NEW e, NEW m, Takes(b, n, x, e, m), NEW c, c = Sha(b, d, n)
  PROVE  TakenIn(c, x, d, e, m)
<1>1. e = Append(b, x) /\ m = n + 8
  BY DEF Takes
<1>2. c.block = b /\ c.bits = n
  BY DEF Sha
<1>3. PICK k : k = [c EXCEPT !.block = e]
  BY Zenon
<1>4. k = Sha(e, d, n)
  BY ONLY <1>3, c = Sha(b, d, n) DEF Sha
<1>5. [k EXCEPT !.bits = m] = Sha(e, d, m)
  BY ONLY <1>4 DEF Sha
<1>6. PICK g : g = [c EXCEPT !.block = Append(c.block, x), !.bits = c.bits + 8]
  BY Zenon
<1>7. g = Sha(e, d, m)
  BY <1>1, <1>2, <1>3, <1>5, <1>6, Zenon
<1>8. g.block = e
  BY <1>7 DEF Sha
<1>9. Sha1Input(c, x) = IF Len(g.block) = 64 THEN Processed(g) ELSE g
  BY <1>6, SMT DEF Sha1Input
<1>10. Processed(g) = Sha(<< >>, Append(d, e), m)
  BY <1>7, ProcessedIs, Zenon
<1> QED
  BY <1>7, <1>8, <1>9, <1>10, Zenon DEF TakenIn

LEMMA InputStays ==
  ASSUME NEW c \in ShaStates, NEW x \in 0 .. 255
  PROVE  Sha1Input(c, x) \in ShaStates
<1>1. PICK b, d, n : c = Sha(b, d, n) /\ b \in Seq(0 .. 255) /\ d \in Seq(Seq(0 .. 255)) /\ n \in Nat
  BY ShaParts
<1>2. PICK e : e = Append(b, x) /\ e \in Seq(0 .. 255)
  BY <1>1, AppendProperties
<1>3. << >> \in Seq(0 .. 255)
  OBVIOUS
<1>0. PICK m \in Nat : m = n + 8
  BY <1>1
<1>4. PICK g : g = Append(d, e) /\ g \in Seq(Seq(0 .. 255))
  BY <1>1, <1>2, AppendProperties
<1>5. Sha(<< >>, g, m) \in ShaStates /\ Sha(e, d, m) \in ShaStates
  BY <1>1, <1>2, <1>3, <1>4, ShaIs
<1>6. Sha1Input(c, x) \in {Sha(<< >>, g, m), Sha(e, d, m)}
  <2>1. /\ Len(e) = 64 => Sha1Input(c, x) = Sha(<< >>, Append(d, e), m)
        /\ Len(e) # 64 => Sha1Input(c, x) = Sha(e, d, m)
    <3>1. Takes(b, n, x, e, m)
      BY <1>0, <1>2 DEF Takes
    <3>2. TakenIn(c, x, d, e, m)
      BY <1>1, <3>1, InputIs, Zenon
    <3> QED
      BY <3>2 DEF TakenIn
  <2> QED
    BY <1>4, <2>1, Zenon
<1> QED
  BY <1>5, <1>6, Zenon

Hashes(f, s) ==
  /\ f \in [0 .. Len(s) -> ShaStates] /\ f[0] = Sha1Reset
  /\ \A i \in 1 .. Len(s) : f[i] = Sha1Input(f[i - 1], s[i])
  /\ Sha1Blocks(s) = Sha1Pad(f[Len(s)]).done
LEMMA Hashed ==
  ASSUME NEW s \in Seq(0 .. 255)
  PROVE  \E f : Hashes(f, s)
<1> DEFINE n == Len(s)
           step == [x \in ShaStates \X Nat |->
                      IF x[2] \in 1 .. n THEN Sha1Input(x[1], s[x[2]]) ELSE Sha1Reset]
           F(f) == [i \in 0 .. n |-> IF i = 0 THEN Sha1Reset ELSE Sha1Input(f[i - 1], s[i])]
           f == CHOOSE f : f = F(f)
<1>1. n \in Nat /\ \A i \in 1 .. n : s[i] \in 0 .. 255
  BY LenProperties, ElementOfSeq
<1>2. Sha1Reset \in ShaStates
  BY EmptySeq DEF Sha1Reset, ShaStates
<1>3. step \in [ShaStates \X Nat -> ShaStates]
  <2>1. ASSUME NEW x \in ShaStates \X Nat PROVE step[x] \in ShaStates
    <3>1. x[1] \in ShaStates
      OBVIOUS
    <3>2. CASE x[2] \in 1 .. n
      <4>1. s[x[2]] \in 0 .. 255
        BY <1>1, <3>2
      <4>2. Sha1Input(x[1], s[x[2]]) \in ShaStates
        BY <3>1, <4>1, InputStays
      <4> QED
        BY <3>2, <4>2
    <3>3. CASE x[2] \notin 1 .. n
      BY <1>2, <3>3
    <3> QED
      BY <3>2, <3>3
  <2> QED
    BY <2>1
<1> HIDE DEF step
<1>4. PICK g \in [0 .. n -> ShaStates] : Runs(g, n, Sha1Reset, step)
  BY <1>1, <1>2, <1>3, Recursion
<1>5. ASSUME NEW i \in 1 .. n PROVE g[i] = Sha1Input(g[i - 1], s[i])
  <2>1. i - 1 \in 0 .. n /\ i \in Nat
    BY <1>1
  <2>2. g[i] = step[g[i - 1], i]
    BY ONLY <1>4, i \in 1 .. n DEF Runs
  <2>3. g[i - 1] \in ShaStates
    BY ONLY <2>1, g \in [0 .. n -> ShaStates]
  <2> QED
    BY <2>1, <2>2, <2>3 DEF step
<1>6. g[0] = Sha1Reset
  BY <1>4 DEF Runs
<1>7. g = F(g)
  <2>1. ASSUME NEW i \in 0 .. n PROVE g[i] = IF i = 0 THEN Sha1Reset ELSE Sha1Input(g[i - 1], s[i])
    <3>1. CASE i = 0
      BY <1>6, <3>1
    <3>2. CASE i # 0
      <4>1. i \in 1 .. n
        BY <1>1, <3>2
      <4> QED
        BY <1>5, <3>2, <4>1
    <3> QED
      BY <3>1, <3>2
  <2> QED
    BY <2>1
<1>8. f = F(f)
  BY <1>7
<1>9. Sha1Blocks(s) = Sha1Pad(f[n]).done
  BY DEF Sha1Blocks
<1> HIDE DEF f
<1>10. \A i \in 0 .. n : f[i] = g[i]
  <2>1. f[0] = g[0]
    BY <1>1, <1>6, <1>8
  <2>2. ASSUME NEW i \in 1 .. n, f[i - 1] = g[i - 1] PROVE f[i] = g[i]
    <3>1. i \in 0 .. n /\ i # 0
      BY <1>1
    <3> QED
      BY <1>5, <1>8, <2>2, <3>1
  <2> QED
    <3>1. StepAlike(f, g, n)
      BY ONLY <1>1, <2>1, <2>2 DEF StepAlike
    <3> QED
      BY ONLY <3>1, SameSteps
<1> QED
  BY <1>1, <1>4, <1>5, <1>6, <1>9, <1>10 DEF Hashes

(* After i bytes: the blocks that are done and the one that is filled hold *)
(* them all, in their order.                                               *)
HoldsFrom(b, s, at) == \A j \in 1 .. Len(b) : b[j] = s[at + j]
Blocks(d, s) ==
  /\ d \in Seq(Seq(0 .. 255))
  /\ \A k \in 1 .. Len(d) : Len(d[k]) = 64 /\ HoldsFrom(d[k], s, 64 * (k - 1))
HashedTo(b, d, n, s, i) ==
  /\ b \in Seq(0 .. 255) /\ Blocks(d, s) /\ Len(b) < 64 /\ i = 64 * Len(d) + Len(b)
  /\ HoldsFrom(b, s, 64 * Len(d)) /\ n = 8 * i
LEMMA BlockIsDone ==
  ASSUME NEW d, NEW s, Blocks(d, s), NEW e \in Seq(0 .. 255), Len(e) = 64,
         HoldsFrom(e, s, 64 * Len(d)), NEW g, g = Append(d, e)
  PROVE  Blocks(g, s) /\ Len(g) = Len(d) + 1
<1>1. d \in Seq(Seq(0 .. 255))
  BY DEF Blocks
<1>2. PICK q \in Nat : q = Len(d)
  BY <1>1, LenProperties
<1>3. /\ g \in Seq(Seq(0 .. 255)) /\ Len(g) = q + 1
      /\ \A k \in 1 .. q : g[k] = d[k]
      /\ g[q + 1] = e
  BY <1>1, <1>2, AppendProperties
<1>4. ASSUME NEW k \in 1 .. q + 1 PROVE Len(g[k]) = 64 /\ HoldsFrom(g[k], s, 64 * (k - 1))
  <2>1. CASE k <= q
    <3>1. k \in 1 .. q
      BY <2>1
    <3>2. Len(d[k]) = 64 /\ HoldsFrom(d[k], s, 64 * (k - 1))
      BY <1>2, <3>1 DEF Blocks
    <3> QED
      BY <1>3, <3>1, <3>2
  <2>2. CASE ~(k <= q)
    <3>1. k = q + 1 /\ k - 1 = q
      BY <2>2
    <3> QED
      BY <1>2, <1>3, <3>1, Zenon
  <2> QED
    BY <2>1, <2>2
<1> QED
  BY <1>2, <1>3, <1>4 DEF Blocks

LEMMA ByteIsHashed ==
  ASSUME NEW s \in Seq(0 .. 255), NEW b, NEW d, NEW n, NEW i \in Nat, HashedTo(b, d, n, s, i),
         NEW j, j = i + 1, j <= Len(s)
  PROVE  \E bb, dd, nn : Sha1Input(Sha(b, d, n), s[j]) = Sha(bb, dd, nn) /\ HashedTo(bb, dd, nn, s, j)
<1>1. /\ b \in Seq(0 .. 255) /\ Blocks(d, s) /\ Len(b) < 64 /\ i = 64 * Len(d) + Len(b)
      /\ HoldsFrom(b, s, 64 * Len(d)) /\ n = 8 * i
  BY DEF HashedTo
<1>2. PICK q \in Nat, l \in Nat : q = Len(d) /\ l = Len(b)
  BY <1>1, LenProperties DEF Blocks
<1>0. i = 64 * q + l
  BY <1>1, <1>2, Zenon
<1>3. s[j] \in 0 .. 255
  <2>1. j \in 1 .. Len(s)
    BY LenProperties
  <2> QED
    BY <2>1, ElementOfSeq
<1>4. PICK e : e = Append(b, s[j])
  BY Zenon
<1>5. /\ e \in Seq(0 .. 255) /\ Len(e) = l + 1
      /\ \A k \in 1 .. l : e[k] = b[k]
      /\ e[l + 1] = s[j]
  BY <1>1, <1>2, <1>3, <1>4, AppendProperties
<1>6. HoldsFrom(e, s, 64 * q)
  <2>1. ASSUME NEW k \in 1 .. l + 1 PROVE e[k] = s[64 * q + k]
    <3>1. CASE k <= l
      <4>1. k \in 1 .. l
        BY <3>1
      <4>2. b[k] = s[64 * q + k]
        BY <1>1, <1>2, <4>1 DEF HoldsFrom
      <4> QED
        BY <1>5, <4>1, <4>2
    <3>2. CASE ~(k <= l)
      <4>1. k = l + 1 /\ 64 * q + k = j
        BY <1>0, <3>2
      <4> QED
        BY <1>5, <4>1
    <3> QED
      BY <3>1, <3>2
  <2> QED
    BY <1>5, <2>1 DEF HoldsFrom
<1>7. PICK m : m = n + 8 /\ m = 8 * j
  BY <1>1
<1>10. /\ Len(e) = 64 => Sha1Input(Sha(b, d, n), s[j]) = Sha(<< >>, Append(d, e), m)
       /\ Len(e) # 64 => Sha1Input(Sha(b, d, n), s[j]) = Sha(e, d, m)
  <2>1. PICK c, x : c = Sha(b, d, n) /\ x = s[j]
    BY Zenon
  <2>2. e = Append(b, x) /\ m = n + 8
    BY <1>4, <1>7, <2>1, Zenon
  <2>3. /\ Len(e) = 64 => Sha1Input(c, x) = Sha(<< >>, Append(d, e), m)
        /\ Len(e) # 64 => Sha1Input(c, x) = Sha(e, d, m)
    <3>1. Takes(b, n, x, e, m)
      BY <2>2 DEF Takes
    <3>2. TakenIn(c, x, d, e, m)
      BY <2>1, <3>1, InputIs, Zenon
    <3> QED
      BY <3>2 DEF TakenIn
  <2> QED
    BY <2>1, <2>3, Zenon
<1>8. CASE Len(e) = 64
  <2>1. PICK g : g = Append(d, e)
    BY Zenon
  <2>2. Blocks(g, s) /\ Len(g) = q + 1
    BY <1>1, <1>2, <1>5, <1>6, <1>8, <2>1, BlockIsDone
  <2>3. Sha1Input(Sha(b, d, n), s[j]) = Sha(<< >>, g, m)
    BY <1>8, <1>10, <2>1, Zenon
  <2>4. HashedTo(<< >>, g, m, s, j)
    <3>1. << >> \in Seq(0 .. 255) /\ Len(<< >>) = 0
      OBVIOUS
    <3>2. HoldsFrom(<< >>, s, 64 * Len(g))
      BY <3>1 DEF HoldsFrom
    <3>3. j = 64 * Len(g) + Len(<< >>)
      <4>1. l + 1 = 64 /\ Len(g) = q + 1
        BY <1>5, <1>8, <2>2
      <4> QED
        BY ONLY <1>0, <3>1, <4>1, q \in Nat, l \in Nat, j = i + 1
    <3>4. Len(<< >>) < 64
      BY <3>1
    <3> QED
      BY <1>7, <2>2, <3>1, <3>2, <3>3, <3>4, Zenon DEF HashedTo
  <2> QED
    BY <2>3, <2>4
<1>9. CASE Len(e) # 64
  <2>1. Sha1Input(Sha(b, d, n), s[j]) = Sha(e, d, m)
    BY <1>9, <1>10, Zenon
  <2>2. HashedTo(e, d, m, s, j)
    BY <1>1, <1>2, <1>5, <1>6, <1>7, <1>9 DEF HashedTo
  <2> QED
    BY <2>1, <2>2
<1> QED
  BY <1>8, <1>9

LEMMA TextIsHashed ==
  ASSUME NEW s \in Seq(0 .. 255), NEW f, Hashes(f, s)
  PROVE  \E b, d, n : f[Len(s)] = Sha(b, d, n) /\ HashedTo(b, d, n, s, Len(s))
<1>1. PICK l \in Nat : l = Len(s)
  BY LenProperties
<1> DEFINE T == {i \in Nat : i <= l => \E b, d, n : f[i] = Sha(b, d, n) /\ HashedTo(b, d, n, s, i)}
<1>2. 0 \in T
  <2>1. f[0] = Sha(<< >>, << >>, 0)
    BY DEF Hashes, Sha1Reset, Sha
  <2>2. << >> \in Seq(0 .. 255) /\ << >> \in Seq(Seq(0 .. 255)) /\ Len(<< >>) = 0
    OBVIOUS
  <2>3. Blocks(<< >>, s) /\ HoldsFrom(<< >>, s, 64 * Len(<< >>))
    BY <2>2 DEF Blocks, HoldsFrom
  <2>4. HashedTo(<< >>, << >>, 0, s, 0)
    BY <2>2, <2>3 DEF HashedTo
  <2> QED
    BY <2>1, <2>4
<1>3. ASSUME NEW i \in Nat, i \in T PROVE i + 1 \in T
  <2> SUFFICES ASSUME i + 1 <= l
               PROVE  \E b, d, n : f[i + 1] = Sha(b, d, n) /\ HashedTo(b, d, n, s, i + 1)
    OBVIOUS
  <2>1. PICK j : j = i + 1 /\ j \in 1 .. l /\ j - 1 = i /\ i <= l /\ j <= Len(s)
    BY <1>1
  <2>2. PICK b, d, n : f[i] = Sha(b, d, n) /\ HashedTo(b, d, n, s, i)
    BY <1>3, <2>1
  <2>3. f[j] = Sha1Input(Sha(b, d, n), s[j])
    BY <1>1, <2>1, <2>2 DEF Hashes
  <2>4. \E bb, dd, nn : Sha1Input(Sha(b, d, n), s[j]) = Sha(bb, dd, nn) /\ HashedTo(bb, dd, nn, s, j)
    BY <2>1, <2>2, ByteIsHashed
  <2> QED
    BY <2>1, <2>3, <2>4
<1> HIDE DEF T
<1>4. l \in T
  BY <1>2, <1>3, Induct
<1> QED
  BY <1>1, <1>4 DEF T
-----------------------------------------------------------------------------
(* The padding.                                                            *)

LEMMA ZerosAre ==
  ASSUME NEW j \in Nat
  PROVE  Zeros(j) \in Seq(0 .. 255) /\ Len(Zeros(j)) = j /\ \A i \in 1 .. j : Zeros(j)[i] = 0
<1>1. PICK z : z = Zeros(j)
  BY Zenon
<1>2. z = [i \in 1 .. j |-> 0]
  BY <1>1 DEF Zeros
<1>3. z \in [1 .. j -> 0 .. 255] /\ \A i \in 1 .. j : z[i] = 0
  BY <1>2
<1>4. z \in Seq(0 .. 255) /\ Len(z) = j
  BY <1>3, FunctionIsSeq
<1> QED
  BY <1>1, <1>3, <1>4, Zenon

(* Two parts that stand in t one behind the other stand there as one.      *)
Joined(w, a, c, t, at) ==
  w \in Seq(0 .. 255) /\ Len(w) = Len(a) + Len(c) /\ HoldsFrom(w, t, at)
LEMMA PartsJoin ==
  ASSUME NEW a \in Seq(0 .. 255), NEW c \in Seq(0 .. 255), NEW w, w = a \o c, NEW at \in Nat,
         NEW t, HoldsFrom(a, t, at), NEW to, to = at + Len(a), HoldsFrom(c, t, to)
  PROVE  Joined(w, a, c, t, at)
<1>1. PICK l \in Nat, k \in Nat : l = Len(a) /\ k = Len(c)
  BY LenProperties
<1>2. /\ w \in Seq(0 .. 255) /\ Len(w) = l + k
      /\ \A i \in 1 .. l + k : w[i] = IF i <= l THEN a[i] ELSE c[i - l]
  BY <1>1, ConcatProperties
<1>3. ASSUME NEW i \in 1 .. l + k PROVE w[i] = t[at + i]
  <2>1. CASE i <= l
    <3>1. i \in 1 .. l
      BY <2>1
    <3>2. a[i] = t[at + i]
      BY <1>1, <3>1 DEF HoldsFrom
    <3> QED
      BY <1>2, <2>1, <3>2
  <2>2. CASE ~(i <= l)
    <3>1. i - l \in 1 .. k /\ to + (i - l) = at + i
      BY <1>1, <2>2
    <3>2. c[i - l] = t[to + (i - l)]
      BY <1>1, <3>1 DEF HoldsFrom
    <3>3. w[i] = c[i - l]
      BY <1>2, <2>2
    <3> QED
      BY <3>1, <3>2, <3>3
  <2> QED
    BY <2>1, <2>2
<1>4. HoldsFrom(w, t, at)
  BY <1>2, <1>3 DEF HoldsFrom
<1> QED
  BY <1>1, <1>2, <1>4 DEF Joined

(* What is put behind a text leaves what it held, and stands there itself. *)
Followed(w, a, c) ==
  /\ w \in Seq(0 .. 255) /\ Len(w) = Len(a) + Len(c)
  /\ HoldsFrom(a, w, 0) /\ HoldsFrom(c, w, Len(a))
  /\ \A i \in 1 .. Len(a) : w[i] = a[i]
LEMMA PartsBehind ==
  ASSUME NEW a \in Seq(0 .. 255), NEW c \in Seq(0 .. 255), NEW w, w = a \o c
  PROVE  Followed(w, a, c)
<1>1. PICK l \in Nat, k \in Nat : l = Len(a) /\ k = Len(c)
  BY LenProperties
<1>2. /\ w \in Seq(0 .. 255) /\ Len(w) = l + k
      /\ \A i \in 1 .. l + k : w[i] = IF i <= l THEN a[i] ELSE c[i - l]
  BY <1>1, ConcatProperties
<1>3. ASSUME NEW i \in 1 .. l PROVE w[i] = a[i]
  <2>1. i \in 1 .. l + k /\ i <= l
    OBVIOUS
  <2> QED
    BY <1>2, <2>1
<1>4. HoldsFrom(a, w, 0)
  BY <1>1, <1>3 DEF HoldsFrom
<1>5. ASSUME NEW i \in 1 .. k PROVE c[i] = w[l + i]
  <2>1. l + i \in 1 .. l + k /\ ~(l + i <= l) /\ (l + i) - l = i
    OBVIOUS
  <2> QED
    BY <1>2, <2>1
<1>6. HoldsFrom(c, w, l)
  BY <1>1, <1>5 DEF HoldsFrom
<1> QED
  BY <1>1, <1>2, <1>3, <1>4, <1>6 DEF Followed

(* The text, a one bit, z zero bytes and the length x.                     *)
PaddedTo(t, s, z, x) ==
  /\ t \in Seq(0 .. 255) /\ Len(t) = Len(s) + 1 + z + Len(x)
  /\ \A i \in 1 .. Len(s) : t[i] = s[i]
  /\ t[Len(s) + 1] = 128
  /\ \A i \in 1 .. z : t[Len(s) + 1 + i] = 0
  /\ HoldsFrom(x, t, Len(s) + 1 + z)
LEMMA TextIsPadded ==
  ASSUME NEW s \in Seq(0 .. 255), NEW z \in Nat, NEW x \in Seq(0 .. 255), NEW t,
         t = s \o << 128 >> \o Zeros(z) \o x
  PROVE  PaddedTo(t, s, z, x)
<1>1. PICK n \in Nat, l \in Nat : n = Len(s) /\ l = Len(x)
  BY LenProperties
<1>2. PICK o : o = << 128 >> /\ o \in Seq(0 .. 255) /\ Len(o) = 1 /\ o[1] = 128
  <2>1. << 128 >> \in Seq(0 .. 255) /\ Len(<< 128 >>) = 1 /\ << 128 >>[1] = 128
    OBVIOUS
  <2> QED
    BY <2>1, Zenon
<1>3. PICK v : v = Zeros(z) /\ v \in Seq(0 .. 255) /\ Len(v) = z /\ \A i \in 1 .. z : v[i] = 0
  BY ZerosAre
<1>4. PICK p : p = s \o o
  BY Zenon
<1>5. PICK q : q = p \o v
  BY Zenon
<1>6. t = q \o x
  BY <1>2, <1>3, <1>4, <1>5, Zenon
<1>7. Followed(p, s, o)
  BY <1>2, <1>4, PartsBehind
<1>8. /\ p \in Seq(0 .. 255) /\ Len(p) = n + 1 /\ p[n + 1] = 128
      /\ \A i \in 1 .. n : p[i] = s[i]
  <2>1. 1 \in 1 .. Len(o)
    BY <1>2
  <2>2. o[1] = p[n + 1]
    BY <1>1, <1>7, <2>1 DEF Followed, HoldsFrom
  <2> QED
    BY <1>1, <1>2, <1>7, <2>2 DEF Followed
<1>9. Followed(q, p, v)
  BY <1>3, <1>5, <1>8, PartsBehind
<1>10. /\ q \in Seq(0 .. 255) /\ Len(q) = n + 1 + z
       /\ \A i \in 1 .. n + 1 : q[i] = p[i]
       /\ \A i \in 1 .. z : q[n + 1 + i] = 0
  <2>1. \A i \in 1 .. z : v[i] = q[n + 1 + i]
    BY <1>3, <1>8, <1>9 DEF Followed, HoldsFrom
  <2>2. \A i \in 1 .. z : q[n + 1 + i] = 0
    BY <1>3, <2>1
  <2> QED
    BY <1>3, <1>8, <1>9, <2>2 DEF Followed
<1>11. Followed(t, q, x)
  BY <1>6, <1>10, PartsBehind
<1>12. /\ t \in Seq(0 .. 255) /\ Len(t) = n + 1 + z + l
       /\ \A i \in 1 .. n + 1 + z : t[i] = q[i]
       /\ HoldsFrom(x, t, n + 1 + z)
  BY <1>1, <1>10, <1>11 DEF Followed
<1>13. ASSUME NEW i \in 1 .. n PROVE t[i] = s[i]
  <2>1. i \in 1 .. n + 1 /\ i \in 1 .. n + 1 + z
    BY ONLY n \in Nat, z \in Nat, i \in 1 .. n
  <2> QED
    BY <1>8, <1>10, <1>12, <2>1, Zenon
<1>14. t[n + 1] = 128
  <2>1. n + 1 \in 1 .. n + 1 /\ n + 1 \in 1 .. n + 1 + z
    OBVIOUS
  <2> QED
    BY <1>8, <1>10, <1>12, <2>1, Zenon
<1>15. ASSUME NEW i \in 1 .. z PROVE t[n + 1 + i] = 0
  <2>1. n + 1 + i \in 1 .. n + 1 + z
    OBVIOUS
  <2> QED
    BY <1>10, <1>12, <2>1
<1> QED
  BY <1>1, <1>12, <1>13, <1>14, <1>15 DEF PaddedTo
(* Filling a block, and the two ends of the padding.                       *)
FillTo(b, w, m) == w = b \o Zeros(m - Len(b))
FillsTo(b, w, m, d, n) == Filled(Sha(b, d, n), m) = Sha(w, d, n)
LEMMA FilledIs ==
  ASSUME NEW b, NEW w, NEW m, FillTo(b, w, m), NEW d, NEW n
  PROVE  FillsTo(b, w, m, d, n)
<1>1. PICK c : c = Sha(b, d, n)
  BY Zenon
<1>2. c.block = b
  BY <1>1 DEF Sha
<1>3. Filled(c, m) = [c EXCEPT !.block = c.block \o Zeros(m - Len(c.block))]
  BY SMT DEF Filled
<1>4. c.block \o Zeros(m - Len(c.block)) = w
  BY <1>2, Zenon DEF FillTo
<1>5. [c EXCEPT !.block = w] = Sha(w, d, n)
  BY ONLY <1>1 DEF Sha
<1> QED
  BY <1>1, <1>3, <1>4, <1>5, Zenon DEF FillsTo

Ended(c, d, w) == c.done = Append(d, w)
EndTo(b, w, y) == \E v : FillTo(b, v, 56) /\ w = v \o EightBytes(y)
Closed(c, b, d, n, y) ==
  \E g : g = Filled(Sha(b, d, n), 56) /\ c = [g EXCEPT !.block = g.block \o EightBytes(y)]
LEMMA EndIs ==
  ASSUME NEW b, NEW w, NEW y, EndTo(b, w, y), NEW c, NEW d, NEW n, Closed(c, b, d, n, y)
  PROVE  Ended(Processed(c), d, w)
<1>1. PICK v : FillTo(b, v, 56) /\ w = v \o EightBytes(y)
  BY DEF EndTo
<1>2. PICK g : g = Filled(Sha(b, d, n), 56) /\ c = [g EXCEPT !.block = g.block \o EightBytes(y)]
  BY DEF Closed
<1>3. Filled(Sha(b, d, n), 56) = Sha(v, d, n)
  <2>1. FillsTo(b, v, 56, d, n)
    BY <1>1, FilledIs, Zenon
  <2> QED
    BY <2>1, Zenon DEF FillsTo
<1>4. g = Sha(v, d, n)
  BY <1>2, <1>3, Zenon
<1>7. g.block = v
  BY <1>4 DEF Sha
<1>8. c = [g EXCEPT !.block = w]
  BY <1>1, <1>2, <1>7, Zenon
<1>9. c = Sha(w, d, n)
  BY ONLY <1>4, <1>8 DEF Sha
<1>10. Processed(c) = Sha(<< >>, Append(d, w), n)
  BY <1>9, ProcessedIs, Zenon
<1>11. Sha(<< >>, Append(d, w), n).done = Append(d, w)
  BY DEF Sha
<1> QED
  BY <1>10, <1>11, Zenon DEF Ended

LEMMA PadIs ==
  ASSUME NEW b, NEW d, NEW n, NEW e, e = Append(b, 128)
  PROVE  /\ ~(Len(b) > 55) => \A w : EndTo(e, w, n) => Ended(Sha1Pad(Sha(b, d, n)), d, w)
         /\ Len(b) > 55 => \A v, w :
              FillTo(e, v, 64) /\ EndTo(<< >>, w, n)
                => Ended(Sha1Pad(Sha(b, d, n)), Append(d, v), w)
<1>1. PICK c : c = Sha(b, d, n)
  BY Zenon
<1>2. c.block = b /\ c.bits = n
  BY <1>1 DEF Sha
<1>3. PICK marked : marked = [c EXCEPT !.block = Append(c.block, 128)]
  BY Zenon
<1>4. marked = Sha(e, d, n)
  <2>1. marked = [c EXCEPT !.block = e]
    BY <1>2, <1>3, Zenon
  <2> QED
    BY ONLY <1>1, <2>1 DEF Sha
<1>5. PICK ready : ready = IF Len(c.block) > Sha1Room THEN Processed(Filled(marked, 64)) ELSE marked
  BY Zenon
<1>11. PICK g : g = Filled(ready, 56)
  BY Zenon
<1>6. PICK full : full = [g EXCEPT !.block = g.block \o EightBytes(c.bits)]
  BY Zenon
<1>7. Sha1Pad(c) = Processed(full)
  BY <1>3, <1>5, <1>6, <1>11, SMT DEF Sha1Pad
<1>8. full = [g EXCEPT !.block = g.block \o EightBytes(n)]
  BY <1>2, <1>6, Zenon
<1>9. ASSUME ~(Len(b) > 55), NEW w, EndTo(e, w, n)
      PROVE  Ended(Sha1Pad(c), d, w)
  <2>1. ready = Sha(e, d, n)
    BY <1>2, <1>4, <1>5, <1>9, Zenon DEF Sha1Room
  <2>2. Closed(full, e, d, n, n)
    BY <1>8, <1>11, <2>1, Zenon DEF Closed
  <2>3. Ended(Processed(full), d, w)
    BY <1>9, <2>2, EndIs, Zenon
  <2> QED
    BY <1>7, <2>3, Zenon
<1>10. ASSUME Len(b) > 55, NEW v, NEW w, FillTo(e, v, 64), EndTo(<< >>, w, n)
       PROVE  Ended(Sha1Pad(c), Append(d, v), w)
  <2>1. Filled(Sha(e, d, n), 64) = Sha(v, d, n)
    <3>1. FillsTo(e, v, 64, d, n)
      BY <1>10, FilledIs, Zenon
    <3> QED
      BY <3>1, Zenon DEF FillsTo
  <2>2. PICK h : h = Append(d, v)
    BY Zenon
  <2>3. Processed(Sha(v, d, n)) = Sha(<< >>, h, n)
    BY <2>2, ProcessedIs, Zenon
  <2>4. ready = Sha(<< >>, h, n)
    BY <1>2, <1>4, <1>5, <1>10, <2>1, <2>3, Zenon DEF Sha1Room
  <2>5. Closed(full, << >>, h, n, n)
    BY <1>8, <1>11, <2>4, Zenon DEF Closed
  <2>6. Ended(Processed(full), h, w)
    BY <1>10, <2>5, EndIs, Zenon
  <2> QED
    BY <1>7, <2>2, <2>6, Zenon
<1> QED
  BY <1>1, <1>9, <1>10, Zenon

(* The blocks that are done hold the text with its padding.                *)
Marked(e, b, d, t) ==
  /\ e \in Seq(0 .. 255) /\ Len(e) = Len(b) + 1
  /\ Blocks(d, t) /\ HoldsFrom(e, t, 64 * Len(d))
LEMMA FullBlocks ==
  ASSUME NEW s \in Seq(0 .. 255), NEW b, NEW d, NEW y, HashedTo(b, d, y, s, Len(s)),
         NEW z \in Nat, NEW x \in Seq(0 .. 255), Len(x) = 8, NEW t, PaddedTo(t, s, z, x),
         NEW e, e = Append(b, 128)
  PROVE  Marked(e, b, d, t)
<1>1. /\ b \in Seq(0 .. 255) /\ Blocks(d, s) /\ Len(b) < 64 /\ Len(s) = 64 * Len(d) + Len(b)
      /\ HoldsFrom(b, s, 64 * Len(d))
  BY DEF HashedTo
<1>2. d \in Seq(Seq(0 .. 255))
  BY <1>1 DEF Blocks
<1>3. PICK q \in Nat, l \in Nat : q = Len(d) /\ l = Len(b)
  BY <1>1, <1>2, LenProperties
<1>4. PICK n \in Nat : n = Len(s) /\ n = 64 * q + l
  BY <1>1, <1>3
<1>5. \A i \in 1 .. n : t[i] = s[i]
  BY <1>4 DEF PaddedTo
<1>6. t[n + 1] = 128
  BY <1>4 DEF PaddedTo
<1>7. 128 \in 0 .. 255
  OBVIOUS
<1>8. /\ e \in Seq(0 .. 255) /\ Len(e) = l + 1
      /\ \A i \in 1 .. l : e[i] = b[i]
      /\ e[l + 1] = 128
  BY <1>1, <1>3, <1>7, AppendProperties
<1>9. ASSUME NEW i \in 1 .. l + 1 PROVE e[i] = t[64 * q + i]
  <2>1. CASE i <= l
    <3>1. i \in 1 .. l /\ 64 * q + i \in 1 .. n
      BY <1>4, <2>1
    <3>2. b[i] = s[64 * q + i]
      BY <1>1, <1>3, <3>1 DEF HoldsFrom
    <3> QED
      BY <1>5, <1>8, <3>1, <3>2
  <2>2. CASE ~(i <= l)
    <3>1. i = l + 1 /\ 64 * q + i = n + 1
      BY <1>4, <2>2
    <3> QED
      BY <1>6, <1>8, <3>1
  <2> QED
    BY <2>1, <2>2
<1>10. HoldsFrom(e, t, 64 * q)
  BY <1>8, <1>9 DEF HoldsFrom
<1>11. ASSUME NEW k \in 1 .. q PROVE Len(d[k]) = 64 /\ HoldsFrom(d[k], t, 64 * (k - 1))
  <2>1. Len(d[k]) = 64 /\ HoldsFrom(d[k], s, 64 * (k - 1))
    BY <1>1, <1>3 DEF Blocks
  <2>2. ASSUME NEW j \in 1 .. 64 PROVE d[k][j] = t[64 * (k - 1) + j]
    <3>1. d[k][j] = s[64 * (k - 1) + j]
      BY <2>1 DEF HoldsFrom
    <3>2. 64 * (k - 1) + j \in 1 .. n
      BY <1>4
    <3> QED
      BY <1>5, <3>1, <3>2
  <2> QED
    BY <2>1, <2>2 DEF HoldsFrom
<1>12. Blocks(d, t)
  BY <1>2, <1>3, <1>11 DEF Blocks
<1> QED
  BY <1>3, <1>8, <1>10, <1>12 DEF Marked

BlockAt(w, t, at, m) == w \in Seq(0 .. 255) /\ Len(w) = m /\ HoldsFrom(w, t, at)
LEMMA FillHolds ==
  ASSUME NEW s \in Seq(0 .. 255), NEW z \in Nat, NEW x, NEW t, PaddedTo(t, s, z, x),
         NEW e \in Seq(0 .. 255), NEW at \in Nat, HoldsFrom(e, t, at), NEW m \in Nat, Len(e) <= m,
         Len(s) + 1 <= at + Len(e), at + m <= Len(s) + 1 + z, NEW v, FillTo(e, v, m)
  PROVE  BlockAt(v, t, at, m)
<1>1. PICK n \in Nat, l \in Nat : n = Len(s) /\ l = Len(e)
  BY LenProperties
<1>2. PICK k \in Nat : k = m - l
  <2>1. l <= m
    BY <1>1, Zenon
  <2> QED
    BY ONLY <2>1, l \in Nat, m \in Nat
<1>3. PICK a : a = Zeros(k) /\ a \in Seq(0 .. 255) /\ Len(a) = k /\ \A i \in 1 .. k : a[i] = 0
  BY ZerosAre
<1>4. v = e \o a
  BY <1>1, <1>2, <1>3, Zenon DEF FillTo
<1>5. PICK to \in Nat : to = at + l
  BY <1>1
<1>6. ASSUME NEW i \in 1 .. k PROVE a[i] = t[to + i]
  <2>1. PICK j \in 1 .. z : to + i = n + 1 + j
    <3>1. n + 1 <= to /\ at + m <= n + 1 + z
      BY <1>1, <1>5, Zenon
    <3>2. PICK j \in Nat : j = (to + i) - (n + 1)
      BY ONLY <3>1, to \in Nat, n \in Nat, i \in 1 .. k, k \in Nat
    <3>3. j \in 1 .. z /\ to + i = n + 1 + j
      BY ONLY <1>2, <1>5, <3>1, <3>2, to \in Nat, n \in Nat, i \in 1 .. k, k \in Nat,
              m \in Nat, l \in Nat, at \in Nat, z \in Nat, j \in Nat
    <3> QED
      BY <3>3
  <2>2. t[n + 1 + j] = 0
    BY <1>1 DEF PaddedTo
  <2> QED
    BY <1>3, <2>1, <2>2
<1>7. HoldsFrom(a, t, to)
  BY <1>3, <1>6 DEF HoldsFrom
<1>8. Joined(v, e, a, t, at)
  BY <1>1, <1>3, <1>4, <1>5, <1>7, PartsJoin
<1> QED
  BY <1>1, <1>2, <1>3, <1>8 DEF Joined, BlockAt

LastRoom(s, e, at, z) ==
  Len(e) <= 56 /\ Len(s) + 1 <= at + Len(e) /\ at + 56 = Len(s) + 1 + z
LEMMA EndHolds ==
  ASSUME NEW s \in Seq(0 .. 255), NEW z \in Nat, NEW y, EightBytes(y) \in Seq(0 .. 255),
         Len(EightBytes(y)) = 8, NEW t, PaddedTo(t, s, z, EightBytes(y)),
         NEW e \in Seq(0 .. 255), NEW at \in Nat, HoldsFrom(e, t, at), LastRoom(s, e, at, z)
  PROVE  \E w : EndTo(e, w, y) /\ BlockAt(w, t, at, 64)
<1>1. PICK x : x = EightBytes(y)
  BY Zenon
<1>2. PICK m \in Nat : m = 56
  OBVIOUS
<1>3. PICK v : FillTo(e, v, m)
  BY Zenon DEF FillTo
<1>4. PaddedTo(t, s, z, x)
  BY <1>1, Zenon
<1>5. Len(s) \in Nat
  BY LenProperties
<1>6. at + m <= Len(s) + 1 + z /\ Len(e) <= m /\ Len(s) + 1 <= at + Len(e)
      /\ at + 56 = Len(s) + 1 + z
  BY <1>2, <1>5 DEF LastRoom
<1>7. BlockAt(v, t, at, m)
  BY <1>3, <1>4, <1>6, FillHolds
<1>8. v \in Seq(0 .. 255) /\ Len(v) = 56 /\ HoldsFrom(v, t, at)
  BY <1>2, <1>7 DEF BlockAt
<1>9. PICK w : w = v \o x
  BY Zenon
<1>10. PICK to : to = at + Len(v) /\ to = Len(s) + 1 + z
  BY <1>6, <1>8
<1>11. HoldsFrom(x, t, to)
  BY <1>4, <1>10 DEF PaddedTo
<1>12. x \in Seq(0 .. 255) /\ Len(x) = 8
  BY <1>1
<1>13. Joined(w, v, x, t, at)
  BY <1>8, <1>9, <1>10, <1>11, <1>12, PartsJoin
<1>14. BlockAt(w, t, at, 64)
  BY <1>8, <1>12, <1>13 DEF Joined, BlockAt
<1>15. FillTo(e, v, 56)
  BY <1>2, <1>3, Zenon
<1>16. EndTo(e, w, y)
  BY <1>1, <1>9, <1>15, Zenon DEF EndTo
<1> QED
  BY <1>14, <1>16

BlockedTo(r, t, s, z) ==
  /\ z = 64 * Len(r) - Len(s) - 9 /\ Len(r) = (Len(s) + 72) \div 64 /\ Blocks(r, t)
LEMMA PaddingIsDone ==
  ASSUME NEW s \in Seq(0 .. 255), NEW b, NEW d, NEW y \in Nat, HashedTo(b, d, y, s, Len(s))
  PROVE  \E t : \E z \in Nat :
           /\ PaddedTo(t, s, z, EightBytes(y))
           /\ t = s \o << 128 >> \o Zeros(z) \o EightBytes(y)
           /\ BlockedTo(Sha1Pad(Sha(b, d, y)).done, t, s, z)
<1>1. /\ b \in Seq(0 .. 255) /\ Blocks(d, s) /\ Len(b) < 64 /\ Len(s) = 64 * Len(d) + Len(b)
  BY DEF HashedTo
<1>2. d \in Seq(Seq(0 .. 255))
  BY <1>1 DEF Blocks
<1>3. PICK q \in Nat, l \in Nat : q = Len(d) /\ l = Len(b) /\ l < 64
  BY <1>1, <1>2, LenProperties
<1>4. PICK n \in Nat : n = Len(s) /\ n = 64 * q + l
  BY <1>1, <1>3
<1>5. PICK x : x = EightBytes(y) /\ x \in Seq(0 .. 255) /\ Len(x) = 8
  BY EightBytesAre
<1>6. PICK e : e = Append(b, 128)
  BY Zenon
<1>7. ASSUME NEW z \in Nat, NEW t, t = s \o << 128 >> \o Zeros(z) \o x
      PROVE  /\ PaddedTo(t, s, z, x)
             /\ e \in Seq(0 .. 255) /\ Len(e) = l + 1
             /\ Blocks(d, t) /\ HoldsFrom(e, t, 64 * q)
  <2>1. PaddedTo(t, s, z, x)
    BY <1>5, <1>7, TextIsPadded
  <2>2. /\ e \in Seq(0 .. 255) /\ Len(e) = Len(b) + 1
        /\ Blocks(d, t) /\ HoldsFrom(e, t, 64 * Len(d))
    <3>1. x \in Seq(0 .. 255) /\ Len(x) = 8
      BY <1>5
    <3>2. Marked(e, b, d, t)
      BY ONLY <1>6, <2>1, <3>1, s \in Seq(0 .. 255), HashedTo(b, d, y, s, Len(s)), z \in Nat,
              FullBlocks, Zenon
    <3> QED
      BY <3>2 DEF Marked
  <2> QED
    BY <1>3, <2>1, <2>2
<1>8. CASE ~(l > 55)
  <2>1. PICK z \in Nat : z = 55 - l
    BY <1>8
  <2>2. PICK t : t = s \o << 128 >> \o Zeros(z) \o x
    BY Zenon
  <2>3. /\ PaddedTo(t, s, z, x)
        /\ e \in Seq(0 .. 255) /\ Len(e) = l + 1
        /\ Blocks(d, t) /\ HoldsFrom(e, t, 64 * q)
    BY <1>7, <2>2
  <2>4. PICK at \in Nat : at = 64 * q
    OBVIOUS
  <2>5. LastRoom(s, e, at, z)
    BY <1>4, <1>8, <2>1, <2>3, <2>4 DEF LastRoom
  <2>6. PICK w : EndTo(e, w, y) /\ BlockAt(w, t, at, 64)
    <3>1. EightBytes(y) \in Seq(0 .. 255) /\ Len(EightBytes(y)) = 8 /\ PaddedTo(t, s, z, EightBytes(y))
          /\ HoldsFrom(e, t, at) /\ e \in Seq(0 .. 255)
      BY <1>5, <2>3, <2>4, Zenon
    <3> QED
      BY <2>5, <3>1, EndHolds
  <2>7. Ended(Sha1Pad(Sha(b, d, y)), d, w)
    BY <1>3, <1>6, <1>8, <2>6, PadIs
  <2>8. PICK g : g = Append(d, w) /\ g = Sha1Pad(Sha(b, d, y)).done
    BY <2>7 DEF Ended
  <2>9. Blocks(g, t) /\ Len(g) = q + 1
    <3>1. w \in Seq(0 .. 255) /\ Len(w) = 64 /\ HoldsFrom(w, t, 64 * Len(d))
      BY <1>3, <2>4, <2>6 DEF BlockAt
    <3>2. g = Append(d, w) /\ Blocks(d, t)
      BY <2>3, <2>8
    <3>3. Blocks(g, t) /\ Len(g) = Len(d) + 1
      BY ONLY <3>1, <3>2, BlockIsDone
    <3> QED
      BY <1>3, <3>3
  <2>10. q + 1 = (n + 72) \div 64
    BY ONLY <1>3, <1>4, <1>8, q \in Nat, l \in Nat, n \in Nat, SMT
  <2>11. z = 64 * (q + 1) - n - 9
    BY <1>4, <2>1
  <2>12. BlockedTo(g, t, s, z)
    BY <1>4, <2>9, <2>10, <2>11 DEF BlockedTo
  <2> QED
    BY <1>5, <2>2, <2>3, <2>8, <2>12, Zenon
<1>9. CASE l > 55
  <2>1. PICK z \in Nat : z = 119 - l
    <3>1. l < 64
      BY <1>3
    <3> QED
      BY ONLY <3>1, l \in Nat
  <2>2. PICK t : t = s \o << 128 >> \o Zeros(z) \o x
    BY Zenon
  <2>3. /\ PaddedTo(t, s, z, x)
        /\ e \in Seq(0 .. 255) /\ Len(e) = l + 1
        /\ Blocks(d, t) /\ HoldsFrom(e, t, 64 * q)
    BY <1>7, <2>2
  <2>4. PICK at \in Nat : at = 64 * q
    OBVIOUS
  <2>5. PICK m \in Nat : m = 64
    OBVIOUS
  <2>6. PICK v : FillTo(e, v, m)
    BY Zenon DEF FillTo
  <2>7. BlockAt(v, t, at, m)
    <3>1. Len(e) <= m /\ Len(s) + 1 <= at + Len(e) /\ at + m <= Len(s) + 1 + z
      BY <1>3, <1>4, <2>1, <2>3, <2>4, <2>5
    <3>2. HoldsFrom(e, t, at) /\ e \in Seq(0 .. 255)
      BY <2>3, <2>4, Zenon
    <3> QED
      BY <2>3, <2>6, <3>1, <3>2, FillHolds
  <2>8. PICK h : h = Append(d, v)
    BY Zenon
  <2>9. Blocks(h, t) /\ Len(h) = q + 1
    <3>1. v \in Seq(0 .. 255) /\ Len(v) = 64 /\ HoldsFrom(v, t, 64 * Len(d))
      BY <1>3, <2>4, <2>5, <2>7 DEF BlockAt
    <3> QED
      BY <1>3, <2>3, <2>8, <3>1, BlockIsDone
  <2>21. PICK up \in Nat : up = 64 * (q + 1)
    OBVIOUS
  <2>10. PICK o : up = 64 * (q + 1) /\ o = << >>
    BY <2>21, Zenon
  <2>11. o \in Seq(0 .. 255) /\ Len(o) = 0
    BY <2>10
  <2>12. HoldsFrom(o, t, up)
    BY <2>11 DEF HoldsFrom
  <2>13. LastRoom(s, o, up, z)
    BY <1>3, <1>4, <2>1, <2>10, <2>11 DEF LastRoom
  <2>14. PICK w : EndTo(o, w, y) /\ BlockAt(w, t, up, 64)
    <3>1. EightBytes(y) \in Seq(0 .. 255) /\ Len(EightBytes(y)) = 8 /\ PaddedTo(t, s, z, EightBytes(y))
      BY <1>5, <2>3, Zenon
    <3> QED
      <4>1. o \in Seq(0 .. 255)
        BY <2>11
      <4> QED
        BY <2>12, <2>13, <3>1, <4>1, EndHolds
  <2>15. Ended(Sha1Pad(Sha(b, d, y)), h, w)
    <3>1. FillTo(e, v, 64) /\ EndTo(<< >>, w, y)
      BY <2>5, <2>6, <2>10, <2>14, Zenon
    <3>2. Len(b) > 55
      BY <1>3, <1>9
    <3> QED
      BY <1>6, <2>8, <3>1, <3>2, PadIs, Zenon
  <2>16. PICK g : g = Append(h, w) /\ g = Sha1Pad(Sha(b, d, y)).done
    BY <2>15 DEF Ended
  <2>17. Blocks(g, t) /\ Len(g) = q + 2
    <3>1. w \in Seq(0 .. 255) /\ Len(w) = 64 /\ HoldsFrom(w, t, 64 * Len(h))
      BY <2>9, <2>10, <2>14 DEF BlockAt
    <3>3. g = Append(h, w) /\ Blocks(h, t)
      BY <2>9, <2>16
    <3>2. Blocks(g, t) /\ Len(g) = Len(h) + 1
      BY ONLY <3>1, <3>3, BlockIsDone
    <3> QED
      BY <2>9, <3>2
  <2>18. q + 2 = (n + 72) \div 64
    BY ONLY <1>3, <1>4, <1>9, q \in Nat, l \in Nat, n \in Nat, SMT
  <2>19. z = 64 * (q + 2) - n - 9
    BY <1>4, <2>1
  <2>20. BlockedTo(g, t, s, z)
    BY <1>4, <2>17, <2>18, <2>19 DEF BlockedTo
  <2> QED
    BY <1>5, <2>2, <2>3, <2>16, <2>20, Zenon
<1> QED
  BY <1>8, <1>9

LEMMA BlocksArePadded ==
  ASSUME NEW text \in Seq(0 .. 255)
  PROVE  BlocksPadded(text)
<1>1. PICK f : Hashes(f, text)
  BY Hashed
<1>2. PICK n \in Nat : n = Len(text)
  BY LenProperties
<1>3. PICK b, d, y : f[Len(text)] = Sha(b, d, y) /\ HashedTo(b, d, y, text, Len(text))
  BY <1>1, TextIsHashed
<1>4. y \in Nat /\ y = 8 * n
  BY <1>2, <1>3 DEF HashedTo
<1>0. PICK t : \E z \in Nat :
        /\ PaddedTo(t, text, z, EightBytes(y))
        /\ t = text \o << 128 >> \o Zeros(z) \o EightBytes(y)
        /\ BlockedTo(Sha1Pad(Sha(b, d, y)).done, t, text, z)
  BY <1>3, <1>4, PaddingIsDone
<1>5. PICK z \in Nat : /\ PaddedTo(t, text, z, EightBytes(y))
                       /\ t = text \o << 128 >> \o Zeros(z) \o EightBytes(y)
                       /\ BlockedTo(Sha1Pad(Sha(b, d, y)).done, t, text, z)
  BY <1>0
<1>6. PICK r : r = Sha1Blocks(text) /\ r = Sha1Pad(Sha(b, d, y)).done
  BY <1>1, <1>3 DEF Hashes
<1>7. z = 64 * Len(r) - n - 9 /\ Len(r) = (n + 72) \div 64 /\ Blocks(r, t)
  BY <1>2, <1>5, <1>6 DEF BlockedTo
<1>8. r \in Seq(Seq(0 .. 255)) /\ \A k \in 1 .. Len(r) : Len(r[k]) = 64 /\ HoldsFrom(r[k], t, 64 * (k - 1))
  BY <1>7 DEF Blocks
<1>9. PICK m \in Nat : m = Len(r) /\ DOMAIN r = 1 .. m
  BY <1>8, LenProperties
<1>10. PICK w \in Nat : w = 64
  OBVIOUS
<1>11. Strides(r, w)
  BY <1>8, <1>9, <1>10 DEF Strides
<1>12. PICK flat : flat = FlattenSeq(r) /\ flat \in Seq(0 .. 255) /\ Lined(flat, r, w)
  BY <1>8, <1>11, PiecesLined
<1>13. Len(EightBytes(y)) = 8
  BY <1>4, EightBytesAre
<1>14. t \in Seq(0 .. 255) /\ Len(t) = n + 1 + z + 8
  BY <1>2, <1>5, <1>13 DEF PaddedTo
<1>15. m > 0
  BY ONLY <1>7, <1>9, n \in Nat, m \in Nat, SMT
<1>16. Len(flat) = 64 * m
  <2>1. Len(flat) = w * (m - 1) + Len(r[m])
    <3>1. Len(flat) = IF Len(r) = 0 THEN 0 ELSE w * (Len(r) - 1) + Len(r[Len(r)])
      BY <1>12, Zenon DEF Lined
    <3>2. m # 0 /\ m = Len(r)
      BY <1>9, <1>15
    <3> QED
      BY <3>1, <3>2, Zenon
  <2>2. Len(r[m]) = 64
    BY <1>8, <1>9, <1>15
  <2> QED
    BY <1>10, <2>1, <2>2
<1>17. Len(t) = Len(flat)
  <2>1. z = 64 * m - n - 9
    BY <1>7, <1>9, Zenon
  <2> QED
    BY ONLY <1>14, <1>16, <2>1, n \in Nat, m \in Nat
<1>18. ASSUME NEW i \in 1 .. 64 * m PROVE flat[i] = t[i]
  <2>1. PICK k \in 1 .. m, j \in 1 .. 64 : i = 64 * (k - 1) + j
    <3>1. PICK a \in Nat : a = (i - 1) \div 64
      BY SMT
    <3>2. PICK c \in 0 .. 63 : c = (i - 1) % 64
      BY SMT
    <3>3. i - 1 = 64 * a + c
      BY ONLY <3>1, <3>2, i \in 1 .. 64 * m, m \in Nat, a \in Nat, SMT
    <3>4. a + 1 \in 1 .. m /\ c + 1 \in 1 .. 64 /\ i = 64 * ((a + 1) - 1) + (c + 1)
      BY ONLY <3>3, i \in 1 .. 64 * m, m \in Nat, a \in Nat, c \in 0 .. 63, SMT
    <3> QED
      BY <3>4
  <2>2. Len(r[k]) = 64 /\ HoldsFrom(r[k], t, 64 * (k - 1))
    BY <1>8, <1>9
  <2>3. r[k][j] = t[64 * (k - 1) + j]
    BY <2>2 DEF HoldsFrom
  <2>4. flat[64 * (k - 1) + j] = r[k][j]
    BY <1>9, <1>10, <1>12, <2>2 DEF Lined
  <2> QED
    BY <2>1, <2>3, <2>4
<1>19. flat = t
  <2>1. Len(flat) = Len(t) /\ \A i \in 1 .. Len(flat) : flat[i] = t[i]
    BY <1>16, <1>17, <1>18
  <2> QED
    BY ONLY <1>12, <1>14, <2>1, SeqEqual
<1>20. \A k \in DOMAIN Sha1Blocks(text) : Len(Sha1Blocks(text)[k]) = 64
  BY <1>6, <1>8, <1>9
<1>21. Len(Sha1Blocks(text)) = (Len(text) + 9 + 63) \div 64
  BY <1>2, <1>6, <1>7
<1>22. z = Len(FlattenSeq(Sha1Blocks(text))) - Len(text) - 9
  BY <1>2, <1>6, <1>7, <1>9, <1>12, <1>16
<1>23. FlattenSeq(Sha1Blocks(text)) =
         text \o << 128 >> \o Zeros(Len(FlattenSeq(Sha1Blocks(text))) - Len(text) - 9) \o EightBytes(8 * Len(text))
  BY <1>2, <1>4, <1>5, <1>6, <1>12, <1>19, <1>22, Zenon
<1> QED
  BY <1>20, <1>21, <1>23, Zenon DEF BlocksPadded
LEMMA WsConversionsHold ==
  ASSUME wsText \in Seq(0 .. 255), Len(wsText) <= LongestText
  PROVE  FramesDecode
<1>1. Len(wsText) \in Nat
  BY LenProperties, SMTT(20)
<1>2. Sized(Len(wsText))
  BY <1>1, SMT DEF LongestText, Sized
<1>3. WsMasks \subseteq Masks
  BY WsCodecAssumption, Zenon DEF Masks
<1>4. FramesReturn(wsText)
  BY ONLY <1>2, <1>3, wsText \in Seq(0 .. 255), FramesAreRead, SMTT(20)
<1>5. AnswersReturn(wsText) /\ KeysReturn(wsText) /\ BlocksPadded(wsText)
  BY AnswersAreRead, KeysAreRight, BlocksArePadded, SMTT(20)
<1> QED
  BY <1>4, <1>5, HeadersAreRead, Zenon DEF FramesDecode

-----------------------------------------------------------------------------
(* For texts of any bytes and any masks: a client's frame is decoded to    *)
(* what it sent, and one that came in part to what came; the server's      *)
(* answer is what the client reads; the key of a request is fetched as it  *)
(* is, and runs over its buffer from 220 bytes on, or where no line ends   *)
(* in a request of more than 256; the accept key stands for the digest up  *)
(* to its first zero; SHA-1 gets the text padded as it asks                *)
(* (main.cpp:41-248, base64.h:14-160, sha1.h:59-172).                      *)
THEOREM FramesAreRight == WsTextInit /\ [][WsTextByte]_wsText => []FramesDecode
<1> DEFINE WsInv == wsText \in Seq(0 .. 255) /\ Len(wsText) <= LongestText
<1>1. LongestText \in Nat
  BY SMT DEF LongestText
<1>2. WsTextInit => WsInv
  BY <1>1, EmptySeq DEF WsTextInit
<1>3. WsInv /\ [WsTextByte]_wsText => WsInv'
  <2> SUFFICES ASSUME WsInv, WsTextByte PROVE WsInv'
    OBVIOUS
  <2>1. PICK b \in WsBytes : wsText' = Append(wsText, b)
    BY DEF WsTextByte
  <2>2. b \in 0 .. 255
    BY WsCodecAssumption
  <2>3. wsText' \in Seq(0 .. 255) /\ Len(wsText') = Len(wsText) + 1
    BY <2>1, <2>2, AppendProperties
  <2>4. Len(wsText) \in Nat
    BY LenProperties
  <2>5. WsMixed \in Nat /\ WsMixed <= LongestText /\ WsUniform \in Nat /\ WsUniform <= LongestText
    BY <1>1, WsCodecAssumption
  <2>6. Len(wsText) < WsMixed \/ Len(wsText) < WsUniform
    BY DEF WsTextByte
  <2> QED
    BY <1>1, <2>3, <2>4, <2>5, <2>6
<1>4. WsInv => FramesDecode
  BY WsConversionsHold
<1> QED
  BY <1>2, <1>3, <1>4, PTL
=============================================================================
