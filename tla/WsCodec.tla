------------------------------ MODULE WsCodec ------------------------------
(***************************************************************************)
(* The conversions of the WebSocket server: frames (main.cpp), the accept  *)
(* key with its base64 (base64.h), its hexadecimal digits (intLib.h) and   *)
(* the blocks that SHA-1 works on (sha1.h), as functions of a text that    *)
(* grows byte by byte.  What SHA-1 makes of a block is left out.           *)
(***************************************************************************)
EXTENDS Integers, Sequences, SequencesExt

CONSTANTS
  WsBytes,     \* the bytes that may occur
  WsMixed,     \* up to this length the bytes are chosen freely,
  WsUniform,   \* and up to this one the first byte is repeated
  WsMasks      \* masks of a client: sequences of four bytes

(* Up to this length of a text no length that is computed of it overflows  *)
(* an int (base64.h:31, main.cpp:143).                                     *)
LongestText == 1073741824

ASSUME WsCodecAssumption ==
  /\ WsBytes \subseteq 0 .. 255
  /\ WsMixed \in 0 .. LongestText /\ WsUniform \in 0 .. LongestText
  /\ WsMasks \subseteq [1 .. 4 -> 0 .. 255]

VARIABLE wsText

WsTextInit == wsText = << >>
WsTextByte ==
  \E b \in WsBytes :
    /\ \/ Len(wsText) < WsMixed
       \/ Len(wsText) < WsUniform /\ \A i \in DOMAIN wsText : wsText[i] = b
    /\ wsText' = Append(wsText, b)

NoFrame == <<"NULL">>
Zeros(n) == [i \in 1 .. n |-> 0]
(* A C string ends at its first zero.                                      *)
AsString(s) ==
  LET z == SelectInSeq(s, LAMBDA b : b = 0)
  IN IF z = 0 THEN s ELSE SubSeq(s, 1, z - 1)

-----------------------------------------------------------------------------
(* Frames.                                                                 *)

(* Exclusive or of two bytes, put together from that of their bits.        *)
XorBit(a, b)  == (a + b) % 2
XorTwo(a, b)  == 2 * XorBit(a \div 2, b \div 2) + XorBit(a % 2, b % 2)
XorFour(a, b) == 4 * XorTwo(a \div 4, b \div 4) + XorTwo(a % 4, b % 4)
Xor(a, b)     == 16 * XorFour(a \div 16, b \div 16) + XorFour(a % 16, b % 16)
Masked(data, mask) == [i \in DOMAIN data |-> Xor(data[i], mask[((i - 1) % 4) + 1])]

(* Numbers, most significant byte first, as they are written and read.     *)
TwoBytes(n)   == <<(n \div 256) % 256, n % 256>>
FourBytes(n)  == TwoBytes(n \div 65536) \o TwoBytes(n)
EightBytes(n) == FourBytes((n \div 65536) \div 65536) \o FourBytes(n)
TwoAt(buf, at)   == buf[at + 1] * 256 + buf[at + 2]
FourAt(buf, at)  == TwoAt(buf, at) * 65536 + TwoAt(buf, at + 2)
EightAt(buf, at) == FourAt(buf, at) * 65536 * 65536 + FourAt(buf, at + 4)

(* analyData: the header is read from fixed places, and the payload that   *)
(* it announces is taken from the buffer however much was received.        *)
(* Mutant: the mask of a long frame is read where the length stands.       *)
LongMaskAtEarly == 2
LongMaskAt == 4
AnalyData(buf, bufLen) ==
  LET Payload(maskAt, dataAt, n) ==
        Masked(SubSeq(buf, dataAt + 1, dataAt + n), SubSeq(buf, maskAt + 1, maskAt + 4))
      short == buf[2] % 128
  IN IF bufLen < 2 THEN NoFrame
     ELSE IF buf[1] < 128 \/ buf[2] < 128 THEN NoFrame
     ELSE IF short = 126 THEN Payload(LongMaskAt, 8, TwoAt(buf, 2))
     ELSE IF short = 127 THEN Payload(10, 14, EightAt(buf, 2))
     ELSE Payload(2, 6, short)

(* packData: no frame of 65535 bytes or more.                              *)
PackHeader(n) ==
  IF n < 126 THEN <<129, n>>
  ELSE IF n < 65535 THEN <<129, 126>> \o TwoBytes(n)
  ELSE NoFrame
PackData(message) ==
  LET m == AsString(message)
  IN IF PackHeader(Len(m)) = NoFrame THEN NoFrame ELSE PackHeader(Len(m)) \o m

(* The client's side, by RFC 6455.                                         *)
ClientFrame(data, mask) ==
  (IF Len(data) < 126 THEN <<129, 128 + Len(data)>>
   ELSE <<129, 254>> \o TwoBytes(Len(data))) \o mask \o Masked(data, mask)
LongFrame(data, mask) ==
  <<129, 255>> \o EightBytes(Len(data)) \o mask \o Masked(data, mask)
ClientReads(frame) ==
  IF frame[2] = 126 THEN SubSeq(frame, 5, 4 + TwoAt(frame, 2))
  ELSE SubSeq(frame, 3, 2 + frame[2])

-----------------------------------------------------------------------------
(* base64.h.  Letters are numbers 0 .. 63 and 64 for "=".                  *)

Group(data, g) == SubSeq(data, 3 * g - 2, IF 3 * g < Len(data) THEN 3 * g ELSE Len(data))
Base64Group(bytes) ==
  LET b(i) == IF i <= Len(bytes) THEN bytes[i] ELSE 0
      prepare == b(1) * 65536 + b(2) * 256 + b(3)
  IN [i \in 1 .. 4 |-> IF Len(bytes) < i - 1 THEN 64
                       ELSE (prepare \div <<262144, 4096, 64, 1>>[i]) % 64]
WsBase64Encode(data) ==
  FlattenSeq([g \in 1 .. (Len(data) + 2) \div 3 |-> Base64Group(Group(data, g))])

(* A last group of two or three letters gives as many bytes, of which the  *)
(* last is the zero that its padding stands for.                           *)
WsBase64Decode(text) ==
  LET equal == Cardinality({k \in 1 .. 3 : k <= Len(text) /\ text[Len(text) + 1 - k] = 64})
      letters == SubSeq(text, 1, Len(text) - equal)
      Bytes(g) ==
        LET need == SubSeq(letters, 4 * g - 3,
                           IF 4 * g < Len(letters) THEN 4 * g ELSE Len(letters))
            c(i) == IF i <= Len(need) THEN need[i] ELSE 0
            prepare == c(1) * 262144 + c(2) * 4096 + c(3) * 64 + c(4)
        IN [i \in 1 .. (IF Len(need) < 3 THEN Len(need) ELSE 3) |->
              (prepare \div <<65536, 256, 1>>[i]) % 256]
  IN FlattenSeq([g \in 1 .. (Len(letters) + 3) \div 4 |-> Bytes(g)])

(* computeAcceptKey from the digest on: its digits are made bytes again,   *)
(* of which strlen() counts those before the first zero.                   *)
HexDigits(digest) == FlattenSeq([i \in DOMAIN digest |-> <<digest[i] \div 16, digest[i] % 16>>])
Htoi(digits, start) == digits[start + 1] * 16 + digits[start + 2]
AcceptKey(digest) ==
  LET digits == HexDigits(digest)
      bytes == [i \in 1 .. Len(digits) \div 2 |-> Htoi(digits, 2 * (i - 1))]
  IN WsBase64Encode(AsString(bytes))

(* fetchSecKey: what follows "Sec-WebSocket-Key: " in the request goes     *)
(* into 256 zero bytes, up to the end of line.  Where there is none in     *)
(* reach, as many bytes go there as the whole request has, and head of     *)
(* them stand before rest.  computeAcceptKey appends the GUID in place.    *)
KeyRoom == 256
GuidLength == 36
FetchSecKey(head, rest) ==
  LET all == head + Len(AsString(rest))
      eol == SelectInSeq(rest, LAMBDA b : b \in {10, 13})
      stop == IF eol \in 1 .. all THEN eol - 1 ELSE all
      key == AsString(SubSeq(rest, 1, IF stop < Len(rest) THEN stop ELSE Len(rest)))
  IN [key |-> key, overrun |-> stop > KeyRoom \/ Len(key) + GuidLength >= KeyRoom]

-----------------------------------------------------------------------------
(* sha1.h: the message block and the blocks processed so far.              *)

Sha1Reset == [block |-> << >>, done |-> << >>, bits |-> 0]
Processed(c) == [c EXCEPT !.done = Append(@, c.block), !.block = << >>]
Sha1Input(c, b) ==
  LET d == [c EXCEPT !.block = Append(@, b), !.bits = @ + 8]
  IN IF Len(d.block) = 64 THEN Processed(d) ELSE d
(* Mutant: a block too full for the length is not sent off first.          *)
Filled(c, n) == [c EXCEPT !.block = @ \o Zeros(n - Len(@))]
Sha1Room == 55
Sha1Pad(c) ==
  LET marked == [c EXCEPT !.block = Append(@, 128)]
      ready == IF Len(c.block) > Sha1Room THEN Processed(Filled(marked, 64)) ELSE marked
      full == [Filled(ready, 56) EXCEPT !.block = @ \o EightBytes(c.bits)]
  IN Processed(full)
Sha1Blocks(s) ==
  LET f[i \in 0 .. Len(s)] == IF i = 0 THEN Sha1Reset
                              ELSE LET c == f[i - 1] IN Sha1Input(c, s[i])
  IN Sha1Pad(f[Len(s)]).done

-----------------------------------------------------------------------------
(* Properties.                                                             *)

(* The lengths that a client writes in two bytes.                          *)
InTwoBytes(n) == n < 65536

(* A frame of a client that was received whole, in either form, is decoded *)
(* to what the client sent; of one that was received in part, what came is *)
(* decoded, and the rest is what stood in the buffer before                *)
(* (main.cpp:143-209).                                                     *)
FramesReturn(text) ==
  \A mask \in WsMasks :
    LET n == Len(text)
        long == LongFrame(text, mask)
        frame == ClientFrame(text, mask)
        stale == [i \in 1 .. n |-> 48]
    IN /\ AnalyData(long \o stale, Len(long)) = text
       /\ InTwoBytes(n) =>
            /\ AnalyData(frame \o stale, Len(frame)) = text
            /\ \A lost \in {n \div 2, n} :
                 LET came == Len(frame) - lost
                 IN IsPrefix(SubSeq(text, 1, n - lost),
                             AnalyData(SubSeq(frame, 1, came) \o stale, came))

(* What the server packs is what the client reads, for every length below  *)
(* 65535; above it packs nothing (main.cpp:211-248).                       *)
AnswersReturn(text) ==
  Len(AsString(text)) < 65535 => ClientReads(PackData(text)) = AsString(text)
HeadersReturn ==
  \A n \in {0, 1, 125, 126, 127, 255, 256, 65534, 65535} :
    LET h == PackHeader(n)
    IN h # NoFrame <=> n < 65535 /\ n = (IF h[2] = 126 THEN TwoAt(h, 2) ELSE h[2])

(* A key of any bytes without a zero or an end of line is fetched as it is *)
(* and leaves room for the GUID up to 219 bytes, no longer; one that no    *)
(* line end follows also needs a request of at most 256 bytes              *)
(* (main.cpp:41-73, 99).                                                   *)
Heads == {35, 240}
OneLine(text) == \A i \in 1 .. Len(text) : text[i] \notin {0, 10, 13}
KeyFetched(text) ==
  OneLine(text) =>
    \A head \in Heads :
      LET lined == FetchSecKey(head, text \o <<13, 10>>)
          bare == FetchSecKey(head, text)
      IN /\ lined.key = text /\ (lined.overrun <=> Len(text) > 219)
         /\ bare.key = text /\ (bare.overrun <=> Len(text) > 219 \/ head + Len(text) > 256)

(* The accept key stands for the digest up to its first zero, which is all *)
(* of it if it has none; base64_decode gives back what was encoded, with   *)
(* a zero behind it if it was padded (main.cpp:75-115, base64.h:14-160).   *)
KeysReturn(text) ==
  LET back == WsBase64Decode(WsBase64Encode(text))
  IN /\ back = text \o Zeros(IF Len(text) % 3 = 0 THEN 0 ELSE 1)
     /\ AsString(WsBase64Decode(AcceptKey(text))) = AsString(text)
     /\ KeyFetched(text)

(* SHA-1 is given the text, a one bit, zeros and the length in bits, in    *)
(* blocks of 64 bytes and no more than it takes (sha1.h:59-172).           *)
BlocksPadded(text) ==
  LET blocks == Sha1Blocks(text)
      n == Len(text)
      all == FlattenSeq(blocks)
  IN /\ \A k \in DOMAIN blocks : Len(blocks[k]) = 64
     /\ Len(blocks) = (n + 9 + 63) \div 64
     /\ all = text \o <<128>> \o Zeros(Len(all) - n - 9) \o EightBytes(8 * n)

(* All of them, for the text so far.                                       *)
FramesDecode ==
  /\ FramesReturn(wsText) /\ AnswersReturn(wsText) /\ HeadersReturn
  /\ KeysReturn(wsText) /\ BlocksPadded(wsText)
=============================================================================
