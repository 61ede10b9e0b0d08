------------------------------- MODULE Codecs -------------------------------
(***************************************************************************)
(* The conversions of libmutils that work on bytes: base64, hexadecimal    *)
(* and the two guesses of what kind of file a mail carries.  The bytes     *)
(* arrive one by one in codBytes; every conversion is a function of them.  *)
(*                                                                         *)
(* A base64 text is a sequence of letter numbers 0 .. 63, Pad for "=" and  *)
(* anything else for a character that decode[] marks as junk.              *)
(***************************************************************************)
EXTENDS Integers, Sequences, SequencesExt

CONSTANTS
  CodBytes,     \* the bytes that may occur
  CodMixed,     \* up to this length the bytes are chosen freely,
  CodUniform    \* and up to this one the first byte is repeated

ASSUME CodecsAssumption ==
  CodBytes \subseteq 0 .. 255 /\ CodMixed \in Nat /\ CodUniform \in Nat

VARIABLE codBytes

CodInit == codBytes = << >>
CodByte ==
  \E b \in CodBytes :
    /\ \/ Len(codBytes) < CodMixed
       \/ Len(codBytes) < CodUniform /\ \A i \in DOMAIN codBytes : codBytes[i] = b
    /\ codBytes' = Append(codBytes, b)

Nothing == "NULL"
-----------------------------------------------------------------------------
(* base64.                                                                 *)

Pad  == 64
CrLf == <<65, 66>>

ByteAt(s, i) == IF i <= Len(s) THEN s[i] ELSE 0
Groups(s) == (Len(s) + 2) \div 3

(* The four letters of the g-th group of three bytes.                      *)
(* Mutant: the third letter keeps too many of the bits of the second byte. *)
LettersWide(s, g) ==
  LET a == ByteAt(s, 3 * g - 2)
      b == ByteAt(s, 3 * g - 1)
      c == ByteAt(s, 3 * g)
      left == Len(s) - 3 * (g - 1)
  IN <<a \div 4, (a % 4) * 16 + b \div 16,
       IF left > 1 THEN (b % 8) * 4 + c \div 64 ELSE Pad,
       IF left > 2 THEN c % 64 ELSE Pad>>
Letters(s, g) ==
  LET a == ByteAt(s, 3 * g - 2)
      b == ByteAt(s, 3 * g - 1)
      c == ByteAt(s, 3 * g)
      left == Len(s) - 3 * (g - 1)
  IN <<a \div 4, (a % 4) * 16 + b \div 16,
       IF left > 1 THEN (b % 16) * 4 + c \div 64 ELSE Pad,
       IF left > 2 THEN c % 64 ELSE Pad>>

InLines(s, groups) ==
  FlattenSeq([g \in 1 .. Groups(s) |->
    Letters(s, g) \o IF g % groups = 0 THEN CrLf ELSE << >>])

(* mutils_encode_base64 computes the length first and gives up when the    *)
(* text it has made is not as long.                                        *)
EncodedLength(s) == 4 * Groups(s) + 2 * ((4 * Groups(s)) \div 60 + 1)
EncodeBase64(s) ==
  LET d == InLines(s, 15) \o CrLf
  IN IF Len(d) = EncodedLength(s) THEN d ELSE Nothing

EncodeNoFormat(s) ==
  IF s = << >> THEN Nothing ELSE FlattenSeq([g \in 1 .. Groups(s) |-> Letters(s, g)])

(* mutilsBase64Encode: a line ends after more than 71 characters.          *)
MimeEncode(s) == InLines(s, 18) \o IF Groups(s) % 18 # 0 THEN CrLf ELSE << >>

(* mutils_decode_base64, one character at a time.  part is the byte that   *)
(* is being put together, e the position in the group.                     *)
AtQuantum(e, part, out) == [at |-> "data", e |-> e, part |-> part, out |-> out]
DecodeStart == AtQuantum(0, 0, << >>)
DecodeLetter(st, c) ==
  CASE st.e = 0 -> AtQuantum(1, (c * 4) % 256, st.out)
    [] st.e = 1 -> AtQuantum(2, (c * 16) % 256, Append(st.out, st.part + c \div 16))
    [] st.e = 2 -> AtQuantum(3, (c * 64) % 256, Append(st.out, st.part + c \div 4))
    [] OTHER    -> AtQuantum(0, st.part, Append(st.out, st.part + c))
DecodePad(st, another) ==
  CASE st.e = 3            -> [st EXCEPT !.at = "end"]
    [] st.e = 2 /\ another -> [st EXCEPT !.e = 3]
    [] OTHER               -> [st EXCEPT !.at = "bad"]
DecodeChar(st, src, i) ==
  IF st.at # "data" \/ src[i] > Pad THEN st
  ELSE IF src[i] = Pad THEN DecodePad(st, i < Len(src) /\ src[i + 1] = Pad)
  ELSE DecodeLetter(st, src[i])
Decoding(src) ==
  LET f[i \in 0 .. Len(src)] ==
        IF i = 0 THEN DecodeStart ELSE DecodeChar(f[i - 1], src, i)
  IN f[Len(src)]
DecodeBase64(src) ==
  LET d == Decoding(src) IN IF d.at = "bad" THEN Nothing ELSE d.out

-----------------------------------------------------------------------------
(* Hexadecimal.  A text is a sequence of digits 0 .. 15, X for "x" and     *)
(* "X", Separator for a blank, ":", "-" and "_", and other numbers.        *)

X == 16
Separator == 17
IsXdigit(text, i) == i <= Len(text) /\ text[i] < 16

(* mutils_hex_to_bin: separators are passed one by one, and two characters *)
(* that are not both digits count for nothing.  next is the place that the *)
(* loop looks at next.                                                     *)
HexChar(st, text, i) ==
  IF st.next # i THEN st
  ELSE IF text[i] = Separator THEN [st EXCEPT !.next = i + 1]
  ELSE IF IsXdigit(text, i) /\ IsXdigit(text, i + 1)
       THEN [next |-> i + 2, out |-> Append(st.out, text[i] * 16 + text[i + 1])]
  ELSE [st EXCEPT !.next = i + 2]
HexToBin(text) ==
  LET first == IF Len(text) >= 2 /\ text[1] = 0 /\ text[2] = X THEN 3 ELSE 1
      f[i \in 0 .. Len(text)] ==
        IF i = 0 THEN [next |-> first, out |-> << >>] ELSE HexChar(f[i - 1], text, i)
  IN IF Len(text) < 2 THEN Nothing ELSE f[Len(text)].out

BinaryToHex(s) == FlattenSeq([i \in 1 .. Len(s) |-> <<s[i] \div 16, s[i] % 16>>])
BinaryToHexBuf(s, room) == IF room < 2 * Len(s) + 1 THEN Nothing ELSE BinaryToHex(s)

-----------------------------------------------------------------------------
(* What kind of file it is.                                                *)

Tab == 9
Lf == 10
Cr == 13

(* mutils_file_is_binary: the first 512 bytes without a final 0x1a.  A     *)
(* plain char is signed, so no byte is ever taken for the start of an      *)
(* UTF-8 sequence.  Of nothing at all, 0/0 is not less than 0.30.          *)
OddByte(b) == b >= 128 \/ (b < 32 /\ b \notin {8, Tab, Lf, 12, Cr, 27})
FileIsBinary(s) ==
  LET block == SubSeq(s, 1, IF Len(s) > 512 THEN 512 ELSE Len(s))
      text == IF block # << >> /\ Last(block) = 26 THEN Front(block) ELSE block
      nul == SelectInSeq(text, LAMBDA b : b = 0)
      seen == IF nul = 0 THEN text ELSE SubSeq(text, 1, nul - 1)
      odd == Cardinality({i \in DOMAIN seen : OddByte(seen[i])})
             + IF nul = 0 THEN 0 ELSE Len(text)
  IN text = << >> \/ 10 * odd >= 3 * Len(text)

(* guess_file_type: the flags after i bytes; the first byte that is not    *)
(* printable ends it.                                                      *)
Printable(b) == b \in 32 .. 126 \/ b = Tab
GuessByte(st, b) ==
  IF st.over THEN st
  ELSE IF st.cr /\ b = Lf THEN [st EXCEPT !.cr = FALSE]
  ELSE IF b = Cr THEN [st EXCEPT !.cr = TRUE, !.flags = @ \cup {"dos"}]
  ELSE IF b = Lf THEN [st EXCEPT !.cr = FALSE, !.flags = @ \cup {"unix"}]
  ELSE IF ~Printable(b) THEN [st EXCEPT !.over = TRUE, !.flags = @ \cup {"binary"}]
  ELSE [st EXCEPT !.cr = FALSE]
GuessFileType(s) ==
  LET f[i \in 0 .. Len(s)] ==
        IF i = 0 THEN [flags |-> {}, cr |-> FALSE, over |-> FALSE]
        ELSE GuessByte(f[i - 1], s[i])
  IN f[Len(s)].flags

-----------------------------------------------------------------------------
(* Properties.                                                             *)

(* What any of the three encoders writes is decoded to the bytes that went *)
(* in, line ends and all, and the prediction of the length is right        *)
(* (mutils.c:1508-1758, mutils_mime.c:56-119).                             *)
Base64RoundTrip(s) ==
  /\ \A text \in {EncodeBase64(s), MimeEncode(s)} :
       DecodeBase64(text) = s
  /\ s # << >> => DecodeBase64(EncodeNoFormat(s)) = s

(* Taken as a base64 text, the bytes never decode to more than the         *)
(* 4 + 3/4 of their length that the decoder allocates (mutils.c:1660).     *)
DecodedFits(s) ==
  Len(Decoding(s).out) <= 4 + (3 * Len(s)) \div 4

(* Hexadecimal text comes back too, with separators after any of its       *)
(* bytes and with "0x" before it (mutils.c:1781-1788).                     *)
HexRoundTrip(s) ==
  LET hex == BinaryToHex(s)
      Separated(at) == FlattenSeq([i \in 1 .. Len(s) |->
        SubSeq(hex, 2 * i - 1, 2 * i) \o IF i \in at THEN <<Separator>> ELSE << >>])
  IN s # << >> =>
       /\ HexToBin(<<0, X>> \o hex) = s
       /\ BinaryToHexBuf(s, 2 * Len(s) + 1) = hex
       /\ BinaryToHexBuf(s, 2 * Len(s)) = Nothing
       /\ Len(s) <= CodMixed =>
            \A at \in SUBSET (1 .. Len(s)) : HexToBin(Separated(at)) = s

(* The line ends of a text are those that stand in it: "dos" where a CR    *)
(* does, "unix" where an LF does that no CR precedes; and a file that      *)
(* guess_file_type takes for printable text is not sent as binary          *)
(* (utils.c:563-634, mutils.c:1954-2060).                                  *)
FileKindsAgree(s) ==
  LET flags == GuessFileType(s)
  IN "binary" \notin flags =>
       /\ "dos" \in flags <=> \E i \in DOMAIN s : s[i] = Cr
       /\ "unix" \in flags <=>
            \E i \in DOMAIN s :
              s[i] = Lf /\ ~(i > 1 /\ s[i - 1] = Cr)
       /\ s # << >> => ~FileIsBinary(s)

(* All of them, for the bytes so far.                                      *)
CodecsRoundTrip ==
  /\ Base64RoundTrip(codBytes)
  /\ DecodedFits(codBytes)
  /\ HexRoundTrip(codBytes)
  /\ FileKindsAgree(codBytes)
=============================================================================
