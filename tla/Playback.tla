------------------------------ MODULE Playback ------------------------------
(***************************************************************************)
(* playback of audio.c: the header of a WAVE file is read, 26 bytes of it  *)
(* at once and the rest chunk by chunk, and then what stands in the buffer *)
(* and the rest of the file are written to the device, a period at a time. *)
(*                                                                         *)
(* A byte of the file is its position, from 1; 0 is silence.               *)
(***************************************************************************)
EXTENDS Integers, Sequences

CONSTANTS
  PlayFiles,     \* the files, see FileType
  PlayFormats,   \* what a fmt chunk may hold
  PlayChunks,    \* the frames in a period, as the device decides
  PlayCount,     \* 137090, whatever the header says; here a bound
  PlayRoom,      \* 10240, the size that audiobuf is allocated with; a bound
  LengthWidth    \* 2^32, what a length is counted in; a bound

RiffSize == 12     \* sizeof(WaveHeader)
ChunkHead == 8     \* sizeof(WaveChunkHeader)
FmtSize == 16      \* sizeof(WaveFmtBody)
ExtensibleSize == 40   \* sizeof(WaveFmtExtensibleBody)
Loaded == 26       \* sizeof(VocHeader)

(* A file is so many bytes long; its chunks follow one another, each to an *)
(* even length, and the last may say that it is longer than the file.      *)
ChunkType == [type : {"fmt", "data", "fact", "list"}, at : Nat, len : 0 .. LengthWidth - 1]
FileType  == [wave : BOOLEAN, length : Nat, chunks : Seq(ChunkType)]
FormatType == [tag : {"pcm", "float", "extensible", "other"}, channels : Nat,
               bits : Nat, width : Nat]
ChunkEnd(c) == c.at + ChunkHead + c.len + (c.len % 2)
ChunksFollow(file) ==
  \A n \in 1 .. Len(file.chunks) :
    file.chunks[n].at = IF n = 1 THEN RiffSize ELSE ChunkEnd(file.chunks[n - 1])

ASSUME PlayAssumption ==
  /\ PlayChunks \subseteq Nat \ {0} /\ PlayRoom \in Nat
  /\ PlayCount \in Nat /\ PlayCount >= Loaded
  /\ LengthWidth \in Nat \ {0} /\ PlayFormats \subseteq FormatType
  /\ PlayFiles \subseteq FileType /\ \A file \in PlayFiles : ChunksFollow(file)

VARIABLES
  playFile, playPc,
  playPos,     \* what was read from the descriptor
  playSize,    \* size: how much of that test_wavefile has not yet used
  playNth,     \* the chunk of the header that comes next
  playFrame,   \* bytes in a frame, 0 before the fmt chunk
  playChunk,   \* chunk_bytes
  playStray,   \* the parameter audiobuf stands for memory that was freed
  playBuf,     \* what is loaded into audiobuf
  playWrite,   \* what pcm_write has still to write, silence included
  playShort,   \* the frames of this pcm_write were fewer than a period
  playWritten, playOut   \* written, and what the device has got

playVars == <<playFile, playPc, playPos, playSize, playNth, playFrame, playChunk,
              playStray, playBuf, playWrite, playShort, playWritten, playOut>>
headVars == <<playPos, playSize, playNth, playFrame>>
soundVars == <<playChunk, playStray, playBuf, playWrite, playShort, playWritten, playOut>>

PlayInit ==
  /\ playFile \in PlayFiles /\ playPc = "open" /\ playPos = 0 /\ playSize = 0
  /\ playNth = 1 /\ playFrame = 0 /\ playChunk = 0 /\ playStray = FALSE
  /\ playBuf = << >> /\ playWrite = << >> /\ playShort = FALSE
  /\ playWritten = 0 /\ playOut = << >>

PlayGoes(pc) == playPc' = pc
Positions(from, n) == [i \in 1 .. n |-> from + i]
FirstOf(m, n) == IF m < n THEN m ELSE n

-----------------------------------------------------------------------------
(* test_wavefile.                                                          *)

(* Two reads of what the headers of other formats would take.              *)
Opens ==
  /\ playPc = "open" /\ UNCHANGED <<playFile, playNth, playFrame>>
  /\ playPos' = FirstOf(Loaded, playFile.length)
  /\ IF playFile.length < Loaded THEN PlayGoes("exit") /\ UNCHANGED <<playSize, playBuf>>
     ELSE /\ PlayGoes(IF playFile.wave THEN "header" ELSE "closed")
          /\ playSize' = Loaded - RiffSize /\ playBuf' = Positions(0, Loaded)
  /\ UNCHANGED <<playChunk, playStray, playWrite, playShort, playWritten, playOut>>

(* test_wavefile_read: as much as is missing of what is asked for.         *)
AfterRead(size, asked) == IF size >= asked THEN size ELSE asked
Padded(len) == (len + (len % 2)) % LengthWidth

(* One chunk header and what follows it.  The body of a data chunk is left *)
(* to be read, that of fmt is looked at, those of the others are passed    *)
(* over; a header or a body that the file is too short for ends it all.    *)
Chunk == playFile.chunks[playNth]
ReadsChunk(pc, body, frame) ==
  LET headed == AfterRead(playSize, ChunkHead)
      rest == headed - ChunkHead
      pos == playPos + (headed - playSize) + (AfterRead(rest, body) - rest)
  IN IF pos > playFile.length
     THEN PlayGoes("exit") /\ UNCHANGED headVars
     ELSE /\ PlayGoes(pc) /\ playPos' = pos /\ playSize' = AfterRead(rest, body) - body
          /\ playNth' = playNth + 1 /\ playFrame' = frame

FrameOf(fmt) ==
  fmt.channels * (CASE fmt.bits = 8 -> 1 [] fmt.bits = 16 -> 2 [] fmt.bits = 32 -> 4
                    [] fmt.bits = 24 -> fmt.width)
Playable(fmt, len) ==
  /\ len >= FmtSize /\ fmt.tag \in {"pcm", "float", "extensible"}
  /\ fmt.tag = "extensible" => len >= ExtensibleSize
  /\ fmt.channels >= 1 /\ fmt.bits \in {8, 16, 24, 32}
  /\ fmt.bits = 24 => fmt.width \in {3, 4}

AtChunk(pc) == playPc = pc /\ UNCHANGED <<playFile, soundVars>>
NoMore == playNth > Len(playFile.chunks)
HeaderEnds ==
  /\ \E pc \in {"header", "search"} : AtChunk(pc)
  /\ NoMore /\ PlayGoes("exit") /\ UNCHANGED headVars
BeforeFmt ==
  /\ AtChunk("header") /\ ~NoMore
  /\ IF Chunk.type # "fmt" THEN ReadsChunk("header", Padded(Chunk.len), 0)
     ELSE \E fmt \in PlayFormats :
            IF Playable(fmt, Padded(Chunk.len))
            THEN ReadsChunk("search", Padded(Chunk.len), FrameOf(fmt))
            ELSE PlayGoes("exit") /\ UNCHANGED headVars
AfterFmt ==
  /\ AtChunk("search") /\ ~NoMore
  /\ IF Chunk.type = "data" THEN ReadsChunk("params", 0, playFrame)
     ELSE ReadsChunk("search", Padded(Chunk.len), playFrame)

-----------------------------------------------------------------------------
(* set_params: the device may refuse, or set the size of a period.  The    *)
(* global audiobuf is made that long: unless it is, realloc may move it or *)
(* give up its end, while the parameter of playback_go stays what it was.  *)
SetParams ==
  /\ playPc = "params"
  /\ \/ PlayGoes("exit") /\ UNCHANGED <<playChunk, playStray>>
     \/ /\ \E n \in PlayChunks : playChunk' = n * playFrame
        /\ playStray' \in IF playChunk' = PlayRoom THEN {FALSE} ELSE BOOLEAN
        /\ PlayGoes("loaded")
  /\ UNCHANGED <<playFile, headVars, playBuf, playWrite, playShort, playWritten, playOut>>

(* pcm_write begins: what is less than a period is filled up with silence, *)
(* written over a frame that is not complete.                              *)
Begins(data, pc) ==
  LET whole == Len(data) - (Len(data) % playFrame)
  IN /\ playWrite' = SubSeq(data, 1, whole) \o [i \in 1 .. playChunk - whole |-> 0]
     /\ playShort' = (whole < playChunk) /\ PlayGoes(pc)

(* What was loaded, as far as it fills periods; the test is "more than".   *)
WritesLoaded ==
  /\ playPc = "loaded"
  /\ IF Len(playBuf) > playChunk /\ playWritten < PlayCount
     THEN /\ Begins(SubSeq(playBuf, 1, playChunk), "first")
          /\ playBuf' = SubSeq(playBuf, playChunk + 1, Len(playBuf))
     ELSE PlayGoes("fill") /\ UNCHANGED <<playBuf, playWrite, playShort>>
  /\ UNCHANGED <<playFile, headVars, playChunk, playStray, playWritten, playOut>>

(* One read of the inner loop, of a part of what is missing, or its end.   *)
Missing == FirstOf(playChunk, PlayCount - playWritten) - Len(playBuf)
(* Mutant: the bytes are put at the start of the buffer.                   *)
WithReadOver(bytes) == bytes \o SubSeq(playBuf, Len(bytes) + 1, Len(playBuf))
WithRead(bytes) == playBuf \o bytes
FillsBuffer ==
  /\ playPc = "fill" /\ UNCHANGED <<playFile, playSize, playNth, playFrame>>
  /\ UNCHANGED <<playChunk, playStray, playWritten, playOut>>
  /\ IF playWritten >= PlayCount
     THEN PlayGoes("drained") /\ UNCHANGED <<playPos, playBuf, playWrite, playShort>>
     ELSE LET left == FirstOf(Missing, playFile.length - playPos)
          IN IF Missing = 0 \/ left = 0
             THEN Begins(playBuf, "second") /\ playBuf' = << >> /\ UNCHANGED playPos
             ELSE \/ /\ \E n \in {1, left} :
                          playPos' = playPos + n /\ playBuf' = WithRead(Positions(playPos, n))
                     /\ UNCHANGED <<playPc, playWrite, playShort>>
                  \/ PlayGoes("exit") /\ UNCHANGED <<playPos, playBuf, playWrite, playShort>>

(* snd_pcm_writei: any number of frames; an underrun, after which it is    *)
(* called again and again with the same result; or another error.          *)
WriteI ==
  /\ playPc \in {"first", "second"} /\ playWrite # << >>
  /\ \/ \E n \in {playFrame, Len(playWrite)} :
          /\ playOut' = playOut \o SubSeq(playWrite, 1, n)
          /\ playWrite' = SubSeq(playWrite, n + 1, Len(playWrite)) /\ UNCHANGED playPc
     \/ \E pc \in {"underrun", "exit"} : PlayGoes(pc) /\ UNCHANGED <<playOut, playWrite>>
  /\ UNCHANGED <<playFile, headVars, playChunk, playStray, playBuf, playShort, playWritten>>

(* pcm_write returns a period: if less was asked for, the loop ends.       *)
PcmWritten ==
  /\ playPc \in {"first", "second"} /\ playWrite = << >>
  /\ playWritten' = playWritten + (IF playShort THEN 0 ELSE playChunk)
  /\ PlayGoes(IF playPc = "first" THEN "loaded" ELSE IF playShort THEN "drained" ELSE "fill")
  /\ UNCHANGED <<playFile, headVars, playChunk, playStray, playBuf, playWrite, playShort,
                 playOut>>

PlayNext ==
  Opens \/ HeaderEnds \/ BeforeFmt \/ AfterFmt \/ SetParams \/ WritesLoaded \/ FillsBuffer
  \/ WriteI \/ PcmWritten
PlaySpec == PlayInit /\ [][PlayNext]_playVars

-----------------------------------------------------------------------------
(* Properties.                                                             *)

PlayTypeOK ==
  /\ playPos \in 0 .. playFile.length /\ playSize \in 0 .. Loaded
  /\ playNth \in 1 .. Len(playFile.chunks) + 1 /\ Len(playBuf) <= Loaded + playChunk
  /\ playFrame # 0 => playChunk % playFrame = 0

(* Where the next chunk begins, and where what is read after the header    *)
(* does.                                                                   *)
Start == IF playPc \notin {"header", "search"} THEN playFile.chunks[playNth - 1].at + ChunkHead
         ELSE IF playNth = 1 THEN RiffSize ELSE ChunkEnd(playFile.chunks[playNth - 1])

(* The i-th byte of the sound, how long it is, and n bytes of it with      *)
(* nothing but silence behind them.                                        *)
Sound(i)   == IF i <= Loaded THEN i ELSE Start + i - Loaded
SoundLength == FirstOf(PlayCount, Loaded + playFile.length - Start)
PlayedTo(n) ==
  /\ n <= SoundLength
  /\ \A i \in 1 .. Len(playOut) : playOut[i] = IF i <= n THEN Sound(i) ELSE 0

(* What test_wavefile has not used ends where the descriptor stands, so    *)
(* that the sound begins behind the header of the data chunk, for every    *)
(* length of the chunks before it but the greatest, which is rounded up to *)
(* 0.  What is played is never more than there is, and unless an error or  *)
(* an underrun ends it not less either, down to the last whole frame.      *)
(* Where realloc left audiobuf in its place, it is what was loaded first   *)
(* (the header of the file, whose 26 bytes count as sound) and then the    *)
(* data, in order, without a gap, and silence.  Where the block was moved, *)
(* as a period of more than 10240 bytes (that of CD quality) or of fewer   *)
(* may do, playback_go works on memory that is not its own, and of the     *)
(* bytes nothing is said (audio.c:485, 502-552, 605-836).                  *)
PlaysInOrder ==
  (\A n \in DOMAIN playFile.chunks : playFile.chunks[n].len < LengthWidth - 1) =>
    /\ playPc \in {"header", "search", "params"} => playPos - playSize = Start
    /\ playOut # << >> =>
         \E n \in 0 .. Len(playOut) :
           /\ n <= SoundLength /\ (~playStray => PlayedTo(n))
           /\ playPc = "drained" => n = SoundLength - (SoundLength % playFrame)
=============================================================================
