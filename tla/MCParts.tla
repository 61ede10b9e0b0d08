------------------------------ MODULE MCParts ------------------------------
(***************************************************************************)
(* The parts of the mail client and of the board programs that have no     *)
(* state in common, one at a time: which one is under consideration is     *)
(* chosen in the initial state.                                            *)
(***************************************************************************)
EXTENDS RingBuffer, MailMessage, Codecs, TextTools, Sll, Blob, ClientSocket, DotLock,
        WsCodec, WsServer, ConnServer, Playback

CONSTANT Considered   \* the parts to consider
VARIABLE subject
Parts == {"ring", "message", "codecs", "texts", "lists", "blob", "socket", "lock",
          "frames", "websocket", "commands", "playback"}
ASSUME ConsideredAssumption == Considered \subseteq Parts
partVars == <<ringVars, msgVars, codBytes, textChars, sllVars, blobVars, csVars, dlVars,
              wsText, wsVars, conVars, playVars>>

-----------------------------------------------------------------------------
(* The command lines, settings and inputs.                                 *)

Attachment(file, tokens, enc) ==
  [opt |-> "attach", file |-> file, tokens |-> tokens, inline |-> FALSE, id |-> TRUE,
   enc |-> enc]
Option(kind, file) ==
  [opt |-> kind, file |-> file, tokens |-> 1, inline |-> FALSE, id |-> FALSE, enc |-> "none"]
Line(dot) == [dot |-> dot, newline |-> TRUE]

SomeCommandLines == {
  << >>,
  <<Attachment("text", 1, "none")>>,
  <<Attachment("text", 6, "none"), Attachment("image", 3, "none")>>,
  <<Attachment("image", 7, "none")>>,
  <<Option("M", "text"), Option("M", "text"), Attachment("gone", 2, "none")>>,
  <<Option("embed", "image"), Option("embed", "image")>>,
  <<Option("M", "text"), Option("embed", "image"), Attachment("image", 6, "base64"),
    Attachment("text", 5, "none")>>,
  <<Option("M", "text")>>,
  <<Option("body", "text")>>,
  <<Option("body", "gone"), Option("M", "text")>>}
SomeSettings == [mime : {Null, "text"}, enc : {Null, "none", "base64"}, id : {Null},
                 name : {"given"}]
SomeChars == {"a", "A", "1", ".", "/", "\\", ":", ",", "*", " "}
SomeInputs == {<<Line(FALSE), Line(TRUE), Line(FALSE)>>, <<Line(FALSE)>>}

(* The masks, the files and the formats.                                   *)

SomeMasks == {<<0, 0, 0, 0>>, <<1, 128, 255, 64>>}

WaveChunk(type, len) == [type |-> type, len |-> len]
WaveFile(length, chunks) ==
  LET at[n \in 1 .. Len(chunks) + 1] ==
        IF n = 1 THEN RiffSize
        ELSE at[n - 1] + ChunkHead + chunks[n - 1].len + (chunks[n - 1].len % 2)
  IN [wave |-> TRUE, length |-> length,
      chunks |-> [n \in 1 .. Len(chunks) |->
                    [type |-> chunks[n].type, at |-> at[n], len |-> chunks[n].len]]]
SomeFiles == {
  WaveFile(75, <<WaveChunk("fmt", 16), WaveChunk("data", 9)>>),
  WaveFile(80, <<WaveChunk("list", 3), WaveChunk("fmt", 18), WaveChunk("fact", 0),
                 WaveChunk("data", 14)>>),
  WaveFile(70, <<WaveChunk("data", 0), WaveChunk("fmt", 15), WaveChunk("data", 9)>>),
  WaveFile(90, <<WaveChunk("fmt", 40), WaveChunk("data", 15)>>),
  WaveFile(66, <<WaveChunk("fmt", 16), WaveChunk("list", 127), WaveChunk("data", 9)>>),
  WaveFile(50, <<WaveChunk("fmt", 16), WaveChunk("list", 90)>>),
  [wave |-> FALSE, length |-> 50, chunks |-> << >>],
  WaveFile(20, << >>)}
SomeFormats ==
  [tag : {"pcm"}, channels : {1, 2}, bits : {8, 16, 24}, width : {3}] \cup
  {[tag |-> "extensible", channels |-> 2, bits |-> 24, width |-> 4],
   [tag |-> "pcm", channels |-> 1, bits |-> 12, width |-> 2],
   [tag |-> "other", channels |-> 1, bits |-> 8, width |-> 1]}

-----------------------------------------------------------------------------
(* Together.                                                               *)

PartsInit ==
  /\ subject \in Considered
  /\ RingInit /\ MsgInit /\ CodInit /\ TextInit /\ SllInit /\ BlobInit /\ SocketInit /\ LockInit
  /\ WsTextInit /\ WsInit /\ ConnInit /\ PlayInit
  /\ subject # "message" =>
       msgArgs = << >> /\ Len(msgIn) = 1 /\ msgSet.mime = Null /\ msgSet.enc = Null
  /\ subject # "playback" => playFile.length = 20

Others(part) ==
  /\ part # "ring"      => UNCHANGED ringVars
  /\ part # "message"   => UNCHANGED msgVars
  /\ part # "codecs"    => UNCHANGED codBytes
  /\ part # "texts"     => UNCHANGED textChars
  /\ part # "lists"     => UNCHANGED sllVars
  /\ part # "blob"      => UNCHANGED blobVars
  /\ part # "socket"    => UNCHANGED csVars
  /\ part # "lock"      => UNCHANGED dlVars
  /\ part # "frames"    => UNCHANGED wsText
  /\ part # "websocket" => UNCHANGED wsVars
  /\ part # "commands"  => UNCHANGED conVars
  /\ part # "playback"  => UNCHANGED playVars
Steps(part) == subject = part /\ Others(part) /\ UNCHANGED subject

PartsNext ==
  \/ Steps("ring")      /\ RingNext
  \/ Steps("message")   /\ MsgNext
  \/ Steps("codecs")    /\ CodByte
  \/ Steps("texts")     /\ TextChar
  \/ Steps("lists")     /\ SllNext
  \/ Steps("blob")      /\ BlobNext
  \/ Steps("socket")    /\ SocketNext
  \/ Steps("lock")      /\ LockNext
  \/ Steps("frames")    /\ WsTextByte
  \/ Steps("websocket") /\ WsNext
  \/ Steps("commands")  /\ ConnNext
  \/ Steps("playback")  /\ PlayNext

(* Fairness for the ring and the command server alone: of the others       *)
(* nothing is said that must happen in the end.  Before its first byte or  *)
(* client neither has a fair step, so the other parts may leave them there.*)
PartsSpec ==
  /\ PartsInit /\ [][PartsNext]_<<subject, partVars>>
  /\ RingFairness /\ ConnFairness

(* The types of all parts; every node is on one list at most, and a blob   *)
(* stays within its block.                                                 *)
PartsTypeOK ==
  /\ RingTypeOK /\ MsgTypeOK /\ SocketTypeOK /\ LockTypeOK
  /\ SllTypeOK /\ NodesAreOnOneList
  /\ BlobTypeOK /\ BlobWellFormed
  /\ WsTypeOK /\ ConnTypeOK /\ PlayTypeOK
=============================================================================
