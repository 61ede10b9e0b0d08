---------------------------- MODULE MailMessage ----------------------------
(***************************************************************************)
(* The text of one mail: the lists that the command line fills (setget.c), *)
(* and smtpMail of smtp.c, which writes headers, one-line messages,        *)
(* embedded images and attachments into the socket, part by part, through  *)
(* temporary files that may not be had at every step.                      *)
(*                                                                         *)
(* A line of the text is one of: a multipart header, a part or end         *)
(* delimiter, the content of an item, or a line of the standard input.     *)
(***************************************************************************)
EXTENDS Integers, Sequences

CONSTANTS
  CommandLines,  \* sequences of options: -attach, -M, -embed-image, -msg-body
  MsgSettings,   \* the settings to check, see MsgSettingType
  Inputs         \* what stands on the standard input, as pieces that fgets reads

Null == "null"   \* a pointer that is not set, an empty setting
Files == {"text", "image", "gone"}
MsgSettingType ==
  [mime : {Null, "text", "other"}, enc : {Null, "none", "base64"},
   id : {Null, "given"}, name : {Null, "given"}]  \* g_mime_type, ...
OptionKinds == {"attach", "M", "embed", "body"}
(* tokens: the fields of -attach "file,mime,i/a,name,id,encoding".         *)
CommandType == [opt : OptionKinds, file : Files, tokens : 1 .. 7, inline : BOOLEAN,
                id : BOOLEAN, enc : {"none", "base64"}]
Piece == [dot : BOOLEAN, newline : BOOLEAN]

ASSUME MessageAssumption ==
  /\ MsgSettings \subseteq MsgSettingType
  /\ CommandLines \subseteq Seq(CommandType) /\ Inputs \subseteq Seq(Piece)

VARIABLES
  msgSet, msgArgs,   \* the settings and the options not yet read
  msgLists,          \* attachment_head, oneline_..., embed_image_..., msg_body_...
  msgPc, msgAt, msgRc,
  msgIn,             \* what is left on the standard input
  msgOut,            \* what was written into the socket
  msgTemps,          \* the temporary files that exist
  msgOpen,           \* the FILEs that nobody will close
  msgLost            \* history: one-line messages whose encoding failed

msgVars == <<msgSet, msgArgs, msgLists, msgPc, msgAt, msgRc, msgIn, msgOut, msgTemps,
             msgOpen, msgLost>>

MsgInit ==
  /\ msgSet \in MsgSettings /\ msgArgs \in CommandLines /\ msgIn \in Inputs
  /\ msgLists = [k \in OptionKinds |-> << >>]
  /\ msgPc = "options" /\ msgAt = 1 /\ msgRc = 0 /\ msgOut = << >>
  /\ msgTemps = {} /\ msgOpen = {} /\ msgLost = {}

-----------------------------------------------------------------------------
(* setget.c: the attachments.                                              *)

(* mutils_file_is_binary, which cannot tell of a file it cannot open.      *)
IsBinary(file) == file = "image"

(* xStrdup of an empty setting is a null pointer.                          *)
Allocated(file) ==
  [file |-> file, charset |-> "utf-8", mime |-> msgSet.mime, enc |-> msgSet.enc,
   inline |-> FALSE, name |-> msgSet.name, id |-> Null]

Or(value, default) == IF value = Null THEN default ELSE value

(* What the fields of the option say, as far as they go.                   *)
FromTokens(a, o) ==
  [a EXCEPT !.mime = IF o.tokens >= 2 THEN "given" ELSE @,
            !.inline = o.tokens >= 3 /\ o.inline,
            !.name = IF o.tokens >= 4 THEN "given" ELSE @,
            !.id = IF o.tokens >= 5 /\ o.id THEN "given" ELSE @,
            !.enc = IF o.tokens = 6 THEN o.enc ELSE @]

(* A binary file is never sent as text.                                    *)
ForBinary(a) ==
  IF IsBinary(a.file) /\ msgSet.mime = "text"
  THEN [a EXCEPT !.charset = "none", !.mime = "extension", !.enc = "base64"] ELSE a

(* Mutant: the encoding keeps no default.                                  *)
DefaultsNoEncoding(a) ==
  [a EXCEPT !.mime = Or(@, Or(msgSet.mime, "extension")),
            !.id = Or(@, msgSet.id), !.name = Or(@, "filename")]
Defaults(a) ==
  [a EXCEPT !.mime = Or(@, Or(msgSet.mime, "extension")),
            !.enc = IF @ = Null /\ msgSet.enc = Null THEN "base64" ELSE @,
            !.id = Or(@, msgSet.id), !.name = Or(@, "filename")]

AttachmentOf(o) == Defaults(ForBinary(FromTokens(Allocated(o.file), o)))
ImageOf(o) ==
  LET a == Allocated(o.file)
  IN [a EXCEPT !.charset = "none", !.mime = Or(@, "extension"), !.enc = Or(@, "base64")]
OnelineOf(o) ==
  LET a == Allocated(o.file)
  IN [a EXCEPT !.inline = TRUE, !.mime = Or(@, "text"), !.enc = Or(@, "none")]

Listed(o) == CASE o.opt = "attach" -> AttachmentOf(o)
               [] o.opt = "embed"  -> ImageOf(o)
               [] o.opt = "M"      -> OnelineOf(o)
               [] o.opt = "body"   -> Allocated(o.file)

(* One option; an -attach of more than six fields ends the program.        *)
ReadOption ==
  /\ msgPc = "options" /\ msgArgs # << >>
  /\ LET o == Head(msgArgs)
     IN IF o.opt = "attach" /\ o.tokens > 6
        THEN msgPc' = "exit" /\ msgRc' = 1 /\ UNCHANGED msgLists
        ELSE /\ msgLists' = [msgLists EXCEPT ![o.opt] = Append(@, Listed(o))]
             /\ UNCHANGED <<msgPc, msgRc>>
  /\ msgArgs' = Tail(msgArgs)
  /\ UNCHANGED <<msgSet, msgAt, msgIn, msgOut, msgTemps, msgOpen, msgLost>>

-----------------------------------------------------------------------------
(* What is written.                                                        *)

Multipart(b) == [kind |-> "multipart", of |-> b]
Part(b)      == [kind |-> "part", of |-> b]
End(b)       == [kind |-> "end", of |-> b]
Content(i)   == [kind |-> "content", of |-> i]
Html         == [kind |-> "html", of |-> "images"]
TextLine     == [kind |-> "line", of |-> "input"]

Writes(lines) == msgOut' = msgOut \o lines
Goes(pc, at)  == msgPc' = pc /\ msgAt' = at /\ UNCHANGED msgRc
Fails         == msgPc' = "done" /\ msgRc' = -1 /\ UNCHANGED msgAt
KeepsLists    == UNCHANGED <<msgSet, msgArgs, msgLists>>
KeepsFiles    == UNCHANGED <<msgTemps, msgOpen, msgLost>>

Has(k)  == msgLists[k] # << >>
IsMime  == Has("attach") \/ Has("M") \/ Has("embed") \/ Has("body")

(* smtpMail up to the end of the headers, print_content_type_header.  The  *)
(* caller gives is_mime together with a body file.                         *)
Headers ==
  /\ msgPc = "options" /\ msgArgs = << >>
  /\ IF ~IsMime THEN Goes("input", 1) /\ Writes(<< >>)
     ELSE IF Has("body") THEN Goes("body", 1) /\ Writes(<< >>)
     ELSE /\ Goes("onelines", 1)
          /\ Writes(<<Multipart("main")>>)
  /\ KeepsLists /\ KeepsFiles /\ UNCHANGED msgIn

(* include_msg_body: only the first of the list.                           *)
Body ==
  /\ msgPc = "body"
  /\ \/ /\ msgLists["body"][1].file # "gone"
        /\ Writes(<<Content(<<"body", 1>>)>>) /\ Goes("done", 1)
     \/ Writes(<< >>) /\ Fails
  /\ KeepsLists /\ KeepsFiles /\ UNCHANGED msgIn

(* The text from the standard input: a piece that begins with a dot ends   *)
(* it.  A long line comes in several pieces, each of which is given an end *)
(* of line, so that every piece counts as the start of one.                *)
InputLine ==
  /\ msgPc = "input"
  /\ IF msgIn = << >> \/ Head(msgIn).dot
     THEN Goes("done", 1) /\ Writes(<< >>) /\ UNCHANGED msgIn
     ELSE msgIn' = Tail(msgIn) /\ Writes(<<TextLine>>) /\ Goes("input", 1)
  /\ KeepsLists /\ KeepsFiles

-----------------------------------------------------------------------------
(* Temporary files.                                                        *)

(* mutils_get_tempfileFP: directory by directory; where mkstemp succeeds   *)
(* and fdopen does not, the file stays behind.                             *)
TempOutcomes == [opened : BOOLEAN, left : SUBSET {<<"unopened", 1>>}]

Result(ok, temps, open) == [ok |-> ok, temps |-> temps, open |-> open]

(* get_encoded_attachment: the FILEs and temporary files that are left     *)
(* over, case by case.  Mutant: a file that is not there leaves the        *)
(* temporary file behind.                                                  *)
EncodingsKeep(a, i) ==
  {Result(FALSE, {<<"temp", i>>}, {<<"write", i>>}), Result(TRUE, {}, {})}
Encodings(a, i) ==
  IF a.enc # "base64"
  THEN {Result(FALSE, {}, {})} \cup
       IF a.file = "gone" THEN {} ELSE {Result(TRUE, {}, {})}
  ELSE UNION {
    IF ~t.opened THEN {Result(FALSE, t.left, {})}
    ELSE {Result(FALSE, t.left, {<<"write", i>>}),   \* the file cannot be opened
          Result(FALSE, t.left, {})}                 \* nor the temporary one again
         \cup IF a.file = "gone" THEN {} ELSE {Result(TRUE, t.left, {})}
    : t \in TempOutcomes}

(* send_attachment; a null encoding would be a bad pointer.                *)
(* Mutant: one that fails is passed over.                                  *)
SendAttachmentOn(k, b, next) ==
  LET i == <<k, msgAt>>
  IN \E r \in Encodings(msgLists[k][msgAt], i) :
       /\ msgTemps' = msgTemps \cup r.temps
       /\ msgOpen' = msgOpen \cup r.open
       /\ Writes(IF r.ok THEN <<Part(b), Content(i)>> ELSE << >>)
       /\ Goes(next, msgAt + 1) /\ KeepsLists /\ UNCHANGED <<msgIn, msgLost>>
SendAttachment(k, b, next) ==
  LET i == <<k, msgAt>>
      a == msgLists[k][msgAt]
  IN \E r \in Encodings(a, i) :
       /\ msgTemps' = msgTemps \cup r.temps
       /\ msgOpen' = msgOpen \cup r.open
       /\ IF r.ok THEN Writes(<<Part(b), Content(i)>>) /\ Goes(next, msgAt + 1)
                  ELSE Writes(<< >>) /\ Fails
       /\ KeepsLists /\ UNCHANGED <<msgIn, msgLost>>

(* encode2base64andwrite2socket, whose result nobody looks at: a step that *)
(* fails leaves what the steps before it have made.                        *)
OnelineEncodings(i) ==
  UNION {
    IF ~t.opened THEN {Result(FALSE, t.left, {})}
    ELSE IF ~u.opened THEN {Result(FALSE, t.left \cup u.left \cup {<<"one", i>>}, {})}
    ELSE LET left == t.left \cup u.left
             both == left \cup {<<"one", i>>, <<"two", i>>}
         IN {Result(FALSE, both, {<<"write", i>>}),  \* no reading of the first
             Result(FALSE, both, {}),                \* nor of the second
             Result(TRUE, left, {})}
    : t \in TempOutcomes, u \in TempOutcomes}

-----------------------------------------------------------------------------
(* The parts, in the order in which smtpMail writes them.                  *)

(* process_oneline_messages.                                               *)
Oneline ==
  /\ msgPc = "onelines" /\ msgAt <= Len(msgLists["M"])
  /\ LET i == <<"M", msgAt>>
         a == msgLists["M"][msgAt]
     IN \E r \in IF a.enc = "base64" THEN OnelineEncodings(i)
                                     ELSE {Result(TRUE, {}, {})} :
          /\ Writes(IF r.ok THEN <<Part("main"), Content(i)>> ELSE <<Part("main")>>)
          /\ msgTemps' = msgTemps \cup r.temps /\ msgOpen' = msgOpen \cup r.open
          /\ msgLost' = IF r.ok THEN msgLost ELSE msgLost \cup {i}
  /\ Goes("onelines", msgAt + 1) /\ KeepsLists /\ UNCHANGED msgIn

(* process_embeded_images: the boundary of the images.                     *)
Mixed == Has("attach") \/ Has("M")
ImageBoundary == IF Mixed THEN "related" ELSE "main"

EmbedHead ==
  /\ msgPc = "onelines" /\ msgAt > Len(msgLists["M"])
  /\ IF ~Has("embed") THEN Goes("attachments", 1) /\ Writes(<< >>)
     ELSE /\ Goes("images", 1)
          /\ Writes(<<Part("main")>> \o
               IF Mixed THEN <<Multipart("related"), Multipart("alternative"),
                               Part("related"), Html, End("related")>>
               ELSE <<Multipart("alternative"), Part("alternative"), Html,
                      End("alternative")>>)
  /\ KeepsLists /\ KeepsFiles /\ UNCHANGED msgIn

EmbedImage ==
  /\ msgPc = "images" /\ msgAt <= Len(msgLists["embed"])
  /\ SendAttachment("embed", ImageBoundary, "images")

EmbedEnd ==
  /\ msgPc = "images" /\ msgAt > Len(msgLists["embed"])
  /\ Writes(<<End(ImageBoundary)>>) /\ Goes("attachments", 1)
  /\ KeepsLists /\ KeepsFiles /\ UNCHANGED msgIn

(* process_attachments.                                                    *)
Attach ==
  /\ msgPc = "attachments" /\ msgAt <= Len(msgLists["attach"])
  /\ SendAttachment("attach", "main", "attachments")

(* The last line of process_attachments, or print_end_boundary.            *)
(* Mutant: there is none where there are no attachments.                   *)
EndBoundaryNone ==
  /\ msgPc = "attachments" /\ msgAt > Len(msgLists["attach"])
  /\ Writes(IF Has("attach") THEN <<End("main")>> ELSE << >>) /\ Goes("done", 1)
  /\ KeepsLists /\ KeepsFiles /\ UNCHANGED msgIn
EndBoundary ==
  /\ msgPc = "attachments" /\ msgAt > Len(msgLists["attach"])
  /\ Writes(<<End("main")>>) /\ Goes("done", 1)
  /\ KeepsLists /\ KeepsFiles /\ UNCHANGED msgIn

MsgNext == ReadOption \/ Headers \/ Body \/ InputLine \/ Oneline \/ EmbedHead
           \/ EmbedImage \/ EmbedEnd \/ Attach \/ EndBoundary
MsgSpec == MsgInit /\ [][MsgNext]_msgVars

-----------------------------------------------------------------------------
(* Properties.                                                             *)

(* The items of the message, and their order: first the one-line messages, *)
(* then the images, then the attachments, each as the options gave them.   *)
Rank == [M |-> 1, embed |-> 2, attach |-> 3]
Items == UNION {{<<k, i>> : i \in DOMAIN msgLists[k]} : k \in DOMAIN Rank}
Before(i, j) == Rank[i[1]] < Rank[j[1]] \/ (i[1] = j[1] /\ i[2] < j[2])
Encoded == {i \in Items : i[1] = "M" /\ msgLists["M"][i[2]].enc = "base64"}

Contents   == {k \in DOMAIN msgOut : msgOut[k].kind = "content"}
Succeeded  == msgPc = "done" /\ msgRc = 0

MsgTypeOK ==
  /\ msgPc \in {"options", "body", "input", "onelines", "images", "attachments",
                "done", "exit"}
  /\ msgRc \in {-1, 0, 1}
  /\ \E k \in OptionKinds : msgAt \in 1 .. 1 + Len(msgLists[k])
  /\ \A k \in OptionKinds : \A i \in DOMAIN msgLists[k] :
       k # "body" => msgLists[k][i].enc # Null /\ msgLists[k][i].mime # Null

(* A mail for which smtpMail returns 0 holds every one-line message, image *)
(* and attachment of the lists, once and in order (smtp.c:1240-1257); what *)
(* is missing are one-line messages in base64, whose encoding nobody looks *)
(* at.                                                                     *)
Reported == Succeeded /\ IsMime /\ ~Has("body")
MessageIsComplete ==
  Reported =>
    /\ msgLost \subseteq Encoded
    /\ {msgOut[k].of : k \in Contents} = Items \ msgLost
    /\ \A j, k \in Contents : j < k => Before(msgOut[j].of, msgOut[k].of)

(* A part stands in a multipart that was announced and is not closed, and  *)
(* every multipart of a finished message is closed (smtp.c:907-1063).      *)
PartsInside ==
  \A k \in DOMAIN msgOut :
    /\ msgOut[k].kind = "part" =>
         /\ \E j \in 1 .. k : msgOut[j] = Multipart(msgOut[k].of)
         /\ ~\E j \in 1 .. k : msgOut[j] = End(msgOut[k].of)
    /\ msgOut[k].kind = "multipart" =>
         \E j \in k .. Len(msgOut) : msgOut[j] = End(msgOut[k].of)

(* So it is where images and other parts do not come together: where they  *)
(* do, the related multipart is closed before the images are written.      *)
MultipartsClose == Succeeded /\ ~(Has("embed") /\ Mixed) => PartsInside

(* What smtpMail leaves behind, whichever step failed, are files that no   *)
(* FILE was made for and those of lost one-line messages; and where no     *)
(* step failed, every FILE is closed (smtp.c:441-513, 682-763).            *)
OnlyFailuresLeak ==
  msgPc \in {"done", "exit"} =>
    /\ \A t \in msgTemps : t[1] = "unopened" \/ t[2] \in msgLost
    /\ Succeeded /\ msgLost = {} => msgOpen = {}

(* "The caller is responsible to close the FILE pointer and remove the     *)
(* file" (mutils_temp.c:100): of the files that a FILE was made for none   *)
(* is left, and every FILE is closed.                                      *)
TempsAreRemoved ==
  msgPc \in {"done", "exit"} => msgOpen = {} /\ \A t \in msgTemps : t[1] = "unopened"
=============================================================================
