------------------------------ MODULE ByteFile ------------------------------
(***************************************************************************)
(* What mutils_blob.c promises: bytes with a position, read and written    *)
(* from there on as a file is.                                             *)
(***************************************************************************)
EXTENDS Integers, Sequences

CONSTANTS FileBytes, NoFile   \* NoFile: there is none, or it has no data
VARIABLES contents, position, answer   \* answer: what the last read returned

Overlaid(s, at, bytes) ==
  SubSeq(s, 1, at) \o bytes \o SubSeq(s, at + Len(bytes) + 1, Len(s))

Closed == contents = NoFile /\ position = 0 /\ answer = << >>

Opens  == contents' # NoFile /\ position' = 0 /\ answer' = << >>
Closes == contents' = NoFile /\ position' = 0 /\ answer' = << >>
Reads ==
  /\ contents # NoFile /\ UNCHANGED contents
  /\ \E n \in 0 .. Len(contents) - position :
       /\ position' = position + n
       /\ answer' = SubSeq(contents, position + 1, position + n)
Rewinds == position' = 0 /\ answer' = << >> /\ UNCHANGED contents
Overlays ==
  /\ contents # NoFile /\ position' >= position /\ answer' = << >>
  /\ contents' # NoFile /\ Len(contents') >= position'
  /\ contents' = Overlaid(contents, position, SubSeq(contents', position + 1, position'))

FileNext == Opens \/ Closes \/ Reads \/ Rewinds \/ Overlays
FileSpec == Closed /\ [][FileNext]_<<contents, position, answer>>
=============================================================================
