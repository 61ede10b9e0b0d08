---------------------------- MODULE LineReader ----------------------------
(***************************************************************************)
(* What the serial console promises about the text of the device: it is    *)
(* handled line by line, in the order it came, nothing left out, nothing   *)
(* twice.  A program that stops forgets what it had not handled.           *)
(***************************************************************************)
EXTENDS Integers, Sequences

CONSTANTS
  Bytes,    \* what the device sends
  NewLine   \* the one that ends a line

VARIABLES
  inflight, \* received and not handled yet, oldest first
  line      \* the line handled last

vars == <<inflight, line>>

Texts == Seq(Bytes)

Init == inflight = << >> /\ line = << >>

Receive ==
  /\ \E more \in DOMAIN inflight' : SubSeq(inflight', 1, more - 1) = inflight
  /\ inflight' \in Texts
  /\ UNCHANGED line

HandleLine ==
  \E k \in DOMAIN inflight :
    /\ inflight[k] = NewLine
    /\ \A i \in 1 .. k - 1 : inflight[i] # NewLine
    /\ line' = SubSeq(inflight, 1, k)
    /\ inflight' = SubSeq(inflight, k + 1, Len(inflight))

Restart == inflight' = << >> /\ line' = << >>

Next == Receive \/ HandleLine \/ Restart

Spec == Init /\ [][Next]_vars
=============================================================================
