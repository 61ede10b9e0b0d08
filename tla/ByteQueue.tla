----------------------------- MODULE ByteQueue -----------------------------
(***************************************************************************)
(* What the byte buffer of module/buffer promises its two users: a FIFO of *)
(* at most Capacity bytes, from which a get takes the oldest byte.  A get  *)
(* may take the byte out first (hand) and answer with it later, or do both *)
(* at once; on an empty queue it answers 0.  An add on a full queue is     *)
(* refused, which is a stuttering step here.                               *)
(***************************************************************************)
EXTENDS Integers, Sequences

CONSTANTS
  Capacity,  \* how many bytes the queue can hold
  Chars      \* the bytes that are added

VARIABLES
  queue,     \* the bytes added and not yet taken, oldest first
  hand,      \* <<>>, or the one byte a get has taken and not answered yet
  answer     \* what the last get that ended has answered

vars == <<queue, hand, answer>>

Init == queue = <<>> /\ hand = <<>> /\ answer = 0

Put(c) ==
  /\ Len(queue) < Capacity
  /\ queue' = Append(queue, c)
  /\ UNCHANGED <<hand, answer>>

Take ==
  /\ queue # <<>> /\ hand = <<>>
  /\ hand' = <<Head(queue)>>
  /\ queue' = Tail(queue)
  /\ UNCHANGED answer

Answer ==
  /\ hand # <<>>
  /\ answer' = Head(hand)
  /\ hand' = <<>>
  /\ UNCHANGED queue

TakeAndAnswer ==
  /\ queue # <<>> /\ hand = <<>>
  /\ answer' = Head(queue)
  /\ queue' = Tail(queue)
  /\ UNCHANGED hand

AnswerEmpty ==
  /\ queue = <<>> /\ hand = <<>>
  /\ answer' = 0
  /\ UNCHANGED <<queue, hand>>

Next ==
  \/ \E c \in Chars : Put(c)
  \/ Take \/ Answer \/ TakeAndAnswer \/ AnswerEmpty

Spec == Init /\ [][Next]_vars
=============================================================================
