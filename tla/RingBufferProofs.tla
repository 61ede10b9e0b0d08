-------------------------- MODULE RingBufferProofs --------------------------
(***************************************************************************)
(* Proofs about RingBuffer, for every capacity, every set of bytes and     *)
(* either context as the interrupt handler.                                *)
(***************************************************************************)
EXTENDS RingBuffer, TLAPS

(* The inductive invariant.  Beside the types it says what each call in    *)
(* progress relies on: the test it made, the slot it works on, and the     *)
(* byte that is already in that slot.                                      *)
AddInv ==
  /\ addPc # "idle" => addCh \in Chars
  /\ addPc \in {"set", "publish"} => ~IsFull
  /\ addPc = "publish" => cyclBuf[cycl_end] = addCh
  /\ addPc = "late" => cycl_end = Increase(addAt) /\ ~IsEmpty /\ ~PublishLast

GetInv ==
  /\ getPc \in {"get", "release"} => ~IsEmpty
  /\ getPc = "release" => getCh = cyclBuf[cycl_start]
  /\ getPc = "late" => cycl_start = Increase(getAt)
  /\ getPc \in {"get", "release"} /\ addPc = "late" => addAt # cycl_start

RingInv == RingTypeOK /\ AddInv /\ GetInv

-----------------------------------------------------------------------------
(* RingInv holds initially and every step preserves it.                    *)
LEMMA Inductive == RingSpec => []RingInv
<1> USE CapAssumption, IsrAssumption DEF Slots
<1>1. RingInit => RingInv
  BY DEF RingInit, RingInv, RingTypeOK, AddInv, GetInv
<1>2. RingInv /\ [RingNext]_ringVars => RingInv'
  <2> SUFFICES ASSUME RingInv, [RingNext]_ringVars PROVE RingInv'
    OBVIOUS
  <2> USE DEF RingInv, RingTypeOK, AddInv, GetInv, IsFull, IsEmpty, Increase,
              AddMayRun, GetMayRun, slotVars, addVars, getVars
  <2>1. ASSUME NEW c \in Chars, AddBegin(c) PROVE RingInv'
    BY <2>1 DEF AddBegin
  <2>2. CASE AddStore
    BY <2>2 DEF AddStore
  <2>3. CASE AddPublish
    BY <2>3 DEF AddPublish
  <2>4. CASE AddPublishFirst
    BY <2>4 DEF AddPublishFirst
  <2>5. CASE AddLateStore
    BY <2>5 DEF AddLateStore
  <2>6. CASE GetEmpty
    BY <2>6 DEF GetEmpty
  <2>7. CASE GetBegin
    BY <2>7 DEF GetBegin
  <2>8. CASE GetRead
    BY <2>8 DEF GetRead
  <2>9. CASE GetRelease
    BY <2>9 DEF GetRelease
  <2>10. CASE GetReleaseFirst
    BY <2>10 DEF GetReleaseFirst
  <2>11. CASE GetLateRead
    BY <2>11 DEF GetLateRead
  <2>12. CASE UNCHANGED ringVars
    BY <2>12 DEF ringVars
  <2>13. QED
    BY <2>1, <2>2, <2>3, <2>4, <2>5, <2>6, <2>7, <2>8, <2>9, <2>10, <2>11,
       <2>12 DEF RingNext, Add, AddFinish, Get
<1>3. QED
  BY <1>1, <1>2, PTL DEF RingSpec

(* The indices stay inside the buffer and the calls in their places.       *)
THEOREM TypeCorrect == RingSpec => []RingTypeOK
BY Inductive, PTL DEF RingInv

(* No interrupt invalidates the full or empty test of the call it breaks   *)
(* into (bufferstack.cpp:23-26, 33-36).                                    *)
THEOREM TestsValid == RingSpec => []TestsStayValid
<1>1. RingInv => TestsStayValid
  BY DEF RingInv, AddInv, GetInv, TestsStayValid
<1>2. QED
  BY <1>1, Inductive, PTL

(* The slot a get has freed before reading it is not given to an add: one  *)
(* slot always stays free (bufferstack.cpp:13, 15).                        *)
THEOREM FreedSlotSafe == RingSpec => []FreedSlotUntouched
<1>1. RingInv => FreedSlotUntouched
  BY CapAssumption DEF RingInv, AddInv, GetInv, RingTypeOK, FreedSlotUntouched,
       IsFull, IsEmpty, Increase, Slots
<1>2. QED
  BY <1>1, Inductive, PTL

-----------------------------------------------------------------------------
(* Refinement of the FIFO.  The lemmas say how RingBytes moves when an      *)
(* index does; the theorem then maps each step.                            *)

LEMMA CountFacts ==
  ASSUME RingInv
  PROVE  /\ Count \in 0 .. Cap - 1
         /\ IsEmpty <=> Count = 0
         /\ IsFull <=> Count = Cap - 1
         /\ \A i \in 1 .. Count : SlotOf(i) \in Slots /\ SlotOf(i) # cycl_end
         /\ ~IsFull => SlotOf(Count + 1) = cycl_end
BY CapAssumption DEF RingInv, RingTypeOK, Slots, Count, IsEmpty, IsFull, Increase, SlotOf

LEMMA SlotsDistinct ==
  ASSUME RingInv, NEW i \in 1 .. Count, NEW j \in 1 .. Count, SlotOf(i) = SlotOf(j)
  PROVE  i = j
BY CapAssumption DEF RingInv, RingTypeOK, Slots, Count, SlotOf

LEMMA ContentsIsSeq ==
  ASSUME RingInv
  PROVE  /\ RingBytes \in Seq(Int)
         /\ Len(RingBytes) = Count
<1>1. \A i \in 1 .. Count : RingBytes[i] \in Int
  BY CountFacts, CapAssumption DEF RingInv, RingTypeOK, RingBytes
<1>2. Count \in Nat
  BY CountFacts, CapAssumption
<1>3. QED
  BY <1>1, <1>2 DEF RingBytes

(* Moving cycl_end over a free slot appends the byte that goes there.      *)
LEMMA AddAppends ==
  ASSUME RingInv, RingInv', NEW c \in Int, ~IsFull,
         cycl_start' = cycl_start, cycl_end' = Increase(cycl_end),
         addPc # "late",
         cyclBuf' = cyclBuf,
         \/ addPc' # "late" /\ cyclBuf[cycl_end] = c
         \/ addPc' = "late" /\ addAt' = cycl_end /\ addCh' = c
  PROVE  RingBytes' = Append(RingBytes, c)
<1>1. /\ Count' = Count + 1
      /\ \A i \in Int : SlotOf(i)' = SlotOf(i)
  BY CapAssumption DEF RingInv, RingTypeOK, Slots, Count, IsFull, Increase, SlotOf
<1>2. ASSUME NEW i \in 1 .. Count PROVE RingBytes'[i] = RingBytes[i]
  BY <1>1, <1>2, CountFacts DEF RingBytes
<1>3. RingBytes'[Count + 1] = c
  BY <1>1, CountFacts, CapAssumption DEF RingBytes
<1>4. RingBytes' \in Seq(Int) /\ Len(RingBytes') = Count + 1
  <2>1. \A i \in 1 .. Count + 1 : RingBytes'[i] \in Int
    BY <1>2, <1>3, ContentsIsSeq, CountFacts, CapAssumption
  <2>2. RingBytes' = [i \in 1 .. Count + 1 |-> RingBytes'[i]]
    BY <1>1 DEF RingBytes
  <2>3. QED
    BY <2>1, <2>2, CountFacts, CapAssumption
<1>5. QED
  BY <1>2, <1>3, <1>4, ContentsIsSeq, CountFacts, CapAssumption

(* Moving cycl_start drops the oldest byte, which lay in its slot.         *)
LEMMA GetDropsHead ==
  ASSUME RingInv, RingInv', ~IsEmpty, addPc # "late", addPc' = addPc,
         cycl_start' = Increase(cycl_start), cycl_end' = cycl_end,
         cyclBuf' = cyclBuf
  PROVE  /\ RingBytes # <<>>
         /\ Head(RingBytes) = cyclBuf[cycl_start]
         /\ RingBytes' = Tail(RingBytes)
<1>1. /\ Count' = Count - 1 /\ Count > 0
      /\ SlotOf(1) = cycl_start
      /\ \A i \in 1 .. Count - 1 : SlotOf(i)' = SlotOf(i + 1)
  BY CapAssumption DEF RingInv, RingTypeOK, Slots, Count, IsEmpty, Increase, SlotOf
<1>2. RingBytes # <<>> /\ Head(RingBytes) = cyclBuf[cycl_start]
  BY <1>1, ContentsIsSeq, CountFacts, CapAssumption DEF RingBytes
<1>3. ASSUME NEW i \in 1 .. Count - 1 PROVE RingBytes'[i] = RingBytes[i + 1]
  BY <1>1, <1>3, CountFacts, CapAssumption DEF RingBytes
<1>4. RingBytes' \in Seq(Int) /\ Len(RingBytes') = Count - 1
  <2>1. \A i \in 1 .. Count - 1 : RingBytes'[i] \in Int
    <3> TAKE i \in 1 .. Count - 1
    <3>1. i + 1 \in 1 .. Count
      BY CountFacts, CapAssumption
    <3>2. RingBytes[i + 1] \in Int
      BY <3>1, ContentsIsSeq
    <3> QED
      BY <1>3, <3>2
  <2>2. RingBytes' = [i \in 1 .. Count - 1 |-> RingBytes'[i]]
    BY <1>1 DEF RingBytes
  <2>3. QED
    BY <2>1, <2>2, <1>1, CountFacts, CapAssumption
<1>5. RingBytes' = Tail(RingBytes)
  <2>1. RingBytes \in Seq(Int) /\ Len(RingBytes) = Count /\ Count \in Nat
    BY ContentsIsSeq, CountFacts, CapAssumption
  <2>2. /\ Tail(RingBytes) \in Seq(Int) /\ Len(Tail(RingBytes)) = Count - 1
        /\ \A i \in 1 .. Count - 1 : Tail(RingBytes)[i] = RingBytes[i + 1]
    BY <1>1, <1>2, <2>1
  <2> QED
    BY <1>3, <1>4, <2>2
<1>6. QED
  BY <1>2, <1>5

(* Filling a slot outside of the contents changes none of them.            *)
LEMMA StoreKeepsContents ==
  ASSUME RingInv, RingInv', UNCHANGED <<cycl_start, cycl_end>>,
         NEW k \in Slots, NEW c \in Int,
         cyclBuf' = [cyclBuf EXCEPT ![k] = c],
         \/ k = cycl_end /\ addPc # "late" /\ addPc' # "late"
         \/ addPc = "late" /\ addPc' # "late" /\ k = addAt /\ c = addCh
  PROVE  RingBytes' = RingBytes
<1>1. Count' = Count /\ \A i \in Int : SlotOf(i)' = SlotOf(i)
  BY DEF Count, SlotOf
<1>2. ASSUME NEW i \in 1 .. Count PROVE RingBytes'[i] = RingBytes[i]
  BY <1>1, <1>2, CountFacts, CapAssumption DEF RingBytes, RingInv, RingTypeOK
<1>3. RingBytes = [i \in 1 .. Count |-> RingBytes[i]]
  BY DEF RingBytes
<1>4. RingBytes' = [i \in 1 .. Count |-> RingBytes'[i]]
  BY <1>1 DEF RingBytes
<1>5. QED
  BY <1>2, <1>3, <1>4

(* Every step of the buffer is a step of the FIFO or leaves it alone, so   *)
(* cyclAdd and cyclGet implement a bounded FIFO of Cap - 1 bytes, whatever *)
(* the interrupts do (bufferstack.cpp:21-39).                              *)
THEOREM RingBufferIsQueue == RingSpec => ImplementsQueue
<1> USE CapAssumption, IsrAssumption
<1>1. RingInit => Queue!Init
  BY DEF RingInit, Queue!Init, RingBytes, InHand, Count
<1>2. RingInv /\ RingInv' /\ [RingNext]_ringVars => [Queue!Next]_(Queue!vars)
  <2> SUFFICES ASSUME RingInv, RingInv', [RingNext]_ringVars
               PROVE  [Queue!Next]_(Queue!vars)
    OBVIOUS
  <2> USE DEF slotVars, addVars, getVars
  <2> DEFINE Stutter == RingBytes' = RingBytes /\ InHand' = InHand /\ ret' = ret
  <2>0. Stutter => [Queue!Next]_(Queue!vars)
    BY DEF Queue!vars
  <2>a. ASSUME UNCHANGED <<cyclBuf, cycl_start, cycl_end, addAt, addCh, addPc>>
        PROVE  RingBytes' = RingBytes
    BY <2>a DEF RingBytes, Count, SlotOf
  <2>b. ASSUME UNCHANGED <<cyclBuf, cycl_start, cycl_end>>,
               addPc # "late", addPc' # "late"
        PROVE  RingBytes' = RingBytes
    BY <2>b DEF RingBytes, Count, SlotOf
  <2>1. ASSUME NEW c \in Chars, AddBegin(c) PROVE [Queue!Next]_(Queue!vars)
    BY <2>1, <2>b, <2>0 DEF AddBegin, InHand
  <2>2. CASE AddStore
    <3>1. RingBytes' = RingBytes
      BY <2>2, StoreKeepsContents DEF AddStore, RingInv, RingTypeOK
    <3>2. InHand' = InHand
      BY <2>2 DEF AddStore, InHand, RingInv, RingTypeOK, AddInv, GetInv, IsFull,
                  Increase, Slots
    <3>3. QED
      BY <3>1, <3>2, <2>0, <2>2 DEF AddStore
  <2>3. CASE AddPublish
    <3>1. ~IsFull /\ addCh \in Chars /\ cyclBuf[cycl_end] = addCh
      BY <2>3 DEF AddPublish, RingInv, AddInv
    <3>2. RingBytes' = Append(RingBytes, addCh)
      BY <2>3, <3>1, AddAppends DEF AddPublish
    <3>3. UNCHANGED <<InHand, ret>>
      BY <2>3 DEF AddPublish, InHand
    <3>4. Queue!Put(addCh)
      BY <3>1, <3>2, <3>3, ContentsIsSeq, CountFacts DEF Queue!Put
    <3>5. QED
      BY <3>1, <3>4 DEF Queue!Next
  <2>4. CASE AddPublishFirst
    <3>1. ~IsFull /\ addCh \in Chars
      BY <2>4 DEF AddPublishFirst, RingInv, AddInv
    <3>2. RingBytes' = Append(RingBytes, addCh)
      BY <2>4, <3>1, AddAppends DEF AddPublishFirst
    <3>3. UNCHANGED <<InHand, ret>>
      BY <2>4 DEF AddPublishFirst, InHand
    <3>4. Queue!Put(addCh)
      BY <3>1, <3>2, <3>3, ContentsIsSeq, CountFacts DEF Queue!Put
    <3>5. QED
      BY <3>1, <3>4 DEF Queue!Next
  <2>5. CASE AddLateStore
    <3>1. RingBytes' = RingBytes
      BY <2>5, StoreKeepsContents DEF AddLateStore, RingInv, RingTypeOK, AddInv
    <3>2. InHand' = InHand
      BY <2>5 DEF AddLateStore, InHand, RingInv, RingTypeOK, AddInv, GetInv, IsEmpty,
                  Increase, Slots
    <3>3. QED
      BY <3>1, <3>2, <2>0, <2>5 DEF AddLateStore
  <2>6. CASE GetEmpty
    <3>1. RingBytes = <<>> /\ InHand = <<>>
      BY <2>6, CountFacts, ContentsIsSeq DEF GetEmpty, InHand
    <3>2. UNCHANGED <<RingBytes, InHand>> /\ ret' = 0
      BY <2>6, <2>a DEF GetEmpty, InHand
    <3>3. QED
      BY <3>1, <3>2 DEF Queue!Next, Queue!AnswerEmpty
  <2>7. CASE GetBegin
    BY <2>7, <2>a, <2>0 DEF GetBegin, InHand
  <2>8. CASE GetRead
    BY <2>8, <2>a, <2>0 DEF GetRead, InHand
  <2>9. CASE GetRelease
    <3>1. ~IsEmpty /\ getCh = cyclBuf[cycl_start] /\ addPc # "late"
      BY <2>9 DEF GetRelease, GetMayRun, RingInv, GetInv, AddInv
    <3>2. /\ RingBytes # <<>> /\ Head(RingBytes) = getCh
          /\ RingBytes' = Tail(RingBytes)
      BY <2>9, <3>1, GetDropsHead DEF GetRelease
    <3>3. InHand = <<>> /\ InHand' = <<>> /\ ret' = getCh
      BY <2>9 DEF GetRelease, InHand
    <3>4. QED
      BY <3>2, <3>3 DEF Queue!Next, Queue!TakeAndAnswer
  <2>10. CASE GetReleaseFirst
    <3>1. ~IsEmpty /\ addPc # "late"
      BY <2>10 DEF GetReleaseFirst, GetMayRun, RingInv, GetInv, AddInv
    <3>2. /\ RingBytes # <<>> /\ Head(RingBytes) = cyclBuf[cycl_start]
          /\ RingBytes' = Tail(RingBytes)
      BY <2>10, <3>1, GetDropsHead DEF GetReleaseFirst
    <3>3. InHand = <<>> /\ InHand' = <<cyclBuf[cycl_start]>> /\ ret' = ret
      BY <2>10 DEF GetReleaseFirst, InHand
    <3>4. QED
      BY <3>2, <3>3 DEF Queue!Next, Queue!Take
  <2>11. CASE GetLateRead
    <3>1. InHand = <<cyclBuf[getAt]>> /\ InHand' = <<>> /\ ret' = cyclBuf[getAt]
      BY <2>11 DEF GetLateRead, InHand
    <3>2. RingBytes' = RingBytes
      BY <2>11, <2>a DEF GetLateRead
    <3>3. QED
      BY <3>1, <3>2 DEF Queue!Next, Queue!Answer
  <2>12. CASE UNCHANGED ringVars
    BY <2>12, <2>a, <2>0 DEF ringVars, InHand
  <2>13. QED
    BY <2>1, <2>2, <2>3, <2>4, <2>5, <2>6, <2>7, <2>8, <2>9, <2>10, <2>11,
       <2>12 DEF RingNext, Add, AddFinish, Get
<1>3. QED
  BY <1>1, <1>2, Inductive, PTL DEF RingSpec, Queue!Spec, ImplementsQueue
=============================================================================
