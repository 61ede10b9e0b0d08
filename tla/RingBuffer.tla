----------------------------- MODULE RingBuffer -----------------------------
(***************************************************************************)
(* The cyclic byte buffer of module/buffer/bufferstack.cpp, at the grain   *)
(* of its loads and stores.  One context adds bytes, another one gets      *)
(* them; one of the two is an interrupt handler that runs to completion    *)
(* whenever it pleases inside the other.  The code marks the place where   *)
(* interrupts would be disabled (IRQ_DIS, IRQ_EN), but both macros are     *)
(* empty and the full and empty tests stand outside them.                  *)
(*                                                                         *)
(* buf[e++] = a and val = buf[s++] leave open whether the index or the     *)
(* byte moves first, so both orders are steps; where the macros write two  *)
(* statements (the wrap-around branches) the order is the written one.     *)
(***************************************************************************)
EXTENDS Integers, Sequences

CONSTANTS
  Cap,          \* CYCL_MAX, the number of slots
  Chars,        \* the bytes that are added
  Isr,          \* "add" or "get": the context that is the interrupt handler
  PublishLast   \* TRUE: buf[e++] = a stores the byte before the index

ASSUME CapAssumption == Cap \in Nat \ {0} /\ Chars \subseteq Int

(* A get that interrupts an add between the index and the byte reads a     *)
(* slot that is not written yet; a build in which that happens is outside  *)
(* of what the code can promise.                                           *)
ASSUME IsrAssumption ==
  /\ Isr \in {"add", "get"}
  /\ PublishLast \in BOOLEAN
  /\ Isr = "get" => PublishLast

VARIABLES
  cyclBuf, cycl_start, cycl_end,
  addPc, addCh, addAt,   \* cyclAdd: its place, its byte, the slot it fills
  getPc, getCh, getAt,   \* cyclGet: its place, the byte read, its slot
  ret                    \* what the last cyclGet returned

slotVars == <<cyclBuf, cycl_start, cycl_end>>
addVars  == <<addPc, addCh, addAt>>
getVars  == <<getPc, getCh, getAt, ret>>
ringVars == <<slotVars, addVars, getVars>>

Slots == 0 .. Cap - 1

(* Mutant: the test for a full buffer is dropped.                          *)
NeverFull == FALSE

Increase(s) == IF s = Cap - 1 THEN 0 ELSE s + 1
IsFull  == cycl_start = Increase(cycl_end)
IsEmpty == cycl_start = cycl_end

RingInit ==
  /\ cyclBuf = [i \in Slots |-> 0]
  /\ cycl_start = 0 /\ cycl_end = 0
  /\ addPc = "idle" /\ addCh = 0 /\ addAt = 0
  /\ getPc = "idle" /\ getCh = 0 /\ getAt = 0
  /\ ret = 0

(* The interrupted context stands still until the handler has returned.    *)
AddMayRun == Isr = "get" => getPc = "idle"
GetMayRun == Isr = "add" => addPc = "idle"

-----------------------------------------------------------------------------
(* cyclAdd(ch): on a full buffer the byte is dropped and nothing changes.  *)

AddBegin(c) ==
  /\ addPc = "idle" /\ AddMayRun
  /\ ~IsFull
  /\ addPc' = "set" /\ addCh' = c
  /\ UNCHANGED <<slotVars, addAt, getVars>>

AddStore ==
  /\ addPc = "set" /\ AddMayRun
  /\ cyclBuf' = [cyclBuf EXCEPT ![cycl_end] = addCh]
  /\ addPc' = "publish"
  /\ UNCHANGED <<cycl_start, cycl_end, addCh, addAt, getVars>>

AddPublish ==
  /\ addPc = "publish" /\ AddMayRun
  /\ cycl_end' = Increase(cycl_end)
  /\ addPc' = "idle"
  /\ UNCHANGED <<cyclBuf, cycl_start, addCh, addAt, getVars>>

AddPublishFirst ==
  /\ addPc = "set" /\ AddMayRun
  /\ ~PublishLast /\ cycl_end # Cap - 1
  /\ addAt' = cycl_end
  /\ cycl_end' = Increase(cycl_end)
  /\ addPc' = "late"
  /\ UNCHANGED <<cyclBuf, cycl_start, addCh, getVars>>

AddLateStore ==
  /\ addPc = "late" /\ AddMayRun
  /\ cyclBuf' = [cyclBuf EXCEPT ![addAt] = addCh]
  /\ addPc' = "idle"
  /\ UNCHANGED <<cycl_start, cycl_end, addCh, addAt, getVars>>

-----------------------------------------------------------------------------
(* cyclGet(): returns the oldest byte, or 0 when the buffer is empty.      *)

GetEmpty ==
  /\ getPc = "idle" /\ GetMayRun
  /\ IsEmpty
  /\ ret' = 0
  /\ UNCHANGED <<slotVars, addVars, getPc, getCh, getAt>>

GetBegin ==
  /\ getPc = "idle" /\ GetMayRun
  /\ ~IsEmpty
  /\ getPc' = "get"
  /\ UNCHANGED <<slotVars, addVars, getCh, getAt, ret>>

GetRead ==
  /\ getPc = "get" /\ GetMayRun
  /\ cycl_start # Cap - 1
  /\ getCh' = cyclBuf[cycl_start]
  /\ getPc' = "release"
  /\ UNCHANGED <<slotVars, addVars, getAt, ret>>

(* Mutant: the byte is returned, but the slot not released.                *)
GetKeeps ==
  /\ getPc = "release" /\ GetMayRun
  /\ ret' = getCh
  /\ getPc' = "idle"
  /\ UNCHANGED <<slotVars, addVars, getCh, getAt>>

GetRelease ==
  /\ getPc = "release" /\ GetMayRun
  /\ cycl_start' = Increase(cycl_start)
  /\ ret' = getCh
  /\ getPc' = "idle"
  /\ UNCHANGED <<cyclBuf, cycl_end, addVars, getCh, getAt>>

(* The wrap-around branch sets s = 0 and reads the last slot afterwards.   *)
GetReleaseFirst ==
  /\ getPc = "get" /\ GetMayRun
  /\ getAt' = cycl_start
  /\ cycl_start' = Increase(cycl_start)
  /\ getPc' = "late"
  /\ UNCHANGED <<cyclBuf, cycl_end, addVars, getCh, ret>>

GetLateRead ==
  /\ getPc = "late" /\ GetMayRun
  /\ getCh' = cyclBuf[getAt]
  /\ ret' = cyclBuf[getAt]
  /\ getPc' = "idle"
  /\ UNCHANGED <<slotVars, addVars, getAt>>

-----------------------------------------------------------------------------
AddFinish == AddStore \/ AddPublish \/ AddPublishFirst \/ AddLateStore
Add == (\E c \in Chars : AddBegin(c)) \/ AddFinish
Get == GetEmpty \/ GetBegin \/ GetRead \/ GetRelease
         \/ GetReleaseFirst \/ GetLateRead

RingNext == Add \/ Get

RingSpec == RingInit /\ [][RingNext]_ringVars

(* A call of cyclAdd that began ends, the loop that consumes the bytes      *)
(* calls cyclGet again and again, and interrupts leave it room to run.     *)
RingFairness == WF_ringVars(AddFinish) /\ SF_ringVars(Get)

-----------------------------------------------------------------------------
(* How many bytes lie between the two indices, and the slot of the i-th.   *)
Count == IF cycl_end >= cycl_start THEN cycl_end - cycl_start
                                   ELSE cycl_end - cycl_start + Cap
SlotOf(i) == IF cycl_start + i - 1 < Cap THEN cycl_start + i - 1
                                         ELSE cycl_start + i - 1 - Cap

(* The bytes the buffer stands for.  An add that has moved the index but   *)
(* not stored its byte yet counts with the byte it is about to store.      *)
RingBytes ==
  [i \in 1 .. Count |-> IF addPc = "late" /\ SlotOf(i) = addAt
                        THEN addCh ELSE cyclBuf[SlotOf(i)]]

InHand == IF getPc = "late" THEN <<cyclBuf[getAt]>> ELSE <<>>

Queue == INSTANCE ByteQueue WITH
           Capacity <- Cap - 1, Chars <- Chars,
           queue <- RingBytes, hand <- InHand, answer <- ret

(* Type correctness of the indices, of the slots and of the two calls in   *)
(* progress (bufferstack.cpp:17-19, 21-39).                                *)
RingTypeOK ==
  /\ cyclBuf \in [Slots -> Int]
  /\ cycl_start \in Slots /\ cycl_end \in Slots
  /\ addPc \in {"idle", "set", "publish", "late"}
  /\ addCh \in Chars \cup {0} /\ addAt \in Slots
  /\ getPc \in {"idle", "get", "release", "late"}
  /\ getCh \in Int /\ getAt \in Slots /\ ret \in Int

(* CYCL_GET frees the slot before it reads it (bufferstack.cpp:13): no add *)
(* that interrupts the get there may be given that very slot.              *)
FreedSlotUntouched ==
  getPc = "late" =>
    /\ addPc \in {"set", "publish"} => cycl_end # getAt
    /\ addPc = "late" => addAt # getAt

(* A call in progress acts on the test it made before: the byte a get      *)
(* found is still there, the slot an add found is still free, although the *)
(* other side ran in between (bufferstack.cpp:23-26, 33-36).               *)
TestsStayValid ==
  /\ getPc \in {"get", "release"} => ~IsEmpty
  /\ addPc \in {"set", "publish"} => ~IsFull

(* The buffer is a FIFO: every answer of cyclGet is the oldest byte added  *)
(* and not taken, no byte is lost, repeated or made up, whatever the       *)
(* interrupts do and in whichever order index and byte move.               *)
ImplementsQueue == Queue!Spec

(* A byte that was accepted does not stay in the buffer for ever: the slot *)
(* at cycl_start is released again and again while it is non-empty.        *)
OldestIsTaken ==
  \A s \in Slots : (cycl_start = s /\ ~IsEmpty) ~> cycl_start # s
=============================================================================
