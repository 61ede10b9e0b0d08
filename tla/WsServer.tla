------------------------------ MODULE WsServer ------------------------------
(***************************************************************************)
(* The WebSocket server (main.cpp): the accept loop, which reads each      *)
(* handshake itself, and a thread per client, accepted_func, which answers *)
(* every read with a window of the heart data.  The threads share the      *)
(* offset of that window without a lock.                                   *)
(*                                                                         *)
(* Offsets are counted in steps of five bytes: the limit is 780, the       *)
(* window 20 and the data 800 of them; a load stands for five.             *)
(***************************************************************************)
EXTENDS Integers

Listening == "nobody"
CONSTANTS
  WsClients,
  WsLimit, WsWindow, WsRoom,   \* 3900, 100 and 4000 bytes
  WsMost                       \* bound: the offset grows no further

ASSUME WsAssumption ==
  /\ Listening \notin WsClients
  /\ WsLimit \in Nat /\ WsWindow \in Nat /\ WsRoom \in Nat /\ WsMost \in Nat
  /\ WsLimit + WsWindow <= WsRoom

VARIABLES
  wsMain,   \* the client whose handshake main reads, or Listening
  wsPc,     \* where the thread of a client, or its connection, is
  wsPeer,   \* what the client has done to its end
  wsOff,    \* heart_test_data_off
  wsReg,    \* the offset that a thread has loaded to add to it
  wsNth,    \* how much of its window a thread has read
  wsStray,  \* handle_buf points elsewhere than to the heart data
  wsUp      \* FALSE once a SIGPIPE or a bad address has ended the process

wsVars == <<wsMain, wsPc, wsPeer, wsOff, wsReg, wsNth, wsStray, wsUp>>
WsInit ==
  /\ wsMain = Listening /\ wsPc = [c \in WsClients |-> "away"]
  /\ wsPeer = [c \in WsClients |-> "open"] /\ wsOff = 0
  /\ wsReg = [c \in WsClients |-> 0] /\ wsNth = [c \in WsClients |-> 0]
  /\ wsStray = FALSE /\ wsUp = TRUE

WsAt(c, pc) == wsUp /\ wsPc[c] = pc
WsGoes(c, pc) == wsPc' = [wsPc EXCEPT ![c] = pc]
WsKeepsData == UNCHANGED <<wsOff, wsReg, wsNth, wsStray>>

-----------------------------------------------------------------------------
(* The client: it connects, and closes its end or resets the connection.   *)

WsConnect(c) ==
  /\ WsAt(c, "away") /\ WsGoes(c, "queued")
  /\ UNCHANGED <<wsMain, wsPeer, wsUp>> /\ WsKeepsData
WsLeave(c) ==
  /\ wsUp /\ wsPc[c] # "away" /\ wsPeer[c] = "open"
  /\ \E how \in {"closed", "reset"} : wsPeer' = [wsPeer EXCEPT ![c] = how]
  /\ UNCHANGED <<wsMain, wsPc, wsUp>> /\ WsKeepsData

-----------------------------------------------------------------------------
(* main: accept, and a read that waits for this client whoever else comes. *)

WsAccept(c) ==
  /\ wsMain = Listening /\ WsAt(c, "queued") /\ wsMain' = c /\ WsGoes(c, "shakes")
  /\ UNCHANGED <<wsPeer, wsUp>> /\ WsKeepsData

(* A first write to a client that has closed its end is answered with a    *)
(* reset; after a reset, a write takes the error and the one that follows  *)
(* is a SIGPIPE, which nobody handles, unless the reset is still on its    *)
(* way.                                                                    *)
Written(c) ==
  /\ wsPeer' = [wsPeer EXCEPT ![c] = IF @ = "open" THEN @ ELSE "refuses"]
  /\ wsUp' \in IF wsPeer[c] = "refuses" THEN BOOLEAN ELSE {TRUE}

(* What is read is answered if it holds a key.  The flag "connected" of a  *)
(* new websocket_connect_d has no initial value: if it is not 0, or if     *)
(* there is no thread to be had, nobody serves or closes the connection.   *)
WsShake(c) ==
  /\ WsAt(c, "shakes") /\ wsMain = c /\ wsMain' = Listening
  /\ \E pc \in {"begin", "forgotten"} : WsGoes(c, pc)
  /\ \E keyed \in BOOLEAN : IF keyed THEN Written(c) ELSE UNCHANGED <<wsPeer, wsUp>>
  /\ WsKeepsData

-----------------------------------------------------------------------------
(* accepted_func.                                                          *)

(* handle_buf, which all threads share, is set to what create_heart_data   *)
(* returns.  That function has no return: it may run on into other code,   *)
(* or come back with any address, the right one by luck.                   *)
WsBegin(c) ==
  /\ WsAt(c, "begin") /\ WsGoes(c, "read")
  /\ wsStray' \in BOOLEAN /\ wsUp' \in BOOLEAN
  /\ UNCHANGED <<wsMain, wsPeer, wsOff, wsReg, wsNth>>

(* read: an error ends the thread; the end of the connection reads as no   *)
(* bytes, and is answered like a message.                                  *)
WsRead(c) ==
  /\ WsAt(c, "read") /\ WsGoes(c, IF wsPeer[c] = "reset" THEN "ended" ELSE "fill")
  /\ wsNth' = [wsNth EXCEPT ![c] = 0]
  /\ UNCHANGED <<wsMain, wsPeer, wsOff, wsReg, wsStray, wsUp>>

(* The window is written out, and for each load the offset is looked up    *)
(* again; a load outside the data may end the process.                     *)
WsFill(c) ==
  /\ WsAt(c, "fill") /\ wsNth[c] < WsWindow
  /\ wsNth' = [wsNth EXCEPT ![c] = @ + 1]
  /\ wsUp' \in IF wsStray \/ wsOff + wsNth[c] >= WsRoom THEN BOOLEAN ELSE {TRUE}
  /\ UNCHANGED <<wsMain, wsPc, wsPeer, wsOff, wsReg, wsStray>>

(* Then the offset is loaded, stored and compared, each in a step.         *)
WsLoad(c) ==
  /\ WsAt(c, "fill") /\ wsNth[c] = WsWindow /\ WsGoes(c, "store") /\ wsOff < WsMost
  /\ wsReg' = [wsReg EXCEPT ![c] = wsOff]
  /\ UNCHANGED <<wsMain, wsPeer, wsOff, wsNth, wsStray, wsUp>>
WsStore(c) ==
  /\ WsAt(c, "store") /\ WsGoes(c, "check") /\ wsOff' = wsReg[c] + 1
  /\ UNCHANGED <<wsMain, wsPeer, wsReg, wsNth, wsStray, wsUp>>
(* Mutant: only the limit itself counts.                                   *)
PastLimitIs(off) == off = WsLimit
PastLimit(off) == off >= WsLimit
WsCheck(c) ==
  /\ WsAt(c, "check") /\ WsGoes(c, IF PastLimit(wsOff) THEN "reset" ELSE "reply")
  /\ UNCHANGED <<wsMain, wsPeer, wsUp>> /\ WsKeepsData
WsReset(c) ==
  /\ WsAt(c, "reset") /\ WsGoes(c, "reply") /\ wsOff' = 0
  /\ UNCHANGED <<wsMain, wsPeer, wsReg, wsNth, wsStray, wsUp>>

(* response, which tests its pointer "data" before it has a value, and may *)
(* therefore return at once.                                               *)
WsReply(c) ==
  /\ WsAt(c, "reply") /\ WsGoes(c, "read")
  /\ Written(c) \/ UNCHANGED <<wsPeer, wsUp>>
  /\ UNCHANGED wsMain /\ WsKeepsData

WsNext ==
  \E c \in WsClients :
    \/ WsConnect(c) \/ WsLeave(c) \/ WsAccept(c) \/ WsShake(c)
    \/ WsBegin(c) \/ WsRead(c) \/ WsFill(c) \/ WsLoad(c) \/ WsStore(c)
    \/ WsCheck(c) \/ WsReset(c) \/ WsReply(c)
WsSpec == WsInit /\ [][WsNext]_wsVars

-----------------------------------------------------------------------------
(* Properties.                                                             *)

WsTypeOK ==
  /\ wsMain \in WsClients \cup {Listening}
  /\ wsPc \in [WsClients -> {"away", "queued", "shakes", "forgotten", "begin", "read",
                             "fill", "store", "check", "reset", "reply", "ended"}]
  /\ wsPeer \in [WsClients -> {"open", "closed", "reset", "refuses"}]
  /\ wsOff \in Nat /\ wsReg \in [WsClients -> Nat] /\ wsNth \in [WsClients -> 0 .. WsWindow]
  /\ wsStray \in BOOLEAN /\ wsUp \in BOOLEAN

(* A thread that fills its reply while no other is between its load of the *)
(* offset and its check reads at an offset within the data, whatever the   *)
(* others have left in the offset before (main.cpp:536-541); from which    *)
(* address on, depends on handle_buf.  While another is there the offset   *)
(* may be anything: two of them can push it up without end.                *)
LoneReaderInside ==
  \A c \in WsClients :
    (/\ wsPc[c] = "fill" /\ wsNth[c] < WsWindow
     /\ \A d \in WsClients \ {c} : wsPc[d] \notin {"store", "check", "reset"})
      => wsOff + wsNth[c] < WsRoom
=============================================================================
