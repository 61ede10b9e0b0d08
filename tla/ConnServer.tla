----------------------------- MODULE ConnServer -----------------------------
(***************************************************************************)
(* The command server (socket_server.c) and its clients (socket_client.c). *)
(* The server starts a thread for each connection and hands it the address *)
(* of the variable into which the next accept() writes.  As they stand the *)
(* two do not meet: the client calls port 9001 (socket_client.c:17), the   *)
(* server listens on 6666 (socket_server.c:16); here they do, and clients  *)
(* of other makes too, which send what this one never does.                *)
(***************************************************************************)
EXTENDS Integers, Sequences, FiniteSets

CONSTANTS
  ConnClients,
  ConnFds        \* how many connections the process may have open

ASSUME ConnAssumption == ConnFds \in Nat

VARIABLES
  conMain,    \* "accept", "create" (a thread), or "down"
  conSlot,    \* the clients that new_server_socket stands for: one, or none
  conQueue,   \* the clients that accept() will return
  conOpen,    \* those whose descriptor the server holds
  conPc,      \* the thread made for a client: where it is
  conTook,    \* the client whose descriptor the thread has read
  conPeer,    \* the client's own state
  conAsks     \* the kind of its command

conVars == <<conMain, conSlot, conQueue, conOpen, conPc, conTook, conPeer, conAsks>>
(* To run and report, as the client of the repository asks; to run and     *)
(* send the output; and whatever handle_connect_cmd does not know.         *)
CommandKinds == {"exec", "output", "other"}
ConnInit ==
  /\ conMain = "accept" /\ conSlot = {} /\ conQueue = << >> /\ conOpen = {}
  /\ conPc = [c \in ConnClients |-> "none"] /\ conTook = [c \in ConnClients |-> c]
  /\ conPeer = [c \in ConnClients |-> "away"] /\ conAsks = [c \in ConnClients |-> "exec"]

PeerIs(c, state) == conPeer[c] = state
PeerBecomes(c, state) == conPeer' = [conPeer EXCEPT ![c] = state]
Serving == conMain # "down"
(* The process ends, and with it every thread and connection.              *)
Waiting == {"connected", "asked", "read"}
GoesDown ==
  /\ conMain' = "down"
  /\ conPeer' = [c \in ConnClients |->
                   IF conPeer[c] \in Waiting THEN "unanswered" ELSE conPeer[c]]

-----------------------------------------------------------------------------
(* The client: connect, send, receive; it may be killed meanwhile.         *)

ClientConnects(c) ==
  /\ PeerIs(c, "away")
  /\ IF Serving
     THEN PeerBecomes(c, "connected") /\ conQueue' = Append(conQueue, c)
     ELSE PeerBecomes(c, "unanswered") /\ UNCHANGED conQueue
  /\ UNCHANGED <<conMain, conSlot, conOpen, conPc, conTook, conAsks>>
ClientSends(c) ==
  /\ PeerIs(c, "connected") /\ PeerBecomes(c, "asked")
  /\ \E kind \in CommandKinds : conAsks' = [conAsks EXCEPT ![c] = kind]
  /\ UNCHANGED <<conMain, conSlot, conQueue, conOpen, conPc, conTook>>
ClientKilled(c) ==
  /\ conPeer[c] \in Waiting /\ PeerBecomes(c, "gone")
  /\ UNCHANGED <<conMain, conSlot, conQueue, conOpen, conPc, conTook, conAsks>>

-----------------------------------------------------------------------------
(* main: accept, which fails when there is no descriptor left and ends the *)
(* server, then pthread_create, whose failure ends it too.                 *)

Accept ==
  /\ conMain = "accept" /\ conQueue # << >>
  /\ IF Cardinality(conOpen) < ConnFds
     THEN /\ conSlot' = {Head(conQueue)} /\ conOpen' = conOpen \cup {Head(conQueue)}
          /\ conQueue' = Tail(conQueue) /\ conMain' = "create" /\ UNCHANGED conPeer
     ELSE GoesDown /\ UNCHANGED <<conSlot, conQueue, conOpen>>
  /\ UNCHANGED <<conPc, conTook, conAsks>>
CreateThread ==
  /\ conMain = "create"
  /\ \/ /\ conPc' = [c \in ConnClients |-> IF c \in conSlot THEN "begin" ELSE conPc[c]]
        /\ conMain' = "accept" /\ UNCHANGED conPeer
     \/ GoesDown /\ UNCHANGED conPc
  /\ UNCHANGED <<conSlot, conQueue, conOpen, conTook, conAsks>>

-----------------------------------------------------------------------------
(* connect_thread.                                                         *)

ThreadAt(t, pc) == Serving /\ conPc[t] = pc
ThreadGoes(t, pc) == conPc' = [conPc EXCEPT ![t] = pc]

(* The slot is read when the thread first runs, whatever stands in it then.*)
TakesSlot(t) ==
  /\ ThreadAt(t, "begin") /\ ThreadGoes(t, "recv")
  /\ \E c \in conSlot : conTook' = [conTook EXCEPT ![t] = c]
  /\ UNCHANGED <<conMain, conSlot, conQueue, conOpen, conPeer, conAsks>>

(* recv: the command, once, whichever of the threads that hold the         *)
(* descriptor is first; or the end of the connection.                      *)
Receives(t) ==
  /\ ThreadAt(t, "recv")
  /\ LET c == conTook[t]
     IN \/ PeerIs(c, "asked") /\ PeerBecomes(c, "read") /\ ThreadGoes(t, "exec")
        \/ conPeer[c] \in {"gone", "answered"} /\ ThreadGoes(t, "ended") /\ UNCHANGED conPeer
  /\ UNCHANGED <<conMain, conSlot, conQueue, conOpen, conTook, conAsks>>

(* handle_connect_cmd; nobody closes the descriptor.  system() runs the    *)
(* command to its end and the result is sent.  popen() may fail, and what  *)
(* is read from it is up to 1024 bytes for which 960 are left: the process *)
(* may end over both.  Anything else gets no reply.                        *)
(* Mutant: no reply to a command that fails.                               *)
Replies(t, sends) ==
  LET c == conTook[t]
      answers == IF PeerIs(c, "read") THEN PeerBecomes(c, "answered") ELSE UNCHANGED conPeer
  IN /\ ThreadAt(t, "exec") /\ ThreadGoes(t, "ended")
     /\ \/ conAsks[c] \in {"exec", "output"} /\ answers /\ UNCHANGED conMain
        \/ conAsks[c] = "exec" /\ ~sends /\ UNCHANGED <<conPeer, conMain>>
        \/ conAsks[c] = "output" /\ GoesDown
        \/ conAsks[c] = "other" /\ UNCHANGED <<conPeer, conMain>>
     /\ UNCHANGED <<conSlot, conQueue, conOpen, conTook, conAsks>>
ExecutesSilently(t) == Replies(t, FALSE)
Executes(t) == Replies(t, TRUE)

ConnNext ==
  \/ Accept \/ CreateThread
  \/ \E c \in ConnClients :
       \/ ClientConnects(c) \/ ClientSends(c) \/ ClientKilled(c)
       \/ TakesSlot(c) \/ Receives(c) \/ Executes(c)

(* The scheduler runs every thread, and the commands come to an end.       *)
ConnFairness ==
  /\ WF_conVars(Accept) /\ WF_conVars(CreateThread)
  /\ \A c \in ConnClients :
       WF_conVars(TakesSlot(c)) /\ WF_conVars(Receives(c)) /\ WF_conVars(Executes(c))
ConnSpec == ConnInit /\ [][ConnNext]_conVars /\ ConnFairness

-----------------------------------------------------------------------------
(* Properties.                                                             *)

ConnTypeOK ==
  /\ conMain \in {"accept", "create", "down"}
  /\ conSlot \subseteq ConnClients /\ conOpen \subseteq ConnClients
  /\ conQueue \in Seq(ConnClients)
  /\ conPc \in [ConnClients -> {"none", "begin", "recv", "exec", "ended"}]
  /\ conTook \in [ConnClients -> ConnClients]
  /\ conPeer \in [ConnClients -> {"away", "connected", "asked", "read", "answered",
                                  "unanswered", "gone"}]
  /\ conAsks \in [ConnClients -> CommandKinds]

(* A client that has sent a command of the kinds that are answered, while  *)
(* its descriptor stands in the slot and its thread is there to read it,   *)
(* is answered, unless it is killed, the next connection takes the slot    *)
(* first, or the server ends (socket_server.c:93-112, 199-249).            *)
CommandsAnswered ==
  \A c \in ConnClients :
    (conPeer[c] = "asked" /\ conAsks[c] # "other" /\ conPc[c] = "begin" /\ conSlot = {c})
      ~> \/ conPeer[c] \in {"answered", "gone", "unanswered"}
         \/ conSlot # {c} /\ ~\E t \in ConnClients : conPc[t] # "begin" /\ conTook[t] = c
=============================================================================
