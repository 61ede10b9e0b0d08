---------------------------- MODULE ClientSocket ----------------------------
(***************************************************************************)
(* clientSocket of msock.c, which tries the addresses of a name one after  *)
(* the other, and sockWrite, which sends what the caller gives it.         *)
(*                                                                         *)
(* A descriptor is a number; the kernel gives out the lowest that is free, *)
(* so that a number that was closed comes back for the next address.       *)
(***************************************************************************)
EXTENDS Integers, FiniteSets, Sequences

CONSTANTS
  MostAddresses,   \* bound: what getaddrinfo may return
  MostBytes        \* bound: the length of a string that is written

ASSUME SocketAssumption == MostAddresses \in Nat /\ MostBytes \in Nat

VARIABLES
  csAddresses,   \* those not tried yet
  csPc, csFd, csRc,   \* sock_fd and rc
  csSockets,     \* the open descriptors: how far the connect() has got
  csBlocking,    \* the descriptors that are in blocking mode
  csWanted, csSent   \* the length of the string, the bytes sent, in order

csVars == <<csAddresses, csPc, csFd, csRc, csSockets, csBlocking, csWanted, csSent>>

Unopened == -1         \* INVALID_SOCKET
Stages == {"connecting", "connected", "refused"}
Fds == 3 .. 3 + MostAddresses

SocketInit ==
  /\ csAddresses = 0 /\ csPc = "resolve" /\ csFd = Unopened /\ csRc = 0
  /\ csSockets = << >> /\ csBlocking = {} /\ csWanted = 0 /\ csSent = << >>

Closing(sockets, fd) == [f \in DOMAIN sockets \ {fd} |-> sockets[f]]
Ends(pc) == csPc' = pc
KeepsWrites == UNCHANGED <<csWanted, csSent>>

(* getaddrinfo: no address is an error of its own.                         *)
Resolve ==
  /\ csPc = "resolve"
  /\ \/ Ends("invalid") /\ UNCHANGED <<csAddresses, csRc>>
     \/ csAddresses' \in 1 .. MostAddresses /\ csRc' = -1 /\ Ends("try")
  /\ UNCHANGED <<csFd, csSockets, csBlocking>> /\ KeepsWrites

NewFd == CHOOSE f \in Fds \ DOMAIN csSockets : \A g \in Fds \ DOMAIN csSockets : f <= g
Opened(fd, stage) == [f \in DOMAIN csSockets \cup {fd} |->
                        IF f = fd THEN stage ELSE csSockets[f]]

(* One address.  socket() may fail, and then rc stays as it was; connect() *)
(* on the non-blocking socket goes on in the background, is refused, or is *)
(* done at once, and then the socket is closed and the next address tried. *)
TryAddress ==
  /\ csPc = "try" /\ csAddresses > 0 /\ csAddresses' = csAddresses - 1
  /\ \/ csFd' = Unopened /\ UNCHANGED <<csPc, csRc, csSockets, csBlocking>>
     \/ /\ csFd' = NewFd /\ csBlocking' = csBlocking \ {NewFd}
        /\ \/ csSockets' = Opened(NewFd, "connecting") /\ csRc' = 0 /\ Ends("select")
           \/ csSockets' = Opened(NewFd, "refused") /\ csRc' = -1 /\ UNCHANGED csPc
           \/ csSockets' = csSockets /\ csRc' = 0 /\ UNCHANGED csPc
  /\ KeepsWrites

AfterLoop ==
  /\ csPc = "try" /\ csAddresses = 0
  /\ Ends(IF csRc # 0 THEN "invalid" ELSE "select")
  /\ UNCHANGED <<csAddresses, csFd, csRc, csSockets, csBlocking>> /\ KeepsWrites

(* What the network makes of the connect().                                *)
NetworkAnswers ==
  /\ \E f \in DOMAIN csSockets :
       /\ csSockets[f] = "connecting"
       /\ \E stage \in {"connected", "refused"} : csSockets' = [csSockets EXCEPT ![f] = stage]
  /\ UNCHANGED <<csAddresses, csPc, csFd, csRc, csBlocking>> /\ KeepsWrites

(* select() on sock_fd, which may be closed, or not be a descriptor: then  *)
(* FD_SET writes outside the set, and a checked build aborts.              *)
(* Mutants: a time-out is not looked at; and a socket that timed out is    *)
(* left open.                                                              *)
SelectEnds(sockets, blocking, pc) ==
  csSockets' = sockets /\ csBlocking' = blocking /\ Ends(pc)
Selects(TimedOut) ==
  /\ csPc = "select"
  /\ \/ csFd \in DOMAIN csSockets /\ TimedOut
     \/ /\ csFd \in DOMAIN csSockets /\ csSockets[csFd] # "connecting"
        /\ SelectEnds(csSockets, csBlocking \cup {csFd}, "returned")
     \/ csFd \notin DOMAIN csSockets /\ SelectEnds(csSockets, csBlocking, "invalid")
     \/ csFd = Unopened /\ SelectEnds(csSockets, csBlocking, "aborted")
  /\ UNCHANGED <<csAddresses, csFd, csRc>> /\ KeepsWrites
SelectKeeps == Selects(SelectEnds(csSockets, csBlocking, "invalid"))
Select == Selects(SelectEnds(Closing(csSockets, csFd), csBlocking, "invalid"))

(* sockWrite, sockWriteSSL: send() takes any part of what is left; nothing *)
(* taken, or an error, ends it.  Mutant: the pointer is not moved on.      *)
BeginWrite ==
  /\ csPc = "returned" /\ csWanted' \in 1 .. MostBytes /\ csSent' = << >> /\ Ends("write")
  /\ UNCHANGED <<csAddresses, csFd, csRc, csSockets, csBlocking>>
SendsFrom(at) ==
  /\ csPc = "write"
  /\ IF Len(csSent) = csWanted THEN csRc' = csWanted /\ Ends("wrote") /\ UNCHANGED csSent
     ELSE \/ csRc' \in {0, -1} /\ Ends("wrote") /\ UNCHANGED csSent
          \/ \E n \in 1 .. csWanted - Len(csSent) :
               csSent' = csSent \o [i \in 1 .. n |-> at + i] /\ UNCHANGED <<csPc, csRc>>
  /\ UNCHANGED <<csAddresses, csFd, csSockets, csBlocking, csWanted>>
SendRepeats == SendsFrom(0)
Send == SendsFrom(Len(csSent))

(* msock_close, and the next connection.                                   *)
CloseSocket ==
  /\ csPc \in {"returned", "wrote"}
  /\ csSockets' = Closing(csSockets, csFd) /\ Ends("closed")
  /\ UNCHANGED <<csAddresses, csFd, csRc, csBlocking>> /\ KeepsWrites

SocketNext == Resolve \/ TryAddress \/ AfterLoop \/ NetworkAnswers \/ Select \/ BeginWrite
              \/ Send \/ CloseSocket
SocketSpec == SocketInit /\ [][SocketNext]_csVars

-----------------------------------------------------------------------------
(* Properties.                                                             *)

SocketTypeOK ==
  /\ csFd \in Fds \cup {Unopened} /\ DOMAIN csSockets \subseteq Fds
  /\ \A f \in DOMAIN csSockets : csSockets[f] \in Stages
  /\ csBlocking \subseteq Fds /\ csAddresses \in 0 .. MostAddresses

(* "returns a blocking SOCKET on success" (msock.c:269): it is open, and   *)
(* connected.                                                              *)
ReturnedIsConnected ==
  csPc = "returned" =>
    /\ csFd \in DOMAIN csSockets /\ csFd \in csBlocking
    /\ csSockets[csFd] = "connected"

(* What clientSocket returns is an open socket in blocking mode, and once  *)
(* it has come back, with a socket or without, no connect() of its goes on *)
(* in the background: the one that timed out was closed, on the right      *)
(* descriptor, whatever the addresses before left in sock_fd and rc        *)
(* (msock.c:334-478).                                                      *)
Using == csPc \in {"returned", "write", "wrote"}
NothingGoesOn ==
  /\ Using => csFd \in DOMAIN csSockets /\ csFd \in csBlocking
  /\ Using \/ csPc \in {"invalid", "closed", "aborted"} =>
       \A f \in DOMAIN csSockets : csSockets[f] # "connecting"

(* sockWrite answers with the length of the string only if the peer was    *)
(* sent all of it, once and in order (msock.c:486-530).                    *)
WritesWhole ==
  csPc = "wrote" /\ csRc = csWanted => csSent = [i \in 1 .. csWanted |-> i]

SocketIsDecided == NothingGoesOn /\ WritesWhole
=============================================================================
