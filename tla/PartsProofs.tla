---------------------------- MODULE PartsProofs -----------------------------
(***************************************************************************)
(* Proofs about parts of MCParts that are too small for a module of their  *)
(* own: ClientSocket, for any number of addresses and bytes, MailMessage,  *)
(* for any command lines, settings and inputs, Playback, for any files,    *)
(* formats and periods, and WsServer, for every set of clients and every   *)
(* size of the data and of its window.                                     *)
(***************************************************************************)
EXTENDS ClientSocket, MailMessage, Playback, WsServer, SequenceTheorems, TLAPS

-----------------------------------------------------------------------------
(* ClientSocket.  Before select() there is no connection: every socket     *)
(* that is open was refused, and their descriptors are the lowest ones, so *)
(* that the next address is given a new one.                               *)

Refused(fds) == \A f \in fds : csSockets[f] = "refused"
Trying ==
  /\ csBlocking = {} /\ Refused(DOMAIN csSockets)
  /\ \E n \in 0 .. MostAddresses : /\ n + csAddresses <= MostAddresses
                                   /\ DOMAIN csSockets = 3 .. 2 + n
Selecting == csBlocking = {} /\ Refused(DOMAIN csSockets \ {csFd})
Connected ==
  /\ csFd \in DOMAIN csSockets /\ csSockets[csFd] # "connecting"
  /\ csBlocking = {csFd} /\ Refused(DOMAIN csSockets \ {csFd})
Over ==
  /\ Refused(DOMAIN csSockets)
  /\ \A f \in DOMAIN csSockets : f \notin csBlocking

(* What was sent is the beginning of the string.                           *)
Sent ==
  /\ csWanted \in Nat \ {0} /\ csSent \in Seq(Nat)
  /\ Len(csSent) <= csWanted
  /\ \A i \in 1 .. Len(csSent) : csSent[i] = i

SocketPlaces == {"resolve", "try", "select", "returned", "write", "wrote", "closed",
                 "invalid", "aborted"}
SocketInv ==
  /\ SocketTypeOK /\ csPc \in SocketPlaces
  /\ csPc = "resolve" => DOMAIN csSockets = {} /\ csBlocking = {}
  /\ csPc = "try" => Trying
  /\ csPc = "select" => Selecting
  /\ csPc \in {"returned", "write", "wrote"} => Connected
  /\ csPc \in {"invalid", "aborted", "closed"} => Over
  /\ csPc = "write" => Sent
  /\ csPc = "wrote" => Sent /\ (csRc = csWanted => Len(csSent) = csWanted)

LEMMA SocketStart ==
  ASSUME SocketInit
  PROVE  SocketInv
<1>1. /\ csAddresses = 0 /\ csPc = "resolve" /\ csFd = Unopened
      /\ csSockets = << >> /\ csBlocking = {}
  BY DEF SocketInit
<1>2. DOMAIN csSockets = {}
  BY <1>1
<1>3. SocketTypeOK
  BY <1>1, <1>2, SocketAssumption DEF SocketTypeOK
<1> QED
  BY <1>1, <1>2, <1>3 DEF SocketInv, SocketPlaces

(* The kernel gives out the lowest number that is free.                    *)
LEMMA NewFdIsNext ==
  ASSUME NEW n \in Nat, n < MostAddresses, DOMAIN csSockets = 3 .. 2 + n
  PROVE  /\ NewFd = 3 + n /\ NewFd \in Fds /\ NewFd \notin DOMAIN csSockets
         /\ DOMAIN csSockets \cup {NewFd} = 3 .. 2 + (n + 1)
<1> DEFINE free == Fds \ DOMAIN csSockets
<1>1. MostAddresses \in Nat
  BY SocketAssumption
<1>2. free = 3 + n .. 3 + MostAddresses
  BY <1>1 DEF Fds
<1>3. NewFd = CHOOSE f \in free : \A g \in free : f <= g
  BY DEF NewFd
<1> HIDE DEF free
<1>4. 3 + n \in free /\ \A g \in free : 3 + n <= g
  BY <1>1, <1>2
<1>5. NewFd \in free /\ \A g \in free : NewFd <= g
  BY <1>3, <1>4
<1>6. NewFd = 3 + n
  BY <1>2, <1>4, <1>5
<1> QED
  BY <1>1, <1>6 DEF Fds

LEMMA TryStep ==
  ASSUME SocketInv, TryAddress
  PROVE  SocketInv'
<1>1. /\ csPc = "try" /\ csAddresses > 0 /\ csAddresses' = csAddresses - 1
      /\ SocketTypeOK /\ csBlocking = {} /\ Refused(DOMAIN csSockets)
  BY DEF TryAddress, SocketInv, Trying
<1>2. PICK n \in 0 .. MostAddresses :
        n + csAddresses <= MostAddresses /\ DOMAIN csSockets = 3 .. 2 + n
  BY <1>1 DEF SocketInv, Trying
<1>3. /\ MostAddresses \in Nat /\ csAddresses \in 0 .. MostAddresses /\ n \in Nat
      /\ n < MostAddresses /\ csAddresses' \in 0 .. MostAddresses
      /\ n + csAddresses' <= MostAddresses /\ n + 1 + csAddresses' <= MostAddresses
      /\ n + 1 \in 0 .. MostAddresses
  BY <1>1, <1>2, SocketAssumption DEF SocketTypeOK
<1>4. /\ NewFd \in Fds /\ NewFd \notin DOMAIN csSockets
      /\ DOMAIN csSockets \cup {NewFd} = 3 .. 2 + (n + 1)
  BY <1>2, <1>3, NewFdIsNext
<1>5. /\ DOMAIN csSockets \subseteq Fds /\ \A f \in DOMAIN csSockets : csSockets[f] \in Stages
      /\ csBlocking \ {NewFd} = {}
  BY <1>1 DEF SocketTypeOK
<1>6. CASE csFd' = Unopened /\ UNCHANGED <<csPc, csRc, csSockets, csBlocking>>
  <2>1. Trying'
    BY <1>1, <1>2, <1>3, <1>6 DEF Trying, Refused
  <2>2. SocketTypeOK'
    BY <1>1, <1>3, <1>5, <1>6 DEF SocketTypeOK, Fds
  <2> QED
    BY <1>1, <1>6, <2>1, <2>2 DEF SocketInv, SocketPlaces
<1>7. ASSUME NEW stage \in Stages, csFd' = NewFd, csBlocking' = csBlocking \ {NewFd},
             csSockets' = Opened(NewFd, stage)
      PROVE  /\ SocketTypeOK' /\ DOMAIN csSockets' = 3 .. 2 + (n + 1) /\ csBlocking' = {}
             /\ \A f \in DOMAIN csSockets' \ {NewFd} : csSockets'[f] = "refused"
             /\ csSockets'[NewFd] = stage
  <2>1. /\ DOMAIN csSockets' = DOMAIN csSockets \cup {NewFd} /\ csSockets'[NewFd] = stage
        /\ \A f \in DOMAIN csSockets : csSockets'[f] = csSockets[f]
    BY <1>4, <1>7 DEF Opened
  <2>2. SocketTypeOK'
    BY <1>3, <1>4, <1>5, <1>7, <2>1 DEF SocketTypeOK, Fds
  <2> QED
    BY <1>1, <1>4, <1>5, <1>7, <2>1, <2>2 DEF Refused
<1>8. CASE /\ csFd' = NewFd /\ csBlocking' = csBlocking \ {NewFd}
           /\ csSockets' = Opened(NewFd, "connecting") /\ csPc' = "select"
  <2>1. "connecting" \in Stages
    BY DEF Stages
  <2>2. Selecting'
    BY <1>7, <1>8, <2>1 DEF Selecting, Refused
  <2> QED
    BY <1>7, <1>8, <2>1, <2>2 DEF SocketInv, SocketPlaces
<1>9. CASE /\ csFd' = NewFd /\ csBlocking' = csBlocking \ {NewFd}
           /\ csSockets' = Opened(NewFd, "refused") /\ csPc' = csPc
  <2>1. "refused" \in Stages
    BY DEF Stages
  <2>2. Trying'
    BY <1>3, <1>7, <1>9, <2>1 DEF Trying, Refused
  <2> QED
    BY <1>1, <1>7, <1>9, <2>1, <2>2 DEF SocketInv, SocketPlaces
<1>10. CASE /\ csFd' = NewFd /\ csBlocking' = csBlocking \ {NewFd}
            /\ csSockets' = csSockets /\ csPc' = csPc
  <2>1. Trying'
    BY <1>1, <1>2, <1>3, <1>5, <1>10 DEF Trying, Refused
  <2>2. SocketTypeOK'
    BY <1>3, <1>4, <1>5, <1>10 DEF SocketTypeOK, Fds
  <2> QED
    BY <1>1, <1>10, <2>1, <2>2 DEF SocketInv, SocketPlaces
<1> QED
  BY <1>6, <1>8, <1>9, <1>10 DEF TryAddress, Ends

LEMMA NetworkStep ==
  ASSUME SocketInv, NetworkAnswers
  PROVE  SocketInv'
<1>1. PICK f \in DOMAIN csSockets : csSockets[f] = "connecting"
           /\ \E stage \in {"connected", "refused"} :
                csSockets' = [csSockets EXCEPT ![f] = stage]
  BY DEF NetworkAnswers
<1>2. /\ DOMAIN csSockets' = DOMAIN csSockets /\ csSockets'[f] \in {"connected", "refused"}
      /\ \A g \in DOMAIN csSockets \ {f} : csSockets'[g] = csSockets[g]
  BY <1>1
<1>3. UNCHANGED <<csAddresses, csPc, csFd, csRc, csBlocking, csWanted, csSent>>
  BY DEF NetworkAnswers, KeepsWrites
<1>4. csPc = "select" /\ f = csFd
  BY <1>1 DEF SocketInv, SocketPlaces, Trying, Selecting, Connected, Over, Refused
<1>5. Selecting'
  BY <1>2, <1>3, <1>4 DEF SocketInv, Selecting, Refused
<1>6. SocketTypeOK'
  BY <1>2, <1>3 DEF SocketInv, SocketTypeOK, Stages
<1> QED
  BY <1>3, <1>4, <1>5, <1>6 DEF SocketInv

LEMMA SelectStep ==
  ASSUME SocketInv, Select
  PROVE  SocketInv'
<1>1. /\ csPc = "select" /\ Selecting /\ SocketTypeOK
      /\ UNCHANGED <<csAddresses, csFd, csRc, csWanted, csSent>>
  BY DEF Select, Selects, SocketInv, KeepsWrites
<1>2. CASE csFd \in DOMAIN csSockets /\ csSockets' = Closing(csSockets, csFd)
           /\ csBlocking' = csBlocking /\ csPc' = "invalid"
  <2>1. /\ DOMAIN csSockets' = DOMAIN csSockets \ {csFd}
        /\ \A f \in DOMAIN csSockets' : csSockets'[f] = csSockets[f]
    BY <1>2 DEF Closing
  <2>2. Over' /\ SocketTypeOK'
    BY <1>1, <1>2, <2>1 DEF Over, Selecting, Refused, SocketTypeOK
  <2> QED
    BY <1>2, <2>2 DEF SocketInv, SocketPlaces
<1>3. CASE csFd \in DOMAIN csSockets /\ csSockets[csFd] # "connecting"
           /\ csSockets' = csSockets /\ csBlocking' = csBlocking \cup {csFd}
           /\ csPc' = "returned"
  <2>1. Connected' /\ SocketTypeOK'
    BY <1>1, <1>3 DEF Connected, Selecting, Refused, SocketTypeOK
  <2> QED
    BY <1>3, <2>1 DEF SocketInv, SocketPlaces
<1>4. CASE csFd \notin DOMAIN csSockets /\ csSockets' = csSockets
           /\ csBlocking' = csBlocking /\ csPc' = "invalid"
  <2>1. Over' /\ SocketTypeOK'
    BY <1>1, <1>4 DEF Over, Selecting, Refused, SocketTypeOK
  <2> QED
    BY <1>4, <2>1 DEF SocketInv, SocketPlaces
<1>5. CASE csFd = Unopened /\ csSockets' = csSockets
           /\ csBlocking' = csBlocking /\ csPc' = "aborted"
  <2>1. csFd \notin DOMAIN csSockets
    BY <1>1, <1>5, SocketAssumption DEF SocketTypeOK, Fds, Unopened
  <2>2. Over' /\ SocketTypeOK'
    BY <1>1, <1>5, <2>1 DEF Over, Selecting, Refused, SocketTypeOK
  <2> QED
    BY <1>5, <2>2 DEF SocketInv, SocketPlaces
<1> QED
  BY <1>2, <1>3, <1>4, <1>5 DEF Select, Selects, SelectEnds, Ends

(* What send() takes continues what it has taken.                          *)
LEMMA SendStep ==
  ASSUME SocketInv, Send
  PROVE  SocketInv'
<1>1. /\ csPc = "write" /\ Connected /\ Sent /\ SocketTypeOK
      /\ UNCHANGED <<csAddresses, csFd, csSockets, csBlocking, csWanted>>
  BY DEF Send, SendsFrom, SocketInv
<1>2. Connected' /\ SocketTypeOK'
  BY <1>1 DEF Connected, SocketTypeOK, Refused
<1>3. CASE csSent' = csSent /\ csPc' = "wrote"
           /\ (Len(csSent) = csWanted \/ csRc' \in {0, -1})
  <2>1. Sent'
    BY <1>1, <1>3 DEF Sent
  <2>2. csRc' = csWanted' => Len(csSent') = csWanted'
    BY <1>1, <1>3 DEF Sent
  <2> QED
    BY <1>2, <1>3, <2>1, <2>2 DEF SocketInv, SocketPlaces
<1>4. CASE /\ \E n \in 1 .. csWanted - Len(csSent) :
                csSent' = csSent \o [i \in 1 .. n |-> Len(csSent) + i]
           /\ csPc' = csPc
  <2>1. PICK n \in 1 .. csWanted - Len(csSent) :
               csSent' = csSent \o [i \in 1 .. n |-> Len(csSent) + i]
    BY <1>4
  <2>2. /\ csSent \in Seq(Nat) /\ Len(csSent) \in Nat /\ csWanted \in Nat /\ n \in Nat
        /\ n <= csWanted - Len(csSent)
    BY <1>1, <2>1, LenProperties DEF Sent
  <2> DEFINE more == [i \in 1 .. n |-> Len(csSent) + i]
  <2>3. /\ more \in Seq(Nat) /\ \A i \in 1 .. n : more[i] = Len(csSent) + i
    BY <2>2
  <2>4. Len(more) = n
    BY <2>2, <2>3
  <2>5. csSent' = csSent \o more
    BY <2>1
  <2> HIDE DEF more
  <2>6. /\ csSent' \in Seq(Nat) /\ Len(csSent') = Len(csSent) + n
        /\ \A i \in 1 .. Len(csSent) + n :
             csSent'[i] = IF i <= Len(csSent) THEN csSent[i] ELSE more[i - Len(csSent)]
    BY <2>2, <2>3, <2>4, <2>5, ConcatProperties
  <2>7. ASSUME NEW i \in 1 .. Len(csSent')
        PROVE  csSent'[i] = i
    <3>1. CASE i <= Len(csSent)
      <4>1. i \in 1 .. Len(csSent) /\ csSent'[i] = csSent[i]
        BY <2>2, <2>6, <3>1
      <4> QED
        BY <1>1, <4>1 DEF Sent
    <3>2. CASE ~(i <= Len(csSent))
      <4>1. i - Len(csSent) \in 1 .. n /\ Len(csSent) + (i - Len(csSent)) = i
        BY <2>2, <2>6, <3>2
      <4> QED
        BY <2>3, <2>6, <3>2, <4>1
    <3> QED
      BY <3>1, <3>2
  <2>8. Sent'
    BY <1>1, <2>2, <2>6, <2>7 DEF Sent
  <2> QED
    BY <1>1, <1>2, <1>4, <2>8 DEF SocketInv, SocketPlaces
<1> QED
  BY <1>3, <1>4 DEF Send, SendsFrom, Ends

LEMMA OtherSocketSteps ==
  ASSUME SocketInv, Resolve \/ AfterLoop \/ BeginWrite \/ CloseSocket
  PROVE  SocketInv'
<1>1. CASE Resolve
  <2>1. /\ UNCHANGED <<csFd, csSockets, csBlocking>> /\ SocketTypeOK
        /\ DOMAIN csSockets = {} /\ csBlocking = {}
    BY <1>1 DEF Resolve, SocketInv
  <2>2. CASE csPc' = "invalid" /\ csAddresses' = csAddresses
    <3>1. Over' /\ SocketTypeOK'
      BY <2>1, <2>2 DEF Over, Refused, SocketTypeOK
    <3> QED
      BY <2>2, <3>1 DEF SocketInv, SocketPlaces
  <2>3. CASE csPc' = "try" /\ csAddresses' \in 1 .. MostAddresses
    <3>1. /\ 0 \in 0 .. MostAddresses /\ 0 + csAddresses' <= MostAddresses
          /\ csAddresses' \in 0 .. MostAddresses
      <4>1. \A n \in Nat : \A a \in 1 .. n : 0 \in 0 .. n /\ 0 + a <= n /\ a \in 0 .. n
        OBVIOUS
      <4>2. MostAddresses \in Nat /\ csAddresses' \in 1 .. MostAddresses
        BY <2>3, SocketAssumption
      <4> QED
        BY <4>1, <4>2
    <3>2. 3 .. 2 + 0 = {}
      OBVIOUS
    <3>3. Trying' /\ SocketTypeOK'
      BY <2>1, <3>1, <3>2 DEF Trying, Refused, SocketTypeOK
    <3> QED
      BY <2>3, <3>3 DEF SocketInv, SocketPlaces
  <2> QED
    BY <1>1, <2>2, <2>3 DEF Resolve, Ends
<1>2. CASE AfterLoop
  <2>1. /\ UNCHANGED <<csAddresses, csFd, csRc, csSockets, csBlocking>>
        /\ csPc' \in {"invalid", "select"} /\ Trying /\ SocketTypeOK
    BY <1>2 DEF AfterLoop, Ends, SocketInv
  <2>2. Over' /\ Selecting' /\ SocketTypeOK'
    BY <2>1 DEF Over, Selecting, Trying, Refused, SocketTypeOK
  <2> QED
    BY <2>1, <2>2 DEF SocketInv, SocketPlaces
<1>3. CASE BeginWrite
  <2>1. /\ UNCHANGED <<csAddresses, csFd, csRc, csSockets, csBlocking>>
        /\ csPc' = "write" /\ csWanted' \in 1 .. MostBytes /\ csSent' = << >>
        /\ Connected /\ SocketTypeOK
    BY <1>3 DEF BeginWrite, Ends, SocketInv
  <2>2. Connected' /\ SocketTypeOK'
    BY <2>1 DEF Connected, Refused, SocketTypeOK
  <2>3. Sent'
    BY <2>1, SocketAssumption DEF Sent
  <2> QED
    BY <2>1, <2>2, <2>3 DEF SocketInv, SocketPlaces
<1>4. CASE CloseSocket
  <2>1. /\ UNCHANGED <<csAddresses, csFd, csRc, csBlocking>> /\ csPc' = "closed"
        /\ csSockets' = Closing(csSockets, csFd) /\ Connected /\ SocketTypeOK
    BY <1>4 DEF CloseSocket, Ends, SocketInv
  <2>2. /\ DOMAIN csSockets' = DOMAIN csSockets \ {csFd}
        /\ \A f \in DOMAIN csSockets' : csSockets'[f] = csSockets[f]
    BY <2>1 DEF Closing
  <2>3. Over' /\ SocketTypeOK'
    BY <2>1, <2>2 DEF Over, Connected, Refused, SocketTypeOK
  <2> QED
    BY <2>1, <2>3 DEF SocketInv, SocketPlaces
<1> QED
  BY <1>1, <1>2, <1>3, <1>4

LEMMA SocketStep ==
  ASSUME SocketInv, [SocketNext]_csVars
  PROVE  SocketInv'
<1>1. CASE UNCHANGED csVars
  BY <1>1 DEF csVars, SocketInv, SocketTypeOK, Trying, Selecting, Connected, Over, Sent,
              Refused
<1> QED
  BY <1>1, TryStep, NetworkStep, SelectStep, SendStep, OtherSocketSteps DEF SocketNext

(* Whatever the addresses of a name do, what clientSocket returns is an    *)
(* open, blocking socket, no connect() goes on in the background once it   *)
(* has come back, and a write that reports the whole length has sent the   *)
(* string once and in order (msock.c:237-530).                             *)
THEOREM SocketIsSettled == SocketSpec => []SocketIsDecided
<1>1. SocketInv => NothingGoesOn
  BY DEF SocketInv, NothingGoesOn, Using, Connected, Over, Refused
<1>3. SocketInv => WritesWhole
  <2> SUFFICES ASSUME SocketInv, csPc = "wrote", csRc = csWanted
               PROVE  csSent = [i \in 1 .. csWanted |-> i]
    BY DEF WritesWhole
  <2>1. Sent /\ Len(csSent) = csWanted /\ csSent \in Seq(Nat)
    BY DEF SocketInv, Sent
  <2>2. csSent = [i \in 1 .. Len(csSent) |-> csSent[i]]
    BY <2>1
  <2> QED
    BY <2>1, <2>2 DEF Sent
<1>4. SocketInv => SocketIsDecided
  BY <1>1, <1>3 DEF SocketIsDecided
<1> QED
  BY <1>4, SocketStart, SocketStep, PTL DEF SocketSpec

-----------------------------------------------------------------------------
(* MailMessage.  Every part stands in a multipart that is announced and    *)
(* not yet closed, and all multiparts but those in a set are closed; what  *)
(* of them is open where.                                                  *)

Announced(out) ==
  \A k \in 1 .. Len(out) : out[k].kind = "part" =>
    /\ \E j \in 1 .. k : out[j] = Multipart(out[k].of)
    /\ ~\E j \in 1 .. k : out[j] = End(out[k].of)
ClosedBut(out, still) ==
  \A k \in 1 .. Len(out) : out[k].kind = "multipart" =>
    out[k].of \in still \/ \E j \in k .. Len(out) : out[j] = End(out[k].of)
In(out, line) == \E k \in 1 .. Len(out) : out[k] = line

Apart == ~(Has("embed") /\ Mixed)
Building ==
  /\ Announced(msgOut) /\ ClosedBut(msgOut, {"main"}) /\ In(msgOut, Multipart("main"))
  /\ ~In(msgOut, End("main")) \/ (msgPc = "attachments" /\ Has("embed"))
  /\ msgPc = "onelines" => \A k \in 1 .. Len(msgOut) : msgOut[k].kind # "end"
  /\ msgPc = "images" => Has("embed")
BoundaryInv ==
  /\ msgPc = "options" => msgOut = << >>
  /\ msgPc \in {"body", "input"} =>
       \A k \in 1 .. Len(msgOut) : msgOut[k].kind \notin {"part", "multipart"}
  /\ Apart /\ msgPc \in {"onelines", "images", "attachments"} => Building
  /\ Apart /\ Succeeded => Announced(msgOut) /\ ClosedBut(msgOut, {})

(* Line by line.                                                           *)
Whose   == {"main", "related", "alternative", "images", "input"} \cup (OptionKinds \X Nat)
MsgLine == [kind : {"multipart", "part", "end", "content", "html", "line"}, of : Whose]

LEMMA OneMore ==
  ASSUME NEW out \in Seq(MsgLine), NEW line \in MsgLine
  PROVE  /\ Append(out, line) \in Seq(MsgLine)
         /\ \A x : In(Append(out, line), x) <=> In(out, x) \/ x = line
         /\ Len(out) \in Nat /\ Len(Append(out, line)) = Len(out) + 1
         /\ \A k \in 1 .. Len(out) : Append(out, line)[k] = out[k]
         /\ Append(out, line)[Len(out) + 1] = line
         /\ \A k \in 1 .. Len(Append(out, line)) : k \in 1 .. Len(out) \/ k = Len(out) + 1
<1> DEFINE more == Append(out, line)
<1>1. /\ more \in Seq(MsgLine) /\ Len(out) \in Nat /\ Len(more) = Len(out) + 1
      /\ \A k \in 1 .. Len(out) : more[k] = out[k]
      /\ more[Len(out) + 1] = line
  BY LenProperties, AppendProperties
<1> HIDE DEF more
<1>2. \A k \in 1 .. Len(more) : k \in 1 .. Len(out) \/ k = Len(out) + 1
  BY <1>1
<1>3. 1 .. Len(out) \subseteq 1 .. Len(more) /\ Len(out) + 1 \in 1 .. Len(more)
  BY <1>1
<1>4. \A x : In(more, x) <=> In(out, x) \/ x = line
  BY <1>1, <1>2, <1>3 DEF In
<1> QED
  BY <1>1, <1>2, <1>4 DEF more

LEMMA MoreAnnounced ==
  ASSUME NEW out \in Seq(MsgLine), NEW line \in MsgLine, Announced(out),
         line.kind = "part" => In(out, Multipart(line.of)) /\ ~In(out, End(line.of))
  PROVE  Announced(Append(out, line))
<1> DEFINE more == Append(out, line)
<1>1. /\ Len(out) \in Nat /\ Len(more) = Len(out) + 1
      /\ \A k \in 1 .. Len(out) : more[k] = out[k]
      /\ more[Len(out) + 1] = line
      /\ \A k \in 1 .. Len(more) : k \in 1 .. Len(out) \/ k = Len(out) + 1
  BY OneMore
<1> HIDE DEF more
<1>2. ASSUME NEW k \in 1 .. Len(out), more[k].kind = "part"
      PROVE  /\ \E j \in 1 .. k : more[j] = Multipart(more[k].of)
             /\ ~\E j \in 1 .. k : more[j] = End(more[k].of)
  <2>1. \A j \in 1 .. k : j \in 1 .. Len(out)
    BY <1>1
  <2> QED
    BY <1>1, <1>2, <2>1 DEF Announced
<1>3. ASSUME line.kind = "part"
      PROVE  /\ \E j \in 1 .. Len(out) + 1 : more[j] = Multipart(line.of)
             /\ ~\E j \in 1 .. Len(out) + 1 : more[j] = End(line.of)
  <2>1. /\ \A j \in 1 .. Len(out) : j \in 1 .. Len(out) + 1
        /\ \A j \in 1 .. Len(out) + 1 : j \in 1 .. Len(out) \/ j = Len(out) + 1
    BY <1>1
  <2>2. line # End(line.of)
    BY <1>3 DEF End
  <2> QED
    BY <1>1, <1>3, <2>1, <2>2 DEF In
<1>4. Announced(more)
  BY <1>1, <1>2, <1>3 DEF Announced
<1> QED
  BY <1>4 DEF more

LEMMA MoreClosed ==
  ASSUME NEW out \in Seq(MsgLine), NEW line \in MsgLine, NEW still, NEW left,
         ClosedBut(out, still),
         line.kind = "multipart" => line.of \in left,
         \A b \in still : b \in left \/ line = End(b)
  PROVE  ClosedBut(Append(out, line), left)
<1> DEFINE more == Append(out, line)
<1>1. /\ Len(out) \in Nat /\ Len(more) = Len(out) + 1
      /\ \A k \in 1 .. Len(out) : more[k] = out[k]
      /\ more[Len(out) + 1] = line
      /\ \A k \in 1 .. Len(more) : k \in 1 .. Len(out) \/ k = Len(out) + 1
  BY OneMore
<1> HIDE DEF more
<1>2. ASSUME NEW k \in 1 .. Len(out), more[k].kind = "multipart"
      PROVE  more[k].of \in left \/ \E j \in k .. Len(more) : more[j] = End(more[k].of)
  <2>1. /\ \A j \in k .. Len(out) : j \in 1 .. Len(out) /\ j \in k .. Len(more)
        /\ Len(out) + 1 \in k .. Len(more)
    BY <1>1
  <2>2. more[k].of \in still \/ \E j \in k .. Len(out) : out[j] = End(more[k].of)
    BY <1>1, <1>2 DEF ClosedBut
  <2> QED
    BY <1>1, <2>1, <2>2
<1>3. ClosedBut(more, left)
  BY <1>1, <1>2 DEF ClosedBut
<1> QED
  BY <1>3 DEF more

(* Several lines are one line after the other.                             *)
LEMMA LinesJoin ==
  ASSUME NEW out \in Seq(MsgLine), NEW a \in MsgLine, NEW b \in MsgLine
  PROVE  /\ out \o << >> = out
         /\ out \o <<a>> = Append(out, a)
         /\ out \o <<a, b>> = Append(Append(out, a), b)
  OBVIOUS

LEMMA LinesJoinMore ==
  ASSUME NEW out \in Seq(MsgLine), NEW a \in MsgLine, NEW b \in MsgLine,
         NEW c \in MsgLine, NEW d \in MsgLine, NEW e \in MsgLine
  PROVE  out \o (<<a>> \o <<b, c, d, e>>)
           = Append(Append(Append(Append(Append(out, a), b), c), d), e)
  OBVIOUS

SixLines(out, a, b, c, d, e, f) ==
  out \o (<<a>> \o <<b, c, d, e, f>>)
    = Append(Append(Append(Append(Append(Append(out, a), b), c), d), e), f)
LEMMA LinesJoinSix ==
  ASSUME NEW out \in Seq(MsgLine), NEW a \in MsgLine, NEW b \in MsgLine,
         NEW c \in MsgLine, NEW d \in MsgLine, NEW e \in MsgLine, NEW f \in MsgLine
  PROVE  SixLines(out, a, b, c, d, e, f)
<1>1. out \o (<<a>> \o <<b, c, d, e, f>>) = (out \o (<<a>> \o <<b, c, d, e>>)) \o <<f>>
  OBVIOUS
<1>2. out \o (<<a>> \o <<b, c, d, e>>) \in Seq(MsgLine)
  OBVIOUS
<1>3. (out \o (<<a>> \o <<b, c, d, e>>)) \o <<f>> = Append(out \o (<<a>> \o <<b, c, d, e>>), f)
  BY <1>2, LinesJoin
<1>4. out \o (<<a>> \o <<b, c, d, e>>)
        = Append(Append(Append(Append(Append(out, a), b), c), d), e)
  BY LinesJoinMore
<1> QED
  BY ONLY <1>1, <1>3, <1>4 DEF SixLines

LEMMA LineTypes ==
  /\ \A b \in Whose : Multipart(b) \in MsgLine /\ Part(b) \in MsgLine /\ End(b) \in MsgLine
  /\ \A i \in OptionKinds \X Nat : Content(i) \in MsgLine
  /\ Html \in MsgLine /\ TextLine \in MsgLine
BY DEF Multipart, Part, End, Content, Html, TextLine, MsgLine, Whose

LEMMA KindsDiffer ==
  ASSUME NEW a, NEW b
  PROVE  /\ Multipart(a) # End(b) /\ Part(a) # End(b) /\ Content(a) # End(b) /\ Html # End(b)
         /\ End(a) = End(b) => a = b
         /\ Multipart(a).kind = "multipart" /\ Multipart(a).of = a
         /\ Part(a).kind = "part" /\ Part(a).of = a /\ End(a).kind = "end"
         /\ End(a).of = a /\ Content(a).kind = "content" /\ Html.kind = "html"
         /\ TextLine.kind = "line"
<1>1. /\ Multipart(a).kind = "multipart" /\ Multipart(a).of = a
      /\ Part(a).kind = "part" /\ Part(a).of = a
      /\ Content(a).kind = "content" /\ Html.kind = "html" /\ TextLine.kind = "line"
  BY DEF Multipart, Part, Content, Html, TextLine
<1>2. \A x : End(x).kind = "end" /\ End(x).of = x
  BY DEF End
<1> QED
  BY <1>1, <1>2

Writing == msgOut \in Seq(MsgLine) /\ msgAt \in Nat \ {0}
MultipartInv == Writing /\ BoundaryInv

LEMMA MultipartStart ==
  ASSUME MsgInit
  PROVE  MultipartInv
BY DEF MsgInit, MultipartInv, Writing, BoundaryInv, Succeeded

(* The lists stay as they are once they are read.                          *)
LEMMA KeepsApart ==
  ASSUME KeepsLists
  PROVE  Apart' = Apart /\ \A k : Has(k)' = Has(k)
BY DEF KeepsLists, Apart, Has, Mixed

NoEnd(out) == \A k \in 1 .. Len(out) : out[k].kind # "end"

LEMMA MoreWithoutEnd ==
  ASSUME NEW out \in Seq(MsgLine), NEW line \in MsgLine, NoEnd(out), line.kind # "end"
  PROVE  NoEnd(Append(out, line))
BY OneMore DEF NoEnd

(* A part of a multipart that is open, and what it holds.                  *)
LEMMA PartMore ==
  ASSUME Writing, NEW i \in OptionKinds \X Nat, Announced(msgOut),
         ClosedBut(msgOut, {"main"}), In(msgOut, Multipart("main")),
         ~In(msgOut, End("main")),
         msgOut' = msgOut \o <<Part("main"), Content(i)>>
                     \/ msgOut' = msgOut \o <<Part("main")>> \/ msgOut' = msgOut \o << >>
  PROVE  /\ Announced(msgOut') /\ ClosedBut(msgOut', {"main"})
         /\ In(msgOut', Multipart("main")) /\ ~In(msgOut', End("main"))
<1> DEFINE one == Append(msgOut, Part("main"))
           two == Append(one, Content(i))
<1>1. /\ Part("main") \in MsgLine /\ Content(i) \in MsgLine /\ msgOut \in Seq(MsgLine)
  BY LineTypes DEF Whose, Writing
<1>2. msgOut' = msgOut \/ msgOut' = one \/ msgOut' = two
  BY <1>1, LinesJoin
<1>3. /\ Part("main").kind = "part" /\ Part("main").of = "main"
      /\ Content(i).kind = "content" /\ Part("main") # End("main")
      /\ Content(i) # End("main") /\ Part("main").kind # "multipart"
  BY KindsDiffer
<1>4. /\ one \in Seq(MsgLine) /\ Announced(one) /\ ClosedBut(one, {"main"})
      /\ In(one, Multipart("main")) /\ ~In(one, End("main"))
  BY <1>1, <1>3, OneMore, MoreAnnounced, MoreClosed
<1> HIDE DEF one
<1>5. /\ two \in Seq(MsgLine) /\ Announced(two) /\ ClosedBut(two, {"main"})
      /\ In(two, Multipart("main")) /\ ~In(two, End("main"))
  BY <1>1, <1>3, <1>4, OneMore, MoreAnnounced, MoreClosed
<1> QED
  BY <1>2, <1>4, <1>5

LEMMA SimpleSteps ==
  ASSUME MultipartInv, ReadOption \/ Headers \/ Body \/ InputLine
  PROVE  MultipartInv'
<1>1. /\ msgOut \in Seq(MsgLine) /\ msgAt \in Nat \ {0} /\ 1 \in Nat \ {0} /\ BoundaryInv
      /\ msgOut \o << >> = msgOut
  BY LinesJoin, LineTypes DEF MultipartInv, Writing
<1>2. CASE ReadOption
  <2>1. msgPc = "options" /\ msgPc' \in {"options", "exit"} /\ UNCHANGED <<msgOut, msgAt>>
    BY <1>2 DEF ReadOption
  <2> QED
    BY <1>1, <2>1 DEF MultipartInv, Writing, BoundaryInv, Succeeded
<1>3. CASE Headers
  <2>1. msgOut = << >>
    BY <1>1, <1>3 DEF Headers, BoundaryInv
  <2>2. CASE msgPc' \in {"input", "body"} /\ msgAt' = 1 /\ msgOut' = msgOut \o << >>
    BY <1>1, <2>1, <2>2 DEF MultipartInv, Writing, BoundaryInv, Succeeded
  <2>3. CASE msgPc' = "onelines" /\ msgAt' = 1 /\ msgOut' = msgOut \o <<Multipart("main")>>
    <3>1. Multipart("main") \in MsgLine /\ Multipart("main") # End("main")
          /\ Multipart("main").kind = "multipart" /\ Multipart("main").of = "main"
      BY LineTypes, KindsDiffer DEF Whose
    <3>2. msgOut' = Append(msgOut, Multipart("main"))
      BY <1>1, <2>3, <3>1, LinesJoin
    <3>3. Announced(msgOut) /\ ClosedBut(msgOut, {"main"}) /\ ~In(msgOut, End("main"))
      BY <2>1 DEF Announced, ClosedBut, In
    <3>4. /\ msgOut' \in Seq(MsgLine) /\ Announced(msgOut') /\ ClosedBut(msgOut', {"main"})
          /\ In(msgOut', Multipart("main")) /\ ~In(msgOut', End("main"))
      BY <1>1, <3>1, <3>2, <3>3, OneMore, MoreAnnounced, MoreClosed
    <3>5. \A k \in 1 .. Len(msgOut') : msgOut'[k].kind # "end"
      BY <2>1, <3>1, <3>2
    <3>6. Building'
      BY <2>3, <3>4, <3>5 DEF Building
    <3> QED
      BY <1>1, <2>3, <3>4, <3>6 DEF MultipartInv, Writing, BoundaryInv, Succeeded
  <2> QED
    BY <1>3, <2>2, <2>3 DEF Headers, Goes, Writes
<1>4. CASE Body \/ InputLine
  <2>1. \A k \in 1 .. Len(msgOut) : msgOut[k].kind \notin {"part", "multipart"}
    BY <1>1, <1>4 DEF Body, InputLine, BoundaryInv
  <2>2. \E line \in MsgLine : /\ line.kind \notin {"part", "multipart"}
                              /\ \/ msgOut' = msgOut
                                 \/ msgOut' = msgOut \o <<line>>
    <3>1. <<"body", 1>> \in OptionKinds \X Nat
      BY DEF OptionKinds
    <3>2. /\ Content(<<"body", 1>>) \in MsgLine /\ TextLine \in MsgLine
          /\ Content(<<"body", 1>>).kind = "content" /\ TextLine.kind = "line"
      BY <3>1, LineTypes, KindsDiffer
    <3>3. \/ msgOut' = msgOut
          \/ msgOut' = msgOut \o <<Content(<<"body", 1>>)>>
          \/ msgOut' = msgOut \o <<TextLine>>
      BY <1>1, <1>4 DEF Body, InputLine, Writes
    <3> QED
      BY <3>2, <3>3
  <2>3. PICK line \in MsgLine : /\ line.kind \notin {"part", "multipart"}
                                /\ \/ msgOut' = msgOut
                                   \/ msgOut' = Append(msgOut, line)
    BY <1>1, <2>2, LinesJoin
  <2>4. /\ msgOut' \in Seq(MsgLine)
        /\ \A k \in 1 .. Len(msgOut') : msgOut'[k].kind \notin {"part", "multipart"}
    <3>1. CASE msgOut' = msgOut
      BY <1>1, <2>1, <3>1
    <3>2. CASE msgOut' = Append(msgOut, line)
      BY <1>1, <2>1, <2>3, <3>2, OneMore
    <3> QED
      BY <2>3, <3>1, <3>2
  <2>5. Announced(msgOut') /\ ClosedBut(msgOut', {})
    BY <2>4 DEF Announced, ClosedBut
  <2>6. msgPc' \in {"done", "input"} /\ msgAt' \in Nat \ {0}
    BY <1>1, <1>4 DEF Body, InputLine, Goes, Fails
  <2> QED
    BY <2>4, <2>5, <2>6 DEF MultipartInv, Writing, BoundaryInv
<1> QED
  BY <1>2, <1>3, <1>4

(* The parts of a one-line message, an image and an attachment.            *)
LEMMA PartSteps ==
  ASSUME MultipartInv, KeepsLists, NEW k \in OptionKinds, NEW pc,
         msgPc = pc, pc \in {"onelines", "images", "attachments"},
         Apart => pc = "onelines" \/ pc = "images" \/ ~Has("embed"),
         \/ /\ msgPc' = pc /\ msgAt' = msgAt + 1
            /\ \/ msgOut' = msgOut \o <<Part("main"), Content(<<k, msgAt>>)>>
               \/ msgOut' = msgOut \o <<Part("main")>>
         \/ /\ ~Apart /\ msgPc' = pc /\ msgAt' = msgAt + 1
            /\ msgOut' = msgOut \o <<Part("related"), Content(<<k, msgAt>>)>>
         \/ msgPc' = "done" /\ msgRc' = -1 /\ msgAt' = msgAt /\ msgOut' = msgOut \o << >>
  PROVE  MultipartInv'
<1>1. /\ msgOut \in Seq(MsgLine) /\ msgAt \in Nat \ {0} /\ BoundaryInv /\ Writing
      /\ <<k, msgAt>> \in OptionKinds \X Nat /\ Apart' = Apart
      /\ Has("embed")' = Has("embed")
  BY KeepsApart DEF MultipartInv, Writing
<1>2. /\ Part("main") \in MsgLine /\ Part("related") \in MsgLine
      /\ Content(<<k, msgAt>>) \in MsgLine
  BY <1>1, LineTypes DEF Whose
<1>3. msgOut' \in Seq(MsgLine)
  <2>1. /\ msgOut \o << >> = msgOut
        /\ msgOut \o <<Part("main")>> \in Seq(MsgLine)
        /\ msgOut \o <<Part("main"), Content(<<k, msgAt>>)>> \in Seq(MsgLine)
        /\ msgOut \o <<Part("related"), Content(<<k, msgAt>>)>> \in Seq(MsgLine)
    BY <1>1, <1>2, LinesJoin, OneMore
  <2> QED
    BY <1>1, <2>1
<1>4. Writing'
  BY <1>1, <1>3 DEF Writing
<1>5. CASE msgPc' = "done" /\ msgRc' = -1
  <2>1. -1 # 0
    OBVIOUS
  <2> QED
    BY <1>4, <1>5, <2>1 DEF MultipartInv, BoundaryInv, Succeeded
<1>6. CASE ~Apart /\ msgPc' = pc
  BY <1>1, <1>4, <1>6 DEF MultipartInv, BoundaryInv, Succeeded
<1>7. CASE /\ Apart /\ msgPc' = pc
           /\ \/ msgOut' = msgOut \o <<Part("main"), Content(<<k, msgAt>>)>>
              \/ msgOut' = msgOut \o <<Part("main")>>
  <2>1. Building /\ ~In(msgOut, End("main"))
    BY <1>1, <1>7 DEF BoundaryInv, Building
  <2>2. /\ Announced(msgOut') /\ ClosedBut(msgOut', {"main"})
        /\ In(msgOut', Multipart("main")) /\ ~In(msgOut', End("main"))
    BY <1>1, <1>7, <2>1, PartMore DEF Building
  <2>3. pc = "onelines" => \A j \in 1 .. Len(msgOut') : msgOut'[j].kind # "end"
    <3>1. /\ Part("main").kind # "end" /\ Content(<<k, msgAt>>).kind # "end"
          /\ pc = "onelines" => NoEnd(msgOut)
      BY <2>1, KindsDiffer DEF Building, NoEnd
    <3>2. pc = "onelines" => /\ NoEnd(Append(msgOut, Part("main")))
                             /\ NoEnd(Append(Append(msgOut, Part("main")),
                                             Content(<<k, msgAt>>)))
      BY <1>1, <1>2, <3>1, OneMore, MoreWithoutEnd
    <3>3. \/ msgOut' = Append(msgOut, Part("main"))
          \/ msgOut' = Append(Append(msgOut, Part("main")), Content(<<k, msgAt>>))
      BY <1>1, <1>2, <1>7, LinesJoin
    <3> QED
      BY <3>2, <3>3 DEF NoEnd
  <2>4. Building'
    BY <1>1, <1>7, <2>1, <2>2, <2>3 DEF Building
  <2> QED
    BY <1>4, <1>7, <2>4 DEF MultipartInv, BoundaryInv, Succeeded
<1> QED
  BY <1>5, <1>6, <1>7

(* The lines around the images, and the last one.                          *)
LEMMA EmbedHeadStep ==
  ASSUME MultipartInv, EmbedHead
  PROVE  MultipartInv'
<1>1. /\ msgOut \in Seq(MsgLine) /\ msgPc = "onelines" /\ KeepsLists /\ BoundaryInv
      /\ 1 \in Nat \ {0} /\ msgAt' = 1 /\ UNCHANGED msgRc
  BY DEF MultipartInv, Writing, EmbedHead, Goes
<1>2. Apart' = Apart /\ Has("embed")' = Has("embed")
  BY <1>1, KeepsApart
<1>3. CASE ~Has("embed") /\ msgPc' = "attachments" /\ msgOut' = msgOut \o << >>
  <2>1. msgOut' = msgOut
    BY <1>1, <1>3, LinesJoin, LineTypes
  <2>2. Apart => Building'
    BY <1>1, <1>2, <1>3, <2>1 DEF BoundaryInv, Building
  <2> QED
    BY <1>1, <1>2, <1>3, <2>1, <2>2 DEF MultipartInv, Writing, BoundaryInv, Succeeded
<1>4. CASE /\ Has("embed") /\ Mixed /\ msgPc' = "images"
           /\ msgOut' = msgOut \o (<<Part("main")>> \o
                <<Multipart("related"), Multipart("alternative"), Part("related"), Html,
                  End("related")>>)
  <2>1. ~Apart
    BY <1>4 DEF Apart
  <2>2. /\ Part("main") \in MsgLine /\ Multipart("related") \in MsgLine
        /\ Multipart("alternative") \in MsgLine /\ Part("related") \in MsgLine
        /\ Html \in MsgLine /\ End("related") \in MsgLine
    BY LineTypes DEF Whose
  <2>3. msgOut' \in Seq(MsgLine)
    BY <1>1, <1>4, <2>2
  <2> QED
    BY <1>1, <1>2, <1>4, <2>1, <2>3 DEF MultipartInv, Writing, BoundaryInv, Succeeded
<1>5. CASE /\ Has("embed") /\ ~Mixed /\ msgPc' = "images"
           /\ msgOut' = msgOut \o (<<Part("main")>> \o
                <<Multipart("alternative"), Part("alternative"), Html, End("alternative")>>)
  <2>1. Building /\ NoEnd(msgOut) /\ Apart
    BY <1>1, <1>5 DEF BoundaryInv, Building, NoEnd, Apart
  <2> DEFINE l1 == Append(msgOut, Part("main"))
             l2 == Append(l1, Multipart("alternative"))
             l3 == Append(l2, Part("alternative"))
             l4 == Append(l3, Html)
             l5 == Append(l4, End("alternative"))
  <2>2. /\ Part("main") \in MsgLine /\ Multipart("alternative") \in MsgLine
        /\ Part("alternative") \in MsgLine
        /\ Html \in MsgLine /\ End("alternative") \in MsgLine
    BY LineTypes DEF Whose
  <2>3. msgOut' = l5
    <3>1. msgOut \in Seq(MsgLine)
      BY <1>1
    <3>2. msgOut \o (<<Part("main")>> \o
            <<Multipart("alternative"), Part("alternative"), Html, End("alternative")>>) = l5
      BY <2>2, <3>1, LinesJoinMore
    <3> HIDE DEF l5
    <3> QED
      BY <1>5, <3>2
  <2>4. /\ l1 \in Seq(MsgLine) /\ Announced(l1) /\ ClosedBut(l1, {"main"})
        /\ In(l1, Multipart("main")) /\ NoEnd(l1)
    BY <1>1, <2>1, <2>2, KindsDiffer, OneMore, MoreAnnounced, MoreClosed, MoreWithoutEnd
       DEF Building
  <2> HIDE DEF l1
  <2>5. /\ l2 \in Seq(MsgLine) /\ Announced(l2) /\ ClosedBut(l2, {"main", "alternative"})
        /\ In(l2, Multipart("main")) /\ NoEnd(l2) /\ In(l2, Multipart("alternative"))
    BY <2>2, <2>4, KindsDiffer, OneMore, MoreAnnounced, MoreClosed, MoreWithoutEnd
  <2> HIDE DEF l2
  <2>6. \A b : ~In(l2, End(b))
    <3>1. \A b : End(b).kind = "end"
      BY KindsDiffer
    <3> QED
      BY <2>5, <3>1 DEF NoEnd, In
  <2>7. /\ l3 \in Seq(MsgLine) /\ Announced(l3) /\ ClosedBut(l3, {"main", "alternative"})
        /\ In(l3, Multipart("main")) /\ NoEnd(l3)
    BY <2>2, <2>5, <2>6, KindsDiffer, OneMore, MoreAnnounced, MoreClosed, MoreWithoutEnd
  <2> HIDE DEF l3
  <2>8. /\ l4 \in Seq(MsgLine) /\ Announced(l4) /\ ClosedBut(l4, {"main", "alternative"})
        /\ In(l4, Multipart("main")) /\ NoEnd(l4)
    BY <2>2, <2>7, KindsDiffer, OneMore, MoreAnnounced, MoreClosed, MoreWithoutEnd
  <2> HIDE DEF l4
  <2>9. ~In(l4, End("main"))
    BY <2>8, KindsDiffer DEF NoEnd, In
  <2>10. "main" # "alternative" /\ End("alternative") # End("main")
    BY KindsDiffer
  <2>11. /\ l5 \in Seq(MsgLine) /\ Announced(l5) /\ ClosedBut(l5, {"main"})
         /\ In(l5, Multipart("main")) /\ ~In(l5, End("main"))
    BY <2>2, <2>8, <2>9, <2>10, KindsDiffer, OneMore, MoreAnnounced, MoreClosed
  <2> HIDE DEF l5
  <2>12. Building'
    BY <1>2, <1>5, <2>3, <2>11 DEF Building
  <2> QED
    BY <1>1, <1>5, <2>3, <2>11, <2>12 DEF MultipartInv, Writing, BoundaryInv, Succeeded
<1> QED
  BY <1>3, <1>4, <1>5 DEF EmbedHead, Writes, Goes

LEMMA EndSteps ==
  ASSUME MultipartInv, EmbedEnd \/ EndBoundary
  PROVE  MultipartInv'
<1>1. /\ msgOut \in Seq(MsgLine) /\ KeepsLists /\ BoundaryInv
      /\ 1 \in Nat \ {0} /\ msgAt' = 1 /\ UNCHANGED msgRc
  BY DEF MultipartInv, Writing, EmbedEnd, EndBoundary, Goes
<1>2. Apart' = Apart /\ Has("embed")' = Has("embed")
  BY <1>1, KeepsApart
<1>3. End("main") \in MsgLine /\ End("related") \in MsgLine
  BY LineTypes DEF Whose
<1>4. ASSUME msgOut' = msgOut \o <<End("main")>>, Apart, Building
      PROVE  /\ msgOut' \in Seq(MsgLine) /\ Announced(msgOut') /\ ClosedBut(msgOut', {})
             /\ In(msgOut', Multipart("main"))
  <2>1. msgOut' = Append(msgOut, End("main"))
    BY <1>1, <1>3, <1>4, LinesJoin
  <2>2. End("main").kind = "end"
    BY KindsDiffer
  <2>3. Announced(msgOut) /\ ClosedBut(msgOut, {"main"}) /\ In(msgOut, Multipart("main"))
    BY <1>4 DEF Building
  <2> DEFINE out == msgOut
             more == Append(out, End("main"))
  <2>4. out \in Seq(MsgLine) /\ Announced(out) /\ ClosedBut(out, {"main"})
        /\ In(out, Multipart("main"))
    BY <1>1, <2>3
  <2> HIDE DEF out
  <2>5. more \in Seq(MsgLine) /\ In(more, Multipart("main"))
    BY <1>3, <2>4, OneMore
  <2>6. Announced(more)
    BY <1>3, <2>2, <2>4, MoreAnnounced
  <2>7. ClosedBut(more, {})
    <3>1. /\ End("main").kind = "multipart" => End("main").of \in {}
          /\ \A b \in {"main"} : b \in {} \/ End("main") = End(b)
      BY <2>2
    <3> QED
      BY <1>3, <2>4, <3>1, MoreClosed
  <2>8. msgOut' = more
    BY <2>1 DEF out
  <2> HIDE DEF more
  <2> QED
    BY <2>5, <2>6, <2>7, <2>8
<1>5. msgOut' \in Seq(MsgLine)
  <2>1. \/ msgOut' = msgOut \o <<End("main")>>
        \/ msgOut' = msgOut \o <<End("related")>>
    BY DEF EmbedEnd, EndBoundary, Writes, ImageBoundary
  <2> QED
    BY <1>1, <1>3, <2>1, LinesJoin, OneMore
<1>6. CASE EmbedEnd
  <2>1. msgPc = "images" /\ msgPc' = "attachments"
    BY <1>6 DEF EmbedEnd, Goes
  <2>2. ASSUME Apart PROVE Building'
    <3>1. Building /\ Has("embed")
      BY <1>1, <2>1, <2>2 DEF BoundaryInv, Building
    <3>2. msgOut' = msgOut \o <<End("main")>>
      BY <1>6, <2>2, <3>1 DEF EmbedEnd, Writes, ImageBoundary, Apart
    <3>3. /\ Announced(msgOut') /\ ClosedBut(msgOut', {}) /\ In(msgOut', Multipart("main"))
      BY <1>4, <2>2, <3>1, <3>2
    <3>4. ClosedBut(msgOut', {"main"})
      BY <3>3 DEF ClosedBut
    <3> QED
      BY <1>2, <2>1, <3>1, <3>3, <3>4 DEF Building
  <2> QED
    BY <1>1, <1>2, <1>5, <2>1, <2>2 DEF MultipartInv, Writing, BoundaryInv, Succeeded
<1>7. CASE EndBoundary
  <2>1. msgPc = "attachments" /\ msgPc' = "done" /\ msgOut' = msgOut \o <<End("main")>>
    BY <1>7 DEF EndBoundary, Goes, Writes
  <2>2. Apart => Announced(msgOut') /\ ClosedBut(msgOut', {})
    BY <1>1, <1>4, <2>1 DEF BoundaryInv
  <2> QED
    BY <1>1, <1>2, <1>5, <2>1, <2>2 DEF MultipartInv, Writing, BoundaryInv
<1> QED
  BY <1>6, <1>7

LEMMA MultipartStep ==
  ASSUME MultipartInv, [MsgNext]_msgVars
  PROVE  MultipartInv'
<1>1. CASE UNCHANGED msgVars
  BY <1>1 DEF msgVars, MultipartInv, Writing, BoundaryInv, Building, Apart, Has, Mixed,
              Succeeded
<1>2. CASE Oneline
  <2>1. /\ msgPc = "onelines" /\ msgPc' = "onelines" /\ msgAt' = msgAt + 1 /\ KeepsLists
        /\ \/ msgOut' = msgOut \o <<Part("main"), Content(<<"M", msgAt>>)>>
           \/ msgOut' = msgOut \o <<Part("main")>>
    BY <1>2 DEF Oneline, Goes, Writes
  <2>2. "M" \in OptionKinds
    BY DEF OptionKinds
  <2> QED
    BY <2>1, <2>2, PartSteps
<1>3. ASSUME NEW k \in {"embed", "attach"}, NEW b \in {"main", "related"}, NEW pc,
             SendAttachment(k, b, pc)
      PROVE  /\ KeepsLists /\ k \in OptionKinds
             /\ \/ /\ msgPc' = pc /\ msgAt' = msgAt + 1
                   /\ msgOut' = msgOut \o <<Part(b), Content(<<k, msgAt>>)>>
                \/ /\ msgPc' = "done" /\ msgRc' = -1 /\ msgAt' = msgAt
                   /\ msgOut' = msgOut \o << >>
  BY <1>3 DEF SendAttachment, Writes, Goes, Fails, OptionKinds
<1>4. CASE EmbedImage
  <2>1. msgPc = "images" /\ SendAttachment("embed", ImageBoundary, "images")
    BY <1>4 DEF EmbedImage
  <2>2. /\ ImageBoundary \in {"main", "related"}
        /\ ImageBoundary = "related" => Mixed
    BY DEF ImageBoundary
  <2>3. /\ KeepsLists /\ "embed" \in OptionKinds
        /\ \/ /\ msgPc' = "images" /\ msgAt' = msgAt + 1
              /\ msgOut' = msgOut \o <<Part(ImageBoundary), Content(<<"embed", msgAt>>)>>
           \/ /\ msgPc' = "done" /\ msgRc' = -1 /\ msgAt' = msgAt
              /\ msgOut' = msgOut \o << >>
    BY <1>3, <2>1, <2>2
  <2>4. CASE ImageBoundary = "main"
    BY <2>1, <2>3, <2>4, PartSteps
  <2>5. CASE ImageBoundary = "related" /\ ~Apart
    BY <2>1, <2>3, <2>5, PartSteps
  <2>6. CASE ImageBoundary = "related" /\ Apart
    <3>1. ~Has("embed")
      BY <2>2, <2>6 DEF Apart
    <3>2. Has("embed")
      BY <2>1, <2>6 DEF MultipartInv, BoundaryInv, Building
    <3> QED
      BY <3>1, <3>2
  <2> QED
    BY <2>2, <2>4, <2>5, <2>6
<1>5. CASE Attach
  <2>1. msgPc = "attachments" /\ msgAt <= Len(msgLists["attach"])
        /\ SendAttachment("attach", "main", "attachments")
    BY <1>5 DEF Attach
  <2>2. /\ KeepsLists /\ "attach" \in OptionKinds
        /\ \/ /\ msgPc' = "attachments" /\ msgAt' = msgAt + 1
              /\ msgOut' = msgOut \o <<Part("main"), Content(<<"attach", msgAt>>)>>
           \/ /\ msgPc' = "done" /\ msgRc' = -1 /\ msgAt' = msgAt
              /\ msgOut' = msgOut \o << >>
    BY <1>3, <2>1
  <2>3. Has("attach")
    <3>1. msgAt \in Nat \ {0}
      BY DEF MultipartInv, Writing
    <3>2. CASE msgLists["attach"] = << >>
      <4>1. msgAt <= 0
        BY <2>1, <3>2
      <4> QED
        BY <3>1, <4>1
    <3> QED
      BY <3>2 DEF Has
  <2>4. Apart => ~Has("embed")
    BY <2>3 DEF Apart, Mixed
  <2> QED
    BY <2>1, <2>2, <2>4, PartSteps
<1> QED
  BY <1>1, <1>2, <1>4, <1>5, SimpleSteps, EmbedHeadStep, EndSteps DEF MsgNext

(* Every part stands in a multipart that is announced and not yet closed,  *)
(* and a message that is finished has closed them all, for any number of   *)
(* messages, images or attachments, images together with other parts       *)
(* excepted (smtp.c:795-1063).                                             *)
THEOREM PartsStandInMultiparts == MsgSpec => []MultipartsClose
<1>1. MultipartInv => MultipartsClose
  <2> SUFFICES ASSUME MultipartInv, Succeeded, Apart, NEW k \in DOMAIN msgOut
               PROVE  /\ msgOut[k].kind = "part" =>
                           /\ \E j \in 1 .. k : msgOut[j] = Multipart(msgOut[k].of)
                           /\ ~\E j \in 1 .. k : msgOut[j] = End(msgOut[k].of)
                      /\ msgOut[k].kind = "multipart" =>
                           \E j \in k .. Len(msgOut) : msgOut[j] = End(msgOut[k].of)
    BY DEF MultipartsClose, PartsInside, Apart
  <2>1. k \in 1 .. Len(msgOut) /\ Announced(msgOut) /\ ClosedBut(msgOut, {})
    BY LenProperties DEF MultipartInv, Writing, BoundaryInv
  <2> QED
    BY <2>1 DEF Announced, ClosedBut
<1> QED
  BY <1>1, MultipartStart, MultipartStep, PTL DEF MsgSpec

-----------------------------------------------------------------------------
(* The temporary files.                                                    *)

LeftBehind == \A t \in msgTemps : t[1] = "unopened" \/ t[2] \in msgLost
AllClosed == msgOpen = {} \/ msgLost # {} \/ (msgPc = "done" /\ msgRc = -1)
TempsInv == LeftBehind /\ AllClosed

LEMMA EncodingsLeave ==
  ASSUME NEW a, NEW i, NEW r \in Encodings(a, i), NEW t \in r.temps
  PROVE  t[1] = "unopened"
<1>1. \A u \in TempOutcomes : u.left \subseteq {<<"unopened", 1>>}
  BY DEF TempOutcomes
<1>2. r.temps \subseteq {<<"unopened", 1>>}
  <2>1. CASE a.enc # "base64"
    BY <2>1 DEF Encodings, Result
  <2>2. CASE a.enc = "base64"
    <3>1. PICK u \in TempOutcomes :
            r \in IF ~u.opened THEN {Result(FALSE, u.left, {})}
                  ELSE {Result(FALSE, u.left, {<<"write", i>>}), Result(FALSE, u.left, {})}
                       \cup IF a.file = "gone" THEN {} ELSE {Result(TRUE, u.left, {})}
      BY <2>2 DEF Encodings
    <3>2. r.temps = u.left
      BY <3>1 DEF Result
    <3> QED
      BY <1>1, <3>2
  <2> QED
    BY <2>1, <2>2
<1> QED
  BY <1>2

LEMMA OnelinesLeave ==
  ASSUME NEW i, NEW r \in OnelineEncodings(i), NEW t \in r.temps
  PROVE  t[1] = "unopened" \/ (t[2] = i /\ ~r.ok)
<1>1. \A u \in TempOutcomes : u.left \subseteq {<<"unopened", 1>>}
  BY DEF TempOutcomes
<1> DEFINE F(u, v) ==
      IF ~u.opened THEN {Result(FALSE, u.left, {})}
      ELSE IF ~v.opened THEN {Result(FALSE, u.left \cup v.left \cup {<<"one", i>>}, {})}
      ELSE LET left == u.left \cup v.left
               both == left \cup {<<"one", i>>, <<"two", i>>}
           IN {Result(FALSE, both, {<<"write", i>>}), Result(FALSE, both, {}),
               Result(TRUE, left, {})}
<1>2. PICK u \in TempOutcomes, v \in TempOutcomes : r \in F(u, v)
  <2>1. OnelineEncodings(i) = UNION {F(u, v) : u \in TempOutcomes, v \in TempOutcomes}
    BY DEF OnelineEncodings
  <2> HIDE DEF F
  <2> QED
    BY <2>1
<1>3. \/ r.temps \subseteq u.left \cup v.left
      \/ ~r.ok /\ r.temps \subseteq u.left \cup v.left \cup {<<"one", i>>, <<"two", i>>}
  BY <1>2 DEF Result
<1>4. t = <<"unopened", 1>> \/ (~r.ok /\ t \in {<<"one", i>>, <<"two", i>>})
  BY <1>1, <1>3
<1> QED
  BY <1>4

(* A FILE that nobody closes belongs to a step that failed.                *)
LEMMA OpenIsFailed ==
  ASSUME NEW a, NEW i, NEW r \in Encodings(a, i) \cup OnelineEncodings(i), r.open # {}
  PROVE  ~r.ok
<1>1. CASE r \in Encodings(a, i)
  BY <1>1 DEF Encodings, Result
<1>2. CASE r \in OnelineEncodings(i)
  BY <1>2 DEF OnelineEncodings, Result
<1> QED
  BY <1>1, <1>2

LEMMA TempsStep ==
  ASSUME TempsInv, [MsgNext]_msgVars
  PROVE  TempsInv'
<1>1. CASE UNCHANGED <<msgTemps, msgOpen, msgLost>> /\ (msgPc # "done" \/ UNCHANGED msgVars)
  BY <1>1 DEF TempsInv, LeftBehind, AllClosed, msgVars
<1>2. CASE Oneline
  <2>1. PICK r \in IF msgLists["M"][msgAt].enc = "base64"
                   THEN OnelineEncodings(<<"M", msgAt>>) ELSE {Result(TRUE, {}, {})} :
          /\ msgTemps' = msgTemps \cup r.temps /\ msgOpen' = msgOpen \cup r.open
          /\ msgLost' = IF r.ok THEN msgLost ELSE msgLost \cup {<<"M", msgAt>>}
    BY <1>2 DEF Oneline
  <2>2. \A t \in r.temps : t[1] = "unopened" \/ (t[2] = <<"M", msgAt>> /\ ~r.ok)
    BY <2>1, OnelinesLeave DEF Result
  <2>3. r.open # {} => ~r.ok
    BY <2>1, OpenIsFailed DEF Result
  <2>4. msgPc # "done"
    BY <1>2 DEF Oneline
  <2> QED
    BY <2>1, <2>2, <2>3, <2>4 DEF TempsInv, LeftBehind, AllClosed
<1>3. CASE EmbedImage \/ Attach
  <2>1. \E a, i : \E r \in Encodings(a, i) :
          /\ msgTemps' = msgTemps \cup r.temps /\ msgOpen' = msgOpen \cup r.open
          /\ msgLost' = msgLost /\ (~r.ok => Fails)
    BY <1>3 DEF EmbedImage, Attach, SendAttachment
  <2>2. PICK a, i : \E r \in Encodings(a, i) :
          /\ msgTemps' = msgTemps \cup r.temps /\ msgOpen' = msgOpen \cup r.open
          /\ msgLost' = msgLost /\ (~r.ok => Fails)
    BY <2>1
  <2>3. PICK r \in Encodings(a, i) :
          /\ msgTemps' = msgTemps \cup r.temps /\ msgOpen' = msgOpen \cup r.open
          /\ msgLost' = msgLost /\ (~r.ok => Fails)
    BY <2>2
  <2>4. LeftBehind'
    BY <2>3, EncodingsLeave DEF TempsInv, LeftBehind
  <2>5. msgPc # "done" /\ (r.open # {} => ~r.ok)
    BY <1>3, <2>3, OpenIsFailed DEF EmbedImage, Attach
  <2> QED
    BY <2>3, <2>4, <2>5 DEF TempsInv, AllClosed, Fails
<1> QED
  BY <1>1, <1>2, <1>3 DEF MsgNext, msgVars, ReadOption, Headers, Body, InputLine, EmbedHead,
                          EmbedEnd, EndBoundary, KeepsFiles

(* Whichever steps fail, what is left in the end of temporary files is     *)
(* what no FILE was made for, and what belongs to one-line messages that   *)
(* were lost; where nothing failed every FILE is closed (smtp.c:441-513,   *)
(* 682-763, mutils_temp.c:31-178).                                         *)
THEOREM FailuresAloneLeak == MsgSpec => []OnlyFailuresLeak
<1>1. MsgInit => TempsInv
  BY DEF MsgInit, TempsInv, LeftBehind, AllClosed
<1>2. TempsInv => OnlyFailuresLeak
  BY DEF TempsInv, LeftBehind, AllClosed, OnlyFailuresLeak, Succeeded
<1> QED
  BY <1>1, <1>2, TempsStep, PTL DEF MsgSpec

-----------------------------------------------------------------------------
(* What the lists hold, and how far the message has come: the items that   *)
(* stand before the place of smtpMail in the lists.                        *)

Described ==
  [file : Files, charset : {"utf-8", "none"}, enc : {Null, "none", "base64"},
   mime : {Null, "text", "other", "given", "extension"}, inline : BOOLEAN,
   name : {Null, "given", "filename"}, id : {Null, "given"}]
Ready == {a \in Described : a.enc # Null /\ a.mime # Null}
ListedAs(k) == IF k = "body" THEN Described ELSE Ready
ListsInv ==
  /\ msgSet \in MsgSettingType /\ msgArgs \in Seq(CommandType)
  /\ DOMAIN msgLists = OptionKinds
  /\ msgLists = [k \in OptionKinds |-> msgLists[k]]
  /\ \A k \in OptionKinds : msgLists[k] \in Seq(ListedAs(k))
  /\ msgPc = "options" => msgAt = 1

Now == [onelines |-> 1, images |-> 2, attachments |-> 3]
Passed(pc, at) ==
  {i \in Items : Rank[i[1]] < Now[pc] \/ (Rank[i[1]] = Now[pc] /\ i[2] < at)}
Carries(out, items) ==
  /\ \A i : i \in items <=>
              \E k \in 1 .. Len(out) : out[k].kind = "content" /\ out[k].of = i
  /\ \A j, k \in 1 .. Len(out) :
       j < k /\ out[j].kind = "content" /\ out[k].kind = "content" =>
         Before(out[j].of, out[k].of)

Placed == msgPc \in {"onelines", "images", "attachments"}
FillInv ==
  /\ msgLost \subseteq Encoded
  /\ msgPc = "options" => msgOut = << >> /\ msgLost = {}
  /\ msgPc = "body" => Has("body")
  /\ msgPc = "input" => ~IsMime
  /\ Placed => /\ Carries(msgOut, Passed(msgPc, msgAt) \ msgLost)
               /\ msgLost \subseteq Passed(msgPc, msgAt)
  /\ Succeeded /\ IsMime /\ ~Has("body") => Carries(msgOut, Items \ msgLost)

(* Every option that is listed is given an encoding and a type.            *)
LEMMA ListedIsReady ==
  ASSUME msgSet \in MsgSettingType, NEW o \in CommandType
  PROVE  Listed(o) \in ListedAs(o.opt)
<1> DEFINE a0 == Allocated(o.file)
           a1 == FromTokens(a0, o)
           a2 == ForBinary(a1)
<1>1. /\ msgSet.mime \in {Null, "text", "other"} /\ msgSet.enc \in {Null, "none", "base64"}
      /\ msgSet.id \in {Null, "given"} /\ msgSet.name \in {Null, "given"}
      /\ o.file \in Files /\ o.inline \in BOOLEAN /\ o.id \in BOOLEAN
      /\ o.enc \in {"none", "base64"} /\ o.opt \in OptionKinds /\ o.tokens \in 1 .. 7
  BY DEF MsgSettingType, CommandType
<1>2. a0 \in Described /\ a0.enc = msgSet.enc
  BY <1>1 DEF Allocated, Described
<1>3. Null \notin {"text", "other", "given", "extension", "none", "base64", "filename"}
  BY DEF Null
<1>4. CASE o.opt = "attach"
  <2> HIDE DEF a0
  <2>1. /\ a1 \in Described /\ a1.enc \in {msgSet.enc, "none", "base64"}
    <3>1. a1 = [a0 EXCEPT !.mime = IF o.tokens >= 2 THEN "given" ELSE @,
                          !.inline = o.tokens >= 3 /\ o.inline,
                          !.name = IF o.tokens >= 4 THEN "given" ELSE @,
                          !.id = IF o.tokens >= 5 /\ o.id THEN "given" ELSE @,
                          !.enc = IF o.tokens = 6 THEN o.enc ELSE @]
      BY DEF FromTokens
    <3> HIDE DEF a1
    <3>2. a1 \in Described
      <4> DEFINE mime == IF o.tokens >= 2 THEN "given" ELSE a0.mime
                 inline == o.tokens >= 3 /\ o.inline
                 name == IF o.tokens >= 4 THEN "given" ELSE a0.name
                 id == IF o.tokens >= 5 /\ o.id THEN "given" ELSE a0.id
                 enc == IF o.tokens = 6 THEN o.enc ELSE a0.enc
      <4>1. /\ mime \in {Null, "text", "other", "given", "extension"}
            /\ name \in {Null, "given", "filename"} /\ id \in {Null, "given"}
            /\ enc \in {Null, "none", "base64"} /\ inline \in BOOLEAN
        BY <1>1, <1>2 DEF Described
      <4>2. a1 = [a0 EXCEPT !.mime = mime, !.inline = inline, !.name = name, !.id = id,
                            !.enc = enc]
        BY <1>2, <3>1 DEF Described
      <4> HIDE DEF mime, inline, name, id, enc
      <4> QED
        BY <1>2, <4>1, <4>2 DEF Described
    <3>3. a1.enc \in {msgSet.enc, "none", "base64"}
      BY <1>1, <1>2, <3>1 DEF Described
    <3> QED
      BY <3>2, <3>3
  <2> HIDE DEF a1
  <2>2. /\ a2 \in Described /\ a2.enc \in {msgSet.enc, "none", "base64"}
    BY <2>1 DEF ForBinary, Described
  <2> HIDE DEF a2
  <2>3. Or(msgSet.mime, "extension") \in {"text", "other", "extension"}
    BY <1>1, <1>3 DEF Or
  <2>4. /\ Or(a2.mime, Or(msgSet.mime, "extension")) \in
             {"text", "other", "given", "extension"}
        /\ Or(a2.id, msgSet.id) \in {Null, "given"}
        /\ Or(a2.name, "filename") \in {Null, "given", "filename"}
    BY <1>1, <2>2, <2>3 DEF Or, Described
  <2>5. (IF a2.enc = Null /\ msgSet.enc = Null THEN "base64" ELSE a2.enc)
          \in {"none", "base64"}
    BY <1>1, <2>2
  <2>6. Defaults(a2) = [a2 EXCEPT
          !.mime = Or(a2.mime, Or(msgSet.mime, "extension")),
          !.enc = IF a2.enc = Null /\ msgSet.enc = Null THEN "base64" ELSE a2.enc,
          !.id = Or(a2.id, msgSet.id), !.name = Or(a2.name, "filename")]
    BY <2>2 DEF Defaults, Described
  <2>7. /\ Defaults(a2) \in Described /\ Defaults(a2).enc \in {"none", "base64"}
        /\ Defaults(a2).mime \in {"text", "other", "given", "extension"}
    BY <2>2, <2>4, <2>5, <2>6 DEF Described
  <2>8. Listed(o) = Defaults(a2)
    BY <1>4 DEF Listed, AttachmentOf, a2, a1, a0
  <2>9. o.opt # "body"
    BY <1>4
  <2> QED
    BY <1>3, <2>7, <2>8, <2>9 DEF ListedAs, Ready
<1>5. CASE o.opt = "embed"
  <2>1. Listed(o) = [a0 EXCEPT !.charset = "none", !.mime = Or(a0.mime, "extension"),
                               !.enc = Or(a0.enc, "base64")]
    BY <1>2, <1>5 DEF Listed, ImageOf, Described
  <2> HIDE DEF a0
  <2>2. /\ Or(a0.mime, "extension") \in {"text", "other", "given", "extension"}
        /\ Or(a0.enc, "base64") \in {"none", "base64"}
    BY <1>2 DEF Or, Described
  <2> QED
    BY <1>2, <1>3, <1>5, <2>1, <2>2 DEF ListedAs, Ready, Described
<1>6. CASE o.opt = "M"
  <2>1. Listed(o) = [a0 EXCEPT !.inline = TRUE, !.mime = Or(a0.mime, "text"),
                               !.enc = Or(a0.enc, "none")]
    BY <1>2, <1>6 DEF Listed, OnelineOf, Described
  <2> HIDE DEF a0
  <2>2. /\ Or(a0.mime, "text") \in {"text", "other", "given", "extension"}
        /\ Or(a0.enc, "none") \in {"none", "base64"}
    BY <1>2 DEF Or, Described
  <2> QED
    BY <1>2, <1>3, <1>6, <2>1, <2>2 DEF ListedAs, Ready, Described
<1>7. CASE o.opt = "body"
  BY <1>2, <1>7 DEF Listed, ListedAs
<1> QED
  BY <1>1, <1>4, <1>5, <1>6, <1>7 DEF OptionKinds

LEMMA ListsStart ==
  ASSUME MsgInit
  PROVE  ListsInv
BY MessageAssumption DEF MsgInit, ListsInv

LEMMA ListsStep ==
  ASSUME ListsInv, [MsgNext]_msgVars
  PROVE  ListsInv'
<1>1. CASE UNCHANGED <<msgSet, msgArgs, msgLists>> /\ (msgPc' = "options" => msgPc = "options"
                                                      /\ msgAt' = msgAt)
  BY <1>1 DEF ListsInv
<1>2. CASE ReadOption
  <2> DEFINE o == Head(msgArgs)
  <2>1. msgArgs \in Seq(CommandType) /\ msgArgs # << >> /\ msgArgs' = Tail(msgArgs)
    BY <1>2 DEF ReadOption, ListsInv
  <2>2. o \in CommandType /\ msgArgs' \in Seq(CommandType)
    BY <2>1, HeadTailProperties
  <2>3. /\ msgSet' = msgSet /\ msgPc = "options" /\ msgAt' = msgAt
        /\ \/ msgLists' = msgLists
           \/ msgLists' = [msgLists EXCEPT ![o.opt] = Append(@, Listed(o))]
    BY <1>2 DEF ReadOption, ListsInv
  <2> HIDE DEF o
  <2>4. /\ DOMAIN msgLists' = OptionKinds
        /\ msgLists' = [k \in OptionKinds |-> msgLists'[k]]
    BY <2>3 DEF ListsInv
  <2>5. o.opt \in OptionKinds /\ Listed(o) \in ListedAs(o.opt)
    BY <2>2, ListedIsReady DEF ListsInv, CommandType
  <2>6. ASSUME NEW k \in OptionKinds
        PROVE  msgLists'[k] \in Seq(ListedAs(k))
    <3>1. CASE msgLists'[k] = msgLists[k]
      BY <3>1 DEF ListsInv
    <3>2. CASE k = o.opt /\ msgLists'[k] = Append(msgLists[k], Listed(o))
      <4>1. msgLists[k] \in Seq(ListedAs(k))
        BY DEF ListsInv
      <4> QED
        BY <2>5, <3>2, <4>1, AppendProperties
    <3> QED
      BY <2>3, <3>1, <3>2 DEF ListsInv
  <2> QED
    BY <2>2, <2>3, <2>4, <2>6 DEF ListsInv
<1>3. CASE Headers \/ Body \/ InputLine \/ Oneline \/ EmbedHead \/ EmbedImage \/ EmbedEnd
           \/ Attach \/ EndBoundary
  <2>1. KeepsLists /\ msgPc' # "options"
    BY <1>3 DEF Headers, Body, InputLine, Oneline, EmbedHead, EmbedImage, EmbedEnd, Attach,
                EndBoundary, SendAttachment, Goes, Fails
  <2> QED
    BY <1>1, <2>1 DEF KeepsLists
<1> QED
  BY <1>1, <1>2, <1>3 DEF MsgNext, msgVars

(* What is listed is ready to be sent, and the place is one of a list.     *)
LEMMA PlaceStep ==
  ASSUME ListsInv, MsgTypeOK, [MsgNext]_msgVars, ListsInv'
  PROVE  MsgTypeOK'
<1>1. \A k \in OptionKinds : \A i \in DOMAIN msgLists'[k] :
        k # "body" => msgLists'[k][i].enc # Null /\ msgLists'[k][i].mime # Null
  <2> SUFFICES ASSUME NEW k \in OptionKinds, NEW i \in DOMAIN msgLists'[k], k # "body"
               PROVE  msgLists'[k][i].enc # Null /\ msgLists'[k][i].mime # Null
    OBVIOUS
  <2>1. msgLists'[k] \in Seq(ListedAs(k))
    BY DEF ListsInv
  <2>2. msgLists'[k][i] \in ListedAs(k)
    BY <2>1
  <2> QED
    BY <2>2 DEF ListedAs, Ready
<1>2. /\ "M" \in OptionKinds /\ "attach" \in OptionKinds /\ "embed" \in OptionKinds
      /\ \A k \in OptionKinds : Len(msgLists[k]) \in Nat /\ Len(msgLists'[k]) \in Nat
  BY LenProperties DEF OptionKinds, ListsInv
<1>3. CASE UNCHANGED <<msgPc, msgAt, msgRc, msgLists>>
  BY <1>3 DEF MsgTypeOK
<1>4. CASE ReadOption
  <2>1. msgAt' = 1 /\ msgPc' \in {"options", "exit"} /\ msgRc' \in {-1, 0, 1}
    BY <1>4 DEF ReadOption, ListsInv, MsgTypeOK
  <2>2. 1 \in 1 .. 1 + Len(msgLists'["M"])
    BY <1>2
  <2> QED
    BY <1>1, <1>2, <2>1, <2>2 DEF MsgTypeOK
<1>5. ASSUME KeepsLists, msgRc' \in {-1, msgRc},
             msgPc' \in {"body", "input", "onelines", "images", "attachments", "done"},
             \/ msgAt' = msgAt \/ msgAt' = 1
             \/ \E k \in OptionKinds : msgAt <= Len(msgLists[k]) /\ msgAt' = msgAt + 1
      PROVE  MsgTypeOK'
  <2>1. PICK k \in OptionKinds : msgAt \in 1 .. 1 + Len(msgLists[k])
    BY DEF MsgTypeOK
  <2>2. \E j \in OptionKinds : msgAt' \in 1 .. 1 + Len(msgLists'[j])
    <3>1. CASE msgAt' = msgAt
      BY <1>5, <2>1, <3>1 DEF KeepsLists
    <3>2. CASE msgAt' = 1
      <4>1. 1 \in 1 .. 1 + Len(msgLists'["M"])
        BY <1>2
      <4> QED
        BY <1>2, <3>2, <4>1
    <3>3. ASSUME NEW j \in OptionKinds, msgAt <= Len(msgLists[j]), msgAt' = msgAt + 1
          PROVE  msgAt' \in 1 .. 1 + Len(msgLists'[j])
      BY <1>2, <1>5, <2>1, <3>3 DEF KeepsLists
    <3> QED
      BY <1>5, <3>1, <3>2, <3>3
  <2>3. msgRc' \in {-1, 0, 1}
    BY <1>5 DEF MsgTypeOK
  <2> QED
    BY <1>1, <1>5, <2>2, <2>3 DEF MsgTypeOK
<1>6. CASE Headers \/ Body \/ InputLine \/ EmbedHead \/ EmbedEnd \/ EndBoundary
  BY <1>5, <1>6 DEF Headers, Body, InputLine, EmbedHead, EmbedEnd, EndBoundary, Goes, Fails
<1>7. CASE Oneline
  BY <1>2, <1>5, <1>7 DEF Oneline, Goes
<1>8. ASSUME NEW k \in OptionKinds, msgAt <= Len(msgLists[k]), NEW b,
             NEW pc \in {"images", "attachments"}, SendAttachment(k, b, pc)
      PROVE  MsgTypeOK'
  BY <1>5, <1>8 DEF SendAttachment, Goes, Fails
<1> QED
  BY <1>2, <1>3, <1>4, <1>6, <1>7, <1>8 DEF MsgNext, msgVars, EmbedImage, Attach

(* The encoding and the type of every image, attachment and one-line       *)
(* message are set before smtpMail uses them (setget.c:289-409,            *)
(* smtp.c:795-1063).                                                       *)
THEOREM ListedIsTyped == MsgSpec => []MsgTypeOK
<1>1. MsgInit => MsgTypeOK
  <2> SUFFICES ASSUME MsgInit PROVE MsgTypeOK
    OBVIOUS
  <2>1. \A k \in OptionKinds : msgLists[k] = << >>
    BY DEF MsgInit
  <2>2. "M" \in OptionKinds /\ 1 \in 1 .. 1 + Len(msgLists["M"])
    BY <2>1 DEF OptionKinds
  <2>3. msgPc = "options" /\ msgAt = 1 /\ msgRc = 0
    BY DEF MsgInit
  <2> QED
    BY <2>1, <2>2, <2>3 DEF MsgTypeOK
<1> QED
  BY <1>1, ListsStart, ListsStep, PlaceStep, PTL DEF MsgSpec

(* The text carries one item more, or what it carried.                     *)
LEMMA NoItemMore ==
  ASSUME NEW out \in Seq(MsgLine), NEW line \in MsgLine, NEW items,
         line.kind # "content", Carries(out, items)
  PROVE  Carries(Append(out, line), items)
<1> DEFINE more == Append(out, line)
<1>1. /\ Len(out) \in Nat /\ Len(more) = Len(out) + 1
      /\ \A k \in 1 .. Len(out) : more[k] = out[k]
      /\ more[Len(out) + 1] = line
      /\ \A k \in 1 .. Len(more) : k \in 1 .. Len(out) \/ k = Len(out) + 1
  BY OneMore
<1> HIDE DEF more
<1>2. 1 .. Len(out) \subseteq 1 .. Len(more)
  BY <1>1
<1>3. \A k \in 1 .. Len(more) :
        more[k].kind = "content" => k \in 1 .. Len(out) /\ out[k] = more[k]
  BY <1>1
<1>4. Carries(more, items)
  BY <1>1, <1>2, <1>3 DEF Carries
<1> QED
  BY <1>4 DEF more

LEMMA ItemMore ==
  ASSUME NEW out \in Seq(MsgLine), NEW line \in MsgLine, NEW items,
         line.kind = "content", Carries(out, items), \A j \in items : Before(j, line.of)
  PROVE  Carries(Append(out, line), items \cup {line.of})
<1> DEFINE more == Append(out, line)
<1>1. /\ Len(out) \in Nat /\ Len(more) = Len(out) + 1
      /\ \A k \in 1 .. Len(out) : more[k] = out[k]
      /\ more[Len(out) + 1] = line
      /\ \A k \in 1 .. Len(more) : k \in 1 .. Len(out) \/ k = Len(out) + 1
  BY OneMore
<1> HIDE DEF more
<1>2. 1 .. Len(out) \subseteq 1 .. Len(more) /\ Len(out) + 1 \in 1 .. Len(more)
  BY <1>1
<1>3. ASSUME NEW i
      PROVE  i \in items \cup {line.of} <=>
               \E k \in 1 .. Len(more) : more[k].kind = "content" /\ more[k].of = i
  <2>1. i \in items <=> \E k \in 1 .. Len(out) : out[k].kind = "content" /\ out[k].of = i
    BY DEF Carries
  <2> QED
    BY <1>1, <1>2, <2>1
<1>4. ASSUME NEW j \in 1 .. Len(more), NEW k \in 1 .. Len(more), j < k,
             more[j].kind = "content", more[k].kind = "content"
      PROVE  Before(more[j].of, more[k].of)
  <2>1. j \in 1 .. Len(out)
    BY <1>1, <1>4
  <2>2. CASE k \in 1 .. Len(out)
    BY <1>1, <1>4, <2>1, <2>2 DEF Carries
  <2>3. CASE k = Len(out) + 1
    <3>1. out[j].kind = "content" /\ more[j].of = out[j].of /\ more[k].of = line.of
      BY <1>1, <1>4, <2>1, <2>3
    <3>2. out[j].of \in items
      BY <2>1, <3>1 DEF Carries
    <3> QED
      BY <3>1, <3>2
  <2> QED
    BY <1>1, <2>2, <2>3
<1>5. Carries(more, items \cup {line.of})
  BY <1>3, <1>4 DEF Carries
<1> QED
  BY <1>5 DEF more

(* The items, one by one, and which of them are passed.                    *)
LEMMA ItemsAre ==
  ASSUME ListsInv
  PROVE  /\ \A k \in {"M", "embed", "attach"} :
              Len(msgLists[k]) \in Nat /\ DOMAIN msgLists[k] = 1 .. Len(msgLists[k])
         /\ \A i : i \in Items <=> \E k \in {"M", "embed", "attach"} :
                                     \E n \in 1 .. Len(msgLists[k]) : i = <<k, n>>
<1>1. /\ DOMAIN Rank = {"M", "embed", "attach"}
      /\ {"M", "embed", "attach"} \subseteq OptionKinds
  BY DEF Rank, OptionKinds
<1>2. \A k \in {"M", "embed", "attach"} :
        Len(msgLists[k]) \in Nat /\ DOMAIN msgLists[k] = 1 .. Len(msgLists[k])
  BY <1>1, LenProperties DEF ListsInv
<1>3. Items = UNION {{<<k, n>> : n \in DOMAIN msgLists[k]} : k \in {"M", "embed", "attach"}}
  BY <1>1 DEF Items
<1> QED
  BY <1>2, <1>3

LEMMA PassedAre ==
  ASSUME ListsInv, NEW pc, NEW at
  PROVE  /\ Passed(pc, at) \subseteq Items
         /\ \A k \in {"M", "embed", "attach"} : \A n \in 1 .. Len(msgLists[k]) :
              <<k, n>> \in Passed(pc, at)
                <=> Rank[k] < Now[pc] \/ (Rank[k] = Now[pc] /\ n < at)
BY ItemsAre DEF Passed

LEMMA Ranks ==
  /\ Rank["M"] = 1 /\ Rank["embed"] = 2 /\ Rank["attach"] = 3
  /\ Now["onelines"] = 1 /\ Now["images"] = 2 /\ Now["attachments"] = 3
BY DEF Rank, Now

(* One item is passed: the kind k has the turn.                            *)
HasTurn(k, pc, at) ==
  /\ k \in {"M", "embed", "attach"} /\ Now[pc] = Rank[k]
  /\ at \in 1 .. Len(msgLists[k])
IsNext(k, pc, at) ==
  /\ <<k, at>> \in Items /\ <<k, at>> \notin Passed(pc, at)
  /\ Passed(pc, at + 1) = Passed(pc, at) \cup {<<k, at>>}
  /\ \A i \in Passed(pc, at) : Before(i, <<k, at>>)

LEMMA OnePassed ==
  ASSUME ListsInv, NEW k, NEW pc, NEW at, HasTurn(k, pc, at)
  PROVE  IsNext(k, pc, at)
<1>0. /\ k \in {"M", "embed", "attach"} /\ Now[pc] = Rank[k]
      /\ at \in 1 .. Len(msgLists[k])
  BY DEF HasTurn
<1>1. at \in Nat /\ <<k, at>> \in Items /\ Rank[k] \in Nat
  BY <1>0, ItemsAre, Ranks
<1>2. ASSUME NEW i \in Items
      PROVE  /\ i \in Passed(pc, at + 1) <=> i \in Passed(pc, at) \/ i = <<k, at>>
             /\ i \in Passed(pc, at) => Before(i, <<k, at>>)
             /\ i \in Passed(pc, at) => i # <<k, at>>
  <2>1. PICK l \in {"M", "embed", "attach"}, n \in Nat :
             n \in 1 .. Len(msgLists[l]) /\ i = <<l, n>>
    BY ItemsAre
  <2>2. n \in Nat /\ Rank[l] \in Nat
    BY <2>1, ItemsAre, Ranks
  <2>3. /\ i \in Passed(pc, at) <=> Rank[l] < Rank[k] \/ (Rank[l] = Rank[k] /\ n < at)
        /\ i \in Passed(pc, at + 1)
             <=> Rank[l] < Rank[k] \/ (Rank[l] = Rank[k] /\ n < at + 1)
    BY <1>0, <2>1, PassedAre
  <2>4. Rank[l] = Rank[k] <=> l = k
    BY <1>0, Ranks
  <2>5. i = <<k, at>> <=> l = k /\ n = at
    BY <2>1
  <2>6. Before(i, <<k, at>>) <=> Rank[l] < Rank[k] \/ (l = k /\ n < at)
    BY <2>1 DEF Before
  <2> QED
    BY <1>1, <2>2, <2>3, <2>4, <2>5, <2>6
<1>3. Passed(pc, at) \subseteq Items /\ Passed(pc, at + 1) \subseteq Items
  BY PassedAre
<1> QED
  BY <1>1, <1>2, <1>3 DEF IsNext

(* Nothing stands between the places of the program.                       *)
LEMMA PassedOn ==
  ASSUME ListsInv, NEW at \in Nat
  PROVE  /\ Passed("onelines", 1) = {}
         /\ at > Len(msgLists["M"]) => Passed("images", 1) = Passed("onelines", at)
         /\ at > Len(msgLists["M"]) /\ ~Has("embed") =>
              Passed("attachments", 1) = Passed("onelines", at)
         /\ at > Len(msgLists["embed"]) => Passed("attachments", 1) = Passed("images", at)
         /\ at > Len(msgLists["attach"]) => Items = Passed("attachments", at)
<1>1. ASSUME NEW i \in Items
      PROVE  /\ i \notin Passed("onelines", 1)
             /\ at > Len(msgLists["M"]) =>
                  (i \in Passed("images", 1) <=> i \in Passed("onelines", at))
             /\ at > Len(msgLists["M"]) /\ ~Has("embed") =>
                  (i \in Passed("attachments", 1) <=> i \in Passed("onelines", at))
             /\ at > Len(msgLists["embed"]) =>
                  (i \in Passed("attachments", 1) <=> i \in Passed("images", at))
             /\ at > Len(msgLists["attach"]) => i \in Passed("attachments", at)
  <2>1. PICK l \in {"M", "embed", "attach"}, n \in Nat :
             n \in 1 .. Len(msgLists[l]) /\ i = <<l, n>>
    BY ItemsAre
  <2>2. n \in Nat \ {0} /\ n <= Len(msgLists[l]) /\ Len(msgLists[l]) \in Nat
    BY <2>1, ItemsAre
  <2>3. \A pc, a : i \in Passed(pc, a)
                     <=> Rank[l] < Now[pc] \/ (Rank[l] = Now[pc] /\ n < a)
    BY <2>1, PassedAre
  <2>4. l = "embed" => Has("embed")
    <3>1. CASE msgLists["embed"] = << >>
      <4>1. Len(msgLists["embed"]) = 0
        BY <3>1
      <4> QED
        BY <2>2, <4>1
    <3> QED
      BY <3>1 DEF Has
  <2>5. CASE l = "M"
    BY <2>2, <2>3, <2>5, Ranks
  <2>6. CASE l = "embed"
    BY <2>2, <2>3, <2>4, <2>6, Ranks
  <2>7. CASE l = "attach"
    BY <2>2, <2>3, <2>7, Ranks
  <2> QED
    BY <2>5, <2>6, <2>7
<1>2. \A pc, a : Passed(pc, a) \subseteq Items
  BY PassedAre
<1>3. \A pc, a, b, c : Passed(pc, a) = Passed(b, c)
                      <=> \A i \in Items : i \in Passed(pc, a) <=> i \in Passed(b, c)
  BY <1>2
<1>4. Passed("onelines", 1) = {}
  BY <1>1, <1>2
<1>5. at > Len(msgLists["attach"]) => Items = Passed("attachments", at)
  BY <1>1, <1>2
<1> QED
  BY <1>1, <1>3, <1>4, <1>5

(* The items are what the lists hold, and those stay.                      *)
LEMMA KeepsItems ==
  ASSUME KeepsLists
  PROVE  /\ Items' = Items /\ Encoded' = Encoded /\ IsMime' = IsMime
         /\ Has("body")' = Has("body")
         /\ \A pc, at : Passed(pc, at)' = Passed(pc, at)
BY DEF KeepsLists, Items, Encoded, IsMime, Has, Passed

LEMMA FillStart ==
  ASSUME MsgInit
  PROVE  FillInv
BY DEF MsgInit, FillInv, Placed, Succeeded

LEMMA FillSimpleSteps ==
  ASSUME Writing, ListsInv, FillInv, ReadOption \/ Headers \/ Body \/ InputLine
  PROVE  FillInv'
<1>1. CASE ReadOption
  BY <1>1 DEF ReadOption, FillInv, Placed, Succeeded
<1>2. CASE Headers
  <2>1. /\ msgOut = << >> /\ msgLost = {} /\ msgLost' = {} /\ KeepsLists
    BY <1>2 DEF Headers, FillInv, KeepsFiles
  <2>2. CASE msgPc' = "input" /\ ~IsMime
    BY <2>1, <2>2, KeepsItems DEF FillInv, Placed, Succeeded
  <2>3. CASE msgPc' = "body" /\ Has("body")
    BY <2>1, <2>3, KeepsItems DEF FillInv, Placed, Succeeded
  <2>4. CASE msgPc' = "onelines" /\ msgAt' = 1 /\ msgOut' = msgOut \o <<Multipart("main")>>
    <3>1. Multipart("main") \in MsgLine /\ Multipart("main").kind # "content"
      BY LineTypes, KindsDiffer DEF Whose
    <3>2. msgOut \in Seq(MsgLine) /\ msgOut' = Append(msgOut, Multipart("main"))
      BY <2>4, <3>1, LinesJoin DEF Writing
    <3>3. Carries(msgOut, {})
      BY <2>1 DEF Carries
    <3>4. Carries(msgOut', {})
      BY <3>1, <3>2, <3>3, NoItemMore
    <3>5. Passed(msgPc, msgAt)' = {}
      <4>1. Passed("onelines", 1) = {}
        BY PassedOn
      <4> QED
        BY <2>1, <2>4, <4>1, KeepsItems DEF KeepsLists, Passed, Items
    <3>6. Carries(msgOut', Passed(msgPc, msgAt)' \ msgLost')
      BY <2>1, <3>4, <3>5
    <3> QED
      BY <2>1, <2>4, <3>6 DEF FillInv, Placed, Succeeded
  <2> QED
    BY <1>2, <2>2, <2>3, <2>4 DEF Headers, Goes, Writes
<1>3. CASE Body
  <2>1. Has("body")' /\ msgPc' = "done" /\ msgLost' = msgLost /\ Encoded' = Encoded
    BY <1>3, KeepsItems DEF Body, FillInv, Goes, Fails, KeepsFiles
  <2> QED
    BY <2>1 DEF FillInv, Placed
<1>4. CASE InputLine
  <2>1. /\ ~IsMime' /\ msgPc' \in {"input", "done"} /\ msgLost' = msgLost
        /\ Encoded' = Encoded
    BY <1>4, KeepsItems DEF InputLine, FillInv, Goes, KeepsFiles
  <2> QED
    BY <2>1 DEF FillInv, Placed
<1> QED
  BY <1>1, <1>2, <1>3, <1>4

(* One item has its turn: it is written, or it is lost.                    *)
LEMMA ItemStep ==
  ASSUME Writing, ListsInv, FillInv, KeepsLists, Placed,
         NEW k \in {"M", "embed", "attach"}, Now[msgPc] = Rank[k],
         msgAt <= Len(msgLists[k]), NEW b \in {"main", "related"},
         msgPc' = msgPc, msgAt' = msgAt + 1,
         \/ /\ msgOut' = msgOut \o <<Part(b), Content(<<k, msgAt>>)>> /\ msgLost' = msgLost
         \/ /\ msgOut' = msgOut \o <<Part(b)>> /\ msgLost' = msgLost \cup {<<k, msgAt>>}
            /\ <<k, msgAt>> \in Encoded
  PROVE  FillInv'
<1> DEFINE i == <<k, msgAt>>
           passed == Passed(msgPc, msgAt)
<1>1. msgOut \in Seq(MsgLine) /\ msgAt \in 1 .. Len(msgLists[k]) /\ i \in OptionKinds \X Nat
  <2>1. msgAt \in Nat \ {0} /\ Len(msgLists[k]) \in Nat /\ k \in OptionKinds
    BY ItemsAre DEF Writing, OptionKinds
  <2> QED
    BY <2>1 DEF Writing
<1>2. /\ i \in Items /\ i \notin passed /\ Passed(msgPc, msgAt)' = passed \cup {i}
      /\ \A j \in passed : Before(j, i)
  <2>1. /\ i \in Items /\ i \notin passed
        /\ Passed(msgPc, msgAt + 1) = passed \cup {i} /\ \A j \in passed : Before(j, i)
    <3>1. HasTurn(k, msgPc, msgAt)
      BY <1>1 DEF HasTurn
    <3>2. IsNext(k, msgPc, msgAt)
      BY <3>1, OnePassed
    <3> QED
      BY <3>2 DEF IsNext
  <2>2. Passed(msgPc, msgAt)' = Passed(msgPc, msgAt + 1)
    BY DEF Passed, Items, KeepsLists
  <2> QED
    BY <2>1, <2>2
<1> HIDE DEF passed
<1>3. /\ Carries(msgOut, passed \ msgLost) /\ msgLost \subseteq passed
      /\ msgLost \subseteq Encoded
  BY DEF FillInv, passed
<1>4. /\ Part(b) \in MsgLine /\ Content(i) \in MsgLine /\ Part(b).kind # "content"
      /\ Content(i).kind = "content" /\ Content(i).of = i
  <2>1. Content(i).of = i
    BY DEF Content
  <2> QED
    BY <1>1, <2>1, LineTypes, KindsDiffer DEF Whose
<1> HIDE DEF i
<1>5. /\ Append(msgOut, Part(b)) \in Seq(MsgLine)
      /\ Carries(Append(msgOut, Part(b)), passed \ msgLost)
  BY <1>1, <1>3, <1>4, OneMore, NoItemMore
<1>6. Carries(Append(Append(msgOut, Part(b)), Content(i)), (passed \ msgLost) \cup {i})
  <2>1. \A j \in passed \ msgLost : Before(j, Content(i).of)
    BY <1>2, <1>4
  <2>2. Carries(Append(Append(msgOut, Part(b)), Content(i)),
                (passed \ msgLost) \cup {Content(i).of})
    BY <1>4, <1>5, <2>1, ItemMore
  <2> QED
    BY <1>4, <2>2
<1>7. /\ Carries(msgOut', Passed(msgPc, msgAt)' \ msgLost')
      /\ msgLost' \subseteq Passed(msgPc, msgAt)'
  <2>1. CASE /\ msgOut' = msgOut \o <<Part(b), Content(i)>> /\ msgLost' = msgLost
    <3>1. msgOut' = Append(Append(msgOut, Part(b)), Content(i))
      BY <1>1, <1>4, <2>1, LinesJoin
    <3>2. Passed(msgPc, msgAt)' \ msgLost' = (passed \ msgLost) \cup {i}
      BY <1>2, <1>3, <2>1
    <3> QED
      BY <1>2, <1>3, <1>6, <2>1, <3>1, <3>2
  <2>2. CASE /\ msgOut' = msgOut \o <<Part(b)>> /\ msgLost' = msgLost \cup {i}
    <3>1. msgOut' = Append(msgOut, Part(b))
      BY <1>1, <1>4, <2>2, LinesJoin
    <3>2. Passed(msgPc, msgAt)' \ msgLost' = passed \ msgLost
      BY <1>2, <1>3, <2>2
    <3> QED
      BY <1>2, <1>3, <1>5, <2>2, <3>1, <3>2
  <2> QED
    BY <2>1, <2>2 DEF i
<1>8. msgLost' \subseteq Encoded'
  BY <1>3, KeepsItems DEF i
<1> QED
  BY <1>7, <1>8 DEF FillInv, Placed, Succeeded

(* The lines between the items carry none.                                 *)
LEMMA FillBetweenSteps ==
  ASSUME Writing, ListsInv, FillInv, EmbedHead \/ EmbedEnd \/ EndBoundary
  PROVE  FillInv'
<1>1. /\ msgOut \in Seq(MsgLine) /\ msgAt \in Nat /\ KeepsLists /\ msgLost' = msgLost
      /\ Carries(msgOut, Passed(msgPc, msgAt) \ msgLost)
      /\ msgLost \subseteq Passed(msgPc, msgAt) /\ msgLost \subseteq Encoded
  BY DEF Writing, FillInv, EmbedHead, EmbedEnd, EndBoundary, KeepsFiles, Placed
<1>2. \A pc, at : Passed(pc, at)' = Passed(pc, at)
  BY <1>1, KeepsItems
<1>3. msgLost' \subseteq Encoded'
  BY <1>1, KeepsItems
<1>4. \A l : l \in {Part("main"), Multipart("related"), Multipart("alternative"),
                     Part("related"), Part("alternative"), Html, End("related"),
                     End("alternative"), End("main")}
              => l \in MsgLine /\ l.kind # "content"
  BY LineTypes, KindsDiffer DEF Whose
<1>5. Carries(msgOut', Passed(msgPc, msgAt) \ msgLost)
  <2> DEFINE items == Passed(msgPc, msgAt) \ msgLost
             Free(out) == out \in Seq(MsgLine) /\ Carries(out, items)
  <2>1. Free(msgOut)
    BY <1>1
  <2>2. ASSUME NEW out, Free(out), NEW l \in MsgLine, l.kind # "content"
        PROVE  Free(Append(out, l))
    <3>1. out \in Seq(MsgLine) /\ Carries(out, items)
      BY <2>2
    <3> HIDE DEF items
    <3> QED
      BY <2>2, <3>1, OneMore, NoItemMore
  <2> SUFFICES Free(msgOut')
    OBVIOUS
  <2> HIDE DEF Free
  <2>3. \/ msgOut' = msgOut \o << >> \/ msgOut' = msgOut \o <<End("main")>>
        \/ msgOut' = msgOut \o <<End("related")>>
        \/ msgOut' = msgOut \o (<<Part("main")>> \o
             <<Multipart("alternative"), Part("alternative"), Html, End("alternative")>>)
        \/ msgOut' = msgOut \o (<<Part("main")>> \o
             <<Multipart("related"), Multipart("alternative"), Part("related"), Html,
               End("related")>>)
    BY DEF EmbedHead, EmbedEnd, EndBoundary, Writes, ImageBoundary
  <2>4. CASE msgOut' = msgOut \o << >>
    BY <1>1, <1>4, <2>1, <2>4, LinesJoin
  <2>5. ASSUME NEW l \in {End("main"), End("related")}, msgOut' = msgOut \o <<l>>
        PROVE  Free(msgOut')
    <3>1. l \in MsgLine /\ l.kind # "content" /\ msgOut' = Append(msgOut, l)
      BY <1>1, <1>4, <2>5, LinesJoin
    <3> QED
      BY <2>1, <2>2, <3>1
  <2>6. CASE msgOut' = msgOut \o (<<Part("main")>> \o
          <<Multipart("alternative"), Part("alternative"), Html, End("alternative")>>)
    <3>1. msgOut' = Append(Append(Append(Append(Append(msgOut, Part("main")),
             Multipart("alternative")), Part("alternative")), Html), End("alternative"))
      BY <1>1, <1>4, <2>6, LinesJoinMore
    <3> QED
      BY <1>4, <2>1, <2>2, <3>1
  <2>7. CASE msgOut' = msgOut \o (<<Part("main")>> \o
          <<Multipart("related"), Multipart("alternative"), Part("related"), Html,
            End("related")>>)
    <3>1. msgOut' = Append(Append(Append(Append(Append(Append(msgOut, Part("main")),
             Multipart("related")), Multipart("alternative")), Part("related")), Html),
             End("related"))
      <4>1. PICK a \in MsgLine, b \in MsgLine, c \in MsgLine, d \in MsgLine, e \in MsgLine,
                 f \in MsgLine :
              /\ a = Part("main") /\ b = Multipart("related") /\ c = Multipart("alternative")
              /\ d = Part("related") /\ e = Html /\ f = End("related")
        BY <1>4
      <4>2. msgOut' = msgOut \o (<<a>> \o <<b, c, d, e, f>>) /\ msgOut \in Seq(MsgLine)
        BY <1>1, <2>7, <4>1
      <4>3. SixLines(msgOut, a, b, c, d, e, f)
        BY <4>2, LinesJoinSix
      <4>4. msgOut' = Append(Append(Append(Append(Append(Append(msgOut, a), b), c), d), e), f)
        BY ONLY <4>2, <4>3 DEF SixLines
      <4> QED
        BY <4>1, <4>4
    <3>2. Free(Append(Append(Append(msgOut, Part("main")), Multipart("related")),
                      Multipart("alternative")))
      BY <1>4, <2>1, <2>2
    <3> QED
      BY <1>4, <2>2, <3>1, <3>2
  <2> QED
    BY <2>3, <2>4, <2>5, <2>6, <2>7
<1>6. CASE EmbedHead
  <2>1. /\ msgPc = "onelines" /\ msgAt > Len(msgLists["M"]) /\ msgAt' = 1
        /\ \/ msgPc' = "images"
           \/ msgPc' = "attachments" /\ ~Has("embed")
    BY <1>6 DEF EmbedHead, Goes
  <2>2. Passed(msgPc', msgAt') = Passed(msgPc, msgAt)
    BY <1>1, <2>1, PassedOn
  <2>3. Passed(msgPc, msgAt)' = Passed(msgPc, msgAt)
    BY <1>1, <2>2 DEF Passed, Items, KeepsLists
  <2> QED
    BY <1>1, <1>3, <1>5, <2>1, <2>3 DEF FillInv, Placed, Succeeded
<1>7. CASE EmbedEnd
  <2>1. /\ msgPc = "images" /\ msgAt > Len(msgLists["embed"]) /\ msgAt' = 1
        /\ msgPc' = "attachments"
    BY <1>7 DEF EmbedEnd, Goes
  <2>2. Passed(msgPc', msgAt') = Passed(msgPc, msgAt)
    BY <1>1, <2>1, PassedOn
  <2>3. Passed(msgPc, msgAt)' = Passed(msgPc, msgAt)
    BY <1>1, <2>2 DEF Passed, Items, KeepsLists
  <2> QED
    BY <1>1, <1>3, <1>5, <2>1, <2>3 DEF FillInv, Placed, Succeeded
<1>8. CASE EndBoundary
  <2>1. /\ msgPc = "attachments" /\ msgAt > Len(msgLists["attach"]) /\ msgPc' = "done"
    BY <1>8 DEF EndBoundary, Goes
  <2>2. Items' = Passed(msgPc, msgAt)
    BY <1>1, <2>1, PassedOn, KeepsItems
  <2> QED
    BY <1>1, <1>3, <1>5, <2>1, <2>2 DEF FillInv, Placed
<1> QED
  BY <1>6, <1>7, <1>8

LEMMA FillStep ==
  ASSUME Writing, ListsInv, FillInv, [MsgNext]_msgVars
  PROVE  FillInv'
<1>1. CASE UNCHANGED msgVars
  BY <1>1 DEF msgVars, FillInv, Placed, Succeeded, IsMime, Has, Items, Encoded, Passed
<1>2. CASE Oneline
  <2> DEFINE i == <<"M", msgAt>>
  <2>1. /\ msgPc = "onelines" /\ msgPc' = msgPc /\ msgAt' = msgAt + 1 /\ KeepsLists
        /\ msgAt <= Len(msgLists["M"])
    BY <1>2 DEF Oneline, Goes
  <2>2. PICK r \in IF msgLists["M"][msgAt].enc = "base64" THEN OnelineEncodings(i)
                                                          ELSE {Result(TRUE, {}, {})} :
          /\ msgOut' = msgOut \o (IF r.ok THEN <<Part("main"), Content(i)>>
                                          ELSE <<Part("main")>>)
          /\ msgLost' = IF r.ok THEN msgLost ELSE msgLost \cup {i}
    BY <1>2 DEF Oneline, Writes
  <2>3. ~r.ok => i \in Encoded
    <3>1. msgAt \in Nat \ {0} /\ Len(msgLists["M"]) \in Nat
      BY ItemsAre DEF Writing
    <3>2. msgAt \in 1 .. Len(msgLists["M"])
      BY <2>1, <3>1
    <3>3. i \in Items
      BY <3>2, ItemsAre
    <3>4. ~r.ok => msgLists["M"][msgAt].enc = "base64"
      BY <2>2 DEF Result
    <3> QED
      BY <3>3, <3>4 DEF Encoded
  <2>4. \/ msgOut' = msgOut \o <<Part("main"), Content(i)>> /\ msgLost' = msgLost
        \/ /\ msgOut' = msgOut \o <<Part("main")>> /\ msgLost' = msgLost \cup {i}
           /\ i \in Encoded
    BY <2>2, <2>3
  <2> QED
    BY <2>1, <2>4, ItemStep, Ranks DEF Placed
<1>3. ASSUME NEW k \in {"embed", "attach"}, NEW b \in {"main", "related"},
             SendAttachment(k, b, msgPc), Placed, Now[msgPc] = Rank[k],
             msgAt <= Len(msgLists[k])
      PROVE  FillInv'
  <2>1. KeepsLists /\ msgLost' = msgLost
    BY <1>3 DEF SendAttachment
  <2>2. \/ /\ msgPc' = msgPc /\ msgAt' = msgAt + 1
           /\ msgOut' = msgOut \o <<Part(b), Content(<<k, msgAt>>)>>
        \/ msgPc' = "done" /\ msgRc' = -1
    BY <1>3 DEF SendAttachment, Writes, Goes, Fails
  <2>3. CASE msgPc' = "done" /\ msgRc' = -1
    <3>1. msgLost' \subseteq Encoded' /\ -1 # 0
      BY <2>1, KeepsItems DEF FillInv
    <3> QED
      BY <2>3, <3>1 DEF FillInv, Placed, Succeeded
  <2> QED
    BY <1>3, <2>1, <2>2, <2>3, ItemStep
<1>4. CASE EmbedImage
  <2>1. /\ msgPc = "images" /\ msgAt <= Len(msgLists["embed"])
        /\ SendAttachment("embed", ImageBoundary, msgPc)
        /\ ImageBoundary \in {"main", "related"}
    BY <1>4 DEF EmbedImage, ImageBoundary
  <2> QED
    BY <1>3, <2>1, Ranks DEF Placed
<1>5. CASE Attach
  <2>1. /\ msgPc = "attachments" /\ msgAt <= Len(msgLists["attach"])
        /\ SendAttachment("attach", "main", msgPc)
    BY <1>5 DEF Attach
  <2> QED
    BY <1>3, <2>1, Ranks DEF Placed
<1> QED
  BY <1>1, <1>2, <1>4, <1>5, FillSimpleSteps, FillBetweenSteps DEF MsgNext

(* Whatever the command line lists, a mail that smtpMail reports as sent   *)
(* holds every one-line message, image and attachment once and in order,   *)
(* one-line messages in base64 excepted that could not be encoded          *)
(* (smtp.c:682-1063, 1240-1257).                                           *)
THEOREM MailIsComplete == MsgSpec => []MessageIsComplete
<1> DEFINE MailInv == MultipartInv /\ ListsInv /\ FillInv
<1>1. MsgInit => MailInv
  BY MultipartStart, ListsStart, FillStart
<1>2. MailInv /\ [MsgNext]_msgVars => MailInv'
  BY MultipartStep, ListsStep, FillStep DEF MultipartInv
<1>3. MailInv => MessageIsComplete
  <2> SUFFICES ASSUME MailInv, Succeeded, IsMime, ~Has("body")
               PROVE  /\ msgLost \subseteq Encoded
                      /\ {msgOut[k].of : k \in Contents} = Items \ msgLost
                      /\ \A j, k \in Contents :
                           j < k => Before(msgOut[j].of, msgOut[k].of)
    BY DEF MessageIsComplete, Reported
  <2>1. Carries(msgOut, Items \ msgLost) /\ msgLost \subseteq Encoded
    BY DEF FillInv
  <2>2. \A k : k \in Contents <=> k \in 1 .. Len(msgOut) /\ msgOut[k].kind = "content"
    BY LenProperties DEF Contents, MultipartInv, Writing
  <2>3. \A i : i \in {msgOut[k].of : k \in Contents} <=> i \in Items \ msgLost
    BY <2>1, <2>2 DEF Carries
  <2> QED
    BY <2>1, <2>2, <2>3 DEF Carries
<1> QED
  BY <1>1, <1>2, <1>3, PTL DEF MsgSpec

-----------------------------------------------------------------------------
(* Playback.  First what is said of remainders and multiples of a frame.   *)

LEMMA Rest ==
  ASSUME NEW f \in Nat \ {0}, NEW a \in Nat
  PROVE  /\ a % f \in 0 .. f - 1 /\ a - (a % f) \in 0 .. a
         /\ \E q \in Nat : a - (a % f) = q * f
<1>1. a % f \in 0 .. f - 1
  OBVIOUS
<1>2. a = f * (a \div f) + (a % f)
  OBVIOUS
<1>3. a \div f \in Int
  OBVIOUS
<1>4. a \div f >= 0
  BY <1>1, <1>2, <1>3
<1>5. a % f <= a
  OBVIOUS
<1> QED
  BY <1>1, <1>2, <1>3, <1>4, <1>5

(* Whole frames before it leave the remainder as it is.                    *)
LEMMA RestOfSum ==
  ASSUME NEW f \in Nat \ {0}, NEW q \in Nat, NEW a \in Nat
  PROVE  (q * f + a) % f = a % f
<1> DEFINE x == q * f + a
<1>1. x \in Nat
  OBVIOUS
<1> PICK d \in Int, r \in Int : d = x \div f /\ r = x % f
  BY <1>1
<1> PICK e \in Int, s \in Int : e = a \div f /\ s = a % f
  OBVIOUS
<1>2. /\ a = e * f + s /\ s \in 0 .. f - 1
  OBVIOUS
<1>3. /\ x = d * f + r /\ r \in 0 .. f - 1
  BY <1>1
<1>4. x = q * f + a
  OBVIOUS
<1> HIDE DEF x
<1>5. (d - q - e) * f = s - r
  <2>1. (d - q - e) * f = d * f - q * f - e * f
    BY ONLY d \in Int, q \in Int, e \in Int, f \in Int
  <2>2. d * f \in Int /\ q * f \in Int /\ e * f \in Int
    OBVIOUS
  <2> QED
    BY <1>2, <1>3, <1>4, <2>1, <2>2
<1> PICK k \in Int : k = d - q - e
  OBVIOUS
<1>6. k * f = s - r /\ s - r < f /\ s - r > 0 - f
  BY <1>2, <1>3, <1>5
<1>7. k < 1
  <2>1. k >= 1 => k * f >= f
    OBVIOUS
  <2> QED
    BY <1>6, <2>1
<1>8. k > 0 - 1
  <2>1. k <= 0 - 1 => k * f <= 0 - f
    OBVIOUS
  <2> QED
    BY <1>6, <2>1
<1>9. s = r
  BY <1>6, <1>7, <1>8
<1> QED
  BY <1>9 DEF x

(* One frame of some may be taken away.                                    *)
LEMMA LeastMultiple ==
  ASSUME NEW f \in Nat \ {0}, NEW q \in Nat, q * f > 0
  PROVE  q * f >= f /\ \E p \in Nat : q * f - f = p * f
<1>1. q >= 1
  OBVIOUS
<1>2. q - 1 \in Nat /\ q * f - f = (q - 1) * f
  BY <1>1
<1>3. (q - 1) * f >= 0
  BY <1>2
<1> QED
  BY <1>2, <1>3

LEMMA SumOfMultiples ==
  ASSUME NEW f \in Nat \ {0}, NEW q \in Nat, NEW p \in Nat
  PROVE  q * f + p * f = (q + p) * f /\ q * f \in Nat
OBVIOUS

(* Numbers in sequence: two together, and the parts of one.                *)
LEMMA Together ==
  ASSUME NEW a \in Seq(Nat), NEW b \in Seq(Nat)
  PROVE  /\ a \o b \in Seq(Nat) /\ Len(a \o b) = Len(a) + Len(b)
         /\ Len(a) \in Nat /\ Len(b) \in Nat
         /\ \A i \in 1 .. Len(a) : (a \o b)[i] = a[i]
         /\ \A i \in 1 .. Len(b) : (a \o b)[Len(a) + i] = b[i]
         /\ \A i \in 1 .. Len(a \o b) :
              i \in 1 .. Len(a) \/ \E j \in 1 .. Len(b) : i = Len(a) + j
<1>1. /\ a \o b \in Seq(Nat) /\ Len(a \o b) = Len(a) + Len(b)
      /\ Len(a) \in Nat /\ Len(b) \in Nat
  OBVIOUS
<1>2. \A i \in 1 .. Len(a) : (a \o b)[i] = a[i]
  OBVIOUS
<1>3. \A i \in 1 .. Len(b) : (a \o b)[Len(a) + i] = b[i]
  OBVIOUS
<1>4. ASSUME NEW i \in 1 .. Len(a \o b)
      PROVE  i \in 1 .. Len(a) \/ \E j \in 1 .. Len(b) : i = Len(a) + j
  <2>1. CASE ~(i <= Len(a))
    <3>1. i - Len(a) \in 1 .. Len(b) /\ i = Len(a) + (i - Len(a))
      BY <1>1, <2>1
    <3> QED
      BY <3>1
  <2> QED
    BY <1>1, <2>1
<1> QED
  BY <1>1, <1>2, <1>3, <1>4

(* The same of a sequence c whose parts are k and m long.                  *)
InParts(c, a, b, k, m) ==
  /\ c \in Seq(Nat) /\ Len(c) = k + m
  /\ \A i \in 1 .. k : c[i] = a[i]
  /\ \A i \in 1 .. m : c[k + i] = b[i]
  /\ \A i \in 1 .. Len(c) : i \in 1 .. k \/ \E j \in 1 .. m : i = k + j

LEMMA TogetherInParts ==
  ASSUME NEW a \in Seq(Nat), NEW b \in Seq(Nat)
  PROVE  InParts(a \o b, a, b, Len(a), Len(b))
BY Together DEF InParts

LEMMA HeadAndTail ==
  ASSUME NEW a \in Seq(Nat), NEW n \in 0 .. Len(a)
  PROVE  /\ SubSeq(a, 1, n) \in Seq(Nat) /\ Len(SubSeq(a, 1, n)) = n
         /\ \A i \in 1 .. n : SubSeq(a, 1, n)[i] = a[i]
         /\ SubSeq(a, n + 1, Len(a)) \in Seq(Nat)
         /\ Len(SubSeq(a, n + 1, Len(a))) = Len(a) - n
         /\ \A i \in 1 .. Len(a) - n : SubSeq(a, n + 1, Len(a))[i] = a[n + i]
<1>1. Len(a) \in Nat /\ n \in Nat /\ n <= Len(a)
  OBVIOUS
<1>2. /\ SubSeq(a, 1, n) \in Seq(Nat) /\ Len(SubSeq(a, 1, n)) = n
      /\ \A i \in 1 .. n : SubSeq(a, 1, n)[i] = a[i]
  BY <1>1
<1>3. \A i \in n + 1 .. Len(a) : a[i] \in Nat
  BY <1>1
<1>4. n + 1 \in Int /\ Len(a) \in Int
  BY <1>1
<1>5. /\ SubSeq(a, n + 1, Len(a)) \in Seq(Nat)
      /\ Len(SubSeq(a, n + 1, Len(a)))
           = IF n + 1 <= Len(a) THEN Len(a) - (n + 1) + 1 ELSE 0
      /\ \A i \in 1 .. Len(a) - (n + 1) + 1 :
           SubSeq(a, n + 1, Len(a))[i] = a[n + 1 + i - 1]
  BY ONLY <1>3, <1>4, SubSeqProperties
<1>6. /\ Len(a) - (n + 1) + 1 = Len(a) - n
      /\ (IF n + 1 <= Len(a) THEN Len(a) - (n + 1) + 1 ELSE 0) = Len(a) - n
      /\ \A i \in 1 .. Len(a) - n : n + 1 + i - 1 = n + i
  BY <1>1
<1> QED
  BY <1>2, <1>5, <1>6


(* The bytes of the sound that starts at s: what was written and what is   *)
(* being written are the first n of them and silence; what is loaded are   *)
(* those that come then.                                                   *)
SoundByte(s, i) == IF i <= Loaded THEN i ELSE s + i - Loaded
PlaysThen(s, out, write, n) ==
  /\ out \in Seq(Nat) /\ write \in Seq(Nat)
  /\ \A i \in 1 .. Len(out) : out[i] = IF i <= n THEN SoundByte(s, i) ELSE 0
  /\ \A i \in 1 .. Len(write) :
       write[i] = IF Len(out) + i <= n THEN SoundByte(s, Len(out) + i) ELSE 0
Follows(s, buf, from) ==
  /\ buf \in Seq(Nat) /\ \A i \in 1 .. Len(buf) : buf[i] = SoundByte(s, from + i)

(* pcm_write begins: the whole frames, and silence.                        *)
Filled(data, n, m) == SubSeq(data, 1, n) \o [i \in 1 .. m |-> 0]
ToWrite(s, out, data, w, n, m) ==
  /\ s \in Nat /\ w \in Nat /\ n \in 0 .. Len(data) /\ m \in Nat
  /\ PlaysThen(s, out, << >>, w) /\ Len(out) = w /\ Follows(s, data, w)
ToBeWritten(s, out, data, w, n, m) ==
  /\ PlaysThen(s, out, Filled(data, n, m), w + n)
  /\ Len(Filled(data, n, m)) = n + m

LEMMA BeginsWhole ==
  ASSUME NEW s, NEW out, NEW data, NEW w, NEW n, NEW m, ToWrite(s, out, data, w, n, m)
  PROVE  ToBeWritten(s, out, data, w, n, m)
<1> USE DEF ToWrite
<1> PICK write : write = Filled(data, n, m)
  OBVIOUS
<1> DEFINE zeros == [i \in 1 .. m |-> 0]
           head == SubSeq(data, 1, n)
<1>1. data \in Seq(Nat) /\ Len(data) \in Nat /\ n \in Nat /\ n <= Len(data)
  BY LenProperties DEF Follows
<1>2. zeros \in Seq(Nat) /\ Len(zeros) = m /\ \A i \in 1 .. m : zeros[i] = 0
  OBVIOUS
<1>3. head \in Seq(Nat) /\ Len(head) = n /\ \A i \in 1 .. n : head[i] = data[i]
  BY <1>1, HeadAndTail
<1> HIDE DEF zeros, head
<1>4. write = head \o zeros
  BY DEF head, zeros, Filled
<1>5. /\ write \in Seq(Nat) /\ Len(write) = n + m
      /\ \A i \in 1 .. n : write[i] = head[i]
      /\ \A i \in 1 .. m : write[n + i] = zeros[i]
      /\ \A i \in 1 .. Len(write) : i \in 1 .. n \/ \E j \in 1 .. m : i = n + j
  <2>1. InParts(head \o zeros, head, zeros, Len(head), Len(zeros))
    BY <1>2, <1>3, TogetherInParts
  <2>2. InParts(write, head, zeros, n, m)
    BY <1>2, <1>3, <1>4, <2>1
  <2> QED
    BY <2>2 DEF InParts
<1>6. ASSUME NEW i \in 1 .. Len(write)
      PROVE  write[i] = IF w + i <= w + n THEN SoundByte(s, w + i) ELSE 0
  <2>1. CASE i \in 1 .. n
    <3>1. i \in 1 .. Len(data) /\ w + i <= w + n
      BY <1>1, <2>1
    <3> QED
      BY <1>3, <1>5, <2>1, <3>1 DEF Follows
  <2>2. ASSUME NEW j \in 1 .. m, i = n + j
        PROVE  write[i] = 0 /\ ~(w + i <= w + n)
    <3>1. write[i] = 0
      BY <1>2, <1>5, <2>2
    <3>2. ~(w + i <= w + n)
      BY ONLY <1>1, <2>2, m \in Nat, w \in Nat
    <3> QED
      BY <3>1, <3>2
  <2> QED
    BY <1>5, <2>1, <2>2
<1>7. ASSUME NEW i \in 1 .. Len(out)
      PROVE  out[i] = IF i <= w + n THEN SoundByte(s, i) ELSE 0
  <2>1. i <= w /\ i <= w + n
    BY <1>1
  <2> QED
    BY <2>1 DEF PlaysThen
<1>8. out \in Seq(Nat)
  BY DEF PlaysThen
<1> QED
  BY <1>5, <1>6, <1>7, <1>8 DEF PlaysThen, ToBeWritten

(* The device takes n bytes.                                               *)
Takes(s, out, write, k, n, out2, write2) ==
  /\ k \in Nat /\ n \in 0 .. Len(write) /\ PlaysThen(s, out, write, k)
  /\ out2 = out \o SubSeq(write, 1, n) /\ write2 = SubSeq(write, n + 1, Len(write))
HasTaken(s, out, write, k, n, out2, write2) ==
  /\ PlaysThen(s, out2, write2, k)
  /\ Len(out2) = Len(out) + n /\ Len(write2) = Len(write) - n

LEMMA DeviceTakes ==
  ASSUME NEW s, NEW out, NEW write, NEW k, NEW n, NEW out2, NEW write2,
         Takes(s, out, write, k, n, out2, write2)
  PROVE  HasTaken(s, out, write, k, n, out2, write2)
<1> USE DEF Takes
<1>1. /\ out \in Seq(Nat) /\ write \in Seq(Nat) /\ Len(out) \in Nat /\ Len(write) \in Nat
      /\ n \in Nat /\ n <= Len(write)
  BY LenProperties DEF PlaysThen
<1> DEFINE head == SubSeq(write, 1, n)
<1>2. head \in Seq(Nat) /\ Len(head) = n /\ \A i \in 1 .. n : head[i] = write[i]
  BY <1>1, HeadAndTail
<1>3. /\ write2 \in Seq(Nat) /\ Len(write2) = Len(write) - n
      /\ \A i \in 1 .. Len(write) - n : write2[i] = write[n + i]
  BY <1>1, HeadAndTail
<1> HIDE DEF head
<1>4. /\ out2 \in Seq(Nat) /\ Len(out2) = Len(out) + n
      /\ \A i \in 1 .. Len(out) : out2[i] = out[i]
      /\ \A i \in 1 .. n : out2[Len(out) + i] = head[i]
      /\ \A i \in 1 .. Len(out2) :
           i \in 1 .. Len(out) \/ \E j \in 1 .. n : i = Len(out) + j
  <2>1. out2 = out \o head
    BY DEF head
  <2>2. InParts(out \o head, out, head, Len(out), Len(head))
    BY <1>1, <1>2, TogetherInParts
  <2>3. InParts(out2, out, head, Len(out), n)
    BY <1>2, <2>1, <2>2
  <2> QED
    BY <2>3 DEF InParts
<1>5. ASSUME NEW i \in 1 .. Len(out2)
      PROVE  out2[i] = IF i <= k THEN SoundByte(s, i) ELSE 0
  <2>1. CASE i \in 1 .. Len(out)
    BY <1>4, <2>1 DEF PlaysThen
  <2>2. ASSUME NEW j \in 1 .. n, i = Len(out) + j
        PROVE  out2[i] = IF i <= k THEN SoundByte(s, i) ELSE 0
    <3>1. j \in 1 .. Len(write)
      BY <1>1
    <3>2. out2[i] = write[j]
      BY <1>2, <1>4, <2>2
    <3> QED
      BY <2>2, <3>1, <3>2 DEF PlaysThen
  <2> QED
    BY <1>4, <2>1, <2>2
<1>6. ASSUME NEW i \in 1 .. Len(write2)
      PROVE  write2[i] = IF Len(out2) + i <= k THEN SoundByte(s, Len(out2) + i) ELSE 0
  <2>1. n + i \in 1 .. Len(write) /\ Len(out) + (n + i) = Len(out2) + i
    <3>1. i \in 1 .. Len(write) - n /\ Len(out2) = Len(out) + n
      BY <1>3, <1>4
    <3> QED
      BY ONLY <1>1, <3>1
  <2>2. write2[i] = write[n + i]
    BY <1>3
  <2> QED
    BY <2>1, <2>2 DEF PlaysThen
<1> QED
  BY <1>3, <1>4, <1>5, <1>6 DEF PlaysThen, HasTaken

(* What is read continues what is loaded, and what is taken from it too.   *)
Reads(s, buf, from, pos, n, buf2) ==
  /\ s \in Nat /\ pos \in Nat /\ from \in Nat /\ n \in Nat
  /\ Follows(s, buf, from) /\ s <= pos /\ from + Len(buf) = Loaded + pos - s
  /\ buf2 = buf \o Positions(pos, n)
HasRead(s, buf, from, n, buf2) == Follows(s, buf2, from) /\ Len(buf2) = Len(buf) + n

LEMMA ReadFollows ==
  ASSUME NEW s, NEW buf, NEW from, NEW pos, NEW n, NEW buf2, Reads(s, buf, from, pos, n, buf2)
  PROVE  HasRead(s, buf, from, n, buf2)
<1> USE DEF Reads
<1>1. buf \in Seq(Nat) /\ Len(buf) \in Nat
  BY LenProperties DEF Follows
<1> DEFINE bytes == Positions(pos, n)
<1>2. bytes \in Seq(Nat) /\ Len(bytes) = n /\ \A i \in 1 .. n : bytes[i] = pos + i
  BY DEF Positions
<1> HIDE DEF bytes
<1>3. /\ buf2 \in Seq(Nat) /\ Len(buf2) = Len(buf) + n
      /\ \A i \in 1 .. Len(buf) : buf2[i] = buf[i]
      /\ \A i \in 1 .. n : buf2[Len(buf) + i] = bytes[i]
      /\ \A i \in 1 .. Len(buf2) :
           i \in 1 .. Len(buf) \/ \E j \in 1 .. n : i = Len(buf) + j
  <2>1. buf2 = buf \o bytes
    BY DEF bytes
  <2>2. InParts(buf \o bytes, buf, bytes, Len(buf), Len(bytes))
    BY <1>1, <1>2, TogetherInParts
  <2>3. InParts(buf2, buf, bytes, Len(buf), n)
    BY <1>2, <2>1, <2>2
  <2> QED
    BY <2>3 DEF InParts
<1>4. ASSUME NEW i \in 1 .. Len(buf2)
      PROVE  buf2[i] = SoundByte(s, from + i)
  <2>1. CASE i \in 1 .. Len(buf)
    BY <1>3, <2>1 DEF Follows
  <2>2. ASSUME NEW j \in 1 .. n, i = Len(buf) + j
        PROVE  buf2[i] = SoundByte(s, from + i)
    <3>1. buf2[i] = pos + j
      BY <1>2, <1>3, <2>2
    <3>2. PICK load \in Nat, len \in Nat : load = Loaded /\ len = Len(buf)
      BY <1>1 DEF Loaded
    <3>3. from + len = load + pos - s /\ i = len + j /\ s <= pos
      BY <2>2, <3>2
    <3>4. from + i > load /\ s + (from + i) - load = pos + j
      BY ONLY <3>3, j \in 1 .. n, n \in Nat, s \in Nat, pos \in Nat, from \in Nat,
              len \in Nat, load \in Nat
    <3>5. ~(from + i <= load) /\ from + i \in Nat
      BY ONLY <3>3, <3>4, j \in 1 .. n, n \in Nat, from \in Nat, len \in Nat, load \in Nat
    <3> QED
      BY <3>1, <3>2, <3>4, <3>5 DEF SoundByte
  <2> QED
    BY <1>3, <2>1, <2>2
<1> QED
  BY <1>3, <1>4 DEF Follows, HasRead

LEMMA FollowsParts ==
  ASSUME NEW s, NEW from \in Nat, NEW buf, NEW n \in 0 .. Len(buf), Follows(s, buf, from)
  PROVE  /\ Follows(s, SubSeq(buf, 1, n), from) /\ Len(SubSeq(buf, 1, n)) = n
         /\ Follows(s, SubSeq(buf, n + 1, Len(buf)), from + n)
         /\ Len(SubSeq(buf, n + 1, Len(buf))) = Len(buf) - n
<1>1. buf \in Seq(Nat) /\ Len(buf) \in Nat /\ n \in Nat /\ n <= Len(buf)
  BY LenProperties DEF Follows
<1> DEFINE head == SubSeq(buf, 1, n)
           tail == SubSeq(buf, n + 1, Len(buf))
<1>2. head \in Seq(Nat) /\ Len(head) = n /\ \A i \in 1 .. n : head[i] = buf[i]
  BY <1>1, HeadAndTail
<1>3. /\ tail \in Seq(Nat) /\ Len(tail) = Len(buf) - n
      /\ \A i \in 1 .. Len(buf) - n : tail[i] = buf[n + i]
  BY <1>1, HeadAndTail
<1> HIDE DEF head, tail
<1>4. \A i \in 1 .. n : i \in 1 .. Len(buf)
  BY <1>1
<1>5. \A i \in 1 .. Len(buf) - n : n + i \in 1 .. Len(buf) /\ from + (n + i) = from + n + i
  BY <1>1
<1>6. Follows(s, head, from) /\ Follows(s, tail, from + n)
  BY <1>2, <1>3, <1>4, <1>5 DEF Follows
<1> QED
  BY <1>2, <1>3, <1>6 DEF head, tail

-----------------------------------------------------------------------------
(* The header: what was read of the file and not used ends where the       *)
(* descriptor stands, and nothing is played.  At the data chunk all that   *)
(* was read is used.                                                       *)
Fits == \A n \in DOMAIN playFile.chunks : playFile.chunks[n].len < LengthWidth - 1
PlayPlaces == {"open", "closed", "header", "search", "params", "loaded", "fill", "first",
               "second", "drained", "underrun", "exit"}
HeadInv ==
  /\ playPc \in PlayPlaces /\ playFile \in FileType /\ ChunksFollow(playFile)
  /\ playPos \in 0 .. playFile.length /\ playSize \in 0 .. Loaded - RiffSize
  /\ playNth \in 1 .. Len(playFile.chunks) + 1 /\ (playPc = "open" => playNth = 1)
  /\ playPc \in {"open", "closed", "header", "search", "params"} =>
       playOut = << >> /\ playWrite = << >> /\ playWritten = 0
  /\ playPc \in {"header", "search", "params"} => playBuf = Positions(0, Loaded)
  /\ playPc \in {"header", "search", "params"} => playPos - playSize = Start
  /\ playPc \in {"search", "params"} =>
       playNth >= 2 /\ playSize = 0 /\ playFrame \in Nat \ {0}

(* The sound: what was read of it is what was written and what is loaded,  *)
(* and all of it is read when a write is short.                            *)
Multiple(x) == \E q \in Nat : x = q * playFrame
ReadSoFar == Loaded + playPos - Start
LastWhole == SoundLength - (SoundLength % playFrame)
Playing ==
  /\ playFrame \in Nat \ {0} /\ playChunk \in Nat \ {0} /\ Multiple(playChunk)
  /\ playNth >= 2 /\ playWritten \in Nat /\ Multiple(playWritten)
  /\ Start <= playPos /\ ReadSoFar <= PlayCount
Loading ==
  /\ playWrite = << >> /\ Len(playOut) = playWritten
  /\ PlaysThen(Start, playOut, << >>, playWritten)
  /\ Follows(Start, playBuf, playWritten) /\ playWritten + Len(playBuf) = ReadSoFar
WholePeriod ==
  /\ Len(playOut) + Len(playWrite) = playWritten + playChunk
  /\ PlaysThen(Start, playOut, playWrite, playWritten + playChunk)
  /\ Follows(Start, playBuf, playWritten + playChunk)
  /\ playWritten + playChunk + Len(playBuf) = ReadSoFar
  /\ playPc = "second" => playBuf = << >>
ShortPeriod ==
  /\ playPc = "second" /\ LastWhole \in 0 .. SoundLength
  /\ PlaysThen(Start, playOut, playWrite, LastWhole) /\ LastWhole <= Len(playOut) + Len(playWrite)
SoundInv ==
  /\ playPc \in {"loaded", "fill", "first", "second"} => Playing
  /\ playPc \in {"loaded", "fill"} => Loading
  /\ playPc = "fill" => Len(playBuf) <= playChunk
  /\ playPc \in {"first", "second"} =>
       Multiple(Len(playWrite)) /\ IF playShort THEN ShortPeriod ELSE WholePeriod
  /\ playPc = "drained" =>
       /\ SoundLength \in Nat /\ LastWhole \in 0 .. SoundLength
       /\ LastWhole <= Len(playOut) /\ playWrite = << >>
       /\ PlaysThen(Start, playOut, << >>, LastWhole)
  /\ playPc \in {"exit", "underrun"} =>
       \/ playOut = << >>
       \/ /\ SoundLength \in Nat
          /\ \E n \in 0 .. SoundLength : PlaysThen(Start, playOut, playWrite, n)
PlayInv == Fits => HeadInv /\ SoundInv

LEMMA StartStays ==
  ASSUME HeadInv, playNth >= 2, UNCHANGED <<playFile, playNth>>,
         playPc \notin {"header", "search"}, playPc' \notin {"header", "search"}
  PROVE  /\ Start' = Start /\ Start \in Nat /\ SoundLength' = SoundLength
         /\ playPos \in Nat /\ playFile.length \in Nat /\ playPos <= playFile.length
<1>1. playFile.length \in Nat /\ playFile.chunks \in Seq(ChunkType)
  BY DEF HeadInv, FileType
<1>2. playNth - 1 \in 1 .. Len(playFile.chunks)
  BY <1>1, LenProperties DEF HeadInv
<1>3. playFile.chunks[playNth - 1] \in ChunkType
  BY <1>1, <1>2, ElementOfSeq
<1>4. Start' = Start /\ Start \in Nat
  BY <1>3 DEF Start, ChunkHead, ChunkType
<1>5. SoundLength' = SoundLength
  BY <1>4 DEF SoundLength
<1> QED
  BY <1>1, <1>4, <1>5 DEF HeadInv

(* No more is read than is played.                                         *)
LEMMA ReadIsSound ==
  ASSUME HeadInv, playPc \notin {"header", "search"}, Playing
  PROVE  /\ Start \in Nat /\ ReadSoFar \in Nat /\ SoundLength \in Nat
         /\ ReadSoFar <= SoundLength /\ SoundLength <= PlayCount /\ PlayCount \in Nat
         /\ playPos \in Nat /\ playPos <= playFile.length
         /\ playPos = playFile.length \/ ReadSoFar = PlayCount => ReadSoFar = SoundLength
<1>1. playFile.length \in Nat /\ playFile.chunks \in Seq(ChunkType)
  BY DEF HeadInv, FileType
<1>2. playNth - 1 \in 1 .. Len(playFile.chunks)
  BY <1>1, LenProperties DEF HeadInv, Playing
<1>3. playFile.chunks[playNth - 1] \in ChunkType
  BY <1>1, <1>2, ElementOfSeq
<1>4. Start \in Nat
  BY <1>3 DEF Start, ChunkHead, ChunkType
<1>5. playPos \in Nat /\ playPos <= playFile.length
  BY <1>1 DEF HeadInv
<1>6. PlayCount \in Nat
  BY PlayAssumption
<1> PICK read, all, length :
      read = ReadSoFar /\ all = Loaded + playFile.length - Start /\ length = SoundLength
  OBVIOUS
<1>7. all \in Int
  BY <1>1, <1>4 DEF Loaded
<1>8. /\ read \in Nat /\ read <= PlayCount /\ read <= all
      /\ playPos = playFile.length => read = all
  BY <1>1, <1>4, <1>5, <1>6 DEF Playing, ReadSoFar, Loaded
<1>9. length = IF PlayCount < all THEN PlayCount ELSE all
  BY DEF SoundLength, FirstOf
<1>10. /\ length \in Nat /\ read <= length /\ length <= PlayCount
       /\ playPos = playFile.length \/ read = PlayCount => read = length
  <2>1. CASE PlayCount < all
    BY ONLY <1>6, <1>7, <1>8, <1>9, <2>1
  <2>2. CASE ~(PlayCount < all)
    BY ONLY <1>6, <1>7, <1>8, <1>9, <2>2
  <2> QED
    BY <2>1, <2>2
<1> QED
  BY <1>4, <1>5, <1>6, <1>8, <1>10

LEMMA PlayStart ==
  PlayInit => PlayInv
<1> SUFFICES ASSUME PlayInit
             PROVE  PlayInv
  OBVIOUS
<1>1. playFile \in FileType /\ ChunksFollow(playFile)
  BY PlayAssumption DEF PlayInit
<1>2. playFile.length \in Nat /\ Len(playFile.chunks) \in Nat
  BY <1>1, LenProperties DEF FileType
<1>3. HeadInv
  BY <1>1, <1>2 DEF PlayInit, HeadInv, PlayPlaces, Loaded, RiffSize
<1>4. SoundInv
  BY DEF PlayInit, SoundInv
<1> QED
  BY <1>3, <1>4 DEF PlayInv

-----------------------------------------------------------------------------
(* The steps of the header.                                                *)

(* How much a chunk takes is even, and no more than is counted.            *)
LEMMA PaddedLength ==
  ASSUME NEW c \in ChunkType
  PROVE  /\ Padded(c.len) \in Nat
         /\ c.len < LengthWidth - 1 => Padded(c.len) = c.len + (c.len % 2)
<1>1. c.len \in 0 .. LengthWidth - 1 /\ LengthWidth \in Nat \ {0}
  BY PlayAssumption DEF ChunkType
<1>2. c.len % 2 \in 0 .. 1
  BY <1>1
<1>3. PICK x \in Nat : x = c.len + (c.len % 2)
  BY <1>1, <1>2
<1>4. x % LengthWidth \in Nat
  BY <1>1
<1>5. c.len < LengthWidth - 1 => x < LengthWidth
  <2>1. ASSUME c.len < LengthWidth - 1
        PROVE  x < LengthWidth
    BY <1>1, <1>2, <1>3, <2>1
  <2> QED
    BY <2>1
<1>6. x < LengthWidth => x % LengthWidth = x
  BY <1>1
<1> QED
  BY <1>3, <1>4, <1>5, <1>6 DEF Padded

(* Reading it, when it does not end there.                                 *)
LEMMA ReadingAChunk ==
  ASSUME HeadInv, ~NoMore, NEW body \in Nat, NEW pc, NEW frame,
         ReadsChunk(pc, body, frame), playPc' # "exit"
  PROVE  /\ playPc' = pc /\ playFrame' = frame /\ playNth' = playNth + 1
         /\ playNth' \in 2 .. Len(playFile.chunks) + 1
         /\ playPos' \in 0 .. playFile.length /\ playSize' \in 0 .. Loaded - RiffSize
         /\ playPos' - playSize' = playPos - playSize + ChunkHead + body
         /\ body >= FmtSize \/ playSize = 0 => playSize' = 0
<1>1. playFile.length \in Nat /\ Len(playFile.chunks) \in Nat
  BY LenProperties DEF HeadInv, FileType
<1>2. /\ playPos \in Nat /\ playSize \in 0 .. 14 /\ playNth \in Nat /\ playNth >= 1
      /\ playNth <= Len(playFile.chunks)
  BY <1>1 DEF HeadInv, Loaded, RiffSize, NoMore
<1> PICK headed \in Nat : headed = IF playSize >= 8 THEN playSize ELSE 8
  BY <1>2
<1> PICK rest \in Nat : rest = headed - 8
  OBVIOUS
<1> PICK all \in Nat : all = IF rest >= body THEN rest ELSE body
  OBVIOUS
<1>3. /\ headed = AfterRead(playSize, ChunkHead) /\ rest = headed - ChunkHead
      /\ all = AfterRead(rest, body)
  BY DEF AfterRead, ChunkHead
<1> PICK pos : pos = playPos + (headed - playSize) + (all - rest)
  OBVIOUS
<1>4. pos \in Int
  BY ONLY <1>2, headed \in Nat, rest \in Nat, all \in Nat,
          pos = playPos + (headed - playSize) + (all - rest)
<1>5. /\ ~(pos > playFile.length) /\ playPc' = pc /\ playPos' = pos
      /\ playSize' = all - body /\ playNth' = playNth + 1 /\ playFrame' = frame
  BY <1>3 DEF ReadsChunk, PlayGoes
<1>6. pos >= 0 /\ pos <= playFile.length
  BY <1>1, <1>2, <1>5, <1>4
<1>7. playNth + 1 \in 2 .. Len(playFile.chunks) + 1
  BY <1>1, <1>2
<1> QED
  BY <1>2, <1>5, <1>6, <1>4, <1>7 DEF Loaded, RiffSize, ChunkHead, FmtSize

(* The chunk that comes next begins where the one before it ends.          *)
LEMMA NextChunk ==
  ASSUME HeadInv, ~NoMore
  PROVE  /\ Chunk \in ChunkType /\ playNth \in 1 .. Len(playFile.chunks)
         /\ playPc \in {"header", "search"} => Start = Chunk.at
         /\ Fits => Chunk.len < LengthWidth - 1
<1>1. playFile.chunks \in Seq(ChunkType)
  BY DEF HeadInv, FileType
<1>2. playNth \in 1 .. Len(playFile.chunks)
  BY <1>1, LenProperties DEF HeadInv, NoMore
<1>3. Chunk \in ChunkType
  BY <1>1, <1>2, ElementOfSeq DEF Chunk
<1>4. Chunk.at = IF playNth = 1 THEN RiffSize ELSE ChunkEnd(playFile.chunks[playNth - 1])
  BY <1>2 DEF HeadInv, ChunksFollow, Chunk
<1> QED
  BY <1>2, <1>3, <1>4 DEF Start, Fits, Chunk

LEMMA FrameIsPositive ==
  ASSUME NEW fmt \in PlayFormats, NEW len, Playable(fmt, len)
  PROVE  FrameOf(fmt) \in Nat \ {0} /\ len >= FmtSize
<1>1. fmt \in FormatType
  BY PlayAssumption
<1>2. fmt.channels \in Nat \ {0}
  BY <1>1 DEF FormatType, Playable
<1>3. fmt.bits \in {8, 16, 24, 32} /\ (fmt.bits = 24 => fmt.width \in {3, 4})
  BY DEF Playable
<1> PICK k : k = CASE fmt.bits = 8 -> 1 [] fmt.bits = 16 -> 2 [] fmt.bits = 32 -> 4
                   [] fmt.bits = 24 -> fmt.width
  OBVIOUS
<1>4. k \in {1, 2, 3, 4}
  BY <1>3
<1>5. FrameOf(fmt) = fmt.channels * k
  BY DEF FrameOf
<1>6. fmt.channels * k \in Nat \ {0}
  <2>1. PICK c \in Nat \ {0} : c = fmt.channels
    BY <1>2
  <2>2. c * 1 \in Nat \ {0} /\ c * 2 \in Nat \ {0} /\ c * 3 \in Nat \ {0} /\ c * 4 \in Nat \ {0}
    OBVIOUS
  <2> QED
    BY <1>4, <2>1, <2>2
<1> QED
  BY <1>5, <1>6 DEF Playable

(* The header ends, and nothing is played.                                 *)
LEMMA HeaderExits ==
  ASSUME HeadInv, playPc \in {"open", "header", "search", "params"},
         playPc' \in {"exit", "closed"},
         playPos' \in 0 .. playFile.length, playSize' \in 0 .. Loaded - RiffSize,
         UNCHANGED <<playFile, playNth, playWrite, playWritten, playOut>>
  PROVE  HeadInv'
BY DEF HeadInv, PlayPlaces, Fits, ChunksFollow

LEMMA OpensHead ==
  ASSUME HeadInv, Opens
  PROVE  HeadInv' /\ SoundInv'
<1>1. /\ HeadInv /\ playPc = "open" /\ playNth = 1
      /\ UNCHANGED <<playFile, playNth, playWrite, playWritten, playOut>>
  BY DEF HeadInv, Opens
<1>2. playFile.length \in Nat
  BY <1>1 DEF HeadInv, FileType
<1>3. playPos' \in 0 .. playFile.length
  <2>1. playPos' = IF 26 < playFile.length THEN 26 ELSE playFile.length
    BY DEF Opens, FirstOf, Loaded
  <2> QED
    BY ONLY <1>2, <2>1
<1>4. playOut' = << >> /\ playWrite' = << >> /\ playWritten' = 0
  BY <1>1 DEF HeadInv
<1>5. CASE playFile.length < Loaded \/ ~playFile.wave
  <2>1. playPc' \in {"exit", "closed"}
    BY <1>5 DEF Opens, PlayGoes
  <2>2. playSize' \in 0 .. Loaded - RiffSize
    <3>1. playSize' = playSize \/ playSize' = Loaded - RiffSize
      BY DEF Opens
    <3>2. playSize \in 0 .. Loaded - RiffSize
      BY DEF HeadInv
    <3> QED
      BY <3>1, <3>2 DEF Loaded, RiffSize
  <2>3. HeadInv'
    BY <1>1, <1>3, <2>1, <2>2, HeaderExits
  <2> QED
    BY <1>4, <2>1, <2>3 DEF SoundInv
<1>6. CASE ~(playFile.length < Loaded) /\ playFile.wave
  <2>1. /\ playPc' = "header" /\ playSize' = 14 /\ playBuf' = Positions(0, Loaded)
        /\ playPos' = 26
    BY <1>2, <1>6 DEF Opens, PlayGoes, FirstOf, Loaded, RiffSize
  <2>2. Start' = RiffSize
    BY <1>1, <2>1 DEF Start
  <2>3. HeadInv'
    BY <1>1, <1>3, <1>4, <2>1, <2>2 DEF HeadInv, PlayPlaces, ChunksFollow, Loaded, RiffSize
  <2>4. SoundInv'
    BY <2>1 DEF SoundInv
  <2> QED
    BY <2>3, <2>4
<1> QED
  BY <1>5, <1>6

(* A chunk is read whose body is as long as it says, or the header of the  *)
(* data chunk alone.                                                       *)
LEMMA ChunkRead ==
  ASSUME HeadInv, Fits, ~NoMore, playPc \in {"header", "search"}, UNCHANGED <<playFile, soundVars>>,
         NEW body \in Nat, NEW pc, NEW frame, ReadsChunk(pc, body, frame),
         \/ pc \in {"header", "search"} /\ body = Padded(Chunk.len)
         \/ pc = "params" /\ body = 0,
         pc \in {"search", "params"} =>
           frame \in Nat \ {0} /\ (playSize = 0 \/ body >= FmtSize)
  PROVE  HeadInv'
<1>1. UNCHANGED <<playFile, playWrite, playWritten, playOut, playBuf>>
  BY DEF soundVars
<1>2. CASE playPc' = "exit" /\ UNCHANGED headVars
  <2>1. playPos' \in 0 .. playFile.length /\ playSize' \in 0 .. Loaded - RiffSize
    BY <1>2 DEF HeadInv, headVars
  <2> QED
    BY <1>1, <1>2, <2>1, HeaderExits DEF headVars
<1>3. CASE playPc' # "exit"
  <2>1. /\ playPc' = pc /\ playFrame' = frame /\ playNth' = playNth + 1
        /\ playNth' \in 2 .. Len(playFile.chunks) + 1
        /\ playPos' \in 0 .. playFile.length /\ playSize' \in 0 .. Loaded - RiffSize
        /\ playPos' - playSize' = playPos - playSize + ChunkHead + body
        /\ body >= FmtSize \/ playSize = 0 => playSize' = 0
    BY <1>3, ReadingAChunk
  <2>2. /\ Chunk \in ChunkType /\ playNth \in 1 .. Len(playFile.chunks)
        /\ Start = Chunk.at
        /\ Fits => Chunk.len < LengthWidth - 1
    BY NextChunk
  <2>3. playFile'.chunks[playNth' - 1] = Chunk
    <3>1. playNth' - 1 = playNth
      BY <2>1, <2>2
    <3> QED
      BY <1>1, <3>1 DEF Chunk
  <2>4. Chunk.at \in Nat /\ Chunk.len \in Nat
    BY <2>2 DEF ChunkType
  <2>5. playPos' - playSize' = Start'
    <3>1. playPos - playSize = Start
      BY DEF HeadInv
    <3>2. playPos' - playSize' = Chunk.at + ChunkHead + body
      BY <2>1, <2>2, <3>1
    <3>3. CASE pc = "params" /\ body = 0
      <4>1. Start' = Chunk.at + ChunkHead
        BY <2>1, <2>3, <3>3 DEF Start
      <4> QED
        BY <2>4, <3>2, <3>3, <4>1 DEF ChunkHead
    <3>4. CASE pc \in {"header", "search"} /\ body = Padded(Chunk.len)
      <4>1. playNth' # 1
        BY <2>1
      <4>2. Start' = ChunkEnd(Chunk)
        BY <2>1, <2>3, <3>4, <4>1 DEF Start
      <4>3. body = Chunk.len + (Chunk.len % 2)
        BY <2>2, <3>4, PaddedLength
      <4>4. Chunk.len % 2 \in Nat
        BY <2>4
      <4> QED
        BY <2>4, <3>2, <4>2, <4>3, <4>4 DEF ChunkEnd, ChunkHead
    <3> QED
      BY <3>3, <3>4
  <2>6. Fits' <=> Fits
    BY <1>1 DEF Fits
  <2>7. pc \in {"search", "params"} =>
          playNth' >= 2 /\ playSize' = 0 /\ playFrame' \in Nat \ {0}
    BY <2>1
  <2>8. playPc' \in {"header", "search", "params"}
    BY <2>1
  <2>9. playNth' \in 1 .. Len(playFile.chunks) + 1
    BY <2>1, <2>2
  <2> QED
    BY <1>1, <2>1, <2>5, <2>6, <2>7, <2>8, <2>9 DEF HeadInv, PlayPlaces, ChunksFollow
<1> QED
  BY <1>2, <1>3 DEF ReadsChunk, PlayGoes

LEMMA HeaderSteps ==
  ASSUME HeadInv, Fits, HeaderEnds \/ BeforeFmt \/ AfterFmt
  PROVE  HeadInv' /\ SoundInv'
<1>1. /\ HeadInv /\ playPc \in {"header", "search"} /\ UNCHANGED <<playFile, soundVars>>
  BY DEF HeaderEnds, BeforeFmt, AfterFmt, AtChunk
<1>2. playOut' = << >> /\ playWrite' = << >> /\ playWritten' = 0
  BY <1>1 DEF HeadInv, soundVars
<1>3. ASSUME playPc' = "exit", UNCHANGED headVars
      PROVE  HeadInv'
  <2>1. playPos' \in 0 .. playFile.length /\ playSize' \in 0 .. Loaded - RiffSize
    BY <1>1, <1>3 DEF HeadInv, headVars
  <2> QED
    BY <1>1, <1>3, <2>1, HeaderExits DEF headVars, soundVars
<1>4. ASSUME HeaderEnds
      PROVE  HeadInv'
  BY <1>3, <1>4 DEF HeaderEnds, PlayGoes
<1>5. ASSUME BeforeFmt
      PROVE  HeadInv'
  <2>1. ~NoMore /\ playPc = "header"
    BY <1>5 DEF BeforeFmt, AtChunk
  <2>2. Padded(Chunk.len) \in Nat
    BY <1>1, <2>1, NextChunk, PaddedLength
  <2>3. CASE Chunk.type # "fmt"
    <3>1. ReadsChunk("header", Padded(Chunk.len), 0)
      BY <1>5, <2>3 DEF BeforeFmt
    <3> QED
      BY <1>1, <2>1, <2>2, <3>1, ChunkRead
  <2>4. CASE Chunk.type = "fmt"
    <3>1. PICK fmt \in PlayFormats :
            IF Playable(fmt, Padded(Chunk.len))
            THEN ReadsChunk("search", Padded(Chunk.len), FrameOf(fmt))
            ELSE PlayGoes("exit") /\ UNCHANGED headVars
      BY <1>5, <2>4 DEF BeforeFmt
    <3>2. CASE Playable(fmt, Padded(Chunk.len))
      <4>1. FrameOf(fmt) \in Nat \ {0} /\ Padded(Chunk.len) >= FmtSize
        BY <3>2, FrameIsPositive
      <4> QED
        BY <1>1, <2>1, <2>2, <3>1, <3>2, <4>1, ChunkRead
    <3> QED
      BY <1>3, <3>1, <3>2 DEF PlayGoes
  <2> QED
    BY <2>3, <2>4
<1>6. ASSUME AfterFmt
      PROVE  HeadInv'
  <2>1. ~NoMore /\ playPc = "search" /\ playSize = 0 /\ playFrame \in Nat \ {0}
    BY <1>1, <1>6 DEF AfterFmt, AtChunk, HeadInv
  <2>2. Padded(Chunk.len) \in Nat
    BY <1>1, <2>1, NextChunk, PaddedLength
  <2>3. CASE Chunk.type = "data"
    <3>1. ReadsChunk("params", 0, playFrame)
      BY <1>6, <2>3 DEF AfterFmt
    <3> QED
      BY <1>1, <2>1, <3>1, ChunkRead
  <2>4. CASE Chunk.type # "data"
    <3>1. ReadsChunk("search", Padded(Chunk.len), playFrame)
      BY <1>6, <2>4 DEF AfterFmt
    <3> QED
      BY <1>1, <2>1, <2>2, <3>1, ChunkRead
  <2> QED
    BY <2>3, <2>4
<1>7. HeadInv'
  BY <1>4, <1>5, <1>6
<1>8. playPc' \in {"header", "search", "params", "exit"}
  BY <1>1 DEF HeaderEnds, BeforeFmt, AfterFmt, ReadsChunk, PlayGoes
<1> QED
  BY <1>2, <1>7, <1>8 DEF SoundInv

-----------------------------------------------------------------------------
(* The steps of the sound: what the header left is as it was, and a write  *)
(* begins or goes on.                                                      *)
LEMMA HeadStays ==
  ASSUME HeadInv, UNCHANGED <<playFile, playSize, playNth>>,
         playPos' \in 0 .. playFile.length,
         playPc' \in {"loaded", "fill", "first", "second", "drained", "underrun", "exit"}
  PROVE  HeadInv'
BY DEF HeadInv, PlayPlaces, Fits, ChunksFollow

LEMMA ParamsSound ==
  ASSUME HeadInv, Fits, SetParams
  PROVE  SoundInv'
<1>1. /\ playPc = "params" /\ UNCHANGED <<playFile, playNth, playPos, playSize, playFrame>>
      /\ UNCHANGED <<playBuf, playWrite, playWritten, playOut>>
  BY DEF SetParams, headVars
<1>2. /\ playOut = << >> /\ playWrite = << >> /\ playWritten = 0
      /\ playBuf = Positions(0, Loaded) /\ playPos - playSize = Start
      /\ playNth >= 2 /\ playSize = 0 /\ playFrame \in Nat \ {0}
  BY <1>1 DEF HeadInv
<1>3. CASE playPc' = "exit"
  BY <1>1, <1>2, <1>3 DEF SoundInv
<1>4. CASE playPc' = "loaded"
  <2>1. PICK n \in PlayChunks : playChunk' = n * playFrame
    BY <1>4 DEF SetParams, PlayGoes
  <2>2. n \in Nat \ {0}
    BY PlayAssumption
  <2>3. n * playFrame \in Nat \ {0}
    BY <1>2, <2>2
  <2>4. /\ Start' = Start /\ Start \in Nat /\ playPos \in Nat
    BY <1>1, <1>2, <1>4, StartStays
  <2>5. Start = playPos
    BY <1>2, <2>4
  <2>6. PlayCount \in Nat /\ PlayCount >= Loaded
    BY PlayAssumption
  <2>7. Multiple(0)'
    BY <1>1, <1>2 DEF Multiple
  <2>8. Multiple(playChunk)'
    BY <1>1, <2>1, <2>2 DEF Multiple
  <2>9. Playing'
    BY <1>1, <1>2, <2>1, <2>3, <2>4, <2>5, <2>6, <2>7, <2>8 DEF Playing, ReadSoFar, Loaded
  <2>10. Len(playBuf) = Loaded /\ Follows(Start, playBuf, 0)
    <3>1. playBuf = [i \in 1 .. 26 |-> 0 + i]
      BY <1>2 DEF Positions, Loaded
    <3>2. /\ playBuf \in Seq(Nat) /\ Len(playBuf) = 26
          /\ \A i \in 1 .. 26 : playBuf[i] = i /\ i <= 26 /\ 0 + i = i
      BY ONLY <3>1
    <3> QED
      BY ONLY <3>2 DEF Follows, SoundByte, Loaded
  <2>11. PlaysThen(Start, << >>, << >>, 0)
    BY DEF PlaysThen
  <2>12. Loading'
    BY <1>1, <1>2, <2>4, <2>5, <2>10, <2>11 DEF Loading, ReadSoFar, Loaded
  <2> QED
    BY <1>4, <2>9, <2>12 DEF SoundInv
<1> QED
  BY <1>3, <1>4 DEF SetParams, PlayGoes

(* What pcm_write is given, as Begins makes it.                            *)
LEMMA BeginsSound ==
  ASSUME NEW s \in Nat, NEW data, NEW pc, Begins(data, pc),
         playFrame \in Nat \ {0}, playChunk \in Nat \ {0}, Multiple(playChunk),
         playWritten \in Nat, Len(playOut) = playWritten,
         PlaysThen(s, playOut, << >>, playWritten), Follows(s, data, playWritten),
         Len(data) <= playChunk
  PROVE  /\ playPc' = pc /\ playWrite' \in Seq(Nat) /\ Len(playWrite') = playChunk
         /\ PlaysThen(s, playOut, playWrite',
                      playWritten + (Len(data) - (Len(data) % playFrame)))
         /\ playShort' <=> Len(data) < playChunk
         /\ playShort' \in BOOLEAN
<1> PICK len \in Nat : len = Len(data)
  BY LenProperties DEF Follows
<1>1. len % playFrame \in 0 .. playFrame - 1 /\ len - (len % playFrame) \in 0 .. len
  BY Rest
<1> PICK whole \in 0 .. len : whole = len - (len % playFrame)
  BY <1>1
<1>2. whole \in Nat /\ whole <= len /\ len <= playChunk
  BY ONLY whole \in 0 .. len, len \in Nat, len = Len(data), Len(data) <= playChunk
<1> PICK m \in Nat : m = playChunk - whole
  BY ONLY <1>2, len \in Nat, playChunk \in Nat \ {0}
<1>3. /\ playWrite' = Filled(data, whole, m)
      /\ playShort' = (whole < playChunk) /\ playPc' = pc
  BY DEF Begins, PlayGoes, Filled
<1>4. /\ PlaysThen(s, playOut, playWrite', playWritten + whole)
      /\ Len(playWrite') = whole + m
  <2>1. whole \in 0 .. Len(data)
    OBVIOUS
  <2>2. Len(playOut) = playWritten /\ playWritten \in Nat
    OBVIOUS
  <2>3. ToWrite(s, playOut, data, playWritten, whole, m)
    BY <2>1, <2>2 DEF ToWrite
  <2>4. ToBeWritten(s, playOut, data, playWritten, whole, m)
    BY <2>3, BeginsWhole
  <2> QED
    BY <1>3, <2>4 DEF ToBeWritten
<1>5. whole < playChunk <=> len < playChunk
  <2>1. ASSUME ~(len < playChunk)
        PROVE  whole = len
    <3>1. len = playChunk
      BY <2>1
    <3>2. PICK q \in Nat : playChunk = q * playFrame
      BY DEF Multiple
    <3>3. (q * playFrame + 0) % playFrame = 0 % playFrame
      BY <3>2, RestOfSum
    <3>4. len % playFrame = 0
      BY <3>1, <3>2, <3>3
    <3> QED
      BY <3>4
  <2> QED
    BY <1>1, <2>1
<1>6. Len(playWrite') = playChunk
  BY <1>4
<1>7. playWrite' \in Seq(Nat)
  BY <1>4 DEF PlaysThen
<1>8. PlaysThen(s, playOut, playWrite',
                playWritten + (Len(data) - (Len(data) % playFrame)))
  BY <1>4
<1>9. playShort' <=> Len(data) < playChunk
  BY <1>3, <1>5
<1> QED
  BY <1>3, <1>6, <1>7, <1>8, <1>9

LEMMA LoadedSound ==
  ASSUME HeadInv, Fits, SoundInv, WritesLoaded
  PROVE  SoundInv'
<1>1. /\ playPc = "loaded" /\ UNCHANGED <<playFile, playNth, playPos, playFrame>>
      /\ UNCHANGED <<playChunk, playWritten, playOut>> /\ Playing /\ Loading
  BY DEF WritesLoaded, SoundInv, headVars
<1>2. playPc' \in {"first", "fill"}
  BY DEF WritesLoaded, Begins, PlayGoes
<1>3. Start' = Start /\ Start \in Nat /\ SoundLength' = SoundLength
  BY <1>1, <1>2, StartStays DEF Playing
<1>4. Playing'
  BY <1>1, <1>3 DEF Playing, Multiple, ReadSoFar
<1>5. /\ playFrame \in Nat \ {0} /\ playChunk \in Nat \ {0} /\ Multiple(playChunk)
      /\ playWritten \in Nat
  BY <1>1 DEF Playing
<1>6. /\ playWrite = << >> /\ Len(playOut) = playWritten
      /\ PlaysThen(Start, playOut, << >>, playWritten) /\ Follows(Start, playBuf, playWritten)
      /\ playWritten + Len(playBuf) = ReadSoFar
  BY <1>1 DEF Loading
<1>7. ReadSoFar' = ReadSoFar
  BY <1>1, <1>3 DEF ReadSoFar
<1>8. Len(playBuf) \in Nat
  BY <1>6, LenProperties DEF Follows
<1>9. CASE ~(Len(playBuf) > playChunk /\ playWritten < PlayCount)
  <2>1. /\ playPc' = "fill" /\ UNCHANGED <<playBuf, playWrite>>
    BY <1>9 DEF WritesLoaded, PlayGoes
  <2>2. Loading'
    BY <1>1, <1>3, <1>6, <1>7, <2>1 DEF Loading
  <2>3. Len(playBuf) <= playChunk
    <3>1. CASE ~(playWritten < PlayCount)
      <4>1. ReadSoFar <= PlayCount /\ PlayCount \in Nat
        BY <1>1, PlayAssumption DEF Playing
      <4> QED
        BY <1>5, <1>6, <1>8, <3>1, <4>1
    <3> QED
      BY <1>5, <1>8, <1>9, <3>1
  <2> QED
    BY <1>1, <1>4, <2>1, <2>2, <2>3 DEF SoundInv
<1>10. CASE Len(playBuf) > playChunk /\ playWritten < PlayCount
  <2> DEFINE head == SubSeq(playBuf, 1, playChunk)
  <2>1. playChunk \in 0 .. Len(playBuf)
    BY <1>5, <1>8, <1>10
  <2>2. /\ Follows(Start, head, playWritten) /\ Len(head) = playChunk
        /\ Follows(Start, playBuf', playWritten + playChunk)
        /\ Len(playBuf') = Len(playBuf) - playChunk
        /\ Begins(head, "first")
    <3>1. /\ playBuf' = SubSeq(playBuf, playChunk + 1, Len(playBuf)) /\ Begins(head, "first")
      BY <1>10 DEF WritesLoaded
    <3> QED
      BY <1>5, <1>6, <2>1, <3>1, FollowsParts
  <2> HIDE DEF head
  <2>3. Len(head) <= playChunk /\ ~(Len(head) < playChunk)
    BY <1>5, <2>2
  <2>4. Len(head) - (Len(head) % playFrame) = playChunk
    <3>1. PICK q \in Nat : playChunk = q * playFrame
      BY <1>5 DEF Multiple
    <3>2. (q * playFrame + 0) % playFrame = 0 % playFrame
      BY <1>5, RestOfSum
    <3>3. playChunk % playFrame = 0
      BY <1>5, <3>1, <3>2
    <3> QED
      BY <1>5, <2>2, <3>3
  <2>5. /\ playPc' = "first" /\ playWrite' \in Seq(Nat) /\ Len(playWrite') = playChunk
        /\ PlaysThen(Start, playOut, playWrite',
                     playWritten + (Len(head) - (Len(head) % playFrame)))
        /\ (playShort' <=> Len(head) < playChunk)
    BY <1>3, <1>5, <1>6, <2>2, <2>3, BeginsSound
  <2>6. PlaysThen(Start, playOut, playWrite', playWritten + playChunk)
    BY <2>4, <2>5
  <2>7. ~playShort'
    BY <2>3, <2>5
  <2>8. Multiple(Len(playWrite))'
    BY <1>1, <1>5, <2>5 DEF Multiple
  <2>9. playWritten + playChunk + Len(playBuf') = ReadSoFar
    BY <1>5, <1>6, <1>8, <2>2
  <2>10. WholePeriod'
    BY <1>1, <1>3, <1>6, <1>7, <2>2, <2>5, <2>6, <2>9 DEF WholePeriod
  <2> QED
    BY <1>4, <2>5, <2>7, <2>8, <2>10 DEF SoundInv
<1> QED
  BY <1>9, <1>10

(* The inner loop ends: a period is full, or there is no more.             *)
LEMMA FilledSound ==
  ASSUME HeadInv, Fits, Playing, Loading, playPc = "fill", Len(playBuf) <= playChunk,
         UNCHANGED <<playFile, playNth, playPos, playFrame, playChunk, playWritten, playOut>>,
         Begins(playBuf, "second"), playBuf' = << >>,
         Missing = 0 \/ FirstOf(Missing, playFile.length - playPos) = 0
  PROVE  SoundInv'
<1>1. /\ playFrame \in Nat \ {0} /\ playChunk \in Nat \ {0} /\ Multiple(playChunk)
      /\ playWritten \in Nat /\ Multiple(playWritten)
  BY DEF Playing
<1>2. /\ playWrite = << >> /\ Len(playOut) = playWritten
      /\ PlaysThen(Start, playOut, << >>, playWritten) /\ Follows(Start, playBuf, playWritten)
      /\ playWritten + Len(playBuf) = ReadSoFar
  BY DEF Loading
<1> PICK len \in Nat : len = Len(playBuf)
  BY <1>2, LenProperties DEF Follows
<1>3. playPc' = "second"
  BY DEF Begins, PlayGoes
<1>4. Start' = Start /\ Start \in Nat /\ SoundLength' = SoundLength
  BY <1>3, StartStays DEF Playing
<1>5. ReadSoFar' = ReadSoFar
  BY <1>4 DEF ReadSoFar
<1>6. Playing'
  BY <1>4 DEF Playing, Multiple, ReadSoFar
<1>7. /\ playWrite' \in Seq(Nat) /\ Len(playWrite') = playChunk
      /\ PlaysThen(Start, playOut, playWrite', playWritten + (len - (len % playFrame)))
      /\ (playShort' <=> len < playChunk)
  BY <1>1, <1>2, <1>4, BeginsSound
<1>8. Multiple(Len(playWrite))'
  BY <1>1, <1>7 DEF Multiple
<1>9. CASE ~playShort'
  <2>1. len = playChunk
    BY <1>1, <1>7, <1>9
  <2>2. len % playFrame = 0
    <3>1. PICK q \in Nat : playChunk = q * playFrame
      BY <1>1 DEF Multiple
    <3>2. (q * playFrame + 0) % playFrame = 0 % playFrame
      BY <1>1, RestOfSum
    <3> QED
      BY <1>1, <2>1, <3>1, <3>2
  <2>3. PlaysThen(Start, playOut, playWrite', playWritten + playChunk)
    BY <1>7, <2>1, <2>2
  <2>4. Follows(Start, << >>, playWritten + playChunk)
    BY DEF Follows
  <2>5. Len(playOut) + Len(playWrite') = playWritten + playChunk
    BY <1>2, <1>7
  <2>6. playWritten + playChunk + 0 = ReadSoFar
    BY <1>1, <1>2, <2>1
  <2>7. Len(<< >>) = 0
    OBVIOUS
  <2>8. WholePeriod'
    BY <1>4, <1>5, <2>3, <2>4, <2>5, <2>6, <2>7 DEF WholePeriod
  <2> QED
    BY <1>3, <1>6, <1>8, <1>9, <2>8 DEF SoundInv
<1>10. CASE playShort'
  <2>1. len < playChunk
    BY <1>7, <1>10
  <2>2. /\ ReadSoFar \in Nat /\ SoundLength \in Nat /\ ReadSoFar <= SoundLength
        /\ ReadSoFar <= PlayCount /\ PlayCount \in Nat /\ playPos \in Nat
        /\ playPos <= playFile.length
        /\ (playPos = playFile.length \/ ReadSoFar = PlayCount => ReadSoFar = SoundLength)
    BY ReadIsSound DEF Playing
  <2>3. playFile.length \in Nat
    BY DEF HeadInv, FileType
  <2>4. SoundLength = playWritten + len
    <3>1. CASE Missing = 0
      <4>1. PlayCount - playWritten = len
        BY <1>1, <2>1, <2>2, <3>1 DEF Missing, FirstOf
      <4> QED
        BY <1>1, <1>2, <2>2, <4>1
    <3>2. CASE Missing # 0 /\ FirstOf(Missing, playFile.length - playPos) = 0
      <4>1. playPos = playFile.length
        BY <2>2, <2>3, <3>2 DEF FirstOf
      <4> QED
        BY <1>1, <1>2, <2>2, <4>1
    <3> QED
      BY <3>1, <3>2
  <2>5. SoundLength % playFrame = len % playFrame
    <3>1. PICK q \in Nat : playWritten = q * playFrame
      BY <1>1 DEF Multiple
    <3>2. (q * playFrame + len) % playFrame = len % playFrame
      BY <1>1, RestOfSum
    <3> QED
      BY <2>4, <3>1, <3>2
  <2>6. len % playFrame \in Nat /\ len % playFrame <= len
    <3>1. len % playFrame \in 0 .. playFrame - 1 /\ len - (len % playFrame) \in 0 .. len
      BY <1>1, Rest
    <3>2. PICK r : r = len % playFrame
      OBVIOUS
    <3>3. r \in Nat /\ r <= len
      BY ONLY <1>1, <3>1, <3>2, len \in Nat
    <3> QED
      BY <3>2, <3>3
  <2>7. LastWhole = playWritten + (len - (len % playFrame))
    BY <1>1, <2>4, <2>5, <2>6 DEF LastWhole
  <2>8. LastWhole \in 0 .. SoundLength /\ LastWhole <= playWritten + playChunk
    BY <1>1, <2>1, <2>4, <2>6, <2>7
  <2>9. LastWhole' = LastWhole
    BY <1>4 DEF LastWhole
  <2>10. PlaysThen(Start, playOut, playWrite', LastWhole)
    BY <1>7, <2>7
  <2>11. ShortPeriod'
    BY <1>2, <1>3, <1>4, <1>7, <2>8, <2>9, <2>10 DEF ShortPeriod
  <2> QED
    BY <1>3, <1>6, <1>8, <1>10, <2>11 DEF SoundInv
<1> QED
  BY <1>9, <1>10

LEMMA FillsSound ==
  ASSUME HeadInv, Fits, SoundInv, FillsBuffer
  PROVE  SoundInv'
<1>1. /\ playPc = "fill" /\ UNCHANGED <<playFile, playSize, playNth, playFrame>>
      /\ UNCHANGED <<playChunk, playWritten, playOut>>
      /\ Playing /\ Loading /\ Len(playBuf) <= playChunk
  BY DEF FillsBuffer, SoundInv
<1>2. /\ playFrame \in Nat \ {0} /\ playChunk \in Nat \ {0} /\ playWritten \in Nat
      /\ Multiple(playWritten) /\ playNth >= 2
  BY <1>1 DEF Playing
<1>3. /\ playWrite = << >> /\ Len(playOut) = playWritten
      /\ PlaysThen(Start, playOut, << >>, playWritten) /\ Follows(Start, playBuf, playWritten)
      /\ playWritten + Len(playBuf) = ReadSoFar
  BY <1>1 DEF Loading
<1>4. /\ ReadSoFar \in Nat /\ SoundLength \in Nat /\ ReadSoFar <= SoundLength
      /\ SoundLength <= PlayCount /\ PlayCount \in Nat /\ playPos \in Nat
      /\ playPos <= playFile.length
  BY <1>1, ReadIsSound
<1>5. playFile.length \in Nat /\ Len(playBuf) \in Nat
  BY <1>3, LenProperties DEF HeadInv, FileType, Follows
<1>6. CASE playPc' = "drained" /\ playWritten >= PlayCount /\ UNCHANGED <<playPos, playWrite>>
  <2>1. Start' = Start /\ Start \in Nat /\ SoundLength' = SoundLength
    BY <1>1, <1>2, <1>6, StartStays
  <2>2. SoundLength = playWritten
    BY <1>2, <1>3, <1>4, <1>5, <1>6
  <2>3. LastWhole = playWritten
    <3>1. PICK q \in Nat : playWritten = q * playFrame
      BY <1>2 DEF Multiple
    <3>2. (q * playFrame + 0) % playFrame = 0 % playFrame
      BY <1>2, RestOfSum
    <3>3. SoundLength % playFrame = 0
      BY <1>2, <2>2, <3>1, <3>2
    <3> QED
      BY <1>2, <2>2, <3>3 DEF LastWhole
  <2>4. LastWhole' = LastWhole
    BY <1>1, <2>1 DEF LastWhole
  <2> QED
    BY <1>1, <1>2, <1>3, <1>4, <1>6, <2>1, <2>2, <2>3, <2>4 DEF SoundInv
<1>7. CASE playPc' = "exit" /\ UNCHANGED playWrite
  <2>1. Start' = Start /\ Start \in Nat /\ SoundLength' = SoundLength
    BY <1>1, <1>2, <1>7, StartStays
  <2>2. playWritten \in 0 .. SoundLength /\ SoundLength \in Nat
    BY <1>2, <1>3, <1>4, <1>5
  <2> QED
    BY <1>1, <1>3, <1>7, <2>1, <2>2 DEF SoundInv
<1>8. CASE /\ Missing = 0 \/ FirstOf(Missing, playFile.length - playPos) = 0
           /\ Begins(playBuf, "second") /\ playBuf' = << >> /\ UNCHANGED playPos
  BY <1>1, <1>2, <1>8, FilledSound
<1>9. ASSUME NEW n \in {1, FirstOf(Missing, playFile.length - playPos)},
             Missing # 0, FirstOf(Missing, playFile.length - playPos) # 0,
             playPos' = playPos + n, playBuf' = WithRead(Positions(playPos, n)),
             UNCHANGED <<playPc, playWrite>>
      PROVE  SoundInv'
  <2> PICK missing : missing = Missing
    OBVIOUS
  <2>1. /\ missing \in Int /\ missing >= 0 /\ missing <= playChunk - Len(playBuf)
        /\ missing <= PlayCount - playWritten - Len(playBuf)
    BY <1>1, <1>2, <1>3, <1>4, <1>5 DEF Missing, FirstOf
  <2>2. n \in Nat \ {0} /\ n <= missing /\ n <= playFile.length - playPos
    BY <1>4, <1>5, <1>9, <2>1 DEF FirstOf
  <2>3. /\ Start' = Start /\ Start \in Nat
    BY <1>1, <1>2, <1>9, StartStays
  <2>4. Start <= playPos /\ ReadSoFar = Loaded + playPos - Start /\ Multiple(playChunk)
    BY <1>1 DEF Playing, ReadSoFar
  <2>5. /\ Follows(Start, playBuf', playWritten) /\ Len(playBuf') = Len(playBuf) + n
    <3>1. playBuf' = playBuf \o Positions(playPos, n)
      BY <1>9 DEF WithRead
    <3>2. playWritten + Len(playBuf) = Loaded + playPos - Start
      BY <1>3, <2>4
    <3> QED
      <4>1. Reads(Start, playBuf, playWritten, playPos, n, playBuf')
        BY <1>2, <1>3, <1>4, <2>2, <2>3, <2>4, <3>1, <3>2 DEF Reads
      <4>2. HasRead(Start, playBuf, playWritten, n, playBuf')
        BY <4>1, ReadFollows
      <4> QED
        BY <4>2 DEF HasRead
  <2>6. ReadSoFar' = ReadSoFar + n
    BY <1>4, <1>9, <2>2, <2>3, <2>4 DEF ReadSoFar, Loaded
  <2>7. ReadSoFar + n <= PlayCount /\ Start <= playPos + n
    BY <1>2, <1>3, <1>4, <1>5, <2>1, <2>2, <2>3, <2>4
  <2>8. Playing'
    BY <1>1, <1>2, <1>9, <2>3, <2>4, <2>6, <2>7 DEF Playing, Multiple
  <2>9. playWritten + Len(playBuf') = ReadSoFar + n
    BY <1>2, <1>3, <1>4, <1>5, <2>2, <2>5
  <2>10. Loading'
    BY <1>1, <1>3, <1>9, <2>3, <2>5, <2>6, <2>9 DEF Loading
  <2>11. Len(playBuf') <= playChunk
    BY <1>2, <1>5, <2>1, <2>2, <2>5
  <2> QED
    BY <1>1, <1>9, <2>8, <2>10, <2>11 DEF SoundInv
<1>10. CASE playWritten >= PlayCount
  BY <1>6, <1>10 DEF FillsBuffer, PlayGoes
<1>11. CASE ~(playWritten >= PlayCount)
  <2> DEFINE left == FirstOf(Missing, playFile.length - playPos)
  <2>1. IF Missing = 0 \/ left = 0
        THEN Begins(playBuf, "second") /\ playBuf' = << >> /\ UNCHANGED playPos
        ELSE \/ /\ \E n \in {1, left} :
                     playPos' = playPos + n /\ playBuf' = WithRead(Positions(playPos, n))
                /\ UNCHANGED <<playPc, playWrite, playShort>>
             \/ PlayGoes("exit") /\ UNCHANGED <<playPos, playBuf, playWrite, playShort>>
    BY <1>11 DEF FillsBuffer
  <2>2. CASE Missing = 0 \/ left = 0
    BY <1>8, <2>1, <2>2
  <2>3. CASE ~(Missing = 0 \/ left = 0)
    <3>1. CASE PlayGoes("exit") /\ UNCHANGED <<playPos, playBuf, playWrite, playShort>>
      BY <1>7, <3>1 DEF PlayGoes
    <3>2. CASE ~(PlayGoes("exit") /\ UNCHANGED <<playPos, playBuf, playWrite, playShort>>)
      <4>1. PICK n \in {1, left} :
              /\ playPos' = playPos + n /\ playBuf' = WithRead(Positions(playPos, n))
              /\ UNCHANGED <<playPc, playWrite, playShort>>
        BY <2>1, <2>3, <3>2
      <4>2. Missing # 0 /\ left # 0
        BY <2>3
      <4> QED
        BY <1>9, <4>1, <4>2
    <3> QED
      BY <3>1, <3>2
  <2> QED
    BY <2>2, <2>3
<1> QED
  BY <1>10, <1>11

(* Of a period that is being written, so many bytes are sound.             *)
OfSound == IF playShort THEN LastWhole ELSE playWritten + playChunk
LEMMA SoundOfPeriod ==
  ASSUME HeadInv, SoundInv, playPc \in {"first", "second"}
  PROVE  /\ Playing /\ Multiple(Len(playWrite)) /\ OfSound \in 0 .. SoundLength
         /\ SoundLength \in Nat /\ PlaysThen(Start, playOut, playWrite, OfSound)
<1>1. Playing /\ Multiple(Len(playWrite)) /\ IF playShort THEN ShortPeriod ELSE WholePeriod
  BY DEF SoundInv
<1>2. CASE playShort
  BY <1>1, <1>2, ReadIsSound DEF ShortPeriod, OfSound
<1>3. CASE ~playShort
  <2>1. /\ ReadSoFar \in Nat /\ SoundLength \in Nat /\ ReadSoFar <= SoundLength
    BY <1>1, ReadIsSound
  <2>2. /\ playWritten + playChunk + Len(playBuf) = ReadSoFar
        /\ PlaysThen(Start, playOut, playWrite, playWritten + playChunk)
        /\ Follows(Start, playBuf, playWritten + playChunk)
    BY <1>1, <1>3 DEF WholePeriod
  <2>3. Len(playBuf) \in Nat
    BY <2>2, LenProperties DEF Follows
  <2>4. playWritten \in Nat /\ playChunk \in Nat
    BY <1>1 DEF Playing
  <2>5. playWritten + playChunk \in 0 .. SoundLength
    BY <2>1, <2>2, <2>3, <2>4
  <2> QED
    BY <1>1, <1>3, <2>1, <2>2, <2>5 DEF OfSound
<1> QED
  BY <1>2, <1>3

LEMMA WriteSound ==
  ASSUME HeadInv, Fits, SoundInv, WriteI
  PROVE  SoundInv'
<1>1. /\ playPc \in {"first", "second"} /\ playWrite # << >>
      /\ UNCHANGED <<playFile, playNth, playPos, playFrame>>
      /\ UNCHANGED <<playChunk, playBuf, playShort, playWritten>>
  BY DEF WriteI, headVars
<1>2. /\ Playing /\ Multiple(Len(playWrite)) /\ OfSound \in 0 .. SoundLength
      /\ SoundLength \in Nat /\ PlaysThen(Start, playOut, playWrite, OfSound)
  BY <1>1, SoundOfPeriod
<1>3. playFrame \in Nat \ {0} /\ playNth >= 2
  BY <1>2 DEF Playing
<1>4. playPc' \notin {"header", "search"}
  BY <1>1 DEF WriteI, PlayGoes
<1>5. Start' = Start /\ Start \in Nat /\ SoundLength' = SoundLength
  BY <1>1, <1>3, <1>4, StartStays
<1>6. CASE playPc' \in {"underrun", "exit"} /\ UNCHANGED <<playOut, playWrite>>
  BY <1>2, <1>5, <1>6 DEF SoundInv
<1>7. ASSUME NEW n \in {playFrame, Len(playWrite)}, UNCHANGED playPc,
             playOut' = playOut \o SubSeq(playWrite, 1, n),
             playWrite' = SubSeq(playWrite, n + 1, Len(playWrite))
      PROVE  SoundInv'
  <2>1. /\ playWrite \in Seq(Nat) /\ playOut \in Seq(Nat)
    BY <1>2 DEF PlaysThen
  <2>2. Len(playWrite) \in Nat /\ Len(playWrite) > 0 /\ Len(playOut) \in Nat
    BY <1>1, <2>1, EmptySeq, LenProperties
  <2>3. PICK q \in Nat : Len(playWrite) = q * playFrame
    BY <1>2 DEF Multiple
  <2>4. Len(playWrite) >= playFrame /\ \E p \in Nat : Len(playWrite) - playFrame = p * playFrame
    <3>1. q * playFrame > 0
      BY <2>2, <2>3
    <3>2. q * playFrame >= playFrame /\ \E p \in Nat : q * playFrame - playFrame = p * playFrame
      BY <1>3, <3>1, LeastMultiple
    <3> QED
      BY <2>3, <3>2
  <2>5. n \in 0 .. Len(playWrite)
    BY <1>3, <2>2, <2>4
  <2>6. OfSound \in Nat
    BY <1>2
  <2>7. /\ PlaysThen(Start, playOut', playWrite', OfSound)
        /\ Len(playOut') = Len(playOut) + n /\ Len(playWrite') = Len(playWrite) - n
    <3>1. Takes(Start, playOut, playWrite, OfSound, n, playOut', playWrite')
      BY <1>2, <1>7, <2>5, <2>6 DEF Takes
    <3>2. HasTaken(Start, playOut, playWrite, OfSound, n, playOut', playWrite')
      BY <3>1, DeviceTakes
    <3> QED
      BY <3>2 DEF HasTaken
  <2>8. \E p \in Nat : Len(playWrite') = p * playFrame
    <3>1. CASE n = playFrame
      BY <2>4, <2>7, <3>1
    <3>2. CASE n = Len(playWrite)
      <4>1. Len(playWrite') = 0 * playFrame
        BY <1>3, <2>2, <2>7, <3>2
      <4> QED
        BY <4>1
    <3> QED
      BY <3>1, <3>2
  <2>9. Multiple(Len(playWrite))'
    BY <1>1, <2>8 DEF Multiple
  <2>10. Len(playOut') + Len(playWrite') = Len(playOut) + Len(playWrite)
    BY <2>2, <2>5, <2>7
  <2>11. Playing' /\ ReadSoFar' = ReadSoFar /\ LastWhole' = LastWhole
    BY <1>1, <1>2, <1>5 DEF Playing, Multiple, ReadSoFar, LastWhole
  <2>12. IF playShort THEN ShortPeriod ELSE WholePeriod
    BY <1>1 DEF SoundInv
  <2>13. CASE playShort
    <3>1. PlaysThen(Start, playOut', playWrite', LastWhole)
      BY <2>7, <2>13 DEF OfSound
    <3>2. ShortPeriod'
      BY <1>5, <1>7, <2>10, <2>11, <2>12, <2>13, <3>1 DEF ShortPeriod
    <3> QED
      BY <1>1, <1>7, <2>9, <2>11, <2>13, <3>2 DEF SoundInv
  <2>14. CASE ~playShort
    <3>1. PlaysThen(Start, playOut', playWrite', playWritten + playChunk)
      BY <2>7, <2>14 DEF OfSound
    <3>2. WholePeriod'
      BY <1>1, <1>5, <1>7, <2>10, <2>11, <2>12, <2>14, <3>1 DEF WholePeriod
    <3> QED
      BY <1>1, <1>7, <2>9, <2>11, <2>14, <3>2 DEF SoundInv
  <2> QED
    BY <2>13, <2>14
<1>8. \/ \E n \in {playFrame, Len(playWrite)} :
          /\ playOut' = playOut \o SubSeq(playWrite, 1, n)
          /\ playWrite' = SubSeq(playWrite, n + 1, Len(playWrite)) /\ UNCHANGED playPc
      \/ playPc' \in {"underrun", "exit"} /\ UNCHANGED <<playOut, playWrite>>
  BY DEF WriteI, PlayGoes
<1> QED
  BY <1>6, <1>7, <1>8

LEMMA WrittenSound ==
  ASSUME HeadInv, Fits, SoundInv, PcmWritten
  PROVE  SoundInv'
<1>1. /\ playPc \in {"first", "second"} /\ playWrite = << >>
      /\ UNCHANGED <<playFile, playNth, playPos, playFrame>>
      /\ UNCHANGED <<playChunk, playBuf, playWrite, playShort, playOut>>
  BY DEF PcmWritten, headVars
<1>2. Playing /\ IF playShort THEN ShortPeriod ELSE WholePeriod
  BY <1>1 DEF SoundInv
<1>3. /\ playFrame \in Nat \ {0} /\ playNth >= 2 /\ playWritten \in Nat
      /\ playChunk \in Nat \ {0} /\ Multiple(playWritten) /\ Multiple(playChunk)
  BY <1>2 DEF Playing
<1>4. /\ playPc' = IF playPc = "first" THEN "loaded" ELSE IF playShort THEN "drained" ELSE "fill"
      /\ playWritten' = playWritten + (IF playShort THEN 0 ELSE playChunk)
  BY DEF PcmWritten, PlayGoes
<1>5. Start' = Start /\ SoundLength' = SoundLength /\ SoundLength \in Nat
  BY <1>1, <1>2, <1>3, <1>4, StartStays, ReadIsSound
<1>6. ReadSoFar' = ReadSoFar /\ LastWhole' = LastWhole
  BY <1>1, <1>5 DEF ReadSoFar, LastWhole
<1>7. CASE playShort
  <2>1. /\ playPc' = "drained" /\ LastWhole \in 0 .. SoundLength
        /\ PlaysThen(Start, playOut, playWrite, LastWhole)
        /\ LastWhole <= Len(playOut) + Len(playWrite)
    BY <1>2, <1>4, <1>7 DEF ShortPeriod
  <2>2. Len(playOut) \in Nat /\ Len(playWrite) = 0
    BY <1>1, <2>1, LenProperties DEF PlaysThen
  <2>3. LastWhole <= Len(playOut)
    BY <2>1, <2>2
  <2> QED
    BY <1>1, <1>5, <1>6, <2>1, <2>3 DEF SoundInv
<1>8. CASE ~playShort
  <2>1. /\ Len(playOut) + Len(playWrite) = playWritten + playChunk
        /\ PlaysThen(Start, playOut, << >>, playWritten + playChunk)
        /\ Follows(Start, playBuf, playWritten + playChunk)
        /\ playWritten + playChunk + Len(playBuf) = ReadSoFar
        /\ playPc = "second" => playBuf = << >>
    BY <1>1, <1>2, <1>8 DEF WholePeriod
  <2>2. Len(playOut) = playWritten + playChunk
    <3>1. Len(playOut) \in Nat /\ Len(playWrite) = 0
      BY <1>1, <2>1, LenProperties DEF PlaysThen
    <3> QED
      BY <2>1, <3>1
  <2>3. playWritten' = playWritten + playChunk /\ playPc' \in {"loaded", "fill"}
    BY <1>1, <1>4, <1>8
  <2>4. \E p \in Nat : playWritten + playChunk = p * playFrame
    <3>1. PICK q \in Nat : playWritten = q * playFrame
      BY <1>3 DEF Multiple
    <3>2. PICK r \in Nat : playChunk = r * playFrame
      BY <1>3 DEF Multiple
    <3>3. q * playFrame + r * playFrame = (q + r) * playFrame
      BY <1>3, SumOfMultiples
    <3> QED
      BY <3>1, <3>2, <3>3
  <2>5. Multiple(playWritten)' /\ playWritten' \in Nat
    <3>1. \E p \in Nat : playWritten' = p * playFrame'
      BY <1>1, <2>3, <2>4
    <3> QED
      BY <1>3, <2>3, <3>1 DEF Multiple
  <2>6. Playing'
    BY <1>1, <1>2, <1>5, <1>6, <2>5 DEF Playing, Multiple
  <2>7. Loading'
    BY <1>1, <1>5, <1>6, <2>1, <2>2, <2>3 DEF Loading
  <2>8. playPc' = "fill" => Len(playBuf') <= playChunk'
    <3>1. ASSUME playPc' = "fill"
          PROVE  Len(playBuf') <= playChunk'
      <4>1. playBuf' = << >>
        BY <1>1, <1>4, <2>1, <3>1
      <4> QED
        BY <1>1, <1>3, <4>1
    <3> QED
      BY <3>1
  <2> QED
    BY <2>3, <2>6, <2>7, <2>8 DEF SoundInv
<1> QED
  BY <1>7, <1>8

(* No more is read than the file has, whatever is missing.                 *)
LEMMA FillsWithin ==
  ASSUME HeadInv, SoundInv, FillsBuffer
  PROVE  playPos' \in 0 .. playFile.length
<1>1. Playing /\ Loading /\ Len(playBuf) <= playChunk
  BY DEF FillsBuffer, SoundInv
<1>2. /\ ReadSoFar \in Nat /\ ReadSoFar <= PlayCount /\ PlayCount \in Nat
      /\ playPos \in Nat /\ playPos <= playFile.length
  BY <1>1, ReadIsSound DEF FillsBuffer, Playing
<1>3. playFile.length \in Nat /\ Len(playBuf) \in Nat /\ playWritten \in Nat
      /\ playChunk \in Nat /\ playWritten + Len(playBuf) = ReadSoFar
  BY <1>1, LenProperties DEF HeadInv, FileType, Loading, Follows, Playing
<1> DEFINE left == FirstOf(Missing, playFile.length - playPos)
<1>4. left \in 0 .. playFile.length - playPos
  <2>1. PICK missing : missing = Missing
    OBVIOUS
  <2>2. missing \in Nat
    BY <1>1, <1>2, <1>3, <2>1 DEF Missing, FirstOf
  <2> QED
    BY <1>2, <1>3, <2>1, <2>2 DEF FirstOf
<1>5. UNCHANGED playPos \/ \E n \in {1, left} : playPos' = playPos + n /\ left # 0
  BY DEF FillsBuffer
<1> QED
  BY <1>2, <1>3, <1>4, <1>5

LEMMA PlayStep ==
  PlayInv /\ [PlayNext]_playVars => PlayInv'
<1> SUFFICES ASSUME PlayInv, [PlayNext]_playVars, Fits'
             PROVE  HeadInv' /\ SoundInv'
  BY DEF PlayInv
<1>1. Fits
  BY DEF Fits, PlayNext, playVars, Opens, HeaderEnds, BeforeFmt, AfterFmt, AtChunk, SetParams,
         WritesLoaded, FillsBuffer, WriteI, PcmWritten
<1>2. HeadInv /\ SoundInv
  BY <1>1 DEF PlayInv
<1>3. CASE Opens
  BY <1>2, <1>3, OpensHead
<1>4. CASE HeaderEnds \/ BeforeFmt \/ AfterFmt
  BY <1>1, <1>2, <1>4, HeaderSteps
<1>5. CASE SetParams \/ WritesLoaded \/ FillsBuffer \/ WriteI \/ PcmWritten
  <2>1. UNCHANGED <<playFile, playSize, playNth>>
    BY <1>5 DEF SetParams, WritesLoaded, FillsBuffer, WriteI, PcmWritten, headVars
  <2>2. playPc' \in {"loaded", "fill", "first", "second", "drained", "underrun", "exit"}
    BY <1>5 DEF SetParams, WritesLoaded, FillsBuffer, WriteI, PcmWritten, PlayGoes, Begins
  <2>3. playPos' \in 0 .. playFile.length
    <3>1. CASE FillsBuffer
      BY <1>2, <3>1, FillsWithin
    <3>2. CASE ~FillsBuffer
      <4>1. UNCHANGED playPos
        BY <1>5, <3>2 DEF SetParams, WritesLoaded, WriteI, PcmWritten, headVars
      <4> QED
        BY <1>2, <4>1 DEF HeadInv
    <3> QED
      BY <3>1, <3>2
  <2>4. HeadInv'
    BY <1>2, <2>1, <2>2, <2>3, HeadStays
  <2>5. SoundInv'
    BY <1>1, <1>2, <1>5, ParamsSound, LoadedSound, FillsSound, WriteSound, WrittenSound
  <2> QED
    BY <2>4, <2>5
<1>6. CASE UNCHANGED playVars
  <2>1. HeadInv'
    BY <1>2, <1>6 DEF playVars, HeadInv, ChunksFollow, Start
  <2>2. SoundInv'
    BY <1>2, <1>6 DEF playVars, SoundInv, Playing, Loading, WholePeriod, ShortPeriod, Multiple,
                      ReadSoFar, LastWhole, SoundLength, Start
  <2> QED
    BY <2>1, <2>2
<1> QED
  BY <1>3, <1>4, <1>5, <1>6 DEF PlayNext

(* Sound and then silence, as far as it was written.                       *)
LEMMA SoundIsPlayed ==
  ASSUME NEW write, NEW n \in 0 .. SoundLength, SoundLength \in Nat,
         PlaysThen(Start, playOut, write, n)
  PROVE  /\ \E m \in 0 .. Len(playOut) : PlayedTo(m)
         /\ n <= Len(playOut) => n \in 0 .. Len(playOut) /\ PlayedTo(n)
<1>1. playOut \in Seq(Nat) /\ Len(playOut) \in Nat
  BY LenProperties DEF PlaysThen
<1>2. \A i \in 1 .. Len(playOut) : playOut[i] = IF i <= n THEN Sound(i) ELSE 0
  BY DEF PlaysThen, Sound, SoundByte
<1>3. CASE n <= Len(playOut)
  <2>1. n \in 0 .. Len(playOut) /\ PlayedTo(n)
    BY <1>1, <1>2, <1>3 DEF PlayedTo
  <2> QED
    BY <2>1
<1>4. CASE ~(n <= Len(playOut))
  <2>1. \A i \in 1 .. Len(playOut) : i <= n /\ i <= Len(playOut)
    BY <1>1, <1>4
  <2>2. Len(playOut) <= SoundLength /\ Len(playOut) \in 0 .. Len(playOut)
    BY <1>1, <1>4
  <2>3. PlayedTo(Len(playOut))
    BY <1>2, <2>1, <2>2 DEF PlayedTo
  <2> QED
    BY <1>4, <2>2, <2>3
<1> QED
  BY <1>3, <1>4

LEMMA PlayOrder ==
  PlayInv => PlaysInOrder
<1> SUFFICES ASSUME PlayInv,
                    \A n \in DOMAIN playFile.chunks : playFile.chunks[n].len < LengthWidth - 1
             PROVE  /\ playPc \in {"header", "search", "params"} => playPos - playSize = Start
                    /\ playOut # << >> =>
                         \E n \in 0 .. Len(playOut) :
                           /\ n <= SoundLength /\ (~playStray => PlayedTo(n))
                           /\ playPc = "drained" => n = SoundLength - (SoundLength % playFrame)
  BY DEF PlaysInOrder
<1>1. Fits
  BY DEF Fits
<1>2. HeadInv /\ SoundInv
  BY <1>1 DEF PlayInv
<1>3. playPc \in {"header", "search", "params"} => playPos - playSize = Start
  BY <1>1, <1>2 DEF HeadInv
<1>4. ASSUME playOut # << >>
      PROVE  \E n \in 0 .. Len(playOut) :
               /\ n <= SoundLength /\ PlayedTo(n)
               /\ playPc = "drained" => n = SoundLength - (SoundLength % playFrame)
  <2>1. playPc \in {"loaded", "fill", "first", "second", "drained", "underrun", "exit"}
    BY <1>2, <1>4 DEF HeadInv, PlayPlaces
  <2>2. SUFFICES ASSUME SoundLength \in Nat, NEW write, NEW n \in 0 .. SoundLength,
                        PlaysThen(Start, playOut, write, n),
                        playPc = "drained" => n = LastWhole /\ n <= Len(playOut)
                 PROVE  \E m \in 0 .. Len(playOut) :
                          /\ m <= SoundLength /\ PlayedTo(m)
                          /\ playPc = "drained" => m = LastWhole
    <3>1. CASE playPc \in {"loaded", "fill"}
      <4>1. Playing /\ Loading
        BY <1>2, <3>1 DEF SoundInv
      <4>2. ReadSoFar \in Nat /\ SoundLength \in Nat /\ ReadSoFar <= SoundLength
        BY <1>2, <3>1, <4>1, ReadIsSound
      <4>3. Len(playBuf) \in Nat /\ playWritten \in Nat
        BY <4>1, LenProperties DEF Loading, Follows, Playing
      <4>4. playWritten \in 0 .. SoundLength
        BY <4>1, <4>2, <4>3 DEF Loading
      <4> QED
        BY <2>2, <3>1, <4>1, <4>2, <4>4 DEF Loading, LastWhole
    <3>2. CASE playPc \in {"first", "second"}
      BY <1>2, <2>2, <3>2, SoundOfPeriod DEF LastWhole
    <3>3. CASE playPc \in {"drained", "underrun", "exit"}
      BY <1>2, <1>4, <2>2, <3>3 DEF SoundInv, LastWhole
    <3> QED
      BY <2>1, <3>1, <3>2, <3>3
  <2>3. CASE playPc = "drained"
    BY <2>2, <2>3, SoundIsPlayed DEF PlayedTo
  <2>4. CASE playPc # "drained"
    BY <2>2, <2>4, SoundIsPlayed DEF PlayedTo
  <2> QED
    BY <2>3, <2>4
<1> QED
  BY <1>3, <1>4

(* For all files, formats, periods and answers of the device: no more and, *)
(* in a run that drains, no less is played than the header of the file and *)
(* its data down to the last whole frame; and in the runs in which realloc *)
(* left audiobuf in its place it is these bytes, in order and without a    *)
(* gap, and then nothing but silence.  Nothing is proved of the bytes once *)
(* the block was moved, which any other period than one of 10240 bytes may *)
(* bring about (audio.c:485, 502-552, 605-836).                            *)
THEOREM PlayedInOrder == PlaySpec => []PlaysInOrder
<1>1. PlaySpec => []PlayInv
  BY PlayStart, PlayStep, PTL DEF PlaySpec
<1> QED
  BY <1>1, PlayOrder, PTL

-----------------------------------------------------------------------------
(* WsServer.                                                               *)

(* An offset past the limit belongs to a thread that will look at it: it   *)
(* is about to compare it, or to set it back.                              *)
Looks(c) == wsPc[c] \in {"check", "reset"}
LateOffsetIsSeen == wsOff > WsLimit => \E c \in WsClients : Looks(c)

WsInv == WsTypeOK /\ LateOffsetIsSeen

-----------------------------------------------------------------------------
(* A thread that neither compares nor resets the offset, and leaves it     *)
(* alone, leaves the others to do so.                                      *)
LEMMA OthersStillLook ==
  ASSUME WsInv, NEW c \in WsClients, NEW pc,
         ~Looks(c), WsGoes(c, pc), UNCHANGED wsOff
  PROVE  LateOffsetIsSeen'
<1> SUFFICES ASSUME wsOff > WsLimit
             PROVE  \E d \in WsClients : Looks(d)'
  BY DEF LateOffsetIsSeen
<1>1. PICK d \in WsClients : Looks(d)
  BY DEF WsInv, LateOffsetIsSeen
<1>2. wsPc'[d] = wsPc[d]
  BY <1>1 DEF WsInv, WsTypeOK, WsGoes
<1> QED
  BY <1>1, <1>2 DEF Looks

(* The invariant holds initially and every step preserves it.              *)
LEMMA WsInductive == WsSpec => []WsInv
<1> USE WsAssumption
<1>1. WsInit => WsInv
  <2> SUFFICES ASSUME WsInit PROVE WsInv
    OBVIOUS
  <2>1. 0 \in 0 .. WsWindow
    OBVIOUS
  <2>2. wsNth \in [WsClients -> 0 .. WsWindow]
    BY <2>1 DEF WsInit
  <2>3. WsTypeOK
    BY <2>2 DEF WsInit, WsTypeOK
  <2>4. LateOffsetIsSeen
    BY DEF WsInit, LateOffsetIsSeen
  <2> QED
    BY <2>3, <2>4 DEF WsInv
<1>2. WsInv /\ [WsNext]_wsVars => WsInv'
  <2> SUFFICES ASSUME WsInv, [WsNext]_wsVars PROVE WsInv'
    OBVIOUS
  <2>1. ASSUME UNCHANGED wsVars PROVE WsInv'
    BY <2>1 DEF WsInv, WsTypeOK, LateOffsetIsSeen, Looks, wsVars
  <2>2. ASSUME NEW c \in WsClients,
               \/ WsConnect(c) \/ WsLeave(c) \/ WsAccept(c) \/ WsShake(c)
               \/ WsBegin(c) \/ WsRead(c) \/ WsFill(c) \/ WsLoad(c) \/ WsStore(c)
               \/ WsCheck(c) \/ WsReset(c) \/ WsReply(c)
        PROVE WsInv'
    <3> USE DEF WsInv, WsTypeOK, WsAt, WsGoes, WsKeepsData
    <3>1. CASE WsConnect(c)
      BY <3>1, OthersStillLook DEF WsConnect, Looks
    <3>2. CASE WsLeave(c)
      BY <3>2 DEF WsLeave, LateOffsetIsSeen, Looks
    <3>3. CASE WsAccept(c)
      <4>1. WsTypeOK'
        BY <3>3 DEF WsAccept
      <4> QED
        BY <3>3, <4>1, OthersStillLook DEF WsAccept, Looks
    <3>4. CASE WsShake(c)
      <4>1. WsTypeOK'
        BY <3>4 DEF WsShake, Written
      <4>2. PICK pc \in {"begin", "forgotten"} : WsGoes(c, pc)
        BY <3>4 DEF WsShake
      <4> QED
        BY <3>4, <4>1, <4>2, OthersStillLook DEF WsShake, Looks
    <3>5. CASE WsRead(c)
      <4>1. 0 \in 0 .. WsWindow
        OBVIOUS
      <4>2. wsNth' \in [WsClients -> 0 .. WsWindow]
        BY <3>5, <4>1 DEF WsRead
      <4>3. WsTypeOK'
        BY <3>5, <4>2 DEF WsRead
      <4>4. WsGoes(c, IF wsPeer[c] = "reset" THEN "ended" ELSE "fill")
        BY <3>5 DEF WsRead
      <4> QED
        BY <3>5, <4>3, <4>4, OthersStillLook DEF WsRead, Looks
    <3>6. CASE WsLoad(c)
      BY <3>6, OthersStillLook DEF WsLoad, Looks
    <3>7. CASE WsStore(c)
      BY <3>7 DEF WsStore, LateOffsetIsSeen, Looks
    <3>8. CASE WsCheck(c)
      <4>1. WsTypeOK'
        BY <3>8 DEF WsCheck
      <4>2. CASE PastLimit(wsOff)
        <5>1. wsPc'[c] = "reset"
          BY <3>8, <4>2 DEF WsCheck
        <5> QED
          BY <4>1, <5>1 DEF LateOffsetIsSeen, Looks
      <4>3. CASE ~PastLimit(wsOff)
        BY <3>8, <4>1, <4>3 DEF WsCheck, PastLimit, LateOffsetIsSeen
      <4> QED
        BY <4>2, <4>3
    <3>9. CASE WsReset(c)
      BY <3>9 DEF WsReset, LateOffsetIsSeen
    <3>10. CASE WsReply(c)
      <4>1. WsTypeOK'
        BY <3>10 DEF WsReply, Written
      <4> QED
        BY <3>10, <4>1, OthersStillLook DEF WsReply, Looks
    <3>11. CASE WsBegin(c)
      BY <3>11, OthersStillLook DEF WsBegin, Looks
    <3>12. CASE WsFill(c)
      <4>1. wsNth[c] + 1 \in 0 .. WsWindow
        BY <3>12 DEF WsFill
      <4>2. wsNth' \in [WsClients -> 0 .. WsWindow]
        BY <3>12, <4>1 DEF WsFill
      <4>3. WsTypeOK'
        BY <3>12, <4>2 DEF WsFill
      <4> QED
        BY <3>12, <4>3 DEF WsFill, LateOffsetIsSeen, Looks
    <3> QED
      BY <2>2, <3>1, <3>2, <3>3, <3>4, <3>5, <3>6, <3>7, <3>8, <3>9, <3>10, <3>11, <3>12
  <2> QED
    BY <2>1, <2>2 DEF WsNext
<1> QED
  BY <1>1, <1>2, PTL DEF WsSpec

(* Whatever two threads make of the shared offset (main.cpp:536-541), one  *)
(* that fills its reply while no other is between its load and its check   *)
(* reads at an offset within the heart data, for any number of clients.    *)
THEOREM LoneReaderSafe == WsSpec => []LoneReaderInside
<1>1. WsInv => LoneReaderInside
  <2> SUFFICES ASSUME WsInv, NEW c \in WsClients, wsPc[c] = "fill", wsNth[c] < WsWindow,
                      \A d \in WsClients \ {c} :
                        wsPc[d] \notin {"store", "check", "reset"}
               PROVE  wsOff + wsNth[c] < WsRoom
    BY DEF LoneReaderInside
  <2>1. \A d \in WsClients : ~Looks(d)
    BY DEF Looks
  <2>2. wsOff <= WsLimit
    BY <2>1, WsAssumption DEF WsInv, WsTypeOK, LateOffsetIsSeen
  <2> QED
    BY <2>2, WsAssumption DEF WsInv, WsTypeOK
<1> QED
  BY <1>1, WsInductive, PTL
=============================================================================
