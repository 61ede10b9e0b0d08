---------------------------- MODULE SmtpSession ----------------------------
(***************************************************************************)
(* One mail sent by send_the_mail of mail/smtp.c, and the server it talks  *)
(* to.  The client writes a command and reads one line (of some replies:   *)
(* all lines) with a timeout; what it does not read is still there when it *)
(* reads the reply to its next command.  Commands and replies travel in    *)
(* two streams.  The server may refuse, answer late or never, answer in    *)
(* more lines than the client reads, leave a line unfinished, or close the *)
(* connection.                                                             *)
(***************************************************************************)
EXTENDS Integers, Sequences

CONSTANTS
  Rcpts,      \* how many addresses are on the address list
  Sessions,   \* the settings to check and the world around them: OptionType
  CapSets,    \* the sets of capabilities that servers announce
  MaxLines    \* lines of one reply that the client reads (100, 1000 for EHLO)

Mechs == {"CRAM-MD5", "LOGIN", "PLAIN"}
Caps  == {"STARTTLS", "AUTH"} \cup Mechs
OptionType ==
  [starttls : BOOLEAN, ssl : BOOLEAN,        \* g_do_starttls, g_do_ssl
   auth : BOOLEAN, mechs : SUBSET Mechs,     \* g_do_auth, g_auth_...
   quiet : BOOLEAN, esmtp : BOOLEAN,
   missing : BOOLEAN,                        \* an attachment cannot be opened
   openssl : BOOLEAN,                        \* compiled with HAVE_OPENSSL
   late : BOOLEAN,                           \* replies may come after the timeout,
   bare : BOOLEAN,                           \* or be a bare code, without a text
   pieces : BOOLEAN,                         \* lines, either way, may pass in
                                             \* pieces and stay unfinished
   close : BOOLEAN,                          \* the server may close the connection
   lines : SUBSET (Nat \ {0})]               \* how many lines a reply has

ASSUME ParameterAssumption ==
  /\ Rcpts \in Nat \ {0} /\ MaxLines \in Nat \ {0}
  /\ Sessions \subseteq OptionType /\ CapSets \subseteq SUBSET Caps

VARIABLES
  opts,
  c,         \* the client: its place, rc, smtp_sep, s_esmtp, server_caps; rcpt
             \* recipients named; ssl is on; it has done STARTTLS
  s,         \* the server, as far as it follows the dialogue; heard counts the
             \* recipients named to it, accepted holds those it took
  conn,      \* "none", "open" or "closed"
  toServer,  \* commands on their way
  toClient   \* reply lines on their way

vars == <<opts, c, s, conn, toServer, toClient>>

Init ==
  /\ opts \in Sessions
  /\ c = [pc |-> "connect", rc |-> -1, sep |-> " ", lines |-> 0, esmtp |-> FALSE,
          caps |-> {}, rcpt |-> 0, ssl |-> FALSE, again |-> FALSE]
  /\ s = [state |-> IF opts.ssl THEN "tls" ELSE "new", heard |-> 0,
          accepted |-> {}, authed |-> FALSE, delivered |-> FALSE]
  /\ conn = "none" /\ toServer = << >> /\ toClient = << >>

-----------------------------------------------------------------------------
(* Reply lines.                                                            *)

Line(code, dash, cap) == [code |-> code, dash |-> dash, cap |-> cap]
Lines(code, n, cap) ==
  [i \in 1 .. n |-> Line(code, i < n, IF i = n THEN cap ELSE {})]
Bare == Line(-1, FALSE, {})

(* read_smtp_line.  A line of fewer than 5 characters is a failed read and *)
(* leaves smtp_sep alone; so is the end of the connection or the timeout,  *)
(* which sockGets sets on the socket and sockGetsSSL does not.  It is the  *)
(* longest time between two bytes: a line in pieces puts it off.           *)
(* Mutant: no timeout is set anywhere.                                     *)
HasNoTimeout == FALSE
HasTimeout == ~(opts.ssl /\ c.ssl)
Silent     == toServer = << >> /\ s.state # "new"
ReadFails  == conn # "open" \/ (HasTimeout /\ (opts.late \/ Silent))

Parsed(l) ==
  IF l = Bare THEN [rc |-> -1, code |-> -1, sep |-> c.sep, cap |-> {}]
  ELSE [rc |-> 0, code |-> l.code, sep |-> IF l.dash THEN "-" ELSE " ", cap |-> l.cap]

Answer(at) ==
  IF c.pc # at THEN {}
  ELSE IF toClient # << >> THEN {Parsed(Head(toClient))}
  ELSE IF ReadFails THEN {Parsed(Bare)} ELSE {}

Took == /\ toClient' = IF toClient = << >> THEN << >> ELSE Tail(toClient)
        /\ UNCHANGED <<opts, s, conn, toServer>>

(* msock_puts: nobody looks at its result.  It has no timeout: the step is *)
(* its return, which FairSpec promises only if the server reads.           *)
Puts(command) ==
  /\ toServer' = IF conn = "open" THEN Append(toServer, command) ELSE toServer
  /\ UNCHANGED <<opts, s, conn, toClient>>

At(pc)       == [c EXCEPT !.pc = pc]
Reads(pc, r) == [c EXCEPT !.pc = pc, !.rc = r.rc, !.sep = r.sep, !.lines = 0]
Ends(rc)     == [c EXCEPT !.pc = "done", !.rc = rc, !.sep = " "]
Local        == UNCHANGED <<opts, s, conn, toServer, toClient>>

(* read_smtp_multi_lines and the loops like it: on while there is a dash.  *)
(* Mutant: without a limit.                                                *)
FollowsOn(r) == r.rc = 0 /\ r.sep = "-"
Follows(r) == r.rc = 0 /\ r.sep = "-" /\ c.lines + 1 < MaxLines
Again(r)   == [c EXCEPT !.sep = r.sep, !.lines = @ + 1]

-----------------------------------------------------------------------------
(* Connection, greeting and HELO.                                          *)

Connect ==
  /\ c.pc = "connect"
  /\ \/ /\ conn' = "open"
        /\ c' = At(IF opts.ssl THEN "rawssl" ELSE "greeting")
     \/ /\ conn' = "closed"
        /\ c' = Ends(-1)
  /\ UNCHANGED <<opts, s, toServer, toClient>>

(* SSL_connect succeeds if the server waits for it.  It fails if SSL is    *)
(* not set up, the connection is lost, the server refuses or, after a read *)
(* in clear has set the timeout, keeps silent; the connection stays open.  *)
Handshake(ok, failed) ==
  \/ /\ conn = "open" /\ s.state = "tls" /\ toServer = << >> /\ toClient = << >>
     /\ s' = [s EXCEPT !.state = IF c.pc = "rawssl" THEN "new" ELSE "start"]
     /\ c' = ok
     /\ UNCHANGED <<opts, conn, toServer, toClient>>
  \/ c' = failed /\ Local

(* turn_on_raw_ssl, whose result is not looked at.  Nothing was read yet,  *)
(* so it has no timeout: FairSpec does not promise that it returns.        *)
RawSsl ==
  /\ c.pc = "rawssl"
  /\ IF opts.openssl THEN Handshake([At("greeting") EXCEPT !.ssl = TRUE], At("greeting"))
                ELSE c' = At("greeting") /\ Local

ReadGreeting ==
  \E r \in Answer("greeting") :
    /\ Took
    /\ \/ r.rc < 0 /\ c' = Ends(-1)
       \/ r.rc = 0 /\ r.code # 220
          /\ c' = IF r.sep = "-" THEN Reads("greetingSkip", r) ELSE Ends(-1)
       \/ r.code = 220
          /\ c' = [Reads(IF r.sep = "-" THEN "greetingMore" ELSE "helo", r)
                     EXCEPT !.esmtp = opts.esmtp \/ "ESMTP" \in r.cap]

(* Too many lines are looked for before the end: the last one may be it.   *)
ReadGreetingMore ==
  \E r \in Answer("greetingMore") :
    /\ Took
    /\ c' = IF Follows(r) THEN [Again(r) EXCEPT !.esmtp = @ \/ "ESMTP" \in r.cap]
            ELSE IF r.rc < 0 \/ c.lines + 1 >= MaxLines THEN Ends(-1)
            ELSE [Reads("helo", r) EXCEPT !.esmtp = @ \/ "ESMTP" \in r.cap]

ReadGreetingSkip ==
  \E r \in Answer("greetingSkip") :
    /\ Took
    /\ c' = IF Follows(r) THEN Again(r) ELSE Ends(-1)

(* say_helo, whose result is not looked at: not even rc keeps it.          *)
SayHelo ==
  /\ c.pc = "helo"
  /\ Puts(IF c.esmtp THEN "EHLO" ELSE "HELO")
  /\ c' = At("heloReply")

AfterHelo == IF c.again THEN "auth" ELSE "starttls"

ReadHelo ==
  \E r \in Answer("heloReply") :
    /\ Took
    /\ \/ r.code # 250 /\ c' = [At(AfterHelo) EXCEPT !.sep = r.sep]
       \/ r.code = 250 /\ r.sep = "-"
          /\ c' = [At("caps") EXCEPT !.sep = r.sep, !.lines = 0]
       \/ r.code = 250 /\ r.sep # "-" /\ c' = [At(AfterHelo) EXCEPT !.sep = " "]

ReadCaps ==
  \E r \in Answer("caps") :
    /\ Took
    /\ c' = [c EXCEPT !.pc = IF Follows(r) THEN "caps" ELSE AfterHelo,
                      !.sep = IF Follows(r) THEN r.sep ELSE " ",
                      !.lines = @ + 1, !.caps = @ \cup r.cap]

-----------------------------------------------------------------------------
(* STARTTLS and authentication.                                            *)

StartTls ==
  /\ c.pc = "starttls"
  /\ IF opts.starttls /\ "STARTTLS" \in c.caps
     THEN Puts("STARTTLS") /\ c' = At("tlsReply")
     ELSE Local /\ c' = At("auth")

ReadTls ==
  \E r \in Answer("tlsReply") :
    /\ Took
    /\ c' = IF r.code = 220 /\ opts.openssl THEN Reads("handshake", r)
            ELSE [Reads("auth", r) EXCEPT !.rc = -1]

TlsHandshake ==
  /\ c.pc = "handshake"
  /\ Handshake([At("helo") EXCEPT !.ssl = TRUE, !.again = TRUE, !.rc = 0],
               [At("auth") EXCEPT !.rc = -1])

(* The mechanisms in the order in which they are tried.                    *)
Tried ==
  IF "AUTH" \notin c.caps THEN {}
  ELSE LET both == opts.mechs \cap c.caps
       IN IF "CRAM-MD5" \in both THEN {"CRAM-MD5"}
          ELSE IF "LOGIN" \in both THEN {"LOGIN"} ELSE both

(* A user name or password is missing, or cannot be encoded.               *)
NoSecret == c' = Ends(-1) /\ Local

Authenticate ==
  /\ c.pc = "auth"
  /\ \E m \in Tried :
       \/ NoSecret
       \/ /\ m = "CRAM-MD5" /\ ~opts.openssl
          /\ c' = Ends(c.rc) /\ Local           \* goto cleanup: rc stays
       \/ /\ m = "CRAM-MD5" => opts.openssl
          /\ Puts(m) /\ c' = At(m)

(* No mechanism was asked for, or none of those asked for is offered.      *)
SkipAuth ==
  /\ c.pc = "auth" /\ Tried = {} /\ Local
  /\ c' = IF (opts.auth \/ opts.mechs # {}) /\ "AUTH" \in c.caps /\ ~opts.quiet
          THEN At("exit") ELSE At("mail")

(* One round of AUTH: code is expected, then comes the next round.         *)
(* Mutant: any reply will do.                                              *)
AuthRoundAny(at, code, next) ==
  \E r \in Answer(at) :
    Took /\ c' = IF r.rc < 0 THEN Ends(-1) ELSE [At(next) EXCEPT !.sep = r.sep]
AuthRound(at, code, next) ==
  \E r \in Answer(at) :
    /\ Took
    /\ c' = IF r.code # code THEN Ends(-1) ELSE [At(next) EXCEPT !.sep = r.sep]

SendSecret(at, next) ==
  /\ c.pc = at
  /\ NoSecret \/ (Puts(at) /\ c' = At(next))

Auth ==
  \/ Authenticate \/ SkipAuth
  \/ AuthRound("CRAM-MD5", 334, "digest")
  \/ SendSecret("digest", "digestReply") \/ AuthRound("digestReply", 235, "mail")
  \/ AuthRound("LOGIN", 334, "username")
  \/ SendSecret("username", "usernameReply") \/ AuthRound("usernameReply", 334, "password")
  \/ SendSecret("password", "passwordReply") \/ AuthRound("passwordReply", 235, "mail")
  \/ AuthRound("PLAIN", 235, "mail")

-----------------------------------------------------------------------------
(* The mail: MAIL FROM, RCPT TO, DATA, the text, QUIT.                     *)

MailFrom == c.pc = "mail" /\ Puts("MAIL") /\ c' = At("mailReply")

ReadMail ==
  \E r \in Answer("mailReply") :
    /\ Took
    /\ c' = IF r.code # 250 THEN Ends(-1) ELSE Reads("rcpt", r)

RcptTo ==
  /\ c.pc = "rcpt"
  /\ IF c.rcpt < Rcpts
     THEN Puts("RCPT") /\ c' = [At("rcptReply") EXCEPT !.rcpt = @ + 1]
     ELSE Puts("DATA") /\ c' = At("dataReply")

(* Only a reply that was read can stop the loop.                           *)
(* Mutant: a refused recipient is passed over.                             *)
ReadRcptAny == \E r \in Answer("rcptReply") : Took /\ c' = Reads("rcpt", r)
ReadRcpt ==
  \E r \in Answer("rcptReply") :
    /\ Took
    /\ c' = Reads(IF r.rc = 0 /\ r.code # 250 THEN "reset" ELSE "rcpt", r)

Reset     == c.pc = "reset" /\ Puts("RSET") /\ c' = At("resetReply")
ReadReset == \E r \in Answer("resetReply") : Took /\ c' = Ends(-1)

(* Mutant: the text is sent whatever the server says.                      *)
ReadDataAny == \E r \in Answer("dataReply") : Took /\ c' = Reads("text", r)
ReadData ==
  \E r \in Answer("dataReply") :
    /\ Took
    /\ c' = IF r.rc = 0 /\ r.code # 354 THEN Ends(-1) ELSE Reads("text", r)

(* smtpMail and the end of the text; an attachment that cannot be opened   *)
(* ends it before.                                                         *)
Text ==
  /\ c.pc = "text"
  /\ IF opts.missing THEN Local /\ c' = Ends(-1)
                     ELSE Puts("TEXT") /\ c' = At("textReply")

ReadText ==
  \E r \in Answer("textReply") :
    /\ Took
    /\ c' = IF r.code = 250 THEN Reads("quit", r)
            ELSE IF r.sep = "-" THEN Reads("textSkip", r) ELSE Ends(-1)

ReadTextSkip ==
  \E r \in Answer("textSkip") :
    /\ Took
    /\ c' = IF Follows(r) THEN Again(r) ELSE Ends(-1)

Quit     == c.pc = "quit" /\ Puts("QUIT") /\ c' = At("quitReply")
ReadQuit == \E r \in Answer("quitReply") : Took /\ c' = Ends(c.rc)

Client ==
  \/ Connect \/ RawSsl \/ ReadGreeting \/ ReadGreetingMore \/ ReadGreetingSkip
  \/ SayHelo \/ ReadHelo \/ ReadCaps
  \/ StartTls \/ ReadTls \/ TlsHandshake \/ Auth
  \/ MailFrom \/ ReadMail \/ RcptTo \/ ReadRcpt \/ Reset \/ ReadReset
  \/ ReadData \/ Text \/ ReadText \/ ReadTextSkip \/ Quit \/ ReadQuit

-----------------------------------------------------------------------------
(* The server.  Its verdict on a command: a code, what the last line says, *)
(* and its state afterwards.                                               *)

Says(code, cap, new) == [code |-> code, cap |-> cap, s |-> new]
Refuses(code) == {Says(code, {}, s)}
In(state) == [s EXCEPT !.state = state]

RcptVerdicts(new) ==
  {Says(IF s.state = "mail" THEN 550 ELSE 503, {}, new)}
  \cup IF s.state = "mail"
       THEN {Says(250, {}, [new EXCEPT !.accepted = @ \cup {new.heard}])} ELSE {}

Verdicts(command) ==
  CASE command = "EHLO"       -> {Says(250, caps, In("start")) : caps \in CapSets}
                                 \cup Refuses(502)
    [] command = "HELO"       -> {Says(250, {}, In("start"))} \cup Refuses(502)
    [] command = "STARTTLS"   -> {Says(220, {}, In("tls"))} \cup Refuses(454)
    [] command = "username"   -> {Says(334, {}, s)} \cup Refuses(535)
    [] command \in {"CRAM-MD5", "LOGIN"}
                              -> {Says(334, {}, s)} \cup Refuses(504)
    [] command \in {"digest", "password", "PLAIN"}
                              -> {Says(235, {}, [s EXCEPT !.authed = TRUE])}
                                 \cup Refuses(535)
    [] command = "MAIL"       -> {Says(250, {}, In("mail"))} \cup Refuses(550)
    [] command = "RCPT"       -> RcptVerdicts([s EXCEPT !.heard = @ + 1])
    [] command = "DATA"       -> IF s.state # "mail" \/ s.accepted = {} THEN Refuses(503)
                                 ELSE {Says(354, {}, In("data"))} \cup Refuses(554)
    [] command = "TEXT"       -> IF s.state # "data" THEN Refuses(500)
                                 ELSE {Says(250, {}, [In("start") EXCEPT !.delivered = TRUE]),
                                       Says(552, {}, In("start"))}
    [] command = "RSET"       -> {Says(250, {}, In("start"))}
    [] command = "QUIT"       -> {Says(221, {}, In("start"))}

(* The timeout may cut a line that comes in pieces: the first part is read *)
(* as a failure, what is left as a line, whose code is any other number.   *)
Rest == Line(0, FALSE, {})

Replies(verdict, command) ==
  {Lines(verdict.code, IF command = "EHLO" /\ verdict.cap # {} THEN n + 1 ELSE n,
         verdict.cap) : n \in opts.lines}
  \cup IF opts.bare THEN {<<Bare>>} ELSE {}
  \cup IF opts.pieces THEN {<<Bare, Rest>>} ELSE {}

ServerGreets ==
  /\ conn = "open" /\ s.state = "new"
  /\ \E n \in opts.lines, greeting \in {<<220, {}>>, <<220, {"ESMTP"}>>, <<554, {}>>} :
       toClient' = toClient \o Lines(greeting[1], n, greeting[2])
  /\ s' = In("start")
  /\ UNCHANGED <<opts, c, conn, toServer>>

ServerHandles ==
  /\ conn = "open" /\ toServer # << >> /\ s.state \notin {"new", "tls"}
  /\ \E v \in Verdicts(Head(toServer)) :
       /\ s' = v.s
       /\ \E reply \in Replies(v, Head(toServer)) : toClient' = toClient \o reply
  /\ toServer' = Tail(toServer)
  /\ UNCHANGED <<opts, c, conn>>

(* It goes away, at will or because a handshake did not come or went       *)
(* wrong.  What it said may still arrive, or not.                          *)
ServerCloses ==
  /\ conn = "open" /\ (opts.close \/ s.state = "tls")
  /\ conn' = "closed" /\ toServer' = << >> /\ toClient' \in {toClient, << >>}
  /\ UNCHANGED <<opts, c, s>>

Server == ServerGreets \/ ServerHandles \/ ServerCloses

Next == Client \/ Server

Spec == Init /\ [][Next]_vars

(* The process keeps running, but in some calls it waits for the server:   *)
(* SSL_connect before a timeout is set, and every read and write if lines  *)
(* come or are taken in pieces.  A server that is not late answers.        *)
MayBlock ==
  /\ conn = "open"
  /\ opts.pieces \/ (opts.late /\ opts.openssl /\ c.pc = "rawssl")
FairSpec ==
  Spec /\ WF_vars(~MayBlock /\ Client) /\ WF_vars(~opts.late /\ ~opts.pieces /\ Server)

-----------------------------------------------------------------------------
(* Properties.                                                             *)

Commands == {"EHLO", "HELO", "STARTTLS", "digest", "username", "password", "MAIL",
             "RCPT", "DATA", "TEXT", "RSET", "QUIT"} \cup Mechs
Places   == {"connect", "rawssl", "greeting", "greetingMore", "greetingSkip", "helo",
             "heloReply", "caps", "starttls", "tlsReply", "handshake", "auth", "digest",
             "digestReply", "username", "usernameReply", "password", "passwordReply",
             "mail", "mailReply", "rcpt", "rcptReply", "reset", "resetReply", "dataReply",
             "text", "textReply", "textSkip", "quit", "quitReply", "done", "exit"} \cup Mechs

(* Types.  The line counter of the reading loops stays within its limit,   *)
(* no address is named twice, the server hears of none that was not named. *)
TypeOK ==
  /\ opts \in Sessions
  /\ c \in [pc : Places, rc : {-1, 0}, sep : {" ", "-"}, lines : 0 .. MaxLines,
            esmtp : BOOLEAN, caps : SUBSET Caps, rcpt : 0 .. Rcpts,
            ssl : BOOLEAN, again : BOOLEAN]
  /\ s \in [state : {"tls", "new", "start", "mail", "data"}, heard : 0 .. c.rcpt,
            accepted : SUBSET (1 .. Rcpts), authed : BOOLEAN, delivered : BOOLEAN]
  /\ conn \in {"none", "open", "closed"}
  /\ toServer \in Seq(Commands)
  /\ \A i \in 1 .. Len(toClient) :
       toClient[i] = Bare \/ toClient[i] \in [code : Nat, dash : BOOLEAN,
                                              cap : SUBSET (Caps \cup {"ESMTP"})]

AllRcpts == 1 .. Rcpts

(* "returns 0 on success, -1 on failure": send_the_mail returns 0 only     *)
(* when the server has accepted every recipient and the text.              *)
SuccessMeansAccepted ==
  c.pc = "done" /\ c.rc = 0 => s.delivered /\ s.accepted = AllRcpts

(* That holds of a build with OpenSSL whose server answers in time and in  *)
(* full, where neither lines of a reply that stay unread nor a connection  *)
(* that is lost at any point of the dialogue upset it (smtp.c:1411-1822).  *)
Timely == ~opts.late /\ ~opts.bare /\ ~opts.pieces /\ opts.openssl
TimelySuccessMeansAccepted == Timely => SuccessMeansAccepted

(* With such a server the text goes out, over a connection that stands,    *)
(* only when every recipient is accepted and the server waits for it.      *)
TextIsAwaited ==
  Timely /\ c.pc \in {"text", "textReply"} /\ conn = "open"
    => s.accepted = AllRcpts /\ (toServer # << >> \/ c.pc = "text" => s.state = "data")

(* A session for which authentication was asked, with a mechanism that the *)
(* server has announced, names no sender before the server has let it in,  *)
(* whatever replies come late or are read in place of others.              *)
AuthBeforeMail ==
  c.pc \in {"mail", "mailReply"} /\ Tried # {} => s.authed

(* The client comes back from a server that stops answering at any point   *)
(* of the dialogue, a STARTTLS handshake included, or that sends no last   *)
(* line of a reply, and from one that answers but whose lines it reads in  *)
(* place of others.  Two servers are left out, as nothing in smtp.c and    *)
(* msock.c limits the wait for them: one that is silent on a socket that   *)
(* has spoken SSL from the start, and one that leaves a line unfinished,   *)
(* its own or one that the client writes.                                  *)
Terminates ==
  ~opts.pieces /\ (opts.late => ~(opts.ssl /\ opts.openssl))
    => <>(c.pc \in {"done", "exit"})
=============================================================================
