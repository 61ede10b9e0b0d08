------------------------- MODULE SmtpSessionProofs --------------------------
(***************************************************************************)
(* Proofs about SmtpSession, for any settings, sessions, sets of           *)
(* capabilities and numbers of recipients and of lines, with replies that  *)
(* come late or in place of others: that authentication comes first, the   *)
(* types, and, for a server that answers in time and in full, what success *)
(* means and when the text goes out.                                       *)
(***************************************************************************)
EXTENDS SmtpSession, SequenceTheorems, TLAPS

SomeCaps  == SUBSET (Caps \cup {"ESMTP"})
ReplyLine == [code : Int, dash : BOOLEAN, cap : SomeCaps]
Rcs       == {-1, 0}
Seps      == {" ", "-"}
Parts     == [rc : Rcs, code : Int, sep : Seps, cap : SomeCaps]
Clients   == [pc : Places, rc : Rcs, sep : Seps, lines : Nat, esmtp : BOOLEAN,
              caps : SomeCaps, rcpt : Nat, ssl : BOOLEAN, again : BOOLEAN]
States    == {"tls", "new", "start", "mail", "data"}
Servers   == [state : States, heard : Nat, accepted : SUBSET Nat,
              authed : BOOLEAN, delivered : BOOLEAN]

(* A line with the code that lets a client in was written by a server that *)
(* did let it in; no other line has that code, however long it is on its   *)
(* way.                                                                    *)
Letting == 235
NoFalseLetting == \A i \in 1 .. Len(toClient) : toClient[i].code = Letting => s.authed

Shapes ==
  /\ opts \in Sessions /\ c \in Clients /\ s \in Servers
  /\ toServer \in Seq(Commands) /\ toClient \in Seq(ReplyLine)

AuthInv == Shapes /\ NoFalseLetting /\ AuthBeforeMail

-----------------------------------------------------------------------------
(* Replies.                                                                *)

LEMMA OptionShape ==
  ASSUME opts \in Sessions
  PROVE  /\ opts.openssl \in BOOLEAN /\ opts.esmtp \in BOOLEAN
         /\ opts.lines \subseteq Nat \ {0}
BY ParameterAssumption DEF OptionType

LEMMA Elements ==
  0 \in Rcs /\ " " \in Seps /\ "-" \in Seps /\ {} \in SomeCaps
BY DEF Rcs, Seps, SomeCaps

LEMMA CapsJoin ==
  ASSUME NEW x \in SomeCaps, NEW y \in SomeCaps
  PROVE  x \cup y \in SomeCaps
BY DEF SomeCaps

LEMMA ParsedShape ==
  ASSUME c \in Clients, NEW l \in ReplyLine
  PROVE  /\ Parsed(l) \in Parts
         /\ Parsed(l).code = Letting => l.code = Letting
<1>1. c.sep \in Seps /\ l.code \in Int /\ l.cap \in SomeCaps
  BY DEF Clients, ReplyLine
<1>2. ASSUME NEW rc \in Rcs, NEW code \in Int, NEW sep \in Seps, NEW cap \in SomeCaps,
             Parsed(l) = [rc |-> rc, code |-> code, sep |-> sep, cap |-> cap]
      PROVE  Parsed(l) \in Parts /\ Parsed(l).code = code
  BY <1>2 DEF Parts
<1>3. CASE l = Bare
  <2>1. Parsed(l) = [rc |-> -1, code |-> -1, sep |-> c.sep, cap |-> {}]
    BY <1>3 DEF Parsed
  <2>2. Parsed(l) \in Parts /\ Parsed(l).code = -1
    <3>1. -1 \in Int /\ -1 \in Rcs
      BY DEF Rcs
    <3> QED
      BY <1>1, <1>2, <2>1, <3>1, Elements
  <2> QED
    BY <2>2 DEF Letting
<1>4. CASE l # Bare
  <2> DEFINE sep == IF l.dash THEN "-" ELSE " "
  <2>1. sep \in Seps
    BY Elements
  <2>2. Parsed(l) = [rc |-> 0, code |-> l.code, sep |-> sep, cap |-> l.cap]
    BY <1>4 DEF Parsed
  <2> HIDE DEF sep
  <2>3. Parsed(l) \in Parts /\ Parsed(l).code = l.code
    BY <1>1, <1>2, <2>1, <2>2, Elements
  <2> QED
    BY <2>3
<1> QED
  BY <1>3, <1>4

LEMMA BareShape == Bare \in ReplyLine /\ Bare.code # Letting
BY DEF Bare, Line, ReplyLine, SomeCaps, Letting

LEMMA RestShape ==
  Rest \in ReplyLine /\ Rest.code = 0 /\ Rest.code # Letting /\ Rest.cap = {} /\ ~Rest.dash
BY DEF Rest, Line, ReplyLine, SomeCaps, Letting

(* What the client reads of a reply, and what stays to be read.            *)
LEMMA AnswerShape ==
  ASSUME AuthInv, NEW at, NEW r \in Answer(at)
  PROVE  /\ c.pc = at /\ r \in Parts
         /\ r.code = Letting => s.authed
<1>1. c.pc = at
  BY DEF Answer
<1>2. CASE toClient # << >>
  <2>1. r = Parsed(Head(toClient))
    BY <1>1, <1>2 DEF Answer
  <2>2. Head(toClient) = toClient[1] /\ Head(toClient) \in ReplyLine /\ 1 \in 1 .. Len(toClient)
    BY <1>2, HeadTailProperties, EmptySeq, LenProperties DEF AuthInv, Shapes
  <2> QED
    BY <1>1, <2>1, <2>2, ParsedShape DEF AuthInv, Shapes, NoFalseLetting
<1>3. CASE toClient = << >>
  <2>1. r = Parsed(Bare)
    BY <1>1, <1>3 DEF Answer
  <2> QED
    BY <1>1, <2>1, BareShape, ParsedShape DEF AuthInv, Shapes
<1> QED
  BY <1>2, <1>3

LEMMA TookKeeps ==
  ASSUME AuthInv, Took
  PROVE  /\ toClient' \in Seq(ReplyLine) /\ NoFalseLetting'
         /\ UNCHANGED <<opts, s, toServer>> /\ toServer' \in Seq(Commands)
<1>1. /\ toClient \in Seq(ReplyLine) /\ UNCHANGED <<opts, s, toServer>>
      /\ toServer' \in Seq(Commands)
  BY DEF AuthInv, Shapes, Took
<1>2. CASE toClient = << >>
  BY <1>1, <1>2 DEF Took, AuthInv, NoFalseLetting
<1>3. CASE toClient # << >>
  <2>1. /\ toClient' = Tail(toClient) /\ Tail(toClient) \in Seq(ReplyLine)
        /\ Len(Tail(toClient)) = Len(toClient) - 1
        /\ \A i \in 1 .. Len(Tail(toClient)) : Tail(toClient)[i] = toClient[i + 1]
    BY <1>1, <1>3, HeadTailProperties DEF Took
  <2>2. Len(toClient) \in Nat
    BY <1>1, LenProperties
  <2> QED
    BY <1>1, <2>1, <2>2 DEF AuthInv, NoFalseLetting
<1> QED
  BY <1>2, <1>3

-----------------------------------------------------------------------------
(* The client.                                                             *)

(* A step of the client that ends before the mail, or only once the server *)
(* has let it in, keeps the invariant.                                     *)
LEMMA ClientKeeps ==
  ASSUME AuthInv, UNCHANGED <<opts, s>>, toServer' \in Seq(Commands),
         toClient' \in Seq(ReplyLine), NoFalseLetting', c' \in Clients,
         c'.pc \in {"mail", "mailReply"} => s.authed \/ Tried' = {}
  PROVE  AuthInv'
BY DEF AuthInv, Shapes, AuthBeforeMail

(* Of the steps that read, only the last round of an authentication leads  *)
(* to the mail.                                                            *)
BeforeMail(pc) == pc \in Places \ {"mail", "mailReply"}

LEMMA ReadingKeeps ==
  ASSUME AuthInv, Took, c' \in Clients, BeforeMail(c'.pc)
  PROVE  AuthInv'
BY TookKeeps, ClientKeeps DEF BeforeMail

LEMMA WritingKeeps ==
  ASSUME AuthInv, UNCHANGED <<opts, s, toClient>>, toServer' \in Seq(Commands),
         c' \in Clients, BeforeMail(c'.pc)
  PROVE  AuthInv'
<1>1. NoFalseLetting'
  BY DEF AuthInv, NoFalseLetting
<1> QED
  BY <1>1, ClientKeeps DEF AuthInv, Shapes, BeforeMail

(* Reading replies.                                                        *)
LEMMA FieldsOfClient ==
  ASSUME AuthInv
  PROVE  /\ c \in Clients /\ c.lines + 1 \in Nat /\ c.rcpt + 1 \in Nat
         /\ c.pc \in Places /\ c.rc \in Rcs /\ c.sep \in Seps /\ c.caps \in SomeCaps
BY DEF AuthInv, Shapes, Clients

LEMMA ReadsShape ==
  ASSUME AuthInv, NEW r \in Parts, NEW pc \in Places
  PROVE  /\ Reads(pc, r) \in Clients /\ Reads(pc, r).pc = pc
         /\ Reads(pc, r).caps = c.caps
         /\ At(pc) \in Clients /\ At(pc).pc = pc
         /\ Again(r) \in Clients /\ Again(r).pc = c.pc
<1>1. r.rc \in Rcs /\ r.sep \in Seps
  BY DEF Parts
<1>2. Reads(pc, r) \in Clients /\ Reads(pc, r).pc = pc /\ Reads(pc, r).caps = c.caps
  BY <1>1, FieldsOfClient DEF Reads, Clients
<1>3. At(pc) \in Clients /\ At(pc).pc = pc
  BY FieldsOfClient DEF At, Clients
<1>4. Again(r) \in Clients /\ Again(r).pc = c.pc
  BY <1>1, FieldsOfClient DEF Again, Clients
<1> QED
  BY <1>2, <1>3, <1>4

LEMMA EndsShape ==
  ASSUME AuthInv
  PROVE  /\ \A rc \in Rcs : Ends(rc) \in Clients /\ Ends(rc).pc = "done"
         /\ Ends(-1) \in Clients /\ Ends(-1).pc = "done"
         /\ BeforeMail("done")
<1>1. -1 \in Rcs /\ BeforeMail("done")
  BY DEF Rcs, BeforeMail, Places
<1>2. \A rc \in Rcs : Ends(rc) \in Clients /\ Ends(rc).pc = "done"
  BY Elements, FieldsOfClient DEF Ends, Clients, Places
<1> QED
  BY <1>1, <1>2

LEMMA WithFlag ==
  ASSUME NEW x \in Clients, NEW flag \in BOOLEAN
  PROVE  [x EXCEPT !.esmtp = flag] \in Clients /\ [x EXCEPT !.esmtp = flag].pc = x.pc
BY DEF Clients

LEMMA GreetingKeeps ==
  ASSUME AuthInv, ReadGreeting \/ ReadGreetingMore \/ ReadGreetingSkip
  PROVE  AuthInv'
<1>1. BeforeMail("greetingMore") /\ BeforeMail("greetingSkip") /\ BeforeMail("helo")
  BY DEF BeforeMail, Places
<1>2. ASSUME NEW r \in Parts, Took, c.pc \in {"greeting", "greetingMore", "greetingSkip"},
             \/ c' = Ends(-1)
             \/ \E x \in {Reads("greetingSkip", r), Again(r)} : c' = x
             \/ \E x \in {Reads("greetingMore", r), Reads("helo", r), Again(r)} :
                  \E flag \in BOOLEAN : c' = [x EXCEPT !.esmtp = flag]
      PROVE  AuthInv'
  <2> DEFINE goes == {Reads("greetingSkip", r), Reads("greetingMore", r), Reads("helo", r),
                      Again(r)}
  <2>1. \A x \in goes : x \in Clients /\ BeforeMail(x.pc)
    <3>1. /\ "greetingSkip" \in Places /\ "greetingMore" \in Places /\ "helo" \in Places
          /\ BeforeMail(c.pc)
      BY <1>1, <1>2 DEF BeforeMail, Places
    <3>2. /\ Reads("greetingSkip", r) \in Clients /\ Reads("greetingSkip", r).pc = "greetingSkip"
          /\ Reads("greetingMore", r) \in Clients /\ Reads("greetingMore", r).pc = "greetingMore"
          /\ Reads("helo", r) \in Clients /\ Reads("helo", r).pc = "helo"
      BY <3>1, ReadsShape
    <3>3. Again(r) \in Clients /\ Again(r).pc = c.pc
      BY <3>1, ReadsShape
    <3> QED
      BY <1>1, <3>1, <3>2, <3>3
  <2>2. CASE c' = Ends(-1)
    BY <1>2, <2>2, EndsShape, ReadingKeeps
  <2>3. CASE \E x \in {Reads("greetingSkip", r), Again(r)} : c' = x
    BY <1>2, <2>3, <2>1, ReadingKeeps
  <2>4. CASE \E x \in {Reads("greetingMore", r), Reads("helo", r), Again(r)} :
               \E flag \in BOOLEAN : c' = [x EXCEPT !.esmtp = flag]
    <3>1. PICK x \in {Reads("greetingMore", r), Reads("helo", r), Again(r)} :
                 \E flag \in BOOLEAN : c' = [x EXCEPT !.esmtp = flag]
      BY <2>4
    <3>2. x \in Clients /\ BeforeMail(x.pc)
      BY <2>1, <3>1
    <3> QED
      BY <1>2, <3>1, <3>2, WithFlag, ReadingKeeps
  <2> QED
    BY <1>2, <2>2, <2>3, <2>4
<1>3. CASE ReadGreeting
  <2>1. PICK r \in Answer("greeting") :
          /\ Took
          /\ \/ c' = Ends(-1)
             \/ c' = Reads("greetingSkip", r)
             \/ c' = [Reads("greetingMore", r) EXCEPT !.esmtp = opts.esmtp \/ "ESMTP" \in r.cap]
             \/ c' = [Reads("helo", r) EXCEPT !.esmtp = opts.esmtp \/ "ESMTP" \in r.cap]
    BY <1>3 DEF ReadGreeting
  <2>2. r \in Parts /\ c.pc = "greeting"
    BY AnswerShape
  <2>3. (opts.esmtp \/ "ESMTP" \in r.cap) \in BOOLEAN
    OBVIOUS
  <2> QED
    BY <1>2, <2>1, <2>2, <2>3
<1>4. CASE ReadGreetingMore
  <2>1. PICK r \in Answer("greetingMore") :
          /\ Took
          /\ \/ c' = [Again(r) EXCEPT !.esmtp = Again(r).esmtp \/ "ESMTP" \in r.cap]
             \/ c' = Ends(-1)
             \/ c' = [Reads("helo", r) EXCEPT !.esmtp = Reads("helo", r).esmtp \/ "ESMTP" \in r.cap]
    BY <1>4 DEF ReadGreetingMore
  <2>2. r \in Parts /\ c.pc = "greetingMore"
    BY AnswerShape
  <2>3. /\ (Again(r).esmtp \/ "ESMTP" \in r.cap) \in BOOLEAN
        /\ (Reads("helo", r).esmtp \/ "ESMTP" \in r.cap) \in BOOLEAN
    OBVIOUS
  <2> QED
    BY <1>2, <2>1, <2>2, <2>3
<1>5. CASE ReadGreetingSkip
  <2>1. PICK r \in Answer("greetingSkip") : Took /\ (c' = Again(r) \/ c' = Ends(-1))
    BY <1>5 DEF ReadGreetingSkip
  <2>2. r \in Parts /\ c.pc = "greetingSkip"
    BY AnswerShape
  <2> QED
    BY <1>2, <2>1, <2>2
<1> QED
  BY <1>3, <1>4, <1>5

(* Writing commands.                                                       *)
LEMMA PutsKeeps ==
  ASSUME AuthInv, NEW command \in Commands, Puts(command)
  PROVE  UNCHANGED <<opts, s, toClient>> /\ toServer' \in Seq(Commands)
<1>1. toServer \in Seq(Commands)
  BY DEF AuthInv, Shapes
<1> QED
  BY <1>1, AppendProperties DEF Puts

LEMMA LocalKeeps ==
  ASSUME AuthInv, Local
  PROVE  UNCHANGED <<opts, s, toClient>> /\ toServer' \in Seq(Commands)
BY DEF AuthInv, Shapes, Local

LEMMA AtKeeps ==
  ASSUME AuthInv, UNCHANGED <<opts, s, toClient>>, toServer' \in Seq(Commands),
         NEW pc, BeforeMail(pc), c' = At(pc)
  PROVE  AuthInv'
<1>1. pc \in Places
  BY DEF BeforeMail
<1>2. At(pc) \in Clients /\ At(pc).pc = pc
  BY <1>1, FieldsOfClient DEF At, Clients
<1> QED
  BY <1>2, WritingKeeps

LEMMA EndsKeeps ==
  ASSUME AuthInv, UNCHANGED <<opts, s, toClient>>, toServer' \in Seq(Commands),
         NEW rc \in Rcs, c' = Ends(rc)
  PROVE  AuthInv'
BY EndsShape, WritingKeeps

LEMMA ReadsKeeps ==
  ASSUME AuthInv, Took, NEW r \in Parts, NEW pc, BeforeMail(pc),
         c' = Reads(pc, r) \/ c' = Ends(-1) \/ (c.pc = pc /\ c' = Again(r))
  PROVE  AuthInv'
<1>1. pc \in Places
  BY DEF BeforeMail
<1>2. c' = Reads(pc, r) \/ (c.pc = pc /\ c' = Again(r)) => c' \in Clients /\ c'.pc = pc
  BY <1>1, ReadsShape
<1> QED
  BY <1>2, EndsShape, ReadingKeeps

(* HELO and what the server can do.                                        *)
LEMMA HeloPlaces ==
  /\ BeforeMail(AfterHelo) /\ BeforeMail("caps") /\ AfterHelo \in Places
  /\ "caps" \in Places
BY DEF BeforeMail, AfterHelo, Places

LEMMA HeloKeeps ==
  ASSUME AuthInv, SayHelo \/ ReadHelo \/ ReadCaps
  PROVE  AuthInv'
<1>1. CASE SayHelo
  <2>1. PICK command \in {"EHLO", "HELO"} : Puts(command)
    BY <1>1 DEF SayHelo
  <2>2. command \in Commands /\ BeforeMail("heloReply")
    BY DEF Commands, BeforeMail, Places
  <2>3. c' = At("heloReply")
    BY <1>1 DEF SayHelo
  <2> QED
    BY <2>1, <2>2, <2>3, PutsKeeps, AtKeeps
<1>2. CASE ReadHelo
  <2>1. PICK r \in Answer("heloReply") :
          /\ Took
          /\ \/ r.code # 250 /\ c' = [At(AfterHelo) EXCEPT !.sep = r.sep]
             \/ r.code = 250 /\ r.sep = "-"
                /\ c' = [At("caps") EXCEPT !.sep = r.sep, !.lines = 0]
             \/ r.code = 250 /\ r.sep # "-" /\ c' = [At(AfterHelo) EXCEPT !.sep = " "]
    BY <1>2 DEF ReadHelo
  <2>2. r.sep \in Seps /\ " " \in Seps
    <3>1. r \in Parts
      BY AnswerShape
    <3> QED
      BY <3>1, Elements DEF Parts
  <2>3. Took
    BY <2>1
  <2>4. ASSUME NEW sep \in Seps, c' = [At(AfterHelo) EXCEPT !.sep = sep]
        PROVE  AuthInv'
    <3>1. c' \in Clients /\ c'.pc = AfterHelo
      BY <2>4, FieldsOfClient, HeloPlaces DEF At, Clients
    <3>2. BeforeMail(c'.pc)
      BY <3>1, HeloPlaces
    <3> QED
      BY <2>3, <3>1, <3>2, ReadingKeeps
  <2>5. ASSUME NEW sep \in Seps, c' = [At("caps") EXCEPT !.sep = sep, !.lines = 0]
        PROVE  AuthInv'
    <3>1. c' \in Clients /\ c'.pc = "caps"
      BY <2>5, FieldsOfClient, HeloPlaces DEF At, Clients
    <3>2. BeforeMail(c'.pc)
      BY <3>1, HeloPlaces
    <3> QED
      BY <2>3, <3>1, <3>2, ReadingKeeps
  <2>6. CASE c' = [At(AfterHelo) EXCEPT !.sep = r.sep]
    BY <2>2, <2>4, <2>6
  <2>7. CASE c' = [At("caps") EXCEPT !.sep = r.sep, !.lines = 0]
    BY <2>2, <2>5, <2>7
  <2>8. CASE c' = [At(AfterHelo) EXCEPT !.sep = " "]
    BY <2>2, <2>4, <2>8
  <2> QED
    BY <2>1, <2>6, <2>7, <2>8
<1>3. CASE ReadCaps
  <2>1. PICK r \in Answer("caps") :
          /\ Took
          /\ c' = [c EXCEPT !.pc = IF Follows(r) THEN "caps" ELSE AfterHelo,
                            !.sep = IF Follows(r) THEN r.sep ELSE " ",
                            !.lines = @ + 1, !.caps = @ \cup r.cap]
    BY <1>3 DEF ReadCaps
  <2>2. r.sep \in Seps /\ r.cap \in SomeCaps
    BY AnswerShape DEF Parts
  <2>3. c.caps \cup r.cap \in SomeCaps
    BY <2>2, CapsJoin, FieldsOfClient
  <2>4. ASSUME NEW pc \in Places, NEW sep \in Seps
        PROVE  /\ [c EXCEPT !.pc = pc, !.sep = sep, !.lines = c.lines + 1,
                            !.caps = c.caps \cup r.cap] \in Clients
               /\ [c EXCEPT !.pc = pc, !.sep = sep, !.lines = c.lines + 1,
                            !.caps = c.caps \cup r.cap].pc = pc
    BY <2>3, FieldsOfClient DEF Clients
  <2>5. PICK pc \in {"caps", AfterHelo}, sep \in {r.sep, " "} :
          c' = [c EXCEPT !.pc = pc, !.sep = sep, !.lines = c.lines + 1,
                         !.caps = c.caps \cup r.cap]
    BY <2>1
  <2>6. pc \in Places /\ sep \in Seps /\ BeforeMail(pc)
    BY <2>2, <2>5, Elements, HeloPlaces
  <2>7. c' \in Clients /\ c'.pc = pc
    BY <2>4, <2>5, <2>6
  <2> QED
    BY <2>1, <2>6, <2>7, ReadingKeeps
<1> QED
  BY <1>1, <1>2, <1>3

(* TLS: a handshake changes nothing that a reply may say.                  *)
LEMMA HandshakeKeeps ==
  ASSUME AuthInv, NEW ok \in Clients, NEW failed \in Clients,
         BeforeMail(ok.pc), BeforeMail(failed.pc), Handshake(ok, failed)
  PROVE  AuthInv'
<1>1. s \in Servers /\ toServer \in Seq(Commands) /\ toClient \in Seq(ReplyLine)
  BY DEF AuthInv, Shapes
<1>2. UNCHANGED <<opts, toClient, toServer>> /\ (c' = ok \/ c' = failed)
  BY DEF Handshake, Local
<1>3. s' \in Servers /\ s'.authed = s.authed
  <2>1. "new" \in States /\ "start" \in States
    BY DEF States
  <2>2. CASE s' = [s EXCEPT !.state = "new"]
    BY <1>1, <2>1, <2>2 DEF Servers
  <2>3. CASE s' = [s EXCEPT !.state = "start"]
    BY <1>1, <2>1, <2>3 DEF Servers
  <2>4. CASE s' = s
    BY <1>1, <2>4
  <2> QED
    BY <2>2, <2>3, <2>4 DEF Handshake, Local
<1>4. NoFalseLetting'
  BY <1>2, <1>3 DEF AuthInv, NoFalseLetting
<1>5. AuthBeforeMail'
  BY <1>2 DEF BeforeMail, AuthBeforeMail
<1> QED
  BY <1>1, <1>2, <1>3, <1>4, <1>5 DEF AuthInv, Shapes

LEMMA TlsPlaces ==
  /\ BeforeMail("greeting") /\ BeforeMail("helo") /\ BeforeMail("auth")
  /\ BeforeMail("tlsReply") /\ BeforeMail("handshake") /\ BeforeMail("starttls")
  /\ BeforeMail("rawssl")
BY DEF BeforeMail, Places

LEMMA TlsKeeps ==
  ASSUME AuthInv, RawSsl \/ StartTls \/ ReadTls \/ TlsHandshake
  PROVE  AuthInv'
<1>1. ASSUME NEW pc, BeforeMail(pc)
      PROVE  /\ At(pc) \in Clients /\ At(pc).pc = pc
             /\ [At(pc) EXCEPT !.ssl = TRUE] \in Clients
             /\ [At(pc) EXCEPT !.ssl = TRUE].pc = pc
             /\ [At(pc) EXCEPT !.ssl = TRUE, !.again = TRUE, !.rc = 0] \in Clients
             /\ [At(pc) EXCEPT !.ssl = TRUE, !.again = TRUE, !.rc = 0].pc = pc
             /\ [At(pc) EXCEPT !.rc = -1] \in Clients
             /\ [At(pc) EXCEPT !.rc = -1].pc = pc
  <2>1. pc \in Places /\ -1 \in Rcs
    BY <1>1 DEF BeforeMail, Rcs
  <2> QED
    BY <2>1, Elements, FieldsOfClient DEF At, Clients
<1>2. CASE RawSsl
  <2>1. \/ Handshake([At("greeting") EXCEPT !.ssl = TRUE], At("greeting"))
        \/ c' = At("greeting") /\ Local
    BY <1>2 DEF RawSsl
  <2>2. CASE Handshake([At("greeting") EXCEPT !.ssl = TRUE], At("greeting"))
    <3> DEFINE ok == [At("greeting") EXCEPT !.ssl = TRUE]
               failed == At("greeting")
    <3>1. /\ ok \in Clients /\ BeforeMail(ok.pc)
          /\ failed \in Clients /\ BeforeMail(failed.pc)
      BY <1>1, TlsPlaces
    <3>2. Handshake(ok, failed)
      BY <2>2
    <3> HIDE DEF ok, failed
    <3> QED
      BY <3>1, <3>2, HandshakeKeeps
  <2>3. CASE c' = At("greeting") /\ Local
    BY <2>3, LocalKeeps, TlsPlaces, AtKeeps
  <2> QED
    BY <2>1, <2>2, <2>3
<1>3. CASE StartTls
  <2>1. CASE Puts("STARTTLS") /\ c' = At("tlsReply")
    <3>1. "STARTTLS" \in Commands
      BY DEF Commands
    <3> QED
      BY <2>1, <3>1, PutsKeeps, TlsPlaces, AtKeeps
  <2>2. CASE Local /\ c' = At("auth")
    BY <2>2, LocalKeeps, TlsPlaces, AtKeeps
  <2> QED
    BY <1>3, <2>1, <2>2 DEF StartTls
<1>4. CASE ReadTls
  <2>1. PICK r \in Answer("tlsReply") :
          Took /\ (c' = Reads("handshake", r) \/ c' = [Reads("auth", r) EXCEPT !.rc = -1])
    BY <1>4 DEF ReadTls
  <2>2. r \in Parts
    BY AnswerShape
  <2>3. CASE c' = Reads("handshake", r)
    BY <2>1, <2>2, <2>3, TlsPlaces, ReadsKeeps
  <2>4. CASE c' = [Reads("auth", r) EXCEPT !.rc = -1]
    <3>1. "auth" \in Places /\ -1 \in Rcs
      BY TlsPlaces DEF BeforeMail, Rcs
    <3>2. Reads("auth", r) \in Clients /\ Reads("auth", r).pc = "auth"
      BY <2>2, <3>1, ReadsShape
    <3>3. c' \in Clients /\ c'.pc = "auth"
      BY <2>4, <3>1, <3>2 DEF Clients
    <3> QED
      BY <2>1, <3>3, TlsPlaces, ReadingKeeps
  <2> QED
    BY <2>1, <2>3, <2>4
<1>5. CASE TlsHandshake
  <2>1. Handshake([At("helo") EXCEPT !.ssl = TRUE, !.again = TRUE, !.rc = 0],
                  [At("auth") EXCEPT !.rc = -1])
    BY <1>5 DEF TlsHandshake
  <2> DEFINE ok == [At("helo") EXCEPT !.ssl = TRUE, !.again = TRUE, !.rc = 0]
             failed == [At("auth") EXCEPT !.rc = -1]
  <2>2. ok \in Clients /\ BeforeMail(ok.pc) /\ failed \in Clients /\ BeforeMail(failed.pc)
    BY <1>1, TlsPlaces
  <2>3. Handshake(ok, failed)
    BY <2>1
  <2> HIDE DEF ok, failed
  <2> QED
    BY <2>2, <2>3, HandshakeKeeps
<1> QED
  BY <1>2, <1>3, <1>4, <1>5

(* Authentication.                                                         *)
LEMMA TriedIsMech ==
  ASSUME AuthInv, NEW m \in Tried
  PROVE  m \in Commands /\ BeforeMail(m)
<1>1. opts.mechs \subseteq Mechs
  BY ParameterAssumption DEF AuthInv, Shapes, OptionType
<1>2. m \in Mechs
  BY <1>1 DEF Tried, Mechs
<1> QED
  BY <1>2 DEF Mechs, Commands, BeforeMail, Places

LEMMA RoundKeeps ==
  ASSUME AuthInv, NEW at, NEW code, NEW next \in Places, AuthRound(at, code, next),
         next \in {"mail", "mailReply"} => code = Letting
  PROVE  AuthInv'
<1>1. PICK r \in Answer(at) :
        /\ Took
        /\ c' = IF r.code # code THEN Ends(-1) ELSE [At(next) EXCEPT !.sep = r.sep]
  BY DEF AuthRound
<1>2. r \in Parts /\ (r.code = Letting => s.authed)
  BY AnswerShape
<1>3. CASE r.code # code
  <2>1. c' = Ends(-1)
    BY <1>1, <1>3
  <2> QED
    BY <1>1, <2>1, EndsShape, ReadingKeeps
<1>4. CASE r.code = code
  <2>1. r.sep \in Seps
    BY <1>2 DEF Parts
  <2>2. c' = [At(next) EXCEPT !.sep = r.sep]
    BY <1>1, <1>4
  <2>3. c' \in Clients /\ c'.pc = next
    BY <2>1, <2>2, FieldsOfClient DEF At, Clients
  <2>4. c'.pc \in {"mail", "mailReply"} => s.authed
    BY <1>2, <1>4, <2>3
  <2> QED
    BY <1>1, <2>3, <2>4, TookKeeps, ClientKeeps
<1> QED
  BY <1>3, <1>4

LEMMA SecretKeeps ==
  ASSUME AuthInv, NEW at \in Commands, NEW next, BeforeMail(next), SendSecret(at, next)
  PROVE  AuthInv'
<1>1. CASE NoSecret
  BY <1>1, LocalKeeps, EndsShape, WritingKeeps DEF NoSecret
<1>2. CASE Puts(at) /\ c' = At(next)
  BY <1>2, PutsKeeps, AtKeeps
<1> QED
  BY <1>1, <1>2 DEF SendSecret

LEMMA AuthPlaces ==
  /\ "digest" \in Commands /\ "username" \in Commands /\ "password" \in Commands
  /\ BeforeMail("digest") /\ BeforeMail("digestReply") /\ BeforeMail("username")
  /\ BeforeMail("usernameReply") /\ BeforeMail("password") /\ BeforeMail("passwordReply")
  /\ BeforeMail("exit") /\ "mail" \in Places /\ "mailReply" \in Places
BY DEF Commands, BeforeMail, Places

LEMMA AuthKeeps ==
  ASSUME AuthInv, Auth
  PROVE  AuthInv'
<1>1. CASE Authenticate
  <2>1. PICK m \in Tried :
          \/ NoSecret
          \/ c' = Ends(c.rc) /\ Local
          \/ Puts(m) /\ c' = At(m)
    BY <1>1 DEF Authenticate
  <2>2. CASE NoSecret
    BY <2>2, LocalKeeps, EndsShape, WritingKeeps DEF NoSecret
  <2>3. CASE c' = Ends(c.rc) /\ Local
    <3>1. c.rc \in Rcs
      BY FieldsOfClient
    <3> QED
      BY <2>3, <3>1, LocalKeeps, EndsKeeps
  <2>4. CASE Puts(m) /\ c' = At(m)
    BY <2>4, TriedIsMech, PutsKeeps, AtKeeps
  <2> QED
    BY <2>1, <2>2, <2>3, <2>4
<1>2. CASE SkipAuth
  <2>1. Tried = {} /\ Local /\ (c' = At("exit") \/ c' = At("mail"))
    BY <1>2 DEF SkipAuth
  <2>2. CASE c' = At("exit")
    BY <2>1, <2>2, LocalKeeps, AuthPlaces, AtKeeps
  <2>3. CASE c' = At("mail")
    <3>1. c' \in Clients /\ c'.caps = c.caps
      BY <2>3, FieldsOfClient, AuthPlaces DEF At, Clients
    <3>2. Tried' = {} /\ UNCHANGED s
      BY <2>1, <3>1 DEF Tried, Local
    <3>3. NoFalseLetting' /\ toClient' \in Seq(ReplyLine)
      BY <2>1 DEF AuthInv, Shapes, NoFalseLetting, Local
    <3> QED
      BY <2>1, <3>1, <3>2, <3>3, LocalKeeps, ClientKeeps
  <2> QED
    BY <2>1, <2>2, <2>3
<1>3. CASE \/ AuthRound("CRAM-MD5", 334, "digest")
           \/ AuthRound("LOGIN", 334, "username")
           \/ AuthRound("usernameReply", 334, "password")
  BY <1>3, AuthPlaces, RoundKeeps DEF BeforeMail
<1>4. CASE \/ AuthRound("digestReply", 235, "mail")
           \/ AuthRound("passwordReply", 235, "mail")
           \/ AuthRound("PLAIN", 235, "mail")
  <2>1. 235 = Letting
    BY DEF Letting
  <2> QED
    BY <1>4, <2>1, AuthPlaces, RoundKeeps
<1>5. CASE \/ SendSecret("digest", "digestReply")
           \/ SendSecret("username", "usernameReply")
           \/ SendSecret("password", "passwordReply")
  BY <1>5, AuthPlaces, SecretKeeps
<1> QED
  BY <1>1, <1>2, <1>3, <1>4, <1>5 DEF Auth

(* The mail.                                                               *)
LEMMA MailPlaces ==
  /\ BeforeMail("rcpt") /\ BeforeMail("rcptReply") /\ BeforeMail("dataReply")
  /\ BeforeMail("reset") /\ BeforeMail("resetReply") /\ BeforeMail("text")
  /\ BeforeMail("textReply") /\ BeforeMail("textSkip") /\ BeforeMail("quit")
  /\ BeforeMail("quitReply") /\ BeforeMail("greeting") /\ BeforeMail("rawssl")
BY DEF BeforeMail, Places

LEMMA MailCommands ==
  /\ "MAIL" \in Commands /\ "RCPT" \in Commands /\ "DATA" \in Commands
  /\ "RSET" \in Commands /\ "TEXT" \in Commands /\ "QUIT" \in Commands
BY DEF Commands

(* The place of MAIL FROM is reached from within it.                       *)
LEMMA MailFromKeeps ==
  ASSUME AuthInv, MailFrom
  PROVE  AuthInv'
<1>1. c.pc = "mail" /\ Puts("MAIL") /\ c' = At("mailReply")
  BY DEF MailFrom
<1>2. UNCHANGED <<opts, s, toClient>> /\ toServer' \in Seq(Commands)
  BY <1>1, MailCommands, PutsKeeps
<1>3. c' \in Clients /\ c'.caps = c.caps
  BY <1>1, FieldsOfClient, AuthPlaces DEF At, Clients
<1>4. Tried' = Tried
  BY <1>2, <1>3 DEF Tried
<1>5. s.authed \/ Tried' = {}
  BY <1>1, <1>4 DEF AuthInv, AuthBeforeMail
<1>6. NoFalseLetting' /\ toClient' \in Seq(ReplyLine)
  BY <1>2 DEF AuthInv, Shapes, NoFalseLetting
<1> QED
  BY <1>2, <1>3, <1>5, <1>6, ClientKeeps

LEMMA MailWritesKeep ==
  ASSUME AuthInv, RcptTo \/ Reset \/ Text \/ Quit
  PROVE  AuthInv'
<1>1. CASE RcptTo
  <2>1. CASE Puts("DATA") /\ c' = At("dataReply")
    BY <2>1, MailCommands, MailPlaces, PutsKeeps, AtKeeps
  <2>2. CASE Puts("RCPT") /\ c' = [At("rcptReply") EXCEPT !.rcpt = @ + 1]
    <3>1. "rcptReply" \in Places
      BY MailPlaces DEF BeforeMail
    <3>2. c' \in Clients /\ c'.pc = "rcptReply"
      BY <2>2, <3>1, FieldsOfClient DEF At, Clients
    <3> QED
      BY <2>2, <3>2, MailCommands, MailPlaces, PutsKeeps, WritingKeeps
  <2> QED
    BY <1>1, <2>1, <2>2 DEF RcptTo
<1>2. CASE Reset
  BY <1>2, MailCommands, MailPlaces, PutsKeeps, AtKeeps DEF Reset
<1>3. CASE Text
  <2>1. CASE Local /\ c' = Ends(-1)
    BY <2>1, LocalKeeps, EndsShape, WritingKeeps
  <2>2. CASE Puts("TEXT") /\ c' = At("textReply")
    BY <2>2, MailCommands, MailPlaces, PutsKeeps, AtKeeps
  <2> QED
    BY <1>3, <2>1, <2>2 DEF Text
<1>4. CASE Quit
  BY <1>4, MailCommands, MailPlaces, PutsKeeps, AtKeeps DEF Quit
<1> QED
  BY <1>1, <1>2, <1>3, <1>4

LEMMA MailReadsKeep ==
  ASSUME AuthInv,
         ReadMail \/ ReadRcpt \/ ReadReset \/ ReadData \/ ReadText \/ ReadTextSkip
         \/ ReadQuit
  PROVE  AuthInv'
<1>1. ASSUME NEW at, NEW r \in Answer(at), Took,
             \/ c' = Ends(-1)
             \/ \E pc : BeforeMail(pc) /\ c' = Reads(pc, r)
             \/ BeforeMail(at) /\ c' = Again(r)
      PROVE  AuthInv'
  <2>1. r \in Parts /\ c.pc = at
    BY AnswerShape
  <2>2. CASE c' = Ends(-1)
    BY <1>1, <2>2, EndsShape, ReadingKeeps
  <2>3. CASE \E pc : BeforeMail(pc) /\ c' = Reads(pc, r)
    BY <1>1, <2>1, <2>3, ReadsKeeps
  <2>4. CASE BeforeMail(at) /\ c' = Again(r)
    BY <1>1, <2>1, <2>4, ReadsKeeps
  <2> QED
    BY <1>1, <2>2, <2>3, <2>4
<1>2. CASE ReadMail
  <2>1. PICK r \in Answer("mailReply") : Took /\ (c' = Ends(-1) \/ c' = Reads("rcpt", r))
    BY <1>2 DEF ReadMail
  <2> QED
    BY <1>1, <2>1, MailPlaces
<1>3. CASE ReadRcpt
  <2>1. PICK r \in Answer("rcptReply") :
          Took /\ (c' = Reads("reset", r) \/ c' = Reads("rcpt", r))
    BY <1>3 DEF ReadRcpt
  <2> QED
    BY <1>1, <2>1, MailPlaces
<1>4. CASE ReadReset
  <2>1. PICK r \in Answer("resetReply") : Took /\ c' = Ends(-1)
    BY <1>4 DEF ReadReset
  <2> QED
    BY <1>1, <2>1
<1>5. CASE ReadData
  <2>1. PICK r \in Answer("dataReply") : Took /\ (c' = Ends(-1) \/ c' = Reads("text", r))
    BY <1>5 DEF ReadData
  <2> QED
    BY <1>1, <2>1, MailPlaces
<1>6. CASE ReadText
  <2>1. PICK r \in Answer("textReply") :
          Took /\ (c' = Reads("quit", r) \/ c' = Reads("textSkip", r) \/ c' = Ends(-1))
    BY <1>6 DEF ReadText
  <2> QED
    BY <1>1, <2>1, MailPlaces
<1>7. CASE ReadTextSkip
  <2>1. PICK r \in Answer("textSkip") : Took /\ (c' = Again(r) \/ c' = Ends(-1))
    BY <1>7 DEF ReadTextSkip
  <2> QED
    BY <1>1, <2>1, MailPlaces
<1>8. CASE ReadQuit
  <2>1. Took /\ c' = Ends(c.rc)
    BY <1>8 DEF ReadQuit
  <2>2. c.rc \in Rcs
    BY FieldsOfClient
  <2> QED
    BY <2>1, <2>2, EndsShape, ReadingKeeps
<1> QED
  BY <1>2, <1>3, <1>4, <1>5, <1>6, <1>7, <1>8

LEMMA ConnectKeeps ==
  ASSUME AuthInv, Connect
  PROVE  AuthInv'
<1>1. /\ UNCHANGED <<opts, s, toServer, toClient>>
      /\ c' = At("rawssl") \/ c' = At("greeting") \/ c' = Ends(-1)
  BY DEF Connect
<1>2. toServer' \in Seq(Commands)
  BY <1>1 DEF AuthInv, Shapes
<1> QED
  BY <1>1, <1>2, MailPlaces, AtKeeps, EndsShape, WritingKeeps

LEMMA ClientStep ==
  ASSUME AuthInv, Client
  PROVE  AuthInv'
BY ConnectKeeps, GreetingKeeps, HeloKeeps, TlsKeeps, AuthKeeps, MailFromKeeps,
   MailWritesKeep, MailReadsKeep DEF Client

-----------------------------------------------------------------------------
(* The server.                                                             *)

(* What the server says keeps its word: it lets nobody in without saying   *)
(* so, and puts nobody out.                                                *)
Honest(code, new) ==
  /\ new \in Servers
  /\ s.authed => new.authed
  /\ code = Letting => new.authed
Honestly(v) == v.code \in Int /\ v.cap \in SomeCaps /\ Honest(v.code, v.s)

LEMMA StateShape ==
  ASSUME AuthInv, NEW code, code # Letting
  PROVE  /\ Honest(code, s)
         /\ \A state \in States : Honest(code, In(state))
<1>1. s \in Servers
  BY DEF AuthInv, Shapes
<1>2. ASSUME NEW state \in States
      PROVE  In(state) \in Servers /\ In(state).authed = s.authed
  BY <1>1 DEF In, Servers
<1> QED
  BY <1>1, <1>2 DEF Honest

LEMMA SaysShape ==
  ASSUME NEW code \in Int, NEW cap \in SomeCaps, NEW new, Honest(code, new)
  PROVE  Honestly(Says(code, cap, new))
BY DEF Says, Honestly

LEMMA VerdictShape ==
  ASSUME AuthInv, NEW command \in Commands, NEW v \in Verdicts(command)
  PROVE  Honestly(v)
<1>1. /\ "tls" \in States /\ "start" \in States /\ "mail" \in States /\ "data" \in States
      /\ {} \in SomeCaps
  BY DEF States, SomeCaps
<1>2. \A code \in Int : code # Letting => Honestly(Says(code, {}, s))
  BY <1>1, StateShape, SaysShape
<1>3. \A code \in Int, state \in States :
        code # Letting => Honestly(Says(code, {}, In(state)))
  BY <1>1, StateShape, SaysShape
<1>4. s \in Servers
  BY DEF AuthInv, Shapes
<1>5. CASE command = "EHLO"
  <2>1. ASSUME NEW caps \in CapSets
        PROVE  Honestly(Says(250, caps, In("start")))
    <3>1. caps \in SomeCaps
      BY ParameterAssumption DEF SomeCaps
    <3>2. Honest(250, In("start"))
      BY <1>1, StateShape DEF Letting
    <3> QED
      BY <3>1, <3>2, SaysShape
  <2>2. Honestly(Says(502, {}, s))
    BY <1>2 DEF Letting
  <2>3. v \in {Says(250, caps, In("start")) : caps \in CapSets} \cup {Says(502, {}, s)}
    BY <1>5 DEF Verdicts, Refuses
  <2> QED
    BY <2>1, <2>2, <2>3
<1>6. CASE command = "HELO"
  <2>1. v \in {Says(250, {}, In("start")), Says(502, {}, s)}
    BY <1>6 DEF Verdicts, Refuses
  <2> QED
    BY <1>1, <1>2, <1>3, <2>1 DEF Letting
<1>7. CASE command = "STARTTLS"
  <2>1. v \in {Says(220, {}, In("tls")), Says(454, {}, s)}
    BY <1>7 DEF Verdicts, Refuses
  <2> QED
    BY <1>1, <1>2, <1>3, <2>1 DEF Letting
<1>8. CASE command \in {"username", "CRAM-MD5", "LOGIN"}
  <2>1. v \in {Says(334, {}, s), Says(535, {}, s), Says(504, {}, s)}
    BY <1>8 DEF Verdicts, Refuses
  <2> QED
    BY <1>2, <2>1 DEF Letting
<1>9. CASE command \in {"digest", "password", "PLAIN"}
  <2>1. v \in {Says(235, {}, [s EXCEPT !.authed = TRUE]), Says(535, {}, s)}
    BY <1>9 DEF Verdicts, Refuses
  <2>2. [s EXCEPT !.authed = TRUE] \in Servers /\ [s EXCEPT !.authed = TRUE].authed
    BY <1>4 DEF Servers
  <2>3. Honest(235, [s EXCEPT !.authed = TRUE])
    BY <2>2 DEF Honest
  <2>4. Honestly(Says(235, {}, [s EXCEPT !.authed = TRUE]))
    BY <1>1, <2>3, SaysShape
  <2>5. Honestly(Says(535, {}, s))
    BY <1>2 DEF Letting
  <2> QED
    BY <2>1, <2>4, <2>5
<1>10. CASE command = "MAIL"
  <2>1. v \in {Says(250, {}, In("mail")), Says(550, {}, s)}
    BY <1>10 DEF Verdicts, Refuses
  <2> QED
    BY <1>1, <1>2, <1>3, <2>1 DEF Letting
<1>11. CASE command = "RCPT"
  <2> DEFINE new == [s EXCEPT !.heard = @ + 1]
             took == [new EXCEPT !.accepted = @ \cup {new.heard}]
  <2>1. v \in {Says(550, {}, new), Says(503, {}, new), Says(250, {}, took)}
    BY <1>11 DEF Verdicts, RcptVerdicts
  <2>2. new \in Servers /\ new.authed = s.authed
    BY <1>4 DEF Servers
  <2>3. took \in Servers /\ took.authed = s.authed
    <3>1. new.heard \in Nat /\ new.accepted \cup {new.heard} \in SUBSET Nat
      BY <2>2 DEF Servers
    <3> HIDE DEF new
    <3> QED
      BY <2>2, <3>1 DEF Servers
  <2> HIDE DEF new, took
  <2>4. Honest(550, new) /\ Honest(503, new) /\ Honest(250, took)
    BY <2>2, <2>3 DEF Honest, Letting
  <2>5. /\ Honestly(Says(550, {}, new)) /\ Honestly(Says(503, {}, new))
        /\ Honestly(Says(250, {}, took))
    BY <1>1, <2>4, SaysShape
  <2> QED
    BY <2>1, <2>5
<1>12. CASE command = "DATA"
  <2>1. v \in {Says(503, {}, s), Says(354, {}, In("data")), Says(554, {}, s)}
    BY <1>12 DEF Verdicts, Refuses
  <2> QED
    BY <1>1, <1>2, <1>3, <2>1 DEF Letting
<1>13. CASE command = "TEXT"
  <2> DEFINE new == [In("start") EXCEPT !.delivered = TRUE]
  <2>1. v \in {Says(500, {}, s), Says(250, {}, new), Says(552, {}, In("start"))}
    BY <1>13 DEF Verdicts, Refuses
  <2>2. In("start") \in Servers /\ In("start").authed = s.authed
    BY <1>1, <1>4 DEF In, Servers
  <2>3. new \in Servers /\ new.authed = s.authed
    BY <2>2 DEF Servers
  <2> HIDE DEF new
  <2>4. Honest(250, new)
    BY <2>3 DEF Honest, Letting
  <2>5. Honestly(Says(250, {}, new))
    BY <1>1, <2>4, SaysShape
  <2>6. Honestly(Says(500, {}, s)) /\ Honestly(Says(552, {}, In("start")))
    BY <1>1, <1>2, <1>3 DEF Letting
  <2> QED
    BY <2>1, <2>5, <2>6
<1>14. CASE command = "RSET"
  <2>1. v = Says(250, {}, In("start"))
    BY <1>14 DEF Verdicts
  <2> QED
    BY <1>1, <1>3, <2>1 DEF Letting
<1>15. CASE command = "QUIT"
  <2>1. v = Says(221, {}, In("start"))
    BY <1>15 DEF Verdicts
  <2> QED
    BY <1>1, <1>3, <2>1 DEF Letting
<1> QED
  BY <1>5, <1>6, <1>7, <1>8, <1>9, <1>10, <1>11, <1>12, <1>13, <1>14, <1>15
     DEF Commands, Mechs

(* A reply, line by line.                                                  *)
LEMMA LineShape ==
  ASSUME NEW code \in Int, NEW dash \in BOOLEAN, NEW cap \in SomeCaps
  PROVE  Line(code, dash, cap) \in ReplyLine /\ Line(code, dash, cap).code = code
BY DEF Line, ReplyLine

LEMMA LinesShape ==
  ASSUME NEW code \in Int, NEW n \in Nat, NEW cap \in SomeCaps
  PROVE  /\ Lines(code, n, cap) \in Seq(ReplyLine)
         /\ \A i \in 1 .. Len(Lines(code, n, cap)) : Lines(code, n, cap)[i].code = code
<1> DEFINE line(i) == Line(code, i < n, IF i = n THEN cap ELSE {})
<1>1. ASSUME NEW i \in 1 .. n
      PROVE  line(i) \in ReplyLine /\ line(i).code = code
  <2>1. (i < n) \in BOOLEAN
    OBVIOUS
  <2>2. (IF i = n THEN cap ELSE {}) \in SomeCaps
    BY DEF SomeCaps
  <2> QED
    BY <2>1, <2>2, LineShape
<1> HIDE DEF line
<1>2. [i \in 1 .. n |-> line(i)] \in [1 .. n -> ReplyLine]
  BY <1>1
<1>3. [i \in 1 .. n |-> line(i)] \in Seq(ReplyLine) /\ Len([i \in 1 .. n |-> line(i)]) = n
  <2>1. [i \in 1 .. n |-> line(i)] \in Seq(ReplyLine)
    BY <1>2, SeqDef
  <2> QED
    BY <2>1, LenProperties
<1>4. Lines(code, n, cap) = [i \in 1 .. n |-> line(i)]
  BY DEF Lines, line
<1> QED
  BY <1>1, <1>3, <1>4

LEMMA ReplyShape ==
  ASSUME AuthInv, NEW command, NEW v, Honestly(v), NEW reply \in Replies(v, command)
  PROVE  /\ reply \in Seq(ReplyLine)
         /\ \A i \in 1 .. Len(reply) : reply[i].code = Letting => v.s.authed
<1>1. v.code \in Int /\ v.cap \in SomeCaps /\ (v.code = Letting => v.s.authed)
  BY DEF Honestly, Honest
<1>2. opts.lines \subseteq Nat \ {0}
  BY OptionShape DEF AuthInv, Shapes
<1>3. \/ \E n \in Nat : reply = Lines(v.code, n, v.cap)
      \/ reply = <<Bare>>
      \/ reply = <<Bare, Rest>>
  BY <1>2 DEF Replies
<1>4. CASE \E n \in Nat : reply = Lines(v.code, n, v.cap)
  <2>1. PICK n \in Nat : reply = Lines(v.code, n, v.cap)
    BY <1>4
  <2>2. /\ Lines(v.code, n, v.cap) \in Seq(ReplyLine)
        /\ \A i \in 1 .. Len(Lines(v.code, n, v.cap)) :
             Lines(v.code, n, v.cap)[i].code = v.code
    BY <1>1, LinesShape
  <2> QED
    BY <1>1, <2>1, <2>2
<1>5. CASE reply = <<Bare>>
  <2>1. reply \in Seq(ReplyLine) /\ Len(reply) = 1 /\ reply[1] = Bare
    BY <1>5, BareShape
  <2> QED
    BY <2>1, BareShape
<1>6. CASE reply = <<Bare, Rest>>
  <2>1. /\ reply \in Seq(ReplyLine) /\ Len(reply) = 2
        /\ reply[1] = Bare /\ reply[2] = Rest
    BY <1>6, BareShape, RestShape
  <2> QED
    BY <2>1, BareShape, RestShape
<1> QED
  BY <1>3, <1>4, <1>5, <1>6

(* What the server adds to the lines on their way is as true of its new    *)
(* state as what is there already.                                         *)
LEMMA ServerKeeps ==
  ASSUME AuthInv, UNCHANGED <<opts, c>>, s' \in Servers, s.authed => s'.authed,
         toServer' \in Seq(Commands),
         NEW reply \in Seq(ReplyLine), toClient' = toClient \o reply,
         \A i \in 1 .. Len(reply) : reply[i].code = Letting => s'.authed
  PROVE  AuthInv'
<1>1. toClient \in Seq(ReplyLine) /\ Len(toClient) \in Nat /\ Len(reply) \in Nat
  BY LenProperties DEF AuthInv, Shapes
<1>2. /\ toClient' \in Seq(ReplyLine) /\ Len(toClient') = Len(toClient) + Len(reply)
      /\ \A i \in 1 .. Len(toClient) + Len(reply) :
           toClient'[i] = IF i <= Len(toClient) THEN toClient[i]
                          ELSE reply[i - Len(toClient)]
  BY <1>1, ConcatProperties
<1>3. ASSUME NEW i \in 1 .. Len(toClient'), toClient'[i].code = Letting
      PROVE  s'.authed
  <2>1. CASE i <= Len(toClient)
    <3>1. i \in 1 .. Len(toClient) /\ toClient[i].code = Letting
      BY <1>1, <1>2, <1>3, <2>1
    <3> QED
      BY <3>1 DEF AuthInv, NoFalseLetting
  <2>2. CASE i > Len(toClient)
    <3>1. /\ i - Len(toClient) \in 1 .. Len(reply)
          /\ reply[i - Len(toClient)].code = Letting
      BY <1>1, <1>2, <1>3, <2>2
    <3> QED
      BY <3>1
  <2> QED
    BY <1>1, <1>2, <2>1, <2>2
<1>4. AuthBeforeMail'
  BY DEF AuthInv, AuthBeforeMail, Tried
<1> QED
  BY <1>2, <1>3, <1>4 DEF AuthInv, Shapes, NoFalseLetting

LEMMA ServerStep ==
  ASSUME AuthInv, Server
  PROVE  AuthInv'
<1>1. /\ s \in Servers /\ toServer \in Seq(Commands) /\ toClient \in Seq(ReplyLine)
      /\ opts.lines \subseteq Nat \ {0}
  BY OptionShape DEF AuthInv, Shapes
<1>2. CASE ServerGreets
  <2>1. PICK n \in opts.lines, greeting \in {<<220, {}>>, <<220, {"ESMTP"}>>, <<554, {}>>} :
          toClient' = toClient \o Lines(greeting[1], n, greeting[2])
    BY <1>2 DEF ServerGreets
  <2>2. /\ greeting[1] \in Int /\ greeting[1] # Letting /\ greeting[2] \in SomeCaps
        /\ n \in Nat
    BY <1>1 DEF SomeCaps, Letting
  <2>3. PICK code \in Int, cap \in SomeCaps :
          code # Letting /\ toClient' = toClient \o Lines(code, n, cap)
    BY <2>1, <2>2
  <2> DEFINE reply == Lines(code, n, cap)
  <2>4. /\ reply \in Seq(ReplyLine)
        /\ \A i \in 1 .. Len(reply) : reply[i].code # Letting
    <3>1. code \in Int /\ n \in Nat /\ cap \in SomeCaps
      BY <2>2
    <3>2. /\ Lines(code, n, cap) \in Seq(ReplyLine)
          /\ \A i \in 1 .. Len(Lines(code, n, cap)) : Lines(code, n, cap)[i].code = code
      BY <3>1, LinesShape
    <3> QED
      BY <2>3, <3>2
  <2>5. /\ UNCHANGED <<opts, c, toServer>> /\ s' = In("start")
    BY <1>2 DEF ServerGreets
  <2>6. s' \in Servers /\ s'.authed = s.authed
    <3>1. "start" \in States
      BY DEF States
    <3> QED
      BY <1>1, <2>5, <3>1 DEF In, Servers
  <2>7. toClient' = toClient \o reply
    BY <2>3
  <2> HIDE DEF reply
  <2> QED
    BY <1>1, <2>4, <2>5, <2>6, <2>7, ServerKeeps
<1>3. CASE ServerHandles
  <2> DEFINE command == Head(toServer)
  <2>1. command \in Commands /\ Tail(toServer) \in Seq(Commands)
    BY <1>1, <1>3, HeadTailProperties DEF ServerHandles
  <2>2. PICK v \in Verdicts(command) :
          s' = v.s /\ \E reply \in Replies(v, command) : toClient' = toClient \o reply
    BY <1>3 DEF ServerHandles
  <2>3. PICK reply \in Replies(v, command) : toClient' = toClient \o reply
    BY <2>2
  <2>4. toServer' = Tail(toServer) /\ UNCHANGED <<opts, c>>
    BY <1>3 DEF ServerHandles
  <2> HIDE DEF command
  <2>5. Honestly(v)
    BY <2>1, VerdictShape
  <2>6. /\ reply \in Seq(ReplyLine)
        /\ \A i \in 1 .. Len(reply) : reply[i].code = Letting => v.s.authed
    BY <2>5, ReplyShape
  <2>7. s' \in Servers /\ (s.authed => s'.authed)
    BY <2>2, <2>5 DEF Honestly, Honest
  <2> QED
    BY <2>1, <2>2, <2>3, <2>4, <2>6, <2>7, ServerKeeps
<1>4. CASE ServerCloses
  <2>1. toServer' = << >> /\ toClient' \in {toClient, << >>} /\ UNCHANGED <<opts, c, s>>
    BY <1>4 DEF ServerCloses
  <2>2. toServer' \in Seq(Commands) /\ toClient' \in Seq(ReplyLine)
    <3>1. << >> \in Seq(Commands) /\ << >> \in Seq(ReplyLine)
      BY EmptySeq
    <3> QED
      BY <1>1, <2>1, <3>1
  <2>3. NoFalseLetting'
    BY <2>1 DEF AuthInv, NoFalseLetting
  <2>4. AuthBeforeMail'
    BY <2>1 DEF AuthInv, AuthBeforeMail, Tried
  <2> QED
    BY <2>1, <2>2, <2>3, <2>4 DEF AuthInv, Shapes
<1> QED
  BY <1>2, <1>3, <1>4 DEF Server

-----------------------------------------------------------------------------
(* The theorem.                                                            *)

LEMMA AuthStart ==
  ASSUME Init
  PROVE  AuthInv
<1>1. /\ "connect" \in Places /\ "connect" \notin {"mail", "mailReply"}
      /\ "tls" \in States /\ "new" \in States /\ -1 \in Rcs
  BY DEF Places, States, Rcs
<1>2. c \in Clients /\ c.pc = "connect"
  BY <1>1, Elements DEF Init, Clients
<1>3. s \in Servers
  BY <1>1 DEF Init, Servers
<1>4. /\ opts \in Sessions /\ toServer = << >> /\ toClient = << >>
  BY DEF Init
<1>5. toServer \in Seq(Commands) /\ toClient \in Seq(ReplyLine) /\ NoFalseLetting
  BY <1>4 DEF NoFalseLetting
<1> QED
  BY <1>1, <1>2, <1>3, <1>4, <1>5 DEF AuthInv, Shapes, AuthBeforeMail

LEMMA AuthStep ==
  ASSUME AuthInv, [Next]_vars
  PROVE  AuthInv'
<1>1. CASE Client
  BY <1>1, ClientStep
<1>2. CASE Server
  BY <1>2, ServerStep
<1>3. CASE UNCHANGED vars
  BY <1>3 DEF vars, AuthInv, Shapes, NoFalseLetting, AuthBeforeMail, Tried
<1> QED
  BY <1>1, <1>2, <1>3 DEF Next

(* Whatever the server announces, however late or short its replies and    *)
(* whatever they are taken for, a client that tries to authenticate names  *)
(* no sender before the server has let it in (smtp.c:1531-1740).           *)
THEOREM AuthComesFirst == Spec => []AuthBeforeMail
<1>1. AuthInv => AuthBeforeMail
  BY DEF AuthInv
<1> QED
  BY <1>1, AuthStart, AuthStep, PTL DEF Spec

-----------------------------------------------------------------------------
(* The dialogue.  Where the client is: in the greeting, in the dialogue    *)
(* before the mail, where it names recipients; and where it reads the      *)
(* reply to what it wrote last, or the rest of a reply.                    *)
Opening   == {"connect", "rawssl", "greeting", "greetingMore", "greetingSkip"}
Dialogue  == {"helo", "heloReply", "caps", "starttls", "tlsReply", "handshake", "auth",
              "digest", "digestReply", "username", "usernameReply", "password",
              "passwordReply", "mail", "mailReply"} \cup Mechs
Naming    == {"rcpt", "rcptReply"}
Replied   == {"greeting", "heloReply", "tlsReply", "digestReply", "usernameReply",
              "passwordReply", "mailReply", "rcptReply", "resetReply", "dataReply",
              "textReply", "quitReply"} \cup Mechs
Following == {"greetingMore", "greetingSkip", "caps", "textSkip"}

(* What a step of the client that reads, writes, does neither, or makes a  *)
(* connection does to its place, and to the recipients it has named.       *)
ReadMove(r) ==
  /\ Took /\ c.pc \in Replied \cup Following /\ c'.pc \notin Replied
  /\ c'.pc \in Following => r.sep = "-"
  /\ \/ c'.pc = "done" /\ c'.rc = -1
     \/ c.pc \in Opening /\ c'.pc \in Opening \cap Following /\ r.rc = 0
     \/ c.pc \in Opening /\ c'.pc = "helo" /\ r.rc = 0 /\ r.sep # "-"
     \/ c.pc \in Dialogue /\ c'.pc \in Dialogue
     \/ c.pc = "mailReply" /\ c'.pc = "rcpt"
     \/ c.pc = "rcptReply" /\ c'.pc = "rcpt" /\ (r.rc = 0 => r.code = 250)
     \/ c.pc = "rcptReply" /\ c'.pc = "reset"
     \/ c.pc = "dataReply" /\ c'.pc = "text" /\ (r.rc = 0 => r.code = 354)
     \/ c.pc = "textReply" /\ c'.pc = "quit" /\ r.code = 250
     \/ c.pc \in {"textReply", "textSkip"} /\ c'.pc = "textSkip"
     \/ c.pc = "quitReply" /\ c'.pc = "done" /\ c'.rc = c.rc

WriteMove(command) ==
  /\ Puts(command) /\ c'.pc \in Replied \ Opening
  /\ \/ /\ c.pc \in Dialogue /\ c'.pc \in Dialogue /\ c'.rcpt = c.rcpt
        /\ command \notin {"RCPT", "DATA", "TEXT"}
     \/ /\ c.pc = "rcpt" /\ c'.pc = "rcptReply" /\ command = "RCPT"
        /\ c.rcpt < Rcpts /\ c'.rcpt = c.rcpt + 1
     \/ /\ c.pc = "rcpt" /\ c'.pc = "dataReply" /\ command = "DATA"
        /\ c.rcpt >= Rcpts /\ c'.rcpt = c.rcpt
     \/ /\ c.pc = "reset" /\ c'.pc = "resetReply" /\ command = "RSET" /\ c'.rcpt = c.rcpt
     \/ /\ c.pc = "text" /\ c'.pc = "textReply" /\ command = "TEXT" /\ c'.rcpt = c.rcpt
     \/ /\ c.pc = "quit" /\ c'.pc = "quitReply" /\ command = "QUIT" /\ c'.rcpt = c.rcpt

LocalMove ==
  /\ Local /\ c'.rcpt = c.rcpt /\ c.pc # "connect"
  /\ \/ c'.pc = "done" /\ (c'.rc = -1 \/ ~opts.openssl)
     \/ c.pc = "auth" /\ c'.pc = "exit"
     \/ c.pc \in Dialogue /\ c'.pc \in Dialogue \ (Replied \cup Following)
     \/ c.pc = "rawssl" /\ c'.pc = "greeting" /\ ~opts.openssl

ConnectMove ==
  /\ UNCHANGED <<opts, toServer, toClient>> /\ c'.rcpt = c.rcpt
  /\ \/ /\ c.pc = "connect" /\ conn' = "open" /\ s' = s
        /\ c'.pc = IF opts.ssl THEN "rawssl" ELSE "greeting"
     \/ /\ conn = "open" /\ conn' = conn /\ s.state = "tls"
        /\ toServer = << >> /\ toClient = << >>
        /\ \/ c.pc = "rawssl" /\ s' = In("new") /\ c'.pc = "greeting"
           \/ c.pc = "handshake" /\ s' = In("start") /\ c'.pc = "helo"
     \/ /\ c.pc = "connect" /\ conn' = "closed" /\ s' = s
        /\ c'.pc = "done" /\ c'.rc = -1
     \/ /\ conn' = conn /\ s' = s
        /\ \/ c.pc = "rawssl" /\ c'.pc = "greeting"
           \/ c.pc = "handshake" /\ c'.pc = "auth"

(* The lines counted and the capabilities collected, by all of them.       *)
Collects(caps) ==
  /\ c'.lines <= MaxLines
  /\ c'.pc = "caps" => c'.lines < MaxLines
  /\ c'.caps = c.caps \/ (c.pc = "caps" /\ c'.caps = c.caps \cup caps)

Moves ==
  \/ \E r \in Answer(c.pc) : ReadMove(r) /\ c'.rcpt = c.rcpt /\ Collects(r.cap)
  \/ Collects({}) /\ \E command \in Commands : WriteMove(command)
  \/ Collects({}) /\ LocalMove
  \/ Collects({}) /\ ConnectMove

Within ==
  /\ c.lines <= MaxLines /\ c.caps \subseteq Caps
  /\ c.pc = "caps" => c.lines < MaxLines

LEMMA FieldsKept ==
  ASSUME AuthInv, NEW r \in Parts, NEW pc
  PROVE  /\ At(pc).pc = pc /\ At(pc).rc = c.rc /\ At(pc).lines = c.lines
         /\ At(pc).caps = c.caps /\ At(pc).rcpt = c.rcpt
         /\ Reads(pc, r).pc = pc /\ Reads(pc, r).rc = r.rc /\ Reads(pc, r).lines = 0
         /\ Reads(pc, r).caps = c.caps /\ Reads(pc, r).rcpt = c.rcpt
         /\ Again(r).pc = c.pc /\ Again(r).rc = c.rc /\ Again(r).lines = c.lines + 1
         /\ Again(r).caps = c.caps /\ Again(r).rcpt = c.rcpt
         /\ Ends(-1).pc = "done" /\ Ends(-1).rc = -1 /\ Ends(-1).lines = c.lines
         /\ Ends(-1).caps = c.caps /\ Ends(-1).rcpt = c.rcpt
         /\ Ends(c.rc).pc = "done" /\ Ends(c.rc).rc = c.rc /\ Ends(c.rc).lines = c.lines
         /\ Ends(c.rc).caps = c.caps /\ Ends(c.rc).rcpt = c.rcpt
<1>1. c \in Clients
  BY DEF AuthInv, Shapes
<1> QED
  BY <1>1 DEF At, Reads, Again, Ends, Clients

(* A reply that was read has a code; one that was not has none.            *)
LEMMA RcOfAnswer ==
  ASSUME AuthInv, NEW r \in Answer(c.pc)
  PROVE  /\ r \in Parts /\ r.rc \in {-1, 0} /\ r.sep \in {" ", "-"}
         /\ r.rc < 0 => r.code = -1
         /\ r.rc >= 0 => r.rc = 0
         /\ \A code \in Nat : r.code = code => r.rc = 0
<1>1. r \in Parts
  BY AnswerShape
<1>2. PICK l : r = Parsed(l)
  BY DEF Answer
<1>3. r.rc \in {-1, 0}
  BY <1>1 DEF Parts, Rcs
<1>7. r.sep \in {" ", "-"}
  BY <1>1 DEF Parts, Seps
<1>4. r.rc >= 0 => r.rc = 0
  BY <1>3
<1>5. r.rc < 0 => r.code = -1
  <2>1. CASE l = Bare
    BY <1>2, <2>1 DEF Parsed
  <2>2. CASE l # Bare
    <3>1. r.rc = 0
      BY <1>2, <2>2 DEF Parsed
    <3> QED
      BY <3>1
  <2> QED
    BY <2>1, <2>2
<1>6. \A code \in Nat : r.code = code => r.rc = 0
  BY <1>3, <1>4, <1>5
<1> QED
  BY <1>1, <1>3, <1>4, <1>5, <1>6, <1>7

LEMMA LimitAssumption == MaxLines \in Nat /\ MaxLines >= 1 /\ Rcpts \in Nat /\ Rcpts >= 1
BY ParameterAssumption

(* Only the answer to EHLO or HELO sets what the greeting may say.         *)
SameMove(x) ==
  /\ c'.pc = x.pc /\ c'.rc = x.rc /\ c'.lines = x.lines /\ c'.caps = x.caps
  /\ c'.rcpt = x.rcpt

LEMMA FlagMove ==
  ASSUME NEW x \in Clients, NEW flag, c' = x \/ c' = [x EXCEPT !.esmtp = flag]
  PROVE  SameMove(x)
BY DEF SameMove, Clients

(* Reading the greeting, HELO and what the server can do.                  *)
LEMMA OpeningMoves ==
  ASSUME AuthInv, Within, ReadGreeting \/ ReadGreetingMore \/ ReadGreetingSkip
  PROVE  Moves
<1>1. ASSUME NEW r \in Answer(c.pc), Took,
             c.pc \in {"greeting", "greetingMore", "greetingSkip"},
             NEW x \in Clients, NEW flag, c' = x \/ c' = [x EXCEPT !.esmtp = flag],
             \/ x = Ends(-1)
             \/ Follows(r) /\ c.pc # "greeting" /\ x = Again(r)
             \/ r.sep = "-" /\ r.rc = 0 /\ x = Reads("greetingSkip", r)
             \/ r.sep = "-" /\ r.rc = 0 /\ x = Reads("greetingMore", r)
             \/ r.sep # "-" /\ r.rc = 0 /\ x = Reads("helo", r)
      PROVE  Moves
  <2>1. r \in Parts /\ SameMove(x)
    BY <1>1, RcOfAnswer, FlagMove
  <2>2. /\ c'.rcpt = c.rcpt /\ c'.caps = c.caps
        /\ c'.lines = c.lines \/ c'.lines = 0 \/ (c'.lines = c.lines + 1 /\ Follows(r))
        /\ \/ c'.pc = "done" /\ c'.rc = -1
           \/ r.sep = "-" /\ r.rc = 0 /\ c'.pc \in {"greetingSkip", "greetingMore"}
           \/ r.sep # "-" /\ r.rc = 0 /\ c'.pc = "helo"
    <3>1. CASE x = Ends(-1)
      BY <2>1, <3>1, FieldsKept DEF SameMove
    <3>2. CASE Follows(r) /\ c.pc # "greeting" /\ x = Again(r)
      BY <1>1, <2>1, <3>2, FieldsKept DEF SameMove, Follows
    <3>3. CASE r.sep = "-" /\ r.rc = 0 /\ x = Reads("greetingSkip", r)
      BY <2>1, <3>3, FieldsKept DEF SameMove
    <3>4. CASE r.sep = "-" /\ r.rc = 0 /\ x = Reads("greetingMore", r)
      BY <2>1, <3>4, FieldsKept DEF SameMove
    <3>5. CASE r.sep # "-" /\ r.rc = 0 /\ x = Reads("helo", r)
      BY <2>1, <3>5, FieldsKept DEF SameMove
    <3> QED
      BY <1>1, <3>1, <3>2, <3>3, <3>4, <3>5
  <2>3. Collects(r.cap)
    BY <2>2, LimitAssumption, FieldsOfClient DEF Collects, Within, Follows
  <2>4. ReadMove(r)
    BY <1>1, <2>2 DEF ReadMove, Replied, Following, Opening, Mechs
  <2> QED
    BY <1>1, <2>2, <2>3, <2>4 DEF Moves
<1>2. \A pc \in Places, r \in Parts : Reads(pc, r) \in Clients
  BY ReadsShape
<1>3. "greetingSkip" \in Places /\ "greetingMore" \in Places /\ "helo" \in Places
  BY DEF Places
<1>4. CASE ReadGreeting
  <2>1. PICK r \in Answer("greeting") :
          /\ Took
          /\ \/ c' = Ends(-1)
             \/ r.sep = "-" /\ r.rc = 0 /\ c' = Reads("greetingSkip", r)
             \/ r.code = 220 /\ r.sep = "-"
                /\ c' = [Reads("greetingMore", r) EXCEPT !.esmtp = opts.esmtp \/ "ESMTP" \in r.cap]
             \/ r.code = 220 /\ r.sep # "-"
                /\ c' = [Reads("helo", r) EXCEPT !.esmtp = opts.esmtp \/ "ESMTP" \in r.cap]
    BY <1>4 DEF ReadGreeting
  <2>2. c.pc = "greeting" /\ r \in Parts /\ (r.code = 220 => r.rc = 0)
    <3>1. c.pc = "greeting"
      BY DEF Answer
    <3>2. 220 \in Nat
      OBVIOUS
    <3> QED
      BY <3>1, <3>2, RcOfAnswer
  <2> QED
    BY <1>1, <1>2, <1>3, <2>1, <2>2, EndsShape
<1>5. CASE ReadGreetingMore
  <2>1. PICK r \in Answer("greetingMore") :
          /\ Took
          /\ \/ Follows(r)
                /\ c' = [Again(r) EXCEPT !.esmtp = Again(r).esmtp \/ "ESMTP" \in r.cap]
             \/ c' = Ends(-1)
             \/ r.rc = 0 /\ r.sep # "-"
                /\ c' = [Reads("helo", r) EXCEPT
                           !.esmtp = Reads("helo", r).esmtp \/ "ESMTP" \in r.cap]
    <3>1. PICK r \in Answer("greetingMore") :
            /\ Took
            /\ c' = IF Follows(r)
                    THEN [Again(r) EXCEPT !.esmtp = Again(r).esmtp \/ "ESMTP" \in r.cap]
                    ELSE IF r.rc < 0 \/ c.lines + 1 >= MaxLines THEN Ends(-1)
                    ELSE [Reads("helo", r) EXCEPT
                            !.esmtp = Reads("helo", r).esmtp \/ "ESMTP" \in r.cap]
      BY <1>5 DEF ReadGreetingMore
    <3>2. r.rc < 0 \/ r.rc = 0
      BY AnswerShape DEF Parts, Rcs
    <3>3. c.lines + 1 >= MaxLines \/ c.lines + 1 < MaxLines
      BY LimitAssumption DEF AuthInv, Shapes, Clients
    <3>4. ~Follows(r) /\ r.rc = 0 /\ c.lines + 1 < MaxLines => r.sep # "-"
      BY DEF Follows
    <3> QED
      BY <3>1, <3>2, <3>3, <3>4
  <2>2. c.pc = "greetingMore" /\ r \in Parts
    <3>1. c.pc = "greetingMore"
      BY DEF Answer
    <3> QED
      BY <3>1, RcOfAnswer
  <2>3. Again(r) \in Clients
    BY <1>3, <2>2, ReadsShape
  <2> QED
    BY <1>1, <1>2, <1>3, <2>1, <2>2, <2>3, EndsShape
<1>6. CASE ReadGreetingSkip
  <2>1. PICK r \in Answer("greetingSkip") :
          Took /\ (c' = Ends(-1) \/ (Follows(r) /\ c' = Again(r)))
    BY <1>6 DEF ReadGreetingSkip
  <2>2. c.pc = "greetingSkip" /\ r \in Parts
    <3>1. c.pc = "greetingSkip"
      BY DEF Answer
    <3> QED
      BY <3>1, RcOfAnswer
  <2>3. Again(r) \in Clients
    BY <1>3, <2>2, ReadsShape
  <2> QED
    BY <1>1, <2>1, <2>2, <2>3, EndsShape
<1> QED
  BY <1>4, <1>5, <1>6

(* A reply that is read, and what the client does of it: it goes on, or    *)
(* the session ends.                                                       *)
LEMMA HeloMoves ==
  ASSUME AuthInv, Within, SayHelo \/ ReadHelo \/ ReadCaps
  PROVE  Moves
<1>1. c \in Clients /\ MaxLines \in Nat /\ MaxLines >= 1 /\ c.lines \in Nat
  BY LimitAssumption DEF AuthInv, Shapes, Clients
<1>2. AfterHelo \in {"auth", "starttls"}
  BY DEF AfterHelo
<1>3. CASE SayHelo
  <2>1. PICK command \in {"EHLO", "HELO"} : Puts(command)
    BY <1>3 DEF SayHelo
  <2>2. c.pc = "helo" /\ c' = At("heloReply")
    BY <1>3 DEF SayHelo
  <2>3. /\ c'.pc = "heloReply" /\ c'.lines = c.lines /\ c'.caps = c.caps
        /\ c'.rcpt = c.rcpt
    BY <1>1, <2>2 DEF At, Clients
  <2>4. Collects({})
    BY <2>3 DEF Collects, Within
  <2>5. command \in Commands /\ WriteMove(command)
    BY <2>1, <2>2, <2>3 DEF WriteMove, Commands, Replied, Opening, Dialogue
  <2> QED
    BY <2>4, <2>5 DEF Moves
<1>4. CASE ReadHelo
  <2>1. PICK r \in Answer("heloReply") :
          /\ Took
          /\ \/ r.code # 250 /\ c' = [At(AfterHelo) EXCEPT !.sep = r.sep]
             \/ r.code = 250 /\ r.sep = "-"
                /\ c' = [At("caps") EXCEPT !.sep = r.sep, !.lines = 0]
             \/ r.code = 250 /\ r.sep # "-" /\ c' = [At(AfterHelo) EXCEPT !.sep = " "]
    BY <1>4 DEF ReadHelo
  <2>2. c.pc = "heloReply"
    BY DEF Answer
  <2>3. /\ c'.caps = c.caps /\ c'.rcpt = c.rcpt
        /\ \/ c'.pc = AfterHelo /\ c'.lines = c.lines
           \/ c'.pc = "caps" /\ r.sep = "-" /\ c'.lines = 0
    <3>1. CASE \E sep : c' = [At(AfterHelo) EXCEPT !.sep = sep]
      BY <1>1, <3>1 DEF At, Clients
    <3>2. CASE r.sep = "-" /\ c' = [At("caps") EXCEPT !.sep = r.sep, !.lines = 0]
      BY <1>1, <3>2 DEF At, Clients
    <3> QED
      BY <2>1, <3>1, <3>2
  <2>4. Collects(r.cap)
    BY <1>1, <1>2, <2>3 DEF Collects, Within
  <2>5. ReadMove(r)
    BY <1>2, <2>1, <2>2, <2>3 DEF ReadMove, Replied, Following, Dialogue, Mechs
  <2> QED
    BY <2>1, <2>2, <2>3, <2>4, <2>5 DEF Moves
<1>5. CASE ReadCaps
  <2>1. PICK r \in Answer("caps") :
          /\ Took
          /\ \E sep : c' = [c EXCEPT !.pc = IF Follows(r) THEN "caps" ELSE AfterHelo,
                                     !.sep = sep, !.lines = @ + 1, !.caps = @ \cup r.cap]
    BY <1>5 DEF ReadCaps
  <2>2. c.pc = "caps"
    BY DEF Answer
  <2>3. /\ c'.caps = c.caps \cup r.cap /\ c'.rcpt = c.rcpt /\ c'.lines = c.lines + 1
        /\ c'.pc = IF Follows(r) THEN "caps" ELSE AfterHelo
    BY <1>1, <2>1 DEF Clients
  <2>4. Collects(r.cap)
    BY <1>1, <1>2, <2>2, <2>3 DEF Collects, Within, Follows
  <2>5. ReadMove(r)
    BY <1>2, <2>1, <2>2, <2>3 DEF ReadMove, Replied, Following, Dialogue, Mechs, Follows
  <2> QED
    BY <2>1, <2>2, <2>3, <2>4, <2>5 DEF Moves
<1> QED
  BY <1>3, <1>4, <1>5

LEMMA TlsMoves ==
  ASSUME AuthInv, Within, Connect \/ RawSsl \/ StartTls \/ ReadTls \/ TlsHandshake
  PROVE  Moves
<1>1. c \in Clients /\ MaxLines \in Nat /\ c.lines \in Nat
  BY LimitAssumption DEF AuthInv, Shapes, Clients
<1>2. ASSUME c'.lines = c.lines \/ c'.lines = 0, c'.caps = c.caps, c'.pc # "caps", NEW cap
      PROVE  Collects(cap)
  BY <1>1, <1>2, LimitAssumption DEF Collects, Within
<1>3. \A pc : /\ At(pc).pc = pc /\ At(pc).caps = c.caps /\ At(pc).lines = c.lines
              /\ At(pc).rcpt = c.rcpt
  BY <1>1 DEF At, Clients
<1>4. /\ Ends(-1).pc = "done" /\ Ends(-1).rc = -1 /\ Ends(-1).caps = c.caps
      /\ Ends(-1).lines = c.lines /\ Ends(-1).rcpt = c.rcpt
  BY <1>1 DEF Ends, Clients
<1>5. CASE Connect
  <2>1. /\ UNCHANGED <<opts, s, toServer, toClient>> /\ c.pc = "connect"
        /\ \/ conn' = "open" /\ c' = At(IF opts.ssl THEN "rawssl" ELSE "greeting")
           \/ conn' = "closed" /\ c' = Ends(-1)
    BY <1>5 DEF Connect
  <2>2. ConnectMove /\ c'.caps = c.caps /\ c'.lines = c.lines /\ c'.pc # "caps"
    BY <1>3, <1>4, <2>1 DEF ConnectMove
  <2> QED
    BY <1>2, <2>2 DEF Moves
<1>6. CASE RawSsl
  <2>1. c.pc = "rawssl"
    BY <1>6 DEF RawSsl
  <2>2. CASE ~opts.openssl
    <3>1. c' = At("greeting") /\ Local
      BY <1>6, <2>2 DEF RawSsl
    <3>2. LocalMove
      BY <1>3, <2>1, <2>2, <3>1 DEF LocalMove
    <3>3. Collects({})
      BY <1>2, <1>3, <3>1
    <3> QED
      BY <3>2, <3>3 DEF Moves
  <2>3. CASE opts.openssl
    <3>1. Handshake([At("greeting") EXCEPT !.ssl = TRUE], At("greeting"))
      BY <1>6, <2>3 DEF RawSsl
    <3>2. c' = At("greeting") \/ c' = [At("greeting") EXCEPT !.ssl = TRUE]
      BY <3>1 DEF Handshake
    <3>3. c'.pc = "greeting" /\ c'.caps = c.caps /\ c'.lines = c.lines /\ c'.rcpt = c.rcpt
      BY <1>1, <3>2 DEF At, Clients
    <3>4. ConnectMove
      BY <2>1, <3>1, <3>3 DEF ConnectMove, Handshake, Local, In
    <3>5. Collects({})
      BY <1>2, <3>3
    <3> QED
      BY <3>4, <3>5 DEF Moves
  <2> QED
    BY <2>2, <2>3
<1>7. CASE StartTls
  <2>1. CASE Puts("STARTTLS") /\ c' = At("tlsReply")
    <3>1. WriteMove("STARTTLS") /\ "STARTTLS" \in Commands
      BY <1>3, <1>7, <2>1 DEF StartTls, WriteMove, Commands, Replied, Opening, Dialogue
    <3>2. Collects({})
      BY <1>2, <1>3, <2>1
    <3> QED
      BY <3>1, <3>2 DEF Moves
  <2>2. CASE Local /\ c' = At("auth")
    <3>1. LocalMove
      BY <1>3, <1>7, <2>2 DEF StartTls, LocalMove, Replied, Following, Dialogue, Mechs
    <3>2. Collects({})
      BY <1>2, <1>3, <2>2
    <3> QED
      BY <3>1, <3>2 DEF Moves
  <2> QED
    BY <1>7, <2>1, <2>2 DEF StartTls
<1>8. CASE ReadTls
  <2>1. PICK r \in Answer("tlsReply") :
          Took /\ (c' = Reads("handshake", r) \/ c' = [Reads("auth", r) EXCEPT !.rc = -1])
    BY <1>8 DEF ReadTls
  <2>2. c.pc = "tlsReply"
    BY DEF Answer
  <2>3. /\ c'.pc \in {"handshake", "auth"} /\ c'.caps = c.caps /\ c'.lines = 0
        /\ c'.rcpt = c.rcpt
    BY <1>1, <2>1 DEF Reads, Clients
  <2>4. ReadMove(r)
    BY <2>1, <2>2, <2>3 DEF ReadMove, Replied, Following, Dialogue, Mechs
  <2>5. Collects(r.cap)
    BY <1>2, <2>3
  <2> QED
    BY <2>1, <2>2, <2>3, <2>4, <2>5 DEF Moves
<1>9. CASE TlsHandshake
  <2>1. /\ c.pc = "handshake"
        /\ Handshake([At("helo") EXCEPT !.ssl = TRUE, !.again = TRUE, !.rc = 0],
                     [At("auth") EXCEPT !.rc = -1])
    BY <1>9 DEF TlsHandshake
  <2>2. \A pc : /\ [At(pc) EXCEPT !.ssl = TRUE, !.again = TRUE, !.rc = 0].pc = pc
                /\ [At(pc) EXCEPT !.ssl = TRUE, !.again = TRUE, !.rc = 0].caps = c.caps
                /\ [At(pc) EXCEPT !.ssl = TRUE, !.again = TRUE, !.rc = 0].lines = c.lines
                /\ [At(pc) EXCEPT !.ssl = TRUE, !.again = TRUE, !.rc = 0].rcpt = c.rcpt
    BY <1>1 DEF At, Clients
  <2>3. \A pc : /\ [At(pc) EXCEPT !.rc = -1].pc = pc
                /\ [At(pc) EXCEPT !.rc = -1].caps = c.caps
                /\ [At(pc) EXCEPT !.rc = -1].lines = c.lines
                /\ [At(pc) EXCEPT !.rc = -1].rcpt = c.rcpt
    BY <1>1 DEF At, Clients
  <2> DEFINE ok == [At("helo") EXCEPT !.ssl = TRUE, !.again = TRUE, !.rc = 0]
             failed == [At("auth") EXCEPT !.rc = -1]
  <2>6. /\ ok.pc = "helo" /\ ok.caps = c.caps /\ ok.lines = c.lines /\ ok.rcpt = c.rcpt
        /\ failed.pc = "auth" /\ failed.caps = c.caps /\ failed.lines = c.lines
        /\ failed.rcpt = c.rcpt
    BY <2>2, <2>3
  <2>7. Handshake(ok, failed)
    BY <2>1
  <2> HIDE DEF ok, failed
  <2>4. ConnectMove /\ c'.caps = c.caps /\ c'.lines = c.lines /\ c'.pc # "caps"
    BY <2>1, <2>6, <2>7 DEF ConnectMove, Handshake, Local, In
  <2>5. Collects({})
    BY <1>2, <2>4
  <2> QED
    BY <2>4, <2>5 DEF Moves
<1> QED
  BY <1>5, <1>6, <1>7, <1>8, <1>9

LEMMA MechPlaces ==
  ASSUME AuthInv, NEW m \in Tried
  PROVE  m \in Mechs
<1>1. opts.mechs \subseteq Mechs
  BY ParameterAssumption DEF AuthInv, Shapes, OptionType
<1> QED
  BY <1>1 DEF Tried, Mechs

LEMMA AuthMoves ==
  ASSUME AuthInv, Within, Auth
  PROVE  Moves
<1>1. c \in Clients /\ MaxLines \in Nat /\ c.lines \in Nat
  BY LimitAssumption DEF AuthInv, Shapes, Clients
<1>2. ASSUME c'.lines = c.lines, c'.caps = c.caps, c'.pc # "caps", NEW cap
      PROVE  Collects(cap)
  BY <1>1, <1>2, LimitAssumption DEF Collects, Within
<1>3. \A pc, sep : /\ At(pc).pc = pc /\ At(pc).caps = c.caps /\ At(pc).lines = c.lines
                   /\ At(pc).rcpt = c.rcpt
                   /\ [At(pc) EXCEPT !.sep = sep].pc = pc
                   /\ [At(pc) EXCEPT !.sep = sep].caps = c.caps
                   /\ [At(pc) EXCEPT !.sep = sep].lines = c.lines
                   /\ [At(pc) EXCEPT !.sep = sep].rcpt = c.rcpt
  BY <1>1 DEF At, Clients
<1>4. \A rc : /\ Ends(rc).pc = "done" /\ Ends(rc).rc = rc /\ Ends(rc).caps = c.caps
              /\ Ends(rc).lines = c.lines /\ Ends(rc).rcpt = c.rcpt
  BY <1>1 DEF Ends, Clients
<1>5. ASSUME NoSecret, c.pc \in Dialogue
      PROVE  Moves
  <2>1. Local /\ c' = Ends(-1)
    BY <1>5 DEF NoSecret
  <2>2. LocalMove /\ Collects({})
    BY <1>2, <1>4, <1>5, <2>1 DEF LocalMove, Dialogue, Mechs
  <2> QED
    BY <2>2 DEF Moves
<1>6. ASSUME NEW command \in Commands, NEW next, next # "caps", Puts(command), c' = At(next),
             c.pc \in Dialogue, next \in Dialogue \cap Replied,
             command \notin {"RCPT", "DATA", "TEXT"}
      PROVE  Moves
  <2>1. next \notin Opening
    BY <1>6 DEF Dialogue, Opening, Mechs
  <2>2. WriteMove(command)
    BY <1>3, <1>6, <2>1 DEF WriteMove
  <2>3. Collects({})
    BY <1>2, <1>3, <1>6
  <2> QED
    BY <2>2, <2>3 DEF Moves
<1>7. CASE Authenticate
  <2>1. PICK m \in Tried :
          \/ NoSecret
          \/ ~opts.openssl /\ c' = Ends(c.rc) /\ Local
          \/ Puts(m) /\ c' = At(m)
    BY <1>7 DEF Authenticate
  <2>2. c.pc = "auth" /\ m \in Mechs
    BY <1>7, MechPlaces DEF Authenticate
  <2>3. CASE ~opts.openssl /\ c' = Ends(c.rc) /\ Local
    <3>1. LocalMove
      BY <1>4, <2>2, <2>3 DEF LocalMove
    <3>2. Collects({})
      BY <1>2, <1>4, <2>3
    <3> QED
      BY <3>1, <3>2 DEF Moves
  <2>4. CASE Puts(m) /\ c' = At(m)
    <3>1. /\ m \in Commands /\ m # "caps" /\ c.pc \in Dialogue /\ m \in Dialogue \cap Replied
          /\ m \notin {"RCPT", "DATA", "TEXT"}
      BY <2>2 DEF Commands, Mechs, Dialogue, Replied
    <3> QED
      BY <1>6, <2>4, <3>1
  <2>5. c.pc \in Dialogue
    BY <2>2 DEF Dialogue
  <2> QED
    BY <1>5, <2>1, <2>3, <2>4, <2>5
<1>8. CASE SkipAuth
  <2>1. c.pc = "auth" /\ Local /\ (c' = At("exit") \/ c' = At("mail"))
    BY <1>8 DEF SkipAuth
  <2>2. LocalMove
    BY <1>3, <2>1 DEF LocalMove, Dialogue, Replied, Following, Mechs
  <2>3. Collects({})
    BY <1>2, <1>3, <2>1
  <2> QED
    BY <2>2, <2>3 DEF Moves
<1>9. ASSUME NEW at \in Dialogue \cap Replied, NEW code,
             NEW next \in {"digest", "username", "password", "mail"},
             AuthRound(at, code, next)
      PROVE  Moves
  <2>1. PICK r \in Answer(at) :
          Took /\ (c' = Ends(-1) \/ c' = [At(next) EXCEPT !.sep = r.sep])
    BY <1>9 DEF AuthRound
  <2>2. c.pc = at
    BY DEF Answer
  <2>3. /\ c'.caps = c.caps /\ c'.lines = c.lines /\ c'.rcpt = c.rcpt
        /\ (c'.pc = "done" /\ c'.rc = -1) \/ c'.pc = next
    <3>1. CASE c' = Ends(-1)
      BY <1>4, <3>1
    <3>2. CASE c' = [At(next) EXCEPT !.sep = r.sep]
      BY <1>3, <3>2
    <3> QED
      BY <2>1, <3>1, <3>2
  <2>4. ReadMove(r)
    BY <1>9, <2>1, <2>2, <2>3 DEF ReadMove, Replied, Following, Dialogue, Mechs
  <2>5. Collects(r.cap)
    BY <1>2, <2>3
  <2> QED
    BY <2>2, <2>3, <2>4, <2>5 DEF Moves
<1>10. CASE \/ AuthRound("CRAM-MD5", 334, "digest") \/ AuthRound("digestReply", 235, "mail")
            \/ AuthRound("LOGIN", 334, "username") \/ AuthRound("usernameReply", 334, "password")
            \/ AuthRound("passwordReply", 235, "mail") \/ AuthRound("PLAIN", 235, "mail")
  <2>1. {"CRAM-MD5", "digestReply", "LOGIN", "usernameReply", "passwordReply", "PLAIN"}
          \subseteq Dialogue \cap Replied
    BY DEF Dialogue, Replied, Mechs
  <2> QED
    BY <1>9, <1>10, <2>1
<1>11. ASSUME NEW at \in {"digest", "username", "password"},
              NEW next \in {"digestReply", "usernameReply", "passwordReply"},
              SendSecret(at, next)
       PROVE  Moves
  <2>1. /\ at \in Commands /\ at \in Dialogue /\ next # "caps" /\ next \in Dialogue \cap Replied
        /\ at \notin {"RCPT", "DATA", "TEXT"}
    BY <1>11 DEF Commands, Dialogue, Replied
  <2>2. c.pc = at /\ (NoSecret \/ (Puts(at) /\ c' = At(next)))
    BY <1>11 DEF SendSecret
  <2> QED
    BY <1>5, <1>6, <2>1, <2>2
<1> QED
  BY <1>7, <1>8, <1>10, <1>11 DEF Auth

LEMMA MailMoves ==
  ASSUME AuthInv, Within,
         MailFrom \/ ReadMail \/ RcptTo \/ ReadRcpt \/ Reset \/ ReadReset
         \/ ReadData \/ Text \/ ReadText \/ ReadTextSkip \/ Quit \/ ReadQuit
  PROVE  Moves
<1>1. c \in Clients /\ MaxLines \in Nat /\ c.lines \in Nat /\ c.rcpt \in Nat
  BY LimitAssumption DEF AuthInv, Shapes, Clients
<1>2. ASSUME c'.lines = c.lines \/ c'.lines = 0, c'.caps = c.caps, c'.pc # "caps", NEW cap
      PROVE  Collects(cap)
  BY <1>1, <1>2, LimitAssumption DEF Collects, Within
<1>3. \A pc : /\ At(pc).pc = pc /\ At(pc).caps = c.caps /\ At(pc).lines = c.lines
              /\ At(pc).rcpt = c.rcpt
  BY <1>1 DEF At, Clients
<1>4. \A rc : /\ Ends(rc).pc = "done" /\ Ends(rc).rc = rc /\ Ends(rc).caps = c.caps
              /\ Ends(rc).lines = c.lines /\ Ends(rc).rcpt = c.rcpt
  BY <1>1 DEF Ends, Clients
<1>5. CASE MailFrom \/ RcptTo \/ Reset \/ Quit \/ (Text /\ ~opts.missing)
  <2>1. \/ c.pc = "mail" /\ Puts("MAIL") /\ c' = At("mailReply")
        \/ c.pc = "rcpt" /\ c.rcpt < Rcpts /\ Puts("RCPT")
           /\ c' = [At("rcptReply") EXCEPT !.rcpt = @ + 1]
        \/ c.pc = "rcpt" /\ ~(c.rcpt < Rcpts) /\ Puts("DATA") /\ c' = At("dataReply")
        \/ c.pc = "reset" /\ Puts("RSET") /\ c' = At("resetReply")
        \/ c.pc = "text" /\ Puts("TEXT") /\ c' = At("textReply")
        \/ c.pc = "quit" /\ Puts("QUIT") /\ c' = At("quitReply")
    BY <1>5 DEF MailFrom, RcptTo, Reset, Quit, Text
  <2> DEFINE named == [At("rcptReply") EXCEPT !.rcpt = @ + 1]
  <2>2. /\ named.pc = "rcptReply" /\ named.lines = c.lines /\ named.caps = c.caps
        /\ named.rcpt = c.rcpt + 1
    BY <1>1 DEF At, Clients
  <2>4. c.rcpt < Rcpts \/ c.rcpt >= Rcpts
    BY <1>1, LimitAssumption
  <2>6. CASE c.pc = "rcpt" /\ c.rcpt < Rcpts /\ Puts("RCPT") /\ c' = named
    <3>1. WriteMove("RCPT") /\ "RCPT" \in Commands
      BY <2>2, <2>6 DEF WriteMove, Commands, Replied, Opening
    <3>2. Collects({})
      BY <1>2, <2>2, <2>6
    <3> QED
      BY <3>1, <3>2 DEF Moves
  <2>7. CASE \/ c.pc = "mail" /\ Puts("MAIL") /\ c' = At("mailReply")
             \/ c.pc = "rcpt" /\ ~(c.rcpt < Rcpts) /\ Puts("DATA") /\ c' = At("dataReply")
             \/ c.pc = "reset" /\ Puts("RSET") /\ c' = At("resetReply")
             \/ c.pc = "text" /\ Puts("TEXT") /\ c' = At("textReply")
             \/ c.pc = "quit" /\ Puts("QUIT") /\ c' = At("quitReply")
    <3>1. \E command \in Commands : WriteMove(command)
      BY <1>3, <2>4, <2>7 DEF WriteMove, Commands, Replied, Opening, Dialogue
    <3>2. Collects({})
      BY <1>2, <1>3, <2>7
    <3> QED
      BY <3>1, <3>2 DEF Moves
  <2> QED
    BY <2>1, <2>6, <2>7
<1>6. CASE Text /\ opts.missing
  <2>1. c.pc = "text" /\ Local /\ c' = Ends(-1)
    BY <1>6 DEF Text
  <2>2. LocalMove /\ Collects({})
    BY <1>2, <1>4, <2>1 DEF LocalMove
  <2> QED
    BY <2>2 DEF Moves
<1>7. ASSUME NEW at \in (Replied \cup Following) \ {"caps"}, NEW r \in Answer(at), Took, NEW next,
             next \notin Replied \cup {"caps"}, next \in Following => r.sep = "-",
             \/ c' = Ends(-1)
             \/ c' = Reads(next, r)
                /\ \/ at = "mailReply" /\ next = "rcpt"
                   \/ at = "rcptReply" /\ next = "rcpt" /\ (r.rc = 0 => r.code = 250)
                   \/ at = "rcptReply" /\ next = "reset"
                   \/ at = "dataReply" /\ next = "text" /\ (r.rc = 0 => r.code = 354)
                   \/ at = "textReply" /\ next = "quit" /\ r.code = 250
                   \/ at = "textReply" /\ next = "textSkip"
             \/ at = "textSkip" /\ Follows(r) /\ c' = Again(r)
             \/ at = "quitReply" /\ c' = Ends(c.rc)
      PROVE  Moves
  <2>1. c.pc = at /\ r \in Parts
    BY <1>7, AnswerShape
  <2>2. /\ Reads(next, r).pc = next /\ Reads(next, r).caps = c.caps
        /\ Reads(next, r).lines = 0 /\ Reads(next, r).rcpt = c.rcpt
        /\ Again(r).pc = c.pc /\ Again(r).caps = c.caps
        /\ Again(r).lines = c.lines + 1 /\ Again(r).rcpt = c.rcpt
    BY <1>1 DEF Reads, Again, Clients
  <2>3. c'.rcpt = c.rcpt /\ c'.caps = c.caps
    BY <1>4, <1>7, <2>2
  <2>4. Collects(r.cap)
    <3>1. CASE at = "textSkip" /\ Follows(r) /\ c' = Again(r)
      BY <1>1, <2>1, <2>2, <3>1 DEF Collects, Follows
    <3>2. CASE c' = Ends(-1) \/ c' = Ends(c.rc) \/ c' = Reads(next, r)
      BY <1>2, <1>4, <1>7, <2>2, <3>2
    <3> QED
      BY <1>7, <3>1, <3>2
  <2>5. ReadMove(r)
    <3>1. /\ "done" \notin Replied \cup Following /\ "textSkip" \notin Replied
      BY DEF Replied, Following, Mechs
    <3>2. CASE c' = Ends(-1) \/ (at = "quitReply" /\ c' = Ends(c.rc))
      BY <1>4, <1>7, <2>1, <3>1, <3>2 DEF ReadMove
    <3>3. CASE at = "textSkip" /\ Follows(r) /\ c' = Again(r)
      BY <1>7, <2>1, <2>2, <3>1, <3>3 DEF ReadMove, Follows
    <3>4. CASE c' = Reads(next, r) /\ c' # Ends(-1) /\ at # "textSkip" /\ at # "quitReply"
      BY <1>7, <2>1, <2>2, <3>1, <3>4 DEF ReadMove
    <3> QED
      BY <1>7, <3>2, <3>3, <3>4
  <2> QED
    BY <2>1, <2>3, <2>4, <2>5 DEF Moves
<1>8. /\ {"mailReply", "rcptReply", "resetReply", "dataReply", "textReply", "quitReply",
          "textSkip"} \subseteq (Replied \cup Following) \ {"caps"}
      /\ {"rcpt", "reset", "text", "quit"} \cap (Replied \cup Following \cup {"caps"}) = {}
      /\ "textSkip" \notin Replied \cup {"caps"}
  BY DEF Replied, Following, Mechs
<1>9. CASE ReadMail
  <2>1. PICK r \in Answer("mailReply") : Took /\ (c' = Ends(-1) \/ c' = Reads("rcpt", r))
    BY <1>9 DEF ReadMail
  <2> QED
    BY <1>7, <1>8, <2>1
<1>10. CASE ReadRcpt
  <2>1. PICK r \in Answer("rcptReply") :
          /\ Took
          /\ \/ c' = Reads("reset", r)
             \/ c' = Reads("rcpt", r) /\ (r.rc = 0 => r.code = 250)
    BY <1>10 DEF ReadRcpt
  <2> QED
    BY <1>7, <1>8, <2>1
<1>11. CASE ReadReset
  <2>1. PICK r \in Answer("resetReply") : Took /\ c' = Ends(-1)
    BY <1>11 DEF ReadReset
  <2> QED
    BY <1>7, <1>8, <2>1
<1>12. CASE ReadData
  <2>1. PICK r \in Answer("dataReply") :
          Took /\ (c' = Ends(-1) \/ (c' = Reads("text", r) /\ (r.rc = 0 => r.code = 354)))
    BY <1>12 DEF ReadData
  <2> QED
    BY <1>7, <1>8, <2>1
<1>13. CASE ReadText
  <2>1. PICK r \in Answer("textReply") :
          /\ Took
          /\ \/ c' = Reads("quit", r) /\ r.code = 250
             \/ c' = Reads("textSkip", r) /\ r.sep = "-"
             \/ c' = Ends(-1)
    BY <1>13 DEF ReadText
  <2> QED
    BY <1>7, <1>8, <2>1
<1>14. CASE ReadTextSkip
  <2>1. PICK r \in Answer("textSkip") :
          Took /\ ((Follows(r) /\ c' = Again(r)) \/ c' = Ends(-1))
    BY <1>14 DEF ReadTextSkip
  <2>2. Follows(r) => r.sep = "-"
    BY DEF Follows
  <2> QED
    BY <1>7, <1>8, <2>1, <2>2
<1>15. CASE ReadQuit
  <2>1. PICK r \in Answer("quitReply") : Took /\ c' = Ends(c.rc)
    BY <1>15 DEF ReadQuit
  <2> QED
    BY <1>7, <1>8, <2>1
<1> QED
  BY <1>5, <1>6, <1>9, <1>10, <1>11, <1>12, <1>13, <1>14, <1>15

LEMMA ClientMoves ==
  ASSUME AuthInv, Within, Client
  PROVE  Moves
BY OpeningMoves, HeloMoves, TlsMoves, AuthMoves, MailMoves DEF Client

-----------------------------------------------------------------------------
(* The two streams.                                                        *)

LEMMA StreamShape ==
  ASSUME AuthInv
  PROVE  /\ toServer \in Seq(Commands) /\ Len(toServer) \in Nat
         /\ toClient \in Seq(ReplyLine) /\ Len(toClient) \in Nat
         /\ toServer = << >> <=> Len(toServer) = 0
         /\ toClient = << >> <=> Len(toClient) = 0
<1>1. toServer \in Seq(Commands) /\ toClient \in Seq(ReplyLine)
  BY DEF AuthInv, Shapes
<1> QED
  BY <1>1, LenProperties, EmptySeq

LEMMA TookShape ==
  ASSUME AuthInv, Took
  PROVE  /\ UNCHANGED <<opts, s, conn, toServer>>
         /\ toClient = << >> => toClient' = << >>
         /\ toClient # << >> =>
              /\ Len(toClient') = Len(toClient) - 1
              /\ \A i \in 1 .. Len(toClient') : toClient'[i] = toClient[i + 1]
<1>1. toClient \in Seq(ReplyLine)
  BY StreamShape
<1> QED
  BY <1>1, HeadTailProperties DEF Took

LEMMA PutsShape ==
  ASSUME AuthInv, NEW command \in Commands, Puts(command)
  PROVE  /\ UNCHANGED <<opts, s, conn, toClient>>
         /\ conn # "open" => toServer' = toServer
         /\ conn = "open" =>
              /\ Len(toServer') = Len(toServer) + 1
              /\ toServer'[Len(toServer) + 1] = command
              /\ \A i \in 1 .. Len(toServer) : toServer'[i] = toServer[i]
<1>1. toServer \in Seq(Commands)
  BY StreamShape
<1>2. CASE conn = "open"
  <2>1. toServer' = Append(toServer, command)
    BY <1>2 DEF Puts
  <2> QED
    BY <1>1, <1>2, <2>1, AppendProperties DEF Puts
<1> QED
  BY <1>2 DEF Puts

(* Every line of a reply has the code of the verdict, or it is bare or     *)
(* what is left of a line.                                                 *)
Broken == opts.bare \/ opts.pieces
IsReply(reply, code, cap) ==
  /\ reply \in Seq(ReplyLine) /\ Len(reply) >= 1 /\ ~reply[Len(reply)].dash
  /\ \A i \in 1 .. Len(reply) :
       /\ reply[i].code = code \/ (reply[i] \in {Bare, Rest} /\ Broken)
       /\ reply[i].cap \subseteq cap

LEMMA LinesAreReply ==
  ASSUME NEW code \in Int, NEW n \in Nat \ {0}, NEW cap \in SomeCaps
  PROVE  /\ IsReply(Lines(code, n, cap), code, cap) /\ Len(Lines(code, n, cap)) = n
         /\ \A i \in 1 .. n : i < n => Lines(code, n, cap)[i].dash
<1> DEFINE reply == Lines(code, n, cap)
<1>1. reply = [i \in 1 .. n |-> Line(code, i < n, IF i = n THEN cap ELSE {})]
  BY DEF Lines
<1>2. reply \in Seq(ReplyLine)
  BY LinesShape
<1> HIDE DEF reply
<1>3. Len(reply) = n
  BY <1>1, <1>2, LenProperties
<1>4. ASSUME NEW i \in 1 .. n
      PROVE  /\ reply[i].code = code /\ reply[i].cap \subseteq cap
             /\ reply[i].dash <=> i < n
  <2>1. reply[i] = Line(code, i < n, IF i = n THEN cap ELSE {})
    BY <1>1
  <2>2. reply[i].dash = (i < n)
    BY <2>1 DEF Line
  <2>3. reply[i].code = code /\ reply[i].cap \subseteq cap
    BY <2>1 DEF Line
  <2> QED
    BY <2>2, <2>3
<1>5. ~reply[n].dash
  <2>1. n \in 1 .. n /\ ~(n < n)
    OBVIOUS
  <2> QED
    BY <1>4, <2>1
<1>6. \A i \in 1 .. n : i < n => reply[i].dash
  BY <1>4
<1>7. IsReply(reply, code, cap)
  BY <1>2, <1>3, <1>4, <1>5 DEF IsReply
<1> QED
  BY <1>3, <1>6, <1>7 DEF reply

LEMMA BrokenIsReply ==
  ASSUME NEW code, NEW cap, Broken
  PROVE  IsReply(<<Bare>>, code, cap) /\ IsReply(<<Bare, Rest>>, code, cap)
<1>1. <<Bare>> \in Seq(ReplyLine) /\ Len(<<Bare>>) = 1 /\ <<Bare>>[1] = Bare
  BY BareShape
<1>2. /\ <<Bare, Rest>> \in Seq(ReplyLine) /\ Len(<<Bare, Rest>>) = 2
      /\ <<Bare, Rest>>[1] = Bare /\ <<Bare, Rest>>[2] = Rest
  BY BareShape, RestShape
<1>3. ~Bare.dash /\ Bare.cap = {} /\ ~Rest.dash /\ Rest.cap = {}
  BY RestShape DEF Bare, Line
<1>4. IsReply(<<Bare>>, code, cap)
  BY <1>1, <1>3 DEF IsReply
<1>5. \A i \in 1 .. 2 : i = 1 \/ i = 2
  OBVIOUS
<1>6. IsReply(<<Bare, Rest>>, code, cap)
  BY <1>2, <1>3, <1>5 DEF IsReply
<1> QED
  BY <1>4, <1>6

LEMMA JoinShape ==
  ASSUME AuthInv, NEW reply \in Seq(ReplyLine), toClient' = toClient \o reply
  PROVE  /\ Len(toClient') = Len(toClient) + Len(reply)
         /\ \A i \in 1 .. Len(toClient) : toClient'[i] = toClient[i]
         /\ \A i \in 1 .. Len(reply) : toClient'[Len(toClient) + i] = reply[i]
         /\ \A i \in 1 .. Len(toClient') :
              i \in 1 .. Len(toClient) \/ \E j \in 1 .. Len(reply) : i = Len(toClient) + j
<1>1. toClient \in Seq(ReplyLine) /\ Len(toClient) \in Nat /\ Len(reply) \in Nat
  BY StreamShape, LenProperties
<1>2. /\ Len(toClient') = Len(toClient) + Len(reply)
      /\ \A i \in 1 .. Len(toClient) + Len(reply) :
           toClient'[i] = IF i <= Len(toClient) THEN toClient[i]
                          ELSE reply[i - Len(toClient)]
  BY <1>1, ConcatProperties
<1>3. \A i \in 1 .. Len(toClient) : toClient'[i] = toClient[i]
  BY <1>1, <1>2
<1>4. ASSUME NEW i \in 1 .. Len(reply)
      PROVE  toClient'[Len(toClient) + i] = reply[i]
  <2>1. /\ Len(toClient) + i \in 1 .. Len(toClient) + Len(reply)
        /\ ~(Len(toClient) + i <= Len(toClient)) /\ (Len(toClient) + i) - Len(toClient) = i
    BY <1>1
  <2> QED
    BY <1>2, <2>1
<1>5. ASSUME NEW i \in 1 .. Len(toClient')
      PROVE  i \in 1 .. Len(toClient) \/ \E j \in 1 .. Len(reply) : i = Len(toClient) + j
  <2>1. CASE i <= Len(toClient)
    BY <1>1, <2>1
  <2>2. CASE i > Len(toClient)
    <3>1. i - Len(toClient) \in 1 .. Len(reply) /\ i = Len(toClient) + (i - Len(toClient))
      BY <1>1, <1>2, <2>2
    <3> QED
      BY <3>1
  <2> QED
    BY <1>1, <2>1, <2>2
<1> QED
  BY <1>2, <1>3, <1>4, <1>5

(* A verdict of the server, for what the dialogue makes of it.             *)
IsVerdict(command, v) ==
  /\ v.code \in Nat /\ v.cap \subseteq Caps /\ v.s.state # "new"
  /\ v.code = 354 => command = "DATA" /\ v.s.state = "data"
  /\ command # "RCPT" => v.s.heard = s.heard /\ v.s.accepted = s.accepted
  /\ command = "RCPT" =>
       /\ v.s.heard = s.heard + 1
       /\ \/ v.code = 250 /\ v.s.accepted = s.accepted \cup {s.heard + 1}
          \/ v.code \in {550, 503} /\ v.s.accepted = s.accepted
  /\ s.delivered => v.s.delivered
  /\ command = "TEXT" /\ v.code = 250 => v.s.delivered

LEMMA VerdictMoves ==
  ASSUME AuthInv, s.state # "new", NEW command \in Commands, NEW v \in Verdicts(command)
  PROVE  IsVerdict(command, v)
<1>1. s \in Servers
  BY DEF AuthInv, Shapes
<1>2. ASSUME NEW code \in Nat \ {354}, NEW cap \in SUBSET Caps,
             v = Says(code, cap, s), command \notin {"RCPT", "TEXT"}
      PROVE  IsVerdict(command, v)
  BY <1>2 DEF Says, IsVerdict
<1>3. \A state : In(state).state = state /\ In(state).heard = s.heard
                 /\ In(state).accepted = s.accepted /\ In(state).delivered = s.delivered
  BY <1>1 DEF In, Servers
<1>4. ASSUME NEW code \in Nat, NEW cap \in SUBSET Caps, NEW state, state # "new",
             code = 354 => command = "DATA" /\ state = "data",
             v = Says(code, cap, In(state)), command \notin {"RCPT", "TEXT"}
      PROVE  IsVerdict(command, v)
  <2>1. v.code = code /\ v.cap = cap /\ v.s = In(state)
    BY <1>4 DEF Says
  <2> QED
    BY <1>3, <1>4, <2>1 DEF IsVerdict
<1>5. CASE command = "RCPT"
  <2> DEFINE new == [s EXCEPT !.heard = @ + 1]
             took == [new EXCEPT !.accepted = @ \cup {new.heard}]
  <2>1. v \in {Says(550, {}, new), Says(503, {}, new), Says(250, {}, took)}
    BY <1>5 DEF Verdicts, RcptVerdicts
  <2>2. /\ new.heard = s.heard + 1 /\ new.accepted = s.accepted /\ new.state = s.state
        /\ new.delivered = s.delivered
        /\ took.heard = s.heard + 1 /\ took.accepted = s.accepted \cup {s.heard + 1}
        /\ took.state = s.state /\ took.delivered = s.delivered
    BY <1>1 DEF Servers
  <2> HIDE DEF new, took
  <2>3. \A code, cap, x : Says(code, cap, x).code = code /\ Says(code, cap, x).cap = cap
                          /\ Says(code, cap, x).s = x
    BY DEF Says
  <2> QED
    BY <1>5, <2>1, <2>2, <2>3 DEF IsVerdict
<1>6. CASE command = "TEXT"
  <2> DEFINE new == [In("start") EXCEPT !.delivered = TRUE]
  <2>1. v \in {Says(500, {}, s), Says(250, {}, new), Says(552, {}, In("start"))}
    BY <1>6 DEF Verdicts, Refuses
  <2>2. /\ new.heard = s.heard /\ new.accepted = s.accepted /\ new.state = "start"
        /\ new.delivered
    BY <1>1 DEF In, Servers
  <2> HIDE DEF new
  <2>3. \A code, cap, x : Says(code, cap, x).code = code /\ Says(code, cap, x).cap = cap
                          /\ Says(code, cap, x).s = x
    BY DEF Says
  <2> QED
    BY <1>3, <1>6, <2>1, <2>2, <2>3 DEF IsVerdict
<1>7. CASE command = "EHLO"
  <2>1. \/ \E cap \in CapSets : v = Says(250, cap, In("start"))
        \/ v = Says(502, {}, s)
    BY <1>7 DEF Verdicts, Refuses
  <2> QED
    BY <1>2, <1>4, <1>7, <2>1, ParameterAssumption
<1>8. CASE command \in {"digest", "password", "PLAIN"}
  <2> DEFINE new == [s EXCEPT !.authed = TRUE]
  <2>1. v \in {Says(235, {}, new), Says(535, {}, s)}
    BY <1>8 DEF Verdicts, Refuses
  <2>2. /\ new.heard = s.heard /\ new.accepted = s.accepted /\ new.state = s.state
        /\ new.delivered = s.delivered
    BY <1>1 DEF Servers
  <2> HIDE DEF new
  <2>3. \A code, cap, x : Says(code, cap, x).code = code /\ Says(code, cap, x).cap = cap
                          /\ Says(code, cap, x).s = x
    BY DEF Says
  <2> QED
    BY <1>8, <2>1, <2>2, <2>3 DEF IsVerdict
<1>9. CASE command \in {"HELO", "STARTTLS", "username", "CRAM-MD5", "LOGIN", "MAIL",
                        "DATA", "RSET", "QUIT"}
  <2>1. \/ \E code \in Nat \ {354} : v = Says(code, {}, s)
        \/ \E code \in Nat \ {354}, state \in {"start", "tls", "mail"} :
             v = Says(code, {}, In(state))
        \/ command = "DATA" /\ v = Says(354, {}, In("data"))
    BY <1>9 DEF Verdicts, Refuses
  <2>2. {} \in SUBSET Caps
    OBVIOUS
  <2> QED
    BY <1>2, <1>4, <1>9, <2>1, <2>2
<1> QED
  BY <1>5, <1>6, <1>7, <1>8, <1>9 DEF Commands, Mechs

(* What a step of the server does.                                         *)
GreetMove ==
  /\ s.state = "new" /\ s' = In("start") /\ UNCHANGED <<opts, c, conn, toServer>>
  /\ \E n \in Nat, code \in Nat, cap \in SomeCaps :
       n # 0 /\ code # 354 /\ toClient' = toClient \o Lines(code, n, cap)
HandleMove ==
  /\ toServer # << >> /\ s.state \notin {"new", "tls"} /\ UNCHANGED <<opts, c, conn>>
  /\ toServer[1] \in Commands /\ Len(toServer') = Len(toServer) - 1
  /\ \A i \in 1 .. Len(toServer') : toServer'[i] = toServer[i + 1]
  /\ \E v, reply : /\ IsVerdict(toServer[1], v) /\ s' = v.s
                   /\ IsReply(reply, v.code, v.cap) /\ toClient' = toClient \o reply
CloseMove ==
  /\ conn' = "closed" /\ toServer' = << >> /\ toClient' \in {toClient, << >>}
  /\ UNCHANGED <<opts, c, s>>

LEMMA ServerMoves ==
  ASSUME AuthInv, Server
  PROVE  conn = "open" /\ (GreetMove \/ HandleMove \/ CloseMove)
<1>1. opts.lines \subseteq Nat \ {0}
  BY OptionShape DEF AuthInv, Shapes
<1>2. CASE ServerGreets
  <2>1. PICK n \in opts.lines, greeting \in {<<220, {}>>, <<220, {"ESMTP"}>>, <<554, {}>>} :
          toClient' = toClient \o Lines(greeting[1], n, greeting[2])
    BY <1>2 DEF ServerGreets
  <2>2. /\ greeting[1] \in Nat /\ greeting[1] # 354 /\ greeting[2] \in SomeCaps
        /\ n \in Nat /\ n # 0
    BY <1>1 DEF SomeCaps
  <2>3. \E m \in Nat, code \in Nat, cap \in SomeCaps :
          m # 0 /\ code # 354 /\ toClient' = toClient \o Lines(code, m, cap)
    BY <2>1, <2>2
  <2>4. /\ s.state = "new" /\ s' = In("start") /\ UNCHANGED <<opts, c, conn, toServer>>
        /\ conn = "open"
    BY <1>2 DEF ServerGreets
  <2> QED
    BY <2>3, <2>4 DEF GreetMove
<1>3. CASE ServerHandles
  <2>0. PICK v \in Verdicts(Head(toServer)) :
          s' = v.s /\ \E reply \in Replies(v, Head(toServer)) : toClient' = toClient \o reply
    BY <1>3 DEF ServerHandles
  <2>1. PICK reply \in Replies(v, Head(toServer)) : s' = v.s /\ toClient' = toClient \o reply
    BY <2>0
  <2>2. /\ toServer # << >> /\ toServer' = Tail(toServer) /\ s.state \notin {"new", "tls"}
        /\ conn = "open" /\ UNCHANGED <<opts, c, conn>>
    BY <1>3 DEF ServerHandles
  <2>3. /\ Head(toServer) = toServer[1] /\ toServer[1] \in Commands
        /\ Len(toServer') = Len(toServer) - 1
        /\ \A i \in 1 .. Len(toServer') : toServer'[i] = toServer[i + 1]
    <3>1. toServer \in Seq(Commands)
      BY StreamShape
    <3>2. Head(toServer) = toServer[1] /\ Head(toServer) \in Commands
      BY <2>2, <3>1, HeadTailProperties
    <3> QED
      BY <2>2, <3>1, <3>2, HeadTailProperties
  <2>4. IsVerdict(toServer[1], v)
    BY <2>1, <2>2, <2>3, VerdictMoves
  <2>5. IsReply(reply, v.code, v.cap)
    <3>1. \/ \E n \in Nat \ {0} : reply = Lines(v.code, n, v.cap)
          \/ Broken /\ reply \in {<<Bare>>, <<Bare, Rest>>}
      BY <1>1, <2>1 DEF Replies, Broken
    <3>2. v.code \in Int /\ v.cap \in SomeCaps
      BY <2>4 DEF IsVerdict, SomeCaps
    <3> QED
      BY <3>1, <3>2, LinesAreReply, BrokenIsReply
  <2> QED
    BY <2>1, <2>2, <2>3, <2>4, <2>5 DEF HandleMove
<1>4. CASE ServerCloses
  BY <1>4 DEF ServerCloses, CloseMove
<1> QED
  BY <1>2, <1>3, <1>4 DEF Server, ServerGreets

-----------------------------------------------------------------------------
(* What holds of every session, late or not.                               *)

(* The last line on its way to the client ends a reply, and the others     *)
(* have a code, unless they are bare.                                      *)
Sound ==
  /\ \A i \in 1 .. Len(toClient) :
       toClient[i].code \in Nat \/ (toClient[i] = Bare /\ Broken)
  /\ toClient # << >> => ~toClient[Len(toClient)].dash
Wire ==
  Sound /\ conn \in {"none", "open", "closed"} /\ (conn = "none" <=> c.pc = "connect")

(* The greeting is read to its end, and no line of it is left to be taken  *)
(* for a capability.                                                       *)
Greeted ==
  /\ c.pc = "connect" => s.state = IF opts.ssl THEN "tls" ELSE "new"
  /\ c.pc \in Opening =>
       /\ toServer = << >> /\ (s.state \in {"new", "tls"} => toClient = << >>)
       /\ \A i \in 1 .. Len(toClient) : i < Len(toClient) => toClient[i].dash
  /\ c.pc \notin Opening \cup {"done"} =>
       /\ s.state # "new"
       /\ \A i \in 1 .. Len(toClient) : "ESMTP" \notin toClient[i].cap
  /\ c.pc = "rawssl" => s.state = "tls"

(* The recipients that are named and not yet heard of are on their way,    *)
(* one after the other, with d commands behind them.                       *)
Rcpt(queue, pending, d) ==
  /\ pending <= Len(queue) - d
  /\ \A i \in 1 .. Len(queue) :
       queue[i] = "RCPT" <=> Len(queue) - d - pending < i /\ i <= Len(queue) - d
OnTheirWay ==
  \E d \in 0 .. Len(toServer) :
    Rcpt(toServer, c.rcpt - s.heard, d) /\ (c.pc \in Naming => d = 0)
Counted ==
  /\ s.heard <= c.rcpt /\ c.rcpt <= Rcpts /\ s.accepted \subseteq 1 .. s.heard
  /\ c.pc \in Opening \cup Dialogue => c.rcpt = 0
  /\ conn = "open" => OnTheirWay

LEMMA AnswerFacts ==
  ASSUME AuthInv, Wire, NEW r \in Answer(c.pc)
  PROVE  /\ toClient = << >> => r.rc < 0 /\ r.code = -1 /\ r.cap = {} /\ ReadFails
         /\ toClient # << >> =>
              /\ toClient[1] = Bare => r.rc < 0 /\ r.code = -1 /\ r.cap = {}
              /\ toClient[1] # Bare =>
                   /\ r.rc = 0 /\ r.code = toClient[1].code /\ r.cap = toClient[1].cap
                   /\ r.sep = "-" <=> toClient[1].dash
<1>1. CASE toClient = << >>
  <2>1. r = Parsed(Bare) /\ ReadFails
    BY <1>1 DEF Answer
  <2>2. r.rc = -1 /\ r.code = -1 /\ r.cap = {}
    BY <2>1 DEF Parsed
  <2>3. -1 < 0
    OBVIOUS
  <2> QED
    BY <1>1, <2>1, <2>2, <2>3
<1>2. CASE toClient # << >>
  <2>1. r = Parsed(toClient[1])
    <3>1. toClient \in Seq(ReplyLine)
      BY StreamShape
    <3>2. Head(toClient) = toClient[1]
      BY <1>2, <3>1, HeadTailProperties
    <3> QED
      BY <1>2, <3>2 DEF Answer
  <2>2. CASE toClient[1] = Bare
    <3>1. r.rc = -1 /\ r.code = -1 /\ r.cap = {}
      BY <2>1, <2>2 DEF Parsed
    <3>2. -1 < 0
      OBVIOUS
    <3> QED
      BY <1>2, <2>2, <3>1, <3>2
  <2>3. CASE toClient[1] # Bare
    <3>1. /\ r.rc = 0 /\ r.code = toClient[1].code /\ r.cap = toClient[1].cap
          /\ r.sep = IF toClient[1].dash THEN "-" ELSE " "
      BY <2>1, <2>3 DEF Parsed
    <3>2. r.sep = "-" <=> toClient[1].dash
      BY <3>1
    <3> QED
      BY <1>2, <2>3, <3>1, <3>2
  <2> QED
    BY <2>2, <2>3
<1> QED
  BY <1>1, <1>2

LEMMA SoundTook ==
  ASSUME AuthInv, Sound, Took
  PROVE  Sound'
<1>1. CASE toClient = << >>
  BY <1>1, TookShape DEF Sound, Broken
<1>2. CASE toClient # << >>
  <2>1. /\ Len(toClient') = Len(toClient) - 1 /\ Len(toClient) \in Nat
        /\ \A i \in 1 .. Len(toClient') : toClient'[i] = toClient[i + 1]
        /\ opts' = opts /\ toClient' \in Seq(ReplyLine)
    BY <1>2, TookShape, TookKeeps, StreamShape
  <2>2. \A i \in 1 .. Len(toClient') : i + 1 \in 1 .. Len(toClient)
    BY <2>1
  <2>3. ASSUME toClient' # << >>
        PROVE  ~toClient'[Len(toClient')].dash
    <3>1. Len(toClient') # 0
      BY <2>1, <2>3, EmptySeq, LenProperties
    <3>2. Len(toClient') \in 1 .. Len(toClient') /\ Len(toClient') + 1 = Len(toClient)
      BY <2>1, <3>1
    <3>3. toClient'[Len(toClient')] = toClient[Len(toClient)]
      BY <2>1, <3>2
    <3> QED
      BY <1>2, <3>3 DEF Sound
  <2> QED
    BY <2>1, <2>2, <2>3 DEF Sound, Broken
<1> QED
  BY <1>1, <1>2

LEMMA SoundJoin ==
  ASSUME AuthInv, Sound, NEW code \in Nat, NEW cap, NEW reply, IsReply(reply, code, cap),
         toClient' = toClient \o reply, opts' = opts
  PROVE  Sound'
<1>1. /\ reply \in Seq(ReplyLine) /\ Len(reply) \in Nat /\ Len(reply) >= 1
      /\ ~reply[Len(reply)].dash
      /\ \A i \in 1 .. Len(reply) : reply[i].code \in Nat \/ (reply[i] = Bare /\ Broken)
  BY LenProperties, RestShape DEF IsReply
<1>2. /\ Len(toClient') = Len(toClient) + Len(reply)
      /\ \A i \in 1 .. Len(toClient) : toClient'[i] = toClient[i]
      /\ \A i \in 1 .. Len(reply) : toClient'[Len(toClient) + i] = reply[i]
      /\ \A i \in 1 .. Len(toClient') :
           i \in 1 .. Len(toClient) \/ \E j \in 1 .. Len(reply) : i = Len(toClient) + j
  BY <1>1, JoinShape
<1>3. ASSUME NEW i \in 1 .. Len(toClient')
      PROVE  toClient'[i].code \in Nat \/ (toClient'[i] = Bare /\ Broken')
  <2>1. CASE i \in 1 .. Len(toClient)
    BY <1>2, <2>1 DEF Sound, Broken
  <2>2. CASE \E j \in 1 .. Len(reply) : i = Len(toClient) + j
    BY <1>1, <1>2, <2>2 DEF Broken
  <2> QED
    BY <1>2, <2>1, <2>2
<1>4. toClient'[Len(toClient')] = reply[Len(reply)]
  <2>1. Len(reply) \in 1 .. Len(reply)
    BY <1>1
  <2> QED
    BY <1>2, <2>1
<1> QED
  BY <1>1, <1>3, <1>4 DEF Sound

LEMMA SoundKept ==
  ASSUME Sound, opts' = opts, toClient' = toClient \/ toClient' = << >>
  PROVE  Sound'
<1>1. CASE toClient' = toClient
  BY <1>1 DEF Sound, Broken
<1>2. CASE toClient' = << >>
  BY <1>2 DEF Sound, Broken
<1> QED
  BY <1>1, <1>2

(* The moves, one by one, as the invariants below see them.                *)
LEMMA NextMoves ==
  ASSUME AuthInv, Within, Next
  PROVE  \/ \E r \in Answer(c.pc) : ReadMove(r) /\ c'.rcpt = c.rcpt /\ Collects(r.cap)
         \/ Collects({}) /\ \E command \in Commands : WriteMove(command)
         \/ Collects({}) /\ (LocalMove \/ ConnectMove)
         \/ conn = "open" /\ (GreetMove \/ HandleMove \/ CloseMove)
BY ClientMoves, ServerMoves DEF Next, Moves

LEMMA WireStep ==
  ASSUME AuthInv, Within, Wire, Next
  PROVE  Wire'
<1>1. Sound /\ conn \in {"none", "open", "closed"} /\ (conn = "none" <=> c.pc = "connect")
  BY DEF Wire
<1>2. /\ c.pc = "connect" => c.pc \notin Replied \cup Following \cup Dialogue
      /\ "connect" \notin Following \cup Dialogue \cup Replied
  BY DEF Replied, Following, Dialogue, Mechs
<1>3. ASSUME NEW r \in Answer(c.pc), ReadMove(r)
      PROVE  Wire'
  <2>1. conn' = conn /\ Sound'
    BY <1>1, <1>3, TookShape, SoundTook DEF ReadMove
  <2>2. conn # "none" /\ c'.pc # "connect"
    BY <1>1, <1>2, <1>3 DEF ReadMove
  <2> QED
    BY <1>1, <2>1, <2>2 DEF Wire
<1>4. ASSUME NEW command \in Commands, WriteMove(command)
      PROVE  Wire'
  <2>1. UNCHANGED <<opts, conn, toClient>>
    BY <1>4, PutsShape DEF WriteMove
  <2>2. conn # "none" /\ c'.pc # "connect"
    BY <1>1, <1>2, <1>4 DEF WriteMove
  <2>3. Sound'
    BY <1>1, <2>1, SoundKept
  <2> QED
    BY <1>1, <2>1, <2>2, <2>3 DEF Wire
<1>5. CASE LocalMove
  <2>1. UNCHANGED <<opts, conn, toClient>> /\ conn # "none" /\ c'.pc # "connect"
    BY <1>1, <1>2, <1>5 DEF LocalMove, Local
  <2>2. Sound'
    BY <1>1, <2>1, SoundKept
  <2> QED
    BY <1>1, <2>1, <2>2 DEF Wire
<1>6. CASE ConnectMove
  <2>1. /\ UNCHANGED <<opts, toClient>> /\ conn' \in {"open", "closed"}
        /\ c'.pc # "connect"
    BY <1>1, <1>6 DEF ConnectMove, Wire
  <2>2. Sound'
    BY <1>1, <2>1, SoundKept
  <2> QED
    BY <2>1, <2>2 DEF Wire
<1>7. CASE conn = "open" /\ GreetMove
  <2>1. PICK n \in Nat, code \in Nat, cap \in SomeCaps :
          n # 0 /\ toClient' = toClient \o Lines(code, n, cap)
    BY <1>7 DEF GreetMove
  <2>2. IsReply(Lines(code, n, cap), code, cap)
    BY <2>1, LinesAreReply
  <2>3. opts' = opts /\ conn' = "open" /\ c' = c
    BY <1>7 DEF GreetMove
  <2>4. Sound'
    BY <1>1, <2>1, <2>2, <2>3, SoundJoin
  <2> QED
    BY <1>1, <1>7, <2>3, <2>4 DEF Wire
<1>8. CASE conn = "open" /\ HandleMove
  <2>1. PICK v, reply :
          /\ IsVerdict(toServer[1], v)
          /\ IsReply(reply, v.code, v.cap) /\ toClient' = toClient \o reply
    BY <1>8 DEF HandleMove
  <2>2. opts' = opts /\ conn' = "open" /\ v.code \in Nat /\ c' = c
    BY <1>8, <2>1 DEF HandleMove, IsVerdict
  <2>3. Sound'
    BY <1>1, <2>1, <2>2, SoundJoin
  <2> QED
    BY <1>1, <1>8, <2>2, <2>3 DEF Wire
<1>9. CASE conn = "open" /\ CloseMove
  <2>1. opts' = opts /\ c' = c /\ conn' = "closed" /\ (toClient' = toClient \/ toClient' = << >>)
    BY <1>9 DEF CloseMove
  <2>2. Sound'
    BY <1>1, <2>1, SoundKept
  <2> QED
    BY <1>1, <1>9, <2>1, <2>2 DEF Wire
<1> QED
  BY <1>3, <1>4, <1>5, <1>6, <1>7, <1>8, <1>9, NextMoves

(* Only lines of the greeting tell what is no capability.                  *)
LEMMA WithinStep ==
  ASSUME AuthInv, Within, Wire, Greeted, Next
  PROVE  Within'
<1>1. ASSUME NEW r \in Answer(c.pc), c.pc = "caps"
      PROVE  r.cap \subseteq Caps
  <2>1. CASE toClient = << >> \/ toClient[1] = Bare
    BY <2>1, AnswerFacts
  <2>2. CASE toClient # << >> /\ toClient[1] # Bare
    <3>1. r.cap = toClient[1].cap
      BY <2>2, AnswerFacts
    <3>2. 1 \in 1 .. Len(toClient) /\ toClient[1] \in ReplyLine
      BY <2>2, StreamShape
    <3>3. "ESMTP" \notin toClient[1].cap
      BY <1>1, <3>2 DEF Greeted, Opening
    <3> QED
      BY <3>1, <3>2, <3>3 DEF ReplyLine, SomeCaps
  <2> QED
    BY <2>1, <2>2
<1>2. CASE \E r \in Answer(c.pc) : Collects(r.cap)
  BY <1>1, <1>2 DEF Within, Collects
<1>3. CASE Collects({})
  BY <1>3 DEF Within, Collects
<1>4. CASE c' = c
  BY <1>4 DEF Within
<1>5. GreetMove \/ HandleMove \/ CloseMove => c' = c
  BY DEF GreetMove, HandleMove, CloseMove
<1> QED
  BY <1>2, <1>3, <1>4, <1>5, NextMoves

(* A property of every line survives that lines are read or lost.          *)
LEMMA LinesShrink ==
  ASSUME AuthInv, NEW good, Took \/ toClient' \in {toClient, << >>},
         \A i \in 1 .. Len(toClient) : toClient[i] \in good
  PROVE  \A i \in 1 .. Len(toClient') : toClient'[i] \in good
<1>1. CASE toClient' \in {toClient, << >>}
  BY <1>1
<1>2. CASE Took /\ toClient # << >>
  <2>1. /\ Len(toClient') = Len(toClient) - 1 /\ Len(toClient) \in Nat
        /\ \A i \in 1 .. Len(toClient') : toClient'[i] = toClient[i + 1]
    BY <1>2, TookShape, StreamShape
  <2>2. \A i \in 1 .. Len(toClient') : i + 1 \in 1 .. Len(toClient)
    BY <2>1
  <2> QED
    BY <2>1, <2>2
<1>3. CASE Took /\ toClient = << >>
  BY <1>3, TookShape
<1> QED
  BY <1>1, <1>2, <1>3

LEMMA LinesGrow ==
  ASSUME AuthInv, NEW good, NEW reply \in Seq(ReplyLine), toClient' = toClient \o reply,
         \A i \in 1 .. Len(toClient) : toClient[i] \in good,
         \A i \in 1 .. Len(reply) : reply[i] \in good
  PROVE  \A i \in 1 .. Len(toClient') : toClient'[i] \in good
BY JoinShape

Plain == {l \in ReplyLine : "ESMTP" \notin l.cap}

LEMMA PlainLines ==
  ASSUME AuthInv
  PROVE  (\A i \in 1 .. Len(toClient) : "ESMTP" \notin toClient[i].cap)
           <=> \A i \in 1 .. Len(toClient) : toClient[i] \in Plain
BY StreamShape DEF Plain

GreetedFirst ==
  /\ c.pc = "connect" => s.state = IF opts.ssl THEN "tls" ELSE "new"
  /\ c.pc = "rawssl" => s.state = "tls"
GreetedLast ==
  /\ toServer = << >> /\ (s.state \in {"new", "tls"} => toClient = << >>)
  /\ \A i \in 1 .. Len(toClient) : i < Len(toClient) => toClient[i].dash
GreetedAll == s.state # "new" /\ \A i \in 1 .. Len(toClient) : toClient[i] \in Plain

LEMMA GreetedParts ==
  ASSUME AuthInv
  PROVE  Greeted <=> /\ GreetedFirst
                     /\ c.pc \in Opening => GreetedLast
                     /\ c.pc \notin Opening \cup {"done"} => GreetedAll
BY PlainLines DEF Greeted, GreetedFirst, GreetedLast, GreetedAll

LEMMA GreetingTook ==
  ASSUME AuthInv, GreetedLast, Took
  PROVE  /\ GreetedLast'
         /\ toClient # << >> /\ ~toClient[1].dash => toClient' = << >>
<1>1. /\ UNCHANGED <<s, toServer>> /\ (toClient = << >> => toClient' = << >>)
      /\ toClient # << >> =>
           /\ Len(toClient') = Len(toClient) - 1
           /\ \A i \in 1 .. Len(toClient') : toClient'[i] = toClient[i + 1]
      /\ Len(toClient) \in Nat
  BY TookShape, StreamShape
<1>2. toClient' \in Seq(ReplyLine)
  BY TookKeeps
<1>3. CASE toClient = << >>
  BY <1>1, <1>3 DEF GreetedLast
<1>4. CASE toClient # << >>
  <2>1. \A i \in 1 .. Len(toClient') : i < Len(toClient') =>
          i + 1 \in 1 .. Len(toClient) /\ i + 1 < Len(toClient)
    BY <1>1, <1>4
  <2>2. ~toClient[1].dash => Len(toClient') = 0
    <3>1. 1 < Len(toClient) => toClient[1].dash
      BY <1>1, <1>4 DEF GreetedLast
    <3>2. Len(toClient) # 0
      BY <1>4, StreamShape
    <3> QED
      BY <1>1, <1>4, <3>1, <3>2
  <2>3. Len(toClient') = 0 => toClient' = << >>
    BY <1>2, EmptySeq, LenProperties
  <2>4. s.state \notin {"new", "tls"}
    BY <1>4 DEF GreetedLast
  <2> QED
    BY <1>1, <1>4, <2>1, <2>2, <2>3, <2>4 DEF GreetedLast
<1> QED
  BY <1>3, <1>4

LEMMA GreetedStep ==
  ASSUME AuthInv, AuthInv', Within, Wire, Greeted, Next
  PROVE  Greeted'
<1>1. /\ GreetedFirst /\ (c.pc \in Opening => GreetedLast)
      /\ c.pc \notin Opening \cup {"done"} => GreetedAll
  BY GreetedParts
<1>2. /\ "connect" \notin Replied \cup Following \cup Dialogue
      /\ "done" \notin Opening \cup Dialogue \cup Replied \cup Following
      /\ Dialogue \cap Opening = {} /\ "rawssl" \notin Dialogue
      /\ (Replied \cup Following) \cap Opening = {"greeting", "greetingMore", "greetingSkip"}
      /\ {"rcpt", "rcptReply", "reset", "resetReply", "dataReply", "text", "textReply",
          "textSkip", "quit", "quitReply", "exit"} \cap (Opening \cup {"done"}) = {}
  BY DEF Replied, Following, Dialogue, Opening, Mechs
<1>3. ASSUME GreetedFirst', c'.pc \in Opening => GreetedLast',
             c'.pc \notin Opening \cup {"done"} => GreetedAll'
      PROVE  Greeted'
  <2>1. AuthInv => (Greeted <=> /\ GreetedFirst
                                /\ c.pc \in Opening => GreetedLast
                                /\ c.pc \notin Opening \cup {"done"} => GreetedAll)
    BY GreetedParts
  <2>2. (AuthInv => (Greeted <=> /\ GreetedFirst
                                 /\ c.pc \in Opening => GreetedLast
                                 /\ c.pc \notin Opening \cup {"done"} => GreetedAll))'
    BY GreetedParts, PTL
  <2> QED
    BY <1>3, <2>2
<1>4. ASSUME NEW r \in Answer(c.pc), ReadMove(r)
      PROVE  Greeted'
  <2>1. Took /\ s' = s /\ c'.pc # "connect" /\ c'.pc # "rawssl"
    BY <1>2, <1>4, TookShape DEF ReadMove, Opening, Following, Dialogue, Mechs
  <2>2. GreetedFirst'
    BY <2>1 DEF GreetedFirst
  <2>3. CASE c'.pc \in Opening
    <3>1. c.pc \in Opening
      BY <1>2, <1>4, <2>3 DEF ReadMove, Opening, Dialogue, Mechs
    <3> QED
      BY <1>1, <1>3, <2>1, <2>2, <2>3, <3>1, GreetingTook
  <2>4. CASE c'.pc \notin Opening \cup {"done"} /\ c.pc \in Opening
    <3>1. c'.pc = "helo" /\ r.rc = 0 /\ r.sep # "-"
      BY <1>2, <1>4, <2>4 DEF ReadMove, Opening
    <3>2. toClient # << >> /\ ~toClient[1].dash
      BY <3>1, AnswerFacts
    <3>3. toClient' = << >> /\ s.state # "new"
      BY <1>1, <2>1, <2>4, <3>2, GreetingTook DEF GreetedLast
    <3>4. GreetedAll'
      BY <2>1, <3>3 DEF GreetedAll
    <3> QED
      BY <1>3, <2>2, <2>4, <3>4
  <2>5. CASE c'.pc \notin Opening \cup {"done"} /\ c.pc \notin Opening
    <3>1. c.pc # "done"
      BY <1>2, <1>4 DEF ReadMove
    <3>2. GreetedAll
      BY <1>1, <2>5, <3>1
    <3>3. \A i \in 1 .. Len(toClient') : toClient'[i] \in Plain
      BY <2>1, <3>2, LinesShrink DEF GreetedAll
    <3>4. GreetedAll'
      BY <2>1, <3>2, <3>3 DEF GreetedAll
    <3> QED
      BY <1>3, <2>2, <2>5, <3>4
  <2>6. CASE c'.pc = "done"
    BY <1>2, <1>3, <2>2, <2>6
  <2> QED
    BY <2>3, <2>4, <2>5, <2>6
<1>5. ASSUME NEW command \in Commands, WriteMove(command)
      PROVE  Greeted'
  <2>1. UNCHANGED <<opts, s, conn, toClient>>
    BY <1>5, PutsShape DEF WriteMove
  <2>2. /\ c.pc \notin Opening \cup {"done"} /\ c'.pc \notin Opening \cup {"done"}
        /\ c'.pc # "connect" /\ c'.pc # "rawssl"
    BY <1>2, <1>5 DEF WriteMove, Opening
  <2>3. GreetedFirst' /\ GreetedAll'
    BY <1>1, <2>1, <2>2 DEF GreetedFirst, GreetedAll
  <2> QED
    BY <1>3, <2>2, <2>3
<1>6. CASE LocalMove
  <2>1. UNCHANGED <<opts, s, conn, toServer, toClient>>
    BY <1>6 DEF LocalMove, Local
  <2>2. /\ c'.pc # "connect" /\ c'.pc # "rawssl" /\ (c'.pc \in Opening => c.pc \in Opening)
        /\ c'.pc \notin Opening \cup {"done"} => c.pc \notin Opening \cup {"done"}
    BY <1>2, <1>6 DEF LocalMove, Opening
  <2>3. /\ GreetedFirst' /\ (GreetedLast => GreetedLast') /\ (GreetedAll => GreetedAll')
    BY <2>1, <2>2 DEF GreetedFirst, GreetedLast, GreetedAll
  <2> QED
    BY <1>1, <1>3, <2>2, <2>3
<1>7. CASE ConnectMove
  <2>1. UNCHANGED <<opts, toServer, toClient>> /\ c'.pc # "connect"
    BY <1>7 DEF ConnectMove
  <2>6. c'.pc = "rawssl" => c.pc = "connect" /\ opts.ssl /\ s' = s
    BY <1>7 DEF ConnectMove
  <2>2. GreetedFirst'
    BY <1>1, <2>1, <2>6 DEF GreetedFirst
  <2>3. CASE s' = s
    <3>1. /\ c'.pc \in Opening => c.pc \in Opening
          /\ c'.pc \notin Opening \cup {"done"} => c.pc \notin Opening \cup {"done"}
      BY <1>7, <2>3 DEF ConnectMove, Opening
    <3>2. (GreetedLast => GreetedLast') /\ (GreetedAll => GreetedAll')
      BY <2>1, <2>3 DEF GreetedLast, GreetedAll
    <3> QED
      BY <1>1, <1>3, <2>2, <3>1, <3>2
  <2>4. CASE c.pc = "rawssl" /\ c'.pc = "greeting" /\ toServer = << >> /\ toClient = << >>
    <3>1. GreetedLast'
      BY <2>1, <2>4 DEF GreetedLast
    <3>2. c'.pc \in Opening
      BY <2>4 DEF Opening
    <3> QED
      BY <1>3, <2>2, <3>1, <3>2
  <2>5. CASE c'.pc = "helo" /\ s' = In("start") /\ toClient = << >>
    <3>1. s'.state = "start"
      BY <2>5 DEF In, AuthInv, Shapes, Servers
    <3>2. GreetedAll' /\ c'.pc \notin Opening
      BY <2>1, <2>5, <3>1 DEF GreetedAll, Opening
    <3> QED
      BY <1>3, <2>2, <3>2
  <2> QED
    BY <1>7, <2>3, <2>4, <2>5 DEF ConnectMove
<1>8. CASE conn = "open" /\ GreetMove
  <2>1. PICK n \in Nat, code \in Nat, cap \in SomeCaps :
          n # 0 /\ toClient' = toClient \o Lines(code, n, cap)
    BY <1>8 DEF GreetMove
  <2>2. /\ s.state = "new" /\ s' = In("start") /\ UNCHANGED <<opts, c, toServer>>
        /\ c.pc # "connect"
    BY <1>8 DEF GreetMove, Wire
  <2>3. c.pc \in Opening \cup {"done"}
    BY <1>1, <2>2 DEF GreetedAll
  <2>4. s'.state = "start"
    BY <2>2 DEF In, AuthInv, Shapes, Servers
  <2>5. GreetedFirst'
    BY <1>1, <2>2 DEF GreetedFirst
  <2>6. ASSUME c.pc \in Opening
        PROVE  GreetedLast'
    <3>1. toServer = << >> /\ toClient = << >>
      BY <1>1, <2>2, <2>6 DEF GreetedLast
    <3>2. toClient' = Lines(code, n, cap)
      <4>1. Lines(code, n, cap) \in Seq(ReplyLine)
        BY LinesShape
      <4> QED
        BY <2>1, <3>1, <4>1, ConcatEmptySeq
    <3>3. \A i \in 1 .. Len(toClient') : i < Len(toClient') => toClient'[i].dash
      BY <2>1, <3>2, LinesAreReply
    <3> QED
      BY <2>2, <2>4, <3>1, <3>3 DEF GreetedLast
  <2> QED
    BY <1>3, <2>2, <2>3, <2>5, <2>6
<1>9. CASE conn = "open" /\ HandleMove
  <2>1. PICK v, reply :
          /\ IsVerdict(toServer[1], v) /\ s' = v.s
          /\ IsReply(reply, v.code, v.cap) /\ toClient' = toClient \o reply
    BY <1>9 DEF HandleMove
  <2>2. c' = c /\ toServer # << >> /\ c.pc # "connect"
    BY <1>9 DEF HandleMove, Wire
  <2>3. c.pc \notin Opening
    BY <1>1, <2>2 DEF GreetedLast
  <2>4. GreetedFirst'
    BY <2>2, <2>3 DEF GreetedFirst, Opening
  <2>5. ASSUME c.pc # "done"
        PROVE  GreetedAll'
    <3>1. GreetedAll
      BY <1>1, <2>3, <2>5
    <3>2. \A i \in 1 .. Len(reply) : reply[i] \in Plain
      <4>1. "ESMTP" \notin v.cap
        BY <2>1 DEF IsVerdict, Caps, Mechs
      <4> QED
        BY <2>1, <4>1 DEF IsReply, Plain
    <3>3. \A i \in 1 .. Len(toClient') : toClient'[i] \in Plain
      BY <2>1, <3>1, <3>2, LinesGrow DEF IsReply, GreetedAll
    <3> QED
      BY <2>1, <3>3 DEF GreetedAll, IsVerdict
  <2> QED
    BY <1>3, <2>2, <2>3, <2>4, <2>5
<1>10. CASE conn = "open" /\ CloseMove
  <2>1. /\ UNCHANGED <<opts, c, s>> /\ toServer' = << >> /\ toClient' \in {toClient, << >>}
    BY <1>10 DEF CloseMove
  <2>2. GreetedFirst' /\ (GreetedLast => GreetedLast')
    <3>1. GreetedFirst'
      <4>1. opts' = opts /\ c' = c /\ s' = s
        BY <2>1
      <4> QED
        BY <1>1, <4>1 DEF GreetedFirst
    <3>2. CASE toClient' = toClient
      BY <2>1, <3>1, <3>2 DEF GreetedLast
    <3>3. CASE toClient' = << >>
      BY <2>1, <3>1, <3>3 DEF GreetedLast
    <3> QED
      BY <2>1, <3>2, <3>3
  <2>3. GreetedAll => GreetedAll'
    <3>1. GreetedAll => \A i \in 1 .. Len(toClient') : toClient'[i] \in Plain
      BY <2>1, LinesShrink DEF GreetedAll
    <3> QED
      BY <2>1, <3>1 DEF GreetedAll
  <2> QED
    BY <1>1, <1>3, <2>1, <2>2, <2>3
<1> QED
  BY <1>4, <1>5, <1>6, <1>7, <1>8, <1>9, <1>10, NextMoves

LEMMA RcptNone ==
  ASSUME NEW queue \in Seq(Commands), NEW d \in 0 .. Len(queue), Rcpt(queue, 0, d)
  PROVE  Rcpt(queue, 0, 0)
<1>1. Len(queue) \in Nat
  BY LenProperties
<1> QED
  BY <1>1 DEF Rcpt

LEMMA RcptAdd ==
  ASSUME NEW queue \in Seq(Commands), NEW next \in Seq(Commands), NEW command,
         Len(next) = Len(queue) + 1, next[Len(queue) + 1] = command,
         \A i \in 1 .. Len(queue) : next[i] = queue[i],
         NEW pending \in Nat, NEW d \in 0 .. Len(queue), Rcpt(queue, pending, d)
  PROVE  /\ command # "RCPT" => Rcpt(next, pending, d + 1)
         /\ command = "RCPT" /\ d = 0 => Rcpt(next, pending + 1, 0)
<1>1. Len(queue) \in Nat /\ pending <= Len(queue) - d
  BY LenProperties DEF Rcpt
<1>2. ASSUME command # "RCPT"
      PROVE  Rcpt(next, pending, d + 1)
  <2>1. Len(next) - (d + 1) = Len(queue) - d
    BY <1>1
  <2>2. ASSUME NEW i \in 1 .. Len(next)
        PROVE  next[i] = "RCPT" <=> Len(queue) - d - pending < i /\ i <= Len(queue) - d
    <3>1. CASE i \in 1 .. Len(queue)
      BY <3>1 DEF Rcpt
    <3>2. CASE i = Len(queue) + 1
      BY <1>1, <1>2, <3>2
    <3> QED
      BY <1>1, <3>1, <3>2
  <2> QED
    BY <1>1, <2>1, <2>2 DEF Rcpt
<1>3. ASSUME command = "RCPT", d = 0
      PROVE  Rcpt(next, pending + 1, 0)
  <2>1. /\ Len(next) - 0 - (pending + 1) = Len(queue) - d - pending
        /\ Len(next) - 0 = Len(queue) + 1
    BY <1>1, <1>3
  <2>2. ASSUME NEW i \in 1 .. Len(next)
        PROVE  next[i] = "RCPT" <=> Len(queue) - d - pending < i /\ i <= Len(queue) + 1
    <3>1. CASE i \in 1 .. Len(queue)
      <4>1. i <= Len(queue) - d /\ i <= Len(queue) + 1
        BY <1>1, <1>3, <3>1
      <4> QED
        BY <3>1, <4>1 DEF Rcpt
    <3>2. CASE i = Len(queue) + 1
      BY <1>1, <1>3, <3>2
    <3> QED
      BY <1>1, <3>1, <3>2
  <2> QED
    BY <1>1, <1>3, <2>1, <2>2 DEF Rcpt
<1> QED
  BY <1>2, <1>3

LEMMA RcptTake ==
  ASSUME NEW queue \in Seq(Commands), NEW next \in Seq(Commands), Len(queue) >= 1,
         Len(next) = Len(queue) - 1, \A i \in 1 .. Len(next) : next[i] = queue[i + 1],
         NEW pending \in Nat, NEW d \in 0 .. Len(queue), Rcpt(queue, pending, d)
  PROVE  /\ queue[1] = "RCPT" => /\ pending >= 1 /\ d \in 0 .. Len(next)
                                 /\ Rcpt(next, pending - 1, d)
         /\ queue[1] # "RCPT" =>
              \E e \in 0 .. Len(next) : Rcpt(next, pending, e) /\ (d = 0 => e = 0)
<1>1. /\ Len(queue) \in Nat /\ pending <= Len(queue) - d
      /\ queue[1] = "RCPT" <=> Len(queue) - d - pending < 1 /\ 1 <= Len(queue) - d
  <2>1. Len(queue) \in Nat
    BY LenProperties
  <2>2. 1 \in 1 .. Len(queue)
    BY <2>1
  <2> QED
    BY <2>1, <2>2 DEF Rcpt
<1>2. ASSUME NEW i \in 1 .. Len(next)
      PROVE  next[i] = "RCPT" <=> Len(queue) - d - pending < i + 1 /\ i + 1 <= Len(queue) - d
  <2>1. i + 1 \in 1 .. Len(queue)
    BY <1>1
  <2> QED
    BY <2>1 DEF Rcpt
<1>3. ASSUME queue[1] = "RCPT"
      PROVE  /\ pending >= 1 /\ d \in 0 .. Len(next) /\ Rcpt(next, pending - 1, d)
  <2>1. pending >= 1 /\ d \in 0 .. Len(next) /\ Len(queue) - d = pending
    BY <1>1, <1>3
  <2>2. Len(next) - d - (pending - 1) = 0
    <3>1. \A n \in Nat, e \in Nat, p \in Nat : n - e = p => (n - 1) - e - (p - 1) = 0
      OBVIOUS
    <3>2. Len(queue) \in Nat /\ d \in Nat /\ pending \in Nat
      BY <1>1
    <3> QED
      BY <2>1, <3>1, <3>2
  <2>3. ASSUME NEW i \in 1 .. Len(next)
        PROVE  next[i] = "RCPT" <=> 0 < i /\ i <= Len(next) - d
    BY <1>1, <1>2, <2>1
  <2> QED
    BY <1>1, <2>1, <2>2, <2>3 DEF Rcpt
<1>4. ASSUME queue[1] # "RCPT"
      PROVE  \E e \in 0 .. Len(next) : Rcpt(next, pending, e) /\ (d = 0 => e = 0)
  <2>1. CASE Len(queue) - d - pending >= 1
    <3>1. d \in 0 .. Len(next) /\ pending <= Len(next) - d
      BY <1>1, <2>1
    <3>2. ASSUME NEW i \in 1 .. Len(next)
          PROVE  next[i] = "RCPT" <=> Len(next) - d - pending < i /\ i <= Len(next) - d
      BY <1>1, <1>2
    <3> QED
      BY <3>1, <3>2 DEF Rcpt
  <2>2. CASE Len(queue) - d < 1
    <3>1. d = Len(queue) /\ pending = 0
      BY <1>1, <2>2
    <3>2. Len(next) \in 0 .. Len(next) /\ d # 0 /\ pending <= Len(next) - Len(next)
      BY <1>1, <3>1
    <3>3. ASSUME NEW i \in 1 .. Len(next)
          PROVE  next[i] = "RCPT" <=> Len(next) - Len(next) - pending < i
                                      /\ i <= Len(next) - Len(next)
      BY <1>1, <1>2, <3>1
    <3> QED
      BY <3>2, <3>3 DEF Rcpt
  <2> QED
    BY <1>1, <1>4, <2>1, <2>2
<1> QED
  BY <1>3, <1>4

CountsOk ==
  /\ s.heard <= c.rcpt /\ c.rcpt <= Rcpts /\ s.accepted \subseteq 1 .. s.heard
  /\ c.pc \in Opening \cup Dialogue => c.rcpt = 0

(* As long as the queue and the counts stay, only the first step to the    *)
(* recipients finds it as it must.                                         *)
LEMMA CountedFrame ==
  ASSUME AuthInv, Counted, toServer' = toServer, s'.heard = s.heard,
         s'.accepted = s.accepted, c'.rcpt = c.rcpt, conn' = "open" => conn = "open",
         c'.pc \in Naming => c.pc \in Naming \cup Dialogue,
         c'.pc \in Opening \cup Dialogue => c.pc \in Opening \cup Dialogue
  PROVE  Counted'
<1>1. ASSUME conn' = "open"
      PROVE  OnTheirWay'
  <2>1. PICK d \in 0 .. Len(toServer) :
          Rcpt(toServer, c.rcpt - s.heard, d) /\ (c.pc \in Naming => d = 0)
    BY <1>1 DEF Counted, OnTheirWay
  <2>2. CASE c'.pc \in Naming /\ c.pc \notin Naming
    <3>1. c.rcpt = 0 /\ s.heard <= 0 /\ s.heard \in Nat
      BY <2>2 DEF Counted, AuthInv, Shapes, Servers
    <3>2. c.rcpt - s.heard = 0
      BY <3>1
    <3>3. Rcpt(toServer, 0, 0) /\ 0 \in 0 .. Len(toServer)
      BY <2>1, <3>2, RcptNone, StreamShape
    <3> QED
      BY <3>2, <3>3 DEF OnTheirWay
  <2>3. CASE c'.pc \in Naming => c.pc \in Naming
    BY <2>1, <2>3 DEF OnTheirWay
  <2> QED
    BY <2>2, <2>3
<1> QED
  BY <1>1 DEF Counted

LEMMA CountedWrite ==
  ASSUME AuthInv, AuthInv', Counted, NEW command \in Commands, WriteMove(command)
  PROVE  Counted'
<1>1. /\ UNCHANGED <<opts, s, conn, toClient>>
      /\ conn = "open" =>
           /\ Len(toServer') = Len(toServer) + 1
           /\ toServer'[Len(toServer) + 1] = command
           /\ \A i \in 1 .. Len(toServer) : toServer'[i] = toServer[i]
  BY PutsShape DEF WriteMove
<1>2. /\ s.heard <= c.rcpt /\ c.rcpt <= Rcpts /\ s.accepted \subseteq 1 .. s.heard
      /\ c.pc \in Opening \cup Dialogue => c.rcpt = 0
      /\ conn = "open" => OnTheirWay
      /\ s.heard \in Nat /\ c.rcpt \in Nat /\ Rcpts \in Nat
  BY LimitAssumption DEF Counted, AuthInv, Shapes, Servers, Clients
<1>3. toServer \in Seq(Commands) /\ Len(toServer) \in Nat /\ toServer' \in Seq(Commands)
  BY StreamShape DEF AuthInv, Shapes
<1>4. "rcpt" \in Naming /\ "rcpt" \notin Opening \cup Dialogue
  BY DEF Naming, Opening, Dialogue, Mechs
<1>5. CASE command = "RCPT"
  <2>1. c.pc = "rcpt" /\ c'.pc = "rcptReply" /\ c.rcpt < Rcpts /\ c'.rcpt = c.rcpt + 1
    BY <1>5 DEF WriteMove
  <2>2. ASSUME conn' = "open"
        PROVE  OnTheirWay'
    <3>1. PICK d \in 0 .. Len(toServer) :
            Rcpt(toServer, c.rcpt - s.heard, d) /\ (c.pc \in Naming => d = 0)
      BY <1>1, <1>2, <2>2 DEF OnTheirWay
    <3>2. d = 0 /\ c.rcpt - s.heard \in Nat
      BY <1>2, <1>4, <2>1, <3>1
    <3>3. Rcpt(toServer', c.rcpt - s.heard + 1, 0)
      BY <1>1, <1>3, <1>5, <2>2, <3>1, <3>2, RcptAdd
    <3>4. c.rcpt - s.heard + 1 = c'.rcpt - s'.heard /\ 0 \in 0 .. Len(toServer')
      BY <1>1, <1>2, <1>3, <2>1, <2>2
    <3> QED
      BY <3>3, <3>4 DEF OnTheirWay
  <2>3. "rcptReply" \notin Opening \cup Dialogue
    BY DEF Opening, Dialogue, Mechs
  <2>4. s'.heard <= c'.rcpt /\ c'.rcpt <= Rcpts /\ s'.accepted \subseteq 1 .. s'.heard
    BY <1>1, <1>2, <2>1
  <2> QED
    BY <2>1, <2>2, <2>3, <2>4 DEF Counted
<1>6. CASE command # "RCPT"
  <2>1. /\ c'.rcpt = c.rcpt /\ c'.pc \notin Naming
        /\ c'.pc \in Opening \cup Dialogue => c.pc \in Opening \cup Dialogue
    BY <1>6 DEF WriteMove, Naming, Opening, Dialogue, Mechs
  <2>2. ASSUME conn' = "open"
        PROVE  OnTheirWay'
    <3>1. PICK d \in 0 .. Len(toServer) : Rcpt(toServer, c.rcpt - s.heard, d)
      BY <1>1, <1>2, <2>2 DEF OnTheirWay
    <3>2. c.rcpt - s.heard \in Nat
      BY <1>2
    <3>3. Rcpt(toServer', c.rcpt - s.heard, d + 1)
      BY <1>1, <1>3, <1>6, <2>2, <3>1, <3>2, RcptAdd
    <3>4. c'.rcpt - s'.heard = c.rcpt - s.heard /\ d + 1 \in 0 .. Len(toServer')
      BY <1>1, <1>3, <2>1, <2>2
    <3> QED
      BY <2>1, <3>3, <3>4 DEF OnTheirWay
  <2> QED
    BY <1>1, <1>2, <2>1, <2>2 DEF Counted
<1> QED
  BY <1>5, <1>6

LEMMA CountedHandle ==
  ASSUME AuthInv, AuthInv', Counted, conn = "open", HandleMove
  PROVE  Counted'
<1>1. PICK v : IsVerdict(toServer[1], v) /\ s' = v.s
  BY DEF HandleMove
<1>2. /\ UNCHANGED <<opts, c, conn>> /\ toServer # << >>
      /\ Len(toServer') = Len(toServer) - 1
      /\ \A i \in 1 .. Len(toServer') : toServer'[i] = toServer[i + 1]
  BY DEF HandleMove
<1>3. /\ s.heard <= c.rcpt /\ c.rcpt <= Rcpts /\ s.accepted \subseteq 1 .. s.heard
      /\ c.pc \in Opening \cup Dialogue => c.rcpt = 0
      /\ OnTheirWay
      /\ s.heard \in Nat /\ c.rcpt \in Nat
  BY DEF Counted, AuthInv, Shapes, Servers, Clients
<1>4. /\ toServer \in Seq(Commands) /\ Len(toServer) >= 1 /\ Len(toServer) \in Nat
      /\ toServer' \in Seq(Commands)
  BY <1>2, StreamShape DEF AuthInv, Shapes
<1>5. PICK d \in 0 .. Len(toServer) :
        Rcpt(toServer, c.rcpt - s.heard, d) /\ (c.pc \in Naming => d = 0)
  BY <1>3 DEF OnTheirWay
<1>6. c.rcpt - s.heard \in Nat
  BY <1>3
<1>7. CASE toServer[1] = "RCPT"
  <2>1. /\ c.rcpt - s.heard >= 1 /\ d \in 0 .. Len(toServer')
        /\ Rcpt(toServer', c.rcpt - s.heard - 1, d)
    BY <1>2, <1>4, <1>5, <1>6, <1>7, RcptTake
  <2>2. /\ s'.heard = s.heard + 1
        /\ s'.accepted \subseteq s.accepted \cup {s.heard + 1}
    BY <1>1, <1>7 DEF IsVerdict
  <2>3. /\ c'.rcpt - s'.heard = c.rcpt - s.heard - 1 /\ s'.heard <= c'.rcpt
        /\ s'.accepted \subseteq 1 .. s'.heard
    <3>1. c'.rcpt = c.rcpt
      BY <1>2
    <3>2. \A n \in Nat : \A x \in SUBSET (1 .. n) : x \cup {n + 1} \subseteq 1 .. n + 1
      OBVIOUS
    <3>3. s.accepted \cup {s.heard + 1} \subseteq 1 .. s.heard + 1
      BY <1>3, <3>2
    <3>4. s'.accepted \subseteq 1 .. s'.heard
      BY <2>2, <3>3
    <3> QED
      BY <1>3, <2>1, <2>2, <3>1, <3>4
  <2>4. OnTheirWay'
    BY <1>2, <1>5, <2>1, <2>3 DEF OnTheirWay
  <2> QED
    BY <1>2, <1>3, <2>3, <2>4 DEF Counted
<1>8. CASE toServer[1] # "RCPT"
  <2> DEFINE pending == c.rcpt - s.heard
  <2>4. pending \in Nat /\ Rcpt(toServer, pending, d)
    BY <1>5, <1>6
  <2> HIDE DEF pending
  <2>1. PICK e \in 0 .. Len(toServer') : Rcpt(toServer', pending, e) /\ (d = 0 => e = 0)
    BY <1>2, <1>4, <1>8, <2>4, RcptTake
  <2>2. s'.heard = s.heard /\ s'.accepted = s.accepted
    BY <1>1, <1>8 DEF IsVerdict
  <2>3. OnTheirWay'
    BY <1>2, <1>5, <2>1, <2>2 DEF OnTheirWay, pending
  <2> QED
    BY <1>2, <1>3, <2>2, <2>3 DEF Counted
<1> QED
  BY <1>7, <1>8

LEMMA CountedStep ==
  ASSUME AuthInv, AuthInv', Within, Wire, Greeted, Counted, Next
  PROVE  Counted'
<1>1. s \in Servers /\ toServer \in Seq(Commands)
  BY DEF AuthInv, Shapes
<1>2. \A state : In(state).heard = s.heard /\ In(state).accepted = s.accepted
  BY <1>1 DEF In, Servers
<1>3. ASSUME NEW r \in Answer(c.pc), ReadMove(r), c'.rcpt = c.rcpt
      PROVE  Counted'
  <2>1. UNCHANGED <<s, conn, toServer>>
    BY <1>3, TookShape DEF ReadMove
  <2>2. /\ c'.pc \in Naming => c.pc \in Naming \cup Dialogue
        /\ c'.pc \in Opening \cup Dialogue => c.pc \in Opening \cup Dialogue
    BY <1>3 DEF ReadMove, Naming, Opening, Dialogue, Mechs
  <2> QED
    BY <1>3, <2>1, <2>2, CountedFrame
<1>4. CASE LocalMove
  <2>1. UNCHANGED <<s, conn, toServer>> /\ c'.rcpt = c.rcpt
    BY <1>4 DEF LocalMove, Local
  <2>2. /\ c'.pc \in Naming => c.pc \in Naming \cup Dialogue
        /\ c'.pc \in Opening \cup Dialogue => c.pc \in Opening \cup Dialogue
    BY <1>4 DEF LocalMove, Naming, Opening, Dialogue, Mechs
  <2> QED
    BY <2>1, <2>2, CountedFrame
<1>5. CASE ConnectMove
  <2>1. /\ toServer' = toServer /\ c'.rcpt = c.rcpt
        /\ s'.heard = s.heard /\ s'.accepted = s.accepted
    BY <1>2, <1>5 DEF ConnectMove
  <2>2. /\ c'.pc \notin Naming
        /\ c'.pc \in Opening \cup Dialogue => c.pc \in Opening \cup Dialogue
    BY <1>5 DEF ConnectMove, Naming, Opening, Dialogue, Mechs
  <2>3. CASE conn' = "open" => conn = "open"
    BY <2>1, <2>2, <2>3, CountedFrame
  <2>4. CASE conn' = "open" /\ conn # "open"
    <3>1. c.pc = "connect"
      BY <1>5, <2>4 DEF ConnectMove
    <3>2. toServer = << >> /\ c.rcpt = 0 /\ s.heard <= 0 /\ s.heard \in Nat
      BY <1>1, <3>1 DEF Greeted, Counted, Opening, Servers
    <3>3. c'.rcpt - s'.heard = 0 /\ toServer' = << >> /\ Len(toServer') = 0
      BY <2>1, <3>2, EmptySeq
    <3>4. OnTheirWay'
      BY <3>3 DEF OnTheirWay, Rcpt
    <3>5. c'.pc \in Opening \cup Dialogue => c'.rcpt = 0
      BY <2>1, <3>2
    <3> QED
      BY <2>1, <3>4, <3>5 DEF Counted
  <2> QED
    BY <2>3, <2>4
<1>6. ASSUME GreetMove \/ CloseMove, conn = "open"
      PROVE  Counted'
  <2>1. c' = c /\ s'.heard = s.heard /\ s'.accepted = s.accepted
    BY <1>2, <1>6 DEF GreetMove, CloseMove
  <2>2. CASE GreetMove
    BY <1>6, <2>1, <2>2, CountedFrame DEF GreetMove
  <2>3. CASE CloseMove
    <3>1. conn' # "open"
      BY <2>3 DEF CloseMove
    <3> QED
      BY <2>1, <3>1 DEF Counted
  <2> QED
    BY <1>6, <2>2, <2>3
<1> QED
  BY <1>3, <1>4, <1>5, <1>6, CountedWrite, CountedHandle, NextMoves

(* All of it, and what it says about the types.                            *)
DialogueInv == AuthInv /\ Within /\ Wire /\ Greeted /\ Counted

LEMMA DialogueStart ==
  ASSUME Init
  PROVE  DialogueInv
<1>1. AuthInv
  BY AuthStart
<1>2. /\ c.pc = "connect" /\ c.lines = 0 /\ c.caps = {} /\ c.rcpt = 0
      /\ s.heard = 0 /\ s.accepted = {} /\ s.state = IF opts.ssl THEN "tls" ELSE "new"
      /\ conn = "none" /\ toServer = << >> /\ toClient = << >>
  BY DEF Init
<1>3. Len(toServer) = 0 /\ Len(toClient) = 0
  BY <1>2, EmptySeq
<1>4. Within
  BY <1>2, LimitAssumption DEF Within
<1>5. Wire
  BY <1>2, <1>3 DEF Wire, Sound
<1>6. Greeted
  BY <1>2, <1>3 DEF Greeted, Opening
<1>7. Counted
  BY <1>2, LimitAssumption DEF Counted
<1> QED
  BY <1>1, <1>4, <1>5, <1>6, <1>7 DEF DialogueInv

LEMMA DialogueStep ==
  ASSUME DialogueInv, [Next]_vars
  PROVE  DialogueInv'
<1>1. AuthInv'
  BY AuthStep DEF DialogueInv
<1>2. CASE Next
  BY <1>1, <1>2, WithinStep, WireStep, GreetedStep, CountedStep DEF DialogueInv
<1>3. CASE UNCHANGED vars
  <2>1. Within' /\ Wire' /\ Greeted' /\ Counted'
    BY <1>3 DEF vars, DialogueInv, Within, Wire, Sound, Broken, Greeted, Counted,
                OnTheirWay
  <2> QED
    BY <1>1, <2>1 DEF DialogueInv
<1> QED
  BY <1>2, <1>3

LEMMA DialogueTypes == DialogueInv => TypeOK
<1> SUFFICES ASSUME DialogueInv PROVE TypeOK
  OBVIOUS
<1>1. /\ opts \in Sessions /\ c \in Clients /\ s \in Servers
      /\ toServer \in Seq(Commands) /\ toClient \in Seq(ReplyLine)
  BY DEF DialogueInv, AuthInv, Shapes
<1>2. c \in [pc : Places, rc : {-1, 0}, sep : {" ", "-"}, lines : 0 .. MaxLines,
             esmtp : BOOLEAN, caps : SUBSET Caps, rcpt : 0 .. Rcpts,
             ssl : BOOLEAN, again : BOOLEAN]
  <2>1. /\ c.lines \in 0 .. MaxLines /\ c.caps \in SUBSET Caps /\ c.rcpt \in 0 .. Rcpts
    BY <1>1, LimitAssumption DEF DialogueInv, Within, Counted, Clients
  <2>2. c \in [pc : Places, rc : Rcs, sep : Seps, lines : 0 .. MaxLines,
               esmtp : BOOLEAN, caps : SUBSET Caps, rcpt : 0 .. Rcpts,
               ssl : BOOLEAN, again : BOOLEAN]
    BY <1>1, <2>1 DEF Clients
  <2> QED
    BY <2>2 DEF Rcs, Seps
<1>3. s \in [state : {"tls", "new", "start", "mail", "data"}, heard : 0 .. c.rcpt,
             accepted : SUBSET (1 .. Rcpts), authed : BOOLEAN, delivered : BOOLEAN]
  <2>1. /\ s.heard \in 0 .. c.rcpt /\ s.accepted \in SUBSET (1 .. Rcpts)
    BY <1>1, LimitAssumption DEF DialogueInv, Counted, Servers, Clients
  <2> QED
    BY <1>1, <2>1 DEF Servers, States
<1>4. conn \in {"none", "open", "closed"}
  BY DEF DialogueInv, Wire
<1>5. ASSUME NEW i \in 1 .. Len(toClient)
      PROVE  toClient[i] = Bare \/ toClient[i] \in [code : Nat, dash : BOOLEAN,
                                                    cap : SUBSET (Caps \cup {"ESMTP"})]
  <2>1. toClient[i] \in ReplyLine /\ (toClient[i].code \in Nat \/ toClient[i] = Bare)
    BY <1>1 DEF DialogueInv, Wire, Sound
  <2> QED
    BY <2>1 DEF ReplyLine, SomeCaps
<1> QED
  BY <1>1, <1>2, <1>3, <1>4, <1>5 DEF TypeOK

LEMMA DialogueHolds == Spec => []DialogueInv
BY DialogueStart, DialogueStep, PTL DEF Spec

(* Whatever a server sends and whenever it comes, the loops that read a    *)
(* reply stay within their limit, the client names as many recipients as   *)
(* it has, and the server hears of no other (smtp.c:71-155, 291-347).      *)
THEOREM SessionTypes == Spec => []TypeOK
BY DialogueHolds, DialogueTypes, PTL

-----------------------------------------------------------------------------
(* What holds when the server answers in time and in full.                 *)

(* A client that reads has something to read, or the server has something  *)
(* to answer: no read fails while the connection stands, but that of the   *)
(* greeting after a handshake that has failed.                             *)
Waits ==
  conn = "open" /\ c.pc \in Replied \cup Following
    => \/ toServer # << >> \/ toClient # << >> \/ s.state = "new"
       \/ s.state = "tls" /\ c.pc = "greeting"

Asked(command) == \E i \in 1 .. Len(toServer) : toServer[i] = command
Told(code)     == \E i \in 1 .. Len(toClient) : toClient[i].code = code

(* A server that has not accepted every recipient it has heard of has said *)
(* so, in a line the client reads before any that wants the text, unless   *)
(* the line is lost with the connection.                                   *)
Lost    == conn # "open" /\ toClient = << >>
Refused == \E i \in 1 .. Len(toClient) : toClient[i].code \notin {250, 354}
Taken   == s.accepted = 1 .. s.heard \/ Refused \/ Lost

NoText  == ~Asked("DATA") /\ ~Asked("TEXT") /\ ~Told(354)
DataWaits ==
  /\ c.rcpt = Rcpts /\ ~Asked("TEXT")
  /\ \A i \in 1 .. Len(toServer) : toServer[i] = "DATA" => i = Len(toServer)
  /\ \A i \in 1 .. Len(toClient) : toClient[i].code = 354 =>
       /\ toServer = << >> /\ s.heard = Rcpts /\ s.state = "data"
       /\ \A j \in i .. Len(toClient) : toClient[j].code = 354
TextWanted ==
  /\ toServer = << >> /\ s.accepted = AllRcpts /\ s.state = "data"
  /\ \A i \in 1 .. Len(toClient) : toClient[i].code = 354
TextSent ==
  /\ s.accepted = AllRcpts /\ (Told(250) => s.delivered)
  /\ toServer # << >> => toServer = <<"TEXT">> /\ s.state = "data"
Delivered == s.delivered /\ s.accepted = AllRcpts /\ ~Asked("RCPT")

Stages ==
  /\ c.pc \in Opening \cup Dialogue \cup Naming => NoText
  /\ c.pc \in Naming \cup {"dataReply"} => Taken
  /\ c.pc = "dataReply" => DataWaits
  /\ c.pc = "text" => Lost \/ TextWanted
  /\ c.pc = "textReply" => Lost \/ TextSent
  /\ c.pc \in {"quit", "quitReply"} \/ (c.pc = "done" /\ c.rc = 0) => Delivered

MailInv == DialogueInv /\ (Timely => Waits /\ Stages)

LEMMA DialogueParts ==
  ASSUME DialogueInv
  PROVE  AuthInv /\ Within /\ Wire /\ Greeted /\ Counted /\ Sound
BY DEF DialogueInv, Wire

LEMMA SameOptions ==
  ASSUME DialogueInv, Next
  PROVE  opts' = opts
<1>1. ASSUME NEW r \in Answer(c.pc), ReadMove(r)
      PROVE  opts' = opts
  BY <1>1 DEF ReadMove, Took
<1>2. ASSUME NEW command \in Commands, WriteMove(command)
      PROVE  opts' = opts
  BY <1>2 DEF WriteMove, Puts
<1>3. LocalMove \/ ConnectMove \/ GreetMove \/ HandleMove \/ CloseMove => opts' = opts
  BY DEF LocalMove, Local, ConnectMove, GreetMove, HandleMove, CloseMove
<1> QED
  BY <1>1, <1>2, <1>3, DialogueParts, NextMoves

(* With such a server a read that fails, past the greeting, finds no       *)
(* connection.                                                             *)
LEMMA TimelyRead ==
  ASSUME DialogueInv, Timely, Waits, NEW r \in Answer(c.pc), ReadMove(r)
  PROVE  /\ toClient = << >> =>
              (conn # "open" \/ c.pc = "greeting") /\ r.rc < 0 /\ r.code = -1
         /\ toClient # << >> =>
              /\ r.rc = 0 /\ r.code = toClient[1].code
              /\ r.sep = "-" <=> toClient[1].dash
              /\ 1 \in 1 .. Len(toClient)
<1>1. AuthInv /\ Wire /\ Sound /\ c.pc \in Replied \cup Following
  BY DialogueParts DEF ReadMove
<1>2. CASE toClient = << >>
  <2>1. r.rc < 0 /\ r.code = -1 /\ ReadFails
    BY <1>1, <1>2, AnswerFacts
  <2>2. conn # "open" \/ c.pc = "greeting"
    BY <1>1, <1>2, <2>1 DEF ReadFails, Silent, Timely, Waits
  <2> QED
    BY <1>2, <2>1, <2>2
<1>3. CASE toClient # << >>
  <2>1. 1 \in 1 .. Len(toClient)
    BY <1>1, <1>3, StreamShape
  <2>2. toClient[1] # Bare
    <3>1. toClient[1].code \in Nat
      BY <1>1, <2>1 DEF Sound, Timely, Broken
    <3>2. Bare.code = -1 /\ -1 \notin Nat
      BY DEF Bare, Line
    <3> QED
      BY <3>1, <3>2
  <2> QED
    BY <1>1, <1>3, <2>1, <2>2, AnswerFacts
<1> QED
  BY <1>2, <1>3

LEMMA GrowsSome ==
  ASSUME AuthInv, NEW reply \in Seq(ReplyLine), Len(reply) >= 1, toClient' = toClient \o reply
  PROVE  toClient' # << >>
<1>1. Len(toClient') = Len(toClient) + Len(reply) /\ Len(toClient) \in Nat /\ Len(reply) \in Nat
  BY JoinShape, StreamShape, LenProperties
<1>2. Len(toClient') # 0
  BY <1>1
<1> QED
  BY <1>2, EmptySeq

LEMMA WaitsStep ==
  ASSUME DialogueInv, DialogueInv', Timely, Waits, Next
  PROVE  Waits'
<1>1. AuthInv /\ AuthInv' /\ Within /\ Wire /\ Greeted /\ Sound /\ s \in Servers
  BY DialogueParts DEF DialogueInv, AuthInv, Shapes
<1>2. ASSUME NEW r \in Answer(c.pc), ReadMove(r), conn' = "open",
             c'.pc \in Replied \cup Following
      PROVE  toClient' # << >>
  <2>1. c'.pc \in Following /\ r.sep = "-" /\ Took
    BY <1>2 DEF ReadMove
  <2>2. conn = "open" /\ (c.pc = "greeting" => r.rc = 0)
    BY <1>1, <1>2, <2>1, TookShape DEF ReadMove, Opening, Following, Dialogue, Mechs
  <2>3. toClient # << >> /\ toClient[1].dash
    <3>1. ~(r.rc = 0 /\ r.rc < 0)
      OBVIOUS
    <3> QED
      BY <1>2, <2>1, <2>2, <3>1, TimelyRead
  <2>4. Len(toClient) # 1 /\ Len(toClient) # 0 /\ Len(toClient) \in Nat
    BY <1>1, <2>3, StreamShape DEF Sound
  <2>5. Len(toClient') = Len(toClient) - 1
    BY <1>1, <2>1, <2>3, TookShape
  <2>6. Len(toClient') # 0
    BY <2>4, <2>5
  <2> QED
    BY <2>6, EmptySeq
<1>3. ASSUME NEW command \in Commands, WriteMove(command), conn' = "open"
      PROVE  toServer' # << >>
  <2>1. conn = "open" /\ Len(toServer') = Len(toServer) + 1 /\ Len(toServer) \in Nat
    BY <1>1, <1>3, PutsShape, StreamShape DEF WriteMove
  <2>2. Len(toServer') # 0
    BY <2>1
  <2> QED
    BY <2>2, EmptySeq
<1>4. CASE LocalMove
  <2>1. opts.openssl
    BY DEF Timely
  <2>2. c'.pc \notin Replied \cup Following
    BY <1>4, <2>1 DEF LocalMove, Replied, Following, Mechs
  <2> QED
    BY <2>2 DEF Waits
<1>5. CASE ConnectMove
  <2>1. ASSUME conn' = "open", c'.pc \in Replied \cup Following
        PROVE  s'.state = "new" \/ (s'.state = "tls" /\ c'.pc = "greeting")
    <3>1. c'.pc # "rawssl" /\ c'.pc # "helo" /\ c'.pc # "auth"
      BY <2>1 DEF Replied, Following, Mechs
    <3>2. CASE c.pc = "connect" /\ s' = s /\ c'.pc = IF opts.ssl THEN "rawssl" ELSE "greeting"
      BY <1>1, <3>1, <3>2 DEF Greeted
    <3>3. CASE s' = In("new")
      BY <1>1, <3>3 DEF In, Servers
    <3>4. CASE s' = s /\ c.pc = "rawssl" /\ c'.pc = "greeting"
      BY <1>1, <3>4 DEF Greeted
    <3>5. CASE s' = s /\ c.pc = "connect" /\ conn' = "closed"
      BY <2>1, <3>5
    <3> QED
      BY <1>5, <2>1, <3>1, <3>2, <3>3, <3>4, <3>5 DEF ConnectMove
  <2> QED
    BY <2>1 DEF Waits
<1>6. CASE GreetMove
  <2>1. PICK n \in Nat, code \in Nat, cap \in SomeCaps :
          n # 0 /\ toClient' = toClient \o Lines(code, n, cap)
    BY <1>6 DEF GreetMove
  <2>2. IsReply(Lines(code, n, cap), code, cap)
    BY <2>1, LinesAreReply
  <2>3. toClient' # << >>
    BY <1>1, <2>1, <2>2, GrowsSome DEF IsReply
  <2> QED
    BY <2>3 DEF Waits
<1>7. CASE HandleMove
  <2>1. PICK v, reply : IsReply(reply, v.code, v.cap) /\ toClient' = toClient \o reply
    BY <1>7 DEF HandleMove
  <2>2. toClient' # << >>
    BY <1>1, <2>1, GrowsSome DEF IsReply
  <2> QED
    BY <2>2 DEF Waits
<1>8. CASE CloseMove
  BY <1>8 DEF CloseMove, Waits
<1>9. CASE \E r \in Answer(c.pc) : ReadMove(r)
  BY <1>2, <1>9 DEF Waits
<1>10. CASE \E command \in Commands : WriteMove(command)
  BY <1>3, <1>10 DEF Waits
<1> QED
  BY <1>1, <1>4, <1>5, <1>6, <1>7, <1>8, <1>9, <1>10, NextMoves

(* What is not on its way does not come back.                              *)
LEMMA ToldNoMore ==
  ASSUME AuthInv, NEW code, Took \/ toClient' \in {toClient, << >>}, ~Told(code)
  PROVE  ~Told(code)'
<1> DEFINE good == {l \in ReplyLine : l.code # code}
<1>1. \A i \in 1 .. Len(toClient) : toClient[i] \in good
  BY StreamShape DEF Told
<1> HIDE DEF good
<1>2. \A i \in 1 .. Len(toClient') : toClient'[i] \in good
  BY <1>1, LinesShrink
<1> QED
  BY <1>2 DEF Told, good

LEMMA ToldOther ==
  ASSUME AuthInv, NEW code, NEW reply \in Seq(ReplyLine), toClient' = toClient \o reply,
         \A i \in 1 .. Len(reply) : reply[i].code # code, ~Told(code)
  PROVE  ~Told(code)'
<1> DEFINE good == {l \in ReplyLine : l.code # code}
<1>1. /\ \A i \in 1 .. Len(toClient) : toClient[i] \in good
      /\ \A i \in 1 .. Len(reply) : reply[i] \in good
  BY StreamShape DEF Told
<1> HIDE DEF good
<1>2. \A i \in 1 .. Len(toClient') : toClient'[i] \in good
  BY <1>1, LinesGrow
<1> QED
  BY <1>2 DEF Told, good

LEMMA AskedPuts ==
  ASSUME AuthInv, NEW x, NEW command \in Commands, Puts(command), command # x, ~Asked(x)
  PROVE  ~Asked(x)'
<1>1. CASE conn # "open"
  BY <1>1, PutsShape DEF Asked
<1>2. CASE conn = "open"
  <2>1. /\ Len(toServer') = Len(toServer) + 1 /\ toServer'[Len(toServer) + 1] = command
        /\ \A i \in 1 .. Len(toServer) : toServer'[i] = toServer[i]
        /\ Len(toServer) \in Nat
    BY <1>2, PutsShape, StreamShape
  <2>2. \A i \in 1 .. Len(toServer') : i \in 1 .. Len(toServer) \/ i = Len(toServer) + 1
    BY <2>1
  <2> QED
    BY <2>1, <2>2 DEF Asked
<1> QED
  BY <1>1, <1>2

LEMMA AskedHandled ==
  ASSUME AuthInv, NEW x, HandleMove, ~Asked(x)
  PROVE  ~Asked(x)' /\ toServer[1] # x
<1>1. /\ Len(toServer') = Len(toServer) - 1 /\ Len(toServer) \in Nat /\ Len(toServer) # 0
      /\ \A i \in 1 .. Len(toServer') : toServer'[i] = toServer[i + 1]
  BY StreamShape DEF HandleMove
<1>2. /\ \A i \in 1 .. Len(toServer') : i + 1 \in 1 .. Len(toServer)
      /\ 1 \in 1 .. Len(toServer)
  BY <1>1
<1> QED
  BY <1>1, <1>2 DEF Asked

(* What is read.                                                           *)
LEMMA TakenRead ==
  ASSUME DialogueInv, Timely, Waits, NEW r \in Answer(c.pc), ReadMove(r), Taken,
         r.rc = 0 => r.code = 250, c.pc # "greeting", UNCHANGED <<s, conn>>
  PROVE  Taken'
<1>1. AuthInv /\ Took
  BY DialogueParts DEF ReadMove
<1>2. CASE s.accepted = 1 .. s.heard
  BY <1>2 DEF Taken
<1>3. CASE toClient = << >>
  <2>1. conn # "open" /\ toClient' = << >>
    BY <1>1, <1>3, TimelyRead, TookShape
  <2> QED
    BY <2>1 DEF Taken, Lost
<1>4. CASE Refused /\ toClient # << >>
  <2>1. PICK i \in 1 .. Len(toClient) : toClient[i].code \notin {250, 354}
    BY <1>4 DEF Refused
  <2>2. i # 1
    BY <1>4, <2>1, TimelyRead
  <2>3. /\ Len(toClient') = Len(toClient) - 1 /\ Len(toClient) \in Nat
        /\ \A j \in 1 .. Len(toClient') : toClient'[j] = toClient[j + 1]
    BY <1>1, <1>4, TookShape, StreamShape
  <2>4. PICK j \in 1 .. Len(toClient') : i = j + 1
    BY <2>1, <2>2, <2>3
  <2>5. toClient'[j] = toClient[i]
    BY <2>3, <2>4
  <2>6. Refused'
    BY <2>1, <2>5 DEF Refused
  <2> QED
    BY <2>6 DEF Taken
<1> QED
  BY <1>2, <1>3, <1>4 DEF Taken, Lost

LEMMA StagesRead ==
  ASSUME DialogueInv, Timely, Waits, Stages, NEW r \in Answer(c.pc), ReadMove(r),
         c'.rcpt = c.rcpt
  PROVE  Stages'
<1>1. AuthInv /\ Counted /\ UNCHANGED <<opts, s, conn, toServer>> /\ Took
  BY DialogueParts, TookShape DEF ReadMove
<1>2. /\ toClient = << >> =>
           /\ toClient' = << >> /\ r.rc < 0 /\ r.code = -1
           /\ conn # "open" \/ c.pc = "greeting"
      /\ toClient # << >> =>
           r.rc = 0 /\ r.code = toClient[1].code /\ 1 \in 1 .. Len(toClient)
  BY <1>1, TimelyRead, TookShape
<1>3. NoText => NoText'
  BY <1>1, ToldNoMore DEF NoText, Asked
<1>4. CASE c'.pc = "done" /\ c'.rc = -1
  <2>1. -1 # 0
    OBVIOUS
  <2> QED
    BY <1>4, <2>1 DEF Stages, Opening, Dialogue, Naming, Mechs
<1>5. CASE c'.pc \in {"reset", "textSkip"}
  BY <1>5 DEF Stages, Opening, Dialogue, Naming, Mechs
<1>6. CASE c.pc \in Opening \cup Dialogue /\ c'.pc \in Opening \cup Dialogue
  BY <1>3, <1>6 DEF Stages, Opening, Dialogue, Naming, Mechs
<1>7. CASE c.pc = "mailReply" /\ c'.pc = "rcpt"
  <2>1. c.pc \in Dialogue
    BY <1>7 DEF Dialogue
  <2>2. c.rcpt = 0 /\ s.heard \in Nat /\ s.heard <= 0 /\ s.accepted \subseteq 1 .. s.heard
    BY <1>1, <2>1 DEF Counted, AuthInv, Shapes, Servers
  <2>3. s.accepted = 1 .. s.heard
    <3>1. s.heard = 0
      BY <2>2
    <3>2. 1 .. s.heard = {}
      BY <3>1
    <3> QED
      BY <2>2, <3>2
  <2>4. Taken' /\ NoText'
    BY <1>1, <1>3, <2>1, <2>3 DEF Taken, Stages
  <2> QED
    BY <1>7, <2>4 DEF Stages
<1>8. CASE c.pc = "rcptReply" /\ c'.pc = "rcpt" /\ (r.rc = 0 => r.code = 250)
  <2>1. c.pc \in Naming
    BY <1>8 DEF Naming
  <2>2. Taken' /\ NoText'
    BY <1>1, <1>3, <1>8, <2>1, TakenRead DEF Stages
  <2> QED
    BY <1>8, <2>2 DEF Stages
<1>9. CASE c.pc = "dataReply" /\ c'.pc = "text" /\ (r.rc = 0 => r.code = 354)
  <2>1. CASE toClient = << >>
    <3>1. Lost'
      BY <1>1, <1>2, <1>9, <2>1 DEF Lost
    <3> QED
      BY <1>9, <3>1 DEF Stages, Opening, Dialogue, Naming, Mechs
  <2>2. CASE toClient # << >>
    <3>1. toClient[1].code = 354 /\ 1 \in 1 .. Len(toClient) /\ DataWaits /\ Taken
      BY <1>2, <1>9, <2>2 DEF Stages
    <3>2. /\ toServer = << >> /\ s.heard = Rcpts /\ s.state = "data"
          /\ \A j \in 1 .. Len(toClient) : toClient[j].code = 354
      BY <3>1 DEF DataWaits
    <3>3. s.accepted = AllRcpts
      BY <2>2, <3>1, <3>2 DEF Taken, Refused, Lost, AllRcpts
    <3>4. \A i \in 1 .. Len(toClient') : toClient'[i].code = 354
      <4> DEFINE good == {l \in ReplyLine : l.code = 354}
      <4>1. \A i \in 1 .. Len(toClient) : toClient[i] \in good
        BY <1>1, <3>2, StreamShape
      <4> HIDE DEF good
      <4>2. \A i \in 1 .. Len(toClient') : toClient'[i] \in good
        BY <1>1, <4>1, LinesShrink
      <4> QED
        BY <4>2 DEF good
    <3>5. TextWanted'
      BY <1>1, <3>2, <3>3, <3>4 DEF TextWanted, AllRcpts
    <3> QED
      BY <1>9, <3>5 DEF Stages, Opening, Dialogue, Naming, Mechs
  <2> QED
    BY <2>1, <2>2
<1>10. CASE c.pc = "textReply" /\ c'.pc = "quit" /\ r.code = 250
  <2>1. toClient # << >> /\ toClient[1].code = 250 /\ 1 \in 1 .. Len(toClient)
    <3>1. 250 # -1
      OBVIOUS
    <3> QED
      BY <1>2, <1>10, <3>1
  <2>2. TextSent /\ Told(250)
    BY <1>10, <2>1 DEF Stages, Lost, Told
  <2>3. s.delivered /\ s.accepted = AllRcpts /\ (toServer # << >> => toServer = <<"TEXT">>)
    BY <2>2 DEF TextSent
  <2>4. ~Asked("RCPT")
    <3>1. CASE toServer = << >>
      BY <3>1, EmptySeq DEF Asked
    <3>2. CASE toServer = <<"TEXT">>
      BY <3>2 DEF Asked
    <3> QED
      BY <2>3, <3>1, <3>2
  <2>5. Delivered'
    BY <1>1, <2>3, <2>4 DEF Delivered, Asked, AllRcpts
  <2> QED
    BY <1>10, <2>5 DEF Stages, Opening, Dialogue, Naming, Mechs
<1>11. CASE c.pc = "quitReply" /\ c'.pc = "done" /\ c'.rc = c.rc
  <2>1. Delivered'
    BY <1>1, <1>11 DEF Stages, Delivered, Asked, AllRcpts
  <2> QED
    BY <1>11, <2>1 DEF Stages, Opening, Dialogue, Naming, Mechs
<1>12. CASE c.pc \in Opening /\ c'.pc = "helo"
  <2>1. c'.pc \in Dialogue
    BY <1>12 DEF Dialogue
  <2> QED
    BY <1>6, <1>12, <2>1
<1> QED
  BY <1>4, <1>5, <1>6, <1>7, <1>8, <1>9, <1>10, <1>11, <1>12 DEF ReadMove

(* What is written.                                                        *)
LEMMA StagesWrite ==
  ASSUME DialogueInv, Timely, Stages, NEW command \in Commands, WriteMove(command)
  PROVE  Stages'
<1>1. AuthInv /\ Counted /\ UNCHANGED <<opts, s, conn, toClient>> /\ Puts(command)
  BY DialogueParts, PutsShape DEF WriteMove
<1>2. /\ conn # "open" => toServer' = toServer
      /\ conn = "open" =>
           /\ Len(toServer') = Len(toServer) + 1 /\ toServer'[Len(toServer) + 1] = command
           /\ \A i \in 1 .. Len(toServer) : toServer'[i] = toServer[i]
      /\ Len(toServer) \in Nat
  BY <1>1, PutsShape, StreamShape
<1>3. (NoText /\ command \notin {"DATA", "TEXT"}) => NoText'
  BY <1>1, AskedPuts DEF NoText, Told
<1>4. (c.pc \in Naming) => Taken'
  BY <1>1 DEF Stages, Taken, Refused, Lost
<1>5. CASE c.pc \in Dialogue /\ c'.pc \in Dialogue /\ command \notin {"RCPT", "DATA", "TEXT"}
  BY <1>3, <1>5 DEF Stages, Opening, Dialogue, Naming, Mechs
<1>6. CASE c.pc = "rcpt" /\ c'.pc = "rcptReply" /\ command = "RCPT"
  <2>1. c.pc \in Naming
    BY <1>6 DEF Naming
  <2>2. Taken' /\ NoText'
    BY <1>3, <1>4, <1>6, <2>1 DEF Stages
  <2> QED
    BY <1>6, <2>2 DEF Stages
<1>7. CASE c.pc = "rcpt" /\ c'.pc = "dataReply" /\ command = "DATA" /\ c.rcpt >= Rcpts
           /\ c'.rcpt = c.rcpt
  <2>1. c.pc \in Naming
    BY <1>7 DEF Naming
  <2>2. Taken' /\ NoText
    BY <1>4, <2>1 DEF Stages
  <2>3. c'.rcpt = Rcpts
    BY <1>1, <1>7, LimitAssumption DEF Counted, AuthInv, Shapes, Clients
  <2>4. ~Asked("TEXT")' /\ ~Told(354)'
    BY <1>1, <1>7, <2>2, AskedPuts DEF NoText, Told
  <2>5. ASSUME NEW i \in 1 .. Len(toServer'), toServer'[i] = "DATA"
        PROVE  i = Len(toServer')
    <3>1. i \notin 1 .. Len(toServer) \/ conn = "open"
      BY <1>2, <2>2, <2>5 DEF NoText, Asked
    <3>2. CASE conn = "open"
      <4>1. i \in 1 .. Len(toServer) \/ i = Len(toServer')
        BY <1>2, <3>2
      <4> QED
        BY <1>2, <2>2, <2>5, <3>2, <4>1 DEF NoText, Asked
    <3> QED
      BY <1>2, <2>5, <3>1, <3>2
  <2>6. DataWaits'
    BY <2>3, <2>4, <2>5 DEF DataWaits, Told
  <2> QED
    BY <1>7, <2>2, <2>6 DEF Stages, Opening, Dialogue, Naming, Mechs
<1>8. CASE c'.pc = "resetReply"
  BY <1>8 DEF Stages, Opening, Dialogue, Naming, Mechs
<1>9. CASE c.pc = "text" /\ c'.pc = "textReply" /\ command = "TEXT"
  <2>1. CASE Lost
    <3>1. Lost'
      BY <1>1, <2>1 DEF Lost
    <3> QED
      BY <1>9, <3>1 DEF Stages, Opening, Dialogue, Naming, Mechs
  <2>2. CASE TextWanted
    <3>1. ~Told(250)'
      <4>1. 250 # 354
        OBVIOUS
      <4> QED
        BY <1>1, <2>2, <4>1 DEF TextWanted, Told
    <3>2. toServer' = << >> \/ toServer' = <<"TEXT">>
      <4>1. toServer = << >> /\ Append(<< >>, "TEXT") = <<"TEXT">>
        BY <2>2 DEF TextWanted
      <4> QED
        BY <1>1, <1>9, <4>1 DEF Puts
    <3>3. TextSent'
      BY <1>1, <2>2, <3>1, <3>2 DEF TextWanted, TextSent, AllRcpts
    <3> QED
      BY <1>9, <3>3 DEF Stages, Opening, Dialogue, Naming, Mechs
  <2> QED
    BY <1>9, <2>1, <2>2 DEF Stages
<1>10. CASE c.pc = "quit" /\ c'.pc = "quitReply" /\ command = "QUIT"
  <2>1. Delivered
    BY <1>10 DEF Stages
  <2>2. ~Asked("RCPT")'
    BY <1>1, <1>10, <2>1, AskedPuts DEF Delivered
  <2>3. Delivered'
    BY <1>1, <2>1, <2>2 DEF Delivered, AllRcpts
  <2> QED
    BY <1>10, <2>3 DEF Stages, Opening, Dialogue, Naming, Mechs
<1> QED
  BY <1>5, <1>6, <1>7, <1>8, <1>9, <1>10 DEF WriteMove

(* Neither read nor written.                                               *)
LEMMA StagesLocal ==
  ASSUME DialogueInv, Timely, Stages, LocalMove
  PROVE  Stages'
<1>1. UNCHANGED <<opts, s, conn, toServer, toClient>>
  BY DEF LocalMove, Local
<1>2. opts.openssl
  BY DEF Timely
<1>3. NoText => NoText'
  BY <1>1 DEF NoText, Asked, Told
<1>4. CASE c'.pc = "done" /\ c'.rc = -1
  <2>1. -1 # 0
    OBVIOUS
  <2> QED
    BY <1>4, <2>1 DEF Stages, Opening, Dialogue, Naming, Mechs
<1>5. CASE c'.pc = "exit"
  BY <1>5 DEF Stages, Opening, Dialogue, Naming, Mechs
<1>6. CASE c.pc \in Dialogue /\ c'.pc \in Dialogue
  BY <1>3, <1>6 DEF Stages, Opening, Dialogue, Naming, Mechs
<1> QED
  BY <1>2, <1>4, <1>5, <1>6 DEF LocalMove

LEMMA StagesConnect ==
  ASSUME DialogueInv, Timely, Stages, ConnectMove
  PROVE  Stages'
<1>1. UNCHANGED <<opts, toServer, toClient>>
  BY DEF ConnectMove
<1>2. NoText => NoText'
  BY <1>1 DEF NoText, Asked, Told
<1>3. CASE c'.pc = "done" /\ c'.rc = -1
  <2>1. -1 # 0
    OBVIOUS
  <2> QED
    BY <1>3, <2>1 DEF Stages, Opening, Dialogue, Naming, Mechs
<1>4. CASE /\ c.pc \in {"connect", "rawssl", "handshake"}
           /\ c'.pc \in {"rawssl", "greeting", "helo", "auth"}
  BY <1>2, <1>4 DEF Stages, Opening, Dialogue, Naming, Mechs
<1> QED
  BY <1>3, <1>4 DEF ConnectMove

(* What the server does: it greets, handles a command, or goes away.       *)
LEMMA StagesGreet ==
  ASSUME DialogueInv, Timely, Stages, GreetMove
  PROVE  Stages'
<1>1. AuthInv /\ Greeted /\ s \in Servers /\ s.state = "new" /\ s' = In("start")
      /\ UNCHANGED <<opts, c, conn, toServer>>
  BY DialogueParts DEF GreetMove, AuthInv, Shapes
<1>2. /\ s'.accepted = s.accepted /\ s'.delivered = s.delivered /\ s'.heard = s.heard
  BY <1>1 DEF In, Servers
<1>3. c.pc \in Opening \cup {"done"}
  BY <1>1 DEF Greeted
<1>4. CASE c.pc \in Opening
  <2>1. NoText
    BY <1>4 DEF Stages
  <2>2. PICK n \in Nat, code \in Nat, cap \in SomeCaps :
          n # 0 /\ code # 354 /\ toClient' = toClient \o Lines(code, n, cap)
    BY DEF GreetMove
  <2>3. IsReply(Lines(code, n, cap), code, cap)
    BY <2>2, LinesAreReply
  <2>4. \A i \in 1 .. Len(Lines(code, n, cap)) : Lines(code, n, cap)[i].code # 354
    <3>1. Bare.code # 354 /\ Rest.code # 354
      BY RestShape DEF Bare, Line
    <3> QED
      BY <2>2, <2>3, <3>1 DEF IsReply
  <2>5. ~Told(354)'
    BY <1>1, <2>1, <2>2, <2>3, <2>4, ToldOther DEF IsReply, NoText
  <2>6. NoText'
    BY <1>1, <2>1, <2>5 DEF NoText, Asked
  <2> QED
    BY <1>1, <1>4, <2>6 DEF Stages, Opening, Dialogue, Naming, Mechs
<1>5. CASE c.pc = "done"
  <2>1. c.rc = 0 => Delivered'
    BY <1>1, <1>2, <1>5 DEF Stages, Delivered, Asked, AllRcpts
  <2> QED
    BY <1>1, <1>5, <2>1 DEF Stages, Opening, Dialogue, Naming, Mechs
<1> QED
  BY <1>3, <1>4, <1>5

(* The reply to a command has the code of the verdict in every line.       *)
LEMMA TimelyHandle ==
  ASSUME AuthInv, Timely, HandleMove
  PROVE  \E v : \E reply \in Seq(ReplyLine) :
           /\ IsVerdict(toServer[1], v) /\ s' = v.s
           /\ toClient' = toClient \o reply /\ Len(reply) >= 1
           /\ \A i \in 1 .. Len(reply) : reply[i].code = v.code
<1>1. PICK v, reply : /\ IsVerdict(toServer[1], v) /\ s' = v.s
                      /\ IsReply(reply, v.code, v.cap) /\ toClient' = toClient \o reply
  BY DEF HandleMove
<1>2. ~Broken
  BY DEF Timely, Broken
<1> QED
  BY <1>1, <1>2 DEF IsReply

LEMMA TakenHandle ==
  ASSUME AuthInv, Counted, Timely, Taken, conn = "open", HandleMove
  PROVE  Taken'
<1>1. PICK v : \E reply \in Seq(ReplyLine) :
           /\ IsVerdict(toServer[1], v) /\ s' = v.s
           /\ toClient' = toClient \o reply /\ Len(reply) >= 1
           /\ \A i \in 1 .. Len(reply) : reply[i].code = v.code
  BY TimelyHandle
<1>2. PICK reply \in Seq(ReplyLine) :
           /\ IsVerdict(toServer[1], v) /\ s' = v.s
           /\ toClient' = toClient \o reply /\ Len(reply) >= 1
           /\ \A i \in 1 .. Len(reply) : reply[i].code = v.code
  BY <1>1
<1>3. /\ Len(toClient') = Len(toClient) + Len(reply)
      /\ \A i \in 1 .. Len(toClient) : toClient'[i] = toClient[i]
      /\ \A i \in 1 .. Len(reply) : toClient'[Len(toClient) + i] = reply[i]
      /\ Len(toClient) \in Nat /\ Len(reply) \in Nat
  BY <1>2, JoinShape, StreamShape, LenProperties
<1>4. CASE Refused
  <2>1. PICK i \in 1 .. Len(toClient) : toClient[i].code \notin {250, 354}
    BY <1>4 DEF Refused
  <2>2. i \in 1 .. Len(toClient') /\ toClient'[i] = toClient[i]
    BY <1>3
  <2> QED
    BY <2>1, <2>2 DEF Taken, Refused
<1>5. CASE v.code \notin {250, 354}
  <2>1. /\ 1 \in 1 .. Len(reply) /\ Len(toClient) + 1 \in 1 .. Len(toClient')
        /\ toClient'[Len(toClient) + 1] = reply[1]
    BY <1>2, <1>3
  <2> QED
    BY <1>2, <1>5, <2>1 DEF Taken, Refused
<1>6. CASE s.accepted = 1 .. s.heard /\ v.code \in {250, 354}
  <2>1. CASE toServer[1] = "RCPT"
    <3>1. s'.heard = s.heard + 1 /\ s'.accepted = s.accepted \cup {s.heard + 1}
      <4>1. "RCPT" # "DATA" /\ 250 # 550 /\ 250 # 503
        OBVIOUS
      <4> QED
        BY <1>2, <1>6, <2>1, <4>1 DEF IsVerdict
    <3>2. \A n \in Nat : (1 .. n) \cup {n + 1} = 1 .. n + 1
      OBVIOUS
    <3>3. s.heard \in Nat
      BY DEF AuthInv, Shapes, Servers
    <3>4. s'.accepted = 1 .. s'.heard
      BY <1>6, <3>1, <3>2, <3>3
    <3> QED
      BY <3>4 DEF Taken
  <2>2. CASE toServer[1] # "RCPT"
    <3>1. s'.heard = s.heard /\ s'.accepted = s.accepted
      BY <1>2, <2>2 DEF IsVerdict
    <3> QED
      BY <1>6, <3>1 DEF Taken
  <2> QED
    BY <2>1, <2>2
<1> QED
  BY <1>4, <1>5, <1>6 DEF Taken, Lost

(* The one verdict that asks for the text is on the command that is last.  *)
LEMMA DataHandled ==
  ASSUME AuthInv, AuthInv', Counted, Counted', Timely, DataWaits, conn = "open", HandleMove
  PROVE  DataWaits'
<1>1. PICK v : \E reply \in Seq(ReplyLine) :
           /\ IsVerdict(toServer[1], v) /\ s' = v.s
           /\ toClient' = toClient \o reply /\ Len(reply) >= 1
           /\ \A i \in 1 .. Len(reply) : reply[i].code = v.code
  BY TimelyHandle
<1>2. PICK reply \in Seq(ReplyLine) :
           /\ IsVerdict(toServer[1], v) /\ s' = v.s
           /\ toClient' = toClient \o reply /\ Len(reply) >= 1
           /\ \A i \in 1 .. Len(reply) : reply[i].code = v.code
  BY <1>1
<1>3. /\ Len(toClient') = Len(toClient) + Len(reply)
      /\ \A i \in 1 .. Len(toClient) : toClient'[i] = toClient[i]
      /\ \A i \in 1 .. Len(reply) : toClient'[Len(toClient) + i] = reply[i]
      /\ \A i \in 1 .. Len(toClient') :
           i \in 1 .. Len(toClient) \/ \E j \in 1 .. Len(reply) : i = Len(toClient) + j
      /\ Len(toClient) \in Nat /\ Len(reply) \in Nat
  BY <1>2, JoinShape, StreamShape, LenProperties
<1>4. /\ UNCHANGED <<opts, c, conn>> /\ toServer # << >> /\ Len(toServer) \in Nat
      /\ Len(toServer) # 0 /\ Len(toServer') = Len(toServer) - 1
      /\ \A i \in 1 .. Len(toServer') : toServer'[i] = toServer[i + 1]
  BY StreamShape DEF HandleMove
<1>5. \A i \in 1 .. Len(toServer') : i + 1 \in 1 .. Len(toServer)
  BY <1>4
<1>6. ~Asked("TEXT")'
  BY AskedHandled DEF DataWaits
<1>7. ASSUME NEW i \in 1 .. Len(toServer'), toServer'[i] = "DATA"
      PROVE  i = Len(toServer')
  <2>1. i + 1 = Len(toServer)
    BY <1>4, <1>5, <1>7 DEF DataWaits
  <2> QED
    BY <1>4, <2>1
<1>8. \A i \in 1 .. Len(toClient) : toClient[i].code # 354
  BY <1>4 DEF DataWaits
<1>9. ASSUME NEW i \in 1 .. Len(toClient'), toClient'[i].code = 354
      PROVE  /\ toServer' = << >> /\ s'.heard = Rcpts /\ s'.state = "data"
             /\ \A j \in i .. Len(toClient') : toClient'[j].code = 354
  <2>1. i \notin 1 .. Len(toClient)
    BY <1>3, <1>8, <1>9
  <2>2. PICK k \in 1 .. Len(reply) : i = Len(toClient) + k
    BY <1>3, <2>1
  <2>3. v.code = 354 /\ toServer[1] = "DATA" /\ s'.state = "data"
    BY <1>2, <1>3, <1>9, <2>2 DEF IsVerdict
  <2>4. toServer' = << >>
    <3>1. 1 \in 1 .. Len(toServer)
      BY <1>4
    <3>2. Len(toServer) = 1
      BY <2>3, <3>1 DEF DataWaits
    <3>3. Len(toServer') = 0 /\ toServer' \in Seq(Commands)
      BY <1>4, <3>2 DEF AuthInv, Shapes
    <3> QED
      BY <3>3, EmptySeq
  <2>5. s'.heard = Rcpts
    <3>1. PICK d \in 0 .. Len(toServer') : Rcpt(toServer', c'.rcpt - s'.heard, d)
      BY <1>4 DEF Counted, OnTheirWay
    <3>2. Len(toServer') = 0
      BY <2>4, EmptySeq
    <3>3. c'.rcpt - s'.heard <= 0
      BY <3>1, <3>2 DEF Rcpt
    <3>4. c'.rcpt = Rcpts /\ s'.heard <= c'.rcpt /\ s'.heard \in Nat /\ c'.rcpt \in Nat
      BY <1>4, LimitAssumption DEF DataWaits, Counted, AuthInv, Shapes, Servers
    <3> QED
      BY <3>3, <3>4
  <2>6. ASSUME NEW j \in i .. Len(toClient')
        PROVE  toClient'[j].code = 354
    <3>1. j \in 1 .. Len(toClient') /\ j \notin 1 .. Len(toClient)
      BY <1>3, <2>2
    <3>2. PICK m \in 1 .. Len(reply) : j = Len(toClient) + m
      BY <1>3, <3>1
    <3> QED
      BY <1>2, <1>3, <2>3, <3>2
  <2> QED
    BY <2>3, <2>4, <2>5, <2>6
<1> QED
  BY <1>4, <1>6, <1>7, <1>9 DEF DataWaits

LEMMA StagesHandle ==
  ASSUME DialogueInv, DialogueInv', Timely, Stages, conn = "open", HandleMove
  PROVE  Stages'
<1>1. AuthInv /\ AuthInv' /\ Counted /\ Counted' /\ UNCHANGED <<opts, c, conn>>
  BY DialogueParts DEF HandleMove, DialogueInv
<1>2. PICK v : \E reply \in Seq(ReplyLine) :
           /\ IsVerdict(toServer[1], v) /\ s' = v.s
           /\ toClient' = toClient \o reply /\ Len(reply) >= 1
           /\ \A i \in 1 .. Len(reply) : reply[i].code = v.code
  BY <1>1, TimelyHandle
<1>3. PICK reply \in Seq(ReplyLine) :
           /\ IsVerdict(toServer[1], v) /\ s' = v.s
           /\ toClient' = toClient \o reply /\ Len(reply) >= 1
           /\ \A i \in 1 .. Len(reply) : reply[i].code = v.code
  BY <1>2
<1>4. ~Lost /\ toServer # << >>
  BY DEF Lost, HandleMove
<1>5. NoText => NoText'
  <2> SUFFICES ASSUME NoText PROVE NoText'
    OBVIOUS
  <2>1. ~Asked("DATA")' /\ ~Asked("TEXT")' /\ toServer[1] # "DATA"
    BY <1>1, AskedHandled DEF NoText
  <2>2. v.code # 354
    BY <1>3, <2>1 DEF IsVerdict
  <2>3. ~Told(354)'
    BY <1>1, <1>3, <2>2, ToldOther DEF NoText
  <2> QED
    BY <2>1, <2>3 DEF NoText
<1>6. c.pc \in Naming \cup {"dataReply"} => Taken'
  BY <1>1, TakenHandle DEF Stages
<1>7. c.pc = "dataReply" => DataWaits'
  BY <1>1, DataHandled DEF Stages
<1>8. c.pc # "text"
  BY <1>4 DEF Stages, TextWanted
<1>9. c.pc = "textReply" => TextSent'
  <2> SUFFICES ASSUME c.pc = "textReply" PROVE TextSent'
    OBVIOUS
  <2>1. TextSent
    BY <1>4 DEF Stages
  <2>2. toServer = <<"TEXT">>
    BY <1>4, <2>1 DEF TextSent
  <2>3. Len(toServer) = 1 /\ toServer[1] = "TEXT"
    BY <2>2
  <2>4. toServer' = << >>
    <3>1. Len(toServer') = 0 /\ toServer' \in Seq(Commands)
      BY <1>1, <2>3 DEF HandleMove, AuthInv, Shapes
    <3> QED
      BY <3>1, EmptySeq
  <2>5. s'.accepted = AllRcpts
    <3>1. "TEXT" # "RCPT"
      OBVIOUS
    <3> QED
      BY <1>3, <2>1, <2>3, <3>1 DEF IsVerdict, TextSent
  <2>6. ASSUME ~s'.delivered
        PROVE  ~Told(250)'
    <3>1. ~s.delivered /\ v.code # 250
      BY <1>3, <2>3, <2>6 DEF IsVerdict
    <3>2. ~Told(250)
      BY <2>1, <3>1 DEF TextSent
    <3> QED
      BY <1>1, <1>3, <3>1, <3>2, ToldOther
  <2> QED
    BY <1>1, <2>4, <2>5, <2>6 DEF TextSent, AllRcpts
<1>10. Delivered => Delivered'
  <2> SUFFICES ASSUME Delivered PROVE Delivered'
    OBVIOUS
  <2>1. ~Asked("RCPT")' /\ toServer[1] # "RCPT"
    BY <1>1, AskedHandled DEF Delivered
  <2>2. s'.delivered /\ s'.accepted = AllRcpts
    BY <1>3, <2>1 DEF IsVerdict, Delivered
  <2> QED
    BY <2>1, <2>2 DEF Delivered, AllRcpts
<1> QED
  BY <1>1, <1>5, <1>6, <1>7, <1>8, <1>9, <1>10 DEF Stages

LEMMA StagesClose ==
  ASSUME DialogueInv, Timely, Stages, CloseMove
  PROVE  Stages'
<1>1. AuthInv /\ UNCHANGED <<opts, c, s>> /\ conn' = "closed" /\ toServer' = << >>
      /\ toClient' \in {toClient, << >>}
  BY DialogueParts DEF CloseMove
<1>2. \A x : ~Asked(x)'
  BY <1>1, EmptySeq DEF Asked
<1>3. NoText => NoText'
  BY <1>1, <1>2, ToldNoMore DEF NoText
<1>4. toClient' = << >> => Lost'
  BY <1>1 DEF Lost
<1>5. Taken => Taken'
  BY <1>1, <1>4 DEF Taken, Refused, Lost
<1>6. DataWaits => DataWaits'
  <2>1. CASE toClient' = toClient
    BY <1>1, <1>2, <2>1, EmptySeq DEF DataWaits
  <2>2. CASE toClient' = << >>
    BY <1>1, <1>2, <2>2, EmptySeq DEF DataWaits
  <2> QED
    BY <1>1, <2>1, <2>2
<1>7. (Lost \/ TextWanted) => (Lost' \/ TextWanted')
  BY <1>1, <1>4 DEF TextWanted, Lost, AllRcpts
<1>8. (Lost \/ TextSent) => (Lost' \/ TextSent')
  BY <1>1, <1>4 DEF TextSent, Lost, Told, AllRcpts
<1>9. Delivered => Delivered'
  BY <1>1, <1>2 DEF Delivered, AllRcpts
<1> QED
  BY <1>1, <1>3, <1>5, <1>6, <1>7, <1>8, <1>9 DEF Stages

LEMMA StagesStep ==
  ASSUME DialogueInv, DialogueInv', Timely, Waits, Stages, Next
  PROVE  Stages'
<1>1. CASE \E r \in Answer(c.pc) : ReadMove(r) /\ c'.rcpt = c.rcpt
  BY <1>1, StagesRead
<1>2. CASE \E command \in Commands : WriteMove(command)
  BY <1>2, StagesWrite
<1>3. CASE LocalMove \/ ConnectMove
  BY <1>3, StagesLocal, StagesConnect
<1>4. CASE conn = "open" /\ (GreetMove \/ HandleMove \/ CloseMove)
  BY <1>4, StagesGreet, StagesHandle, StagesClose
<1> QED
  BY <1>1, <1>2, <1>3, <1>4, DialogueParts, NextMoves

LEMMA MailStart ==
  ASSUME Init
  PROVE  MailInv
<1>1. c.pc = "connect" /\ conn = "none" /\ toServer = << >> /\ toClient = << >>
  BY DEF Init
<1>2. Waits
  BY <1>1 DEF Waits
<1>3. NoText
  BY <1>1, EmptySeq DEF NoText, Asked, Told
<1>4. Stages
  BY <1>1, <1>3 DEF Stages, Naming
<1> QED
  BY <1>2, <1>4, DialogueStart DEF MailInv

LEMMA MailStep ==
  ASSUME MailInv, [Next]_vars
  PROVE  MailInv'
<1>1. DialogueInv /\ DialogueInv'
  BY DialogueStep DEF MailInv
<1>2. CASE Next
  <2>1. Timely' = Timely
    BY <1>1, <1>2, SameOptions DEF Timely
  <2> QED
    BY <1>1, <1>2, <2>1, WaitsStep, StagesStep DEF MailInv
<1>3. CASE UNCHANGED vars
  <2>1. Timely' = Timely /\ Waits' = Waits
    BY <1>3 DEF vars, Timely, Waits
  <2>2. /\ NoText' = NoText /\ Taken' = Taken /\ DataWaits' = DataWaits
        /\ Lost' = Lost /\ TextWanted' = TextWanted /\ TextSent' = TextSent
        /\ Delivered' = Delivered /\ c' = c
    BY <1>3 DEF vars, NoText, Taken, Refused, DataWaits, Lost, TextWanted, TextSent,
                Delivered, Asked, Told, AllRcpts
  <2>3. Stages' = Stages
    BY <2>2 DEF Stages
  <2> QED
    BY <1>1, <2>1, <2>3 DEF MailInv
<1> QED
  BY <1>2, <1>3

(* With a build that has OpenSSL and a server that answers in time and in  *)
(* full, send_the_mail returns 0 only when every recipient is accepted and *)
(* the text delivered: no line of a reply that is left unread is taken for *)
(* the answer to a later command (smtp.c:1411-1822).                       *)
THEOREM SuccessIsDelivery == Spec => []TimelySuccessMeansAccepted
<1>1. MailInv => TimelySuccessMeansAccepted
  BY DEF MailInv, Stages, Delivered, TimelySuccessMeansAccepted, SuccessMeansAccepted
<1> QED
  BY <1>1, MailStart, MailStep, PTL DEF Spec

(* With such a server the text goes out, as long as the connection stands, *)
(* only when every recipient is accepted and the server has asked for it   *)
(* (smtp_RCPT_TO, smtp_DATA and smtpEom, smtp.c:291-395).                  *)
THEOREM TextIsAskedFor == Spec => []TextIsAwaited
<1>1. MailInv => TextIsAwaited
  <2> SUFFICES ASSUME MailInv, Timely, c.pc \in {"text", "textReply"}, conn = "open"
               PROVE  s.accepted = AllRcpts /\ (toServer # << >> \/ c.pc = "text"
                                                  => s.state = "data")
    BY DEF TextIsAwaited
  <2>1. ~Lost
    BY DEF Lost
  <2> QED
    BY <2>1 DEF MailInv, Stages, TextWanted, TextSent
<1> QED
  BY <1>1, MailStart, MailStep, PTL DEF Spec
=============================================================================
