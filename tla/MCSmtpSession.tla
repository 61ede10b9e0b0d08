--------------------------- MODULE MCSmtpSession ---------------------------
(* Settings and servers for the model checker.                             *)
EXTENDS SmtpSession, TLC

(* A run whose attachment is missing is a quiet one too: both settings     *)
(* matter only once.                                                       *)
Setting(starttls, ssl, mechs, missing) ==
  [starttls |-> starttls, ssl |-> ssl, auth |-> mechs # {}, mechs |-> mechs,
   quiet |-> missing, esmtp |-> FALSE, missing |-> missing]

Clear == Setting(FALSE, FALSE, {}, FALSE)
Cram  == Setting(FALSE, FALSE, {"CRAM-MD5"}, FALSE)
Raw   == Setting(FALSE, TRUE, {}, FALSE)

(* The settings, and a world around them.                                  *)
Around(settings, world) == {set @@ world : set \in settings}
World(openssl, late, bare, close, lines) ==
  [openssl |-> openssl, late |-> late, bare |-> bare, close |-> close, lines |-> lines,
   pieces |-> FALSE]
InPieces(world) == [world EXCEPT !.pieces = TRUE]

(* A server that answers in time, in any number of lines, or goes away; a  *)
(* build without OpenSSL, and servers that are late, terse, silent or      *)
(* gone.                                                                   *)
AllSessions ==
  Around({Clear, Cram, Raw, Setting(TRUE, FALSE, {"LOGIN"}, FALSE),
      Setting(FALSE, TRUE, {"PLAIN"}, TRUE)}, World(TRUE, FALSE, FALSE, TRUE, {1, 2, 3, 4}))
  \cup
  Around({Clear, Cram, Raw, Setting(TRUE, FALSE, {"LOGIN", "PLAIN"}, FALSE)},
     World(FALSE, TRUE, TRUE, TRUE, {1, 2}))
  \cup
  Around({Setting(TRUE, FALSE, {"PLAIN"}, FALSE)}, World(TRUE, TRUE, FALSE, FALSE, {1}))
  \cup
  Around({Cram}, InPieces(World(TRUE, TRUE, FALSE, FALSE, {1})))
LateSession == Around({Clear}, World(TRUE, TRUE, FALSE, FALSE, {1}))

NoCaps == {{}}
AllCaps == {{}, {"STARTTLS"}, {"AUTH", "LOGIN"}, {"AUTH", "PLAIN", "CRAM-MD5"}}
=============================================================================
