-------------------------- MODULE MCSerialConsole --------------------------
(* Small instances of SerialConsole: buffers of a few words, and texts that  *)
(* the device sends word by word or line by line.                            *)
EXTENDS SerialConsole

Words == {<<"text">>, <<NewLine>>}
Line(word) == <<word, NewLine>>
PromptsAndLogins == {Line("isbootcmd"), Line("loginstart")}
AllLines == PromptsAndLogins \cup {Line("ubootstart")}
=============================================================================
