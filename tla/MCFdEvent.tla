------------------------------ MODULE MCFdEvent ------------------------------
(* Small instances of FdEvent: two client fdevents, a, which fdevent_create  *)
(* allocates, and b, which its owner installs, and two descriptors beside    *)
(* the one of the notification socket, whose fdevent is shell.               *)
EXTENDS FdEvent
CONSTANTS a, b, shell
=============================================================================
