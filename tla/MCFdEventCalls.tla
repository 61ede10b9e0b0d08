--------------------------- MODULE MCFdEventCalls ---------------------------
(* The event loop with two kinds of clients, chosen in the initial state:  *)
(* callbacks that use the interface on any fdevent, with descriptors that  *)
(* are closed behind the loop's back, and callbacks that use it only on    *)
(* their own.  Both are one specification with other constants.            *)
EXTENDS MCFdEvent

VARIABLE clients   \* "any" or "own"

Own == INSTANCE FdEvent WITH Scope <- "own", MaxCalls <- 1, BadFds <- FALSE

CallsInit == Init /\ clients \in {"any", "own"}
CallsNext ==
  /\ UNCHANGED clients
  /\ \/ clients = "any" /\ Next
     \/ clients = "own" /\ Own!Next

(* The fairness of FdEvent: what the loop does by itself is the same for   *)
(* both kinds of clients.                                                  *)
CallsSpec ==
  /\ CallsInit /\ [][CallsNext]_<<vars, clients>>
  /\ LoopFairness

(* What is pending or ready is served where callbacks keep to themselves:  *)
(* any other callback may take it away again and again (in_event.c:388,    *)
(* 557-582).                                                               *)
OwnPendingServed == clients = "own" => PendingServed
OwnReadyServed == clients = "own" => ReadyServed
=============================================================================
