------------------------------ MODULE FdEvent ------------------------------
(***************************************************************************)
(* The event loop of module/input/in_event.c, in its select() variant.     *)
(*                                                                         *)
(* Clients register fdevents, each for one file descriptor, and ask for    *)
(* events.  One turn of the loop asks select() which descriptors are       *)
(* ready, puts their fdevents on the pending list, and then calls the      *)
(* callback of each until the list is empty.  A callback may use the whole *)
(* interface on any fdevent: that is where orders nobody wrote down occur. *)
(* Everything runs in one thread; other processes make descriptors ready   *)
(* and write the notes that wake the subprocess handler up.                *)
(***************************************************************************)
EXTENDS Integers, Sequences, FiniteSets

CONSTANTS
  Clients,     \* the fdevents of the clients
  Malloced,    \* those of them that fdevent_create allocates
  Notify,      \* the fdevent of the subprocess notification socket
  MaxFd,       \* the largest descriptor the kernel hands out
  TableStart,  \* first size of fd_table (256)
  PtrInts,     \* sizeof(fdevent*) / sizeof(int): 2 on a 64-bit build
  MaxCalls,    \* bound: interface calls of one callback
  MaxNotes,    \* bound: notes waiting in the notification socket
  Scope,       \* "any": callbacks touch every fdevent, "own": only theirs
  BadFds       \* TRUE: a descriptor may be closed behind the loop's back

ASSUME ObjectAssumption ==
  /\ Malloced \subseteq Clients
  /\ Notify \notin Clients
  /\ IsFiniteSet(Clients)
  /\ "none" \notin Clients \cup {Notify}
  /\ "junk" \notin Clients \cup {Notify}

ASSUME BoundAssumption ==
  /\ MaxFd \in Nat /\ TableStart \in Nat \ {0}
  /\ PtrInts \in {1, 2}
  /\ MaxCalls \in Nat /\ MaxNotes \in Nat
  /\ Scope \in {"own", "any"} /\ BadFds \in BOOLEAN

Fdes == Clients \cup {Notify}
Fds  == 0 .. MaxFd
Events == {"R", "W"}      \* FDE_READ, FDE_WRITE; FDE_ERROR is like these
NotifyFd == 0             \* s[1] of the socket pair: any number would do

None == "none"            \* an empty slot of fd_table
Junk == "junk"            \* a slot realloc grew and memset did not reach

VARIABLES
  fde,       \* the fdevent objects
  heap,      \* objects malloc'd and not freed
  fd_table, select_n, fd_sets, list_pending,
  openFds, ready, notes,  \* the kernel: descriptors, readiness, the socket
  pc, cur, calls,         \* where the loop is, and the callback that runs
  aborted                 \* None, or why FATAL or a bad pointer ended it

fdeVars  == <<fde, heap>>
loopVars == <<fd_table, select_n, fd_sets, list_pending>>
envVars  == <<openFds, ready, notes>>
vars     == <<fdeVars, loopVars, envVars, pc, cur, calls, aborted>>

Blank == [fd |-> 0, active |-> FALSE, created |-> FALSE, pending |-> FALSE,
          want |-> {}, events |-> {}, force_eof |-> FALSE]
NoCall == [f |-> None, ev |-> {}]

Init ==
  /\ fde = [f \in Fdes |-> Blank]
  /\ heap = {}
  /\ fd_table = << >> /\ select_n = 0
  /\ fd_sets = [e \in Events |-> {}]
  /\ list_pending = << >>
  /\ openFds = {} /\ ready = [e \in Events |-> {}] /\ notes = << >>
  /\ pc = "setup" /\ cur = NoCall /\ calls = 0
  /\ aborted = None

(* FATAL, or an access through a pointer that is none, ends the program.   *)
Abort(why) ==
  /\ aborted' = why
  /\ pc' = "abort"
  /\ UNCHANGED <<fdeVars, loopVars, envVars, cur>>

-----------------------------------------------------------------------------
(* fd_table, whose slot for descriptor i is fd_table[i + 1].               *)

TableMax == Len(fd_table)
Entry(i) == fd_table[i + 1]

Sizes == {TableStart * (2 ^ k) : k \in 0 .. MaxFd}
GrownSize(fd) == CHOOSE n \in Sizes : n > fd /\ \A m \in Sizes : m > fd => n <= m

(* The doubling loop of fdevent_register ends, with room for fd.           *)
ASSUME GrowthAssumption ==
  \A fd \in Fds : GrownSize(fd) \in Nat /\ GrownSize(fd) > fd

(* realloc and memset: the memset counts in ints, so that with 8-byte      *)
(* pointers only the first half of the new slots is cleared; the others    *)
(* hold whatever the allocator left there.                                 *)
Grown(fd) ==
  IF fd < TableMax THEN {fd_table}
  ELSE LET n == GrownSize(fd)
           cleared == (n - TableMax) \div PtrInts
       IN {[i \in 1 .. n |-> IF i <= TableMax THEN fd_table[i]
                             ELSE IF i \in dirty THEN Junk ELSE None] :
             dirty \in SUBSET (TableMax + cleared + 1 .. n)}

(* fdevent_disconnect: one past the last slot in use, 1 when there is none;*)
(* the scan runs while the slot of the fdevent itself is still taken.      *)
Used == {i \in 0 .. select_n - 1 : Entry(i) # None}

(* Mutants: the scan ends one too early, or one too late.                  *)
RescannedShort == {CHOOSE i \in Used \cup {0} : \A j \in Used : j <= i}
RescannedLong  == {select_n + 1}

Rescanned == {i + 1 : i \in {k \in Used \cup {0} : \A j \in Used : j <= k}}

-----------------------------------------------------------------------------
(* The pending list.  Unlinking a node that is not linked follows its null *)
(* pointers.                                                               *)

Linked(f) == \E i \in DOMAIN list_pending : list_pending[i] = f

(* Mutant: the node is left where it is.                                   *)
WithoutNone(f) == list_pending

Without(f) ==
  LET k == CHOOSE i \in DOMAIN list_pending : list_pending[i] = f
  IN [i \in 1 .. Len(list_pending) - 1 |->
        IF i < k THEN list_pending[i] ELSE list_pending[i + 1]]

(* The orders in which a scan by descriptor meets the fdevents in S.       *)
Ascending(S) ==
  {s \in [1 .. Cardinality(S) -> S] :
     /\ \A f \in S : \E i \in DOMAIN s : s[i] = f
     /\ \A i, j \in DOMAIN s : i < j => fde[s[i]].fd < fde[s[j]].fd}

-----------------------------------------------------------------------------
(* The interface, as it changes fde and the loop's variables.              *)

(* fdevent_install, and fdevent_create around it.                          *)
Register(f, fd, mallocd) ==
  /\ \E t \in Grown(fd) : fd_table' = [t EXCEPT ![fd + 1] = f]
  /\ select_n' = IF fd >= select_n THEN fd + 1 ELSE select_n
  /\ fde' = [fde EXCEPT ![f] = [Blank EXCEPT !.fd = fd, !.active = TRUE,
                                             !.created = mallocd]]
  /\ heap' = IF mallocd THEN heap \cup {f} ELSE heap
  /\ UNCHANGED <<fd_sets, list_pending>>

(* FD_CLR on each of the sets.  Mutant: the write set is forgotten.        *)
ClearedRead(fd) == [fd_sets EXCEPT !["R"] = @ \ {fd}]
Cleared(fd) == [e \in Events |-> fd_sets[e] \ {fd}]

(* fdevent_remove, and fdevent_destroy, which adds a check only.  The      *)
(* descriptor is closed with it.                                           *)
Remove(f) ==
  IF \/ fde[f].pending /\ ~Linked(f)
     \/ fde[f].active /\ (fde[f].fd >= TableMax \/ Entry(fde[f].fd) # f)
  THEN Abort("fd_table out of sync")
  ELSE /\ list_pending' = IF fde[f].pending THEN Without(f) ELSE list_pending
       /\ fde' = [fde EXCEPT ![f] = [@ EXCEPT !.active = FALSE, !.created = FALSE,
                       !.pending = FALSE, !.want = {}, !.events = {}]]
       /\ IF fde[f].active
          THEN /\ fd_sets' = Cleared(fde[f].fd)
               /\ select_n' \in Rescanned
               /\ fd_table' = [fd_table EXCEPT ![fde[f].fd + 1] = None]
               /\ openFds' = openFds \ {fde[f].fd}
               /\ ready' = [e \in Events |-> ready[e] \ {fde[f].fd}]
          ELSE UNCHANGED <<fd_sets, select_n, fd_table, openFds, ready>>
       /\ UNCHANGED <<heap, notes, pc, cur, aborted>>

(* A mask that takes the last event away from a pending fdevent.  Mutant:  *)
(* it stays on the list.                                                   *)
DropsNever(f, mask) == FALSE
Drops(f, mask) == fde[f].pending /\ fde[f].events \ mask = {}

(* fdevent_set(fde, mask) on an active fdevent, then on to next.  On a     *)
(* pending one it takes the events of the new mask away from those that    *)
(* wait to be signalled, and unlinks the fdevent when none is left.        *)
SetMask(f, mask, next) ==
  LET left == fde[f].events \ mask
      drop == Drops(f, mask)
  IN \/ /\ fde[f].want = mask
        /\ pc' = next
        /\ UNCHANGED <<fdeVars, loopVars, envVars, cur, aborted>>
     \/ /\ fde[f].want # mask
        /\ IF drop /\ ~Linked(f) THEN Abort("not linked")
           ELSE /\ fd_sets' = [e \in Events |->
                     IF e \in mask THEN fd_sets[e] \cup {fde[f].fd}
                                   ELSE fd_sets[e] \ {fde[f].fd}]
                /\ fde' = [fde EXCEPT ![f] = [@ EXCEPT !.want = mask,
                             !.events = IF fde[f].pending THEN left ELSE fde[f].events,
                             !.pending = fde[f].pending /\ ~drop]]
                /\ list_pending' = IF drop THEN Without(f) ELSE list_pending
                /\ pc' = next
                /\ UNCHANGED <<heap, fd_table, select_n, envVars, cur, aborted>>

-----------------------------------------------------------------------------
(* Clients: calls of the interface before the loop and from callbacks.     *)

InClient == pc \in {"setup", "client"} /\ calls < MaxCalls
MayTouch(f) == Scope = "any" \/ pc = "setup" \/ f = cur.f

ClientInstall(f, fd) ==
  /\ InClient
  /\ ~fde[f].active /\ f \notin heap
  /\ fd \notin openFds \cup {NotifyFd}            \* a new descriptor,
  /\ \A g \in Fdes : fde[g].active => fde[g].fd # fd   \* in nobody's use
  /\ Register(f, fd, f \in Malloced)
  /\ openFds' = openFds \cup {fd}
  /\ calls' = calls + 1
  /\ UNCHANGED <<ready, notes, pc, cur, aborted>>

ClientRemove(f) ==
  /\ InClient /\ MayTouch(f) /\ fde[f].active
  /\ calls' = calls + 1
  /\ Remove(f)

ClientSet(f, mask) ==
  /\ InClient /\ MayTouch(f) /\ fde[f].active
  /\ SetMask(f, mask, pc)
  /\ calls' = calls + 1

ClientAdd(f, ev) == ClientSet(f, fde[f].want \cup ev)
ClientDel(f, ev) == ClientSet(f, fde[f].want \ ev)

(* The callback reads or writes its own descriptor until it would block.   *)
ClientConsume(e) ==
  /\ pc = "client"
  /\ fde[cur.f].active /\ fde[cur.f].fd \in ready[e]
  /\ ready' = [ready EXCEPT ![e] = @ \ {fde[cur.f].fd}]
  /\ UNCHANGED <<fdeVars, loopVars, openFds, notes, pc, cur, calls, aborted>>

ClientReturn ==
  /\ pc = "client"
  /\ pc' = "drain" /\ cur' = NoCall /\ calls' = 0
  /\ UNCHANGED <<fdeVars, loopVars, envVars, aborted>>

-----------------------------------------------------------------------------
(* fdevent_loop                                                            *)

(* The program has registered its fdevents and enters the loop, which      *)
(* starts with fdevent_subproc_setup: the notification socket is opened,   *)
(* its fdevent created, and READ added.                                    *)
EnterLoop ==
  /\ pc = "setup"
  /\ \E t \in Grown(NotifyFd) : fd_table' = [t EXCEPT ![NotifyFd + 1] = Notify]
  /\ select_n' = IF NotifyFd >= select_n THEN NotifyFd + 1 ELSE select_n
  /\ fde' = [fde EXCEPT ![Notify] = [Blank EXCEPT !.fd = NotifyFd, !.active = TRUE,
                                        !.created = TRUE, !.want = {"R"}]]
  /\ heap' = heap \cup {Notify}
  /\ fd_sets' = [fd_sets EXCEPT !["R"] = @ \cup {NotifyFd}]
  /\ openFds' = openFds \cup {NotifyFd}
  /\ pc' = "select" /\ calls' = 0
  /\ UNCHANGED <<list_pending, ready, notes, cur, aborted>>

(* What select() finds: the descriptors below select_n that are asked for  *)
(* and ready; EBADF when one that is asked for is not open.                *)
IsReady(i, e) == i \in ready[e] \/ (i = NotifyFd /\ e = "R" /\ notes # << >>)

(* Mutant: select() is given one descriptor too few.                       *)
SelectedBelow(e) == {i \in fd_sets[e] : i < select_n - 1 /\ IsReady(i, e)}

Selected(e) == {i \in fd_sets[e] : i < select_n /\ IsReady(i, e)}
Asked == {i \in UNION {fd_sets[e] : e \in Events} : i < select_n}

(* The scan of fdevent_process over the sets that came back.               *)
Scan(bits) ==
  LET hit == UNION {bits[e] : e \in Events}
      hitFdes == {Entry(i) : i \in hit}
  IN IF hitFdes \subseteq Fdes
     THEN LET new == {f \in hitFdes : ~fde[f].pending}
          IN /\ \E s \in Ascending(new) : list_pending' = list_pending \o s
             /\ fde' = [f \in Fdes |->
                  IF f \in hitFdes
                  THEN [fde[f] EXCEPT !.pending = TRUE,
                          !.events = @ \cup {e \in Events : fde[f].fd \in bits[e]}]
                  ELSE fde[f]]
             /\ pc' = "drain"
             /\ UNCHANGED <<heap, fd_table, select_n, fd_sets, envVars, cur, calls,
                            aborted>>
     ELSE /\ Abort(IF None \in hitFdes THEN "missing fde" ELSE "bad pointer")
          /\ UNCHANGED calls

ProcessReady ==
  /\ pc = "select"
  /\ Asked \subseteq openFds
  /\ \E e \in Events : Selected(e) # {}
  /\ Scan([e \in Events |-> Selected(e)])

(* EBADF: fdevent_fd_check fakes a read on every slot in use whose         *)
(* descriptor is not open.                                                 *)
BadSlots == {i \in 0 .. select_n - 1 : Entry(i) # None /\ i \notin openFds}

ProcessBadFd ==
  /\ pc = "select"
  /\ ~(Asked \subseteq openFds)
  /\ Scan([e \in Events |-> IF e = "R" THEN BadSlots ELSE {}])

(* EINTR: nothing is done in this turn.                                    *)
ProcessInterrupted ==
  /\ pc = "select"
  /\ pc' = "drain"
  /\ UNCHANGED <<fdeVars, loopVars, envVars, cur, calls, aborted>>

(* Dequeue and call: the events are taken out, then the callback runs.     *)
(* Mutant: FDE_PENDING is not cleared.                                     *)
DispatchKeepsFlag ==
  /\ pc = "drain" /\ list_pending # << >>
  /\ LET f == Head(list_pending)
     IN /\ list_pending' = Tail(list_pending)
        /\ fde' = [fde EXCEPT ![f].events = {}]
        /\ cur' = [f |-> f, ev |-> fde[f].events]
        /\ pc' = IF f = Notify THEN "subproc" ELSE "client"
  /\ calls' = 0
  /\ UNCHANGED <<heap, fd_table, select_n, fd_sets, envVars, aborted>>

Dispatch ==
  /\ pc = "drain" /\ list_pending # << >>
  /\ LET f == Head(list_pending)
     IN /\ list_pending' = Tail(list_pending)
        /\ fde' = [fde EXCEPT ![f] = [@ EXCEPT !.events = {}, !.pending = FALSE]]
        /\ IF fde[f].pending
           THEN /\ cur' = [f |-> f, ev |-> fde[f].events]
                /\ pc' = IF f = Notify THEN "subproc" ELSE "client"
           ELSE UNCHANGED <<cur, pc>>
  /\ calls' = 0
  /\ UNCHANGED <<heap, fd_table, select_n, fd_sets, envVars, aborted>>

TurnEnds ==
  /\ pc = "drain" /\ list_pending = << >>
  /\ pc' = "select"
  /\ UNCHANGED <<fdeVars, loopVars, envVars, cur, calls, aborted>>

(* fdevent_subproc_event_func: hooks itself back in, then takes the        *)
(* descriptor of the shell that ended out of the socket.                   *)
SubprocHook ==
  /\ pc = "subproc"
  /\ SetMask(Notify, fde[Notify].want \cup {"R"},
             IF "R" \in cur.ev THEN "note" ELSE "drain")
  /\ UNCHANGED calls

(* The fdevent that is registered for the descriptor learns that its shell *)
(* is gone.  With no data left to read, and no event pending already, its  *)
(* callback is called on the spot.                                         *)
ForceEof(fd) ==
  LET f == Entry(fd)
      marked == [fde EXCEPT ![f].force_eof = TRUE]
  IN \/ /\ fd \in ready["R"]
        /\ fde' = marked /\ pc' = "drain" /\ cur' = NoCall
     \/ /\ fd \notin ready["R"] /\ fde[f].pending
        /\ fde' = [marked EXCEPT ![f].events = @ \cup {"R"}]
        /\ pc' = "drain" /\ cur' = NoCall
     \/ /\ fd \notin ready["R"] /\ ~fde[f].pending
        /\ fde' = [marked EXCEPT ![f].events = {}]
        /\ pc' = "client" /\ cur' = [f |-> f, ev |-> fde[f].events \cup {"R"}]

NothingFound ==
  /\ pc' = "drain" /\ cur' = NoCall
  /\ UNCHANGED fde

SubprocNote ==
  /\ pc = "note"
  /\ UNCHANGED calls
  /\ IF notes = << >> THEN Abort("no note")
     ELSE LET fd == Head(notes).fd
              found == fd < TableMax /\ Entry(fd) # None
          IN IF found /\ Entry(fd) = Junk THEN Abort("bad pointer")
             ELSE /\ IF found /\ fde[Entry(fd)].fd = fd THEN ForceEof(fd)
                                                      ELSE NothingFound
                  /\ notes' = Tail(notes)
                  /\ UNCHANGED <<heap, loopVars, openFds, ready, aborted>>

-----------------------------------------------------------------------------
(* Other processes.                                                        *)

FdBecomesReady(i, e) ==
  /\ aborted = None
  /\ i \in openFds \ {NotifyFd} /\ i \notin ready[e]
  /\ ready' = [ready EXCEPT ![e] = @ \cup {i}]
  /\ UNCHANGED <<fdeVars, loopVars, openFds, notes, pc, cur, calls, aborted>>

(* The thread that waits for a shell writes the descriptor of its terminal.*)
(* owner is a history: the fdevent that the descriptor belongs to by then. *)
ShellExits(f) ==
  /\ aborted = None
  /\ pc # "setup" /\ fde[f].active
  /\ Len(notes) < MaxNotes
  /\ notes' = Append(notes, [fd |-> fde[f].fd, owner |-> f])
  /\ UNCHANGED <<fdeVars, loopVars, openFds, ready, pc, cur, calls, aborted>>

FdGoesBad(i) ==
  /\ BadFds /\ aborted = None
  /\ i \in openFds \ {NotifyFd}
  /\ openFds' = openFds \ {i}
  /\ ready' = [e \in Events |-> ready[e] \ {i}]
  /\ UNCHANGED <<fdeVars, loopVars, notes, pc, cur, calls, aborted>>

Process == ProcessReady \/ ProcessBadFd
Drain == Dispatch \/ TurnEnds \/ SubprocHook \/ SubprocNote
Client ==
  \/ \E f \in Clients, fd \in Fds : ClientInstall(f, fd)
  \/ \E f \in Clients : ClientRemove(f)
  \/ \E f \in Clients, m \in SUBSET Events :
       ClientSet(f, m) \/ ClientAdd(f, m) \/ ClientDel(f, m)
  \/ \E e \in Events : ClientConsume(e)
Others ==
  \/ \E i \in Fds, e \in Events : FdBecomesReady(i, e)
  \/ \E f \in Clients : ShellExits(f)
  \/ \E i \in Fds : FdGoesBad(i)

Next ==
  \/ EnterLoop \/ ProcessInterrupted
  \/ Process \/ Drain \/ Client \/ ClientReturn \/ Others

Spec == Init /\ [][Next]_vars

(* The loop runs on, a callback returns, and signals do not interrupt      *)
(* every single select().  Other processes owe nothing.                    *)
LoopFairness == /\ WF_vars(EnterLoop) /\ SF_vars(Process)
                /\ WF_vars(Drain) /\ WF_vars(ClientReturn)

-----------------------------------------------------------------------------
(* Type correctness of the loop's state.                                   *)
FdeType == [fd : Fds, active : BOOLEAN, created : BOOLEAN, pending : BOOLEAN,
            want : SUBSET Events, events : SUBSET Events, force_eof : BOOLEAN]
TypeOK ==
  /\ fde \in [Fdes -> FdeType] /\ heap \subseteq Fdes
  /\ fd_table \in Seq(Fdes \cup {None, Junk})
  /\ select_n \in 0 .. MaxFd + 1
  /\ fd_sets \in [Events -> SUBSET Fds]
  /\ list_pending \in Seq(Fdes)
  /\ openFds \subseteq Fds /\ ready \in [Events -> SUBSET Fds]
  /\ notes \in Seq([fd : Fds, owner : Clients])
  /\ pc \in {"setup", "select", "drain", "client", "subproc", "note",
             "abort"}
  /\ cur \in [f : Fdes \cup {None}, ev : SUBSET Events]
  /\ calls \in 0 .. MaxCalls
  /\ aborted \in {None, "fd_table out of sync", "missing fde", "not linked",
                  "bad pointer", "no note"}

(* FDE_PENDING says exactly which fdevents are on the list, each once,     *)
(* whatever callbacks do to fdevents that wait (in_event.c:508, 568, 612,  *)
(* 642): neither a callback is lost nor a freed node is left linked.       *)
PendingIsLinked ==
  /\ \A f \in Fdes : fde[f].pending <=> Linked(f)
  /\ \A i, j \in DOMAIN list_pending :
       list_pending[i] = list_pending[j] => i = j

(* An fdevent on the list has an event to be called for (in_event.c:648).  *)
PendingHasEvents == \A f \in Fdes : fde[f].pending => fde[f].events # {}

(* The table and the fdevents agree: an active fdevent is in the slot of   *)
(* its descriptor and a slot below select_n holds nothing else.            *)
TableAgrees ==
  /\ \A f \in Fdes : fde[f].active =>
       fde[f].fd < TableMax /\ Entry(fde[f].fd) = f /\ fde[f].fd < select_n
  /\ \A i \in 0 .. select_n - 1 : Entry(i) # None =>
       Entry(i) \in Fdes /\ fde[Entry(i)].active /\ fde[Entry(i)].fd = i

(* select() is asked for exactly what the active fdevents want             *)
(* (in_event.c:268-301, 629-640).                                          *)
SetsAgree ==
  \A e \in Events :
    fd_sets[e] = {fde[f].fd : f \in {g \in Fdes : fde[g].active /\ e \in fde[g].want}}

(* The two copies that the loop keeps of what the fdevents say, the table  *)
(* and the sets for select(), are true of them after any sequence of calls *)
(* from callbacks.                                                         *)
CopiesAgree == TableAgrees /\ SetsAgree

(* No legal use of the interface reaches FATAL or a bad pointer.           *)
NeverAborts == aborted = None

(* A callback starts only for an fdevent that is registered and for at     *)
(* least one event, although callbacks before it in the same turn may have *)
(* removed it or changed its mask (in_event.c:508-516, 571).               *)
CallsOnlyLive ==
  [][cur' # cur /\ cur'.f # None => fde[cur'.f].active /\ cur'.ev # {}]_vars

(* in_event.c:303 and 413 take it that a slot in use below select_n holds  *)
(* the fdevent of a descriptor: "Looks at fd_table[] for bad FDs".         *)
SlotsHoldFdes ==
  pc = "select" => \A i \in 0 .. select_n - 1 : Entry(i) # None => Entry(i) \in Fdes

(* What waits is called or withdrawn.                                      *)
PendingServed == \A f \in Fdes : fde[f].pending ~> ~fde[f].pending

(* A descriptor that is ready for an event its fdevent wants is reported   *)
(* as long as both stay so.                                                *)
Due(f, e) == /\ pc # "setup"
             /\ fde[f].active /\ e \in fde[f].want /\ fde[f].fd \in ready[e]
ReadyServed == \A f \in Clients, e \in Events :
  Due(f, e) ~> (cur.f = f \/ ~Due(f, e))

(* in_event.c:643-645 says of fdevent_set: "if we're pending, make sure we *)
(* don't signal an event that is no longer wanted".                        *)
NoUnwantedSignal ==
  [][\A f \in Clients :
       fde[f].active /\ fde'[f].active /\ fde'[f].want # fde[f].want
       /\ fde[f].pending => fde'[f].events \subseteq fde'[f].want]_vars

(* in_event.c:547 asks "Already reallocated?" of a descriptor found in a   *)
(* note: only the fdevent of the shell that ended is forced to its end.    *)
EofOnlyForItsShell ==
  [][\A f \in Clients : fde'[f].force_eof /\ ~fde[f].force_eof =>
       notes # << >> /\ Head(notes).owner = f]_vars
=============================================================================
