--------------------------- MODULE SerialConsole ---------------------------
(***************************************************************************)
(* The serial console of module/serial/serial_example: the main loop reads *)
(* the device into read_buffer and wakes the printf thread, which cuts the *)
(* text into lines and answers them by putting commands on a message       *)
(* queue; a writer thread types the commands into the device.  The queue   *)
(* is shared with serial_msg and outlives the process.                     *)
(*                                                                         *)
(* A byte stands for a word of the text: one of the strings that the       *)
(* console looks for, anything else ("text"), or the end of a line.        *)
(***************************************************************************)
EXTENDS Integers, Sequences, FiniteSets

CONSTANTS
  BufSize,   \* READ_BUFFER_SIZE (256)
  Slack,     \* what read_buffer has beyond it, and the size of line_pr (128)
  Chunks,    \* the pieces of text that the device sends at a time
  TtySize,   \* bound: bytes waiting in the kernel's tty buffer
  QueueLen,  \* how many messages the message queue takes
  ExtMsgs,   \* what serial_msg sends: {"reboot"}
  MayRestart \* TRUE: the program may end and be started again

NewLine == "nl"
None == "none"

ASSUME SizeAssumption ==
  /\ BufSize \in Nat \ {0} /\ Slack \in Nat \ {0} /\ Slack < BufSize
  /\ QueueLen \in Nat \ {0} /\ TtySize \in Nat
Bytes == {"ubootstart", "isbootcmd", "loginstart", "text", NewLine}

ASSUME InputAssumption ==
  /\ Chunks \subseteq Seq(Bytes)
  /\ ExtMsgs \subseteq {"reboot"} /\ MayRestart \in BOOLEAN

VARIABLES
  tty, edge,          \* the kernel: bytes to read, the edge epoll will report
  read_buffer, read_start, read_end,
  mpc,                \* main: "wait", "lock", or "signal" with the lock held
  ppc,                \* the printf thread
  pr_buffer,          \* what of its buffer the printf thread has not scanned
  line_buffer,        \* the start of a line whose end has not come
  buf,                \* the line handed to tty_context_handle last
  u_boot_cmd,
  msgq, wpc,          \* the message queue, the writer thread
  crash,              \* None, or the buffer that was overrun
  missed, early       \* histories, see the properties

ttyVars   == <<tty, edge>>
readVars  == <<read_buffer, read_start, read_end>>
printVars == <<pr_buffer, line_buffer, buf>>
histVars  == <<missed, early>>
vars == <<ttyVars, readVars, mpc, ppc, printVars, u_boot_cmd, msgq, wpc,
          crash, histVars>>

Capacity == BufSize + Slack

Init ==
  /\ tty = << >> /\ edge = FALSE
  /\ read_buffer = [i \in 0 .. Capacity - 1 |-> None]
  /\ read_start = 0 /\ read_end = 0
  /\ mpc = "wait" /\ ppc = "enter"
  /\ pr_buffer = << >> /\ line_buffer = << >> /\ buf = << >>
  /\ u_boot_cmd = 0
  /\ msgq = << >> /\ wpc = "recv"
  /\ crash = None
  /\ missed = FALSE /\ early = FALSE

(* A write past the end of a buffer has no defined effect: the run ends.   *)
Crash(where) ==
  /\ crash' = where
  /\ UNCHANGED <<ttyVars, readVars, mpc, ppc, printVars, u_boot_cmd, msgq, wpc,
                 histVars>>

Runs == crash = None

-----------------------------------------------------------------------------
(* main: epoll_wait, edge-triggered, then one read under the write lock.   *)

EpollWait ==
  /\ Runs /\ mpc = "wait" /\ edge
  /\ edge' = FALSE
  /\ IF tty = << >> THEN mpc' = mpc ELSE mpc' = "lock"
  /\ UNCHANGED <<tty, readVars, ppc, printVars, u_boot_cmd, msgq, wpc, crash, histVars>>

(* Mutant: a read takes no more than line_pr holds.                        *)
ReadSizeSmall == IF Len(tty) < Slack THEN Len(tty) ELSE Slack
ReadSize == IF Len(tty) < BufSize THEN Len(tty) ELSE BufSize

(* The read puts the bytes at read_end; line_pr gets a copy for the log.   *)
MainRead ==
  /\ Runs /\ mpc = "lock"
  /\ LET size == ReadSize
     IN IF read_end + size > Capacity THEN Crash("read_buffer")
        ELSE IF size > Slack THEN Crash("line_pr")
        ELSE /\ read_buffer' = [i \in DOMAIN read_buffer |->
                  IF i \in read_end .. read_end + size - 1
                  THEN tty[i - read_end + 1] ELSE read_buffer[i]]
             /\ read_end' = read_end + size
             /\ tty' = SubSeq(tty, size + 1, Len(tty))
             /\ mpc' = "signal"
             /\ UNCHANGED <<edge, read_start, ppc, printVars, u_boot_cmd, msgq, wpc,
                            crash, histVars>>

(* Mutant: nobody is woken.                                                *)
MainForgets ==
  /\ Runs /\ mpc = "signal"
  /\ mpc' = "wait"
  /\ UNCHANGED <<ttyVars, readVars, ppc, printVars, u_boot_cmd, msgq, wpc, crash, histVars>>

(* The signal reaches the printf thread only when it waits already.        *)
MainSignal ==
  /\ Runs /\ mpc = "signal"
  /\ mpc' = "wait"
  /\ IF ppc = "wait" THEN ppc' = "woken" /\ UNCHANGED missed
                     ELSE missed' = TRUE /\ UNCHANGED ppc
  /\ UNCHANGED <<ttyVars, readVars, printVars, u_boot_cmd, msgq, wpc, crash,
                 early>>

(* read() fails, the device is unplugged: size is -1, not 0.               *)
MainReadFails ==
  /\ Runs /\ mpc = "lock"
  /\ Crash("size -1")

-----------------------------------------------------------------------------
(* The printf thread.                                                      *)

PrintWaits ==
  /\ Runs /\ ppc = "enter"
  /\ ppc' = "wait"
  /\ UNCHANGED <<ttyVars, readVars, mpc, printVars, u_boot_cmd, msgq, wpc, crash, histVars>>

(* pthread_cond_wait may return without a signal.                          *)
SpuriousWakeup ==
  /\ Runs /\ ppc = "wait"
  /\ ppc' = "woken"
  /\ UNCHANGED <<ttyVars, readVars, mpc, printVars, u_boot_cmd, msgq, wpc, crash, histVars>>

(* Where the next read goes.  Mutant: no return to the start of the buffer.*)
NextStartOnly == read_end
NextStart == IF read_end >= BufSize THEN 0 ELSE read_end

(* Under the read lock: take all that main has put in.                     *)
PrintTakes ==
  /\ Runs /\ ppc = "woken" /\ mpc # "signal"
  /\ LET size == read_end - read_start
     IN IF size > BufSize THEN Crash("pr_buffer")
        ELSE /\ IF size <= 0 THEN ppc' = "enter" /\ UNCHANGED <<pr_buffer, readVars>>
                ELSE /\ ppc' = "scan"
                     /\ pr_buffer' = [i \in 1 .. size |-> read_buffer[read_start + i - 1]]
                     /\ read_start' = NextStart /\ read_end' = NextStart
                     /\ UNCHANGED read_buffer
             /\ missed' = FALSE
             /\ UNCHANGED <<ttyVars, mpc, line_buffer, buf, u_boot_cmd, msgq, wpc,
                            crash, early>>

(* Mutant: the first byte is not looked at.                                *)
LineEndsLater == {i \in DOMAIN pr_buffer : i > 1 /\ pr_buffer[i] = NewLine}
LineEnds == {i \in DOMAIN pr_buffer : pr_buffer[i] = NewLine}

(* The next whole line, ended by a NUL, goes to tty_context_handle.        *)
PrintLine ==
  /\ Runs /\ ppc = "scan"
  /\ \E k \in LineEnds :
       LET text == line_buffer \o SubSeq(pr_buffer, 1, k)
       IN /\ \A i \in LineEnds : k <= i
          /\ IF Len(text) + 1 > BufSize THEN Crash("line_buffer")
             ELSE /\ buf' = text
                  /\ line_buffer' = << >>
                  /\ pr_buffer' = SubSeq(pr_buffer, k + 1, Len(pr_buffer))
                  /\ ppc' = "handle"
                  /\ UNCHANGED <<ttyVars, readVars, mpc, u_boot_cmd, msgq, wpc, crash,
                                 histVars>>

(* What is left waits for the end of its line.                             *)
PrintKeeps ==
  /\ Runs /\ ppc = "scan" /\ LineEnds = {}
  /\ IF Len(line_buffer) + Len(pr_buffer) > BufSize THEN Crash("line_buffer")
     ELSE /\ line_buffer' = line_buffer \o pr_buffer
          /\ pr_buffer' = << >>
          /\ ppc' = "enter"
          /\ UNCHANGED <<ttyVars, readVars, mpc, buf, u_boot_cmd, msgq, wpc, crash, histVars>>

-----------------------------------------------------------------------------
(* tty_context_handle.  The check of u_boot_cmd and msgsnd come first, the *)
(* new value of u_boot_cmd only then: the writer may be in between.        *)

Has(word) == \E i \in DOMAIN buf : buf[i] = word

(* msgsnd with IPC_NOWAIT: on a full queue the message is gone.            *)
Sent(m) == IF Len(msgq) < QueueLen THEN Append(msgq, m) ELSE msgq

InFlight == Cardinality({i \in DOMAIN msgq : msgq[i] = "boot"})
            + (IF wpc \in {"boot", "crlf"} THEN 1 ELSE 0)

HandleNothing ==
  /\ Runs /\ ppc = "handle"
  /\ \/ Has("ubootstart")                       \* five times CR LF, no command
     \/ Has("isbootcmd") /\ u_boot_cmd # 0
     \/ ~Has("isbootcmd") /\ ~Has("loginstart")
  /\ ppc' = "scan"
  /\ UNCHANGED <<ttyVars, readVars, mpc, printVars, u_boot_cmd, msgq, wpc, crash, histVars>>

(* Mutant: the flag is not looked at.                                      *)
HandlePromptAgain ==
  /\ Runs /\ ppc = "handle"
  /\ ~Has("ubootstart") /\ Has("isbootcmd")
  /\ msgq' = Sent("boot")
  /\ ppc' = "mark"
  /\ UNCHANGED <<ttyVars, readVars, mpc, printVars, u_boot_cmd, wpc, crash,
                 histVars>>

HandlePrompt ==
  /\ Runs /\ ppc = "handle"
  /\ ~Has("ubootstart") /\ Has("isbootcmd") /\ u_boot_cmd = 0
  /\ msgq' = Sent("boot")
  /\ ppc' = "mark"
  /\ UNCHANGED <<ttyVars, readVars, mpc, printVars, u_boot_cmd, wpc, crash,
                 histVars>>

MarkBoot ==
  /\ Runs /\ ppc = "mark"
  /\ u_boot_cmd' = 1
  /\ ppc' = "scan"
  /\ UNCHANGED <<ttyVars, readVars, mpc, printVars, msgq, wpc, crash,
                 histVars>>

HandleLogin ==
  /\ Runs /\ ppc = "handle"
  /\ ~Has("ubootstart") /\ ~Has("isbootcmd") /\ Has("loginstart")
  /\ msgq' = Sent("login")
  /\ ppc' = "unmark"
  /\ UNCHANGED <<ttyVars, readVars, mpc, printVars, u_boot_cmd, wpc, crash,
                 histVars>>

UnmarkBoot ==
  /\ Runs /\ ppc = "unmark"
  /\ u_boot_cmd' = 0
  /\ ppc' = "scan"
  /\ early' = (early \/ InFlight > 0)
  /\ UNCHANGED <<ttyVars, readVars, mpc, printVars, msgq, wpc, crash,
                 missed>>

-----------------------------------------------------------------------------
(* The writer thread: a message, the command, the end of the command.      *)

(* Mutant: the message is of no kind that it knows.                        *)
WriterIgnores ==
  /\ Runs /\ wpc = "recv" /\ msgq # << >>
  /\ msgq' = Tail(msgq)
  /\ UNCHANGED <<ttyVars, readVars, mpc, ppc, printVars, u_boot_cmd, wpc, crash,
                 histVars>>

WriterReceives ==
  /\ Runs /\ wpc = "recv" /\ msgq # << >>
  /\ wpc' = Head(msgq) /\ msgq' = Tail(msgq)
  /\ UNCHANGED <<ttyVars, readVars, mpc, ppc, printVars, u_boot_cmd, crash,
                 histVars>>

WriterTypesBoot ==
  /\ Runs /\ wpc = "boot"
  /\ wpc' = "crlf"
  /\ UNCHANGED <<ttyVars, readVars, mpc, ppc, printVars, u_boot_cmd, msgq, crash, histVars>>

WriterEndsBoot ==
  /\ Runs /\ wpc = "crlf"
  /\ u_boot_cmd' = 0
  /\ wpc' = "recv"
  /\ UNCHANGED <<ttyVars, readVars, mpc, ppc, printVars, msgq, crash,
                 histVars>>

WriterTypesOther ==
  /\ Runs /\ wpc \in {"login", "reboot"}
  /\ wpc' = "recv"
  /\ UNCHANGED <<ttyVars, readVars, mpc, ppc, printVars, u_boot_cmd, msgq, crash, histVars>>

-----------------------------------------------------------------------------
(* The device, other processes, and the user who starts the program again. *)

DeviceSends(chunk) ==
  /\ Len(tty) + Len(chunk) <= TtySize
  /\ tty' = tty \o chunk /\ edge' = TRUE
  /\ UNCHANGED <<readVars, mpc, ppc, printVars, u_boot_cmd, msgq, wpc, crash,
                 histVars>>

SerialMsg(m) ==
  /\ msgq' = Sent(m)
  /\ UNCHANGED <<ttyVars, readVars, mpc, ppc, printVars, u_boot_cmd, wpc, crash, histVars>>

(* The process ends, by a crash or because epoll_wait fails, and starts    *)
(* again; the message queue is found as it was.                            *)
Restart ==
  /\ MayRestart
  /\ tty' = << >> /\ edge' = FALSE
  /\ read_buffer' = [i \in 0 .. Capacity - 1 |-> None]
  /\ read_start' = 0 /\ read_end' = 0
  /\ mpc' = "wait" /\ ppc' = "enter"
  /\ pr_buffer' = << >> /\ line_buffer' = << >> /\ buf' = << >>
  /\ u_boot_cmd' = 0 /\ wpc' = "recv"
  /\ crash' = None
  /\ missed' = FALSE
  /\ early' = (early \/ \E i \in DOMAIN msgq : msgq[i] = "boot")
  /\ UNCHANGED msgq

Main == EpollWait \/ MainRead \/ MainSignal
Printf ==
  \/ PrintWaits \/ PrintLine \/ PrintKeeps
  \/ HandleNothing \/ HandlePrompt \/ MarkBoot \/ HandleLogin \/ UnmarkBoot
Writer ==
  WriterReceives \/ WriterTypesBoot \/ WriterEndsBoot \/ WriterTypesOther
Others ==
  \/ \E chunk \in Chunks : DeviceSends(chunk)
  \/ \E m \in ExtMsgs : SerialMsg(m)
  \/ Restart

Next ==
  \/ Main \/ MainReadFails \/ Printf \/ PrintTakes \/ SpuriousWakeup
  \/ Writer \/ Others

Spec == Init /\ [][Next]_vars

(* Every thread runs; readers of the lock are not held off forever.  No    *)
(* fairness for the device, other processes, failures and restarts.        *)
FairSpec == Spec /\ WF_vars(Main) /\ WF_vars(Printf) /\ SF_vars(PrintTakes)
                 /\ WF_vars(Writer)

-----------------------------------------------------------------------------
(* Type correctness; every index stays inside its buffer.                  *)
TypeOK ==
  /\ tty \in Seq(Bytes) /\ Len(tty) <= TtySize /\ edge \in BOOLEAN
  /\ read_buffer \in [0 .. Capacity - 1 -> Bytes \cup {None}]
  /\ read_start \in 0 .. BufSize - 1 /\ read_end \in 0 .. Capacity
  /\ mpc \in {"wait", "lock", "signal"}
  /\ ppc \in {"enter", "wait", "woken", "scan", "handle", "mark", "unmark"}
  /\ pr_buffer \in Seq(Bytes) /\ Len(pr_buffer) <= BufSize
  /\ line_buffer \in Seq(Bytes) /\ Len(line_buffer) <= BufSize
  /\ buf \in Seq(Bytes) /\ Len(buf) < BufSize
  /\ u_boot_cmd \in {0, 1}
  /\ msgq \in Seq({"boot", "login", "reboot"}) /\ Len(msgq) <= QueueLen
  /\ wpc \in {"recv", "boot", "crlf", "login", "reboot"}
  /\ crash \in {None, "read_buffer", "line_pr", "pr_buffer", "line_buffer", "size -1"}
  /\ missed \in BOOLEAN /\ early \in BOOLEAN

(* The text is handled in lines, in order, nothing lost and nothing twice, *)
(* across read_buffer and its resets, pr_buffer and line_buffer            *)
(* (serial_run.cpp:331-374, 555-558).                                      *)
Unread == [i \in 1 .. read_end - read_start |-> read_buffer[read_start + i - 1]]
LR == INSTANCE LineReader WITH
        inflight <- line_buffer \o pr_buffer \o Unread, line <- buf
ImplementsLineReader == LR!Spec

(* Once the printf thread has caught up there is room for the largest read *)
(* that line_pr can hold: this is what the extra 128 bytes are for         *)
(* (serial_run.cpp:46, 343-345).                                           *)
RoomWhenDrained == read_start = read_end => read_end + Slack <= Capacity

(* Text waits for a sleeping printf thread only when it came while the     *)
(* thread was busy (missed: a signal that nobody waited for).              *)
SleepsOnlyOnMissedSignal ==
  Runs /\ ppc = "wait" /\ read_start # read_end /\ mpc # "signal" => missed

(* Main does not sleep over bytes in the kernel, although the edge is      *)
(* reported once and one read follows it: a read that cannot take all      *)
(* overruns line_pr first (serial_run.cpp:549, 555).                       *)
NeverIdleOverBytes == Runs /\ mpc = "wait" /\ tty # << >> => edge

(* Two boot commands are under way only when u_boot_cmd was cleared while  *)
(* one was (early): by a login line or by a new start of the program.      *)
BootRepeatsOnlyAfterReset == InFlight > 1 => early

(* What main announces to a waiting printf thread is taken.                *)
AnnouncedIsTaken ==
  (Runs /\ mpc = "signal" /\ ppc = "wait") ~> (~Runs \/ read_start = read_end)

(* A boot command that got onto the queue is typed and ended.              *)
BootIsTyped == (Runs /\ InFlight > 0) ~> (~Runs \/ wpc = "crlf")

(* serial_run.cpp:52 says of u_boot_cmd that it "should be set 0 after     *)
(* inputting boot cmd": while it is 1 a boot command is still to be input. *)
FlagClearedAfterBoot == u_boot_cmd = 1 => InFlight > 0
=============================================================================
