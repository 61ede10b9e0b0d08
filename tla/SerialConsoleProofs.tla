------------------------- MODULE SerialConsoleProofs -------------------------
(***************************************************************************)
(* Proofs about SerialConsole, for any sizes of the buffers, of the kernel *)
(* buffer and of the message queue, and for any texts that the device may  *)
(* send, in any order of the steps of main, the printf thread, the writer, *)
(* other processes and new starts of the program.                          *)
(***************************************************************************)
EXTENDS SerialConsole, FiniteSetTheorems, SequenceTheorems, TLAPS

(* What read_buffer holds between read_start and read_end was read.        *)
Filled ==
  /\ read_start <= read_end
  /\ \A i \in read_start .. read_end - 1 : read_buffer[i] \in Bytes

(* Main asks for the lock when there is something to read; the printf      *)
(* thread has scanned what it took before it waits again, and what it kept *)
(* has no end of a line.                                                   *)
LockedToRead == mpc = "lock" => tty # << >>
ScannedFirst == ppc \in {"enter", "wait", "woken"} => pr_buffer = << >>
KeptIsPartial == \A i \in 1 .. Len(line_buffer) : line_buffer[i] # NewLine

BufferInv == TypeOK /\ Filled /\ LockedToRead /\ ScannedFirst /\ KeptIsPartial

(* Text that nobody was woken for came while the printf thread was busy.   *)
UnseenIsMissed ==
  Runs /\ ppc # "woken" /\ mpc # "signal" /\ read_start # read_end => missed

(* What the kernel holds is announced, also behind the back of a main that *)
(* has read and not yet come back.                                         *)
UnreadIsAnnounced == Runs /\ mpc # "lock" /\ tty # << >> => edge

(* Until the flag is cleared too early: one boot command at most, and the  *)
(* flag is set, or about to be, while there is one.                        *)
Boots  == {i \in DOMAIN msgq : msgq[i] = "boot"}
Typing == wpc \in {"boot", "crlf"}
OneBoot ==
  ~early =>
    /\ \A i, j \in Boots : i = j
    /\ Typing => Boots = {}
    /\ Typing \/ Boots # {} => u_boot_cmd = 1 \/ ppc = "mark"

-----------------------------------------------------------------------------
(* The buffers.                                                            *)

LEMMA Sizes ==
  /\ BufSize \in Nat \ {0} /\ Slack \in Nat \ {0} /\ Slack < BufSize
  /\ TtySize \in Nat /\ QueueLen \in Nat \ {0}
  /\ Capacity = BufSize + Slack /\ Capacity \in Nat
BY SizeAssumption DEF Capacity

LEMMA Distinct == None \notin Bytes /\ NewLine \in Bytes
BY DEF None, Bytes, NewLine

(* A piece of a sequence is one; so is one sequence behind another.        *)
LEMMA Piece ==
  ASSUME NEW S, NEW q \in Seq(S), NEW m \in Nat \ {0}, NEW n \in Nat, n <= Len(q)
  PROVE  /\ SubSeq(q, m, n) \in Seq(S)
         /\ Len(SubSeq(q, m, n)) = IF m <= n THEN n - m + 1 ELSE 0
         /\ \A i \in 1 .. Len(SubSeq(q, m, n)) : SubSeq(q, m, n)[i] = q[m + i - 1]
<1>1. Len(q) \in Nat
  BY LenProperties
<1>2. \A i \in m .. n : q[i] \in S
  BY <1>1, ElementOfSeq
<1> QED
  BY <1>1, <1>2, SubSeqProperties

LEMMA TypesOfReading ==
  ASSUME BufferInv
  PROVE  /\ tty \in Seq(Bytes) /\ Len(tty) \in Nat /\ Len(tty) <= TtySize
         /\ read_buffer \in [0 .. Capacity - 1 -> Bytes \cup {None}]
         /\ read_start \in Nat /\ read_end \in Nat /\ read_start <= read_end
         /\ read_start < BufSize /\ read_end <= Capacity
<1>1. /\ tty \in Seq(Bytes) /\ Len(tty) <= TtySize
      /\ read_buffer \in [0 .. Capacity - 1 -> Bytes \cup {None}]
      /\ read_start \in 0 .. BufSize - 1 /\ read_end \in 0 .. Capacity
      /\ read_start <= read_end
  BY DEF BufferInv, TypeOK, Filled
<1>2. Len(tty) \in Nat
  BY <1>1, LenProperties
<1> QED
  BY <1>1, <1>2, Sizes

(* The types in parts: the text, the queue, and what controls the threads. *)
TextTypes ==
  /\ tty \in Seq(Bytes) /\ Len(tty) <= TtySize
  /\ read_buffer \in [0 .. Capacity - 1 -> Bytes \cup {None}]
  /\ read_start \in 0 .. BufSize - 1 /\ read_end \in 0 .. Capacity
  /\ pr_buffer \in Seq(Bytes) /\ Len(pr_buffer) <= BufSize
  /\ line_buffer \in Seq(Bytes) /\ Len(line_buffer) <= BufSize
  /\ buf \in Seq(Bytes) /\ Len(buf) < BufSize
QueueTypes ==
  msgq \in Seq({"boot", "login", "reboot"}) /\ Len(msgq) <= QueueLen
PlaceTypes ==
  /\ mpc \in {"wait", "lock", "signal"}
  /\ ppc \in {"enter", "wait", "woken", "scan", "handle", "mark", "unmark"}
  /\ wpc \in {"recv", "boot", "crlf", "login", "reboot"}
  /\ crash \in {None, "read_buffer", "line_pr", "pr_buffer", "line_buffer", "size -1"}
  /\ u_boot_cmd \in {0, 1}
FlagTypes == edge \in BOOLEAN /\ missed \in BOOLEAN /\ early \in BOOLEAN
ThreadTypes == PlaceTypes /\ FlagTypes

LEMMA TypesInParts == TypeOK <=> TextTypes /\ QueueTypes /\ ThreadTypes
BY DEF TypeOK, TextTypes, QueueTypes, ThreadTypes, PlaceTypes, FlagTypes

LEMMA TypesInPartsThen == TypeOK' <=> TextTypes' /\ QueueTypes' /\ ThreadTypes'
BY TypesInParts, PTL

LEMMA PartsTyped ==
  ASSUME BufferInv
  PROVE  TextTypes /\ QueueTypes /\ ThreadTypes /\ PlaceTypes /\ FlagTypes
BY TypesInParts DEF BufferInv, ThreadTypes

LEMMA ThreadTypesKept ==
  ASSUME BufferInv, UNCHANGED <<edge, mpc, ppc, u_boot_cmd, wpc, crash, missed, early>>
  PROVE  ThreadTypes'
<1>1. PlaceTypes'
  BY PartsTyped DEF PlaceTypes
<1>2. FlagTypes'
  BY PartsTyped DEF FlagTypes
<1> QED
  BY <1>1, <1>2 DEF ThreadTypes

LEMMA TextTypesKept ==
  ASSUME BufferInv, UNCHANGED <<readVars, printVars>>, tty' \in Seq(Bytes), Len(tty') <= TtySize,
         QueueTypes', ThreadTypes'
  PROVE  TypeOK'
<1>1. TextTypes'
  BY PartsTyped DEF TextTypes, readVars, printVars
<1> QED
  BY <1>1, TypesInPartsThen

LEMMA TypesKept ==
  ASSUME BufferInv, UNCHANGED <<readVars, printVars, tty>>, QueueTypes', ThreadTypes'
  PROVE  TypeOK'
<1>1. tty' \in Seq(Bytes) /\ Len(tty') <= TtySize /\ UNCHANGED <<readVars, printVars>>
  BY PartsTyped DEF TextTypes
<1> QED
  BY <1>1, TextTypesKept

LEMMA QueueKept ==
  ASSUME BufferInv, UNCHANGED msgq
  PROVE  QueueTypes'
BY PartsTyped DEF QueueTypes

LEMMA PrintingTypes ==
  ASSUME BufferInv, UNCHANGED <<edge, mpc, u_boot_cmd, msgq, wpc, crash, early>>,
         ppc' \in {"enter", "scan", "handle"}, missed' \in {FALSE, missed}, TextTypes'
  PROVE  TypeOK'
<1>1. PlaceTypes'
  BY PartsTyped DEF PlaceTypes
<1>2. FlagTypes'
  BY PartsTyped DEF FlagTypes
<1>3. ThreadTypes'
  BY <1>1, <1>2 DEF ThreadTypes
<1> QED
  BY <1>3, QueueKept, TypesInPartsThen

(* A crash leaves everything as it was.                                    *)
LEMMA CrashKeeps ==
  ASSUME BufferInv, NEW where \in {"read_buffer", "line_pr", "pr_buffer", "line_buffer", "size -1"},
         Crash(where)
  PROVE  BufferInv'
<1>1. TypeOK'
  <2>1. crash' \in {None, "read_buffer", "line_pr", "pr_buffer", "line_buffer", "size -1"}
    BY DEF Crash
  <2>2. UNCHANGED <<readVars, printVars, tty, edge, mpc, ppc, u_boot_cmd, msgq, wpc, missed, early>>
    BY DEF Crash, ttyVars, histVars
  <2>3. PlaceTypes'
    BY <2>1, <2>2, PartsTyped DEF PlaceTypes
  <2>4. FlagTypes'
    BY <2>2, PartsTyped DEF FlagTypes
  <2>5. ThreadTypes'
    BY <2>3, <2>4 DEF ThreadTypes
  <2> QED
    BY <2>2, <2>5, QueueKept, TypesKept
<1>2. Filled'
  BY DEF Crash, BufferInv, Filled, readVars
<1>3. LockedToRead' /\ ScannedFirst' /\ KeptIsPartial'
  BY DEF Crash, BufferInv, LockedToRead, ScannedFirst, KeptIsPartial, ttyVars, printVars
<1> QED
  BY <1>1, <1>2, <1>3 DEF BufferInv

LEMMA MainReadKeeps ==
  ASSUME BufferInv, MainRead
  PROVE  BufferInv'
<1> DEFINE size == ReadSize
<1>1. /\ tty \in Seq(Bytes) /\ Len(tty) \in Nat /\ Len(tty) <= TtySize
      /\ read_buffer \in [0 .. Capacity - 1 -> Bytes \cup {None}]
      /\ read_start \in Nat /\ read_end \in Nat /\ read_start <= read_end
  BY TypesOfReading
<1>2. size \in Nat /\ size <= Len(tty) /\ size <= BufSize
  BY <1>1, Sizes DEF ReadSize
<1> HIDE DEF size
<1>3. CASE Crash("read_buffer") \/ Crash("line_pr")
  BY <1>3, CrashKeeps
<1>4. CASE /\ read_end + size <= Capacity /\ size <= Slack
           /\ read_buffer' = [i \in DOMAIN read_buffer |->
                  IF i \in read_end .. read_end + size - 1
                  THEN tty[i - read_end + 1] ELSE read_buffer[i]]
           /\ read_end' = read_end + size
           /\ tty' = SubSeq(tty, size + 1, Len(tty))
           /\ mpc' = "signal"
           /\ UNCHANGED <<edge, read_start, ppc, printVars, u_boot_cmd, msgq, wpc,
                          crash, histVars>>
  <2>1. /\ tty' \in Seq(Bytes) /\ Len(tty') <= TtySize
    <3>1. size + 1 \in Nat \ {0} /\ Len(tty) <= Len(tty)
      BY <1>1, <1>2
    <3>2. /\ tty' \in Seq(Bytes)
          /\ Len(tty') = IF size + 1 <= Len(tty) THEN Len(tty) - (size + 1) + 1 ELSE 0
      BY <1>1, <1>4, <3>1, Piece
    <3>3. \A n, z \in Nat : n - (z + 1) + 1 <= n
      OBVIOUS
    <3>4. Len(tty') <= Len(tty)
      BY <1>1, <1>2, <3>2, <3>3
    <3>5. Len(tty') \in Nat /\ TtySize \in Nat
      BY <3>2, LenProperties, Sizes
    <3> QED
      BY <1>1, <3>2, <3>4, <3>5
  <2>2. ASSUME NEW i \in read_end .. read_end + size - 1
        PROVE  tty[i - read_end + 1] \in Bytes
    <3>1. i - read_end + 1 \in 1 .. Len(tty)
      <4>1. \A e, z, n \in Nat : z <= n => \A k \in e .. e + z - 1 : k - e + 1 \in 1 .. n
        OBVIOUS
      <4> QED
        BY <1>1, <1>2, <4>1
    <3> QED
      BY <1>1, <3>1, ElementOfSeq
  <2>3. /\ read_buffer' \in [0 .. Capacity - 1 -> Bytes \cup {None}]
        /\ \A i \in read_end .. read_end + size - 1 : read_buffer'[i] \in Bytes
        /\ \A i \in 0 .. read_end - 1 : i < Capacity => read_buffer'[i] = read_buffer[i]
    BY <1>1, <1>2, <1>4, <2>2, Sizes
  <2>4. read_end' \in 0 .. Capacity
    BY <1>1, <1>2, <1>4, Sizes
  <2>5. Filled'
    BY <1>1, <1>2, <1>4, <2>3, Sizes DEF BufferInv, Filled
  <2>6. TypeOK'
    <3>1. TextTypes'
      BY <1>4, <2>1, <2>3, <2>4, PartsTyped DEF TextTypes, printVars
    <3>2. PlaceTypes'
      BY <1>4, PartsTyped DEF PlaceTypes
    <3>3. FlagTypes'
      BY <1>4, PartsTyped DEF FlagTypes, histVars
    <3>4. ThreadTypes'
      BY <3>2, <3>3 DEF ThreadTypes
    <3>5. QueueTypes'
      BY <1>4, QueueKept
    <3> QED
      BY <3>1, <3>4, <3>5, TypesInPartsThen
  <2>7. LockedToRead' /\ ScannedFirst' /\ KeptIsPartial'
    BY <1>4 DEF BufferInv, LockedToRead, ScannedFirst, KeptIsPartial, printVars
  <2> QED
    BY <2>5, <2>6, <2>7 DEF BufferInv
<1> QED
  BY <1>1, <1>2, <1>3, <1>4, Sizes DEF MainRead, size

LEMMA PrintTakesKeeps ==
  ASSUME BufferInv, PrintTakes
  PROVE  BufferInv'
<1> DEFINE size == read_end - read_start
<1>1. /\ read_buffer \in [0 .. Capacity - 1 -> Bytes \cup {None}]
      /\ read_start \in 0 .. BufSize - 1 /\ read_end \in 0 .. Capacity
      /\ read_start <= read_end
  BY DEF BufferInv, TypeOK, Filled
<1>2. size \in Nat
  BY <1>1, Sizes
<1>3. CASE Crash("pr_buffer")
  BY <1>3, CrashKeeps
<1>4. CASE /\ size <= BufSize
           /\ size <= 0 /\ ppc' = "enter" /\ UNCHANGED <<pr_buffer, readVars>>
           /\ missed' = FALSE
           /\ UNCHANGED <<ttyVars, mpc, line_buffer, buf, u_boot_cmd, msgq, wpc,
                          crash, early>>
  <2>1. ppc = "woken"
    BY DEF PrintTakes
  <2>2. TypeOK'
    <3>1. TextTypes'
      BY <1>4, PartsTyped DEF TextTypes, ttyVars, readVars
    <3>2. UNCHANGED <<edge, mpc, u_boot_cmd, msgq, wpc, crash, early>>
      BY <1>4 DEF ttyVars
    <3> QED
      BY <1>4, <3>1, <3>2, PrintingTypes
  <2>3. Filled'
    BY <1>4 DEF BufferInv, Filled, readVars
  <2>4. LockedToRead' /\ ScannedFirst' /\ KeptIsPartial'
    BY <1>4, <2>1 DEF BufferInv, LockedToRead, ScannedFirst, KeptIsPartial, ttyVars
  <2> QED
    BY <2>2, <2>3, <2>4 DEF BufferInv
<1>5. CASE /\ size <= BufSize /\ size > 0
           /\ ppc' = "scan"
           /\ pr_buffer' = [i \in 1 .. size |-> read_buffer[read_start + i - 1]]
           /\ read_start' = NextStart /\ read_end' = NextStart
           /\ UNCHANGED read_buffer
           /\ missed' = FALSE
           /\ UNCHANGED <<ttyVars, mpc, line_buffer, buf, u_boot_cmd, msgq, wpc,
                          crash, early>>
  <2>1. \A i \in 1 .. size : read_buffer[read_start + i - 1] \in Bytes
    BY <1>1, <1>2 DEF BufferInv, Filled
  <2>2. pr_buffer' \in Seq(Bytes) /\ Len(pr_buffer') = size
    <3>1. pr_buffer' \in [1 .. size -> Bytes]
      BY <1>5, <2>1
    <3> HIDE DEF size
    <3>2. pr_buffer' \in Seq(Bytes)
      BY <1>2, <3>1, SeqDef
    <3> QED
      BY <1>2, <3>1, <3>2, LenProperties
  <2>3. NextStart \in 0 .. BufSize - 1 /\ NextStart \in 0 .. Capacity
    BY <1>1, Sizes DEF NextStart
  <2>4. Filled'
    BY <1>5, <2>3, Sizes DEF Filled
  <2>5. TypeOK'
    <3>1. TextTypes'
      BY <1>5, <2>2, <2>3, PartsTyped DEF TextTypes, ttyVars
    <3>2. UNCHANGED <<edge, mpc, u_boot_cmd, msgq, wpc, crash, early>>
      BY <1>5 DEF ttyVars
    <3> QED
      BY <1>5, <3>1, <3>2, PrintingTypes
  <2>6. LockedToRead' /\ ScannedFirst' /\ KeptIsPartial'
    BY <1>5 DEF BufferInv, LockedToRead, ScannedFirst, KeptIsPartial, ttyVars
  <2> QED
    BY <2>4, <2>5, <2>6 DEF BufferInv
<1>6. size > BufSize \/ (size <= BufSize /\ (size <= 0 \/ size > 0))
  BY <1>2, Sizes
<1> QED
  BY <1>3, <1>4, <1>5, <1>6 DEF PrintTakes

(* Where the printf thread cuts.                                           *)
LEMMA Cuts ==
  ASSUME BufferInv, NEW k \in LineEnds
  PROVE  /\ pr_buffer \in Seq(Bytes) /\ line_buffer \in Seq(Bytes)
         /\ Len(pr_buffer) \in Nat /\ Len(line_buffer) \in Nat
         /\ k \in 1 .. Len(pr_buffer) /\ k \in Nat \ {0} /\ pr_buffer[k] = NewLine
         /\ SubSeq(pr_buffer, 1, k) \in Seq(Bytes) /\ Len(SubSeq(pr_buffer, 1, k)) = k
         /\ \A i \in 1 .. k : SubSeq(pr_buffer, 1, k)[i] = pr_buffer[i]
         /\ SubSeq(pr_buffer, k + 1, Len(pr_buffer)) \in Seq(Bytes)
         /\ Len(SubSeq(pr_buffer, k + 1, Len(pr_buffer))) = Len(pr_buffer) - k
         /\ \A i \in 1 .. Len(pr_buffer) - k :
              SubSeq(pr_buffer, k + 1, Len(pr_buffer))[i] = pr_buffer[k + i]
<1>1. /\ pr_buffer \in Seq(Bytes) /\ line_buffer \in Seq(Bytes)
  BY DEF BufferInv, TypeOK
<1>2. /\ Len(pr_buffer) \in Nat /\ Len(line_buffer) \in Nat
      /\ DOMAIN pr_buffer = 1 .. Len(pr_buffer)
  BY <1>1, LenProperties
<1>3. k \in 1 .. Len(pr_buffer) /\ k \in Nat \ {0} /\ pr_buffer[k] = NewLine
  BY <1>2 DEF LineEnds
<1>4. /\ SubSeq(pr_buffer, 1, k) \in Seq(Bytes) /\ Len(SubSeq(pr_buffer, 1, k)) = k
      /\ \A i \in 1 .. k : SubSeq(pr_buffer, 1, k)[i] = pr_buffer[i]
  <2>1. 1 \in Nat \ {0} /\ k \in Nat /\ k <= Len(pr_buffer) /\ 1 <= k
    BY <1>2, <1>3
  <2>2. /\ SubSeq(pr_buffer, 1, k) \in Seq(Bytes)
        /\ Len(SubSeq(pr_buffer, 1, k)) = IF 1 <= k THEN k - 1 + 1 ELSE 0
        /\ \A i \in 1 .. Len(SubSeq(pr_buffer, 1, k)) :
             SubSeq(pr_buffer, 1, k)[i] = pr_buffer[1 + i - 1]
    BY <1>1, <2>1, Piece
  <2> QED
    BY <2>1, <2>2
<1>5. /\ SubSeq(pr_buffer, k + 1, Len(pr_buffer)) \in Seq(Bytes)
      /\ Len(SubSeq(pr_buffer, k + 1, Len(pr_buffer))) = Len(pr_buffer) - k
      /\ \A i \in 1 .. Len(pr_buffer) - k :
           SubSeq(pr_buffer, k + 1, Len(pr_buffer))[i] = pr_buffer[k + i]
  <2>1. k + 1 \in Nat \ {0} /\ Len(pr_buffer) <= Len(pr_buffer)
    BY <1>2, <1>3
  <2> DEFINE rest == SubSeq(pr_buffer, k + 1, Len(pr_buffer))
  <2>2. /\ rest \in Seq(Bytes)
        /\ Len(rest) = IF k + 1 <= Len(pr_buffer) THEN Len(pr_buffer) - (k + 1) + 1 ELSE 0
        /\ \A i \in 1 .. Len(rest) : rest[i] = pr_buffer[k + 1 + i - 1]
    BY <1>1, <1>2, <2>1, Piece
  <2> DEFINE n == Len(pr_buffer)
  <2> HIDE DEF rest, n
  <2>a. n \in Nat /\ k \in Nat /\ 1 <= k /\ k <= n
    BY <1>2, <1>3 DEF n
  <2>b. Len(rest) = IF k + 1 <= n THEN n - (k + 1) + 1 ELSE 0
    BY <2>2 DEF n
  <2>3. Len(rest) = n - k
    BY <2>a, <2>b
  <2>4. \A i \in 1 .. n - k : rest[i] = pr_buffer[k + i]
    <3>1. \A i \in 1 .. n - k : rest[i] = pr_buffer[k + 1 + i - 1]
      BY <2>2, <2>3
    <3>2. \A i \in 1 .. n - k : k + 1 + i - 1 = k + i
      BY <2>a
    <3> QED
      BY <3>1, <3>2
  <2> QED
    BY <2>2, <2>3, <2>4 DEF rest, n
<1> QED
  BY <1>1, <1>2, <1>3, <1>4, <1>5

LEMMA PrintLineKeeps ==
  ASSUME BufferInv, PrintLine
  PROVE  BufferInv'
<1>1. PICK k \in LineEnds :
        LET text == line_buffer \o SubSeq(pr_buffer, 1, k)
        IN /\ \A i \in LineEnds : k <= i
           /\ IF Len(text) + 1 > BufSize THEN Crash("line_buffer")
              ELSE /\ buf' = text
                   /\ line_buffer' = << >>
                   /\ pr_buffer' = SubSeq(pr_buffer, k + 1, Len(pr_buffer))
                   /\ ppc' = "handle"
                   /\ UNCHANGED <<ttyVars, readVars, mpc, u_boot_cmd, msgq, wpc, crash,
                                  histVars>>
  BY DEF PrintLine
<1> DEFINE text == line_buffer \o SubSeq(pr_buffer, 1, k)
<1>2. CASE Crash("line_buffer")
  BY <1>2, CrashKeeps
<1>3. CASE /\ ~(Len(text) + 1 > BufSize)
           /\ buf' = text
           /\ line_buffer' = << >>
           /\ pr_buffer' = SubSeq(pr_buffer, k + 1, Len(pr_buffer))
           /\ ppc' = "handle"
           /\ UNCHANGED <<ttyVars, readVars, mpc, u_boot_cmd, msgq, wpc, crash, histVars>>
  <2>1. text \in Seq(Bytes) /\ Len(text) \in Nat
    BY Cuts, ConcatProperties, LenProperties
  <2> HIDE DEF text
  <2>2. buf' \in Seq(Bytes) /\ Len(buf') < BufSize
    BY <1>3, <2>1, Sizes
  <2>3. pr_buffer' \in Seq(Bytes) /\ Len(pr_buffer') <= BufSize
    <3>1. Len(pr_buffer) <= BufSize
      BY DEF BufferInv, TypeOK
    <3>2. /\ pr_buffer' \in Seq(Bytes) /\ Len(pr_buffer') = Len(pr_buffer) - k
          /\ Len(pr_buffer) \in Nat /\ k \in Nat
      BY <1>3, Cuts
    <3> QED
      BY <3>1, <3>2, Sizes
  <2>4. line_buffer' \in Seq(Bytes) /\ Len(line_buffer') = 0 /\ 0 <= BufSize
    BY <1>3, EmptySeq, Sizes
  <2>5. TypeOK'
    <3>1. TextTypes'
      BY <1>3, <2>2, <2>3, <2>4, PartsTyped DEF TextTypes, ttyVars, readVars
    <3>2. UNCHANGED <<edge, mpc, u_boot_cmd, msgq, wpc, crash, early, missed>>
      BY <1>3 DEF ttyVars, histVars
    <3> QED
      BY <1>3, <3>1, <3>2, PrintingTypes
  <2>6. Filled' /\ LockedToRead' /\ ScannedFirst'
    BY <1>3 DEF BufferInv, Filled, LockedToRead, ScannedFirst, ttyVars, readVars
  <2>7. KeptIsPartial'
    BY <2>4 DEF KeptIsPartial
  <2> QED
    BY <2>5, <2>6, <2>7 DEF BufferInv
<1> QED
  BY <1>1, <1>2, <1>3

LEMMA PrintKeepsKeeps ==
  ASSUME BufferInv, PrintKeeps
  PROVE  BufferInv'
<1>1. CASE Crash("line_buffer")
  BY <1>1, CrashKeeps
<1>2. CASE /\ ~(Len(line_buffer) + Len(pr_buffer) > BufSize)
           /\ line_buffer' = line_buffer \o pr_buffer
           /\ pr_buffer' = << >>
           /\ ppc' = "enter"
           /\ UNCHANGED <<ttyVars, readVars, mpc, buf, u_boot_cmd, msgq, wpc, crash, histVars>>
  <2>1. /\ line_buffer \in Seq(Bytes) /\ pr_buffer \in Seq(Bytes)
    BY DEF BufferInv, TypeOK
  <2>2. /\ Len(line_buffer) \in Nat /\ Len(pr_buffer) \in Nat
        /\ DOMAIN pr_buffer = 1 .. Len(pr_buffer)
    BY <2>1, LenProperties
  <2>3. /\ line_buffer' \in Seq(Bytes) /\ Len(line_buffer') = Len(line_buffer) + Len(pr_buffer)
        /\ \A i \in 1 .. Len(line_buffer) + Len(pr_buffer) :
             line_buffer'[i] = IF i <= Len(line_buffer) THEN line_buffer[i]
                               ELSE pr_buffer[i - Len(line_buffer)]
    BY <1>2, <2>1, ConcatProperties
  <2>4. Len(line_buffer') <= BufSize
    BY <1>2, <2>2, <2>3, Sizes
  <2>5. pr_buffer' \in Seq(Bytes) /\ Len(pr_buffer') <= BufSize
    <3>1. << >> \in Seq(Bytes) /\ Len(<< >>) = 0 /\ 0 <= BufSize
      BY EmptySeq, Sizes
    <3> QED
      BY <1>2, <3>1
  <2>6. TypeOK'
    <3>1. TextTypes'
      BY <1>2, <2>3, <2>4, <2>5, PartsTyped DEF TextTypes, ttyVars, readVars
    <3>2. UNCHANGED <<edge, mpc, u_boot_cmd, msgq, wpc, crash, early, missed>>
      BY <1>2 DEF ttyVars, histVars
    <3> QED
      BY <1>2, <3>1, <3>2, PrintingTypes
  <2>7. Filled' /\ LockedToRead' /\ ScannedFirst'
    BY <1>2 DEF BufferInv, Filled, LockedToRead, ScannedFirst, ttyVars, readVars
  <2>8. KeptIsPartial'
    <3>1. \A i \in 1 .. Len(pr_buffer) : pr_buffer[i] # NewLine
      BY <2>2 DEF PrintKeeps, LineEnds
    <3>2. \A i \in 1 .. Len(line_buffer) : line_buffer[i] # NewLine
      BY DEF BufferInv, KeptIsPartial
    <3>3. ASSUME NEW i \in 1 .. Len(line_buffer') PROVE line_buffer'[i] # NewLine
      BY <2>2, <2>3, <3>1, <3>2
    <3> QED
      BY <3>3 DEF KeptIsPartial
  <2> QED
    BY <2>6, <2>7, <2>8 DEF BufferInv
<1> QED
  BY <1>1, <1>2 DEF PrintKeeps

(* The other steps leave the text where it is.                             *)
LEMMA TextUntouched ==
  ASSUME BufferInv, UNCHANGED <<readVars, printVars>>, TypeOK', LockedToRead', ScannedFirst'
  PROVE  BufferInv'
<1>1. Filled'
  BY DEF BufferInv, Filled, readVars
<1>2. KeptIsPartial'
  BY DEF BufferInv, KeptIsPartial, printVars
<1> QED
  BY <1>1, <1>2 DEF BufferInv

LEMMA MainQuiet ==
  ASSUME BufferInv, EpollWait \/ MainSignal \/ MainReadFails
  PROVE  BufferInv' /\ UNCHANGED <<readVars, printVars>>
<1>1. CASE EpollWait
  <2>1. UNCHANGED <<readVars, printVars, tty, ppc>>
    BY <1>1 DEF EpollWait
  <2>2. TypeOK'
    <3>1. ThreadTypes'
      <4>1. PlaceTypes'
        BY <1>1, PartsTyped DEF EpollWait, PlaceTypes
      <4>2. FlagTypes'
        BY <1>1, PartsTyped DEF EpollWait, histVars, FlagTypes
      <4> QED
        BY <4>1, <4>2 DEF ThreadTypes
    <3>2. UNCHANGED msgq
      BY <1>1 DEF EpollWait
    <3> QED
      BY <2>1, <3>1, <3>2, QueueKept, TypesKept
  <2>3. LockedToRead' /\ ScannedFirst'
    BY <1>1 DEF EpollWait, BufferInv, LockedToRead, ScannedFirst, printVars
  <2> QED
    BY <2>1, <2>2, <2>3, TextUntouched
<1>2. CASE MainSignal
  <2>1. UNCHANGED <<readVars, printVars, ttyVars>> /\ mpc' = "wait"
        /\ (ppc' = ppc \/ (ppc = "wait" /\ ppc' = "woken"))
    BY <1>2 DEF MainSignal
  <2>2. TypeOK'
    <3>1. ThreadTypes'
      <4>1. PlaceTypes'
        BY <1>2, PartsTyped DEF MainSignal, PlaceTypes
      <4>2. FlagTypes'
        BY <1>2, PartsTyped DEF MainSignal, ttyVars, FlagTypes
      <4> QED
        BY <4>1, <4>2 DEF ThreadTypes
    <3>2. UNCHANGED msgq
      BY <1>2 DEF MainSignal
    <3>3. UNCHANGED <<readVars, printVars, tty>>
      BY <2>1 DEF ttyVars
    <3> QED
      BY <3>1, <3>2, <3>3, QueueKept, TypesKept
  <2>3. LockedToRead' /\ ScannedFirst'
    BY <2>1 DEF BufferInv, LockedToRead, ScannedFirst, printVars
  <2> QED
    BY <2>1, <2>2, <2>3, TextUntouched
<1>3. CASE MainReadFails
  BY <1>3, CrashKeeps DEF MainReadFails, Crash
<1> QED
  BY <1>1, <1>2, <1>3

LEMMA SentType ==
  ASSUME BufferInv, NEW m \in {"boot", "login", "reboot"}
  PROVE  Sent(m) \in Seq({"boot", "login", "reboot"}) /\ Len(Sent(m)) <= QueueLen
<1>1. msgq \in Seq({"boot", "login", "reboot"}) /\ Len(msgq) <= QueueLen
  BY DEF BufferInv, TypeOK
<1>2. Len(msgq) \in Nat
  BY <1>1, LenProperties
<1>3. Append(msgq, m) \in Seq({"boot", "login", "reboot"})
      /\ Len(Append(msgq, m)) = Len(msgq) + 1
  BY <1>1, AppendProperties
<1> QED
  BY <1>1, <1>2, <1>3, Sizes DEF Sent

LEMMA PrintQuiet ==
  ASSUME BufferInv,
         \/ PrintWaits \/ SpuriousWakeup
         \/ HandleNothing \/ HandlePrompt \/ MarkBoot \/ HandleLogin \/ UnmarkBoot
  PROVE  BufferInv' /\ UNCHANGED <<readVars, printVars>>
<1>1. UNCHANGED <<readVars, printVars, ttyVars, mpc>>
  BY DEF PrintWaits, SpuriousWakeup, HandleNothing, HandlePrompt, MarkBoot, HandleLogin,
     UnmarkBoot
<1>2. ScannedFirst'
  BY <1>1 DEF PrintWaits, SpuriousWakeup, HandleNothing, HandlePrompt, MarkBoot, HandleLogin,
     UnmarkBoot, BufferInv, ScannedFirst, printVars
<1>3. LockedToRead'
  BY <1>1 DEF BufferInv, LockedToRead, ttyVars
<1>4. CASE PrintWaits \/ SpuriousWakeup \/ HandleNothing
  <2>1. TypeOK'
    <3>1. ThreadTypes'
      <4>1. PlaceTypes'
        BY <1>4, PartsTyped DEF PrintWaits, SpuriousWakeup, HandleNothing, PlaceTypes
      <4>2. FlagTypes'
        BY <1>4, PartsTyped DEF PrintWaits, SpuriousWakeup, HandleNothing, ttyVars, histVars, FlagTypes
      <4> QED
        BY <4>1, <4>2 DEF ThreadTypes
    <3>2. UNCHANGED <<tty, msgq>>
      BY <1>4 DEF PrintWaits, SpuriousWakeup, HandleNothing, ttyVars
    <3> QED
      BY <1>1, <3>1, <3>2, QueueKept, TypesKept
  <2> QED
    BY <1>1, <1>2, <1>3, <2>1, TextUntouched
<1>5. CASE HandlePrompt \/ HandleLogin
  <2>1. msgq' \in Seq({"boot", "login", "reboot"}) /\ Len(msgq') <= QueueLen
    BY <1>5, SentType DEF HandlePrompt, HandleLogin
  <2>2. TypeOK'
    <3>1. ThreadTypes'
      <4>1. PlaceTypes'
        BY <1>5, PartsTyped DEF HandlePrompt, HandleLogin, PlaceTypes
      <4>2. FlagTypes'
        BY <1>5, PartsTyped DEF HandlePrompt, HandleLogin, ttyVars, histVars, FlagTypes
      <4> QED
        BY <4>1, <4>2 DEF ThreadTypes
    <3> QED
      BY <1>1, <2>1, <3>1, TypesKept DEF QueueTypes, ttyVars
  <2> QED
    BY <1>1, <1>2, <1>3, <2>2, TextUntouched
<1>6. CASE MarkBoot \/ UnmarkBoot
  <2>1. early' \in BOOLEAN
    BY <1>6 DEF MarkBoot, UnmarkBoot, BufferInv, TypeOK, histVars
  <2>2. TypeOK'
    BY <1>6, <2>1 DEF MarkBoot, UnmarkBoot, BufferInv, TypeOK, readVars, printVars, ttyVars,
       histVars
  <2> QED
    BY <1>1, <1>2, <1>3, <2>2, TextUntouched
<1> QED
  BY <1>4, <1>5, <1>6

LEMMA WriterQuiet ==
  ASSUME BufferInv, Writer
  PROVE  BufferInv' /\ UNCHANGED <<readVars, printVars>>
<1>1. UNCHANGED <<readVars, printVars, ttyVars, mpc, ppc>>
  BY DEF Writer, WriterReceives, WriterTypesBoot, WriterEndsBoot, WriterTypesOther
<1>2. ScannedFirst' /\ LockedToRead'
  BY <1>1 DEF BufferInv, ScannedFirst, LockedToRead, printVars, ttyVars
<1>3. CASE WriterReceives
  <2>1. msgq \in Seq({"boot", "login", "reboot"}) /\ Len(msgq) <= QueueLen /\ msgq # << >>
    BY <1>3 DEF WriterReceives, BufferInv, TypeOK
  <2>2. /\ Head(msgq) \in {"boot", "login", "reboot"}
        /\ Tail(msgq) \in Seq({"boot", "login", "reboot"})
        /\ Len(Tail(msgq)) = Len(msgq) - 1
    BY <2>1, HeadTailProperties
  <2>3. Len(msgq) \in Nat
    BY <2>1, LenProperties
  <2>4. Len(Tail(msgq)) <= QueueLen
    BY <2>1, <2>2, <2>3, Sizes
  <2>5. TypeOK'
    <3>1. ThreadTypes'
      <4>1. PlaceTypes'
        BY <1>3, <2>2, PartsTyped DEF WriterReceives, PlaceTypes
      <4>2. FlagTypes'
        BY <1>3, <2>2, PartsTyped DEF WriterReceives, ttyVars, histVars, FlagTypes
      <4> QED
        BY <4>1, <4>2 DEF ThreadTypes
    <3>2. QueueTypes'
      BY <1>3, <2>2, <2>4 DEF WriterReceives, QueueTypes
    <3> QED
      BY <1>1, <3>1, <3>2, TypesKept DEF ttyVars
  <2> QED
    BY <1>1, <1>2, <2>5, TextUntouched
<1>4. CASE WriterTypesBoot \/ WriterEndsBoot \/ WriterTypesOther
  <2>1. TypeOK'
    <3>1. ThreadTypes'
      <4>1. PlaceTypes'
        BY <1>4, PartsTyped DEF WriterTypesBoot, WriterEndsBoot, WriterTypesOther, PlaceTypes
      <4>2. FlagTypes'
        BY <1>4, PartsTyped DEF WriterTypesBoot, WriterEndsBoot, WriterTypesOther, ttyVars, histVars, FlagTypes
      <4> QED
        BY <4>1, <4>2 DEF ThreadTypes
    <3>2. UNCHANGED msgq
      BY <1>4 DEF WriterTypesBoot, WriterEndsBoot, WriterTypesOther
    <3> QED
      BY <1>1, <3>1, <3>2, QueueKept, TypesKept DEF ttyVars
  <2> QED
    BY <1>1, <1>2, <2>1, TextUntouched
<1> QED
  BY <1>3, <1>4 DEF Writer

LEMMA DeviceQuiet ==
  ASSUME BufferInv,
         \/ \E chunk \in Chunks : DeviceSends(chunk)
         \/ \E m \in ExtMsgs : SerialMsg(m)
  PROVE  BufferInv' /\ UNCHANGED <<readVars, printVars>>
<1>1. CASE \E chunk \in Chunks : DeviceSends(chunk)
  <2>1. PICK chunk \in Chunks : DeviceSends(chunk)
    BY <1>1
  <2>2. tty \in Seq(Bytes) /\ chunk \in Seq(Bytes)
    BY InputAssumption DEF BufferInv, TypeOK
  <2>3. tty' \in Seq(Bytes) /\ Len(tty') = Len(tty) + Len(chunk)
    BY <2>1, <2>2, ConcatProperties DEF DeviceSends
  <2>4. Len(tty') <= TtySize /\ edge' \in BOOLEAN
    BY <2>1, <2>3 DEF DeviceSends
  <2>5. UNCHANGED <<readVars, printVars, mpc, ppc>>
    BY <2>1 DEF DeviceSends
  <2>6. TypeOK'
    <3>1. ThreadTypes'
      <4>1. PlaceTypes'
        BY <2>1, <2>4, PartsTyped DEF DeviceSends, PlaceTypes
      <4>2. FlagTypes'
        BY <2>1, <2>4, PartsTyped DEF DeviceSends, histVars, FlagTypes
      <4> QED
        BY <4>1, <4>2 DEF ThreadTypes
    <3>2. UNCHANGED msgq
      BY <2>1 DEF DeviceSends
    <3> QED
      BY <2>3, <2>4, <2>5, <3>1, <3>2, QueueKept, TextTypesKept
  <2>7. tty # << >> => tty' # << >>
    <3>1. tty # << >> => Len(tty) \in Nat \ {0}
      BY <2>2, EmptySeq
    <3>2. Len(chunk) \in Nat
      BY <2>2, LenProperties
    <3>3. tty' = << >> => Len(tty') = 0
      BY EmptySeq
    <3>4. tty # << >> => Len(tty') # 0
      BY <2>3, <3>1, <3>2
    <3> QED
      BY <3>3, <3>4
  <2>8. LockedToRead' /\ ScannedFirst'
    BY <2>5, <2>7 DEF BufferInv, LockedToRead, ScannedFirst, printVars
  <2> QED
    BY <2>5, <2>6, <2>8, TextUntouched
<1>2. CASE \E m \in ExtMsgs : SerialMsg(m)
  <2>1. PICK m \in {"boot", "login", "reboot"} : SerialMsg(m)
    BY <1>2, InputAssumption
  <2>2. msgq' \in Seq({"boot", "login", "reboot"}) /\ Len(msgq') <= QueueLen
    BY <2>1, SentType DEF SerialMsg
  <2>3. UNCHANGED <<readVars, printVars, ttyVars, mpc, ppc>>
    BY <2>1 DEF SerialMsg
  <2>4. TypeOK'
    <3>1. ThreadTypes'
      <4>1. UNCHANGED <<edge, mpc, ppc, u_boot_cmd, wpc, crash, missed, early>>
        BY <2>1 DEF SerialMsg, ttyVars, histVars
      <4> QED
        BY <4>1, ThreadTypesKept
    <3>2. QueueTypes'
      BY <2>2 DEF QueueTypes
    <3>3. UNCHANGED <<readVars, printVars, tty>>
      BY <2>3 DEF ttyVars
    <3> QED
      BY <3>1, <3>2, <3>3, TypesKept
  <2>5. LockedToRead' /\ ScannedFirst'
    BY <2>3 DEF BufferInv, LockedToRead, ScannedFirst, printVars, ttyVars
  <2> QED
    BY <2>3, <2>4, <2>5, TextUntouched
<1> QED
  BY <1>1, <1>2

(* A new start, like the first one.                                        *)
Fresh ==
  /\ tty = << >> /\ edge = FALSE
  /\ read_buffer = [i \in 0 .. Capacity - 1 |-> None]
  /\ read_start = 0 /\ read_end = 0
  /\ mpc = "wait" /\ ppc = "enter"
  /\ pr_buffer = << >> /\ line_buffer = << >> /\ buf = << >>
  /\ u_boot_cmd = 0 /\ wpc = "recv" /\ crash = None

LEMMA FreshHolds ==
  Fresh /\ QueueTypes /\ missed \in BOOLEAN /\ early \in BOOLEAN => BufferInv
<1> SUFFICES ASSUME Fresh, QueueTypes, missed \in BOOLEAN, early \in BOOLEAN
             PROVE  BufferInv
  OBVIOUS
<1>1. << >> \in Seq(Bytes) /\ Len(<< >>) = 0
  BY EmptySeq
<1>2. /\ 0 <= TtySize /\ 0 <= BufSize /\ 0 < BufSize
      /\ 0 \in 0 .. BufSize - 1 /\ 0 \in 0 .. Capacity
  BY Sizes
<1>3. TypeOK
  <2>1. TextTypes
    BY <1>1, <1>2 DEF Fresh, TextTypes
  <2>2. ThreadTypes
    <3>1. PlaceTypes
      BY DEF Fresh, PlaceTypes
    <3>2. FlagTypes
      BY DEF Fresh, FlagTypes
    <3> QED
      BY <3>1, <3>2 DEF ThreadTypes
  <2> QED
    BY <2>1, <2>2, TypesInParts
<1>4. Filled
  BY DEF Fresh, Filled
<1>5. LockedToRead /\ ScannedFirst /\ KeptIsPartial
  BY <1>1 DEF Fresh, LockedToRead, ScannedFirst, KeptIsPartial
<1> QED
  BY <1>3, <1>4, <1>5 DEF BufferInv

LEMMA RestartKeeps ==
  ASSUME BufferInv, Restart
  PROVE  BufferInv'
<1>1. Fresh' /\ msgq' = msgq /\ missed' \in BOOLEAN /\ early' \in BOOLEAN
  BY DEF Restart, Fresh, BufferInv, TypeOK
<1>2. QueueTypes'
  BY <1>1, QueueKept
<1>3. (Fresh /\ QueueTypes /\ missed \in BOOLEAN /\ early \in BOOLEAN)'
  BY <1>1, <1>2
<1> QED
  BY <1>3, FreshHolds, PTL

LEMMA Steps ==
  ASSUME Next
  PROVE  \/ MainRead \/ PrintTakes \/ PrintLine \/ PrintKeeps \/ Restart
         \/ EpollWait \/ MainSignal \/ MainReadFails
         \/ PrintWaits \/ SpuriousWakeup
         \/ HandleNothing \/ HandlePrompt \/ MarkBoot \/ HandleLogin \/ UnmarkBoot
         \/ Writer
         \/ \E chunk \in Chunks : DeviceSends(chunk)
         \/ \E m \in ExtMsgs : SerialMsg(m)
BY DEF Next, Main, Printf, Others

LEMMA BufferStep ==
  ASSUME BufferInv, [Next]_vars
  PROVE  BufferInv'
<1>1. CASE Next
  BY <1>1, Steps, MainReadKeeps, PrintTakesKeeps, PrintLineKeeps, PrintKeepsKeeps,
     RestartKeeps, MainQuiet, PrintQuiet, WriterQuiet, DeviceQuiet
<1>2. CASE UNCHANGED vars
  <2>1. UNCHANGED <<readVars, printVars, tty>> /\ QueueTypes' /\ ThreadTypes'
    <3>1. UNCHANGED <<readVars, printVars, tty, msgq>>
      BY <1>2 DEF vars, ttyVars
    <3>2. ThreadTypes'
      <4>1. UNCHANGED <<edge, mpc, ppc, u_boot_cmd, wpc, crash, missed, early>>
        BY <1>2 DEF vars, ttyVars, histVars
      <4> QED
        BY <4>1, ThreadTypesKept
    <3> QED
      BY <3>1, <3>2, QueueKept
  <2>2. LockedToRead' /\ ScannedFirst'
    BY <1>2 DEF vars, BufferInv, LockedToRead, ScannedFirst, ttyVars, printVars
  <2> QED
    BY <2>1, <2>2, TypesKept, TextUntouched
<1> QED
  BY <1>1, <1>2

-----------------------------------------------------------------------------
(* Sleeping and waking.                                                    *)

LEMMA UnseenStep ==
  ASSUME BufferInv, UnseenIsMissed, [Next]_vars
  PROVE  UnseenIsMissed'
<1> USE DEF Runs
<1>1. CASE MainRead
  BY <1>1 DEF MainRead, Crash, UnseenIsMissed, readVars, histVars
<1>2. CASE PrintTakes
  <2>1. CASE read_end - read_start <= 0
    <3>1. read_start \in Nat /\ read_end \in Nat /\ read_start <= read_end
      BY TypesOfReading
    <3>2. read_start = read_end
      BY <2>1, <3>1
    <3>3. UNCHANGED readVars
      BY <1>2, <2>1 DEF PrintTakes, Crash
    <3> QED
      BY <3>2, <3>3 DEF UnseenIsMissed, readVars
  <2>2. CASE ~(read_end - read_start <= 0)
    BY <1>2, <2>2 DEF PrintTakes, Crash, UnseenIsMissed, None
  <2> QED
    BY <2>1, <2>2
<1>3. CASE PrintLine \/ PrintKeeps
  BY <1>3 DEF PrintLine, PrintKeeps, Crash, UnseenIsMissed, readVars, histVars
<1>4. CASE EpollWait \/ MainSignal \/ MainReadFails
  BY <1>4 DEF EpollWait, MainSignal, MainReadFails, Crash, UnseenIsMissed, readVars, histVars
<1>5. CASE \/ PrintWaits \/ SpuriousWakeup
           \/ HandleNothing \/ HandlePrompt \/ MarkBoot \/ HandleLogin \/ UnmarkBoot
  BY <1>5 DEF PrintWaits, SpuriousWakeup, HandleNothing, HandlePrompt, MarkBoot, HandleLogin,
     UnmarkBoot, UnseenIsMissed, readVars, histVars
<1>6. CASE Restart
  BY <1>6 DEF Restart, UnseenIsMissed
<1>7. CASE Writer
  BY <1>7 DEF Writer, WriterReceives, WriterTypesBoot, WriterEndsBoot, WriterTypesOther,
     UnseenIsMissed, readVars, histVars
<1>8. CASE \/ \E chunk \in Chunks : DeviceSends(chunk)
           \/ \E m \in ExtMsgs : SerialMsg(m)
  BY <1>8 DEF DeviceSends, SerialMsg, UnseenIsMissed, readVars, histVars
<1>9. CASE UNCHANGED vars
  BY <1>9 DEF vars, UnseenIsMissed, readVars, histVars
<1> QED
  BY <1>1, <1>2, <1>3, <1>4, <1>5, <1>6, <1>7, <1>8, <1>9, Steps

(* One read takes all that line_pr can hold, and more than that ends the   *)
(* program: what comes after the read brings an edge of its own.           *)
LEMMA AnnouncedStep ==
  ASSUME BufferInv, UnreadIsAnnounced, [Next]_vars
  PROVE  UnreadIsAnnounced'
<1> USE DEF Runs
<1>1. CASE MainRead
  <2>1. CASE ReadSize <= Slack
    <3>1. tty \in Seq(Bytes) /\ Len(tty) \in Nat
      BY TypesOfReading
    <3>2. ReadSize = Len(tty)
      BY <2>1, <3>1, Sizes DEF ReadSize
    <3>3. SubSeq(tty, ReadSize + 1, Len(tty)) = << >>
      BY <3>1, <3>2, SubSeqEmpty
    <3> QED
      BY <1>1, <3>3 DEF MainRead, Crash, UnreadIsAnnounced, None
  <2>2. CASE ~(ReadSize <= Slack)
    <3>1. ReadSize \in Nat
      BY TypesOfReading, Sizes DEF ReadSize
    <3>2. ReadSize > Slack
      BY <2>2, <3>1, Sizes
    <3> QED
      BY <1>1, <3>2 DEF MainRead, Crash, UnreadIsAnnounced, None
  <2> QED
    BY <2>1, <2>2
<1>2. CASE PrintTakes \/ PrintLine \/ PrintKeeps
  BY <1>2 DEF PrintTakes, PrintLine, PrintKeeps, Crash, UnreadIsAnnounced, ttyVars, None
<1>4. CASE EpollWait \/ MainSignal \/ MainReadFails
  BY <1>4 DEF EpollWait, MainSignal, MainReadFails, Crash, UnreadIsAnnounced, ttyVars, None
<1>5. CASE \/ PrintWaits \/ SpuriousWakeup
           \/ HandleNothing \/ HandlePrompt \/ MarkBoot \/ HandleLogin \/ UnmarkBoot
  BY <1>5 DEF PrintWaits, SpuriousWakeup, HandleNothing, HandlePrompt, MarkBoot, HandleLogin,
     UnmarkBoot, UnreadIsAnnounced, ttyVars
<1>6. CASE Restart
  BY <1>6 DEF Restart, UnreadIsAnnounced
<1>7. CASE Writer
  BY <1>7 DEF Writer, WriterReceives, WriterTypesBoot, WriterEndsBoot, WriterTypesOther,
     UnreadIsAnnounced, ttyVars
<1>8. CASE \/ \E chunk \in Chunks : DeviceSends(chunk)
           \/ \E m \in ExtMsgs : SerialMsg(m)
  BY <1>8 DEF DeviceSends, SerialMsg, UnreadIsAnnounced, ttyVars
<1>9. CASE UNCHANGED vars
  BY <1>9 DEF vars, UnreadIsAnnounced, ttyVars
<1> QED
  BY <1>1, <1>2, <1>4, <1>5, <1>6, <1>7, <1>8, <1>9, Steps

-----------------------------------------------------------------------------
(* The boot flag and the boot commands under way.                          *)

LEMMA BootsAreFinite ==
  ASSUME BufferInv
  PROVE  IsFiniteSet(Boots) /\ Cardinality(Boots) \in Nat
<1>1. msgq \in Seq({"boot", "login", "reboot"})
  BY DEF BufferInv, TypeOK
<1>2. Len(msgq) \in Nat /\ DOMAIN msgq = 1 .. Len(msgq)
  BY <1>1, LenProperties
<1>3. IsFiniteSet(1 .. Len(msgq)) /\ Boots \in SUBSET (1 .. Len(msgq))
  BY <1>2, FS_Interval DEF Boots
<1> QED
  BY <1>3, FS_Subset, FS_CardinalityType

LEMMA NothingInFlight ==
  ASSUME BufferInv, ~(InFlight > 0)
  PROVE  Boots = {} /\ ~Typing
<1> DEFINE n == Cardinality(Boots)
<1>1. n \in Nat
  BY BootsAreFinite
<1>2. InFlight = n + (IF Typing THEN 1 ELSE 0)
  BY DEF InFlight, Boots, Typing
<1>3. n = 0 => Boots = {}
  BY BootsAreFinite, FS_EmptySet
<1> HIDE DEF n
<1>4. n = 0 /\ ~Typing
  BY <1>1, <1>2
<1> QED
  BY <1>3, <1>4

LEMMA OneInFlight ==
  ASSUME BufferInv, OneBoot
  PROVE  BootRepeatsOnlyAfterReset
<1> SUFFICES ASSUME ~early PROVE ~(InFlight > 1)
  BY DEF BootRepeatsOnlyAfterReset
<1>1. /\ \A i, j \in Boots : i = j
      /\ Typing => Boots = {}
  BY DEF OneBoot
<1>2. InFlight = Cardinality(Boots) + (IF Typing THEN 1 ELSE 0)
  BY DEF InFlight, Boots, Typing
<1>3. CASE Boots = {}
  <2>1. Cardinality(Boots) = 0
    BY <1>3, FS_EmptySet
  <2> QED
    BY <1>2, <2>1
<1>4. CASE Boots # {}
  <2>1. PICK i \in Boots : Boots = {i}
    BY <1>1, <1>4
  <2>2. Cardinality(Boots) = 1
    BY <2>1, FS_Singleton
  <2> QED
    BY <1>1, <1>2, <1>4, <2>2
<1> QED
  BY <1>3, <1>4

(* What msgsnd does to the boot commands on the queue.                     *)
LEMMA BootsSent ==
  ASSUME BufferInv, NEW m \in {"boot", "login", "reboot"}, msgq' = Sent(m)
  PROVE  /\ m # "boot" => Boots' = Boots
         /\ Boots' = Boots \/ Boots' = Boots \cup {Len(msgq) + 1}
<1>1. msgq \in Seq({"boot", "login", "reboot"})
  BY DEF BufferInv, TypeOK
<1>2. Len(msgq) \in Nat /\ DOMAIN msgq = 1 .. Len(msgq)
  BY <1>1, LenProperties
<1>3. CASE msgq' = msgq
  BY <1>3 DEF Boots
<1>4. CASE msgq' = Append(msgq, m)
  <2>1. /\ msgq' \in Seq({"boot", "login", "reboot"}) /\ Len(msgq') = Len(msgq) + 1
        /\ \A i \in 1 .. Len(msgq) : msgq'[i] = msgq[i]
        /\ msgq'[Len(msgq) + 1] = m
    BY <1>1, <1>4, AppendProperties
  <2>2. DOMAIN msgq' = 1 .. Len(msgq) + 1
    BY <2>1, LenProperties
  <2>3. \A i \in 1 .. Len(msgq) + 1 : i \in 1 .. Len(msgq) \/ i = Len(msgq) + 1
    BY <1>2
  <2>4. ASSUME NEW i PROVE i \in Boots' <=> i \in Boots \/ (i = Len(msgq) + 1 /\ m = "boot")
    <3>1. Len(msgq) + 1 \in 1 .. Len(msgq) + 1
          /\ \A j \in 1 .. Len(msgq) : j \in 1 .. Len(msgq) + 1
      BY <1>2
    <3> QED
      BY <1>2, <2>1, <2>2, <2>3, <3>1 DEF Boots
  <2> QED
    BY <2>4
<1> QED
  BY <1>3, <1>4 DEF Sent

LEMMA BootsReceived ==
  ASSUME BufferInv, OneBoot, WriterReceives
  PROVE  OneBoot'
<1>1. msgq \in Seq({"boot", "login", "reboot"}) /\ msgq # << >>
  BY DEF BufferInv, TypeOK, WriterReceives
<1>2. /\ Len(msgq) \in Nat \ {0} /\ DOMAIN msgq = 1 .. Len(msgq)
      /\ Head(msgq) = msgq[1]
  BY <1>1, LenProperties, EmptySeq
<1>3. /\ msgq' \in Seq({"boot", "login", "reboot"}) /\ Len(msgq') = Len(msgq) - 1
      /\ \A i \in 1 .. Len(msgq) - 1 : msgq'[i] = msgq[i + 1]
  BY <1>1, HeadTailProperties DEF WriterReceives
<1>4. DOMAIN msgq' = 1 .. Len(msgq) - 1
  BY <1>3, LenProperties
<1>5. wpc' = msgq[1] /\ UNCHANGED <<u_boot_cmd, ppc, early>> /\ ~Typing
  BY <1>2 DEF WriterReceives, Typing, histVars
<1>6. \A i \in Boots' : i + 1 \in Boots /\ i \in Nat /\ i + 1 # 1
  BY <1>2, <1>3, <1>4 DEF Boots
<1>7. 1 \in Boots <=> msgq[1] = "boot"
  BY <1>2 DEF Boots
<1> SUFFICES ASSUME ~early
             PROVE  /\ \A i, j \in Boots' : i = j
                    /\ Typing' => Boots' = {}
                    /\ Typing' \/ Boots' # {} => u_boot_cmd' = 1 \/ ppc' = "mark"
  BY <1>5 DEF OneBoot
<1>8. /\ \A i, j \in Boots : i = j
      /\ Boots # {} => u_boot_cmd = 1 \/ ppc = "mark"
  BY DEF OneBoot
<1>9. \A i, j \in Boots' : i = j
  BY <1>6, <1>8
<1>10. Typing' => 1 \in Boots
  BY <1>1, <1>2, <1>5, <1>7 DEF Typing
<1>11. Typing' => Boots' = {}
  BY <1>6, <1>8, <1>10
<1>12. Typing' \/ Boots' # {} => Boots # {}
  BY <1>6, <1>10
<1> QED
  BY <1>5, <1>8, <1>9, <1>11, <1>12

(* Steps that leave the commands and the flag alone.                       *)
LEMMA BootUntouched ==
  ASSUME OneBoot, UNCHANGED <<msgq, wpc, u_boot_cmd, early>>, ppc = "mark" => ppc' = "mark"
  PROVE  OneBoot'
BY DEF OneBoot, Boots, Typing

LEMMA HandleBootStep ==
  ASSUME BufferInv, OneBoot, HandlePrompt \/ MarkBoot \/ HandleLogin \/ UnmarkBoot
  PROVE  OneBoot'
<1>1. CASE HandlePrompt
  <2>1. /\ UNCHANGED <<wpc, u_boot_cmd, early>> /\ msgq' = Sent("boot")
        /\ ppc' = "mark" /\ ppc = "handle" /\ u_boot_cmd = 0
    BY <1>1 DEF HandlePrompt, histVars
  <2>2. ~early => ~Typing /\ Boots = {}
    BY <2>1 DEF OneBoot
  <2>3. Boots' = Boots \/ Boots' = Boots \cup {Len(msgq) + 1}
    BY <2>1, BootsSent
  <2> QED
    BY <2>1, <2>2, <2>3 DEF OneBoot, Typing
<1>2. CASE MarkBoot
  BY <1>2 DEF MarkBoot, OneBoot, Boots, Typing, histVars
<1>3. CASE HandleLogin
  <2>1. /\ UNCHANGED <<wpc, u_boot_cmd, early>> /\ msgq' = Sent("login")
        /\ ppc = "handle"
    BY <1>3 DEF HandleLogin, histVars
  <2>2. Boots' = Boots
    BY <2>1, BootsSent
  <2> QED
    BY <2>1, <2>2 DEF OneBoot, Typing
<1>4. CASE UnmarkBoot
  <2>1. UNCHANGED <<msgq, wpc>> /\ early' = (early \/ InFlight > 0)
    BY <1>4 DEF UnmarkBoot
  <2>2. ~early' => Boots = {} /\ ~Typing
    BY <2>1, NothingInFlight
  <2> QED
    BY <2>1, <2>2 DEF OneBoot, Boots, Typing
<1> QED
  BY <1>1, <1>2, <1>3, <1>4

LEMMA BootStep ==
  ASSUME BufferInv, OneBoot, [Next]_vars
  PROVE  OneBoot'
<1>1. CASE \/ MainRead \/ EpollWait \/ MainSignal \/ MainReadFails
           \/ PrintLine \/ PrintKeeps \/ PrintWaits \/ SpuriousWakeup \/ HandleNothing
  <2>1. UNCHANGED <<msgq, wpc, u_boot_cmd, early>> /\ (ppc = "mark" => ppc' = "mark")
    BY <1>1 DEF MainRead, EpollWait, MainSignal, MainReadFails, PrintLine, PrintKeeps,
       PrintWaits, SpuriousWakeup, HandleNothing, Crash, histVars
  <2> QED
    BY <2>1, BootUntouched
<1>2. CASE PrintTakes
  <2>1. UNCHANGED <<msgq, wpc, u_boot_cmd, early>> /\ (ppc = "mark" => ppc' = "mark")
    BY <1>2 DEF PrintTakes, Crash, histVars
  <2> QED
    BY <2>1, BootUntouched
<1>3. CASE HandlePrompt \/ MarkBoot \/ HandleLogin \/ UnmarkBoot
  BY <1>3, HandleBootStep
<1>4. CASE Restart
  <2>1. /\ wpc' = "recv" /\ msgq' = msgq
        /\ early' = (early \/ \E i \in DOMAIN msgq : msgq[i] = "boot")
    BY <1>4 DEF Restart
  <2> QED
    BY <2>1 DEF OneBoot, Boots, Typing
<1>5. CASE Writer
  <2>1. CASE WriterReceives
    BY <2>1, BootsReceived
  <2>2. CASE WriterTypesBoot \/ WriterTypesOther
    BY <2>2 DEF WriterTypesBoot, WriterTypesOther, OneBoot, Boots, Typing, histVars
  <2>3. CASE WriterEndsBoot
    BY <2>3 DEF WriterEndsBoot, OneBoot, Boots, Typing, histVars
  <2> QED
    BY <1>5, <2>1, <2>2, <2>3 DEF Writer
<1>6. CASE \E chunk \in Chunks : DeviceSends(chunk)
  <2>1. UNCHANGED <<msgq, wpc, u_boot_cmd, early, ppc>>
    BY <1>6 DEF DeviceSends, histVars
  <2> QED
    BY <2>1, BootUntouched
<1>7. CASE \E m \in ExtMsgs : SerialMsg(m)
  <2>1. PICK m \in {"reboot"} : SerialMsg(m)
    BY <1>7, InputAssumption
  <2>2. UNCHANGED <<wpc, u_boot_cmd, early, ppc>> /\ msgq' = Sent("reboot")
    BY <2>1 DEF SerialMsg, histVars
  <2>3. Boots' = Boots
    BY <2>2, BootsSent
  <2> QED
    BY <2>2, <2>3 DEF OneBoot, Typing
<1>8. CASE UNCHANGED vars
  BY <1>8, BootUntouched DEF vars, histVars
<1> QED
  BY <1>1, <1>2, <1>3, <1>4, <1>5, <1>6, <1>7, <1>8, Steps

-----------------------------------------------------------------------------
(* The inductive invariant and what follows from it.                       *)
ConsoleInv == BufferInv /\ UnseenIsMissed /\ UnreadIsAnnounced /\ OneBoot

LEMMA InitHolds == Init => ConsoleInv
<1> SUFFICES ASSUME Init PROVE ConsoleInv
  OBVIOUS
<1>1. << >> \in Seq({"boot", "login", "reboot"}) /\ Len(<< >>) = 0 /\ DOMAIN << >> = {}
  BY EmptySeq
<1>2. QueueTypes
  <2>1. 0 <= QueueLen
    BY Sizes
  <2> QED
    BY <1>1, <2>1 DEF Init, QueueTypes
<1>3. Fresh /\ missed \in BOOLEAN /\ early \in BOOLEAN
  BY DEF Init, Fresh
<1>4. BufferInv
  BY <1>2, <1>3, FreshHolds
<1>5. UnseenIsMissed /\ UnreadIsAnnounced
  BY DEF Init, UnseenIsMissed, UnreadIsAnnounced
<1>6. OneBoot
  <2>1. Boots = {} /\ ~Typing
    BY <1>1 DEF Init, Boots, Typing
  <2> QED
    BY <2>1 DEF OneBoot
<1> QED
  BY <1>4, <1>5, <1>6 DEF ConsoleInv

LEMMA ConsoleStep == ConsoleInv /\ [Next]_vars => ConsoleInv'
BY BufferStep, UnseenStep, AnnouncedStep, BootStep DEF ConsoleInv

LEMMA ConsoleInvHolds == Spec => []ConsoleInv
BY InitHolds, ConsoleStep, PTL DEF Spec

(* Every variable has its type, and no index leaves its buffer: a read or  *)
(* a copy that would is a crash that the model records, and nothing else   *)
(* is ever out of range (serial_run.cpp:334-374, 549-558).                 *)
THEOREM TypeCorrect == Spec => []TypeOK
<1>1. ConsoleInv => TypeOK
  BY DEF ConsoleInv, BufferInv
<1> QED
  BY <1>1, ConsoleInvHolds, PTL

(* When the printf thread has caught up, read_buffer has room behind       *)
(* read_end for as much as line_pr holds, whatever was read before         *)
(* (serial_run.cpp:46, 343-345).                                           *)
THEOREM RoomForTheNextRead == Spec => []RoomWhenDrained
<1>1. ConsoleInv => RoomWhenDrained
  <2> SUFFICES ASSUME ConsoleInv PROVE RoomWhenDrained
    OBVIOUS
  <2>1. read_start \in Nat /\ read_start < BufSize
    BY TypesOfReading DEF ConsoleInv
  <2> QED
    BY <2>1, Sizes DEF RoomWhenDrained
<1> QED
  BY <1>1, ConsoleInvHolds, PTL

(* The printf thread never sleeps over text that came while it slept: what *)
(* it leaves behind came with a signal while it was busy, the signal that  *)
(* a condition variable does not keep (serial_run.cpp:329-338, 564-566).   *)
THEOREM SleepsOnlyAfterMissedSignal == Spec => []SleepsOnlyOnMissedSignal
<1>1. ConsoleInv => SleepsOnlyOnMissedSignal
  BY DEF ConsoleInv, UnseenIsMissed, SleepsOnlyOnMissedSignal
<1> QED
  BY <1>1, ConsoleInvHolds, PTL

(* Edge-triggered and with one read for each edge, main still does not go  *)
(* to sleep over bytes of the device: line_pr is smaller than what a read  *)
(* takes, and a read that left bytes behind has overrun it                 *)
(* (serial_run.cpp:536-561).                                               *)
THEOREM EdgeForEveryByte == Spec => []NeverIdleOverBytes
<1>1. ConsoleInv => NeverIdleOverBytes
  BY DEF ConsoleInv, UnreadIsAnnounced, NeverIdleOverBytes
<1> QED
  BY <1>1, ConsoleInvHolds, PTL

(* u_boot_cmd keeps a second boot command off the queue as long as nobody  *)
(* clears it early: not with a queue of any length, not with messages lost *)
(* on a full one, not with the prompt printed between the check, msgsnd    *)
(* and the assignment (serial_run.cpp:152, 197-214).                       *)
THEOREM OneBootUnderWay == Spec => []BootRepeatsOnlyAfterReset
<1>1. ConsoleInv => BootRepeatsOnlyAfterReset
  BY OneInFlight DEF ConsoleInv
<1> QED
  BY <1>1, ConsoleInvHolds, PTL

-----------------------------------------------------------------------------
(* The console reads lines: a step of the console is a step of LineReader, *)
(* or none.  Stream is what came and has not been handled.                 *)
Stream == line_buffer \o pr_buffer \o Unread

LEMMA UnreadIsText ==
  ASSUME BufferInv
  PROVE  /\ Unread \in Seq(Bytes) /\ Len(Unread) = read_end - read_start
         /\ \A i \in 1 .. read_end - read_start : Unread[i] = read_buffer[read_start + i - 1]
<1> DEFINE size == read_end - read_start
<1>1. read_start \in Nat /\ read_end \in Nat /\ read_start <= read_end
  BY TypesOfReading
<1>2. size \in Nat
  BY <1>1
<1>3. \A i \in 1 .. size : read_buffer[read_start + i - 1] \in Bytes
  BY <1>1 DEF BufferInv, Filled
<1>4. Unread \in [1 .. size -> Bytes]
  BY <1>3 DEF Unread
<1>5. \A i \in 1 .. size : Unread[i] = read_buffer[read_start + i - 1]
  BY DEF Unread
<1> HIDE DEF size
<1>6. Unread \in Seq(Bytes)
  BY <1>2, <1>4, SeqDef
<1>7. Len(Unread) = size
  BY <1>2, <1>4, <1>6, LenProperties
<1> QED
  BY <1>5, <1>6, <1>7 DEF size

LEMMA Regroup ==
  \A s, t, u \in Seq(Bytes) : (s \o t) \o u = s \o (t \o u)
<1> TAKE s, t, u \in Seq(Bytes)
<1> HIDE DEF Bytes
<1> QED
  BY ConcatAssociative

LEMMA StreamIsText ==
  ASSUME BufferInv
  PROVE  /\ line_buffer \in Seq(Bytes) /\ pr_buffer \in Seq(Bytes)
         /\ line_buffer \o pr_buffer \in Seq(Bytes) /\ Stream \in Seq(Bytes)
<1>1. line_buffer \in Seq(Bytes) /\ pr_buffer \in Seq(Bytes)
  BY DEF BufferInv, TypeOK
<1>2. line_buffer \o pr_buffer \in Seq(Bytes)
  BY <1>1, ConcatProperties
<1> QED
  BY <1>1, <1>2, UnreadIsText, ConcatProperties DEF Stream

LEMMA StreamUntouched ==
  ASSUME UNCHANGED <<readVars, printVars>>
  PROVE  UNCHANGED <<Stream, buf>>
BY DEF Stream, Unread, readVars, printVars

(* Where one text ends and another goes on.                                *)
LEMMA Split ==
  ASSUME NEW S, NEW q \in Seq(S), NEW r \in Seq(S)
  PROVE  /\ SubSeq(q \o r, 1, Len(q)) = q
         /\ SubSeq(q \o r, Len(q) + 1, Len(q \o r)) = r
<1> DEFINE m == Len(q)
           n == Len(r)
           t == q \o r
<1>1. m \in Nat /\ n \in Nat
  BY LenProperties
<1>2. /\ t \in Seq(S) /\ Len(t) = m + n
      /\ \A i \in 1 .. m + n : t[i] = IF i <= m THEN q[i] ELSE r[i - m]
  BY ConcatProperties
<1> HIDE DEF t
<1>3. SubSeq(t, 1, m) = q
  <2>1. /\ 1 \in Nat \ {0} /\ m <= Len(t)
    BY <1>1, <1>2
  <2> HIDE DEF m
  <2>2. /\ SubSeq(t, 1, m) \in Seq(S)
        /\ Len(SubSeq(t, 1, m)) = IF 1 <= m THEN m - 1 + 1 ELSE 0
        /\ \A i \in 1 .. Len(SubSeq(t, 1, m)) : SubSeq(t, 1, m)[i] = t[1 + i - 1]
    BY <1>1, <1>2, <2>1, Piece
  <2>3. Len(SubSeq(t, 1, m)) = m
    BY <1>1, <2>2
  <2>4. ASSUME NEW i \in 1 .. m PROVE SubSeq(t, 1, m)[i] = q[i]
    <3>1. 1 + i - 1 = i /\ i \in 1 .. m + n /\ i <= m
      BY <1>1
    <3> QED
      BY <1>2, <2>2, <2>3, <3>1
  <2>5. Len(SubSeq(t, 1, m)) = Len(q)
    BY <2>3 DEF m
  <2>6. \A i \in 1 .. Len(SubSeq(t, 1, m)) : SubSeq(t, 1, m)[i] = q[i]
    BY <2>3, <2>4
  <2> QED
    BY <2>2, <2>5, <2>6, SeqEqual
<1>4. SubSeq(t, m + 1, Len(t)) = r
  <2>1. m + 1 \in Nat \ {0} /\ Len(t) \in Nat /\ Len(t) <= Len(t)
    BY <1>1, <1>2
  <2> DEFINE u == SubSeq(t, m + 1, Len(t))
  <2>2. /\ u \in Seq(S)
        /\ Len(u) = IF m + 1 <= Len(t) THEN Len(t) - (m + 1) + 1 ELSE 0
        /\ \A i \in 1 .. Len(u) : u[i] = t[m + 1 + i - 1]
    BY <1>2, <2>1, Piece
  <2> HIDE DEF u, m, n
  <2>3. Len(u) = n
    BY <1>1, <1>2, <2>2
  <2>4. ASSUME NEW i \in 1 .. n PROVE u[i] = r[i]
    <3>1. PICK j \in 1 .. m + n : j = m + i
      BY <1>1
    <3>2. m + 1 + i - 1 = j /\ ~(j <= m) /\ j - m = i
      BY <1>1, <3>1
    <3>3. u[i] = t[j]
      BY <2>2, <2>3, <3>2
    <3>4. t[j] = r[j - m]
      BY <1>2, <3>2
    <3> QED
      BY <3>2, <3>3, <3>4
  <2>5. Len(u) = Len(r)
    BY <2>3 DEF n
  <2>6. \A i \in 1 .. Len(u) : u[i] = r[i]
    BY <2>3, <2>4
  <2>7. u = r
    BY <2>2, <2>5, <2>6, SeqEqual
  <2> QED
    BY <2>7 DEF u
<1> QED
  BY <1>3, <1>4 DEF t

LEMMA ReceiveStep ==
  ASSUME BufferInv, MainRead, BufferInv'
  PROVE  LR!Receive \/ UNCHANGED <<Stream, buf>>
<1> DEFINE size == ReadSize
           n == Len(Unread)
           piece == SubSeq(Unread', n + 1, Len(Unread'))
<1>1. CASE Crash("read_buffer") \/ Crash("line_pr")
  BY <1>1, StreamUntouched DEF Crash
<1>2. CASE /\ read_buffer' = [i \in DOMAIN read_buffer |->
                  IF i \in read_end .. read_end + size - 1
                  THEN tty[i - read_end + 1] ELSE read_buffer[i]]
           /\ read_end' = read_end + size
           /\ UNCHANGED <<read_start, printVars>>
  <2>1. /\ tty \in Seq(Bytes) /\ Len(tty) \in Nat /\ tty # << >>
        /\ read_buffer \in [0 .. Capacity - 1 -> Bytes \cup {None}]
        /\ read_start \in Nat /\ read_end \in Nat /\ read_start <= read_end
        /\ read_end <= Capacity
    BY TypesOfReading DEF MainRead, BufferInv, LockedToRead
  <2>2. Len(tty) # 0
    BY <2>1, EmptySeq
  <2>3. size \in Nat /\ size >= 1
    BY <2>1, <2>2, Sizes DEF ReadSize
  <2> HIDE DEF size
  <2>4. /\ Unread \in Seq(Bytes) /\ n = read_end - read_start
        /\ \A i \in 1 .. read_end - read_start : Unread[i] = read_buffer[read_start + i - 1]
    BY UnreadIsText
  <2>5. (BufferInv => /\ Unread \in Seq(Bytes) /\ Len(Unread) = read_end - read_start
                      /\ \A i \in 1 .. read_end - read_start :
                           Unread[i] = read_buffer[read_start + i - 1])'
    BY UnreadIsText, PTL
  <2>6. /\ Unread' \in Seq(Bytes) /\ Len(Unread') = n + size
        /\ \A i \in 1 .. n + size : Unread'[i] = read_buffer'[read_start + i - 1]
    <3>1. read_end' - read_start' = n + size
      BY <1>2, <2>1, <2>3, <2>4
    <3> HIDE DEF n
    <3> QED
      BY <1>2, <2>5, <3>1
  <2>7. ASSUME NEW i \in 1 .. n PROVE Unread'[i] = Unread[i]
    <3>1. i \in 1 .. n + size /\ i \in 1 .. read_end - read_start
      BY <2>1, <2>3, <2>4
    <3>2. /\ read_start + i - 1 \in 0 .. Capacity - 1
          /\ ~(read_start + i - 1 \in read_end .. read_end + size - 1)
      BY <2>1, <2>3, <2>4, <3>1, Sizes
    <3>3. read_buffer'[read_start + i - 1] = read_buffer[read_start + i - 1]
      BY <1>2, <2>1, <3>2
    <3> QED
      BY <2>4, <2>6, <3>1, <3>3
  <2>8. n \in Nat
    BY <2>1, <2>4
  <2>9. Unread' = Unread \o piece /\ piece \in Seq(Bytes) /\ Len(piece) = size
    <3>1. /\ piece \in Seq(Bytes)
          /\ Len(piece) = IF n + 1 <= Len(Unread') THEN Len(Unread') - (n + 1) + 1 ELSE 0
          /\ \A i \in 1 .. Len(piece) : piece[i] = Unread'[n + 1 + i - 1]
      <4>1. n + 1 \in Nat \ {0} /\ Len(Unread') \in Nat /\ Len(Unread') <= Len(Unread')
        BY <2>3, <2>6, <2>8
      <4> QED
        BY <2>6, <4>1, Piece
    <3> HIDE DEF piece
    <3>2. Len(piece) = size
      BY <2>3, <2>6, <2>8, <3>1
    <3>3. /\ Unread \o piece \in Seq(Bytes) /\ Len(Unread \o piece) = n + size
          /\ \A i \in 1 .. n + size :
               (Unread \o piece)[i] = IF i <= n THEN Unread[i] ELSE piece[i - n]
      BY <2>4, <3>1, <3>2, ConcatProperties
    <3>4. ASSUME NEW i \in 1 .. n + size PROVE Unread'[i] = (Unread \o piece)[i]
      <4> HIDE DEF n
      <4>1. CASE i <= n
        <5>1. i \in 1 .. n
          BY <2>3, <2>8, <4>1
        <5> QED
          BY <2>7, <3>3, <4>1, <5>1
      <4>2. CASE ~(i <= n)
        <5>1. i - n \in 1 .. size /\ n + 1 + (i - n) - 1 = i
          BY <2>3, <2>8, <4>2
        <5>2. piece[i - n] = Unread'[i]
          BY <3>1, <3>2, <5>1
        <5> QED
          BY <3>3, <4>2, <5>2
      <4> QED
        BY <4>1, <4>2
    <3>5. Unread' = Unread \o piece
      <4>1. Len(Unread') = Len(Unread \o piece)
        BY <2>6, <3>3
      <4>2. \A i \in 1 .. Len(Unread') : Unread'[i] = (Unread \o piece)[i]
        BY <2>6, <3>4
      <4> QED
        BY <2>6, <3>3, <4>1, <4>2, SeqEqual
    <3> QED
      BY <3>1, <3>2, <3>5
  <2> HIDE DEF piece, n
  <2>10. Stream' = Stream \o piece
    <3>1. Stream' = (line_buffer \o pr_buffer) \o (Unread \o piece)
      BY <1>2, <2>9 DEF Stream, printVars
    <3>2. ((line_buffer \o pr_buffer) \o Unread) \o piece
          = (line_buffer \o pr_buffer) \o (Unread \o piece)
      <4>1. /\ line_buffer \o pr_buffer \in Seq(Bytes)
            /\ Unread \in Seq(Bytes) /\ piece \in Seq(Bytes)
        BY <2>4, <2>9, StreamIsText
      <4> QED
        BY <4>1, Regroup
    <3> QED
      BY <3>1, <3>2 DEF Stream
  <2>11. Stream \in Seq(Bytes) /\ Len(Stream) \in Nat
    BY StreamIsText, LenProperties
  <2>12. Stream' \in Seq(Bytes) /\ Len(Stream') = Len(Stream) + size
    BY <2>9, <2>10, <2>11, ConcatProperties
  <2>13. SubSeq(Stream', 1, Len(Stream)) = Stream
    BY <2>9, <2>10, <2>11, Split
  <2>14. Len(Stream) + 1 \in DOMAIN Stream'
    <3>1. DOMAIN Stream' = 1 .. Len(Stream) + size
      BY <2>12, LenProperties
    <3> QED
      BY <2>3, <2>11, <3>1
  <2>15. Len(Stream) + 1 - 1 = Len(Stream)
    BY <2>11
  <2>16. \E more \in DOMAIN Stream' : SubSeq(Stream', 1, more - 1) = Stream
    BY <2>13, <2>14, <2>15
  <2>17. UNCHANGED buf
    BY <1>2 DEF printVars
  <2> QED
    BY <2>12, <2>16, <2>17 DEF LR!Receive, LR!Texts, Stream
<1> QED
  BY <1>1, <1>2 DEF MainRead

(* What the printf thread takes is what was unread.                        *)
LEMMA TakeStep ==
  ASSUME BufferInv, PrintTakes
  PROVE  UNCHANGED <<Stream, buf>>
<1> DEFINE size == read_end - read_start
<1>1. CASE \/ Crash("pr_buffer")
           \/ UNCHANGED <<pr_buffer, readVars, line_buffer, buf>>
  BY <1>1, StreamUntouched DEF Crash, printVars
<1>2. CASE /\ pr_buffer' = [i \in 1 .. size |-> read_buffer[read_start + i - 1]]
           /\ read_start' = NextStart /\ read_end' = NextStart
           /\ UNCHANGED <<line_buffer, buf>>
  <2>1. pr_buffer' = Unread
    BY <1>2 DEF Unread
  <2>2. Unread' = << >>
    <3>1. NextStart \in Nat
      BY TypesOfReading DEF NextStart
    <3>2. read_end' - read_start' = 0
      BY <1>2, <3>1
    <3>3. DOMAIN Unread' = {}
      BY <3>2 DEF Unread
    <3>4. Unread' = [i \in 1 .. 0 |-> read_buffer'[read_start' + i - 1]]
      BY <3>2 DEF Unread
    <3>5. Unread' \in [1 .. 0 -> Bytes]
      BY <3>4
    <3>6. Unread' \in Seq(Bytes)
      BY <3>5, SeqDef
    <3>7. Len(Unread') = 0
      BY <3>5, <3>6, LenProperties
    <3> QED
      BY <3>6, <3>7, EmptySeq
  <2>3. pr_buffer = << >>
    BY DEF PrintTakes, BufferInv, ScannedFirst
  <2>4. Stream' = (line_buffer \o Unread) \o << >>
    BY <1>2, <2>1, <2>2 DEF Stream
  <2>5. line_buffer \in Seq(Bytes) /\ Unread \in Seq(Bytes) /\ line_buffer \o Unread \in Seq(Bytes)
    BY StreamIsText, UnreadIsText, ConcatProperties
  <2>6. Stream' = line_buffer \o Unread
    BY <2>4, <2>5, ConcatEmptySeq
  <2>7. Stream = line_buffer \o Unread
    BY <2>3, <2>5, ConcatEmptySeq DEF Stream
  <2> QED
    BY <1>2, <2>6, <2>7
<1> QED
  BY <1>1, <1>2 DEF PrintTakes

(* What is kept goes behind what was kept before.                          *)
LEMMA KeepStep ==
  ASSUME BufferInv, PrintKeeps
  PROVE  UNCHANGED <<Stream, buf>>
<1>1. CASE Crash("line_buffer")
  BY <1>1, StreamUntouched DEF Crash
<1>2. CASE /\ line_buffer' = line_buffer \o pr_buffer
           /\ pr_buffer' = << >>
           /\ UNCHANGED <<readVars, buf>>
  <2>1. line_buffer' \o pr_buffer' = line_buffer \o pr_buffer
    BY <1>2, StreamIsText, ConcatEmptySeq
  <2>2. Unread' = Unread
    BY <1>2 DEF Unread, readVars
  <2> QED
    BY <1>2, <2>1, <2>2 DEF Stream
<1> QED
  BY <1>1, <1>2 DEF PrintKeeps

(* The first end of a line in pr_buffer is the first in the stream, for    *)
(* what was kept has none.                                                 *)
LEMMA LineStep ==
  ASSUME BufferInv, PrintLine
  PROVE  LR!HandleLine \/ UNCHANGED <<Stream, buf>>
<1>1. PICK k \in LineEnds :
        LET text == line_buffer \o SubSeq(pr_buffer, 1, k)
        IN /\ \A i \in LineEnds : k <= i
           /\ \/ Crash("line_buffer")
              \/ /\ buf' = text
                 /\ line_buffer' = << >>
                 /\ pr_buffer' = SubSeq(pr_buffer, k + 1, Len(pr_buffer))
                 /\ UNCHANGED readVars
  BY DEF PrintLine
<1> DEFINE head == SubSeq(pr_buffer, 1, k)
           rest == SubSeq(pr_buffer, k + 1, Len(pr_buffer))
           text == line_buffer \o head
           more == rest \o Unread
<1>2. CASE Crash("line_buffer")
  BY <1>2, StreamUntouched DEF Crash
<1>3. CASE /\ buf' = text /\ line_buffer' = << >> /\ pr_buffer' = rest
           /\ UNCHANGED readVars
  <2>1. /\ pr_buffer \in Seq(Bytes) /\ line_buffer \in Seq(Bytes)
        /\ Len(pr_buffer) \in Nat /\ Len(line_buffer) \in Nat
        /\ k \in 1 .. Len(pr_buffer) /\ k \in Nat \ {0} /\ pr_buffer[k] = NewLine
        /\ head \in Seq(Bytes) /\ Len(head) = k
        /\ \A i \in 1 .. k : head[i] = pr_buffer[i]
        /\ rest \in Seq(Bytes)
    BY Cuts
  <2>2. Unread \in Seq(Bytes) /\ Unread' = Unread
    BY <1>3, UnreadIsText DEF Unread, readVars
  <2>3. pr_buffer = head \o rest
    <3>1. SubSeq(pr_buffer, 1, Len(pr_buffer)) = pr_buffer
      BY <2>1, SubSeqFull
    <3>2. 1 \in 1 .. Len(pr_buffer) + 1 /\ k \in 1 - 1 .. Len(pr_buffer)
          /\ Len(pr_buffer) \in k .. Len(pr_buffer)
      BY <2>1
    <3>3. SubSeq(pr_buffer, 1, k) \o SubSeq(pr_buffer, k + 1, Len(pr_buffer))
          = SubSeq(pr_buffer, 1, Len(pr_buffer))
      BY <2>1, <3>2, ConcatAdjacentSubSeq
    <3> QED
      BY <3>1, <3>3
  <2> HIDE DEF head, rest
  <2>4. /\ text \in Seq(Bytes) /\ Len(text) = Len(line_buffer) + k
        /\ \A i \in 1 .. Len(line_buffer) + k :
             text[i] = IF i <= Len(line_buffer) THEN line_buffer[i]
                       ELSE head[i - Len(line_buffer)]
    BY <2>1, ConcatProperties
  <2>5. more \in Seq(Bytes)
    BY <2>1, <2>2, ConcatProperties
  <2>6. Stream = text \o more
    <3>1. Stream = (line_buffer \o (head \o rest)) \o Unread
      BY <2>3 DEF Stream
    <3>2. line_buffer \o (head \o rest) = text \o rest
      <4>1. line_buffer \in Seq(Bytes) /\ head \in Seq(Bytes) /\ rest \in Seq(Bytes)
        BY <2>1
      <4> QED
        BY <4>1, Regroup
    <3>3. (text \o rest) \o Unread = text \o more
      <4>1. text \in Seq(Bytes) /\ rest \in Seq(Bytes) /\ Unread \in Seq(Bytes)
        BY <2>1, <2>2, <2>4
      <4> HIDE DEF text
      <4> QED
        BY <4>1, Regroup
    <3> QED
      BY <3>1, <3>2, <3>3
  <2>7. Stream' = more
    <3>1. Stream' = (<< >> \o rest) \o Unread
      BY <1>3, <2>2 DEF Stream
    <3>2. << >> \o rest = rest
      BY <2>1, ConcatEmptySeq
    <3> QED
      BY <3>1, <3>2
  <2>8. ASSUME NEW i \in 1 .. Len(line_buffer) + k
        PROVE  text[i] = NewLine <=> i = Len(line_buffer) + k
    <3>1. CASE i <= Len(line_buffer)
      <4>1. i \in 1 .. Len(line_buffer) /\ i # Len(line_buffer) + k
        BY <2>1, <3>1
      <4>2. line_buffer[i] # NewLine
        BY <4>1 DEF BufferInv, KeptIsPartial
      <4> QED
        BY <2>4, <3>1, <4>1, <4>2
    <3>2. CASE ~(i <= Len(line_buffer))
      <4>0. Len(line_buffer) \in Nat /\ k \in Nat
        BY <2>1
      <4>1. PICK j \in 1 .. k : j = i - Len(line_buffer)
        BY <3>2, <4>0
      <4>2. text[i] = pr_buffer[j]
        <5>1. text[i] = head[i - Len(line_buffer)]
          BY <2>4, <3>2
        <5> QED
          BY <2>1, <4>1, <5>1
      <4>3. pr_buffer[j] = NewLine => j = k
        <5>1. DOMAIN pr_buffer = 1 .. Len(pr_buffer) /\ j \in 1 .. Len(pr_buffer)
          BY <2>1, LenProperties
        <5>2. pr_buffer[j] = NewLine => k <= j
          BY <1>1, <5>1 DEF LineEnds
        <5> QED
          BY <2>1, <5>2
      <4>4. j = k <=> i = Len(line_buffer) + k
        BY <2>1, <4>1
      <4> QED
        BY <2>1, <4>2, <4>3, <4>4
    <3> QED
      BY <3>1, <3>2
  <2> HIDE DEF text, more
  <2> DEFINE last == Len(line_buffer) + k
  <2>9. /\ last \in Nat /\ last \in 1 .. last /\ last = Len(text)
        /\ \A i \in 1 .. last - 1 : i \in 1 .. last /\ i # last
    BY <2>1, <2>4
  <2>10. /\ Stream \in Seq(Bytes) /\ Len(Stream) = last + Len(more) /\ Len(more) \in Nat
         /\ \A i \in 1 .. last + Len(more) :
              Stream[i] = IF i <= last THEN text[i] ELSE more[i - last]
    <3>1. /\ text \o more \in Seq(Bytes) /\ Len(text \o more) = Len(text) + Len(more)
          /\ \A i \in 1 .. Len(text) + Len(more) :
               (text \o more)[i] = IF i <= Len(text) THEN text[i] ELSE more[i - Len(text)]
      BY <2>4, <2>5, ConcatProperties
    <3>2. Len(more) \in Nat
      BY <2>5, LenProperties
    <3> HIDE DEF last
    <3> QED
      BY <2>6, <2>9, <3>1, <3>2
  <2>11. last \in DOMAIN Stream
    <3>1. DOMAIN Stream = 1 .. last + Len(more)
      BY <2>10, LenProperties
    <3> HIDE DEF last
    <3> QED
      BY <2>9, <2>10, <3>1
  <2>12. \A i \in 1 .. last : Stream[i] = text[i]
    <3> HIDE DEF last
    <3>1. \A i \in 1 .. last : i \in 1 .. last + Len(more) /\ i <= last
      BY <2>9, <2>10
    <3> QED
      BY <2>10, <3>1
  <2>13. Stream[last] = NewLine /\ \A i \in 1 .. last - 1 : Stream[i] # NewLine
    BY <2>8, <2>9, <2>12
  <2>14. SubSeq(Stream, 1, last) = text /\ SubSeq(Stream, last + 1, Len(Stream)) = more
    BY <2>4, <2>5, <2>6, <2>9, Split
  <2>15. /\ last \in DOMAIN Stream
         /\ Stream[last] = NewLine
         /\ \A i \in 1 .. last - 1 : Stream[i] # NewLine
         /\ buf' = SubSeq(Stream, 1, last)
         /\ Stream' = SubSeq(Stream, last + 1, Len(Stream))
    BY <1>3, <2>7, <2>11, <2>13, <2>14
  <2> HIDE DEF last
  <2> QED
    BY <2>15 DEF LR!HandleLine, Stream
<1> QED
  BY <1>1, <1>2, <1>3

LEMMA FreshIsEmpty == Fresh => Stream = << >>
<1> SUFFICES ASSUME Fresh PROVE Stream = << >>
  OBVIOUS
<1>1. Unread \in [1 .. 0 -> Bytes]
  BY DEF Fresh, Unread
<1>2. Unread \in Seq(Bytes) /\ Len(Unread) = 0
  BY <1>1, SeqDef, LenProperties
<1>3. Unread = << >>
  BY <1>2, EmptySeq
<1>4. << >> \in Seq(Bytes) /\ << >> \o << >> = << >>
  BY EmptySeq, ConcatEmptySeq
<1> QED
  BY <1>3, <1>4 DEF Fresh, Stream

LEMMA ReaderStep ==
  ASSUME BufferInv, [Next]_vars, BufferInv'
  PROVE  [LR!Next]_<<Stream, buf>>
<1>1. CASE \/ EpollWait \/ MainSignal \/ MainReadFails
           \/ PrintWaits \/ SpuriousWakeup
           \/ HandleNothing \/ HandlePrompt \/ MarkBoot \/ HandleLogin \/ UnmarkBoot
           \/ Writer
           \/ \E chunk \in Chunks : DeviceSends(chunk)
           \/ \E m \in ExtMsgs : SerialMsg(m)
  BY <1>1, MainQuiet, PrintQuiet, WriterQuiet, DeviceQuiet, StreamUntouched
<1>2. CASE Restart
  <2>1. Fresh' /\ buf' = << >>
    BY <1>2 DEF Restart, Fresh
  <2>2. Stream' = << >>
    <3>1. (Fresh => Stream = << >>)'
      BY FreshIsEmpty, PTL
    <3> QED
      BY <2>1, <3>1
  <2>3. LR!Restart
    BY <2>1, <2>2 DEF LR!Restart, Stream
  <2> QED
    BY <2>3 DEF LR!Next
<1>3. CASE UNCHANGED vars
  BY <1>3, StreamUntouched DEF vars
<1>4. CASE MainRead
  BY <1>4, ReceiveStep DEF LR!Next
<1>5. CASE PrintTakes \/ PrintKeeps
  BY <1>5, TakeStep, KeepStep
<1>6. CASE PrintLine
  BY <1>6, LineStep DEF LR!Next
<1> QED
  BY <1>1, <1>2, <1>3, <1>4, <1>5, <1>6, Steps

(* The text of the device is handled in lines, in the order it came,       *)
(* nothing lost and nothing twice, however main and the printf thread take *)
(* turns with read_buffer, and across its returns to the start, the second *)
(* copy in pr_buffer and the part of a line that is kept; it is given up   *)
(* by a new start of the program only (serial_run.cpp:334-374, 555-558).   *)
THEOREM ReadsLines == Spec => ImplementsLineReader
<1>1. Init => LR!Init
  <2>1. Init => Fresh /\ buf = << >>
    BY DEF Init, Fresh
  <2>2. Init => Stream = << >> /\ buf = << >>
    BY <2>1, FreshIsEmpty
  <2> QED
    BY <2>2 DEF LR!Init, Stream
<1>2. ConsoleInv /\ [Next]_vars /\ ConsoleInv' => [LR!Next]_LR!vars
  <2>1. ConsoleInv /\ [Next]_vars /\ ConsoleInv' => [LR!Next]_<<Stream, buf>>
    BY ReaderStep DEF ConsoleInv
  <2> QED
    BY <2>1 DEF LR!vars, Stream
<1> QED
  BY <1>1, <1>2, ConsoleInvHolds, PTL DEF Spec, LR!Spec, ImplementsLineReader
=============================================================================
