# libsme in TLA+

This directory is the verification project of libsme: TLA+ modules for the parts of the
system whose correctness depends on orders of events, TLC configurations that check them
on small instances, and proofs, checked by TLAPS, of what holds for every value of the
parameters. Source paths below are relative to the repository.

## 1. The system

libsme is a collection of small C and C++ programs and libraries for embedded boards
(`module/`), and a port of the command-line mailer mailsend (`mail/`) that they use to
report. Nothing is shared between the programs except the libraries, so the project has
one model for each.

| Part | Source | State | Operations | What must hold |
|---|---|---|---|---|
| Cyclic byte buffer | `module/buffer/bufferstack.cpp` | `cyclBuf`, two 8-bit indices | `cyclAdd`, `cyclGet`, one of them from an interrupt | FIFO, nothing lost or read before it is written |
| Event loop | `module/input/in_event.c` | fdevents, `fd_table`, fd sets, pending list | create/destroy/install/remove/set/add/del, loop, subprocess notes | callbacks only for live fdevents, nothing forgotten, table and sets agree |
| Serial console | `module/serial/serial_example/serial_run.cpp`, `serial_extern/serial_msg.c` | `read_buffer`, line buffer, boot flag, System V message queue | main loop, printf, writer, pipe and stdin threads, `serial_msg` | text handled line by line, one boot command per prompt, wake-ups not lost |
| SMTP client | `mail/smtp.c`, reads and writes of `mail/libs/libmsock/msock.c`, capabilities of `mail/setget.c` | place in the dialogue, `smtp_sep`, capabilities, SSL | the dialogue of `send_the_mail` | success means accepted, no text for a refused recipient, no mail before AUTH, it comes back |
| Client socket | `msock.c`, `clientSocket`, `sockWrite` | one socket per address, `rc` | connect with timeout, write, close | what is returned is open, blocking and connected; no connect goes on behind it; what is reported as written was sent |
| Linked list | `mail/libs/libsll/sll.c` | heap nodes | allocate, append, insert, sort in, delete, destroy | the sequence it stands for; no node lost or used after it was freed |
| Message | `mail/smtp.c` 421-1316, `setget.c`, `libmutils/mutils_temp.c` | four attachment lists, temporary files, open files | read options, write headers, parts and boundaries | every item once and in order, multiparts closed, temporary files removed |
| Conversions | `libmutils/mutils.c`, `mutils_mime.c`, `utils.c` | none | base64, hexadecimal, kind of a file | what is encoded can be decoded |
| Strings | `libmutils/mutils.c`, `string.c` | none | paths, tokens, copies, comparisons, numbers, masks, URLs | each does what its reference definition says and stays in its buffers |
| Blob | `libmutils/mutils_blob.c` | block, length, offset | allocate, attach, read, write, rewind, destroy | a file in memory |
| Dot lock | `libmutils/mutils.c` 1138-1202 | lock file, descriptor | lock, unlock with or without deleting | one process at a time |
| Command server | `module/sockect/server`, `client` | accepted descriptor, one thread each | accept, receive, execute, answer | a client that sent a command is answered, by its own thread |
| WebSocket server | `module/sockect/websocket` | threads, the offset into the heart data | handshake, frames, replies | frames decode, replies stay within the data |
| Audio playback | `module/audio/audio.c` | file position, buffer, period | header, parameters, read, write | what is in the file is played, in order |
| Minimal mailer | `module/sockect/email/smtpfuncs.cpp` | socket | one mail | as for SMTP |
| Input server, thread wrapper, HID tools, screen capture | `module/input`, `platform`, `hid`, `media` | - | device I/O | - |

How the parts interact: `serial_msg` and the console share a message queue; the console's
four threads share `read_buffer` under a rwlock, a condition variable and, without any
lock, `u_boot_cmd` and the device; the event loop calls its clients, and clients call the
event loop, in one thread; other processes write into its notification socket; the SMTP
client calls libmsock, whose socket and SSL state are global, and libsll for its lists of
addresses, capabilities and attachments; the message is written into the session while the
text is awaited, through the conversions and temporary files of libmutils; the threads of
the WebSocket server share one offset, those of the command server the variable into which
the next connection is accepted.

What is hard here: interrupts inside unprotected sections (buffer); callbacks that change
the structures being walked, and descriptors that are reused (event loop); lost signals,
a flag set after the message it guards, a queue that outlives the process (console);
replies that come late, in several lines or not at all (SMTP); half of the steps of an
encoding failing (message); sockets left over from the address before (client socket); a
lock file deleted under somebody's lock (dot lock); state shared between threads without
a lock (both servers). PROJECT.json lists each
hazard at its line with the properties that would catch it.

## 2. Modules and the code

Every module names the source lines of its definitions in PROJECT.json under "map".
Definitions that are commented as a mutant are slips somebody could have made in the code;
they are used nowhere in the specifications, and each shows that a property can fail.

### RingBuffer, ByteQueue, RingBufferProofs

`cyclAdd` and `cyclGet` at the grain of their loads and stores. One context is an interrupt
handler (`Isr`), which runs to completion wherever it interrupts the other. The order of the
index and the byte in `buf[e++] = a` is not fixed by the language, so a store before and a
store after are both steps (`AddPublish`, `AddPublishFirst`; `PublishLast` excludes the
second); in the wrap-around branches the order is the written one, which for `cyclGet`
means that the slot is freed before it is read (`GetReleaseFirst`, `GetLateRead`).
`ByteQueue` is the promise: a bounded FIFO. With a handler that gets, a build that moves
the index first gives a get access to a slot not yet written; `IsrAssumption` names this
exclusion.

### FdEvent, FdEventProofs

The `select()` variant, which is the one that is compiled. `fde` holds the objects, with
`want` for the event bits of `state`, `events` for the events collected; `fd_table`,
`select_n`, `fd_sets` and `list_pending` are the code's variables (the linked list as a
sequence). `pc` is the place in the loop: setup, select, drain, client (a callback runs),
subproc and note (the handler of the notification socket). A callback uses the whole
interface on any fdevent (`Scope = "any"`) or only on its own; `MCFdEventCalls` has both kinds, the second as an instance of the module with other constants. `Grown` models realloc and
the memset that counts in `sizeof(int)`. The kernel is `openFds`, `ready`, `notes`.
FDE_ERROR is treated by the code like READ and WRITE and is left out. `adb_close`, `readx`
and FDE_DONT_CLOSE are declared in headers that are not in the repository; a removed
fdevent is taken to close its descriptor. That a client opens a descriptor whose old number
is still registered is excluded (`ClientInstall`).

### SerialConsole, LineReader, SerialConsoleProofs

A byte of the model is a word of the text: one of the configured strings, any other text, or
the end of a line. Main: `EpollWait`, `MainRead`, `MainSignal` (write lock held from the first
to the last). Printf thread: `PrintWaits`, `PrintTakes` (read lock), `PrintLine` for each line,
`PrintKeeps` for the rest; `tty_context_handle` in two steps where it sends a message and then
sets the flag (`HandlePrompt`, `MarkBoot`; `HandleLogin`, `UnmarkBoot`). The writer and
`serial_msg` have an action per step that others can see. A buffer that is overrun ends the run
(`crash`), because what happens afterwards is undefined; `Restart` starts the program again with
the message queue as it was. `LineReader` is the promise about the text. `missed` and `early` are
histories that the program does not have.

### SmtpSession, SmtpSessionProofs

The client is `send_the_mail` statement by statement where it talks: a step writes one command
or reads one line. `c` is its state (`sep` is `smtp_sep`, `caps` is the list of capabilities,
`lines` the counter of the loops that read several lines). `Answer` is `read_smtp_line`: it takes
the next line of the stream, whichever command it answers, or fails at the timeout or the end
of the connection. The timeout is one between two bytes, so a line that comes in pieces puts it off
and may be cut by it (`pieces`); `SSL_connect` on a new socket and `send()` have none. The steps that
return only if the server does something are the ones that `FairSpec` leaves unfair (`MayBlock`). The server is external and may answer anything the protocol allows, in
as many lines as the session's `lines` allow, as a bare code (`bare`), after the client's
timeout (`late`), in pieces (`pieces`), or go away with or without what it said (`close`). A session is a record of
the settings (STARTTLS, SSL, mechanisms, quiet, EHLO, a missing attachment), of the build
(`openssl`) and of that world, chosen in the initial state, so that one run covers several.
The text of the mail is one command here; MailMessage says what it consists of.

### MailMessage

The options -attach, -M, -embed-image and -msg-body as records, `Listed` for what the functions of
`setget.c` put on the four lists with their defaults, and then `smtpMail`: one action per part
that it writes. A written line is a multipart header, a delimiter or the content of an item. Each
step that needs a file or a temporary file has the outcomes of a failure at each call
(`Encodings`, `OnelineEncodings`, `TempOutcomes`), with the files that stay behind and the streams
that stay open (`msgOpen`). `msgLost` is a
history: one-line messages whose encoding failed, which the code ignores.

### Codecs, TextTools

Functions of a text that grows character by character, so that TLC visits every text up to a
length (and, for lines and lengths, long texts of one byte). A base64 text is a sequence of
letter numbers, a character of `TextTools` stands for its class: letters in both cases, a digit
and each separator that some routine looks for. Reference definitions are independent of the
code: what decoding an encoded text must give (`Base64RoundTrip`, `HexRoundTrip`, stated of any
bytes, of which `CodecsRoundTrip` takes the ones so far), what joining the tokens must give, what a mask
with stars means (`Fits`), what host, port and page a URL is put together of (`UrlsParse`). `Garbage` is
what a token holds that nobody wrote.

### Sll, SeqLists; Blob, ByteFile

`Sll` keeps nodes on a heap, with `next` fields and the set of what is allocated; its walks are
functions over positions. `SeqLists` is the promise: sequences of values, changed by one
operation at a time. `Blob` keeps the block, which may be longer than the blob, and marks memory
that was never written as `Unset`; every allocation may fail. `ByteFile` is the promise: bytes
with a position.

### ClientSocket, DotLock

`ClientSocket` is one call of `clientSocket` followed by writes: `TryAddress` for each address,
with a `connect()` that goes on, is refused or is done at once, `Select` for the wait, including
descriptors that are closed or -1 by then. The kernel hands out the lowest free number, so that
a closed descriptor comes back. `DotLock` has processes that open, wait in `flock()`, go on with the
lock or, when it fails, without, close, unlink, and are killed at any point.

### WsCodec, WsServer

`WsCodec` has frames in both directions, the accept key behind the digest with its base64, and
the padding of SHA-1; frames of a client are built as RFC 6455 says. The exclusive or is put
together from that of bits, so that theorems can speak of it. `FetchSecKey` tells when the copy of
the key, or the GUID behind it, leaves the block of 256 bytes. `WsServer` has the accept
loop and a thread per client; every load of a byte at the shared offset is a step, and so are its
load, store and test. The base of the data is what a function without a return statement leaves
(`WsBegin`, `wsStray`), so a load may end the process wherever it goes.
Clients close or reset their end at any time; the second write to one that is gone may end the
process (`wsUp`). `connected` and `data`, which have no initial value, are choices.

### ConnServer, Playback

`ConnServer` has the accept loop, which hands every thread the address of the same variable
(`conSlot`), the threads, the clients and the number of descriptors, none of which is closed.
Clients ask to run a command, for its output, or for what the server ignores (`CommandKinds`; the
client of the repository does the first). That client calls port 9001 and the server listens on
6666; in the model they meet.
`Playback` is the header reader with its reads of what is missing, the parameters, and the loop
that fills and writes periods; a byte is its position in the file. `playStray` marks the buffer
that was reallocated behind its parameter: `realloc` may move it whenever the size changes.

### MCParts

These parts, and the ring buffer, share no state, and one run checks them: `subject` picks one of `Considered` in the
initial state, and only that one takes steps; the runs that end in a violation consider the one part. Their modules keep the names of their variables apart for it. RingFairness and
ConnFairness may be assumed of all: before its first step neither part has a step that must be taken. The
proofs about MailMessage, ClientSocket, WsServer and Playback are in PartsProofs, those
about Blob and Codecs in BytesProofs and those about Sll in SllProofs; the last two rest on the
inductions of Inductions.

## 3. Runs

| Run | Shows | Bounds |
|---|---|---|
| fd_calls | list, table, sets, callbacks under all interface calls; pending and ready fdevents are served where callbacks keep to their own | 2 clients, 3 descriptors, 2 calls per callback, table of 2 that grows to 4; 1 call and no bad descriptors for callbacks that keep to their own |
| fd_unwanted, fd_eof, fd_table64 | disagreements, section 5 | as fd_calls |
| serial_lines | line reader, room, wake-ups | BufSize 3, Slack 2, 3 bytes in the tty |
| serial_live | announced text is taken, boot commands are typed, a second one only after a reset of the flag | queue of 1, no restarts |
| serial_flag | disagreement | queue of 2, restarts |
| smtp_session | success means accepted if the server is timely, text only when awaited, no mail before AUTH, the client comes back | 2 recipients, 11 sessions: 5 settings with OpenSSL against replies of 1 to 4 lines, 4 without it against servers that are late and terse, a late STARTTLS, lines in pieces; 4 sets of capabilities |
| smtp_late | disagreement | 1 session |
| parts: ring | FIFO, safe tests and slots, progress with a receiving interrupt | 4 slots, 2 bytes |
| parts: message | items, boundaries, temporary files | 10 command lines of up to 4 options, 6 settings, 2 inputs |
| parts: codecs | base64, hexadecimal, file kinds | 9 bytes; all texts up to 4, one byte up to 60 |
| parts: texts | strings | 10 characters, all texts up to 4, a token buffer of 4 |
| parts: lists | libsll refines sequences | 3 nodes, 2 lists, 2 values |
| parts: blob | the blob refines a file | 3 bytes, blobs up to 3 |
| parts: socket | clientSocket, sockWrite | 3 addresses, 3 bytes |
| parts: lock | types | 3 processes, 2 files |
| parts: frames | frames, key, padding | 6 bytes; all texts up to 3, one byte up to 225 |
| parts: websocket | replies within the data | 2 clients, limit 2, window 2, room 4, offset up to 5 |
| parts: commands | commands are answered | 3 clients, 2 descriptors |
| parts: playback | playing in order | 8 files, 9 formats, periods of 4 and 16 frames, 50 bytes to play |
| temp_files, connect | disagreements, section 5 | as parts |

Why the bounds are enough. Ring buffer: with 4 slots the indices wrap, the buffer fills and
empties, and an interrupt meets every position; an interrupt that gets instead of adding
(`Isr = "get"`) is left to the proofs, which cover both. Event loop: two clients are the fewest for one
callback to act on another fdevent that waits; three descriptors make the table grow and leave a
hole below `select_n`. Serial console: BufSize, Slack and the tty bound are such that a read can
fill `line_pr` exactly, exceed it, and overrun each buffer. SMTP: two recipients are the fewest of
which one is refused and one accepted; with `MaxLines` 2 and replies of 4 lines the reading loops
reach their limit and leave lines for the four commands that follow. Message: every list is empty,
alone and together with others, with one and two items, and every way through the defaults is
taken. Codecs: 15 and 18 groups of three bytes are where the encoders break their lines, 45 and 54
bytes; 60 goes past both. Frames: 125, 126 and 127 bytes are reached as texts, the lengths around
65535 as headers; blocks of 55, 56 and 64 bytes are where the padding changes; keys of 219 and 220
bytes are where the GUID still fits and where it does not. Lists: three nodes
have a head, a middle and a tail, and with two lists each must stay apart from the other. Lock: the third
process is the one that makes a new file while two others dispute the old. WebSocket: with two
threads the offset passes the room, with the reset of each at every point of the other. Commands:
the third connection finds no descriptor. Playback: files with chunks of odd length, unknown
chunks, a data chunk before fmt, a short fmt, a length that wraps, one that ends early, and
less and more data than is asked for; periods shorter and longer than what is loaded.

TtySize, QueueLen, MaxCalls, MaxNotes, MaxFd, MaxLines, CodMixed, CodUniform, TextBound,
MaxTokenLen, BlobMost, MostAddresses, MostBytes, LockFiles, WsMixed, WsUniform, WsLimit, WsWindow,
WsRoom, WsMost, PlayCount,
PlayRoom and LengthWidth are bounds that the program does not have, or has larger.

Deadlock is checked for the event loop. The console stops when a buffer is
overrun, and a mail session and the parts of MCParts come to an end: their runs do not check it.

## 4. Fairness

- RingBuffer: weak for an add that began, strong for the consumer: interrupts let the main loop
  run again and again.
- FdEvent (`LoopFairness`): the loop's own steps and the return of a callback are weakly fair; `select()` strongly,
  since signals do not interrupt every single call. Other processes owe nothing.
- SerialConsole: every thread is weakly fair; the printf thread's step under the read lock strongly,
  since main releases the write lock each time. No fairness for spurious wake-ups, the device or
  restarts.
- SmtpSession: weak for the client's steps, except those that wait for the server without a limit
  (`MayBlock`: the handshake of a raw SSL socket, any read or write when lines pass in pieces). Weak
  for the server only where it is not late; a late one may be silent. `Terminates` leaves out two
  servers for which nothing limits the wait: one silent on a raw SSL socket, and one that leaves lines unfinished or does not read.
- ConnServer: weak for accept, for the creation of threads and for each step of each thread: the
  scheduler runs them, and `system()` comes back. None for the clients. The other parts of MCParts
  but the ring have no fairness, and nothing is said there that must happen.

## 5. What the runs found

| Run | Code | Statement it disagrees with |
|---|---|---|
| fd_unwanted | `in_event.c:647` clears the wanted events | the comment above it |
| fd_eof | `in_event.c:546` compares a descriptor with itself | "Already reallocated?" |
| fd_table64 | `in_event.c:451` clears half of the new slots on 64-bit builds | the loops that read them |
| serial_flag | `serial_run.cpp:206` sets the flag after the writer may have cleared it | the comment at line 52 |
| smtp_late | `smtp.c:334, 359` pass over unread replies | `smtp.c:1410` |
| temp_files | `smtp.c:707-714` keeps a stream open, `smtp.c:470-498` keep two files | `mutils_temp.c:100` |
| connect | `msock.c:460-477` never reads SO_ERROR | `msock.c:269` |

Met while modelling and not kept as runs, since nothing in the repository says otherwise or since
the properties state the exception:

- `fdevent_destroy` does not free (`in_event.c:591` against `in_event.h:12`); the pipe thread clears
  its buffer before it writes it (`serial_run.cpp:239`).
- SMTP: a silent server keeps the client for ever on a socket that speaks SSL from the start, as
  neither the handshake nor a read has a timeout (`smtp.c:1389`, `msock.c:615`), though
  `doc/mailsend.pod:25` gives the read timeout as 5 seconds; a bare reply code is taken for no reply (`smtp.c:125`); CRAM-MD5 without OpenSSL returns 0
  with nothing sent (`smtp.c:1562`); the read timeout is one of each byte and `send()` has none; a failed
  STARTTLS is passed over (`smtp.c:1522`).
- Message: a one-line message whose encoding fails goes out empty in a mail that is reported as sent
  (`smtp.c:567` against 517); with images and other parts the related multipart is closed before the
  images are written (`smtp.c:1036` against 909); any piece of input that begins with a dot ends it
  (`smtp.c:1271`).
- Dot lock: the file is unlinked after its lock was given up, so that two processes may hold the
  lock, each on a file of its own (`mutils.c:1175-1178` against 1121); the result of `flock()` is
  thrown away, and a process for which it fails goes on as if it had the lock (`mutils.c:1187`
  against 1126). What is left of mutual exclusion is what the kernel does for one file.
- libmutils: the tokenizer leaves the last token unwritten after a trailing delimiter, loses one of
  the greatest length, and writes the zero of such a token past its buffer where a delimiter follows
  (`mutils.c:1435, 1441` against 1372); a mask that begins with a star is compared with the first
  place only, so that `*.a` does not fit `.a.a` (`mutils.c:772` against 708); the digits of a host
  are taken for the port (`mutils.c:521-535` against 422-424);
  `read_blob_lsb_long` extends the sign (`mutils_blob.c:327`);
  `file_to_blob` leaves its file open without memory; the UTF-8 branch of `mutils_file_is_binary`
  cannot be taken where char is signed.
- `clientSocket`: sockets refused at once stay open; one that is connected at once is closed
  (`msock.c:407`).
- WebSocket: `create_heart_data` returns nothing and its result is used (`main.cpp:408, 505`); a key
  of 220 bytes or more, or a long request that ends in the key, overruns its block; the accept key is cut at a zero byte of the digest (`main.cpp:112`); `analyData` trusts
  the length in the frame; two threads can push the offset past the data; a write to a client that
  is gone ends the server; one silent client keeps `accept` waiting.
- Command server: a thread may read the descriptor of the next connection (`socket_server.c:249`
  against 197), and its own client is never answered; descriptors are never closed, and the server ends when there are none left; the
  output of a command may be read past its buffer (`socket_server.c:64`); commands of other kinds get
  no answer.
- Playback: `set_params` reallocates the buffer whose old address `playback_go` goes on using
  (`audio.c:485`), which happens with every period above 10240 bytes that makes the block move; 26 bytes of the header are played, and as much data as a constant says; a chunk of the
  greatest odd length counts as empty; after an underrun the same write is repeated for ever.

## 6. Proofs

RingBufferProofs proves, for every capacity and set of bytes: type correctness, that the tests of
a call stay valid (`TestsValid`), that a freed slot is not filled before it is read
(`FreedSlotSafe`), and that the buffer implements ByteQueue (`RingBufferIsQueue`). The inductive
invariant relates the place of each call to the indices: a get in progress implies a non-empty
buffer, an add in progress a slot that is neither full nor the one being read. It is needed because
the tests are made one step, and possibly a whole interrupt, before they are relied on.

FdEventProofs proves, for any finite set of fdevents and any bounds, including 8-byte pointers:
type correctness, `PendingIsLinked`, `PendingHasEvents` and `CallsOnlyLive`. The inductive invariant
`IInv` adds that every slot below the table's end that names an fdevent names one of the declared
objects (`SlotsOwned`), that a pending fdevent is active, and that `select_n` stays within the
table. `CallsOnlyLive` needs it because between collecting an event and calling for it any callback
may have removed the fdevent. A second invariant, `NotifyWaits`, covers the start of the loop.

`CopiesAgree` and `NeverAborts` are proved under the hypothesis `PtrInts = 1`: pointers are as long
as `int`, so that the memset of `in_event.c:451` reaches every new slot. That is the build the
code was written for; the other build is the disagreement fd_table64, where `NeverAborts` fails
and the hypothesis cannot be spared. The invariant `CopyInv` says that no slot holds `Junk`, that
the slot of every active fdevent names it (`InTable`), that nobody but the notification fdevent
has its descriptor (`NotifyFdKept`), and that a read of that descriptor is on its way only while a
note is there (`NoteForRead`): each FATAL is excluded by one of these.

SerialConsoleProofs proves, for any sizes of the buffers, the queue and the terminal and with any
restarts: the type invariant, `RoomWhenDrained`, `SleepsOnlyOnMissedSignal`, `NeverIdleOverBytes`,
`BootRepeatsOnlyAfterReset`, and that the console implements LineReader (`ReadsLines`). The
inductive invariant `ConsoleInv` has a part for each. `BufferInv`: what is between the two indices
was written, the printf thread reads it under its lock, the lines it has scanned are over before it
returns to the start, and what it keeps is a partial line. `UnseenIsMissed` strengthens the
property about sleeping to the places where the thread is busy and a signal would be lost.
`UnreadIsAnnounced` covers a main that has read and not yet come back. `OneBoot`: until the flag is
cleared early there is one boot command, on the queue or being typed, and the flag is set or about
to be; it is needed because the message is sent one step before the flag is set. For the
refinement, each step of main and of the printf thread is a step of LineReader or a stutter: the
lines of what the thread takes are the lines of what was kept followed by what is new.

PartsProofs proves `LoneReaderInside` of WsServer for any number of clients and any sizes: the invariant is
that an offset past the limit belongs to a thread that has yet to look at it (`LateOffsetIsSeen`).
It is needed because the property speaks of one thread and the offset is made by all of them.

Inductions holds what the proofs about recursive functions rest on. The induction theorems of the
library take an operator, which the provers cannot instantiate. `Induct` states the same for a set of
numbers, from the least number outside it (`LeastNumber`); `Recursion` shows that a function with
f[0] = start and f[i] = step[f[i - 1], i] exists for any step function on a set of states (`Runs`), so
that the recursive definition, which is a CHOOSE, has the property it chooses by; `SameSteps` says
that two functions which start alike and step alike are the same up to the end.

SllProofs proves that `Sll` implements `SeqLists` (`ListsAreSequences`) for any finite set of nodes,
any lists and values, and that no list is lost, shared, circular or dangling (`NoListIsLost`). The
walks of libsll are recursive functions over the heap, so this needs induction, which is used once, to
show that a walk follows the chain of its list (`WalkFollows`). The invariant says that there is such a chain for
every list, a sequence of distinct nodes each of which points to the next (`Chain`), that chains are
disjoint, and that they and the node in the caller's hands are all that is allocated (`Chained`).
Every operation then inserts a node into one chain or takes one out (`ChainGrows`, `ChainShrinks`),
and the values go with the nodes. Of `appendNodeSorted` it is shown that the place where the walk
stops is the only one that `SortedAt` can choose.

BytesProofs proves that `Blob` implements `ByteFile` (`BlobIsByteFile`) for any set of bytes and any
bound: the offset is within the length, the length within the block, and what is below the length
was written (`BlobInv`). The last part is what makes a growth harmless: the block gets longer by
memory that nobody wrote, and the same call writes all of it (`WritingOverlaysContents`). The lemmas
under it say when a sequence is another one overlaid with some bytes (`OverlaidIsNew`,
`ThreeParts`).

Of Codecs it proves `CodecsRoundTrip` for bytes of any number and any values (`CodecsAreRight`; the run
checks it of every text of a few bytes and of long ones of one byte). The encoders put their text
together from pieces, four letters for a group of three bytes, with a line end after some of them;
`Flattened` gives the place at which each piece stands (`Placed`). The decoders and the two guesses
are machines that take one character at a time. Their function exists (`Recursion`), and by
induction over the pieces the state at the end of each is known: after g groups the decoder has the
first 3 * g bytes and is at the start of a quantum (`Got`), after a pair of digits the hexadecimal
reader has the byte and looks at the next place (`AtHex`), after i bytes the flags say which line
ends stand in them (`LineEnds`). What is left at the end of the text is the group of one or two bytes
with its padding. The decoder's bound (`DecodedFits`) is about any input, not only what an encoder
wrote; its invariant is that four letters give three bytes at most, and one more between (`DecodedIsShort`).

And it proves `FramesDecode` of WsCodec (`FramesAreRight`) for texts of any bytes, up to a length of
2^30, and any masks. A frame is header, mask and masked text, and `StandsAt` says where each stands
in the buffer; a mask put on twice is taken off (`XorBack`). Of a frame that came in part, what came is
decoded whatever stands behind it (`FramesAreRead`). A key is what stands before the end of its line,
and the block is overrun in no other cases than those the property names (`KeyIsFetched`). The accept key comes back group by group:
`GroupEncoded` gives the letters of a group, `GroupDecoded` their bytes, and `PiecesLined` the places,
since all groups but the last are of one length. For SHA-1, `HashedTo` says that after i bytes the
blocks that are done and the one being filled are the first i bytes of the text; the padding ends one
block or, with more than 55 bytes in it, two (`PaddingIsDone`), and these hold the text, the one bit, the
zeros and the length.

SmtpSessionProofs proves `AuthBeforeMail` for any settings, capabilities and numbers of recipients
and lines, with replies that are late or read in place of others. The invariant adds
`NoFalseLetting`: as long as a line 235 is on its way the server has let the client in. It is needed
because the client reads the stream of lines as it comes, so that the 235 it acts on may have been
written several commands before; no other reply may carry that code.

On top of it `DialogueInv` adds what holds with any server: a reply is whole on the wire (`Wire`),
the greeting is read before the first command (`Greeted`), and the recipients that the client
named and the server has not heard of are on their way, in one piece (`Counted`). This gives
`SessionTypes`. `MailInv` adds what holds if the server answers in time and in full (`Timely`),
and with it `TimelySuccessMeansAccepted` and `TextIsAwaited` are proved, for any number of
recipients and lines. `Waits` says that no read fails while the connection stands. `Taken` says
that a server that has not accepted every recipient it heard of has said so, in a line that is read
before any line that wants the text, unless the connection was lost with it. The stages after it
(`DataWaits`, `TextWanted`, `TextSent`, `Delivered`) hand this on from RCPT to the end: replies stay
unread in this client even when they are in time, and the proof shows that a refusal among them is
always read in time to stop the text.

PartsProofs proves of ClientSocket that `SocketIsDecided` holds for any number of addresses and
any outcome of each call (`SocketIsSettled`). That what is returned is connected as well is the disagreement connect. `SocketInv` says, for each place, what is open: while addresses are tried,
the sockets that were refused at once have the lowest descriptors (`Trying`), so that the next one
is new and closing it closes nothing else; from `select()` on, every other open descriptor was
refused; and what was sent is the beginning of the string (`Sent`).

Of MailMessage it proves `MultipartsClose` for any options and settings, with `MultipartInv`: every
part written so far stands in a multipart that is announced and not closed (`Announced`), and all
multiparts but "main" are closed (`ClosedBut`) as long as parts are still to come. It is needed
because the multiparts are opened and closed by different functions, depending on which lists are
empty. It proves `OnlyFailuresLeak` (`FailuresAloneLeak`), of every state and not only the last one (`TempsInv`). And it
proves `MessageIsComplete` for lists of any length, with `FillInv`: the text carries, in order, the
items that stand before the place of `smtpMail` in the lists (`Passed`, `Carries`), less those that
were lost. It is needed because the items are written by three functions, each of which goes through
a list of its own, with lines of the multiparts in between; at each change from one to the next
nothing may be left over (`PassedOn`). `ListsInv` says what the lists hold: whatever the fields of an
option leave out, an encoding and a type are set (`ListedIsReady`, `ListedIsTyped`).

Of Playback it proves `PlaysInOrder` for any files whose chunks follow one another, any formats and
periods, and any answers of the device; of runs whose block was moved by realloc it says how much is
played, and of the others also what. `HeadInv` says of the header that what was read and not
used ends where the descriptor stands; it needs that no length is rounded up to 0 (`Fits`, as in the
property), and the proof shows that the fmt chunk uses up all that was read before, so that the data
begin at the descriptor. `SoundInv` accounts for every byte read after that: the device has some,
`pcm_write` has some, and the buffer has those that come next (`PlaysThen`, `Follows`), in whole
frames (`Multiple`). It is needed because a period is made of several reads and written in several
pieces. A period that is short is the last: the file or the count is used up, and its whole frames
are those of the sound (`LastWhole`).

The assumptions are those named in the modules (`CapAssumption`, `IsrAssumption`,
`ObjectAssumption`, `BoundAssumption`, `GrowthAssumption`, `WsAssumption`,
`BlobAssumption`, `CodecsAssumption`, `WsCodecAssumption`, `ParameterAssumption`, `SizeAssumption`, `InputAssumption`, `SocketAssumption`,
`MessageAssumption`, `SllAssumption`, `PlayAssumption`), and `PtrInts = 1` where a theorem of FdEventProofs says so;
TLC evaluates the named ones in every run. `PlayAssumption` has PlayCount at least the 26 bytes of
the header, as 137090 is (`audio.c:832`), and the chunks of a file one behind the other, which is
how a position in the file is given a meaning. `SizeAssumption` has Slack below BufSize, as 128 is below
the size of `read_buffer` (`serial_run.cpp:46`). `WsCodecAssumption` has texts of at most 2^30 bytes,
so that no length made of one leaves an `int` (`base64.h:31`).

Model-checked only: liveness (`OldestIsTaken`, `OwnPendingServed`, `OwnReadyServed`, `AnnouncedIsTaken`,
`BootIsTyped`, `Terminates`, `CommandsAnswered`), which is out of the prover's reach; the string
routines (`BuffersHold`, `MasksMatch`, `TextsRejoin`), a dozen of folds over sequences with a reference definition
for each, every one of which would need an induction of its own; and the disagreements of section
5. Of DotLock nothing is stated but its types: what it should promise does not hold (section 5). The
theorems of the WebSocket server and the blob concern safety; `PartsTypeOK` is used in their
proofs where it is needed and stated as a whole only as a property of the run.

## 7. Not modelled

Device and terminal settings, XML configuration, logging, X11 and HID input and output: no state of
their own beyond the device. The epoll variant of the event loop is compiled out. Third-party code
(TinyXML, OpenSSL, ALSA, the compression function of SHA-1) is external. In the console the stdin
and pipe threads only copy to the device and are left out with the interleaving of the writes. Of the
mailer: the wording of headers, dates (`mutils_time.c`), the table of MIME types, the setters of
single values, `show_smtp_info`, hashes and random numbers. The minimal mailer (`smtpfuncs.cpp`) is a
subset of the dialogue of SmtpSession. The input server does not compile as it stands. Of the
WebSocket server: its 850 lines of constant heart data (`testdata.cpp`). The two programs of
`module/audio` share their loop; the one that reads headers is modelled.

## 8. Plan

1. RingBuffer, FdEvent, SerialConsole, SmtpSession with their proofs and promises (done).
2. MailMessage, Codecs, TextTools, Sll, Blob, ClientSocket, DotLock, the two servers, Playback (done).
3. Proofs: `CopiesAgree`, `NeverAborts`, SerialConsole with LineReader, SmtpSession,
   `OnlyFailuresLeak`, `MultipartsClose`, `MessageIsComplete`, `SocketIsDecided`, `PlaysInOrder`,
   the refinement of SeqLists, the conversions of Codecs and WsCodec (done); the string routines of
   TextTools (to come).
4. PendingList: the circular list of the event loop with its pointers, refining `list_pending`.
