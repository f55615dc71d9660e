# TCPClient: a verification development

TCPClient is a single-threaded chat client in C. It logs in to a server, then
waits in `poll()` for frames from the server and lines from the user, and it
can send and receive files through the server. This directory holds TLA+ models
of it and of the server it works with, the TLC runs that check them, and TLAPS
proofs of what matters most about them.
Paths below are relative to the repository (`src/` is its source directory,
`include/` its headers, `docs/` its documents).

    cd tla
    tlc -workers 2 -config Transfer.cfg MCFileTransfer     # any run
    tlapm FileTransferProofs.tla                            # any module of proofs

`PROJECT.json` maps every definition to the lines it models, names the
properties of each run with a mutation of the code that breaks each of them,
and lists the hazards and findings.

## 1. Inventory

### Components

| component | state | operations | modelled by |
|---|---|---|---|
| file transfer, `file.c` | one send task `g_send`, an array of receive tasks `g_recv`, `g_recv_seq`, the files under `downloads/` | `/sendfile /accept /reject /cancel`, announcements, INIT/ACCEPT/REJECT/CANCEL/CHUNK/COMPLETE frames, errors 200 and 300, `file_send_tick`, `file_reset_all` | `FileTransfer`, `FileMessages` |
| announcement parser, `file_parse_announcement` | none | classifies a text into eight kinds and finds the tid | `Announcement` |
| event loop and login, `app.c`, `main.c` | read buffer and its capacity, `running`, `g_running` | `login_loop`, `app_run`, `app_handle_socket`, `app_dispatch`, `app_handle_stdin`, `on_signal` | `EventLoop` |
| frame codec, `protocol.c`, `utils.h` | none | the builders, `protocol_parse`, the readers of payloads | `FrameCodec` |
| commands, `commands.c` | stdio's buffer of standard input | `commands_login`, `commands_handle_line`, argument splitting | `Console`, `EventLoop` and `FileTransfer` |
| user interface, `ui.c` | `prompt_shown` | messages, notices, prompt, list of users | `Console`; the list in `FrameCodec` |
| connection, `conn.c` | the socket | `conn_send_all`, connect | `FrameCodec` (partial writes), `EventLoop` (a call that returns, fails or blocks) |
| string helpers, `utils.c` | none | `utils_parse_u64_range`, `utils_trim_newline` (modelled), logging, copying (not) | `FrameCodec`, `Console` |
| pure file helpers | none | chunk plan, span check, unique name, name rules | `FileTransfer` |
| server | not in the repository | numbers and relays transfers | external, its part in transfers in `Relay` |
| tests, scripts, build files | none | | read as documentation |

### How they interact

`main` calls `app_connect` (connect, prompt for credentials, `login_loop`), then
`app_run`, then `app_destroy`. `app_run` polls socket and standard input for
200 ms. Socket data goes through `recv`, the read buffer and `protocol_parse`
to `app_handle_frame`, which prints, and gives announcements, transfer frames
and errors to `file.c`. Lines go to `commands_handle_line`, which sends frames
or calls `file_cmd_*`. A round in which `poll` times out calls
`file_send_tick`. Everything runs in one thread; the only asynchronous event
inside the process is the signal handler, which clears one flag. What
interleaves is outside: the server, the network, the user, signals, other
processes on the same disk.

### What is hard

* The server processes the frames of one connection with a pool of workers, so
  they may leave it in another order; every transition of a transfer has two
  signals, an announcement and a frame, either of which may come first, late or
  after the task has gone (ADR-0002).
* INIT carries no tid and is attributed by the order of arrival; errors 200 and
  300 name no transfer.
* The final check of a received file only compares a byte counter.
* Files must go on every way out of a transfer and stay on one, and a saved
  file must not be touched by the next transfer.
* `recv` cuts the stream anywhere; what the login loop has read already is not
  announced by `poll` again; the buffer must grow in time.
* Progress depends on rounds without events; `fgets` has a buffer that `poll`
  does not know of; a send blocks the thread while the server does not read.
* Announcements are free text and hold names that users choose.
* Messages arrive while the user types: the screen, the flag that remembers the
  prompt, and the line under construction are three different things.

### What makes each component correct

* File transfer, receiving: INIT frames reach the tasks in the order of the
  announcements; a kept file is complete; the counter means
  coverage; one receiver at a time; identity frozen while open; no stray file;
  kept files untouched.
* File transfer, sending: a gapless prefix is sent; nothing before this very
  transfer was accepted; COMPLETE after, and apart from, the last chunk.
* Event loop: frames are handled once and in order, none is left behind, the
  client does not give up on a legal stream; frames, lines, signals and
  accepted transfers are attended to eventually.
* Codec: messages survive building, cutting, parsing and reading.
* Sender, server and receiver together: what is kept is what was offered; all
  three agree when nothing is under way; an accepted transfer ends everywhere.
* Console: lines are interpreted once and mean what was typed; messages keep off
  the row where the user types.

The full list of hazards, with the line where each bites and the property that
covers it, is `hazards` in `PROJECT.json`.

## 2. Modules

| module | role |
|---|---|
| `FileTransfer` | the file module of one process with the files under `downloads/` |
| `Announcement` | the texts of the server and the parser that tells them apart |
| `FileMessages` | from a message to the transition of `FileTransfer` it causes |
| `Delivery` | abstract: what users are promised about the files sent to them |
| `Relay`, `MCRelay` | two clients (`FileMessages` twice) and the server; implements `Delivery` |
| `FrameFifo` | abstract: a connection hands over messages once and in order |
| `EventLoop`, `MCEventLoop` | the thread of the client; implements `FrameFifo` for frames |
| `FrameCodec`, `MCFrameCodec` | byte-level protocol; implements `FrameFifo` for messages |
| `Console`, `MCConsole` | lines, commands, prompt and screen |
| `FileTransferInv`, `MCFileTransfer` | inductive invariants and small instances of `FileTransfer` |
| `EventLoopInv`, `RelayInv` | the inductive invariants of `EventLoop` and of `Relay` |
| `FileTransferProofs` | theorems about one client's transfers: receiving, sending and answering |
| `RelayClientProofs`, `RelayProofs` | lemmas about the clients of `Relay`; its theorems and the refinement of `Delivery` |
| `RelayEndsProofs` | that the three parties of `Relay` agree in the end |
| `AnnouncementProofs`, `EventLoopProofs`, `FrameCodecProofs`, `ConsoleProofs` | theorems about the modules they are named for |

### FileTransfer

One command, one frame, or one timed-out round is one step, as in the single
thread. `send` is `g_send`, `recv` is `g_recv` (a free slot is the zeroed
struct), `present` and `content` are the directory and the byte offsets written
to each file. `marked` is the bitmap, as the offsets its bits stand for, and
`buffered` what stdio has not flushed: `recv_handle_chunk` seeks before each
write, so only the last chunk can be there. `saved`, `known`, `accepted`,
`emitted` and `stranded` are history variables that no guard reads.

| code | actions |
|---|---|
| `file_cmd_sendfile`, `file_cmd_accept`, `file_cmd_reject`, `file_cmd_cancel` | `CmdSendfile`, `CmdAccept`, `CmdReject`, `CmdCancel` |
| `file_handle_announcement`, `file_handle_frame`, `recv_handle_chunk` | `Ann...`, `Accepted`, `Rejected`, `Cancelled`, `Frame...` (one action where announcement and frame do the same) |
| `file_handle_error_no_such_user`, `file_handle_transfer_state_error` | `NoSuchUser`, `TransferStateError` |
| `file_send_tick` | `TickChunks`, `TickReadFails`, `TickSendFails`, `TickComplete` |
| `app_connect`, `app_destroy`, `main` | `SessionStart`, `Stop`, `Destroy`, `Kill`, `Restart` |

The environment is open: any announcement, frame or error, with any tid, at any
time and any number of times, also during the login, where the frames glued to
Welcome are dispatched. So nothing shown here rests on a well-behaved server.
Sends may fail from any moment on, `fopen`, `mkdir`, `malloc`, `fread` and
`fwrite` may fail, the process may be killed and run again over the same
directory. A handler that only prints is a stuttering step. Left out: the names
of sender and target, which only messages and the INIT frame use.

### Announcement and FileMessages

A text is its beginning, its digits, the character after them and the set of
phrases in it, because these are what `file_parse_announcement` looks at. A name
contributes the phrases it contains (`PhrasesIn`), so `complete.txt` is in the
model. `FileMessages` is the dispatch of `app_handle_frame`,
`file_handle_announcement`, `file_handle_frame` and `file_handle_error`: one
operator per handler, which picks the transition of `FileTransfer` or none. An
open environment does not need it; a client that must consume each message does.

### Relay

A sender and a receiver, each an instance of `FileMessages` with its own
variables, and the server between them. `up` holds the frames of a client that
the server has not taken, one set for each step, since the frames of one step go
to a pool of threads and may be taken in any order; `down` holds the messages to
a client, in order. `data` and `kept` are history variables that remember which
file each byte came from; no guard reads them.

The server is not in the repository. What is assumed of it, from `file.c`,
ADR-0002 and `docs/specs/M4`: it numbers transfers from 1; a new transfer is
announced to the sender and, announcement and INIT as a pair, to the receiver;
ACCEPT, REJECT, CANCEL and COMPLETE are told to the other side by an announcement
and a frame, in this order, COMPLETE to both; a frame that does not fit the state
of its transfer is answered by error 300, a CANCEL of a finished one is ignored;
error 200 answers an INIT to somebody who is not there, and also other commands
(`ServerDenies`); when a client is gone its transfers end and the other side is
told of each, in any order (`PeerHears`; a transfer of the third client concerns
nobody else here). `MayLeave` is the set of clients that may leave. `Window` says over how many successive steps of a client frames may
overtake each other, `Lossy` whether chunks may be dropped. A third client
(`Stranger...`) offers files to the receiver and behaves as it should.

Since announcement and INIT arrive as a pair, here at most one task lacks its details at
any time, and `DetailsMatch` is about frames that come too late, when the task is open,
gone or refused. Several tasks that wait at once, which `recv_handle_init` sorts by
`seq`, are in the open environment of `FileTransfer` (`InitsInOrder`).

`NamesAssumption` keeps one phrase out of the names: a user or a file called
"Waiting for acceptance" would make other announcements look like the answer to
`/sendfile` (`AnnouncementsUnderstood` says which). Other phrases may be in names,
and are: the announcement is then misread, and the frame that comes with it does
the work.

A receiver that leaves clears all its tasks in one step, so `Drop` of `Delivery`
takes a set of transfers.

The promise of `Delivery` ends (`spoiled`) when a send task is lost to something
that was not about it: an unrelated error 200 or 300, or `/cancel 0` before the
tid is known. `wrong_file` shows why this is needed.

### Console

A line is a sequence of symbols; a command is one symbol, so that it may be
followed by a blank, by nothing or by a letter, and lengths are small. `half` is
the line being typed, `input` what `fgets` has not read, `row` what the row of the
cursor shows. `ReadLine`, `ReadOverlong` and `EndOfInput` are the three ways
through `app_handle_stdin`; `Split`, `SingleName` and `TidArgument` are the
parsers of `commands.c` (`Number` is `utils_parse_u64_range`, whose own overflow test
refuses what is too large for a tid anyway), of which `/priv`, `/gmsg` and `/sendfile` have a copy of
the first each. `EmitIncoming` and `Prompt` are those of `ui.c`; a notice printed
with `ui_print` goes where the cursor is. `/login` is left to `EventLoop`.

### EventLoop

The stream is a sequence of units, a frame one or more of them, and a `recv`
returns any number that have arrived and fit. `pc` says where the thread is: at
the prompt of `commands_login`, waiting in `login_loop`, before `poll`, about to
handle the socket, standard input or a tick, or gone. `rbuf` and `cap` are the
buffer with its capacity; `tty` holds what the user typed and `stdio` what
`fgets` has read ahead, which only happens when standard input is a pipe.
`task` and `left` reduce the file module to what the loop sees: the state of the
send task, which is busy until the server has confirmed the end of the transfer,
and how many timed-out rounds it still needs. A frame of kind "ENDED" stands for
whatever clears the task: a rejection, a cancellation, an error. The socket of a
stalled peer makes a send block, that of a peer that is gone makes it fail.

About the server `EventLoop` assumes what the protocol says: one answer per
AUTH, and no text, accept or request before the Welcome. What follows the
answers is free. One line stands for a user name and its password.

### FrameCodec

Every builder, `protocol_parse`, the loop of `app_dispatch`, the loop of
`conn_send_all` and the readers of payloads, byte by byte, for eight shapes of
payload. Numbers keep their width: a longer one loses its high bytes in `WriteU16`,
`WriteU32` and `WriteU64`, which are made of two halves each, as are their readers;
the parser of decimal numbers has the overflow test of the code. A
byte has `Base` values. The peer builds its frames like this client, since
`protocol.c` mirrors the server's. Loops are recursive functions of the number of
rounds: `app_dispatch` makes at most as many as headers fit into the buffer.

What the peer can mean to send is `Fits`: texts are C strings, numbers and payloads
are not wider than their fields, names of users are not empty, the names of an INIT
respect the limits of the receiver, and a list of users fits the buffer it is shown
from. Each of these is needed: beyond them the code does drop names, cut lengths
modulo 2^16 or ignore the frame (section 3). The data of a chunk are any bytes.

### FrameFifo

The promise both levels keep: `handled` is always a prefix of `sent`, growing at
its end. `EventLoop` shows that buffer, login, dispatch, ticks and commands do
not disturb it (`FramesInOrder`), `FrameCodec` that it holds of the messages
themselves (`MessagesSurvive`).

## 3. Runs

The properties are stated and explained in the modules. Each property of a
passing run is broken by the mutation of the code that `PROJECT.json` names,
under the same bounds.

| run | what it shows | bounds |
|---|---|---|
| `receive` | `SavedComplete`, `ReceivedMatchesDisk`, `InitsInOrder`, `FrozenWhileReceiving` | two slots, so that two tasks wait at once; three announcements, so that a slot is freed and used again before the other; sizes 0 and 3 with chunks of 2, so that the last chunk is short; all offsets and lengths 0..3, thus also odd, empty, overlong and out of range |
| `transfer` | `TypeOK`, `NoStrayFiles`, `RecvInv`, `SendInv`, `RepliesNameKnownTids`, `KeptUntouched`, `CompleteAfterAll`, `ChunksFollowAccept` | one slot beside a send task, kills and restarts, a failing connection; three names of which one is taken, and two files whose candidate names collide, so that the unique name matters and may run out; files of 5 and 2 bytes, chunks of 2, two per round: a transfer of two rounds with a short last chunk and one of a single exact chunk; two tids, so that late answers to one reach the other |
| `relay` | `TypeOK`, `RelayInv`, `DetailsMatch`, `EndsAgree`, `CompleteIsWhole`, `Delivers` | two transfers, one from the sender and one from the third client or both from the sender, two slots, so that INIT frames and tids can be confused; sizes 3 and 2 with chunks of 2; all file names contain "complete"; the frames of one step overtake each other |
| `relay_faults` | `EndsInv`, `TransfersEnd`, `Delivers` | one transfer, one slot; frames of two successive steps overtake each other, chunks are lost, unrelated errors arrive, clients leave at any time |
| `console` | `TypeOK`, `InputIsTyped`, `LinesSurvive`, `MeansWhatWasTyped`, `IncomingOnOwnRow`, `PromptOnce` | one command with two arguments, one with a name, one with a tid, one alone, a digit and a blank; a buffer of 8, so that lines of up to 6 symbols fit and one of 7 does not; names of 1, files of 2 symbols at most, and tids up to 9, so that a number of two digits is refused; two lines, seven symbols |
| `loop` | `TypeOK`, `StreamIntact`, `NothingLeftBehind`, `NeverGivesUp`, `LoopInv`, `FramesInOrder` | frames of 1 and 3 units in a buffer of 2 that may grow to 4: the largest frame does not fit at first, as in the code (65540 bytes, 65536 at first); three frames, three lines of any kind, terminal and pipe |
| `loop_live` | `FramesHandled`, `SignalEndsLoop`, `TransferAdvances`, `LinesRead` | two frames, three lines, two rounds; terminal and pipe |
| `codec` | `TypeOK`, `BufferAligned`, `MessagesSurvive` | every pair of messages of eight shapes, with the magic inside texts and data, a text that fills the length field, an offset that needs more than four bytes, numbers at both ends of their ranges, lists of no and of two users, and every cutting of the stream by `send` and by `recv` |

Bounds on counters: `MaxSeq` (incoming announcements per process), `MaxFrames`,
`MaxLines` and `MaxTyped` (what server and user do), `MaxSent` (messages),
`MaxTid` and `MaxSends` (transfers the server numbers, `/sendfile` commands). A
transfer is started, interrupted, repeated and met by signals of another one
within them; what is proved (section 5) holds beyond them. Two transfers are
enough for one to be taken for the other, and two slots for an INIT to go astray;
with a third nothing new can be confused, as each confusion is between a pair.
The runs of `FileTransfer` check for deadlocks. The others do not: the process
ends, and the environment is bounded.

### Claims the code does not keep

Each of these runs checks one sentence of the repository and ends in a
counterexample; `findings` quotes the sentences.

* `wrong_file`: the user offers `g`, and before the server has announced it, the
  error 200 that answers an earlier private message arrives. The send task is
  freed. The user offers `h`; the announcement of `g` then gives the tid of `g` to
  the task of `h`. The receiver accepts `g` and keeps the bytes of `h` under that
  name: the sizes agree, so the check succeeds.
* `login_reset`: an incoming transfer announced in the same segment as Welcome
  is dispatched, to be kept, and then wiped by `file_reset_all`. The peer hears
  nothing.
* `disk_full`: `recv_task_clear` does not look at the result of `fclose`. When
  the disk is full at that moment the file is kept, and reported, as complete.
* `pipe_eof`: when standard input is a pipe, its end shows as `POLLHUP` alone,
  which `app_run` does not look at; it spins and does not end.

### Also noticed while modelling

No run is spent on these.

* A send task that has no tid yet has tid 0, so `/cancel 0` matches it and sends
  CANCEL 0, though M4 says that no frame is sent for an unknown tid (`file.c:345`).
* ADR-0002:17 says that a gap in the offsets cancels a transfer; the code accepts
  chunks in any order. `SavedComplete` shows that this is safe.
* Ctrl-C while the login waits for a name or a password is not acted upon until a
  line has been entered: `signal()` makes the kernel restart the read.
* Notices of file transfers (`recv_task_finish`, `recv_announce_incoming`) are
  printed with `ui_print`, so they do land behind the prompt or in a half-typed
  line, against story 21 of M4. `IncomingOnOwnRow` is about messages only.
* Lines that `fgets` has read ahead from a pipe (`app.c:297`) are invisible to the
  `poll` of `app.c:375-394`: they stay in stdio's buffer until more is written to the
  pipe, each round that sees it readable taking one line. At a terminal a `read`
  returns one line, which is what ADR-0001 relies on, and `tools/e2e_m4.sh` writes one
  line at a time, so neither shows it. A script that writes `/accept` and `/cancel` at
  once and then waits has its second line handled only after it writes a third.
  `LinesRead` says what holds: no line is lost, and once more is written those before
  it are handled.
* `prompt_shown` is not reset when the user hits return, so the `ui_prompt` at
  `app.c:325` never prints; the prompt comes back with the next message.
* The last line of an input that ends without a line break is thrown away as too
  long (`app.c:304`).
* `/gcreate`, `/gjoin` and `/gleave` keep blanks inside and after the name, so a
  group may be created that `/gmsg` cannot address.
* The list of online users silently omits names that do not fit 1024 bytes.
* `file.h:56` says the handle of the file to send is only non-NULL in ACTIVE;
  `file_cmd_sendfile` opens it at once and `send_task_clear` closes it last.
* `file.c:704` says no partial file survives a disconnect or a new session; one
  whose process was killed does, since `file_reset_all` only knows the tasks in
  memory. `stranded` stands for those files.
* `app.h:11` says the initial buffer holds a maximal frame and more: 65536 bytes
  against 65540. The growth path of `app_ensure_capacity` is therefore needed,
  and `loop` has the same proportion.
* The builders test against `PROTO_MAX_PAYLOAD` (1 MB) and store 16 bits, so a
  longer text would be cut; no command line is that long.
* `file_basename_sanitize` compares a `char` with 0x20; where `char` is signed
  the bytes of non-ASCII names become `_`.
* A user or file name with a phrase in it that `file_parse_announcement` searches
  before the right one changes the meaning of an announcement (`file.c:65`):
  `rejected by` of a user called `accepted by`, say. `AnnouncementsUnderstood` has
  the exact condition. With a user called `complete` even a cancellation reads as
  COMPLETE, and the receiver then applies its final check to a part of the file: that
  one is deleted as it should be, but `CompleteIsWhole` does not hold of such names
  (TLC finds the trace in `Relay` when given one), so the run has none.

## 4. Fairness

Safety needs none, and `FileTransfer` has none: nothing obliges a server to
answer or a user to type. `EventLoop!FairSpec` adds:

* `SF_vars(Process)`: the operating system schedules the thread. The fairness is
  strong because a server may stall and resume for ever: while it stalls, a
  blocked send is disabled; each time it reads, the kernel makes room and wakes
  the sender. `Process` is one action, for one thread; no fairness is assumed
  among its branches, whose choice is determined by the code or, like the outcome
  of a `recv`, left to the environment.
* `WF_vars(PeerResumes)`: a stalled server reads again some day, or the
  connection ends. Without it a send may block for ever, signals included.

`Relay!FairSpec` has weak fairness for what happens by itself: clients handle the
messages that have arrived, timed-out rounds come while a transfer is active,
`app_destroy` follows the end of a loop, the server takes the frames it was sent,
notices that a client is gone, and the third client ends what it began. All are
steps of one thread or of the server that stay possible until they are taken, so
weak fairness is enough. `TransfersEnd` also rests on the server telling the other
side when a client is gone; M4:94 reports that this announcement may linger in the
server for a while, so what it shows of the code is that the client ends the transfer
when the announcement comes. No user has to do anything: `TransfersEnd` is about
transfers that were accepted.

In `EventLoop` the user owes nothing. A prompt that is never answered holds up the client, so
the liveness properties have that as a premise, and `LinesRead` also a server
that answers the login: nothing is read while the thread waits for it. From a pipe
`LinesRead` promises the handling of a line only once something follows it
(section 3). `TransferAdvances` excludes the end of a pipe, after
which no round times out (`pipe_eof`). Traffic is bounded in the model: with
traffic that never pauses for 200 ms a transfer does not advance, as the design
of `file_send_tick` has it.

## 5. Proofs

For any number of slots, any chunk size, any sets of names, sizes and tids, any
number of kills and restarts, any lengths of the frames, any cutting of the
stream, any number of frames and lines, any messages and any values of a byte, any symbols,
commands and lengths of the line buffer, any number of transfers under way between two clients:

| theorem | says |
|---|---|
| `TypeCorrect` | `Spec => [](TypeOK /\ TaskShape)`: types, and a task has a file exactly while it is open |
| `RecvCorrect` | `Spec => []RecvInv`, the inductive invariant of the receiving side |
| `SingleReceiverHolds` | at most one open file |
| `InitsInOrderHolds` | INIT frames fill the tasks in the order of their announcements |
| `ReceivedMatchesDiskHolds` | the counter is the number of bytes on disk |
| `NoStrayFilesHolds` | `downloads/` holds nothing unexplained |
| `SavedCompleteHolds` | kept files are complete, if the flush cannot fail |
| `KeptUntouchedHolds` | no step touches a kept file |
| `FrozenWhileReceivingHolds` | the identity of an open transfer is frozen |
| `SendCorrect` | `Spec => []SendInv`: the send task has sent a gapless prefix, its state says how much |
| `CompleteAfterAllHolds` | COMPLETE leaves after the last chunk, and not with it |
| `ChunksFollowAcceptHolds` | chunks only of the file, under the tid, that was accepted |
| `RepliesNameKnownTidsHolds` | replies name transfers announced to this process |
| `AnnouncementsUnderstood` | which texts of the server are read rightly, for any names |
| `LoopCorrect` | `Spec => []LoopInv`: login, buffer and stream fit together |
| `StreamIntactHolds` | every unit of the stream is handled, buffered or in the socket, once and in order |
| `NothingLeftBehindHolds` | a waiting thread has no complete frame in its buffer |
| `NeverGivesUpHolds` | the limit of the buffer is never reached, no frame boundary lost |
| `FramesInOrderHolds` | `EventLoop` implements `FrameFifo` |
| `MessagesSurviveTheWire` | `FrameCodec` implements `FrameFifo`: the messages that are built are the messages that are handled |
| `BufferStaysAligned` | the buffer holds the beginning of the next frame and nothing else, however the stream is cut |
| `CodecTypeCorrect` | types of `FrameCodec` |
| `ReadersUndoBuilders` | each reader of a payload returns what its builder was given |
| `LoopTypeCorrect` | types of `EventLoop`, its counters and its buffer in their ranges |
| `ConsoleTypeCorrect` | types of `Console` |
| `InputKept` | what waits in the input is the lines entered last, each up to its end |
| `LinesKept` | each line that fits is interpreted once, in the order of typing; overlong ones vanish whole |
| `MeaningKept` | what was understood of a line is its only reading as command and arguments |
| `NeverTorn` | a message never lands on the row where the user types |
| `PromptIsOnce` | the prompt is at most once on a row, and the flag is set while it is there |
| `RelayInvHolds` | `Spec => []RelayInv`: the messages under way fit the tasks of the clients and the transfers of the server |
| `DetailsMatchHolds` | an INIT frame reaches the task of its own transfer |
| `RelayTypeCorrect` | types of `Relay` |
| `EndsInvHolds` | `Spec => [](FilesUnmasked => EndsInv)`: every task that waits has a transfer it can wait for, or a message under way that ends it |
| `EndsAgreeHolds` | `Spec => [](FilesUnmasked => EndsAgree)`: with nothing under way, both clients and the server agree on every transfer |
| `DeliversHolds` | `Relay` implements `Delivery` |
| `KeptFilesHold` | `Spec => [](~orphaned => KeptFilesMatch)`: until a send task is lost to something not about it, what is kept is what was offered, byte for byte |

Assumptions: `SizesAssumption`, `WireAssumption` and `FilesAssumption` of
`FileTransfer`, which say that sizes are natural numbers, tids of the server are
not 0, and special values are not names; `LoopAssumption` and
`CapacityAssumption` of `EventLoop`: frames and buffers have a size, and twice
the initial buffer holds every frame and is allowed, as with the constants of the
code; `CodecAssumption` and `MessageAssumption` of `FrameCodec`: a byte has a value for
each shape of payload, the digits are values of a byte and none is NUL, and every
message `Fits` (section 2); `ConsoleAssumption` of `Console`: digits are symbols, the end of a line is
not a symbol of one, and the limits are positive, that of the line at least 2;
`RelayAssumption` of `Relay`: slots and chunks are positive, sizes natural numbers,
the three clients different, the files offered are files; and its `NamesAssumption`
(section 2), without which an announcement about another transfer could give its
tid to a send task. `EndsInvHolds` and `EndsAgreeHolds` have a hypothesis besides, also
about names: no file that is offered has `accepted by` in its name (`FilesUnmasked`).
It is needed: the announcement that such a file is complete is read as ACCEPTED, because
that phrase is searched before `complete`; the sender gets no COMPLETE frame, so its
task stays in WAIT_COMPLETE, and TLC finds that state when it is given such a name. All
instances that are run satisfy it. About the server, `Relay` assumes what section 2 says.
TLC evaluates them in every run of these modules.

Receiving. That the counter equals the number of bytes on disk is not
inductive: a chunk adds `len` to the one and as many bytes to the other only if
none of them is on disk yet. `Covered` says why: every byte on disk belongs to
a marked, aligned chunk, and a chunk that passes `file_recv_span_check` is
aligned and not marked, so it meets none of them. This needs the files of open
tasks to be theirs alone: `OwnName` (present, neither kept nor stranded) and
`SingleReceiver`. The bytes lie below the declared size, so when the counter
reaches that size they are all of them, by the cardinality of a subset of an
interval; hence `SavedComplete`. `TaskShape` and `PendingEmpty` tie the flags
together: no file before `/accept`, size and INIT before the file. `OwnName`
survives `/accept` because `UniqueName` returns a name that is not present, and
kept names are (`KeptPresent`). The same facts give the action properties.

The order of INIT frames. `InitsInOrder` needs `SeqBelow` and `SeqDistinct`: the number
of a new task is above all others, so it comes last although it may take the lowest
slot, and the task with the least number among those that wait is the only one filled.
Every other step frees a slot or leaves its number and details alone (`SameOrder`).

Sending. `SentPrefix` alone is not inductive either: the next round starts at
`sent` only if `sent` is a multiple of the chunk, and this holds only before the
end of the file. `SendShape` says so, state by state. `ChunksTile` shows that the
chunks of a round cover, without a gap, the bytes from `sent` to the end of the
last one or of the file, `CountCovers` that the number of chunks reaches the end
of the file, so that DONE means all of it. Every other step either leaves the
task alone, clears it, starts it, numbers it or lets it go (`CommandKind`,
`InboundKind`, `ProcessKind`), and the two action properties read off the same
facts what each step puts on the wire.

Replies. The tid of a reply comes out of a task, so the invariant is that tasks
hold announced tids (`TidsKnown`); `Harmless` is what all steps but the two
announcements and the restart have in common.

The texts. For each text of the server the proof walks through `SearchOrder`: the
phrase of the text is found, and none before it, exactly if no name in the text
masks it. An incoming announcement is recognised by its beginning alone.

The loop. `StreamIntact` says how neighbouring units fit together, which does not
tell what a prefix of the buffer contains. `LoopInv` says instead that buffer and
socket form a run of whole frames: every unit between the first frame not handled
and the last one sent is there, in ascending order. Such a run begins with a
frame (`WholeHead`), what follows the end of a frame is a run (`WholeCut`), a frame
sent makes it longer (`WholeAppend`), and its prefixes that end a frame hold
exactly the next frames sent (`HandleRun`). That the limit is not reached needs
less than a frame left in the buffer (`Drained`, `SmallBuffer`), and so
`LoginOrder`: while the login waits, the stream holds the answer to AUTH, and more
only behind a Welcome, after which everything that came with it is dispatched.
That neighbours fit together then follows (`RunNeighbours`). For the refinement,
both handled sequences are prefixes of what was sent, so a step maps to
`HandleUpTo` of the longer one, or to a stutter.

The frames. `BufferAligned` does not say that what was handled is right, and
`MessagesSurvive` does not say what is in the buffer; `CodecInv` has both. It is kept
because a step moves bytes along a line that stays the same (`MoveSent`,
`MoveReceived`) or adds a frame at its end (`SendsKeeps`), so all that is left is
one call of `app_dispatch` on a buffer that begins where a frame begins
(`Dispatching`). A round either finds less than a frame, or cuts off exactly the frame
that was built (`Cut`), because its length field is right and its head is the magic;
what is read of it is what was meant (`ReadersUndoBuilders`). For the latter, the
halves of a number put together give the number (`U32`, `U64`), a text ends at the
first NUL and the next one begins behind it (`ReadText`), the digits of a number read
back without passing the overflow test (`DecimalReads`), and the list of users comes
apart name by name while the room in the buffer suffices (`UsersRead`).
Loops and folds are functions defined by recursion. That such a function exists and
has the value of each round follows from the least number at which it would not
(`MinExists`, `Counting`, `Recursion`, `Iteration`), with sets and not predicates as
parameters, so that the provers can apply it; `FlattenSeq` is treated in the same way
(`Flattening`). The loop of `app_dispatch` stops for want of a frame and not for want
of rounds, because each frame uses up at least a header.

The console. That the lines handled are the entered ones that fit says nothing of
what is still unread, so `LinesSurvive` is not inductive. `InputIsTyped` is what it
needs: the input is the lines entered last, each from the end before it to its own.
They are numbered from the last one, since reading takes from the front and entering
adds at the back. Either way the statement moves with the input (`EnterHolds`,
`EndHolds`, `RestHolds`), and the first line end in it belongs to the oldest line not
yet read (`FirstLine`). `fgets` returns a whole line exactly when that line fits
(`ReadIs`), and then it is the next one of those that fit, whose number is the count
of handled lines plus one (`NextLine`). Otherwise the loop drops everything up to
that end, and the count stays. For the meaning of a line, `Interpret` and `Readings`
go different ways: the one skips blanks and words from the left, as `commands.c`
does, the other lists every way to take the line apart. `WayThere` and `OneWay` show
that the places found from the left are one such way, and the only one. The screen: a
session begins with the prompt, and `prompt_shown` is not cleared afterwards
(`ScreenInv`), so a message always begins with a line break.

Two clients and a server. `DetailsMatch` holds because an INIT meets exactly one
task without details, its own; that is a fact about what is still under way.
`RelayInv` states it in three parts. `Wires`: which messages can be in which queue,
and nothing before the login. `Receipt`: each offer under way is of a transfer the
receiver has not heard of, it is offered once, its INIT is right behind it, no INIT
stands elsewhere, except that of the one task that waits for it, which is at the
head (`Paired`, `OfferedOnce`, `DetailsNext`); a task is of a known transfer and no
two are of the same; and the bytes of a transfer are those on disk (`DataOnDisk`).
`Sending`: while a send task waits for its tid there is at most one request or one
answer under way, and it is about the file of the task; otherwise there is none
(`OneAnswer`); so the tid it gets is that of its file, and each chunk under way
belongs to the file of its tid (`FileOfTid`). Together with the invariants of the
two clients, which are those of `FileTransferProofs` instantiated
(`SenderInv`, `ReceiverInv`), this is inductive (`AllInv`). The steps are sorted by
what they do to tasks and queues: a message is taken, one is added, a pair is added,
tasks are cleared; each part of the invariant has a lemma for each of these, and the
handlers of the clients and of the server are then instances. `OneAnswer` and
`FileOfTid` end with `orphaned`, a history variable no guard reads, and `OneAnswer`
with the session of the sender.

The refinement. `Status` is computed from three sets that `RelayInv` keeps apart
(`StatusFacts`): the transfers known, kept and with a task. An offer by the server is
`Offer`; `/accept` is `Open`; a chunk that is stored is `Fill`, because the span check
and `Covered` say that none of its bytes is on disk and `FileOfTid` that they are of
the file; a COMPLETE with all bytes is `Keep`; anything that frees a task, and leaving,
is `Drop`; every other step is a stutter. `KeptFilesHold` then
follows from the lemma `KeptHolds`, which says the same of `Delivery`.

The modules have lemmas about the operators (lowest slot, unique name, intervals,
the span check), one lemma per operation on a slot (clear, finish, open, store),
which the commands and the frames share, then one step per action.

How transfers end. `EndsAgree` is about empty queues and says nothing about how they
became empty. `EndsInv` says, while both clients have their sessions, what each waiting
party is owed. The send task: its INIT or the answer with its tid is under way; the
transfer it waits for is pending, or it was accepted, refused or ended and the
message that says so is to come; after COMPLETE, that frame or the answer to it is under
way (`SendTaskOwed`). A receive task: its transfer is pending, and its ACCEPT is under way
if it is open; or active, and it is open; or over, and a CANCEL or COMPLETE is to come
(`ReceiverTasks`). A transfer of the sender that goes on has its task, or the announcement
that gives the task its tid is to come, or the CANCEL of the sender is (`TransfersHeld`).
With empty queues each of these leaves exactly what `EndsAgree` says. None of them is
inductive alone: the announcement with the tid must come before everything else about its
transfer, with the rest still behind it, or what is owed would be read before the task
knows its tid (`TidsToCome`, and `OffersStand` on the other side); an accept or an end that
the sender hears must be so (`SenderMessages`), or an answer to an older transfer would move
the task; and a frame must be of a transfer whose state allows it (`SenderFrames`,
`ReceiverFrames`), since the server answers one that does not fit by error 300, which ends a
task. The queues are seen as sets, with what is behind each message. A step of a client
takes a message and adds frames (`HandlingKeepsEnds`, `TakingKeepsEnds`); a step of the
server adds messages, and `ServerNews` says what must be true of those whatever the step
is, so that each frame it serves has one lemma that shows `ServerNews` and the invariant
follows once (`NewsKeepsSender`, `NewsKeepsReceiver`). `EndsInv` ends with a session: what a
client that leaves has under way is not looked at.

Model-checked only: `CompleteIsWhole` of `Relay`, which is about the order of frames
and needs an invariant over each byte of each transfer on its way, and a condition on
the names of users (section 3). Out of the prover's reach: liveness
and fairness (`TransfersEnd` and the properties of `loop_live`).

## 6. Not modelled

What is printed and its layout, host and port parsing, `getaddrinfo` and
`connect`, failures of `poll` itself, the length limits of the login prompt, the
characters `file_basename_sanitize` replaces, logging. `MSG_CHAT`, `MSG_PRIV` and
`MSG_GMSG` texts are only displayed; `Console` and `FrameCodec` have them as
messages.

Two processes that share one `downloads/` directory are not modelled: the name
that `file_unique_name` found free may then be taken before `fopen` truncates it.

Of the server, `Relay` has the transfers only. A client that sends a file to
itself, two full clients that both send, and a connection that breaks while the
client lives on (`FileTransfer` has it) are not composed with the server. That two
clients which both send cannot block each other rests on the assumption that the
server reads from each connection whatever it has to write, which nothing in this
repository can confirm.

## 7. Plan

What is left, in the order of importance:

1. `CompleteIsWhole` for any number of transfers: an invariant that says of every
   byte of a transfer whether it is on disk or still under way.
2. A second client over the same `downloads/` directory.
