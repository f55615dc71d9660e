------------------------------ MODULE EventLoop ------------------------------
(***************************************************************************)
(* The single thread of a TCPClient process (src/src/app.c and main.c): the *)
(* login handshake, the poll loop over the socket and stdin, the read       *)
(* buffer that is parsed frame by frame, and the sending of file chunks on  *)
(* poll rounds that time out.                                               *)
(*                                                                         *)
(* The byte stream is a sequence of units; a frame is one or more of them,  *)
(* and a recv may return any number that have arrived and fit.  The file    *)
(* module is reduced to what the loop sees of it: the state of the send task *)
(* and how many timed-out rounds it still needs (FileTransfer has the rest).*)
(*                                                                         *)
(* The server, the network, the user and the signals interleave with every  *)
(* step of the thread.                                                      *)
(***************************************************************************)
EXTENDS Integers, Sequences, FiniteSets

CONSTANTS
  FrameLen,   \* units of a frame of each kind
  CapInit,    \* APP_RBUF_INIT, in units
  CapMax,     \* APP_RBUF_MAX, in units
  Rounds,     \* timed-out poll rounds a transfer needs, COMPLETE included
  Stdin,      \* what standard input may be: a terminal, a pipe
  LineKinds,  \* lines the user may type
  MaxFrames,  \* bound on the frames the server sends
  MaxLines    \* bound on the lines the user types

(* ACCEPTED and ENDED are about the send task; to ASKS the client answers. *)
FrameKind == {"WELCOME", "ERROR", "TEXT", "ACCEPTED", "ENDED", "ASKS"}

LineKind == {"void", "text", "quit", "login", "sendfile", "cancel"}

ASSUME LoopAssumption ==
  /\ FrameLen \in [FrameKind -> Nat \ {0}]
  /\ CapInit \in Nat \ {0} /\ CapMax \in Nat
  /\ Rounds \in Nat \ {0} /\ Stdin \subseteq {"tty", "pipe"} /\ LineKinds \subseteq LineKind
  /\ MaxFrames \in Nat /\ MaxLines \in Nat

(* protocol.h and app.h: a maximal frame (5 + 65535 bytes) exceeds APP_RBUF_INIT
   but not twice that, which APP_RBUF_MAX allows. *)
ASSUME CapacityAssumption ==
  /\ \A k \in FrameKind : FrameLen[k] <= 2 * CapInit
  /\ 2 * CapInit <= CapMax

VARIABLES
  pc,       \* where the thread is
  session,  \* has the login succeeded?
  running,  \* app->running
  signal,   \* SIGINT or SIGTERM was delivered (g_running is 0)
  why,      \* history: why the process left its loop
  rbuf,     \* app->rbuf[0 .. rbuf_len-1], a sequence of units
  cap,      \* app->rbuf_cap
  ready,    \* POLLIN bits of the last poll
  stdio,    \* lines fgets has read ahead
  task,     \* g_send.state; PENDING is for PENDING_TID, too, ACTIVE for DONE
  left,     \* rounds the active send task still needs
  sent,     \* history: frames the server sent
  handled,  \* history: frames the client handled
  lines,    \* history: number of lines fgets has returned
  wire,     \* units sent but not received
  peer,     \* "reading", "stalled" or "gone"
  owed,     \* AUTH frames the server has not answered
  input,    \* what standard input is
  tty,      \* lines typed but not read
  typed,    \* history: number of lines typed
  eof       \* the user ended the input

procVars == <<pc, session, running, why, rbuf, cap, ready, stdio, task, left,
              handled, lines, input>>
vars == <<procVars, signal, sent, wire, peer, owed, tty, typed, eof>>

-----------------------------------------------------------------------------
(* Frames in a byte stream. *)

Units(n, kind) == [p \in 1..FrameLen[kind] |-> [frame |-> n, part |-> p]]

EndsFrame(u) == u.part = FrameLen[sent[u.frame]]

Rest(buf, n) == SubSeq(buf, n + 1, Len(buf))

(* Where the frames of a buffer begin, up to position i. *)
Heads(buf, i) == {h \in 1..i : buf[h].part = 1}

NthHead(buf, n) ==
  CHOOSE h \in Heads(buf, Len(buf)) : Cardinality(Heads(buf, h)) = n

FramesOf(buf) ==
  [n \in 1..Cardinality(Heads(buf, Len(buf))) |-> sent[buf[NthHead(buf, n)].frame]]

Kinds(buf) == {FramesOf(buf)[i] : i \in 1..Len(FramesOf(buf))}

(* protocol_parse needs a frame header at the start of the buffer ... *)
Synchronised(buf) == buf = <<>> \/ buf[1].part = 1

(* Mutant: one frame per call. *)
FirstConsumed(buf) ==
  LET ends == {i \in 1..Len(buf) : EndsFrame(buf[i])}
  IN  IF ends = {} THEN 0 ELSE CHOOSE i \in ends : \A j \in ends : i <= j

(* ... and, called again and again, consumes the complete frames at its head. *)
Consumed(buf) ==
  LET ends == {0} \cup {i \in 1..Len(buf) : EndsFrame(buf[i])}
  IN  CHOOSE i \in ends : \A j \in ends : j <= i

(* The login loop stops at the first announcement or error frame. *)
LoginConsumed(buf) ==
  LET ends == {i \in 1..Len(buf) : EndsFrame(buf[i]) /\ sent[buf[i].frame] # "TEXT"}
  IN  IF ends = {} THEN Consumed(buf) ELSE CHOOSE i \in ends : \A j \in ends : i <= j

-----------------------------------------------------------------------------
(* The read buffer. *)

(* Mutant: the buffer is doubled before every recv. *)
CapacityDoubled == 2 * cap

(* app_ensure_capacity doubles a full buffer. *)
CapacityNow == IF Len(rbuf) < cap THEN cap ELSE 2 * cap

SendClear == task' = "NONE" /\ left' = 0

Exit(reason) == pc' = "closed" /\ why' = reason /\ SendClear

(* Growing past the limit, or running out of memory, ends the process. *)
CapacityFails ==
  /\ Len(rbuf) = cap
  /\ Exit(IF 2 * cap > CapMax THEN "limit" ELSE "memory")
  /\ UNCHANGED <<session, running, rbuf, cap, ready, stdio, handled, lines, wire>>

(* recv: some of what has arrived, as much as fits. *)
Recv(batch) ==
  /\ Len(rbuf) < cap \/ 2 * cap <= CapMax
  /\ Len(rbuf) + Len(batch) <= CapacityNow
  /\ cap' = CapacityNow /\ wire' = Rest(wire, Len(batch))

Batches == {SubSeq(wire, 1, n) : n \in 1..Len(wire)}

(* Mutant: what is left of the batch is thrown away. *)
DispatchDropsHalf(buf) ==
  /\ rbuf' = <<>> /\ handled' = handled \o FramesOf(SubSeq(buf, 1, Consumed(buf)))
  /\ UNCHANGED <<running, why>>

(* Mutant: what was dispatched stays in the buffer. *)
DispatchKeepsAll(buf) ==
  /\ "ASKS" \in Kinds(buf) => peer # "stalled"
  /\ rbuf' = buf /\ handled' = handled \o FramesOf(SubSeq(buf, 1, Consumed(buf)))
  /\ UNCHANGED <<running, why>>

(* Mutant: nothing is dispatched until the next recv. *)
DispatchLater(buf) == rbuf' = buf /\ UNCHANGED <<running, why, handled>>

(* app_dispatch.  A handler that answers blocks while the server does not read. *)
Dispatch(buf) ==
  IF Synchronised(buf)
  THEN LET done == SubSeq(buf, 1, Consumed(buf))
       IN  /\ "ASKS" \in Kinds(done) => peer # "stalled"
           /\ handled' = handled \o FramesOf(done)
           /\ rbuf' = Rest(buf, Len(done))
           /\ UNCHANGED <<running, why>>
  ELSE running' = FALSE /\ why' = "magic" /\ rbuf' = buf /\ UNCHANGED handled

-----------------------------------------------------------------------------
(* stdin.  A terminal hands fgets one line per read, a pipe all it holds. *)

Tty == input = "tty"

HasLine == stdio # <<>> \/ tty # <<>>

NextLine == IF stdio # <<>> THEN Head(stdio) ELSE Head(tty)

AtEof == ~HasLine /\ eof

(* Mutant: what has arrived with a line is thrown away. *)
TakeLineLosesAhead ==
  /\ HasLine /\ lines' = lines + 1 /\ stdio' = <<>> /\ tty' = <<>>

TakeLine ==
  /\ HasLine /\ lines' = lines + 1
  /\ \/ stdio # <<>> /\ stdio' = Tail(stdio) /\ UNCHANGED tty
     \/ stdio = <<>> /\ Tty  /\ tty' = Tail(tty) /\ UNCHANGED stdio
     \/ stdio = <<>> /\ ~Tty /\ tty' = <<>> /\ stdio' = Tail(tty)

-----------------------------------------------------------------------------
Init ==
  /\ pc = "prompt" /\ session = FALSE /\ running = TRUE /\ signal = FALSE /\ why = "none"
  /\ rbuf = <<>> /\ cap = CapInit /\ ready = {} /\ stdio = <<>>
  /\ task = "NONE" /\ left = 0 /\ sent = <<>> /\ handled = <<>> /\ lines = 0
  /\ input \in Stdin
  /\ wire = <<>> /\ peer = "reading" /\ owed = 0 /\ tty = <<>> /\ typed = 0 /\ eof = FALSE

EnvSame == UNCHANGED <<signal, sent, peer, typed, eof, input>>

(* conn_send_all returns unless the server stopped reading, and fails only when
   the connection is gone. *)
SendDone == peer # "stalled"

SendFails == peer = "gone"

(* commands_login, first at the start and again for /login.  One line stands for
   the user name and the password. *)
PromptAgain ==
  /\ pc = "prompt" /\ TakeLine /\ NextLine = "void"
  /\ EnvSame
  /\ UNCHANGED <<pc, session, running, why, rbuf, cap, ready, task, left, handled, wire, owed>>

PromptAuth ==
  /\ pc = "prompt" /\ TakeLine /\ NextLine # "void" /\ SendDone
  /\ \/ /\ pc' = (IF session THEN "poll" ELSE "await") /\ owed' = owed + 1
        /\ UNCHANGED <<why, task, left>>
     \/ SendFails /\ Exit("send") /\ UNCHANGED owed
  /\ EnvSame /\ UNCHANGED <<session, running, rbuf, cap, ready, handled, wire>>

PromptEof ==
  /\ pc = "prompt" /\ AtEof /\ Exit("eof")
  /\ EnvSame
  /\ UNCHANGED <<session, running, rbuf, cap, ready, stdio, handled, lines, wire, owed, tty>>

-----------------------------------------------------------------------------
(* login_loop, waiting for the answer to AUTH. *)

AwaitUnchanged == EnvSame /\ UNCHANGED <<ready, stdio, lines, owed, tty>>

AwaitSignal ==
  /\ pc = "await" /\ signal /\ Exit("signal")
  /\ AwaitUnchanged /\ UNCHANGED <<session, running, rbuf, cap, handled, wire>>

AwaitClosed ==
  /\ pc = "await" /\ ~signal /\ peer = "gone"
  /\ \/ Exit("peer") /\ UNCHANGED <<session, running, rbuf, cap, handled, wire>>
     \/ CapacityFails
  /\ AwaitUnchanged

AwaitFull ==
  /\ pc = "await" /\ ~signal /\ wire # <<>> /\ CapacityFails
  /\ AwaitUnchanged

(* The outcome is still open, an error asks for new credentials, or the stream
   lacks the magic. *)
AwaitMore(batch) ==
  LET buf  == rbuf \o batch
      done == SubSeq(buf, 1, LoginConsumed(buf))
  IN  /\ pc = "await" /\ ~signal /\ Recv(batch)
      /\ IF Synchronised(buf)
         THEN /\ Kinds(done) \subseteq {"TEXT", "ERROR"}
              /\ rbuf' = Rest(buf, Len(done)) /\ handled' = handled \o FramesOf(done)
              /\ pc' = (IF "ERROR" \in Kinds(done) THEN "prompt" ELSE "await")
              /\ UNCHANGED <<why, task, left>>
         ELSE Exit("magic") /\ rbuf' = buf /\ UNCHANGED handled
      /\ AwaitUnchanged /\ UNCHANGED <<session, running>>

(* The first announcement is the Welcome.  The frames that came with it are
   dispatched at once, then file_reset_all runs. *)
AwaitWelcome(batch) ==
  LET buf  == rbuf \o batch
      done == SubSeq(buf, 1, LoginConsumed(buf))
      rest == Rest(buf, Len(done))
      more == SubSeq(rest, 1, Consumed(rest))
  IN  /\ pc = "await" /\ ~signal /\ Recv(batch) /\ Synchronised(buf)
      /\ ~(Kinds(done) \subseteq {"TEXT", "ERROR"})
      /\ "ASKS" \in Kinds(more) => SendDone
      /\ rbuf' = Rest(rest, Len(more))
      /\ handled' = handled \o FramesOf(done) \o FramesOf(more)
      /\ pc' = "poll" /\ session' = TRUE /\ SendClear
      /\ AwaitUnchanged /\ UNCHANGED <<running, why>>

-----------------------------------------------------------------------------
(* app_run. *)

(* Mutant: the round that sends COMPLETE is not an active one. *)
SendActiveChunks == left > 1

SendActive == task = "ACTIVE"

SockReady == wire # <<>> \/ peer = "gone"

StdinReady == tty # <<>> \/ (Tty /\ eof)

(* A pipe without writers only hangs up: poll returns, and nothing looks at it. *)
Hangup == ~Tty /\ eof

PollUnchanged ==
  EnvSame /\ UNCHANGED <<session, running, rbuf, cap, stdio, handled, lines, wire, owed, tty>>

(* Mutant: the loop condition without g_running. *)
GoesOnUnlessStopped == running

(* The loop condition. *)
GoesOn == running /\ ~signal

LoopEnds ==
  /\ pc = "poll" /\ ~GoesOn
  /\ Exit(IF running THEN "signal" ELSE why)
  /\ PollUnchanged /\ UNCHANGED ready

PollEvents ==
  /\ pc = "poll" /\ GoesOn /\ (SockReady \/ StdinReady)
  /\ ready' = (IF StdinReady THEN {"stdin"} ELSE {})
  /\ pc' = (IF SockReady THEN "socket" ELSE "stdin")
  /\ PollUnchanged /\ UNCHANGED <<why, task, left>>

PollTimeout ==
  /\ pc = "poll" /\ GoesOn /\ ~SockReady /\ ~StdinReady /\ ~Hangup
  /\ SendActive /\ pc' = "tick"
  /\ PollUnchanged /\ UNCHANGED <<why, ready, task, left>>

(* app_handle_socket. *)
SocketUnchanged == EnvSame /\ UNCHANGED <<session, ready, stdio, lines, owed, tty>>

SocketFails ==
  /\ pc = "socket"
  /\ \/ /\ peer = "gone" /\ Exit("peer")
        /\ UNCHANGED <<session, running, rbuf, cap, ready, stdio, handled, lines, wire>>
     \/ CapacityFails
  /\ SocketUnchanged

(* What arrives about the send task.  It is over whichever of the two came first. *)
SendHears(kinds) ==
  IF "ENDED" \in kinds THEN SendClear
  ELSE IF "ACCEPTED" \in kinds /\ task = "PENDING"
  THEN task' = "ACTIVE" /\ left' = Rounds
  ELSE UNCHANGED <<task, left>>

SocketRecv(batch) ==
  LET buf == rbuf \o batch
  IN  /\ pc = "socket" /\ Recv(batch) /\ Dispatch(buf)
      /\ pc' = (IF "stdin" \in ready THEN "stdin" ELSE "poll")
      /\ SendHears(Kinds(SubSeq(buf, 1, Consumed(buf))))
      /\ SocketUnchanged

(* app_handle_stdin and commands_handle_line. *)
Busy == task # "NONE"

Sends(line) ==
  line = "text" \/ (line = "sendfile" /\ ~Busy) \/ (line = "cancel" /\ Busy)

StdinUnchanged ==
  EnvSame /\ UNCHANGED <<session, running, rbuf, cap, ready, handled, wire, owed>>

StdinEof ==
  /\ pc = "stdin" /\ AtEof /\ Exit("eof")
  /\ StdinUnchanged /\ UNCHANGED <<stdio, lines, tty>>

StdinQuit ==
  /\ pc = "stdin" /\ TakeLine /\ NextLine = "quit" /\ Exit("quit")
  /\ StdinUnchanged

StdinLogin ==
  /\ pc = "stdin" /\ TakeLine /\ NextLine = "login" /\ pc' = "prompt"
  /\ StdinUnchanged /\ UNCHANGED <<why, task, left>>

(* Lines that only print, an empty or an overlong one among them. *)
StdinPrints ==
  /\ pc = "stdin" /\ TakeLine /\ NextLine \notin {"quit", "login"} /\ ~Sends(NextLine)
  /\ pc' = "poll"
  /\ StdinUnchanged /\ UNCHANGED <<why, task, left>>

StdinSends ==
  /\ pc = "stdin" /\ TakeLine /\ Sends(NextLine) /\ SendDone
  /\ \/ /\ pc' = "poll" /\ UNCHANGED why
        /\ CASE NextLine = "sendfile" -> task' = "PENDING" /\ UNCHANGED left
             [] NextLine = "cancel"   -> SendClear
             [] OTHER                 -> UNCHANGED <<task, left>>
     \/ SendFails /\ Exit("send")
  /\ StdinUnchanged

(* Mutant: two rounds at once, whether or not the first was the last. *)
TickTwice ==
  /\ pc = "tick" /\ SendDone
  /\ \/ pc' = "poll" /\ left' = left - 2 /\ UNCHANGED <<why, task>>
     \/ SendFails /\ Exit("send")
  /\ PollUnchanged /\ UNCHANGED ready

(* file_send_tick, on a round that timed out: the last one sends COMPLETE, before
   that the file may become unreadable. *)
Tick ==
  /\ pc = "tick" /\ SendDone
  /\ \/ /\ pc' = "poll" /\ left' = left - 1 /\ UNCHANGED why
        /\ task' = (IF left = 1 THEN "WAIT_COMPLETE" ELSE task)
     \/ left > 1 /\ pc' = "poll" /\ SendClear /\ UNCHANGED why
     \/ SendFails /\ Exit("send")
  /\ PollUnchanged /\ UNCHANGED ready

-----------------------------------------------------------------------------
(* The server, the network, the user and the signals. *)

Welcomed == \E n \in 1..Len(sent) : sent[n] = "WELCOME"

ServerSends(kind) ==
  /\ Len(sent) < MaxFrames /\ peer # "gone"
  /\ \/ kind \in {"WELCOME", "ERROR"} /\ owed > 0 /\ owed' = owed - 1
     \/ kind \in {"TEXT", "ACCEPTED", "ENDED", "ASKS"} /\ Welcomed /\ UNCHANGED owed
  /\ sent' = Append(sent, kind) /\ wire' = wire \o Units(Len(sent) + 1, kind)
  /\ UNCHANGED <<procVars, signal, peer, tty, typed, eof>>

PeerChanges(to) ==
  /\ peer # "gone" /\ peer # to /\ peer' = to
  /\ UNCHANGED <<procVars, signal, sent, wire, owed, tty, typed, eof>>

PeerResumes == peer = "stalled" /\ PeerChanges("reading")

UserTypes(line) ==
  /\ typed < MaxLines /\ ~eof
  /\ typed' = typed + 1 /\ tty' = Append(tty, line)
  /\ UNCHANGED <<procVars, signal, sent, wire, peer, owed, eof>>

UserEnds ==
  /\ ~eof /\ eof' = TRUE
  /\ UNCHANGED <<procVars, signal, sent, wire, peer, owed, tty, typed>>

(* on_signal. *)
Signal ==
  /\ ~signal /\ signal' = TRUE
  /\ UNCHANGED <<procVars, sent, wire, peer, owed, tty, typed, eof>>

-----------------------------------------------------------------------------
Login ==
  \/ PromptAgain \/ PromptAuth \/ PromptEof
  \/ AwaitSignal \/ AwaitClosed \/ AwaitFull
  \/ \E batch \in Batches : AwaitMore(batch) \/ AwaitWelcome(batch)

Loop ==
  \/ LoopEnds \/ PollEvents \/ PollTimeout
  \/ SocketFails \/ \E batch \in Batches : SocketRecv(batch)
  \/ StdinEof \/ StdinQuit \/ StdinLogin \/ StdinPrints \/ StdinSends
  \/ Tick

Process == Login \/ Loop

Environment ==
  \/ \E kind \in FrameKind : ServerSends(kind)
  \/ PeerChanges("stalled") \/ PeerChanges("gone") \/ PeerResumes
  \/ \E line \in LineKinds : UserTypes(line)
  \/ UserEnds \/ Signal

Next == Process \/ Environment

Spec == Init /\ [][Next]_vars

(* The thread is scheduled, and a server that stalls reads again some day.  Each
   time it reads, the kernel wakes a blocked send: hence strong fairness. *)
FairSpec == Spec /\ SF_vars(Process) /\ WF_vars(PeerResumes)

-----------------------------------------------------------------------------
Unit == [frame : 1..MaxFrames, part : Nat \ {0}]

(* Typing. *)
TypeOK ==
  /\ pc \in {"prompt", "await", "poll", "socket", "stdin", "tick", "closed"}
  /\ session \in BOOLEAN /\ running \in BOOLEAN /\ signal \in BOOLEAN
  /\ why \in {"none", "send", "eof", "signal", "peer", "limit", "memory", "magic", "quit"}
  /\ rbuf \in Seq(Unit) /\ wire \in Seq(Unit) /\ cap \in Nat
  /\ ready \subseteq {"stdin"} /\ stdio \in Seq(LineKinds) /\ tty \in Seq(LineKinds)
  /\ task \in {"NONE", "PENDING", "ACTIVE", "WAIT_COMPLETE"} /\ left \in 0..Rounds
  /\ sent \in Seq(FrameKind) /\ handled \in Seq(FrameKind)
  /\ lines \in 0..MaxLines /\ typed \in 0..MaxLines /\ owed \in 0..MaxLines
  /\ peer \in {"reading", "stalled", "gone"} /\ eof \in BOOLEAN /\ input \in Stdin

(* The byte stream is handled exactly once and in order: the frames handled so
   far, the buffer and the socket make up all that the server sent.  This is
   what protocol_parse, the offset arithmetic and the memmove of the login loop
   and of app_dispatch must get right together, whatever recv returns. *)
StreamIntact ==
  /\ handled = SubSeq(sent, 1, Len(handled))
  /\ LET open == rbuf \o wire
     IN  /\ \A i \in 1..Len(open)-1 :
              \/ open[i+1] = [open[i] EXCEPT !.part = @ + 1] /\ ~EndsFrame(open[i])
              \/ open[i+1] = [frame |-> open[i].frame + 1, part |-> 1] /\ EndsFrame(open[i])
         /\ IF open = <<>> THEN Len(handled) = Len(sent)
            ELSE /\ open[1] = [frame |-> Len(handled) + 1, part |-> 1]
                 /\ open[Len(open)].frame = Len(sent) /\ EndsFrame(open[Len(open)])

(* poll only watches the socket, so when the thread is about to wait no complete
   frame may be left in the buffer, neither after a recv nor after the login. *)
NothingLeftBehind == pc \in {"await", "poll", "tick"} => Consumed(rbuf) = 0

(* A server that keeps to the protocol never makes the client give up: neither
   the buffer limit nor a lost frame boundary is ever reached, however the
   stream is cut into batches. *)
NeverGivesUp == why \notin {"limit", "magic"}

(* The loop is a FIFO of frames: whatever the order of recv, dispatch, commands,
   ticks and signals, each step handles the next frames of the stream or none. *)
Connection == INSTANCE FrameFifo WITH Message <- FrameKind

FramesInOrder == Connection!Spec

(* Every frame sent is handled, or the process has ended; only a user who leaves
   a prompt unanswered can hold it up. *)
FramesHandled ==
  []<>(pc # "prompt") =>
     \A n \in 1..MaxFrames : Len(sent) >= n ~> (Len(handled) >= n \/ pc = "closed")

(* A signal ends the process, unless it waits at a prompt: in the loop and while
   the login waits for the server, whatever it was doing. *)
SignalEndsLoop == []<>(pc # "prompt") => (signal ~> pc = "closed")

(* A transfer that was accepted is sent to its end, chat traffic, typed lines and
   stalls of the server notwithstanding, once the traffic allows time-outs. *)
TransferAdvances ==
  ([]<>(pc # "prompt") /\ []~Hangup) => (left > 0 ~> (left = 0 \/ pc = "closed"))

(* What becomes of the lines typed while the thread keeps coming back to its loop.
   Each is taken from the descriptor; at a terminal that means handled.  From a pipe
   fgets reads ahead, and poll does not see what is in its buffer: lines may stay
   there, but no line is lost, and once more is typed they are handled. *)
LinesRead ==
  []<>(pc \notin {"prompt", "await"}) =>
     \A n \in 1..MaxLines :
        /\ typed >= n ~> (lines + Len(stdio) >= n \/ pc = "closed")
        /\ (lines + Len(stdio) >= n /\ tty # <<>>) ~> (lines >= n \/ pc = "closed")

-----------------------------------------------------------------------------
(* A claim of the repository that the code does not keep. *)

(* app.h: the end of the input clears "running". *)
EofEndsLoop == []<>(pc # "await") => (eof ~> pc = "closed")
=============================================================================
