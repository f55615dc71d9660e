------------------------------- MODULE Relay -------------------------------
(***************************************************************************)
(* A client that sends files, a client that receives them, and the server  *)
(* between them.  Both clients are file.c (FileMessages), each with its    *)
(* own variables; a step of a client may put frames on its connection, and *)
(* handles one message of the server at a time, in the order of sending.   *)
(*                                                                         *)
(* The server is not in the repository.  It is modelled from what file.c,  *)
(* ADR-0002 and the specification of the transfers say of it: it numbers   *)
(* the transfers, relays them, tells both sides by an announcement and a   *)
(* frame, in this order, and answers a frame that does not fit the state   *)
(* of its transfer by error 300.  A pool of threads takes the frames of    *)
(* one connection, so that frames may overtake each other: those of one    *)
(* step of the client always, those of Window successive steps besides.    *)
(***************************************************************************)
EXTENDS Integers, Sequences, SequencesExt

CONSTANTS
  RecvSlots,     \* FILE_MAX_RECV_PENDING of the receiver
  ChunkMax, ChunksPerRound,
  MaxTid,        \* bound on the transfers the server numbers
  MaxSends,      \* bound on the /sendfile commands that are carried out
  TypedTid,      \* the tids the users may type
  File, SendFiles, FileSize, Name, Candidate,
  Sender, Receiver, Stranger, PhrasesIn,
  Window,        \* how many steps of a client may be under way in the server at once
  Lossy,         \* may the server drop a chunk (its write buffer is full)?
  StrangerFiles, \* files another client offers to the receiver
  Chatting,      \* may the sender also write to users who are not there?
  MayLeave,      \* the clients that may leave
  NoFile, NoName

ASSUME RelayAssumption ==
  /\ RecvSlots \in Nat \ {0} /\ ChunkMax \in Nat \ {0} /\ ChunksPerRound \in Nat \ {0}
  /\ MaxTid \in Nat /\ MaxSends \in Nat /\ TypedTid \subseteq Nat
  /\ SendFiles \subseteq File /\ StrangerFiles \subseteq File
  /\ \A file \in SendFiles \cup StrangerFiles : FileSize[file] \in Nat
  /\ Candidate \in [File -> [0..1 -> Name]]
  /\ NoFile \notin File /\ NoName \notin Name
  /\ Sender # Receiver /\ Stranger \notin {Sender, Receiver}

(* Nobody is called, and no file is, so that another text looks like the answer
   to /sendfile (Announcement!Masks). *)
ASSUME NamesAssumption ==
  \A name \in File \cup {Sender, Receiver, Stranger} :
    "Waiting for acceptance" \notin PhrasesIn[name]

VARIABLES
  sPhase, sBroken, sSend, sRecv, sRecvSeq, sPresent, sContent, sOut,
  sSaved, sKnown, sAccepted, sEmitted, sStranded,
  rPhase, rBroken, rSend, rRecv, rRecvSeq, rPresent, rContent, rOut,
  rSaved, rKnown, rAccepted, rEmitted, rStranded,
  up,       \* frames on their way to the server, one set for each step of a client
  down,     \* messages on their way to a client
  xfer,     \* the transfers of the server, by tid
  online,   \* the clients the server has a connection with
  sends,    \* history: how many /sendfile commands were carried out
  data,     \* history: the bytes the receiver wrote for each tid, with their file
  kept,     \* history: the transfers whose file the receiver kept
  orphaned  \* history: a send task was lost to something that was not about it

senderVars == <<sPhase, sBroken, sSend, sRecv, sRecvSeq, sPresent, sContent,
                sSaved, sKnown, sAccepted, sEmitted, sStranded>>
receiverVars == <<rPhase, rBroken, rSend, rRecv, rRecvSeq, rPresent, rContent,
                  rSaved, rKnown, rAccepted, rEmitted, rStranded>>
serverVars == <<xfer, online>>
receiverHistory == <<data, kept>>
senderHistory == <<sends, orphaned>>
vars == <<senderVars, sOut, receiverVars, rOut, up, down, serverVars, receiverHistory, senderHistory>>

Tid == 1..MaxTid
MaxWireTid == MaxTid
Span == UNION {0..FileSize[f] : f \in SendFiles \cup StrangerFiles}
Sizes == {FileSize[f] : f \in SendFiles \cup StrangerFiles}

S == INSTANCE FileMessages WITH
       phase <- sPhase, broken <- sBroken, send <- sSend, recv <- sRecv,
       recvSeq <- sRecvSeq, present <- sPresent, content <- sContent, out <- sOut,
       saved <- sSaved, known <- sKnown, accepted <- sAccepted, emitted <- sEmitted,
       stranded <- sStranded,
       NSlots <- 1, MaxTries <- 2, MaxSeq <- MaxTid, UserTid <- TypedTid,
       LegalName <- File, InitSize <- Sizes, Preexisting <- {},
       FlushMayFail <- FALSE, MayBeKilled <- FALSE

R == INSTANCE FileMessages WITH
       phase <- rPhase, broken <- rBroken, send <- rSend, recv <- rRecv,
       recvSeq <- rRecvSeq, present <- rPresent, content <- rContent, out <- rOut,
       saved <- rSaved, known <- rKnown, accepted <- rAccepted, emitted <- rEmitted,
       stranded <- rStranded,
       NSlots <- RecvSlots, MaxTries <- 2, MaxSeq <- MaxTid, UserTid <- TypedTid,
       SendFiles <- {}, FileSize <- [f \in {} |-> 0],
       LegalName <- File, InitSize <- Sizes, Preexisting <- {},
       FlushMayFail <- FALSE, MayBeKilled <- FALSE

SenderIdle   == sOut' = {} /\ UNCHANGED senderVars
ReceiverIdle == rOut' = {} /\ UNCHANGED receiverVars

NoTransfer == [state |-> "none", file |-> NoFile, from |-> Sender]

Init ==
  /\ S!Init /\ R!Init
  /\ up = [c \in {Sender, Receiver} |-> <<>>]
  /\ down = [c \in {Sender, Receiver} |-> <<>>]
  /\ xfer = [t \in Tid |-> NoTransfer] /\ online = {}
  /\ sends = 0 /\ orphaned = FALSE
  /\ data = [t \in Tid |-> {}] /\ kept = {}

(* Both clients have logged in; no transfer is older than their sessions. *)
BothOnline ==
  /\ S!SessionStart /\ R!SessionStart
  /\ online' = {Sender, Receiver}
  /\ UNCHANGED <<up, down, xfer, receiverHistory, senderHistory>>

-----------------------------------------------------------------------------
(* The clients. *)

Uploads(client, frames) ==
  up' = IF frames = {} THEN up ELSE [up EXCEPT ![client] = Append(@, frames)]

(* A step of the sender that handles no message. *)
SenderDoes(step) ==
  /\ online # {} /\ step /\ Uploads(Sender, sOut')
  /\ ReceiverIdle /\ UNCHANGED <<receiverHistory, serverVars, down>>

SenderOffers ==
  /\ sends < MaxSends /\ sends' = sends + 1
  /\ \E file \in SendFiles : SenderDoes(S!CmdSendfile(file))
  /\ UNCHANGED orphaned

(* A send task without a tid matches 0: the server hears of a transfer it does
   not know, and numbers the one it was asked for all the same. *)
SenderCancels ==
  /\ \E tid \in TypedTid : SenderDoes(S!CmdCancel(tid))
  /\ orphaned' = (orphaned \/ sSend.state = "PENDING_TID")
  /\ UNCHANGED sends

SenderTicks ==
  /\ \/ SenderDoes(S!TickChunks) \/ SenderDoes(S!TickComplete)
     \/ \E n \in 0..ChunksPerRound-1 : n < S!Round /\ SenderDoes(S!TickReadFails(n))
  /\ UNCHANGED senderHistory

(* Does an error end a task it is not about? *)
Misses(m) ==
  /\ m.type = "ERROR" /\ sSend.state # "NONE" /\ sSend'.state = "NONE"
  /\ ~(m.code = 300 /\ m.about = sSend.tid) /\ ~(m.code = 200 /\ m.about = 0)

SenderHandles ==
  /\ down[Sender] # <<>> /\ S!Listening
  /\ LET m == Head(down[Sender])
     IN  /\ S!Handle(m)
         /\ orphaned' = (orphaned \/ Misses(m))
  /\ down' = [down EXCEPT ![Sender] = Tail(@)]
  /\ Uploads(Sender, sOut')
  /\ ReceiverIdle /\ UNCHANGED <<receiverHistory, serverVars, sends>>

(* Did a message add to a file of the receiver? *)
Stored(m) ==
  /\ m.type = "CHUNK"
  /\ \E i \in 1..RecvSlots : rRecv'[i].tid = m.tid /\ rRecv'[i].received > rRecv[i].received

RecordFiles(m) ==
  /\ data' = IF Stored(m)
             THEN [data EXCEPT ![m.tid] = @ \cup ({m.file} \X R!Bytes(m.offset, m.len))]
             ELSE data
  /\ kept' = kept \cup {rRecv[i].tid : i \in {j \in 1..RecvSlots : rRecv[j].open /\ rSaved' # rSaved}}

ReceiverCommands ==
  /\ online # {}
  /\ \E tid \in TypedTid : R!CmdAccept(tid) \/ R!CmdReject(tid) \/ R!CmdCancel(tid)
  /\ Uploads(Receiver, rOut')
  /\ SenderIdle /\ UNCHANGED <<senderHistory, serverVars, receiverHistory, down>>

ReceiverHandles ==
  /\ down[Receiver] # <<>> /\ R!Listening
  /\ LET m == Head(down[Receiver])
     IN  /\ R!Handle(m)
         /\ RecordFiles(m)
  /\ down' = [down EXCEPT ![Receiver] = Tail(@)]
  /\ Uploads(Receiver, rOut')
  /\ SenderIdle /\ UNCHANGED <<senderHistory, serverVars>>

ClientEnds(end) ==
  end /\ UNCHANGED <<up, down, serverVars, receiverHistory, senderHistory>>

Leave ==
  /\ online # {}
  /\ \/ Sender \in MayLeave /\ ClientEnds(S!Stop) /\ ReceiverIdle
     \/ Receiver \in MayLeave /\ ClientEnds(R!Stop) /\ SenderIdle

(* app_destroy. *)
SenderGone   == ClientEnds(S!Destroy) /\ ReceiverIdle
ReceiverGone == ClientEnds(R!Destroy) /\ SenderIdle

-----------------------------------------------------------------------------
(* The server. *)

Announce(text)     == [type |-> "SERVER_MSG", text |-> text]
Error(code, about) == [type |-> "ERROR", code |-> code, about |-> about]
InitTo(file)       == [type |-> "INIT", file |-> file, size |-> FileSize[file]]

(* Messages to each of the two, dropped when the client is gone. *)
Tell(toSender, toReceiver) ==
  down' = [c \in {Sender, Receiver} |->
             IF c \notin online THEN down[c]
             ELSE down[c] \o (IF c = Sender THEN toSender ELSE toReceiver)]

TellOne(c, messages) ==
  IF c = Sender THEN Tell(messages, <<>>)
  ELSE IF c = Receiver THEN Tell(<<>>, messages) ELSE UNCHANGED down

Becomes(tid, state) == xfer' = [xfer EXCEPT ![tid].state = state]

Unnumbered == {t \in Tid : xfer[t].state = "none" /\ \A u \in 1..t-1 : xfer[u].state # "none"}

StateOf(tid) == IF tid \in Tid THEN xfer[tid].state ELSE "none"

Misfit(c, tid) == TellOne(c, <<Error(300, tid)>>) /\ UNCHANGED xfer

(* Peers of a transfer: who sends it, and the receiver. *)
OtherSide(c, tid) == IF c = Receiver THEN xfer[tid].from ELSE Receiver

NumberTransfer(from, file) ==
  \E tid \in Unnumbered :
    /\ xfer' = [xfer EXCEPT ![tid] = [state |-> "pending", file |-> file, from |-> from]]
    /\ Tell(IF from = Sender THEN <<Announce(S!WaitingText(tid, file, Receiver))>> ELSE <<>>,
            <<Announce(S!IncomingText(tid, file, from)), InitTo(file)>>)

ServeInit(f) ==
  IF Receiver \in online THEN NumberTransfer(Sender, f.file)
  ELSE Tell(<<Error(200, 0)>>, <<>>) /\ UNCHANGED xfer

ServeAccept(tid) ==
  IF StateOf(tid) = "pending"
  THEN /\ Becomes(tid, "active")
       /\ TellOne(xfer[tid].from, <<Announce(S!AcceptedText(tid, Receiver)),
                                    [type |-> "ACCEPT", tid |-> tid]>>)
  ELSE Misfit(Receiver, tid)

ServeReject(tid) ==
  IF StateOf(tid) = "pending"
  THEN /\ Becomes(tid, "over")
       /\ TellOne(xfer[tid].from, <<Announce(S!RejectedText(tid, Receiver)),
                                    [type |-> "REJECT", tid |-> tid]>>)
  ELSE Misfit(Receiver, tid)

(* Only the other side hears of a cancel; one of a transfer that is over, or
   that never was, is ignored. *)
ServeCancel(c, tid) ==
  IF StateOf(tid) \in {"pending", "active"}
  THEN /\ Becomes(tid, "over")
       /\ TellOne(OtherSide(c, tid), <<Announce(S!CancelledText(tid, c)),
                                       [type |-> "CANCEL", tid |-> tid]>>)
  ELSE UNCHANGED <<xfer, down>>

ServeChunk(f) ==
  IF StateOf(f.tid) = "active"
  THEN /\ UNCHANGED xfer
       /\ Tell(<<>>, <<f>>) \/ (Lossy /\ UNCHANGED down)
  ELSE Misfit(Sender, f.tid)

Completed(tid) ==
  /\ Becomes(tid, "over")
  /\ Tell(IF xfer[tid].from = Sender
          THEN <<Announce(S!CompleteText(tid, xfer[tid].file))>> ELSE <<>>,
          <<Announce(S!CompleteText(tid, xfer[tid].file)), [type |-> "COMPLETE", tid |-> tid]>>)

ServeComplete(tid) ==
  IF StateOf(tid) = "active" THEN Completed(tid) ELSE Misfit(Sender, tid)

Serve(c, f) ==
  CASE f.type = "INIT"     -> ServeInit(f)
    [] f.type = "ACCEPT"   -> ServeAccept(f.tid)
    [] f.type = "REJECT"   -> ServeReject(f.tid)
    [] f.type = "CANCEL"   -> ServeCancel(c, f.tid)
    [] f.type = "CHUNK"    -> ServeChunk(f)
    [] f.type = "COMPLETE" -> ServeComplete(f.tid)

Without(batches, i, f) ==
  IF batches[i] = {f} THEN SubSeq(batches, 1, i - 1) \o SubSeq(batches, i + 1, Len(batches))
  ELSE [batches EXCEPT ![i] = @ \ {f}]

ServerTakes(c) ==
  /\ \E i \in 1..Len(up[c]) : i <= Window /\ \E f \in up[c][i] :
       Serve(c, f) /\ up' = [up EXCEPT ![c] = Without(@, i, f)]
  /\ SenderIdle /\ ReceiverIdle /\ UNCHANGED <<online, receiverHistory, senderHistory>>

(* The answer to a private message, or another command, that names nobody. *)
ServerDenies ==
  /\ Chatting /\ Sender \in online
  /\ \A k \in 1..Len(down[Sender]) : down[Sender][k].type # "ERROR"
  /\ Tell(<<Error(200, 1)>>, <<>>)
  /\ SenderIdle /\ ReceiverIdle /\ UNCHANGED <<up, serverVars, receiverHistory, senderHistory>>

(* The server notices that a client is gone once it has read what it sent. *)
Over(t, c) == xfer[t].state \in {"pending", "active"} /\ c \in {xfer[t].from, Receiver}

(* Sender and receiver tell each other; the third client needs no telling. *)
PeerHears(t, c) == c = Receiver => xfer[t].from = Sender

ServerHangsUp(c) ==
  /\ c \in online /\ up[c] = <<>>
  /\ (IF c = Sender THEN sPhase ELSE rPhase) = "closed"
  /\ online' = online \ {c}
  /\ xfer' = [t \in Tid |-> IF Over(t, c) THEN [xfer[t] EXCEPT !.state = "over"] ELSE xfer[t]]
  /\ \E gone \in SetToSeqs({t \in Tid : Over(t, c) /\ PeerHears(t, c)}) :
       down' = [d \in {Sender, Receiver} |->
                  IF d = c THEN <<>>
                  ELSE IF d \notin online THEN down[d]
                  ELSE down[d] \o [k \in 1..Len(gone) |-> Announce(S!DisconnectedText(gone[k], c))]]
  /\ SenderIdle /\ ReceiverIdle /\ UNCHANGED <<up, receiverHistory, senderHistory>>

(* A third client, which does what it should: it offers a file, and sends it
   or gives up when the file was accepted. *)
StrangerOffers ==
  /\ online = {Sender, Receiver}
  /\ \E file \in StrangerFiles :
       /\ \A t \in Tid : ~(xfer[t].from = Stranger /\ xfer[t].file = file)
       /\ NumberTransfer(Stranger, file)
  /\ SenderIdle /\ ReceiverIdle /\ UNCHANGED <<up, online, receiverHistory, senderHistory>>

StrangerChunks(tid, file) ==
  [k \in 1..S!ChunkCount(FileSize[file]) |->
     [type |-> "CHUNK", tid |-> tid, file |-> file, offset |-> (k - 1) * ChunkMax,
      len |-> S!ChunkLen(FileSize[file], k - 1)]]

StrangerEnds ==
  /\ \E t \in Tid :
       /\ xfer[t].from = Stranger
       /\ \/ /\ xfer[t].state = "active" /\ Becomes(t, "over")
             /\ Tell(<<>>, StrangerChunks(t, xfer[t].file) \o
                           <<Announce(S!CompleteText(t, xfer[t].file)),
                             [type |-> "COMPLETE", tid |-> t]>>)
          \/ xfer[t].state \in {"pending", "active"} /\ ServeCancel(Stranger, t)
  /\ SenderIdle /\ ReceiverIdle /\ UNCHANGED <<up, online, receiverHistory, senderHistory>>

-----------------------------------------------------------------------------
Client ==
  \/ SenderOffers \/ SenderCancels \/ SenderTicks \/ SenderHandles \/ SenderGone
  \/ ReceiverCommands \/ ReceiverHandles \/ ReceiverGone \/ Leave

Server ==
  \/ \E c \in {Sender, Receiver} : ServerTakes(c) \/ ServerHangsUp(c)
  \/ ServerDenies \/ StrangerOffers \/ StrangerEnds

Next == BothOnline \/ Client \/ Server

Spec == Init /\ [][Next]_vars

(* The server works, what it sends arrives, and rounds without events come. *)
FairSpec ==
  /\ Spec
  /\ WF_vars(SenderHandles) /\ WF_vars(SenderTicks) /\ WF_vars(ReceiverHandles)
  /\ WF_vars(SenderGone) /\ WF_vars(ReceiverGone)
  /\ \A c \in {Sender, Receiver} : WF_vars(ServerTakes(c)) /\ WF_vars(ServerHangsUp(c))
  /\ WF_vars(StrangerEnds)

-----------------------------------------------------------------------------
Transfers == {t \in Tid : xfer[t].state # "none"}

RecvTasks(t) == {i \in 1..RecvSlots : rRecv[i].busy /\ rRecv[i].tid = t}

(* A chunk frame that lies within its file. *)
ChunkIn(file) ==
  {f \in [type : {"CHUNK"}, tid : Tid, file : {file}, offset : 0..FileSize[file]-1,
          len : 1..ChunkMax] : f.offset + f.len <= FileSize[file]}

(* The variables have their types, and every chunk that is under way lies within
   the file it was read from. *)
TypeOK ==
  /\ S!TypeOK /\ R!TypeOK
  /\ xfer \in [Tid -> [state : {"none", "pending", "active", "over"},
                       file : File \cup {NoFile}, from : {Sender, Stranger}]]
  /\ online \subseteq {Sender, Receiver} /\ sends \in 0..MaxSends
  /\ kept \subseteq Tid /\ orphaned \in BOOLEAN
  /\ \A k \in 1..Len(down[Receiver]) : down[Receiver][k].type = "CHUNK" =>
       \E file \in SendFiles \cup StrangerFiles : down[Receiver][k] \in ChunkIn(file)

(* The INIT frame, which carries no tid, reaches the task of the transfer it
   belongs to, whoever else offers, cancels and is refused meanwhile. *)
DetailsMatch ==
  \A i \in 1..RecvSlots : rRecv[i].busy /\ rRecv[i].inited =>
     LET file == xfer[rRecv[i].tid].file
     IN  rRecv[i].file = file /\ rRecv[i].size = FileSize[file]

(* Nothing is under way between the three. *)
Settled ==
  /\ online = {Sender, Receiver} /\ sPhase = "session" /\ rPhase = "session"
  /\ \A c \in {Sender, Receiver} : up[c] = <<>> /\ down[c] = <<>>

(* Once nothing is under way, both clients and the server agree on every
   transfer: no task waits for an answer that will not come, none belongs to a
   transfer that is over, and the transfers of the server have their tasks. *)
EndsAgree ==
  Settled =>
    /\ sSend.state \notin {"PENDING_TID", "WAIT_COMPLETE"}
    /\ sSend.state = "PENDING" => xfer[sSend.tid].state = "pending"
    /\ sSend.state \in {"ACTIVE", "DONE"} => xfer[sSend.tid].state = "active"
    /\ \A i \in 1..RecvSlots : rRecv[i].busy =>
         xfer[rRecv[i].tid].state = IF rRecv[i].open THEN "active" ELSE "pending"
    /\ ~orphaned => \A t \in Transfers :
         xfer[t].state # "over" /\ xfer[t].from = Sender => sSend.tid = t

Completes(m, t) ==
  \/ m.type = "COMPLETE" /\ m.tid = t
  \/ /\ m.type = "SERVER_MSG"
     /\ LET ann == S!ParseAnnouncement(m.text) IN ann.kind = "COMPLETE" /\ ann.tid = t

(* A server that takes the steps of a connection one after the other and drops
   nothing never completes a transfer the receiver then throws away: that is what
   the state DONE and the round of delay before COMPLETE are for. *)
CompleteIsWhole ==
  [][~orphaned /\ Window = 1 /\ ~Lossy =>
       \A i \in 1..RecvSlots :
         /\ rRecv[i].open /\ ~rRecv'[i].open
         /\ Len(down'[Receiver]) < Len(down[Receiver])
         /\ Completes(Head(down[Receiver]), rRecv[i].tid)
         => rRecv[i].tid \in kept']_vars

(* The refinement: what the receiver's user sees of a transfer. *)
Status(t) ==
  CASE t \in kept -> "kept"
    [] \E i \in RecvTasks(t) : rRecv[i].open -> "open"
    [] t \in rKnown /\ RecvTasks(t) = {} /\ t \notin kept -> "gone"
    [] xfer[t].state = "none" -> "none"
    [] OTHER -> "offered"

Promise == INSTANCE Delivery WITH
  Transfer <- Tid, OfferedFile <- SendFiles \cup StrangerFiles, SizeOf <- FileSize,
  status <- [t \in Tid |-> Status(t)], offer <- [t \in Tid |-> xfer[t].file],
  data <- data, spoiled <- orphaned

(* End to end: a file is received one piece at a time, nothing twice and nothing
   of another file, one file after the other, and kept only when it is whole;
   this until a send task is lost to something that was not about it. *)
Delivers == Promise!Spec

(* A transfer that was accepted ends at both clients, however it ends, with
   frames lost and overtaken and clients leaving, as long as no send task is
   lost to something that was not about it. *)
TransfersEnd ==
  []~orphaned => \A t \in Tid :
    xfer[t].state = "active" ~> (sSend.tid # t /\ RecvTasks(t) = {})

-----------------------------------------------------------------------------
(* A claim of the repository that the code does not keep. *)

(* M4 spec, story 14: the file received is the source file, byte for byte; it is
   kept only when the check succeeds. *)
KeptFilesMatch ==
  \A t \in kept : data[t] = {xfer[t].file} \X (0..FileSize[xfer[t].file]-1)
=============================================================================
