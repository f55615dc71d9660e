------------------------------ MODULE RelayInv ------------------------------
(***************************************************************************)
(* The inductive invariant of Relay: what the messages under way say, and  *)
(* how they agree with the tasks of the two clients and the transfers of   *)
(* the server.                                                             *)
(***************************************************************************)
EXTENDS Relay

Offered == SendFiles \cup StrangerFiles

(* What can be on its way, in each of the four directions. *)
SenderTexts ==
  {S!WaitingText(t, file, Receiver) : t \in Tid, file \in SendFiles}
  \cup {S!CompleteText(t, file) : t \in Tid, file \in Offered}
  \cup UNION {{S!AcceptedText(t, Receiver), S!RejectedText(t, Receiver),
               S!CancelledText(t, Receiver), S!DisconnectedText(t, Receiver)} : t \in Tid}

ReceiverTexts ==
  {S!IncomingText(t, file, from) : t \in Tid, file \in Offered, from \in {Sender, Stranger}}
  \cup {S!CompleteText(t, file) : t \in Tid, file \in Offered}
  \cup {S!CancelledText(t, from) : t \in Tid, from \in {Sender, Stranger}}
  \cup {S!DisconnectedText(t, Sender) : t \in Tid}

ToSender ==
  {Announce(text) : text \in SenderTexts} \cup {Error(200, 0), Error(200, 1)}
  \cup {Error(300, t) : t \in Tid} \cup [type : {"ACCEPT", "REJECT", "CANCEL"}, tid : Tid]

ToReceiver ==
  {Announce(text) : text \in ReceiverTexts} \cup {Error(300, t) : t \in Tid}
  \cup {InitTo(file) : file \in Offered} \cup [type : {"CANCEL", "COMPLETE"}, tid : Tid]
  \cup UNION {ChunkIn(file) : file \in Offered}

FromSender ==
  {S!InitFrame(file) : file \in SendFiles} \cup [type : {"CANCEL"}, tid : Tid \cup {0}]
  \cup [type : {"COMPLETE"}, tid : Tid] \cup UNION {ChunkIn(file) : file \in SendFiles}

FromReceiver == [type : {"ACCEPT", "REJECT", "CANCEL"}, tid : Tid]

MessagesTyped ==
  /\ DOMAIN down = {Sender, Receiver} /\ DOMAIN up = {Sender, Receiver}
  /\ down[Sender] \in Seq(ToSender) /\ down[Receiver] \in Seq(ToReceiver)
  /\ up[Sender] \in Seq(SUBSET FromSender) /\ up[Receiver] \in Seq(SUBSET FromReceiver)

(* The connections stand, the sender receives nothing and the receiver sends
   nothing; before the login there is nothing at all. *)
Roles ==
  /\ ~sBroken /\ ~rBroken
  /\ \A i \in S!Slot : ~sRecv[i].busy
  /\ rSend.state = "NONE"

BeforeLogin ==
  /\ sPhase # "killed" /\ rPhase # "killed"
  /\ sPhase = "login" \/ rPhase = "login" =>
       /\ online = {} /\ \A c \in {Sender, Receiver} : up[c] = <<>> /\ down[c] = <<>>
       /\ sSend.state = "NONE" /\ \A i \in 1..RecvSlots : ~rRecv[i].busy
  /\ rPhase = "closed" => \A i \in 1..RecvSlots : ~rRecv[i].busy
  /\ sPhase = "closed" => sSend.state = "NONE"

-----------------------------------------------------------------------------
(* The offers.  Each transfer is announced to the receiver once, with its INIT
   frame right behind the announcement. *)

IsOffer(m) == m.type = "SERVER_MSG" /\ m.text.head = "Incoming file transfer #"

Offers == {k \in 1..Len(down[Receiver]) : IsOffer(down[Receiver][k])}

OfferAt(k) == down[Receiver][k].text.digits[1]

Paired ==
  /\ \A k \in Offers : /\ k < Len(down[Receiver])
                       /\ down[Receiver][k + 1] = InitTo(xfer[OfferAt(k)].file)
  /\ \A k \in 1..Len(down[Receiver]) : down[Receiver][k].type = "INIT" => k = 1 \/ k - 1 \in Offers

OfferedOnce ==
  /\ \A k \in Offers : OfferAt(k) \in Transfers \ rKnown
  /\ \A k, l \in Offers : OfferAt(k) = OfferAt(l) => k = l

(* At most one task waits for its details, and they come next. *)
DetailsNext ==
  /\ \A i, j \in R!Uninited : i = j
  /\ \A i \in R!Uninited : rPhase # "closed" =>
       Len(down[Receiver]) > 0 /\ down[Receiver][1] = InitTo(xfer[rRecv[i].tid].file)

(* The transfers the receiver knows; each has one task at most. *)
KnownTransfers ==
  /\ rKnown \subseteq Transfers /\ kept \subseteq rKnown
  /\ \A t \in Transfers : xfer[t].file \in Offered
  /\ \A i \in 1..RecvSlots : rRecv[i].busy => rRecv[i].tid \in rKnown \ kept
  /\ \A i, j \in 1..RecvSlots :
       rRecv[i].busy /\ rRecv[j].busy /\ rRecv[i].tid = rRecv[j].tid => i = j

(* The bytes of a transfer are those on disk. *)
DataOnDisk ==
  /\ DOMAIN data = Tid
  /\ \A t \in Tid \ rKnown : data[t] = {}
  /\ \A i \in 1..RecvSlots : rRecv[i].busy /\ ~rRecv[i].open => data[rRecv[i].tid] = {}
  /\ ~orphaned => \A i \in 1..RecvSlots : rRecv[i].open =>
       data[rRecv[i].tid] = {xfer[rRecv[i].tid].file} \X rContent[rRecv[i].name]

-----------------------------------------------------------------------------
(* The answers.  While a send task waits for its tid, at most one answer is to
   come, and it is about the file of the task; at other times there is none. *)

IsAnswer(m) ==
  \/ m.type = "SERVER_MSG" /\ "Waiting for acceptance" \in m.text.phrases
  \/ m.type = "ERROR" /\ m.code = 200 /\ m.about = 0

Answers == {k \in 1..Len(down[Sender]) : IsAnswer(down[Sender][k])}

Requests == {i \in 1..Len(up[Sender]) : \E f \in up[Sender][i] : f.type = "INIT"}

AnswerFits ==
  /\ \A i \in Requests : \A f \in up[Sender][i] : f.type = "INIT" => f.file = sSend.file
  /\ \A k \in Answers : LET m == down[Sender][k] IN m.type = "SERVER_MSG" =>
       /\ m.text.digits[1] \in Transfers /\ xfer[m.text.digits[1]].file = sSend.file

OneAnswer ==
  ~orphaned /\ sPhase # "closed" =>
    IF sSend.state = "PENDING_TID"
    THEN /\ \A i, j \in Requests : i = j
         /\ \A k, l \in Answers : k = l
         /\ Requests = {} \/ Answers = {}
         /\ AnswerFits
    ELSE Requests = {} /\ Answers = {}

SendTid ==
  /\ sSend.state \in {"NONE", "PENDING_TID"} => sSend.tid = 0
  /\ sSend.state \notin {"NONE", "PENDING_TID"} => sSend.tid \in Tid
  /\ sSend.state # "NONE" => sSend.size = FileSize[sSend.file]

(* What the sender sends under a tid is the file the transfer was offered with. *)
FileOfTid ==
  ~orphaned =>
    /\ sSend.state \notin {"NONE", "PENDING_TID"} =>
         sSend.tid \in Transfers /\ xfer[sSend.tid].file = sSend.file
    /\ \A i \in 1..Len(up[Sender]) : \A f \in up[Sender][i] : f.type = "CHUNK" =>
         f.tid \in Transfers /\ xfer[f.tid].file = f.file
    /\ \A k \in 1..Len(down[Receiver]) : LET m == down[Receiver][k] IN m.type = "CHUNK" =>
         m.tid \in Transfers /\ xfer[m.tid].file = m.file

-----------------------------------------------------------------------------
ServerTypeOK ==
  /\ xfer \in [Tid -> [state : {"none", "pending", "active", "over"},
                       file : File \cup {NoFile}, from : {Sender, Stranger}]]
  /\ online \subseteq {Sender, Receiver} /\ sends \in 0..MaxSends
  /\ kept \subseteq Tid /\ orphaned \in BOOLEAN

Wires   == ServerTypeOK /\ MessagesTyped /\ Roles /\ BeforeLogin
Receipt == Paired /\ OfferedOnce /\ DetailsNext /\ KnownTransfers /\ DetailsMatch /\ DataOnDisk
Sending == SendTid /\ OneAnswer /\ FileOfTid

(* What the messages, the tasks and the transfers have to do with each other. *)
RelayInv == Wires /\ Receipt /\ Sending
-----------------------------------------------------------------------------
(* How transfers end: what is owed, while both clients have their sessions.
   Every task that waits has a transfer it can still wait for, or a message
   under way that ends it. *)

Together == online = {Sender, Receiver} /\ sPhase = "session" /\ rPhase = "session"

(* The frames of a client under way, and the messages behind the k-th. *)
Frames(c)    == UNION {up[c][i] : i \in 1..Len(up[c])}
Behind(c, k) == {down[c][l] : l \in k+1..Len(down[c])}
Messages(c)  == Behind(c, 0)

(* What a message means to the task of transfer t. *)
Tells(m, t, types, kinds) ==
  \/ m.type \in types /\ m.tid = t
  \/ /\ m.type = "SERVER_MSG"
     /\ LET ann == S!ParseAnnouncement(m.text) IN ann.kind \in kinds /\ ann.tid = t

GivesTid(m, t) == Tells(m, t, {}, {"SEND_PENDING"})
Accepts(m, t)  == Tells(m, t, {"ACCEPT"}, {"ACCEPTED"})
Ends(m, t)     == Tells(m, t, {"REJECT", "CANCEL"}, {"REJECTED", "CANCELLED", "CANCELLED_DISC"})
Refuses(m)     == m.type = "ERROR" /\ m.code = 300
Closes(m, t)   == m.type \in {"CANCEL", "COMPLETE"} /\ m.tid = t

Ending(t, messages)  == xfer[t].state = "over" /\ \E m \in messages : Ends(m, t) \/ Refuses(m)
Closing(t, messages) == xfer[t].state = "over" /\ \E m \in messages : Closes(m, t)

(* What a send task that waits to be accepted has to come. *)
Due(t, messages) ==
  \/ xfer[t].state = "pending"
  \/ xfer[t].state = "active" /\ \E m \in messages : Accepts(m, t)
  \/ Ending(t, messages)

Going(t) == xfer[t].state \in {"active", "over"}

(* The sender's frames are of its own transfers, whose tid it has been given. *)
SenderFrames ==
  \A f \in Frames(Sender) : f.type # "INIT" /\ f.tid \in Tid =>
    /\ f.tid \in Transfers /\ xfer[f.tid].from = Sender
    /\ \A m \in Messages(Sender) : ~GivesTid(m, f.tid)
    /\ f.type \in {"CHUNK", "COMPLETE"} => Going(f.tid)
    /\ f.type = "COMPLETE" /\ sSend.tid = f.tid => sSend.state = "WAIT_COMPLETE"
    /\ f.type = "CANCEL" => sSend.tid # f.tid

(* What the sender hears is so. *)
SenderMessages ==
  \A m \in Messages(Sender) :
    /\ ~(m.type = "ERROR" /\ m.code = 200 /\ m.about = 0)
    /\ Refuses(m) => xfer[m.about].state = "over"
    /\ \A t \in Tid : /\ Accepts(m, t) => Going(t)
                      /\ Ends(m, t) \/ Completes(m, t) => xfer[t].state = "over"

(* Nothing of a transfer reaches the sender before its tid. *)
TidsToCome ==
  \A k \in 1..Len(down[Sender]), t \in Tid : GivesTid(down[Sender][k], t) =>
    /\ xfer[t].from = Sender /\ Due(t, Behind(Sender, k)) /\ sSend.tid # t
    /\ \A m \in Behind(Sender, k) : ~GivesTid(m, t)

(* The send task is owed an answer, or its transfer goes on. *)
SendTaskOwed ==
  /\ sSend.tid \in Tid => sSend.tid \in Transfers /\ xfer[sSend.tid].from = Sender
  /\ sSend.state = "PENDING_TID" =>
       \/ \E f \in Frames(Sender) : f.type = "INIT"
       \/ \E m \in Messages(Sender), t \in Tid : GivesTid(m, t)
  /\ sSend.state = "PENDING" => Due(sSend.tid, Messages(Sender))
  /\ sSend.state \in {"ACTIVE", "DONE"} =>
       xfer[sSend.tid].state = "active" \/ Ending(sSend.tid, Messages(Sender))
  /\ sSend.state = "WAIT_COMPLETE" =>
       \/ \E f \in Frames(Sender) : f.type = "COMPLETE" /\ f.tid = sSend.tid
       \/ \E m \in Messages(Sender) : Ends(m, sSend.tid) \/ Refuses(m) \/ Completes(m, sSend.tid)

(* The sender's transfers that are not over have its task, or will. *)
TransfersHeld ==
  ~orphaned => \A t \in Transfers : xfer[t].state # "over" /\ xfer[t].from = Sender =>
    \/ sSend.tid = t
    \/ \E m \in Messages(Sender) : GivesTid(m, t)
    \/ \E f \in Frames(Sender) : f.type = "CANCEL" /\ f.tid = t

(* A frame of the receiver is the last it does with a transfer, but for ACCEPT. *)
ReceiverFrames ==
  \A f \in Frames(Receiver) :
    /\ f.tid \in rKnown
    /\ \A i \in RecvTasks(f.tid) : f.type = "ACCEPT" /\ rRecv[i].open

(* A receive task goes with its transfer, or the end of it is to come. *)
ReceiverTasks ==
  \A i \in 1..RecvSlots : rRecv[i].busy =>
    \/ /\ xfer[rRecv[i].tid].state = "pending"
       /\ rRecv[i].open => \E f \in Frames(Receiver) : f.type = "ACCEPT" /\ f.tid = rRecv[i].tid
    \/ xfer[rRecv[i].tid].state = "active" /\ rRecv[i].open
    \/ Closing(rRecv[i].tid, Messages(Receiver))

OffersStand ==
  \A k \in Offers : xfer[OfferAt(k)].state = "pending" \/ Closing(OfferAt(k), Behind(Receiver, k))

SenderEnds   == SenderFrames /\ SenderMessages /\ TidsToCome /\ SendTaskOwed /\ TransfersHeld
ReceiverEnds == ReceiverFrames /\ ReceiverTasks /\ OffersStand

NothingYet == sPhase = "login" => Transfers = {}

EndsInv == NothingYet /\ (Together => SenderEnds /\ ReceiverEnds)
=============================================================================
