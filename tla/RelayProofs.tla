---------------------------- MODULE RelayProofs -----------------------------
(***************************************************************************)
(* Two clients and the server: what is under way between them agrees with  *)
(* what they know, for any number of slots, transfers and files, and       *)
(* together they keep the promise of Delivery.                             *)
(***************************************************************************)
EXTENDS RelayClientProofs, FiniteSetTheorems

-----------------------------------------------------------------------------
(* The server takes a step. *)

AllInv == SenderInv /\ ReceiverInv /\ RelayInv

XferType == [Tid -> [state : {"none", "pending", "active", "over"},
                     file : File \cup {NoFile}, from : {Sender, Stranger}]]

ServerFrame == SenderIdle /\ ReceiverIdle /\ UNCHANGED <<receiverHistory, senderHistory>>

LEMMA ServerStep ==
  ASSUME AllInv, ServerFrame, FilesKept, xfer' \in XferType, online' \subseteq online, MessagesTyped',
         Paired', OfferedOnce', HeadKept \/ rPhase = "closed", Sending',
         online = {} => \A c \in {Sender, Receiver} :
                          up[c] = <<>> /\ down[c] = <<>> => up'[c] = <<>> /\ down'[c] = <<>>
  PROVE  AllInv'
<1>1. /\ sOut' = {} /\ rOut' = {} /\ UNCHANGED senderVars /\ UNCHANGED receiverVars
      /\ UNCHANGED receiverHistory /\ UNCHANGED senderHistory
  BY DEF ServerFrame, SenderIdle, ReceiverIdle
<1>2. SenderInv' /\ ReceiverInv'
  BY <1>1, SenderStays, ReceiverStays DEF AllInv
<1>3. Receipt'
  BY <1>1, ReceiptKept DEF AllInv, RelayInv, senderHistory
<1>4. ServerTypeOK'
  BY <1>1 DEF AllInv, RelayInv, Wires, ServerTypeOK, XferType, receiverHistory, senderHistory
<1>5. Roles'
  BY <1>1 DEF AllInv, RelayInv, Wires, Roles, senderVars, receiverVars
<1>6. BeforeLogin'
  <2>1. UNCHANGED <<sPhase, rPhase, sSend, rRecv>>
    BY <1>1 DEF senderVars, receiverVars
  <2> QED BY <2>1 DEF AllInv, RelayInv, Wires, BeforeLogin
<1> QED BY <1>2, <1>3, <1>4, <1>5, <1>6 DEF AllInv, RelayInv, Wires

(* Messages of the kind P, or none, go to a client that is there. *)
Hears(c, P) ==
  \/ down'[c] = down[c]
  \/ c \in online /\ \E more \in Seq(P) : down'[c] = down[c] \o more

FitPlain ==
  {m \in PlainToReceiver : m.type = "CHUNK" /\ ~orphaned => m.tid \in Transfers /\ xfer[m.tid].file = m.file}

LEMMA ToldBoth ==
  ASSUME NEW P, NEW Q, NEW a \in Seq(P), NEW b \in Seq(Q), Tell(a, b)
  PROVE  DOMAIN down' = {Sender, Receiver} /\ Hears(Sender, P) /\ Hears(Receiver, Q)
<1>1. DOMAIN down' = {Sender, Receiver}
  BY DEF Tell
<1>2. down'[Sender] = IF Sender \notin online THEN down[Sender] ELSE down[Sender] \o a
  BY DEF Tell
<1>3. down'[Receiver] = IF Receiver \notin online THEN down[Receiver] ELSE down[Receiver] \o b
  BY RelayAssumption DEF Tell
<1> QED BY <1>1, <1>2, <1>3 DEF Hears

LEMMA PlainHeard ==
  ASSUME MessagesTyped, Hears(Sender, PlainToSender)
  PROVE  down'[Sender] \in Seq(ToSender) /\ NoAnswerComes
<1>1. down[Sender] \in Seq(ToSender)
  BY SenderQueue
<1>2. CASE down'[Sender] = down[Sender]
  BY <1>1, <1>2 DEF NoAnswerComes
<1>3. ASSUME NEW more \in Seq(PlainToSender), down'[Sender] = down[Sender] \o more
      PROVE  down'[Sender] \in Seq(ToSender) /\ NoAnswerComes
  <2>1. PlainToSender \in SUBSET ToSender
    BY DEF PlainToSender
  <2>2. /\ down'[Sender] \in Seq(ToSender)
        /\ \A k \in 1..Len(down[Sender]) : down'[Sender][k] = down[Sender][k]
        /\ \A k \in 1..Len(down'[Sender]) : k \notin 1..Len(down[Sender]) => down'[Sender][k] \in PlainToSender
    BY <1>1, <1>3, <2>1, Grown
  <2>3. \A m \in PlainToSender : ~IsAnswer(m)
    BY DEF PlainToSender
  <2> QED BY <2>2, <2>3 DEF NoAnswerComes
<1> QED BY <1>2, <1>3 DEF Hears

LEMMA PlainQueued ==
  ASSUME MessagesTyped, Paired, OfferedOnce, FilesKept, rKnown' = rKnown, Hears(Receiver, FitPlain)
  PROVE  /\ Paired' /\ OfferedOnce' /\ HeadKept
         /\ down'[Receiver] \in Seq(ToReceiver) /\ FitChunks
<1>1. down[Receiver] \in Seq(ToReceiver)
  BY ReceiverQueue
<1>2. PICK more \in Seq(FitPlain) : down'[Receiver] = down[Receiver] \o more
  <2>1. down[Receiver] = down[Receiver] \o <<>> /\ <<>> \in Seq(FitPlain)
    BY <1>1, ConcatEmptySeq
  <2> QED BY <2>1 DEF Hears
<1>3. FitPlain \in SUBSET PlainToReceiver /\ FitPlain \in SUBSET ToReceiver
  BY DEF FitPlain, PlainToReceiver
<1>4. more \in Seq(PlainToReceiver)
  BY <1>3, SeqMonotonic
<1>5. Paired' /\ OfferedOnce' /\ HeadKept
  BY <1>2, <1>4, QueueGrows
<1>6. /\ down'[Receiver] \in Seq(ToReceiver)
      /\ \A k \in 1..Len(down[Receiver]) : down'[Receiver][k] = down[Receiver][k]
      /\ \A k \in 1..Len(down'[Receiver]) : k \notin 1..Len(down[Receiver]) => down'[Receiver][k] \in FitPlain
  BY <1>1, <1>2, <1>3, Grown
<1>7. FitChunks
  <2>1. \A m \in FitPlain : m.type = "CHUNK" /\ ~orphaned => m.tid \in Transfers /\ xfer[m.tid].file = m.file
    BY DEF FitPlain
  <2> QED BY <1>6, <2>1 DEF FitChunks
<1> QED BY <1>5, <1>6, <1>7

(* A frame is taken, or none. *)
Takes(c) ==
  \E i \in 1..Len(up[c]) : \E f \in up[c][i] : up' = [up EXCEPT ![c] = Without(@, i, f)]

Takings == up' = up \/ \E c \in {Sender, Receiver} : Takes(c)

LEMMA TakenUp ==
  ASSUME MessagesTyped, Takings
  PROVE  /\ DOMAIN up' = {Sender, Receiver} /\ up'[Sender] \in Seq(SUBSET FromSender)
         /\ up'[Receiver] \in Seq(SUBSET FromReceiver) /\ Fewer
         /\ \A c \in {Sender, Receiver} : up[c] = <<>> => up'[c] = <<>>
<1>0. /\ DOMAIN up = {Sender, Receiver} /\ up[Sender] \in Seq(SUBSET FromSender)
      /\ up[Receiver] \in Seq(SUBSET FromReceiver)
  BY DEF MessagesTyped
<1>1. CASE up' = up
  BY <1>0, <1>1, SameFewer
<1>2. ASSUME NEW c \in {Sender, Receiver}, NEW i \in 1..Len(up[c]), NEW f \in up[c][i],
             up' = [up EXCEPT ![c] = Without(@, i, f)]
      PROVE  /\ DOMAIN up' = {Sender, Receiver} /\ up'[Sender] \in Seq(SUBSET FromSender)
             /\ up'[Receiver] \in Seq(SUBSET FromReceiver) /\ Fewer
             /\ \A d \in {Sender, Receiver} : up[d] = <<>> => up'[d] = <<>>
  <2>1. /\ up'[c] = Without(up[c], i, f) /\ DOMAIN up' = {Sender, Receiver}
        /\ \A d \in {Sender, Receiver} : d # c => up'[d] = up[d]
    BY <1>0, <1>2
  <2>2. up[c] # <<>>
    BY <1>2
  <2>3. CASE c = Sender
    <3>1. up'[Sender] = Without(up[Sender], i, f)
      BY <2>1, <2>3
    <3>2. i \in 1..Len(up[Sender]) /\ f \in up[Sender][i]
      BY <1>2, <2>3
    <3>3. up'[Sender] \in Seq(SUBSET FromSender) /\ Fewer
      BY <3>1, <3>2, TakenFromSender, TakenFewer
    <3> QED BY <1>0, <2>1, <2>2, <2>3, <3>3, RelayAssumption
  <2>4. CASE c = Receiver
    <3>1. up'[Receiver] = Without(up[Receiver], i, f)
      BY <2>1, <2>4
    <3>2. i \in 1..Len(up[Receiver]) /\ f \in up[Receiver][i]
      BY <1>2, <2>4
    <3>3. Without(up[Receiver], i, f) \in Seq(SUBSET FromReceiver)
      BY <1>0, <3>2, TakenFrom
    <3>4. up'[Sender] = up[Sender]
      BY <2>1, <2>4, RelayAssumption
    <3> QED BY <1>0, <2>1, <2>2, <2>4, <3>1, <3>3, <3>4, SameFewer
  <2> QED BY <2>3, <2>4
<1> QED BY <1>1, <1>2 DEF Takings, Takes

LEMMA PlainStep ==
  ASSUME AllInv, ServerFrame, FilesKept, xfer' \in XferType, online' \subseteq online, Takings,
         DOMAIN down' = {Sender, Receiver}, Hears(Sender, PlainToSender), Hears(Receiver, FitPlain)
  PROVE  AllInv'
<1>1. MessagesTyped /\ Paired /\ OfferedOnce /\ Sending
  BY DEF AllInv, RelayInv, Wires, Receipt
<1>2. rKnown' = rKnown /\ SenderSame
  BY DEF ServerFrame, ReceiverIdle, SenderIdle, receiverVars, senderVars, SenderSame, senderHistory
<1>3. /\ Paired' /\ OfferedOnce' /\ HeadKept
      /\ down'[Receiver] \in Seq(ToReceiver) /\ FitChunks
  BY <1>1, <1>2, PlainQueued
<1>4. down'[Sender] \in Seq(ToSender) /\ NoAnswerComes
  BY <1>1, PlainHeard
<1>5. /\ DOMAIN up' = {Sender, Receiver} /\ up'[Sender] \in Seq(SUBSET FromSender)
      /\ up'[Receiver] \in Seq(SUBSET FromReceiver) /\ Fewer
      /\ \A c \in {Sender, Receiver} : up[c] = <<>> => up'[c] = <<>>
  BY <1>1, TakenUp
<1>6. Sending'
  BY <1>1, <1>2, <1>3, <1>4, <1>5, SendingKept
<1>7. MessagesTyped'
  BY <1>3, <1>4, <1>5 DEF MessagesTyped
<1>8. online = {} => \A c \in {Sender, Receiver} :
                          up[c] = <<>> /\ down[c] = <<>> => up'[c] = <<>> /\ down'[c] = <<>>
  BY <1>5 DEF Hears
<1> QED BY <1>3, <1>6, <1>7, <1>8, ServerStep

(* The messages of the server. *)

LEMMA PlainAnnouncements ==
  ASSUME NEW t \in Tid, NEW file \in Offered
  PROVE  /\ Announce(S!CompleteText(t, file)) \in PlainToSender
         /\ Announce(S!AcceptedText(t, Receiver)) \in PlainToSender
         /\ Announce(S!RejectedText(t, Receiver)) \in PlainToSender
         /\ Announce(S!CancelledText(t, Receiver)) \in PlainToSender
         /\ Announce(S!DisconnectedText(t, Receiver)) \in PlainToSender
<1>1. file \in File
  BY InitParts
<1>2. \A text : Announce(text).type = "SERVER_MSG" /\ Announce(text).text = text
  BY DEF Announce
<1>3. \A text \in SenderTexts : ~Waiting(text) => Announce(text) \in PlainToSender
  BY <1>2, AnswerKinds DEF PlainToSender, ToSender
<1>4. /\ ~Waiting(S!CompleteText(t, file)) /\ ~Waiting(S!AcceptedText(t, Receiver))
      /\ ~Waiting(S!RejectedText(t, Receiver)) /\ ~Waiting(S!CancelledText(t, Receiver))
      /\ ~Waiting(S!DisconnectedText(t, Receiver))
  BY <1>1, TextPhrases
<1>5. S!CompleteText(t, file) \in SenderTexts
  BY DEF SenderTexts
<1>6. {S!AcceptedText(t, Receiver), S!RejectedText(t, Receiver), S!CancelledText(t, Receiver),
       S!DisconnectedText(t, Receiver)} \subseteq SenderTexts
  BY DEF SenderTexts
<1> QED BY <1>3, <1>4, <1>5, <1>6

LEMMA PlainFrames ==
  ASSUME NEW t \in Tid
  PROVE  /\ [type |-> "ACCEPT", tid |-> t] \in PlainToSender
         /\ [type |-> "REJECT", tid |-> t] \in PlainToSender
         /\ [type |-> "CANCEL", tid |-> t] \in PlainToSender
         /\ Error(300, t) \in PlainToSender /\ Error(200, 1) \in PlainToSender
<1>1. /\ [type |-> "ACCEPT", tid |-> t] \in ToSender
      /\ [type |-> "REJECT", tid |-> t] \in ToSender
      /\ [type |-> "CANCEL", tid |-> t] \in ToSender
      /\ Error(300, t) \in ToSender /\ Error(200, 1) \in ToSender
  BY DEF ToSender
<1>2. \A m : m.type \in {"ACCEPT", "REJECT", "CANCEL"} => ~IsAnswer(m)
  BY AnswerKinds
<1>3. ~IsAnswer(Error(300, t)) /\ ~IsAnswer(Error(200, 1))
  BY AnswerKinds DEF Error
<1> QED BY <1>1, <1>2, <1>3 DEF PlainToSender

LEMMA AnswerMessages ==
  ASSUME NEW t \in Tid, NEW file \in SendFiles
  PROVE  /\ Announce(S!WaitingText(t, file, Receiver)) \in ToSender
         /\ Announce(S!WaitingText(t, file, Receiver)).type = "SERVER_MSG"
         /\ Announce(S!WaitingText(t, file, Receiver)).text.digits[1] = t
         /\ Error(200, 0) \in ToSender /\ Error(200, 0).type # "SERVER_MSG"
<1>1. S!WaitingText(t, file, Receiver) \in SenderTexts
  BY DEF SenderTexts
<1>2. \A text : Announce(text).type = "SERVER_MSG" /\ Announce(text).text = text
  BY DEF Announce
<1>3. S!WaitingText(t, file, Receiver).digits = <<t>>
  BY TextParts, Zenon DEF HasParts
<1> QED BY <1>1, <1>2, <1>3 DEF ToSender, Error

LEMMA FitAnnouncements ==
  ASSUME NEW t \in Tid, NEW file \in Offered, NEW from \in {Sender, Stranger}
  PROVE  /\ Announce(S!CompleteText(t, file)) \in FitPlain
         /\ Announce(S!CancelledText(t, from)) \in FitPlain
         /\ Announce(S!DisconnectedText(t, Sender)) \in FitPlain
<1>2. \A text : Announce(text).type = "SERVER_MSG" /\ Announce(text).text = text
  BY DEF Announce
<1>3. \A text \in ReceiverTexts : text.head # OfferHead => Announce(text) \in FitPlain
  BY <1>2, OfferKinds DEF FitPlain, PlainToReceiver, ToReceiver
<1>4. /\ S!CompleteText(t, file).head # OfferHead /\ S!CancelledText(t, from).head # OfferHead
      /\ S!DisconnectedText(t, Sender).head # OfferHead
  BY TextParts, Heads, Zenon DEF HasParts, PlainHead, OfferHead
<1>5. S!CompleteText(t, file) \in ReceiverTexts /\ S!CancelledText(t, from) \in ReceiverTexts
      /\ S!DisconnectedText(t, Sender) \in ReceiverTexts
  BY DEF ReceiverTexts
<1> QED BY <1>3, <1>4, <1>5

LEMMA FitFrames ==
  ASSUME NEW t \in Tid
  PROVE  /\ [type |-> "CANCEL", tid |-> t] \in FitPlain
         /\ [type |-> "COMPLETE", tid |-> t] \in FitPlain
         /\ Error(300, t) \in FitPlain
<1>1. /\ [type |-> "CANCEL", tid |-> t] \in ToReceiver
      /\ [type |-> "COMPLETE", tid |-> t] \in ToReceiver
      /\ Error(300, t) \in ToReceiver
  BY DEF ToReceiver
<1>2. Error(300, t).type = "ERROR"
  BY DEF Error
<1> QED BY <1>1, <1>2, OfferKinds DEF FitPlain, PlainToReceiver

LEMMA FitChunk ==
  ASSUME NEW file \in Offered, NEW f \in ChunkIn(file),
         ~orphaned => f.tid \in Transfers /\ xfer[f.tid].file = f.file
  PROVE  f \in FitPlain
<1>1. f \in ToReceiver
  BY DEF ToReceiver
<1>2. f.type = "CHUNK"
  BY DEF ChunkIn
<1> QED BY <1>1, <1>2, OfferKinds DEF FitPlain, PlainToReceiver

LEMMA OfferMessages ==
  ASSUME NEW t \in Tid, NEW file \in Offered, NEW from \in {Sender, Stranger}
  PROVE  LET m == Announce(S!IncomingText(t, file, from))
         IN  /\ m \in ToReceiver /\ IsOffer(m) /\ m.type # "INIT" /\ m.text.digits[1] = t
             /\ InitTo(file) \in ToReceiver /\ InitTo(file).type = "INIT"
<1>1. S!IncomingText(t, file, from) \in ReceiverTexts
  BY DEF ReceiverTexts
<1>2. \A text : Announce(text).type = "SERVER_MSG" /\ Announce(text).text = text
  BY DEF Announce
<1>3. S!IncomingText(t, file, from).digits = <<t>> /\ S!IncomingText(t, file, from).head = OfferHead
  <2>1. HasParts(S!IncomingText(t, file, from), t, OfferHead)
    BY TextParts, Zenon DEF OfferHead
  <2> QED BY <2>1, Zenon DEF HasParts
<1> DEFINE m == Announce(S!IncomingText(t, file, from))
<1>4. m \in ToReceiver /\ InitTo(file) \in ToReceiver
  BY <1>1 DEF ToReceiver
<1>5. IsOffer(m)
  BY <1>2, <1>3, OfferKinds
<1>6. m.text.digits[1] = t
  BY <1>2, <1>3
<1>7. InitTo(file).type = "INIT" /\ m.type # "INIT"
  BY <1>2 DEF InitTo
<1> QED BY <1>4, <1>5, <1>6, <1>7

LEMMA ToldOne ==
  ASSUME MessagesTyped, NEW c, NEW a, TellOne(c, a), c = Sender => a \in Seq(PlainToSender),
         c = Receiver => a \in Seq(FitPlain)
  PROVE  /\ DOMAIN down' = {Sender, Receiver}
         /\ Hears(Sender, PlainToSender) /\ Hears(Receiver, FitPlain)
<1>1. <<>> \in Seq(PlainToSender) /\ <<>> \in Seq(FitPlain)
  OBVIOUS
<1>2. CASE c = Sender
  BY <1>1, <1>2, ToldBoth DEF TellOne
<1>3. CASE c = Receiver
  <2>1. c # Sender
    BY <1>3, RelayAssumption
  <2>2. Tell(<<>>, a) /\ a \in Seq(FitPlain)
    BY <1>3, <2>1 DEF TellOne
  <2> QED BY <1>1, <2>2, ToldBoth
<1>4. CASE c \notin {Sender, Receiver}
  <2>1. UNCHANGED down
    BY <1>4 DEF TellOne
  <2> QED BY <2>1 DEF Hears, MessagesTyped
<1> QED BY <1>2, <1>3, <1>4

LEMMA SameDown ==
  ASSUME MessagesTyped, UNCHANGED down
  PROVE  /\ DOMAIN down' = {Sender, Receiver}
         /\ Hears(Sender, PlainToSender) /\ Hears(Receiver, FitPlain)
BY DEF Hears, MessagesTyped

(* The server's record of a transfer. *)
LEMMA TransferFacts ==
  ASSUME AllInv
  PROVE  /\ xfer \in XferType
         /\ \A t \in Tid : xfer[t].state # "none" => t \in Transfers /\ xfer[t].file \in Offered
BY DEF AllInv, RelayInv, Wires, ServerTypeOK, XferType, Receipt, KnownTransfers, Transfers

LEMMA SameFiles == ASSUME AllInv, xfer' = xfer PROVE FilesKept /\ xfer' \in XferType
BY TransferFacts DEF FilesKept, Transfers

LEMMA NewState ==
  ASSUME AllInv, NEW t \in Tid, xfer[t].state # "none", NEW state \in {"active", "over"}, Becomes(t, state)
  PROVE  FilesKept /\ xfer' \in XferType
<1>1. xfer \in XferType
  BY TransferFacts
<1>2. /\ xfer' \in XferType /\ xfer'[t].state = state /\ xfer'[t].file = xfer[t].file
      /\ \A u \in Tid : u # t => xfer'[u] = xfer[u]
  BY <1>1 DEF Becomes, XferType
<1>3. \A u \in Transfers' : u \in Transfers /\ xfer'[u].file = xfer[u].file
  BY <1>2 DEF Transfers
<1>4. \A u \in Transfers : u \in Transfers' /\ xfer'[u].file = xfer[u].file
  BY <1>2 DEF Transfers
<1> QED BY <1>2, <1>3, <1>4, TransferFacts DEF FilesKept, Transfers

-----------------------------------------------------------------------------
(* The server serves a frame: all of it but the offer of a file. *)
Served ==
  /\ FilesKept /\ xfer' \in XferType
  /\ DOMAIN down' = {Sender, Receiver} /\ Hears(Sender, PlainToSender) /\ Hears(Receiver, FitPlain)

LEMMA TwoMessages ==
  ASSUME NEW P, NEW a \in P, NEW b \in P PROVE <<a, b>> \in Seq(P) /\ <<a>> \in Seq(P)
OBVIOUS

LEMMA ServedOne ==
  ASSUME AllInv, FilesKept, xfer' \in XferType, NEW c, NEW a, TellOne(c, a),
         c = Sender => a \in Seq(PlainToSender), c = Receiver => a \in Seq(FitPlain)
  PROVE  Served
<1>1. MessagesTyped
  BY DEF AllInv, RelayInv, Wires
<1> QED BY <1>1, ToldOne DEF Served

LEMMA ServedMisfit ==
  ASSUME AllInv, NEW c, NEW tid \in Tid, Misfit(c, tid) PROVE Served
<1>1. <<Error(300, tid)>> \in Seq(PlainToSender) /\ <<Error(300, tid)>> \in Seq(FitPlain)
  BY PlainFrames, FitFrames, TwoMessages
<1>2. TellOne(c, <<Error(300, tid)>>) /\ xfer' = xfer
  BY DEF Misfit
<1>3. FilesKept /\ xfer' \in XferType
  BY <1>2, SameFiles
<1> QED BY <1>1, <1>2, <1>3, ServedOne

LEMMA Peer == ASSUME AllInv, NEW t \in Tid PROVE xfer[t].from \in {Sender, Stranger} /\ xfer[t].from # Receiver
BY TransferFacts, RelayAssumption DEF XferType

LEMMA ServedAccept ==
  ASSUME AllInv, NEW tid \in Tid, ServeAccept(tid) PROVE Served
<1>1. CASE StateOf(tid) = "pending"
  <2>1. Becomes(tid, "active") /\ xfer[tid].state # "none"
    BY <1>1 DEF ServeAccept, StateOf
  <2>2. FilesKept /\ xfer' \in XferType
    BY <2>1, NewState
  <2>3. TellOne(xfer[tid].from, <<Announce(S!AcceptedText(tid, Receiver)), [type |-> "ACCEPT", tid |-> tid]>>)
    BY <1>1 DEF ServeAccept
  <2>4. PICK file : file \in Offered
    BY <2>1, TransferFacts
  <2>5. <<Announce(S!AcceptedText(tid, Receiver)), [type |-> "ACCEPT", tid |-> tid]>> \in Seq(PlainToSender)
    BY <2>4, PlainAnnouncements, PlainFrames, TwoMessages
  <2> QED BY <2>2, <2>3, <2>5, Peer, ServedOne
<1>2. CASE StateOf(tid) # "pending"
  BY <1>2, ServedMisfit DEF ServeAccept
<1> QED BY <1>1, <1>2

LEMMA ServedReject ==
  ASSUME AllInv, NEW tid \in Tid, ServeReject(tid) PROVE Served
<1>1. CASE StateOf(tid) = "pending"
  <2>1. Becomes(tid, "over") /\ xfer[tid].state # "none"
    BY <1>1 DEF ServeReject, StateOf
  <2>2. FilesKept /\ xfer' \in XferType
    BY <2>1, NewState
  <2>3. TellOne(xfer[tid].from, <<Announce(S!RejectedText(tid, Receiver)), [type |-> "REJECT", tid |-> tid]>>)
    BY <1>1 DEF ServeReject
  <2>4. PICK file : file \in Offered
    BY <2>1, TransferFacts
  <2>5. <<Announce(S!RejectedText(tid, Receiver)), [type |-> "REJECT", tid |-> tid]>> \in Seq(PlainToSender)
    BY <2>4, PlainAnnouncements, PlainFrames, TwoMessages
  <2> QED BY <2>2, <2>3, <2>5, Peer, ServedOne
<1>2. CASE StateOf(tid) # "pending"
  BY <1>2, ServedMisfit DEF ServeReject
<1> QED BY <1>1, <1>2

LEMMA ServedCancel ==
  ASSUME AllInv, NEW c \in {Sender, Receiver, Stranger}, NEW tid, ServeCancel(c, tid) PROVE Served
<1>0. MessagesTyped
  BY DEF AllInv, RelayInv, Wires
<1>1. CASE StateOf(tid) \in {"pending", "active"}
  <2>0. tid \in Tid
    BY <1>1 DEF StateOf
  <2>1. Becomes(tid, "over") /\ xfer[tid].state # "none"
    BY <1>1 DEF ServeCancel, StateOf
  <2>2. FilesKept /\ xfer' \in XferType
    BY <2>0, <2>1, NewState
  <2> DEFINE told == <<Announce(S!CancelledText(tid, c)), [type |-> "CANCEL", tid |-> tid]>>
  <2>3. TellOne(OtherSide(c, tid), told)
    BY <1>1 DEF ServeCancel
  <2>4. PICK file : file \in Offered
    BY <2>0, <2>1, TransferFacts
  <2>5. c = Receiver => told \in Seq(PlainToSender)
    BY <2>0, <2>4, PlainAnnouncements, PlainFrames, TwoMessages
  <2>6. c \in {Sender, Stranger} => told \in Seq(FitPlain)
    BY <2>0, <2>4, FitAnnouncements, FitFrames, TwoMessages
  <2> HIDE DEF told
  <2>7. c = Receiver => OtherSide(c, tid) # Receiver
    BY <2>0, Peer DEF OtherSide
  <2>8. c # Receiver => OtherSide(c, tid) = Receiver /\ OtherSide(c, tid) # Sender
    BY RelayAssumption DEF OtherSide
  <2> QED BY <2>2, <2>3, <2>5, <2>6, <2>7, <2>8, ServedOne
<1>2. CASE StateOf(tid) \notin {"pending", "active"}
  <2>1. UNCHANGED <<xfer, down>>
    BY <1>2 DEF ServeCancel
  <2> QED BY <1>0, <2>1, SameFiles, SameDown DEF Served
<1> QED BY <1>1, <1>2

LEMMA ServedChunk ==
  ASSUME AllInv, NEW i \in 1..Len(up[Sender]), NEW f \in up[Sender][i], NEW file \in Offered,
         f \in ChunkIn(file), ServeChunk(f)
  PROVE  Served
<1>0. MessagesTyped /\ FileOfTid
  BY DEF AllInv, RelayInv, Wires, Sending
<1>1. f.tid \in Tid /\ f.type = "CHUNK"
  BY ChunkParts
<1>2. CASE StateOf(f.tid) = "active"
  <2>1. xfer' = xfer /\ (Tell(<<>>, <<f>>) \/ UNCHANGED down)
    BY <1>2 DEF ServeChunk
  <2>2. f \in FitPlain
    BY <1>0, <1>1, FitChunk DEF FileOfTid
  <2>3. <<>> \in Seq(PlainToSender) /\ <<f>> \in Seq(FitPlain)
    BY <2>2, TwoMessages
  <2>4. FilesKept /\ xfer' \in XferType
    BY <2>1, SameFiles
  <2>5. CASE Tell(<<>>, <<f>>)
    BY <2>3, <2>4, <2>5, ToldBoth DEF Served
  <2>6. CASE UNCHANGED down
    BY <1>0, <2>4, <2>6, SameDown DEF Served
  <2> QED BY <2>1, <2>5, <2>6
<1>3. CASE StateOf(f.tid) # "active"
  <2>1. Misfit(Sender, f.tid)
    BY <1>3 DEF ServeChunk
  <2> QED BY <1>1, <2>1, ServedMisfit
<1> QED BY <1>2, <1>3

LEMMA ServedComplete ==
  ASSUME AllInv, NEW tid \in Tid, ServeComplete(tid) PROVE Served
<1>1. CASE StateOf(tid) = "active"
  <2>1. Completed(tid) /\ xfer[tid].state # "none"
    BY <1>1 DEF ServeComplete, StateOf
  <2>2. FilesKept /\ xfer' \in XferType
    BY <2>1, NewState DEF Completed
  <2>3. PICK file : file \in Offered /\ file = xfer[tid].file
    BY <2>1, TransferFacts
  <2> DEFINE toSender == IF xfer[tid].from = Sender THEN <<Announce(S!CompleteText(tid, xfer[tid].file))>> ELSE <<>>
             toReceiver == <<Announce(S!CompleteText(tid, xfer[tid].file)), [type |-> "COMPLETE", tid |-> tid]>>
  <2>4. toSender \in Seq(PlainToSender)
    BY <2>3, PlainAnnouncements, TwoMessages
  <2>5. toReceiver \in Seq(FitPlain)
    BY <2>3, FitAnnouncements, FitFrames, TwoMessages
  <2>6. Tell(toSender, toReceiver)
    BY <2>1 DEF Completed
  <2> HIDE DEF toSender, toReceiver
  <2> QED BY <2>2, <2>4, <2>5, <2>6, ToldBoth DEF Served
<1>2. CASE StateOf(tid) # "active"
  BY <1>2, ServedMisfit DEF ServeComplete
<1> QED BY <1>1, <1>2

-----------------------------------------------------------------------------
(* The server numbers a transfer. *)
Renews(t, file) ==
  /\ FilesKept /\ xfer' \in XferType
  /\ t \in Transfers' /\ t \notin Transfers /\ xfer'[t].file = file

LEMMA Numbering ==
  ASSUME AllInv, NEW t \in Unnumbered, NEW file \in Offered, NEW from \in {Sender, Stranger},
         xfer' = [xfer EXCEPT ![t] = [state |-> "pending", file |-> file, from |-> from]]
  PROVE  Renews(t, file)
<1>1. t \in Tid /\ xfer[t].state = "none"
  BY DEF Unnumbered
<1>2. xfer \in XferType /\ file \in File
  BY TransferFacts, InitParts
<1>3. /\ xfer' \in XferType /\ xfer'[t].state = "pending" /\ xfer'[t].file = file
      /\ \A u \in Tid : u # t => xfer'[u] = xfer[u]
  BY <1>1, <1>2 DEF XferType
<1>4. t \in Transfers' /\ t \notin Transfers
  BY <1>1, <1>3 DEF Transfers
<1>5. \A u \in Transfers : u \in Transfers' /\ xfer'[u].file = xfer[u].file
  BY <1>1, <1>3 DEF Transfers
<1>6. \A u \in Transfers' : u = t \/ (u \in Transfers /\ xfer'[u].file = xfer[u].file)
  BY <1>3 DEF Transfers
<1>7. \A u \in Transfers' : xfer'[u].file \in Offered
  <2>1. \A u \in Transfers : xfer[u].file \in Offered
    BY DEF AllInv, RelayInv, Receipt, KnownTransfers
  <2> QED BY <1>3, <1>6, <2>1
<1> QED BY <1>3, <1>4, <1>5, <1>7 DEF Renews, FilesKept

(* Both are told of it, each in its queue. *)
OfferQueued(t, file, from) ==
  /\ Renews(t, file) /\ Paired' /\ OfferedOnce' /\ HeadKept
  /\ DOMAIN down' = {Sender, Receiver} /\ down'[Receiver] \in Seq(ToReceiver) /\ FitChunks
  /\ \/ down'[Sender] = down[Sender]
     \/ from = Sender /\ down'[Sender] = down[Sender] \o <<Announce(S!WaitingText(t, file, Receiver))>>

LEMMA Queued ==
  ASSUME AllInv, ServerFrame, Receiver \in online, NEW t \in Tid, NEW file \in Offered,
         NEW from \in {Sender, Stranger}, Renews(t, file),
         Tell(IF from = Sender THEN <<Announce(S!WaitingText(t, file, Receiver))>> ELSE <<>>,
              <<Announce(S!IncomingText(t, file, from)), InitTo(file)>>)
  PROVE  OfferQueued(t, file, from)
<1> DEFINE m == Announce(S!IncomingText(t, file, from))
           n == Announce(S!WaitingText(t, file, Receiver))
<1>1. /\ MessagesTyped /\ Paired /\ OfferedOnce /\ rKnown \subseteq Transfers
      /\ rKnown' = rKnown
  BY DEF AllInv, RelayInv, Wires, Receipt, KnownTransfers, ServerFrame, ReceiverIdle, receiverVars
<1>2. /\ m \in ToReceiver /\ IsOffer(m) /\ m.type # "INIT" /\ m.text.digits[1] = t
      /\ InitTo(file) \in ToReceiver /\ InitTo(file).type = "INIT"
  BY OfferMessages
<1>3. m.type = "SERVER_MSG"
  BY DEF Announce
<1> HIDE DEF m, n
<1>4. Tell(IF from = Sender THEN <<n>> ELSE <<>>, <<m, InitTo(file)>>)
  BY DEF m, n
<1>5. down[Receiver] \in Seq(ToReceiver) /\ down[Sender] \in Seq(ToSender)
  BY <1>1 DEF MessagesTyped
<1>6. DOMAIN down' = {Sender, Receiver} /\ down'[Receiver] = down[Receiver] \o <<m, InitTo(file)>>
  BY <1>4, RelayAssumption DEF Tell
<1>7. down'[Sender] = IF Sender \notin online THEN down[Sender]
                      ELSE down[Sender] \o (IF from = Sender THEN <<n>> ELSE <<>>)
  BY <1>4 DEF Tell
<1>8. down'[Sender] = down[Sender] \/ (from = Sender /\ down'[Sender] = down[Sender] \o <<n>>)
  <2>1. down[Sender] \o <<>> = down[Sender]
    BY <1>5, ConcatEmptySeq
  <2> QED BY <1>7, <2>1
<1>9. Paired' /\ OfferedOnce' /\ HeadKept
  BY <1>1, <1>2, <1>6, QueueOffers DEF Renews
<1>10. down'[Receiver] \in Seq(ToReceiver) /\ FitChunks
  <2> DEFINE q == down[Receiver] \o <<m, InitTo(file)>>
  <2>1. /\ q \in Seq(ToReceiver) /\ Len(q) = Len(down[Receiver]) + 2 /\ Len(down[Receiver]) \in Nat
        /\ \A k \in 1..Len(down[Receiver]) : q[k] = down[Receiver][k]
        /\ q[Len(down[Receiver]) + 1] = m /\ q[Len(down[Receiver]) + 2] = InitTo(file)
    BY <1>2, <1>5, TwoMore
  <2> HIDE DEF q
  <2>2. q = down'[Receiver]
    BY <1>6 DEF q
  <2>3. \A k \in 1..Len(q) : q[k].type = "CHUNK" => k \in 1..Len(down[Receiver])
    BY <1>2, <1>3, <2>1
  <2> QED BY <2>1, <2>2, <2>3 DEF FitChunks
<1> QED BY <1>6, <1>8, <1>9, <1>10 DEF OfferQueued, n

LEMMA Numbered ==
  ASSUME AllInv, ServerFrame, Receiver \in online, NEW file \in Offered, NEW from \in {Sender, Stranger},
         NumberTransfer(from, file)
  PROVE  \E t \in Tid : OfferQueued(t, file, from)
<1>1. PICK t \in Unnumbered :
        /\ xfer' = [xfer EXCEPT ![t] = [state |-> "pending", file |-> file, from |-> from]]
        /\ Tell(IF from = Sender THEN <<Announce(S!WaitingText(t, file, Receiver))>> ELSE <<>>,
                <<Announce(S!IncomingText(t, file, from)), InitTo(file)>>)
  BY DEF NumberTransfer
<1>2. t \in Tid
  BY DEF Unnumbered
<1>3. Renews(t, file)
  BY <1>1, Numbering
<1>4. OfferQueued(t, file, from)
  BY <1>1, <1>2, <1>3, Queued
<1> QED BY <1>2, <1>4

(* The sender's request is answered. *)
LEMMA InitServed ==
  ASSUME AllInv, ServerFrame, NEW i \in 1..Len(up[Sender]), NEW f \in up[Sender][i], f.type = "INIT",
         f.file \in SendFiles, up' = [up EXCEPT ![Sender] = Without(@, i, f)], online' = online,
         ServeInit(f)
  PROVE  AllInv'
<1>1. /\ MessagesTyped /\ Paired /\ OfferedOnce /\ Sending /\ f.file \in Offered
      /\ SenderSame /\ rKnown' = rKnown
  BY DEF AllInv, RelayInv, Wires, Receipt, Offered, ServerFrame, SenderIdle, ReceiverIdle, senderVars,
         receiverVars, senderHistory, SenderSame
<1>2. Takings /\ DOMAIN up = {Sender, Receiver}
  BY <1>1 DEF Takings, Takes, MessagesTyped
<1>3. /\ DOMAIN up' = {Sender, Receiver} /\ up'[Sender] \in Seq(SUBSET FromSender)
      /\ up'[Receiver] \in Seq(SUBSET FromReceiver)
  BY <1>1, <1>2, TakenUp
<1>4. up'[Sender] = Without(up[Sender], i, f) /\ up[Sender] # <<>>
  BY <1>2
<1> DEFINE Fine(m) ==
             /\ FilesKept /\ xfer' \in XferType /\ Paired' /\ OfferedOnce' /\ HeadKept
             /\ DOMAIN down' = {Sender, Receiver} /\ down'[Receiver] \in Seq(ToReceiver) /\ FitChunks
             /\ m \in ToSender /\ (down'[Sender] = down[Sender] \/ down'[Sender] = down[Sender] \o <<m>>)
             /\ m.type = "SERVER_MSG" => /\ m.text.digits[1] \in Transfers'
                                         /\ xfer'[m.text.digits[1]].file = f.file
             /\ Receiver \notin online => down'[Receiver] = down[Receiver]
<1>5. ASSUME Receiver \in online PROVE \E m : Fine(m)
  <2>1. PICK t \in Tid : OfferQueued(t, f.file, Sender)
    BY <1>1, <1>5, Numbered DEF ServeInit
  <2> DEFINE n == Announce(S!WaitingText(t, f.file, Receiver))
  <2>2. n \in ToSender /\ n.text.digits[1] = t
    BY AnswerMessages
  <2> HIDE DEF n
  <2>3. Fine(n)
    BY <1>5, <2>1, <2>2 DEF OfferQueued, Renews, n
  <2> QED BY <2>3
<1>6. ASSUME Receiver \notin online PROVE \E m : Fine(m)
  <2>1. Tell(<<Error(200, 0)>>, <<>>) /\ xfer' = xfer
    BY <1>6 DEF ServeInit
  <2>2. /\ DOMAIN down' = {Sender, Receiver} /\ down'[Receiver] = down[Receiver]
        /\ down'[Sender] = down[Sender] \/ down'[Sender] = down[Sender] \o <<Error(200, 0)>>
    BY <1>6, <2>1 DEF Tell
  <2>3. FilesKept /\ xfer' \in XferType
    BY <2>1, SameFiles
  <2>4. Paired' /\ OfferedOnce'
    BY <1>1, <2>1, <2>2, QueueSame
  <2>5. HeadKept /\ FitChunks
    BY <2>2 DEF HeadKept, FitChunks
  <2>6. down'[Receiver] \in Seq(ToReceiver)
    BY <1>1, <2>2 DEF MessagesTyped
  <2>8. Error(200, 0) \in ToSender /\ Error(200, 0).type # "SERVER_MSG"
    BY DEF ToSender, Error
  <2>9. Fine(Error(200, 0))
    BY <2>2, <2>3, <2>4, <2>5, <2>6, <2>8
  <2> QED BY <2>9
<1>7. ASSUME NEW m, Fine(m) PROVE AllInv'
  <2>1. Sending'
    BY <1>1, <1>4, <1>7, RequestServed
  <2>2. down'[Sender] \in Seq(ToSender)
    <3>1. down[Sender] \in Seq(ToSender) /\ <<m>> \in Seq(ToSender)
      BY <1>1, <1>7 DEF MessagesTyped
    <3> QED BY <1>7, <3>1, ConcatProperties
  <2>3. MessagesTyped'
    BY <1>3, <1>7, <2>2 DEF MessagesTyped
  <2>4. online = {} => \A c \in {Sender, Receiver} :
                          up[c] = <<>> /\ down[c] = <<>> => up'[c] = <<>> /\ down'[c] = <<>>
    BY <1>1, <1>2, <1>4, <1>7, TakenUp
  <2>5. online' \subseteq online
    OBVIOUS
  <2> QED BY <1>7, <2>1, <2>3, <2>4, <2>5, ServerStep
<1> QED BY <1>5, <1>6, <1>7

LEMMA FromSenderKinds ==
  ASSUME NEW f \in FromSender
  PROVE  \/ f.type = "INIT" /\ f.file \in SendFiles
         \/ f.type = "CANCEL"
         \/ f.type = "COMPLETE" /\ f.tid \in Tid
         \/ f.type = "CHUNK" /\ \E file \in Offered : f \in ChunkIn(file)
<1>1. CASE f \in {S!InitFrame(file) : file \in SendFiles}
  BY <1>1 DEF S!InitFrame
<1>2. CASE f \in [type : {"CANCEL"}, tid : Tid \cup {0}]
  BY <1>2
<1>3. CASE f \in [type : {"COMPLETE"}, tid : Tid]
  BY <1>3
<1>4. CASE f \in UNION {ChunkIn(file) : file \in SendFiles}
  <2>1. PICK file \in SendFiles : f \in ChunkIn(file)
    BY <1>4
  <2>2. file \in Offered /\ f.type = "CHUNK"
    BY <2>1 DEF Offered, ChunkIn
  <2> QED BY <2>1, <2>2
<1> QED BY <1>1, <1>2, <1>3, <1>4 DEF FromSender

LEMMA FrameServed ==
  ASSUME AllInv, ServerFrame, online' = online, NEW c \in {Sender, Receiver},
         NEW i \in 1..Len(up[c]), NEW f \in up[c][i],
         up' = [up EXCEPT ![c] = Without(@, i, f)], Serve(c, f)
  PROVE  AllInv'
<1>1. MessagesTyped /\ Takings /\ online' \subseteq online
  BY DEF AllInv, RelayInv, Wires, Takings, Takes
<1>2. Served => AllInv'
  BY <1>1, PlainStep DEF Served
<1>3. CASE c = Sender
  <2>1. i \in 1..Len(up[Sender]) /\ f \in up[Sender][i] /\ up' = [up EXCEPT ![Sender] = Without(@, i, f)]
    BY <1>3
  <2>2. f \in FromSender
    <3>1. up[Sender] \in Seq(SUBSET FromSender)
      BY <1>1 DEF MessagesTyped
    <3> QED BY <2>1, <3>1, ElementOfSeq
  <2>3. CASE f.type = "INIT" /\ f.file \in SendFiles
    BY <2>1, <2>3, InitServed DEF Serve
  <2>4. CASE f.type = "CANCEL"
    BY <1>2, <1>3, <2>4, ServedCancel DEF Serve
  <2>5. CASE f.type = "COMPLETE" /\ f.tid \in Tid
    BY <1>2, <2>5, ServedComplete DEF Serve
  <2>6. ASSUME NEW file \in Offered, f.type = "CHUNK", f \in ChunkIn(file) PROVE AllInv'
    BY <1>2, <2>1, <2>6, ServedChunk DEF Serve
  <2> QED BY <2>2, <2>3, <2>4, <2>5, <2>6, FromSenderKinds
<1>4. CASE c = Receiver
  <2>1. f \in FromReceiver
    <3>1. up[Receiver] \in Seq(SUBSET FromReceiver)
      BY <1>1 DEF MessagesTyped
    <3> QED BY <1>4, <3>1, ElementOfSeq
  <2>2. f.type \in {"ACCEPT", "REJECT", "CANCEL"} /\ f.tid \in Tid
    BY <2>1 DEF FromReceiver
  <2>3. CASE f.type = "ACCEPT"
    BY <1>2, <2>2, <2>3, ServedAccept DEF Serve
  <2>4. CASE f.type = "REJECT"
    BY <1>2, <2>2, <2>4, ServedReject DEF Serve
  <2>5. CASE f.type = "CANCEL"
    BY <1>2, <1>4, <2>5, ServedCancel DEF Serve
  <2> QED BY <2>2, <2>3, <2>4, <2>5
<1> QED BY <1>3, <1>4

LEMMA ServerTakesInv ==
  ASSUME AllInv, NEW c \in {Sender, Receiver}, ServerTakes(c) PROVE AllInv'
<1>1. PICK i \in 1..Len(up[c]) : i <= Window /\ \E f \in up[c][i] :
        Serve(c, f) /\ up' = [up EXCEPT ![c] = Without(@, i, f)]
  BY DEF ServerTakes
<1>2. PICK f \in up[c][i] : Serve(c, f) /\ up' = [up EXCEPT ![c] = Without(@, i, f)]
  BY <1>1
<1>3. ServerFrame /\ online' = online
  BY DEF ServerTakes, ServerFrame
<1> QED BY <1>2, <1>3, FrameServed

LEMMA ServerDeniesInv == ASSUME AllInv, ServerDenies PROVE AllInv'
<1>1. /\ Tell(<<Error(200, 1)>>, <<>>) /\ up' = up /\ xfer' = xfer /\ online' = online /\ ServerFrame
  BY DEF ServerDenies, ServerFrame, serverVars
<1>2. Error(200, 1) \in PlainToSender
  <2>1. Error(200, 1) \in ToSender
    BY DEF ToSender
  <2>2. ~IsAnswer(Error(200, 1))
    BY AnswerKinds DEF Error
  <2> QED BY <2>1, <2>2 DEF PlainToSender
<1>3. <<Error(200, 1)>> \in Seq(PlainToSender) /\ <<>> \in Seq(FitPlain)
  BY <1>2, TwoMessages
<1>4. DOMAIN down' = {Sender, Receiver} /\ Hears(Sender, PlainToSender) /\ Hears(Receiver, FitPlain)
  BY <1>1, <1>3, ToldBoth
<1>5. FilesKept /\ xfer' \in XferType
  BY <1>1, SameFiles
<1> QED BY <1>1, <1>4, <1>5, PlainStep DEF Takings

LEMMA StrangerOffersInv == ASSUME AllInv, StrangerOffers PROVE AllInv'
<1>1. PICK file \in StrangerFiles : NumberTransfer(Stranger, file)
  BY DEF StrangerOffers
<1>2. /\ online = {Sender, Receiver} /\ ServerFrame /\ up' = up /\ online' = online
      /\ file \in Offered /\ Receiver \in online
  BY DEF StrangerOffers, ServerFrame, Offered
<1>3. PICK t \in Tid : OfferQueued(t, file, Stranger)
  BY <1>1, <1>2, Numbered
<1>4. /\ FilesKept /\ xfer' \in XferType /\ Paired' /\ OfferedOnce' /\ HeadKept /\ FitChunks
      /\ DOMAIN down' = {Sender, Receiver} /\ down'[Receiver] \in Seq(ToReceiver)
      /\ down'[Sender] = down[Sender]
  BY <1>3, RelayAssumption DEF OfferQueued, Renews
<1>5. MessagesTyped /\ Sending /\ SenderSame
  BY <1>2 DEF AllInv, RelayInv, Wires, ServerFrame, SenderIdle, senderVars, senderHistory, SenderSame
<1>6. Sending'
  <2>1. NoAnswerComes
    BY <1>4 DEF NoAnswerComes
  <2>2. Fewer
    BY <1>2, SameFewer
  <2> QED BY <1>4, <1>5, <2>1, <2>2, SendingKept
<1>7. MessagesTyped'
  BY <1>2, <1>4, <1>5 DEF MessagesTyped
<1>8. online # {} /\ online' \subseteq online
  BY <1>2
<1> QED BY <1>2, <1>4, <1>6, <1>7, <1>8, ServerStep

LEMMA StrangerSends ==
  ASSUME AllInv, NEW t \in Tid, xfer[t].state = "active"
  PROVE  StrangerChunks(t, xfer[t].file) \o
           <<Announce(S!CompleteText(t, xfer[t].file)), [type |-> "COMPLETE", tid |-> t]>> \in Seq(FitPlain)
<1> DEFINE file == xfer[t].file
           n == S!ChunkCount(FileSize[file])
<1>1. t \in Transfers /\ file \in Offered
  BY TransferFacts
<1>2. FileSize[file] \in Nat
  BY <1>1, RelayAssumption DEF Offered
<1>3. /\ SP!ChunkCount(FileSize[file]) = S!ChunkCount(FileSize[file])
      /\ \A index : SP!ChunkLen(FileSize[file], index) = S!ChunkLen(FileSize[file], index)
  BY DEF SP!ChunkCount, S!ChunkCount, SP!ChunkLen, S!ChunkLen
<1>4. n \in Nat
  BY <1>2, RelayAssumption DEF S!ChunkCount
<1> DEFINE chunk(k) == [type |-> "CHUNK", tid |-> t, file |-> file, offset |-> (k - 1) * ChunkMax,
                        len |-> S!ChunkLen(FileSize[file], k - 1)]
<1>5. \A k \in 1..n : chunk(k) \in FitPlain
  <2> TAKE k \in 1..n
  <2>1. k - 1 \in Nat /\ k - 1 < SP!ChunkCount(FileSize[file])
    BY <1>3, <1>4
  <2>2. /\ (k - 1) * ChunkMax \in 0..FileSize[file]-1 /\ SP!ChunkLen(FileSize[file], k - 1) \in 1..ChunkMax
        /\ (k - 1) * ChunkMax + SP!ChunkLen(FileSize[file], k - 1) <= FileSize[file]
    BY <1>2, <2>1, ChunkFits
  <2> DEFINE at == (k - 1) * ChunkMax
             len == S!ChunkLen(FileSize[file], k - 1)
             f == chunk(k)
  <2>3. at \in 0..FileSize[file]-1 /\ len \in 1..ChunkMax /\ at + len <= FileSize[file]
    BY <1>3, <2>2
  <2>4. f = [type |-> "CHUNK", tid |-> t, file |-> file, offset |-> at, len |-> len]
    OBVIOUS
  <2> HIDE DEF at, len, f
  <2>5. f \in ChunkIn(file) /\ f.tid = t /\ f.file = file
    BY <2>3, <2>4 DEF ChunkIn
  <2>6. f \in FitPlain
    BY <1>1, <2>5, FitChunk
  <2> QED BY <2>6 DEF f
<1>6. StrangerChunks(t, file) \in Seq(FitPlain)
  <2>1. StrangerChunks(t, file) = [k \in 1..n |-> chunk(k)]
    BY DEF StrangerChunks
  <2> HIDE DEF n, chunk
  <2>2. [k \in 1..n |-> chunk(k)] \in Seq(FitPlain)
    BY <1>4, <1>5
  <2> QED BY <2>1, <2>2
<1>7. <<Announce(S!CompleteText(t, file)), [type |-> "COMPLETE", tid |-> t]>> \in Seq(FitPlain)
  BY <1>1, FitAnnouncements, FitFrames, TwoMessages
<1> HIDE DEF file
<1>8. StrangerChunks(t, file) \o <<Announce(S!CompleteText(t, file)), [type |-> "COMPLETE", tid |-> t]>>
        \in Seq(FitPlain)
  BY <1>6, <1>7, ConcatProperties
<1> QED BY <1>8 DEF file

LEMMA StrangerEndsInv == ASSUME AllInv, StrangerEnds PROVE AllInv'
<1>1. PICK t \in Tid :
        \/ /\ xfer[t].state = "active" /\ Becomes(t, "over")
           /\ Tell(<<>>, StrangerChunks(t, xfer[t].file) \o
                         <<Announce(S!CompleteText(t, xfer[t].file)),
                           [type |-> "COMPLETE", tid |-> t]>>)
        \/ xfer[t].state \in {"pending", "active"} /\ ServeCancel(Stranger, t)
  BY DEF StrangerEnds
<1>2. ServerFrame /\ up' = up /\ online' = online
  BY DEF StrangerEnds, ServerFrame
<1>3. Served => AllInv'
  BY <1>2, PlainStep DEF Served, Takings
<1>4. ASSUME xfer[t].state = "active", Becomes(t, "over"),
             Tell(<<>>, StrangerChunks(t, xfer[t].file) \o
                         <<Announce(S!CompleteText(t, xfer[t].file)),
                           [type |-> "COMPLETE", tid |-> t]>>)
      PROVE  AllInv'
  <2>1. FilesKept /\ xfer' \in XferType
    BY <1>4, NewState
  <2>2. <<>> \in Seq(PlainToSender)
    OBVIOUS
  <2>3. DOMAIN down' = {Sender, Receiver} /\ Hears(Sender, PlainToSender) /\ Hears(Receiver, FitPlain)
    BY <1>4, <2>2, StrangerSends, ToldBoth
  <2> QED BY <1>3, <2>1, <2>3 DEF Served
<1>5. CASE ServeCancel(Stranger, t)
  BY <1>3, <1>5, ServedCancel
<1> QED BY <1>1, <1>4, <1>5

-----------------------------------------------------------------------------
(* A client is gone. *)
LEMMA Listed ==
  ASSUME NEW T \in SUBSET Tid, NEW gone \in SetToSeqs(T)
  PROVE  Len(gone) \in Nat /\ \A k \in 1..Len(gone) : gone[k] \in Tid
<1>1. IsFiniteSet(Tid)
  BY RelayAssumption, FS_Interval DEF Tid
<1>2. IsFiniteSet(T)
  BY <1>1, FS_Subset
<1>3. Cardinality(T) \in Nat
  BY <1>2, FS_CardinalityType
<1>4. gone \in [1..Cardinality(T) -> T]
  BY DEF SetToSeqs
<1> QED BY <1>3, <1>4

LEMMA ServerHangsUpInv == ASSUME AllInv, NEW c \in {Sender, Receiver}, ServerHangsUp(c) PROVE AllInv'
<1>1. /\ c \in online /\ up[c] = <<>> /\ (IF c = Sender THEN sPhase ELSE rPhase) = "closed"
      /\ online' = online \ {c} /\ up' = up /\ ServerFrame
      /\ xfer' = [t \in Tid |-> IF Over(t, c) THEN [xfer[t] EXCEPT !.state = "over"] ELSE xfer[t]]
  BY DEF ServerHangsUp, ServerFrame
<1> DEFINE T == {t \in Tid : Over(t, c) /\ PeerHears(t, c)}
<1>2. PICK gone \in SetToSeqs(T) :
       down' = [d \in {Sender, Receiver} |->
                  IF d = c THEN <<>>
                  ELSE IF d \notin online THEN down[d]
                  ELSE down[d] \o [k \in 1..Len(gone) |-> Announce(S!DisconnectedText(gone[k], c))]]
  BY DEF ServerHangsUp
<1> DEFINE told == [k \in 1..Len(gone) |-> Announce(S!DisconnectedText(gone[k], c))]
<1>3. /\ DOMAIN down' = {Sender, Receiver} /\ down'[c] = <<>>
      /\ \A d \in {Sender, Receiver} : d # c =>
           down'[d] = IF d \notin online THEN down[d] ELSE down[d] \o told
  BY <1>2
<1>4. Len(gone) \in Nat /\ \A k \in 1..Len(gone) : gone[k] \in Tid
  BY Listed
<1>5. FilesKept /\ xfer' \in XferType
  <2>1. xfer \in XferType
    BY TransferFacts
  <2>2. /\ xfer' \in XferType
        /\ \A t \in Tid : xfer'[t].file = xfer[t].file /\ (xfer'[t].state = "none" <=> xfer[t].state = "none")
    BY <1>1, <2>1 DEF XferType, Over
  <2> QED BY <2>2, TransferFacts DEF FilesKept, Transfers
<1> HIDE DEF T
<1>6. MessagesTyped /\ Paired /\ OfferedOnce /\ Sending
  BY DEF AllInv, RelayInv, Wires, Receipt
<1>7. online' \subseteq online /\ online # {}
  BY <1>1
<1>8. rKnown' = rKnown /\ SenderSame
  BY <1>1 DEF ServerFrame, ReceiverIdle, SenderIdle, receiverVars, senderVars, SenderSame, senderHistory
<1>9. Fewer
  BY <1>1, SameFewer
<1>10. CASE c = Sender
  <2>1. told \in Seq(FitPlain)
    <3>1. \A t \in Tid : Announce(S!DisconnectedText(t, Sender)) \in FitPlain
      <4>1. TAKE t \in Tid
      <4>2. S!DisconnectedText(t, Sender) \in ReceiverTexts
        BY DEF ReceiverTexts
      <4>3. S!DisconnectedText(t, Sender).head # OfferHead
        BY TextParts, Heads, Zenon DEF HasParts, PlainHead, OfferHead
      <4>4. \A text : Announce(text).type = "SERVER_MSG" /\ Announce(text).text = text
        BY DEF Announce
      <4> QED BY <4>2, <4>3, <4>4, OfferKinds DEF FitPlain, PlainToReceiver, ToReceiver
    <3>2. \A k \in 1..Len(gone) : Announce(S!DisconnectedText(gone[k], c)) \in FitPlain
      BY <1>4, <1>10, <3>1
    <3> QED BY <1>4, <3>2
  <2> HIDE DEF told
  <2>2. Hears(Receiver, FitPlain)
    BY <1>3, <1>10, <2>1, RelayAssumption DEF Hears
  <2>3. /\ Paired' /\ OfferedOnce' /\ HeadKept
        /\ down'[Receiver] \in Seq(ToReceiver) /\ FitChunks
    BY <1>5, <1>6, <1>8, <2>2, PlainQueued
  <2>4. down'[Sender] \in Seq(ToSender) /\ NoAnswerComes
    BY <1>3, <1>10 DEF NoAnswerComes
  <2>5. Sending'
    BY <1>5, <1>6, <1>8, <1>9, <2>3, <2>4, SendingKept
  <2>6. MessagesTyped'
    BY <1>1, <1>3, <1>6, <2>3, <2>4 DEF MessagesTyped
  <2> QED BY <1>1, <1>5, <1>7, <2>3, <2>5, <2>6, ServerStep
<1>11. CASE c = Receiver
  <2>1. told \in Seq(PlainToSender)
    <3>1. \A t \in Tid : Announce(S!DisconnectedText(t, Receiver)) \in PlainToSender
      <4>1. TAKE t \in Tid
      <4>2. S!DisconnectedText(t, Receiver) \in SenderTexts
        BY DEF SenderTexts
      <4>3. ~Waiting(S!DisconnectedText(t, Receiver))
        <5>1. "Waiting for acceptance" \notin PhrasesIn[Receiver]
          BY NamesAssumption, Zenon
        <5> QED BY <5>1, Zenon DEF S!DisconnectedText, S!TransferText, Waiting
      <4>4. \A text : Announce(text).type = "SERVER_MSG" /\ Announce(text).text = text
        BY DEF Announce
      <4> QED BY <4>2, <4>3, <4>4, AnswerKinds DEF PlainToSender, ToSender
    <3>2. \A k \in 1..Len(gone) : Announce(S!DisconnectedText(gone[k], c)) \in PlainToSender
      BY <1>4, <1>11, <3>1
    <3> QED BY <1>4, <3>2
  <2> HIDE DEF told
  <2>2. Hears(Sender, PlainToSender)
    BY <1>3, <1>11, <2>1, RelayAssumption DEF Hears
  <2>3. down'[Sender] \in Seq(ToSender) /\ NoAnswerComes
    BY <1>6, <2>2, PlainHeard
  <2>4. down'[Receiver] = <<>> /\ rPhase = "closed"
    BY <1>1, <1>3, <1>11, RelayAssumption
  <2>5. Paired' /\ OfferedOnce' /\ FitChunks /\ down'[Receiver] \in Seq(ToReceiver)
    <3>1. Len(down'[Receiver]) = 0
      BY <2>4
    <3>2. Offers' = {}
      BY <3>1 DEF Offers
    <3> QED BY <2>4, <3>1, <3>2 DEF Paired, OfferedOnce, FitChunks
  <2>6. Sending'
    BY <1>5, <1>6, <1>8, <1>9, <2>3, <2>5, SendingKept
  <2>7. MessagesTyped'
    BY <1>1, <1>3, <1>6, <2>3, <2>5 DEF MessagesTyped
  <2> QED BY <1>1, <1>5, <1>7, <2>4, <2>5, <2>6, <2>7, ServerStep
<1> QED BY <1>10, <1>11

LEMMA ServerInv == ASSUME AllInv, Server PROVE AllInv'
BY ServerTakesInv, ServerHangsUpInv, ServerDeniesInv, StrangerOffersInv, StrangerEndsInv DEF Server

-----------------------------------------------------------------------------
(* The sender takes a step. *)

(* It leaves the server and the receiver as they are. *)
SenderAlone ==
  /\ ReceiverIdle /\ UNCHANGED <<receiverHistory, serverVars>> /\ down'[Receiver] = down[Receiver]
  /\ sends' \in 0..MaxSends /\ orphaned' \in BOOLEAN /\ (orphaned => orphaned')

LEMMA SenderStep ==
  ASSUME AllInv, SenderAlone, SenderInv', MessagesTyped', Roles', BeforeLogin', Sending'
  PROVE  AllInv'
<1>1. /\ rOut' = {} /\ UNCHANGED receiverVars /\ UNCHANGED receiverHistory
      /\ xfer' = xfer /\ online' = online /\ kept' = kept /\ (orphaned => orphaned')
      /\ down'[Receiver] = down[Receiver]
  BY DEF SenderAlone, ReceiverIdle, serverVars, receiverHistory
<1>2. ReceiverInv'
  BY <1>1, ReceiverStays DEF AllInv
<1>3. FilesKept
  BY <1>1, SameFiles
<1>4. Paired' /\ OfferedOnce'
  BY <1>1, QueueSame DEF AllInv, RelayInv, Receipt, receiverVars
<1>5. HeadKept
  BY <1>1 DEF HeadKept
<1>6. Receipt'
  BY <1>1, <1>3, <1>4, <1>5, ReceiptKept DEF AllInv, RelayInv
<1>7. ServerTypeOK'
  BY <1>1 DEF AllInv, RelayInv, Wires, ServerTypeOK, SenderAlone
<1> QED BY <1>2, <1>6, <1>7 DEF AllInv, RelayInv, Wires

LEMMA SenderOwn ==
  ASSUME AllInv, SenderAlone, online # {}, down' = down, SenderFrame, SenderInv', Sending',
         sOut' \subseteq FromSender, Uploads(Sender, sOut')
  PROVE  AllInv'
<1>1. MessagesTyped /\ Roles /\ BeforeLogin
  BY DEF AllInv, RelayInv, Wires
<1>2. MessagesTyped'
  <2>1. up[Sender] \in Seq(SUBSET FromSender)
    BY <1>1 DEF MessagesTyped
  <2>2. /\ DOMAIN up' = {Sender, Receiver} /\ up'[Sender] \in Seq(SUBSET FromSender)
        /\ \A d \in {Sender, Receiver} : d # Sender => up'[d] = up[d]
    BY <1>1, <2>1, Uploading
  <2>3. up'[Receiver] = up[Receiver]
    BY <2>2, RelayAssumption
  <2> QED BY <1>1, <2>2, <2>3 DEF MessagesTyped
<1>3. UNCHANGED <<rPhase, rBroken, rSend, rRecv>>
  BY DEF SenderAlone, ReceiverIdle, receiverVars
<1>4. Roles'
  BY <1>1, <1>3 DEF Roles, SenderFrame
<1>5. BeforeLogin'
  BY <1>1, <1>3 DEF BeforeLogin, SenderFrame
<1> QED BY <1>2, <1>4, <1>5, SenderStep

LEMMA OrphanedBoolean == ASSUME AllInv PROVE orphaned \in BOOLEAN /\ sends \in 0..MaxSends
BY DEF AllInv, RelayInv, Wires, ServerTypeOK

LEMMA StepOfOwn ==
  ASSUME AllInv, Uploads(Sender, sOut'), UNCHANGED <<down, xfer>>, orphaned => orphaned'
  PROVE  OwnStep
BY DEF OwnStep, AllInv, RelayInv, Wires

LEMMA SenderOffersInv == ASSUME AllInv, SenderOffers PROVE AllInv'
<1>1. PICK file \in SendFiles : SenderDoes(S!CmdSendfile(file))
  BY DEF SenderOffers
<1>2. /\ online # {} /\ S!CmdSendfile(file) /\ Uploads(Sender, sOut') /\ ReceiverIdle
      /\ UNCHANGED <<receiverHistory, serverVars, down>> /\ orphaned' = orphaned
      /\ sends < MaxSends /\ sends' = sends + 1
  BY <1>1 DEF SenderOffers, SenderDoes
<1>3. SenderAlone
  BY <1>2, OrphanedBoolean, RelayAssumption DEF SenderAlone
<1>4. SenderInv' /\ Asks(file)
  BY <1>2, Asking DEF AllInv, RelayInv, Wires
<1>5. OwnStep
  BY <1>2, StepOfOwn DEF serverVars
<1>6. Sending' /\ sOut' \subseteq FromSender
  BY <1>4, <1>5, AsksSending
<1> QED BY <1>2, <1>3, <1>4, <1>6, SenderOwn DEF Asks

LEMMA SenderCancelsInv == ASSUME AllInv, SenderCancels PROVE AllInv'
<1>1. PICK tid \in TypedTid : SenderDoes(S!CmdCancel(tid))
  BY DEF SenderCancels
<1>2. /\ online # {} /\ S!CmdCancel(tid) /\ Uploads(Sender, sOut') /\ ReceiverIdle
      /\ UNCHANGED <<receiverHistory, serverVars, down>> /\ sends' = sends
      /\ orphaned' = (orphaned \/ sSend.state = "PENDING_TID")
  BY <1>1 DEF SenderCancels, SenderDoes
<1>3. orphaned' \in BOOLEAN /\ (orphaned' <=> orphaned \/ sSend.state = "PENDING_TID")
  BY <1>2
<1>4. SenderAlone
  BY <1>2, <1>3, OrphanedBoolean DEF SenderAlone
<1>5. SenderInv' /\ Quits
  BY <1>2, Cancelling DEF AllInv, RelayInv, Wires
<1>6. OwnStep
  BY <1>2, <1>3, StepOfOwn DEF serverVars
<1>7. Sending' /\ sOut' \subseteq FromSender
  BY <1>3, <1>5, <1>6, QuitsSending
<1> QED BY <1>2, <1>4, <1>5, <1>7, SenderOwn DEF Quits

LEMMA SenderTicksInv == ASSUME AllInv, SenderTicks PROVE AllInv'
<1>1. \/ S!TickChunks \/ S!TickComplete
      \/ \E n \in 0..ChunksPerRound-1 : n < S!Round /\ S!TickReadFails(n)
  BY DEF SenderTicks, SenderDoes
<1>2. /\ online # {} /\ Uploads(Sender, sOut') /\ ReceiverIdle
      /\ UNCHANGED <<receiverHistory, serverVars, down>> /\ sends' = sends /\ orphaned' = orphaned
  BY DEF SenderTicks, SenderDoes, senderHistory
<1>3. SenderAlone
  BY <1>2, OrphanedBoolean DEF SenderAlone
<1>4. SenderInv' /\ (Works \/ (Quits /\ sSend.state = "ACTIVE"))
  BY <1>1, Ticking DEF AllInv, RelayInv, Wires, Sending
<1>5. OwnStep
  BY <1>2, StepOfOwn DEF serverVars
<1>6. Sending' /\ sOut' \subseteq FromSender /\ SenderFrame
  BY <1>4, <1>5, WorksSending, QuitsSending DEF Works, Quits
<1> QED BY <1>2, <1>3, <1>4, <1>6, SenderOwn

LEMMA SenderHandlesInv == ASSUME AllInv, SenderHandles PROVE AllInv'
<1> DEFINE m == Head(down[Sender])
<1>1. /\ down[Sender] # <<>> /\ S!Listening /\ S!Handle(m) /\ orphaned' = (orphaned \/ Misses(m))
      /\ down' = [down EXCEPT ![Sender] = Tail(@)] /\ Uploads(Sender, sOut')
      /\ ReceiverIdle /\ UNCHANGED <<receiverHistory, serverVars, sends>>
  BY DEF SenderHandles
<1> HIDE DEF m
<1>2. MessagesTyped /\ Roles /\ BeforeLogin /\ Sending /\ SenderInv
  BY DEF AllInv, RelayInv, Wires
<1>3. m \in ToSender /\ Tail(down[Sender]) \in Seq(ToSender)
  BY <1>1, <1>2, SenderQueue, Tailed DEF m
<1>4. SenderInv' /\ Handled(m)
  BY <1>1, <1>2, <1>3, SenderHandlesAny DEF Sending
<1>5. /\ down'[Sender] = Tail(down[Sender]) /\ down'[Receiver] = down[Receiver]
      /\ DOMAIN down' = {Sender, Receiver}
  BY <1>1, <1>2, RelayAssumption DEF MessagesTyped
<1>6. orphaned' \in BOOLEAN /\ (orphaned' <=> orphaned \/ Misses(m))
  BY <1>1
<1>7. up' = up /\ UNCHANGED <<sPhase, sBroken, sRecv>>
  BY <1>1, <1>4 DEF Uploads, Handled
<1>8. HandlingStep(m)
  <2>1. sPhase # "closed"
    BY <1>1 DEF S!Listening
  <2> QED BY <1>1, <1>2, <1>3, <1>4, <1>5, <1>6, <1>7, <2>1 DEF HandlingStep, m, serverVars
<1>9. Sending'
  BY <1>8, HandledSending
<1>10. SenderAlone
  BY <1>1, <1>5, <1>6, OrphanedBoolean DEF SenderAlone
<1>11. MessagesTyped'
  BY <1>2, <1>3, <1>5, <1>7 DEF MessagesTyped
<1>12. UNCHANGED <<rPhase, rBroken, rSend, rRecv>>
  BY <1>1 DEF ReceiverIdle, receiverVars
<1>13. Roles'
  BY <1>2, <1>7, <1>12 DEF Roles
<1>14. BeforeLogin'
  <2>1. sPhase # "login" /\ rPhase # "login" /\ sPhase # "closed"
    BY <1>1, <1>2, <1>8 DEF BeforeLogin, HandlingStep
  <2> QED BY <1>2, <1>7, <1>12, <2>1 DEF BeforeLogin
<1> QED BY <1>4, <1>9, <1>10, <1>11, <1>13, <1>14, SenderStep

-----------------------------------------------------------------------------
(* The receiver takes a step. *)

(* It leaves the server and the sender as they are. *)
ReceiverAlone ==
  /\ SenderIdle /\ UNCHANGED <<senderHistory, serverVars>> /\ down'[Sender] = down[Sender]
  /\ kept' \subseteq Tid

LEMMA ReceiverStep ==
  ASSUME AllInv, ReceiverAlone, FitChunks, ReceiverInv', rOut' \subseteq FromReceiver, Uploads(Receiver, rOut'),
         DOMAIN down' = {Sender, Receiver}, down'[Receiver] \in Seq(ToReceiver), Roles', BeforeLogin', Receipt'
  PROVE  AllInv'
<1>1. /\ sOut' = {} /\ UNCHANGED senderVars /\ SenderSame /\ xfer' = xfer /\ online' = online
      /\ UNCHANGED senderHistory /\ down'[Sender] = down[Sender]
  BY DEF ReceiverAlone, SenderIdle, senderVars, senderHistory, serverVars, SenderSame
<1>2. SenderInv'
  BY <1>1, SenderStays DEF AllInv
<1>3. MessagesTyped /\ Sending
  BY DEF AllInv, RelayInv, Wires
<1>4. /\ DOMAIN up' = {Sender, Receiver} /\ up'[Receiver] \in Seq(SUBSET FromReceiver)
      /\ up'[Sender] = up[Sender]
  <2>1. up[Receiver] \in Seq(SUBSET FromReceiver)
    BY <1>3 DEF MessagesTyped
  <2>2. /\ DOMAIN up' = {Sender, Receiver} /\ up'[Receiver] \in Seq(SUBSET FromReceiver)
        /\ \A d \in {Sender, Receiver} : d # Receiver => up'[d] = up[d]
    BY <1>3, <2>1, Uploading
  <2> QED BY <2>2, RelayAssumption
<1>5. MessagesTyped'
  BY <1>1, <1>3, <1>4 DEF MessagesTyped
<1>6. Sending'
  <2>1. FilesKept
    BY <1>1, SameFiles
  <2>2. NoAnswerComes
    BY <1>1 DEF NoAnswerComes
  <2>3. Fewer
    BY <1>4, SameFewer
  <2> QED BY <1>1, <1>3, <2>1, <2>2, <2>3, SendingKept
<1>7. ServerTypeOK'
  BY <1>1 DEF AllInv, RelayInv, Wires, ServerTypeOK, ReceiverAlone, senderHistory
<1> QED BY <1>2, <1>5, <1>6, <1>7 DEF AllInv, RelayInv, Wires

LEMMA TasksOf == ASSUME AllInv PROVE Tasks /\ kept \subseteq Tid
BY DEF AllInv, RelayInv, Receipt, DetailsNext, Tasks, Wires, ServerTypeOK

LEMMA ReceiverCommandsInv == ASSUME AllInv, ReceiverCommands PROVE AllInv'
<1>1. PICK tid \in TypedTid : R!CmdAccept(tid) \/ R!CmdReject(tid) \/ R!CmdCancel(tid)
  BY DEF ReceiverCommands
<1>2. /\ online # {} /\ Uploads(Receiver, rOut') /\ SenderIdle
      /\ UNCHANGED <<senderHistory, serverVars, receiverHistory, down>>
  BY DEF ReceiverCommands
<1>3. ReceiverInv /\ Roles /\ BeforeLogin /\ Receipt /\ MessagesTyped
  BY DEF AllInv, RelayInv, Wires
<1>4. /\ ReceiverInv' /\ UNCHANGED <<rPhase, rBroken, rSend>> /\ rPhase = "session"
      /\ \E i \in Slots : Drops(i) \/ Opens(i)
  BY <1>1, <1>3, ReceiverCommanded
<1>5. PICK i \in Slots : Drops(i) \/ Opens(i)
  BY <1>4
<1>6. UNCHANGED <<xfer, data, kept>> /\ orphaned' = orphaned
  BY <1>2 DEF serverVars, receiverHistory, senderHistory
<1>7. Tasks' /\ WaitingSame
  BY <1>3, <1>5, <1>6, TasksOf, DropsTask, OpensTask
<1>8. rKnown' = rKnown
  BY <1>5 DEF Drops, Opens
<1>9. Receipt'
  BY <1>2, <1>3, <1>4, <1>6, <1>7, <1>8, CommandKeepsReceipt
<1>10. rOut' \subseteq FromReceiver
  BY <1>3, <1>5, CommandSendsTyped
<1>11. ReceiverAlone
  BY <1>2, <1>6, TasksOf DEF ReceiverAlone
<1>12. FitChunks
  BY <1>2 DEF FitChunks
<1>13. DOMAIN down' = {Sender, Receiver} /\ down'[Receiver] \in Seq(ToReceiver)
  BY <1>2, <1>3 DEF MessagesTyped
<1>14. UNCHANGED <<sPhase, sBroken, sSend, sRecv>>
  BY <1>2 DEF SenderIdle, senderVars
<1>15. Roles'
  BY <1>3, <1>4, <1>14 DEF Roles
<1>16. BeforeLogin'
  BY <1>2, <1>3, <1>4, <1>14 DEF BeforeLogin
<1> QED BY <1>2, <1>4, <1>9, <1>10, <1>11, <1>12, <1>13, <1>15, <1>16, ReceiverStep

LEMMA ReceiverHandlesInv == ASSUME AllInv, ReceiverHandles PROVE AllInv'
<1> DEFINE m == Head(down[Receiver])
<1>1. /\ down[Receiver] # <<>> /\ R!Listening /\ R!Handle(m) /\ RecordFiles(m)
      /\ down' = [down EXCEPT ![Receiver] = Tail(@)] /\ Uploads(Receiver, rOut')
      /\ SenderIdle /\ UNCHANGED <<senderHistory, serverVars>>
  BY DEF ReceiverHandles
<1> HIDE DEF m
<1>2. ReceiverInv /\ Roles /\ BeforeLogin /\ Receipt /\ MessagesTyped /\ FileOfTid
  BY DEF AllInv, RelayInv, Wires, Sending
<1>3. m \in ToReceiver /\ Tail(down[Receiver]) \in Seq(ToReceiver)
  BY <1>1, <1>2, ReceiverQueue, Tailed DEF m
<1>4. ReceiverInv' /\ Taken(m)
  BY <1>1, <1>2, <1>3, ReceiverHandlesAny
<1>5. /\ down'[Receiver] = Tail(down[Receiver]) /\ down'[Sender] = down[Sender]
      /\ DOMAIN down' = {Sender, Receiver}
  BY <1>1, <1>2, RelayAssumption DEF MessagesTyped
<1>6. rPhase \notin {"closed", "killed"} /\ UNCHANGED <<xfer, orphaned>>
  BY <1>1 DEF R!Listening, serverVars, senderHistory
<1>7. HandlingReceipt(m)
  BY <1>1, <1>2, <1>3, <1>4, <1>6 DEF HandlingReceipt, m
<1>8. Receipt' /\ rOut' \subseteq FromReceiver
  BY <1>5, <1>7, HandlingKeepsReceipt, HandlingSendsTyped
<1>9. UNCHANGED <<rPhase, rBroken>> /\ rSend'.state = "NONE"
  BY <1>4 DEF Taken
<1>10. kept' \subseteq Tid
  BY <1>8 DEF Receipt, KnownTransfers, Transfers
<1>11. ReceiverAlone
  BY <1>1, <1>5, <1>10 DEF ReceiverAlone
<1>12. FitChunks
  <2>1. \A k \in 1..Len(Tail(down[Receiver])) :
          Tail(down[Receiver])[k] = down[Receiver][k + 1] /\ k + 1 \in 1..Len(down[Receiver])
    BY <1>1, <1>2, ReceiverQueue, Tailed
  <2> QED BY <1>5, <2>1 DEF FitChunks
<1>13. UNCHANGED <<sPhase, sBroken, sSend, sRecv>>
  BY <1>1 DEF SenderIdle, senderVars
<1>14. Roles'
  BY <1>2, <1>9, <1>13 DEF Roles
<1>15. BeforeLogin'
  <2>1. sPhase # "login" /\ rPhase # "login"
    BY <1>1, <1>2 DEF BeforeLogin
  <2> QED BY <1>2, <1>6, <1>9, <1>13, <2>1 DEF BeforeLogin
<1> QED BY <1>1, <1>3, <1>4, <1>5, <1>8, <1>11, <1>12, <1>14, <1>15, ReceiverStep

-----------------------------------------------------------------------------
(* Sessions begin and end. *)

(* The rest of the state stays. *)
SessionStep ==
  /\ UNCHANGED <<up, down, xfer, receiverHistory, senderHistory>> /\ online' \subseteq {Sender, Receiver}
  /\ SenderInv' /\ ReceiverInv' /\ UNCHANGED <<sBroken, rBroken>>
  /\ sRecv' = sRecv \/ sRecv' = [i \in S!Slot |-> S!FreeTask]
  /\ rSend' = rSend \/ rSend' = R!FreeSend

LEMMA SessionKeeps ==
  ASSUME AllInv, SessionStep, BeforeLogin', Receipt', Sending' PROVE AllInv'
<1>1. MessagesTyped'
  BY DEF AllInv, RelayInv, Wires, SessionStep, MessagesTyped
<1>2. ServerTypeOK'
  BY DEF AllInv, RelayInv, Wires, SessionStep, ServerTypeOK, receiverHistory, senderHistory
<1>3. Roles'
  <2>1. R!FreeSend.state = "NONE" /\ ~S!FreeTask.busy
    BY DEF R!FreeSend, S!FreeTask
  <2>2. \A i \in S!Slot : ~sRecv'[i].busy
    BY <2>1 DEF AllInv, RelayInv, Wires, Roles, SessionStep
  <2>3. rSend'.state = "NONE"
    BY <2>1 DEF AllInv, RelayInv, Wires, Roles, SessionStep
  <2> QED BY <2>2, <2>3 DEF AllInv, RelayInv, Wires, Roles, SessionStep
<1> QED BY <1>1, <1>2, <1>3 DEF AllInv, RelayInv, Wires, SessionStep

LEMMA IdleReceipt ==
  ASSUME AllInv, UNCHANGED <<receiverVars, receiverHistory, down, xfer, orphaned>> PROVE Receipt'
<1>1. FilesKept
  BY SameFiles
<1>2. Paired' /\ OfferedOnce'
  BY QueueSame DEF AllInv, RelayInv, Receipt, receiverVars
<1>3. HeadKept
  BY DEF HeadKept
<1> QED BY <1>1, <1>2, <1>3, ReceiptKept DEF AllInv, RelayInv

LEMMA BothOnlineInv == ASSUME AllInv, BothOnline PROVE AllInv'
<1>1. /\ S!SessionStart /\ R!SessionStart /\ online' = {Sender, Receiver}
      /\ UNCHANGED <<up, down, xfer, receiverHistory, senderHistory>>
      /\ UNCHANGED <<data, kept, orphaned>>
  BY DEF BothOnline, receiverHistory, senderHistory
<1>2. /\ SenderInv' /\ UNCHANGED sBroken /\ sPhase = "login" /\ sPhase' = "session" /\ sSend' = S!FreeSend
      /\ sRecv' = sRecv \/ sRecv' = [i \in S!Slot |-> S!FreeTask]
  BY <1>1, SenderLives DEF AllInv
<1>3. /\ ReceiverInv' /\ UNCHANGED <<rBroken, rKnown>> /\ rPhase = "login" /\ rPhase' = "session"
      /\ rSend' = rSend \/ rSend' = R!FreeSend
      /\ rRecv' = [i \in Slots |-> R!FreeTask]
  BY <1>1, ReceiverLives DEF AllInv
<1>4. SessionStep
  BY <1>1, <1>2, <1>3 DEF SessionStep
<1>5. Receipt'
  BY <1>1, <1>3, FreedKeepsReceipt DEF AllInv, RelayInv
<1>6. Sending'
  <2>1. Requests = {} /\ Answers = {}
    BY <1>2 DEF AllInv, RelayInv, Wires, BeforeLogin, Requests, Answers
  <2> QED BY <1>1, <1>2, <2>1, LivesSending DEF AllInv, RelayInv
<1>7. BeforeLogin'
  BY <1>2, <1>3 DEF BeforeLogin
<1> QED BY <1>4, <1>5, <1>6, <1>7, SessionKeeps

LEMMA SenderEndsInv ==
  ASSUME AllInv, S!Stop \/ S!Destroy, S!Stop => online # {}, ReceiverIdle,
         UNCHANGED <<up, down, serverVars, receiverHistory, senderHistory>>
  PROVE  AllInv'
<1>1. /\ SenderInv' /\ UNCHANGED sBroken
      /\ sRecv' = sRecv \/ sRecv' = [i \in S!Slot |-> S!FreeTask]
      /\ S!Stop => /\ sPhase \in {"login", "session"} /\ sPhase' = "closing" /\ sSend' = sSend
      /\ S!Destroy => sPhase = "closing" /\ sPhase' = "closed" /\ sSend' = S!FreeSend
  BY SenderLives DEF AllInv
<1>2. /\ rOut' = {} /\ UNCHANGED receiverVars /\ UNCHANGED <<rPhase, rBroken, rSend, rRecv>>
      /\ UNCHANGED <<xfer, online, orphaned>>
  BY DEF ReceiverIdle, receiverVars, serverVars, senderHistory
<1>3. ReceiverInv'
  BY <1>2, ReceiverStays DEF AllInv
<1>4. Receipt'
  BY <1>2, IdleReceipt
<1>5. Sending'
  BY <1>1, <1>2, LivesSending DEF AllInv, RelayInv
<1>6. BeforeLogin'
  <2>1. BeforeLogin
    BY DEF AllInv, RelayInv, Wires
  <2>2. S!FreeSend.state = "NONE"
    BY DEF S!FreeSend
  <2> QED BY <1>1, <1>2, <2>1, <2>2 DEF BeforeLogin
<1>7. SessionStep
  BY <1>1, <1>2, <1>3 DEF SessionStep, AllInv, RelayInv, Wires, ServerTypeOK
<1> QED BY <1>4, <1>5, <1>6, <1>7, SessionKeeps

LEMMA ReceiverEndsInv ==
  ASSUME AllInv, R!Stop \/ R!Destroy, R!Stop => online # {}, SenderIdle,
         UNCHANGED <<up, down, serverVars, receiverHistory, senderHistory>>
  PROVE  AllInv'
<1>1. /\ ReceiverInv' /\ rOut' = {} /\ UNCHANGED <<rBroken, rKnown, rSaved>>
      /\ rSend' = rSend \/ rSend' = R!FreeSend
      /\ R!Stop => /\ rPhase \in {"login", "session"} /\ rPhase' = "closing"
                   /\ UNCHANGED <<rRecv, rContent>>
      /\ R!Destroy => /\ rPhase = "closing" /\ rPhase' = "closed"
                      /\ rRecv' = [i \in Slots |-> R!FreeTask]
  BY ReceiverLives DEF AllInv
<1>2. /\ sOut' = {} /\ UNCHANGED senderVars /\ UNCHANGED <<sPhase, sBroken, sSend, sRecv>>
      /\ UNCHANGED <<xfer, online, orphaned, data, kept>>
  BY DEF SenderIdle, senderVars, serverVars, senderHistory, receiverHistory
<1>3. SenderInv'
  BY <1>2, SenderStays DEF AllInv
<1>4. SessionStep
  BY <1>1, <1>2, <1>3 DEF SessionStep, AllInv, RelayInv, Wires, ServerTypeOK
<1>5. Receipt'
  <2>1. CASE R!Stop
    <3>1. Tasks' /\ WaitingSame
      BY <1>1, <1>2, <2>1, TasksOf, SameTasks DEF Same, AllInv
    <3> QED BY <1>1, <1>2, <2>1, <3>1, CommandKeepsReceipt DEF AllInv, RelayInv
  <2>2. CASE R!Destroy
    BY <1>1, <1>2, <2>2, FreedKeepsReceipt DEF AllInv, RelayInv
  <2> QED BY <2>1, <2>2
<1>6. Sending'
  <2>1. Sending
    BY DEF AllInv, RelayInv
  <2>2. FilesKept /\ SenderSame
    BY <1>2, SameFiles DEF SenderSame
  <2>3. NoAnswerComes /\ FitChunks
    BY DEF NoAnswerComes, FitChunks
  <2>4. Fewer
    BY SameFewer
  <2> QED BY <2>1, <2>2, <2>3, <2>4, SendingKept
<1>7. BeforeLogin'
  <2>1. BeforeLogin
    BY DEF AllInv, RelayInv, Wires
  <2>2. ~R!FreeTask.busy
    BY DEF R!FreeTask
  <2> QED BY <1>1, <1>2, <2>1, <2>2 DEF BeforeLogin, Slots
<1> QED BY <1>4, <1>5, <1>6, <1>7, SessionKeeps

LEMMA ClientInv == ASSUME AllInv, Client PROVE AllInv'
<1>1. CASE SenderGone
  <2>1. ~S!Stop
    BY <1>1 DEF SenderGone, ClientEnds, S!Stop, S!Destroy
  <2> QED BY <1>1, <2>1, SenderEndsInv DEF SenderGone, ClientEnds
<1>2. CASE ReceiverGone
  <2>1. ~R!Stop
    BY <1>2 DEF ReceiverGone, ClientEnds, R!Stop, R!Destroy
  <2> QED BY <1>2, <2>1, ReceiverEndsInv DEF ReceiverGone, ClientEnds
<1>3. CASE Leave
  BY <1>3, SenderEndsInv, ReceiverEndsInv DEF Leave, ClientEnds
<1> QED
  BY <1>1, <1>2, <1>3, SenderOffersInv, SenderCancelsInv, SenderTicksInv, SenderHandlesInv,
     ReceiverCommandsInv, ReceiverHandlesInv DEF Client

-----------------------------------------------------------------------------
(* It all holds at the start, and every step keeps it. *)

LEMMA InitReceipt == ASSUME Init PROVE Receipt
<1>1. /\ down[Receiver] = <<>> /\ xfer = [t \in Tid |-> NoTransfer] /\ kept = {}
      /\ data = [t \in Tid |-> {}]
  BY DEF Init
<1>2. rRecv = [i \in Slots |-> R!FreeTask] /\ rKnown = {}
  BY SlotsAre DEF Init, R!Init
<1>3. \A i \in Slots : ~rRecv[i].busy /\ ~rRecv[i].open
  BY <1>2 DEF R!FreeTask
<1>4. Transfers = {}
  BY <1>1 DEF Transfers, NoTransfer
<1>5. Offers = {} /\ Len(down[Receiver]) = 0
  BY <1>1 DEF Offers
<1>6. R!Uninited = {}
  BY <1>3, SlotsAre DEF R!Uninited
<1>7. Paired /\ OfferedOnce /\ DetailsNext
  BY <1>5, <1>6 DEF Paired, OfferedOnce, DetailsNext
<1>8. KnownTransfers /\ DetailsMatch
  BY <1>1, <1>2, <1>3, <1>4 DEF KnownTransfers, DetailsMatch, Slots
<1>9. DataOnDisk
  BY <1>1, <1>3 DEF DataOnDisk, Slots
<1> QED BY <1>7, <1>8, <1>9 DEF Receipt

LEMMA InitInv == ASSUME Init PROVE AllInv
<1>1. S!Init /\ R!Init
  BY DEF Init
<1>2. SenderInv
  BY <1>1, SenderActs, SenderAssumptions, SP!InitType, SP!InitSend DEF SenderInv
<1>3. ReceiverInv
  BY <1>1, ReceiverActs, ReceiverAssumptions, RP!InitType, RP!InitDisk DEF ReceiverInv
<1>4. /\ up[Sender] = <<>> /\ up[Receiver] = <<>> /\ down[Sender] = <<>> /\ down[Receiver] = <<>>
      /\ DOMAIN up = {Sender, Receiver} /\ DOMAIN down = {Sender, Receiver}
  BY DEF Init
<1>5. /\ sPhase = "login" /\ rPhase = "login" /\ sBroken = FALSE /\ rBroken = FALSE
      /\ sSend.state = "NONE" /\ sSend.tid = 0 /\ rSend.state = "NONE"
      /\ sRecv = [i \in S!Slot |-> S!FreeTask]
      /\ \A i \in 1..RecvSlots : ~rRecv[i].busy
  BY <1>1, SlotsAre DEF S!Init, R!Init, S!FreeSend, R!FreeSend, R!FreeTask, Slots
<1>6. MessagesTyped
  BY <1>4 DEF MessagesTyped
<1>7. Roles /\ BeforeLogin
  <2>1. ~S!FreeTask.busy
    BY DEF S!FreeTask
  <2>2. online = {}
    BY DEF Init
  <2> QED BY <1>4, <1>5, <2>1, <2>2 DEF Roles, BeforeLogin
<1>8. ServerTypeOK
  <2>1. NoTransfer \in [state : {"none", "pending", "active", "over"},
                        file : File \cup {NoFile}, from : {Sender, Stranger}]
    BY DEF NoTransfer
  <2>2. 0 \in 0..MaxSends
    BY RelayAssumption
  <2>3. xfer = [t \in Tid |-> NoTransfer] /\ online = {} /\ sends = 0 /\ kept = {} /\ orphaned = FALSE
    BY DEF Init
  <2>4. xfer \in [Tid -> [state : {"none", "pending", "active", "over"},
                        file : File \cup {NoFile}, from : {Sender, Stranger}]]
    BY <2>1, <2>3
  <2> QED BY <2>2, <2>3, <2>4 DEF ServerTypeOK
<1>9. Sending
  <2>1. Answers = {} /\ Requests = {} /\ Len(up[Sender]) = 0 /\ Len(down[Receiver]) = 0
    BY <1>4 DEF Answers, Requests
  <2> QED BY <1>5, <2>1 DEF Sending, SendTid, OneAnswer, FileOfTid
<1> QED BY <1>2, <1>3, <1>6, <1>7, <1>8, <1>9, InitReceipt DEF AllInv, RelayInv, Wires

LEMMA StutterInv == ASSUME AllInv, UNCHANGED vars PROVE AllInv'
<1>1. /\ UNCHANGED <<sOut, rOut, up, down, xfer, online, data, kept, sends, orphaned>>
      /\ UNCHANGED senderVars /\ UNCHANGED receiverVars
  BY DEF vars, serverVars, receiverHistory, senderHistory
<1>2. SenderInv'
  <2>1. UNCHANGED SP!vars
    BY <1>1 DEF SP!vars, SP!taskVars, SP!diskVars, senderVars
  <2> QED BY <1>1, <2>1, SP!StutterType, SenderAssumptions
          DEF AllInv, SenderInv, senderVars, SP!SendPart, SP!SendShape, SP!SentPrefix
<1>3. ReceiverInv'
  <2>1. UNCHANGED RP!vars
    BY <1>1 DEF RP!vars, RP!taskVars, RP!diskVars, receiverVars
  <2> QED BY <2>1, RP!StutterType, RP!StutterDisk, ReceiverAssumptions DEF AllInv, ReceiverInv
<1>4. Receipt'
  BY <1>1, IdleReceipt DEF receiverHistory
<1>5. Sending'
  <2>1. FilesKept /\ SenderSame
    BY <1>1, SameFiles DEF SenderSame, senderVars
  <2>2. NoAnswerComes /\ FitChunks
    BY <1>1 DEF NoAnswerComes, FitChunks
  <2>3. Fewer
    BY <1>1, SameFewer
  <2> QED BY <2>1, <2>2, <2>3, SendingKept DEF AllInv, RelayInv
<1>6. Wires'
  BY <1>1 DEF AllInv, RelayInv, Wires, ServerTypeOK, MessagesTyped, Roles, BeforeLogin, senderVars, receiverVars
<1> QED BY <1>2, <1>3, <1>4, <1>5, <1>6 DEF AllInv, RelayInv

LEMMA NextInv == ASSUME AllInv, [Next]_vars PROVE AllInv'
BY BothOnlineInv, ClientInv, ServerInv, StutterInv DEF Next

LEMMA AllInvHolds == Spec => []AllInv
<1>1. Init => AllInv
  BY InitInv
<1>2. AllInv /\ [Next]_vars => AllInv'
  BY NextInv
<1> QED BY <1>1, <1>2, PTL DEF Spec

(* What is under way, what the clients hold and what the server knows agree. *)
THEOREM RelayInvHolds == Spec => []RelayInv
<1>1. AllInv => RelayInv
  BY DEF AllInv
<1> QED BY <1>1, AllInvHolds, PTL

(* The INIT frame of a transfer reaches the task it belongs to. *)
THEOREM DetailsMatchHolds == Spec => []DetailsMatch
<1>1. AllInv => DetailsMatch
  BY DEF AllInv, RelayInv, Receipt
<1> QED BY <1>1, AllInvHolds, PTL

LEMMA InvType == ASSUME AllInv PROVE TypeOK
<1>1. S!TypeOK
  <2>1. SP!TypeOK
    BY DEF AllInv, SenderInv, SP!TypeInv
  <2> QED BY <2>1 DEF SP!TypeOK, S!TypeOK, SP!SendTask, S!SendTask, SP!Task, S!Task, SP!Frame, S!Frame,
                      SP!Slot, S!Slot, SP!SendState, S!SendState
<1>2. R!TypeOK
  <2>1. RP!TypeOK
    BY DEF AllInv, ReceiverInv, RP!TypeInv
  <2> QED BY <2>1 DEF RP!TypeOK, R!TypeOK, RP!SendTask, R!SendTask, RP!Task, R!Task, RP!Frame, R!Frame,
                      RP!Slot, R!Slot, RP!SendState, R!SendState
<1>3. \A k \in 1..Len(down[Receiver]) : down[Receiver][k].type = "CHUNK" =>
        \E file \in SendFiles \cup StrangerFiles : down[Receiver][k] \in ChunkIn(file)
  <2>1. MessagesTyped
    BY DEF AllInv, RelayInv, Wires
  <2> SUFFICES ASSUME NEW k \in 1..Len(down[Receiver]), down[Receiver][k].type = "CHUNK"
               PROVE  \E file \in Offered : down[Receiver][k] \in ChunkIn(file)
    BY DEF Offered
  <2>2. down[Receiver][k] \in ToReceiver
    BY <2>1, ElementOfSeq DEF MessagesTyped
  <2> QED BY <2>2, ToReceiverKinds
<1> QED BY <1>1, <1>2, <1>3 DEF AllInv, RelayInv, Wires, ServerTypeOK, TypeOK

(* The clients keep their types, the server its table of transfers, and the
   chunks under way belong to files that were offered. *)
THEOREM RelayTypeCorrect == Spec => []TypeOK
<1>1. AllInv => TypeOK
  BY InvType
<1> QED BY <1>1, AllInvHolds, PTL

-----------------------------------------------------------------------------
(* What a user of the receiver sees of a transfer. *)
Held(t)   == \E i \in Slots : rRecv[i].busy /\ rRecv[i].tid = t
Opened(t) == \E i \in Slots : rRecv[i].busy /\ rRecv[i].tid = t /\ rRecv[i].open

StatusFacts ==
  \A t \in Tid :
    /\ t \in kept => Status(t) = "kept"
    /\ Opened(t) => Status(t) = "open"
    /\ t \in rKnown /\ ~Held(t) /\ t \notin kept => Status(t) = "gone"
    /\ t \notin Transfers => Status(t) = "none"
    /\ t \in Transfers /\ ~Opened(t) /\ t \notin kept /\ (t \notin rKnown \/ Held(t)) => Status(t) = "offered"
    /\ Opened(t) => Held(t)
    /\ Held(t) => t \in rKnown /\ t \notin kept
    /\ t \in kept => t \in rKnown
    /\ t \in rKnown => t \in Transfers

LEMMA StatusNow == AllInv => StatusFacts
<1> SUFFICES ASSUME AllInv, NEW t \in Tid
    PROVE /\ t \in kept => Status(t) = "kept"
          /\ Opened(t) => Status(t) = "open"
          /\ t \in rKnown /\ ~Held(t) /\ t \notin kept => Status(t) = "gone"
          /\ t \notin Transfers => Status(t) = "none"
          /\ t \in Transfers /\ ~Opened(t) /\ t \notin kept /\ (t \notin rKnown \/ Held(t)) => Status(t) = "offered"
          /\ Opened(t) => Held(t)
          /\ Held(t) => t \in rKnown /\ t \notin kept
          /\ t \in kept => t \in rKnown
          /\ t \in rKnown => t \in Transfers
  BY DEF StatusFacts
<1>1. KnownTransfers
  BY DEF AllInv, RelayInv, Receipt
<1>2. /\ Opened(t) => Held(t)
      /\ Held(t) => t \in rKnown /\ t \notin kept
      /\ t \in kept => t \in rKnown
      /\ t \in rKnown => t \in Transfers
  BY <1>1 DEF KnownTransfers, Held, Opened, Slots
<1>3. /\ RecvTasks(t) = {} <=> ~Held(t)
      /\ (\E i \in RecvTasks(t) : rRecv[i].open) <=> Opened(t)
  BY DEF RecvTasks, Held, Opened, Slots
<1>4. xfer[t].state = "none" <=> t \notin Transfers
  BY DEF Transfers
<1> QED BY <1>2, <1>3, <1>4 DEF Status

LEMMA StatusNext == AllInv' => StatusFacts'
BY StatusNow, PTL

(* The steps of Delivery, as they are seen here. *)
OfferSame == \A t \in Tid : xfer'[t].file = xfer[t].file
SameStatus(t) == Status(t)' = Status(t)

Promised == Promise!Step \/ UNCHANGED Promise!vars

LEMMA NothingSeen ==
  ASSUME ~orphaned, ~orphaned', orphaned \in BOOLEAN, orphaned' \in BOOLEAN, OfferSame, data' = data,
         \A t \in Tid : SameStatus(t)
  PROVE  Promised
<1>1. [t \in Tid |-> Status(t)]' = [t \in Tid |-> Status(t)]
  BY DEF SameStatus
<1>2. [t \in Tid |-> xfer[t].file]' = [t \in Tid |-> xfer[t].file]
  BY DEF OfferSame
<1>3. orphaned' = orphaned
  OBVIOUS
<1> QED BY <1>1, <1>2, <1>3 DEF Promised, Promise!vars

LEMMA DroppedSeen ==
  ASSUME NEW some \in SUBSET Tid, some # {}, OfferSame, data' = data,
         \A t \in some : Status(t) \in {"offered", "open"} /\ Status(t)' = "gone",
         \A t \in Tid : t \notin some => SameStatus(t)
  PROVE  Promised
<1>1. [t \in Tid |-> Status(t)]' = [t \in Tid |-> IF t \in some THEN "gone" ELSE [u \in Tid |-> Status(u)][t]]
  BY DEF SameStatus
<1>2. [t \in Tid |-> xfer[t].file]' = [t \in Tid |-> xfer[t].file]
  BY DEF OfferSame
<1>3. \A t \in some : [u \in Tid |-> Status(u)][t] \in {"offered", "open"}
  OBVIOUS
<1>4. Promise!Drop(some)
  BY <1>1, <1>2, <1>3 DEF Promise!Drop
<1> QED BY <1>4 DEF Promised, Promise!Step

LEMMA OneChanged ==
  ASSUME NEW t \in Tid, NEW s, Status(t)' = s, \A u \in Tid : u # t => SameStatus(u)
  PROVE  [u \in Tid |-> Status(u)]' = [[u \in Tid |-> Status(u)] EXCEPT ![t] = s]
<1>1. \A u \in Tid : Status(u)' = IF u = t THEN s ELSE Status(u)
  BY DEF SameStatus
<1> QED BY <1>1

LEMMA OpenedSeen ==
  ASSUME NEW t \in Tid, OfferSame, data' = data, Status(t) = "offered", Status(t)' = "open",
         \A u \in Tid : Status(u) # "open", \A u \in Tid : u # t => SameStatus(u)
  PROVE  Promised
<1>1. [u \in Tid |-> Status(u)]' = [[u \in Tid |-> Status(u)] EXCEPT ![t] = "open"]
  BY OneChanged
<1>2. [u \in Tid |-> xfer[u].file]' = [u \in Tid |-> xfer[u].file]
  BY DEF OfferSame
<1>3. Promise!Open(t)
  BY <1>1, <1>2 DEF Promise!Open
<1> QED BY <1>3 DEF Promised, Promise!Step

LEMMA OfferedSeen ==
  ASSUME NEW t \in Tid, data' = data, Status(t) = "none", Status(t)' = "offered",
         xfer'[t].file \in Offered, \A u \in Tid : u # t => SameStatus(u) /\ xfer'[u].file = xfer[u].file
  PROVE  Promised
<1>1. [u \in Tid |-> Status(u)]' = [[u \in Tid |-> Status(u)] EXCEPT ![t] = "offered"]
  BY OneChanged
<1>2. /\ [u \in Tid |-> xfer[u].file]'[t] \in SendFiles \cup StrangerFiles
      /\ \A u \in Tid \ {t} : [v \in Tid |-> xfer[v].file]'[u] = [v \in Tid |-> xfer[v].file][u]
  BY DEF Offered
<1>3. Promise!Offer(t)
  BY <1>1, <1>2 DEF Promise!Offer
<1> QED BY <1>3 DEF Promised, Promise!Step

LEMMA KeptSeen ==
  ASSUME NEW t \in Tid, OfferSame, data' = data, Status(t) = "open", Status(t)' = "kept",
         data[t] = {xfer[t].file} \X (0..FileSize[xfer[t].file]-1), \A u \in Tid : u # t => SameStatus(u)
  PROVE  Promised
<1>1. [u \in Tid |-> Status(u)]' = [[u \in Tid |-> Status(u)] EXCEPT ![t] = "kept"]
  BY OneChanged
<1>2. [u \in Tid |-> xfer[u].file]' = [u \in Tid |-> xfer[u].file]
  BY DEF OfferSame
<1>3. [u \in Tid |-> xfer[u].file][t] = xfer[t].file
  OBVIOUS
<1>4. Promise!Keep(t)
  BY <1>1, <1>2, <1>3 DEF Promise!Keep, Promise!Whole
<1> QED BY <1>4 DEF Promised, Promise!Step

LEMMA FilledSeen ==
  ASSUME NEW t \in Tid, OfferSame, Status(t) = "open", \A u \in Tid : SameStatus(u),
         data'[t] \subseteq {xfer[t].file} \X (0..FileSize[xfer[t].file]-1),
         data[t] \subseteq data'[t], data'[t] # data[t], \A u \in Tid : u # t => data'[u] = data[u]
  PROVE  Promised
<1>1. [u \in Tid |-> Status(u)]' = [u \in Tid |-> Status(u)]
  BY DEF SameStatus
<1>2. [u \in Tid |-> xfer[u].file]' = [u \in Tid |-> xfer[u].file]
  BY DEF OfferSame
<1>3. [u \in Tid |-> xfer[u].file][t] = xfer[t].file
  OBVIOUS
<1>4. Promise!Fill(t)
  BY <1>1, <1>2, <1>3 DEF Promise!Fill, Promise!Whole
<1> QED BY <1>4 DEF Promised, Promise!Step

Viewed ==
  /\ AllInv /\ AllInv' /\ StatusFacts /\ StatusFacts' /\ ~orphaned /\ ~orphaned'

LEMMA ViewSame ==
  ASSUME StatusFacts, StatusFacts', NEW t \in Tid, t \in kept' <=> t \in kept,
         Opened(t)' <=> Opened(t), Held(t)' <=> Held(t), t \in rKnown' <=> t \in rKnown,
         t \in Transfers' <=> t \in Transfers
  PROVE  SameStatus(t)
BY DEF StatusFacts, SameStatus

LEMMA OneTask ==
  ASSUME NEW i \in Slots, \A j \in Slots : j # i => rRecv'[j] = rRecv[j], NEW t,
         rRecv[i].busy => rRecv[i].tid = t, rRecv'[i].busy => rRecv'[i].tid = t, NEW u, u # t
  PROVE  (Held(u)' <=> Held(u)) /\ (Opened(u)' <=> Opened(u))
BY DEF Held, Opened

LEMMA SameTaskView ==
  ASSUME \A j \in Slots : /\ (rRecv'[j].busy <=> rRecv[j].busy) /\ rRecv'[j].tid = rRecv[j].tid
                          /\ rRecv'[j].open <=> rRecv[j].open,
         NEW u
  PROVE  (Held(u)' <=> Held(u)) /\ (Opened(u)' <=> Opened(u))
BY DEF Held, Opened

LEMMA SameOffers == ASSUME xfer' = xfer PROVE OfferSame /\ Transfers' = Transfers
BY DEF OfferSame, Transfers

(* Nothing is done to a task. *)
LEMMA IdleSeen ==
  ASSUME Viewed, UNCHANGED <<xfer, data, kept, rKnown>>,
         \A j \in Slots : /\ (rRecv'[j].busy <=> rRecv[j].busy) /\ rRecv'[j].tid = rRecv[j].tid
                          /\ rRecv'[j].open <=> rRecv[j].open
  PROVE  Promised
<1>1. OfferSame /\ Transfers' = Transfers
  BY SameOffers
<1>2. \A u \in Tid : SameStatus(u)
  BY <1>1, SameTaskView, ViewSame DEF Viewed
<1>3. orphaned \in BOOLEAN /\ orphaned' \in BOOLEAN
  BY DEF Viewed, AllInv, RelayInv, Wires, ServerTypeOK
<1> QED BY <1>1, <1>2, <1>3, NothingSeen DEF Viewed

(* A task is done with, and its file is not kept. *)
LEMMA DropsSeen ==
  ASSUME Viewed, NEW i \in Slots, Drops(i), UNCHANGED <<xfer, data, kept>>
  PROVE  Promised
<1>0. ReceiverInv /\ KnownTransfers
  BY DEF Viewed, AllInv, RelayInv, Receipt
<1>1. rRecv[i].busy /\ rRecv' = [rRecv EXCEPT ![i] = R!FreeTask] /\ rKnown' = rKnown
  BY DEF Drops, R!RecvClear
<1>2. ~rRecv'[i].busy /\ \A j \in Slots : j # i => rRecv'[j] = rRecv[j]
  BY <1>0, <1>1, FreedFacts
<1>3. OfferSame /\ Transfers' = Transfers
  BY SameOffers
<1>4. PICK t : t = rRecv[i].tid
  OBVIOUS
<1>5. Held(t) /\ t \in Tid
  BY <1>0, <1>1, <1>4 DEF Held, KnownTransfers, Transfers, Slots
<1>6. ~Held(t)'
  BY <1>0, <1>1, <1>2, <1>4 DEF Held, KnownTransfers, Slots
<1>7. t \in rKnown /\ t \notin kept /\ t \in Transfers
  BY <1>5 DEF Viewed, StatusFacts
<1>8. Status(t) \in {"offered", "open"}
  BY <1>5, <1>7 DEF Viewed, StatusFacts
<1>9. Status(t)' = "gone"
  BY <1>1, <1>5, <1>6, <1>7 DEF Viewed, StatusFacts
<1>10. \A u \in Tid : u # t => SameStatus(u)
  BY <1>1, <1>2, <1>3, <1>4, OneTask, ViewSame DEF Viewed
<1>11. {t} \in SUBSET Tid /\ {t} # {}
  BY <1>5
<1>12. \A u \in {t} : Status(u) \in {"offered", "open"} /\ Status(u)' = "gone"
  BY <1>8, <1>9
<1>13. \A u \in Tid : u \notin {t} => SameStatus(u)
  BY <1>10
<1> QED BY <1>3, <1>11, <1>12, <1>13, DroppedSeen

(* A file is accepted. *)
LEMMA OpensSeen ==
  ASSUME Viewed, NEW i \in Slots, Opens(i), UNCHANGED <<xfer, data, kept>>
  PROVE  Promised
<1>0. ReceiverInv /\ KnownTransfers
  BY DEF Viewed, AllInv, RelayInv, Receipt
<1>1. PICK name \in Name : rRecv' = [rRecv EXCEPT ![i].open = TRUE, ![i].name = name]
  BY DEF Opens
<1>2. rRecv[i].busy /\ rKnown' = rKnown /\ \A j \in Slots : ~rRecv[j].open
  BY <1>0, TaskFacts, SlotsAre DEF Opens, R!RecvActive
<1>3. /\ rRecv'[i].open /\ rRecv'[i].busy /\ rRecv'[i].tid = rRecv[i].tid
      /\ \A j \in Slots : j # i => rRecv'[j] = rRecv[j]
  BY <1>0, <1>1, <1>2, TaskFacts DEF RP!Task
<1>4. PICK t : t = rRecv[i].tid
  OBVIOUS
<1>5. OfferSame /\ Transfers' = Transfers
  BY SameOffers
<1>6. Held(t) /\ t \in Tid /\ \A u : ~Opened(u)
  BY <1>0, <1>2, <1>4 DEF Held, Opened, KnownTransfers, Transfers, Slots
<1>7. Opened(t)'
  BY <1>3, <1>4 DEF Opened
<1>8. Status(t) = "offered" /\ Status(t)' = "open"
  BY <1>6, <1>7 DEF Viewed, StatusFacts
<1>9. \A u \in Tid : Status(u) # "open"
  BY <1>6 DEF Viewed, StatusFacts
<1>10. \A u \in Tid : u # t => SameStatus(u)
  BY <1>2, <1>3, <1>4, <1>5, OneTask, ViewSame DEF Viewed
<1> QED BY <1>5, <1>6, <1>8, <1>9, <1>10, OpenedSeen

(* A transfer is announced: it waits in a slot, or is refused for want of one. *)
LEMMA MeetsSeen ==
  ASSUME Viewed, NEW t \in Transfers \ rKnown, Meets(t), UNCHANGED <<xfer, data, kept>>
  PROVE  Promised
<1>0. ReceiverInv /\ KnownTransfers /\ t \in Tid
  BY DEF Viewed, AllInv, RelayInv, Receipt, Transfers
<1>1. rKnown' = rKnown \cup {t}
  BY DEF Meets
<1>2. OfferSame /\ Transfers' = Transfers
  BY SameOffers
<1>3. ~Held(t) /\ ~Opened(t) /\ t \notin kept /\ Status(t) = "offered"
  BY <1>0 DEF Viewed, StatusFacts
<1>4. CASE rRecv' = rRecv
  <2>1. \A u \in Tid : (Held(u)' <=> Held(u)) /\ (Opened(u)' <=> Opened(u))
    BY <1>4, SameTaskView
  <2>2. Status(t)' = "gone"
    BY <1>0, <1>1, <1>3, <2>1 DEF Viewed, StatusFacts
  <2>3. \A u \in Tid : u # t => SameStatus(u)
    BY <1>1, <1>2, <2>1, ViewSame DEF Viewed
  <2>4. \A u \in {t} : Status(u) \in {"offered", "open"} /\ Status(u)' = "gone"
    BY <1>3, <2>2
  <2>5. {t} \in SUBSET Tid /\ {t} # {} /\ \A u \in Tid : u \notin {t} => SameStatus(u)
    BY <1>0, <2>3
  <2> QED BY <1>2, <2>4, <2>5, DroppedSeen
<1>5. ASSUME NEW i \in Slots, NEW seq \in Nat, ~rRecv[i].busy,
             rRecv' = [rRecv EXCEPT ![i] = [R!FreeTask EXCEPT !.busy = TRUE, !.tid = t, !.seq = seq]]
      PROVE  Promised
  <2>1. /\ rRecv'[i].busy /\ rRecv'[i].tid = t /\ ~rRecv'[i].open
        /\ \A j \in Slots : j # i => rRecv'[j] = rRecv[j]
    BY <1>0, <1>5, TaskFacts DEF R!FreeTask
  <2>2. Held(t)' /\ ~Opened(t)'
    BY <1>3, <2>1 DEF Held, Opened
  <2>3. Status(t)' = "offered"
    BY <1>0, <1>2, <1>3, <2>2 DEF Viewed, StatusFacts
  <2>4. \A u \in Tid : u # t => SameStatus(u)
    BY <1>1, <1>2, <1>5, <2>1, OneTask, ViewSame DEF Viewed
  <2>5. \A u \in Tid : SameStatus(u)
    BY <1>3, <2>3, <2>4 DEF SameStatus
  <2>6. orphaned \in BOOLEAN /\ orphaned' \in BOOLEAN
    BY DEF Viewed, AllInv, RelayInv, Wires, ServerTypeOK
  <2> QED BY <1>2, <2>5, <2>6, NothingSeen DEF Viewed
<1> QED BY <1>4, <1>5 DEF Meets

(* A piece of the file arrives. *)
LEMMA StoresSeen ==
  ASSUME Viewed, NEW m, NEW i \in Slots, Stores(i, m), m.offset \in Nat, m.len \in Nat, m.tid \in Tid,
         data' = [data EXCEPT ![m.tid] = @ \cup ({m.file} \X R!Bytes(m.offset, m.len))],
         UNCHANGED <<xfer, kept>>
  PROVE  Promised
<1> DEFINE bytes == R!Bytes(m.offset, m.len)
<1>0. /\ ReceiverInv /\ ReceiverInv' /\ KnownTransfers /\ DetailsMatch /\ DataOnDisk /\ DataOnDisk'
      /\ ~orphaned /\ ~orphaned'
  BY DEF Viewed, AllInv, RelayInv, Receipt
<1>1. /\ rRecv' = [rRecv EXCEPT ![i].marked = @ \cup {m.offset},
                                ![i].received = @ + m.len, ![i].buffered = bytes]
      /\ rContent' = [rContent EXCEPT ![rRecv[i].name] = @ \cup bytes]
      /\ rKnown' = rKnown /\ rRecv[i].open /\ rRecv[i].busy /\ rRecv[i].tid = m.tid
      /\ R!SpanLegal(rRecv[i].size, rRecv[i].marked, m.offset, m.len)
  BY DEF Stores, R!StoreSpan
<1>2. m.offset \in bytes /\ bytes \cap rContent[rRecv[i].name] = {}
  <2>1. RP!SpanLegal(rRecv[i].size, rRecv[i].marked, m.offset, m.len)
    BY <1>1 DEF R!SpanLegal, RP!SpanLegal
  <2>2. RP!Bytes(m.offset, m.len) \cap rContent[rRecv[i].name] = {}
    BY <1>0, <1>1, <2>1, RP!FreshBytes, ReceiverAssumptions, SlotsAre DEF ReceiverInv
  <2>3. m.len # 0
    BY <1>1 DEF R!SpanLegal
  <2>4. bytes = m.offset .. m.offset + m.len - 1 /\ RP!Bytes(m.offset, m.len) = bytes
    BY DEF R!Bytes, RP!Bytes
  <2> HIDE DEF bytes
  <2> QED BY <2>2, <2>3, <2>4
<1> HIDE DEF bytes
<1>3. /\ rRecv'[i].open /\ rRecv'[i].busy /\ rRecv'[i].tid = rRecv[i].tid
      /\ rRecv'[i].size = rRecv[i].size /\ rRecv'[i].name = rRecv[i].name
      /\ \A j \in Slots : j # i => rRecv'[j] = rRecv[j]
  BY <1>0, <1>1, TaskFacts DEF RP!Task
<1>4. rContent'[rRecv[i].name] = rContent[rRecv[i].name] \cup bytes
  BY <1>0, <1>1, TaskFacts
<1>5. PICK t, file, old, new : /\ t = m.tid /\ file = xfer[t].file
                               /\ old = rContent[rRecv[i].name] /\ new = rContent'[rRecv[i].name]
  OBVIOUS
<1>6. data[t] = {file} \X old
  BY <1>0, <1>1, <1>5 DEF DataOnDisk, Slots
<1>7. data'[t] = {file} \X new
  <2>1. data'[rRecv'[i].tid] = {xfer'[rRecv'[i].tid].file} \X rContent'[rRecv'[i].name]
    BY <1>0, <1>3 DEF DataOnDisk, Slots
  <2>2. rRecv'[i].tid = t /\ xfer' = xfer /\ rContent'[rRecv'[i].name] = new
    BY <1>1, <1>3, <1>5
  <2> QED BY <1>5, <2>1, <2>2
<1>8. rRecv[i].size = FileSize[file]
  BY <1>0, <1>1, <1>5, TaskFacts DEF DetailsMatch, Slots
<1>9. new \subseteq 0..FileSize[file]-1
  <2>1. RP!ReceivedMatchesDisk'
    BY <1>0 DEF ReceiverInv, RP!DiskInv
  <2> QED BY <1>3, <1>5, <1>8, <2>1, SlotsAre DEF RP!ReceivedMatchesDisk
<1>10. old \subseteq new /\ m.offset \in new /\ m.offset \notin old
  BY <1>2, <1>4, <1>5
<1>11. /\ data'[t] \subseteq {file} \X (0..FileSize[file]-1)
       /\ data[t] \subseteq data'[t]
  BY <1>6, <1>7, <1>9, <1>10
<1>12. data'[t] # data[t]
  <2>1. <<file, m.offset>> \in data'[t] /\ <<file, m.offset>> \notin data[t]
    BY <1>6, <1>7, <1>10
  <2> QED BY <2>1
<1>13. \A u \in Tid : u # t => data'[u] = data[u]
  BY <1>0, <1>5 DEF DataOnDisk
<1>14. OfferSame /\ Transfers' = Transfers
  BY SameOffers
<1>15. Opened(t)
  BY <1>1, <1>5 DEF Opened
<1>16. Status(t) = "open"
  BY <1>5, <1>15 DEF Viewed, StatusFacts
<1>17. \A j \in Slots : /\ (rRecv'[j].busy <=> rRecv[j].busy) /\ rRecv'[j].tid = rRecv[j].tid
                        /\ rRecv'[j].open <=> rRecv[j].open
  BY <1>1, <1>3
<1>18. \A u \in Tid : SameStatus(u)
  BY <1>1, <1>14, <1>17, SameTaskView, ViewSame DEF Viewed
<1> QED BY <1>5, <1>11, <1>12, <1>13, <1>14, <1>16, <1>18, FilledSeen

(* The file is kept. *)
LEMMA KeepsSeen ==
  ASSUME Viewed, NEW i \in Slots, Keeps(i), xfer' = xfer, data' = data, kept' = kept \cup {rRecv[i].tid}
  PROVE  Promised
<1>0. /\ ReceiverInv /\ KnownTransfers /\ DetailsMatch /\ DataOnDisk /\ ~orphaned
  BY DEF Viewed, AllInv, RelayInv, Receipt
<1>1. /\ rRecv[i].busy /\ rRecv[i].open /\ rRecv[i].received = rRecv[i].size
      /\ rRecv' = [rRecv EXCEPT ![i] = R!FreeTask] /\ rKnown' = rKnown
  BY DEF Keeps
<1>2. ~rRecv'[i].busy /\ \A j \in Slots : j # i => rRecv'[j] = rRecv[j]
  BY <1>0, <1>1, FreedFacts
<1>3. PICK t, file, bytes : t = rRecv[i].tid /\ file = xfer[t].file /\ bytes = rContent[rRecv[i].name]
  OBVIOUS
<1>4. t \in Tid /\ Opened(t)
  BY <1>0, <1>1, <1>3 DEF Opened, KnownTransfers, Transfers, Slots
<1>5. Status(t) = "open" /\ Status(t)' = "kept"
  BY <1>3, <1>4 DEF Viewed, StatusFacts
<1>6. data[t] = {file} \X bytes
  BY <1>0, <1>1, <1>3 DEF DataOnDisk, Slots
<1>7. rRecv[i].size = FileSize[file] /\ rRecv[i].size \in Nat
  <2>1. rRecv[i].inited /\ rRecv[i].received \in Nat
    BY <1>0, <1>1, TaskFacts DEF RP!Task
  <2> QED BY <1>0, <1>1, <1>3, <2>1 DEF DetailsMatch, Slots
<1>8. bytes = 0..FileSize[file]-1
  <2>1. bytes \subseteq 0..rRecv[i].size-1 /\ rRecv[i].received = RP!Cardinality(bytes)
    BY <1>0, <1>1, <1>3, SlotsAre DEF ReceiverInv, RP!DiskInv, RP!ReceivedMatchesDisk
  <2>2. bytes = 0..rRecv[i].size-1
    BY <1>1, <1>7, <2>1, RP!CountMeansAll, ReceiverAssumptions
  <2> QED BY <1>7, <2>2
<1>9. OfferSame /\ Transfers' = Transfers
  BY SameOffers
<1>10. \A u \in Tid : u # t => SameStatus(u)
  BY <1>1, <1>2, <1>3, <1>9, OneTask, ViewSame DEF Viewed
<1> QED BY <1>3, <1>4, <1>5, <1>6, <1>8, <1>9, <1>10, KeptSeen

(* All that has not been finished is dropped. *)
LEMMA GoneSeen ==
  ASSUME Viewed, rRecv' = [i \in Slots |-> R!FreeTask], UNCHANGED <<xfer, data, kept, rKnown>>
  PROVE  Promised
<1>1. \A u : ~Held(u)' /\ ~Opened(u)'
  BY DEF Held, Opened, R!FreeTask
<1>2. OfferSame /\ Transfers' = Transfers
  BY SameOffers
<1>3. PICK some : some = {t \in Tid : Held(t)}
  OBVIOUS
<1>4. \A t \in some : Status(t) \in {"offered", "open"} /\ Status(t)' = "gone"
  BY <1>1, <1>3 DEF Viewed, StatusFacts
<1>5. \A t \in Tid : t \notin some => SameStatus(t)
  <2>1. \A t \in Tid : t \notin some => ~Held(t) /\ ~Opened(t)
    BY <1>3 DEF Viewed, StatusFacts
  <2> QED BY <1>1, <1>2, <2>1, ViewSame DEF Viewed
<1>6. CASE some = {}
  <2>1. orphaned \in BOOLEAN /\ orphaned' \in BOOLEAN
    BY DEF Viewed, AllInv, RelayInv, Wires, ServerTypeOK
  <2> QED BY <1>2, <1>5, <1>6, <2>1, NothingSeen DEF Viewed
<1>7. CASE some # {}
  BY <1>2, <1>3, <1>4, <1>5, <1>7, DroppedSeen
<1> QED BY <1>6, <1>7

(* The receiver's steps. *)
LEMMA HandlesSeen == ASSUME Viewed, ReceiverHandles PROVE Promised
<1> DEFINE m == Head(down[Receiver])
<1>1. /\ down[Receiver] # <<>> /\ R!Listening /\ R!Handle(m) /\ RecordFiles(m) /\ xfer' = xfer
  BY DEF ReceiverHandles, serverVars
<1> HIDE DEF m
<1>2. ReceiverInv /\ Roles /\ BeforeLogin /\ Receipt /\ MessagesTyped /\ AllInv
  BY DEF Viewed, AllInv, RelayInv, Wires
<1>3. m \in ToReceiver /\ m = down[Receiver][1] /\ Len(down[Receiver]) \in Nat \ {0}
  BY <1>1, <1>2, ReceiverQueue, Tailed DEF m
<1>4. Taken(m)
  BY <1>1, <1>2, <1>3, ReceiverHandlesAny
<1>5. rPhase # "killed"
  BY <1>2 DEF BeforeLogin
<1>6. \A j \in Slots : rRecv[j].received \in Nat
  BY <1>2, TaskFacts DEF RP!Task
<1>7. ASSUME IsOffer(m), Meets(m.text.digits[1]), m.type = "SERVER_MSG" PROVE Promised
  <2>1. m.text.digits[1] \in Transfers \ rKnown
    <3>1. 1 \in Offers
      BY <1>3, <1>7 DEF Offers
    <3>2. OfferAt(1) \in Transfers \ rKnown
      BY <1>2, <3>1 DEF Receipt, OfferedOnce
    <3> QED BY <1>3, <3>2 DEF OfferAt
  <2>2. UNCHANGED <<data, kept>>
    BY <1>1, <1>2, <1>7, NothingStored DEF Meets
  <2> QED BY <1>1, <1>7, <2>1, <2>2, MeetsSeen
<1>8. ASSUME NEW i \in Slots, Learns(i, m) PROVE Promised
  <2>1. m.type = "INIT" /\ rSaved' = rSaved /\ rKnown' = rKnown
    BY <1>8 DEF Learns
  <2>2. UNCHANGED <<data, kept>>
    BY <1>1, <1>2, <2>1, NothingStored
  <2>3. \A j \in Slots : /\ (rRecv'[j].busy <=> rRecv[j].busy) /\ rRecv'[j].tid = rRecv[j].tid
                         /\ rRecv'[j].open <=> rRecv[j].open
    <3>1. rRecv' = [rRecv EXCEPT ![i].inited = TRUE, ![i].file = m.file, ![i].size = m.size]
      BY <1>8 DEF Learns
    <3>2. rRecv \in [Slots -> RP!Task]
      BY <1>2, TaskFacts
    <3>3. /\ rRecv'[i].busy = rRecv[i].busy /\ rRecv'[i].tid = rRecv[i].tid /\ rRecv'[i].open = rRecv[i].open
          /\ \A j \in Slots : j # i => rRecv'[j] = rRecv[j]
      BY <3>1, <3>2 DEF RP!Task
    <3> QED BY <3>3
  <2> QED BY <1>1, <2>1, <2>2, <2>3, IdleSeen
<1>9. ASSUME Same PROVE Promised
  <2>1. rSaved' = rSaved /\ rRecv' = rRecv /\ rKnown' = rKnown
    BY <1>9 DEF Same
  <2>2. UNCHANGED <<data, kept>>
    BY <1>1, <1>2, <1>6, <2>1, NothingStored
  <2> QED BY <1>1, <2>1, <2>2, IdleSeen
<1>10. ASSUME NEW i \in Slots, Drops(i) PROVE Promised
  <2>1. /\ rSaved' = rSaved /\ rRecv' = [rRecv EXCEPT ![i] = R!FreeTask]
    BY <1>10 DEF Drops, R!RecvClear
  <2>2. \A j \in Slots : ~(rRecv'[j].received > rRecv[j].received)
    <3>1. rRecv'[i].received = 0 /\ \A j \in Slots : j # i => rRecv'[j] = rRecv[j]
      BY <1>2, <2>1, TaskFacts DEF R!FreeTask
    <3> QED BY <1>6, <3>1
  <2>3. UNCHANGED <<data, kept>>
    BY <1>1, <1>2, <2>1, <2>2, NothingStored
  <2> QED BY <1>1, <1>10, <2>3, DropsSeen
<1>11. ASSUME NEW i \in Slots, Stores(i, m) PROVE Promised
  <2>1. m.type = "CHUNK"
    BY <1>11 DEF Stores
  <2>2. m.offset \in Nat /\ m.len \in Nat /\ m.tid \in Tid
    BY <1>3, <2>1, ToReceiverKinds, ChunkParts
  <2>3. /\ data' = [data EXCEPT ![m.tid] = @ \cup ({m.file} \X R!Bytes(m.offset, m.len))]
        /\ kept' = kept
    BY <1>1, <1>2, <1>11, <2>2, StoreRecorded
  <2> QED BY <1>1, <1>11, <2>2, <2>3, StoresSeen
<1>12. ASSUME m.type # "CHUNK", NEW i \in Slots, Keeps(i) PROVE Promised
  <2>1. data' = data /\ kept' = kept \cup {rRecv[i].tid}
    BY <1>1, <1>2, <1>5, <1>12, KeepRecorded
  <2> QED BY <1>1, <1>12, <2>1, KeepsSeen
<1> QED BY <1>4, <1>7, <1>8, <1>9, <1>10, <1>11, <1>12 DEF Taken

LEMMA CommandsSeen == ASSUME Viewed, ReceiverCommands PROVE Promised
<1>1. PICK tid \in TypedTid : R!CmdAccept(tid) \/ R!CmdReject(tid) \/ R!CmdCancel(tid)
  BY DEF ReceiverCommands
<1>2. UNCHANGED <<xfer, data, kept>>
  BY DEF ReceiverCommands, serverVars, receiverHistory
<1>3. PICK i \in Slots : Drops(i) \/ Opens(i)
  BY <1>1, ReceiverCommanded DEF Viewed, AllInv, RelayInv, Wires
<1> QED BY <1>2, <1>3, DropsSeen, OpensSeen

(* A step that is not the receiver's leaves its tasks alone. *)
LEMMA OthersSeen ==
  ASSUME Viewed, ReceiverIdle, UNCHANGED <<receiverHistory, serverVars>> PROVE Promised
<1>1. UNCHANGED <<xfer, data, kept, rKnown, rRecv>>
  BY DEF ReceiverIdle, receiverVars, receiverHistory, serverVars
<1> QED BY <1>1, IdleSeen

LEMMA LivesSeen ==
  ASSUME Viewed, R!SessionStart \/ R!Stop \/ R!Destroy, UNCHANGED <<xfer, receiverHistory>> PROVE Promised
<1>1. /\ R!SessionStart => rRecv' = [i \in Slots |-> R!FreeTask]
      /\ R!Stop => rRecv' = rRecv
      /\ R!Destroy => rRecv' = [i \in Slots |-> R!FreeTask]
      /\ rKnown' = rKnown
  BY ReceiverLives DEF Viewed, AllInv
<1>2. UNCHANGED <<xfer, data, kept>>
  BY DEF receiverHistory
<1>3. CASE R!Stop
  <2>1. UNCHANGED <<xfer, data, kept, rKnown>> /\ rRecv' = rRecv
    BY <1>1, <1>2, <1>3
  <2> QED BY <2>1, IdleSeen
<1>4. CASE R!SessionStart \/ R!Destroy
  BY <1>1, <1>2, <1>4, GoneSeen
<1> QED BY <1>3, <1>4

LEMMA ClientSeen == ASSUME Viewed, Client PROVE Promised
<1>1. CASE SenderOffers \/ SenderCancels \/ SenderTicks
  <2>1. ReceiverIdle /\ UNCHANGED <<receiverHistory, serverVars>>
    BY <1>1 DEF SenderOffers, SenderCancels, SenderTicks, SenderDoes
  <2> QED BY <2>1, OthersSeen
<1>2. CASE SenderHandles
  <2>1. ReceiverIdle /\ UNCHANGED <<receiverHistory, serverVars>>
    BY <1>2 DEF SenderHandles
  <2> QED BY <2>1, OthersSeen
<1>3. CASE SenderGone
  BY <1>3, OthersSeen DEF SenderGone, ClientEnds
<1>4. CASE ReceiverGone
  BY <1>4, LivesSeen DEF ReceiverGone, ClientEnds, serverVars
<1>5. CASE Leave
  <2>1. CASE ClientEnds(S!Stop) /\ ReceiverIdle
    BY <2>1, OthersSeen DEF ClientEnds
  <2>2. CASE ClientEnds(R!Stop)
    BY <2>2, LivesSeen DEF ClientEnds, serverVars
  <2> QED BY <1>5, <2>1, <2>2 DEF Leave
<1> QED BY <1>1, <1>2, <1>3, <1>4, <1>5, HandlesSeen, CommandsSeen DEF Client

-----------------------------------------------------------------------------
(* The server's steps: it numbers a transfer, or its files stay as they are. *)
Numbers ==
  \E t \in Unnumbered : \E file, from :
    xfer' = [xfer EXCEPT ![t] = [state |-> "pending", file |-> file, from |-> from]]

Settles == OfferSame /\ Transfers' = Transfers

LEMMA BecomesSettles ==
  ASSUME AllInv, NEW t \in Tid, xfer[t].state # "none", NEW state \in {"active", "over"}, Becomes(t, state)
  PROVE  Settles
<1>1. xfer \in XferType
  BY TransferFacts
<1>2. /\ xfer'[t].state = state /\ xfer'[t].file = xfer[t].file
      /\ \A u \in Tid : u # t => xfer'[u] = xfer[u]
  BY <1>1 DEF Becomes, XferType
<1> QED BY <1>2 DEF Settles, OfferSame, Transfers

LEMMA ServeMoves ==
  ASSUME AllInv, NEW c \in {Sender, Receiver}, NEW i \in 1..Len(up[c]), NEW f \in up[c][i], Serve(c, f)
  PROVE  Numbers \/ Settles
<1>0. xfer' = xfer => Settles
  BY SameOffers DEF Settles
<1>1. f.type \in {"INIT", "ACCEPT", "REJECT", "CANCEL", "CHUNK", "COMPLETE"}
  <2>0. MessagesTyped
    BY DEF AllInv, RelayInv, Wires
  <2>1. CASE c = Sender
    <3>1. f \in FromSender
      BY <2>0, <2>1, ElementOfSeq DEF MessagesTyped
    <3> QED BY <3>1, FromSenderKinds
  <2>2. CASE c = Receiver
    <3>1. f \in FromReceiver
      BY <2>0, <2>2, ElementOfSeq DEF MessagesTyped
    <3> QED BY <3>1 DEF FromReceiver
  <2> QED BY <2>1, <2>2
<1>2. CASE f.type = "INIT"
  BY <1>0, <1>2 DEF Serve, ServeInit, NumberTransfer, Numbers
<1>3. CASE f.type = "ACCEPT"
  BY <1>0, <1>3, BecomesSettles DEF Serve, ServeAccept, Misfit, StateOf
<1>4. CASE f.type = "REJECT"
  BY <1>0, <1>4, BecomesSettles DEF Serve, ServeReject, Misfit, StateOf
<1>5. CASE f.type = "CANCEL"
  BY <1>0, <1>5, BecomesSettles DEF Serve, ServeCancel, StateOf
<1>6. CASE f.type = "CHUNK"
  BY <1>0, <1>6 DEF Serve, ServeChunk, Misfit
<1>7. CASE f.type = "COMPLETE"
  BY <1>0, <1>7, BecomesSettles DEF Serve, ServeComplete, Completed, Misfit, StateOf
<1> QED BY <1>1, <1>2, <1>3, <1>4, <1>5, <1>6, <1>7

LEMMA ServerMoves == ASSUME AllInv, Server PROVE ServerFrame /\ (Numbers \/ Settles)
<1>0. xfer' = xfer => Settles
  BY SameOffers DEF Settles
<1>1. ASSUME NEW c \in {Sender, Receiver}, ServerTakes(c) PROVE ServerFrame /\ (Numbers \/ Settles)
  BY <1>1, ServeMoves DEF ServerTakes, ServerFrame
<1>2. ASSUME NEW c \in {Sender, Receiver}, ServerHangsUp(c) PROVE ServerFrame /\ Settles
  <2>1. xfer \in XferType
    BY TransferFacts
  <2>2. /\ xfer' = [t \in Tid |-> IF Over(t, c) THEN [xfer[t] EXCEPT !.state = "over"] ELSE xfer[t]]
        /\ ServerFrame
    BY <1>2 DEF ServerHangsUp, ServerFrame
  <2>3. \A t \in Tid : xfer'[t].file = xfer[t].file /\ (xfer'[t].state = "none" <=> xfer[t].state = "none")
    BY <2>1, <2>2 DEF XferType, Over
  <2> QED BY <2>2, <2>3 DEF Settles, OfferSame, Transfers
<1>3. CASE ServerDenies
  BY <1>0, <1>3 DEF ServerDenies, ServerFrame, serverVars
<1>4. CASE StrangerOffers
  BY <1>4 DEF StrangerOffers, ServerFrame, NumberTransfer, Numbers
<1>5. CASE StrangerEnds
  BY <1>0, <1>5, BecomesSettles DEF StrangerEnds, ServerFrame, ServeCancel, StateOf
<1> QED BY <1>1, <1>2, <1>3, <1>4, <1>5 DEF Server

LEMMA ServerSeen == ASSUME Viewed, Server PROVE Promised
<1>1. ServerFrame /\ (Numbers \/ Settles)
  BY ServerMoves DEF Viewed
<1>2. UNCHANGED <<data, kept, rKnown, rRecv>>
  BY <1>1 DEF ServerFrame, ReceiverIdle, receiverVars, receiverHistory
<1>3. \A u : (Held(u)' <=> Held(u)) /\ (Opened(u)' <=> Opened(u))
  BY <1>2, SameTaskView
<1>4. orphaned \in BOOLEAN /\ orphaned' \in BOOLEAN
  BY DEF Viewed, AllInv, RelayInv, Wires, ServerTypeOK
<1>5. CASE Settles
  <2>1. \A u \in Tid : SameStatus(u)
    BY <1>2, <1>3, <1>5, ViewSame DEF Viewed, Settles
  <2> QED BY <1>2, <1>4, <1>5, <2>1, NothingSeen DEF Viewed, Settles
<1>6. CASE Numbers
  <2>1. PICK t \in Unnumbered : \E file, from :
          xfer' = [xfer EXCEPT ![t] = [state |-> "pending", file |-> file, from |-> from]]
    BY <1>6 DEF Numbers
  <2>2. t \in Tid /\ xfer[t].state = "none" /\ xfer \in XferType
    BY TransferFacts DEF Unnumbered, Viewed
  <2>3. xfer'[t].state = "pending" /\ \A u \in Tid : u # t => xfer'[u] = xfer[u]
    BY <2>1, <2>2 DEF XferType
  <2>4. t \notin Transfers /\ t \in Transfers' /\ \A u \in Tid : u # t => (u \in Transfers' <=> u \in Transfers)
    BY <2>2, <2>3 DEF Transfers
  <2>5. xfer'[t].file \in Offered
    BY <2>4 DEF Viewed, AllInv, RelayInv, Receipt, KnownTransfers
  <2>6. t \notin rKnown /\ ~Held(t) /\ ~Opened(t) /\ t \notin kept /\ Status(t) = "none"
    BY <2>2, <2>4 DEF Viewed, StatusFacts
  <2>7. Status(t)' = "offered"
    BY <1>2, <1>3, <2>2, <2>4, <2>6 DEF Viewed, StatusFacts
  <2>8. \A u \in Tid : u # t => SameStatus(u) /\ xfer'[u].file = xfer[u].file
    BY <1>2, <1>3, <2>3, <2>4, ViewSame DEF Viewed
  <2> QED BY <1>2, <2>2, <2>5, <2>6, <2>7, <2>8, OfferedSeen
<1> QED BY <1>1, <1>5, <1>6

-----------------------------------------------------------------------------
LEMMA OrphanedStays == ASSUME [Next]_vars, orphaned PROVE orphaned'
<1>1. CASE BothOnline
  BY <1>1 DEF BothOnline, senderHistory
<1>2. CASE Client
  BY <1>2 DEF Client, SenderOffers, SenderCancels, SenderTicks, SenderHandles, SenderGone, ReceiverCommands,
              ReceiverHandles, ReceiverGone, Leave, ClientEnds, senderHistory
<1>3. CASE Server
  BY <1>3 DEF Server, ServerTakes, ServerHangsUp, ServerDenies, StrangerOffers, StrangerEnds, senderHistory
<1>4. CASE UNCHANGED vars
  BY <1>4 DEF vars, senderHistory
<1> QED BY <1>1, <1>2, <1>3, <1>4 DEF Next

LEMMA StepSeen == ASSUME Viewed, [Next]_vars PROVE Promised
<1>1. CASE BothOnline
  BY <1>1, LivesSeen DEF BothOnline
<1>2. CASE UNCHANGED vars
  <2>1. UNCHANGED <<xfer, data, kept, rKnown, rRecv>>
    BY <1>2 DEF vars, receiverVars, receiverHistory, serverVars
  <2> QED BY <2>1, IdleSeen
<1> QED BY <1>1, <1>2, ClientSeen, ServerSeen DEF Next

LEMMA InitSeen == ASSUME Init PROVE Promise!Init
<1>1. AllInv
  BY InitInv
<1>2. StatusFacts
  BY <1>1, StatusNow
<1>3. xfer = [t \in Tid |-> NoTransfer] /\ data = [t \in Tid |-> {}] /\ orphaned = FALSE
  BY DEF Init
<1>4. Transfers = {}
  BY <1>3 DEF Transfers, NoTransfer
<1>5. \A t \in Tid : Status(t) = "none"
  BY <1>2, <1>4 DEF StatusFacts
<1> QED BY <1>3, <1>5 DEF Promise!Init

(* The two clients and the server keep the promise of Delivery: a file is
   received piece by piece, nothing twice and nothing of another file, one file
   after the other, and kept only when it is whole. *)
THEOREM DeliversHolds == Spec => Delivers
<1>1. Init => Promise!Init
  BY InitSeen
<1>2. AllInv /\ AllInv' /\ [Next]_vars => [Promise!Next]_(Promise!vars)
  <2> SUFFICES ASSUME AllInv, AllInv', [Next]_vars PROVE [Promise!Next]_(Promise!vars)
    OBVIOUS
  <2>1. CASE orphaned'
    BY <2>1 DEF Promise!Next
  <2>2. CASE ~orphaned'
    <3>1. ~orphaned
      BY <2>2, OrphanedStays
    <3>2. StatusFacts /\ StatusFacts'
      BY StatusNow, StatusNext
    <3>3. Promised
      BY <2>2, <3>1, <3>2, StepSeen DEF Viewed
    <3> QED BY <2>2, <3>1, <3>3 DEF Promised, Promise!Next
  <2> QED BY <2>1, <2>2
<1> QED BY <1>1, <1>2, AllInvHolds, PTL DEF Spec, Delivers, Promise!Spec

-----------------------------------------------------------------------------
(* What the receiver's user sees of the transfers. *)
Seen == [t \in Tid |-> Status(t)]
OfferSeen == [t \in Tid |-> xfer[t].file]

(* What the promise of Delivery says of the files, as an inductive invariant:
   nothing is there of a file before it is opened. *)
Promising ==
  /\ \A t \in Tid : Seen[t] \in {"none", "offered", "open", "kept", "gone"}
  /\ \A t \in Tid : Seen[t] \in {"none", "offered"} => data[t] = {}
  /\ \A t \in Tid : Seen[t] = "kept" => data[t] = Promise!Whole(OfferSeen[t])
  /\ \A t \in Tid : Seen[t] = "open" => data[t] \subseteq Promise!Whole(OfferSeen[t])
  /\ \A t, u \in Tid : Seen[t] = "open" /\ Seen[u] = "open" => t = u

LEMMA InitPromising == ASSUME Promise!Init PROVE Promising
BY DEF Promise!Init, Promising, Seen

LEMMA StepPromising == ASSUME Promising, Promise!Step PROVE Promising'
<1>1. ASSUME NEW t \in Tid, Promise!Offer(t) PROVE Promising'
  <2>1. /\ Seen[t] = "none" /\ Seen' = [Seen EXCEPT ![t] = "offered"]
        /\ \A u \in Tid \ {t} : OfferSeen'[u] = OfferSeen[u]
        /\ data' = data
    BY <1>1 DEF Promise!Offer, Seen, OfferSeen
  <2> QED BY <2>1 DEF Promising, Promise!Whole
<1>2. ASSUME NEW t \in Tid, Promise!Open(t) PROVE Promising'
  <2>1. /\ Seen[t] = "offered" /\ \A u \in Tid : Seen[u] # "open"
        /\ Seen' = [Seen EXCEPT ![t] = "open"] /\ OfferSeen' = OfferSeen /\ data' = data
    BY <1>2 DEF Promise!Open, Seen, OfferSeen
  <2> QED BY <2>1 DEF Promising, Promise!Whole
<1>3. ASSUME NEW t \in Tid, Promise!Fill(t) PROVE Promising'
  <2>1. /\ Seen[t] = "open" /\ data'[t] \subseteq Promise!Whole(OfferSeen[t])
        /\ \A u \in Tid \ {t} : data'[u] = data[u]
        /\ Seen' = Seen /\ OfferSeen' = OfferSeen
    BY <1>3 DEF Promise!Fill, Seen, OfferSeen
  <2> QED BY <2>1 DEF Promising, Promise!Whole
<1>4. ASSUME NEW t \in Tid, Promise!Keep(t) PROVE Promising'
  <2>1. /\ Seen[t] = "open" /\ data[t] = Promise!Whole(OfferSeen[t])
        /\ Seen' = [Seen EXCEPT ![t] = "kept"] /\ OfferSeen' = OfferSeen /\ data' = data
    BY <1>4 DEF Promise!Keep, Seen, OfferSeen
  <2> QED BY <2>1 DEF Promising, Promise!Whole
<1>5. ASSUME NEW some \in SUBSET Tid, Promise!Drop(some) PROVE Promising'
  <2>1. /\ Seen' = [t \in Tid |-> IF t \in some THEN "gone" ELSE Seen[t]]
        /\ OfferSeen' = OfferSeen /\ data' = data
    BY <1>5 DEF Promise!Drop, Seen, OfferSeen
  <2> QED BY <2>1 DEF Promising, Promise!Whole
<1> QED BY <1>1, <1>2, <1>3, <1>4, <1>5 DEF Promise!Step

(* Whatever does as Delivery says keeps what it promises: until a task is lost,
   a kept file is whole, a file that is being received is a part of what was
   offered, and only one is received at a time. *)
LEMMA KeptHolds == Promise!Spec => []Promise!Kept
<1> DEFINE Inv == ~orphaned => Promising
<1>1. Promise!Init => Inv
  BY InitPromising
<1>2. Inv /\ [Promise!Next]_(Promise!vars) => Inv'
  <2> SUFFICES ASSUME Inv, [Promise!Next]_(Promise!vars), ~orphaned' PROVE Promising'
    OBVIOUS
  <2>1. CASE UNCHANGED Promise!vars
    <3>1. Seen' = Seen /\ OfferSeen' = OfferSeen /\ data' = data /\ orphaned' = orphaned
      BY <2>1 DEF Promise!vars, Seen, OfferSeen
    <3> QED BY <3>1 DEF Promising, Promise!Whole
  <2>2. CASE Promise!Next
    <3>1. Promising /\ Promise!Step
      BY <2>2 DEF Promise!Next
    <3> QED BY <3>1, StepPromising
  <2> QED BY <2>1, <2>2
<1>3. Inv => Promise!Kept
  <2>1. Promising => \A t \in Tid :
          Seen[t] = [u \in Tid |-> Status(u)][t] /\ OfferSeen[t] = [u \in Tid |-> xfer[u].file][t]
    BY DEF Seen, OfferSeen
  <2> QED BY <2>1 DEF Promising, Promise!Kept, Promise!Whole
<1> QED
  BY <1>1, <1>2, <1>3, PTL DEF Promise!Spec

(* Story 14 of M4, for as long as no send task is lost to something that was not
   about it: a file that is kept is, byte for byte, the file its transfer was
   offered with.  The run wrong_file shows what happens after such a loss. *)
THEOREM KeptFilesHold == Spec => [](~orphaned => KeptFilesMatch)
<1>1. AllInv /\ Promise!Kept => (~orphaned => KeptFilesMatch)
  <2> SUFFICES ASSUME AllInv, Promise!Kept, ~orphaned, NEW t \in kept
               PROVE  data[t] = {xfer[t].file} \X (0..FileSize[xfer[t].file]-1)
    BY DEF KeptFilesMatch
  <2>1. t \in Tid /\ Status(t) = "kept"
    <3>1. StatusFacts
      BY StatusNow
    <3> QED BY <3>1, InvType DEF StatusFacts, TypeOK
  <2> QED BY <2>1 DEF Promise!Kept, Promise!Whole
<1> QED BY <1>1, DeliversHolds, AllInvHolds, KeptHolds, PTL DEF Delivers
=============================================================================
