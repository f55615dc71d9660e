------------------------- MODULE RelayClientProofs --------------------------
(***************************************************************************)
(* Lemmas about the two clients of Relay: the steps FileTransfer takes     *)
(* for each message and command, the queues between clients and server,    *)
(* the parts of RelayInv that a client can disturb, and what the messages  *)
(* mean to the sender.  Both clients are FileTransfer, whose theorems hold *)
(* of them as they stand.                                                  *)
(***************************************************************************)
EXTENDS RelayInv, SequenceTheorems, TLAPS

SP == INSTANCE FileTransferProofs WITH
        phase <- sPhase, broken <- sBroken, send <- sSend, recv <- sRecv,
        recvSeq <- sRecvSeq, present <- sPresent, content <- sContent, out <- sOut,
        saved <- sSaved, known <- sKnown, accepted <- sAccepted, emitted <- sEmitted,
        stranded <- sStranded,
        NSlots <- 1, MaxTries <- 2, MaxSeq <- MaxTid, UserTid <- TypedTid,
        LegalName <- File, InitSize <- Sizes, Preexisting <- {},
        FlushMayFail <- FALSE, MayBeKilled <- FALSE

RP == INSTANCE FileTransferProofs WITH
        phase <- rPhase, broken <- rBroken, send <- rSend, recv <- rRecv,
        recvSeq <- rRecvSeq, present <- rPresent, content <- rContent, out <- rOut,
        saved <- rSaved, known <- rKnown, accepted <- rAccepted, emitted <- rEmitted,
        stranded <- rStranded,
        NSlots <- RecvSlots, MaxTries <- 2, MaxSeq <- MaxTid, UserTid <- TypedTid,
        SendFiles <- {}, FileSize <- [f \in {} |-> 0],
        LegalName <- File, InitSize <- Sizes, Preexisting <- {},
        FlushMayFail <- FALSE, MayBeKilled <- FALSE

(* What the proofs about one client assume holds of both. *)
LEMMA SenderAssumptions == SP!SizesAssumption /\ SP!WireAssumption /\ SP!FilesAssumption
<1>1. SP!SizesAssumption
  BY RelayAssumption DEF SP!SizesAssumption
<1>2. SP!WireAssumption
  BY RelayAssumption DEF SP!WireAssumption, Tid, Sizes, Span
<1>3. SP!FilesAssumption
  BY RelayAssumption DEF SP!FilesAssumption
<1> QED BY <1>1, <1>2, <1>3

LEMMA ReceiverAssumptions == RP!SizesAssumption /\ RP!WireAssumption /\ RP!FilesAssumption
<1>1. RP!SizesAssumption
  BY RelayAssumption DEF RP!SizesAssumption
<1>2. RP!WireAssumption
  BY RelayAssumption DEF RP!WireAssumption, Tid, Sizes, Span
<1>3. RP!FilesAssumption
  BY RelayAssumption DEF RP!FilesAssumption
<1> QED BY <1>1, <1>2, <1>3

-----------------------------------------------------------------------------
(* The clients of Relay take the steps those proofs are about. *)

(* The sender. *)
LEMMA SenderActs ==
  /\ S!Init => SP!Init
  /\ \A file : S!CmdSendfile(file) => SP!CmdSendfile(file)
  /\ \A tid : S!CmdCancel(tid) => SP!CmdCancel(tid)
  /\ \A tid : S!AnnSendPending(tid) => SP!AnnSendPending(tid)
  /\ \A tid : S!Accepted(tid) => SP!Accepted(tid)
  /\ \A tid : S!Rejected(tid) => SP!Rejected(tid)
  /\ \A tid : S!Cancelled(tid) => SP!Cancelled(tid)
  /\ \A tid : S!AnnComplete(tid) => SP!AnnComplete(tid)
  /\ S!NoSuchUser => SP!NoSuchUser
  /\ S!TransferStateError => SP!TransferStateError
  /\ S!TickChunks => SP!TickChunks
  /\ S!TickComplete => SP!TickComplete
  /\ \A n : S!TickReadFails(n) => SP!TickReadFails(n)
  /\ S!SessionStart => SP!SessionStart
  /\ S!Stop => SP!Stop
  /\ S!Destroy => SP!Destroy
<1> USE DEF S!Slot, SP!Slot, S!Lowest, SP!Lowest, S!FreeTask, SP!FreeTask, S!FreeSend,
    SP!FreeSend, S!Delivered, SP!Delivered, S!ControlFrame, SP!ControlFrame, S!SendClear,
    SP!SendClear, S!SendBusy, SP!SendBusy, S!SendMatches, SP!SendMatches, S!RecvFind,
    SP!RecvFind, S!RecvActive, SP!RecvActive, S!RecvFree, SP!RecvFree, S!RecvClear,
    SP!RecvClear, S!RecvFinish, SP!RecvFinish, S!RecvComplete, SP!RecvComplete, S!ResetAll,
    SP!ResetAll, S!Listening, SP!Listening, S!Quiet, SP!Quiet, S!EnvUnchanged,
    SP!EnvUnchanged, S!InSession, SP!InSession, S!CommandFails, SP!CommandFails,
    S!CommandSends, SP!CommandSends, S!diskVars, SP!diskVars, S!taskVars, SP!taskVars
<1>1. S!Init => SP!Init
  BY DEF S!Init, SP!Init
<1>2. \A file : S!CmdSendfile(file) => SP!CmdSendfile(file)
  BY DEF S!CmdSendfile, SP!CmdSendfile, S!InitFrame, SP!InitFrame
<1>3. \A tid : S!CmdCancel(tid) => SP!CmdCancel(tid)
  BY DEF S!CmdCancel, SP!CmdCancel
<1>4. \A tid : S!AnnSendPending(tid) => SP!AnnSendPending(tid)
  BY DEF S!AnnSendPending, SP!AnnSendPending
<1>5. \A tid : S!Accepted(tid) => SP!Accepted(tid)
  BY DEF S!Accepted, SP!Accepted
<1>6. \A tid : S!Rejected(tid) => SP!Rejected(tid)
  BY DEF S!Rejected, SP!Rejected
<1>7. \A tid : S!Cancelled(tid) => SP!Cancelled(tid)
  BY DEF S!Cancelled, SP!Cancelled
<1>8. \A tid : S!AnnComplete(tid) => SP!AnnComplete(tid)
  BY DEF S!AnnComplete, SP!AnnComplete
<1>9. S!NoSuchUser => SP!NoSuchUser
  BY DEF S!NoSuchUser, SP!NoSuchUser
<1>10. S!TransferStateError => SP!TransferStateError
  BY DEF S!TransferStateError, SP!TransferStateError
<1>11. S!TickChunks => SP!TickChunks
  BY DEF S!TickChunks, SP!TickChunks, S!Round, SP!Round, S!ChunkCount, SP!ChunkCount,
      S!SentAfter, SP!SentAfter, S!FirstChunks, SP!FirstChunks, S!ChunkFrame, SP!ChunkFrame,
      S!ChunkLen, SP!ChunkLen, S!Bytes, SP!Bytes, S!TickUnchanged, SP!TickUnchanged
<1>12. S!TickComplete => SP!TickComplete
  BY DEF S!TickComplete, SP!TickComplete, S!TickUnchanged, SP!TickUnchanged
<1>13. \A n : S!TickReadFails(n) => SP!TickReadFails(n)
  BY DEF S!TickReadFails, SP!TickReadFails, S!FirstChunks, SP!FirstChunks, S!ChunkFrame,
      SP!ChunkFrame, S!ChunkLen, SP!ChunkLen, S!TickUnchanged, SP!TickUnchanged
<1>14. S!SessionStart => SP!SessionStart
  BY DEF S!SessionStart, SP!SessionStart
<1>15. S!Stop => SP!Stop
  BY DEF S!Stop, SP!Stop
<1>16. S!Destroy => SP!Destroy
  BY DEF S!Destroy, SP!Destroy
<1> QED BY <1>1, <1>2, <1>3, <1>4, <1>5, <1>6, <1>7, <1>8, <1>9, <1>10, <1>11, <1>12, <1>13, <1>14, <1>15, <1>16

(* The receiver's chunks. *)
LEMMA ChunkActs ==
  \A tid, offset, len : R!FrameChunk(tid, offset, len) => RP!FrameChunk(tid, offset, len)
<1> SUFFICES ASSUME NEW tid, NEW offset, NEW len, R!FrameChunk(tid, offset, len)
             PROVE  RP!FrameChunk(tid, offset, len)
  OBVIOUS
<1>1. R!RecvFind(tid) = RP!RecvFind(tid)
  BY DEF R!RecvFind, RP!RecvFind, R!Lowest, RP!Lowest, R!Slot, RP!Slot
<1>2. \A i : R!SpanLegal(rRecv[i].size, rRecv[i].marked, offset, len)
               => RP!SpanLegal(rRecv[i].size, rRecv[i].marked, offset, len)
  BY DEF R!SpanLegal, RP!SpanLegal
<1>3. \A i : R!StoreSpan(i, offset, len) => RP!StoreSpan(i, offset, len)
  BY DEF R!StoreSpan, RP!StoreSpan, R!Bytes, RP!Bytes, R!Quiet, RP!Quiet
<1>4. \A i : R!RecvAbort(i) => RP!RecvAbort(i)
  BY DEF R!RecvAbort, RP!RecvAbort, R!Delivered, RP!Delivered, R!ControlFrame, RP!ControlFrame,
         R!RecvClear, RP!RecvClear, R!FreeTask, RP!FreeTask
<1>5. R!Listening => RP!Listening
  BY DEF R!Listening, RP!Listening
<1>6. R!EnvUnchanged => RP!EnvUnchanged
  BY DEF R!EnvUnchanged, RP!EnvUnchanged
<1> QED BY <1>1, <1>2, <1>3, <1>4, <1>5, <1>6 DEF R!FrameChunk, RP!FrameChunk

(* The receiver. *)
LEMMA ReceiverActs ==
  /\ R!Init => RP!Init
  /\ \A tid : R!CmdAccept(tid) => RP!CmdAccept(tid)
  /\ \A tid : R!CmdReject(tid) => RP!CmdReject(tid)
  /\ \A tid : R!CmdCancel(tid) => RP!CmdCancel(tid)
  /\ \A tid : R!AnnIncoming(tid) => RP!AnnIncoming(tid)
  /\ \A tid : R!Cancelled(tid) => RP!Cancelled(tid)
  /\ \A tid : R!AnnComplete(tid) => RP!AnnComplete(tid)
  /\ \A tid : R!FrameComplete(tid) => RP!FrameComplete(tid)
  /\ \A file, size : R!FrameInit(file, size) => RP!FrameInit(file, size)
  /\ \A tid, offset, len : R!FrameChunk(tid, offset, len) => RP!FrameChunk(tid, offset, len)
  /\ R!TransferStateError => RP!TransferStateError
  /\ R!SessionStart => RP!SessionStart
  /\ R!Stop => RP!Stop
  /\ R!Destroy => RP!Destroy
<1> USE DEF R!Slot, RP!Slot, R!Lowest, RP!Lowest, R!FreeTask, RP!FreeTask, R!FreeSend,
    RP!FreeSend, R!Delivered, RP!Delivered, R!ControlFrame, RP!ControlFrame, R!SendClear,
    RP!SendClear, R!SendBusy, RP!SendBusy, R!SendMatches, RP!SendMatches, R!RecvFind,
    RP!RecvFind, R!RecvActive, RP!RecvActive, R!RecvFree, RP!RecvFree, R!RecvClear,
    RP!RecvClear, R!RecvFinish, RP!RecvFinish, R!RecvComplete, RP!RecvComplete, R!ResetAll,
    RP!ResetAll, R!Listening, RP!Listening, R!Quiet, RP!Quiet, R!EnvUnchanged,
    RP!EnvUnchanged, R!InSession, RP!InSession, R!CommandFails, RP!CommandFails,
    R!CommandSends, RP!CommandSends, R!diskVars, RP!diskVars, R!taskVars, RP!taskVars
<1>1. R!Init => RP!Init
  BY DEF R!Init, RP!Init
<1>2. \A tid : R!CmdAccept(tid) => RP!CmdAccept(tid)
  BY DEF R!CmdAccept, RP!CmdAccept, R!RecvReject, RP!RecvReject, R!UniqueName, RP!UniqueName
<1>3. \A tid : R!CmdReject(tid) => RP!CmdReject(tid)
  BY DEF R!CmdReject, RP!CmdReject
<1>4. \A tid : R!CmdCancel(tid) => RP!CmdCancel(tid)
  BY DEF R!CmdCancel, RP!CmdCancel
<1>5. \A tid : R!AnnIncoming(tid) => RP!AnnIncoming(tid)
  BY DEF R!AnnIncoming, RP!AnnIncoming
<1>6. \A tid : R!Cancelled(tid) => RP!Cancelled(tid)
  BY DEF R!Cancelled, RP!Cancelled
<1>7. \A tid : R!AnnComplete(tid) => RP!AnnComplete(tid)
  BY DEF R!AnnComplete, RP!AnnComplete
<1>8. \A tid : R!FrameComplete(tid) => RP!FrameComplete(tid)
  BY DEF R!FrameComplete, RP!FrameComplete
<1>9. \A file, size : R!FrameInit(file, size) => RP!FrameInit(file, size)
  BY DEF R!FrameInit, RP!FrameInit, R!Uninited, RP!Uninited
<1>10. \A tid, offset, len : R!FrameChunk(tid, offset, len) => RP!FrameChunk(tid, offset, len)
  BY ChunkActs
<1>11. R!TransferStateError => RP!TransferStateError
  BY DEF R!TransferStateError, RP!TransferStateError
<1>12. R!SessionStart => RP!SessionStart
  BY DEF R!SessionStart, RP!SessionStart
<1>13. R!Stop => RP!Stop
  BY DEF R!Stop, RP!Stop
<1>14. R!Destroy => RP!Destroy
  BY DEF R!Destroy, RP!Destroy
<1> QED BY <1>1, <1>2, <1>3, <1>4, <1>5, <1>6, <1>7, <1>8, <1>9, <1>10, <1>11, <1>12, <1>13, <1>14

-----------------------------------------------------------------------------
(* What the clients read in the texts of the server. *)

AP == INSTANCE AnnouncementProofs WITH MaxWireTid <- MaxTid

LEMMA TextsAgree ==
  /\ \A phrases : S!Classified(phrases) = AP!Classified(phrases)
  /\ \A phrases : R!Classified(phrases) = AP!Classified(phrases)
BY DEF S!Classified, R!Classified, AP!Classified, S!FirstFound, R!FirstFound, AP!FirstFound,
       S!Meaning, R!Meaning, AP!Meaning, S!SearchOrder, R!SearchOrder, AP!SearchOrder

TidRange == MaxTid \in Nat /\ Tid = 1..MaxTid /\ MaxWireTid = MaxTid

LEMMA TheTids == TidRange
BY RelayAssumption DEF TidRange, Tid, MaxWireTid

(* The parts of a text. *)
HasParts(text, t, head) ==
  text.digits = <<t>> /\ text.after \in {":", " "} /\ text.head = head

LEMMA TextParts ==
  ASSUME NEW t, NEW name, NEW user
  PROVE  /\ HasParts(S!WaitingText(t, name, user), t, "File transfer #")
         /\ HasParts(S!AcceptedText(t, user), t, "File transfer #")
         /\ HasParts(S!RejectedText(t, user), t, "File transfer #")
         /\ HasParts(S!CompleteText(t, name), t, "File transfer #")
         /\ HasParts(S!CancelledText(t, user), t, "File transfer #")
         /\ HasParts(S!DisconnectedText(t, user), t, "File transfer #")
         /\ HasParts(S!IncomingText(t, name, user), t, "Incoming file transfer #")
BY Zenon DEF S!WaitingText, S!CompleteText, S!AcceptedText, S!RejectedText, S!CancelledText,
   S!DisconnectedText, S!IncomingText, S!TransferText, HasParts

(* Which texts are answers to /sendfile. *)
Waiting(text) == "Waiting for acceptance" \in text.phrases

LEMMA TextPhrases ==
  ASSUME NEW t, NEW name \in File, NEW user \in {Sender, Receiver, Stranger}
  PROVE  /\ Waiting(S!WaitingText(t, name, user))
         /\ ~Waiting(S!AcceptedText(t, user))
         /\ ~Waiting(S!RejectedText(t, user))
         /\ ~Waiting(S!CompleteText(t, name))
         /\ ~Waiting(S!CancelledText(t, user))
         /\ ~Waiting(S!DisconnectedText(t, user))
<1>1. "Waiting for acceptance" \notin PhrasesIn[name] /\ "Waiting for acceptance" \notin PhrasesIn[user]
  BY NamesAssumption, Zenon
<1>2. Waiting(S!WaitingText(t, name, user))
  BY Zenon DEF S!WaitingText, S!TransferText, Waiting
<1>3. ~Waiting(S!AcceptedText(t, user))
  BY <1>1, Zenon DEF S!AcceptedText, S!TransferText, Waiting
<1>4. ~Waiting(S!RejectedText(t, user))
  BY <1>1, Zenon DEF S!RejectedText, S!TransferText, Waiting
<1>5. ~Waiting(S!CompleteText(t, name))
  BY <1>1, Zenon DEF S!CompleteText, S!TransferText, Waiting
<1>6. ~Waiting(S!CancelledText(t, user))
  BY <1>1, Zenon DEF S!CancelledText, S!TransferText, Waiting
<1>7. ~Waiting(S!DisconnectedText(t, user))
  BY <1>1, Zenon DEF S!DisconnectedText, S!TransferText, Waiting
<1> QED BY <1>2, <1>3, <1>4, <1>5, <1>6, <1>7

PlainHead == "File transfer #"
OfferHead == "Incoming file transfer #"

LEMMA Heads == PlainHead # OfferHead
BY DEF PlainHead, OfferHead

LEMMA SenderTextParts ==
  ASSUME NEW text \in SenderTexts PROVE \E t \in Tid : HasParts(text, t, PlainHead)
<1>1. CASE text \in {S!WaitingText(t, file, Receiver) : t \in Tid, file \in SendFiles}
  <2>1. PICK t \in Tid, file \in SendFiles : text = S!WaitingText(t, file, Receiver)
    BY <1>1
  <2> QED BY <2>1, TextParts, Zenon DEF PlainHead
<1>2. CASE text \in {S!CompleteText(t, file) : t \in Tid, file \in Offered}
  <2>1. PICK t \in Tid, file \in Offered : text = S!CompleteText(t, file)
    BY <1>2
  <2> QED BY <2>1, TextParts, Zenon DEF PlainHead
<1>3. CASE text \in UNION {{S!AcceptedText(t, Receiver), S!RejectedText(t, Receiver),
                   S!CancelledText(t, Receiver), S!DisconnectedText(t, Receiver)} : t \in Tid}
  <2>1. PICK t \in Tid : text \in {S!AcceptedText(t, Receiver), S!RejectedText(t, Receiver),
                   S!CancelledText(t, Receiver), S!DisconnectedText(t, Receiver)}
    BY <1>3
  <2> QED BY <2>1, TextParts, Zenon DEF PlainHead
<1> QED BY <1>1, <1>2, <1>3 DEF SenderTexts

LEMMA ReceiverTextParts ==
  ASSUME NEW text \in ReceiverTexts
  PROVE  \E t \in Tid, head \in {PlainHead, OfferHead} : HasParts(text, t, head)
<1>1. CASE text \in {S!IncomingText(t, file, from) :
                       t \in Tid, file \in Offered, from \in {Sender, Stranger}}
  <2>1. PICK t \in Tid, file \in Offered, from \in {Sender, Stranger} :
               text = S!IncomingText(t, file, from)
    BY <1>1
  <2> QED BY <2>1, TextParts, Zenon DEF OfferHead
<1>2. CASE text \in {S!CompleteText(t, file) : t \in Tid, file \in Offered}
  <2>1. PICK t \in Tid, file \in Offered : text = S!CompleteText(t, file)
    BY <1>2
  <2> QED BY <2>1, TextParts, Zenon DEF PlainHead
<1>3. CASE text \in {S!CancelledText(t, from) : t \in Tid, from \in {Sender, Stranger}}
  <2>1. PICK t \in Tid, from \in {Sender, Stranger} : text = S!CancelledText(t, from)
    BY <1>3
  <2> QED BY <2>1, TextParts, Zenon DEF PlainHead
<1>4. CASE text \in {S!DisconnectedText(t, Sender) : t \in Tid}
  <2>1. PICK t \in Tid : text = S!DisconnectedText(t, Sender)
    BY <1>4
  <2> QED BY <2>1, TextParts, Zenon DEF PlainHead
<1> QED BY <1>1, <1>2, <1>3, <1>4 DEF ReceiverTexts

LEMMA ReadTid ==
  ASSUME NEW text, NEW t \in Tid, NEW head, HasParts(text, t, head)
  PROVE  text.digits[1] = t /\ text.digits # <<>> /\ ~(text.digits[1] > MaxWireTid)
<1>1. text.digits = <<t>>
  BY Zenon DEF HasParts
<1> QED BY <1>1, TheTids DEF TidRange

(* No text to the sender is an offer, and one that gives a tid to a send task is
   the answer to a /sendfile. *)
LEMMA SenderText ==
  ASSUME NEW text \in SenderTexts
  PROVE  /\ text.head # OfferHead /\ text.digits[1] \in Tid
         /\ S!ParseAnnouncement(text) = [kind |-> S!Classified(text.phrases), tid |-> text.digits[1]]
         /\ S!Classified(text.phrases) # "RECV_PENDING"
         /\ S!Classified(text.phrases) = "SEND_PENDING" => Waiting(text)
<1>1. PICK t \in Tid : HasParts(text, t, PlainHead)
  BY SenderTextParts
<1>2. text.digits[1] = t /\ text.digits # <<>> /\ ~(text.digits[1] > MaxWireTid)
  BY <1>1, ReadTid
<1>3. text.head = PlainHead /\ text.head # OfferHead /\ text.after \in {":", " "}
  BY <1>1, Heads, Zenon DEF HasParts
<1>4. S!ParseAnnouncement(text) = [kind |-> S!Classified(text.phrases), tid |-> text.digits[1]]
  BY <1>2, <1>3, Zenon DEF S!ParseAnnouncement, PlainHead, OfferHead
<1>5. /\ S!Classified(text.phrases) # "RECV_PENDING"
      /\ S!Classified(text.phrases) = "SEND_PENDING" => Waiting(text)
  <2>1. S!Classified(text.phrases) = AP!Classified(text.phrases)
    BY TextsAgree, Zenon
  <2>2. /\ AP!Classified(text.phrases) \in {"NONE", "SEND_PENDING", "ACCEPTED", "REJECTED", "COMPLETE",
                                     "CANCELLED", "CANCELLED_DISC"}
        /\ AP!Classified(text.phrases) = "SEND_PENDING" => "Waiting for acceptance" \in text.phrases
    BY AP!KindFound, Zenon
  <2> QED BY <2>1, <2>2, Zenon DEF Waiting
<1> QED BY <1>1, <1>2, <1>3, <1>4, <1>5, Zenon

(* The receiver knows an offer, whatever the names in it, and no other text is one. *)
LEMMA ReceiverText ==
  ASSUME NEW text \in ReceiverTexts
  PROVE  /\ text.digits[1] \in Tid
         /\ R!ParseAnnouncement(text)
              = [kind |-> IF text.head = OfferHead THEN "RECV_PENDING" ELSE R!Classified(text.phrases),
                 tid |-> text.digits[1]]
         /\ R!Classified(text.phrases) # "RECV_PENDING"
<1>1. PICK t \in Tid, head \in {PlainHead, OfferHead} : HasParts(text, t, head)
  BY ReceiverTextParts
<1>2. text.digits[1] = t /\ text.digits # <<>> /\ ~(text.digits[1] > MaxWireTid)
  BY <1>1, ReadTid
<1>3. text.head \in {PlainHead, OfferHead} /\ text.after \in {":", " "}
  BY <1>1, Zenon DEF HasParts
<1>4. R!ParseAnnouncement(text)
        = [kind |-> IF text.head = OfferHead THEN "RECV_PENDING" ELSE R!Classified(text.phrases),
           tid |-> text.digits[1]]
  BY <1>2, <1>3, Zenon DEF R!ParseAnnouncement, PlainHead, OfferHead
<1>5. R!Classified(text.phrases) # "RECV_PENDING"
  <2>1. R!Classified(text.phrases) = AP!Classified(text.phrases)
    BY TextsAgree, Zenon
  <2>2. AP!Classified(text.phrases) \in {"NONE", "SEND_PENDING", "ACCEPTED", "REJECTED", "COMPLETE",
                                     "CANCELLED", "CANCELLED_DISC"}
    BY AP!KindFound, Zenon
  <2> QED BY <2>1, <2>2, Zenon
<1> QED BY <1>1, <1>2, <1>4, <1>5, Zenon

-----------------------------------------------------------------------------
(* The sender handles a message. *)

SenderInv == SP!TypeInv /\ SP!SendPart

LEMMA SenderStays ==
  ASSUME SenderInv, sOut' = {}, UNCHANGED senderVars PROVE SenderInv'
<1>1. SP!TypeOK'
  BY DEF SenderInv, SP!TypeInv, SP!TypeOK, senderVars
<1>2. SP!TaskShape'
  BY DEF SenderInv, SP!TypeInv, SP!TaskShape, senderVars
<1>3. SP!SendPart'
  BY DEF SenderInv, SP!SendPart, SP!SendShape, SP!SentPrefix, senderVars
<1> QED BY <1>1, <1>2, <1>3 DEF SenderInv, SP!TypeInv

(* An action of FileTransfer keeps what is known of its send task. *)
LEMMA SenderSteps ==
  ASSUME SenderInv, SP!Command \/ SP!Inbound \/ SP!Tick \/ SP!Process PROVE SenderInv'
<1>1. SP!TypeInv'
  BY SenderAssumptions, SP!CommandType, SP!InboundType, SP!TickType, SP!ProcessType DEF SenderInv
<1>2. SP!SendPart'
  BY SenderAssumptions, SP!StepSend DEF SenderInv, SP!Next
<1> QED BY <1>1, <1>2 DEF SenderInv

LEMMA NothingToReceive ==
  ASSUME Roles PROVE S!RecvActive = {} /\ \A tid : S!RecvFind(tid) = {}
BY DEF Roles, S!RecvActive, S!RecvFind, S!Lowest

(* What a message does to the send task. *)
Handled(m) ==
  /\ sOut' = {} /\ UNCHANGED <<sPhase, sBroken, sRecv>>
  /\ \/ sSend' = sSend
     \/ /\ m.type = "SERVER_MSG" /\ IsAnswer(m) /\ sSend.state = "PENDING_TID"
        /\ sSend' = [sSend EXCEPT !.tid = m.text.digits[1], !.state = "PENDING"]
     \/ sSend.state = "PENDING" /\ sSend' = [sSend EXCEPT !.state = "ACTIVE"]
     \/ sSend' = S!FreeSend /\ (sSend.state = "PENDING_TID" => m.type = "ERROR")

LEMMA HandledNothing ==
  ASSUME SenderInv, NEW m, S!NothingHappens PROVE SenderInv' /\ Handled(m)
<1>1. sOut' = {} /\ UNCHANGED senderVars
  BY DEF S!NothingHappens, S!taskVars, S!diskVars, senderVars
<1>2. Handled(m)
  BY <1>1 DEF Handled, senderVars
<1> QED BY <1>1, <1>2, SenderStays

LEMMA HandledNumber ==
  ASSUME SenderInv, NEW m, m.type = "SERVER_MSG", IsAnswer(m), m.text.digits[1] \in Tid,
         S!AnnSendPending(m.text.digits[1])
  PROVE  SenderInv' /\ Handled(m)
<1>1. SP!Inbound
  BY SenderActs DEF SP!Inbound
<1>2. Handled(m)
  BY DEF S!AnnSendPending, S!Quiet, S!EnvUnchanged, Handled
<1> QED BY <1>1, <1>2, SenderSteps

LEMMA HandledAccepted ==
  ASSUME SenderInv, NEW m, NEW tid \in Tid, S!Accepted(tid) PROVE SenderInv' /\ Handled(m)
<1>1. SP!Inbound
  BY SenderActs DEF SP!Inbound
<1>2. Handled(m)
  BY DEF S!Accepted, S!Quiet, S!EnvUnchanged, Handled
<1> QED BY <1>1, <1>2, SenderSteps

(* A transfer that has a tid ends. *)
LEMMA HandledEnd ==
  ASSUME SenderInv, Roles, SendTid, NEW m, NEW tid \in Tid, S!SendMatches(tid),
         S!Rejected(tid) \/ S!Cancelled(tid) \/ S!AnnComplete(tid)
  PROVE  SenderInv' /\ Handled(m)
<1>1. SP!Inbound
  BY SenderActs DEF SP!Inbound
<1>2. sSend.state # "PENDING_TID"
  BY TheTids DEF TidRange, SendTid, S!SendMatches
<1>3. sSend' = S!FreeSend /\ sRecv' = sRecv /\ sOut' = {} /\ UNCHANGED <<sPhase, sBroken>>
  BY NothingToReceive DEF S!Rejected, S!Cancelled, S!AnnComplete, S!RecvComplete, S!SendClear, S!Quiet, S!EnvUnchanged
<1>4. Handled(m)
  BY <1>2, <1>3 DEF Handled
<1> QED BY <1>1, <1>4, SenderSteps

LEMMA HandledError ==
  ASSUME SenderInv, Roles, NEW m, m.type = "ERROR", S!NoSuchUser \/ S!TransferStateError
  PROVE  SenderInv' /\ Handled(m)
<1>1. SP!Inbound
  BY SenderActs DEF SP!Inbound
<1>2. sSend' = S!FreeSend /\ sRecv' = sRecv /\ sOut' = {} /\ UNCHANGED <<sPhase, sBroken>>
  BY NothingToReceive DEF S!NoSuchUser, S!TransferStateError, S!SendClear, S!Quiet, S!EnvUnchanged
<1>3. Handled(m)
  BY <1>2 DEF Handled
<1> QED BY <1>1, <1>3, SenderSteps

LEMMA ToSenderKinds ==
  ASSUME NEW m \in ToSender
  PROVE  \/ m.type = "SERVER_MSG" /\ m.text \in SenderTexts
         \/ /\ m.type = "ERROR" /\ m.code \in {200, 300}
            /\ m.code = 200 => m.about \in {0, 1}
            /\ m.code = 300 => m.about \in Tid
         \/ m.type \in {"ACCEPT", "REJECT", "CANCEL"} /\ m.tid \in Tid
BY DEF ToSender, Announce, Error

LEMMA AnswerKinds ==
  /\ \A m : m.type = "SERVER_MSG" => (IsAnswer(m) <=> Waiting(m.text))
  /\ \A m : m.type = "ERROR" => (IsAnswer(m) <=> m.code = 200 /\ m.about = 0)
  /\ \A m : m.type \notin {"SERVER_MSG", "ERROR"} => ~IsAnswer(m)
<1>1. "SERVER_MSG" # "ERROR"
  OBVIOUS
<1> QED BY <1>1, Zenon DEF IsAnswer, Waiting

LEMMA SenderHears ==
  ASSUME SenderInv, Roles, SendTid, NEW text \in SenderTexts, NEW m,
         m.type = "SERVER_MSG", m.text = text, S!HandleText(text)
  PROVE  SenderInv' /\ Handled(m)
<1> DEFINE kind == S!Classified(text.phrases)
           t == text.digits[1]
           ann == S!ParseAnnouncement(text)
<1>1. /\ t \in Tid /\ kind # "RECV_PENDING" /\ ann.kind = kind /\ ann.tid = t
      /\ kind = "SEND_PENDING" => IsAnswer(m)
  BY SenderText, AnswerKinds
<1>2. \A tid : S!RecvFind(tid) = {}
  BY NothingToReceive
<1>3. \/ kind = "SEND_PENDING" /\ S!AnnSendPending(t)
      \/ S!Accepted(t)
      \/ S!SendMatches(t) /\ (S!Rejected(t) \/ S!Cancelled(t) \/ S!AnnComplete(t))
      \/ S!NothingHappens
  <2> HIDE DEF kind, t, ann
  <2>1. S!HandleText(text) <=>
          CASE ann.kind = "RECV_PENDING" -> S!AnnIncoming(ann.tid)
            [] ann.kind = "SEND_PENDING" /\ sSend.state = "PENDING_TID" -> S!AnnSendPending(ann.tid)
            [] ann.kind = "ACCEPTED" /\ S!SendMatches(ann.tid) /\ sSend.state = "PENDING"
                 -> S!Accepted(ann.tid)
            [] ann.kind = "REJECTED" /\ S!SendMatches(ann.tid) -> S!Rejected(ann.tid)
            [] /\ ann.kind \in {"CANCELLED", "CANCELLED_DISC"}
               /\ S!SendMatches(ann.tid) \/ S!RecvFind(ann.tid) # {}
                 -> S!Cancelled(ann.tid)
            [] /\ ann.kind = "COMPLETE"
               /\ \/ S!SendMatches(ann.tid) /\ sSend.state = "WAIT_COMPLETE"
                  \/ S!RecvFind(ann.tid) # {}
                 -> S!AnnComplete(ann.tid)
            [] OTHER -> S!NothingHappens
    BY Zenon DEF S!HandleText, ann
  <2> QED BY <1>1, <1>2, <2>1
<1> QED BY <1>1, <1>3, HandledNothing, HandledNumber, HandledAccepted, HandledEnd

LEMMA SenderHandlesAny ==
  ASSUME SenderInv, Roles, SendTid, NEW m \in ToSender, S!Handle(m)
  PROVE  SenderInv' /\ Handled(m)
<1>1. CASE m.type = "SERVER_MSG"
  <2>1. m.text \in SenderTexts /\ S!HandleText(m.text)
    BY <1>1, ToSenderKinds DEF S!Handle
  <2> QED BY <1>1, <2>1, SenderHears
<1>2. CASE m.type = "ERROR"
  <2>1. S!HandleError(m.code)
    BY <1>2 DEF S!Handle
  <2>2. S!NoSuchUser \/ S!TransferStateError \/ S!NothingHappens
    BY <2>1 DEF S!HandleError
  <2> QED BY <1>2, <2>2, HandledError, HandledNothing
<1>3. CASE m.type \in {"ACCEPT", "REJECT", "CANCEL"} /\ m.tid \in Tid
  <2>1. S!HandleFrame(m)
    BY <1>3 DEF S!Handle
  <2>2. \A tid : S!RecvFind(tid) = {}
    BY NothingToReceive
  <2>3. \/ S!Accepted(m.tid) \/ S!NothingHappens
        \/ S!SendMatches(m.tid) /\ (S!Rejected(m.tid) \/ S!Cancelled(m.tid))
    BY <1>3, <2>1, <2>2 DEF S!HandleFrame
  <2> QED BY <1>3, <2>3, HandledNothing, HandledAccepted, HandledEnd
<1> QED BY <1>1, <1>2, <1>3, ToSenderKinds

-----------------------------------------------------------------------------
(* The receiver takes a step. *)

ReceiverInv == RP!TypeInv /\ RP!DiskInv

Slots == 1..RecvSlots

LEMMA SlotsAre == R!Slot = Slots /\ RP!Slot = Slots
BY DEF R!Slot, RP!Slot, Slots

LEMMA ReceiverStays ==
  ASSUME ReceiverInv, rOut' = {}, UNCHANGED receiverVars PROVE ReceiverInv'
<1>1. RP!TypeOK'
  BY DEF ReceiverInv, RP!TypeInv, RP!TypeOK, receiverVars
<1>2. RP!TaskShape'
  BY DEF ReceiverInv, RP!TypeInv, RP!TaskShape, receiverVars
<1>3. RP!PendingEmpty' /\ RP!OwnName' /\ RP!SingleReceiver' /\ RP!Covered'
  BY DEF ReceiverInv, RP!DiskInv, RP!PendingEmpty, RP!OwnName, RP!SingleReceiver, RP!Covered,
         RP!KeptNames, receiverVars
<1>4. RP!ReceivedMatchesDisk' /\ RP!KeptPresent' /\ RP!NoStrayFiles' /\ RP!SavedIfFlushed'
  BY DEF ReceiverInv, RP!DiskInv, RP!ReceivedMatchesDisk, RP!KeptPresent, RP!NoStrayFiles,
         RP!SavedIfFlushed, RP!SavedComplete, RP!KeptNames, RP!OpenNames, receiverVars
<1> QED BY <1>1, <1>2, <1>3, <1>4 DEF ReceiverInv, RP!TypeInv, RP!DiskInv

LEMMA ReceiverSteps ==
  ASSUME ReceiverInv, RP!Command \/ RP!Inbound PROVE ReceiverInv'
<1>1. RP!TypeInv'
  BY ReceiverAssumptions, RP!CommandType, RP!InboundType DEF ReceiverInv
<1>2. RP!DiskInv'
  BY ReceiverAssumptions, RP!CommandDisk, RP!InboundDisk DEF ReceiverInv
<1> QED BY <1>1, <1>2 DEF ReceiverInv

Same == rOut' = {} /\ UNCHANGED <<rRecv, rKnown, rContent, rSaved>>

Drops(i) ==
  /\ rRecv[i].busy /\ R!RecvClear(i) /\ rKnown' = rKnown
  /\ rOut' \subseteq [type : {"REJECT", "CANCEL"}, tid : {rRecv[i].tid}]

Opens(i) ==
  /\ rRecv[i].busy /\ rRecv[i].inited /\ R!RecvActive = {}
  /\ \E name \in Name :
       /\ rRecv' = [rRecv EXCEPT ![i].open = TRUE, ![i].name = name]
       /\ rContent' = [rContent EXCEPT ![name] = {}]
  /\ UNCHANGED <<rKnown, rSaved>> /\ rOut' \subseteq [type : {"ACCEPT"}, tid : {rRecv[i].tid}]
  /\ [type |-> "ACCEPT", tid |-> rRecv[i].tid] \in rOut'

Stores(i, m) ==
  /\ m.type = "CHUNK" /\ rRecv[i].busy /\ rRecv[i].open /\ rRecv[i].tid = m.tid
  /\ R!SpanLegal(rRecv[i].size, rRecv[i].marked, m.offset, m.len)
  /\ R!StoreSpan(i, m.offset, m.len) /\ rKnown' = rKnown /\ rOut' = {}

Keeps(i) ==
  /\ rRecv[i].busy /\ rRecv[i].open /\ rRecv[i].received = rRecv[i].size
  /\ rRecv' = [rRecv EXCEPT ![i] = R!FreeTask]
  /\ rSaved' = rSaved \cup {[name |-> rRecv[i].name, size |-> rRecv[i].size]}
  /\ UNCHANGED <<rContent, rKnown>> /\ rOut' = {}

Meets(t) ==
  /\ rKnown' = rKnown \cup {t} /\ UNCHANGED <<rContent, rSaved>>
  /\ \/ rRecv' = rRecv /\ rOut' \subseteq [type : {"REJECT"}, tid : {t}]
     \/ rOut' = {} /\ \E i \in Slots, seq \in Nat :
          ~rRecv[i].busy /\
          rRecv' = [rRecv EXCEPT ![i] = [R!FreeTask EXCEPT !.busy = TRUE, !.tid = t, !.seq = seq]]

Learns(i, m) ==
  /\ m.type = "INIT" /\ i \in R!Uninited
  /\ rRecv' = [rRecv EXCEPT ![i].inited = TRUE, ![i].file = m.file, ![i].size = m.size]
  /\ UNCHANGED <<rKnown, rContent, rSaved>> /\ rOut' = {}

(* What a message does to the receive tasks. *)
Taken(m) ==
  /\ UNCHANGED <<rPhase, rBroken>> /\ rSend'.state = "NONE"
  /\ \/ IsOffer(m) /\ m.type = "SERVER_MSG" /\ Meets(m.text.digits[1])
     \/ \E i \in Slots : Learns(i, m)
     \/ ~IsOffer(m) /\ (m.type = "INIT" => R!Uninited = {}) /\ Same
     \/ ~IsOffer(m) /\ m.type # "INIT" /\ \E i \in Slots : Drops(i) \/ Stores(i, m) \/ (m.type # "CHUNK" /\ Keeps(i))

LEMMA FoundTask ==
  ASSUME NEW tid, NEW i \in R!RecvFind(tid) PROVE i \in Slots /\ rRecv[i].busy /\ rRecv[i].tid = tid
BY DEF R!RecvFind, R!Lowest, R!Slot, Slots

LEMMA NothingToSend == ASSUME Roles PROVE ~R!SendBusy /\ \A tid : ~R!SendMatches(tid)
BY DEF Roles, R!SendBusy, R!SendMatches

LEMMA TakenNothing ==
  ASSUME ReceiverInv, Roles, NEW m, ~IsOffer(m), m.type = "INIT" => R!Uninited = {}, R!NothingHappens
  PROVE  ReceiverInv' /\ Taken(m)
<1>1. rOut' = {} /\ UNCHANGED receiverVars
  BY DEF R!NothingHappens, R!taskVars, R!diskVars, receiverVars
<1>2. Taken(m)
  BY <1>1 DEF Taken, Same, receiverVars, Roles
<1> QED BY <1>1, <1>2, ReceiverStays

LEMMA TakenOffer ==
  ASSUME ReceiverInv, Roles, NEW m, m.type = "SERVER_MSG", IsOffer(m), m.text.digits[1] \in Tid,
         R!AnnIncoming(m.text.digits[1])
  PROVE  ReceiverInv' /\ Taken(m)
<1> DEFINE t == m.text.digits[1]
<1> HIDE DEF t
<1>1. RP!Inbound
  BY ReceiverActs DEF RP!Inbound
<1>2. rRecvSeq \in Nat
  BY ReceiverAssumptions DEF ReceiverInv, RP!TypeInv, RP!TypeOK, RP!SizesAssumption
<1>3. R!AnnIncoming(t)
  BY DEF t
<1>4. /\ UNCHANGED <<rPhase, rBroken, rSend, rContent, rSaved>> /\ rKnown' = rKnown \cup {t}
      /\ \/ rRecv' = rRecv /\ rOut' \subseteq {[type |-> "REJECT", tid |-> t]}
         \/ rOut' = {} /\ \E i \in R!RecvFree :
             rRecv' = [rRecv EXCEPT ![i] = [R!FreeTask EXCEPT !.busy = TRUE, !.tid = t, !.seq = rRecvSeq]]
  BY <1>3 DEF R!AnnIncoming, R!Quiet, R!EnvUnchanged, R!diskVars, R!Delivered, R!ControlFrame
<1>5. \A i \in R!RecvFree : i \in Slots /\ ~rRecv[i].busy
  BY DEF R!RecvFree, R!Lowest, R!Slot, Slots
<1>6. Meets(t)
  <2>1. CASE rRecv' = rRecv /\ rOut' \subseteq {[type |-> "REJECT", tid |-> t]}
    <3>1. [type |-> "REJECT", tid |-> t] \in [type : {"REJECT"}, tid : {t}]
      OBVIOUS
    <3> QED BY <1>4, <2>1, <3>1 DEF Meets
  <2>2. ASSUME rOut' = {}, NEW i \in R!RecvFree,
               rRecv' = [rRecv EXCEPT ![i] = [R!FreeTask EXCEPT !.busy = TRUE, !.tid = t, !.seq = rRecvSeq]]
        PROVE  Meets(t)
    <3>1. i \in Slots /\ ~rRecv[i].busy
      BY <1>5
    <3> QED BY <1>2, <1>4, <2>2, <3>1 DEF Meets
  <2> QED BY <1>4, <2>1, <2>2
<1>7. rSend'.state = "NONE"
  BY <1>4 DEF Roles
<1>8. Taken(m)
  BY <1>4, <1>6, <1>7 DEF Taken, t
<1> QED BY <1>1, <1>8, ReceiverSteps

LEMMA TakenDetails ==
  ASSUME ReceiverInv, Roles, NEW m, m.type = "INIT", m.file \in File, m.size \in Sizes,
         R!FrameInit(m.file, m.size)
  PROVE  ReceiverInv' /\ Taken(m)
<1>1. RP!Inbound
  BY ReceiverActs DEF RP!Inbound
<1>2. R!Uninited \subseteq Slots
  BY DEF R!Uninited, R!Slot, Slots
<1>3. Taken(m)
  BY <1>2 DEF R!FrameInit, R!Quiet, R!EnvUnchanged, R!diskVars, Taken, Learns, Roles
<1> QED BY <1>1, <1>3, ReceiverSteps

(* The end of a receive task. *)
LEMMA Completing ==
  ASSUME NEW tid, R!RecvComplete(tid), rOut' = {}, rKnown' = rKnown, ReceiverInv
  PROVE  \E i \in Slots : Drops(i) \/ Keeps(i)
<1>1. PICK i \in R!RecvFind(tid) : IF rRecv[i].open THEN R!RecvFinish(i) ELSE R!RecvClear(i)
  BY DEF R!RecvComplete
<1>2. i \in Slots /\ rRecv[i].busy
  BY <1>1, FoundTask
<1>3. CASE R!RecvClear(i)
  BY <1>2, <1>3 DEF Drops
<1>4. CASE rRecv[i].open /\ rRecv[i].received = rRecv[i].size
  <2>1. /\ rRecv' = [rRecv EXCEPT ![i] = R!FreeTask]
        /\ rContent' = [rContent EXCEPT ![rRecv[i].name] = @ \ {}]
        /\ rSaved' = rSaved \cup {[name |-> rRecv[i].name, size |-> rRecv[i].size]}
    BY <1>1, <1>4 DEF R!RecvFinish
  <2>2. rContent \in [Name -> SUBSET Nat]
    BY DEF ReceiverInv, RP!TypeInv, RP!TypeOK
  <2>3. rContent' = rContent
    BY <2>1, <2>2
  <2> QED BY <1>2, <1>4, <2>1, <2>3 DEF Keeps
<1> QED BY <1>1, <1>3, <1>4 DEF R!RecvFinish

LEMMA TakenEnd ==
  ASSUME ReceiverInv, Roles, NEW m, ~IsOffer(m), m.type \notin {"INIT", "CHUNK"}, NEW tid \in Tid,
         R!Cancelled(tid) \/ R!AnnComplete(tid) \/ R!FrameComplete(tid) \/ R!TransferStateError
  PROVE  ReceiverInv' /\ Taken(m)
<1>1. RP!Inbound
  BY ReceiverActs DEF RP!Inbound
<1>2. /\ rOut' = {} /\ rKnown' = rKnown /\ UNCHANGED <<rPhase, rBroken>>
      /\ rSend' = rSend \/ rSend' = R!FreeSend
  BY DEF R!Cancelled, R!AnnComplete, R!FrameComplete, R!TransferStateError, R!Quiet, R!EnvUnchanged,
     R!SendClear
<1>3. rSend'.state = "NONE"
  BY <1>2 DEF Roles, R!FreeSend
<1>4. \E i \in Slots : Drops(i) \/ Keeps(i)
  <2>1. CASE R!Cancelled(tid)
    <3>1. PICK i \in R!RecvFind(tid) : R!RecvClear(i)
      BY <2>1, NothingToSend DEF R!Cancelled
    <3> QED BY <1>2, <3>1, FoundTask DEF Drops
  <2>2. CASE R!AnnComplete(tid)
    BY <1>2, <2>2, NothingToSend, Completing DEF R!AnnComplete
  <2>3. CASE R!FrameComplete(tid)
    BY <1>2, <2>3, Completing DEF R!FrameComplete
  <2>4. CASE R!TransferStateError
    <3>1. PICK i \in R!RecvActive : R!RecvClear(i)
      BY <2>4, NothingToSend DEF R!TransferStateError
    <3>2. i \in Slots /\ rRecv[i].busy
      BY DEF R!RecvActive, R!Slot, Slots
    <3> QED BY <1>2, <3>1, <3>2 DEF Drops
  <2> QED BY <2>1, <2>2, <2>3, <2>4
<1>5. Taken(m)
  BY <1>2, <1>3, <1>4 DEF Taken
<1> QED BY <1>1, <1>5, ReceiverSteps

LEMMA TakenChunk ==
  ASSUME ReceiverInv, Roles, NEW m, ~IsOffer(m), m.type = "CHUNK", m.tid \in Tid,
         m.offset \in Span, m.len \in Span, R!FrameChunk(m.tid, m.offset, m.len)
  PROVE  ReceiverInv' /\ Taken(m)
<1>1. RP!Inbound
  BY ReceiverActs DEF RP!Inbound
<1>2. PICK i \in R!RecvFind(m.tid) :
        /\ rRecv[i].open
        /\ \/ /\ R!SpanLegal(rRecv[i].size, rRecv[i].marked, m.offset, m.len)
              /\ R!StoreSpan(i, m.offset, m.len)
           \/ R!RecvAbort(i)
  BY DEF R!FrameChunk
<1>3. i \in Slots /\ rRecv[i].busy /\ rRecv[i].tid = m.tid
  BY FoundTask
<1>4. rKnown' = rKnown /\ UNCHANGED <<rPhase, rBroken, rSend>>
  BY DEF R!FrameChunk, R!EnvUnchanged
<1>5. CASE R!RecvAbort(i)
  <2>1. Drops(i)
    BY <1>3, <1>4, <1>5 DEF Drops, R!RecvAbort, R!Delivered, R!ControlFrame
  <2> QED BY <1>1, <1>3, <1>4, <2>1, ReceiverSteps DEF Taken, Roles
<1>6. CASE /\ R!SpanLegal(rRecv[i].size, rRecv[i].marked, m.offset, m.len)
           /\ R!StoreSpan(i, m.offset, m.len)
  <2>1. rOut' = {}
    BY <1>6 DEF R!StoreSpan, R!Quiet
  <2>2. Stores(i, m)
    BY <1>2, <1>3, <1>4, <1>6, <2>1 DEF Stores
  <2> QED BY <1>1, <1>3, <1>4, <2>2, ReceiverSteps DEF Taken, Roles
<1> QED BY <1>2, <1>5, <1>6

LEMMA ToReceiverKinds ==
  ASSUME NEW m \in ToReceiver
  PROVE  \/ m.type = "SERVER_MSG" /\ m.text \in ReceiverTexts
         \/ m.type = "ERROR" /\ m.code = 300 /\ m.about \in Tid
         \/ m.type = "INIT" /\ \E file \in Offered : m = InitTo(file)
         \/ m.type \in {"CANCEL", "COMPLETE"} /\ m.tid \in Tid
         \/ m.type = "CHUNK" /\ \E file \in Offered : m \in ChunkIn(file)
<1>1. CASE m \in {Announce(text) : text \in ReceiverTexts}
  BY <1>1 DEF Announce
<1>2. CASE m \in {Error(300, t) : t \in Tid}
  BY <1>2 DEF Error
<1>3. CASE m \in {InitTo(file) : file \in Offered}
  BY <1>3 DEF InitTo
<1>4. CASE m \in [type : {"CANCEL", "COMPLETE"}, tid : Tid]
  BY <1>4
<1>5. CASE m \in UNION {ChunkIn(file) : file \in Offered}
  <2>1. PICK file \in Offered : m \in ChunkIn(file)
    BY <1>5
  <2> QED BY <2>1 DEF ChunkIn
<1> QED BY <1>1, <1>2, <1>3, <1>4, <1>5 DEF ToReceiver

LEMMA OfferKinds ==
  /\ \A m : m.type = "SERVER_MSG" => (IsOffer(m) <=> m.text.head = OfferHead)
  /\ \A m : m.type # "SERVER_MSG" => ~IsOffer(m)
BY Zenon DEF IsOffer, OfferHead

LEMMA InitParts ==
  ASSUME NEW file \in Offered
  PROVE  /\ InitTo(file).type = "INIT" /\ InitTo(file).file = file
         /\ InitTo(file).size = FileSize[file]
         /\ file \in File /\ FileSize[file] \in Sizes
BY RelayAssumption DEF InitTo, Sizes, Offered

LEMMA ChunkParts ==
  ASSUME NEW file \in Offered, NEW f \in ChunkIn(file)
  PROVE  /\ f.type = "CHUNK" /\ f.tid \in Tid /\ f.file = file
         /\ f.offset \in Span /\ f.len \in Span
         /\ f.offset \in Nat /\ f.len \in Nat \ {0} /\ f.offset + f.len <= FileSize[file]
<1>1. /\ f.type = "CHUNK" /\ f.tid \in Tid /\ f.file = file
      /\ f.offset \in 0..FileSize[file]-1 /\ f.len \in 1..ChunkMax
      /\ f.offset + f.len <= FileSize[file]
  BY DEF ChunkIn
<1>2. FileSize[file] \in Nat /\ 0..FileSize[file] \subseteq Span
  BY RelayAssumption DEF Offered, Span
<1>3. f.offset \in 0..FileSize[file] /\ f.len \in 0..FileSize[file]
  BY <1>1, <1>2, RelayAssumption
<1> QED BY <1>1, <1>2, <1>3

LEMMA ReceiverHears ==
  ASSUME ReceiverInv, Roles, NEW m, m.type = "SERVER_MSG", m.text \in ReceiverTexts,
         R!HandleText(m.text)
  PROVE  ReceiverInv' /\ Taken(m)
<1> DEFINE text == m.text
           kind == IF text.head = OfferHead THEN "RECV_PENDING" ELSE R!Classified(text.phrases)
           t == text.digits[1]
           ann == R!ParseAnnouncement(text)
<1>1. /\ t \in Tid /\ ann.kind = kind /\ ann.tid = t
      /\ kind = "RECV_PENDING" <=> IsOffer(m)
  BY ReceiverText, OfferKinds
<1>2. ~R!SendBusy /\ (\A tid : ~R!SendMatches(tid)) /\ rSend.state = "NONE"
  BY NothingToSend DEF Roles
<1>3. \/ IsOffer(m) /\ R!AnnIncoming(t)
      \/ ~IsOffer(m) /\ (R!Cancelled(t) \/ R!AnnComplete(t))
      \/ ~IsOffer(m) /\ R!NothingHappens
  <2> HIDE DEF kind, t, ann
  <2>1. R!HandleText(text) <=>
          CASE ann.kind = "RECV_PENDING" -> R!AnnIncoming(ann.tid)
            [] ann.kind = "SEND_PENDING" /\ rSend.state = "PENDING_TID" -> R!AnnSendPending(ann.tid)
            [] ann.kind = "ACCEPTED" /\ R!SendMatches(ann.tid) /\ rSend.state = "PENDING"
                 -> R!Accepted(ann.tid)
            [] ann.kind = "REJECTED" /\ R!SendMatches(ann.tid) -> R!Rejected(ann.tid)
            [] /\ ann.kind \in {"CANCELLED", "CANCELLED_DISC"}
               /\ R!SendMatches(ann.tid) \/ R!RecvFind(ann.tid) # {}
                 -> R!Cancelled(ann.tid)
            [] /\ ann.kind = "COMPLETE"
               /\ \/ R!SendMatches(ann.tid) /\ rSend.state = "WAIT_COMPLETE"
                  \/ R!RecvFind(ann.tid) # {}
                 -> R!AnnComplete(ann.tid)
            [] OTHER -> R!NothingHappens
    BY Zenon DEF R!HandleText, ann
  <2> QED BY <1>1, <1>2, <2>1
<1> QED BY <1>1, <1>3, TakenNothing, TakenOffer, TakenEnd

LEMMA ReceiverHandlesAny ==
  ASSUME ReceiverInv, Roles, NEW m \in ToReceiver, R!Handle(m)
  PROVE  ReceiverInv' /\ Taken(m)
<1>0. ~R!SendBusy /\ (\A tid : ~R!SendMatches(tid)) /\ rSend.state = "NONE"
  BY NothingToSend DEF Roles
<1>1. CASE m.type = "SERVER_MSG"
  <2>1. m.text \in ReceiverTexts /\ R!HandleText(m.text)
    BY <1>1, ToReceiverKinds DEF R!Handle
  <2> QED BY <1>1, <2>1, ReceiverHears
<1>2. CASE m.type = "ERROR"
  <2>1. R!HandleError(m.code) /\ m.about \in Tid /\ ~IsOffer(m)
    BY <1>2, ToReceiverKinds, OfferKinds DEF R!Handle
  <2>2. R!TransferStateError \/ R!NothingHappens
    BY <1>0, <2>1 DEF R!HandleError
  <2> QED BY <1>2, <2>1, <2>2, TakenEnd, TakenNothing
<1>3. CASE m.type \notin {"SERVER_MSG", "ERROR"}
  <2>1. R!HandleFrame(m) /\ ~IsOffer(m)
    BY <1>3, OfferKinds DEF R!Handle
  <2>2. CASE m.type \in {"CANCEL", "COMPLETE"} /\ m.tid \in Tid
    <3>1. R!Cancelled(m.tid) \/ R!FrameComplete(m.tid) \/ R!NothingHappens
      BY <1>0, <2>1, <2>2 DEF R!HandleFrame
    <3> QED BY <2>1, <2>2, <3>1, TakenEnd, TakenNothing
  <2>3. CASE m.type = "INIT"
    <3>1. m.file \in File /\ m.size \in Sizes
      BY <2>3, ToReceiverKinds, InitParts
    <3>2. \/ R!FrameInit(m.file, m.size)
          \/ R!Uninited = {} /\ R!NothingHappens
      BY <2>1, <2>3 DEF R!HandleFrame
    <3> QED BY <2>1, <2>3, <3>1, <3>2, TakenDetails, TakenNothing
  <2>4. CASE m.type = "CHUNK"
    <3>1. m.tid \in Tid /\ m.offset \in Span /\ m.len \in Span
      BY <2>4, ToReceiverKinds, ChunkParts
    <3>2. R!FrameChunk(m.tid, m.offset, m.len) \/ R!NothingHappens
      BY <2>1, <2>4 DEF R!HandleFrame
    <3> QED BY <2>1, <2>4, <3>1, <3>2, TakenChunk, TakenNothing
  <2> QED BY <1>3, <2>2, <2>3, <2>4, ToReceiverKinds
<1> QED BY <1>1, <1>2, <1>3

LEMMA ReceiverCommanded ==
  ASSUME ReceiverInv, Roles, NEW tid \in TypedTid, R!CmdAccept(tid) \/ R!CmdReject(tid) \/ R!CmdCancel(tid)
  PROVE  /\ ReceiverInv' /\ UNCHANGED <<rPhase, rBroken, rSend>> /\ rPhase = "session"
         /\ \E i \in Slots : Drops(i) \/ Opens(i)
<1>1. ReceiverInv'
  <2>1. RP!Command
    BY ReceiverActs DEF RP!Command
  <2> QED BY <2>1, ReceiverSteps
<1>2. ~rBroken /\ ~R!CommandFails
  BY DEF Roles, R!CommandFails
<1>3. ASSUME NEW i \in R!RecvFind(tid), R!RecvClear(i), rKnown' = rKnown,
             rOut' \subseteq {R!ControlFrame("REJECT", rRecv[i].tid), R!ControlFrame("CANCEL", rRecv[i].tid)}
      PROVE  i \in Slots /\ Drops(i)
  <2>1. \A f \in rOut' : f \in [type : {"REJECT", "CANCEL"}, tid : {rRecv[i].tid}]
    BY <1>3 DEF R!ControlFrame
  <2> QED BY <1>3, <2>1, FoundTask DEF Drops
<1>4. CASE R!CmdAccept(tid)
  <2>1. PICK i \in R!RecvFind(tid) :
          /\ R!InSession /\ R!RecvActive = {} /\ rRecv[i].inited /\ rSend' = rSend
          /\ \/ R!RecvReject(i) /\ UNCHANGED <<rPhase, rBroken, rKnown>>
             \/ \E name \in R!UniqueName(rRecv[i].file) :
                  /\ R!CommandSends({R!ControlFrame("ACCEPT", tid)})
                  /\ rRecv' = [rRecv EXCEPT ![i].open = TRUE, ![i].name = name]
                  /\ rContent' = [rContent EXCEPT ![name] = {}]
                  /\ UNCHANGED rSaved /\ rRecv[i].file \in File
    BY <1>2, <1>4 DEF R!CmdAccept
  <2>2. i \in Slots /\ rRecv[i].busy /\ rRecv[i].tid = tid
    BY FoundTask
  <2>3. CASE R!RecvReject(i) /\ UNCHANGED <<rPhase, rBroken, rKnown>>
    BY <1>1, <1>3, <2>1, <2>2, <2>3 DEF R!RecvReject, R!InSession, R!Delivered
  <2>4. ASSUME NEW name \in R!UniqueName(rRecv[i].file), R!CommandSends({R!ControlFrame("ACCEPT", tid)}),
               rRecv' = [rRecv EXCEPT ![i].open = TRUE, ![i].name = name],
               rContent' = [rContent EXCEPT ![name] = {}],
               UNCHANGED rSaved, rRecv[i].file \in File
        PROVE  Opens(i) /\ UNCHANGED <<rPhase, rBroken>>
    <3>1. name \in Name
      BY <2>4, RelayAssumption DEF R!UniqueName, R!Lowest
    <3>2. UNCHANGED <<rPhase, rBroken, rKnown>> /\ rOut' = {[type |-> "ACCEPT", tid |-> tid]}
      BY <2>4 DEF R!CommandSends, R!ControlFrame
    <3>3. /\ rOut' \subseteq [type : {"ACCEPT"}, tid : {rRecv[i].tid}]
          /\ [type |-> "ACCEPT", tid |-> rRecv[i].tid] \in rOut'
      BY <2>2, <3>2
    <3> QED BY <2>1, <2>2, <2>4, <3>1, <3>2, <3>3 DEF Opens
  <2> QED BY <1>1, <2>1, <2>2, <2>3, <2>4 DEF R!InSession
<1>5. CASE R!CmdReject(tid)
  <2>1. PICK i \in R!RecvFind(tid) :
          R!InSession /\ R!CommandSends({R!ControlFrame("REJECT", tid)}) /\ R!RecvClear(i) /\ rSend' = rSend
    BY <1>2, <1>5 DEF R!CmdReject
  <2> QED BY <1>1, <1>3, <2>1, FoundTask DEF R!InSession, R!CommandSends
<1>6. CASE R!CmdCancel(tid)
  <2>1. PICK i \in R!RecvFind(tid) :
          R!InSession /\ R!CommandSends({R!ControlFrame("CANCEL", tid)}) /\ R!RecvClear(i) /\ rSend' = rSend
    BY <1>2, <1>6, NothingToSend DEF R!CmdCancel
  <2> QED BY <1>1, <1>3, <2>1, FoundTask DEF R!InSession, R!CommandSends
<1> QED BY <1>4, <1>5, <1>6

-----------------------------------------------------------------------------
(* The sender takes a step of its own. *)

LEMMA ChunkFits ==
  ASSUME NEW size \in Nat, NEW index \in Nat, index < SP!ChunkCount(size)
  PROVE  /\ index * ChunkMax \in 0..size-1 /\ SP!ChunkLen(size, index) \in 1..ChunkMax
         /\ index * ChunkMax + SP!ChunkLen(size, index) <= size
<1>1. index * ChunkMax < size /\ index * ChunkMax \in Nat
  BY SenderAssumptions, SP!ChunkInside
<1>2. SP!ChunkLen(size, index) \in Nat \ {0}
  BY SenderAssumptions, SP!ChunkLenType
<1>3. ChunkMax \in Nat
  BY RelayAssumption
<1> DEFINE at == index * ChunkMax
<1>4. SP!ChunkLen(size, index) = IF size - at >= ChunkMax THEN ChunkMax ELSE size - at
  BY DEF SP!ChunkLen
<1> HIDE DEF at
<1>5. /\ at \in 0..size-1 /\ SP!ChunkLen(size, index) \in 1..ChunkMax
      /\ at + SP!ChunkLen(size, index) <= size
  BY <1>1, <1>2, <1>3, <1>4 DEF at
<1> QED BY <1>5 DEF at

(* The chunks of the send task. *)
OwnChunks == {f \in ChunkIn(sSend.file) : f.tid = sSend.tid}

LEMMA ChunksOfTask ==
  ASSUME SenderInv, SendTid, sSend.state = "ACTIVE", NEW n \in Nat, n <= S!Round
  PROVE  S!FirstChunks(n) \subseteq OwnChunks
<1>1. /\ sSend.size \in Nat /\ sSend.sent \in Nat /\ sSend.tid \in Tid
      /\ FileSize[sSend.file] = sSend.size
  BY DEF SenderInv, SP!TypeInv, SP!TypeOK, SP!SendTask, SendTid
<1>2. S!ChunkCount(sSend.size) = SP!ChunkCount(sSend.size)
  BY DEF S!ChunkCount, SP!ChunkCount
<1>3. sSend.sent \div ChunkMax \in Nat /\ SP!ChunkCount(sSend.size) \in Nat
  BY <1>1, SenderAssumptions, SP!ChunkCountType
<1> SUFFICES ASSUME NEW k \in 0..n-1 PROVE S!ChunkFrame(k) \in OwnChunks
  BY DEF S!FirstChunks
<1> DEFINE index == sSend.sent \div ChunkMax + k
<1>4. index \in Nat /\ index < SP!ChunkCount(sSend.size)
  <2> DEFINE q == sSend.sent \div ChunkMax
             c == SP!ChunkCount(sSend.size)
  <2>1. n <= c - q
    <3>1. S!Round <= c - q
      <4>1. S!Round = IF c - q < ChunksPerRound THEN c - q ELSE ChunksPerRound
        BY <1>2 DEF S!Round
      <4>2. q \in Nat /\ c \in Nat /\ ChunksPerRound \in Nat
        BY <1>3, RelayAssumption
      <4> HIDE DEF q, c
      <4> QED BY <4>1, <4>2
    <3>2. S!Round \in Int /\ q \in Nat /\ c \in Nat
      BY <1>2, <1>3, RelayAssumption DEF S!Round
    <3> HIDE DEF q, c
    <3> QED BY <3>1, <3>2
  <2>2. q \in Nat /\ c \in Nat
    BY <1>3
  <2> HIDE DEF q, c
  <2>3. q + k \in Nat /\ q + k < c
    BY <2>1, <2>2
  <2> QED BY <2>3 DEF q, c
<1> HIDE DEF index
<1>5. /\ index * ChunkMax \in 0..sSend.size-1 /\ SP!ChunkLen(sSend.size, index) \in 1..ChunkMax
      /\ index * ChunkMax + SP!ChunkLen(sSend.size, index) <= sSend.size
  BY <1>1, <1>4, ChunkFits
<1>6. S!ChunkLen(sSend.size, index) = SP!ChunkLen(sSend.size, index)
  BY DEF S!ChunkLen, SP!ChunkLen
<1>7. S!ChunkFrame(k) = [type |-> "CHUNK", tid |-> sSend.tid, file |-> sSend.file,
                         offset |-> index * ChunkMax, len |-> SP!ChunkLen(sSend.size, index)]
  BY <1>6 DEF S!ChunkFrame, index
<1> QED BY <1>1, <1>5, <1>7 DEF OwnChunks, ChunkIn

SenderFrame == sPhase = "session" /\ UNCHANGED <<sPhase, sBroken, sRecv>>

Asks(file) ==
  /\ SenderFrame /\ sSend.state = "NONE" /\ sOut' = {S!InitFrame(file)}
  /\ sSend' = [state |-> "PENDING_TID", tid |-> 0, file |-> file, size |-> FileSize[file],
               sent |-> 0, open |-> TRUE]

Quits ==
  /\ SenderFrame /\ sSend.state # "NONE" /\ sSend' = S!FreeSend
  /\ sOut' \subseteq OwnChunks \cup [type : {"CANCEL"}, tid : {sSend.tid}]
  /\ [type |-> "CANCEL", tid |-> sSend.tid] \in sOut'
  /\ \A f \in sOut' : f.type # "CANCEL" => sSend.state = "ACTIVE"

Works ==
  /\ SenderFrame /\ sSend.state \in {"ACTIVE", "DONE"} /\ sSend'.state \in {"ACTIVE", "DONE", "WAIT_COMPLETE"}
  /\ sSend'.tid = sSend.tid /\ sSend'.file = sSend.file /\ sSend'.size = sSend.size
  /\ sOut' \subseteq OwnChunks \cup [type : {"COMPLETE"}, tid : {sSend.tid}]
  /\ IF sSend'.state = "WAIT_COMPLETE" THEN [type |-> "COMPLETE", tid |-> sSend.tid] \in sOut'
     ELSE \A f \in sOut' : f.type # "COMPLETE"

LEMMA Asking ==
  ASSUME SenderInv, Roles, NEW file \in SendFiles, S!CmdSendfile(file) PROVE SenderInv' /\ Asks(file)
<1>1. SP!Command
  BY SenderActs DEF SP!Command
<1>2. Asks(file)
  BY DEF S!CmdSendfile, S!CommandSends, S!CommandFails, S!InSession, S!SendBusy, Roles, Asks, SenderFrame
<1> QED BY <1>1, <1>2, SenderSteps

LEMMA Cancelling ==
  ASSUME SenderInv, Roles, NEW tid \in TypedTid, S!CmdCancel(tid) PROVE SenderInv' /\ Quits
<1>1. SP!Command
  BY SenderActs DEF SP!Command
<1>2. /\ S!InSession /\ S!SendMatches(tid) /\ S!CommandSends({S!ControlFrame("CANCEL", tid)})
      /\ S!SendClear /\ sRecv' = sRecv
  BY NothingToReceive DEF S!CmdCancel, S!CommandFails, Roles, S!diskVars
<1>3. sOut' = {[type |-> "CANCEL", tid |-> sSend.tid]} /\ sSend.state # "NONE"
  BY <1>2 DEF S!CommandSends, S!ControlFrame, S!SendMatches, S!SendBusy
<1>4. Quits
  BY <1>2, <1>3 DEF Quits, SenderFrame, S!InSession, S!CommandSends, S!SendClear
<1> QED BY <1>1, <1>4, SenderSteps

LEMMA Ticking ==
  ASSUME SenderInv, Roles, SendTid,
         \/ S!TickChunks \/ S!TickComplete
         \/ \E n \in 0..ChunksPerRound-1 : n < S!Round /\ S!TickReadFails(n)
  PROVE  SenderInv' /\ (Works \/ (Quits /\ sSend.state = "ACTIVE"))
<1>0. ~sBroken /\ sSend \in SP!SendTask
  BY DEF Roles, SenderInv, SP!TypeInv, SP!TypeOK
<1>1. CASE S!TickChunks
  <2>1. SP!Tick
    BY <1>1, SenderActs DEF SP!Tick
  <2>2. /\ sSend.state = "ACTIVE" /\ sSend'.state \in {"ACTIVE", "DONE"}
        /\ sSend'.tid = sSend.tid /\ sSend'.file = sSend.file /\ sSend'.size = sSend.size
        /\ sOut' = S!FirstChunks(S!Round) /\ SenderFrame
    BY <1>0, <1>1 DEF S!TickChunks, SP!SendTask, SenderFrame, S!InSession, S!TickUnchanged
  <2>3. S!Round \in Nat
    <3>1. sSend.sent < sSend.size /\ sSend.sent % ChunkMax = 0
      BY <2>2 DEF SenderInv, SP!SendPart, SP!SendShape
    <3>2. SP!SendTypeOK
      BY DEF SenderInv, SP!TypeInv, SP!TypeOK, SP!SendTypeOK
    <3>3. SP!Round \in Nat
      BY <3>1, <3>2, SenderAssumptions, SP!RoundSends
    <3> QED BY <3>3 DEF S!Round, SP!Round, S!ChunkCount, SP!ChunkCount
  <2>4. S!FirstChunks(S!Round) \subseteq OwnChunks
    BY <2>2, <2>3, ChunksOfTask
  <2>5. \A f \in sOut' : f.type # "COMPLETE"
    BY <2>2, <2>4 DEF OwnChunks, ChunkIn
  <2> QED BY <2>1, <2>2, <2>4, <2>5, SenderSteps DEF Works
<1>2. CASE S!TickComplete
  <2>1. SP!Tick
    BY <1>2, SenderActs DEF SP!Tick
  <2>2. /\ sSend.state = "DONE" /\ sSend' = [sSend EXCEPT !.state = "WAIT_COMPLETE"]
        /\ sOut' = {[type |-> "COMPLETE", tid |-> sSend.tid]} /\ SenderFrame
    BY <1>0, <1>2 DEF S!TickComplete, SenderFrame, S!InSession, S!TickUnchanged, S!ControlFrame
  <2>3. /\ sSend'.state = "WAIT_COMPLETE"
        /\ sSend'.tid = sSend.tid /\ sSend'.file = sSend.file /\ sSend'.size = sSend.size
    BY <1>0, <2>2 DEF SP!SendTask
  <2> QED BY <2>1, <2>2, <2>3, SenderSteps DEF Works
<1>3. ASSUME NEW n \in 0..ChunksPerRound-1, n < S!Round, S!TickReadFails(n)
      PROVE  SenderInv' /\ (Works \/ (Quits /\ sSend.state = "ACTIVE"))
  <2>1. SP!Tick
    <3>1. SP!TickReadFails(n) /\ n < SP!Round
      BY <1>3, SenderActs DEF S!Round, SP!Round, S!ChunkCount, SP!ChunkCount
    <3> QED BY <3>1 DEF SP!Tick
  <2>2. /\ sSend.state = "ACTIVE" /\ sSend' = S!FreeSend /\ SenderFrame
        /\ sOut' = S!FirstChunks(n) \cup {[type |-> "CANCEL", tid |-> sSend.tid]}
    BY <1>0, <1>3 DEF S!TickReadFails, SenderFrame, S!InSession, S!TickUnchanged, S!ControlFrame,
       S!Delivered, S!SendClear
  <2>3. n \in Nat /\ n <= S!Round
    <3>1. S!Round \in Int
      <4>1. sSend.sent \in Nat /\ sSend.size \in Nat
        BY <1>0 DEF SP!SendTask
      <4>2. SP!ChunkCount(sSend.size) \in Nat /\ sSend.sent \div ChunkMax \in Nat
        BY <4>1, SenderAssumptions, SP!ChunkCountType
      <4> QED BY <4>2, RelayAssumption DEF S!Round, S!ChunkCount, SP!ChunkCount
    <3> QED BY <1>3, <3>1, RelayAssumption
  <2>4. S!FirstChunks(n) \subseteq OwnChunks
    BY <2>2, <2>3, ChunksOfTask
  <2> QED BY <2>1, <2>2, <2>4, SenderSteps DEF Quits
<1> QED BY <1>1, <1>2, <1>3

(* The login, the end of a session, and of the process. *)
LEMMA SenderLives ==
  ASSUME SenderInv, S!SessionStart \/ S!Stop \/ S!Destroy
  PROVE  /\ SenderInv' /\ sOut' = {} /\ UNCHANGED sBroken
         /\ S!SessionStart => sPhase = "login" /\ sPhase' = "session" /\ sSend' = S!FreeSend
         /\ S!Stop => /\ sPhase \in {"login", "session"} /\ sPhase' = "closing"
                      /\ UNCHANGED <<sSend, sRecv>>
         /\ S!Destroy => sPhase = "closing" /\ sPhase' = "closed" /\ sSend' = S!FreeSend
         /\ sRecv' = sRecv \/ sRecv' = [i \in S!Slot |-> S!FreeTask]
<1>1. SP!Process
  BY SenderActs DEF SP!Process
<1> QED BY <1>1, SenderSteps DEF S!SessionStart, S!Stop, S!Destroy, S!ResetAll, S!SendClear, S!Quiet,
       S!Listening, S!taskVars

LEMMA ReceiverLives ==
  ASSUME ReceiverInv, R!SessionStart \/ R!Stop \/ R!Destroy
  PROVE  /\ ReceiverInv' /\ rOut' = {} /\ UNCHANGED <<rBroken, rKnown, rSaved>>
         /\ rSend' = rSend \/ rSend' = R!FreeSend
         /\ R!SessionStart => /\ rPhase = "login" /\ rPhase' = "session"
                              /\ rRecv' = [i \in Slots |-> R!FreeTask]
         /\ R!Stop => /\ rPhase \in {"login", "session"} /\ rPhase' = "closing"
                      /\ UNCHANGED <<rRecv, rContent>>
         /\ R!Destroy => /\ rPhase = "closing" /\ rPhase' = "closed"
                         /\ rRecv' = [i \in Slots |-> R!FreeTask]
<1>1. RP!Process
  BY ReceiverActs DEF RP!Process
<1>2. RP!TypeInv'
  BY <1>1, ReceiverAssumptions, RP!ProcessType DEF ReceiverInv
<1>3. RP!DiskInv'
  BY <1>1, ReceiverAssumptions, RP!ProcessDisk DEF ReceiverInv
<1> QED BY <1>2, <1>3, SlotsAre DEF ReceiverInv, R!SessionStart, R!Stop, R!Destroy, R!ResetAll, R!SendClear, R!Quiet,
       R!Listening, R!taskVars, R!diskVars

-----------------------------------------------------------------------------
(* The queues. *)

(* Messages that are no part of an offer, and no answer. *)
PlainToReceiver == {m \in ToReceiver : ~IsOffer(m) /\ m.type # "INIT"}
PlainToSender   == {m \in ToSender : ~IsAnswer(m)}

LEMMA Grown ==
  ASSUME NEW M, NEW s \in Seq(M), NEW P \in SUBSET M, NEW more \in Seq(P)
  PROVE  /\ s \o more \in Seq(M) /\ Len(s) \in Nat /\ Len(s) <= Len(s \o more)
         /\ Len(s \o more) \in Nat
         /\ \A k \in 1..Len(s) : k \in 1..Len(s \o more) /\ (s \o more)[k] = s[k]
         /\ \A k \in 1..Len(s \o more) : k \notin 1..Len(s) => (s \o more)[k] \in P
<1>1. more \in Seq(M)
  BY SeqMonotonic
<1>2. /\ s \o more \in Seq(M) /\ Len(s) \in Nat /\ Len(more) \in Nat
      /\ Len(s \o more) = Len(s) + Len(more)
      /\ \A i \in 1..Len(s) + Len(more) :
           (s \o more)[i] = IF i <= Len(s) THEN s[i] ELSE more[i - Len(s)]
  BY <1>1, ConcatProperties, LenProperties
<1>3. \A i \in 1..Len(more) : more[i] \in P
  BY ElementOfSeq
<1> DEFINE n == Len(s)
           l == Len(more)
<1>4. ASSUME NEW k \in 1..n+l, k \notin 1..n PROVE (s \o more)[k] \in P
  <2>1. k - n \in 1..l /\ ~(k <= n)
    <3>1. n \in Nat /\ l \in Nat
      BY <1>2
    <3> HIDE DEF n, l
    <3> QED BY <1>4, <3>1
  <2> QED BY <1>2, <1>3, <1>4, <2>1
<1>5. \A k \in 1..n : k \in 1..n+l /\ (s \o more)[k] = s[k]
  BY <1>2
<1>6. n <= n + l /\ n + l \in Nat
  BY <1>2
<1> QED BY <1>2, <1>4, <1>5, <1>6

LEMMA Tailed ==
  ASSUME NEW M, NEW s \in Seq(M), s # <<>>
  PROVE  /\ Tail(s) \in Seq(M) /\ Len(s) \in Nat \ {0} /\ Len(Tail(s)) = Len(s) - 1
         /\ s[1] \in M /\ Head(s) = s[1]
         /\ \A k \in 1..Len(Tail(s)) : Tail(s)[k] = s[k+1] /\ k + 1 \in 1..Len(s)
<1>1. /\ Head(s) \in M /\ Tail(s) \in Seq(M) /\ Len(Tail(s)) = Len(s) - 1
      /\ \A k \in 1..Len(Tail(s)) : Tail(s)[k] = s[k+1]
  BY HeadTailProperties
<1>2. Len(s) \in Nat \ {0}
  BY EmptySeq
<1>3. Head(s) = s[1]
  OBVIOUS
<1>4. \A k \in 1..Len(Tail(s)) : k + 1 \in 1..Len(s)
  BY <1>1, <1>2
<1> QED BY <1>1, <1>2, <1>3, <1>4

LEMMA OneMore ==
  ASSUME NEW M, NEW s \in Seq(M), NEW x \in M
  PROVE  /\ Append(s, x) \in Seq(M) /\ Len(Append(s, x)) = Len(s) + 1 /\ Len(s) \in Nat
         /\ \A k \in 1..Len(s) : Append(s, x)[k] = s[k]
         /\ Append(s, x)[Len(s) + 1] = x
BY AppendProperties, LenProperties

(* A frame is taken from its batch: the batches that are left are those there
   were, in their order, and the frame is gone. *)
Removal(b, w, i, f) ==
  \E g \in [1..Len(w) -> 1..Len(b)] :
    /\ \A j, k \in DOMAIN g : g[j] = g[k] => j = k
    /\ \A j \in DOMAIN g : w[j] = IF g[j] = i THEN b[i] \ {f} ELSE b[g[j]]

(* Nothing else is gone. *)
Leaves(b, w, f) ==
  \A j \in 1..Len(b) : \A h \in b[j] : h # f => \E k \in 1..Len(w) : h \in w[k]

LEMMA TakenFrom ==
  ASSUME NEW F, NEW b \in Seq(SUBSET F), NEW i \in 1..Len(b), NEW f \in b[i]
  PROVE  /\ Without(b, i, f) \in Seq(SUBSET F) /\ Removal(b, Without(b, i, f), i, f)
         /\ Leaves(b, Without(b, i, f), f)
<1> DEFINE n == Len(b)
<1>1. n \in Nat /\ \A k \in 1..n : b[k] \in SUBSET F
  BY LenProperties, ElementOfSeq
<1>2. CASE b[i] = {f}
  <2> DEFINE p == SubSeq(b, 1, i - 1)
             q == SubSeq(b, i + 1, n)
             w == p \o q
  <2>1. /\ p \in Seq(SUBSET F) /\ Len(p) = IF 1 <= i-1 THEN (i-1)-1+1 ELSE 0
        /\ \A k \in 1..(i-1)-1+1 : p[k] = b[1+k-1]
    <3>1. 1 \in Int /\ i - 1 \in Int /\ \A k \in 1..i-1 : b[k] \in SUBSET F
      BY <1>1
    <3> QED BY <3>1, SubSeqProperties
  <2>2. /\ q \in Seq(SUBSET F) /\ Len(q) = IF i+1 <= n THEN n-(i+1)+1 ELSE 0
        /\ \A k \in 1..n-(i+1)+1 : q[k] = b[i+1+k-1]
    <3>1. n \in Int /\ i + 1 \in Int /\ \A k \in i+1..n : b[k] \in SUBSET F
      BY <1>1
    <3> QED BY <3>1, SubSeqProperties
  <2>3. Without(b, i, f) = w
    BY <1>2 DEF Without
  <2>4. /\ w \in Seq(SUBSET F) /\ Len(w) = Len(p) + Len(q)
        /\ \A k \in 1..Len(p) + Len(q) : w[k] = IF k <= Len(p) THEN p[k] ELSE q[k - Len(p)]
    BY <2>1, <2>2, ConcatProperties
  <2> HIDE DEF p, q, w, n
  <2>5. Len(p) = i - 1 /\ Len(q) = n - i
    BY <1>1, <2>1, <2>2 DEF n
  <2>6. Len(w) = n - 1 /\ \A k \in 1..n-1 : w[k] = IF k < i THEN b[k] ELSE b[k+1]
    <3>1. Len(w) = n - 1 /\ i \in 1..n
      BY <1>1, <2>4, <2>5 DEF n
    <3>2. ASSUME NEW k \in 1..n-1, k < i PROVE w[k] = b[k]
      <4>1. k \in 1..i-1 /\ k <= Len(p) /\ k \in 1..Len(p)+Len(q) /\ 1+k-1 = k /\ k \in 1..(i-1)-1+1
        BY <1>1, <2>5, <3>1, <3>2
      <4> QED BY <2>1, <2>4, <4>1
    <3>3. ASSUME NEW k \in 1..n-1, ~(k < i) PROVE w[k] = b[k+1]
      <4>1. /\ ~(k <= Len(p)) /\ k \in 1..Len(p)+Len(q) /\ k - Len(p) = k - i + 1
            /\ k - i + 1 \in 1..n-(i+1)+1 /\ i+1+(k-i+1)-1 = k+1
        BY <1>1, <2>5, <3>1, <3>3
      <4> QED BY <2>2, <2>4, <4>1
    <3> QED BY <3>1, <3>2, <3>3
  <2>7. Removal(b, w, i, f)
    <3> DEFINE g == [k \in 1..n-1 |-> IF k < i THEN k ELSE k + 1]
    <3>1. g \in [1..n-1 -> 1..n] /\ DOMAIN g = 1..n-1
      BY <1>1
    <3>2. \A j, k \in 1..n-1 : g[j] = g[k] => j = k
      BY <1>1 DEF n
    <3>3. \A j \in 1..n-1 : g[j] # i /\ w[j] = b[g[j]]
      BY <1>1, <2>6 DEF n
    <3>4. g \in [1..Len(w) -> 1..Len(b)]
      BY <2>6, <3>1 DEF n
    <3> HIDE DEF g
    <3>5. \A j, k \in DOMAIN g : g[j] = g[k] => j = k
      BY <3>1, <3>2
    <3>6. \A j \in DOMAIN g : w[j] = IF g[j] = i THEN b[i] \ {f} ELSE b[g[j]]
      BY <3>1, <3>3
    <3> QED BY <3>4, <3>5, <3>6 DEF Removal
  <2>8. Leaves(b, w, f)
    <3> SUFFICES ASSUME NEW j \in 1..n, NEW h \in b[j], h # f PROVE \E k \in 1..n-1 : h \in w[k]
      BY <2>6 DEF Leaves, n
    <3>1. j # i /\ n \in Nat /\ i \in 1..n
      BY <1>1, <1>2 DEF n
    <3>2. CASE j < i
      <4>1. j \in 1..n-1
        BY <3>1, <3>2
      <4> QED BY <2>6, <3>2, <4>1
    <3>3. CASE ~(j < i)
      <4>1. j-1 \in 1..n-1 /\ ~(j-1 < i) /\ j-1+1 = j
        BY <3>1, <3>3
      <4> QED BY <2>6, <4>1
    <3> QED BY <3>2, <3>3
  <2> QED BY <2>3, <2>4, <2>7, <2>8 DEF n
<1>3. CASE b[i] # {f}
  <2> DEFINE w == [b EXCEPT ![i] = b[i] \ {f}]
  <2>1. Without(b, i, f) = w
    BY <1>3 DEF Without
  <2>2. /\ w \in Seq(SUBSET F) /\ Len(w) = n
        /\ \A j \in 1..n : w[j] = IF j = i THEN b[i] \ {f} ELSE b[j]
    <3>1. b[i] \ {f} \in SUBSET F
      BY <1>1
    <3> QED BY <3>1, ExceptSeq
  <2> HIDE DEF w
  <2>3. Removal(b, w, i, f)
    <3> DEFINE g == [k \in 1..n |-> k]
    <3>1. g \in [1..n -> 1..n] /\ DOMAIN g = 1..n /\ \A k \in 1..n : g[k] = k
      OBVIOUS
    <3> HIDE DEF g
    <3>2. g \in [1..Len(w) -> 1..n] /\ DOMAIN g = 1..n
      BY <2>2, <3>1
    <3>3. \A j \in DOMAIN g : w[j] = IF g[j] = i THEN b[i] \ {f} ELSE b[g[j]]
      BY <2>2, <3>1
    <3>4. \A j, k \in DOMAIN g : g[j] = g[k] => j = k
      BY <3>1
    <3> QED BY <3>2, <3>3, <3>4 DEF Removal
  <2>4. Leaves(b, w, f)
    BY <2>2 DEF Leaves
  <2> QED BY <2>1, <2>2, <2>3, <2>4
<1> QED BY <1>2, <1>3

(* A transfer keeps its file. *)
FilesKept ==
  /\ \A t \in Transfers : t \in Transfers' /\ xfer'[t].file = xfer[t].file
  /\ \A t \in Transfers' : xfer'[t].file \in Offered

HeadKept ==
  Len(down[Receiver]) > 0 => Len(down'[Receiver]) > 0 /\ down'[Receiver][1] = down[Receiver][1]

LEMMA ReceiverQueue ==
  ASSUME MessagesTyped
  PROVE  /\ down[Receiver] \in Seq(ToReceiver) /\ Len(down[Receiver]) \in Nat
         /\ Offers \subseteq 1..Len(down[Receiver])
BY LenProperties DEF MessagesTyped, Offers

LEMMA QueueGrows ==
  ASSUME MessagesTyped, Paired, OfferedOnce, FilesKept, rKnown' = rKnown,
         NEW more \in Seq(PlainToReceiver), down'[Receiver] = down[Receiver] \o more
  PROVE  Paired' /\ OfferedOnce' /\ HeadKept
<1> DEFINE q == down[Receiver]
           w == down'[Receiver]
<1>1. PlainToReceiver \in SUBSET ToReceiver
  BY DEF PlainToReceiver
<1>2. /\ Len(q) \in Nat /\ Len(w) \in Nat /\ Len(q) <= Len(w)
      /\ \A k \in 1..Len(q) : k \in 1..Len(w) /\ w[k] = q[k]
      /\ \A k \in 1..Len(w) : k \notin 1..Len(q) => w[k] \in PlainToReceiver
  BY <1>1, ReceiverQueue, Grown
<1>3. \A k \in 1..Len(w) : k \notin 1..Len(q) => ~IsOffer(w[k]) /\ w[k].type # "INIT"
  BY <1>2 DEF PlainToReceiver
<1>4. /\ Offers = {k \in 1..Len(q) : IsOffer(q[k])}
      /\ Offers' = {k \in 1..Len(w) : IsOffer(w[k])}
  BY DEF Offers, IsOffer
<1>5. \A k : OfferAt(k) = q[k].text.digits[1] /\ OfferAt(k)' = w[k].text.digits[1]
  BY DEF OfferAt
<1>6. Paired <=> /\ \A k \in Offers : k < Len(q) /\ q[k + 1] = InitTo(xfer[OfferAt(k)].file)
                 /\ \A k \in 1..Len(q) : q[k].type = "INIT" => k = 1 \/ k - 1 \in Offers
  BY DEF Paired
<1>7. Paired' <=> /\ \A k \in Offers' : k < Len(w) /\ w[k + 1] = InitTo(xfer'[OfferAt(k)'].file)
                  /\ \A k \in 1..Len(w) : w[k].type = "INIT" => k = 1 \/ k - 1 \in Offers'
  BY DEF Paired, InitTo
<1> HIDE DEF q, w
<1>8. Offers' = Offers /\ \A k \in Offers : OfferAt(k)' = OfferAt(k)
  BY <1>2, <1>3, <1>4, <1>5
<1>9. Paired'
  <2>1. ASSUME NEW k \in Offers PROVE k < Len(w) /\ w[k + 1] = InitTo(xfer'[OfferAt(k)'].file)
    <3>1. k \in 1..Len(q) /\ k < Len(q) /\ q[k + 1] = InitTo(xfer[OfferAt(k)].file)
      BY <1>4, <1>6
    <3>2. k + 1 \in 1..Len(q)
      BY <1>2, <3>1
    <3>3. xfer'[OfferAt(k)].file = xfer[OfferAt(k)].file
      BY DEF OfferedOnce, FilesKept
    <3>4. k < Len(w)
      BY <1>2, <3>1
    <3> QED BY <1>2, <1>8, <3>1, <3>2, <3>3, <3>4
  <2>2. \A k \in 1..Len(w) : w[k].type = "INIT" => k = 1 \/ k - 1 \in Offers'
    BY <1>2, <1>3, <1>6, <1>8
  <2> QED BY <1>7, <1>8, <2>1, <2>2
<1>10. OfferedOnce'
  <2>1. \A k \in Offers' : OfferAt(k)' \in Transfers' \ rKnown'
    BY <1>8 DEF OfferedOnce, FilesKept
  <2>2. \A k, l \in Offers' : OfferAt(k)' = OfferAt(l)' => k = l
    BY <1>8 DEF OfferedOnce
  <2> QED BY <2>1, <2>2 DEF OfferedOnce
<1>11. HeadKept
  BY <1>2 DEF HeadKept, q, w
<1> QED BY <1>9, <1>10, <1>11

LEMMA TwoMore ==
  ASSUME NEW M, NEW q \in Seq(M), NEW a \in M, NEW b \in M
  PROVE  /\ q \o <<a, b>> \in Seq(M) /\ Len(q \o <<a, b>>) = Len(q) + 2 /\ Len(q) \in Nat
         /\ \A k \in 1..Len(q) : (q \o <<a, b>>)[k] = q[k]
         /\ (q \o <<a, b>>)[Len(q) + 1] = a /\ (q \o <<a, b>>)[Len(q) + 2] = b
<1> DEFINE s == <<a, b>>
           n == Len(q)
<1>1. s \in Seq(M) /\ Len(s) = 2 /\ s[1] = a /\ s[2] = b
  OBVIOUS
<1> HIDE DEF s
<1>2. /\ q \o s \in Seq(M) /\ Len(q \o s) = n + 2 /\ n \in Nat
      /\ \A k \in 1..n + 2 : (q \o s)[k] = IF k <= n THEN q[k] ELSE s[k - n]
  <2>1. /\ q \o s \in Seq(M) /\ Len(q \o s) = n + Len(s)
        /\ \A k \in 1..n + Len(s) : (q \o s)[k] = IF k <= n THEN q[k] ELSE s[k - n]
    BY <1>1, ConcatProperties
  <2>2. n \in Nat
    BY LenProperties
  <2> QED BY <1>1, <2>1, <2>2
<1> HIDE DEF n
<1>3. \A k \in 1..n : (q \o s)[k] = q[k]
  BY <1>2
<1>4. (q \o s)[n + 1] = s[1] /\ (q \o s)[n + 2] = s[2]
  <2>1. /\ n + 1 \in 1..n+2 /\ ~(n + 1 <= n) /\ n + 1 - n = 1
        /\ n + 2 \in 1..n+2 /\ ~(n + 2 <= n) /\ n + 2 - n = 2
    BY <1>2
  <2> QED BY <1>2, <2>1
<1> QED BY <1>1, <1>2, <1>3, <1>4 DEF s, n

(* A transfer is announced, and its details follow. *)
LEMMA QueueOffers ==
  ASSUME MessagesTyped, Paired, OfferedOnce, FilesKept, rKnown' = rKnown,
         NEW t \in Transfers', t \notin Transfers, t \notin rKnown,
         NEW m \in ToReceiver, IsOffer(m), m.type # "INIT", m.text.digits[1] = t,
         InitTo(xfer'[t].file) \in ToReceiver, InitTo(xfer'[t].file).type = "INIT",
         down'[Receiver] = down[Receiver] \o <<m, InitTo(xfer'[t].file)>>
  PROVE  Paired' /\ OfferedOnce' /\ HeadKept
<1> DEFINE q == down[Receiver]
           w == down'[Receiver]
           n == Len(q)
           details == InitTo(xfer'[t].file)
<1>1. /\ n \in Nat /\ Len(w) = n + 2 /\ w[n + 1] = m /\ w[n + 2] = details
      /\ \A k \in 1..n : w[k] = q[k]
  BY ReceiverQueue, TwoMore
<1>2. ~IsOffer(details) /\ details.type = "INIT"
  BY OfferKinds
<1>4. /\ Offers = {k \in 1..n : IsOffer(q[k])}
      /\ Offers' = {k \in 1..Len(w) : IsOffer(w[k])}
  BY DEF Offers, IsOffer
<1>5. \A k : OfferAt(k) = q[k].text.digits[1] /\ OfferAt(k)' = w[k].text.digits[1]
  BY DEF OfferAt
<1>6. Paired <=> /\ \A k \in Offers : k < n /\ q[k + 1] = InitTo(xfer[OfferAt(k)].file)
                 /\ \A k \in 1..n : q[k].type = "INIT" => k = 1 \/ k - 1 \in Offers
  BY DEF Paired
<1>7. Paired' <=> /\ \A k \in Offers' : k < Len(w) /\ w[k + 1] = InitTo(xfer'[OfferAt(k)'].file)
                  /\ \A k \in 1..Len(w) : w[k].type = "INIT" => k = 1 \/ k - 1 \in Offers'
  BY DEF Paired, InitTo
<1>h. HeadKept
  BY <1>1 DEF HeadKept
<1>d. w[n + 2] = InitTo(xfer'[t].file)
  BY <1>1
<1> HIDE DEF q, w, n, details
<1>k. /\ \A k \in 1..Len(w) : k \in 1..n \/ k = n + 1 \/ k = n + 2
      /\ n + 1 \in 1..Len(w) /\ \A k \in 1..n : k \in 1..Len(w) /\ k # n + 1
  BY <1>1
<1>8. Offers' = Offers \cup {n + 1}
  <2>1. \A k \in 1..n : IsOffer(w[k]) <=> IsOffer(q[k])
    BY <1>1
  <2>2. IsOffer(w[n + 1]) /\ ~IsOffer(w[n + 2])
    BY <1>1, <1>2
  <2> QED BY <1>4, <1>k, <2>1, <2>2
<1>9. (\A k \in Offers : OfferAt(k)' = OfferAt(k)) /\ \A k : k = n + 1 => OfferAt(k)' = t
  <2>1. \A k \in Offers : OfferAt(k)' = OfferAt(k)
    BY <1>1, <1>4, <1>5
  <2>2. \A k : k = n + 1 => OfferAt(k)' = t
    BY <1>1, <1>5
  <2> QED BY <2>1, <2>2
<1>10. Paired'
  <2>1. ASSUME NEW k \in Offers PROVE k < Len(w) /\ w[k + 1] = InitTo(xfer'[OfferAt(k)'].file)
    <3>1. k \in 1..n /\ k < n /\ q[k + 1] = InitTo(xfer[OfferAt(k)].file)
      BY <1>4, <1>6
    <3>2. k + 1 \in 1..n
      BY <1>1, <3>1
    <3>3. xfer'[OfferAt(k)].file = xfer[OfferAt(k)].file
      BY DEF OfferedOnce, FilesKept
    <3>4. k < Len(w)
      BY <1>1, <3>1
    <3> QED BY <1>1, <1>9, <3>1, <3>2, <3>3, <3>4
  <2>2. ASSUME NEW k, k = n + 1 PROVE k < Len(w) /\ w[k + 1] = InitTo(xfer'[OfferAt(k)'].file)
    <3>1. k + 1 = n + 2 /\ k < n + 2
      BY <1>1, <2>2
    <3>2. OfferAt(k)' = t
      BY <1>9, <2>2
    <3> QED BY <1>1, <1>d, <3>1, <3>2
  <2>3. ASSUME NEW k \in 1..Len(w), w[k].type = "INIT" PROVE k = 1 \/ k - 1 \in Offers'
    <3>1. CASE k \in 1..n
      BY <1>1, <1>6, <1>8, <2>3, <3>1
    <3>2. CASE k = n + 1
      BY <1>1, <2>3, <3>2
    <3>3. CASE k = n + 2
      <4>1. k - 1 = n + 1
        BY <1>1, <3>3
      <4> QED BY <1>8, <4>1
    <3> QED BY <1>k, <3>1, <3>2, <3>3
  <2>4. \A k \in Offers' : k \in Offers \/ k = n + 1
    BY <1>8
  <2> QED BY <1>7, <2>4, <2>1, <2>2, <2>3
<1>11. OfferedOnce'
  <2>0. \A k \in Offers' : k \in Offers \/ k = n + 1
    BY <1>8
  <2>1. \A k \in Offers' : OfferAt(k)' \in Transfers' \ rKnown'
    BY <2>0, <1>9 DEF OfferedOnce, FilesKept
  <2>2. \A k, l \in Offers' : OfferAt(k)' = OfferAt(l)' => k = l
    <3>1. \A k \in Offers : OfferAt(k)' # t
      BY <1>9 DEF OfferedOnce
    <3> QED BY <2>0, <1>9, <3>1 DEF OfferedOnce
  <2> QED BY <2>1, <2>2 DEF OfferedOnce
<1> QED BY <1>10, <1>11, <1>h

(* The receiver takes the first message. *)
LEMMA QueueTails ==
  ASSUME MessagesTyped, Paired, OfferedOnce, xfer' = xfer, down[Receiver] # <<>>,
         down'[Receiver] = Tail(down[Receiver]),
         IF IsOffer(Head(down[Receiver]))
         THEN rKnown' = rKnown \cup {Head(down[Receiver]).text.digits[1]} ELSE rKnown' = rKnown
  PROVE  /\ Paired' /\ OfferedOnce'
         /\ IsOffer(Head(down[Receiver])) =>
              /\ Head(down[Receiver]).text.digits[1] \in Transfers \ rKnown
              /\ Len(down'[Receiver]) > 0
              /\ down'[Receiver][1] = InitTo(xfer[Head(down[Receiver]).text.digits[1]].file)
<1> DEFINE q == down[Receiver]
           w == down'[Receiver]
           n == Len(q)
<1>1. /\ n \in Nat \ {0} /\ Len(w) = n - 1 /\ Head(q) = q[1]
      /\ \A k \in 1..Len(w) : w[k] = q[k+1] /\ k + 1 \in 1..n
  BY ReceiverQueue, Tailed
<1>4. /\ Offers = {k \in 1..n : IsOffer(q[k])}
      /\ Offers' = {k \in 1..Len(w) : IsOffer(w[k])}
  BY DEF Offers, IsOffer
<1>5. \A k : OfferAt(k) = q[k].text.digits[1] /\ OfferAt(k)' = w[k].text.digits[1]
  BY DEF OfferAt
<1>6. Paired <=> /\ \A k \in Offers : k < n /\ q[k + 1] = InitTo(xfer[OfferAt(k)].file)
                 /\ \A k \in 1..n : q[k].type = "INIT" => k = 1 \/ k - 1 \in Offers
  BY DEF Paired
<1>7. Paired' <=> /\ \A k \in Offers' : k < Len(w) /\ w[k + 1] = InitTo(xfer[OfferAt(k)'].file)
                  /\ \A k \in 1..Len(w) : w[k].type = "INIT" => k = 1 \/ k - 1 \in Offers'
  BY DEF Paired, InitTo
<1>8. IF IsOffer(q[1]) THEN rKnown' = rKnown \cup {OfferAt(1)} ELSE rKnown' = rKnown
  BY <1>1 DEF OfferAt
<1>t. Transfers' = Transfers
  BY DEF Transfers
<1>g. /\ \A k \in Offers : OfferAt(k) \in Transfers \ rKnown
      /\ \A k, l \in Offers : OfferAt(k) = OfferAt(l) => k = l
  BY DEF OfferedOnce
<1>z. OfferAt(1) = Head(q).text.digits[1]
  BY <1>1 DEF OfferAt
<1> HIDE DEF q, w, n
<1>9. \A k \in Offers' : k + 1 \in Offers /\ OfferAt(k)' = OfferAt(k + 1) /\ k \in Nat \ {0}
  BY <1>1, <1>4, <1>5
<1>10. Paired'
  <2>1. ASSUME NEW k \in Offers' PROVE k < Len(w) /\ w[k + 1] = InitTo(xfer[OfferAt(k)'].file)
    <3>1. k \in Nat \ {0} /\ k + 1 < n /\ q[k + 1 + 1] = InitTo(xfer[OfferAt(k + 1)].file)
      BY <1>6, <1>9
    <3>2. k < Len(w) /\ k + 1 \in 1..Len(w)
      BY <1>1, <3>1
    <3> QED BY <1>1, <1>9, <3>1, <3>2
  <2>2. ASSUME NEW k \in 1..Len(w), w[k].type = "INIT", k # 1 PROVE k - 1 \in Offers'
    <3>1. q[k + 1].type = "INIT" /\ k + 1 \in 1..n
      BY <1>1, <2>2
    <3>2. (k + 1) - 1 \in Offers /\ (k + 1) - 1 = k /\ k - 1 \in 1..Len(w) /\ (k - 1) + 1 = k
      BY <1>1, <1>6, <2>2, <3>1
    <3> QED BY <1>1, <1>4, <3>2
  <2> QED BY <1>7, <2>1, <2>2
<1>11. OfferedOnce'
  <2>1. ASSUME NEW k \in Offers' PROVE OfferAt(k)' \in Transfers' \ rKnown'
    <3>1. /\ OfferAt(k)' \in Transfers \ rKnown /\ k + 1 \in Offers
          /\ OfferAt(k)' = OfferAt(k + 1) /\ k + 1 # 1
      BY <1>9, <1>g
    <3>2. IsOffer(q[1]) => OfferAt(1) # OfferAt(k + 1)
      <4>1. IsOffer(q[1]) => 1 \in Offers
        BY <1>1, <1>4
      <4> QED BY <1>g, <3>1, <4>1
    <3> QED BY <1>8, <1>t, <3>1, <3>2
  <2>2. \A k, l \in Offers' : OfferAt(k)' = OfferAt(l)' => k = l
    BY <1>9, <1>g
  <2> QED BY <2>1, <2>2 DEF OfferedOnce
<1>12. ASSUME IsOffer(q[1])
       PROVE  /\ OfferAt(1) \in Transfers \ rKnown
              /\ Len(w) > 0 /\ w[1] = InitTo(xfer[OfferAt(1)].file)
  <2>1. 1 \in Offers
    BY <1>1, <1>4, <1>12
  <2>2. 1 < n /\ q[1 + 1] = InitTo(xfer[OfferAt(1)].file)
    BY <1>6, <2>1
  <2>3. 1 \in 1..Len(w)
    BY <1>1, <2>2
  <2> QED BY <1>1, <1>g, <2>1, <2>2, <2>3
<1> QED BY <1>1, <1>10, <1>11, <1>12, <1>z DEF q, w

(* What is known of the receive tasks. *)
LEMMA TaskFacts ==
  ASSUME ReceiverInv
  PROVE  /\ rRecv \in [Slots -> RP!Task] /\ rContent \in [Name -> SUBSET Nat]
         /\ \A i \in Slots : rRecv[i].open => /\ rRecv[i].busy /\ rRecv[i].inited /\ rRecv[i].size > 0
                                            /\ rRecv[i].name \in Name
         /\ \A i \in Slots : ~rRecv[i].open => rRecv[i].name = NoName
         /\ \A i, j \in Slots : rRecv[i].open /\ rRecv[j].open => i = j
BY SlotsAre DEF ReceiverInv, RP!TypeInv, RP!TypeOK, RP!TaskShape, RP!DiskInv, RP!SingleReceiver

LEMMA ReceiptKept ==
  ASSUME ReceiverInv, Receipt, FilesKept, Paired', OfferedOnce', HeadKept \/ rPhase = "closed",
         UNCHANGED receiverVars, UNCHANGED receiverHistory, orphaned => orphaned'
  PROVE  Receipt'
<1>1. UNCHANGED <<rPhase, rRecv, rKnown, rContent, data, kept>>
  BY DEF receiverVars, receiverHistory
<1>2. \A i \in 1..RecvSlots : rRecv[i].busy =>
        rRecv[i].tid \in Transfers /\ xfer'[rRecv[i].tid].file = xfer[rRecv[i].tid].file
  BY DEF Receipt, KnownTransfers, FilesKept
<1>3. DetailsNext'
  <2>1. R!Uninited' = R!Uninited
    BY <1>1 DEF R!Uninited
  <2>2. \A i \in R!Uninited : i \in 1..RecvSlots /\ rRecv[i].busy
    BY DEF R!Uninited, R!Slot
  <2>3. ASSUME NEW i \in R!Uninited, rPhase' # "closed"
        PROVE  Len(down'[Receiver]) > 0 /\ down'[Receiver][1] = InitTo(xfer'[rRecv'[i].tid].file)
    <3>1. Len(down[Receiver]) > 0 /\ down[Receiver][1] = InitTo(xfer[rRecv[i].tid].file)
      BY <1>1, <2>3 DEF Receipt, DetailsNext
    <3>2. HeadKept
      BY <1>1, <2>3
    <3> QED BY <1>1, <1>2, <2>2, <3>1, <3>2 DEF HeadKept
  <2>4. \A i, j \in R!Uninited : i = j
    BY DEF Receipt, DetailsNext
  <2> QED BY <2>1, <2>3, <2>4 DEF DetailsNext, InitTo
<1>4. KnownTransfers'
  BY <1>1 DEF Receipt, KnownTransfers, FilesKept
<1>5. DetailsMatch'
  BY <1>1, <1>2 DEF Receipt, DetailsMatch
<1>6. DataOnDisk'
  <2>1. \A i \in 1..RecvSlots : rRecv[i].open => rRecv[i].busy
    BY TaskFacts DEF Slots
  <2> QED BY <1>1, <1>2, <2>1 DEF Receipt, DataOnDisk
<1> QED BY <1>3, <1>4, <1>5, <1>6 DEF Receipt

-----------------------------------------------------------------------------
(* The receive tasks. *)

Tasks == KnownTransfers /\ DetailsMatch /\ DataOnDisk /\ \A i, j \in R!Uninited : i = j

(* No other task waits for its details than before. *)
WaitingSame == \A j \in R!Uninited' : j \in R!Uninited /\ rRecv'[j].tid = rRecv[j].tid

LEMMA FreedFacts ==
  ASSUME ReceiverInv, NEW i \in Slots, rRecv' = [rRecv EXCEPT ![i] = R!FreeTask]
  PROVE  /\ ~rRecv'[i].busy /\ ~rRecv'[i].open /\ ~rRecv'[i].inited
         /\ \A j \in Slots : j # i => rRecv'[j] = rRecv[j]
BY TaskFacts DEF R!FreeTask

LEMMA FreedTasks ==
  ASSUME ReceiverInv, Tasks, NEW i \in Slots, rRecv' = [rRecv EXCEPT ![i] = R!FreeTask],
         UNCHANGED <<xfer, rKnown, data>>, orphaned => orphaned',
         kept' = kept \/ (rRecv[i].busy /\ kept' = kept \cup {rRecv[i].tid}),
         \A j \in Slots : j # i /\ rRecv[j].open => rContent'[rRecv[j].name] = rContent[rRecv[j].name]
  PROVE  Tasks' /\ WaitingSame
<1>1. /\ ~rRecv'[i].busy /\ ~rRecv'[i].open /\ ~rRecv'[i].inited
      /\ \A j \in Slots : j # i => rRecv'[j] = rRecv[j]
  BY FreedFacts
<1>2. Transfers' = Transfers
  BY DEF Transfers
<1>3. KnownTransfers'
  <2>1. rKnown' \subseteq Transfers' /\ kept' \subseteq rKnown' /\ \A t \in Transfers' : xfer'[t].file \in Offered
    BY <1>2 DEF Tasks, KnownTransfers, Slots
  <2>2. \A j \in Slots : rRecv'[j].busy => rRecv'[j].tid \in rKnown' \ kept'
    BY <1>1 DEF Tasks, KnownTransfers, Slots
  <2>3. \A j, k \in Slots : rRecv'[j].busy /\ rRecv'[k].busy /\ rRecv'[j].tid = rRecv'[k].tid => j = k
    BY <1>1 DEF Tasks, KnownTransfers, Slots
  <2> QED BY <2>1, <2>2, <2>3 DEF KnownTransfers, Slots
<1>4. DetailsMatch'
  BY <1>1 DEF Tasks, DetailsMatch, Slots
<1>5. DataOnDisk'
  BY <1>1 DEF Tasks, DataOnDisk, Slots
<1>6. WaitingSame /\ \A j, k \in R!Uninited' : j = k
  BY <1>1, SlotsAre DEF WaitingSame, R!Uninited, Tasks
<1> QED BY <1>3, <1>4, <1>5, <1>6 DEF Tasks

LEMMA DropsTask ==
  ASSUME ReceiverInv, Tasks, NEW i \in Slots, Drops(i),
         UNCHANGED <<xfer, data, kept>>, orphaned => orphaned'
  PROVE  Tasks' /\ WaitingSame
<1>1. /\ rRecv' = [rRecv EXCEPT ![i] = R!FreeTask] /\ rKnown' = rKnown
      /\ rContent' = [n \in Name |-> IF n = rRecv[i].name THEN {} ELSE rContent[n]]
  BY DEF Drops, R!RecvClear
<1>2. ASSUME NEW j \in Slots, j # i, rRecv[j].open
      PROVE  rContent'[rRecv[j].name] = rContent[rRecv[j].name]
  <2>1. ~rRecv[i].open /\ rRecv[i].name = NoName /\ rRecv[j].name \in Name
    BY <1>2, TaskFacts
  <2> QED BY <1>1, <2>1, RelayAssumption
<1> QED BY <1>1, <1>2, FreedTasks

LEMMA KeepsTask ==
  ASSUME ReceiverInv, Tasks, NEW i \in Slots, Keeps(i),
         UNCHANGED <<xfer, data>>, kept' = kept \cup {rRecv[i].tid}, orphaned => orphaned'
  PROVE  Tasks' /\ WaitingSame
BY FreedTasks DEF Keeps

LEMMA SameTasks ==
  ASSUME ReceiverInv, Tasks, Same, UNCHANGED <<xfer, data, kept>>, orphaned => orphaned'
  PROVE  Tasks' /\ WaitingSame
<1>1. UNCHANGED <<rRecv, rKnown, rContent, xfer, data, kept>> /\ Transfers' = Transfers
  BY DEF Same, Transfers
<1>2. KnownTransfers' /\ DetailsMatch'
  BY <1>1 DEF Tasks, KnownTransfers, DetailsMatch
<1>3. DataOnDisk'
  BY <1>1 DEF Tasks, DataOnDisk
<1> QED BY <1>1, <1>2, <1>3 DEF Tasks, WaitingSame, R!Uninited

LEMMA SameTransfers ==
  ASSUME Tasks, UNCHANGED <<xfer, rKnown, kept>>,
         \A j \in Slots : (rRecv'[j].busy <=> rRecv[j].busy) /\ rRecv'[j].tid = rRecv[j].tid
  PROVE  KnownTransfers'
<1>1. Transfers' = Transfers
  BY DEF Transfers
<1> QED BY <1>1 DEF Tasks, KnownTransfers, Slots

LEMMA OpensTask ==
  ASSUME ReceiverInv, Tasks, NEW i \in Slots, Opens(i),
         UNCHANGED <<xfer, data, kept>>, orphaned => orphaned'
  PROVE  Tasks' /\ WaitingSame
<1>1. PICK name \in Name : /\ rRecv' = [rRecv EXCEPT ![i].open = TRUE, ![i].name = name]
                           /\ rContent' = [rContent EXCEPT ![name] = {}]
  BY DEF Opens
<1>2. rRecv[i].busy /\ rRecv[i].inited /\ rKnown' = rKnown /\ \A j \in Slots : ~rRecv[j].open
  BY TaskFacts, SlotsAre DEF Opens, R!RecvActive
<1>3. /\ rRecv'[i].open /\ rRecv'[i].busy /\ rRecv'[i].inited /\ rRecv'[i].tid = rRecv[i].tid
      /\ rRecv'[i].file = rRecv[i].file /\ rRecv'[i].size = rRecv[i].size /\ rRecv'[i].name = name
      /\ \A j \in Slots : j # i => rRecv'[j] = rRecv[j]
  BY <1>1, <1>2, TaskFacts DEF RP!Task
<1>4. rContent'[name] = {}
  BY <1>1, TaskFacts
<1>6. KnownTransfers'
  <2>1. \A j \in Slots : (rRecv'[j].busy <=> rRecv[j].busy) /\ rRecv'[j].tid = rRecv[j].tid
    BY <1>2, <1>3
  <2> QED BY <1>2, <2>1, SameTransfers
<1>7. DetailsMatch'
  BY <1>2, <1>3 DEF Tasks, DetailsMatch, Slots
<1>8. DataOnDisk'
  <2>1. data[rRecv[i].tid] = {}
    BY <1>2 DEF Tasks, DataOnDisk, Slots
  <2>2. \A j \in Slots : rRecv'[j].open => j = i
    BY <1>2, <1>3
  <2>3. \A j \in Slots : rRecv'[j].busy /\ ~rRecv'[j].open => data'[rRecv'[j].tid] = {}
    BY <1>2, <1>3 DEF Tasks, DataOnDisk, Slots
  <2>4. \A j \in Slots : rRecv'[j].open =>
          data'[rRecv'[j].tid] = {xfer'[rRecv'[j].tid].file} \X rContent'[rRecv'[j].name]
    BY <1>3, <1>4, <2>1, <2>2
  <2> QED BY <1>2, <2>3, <2>4 DEF Tasks, DataOnDisk, Slots
<1>9. WaitingSame /\ \A j, k \in R!Uninited' : j = k
  BY <1>2, <1>3, SlotsAre DEF WaitingSame, R!Uninited, Tasks
<1> QED BY <1>6, <1>7, <1>8, <1>9 DEF Tasks

LEMMA ProductUnion ==
  ASSUME NEW x, NEW A, NEW B PROVE ({x} \X A) \cup ({x} \X B) = {x} \X (A \cup B)
OBVIOUS

LEMMA StoresPiece ==
  ASSUME ReceiverInv, Tasks, NEW m, NEW i \in Slots, Stores(i, m), xfer' = xfer, kept' = kept,
         orphaned => orphaned', ~orphaned => m.file = xfer[m.tid].file, m.tid \in Tid,
         data' = [data EXCEPT ![m.tid] = @ \cup ({m.file} \X R!Bytes(m.offset, m.len))]
  PROVE  Tasks' /\ WaitingSame
<1> DEFINE bytes == R!Bytes(m.offset, m.len)
<1>1. /\ rRecv' = [rRecv EXCEPT ![i].marked = @ \cup {m.offset},
                                ![i].received = @ + m.len, ![i].buffered = bytes]
      /\ rContent' = [rContent EXCEPT ![rRecv[i].name] = @ \cup bytes]
      /\ rKnown' = rKnown /\ rRecv[i].open /\ rRecv[i].busy /\ rRecv[i].tid = m.tid
  BY DEF Stores, R!StoreSpan
<1> HIDE DEF bytes
<1>2. /\ rRecv'[i].open /\ rRecv'[i].busy /\ rRecv'[i].inited = rRecv[i].inited
      /\ rRecv'[i].tid = rRecv[i].tid /\ rRecv'[i].file = rRecv[i].file
      /\ rRecv'[i].size = rRecv[i].size /\ rRecv'[i].name = rRecv[i].name
      /\ \A j \in Slots : j # i => rRecv'[j] = rRecv[j]
  BY <1>1, TaskFacts DEF RP!Task
<1>3. rContent'[rRecv[i].name] = rContent[rRecv[i].name] \cup bytes
  BY <1>1, TaskFacts
<1>4. \A j \in Slots : rRecv[j].open => j = i
  BY <1>1, TaskFacts
<1>5. \A j \in Slots : /\ (rRecv'[j].busy <=> rRecv[j].busy) /\ rRecv'[j].tid = rRecv[j].tid
                       /\ rRecv'[j].open <=> rRecv[j].open
                       /\ rRecv'[j].inited <=> rRecv[j].inited
                       /\ rRecv'[j].file = rRecv[j].file
                       /\ rRecv'[j].size = rRecv[j].size
  BY <1>1, <1>2
<1>6. KnownTransfers'
  BY <1>1, <1>5, SameTransfers
<1>7. DetailsMatch'
  BY <1>5 DEF Tasks, DetailsMatch, Slots
<1>8. DataOnDisk'
  <2>1. DOMAIN data = Tid /\ m.tid \in rKnown
    BY <1>1 DEF Tasks, DataOnDisk, KnownTransfers, Slots
  <2>2. /\ DOMAIN data' = Tid /\ \A t \in Tid : t # m.tid => data'[t] = data[t]
        /\ data'[m.tid] = data[m.tid] \cup ({m.file} \X bytes)
    BY <2>1 DEF bytes
  <2>3. \A t \in Tid \ rKnown' : data'[t] = {}
    BY <1>1, <2>1, <2>2 DEF Tasks, DataOnDisk
  <2>4. ASSUME NEW j \in Slots, rRecv'[j].busy, ~rRecv'[j].open PROVE data'[rRecv'[j].tid] = {}
    <3>1. rRecv[j].busy /\ ~rRecv[j].open /\ rRecv[j].tid # m.tid /\ rRecv[j].tid \in rKnown
      BY <1>1, <1>5, <2>4 DEF Tasks, KnownTransfers, Slots
    <3>2. data[rRecv[j].tid] = {} /\ rRecv[j].tid \in Tid
      BY <3>1 DEF Tasks, DataOnDisk, KnownTransfers, Transfers, Slots
    <3> QED BY <1>5, <2>2, <3>1, <3>2
  <2>5. ASSUME ~orphaned', NEW j \in Slots, rRecv'[j].open
        PROVE  data'[rRecv'[j].tid] = {xfer'[rRecv'[j].tid].file} \X rContent'[rRecv'[j].name]
    <3>1. j = i /\ ~orphaned
      BY <1>4, <1>5, <2>5
    <3>2. data[m.tid] = {xfer[m.tid].file} \X rContent[rRecv[i].name]
      BY <1>1, <3>1 DEF Tasks, DataOnDisk, Slots
    <3>3. data'[m.tid] = {xfer[m.tid].file} \X (rContent[rRecv[i].name] \cup bytes)
      BY <2>2, <3>1, <3>2, ProductUnion
    <3> QED BY <1>1, <1>2, <1>3, <3>1, <3>3
  <2> QED BY <2>2, <2>3, <2>4, <2>5 DEF DataOnDisk, Slots
<1>9. WaitingSame /\ \A j, k \in R!Uninited' : j = k
  BY <1>5, SlotsAre DEF WaitingSame, R!Uninited, Tasks
<1> QED BY <1>6, <1>7, <1>8, <1>9 DEF Tasks

LEMMA MeetsTransfer ==
  ASSUME ReceiverInv, Tasks, NEW t \in Transfers \ rKnown, Meets(t), R!Uninited = {},
         UNCHANGED <<xfer, data, kept>>, orphaned => orphaned'
  PROVE  Tasks' /\ \A j \in R!Uninited' : rRecv'[j].tid = t
<1>1. rKnown' = rKnown \cup {t} /\ rContent' = rContent /\ Transfers' = Transfers /\ t \in Tid
  BY DEF Meets, Transfers
<1>2. CASE rRecv' = rRecv
  <2>1. KnownTransfers' /\ DetailsMatch' /\ DataOnDisk'
    BY <1>1, <1>2 DEF Tasks, KnownTransfers, DetailsMatch, DataOnDisk
  <2>2. R!Uninited' = {}
    BY <1>2 DEF R!Uninited
  <2> QED BY <2>1, <2>2 DEF Tasks
<1>3. ASSUME NEW i \in Slots, NEW seq \in Nat, ~rRecv[i].busy,
             rRecv' = [rRecv EXCEPT ![i] = [R!FreeTask EXCEPT !.busy = TRUE, !.tid = t, !.seq = seq]]
      PROVE  Tasks' /\ \A j \in R!Uninited' : rRecv'[j].tid = t
  <2>1. /\ rRecv'[i].busy /\ ~rRecv'[i].open /\ ~rRecv'[i].inited /\ rRecv'[i].tid = t
        /\ \A j \in Slots : j # i => rRecv'[j] = rRecv[j]
    BY <1>3, TaskFacts DEF R!FreeTask
  <2>2. data[t] = {}
    BY <1>1 DEF Tasks, DataOnDisk
  <2>3. \A j \in Slots : rRecv[j].busy => rRecv[j].tid # t
    BY DEF Tasks, KnownTransfers, Slots
  <2>4. KnownTransfers'
    BY <1>1, <2>1, <2>3 DEF Tasks, KnownTransfers, Slots
  <2>5. DetailsMatch'
    BY <2>1 DEF Tasks, DetailsMatch, Slots
  <2>6. DataOnDisk'
    BY <1>1, <2>1, <2>2 DEF Tasks, DataOnDisk, Slots
  <2>7. R!Uninited' \subseteq {i}
    BY <2>1, SlotsAre DEF R!Uninited
  <2> QED BY <2>1, <2>4, <2>5, <2>6, <2>7 DEF Tasks
<1> QED BY <1>2, <1>3 DEF Meets

LEMMA LearnsDetails ==
  ASSUME ReceiverInv, Tasks, NEW m, NEW i \in Slots, Learns(i, m),
         m.file = xfer[rRecv[i].tid].file, m.size = FileSize[m.file],
         UNCHANGED <<xfer, data, kept>>, orphaned => orphaned'
  PROVE  Tasks' /\ R!Uninited' = {}
<1>1. /\ rKnown' = rKnown /\ rContent' = rContent
      /\ rRecv' = [rRecv EXCEPT ![i].inited = TRUE, ![i].file = m.file, ![i].size = m.size]
      /\ i \in R!Uninited /\ rRecv[i].busy /\ ~rRecv[i].inited
  BY DEF Learns, R!Uninited
<1>2. /\ rRecv'[i].busy /\ (rRecv'[i].open <=> rRecv[i].open) /\ rRecv'[i].inited
      /\ rRecv'[i].tid = rRecv[i].tid /\ rRecv'[i].file = m.file
      /\ rRecv'[i].size = m.size /\ rRecv'[i].name = rRecv[i].name
      /\ \A j \in Slots : j # i => rRecv'[j] = rRecv[j]
  BY <1>1, TaskFacts DEF RP!Task
<1>3. \A j \in Slots : /\ (rRecv'[j].busy <=> rRecv[j].busy) /\ rRecv'[j].tid = rRecv[j].tid
                       /\ (rRecv'[j].open <=> rRecv[j].open) /\ rRecv'[j].name = rRecv[j].name
                       /\ j # i => rRecv'[j] = rRecv[j]
  BY <1>1, <1>2
<1>t. KnownTransfers'
  BY <1>1, <1>3, SameTransfers
<1>4. DetailsMatch'
  <2>1. rRecv'[i].file = xfer'[rRecv'[i].tid].file /\ rRecv'[i].size = FileSize[rRecv'[i].file]
    BY <1>2
  <2> QED BY <1>3, <2>1 DEF Tasks, DetailsMatch, Slots
<1>5. DataOnDisk'
  <2>1. UNCHANGED <<rKnown, rContent>>
    BY <1>1
  <2> QED BY <1>3, <2>1 DEF Tasks, DataOnDisk, Slots
<1>6. R!Uninited' = {}
  <2>1. \A j \in R!Uninited' : j \in Slots /\ j # i /\ j \in R!Uninited
    BY <1>2, SlotsAre DEF R!Uninited
  <2> QED BY <1>1, <2>1 DEF Tasks
<1> QED BY <1>t, <1>4, <1>5, <1>6 DEF Tasks

-----------------------------------------------------------------------------
(* What a message adds to the histories. *)

LEMMA NothingStored ==
  ASSUME ReceiverInv, NEW m, RecordFiles(m), rSaved' = rSaved,
         \A i \in Slots : m.type = "CHUNK" => ~(rRecv'[i].received > rRecv[i].received)
  PROVE  UNCHANGED <<data, kept>>
<1>1. ~Stored(m)
  BY DEF Stored, Slots
<1>2. data' = data
  BY <1>1 DEF RecordFiles
<1>3. kept' = kept
  BY DEF RecordFiles
<1> QED BY <1>2, <1>3

LEMMA StoreRecorded ==
  ASSUME ReceiverInv, NEW m, RecordFiles(m), NEW i \in Slots, Stores(i, m), m.len \in Nat
  PROVE  /\ data' = [data EXCEPT ![m.tid] = @ \cup ({m.file} \X R!Bytes(m.offset, m.len))]
         /\ kept' = kept
<1>1. /\ m.type = "CHUNK" /\ m.len # 0 /\ rSaved' = rSaved /\ rRecv[i].tid = m.tid
      /\ rRecv' = [rRecv EXCEPT ![i].marked = @ \cup {m.offset},
                                ![i].received = @ + m.len, ![i].buffered = R!Bytes(m.offset, m.len)]
  BY DEF Stores, R!StoreSpan, R!SpanLegal
<1>2. rRecv'[i].tid = m.tid /\ rRecv'[i].received = rRecv[i].received + m.len /\ rRecv[i].received \in Nat
  BY <1>1, TaskFacts DEF RP!Task
<1>3. rRecv'[i].received > rRecv[i].received
  <2> DEFINE a == rRecv[i].received
             b == rRecv'[i].received
             l == m.len
  <2>1. a \in Nat /\ l \in Nat /\ l # 0 /\ b = a + l
    BY <1>1, <1>2
  <2> HIDE DEF a, b, l
  <2>2. b > a
    BY <2>1
  <2> QED BY <2>2 DEF a, b
<1>4. Stored(m)
  BY <1>1, <1>2, <1>3 DEF Stored, Slots
<1> QED BY <1>1, <1>4 DEF RecordFiles

LEMMA NewlySaved ==
  ASSUME ReceiverInv, rPhase # "killed", NEW i \in Slots, Keeps(i) PROVE rSaved' # rSaved
<1>1. rRecv[i].name \notin RP!KeptNames
  BY SlotsAre DEF ReceiverInv, RP!DiskInv, RP!OwnName, Keeps
<1>2. [name |-> rRecv[i].name, size |-> rRecv[i].size] \notin rSaved
  BY <1>1 DEF RP!KeptNames
<1> QED BY <1>2 DEF Keeps

LEMMA KeepRecorded ==
  ASSUME ReceiverInv, rPhase # "killed", NEW m, m.type # "CHUNK", RecordFiles(m), NEW i \in Slots, Keeps(i)
  PROVE  data' = data /\ kept' = kept \cup {rRecv[i].tid}
<1>1. data' = data
  BY DEF RecordFiles, Stored
<1>2. {j \in 1..RecvSlots : rRecv[j].open /\ rSaved' # rSaved} = {i}
  BY NewlySaved, TaskFacts DEF Slots, Keeps
<1>3. kept' = kept \cup {rRecv[j].tid : j \in {i}}
  BY <1>2 DEF RecordFiles
<1> QED BY <1>1, <1>3

-----------------------------------------------------------------------------
(* The receiver handles a message: the receipt stays what it was. *)

LEMMA NoneWaits ==
  ASSUME Receipt, MessagesTyped, rPhase # "closed", down[Receiver] # <<>>,
         Head(down[Receiver]).type # "INIT"
  PROVE  R!Uninited = {}
<1> SUFFICES ASSUME NEW i \in R!Uninited PROVE FALSE
  OBVIOUS
<1>1. down[Receiver][1] = InitTo(xfer[rRecv[i].tid].file)
  BY DEF Receipt, DetailsNext
<1>2. Head(down[Receiver]) = down[Receiver][1]
  BY ReceiverQueue, Tailed
<1> QED BY <1>1, <1>2 DEF InitTo

HandlingReceipt(m) ==
  /\ ReceiverInv /\ Receipt /\ FileOfTid /\ MessagesTyped /\ rPhase \notin {"closed", "killed"}
  /\ down[Receiver] # <<>> /\ m = Head(down[Receiver]) /\ m \in ToReceiver
  /\ Taken(m) /\ RecordFiles(m) /\ UNCHANGED <<xfer, orphaned>>

LEMMA ReceiptTasks ==
  ASSUME NEW m, HandlingReceipt(m)
  PROVE  /\ Tasks'
         /\ IF IsOffer(m) THEN /\ rKnown' = rKnown \cup {m.text.digits[1]}
                               /\ \A j \in R!Uninited' : rRecv'[j].tid = m.text.digits[1]
            ELSE rKnown' = rKnown /\ R!Uninited' = {}
<1> USE DEF HandlingReceipt
<1>0. Tasks
  BY DEF Receipt, Tasks, DetailsNext
<1>1. m.type # "INIT" => R!Uninited = {}
  BY NoneWaits
<1>2. m = down[Receiver][1] /\ Len(down[Receiver]) \in Nat \ {0}
  BY ReceiverQueue, Tailed
<1>3. ASSUME IsOffer(m), m.type = "SERVER_MSG", Meets(m.text.digits[1])
      PROVE  /\ Tasks' /\ rKnown' = rKnown \cup {m.text.digits[1]}
             /\ \A j \in R!Uninited' : rRecv'[j].tid = m.text.digits[1]
  <2>1. m.text.digits[1] \in Transfers \ rKnown
    <3>1. 1 \in Offers
      BY <1>2, <1>3 DEF Offers
    <3>2. OfferAt(1) \in Transfers \ rKnown
      BY <3>1 DEF Receipt, OfferedOnce
    <3> QED BY <1>2, <3>2 DEF OfferAt
  <2>2. rSaved' = rSaved /\ rKnown' = rKnown \cup {m.text.digits[1]}
    BY <1>3 DEF Meets
  <2>3. UNCHANGED <<data, kept>>
    BY <1>3, <2>2, NothingStored
  <2> QED BY <1>0, <1>1, <1>3, <2>1, <2>2, <2>3, MeetsTransfer
<1>4. ASSUME NEW i \in Slots, Learns(i, m) PROVE Tasks' /\ rKnown' = rKnown /\ R!Uninited' = {} /\ ~IsOffer(m)
  <2>1. m.type = "INIT" /\ rSaved' = rSaved /\ rKnown' = rKnown /\ i \in R!Uninited
    BY <1>4 DEF Learns
  <2>2. m = InitTo(xfer[rRecv[i].tid].file)
    BY <1>2, <2>1 DEF Receipt, DetailsNext
  <2>3. m.file = xfer[rRecv[i].tid].file /\ m.size = FileSize[m.file]
    BY <2>2 DEF InitTo
  <2>4. UNCHANGED <<data, kept>>
    BY <2>1, NothingStored
  <2>5. ~IsOffer(m)
    BY <2>1, OfferKinds
  <2> QED BY <1>0, <1>4, <2>1, <2>3, <2>4, <2>5, LearnsDetails
<1>5. ASSUME WaitingSame, R!Uninited = {} PROVE R!Uninited' = {}
  BY <1>5 DEF WaitingSame
<1>6. ASSUME m.type = "INIT" => R!Uninited = {}, Same PROVE Tasks' /\ rKnown' = rKnown /\ R!Uninited' = {}
  <2>1. rSaved' = rSaved /\ rRecv' = rRecv /\ rKnown' = rKnown
    BY <1>6 DEF Same
  <2>2. UNCHANGED <<data, kept>>
    <3>1. \A i \in Slots : rRecv[i].received \in Nat
      BY TaskFacts DEF RP!Task
    <3> QED BY <2>1, <3>1, NothingStored
  <2> QED BY <1>0, <1>1, <1>5, <1>6, <2>1, <2>2, SameTasks
<1>7. ASSUME m.type # "INIT", NEW i \in Slots, Drops(i) PROVE Tasks' /\ rKnown' = rKnown /\ R!Uninited' = {}
  <2>1. /\ rSaved' = rSaved /\ rKnown' = rKnown /\ rRecv' = [rRecv EXCEPT ![i] = R!FreeTask]
    BY <1>7 DEF Drops, R!RecvClear
  <2>2. \A j \in Slots : ~(rRecv'[j].received > rRecv[j].received)
    <3>1. \A j \in Slots : rRecv[j].received \in Nat
      BY TaskFacts DEF RP!Task
    <3>2. rRecv'[i].received = 0 /\ \A j \in Slots : j # i => rRecv'[j] = rRecv[j]
      BY <2>1, TaskFacts DEF R!FreeTask
    <3> QED BY <3>1, <3>2
  <2>3. UNCHANGED <<data, kept>>
    BY <2>1, <2>2, NothingStored
  <2> QED BY <1>0, <1>1, <1>5, <1>7, <2>1, <2>3, DropsTask
<1>8. ASSUME m.type # "INIT", NEW i \in Slots, Stores(i, m) PROVE Tasks' /\ rKnown' = rKnown /\ R!Uninited' = {}
  <2>1. m.type = "CHUNK" /\ rKnown' = rKnown
    BY <1>8 DEF Stores
  <2>2. m.len \in Nat /\ m.tid \in Tid
    BY <2>1, ToReceiverKinds, ChunkParts
  <2>3. ~orphaned => m.file = xfer[m.tid].file
    BY <1>2, <2>1 DEF FileOfTid
  <2>4. /\ data' = [data EXCEPT ![m.tid] = @ \cup ({m.file} \X R!Bytes(m.offset, m.len))]
        /\ kept' = kept
    BY <1>8, <2>2, StoreRecorded
  <2> QED BY <1>0, <1>1, <1>5, <1>8, <2>1, <2>2, <2>3, <2>4, StoresPiece
<1>9. ASSUME m.type \notin {"INIT", "CHUNK"}, NEW i \in Slots, Keeps(i) PROVE Tasks' /\ rKnown' = rKnown /\ R!Uninited' = {}
  <2>1. data' = data /\ kept' = kept \cup {rRecv[i].tid} /\ rKnown' = rKnown
    BY <1>9, KeepRecorded DEF Keeps
  <2> QED BY <1>0, <1>1, <1>5, <1>9, <2>1, KeepsTask
<1> QED BY <1>3, <1>4, <1>6, <1>7, <1>8, <1>9 DEF Taken

LEMMA HandlingKeepsReceipt ==
  ASSUME NEW m, HandlingReceipt(m), down'[Receiver] = Tail(down[Receiver]) PROVE Receipt'
<1> USE DEF HandlingReceipt
<1>1. /\ Tasks'
      /\ IF IsOffer(m) THEN /\ rKnown' = rKnown \cup {m.text.digits[1]}
                            /\ \A j \in R!Uninited' : rRecv'[j].tid = m.text.digits[1]
         ELSE rKnown' = rKnown /\ R!Uninited' = {}
  BY ReceiptTasks
<1>2. /\ Paired' /\ OfferedOnce'
      /\ IsOffer(m) => /\ Len(down'[Receiver]) > 0
                       /\ down'[Receiver][1] = InitTo(xfer[m.text.digits[1]].file)
  <2>1. IF IsOffer(Head(down[Receiver]))
        THEN rKnown' = rKnown \cup {Head(down[Receiver]).text.digits[1]} ELSE rKnown' = rKnown
    BY <1>1
  <2> QED BY <2>1, QueueTails DEF Receipt
<1>3. DetailsNext'
  <2>1. ASSUME NEW i \in R!Uninited'
        PROVE  Len(down'[Receiver]) > 0 /\ down'[Receiver][1] = InitTo(xfer'[rRecv'[i].tid].file)
    BY <1>1, <1>2, <2>1
  <2>2. \A i, j \in R!Uninited' : i = j
    BY <1>1 DEF Tasks
  <2> QED BY <2>1, <2>2 DEF DetailsNext, InitTo
<1> QED BY <1>1, <1>2, <1>3 DEF Receipt, Tasks

LEMMA QueueSame ==
  ASSUME Paired, OfferedOnce, UNCHANGED <<xfer, rKnown>>, down'[Receiver] = down[Receiver]
  PROVE  Paired' /\ OfferedOnce'
<1>1. Offers' = Offers
  BY DEF Offers, IsOffer
<1>2. (\A k : OfferAt(k)' = OfferAt(k)) /\ Transfers' = Transfers
  BY DEF OfferAt, Transfers
<1>3. Paired'
  <2>1. \A k \in Offers' : /\ k < Len(down'[Receiver])
                           /\ down'[Receiver][k + 1] = InitTo(xfer'[OfferAt(k)'].file)
    BY <1>1, <1>2 DEF Paired
  <2>2. \A k \in 1..Len(down'[Receiver]) : down'[Receiver][k].type = "INIT" => k = 1 \/ k - 1 \in Offers'
    BY <1>1 DEF Paired
  <2> QED BY <2>1, <2>2 DEF Paired, InitTo
<1>4. OfferedOnce'
  BY <1>1, <1>2 DEF OfferedOnce
<1> QED BY <1>3, <1>4

(* The user's commands, and the end of a session. *)
LEMMA CommandKeepsReceipt ==
  ASSUME ReceiverInv, Receipt, Tasks', WaitingSame, rPhase # "closed",
         UNCHANGED <<down, xfer, rKnown>>
  PROVE  Receipt'
<1>1. Paired' /\ OfferedOnce'
  BY QueueSame DEF Receipt
<1>2. DetailsNext'
  BY DEF Receipt, DetailsNext, WaitingSame, Tasks, InitTo
<1> QED BY <1>1, <1>2 DEF Receipt, Tasks

(* All tasks are freed: the start of a session, and the end of the process. *)
LEMMA FreedKeepsReceipt ==
  ASSUME Receipt, rRecv' = [i \in Slots |-> R!FreeTask],
         UNCHANGED <<down, xfer, rKnown, kept, data>>
  PROVE  Receipt'
<1>1. \A i \in Slots : ~rRecv'[i].busy /\ ~rRecv'[i].open
  BY DEF R!FreeTask
<1>2. Paired' /\ OfferedOnce'
  BY QueueSame DEF Receipt
<1>3. DetailsNext'
  BY <1>1, SlotsAre DEF DetailsNext, R!Uninited
<1>4. KnownTransfers' /\ DetailsMatch'
  BY <1>1 DEF Receipt, KnownTransfers, DetailsMatch, Slots, Transfers
<1>5. DataOnDisk'
  BY <1>1 DEF Receipt, DataOnDisk, Slots
<1> QED BY <1>2, <1>3, <1>4, <1>5 DEF Receipt

(* Whatever the receiver sends is about a transfer it knows. *)
LEMMA ReceiverSendsKnown ==
  ASSUME Receipt, NEW i \in Slots, rRecv[i].busy,
         rOut' \subseteq [type : {"ACCEPT", "REJECT", "CANCEL"}, tid : {rRecv[i].tid}]
  PROVE  rOut' \subseteq FromReceiver
<1>1. rRecv[i].tid \in Tid
  BY DEF Receipt, KnownTransfers, Transfers, Slots
<1> QED BY <1>1 DEF FromReceiver

LEMMA CommandSendsTyped ==
  ASSUME Receipt, NEW i \in Slots, Drops(i) \/ Opens(i) PROVE rOut' \subseteq FromReceiver
<1>1. rRecv[i].busy
  BY DEF Drops, Opens
<1>2. rOut' \subseteq [type : {"ACCEPT", "REJECT", "CANCEL"}, tid : {rRecv[i].tid}]
  <2>1. CASE Drops(i)
    <3>1. rOut' \subseteq [type : {"REJECT", "CANCEL"}, tid : {rRecv[i].tid}]
      BY <2>1 DEF Drops
    <3> QED BY <3>1
  <2>2. CASE Opens(i)
    <3>1. rOut' \subseteq [type : {"ACCEPT"}, tid : {rRecv[i].tid}]
      BY <2>2 DEF Opens
    <3> QED BY <3>1
  <2> QED BY <2>1, <2>2
<1> QED BY <1>1, <1>2, ReceiverSendsKnown

LEMMA HandlingSendsTyped ==
  ASSUME NEW m, HandlingReceipt(m) PROVE rOut' \subseteq FromReceiver
<1> USE DEF HandlingReceipt
<1>1. ASSUME IsOffer(m), m.type = "SERVER_MSG", Meets(m.text.digits[1]) PROVE rOut' \subseteq FromReceiver
  <2>1. m.text.digits[1] \in Tid
    <3>1. m.text \in ReceiverTexts
      BY <1>1, ToReceiverKinds
    <3> QED BY <3>1, ReceiverText
  <2>2. rOut' \subseteq [type : {"REJECT"}, tid : {m.text.digits[1]}]
    BY <1>1 DEF Meets
  <2> QED BY <2>1, <2>2 DEF FromReceiver
<1>2. ASSUME NEW i \in Slots, Drops(i) PROVE rOut' \subseteq FromReceiver
  BY <1>2, CommandSendsTyped
<1>3. (\E i \in Slots : Learns(i, m) \/ Stores(i, m) \/ Keeps(i)) \/ Same => rOut' = {}
  BY DEF Learns, Stores, Keeps, Same
<1> QED BY <1>1, <1>2, <1>3 DEF Taken

-----------------------------------------------------------------------------
(* The sender's steps, and what is under way for its task. *)

LEMMA SenderQueue ==
  ASSUME MessagesTyped
  PROVE  /\ down[Sender] \in Seq(ToSender) /\ Len(down[Sender]) \in Nat
         /\ up[Sender] \in Seq(SUBSET FromSender) /\ Len(up[Sender]) \in Nat
         /\ Answers \subseteq 1..Len(down[Sender]) /\ Requests \subseteq 1..Len(up[Sender])
BY LenProperties DEF MessagesTyped, Answers, Requests

LEMMA Uploading ==
  ASSUME MessagesTyped, NEW c \in {Sender, Receiver}, NEW F, up[c] \in Seq(SUBSET F),
         NEW frames \in SUBSET F, Uploads(c, frames)
  PROVE  /\ DOMAIN up' = {Sender, Receiver} /\ up'[c] \in Seq(SUBSET F)
         /\ \A d \in {Sender, Receiver} : d # c => up'[d] = up[d]
         /\ \A i \in 1..Len(up'[c]) : \/ i \in 1..Len(up[c]) /\ up'[c][i] = up[c][i]
                                      \/ i = Len(up[c]) + 1 /\ up'[c][i] = frames
         /\ frames = {} => up' = up
<1>1. DOMAIN up = {Sender, Receiver}
  BY DEF MessagesTyped
<1>2. CASE frames = {}
  BY <1>1, <1>2 DEF Uploads
<1>3. CASE frames # {}
  <2>1. up'[c] = Append(up[c], frames) /\ DOMAIN up' = {Sender, Receiver}
        /\ \A d \in {Sender, Receiver} : d # c => up'[d] = up[d]
    BY <1>1, <1>3 DEF Uploads
  <2>2. /\ up'[c] \in Seq(SUBSET F) /\ Len(up'[c]) = Len(up[c]) + 1 /\ Len(up[c]) \in Nat
        /\ \A k \in 1..Len(up[c]) : up'[c][k] = up[c][k]
        /\ up'[c][Len(up[c]) + 1] = frames
    BY <2>1, OneMore
  <2> DEFINE n == Len(up[c])
             w == up'[c]
  <2>3. Len(w) = n + 1 /\ n \in Nat
    BY <2>2
  <2> HIDE DEF n, w
  <2>4. \A i \in 1..Len(w) : i \in 1..n \/ i = n + 1
    BY <2>3
  <2>5. \A i \in 1..Len(up'[c]) : \/ i \in 1..Len(up[c]) /\ up'[c][i] = up[c][i]
                                  \/ i = Len(up[c]) + 1 /\ up'[c][i] = frames
    BY <2>2, <2>4 DEF n, w
  <2> QED BY <1>3, <2>1, <2>2, <2>5
<1> QED BY <1>2, <1>3

LEMMA OwnTyped ==
  ASSUME SenderInv, SendTid, sSend.state # "NONE"
  PROVE  OwnChunks \cup [type : {"CANCEL"}, tid : {sSend.tid}] \subseteq FromSender
<1>1. sSend.file \in SendFiles
  BY DEF SenderInv, SP!SendPart, SP!SendShape
<1>2. sSend.tid \in Tid \cup {0}
  BY DEF SenderInv, SP!TypeInv, SP!TypeOK, SP!SendTask
<1>3. OwnChunks \subseteq UNION {ChunkIn(file) : file \in SendFiles}
  BY <1>1 DEF OwnChunks
<1>4. [type : {"CANCEL"}, tid : {sSend.tid}] \subseteq [type : {"CANCEL"}, tid : Tid \cup {0}]
  BY <1>2
<1> QED BY <1>3, <1>4 DEF FromSender

LEMMA UploadsFit ==
  ASSUME MessagesTyped, FileOfTid, SendTid, xfer' = xfer, down'[Receiver] = down[Receiver],
         orphaned => orphaned', Uploads(Sender, sOut'), sOut' \subseteq FromSender,
         \A f \in sOut' : f.type = "CHUNK" => f \in OwnChunks,
         ~orphaned' => \/ sSend'.state \in {"NONE", "PENDING_TID"}
                       \/ sSend'.tid \in Transfers /\ xfer[sSend'.tid].file = sSend'.file
  PROVE  FileOfTid'
<1> SUFFICES ASSUME ~orphaned' PROVE FileOfTid'
  BY DEF FileOfTid
<1>0. ~orphaned /\ Transfers' = Transfers
  BY DEF Transfers
<1>1. ASSUME NEW f \in OwnChunks PROVE f.tid \in Transfers /\ xfer[f.tid].file = f.file
  <2>1. f.tid = sSend.tid /\ f.tid \in Tid /\ f.file = sSend.file
    BY DEF OwnChunks, ChunkIn
  <2>2. sSend.state \notin {"NONE", "PENDING_TID"}
    BY <2>1, TheTids DEF SendTid, TidRange
  <2> QED BY <1>0, <2>1, <2>2 DEF FileOfTid
<1>2. \A i \in 1..Len(up'[Sender]) : up'[Sender][i] = sOut' \/
                                     (i \in 1..Len(up[Sender]) /\ up'[Sender][i] = up[Sender][i])
  BY SenderQueue, Uploading
<1>3. \A i \in 1..Len(up'[Sender]) : \A f \in up'[Sender][i] : f.type = "CHUNK" =>
         f.tid \in Transfers /\ xfer[f.tid].file = f.file
  BY <1>0, <1>1, <1>2 DEF FileOfTid
<1>4. \A k \in 1..Len(down'[Receiver]) : down'[Receiver][k].type = "CHUNK" =>
         down'[Receiver][k].tid \in Transfers /\ xfer[down'[Receiver][k].tid].file = down'[Receiver][k].file
  BY <1>0 DEF FileOfTid
<1> QED BY <1>0, <1>3, <1>4 DEF FileOfTid

LEMMA NoRequest ==
  ASSUME MessagesTyped, Uploads(Sender, sOut'), sOut' \subseteq FromSender, Requests = {},
         \A f \in sOut' : f.type # "INIT"
  PROVE  Requests' = {}
<1>1. \A i \in 1..Len(up'[Sender]) : up'[Sender][i] = sOut' \/
                                     (i \in 1..Len(up[Sender]) /\ up'[Sender][i] = up[Sender][i])
  BY SenderQueue, Uploading
<1> QED BY <1>1 DEF Requests

LEMMA SameAnswers == ASSUME down'[Sender] = down[Sender] PROVE Answers' = Answers
BY DEF Answers, IsAnswer

OwnStep ==
  /\ MessagesTyped /\ SenderInv /\ Sending /\ Uploads(Sender, sOut')
  /\ UNCHANGED <<down, xfer>> /\ (orphaned => orphaned')

LEMMA AsksSending ==
  ASSUME OwnStep, NEW file \in SendFiles, Asks(file) PROVE Sending' /\ sOut' \subseteq FromSender
<1> USE DEF OwnStep
<1>1. /\ sOut' = {S!InitFrame(file)} /\ sSend.state = "NONE" /\ sPhase = "session" /\ sPhase' = sPhase
      /\ sSend' = [state |-> "PENDING_TID", tid |-> 0, file |-> file, size |-> FileSize[file],
                   sent |-> 0, open |-> TRUE]
  BY DEF Asks, SenderFrame
<1>2. sOut' \subseteq FromSender /\ S!InitFrame(file).type = "INIT" /\ S!InitFrame(file).file = file
  BY <1>1 DEF FromSender, S!InitFrame
<1>3. SendTid'
  BY <1>1 DEF SendTid
<1>4. FileOfTid'
  BY <1>1, <1>2, UploadsFit DEF Sending
<1>5. OneAnswer'
  <2> SUFFICES ASSUME ~orphaned' PROVE OneAnswer'
    BY DEF OneAnswer
  <2>1. Requests = {} /\ Answers = {}
    BY <1>1 DEF Sending, OneAnswer
  <2>2. Answers' = {}
    BY <2>1, SameAnswers
  <2>3. \A i \in 1..Len(up'[Sender]) : \/ i \in 1..Len(up[Sender]) /\ up'[Sender][i] = up[Sender][i]
                                       \/ i = Len(up[Sender]) + 1 /\ up'[Sender][i] = sOut'
    BY <1>2, SenderQueue, Uploading
  <2>4. \A i \in Requests' : i = Len(up[Sender]) + 1 /\ up'[Sender][i] = sOut'
    BY <2>1, <2>3 DEF Requests
  <2>5. AnswerFits'
    BY <1>1, <1>2, <2>2, <2>4 DEF AnswerFits
  <2>6. \A i, j \in Requests' : i = j
    BY <2>4
  <2> QED BY <1>1, <2>2, <2>5, <2>6 DEF OneAnswer
<1> QED BY <1>2, <1>3, <1>4, <1>5 DEF Sending

LEMMA QuitsSending ==
  ASSUME OwnStep, Quits, sSend.state = "PENDING_TID" => orphaned' PROVE Sending' /\ sOut' \subseteq FromSender
<1> USE DEF OwnStep
<1>1. /\ sPhase = "session" /\ sSend.state # "NONE" /\ sSend' = S!FreeSend
      /\ sOut' \subseteq OwnChunks \cup [type : {"CANCEL"}, tid : {sSend.tid}]
  BY DEF Quits, SenderFrame
<1>2. sOut' \subseteq FromSender
  BY <1>1, OwnTyped DEF Sending
<1>3. \A f \in OwnChunks : f.type = "CHUNK"
  BY DEF OwnChunks, ChunkIn
<1>4. \A f \in sOut' : f.type # "INIT" /\ (f.type = "CHUNK" => f \in OwnChunks)
  BY <1>1, <1>3
<1>5. sSend'.state = "NONE" /\ sSend'.tid = 0
  BY <1>1 DEF S!FreeSend
<1>6. SendTid'
  BY <1>5 DEF SendTid
<1>7. FileOfTid'
  BY <1>2, <1>4, <1>5, UploadsFit DEF Sending
<1>8. OneAnswer'
  <2> SUFFICES ASSUME ~orphaned' PROVE OneAnswer'
    BY DEF OneAnswer
  <2>1. Requests = {} /\ Answers = {}
    BY <1>1 DEF Sending, OneAnswer
  <2>2. Requests' = {} /\ Answers' = {}
    BY <1>2, <1>4, <2>1, SameAnswers, NoRequest
  <2> QED BY <1>5, <2>2 DEF OneAnswer
<1> QED BY <1>2, <1>6, <1>7, <1>8 DEF Sending

LEMMA WorksSending ==
  ASSUME OwnStep, Works PROVE Sending' /\ sOut' \subseteq FromSender
<1> USE DEF OwnStep
<1>1. /\ sPhase = "session" /\ sSend.state \in {"ACTIVE", "DONE"}
      /\ sSend'.state \in {"ACTIVE", "DONE", "WAIT_COMPLETE"}
      /\ sSend'.tid = sSend.tid /\ sSend'.file = sSend.file /\ sSend'.size = sSend.size
      /\ sOut' \subseteq OwnChunks \cup [type : {"COMPLETE"}, tid : {sSend.tid}]
  BY DEF Works, SenderFrame
<1>2. sSend.tid \in Tid
  BY <1>1 DEF Sending, SendTid
<1>3. sOut' \subseteq FromSender
  <2>1. OwnChunks \subseteq FromSender
    BY <1>1, OwnTyped DEF Sending
  <2>2. [type : {"COMPLETE"}, tid : {sSend.tid}] \subseteq FromSender
    BY <1>2 DEF FromSender
  <2> QED BY <1>1, <2>1, <2>2
<1>4. \A f \in OwnChunks : f.type = "CHUNK"
  BY DEF OwnChunks, ChunkIn
<1>5. \A f \in sOut' : f.type # "INIT" /\ (f.type = "CHUNK" => f \in OwnChunks)
  BY <1>1, <1>4
<1>6. SendTid'
  BY <1>1 DEF Sending, SendTid
<1>7. ~orphaned' => sSend'.tid \in Transfers /\ xfer[sSend'.tid].file = sSend'.file
  BY <1>1 DEF Sending, FileOfTid
<1>8. FileOfTid'
  BY <1>3, <1>5, <1>7, UploadsFit DEF Sending
<1>9. OneAnswer'
  <2> SUFFICES ASSUME ~orphaned' PROVE OneAnswer'
    BY DEF OneAnswer
  <2>1. Requests = {} /\ Answers = {}
    BY <1>1 DEF Sending, OneAnswer
  <2>2. Requests' = {} /\ Answers' = {}
    BY <1>3, <1>5, <2>1, SameAnswers, NoRequest
  <2> QED BY <1>1, <2>2 DEF OneAnswer
<1> QED BY <1>3, <1>6, <1>8, <1>9 DEF Sending

(* The sender handles a message. *)
HandlingStep(m) ==
  /\ MessagesTyped /\ SenderInv /\ Sending /\ sPhase # "closed"
  /\ down[Sender] # <<>> /\ m = Head(down[Sender]) /\ m \in ToSender /\ Handled(m)
  /\ down'[Sender] = Tail(down[Sender]) /\ down'[Receiver] = down[Receiver]
  /\ UNCHANGED <<up, xfer>> /\ (orphaned' <=> orphaned \/ Misses(m))

LEMMA TailAnswers ==
  ASSUME NEW m, HandlingStep(m)
  PROVE  /\ \A k \in Answers' : k + 1 \in Answers /\ down'[Sender][k] = down[Sender][k + 1] /\ k \in Nat \ {0}
         /\ IsAnswer(m) => 1 \in Answers
         /\ m = down[Sender][1] /\ 1 \in 1..Len(down[Sender])
<1> USE DEF HandlingStep
<1>1. /\ Len(down[Sender]) \in Nat \ {0} /\ Len(down'[Sender]) = Len(down[Sender]) - 1
      /\ m = down[Sender][1]
      /\ \A k \in 1..Len(down'[Sender]) : down'[Sender][k] = down[Sender][k+1] /\ k + 1 \in 1..Len(down[Sender])
  BY SenderQueue, Tailed
<1>2. \A k \in Answers' : k \in 1..Len(down'[Sender]) /\ IsAnswer(down'[Sender][k])
  BY DEF Answers, IsAnswer
<1>3. \A k \in Answers' : k + 1 \in Answers /\ down'[Sender][k] = down[Sender][k + 1] /\ k \in Nat \ {0}
  BY <1>1, <1>2 DEF Answers
<1>4. 1 \in 1..Len(down[Sender])
  BY <1>1
<1> QED BY <1>1, <1>3, <1>4 DEF Answers

(* The answer that was to come has come. *)
LEMMA Answered ==
  ASSUME NEW m, HandlingStep(m), ~orphaned, sSend.state = "PENDING_TID", IsAnswer(m)
  PROVE  Requests = {} /\ Answers' = {}
<1> USE DEF HandlingStep
<1>1. 1 \in Answers /\ \A k \in Answers' : k + 1 \in Answers /\ k \in Nat \ {0}
  BY TailAnswers
<1>2. Requests = {} /\ \A k, l \in Answers : k = l
  BY <1>1 DEF Sending, OneAnswer
<1>3. ASSUME NEW k \in Answers' PROVE FALSE
  <2>1. k + 1 = 1 /\ k \in Nat \ {0}
    BY <1>1, <1>2
  <2> QED BY <2>1
<1> QED BY <1>2, <1>3

LEMMA SameRequests == ASSUME up' = up PROVE Requests' = Requests
BY DEF Requests

LEMMA HandlingFile ==
  ASSUME NEW m, HandlingStep(m),
         ~orphaned' => \/ sSend'.state \in {"NONE", "PENDING_TID"}
                       \/ sSend'.tid \in Transfers /\ xfer[sSend'.tid].file = sSend'.file
  PROVE  FileOfTid'
BY DEF HandlingStep, Sending, FileOfTid, Transfers

LEMMA HandledSending == ASSUME NEW m, HandlingStep(m) PROVE Sending'
<1> USE DEF HandlingStep
<1>0. /\ Requests' = Requests /\ UNCHANGED sPhase /\ (~orphaned' => ~orphaned)
      /\ sSend \in SP!SendTask
  BY SameRequests DEF Handled, SenderInv, SP!TypeInv, SP!TypeOK
<1>a. ASSUME Requests = {}, Answers = {} PROVE Requests' = {} /\ Answers' = {}
  <2>1. \A k \in Answers' : k + 1 \in Answers
    BY TailAnswers
  <2> QED BY <1>0, <1>a, <2>1
<1>1. CASE sSend' = sSend
  <2>1. SendTid'
    BY <1>1 DEF Sending, SendTid
  <2>2. FileOfTid'
    <3>1. ~orphaned' => \/ sSend'.state \in {"NONE", "PENDING_TID"}
                        \/ sSend'.tid \in Transfers /\ xfer[sSend'.tid].file = sSend'.file
      BY <1>0, <1>1 DEF Sending, FileOfTid
    <3> QED BY <3>1, HandlingFile
  <2>3. OneAnswer'
    <3> SUFFICES ASSUME ~orphaned' PROVE OneAnswer'
      BY DEF OneAnswer
    <3>1. CASE sSend.state = "PENDING_TID"
      <4>1. /\ \A i, j \in Requests : i = j
            /\ \A k, l \in Answers : k = l
            /\ Requests = {} \/ Answers = {}
            /\ AnswerFits
        BY <1>0, <3>1 DEF Sending, OneAnswer
      <4>2. \A k \in Answers' : k + 1 \in Answers /\ down'[Sender][k] = down[Sender][k + 1] /\ k \in Nat \ {0}
        BY TailAnswers
      <4>3. \A k, l \in Answers' : k = l
        <5> SUFFICES ASSUME NEW k \in Answers', NEW l \in Answers' PROVE k = l
          OBVIOUS
        <5>1. k + 1 = l + 1 /\ k \in Nat /\ l \in Nat
          BY <4>1, <4>2
        <5> QED BY <5>1
      <4>4. Requests' = {} \/ Answers' = {}
        BY <1>0, <4>1, <4>2
      <4>5. AnswerFits'
        <5>1. \A i \in Requests' : \A f \in up'[Sender][i] : f.type = "INIT" => f.file = sSend'.file
          BY <1>0, <1>1, <4>1 DEF AnswerFits
        <5>2. \A k \in Answers' : down'[Sender][k].type = "SERVER_MSG" =>
                /\ down'[Sender][k].text.digits[1] \in Transfers
                /\ xfer[down'[Sender][k].text.digits[1]].file = sSend.file
          <6> HIDE DEF HandlingStep
          <6>1. \A k \in Answers : down[Sender][k].type = "SERVER_MSG" =>
                  /\ down[Sender][k].text.digits[1] \in Transfers
                  /\ xfer[down[Sender][k].text.digits[1]].file = sSend.file
            BY <4>1 DEF AnswerFits
          <6> QED BY <4>2, <6>1
        <5>3. Transfers' = Transfers
          BY DEF Transfers
        <5> QED BY <1>1, <5>1, <5>2, <5>3 DEF AnswerFits
      <4> QED BY <1>0, <1>1, <3>1, <4>1, <4>3, <4>4, <4>5 DEF OneAnswer
    <3>2. CASE sSend.state # "PENDING_TID"
      <4>1. Requests = {} /\ Answers = {}
        BY <1>0, <3>2 DEF Sending, OneAnswer
      <4> QED BY <1>1, <1>a, <3>2, <4>1 DEF OneAnswer
    <3> QED BY <3>1, <3>2
  <2> QED BY <2>1, <2>2, <2>3 DEF Sending
<1>2. CASE /\ m.type = "SERVER_MSG" /\ IsAnswer(m) /\ sSend.state = "PENDING_TID"
           /\ sSend' = [sSend EXCEPT !.tid = m.text.digits[1], !.state = "PENDING"]
  <2>1. /\ sSend'.state = "PENDING" /\ sSend'.tid = m.text.digits[1]
        /\ sSend'.file = sSend.file /\ sSend'.size = sSend.size
    BY <1>0, <1>2 DEF SP!SendTask
  <2>2. m.text.digits[1] \in Tid
    BY <1>2, ToSenderKinds, SenderText
  <2>3. SendTid'
    BY <1>2, <2>1, <2>2 DEF Sending, SendTid
  <2>4. FileOfTid'
    <3>1. ~orphaned' => m.text.digits[1] \in Transfers /\ xfer[m.text.digits[1]].file = sSend.file
      <4>1. 1 \in Answers /\ m = down[Sender][1]
        BY <1>2, TailAnswers
      <4> QED BY <1>0, <1>2, <4>1 DEF Sending, OneAnswer, AnswerFits
    <3> QED BY <2>1, <3>1, HandlingFile
  <2>5. OneAnswer'
    <3> SUFFICES ASSUME ~orphaned' PROVE OneAnswer'
      BY DEF OneAnswer
    <3>1. Requests' = {} /\ Answers' = {}
      BY <1>0, <1>2, Answered
    <3> QED BY <2>1, <3>1 DEF OneAnswer
  <2> QED BY <2>3, <2>4, <2>5 DEF Sending
<1>3. CASE sSend.state = "PENDING" /\ sSend' = [sSend EXCEPT !.state = "ACTIVE"]
  <2>1. /\ sSend'.state = "ACTIVE" /\ sSend'.tid = sSend.tid
        /\ sSend'.file = sSend.file /\ sSend'.size = sSend.size
    BY <1>0, <1>3 DEF SP!SendTask
  <2>2. SendTid'
    BY <1>3, <2>1 DEF Sending, SendTid
  <2>3. FileOfTid'
    <3>1. ~orphaned' => sSend.tid \in Transfers /\ xfer[sSend.tid].file = sSend.file
      BY <1>0, <1>3 DEF Sending, FileOfTid
    <3> QED BY <2>1, <3>1, HandlingFile
  <2>4. OneAnswer'
    <3> SUFFICES ASSUME ~orphaned' PROVE OneAnswer'
      BY DEF OneAnswer
    <3>1. Requests' = {} /\ Answers' = {}
      BY <1>0, <1>3, <1>a DEF Sending, OneAnswer
    <3> QED BY <2>1, <3>1 DEF OneAnswer
  <2> QED BY <2>2, <2>3, <2>4 DEF Sending
<1>4. CASE sSend' = S!FreeSend /\ (sSend.state = "PENDING_TID" => m.type = "ERROR")
  <2>1. sSend'.state = "NONE" /\ sSend'.tid = 0
    BY <1>4 DEF S!FreeSend
  <2>2. SendTid'
    BY <2>1 DEF SendTid
  <2>3. FileOfTid'
    BY <2>1, HandlingFile
  <2>4. OneAnswer'
    <3> SUFFICES ASSUME ~orphaned' PROVE OneAnswer'
      BY DEF OneAnswer
    <3>1. Requests' = {} /\ Answers' = {}
      <4>1. CASE sSend.state = "PENDING_TID"
        <5>1. m.type = "ERROR" /\ sSend.tid = 0
          BY <1>4, <4>1 DEF Sending, SendTid
        <5>2. (m.code = 300 /\ m.about = 0) \/ (m.code = 200 /\ m.about = 0)
          BY <2>1, <4>1, <5>1 DEF Misses
        <5>3. IsAnswer(m)
          <6>1. ~(m.code = 300 /\ m.about = 0)
            BY <5>1, TheTids, ToSenderKinds DEF TidRange
          <6> QED BY <5>1, <5>2, <6>1, AnswerKinds
        <5> QED BY <1>0, <4>1, <5>3, Answered
      <4>2. CASE sSend.state # "PENDING_TID"
        BY <1>0, <4>2, <1>a DEF Sending, OneAnswer
      <4> QED BY <4>1, <4>2
    <3> QED BY <2>1, <3>1 DEF OneAnswer
  <2> QED BY <2>2, <2>3, <2>4 DEF Sending
<1> QED BY <1>1, <1>2, <1>3, <1>4 DEF Handled

(* The sender's session begins, ends, or the process ends. *)
LEMMA LivesSending ==
  ASSUME Sending, UNCHANGED <<up, down, xfer, orphaned>>,
         \/ sSend' = sSend /\ sPhase # "closed"
         \/ sSend' = S!FreeSend /\ (sPhase' = "closed" \/ (Requests = {} /\ Answers = {}))
  PROVE  Sending'
<1>1. Requests' = Requests /\ Answers' = Answers /\ Transfers' = Transfers
  BY SameRequests, SameAnswers DEF Transfers
<1>2. CASE sSend' = sSend /\ sPhase # "closed"
  <2>1. AnswerFits' <=> AnswerFits
    BY <1>1, <1>2 DEF AnswerFits
  <2> QED BY <1>1, <1>2, <2>1 DEF Sending, SendTid, OneAnswer, FileOfTid
<1>3. CASE sSend' = S!FreeSend /\ (sPhase' = "closed" \/ (Requests = {} /\ Answers = {}))
  <2>1. sSend'.state = "NONE" /\ sSend'.tid = 0
    BY <1>3 DEF S!FreeSend
  <2> QED BY <1>1, <1>3, <2>1 DEF Sending, SendTid, OneAnswer, FileOfTid
<1> QED BY <1>2, <1>3

-----------------------------------------------------------------------------
(* The steps of the server and of the receiver, as they concern the send task. *)

Fewer ==
  \E g \in [1..Len(up'[Sender]) -> 1..Len(up[Sender])] :
    /\ \A i, j \in DOMAIN g : g[i] = g[j] => i = j
    /\ \A j \in DOMAIN g : up'[Sender][j] \subseteq up[Sender][g[j]]

NoAnswerComes ==
  \A k \in 1..Len(down'[Sender]) :
    \/ k \in 1..Len(down[Sender]) /\ down'[Sender][k] = down[Sender][k]
    \/ ~IsAnswer(down'[Sender][k])

FitChunks ==
  \A k \in 1..Len(down'[Receiver]) : down'[Receiver][k].type = "CHUNK" =>
    \/ \E j \in 1..Len(down[Receiver]) : down'[Receiver][k] = down[Receiver][j]
    \/ ~orphaned => /\ down'[Receiver][k].tid \in Transfers
                    /\ xfer[down'[Receiver][k].tid].file = down'[Receiver][k].file

SenderSame == UNCHANGED <<sPhase, sSend, orphaned>>

LEMMA FileOfTidKept ==
  ASSUME FileOfTid, FilesKept, SenderSame, Fewer, FitChunks PROVE FileOfTid'
<1> SUFFICES ASSUME ~orphaned' PROVE FileOfTid'
  BY DEF FileOfTid
<1>0. ~orphaned /\ UNCHANGED sSend
  BY DEF SenderSame
<1>1. \A t \in Transfers : t \in Transfers' /\ xfer'[t].file = xfer[t].file
  BY DEF FilesKept
<1>2. sSend'.state \notin {"NONE", "PENDING_TID"} =>
         sSend'.tid \in Transfers' /\ xfer'[sSend'.tid].file = sSend'.file
  BY <1>0, <1>1 DEF FileOfTid
<1>3. ASSUME NEW i \in 1..Len(up'[Sender]), NEW f \in up'[Sender][i], f.type = "CHUNK"
      PROVE  f.tid \in Transfers' /\ xfer'[f.tid].file = f.file
  <2>1. \E j \in 1..Len(up[Sender]) : f \in up[Sender][j]
    BY <1>3 DEF Fewer
  <2> QED BY <1>0, <1>1, <1>3, <2>1 DEF FileOfTid
<1>4. ASSUME NEW k \in 1..Len(down'[Receiver]), down'[Receiver][k].type = "CHUNK"
      PROVE  /\ down'[Receiver][k].tid \in Transfers'
             /\ xfer'[down'[Receiver][k].tid].file = down'[Receiver][k].file
  <2>1. /\ down'[Receiver][k].tid \in Transfers
        /\ xfer[down'[Receiver][k].tid].file = down'[Receiver][k].file
    BY <1>0, <1>4 DEF FileOfTid, FitChunks
  <2> QED BY <1>1, <2>1
<1> QED BY <1>2, <1>3, <1>4 DEF FileOfTid

LEMMA FewerRequests ==
  ASSUME Fewer, \A i, j \in Requests : i = j
  PROVE  /\ \A i, j \in Requests' : i = j
         /\ Requests = {} => Requests' = {}
         /\ \A i \in Requests' : \A f \in up'[Sender][i] : f.type = "INIT" =>
              \E j \in Requests : f \in up[Sender][j]
<1>1. PICK g \in [1..Len(up'[Sender]) -> 1..Len(up[Sender])] :
        /\ \A i, j \in DOMAIN g : g[i] = g[j] => i = j
        /\ \A j \in DOMAIN g : up'[Sender][j] \subseteq up[Sender][g[j]]
  BY DEF Fewer
<1>2. \A i \in Requests' : i \in DOMAIN g /\ g[i] \in Requests
  BY <1>1 DEF Requests
<1>3. \A i \in Requests' : \A f \in up'[Sender][i] : f.type = "INIT" =>
              \E j \in Requests : f \in up[Sender][j]
  BY <1>1, <1>2
<1> QED BY <1>1, <1>2, <1>3

LEMMA OldAnswers ==
  ASSUME NoAnswerComes
  PROVE  \A k \in Answers' : k \in Answers /\ down'[Sender][k] = down[Sender][k]
<1>1. \A k \in Answers' : k \in 1..Len(down'[Sender]) /\ IsAnswer(down'[Sender][k])
  BY DEF Answers, IsAnswer
<1>2. ASSUME NEW k \in Answers' PROVE k \in 1..Len(down[Sender]) /\ down'[Sender][k] = down[Sender][k]
  BY <1>1 DEF NoAnswerComes
<1> QED BY <1>1, <1>2 DEF Answers

LEMMA SendTidKept == ASSUME SendTid, SenderSame PROVE SendTid'
BY DEF SendTid, SenderSame

LEMMA SendingKept ==
  ASSUME Sending, FilesKept, SenderSame, Fewer, NoAnswerComes, FitChunks PROVE Sending'
<1>1. SendTid' /\ FileOfTid'
  BY SendTidKept, FileOfTidKept DEF Sending
<1>2. OneAnswer'
  <2> SUFFICES ASSUME ~orphaned', sPhase' # "closed" PROVE OneAnswer'
    BY DEF OneAnswer
  <2>0. ~orphaned /\ sPhase # "closed" /\ sSend' = sSend
    BY DEF SenderSame
  <2>1. \A i, j \in Requests : i = j
    BY <2>0 DEF Sending, OneAnswer
  <2>2. CASE sSend.state = "PENDING_TID"
    <3>1. (\A k, l \in Answers : k = l) /\ (Requests = {} \/ Answers = {}) /\ AnswerFits
      BY <2>0, <2>2 DEF Sending, OneAnswer
    <3>2. AnswerFits'
      <4>1. \A i \in Requests' : \A f \in up'[Sender][i] : f.type = "INIT" => f.file = sSend'.file
        BY <2>0, <2>1, <3>1, FewerRequests DEF AnswerFits
      <4>2. \A k \in Answers : down[Sender][k].type = "SERVER_MSG" =>
              /\ down[Sender][k].text.digits[1] \in Transfers
              /\ xfer[down[Sender][k].text.digits[1]].file = sSend.file
        BY <3>1 DEF AnswerFits
      <4>3. \A k \in Answers' : down'[Sender][k].type = "SERVER_MSG" =>
              /\ down'[Sender][k].text.digits[1] \in Transfers'
              /\ xfer'[down'[Sender][k].text.digits[1]].file = sSend'.file
        BY <2>0, <4>2, OldAnswers DEF FilesKept
      <4> QED BY <4>1, <4>3 DEF AnswerFits
    <3> QED BY <2>0, <2>1, <2>2, <3>1, <3>2, FewerRequests, OldAnswers DEF OneAnswer
  <2>3. CASE sSend.state # "PENDING_TID"
    <3>1. Requests = {} /\ Answers = {}
      BY <2>0, <2>3 DEF Sending, OneAnswer
    <3> QED BY <2>0, <2>1, <2>3, <3>1, FewerRequests, OldAnswers DEF OneAnswer
  <2> QED BY <2>2, <2>3
<1> QED BY <1>1, <1>2 DEF Sending

LEMMA SameFewer == ASSUME up'[Sender] = up[Sender] PROVE Fewer
<1> DEFINE g == [k \in 1..Len(up[Sender]) |-> k]
<1>1. g \in [1..Len(up'[Sender]) -> 1..Len(up[Sender])] /\ DOMAIN g = 1..Len(up[Sender])
      /\ \A k \in 1..Len(up[Sender]) : g[k] = k
  OBVIOUS
<1> HIDE DEF g
<1> QED BY <1>1 DEF Fewer

LEMMA TakenFromSender ==
  ASSUME MessagesTyped, NEW i \in 1..Len(up[Sender]), NEW f \in up[Sender][i],
         up'[Sender] = Without(up[Sender], i, f)
  PROVE  Removal(up[Sender], up'[Sender], i, f) /\ up'[Sender] \in Seq(SUBSET FromSender)
<1>1. up[Sender] \in Seq(SUBSET FromSender)
  BY SenderQueue
<1> QED BY <1>1, TakenFrom

LEMMA TakenFewer ==
  ASSUME MessagesTyped, NEW i \in 1..Len(up[Sender]), NEW f \in up[Sender][i],
         up'[Sender] = Without(up[Sender], i, f)
  PROVE  Fewer
<1>0. Removal(up[Sender], up'[Sender], i, f)
  BY TakenFromSender
<1>1. PICK g \in [1..Len(up'[Sender]) -> 1..Len(up[Sender])] :
              /\ \A j, k \in DOMAIN g : g[j] = g[k] => j = k
              /\ \A j \in DOMAIN g : up'[Sender][j]
                                       = IF g[j] = i THEN up[Sender][i] \ {f} ELSE up[Sender][g[j]]
  BY <1>0, Zenon DEF Removal
<1>2. g \in [1..Len(up'[Sender]) -> 1..Len(up[Sender])]
  BY <1>1
<1>3. \A j \in DOMAIN g : up'[Sender][j] \subseteq up[Sender][g[j]]
  BY <1>1
<1> QED BY <1>1, <1>2, <1>3 DEF Fewer

(* A request is taken, and answered while the sender is there. *)
LEMMA RequestServed ==
  ASSUME MessagesTyped, Sending, FilesKept, SenderSame, FitChunks,
         NEW i \in 1..Len(up[Sender]), NEW f \in up[Sender][i], f.type = "INIT",
         up'[Sender] = Without(up[Sender], i, f), NEW m \in ToSender,
         down'[Sender] = down[Sender] \/ down'[Sender] = down[Sender] \o <<m>>,
         m.type = "SERVER_MSG" => /\ m.text.digits[1] \in Transfers'
                                  /\ xfer'[m.text.digits[1]].file = f.file
  PROVE  Sending'
<1>1. SendTid' /\ FileOfTid'
  BY SendTidKept, FileOfTidKept, TakenFewer DEF Sending
<1>2. OneAnswer'
  <2> SUFFICES ASSUME ~orphaned', sPhase' # "closed" PROVE OneAnswer'
    BY DEF OneAnswer
  <2>0. ~orphaned /\ sPhase # "closed" /\ sSend' = sSend
    BY DEF SenderSame
  <2>1. i \in Requests
    BY DEF Requests
  <2>2. /\ sSend.state = "PENDING_TID" /\ (\A j, k \in Requests : j = k) /\ Answers = {} /\ AnswerFits
    BY <2>0, <2>1 DEF Sending, OneAnswer
  <2>3. \A e \in up[Sender][i] : e.type = "INIT" => e = f
    <3>1. up[Sender][i] \subseteq FromSender
      BY SenderQueue, ElementOfSeq
    <3>2. \A e \in up[Sender][i] : e.type = "INIT" => e = S!InitFrame(e.file)
      <4>1. \A e \in FromSender : e.type = "INIT" => \E file \in SendFiles : e = S!InitFrame(file)
        BY DEF FromSender, ChunkIn
      <4> QED BY <3>1, <4>1 DEF S!InitFrame
    <3>3. \A e \in up[Sender][i] : e.type = "INIT" => e.file = sSend.file
      BY <2>1, <2>2 DEF AnswerFits
    <3> QED BY <3>2, <3>3
  <2>4. Requests' = {}
    <3>0. Removal(up[Sender], up'[Sender], i, f)
      BY TakenFromSender
    <3>1. PICK g \in [1..Len(up'[Sender]) -> 1..Len(up[Sender])] :
              /\ \A j, k \in DOMAIN g : g[j] = g[k] => j = k
              /\ \A j \in DOMAIN g : up'[Sender][j]
                                       = IF g[j] = i THEN up[Sender][i] \ {f} ELSE up[Sender][g[j]]
      BY <3>0, Zenon DEF Removal
    <3> SUFFICES ASSUME NEW j \in Requests' PROVE FALSE
      OBVIOUS
    <3>2. j \in DOMAIN g /\ \E e \in up'[Sender][j] : e.type = "INIT"
      BY DEF Requests
    <3>3. CASE g[j] = i
      BY <2>3, <3>1, <3>2, <3>3
    <3>4. CASE g[j] # i
      <4>1. up'[Sender][j] = up[Sender][g[j]] /\ g[j] \in 1..Len(up[Sender])
        BY <3>1, <3>2, <3>4
      <4>2. g[j] \in Requests
        BY <3>2, <4>1 DEF Requests
      <4> QED BY <2>1, <2>2, <3>4, <4>2
    <3> QED BY <3>3, <3>4
  <2>5. ASSUME NEW k \in Answers' PROVE down'[Sender] = down[Sender] \o <<m>> /\ k = Len(down[Sender]) + 1 /\ down'[Sender][k] = m
    <3>1. k \in 1..Len(down'[Sender]) /\ IsAnswer(down'[Sender][k])
      BY DEF Answers, IsAnswer
    <3>2. ~(k \in 1..Len(down[Sender]) /\ down'[Sender][k] = down[Sender][k])
      BY <2>2, <3>1 DEF Answers
    <3>3. down'[Sender] = down[Sender] \o <<m>>
      BY <3>1, <3>2
    <3>4. /\ Len(down'[Sender]) = Len(down[Sender]) + 1 /\ Len(down[Sender]) \in Nat
          /\ \A j \in 1..Len(down[Sender]) : down'[Sender][j] = down[Sender][j]
          /\ down'[Sender][Len(down[Sender]) + 1] = m
      <4>1. down'[Sender] = Append(down[Sender], m)
        BY <3>3, SenderQueue, AppendIsConcat
      <4> QED BY <4>1, SenderQueue, OneMore
    <3> DEFINE n == Len(down[Sender])
               l == Len(down'[Sender])
    <3>5. k \in 1..l /\ k \notin 1..n /\ l = n + 1 /\ n \in Nat
      BY <3>1, <3>2, <3>4
    <3> HIDE DEF n, l
    <3>6. k = n + 1
      BY <3>5
    <3> QED BY <3>3, <3>4, <3>6 DEF n
  <2>6. AnswerFits'
    BY <2>0, <2>2, <2>1, <2>4, <2>5 DEF AnswerFits
  <2> QED BY <2>0, <2>2, <2>4, <2>5, <2>6 DEF OneAnswer
<1> QED BY <1>1, <1>2 DEF Sending

-----------------------------------------------------------------------------
(* The queues, seen as sets. *)
QueueTyped ==
  /\ down[Sender] \in Seq(ToSender) /\ down[Receiver] \in Seq(ToReceiver)
  /\ up[Sender] \in Seq(SUBSET FromSender) /\ up[Receiver] \in Seq(SUBSET FromReceiver)

(* The first message is taken. *)
LEMMA TakesFirst ==
  ASSUME NEW c, NEW M, down[c] \in Seq(M), down[c] # <<>>, down'[c] = Tail(down[c])
  PROVE  /\ 1 \in 1..Len(down[c]) /\ Head(down[c]) = down[c][1] /\ Head(down[c]) \in M
         /\ Head(down[c]) \in Messages(c) /\ Messages(c)' = Behind(c, 1)
         /\ Messages(c) = {Head(down[c])} \cup Messages(c)'
         /\ \A k \in 1..Len(down'[c]) : /\ k + 1 \in 1..Len(down[c]) /\ down'[c][k] = down[c][k+1]
                                        /\ Behind(c, k)' = Behind(c, k+1)
<1> DEFINE q == down[c]
           n == Len(q)
<1>1. /\ n \in Nat \ {0} /\ Len(Tail(q)) = n - 1 /\ q[1] \in M /\ Head(q) = q[1]
      /\ \A k \in 1..Len(Tail(q)) : Tail(q)[k] = q[k+1] /\ k + 1 \in 1..n
  BY Tailed
<1>2. down'[c] = Tail(q)
  OBVIOUS
<1> HIDE DEF n
<1>3. ASSUME NEW k \in 0..n-1 PROVE Behind(c, k)' = Behind(c, k+1)
  <2>1. Behind(c, k)' = {Tail(q)[l] : l \in k+1..n-1}
    BY <1>1, <1>2 DEF Behind
  <2>2. Behind(c, k+1) = {q[l] : l \in k+2..n}
    BY <1>1 DEF Behind, n
  <2>3. \A l \in k+1..n-1 : Tail(q)[l] = q[l+1] /\ l + 1 \in k+2..n
    BY <1>1
  <2>4. \A l \in k+2..n : l - 1 \in k+1..n-1 /\ Tail(q)[l-1] = q[l]
    <3> SUFFICES ASSUME NEW l \in k+2..n PROVE l - 1 \in k+1..n-1 /\ Tail(q)[l-1] = q[l]
      OBVIOUS
    <3>1. l - 1 \in k+1..n-1 /\ l - 1 + 1 = l /\ l - 1 \in 1..n-1
      BY <1>1
    <3> QED BY <1>1, <3>1
  <2> QED BY <2>1, <2>2, <2>3, <2>4
<1>4. Messages(c) = {q[1]} \cup Behind(c, 1)
  <2>1. 1..n = {1} \cup 2..n
    BY <1>1
  <2> QED BY <2>1 DEF Messages, Behind, n
<1>5. Messages(c)' = Behind(c, 1)
  BY <1>1, <1>3 DEF Messages
<1>6. \A k \in 1..Len(down'[c]) : /\ k + 1 \in 1..n /\ down'[c][k] = q[k+1]
                                  /\ Behind(c, k)' = Behind(c, k+1)
  BY <1>1, <1>2, <1>3
<1> QED BY <1>1, <1>4, <1>5, <1>6 DEF n

(* Messages have their places. *)
LEMMA MessageAt ==
  ASSUME NEW c
  PROVE  /\ \A m : m \in Messages(c) <=> \E k \in 1..Len(down[c]) : m = down[c][k]
         /\ \A k \in 1..Len(down[c]) : \A m \in Behind(c, k) : m \in Messages(c)
<1>1. \A k : \A l : l \in k+1..Len(down[c]) /\ k \in 1..Len(down[c]) => l \in 1..Len(down[c])
  OBVIOUS
<1> QED BY <1>1 DEF Messages, Behind

(* Messages are added. *)
News(c) == {down'[c][k] : k \in Len(down[c])+1..Len(down'[c])}

Spliced(n, l, q, more, w) ==
         /\ {w[j] : j \in n+1..n+l} = {more[j] : j \in 1..l}
         /\ \A k \in 0..n : {w[j] : j \in k+1..n+l} = {q[j] : j \in k+1..n} \cup {more[j] : j \in 1..l}
         /\ \A k \in 1..n : k \in 1..n+l /\ w[k] = q[k]
         /\ \A k \in n+1..n+l : /\ k - n \in 1..l /\ w[k] = more[k - n]
                               /\ {w[j] : j \in k+1..n+l} = {more[j] : j \in k-n+1..l}

LEMMA Pieces ==
  ASSUME NEW n \in Nat, NEW l \in Nat, NEW q, NEW more, NEW w,
         \A k \in 1..n+l : w[k] = IF k <= n THEN q[k] ELSE more[k - n]
  PROVE  Spliced(n, l, q, more, w)
<1>1. ASSUME NEW k \in n..n+l PROVE {w[j] : j \in k+1..n+l} = {more[j] : j \in k-n+1..l}
  <2>1. ASSUME NEW j \in k+1..n+l PROVE w[j] = more[j - n] /\ j - n \in k-n+1..l
    <3>1. j \in 1..n+l /\ ~(j <= n) /\ j - n \in k-n+1..l
      OBVIOUS
    <3> QED BY <3>1
  <2>2. ASSUME NEW j \in k-n+1..l PROVE n + j \in k+1..n+l /\ w[n+j] = more[j]
    <3>1. n + j \in k+1..n+l /\ n + j \in 1..n+l /\ ~(n + j <= n) /\ n + j - n = j
      OBVIOUS
    <3> QED BY <3>1
  <2> QED BY <2>1, <2>2
<1>2. n \in n..n+l /\ n - n + 1 = 1
  OBVIOUS
<1>3. {w[j] : j \in n+1..n+l} = {more[j] : j \in 1..l}
  BY <1>1, <1>2
<1>4. \A k \in 1..n : k \in 1..n+l /\ w[k] = q[k]
  OBVIOUS
<1>5. ASSUME NEW k \in 0..n
      PROVE  {w[j] : j \in k+1..n+l} = {q[j] : j \in k+1..n} \cup {w[j] : j \in n+1..n+l}
  <2>1. \A j \in k+1..n : w[j] = q[j] /\ j \in k+1..n+l
    BY <1>4
  <2>2. \A j \in k+1..n+l : j \in k+1..n \/ j \in n+1..n+l
    OBVIOUS
  <2>3. \A j \in n+1..n+l : j \in k+1..n+l
    OBVIOUS
  <2> QED BY <2>1, <2>2, <2>3
<1>6. ASSUME NEW k \in n+1..n+l PROVE k - n \in 1..l /\ w[k] = more[k - n] /\ k \in n..n+l
  <2>1. k - n \in 1..l /\ k \in 1..n+l /\ ~(k <= n) /\ k \in n..n+l
    OBVIOUS
  <2> QED BY <2>1
<1> QED BY <1>1, <1>3, <1>4, <1>5, <1>6 DEF Spliced

Added(c, more) ==
         /\ News(c) = {more[k] : k \in 1..Len(more)}
         /\ Messages(c)' = Messages(c) \cup News(c)
         /\ \A k \in 1..Len(down[c]) :
              /\ k \in 1..Len(down'[c]) /\ down'[c][k] = down[c][k]
              /\ Behind(c, k)' = Behind(c, k) \cup News(c)
         /\ \A k \in 1..Len(down'[c]) : k \notin 1..Len(down[c]) =>
              /\ k - Len(down[c]) \in 1..Len(more) /\ down'[c][k] = more[k - Len(down[c])]
              /\ Behind(c, k)' = {more[l] : l \in k - Len(down[c]) + 1..Len(more)}

LEMMA Adds ==
  ASSUME NEW c, NEW M, down[c] \in Seq(M), NEW more \in Seq(M), down'[c] = down[c] \o more
  PROVE  Added(c, more) /\ Len(down[c]) \in Nat
<1> DEFINE n == Len(down[c])
           l == Len(more)
<1>1. /\ n \in Nat /\ l \in Nat /\ Len(down'[c]) = n + l
      /\ \A k \in 1..n+l : down'[c][k] = IF k <= n THEN down[c][k] ELSE more[k - n]
  BY ConcatProperties, LenProperties
<1> HIDE DEF n, l
<1>2. \A k : Behind(c, k)' = {down'[c][j] : j \in k+1..n+l}
  BY <1>1 DEF Behind
<1>3. \A k : Behind(c, k) = {down[c][j] : j \in k+1..n}
  BY DEF Behind, n
<1>4. News(c) = {down'[c][j] : j \in n+1..n+l}
  BY <1>1 DEF News, n
<1>5. Spliced(n, l, down[c], more, down'[c])
  BY <1>1, Pieces
<1>6. \A k \in 0..n : Behind(c, k)' = Behind(c, k) \cup News(c)
  BY <1>2, <1>3, <1>4, <1>5 DEF Spliced
<1>7. Messages(c)' = Messages(c) \cup News(c)
  BY <1>1, <1>6 DEF Messages
<1>8. \A k \in 1..n : k \in 0..n
  BY <1>1
<1>9. \A k \in 1..n+l : k \notin 1..n => k \in n+1..n+l
  BY <1>1
<1> QED BY <1>1, <1>2, <1>4, <1>5, <1>6, <1>7, <1>8, <1>9 DEF n, l, Spliced, Added

(* Frames are sent, and taken. *)
LEMMA SendsFrames ==
  ASSUME MessagesTyped, NEW c \in {Sender, Receiver}, NEW F, up[c] \in Seq(SUBSET F),
         NEW frames \in SUBSET F, Uploads(c, frames)
  PROVE  /\ Frames(c)' = Frames(c) \cup frames
         /\ \A d \in {Sender, Receiver} : d # c => Frames(d)' = Frames(d)
<1>1. \A d \in {Sender, Receiver} : d # c => Frames(d)' = Frames(d)
  BY Uploading DEF Frames
<1>2. CASE frames = {}
  <2>1. up' = up
    BY <1>2 DEF Uploads
  <2> QED BY <1>1, <1>2, <2>1 DEF Frames
<1>3. CASE frames # {}
  <2>1. up'[c] = Append(up[c], frames)
    BY <1>3 DEF Uploads, MessagesTyped
  <2>2. /\ Len(up'[c]) = Len(up[c]) + 1 /\ Len(up[c]) \in Nat /\ up'[c][Len(up[c]) + 1] = frames
        /\ \A k \in 1..Len(up[c]) : up'[c][k] = up[c][k]
    BY <2>1, OneMore
  <2>3. 1..Len(up[c]) + 1 = 1..Len(up[c]) \cup {Len(up[c]) + 1}
    BY <2>2
  <2>4. \A f : (\E i \in 1..Len(up'[c]) : f \in up'[c][i])
                  <=> f \in frames \/ (\E i \in 1..Len(up[c]) : f \in up[c][i])
    BY <2>2, <2>3
  <2>5. /\ \A f : f \in Frames(c)' <=> \E i \in 1..Len(up'[c]) : f \in up'[c][i]
        /\ \A f : f \in Frames(c) <=> \E i \in 1..Len(up[c]) : f \in up[c][i]
    BY DEF Frames
  <2>6. \A f : f \in Frames(c)' <=> f \in Frames(c) \cup frames
    BY <2>4, <2>5
  <2> QED BY <1>1, <2>6
<1> QED BY <1>1, <1>2, <1>3

LEMMA FrameTaken ==
  ASSUME NEW c, NEW F, up[c] \in Seq(SUBSET F), NEW i \in 1..Len(up[c]), NEW f \in up[c][i],
         up'[c] = Without(up[c], i, f)
  PROVE  f \in Frames(c) /\ Frames(c)' \subseteq Frames(c) /\ Frames(c) \ {f} \subseteq Frames(c)'
<1>1. Removal(up[c], up'[c], i, f) /\ Leaves(up[c], up'[c], f)
  BY TakenFrom
<1>2. Frames(c)' \subseteq Frames(c)
  <2>1. PICK g \in [1..Len(up'[c]) -> 1..Len(up[c])] :
          \A j \in DOMAIN g : up'[c][j] = IF g[j] = i THEN up[c][i] \ {f} ELSE up[c][g[j]]
    BY <1>1 DEF Removal
  <2> QED BY <2>1 DEF Frames
<1>3. Frames(c) \ {f} \subseteq Frames(c)'
  BY <1>1 DEF Leaves, Frames
<1> QED BY <1>2, <1>3 DEF Frames

-----------------------------------------------------------------------------
(* What the messages mean to the sender. *)

Means(m, gives, accepts, ends, completes, t) ==
  \A u : /\ GivesTid(m, u) <=> gives /\ u = t
         /\ Accepts(m, u) <=> accepts /\ u = t
         /\ Ends(m, u) <=> ends /\ u = t
         /\ Completes(m, u) <=> completes /\ u = t

LEMMA TextMeans ==
  ASSUME NEW m, m.type = "SERVER_MSG", m.text \in SenderTexts
  PROVE  LET kind == S!Classified(m.text.phrases)
         IN  /\ Means(m, kind = "SEND_PENDING", kind = "ACCEPTED",
                      kind \in {"REJECTED", "CANCELLED", "CANCELLED_DISC"}, kind = "COMPLETE",
                      m.text.digits[1])
             /\ m.text.digits[1] \in Tid /\ ~Refuses(m)
             /\ kind = "SEND_PENDING" => IsAnswer(m)
<1> DEFINE kind == S!Classified(m.text.phrases)
           t == m.text.digits[1]
           ann == S!ParseAnnouncement(m.text)
<1>1. /\ t \in Tid /\ ann = [kind |-> kind, tid |-> t]
      /\ kind = "SEND_PENDING" => IsAnswer(m)
  BY SenderText, AnswerKinds
<1> HIDE DEF kind, t
<1>2. ann.kind = kind /\ ann.tid = t
  BY <1>1
<1> HIDE DEF ann
<1>3. ~Refuses(m) /\ m.type \notin {"ACCEPT"} /\ m.type \notin {"REJECT", "CANCEL"} /\ m.type # "COMPLETE"
  BY DEF Refuses
<1>4. Means(m, kind = "SEND_PENDING", kind = "ACCEPTED",
            kind \in {"REJECTED", "CANCELLED", "CANCELLED_DISC"}, kind = "COMPLETE", t)
  BY <1>2, <1>3 DEF Means, GivesTid, Accepts, Ends, Completes, Tells, ann
<1> QED BY <1>1, <1>3, <1>4 DEF kind, t

LEMMA FrameMeans ==
  ASSUME NEW m, m.type \in {"ACCEPT", "REJECT", "CANCEL"}
  PROVE  /\ Means(m, FALSE, m.type = "ACCEPT", m.type \in {"REJECT", "CANCEL"}, FALSE, m.tid)
         /\ ~Refuses(m) /\ ~IsAnswer(m)
BY DEF Means, GivesTid, Accepts, Ends, Completes, Tells, Refuses, IsAnswer

LEMMA ErrorMeans ==
  ASSUME NEW m, m.type = "ERROR"
  PROVE  \A u : ~GivesTid(m, u) /\ ~Accepts(m, u) /\ ~Ends(m, u) /\ ~Completes(m, u)
BY DEF GivesTid, Accepts, Ends, Completes, Tells

(* A message says one thing, of one transfer. *)
LEMMA OneMeaning ==
  ASSUME NEW m \in ToSender
  PROVE  /\ \A t, u : GivesTid(m, t) => /\ m.type # "ERROR" /\ IsAnswer(m) /\ t \in Tid
                                        /\ GivesTid(m, u) => t = u
         /\ \A t, u : Accepts(m, t) => ~Ends(m, u) /\ ~Refuses(m)
<1>1. CASE m.type = "SERVER_MSG" /\ m.text \in SenderTexts
  BY <1>1, TextMeans DEF Means
<1>2. CASE m.type = "ERROR"
  BY <1>2, ErrorMeans
<1>3. CASE m.type \in {"ACCEPT", "REJECT", "CANCEL"}
  BY <1>3, FrameMeans DEF Means
<1> QED BY <1>1, <1>2, <1>3, ToSenderKinds

(* What it does to the send task, in these terms. *)
Moved(m) ==
  \/ \E t \in Tid : /\ GivesTid(m, t) /\ sSend.state = "PENDING_TID"
                    /\ sSend'.tid = t /\ sSend'.state = "PENDING"
  \/ /\ Accepts(m, sSend.tid) /\ sSend.state = "PENDING"
     /\ sSend'.tid = sSend.tid /\ sSend'.state = "ACTIVE"
  \/ /\ sSend.state # "NONE" /\ sSend'.tid = 0 /\ sSend'.state = "NONE"
     /\ \/ m.type = "ERROR"
        \/ sSend.state # "PENDING_TID" /\ (Ends(m, sSend.tid) \/ Completes(m, sSend.tid))
  \/ /\ sSend' = sSend
     /\ sSend.state = "PENDING_TID" => \A t \in Tid : ~GivesTid(m, t)
     /\ sSend.state = "PENDING" => ~Accepts(m, sSend.tid)
     /\ sSend.state # "NONE" => ~Ends(m, sSend.tid) /\ ~Refuses(m)
     /\ sSend.state = "WAIT_COMPLETE" => ~Completes(m, sSend.tid)

LEMMA MovedFree ==
  sSend' = S!FreeSend => sSend'.tid = 0 /\ sSend'.state = "NONE"
BY DEF S!FreeSend

LEMMA MovedByText ==
  ASSUME SenderInv, Roles, SendTid, NEW m, m.type = "SERVER_MSG", m.text \in SenderTexts,
         S!HandleText(m.text)
  PROVE  Moved(m)
<1> DEFINE kind == S!Classified(m.text.phrases)
           t == m.text.digits[1]
           ann == S!ParseAnnouncement(m.text)
<1>1. /\ t \in Tid /\ kind # "RECV_PENDING" /\ ann.kind = kind /\ ann.tid = t
  BY SenderText
<1>2. \A tid : S!RecvFind(tid) = {}
  BY NothingToReceive
<1>3. /\ Means(m, kind = "SEND_PENDING", kind = "ACCEPTED",
               kind \in {"REJECTED", "CANCELLED", "CANCELLED_DISC"}, kind = "COMPLETE", t)
      /\ ~Refuses(m)
  BY TextMeans
<1>4. sSend \in SP!SendTask
  BY DEF SenderInv, SP!TypeInv, SP!TypeOK
<1>5. S!SendMatches(t) => sSend.state # "PENDING_TID" /\ sSend.state # "NONE" /\ sSend.tid = t
  BY <1>1, TheTids DEF TidRange, SendTid, S!SendMatches, S!SendBusy
<1> HIDE DEF kind, t, ann
<1>6. S!HandleText(m.text) <=>
        CASE ann.kind = "RECV_PENDING" -> S!AnnIncoming(ann.tid)
          [] ann.kind = "SEND_PENDING" /\ sSend.state = "PENDING_TID" -> S!AnnSendPending(ann.tid)
          [] ann.kind = "ACCEPTED" /\ S!SendMatches(ann.tid) /\ sSend.state = "PENDING"
               -> S!Accepted(ann.tid)
          [] ann.kind = "REJECTED" /\ S!SendMatches(ann.tid) -> S!Rejected(ann.tid)
          [] /\ ann.kind \in {"CANCELLED", "CANCELLED_DISC"}
             /\ S!SendMatches(ann.tid) \/ S!RecvFind(ann.tid) # {}
               -> S!Cancelled(ann.tid)
          [] /\ ann.kind = "COMPLETE"
             /\ \/ S!SendMatches(ann.tid) /\ sSend.state = "WAIT_COMPLETE"
                \/ S!RecvFind(ann.tid) # {}
               -> S!AnnComplete(ann.tid)
          [] OTHER -> S!NothingHappens
  BY Zenon DEF S!HandleText, ann
<1>7. \/ kind = "SEND_PENDING" /\ sSend.state = "PENDING_TID" /\ S!AnnSendPending(t)
      \/ kind = "ACCEPTED" /\ S!SendMatches(t) /\ sSend.state = "PENDING" /\ S!Accepted(t)
      \/ kind = "REJECTED" /\ S!SendMatches(t) /\ S!Rejected(t)
      \/ kind \in {"CANCELLED", "CANCELLED_DISC"} /\ S!SendMatches(t) /\ S!Cancelled(t)
      \/ kind = "COMPLETE" /\ S!SendMatches(t) /\ sSend.state = "WAIT_COMPLETE" /\ S!AnnComplete(t)
      \/ /\ S!NothingHappens
         /\ sSend.state = "PENDING_TID" => kind # "SEND_PENDING"
         /\ S!SendMatches(t) /\ sSend.state = "PENDING" => kind # "ACCEPTED"
         /\ S!SendMatches(t) => kind \notin {"REJECTED", "CANCELLED", "CANCELLED_DISC"}
         /\ S!SendMatches(t) /\ sSend.state = "WAIT_COMPLETE" => kind # "COMPLETE"
  BY <1>1, <1>2, <1>6
<1>8. CASE kind = "SEND_PENDING" /\ sSend.state = "PENDING_TID" /\ S!AnnSendPending(t)
  <2>1. sSend'.tid = t /\ sSend'.state = "PENDING"
    BY <1>4, <1>8 DEF S!AnnSendPending, SP!SendTask
  <2> QED BY <1>1, <1>3, <1>8, <2>1 DEF Moved, Means
<1>9. CASE kind = "ACCEPTED" /\ S!SendMatches(t) /\ sSend.state = "PENDING" /\ S!Accepted(t)
  <2>1. sSend'.tid = sSend.tid /\ sSend'.state = "ACTIVE"
    BY <1>4, <1>9 DEF S!Accepted, SP!SendTask
  <2> QED BY <1>3, <1>5, <1>9, <2>1 DEF Moved, Means
<1>10. CASE /\ S!SendMatches(t)
            /\ \/ kind = "REJECTED" /\ S!Rejected(t)
               \/ kind \in {"CANCELLED", "CANCELLED_DISC"} /\ S!Cancelled(t)
               \/ kind = "COMPLETE" /\ sSend.state = "WAIT_COMPLETE" /\ S!AnnComplete(t)
  <2>1. sSend' = S!FreeSend
    BY <1>2, <1>10 DEF S!Rejected, S!Cancelled, S!AnnComplete, S!RecvComplete, S!SendClear
  <2> QED BY <1>3, <1>5, <1>10, <2>1, MovedFree DEF Moved, Means
<1>11. CASE /\ S!NothingHappens
            /\ sSend.state = "PENDING_TID" => kind # "SEND_PENDING"
            /\ S!SendMatches(t) /\ sSend.state = "PENDING" => kind # "ACCEPTED"
            /\ S!SendMatches(t) => kind \notin {"REJECTED", "CANCELLED", "CANCELLED_DISC"}
            /\ S!SendMatches(t) /\ sSend.state = "WAIT_COMPLETE" => kind # "COMPLETE"
  <2>1. sSend' = sSend
    BY <1>11 DEF S!NothingHappens, S!taskVars
  <2>2. sSend.state # "NONE" /\ sSend.tid = t => S!SendMatches(t)
    BY DEF S!SendMatches, S!SendBusy
  <2> QED BY <1>3, <1>11, <2>1, <2>2 DEF Moved, Means
<1> QED BY <1>7, <1>8, <1>9, <1>10, <1>11

LEMMA MovedBy ==
  ASSUME SenderInv, Roles, SendTid, NEW m \in ToSender, S!Handle(m)
  PROVE  Moved(m)
<1>1. CASE m.type = "SERVER_MSG"
  <2>1. m.text \in SenderTexts /\ S!HandleText(m.text)
    BY <1>1, ToSenderKinds DEF S!Handle
  <2> QED BY <1>1, <2>1, MovedByText
<1>2. CASE m.type = "ERROR"
  <2>1. S!HandleError(m.code) /\ m.code \in {200, 300}
    BY <1>2, ToSenderKinds DEF S!Handle
  <2>2. \/ S!SendBusy /\ (S!NoSuchUser \/ S!TransferStateError)
        \/ S!NothingHappens /\ (m.code = 300 => ~S!SendBusy)
    BY <2>1, NothingToReceive DEF S!HandleError, S!SendBusy
  <2>3. CASE S!SendBusy /\ (S!NoSuchUser \/ S!TransferStateError)
    BY <1>2, <2>3, MovedFree DEF S!NoSuchUser, S!TransferStateError, S!SendClear, S!SendBusy, Moved
  <2>4. CASE S!NothingHappens /\ (m.code = 300 => ~S!SendBusy)
    <3>1. sSend' = sSend /\ (sSend.state # "NONE" => ~Refuses(m))
      BY <2>4 DEF S!NothingHappens, S!taskVars, Refuses, S!SendBusy
    <3> QED BY <1>2, <3>1, ErrorMeans DEF Moved
  <2> QED BY <2>2, <2>3, <2>4
<1>3. CASE m.type \in {"ACCEPT", "REJECT", "CANCEL"} /\ m.tid \in Tid
  <2>1. S!HandleFrame(m)
    BY <1>3 DEF S!Handle
  <2>2. \A tid : S!RecvFind(tid) = {}
    BY NothingToReceive
  <2>3. \/ m.type = "ACCEPT" /\ S!SendMatches(m.tid) /\ sSend.state = "PENDING" /\ S!Accepted(m.tid)
        \/ m.type \in {"REJECT", "CANCEL"} /\ S!SendMatches(m.tid) /\ (S!Rejected(m.tid) \/ S!Cancelled(m.tid))
        \/ /\ S!NothingHappens
           /\ S!SendMatches(m.tid) => m.type \notin {"REJECT", "CANCEL"}
           /\ S!SendMatches(m.tid) /\ sSend.state = "PENDING" => m.type # "ACCEPT"
    BY <1>3, <2>1, <2>2 DEF S!HandleFrame
  <2>4. /\ Means(m, FALSE, m.type = "ACCEPT", m.type \in {"REJECT", "CANCEL"}, FALSE, m.tid)
        /\ ~Refuses(m)
    BY <1>3, FrameMeans DEF Means
  <2>5. sSend \in SP!SendTask
    BY DEF SenderInv, SP!TypeInv, SP!TypeOK
  <2>6. S!SendMatches(m.tid) => sSend.state # "PENDING_TID" /\ sSend.state # "NONE" /\ sSend.tid = m.tid
    BY <1>3, TheTids DEF TidRange, SendTid, S!SendMatches, S!SendBusy
  <2>7. CASE m.type = "ACCEPT" /\ S!SendMatches(m.tid) /\ sSend.state = "PENDING" /\ S!Accepted(m.tid)
    <3>1. sSend'.tid = sSend.tid /\ sSend'.state = "ACTIVE"
      BY <2>5, <2>7 DEF S!Accepted, SP!SendTask
    <3> QED BY <2>4, <2>6, <2>7, <3>1 DEF Moved, Means
  <2>8. CASE m.type \in {"REJECT", "CANCEL"} /\ S!SendMatches(m.tid) /\ (S!Rejected(m.tid) \/ S!Cancelled(m.tid))
    <3>1. sSend' = S!FreeSend
      BY <2>2, <2>8 DEF S!Rejected, S!Cancelled, S!SendClear
    <3> QED BY <2>4, <2>6, <2>8, <3>1, MovedFree DEF Moved, Means
  <2>9. CASE /\ S!NothingHappens
             /\ S!SendMatches(m.tid) => m.type \notin {"REJECT", "CANCEL"}
             /\ S!SendMatches(m.tid) /\ sSend.state = "PENDING" => m.type # "ACCEPT"
    <3>1. sSend' = sSend
      BY <2>9 DEF S!NothingHappens, S!taskVars
    <3>2. sSend.state # "NONE" /\ sSend.tid = m.tid => S!SendMatches(m.tid)
      BY DEF S!SendMatches, S!SendBusy
    <3> QED BY <2>4, <2>9, <3>1, <3>2 DEF Moved, Means
  <2> QED BY <2>3, <2>7, <2>8, <2>9
<1> QED BY <1>1, <1>2, <1>3, ToSenderKinds
=============================================================================
