--------------------------- MODULE RelayEndsProofs ---------------------------
(***************************************************************************)
(* How transfers end in Relay: when both clients have their sessions and   *)
(* nothing is under way, neither waits for a transfer that is over and no  *)
(* transfer goes on that neither waits for (EndsAgree).                    *)
(*                                                                         *)
(* EndsInv is the invariant behind it: what every waiting task is owed.    *)
(* First come the clients' steps, then what the server's texts mean, its   *)
(* steps in the terms of what they add to the queues, and what both sides  *)
(* make of those.                                                          *)
(***************************************************************************)
EXTENDS RelayProofs

-----------------------------------------------------------------------------
(* How transfers end: the sender's steps. *)

(* It leaves the server and the receiver's connection alone. *)
SenderMoves ==
  /\ MessagesTyped /\ SenderInv /\ Sending /\ SenderEnds
  /\ xfer' = xfer /\ (orphaned => orphaned')

(* What a step of its own puts on the connection, and what becomes of the task. *)
OwnMove ==
  /\ \A f \in sOut' : f.type # "INIT" =>
       /\ f.tid = sSend.tid
       /\ f.type \in {"CHUNK", "COMPLETE"} => sSend.state \in {"ACTIVE", "DONE"}
       /\ f.type = "COMPLETE" => sSend'.state = "WAIT_COMPLETE"
       /\ f.type = "CANCEL" => sSend'.tid = 0
  /\ \/ /\ sSend.state = "NONE" /\ sSend'.state = "PENDING_TID" /\ sSend'.tid = 0
        /\ \E f \in sOut' : f.type = "INIT"
     \/ /\ sSend.state # "NONE" /\ sSend'.state = "NONE" /\ sSend'.tid = 0
        /\ \E f \in sOut' : f.type = "CANCEL" /\ f.tid = sSend.tid
     \/ /\ sSend.state \in {"ACTIVE", "DONE"} /\ sSend'.state \in {"ACTIVE", "DONE", "WAIT_COMPLETE"}
        /\ sSend'.tid = sSend.tid
        /\ sSend'.state = "WAIT_COMPLETE" => \E f \in sOut' : f.type = "COMPLETE" /\ f.tid = sSend.tid

LEMMA MovesOwn ==
  ASSUME (\E file : Asks(file)) \/ Quits \/ Works PROVE OwnMove
<1>1. \A f \in OwnChunks : f.type = "CHUNK" /\ f.tid = sSend.tid
  BY DEF OwnChunks, ChunkIn
<1>2. ASSUME NEW file, Asks(file) PROVE OwnMove
  <2>1. sOut' = {S!InitFrame(file)} /\ S!InitFrame(file).type = "INIT"
    BY <1>2 DEF Asks, S!InitFrame
  <2>2. sSend.state = "NONE" /\ sSend'.state = "PENDING_TID" /\ sSend'.tid = 0
    BY <1>2 DEF Asks
  <2> QED BY <2>1, <2>2 DEF OwnMove
<1>3. CASE Quits
  <2>1. sSend.state # "NONE" /\ sSend'.state = "NONE" /\ sSend'.tid = 0
    BY <1>3 DEF Quits, S!FreeSend
  <2>2. \A f \in sOut' : f.tid = sSend.tid /\ f.type \in {"CHUNK", "CANCEL"}
    BY <1>1, <1>3 DEF Quits
  <2>3. \A f \in sOut' : f.type = "CHUNK" => sSend.state = "ACTIVE"
    BY <1>3 DEF Quits
  <2>4. \E f \in sOut' : f.type = "CANCEL" /\ f.tid = sSend.tid
    BY <1>3 DEF Quits
  <2> QED BY <2>1, <2>2, <2>3, <2>4 DEF OwnMove
<1>4. CASE Works
  <2>1. /\ sSend.state \in {"ACTIVE", "DONE"} /\ sSend'.state \in {"ACTIVE", "DONE", "WAIT_COMPLETE"}
        /\ sSend'.tid = sSend.tid
    BY <1>4 DEF Works
  <2>2. \A f \in sOut' : f.tid = sSend.tid /\ f.type \in {"CHUNK", "COMPLETE"}
    BY <1>1, <1>4 DEF Works
  <2>3. \A f \in sOut' : f.type = "COMPLETE" => sSend'.state = "WAIT_COMPLETE"
    BY <1>4 DEF Works
  <2>4. sSend'.state = "WAIT_COMPLETE" => \E f \in sOut' : f.type = "COMPLETE" /\ f.tid = sSend.tid
    BY <1>4 DEF Works
  <2> QED BY <2>1, <2>2, <2>3, <2>4 DEF OwnMove
<1> QED BY <1>2, <1>3, <1>4

(* The messages are the same, and what they say of the transfers. *)
LEMMA OwnKeepsEnds ==
  ASSUME SenderMoves, down' = down, Frames(Sender)' = Frames(Sender) \cup sOut', OwnMove
  PROVE  SenderEnds'
<1>1. /\ Messages(Sender)' = Messages(Sender) /\ \A k : Behind(Sender, k)' = Behind(Sender, k)
      /\ Transfers' = Transfers /\ down'[Sender] = down[Sender] /\ xfer' = xfer
  BY DEF SenderMoves, Messages, Behind, Transfers
<1>2. SendTid /\ SenderFrames /\ SenderMessages /\ TidsToCome /\ SendTaskOwed /\ TransfersHeld
  BY DEF SenderMoves, SenderEnds, Sending
<1>3. 0 \notin Tid
  BY TheTids DEF TidRange
<1>4. SenderFrames'
  <2> SUFFICES ASSUME NEW f \in Frames(Sender) \cup sOut', f.type # "INIT", f.tid \in Tid
               PROVE  /\ f.tid \in Transfers /\ xfer[f.tid].from = Sender
                      /\ \A m \in Messages(Sender) : ~GivesTid(m, f.tid)
                      /\ f.type \in {"CHUNK", "COMPLETE"} => xfer[f.tid].state \in {"active", "over"}
                      /\ f.type = "COMPLETE" /\ sSend'.tid = f.tid => sSend'.state = "WAIT_COMPLETE"
                      /\ f.type = "CANCEL" => sSend'.tid # f.tid
    BY <1>1 DEF SenderFrames, Going
  <2>1. CASE f \in Frames(Sender)
    BY <1>2, <1>3, <2>1 DEF SenderFrames, Going, OwnMove
  <2>2. CASE f \in sOut'
    <3>1. f.tid = sSend.tid /\ f.tid \in Transfers /\ xfer[f.tid].from = Sender
      BY <1>2, <2>2 DEF OwnMove, SendTaskOwed
    <3>2. ASSUME NEW m \in Messages(Sender) PROVE ~GivesTid(m, f.tid)
      BY <1>2, <3>1, MessageAt DEF TidsToCome
    <3>3. sSend.state \in {"ACTIVE", "DONE"} => xfer[f.tid].state \in {"active", "over"}
      BY <1>2, <3>1 DEF SendTaskOwed, Ending
    <3> QED BY <1>3, <2>2, <3>1, <3>2, <3>3 DEF OwnMove
  <2> QED BY <2>1, <2>2
<1>5. SenderMessages'
  BY <1>1, <1>2 DEF SenderMessages, Going
<1>6. TidsToCome'
  BY <1>1, <1>2, <1>3 DEF TidsToCome, Due, Ending, OwnMove
<1>7. SendTaskOwed'
  BY <1>1, <1>2, <1>3 DEF SendTaskOwed, Due, Ending, OwnMove
<1>8. TransfersHeld'
  <2> SUFFICES ASSUME ~orphaned', NEW t \in Transfers, xfer[t].state # "over", xfer[t].from = Sender
               PROVE  \/ sSend'.tid = t
                      \/ \E m \in Messages(Sender) : GivesTid(m, t)
                      \/ \E f \in Frames(Sender) \cup sOut' : f.type = "CANCEL" /\ f.tid = t
    BY <1>1 DEF TransfersHeld
  <2>1. ~orphaned /\ t # 0
    BY <1>3 DEF SenderMoves, Transfers
  <2> QED BY <1>2, <2>1 DEF TransfersHeld, OwnMove, SendTid
<1> QED BY <1>4, <1>5, <1>6, <1>7, <1>8 DEF SenderEnds

(* It takes a message: what it heard is so, and what is owed is still to come. *)
LEMMA HandlingKeepsEnds ==
  ASSUME SenderMoves, NEW m, m = Head(down[Sender]), down[Sender] # <<>>, m \in ToSender, Moved(m),
         down'[Sender] = Tail(down[Sender]), Frames(Sender)' = Frames(Sender),
         orphaned' <=> orphaned \/ Misses(m), sPhase # "closed"
  PROVE  SenderEnds'
<1> DEFINE rest == Messages(Sender)'
<1>1. /\ 1 \in 1..Len(down[Sender]) /\ m = down[Sender][1]
      /\ m \in Messages(Sender) /\ rest = Behind(Sender, 1)
      /\ Messages(Sender) = {m} \cup rest
      /\ \A k \in 1..Len(down'[Sender]) : /\ k + 1 \in 1..Len(down[Sender])
                                          /\ down'[Sender][k] = down[Sender][k+1]
                                          /\ Behind(Sender, k)' = Behind(Sender, k+1)
  <2>1. down[Sender] \in Seq(ToSender)
    BY DEF SenderMoves, MessagesTyped
  <2> QED BY <2>1, TakesFirst
<1> HIDE DEF rest
<1>2. SendTid /\ SenderFrames /\ SenderMessages /\ TidsToCome /\ SendTaskOwed /\ TransfersHeld
  BY DEF SenderMoves, SenderEnds, Sending
<1>3. Transfers' = Transfers /\ xfer' = xfer /\ 0 \notin Tid
  BY TheTids DEF SenderMoves, Transfers, TidRange
<1>4. /\ \A t, u : GivesTid(m, t) => /\ m.type # "ERROR" /\ IsAnswer(m) /\ t \in Tid
                                     /\ GivesTid(m, u) => t = u
      /\ \A t, u : Accepts(m, t) => ~Ends(m, u) /\ ~Refuses(m)
  BY OneMeaning
(* The tid that comes now. *)
<1>5. ASSUME NEW t \in Tid, GivesTid(m, t)
      PROVE  /\ xfer[t].from = Sender /\ sSend.tid # t /\ t \in Transfers
             /\ \A n \in rest : ~GivesTid(n, t)
             /\ \/ xfer[t].state = "pending"
                \/ xfer[t].state = "active" /\ \E n \in rest : Accepts(n, t)
                \/ xfer[t].state = "over" /\ \E n \in rest : Ends(n, t) \/ Refuses(n)
  BY <1>1, <1>2, <1>5 DEF TidsToCome, Due, Ending, Transfers
(* The task that had a tid. *)
<1>6. sSend.state \notin {"NONE", "PENDING_TID"} => sSend.tid \in Tid
  BY <1>2 DEF SendTid
<1>7. SenderFrames'
  <2> SUFFICES ASSUME NEW f \in Frames(Sender), f.type # "INIT", f.tid \in Tid
               PROVE  /\ f.tid \in Transfers /\ xfer[f.tid].from = Sender
                      /\ \A n \in rest : ~GivesTid(n, f.tid)
                      /\ f.type \in {"CHUNK", "COMPLETE"} => xfer[f.tid].state \in {"active", "over"}
                      /\ f.type = "COMPLETE" /\ sSend'.tid = f.tid => sSend'.state = "WAIT_COMPLETE"
                      /\ f.type = "CANCEL" => sSend'.tid # f.tid
    BY <1>3 DEF SenderFrames, Going, rest
  <2>1. /\ f.tid \in Transfers /\ xfer[f.tid].from = Sender
        /\ \A n \in Messages(Sender) : ~GivesTid(n, f.tid)
        /\ f.type \in {"CHUNK", "COMPLETE"} => xfer[f.tid].state \in {"active", "over"}
        /\ f.type = "COMPLETE" /\ sSend.tid = f.tid => sSend.state = "WAIT_COMPLETE"
        /\ f.type = "CANCEL" => sSend.tid # f.tid
    BY <1>2 DEF SenderFrames, Going
  <2> QED BY <1>1, <1>3, <2>1 DEF Moved
<1>8. SenderMessages'
  BY <1>1, <1>2, <1>3 DEF SenderMessages, Going, rest
<1>9. TidsToCome'
  <2> SUFFICES ASSUME NEW k \in 1..Len(down'[Sender]), NEW t \in Tid, GivesTid(down'[Sender][k], t)
               PROVE  (/\ xfer[t].from = Sender /\ Due(t, Behind(Sender, k)) /\ sSend.tid # t
                       /\ \A n \in Behind(Sender, k) : ~GivesTid(n, t))'
    BY DEF TidsToCome
  <2>1. /\ xfer[t].from = Sender /\ Due(t, Behind(Sender, k+1)) /\ sSend.tid # t
        /\ \A n \in Behind(Sender, k+1) : ~GivesTid(n, t)
    BY <1>1, <1>2 DEF TidsToCome
  <2>2. down'[Sender][k] \in rest
    <3> DEFINE l == k + 1
    <3>1. l \in 1+1..Len(down[Sender]) /\ down'[Sender][k] = down[Sender][l]
      BY <1>1
    <3> HIDE DEF l
    <3>2. down[Sender][l] \in Behind(Sender, 1)
      BY <3>1 DEF Behind
    <3> QED BY <1>1, <3>1, <3>2
  <2>3. sSend'.tid # t
    BY <1>3, <1>4, <1>5, <2>1, <2>2 DEF Moved
  <2> QED BY <1>1, <1>3, <2>1, <2>3 DEF Due, Ending
<1>10. SendTaskOwed'
  <2>1. sSend'.tid \in Tid => sSend'.tid \in Transfers /\ xfer[sSend'.tid].from = Sender
    BY <1>2, <1>3, <1>5 DEF SendTaskOwed, Moved
  <2>2. sSend'.state = "PENDING_TID" =>
          (\E f \in Frames(Sender) : f.type = "INIT") \/ (\E n \in rest, t \in Tid : GivesTid(n, t))
    BY <1>1, <1>2 DEF SendTaskOwed, Moved
  <2>3. sSend'.state = "PENDING" => Due(sSend.tid, Messages(Sender))'
    BY <1>1, <1>2, <1>3, <1>5 DEF SendTaskOwed, Moved, Due, Ending, rest
  <2>4. sSend'.state \in {"ACTIVE", "DONE"} =>
          (xfer[sSend.tid].state = "active" \/ Ending(sSend.tid, Messages(Sender)))'
    <3>1. CASE sSend' = sSend
      BY <1>1, <1>2, <1>3, <1>6, <3>1 DEF SendTaskOwed, Moved, Ending, rest
    <3>2. CASE /\ Accepts(m, sSend.tid) /\ sSend.state = "PENDING"
               /\ sSend'.tid = sSend.tid /\ sSend'.state = "ACTIVE"
      <4>1. xfer[sSend.tid].state \in {"active", "over"}
        BY <1>1, <1>2, <1>6, <3>2 DEF SenderMessages, Going
      <4>2. ~Ends(m, sSend.tid) /\ ~Refuses(m)
        BY <1>4, <3>2
      <4> QED BY <1>1, <1>2, <1>3, <3>2, <4>1, <4>2 DEF SendTaskOwed, Due, Ending, rest
    <3> QED BY <3>1, <3>2 DEF Moved
  <2>5. sSend'.state = "WAIT_COMPLETE" =>
          \/ \E f \in Frames(Sender) : f.type = "COMPLETE" /\ f.tid = sSend'.tid
          \/ \E n \in rest : Ends(n, sSend'.tid) \/ Refuses(n) \/ Completes(n, sSend'.tid)
    BY <1>1, <1>2 DEF SendTaskOwed, Moved
  <2> QED BY <1>3, <2>1, <2>2, <2>3, <2>4, <2>5 DEF SendTaskOwed, rest
<1>11. TransfersHeld'
  <2> SUFFICES ASSUME ~orphaned', NEW t \in Transfers, xfer[t].state # "over", xfer[t].from = Sender
               PROVE  \/ sSend'.tid = t
                      \/ \E n \in rest : GivesTid(n, t)
                      \/ \E f \in Frames(Sender) : f.type = "CANCEL" /\ f.tid = t
    BY <1>3 DEF TransfersHeld, rest
  <2>1. ~orphaned /\ ~Misses(m) /\ t \in Tid
    BY DEF Transfers
  <2>2. CASE sSend.tid = t
    <3>1. ~Ends(m, t) /\ ~Completes(m, t)
      BY <1>1, <1>2, <2>1 DEF SenderMessages
    <3>2. ~(m.type = "ERROR" /\ m.code = 200 /\ m.about = 0) /\ ~(m.type = "ERROR" /\ m.code = 300 /\ m.about = t)
      BY <1>1, <1>2, <2>1 DEF SenderMessages, Refuses
    <3>3. sSend'.state = "NONE" /\ sSend.state # "NONE" => m.type # "ERROR"
      BY <2>1, <2>2, <3>2 DEF Misses
    <3>4. sSend.state # "PENDING_TID"
      BY <1>2, <1>3, <2>1, <2>2 DEF SendTid
    <3> QED BY <2>2, <3>1, <3>3, <3>4 DEF Moved
  <2>3. ASSUME NEW n \in Messages(Sender), GivesTid(n, t)
        PROVE  sSend'.tid = t \/ \E o \in rest : GivesTid(o, t)
    <3>1. CASE n \in rest
      BY <2>3, <3>1
    <3>2. CASE n = m
      <4>1. IsAnswer(m) /\ m.type # "ERROR"
        BY <1>4, <2>3, <3>2
      <4>2. sSend.state = "PENDING_TID"
        <5>1. 1 \in Answers
          BY <1>1, <4>1 DEF Answers
        <5> QED BY <2>1, <5>1 DEF SenderMoves, Sending, OneAnswer
      <4> QED BY <1>4, <2>1, <2>3, <3>2, <4>1, <4>2 DEF Moved
    <3> QED BY <1>1, <3>1, <3>2
  <2> QED BY <1>2, <2>1, <2>2, <2>3 DEF TransfersHeld
<1> QED BY <1>7, <1>8, <1>9, <1>10, <1>11 DEF SenderEnds

-----------------------------------------------------------------------------
(* How transfers end: the receiver's steps. *)

(* What a step makes of a receive task: it stays as it is, is opened, or is new. *)
Stays(j)  == rRecv[j].busy /\ rRecv'[j].tid = rRecv[j].tid /\ rRecv'[j].open = rRecv[j].open
Starts(j) == /\ rRecv[j].busy /\ ~rRecv[j].open /\ rRecv'[j].tid = rRecv[j].tid /\ rRecv'[j].open
             /\ \E f \in rOut' : f.type = "ACCEPT" /\ f.tid = rRecv[j].tid
Begins(j) == /\ ~rRecv'[j].open /\ rRecv'[j].tid \notin rKnown
             /\ \/ xfer[rRecv'[j].tid].state = "pending"
                \/ /\ xfer[rRecv'[j].tid].state = "over"
                   /\ \E m \in Messages(Receiver)' : Closes(m, rRecv'[j].tid)

ReceiverMove ==
  /\ rKnown \subseteq rKnown'
  /\ \A j \in Slots : rRecv'[j].busy => Stays(j) \/ Starts(j) \/ Begins(j)
  /\ \A f \in rOut' :
       /\ f.tid \in rKnown'
       /\ \A j \in Slots : rRecv'[j].busy /\ rRecv'[j].tid = f.tid => f.type = "ACCEPT" /\ rRecv'[j].open

(* The messages that are gone ended no task that is still there. *)
NoneClosed ==
  \A m \in Messages(Receiver) : m \in Messages(Receiver)' \/
    \A j \in Slots : rRecv'[j].busy => ~Closes(m, rRecv'[j].tid)

LEMMA MoveKeepsEnds ==
  ASSUME ReceiverFrames, ReceiverTasks, ReceiverMove, NoneClosed, xfer' = xfer,
         Frames(Receiver)' = Frames(Receiver) \cup rOut'
  PROVE  ReceiverFrames' /\ ReceiverTasks'
<1>1. \A f \in Frames(Receiver) : f.tid \in rKnown /\
        \A j \in Slots : rRecv[j].busy /\ rRecv[j].tid = f.tid => f.type = "ACCEPT" /\ rRecv[j].open
  BY DEF ReceiverFrames, RecvTasks, Slots
<1>2. /\ rKnown \subseteq rKnown'
      /\ \A j \in Slots : rRecv'[j].busy => Stays(j) \/ Starts(j) \/ Begins(j)
      /\ \A f \in rOut' : f.tid \in rKnown' /\
           \A j \in Slots : rRecv'[j].busy /\ rRecv'[j].tid = f.tid => f.type = "ACCEPT" /\ rRecv'[j].open
  BY DEF ReceiverMove
<1>3. ReceiverFrames'
  <2>1. ASSUME NEW f \in Frames(Receiver), NEW j \in Slots, rRecv'[j].busy, rRecv'[j].tid = f.tid
        PROVE  f.type = "ACCEPT" /\ rRecv'[j].open
    BY <1>1, <1>2, <2>1 DEF Stays, Starts, Begins
  <2>2. \A f \in Frames(Receiver)' : f.tid \in rKnown' /\
          \A j \in Slots : rRecv'[j].busy /\ rRecv'[j].tid = f.tid => f.type = "ACCEPT" /\ rRecv'[j].open
    BY <1>1, <1>2, <2>1
  <2> QED BY <2>2 DEF ReceiverFrames, RecvTasks, Slots
<1>4. ReceiverTasks'
  <2> SUFFICES ASSUME NEW j \in Slots, rRecv'[j].busy
               PROVE  \/ /\ xfer[rRecv'[j].tid].state = "pending"
                         /\ rRecv'[j].open =>
                              \E f \in Frames(Receiver)' : f.type = "ACCEPT" /\ f.tid = rRecv'[j].tid
                      \/ xfer[rRecv'[j].tid].state = "active" /\ rRecv'[j].open
                      \/ /\ xfer[rRecv'[j].tid].state = "over"
                         /\ \E m \in Messages(Receiver)' : Closes(m, rRecv'[j].tid)
    BY DEF ReceiverTasks, Closing, Slots
  <2>1. rRecv[j].busy =>
          \/ /\ xfer[rRecv[j].tid].state = "pending"
             /\ rRecv[j].open => \E f \in Frames(Receiver) : f.type = "ACCEPT" /\ f.tid = rRecv[j].tid
          \/ xfer[rRecv[j].tid].state = "active" /\ rRecv[j].open
          \/ /\ xfer[rRecv[j].tid].state = "over"
             /\ \E m \in Messages(Receiver) : Closes(m, rRecv[j].tid)
    BY DEF ReceiverTasks, Closing, Slots
  <2>2. \A m \in Messages(Receiver) : Closes(m, rRecv'[j].tid) => m \in Messages(Receiver)'
    BY DEF NoneClosed
  <2>3. CASE Stays(j)
    BY <2>1, <2>2, <2>3 DEF Stays
  <2>4. CASE Starts(j)
    BY <2>1, <2>2, <2>4 DEF Starts
  <2>5. CASE Begins(j)
    BY <2>5 DEF Begins
  <2> QED BY <1>2, <2>3, <2>4, <2>5
<1> QED BY <1>3, <1>4

(* One task is freed, and what is sent is about it. *)
LEMMA FreedMoves ==
  ASSUME ReceiverInv, KnownTransfers, NEW i \in Slots, rRecv[i].busy, rKnown' = rKnown,
         rRecv' = [rRecv EXCEPT ![i] = R!FreeTask],
         \A f \in rOut' : f.tid = rRecv[i].tid
  PROVE  ReceiverMove /\ \A j \in Slots : rRecv'[j].busy => rRecv'[j].tid # rRecv[i].tid
<1>1. DOMAIN rRecv = Slots
  BY TaskFacts
<1>2. ~rRecv'[i].busy /\ \A j \in Slots : j # i => rRecv'[j] = rRecv[j]
  BY <1>1 DEF R!FreeTask
<1>3. /\ rRecv[i].tid \in rKnown
      /\ \A j \in Slots : rRecv[j].busy /\ rRecv[j].tid = rRecv[i].tid => j = i
  BY DEF KnownTransfers, Slots
<1> QED BY <1>2, <1>3 DEF ReceiverMove, Stays

(* The tasks are the same. *)
LEMMA SameMoves ==
  ASSUME \A j \in Slots : Stays(j) \/ ~rRecv'[j].busy, rKnown' = rKnown, rOut' = {} PROVE ReceiverMove
BY DEF ReceiverMove

LEMMA CommandMoves ==
  ASSUME ReceiverInv, KnownTransfers, NEW i \in Slots, Drops(i) \/ Opens(i)
  PROVE  ReceiverMove /\ (Drops(i) => \A j \in Slots : rRecv'[j].busy => rRecv'[j].tid # rRecv[i].tid)
<1>1. DOMAIN rRecv = Slots
  BY TaskFacts
<1>2. CASE Drops(i)
  BY <1>2, FreedMoves DEF Drops, R!RecvClear
<1>3. CASE Opens(i)
  <2>1. /\ rRecv[i].busy /\ ~rRecv[i].open /\ rKnown' = rKnown
        /\ \A f \in rOut' : f.type = "ACCEPT" /\ f.tid = rRecv[i].tid
        /\ [type |-> "ACCEPT", tid |-> rRecv[i].tid] \in rOut'
    BY <1>3, SlotsAre DEF Opens, R!RecvActive
  <2>2. /\ \A j \in Slots : j # i => rRecv'[j] = rRecv[j]
        /\ rRecv'[i].open /\ rRecv'[i].tid = rRecv[i].tid
    <3>1. PICK name \in Name : rRecv' = [rRecv EXCEPT ![i].open = TRUE, ![i].name = name]
      BY <1>3 DEF Opens
    <3>2. rRecv \in [Slots -> RP!Task]
      BY TaskFacts
    <3> QED BY <3>1, <3>2 DEF RP!Task
  <2>3. /\ rRecv[i].tid \in rKnown
        /\ \A j \in Slots : rRecv[j].busy /\ rRecv[j].tid = rRecv[i].tid => j = i
    BY <2>1 DEF KnownTransfers, Slots
  <2>4. Starts(i)
    BY <2>1, <2>2 DEF Starts
  <2>5. ReceiverMove
    BY <2>1, <2>2, <2>3, <2>4 DEF ReceiverMove, Stays
  <2>6. ~Drops(i)
    <3>1. Drops(i) => rRecv'[i] = R!FreeTask
      BY <1>1 DEF Drops, R!RecvClear
    <3> QED BY <2>2, <3>1 DEF R!FreeTask
  <2> QED BY <2>5, <2>6
<1> QED BY <1>2, <1>3

(* The user's commands. *)
LEMMA CommandKeepsEnds ==
  ASSUME ReceiverInv, Receipt, ReceiverEnds, NEW i \in Slots, Drops(i) \/ Opens(i),
         UNCHANGED <<down, xfer>>, Frames(Receiver)' = Frames(Receiver) \cup rOut'
  PROVE  ReceiverEnds'
<1>1. ReceiverMove
  BY CommandMoves DEF Receipt
<1>2. NoneClosed
  BY DEF NoneClosed, Messages, Behind
<1>3. OffersStand'
  BY DEF ReceiverEnds, OffersStand, Offers, OfferAt, IsOffer, Closing, Behind
<1> QED BY <1>1, <1>2, <1>3, MoveKeepsEnds DEF ReceiverEnds

(* CANCEL and COMPLETE leave no task of their transfer. *)
LEMMA ClosesTask ==
  ASSUME ReceiverInv, Roles, KnownTransfers, NEW m \in ToReceiver, m.type \in {"CANCEL", "COMPLETE"}, R!Handle(m)
  PROVE  \A j \in Slots : rRecv'[j].busy => rRecv'[j].tid # m.tid
<1>1. R!HandleFrame(m)
  BY DEF R!Handle
<1>2. \/ R!Cancelled(m.tid) \/ R!FrameComplete(m.tid)
      \/ R!NothingHappens /\ R!RecvFind(m.tid) = {}
  BY <1>1, NothingToSend DEF R!HandleFrame
<1>3. DOMAIN rRecv = Slots
  BY TaskFacts
<1>4. \A i, j \in Slots : rRecv[i].busy /\ rRecv[j].busy /\ rRecv[i].tid = rRecv[j].tid => i = j
  BY DEF KnownTransfers, Slots
<1>5. ASSUME NEW i \in R!RecvFind(m.tid), rRecv' = [rRecv EXCEPT ![i] = R!FreeTask]
      PROVE  \A j \in Slots : rRecv'[j].busy => rRecv'[j].tid # m.tid
  <2>1. i \in Slots /\ rRecv[i].busy /\ rRecv[i].tid = m.tid
    BY FoundTask
  <2>2. ~rRecv'[i].busy /\ \A j \in Slots : j # i => rRecv'[j] = rRecv[j]
    BY <1>3, <1>5, <2>1 DEF R!FreeTask
  <2> QED BY <1>4, <2>1, <2>2
<1>6. CASE R!Cancelled(m.tid)
  <2>1. PICK i \in R!RecvFind(m.tid) : R!RecvClear(i)
    BY <1>6, NothingToSend DEF R!Cancelled
  <2> QED BY <1>5, <2>1 DEF R!RecvClear
<1>7. CASE R!FrameComplete(m.tid)
  <2>1. PICK i \in R!RecvFind(m.tid) : IF rRecv[i].open THEN R!RecvFinish(i) ELSE R!RecvClear(i)
    BY <1>7 DEF R!FrameComplete, R!RecvComplete
  <2> QED BY <1>5, <2>1 DEF R!RecvClear, R!RecvFinish
<1>8. CASE R!NothingHappens /\ R!RecvFind(m.tid) = {}
  <2>1. rRecv' = rRecv
    BY <1>8 DEF R!NothingHappens, R!taskVars
  <2>2. ASSUME NEW j \in Slots, rRecv[j].busy, rRecv[j].tid = m.tid PROVE j \in R!RecvFind(m.tid)
    BY <1>4, <2>2, SlotsAre DEF R!RecvFind, R!Lowest, Slots
  <2> QED BY <1>8, <2>1, <2>2
<1> QED BY <1>2, <1>6, <1>7, <1>8

LEMMA HandledMoves ==
  ASSUME NEW m, HandlingReceipt(m), OffersStand, Messages(Receiver)' = Behind(Receiver, 1)
  PROVE  ReceiverMove
<1> USE DEF HandlingReceipt
<1>0. m = down[Receiver][1] /\ Len(down[Receiver]) \in Nat \ {0} /\ KnownTransfers
  BY ReceiverQueue, Tailed DEF Receipt
<1>r. rRecv \in [Slots -> RP!Task]
  BY TaskFacts
<1>1. ASSUME IsOffer(m), m.type = "SERVER_MSG", Meets(m.text.digits[1]) PROVE ReceiverMove
  <2> DEFINE t == m.text.digits[1]
  <2>1. 1 \in Offers
    BY <1>0, <1>1 DEF Offers
  <2>2. t \in Transfers \ rKnown
    BY <1>0, <2>1 DEF Receipt, OfferedOnce, OfferAt
  <2>3. \/ xfer[t].state = "pending"
        \/ xfer[t].state = "over" /\ \E n \in Messages(Receiver)' : Closes(n, t)
    BY <1>0, <2>1 DEF OffersStand, OfferAt, Closing
  <2>4. \A j \in Slots : rRecv[j].busy => rRecv[j].tid \in rKnown
    BY <1>0 DEF KnownTransfers, Slots
  <2>5. rKnown' = rKnown \cup {t} /\ \A f \in rOut' : f.tid = t
    BY <1>1 DEF Meets
  <2> HIDE DEF t
  <2>6. CASE rRecv' = rRecv
    BY <2>2, <2>4, <2>5, <2>6 DEF ReceiverMove, Stays
  <2>7. ASSUME rOut' = {}, NEW i \in Slots, NEW seq \in Nat, ~rRecv[i].busy,
               rRecv' = [rRecv EXCEPT ![i] = [R!FreeTask EXCEPT !.busy = TRUE, !.tid = t, !.seq = seq]]
        PROVE  ReceiverMove
    <3>1. /\ \A j \in Slots : j # i => rRecv'[j] = rRecv[j]
          /\ rRecv'[i].tid = t /\ ~rRecv'[i].open
      BY <1>r, <2>7 DEF R!FreeTask
    <3>2. Begins(i)
      BY <2>2, <2>3, <3>1 DEF Begins
    <3> QED BY <2>5, <2>7, <3>1, <3>2 DEF ReceiverMove, Stays
  <2> QED BY <1>1, <2>6, <2>7 DEF Meets, t
<1>2. ASSUME NEW i \in Slots, Learns(i, m) PROVE ReceiverMove
  <2>1. rRecv' = [rRecv EXCEPT ![i].inited = TRUE, ![i].file = m.file, ![i].size = m.size]
    BY <1>2 DEF Learns
  <2>2. \A j \in Slots : /\ rRecv'[j].busy = rRecv[j].busy /\ rRecv'[j].tid = rRecv[j].tid
                         /\ rRecv'[j].open = rRecv[j].open
    BY <1>r, <2>1 DEF RP!Task
  <2> QED BY <1>2, <2>2, SameMoves DEF Learns, Stays
<1>3. ASSUME Same PROVE ReceiverMove
  BY <1>3, SameMoves DEF Same, Stays
<1>4. ASSUME NEW i \in Slots, Drops(i) PROVE ReceiverMove
  BY <1>0, <1>4, CommandMoves
<1>5. ASSUME NEW i \in Slots, Stores(i, m) PROVE ReceiverMove
  <2>1. \E bytes : rRecv' = [rRecv EXCEPT ![i].marked = @ \cup {m.offset},
                              ![i].received = @ + m.len, ![i].buffered = bytes]
    BY <1>5 DEF Stores, R!StoreSpan
  <2>2. \A j \in Slots : /\ rRecv'[j].busy = rRecv[j].busy /\ rRecv'[j].tid = rRecv[j].tid
                         /\ rRecv'[j].open = rRecv[j].open
    BY <1>r, <2>1 DEF RP!Task
  <2> QED BY <1>5, <2>2, SameMoves DEF Stores, Stays
<1>6. ASSUME NEW i \in Slots, Keeps(i) PROVE ReceiverMove
  BY <1>0, <1>6, FreedMoves DEF Keeps
<1> QED BY <1>1, <1>2, <1>3, <1>4, <1>5, <1>6 DEF Taken

(* It takes a message. *)
LEMMA TakingKeepsEnds ==
  ASSUME NEW m, HandlingReceipt(m), R!Handle(m), Roles, ReceiverEnds,
         down'[Receiver] = Tail(down[Receiver]), Frames(Receiver)' = Frames(Receiver) \cup rOut'
  PROVE  ReceiverEnds'
<1> USE DEF HandlingReceipt
<1>1. /\ m = down[Receiver][1] /\ Messages(Receiver)' = Behind(Receiver, 1)
      /\ Messages(Receiver) = {m} \cup Messages(Receiver)'
      /\ \A k \in 1..Len(down'[Receiver]) : /\ k + 1 \in 1..Len(down[Receiver])
                                            /\ down'[Receiver][k] = down[Receiver][k+1]
                                            /\ Behind(Receiver, k)' = Behind(Receiver, k+1)
  <2>1. down[Receiver] \in Seq(ToReceiver)
    BY DEF MessagesTyped
  <2> QED BY <2>1, TakesFirst
<1>2. ReceiverMove
  BY <1>1, HandledMoves DEF ReceiverEnds
<1>3. NoneClosed
  <2>1. \A j \in Slots : rRecv'[j].busy => ~Closes(m, rRecv'[j].tid)
    BY ClosesTask DEF Closes, Receipt
  <2> QED BY <1>1, <2>1 DEF NoneClosed
<1>4. OffersStand'
  <2>1. \A k \in Offers' : /\ k + 1 \in Offers /\ OfferAt(k)' = OfferAt(k+1)
                           /\ Behind(Receiver, k)' = Behind(Receiver, k+1)
    BY <1>1 DEF Offers, OfferAt, IsOffer
  <2>2. \A k \in Offers' : \/ xfer[OfferAt(k+1)].state = "pending"
                           \/ Closing(OfferAt(k+1), Behind(Receiver, k+1))
    BY <2>1 DEF ReceiverEnds, OffersStand
  <2>3. \A k \in Offers' : \/ xfer'[OfferAt(k)'].state = "pending"
                           \/ /\ xfer'[OfferAt(k)'].state = "over"
                              /\ \E n \in Behind(Receiver, k)' : Closes(n, OfferAt(k)')
    BY <2>1, <2>2 DEF Closing
  <2> QED BY <2>3 DEF OffersStand, Closing, Closes
<1> QED BY <1>2, <1>3, <1>4, MoveKeepsEnds DEF ReceiverEnds

-----------------------------------------------------------------------------
(* How transfers end: what the server tells the sender. *)

(* No file is called like the answer to an offer (Announcement!Masks). *)
FilesUnmasked == \A file \in Offered : "accepted by" \notin PhrasesIn[file]

LEMMA KindsRead ==
  ASSUME NEW phrases
  PROVE  /\ "Waiting for acceptance" \in phrases => S!Classified(phrases) = "SEND_PENDING"
         /\ "Waiting for acceptance" \notin phrases /\ "accepted by" \in phrases
              => S!Classified(phrases) = "ACCEPTED"
         /\ "Waiting for acceptance" \notin phrases /\ "accepted by" \notin phrases
            /\ "complete" \in phrases
              => S!Classified(phrases) \in {"REJECTED", "COMPLETE"}
<1>0. S!Classified(phrases) = AP!Classified(phrases)
  BY TextsAgree, Zenon
<1> DEFINE kind == S!Classified(phrases)
<1>o. /\ AP!SearchOrder[1] = "Waiting for acceptance" /\ AP!SearchOrder[2] = "accepted by"
      /\ AP!SearchOrder[4] = "complete"
  BY AP!TheOrder
<1>m. /\ AP!Meaning(AP!SearchOrder[1]) = "SEND_PENDING" /\ AP!Meaning(AP!SearchOrder[2]) = "ACCEPTED"
      /\ AP!Meaning(AP!SearchOrder[3]) = "REJECTED" /\ AP!Meaning(AP!SearchOrder[4]) = "COMPLETE"
  BY AP!TheMeanings
<1>1. ASSUME NEW k \in 1..6, AP!SearchOrder[k] \in phrases,
             \A j \in 1..k-1 : AP!SearchOrder[j] \notin phrases
      PROVE  kind = AP!Meaning(AP!SearchOrder[k])
  <2>1. AP!FirstFound(phrases) = {k}
    BY <1>1, AP!FirstIsFound
  <2> QED BY <1>0, <2>1 DEF AP!Classified
<1> HIDE DEF kind
<1>2. AP!SearchOrder[1] \in phrases => kind = "SEND_PENDING"
  <2>1. 1 \in 1..6 /\ 1..1-1 = {}
    OBVIOUS
  <2> QED BY <1>1, <1>m, <2>1
<1>3. AP!SearchOrder[1] \notin phrases /\ AP!SearchOrder[2] \in phrases => kind = "ACCEPTED"
  <2>1. 2 \in 1..6 /\ 1..2-1 = {1}
    OBVIOUS
  <2> QED BY <1>1, <1>m, <2>1
<1>4. /\ AP!SearchOrder[1] \notin phrases /\ AP!SearchOrder[2] \notin phrases
      /\ AP!SearchOrder[4] \in phrases
      => kind \in {"REJECTED", "COMPLETE"}
  <2>1. 3 \in 1..6 /\ 1..3-1 = {1, 2} /\ 4 \in 1..6 /\ 1..4-1 = {1, 2, 3}
    OBVIOUS
  <2> QED BY <1>1, <1>m, <2>1
<1>6. "Waiting for acceptance" \in phrases => S!Classified(phrases) = "SEND_PENDING"
  BY <1>o, <1>2, Zenon DEF kind
<1>7. "Waiting for acceptance" \notin phrases /\ "accepted by" \in phrases
        => S!Classified(phrases) = "ACCEPTED"
  BY <1>o, <1>3, Zenon DEF kind
<1>8. "Waiting for acceptance" \notin phrases /\ "accepted by" \notin phrases /\ "complete" \in phrases
        => S!Classified(phrases) \in {"REJECTED", "COMPLETE"}
  BY <1>o, <1>4, Zenon DEF kind
<1> QED BY <1>6, <1>7, <1>8, Zenon

LEMMA PhrasesOf ==
  ASSUME NEW t, NEW file \in Offered
  PROVE  /\ "Waiting for acceptance" \in S!WaitingText(t, file, Receiver).phrases
         /\ "accepted by" \in S!AcceptedText(t, Receiver).phrases
         /\ "complete" \in S!CompleteText(t, file).phrases
         /\ FilesUnmasked => "accepted by" \notin S!CompleteText(t, file).phrases
<1>1. FilesUnmasked => "accepted by" \notin PhrasesIn[file]
  BY DEF FilesUnmasked
<1> QED BY <1>1, Zenon DEF S!WaitingText, S!CompleteText, S!AcceptedText, S!TransferText

(* What each announcement says. *)
Silent(m)  == \A u : ~GivesTid(m, u)
Only(m, t) == \A u : Accepts(m, u) \/ Ends(m, u) \/ Completes(m, u) => u = t
Harmless(m) == ~Refuses(m) /\ ~IsAnswer(m)

LEMMA TextSays ==
  ASSUME NEW t \in Tid, NEW text \in SenderTexts, HasParts(text, t, PlainHead), ~Waiting(text)
  PROVE  /\ Announce(text) \in ToSender /\ Silent(Announce(text)) /\ Only(Announce(text), t)
         /\ Harmless(Announce(text))
         /\ S!Classified(text.phrases) = "ACCEPTED" =>
              \A u : ~Ends(Announce(text), u) /\ ~Completes(Announce(text), u)
         /\ S!Classified(text.phrases) = "REJECTED" => Ends(Announce(text), t)
         /\ S!Classified(text.phrases) = "COMPLETE" => Completes(Announce(text), t)
<1> DEFINE m == Announce(text)
           kind == S!Classified(text.phrases)
<1>1. m.type = "SERVER_MSG" /\ m.text = text /\ m \in ToSender
  BY DEF Announce, ToSender
<1>2. text.digits[1] = t
  BY ReadTid
<1>3. kind # "SEND_PENDING" /\ ~IsAnswer(m)
  BY <1>1, SenderText, AnswerKinds
<1>4. /\ Means(m, kind = "SEND_PENDING", kind = "ACCEPTED",
               kind \in {"REJECTED", "CANCELLED", "CANCELLED_DISC"}, kind = "COMPLETE", t)
      /\ ~Refuses(m)
  BY <1>1, <1>2, TextMeans
<1> HIDE DEF m, kind
<1>5. /\ Silent(m) /\ Only(m, t) /\ Harmless(m)
      /\ kind = "ACCEPTED" => \A u : ~Ends(m, u) /\ ~Completes(m, u)
      /\ kind = "REJECTED" => Ends(m, t)
      /\ kind = "COMPLETE" => Completes(m, t)
  BY <1>3, <1>4 DEF Means, Silent, Only, Harmless
<1> QED BY <1>1, <1>5 DEF m, kind

LEMMA AnnouncementsSay ==
  ASSUME NEW t \in Tid, NEW file \in Offered
  PROVE  /\ \A text \in {S!AcceptedText(t, Receiver), S!RejectedText(t, Receiver),
                         S!CancelledText(t, Receiver), S!CompleteText(t, file)} :
              LET m == Announce(text)
              IN  m \in ToSender /\ Silent(m) /\ Only(m, t) /\ Harmless(m)
         /\ \A u : /\ ~Ends(Announce(S!AcceptedText(t, Receiver)), u)
                   /\ ~Completes(Announce(S!AcceptedText(t, Receiver)), u)
         /\ FilesUnmasked => LET m == Announce(S!CompleteText(t, file))
                             IN  Ends(m, t) \/ Completes(m, t)
<1>1. file \in File
  BY InitParts
<1>2. /\ ~Waiting(S!CompleteText(t, file)) /\ ~Waiting(S!AcceptedText(t, Receiver))
      /\ ~Waiting(S!RejectedText(t, Receiver)) /\ ~Waiting(S!CancelledText(t, Receiver))
  BY <1>1, TextPhrases
<1>3. {S!AcceptedText(t, Receiver), S!RejectedText(t, Receiver), S!CancelledText(t, Receiver),
       S!CompleteText(t, file)} \subseteq SenderTexts
  BY DEF SenderTexts
<1>4. /\ HasParts(S!AcceptedText(t, Receiver), t, PlainHead)
      /\ HasParts(S!RejectedText(t, Receiver), t, PlainHead)
      /\ HasParts(S!CancelledText(t, Receiver), t, PlainHead)
      /\ HasParts(S!CompleteText(t, file), t, PlainHead)
  BY TextParts, Zenon DEF PlainHead
<1>5. S!Classified(S!AcceptedText(t, Receiver).phrases) = "ACCEPTED"
  BY <1>2, PhrasesOf, KindsRead DEF Waiting
<1>6. FilesUnmasked => S!Classified(S!CompleteText(t, file).phrases) \in {"REJECTED", "COMPLETE"}
  BY <1>2, PhrasesOf, KindsRead DEF Waiting
<1>7. \A text \in {S!AcceptedText(t, Receiver), S!RejectedText(t, Receiver),
                         S!CancelledText(t, Receiver), S!CompleteText(t, file)} :
        LET m == Announce(text)
        IN  m \in ToSender /\ Silent(m) /\ Only(m, t) /\ Harmless(m)
  BY <1>2, <1>3, <1>4, TextSays
<1>8. \A u : /\ ~Ends(Announce(S!AcceptedText(t, Receiver)), u)
             /\ ~Completes(Announce(S!AcceptedText(t, Receiver)), u)
  BY <1>2, <1>3, <1>4, <1>5, TextSays
<1>9. FilesUnmasked => LET m == Announce(S!CompleteText(t, file)) IN Ends(m, t) \/ Completes(m, t)
  BY <1>2, <1>3, <1>4, <1>6, TextSays
<1> QED BY <1>7, <1>8, <1>9

LEMMA WaitingSays ==
  ASSUME NEW t \in Tid, NEW file \in SendFiles
  PROVE  LET m == Announce(S!WaitingText(t, file, Receiver))
         IN  /\ m \in ToSender /\ m.type = "SERVER_MSG" /\ ~Refuses(m)
             /\ \A u : /\ GivesTid(m, u) <=> u = t
                       /\ ~Accepts(m, u) /\ ~Ends(m, u) /\ ~Completes(m, u)
<1> DEFINE text == S!WaitingText(t, file, Receiver)
           m == Announce(text)
           kind == S!Classified(text.phrases)
<1>1. m \in ToSender /\ m.type = "SERVER_MSG" /\ m.text = text /\ text \in SenderTexts
      /\ m.text.digits[1] = t
  BY AnswerMessages DEF Announce, SenderTexts
<1>2. kind = "SEND_PENDING"
  BY PhrasesOf, KindsRead DEF Offered
<1>3. /\ Means(m, kind = "SEND_PENDING", kind = "ACCEPTED",
               kind \in {"REJECTED", "CANCELLED", "CANCELLED_DISC"}, kind = "COMPLETE", t)
      /\ ~Refuses(m)
  BY <1>1, TextMeans
<1> HIDE DEF m, kind
<1>4. \A u : /\ GivesTid(m, u) <=> u = t
             /\ ~Accepts(m, u) /\ ~Ends(m, u) /\ ~Completes(m, u)
  BY <1>2, <1>3 DEF Means
<1> QED BY <1>1, <1>3, <1>4 DEF m

LEMMA FramesSay ==
  ASSUME NEW t \in Tid, NEW kind \in {"ACCEPT", "REJECT", "CANCEL"}
  PROVE  LET m == [type |-> kind, tid |-> t]
         IN  /\ m \in ToSender /\ Silent(m) /\ Only(m, t) /\ Harmless(m)
             /\ \A u : ~Completes(m, u)
             /\ IF kind = "ACCEPT" THEN Accepts(m, t) /\ \A u : ~Ends(m, u) ELSE Ends(m, t)
<1> DEFINE m == [type |-> kind, tid |-> t]
<1>1. m.type = kind /\ m.tid = t /\ m \in ToSender
  BY DEF ToSender
<1> HIDE DEF m
<1>2. /\ Means(m, FALSE, m.type = "ACCEPT", m.type \in {"REJECT", "CANCEL"}, FALSE, m.tid)
      /\ ~Refuses(m) /\ ~IsAnswer(m)
  <2>1. m.type \in {"ACCEPT", "REJECT", "CANCEL"}
    BY <1>1
  <2> QED BY <2>1, FrameMeans DEF Means
<1>3. /\ Silent(m) /\ Only(m, t) /\ Harmless(m) /\ \A u : ~Completes(m, u)
      /\ IF kind = "ACCEPT" THEN Accepts(m, t) /\ \A u : ~Ends(m, u) ELSE Ends(m, t)
  BY <1>1, <1>2 DEF Means, Silent, Only, Harmless
<1> QED BY <1>1, <1>3 DEF m

LEMMA ErrorsSay ==
  ASSUME NEW t \in Tid
  PROVE  /\ LET m == Error(300, t)
            IN  m \in ToSender /\ Refuses(m) /\ m.about = t /\ ~IsAnswer(m) /\ Silent(m)
                /\ \A u : ~Accepts(m, u) /\ ~Ends(m, u) /\ ~Completes(m, u)
         /\ LET m == Error(200, 1)
            IN  m \in ToSender /\ Harmless(m) /\ Silent(m)
                /\ \A u : ~Accepts(m, u) /\ ~Ends(m, u) /\ ~Completes(m, u)
<1>1. /\ Error(300, t).type = "ERROR" /\ Error(300, t).code = 300 /\ Error(300, t).about = t
      /\ Error(200, 1).type = "ERROR" /\ Error(200, 1).code = 200 /\ Error(200, 1).about = 1
      /\ Error(300, t) \in ToSender /\ Error(200, 1) \in ToSender
  BY DEF Error, ToSender
<1>2. Refuses(Error(300, t)) /\ ~Refuses(Error(200, 1)) /\ ~IsAnswer(Error(300, t)) /\ ~IsAnswer(Error(200, 1))
  BY <1>1, AnswerKinds DEF Refuses
<1> QED BY <1>1, <1>2, ErrorMeans DEF Silent, Harmless

-----------------------------------------------------------------------------
(* How transfers end: the server's steps, in the terms that matter to it. *)

(* Messages are added to a queue. *)
Grows(c) ==
  /\ Messages(c)' = Messages(c) \cup News(c)
  /\ \A k \in 1..Len(down[c]) : /\ k \in 1..Len(down'[c]) /\ down'[c][k] = down[c][k]
                                /\ Behind(c, k)' = Behind(c, k) \cup News(c)
  /\ \A k \in 1..Len(down'[c]) : k \notin 1..Len(down[c]) => down'[c][k] \in News(c)

(* There is one at most. *)
Alone(c) == \A k \in 1..Len(down'[c]) : k \notin 1..Len(down[c]) => Behind(c, k)' = {}

Elements(s) == {s[k] : k \in 1..Len(s)}

LEMMA FewElements ==
  /\ Elements(<<>>) = {}
  /\ \A x : Elements(<<x>>) = {x} /\ Len(<<x>>) = 1
  /\ \A x, y : Elements(<<x, y>>) = {x, y}
<1>1. \A x : Elements(<<x>>) = {x} /\ Len(<<x>>) = 1
  <2> TAKE x
  <2>1. Len(<<x>>) = 1 /\ 1..1 = {1} /\ <<x>>[1] = x
    OBVIOUS
  <2> QED BY <2>1 DEF Elements
<1>2. \A x, y : Elements(<<x, y>>) = {x, y}
  <2> TAKE x, y
  <2>1. Len(<<x, y>>) = 2 /\ 1..2 = {1, 2} /\ <<x, y>>[1] = x /\ <<x, y>>[2] = y
    OBVIOUS
  <2> QED BY <2>1 DEF Elements
<1>3. Elements(<<>>) = {}
  BY DEF Elements
<1> QED BY <1>1, <1>2, <1>3

LEMMA GrowsBy ==
  ASSUME NEW c, NEW M, down[c] \in Seq(M), NEW more \in Seq(M), down'[c] = down[c] \o more
  PROVE  Grows(c) /\ News(c) = Elements(more) /\ (Len(more) = 1 => Alone(c))
<1>1. Added(c, more) /\ Len(down[c]) \in Nat
  BY Adds
<1>2. Grows(c) /\ News(c) = Elements(more)
  BY <1>1 DEF Grows, Elements, Added
<1>3. ASSUME Len(more) = 1, NEW k \in 1..Len(down'[c]), k \notin 1..Len(down[c]) PROVE Behind(c, k)' = {}
  <2>1. /\ k - Len(down[c]) \in 1..1
        /\ Behind(c, k)' = {more[l] : l \in k - Len(down[c]) + 1..1}
    BY <1>1, <1>3 DEF Added
  <2>2. k \in Int
    BY <1>3
  <2> DEFINE p == k - Len(down[c])
  <2>3. p = 1
    BY <1>1, <2>1, <2>2
  <2> HIDE DEF p
  <2>4. p + 1..1 = {}
    BY <2>3
  <2> QED BY <2>1, <2>4 DEF p
<1> QED BY <1>2, <1>3 DEF Alone

LEMMA ToldTogether ==
  ASSUME Together, MessagesTyped, NEW a \in Seq(ToSender), NEW b \in Seq(ToReceiver), Tell(a, b)
  PROVE  /\ Grows(Sender) /\ News(Sender) = Elements(a) /\ (Len(a) = 1 => Alone(Sender))
         /\ Grows(Receiver) /\ News(Receiver) = Elements(b)
<1>1. down'[Sender] = down[Sender] \o a /\ down'[Receiver] = down[Receiver] \o b
  BY RelayAssumption DEF Tell, Together
<1>2. down[Sender] \in Seq(ToSender) /\ down[Receiver] \in Seq(ToReceiver)
  BY DEF MessagesTyped
<1> QED BY <1>1, <1>2, GrowsBy

(* Nothing is added. *)
LEMMA NothingTold ==
  ASSUME MessagesTyped, NEW c \in {Sender, Receiver}, down'[c] = down[c]
  PROVE  Grows(c) /\ News(c) = {}
<1>1. Len(down[c]) \in Nat
  BY SenderQueue, ReceiverQueue
<1>2. Len(down[c])+1..Len(down[c]) = {}
  BY <1>1
<1>3. News(c) = {}
  BY <1>2 DEF News
<1> QED BY <1>3 DEF Grows, Messages, Behind

(* A transfer goes on, or does not. *)
Passes(t) ==
  \/ xfer'[t] = xfer[t]
  \/ xfer[t].state = "none" /\ xfer'[t].state = "pending"
  \/ /\ xfer[t].state = "pending" /\ xfer'[t].state = "active" /\ xfer'[t].from = xfer[t].from
     /\ xfer[t].from = Sender => \E m \in News(Sender) : Accepts(m, t)
     /\ \E f \in Frames(Receiver) : f.type = "ACCEPT" /\ f.tid = t
  \/ /\ xfer[t].state \in {"pending", "active"} /\ xfer'[t].state = "over" /\ xfer'[t].from = xfer[t].from
     /\ xfer[t].from = Sender =>
          \/ \E m \in News(Sender) : Ends(m, t) \/ Refuses(m)
          \/ \E f \in Frames(Sender) : f.type \in {"CANCEL", "COMPLETE"} /\ f.tid = t
     /\ \/ \E m \in News(Receiver) : Closes(m, t)
        \/ \E f \in Frames(Receiver) : f.type # "ACCEPT" /\ f.tid = t

(* What the sender is told is so, and a tid comes alone. *)
ToldSo ==
  \A m \in News(Sender) :
    /\ ~(m.type = "ERROR" /\ m.code = 200 /\ m.about = 0)
    /\ Refuses(m) => xfer'[m.about].state = "over"
    /\ \A t \in Tid :
         /\ Accepts(m, t) => xfer'[t].state \in {"active", "over"}
         /\ Ends(m, t) \/ Completes(m, t) => xfer'[t].state = "over"
         /\ GivesTid(m, t) => /\ xfer[t].state = "none" /\ xfer'[t].state = "pending"
                              /\ xfer'[t].from = Sender /\ Alone(Sender)

NumbersTold ==
  \A t \in Tid : xfer[t].state = "none" /\ xfer'[t].state # "none" /\ xfer'[t].from = Sender =>
    \E m \in News(Sender) : GivesTid(m, t)

(* A frame that was taken has had its effect. *)
FramesServed ==
  /\ Frames(Sender)' \subseteq Frames(Sender) /\ Frames(Receiver)' \subseteq Frames(Receiver)
  /\ \A f \in Frames(Sender) \ Frames(Sender)' :
       /\ f.type = "INIT" => \E m \in News(Sender), t \in Tid : GivesTid(m, t)
       /\ f.type = "CANCEL" /\ f.tid \in Transfers => xfer'[f.tid].state = "over"
       /\ f.type = "COMPLETE" =>
            \E m \in News(Sender) : Refuses(m) \/ Ends(m, f.tid) \/ Completes(m, f.tid)
  /\ \A f \in Frames(Receiver) \ Frames(Receiver)' :
       f.type = "ACCEPT" => xfer'[f.tid].state # "pending"

OffersNew == \A m \in News(Receiver) : IsOffer(m) => xfer'[m.text.digits[1]].state = "pending"

ServerNews ==
  /\ Grows(Sender) /\ Grows(Receiver) /\ (\A t \in Tid : Passes(t))
  /\ ToldSo /\ NumbersTold /\ FramesServed /\ OffersNew

ClientsStay == UNCHANGED <<sPhase, sSend, orphaned, rPhase, rRecv, rKnown>>

LEMMA OldGiven ==
  ASSUME TidsToCome, NEW m \in Messages(Sender), NEW t \in Tid, GivesTid(m, t)
  PROVE  t \in Transfers /\ xfer[t].from = Sender /\ sSend.tid # t
<1>1. PICK k \in 1..Len(down[Sender]) : m = down[Sender][k]
  BY MessageAt
<1> QED BY <1>1 DEF TidsToCome, Due, Ending, Transfers

LEMMA StatesPass ==
  ASSUME \A t \in Tid : Passes(t), xfer \in XferType
  PROVE  /\ \A t \in Tid : xfer[t].state = "over" => xfer'[t].state = "over"
         /\ \A t \in Tid : xfer[t].state = "active" => xfer'[t].state \in {"active", "over"}
         /\ \A t \in Transfers : t \in Transfers' /\ xfer'[t].from = xfer[t].from
BY DEF Passes, Transfers, XferType

(* What is due stays due. *)
LEMMA DueStays ==
  ASSUME SenderFrames, \A t \in Tid : Passes(t), NEW t \in Tid, xfer[t].from = Sender,
         NEW M, Due(t, M),
         \A f \in Frames(Sender) : f.tid = t => f.type \notin {"CANCEL", "COMPLETE"}
  PROVE  \/ xfer'[t].state = "pending"
         \/ xfer'[t].state = "active" /\ \E m \in M \cup News(Sender) : Accepts(m, t)
         \/ xfer'[t].state = "over" /\ \E m \in M \cup News(Sender) : Ends(m, t) \/ Refuses(m)
<1>1. Passes(t)
  OBVIOUS
<1> QED BY <1>1 DEF Passes, Due, Ending

LEMMA NewsKeepsSender ==
  ASSUME ServerNews, SenderEnds, SendTid, ClientsStay, xfer \in XferType, MessagesTyped
  PROVE  SenderEnds'
<1> DEFINE new == News(Sender)
           all == Messages(Sender) \cup new
<1>0. /\ SenderFrames /\ SenderMessages /\ TidsToCome /\ SendTaskOwed /\ TransfersHeld
      /\ sSend' = sSend /\ orphaned' = orphaned
  BY DEF SenderEnds, ClientsStay
<1>1. /\ \A t \in Tid : xfer[t].state = "over" => xfer'[t].state = "over"
      /\ \A t \in Tid : xfer[t].state = "active" => xfer'[t].state \in {"active", "over"}
      /\ \A t \in Transfers : t \in Transfers' /\ xfer'[t].from = xfer[t].from
      /\ Transfers \subseteq Tid
  BY StatesPass DEF ServerNews, Transfers
<1>2. /\ Messages(Sender)' = all
      /\ \A k \in 1..Len(down[Sender]) : /\ k \in 1..Len(down'[Sender]) /\ down'[Sender][k] = down[Sender][k]
                                         /\ Behind(Sender, k)' = Behind(Sender, k) \cup new
      /\ \A k \in 1..Len(down'[Sender]) : k \notin 1..Len(down[Sender]) => down'[Sender][k] \in new
  BY DEF ServerNews, Grows
<1> HIDE DEF new
<1>3. /\ \A m \in new, t \in Tid : GivesTid(m, t) => /\ xfer[t].state = "none" /\ xfer'[t].state = "pending"
                                                      /\ xfer'[t].from = Sender /\ Alone(Sender)
      /\ Frames(Sender)' \subseteq Frames(Sender)
  BY DEF ServerNews, ToldSo, FramesServed, new
<1>4. \A m \in new, t \in Tid : GivesTid(m, t) => t \notin Transfers
  BY <1>3 DEF Transfers
<1>5. SenderFrames'
  <2> SUFFICES ASSUME NEW f \in Frames(Sender)', f.type # "INIT", f.tid \in Tid
               PROVE  /\ f.tid \in Transfers' /\ xfer'[f.tid].from = Sender
                      /\ \A m \in all : ~GivesTid(m, f.tid)
                      /\ f.type \in {"CHUNK", "COMPLETE"} => xfer'[f.tid].state \in {"active", "over"}
                      /\ f.type = "COMPLETE" /\ sSend.tid = f.tid => sSend.state = "WAIT_COMPLETE"
                      /\ f.type = "CANCEL" => sSend.tid # f.tid
    BY <1>0, <1>2 DEF SenderFrames, Going
  <2>1. f \in Frames(Sender)
    BY <1>3
  <2> QED BY <1>0, <1>1, <1>4, <2>1 DEF SenderFrames, Going
<1>6. SenderMessages'
  <2> SUFFICES ASSUME NEW m \in all
               PROVE  /\ ~(m.type = "ERROR" /\ m.code = 200 /\ m.about = 0)
                      /\ Refuses(m) => xfer'[m.about].state = "over"
                      /\ \A t \in Tid : /\ Accepts(m, t) => xfer'[t].state \in {"active", "over"}
                                        /\ Ends(m, t) \/ Completes(m, t) => xfer'[t].state = "over"
    BY <1>2 DEF SenderMessages, Going
  <2>1. CASE m \in new
    BY <2>1 DEF ServerNews, ToldSo, new
  <2>2. CASE m \in Messages(Sender)
    <3>1. Refuses(m) => m.about \in Tid
      <4>1. m \in ToSender
        BY <2>2, MessageAt DEF MessagesTyped
      <4> QED BY <4>1, ToSenderKinds DEF Refuses
    <3> QED BY <1>0, <1>1, <2>2, <3>1 DEF SenderMessages, Going
  <2> QED BY <2>1, <2>2
<1>7. TidsToCome'
  <2> SUFFICES ASSUME NEW k \in 1..Len(down'[Sender]), NEW t \in Tid, GivesTid(down'[Sender][k], t)
               PROVE  (/\ xfer[t].from = Sender /\ Due(t, Behind(Sender, k)) /\ sSend.tid # t
                       /\ \A m \in Behind(Sender, k) : ~GivesTid(m, t))'
    BY DEF TidsToCome
  <2>1. CASE k \in 1..Len(down[Sender])
    <3>1. GivesTid(down[Sender][k], t) /\ down[Sender][k] \in Messages(Sender)
      BY <1>2, <2>1, MessageAt
    <3>2. /\ xfer[t].from = Sender /\ Due(t, Behind(Sender, k)) /\ sSend.tid # t /\ t \in Transfers
          /\ \A m \in Behind(Sender, k) : ~GivesTid(m, t)
      BY <1>0, <2>1, <3>1, OldGiven DEF TidsToCome
    <3>3. \A f \in Frames(Sender) : f.tid = t => f.type \notin {"CANCEL", "COMPLETE"}
      BY <1>0, <3>1 DEF SenderFrames
    <3>4. \/ xfer'[t].state = "pending"
          \/ xfer'[t].state = "active" /\ \E m \in Behind(Sender, k)' : Accepts(m, t)
          \/ xfer'[t].state = "over" /\ \E m \in Behind(Sender, k)' : Ends(m, t) \/ Refuses(m)
      <4>1. Behind(Sender, k)' = Behind(Sender, k) \cup News(Sender)
        BY <1>2, <2>1 DEF new
      <4> QED BY <1>0, <3>2, <3>3, <4>1, DueStays DEF ServerNews
    <3>5. \A m \in Behind(Sender, k)' : ~GivesTid(m, t)
      BY <1>2, <1>4, <2>1, <3>2
    <3> QED BY <1>0, <1>1, <3>2, <3>4, <3>5 DEF Due, Ending
  <2>2. CASE k \notin 1..Len(down[Sender])
    <3>1. down'[Sender][k] \in new
      BY <1>2, <2>2
    <3>2. xfer[t].state = "none" /\ xfer'[t].state = "pending" /\ xfer'[t].from = Sender /\ Behind(Sender, k)' = {}
      BY <1>3, <2>2, <3>1 DEF Alone
    <3>3. sSend.tid # t
      BY <1>0, <3>2 DEF SendTaskOwed, Transfers
    <3> QED BY <1>0, <3>2, <3>3 DEF Due
  <2> QED BY <2>1, <2>2
<1>8. SendTaskOwed'
  <2>1. sSend.tid \in Tid => sSend.tid \in Transfers /\ xfer[sSend.tid].from = Sender
    BY <1>0 DEF SendTaskOwed
  <2>2. sSend.state = "PENDING_TID" =>
          (\E f \in Frames(Sender)' : f.type = "INIT") \/ (\E m \in all, t \in Tid : GivesTid(m, t))
    <3>1. \A f \in Frames(Sender) \ Frames(Sender)' :
            f.type = "INIT" => \E m \in new, t \in Tid : GivesTid(m, t)
      BY DEF ServerNews, FramesServed, new
    <3> QED BY <1>0, <3>1 DEF SendTaskOwed
  <2>3. sSend.state \notin {"NONE", "PENDING_TID"} => sSend.tid \in Tid
    BY DEF SendTid
  <2>4. sSend.state \in {"PENDING", "ACTIVE", "DONE"} =>
          \A f \in Frames(Sender) : f.tid = sSend.tid => f.type \notin {"CANCEL", "COMPLETE"}
    BY <1>0, <2>3 DEF SenderFrames
  <2>5. sSend.state = "PENDING" =>
          \/ xfer'[sSend.tid].state = "pending"
          \/ xfer'[sSend.tid].state = "active" /\ \E m \in all : Accepts(m, sSend.tid)
          \/ xfer'[sSend.tid].state = "over" /\ \E m \in all : Ends(m, sSend.tid) \/ Refuses(m)
    <3>1. sSend.state = "PENDING" => Due(sSend.tid, Messages(Sender))
      BY <1>0 DEF SendTaskOwed
    <3> QED BY <1>0, <2>1, <2>3, <2>4, <3>1, DueStays DEF ServerNews, new
  <2>6. sSend.state \in {"ACTIVE", "DONE"} =>
          \/ xfer'[sSend.tid].state = "active"
          \/ xfer'[sSend.tid].state = "over" /\ \E m \in all : Ends(m, sSend.tid) \/ Refuses(m)
    <3> SUFFICES ASSUME sSend.state \in {"ACTIVE", "DONE"} PROVE
          \/ xfer'[sSend.tid].state = "active"
          \/ xfer'[sSend.tid].state = "over" /\ \E m \in all : Ends(m, sSend.tid) \/ Refuses(m)
      OBVIOUS
    <3>1. \/ xfer[sSend.tid].state = "active"
          \/ xfer[sSend.tid].state = "over" /\ \E m \in Messages(Sender) : Ends(m, sSend.tid) \/ Refuses(m)
      BY <1>0 DEF SendTaskOwed, Ending
    <3>2. sSend.tid \in Tid /\ Passes(sSend.tid) /\ xfer[sSend.tid].from = Sender
      BY <2>1, <2>3 DEF ServerNews
    <3> QED BY <2>4, <3>1, <3>2 DEF Passes, new
  <2>7. sSend.state = "WAIT_COMPLETE" =>
          \/ \E f \in Frames(Sender)' : f.type = "COMPLETE" /\ f.tid = sSend.tid
          \/ \E m \in all : Ends(m, sSend.tid) \/ Refuses(m) \/ Completes(m, sSend.tid)
    <3>1. \A f \in Frames(Sender) \ Frames(Sender)' : f.type = "COMPLETE" =>
            \E m \in new : Refuses(m) \/ Ends(m, f.tid) \/ Completes(m, f.tid)
      BY DEF ServerNews, FramesServed, new
    <3> QED BY <1>0, <3>1 DEF SendTaskOwed
  <2> QED BY <1>0, <1>1, <1>2, <2>1, <2>2, <2>5, <2>6, <2>7 DEF SendTaskOwed, Due, Ending
<1>9. TransfersHeld'
  <2> SUFFICES ASSUME ~orphaned, NEW t \in Transfers', xfer'[t].state # "over", xfer'[t].from = Sender
               PROVE  \/ sSend.tid = t
                      \/ \E m \in all : GivesTid(m, t)
                      \/ \E f \in Frames(Sender)' : f.type = "CANCEL" /\ f.tid = t
    BY <1>0, <1>2 DEF TransfersHeld
  <2>0. t \in Tid /\ xfer'[t].state # "none"
    BY DEF Transfers
  <2>1. CASE xfer[t].state = "none"
    BY <2>0, <2>1 DEF ServerNews, NumbersTold, new
  <2>2. CASE xfer[t].state # "none"
    <3>1. t \in Transfers /\ xfer[t].state # "over" /\ xfer[t].from = Sender
      BY <1>1, <2>0, <2>2 DEF Transfers
    <3>2. \A f \in Frames(Sender) \ Frames(Sender)' :
            f.type = "CANCEL" /\ f.tid \in Transfers => xfer'[f.tid].state = "over"
      BY DEF ServerNews, FramesServed
    <3> QED BY <1>0, <3>1, <3>2 DEF TransfersHeld
  <2> QED BY <2>1, <2>2
<1> QED BY <1>5, <1>6, <1>7, <1>8, <1>9 DEF SenderEnds

LEMMA NewsKeepsReceiver ==
  ASSUME ServerNews, ReceiverEnds, ClientsStay, OfferedOnce, KnownTransfers, xfer \in XferType
  PROVE  ReceiverEnds'
<1> DEFINE all == Messages(Receiver) \cup News(Receiver)
<1>0. ReceiverFrames /\ ReceiverTasks /\ OffersStand /\ rRecv' = rRecv /\ rKnown' = rKnown
  BY DEF ReceiverEnds, ClientsStay
<1>1. /\ Messages(Receiver)' = all
      /\ \A k \in 1..Len(down[Receiver]) :
           /\ k \in 1..Len(down'[Receiver]) /\ down'[Receiver][k] = down[Receiver][k]
           /\ Behind(Receiver, k)' = Behind(Receiver, k) \cup News(Receiver)
      /\ \A k \in 1..Len(down'[Receiver]) :
           k \notin 1..Len(down[Receiver]) => down'[Receiver][k] \in News(Receiver)
  BY DEF ServerNews, Grows
<1>2. \A f \in Frames(Receiver) : f.tid \in rKnown /\
        \A j \in Slots : rRecv[j].busy /\ rRecv[j].tid = f.tid => f.type = "ACCEPT" /\ rRecv[j].open
  BY <1>0 DEF ReceiverFrames, RecvTasks, Slots
<1>3. /\ Frames(Receiver)' \subseteq Frames(Receiver)
      /\ \A f \in Frames(Receiver) \ Frames(Receiver)' : f.type = "ACCEPT" => xfer'[f.tid].state # "pending"
  BY DEF ServerNews, FramesServed
<1>4. \A t \in Tid : Passes(t)
  BY DEF ServerNews
<1>5. ReceiverFrames'
  <2>1. \A f \in Frames(Receiver)' : f.tid \in rKnown' /\
          \A j \in Slots : rRecv'[j].busy /\ rRecv'[j].tid = f.tid => f.type = "ACCEPT" /\ rRecv'[j].open
    BY <1>0, <1>2, <1>3
  <2> QED BY <2>1 DEF ReceiverFrames, RecvTasks, Slots
<1>6. ReceiverTasks'
  <2> SUFFICES ASSUME NEW j \in Slots, rRecv[j].busy
               PROVE  \/ /\ xfer'[rRecv[j].tid].state = "pending"
                         /\ rRecv[j].open =>
                              \E f \in Frames(Receiver)' : f.type = "ACCEPT" /\ f.tid = rRecv[j].tid
                      \/ xfer'[rRecv[j].tid].state = "active" /\ rRecv[j].open
                      \/ /\ xfer'[rRecv[j].tid].state = "over"
                         /\ \E m \in all : Closes(m, rRecv[j].tid)
    BY <1>0, <1>1 DEF ReceiverTasks, Closing, Slots
  <2> DEFINE t == rRecv[j].tid
  <2>1. t \in Tid /\ Passes(t)
    BY <1>4 DEF KnownTransfers, Slots, Transfers
  <2>2. \/ /\ xfer[t].state = "pending"
           /\ rRecv[j].open => \E f \in Frames(Receiver) : f.type = "ACCEPT" /\ f.tid = t
        \/ xfer[t].state = "active" /\ rRecv[j].open
        \/ xfer[t].state = "over" /\ \E m \in Messages(Receiver) : Closes(m, t)
    BY <1>0 DEF ReceiverTasks, Closing, Slots
  <2>3. \A f \in Frames(Receiver) : f.tid = t => f.type = "ACCEPT" /\ rRecv[j].open
    BY <1>2
  <2> QED BY <1>3, <2>1, <2>2, <2>3 DEF Passes
<1>7. OffersStand'
  <2>1. \A k \in Offers' : k \in 1..Len(down'[Receiver]) /\ IsOffer(down'[Receiver][k])
    BY DEF Offers, IsOffer
  <2>2. \A k : OfferAt(k)' = down'[Receiver][k].text.digits[1]
    BY DEF OfferAt
  <2>3. ASSUME NEW k \in Offers', k \in 1..Len(down[Receiver])
        PROVE  \/ xfer'[OfferAt(k)'].state = "pending"
               \/ xfer'[OfferAt(k)'].state = "over" /\ \E m \in Behind(Receiver, k)' : Closes(m, OfferAt(k)')
    <3>1. k \in Offers /\ OfferAt(k)' = OfferAt(k) /\ Behind(Receiver, k)' = Behind(Receiver, k) \cup News(Receiver)
      BY <1>1, <2>1, <2>2, <2>3 DEF Offers, OfferAt
    <3>2. OfferAt(k) \in Transfers /\ OfferAt(k) \notin rKnown
      BY <3>1 DEF OfferedOnce
    <3>3. \A f \in Frames(Receiver) : f.tid # OfferAt(k)
      BY <1>2, <3>2
    <3>4. \/ xfer[OfferAt(k)].state = "pending"
          \/ xfer[OfferAt(k)].state = "over" /\ \E m \in Behind(Receiver, k) : Closes(m, OfferAt(k))
      BY <1>0, <3>1 DEF OffersStand, Closing
    <3>5. Passes(OfferAt(k))
      BY <1>4, <3>2 DEF Transfers
    <3> QED BY <3>1, <3>3, <3>4, <3>5 DEF Passes
  <2>4. ASSUME NEW k \in Offers', k \notin 1..Len(down[Receiver]) PROVE xfer'[OfferAt(k)'].state = "pending"
    <3>1. down'[Receiver][k] \in News(Receiver) /\ IsOffer(down'[Receiver][k])
      BY <1>1, <2>1, <2>4
    <3> QED BY <2>2, <3>1 DEF ServerNews, OffersNew
  <2>5. \A k \in Offers' :
          \/ xfer'[OfferAt(k)'].state = "pending"
          \/ xfer'[OfferAt(k)'].state = "over" /\ \E m \in Behind(Receiver, k)' : Closes(m, OfferAt(k)')
    BY <2>3, <2>4
  <2> QED BY <2>5 DEF OffersStand, Closing, Closes
<1> QED BY <1>5, <1>6, <1>7 DEF ReceiverEnds

-----------------------------------------------------------------------------
(* How transfers end: the server serves a frame. *)

Ready == Together /\ AllInv /\ SenderEnds /\ ReceiverEnds

(* A frame was taken from the connection of c, or none. *)
FrameGone(c, f) ==
  /\ f \in Frames(c) /\ Frames(c)' \subseteq Frames(c) /\ Frames(c) \ {f} \subseteq Frames(c)'
  /\ \A d \in {Sender, Receiver} : d # c => Frames(d)' = Frames(d)

NoFrameGone == \A d \in {Sender, Receiver} : Frames(d)' = Frames(d)

LEMMA ReadyFacts ==
  ASSUME Ready
  PROVE  /\ MessagesTyped /\ xfer \in XferType /\ Sender # Receiver /\ Stranger \notin {Sender, Receiver}
         /\ SenderFrames /\ ReceiverFrames /\ rKnown \subseteq Transfers /\ Transfers \subseteq Tid
         /\ SendTid /\ OfferedOnce /\ KnownTransfers
BY TransferFacts, RelayAssumption
   DEF Ready, AllInv, RelayInv, Wires, Receipt, Sending, KnownTransfers, SenderEnds, ReceiverEnds, Transfers

LEMMA NoNewOffers == ASSUME News(Receiver) \subseteq FitPlain PROVE OffersNew
BY DEF OffersNew, FitPlain, PlainToReceiver

LEMMA NothingSaid == ASSUME News(Sender) = {} PROVE ToldSo
BY DEF ToldSo

LEMMA SamePasses == ASSUME xfer' = xfer PROVE (\A t \in Tid : Passes(t)) /\ NumbersTold
BY DEF Passes, NumbersTold

LEMMA OneBecomes ==
  ASSUME Ready, NEW t \in Tid, NEW state \in {"active", "over"}, xfer[t].state # "none", Becomes(t, state)
  PROVE  /\ xfer'[t].state = state /\ xfer'[t].from = xfer[t].from
         /\ \A u \in Tid : u # t => xfer'[u] = xfer[u]
         /\ NumbersTold
<1>1. xfer \in XferType
  BY ReadyFacts
<1>2. /\ xfer'[t].state = state /\ xfer'[t].from = xfer[t].from
      /\ \A u \in Tid : u # t => xfer'[u] = xfer[u]
  BY <1>1 DEF Becomes, XferType
<1> QED BY <1>2 DEF NumbersTold

LEMMA FrameKinds ==
  /\ Sender # Receiver
  /\ \A c, f : FrameGone(c, f) => \A g \in Frames(c) \ Frames(c)' : g = f
  /\ \A f : FrameGone(Sender, f) => Frames(Receiver)' = Frames(Receiver)
  /\ \A f : FrameGone(Receiver, f) => Frames(Sender)' = Frames(Sender)
BY RelayAssumption DEF FrameGone

(* The sender's frame was served. *)
LEMMA SenderServed ==
  ASSUME NEW f, FrameGone(Sender, f),
         f.type = "INIT" => \E m \in News(Sender), t \in Tid : GivesTid(m, t),
         f.type = "CANCEL" /\ f.tid \in Transfers => xfer'[f.tid].state = "over",
         f.type = "COMPLETE" => \E m \in News(Sender) : Refuses(m) \/ Ends(m, f.tid) \/ Completes(m, f.tid)
  PROVE  FramesServed
<1>1. /\ Frames(Receiver)' = Frames(Receiver) /\ Frames(Sender)' \subseteq Frames(Sender)
      /\ \A g \in Frames(Sender) \ Frames(Sender)' : g = f
  BY FrameKinds DEF FrameGone
<1> QED BY <1>1 DEF FramesServed

LEMMA ReceiverServed ==
  ASSUME NEW f, FrameGone(Receiver, f), f.type = "ACCEPT" => xfer'[f.tid].state # "pending"
  PROVE  FramesServed
<1>1. /\ Frames(Sender)' = Frames(Sender) /\ Frames(Receiver)' \subseteq Frames(Receiver)
      /\ \A g \in Frames(Receiver) \ Frames(Receiver)' : g = f
  BY FrameKinds DEF FrameGone
<1> QED BY <1>1 DEF FramesServed

LEMMA NoneServed == ASSUME NoFrameGone PROVE FramesServed
BY DEF NoFrameGone, FramesServed

LEMMA Reaches ==
  /\ FitPlain \subseteq ToReceiver /\ PlainToSender \subseteq ToSender
  /\ \A a \in Seq(FitPlain) : a \in Seq(ToReceiver) /\ Elements(a) \subseteq FitPlain
<1>1. FitPlain \subseteq ToReceiver /\ PlainToSender \subseteq ToSender
  BY DEF FitPlain, PlainToReceiver, PlainToSender
<1>2. \A a \in Seq(FitPlain) : a \in Seq(ToReceiver)
  BY <1>1
<1>3. \A a \in Seq(FitPlain) : Elements(a) \subseteq FitPlain
  BY ElementOfSeq DEF Elements
<1> QED BY <1>1, <1>2, <1>3

(* The sender hears a, the receiver b. *)
LEMMA ReadyTold ==
  ASSUME Ready, NEW a \in Seq(ToSender), NEW b \in Seq(FitPlain), Tell(a, b)
  PROVE  /\ Grows(Sender) /\ News(Sender) = Elements(a) /\ (Len(a) = 1 => Alone(Sender))
         /\ Grows(Receiver) /\ News(Receiver) = Elements(b) /\ OffersNew
<1>1. b \in Seq(ToReceiver) /\ Elements(b) \subseteq FitPlain
  BY Reaches
<1>2. MessagesTyped /\ Together
  BY ReadyFacts DEF Ready
<1> QED BY <1>1, <1>2, ToldTogether, NoNewOffers

LEMMA ReadyQuiet ==
  ASSUME Ready, UNCHANGED down
  PROVE  Grows(Sender) /\ News(Sender) = {} /\ Grows(Receiver) /\ News(Receiver) = {} /\ ToldSo /\ OffersNew
<1>1. Grows(Sender) /\ News(Sender) = {} /\ Grows(Receiver) /\ News(Receiver) = {}
  BY ReadyFacts, NothingTold
<1> QED BY <1>1, NothingSaid, NoNewOffers

-----------------------------------------------------------------------------
(* What each frame leads to. *)

LEMMA MisfitOfSender ==
  ASSUME Ready, NEW f, FrameGone(Sender, f), f.type \in {"CHUNK", "COMPLETE"}, f.tid \in Tid,
         xfer[f.tid].state # "active", Misfit(Sender, f.tid)
  PROVE  ServerNews
<1> DEFINE m == Error(300, f.tid)
<1>1. /\ m \in ToSender /\ Refuses(m) /\ m.about = f.tid /\ ~IsAnswer(m) /\ Silent(m)
      /\ \A u : ~Accepts(m, u) /\ ~Ends(m, u) /\ ~Completes(m, u)
  BY ErrorsSay
<1>2. Tell(<<m>>, <<>>) /\ xfer' = xfer
  BY DEF Misfit, TellOne
<1> HIDE DEF m
<1>3. Grows(Sender) /\ News(Sender) = {m} /\ Grows(Receiver) /\ News(Receiver) = {} /\ OffersNew
  <2>1. <<m>> \in Seq(ToSender) /\ <<>> \in Seq(FitPlain)
    BY <1>1, TwoMessages
  <2> QED BY <1>2, <2>1, ReadyTold, FewElements
<1>4. xfer[f.tid].state = "over"
  BY ReadyFacts DEF FrameGone, SenderFrames, Going
<1>5. ToldSo
  BY <1>1, <1>2, <1>3, <1>4 DEF ToldSo, Silent, IsAnswer, Refuses
<1>6. FramesServed
  BY <1>1, <1>3, SenderServed
<1> QED BY <1>2, <1>3, <1>5, <1>6, SamePasses DEF ServerNews

LEMMA MisfitOfReceiver ==
  ASSUME Ready, NEW f, FrameGone(Receiver, f), f.tid \in Tid, xfer[f.tid].state # "pending",
         Misfit(Receiver, f.tid)
  PROVE  ServerNews
<1>1. Tell(<<>>, <<Error(300, f.tid)>>) /\ xfer' = xfer
  BY RelayAssumption DEF Misfit, TellOne
<1>2. <<>> \in Seq(ToSender) /\ <<Error(300, f.tid)>> \in Seq(FitPlain)
  <2>1. Error(300, f.tid) \in FitPlain
    BY FitFrames
  <2> QED BY <2>1, TwoMessages
<1>3. Grows(Sender) /\ News(Sender) = {} /\ Grows(Receiver) /\ OffersNew
  BY <1>1, <1>2, ReadyTold, FewElements
<1>4. FramesServed
  BY <1>1, ReceiverServed
<1> QED BY <1>1, <1>3, <1>4, SamePasses, NothingSaid DEF ServerNews

LEMMA ChunkNews ==
  ASSUME Ready, NEW f, FrameGone(Sender, f), NEW file \in Offered, f \in ChunkIn(file), ServeChunk(f),
         ~orphaned => f.tid \in Transfers /\ xfer[f.tid].file = f.file
  PROVE  ServerNews
<1>1. f.tid \in Tid /\ f.type = "CHUNK"
  BY ChunkParts
<1>2. CASE xfer[f.tid].state = "active"
  <2>1. xfer' = xfer /\ (Tell(<<>>, <<f>>) \/ UNCHANGED down)
    BY <1>1, <1>2 DEF ServeChunk, StateOf
  <2>2. <<>> \in Seq(ToSender) /\ <<f>> \in Seq(FitPlain)
    BY FitChunk, TwoMessages
  <2>3. Grows(Sender) /\ News(Sender) = {} /\ Grows(Receiver) /\ OffersNew
    BY <2>1, <2>2, ReadyTold, ReadyQuiet, FewElements
  <2>4. FramesServed
    BY <1>1, SenderServed
  <2> QED BY <2>1, <2>3, <2>4, SamePasses, NothingSaid DEF ServerNews
<1>3. CASE xfer[f.tid].state # "active"
  BY <1>1, <1>3, MisfitOfSender DEF ServeChunk, StateOf
<1> QED BY <1>2, <1>3

LEMMA CompleteNews ==
  ASSUME Ready, FilesUnmasked, NEW f, FrameGone(Sender, f), f.type = "COMPLETE", f.tid \in Tid,
         ServeComplete(f.tid)
  PROVE  ServerNews
<1> DEFINE t == f.tid
           file == xfer[t].file
           m == Announce(S!CompleteText(t, file))
           n == [type |-> "COMPLETE", tid |-> t]
<1>1. CASE xfer[t].state = "active"
  <2>1. xfer[t].from = Sender
    BY ReadyFacts DEF FrameGone, SenderFrames
  <2>2. /\ Becomes(t, "over") /\ Tell(<<m>>, <<m, n>>)
    BY <1>1, <2>1 DEF ServeComplete, StateOf, Completed
  <2>3. file \in Offered
    BY <1>1, TransferFacts DEF Ready
  <2>4. m \in ToSender /\ Silent(m) /\ Only(m, t) /\ Harmless(m) /\ (Ends(m, t) \/ Completes(m, t))
    BY <2>3, AnnouncementsSay
  <2>5. m \in FitPlain /\ n \in FitPlain
    BY <2>3, FitAnnouncements, FitFrames
  <2>6. n.type = "COMPLETE" /\ n.tid = t
    OBVIOUS
  <2> HIDE DEF m, n
  <2>7. <<m>> \in Seq(ToSender) /\ <<m, n>> \in Seq(FitPlain)
    BY <2>4, <2>5, TwoMessages
  <2>8. Grows(Sender) /\ News(Sender) = {m} /\ Grows(Receiver) /\ News(Receiver) = {m, n} /\ OffersNew
    BY <2>2, <2>7, ReadyTold, FewElements
  <2>9. /\ xfer'[t].state = "over" /\ xfer'[t].from = xfer[t].from /\ NumbersTold
        /\ \A u \in Tid : u # t => xfer'[u] = xfer[u]
    BY <1>1, <2>2, OneBecomes
  <2>10. \A u \in Tid : Passes(u)
    <3>1. Closes(n, t) /\ f \in Frames(Sender)
      BY <2>6 DEF Closes, FrameGone
    <3> QED BY <1>1, <2>8, <2>9, <3>1 DEF Passes
  <2>11. ToldSo
    BY <2>4, <2>8, <2>9 DEF ToldSo, Silent, Only, Harmless, IsAnswer
  <2>12. FramesServed
    BY <2>4, <2>8, SenderServed
  <2> QED BY <2>8, <2>9, <2>10, <2>11, <2>12 DEF ServerNews
<1>2. CASE xfer[t].state # "active"
  BY <1>2, MisfitOfSender DEF ServeComplete, StateOf
<1> QED BY <1>1, <1>2

(* A cancel that ends the transfer, told to the other side. *)
LEMMA CancelNews ==
  ASSUME Ready, NEW t \in Tid, xfer[t].state \in {"pending", "active"},
         NEW c \in {Sender, Receiver, Stranger}, ServeCancel(c, t),
         c = Sender => xfer[t].from = Sender, c = Stranger => xfer[t].from = Stranger,
         \/ c = Stranger /\ NoFrameGone
         \/ c # Stranger /\ \E f : FrameGone(c, f) /\ f.type = "CANCEL" /\ f.tid = t
  PROVE  ServerNews
<1> DEFINE m == Announce(S!CancelledText(t, c))
           n == [type |-> "CANCEL", tid |-> t]
<1>1. Becomes(t, "over") /\ TellOne(OtherSide(c, t), <<m, n>>)
  BY DEF ServeCancel, StateOf
<1>2. /\ xfer'[t].state = "over" /\ xfer'[t].from = xfer[t].from /\ NumbersTold
      /\ \A u \in Tid : u # t => xfer'[u] = xfer[u]
  BY <1>1, OneBecomes
<1>3. PICK file : file \in Offered
  BY TransferFacts DEF Ready
<1>4. n.type = "CANCEL" /\ n.tid = t
  OBVIOUS
<1>5. Closes(n, t)
  BY <1>4 DEF Closes
<1>6. FramesServed
  <2>1. CASE c = Stranger
    BY <2>1, NoneServed, RelayAssumption
  <2>2. CASE c = Sender
    BY <1>2, <2>2, SenderServed, RelayAssumption
  <2>3. CASE c = Receiver
    BY <1>2, <2>3, ReceiverServed, RelayAssumption
  <2> QED BY <2>1, <2>2, <2>3
<1>7. CASE c \in {Sender, Stranger}
  <2>1. OtherSide(c, t) = Receiver
    BY <1>7, RelayAssumption DEF OtherSide
  <2>2. Tell(<<>>, <<m, n>>)
    BY <1>1, <2>1, RelayAssumption DEF TellOne
  <2>3. m \in FitPlain /\ n \in FitPlain
    BY <1>3, <1>7, FitAnnouncements, FitFrames
  <2> HIDE DEF m, n
  <2>4. <<>> \in Seq(ToSender) /\ <<m, n>> \in Seq(FitPlain)
    BY <2>3, TwoMessages
  <2>5. Grows(Sender) /\ News(Sender) = {} /\ Grows(Receiver) /\ News(Receiver) = {m, n} /\ OffersNew
    BY <2>2, <2>4, ReadyTold, FewElements
  <2>6. \A u \in Tid : Passes(u)
    <3>1. xfer[t].from = Sender => \E f \in Frames(Sender) : f.type = "CANCEL" /\ f.tid = t
      BY <1>7, RelayAssumption DEF FrameGone
    <3> QED BY <1>2, <1>5, <2>5, <3>1 DEF Passes
  <2> QED BY <1>2, <1>6, <2>5, <2>6, NothingSaid DEF ServerNews
<1>8. CASE c = Receiver
  <2>1. OtherSide(c, t) = xfer[t].from /\ xfer[t].from \in {Sender, Stranger}
    BY <1>8, Peer DEF OtherSide, Ready
  <2>2. \E f \in Frames(Receiver) : f.type # "ACCEPT" /\ f.tid = t
    BY <1>8, RelayAssumption DEF FrameGone
  <2>3. CASE xfer[t].from = Sender
    <3>1. Tell(<<m, n>>, <<>>)
      BY <1>1, <2>1, <2>3 DEF TellOne
    <3>2. m \in ToSender /\ Silent(m) /\ Only(m, t) /\ Harmless(m)
      BY <1>3, <1>8, AnnouncementsSay
    <3>3. n \in ToSender /\ Silent(n) /\ Only(n, t) /\ Harmless(n) /\ Ends(n, t)
      BY FramesSay
    <3> HIDE DEF m, n
    <3>4. <<m, n>> \in Seq(ToSender) /\ <<>> \in Seq(FitPlain)
      BY <3>2, <3>3, TwoMessages
    <3>5. Grows(Sender) /\ News(Sender) = {m, n} /\ Grows(Receiver) /\ OffersNew
      BY <3>1, <3>4, ReadyTold, FewElements
    <3>6. ToldSo
      BY <1>2, <3>2, <3>3, <3>5 DEF ToldSo, Silent, Only, Harmless, IsAnswer
    <3>7. \A u \in Tid : Passes(u)
      BY <1>2, <2>2, <3>3, <3>5 DEF Passes
    <3> QED BY <1>2, <1>6, <3>5, <3>6, <3>7 DEF ServerNews
  <2>4. CASE xfer[t].from = Stranger
    <3>1. UNCHANGED down
      BY <1>1, <2>1, <2>4, RelayAssumption DEF TellOne
    <3>2. \A u \in Tid : Passes(u)
      BY <1>2, <2>2, <2>4, RelayAssumption DEF Passes
    <3> QED BY <1>2, <1>6, <3>1, <3>2, ReadyQuiet DEF ServerNews
  <2> QED BY <2>1, <2>3, <2>4
<1> QED BY <1>7, <1>8

(* A cancel that comes too late. *)
LEMMA LateCancel ==
  ASSUME Ready, NEW c \in {Sender, Receiver}, NEW f, FrameGone(c, f), f.type = "CANCEL",
         StateOf(f.tid) \notin {"pending", "active"}, ServeCancel(c, f.tid)
  PROVE  ServerNews
<1>1. UNCHANGED <<xfer, down>>
  BY DEF ServeCancel
<1>2. f.tid \in Transfers => xfer'[f.tid].state = "over"
  <2>1. xfer \in XferType
    BY ReadyFacts
  <2> QED BY <1>1, <2>1 DEF StateOf, Transfers, XferType
<1>3. FramesServed
  BY <1>2, SenderServed, ReceiverServed
<1> QED BY <1>1, <1>3, ReadyQuiet, SamePasses DEF ServerNews

LEMMA AcceptNews ==
  ASSUME Ready, NEW f, FrameGone(Receiver, f), f.type = "ACCEPT", f.tid \in Tid, ServeAccept(f.tid)
  PROVE  ServerNews
<1> DEFINE t == f.tid
           m == Announce(S!AcceptedText(t, Receiver))
           n == [type |-> "ACCEPT", tid |-> t]
<1>1. CASE xfer[t].state = "pending"
  <2>1. Becomes(t, "active") /\ TellOne(xfer[t].from, <<m, n>>)
    BY <1>1 DEF ServeAccept, StateOf
  <2>2. /\ xfer'[t].state = "active" /\ xfer'[t].from = xfer[t].from /\ NumbersTold
        /\ \A u \in Tid : u # t => xfer'[u] = xfer[u]
    BY <1>1, <2>1, OneBecomes
  <2>3. FramesServed
    BY <2>2, ReceiverServed
  <2>4. PICK file : file \in Offered
    BY <1>1, TransferFacts DEF Ready
  <2>5. \E g \in Frames(Receiver) : g.type = "ACCEPT" /\ g.tid = t
    BY DEF FrameGone
  <2>6. CASE xfer[t].from = Sender
    <3>1. Tell(<<m, n>>, <<>>)
      BY <2>1, <2>6 DEF TellOne
    <3>2. /\ m \in ToSender /\ Silent(m) /\ Only(m, t) /\ Harmless(m)
          /\ \A u : ~Ends(m, u) /\ ~Completes(m, u)
      BY <2>4, AnnouncementsSay
    <3>3. /\ n \in ToSender /\ Silent(n) /\ Only(n, t) /\ Harmless(n) /\ Accepts(n, t)
          /\ \A u : ~Ends(n, u) /\ ~Completes(n, u)
      BY FramesSay
    <3> HIDE DEF m, n
    <3>4. <<m, n>> \in Seq(ToSender) /\ <<>> \in Seq(FitPlain)
      BY <3>2, <3>3, TwoMessages
    <3>5. Grows(Sender) /\ News(Sender) = {m, n} /\ Grows(Receiver) /\ OffersNew
      BY <3>1, <3>4, ReadyTold, FewElements
    <3>6. ToldSo
      BY <2>2, <3>2, <3>3, <3>5 DEF ToldSo, Silent, Only, Harmless, IsAnswer
    <3>7. \A u \in Tid : Passes(u)
      BY <1>1, <2>2, <2>5, <3>3, <3>5 DEF Passes
    <3> QED BY <2>2, <2>3, <3>5, <3>6, <3>7 DEF ServerNews
  <2>7. CASE xfer[t].from = Stranger
    <3>1. UNCHANGED down
      BY <2>1, <2>7, RelayAssumption DEF TellOne
    <3>2. \A u \in Tid : Passes(u)
      BY <1>1, <2>2, <2>5, <2>7, RelayAssumption DEF Passes
    <3> QED BY <2>2, <2>3, <3>1, <3>2, ReadyQuiet DEF ServerNews
  <2> QED BY <2>6, <2>7, Peer DEF Ready
<1>2. CASE xfer[t].state # "pending"
  BY <1>2, MisfitOfReceiver DEF ServeAccept, StateOf
<1> QED BY <1>1, <1>2

LEMMA RejectNews ==
  ASSUME Ready, NEW f, FrameGone(Receiver, f), f.type = "REJECT", f.tid \in Tid, ServeReject(f.tid)
  PROVE  ServerNews
<1> DEFINE t == f.tid
           m == Announce(S!RejectedText(t, Receiver))
           n == [type |-> "REJECT", tid |-> t]
<1>1. CASE xfer[t].state = "pending"
  <2>1. Becomes(t, "over") /\ TellOne(xfer[t].from, <<m, n>>)
    BY <1>1 DEF ServeReject, StateOf
  <2>2. /\ xfer'[t].state = "over" /\ xfer'[t].from = xfer[t].from /\ NumbersTold
        /\ \A u \in Tid : u # t => xfer'[u] = xfer[u]
    BY <1>1, <2>1, OneBecomes
  <2>3. FramesServed
    BY ReceiverServed
  <2>4. PICK file : file \in Offered
    BY <1>1, TransferFacts DEF Ready
  <2>5. \E g \in Frames(Receiver) : g.type # "ACCEPT" /\ g.tid = t
    BY DEF FrameGone
  <2>6. CASE xfer[t].from = Sender
    <3>1. Tell(<<m, n>>, <<>>)
      BY <2>1, <2>6 DEF TellOne
    <3>2. m \in ToSender /\ Silent(m) /\ Only(m, t) /\ Harmless(m)
      BY <2>4, AnnouncementsSay
    <3>3. n \in ToSender /\ Silent(n) /\ Only(n, t) /\ Harmless(n) /\ Ends(n, t)
      BY FramesSay
    <3> HIDE DEF m, n
    <3>4. <<m, n>> \in Seq(ToSender) /\ <<>> \in Seq(FitPlain)
      BY <3>2, <3>3, TwoMessages
    <3>5. Grows(Sender) /\ News(Sender) = {m, n} /\ Grows(Receiver) /\ OffersNew
      BY <3>1, <3>4, ReadyTold, FewElements
    <3>6. ToldSo
      BY <2>2, <3>2, <3>3, <3>5 DEF ToldSo, Silent, Only, Harmless, IsAnswer
    <3>7. \A u \in Tid : Passes(u)
      BY <1>1, <2>2, <2>5, <3>3, <3>5 DEF Passes
    <3> QED BY <2>2, <2>3, <3>5, <3>6, <3>7 DEF ServerNews
  <2>7. CASE xfer[t].from = Stranger
    <3>1. UNCHANGED down
      BY <2>1, <2>7, RelayAssumption DEF TellOne
    <3>2. \A u \in Tid : Passes(u)
      BY <1>1, <2>2, <2>5, <2>7, RelayAssumption DEF Passes
    <3> QED BY <2>2, <2>3, <3>1, <3>2, ReadyQuiet DEF ServerNews
  <2> QED BY <2>6, <2>7, Peer DEF Ready
<1>2. CASE xfer[t].state # "pending"
  BY <1>2, MisfitOfReceiver DEF ServeReject, StateOf
<1> QED BY <1>1, <1>2

-----------------------------------------------------------------------------
(* How transfers end: the server numbers one. *)
LEMMA NumberNews ==
  ASSUME Ready, NEW file \in Offered, NEW from \in {Sender, Stranger}, NumberTransfer(from, file),
         \/ from = Stranger /\ NoFrameGone
         \/ from = Sender /\ file \in SendFiles /\ \E f : FrameGone(Sender, f) /\ f.type = "INIT"
  PROVE  ServerNews
<1>1. PICK t \in Unnumbered :
        /\ xfer' = [xfer EXCEPT ![t] = [state |-> "pending", file |-> file, from |-> from]]
        /\ Tell(IF from = Sender THEN <<Announce(S!WaitingText(t, file, Receiver))>> ELSE <<>>,
                <<Announce(S!IncomingText(t, file, from)), InitTo(file)>>)
  BY DEF NumberTransfer
<1>2. t \in Tid /\ xfer[t].state = "none"
  BY DEF Unnumbered
<1> DEFINE m == Announce(S!WaitingText(t, file, Receiver))
           n == Announce(S!IncomingText(t, file, from))
           init == InitTo(file)
<1>3. /\ n \in ToReceiver /\ init \in ToReceiver /\ n.text.digits[1] = t
      /\ init.type = "INIT"
  BY <1>2, OfferMessages
<1>4. /\ xfer'[t].state = "pending" /\ xfer'[t].from = from
      /\ \A u \in Tid : u # t => xfer'[u] = xfer[u]
  BY <1>1, <1>2, ReadyFacts DEF XferType
<1>5. Tell(IF from = Sender THEN <<m>> ELSE <<>>, <<n, init>>)
  BY <1>1
<1>6. file \in SendFiles =>
        /\ m \in ToSender /\ m.type = "SERVER_MSG" /\ ~Refuses(m)
        /\ \A u : /\ GivesTid(m, u) <=> u = t
                  /\ ~Accepts(m, u) /\ ~Ends(m, u) /\ ~Completes(m, u)
  BY <1>2, WaitingSays
<1> HIDE DEF m, n, init
<1>7. <<n, init>> \in Seq(ToReceiver)
  BY <1>3, TwoMessages
<1>8. MessagesTyped /\ Together /\ Sender # Stranger
  BY ReadyFacts DEF Ready
<1>9. \A u \in Tid : Passes(u)
  BY <1>2, <1>4 DEF Passes
<1>10. News(Receiver) = {n, init} => OffersNew
  BY <1>3, <1>4 DEF OffersNew, IsOffer
<1>11. CASE from = Sender
  <2>1. file \in SendFiles /\ \E f : FrameGone(Sender, f) /\ f.type = "INIT"
    BY <1>8, <1>11
  <2>2. <<m>> \in Seq(ToSender)
    BY <1>6, <2>1, TwoMessages
  <2>3. Tell(<<m>>, <<n, init>>)
    BY <1>5, <1>11
  <2>4. /\ Grows(Sender) /\ News(Sender) = {m} /\ Alone(Sender)
        /\ Grows(Receiver) /\ News(Receiver) = {n, init}
    BY <1>7, <1>8, <2>2, <2>3, ToldTogether, FewElements
  <2>5. ToldSo
    BY <1>2, <1>4, <1>6, <1>11, <2>1, <2>4 DEF ToldSo
  <2>6. NumbersTold
    BY <1>2, <1>4, <1>6, <2>1, <2>4 DEF NumbersTold
  <2>7. FramesServed
    <3>1. \E x \in News(Sender), u \in Tid : GivesTid(x, u)
      BY <1>2, <1>6, <2>1, <2>4
    <3> QED BY <2>1, <3>1, SenderServed
  <2> QED BY <1>9, <1>10, <2>4, <2>5, <2>6, <2>7 DEF ServerNews
<1>12. CASE from = Stranger
  <2>1. Tell(<<>>, <<n, init>>) /\ NoFrameGone
    BY <1>5, <1>8, <1>12
  <2>2. <<>> \in Seq(ToSender)
    OBVIOUS
  <2>3. Grows(Sender) /\ News(Sender) = {} /\ Grows(Receiver) /\ News(Receiver) = {n, init}
    BY <1>7, <1>8, <2>1, <2>2, ToldTogether, FewElements
  <2>4. NumbersTold
    BY <1>4, <1>8, <1>12 DEF NumbersTold
  <2> QED BY <1>9, <1>10, <2>1, <2>3, <2>4, NothingSaid, NoneServed DEF ServerNews
<1> QED BY <1>11, <1>12

-----------------------------------------------------------------------------
(* How transfers end: the server's steps. *)

LEMMA TakenGone ==
  ASSUME MessagesTyped, NEW c \in {Sender, Receiver}, NEW i \in 1..Len(up[c]), NEW f \in up[c][i],
         up' = [up EXCEPT ![c] = Without(@, i, f)]
  PROVE  FrameGone(c, f)
<1>1. /\ DOMAIN up = {Sender, Receiver} /\ up[Sender] \in Seq(SUBSET FromSender)
      /\ up[Receiver] \in Seq(SUBSET FromReceiver)
  BY DEF MessagesTyped
<1>2. up'[c] = Without(up[c], i, f) /\ \A d \in {Sender, Receiver} : d # c => up'[d] = up[d]
  BY <1>1
<1>3. f \in Frames(c) /\ Frames(c)' \subseteq Frames(c) /\ Frames(c) \ {f} \subseteq Frames(c)'
  <2>1. CASE c = Sender
    <3>1. up[c] \in Seq(SUBSET FromSender)
      BY <1>1, <2>1
    <3> QED BY <1>2, <3>1, FrameTaken
  <2>2. CASE c = Receiver
    <3>1. up[c] \in Seq(SUBSET FromReceiver)
      BY <1>1, <2>2
    <3> QED BY <1>2, <3>1, FrameTaken
  <2> QED BY <2>1, <2>2
<1>4. \A d \in {Sender, Receiver} : d # c => Frames(d)' = Frames(d)
  BY <1>2 DEF Frames
<1> QED BY <1>3, <1>4 DEF FrameGone

LEMMA SenderTakenNews ==
  ASSUME Ready, FilesUnmasked, NEW i \in 1..Len(up[Sender]), NEW f \in up[Sender][i],
         up' = [up EXCEPT ![Sender] = Without(@, i, f)], Serve(Sender, f)
  PROVE  ServerNews
<1>1. MessagesTyped /\ FileOfTid /\ SenderFrames
  BY DEF Ready, AllInv, RelayInv, Wires, Sending, SenderEnds
<1>2. f \in FromSender
  <2>1. up[Sender] \in Seq(SUBSET FromSender)
    BY <1>1 DEF MessagesTyped
  <2> QED BY <2>1, ElementOfSeq
<1>3. FrameGone(Sender, f)
  BY <1>1, TakenGone
<1>4. CASE f.type = "INIT" /\ f.file \in SendFiles
  <2>1. ServeInit(f)
    BY <1>4 DEF Serve
  <2>2. NumberTransfer(Sender, f.file)
    BY <2>1 DEF ServeInit, Ready, Together
  <2>3. f.file \in Offered
    BY <1>4 DEF Offered
  <2> QED BY <1>3, <1>4, <2>2, <2>3, NumberNews
<1>5. CASE f.type = "CANCEL"
  <2>1. ServeCancel(Sender, f.tid)
    BY <1>5 DEF Serve
  <2>2. CASE StateOf(f.tid) \in {"pending", "active"}
    <3>1. f.tid \in Tid /\ xfer[f.tid].state \in {"pending", "active"}
      BY <2>2 DEF StateOf
    <3>2. xfer[f.tid].from = Sender
      BY <1>1, <1>3, <1>5, <3>1 DEF SenderFrames, FrameGone
    <3>3. Sender # Stranger
      BY RelayAssumption
    <3> QED BY <1>3, <1>5, <2>1, <3>1, <3>2, <3>3, CancelNews
  <2> QED BY <1>3, <1>5, <2>1, <2>2, LateCancel
<1>6. CASE f.type = "COMPLETE" /\ f.tid \in Tid
  BY <1>3, <1>6, CompleteNews DEF Serve
<1>7. ASSUME NEW file \in Offered, f.type = "CHUNK", f \in ChunkIn(file) PROVE ServerNews
  <2>1. ~orphaned => f.tid \in Transfers /\ xfer[f.tid].file = f.file
    BY <1>1, <1>7 DEF FileOfTid
  <2>2. ServeChunk(f)
    BY <1>7 DEF Serve
  <2> QED BY <1>3, <1>7, <2>1, <2>2, ChunkNews
<1> QED BY <1>2, <1>4, <1>5, <1>6, <1>7, FromSenderKinds

LEMMA ReceiverTakenNews ==
  ASSUME Ready, NEW i \in 1..Len(up[Receiver]), NEW f \in up[Receiver][i],
         up' = [up EXCEPT ![Receiver] = Without(@, i, f)], Serve(Receiver, f)
  PROVE  ServerNews
<1>1. MessagesTyped
  BY DEF Ready, AllInv, RelayInv, Wires
<1>2. f.type \in {"ACCEPT", "REJECT", "CANCEL"} /\ f.tid \in Tid
  <2>1. up[Receiver] \in Seq(SUBSET FromReceiver)
    BY <1>1 DEF MessagesTyped
  <2>2. f \in FromReceiver
    BY <2>1, ElementOfSeq
  <2> QED BY <2>2 DEF FromReceiver
<1>3. FrameGone(Receiver, f)
  BY <1>1, TakenGone
<1>4. CASE f.type = "ACCEPT"
  BY <1>2, <1>3, <1>4, AcceptNews DEF Serve
<1>5. CASE f.type = "REJECT"
  BY <1>2, <1>3, <1>5, RejectNews DEF Serve
<1>6. CASE f.type = "CANCEL"
  <2>1. ServeCancel(Receiver, f.tid)
    BY <1>6 DEF Serve
  <2>2. CASE StateOf(f.tid) \in {"pending", "active"}
    <3>1. xfer[f.tid].state \in {"pending", "active"}
      BY <1>2, <2>2 DEF StateOf
    <3>2. Receiver \notin {Sender, Stranger}
      BY RelayAssumption
    <3> QED BY <1>2, <1>3, <1>6, <2>1, <3>1, <3>2, CancelNews
  <2> QED BY <1>3, <1>6, <2>1, <2>2, LateCancel
<1> QED BY <1>2, <1>4, <1>5, <1>6

LEMMA DeniesNews ==
  ASSUME Ready, ServerDenies PROVE ServerNews
<1> DEFINE m == Error(200, 1)
<1>1. /\ Tell(<<m>>, <<>>) /\ up' = up /\ xfer' = xfer
  BY DEF ServerDenies, serverVars
<1>2. NoFrameGone
  BY <1>1 DEF NoFrameGone, Frames
<1>3. ASSUME NEW t \in Tid PROVE m \in ToSender /\ Harmless(m) /\ Silent(m)
                                 /\ \A u : ~Accepts(m, u) /\ ~Ends(m, u) /\ ~Completes(m, u)
  BY <1>3, ErrorsSay
<1>4. m.type = "ERROR" /\ m.code = 200 /\ m.about = 1 /\ m \in ToSender
  BY DEF Error, ToSender
<1> HIDE DEF m
<1>5. Grows(Sender) /\ News(Sender) = {m} /\ Grows(Receiver) /\ OffersNew
  <2>1. <<m>> \in Seq(ToSender) /\ <<>> \in Seq(FitPlain)
    BY <1>4, TwoMessages
  <2> QED BY <1>1, <2>1, ReadyTold, FewElements
<1>6. ToldSo
  BY <1>3, <1>4, <1>5 DEF ToldSo, Harmless, Silent, Refuses
<1> QED BY <1>1, <1>2, <1>5, <1>6, SamePasses, NoneServed DEF ServerNews

LEMMA StrangerOffersNews ==
  ASSUME Ready, StrangerOffers PROVE ServerNews
<1>1. PICK file \in StrangerFiles : NumberTransfer(Stranger, file)
  BY DEF StrangerOffers
<1>2. up' = up /\ file \in Offered
  BY DEF StrangerOffers, Offered
<1>3. NoFrameGone
  BY <1>2 DEF NoFrameGone, Frames
<1> QED BY <1>1, <1>2, <1>3, NumberNews

LEMMA LastElement ==
  ASSUME NEW M, NEW a \in Seq(M), NEW x, NEW y PROVE y \in Elements(a \o <<x, y>>)
<1>1. /\ Len(a \o <<x, y>>) = Len(a) + 2 /\ Len(a) \in Nat
      /\ (a \o <<x, y>>)[Len(a) + 2] = y
  OBVIOUS
<1> HIDE DEF Elements
<1>2. Len(a) + 2 \in 1..Len(a) + 2
  BY <1>1
<1> QED BY <1>1, <1>2 DEF Elements

LEMMA StrangerEndsNews ==
  ASSUME Ready, StrangerEnds PROVE ServerNews
<1>1. PICK t \in Tid :
       /\ xfer[t].from = Stranger
       /\ \/ /\ xfer[t].state = "active" /\ Becomes(t, "over")
             /\ Tell(<<>>, StrangerChunks(t, xfer[t].file) \o
                           <<Announce(S!CompleteText(t, xfer[t].file)),
                             [type |-> "COMPLETE", tid |-> t]>>)
          \/ xfer[t].state \in {"pending", "active"} /\ ServeCancel(Stranger, t)
  BY DEF StrangerEnds
<1>2. up' = up
  BY DEF StrangerEnds
<1>3. NoFrameGone
  BY <1>2 DEF NoFrameGone, Frames
<1>4. Stranger \notin {Sender, Receiver}
  BY RelayAssumption
<1>5. CASE xfer[t].state \in {"pending", "active"} /\ ServeCancel(Stranger, t)
  BY <1>1, <1>3, <1>4, <1>5, CancelNews
<1>6. CASE /\ xfer[t].state = "active" /\ Becomes(t, "over")
           /\ Tell(<<>>, StrangerChunks(t, xfer[t].file) \o
                           <<Announce(S!CompleteText(t, xfer[t].file)),
                             [type |-> "COMPLETE", tid |-> t]>>)
  <2> DEFINE chunks == StrangerChunks(t, xfer[t].file)
             m == Announce(S!CompleteText(t, xfer[t].file))
             n == [type |-> "COMPLETE", tid |-> t]
  <2>1. chunks \o <<m, n>> \in Seq(FitPlain)
    BY <1>6, StrangerSends DEF Ready
  <2>2. Closes(n, t)
    <3>1. n.type = "COMPLETE" /\ n.tid = t
      OBVIOUS
    <3> QED BY <3>1 DEF Closes
  <2>3. n \in Elements(chunks \o <<m, n>>)
    <3>1. chunks = [k \in 1..S!ChunkCount(FileSize[xfer[t].file]) |-> chunks[k]]
      BY DEF StrangerChunks
    <3>2. S!ChunkCount(FileSize[xfer[t].file]) \in Nat
      <4>1. xfer[t].file \in Offered
        BY <1>6, TransferFacts DEF Ready
      <4>2. FileSize[xfer[t].file] \in Nat
        BY <4>1, RelayAssumption DEF Offered
      <4> QED BY <4>2, RelayAssumption DEF S!ChunkCount
    <3> HIDE DEF chunks, m, n
    <3>3. chunks \in Seq({chunks[k] : k \in 1..S!ChunkCount(FileSize[xfer[t].file])})
      BY <3>1, <3>2
    <3> QED BY <3>3, LastElement
  <2>4. Tell(<<>>, chunks \o <<m, n>>) /\ <<>> \in Seq(ToSender)
    BY <1>6
  <2> HIDE DEF chunks, m, n
  <2>5. /\ Grows(Sender) /\ News(Sender) = {} /\ Grows(Receiver) /\ OffersNew /\ n \in News(Receiver)
    BY <2>1, <2>3, <2>4, ReadyTold, FewElements
  <2>6. /\ xfer'[t].state = "over" /\ xfer'[t].from = xfer[t].from /\ NumbersTold
        /\ \A u \in Tid : u # t => xfer'[u] = xfer[u]
    BY <1>6, OneBecomes
  <2>7. \A u \in Tid : Passes(u)
    BY <1>1, <1>4, <1>6, <2>2, <2>5, <2>6 DEF Passes
  <2> QED BY <1>3, <2>5, <2>6, <2>7, NothingSaid, NoneServed DEF ServerNews
<1> QED BY <1>1, <1>5, <1>6

-----------------------------------------------------------------------------
(* How transfers end: every step. *)

BothEnd == SenderEnds /\ ReceiverEnds

LEMMA ServerKeepsEnds ==
  ASSUME Ready, FilesUnmasked,
         \/ \E c \in {Sender, Receiver} : ServerTakes(c)
         \/ ServerDenies \/ StrangerOffers \/ StrangerEnds
  PROVE  BothEnd'
<1>1. ServerNews
  <2>1. ASSUME NEW c \in {Sender, Receiver}, ServerTakes(c) PROVE ServerNews
    <3>1. PICK i \in 1..Len(up[c]) : \E f \in up[c][i] :
            Serve(c, f) /\ up' = [up EXCEPT ![c] = Without(@, i, f)]
      BY <2>1 DEF ServerTakes
    <3>2. PICK f \in up[c][i] : Serve(c, f) /\ up' = [up EXCEPT ![c] = Without(@, i, f)]
      BY <3>1
    <3>3. CASE c = Sender
      BY <3>2, <3>3, SenderTakenNews
    <3>4. CASE c = Receiver
      BY <3>2, <3>4, ReceiverTakenNews
    <3> QED BY <3>3, <3>4
  <2> QED BY <2>1, DeniesNews, StrangerOffersNews, StrangerEndsNews
<1>2. ServerFrame
  BY DEF ServerTakes, ServerDenies, StrangerOffers, StrangerEnds, ServerFrame
<1>3. ClientsStay
  BY <1>2 DEF ServerFrame, SenderIdle, ReceiverIdle, senderVars, receiverVars, senderHistory, ClientsStay
<1>4. /\ SenderEnds /\ ReceiverEnds /\ SendTid /\ xfer \in XferType /\ MessagesTyped
      /\ OfferedOnce /\ KnownTransfers
  BY ReadyFacts DEF Ready
<1> QED BY <1>1, <1>3, <1>4, NewsKeepsSender, NewsKeepsReceiver DEF BothEnd

(* What a side owes does not depend on the steps of the other. *)
LEMMA SenderApart ==
  ASSUME SenderEnds, sSend' = sSend, xfer' = xfer, orphaned' = orphaned,
         down'[Sender] = down[Sender], Frames(Sender)' = Frames(Sender)
  PROVE  SenderEnds'
<1>1. /\ \A k : Behind(Sender, k)' = Behind(Sender, k)
      /\ Messages(Sender)' = Messages(Sender) /\ Transfers' = Transfers
  BY DEF Behind, Messages, Transfers
<1>2. SenderFrames /\ SenderMessages /\ TidsToCome /\ SendTaskOwed /\ TransfersHeld
  BY DEF SenderEnds
<1>3. SenderFrames'
  BY <1>1, <1>2 DEF SenderFrames, Going
<1>4. SenderMessages'
  BY <1>1, <1>2 DEF SenderMessages, Going
<1>5. TidsToCome'
  BY <1>1, <1>2 DEF TidsToCome, Due, Ending
<1>6. SendTaskOwed'
  BY <1>1, <1>2 DEF SendTaskOwed, Due, Ending
<1>7. TransfersHeld'
  BY <1>1, <1>2 DEF TransfersHeld
<1> QED BY <1>3, <1>4, <1>5, <1>6, <1>7 DEF SenderEnds

LEMMA ReceiverApart ==
  ASSUME ReceiverEnds, rRecv' = rRecv, rKnown' = rKnown, xfer' = xfer,
         down'[Receiver] = down[Receiver], Frames(Receiver)' = Frames(Receiver)
  PROVE  ReceiverEnds'
<1>1. /\ \A k : Behind(Receiver, k)' = Behind(Receiver, k)
      /\ Messages(Receiver)' = Messages(Receiver) /\ Offers' = Offers
      /\ \A k : OfferAt(k)' = OfferAt(k)
      /\ \A t : RecvTasks(t)' = RecvTasks(t)
  BY DEF Behind, Messages, Offers, OfferAt, RecvTasks
<1>2. ReceiverFrames /\ ReceiverTasks /\ OffersStand
  BY DEF ReceiverEnds
<1>3. ReceiverFrames'
  BY <1>1, <1>2 DEF ReceiverFrames
<1>4. ReceiverTasks'
  BY <1>1, <1>2 DEF ReceiverTasks, Closing
<1>5. OffersStand'
  BY <1>1, <1>2 DEF OffersStand, Closing
<1> QED BY <1>3, <1>4, <1>5 DEF ReceiverEnds

LEMMA OwnStepEnds ==
  ASSUME Ready, ReceiverIdle, xfer' = xfer, down' = down, orphaned => orphaned', Uploads(Sender, sOut'),
         sOut' \subseteq FromSender, OwnMove
  PROVE  BothEnd'
<1>1. /\ MessagesTyped /\ SenderInv /\ Sending /\ SenderEnds /\ ReceiverEnds
      /\ up[Sender] \in Seq(SUBSET FromSender) /\ Sender # Receiver
  BY RelayAssumption DEF Ready, AllInv, RelayInv, Wires, MessagesTyped
<1>2. Frames(Sender)' = Frames(Sender) \cup sOut' /\ Frames(Receiver)' = Frames(Receiver)
  BY <1>1, SendsFrames
<1>3. SenderEnds'
  BY <1>1, <1>2, OwnKeepsEnds DEF SenderMoves
<1>4. ReceiverEnds'
  BY <1>1, <1>2, ReceiverApart DEF ReceiverIdle, receiverVars
<1> QED BY <1>3, <1>4 DEF BothEnd

LEMMA SenderOffersEnds == ASSUME Ready, SenderOffers PROVE BothEnd'
<1>1. PICK file \in SendFiles : SenderDoes(S!CmdSendfile(file))
  BY DEF SenderOffers
<1>2. /\ S!CmdSendfile(file) /\ Uploads(Sender, sOut') /\ ReceiverIdle
      /\ UNCHANGED <<xfer, down>> /\ orphaned' = orphaned
  BY <1>1 DEF SenderOffers, SenderDoes, serverVars
<1>3. Asks(file)
  BY <1>2, Asking DEF Ready, AllInv, RelayInv, Wires
<1>4. OwnStep
  BY <1>2, StepOfOwn DEF Ready
<1>5. sOut' \subseteq FromSender
  BY <1>3, <1>4, AsksSending
<1>6. OwnMove
  BY <1>3, MovesOwn
<1> QED BY <1>2, <1>5, <1>6, OwnStepEnds

LEMMA SenderCancelsEnds == ASSUME Ready, SenderCancels PROVE BothEnd'
<1>1. PICK tid \in TypedTid : SenderDoes(S!CmdCancel(tid))
  BY DEF SenderCancels
<1>2. /\ S!CmdCancel(tid) /\ Uploads(Sender, sOut') /\ ReceiverIdle
      /\ UNCHANGED <<xfer, down>> /\ orphaned' = (orphaned \/ sSend.state = "PENDING_TID")
  BY <1>1 DEF SenderCancels, SenderDoes, serverVars
<1>3. (orphaned => orphaned') /\ (orphaned' <=> orphaned \/ sSend.state = "PENDING_TID")
  BY <1>2
<1>4. Quits
  BY <1>2, Cancelling DEF Ready, AllInv, RelayInv, Wires
<1>5. OwnStep
  BY <1>2, <1>3, StepOfOwn DEF Ready
<1>6. sOut' \subseteq FromSender
  BY <1>3, <1>4, <1>5, QuitsSending
<1>7. OwnMove
  BY <1>4, MovesOwn
<1> QED BY <1>2, <1>3, <1>6, <1>7, OwnStepEnds

LEMMA SenderTicksEnds == ASSUME Ready, SenderTicks PROVE BothEnd'
<1>1. \/ S!TickChunks \/ S!TickComplete
      \/ \E n \in 0..ChunksPerRound-1 : n < S!Round /\ S!TickReadFails(n)
  BY DEF SenderTicks, SenderDoes
<1>2. /\ Uploads(Sender, sOut') /\ ReceiverIdle
      /\ UNCHANGED <<xfer, down>> /\ orphaned' = orphaned
  BY DEF SenderTicks, SenderDoes, senderHistory, serverVars
<1>3. Works \/ (Quits /\ sSend.state = "ACTIVE")
  BY <1>1, Ticking DEF Ready, AllInv, RelayInv, Wires, Sending
<1>4. OwnStep
  BY <1>2, StepOfOwn DEF Ready
<1>5. sOut' \subseteq FromSender
  BY <1>2, <1>3, <1>4, WorksSending, QuitsSending
<1>6. OwnMove
  BY <1>3, MovesOwn
<1> QED BY <1>2, <1>5, <1>6, OwnStepEnds

LEMMA SenderHandlesEnds == ASSUME Ready, SenderHandles PROVE BothEnd'
<1> DEFINE m == Head(down[Sender])
<1>1. /\ down[Sender] # <<>> /\ S!Listening /\ S!Handle(m) /\ orphaned' = (orphaned \/ Misses(m))
      /\ down' = [down EXCEPT ![Sender] = Tail(@)] /\ Uploads(Sender, sOut')
      /\ ReceiverIdle /\ xfer' = xfer
  BY DEF SenderHandles, serverVars
<1> HIDE DEF m
<1>2. /\ MessagesTyped /\ Roles /\ Sending /\ SendTid /\ SenderInv /\ SenderEnds /\ ReceiverEnds
      /\ sPhase # "closed" /\ Sender # Receiver
  BY RelayAssumption DEF Ready, Together, AllInv, RelayInv, Wires, Sending
<1>3. m \in ToSender
  BY <1>1, <1>2, SenderQueue, Tailed DEF m
<1>4. Moved(m)
  BY <1>1, <1>2, <1>3, MovedBy
<1>5. up' = up
  BY <1>1, <1>2, <1>3, SenderHandlesAny DEF Uploads, Handled
<1>6. Frames(Sender)' = Frames(Sender) /\ Frames(Receiver)' = Frames(Receiver)
  BY <1>5 DEF Frames
<1>7. /\ down'[Sender] = Tail(down[Sender]) /\ down'[Receiver] = down[Receiver]
  BY <1>1, <1>2 DEF MessagesTyped
<1>8. (orphaned' <=> orphaned \/ Misses(m)) /\ (orphaned => orphaned')
  BY <1>1
<1>9. SenderEnds'
  BY <1>1, <1>2, <1>3, <1>4, <1>6, <1>7, <1>8, HandlingKeepsEnds DEF SenderMoves, m
<1>10. ReceiverEnds'
  BY <1>1, <1>2, <1>6, <1>7, ReceiverApart DEF ReceiverIdle, receiverVars
<1> QED BY <1>9, <1>10 DEF BothEnd

LEMMA ReceiverCommandsEnds == ASSUME Ready, ReceiverCommands PROVE BothEnd'
<1>1. PICK tid \in TypedTid : R!CmdAccept(tid) \/ R!CmdReject(tid) \/ R!CmdCancel(tid)
  BY DEF ReceiverCommands
<1>2. /\ Uploads(Receiver, rOut') /\ SenderIdle /\ UNCHANGED <<xfer, down>> /\ orphaned' = orphaned
  BY DEF ReceiverCommands, serverVars, senderHistory
<1>3. /\ ReceiverInv /\ Roles /\ Receipt /\ MessagesTyped /\ ReceiverEnds /\ SenderEnds
      /\ up[Receiver] \in Seq(SUBSET FromReceiver) /\ Sender # Receiver
  BY RelayAssumption DEF Ready, AllInv, RelayInv, Wires, MessagesTyped
<1>4. PICK i \in Slots : Drops(i) \/ Opens(i)
  BY <1>1, <1>3, ReceiverCommanded
<1>5. rOut' \subseteq FromReceiver
  BY <1>3, <1>4, CommandSendsTyped
<1>6. Frames(Receiver)' = Frames(Receiver) \cup rOut' /\ Frames(Sender)' = Frames(Sender)
  BY <1>2, <1>3, <1>5, SendsFrames
<1>7. ReceiverEnds'
  BY <1>2, <1>3, <1>4, <1>6, CommandKeepsEnds
<1>8. SenderEnds'
  BY <1>2, <1>3, <1>6, SenderApart DEF SenderIdle, senderVars
<1> QED BY <1>7, <1>8 DEF BothEnd

LEMMA ReceiverHandlesEnds == ASSUME Ready, ReceiverHandles PROVE BothEnd'
<1> DEFINE m == Head(down[Receiver])
<1>1. /\ down[Receiver] # <<>> /\ R!Listening /\ R!Handle(m) /\ RecordFiles(m)
      /\ down' = [down EXCEPT ![Receiver] = Tail(@)] /\ Uploads(Receiver, rOut')
      /\ SenderIdle /\ UNCHANGED <<xfer, orphaned>>
  BY DEF ReceiverHandles, serverVars, senderHistory
<1> HIDE DEF m
<1>2. /\ ReceiverInv /\ Roles /\ Receipt /\ MessagesTyped /\ FileOfTid /\ ReceiverEnds /\ SenderEnds
      /\ up[Receiver] \in Seq(SUBSET FromReceiver) /\ Sender # Receiver
      /\ rPhase \notin {"closed", "killed"}
  BY RelayAssumption DEF Ready, Together, AllInv, RelayInv, Wires, Sending, MessagesTyped
<1>3. m \in ToReceiver
  BY <1>1, <1>2, ReceiverQueue, Tailed DEF m
<1>4. Taken(m)
  BY <1>1, <1>2, <1>3, ReceiverHandlesAny
<1>5. down'[Receiver] = Tail(down[Receiver]) /\ down'[Sender] = down[Sender]
  BY <1>1, <1>2 DEF MessagesTyped
<1>6. HandlingReceipt(m)
  BY <1>1, <1>2, <1>3, <1>4 DEF HandlingReceipt, m
<1>7. rOut' \subseteq FromReceiver
  BY <1>6, HandlingSendsTyped
<1>8. Frames(Receiver)' = Frames(Receiver) \cup rOut' /\ Frames(Sender)' = Frames(Sender)
  BY <1>1, <1>2, <1>7, SendsFrames
<1>9. ReceiverEnds'
  BY <1>1, <1>2, <1>5, <1>6, <1>8, TakingKeepsEnds
<1>10. SenderEnds'
  BY <1>1, <1>2, <1>5, <1>8, SenderApart DEF SenderIdle, senderVars
<1> QED BY <1>9, <1>10 DEF BothEnd

(* At the login nothing is owed. *)
LEMMA LoginEnds == ASSUME AllInv, NothingYet, BothOnline PROVE BothEnd'
<1>1. /\ S!SessionStart /\ R!SessionStart /\ UNCHANGED <<up, down, xfer, orphaned>>
  BY DEF BothOnline, senderHistory
<1>2. sPhase = "login" /\ sSend' = S!FreeSend
  BY <1>1, SenderLives DEF AllInv
<1>3. rRecv' = [i \in Slots |-> R!FreeTask]
  BY <1>1, ReceiverLives DEF AllInv
<1>4. Transfers' = {}
  BY <1>1, <1>2 DEF NothingYet, Transfers
<1>5. \A c \in {Sender, Receiver} : up'[c] = <<>> /\ down'[c] = <<>>
  BY <1>1, <1>2 DEF AllInv, RelayInv, Wires, BeforeLogin
<1>6. \A c \in {Sender, Receiver} : Frames(c)' = {} /\ Messages(c)' = {} /\ Len(down'[c]) = 0
  BY <1>5 DEF Frames, Messages, Behind
<1>7. Offers' = {}
  BY <1>6 DEF Offers
<1>8. sSend'.state = "NONE" /\ sSend'.tid = 0 /\ \A i \in 1..RecvSlots : ~rRecv'[i].busy
  BY <1>2, <1>3 DEF S!FreeSend, R!FreeTask, Slots
<1>9. 0 \notin Tid
  BY TheTids DEF TidRange
<1>10. SenderEnds'
  BY <1>4, <1>6, <1>8, <1>9 DEF SenderEnds, SenderFrames, SenderMessages, TidsToCome, SendTaskOwed, TransfersHeld
<1>11. ReceiverEnds'
  BY <1>6, <1>7, <1>8 DEF ReceiverEnds, ReceiverFrames, ReceiverTasks, OffersStand
<1> QED BY <1>10, <1>11 DEF BothEnd

(* Both are in their sessions only after both were, or after the login. *)
LEMMA NoneLeaves == ASSUME AllInv, Together' PROVE ~Leave /\ ~SenderGone /\ ~ReceiverGone
<1>1. /\ S!Stop => sPhase' = "closing"
      /\ S!Destroy => sPhase' = "closed"
      /\ R!Stop => rPhase' = "closing"
      /\ R!Destroy => rPhase' = "closed"
  BY SenderLives, ReceiverLives DEF AllInv
<1> QED BY <1>1 DEF SenderGone, ReceiverGone, Leave, ClientEnds, Together

LEMMA StillTogether ==
  ASSUME AllInv, [Next]_vars, ~BothOnline, Together' PROVE Together
<1>1. CASE UNCHANGED vars
  BY <1>1 DEF vars, senderVars, receiverVars, serverVars, Together
<1>2. CASE Client
  <2>2. ~SenderGone /\ ~ReceiverGone /\ ~Leave
    BY NoneLeaves
  <2>3. SenderInv /\ Roles /\ SendTid /\ MessagesTyped /\ ReceiverInv
    BY DEF AllInv, RelayInv, Wires, Sending
  <2>4. CASE SenderOffers
    <3>1. PICK file \in SendFiles : S!CmdSendfile(file) /\ ReceiverIdle /\ online' = online
      BY <2>4 DEF SenderOffers, SenderDoes, serverVars
    <3>2. sPhase = "session"
      BY <2>3, <3>1, Asking DEF Asks, SenderFrame
    <3> QED BY <2>2, <3>1, <3>2 DEF Together, ReceiverIdle, receiverVars
  <2>5. CASE SenderCancels
    <3>1. PICK tid \in TypedTid : S!CmdCancel(tid) /\ ReceiverIdle /\ online' = online
      BY <2>5 DEF SenderCancels, SenderDoes, serverVars
    <3>2. sPhase = "session"
      BY <2>3, <3>1, Cancelling DEF Quits, SenderFrame
    <3> QED BY <2>2, <3>1, <3>2 DEF Together, ReceiverIdle, receiverVars
  <2>6. CASE SenderTicks
    <3>1. /\ \/ S!TickChunks \/ S!TickComplete
             \/ \E n \in 0..ChunksPerRound-1 : n < S!Round /\ S!TickReadFails(n)
          /\ ReceiverIdle /\ online' = online
      BY <2>6 DEF SenderTicks, SenderDoes, serverVars
    <3>2. sPhase = "session"
      BY <2>3, <3>1, Ticking DEF Quits, Works, SenderFrame
    <3> QED BY <2>2, <3>1, <3>2 DEF Together, ReceiverIdle, receiverVars
  <2>7. CASE SenderHandles
    <3>1. /\ down[Sender] # <<>> /\ S!Handle(Head(down[Sender])) /\ ReceiverIdle /\ online' = online
      BY <2>7 DEF SenderHandles, serverVars
    <3>2. Head(down[Sender]) \in ToSender
      BY <2>3, <3>1, SenderQueue, Tailed
    <3>3. sPhase' = sPhase
      BY <2>3, <3>1, <3>2, SenderHandlesAny DEF Handled
    <3> QED BY <2>2, <3>1, <3>3 DEF Together, ReceiverIdle, receiverVars
  <2>8. CASE ReceiverCommands
    <3>1. PICK tid \in TypedTid : /\ R!CmdAccept(tid) \/ R!CmdReject(tid) \/ R!CmdCancel(tid)
                                  /\ SenderIdle /\ online' = online
      BY <2>8 DEF ReceiverCommands, serverVars
    <3>2. rPhase = "session"
      BY <2>3, <3>1, ReceiverCommanded
    <3> QED BY <2>2, <3>1, <3>2 DEF Together, SenderIdle, senderVars
  <2>9. CASE ReceiverHandles
    <3>1. /\ down[Receiver] # <<>> /\ R!Handle(Head(down[Receiver])) /\ SenderIdle /\ online' = online
      BY <2>9 DEF ReceiverHandles, serverVars
    <3>2. Head(down[Receiver]) \in ToReceiver
      BY <2>3, <3>1, ReceiverQueue, Tailed
    <3>3. rPhase' = rPhase
      BY <2>3, <3>1, <3>2, ReceiverHandlesAny DEF AllInv, RelayInv, Receipt, Taken
    <3> QED BY <2>2, <3>1, <3>3 DEF Together, SenderIdle, senderVars
  <2> QED BY <1>2, <2>2, <2>4, <2>5, <2>6, <2>7, <2>8, <2>9 DEF Client
<1>3. CASE Server
  <2>1. sPhase' = sPhase /\ rPhase' = rPhase /\ SenderIdle
    BY <1>3, ServerMoves DEF ServerFrame, SenderIdle, ReceiverIdle, senderVars, receiverVars
  <2>2. online' \subseteq online /\ online \subseteq {Sender, Receiver}
    BY <1>3 DEF Server, ServerTakes, ServerHangsUp, ServerDenies, StrangerOffers, StrangerEnds, serverVars,
                AllInv, RelayInv, Wires, ServerTypeOK
  <2> QED BY <2>1, <2>2 DEF Together
<1> QED BY <1>1, <1>2, <1>3 DEF Next

LEMMA NextEnds ==
  ASSUME AllInv, FilesUnmasked, EndsInv, [Next]_vars, Together' PROVE BothEnd'
<1>1. CASE BothOnline
  BY <1>1, LoginEnds DEF EndsInv
<1>2. CASE ~BothOnline
  <2>1. Ready
    BY <1>2, StillTogether DEF EndsInv, Ready
  <2>2. ~Leave /\ ~SenderGone /\ ~ReceiverGone
    BY NoneLeaves
  <2>3. \A c \in {Sender, Receiver} : ~ServerHangsUp(c)
    BY DEF ServerHangsUp, Together
  <2>4. CASE UNCHANGED vars
    <3>1. /\ UNCHANGED senderVars /\ UNCHANGED receiverVars /\ UNCHANGED <<up, down, xfer, orphaned>>
      BY <2>4 DEF vars, serverVars, senderHistory
    <3>2. \A c : Frames(c)' = Frames(c)
      BY <3>1 DEF Frames
    <3>3. SenderEnds'
      BY <2>1, <3>1, <3>2, SenderApart DEF Ready, senderVars
    <3>4. ReceiverEnds'
      BY <2>1, <3>1, <3>2, ReceiverApart DEF Ready, receiverVars
    <3> QED BY <3>3, <3>4 DEF BothEnd
  <2>5. CASE Client
    BY <2>1, <2>2, <2>5, SenderOffersEnds, SenderCancelsEnds, SenderTicksEnds, SenderHandlesEnds,
       ReceiverCommandsEnds, ReceiverHandlesEnds DEF Client
  <2>6. CASE Server
    BY <2>1, <2>3, <2>6, ServerKeepsEnds DEF Server
  <2> QED BY <1>2, <2>4, <2>5, <2>6 DEF Next
<1> QED BY <1>1, <1>2

(* The server does nothing before the login. *)
LEMMA ServerWaits ==
  ASSUME AllInv, NothingYet, Server PROVE sPhase # "login"
<1> SUFFICES ASSUME sPhase = "login" PROVE FALSE
  OBVIOUS
<1>1. /\ online = {} /\ Transfers = {} /\ \A c \in {Sender, Receiver} : up[c] = <<>>
  BY DEF AllInv, RelayInv, Wires, BeforeLogin, NothingYet
<1>2. \A c \in {Sender, Receiver} : ~ServerTakes(c) /\ ~ServerHangsUp(c)
  <2>1. \A c \in {Sender, Receiver} : Len(up[c]) = 0
    BY <1>1
  <2>2. \A c \in {Sender, Receiver} : 1..Len(up[c]) = {}
    BY <2>1
  <2> QED BY <1>1, <2>2 DEF ServerTakes, ServerHangsUp
<1>3. ~ServerDenies /\ ~StrangerOffers
  BY <1>1 DEF ServerDenies, StrangerOffers
<1>4. ~StrangerEnds
  BY <1>1 DEF StrangerEnds, Transfers
<1> QED BY <1>2, <1>3, <1>4 DEF Server

LEMMA NextNothing ==
  ASSUME AllInv, NothingYet, [Next]_vars PROVE NothingYet'
<1> SUFFICES ASSUME sPhase' = "login" PROVE Transfers' = {}
  BY DEF NothingYet
<1>1. /\ S!Stop => sPhase' = "closing"
      /\ S!Destroy => sPhase' = "closed"
      /\ S!SessionStart => sPhase' = "session"
  BY SenderLives DEF AllInv
<1>2. SenderInv /\ Roles /\ SendTid /\ MessagesTyped /\ BeforeLogin
  BY DEF AllInv, RelayInv, Wires, Sending
<1>3. CASE xfer' = xfer /\ sPhase' = sPhase
  BY <1>3 DEF NothingYet, Transfers
<1>4. CASE UNCHANGED vars
  BY <1>3, <1>4 DEF vars, senderVars, serverVars
<1>5. CASE BothOnline
  BY <1>1, <1>5 DEF BothOnline
<1>6. CASE Server
  <2>1. sPhase' = sPhase
    BY <1>6, ServerMoves DEF ServerFrame, SenderIdle, senderVars
  <2> QED BY <1>6, <2>1, ServerWaits
<1>7. CASE Client
  <2>1. CASE ReceiverCommands \/ ReceiverHandles \/ ReceiverGone \/ (Leave /\ SenderIdle)
    BY <1>3, <2>1 DEF ReceiverCommands, ReceiverHandles, ReceiverGone, ClientEnds, Leave, SenderIdle,
                         serverVars, senderVars
  <2>2. CASE SenderGone \/ (Leave /\ ~SenderIdle)
    BY <1>1, <2>2 DEF SenderGone, Leave, ClientEnds
  <2>3. CASE SenderOffers
    <3>1. PICK file \in SendFiles : S!CmdSendfile(file)
      BY <2>3 DEF SenderOffers, SenderDoes
    <3> QED BY <1>2, <3>1, Asking DEF Asks, SenderFrame
  <2>4. CASE SenderCancels
    <3>1. PICK tid \in TypedTid : S!CmdCancel(tid)
      BY <2>4 DEF SenderCancels, SenderDoes
    <3> QED BY <1>2, <3>1, Cancelling DEF Quits, SenderFrame
  <2>5. CASE SenderTicks
    <3>1. \/ S!TickChunks \/ S!TickComplete
          \/ \E n \in 0..ChunksPerRound-1 : n < S!Round /\ S!TickReadFails(n)
      BY <2>5 DEF SenderTicks, SenderDoes
    <3> QED BY <1>2, <3>1, Ticking DEF Quits, Works, SenderFrame
  <2>6. CASE SenderHandles
    <3>1. down[Sender] # <<>> /\ S!Handle(Head(down[Sender])) /\ xfer' = xfer
      BY <2>6 DEF SenderHandles, serverVars
    <3>2. Head(down[Sender]) \in ToSender
      BY <1>2, <3>1, SenderQueue, Tailed
    <3>3. sPhase' = sPhase
      BY <1>2, <3>1, <3>2, SenderHandlesAny DEF Handled
    <3> QED BY <1>3, <3>1, <3>3
  <2> QED BY <1>7, <2>1, <2>2, <2>3, <2>4, <2>5, <2>6 DEF Client
<1> QED BY <1>4, <1>5, <1>6, <1>7 DEF Next

LEMMA InitEnds == ASSUME Init PROVE EndsInv
<1>1. online = {} /\ Transfers = {}
  BY DEF Init, Transfers, NoTransfer
<1> QED BY <1>1 DEF EndsInv, NothingYet, Together

(* What is owed while the two have their sessions: every task that waits, waits
   for something that is still under way. *)
THEOREM EndsInvHolds == Spec => [](FilesUnmasked => EndsInv)
<1>1. Init => (FilesUnmasked => EndsInv)
  BY InitEnds
<1>2. AllInv /\ (FilesUnmasked => EndsInv) /\ [Next]_vars => (FilesUnmasked => EndsInv)'
  <2> SUFFICES ASSUME AllInv, FilesUnmasked => EndsInv, [Next]_vars, FilesUnmasked' PROVE EndsInv'
    OBVIOUS
  <2>1. FilesUnmasked
    BY DEF FilesUnmasked, Offered
  <2>2. NothingYet'
    BY <2>1, NextNothing DEF EndsInv
  <2>3. Together' => SenderEnds' /\ ReceiverEnds'
    BY <2>1, NextEnds DEF BothEnd
  <2> QED BY <2>2, <2>3 DEF EndsInv
<1> QED BY <1>1, <1>2, AllInvHolds, PTL DEF Spec

LEMMA AgreeWhenSettled == ASSUME AllInv, EndsInv PROVE EndsAgree
<1> SUFFICES ASSUME Settled
    PROVE  /\ sSend.state \notin {"PENDING_TID", "WAIT_COMPLETE"}
           /\ sSend.state = "PENDING" => xfer[sSend.tid].state = "pending"
           /\ sSend.state \in {"ACTIVE", "DONE"} => xfer[sSend.tid].state = "active"
           /\ \A i \in 1..RecvSlots : rRecv[i].busy =>
                xfer[rRecv[i].tid].state = IF rRecv[i].open THEN "active" ELSE "pending"
           /\ ~orphaned => \A t \in Transfers :
                xfer[t].state # "over" /\ xfer[t].from = Sender => sSend.tid = t
  BY DEF EndsAgree
<1>1. SenderEnds /\ ReceiverEnds
  BY DEF Settled, Together, EndsInv
<1>2. \A c \in {Sender, Receiver} : Frames(c) = {} /\ Messages(c) = {}
  BY DEF Settled, Frames, Messages, Behind
<1>3. SendTaskOwed /\ TransfersHeld /\ ReceiverTasks
  BY <1>1 DEF SenderEnds, ReceiverEnds
<1>4. /\ sSend.state \notin {"PENDING_TID", "WAIT_COMPLETE"}
      /\ sSend.state = "PENDING" => xfer[sSend.tid].state = "pending"
      /\ sSend.state \in {"ACTIVE", "DONE"} => xfer[sSend.tid].state = "active"
  BY <1>2, <1>3 DEF SendTaskOwed, Due, Ending
<1>5. \A i \in 1..RecvSlots : rRecv[i].busy =>
        xfer[rRecv[i].tid].state = IF rRecv[i].open THEN "active" ELSE "pending"
  BY <1>2, <1>3 DEF ReceiverTasks, Closing
<1>6. ~orphaned => \A t \in Transfers :
        xfer[t].state # "over" /\ xfer[t].from = Sender => sSend.tid = t
  BY <1>2, <1>3 DEF TransfersHeld
<1> QED BY <1>4, <1>5, <1>6

(* Once nothing is under way, the clients and the server agree on every
   transfer, if no file is called like the answer to an offer. *)
THEOREM EndsAgreeHolds == Spec => [](FilesUnmasked => EndsAgree)
<1>1. AllInv /\ (FilesUnmasked => EndsInv) => (FilesUnmasked => EndsAgree)
  BY AgreeWhenSettled
<1> QED BY <1>1, AllInvHolds, EndsInvHolds, PTL
=============================================================================
