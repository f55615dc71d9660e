------------------------- MODULE FileTransferProofs -------------------------
(***************************************************************************)
(* Proofs about FileTransfer for every value of its constants.  First the  *)
(* receiving side: what is on the disk is what was announced.  Then the    *)
(* sending side: the send task emits a gapless prefix of its file, only    *)
(* for the transfer that was accepted, and COMPLETE only after all of it;  *)
(* and its answers name transfers announced to this process.               *)
(***************************************************************************)
EXTENDS FileTransferInv, FiniteSetTheorems, TLAPS

-----------------------------------------------------------------------------
(* Arithmetic of chunks. *)

LEMMA MulMono == \A a, b, c \in Nat : a <= b => a * c <= b * c
OBVIOUS

(* Division with remainder. *)
LEMMA DivMod == \A n \in Nat : \A c \in Nat \ {0} :
     /\ n \div c \in Nat /\ n % c \in 0..c-1 /\ n = c * (n \div c) + (n % c)
OBVIOUS

(* Two different multiples of c are at least c apart. *)
LEMMA Aligned ==
  \A c \in Nat \ {0} : \A a, b \in Nat :
     a % c = 0 /\ b % c = 0 /\ a < b => a + c <= b
<1> TAKE c \in Nat \ {0}
<1> TAKE a, b \in Nat
<1> HAVE a % c = 0 /\ b % c = 0 /\ a < b
<1> DEFINE p == a \div c
           q == b \div c
<1>1. p \in Nat /\ q \in Nat /\ a = c * p /\ b = c * q
  BY DivMod
<1> HIDE DEF p, q
<1>2. p < q
  <2> SUFFICES ASSUME q <= p PROVE FALSE
    BY <1>1
  <2>1. q * c <= p * c
    BY <1>1, MulMono
  <2> QED BY <1>1, <2>1
<1>3. (p + 1) * c <= q * c
  BY <1>1, <1>2, MulMono
<1>4. (p + 1) * c = p * c + c
  BY <1>1
<1> QED BY <1>1, <1>3, <1>4

LEMMA ChunkCountType == \A size \in Nat : size \div ChunkMax \in Nat /\ ChunkCount(size) \in Nat
<1> TAKE size \in Nat
<1> DEFINE q == size \div ChunkMax
           r == size % ChunkMax
<1>1. q \in Nat /\ r \in 0..ChunkMax-1
  BY SizesAssumption, DivMod
<1>2. ChunkCount(size) = q + (IF r # 0 THEN 1 ELSE 0)
  BY DEF ChunkCount
<1> HIDE DEF q, r
<1>3. ChunkCount(size) \in Nat
  BY <1>1, <1>2
<1> QED BY <1>1, <1>3 DEF q

(* Every chunk index below the chunk count starts inside the file. *)
LEMMA ChunkInside ==
  ASSUME NEW size \in Nat, NEW index \in Nat, index < ChunkCount(size)
  PROVE  index * ChunkMax < size /\ index * ChunkMax \in Nat
<1> DEFINE q == size \div ChunkMax
           r == size % ChunkMax
<1>1. ChunkMax \in Nat \ {0} /\ q \in Nat /\ r \in 0..ChunkMax-1 /\ size = ChunkMax * q + r
  BY SizesAssumption, DivMod
<1>2. index < q + (IF r # 0 THEN 1 ELSE 0)
  BY DEF ChunkCount
<1> HIDE DEF q, r
<1>3. CASE index < q
  <2>1. (index + 1) * ChunkMax <= q * ChunkMax
    BY <1>1, <1>3, MulMono
  <2>2. (index + 1) * ChunkMax = index * ChunkMax + ChunkMax
    BY <1>1
  <2> QED BY <1>1, <2>1, <2>2
<1>4. CASE index >= q
  <2>1. index = q /\ r > 0
    BY <1>1, <1>2, <1>4
  <2> QED BY <1>1, <2>1
<1> QED BY <1>1, <1>3, <1>4

LEMMA ChunkLenType ==
  ASSUME NEW size \in Nat, NEW index \in Nat, index < ChunkCount(size)
  PROVE  ChunkLen(size, index) \in Nat \ {0}
BY ChunkInside, SizesAssumption DEF ChunkLen

-----------------------------------------------------------------------------
(* Typing.  The disk and task variables keep their types under each of the
   helpers the handlers are built from. *)

RecvTypeOK ==
  /\ recv \in [Slot -> Task]
  /\ present \subseteq Name /\ content \in [Name -> SUBSET Nat]
  /\ saved \subseteq [name : Name, size : InitSize]

SendTypeOK == send \in SendTask /\ emitted \subseteq Nat

(* A lookup returns slots. *)
LEMMA LookupInSlot ==
  /\ \A tid : RecvFind(tid) \subseteq Slot
  /\ RecvActive \subseteq Slot /\ RecvFree \subseteq Slot /\ Uninited \subseteq Slot
BY DEF RecvFind, RecvActive, RecvFree, Uninited, Lowest

(* What each lookup promises about the slot it returns. *)
LEMMA LookupFacts ==
  /\ \A tid : \A i \in RecvFind(tid) : recv[i].busy /\ recv[i].tid = tid
  /\ \A i \in RecvActive : recv[i].busy /\ recv[i].open
  /\ \A i \in RecvFree : ~recv[i].busy
  /\ \A i \in Uninited : recv[i].busy /\ ~recv[i].inited
BY DEF RecvFind, RecvActive, RecvFree, Uninited, Lowest

LEMMA InitSizeType == \A size \in InitSize \cup {0} : size \in Nat
BY WireAssumption

LEMMA FreeTaskType == FreeTask \in Task
BY SizesAssumption DEF FreeTask, Task

LEMMA FreeSendType == FreeSend \in SendTask
BY DEF FreeSend, SendTask, SendState

LEMMA SendClearType == SendClear => SendTypeOK'
BY FreeSendType DEF SendClear, SendTypeOK

RecvBase == RecvTypeOK /\ TaskShape

LEMMA RecvClearBase ==
  ASSUME RecvBase, NEW i \in Slot, RecvClear(i) PROVE RecvBase'
<1>1. RecvTypeOK'
  BY FreeTaskType DEF RecvBase, RecvTypeOK, RecvClear
<1>2. TaskShape'
  <2>1. recv \in [Slot -> Task]
    BY DEF RecvBase, RecvTypeOK
  <2>2. \A j \in Slot : recv'[j] = recv[j] \/ recv'[j] = FreeTask
    BY <2>1 DEF RecvClear
  <2>3. ~FreeTask.open /\ FreeTask.name = NoName
    BY DEF FreeTask
  <2> QED BY <2>2, <2>3 DEF TaskShape, RecvBase
<1> QED BY <1>1, <1>2 DEF RecvBase

LEMMA RecvFinishBase ==
  ASSUME RecvBase, NEW i \in Slot, recv[i].open, RecvFinish(i) PROVE RecvBase'
<1>1. CASE recv[i].received = recv[i].size
  <2>0. RecvTypeOK /\ TaskShape /\ recv \in [Slot -> Task] /\ recv[i] \in Task
    BY DEF RecvBase, RecvTypeOK
  <2>1. recv[i].name \in Name /\ recv[i].size \in InitSize \cup {0} /\ recv[i].size > 0
    BY <2>0 DEF TaskShape, Task
  <2>2. recv' = [recv EXCEPT ![i] = FreeTask] /\ recv' \in [Slot -> Task]
    BY <1>1, <2>0, FreeTaskType DEF RecvFinish
  <2>3. content' \in [Name -> SUBSET Nat]
    BY <1>1, <2>0 DEF RecvFinish, RecvTypeOK
  <2>4. recv[i].size # 0
    BY <2>1
  <2>5. saved' \subseteq [name : Name, size : InitSize] /\ present' \subseteq Name
    BY <1>1, <2>0, <2>1, <2>4 DEF RecvFinish, RecvTypeOK
  <2>6. ~FreeTask.open /\ FreeTask.name = NoName
    BY DEF FreeTask
  <2>7. \A j \in Slot : recv'[j] = recv[j] \/ recv'[j] = FreeTask
    BY <2>0, <2>2
  <2>8. TaskShape'
    BY <2>0, <2>6, <2>7 DEF TaskShape
  <2> QED BY <2>2, <2>3, <2>5, <2>8 DEF RecvBase, RecvTypeOK
<1>2. CASE recv[i].received # recv[i].size
  BY <1>2, RecvClearBase DEF RecvFinish
<1> QED BY <1>1, <1>2

LEMMA ResetAllBase ==
  ASSUME RecvBase, ResetAll PROVE RecvBase' /\ SendTypeOK' /\ recvSeq' = recvSeq
<1>1. recv' \in [Slot -> Task] /\ \A j \in Slot : recv'[j] = FreeTask
  BY FreeTaskType DEF ResetAll
<1>2. content' \in [Name -> SUBSET Nat] /\ present' \subseteq Name
  BY DEF ResetAll, RecvBase, RecvTypeOK
<1>3. saved' = saved /\ recvSeq' = recvSeq
  BY DEF ResetAll
<1>4. TaskShape'
  BY <1>1 DEF TaskShape, FreeTask
<1> QED BY <1>1, <1>2, <1>3, <1>4, SendClearType DEF RecvBase, RecvTypeOK, ResetAll

LEMMA DiskUnchangedBase ==
  ASSUME RecvBase, UNCHANGED <<recv, diskVars>> PROVE RecvBase'
BY DEF RecvBase, RecvTypeOK, TaskShape, diskVars

-----------------------------------------------------------------------------
(* The whole type invariant.  RestTypeOK is what no helper touches. *)

RestTypeOK ==
  /\ phase \in {"login", "session", "closing", "closed", "killed"}
  /\ broken \in BOOLEAN
  /\ known \subseteq Tid /\ accepted \subseteq Tid /\ stranded \subseteq Name

TypeInv == TypeOK /\ TaskShape

LEMMA TypeInvParts ==
  TypeInv => /\ RecvBase /\ SendTypeOK /\ RestTypeOK
             /\ recvSeq \in 0..MaxSeq /\ out \subseteq Frame
             /\ recv \in [Slot -> Task] /\ TaskShape
             /\ send \in SendTask /\ emitted \subseteq Nat
BY DEF TypeInv, TypeOK, RecvBase, RecvTypeOK, SendTypeOK, RestTypeOK

LEMMA NextTypeInv ==
  ASSUME RecvBase', SendTypeOK', RestTypeOK', recvSeq' \in 0..MaxSeq, out' \subseteq Frame
  PROVE  TypeInv'
BY DEF TypeInv, TypeOK, RecvBase, RecvTypeOK, SendTypeOK, RestTypeOK

LEMMA ControlFrameType ==
  \A type \in {"ACCEPT", "REJECT", "CANCEL", "COMPLETE"} :
    \A tid \in Tid \cup UserTid \cup {0} :
      {ControlFrame(type, tid)} \subseteq Frame /\ Delivered({ControlFrame(type, tid)}) \subseteq Frame
BY DEF ControlFrame, Delivered, Frame

LEMMA InitType == Init => TypeInv
<1> SUFFICES ASSUME Init PROVE TypeInv
  OBVIOUS
<1>1. recv \in [Slot -> Task] /\ \A i \in Slot : recv[i] = FreeTask
  BY FreeTaskType DEF Init
<1>2. TaskShape
  BY <1>1 DEF TaskShape, FreeTask
<1>3. content \in [Name -> SUBSET Nat]
  BY DEF Init
<1>4. recvSeq \in 0..MaxSeq
  BY SizesAssumption DEF Init
<1>5. send \in SendTask /\ present \subseteq Name
  BY FreeSendType, FilesAssumption DEF Init
<1>6. /\ phase = "login" /\ broken = FALSE /\ out = {} /\ saved = {} /\ known = {}
      /\ accepted = {} /\ emitted = {} /\ stranded = {}
  BY DEF Init
<1> QED
  BY <1>1, <1>2, <1>3, <1>4, <1>5, <1>6 DEF TypeInv, TypeOK

LEMMA CommandSendsType ==
  ASSUME RestTypeOK, NEW frames, frames \subseteq Frame, CommandSends(frames)
  PROVE  RestTypeOK' /\ out' \subseteq Frame
BY DEF CommandSends, RestTypeOK

LEMMA CommandFailsType ==
  ASSUME RestTypeOK, CommandFails PROVE RestTypeOK' /\ out' \subseteq Frame
BY DEF CommandFails, RestTypeOK

LEMMA ReplyType ==
  ASSUME RecvBase, NEW i \in Slot, NEW type \in {"ACCEPT", "REJECT", "CANCEL", "COMPLETE"}
  PROVE  Delivered({ControlFrame(type, recv[i].tid)}) \subseteq Frame
<1>1. recv[i].tid \in Tid \cup {0}
  BY DEF RecvBase, RecvTypeOK, Task
<1> QED BY <1>1, ControlFrameType

LEMMA UniqueNameFacts ==
  ASSUME NEW file \in File, NEW name \in UniqueName(file)
  PROVE  name \in Name /\ name \notin present
<1>1. PICK k \in 0..MaxTries-1 : name = Candidate[file][k] /\ Candidate[file][k] \notin present
  BY DEF UniqueName, Lowest
<1> QED BY <1>1, FilesAssumption

(* Opening the save file of a pending task. *)
LEMMA OpenBase ==
  ASSUME RecvBase, NEW i \in Slot, recv[i].busy, recv[i].inited, recv[i].size # 0,
         NEW name \in Name,
         recv' = [recv EXCEPT ![i].open = TRUE, ![i].name = name],
         present' = present \cup {name}, content' = [content EXCEPT ![name] = {}],
         saved' = saved
  PROVE  RecvBase'
<1>1. recv \in [Slot -> Task] /\ TaskShape /\ recv[i] \in Task
  BY DEF RecvBase, RecvTypeOK
<1>2. recv' \in [Slot -> Task] /\ \A j \in Slot : j # i => recv'[j] = recv[j]
  BY <1>1 DEF Task
<1>3. /\ recv'[i].open /\ recv'[i].name = name /\ recv'[i].busy /\ recv'[i].inited
      /\ recv'[i].size = recv[i].size
  BY <1>1 DEF Task
<1>4. recv[i].size > 0
  BY <1>1, WireAssumption DEF Task
<1>5. TaskShape'
  BY <1>1, <1>2, <1>3, <1>4 DEF TaskShape
<1> QED BY <1>2, <1>5 DEF RecvBase, RecvTypeOK

LEMMA StoreSpanBase ==
  ASSUME RecvBase, NEW i \in Slot, recv[i].open, NEW offset \in Span, NEW len \in Span,
         StoreSpan(i, offset, len)
  PROVE  RecvBase' /\ out' \subseteq Frame
<1>1. recv \in [Slot -> Task] /\ TaskShape /\ recv[i] \in Task /\ content \in [Name -> SUBSET Nat]
  BY DEF RecvBase, RecvTypeOK
<1>2. offset \in Nat /\ len \in Nat /\ Bytes(offset, len) \subseteq Nat
  BY WireAssumption DEF Bytes
<1>3. recv[i].marked \cup {offset} \subseteq Span /\ recv[i].received + len \in Nat
  BY <1>1, <1>2 DEF Task
<1>4. recv' \in [Slot -> Task]
  BY <1>1, <1>2, <1>3 DEF StoreSpan, Task
<1>5. content' \in [Name -> SUBSET Nat]
  BY <1>1, <1>2 DEF StoreSpan, Task
<1>6. \A j \in Slot : /\ recv'[j].open = recv[j].open /\ recv'[j].name = recv[j].name
                      /\ recv'[j].busy = recv[j].busy /\ recv'[j].inited = recv[j].inited
                      /\ recv'[j].size = recv[j].size
  BY <1>1 DEF StoreSpan, Task
<1>7. TaskShape'
  BY <1>1, <1>6 DEF TaskShape
<1> QED BY <1>4, <1>5, <1>7 DEF RecvBase, RecvTypeOK, StoreSpan, Quiet

LEMMA RecvCompleteBase ==
  ASSUME RecvBase, NEW tid, RecvComplete(tid) PROVE RecvBase'
BY LookupInSlot, RecvFinishBase, RecvClearBase DEF RecvComplete

LEMMA NewTaskBase ==
  ASSUME RecvBase, NEW i \in Slot, NEW tid \in Tid, recvSeq \in 0..MaxSeq,
         recv' = [recv EXCEPT ![i] = [FreeTask EXCEPT !.busy = TRUE, !.tid = tid, !.seq = recvSeq]],
         UNCHANGED diskVars
  PROVE  RecvBase'
<1>1. recv \in [Slot -> Task] /\ TaskShape
  BY DEF RecvBase, RecvTypeOK
<1> DEFINE t == [FreeTask EXCEPT !.busy = TRUE, !.tid = tid, !.seq = recvSeq]
<1>2. t \in Task /\ ~t.open /\ t.name = NoName
  BY FreeTaskType DEF FreeTask, Task
<1>3. recv' \in [Slot -> Task] /\ \A j \in Slot : recv'[j] = recv[j] \/ recv'[j] = t
  BY <1>1, <1>2
<1> HIDE DEF t
<1>4. TaskShape'
  BY <1>1, <1>2, <1>3 DEF TaskShape
<1> QED BY <1>3, <1>4 DEF RecvBase, RecvTypeOK, diskVars

LEMMA FillTaskBase ==
  ASSUME RecvBase, NEW i \in Uninited, NEW file \in File, NEW size \in InitSize,
         recv' = [recv EXCEPT ![i].inited = TRUE, ![i].file = file, ![i].size = size],
         UNCHANGED diskVars
  PROVE  RecvBase'
<1>1. recv \in [Slot -> Task] /\ TaskShape
  BY DEF RecvBase, RecvTypeOK
<1>2. i \in Slot /\ ~recv[i].inited
  BY LookupInSlot, LookupFacts
<1>3. ~recv[i].open /\ recv[i] \in Task
  BY <1>1, <1>2 DEF TaskShape
<1>4. recv' \in [Slot -> Task] /\ \A j \in Slot : j # i => recv'[j] = recv[j]
  BY <1>1, <1>2, <1>3 DEF Task
<1>5. recv'[i].open = recv[i].open /\ recv'[i].name = recv[i].name
  BY <1>1, <1>2, <1>3 DEF Task
<1>6. TaskShape'
  BY <1>1, <1>2, <1>3, <1>4, <1>5 DEF TaskShape
<1> QED BY <1>4, <1>6 DEF RecvBase, RecvTypeOK, diskVars

-----------------------------------------------------------------------------
(* Every action keeps the types.  FirstChunks is taken for at most the chunks
   of one round. *)

LEMMA FirstChunksType ==
  ASSUME SendTypeOK, NEW n \in Nat, n <= Round
  PROVE  /\ FirstChunks(n) \subseteq Frame
         /\ \A f \in FirstChunks(n) : Bytes(f.offset, f.len) \subseteq Nat
<1>1. /\ send.tid \in Tid \cup {0} /\ send.file \in SendFiles \cup {NoFile}
      /\ send.size \in Nat /\ send.sent \in Nat
  BY DEF SendTypeOK, SendTask
<1>2. SUFFICES ASSUME NEW k \in 0..n-1
               PROVE  /\ ChunkFrame(k) \in Frame
                      /\ Bytes(ChunkFrame(k).offset, ChunkFrame(k).len) \subseteq Nat
  BY DEF FirstChunks
<1> DEFINE index == send.sent \div ChunkMax + k
<1>3. send.sent \div ChunkMax \in Nat /\ ChunkCount(send.size) \in Nat
  BY <1>1, ChunkCountType
<1>4. n <= ChunkCount(send.size) - send.sent \div ChunkMax
  BY <1>3, SizesAssumption DEF Round
<1>5. index \in Nat /\ index < ChunkCount(send.size)
  BY <1>3, <1>4
<1> HIDE DEF index
<1>6. index * ChunkMax \in Nat /\ ChunkLen(send.size, index) \in Nat
  BY <1>1, <1>5, ChunkInside, ChunkLenType
<1>7. ChunkFrame(k) = [type |-> "CHUNK", tid |-> send.tid, file |-> send.file,
                       offset |-> index * ChunkMax, len |-> ChunkLen(send.size, index)]
  BY DEF ChunkFrame, index
<1>8. ChunkFrame(k) \in Frame
  BY <1>1, <1>6, <1>7 DEF Frame
<1> QED BY <1>6, <1>7, <1>8 DEF Bytes

LEMMA RoundType ==
  ASSUME SendTypeOK PROVE Round \in Int /\ Round <= ChunksPerRound
<1>1. send.size \in Nat /\ send.sent \in Nat
  BY DEF SendTypeOK, SendTask
<1>2. send.sent \div ChunkMax \in Nat /\ ChunkCount(send.size) \in Nat
  BY <1>1, ChunkCountType
<1> QED BY <1>2, SizesAssumption DEF Round

(* The cursor never runs backwards below zero: the chunks still to send are
   counted from the chunk the cursor is in. *)
LEMMA SentAfterType ==
  ASSUME SendTypeOK PROVE SentAfter(Round) \in Nat
<1> DEFINE q == send.sent \div ChunkMax
           r == send.sent % ChunkMax
           c == ChunkCount(send.size)
<1>1. /\ send.size \in Nat /\ send.sent \in Nat /\ ChunkMax \in Nat \ {0}
      /\ ChunksPerRound \in Nat
  BY SizesAssumption DEF SendTypeOK, SendTask
<1>2. q \in Nat /\ r \in Nat /\ send.sent = ChunkMax * q + r /\ c \in Nat
  <2>1. q \in Nat /\ r \in 0..ChunkMax-1 /\ send.sent = ChunkMax * q + r
    BY <1>1, DivMod
  <2>2. c \in Nat
    BY <1>1, ChunkCountType
  <2> HIDE DEF q, r, c
  <2> QED BY <1>1, <2>1, <2>2
<1>3. Round = IF c - q < ChunksPerRound THEN c - q ELSE ChunksPerRound
  BY DEF Round
<1> HIDE DEF q, r, c
<1>4. CASE Round = ChunksPerRound
  <2>1. ChunksPerRound * ChunkMax \in Nat
    BY <1>1
  <2> QED BY <1>1, <1>4, <2>1 DEF SentAfter
<1>5. CASE Round = c - q
  <2>1. (c - q) * ChunkMax = c * ChunkMax - q * ChunkMax /\ c * ChunkMax \in Nat
    BY <1>1, <1>2
  <2>2. send.sent + (c - q) * ChunkMax \in Nat
    BY <1>1, <1>2, <2>1
  <2> QED BY <1>1, <1>5, <2>2 DEF SentAfter
<1> QED BY <1>3, <1>4, <1>5

LEMMA CommandType == ASSUME TypeInv, Command PROVE TypeInv'
<1>1. /\ RecvBase /\ SendTypeOK /\ RestTypeOK /\ recvSeq \in 0..MaxSeq
      /\ recv \in [Slot -> Task] /\ TaskShape
  BY TypeInvParts
<1>2. ASSUME NEW file \in SendFiles, CmdSendfile(file) PROVE TypeInv'
  <2>1. recvSeq' = recvSeq /\ RecvBase'
    BY <1>1, <1>2, DiskUnchangedBase DEF CmdSendfile
  <2>2. CASE CommandFails /\ SendClear
    BY <1>1, <2>1, <2>2, CommandFailsType, SendClearType, NextTypeInv
  <2>3. CASE /\ CommandSends({InitFrame(file)})
             /\ send' = [state |-> "PENDING_TID", tid |-> 0, file |-> file,
                         size |-> FileSize[file], sent |-> 0, open |-> TRUE]
             /\ UNCHANGED emitted
    <3>1. FileSize[file] \in Nat
      BY FilesAssumption
    <3>2. {InitFrame(file)} \subseteq Frame
      BY <3>1 DEF InitFrame, Frame
    <3>3. send' \in SendTask
      BY <2>3, <3>1 DEF SendTask, SendState
    <3>4. SendTypeOK'
      BY <1>1, <2>3, <3>3 DEF SendTypeOK
    <3> QED BY <1>1, <2>1, <2>3, <3>2, <3>4, CommandSendsType, NextTypeInv
  <2> QED BY <1>2, <2>2, <2>3 DEF CmdSendfile
<1>3. ASSUME NEW tid \in UserTid, CmdAccept(tid) PROVE TypeInv'
  <2>1. PICK i \in Slot :
          /\ recv[i].busy /\ recv[i].inited
          /\ \/ RecvReject(i) /\ UNCHANGED <<phase, broken, known, accepted, stranded>>
             \/ /\ recv[i].size # 0 /\ recv[i].file \in LegalName
                /\ \E name \in UniqueName(recv[i].file) :
                     \/ /\ CommandSends({ControlFrame("ACCEPT", tid)})
                        /\ recv' = [recv EXCEPT ![i].open = TRUE, ![i].name = name]
                        /\ present' = present \cup {name}
                        /\ content' = [content EXCEPT ![name] = {}]
                        /\ UNCHANGED saved
                     \/ CommandFails /\ RecvClear(i)
          /\ UNCHANGED <<send, emitted, recvSeq>>
    BY <1>3, LookupInSlot, LookupFacts DEF CmdAccept
  <2>2. SendTypeOK' /\ recvSeq' \in 0..MaxSeq
    BY <1>1, <2>1 DEF SendTypeOK
  <2>3. CASE RecvReject(i) /\ UNCHANGED <<phase, broken, known, accepted, stranded>>
    <3>1. RecvBase' /\ out' \subseteq Frame
      BY <1>1, <2>3, RecvClearBase, ReplyType DEF RecvReject
    <3>2. RestTypeOK'
      BY <1>1, <2>3 DEF RestTypeOK
    <3> QED BY <2>2, <3>1, <3>2, NextTypeInv
  <2>4. ASSUME recv[i].size # 0, recv[i].file \in LegalName,
               NEW name \in UniqueName(recv[i].file),
               CommandSends({ControlFrame("ACCEPT", tid)}),
               recv' = [recv EXCEPT ![i].open = TRUE, ![i].name = name],
               present' = present \cup {name},
               content' = [content EXCEPT ![name] = {}], saved' = saved
        PROVE  TypeInv'
    <3>1. name \in Name
      BY <2>4, UniqueNameFacts, FilesAssumption
    <3>2. RecvBase'
      BY <1>1, <2>1, <2>4, <3>1, OpenBase
    <3>3. RestTypeOK' /\ out' \subseteq Frame
      BY <1>1, <2>4, ControlFrameType, CommandSendsType
    <3> QED BY <2>2, <3>2, <3>3, NextTypeInv
  <2>5. CASE CommandFails /\ RecvClear(i)
    BY <1>1, <2>2, <2>5, RecvClearBase, CommandFailsType, NextTypeInv
  <2> QED BY <2>1, <2>3, <2>4, <2>5
<1>4. ASSUME NEW tid \in UserTid, CmdReject(tid) PROVE TypeInv'
  <2>1. PICK i \in Slot :
          /\ \/ CommandSends({ControlFrame("REJECT", tid)}) /\ RecvClear(i)
             \/ CommandFails /\ UNCHANGED <<recv, diskVars>>
          /\ UNCHANGED <<send, emitted, recvSeq>>
    BY <1>4, LookupInSlot DEF CmdReject
  <2>2. RecvBase'
    BY <1>1, <2>1, RecvClearBase, DiskUnchangedBase
  <2>3. RestTypeOK' /\ out' \subseteq Frame
    BY <1>1, <2>1, ControlFrameType, CommandSendsType, CommandFailsType
  <2>4. SendTypeOK' /\ recvSeq' \in 0..MaxSeq
    BY <1>1, <2>1 DEF SendTypeOK
  <2> QED BY <2>2, <2>3, <2>4, NextTypeInv
<1>5. ASSUME NEW tid \in UserTid, CmdCancel(tid) PROVE TypeInv'
  <2>1. RestTypeOK' /\ out' \subseteq Frame
    BY <1>1, <1>5, ControlFrameType, CommandSendsType, CommandFailsType DEF CmdCancel
  <2>2. SendTypeOK'
    BY <1>1, <1>5, SendClearType DEF CmdCancel, SendTypeOK
  <2>3. RecvBase'
    BY <1>1, <1>5, LookupInSlot, RecvClearBase, DiskUnchangedBase DEF CmdCancel
  <2>4. recvSeq' = recvSeq
    BY <1>5 DEF CmdCancel
  <2> QED BY <1>1, <2>1, <2>2, <2>3, <2>4, NextTypeInv
<1> QED BY <1>2, <1>3, <1>4, <1>5 DEF Command

LEMMA InboundType == ASSUME TypeInv, Inbound PROVE TypeInv'
<1>1. /\ RecvBase /\ SendTypeOK /\ RestTypeOK /\ recvSeq \in 0..MaxSeq
      /\ recv \in [Slot -> Task] /\ TaskShape /\ send \in SendTask /\ emitted \subseteq Nat
  BY TypeInvParts
<1>2. (EnvUnchanged /\ UNCHANGED <<known, accepted>>) => RestTypeOK'
  BY <1>1 DEF RestTypeOK, EnvUnchanged
<1>3. Quiet => out' \subseteq Frame
  BY DEF Quiet
<1>4. UNCHANGED <<send, emitted>> => SendTypeOK'
  BY <1>1 DEF SendTypeOK
<1>5. ASSUME NEW tid \in Tid, AnnSendPending(tid) PROVE TypeInv'
  <2>1. send' \in SendTask
    BY <1>1, <1>5 DEF AnnSendPending, SendTask, SendState
  <2>2. SendTypeOK' /\ RestTypeOK'
    BY <1>1, <1>5, <2>1 DEF AnnSendPending, SendTypeOK, RestTypeOK, EnvUnchanged
  <2>3. RecvBase' /\ recvSeq' = recvSeq
    BY <1>1, <1>5, DiskUnchangedBase DEF AnnSendPending
  <2> QED BY <1>1, <1>3, <1>5, <2>2, <2>3, NextTypeInv DEF AnnSendPending
<1>6. ASSUME NEW tid \in Tid, Accepted(tid) PROVE TypeInv'
  <2>1. send' \in SendTask
    BY <1>1, <1>6 DEF Accepted, SendTask, SendState
  <2>2. SendTypeOK' /\ RestTypeOK'
    BY <1>1, <1>6, <2>1 DEF Accepted, SendTypeOK, RestTypeOK, EnvUnchanged
  <2>3. RecvBase' /\ recvSeq' = recvSeq
    BY <1>1, <1>6, DiskUnchangedBase DEF Accepted
  <2> QED BY <1>1, <1>3, <1>6, <2>2, <2>3, NextTypeInv DEF Accepted
<1>7. ASSUME NEW tid \in Tid, Rejected(tid) PROVE TypeInv'
  <2>1. RecvBase' /\ recvSeq' = recvSeq
    BY <1>1, <1>7, DiskUnchangedBase DEF Rejected
  <2> QED BY <1>1, <1>2, <1>3, <1>7, <2>1, SendClearType, NextTypeInv DEF Rejected
<1>8. ASSUME NEW tid \in Tid, Cancelled(tid) PROVE TypeInv'
  <2>1. RecvBase' /\ SendTypeOK' /\ recvSeq' = recvSeq
    BY <1>1, <1>4, <1>8, LookupInSlot, RecvClearBase, SendClearType, DiskUnchangedBase
    DEF Cancelled
  <2> QED BY <1>1, <1>2, <1>3, <1>8, <2>1, NextTypeInv DEF Cancelled
<1>9. ASSUME NEW tid \in Tid, AnnComplete(tid) PROVE TypeInv'
  <2>1. RecvBase' /\ SendTypeOK' /\ recvSeq' = recvSeq
    BY <1>1, <1>4, <1>9, RecvCompleteBase, SendClearType, DiskUnchangedBase DEF AnnComplete
  <2> QED BY <1>1, <1>2, <1>3, <1>9, <2>1, NextTypeInv DEF AnnComplete
<1>10. ASSUME NEW tid \in Tid, FrameComplete(tid) PROVE TypeInv'
  <2>1. RecvBase' /\ SendTypeOK' /\ recvSeq' = recvSeq
    BY <1>1, <1>4, <1>10, RecvCompleteBase DEF FrameComplete
  <2> QED BY <1>1, <1>2, <1>3, <1>10, <2>1, NextTypeInv DEF FrameComplete
<1>11. ASSUME NEW tid \in Tid, AnnIncoming(tid) PROVE TypeInv'
  <2>1. RestTypeOK' /\ SendTypeOK'
    BY <1>1, <1>4, <1>11 DEF AnnIncoming, RestTypeOK, EnvUnchanged
  <2>2. out' \subseteq Frame
    BY <1>11, ControlFrameType DEF AnnIncoming, Quiet
  <2>3. recvSeq' \in 0..MaxSeq
    BY <1>1, <1>11, SizesAssumption DEF AnnIncoming
  <2>4. RecvBase'
    BY <1>1, <1>11, LookupInSlot, NewTaskBase, DiskUnchangedBase DEF AnnIncoming
  <2> QED BY <2>1, <2>2, <2>3, <2>4, NextTypeInv
<1>12. ASSUME NEW tid \in Tid, NEW offset \in Span, NEW len \in Span,
              FrameChunk(tid, offset, len)
       PROVE  TypeInv'
  <2>1. PICK i \in Slot : recv[i].open /\ (StoreSpan(i, offset, len) \/ RecvAbort(i))
    BY <1>12, LookupInSlot DEF FrameChunk
  <2>2. RecvBase' /\ out' \subseteq Frame
    BY <1>1, <2>1, StoreSpanBase, RecvClearBase, ReplyType DEF RecvAbort
  <2> QED BY <1>1, <1>2, <1>4, <1>12, <2>2, NextTypeInv DEF FrameChunk
<1>13. ASSUME NEW file \in File, NEW size \in InitSize, FrameInit(file, size) PROVE TypeInv'
  <2>1. RecvBase'
    BY <1>1, <1>13, FillTaskBase DEF FrameInit
  <2> QED BY <1>1, <1>2, <1>3, <1>4, <1>13, <2>1, NextTypeInv DEF FrameInit
<1>14. CASE NoSuchUser
  <2>1. RecvBase' /\ recvSeq' = recvSeq
    BY <1>1, <1>14, DiskUnchangedBase DEF NoSuchUser
  <2> QED BY <1>1, <1>2, <1>3, <1>14, <2>1, SendClearType, NextTypeInv DEF NoSuchUser
<1>15. CASE TransferStateError
  <2>1. RecvBase' /\ recvSeq' = recvSeq
    BY <1>1, <1>15, LookupInSlot, RecvClearBase, DiskUnchangedBase DEF TransferStateError
  <2> QED BY <1>1, <1>2, <1>3, <1>15, <2>1, SendClearType, NextTypeInv DEF TransferStateError
<1> QED
  BY <1>5, <1>6, <1>7, <1>8, <1>9, <1>10, <1>11, <1>12, <1>13, <1>14, <1>15 DEF Inbound

LEMMA TickType == ASSUME TypeInv, Tick PROVE TypeInv'
<1>1. /\ RecvBase /\ SendTypeOK /\ RestTypeOK /\ recvSeq \in 0..MaxSeq
      /\ send \in SendTask /\ emitted \subseteq Nat
  BY TypeInvParts
<1>2. TickUnchanged => /\ RecvBase' /\ recvSeq' = recvSeq
                       /\ UNCHANGED <<known, accepted, stranded>>
  BY <1>1, DiskUnchangedBase DEF TickUnchanged
<1>3. send.tid \in Tid \cup {0} /\ send.size \in Nat /\ send.sent \in Nat
  BY <1>1 DEF SendTask
<1>4. CASE TickChunks
  <2>1. FirstChunks(Round) \subseteq Frame
        /\ \A f \in FirstChunks(Round) : Bytes(f.offset, f.len) \subseteq Nat
    <3>1. CASE Round \in Nat
      BY <1>1, <3>1, RoundType, FirstChunksType
    <3>2. CASE Round \notin Nat
      <4>1. 0..Round-1 = {}
        BY <1>1, <3>2, RoundType
      <4> QED BY <4>1 DEF FirstChunks
    <3> QED BY <3>1, <3>2
  <2>2. UNION {Bytes(f.offset, f.len) : f \in FirstChunks(Round)} \subseteq Nat
    BY <2>1
  <2>3. SentAfter(Round) \in Nat
    BY <1>1, <1>3, SentAfterType
  <2>4. send' \in SendTask
    BY <1>1, <1>4, <2>3 DEF TickChunks, SendTask, SendState
  <2>5. SendTypeOK' /\ out' \subseteq Frame /\ RestTypeOK'
    BY <1>1, <1>2, <1>4, <2>1, <2>2, <2>4 DEF TickChunks, SendTypeOK, RestTypeOK
  <2> QED BY <1>1, <1>2, <1>4, <2>5, NextTypeInv DEF TickChunks
<1>5. CASE TickComplete
  <2>1. {ControlFrame("COMPLETE", send.tid)} \subseteq Frame
    BY <1>3, ControlFrameType
  <2>2. send' \in SendTask
    BY <1>1, <1>5 DEF TickComplete, SendTask, SendState
  <2>3. SendTypeOK' /\ out' \subseteq Frame /\ RestTypeOK'
    BY <1>1, <1>2, <1>5, <2>1, <2>2 DEF TickComplete, SendTypeOK, RestTypeOK, Quiet
  <2> QED BY <1>1, <1>2, <1>5, <2>3, NextTypeInv DEF TickComplete
<1>6. ASSUME NEW n \in 0..ChunksPerRound-1, n < Round, TickReadFails(n) \/ TickSendFails(n)
      PROVE  TypeInv'
  <2>1. n \in Nat /\ n <= Round
    BY <1>1, <1>6, RoundType, SizesAssumption
  <2>2. FirstChunks(n) \subseteq Frame
    BY <1>1, <2>1, FirstChunksType
  <2>3. {ControlFrame("CANCEL", send.tid)} \subseteq Frame
    BY <1>3, ControlFrameType
  <2>4. SendTypeOK' /\ RecvBase' /\ recvSeq' = recvSeq
    BY <1>2, <1>6, SendClearType DEF TickReadFails, TickSendFails
  <2>5. RestTypeOK'
    BY <1>1, <1>2, <1>6 DEF TickReadFails, TickSendFails, RestTypeOK
  <2>6. out' \subseteq Frame
    BY <1>6, <2>2, <2>3 DEF TickReadFails, TickSendFails, Delivered
  <2> QED BY <1>1, <2>4, <2>5, <2>6, NextTypeInv
<1> QED BY <1>4, <1>5, <1>6 DEF Tick

LEMMA ProcessType == ASSUME TypeInv, Process PROVE TypeInv'
<1>1. /\ RecvBase /\ SendTypeOK /\ RestTypeOK /\ recvSeq \in 0..MaxSeq
      /\ recv \in [Slot -> Task] /\ TaskShape
  BY TypeInvParts
<1>2. Quiet => out' \subseteq Frame
  BY DEF Quiet
<1>3. CASE SessionStart
  <2>1. RecvBase' /\ SendTypeOK' /\ recvSeq' = recvSeq
    BY <1>1, <1>3, ResetAllBase DEF SessionStart
  <2>2. RestTypeOK'
    BY <1>1, <1>3 DEF SessionStart, RestTypeOK
  <2> QED BY <1>1, <1>2, <1>3, <2>1, <2>2, NextTypeInv DEF SessionStart
<1>4. CASE Destroy
  <2>1. RecvBase' /\ SendTypeOK' /\ recvSeq' = recvSeq
    BY <1>1, <1>4, ResetAllBase DEF Destroy
  <2>2. RestTypeOK'
    BY <1>1, <1>4 DEF Destroy, RestTypeOK
  <2> QED BY <1>1, <1>2, <1>4, <2>1, <2>2, NextTypeInv DEF Destroy
<1>5. CASE ConnBreak \/ Stop \/ Kill
  <2>1. UNCHANGED <<send, emitted, recv, recvSeq, diskVars>> /\ Quiet
    BY <1>5 DEF ConnBreak, Stop, Kill, taskVars
  <2>2. RecvBase' /\ SendTypeOK' /\ recvSeq' = recvSeq
    BY <1>1, <2>1, DiskUnchangedBase DEF SendTypeOK
  <2>3. RestTypeOK'
    BY <1>1, <1>5 DEF ConnBreak, Stop, Kill, RestTypeOK
  <2> QED BY <1>1, <1>2, <2>1, <2>2, <2>3, NextTypeInv
<1>6. CASE Restart
  <2>1. recv' \in [Slot -> Task] /\ \A i \in Slot : recv'[i] = FreeTask
    BY <1>6, FreeTaskType DEF Restart
  <2>2. RecvBase'
    BY <1>1, <1>6, <2>1 DEF Restart, RecvBase, RecvTypeOK, TaskShape, FreeTask, diskVars
  <2>3. RestTypeOK'
    BY <1>1, <1>6 DEF Restart, RestTypeOK
  <2>4. recvSeq' \in 0..MaxSeq
    BY <1>6, SizesAssumption DEF Restart
  <2> QED BY <1>2, <1>6, <2>2, <2>3, <2>4, SendClearType, NextTypeInv DEF Restart
<1> QED BY <1>3, <1>4, <1>5, <1>6 DEF Process

LEMMA StutterType == ASSUME TypeInv, UNCHANGED vars PROVE TypeInv'
BY DEF vars, TypeInv, TypeOK, TaskShape

(* Type correctness, and the shape of a receive task: a file is open only for
   a busy, filled-in task with a name, and a task without a file has no name,
   so recv_task_clear never deletes on behalf of a pending one. *)
THEOREM TypeCorrect == Spec => [](TypeOK /\ TaskShape)
<1>1. TypeInv /\ [Next]_vars => TypeInv'
  BY CommandType, InboundType, TickType, ProcessType, StutterType DEF Next
<1> QED BY <1>1, InitType, PTL DEF Spec, TypeInv

-----------------------------------------------------------------------------
(* The receiving side and the disk.  Each lemma takes one way in which a
   handler changes them, in a process that is running before and after. *)

Running == phase \notin {"closed", "killed"}

(* With no file open, the disk holds the kept and the stranded files only. *)
LEMMA NothingOpen ==
  ASSUME \A i \in Slot : ~recv[i].open, PendingEmpty, KeptPresent, SavedIfFlushed,
         present = KeptNames \cup stranded
  PROVE  DiskInv
<1>1. OpenNames = {}
  BY DEF OpenNames
<1> QED
  BY <1>1 DEF DiskInv, OwnName, SingleReceiver, Covered, ReceivedMatchesDisk, NoStrayFiles

LEMMA NothingOpenNext ==
  ASSUME \A i \in Slot : ~recv'[i].open, PendingEmpty', KeptPresent', SavedIfFlushed',
         present' = KeptNames' \cup stranded'
  PROVE  DiskInv'
<1>1. OpenNames' = {}
  BY DEF OpenNames
<1> QED
  BY <1>1 DEF DiskInv, OwnName, SingleReceiver, Covered, ReceivedMatchesDisk, NoStrayFiles

(* Steps that touch only tasks without a file. *)
OpenTasksSame ==
  \A j \in Slot : /\ recv'[j].open = recv[j].open
                  /\ recv[j].open => recv'[j] = recv[j]

LEMMA PendingOnly ==
  ASSUME TypeInv, DiskInv, Running, Running', present' = present, content' = content, saved' = saved, stranded' = stranded,
         OpenTasksSame, PendingEmpty'
  PROVE  DiskInv'
<1>1. OpenNames' = OpenNames /\ KeptNames' = KeptNames
  BY DEF OpenNames, KeptNames, OpenTasksSame
<1>2. OwnName'
  BY <1>1 DEF OwnName, DiskInv, Running, OpenTasksSame
<1>3. SingleReceiver'
  BY DEF SingleReceiver, DiskInv, OpenTasksSame
<1>4. Covered' /\ ReceivedMatchesDisk'
  BY DEF Covered, ReceivedMatchesDisk, DiskInv, OpenTasksSame
<1>5. KeptPresent' /\ NoStrayFiles'
  BY <1>1 DEF KeptPresent, NoStrayFiles, DiskInv, Running
<1>6. SavedIfFlushed'
  BY DEF SavedIfFlushed, SavedComplete, DiskInv
<1> QED BY <1>2, <1>3, <1>4, <1>5, <1>6 DEF DiskInv

(* The one open file, and what is on disk next to it. *)
LEMMA OpenFile ==
  ASSUME TypeInv, DiskInv, Running, NEW i \in Slot, recv[i].open
  PROVE  /\ OpenNames = {recv[i].name} /\ recv[i].name \in Name
         /\ recv[i].name \in present /\ recv[i].name \notin KeptNames \cup stranded
         /\ present \ {recv[i].name} = KeptNames \cup stranded
         /\ \A j \in Slot : recv[j].open => j = i
<1>1. \A j \in Slot : recv[j].open => j = i
  BY DEF DiskInv, SingleReceiver
<1>2. OpenNames = {recv[i].name}
  BY <1>1 DEF OpenNames
<1>3. recv[i].name \in Name /\ recv[i].name \in present /\ recv[i].name \notin KeptNames \cup stranded
  BY DEF TypeInv, TaskShape, DiskInv, OwnName, Running
<1>4. present = KeptNames \cup stranded \cup {recv[i].name}
  BY <1>2 DEF DiskInv, NoStrayFiles, Running
<1> QED BY <1>1, <1>2, <1>3, <1>4

LEMMA RecvClearDisk ==
  ASSUME TypeInv, DiskInv, Running, Running', stranded' = stranded,
         NEW i \in Slot, RecvClear(i)
  PROVE  DiskInv'
<1>1. recv \in [Slot -> Task] /\ content \in [Name -> SUBSET Nat] /\ present \subseteq Name
  BY DEF TypeInv, TypeOK
<1>2. recv'[i] = FreeTask /\ \A j \in Slot : j # i => recv'[j] = recv[j]
  BY <1>1 DEF RecvClear
<1>3. ~FreeTask.open /\ FreeTask.received = 0 /\ FreeTask.marked = {}
  BY DEF FreeTask
<1>4. PendingEmpty'
  BY <1>2, <1>3 DEF PendingEmpty, DiskInv
<1>5. CASE recv[i].open
  <2>1. present' = KeptNames \cup stranded /\ KeptNames' = KeptNames
    BY <1>5, OpenFile DEF RecvClear, KeptNames
  <2>2. \A j \in Slot : ~recv'[j].open
    BY <1>2, <1>3, <1>5, OpenFile
  <2>3. \A n \in KeptNames : n \in Name => content'[n] = content[n]
    BY <1>5, OpenFile DEF RecvClear
  <2>4. SavedIfFlushed'
    <3> SUFFICES ASSUME ~FlushMayFail, NEW s \in saved
                 PROVE  s.name \in present' /\ content'[s.name] = 0..s.size-1
      BY DEF SavedIfFlushed, SavedComplete, RecvClear
    <3>1. s.name \in KeptNames /\ s.name \in Name
      BY DEF KeptNames, TypeInv, TypeOK
    <3> QED BY <2>1, <2>3, <3>1 DEF DiskInv, SavedIfFlushed, SavedComplete
  <2> QED BY <1>4, <2>1, <2>2, <2>4, NothingOpenNext DEF KeptPresent
<1>6. CASE ~recv[i].open
  <2>1. recv[i].name = NoName
    BY <1>6 DEF TypeInv, TaskShape
  <2>2. present' = present /\ saved' = saved
    BY <1>1, <2>1, FilesAssumption DEF RecvClear
  <2>3. content' = content
    BY <1>1, <2>1, FilesAssumption DEF RecvClear
  <2>4. recv[i].open = FALSE /\ FreeTask.open = FALSE
    BY <1>1, <1>6 DEF Task, FreeTask
  <2>5. OpenTasksSame
    BY <1>2, <1>6, <2>4 DEF OpenTasksSame
  <2>6. present' = present /\ content' = content /\ saved' = saved
    BY <2>2, <2>3
  <2> QED BY <1>4, <2>5, <2>6, PendingOnly
<1> QED BY <1>5, <1>6

(* The heart of the byte count check: a set of bytes below the size with as
   many members as the size is the whole file. *)
LEMMA CountMeansAll ==
  ASSUME NEW size \in Nat, NEW bytes \in SUBSET (0..size-1), Cardinality(bytes) = size
  PROVE  bytes = 0..size-1
<1>1. IsFiniteSet(0..size-1) /\ Cardinality(0..size-1) = size
  <2>1. 0 \in Int /\ size-1 \in Int
    OBVIOUS
  <2>2. /\ IsFiniteSet(0..size-1)
        /\ Cardinality(0..size-1) = IF 0 > size-1 THEN 0 ELSE (size-1)-0+1
    BY <2>1, FS_Interval
  <2> QED BY <2>2
<1> QED BY <1>1, FS_Subset

LEMMA RecvFinishDisk ==
  ASSUME TypeInv, DiskInv, Running, Running', stranded' = stranded,
         NEW i \in Slot, recv[i].open, RecvFinish(i)
  PROVE  DiskInv'
<1>1. CASE recv[i].received # recv[i].size
  BY <1>1, RecvClearDisk DEF RecvFinish
<1>2. CASE recv[i].received = recv[i].size
  <2> DEFINE nm == recv[i].name
             rec == [name |-> nm, size |-> recv[i].size]
  <2>1. /\ recv \in [Slot -> Task] /\ content \in [Name -> SUBSET Nat] /\ nm \in Name
        /\ recv[i].size \in Nat
    <3>1. recv \in [Slot -> Task] /\ content \in [Name -> SUBSET Nat]
      BY DEF TypeInv, TypeOK
    <3>2. recv[i].size \in InitSize \cup {0}
      BY <3>1 DEF Task
    <3>3. nm \in Name
      BY OpenFile
    <3>4. recv[i].size \in Nat
      BY <3>2, InitSizeType
    <3> QED BY <3>1, <3>3, <3>4
  <2>2. recv'[i] = FreeTask /\ \A j \in Slot : j # i => recv'[j] = recv[j]
    BY <1>2, <2>1 DEF RecvFinish
  <2>3. ~FreeTask.open /\ FreeTask.received = 0 /\ FreeTask.marked = {}
    BY DEF FreeTask
  <2>4. PendingEmpty' /\ \A j \in Slot : ~recv'[j].open
    BY <2>2, <2>3, OpenFile DEF PendingEmpty, DiskInv
  <2>5. present' = present /\ saved' = saved \cup {rec}
    BY <1>2 DEF RecvFinish
  <2>6. KeptNames' = KeptNames \cup {nm}
    <3>1. rec.name = nm
      OBVIOUS
    <3> HIDE DEF rec, nm
    <3>2. {s.name : s \in saved'} = {s.name : s \in saved} \cup {rec.name}
      BY <2>5
    <3> QED BY <3>1, <3>2 DEF KeptNames
  <2>7. present' = KeptNames' \cup stranded'
    BY <2>5, <2>6, OpenFile
  <2>8. ASSUME ~FlushMayFail PROVE SavedComplete'
    <3>1. content' = content
      BY <1>2, <2>1, <2>8 DEF RecvFinish
    <3>2. content[nm] = 0..recv[i].size-1
      BY <1>2, <2>1, CountMeansAll DEF DiskInv, ReceivedMatchesDisk
    <3>3. ASSUME NEW s \in saved PROVE s.name \in present' /\ content'[s.name] = 0..s.size-1
      BY <2>5, <2>8, <3>1 DEF DiskInv, SavedIfFlushed, SavedComplete
    <3>4. rec.name \in present' /\ content'[rec.name] = 0..rec.size-1
      BY <2>5, <3>1, <3>2, OpenFile
    <3> QED BY <2>5, <3>3, <3>4 DEF SavedComplete
  <2>9. SavedIfFlushed'
    BY <2>8 DEF SavedIfFlushed
  <2> QED BY <2>4, <2>7, <2>9, NothingOpenNext DEF KeptPresent
<1> QED BY <1>1, <1>2

LEMMA RecvCompleteDisk ==
  ASSUME TypeInv, DiskInv, Running, Running', stranded' = stranded, NEW tid, RecvComplete(tid)
  PROVE  DiskInv'
BY LookupInSlot, RecvFinishDisk, RecvClearDisk DEF RecvComplete

(* /accept succeeds: the new file is empty and nobody else's. *)
LEMMA OpenDisk ==
  ASSUME TypeInv, DiskInv, Running, Running', stranded' = stranded,
         NEW i \in Slot, RecvActive = {}, recv[i].busy, recv[i].inited, recv[i].size # 0,
         NEW name \in Name, name \notin present,
         recv' = [recv EXCEPT ![i].open = TRUE, ![i].name = name],
         present' = present \cup {name}, content' = [content EXCEPT ![name] = {}],
         saved' = saved
  PROVE  DiskInv'
<1>1. recv \in [Slot -> Task] /\ content \in [Name -> SUBSET Nat] /\ recv[i] \in Task /\ TaskShape
  BY DEF TypeInv, TypeOK
<1>2. \A j \in Slot : ~recv[j].open
  BY <1>1 DEF RecvActive, TaskShape
<1>3. recv[i].received = 0 /\ recv[i].marked = {}
  BY <1>2 DEF DiskInv, PendingEmpty
<1>4. /\ recv'[i].open /\ recv'[i].name = name /\ recv'[i].received = 0
      /\ recv'[i].marked = {} /\ recv'[i].size = recv[i].size
      /\ \A j \in Slot : j # i => recv'[j] = recv[j]
  BY <1>1, <1>3 DEF Task
<1>5. content'[name] = {} /\ \A n \in Name : n # name => content'[n] = content[n]
  BY <1>1
<1>6. KeptNames' = KeptNames /\ KeptNames \subseteq present /\ present = KeptNames \cup stranded
  <2>1. OpenNames = {}
    BY <1>2 DEF OpenNames
  <2> QED BY <2>1 DEF DiskInv, KeptPresent, NoStrayFiles, KeptNames, Running
<1>7. \A j \in Slot : recv'[j].open => j = i
  BY <1>2, <1>4
<1>a. OpenNames' = {name}
  <2>1. {j \in Slot : recv'[j].open} = {i}
    BY <1>4, <1>7
  <2>2. OpenNames' = {recv'[k].name : k \in {i}}
    BY <2>1, Zenon DEF OpenNames
  <2>3. {recv'[k].name : k \in {i}} = {recv'[i].name}
    OBVIOUS
  <2> QED BY <1>4, <2>2, <2>3
<1>8. PendingEmpty' /\ SingleReceiver'
  BY <1>2, <1>4, <1>7 DEF DiskInv, PendingEmpty, SingleReceiver
<1>9. OwnName'
  <2>1. name \in present' /\ name \notin KeptNames' \cup stranded'
    BY <1>6
  <2> QED BY <1>4, <1>7, <2>1 DEF OwnName
<1>10. Covered' /\ ReceivedMatchesDisk'
  <2>1. Cardinality(content'[name]) = 0 /\ content'[name] = {}
    BY <1>5, FS_EmptySet
  <2>2. Covered'
    BY <1>4, <1>7, <2>1 DEF Covered
  <2> QED BY <1>4, <1>7, <2>1, <2>2 DEF ReceivedMatchesDisk
<1>11. KeptPresent' /\ NoStrayFiles'
  BY <1>6, <1>a DEF KeptPresent, NoStrayFiles, Running
<1>12. SavedIfFlushed'
  <2> SUFFICES ASSUME ~FlushMayFail, NEW s \in saved
               PROVE  s.name \in present' /\ content'[s.name] = 0..s.size-1
    BY DEF SavedIfFlushed, SavedComplete
  <2>1. s.name \in present /\ content[s.name] = 0..s.size-1 /\ s.name \in Name
    BY DEF DiskInv, SavedIfFlushed, SavedComplete, TypeInv, TypeOK
  <2> QED BY <1>5, <2>1
<1> QED BY <1>8, <1>9, <1>10, <1>11, <1>12 DEF DiskInv

(* A legal span brings only bytes that are not on disk yet: what is on disk is
   covered by marked chunks, and two aligned chunks overlap only if equal. *)
LEMMA FreshBytes ==
  ASSUME TypeInv, DiskInv, NEW i \in Slot, recv[i].open,
         NEW offset \in Nat, NEW len \in Nat,
         SpanLegal(recv[i].size, recv[i].marked, offset, len)
  PROVE  Bytes(offset, len) \cap content[recv[i].name] = {}
<1> SUFFICES ASSUME NEW b \in Bytes(offset, len), b \in content[recv[i].name] PROVE FALSE
  OBVIOUS
<1>1. PICK m \in recv[i].marked : m <= b /\ b < m + ChunkMax
  BY DEF DiskInv, Covered
<1>2. m % ChunkMax = 0
  BY <1>1 DEF DiskInv, Covered
<1>3. recv[i].marked \subseteq Span
  BY DEF TypeInv, TypeOK, Task
<1>4. m \in Nat
  BY <1>1, <1>3, WireAssumption
<1>5. offset % ChunkMax = 0 /\ m # offset /\ len <= ChunkMax /\ ChunkMax \in Nat \ {0}
  BY <1>1, SizesAssumption DEF SpanLegal
<1>6. b \in Int /\ offset <= b /\ b < offset + ChunkMax
  BY <1>5 DEF Bytes
<1>7. m < offset => m + ChunkMax <= offset
  BY <1>2, <1>4, <1>5, Aligned
<1>8. offset < m => offset + ChunkMax <= m
  BY <1>2, <1>4, <1>5, Aligned
<1> QED BY <1>1, <1>4, <1>5, <1>6, <1>7, <1>8

LEMMA CardinalityBytes ==
  ASSUME NEW offset \in Nat, NEW len \in Nat, len # 0
  PROVE  IsFiniteSet(Bytes(offset, len)) /\ Cardinality(Bytes(offset, len)) = len
<1>1. offset \in Int /\ offset + len - 1 \in Int
  OBVIOUS
<1>2. /\ IsFiniteSet(offset..offset + len - 1)
      /\ Cardinality(offset..offset + len - 1)
           = IF offset > offset + len - 1 THEN 0 ELSE (offset + len - 1) - offset + 1
  BY <1>1, FS_Interval
<1> QED BY <1>2 DEF Bytes

LEMMA StoreSpanDisk ==
  ASSUME TypeInv, DiskInv, Running, Running', stranded' = stranded,
         NEW i \in Slot, recv[i].open, NEW offset \in Span, NEW len \in Span,
         SpanLegal(recv[i].size, recv[i].marked, offset, len), StoreSpan(i, offset, len)
  PROVE  DiskInv'
<1> DEFINE nm == recv[i].name
           bytes == Bytes(offset, len)
<1>1. recv \in [Slot -> Task] /\ content \in [Name -> SUBSET Nat] /\ recv[i] \in Task
  BY DEF TypeInv, TypeOK
<1>2. offset \in Nat /\ len \in Nat
  BY WireAssumption
<1>3. /\ recv'[i].open /\ recv'[i].name = nm /\ recv'[i].size = recv[i].size
      /\ recv'[i].marked = recv[i].marked \cup {offset}
      /\ recv'[i].received = recv[i].received + len
      /\ \A j \in Slot : j # i => recv'[j] = recv[j]
  BY <1>1 DEF StoreSpan, Task
<1>4. nm \in Name /\ nm \in present /\ nm \notin KeptNames \cup stranded
  BY OpenFile
<1>5. /\ content'[nm] = content[nm] \cup bytes
      /\ \A n \in Name : n # nm => content'[n] = content[n]
  BY <1>1, <1>4 DEF StoreSpan
<1>6. present' = present /\ saved' = saved /\ KeptNames' = KeptNames
  BY DEF StoreSpan, KeptNames
<1>7. \A j \in Slot : recv[j].open => j = i
  BY OpenFile
<1>8. PendingEmpty' /\ SingleReceiver'
  BY <1>3, <1>7 DEF DiskInv, PendingEmpty, SingleReceiver
<1>9. OwnName'
  BY <1>3, <1>4, <1>6, <1>7 DEF OwnName
<1>10. recv[i].size \in Nat /\ offset + len <= recv[i].size /\ len <= ChunkMax /\ len # 0
       /\ offset % ChunkMax = 0
  <2>1. recv[i].size \in InitSize \cup {0}
    BY <1>1 DEF Task
  <2>2. recv[i].size \in Nat
    BY <2>1, InitSizeType
  <2> QED BY <1>2, <2>2 DEF SpanLegal
<1>11. Covered'
  <2>1. ASSUME NEW b \in bytes PROVE offset <= b /\ b < offset + ChunkMax
    BY <1>2, <1>10, SizesAssumption DEF Bytes
  <2>2. /\ \A m \in recv[i].marked : m % ChunkMax = 0
        /\ \A b \in content[nm] : \E m \in recv[i].marked : m <= b /\ b < m + ChunkMax
    BY DEF DiskInv, Covered
  <2>3. \A b \in content'[nm] : \E m \in recv'[i].marked : m <= b /\ b < m + ChunkMax
    BY <1>3, <1>5, <2>1, <2>2
  <2>4. \A m \in recv'[i].marked : m % ChunkMax = 0
    BY <1>3, <1>10, <2>2
  <2> QED BY <1>3, <1>7, <2>3, <2>4 DEF Covered
<1>12. ReceivedMatchesDisk'
  <2>1. content[nm] \subseteq 0..recv[i].size-1 /\ recv[i].received = Cardinality(content[nm])
    BY DEF DiskInv, ReceivedMatchesDisk
  <2>2. bytes \subseteq 0..recv[i].size-1
    BY <1>2, <1>10 DEF Bytes
  <2>3. IsFiniteSet(content[nm])
    <3>1. IsFiniteSet(0..recv[i].size-1)
      BY <1>10, FS_Interval
    <3> QED BY <2>1, <3>1, FS_Subset
  <2>4. IsFiniteSet(bytes) /\ Cardinality(bytes) = len
    BY <1>2, <1>10, CardinalityBytes
  <2>5. content[nm] \cap bytes = {}
    BY <1>2, FreshBytes
  <2>6. Cardinality(content[nm] \cup bytes)
          = Cardinality(content[nm]) + Cardinality(bytes) - Cardinality(content[nm] \cap bytes)
    BY <2>3, <2>4, FS_Union
  <2>7. recv[i].received \in Nat
    BY <1>1 DEF Task
  <2>8. Cardinality(content[nm] \cup bytes) = recv[i].received + len
    BY <1>2, <2>1, <2>4, <2>5, <2>6, <2>7, FS_EmptySet
  <2> QED BY <1>3, <1>5, <1>7, <2>1, <2>2, <2>8 DEF ReceivedMatchesDisk
<1>13. OpenNames' = OpenNames
  <2>1. OpenNames' = {nm}
    BY <1>3, <1>7 DEF OpenNames
  <2> QED BY <2>1, OpenFile
<1>14. KeptPresent' /\ NoStrayFiles'
  BY <1>6, <1>13 DEF DiskInv, KeptPresent, NoStrayFiles, Running
<1>15. SavedIfFlushed'
  <2> SUFFICES ASSUME ~FlushMayFail, NEW s \in saved
               PROVE  s.name \in present' /\ content'[s.name] = 0..s.size-1
    BY <1>6 DEF SavedIfFlushed, SavedComplete
  <2>1. s.name \in present /\ content[s.name] = 0..s.size-1 /\ s.name \in Name /\ s.name \in KeptNames
    BY DEF DiskInv, SavedIfFlushed, SavedComplete, TypeInv, TypeOK, KeptNames
  <2> QED BY <1>4, <1>5, <1>6, <2>1
<1> QED BY <1>8, <1>9, <1>11, <1>12, <1>14, <1>15 DEF DiskInv

-------------------------------------------------------------------------

LEMMA ResetAllDisk ==
  ASSUME TypeInv, DiskInv, Running, stranded' = stranded, ResetAll
  PROVE  DiskInv'
<1> DEFINE gone == {recv[i].name : i \in Slot}
<1>1. recv \in [Slot -> Task] /\ content \in [Name -> SUBSET Nat] /\ TaskShape /\ present \subseteq Name
  BY DEF TypeInv, TypeOK
<1>2. \A j \in Slot : ~recv'[j].open /\ recv'[j].received = 0 /\ recv'[j].marked = {}
  BY DEF ResetAll, FreeTask
<1>3. saved' = saved /\ KeptNames' = KeptNames
  BY DEF ResetAll, KeptNames
<1>4. KeptNames \cup stranded \subseteq present /\ (KeptNames \cup stranded) \cap OpenNames = {}
      /\ present = KeptNames \cup stranded \cup OpenNames
  BY DEF DiskInv, OwnName, NoStrayFiles, OpenNames, Running
<1>5. \A n \in Name : n \in gone <=> n \in OpenNames
  BY <1>1, FilesAssumption DEF TaskShape, OpenNames
<1>6. present' = KeptNames' \cup stranded'
  <2>1. present' = present \ gone
    BY DEF ResetAll
  <2> HIDE DEF gone
  <2> QED BY <1>1, <1>3, <1>4, <1>5, <2>1
<1>7. ASSUME NEW n \in KeptNames, n \in Name PROVE content'[n] = content[n]
  <2>1. n \notin gone
    BY <1>4, <1>5, <1>7
  <2>2. content' = [m \in Name |-> IF m \in gone THEN {} ELSE content[m]]
    BY DEF ResetAll
  <2> HIDE DEF gone
  <2> QED BY <1>7, <2>1, <2>2
<1>8. SavedIfFlushed'
  <2> SUFFICES ASSUME ~FlushMayFail, NEW s \in saved
               PROVE  s.name \in present' /\ content'[s.name] = 0..s.size-1
    BY <1>3 DEF SavedIfFlushed, SavedComplete
  <2>1. content[s.name] = 0..s.size-1 /\ s.name \in Name /\ s.name \in KeptNames
    BY DEF DiskInv, SavedIfFlushed, SavedComplete, TypeInv, TypeOK, KeptNames
  <2> QED BY <1>3, <1>6, <1>7, <2>1
<1>9. PendingEmpty' /\ KeptPresent'
  BY <1>2, <1>6 DEF PendingEmpty, KeptPresent
<1> QED BY <1>2, <1>6, <1>8, <1>9, NothingOpenNext

LEMMA DiskSame ==
  ASSUME TypeInv, DiskInv, Running, Running', stranded' = stranded, recv' = recv,
         present' = present, content' = content, saved' = saved
  PROVE  DiskInv'
<1>1. PendingEmpty' /\ OpenTasksSame
  BY DEF DiskInv, PendingEmpty, OpenTasksSame
<1> QED BY <1>1, PendingOnly

-----------------------------------------------------------------------------
(* Every action keeps the invariant of the receiving side. *)

LEMMA CommandDisk == ASSUME TypeInv, DiskInv, Command PROVE DiskInv'
<1>1. Running /\ Running' /\ stranded' = stranded
  BY DEF Command, CmdSendfile, CmdAccept, CmdReject, CmdCancel, CommandSends, CommandFails,
         InSession, Running
<1>2. UNCHANGED <<recv, diskVars>> => DiskInv'
  BY <1>1, DiskSame DEF diskVars
<1>3. ASSUME NEW file \in SendFiles, CmdSendfile(file) PROVE DiskInv'
  BY <1>2, <1>3 DEF CmdSendfile
<1>4. ASSUME NEW tid \in UserTid, CmdAccept(tid) PROVE DiskInv'
  <2>1. PICK i \in Slot :
          /\ recv[i].busy /\ recv[i].inited /\ RecvActive = {}
          /\ \/ RecvReject(i)
             \/ /\ recv[i].size # 0 /\ recv[i].file \in LegalName
                /\ \E name \in UniqueName(recv[i].file) :
                     \/ /\ recv' = [recv EXCEPT ![i].open = TRUE, ![i].name = name]
                        /\ present' = present \cup {name}
                        /\ content' = [content EXCEPT ![name] = {}]
                        /\ UNCHANGED saved
                     \/ RecvClear(i)
    BY <1>4, LookupInSlot, LookupFacts DEF CmdAccept
  <2>2. RecvReject(i) \/ RecvClear(i) => DiskInv'
    BY <1>1, RecvClearDisk DEF RecvReject
  <2>3. ASSUME recv[i].size # 0, recv[i].file \in LegalName,
               NEW name \in UniqueName(recv[i].file),
               recv' = [recv EXCEPT ![i].open = TRUE, ![i].name = name],
               present' = present \cup {name},
               content' = [content EXCEPT ![name] = {}], saved' = saved
        PROVE  DiskInv'
    <3>1. name \in Name /\ name \notin present
      BY <2>3, UniqueNameFacts, FilesAssumption
    <3> QED BY <1>1, <2>1, <2>3, <3>1, OpenDisk
  <2> QED BY <2>1, <2>2, <2>3
<1>5. ASSUME NEW tid \in UserTid, CmdReject(tid) PROVE DiskInv'
  BY <1>1, <1>2, <1>5, LookupInSlot, RecvClearDisk DEF CmdReject
<1>6. ASSUME NEW tid \in UserTid, CmdCancel(tid) PROVE DiskInv'
  BY <1>1, <1>2, <1>6, LookupInSlot, RecvClearDisk DEF CmdCancel
<1> QED BY <1>3, <1>4, <1>5, <1>6 DEF Command

LEMMA InboundDisk == ASSUME TypeInv, DiskInv, Inbound PROVE DiskInv'
<1>1. Running /\ Running' /\ stranded' = stranded
  BY DEF Inbound, AnnSendPending, Accepted, Rejected, Cancelled, AnnComplete, FrameComplete,
         AnnIncoming, FrameChunk, FrameInit, NoSuchUser, TransferStateError, Listening,
         EnvUnchanged, Running
<1>2. UNCHANGED <<recv, diskVars>> => DiskInv'
  BY <1>1, DiskSame DEF diskVars
<1>3. recv \in [Slot -> Task] /\ TaskShape /\ PendingEmpty
  BY DEF TypeInv, TypeOK, DiskInv
<1>4. ASSUME NEW tid \in Tid, AnnSendPending(tid) \/ Accepted(tid) \/ Rejected(tid)
      PROVE  DiskInv'
  BY <1>2, <1>4 DEF AnnSendPending, Accepted, Rejected
<1>5. ASSUME NEW tid \in Tid, Cancelled(tid) PROVE DiskInv'
  BY <1>1, <1>2, <1>5, LookupInSlot, RecvClearDisk DEF Cancelled
<1>6. ASSUME NEW tid \in Tid, AnnComplete(tid) \/ FrameComplete(tid) PROVE DiskInv'
  BY <1>1, <1>2, <1>6, RecvCompleteDisk DEF AnnComplete, FrameComplete
<1>7. ASSUME NEW tid \in Tid, AnnIncoming(tid) PROVE DiskInv'
  <2>1. CASE UNCHANGED <<recv, recvSeq>>
    BY <1>2, <1>7, <2>1 DEF AnnIncoming
  <2>2. CASE \E i \in RecvFree :
               recv' = [recv EXCEPT ![i] =
                          [FreeTask EXCEPT !.busy = TRUE, !.tid = tid, !.seq = recvSeq]]
    <3> DEFINE t == [FreeTask EXCEPT !.busy = TRUE, !.tid = tid, !.seq = recvSeq]
    <3>1. PICK i \in Slot : ~recv[i].busy /\ recv' = [recv EXCEPT ![i] = t]
      BY <2>2, LookupInSlot, LookupFacts
    <3>2. t.open = FALSE /\ t.received = 0 /\ t.marked = {}
      BY DEF FreeTask
    <3> HIDE DEF t
    <3>3. recv[i].open = FALSE
      BY <1>3, <3>1 DEF TaskShape, Task
    <3>4. recv'[i] = t /\ \A j \in Slot : j # i => recv'[j] = recv[j]
      BY <1>3, <3>1
    <3>5. OpenTasksSame /\ PendingEmpty'
      BY <1>3, <3>2, <3>3, <3>4 DEF OpenTasksSame, PendingEmpty
    <3>6. present' = present /\ content' = content /\ saved' = saved
      BY <1>7 DEF AnnIncoming, diskVars
    <3> QED BY <1>1, <3>5, <3>6, PendingOnly
  <2> QED BY <1>7, <2>1, <2>2 DEF AnnIncoming
<1>8. ASSUME NEW tid \in Tid, NEW offset \in Span, NEW len \in Span,
             FrameChunk(tid, offset, len)
      PROVE  DiskInv'
  <2>1. PICK i \in Slot :
          /\ recv[i].open
          /\ \/ /\ SpanLegal(recv[i].size, recv[i].marked, offset, len)
                /\ StoreSpan(i, offset, len)
             \/ RecvAbort(i)
    BY <1>8, LookupInSlot DEF FrameChunk
  <2> QED BY <1>1, <2>1, StoreSpanDisk, RecvClearDisk DEF RecvAbort
<1>9. ASSUME NEW file \in File, NEW size \in InitSize, FrameInit(file, size) PROVE DiskInv'
  <2>1. PICK i \in Slot :
          /\ ~recv[i].inited
          /\ recv' = [recv EXCEPT ![i].inited = TRUE, ![i].file = file, ![i].size = size]
    BY <1>9, LookupInSlot, LookupFacts DEF FrameInit
  <2>2. ~recv[i].open
    BY <1>3, <2>1 DEF TaskShape
  <2>3. /\ recv'[i].open = recv[i].open /\ recv'[i].received = recv[i].received
        /\ recv'[i].marked = recv[i].marked
        /\ \A j \in Slot : j # i => recv'[j] = recv[j]
    BY <1>3, <2>1 DEF Task
  <2>4. OpenTasksSame /\ PendingEmpty'
    BY <1>3, <2>2, <2>3 DEF OpenTasksSame, PendingEmpty
  <2>5. present' = present /\ content' = content /\ saved' = saved
    BY <1>9 DEF FrameInit, diskVars
  <2> QED BY <1>1, <2>4, <2>5, PendingOnly
<1>10. CASE NoSuchUser
  BY <1>2, <1>10 DEF NoSuchUser
<1>11. CASE TransferStateError
  BY <1>1, <1>2, <1>11, LookupInSlot, RecvClearDisk DEF TransferStateError
<1> QED BY <1>4, <1>5, <1>6, <1>7, <1>8, <1>9, <1>10, <1>11 DEF Inbound

LEMMA TickDisk == ASSUME TypeInv, DiskInv, Tick PROVE DiskInv'
<1>1. Running /\ Running' /\ TickUnchanged
  BY DEF Tick, TickChunks, TickComplete, TickReadFails, TickSendFails, InSession, Running
<1> QED BY <1>1, DiskSame DEF TickUnchanged, diskVars

LEMMA ProcessDisk == ASSUME TypeInv, DiskInv, Process PROVE DiskInv'
<1>1. CASE SessionStart \/ Destroy
  BY <1>1, ResetAllDisk DEF SessionStart, Destroy, Running
<1>2. CASE ConnBreak \/ Stop
  BY <1>2, DiskSame DEF ConnBreak, Stop, Listening, Running, taskVars, diskVars
<1>3. CASE Kill
  <2>1. /\ UNCHANGED <<recv, present, content, saved>> /\ phase' = "killed"
        /\ KeptNames' = KeptNames
    BY <1>3 DEF Kill, taskVars, diskVars, KeptNames
  <2>2. stranded' = stranded \cup OpenNames
    <3>1. TaskShape /\ NoName \notin Name
      BY FilesAssumption DEF TypeInv
    <3>2. {recv[i].name : i \in Slot} \cap Name = OpenNames
      BY <3>1 DEF TaskShape, OpenNames
    <3> QED BY <1>3, <3>2 DEF Kill
  <2>3. present = KeptNames \cup stranded \cup OpenNames
    BY <1>3 DEF Kill, DiskInv, NoStrayFiles
  <2>4. NoStrayFiles' /\ OwnName'
    BY <2>1, <2>2, <2>3 DEF NoStrayFiles, OwnName
  <2>5. PendingEmpty' /\ SingleReceiver' /\ Covered' /\ ReceivedMatchesDisk'
    BY <2>1 DEF DiskInv, PendingEmpty, SingleReceiver, Covered, ReceivedMatchesDisk
  <2>6. KeptPresent' /\ SavedIfFlushed'
    BY <2>1 DEF DiskInv, KeptPresent, SavedIfFlushed, SavedComplete
  <2> QED BY <2>4, <2>5, <2>6 DEF DiskInv
<1>4. CASE Restart
  <2>1. /\ UNCHANGED <<present, content, saved, stranded>>
        /\ \A i \in Slot : /\ ~recv'[i].open /\ recv'[i].received = 0
                            /\ recv'[i].marked = {}
        /\ KeptNames' = KeptNames
    BY <1>4 DEF Restart, diskVars, KeptNames, FreeTask
  <2>2. present = KeptNames \cup stranded
    BY <1>4 DEF Restart, DiskInv, NoStrayFiles
  <2>3. PendingEmpty' /\ KeptPresent' /\ SavedIfFlushed'
    BY <2>1 DEF DiskInv, PendingEmpty, KeptPresent, SavedIfFlushed, SavedComplete
  <2> QED BY <2>1, <2>2, <2>3, NothingOpenNext
<1> QED BY <1>1, <1>2, <1>3, <1>4 DEF Process

LEMMA InitDisk == Init => DiskInv
<1> SUFFICES ASSUME Init PROVE DiskInv
  OBVIOUS
<1>1. \A i \in Slot : ~recv[i].open /\ recv[i].received = 0 /\ recv[i].marked = {}
  BY DEF Init, FreeTask
<1>2. saved = {} /\ stranded = {} /\ present = Preexisting /\ KeptNames = Preexisting
  BY DEF Init, KeptNames
<1>3. PendingEmpty /\ KeptPresent /\ SavedIfFlushed
  BY <1>1, <1>2 DEF PendingEmpty, KeptPresent, SavedIfFlushed, SavedComplete
<1> QED BY <1>1, <1>2, <1>3, NothingOpen

LEMMA StutterDisk == ASSUME DiskInv, UNCHANGED vars PROVE DiskInv'
BY DEF vars, DiskInv, PendingEmpty, OwnName, SingleReceiver, Covered, ReceivedMatchesDisk,
       KeptPresent, NoStrayFiles, SavedIfFlushed, SavedComplete, KeptNames, OpenNames

(* The receiving side and the disk are correct in every reachable state: the
   invariant that carries all the properties below. *)
THEOREM RecvCorrect == Spec => []RecvInv
<1>1. Init => TypeInv /\ DiskInv
  BY InitType, InitDisk
<1>2. TypeInv /\ DiskInv /\ [Next]_vars => TypeInv' /\ DiskInv'
  BY CommandType, InboundType, TickType, ProcessType, StutterType,
     CommandDisk, InboundDisk, TickDisk, ProcessDisk, StutterDisk DEF Next
<1>3. TypeInv /\ DiskInv => RecvInv
  BY DEF TypeInv, RecvInv
<1> QED BY <1>1, <1>2, <1>3, PTL DEF Spec

(* At most one file is being received, whatever the order of announcements,
   frames and commands: recv_task_active's premise. *)
THEOREM SingleReceiverHolds == Spec => []SingleReceiver
<1>1. RecvInv => SingleReceiver
  BY DEF RecvInv, DiskInv
<1> QED BY <1>1, RecvCorrect, PTL

(* The counter of recv_handle_chunk is the number of bytes on disk. *)
THEOREM ReceivedMatchesDiskHolds == Spec => []ReceivedMatchesDisk
<1>1. RecvInv => ReceivedMatchesDisk
  BY DEF RecvInv, DiskInv
<1> QED BY <1>1, RecvCorrect, PTL

(* Nothing that is not accounted for is ever in downloads/. *)
THEOREM NoStrayFilesHolds == Spec => []NoStrayFiles
<1>1. RecvInv => NoStrayFiles
  BY DEF RecvInv, DiskInv
<1> QED BY <1>1, RecvCorrect, PTL

(* As long as fclose flushes, the byte count check of recv_task_finish keeps a
   file only when all of it is on disk. *)
THEOREM SavedCompleteHolds == ASSUME ~FlushMayFail PROVE Spec => []SavedComplete
<1>1. RecvInv => SavedComplete
  BY DEF RecvInv, DiskInv, SavedIfFlushed
<1> QED BY <1>1, RecvCorrect, PTL

-----------------------------------------------------------------------------
(* What a step may never do. *)

LEMMA KeptFacts ==
  ASSUME TypeInv, DiskInv
  PROVE  /\ KeptNames \subseteq present /\ KeptNames \subseteq Name
         /\ content \in [Name -> SUBSET Nat] /\ recv \in [Slot -> Task] /\ NoName \notin KeptNames
BY FilesAssumption DEF KeptPresent, KeptNames, DiskInv, TypeInv, TypeOK

(* The only files a task names are its own. *)
LEMMA TaskNameNotKept ==
  ASSUME TypeInv, DiskInv, Running PROVE \A i \in Slot : recv[i].name \notin KeptNames
BY KeptFacts DEF TypeInv, TaskShape, DiskInv, OwnName, Running

LEMMA RecvClearKept ==
  ASSUME TypeInv, DiskInv, Running, NEW i \in Slot, RecvClear(i) PROVE KeptSame
BY KeptFacts, TaskNameNotKept DEF RecvClear, KeptSame

LEMMA RecvFinishKept ==
  ASSUME TypeInv, DiskInv, Running, NEW i \in Slot, RecvFinish(i) PROVE KeptSame
<1>1. CASE recv[i].received # recv[i].size
  BY <1>1, RecvClearKept DEF RecvFinish
<1>2. CASE recv[i].received = recv[i].size
  BY <1>2, KeptFacts, TaskNameNotKept DEF RecvFinish, KeptSame
<1> QED BY <1>1, <1>2

LEMMA ResetAllKept ==
  ASSUME TypeInv, DiskInv, Running, ResetAll PROVE KeptSame
<1> SUFFICES ASSUME NEW n \in KeptNames PROVE n \in present' /\ content'[n] = content[n]
  BY DEF KeptSame
<1> DEFINE gone == {recv[i].name : i \in Slot}
<1>1. n \notin gone /\ n \in Name /\ n \in present
  BY KeptFacts, TaskNameNotKept
<1>2. present' = present \ gone /\ content' = [m \in Name |-> IF m \in gone THEN {} ELSE content[m]]
  BY DEF ResetAll
<1> HIDE DEF gone
<1> QED BY <1>1, <1>2

LEMMA DiskSameKept ==
  ASSUME TypeInv, DiskInv, present' = present, content' = content PROVE KeptSame
BY KeptFacts DEF KeptSame

LEMMA StepKept == ASSUME TypeInv, DiskInv, Next PROVE KeptSame
<1>1. UNCHANGED diskVars => KeptSame
  BY DiskSameKept DEF diskVars
<1>2. CASE Command
  <2>1. Running
    BY <1>2 DEF Command, CmdSendfile, CmdAccept, CmdReject, CmdCancel, InSession, Running
  <2>2. ASSUME NEW tid \in UserTid, CmdAccept(tid) PROVE KeptSame
    <3>1. PICK i \in Slot :
            \/ RecvClear(i)
            \/ /\ recv[i].file \in LegalName
               /\ \E name \in UniqueName(recv[i].file) :
                    /\ present' = present \cup {name}
                    /\ content' = [content EXCEPT ![name] = {}]
      BY <2>1, <2>2, LookupInSlot, RecvClearKept DEF CmdAccept, RecvReject
    <3>2. ASSUME recv[i].file \in LegalName, NEW name \in UniqueName(recv[i].file),
                 present' = present \cup {name}, content' = [content EXCEPT ![name] = {}]
          PROVE  KeptSame
      <4>1. name \notin present
        BY <3>2, UniqueNameFacts, FilesAssumption
      <4> QED BY <3>2, <4>1, KeptFacts DEF KeptSame
    <3> QED BY <2>1, <3>1, <3>2, RecvClearKept
  <2>3. ASSUME NEW tid \in UserTid, CmdReject(tid) \/ CmdCancel(tid) PROVE KeptSame
    BY <1>1, <2>1, <2>3, LookupInSlot, RecvClearKept DEF CmdReject, CmdCancel
  <2> QED BY <1>1, <1>2, <2>2, <2>3 DEF Command, CmdSendfile
<1>3. CASE Inbound
  <2>1. Running
    BY <1>3 DEF Inbound, AnnSendPending, Accepted, Rejected, Cancelled, AnnComplete,
         FrameComplete, AnnIncoming, FrameChunk, FrameInit, NoSuchUser, TransferStateError,
         Listening, Running
  <2>2. ASSUME NEW tid \in Tid,
               \/ AnnSendPending(tid) \/ Accepted(tid) \/ Rejected(tid) \/ AnnIncoming(tid)
        PROVE  KeptSame
    BY <1>1, <2>2 DEF AnnSendPending, Accepted, Rejected, AnnIncoming
  <2>3. ASSUME NEW tid \in Tid, Cancelled(tid) PROVE KeptSame
    BY <1>1, <2>1, <2>3, LookupInSlot, RecvClearKept DEF Cancelled
  <2>4. ASSUME NEW tid \in Tid, AnnComplete(tid) \/ FrameComplete(tid) PROVE KeptSame
    BY <1>1, <2>1, <2>4, LookupInSlot, RecvClearKept, RecvFinishKept
    DEF AnnComplete, FrameComplete, RecvComplete
  <2>5. ASSUME NEW tid \in Tid, NEW offset \in Span, NEW len \in Span,
               FrameChunk(tid, offset, len)
        PROVE  KeptSame
    <3>1. PICK i \in Slot : StoreSpan(i, offset, len) \/ RecvClear(i)
      BY <2>5, LookupInSlot DEF FrameChunk, RecvAbort
    <3>2. CASE StoreSpan(i, offset, len)
      BY <2>1, <3>2, KeptFacts, TaskNameNotKept DEF StoreSpan, KeptSame
    <3> QED BY <2>1, <3>1, <3>2, RecvClearKept
  <2>6. ASSUME NEW file \in File, NEW size \in InitSize, FrameInit(file, size) PROVE KeptSame
    BY <1>1, <2>6 DEF FrameInit
  <2>7. CASE NoSuchUser \/ TransferStateError
    BY <1>1, <2>1, <2>7, LookupInSlot, RecvClearKept DEF NoSuchUser, TransferStateError
  <2> QED BY <1>3, <2>2, <2>3, <2>4, <2>5, <2>6, <2>7 DEF Inbound
<1>4. CASE Tick
  BY <1>1, <1>4 DEF Tick, TickChunks, TickComplete, TickReadFails, TickSendFails, TickUnchanged
<1>5. CASE Process
  BY <1>1, <1>5, ResetAllKept
  DEF Process, SessionStart, ConnBreak, Stop, Destroy, Kill, Restart, Running
<1> QED BY <1>2, <1>3, <1>4, <1>5 DEF Next

(* Files the user already had, and files kept by earlier transfers, are never
   truncated, written or removed. *)
THEOREM KeptUntouchedHolds == Spec => KeptUntouched
<1>1. TypeInv /\ DiskInv /\ [Next]_vars => [KeptSame]_vars
  BY StepKept
<1>2. RecvInv => TypeInv /\ DiskInv
  BY DEF RecvInv, TypeInv
<1>3. [][Next]_vars /\ []RecvInv => [][KeptSame]_vars
  BY <1>1, <1>2, PTL
<1> QED BY <1>3, RecvCorrect, PTL DEF Spec, KeptUntouched

(* A slot whose task is new, closed or the same keeps its identity. *)
LEMMA FrozenOthers ==
  ASSUME TypeInv, NEW i \in Slot, ~recv[i].open \/ ~recv'[i].open,
         \A j \in Slot : j # i => recv'[j] = recv[j]
  PROVE  Frozen
<1>1. \A j \in Slot : recv[j].received \in Nat
  BY DEF TypeInv, TypeOK, Task
<1> QED BY <1>1 DEF Frozen

LEMMA FrozenSame == ASSUME TypeInv, recv' = recv PROVE Frozen
<1>1. \A j \in Slot : recv[j].received \in Nat
  BY DEF TypeInv, TypeOK, Task
<1> QED BY <1>1 DEF Frozen

LEMMA RecvClearFrozen == ASSUME TypeInv, NEW i \in Slot, RecvClear(i) PROVE Frozen
<1>1. ~recv'[i].open /\ \A j \in Slot : j # i => recv'[j] = recv[j]
  BY DEF RecvClear, TypeInv, TypeOK, FreeTask
<1> QED BY <1>1, FrozenOthers

LEMMA RecvFinishFrozen == ASSUME TypeInv, NEW i \in Slot, RecvFinish(i) PROVE Frozen
<1>1. ~recv'[i].open /\ \A j \in Slot : j # i => recv'[j] = recv[j]
  BY DEF RecvFinish, RecvClear, TypeInv, TypeOK, FreeTask
<1> QED BY <1>1, FrozenOthers

LEMMA StoreSpanFrozen ==
  ASSUME TypeInv, NEW i \in Slot, NEW offset \in Span, NEW len \in Span, StoreSpan(i, offset, len)
  PROVE  Frozen
<1>1. recv \in [Slot -> Task] /\ len \in Nat
  BY WireAssumption DEF TypeInv, TypeOK
<1>2. \A j \in Slot : recv[j].received \in Nat
  BY <1>1 DEF Task
<1>3. /\ recv'[i].tid = recv[i].tid /\ recv'[i].name = recv[i].name
      /\ recv'[i].size = recv[i].size /\ recv'[i].file = recv[i].file
      /\ recv'[i].received = recv[i].received + len
      /\ \A j \in Slot : j # i => recv'[j] = recv[j]
  BY <1>1 DEF StoreSpan, Task
<1> QED BY <1>1, <1>2, <1>3 DEF Frozen

LEMMA StepFrozen == ASSUME TypeInv, Next PROVE Frozen
<1>1. recv \in [Slot -> Task] /\ TaskShape
  BY DEF TypeInv, TypeOK
<1>2. CASE Command
  <2>1. ASSUME NEW tid \in UserTid, CmdAccept(tid) PROVE Frozen
    <3>1. PICK i \in Slot :
            /\ RecvActive = {} /\ recv[i].busy
            /\ \/ RecvClear(i)
               \/ \E name : recv' = [recv EXCEPT ![i].open = TRUE, ![i].name = name]
      BY <2>1, LookupInSlot, LookupFacts DEF CmdAccept, RecvReject
    <3>2. ~recv[i].open
      BY <3>1 DEF RecvActive
    <3>3. CASE \E name : recv' = [recv EXCEPT ![i].open = TRUE, ![i].name = name]
      <4>1. \A j \in Slot : j # i => recv'[j] = recv[j]
        BY <1>1, <3>3
      <4> QED BY <3>2, <4>1, FrozenOthers
    <3> QED BY <3>1, <3>3, RecvClearFrozen
  <2>2. ASSUME NEW tid \in UserTid, CmdReject(tid) \/ CmdCancel(tid) PROVE Frozen
    BY <2>2, LookupInSlot, RecvClearFrozen, FrozenSame DEF CmdReject, CmdCancel
  <2> QED BY <1>2, <2>1, <2>2, FrozenSame DEF Command, CmdSendfile
<1>3. CASE Inbound
  <2>1. ASSUME NEW tid \in Tid, AnnSendPending(tid) \/ Accepted(tid) \/ Rejected(tid)
        PROVE  Frozen
    BY <2>1, FrozenSame DEF AnnSendPending, Accepted, Rejected
  <2>2. ASSUME NEW tid \in Tid, Cancelled(tid) PROVE Frozen
    BY <2>2, LookupInSlot, RecvClearFrozen, FrozenSame DEF Cancelled
  <2>3. ASSUME NEW tid \in Tid, AnnComplete(tid) \/ FrameComplete(tid) PROVE Frozen
    BY <2>3, LookupInSlot, RecvClearFrozen, RecvFinishFrozen, FrozenSame
    DEF AnnComplete, FrameComplete, RecvComplete
  <2>4. ASSUME NEW tid \in Tid, AnnIncoming(tid) PROVE Frozen
    <3>1. CASE UNCHANGED <<recv, recvSeq>>
      BY <3>1, FrozenSame
    <3>2. CASE \E i \in RecvFree :
                 recv' = [recv EXCEPT ![i] =
                            [FreeTask EXCEPT !.busy = TRUE, !.tid = tid, !.seq = recvSeq]]
      <4>1. PICK i \in Slot : ~recv[i].busy /\ \A j \in Slot : j # i => recv'[j] = recv[j]
        BY <1>1, <3>2, LookupInSlot, LookupFacts
      <4>2. ~recv[i].open
        BY <1>1, <4>1 DEF TaskShape
      <4> QED BY <4>1, <4>2, FrozenOthers
    <3> QED BY <2>4, <3>1, <3>2 DEF AnnIncoming
  <2>5. ASSUME NEW tid \in Tid, NEW offset \in Span, NEW len \in Span,
               FrameChunk(tid, offset, len)
        PROVE  Frozen
    BY <2>5, LookupInSlot, RecvClearFrozen, StoreSpanFrozen DEF FrameChunk, RecvAbort
  <2>6. ASSUME NEW file \in File, NEW size \in InitSize, FrameInit(file, size) PROVE Frozen
    <3>1. PICK i \in Slot :
            /\ ~recv[i].inited
            /\ recv' = [recv EXCEPT ![i].inited = TRUE, ![i].file = file, ![i].size = size]
      BY <2>6, LookupInSlot, LookupFacts DEF FrameInit
    <3>2. ~recv[i].open /\ \A j \in Slot : j # i => recv'[j] = recv[j]
      BY <1>1, <3>1 DEF TaskShape
    <3> QED BY <3>1, <3>2, FrozenOthers
  <2>7. CASE NoSuchUser \/ TransferStateError
    BY <2>7, LookupInSlot, RecvClearFrozen, FrozenSame DEF NoSuchUser, TransferStateError
  <2> QED BY <1>3, <2>1, <2>2, <2>3, <2>4, <2>5, <2>6, <2>7 DEF Inbound
<1>4. CASE Tick
  BY <1>4, FrozenSame
  DEF Tick, TickChunks, TickComplete, TickReadFails, TickSendFails, TickUnchanged
<1>5. CASE SessionStart \/ Destroy \/ Restart
  <2>1. \A j \in Slot : ~recv'[j].open
    BY <1>5 DEF SessionStart, Destroy, Restart, ResetAll, FreeTask
  <2> QED BY <2>1 DEF Frozen
<1>6. CASE ConnBreak \/ Stop \/ Kill
  BY <1>6, FrozenSame DEF ConnBreak, Stop, Kill, taskVars
<1> QED BY <1>2, <1>3, <1>4, <1>5, <1>6 DEF Next, Process

(* From the step that opens the file to the one that closes it, no INIT frame,
   announcement or command changes what the final check relies on. *)
THEOREM FrozenWhileReceivingHolds == Spec => FrozenWhileReceiving
<1>1. TypeInv /\ [Next]_vars => [Frozen]_vars
  BY StepFrozen
<1>2. (TypeOK /\ TaskShape) => TypeInv
  BY DEF TypeInv
<1>3. [][Next]_vars /\ [](TypeOK /\ TaskShape) => [][Frozen]_vars
  BY <1>1, <1>2, PTL
<1> QED BY <1>3, TypeCorrect, PTL DEF Spec, FrozenWhileReceiving

-----------------------------------------------------------------------------
(* Chunks tile the file. *)

LEMMA MultipleMod == \A c \in Nat \ {0} : \A a \in Nat : (a * c) % c = 0
<1> TAKE c \in Nat \ {0}
<1> TAKE a \in Nat
<1> DEFINE q == (a * c) \div c
           r == (a * c) % c
<1>1. a * c \in Nat
  OBVIOUS
<1>2. q \in Nat /\ r \in 0..c-1 /\ a * c = c * q + r
  BY <1>1, DivMod
<1> HIDE DEF q, r
<1>3. SUFFICES r = 0
  BY DEF r
<1>4. CASE a <= q
  <2>1. a * c <= q * c
    BY <1>2, <1>4, MulMono
  <2> QED BY <1>2, <2>1
<1>5. CASE q + 1 <= a
  <2>1. (q + 1) * c <= a * c
    BY <1>2, <1>5, MulMono
  <2>2. (q + 1) * c = q * c + c
    BY <1>2
  <2> QED BY <1>2, <2>1, <2>2
<1> QED BY <1>2, <1>4, <1>5

(* The chunks from index q on that begin within the file cover it without a gap,
   up to the end of the last one or of the file. *)
LEMMA ChunksTile ==
  ASSUME NEW size \in Nat, NEW q \in Nat, NEW n \in Nat,
         \A k \in 0..n-1 : (q + k) * ChunkMax < size
  PROVE  UNION {Bytes((q + k) * ChunkMax, ChunkLen(size, q + k)) : k \in 0..n-1}
           = q * ChunkMax .. (IF q * ChunkMax + n * ChunkMax < size
                              THEN q * ChunkMax + n * ChunkMax ELSE size) - 1
<1> DEFINE c       == ChunkMax
           end     == IF q * c + n * c < size THEN q * c + n * c ELSE size
           Part(k) == Bytes((q + k) * c, ChunkLen(size, q + k))
<1>1. c \in Nat \ {0}
  BY SizesAssumption
<1>2. q * c \in Nat /\ n * c \in Nat /\ (q + n) * c = q * c + n * c
  BY <1>1
<1>3. ASSUME NEW k \in 0..n-1, NEW b
      PROVE  b \in Part(k) <=> b \in Int /\ (q + k) * c <= b /\ b < (q + k) * c + c /\ b < size
  <2> DEFINE at == (q + k) * c
  <2>1. at \in Nat /\ at < size
    BY <1>1
  <2>2. ChunkLen(size, q + k) = IF size - at >= c THEN c ELSE size - at
    BY DEF ChunkLen
  <2> HIDE DEF at
  <2>3. b \in Bytes(at, ChunkLen(size, q + k)) <=> b \in Int /\ at <= b /\ b < at + c /\ b < size
    BY <1>1, <2>1, <2>2 DEF Bytes
  <2> QED BY <2>3 DEF at
<1>4. ASSUME NEW k \in 0..n-1, NEW b \in Part(k) PROVE b \in q * c .. end - 1
  <2>1. b \in Int /\ (q + k) * c <= b /\ b < (q + k) * c + c /\ b < size
    BY <1>3
  <2>2. q * c <= (q + k) * c
    BY <1>1, MulMono
  <2>3. (q + k + 1) * c <= (q + n) * c /\ (q + k + 1) * c = (q + k) * c + c
    <3>1. q + k + 1 \in Nat /\ q + n \in Nat /\ q + k + 1 <= q + n
      OBVIOUS
    <3>2. (q + k + 1) * c <= (q + n) * c
      BY <1>1, <3>1, MulMono
    <3>3. (q + k + 1) * c = (q + k) * c + c
      BY <1>1
    <3> QED BY <3>2, <3>3
  <2>4. (q + k) * c \in Nat
    BY <1>1
  <2> QED BY <1>1, <1>2, <2>1, <2>2, <2>3, <2>4
<1>5. ASSUME NEW b \in q * c .. end - 1 PROVE \E k \in 0..n-1 : b \in Part(k)
  <2> DEFINE j == b \div c
             r == b % c
  <2>1. b \in Nat /\ q * c <= b /\ b < q * c + n * c /\ b < size
    BY <1>1, <1>2
  <2>2. j \in Nat /\ r \in 0..c-1 /\ b = c * j + r
    BY <1>1, <2>1, DivMod
  <2> HIDE DEF j, r, end
  <2>3. j * c <= b /\ b < j * c + c /\ (j + 1) * c = j * c + c
    BY <1>1, <2>2
  <2>4. q <= j
    <3> SUFFICES ASSUME j + 1 <= q PROVE FALSE
      BY <2>2
    <3>1. (j + 1) * c <= q * c
      BY <1>1, <2>2, MulMono
    <3>2. (j + 1) * c \in Nat /\ j * c \in Nat
      BY <1>1, <2>2
    <3> QED BY <1>2, <2>1, <2>3, <3>1, <3>2
  <2>5. j < q + n
    <3> SUFFICES ASSUME q + n <= j PROVE FALSE
      BY <2>2
    <3>1. (q + n) * c <= j * c
      BY <1>1, <2>2, MulMono
    <3>2. j * c \in Nat
      BY <1>1, <2>2
    <3> QED BY <1>2, <2>1, <2>3, <3>1, <3>2
  <2>6. PICK k \in 0..n-1 : q + k = j
    <3>1. j - q \in 0..n-1 /\ q + (j - q) = j
      BY <2>2, <2>4, <2>5
    <3> QED BY <3>1
  <2>7. b \in Part(k)
    <3>1. (q + k) * c = j * c
      BY <2>6
    <3> HIDE DEF Part
    <3> QED BY <1>3, <2>1, <2>3, <3>1
  <2> QED BY <2>7
<1> HIDE DEF Part, end
<1>6. UNION {Part(k) : k \in 0..n-1} = q * c .. end - 1
  <2>1. ASSUME NEW b PROVE b \in UNION {Part(k) : k \in 0..n-1} <=> b \in q * c .. end - 1
    BY <1>4, <1>5
  <2> QED BY <2>1
<1> QED BY <1>6 DEF Part, end

(* The chunks of a file reach its end. *)
LEMMA CountCovers == \A size \in Nat : ChunkCount(size) * ChunkMax >= size
<1> TAKE size \in Nat
<1> DEFINE q == size \div ChunkMax
           r == size % ChunkMax
<1>1. ChunkMax \in Nat \ {0} /\ q \in Nat /\ r \in 0..ChunkMax-1 /\ size = ChunkMax * q + r
  BY SizesAssumption, DivMod
<1>2. ChunkCount(size) = q + (IF r # 0 THEN 1 ELSE 0)
  BY DEF ChunkCount
<1> HIDE DEF q, r
<1>3. CASE r = 0
  BY <1>1, <1>2, <1>3
<1>4. CASE r # 0
  <2>1. ChunkCount(size) * ChunkMax = q * ChunkMax + ChunkMax
    BY <1>1, <1>2, <1>4
  <2> QED BY <1>1, <2>1
<1> QED BY <1>3, <1>4

(* What one round sends: the next bytes of the file, whole chunks but at its end. *)
LEMMA RoundSends ==
  ASSUME SendTypeOK, send.sent < send.size, send.sent % ChunkMax = 0
  PROVE  /\ Round \in Nat
         /\ UNION {Bytes(f.offset, f.len) : f \in FirstChunks(Round)}
              = send.sent .. SentAfter(Round) - 1
         /\ SentAfter(Round) \in Nat /\ send.sent <= SentAfter(Round)
         /\ SentAfter(Round) <= send.size
         /\ SentAfter(Round) < send.size => SentAfter(Round) % ChunkMax = 0
<1> DEFINE c == ChunkMax
           q == send.sent \div c
           m == ChunkCount(send.size)
<1>1. /\ send.size \in Nat /\ send.sent \in Nat /\ c \in Nat \ {0}
      /\ ChunksPerRound \in Nat \ {0}
  BY SizesAssumption DEF SendTypeOK, SendTask
<1>2. q \in Nat /\ send.sent = q * c /\ m \in Nat
  <2>1. q \in Nat /\ send.sent = c * q + (send.sent % c)
    BY <1>1, DivMod
  <2>2. m \in Nat
    BY <1>1, ChunkCountType
  <2> HIDE DEF q, m
  <2> QED BY <1>1, <2>1, <2>2
<1>3. Round = IF m - q < ChunksPerRound THEN m - q ELSE ChunksPerRound
  BY DEF Round
<1>4. m * c >= send.size
  BY <1>1, CountCovers
<1>5. \A index \in Nat : index < m => index * c < send.size
  BY <1>1, ChunkInside
<1>6. UNION {Bytes(f.offset, f.len) : f \in FirstChunks(Round)}
        = UNION {Bytes((q + k) * c, ChunkLen(send.size, q + k)) : k \in 0..Round-1}
  <2>1. ASSUME NEW k
        PROVE  Bytes(ChunkFrame(k).offset, ChunkFrame(k).len)
                 = Bytes((q + k) * c, ChunkLen(send.size, q + k))
    BY DEF ChunkFrame
  <2>2. ASSUME NEW b
        PROVE  b \in UNION {Bytes(f.offset, f.len) : f \in FirstChunks(Round)}
                 <=> \E k \in 0..Round-1 : b \in Bytes(ChunkFrame(k).offset, ChunkFrame(k).len)
    <3>1. b \in UNION {Bytes(f.offset, f.len) : f \in FirstChunks(Round)}
            <=> \E f \in FirstChunks(Round) : b \in Bytes(f.offset, f.len)
      OBVIOUS
    <3>2. \A f : f \in FirstChunks(Round) <=> \E k \in 0..Round-1 : f = ChunkFrame(k)
      BY Zenon DEF FirstChunks
    <3> QED BY <3>1, <3>2, Zenon
  <2>3. ASSUME NEW b
        PROVE  b \in UNION {Bytes((q + k) * c, ChunkLen(send.size, q + k)) : k \in 0..Round-1}
                 <=> \E k \in 0..Round-1 : b \in Bytes((q + k) * c, ChunkLen(send.size, q + k))
    OBVIOUS
  <2> QED BY <2>1, <2>2, <2>3, Zenon
<1> HIDE DEF q, m
<1>7. q < m
  <2> SUFFICES ASSUME m <= q PROVE FALSE
    BY <1>2
  <2>1. m * c <= q * c
    BY <1>1, <1>2, MulMono
  <2>2. m * c \in Nat
    BY <1>1, <1>2
  <2> QED BY <1>1, <1>2, <1>4, <2>1, <2>2
<1>8. Round \in Nat /\ q + Round <= m
  BY <1>1, <1>2, <1>3, <1>7
<1> DEFINE n == Round
<1>9. SentAfter(n) = IF q * c + n * c < send.size THEN q * c + n * c ELSE send.size
  BY <1>2 DEF SentAfter
<1>10. \A k \in 0..n-1 : (q + k) * c < send.size
  <2> TAKE k \in 0..n-1
  <2>1. q + k \in Nat /\ q + k < m
    BY <1>2, <1>8
  <2> QED BY <1>5, <2>1
<1>11. UNION {Bytes((q + k) * c, ChunkLen(send.size, q + k)) : k \in 0..n-1}
         = q * c .. SentAfter(n) - 1
  <2>1. UNION {Bytes((q + k) * c, ChunkLen(send.size, q + k)) : k \in 0..n-1}
          = q * c .. (IF q * c + n * c < send.size THEN q * c + n * c ELSE send.size) - 1
    <3>1. send.size \in Nat /\ n \in Nat
      BY <1>1, <1>8
    <3> HIDE DEF n
    <3> QED BY <1>2, <1>10, <3>1, ChunksTile, Zenon
  <2> QED BY <1>9, <2>1, Zenon
<1>12. n * c \in Nat /\ (q + n) * c = q * c + n * c /\ q + n \in Nat
  BY <1>1, <1>2, <1>8
<1>13. ((q + n) * c) % c = 0
  BY <1>1, <1>12, MultipleMod
<1>14. SentAfter(n) \in Nat /\ send.sent <= SentAfter(n) /\ SentAfter(n) <= send.size
  BY <1>1, <1>2, <1>9, <1>12
<1>15. SentAfter(n) < send.size => SentAfter(n) % c = 0
  BY <1>1, <1>9, <1>12, <1>13
<1> QED BY <1>2, <1>6, <1>8, <1>11, <1>14, <1>15

-----------------------------------------------------------------------------
(* The ways in which a step treats the send task. *)

NoData == \A f \in out' : f.type \notin {"COMPLETE", "CHUNK"}

Idle == UNCHANGED <<send, emitted>> /\ accepted \subseteq accepted' /\ NoData

Cleared == SendClear /\ NoData

Starts(file) ==
  /\ send.state = "NONE" /\ FileSize[file] > 0
  /\ send' = [state |-> "PENDING_TID", tid |-> 0, file |-> file,
              size |-> FileSize[file], sent |-> 0, open |-> TRUE]
  /\ UNCHANGED emitted /\ NoData

Numbered(tid) ==
  /\ send.state = "PENDING_TID" /\ send' = [send EXCEPT !.tid = tid, !.state = "PENDING"]
  /\ UNCHANGED emitted /\ NoData

Goes(tid) ==
  /\ send.tid = tid /\ send.state = "PENDING" /\ send' = [send EXCEPT !.state = "ACTIVE"]
  /\ accepted' = accepted \cup {tid} /\ UNCHANGED emitted /\ NoData

Quietly == Idle \/ Cleared

LEMMA QuietNoData == Quiet => NoData
BY DEF Quiet, NoData

LEMMA ReplyNoData ==
  ASSUME NEW type \in {"ACCEPT", "REJECT", "CANCEL"}, NEW tid,
         out' \subseteq {ControlFrame(type, tid)}
  PROVE  NoData
<1>1. ControlFrame(type, tid).type = type
  BY DEF ControlFrame
<1> QED BY <1>1 DEF NoData

LEMMA CommandFailsIdle == CommandFails => NoData /\ accepted \subseteq accepted'
BY DEF CommandFails, NoData

LEMMA CommandSendsReply ==
  ASSUME NEW type \in {"ACCEPT", "REJECT", "CANCEL"}, NEW tid,
         CommandSends({ControlFrame(type, tid)})
  PROVE  NoData /\ accepted \subseteq accepted'
<1>1. out' \subseteq {ControlFrame(type, tid)} /\ accepted' = accepted
  BY DEF CommandSends
<1> QED BY <1>1, ReplyNoData

LEMMA RejectNoData == ASSUME NEW i \in Slot, RecvReject(i) PROVE NoData
<1>1. out' \subseteq {ControlFrame("REJECT", recv[i].tid)}
  BY DEF RecvReject, Delivered
<1> QED BY <1>1, ReplyNoData

LEMMA AbortNoData == ASSUME NEW i \in Slot, RecvAbort(i) PROVE NoData
<1>1. out' \subseteq {ControlFrame("CANCEL", recv[i].tid)}
  BY DEF RecvAbort, Delivered
<1> QED BY <1>1, ReplyNoData

LEMMA CommandKind ==
  ASSUME Command PROVE Quietly \/ \E file \in SendFiles : Starts(file)
<1>1. ASSUME NEW file \in SendFiles, CmdSendfile(file) PROVE Cleared \/ Starts(file)
  <2>1. CASE CommandFails /\ SendClear
    BY <2>1, CommandFailsIdle DEF Cleared
  <2>2. CASE /\ CommandSends({InitFrame(file)})
             /\ send' = [state |-> "PENDING_TID", tid |-> 0, file |-> file,
                         size |-> FileSize[file], sent |-> 0, open |-> TRUE]
             /\ UNCHANGED emitted
    <3>1. InitFrame(file).type = "INIT"
      BY DEF InitFrame
    <3>2. NoData
      BY <2>2, <3>1 DEF CommandSends, NoData
    <3> QED BY <1>1, <2>2, <3>2 DEF Starts, CmdSendfile, SendBusy
  <2> QED BY <1>1, <2>1, <2>2 DEF CmdSendfile
<1>2. ASSUME NEW tid \in UserTid, CmdAccept(tid) PROVE Idle
  <2>1. PICK i \in Slot :
          /\ \/ RecvReject(i) /\ UNCHANGED <<phase, broken, known, accepted, stranded>>
             \/ CommandSends({ControlFrame("ACCEPT", tid)})
             \/ CommandFails
          /\ UNCHANGED <<send, emitted, recvSeq>>
    BY <1>2, LookupInSlot DEF CmdAccept
  <2> QED BY <2>1, RejectNoData, CommandSendsReply, CommandFailsIdle DEF Idle
<1>3. ASSUME NEW tid \in UserTid, CmdReject(tid) PROVE Idle
  <2>1. /\ CommandSends({ControlFrame("REJECT", tid)}) \/ CommandFails
        /\ UNCHANGED <<send, emitted, recvSeq>>
    BY <1>3 DEF CmdReject
  <2> QED BY <2>1, CommandSendsReply, CommandFailsIdle DEF Idle
<1>4. ASSUME NEW tid \in UserTid, CmdCancel(tid) PROVE Quietly
  <2>1. /\ CommandSends({ControlFrame("CANCEL", tid)}) \/ CommandFails
        /\ UNCHANGED <<send, emitted>> \/ SendClear
    BY <1>4 DEF CmdCancel
  <2> QED BY <2>1, CommandSendsReply, CommandFailsIdle DEF Idle, Cleared, Quietly
<1> QED BY <1>1, <1>2, <1>3, <1>4 DEF Command, Quietly

LEMMA InboundKind ==
  ASSUME Inbound PROVE Quietly \/ \E tid \in Tid : Numbered(tid) \/ Goes(tid)
<1>1. ASSUME NEW tid \in Tid, AnnSendPending(tid) PROVE Numbered(tid)
  BY <1>1, QuietNoData DEF AnnSendPending, Numbered
<1>2. ASSUME NEW tid \in Tid, Accepted(tid) PROVE Goes(tid)
  BY <1>2, QuietNoData DEF Accepted, Goes, SendMatches
<1>3. ASSUME NEW tid \in Tid, Rejected(tid) PROVE Quietly
  BY <1>3, QuietNoData DEF Rejected, Quietly, Cleared
<1>4. ASSUME NEW tid \in Tid, Cancelled(tid) PROVE Quietly
  BY <1>4, QuietNoData DEF Cancelled, Quietly, Cleared, Idle
<1>5. ASSUME NEW tid \in Tid, AnnComplete(tid) PROVE Quietly
  BY <1>5, QuietNoData DEF AnnComplete, Quietly, Cleared, Idle
<1>6. ASSUME NEW tid \in Tid, FrameComplete(tid) PROVE Quietly
  BY <1>6, QuietNoData DEF FrameComplete, Quietly, Idle
<1>7. ASSUME NEW tid \in Tid, AnnIncoming(tid) PROVE Quietly
  <2>1. /\ Quiet \/ out' \subseteq {ControlFrame("REJECT", tid)}
        /\ UNCHANGED <<accepted, send, emitted>>
    BY <1>7 DEF AnnIncoming, Delivered
  <2> QED BY <2>1, QuietNoData, ReplyNoData DEF Quietly, Idle
<1>8. ASSUME NEW tid \in Tid, NEW offset \in Span, NEW len \in Span,
             FrameChunk(tid, offset, len)
      PROVE  Quietly
  <2>1. PICK i \in Slot : RecvAbort(i) \/ StoreSpan(i, offset, len)
    BY <1>8, LookupInSlot DEF FrameChunk
  <2>2. NoData
    BY <2>1, AbortNoData, QuietNoData DEF StoreSpan
  <2> QED BY <1>8, <2>2 DEF FrameChunk, Quietly, Idle
<1>9. ASSUME NEW file \in File, NEW size \in InitSize, FrameInit(file, size) PROVE Quietly
  BY <1>9, QuietNoData DEF FrameInit, Quietly, Idle
<1>10. ASSUME NoSuchUser \/ TransferStateError PROVE Quietly
  BY <1>10, QuietNoData DEF NoSuchUser, TransferStateError, Quietly, Cleared
<1> QED BY <1>1, <1>2, <1>3, <1>4, <1>5, <1>6, <1>7, <1>8, <1>9, <1>10 DEF Inbound

LEMMA ProcessKind == ASSUME Process PROVE Quietly
<1>1. CASE SessionStart \/ Destroy
  BY <1>1, QuietNoData DEF SessionStart, Destroy, ResetAll, Quietly, Cleared
<1>2. CASE ConnBreak \/ Stop \/ Kill
  BY <1>2, QuietNoData DEF ConnBreak, Stop, Kill, taskVars, Quietly, Idle
<1>3. CASE Restart
  BY <1>3, QuietNoData DEF Restart, Quietly, Cleared
<1> QED BY <1>1, <1>2, <1>3 DEF Process

-----------------------------------------------------------------------------
(* The invariant of the send task. *)

SendPart == SendShape /\ SentPrefix

LEMMA InitSend == Init => SendPart
BY DEF Init, FreeSend, SendPart, SendShape, SentPrefix

LEMMA ClearedSend == ASSUME SendClear PROVE SendPart'
<1>1. /\ send'.state = "NONE" /\ send'.sent = 0 /\ send'.size = 0 /\ send' = FreeSend
      /\ emitted' = {}
  BY DEF SendClear, FreeSend
<1> QED BY <1>1 DEF SendPart, SendShape, SentPrefix, FreeSend

LEMMA IdleSend == ASSUME SendPart, Idle PROVE SendPart'
BY DEF Idle, SendPart, SendShape, SentPrefix, FreeSend

LEMMA StartsSend == ASSUME SendPart, NEW file \in SendFiles, Starts(file) PROVE SendPart'
<1>1. send.sent = 0 /\ emitted = {}
  BY DEF Starts, SendPart, SendShape, SentPrefix, FreeSend
<1>2. FileSize[file] \in Nat
  BY FilesAssumption
<1>3. /\ send'.state = "PENDING_TID" /\ send'.sent = 0 /\ send'.size = FileSize[file]
      /\ send'.file = file /\ emitted' = {} /\ FileSize[file] > 0
  BY <1>1 DEF Starts
<1> QED BY <1>2, <1>3 DEF SendPart, SendShape, SentPrefix

(* The fields the send task keeps when only its state, or its tid, changes. *)
LEMMA NumberedSend ==
  ASSUME send \in SendTask, SendPart, NEW tid \in Tid, Numbered(tid) PROVE SendPart'
<1>1. /\ send'.state = "PENDING" /\ send'.sent = send.sent /\ send'.size = send.size
      /\ send'.file = send.file /\ emitted' = emitted /\ send.state = "PENDING_TID"
  BY DEF Numbered, SendTask
<1> QED BY <1>1 DEF SendPart, SendShape, SentPrefix

LEMMA GoesSend ==
  ASSUME send \in SendTask, SendPart, NEW tid \in Tid, Goes(tid) PROVE SendPart'
<1>1. /\ send'.state = "ACTIVE" /\ send'.sent = send.sent /\ send'.size = send.size
      /\ send'.file = send.file /\ send'.tid = send.tid /\ emitted' = emitted
      /\ send.state = "PENDING" /\ send.tid \in accepted'
  BY DEF Goes, SendTask
<1>2. send.sent = 0 /\ send.size > 0 /\ send.file \in SendFiles
  BY <1>1 DEF SendPart, SendShape
<1>3. 0 % ChunkMax = 0
  BY SizesAssumption
<1> QED BY <1>1, <1>2, <1>3 DEF SendPart, SendShape, SentPrefix

LEMMA ChunksSend == ASSUME SendTypeOK, SendPart, TickChunks PROVE SendPart'
<1>1. /\ send \in SendTask /\ send.sent \in Nat /\ send.size \in Nat
      /\ send.state = "ACTIVE"
  BY DEF SendTypeOK, SendTask, TickChunks
<1>2. /\ send.sent < send.size /\ send.sent % ChunkMax = 0 /\ send.tid \in accepted
      /\ send.size > 0 /\ send.file \in SendFiles
  BY <1>1 DEF SendPart, SendShape
<1>3. /\ UNION {Bytes(f.offset, f.len) : f \in FirstChunks(Round)}
           = send.sent .. SentAfter(Round) - 1
      /\ SentAfter(Round) \in Nat /\ send.sent <= SentAfter(Round)
      /\ SentAfter(Round) <= send.size
      /\ SentAfter(Round) < send.size => SentAfter(Round) % ChunkMax = 0
  BY <1>2, RoundSends
<1>4. /\ send'.sent = SentAfter(Round) /\ send'.size = send.size
      /\ send'.file = send.file /\ send'.tid = send.tid
      /\ send'.state = IF SentAfter(Round) >= send.size THEN "DONE" ELSE "ACTIVE"
      /\ emitted' = emitted \cup UNION {Bytes(f.offset, f.len) : f \in FirstChunks(Round)}
      /\ accepted' = accepted
  BY <1>1 DEF TickChunks, TickUnchanged, SendTask
<1>5. emitted' = 0 .. SentAfter(Round) - 1
  <2>1. emitted = 0 .. send.sent - 1
    BY DEF SendPart, SentPrefix
  <2>2. emitted' = (0 .. send.sent - 1) \cup (send.sent .. SentAfter(Round) - 1)
    BY <1>3, <1>4, <2>1
  <2> DEFINE end == SentAfter(Round)
  <2>3. end \in Nat /\ send.sent <= end
    BY <1>3
  <2> HIDE DEF end
  <2>4. (0 .. send.sent - 1) \cup (send.sent .. end - 1) = 0 .. end - 1
    BY <1>1, <2>3
  <2> QED BY <2>2, <2>4 DEF end
<1>6. SentPrefix'
  BY <1>3, <1>4, <1>5 DEF SentPrefix
<1>7. SendShape'
  BY <1>1, <1>2, <1>3, <1>4 DEF SendShape
<1> QED BY <1>6, <1>7 DEF SendPart

LEMMA CompleteSend == ASSUME send \in SendTask, SendPart, TickComplete PROVE SendPart'
<1>1. CASE UNCHANGED send
  BY <1>1 DEF TickComplete, TickUnchanged, SendPart, SendShape, SentPrefix
<1>2. CASE send' = [send EXCEPT !.state = "WAIT_COMPLETE"]
  <2>1. /\ send'.state = "WAIT_COMPLETE" /\ send'.sent = send.sent /\ send'.size = send.size
        /\ send'.file = send.file /\ emitted' = emitted /\ send.state = "DONE"
    BY <1>2 DEF TickComplete, SendTask
  <2> QED BY <2>1 DEF SendPart, SendShape, SentPrefix
<1> QED BY <1>1, <1>2 DEF TickComplete

LEMMA StepSend == ASSUME TypeInv, SendPart, Next PROVE SendPart'
<1>1. SendTypeOK /\ send \in SendTask
  BY TypeInvParts
<1>2. Quietly => SendPart'
  BY ClearedSend, IdleSend DEF Quietly, Cleared
<1>3. CASE Command
  BY <1>2, <1>3, CommandKind, StartsSend
<1>4. CASE Inbound
  BY <1>1, <1>2, <1>4, InboundKind, NumberedSend, GoesSend
<1>5. CASE Tick
  <2>1. ASSUME NEW n, TickReadFails(n) \/ TickSendFails(n) PROVE SendPart'
    BY <2>1, ClearedSend DEF TickReadFails, TickSendFails
  <2> QED BY <1>1, <1>5, <2>1, ChunksSend, CompleteSend DEF Tick
<1>6. CASE Process
  BY <1>2, <1>6, ProcessKind
<1> QED BY <1>3, <1>4, <1>5, <1>6 DEF Next

LEMMA StutterSend == ASSUME SendPart, UNCHANGED vars PROVE SendPart'
BY DEF vars, SendPart, SendShape, SentPrefix, FreeSend

(* The send task moves through its states in whole chunks, and what it has sent is
   always a gapless prefix of the file: the cursor of fread, the counter and the
   offset of the next frame agree. *)
THEOREM SendCorrect == Spec => []SendInv
<1>1. SendPart /\ [TypeInv /\ Next]_vars => SendPart'
  BY StepSend, StutterSend
<1>2. TypeInv /\ TypeInv' /\ [Next]_vars => [TypeInv /\ Next]_vars
  OBVIOUS
<1>3. Spec => []TypeInv
  BY TypeCorrect DEF TypeInv
<1>4. TypeInv /\ SendPart => SendInv
  BY DEF TypeInv, SendPart, SendInv
<1> QED BY <1>1, <1>2, <1>3, <1>4, InitSend, PTL DEF Spec

-----------------------------------------------------------------------------
(* What leaves on the connection. *)

LEMMA ChunkFacts ==
  ASSUME NEW n, NEW f \in FirstChunks(n)
  PROVE  f.type = "CHUNK" /\ f.tid = send.tid /\ f.file = send.file
BY DEF FirstChunks, ChunkFrame

LEMMA ControlFacts ==
  ASSUME NEW type, NEW tid
  PROVE  ControlFrame(type, tid).type = type /\ ControlFrame(type, tid).tid = tid
BY DEF ControlFrame

CompleteLast ==
  \A f \in out' : f.type = "COMPLETE" =>
     /\ emitted = 0..send.size-1 /\ send.size > 0
     /\ \A g \in out' : g.type # "CHUNK"

DataAccepted ==
  \A f \in out' : f.type = "CHUNK" => f.tid \in accepted /\ f.file = send.file

LEMMA NoDataFine == NoData => CompleteLast /\ DataAccepted
BY DEF NoData, CompleteLast, DataAccepted

LEMMA StepData == ASSUME SendPart, Next PROVE CompleteLast /\ DataAccepted
<1>1. CASE Command
  BY <1>1, CommandKind, NoDataFine DEF Quietly, Idle, Cleared, Starts
<1>2. CASE Inbound
  BY <1>2, InboundKind, NoDataFine DEF Quietly, Idle, Cleared, Numbered, Goes
<1>3. CASE Process
  BY <1>3, ProcessKind, NoDataFine DEF Quietly, Idle, Cleared
<1>4. CASE TickComplete
  <2>1. out' \subseteq {ControlFrame("COMPLETE", send.tid)} /\ send.state = "DONE"
    BY <1>4 DEF TickComplete, Quiet
  <2>2. emitted = 0..send.size-1 /\ send.size > 0
    BY <2>1 DEF SendPart, SendShape, SentPrefix
  <2>3. \A f \in out' : f.type = "COMPLETE"
    BY <2>1, ControlFacts
  <2> QED BY <2>2, <2>3 DEF CompleteLast, DataAccepted
<1>5. ASSUME NEW n, TickReadFails(n) \/ TickSendFails(n) \/ (TickChunks /\ n = Round)
      PROVE  CompleteLast /\ DataAccepted
  <2>1. /\ out' \subseteq FirstChunks(n) \cup {ControlFrame("CANCEL", send.tid)}
        /\ send.state = "ACTIVE"
    BY <1>5 DEF TickReadFails, TickSendFails, TickChunks, Delivered
  <2>2. send.tid \in accepted
    BY <2>1 DEF SendPart, SendShape
  <2>3. \A f \in out' : f.type = "CANCEL" \/ (f.type = "CHUNK" /\ f.tid = send.tid /\ f.file = send.file)
    BY <2>1, ChunkFacts, ControlFacts
  <2> QED BY <2>2, <2>3 DEF CompleteLast, DataAccepted
<1> QED BY <1>1, <1>2, <1>3, <1>4, <1>5 DEF Next, Tick

LEMMA SendPartHolds == Spec => []SendPart
<1>1. SendInv => SendPart
  BY DEF SendInv, SendPart
<1> QED BY <1>1, SendCorrect, PTL

(* COMPLETE leaves only when every byte of the file has been sent, and not in the
   step that sent the last chunk. *)
THEOREM CompleteAfterAllHolds == Spec => CompleteAfterAll
<1>1. SendPart /\ [Next]_vars => [CompleteLast]_vars
  BY StepData
<1>2. CompleteAfterAll <=> [][CompleteLast]_vars
  BY DEF CompleteAfterAll, CompleteLast
<1> QED BY <1>1, <1>2, SendPartHolds, PTL DEF Spec

(* Data flows only for the transfer that was accepted, and from its file. *)
THEOREM ChunksFollowAcceptHolds == Spec => ChunksFollowAccept
<1>1. SendPart /\ [Next]_vars => [DataAccepted]_vars
  BY StepData
<1>2. ChunksFollowAccept <=> [][DataAccepted]_vars
  BY DEF ChunksFollowAccept, DataAccepted
<1> QED BY <1>1, <1>2, SendPartHolds, PTL DEF Spec

-----------------------------------------------------------------------------
(* Whom the replies name.  That a reply names a transfer the server announced to
   this process is not inductive: the id comes out of a task, so the tasks must
   hold such ids, and the ids must be forgotten with them when the process
   restarts. *)

KnownTids == known \cup {0}

TidsKnown ==
  /\ \A i \in Slot : recv[i].tid \in KnownTids
  /\ send.tid \in KnownTids

ReplyInv == TidsKnown /\ RepliesNameKnownTids

(* The ways in which a step treats the ids it holds, and those it sends. *)
SlotsKeep == \A i \in Slot : recv'[i].tid \in {recv[i].tid, 0}

SendKeeps == send'.tid \in {send.tid, 0}

RepliesTo(tid) == \A f \in out' : f.type \in {"INIT", "CHUNK"} \/ f.tid = tid

Harmless ==
  /\ SlotsKeep /\ SendKeeps /\ known' = known
  /\ \E tid \in KnownTids : RepliesTo(tid)

LEMMA HarmlessKeeps == ASSUME TidsKnown, Harmless PROVE ReplyInv'
BY DEF TidsKnown, Harmless, SlotsKeep, SendKeeps, RepliesTo, KnownTids, ReplyInv,
       RepliesNameKnownTids

-----------------------------------------------------------------------------
(* The operations the actions share. *)

LEMMA QuietReplies == Quiet => RepliesTo(0)
BY DEF Quiet, RepliesTo

LEMMA FrameReplies ==
  ASSUME NEW type, NEW tid, out' \subseteq {ControlFrame(type, tid)}
  PROVE  RepliesTo(tid)
BY ControlFacts DEF RepliesTo

LEMMA SameSlots == UNCHANGED recv => SlotsKeep
BY DEF SlotsKeep

LEMMA SameSend == UNCHANGED send => SendKeeps
BY DEF SendKeeps

LEMMA ClearSend == SendClear => SendKeeps
BY DEF SendClear, SendKeeps, FreeSend

LEMMA ClearSlot ==
  ASSUME recv \in [Slot -> Task], NEW i \in Slot, recv' = [recv EXCEPT ![i] = FreeTask]
  PROVE  SlotsKeep
BY DEF SlotsKeep, FreeTask

LEMMA ClearKeeps ==
  ASSUME recv \in [Slot -> Task], NEW i \in Slot, RecvClear(i) PROVE SlotsKeep
BY ClearSlot DEF RecvClear

LEMMA FinishKeeps ==
  ASSUME recv \in [Slot -> Task], NEW i \in Slot, RecvFinish(i) PROVE SlotsKeep
BY ClearSlot, ClearKeeps DEF RecvFinish

LEMMA CompleteKeeps ==
  ASSUME recv \in [Slot -> Task], NEW tid, RecvComplete(tid) PROVE SlotsKeep
BY LookupInSlot, ClearKeeps, FinishKeeps DEF RecvComplete

LEMMA ResetKeeps == ResetAll => SlotsKeep /\ SendKeeps
BY ClearSend DEF ResetAll, SlotsKeep, FreeTask

LEMMA FailsReplies == CommandFails => RepliesTo(0) /\ known' = known
BY DEF CommandFails, RepliesTo

LEMMA SendsReplies ==
  ASSUME NEW type, NEW tid, CommandSends({ControlFrame(type, tid)})
  PROVE  RepliesTo(tid) /\ known' = known
BY FrameReplies DEF CommandSends

-----------------------------------------------------------------------------
(* The steps. *)

LEMMA CommandReplies == ASSUME TypeInv, TidsKnown, Command PROVE Harmless
<1>1. recv \in [Slot -> Task] /\ send \in SendTask /\ 0 \in KnownTids
  BY TypeInvParts DEF KnownTids
<1>2. ASSUME NEW file \in SendFiles, CmdSendfile(file) PROVE Harmless
  <2>1. CASE CommandFails /\ SendClear
    BY <1>1, <1>2, <2>1, FailsReplies, SameSlots, ClearSend DEF CmdSendfile, Harmless
  <2>2. CASE /\ CommandSends({InitFrame(file)})
             /\ send' = [state |-> "PENDING_TID", tid |-> 0, file |-> file,
                         size |-> FileSize[file], sent |-> 0, open |-> TRUE]
    <3>1. RepliesTo(0) /\ known' = known
      BY <2>2 DEF CommandSends, InitFrame, RepliesTo
    <3>2. SendKeeps
      BY <2>2 DEF SendKeeps
    <3> QED BY <1>1, <1>2, <3>1, <3>2, SameSlots DEF CmdSendfile, Harmless
  <2> QED BY <1>2, <2>1, <2>2 DEF CmdSendfile
<1>3. ASSUME NEW tid \in UserTid, CmdAccept(tid) PROVE Harmless
  <2>1. PICK i \in RecvFind(tid) :
          /\ \/ RecvReject(i) /\ UNCHANGED <<phase, broken, known, accepted, stranded>>
             \/ \E name : /\ CommandSends({ControlFrame("ACCEPT", tid)})
                          /\ recv' = [recv EXCEPT ![i].open = TRUE, ![i].name = name]
             \/ CommandFails /\ RecvClear(i)
          /\ UNCHANGED <<send, emitted, recvSeq>>
    BY <1>3 DEF CmdAccept
  <2>2. i \in Slot /\ recv[i].tid = tid /\ tid \in KnownTids
    BY LookupInSlot, LookupFacts DEF TidsKnown
  <2>3. CASE RecvReject(i) /\ UNCHANGED <<phase, broken, known, accepted, stranded>>
    <3>1. RepliesTo(tid)
      BY <2>2, <2>3, FrameReplies DEF RecvReject, Delivered
    <3> QED BY <1>1, <2>1, <2>2, <2>3, <3>1, ClearKeeps, SameSend DEF RecvReject, Harmless
  <2>4. ASSUME NEW name, CommandSends({ControlFrame("ACCEPT", tid)}),
               recv' = [recv EXCEPT ![i].open = TRUE, ![i].name = name]
        PROVE  Harmless
    <3>1. SlotsKeep
      BY <1>1, <2>2, <2>4 DEF SlotsKeep, Task
    <3> QED BY <2>1, <2>2, <2>4, <3>1, SendsReplies, SameSend DEF Harmless
  <2>5. CASE CommandFails /\ RecvClear(i)
    BY <1>1, <2>1, <2>2, <2>5, FailsReplies, ClearKeeps, SameSend DEF Harmless
  <2> QED BY <2>1, <2>3, <2>4, <2>5
<1>4. ASSUME NEW tid \in UserTid, CmdReject(tid) PROVE Harmless
  <2>1. PICK i \in RecvFind(tid) :
          /\ \/ CommandSends({ControlFrame("REJECT", tid)}) /\ RecvClear(i)
             \/ CommandFails /\ UNCHANGED <<recv, diskVars>>
          /\ UNCHANGED <<send, emitted, recvSeq>>
    BY <1>4 DEF CmdReject
  <2>2. i \in Slot /\ tid \in KnownTids
    BY LookupInSlot, LookupFacts DEF TidsKnown
  <2> QED BY <1>1, <2>1, <2>2, SendsReplies, FailsReplies, ClearKeeps, SameSlots, SameSend
          DEF Harmless
<1>5. ASSUME NEW tid \in UserTid, CmdCancel(tid) PROVE Harmless
  <2>1. CASE SendMatches(tid)
    <3>1. /\ \/ CommandSends({ControlFrame("CANCEL", tid)}) /\ SendClear
             \/ CommandFails /\ UNCHANGED <<send, emitted>>
          /\ UNCHANGED recv
      BY <1>5, <2>1 DEF CmdCancel
    <3>2. tid \in KnownTids
      BY <2>1 DEF SendMatches, TidsKnown
    <3> QED BY <1>1, <3>1, <3>2, SendsReplies, FailsReplies, SameSlots, SameSend, ClearSend
            DEF Harmless
  <2>2. CASE ~SendMatches(tid)
    <3>1. PICK i \in RecvFind(tid) :
            \/ CommandSends({ControlFrame("CANCEL", tid)}) /\ RecvClear(i)
            \/ CommandFails /\ UNCHANGED <<recv, diskVars>>
      BY <1>5, <2>2 DEF CmdCancel
    <3>2. i \in Slot /\ tid \in KnownTids /\ UNCHANGED send
      BY <1>5, <2>2, LookupInSlot, LookupFacts DEF TidsKnown, CmdCancel
    <3> QED BY <1>1, <3>1, <3>2, SendsReplies, FailsReplies, ClearKeeps, SameSlots, SameSend
            DEF Harmless
  <2> QED BY <2>1, <2>2
<1> QED BY <1>2, <1>3, <1>4, <1>5 DEF Command

(* The announcements of a transfer make its id known. *)
LEMMA SendPendingReplies ==
  ASSUME TypeInv, TidsKnown, NEW tid \in Tid, AnnSendPending(tid) PROVE ReplyInv'
<1>1. send \in SendTask /\ send'.tid = tid /\ UNCHANGED recv /\ known' = known \cup {tid} /\ out' = {}
  BY TypeInvParts DEF AnnSendPending, SendTask, Quiet
<1> QED BY <1>1 DEF TidsKnown, KnownTids, ReplyInv, RepliesNameKnownTids

LEMMA IncomingReplies ==
  ASSUME TypeInv, TidsKnown, NEW tid \in Tid, AnnIncoming(tid) PROVE ReplyInv'
<1>1. recv \in [Slot -> Task] /\ known' = known \cup {tid} /\ UNCHANGED send
  BY TypeInvParts DEF AnnIncoming
<1>2. /\ \A i \in Slot : recv'[i].tid \in {recv[i].tid, tid}
      /\ RepliesTo(tid)
  <2>1. CASE out' = Delivered({ControlFrame("REJECT", tid)}) /\ UNCHANGED <<recv, recvSeq>>
    BY <2>1, FrameReplies DEF Delivered
  <2>2. CASE /\ \E i \in RecvFree :
                  recv' = [recv EXCEPT ![i] =
                             [FreeTask EXCEPT !.busy = TRUE, !.tid = tid, !.seq = recvSeq]]
             /\ Quiet
    <3>1. RepliesTo(tid)
      BY <2>2 DEF Quiet, RepliesTo
    <3>2. [FreeTask EXCEPT !.busy = TRUE, !.tid = tid, !.seq = recvSeq].tid = tid
      BY DEF FreeTask
    <3>3. \A i \in Slot : recv'[i].tid \in {recv[i].tid, tid}
      BY <1>1, <2>2, <3>2
    <3> QED BY <3>1, <3>3
  <2> QED BY <2>1, <2>2 DEF AnnIncoming
<1> QED BY <1>1, <1>2 DEF TidsKnown, KnownTids, ReplyInv, RepliesNameKnownTids, RepliesTo

LEMMA InboundReplies == ASSUME TypeInv, TidsKnown, Inbound PROVE ReplyInv'
<1>1. recv \in [Slot -> Task] /\ send \in SendTask /\ 0 \in KnownTids
  BY TypeInvParts DEF KnownTids
<1>2. ASSUME NEW tid \in Tid, Accepted(tid) PROVE Harmless
  <2>1. SendKeeps
    BY <1>1, <1>2 DEF Accepted, SendKeeps, SendTask
  <2> QED BY <1>1, <1>2, <2>1, QuietReplies, SameSlots DEF Accepted, Harmless
<1>3. ASSUME NEW tid \in Tid, Rejected(tid) PROVE Harmless
  BY <1>1, <1>3, QuietReplies, SameSlots, ClearSend DEF Rejected, Harmless
<1>4. ASSUME NEW tid \in Tid, Cancelled(tid) PROVE Harmless
  <2>1. SlotsKeep /\ SendKeeps
    BY <1>1, <1>4, SameSlots, SameSend, ClearSend, ClearKeeps, LookupInSlot DEF Cancelled
  <2> QED BY <1>1, <1>4, <2>1, QuietReplies DEF Cancelled, Harmless
<1>5. ASSUME NEW tid \in Tid, AnnComplete(tid) PROVE Harmless
  <2>1. SlotsKeep /\ SendKeeps
    BY <1>1, <1>5, SameSlots, SameSend, ClearSend, CompleteKeeps DEF AnnComplete
  <2> QED BY <1>1, <1>5, <2>1, QuietReplies DEF AnnComplete, Harmless
<1>6. ASSUME NEW tid \in Tid, FrameComplete(tid) PROVE Harmless
  BY <1>1, <1>6, QuietReplies, SameSend, CompleteKeeps DEF FrameComplete, Harmless
<1>7. ASSUME NEW tid \in Tid, NEW offset \in Span, NEW len \in Span,
             FrameChunk(tid, offset, len)
      PROVE  Harmless
  <2>1. PICK i \in RecvFind(tid) : RecvAbort(i) \/ StoreSpan(i, offset, len)
    BY <1>7 DEF FrameChunk
  <2>2. i \in Slot /\ recv[i].tid = tid /\ tid \in KnownTids
    BY LookupInSlot, LookupFacts DEF TidsKnown
  <2>3. CASE RecvAbort(i)
    <3>1. RepliesTo(tid)
      BY <2>2, <2>3, FrameReplies DEF RecvAbort, Delivered
    <3> QED BY <1>1, <1>7, <2>2, <2>3, <3>1, ClearKeeps, SameSend
            DEF RecvAbort, FrameChunk, Harmless
  <2>4. CASE StoreSpan(i, offset, len)
    <3>1. SlotsKeep
      BY <1>1, <2>2, <2>4 DEF StoreSpan, SlotsKeep, Task
    <3> QED BY <1>1, <1>7, <2>4, <3>1, QuietReplies, SameSend DEF StoreSpan, FrameChunk, Harmless
  <2> QED BY <2>1, <2>3, <2>4
<1>8. ASSUME NEW file \in File, NEW size \in InitSize, FrameInit(file, size) PROVE Harmless
  <2>1. SlotsKeep
    BY <1>1, <1>8, LookupInSlot DEF FrameInit, SlotsKeep, Task
  <2> QED BY <1>1, <1>8, <2>1, QuietReplies, SameSend DEF FrameInit, Harmless
<1>9. ASSUME NoSuchUser \/ TransferStateError PROVE Harmless
  <2>1. SlotsKeep /\ SendKeeps
    BY <1>1, <1>9, SameSlots, ClearSend, ClearKeeps, LookupInSlot
       DEF NoSuchUser, TransferStateError
  <2> QED BY <1>1, <1>9, <2>1, QuietReplies DEF NoSuchUser, TransferStateError, Harmless
<1> QED BY <1>2, <1>3, <1>4, <1>5, <1>6, <1>7, <1>8, <1>9, HarmlessKeeps,
           SendPendingReplies, IncomingReplies DEF Inbound

LEMMA TickReplies == ASSUME TypeInv, TidsKnown, Tick PROVE Harmless
<1>1. recv' = recv /\ known' = known /\ send \in SendTask /\ send.tid \in KnownTids
  BY TypeInvParts DEF Tick, TickChunks, TickComplete, TickReadFails, TickSendFails,
                      TickUnchanged, TidsKnown
<1>2. SendKeeps
  <2>1. CASE SendClear
    BY <2>1, ClearSend
  <2>2. CASE TickChunks \/ TickComplete
    BY <1>1, <2>2 DEF TickChunks, TickComplete, SendKeeps, SendTask
  <2> QED BY <2>1, <2>2 DEF Tick, TickReadFails, TickSendFails
<1>3. ASSUME NEW n, NEW type, out' \subseteq FirstChunks(n) \cup {ControlFrame(type, send.tid)}
      PROVE  RepliesTo(send.tid)
  BY <1>3, ChunkFacts, ControlFacts DEF RepliesTo
<1>4. RepliesTo(send.tid)
  <2>1. CASE TickComplete
    BY <2>1, <1>3 DEF TickComplete, Quiet
  <2>2. ASSUME NEW n, TickReadFails(n) \/ TickSendFails(n) \/ (TickChunks /\ n = Round)
        PROVE  RepliesTo(send.tid)
    BY <1>3, <2>2 DEF TickReadFails, TickSendFails, TickChunks, Delivered
  <2> QED BY <2>1, <2>2 DEF Tick
<1> QED BY <1>1, <1>2, <1>4, SameSlots DEF Harmless

LEMMA ProcessReplies == ASSUME TypeInv, TidsKnown, Process PROVE ReplyInv'
<1>1. 0 \in KnownTids
  BY DEF KnownTids
<1>2. CASE SessionStart \/ Destroy
  BY <1>1, <1>2, ResetKeeps, QuietReplies, HarmlessKeeps DEF SessionStart, Destroy, Harmless
<1>3. CASE ConnBreak \/ Stop \/ Kill
  BY <1>1, <1>3, SameSlots, SameSend, QuietReplies, HarmlessKeeps
     DEF ConnBreak, Stop, Kill, taskVars, Harmless
<1>4. CASE Restart
  BY <1>4 DEF Restart, SendClear, FreeSend, FreeTask, Quiet, ReplyInv, TidsKnown, KnownTids,
              RepliesNameKnownTids
<1> QED BY <1>2, <1>3, <1>4 DEF Process

LEMMA InitReplies == Init => ReplyInv
BY DEF Init, FreeSend, FreeTask, ReplyInv, TidsKnown, KnownTids, RepliesNameKnownTids

LEMMA StutterReplies == ASSUME ReplyInv, UNCHANGED vars PROVE ReplyInv'
BY DEF vars, ReplyInv, TidsKnown, KnownTids, RepliesNameKnownTids

LEMMA StepReplies == ASSUME TypeInv, ReplyInv, Next PROVE ReplyInv'
BY CommandReplies, InboundReplies, TickReplies, ProcessReplies, HarmlessKeeps
   DEF Next, ReplyInv

(* Every ACCEPT, REJECT, CANCEL or COMPLETE that leaves names a transfer the server
   has announced to this process, or the id 0, over any number of restarts: ids of
   an earlier session are never answered. *)
THEOREM RepliesNameKnownTidsHolds == Spec => []RepliesNameKnownTids
<1>1. ReplyInv /\ [TypeInv /\ Next]_vars => ReplyInv'
  BY StepReplies, StutterReplies
<1>2. TypeInv /\ TypeInv' /\ [Next]_vars => [TypeInv /\ Next]_vars
  OBVIOUS
<1>3. Spec => []TypeInv
  BY TypeCorrect DEF TypeInv
<1>4. ReplyInv => RepliesNameKnownTids
  BY DEF ReplyInv
<1> QED BY <1>1, <1>2, <1>3, <1>4, InitReplies, PTL DEF Spec

-----------------------------------------------------------------------------
(* The order of the INIT frames.  A frame that fills the task announced first
   leaves the others behind it only because the tasks are numbered in the order
   of their announcements: numbers are distinct, and below the next one. *)

(* A slot is freed, or keeps its number and what is known of its details. *)
SameOrder ==
  /\ recvSeq' = recvSeq
  /\ \A i \in Slot : \/ ~recv'[i].busy
                     \/ /\ recv'[i].busy = recv[i].busy /\ recv'[i].seq = recv[i].seq
                        /\ recv'[i].inited = recv[i].inited

LEMMA SameOrderKeeps == ASSUME OrderInv, SameOrder PROVE OrderInv'
BY DEF OrderInv, SeqBelow, SeqDistinct, InitsInOrder, SameOrder

LEMMA ClearedOrder ==
  ASSUME recv \in [Slot -> Task], NEW i \in Slot, recv' = [recv EXCEPT ![i] = FreeTask],
         recvSeq' = recvSeq
  PROVE  SameOrder
BY DEF SameOrder, FreeTask

LEMMA ClearOrder ==
  ASSUME recv \in [Slot -> Task], NEW i \in Slot, RecvClear(i) \/ RecvFinish(i),
         recvSeq' = recvSeq
  PROVE  SameOrder
BY ClearedOrder DEF RecvClear, RecvFinish

LEMMA CompleteOrder ==
  ASSUME recv \in [Slot -> Task], NEW tid, RecvComplete(tid), recvSeq' = recvSeq
  PROVE  SameOrder
BY ClearOrder, LookupInSlot DEF RecvComplete

LEMMA StillOrder == UNCHANGED <<recv, recvSeq>> => SameOrder
BY DEF SameOrder

LEMMA ResetOrder == ResetAll => SameOrder
BY DEF ResetAll, SameOrder, FreeTask

LEMMA CommandOrder == ASSUME TypeInv, Command PROVE SameOrder
<1>1. recv \in [Slot -> Task]
  BY TypeInvParts
<1>2. ASSUME NEW tid \in UserTid, CmdAccept(tid) PROVE SameOrder
  <2>1. PICK i \in Slot :
          /\ \/ RecvClear(i)
             \/ \E name : recv' = [recv EXCEPT ![i].open = TRUE, ![i].name = name]
          /\ recvSeq' = recvSeq
    BY <1>2, LookupInSlot DEF CmdAccept, RecvReject
  <2>2. ASSUME NEW name, recv' = [recv EXCEPT ![i].open = TRUE, ![i].name = name]
        PROVE  SameOrder
    <3>1. /\ recv'[i].busy = recv[i].busy /\ recv'[i].seq = recv[i].seq
          /\ recv'[i].inited = recv[i].inited
          /\ \A j \in Slot : j # i => recv'[j] = recv[j]
      BY <1>1, <2>2 DEF Task
    <3> QED BY <2>1, <3>1 DEF SameOrder
  <2> QED BY <1>1, <2>1, <2>2, ClearOrder
<1>3. ASSUME NEW tid \in UserTid, CmdReject(tid) \/ CmdCancel(tid) PROVE SameOrder
  BY <1>1, <1>3, LookupInSlot, ClearOrder, StillOrder DEF CmdReject, CmdCancel
<1> QED BY <1>2, <1>3, StillOrder DEF Command, CmdSendfile

(* A new task is numbered above all others and waits for its details. *)
LEMMA IncomingOrder ==
  ASSUME TypeInv, OrderInv, NEW tid \in Tid, AnnIncoming(tid) PROVE OrderInv'
<1>1. recv \in [Slot -> Task] /\ recvSeq \in Nat
  BY TypeInvParts, SizesAssumption
<1>2. CASE UNCHANGED <<recv, recvSeq>>
  BY <1>2, StillOrder, SameOrderKeeps
<1>3. CASE /\ \E i \in RecvFree :
                 recv' = [recv EXCEPT ![i] =
                            [FreeTask EXCEPT !.busy = TRUE, !.tid = tid, !.seq = recvSeq]]
           /\ recvSeq' = recvSeq + 1
  <2> DEFINE t == [FreeTask EXCEPT !.busy = TRUE, !.tid = tid, !.seq = recvSeq]
  <2>1. PICK i \in Slot : recv' = [recv EXCEPT ![i] = t]
    BY <1>3, LookupInSlot
  <2>2. t.busy /\ t.seq = recvSeq /\ ~t.inited
    BY DEF FreeTask
  <2> HIDE DEF t
  <2>3. recv'[i] = t /\ \A j \in Slot : j # i => recv'[j] = recv[j]
    BY <1>1, <2>1
  <2>4. \A j \in Slot : recv[j].seq \in Nat
    BY <1>1, SizesAssumption DEF Task
  <2>5. \A j \in Slot : j # i /\ recv'[j].busy => recv'[j].seq < recvSeq
    BY <2>3 DEF OrderInv, SeqBelow
  <2>6. SeqBelow'
    BY <1>1, <1>3, <2>2, <2>3, <2>4, <2>5 DEF SeqBelow
  <2>7. SeqDistinct'
    BY <1>1, <2>2, <2>3, <2>4, <2>5 DEF OrderInv, SeqDistinct
  <2>8. InitsInOrder'
    BY <1>1, <2>2, <2>3, <2>4, <2>5 DEF OrderInv, InitsInOrder
  <2> QED BY <2>6, <2>7, <2>8 DEF OrderInv
<1> QED BY <1>2, <1>3 DEF AnnIncoming

(* The task announced first among those that wait is the one filled. *)
LEMMA InitOrder ==
  ASSUME TypeInv, OrderInv, NEW file \in File, NEW size \in InitSize, FrameInit(file, size)
  PROVE  OrderInv'
<1>1. recv \in [Slot -> Task] /\ recvSeq' = recvSeq
  BY TypeInvParts DEF FrameInit
<1>2. PICK i \in Uninited :
        /\ \A j \in Uninited : recv[i].seq <= recv[j].seq
        /\ recv' = [recv EXCEPT ![i].inited = TRUE, ![i].file = file, ![i].size = size]
  BY DEF FrameInit
<1>3. i \in Slot /\ recv[i].busy /\ ~recv[i].inited
  BY <1>2, LookupInSlot, LookupFacts
<1>4. /\ recv'[i].busy = recv[i].busy /\ recv'[i].seq = recv[i].seq /\ recv'[i].inited
      /\ \A j \in Slot : j # i => recv'[j] = recv[j]
  BY <1>1, <1>2, <1>3 DEF Task
<1>5. \A j \in Slot : recv'[j].busy = recv[j].busy /\ recv'[j].seq = recv[j].seq
  BY <1>4
<1>6. SeqBelow' /\ SeqDistinct'
  BY <1>1, <1>5 DEF OrderInv, SeqBelow, SeqDistinct
<1>7. InitsInOrder'
  <2> SUFFICES ASSUME NEW j \in Slot, NEW k \in Slot, recv'[j].busy, recv'[j].inited,
                      recv'[k].busy, ~recv'[k].inited
               PROVE  recv'[j].seq < recv'[k].seq
    BY DEF InitsInOrder
  <2>1. k # i /\ k \in Uninited /\ recv[k].busy /\ ~recv[k].inited
    BY <1>4 DEF Uninited
  <2>2. CASE j = i
    <3>1. recv[i].seq \in Nat /\ recv[k].seq \in Nat
      BY <1>1, <1>3, SizesAssumption DEF Task
    <3>2. recv[i].seq # recv[k].seq
      BY <1>3, <2>1 DEF OrderInv, SeqDistinct
    <3>3. recv[i].seq <= recv[k].seq
      BY <1>2, <2>1
    <3> QED BY <1>5, <2>2, <3>1, <3>2, <3>3
  <2>3. CASE j # i
    BY <1>4, <2>1, <2>3 DEF OrderInv, InitsInOrder
  <2> QED BY <2>2, <2>3
<1> QED BY <1>6, <1>7 DEF OrderInv

LEMMA InboundOrder == ASSUME TypeInv, OrderInv, Inbound PROVE OrderInv'
<1>1. recv \in [Slot -> Task]
  BY TypeInvParts
<1>2. ASSUME NEW tid \in Tid,
             AnnSendPending(tid) \/ Accepted(tid) \/ Rejected(tid) \/ Cancelled(tid)
      PROVE  SameOrder
  BY <1>1, <1>2, LookupInSlot, ClearOrder, StillOrder
     DEF AnnSendPending, Accepted, Rejected, Cancelled
<1>3. ASSUME NEW tid \in Tid, AnnComplete(tid) \/ FrameComplete(tid) PROVE SameOrder
  BY <1>1, <1>3, CompleteOrder, StillOrder DEF AnnComplete, FrameComplete
<1>4. ASSUME NEW tid \in Tid, NEW offset \in Span, NEW len \in Span,
             FrameChunk(tid, offset, len)
      PROVE  SameOrder
  <2>1. PICK i \in Slot : RecvClear(i) \/ StoreSpan(i, offset, len)
    BY <1>4, LookupInSlot DEF FrameChunk, RecvAbort
  <2>2. recvSeq' = recvSeq
    BY <1>4 DEF FrameChunk
  <2>3. CASE StoreSpan(i, offset, len)
    BY <1>1, <2>2, <2>3 DEF StoreSpan, SameOrder, Task
  <2> QED BY <1>1, <2>1, <2>2, <2>3, ClearOrder
<1>5. CASE NoSuchUser \/ TransferStateError
  BY <1>1, <1>5, LookupInSlot, ClearOrder, StillOrder, SameOrderKeeps
     DEF NoSuchUser, TransferStateError
<1> QED BY <1>2, <1>3, <1>4, <1>5, IncomingOrder, InitOrder, SameOrderKeeps DEF Inbound

LEMMA ProcessOrder == ASSUME OrderInv, Process PROVE OrderInv'
<1>1. CASE SessionStart \/ Destroy
  BY <1>1, ResetOrder, SameOrderKeeps DEF SessionStart, Destroy
<1>2. CASE ConnBreak \/ Stop \/ Kill
  BY <1>2, StillOrder, SameOrderKeeps DEF ConnBreak, Stop, Kill, taskVars
<1>3. CASE Restart
  BY <1>3 DEF Restart, FreeTask, OrderInv, SeqBelow, SeqDistinct, InitsInOrder
<1> QED BY <1>1, <1>2, <1>3 DEF Process

LEMMA StepOrder == ASSUME TypeInv, OrderInv, [Next]_vars PROVE OrderInv'
<1>1. CASE Command
  BY <1>1, CommandOrder, SameOrderKeeps
<1>2. CASE Tick
  BY <1>2, StillOrder, SameOrderKeeps
     DEF Tick, TickChunks, TickComplete, TickReadFails, TickSendFails, TickUnchanged
<1>3. CASE UNCHANGED vars
  BY <1>3, StillOrder, SameOrderKeeps DEF vars
<1> QED BY <1>1, <1>2, <1>3, InboundOrder, ProcessOrder DEF Next

(* However slots are freed and taken again, INIT frames fill the tasks in the
   order of their announcements. *)
THEOREM InitsInOrderHolds == Spec => []InitsInOrder
<1>1. Init => OrderInv
  BY DEF Init, FreeTask, OrderInv, SeqBelow, SeqDistinct, InitsInOrder
<1>2. TypeInv /\ OrderInv /\ [Next]_vars => OrderInv'
  BY StepOrder
<1>3. Spec => []TypeInv
  BY TypeCorrect DEF TypeInv
<1>4. OrderInv => InitsInOrder
  BY DEF OrderInv
<1> QED BY <1>1, <1>2, <1>3, <1>4, PTL DEF Spec
=============================================================================
