---------------------------- MODULE FileTransfer ----------------------------
(***************************************************************************)
(* The file module of one TCPClient process (src/src/file.c): the single   *)
(* send task, the array of receive tasks, and the files under downloads/.  *)
(*                                                                         *)
(* The environment is open.  The user may type any of the four transfer    *)
(* commands between two events, and the server may deliver any transfer    *)
(* announcement, control frame, chunk or error frame, with any tid, in any *)
(* order and any number of times: the server's worker pool reorders the    *)
(* frames of one connection, every transition has two signals (an          *)
(* announcement and a frame), and both are handled idempotently.           *)
(*                                                                         *)
(* The process is single threaded, so one command, one inbound frame or    *)
(* one timed-out poll round is one atomic step.  A handler that only       *)
(* prints is a stuttering step and has no action.                          *)
(***************************************************************************)
EXTENDS Integers, FiniteSets

CONSTANTS
  NSlots,          \* FILE_MAX_RECV_PENDING
  ChunkMax,        \* FILE_CHUNK_DATA_MAX
  ChunksPerRound,  \* FILE_CHUNKS_PER_ROUND
  MaxTries,        \* candidate names file_unique_name probes (1000)
  MaxSeq,          \* bound on the incoming announcements of one process
  Tid,             \* transfer ids the server assigns
  UserTid,         \* transfer ids the user may type
  File,            \* file names, as they are typed or declared by a peer
  LegalName,       \* those file_basename_sanitize accepts
  SendFiles,       \* files the user may ask to send
  FileSize,        \* size of each file the user may send
  InitSize,        \* sizes a peer may declare
  Span,            \* offsets and lengths a chunk frame may carry
  Name,            \* names under downloads/
  Candidate,       \* Candidate[f][k]: the k-th name file_unique_name probes
  Preexisting,     \* names already under downloads/ when it is first used
  FlushMayFail,    \* can the flush done by fclose hit a full disk?
  MayBeKilled,     \* can the process die without running app_destroy?
  NoFile, NoName

ASSUME SizesAssumption ==
  /\ NSlots \in Nat \ {0} /\ ChunkMax \in Nat \ {0}
  /\ ChunksPerRound \in Nat \ {0} /\ MaxTries \in Nat \ {0} /\ MaxSeq \in Nat

ASSUME WireAssumption ==
  /\ Tid \subseteq Nat \ {0} /\ UserTid \subseteq Nat
  /\ InitSize \subseteq Nat /\ Span \subseteq Nat

ASSUME FilesAssumption ==
  /\ LegalName \subseteq File /\ SendFiles \subseteq File
  /\ \A file \in SendFiles : FileSize[file] \in Nat
  /\ NoFile \notin File
  /\ Candidate \in [File -> [0..MaxTries-1 -> Name]]
  /\ Preexisting \subseteq Name /\ NoName \notin Name
  /\ FlushMayFail \in BOOLEAN /\ MayBeKilled \in BOOLEAN

VARIABLES
  phase,     \* where app_connect / app_run / app_destroy are
  broken,    \* conn_send_all fails from now on
  send,      \* g_send
  recv,      \* g_recv
  recvSeq,   \* g_recv_seq
  present,   \* the files that exist under downloads/
  content,   \* the byte offsets written to each of them
  out,       \* the frames sent by the last step
  saved,     \* history: transfers kept by recv_task_finish
  known,     \* history: tids of the announcements this process acted on
  accepted,  \* history: tids accepted since they were given to the send task
  emitted,   \* history: byte offsets sent for the current send task
  stranded   \* history: files left behind by a kill

taskVars == <<send, emitted, recv, recvSeq>>
diskVars == <<present, content, saved>>
vars == <<phase, broken, send, recv, recvSeq, present, content, out,
          saved, known, accepted, emitted, stranded>>

Slot == 1..NSlots

SendState == {"NONE", "PENDING_TID", "PENDING", "ACTIVE", "DONE", "WAIT_COMPLETE"}

(* g_send after send_task_clear: memset to zero.  busy is state # "NONE". *)
FreeSend == [state |-> "NONE", tid |-> 0, file |-> NoFile, size |-> 0,
             sent |-> 0, open |-> FALSE]

(* A receive slot after recv_task_clear: memset to zero.  open is fp # NULL,
   marked the bitmap (as the offsets it stands for), buffered the bytes stdio
   still holds: recv_handle_chunk's fseek flushes all but the last write. *)
FreeTask == [busy |-> FALSE, inited |-> FALSE, seq |-> 0, tid |-> 0,
             file |-> NoFile, size |-> 0, received |-> 0, name |-> NoName,
             marked |-> {}, open |-> FALSE, buffered |-> {}]

InitFrame(file)          == [type |-> "INIT", file |-> file, size |-> FileSize[file]]
ControlFrame(type, tid)  == [type |-> type, tid |-> tid]

(* What reaches the socket: nothing once the connection is broken. *)
Delivered(frames) == IF broken THEN {} ELSE frames

-----------------------------------------------------------------------------
(* The chunk plan and the legality of a received span. *)

Lowest(S) == {x \in S : \A y \in S : x <= y}

Bytes(offset, len) == offset .. offset + len - 1

ChunkCount(size) == size \div ChunkMax + (IF size % ChunkMax # 0 THEN 1 ELSE 0)

(* Mutant: the last chunk is not shortened. *)
ChunkLenWhole(size, index) == ChunkMax

ChunkLen(size, index) ==
  LET remain == size - index * ChunkMax
  IN  IF remain >= ChunkMax THEN ChunkMax ELSE remain

(* Mutant: the bitmap is not consulted. *)
SpanLegalRepeats(size, marked, offset, len) ==
  /\ size # 0 /\ len # 0 /\ offset < size
  /\ len <= size - offset /\ len <= ChunkMax
  /\ offset % ChunkMax = 0

(* Mutant: the alignment test is missing. *)
SpanLegalUnaligned(size, marked, offset, len) ==
  /\ size # 0 /\ len # 0 /\ offset < size
  /\ len <= size - offset /\ len <= ChunkMax
  /\ offset \notin marked

(* file_recv_span_check. *)
SpanLegal(size, marked, offset, len) ==
  /\ size # 0 /\ len # 0 /\ offset < size
  /\ len <= size - offset /\ len <= ChunkMax
  /\ offset % ChunkMax = 0
  /\ offset \notin marked

(* Mutant: the name is taken as it is. *)
FirstName(file) == {Candidate[file][0]}

(* The first candidate that does not exist yet: at most one name. *)
UniqueName(file) ==
  {Candidate[file][k] :
     k \in Lowest({j \in 0..MaxTries-1 : Candidate[file][j] \notin present})}

-----------------------------------------------------------------------------
(* The send task. *)

SendClear == send' = FreeSend /\ emitted' = {}

SendBusy == send.state # "NONE"

(* Mutant: any tid matches. *)
SendMatchesAny(tid) == SendBusy

SendMatches(tid) == SendBusy /\ send.tid = tid

(* The receive tasks.  A lookup stops at the lowest slot that fits; at most
   one slot is ever active (SingleReceiver), so there is nothing to choose. *)

RecvFind(tid) == Lowest({i \in Slot : recv[i].busy /\ recv[i].tid = tid})

(* Mutant: the scan stops one slot early. *)
RecvActiveButLast == {i \in 1..NSlots-1 : recv[i].busy /\ recv[i].open}

RecvActive == {i \in Slot : recv[i].busy /\ recv[i].open}

RecvFree == Lowest({i \in Slot : ~recv[i].busy})

(* Mutant: the partial file stays. *)
RecvClearKeepsFile(i) ==
  recv' = [recv EXCEPT ![i] = FreeTask] /\ UNCHANGED diskVars

(* The file of the task, if any, is deleted: recv_task_finish empties the
   name first when the file is to be kept. *)
RecvClear(i) ==
  /\ recv' = [recv EXCEPT ![i] = FreeTask]
  /\ present' = present \ {recv[i].name}
  /\ content' = [n \in Name |-> IF n = recv[i].name THEN {} ELSE content[n]]
  /\ UNCHANGED saved

(* Mutant: the file is kept without a look at the byte count. *)
RecvFinishUnchecked(i) ==
  /\ recv' = [recv EXCEPT ![i] = FreeTask]
  /\ saved' = saved \cup {[name |-> recv[i].name, size |-> recv[i].size]}
  /\ UNCHANGED <<present, content>>

(* The byte count decides.  fclose's result is not looked at, so what stdio
   still buffers may be lost without the task noticing. *)
RecvFinish(i) ==
  IF recv[i].received = recv[i].size
  THEN /\ recv' = [recv EXCEPT ![i] = FreeTask]
       /\ \E lost \in SUBSET (IF FlushMayFail THEN recv[i].buffered ELSE {}) :
            content' = [content EXCEPT ![recv[i].name] = @ \ lost]
       /\ saved' = saved \cup {[name |-> recv[i].name, size |-> recv[i].size]}
       /\ UNCHANGED present
  ELSE RecvClear(i)

(* Mutant: a pending task is finished like an active one. *)
RecvCompletePending(tid) == \E i \in RecvFind(tid) : RecvFinish(i)

RecvComplete(tid) ==
  \E i \in RecvFind(tid) : IF recv[i].open THEN RecvFinish(i) ELSE RecvClear(i)

RecvAbort(i) ==
  /\ out' = Delivered({ControlFrame("CANCEL", recv[i].tid)})
  /\ RecvClear(i)

RecvReject(i) ==
  /\ out' = Delivered({ControlFrame("REJECT", recv[i].tid)})
  /\ RecvClear(i)

ResetAll ==
  LET gone == {recv[i].name : i \in Slot}
  IN  /\ SendClear
      /\ recv' = [i \in Slot |-> FreeTask]
      /\ present' = present \ gone
      /\ content' = [n \in Name |-> IF n \in gone THEN {} ELSE content[n]]
      /\ UNCHANGED <<recvSeq, saved>>

-----------------------------------------------------------------------------
Init ==
  /\ phase = "login" /\ broken = FALSE
  /\ send = FreeSend /\ recv = [i \in Slot |-> FreeTask] /\ recvSeq = 0
  /\ present = Preexisting
  /\ content = [n \in Name |-> IF n \in Preexisting THEN {0} ELSE {}]
  /\ out = {} /\ saved = {} /\ known = {} /\ accepted = {} /\ emitted = {}
  /\ stranded = {}

(* A command whose conn_send_all failed: app_handle_stdin clears running. *)
CommandFails ==
  /\ broken
  /\ phase' = "closing" /\ out' = {}
  /\ UNCHANGED <<broken, known, accepted, stranded>>

CommandSends(frames) ==
  /\ ~broken
  /\ out' = frames
  /\ UNCHANGED <<phase, broken, known, accepted, stranded>>

InSession == phase = "session"

(* /sendfile: a free slot and a readable, non-empty file. *)
CmdSendfile(file) ==
  /\ InSession /\ ~SendBusy /\ FileSize[file] > 0
  /\ \/ /\ CommandSends({InitFrame(file)})
        /\ send' = [state |-> "PENDING_TID", tid |-> 0, file |-> file,
                    size |-> FileSize[file], sent |-> 0, open |-> TRUE]
        /\ UNCHANGED emitted
     \/ CommandFails /\ SendClear
  /\ UNCHANGED <<recv, recvSeq, diskVars>>

(* /accept: the checks that only print are the guard. *)
CmdAccept(tid) ==
  \E i \in RecvFind(tid) :
    /\ InSession /\ RecvActive = {} /\ recv[i].inited
    /\ \/ \* mkdir, malloc or fopen may fail; otherwise the declared transfer is at fault
          /\ RecvReject(i)
          /\ UNCHANGED <<phase, broken, known, accepted, stranded>>
       \/ /\ recv[i].size # 0 /\ recv[i].file \in LegalName
          /\ \E name \in UniqueName(recv[i].file) :
               \/ /\ CommandSends({ControlFrame("ACCEPT", tid)})
                  /\ recv' = [recv EXCEPT ![i].open = TRUE, ![i].name = name]
                  /\ present' = present \cup {name}
                  /\ content' = [content EXCEPT ![name] = {}]
                  /\ UNCHANGED saved
               \/ CommandFails /\ RecvClear(i)
    /\ UNCHANGED <<send, emitted, recvSeq>>

(* /reject: only for a task that is not being received. *)
CmdReject(tid) ==
  \E i \in RecvFind(tid) :
    /\ InSession /\ ~recv[i].open
    /\ \/ CommandSends({ControlFrame("REJECT", tid)}) /\ RecvClear(i)
       \/ CommandFails /\ UNCHANGED <<recv, diskVars>>
    /\ UNCHANGED <<send, emitted, recvSeq>>

(* /cancel: the send task first; a receive task only when that does not match.
   A task whose CANCEL could not be sent is left to app_destroy. *)
CmdCancel(tid) ==
  /\ InSession
  /\ \/ /\ SendMatches(tid)
        /\ \/ CommandSends({ControlFrame("CANCEL", tid)}) /\ SendClear
           \/ CommandFails /\ UNCHANGED <<send, emitted>>
        /\ UNCHANGED <<recv, diskVars>>
     \/ /\ ~SendMatches(tid)
        /\ \E i \in RecvFind(tid) :
             \/ CommandSends({ControlFrame("CANCEL", tid)}) /\ RecvClear(i)
             \/ CommandFails /\ UNCHANGED <<recv, diskVars>>
        /\ UNCHANGED <<send, emitted>>
  /\ UNCHANGED recvSeq

-----------------------------------------------------------------------------
(* Inbound announcements, frames and errors.  They are dispatched in the
   session, and during the login for the frames that arrive glued to Welcome. *)

Listening == phase \in {"login", "session"}

Quiet == out' = {}

EnvUnchanged == UNCHANGED <<phase, broken, stranded>>

AnnSendPending(tid) ==
  /\ Listening /\ send.state = "PENDING_TID"
  /\ send' = [send EXCEPT !.tid = tid, !.state = "PENDING"]
  /\ known' = known \cup {tid} /\ accepted' = accepted \ {tid}
  /\ Quiet /\ EnvUnchanged /\ UNCHANGED <<emitted, recv, recvSeq, diskVars>>

(* The accepted announcement and the ACCEPT frame. *)
Accepted(tid) ==
  /\ Listening /\ SendMatches(tid) /\ send.state = "PENDING"
  /\ send' = [send EXCEPT !.state = "ACTIVE"]
  /\ accepted' = accepted \cup {tid}
  /\ Quiet /\ EnvUnchanged /\ UNCHANGED <<known, emitted, recv, recvSeq, diskVars>>

(* The rejected announcement and the REJECT frame. *)
Rejected(tid) ==
  /\ Listening /\ SendMatches(tid) /\ SendClear
  /\ Quiet /\ EnvUnchanged /\ UNCHANGED <<known, accepted, recv, recvSeq, diskVars>>

(* The two cancelled announcements and the CANCEL frame. *)
Cancelled(tid) ==
  /\ Listening
  /\ \/ SendMatches(tid) /\ SendClear /\ UNCHANGED <<recv, diskVars>>
     \/ /\ ~SendMatches(tid)
        /\ \E i \in RecvFind(tid) : RecvClear(i)
        /\ UNCHANGED <<send, emitted>>
  /\ Quiet /\ EnvUnchanged /\ UNCHANGED <<known, accepted, recvSeq>>

AnnComplete(tid) ==
  /\ Listening
  /\ LET mine == SendMatches(tid) /\ send.state = "WAIT_COMPLETE"
     IN  \/ mine /\ SendClear /\ UNCHANGED <<recv, diskVars>>
         \/ ~mine /\ RecvComplete(tid) /\ UNCHANGED <<send, emitted>>
  /\ Quiet /\ EnvUnchanged /\ UNCHANGED <<known, accepted, recvSeq>>

FrameComplete(tid) ==
  /\ Listening /\ RecvComplete(tid)
  /\ Quiet /\ EnvUnchanged /\ UNCHANGED <<known, accepted, recvSeq, send, emitted>>

AnnIncoming(tid) ==
  /\ Listening
  /\ \/ /\ RecvFree = {}
        /\ out' = Delivered({ControlFrame("REJECT", tid)})
        /\ UNCHANGED <<recv, recvSeq>>
     \/ /\ recvSeq < MaxSeq
        /\ \E i \in RecvFree :
             recv' = [recv EXCEPT ![i] =
                        [FreeTask EXCEPT !.busy = TRUE, !.tid = tid, !.seq = recvSeq]]
        /\ recvSeq' = recvSeq + 1
        /\ Quiet
  /\ known' = known \cup {tid}
  /\ EnvUnchanged /\ UNCHANGED <<accepted, send, emitted, diskVars>>

(* Mutant: tasks that already have their details are candidates again. *)
UninitedAny == {i \in Slot : recv[i].busy}

(* The INIT frame carries no tid: it goes to the task announced first among
   those that wait for one. *)
Uninited == {i \in Slot : recv[i].busy /\ ~recv[i].inited}

(* Mutant: the lowest slot that waits is filled. *)
FrameInitLowestSlot(file, size) ==
  /\ Listening
  /\ \E i \in Lowest(Uninited) :
       recv' = [recv EXCEPT ![i].inited = TRUE, ![i].file = file, ![i].size = size]
  /\ Quiet /\ EnvUnchanged
  /\ UNCHANGED <<known, accepted, send, emitted, recvSeq, diskVars>>

FrameInit(file, size) ==
  /\ Listening
  /\ \E i \in Uninited :
       /\ \A j \in Uninited : recv[i].seq <= recv[j].seq
       /\ recv' = [recv EXCEPT ![i].inited = TRUE, ![i].file = file, ![i].size = size]
  /\ Quiet /\ EnvUnchanged
  /\ UNCHANGED <<known, accepted, send, emitted, recvSeq, diskVars>>

StoreSpan(i, offset, len) ==
  LET bytes == Bytes(offset, len)
  IN  /\ recv' = [recv EXCEPT ![i].marked = @ \cup {offset},
                              ![i].received = @ + len, ![i].buffered = bytes]
      /\ content' = [content EXCEPT ![recv[i].name] = @ \cup bytes]
      /\ Quiet /\ UNCHANGED <<present, saved>>

(* A chunk of the task being received; fseek or fwrite may fail. *)
FrameChunk(tid, offset, len) ==
  /\ Listening
  /\ \E i \in RecvFind(tid) :
       /\ recv[i].open
       /\ \/ /\ SpanLegal(recv[i].size, recv[i].marked, offset, len)
             /\ StoreSpan(i, offset, len)
          \/ RecvAbort(i)
  /\ EnvUnchanged /\ UNCHANGED <<known, accepted, send, emitted, recvSeq>>

(* Error 200.  The frame does not say which request it answers. *)
NoSuchUser ==
  /\ Listening /\ send.state = "PENDING_TID" /\ SendClear
  /\ Quiet /\ EnvUnchanged /\ UNCHANGED <<known, accepted, recv, recvSeq, diskVars>>

(* Error 300: the send task, and the receive task that is open. *)
TransferStateError ==
  /\ Listening /\ (SendBusy \/ RecvActive # {})
  /\ SendClear
  /\ IF RecvActive = {} THEN UNCHANGED <<recv, diskVars>>
                        ELSE \E i \in RecvActive : RecvClear(i)
  /\ Quiet /\ EnvUnchanged /\ UNCHANGED <<known, accepted, recvSeq>>

-----------------------------------------------------------------------------
(* file_send_tick, run on a poll round that timed out. *)

Round ==
  LET left == ChunkCount(send.size) - send.sent \div ChunkMax
  IN  IF left < ChunksPerRound THEN left ELSE ChunksPerRound

ChunkFrame(k) ==
  LET index == send.sent \div ChunkMax + k
  IN  [type |-> "CHUNK", tid |-> send.tid, file |-> send.file,
       offset |-> index * ChunkMax, len |-> ChunkLen(send.size, index)]

FirstChunks(n) == {ChunkFrame(k) : k \in 0..n-1}

(* Mutant: whole chunks are counted. *)
SentAfterUnclamped(n) == send.sent + n * ChunkMax

SentAfter(n) ==
  LET all == send.sent + n * ChunkMax
  IN  IF all < send.size THEN all ELSE send.size

TickUnchanged == UNCHANGED <<known, accepted, stranded, recv, recvSeq, diskVars>>

(* Mutant: COMPLETE leaves with the last chunk. *)
TickChunksThenComplete ==
  LET last == SentAfter(Round) >= send.size
  IN  /\ InSession /\ send.state = "ACTIVE" /\ ~broken
      /\ send' = [send EXCEPT !.sent = SentAfter(Round),
                              !.state = IF last THEN "WAIT_COMPLETE" ELSE "ACTIVE"]
      /\ out' = FirstChunks(Round) \cup
                  (IF last THEN {ControlFrame("COMPLETE", send.tid)} ELSE {})
      /\ emitted' = emitted \cup UNION {Bytes(f.offset, f.len) : f \in FirstChunks(Round)}
      /\ UNCHANGED <<phase, broken>> /\ TickUnchanged

TickChunks ==
  /\ InSession /\ send.state = "ACTIVE" /\ ~broken
  /\ send' = [send EXCEPT !.sent = SentAfter(Round),
                          !.state = IF SentAfter(Round) >= send.size THEN "DONE" ELSE "ACTIVE"]
  /\ out' = FirstChunks(Round)
  /\ emitted' = emitted \cup UNION {Bytes(f.offset, f.len) : f \in FirstChunks(Round)}
  /\ UNCHANGED <<phase, broken>> /\ TickUnchanged

(* fread comes up short after n chunks of the round: cancel, whether or not
   the CANCEL frame can be sent. *)
TickReadFails(n) ==
  /\ InSession /\ send.state = "ACTIVE" /\ (broken => n = 0)
  /\ out' = Delivered(FirstChunks(n) \cup {ControlFrame("CANCEL", send.tid)})
  /\ SendClear
  /\ UNCHANGED <<phase, broken>> /\ TickUnchanged

(* The connection fails after n chunks of the round: app_run breaks out. *)
TickSendFails(n) ==
  /\ InSession /\ send.state = "ACTIVE" /\ (broken => n = 0)
  /\ broken' = TRUE /\ phase' = "closing"
  /\ out' = FirstChunks(n)
  /\ SendClear /\ TickUnchanged

(* A whole round after the last chunk. *)
TickComplete ==
  /\ InSession /\ send.state = "DONE"
  /\ \/ /\ ~broken
        /\ send' = [send EXCEPT !.state = "WAIT_COMPLETE"]
        /\ out' = {ControlFrame("COMPLETE", send.tid)}
        /\ UNCHANGED phase
     \/ /\ broken
        /\ phase' = "closing" /\ Quiet /\ UNCHANGED send
  /\ UNCHANGED <<broken, emitted>> /\ TickUnchanged

-----------------------------------------------------------------------------
(* The life of the process. *)

(* The end of app_connect: the login loop has dispatched what came with
   Welcome, then file_reset_all runs. *)
SessionStart ==
  /\ phase = "login" /\ phase' = "session"
  /\ ResetAll /\ Quiet /\ UNCHANGED <<broken, known, accepted, stranded>>

ConnBreak ==
  /\ phase = "session" /\ ~broken /\ broken' = TRUE
  /\ Quiet /\ UNCHANGED <<phase, taskVars, diskVars, known, accepted, stranded>>

(* /quit, Ctrl-D, Ctrl-C, a failed login, or the server closing. *)
Stop ==
  /\ Listening /\ phase' = "closing"
  /\ Quiet /\ UNCHANGED <<broken, taskVars, diskVars, known, accepted, stranded>>

Destroy ==
  /\ phase = "closing" /\ phase' = "closed"
  /\ ResetAll /\ Quiet /\ UNCHANGED <<broken, known, accepted, stranded>>

(* A crash, or a signal main.c leaves at its default (SIGKILL, SIGHUP when
   the terminal is closed). *)
Kill ==
  /\ MayBeKilled /\ phase \in {"login", "session", "closing"} /\ phase' = "killed"
  /\ stranded' = stranded \cup ({recv[i].name : i \in Slot} \cap Name)
  /\ Quiet /\ UNCHANGED <<broken, taskVars, diskVars, known, accepted>>

(* The user runs the client again over the same downloads/. *)
Restart ==
  /\ phase \in {"closed", "killed"} /\ phase' = "login"
  /\ broken' = FALSE /\ SendClear
  /\ recv' = [i \in Slot |-> FreeTask] /\ recvSeq' = 0
  /\ known' = {} /\ accepted' = {} /\ Quiet
  /\ UNCHANGED <<diskVars, stranded>>

-----------------------------------------------------------------------------
Command ==
  \/ \E file \in SendFiles : CmdSendfile(file)
  \/ \E tid \in UserTid : CmdAccept(tid) \/ CmdReject(tid) \/ CmdCancel(tid)

Inbound ==
  \/ \E tid \in Tid :
       \/ AnnSendPending(tid) \/ Accepted(tid) \/ Rejected(tid) \/ Cancelled(tid)
       \/ AnnComplete(tid) \/ FrameComplete(tid) \/ AnnIncoming(tid)
       \/ \E offset, len \in Span : FrameChunk(tid, offset, len)
  \/ \E file \in File, size \in InitSize : FrameInit(file, size)
  \/ NoSuchUser \/ TransferStateError

Tick ==
  \/ TickChunks \/ TickComplete
  \/ \E n \in 0..ChunksPerRound-1 :
       n < Round /\ (TickReadFails(n) \/ TickSendFails(n))

Process == SessionStart \/ ConnBreak \/ Stop \/ Destroy \/ Kill \/ Restart

Next == Command \/ Inbound \/ Tick \/ Process

Spec == Init /\ [][Next]_vars

-----------------------------------------------------------------------------
(* Typing. *)

Task == [busy : BOOLEAN, inited : BOOLEAN, seq : 0..MaxSeq, tid : Tid \cup {0},
         file : File \cup {NoFile}, size : InitSize \cup {0}, received : Nat,
         name : Name \cup {NoName}, marked : SUBSET Span, open : BOOLEAN,
         buffered : SUBSET Nat]

SendTask == [state : SendState, tid : Tid \cup {0}, file : SendFiles \cup {NoFile},
             size : Nat, sent : Nat, open : BOOLEAN]

Frame ==
  [type : {"INIT"}, file : SendFiles, size : Nat] \cup
  [type : {"ACCEPT", "REJECT", "CANCEL", "COMPLETE"}, tid : Tid \cup UserTid \cup {0}] \cup
  [type : {"CHUNK"}, tid : Tid \cup {0}, file : SendFiles \cup {NoFile},
   offset : Nat, len : Nat]

(* Every variable has the shape of the C object it stands for. *)
TypeOK ==
  /\ phase \in {"login", "session", "closing", "closed", "killed"}
  /\ broken \in BOOLEAN
  /\ send \in SendTask /\ recv \in [Slot -> Task] /\ recvSeq \in 0..MaxSeq
  /\ present \subseteq Name /\ content \in [Name -> SUBSET Nat]
  /\ out \subseteq Frame
  /\ saved \subseteq [name : Name, size : InitSize]
  /\ known \subseteq Tid /\ accepted \subseteq Tid
  /\ emitted \subseteq Nat /\ stranded \subseteq Name

-----------------------------------------------------------------------------
(* The receiving side. *)

KeptNames == Preexisting \cup {s.name : s \in saved}

OpenNames == {recv[i].name : i \in {j \in Slot : recv[j].open}}

(* A file that recv_task_finish kept is on disk with every byte of the size
   its INIT frame declared.  The code only compares a counter with that size:
   the bitmap, the alignment rule and the freezing of the size must together
   make the counter mean coverage. *)
SavedComplete ==
  \A s \in saved : s.name \in present /\ content[s.name] = 0..s.size-1

(* While a file is being received the counter "received" is exactly the number
   of bytes on disk, and none of them lies beyond the declared size. *)
ReceivedMatchesDisk ==
  \A i \in Slot : recv[i].open =>
     /\ content[recv[i].name] \subseteq 0..recv[i].size-1
     /\ recv[i].received = Cardinality(content[recv[i].name])

(* Nothing else is ever left in downloads/: every file there was there before,
   was kept after its check, belongs to a task that is being received, or was
   stranded by a kill; and after app_destroy no partial file remains. *)
NoStrayFiles ==
  /\ present = KeptNames \cup stranded \cup (IF phase = "killed" THEN {} ELSE OpenNames)
  /\ phase = "closed" => OpenNames = {}

(* The single-slot rule of ADR-0002: at most one task holds an open file. *)
SingleReceiver == \A i, j \in Slot : recv[i].open /\ recv[j].open => i = j

(* INIT frames fill the tasks in the order they were announced, though slots are
   freed and taken again in any order: no task that waits for its details was
   announced before one that has them (the comment of recv_handle_init, which
   once filled them in the order of the slots). *)
InitsInOrder ==
  \A i, j \in Slot :
     /\ recv[i].busy /\ recv[i].inited
     /\ recv[j].busy /\ ~recv[j].inited
     => recv[i].seq < recv[j].seq

(* No step ever alters or removes a file the user already had or one that an
   earlier transfer saved: neither the fopen of /accept, which truncates, nor
   the remove of recv_task_clear ever hits a kept name. *)
KeptSame == \A n \in KeptNames : n \in present' /\ content'[n] = content[n]

KeptUntouched == [][KeptSame]_vars

(* The identity of a transfer is frozen while its file is open: a later INIT
   frame, announcement or command never changes the tid, size or name that the
   final check and the deletion will use, and the counter only grows. *)
Frozen ==
  \A i \in Slot : recv[i].open /\ recv'[i].open =>
     /\ recv'[i].tid = recv[i].tid /\ recv'[i].name = recv[i].name
     /\ recv'[i].size = recv[i].size /\ recv'[i].file = recv[i].file
     /\ recv'[i].received >= recv[i].received

FrozenWhileReceiving == [][Frozen]_vars

-----------------------------------------------------------------------------
(* The sending side. *)

(* The chunks sent for the current task are a gapless prefix of its file, so
   the fread cursor, "sent" and the offset in the next frame agree. *)
SentPrefix == emitted = 0..send.sent-1 /\ send.sent <= send.size

(* COMPLETE is sent only when every byte of the file has been sent, and never in
   the step that sent the last chunk: the server may process the two frames of
   one round in either order (the comment of file_send_tick). *)
CompleteAfterAll ==
  [][\A f \in out' : f.type = "COMPLETE" =>
        /\ emitted = 0..send.size-1 /\ send.size > 0
        /\ \A g \in out' : g.type # "CHUNK"]_vars

(* Data flows only after the peer accepted this very transfer: a late or
   repeated accept of an earlier one never starts the current one. *)
ChunksFollowAccept ==
  [][\A f \in out' : f.type = "CHUNK" => f.tid \in accepted /\ f.file = send.file]_vars

(* Every ACCEPT, REJECT, CANCEL or COMPLETE names a transfer the server has
   announced to this process, or the id 0 that no transfer has. *)
RepliesNameKnownTids ==
  \A f \in out : f.type \notin {"INIT", "CHUNK"} => f.tid \in known \cup {0}

-----------------------------------------------------------------------------
(* A claim of the repository that the code does not keep. *)

(* app.c: the frames glued to Welcome are dispatched in the login loop so that
   they are not swallowed; a task they announce is there when the session starts. *)
AnnouncedTaskKept ==
  [][phase = "login" /\ phase' = "session" =>
        \A i \in Slot : recv[i].busy => recv'[i].busy]_vars
=============================================================================
