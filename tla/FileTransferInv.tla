-------------------------- MODULE FileTransferInv --------------------------
(***************************************************************************)
(* The inductive invariants of FileTransfer.  The properties of the        *)
(* receiving side are not inductive as they stand: the equality of a       *)
(* counter with the number of bytes on disk survives the next chunk only   *)
(* because no byte of that chunk is on disk yet, and that is because the    *)
(* bitmap accounts for every byte written so far.                          *)
(***************************************************************************)
EXTENDS FileTransfer

(* A task is either pending, with nothing on disk, or it holds a file that is
   neither kept nor stranded; the details it was opened with were filled in. *)
TaskShape ==
  \A i \in Slot :
     /\ recv[i].open => /\ recv[i].busy /\ recv[i].inited /\ recv[i].size > 0
                        /\ recv[i].name \in Name
     /\ ~recv[i].open => recv[i].name = NoName

PendingEmpty ==
  \A i \in Slot : ~recv[i].open => recv[i].received = 0 /\ recv[i].marked = {}

OwnName ==
  \A i \in Slot : recv[i].open /\ phase # "killed" =>
     recv[i].name \in present /\ recv[i].name \notin KeptNames \cup stranded

(* Every byte on disk belongs to a marked chunk, and marks are aligned. *)
Covered ==
  \A i \in Slot : recv[i].open =>
     /\ \A m \in recv[i].marked : m % ChunkMax = 0
     /\ \A b \in content[recv[i].name] : \E m \in recv[i].marked : m <= b /\ b < m + ChunkMax

KeptPresent == KeptNames \subseteq present

SavedIfFlushed == ~FlushMayFail => SavedComplete

DiskInv ==
  /\ PendingEmpty /\ OwnName /\ SingleReceiver
  /\ Covered /\ ReceivedMatchesDisk /\ KeptPresent /\ NoStrayFiles /\ SavedIfFlushed

(* The inductive invariant of the receiving side and of the disk. *)
RecvInv == TypeOK /\ TaskShape /\ DiskInv

(* The numbers of the tasks say in which order they were announced: the next
   announcement is given a number above all of them, and no two are the same. *)
SeqBelow == \A i \in Slot : recv[i].busy => recv[i].seq < recvSeq

SeqDistinct ==
  \A i, j \in Slot : recv[i].busy /\ recv[j].busy /\ recv[i].seq = recv[j].seq => i = j

OrderInv == SeqBelow /\ SeqDistinct /\ InitsInOrder

(* The send task moves forward in whole chunks, and its state says how far. *)
SendShape ==
  /\ send.state = "NONE" => send = FreeSend
  /\ send.state # "NONE" => send.size > 0 /\ send.file \in SendFiles
  /\ send.state \in {"PENDING_TID", "PENDING"} => send.sent = 0
  /\ send.state = "ACTIVE" => /\ send.sent < send.size /\ send.sent % ChunkMax = 0
                              /\ send.tid \in accepted
  /\ send.state \in {"DONE", "WAIT_COMPLETE"} => send.sent = send.size

(* The inductive invariant of the sending side. *)
SendInv == TypeOK /\ SendShape /\ SentPrefix
=============================================================================
