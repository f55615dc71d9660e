---------------------------- MODULE FileMessages ----------------------------
(***************************************************************************)
(* One message of the server, from its arrival in app_handle_frame to the  *)
(* transition of FileTransfer it causes, or to nothing.  FileTransfer has  *)
(* the transitions; this module has the dispatch, as a client composed     *)
(* with a server needs it: a message is always consumed.                   *)
(***************************************************************************)
EXTENDS FileTransfer, Announcement

NothingHappens ==
  out' = {} /\ UNCHANGED <<phase, broken, taskVars, diskVars, known, accepted, stranded>>

(* file_handle_announcement: the announcement concerns a task, or nothing happens. *)
HandleText(text) ==
  LET ann == ParseAnnouncement(text)
  IN  CASE ann.kind = "RECV_PENDING" -> AnnIncoming(ann.tid)
        [] ann.kind = "SEND_PENDING" /\ send.state = "PENDING_TID" -> AnnSendPending(ann.tid)
        [] ann.kind = "ACCEPTED" /\ SendMatches(ann.tid) /\ send.state = "PENDING"
             -> Accepted(ann.tid)
        [] ann.kind = "REJECTED" /\ SendMatches(ann.tid) -> Rejected(ann.tid)
        [] /\ ann.kind \in {"CANCELLED", "CANCELLED_DISC"}
           /\ SendMatches(ann.tid) \/ RecvFind(ann.tid) # {}
             -> Cancelled(ann.tid)
        [] /\ ann.kind = "COMPLETE"
           /\ \/ SendMatches(ann.tid) /\ send.state = "WAIT_COMPLETE"
              \/ RecvFind(ann.tid) # {}
             -> AnnComplete(ann.tid)
        [] OTHER -> NothingHappens

(* file_handle_frame, likewise. *)
HandleFrame(m) ==
  CASE m.type = "ACCEPT" /\ SendMatches(m.tid) /\ send.state = "PENDING" -> Accepted(m.tid)
    [] m.type = "REJECT" /\ SendMatches(m.tid) -> Rejected(m.tid)
    [] m.type = "CANCEL" /\ (SendMatches(m.tid) \/ RecvFind(m.tid) # {}) -> Cancelled(m.tid)
    [] m.type = "COMPLETE" /\ RecvFind(m.tid) # {} -> FrameComplete(m.tid)
    [] m.type = "INIT" /\ Uninited # {} -> FrameInit(m.file, m.size)
    [] m.type = "CHUNK" /\ (\E i \in RecvFind(m.tid) : recv[i].open)
         -> FrameChunk(m.tid, m.offset, m.len)
    [] OTHER -> NothingHappens

(* file_handle_error. *)
HandleError(code) ==
  CASE code = 200 /\ send.state = "PENDING_TID" -> NoSuchUser
    [] code = 300 /\ (SendBusy \/ RecvActive # {}) -> TransferStateError
    [] OTHER -> NothingHappens

Handle(m) ==
  CASE m.type = "SERVER_MSG" -> HandleText(m.text)
    [] m.type = "ERROR" -> HandleError(m.code)
    [] OTHER -> HandleFrame(m)
=============================================================================
