---------------------------- MODULE EventLoopInv ----------------------------
(***************************************************************************)
(* The inductive invariant of EventLoop.  That neighbouring units of the    *)
(* stream fit together is not enough: which frames a prefix of the buffer   *)
(* holds follows from the buffer being a run of whole frames.  That the     *)
(* buffer never exceeds its limit follows from what is left in it being     *)
(* less than a frame, and that from the handshake: while the login waits,   *)
(* the stream holds its answer and, unless that is the Welcome, no more.    *)
(***************************************************************************)
EXTENDS EventLoop

(* A run of whole frames: from frame "first" to the last of "frames", every unit
   of every frame is there, in order. *)
Before(u, v) == u.frame < v.frame \/ (u.frame = v.frame /\ u.part < v.part)

Within(s, first, frames) ==
  \A i \in 1..Len(s) :
     /\ s[i].frame \in first..Len(frames)
     /\ s[i].part \in 1..FrameLen[frames[s[i].frame]]

Ascending(s) == \A i, j \in 1..Len(s) : i < j => Before(s[i], s[j])

Covering(s, first, frames) ==
  \A n \in first..Len(frames) : \A p \in 1..FrameLen[frames[n]] :
     \E i \in 1..Len(s) : s[i].frame = n /\ s[i].part = p

Whole(s, first, frames) ==
  Within(s, first, frames) /\ Ascending(s) /\ Covering(s, first, frames)

(* The frames in hd are handled, the rest of "frames" is in buf and w. *)
Aligned(frames, hd, buf, w) ==
  /\ Len(hd) <= Len(frames) /\ hd = SubSeq(frames, 1, Len(hd))
  /\ Whole(buf \o w, Len(hd) + 1, frames)

(* No unit of buf ends its frame. *)
NoEnd(frames, buf) == \A i \in 1..Len(buf) : buf[i].part # FrameLen[frames[buf[i].frame]]

(* What was sent is handled, in the buffer or in the socket. *)
Flow == Len(sent) <= MaxFrames /\ Aligned(sent, handled, rbuf, wire)

(* No complete frame stays in the buffer. *)
Drained == pc # "closed" => NoEnd(sent, rbuf)

(* The buffer is doubled at most once. *)
Room == Len(rbuf) <= cap /\ cap \in {CapInit, 2 * CapInit}

(* Before the login the server owes one answer, or it is under way; only then
   does it send. *)
Answer ==
  LET next == Len(handled) + 1
  IN  \/ owed = 1 /\ Len(sent) < next /\ ~Welcomed
      \/ owed = 0 /\ Len(sent) = next /\ sent[next] = "ERROR" /\ ~Welcomed
      \/ owed = 0 /\ Len(sent) >= next /\ sent[next] = "WELCOME"

(* Who has logged in has been welcomed; nobody else has been sent anything but
   answers. *)
LoginOrder ==
  /\ pc = "prompt" /\ ~session => owed = 0 /\ Len(handled) = Len(sent) /\ ~Welcomed
  /\ pc = "await" => ~session /\ Answer
  /\ pc \in {"poll", "socket", "stdin", "tick"} => session

(* Lines are read once; an answer is owed for at most each of them.  A send task
   has rounds left exactly while it is active. *)
Counts ==
  /\ lines + Len(stdio) + Len(tty) = typed /\ owed <= lines
  /\ task = "ACTIVE" <=> left > 0
  /\ pc = "tick" => task = "ACTIVE"

(* The buffer, the stream and the handshake fit together in every state: no byte
   is lost, a waiting thread has no frame, the buffer never grows past its limit,
   and the answer the login waits for is the next frame. *)
LoopInv ==
  TypeOK /\ Flow /\ Drained /\ Room /\ NeverGivesUp /\ LoginOrder /\ Counts
=============================================================================
