---------------------------- MODULE MCEventLoop ----------------------------
(* Small instances of EventLoop for TLC: the longest frame does not fit into the
   initial buffer, as in the code. *)
EXTENDS EventLoopInv

MCFrameLen ==
  [kind \in FrameKind |-> IF kind \in {"WELCOME", "TEXT"} THEN 3 ELSE 1]
=============================================================================
