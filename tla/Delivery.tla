------------------------------ MODULE Delivery ------------------------------
(***************************************************************************)
(* What the users of TCPClient are promised about the files sent to them,  *)
(* independent of clients, server and messages: a transfer is offered,     *)
(* perhaps accepted, one at a time, and then kept with exactly the bytes   *)
(* that were offered, or dropped.                                          *)
(*                                                                         *)
(* The promise ends when a send task is lost to something that was not     *)
(* about it: from then on the sender and the server disagree on what a     *)
(* transfer id stands for (spoiled).                                       *)
(***************************************************************************)
EXTENDS Integers

CONSTANTS Transfer, OfferedFile, SizeOf

VARIABLES
  status,   \* of each transfer: "none", "offered", "open", "kept" or "gone"
  offer,    \* the file each transfer was offered with
  data,     \* the bytes received for it, each with the file it comes from
  spoiled

vars == <<status, offer, data, spoiled>>

Whole(file) == {file} \X (0..SizeOf[file]-1)

Init ==
  /\ status = [t \in Transfer |-> "none"] /\ data = [t \in Transfer |-> {}]
  /\ spoiled = FALSE

Offer(t) ==
  /\ status[t] = "none" /\ offer'[t] \in OfferedFile
  /\ \A u \in Transfer \ {t} : offer'[u] = offer[u]
  /\ status' = [status EXCEPT ![t] = "offered"]
  /\ UNCHANGED data

Open(t) ==
  /\ status[t] = "offered" /\ \A u \in Transfer : status[u] # "open"
  /\ status' = [status EXCEPT ![t] = "open"]
  /\ UNCHANGED <<offer, data>>

(* A piece of the file that was offered, and none of it for the second time. *)
Fill(t) ==
  /\ status[t] = "open"
  /\ data'[t] \subseteq Whole(offer[t])
  /\ data[t] \subseteq data'[t] /\ data'[t] # data[t]
  /\ \A u \in Transfer \ {t} : data'[u] = data[u]
  /\ UNCHANGED <<status, offer>>

Keep(t) ==
  /\ status[t] = "open" /\ data[t] = Whole(offer[t])
  /\ status' = [status EXCEPT ![t] = "kept"]
  /\ UNCHANGED <<offer, data>>

(* A receiver that leaves drops all that it has not finished. *)
Drop(some) ==
  /\ some # {} /\ \A t \in some : status[t] \in {"offered", "open"}
  /\ status' = [t \in Transfer |-> IF t \in some THEN "gone" ELSE status[t]]
  /\ UNCHANGED <<offer, data>>

Step ==
  \/ \E t \in Transfer : Offer(t) \/ Open(t) \/ Fill(t) \/ Keep(t)
  \/ \E some \in SUBSET Transfer : Drop(some)

Next == spoiled' \/ (~spoiled /\ ~spoiled' /\ Step)

Spec == Init /\ [][Next]_vars

-----------------------------------------------------------------------------
(* As long as the promise stands, a kept file is the file that was offered,
   whole, no file that is being received has a byte of another, and at most one
   is being received. *)
Kept ==
  ~spoiled =>
    /\ \A t \in Transfer : status[t] = "kept" => data[t] = Whole(offer[t])
    /\ \A t \in Transfer : status[t] = "open" => data[t] \subseteq Whole(offer[t])
    /\ \A t, u \in Transfer : status[t] = "open" /\ status[u] = "open" => t = u
=============================================================================
