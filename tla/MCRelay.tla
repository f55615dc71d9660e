------------------------------ MODULE MCRelay ------------------------------
(* Small instances of Relay.  Sizes: a last chunk that is short, and one that is
   not; the files of one size differ in their contents only.  All file names
   have "complete" in them, as "complete.txt" has. *)
EXTENDS RelayInv, TLC

MCFileSize == [file \in File |-> IF file = "f" THEN 3 ELSE 2]

MCCandidate ==
  [file \in File |-> IF file = "f" THEN [k \in 0..1 |-> IF k = 0 THEN "x" ELSE "y"]
                                   ELSE [k \in 0..1 |-> IF k = 0 THEN "y" ELSE "z"]]

MCPhrasesIn ==
  [n \in File \cup {Sender, Receiver, Stranger} |-> IF n \in File THEN {"complete"} ELSE {}]
=============================================================================
