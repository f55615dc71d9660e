--------------------------- MODULE MCFileTransfer ---------------------------
(* Small instances of FileTransfer for TLC.  "f" and "g" have candidate names
   that collide: the second candidate of one is the first of the other. *)
EXTENDS FileTransferInv

MCSpan == 0..3

MCCandidate ==
  [file \in File |-> IF file = "f" THEN [k \in 0..1 |-> IF k = 0 THEN "x" ELSE "y"]
                                   ELSE [k \in 0..1 |-> IF k = 0 THEN "y" ELSE "z"]]

MCFileSize == [file \in SendFiles |-> IF file = "f" THEN 5 ELSE 2]
=============================================================================
