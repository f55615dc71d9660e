---------------------------- MODULE MCFrameCodec ----------------------------
(* Small instances of FrameCodec for TLC.  A byte has 8 values, so a length field
   counts to 63; the digits of the radix-3 sizes are the bytes 2, 3 and 4. *)
EXTENDS FrameCodec

MCMagic == <<7, 6>>

(* Texts and data with the magic in them, a text that fills the length field,
   numbers at the ends of their ranges. *)
MCMessage ==
  {[shape |-> "empty"]}
  \cup {[shape |-> "text", text |-> t] : t \in {<<>>, [i \in 1..62 |-> 1]}}
  \cup {[shape |-> "pair", first |-> <<1>>, second |-> <<7, 6, 1>>]}
  \cup {[shape |-> "init", sender |-> <<1>>, file |-> <<5, 1>>, size |-> n] : n \in {0, 25}}
  \cup {[shape |-> "tid", tid |-> n] : n \in {4095}}
  \cup {[shape |-> "chunk", tid |-> 9, offset |-> 8^5, data |-> <<7, 6, 0>>]}
  \cup {[shape |-> "error", code |-> 44, text |-> <<1>>]}
  \cup {[shape |-> "users", names |-> n] : n \in {<<>>, <<<<1>>, <<5, 1>>>>}}
=============================================================================
