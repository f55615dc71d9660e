---------------------------- MODULE Announcement ----------------------------
(***************************************************************************)
(* The announcements of the server about file transfers and the parser     *)
(* that tells them apart (file_parse_announcement).                        *)
(*                                                                         *)
(* The transfer id of a new transfer is found nowhere else.  The parser    *)
(* looks at the beginning of the text, at the digits that follow and at    *)
(* the character after them, and then searches the whole text, names       *)
(* included, for one phrase after the other.  So a text is its beginning,  *)
(* its digits, the character after them and the set of phrases in it; a    *)
(* name contributes the phrases it happens to contain.                     *)
(***************************************************************************)
EXTENDS Integers, Sequences

CONSTANTS
  MaxWireTid,   \* UINT32_MAX
  PhrasesIn     \* PhrasesIn[n]: the phrases within a file or user name

(* Mutant: "complete" is searched first, though a file may be named so. *)
CompleteFirst ==
  <<"complete", "Waiting for acceptance", "accepted by", "rejected by",
    "cancelled by", "cancelled: ">>

(* Mutant: nothing is said of a peer that disconnects. *)
WithoutDisconnect ==
  <<"Waiting for acceptance", "accepted by", "rejected by", "complete", "cancelled by">>

(* The phrases in the order in which they are searched. *)
SearchOrder ==
  <<"Waiting for acceptance", "accepted by", "rejected by", "complete",
    "cancelled by", "cancelled: ">>

Meaning(phrase) ==
  CASE phrase = "Waiting for acceptance" -> "SEND_PENDING"
    [] phrase = "accepted by"  -> "ACCEPTED"
    [] phrase = "rejected by"  -> "REJECTED"
    [] phrase = "complete"     -> "COMPLETE"
    [] phrase = "cancelled by" -> "CANCELLED"
    [] phrase = "cancelled: "  -> "CANCELLED_DISC"

(* The place of the first phrase that occurs: at most one. *)
FirstFound(phrases) ==
  {k \in DOMAIN SearchOrder : /\ SearchOrder[k] \in phrases
                              /\ \A j \in 1..k-1 : SearchOrder[j] \notin phrases}

Classified(phrases) ==
  IF FirstFound(phrases) = {} THEN "NONE"
  ELSE Meaning(SearchOrder[CHOOSE k \in FirstFound(phrases) : TRUE])

(* What is read from a text: its kind and the tid, or "NONE". *)
ParseAnnouncement(text) ==
  IF \/ text.head \notin {"File transfer #", "Incoming file transfer #"}
     \/ text.digits = <<>> \/ text.after \notin {":", " "}
     \/ text.digits[1] > MaxWireTid
  THEN [kind |-> "NONE"]
  ELSE [kind |-> IF text.head = "Incoming file transfer #" THEN "RECV_PENDING"
                 ELSE Classified(text.phrases),
        tid |-> text.digits[1]]

(* Does a name contain a phrase that is searched before the given one? *)
Masks(name, phrase) ==
  \E k \in DOMAIN SearchOrder :
    /\ SearchOrder[k] = phrase
    /\ \E j \in 1..k-1 : SearchOrder[j] \in PhrasesIn[name]

-----------------------------------------------------------------------------
(* The texts as the server writes them. *)

TransferText(tid, after, phrase, names) ==
  [head |-> "File transfer #", digits |-> <<tid>>, after |-> after,
   phrases |-> {phrase} \cup UNION {PhrasesIn[n] : n \in names}]

WaitingText(tid, file, to)  == TransferText(tid, ":", "Waiting for acceptance", {file, to})
AcceptedText(tid, by)       == TransferText(tid, " ", "accepted by", {by})
RejectedText(tid, by)       == TransferText(tid, " ", "rejected by", {by})
CompleteText(tid, file)     == TransferText(tid, " ", "complete", {file})
CancelledText(tid, by)      == TransferText(tid, " ", "cancelled by", {by})
DisconnectedText(tid, user) == TransferText(tid, " ", "cancelled: ", {user})

IncomingText(tid, file, from) ==
  [head |-> "Incoming file transfer #", digits |-> <<tid>>, after |-> " ",
   phrases |-> PhrasesIn[file] \cup PhrasesIn[from]]

=============================================================================
