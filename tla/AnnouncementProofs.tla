------------------------- MODULE AnnouncementProofs -------------------------
(***************************************************************************)
(* What file_parse_announcement makes of the texts of the server, for all  *)
(* tids and all names: an offer is always understood, and every other text *)
(* exactly when no name in it has a phrase that is searched earlier.       *)
(***************************************************************************)
EXTENDS Announcement, TLAPS

(* The six phrases and what they mean. *)
LEMMA TheOrder ==
  /\ DOMAIN SearchOrder = 1..6
  /\ SearchOrder[1] = "Waiting for acceptance" /\ SearchOrder[2] = "accepted by"
  /\ SearchOrder[3] = "rejected by" /\ SearchOrder[4] = "complete"
  /\ SearchOrder[5] = "cancelled by" /\ SearchOrder[6] = "cancelled: "
<1>1. DOMAIN SearchOrder = 1..6
  BY Z3 DEF SearchOrder
<1> QED
  BY <1>1 DEF SearchOrder

LEMMA TheMeanings ==
  /\ Meaning(SearchOrder[1]) = "SEND_PENDING" /\ Meaning(SearchOrder[2]) = "ACCEPTED"
  /\ Meaning(SearchOrder[3]) = "REJECTED" /\ Meaning(SearchOrder[4]) = "COMPLETE"
  /\ Meaning(SearchOrder[5]) = "CANCELLED" /\ Meaning(SearchOrder[6]) = "CANCELLED_DISC"
BY TheOrder DEF Meaning

LEMMA SixPlaces == 1..6 = {1, 2, 3, 4, 5, 6}
OBVIOUS

(* A phrase is found when it is there and none before it is. *)
LEMMA FirstIsFound ==
  ASSUME NEW phrases, NEW k \in 1..6,
         SearchOrder[k] \in phrases, \A j \in 1..k-1 : SearchOrder[j] \notin phrases
  PROVE  FirstFound(phrases) = {k}
<1>1. DOMAIN SearchOrder = 1..6
  BY TheOrder
<1>2. k \in FirstFound(phrases)
  BY <1>1 DEF FirstFound
<1>3. ASSUME NEW i \in FirstFound(phrases) PROVE i = k
  <2>1. i \in 1..6 /\ SearchOrder[i] \in phrases /\ \A j \in 1..i-1 : SearchOrder[j] \notin phrases
    BY <1>1 DEF FirstFound
  <2>2. ~(k < i) /\ ~(i < k)
    BY <2>1
  <2> QED
    BY <2>1, <2>2
<1> QED
  BY <1>2, <1>3

(* Different phrases have different meanings. *)
LEMMA MeaningsDiffer ==
  ASSUME NEW j \in 1..6, NEW k \in 1..6, j # k
  PROVE  Meaning(SearchOrder[j]) # Meaning(SearchOrder[k]) /\ Meaning(SearchOrder[j]) # "NONE"
BY TheMeanings, SixPlaces

(* A smallest place exists: there are six. *)
LEMMA SomethingIsFound ==
  ASSUME NEW phrases, NEW i \in 1..6, SearchOrder[i] \in phrases
  PROVE  \E k \in 1..i : FirstFound(phrases) = {k}
<1> DEFINE in(j) == SearchOrder[j] \in phrases
<1>1. \E k \in 1..i : in(k) /\ \A j \in 1..k-1 : ~in(j)
  <2> HIDE DEF in
  <2>1. in(i)
    BY DEF in
  <2>2. CASE in(1)
    BY <2>2
  <2>3. CASE ~in(1) /\ in(2) /\ i >= 2
    BY <2>3
  <2>4. CASE ~in(1) /\ ~in(2) /\ in(3) /\ i >= 3
    BY <2>4
  <2>5. CASE ~in(1) /\ ~in(2) /\ ~in(3) /\ in(4) /\ i >= 4
    BY <2>5
  <2>6. CASE ~in(1) /\ ~in(2) /\ ~in(3) /\ ~in(4) /\ in(5) /\ i >= 5
    BY <2>6
  <2>7. CASE ~in(1) /\ ~in(2) /\ ~in(3) /\ ~in(4) /\ ~in(5)
    BY <2>1, <2>7
  <2>8. i \in {1, 2, 3, 4, 5, 6}
    OBVIOUS
  <2> QED
    BY <2>1, <2>2, <2>3, <2>4, <2>5, <2>6, <2>7, <2>8
<1> QED
  BY <1>1, FirstIsFound

(* The k-th phrase, with others around it, is read as what it means exactly when
   none of the others is searched before it. *)
LEMMA ReadAsMeant ==
  ASSUME NEW others, NEW k \in 1..6
  PROVE  Classified({SearchOrder[k]} \cup others) = Meaning(SearchOrder[k])
           <=> \A j \in 1..k-1 : SearchOrder[j] \notin others
<1> DEFINE phrases == {SearchOrder[k]} \cup others
<1>1. PICK f \in 1..k : FirstFound(phrases) = {f}
  BY SomethingIsFound
<1>2. f \in 1..6 /\ SearchOrder[f] \in phrases /\ \A j \in 1..f-1 : SearchOrder[j] \notin phrases
  BY <1>1 DEF FirstFound
<1>3. Classified(phrases) = Meaning(SearchOrder[f])
  BY <1>1 DEF Classified
<1>4. ASSUME NEW i \in 1..k-1 PROVE SearchOrder[i] # SearchOrder[k]
  BY MeaningsDiffer
<1>5. CASE f = k
  BY <1>2, <1>3, <1>5
<1>6. CASE f # k
  <2>1. SearchOrder[f] \in others /\ f \in 1..k-1
    BY <1>2, <1>4, <1>6
  <2>2. Meaning(SearchOrder[f]) # Meaning(SearchOrder[k])
    BY <1>2, <1>6, MeaningsDiffer
  <2> QED
    BY <1>3, <2>1, <2>2
<1> QED
  BY <1>5, <1>6

LEMMA InRange ==
  ASSUME NEW max \in Nat, NEW n \in 0..max
  PROVE  ~(n > max)
OBVIOUS

(* A text with a beginning, digits in range and a colon or a blank is looked at. *)
LEMMA WellFormedRead ==
  ASSUME MaxWireTid \in Nat, NEW tid \in 0..MaxWireTid, NEW text,
         text.head = "File transfer #", text.digits = <<tid>>, text.after \in {":", " "}
  PROVE  ParseAnnouncement(text) = [kind |-> Classified(text.phrases), tid |-> tid]
<1>1. <<tid>> # <<>> /\ <<tid>>[1] = tid /\ ~(tid > MaxWireTid)
  <2>1. Len(<<tid>>) = 1 /\ Len(<<>>) = 0
    OBVIOUS
  <2>2. <<tid>> # <<>>
    BY <2>1
  <2>3. <<tid>>[1] = tid
    OBVIOUS
  <2>4. ~(tid > MaxWireTid)
    BY InRange
  <2> QED
    BY <2>2, <2>3, <2>4
<1>2. text.digits # <<>> /\ text.digits[1] = tid /\ ~(text.digits[1] > MaxWireTid)
  BY <1>1, Zenon
<1>3. text.head # "Incoming file transfer #"
  OBVIOUS
<1> QED
  BY <1>1, <1>2, <1>3, Zenon DEF ParseAnnouncement

(* The text of a transfer is read with the kind of its phrase, and with its tid,
   exactly when no name in it masks the phrase. *)
LEMMA TransferTextRead ==
  ASSUME MaxWireTid \in Nat, NEW tid \in 0..MaxWireTid, NEW after \in {":", " "}, NEW names,
         NEW k \in 1..6
  PROVE  ParseAnnouncement(TransferText(tid, after, SearchOrder[k], names)).kind
             = Meaning(SearchOrder[k])
           <=> \A n \in names : ~Masks(n, SearchOrder[k])
<1> DEFINE p      == SearchOrder[k]
           others == UNION {PhrasesIn[n] : n \in names}
           text   == TransferText(tid, after, p, names)
           early  == \A j \in 1..k-1 : SearchOrder[j] \notin others
           masked == \E n \in names : Masks(n, p)
<1>1. /\ text.head = "File transfer #" /\ text.digits = <<tid>> /\ text.after = after
      /\ text.phrases = {p} \cup others
  BY DEF TransferText
<1>2. ParseAnnouncement(text) = [kind |-> Classified({p} \cup others), tid |-> tid]
  BY <1>1, WellFormedRead
<1>3. \A i \in 1..6 : SearchOrder[i] = p => i = k
  BY MeaningsDiffer
<1>4. ASSUME NEW n PROVE Masks(n, p) <=> \E j \in 1..k-1 : SearchOrder[j] \in PhrasesIn[n]
  BY <1>3, TheOrder DEF Masks
<1>5. early <=> ~masked
  BY <1>4
<1>6. Classified({p} \cup others) = Meaning(p) <=> early
  BY ReadAsMeant
<1>7. ParseAnnouncement(text).kind = Classified({p} \cup others)
  <2> DEFINE kind == Classified({p} \cup others)
  <2>1. [kind |-> kind, tid |-> tid].kind = kind
    OBVIOUS
  <2> QED
    BY <1>2, <2>1, Zenon
<1> QED
  BY <1>5, <1>6, <1>7, Zenon

(* Whatever a text holds, it is an answer to /sendfile only if it says so. *)
LEMMA KindFound ==
  ASSUME NEW phrases
  PROVE  /\ Classified(phrases) \in {"NONE", "SEND_PENDING", "ACCEPTED", "REJECTED", "COMPLETE",
                                     "CANCELLED", "CANCELLED_DISC"}
         /\ Classified(phrases) = "SEND_PENDING" => "Waiting for acceptance" \in phrases
<1>1. CASE FirstFound(phrases) = {}
  BY <1>1 DEF Classified
<1>2. CASE FirstFound(phrases) # {}
  <2>1. PICK k : k \in FirstFound(phrases) /\ Classified(phrases) = Meaning(SearchOrder[k])
    BY <1>2, Zenon DEF Classified
  <2>2. k \in 1..6 /\ SearchOrder[k] \in phrases
    BY <2>1, TheOrder DEF FirstFound
  <2> QED BY <2>1, <2>2, TheOrder, TheMeanings, SixPlaces
<1> QED BY <1>1, <1>2

(* The announcements of the server reach the transfer they are about: the answer
   to /sendfile and an offer always, with their tid; that a transfer is accepted,
   rejected, complete or cancelled exactly when the name in the text does not
   hold one of the phrases that are searched before. *)
THEOREM AnnouncementsUnderstood ==
  ASSUME MaxWireTid \in Nat, NEW tid \in 0..MaxWireTid, NEW file, NEW user
  PROVE  /\ ParseAnnouncement(IncomingText(tid, file, user)) = [kind |-> "RECV_PENDING", tid |-> tid]
         /\ ParseAnnouncement(WaitingText(tid, file, user)) = [kind |-> "SEND_PENDING", tid |-> tid]
         /\ ParseAnnouncement(AcceptedText(tid, user)).kind = "ACCEPTED"
              <=> ~Masks(user, "accepted by")
         /\ ParseAnnouncement(RejectedText(tid, user)).kind = "REJECTED"
              <=> ~Masks(user, "rejected by")
         /\ ParseAnnouncement(CompleteText(tid, file)).kind = "COMPLETE"
              <=> ~Masks(file, "complete")
         /\ ParseAnnouncement(CancelledText(tid, user)).kind = "CANCELLED"
              <=> ~Masks(user, "cancelled by")
         /\ ParseAnnouncement(DisconnectedText(tid, user)).kind = "CANCELLED_DISC"
              <=> ~Masks(user, "cancelled: ")
<1>1. ParseAnnouncement(IncomingText(tid, file, user)) = [kind |-> "RECV_PENDING", tid |-> tid]
  BY DEF ParseAnnouncement, IncomingText
<1>2. ParseAnnouncement(WaitingText(tid, file, user)) = [kind |-> "SEND_PENDING", tid |-> tid]
  <2> DEFINE text   == WaitingText(tid, file, user)
             others == UNION {PhrasesIn[n] : n \in {file, user}}
  <2>1. /\ text.head = "File transfer #" /\ text.digits = <<tid>> /\ text.after = ":"
        /\ text.phrases = {SearchOrder[1]} \cup others
    BY TheOrder DEF WaitingText, TransferText
  <2>2. Classified({SearchOrder[1]} \cup others) = Meaning(SearchOrder[1])
    <3> HIDE DEF others
    <3>1. 1 \in 1..6 /\ \A j \in 1..1-1 : SearchOrder[j] \notin others
      OBVIOUS
    <3> QED
      BY <3>1, ReadAsMeant
  <2>3. ParseAnnouncement(text) = [kind |-> Classified(text.phrases), tid |-> tid]
    BY <2>1, WellFormedRead
  <2> QED
    BY <2>1, <2>2, <2>3, TheMeanings
<1>3. ASSUME NEW k \in 1..6, NEW name
      PROVE  ParseAnnouncement(TransferText(tid, " ", SearchOrder[k], {name})).kind
                 = Meaning(SearchOrder[k])
               <=> ~Masks(name, SearchOrder[k])
  BY TransferTextRead
<1>4. ParseAnnouncement(AcceptedText(tid, user)).kind = "ACCEPTED" <=> ~Masks(user, "accepted by")
  <2>1. 2 \in 1..6
    OBVIOUS
  <2>2. ParseAnnouncement(TransferText(tid, " ", SearchOrder[2], {user})).kind
            = Meaning(SearchOrder[2])
          <=> ~Masks(user, SearchOrder[2])
    BY <1>3, <2>1, Zenon
  <2> QED
    BY <2>2, TheOrder, TheMeanings, Zenon DEF AcceptedText
<1>5. ParseAnnouncement(RejectedText(tid, user)).kind = "REJECTED" <=> ~Masks(user, "rejected by")
  <2>1. 3 \in 1..6
    OBVIOUS
  <2>2. ParseAnnouncement(TransferText(tid, " ", SearchOrder[3], {user})).kind
            = Meaning(SearchOrder[3])
          <=> ~Masks(user, SearchOrder[3])
    BY <1>3, <2>1, Zenon
  <2> QED
    BY <2>2, TheOrder, TheMeanings, Zenon DEF RejectedText
<1>6. ParseAnnouncement(CompleteText(tid, file)).kind = "COMPLETE" <=> ~Masks(file, "complete")
  <2>1. 4 \in 1..6
    OBVIOUS
  <2>2. ParseAnnouncement(TransferText(tid, " ", SearchOrder[4], {file})).kind
            = Meaning(SearchOrder[4])
          <=> ~Masks(file, SearchOrder[4])
    BY <1>3, <2>1, Zenon
  <2> QED
    BY <2>2, TheOrder, TheMeanings, Zenon DEF CompleteText
<1>7. ParseAnnouncement(CancelledText(tid, user)).kind = "CANCELLED" <=> ~Masks(user, "cancelled by")
  <2>1. 5 \in 1..6
    OBVIOUS
  <2>2. ParseAnnouncement(TransferText(tid, " ", SearchOrder[5], {user})).kind
            = Meaning(SearchOrder[5])
          <=> ~Masks(user, SearchOrder[5])
    BY <1>3, <2>1, Zenon
  <2> QED
    BY <2>2, TheOrder, TheMeanings, Zenon DEF CancelledText
<1>8. ParseAnnouncement(DisconnectedText(tid, user)).kind = "CANCELLED_DISC" <=> ~Masks(user, "cancelled: ")
  <2>1. 6 \in 1..6
    OBVIOUS
  <2>2. ParseAnnouncement(TransferText(tid, " ", SearchOrder[6], {user})).kind
            = Meaning(SearchOrder[6])
          <=> ~Masks(user, SearchOrder[6])
    BY <1>3, <2>1, Zenon
  <2> QED
    BY <2>2, TheOrder, TheMeanings, Zenon DEF DisconnectedText
<1> QED
  BY <1>1, <1>2, <1>4, <1>5, <1>6, <1>7, <1>8
=============================================================================
