------------------------- MODULE MasterArchiveProofs -------------------------
(***************************************************************************)
(* Proofs about MasterArchive for any size of the archive and any number   *)
(* of messages: a message that is deleted is in nobody's hands.            *)
(*                                                                         *)
(* NotFreedInUse alone is not inductive: that the message in the slot is   *)
(* not the one about to be stored, nor stored twice, nor being sent again, *)
(* follows from when a message gets into the archive and from the mutex    *)
(* the run thread holds for the whole request.                             *)
(***************************************************************************)
EXTENDS MasterArchive, SequenceTheorems, TLAPS

\* What the threads hold where they are, and what the archive refers to.
Owned ==
  /\ pc["plugin"] \in {"idle", "archive", "send", "tag", "sending"}
  /\ pc["plugin"] = "idle" <=> obj["plugin"] = None
  /\ obj["plugin"] # None => obj["plugin"] \in Data /\ ~WasSent(obj["plugin"])
  /\ pc["plugin"] = "archive" => \A i \in Slots : archive[i] # obj["plugin"]
  /\ pc["run"] \in {"lookup", "next", "resend"} => archiveMutex = "run"
  /\ pc["run"] # "resend" => obj["run"] \notin Data
  /\ pc["run"] = "resend" => obj["run"] \in Data
  /\ pc["run"] \in {"tag", "send"} => obj["run"] \in Replies

Distinct ==
  /\ \A i \in Slots : archive[i] # None =>
       WasSent(archive[i]) \/ archive[i] = obj["plugin"]
  /\ \A i, j \in Slots : archive[i] = archive[j] /\ archive[i] # None => i = j

\* The inductive invariant.
IInv == TypeOK /\ Owned /\ Distinct /\ NotFreedInUse

-----------------------------------------------------------------------------
\* The constants, and what follows from them.
LEMMA Constants ==
  /\ None \notin Ids /\ Data \subseteq Ids /\ Replies \subseteq Ids
  /\ Data \cap Replies = {}
  /\ ArchiveSize \in Nat \ {0}
  /\ \A n \in Nat : n % ArchiveSize \in Slots
BY ConstantAssumption DEF Ids, Data, Replies, Slots

\* Sending a message for the first time adds it to those that were sent.
LEMMA SentGrows ==
  ASSUME NEW o \in Ids, NEW b \in BOOLEAN, sent \in Seq(Deliveries),
         sent' = Append(sent, [msg |-> o, asData |-> b])
  PROVE  /\ sent' \in Seq(Deliveries)
         /\ \A m : WasSent(m)' <=> WasSent(m) \/ m = o
<1>1. [msg |-> o, asData |-> b] \in Deliveries
  BY DEF Deliveries
<1>2. /\ Len(sent') = Len(sent) + 1 /\ Len(sent) \in Nat
      /\ sent'[Len(sent) + 1].msg = o
      /\ \A i \in 1..Len(sent) : sent'[i] = sent[i]
  BY <1>1
<1>3. ASSUME NEW m PROVE WasSent(m)' <=> WasSent(m) \/ m = o
  BY <1>2 DEF WasSent
<1>. QED
  BY <1>1, <1>3

\* What has been sent stays sent.
LEMMA SentKept == UNCHANGED sent => \A m : WasSent(m)' <=> WasSent(m)
BY DEF WasSent

\* A message does not precede itself: the one that is relayed next has neither
\* been sent nor deleted.
LEMMA NotItself == \A m \in Data : ~(m < m)
BY ConstantAssumption DEF Data

-----------------------------------------------------------------------------
\* Every variable keeps its type.

\* Tagging a message that exists keeps the counter, the numbers and the times in
\* their ranges.
LEMMA TagType ==
  ASSUME IInv, NEW t \in Threads, NEW from, NEW to, Tag(t, from, to), obj[t] \in Ids
  PROVE  /\ counter' \in 0..MaxSeqNum /\ seqNum' \in [Ids -> 0..MaxSeqNum]
         /\ stamp' \in [Ids -> 0..MaxClock] /\ tagged' \subseteq Ids
<1>. DEFINE next == Following(read[t])
<1>1. next \in 0..MaxSeqNum
  BY ConstantAssumption DEF IInv, TypeOK, Following
<1>2. /\ counter' = next /\ seqNum' = [seqNum EXCEPT ![obj[t]] = next]
      /\ stamp' = [stamp EXCEPT ![obj[t]] = clock] /\ tagged' = tagged \cup {obj[t]}
  BY DEF Tag
<1>3. /\ seqNum \in [Ids -> 0..MaxSeqNum] /\ stamp \in [Ids -> 0..MaxClock]
      /\ tagged \subseteq Ids /\ clock \in 0..MaxClock
  BY ConstantAssumption DEF IInv, TypeOK
<1>. HIDE DEF next
<1>. QED
  BY <1>1, <1>2, <1>3

LEMMA TypeStep ==
  ASSUME IInv, Next
  PROVE  TypeOK'
<1>. USE Constants, ConstantAssumption DEF IInv, TypeOK, Owned, Threads, Labels, Go, Read, Tag
<1>1. CASE Tick
  <2>1. clock' \in 1..MaxClock
    BY <1>1 DEF Tick
  <2>. QED
    BY <1>1, <2>1 DEF Tick
<1>2. CASE Relay
  BY <1>2 DEF Relay
<1>3. CASE Archive
  <2>. DEFINE m == obj["plugin"]  i == seqNum[m] % ArchiveSize
  <2>1. m \in Data
    BY <1>3 DEF Archive
  <2>2. i \in Slots
    <3>1. seqNum[m] \in Nat
      BY <2>1
    <3>. QED
      BY <3>1
  <2>3. /\ archive' = [archive EXCEPT ![i] = m]
        /\ freed' = freed \cup ({archive[i]} \ {None})
    BY <1>3 DEF Archive
  <2>. HIDE DEF m, i
  <2>4. archive' \in [Slots -> Data \cup {None}] /\ freed' \subseteq Data
    BY <2>1, <2>2, <2>3
  <2>. QED
    BY <1>3, <2>4 DEF Archive
<1>4. CASE SendRead
  BY <1>4 DEF SendRead
<1>5. CASE SendTag
  <2>1. \E from, to : Tag("plugin", from, to)
    BY <1>5 DEF SendTag
  <2>2. obj["plugin"] \in Ids
    BY <1>5 DEF SendTag
  <2>3. pc' \in [Threads -> Labels]
    BY <1>5 DEF SendTag
  <2>4. /\ counter' \in 0..MaxSeqNum /\ seqNum' \in [Ids -> 0..MaxSeqNum]
        /\ stamp' \in [Ids -> 0..MaxClock] /\ tagged' \subseteq Ids
    BY <2>1, <2>2, TagType
  <2>. QED
    BY <1>5, <2>3, <2>4 DEF SendTag
<1>6. CASE Sent
  <2>1. sent' \in Seq(Deliveries)
    BY <1>6, SentGrows DEF Sent
  <2>. QED
    BY <1>6, <2>1 DEF Sent
<1>7. CASE Reply
  BY <1>7 DEF Reply
<1>8. CASE ReplyTag
  <2>1. \E from, to : Tag("run", from, to)
    BY <1>8 DEF ReplyTag
  <2>2. obj["run"] \in Ids
    BY <1>8 DEF ReplyTag
  <2>3. pc' \in [Threads -> Labels]
    BY <1>8 DEF ReplyTag
  <2>4. /\ counter' \in 0..MaxSeqNum /\ seqNum' \in [Ids -> 0..MaxSeqNum]
        /\ stamp' \in [Ids -> 0..MaxClock] /\ tagged' \subseteq Ids
    BY <2>1, <2>2, TagType
  <2>. QED
    BY <1>8, <2>3, <2>4 DEF ReplyTag
<1>9. CASE ReplySent
  <2>1. sent' \in Seq(Deliveries)
    BY <1>9, SentGrows DEF ReplySent
  <2>. QED
    BY <1>9, <2>1 DEF ReplySent
<1>10. CASE Request
  <2>1. PICK m \in Ids : slot' = seqNum[m] % ArchiveSize /\ since' = stamp[m]
    BY <1>10 DEF Request
  <2>2. seqNum[m] \in Nat /\ stamp[m] \in 0..MaxClock
    BY <2>1
  <2>3. slot' \in Slots /\ since' \in 0..MaxClock
    BY <2>1, <2>2
  <2>. QED
    BY <1>10, <2>3 DEF Request, Locked
<1>11. CASE Reject
  BY <1>11 DEF Reject
<1>12. CASE Accept
  BY <1>12 DEF Accept
<1>13. CASE Resend
  <2>1. archive[slot] \in Data
    BY <1>13 DEF Resend, More
  <2>2. obj' \in [Threads -> Ids \cup {None}] /\ retyped' \subseteq Data
    BY <1>13, <2>1 DEF Resend
  <2>. QED
    BY <1>13, <2>2 DEF Resend
<1>14. CASE Resent
  <2>1. obj["run"] \in Ids
    BY <1>14 DEF Resent
  <2>2. slot + 1 \in Nat /\ stamp[obj["run"]] \in 0..MaxClock
    BY <2>1 DEF Slots
  <2>3. slot' \in Slots /\ since' \in 0..MaxClock
    BY <1>14, <2>2 DEF Resent
  <2>. QED
    BY <1>14, <2>3 DEF Resent
<1>15. CASE Finish
  BY <1>15 DEF Finish
<1>. QED
  BY <1>1, <1>2, <1>3, <1>4, <1>5, <1>6, <1>7, <1>8, <1>9, <1>10, <1>11, <1>12, <1>13, <1>14, <1>15 DEF Next, Plugin, Run

\* Who holds what, and that the archive refers to a message once.
LEMMA OwnedStep ==
  ASSUME IInv, Next
  PROVE  (Owned /\ Distinct)'
<1>. USE Constants, ConstantAssumption DEF IInv, TypeOK, Owned, Distinct, Threads, WasSent, Go, Read, Tag
<1>1. CASE Tick
  BY <1>1 DEF Tick
<1>2. CASE Relay
  <2>. HIDE DEF WasSent
  <2>1. PICK m \in Data : /\ ~WasSent(m)
                          /\ obj' = [obj EXCEPT !["plugin"] = m]
    BY <1>2, NotItself DEF Relay
  <2>2. \A i \in Slots : archive[i] # None => WasSent(archive[i])
    BY <1>2 DEF Relay
  <2>3. Owned'
    BY <1>2, <2>1, <2>2, SentKept DEF Relay
  <2>4. Distinct'
    BY <1>2, <2>1, <2>2, SentKept DEF Relay
  <2>. QED
    BY <2>3, <2>4
<1>3. CASE Archive
  BY <1>3 DEF Archive
<1>4. CASE SendRead
  BY <1>4 DEF SendRead
<1>5. CASE SendTag
  BY <1>5 DEF SendTag
<1>6. CASE Sent
  <2>1. obj["plugin"] \in Ids
    BY <1>6 DEF Sent
  <2>2. \A m : WasSent(m)' <=> WasSent(m) \/ m = obj["plugin"]
    BY <1>6, <2>1, SentGrows DEF Sent
  <2>3. Owned'
    BY <1>6 DEF Sent
  <2>. HIDE DEF WasSent
  <2>4. Distinct'
    BY <1>6, <2>2 DEF Sent
  <2>. QED
    BY <2>3, <2>4
<1>7. CASE Reply
  BY <1>7 DEF Reply
<1>8. CASE ReplyTag
  BY <1>8 DEF ReplyTag
<1>9. CASE ReplySent
  <2>1. obj["run"] \in Replies
    BY <1>9 DEF ReplySent
  <2>2. \A m : WasSent(m)' <=> WasSent(m) \/ m = obj["run"]
    <3>1. /\ sent' = Append(sent, [msg |-> obj["run"], asData |-> FALSE])
          /\ obj["run"] \in Ids /\ FALSE \in BOOLEAN /\ sent \in Seq(Deliveries)
      BY <1>9, <2>1 DEF ReplySent
    <3>. DEFINE o == obj["run"]
    <3>. HIDE DEF o, IInv, TypeOK, Owned, Distinct
    <3>2. /\ sent' = Append(sent, [msg |-> o, asData |-> FALSE])
          /\ o \in Ids /\ sent \in Seq(Deliveries)
      BY <3>1 DEF o
    <3>3. \A m : WasSent(m)' <=> WasSent(m) \/ m = o
      BY <3>2, SentGrows
    <3>. QED
      BY <3>3 DEF o
  <2>. HIDE DEF WasSent
  <2>3. Owned'
    BY <1>9, <2>1, <2>2 DEF ReplySent
  <2>4. Distinct'
    BY <1>9, <2>2 DEF ReplySent
  <2>. QED
    BY <2>3, <2>4
<1>10. CASE Request
  <2>. HIDE DEF WasSent
  <2>1. /\ Go("run", "idle", "lookup") /\ archiveMutex' = "run"
        /\ UNCHANGED <<obj, archive, sent>>
    BY <1>10 DEF Request, Locked
  <2>. QED
    BY <2>1, SentKept
<1>11. CASE Reject
  BY <1>11 DEF Reject
<1>12. CASE Accept
  BY <1>12 DEF Accept
<1>13. CASE Resend
  <2>. HIDE DEF WasSent
  <2>1. archive[slot] \in Data
    BY <1>13 DEF Resend, More
  <2>. QED
    BY <1>13, <2>1, SentKept DEF Resend
<1>14. CASE Resent
  BY <1>14 DEF Resent
<1>15. CASE Finish
  BY <1>15 DEF Finish
<1>. QED
  BY <1>1, <1>2, <1>3, <1>4, <1>5, <1>6, <1>7, <1>8, <1>9, <1>10, <1>11, <1>12, <1>13, <1>14, <1>15 DEF Next, Plugin, Run

\* Only archiveMsg() deletes, and what it deletes was in the archive, was sent by
\* the plugin thread before and is not being sent again.
LEMMA FreedStep ==
  ASSUME IInv, Next
  PROVE  NotFreedInUse'
<1>. USE Constants, ConstantAssumption DEF IInv, TypeOK, Owned, Distinct, NotFreedInUse, Threads, WasSent, Go, Read, Tag
<1>1. CASE Tick
  BY <1>1 DEF Tick
<1>2. CASE Relay
  <2>1. PICK m \in Data : /\ m \notin freed
                          /\ obj' = [obj EXCEPT !["plugin"] = m]
    BY <1>2, NotItself DEF Relay
  <2>. QED
    BY <1>2, <2>1 DEF Relay
<1>3. CASE Archive
  <2>. DEFINE m == obj["plugin"]  i == seqNum[m] % ArchiveSize
  <2>1. m \in Data /\ \A j \in Slots : archive[j] # m
    BY <1>3 DEF Archive
  <2>2. i \in Slots
    <3>1. seqNum[m] \in Nat
      BY <2>1
    <3>. QED
      BY <3>1
  <2>3. /\ archive' = [archive EXCEPT ![i] = m]
        /\ freed' = freed \cup ({archive[i]} \ {None})
        /\ UNCHANGED obj
    BY <1>3 DEF Archive
  <2>4. obj["run"] \notin Data
    BY <1>3 DEF Archive
  <2>. HIDE DEF i
  <2>5. \A t \in Threads : obj'[t] \notin freed'
    BY <2>1, <2>2, <2>3, <2>4
  <2>6. \A j \in Slots : archive'[j] \notin freed'
    BY <2>1, <2>2, <2>3
  <2>. QED
    BY <2>5, <2>6
<1>4. CASE SendRead
  BY <1>4 DEF SendRead
<1>5. CASE SendTag
  BY <1>5 DEF SendTag
<1>6. CASE Sent
  BY <1>6 DEF Sent
<1>7. CASE Reply
  BY <1>7 DEF Reply
<1>8. CASE ReplyTag
  BY <1>8 DEF ReplyTag
<1>9. CASE ReplySent
  BY <1>9 DEF ReplySent
<1>10. CASE Request
  BY <1>10 DEF Request
<1>11. CASE Reject
  BY <1>11 DEF Reject
<1>12. CASE Accept
  BY <1>12 DEF Accept
<1>13. CASE Resend
  BY <1>13 DEF Resend
<1>14. CASE Resent
  BY <1>14 DEF Resent
<1>15. CASE Finish
  BY <1>15 DEF Finish
<1>. QED
  BY <1>1, <1>2, <1>3, <1>4, <1>5, <1>6, <1>7, <1>8, <1>9, <1>10, <1>11, <1>12, <1>13, <1>14, <1>15 DEF Next, Plugin, Run

-----------------------------------------------------------------------------
\* The archive starts empty and both threads are idle.
LEMMA InitInvariant == Init => IInv
<1>. SUFFICES ASSUME Init PROVE IInv
  OBVIOUS
<1>. USE ConstantAssumption
<1>1. TypeOK
  <2>1. 0 \in Slots
    BY DEF Slots
  <2>2. sent \in Seq(Deliveries)
    BY DEF Init
  <2>3. pc \in [Threads -> Labels] /\ obj \in [Threads -> Ids \cup {None}]
    BY DEF Init, Labels
  <2>4. /\ read \in [Threads -> 0..MaxSeqNum] /\ counter \in 0..MaxSeqNum
        /\ seqNum \in [Ids -> 0..MaxSeqNum] /\ stamp \in [Ids -> 0..MaxClock]
        /\ since \in 0..MaxClock /\ clock \in 1..MaxClock
    BY DEF Init
  <2>. QED
    BY <2>1, <2>2, <2>3, <2>4 DEF Init, TypeOK
<1>2. Owned /\ Distinct /\ NotFreedInUse
  BY Constants DEF Init, Owned, Distinct, NotFreedInUse, Threads
<1>. QED
  BY <1>1, <1>2 DEF IInv

\* Every step of either thread preserves the invariant.
LEMMA StepInvariant == IInv /\ [Next]_vars => IInv'
<1>. SUFFICES ASSUME IInv, [Next]_vars PROVE IInv'
  OBVIOUS
<1>1. CASE Next
  BY <1>1, TypeStep, OwnedStep, FreedStep DEF IInv
<1>2. CASE UNCHANGED vars
  BY <1>2 DEF IInv, TypeOK, Owned, Distinct, NotFreedInUse, WasSent, vars
<1>. QED
  BY <1>1, <1>2

\* The inductive invariant holds in every reachable state.
THEOREM Invariance == Spec => []IInv
<1>. QED
  BY InitInvariant, StepInvariant, PTL DEF Spec

\* The numbers, the archive and the messages of scmaster keep their types: a sequence
\* number stays within its bound and an archive index inside the archive, for any size.
THEOREM TypeCorrect == Spec => []TypeOK
<1>1. IInv => TypeOK
  BY DEF IInv
<1>. QED
  BY <1>1, Invariance, PTL

\* No message is deleted while a thread of scmaster works on it or the archive
\* refers to it, for any size of the archive and however the plugin thread, the
\* answers and the archive requests interleave.
THEOREM NoUseAfterFree == Spec => []NotFreedInUse
<1>1. IInv => NotFreedInUse
  BY DEF IInv
<1>. QED
  BY <1>1, Invariance, PTL
=============================================================================
