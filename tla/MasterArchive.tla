---------------------------- MODULE MasterArchive ----------------------------
(***************************************************************************)
(* The sequence numbers and the message archive of scmaster                *)
(* (trunk/apps/messaging/scmaster/master.cpp): the plugin thread archives, *)
(* tags and sends the data messages, the run thread tags and sends the     *)
(* answers to service messages and sends archived messages again.  The     *)
(* archive owns the data messages: storing one frees the previous one.     *)
(* Queues, reconnects and stop() are in Master.                            *)
(***************************************************************************)
EXTENDS Integers, Sequences, FiniteSets

CONSTANTS ArchiveSize,  \* Protocol::MASTER_ARCHIVE_SIZE
          MaxSeqNum,    \* _maxSeqNum
          MaxData,      \* bound: data messages relayed
          MaxReplies,   \* bound: answers to service messages
          MaxClock,     \* bound: the value of time()
          None

Data    == 1..MaxData
Replies == (MaxData + 1)..(MaxData + MaxReplies)
Ids     == Data \cup Replies
Threads == {"plugin", "run"}
Slots   == 0..(ArchiveSize - 1)
Deliveries == [msg : Ids, asData : BOOLEAN]

ASSUME ConstantAssumption ==
  /\ ArchiveSize \in Nat \ {0} /\ MaxSeqNum \in Nat
  /\ MaxSeqNum % ArchiveSize = 0
  /\ MaxData \in Nat /\ MaxReplies \in Nat /\ MaxClock \in Nat \ {0}
  /\ None \notin Ids /\ None \notin Threads

VARIABLES
  pc,           \* pc[t]: where thread t is
  obj,          \* obj[t]: the message thread t works on
  read,         \* read[t]: the value of _seqNum that t has read
  counter,      \* _seqNum
  seqNum,       \* seqNum[m]: the number message m carries, 0 before it is tagged
  stamp,        \* stamp[m]: its timestamp, 0 before it is tagged
  tagged,       \* the messages that have been tagged
  freed,        \* the messages that have been deleted
  archive,      \* _archive
  archiveMutex, sendMutex,
  slot,         \* the loop index of handleArchiveRequest()
  since,        \* its tmpTimestamp
  clock,        \* time()
  retyped,      \* the messages whose type is ARCHIVE_MSG
  sent          \* history: what was sent for the first time, in order

vars == <<pc, obj, read, counter, seqNum, stamp, tagged, freed, archive,
          archiveMutex, sendMutex, slot, since, clock, retyped, sent>>

Init ==
  /\ pc = [t \in Threads |-> "idle"]
  /\ obj = [t \in Threads |-> None]
  /\ read = [t \in Threads |-> 0]
  /\ counter = 0
  /\ seqNum = [m \in Ids |-> 0] /\ stamp = [m \in Ids |-> 0]
  /\ tagged = {} /\ freed = {}
  /\ archive = [i \in Slots |-> None]
  /\ archiveMutex = None /\ sendMutex = None
  /\ slot = 0 /\ since = 0
  /\ clock = 1 /\ retyped = {}
  /\ sent = <<>>

Go(t, from, to) == pc[t] = from /\ pc' = [pc EXCEPT ![t] = to]

WasSent(m) == \E i \in 1..Len(sent) : sent[i].msg = m

\* time() goes on, or stands still while several messages are tagged.
Tick ==
  /\ clock < MaxClock
  /\ clock' = clock + 1
  /\ UNCHANGED <<pc, obj, read, counter, seqNum, stamp, tagged, freed, archive,
                 archiveMutex, sendMutex, slot, since, sent, retyped>>

-----------------------------------------------------------------------------
\* sequenceNumber() and tagMsg(), which no mutex guards in createMsg()

Read(t, from, to) ==
  /\ Go(t, from, to)
  /\ read' = [read EXCEPT ![t] = counter]

\* The number after n; for comparison one that never starts again.
Unbounded(n) == n + 1
Following(n) == IF n = MaxSeqNum THEN 0 ELSE n + 1

Tag(t, from, to) ==
  LET next == Following(read[t]) IN
  /\ Go(t, from, to)
  /\ counter' = next
  /\ seqNum' = [seqNum EXCEPT ![obj[t]] = next]
  /\ stamp' = [stamp EXCEPT ![obj[t]] = clock]
  /\ tagged' = tagged \cup {obj[t]}

-----------------------------------------------------------------------------
\* sendAndArchive() in the plugin thread

\* A data message arrives untagged: clients number nothing.
Relay ==
  /\ Go("plugin", "idle", "archive")
  /\ \E m \in Data :
       /\ \A k \in Data : k < m <=> (WasSent(k) \/ k \in freed)
       /\ obj' = [obj EXCEPT !["plugin"] = m]
  /\ UNCHANGED <<read, counter, seqNum, stamp, tagged, freed, archive, archiveMutex,
                 sendMutex, slot, since, clock, sent, retyped>>

\* archiveMsg(): the slot depends on the number the message has by now.
Archive ==
  LET m == obj["plugin"]  i == seqNum[m] % ArchiveSize IN
  /\ Go("plugin", "archive", "send")
  /\ archiveMutex = None
  /\ freed' = freed \cup ({archive[i]} \ {None})
  /\ archive' = [archive EXCEPT ![i] = m]
  /\ UNCHANGED <<obj, read, counter, seqNum, stamp, tagged, archiveMutex, sendMutex,
                 slot, since, clock, sent, retyped>>

SendRead ==
  /\ sendMutex = None
  /\ sendMutex' = "plugin"
  /\ Read("plugin", "send", "tag")
  /\ UNCHANGED <<obj, counter, seqNum, stamp, tagged, freed, archive, archiveMutex,
                 slot, since, clock, sent, retyped>>

SendTag ==
  /\ Tag("plugin", "tag", "sending")
  /\ UNCHANGED <<obj, read, freed, archive, archiveMutex, sendMutex, slot, since,
                 clock, sent, retyped>>

Sent ==
  /\ Go("plugin", "sending", "idle")
  /\ sendMutex' = None
  /\ sent' = Append(sent, [msg |-> obj["plugin"], asData |-> obj["plugin"] \notin retyped])
  /\ obj' = [obj EXCEPT !["plugin"] = None]
  /\ UNCHANGED <<read, counter, seqNum, stamp, tagged, freed, archive, archiveMutex,
                 slot, since, clock, retyped>>

-----------------------------------------------------------------------------
\* createMsg() and send() in the run thread

Reply ==
  /\ \E m \in Replies :
       /\ \A k \in Replies : k < m <=> WasSent(k)
       /\ obj' = [obj EXCEPT !["run"] = m]
  /\ Read("run", "idle", "tag")
  /\ UNCHANGED <<counter, seqNum, stamp, tagged, freed, archive, archiveMutex,
                 sendMutex, slot, since, clock, sent, retyped>>

ReplyTag ==
  /\ Tag("run", "tag", "send")
  /\ UNCHANGED <<obj, read, freed, archive, archiveMutex, sendMutex, slot, since,
                 clock, sent, retyped>>

ReplySent ==
  /\ Go("run", "send", "idle")
  /\ sendMutex = None
  /\ sent' = Append(sent, [msg |-> obj["run"], asData |-> FALSE])
  /\ archiveMutex' = IF archiveMutex = "run" THEN None ELSE archiveMutex
  /\ obj' = [obj EXCEPT !["run"] = None]
  /\ UNCHANGED <<read, counter, seqNum, stamp, tagged, freed, archive, sendMutex,
                 slot, since, clock, retyped>>

-----------------------------------------------------------------------------
\* handleArchiveRequest() in the run thread

\* The run thread keeps the archive locked for the whole request; for comparison
\* a request that does not lock it.
Unlocked == archiveMutex
Locked   == "run"

\* A request names the number and the time of a message its client has received.
Request ==
  /\ Go("run", "idle", "lookup")
  /\ archiveMutex = None
  /\ archiveMutex' = Locked
  /\ \E m \in tagged \cap Data :
       /\ WasSent(m)
       /\ slot' = seqNum[m] % ArchiveSize
       /\ since' = stamp[m]
  /\ UNCHANGED <<obj, read, counter, seqNum, stamp, tagged, freed, archive, sendMutex,
                 clock, sent, retyped>>

Found == archive[slot] # None /\ stamp[archive[slot]] = since

\* Nothing there, or another time: INVALID_ARCHIVE_REQUEST_MSG.
Reject ==
  /\ ~Found
  /\ \E m \in Replies :
       /\ \A k \in Replies : k < m <=> WasSent(k)
       /\ obj' = [obj EXCEPT !["run"] = m]
  /\ Read("run", "lookup", "tag")
  /\ UNCHANGED <<counter, seqNum, stamp, tagged, freed, archive, archiveMutex,
                 sendMutex, slot, since, clock, sent, retyped>>

Accept ==
  /\ Found
  /\ Go("run", "lookup", "next")
  /\ UNCHANGED <<obj, read, counter, seqNum, stamp, tagged, freed, archive, archiveMutex,
                 sendMutex, slot, since, clock, sent, retyped>>

\* The loop ends at an empty slot or where the timestamps decrease.
More == archive[slot] # None /\ stamp[archive[slot]] >= since

Resend ==
  /\ More
  /\ Go("run", "next", "resend")
  /\ obj' = [obj EXCEPT !["run"] = archive[slot]]
  /\ retyped' = retyped \cup {archive[slot]}
  /\ UNCHANGED <<read, counter, seqNum, stamp, tagged, freed, archive, archiveMutex,
                 sendMutex, slot, since, clock, sent>>

\* sendRaw() finds the message tagged: before that its timestamp is 0.
Resent ==
  LET m == obj["run"] IN
  /\ Go("run", "resend", "next")
  /\ sendMutex = None
  /\ slot' = (slot + 1) % ArchiveSize
  /\ since' = stamp[m]
  /\ obj' = [obj EXCEPT !["run"] = None]
  /\ UNCHANGED <<read, counter, seqNum, stamp, tagged, freed, archive, archiveMutex,
                 sendMutex, clock, sent, retyped>>

Finish ==
  /\ ~More
  /\ Go("run", "next", "idle")
  /\ archiveMutex' = IF archiveMutex = "run" THEN None ELSE archiveMutex
  /\ UNCHANGED <<obj, read, counter, seqNum, stamp, tagged, freed, archive, sendMutex,
                 slot, since, clock, sent, retyped>>

-----------------------------------------------------------------------------
Plugin == Relay \/ Archive \/ SendRead \/ SendTag \/ Sent
Run    == \/ Reply \/ ReplyTag \/ ReplySent
          \/ Request \/ Reject \/ Accept \/ Resend \/ Resent \/ Finish
Next   == Tick \/ Plugin \/ Run
Spec   == Init /\ [][Next]_vars
-----------------------------------------------------------------------------
Labels == {"idle", "archive", "send", "tag", "sending", "lookup", "next", "resend"}

TypeOK ==
  /\ pc \in [Threads -> Labels]
  /\ obj \in [Threads -> Ids \cup {None}]
  /\ read \in [Threads -> 0..MaxSeqNum] /\ counter \in 0..MaxSeqNum
  /\ seqNum \in [Ids -> 0..MaxSeqNum] /\ stamp \in [Ids -> 0..MaxClock]
  /\ tagged \subseteq Ids /\ freed \subseteq Data /\ retyped \subseteq Data
  /\ archive \in [Slots -> Data \cup {None}]
  /\ archiveMutex \in Threads \cup {None} /\ sendMutex \in Threads \cup {None}
  /\ slot \in Slots /\ since \in 0..MaxClock /\ clock \in 1..MaxClock
  /\ sent \in Seq(Deliveries)

\* A message that a thread is about to send or that the archive hands out has
\* not been deleted: the thread that archives a message never frees the one it
\* is sending itself, and never one that a request is reading.
NotFreedInUse ==
  /\ \A t \in Threads : obj[t] \notin freed
  /\ \A i \in Slots : archive[i] \notin freed

\* "The messages which will be send comprise all data from the given sequence
\* number to the latest archive index" (master.h:158): each of the last
\* ArchiveSize data messages is in the slot a request for its number looks at.  It is
\* not, since sendAndArchive archives a message before it is numbered.
ArchiveComplete ==
  \A m \in Data :
    (WasSent(m) /\ Cardinality({k \in Data : k > m /\ k \in tagged}) < ArchiveSize)
      => archive[seqNum[m] % ArchiveSize] = m

\* "every message will pass through the master first where it is processed
\* accordingly and then relayed to the target groups" (descriptions/scmaster.rst):
\* as what it is, not as an ARCHIVE_MSG, which clients ignore.  A request can change
\* the type of a message that is about to be sent for the first time.
RelayedAsData ==
  \A i \in 1..Len(sent) : sent[i].msg \in Data => sent[i].asData
=============================================================================
