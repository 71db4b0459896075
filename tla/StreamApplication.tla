------------------------- MODULE StreamApplication -------------------------
(***************************************************************************)
(* The skeleton of an application that reads records and messages: three   *)
(* threads around one queue.  The record thread stores records, the        *)
(* message thread stores what the messaging system sends and reconnects,   *)
(* the main thread handles what the queue holds.                           *)
(*                                                                         *)
(* With a sync the main thread stops the record thread until the master    *)
(* has answered: storeRecord keeps the lock of the records, sync() handles *)
(* events until the answer has come, and handleEndSync frees the lock.     *)
(***************************************************************************)
EXTENDS Naturals, Sequences, FiniteSets

CONSTANTS
  QueueSize,      \* size of the queue of events
  Records,        \* records of the stream, a bound
  MaxMessages,    \* messages that are not answers to a sync, a bound
  MaxLosses,      \* losses of the connection, a bound
  DatabaseFails,  \* whether the connection to the database gets lost as well
  Exits           \* whether a signal ends the application

ASSUME StreamApplicationAssumption ==
  /\ QueueSize \in Nat \ {0}
  /\ {Records, MaxMessages, MaxLosses} \subseteq Nat
  /\ {DatabaseFails, Exits} \subseteq BOOLEAN

VARIABLES
  queue, closed,      \* _queue
  exitRequested,
  interrupted,        \* the handler of a signal is inside exit
  main,               \* where the main thread is
  syncID,             \* _currentSyncID, 0 if it is empty
  syncs,              \* number of IDs that have been made
  requestSync,        \* _requestSync
  locked,             \* _recordLock
  rec,                \* record thread: where it is, records left, result of the push
  streamClosed,       \* _recordStream
  reader,             \* message thread: where it is, the message it has read
  up,                 \* the connection to the master
  inbox,              \* what is on its way from the master
  asked,              \* sync requests that the master has to answer
  database,           \* the connection to the database
  left,               \* messages and losses that are left
  waiting             \* history: records handled since a sync was requested, 0 if none

events == <<queue, closed>>
recordVars == <<rec, streamClosed>>
network == <<up, inbox, asked>>
outside == <<left, interrupted>>
vars == <<queue, closed, exitRequested, interrupted, main, syncID, syncs, requestSync, locked, rec,
          streamClosed, reader, up, inbox, asked, database, left, waiting>>

Event(type) == [type |-> type, id |-> 0]
Answer(id) == [type |-> "Answer", id |-> id]

Room == Len(queue) < QueueSize
OneMore == closed \/ Len(queue) <= QueueSize

\* A push waits for room; a closed queue refuses it.
CanPush == closed \/ Len(queue) < QueueSize
Pushed(e) == queue' = (IF closed THEN queue ELSE Append(queue, e)) /\ UNCHANGED closed

Init ==
  /\ queue = <<>> /\ closed = FALSE /\ exitRequested = FALSE /\ interrupted = FALSE
  /\ main = "run"
  /\ syncID = 0 /\ syncs = 0
  /\ requestSync = FALSE /\ locked = FALSE
  /\ rec = [pc |-> "read", left |-> Records, stored |-> TRUE]
  /\ streamClosed = FALSE
  /\ reader = [pc |-> "read", msg |-> Event("Message")]
  /\ up = TRUE /\ inbox = <<>> /\ asked = {}
  /\ database = TRUE
  /\ left = [messages |-> MaxMessages, losses |-> MaxLosses]
  /\ waiting = 0

-----------------------------------------------------------------------------
(* The main thread: run, sync and processEvent.                               *)

Handles(type) ==
  /\ main \in {"run", "syncing"}
  /\ ~closed
  /\ queue # <<>>
  /\ Head(queue).type = type
  /\ queue' = Tail(queue)
  /\ UNCHANGED closed

\* Without a sync ID the loop of sync() ends.
Looped(id) == main' = IF main = "syncing" /\ id = 0 THEN "endSync" ELSE main

TakeRecord ==
  /\ Handles("Record")
  /\ main' = IF main = "run" THEN "handle" ELSE "handleInSync"
  /\ UNCHANGED <<exitRequested, syncID, syncs, requestSync, locked, recordVars, reader,
                 network, database, outside, waiting>>

\* handleRecord may ask for a sync, as the picker does when it has sent a pick.
HandleRecord ==
  /\ main \in {"handle", "handleInSync"}
  /\ \E ask \in BOOLEAN :
       /\ requestSync' = (requestSync \/ ask)
       /\ waiting' = IF waiting > 0 THEN waiting + 1 ELSE IF ask THEN 1 ELSE 0
  /\ main' = IF main = "handle" THEN "run" ELSE "syncing"
  /\ UNCHANGED <<events, exitRequested, syncID, syncs, locked, recordVars, reader, network,
                 database, outside>>

\* Messages, Reconnect and AcquisitionFinished go to handlers of the application.
HandleOther ==
  /\ \E type \in {"Message", "Reconnect", "AcquisitionFinished"} : Handles(type)
  /\ UNCHANGED <<exitRequested, main, syncID, syncs, requestSync, locked, recordVars,
                 reader, network, database, outside, waiting>>

\* The answer to an earlier request is not the one that is waited for.
HandleAnswer ==
  /\ Handles("Answer")
  /\ syncID' = IF Head(queue).id = syncID THEN 0 ELSE syncID
  /\ Looped(syncID')
  /\ UNCHANGED <<exitRequested, syncs, requestSync, locked, recordVars, reader, network,
                 database, outside, waiting>>

\* The server is not going to respond any more.
HandleDisconnect ==
  /\ Handles("Disconnect")
  /\ syncID' = 0
  /\ Looped(0)
  /\ UNCHANGED <<exitRequested, syncs, requestSync, locked, recordVars, reader, network,
                 database, outside, waiting>>

\* Close ends the loop that has taken it, be it that of run or that of sync.
HandleClose ==
  /\ Handles("Close")
  /\ main' = IF main = "run" THEN "finish" ELSE "endSync"
  /\ UNCHANGED <<exitRequested, syncID, syncs, requestSync, locked, recordVars, reader,
                 network, database, outside, waiting>>

StartSync ==
  /\ Handles("Sync")
  /\ syncs' = syncs + 1
  /\ syncID' = syncs'
  /\ main' = "request"
  /\ UNCHANGED <<exitRequested, requestSync, locked, recordVars, reader, network, database,
                 outside, waiting>>

SendSyncRequest ==
  /\ main = "request"
  /\ IF up THEN asked' = asked \cup {syncID} /\ main' = "syncing"
     ELSE main' = "endSync" /\ UNCHANGED asked
  /\ UNCHANGED <<events, exitRequested, syncID, syncs, requestSync, locked, recordVars,
                 reader, up, inbox, database, outside, waiting>>

FreesLock == locked' = FALSE
KeepsLock == UNCHANGED locked

EndSync ==
  /\ main = "endSync"
  /\ requestSync' = FALSE
  /\ FreesLock
  /\ waiting' = 0
  /\ main' = "run"
  /\ UNCHANGED <<events, exitRequested, syncID, syncs, recordVars, reader, network,
                 database, outside>>

\* Once the queue has been closed both loops end; run looks for an exit as well,
\* unless it is already inside pop.
LeaveLoop ==
  /\ main \in {"run", "syncing"}
  /\ closed \/ (main = "run" /\ exitRequested)
  /\ main' = IF main = "run" THEN "finish" ELSE "endSync"
  /\ UNCHANGED <<events, exitRequested, syncID, syncs, requestSync, locked, recordVars,
                 reader, network, database, outside, waiting>>

-----------------------------------------------------------------------------
(* The main thread: done.                                                     *)

Disconnect ==
  /\ main = "finish"
  /\ exitRequested' = TRUE
  /\ up' = FALSE /\ inbox' = <<>> /\ asked' = {}
  /\ main' = "close"
  /\ UNCHANGED <<events, syncID, syncs, requestSync, locked, recordVars, reader, database,
                 outside, waiting>>

CloseQueue ==
  /\ main = "close"
  /\ closed' = TRUE
  /\ main' = "joinMessages"
  /\ UNCHANGED <<queue, exitRequested, syncID, syncs, requestSync, locked, recordVars,
                 reader, network, database, outside, waiting>>

JoinMessageThread ==
  /\ main = "joinMessages"
  /\ reader.pc = "ended"
  /\ main' = "closeStream"
  /\ UNCHANGED <<events, exitRequested, syncID, syncs, requestSync, locked, recordVars,
                 reader, network, database, outside, waiting>>

\* The stream is closed and the lock is freed, whoever holds it.
CloseStream ==
  /\ main = "closeStream"
  /\ streamClosed' = TRUE
  /\ FreesLock
  /\ main' = "joinRecords"
  /\ UNCHANGED <<events, exitRequested, syncID, syncs, requestSync, rec, reader, network,
                 database, outside, waiting>>

JoinRecordThread ==
  /\ main = "joinRecords"
  /\ rec.pc = "ended"
  /\ locked' = FALSE
  /\ main' = "returned"
  /\ UNCHANGED <<events, exitRequested, syncID, syncs, requestSync, recordVars, reader,
                 network, database, outside, waiting>>

-----------------------------------------------------------------------------
(* The record thread: readRecords and storeRecord.                            *)

RecordThread(pc) == rec' = [rec EXCEPT !.pc = pc]
Rest == <<exitRequested, main, syncID, syncs, reader, network, database, outside, waiting,
          streamClosed>>

ReadRecord ==
  /\ rec.pc = "read"
  /\ IF streamClosed \/ rec.left = 0 THEN RecordThread("finished") ELSE RecordThread("lock")
  /\ UNCHANGED <<events, requestSync, locked, Rest>>

LockRecords ==
  /\ rec.pc = "lock"
  /\ ~locked
  /\ locked' = TRUE
  /\ RecordThread("push")
  /\ UNCHANGED <<events, requestSync, Rest>>

PushRecord ==
  /\ rec.pc = "push"
  /\ CanPush
  /\ Pushed(Event("Record"))
  /\ rec' = [pc |-> "check", left |-> rec.left - 1, stored |-> ~closed]
  /\ UNCHANGED <<requestSync, locked, Rest>>

\* A record that could not be stored ends the thread.
AfterStore == IF rec.stored THEN "read" ELSE "ended"

SyncLate == requestSync /\ rec.left = 0
SyncDue == requestSync

\* A sync has been requested: the lock is kept.
SyncRequested ==
  /\ rec.pc = "check"
  /\ SyncDue
  /\ requestSync' = FALSE
  /\ KeepsLock
  /\ RecordThread("notify")
  /\ UNCHANGED <<events, Rest>>

UnlockRecords ==
  /\ rec.pc = "check"
  /\ ~SyncDue
  /\ locked' = FALSE
  /\ RecordThread(AfterStore)
  /\ UNCHANGED <<events, requestSync, Rest>>

PushSync ==
  /\ rec.pc = "notify"
  /\ CanPush
  /\ Pushed(Event("Sync"))
  /\ RecordThread(AfterStore)
  /\ UNCHANGED <<requestSync, locked, Rest>>

PushFinished ==
  /\ rec.pc = "finished"
  /\ CanPush
  /\ Pushed(Event("AcquisitionFinished"))
  /\ RecordThread("closing")
  /\ UNCHANGED <<requestSync, locked, Rest>>

\* acquisitionFinished.
PushClose ==
  /\ rec.pc = "closing"
  /\ CanPush
  /\ Pushed(Event("Close"))
  /\ RecordThread("ended")
  /\ UNCHANGED <<requestSync, locked, Rest>>

-----------------------------------------------------------------------------
(* The message thread: readMessages.                                          *)

Reader(pc) == reader' = [reader EXCEPT !.pc = pc]
Others == <<exitRequested, main, syncID, syncs, requestSync, locked, recordVars, outside,
            waiting>>

ReadMessage ==
  /\ reader.pc = "read"
  /\ up
  /\ inbox # <<>>
  /\ reader' = [pc |-> "push", msg |-> Head(inbox)]
  /\ inbox' = Tail(inbox)
  /\ UNCHANGED <<events, up, asked, database, Others>>

PushMessage ==
  /\ reader.pc = "push"
  /\ CanPush
  /\ Pushed(reader.msg)
  /\ reader' = [pc |-> IF closed THEN "ended" ELSE "read", msg |-> Event("Message")]
  /\ UNCHANGED <<network, database, Others>>

ConnectionLost ==
  /\ reader.pc = "read"
  /\ ~up
  /\ Reader(IF exitRequested THEN "ended" ELSE "lost")
  /\ UNCHANGED <<events, network, database, Others>>

Unheard == UNCHANGED events
Notifies == Pushed(Event("Disconnect"))

PushDisconnect ==
  /\ reader.pc = "lost"
  /\ CanPush
  /\ Notifies
  /\ Reader(IF closed THEN "ended" ELSE "reconnect")
  /\ UNCHANGED <<network, database, Others>>

\* An attempt that fails is repeated, which changes nothing.
Reconnect ==
  /\ reader.pc = "reconnect"
  /\ IF exitRequested THEN Reader("ended") /\ UNCHANGED up
     ELSE up' = TRUE /\ Reader("database")
  /\ UNCHANGED <<events, inbox, asked, database, Others>>

\* The loop that waits for the database does not look for an exit.
DatabaseBack ==
  /\ reader.pc = "database"
  /\ database
  /\ Reader("reconnected")
  /\ UNCHANGED <<events, network, database, Others>>

PushReconnect ==
  /\ reader.pc = "reconnected"
  /\ CanPush
  /\ Pushed(Event("Reconnect"))
  /\ Reader(IF exitRequested THEN "ended" ELSE "read")
  /\ UNCHANGED <<network, database, Others>>

-----------------------------------------------------------------------------
(* The environment.                                                           *)

Stay == <<events, exitRequested, main, syncID, syncs, requestSync, locked, recordVars,
          reader, waiting>>

MasterAnswers ==
  /\ up
  /\ \E id \in asked :
       inbox' = Append(inbox, Answer(id)) /\ asked' = asked \ {id}
  /\ UNCHANGED <<up, database, outside, Stay>>

MasterSends ==
  /\ up
  /\ left.messages > 0
  /\ left' = [left EXCEPT !.messages = @ - 1]
  /\ inbox' = Append(inbox, Event("Message"))
  /\ UNCHANGED <<up, asked, database, interrupted, Stay>>

\* What is on its way is lost, the requests included.
LoseConnection ==
  /\ up
  /\ left.losses > 0
  /\ left' = [left EXCEPT !.losses = @ - 1]
  /\ up' = FALSE /\ inbox' = <<>> /\ asked' = {}
  /\ database' \in IF DatabaseFails THEN BOOLEAN ELSE {database}
  /\ UNCHANGED <<interrupted, Stay>>

DatabaseReturns ==
  /\ ~database
  /\ database' = TRUE
  /\ UNCHANGED <<network, outside, Stay>>

\* A signal: exit tells the loops, then closes the queue and the stream.
Exit ==
  /\ Exits
  /\ ~exitRequested
  /\ exitRequested' = TRUE
  /\ interrupted' = TRUE
  /\ UNCHANGED <<events, main, syncID, syncs, requestSync, locked, recordVars, reader,
                 network, database, left, waiting>>

ExitCloses ==
  /\ interrupted
  /\ interrupted' = FALSE
  /\ closed' = TRUE
  /\ streamClosed' = TRUE
  /\ UNCHANGED <<queue, exitRequested, main, syncID, syncs, requestSync, locked, rec,
                 reader, network, database, left, waiting>>

Main ==
  \/ TakeRecord \/ HandleRecord \/ HandleOther \/ HandleAnswer
  \/ HandleDisconnect \/ HandleClose
  \/ StartSync \/ SendSyncRequest \/ EndSync \/ LeaveLoop
  \/ Disconnect \/ CloseQueue \/ JoinMessageThread \/ CloseStream \/ JoinRecordThread

RecordThreadStep ==
  \/ ReadRecord \/ LockRecords \/ PushRecord \/ SyncRequested \/ UnlockRecords
  \/ PushSync \/ PushFinished \/ PushClose

MessageThreadStep ==
  \/ ReadMessage \/ PushMessage \/ ConnectionLost \/ PushDisconnect
  \/ Reconnect \/ DatabaseBack \/ PushReconnect

Environment == MasterAnswers \/ MasterSends \/ LoseConnection \/ DatabaseReturns \/ Exit \/ ExitCloses

Next == Main \/ RecordThreadStep \/ MessageThreadStep \/ Environment

\* The threads go on, and a master that can be reached answers.  Nobody promises
\* that a database comes back, that messages arrive or that a signal is sent.
Fairness ==
  WF_vars(Main) /\ WF_vars(RecordThreadStep) /\ WF_vars(MessageThreadStep)
    /\ WF_vars(MasterAnswers) /\ WF_vars(ExitCloses)

Spec == Init /\ [][Next]_vars /\ Fairness

-----------------------------------------------------------------------------
(* Properties.                                                                *)

EventTypes == {"Record", "Message", "Answer", "Sync", "Disconnect", "Reconnect",
               "AcquisitionFinished", "Close"}
Events == [type : EventTypes, id : Nat]
FromMaster == [type : {"Message", "Answer"}, id : Nat]

\* Every variable has its type, and the queue its capacity.
TypeOK ==
  /\ queue \in Seq(Events) /\ Len(queue) <= QueueSize
  /\ {closed, exitRequested, interrupted} \subseteq BOOLEAN
  /\ main \in {"run", "handle", "request", "syncing", "handleInSync", "endSync", "finish",
               "close", "joinMessages", "closeStream", "joinRecords", "returned"}
  /\ syncID \in Nat /\ syncs \in Nat
  /\ requestSync \in BOOLEAN /\ locked \in BOOLEAN /\ streamClosed \in BOOLEAN
  /\ rec \in [pc : {"read", "lock", "push", "check", "notify", "finished", "closing", "ended"},
              left : Nat, stored : BOOLEAN]
  /\ reader \in [pc : {"read", "push", "lost", "reconnect", "database", "reconnected", "ended"},
                 msg : FromMaster]
  /\ inbox \in Seq(FromMaster) /\ asked \subseteq Nat
  /\ up \in BOOLEAN /\ database \in BOOLEAN
  /\ left \in [messages : Nat, losses : Nat] /\ waiting \in Nat

SyncEvents == {i \in DOMAIN queue : queue[i].type = "Sync"}
InSync == main \in {"request", "syncing", "handleInSync", "endSync"}
InStore == rec.pc \in {"push", "check"}
Freed == main \in {"joinRecords", "returned"}

\* A sync owns the lock of the records from storeRecord, through the queue, to the
\* end of sync(): there is only one at a time, no record is stored meanwhile, and
\* handleEndSync never takes the lock away from a record that is being stored.
\* A lock that nobody stores a record under belongs to a sync, unless the queue
\* has been closed.
SyncOwnsLock ==
  Freed \/
    /\ rec.pc = "notify" \/ SyncEvents # {} \/ InSync => locked /\ ~InStore
    /\ ~(rec.pc = "notify" /\ SyncEvents # {})
    /\ ~(rec.pc = "notify" /\ InSync)
    /\ ~(SyncEvents # {} /\ InSync)
    /\ \A i, j \in SyncEvents : i = j
    /\ InStore => locked
    /\ locked /\ ~InStore /\ ~closed => rec.pc = "notify" \/ SyncEvents # {} \/ InSync

\* After a request for a sync no more records are handled than the queue holds
\* and one that is being stored.
SyncInTime == waiting <= QueueSize + 2

\* A record that waits for the lock gets it: a sync always ends, with an answer,
\* with the loss of the connection or with the application.  While the message
\* thread waits for the database it does not.
AcquisitionGoesOn == rec.pc = "lock" ~> rec.pc # "lock" \/ reader.pc = "database"

\* After an exit the application ends, wherever its threads are, unless the
\* message thread waits for the database.
EndsAfterExit == exitRequested ~> main = "returned" \/ reader.pc = "database"

\* When the acquisition has finished the application ends.
EndsWhenFinished == rec.pc = "closing" ~> main = "returned"
=============================================================================
