---------------------- MODULE StreamApplicationProofs ----------------------
(***************************************************************************)
(* Theorems about StreamApplication: its types, and that the lock of the   *)
(* records is handed over to exactly one sync.  SyncOwnsLock is inductive  *)
(* once it is known that the master's messages never are Sync events; the  *)
(* type invariant needs the bound on the records that are left.            *)
(***************************************************************************)
EXTENDS StreamApplication, FiniteSetTheorems, TLAPS

\* A record that is stored has been read.
RecordIsLeft == rec.pc \in {"lock", "push"} => rec.left > 0

IInv == TypeOK /\ RecordIsLeft /\ SyncOwnsLock

OneSync == \A i, j \in SyncEvents : i = j

-----------------------------------------------------------------------------
(* The queue.                                                                 *)

\* A push keeps the type and the capacity of the queue (ThreadedQueue::push).
LEMMA PushKeepsType ==
  ASSUME TypeOK, NEW e \in Events, CanPush, Pushed(e)
  PROVE  queue' \in Seq(Events) /\ Len(queue') <= QueueSize
<1>1. CASE closed
  BY <1>1 DEF TypeOK, Pushed
<1>2. CASE ~closed
  BY <1>2, StreamApplicationAssumption DEF TypeOK, Pushed, CanPush
<1> QED
  BY <1>1, <1>2

\* So does a pop.
LEMMA PopKeepsType ==
  ASSUME TypeOK, NEW type, Handles(type)
  PROVE  queue' \in Seq(Events) /\ Len(queue') <= QueueSize
BY StreamApplicationAssumption DEF TypeOK, Handles

\* An event that is not a Sync leaves the Syncs in the queue where they are.
LEMMA PushOther ==
  ASSUME TypeOK, NEW e \in Events, e.type # "Sync", Pushed(e)
  PROVE  SyncEvents' = SyncEvents
<1>1. CASE closed
  BY <1>1 DEF Pushed, SyncEvents
<1>2. CASE ~closed
  <2>1. queue' = Append(queue, e) /\ queue \in Seq(Events)
    BY <1>2 DEF Pushed, TypeOK
  <2>2. DOMAIN queue' = DOMAIN queue \cup {Len(queue) + 1}
    BY <2>1
  <2>3. \A i \in DOMAIN queue : queue'[i] = queue[i]
    BY <2>1
  <2>4. queue'[Len(queue) + 1] = e
    BY <2>1
  <2> QED
    BY <2>2, <2>3, <2>4 DEF SyncEvents
<1> QED
  BY <1>1, <1>2

\* A Sync that is pushed into a queue without one is the only one.
LEMMA PushFirstSync ==
  ASSUME TypeOK, ~closed, SyncEvents = {}, Pushed(Event("Sync"))
  PROVE  SyncEvents' # {} /\ OneSync'
<1>1. queue' = Append(queue, Event("Sync")) /\ queue \in Seq(Events)
  BY DEF Pushed, TypeOK
<1>2. DOMAIN queue' = DOMAIN queue \cup {Len(queue) + 1}
  BY <1>1
<1>3. \A i \in DOMAIN queue : queue'[i] = queue[i]
  BY <1>1
<1>4. queue'[Len(queue) + 1].type = "Sync"
  BY <1>1 DEF Event
<1>5. SyncEvents' = {Len(queue) + 1}
  BY <1>2, <1>3, <1>4 DEF SyncEvents
<1> QED
  BY <1>5 DEF OneSync

\* What is behind the head of the queue moves up by one.
LEMMA PopMovesUp ==
  ASSUME TypeOK, NEW type, Handles(type)
  PROVE  /\ SyncEvents' = {i \in 1..(Len(queue) - 1) : i + 1 \in SyncEvents}
         /\ 1 \in SyncEvents <=> type = "Sync"
         /\ SyncEvents \subseteq 1..Len(queue)
<1>1. queue' = Tail(queue) /\ queue \in Seq(Events) /\ queue # <<>> /\ queue[1].type = type
  BY DEF Handles, TypeOK
<1>2. Len(queue) \in Nat /\ Len(queue) >= 1 /\ DOMAIN queue = 1..Len(queue)
  BY <1>1
<1>3. DOMAIN queue' = 1..(Len(queue) - 1) /\ \A i \in DOMAIN queue' : queue'[i] = queue[i + 1]
  BY <1>1, <1>2
<1>4. \A i \in 1..(Len(queue) - 1) : i + 1 \in DOMAIN queue
  BY <1>2
<1> QED
  BY <1>1, <1>2, <1>3, <1>4 DEF SyncEvents

\* An event that is not a Sync is taken: there is a Sync as before, and no second.
LEMMA PopOther ==
  ASSUME TypeOK, NEW type, type # "Sync", Handles(type)
  PROVE  (SyncEvents' = {} <=> SyncEvents = {}) /\ (OneSync => OneSync')
<1>1. /\ SyncEvents' = {i \in 1..(Len(queue) - 1) : i + 1 \in SyncEvents}
      /\ 1 \notin SyncEvents /\ SyncEvents \subseteq 1..Len(queue)
  BY PopMovesUp
<1>2. Len(queue) \in Nat
  BY DEF TypeOK
<1>3. \A k \in SyncEvents : k - 1 \in 1..(Len(queue) - 1) /\ (k - 1) + 1 = k
  BY <1>1, <1>2
<1>4. SyncEvents' = {} <=> SyncEvents = {}
  BY <1>1, <1>3
<1>5. ASSUME OneSync PROVE OneSync'
  <2>1. SUFFICES ASSUME NEW i \in SyncEvents', NEW j \in SyncEvents' PROVE i = j
    BY DEF OneSync
  <2>2. i + 1 = j + 1 /\ i \in Nat /\ j \in Nat
    BY <1>1, <1>2, <1>5 DEF OneSync
  <2> QED
    BY <2>2
<1> QED
  BY <1>4, <1>5

\* The only Sync is taken: there is none left.
LEMMA PopSync ==
  ASSUME TypeOK, OneSync, Handles("Sync")
  PROVE  SyncEvents # {} /\ SyncEvents' = {}
<1>1. /\ SyncEvents' = {i \in 1..(Len(queue) - 1) : i + 1 \in SyncEvents}
      /\ 1 \in SyncEvents
  BY PopMovesUp
<1>2. \A i \in 1..(Len(queue) - 1) : i + 1 # 1
  BY DEF TypeOK
<1> QED
  BY <1>1, <1>2 DEF OneSync
-----------------------------------------------------------------------------
(* Types.                                                                     *)

LEMMA InitTyped == Init => TypeOK /\ RecordIsLeft /\ SyncOwnsLock
<1> SUFFICES ASSUME Init PROVE TypeOK /\ RecordIsLeft /\ SyncOwnsLock
  OBVIOUS
<1>1. TypeOK
  <2>1. queue = <<>> /\ inbox = <<>> /\ asked = {}
    BY DEF Init
  <2>2. queue \in Seq(Events) /\ Len(queue) <= QueueSize /\ inbox \in Seq(FromMaster)
    BY <2>1, StreamApplicationAssumption
  <2>3. asked \subseteq Nat
    BY <2>1
  <2>4. Event("Message") \in FromMaster
    BY DEF Event, FromMaster
  <2> QED
    BY <2>2, <2>3, <2>4, StreamApplicationAssumption DEF Init, TypeOK
<1>2. SyncEvents = {}
  BY DEF Init, SyncEvents
<1> QED
  BY <1>1, <1>2 DEF Init, RecordIsLeft, SyncOwnsLock, InSync, InStore, Freed

\* The main thread keeps the types.
LEMMA MainTyped == TypeOK /\ Main => TypeOK'
<1> SUFFICES ASSUME TypeOK, Main PROVE TypeOK'
  OBVIOUS
<1>1. CASE TakeRecord
  BY <1>1, PopKeepsType DEF TypeOK, TakeRecord, Handles, recordVars, network, outside
<1>2. CASE HandleRecord
  BY <1>2 DEF TypeOK, HandleRecord, events, recordVars, network, outside
<1>3. CASE HandleOther
  BY <1>3, PopKeepsType DEF TypeOK, HandleOther, Handles, recordVars, network, outside
<1>4. CASE HandleAnswer
  BY <1>4, PopKeepsType DEF TypeOK, HandleAnswer, Handles, Looped, recordVars, network, outside
<1>5. CASE HandleDisconnect
  BY <1>5, PopKeepsType DEF TypeOK, HandleDisconnect, Handles, Looped, recordVars, network, outside
<1>6. CASE HandleClose
  BY <1>6, PopKeepsType DEF TypeOK, HandleClose, Handles, recordVars, network, outside
<1>7. CASE StartSync
  BY <1>7, PopKeepsType DEF TypeOK, StartSync, Handles, recordVars, network, outside
<1>8. CASE SendSyncRequest
  BY <1>8 DEF TypeOK, SendSyncRequest, events, recordVars, outside
<1>9. CASE EndSync
  BY <1>9 DEF TypeOK, EndSync, FreesLock, events, recordVars, network, outside
<1>10. CASE LeaveLoop
  BY <1>10 DEF TypeOK, LeaveLoop, events, recordVars, network, outside
<1>11. CASE Disconnect
  <2>1. inbox' \in Seq(FromMaster) /\ asked' \subseteq Nat
    BY <1>11 DEF Disconnect
  <2> QED
    BY <1>11, <2>1 DEF TypeOK, Disconnect, events, recordVars, outside
<1>12. CASE CloseQueue
  BY <1>12 DEF TypeOK, CloseQueue, recordVars, network, outside
<1>13. CASE JoinMessageThread
  BY <1>13 DEF TypeOK, JoinMessageThread, events, recordVars, network, outside
<1>14. CASE CloseStream
  BY <1>14 DEF TypeOK, CloseStream, FreesLock, events, network, outside
<1>15. CASE JoinRecordThread
  BY <1>15 DEF TypeOK, JoinRecordThread, events, recordVars, network, outside
<1> QED
  BY <1>1, <1>2, <1>3, <1>4, <1>5, <1>6, <1>7, <1>8, <1>9, <1>10, <1>11, <1>12, <1>13,
     <1>14, <1>15 DEF Main

\* So does the record thread: it stores only records that it has read.
LEMMA RecordThreadTyped == TypeOK /\ RecordIsLeft /\ RecordThreadStep => TypeOK'
<1> SUFFICES ASSUME TypeOK, RecordIsLeft, RecordThreadStep PROVE TypeOK'
  OBVIOUS
<1>0. \A type \in EventTypes : Event(type) \in Events
  BY DEF Event, Events
<1>1. CASE ReadRecord
  BY <1>1 DEF TypeOK, ReadRecord, RecordThread, Rest, events, network, outside
<1>2. CASE LockRecords
  BY <1>2 DEF TypeOK, LockRecords, RecordThread, Rest, events, network, outside
<1>3. CASE PushRecord
  <2>1. queue' \in Seq(Events) /\ Len(queue') <= QueueSize
    BY <1>0, <1>3, PushKeepsType DEF PushRecord, EventTypes
  <2>2. rec.left - 1 \in Nat
    BY <1>3 DEF PushRecord, TypeOK, RecordIsLeft
  <2> QED
    BY <1>3, <2>1, <2>2 DEF TypeOK, PushRecord, Pushed, Rest, network, outside
<1>4. CASE SyncRequested
  BY <1>4 DEF TypeOK, SyncRequested, KeepsLock, RecordThread, Rest, events, network, outside
<1>5. CASE UnlockRecords
  BY <1>5 DEF TypeOK, UnlockRecords, AfterStore, RecordThread, Rest, events, network, outside
<1>6. CASE PushSync
  <2>1. queue' \in Seq(Events) /\ Len(queue') <= QueueSize
    BY <1>0, <1>6, PushKeepsType DEF PushSync, EventTypes
  <2> QED
    BY <1>6, <2>1 DEF TypeOK, PushSync, Pushed, AfterStore, RecordThread, Rest, network, outside
<1>7. CASE PushFinished
  <2>1. queue' \in Seq(Events) /\ Len(queue') <= QueueSize
    BY <1>0, <1>7, PushKeepsType DEF PushFinished, EventTypes
  <2> QED
    BY <1>7, <2>1 DEF TypeOK, PushFinished, Pushed, RecordThread, Rest, network, outside
<1>8. CASE PushClose
  <2>1. queue' \in Seq(Events) /\ Len(queue') <= QueueSize
    BY <1>0, <1>8, PushKeepsType DEF PushClose, EventTypes
  <2> QED
    BY <1>8, <2>1 DEF TypeOK, PushClose, Pushed, RecordThread, Rest, network, outside
<1> QED
  BY <1>1, <1>2, <1>3, <1>4, <1>5, <1>6, <1>7, <1>8 DEF RecordThreadStep
\* The message thread pushes what the master sends and its own notifications.
LEMMA MessageThreadTyped == TypeOK /\ MessageThreadStep => TypeOK'
<1> SUFFICES ASSUME TypeOK, MessageThreadStep PROVE TypeOK'
  OBVIOUS
<1>0. (\A type \in EventTypes : Event(type) \in Events) /\ FromMaster \subseteq Events
  BY DEF Event, Events, FromMaster, EventTypes
<1>1. CASE ReadMessage
  BY <1>1 DEF TypeOK, ReadMessage, Others, events, recordVars, outside
<1>2. CASE PushMessage
  <2>1. reader.msg \in Events
    BY <1>0 DEF TypeOK
  <2>2. queue' \in Seq(Events) /\ Len(queue') <= QueueSize
    BY <1>2, <2>1, PushKeepsType DEF PushMessage
  <2>3. Event("Message") \in FromMaster
    BY DEF Event, FromMaster
  <2> QED
    BY <1>2, <2>2, <2>3 DEF TypeOK, PushMessage, Pushed, Others, network, recordVars, outside
<1>3. CASE ConnectionLost
  BY <1>3 DEF TypeOK, ConnectionLost, Reader, Others, events, network, recordVars, outside
<1>4. CASE PushDisconnect
  <2>1. queue' \in Seq(Events) /\ Len(queue') <= QueueSize
    BY <1>0, <1>4, PushKeepsType DEF PushDisconnect, Notifies, EventTypes
  <2> QED
    BY <1>4, <2>1 DEF TypeOK, PushDisconnect, Notifies, Pushed, Reader, Others, network,
                      recordVars, outside
<1>5. CASE Reconnect
  <2>1. up' \in BOOLEAN
    BY <1>5 DEF TypeOK, Reconnect
  <2>2. reader' = [reader EXCEPT !.pc = "ended"] \/ reader' = [reader EXCEPT !.pc = "database"]
    BY <1>5 DEF Reconnect, Reader
  <2>3. /\ UNCHANGED <<queue, closed, inbox, asked, database, exitRequested, main, syncID, syncs>>
        /\ UNCHANGED <<requestSync, locked, rec, streamClosed, left, interrupted, waiting>>
    BY <1>5 DEF Reconnect, Others, events, recordVars, outside
  <2> QED
    BY <2>1, <2>2, <2>3 DEF TypeOK
<1>6. CASE DatabaseBack
  BY <1>6 DEF TypeOK, DatabaseBack, Reader, Others, events, network, recordVars, outside
<1>7. CASE PushReconnect
  <2>1. queue' \in Seq(Events) /\ Len(queue') <= QueueSize
    BY <1>0, <1>7, PushKeepsType DEF PushReconnect, EventTypes
  <2> QED
    BY <1>7, <2>1 DEF TypeOK, PushReconnect, Pushed, Reader, Others, network, recordVars, outside
<1> QED
  BY <1>1, <1>2, <1>3, <1>4, <1>5, <1>6, <1>7 DEF MessageThreadStep

\* What comes from outside: messages, losses and a signal.
LEMMA EnvironmentTyped == TypeOK /\ Environment => TypeOK'
<1> SUFFICES ASSUME TypeOK, Environment PROVE TypeOK'
  OBVIOUS
<1>1. CASE MasterAnswers
  <2>1. PICK id \in asked : inbox' = Append(inbox, Answer(id)) /\ asked' = asked \ {id}
    BY <1>1 DEF MasterAnswers
  <2>2. Answer(id) \in FromMaster
    BY <2>1 DEF TypeOK, Answer, FromMaster
  <2>3. inbox' \in Seq(FromMaster) /\ asked' \subseteq Nat
    BY <2>1, <2>2 DEF TypeOK
  <2> QED
    BY <1>1, <2>3 DEF TypeOK, MasterAnswers, Stay, events, recordVars, outside
<1>2. CASE MasterSends
  <2>1. Event("Message") \in FromMaster
    BY DEF Event, FromMaster
  <2>2. inbox' \in Seq(FromMaster)
    BY <1>2, <2>1 DEF TypeOK, MasterSends
  <2> QED
    BY <1>2, <2>2 DEF TypeOK, MasterSends, Stay, events, recordVars
<1>3. CASE LoseConnection
  <2>1. inbox' \in Seq(FromMaster) /\ asked' \subseteq Nat
    BY <1>3 DEF LoseConnection
  <2>2. database' \in BOOLEAN
    BY <1>3 DEF LoseConnection, TypeOK
  <2>3. left' \in [messages : Nat, losses : Nat]
    BY <1>3 DEF LoseConnection, TypeOK
  <2>4. /\ up' = FALSE
        /\ UNCHANGED <<queue, closed, exitRequested, main, syncID, syncs, requestSync, locked>>
        /\ UNCHANGED <<rec, streamClosed, reader, interrupted, waiting>>
    BY <1>3 DEF LoseConnection, Stay, events, recordVars
  <2>5. up' \in BOOLEAN /\ {closed', exitRequested', interrupted'} \subseteq BOOLEAN
    BY <2>4 DEF TypeOK
  <2> QED
    BY <2>1, <2>2, <2>3, <2>4, <2>5 DEF TypeOK
<1>4. CASE DatabaseReturns
  BY <1>4 DEF TypeOK, DatabaseReturns, Stay, events, network, recordVars, outside
<1>5. CASE Exit
  BY <1>5 DEF TypeOK, Exit, events, network, recordVars
<1>6. CASE ExitCloses
  <2>1. /\ interrupted' = FALSE /\ closed' = TRUE /\ streamClosed' = TRUE
        /\ UNCHANGED <<queue, exitRequested, main, syncID, syncs, requestSync, locked, rec>>
        /\ UNCHANGED <<reader, up, inbox, asked, database, left, waiting>>
    BY <1>6 DEF ExitCloses, network
  <2>2. streamClosed' \in BOOLEAN /\ {closed', exitRequested', interrupted'} \subseteq BOOLEAN
    BY <2>1 DEF TypeOK
  <2> QED
    BY <2>1, <2>2 DEF TypeOK
<1> QED
  BY <1>1, <1>2, <1>3, <1>4, <1>5, <1>6 DEF Environment

-----------------------------------------------------------------------------
(* The lock of the records.                                                   *)

\* Only the record thread moves it between reading and storing.
LEMMA RecordStaysLeft == TypeOK /\ RecordIsLeft /\ [Next]_vars => RecordIsLeft'
<1> SUFFICES ASSUME TypeOK, RecordIsLeft, [Next]_vars PROVE RecordIsLeft'
  OBVIOUS
<1>1. CASE rec' = rec
  BY <1>1 DEF RecordIsLeft
<1>2. CASE RecordThreadStep
  BY <1>2 DEF RecordThreadStep, ReadRecord, LockRecords, PushRecord, SyncRequested, UnlockRecords,
              PushSync, PushFinished, PushClose, RecordThread, AfterStore, TypeOK, RecordIsLeft
<1>3. CASE Main
  BY <1>1, <1>3 DEF Main, TakeRecord, HandleRecord, HandleOther, HandleAnswer, HandleDisconnect,
                    HandleClose, StartSync, SendSyncRequest, EndSync, LeaveLoop, Disconnect,
                    CloseQueue, JoinMessageThread, CloseStream, JoinRecordThread, recordVars
<1>4. CASE MessageThreadStep
  BY <1>1, <1>4 DEF MessageThreadStep, ReadMessage, PushMessage, ConnectionLost, PushDisconnect,
                    Reconnect, DatabaseBack, PushReconnect, Others, recordVars
<1>5. CASE Environment
  BY <1>1, <1>5 DEF Environment, MasterAnswers, MasterSends, LoseConnection, DatabaseReturns,
                    Exit, ExitCloses, Stay, recordVars
<1> QED
  BY <1>1, <1>2, <1>3, <1>4, <1>5 DEF Next, vars

\* The main thread takes the Sync from the queue, holds the lock during sync() and
\* frees it at the end.
LEMMA MainKeepsLock == IInv /\ Main => SyncOwnsLock'
<1> SUFFICES ASSUME IInv, Main PROVE SyncOwnsLock'
  OBVIOUS
<1>0. TypeOK /\ SyncOwnsLock
  BY DEF IInv
<1>1. CASE queue' = queue /\ locked' = locked /\ rec' = rec /\ (closed => closed') /\ (InSync' <=> InSync)
           /\ (Freed => Freed')
  <2>1. SyncEvents' = SyncEvents
    BY <1>1 DEF SyncEvents
  <2> QED
    BY <1>0, <1>1, <2>1 DEF SyncOwnsLock, InStore
<1>2. CASE ~Freed /\ ~Freed'
  <2>1. CASE \E type : type # "Sync" /\ Handles(type) /\ locked' = locked /\ rec' = rec /\ (InSync' <=> InSync)
    <3>1. (SyncEvents' = {} <=> SyncEvents = {}) /\ (OneSync => OneSync')
      BY <1>0, <2>1, PopOther
    <3> QED
      BY <1>0, <1>2, <2>1, <3>1 DEF SyncOwnsLock, InStore, OneSync, Handles
  <2>2. CASE TakeRecord
    <3>1. InSync' <=> InSync
      BY <2>2 DEF TakeRecord, Handles, InSync
    <3> QED
      BY <2>1, <2>2, <3>1 DEF TakeRecord, recordVars
  <2>3. CASE HandleRecord
    BY <1>1, <1>2, <2>3 DEF HandleRecord, InSync, recordVars, events
  <2>4. CASE HandleOther
    <3>1. InSync' <=> InSync
      BY <2>4 DEF HandleOther, InSync
    <3> QED
      BY <2>1, <2>4, <3>1 DEF HandleOther, recordVars
  <2>5. CASE HandleAnswer
    <3>1. InSync' <=> InSync
      BY <2>5 DEF HandleAnswer, Looped, InSync
    <3> QED
      BY <2>1, <2>5, <3>1 DEF HandleAnswer, recordVars
  <2>6. CASE HandleDisconnect
    <3>1. InSync' <=> InSync
      BY <2>6 DEF HandleDisconnect, Looped, InSync
    <3> QED
      BY <2>1, <2>6, <3>1 DEF HandleDisconnect, recordVars
  <2>7. CASE HandleClose
    <3>1. InSync' <=> InSync
      BY <2>7 DEF HandleClose, Handles, InSync
    <3> QED
      BY <2>1, <2>7, <3>1 DEF HandleClose, recordVars
  <2>8. CASE StartSync
    <3>1. SyncEvents # {} /\ SyncEvents' = {}
      BY <1>0, <1>2, <2>8, PopSync DEF StartSync, SyncOwnsLock, OneSync
    <3>2. InSync' /\ locked' = locked /\ rec' = rec
      BY <2>8 DEF StartSync, InSync, recordVars
    <3> QED
      BY <1>0, <1>2, <3>1, <3>2 DEF SyncOwnsLock, InStore
  <2>9. CASE SendSyncRequest
    BY <1>1, <1>2, <2>9 DEF SendSyncRequest, InSync, recordVars, events
  <2>10. CASE EndSync
    <3>1. InSync /\ ~InSync' /\ locked' = FALSE /\ rec' = rec /\ queue' = queue
      BY <2>10 DEF EndSync, InSync, FreesLock, recordVars, events
    <3>2. SyncEvents' = SyncEvents
      BY <3>1 DEF SyncEvents
    <3> QED
      BY <1>0, <1>2, <3>1, <3>2 DEF SyncOwnsLock, InStore
  <2>11. CASE LeaveLoop
    BY <1>1, <1>2, <2>11 DEF LeaveLoop, InSync, recordVars, events
  <2>12. CASE Disconnect
    BY <1>1, <1>2, <2>12 DEF Disconnect, InSync, recordVars, events
  <2>13. CASE CloseQueue
    BY <1>1, <1>2, <2>13 DEF CloseQueue, InSync, recordVars
  <2>14. CASE JoinMessageThread
    BY <1>1, <1>2, <2>14 DEF JoinMessageThread, InSync, recordVars, events
  <2> QED
    BY <1>2, <2>2, <2>3, <2>4, <2>5, <2>6, <2>7, <2>8, <2>9, <2>10, <2>11, <2>12, <2>13,
       <2>14 DEF Main, CloseStream, JoinRecordThread, Freed
<1>3. CASE Freed'
  BY <1>3 DEF SyncOwnsLock
<1>4. CASE Freed
  BY <1>3, <1>4 DEF Freed, Main, TakeRecord, HandleRecord, HandleOther, HandleAnswer,
                    HandleDisconnect, HandleClose, StartSync, SendSyncRequest, EndSync, LeaveLoop,
                    Disconnect, CloseQueue, JoinMessageThread, CloseStream, JoinRecordThread, Handles
<1> QED
  BY <1>2, <1>3, <1>4

\* The record thread takes the lock, gives it back, or leaves it to a Sync.
LEMMA RecordThreadKeepsLock == IInv /\ RecordThreadStep => SyncOwnsLock'
<1> SUFFICES ASSUME IInv, RecordThreadStep, ~Freed PROVE SyncOwnsLock'
  BY DEF SyncOwnsLock, Freed, RecordThreadStep, ReadRecord, LockRecords, PushRecord, SyncRequested,
         UnlockRecords, PushSync, PushFinished, PushClose, Rest
<1>0. TypeOK /\ SyncOwnsLock
  BY DEF IInv
<1>1. main' = main
  BY DEF RecordThreadStep, ReadRecord, LockRecords, PushRecord, SyncRequested,
         UnlockRecords, PushSync, PushFinished, PushClose, Rest
<1>2. InSync' <=> InSync
  BY <1>1 DEF InSync
<1>3. queue' = queue => SyncEvents' = SyncEvents
  BY DEF SyncEvents
<1>4. \A type \in EventTypes : Event(type) \in Events /\ Event(type).type = type
  BY DEF Event, Events
<1>5. CASE ReadRecord
  BY <1>0, <1>2, <1>3, <1>5 DEF ReadRecord, RecordThread, Rest, events, TypeOK, SyncOwnsLock, InStore
<1>6. CASE LockRecords
  BY <1>0, <1>2, <1>3, <1>6 DEF LockRecords, RecordThread, Rest, events, TypeOK, SyncOwnsLock, InStore
<1>7. CASE PushRecord
  <2>1. SyncEvents' = SyncEvents
    BY <1>0, <1>4, <1>7, PushOther DEF PushRecord, EventTypes
  <2> QED
    BY <1>0, <1>2, <1>7, <2>1 DEF PushRecord, Pushed, TypeOK, SyncOwnsLock, InStore
<1>8. CASE SyncRequested
  BY <1>0, <1>2, <1>3, <1>8 DEF SyncRequested, KeepsLock, RecordThread, Rest, events, TypeOK,
                                SyncOwnsLock, InStore
<1>9. CASE UnlockRecords
  BY <1>0, <1>2, <1>3, <1>9 DEF UnlockRecords, AfterStore, RecordThread, Rest, events, TypeOK,
                                SyncOwnsLock, InStore
<1>10. CASE PushSync
  <2>1. rec'.pc \in {"read", "ended"} /\ locked' = locked /\ closed' = closed
    BY <1>0, <1>10 DEF PushSync, Pushed, AfterStore, RecordThread, TypeOK
  <2>2. locked /\ SyncEvents = {} /\ ~InSync
    BY <1>0, <1>10 DEF PushSync, SyncOwnsLock
  <2>3. CASE closed
    <3>1. SyncEvents' = SyncEvents
      BY <1>3, <1>10, <2>3 DEF PushSync, Pushed
    <3> QED
      BY <1>2, <2>1, <2>2, <2>3, <3>1 DEF SyncOwnsLock, InStore
  <2>4. CASE ~closed
    <3>1. SyncEvents' # {} /\ OneSync'
      BY <1>0, <1>10, <2>2, <2>4, PushFirstSync DEF PushSync
    <3> QED
      BY <1>2, <2>1, <2>2, <3>1 DEF SyncOwnsLock, InStore, OneSync
  <2> QED
    BY <2>3, <2>4
<1>11. CASE PushFinished
  <2>1. SyncEvents' = SyncEvents
    BY <1>0, <1>4, <1>11, PushOther DEF PushFinished, EventTypes
  <2> QED
    BY <1>0, <1>2, <1>11, <2>1 DEF PushFinished, Pushed, RecordThread, TypeOK, SyncOwnsLock, InStore
<1>12. CASE PushClose
  <2>1. SyncEvents' = SyncEvents
    BY <1>0, <1>4, <1>12, PushOther DEF PushClose, EventTypes
  <2> QED
    BY <1>0, <1>2, <1>12, <2>1 DEF PushClose, Pushed, RecordThread, TypeOK, SyncOwnsLock, InStore
<1> QED
  BY <1>5, <1>6, <1>7, <1>8, <1>9, <1>10, <1>11, <1>12 DEF RecordThreadStep

\* Nothing else touches the lock, and nobody else pushes a Sync.
LEMMA OthersKeepLock ==
  IInv /\ (MessageThreadStep \/ Environment \/ UNCHANGED vars) => SyncOwnsLock'
<1> SUFFICES ASSUME IInv, MessageThreadStep \/ Environment \/ UNCHANGED vars PROVE SyncOwnsLock'
  OBVIOUS
<1>0. TypeOK /\ SyncOwnsLock
  BY DEF IInv
<1>1. main' = main /\ locked' = locked /\ rec' = rec /\ (closed => closed')
  BY <1>0 DEF MessageThreadStep, ReadMessage, PushMessage, ConnectionLost, PushDisconnect, Reconnect,
              DatabaseBack, PushReconnect, Others, Environment, MasterAnswers, MasterSends,
              LoseConnection, DatabaseReturns, Exit, ExitCloses, Stay, Notifies, Pushed, events,
              recordVars, vars, TypeOK
<1>2. SyncEvents' = SyncEvents
  <2>0. /\ \A type \in EventTypes : Event(type) \in Events /\ Event(type).type = type
        /\ reader.msg \in Events /\ reader.msg.type # "Sync"
    BY <1>0 DEF Event, Events, TypeOK, FromMaster, EventTypes
  <2>1. CASE queue' = queue
    BY <2>1 DEF SyncEvents
  <2>2. CASE PushMessage
    BY <1>0, <2>0, <2>2, PushOther DEF PushMessage
  <2>3. CASE PushDisconnect
    BY <1>0, <2>0, <2>3, PushOther DEF PushDisconnect, Notifies, EventTypes
  <2>4. CASE PushReconnect
    BY <1>0, <2>0, <2>4, PushOther DEF PushReconnect, EventTypes
  <2> QED
    BY <2>1, <2>2, <2>3, <2>4 DEF MessageThreadStep, ReadMessage, ConnectionLost, Reconnect,
              DatabaseBack, Others, Environment, MasterAnswers, MasterSends,
              LoseConnection, DatabaseReturns, Exit, ExitCloses, Stay, events, vars
<1> QED
  BY <1>0, <1>1, <1>2 DEF SyncOwnsLock, InSync, InStore, Freed

-----------------------------------------------------------------------------
(* The theorems.                                                              *)

LEMMA Unchanged == TypeOK /\ UNCHANGED vars => TypeOK'
BY DEF TypeOK, vars

\* Every step preserves the inductive invariant.
LEMMA Inductive == IInv /\ [Next]_vars => IInv'
<1> SUFFICES ASSUME IInv, [Next]_vars PROVE IInv'
  OBVIOUS
<1>1. TypeOK'
  BY MainTyped, RecordThreadTyped, MessageThreadTyped, EnvironmentTyped, Unchanged DEF IInv, Next
<1>2. RecordIsLeft'
  BY RecordStaysLeft DEF IInv
<1>3. SyncOwnsLock'
  BY MainKeepsLock, RecordThreadKeepsLock, OthersKeepLock DEF Next
<1> QED
  BY <1>1, <1>2, <1>3 DEF IInv

\* Application and StreamApplication keep the types of their state and the queue its
\* capacity, for all sizes and any number of records, messages and losses.
THEOREM TypeCorrect == Spec => []TypeOK
<1>1. Init => IInv
  BY InitTyped DEF IInv
<1>2. IInv => TypeOK
  BY DEF IInv
<1> QED
  BY <1>1, <1>2, Inductive, PTL DEF Spec

\* The lock that storeRecord leaves locked belongs to exactly one sync until
\* handleEndSync frees it, for all sizes and any number of records.
THEOREM LockBelongsToSync == Spec => []SyncOwnsLock
<1>1. Init => IInv
  BY InitTyped DEF IInv
<1>2. IInv => SyncOwnsLock
  BY DEF IInv
<1> QED
  BY <1>1, <1>2, Inductive, PTL DEF Spec

-----------------------------------------------------------------------------
(* A sync is reached in time.                                                 *)

RecordEvents == {i \in DOMAIN queue : queue[i].type = "Record"}
Handling == main \in {"handle", "handleInSync"}
Closing == main \in {"joinMessages", "closeStream", "joinRecords", "returned"}

RecordsQueued == Cardinality(RecordEvents)

\* A sync has been requested and has not ended.
Underway == requestSync \/ rec.pc = "notify" \/ SyncEvents # {} \/ InSync

\* The record thread may store a record before it notices the request.
OneMayFollow == rec.pc \in {"read", "lock", "push"} /\ SyncEvents = {} /\ ~InSync

One(condition) == IF condition THEN 1 ELSE 0

\* Records that may be handled before the sync are those in the queue, the one that is
\* being handled and the one that may follow.  Once the queue has been closed only
\* the one in hand is handled.
TimeInv ==
  /\ Closing => closed
  /\ waiting + One(Handling) <= QueueSize + 2
  /\ ~closed => (waiting > 0 <=> Underway)
  /\ ~closed /\ waiting > 0 =>
       waiting + RecordsQueued + One(Handling) + One(OneMayFollow) <= QueueSize + 2

LEMMA OneType == \A b \in BOOLEAN : One(b) \in 0..1 /\ (b => One(b) = 1) /\ (~b => One(b) = 0)
BY DEF One

LEMMA Ones ==
  /\ One(Handling) \in 0..1 /\ (Handling => One(Handling) = 1) /\ (~Handling => One(Handling) = 0)
  /\ One(Handling') \in 0..1 /\ (Handling' => One(Handling') = 1) /\ (~Handling' => One(Handling') = 0)
  /\ One(OneMayFollow) \in 0..1 /\ One(OneMayFollow') \in 0..1
  /\ (OneMayFollow => One(OneMayFollow) = 1) /\ (~OneMayFollow' => One(OneMayFollow') = 0)
  /\ (OneMayFollow' => OneMayFollow) => One(OneMayFollow') <= One(OneMayFollow)
<1>1. /\ Handling \in BOOLEAN /\ OneMayFollow \in BOOLEAN
      /\ Handling' \in BOOLEAN /\ OneMayFollow' \in BOOLEAN
  BY DEF Handling, OneMayFollow
<1>2. /\ One(OneMayFollow) \in 0..1 /\ One(OneMayFollow') \in 0..1
      /\ (OneMayFollow => One(OneMayFollow) = 1) /\ (~OneMayFollow' => One(OneMayFollow') = 0)
  BY <1>1, OneType
<1>3. (OneMayFollow' => OneMayFollow) => One(OneMayFollow') <= One(OneMayFollow)
  BY <1>2
<1> QED
  BY <1>1, <1>2, <1>3, OneType

\* The queue holds no more records than events.
LEMMA RecordsOf ==
  ASSUME NEW q \in Seq(Events), NEW R, R = {i \in DOMAIN q : q[i].type = "Record"}
  PROVE  IsFiniteSet(R) /\ Cardinality(R) \in Nat /\ Cardinality(R) <= Len(q)
<1>1. Len(q) \in Nat /\ DOMAIN q = 1..Len(q)
  OBVIOUS
<1>2. IsFiniteSet(1..Len(q)) /\ Cardinality(1..Len(q)) = Len(q)
  <2>1. IsFiniteSet(1..Len(q)) /\ Cardinality(1..Len(q)) = IF 1 > Len(q) THEN 0 ELSE Len(q) - 1 + 1
    BY <1>1, FS_Interval
  <2> QED
    BY <1>1, <2>1
<1>3. R \subseteq 1..Len(q)
  BY <1>1
<1> QED
  BY <1>2, <1>3, FS_Subset, FS_CardinalityType

LEMMA RecordsCounted ==
  ASSUME TypeOK
  PROVE  IsFiniteSet(RecordEvents) /\ RecordsQueued \in Nat /\ RecordsQueued <= Len(queue)
BY RecordsOf DEF TypeOK, RecordEvents, RecordsQueued

LEMMA RecordsCountedNext == ASSUME TypeOK' PROVE RecordsQueued' \in Nat
BY RecordsOf DEF TypeOK, RecordEvents, RecordsQueued

\* A record that is pushed is one more.
LEMMA PushCounts ==
  ASSUME TypeOK, NEW e \in Events, ~closed, Pushed(e)
  PROVE  RecordsQueued' = RecordsQueued + One(e.type = "Record")
<1>1. queue' = Append(queue, e) /\ queue \in Seq(Events) /\ Len(queue) \in Nat
  BY DEF Pushed, TypeOK
<1>2. /\ DOMAIN queue' = DOMAIN queue \cup {Len(queue) + 1}
      /\ \A i \in DOMAIN queue : queue'[i] = queue[i]
      /\ queue'[Len(queue) + 1] = e
  BY <1>1
<1>3. IsFiniteSet(RecordEvents) /\ RecordsQueued \in Nat
  BY RecordsCounted
<1>4. CASE e.type = "Record"
  <2>1. RecordEvents' = RecordEvents \cup {Len(queue) + 1}
    BY <1>2, <1>4 DEF RecordEvents
  <2>2. Len(queue) + 1 \notin RecordEvents
    BY <1>1 DEF RecordEvents
  <2> QED
    BY <1>3, <1>4, <2>1, <2>2, FS_AddElement DEF RecordsQueued, One
<1>5. CASE e.type # "Record"
  <2>1. RecordEvents' = RecordEvents
    BY <1>2, <1>5 DEF RecordEvents
  <2> QED
    BY <1>3, <1>5, <2>1 DEF RecordsQueued, One
<1> QED
  BY <1>4, <1>5

\* A record that is taken is one less.
LEMMA PopCounts ==
  ASSUME TypeOK, NEW type, Handles(type)
  PROVE  RecordsQueued = RecordsQueued' + One(type = "Record") /\ RecordsQueued' \in Nat
<1>1. queue' = Tail(queue) /\ queue \in Seq(Events) /\ queue # <<>> /\ queue[1].type = type
  BY DEF Handles, TypeOK
<1>2. Len(queue) \in Nat /\ Len(queue) >= 1 /\ DOMAIN queue = 1..Len(queue)
  BY <1>1
<1>3. DOMAIN queue' = 1..(Len(queue) - 1) /\ \A i \in DOMAIN queue' : queue'[i] = queue[i + 1]
  BY <1>1, <1>2
<1>4. IsFiniteSet(RecordEvents) /\ RecordsQueued \in Nat
  BY RecordsCounted
<1>5. /\ \A i \in RecordEvents' : i \in 1..(Len(queue) - 1) /\ i + 1 \in RecordEvents
      /\ \A k \in RecordEvents : k # 1 => k - 1 \in RecordEvents' /\ (k - 1) + 1 = k
      /\ 1 \in RecordEvents <=> type = "Record"
  <2>1. \A i \in 1..(Len(queue) - 1) : i + 1 \in 1..Len(queue)
    BY <1>2
  <2>2. \A k \in 1..Len(queue) : k # 1 => k - 1 \in 1..(Len(queue) - 1) /\ (k - 1) + 1 = k
    BY <1>2
  <2> QED
    BY <1>1, <1>2, <1>3, <2>1, <2>2 DEF RecordEvents
<1> DEFINE Rest1 == RecordEvents \ {1}
           Down == [k \in Rest1 |-> k - 1]
<1>6. Down \in Bijection(Rest1, RecordEvents')
  <2>1. \A k \in Rest1 : Down[k] \in RecordEvents' /\ Down[k] + 1 = k
    BY <1>5
  <2>2. \A k, l \in Rest1 : Down[k] = Down[l] => k = l
    BY <2>1
  <2>3. \A i \in RecordEvents' : i + 1 \in Rest1 /\ Down[i + 1] = i
    BY <1>2, <1>5
  <2> QED
    BY <2>1, <2>2, <2>3 DEF Bijection, Injection, Surjection, IsInjective
<1>7. IsFiniteSet(Rest1)
  BY <1>4, FS_RemoveElement
<1>8. Cardinality(RecordEvents') = Cardinality(Rest1)
  <2>1. ExistsBijection(Rest1, RecordEvents')
    BY <1>6 DEF ExistsBijection
  <2> HIDE DEF Rest1
  <2> QED
    BY <1>7, <2>1, FS_Bijection
<1>9. Cardinality(Rest1) = IF type = "Record" THEN RecordsQueued - 1 ELSE RecordsQueued
  BY <1>4, <1>5, FS_RemoveElement DEF RecordsQueued
<1>10. Cardinality(Rest1) \in Nat
  BY <1>7, FS_CardinalityType
<1> QED
  BY <1>4, <1>8, <1>9, <1>10 DEF RecordsQueued, One

\* A step that handles no record keeps TimeInv, unless records get ahead of the sync.
LEMMA TimeKept ==
  ASSUME TypeOK, TypeOK', TimeInv, waiting' = waiting,
         closed => closed',
         Closing' => closed',
         Handling' => Handling \/ ~closed',
         ~closed' => (Underway' <=> Underway),
         ~closed' /\ waiting > 0 =>
           RecordsQueued' + One(Handling') + One(OneMayFollow')
             <= RecordsQueued + One(Handling) + One(OneMayFollow)
  PROVE  TimeInv'
<1>1. RecordsQueued \in Nat /\ RecordsQueued' \in Nat
  BY RecordsCounted, RecordsCountedNext
<1>2. waiting \in Nat /\ QueueSize \in Nat
  BY StreamApplicationAssumption DEF TypeOK
<1>3. ~closed' /\ waiting' > 0 =>
        waiting' + RecordsQueued' + One(Handling') + One(OneMayFollow') <= QueueSize + 2
  <2>1. SUFFICES ASSUME ~closed', waiting > 0
                 PROVE  waiting + RecordsQueued' + One(Handling') + One(OneMayFollow') <= QueueSize + 2
    OBVIOUS
  <2>2. waiting + RecordsQueued + One(Handling) + One(OneMayFollow) <= QueueSize + 2
    BY <2>1 DEF TimeInv
  <2> QED
    BY <1>1, <1>2, <2>1, <2>2, Ones
<1>4. waiting' + One(Handling') <= QueueSize + 2
  <2>1. CASE ~closed' /\ waiting > 0
    BY <1>1, <1>2, <1>3, <2>1, Ones
  <2>2. CASE waiting = 0
    BY <1>2, <2>2, Ones
  <2>3. CASE closed'
    BY <1>2, <2>3, Ones DEF TimeInv
  <2> QED
    BY <1>2, <2>1, <2>2, <2>3
<1>5. ~closed' => (waiting' > 0 <=> Underway')
  BY DEF TimeInv
<1> QED
  BY <1>3, <1>4, <1>5 DEF TimeInv

\* In particular a step that leaves the main thread, the record thread and the
\* queue where they are.
LEMMA TimeQuiet ==
  ASSUME TypeOK, TypeOK', TimeInv, closed => closed', Closing' => closed',
         queue' = queue, rec' = rec, requestSync' = requestSync, waiting' = waiting,
         InSync' <=> InSync, Handling' <=> Handling
  PROVE  TimeInv'
<1>1. SyncEvents' = SyncEvents /\ RecordsQueued' = RecordsQueued
  BY DEF SyncEvents, RecordEvents, RecordsQueued
<1>2. (Underway' <=> Underway) /\ (OneMayFollow' <=> OneMayFollow)
  BY <1>1 DEF Underway, OneMayFollow
<1>3. RecordsQueued \in Nat
  BY RecordsCounted
<1>4. RecordsQueued' + One(Handling') + One(OneMayFollow')
        <= RecordsQueued + One(Handling) + One(OneMayFollow)
  BY <1>1, <1>2, <1>3 DEF One
<1> QED
  BY <1>2, <1>4, TimeKept

\* Or one in which somebody pushes an event that is no record and no Sync.
LEMMA TimePush ==
  ASSUME TypeOK, TypeOK', TimeInv, NEW e \in Events, Pushed(e), e.type \notin {"Record", "Sync"},
         main' = main, requestSync' = requestSync, waiting' = waiting,
         rec'.pc = "notify" <=> rec.pc = "notify",
         rec'.pc \in {"read", "lock", "push"} => rec.pc \in {"read", "lock", "push"}
  PROVE  TimeInv'
<1>1. closed' = closed /\ (Closing' <=> Closing) /\ (Handling' <=> Handling) /\ (InSync' <=> InSync)
  BY DEF Pushed, Closing, Handling, InSync
<1>2. SyncEvents' = SyncEvents
  BY PushOther
<1>3. ~closed => RecordsQueued' = RecordsQueued
  BY PushCounts, RecordsCounted DEF One
<1>4. RecordsQueued \in Nat
  BY RecordsCounted
<1>5. (Underway' <=> Underway) /\ (OneMayFollow' => OneMayFollow)
  BY <1>1, <1>2 DEF Underway, OneMayFollow
<1>6. ~closed' => RecordsQueued' + One(Handling') + One(OneMayFollow')
                    <= RecordsQueued + One(Handling) + One(OneMayFollow)
  BY <1>1, <1>3, <1>4, <1>5 DEF One
<1> QED
  BY <1>1, <1>5, <1>6, TimeKept DEF TimeInv

\* The main thread takes an event that is no Sync.
LEMMA TimePop ==
  ASSUME TypeOK, TypeOK', TimeInv, NEW type, type # "Sync", Handles(type),
         rec' = rec, requestSync' = requestSync, waiting' = waiting,
         InSync' <=> InSync, Handling' => type = "Record", ~Closing'
  PROVE  TimeInv'
<1>1. ~closed /\ closed' = closed
  BY DEF Handles
<1>2. SyncEvents' = {} <=> SyncEvents = {}
  BY PopOther
<1>3. RecordsQueued = RecordsQueued' + One(type = "Record") /\ RecordsQueued' \in Nat
  BY PopCounts
<1>4. (Underway' <=> Underway) /\ (OneMayFollow' <=> OneMayFollow)
  BY <1>2 DEF Underway, OneMayFollow
<1>5. ~Handling
  BY DEF Handles, Handling
<1>6. RecordsQueued' + One(Handling') + One(OneMayFollow')
        <= RecordsQueued + One(Handling) + One(OneMayFollow)
  <2>1. CASE type = "Record"
    <3>1. RecordsQueued = RecordsQueued' + 1 /\ RecordsQueued' \in Nat
      BY <1>3, <2>1 DEF One
    <3> QED
      BY <1>4, <1>5, <2>1, <3>1, Ones
  <2>2. CASE type # "Record"
    <3>0. One(type = "Record") = 0
      BY <2>2 DEF One
    <3>1. RecordsQueued = RecordsQueued' /\ RecordsQueued' \in Nat
      BY <1>3, <3>0
    <3> QED
      BY <1>4, <1>5, <2>2, <3>1, Ones
  <2> QED
    BY <2>1, <2>2
<1> QED
  BY <1>1, <1>4, <1>6, TimeKept

\* A request counts the record that makes it; the end of the sync counts anew.
LEMMA MainInTime == IInv /\ TypeOK' /\ TimeInv /\ Main => TimeInv'
<1> SUFFICES ASSUME IInv, TypeOK', TimeInv, Main PROVE TimeInv'
  OBVIOUS
<1>0. TypeOK /\ SyncOwnsLock
  BY DEF IInv
<1>1. CASE TakeRecord
  <2>1. (InSync' <=> InSync) /\ ~Closing'
    BY <1>1 DEF TakeRecord, Handles, InSync, Closing
  <2> QED
    BY <1>0, <1>1, <2>1, TimePop DEF TakeRecord, recordVars
<1>2. CASE HandleRecord
  <2>1. /\ queue' = queue /\ closed' = closed /\ rec' = rec
        /\ Handling /\ ~Handling' /\ ~Closing' /\ (InSync' <=> InSync)
    BY <1>2 DEF HandleRecord, events, recordVars, Handling, Closing, InSync
  <2>2. SyncEvents' = SyncEvents /\ RecordsQueued' = RecordsQueued
    BY <2>1 DEF SyncEvents, RecordEvents, RecordsQueued
  <2>3. OneMayFollow' <=> OneMayFollow
    BY <2>1, <2>2 DEF OneMayFollow
  <2>4. PICK ask \in BOOLEAN :
          /\ requestSync' = (requestSync \/ ask)
          /\ waiting' = IF waiting > 0 THEN waiting + 1 ELSE IF ask THEN 1 ELSE 0
    BY <1>2 DEF HandleRecord
  <2>5. /\ RecordsQueued \in Nat /\ RecordsQueued <= QueueSize
        /\ waiting \in Nat /\ QueueSize \in Nat \ {0}
    BY <1>0, RecordsCounted, StreamApplicationAssumption DEF TypeOK
  <2>6. Underway' <=> Underway \/ ask
    BY <2>1, <2>2, <2>4 DEF Underway
  <2>7. waiting' > 0 <=> waiting > 0 \/ ask
    BY <2>4, <2>5
  <2>8. waiting' + One(Handling') <= QueueSize + 2
    BY <2>1, <2>4, <2>5 DEF TimeInv, One
  <2>9. ~closed /\ waiting' > 0 =>
          waiting' + RecordsQueued' + One(Handling') + One(OneMayFollow') <= QueueSize + 2
    BY <2>1, <2>2, <2>3, <2>4, <2>5 DEF TimeInv, One
  <2> QED
    BY <2>1, <2>6, <2>7, <2>8, <2>9 DEF TimeInv, One
<1>3. CASE HandleOther
  <2>1. (InSync' <=> InSync) /\ ~Closing' /\ ~Handling'
    BY <1>3 DEF HandleOther, Handles, InSync, Closing, Handling
  <2> QED
    BY <1>0, <1>3, <2>1, TimePop DEF HandleOther, recordVars
<1>4. CASE HandleAnswer
  <2>1. (InSync' <=> InSync) /\ ~Closing' /\ ~Handling'
    BY <1>4 DEF HandleAnswer, Handles, Looped, InSync, Closing, Handling
  <2> QED
    BY <1>0, <1>4, <2>1, TimePop DEF HandleAnswer, recordVars
<1>5. CASE HandleDisconnect
  <2>1. (InSync' <=> InSync) /\ ~Closing' /\ ~Handling'
    BY <1>5 DEF HandleDisconnect, Handles, Looped, InSync, Closing, Handling
  <2> QED
    BY <1>0, <1>5, <2>1, TimePop DEF HandleDisconnect, recordVars
<1>6. CASE HandleClose
  <2>1. (InSync' <=> InSync) /\ ~Closing' /\ ~Handling'
    BY <1>6 DEF HandleClose, Handles, InSync, Closing, Handling
  <2> QED
    BY <1>0, <1>6, <2>1, TimePop DEF HandleClose, recordVars
<1>7. CASE StartSync
  <2>1. /\ rec' = rec /\ waiting' = waiting /\ closed' = closed /\ Handles("Sync")
        /\ InSync' /\ ~Closing' /\ ~Handling' /\ ~Freed
    BY <1>7 DEF StartSync, Handles, InSync, Closing, Handling, recordVars, Freed
  <2>2. SyncEvents # {}
    BY <1>0, <2>1, PopSync DEF SyncOwnsLock, OneSync
  <2>3. Underway /\ Underway' /\ ~OneMayFollow'
    BY <2>1, <2>2 DEF Underway, OneMayFollow
  <2>4. RecordsQueued' = RecordsQueued /\ RecordsQueued' \in Nat
    BY <1>0, <2>1, PopCounts DEF One
  <2>5. RecordsQueued' + One(Handling') + One(OneMayFollow')
          <= RecordsQueued + One(Handling) + One(OneMayFollow)
    BY <2>1, <2>3, <2>4 DEF One
  <2> QED
    BY <1>0, <2>1, <2>3, <2>5, TimeKept
<1>8. CASE SendSyncRequest
  <2>1. (InSync' <=> InSync) /\ (Handling' <=> Handling) /\ ~Closing'
    BY <1>8 DEF SendSyncRequest, InSync, Handling, Closing
  <2> QED
    BY <1>0, <1>8, <2>1, TimeQuiet DEF SendSyncRequest, events, recordVars
<1>9. CASE EndSync
  <2>1. /\ queue' = queue /\ rec' = rec /\ waiting' = 0 /\ ~requestSync'
        /\ InSync /\ ~Freed /\ ~InSync' /\ ~Handling' /\ ~Closing'
    BY <1>9 DEF EndSync, InSync, Freed, Handling, Closing, events, recordVars
  <2>2. SyncEvents' = {} /\ rec'.pc # "notify"
    BY <1>0, <2>1 DEF SyncOwnsLock, SyncEvents
  <2>3. ~Underway'
    BY <2>1, <2>2 DEF Underway
  <2> QED
    BY <2>1, <2>3, StreamApplicationAssumption DEF TimeInv, One
<1>10. CASE LeaveLoop
  <2>1. (InSync' <=> InSync) /\ (Handling' <=> Handling) /\ ~Closing'
    BY <1>10 DEF LeaveLoop, InSync, Handling, Closing
  <2> QED
    BY <1>0, <1>10, <2>1, TimeQuiet DEF LeaveLoop, events, recordVars
<1>11. CASE Disconnect
  <2>1. (InSync' <=> InSync) /\ (Handling' <=> Handling) /\ ~Closing'
    BY <1>11 DEF Disconnect, InSync, Handling, Closing
  <2> QED
    BY <1>0, <1>11, <2>1, TimeQuiet DEF Disconnect, events, recordVars
<1>12. CASE CloseQueue \/ JoinMessageThread \/ CloseStream \/ JoinRecordThread
  <2>1. /\ InSync' <=> InSync
        /\ Handling' <=> Handling
    BY <1>12 DEF CloseQueue, JoinMessageThread, CloseStream, JoinRecordThread, InSync, Handling
  <2>2. closed'
    BY <1>0, <1>12 DEF CloseQueue, JoinMessageThread, CloseStream, JoinRecordThread, events, TimeInv,
                       Closing
  <2> QED
    BY <1>0, <1>12, <2>1, <2>2, TimeQuiet
      DEF CloseQueue, JoinMessageThread, CloseStream, JoinRecordThread, events, recordVars
<1> QED
  BY <1>1, <1>2, <1>3, <1>4, <1>5, <1>6, <1>7, <1>8, <1>9, <1>10, <1>11, <1>12 DEF Main

\* The record thread stores at most one record before it notices the request.
LEMMA RecordThreadInTime == IInv /\ TypeOK' /\ TimeInv /\ RecordThreadStep => TimeInv'
<1> SUFFICES ASSUME IInv, TypeOK', TimeInv, RecordThreadStep PROVE TimeInv'
  OBVIOUS
<1>0. TypeOK /\ SyncOwnsLock /\ (~closed => ~Freed)
  BY DEF IInv, TimeInv, Closing, Freed
<1>1. main' = main /\ waiting' = waiting /\ closed' = closed
  BY DEF RecordThreadStep, ReadRecord, LockRecords, PushRecord, SyncRequested,
         UnlockRecords, PushSync, PushFinished, PushClose, Rest, Pushed, events
<1>2. (InSync' <=> InSync) /\ (Handling' <=> Handling) /\ (Closing' => closed')
  BY <1>1 DEF InSync, Handling, Closing, TimeInv
<1>3. RecordsQueued \in Nat /\ waiting \in Nat
  BY <1>0, RecordsCounted DEF TypeOK
<1>4. queue' = queue => SyncEvents' = SyncEvents /\ RecordsQueued' = RecordsQueued
  BY DEF SyncEvents, RecordsQueued, RecordEvents
<1>5. \A type \in EventTypes : Event(type) \in Events /\ Event(type).type = type
  BY DEF Event, Events
<1>6. CASE ReadRecord \/ LockRecords
  <2>1. /\ queue' = queue /\ requestSync' = requestSync
        /\ rec.pc \in {"read", "lock", "push"} /\ rec'.pc # "notify"
    BY <1>0, <1>6 DEF ReadRecord, LockRecords, RecordThread, Rest, events, TypeOK
  <2>2. (Underway' <=> Underway) /\ (OneMayFollow' => OneMayFollow)
    BY <1>2, <1>4, <2>1 DEF Underway, OneMayFollow
  <2>3. RecordsQueued' + One(Handling') + One(OneMayFollow')
          <= RecordsQueued + One(Handling) + One(OneMayFollow)
    BY <1>2, <1>3, <1>4, <2>1, <2>2 DEF One
  <2> QED
    BY <1>0, <1>1, <1>2, <2>2, <2>3, TimeKept
<1>7. CASE PushRecord
  <2>1. /\ Pushed(Event("Record")) /\ requestSync' = requestSync
        /\ rec.pc = "push" /\ rec'.pc = "check"
    BY <1>7 DEF PushRecord
  <2>2. SyncEvents' = SyncEvents
    BY <1>0, <1>5, <2>1, PushOther DEF EventTypes
  <2>3. (Underway' <=> Underway) /\ ~OneMayFollow'
    BY <1>2, <2>1, <2>2 DEF Underway, OneMayFollow
  <2>4. ASSUME ~closed
        PROVE  RecordsQueued' + One(Handling') + One(OneMayFollow')
                 <= RecordsQueued + One(Handling) + One(OneMayFollow)
    <3>1. OneMayFollow
      BY <1>0, <2>1, <2>4 DEF SyncOwnsLock, InStore, OneMayFollow
    <3>2. RecordsQueued' = RecordsQueued + 1
      BY <1>0, <1>5, <2>1, <2>4, PushCounts DEF One, EventTypes
    <3> QED
      BY <1>2, <1>3, <2>3, <3>1, <3>2 DEF One
  <2> QED
    BY <1>0, <1>1, <1>2, <2>3, <2>4, TimeKept
<1>8. CASE SyncRequested
  <2>1. queue' = queue /\ requestSync /\ rec'.pc = "notify"
    BY <1>0, <1>8 DEF SyncRequested, SyncDue, RecordThread, events, TypeOK
  <2>2. Underway /\ Underway' /\ ~OneMayFollow'
    BY <2>1 DEF Underway, OneMayFollow
  <2>3. RecordsQueued' + One(Handling') + One(OneMayFollow')
          <= RecordsQueued + One(Handling) + One(OneMayFollow)
    BY <1>2, <1>3, <1>4, <2>1, <2>2 DEF One
  <2> QED
    BY <1>0, <1>1, <1>2, <2>2, <2>3, TimeKept
<1>9. CASE UnlockRecords
  <2>1. /\ queue' = queue /\ ~requestSync /\ ~requestSync' /\ rec.pc = "check"
        /\ rec'.pc \in {"read", "ended"}
    BY <1>0, <1>9 DEF UnlockRecords, SyncDue, AfterStore, RecordThread, events, TypeOK
  <2>2. ~closed => ~Underway /\ ~Underway'
    BY <1>0, <1>2, <1>4, <2>1 DEF Underway, SyncOwnsLock, InStore
  <2> QED
    BY <1>0, <1>1, <1>2, <1>3, <2>2, TimeKept DEF TimeInv
<1>10. CASE PushSync
  <2>1. Pushed(Event("Sync")) /\ rec.pc = "notify"
    BY <1>10 DEF PushSync
  <2>2. ASSUME ~closed PROVE SyncEvents' # {}
    BY <1>0, <2>1, <2>2, PushFirstSync DEF SyncOwnsLock
  <2>3. ~closed => Underway /\ Underway' /\ ~OneMayFollow'
    BY <2>1, <2>2 DEF Underway, OneMayFollow
  <2>4. ASSUME ~closed
        PROVE  RecordsQueued' + One(Handling') + One(OneMayFollow')
                 <= RecordsQueued + One(Handling) + One(OneMayFollow)
    <3>1. RecordsQueued' = RecordsQueued
      BY <1>0, <1>3, <1>5, <2>1, <2>4, PushCounts DEF One, EventTypes
    <3> QED
      BY <1>2, <1>3, <2>3, <2>4, <3>1 DEF One
  <2> QED
    BY <1>0, <1>1, <1>2, <2>3, <2>4, TimeKept
<1>11. CASE PushFinished \/ PushClose
  <2>1. /\ Pushed(Event("AcquisitionFinished")) \/ Pushed(Event("Close"))
        /\ requestSync' = requestSync /\ rec.pc # "notify"
        /\ rec'.pc \in {"closing", "ended"}
    BY <1>0, <1>11 DEF PushFinished, PushClose, RecordThread, TypeOK
  <2> QED
    BY <1>0, <1>1, <1>5, <2>1, TimePush DEF EventTypes
<1> QED
  BY <1>6, <1>7, <1>8, <1>9, <1>10, <1>11 DEF RecordThreadStep

\* The message thread and the environment bring neither records nor syncs.
LEMMA OthersInTime ==
  IInv /\ TypeOK' /\ TimeInv /\ (MessageThreadStep \/ Environment \/ UNCHANGED vars) => TimeInv'
<1> SUFFICES ASSUME IInv, TypeOK', TimeInv, MessageThreadStep \/ Environment \/ UNCHANGED vars
             PROVE  TimeInv'
  OBVIOUS
<1>0. TypeOK
  BY DEF IInv
<1>1. /\ main' = main /\ waiting' = waiting /\ rec' = rec /\ requestSync' = requestSync
      /\ closed => closed'
  BY DEF MessageThreadStep, ReadMessage, PushMessage, ConnectionLost, PushDisconnect, Reconnect,
         DatabaseBack, PushReconnect, Others, Environment, MasterAnswers, MasterSends,
         LoseConnection, DatabaseReturns, Exit, ExitCloses, Stay, Notifies, Pushed, events,
         recordVars, vars
<1>2. /\ \A type \in EventTypes : Event(type) \in Events /\ Event(type).type = type
      /\ reader.msg \in Events /\ reader.msg.type \notin {"Record", "Sync"}
  BY <1>0 DEF Event, Events, TypeOK, FromMaster, EventTypes
<1>3. CASE queue' = queue
  BY <1>0, <1>1, <1>3, TimeQuiet DEF InSync, Handling, Closing, TimeInv
<1>4. CASE PushMessage
  BY <1>0, <1>1, <1>2, <1>4, TimePush DEF PushMessage
<1>5. CASE PushDisconnect
  BY <1>0, <1>1, <1>2, <1>5, TimePush DEF PushDisconnect, Notifies, EventTypes
<1>6. CASE PushReconnect
  BY <1>0, <1>1, <1>2, <1>6, TimePush DEF PushReconnect, EventTypes
<1> QED
  BY <1>3, <1>4, <1>5, <1>6 DEF MessageThreadStep, ReadMessage, ConnectionLost, Reconnect,
            DatabaseBack, Others, Environment, MasterAnswers, MasterSends,
            LoseConnection, DatabaseReturns, Exit, ExitCloses, Stay, events, vars

\* No record is handled before the first request, and the queue is open.
LEMMA InitInTime == Init => TimeInv
<1> SUFFICES ASSUME Init PROVE TimeInv
  OBVIOUS
<1>1. SyncEvents = {} /\ ~InSync /\ ~Handling /\ ~Closing /\ ~requestSync /\ rec.pc = "read"
      /\ waiting = 0
  BY DEF Init, SyncEvents, InSync, Handling, Closing
<1> QED
  BY <1>1, StreamApplicationAssumption DEF TimeInv, Underway, One

\* When a handler of records asks for a sync, at most the records in the queue, the one
\* that is being stored and the one that asked are handled before the sync has ended,
\* for any size of the queue.
THEOREM SyncsAreInTime == Spec => []SyncInTime
<1>1. Init => IInv /\ TimeInv
  BY InitTyped, InitInTime DEF IInv
<1>2. IInv /\ TimeInv /\ [Next]_vars => IInv' /\ TimeInv'
  <2>1. IInv /\ [Next]_vars => IInv' /\ TypeOK'
    BY Inductive DEF IInv
  <2> QED
    BY <2>1, MainInTime, RecordThreadInTime, OthersInTime DEF Next
<1>3. IInv /\ TimeInv => SyncInTime
  BY StreamApplicationAssumption DEF IInv, TypeOK, TimeInv, SyncInTime, One
<1> QED
  BY <1>1, <1>2, <1>3, PTL DEF Spec
=============================================================================
