------------------------------- MODULE Master -------------------------------
(***************************************************************************)
(* scmaster (trunk/apps/messaging/scmaster/master.cpp, scmaster.cpp,       *)
(* clientdb.cpp, plugins/dbplugin.cpp): the relay every message of a       *)
(* SeisComP system passes through.  Three threads form a pipeline:         *)
(*                                                                         *)
(*   listen --mq--> run --nq--> plugin --> database, then all clients      *)
(*                   \--> answers to service messages, client registry     *)
(*                                                                         *)
(* A fourth process, "signal", is the SIGTERM handler.  It runs stop() on  *)
(* top of one of the three threads, the host, which is suspended with      *)
(* whatever mutexes it holds until the handler ends the process.           *)
(*                                                                         *)
(* The two queues are Client::ThreadedQueue and behave as ClosableQueue    *)
(* says, which the ring buffer is shown to implement in ThreadedQueue.     *)
(***************************************************************************)
EXTENDS Integers, Sequences, FiniteSets

CONSTANTS Clients,        \* private groups that clients connect with
          SignalHosts,    \* the threads the signal may be delivered to
          Kinds,          \* the kinds of message that arrive
          MqSize, NqSize, \* capacities of _messageQueue, _networkMessageQueue
          Notifiers,      \* notifiers in a data message
          Oversized,      \* ids of the requests whose answer is too long to send
          QueryErrors,    \* whether the database may refuse a query
          PluginFails,    \* whether a plugin may return false from process()
          MaxMessages,    \* bound: messages that arrive
          MaxBreaks,      \* bound: times the session with the daemon is lost
          MaxDbLosses,    \* bound: times the database connection is lost
          None

Workers == {"listen", "run", "plugin"}
Threads == Workers \cup {"signal"}

\* "query" stands for every service message that is answered and changes
\* nothing: LIST, state of health, rejected connects and commands.
ServiceKinds == {"connect", "leave", "expel", "query"}
DataKinds    == {"data", "sync"}
Messages == [kind : ServiceKinds \cup DataKinds, who : Clients, id : 1..MaxMessages]
Letters  == {"data", "syncReply", "ok", "service", "expel", "reply", "farewell"}

ASSUME ConstantAssumption ==
  /\ SignalHosts \subseteq Workers
  /\ Kinds \subseteq ServiceKinds \cup DataKinds
  /\ MqSize \in Nat \ {0} /\ NqSize \in Nat \ {0}
  /\ Notifiers \in Nat /\ Oversized \subseteq Nat
  /\ QueryErrors \in BOOLEAN /\ PluginFails \in BOOLEAN
  /\ MaxMessages \in Nat /\ MaxBreaks \in Nat /\ MaxDbLosses \in Nat
  /\ None \notin Messages \cup Letters \cup Threads

VARIABLES
  pc,             \* pc[t]: where thread t is
  msg,            \* msg[t]: the message thread t has taken out of a queue
  letter,         \* letter[t]: what thread t is sending
  host,           \* the thread the signal handler runs on
  running,        \* _isRunning
  exited,         \* the process has ended
  mq, mqClosed,   \* _messageQueue
  nq, nqClosed,   \* _networkMessageQueue
  sendMutex,      \* owner of _sendMutex
  reconnectMutex, \* owner of _reconnectMutex
  session,        \* the session with the spread daemon
  connected,      \* SpreadDriver::_isConnected
  db,             \* the connection of the database plugin: open, lost or closed
  operational,    \* MasterPluginInterface::_operational
  todo,           \* notifiers of msg["plugin"] that process() has to handle
  stored,         \* stored[i]: notifiers of message i that were written
  errors,         \* errors[i]: what message i has added to _errors
  clients,        \* _clientDB
  members,        \* the clients that have joined and have not left
  due,            \* history: the clients _clientDB should know, as far as master can tell
  received,       \* history: the messages that arrived, in order
  relayed,        \* history: the ids of the data messages sent to clients
  farewell,       \* history: MASTER_DISCONNECTED_MSG has been sent
  left,           \* history: disconnect() has left the session
  breaks, dbLosses

queues   == <<mq, mqClosed, nq, nqClosed>>
mutexes  == <<sendMutex, reconnectMutex>>
link     == <<session, connected>>
database == <<db, operational, todo, stored, errors>>
registry == <<clients, members, due>>
history  == <<received, relayed, farewell, left>>
process  == <<host, running, exited>>
bounds   == <<breaks, dbLosses>>
vars == <<pc, msg, letter, process, queues, mutexes, link, database, registry,
          history, bounds>>

Init ==
  /\ pc = [listen |-> "listen", run |-> "loop", plugin |-> "nloop", signal |-> "idle"]
  /\ msg = [t \in Threads |-> None]
  /\ letter = [t \in Threads |-> None]
  /\ host = None /\ running = TRUE /\ exited = FALSE
  /\ mq = <<>> /\ mqClosed = FALSE
  /\ nq = <<>> /\ nqClosed = FALSE
  /\ sendMutex = None /\ reconnectMutex = None
  /\ session = "open" /\ connected = TRUE
  /\ db = "open" /\ operational = TRUE /\ todo = 0
  /\ stored = [i \in 1..MaxMessages |-> 0] /\ errors = [i \in 1..MaxMessages |-> 0]
  /\ clients = <<>> /\ members = {} /\ due = {}
  /\ received = <<>> /\ relayed = <<>> /\ farewell = FALSE /\ left = FALSE
  /\ breaks = 0 /\ dbLosses = 0

\* The handler runs on the stack of its host; compare a handler that would only
\* wake a thread of its own.
NotSuspended(t) == FALSE
Suspended(t)    == t = host
At(t, label) == pc[t] = label /\ ~Suspended(t) /\ ~exited
Go(t, label) == pc' = [pc EXCEPT ![t] = label]
Hold(t, m)   == msg' = [msg EXCEPT ![t] = m]

\* A mutex can be taken, a queue has room, a failed send is repeated, the plugin
\* thread takes another message; for comparison a capacity off by one, a send tried
\* once, a plugin thread that ignores stop().
Free(mutex) == mutex = None
RoomForOneMore(q, size) == Len(q) <= size
Room(q, size)           == Len(q) < size
TriesOnce   == FALSE
KeepsTrying == running
IgnoresStop   == TRUE
KeepsRelaying == running

\* Where a thread continues after sendRaw() and after reconnect().
AfterSend(l) ==
  CASE l \in {"data", "syncReply"} -> "nloop"
    [] l = "ok"       -> "provide"
    [] l = "service"  -> "register"
    [] l = "expel"    -> "remove"
    [] l = "reply"    -> "loop"
    [] l = "farewell" -> "leave"
AfterReconnect(t) == IF t = "listen" THEN "listen" ELSE "sending"

Post(t, l) ==
  /\ letter' = [letter EXCEPT ![t] = l]
  /\ Go(t, "send")
-----------------------------------------------------------------------------
\* SpreadDriver: connect(), disconnect() and handleError()

OpenSession  == session' = "open" /\ connected' = TRUE
CloseSession == session' = "closed" /\ connected' = FALSE
HandleError  == connected' = FALSE
-----------------------------------------------------------------------------
\* The messages the threads in front of the plugin have taken over.
HeldBy(t, idle) == IF pc[t] \in idle THEN <<>> ELSE <<msg[t]>>
ListenHolds == IF pc["listen"] = "queue" THEN <<msg["listen"]>> ELSE <<>>
RunHolds    == HeldBy("run", {"loop", "pop", "return"})

Pending(kind, c) ==
  LET waiting == RunHolds \o mq \o ListenHolds
  IN  \E i \in 1..Len(waiting) : waiting[i].kind = kind /\ waiting[i].who = c

\* _clientDB.clear(), and for comparison without it.
NotEmptied == clients
Emptied    == <<>>

\* reconnect(): the registry is emptied for the new session, whose clients connect
\* anew, but a connect of the old session that waits for run() is still handled.
TakeReconnect(t) ==
  /\ At(t, "reconnect")
  /\ Free(reconnectMutex)
  /\ IF connected
       THEN /\ Go(t, AfterReconnect(t))
            /\ UNCHANGED <<reconnectMutex, session, clients, due>>
       ELSE /\ Go(t, "connecting")
            /\ reconnectMutex' = t
            /\ session' = "closed"
            /\ clients' = Emptied
            /\ due' = {c \in Clients : Pending("connect", c)}
  /\ UNCHANGED <<msg, letter, process, queues, sendMutex, connected, database,
                 members, history, bounds>>

\* connect() succeeds, or it fails and the loop ends because of stop().
LeaveReconnect(t) ==
  /\ At(t, "connecting")
  /\ \/ OpenSession
     \/ ~running /\ UNCHANGED link
  /\ reconnectMutex' = None
  /\ Go(t, AfterReconnect(t))
  /\ UNCHANGED <<msg, letter, process, queues, sendMutex, database, registry,
                 history, bounds>>

-----------------------------------------------------------------------------
\* sendRaw()

TakeSend(t) ==
  /\ At(t, "send")
  /\ Free(sendMutex)
  /\ sendMutex' = t
  /\ Go(t, "sending")
  /\ UNCHANGED <<msg, letter, process, queues, reconnectMutex, link, database,
                 registry, history, bounds>>

\* Leaving sendRaw(), and for comparison without releasing the mutex.
FinishLocked(t) ==
  /\ UNCHANGED sendMutex
  /\ letter' = [letter EXCEPT ![t] = None]
  /\ Go(t, AfterSend(letter[t]))
FinishSend(t) ==
  /\ sendMutex' = None
  /\ letter' = [letter EXCEPT ![t] = None]
  /\ Go(t, AfterSend(letter[t]))

\* The answer to a request may list more clients than fit into a message.
TooLong(t) == letter[t] = "reply" /\ msg[t].id \in Oversized

Sent(t) ==
  /\ At(t, "sending")
  /\ session = "open" /\ ~TooLong(t)
  /\ relayed' = IF letter[t] = "data" THEN Append(relayed, msg[t].id) ELSE relayed
  /\ farewell' = (farewell \/ letter[t] = "farewell")
  /\ FinishSend(t)
  /\ UNCHANGED <<msg, process, queues, reconnectMutex, link, database, registry,
                 received, left, bounds>>

SendFails(t) ==
  /\ At(t, "sending")
  /\ session # "open" /\ ~TooLong(t)
  /\ Go(t, "sendFailed")
  /\ UNCHANGED <<msg, letter, process, queues, mutexes, link, database, registry,
                 history, bounds>>

\* The driver refuses a message that is too long whatever the session is, and
\* sendRaw() asks it again for as long as the master runs.
SendTooLong(t) ==
  /\ At(t, "sending") /\ TooLong(t)
  /\ \/ ~running /\ FinishSend(t)
     \/ running /\ ~connected /\ Go(t, "reconnect") /\ UNCHANGED <<sendMutex, letter>>
  /\ UNCHANGED <<msg, process, queues, reconnectMutex, link, database, registry,
                 history, bounds>>

\* handleError() notes the loss, possibly of a session that another thread has
\* opened in the meantime; the send is given up only if the master stops.
SendRetry(t) ==
  /\ At(t, "sendFailed")
  /\ HandleError
  /\ IF KeepsTrying
       THEN Go(t, "reconnect") /\ UNCHANGED <<sendMutex, letter>>
       ELSE FinishSend(t)
  /\ UNCHANGED <<msg, process, queues, reconnectMutex, session, database, registry,
                 history, bounds>>

-----------------------------------------------------------------------------
\* listen()

ListenLoop ==
  /\ At("listen", "listen")
  /\ Go("listen", IF running THEN "receive" ELSE "done")
  /\ UNCHANGED <<msg, letter, process, queues, mutexes, link, database, registry,
                 history, bounds>>

\* A client connects with a private group of its own and leaves once.
Joined(c) == \E i \in 1..Len(received) : received[i].kind = "connect" /\ received[i].who = c
MayArrive(m) ==
  CASE m.kind = "connect" -> ~Joined(m.who)
    [] m.kind = "leave"   -> m.who \in members
    [] OTHER -> TRUE

Receive ==
  /\ At("listen", "receive")
  /\ session = "open"
  /\ Len(received) < MaxMessages
  /\ \E m \in Messages :
       /\ m.kind \in Kinds /\ m.id = Len(received) + 1
       /\ MayArrive(m)
       /\ Hold("listen", m)
       /\ received' = Append(received, m)
       /\ members' = CASE m.kind = "connect" -> members \cup {m.who}
                       [] m.kind = "leave"   -> members \ {m.who}
                       [] OTHER -> members
       /\ due' = IF m.kind = "connect" THEN due \cup {m.who} ELSE due
  /\ Go("listen", "queue")
  /\ UNCHANGED <<letter, process, queues, mutexes, link, database, clients,
                 relayed, farewell, left, bounds>>

ReceiveFails ==
  /\ At("listen", "receive")
  /\ session # "open"
  /\ Go("listen", "receiveFailed")
  /\ UNCHANGED <<msg, letter, process, queues, mutexes, link, database, registry,
                 history, bounds>>

\* handleError(), and reconnect() whether or not the master is running.
ListenRetry ==
  /\ At("listen", "receiveFailed")
  /\ HandleError
  /\ Go("listen", "reconnect")
  /\ UNCHANGED <<msg, letter, process, queues, mutexes, session, database, registry,
                 history, bounds>>

QueueMessage ==
  /\ At("listen", "queue")
  /\ \/ /\ mqClosed
        /\ Go("listen", "done")
        /\ UNCHANGED mq
     \/ /\ ~mqClosed /\ Room(mq, MqSize)
        /\ mq' = Append(mq, msg["listen"])
        /\ Go("listen", "listen")
  /\ Hold("listen", None)
  /\ UNCHANGED <<letter, process, mqClosed, nq, nqClosed, mutexes, link, database,
                 registry, history, bounds>>

-----------------------------------------------------------------------------
\* run()

RunLoop ==
  /\ At("run", "loop")
  /\ Go("run", IF running THEN "pop" ELSE "return")
  /\ Hold("run", None)
  /\ UNCHANGED <<letter, process, queues, mutexes, link, database, registry,
                 history, bounds>>

\* pop() throws: the plugin thread is told to end and the loop is left.
RunClosed ==
  /\ At("run", "pop")
  /\ mqClosed
  /\ nqClosed' = TRUE
  /\ Go("run", "return")
  /\ UNCHANGED <<msg, letter, process, mq, mqClosed, nq, mutexes, link, database,
                 registry, history, bounds>>

InDB(c) == \E i \in 1..Len(clients) : clients[i] = c

RunPop ==
  /\ At("run", "pop")
  /\ ~mqClosed /\ mq # <<>>
  /\ Hold("run", Head(mq))
  /\ mq' = Tail(mq)
  /\ LET m == Head(mq) IN
     CASE m.kind \in DataKinds -> Go("run", "forward") /\ UNCHANGED letter
       [] m.kind = "leave"     -> Go("run", "remove") /\ UNCHANGED letter
       [] m.kind = "connect"   -> Post("run", "ok")
       [] m.kind = "query"     -> Post("run", "reply")
       [] m.kind = "expel"     -> Post("run", IF InDB(m.who) THEN "expel" ELSE "reply")
  /\ UNCHANGED <<process, mqClosed, nq, nqClosed, mutexes, link, database, registry,
                 history, bounds>>

Forward ==
  /\ At("run", "forward")
  /\ \/ /\ nqClosed
        /\ Go("run", "return")
        /\ UNCHANGED nq
     \/ /\ ~nqClosed /\ Room(nq, NqSize)
        /\ nq' = Append(nq, msg["run"])
        /\ Go("run", "loop")
  /\ Hold("run", None)
  /\ UNCHANGED <<letter, process, mq, mqClosed, nqClosed, mutexes, link, database,
                 registry, history, bounds>>

\* After the acknowledgment the new client is told the address of the database.
Provide ==
  /\ At("run", "provide")
  /\ Post("run", "service")
  /\ UNCHANGED <<msg, process, queues, mutexes, link, database, registry,
                 history, bounds>>

Register ==
  /\ At("run", "register")
  /\ clients' = Append(clients, msg["run"].who)
  /\ Go("run", "loop")
  /\ UNCHANGED <<msg, letter, process, queues, mutexes, link, database, members, due,
                 history, bounds>>

\* _clientDB without the first entry of c, if it has one.
Removed(c) ==
  IF ~InDB(c) THEN clients
  ELSE LET i == CHOOSE k \in 1..Len(clients) :
                  clients[k] = c /\ \A j \in 1..(k - 1) : clients[j] # c
       IN  SubSeq(clients, 1, i - 1) \o SubSeq(clients, i + 1, Len(clients))

Remove ==
  /\ At("run", "remove")
  /\ clients' = Removed(msg["run"].who)
  /\ Go("run", "loop")
  /\ UNCHANGED <<msg, letter, process, queues, mutexes, link, database, members, due,
                 history, bounds>>

\* An expulsion names the client by a string of its entry in the registry.  The
\* entry is gone if the registry has been emptied during the send, and in any case
\* before removeClientFromDB() returns, which reads the string once more.
ExpelCrashes ==
  /\ At("run", "remove") /\ msg["run"].kind = "expel"
  /\ exited' = TRUE
  /\ UNCHANGED <<pc, msg, letter, host, running, queues, mutexes, link, database,
                 registry, history, bounds>>

\* start() returns, and with it main().
RunReturn ==
  /\ At("run", "return")
  /\ exited' = TRUE
  /\ UNCHANGED <<pc, msg, letter, host, running, queues, mutexes, link, database,
                 registry, history, bounds>>

-----------------------------------------------------------------------------
\* processNetworkMessages() and DbPlugin::process()

PluginLoop ==
  /\ At("plugin", "nloop")
  /\ Go("plugin", IF KeepsRelaying THEN "npop" ELSE "done")
  /\ Hold("plugin", None)
  /\ UNCHANGED <<letter, process, queues, mutexes, link, database, registry,
                 history, bounds>>

PluginPop ==
  /\ At("plugin", "npop")
  /\ \/ /\ nqClosed
        /\ Go("plugin", "done")
        /\ UNCHANGED <<msg, nq, todo>>
     \/ /\ ~nqClosed /\ nq # <<>>
        /\ Hold("plugin", Head(nq))
        /\ nq' = Tail(nq)
        /\ todo' = IF Head(nq).kind = "data" THEN Notifiers ELSE 0
        /\ Go("plugin", "write")
  /\ UNCHANGED <<letter, process, mq, mqClosed, nqClosed, mutexes, link, db,
                 operational, stored, errors, registry, history, bounds>>

Write ==
  /\ At("plugin", "write")
  /\ todo > 0 /\ db = "open"
  /\ todo' = todo - 1
  /\ stored' = [stored EXCEPT ![msg["plugin"].id] = @ + 1]
  /\ UNCHANGED <<pc, msg, letter, process, queues, mutexes, link, db, operational,
                 errors, registry, history, bounds>>

WriteRefused ==
  /\ At("plugin", "write")
  /\ todo > 0 /\ db = "open" /\ QueryErrors
  /\ Go("plugin", "failed")
  /\ UNCHANGED <<msg, letter, process, queues, mutexes, link, database, registry,
                 history, bounds>>

\* Without a connection the query fails, or the driver gets a new one for it.
WriteFails ==
  /\ At("plugin", "write")
  /\ todo > 0 /\ db # "open"
  /\ \/ Go("plugin", "failed") /\ UNCHANGED db
     \/ db = "lost" /\ db' = "open" /\ UNCHANGED pc
  /\ UNCHANGED <<msg, letter, process, queues, mutexes, link, operational, todo, stored,
                 errors, registry, history, bounds>>

\* _db->isConnected() asks the server, and the drivers connect again in it.  If there
\* is a connection the query is taken for wrong, counted and passed over ...
PassOver ==
  /\ At("plugin", "failed")
  /\ db # "closed"
  /\ db' = "open"
  /\ todo' = todo - 1
  /\ errors' = [errors EXCEPT ![msg["plugin"].id] = @ + 1]
  /\ Go("plugin", "write")
  /\ UNCHANGED <<msg, letter, process, queues, mutexes, link, operational, stored,
                 registry, history, bounds>>

\* ... and else the plugin connects.
NotConnected ==
  /\ At("plugin", "failed")
  /\ db # "open"
  /\ Go("plugin", "dbConnect")
  /\ UNCHANGED <<msg, letter, process, queues, mutexes, link, database, registry,
                 history, bounds>>

\* while ( !connectToDb() ): returns connected, or because of stop().
DbConnect ==
  /\ At("plugin", "dbConnect")
  /\ Go("plugin", "dbConnected")
  /\ db' = IF operational THEN "open" ELSE db
  /\ UNCHANGED <<msg, letter, process, queues, mutexes, link, operational, todo, stored,
                 errors, registry, history, bounds>>

\* The notifiers left after a reconnect: once the plugin is not operational the
\* notifier is given up.  For comparison, one that is given up without an error.
PassedOver == todo - 1
TriedAgain == IF operational THEN todo ELSE todo - 1

DbConnected ==
  /\ At("plugin", "dbConnected")
  /\ todo' = TriedAgain
  /\ Go("plugin", "write")
  /\ UNCHANGED <<msg, letter, process, queues, mutexes, link, db, operational, stored,
                 errors, registry, history, bounds>>

\* process() returns; false stops the master, but the message is still handled.
Processed ==
  /\ At("plugin", "write")
  /\ todo = 0
  /\ \/ Go("plugin", "handled")
     \/ PluginFails /\ Go("plugin", "stop")
  /\ UNCHANGED <<msg, letter, process, queues, mutexes, link, database, registry,
                 history, bounds>>

\* A sync request is answered, any other message is relayed.
Handled ==
  /\ At("plugin", "handled")
  /\ Post("plugin", IF msg["plugin"].kind = "sync" THEN "syncReply" ELSE "data")
  /\ UNCHANGED <<msg, process, queues, mutexes, link, database, registry,
                 history, bounds>>

-----------------------------------------------------------------------------
\* signalHandler(), stop() and disconnect()

Signal ==
  /\ At("signal", "idle")
  /\ \E h \in SignalHosts : host' = h
  /\ Go("signal", "stop")
  /\ UNCHANGED <<msg, letter, running, exited, queues, mutexes, link, database, registry,
                 history, bounds>>

Stop(t) ==
  /\ At(t, "stop")
  /\ running' = FALSE
  /\ Go(t, "closeDb")
  /\ UNCHANGED <<msg, letter, host, exited, queues, mutexes, link, database, registry,
                 history, bounds>>

\* disconnectFromDb(), if isConnected() says so.
ClosePlugin(t) ==
  /\ At(t, "closeDb")
  /\ \/ db' = "closed"
     \/ db = "lost" /\ UNCHANGED db
  /\ Go(t, "disable")
  /\ UNCHANGED <<msg, letter, process, queues, mutexes, link, operational, todo, stored,
                 errors, registry, history, bounds>>

DisablePlugin(t) ==
  /\ At(t, "disable")
  /\ operational' = FALSE
  /\ Go(t, "closeMq")
  /\ UNCHANGED <<msg, letter, process, queues, mutexes, link, db, todo, stored,
                 errors, registry, history, bounds>>

CloseQueue(t) ==
  /\ At(t, "closeMq")
  /\ mqClosed' = TRUE
  /\ Post(t, "farewell")
  /\ UNCHANGED <<msg, process, mq, nq, nqClosed, mutexes, link, database, registry,
                 history, bounds>>

LeaveSession(t) ==
  /\ At(t, "leave")
  /\ CloseSession
  /\ left' = TRUE
  /\ Go(t, IF t = "signal" THEN "exit" ELSE "handled")
  /\ UNCHANGED <<msg, letter, process, queues, mutexes, database, registry, received,
                 relayed, farewell, bounds>>

\* exit(1)
Exit ==
  /\ At("signal", "exit")
  /\ exited' = TRUE
  /\ UNCHANGED <<pc, msg, letter, host, running, queues, mutexes, link, database,
                 registry, history, bounds>>

-----------------------------------------------------------------------------
\* The daemon, the clients and the database

Break ==
  /\ session = "open" /\ ~exited
  /\ breaks < MaxBreaks
  /\ session' = "broken"
  /\ breaks' = breaks + 1
  /\ UNCHANGED <<pc, msg, letter, process, queues, mutexes, connected, database, registry,
                 history, dbLosses>>

\* A client that leaves while the master has no session: nobody reports it.
LeaveUnseen ==
  /\ session # "open" /\ ~exited
  /\ \E c \in members : members' = members \ {c}
  /\ UNCHANGED <<pc, msg, letter, process, queues, mutexes, link, database, clients, due,
                 history, bounds>>

DbLost ==
  /\ db = "open" /\ ~exited
  /\ dbLosses < MaxDbLosses
  /\ db' = "lost"
  /\ dbLosses' = dbLosses + 1
  /\ UNCHANGED <<pc, msg, letter, process, queues, mutexes, link, operational, todo,
                 stored, errors, registry, history, breaks>>

-----------------------------------------------------------------------------
Listen == ListenLoop \/ ReceiveFails \/ ListenRetry \/ QueueMessage
Run    == \/ RunLoop \/ RunClosed \/ RunPop \/ Forward \/ Provide \/ Register
          \/ Remove \/ ExpelCrashes \/ RunReturn
Plugin == \/ PluginLoop \/ PluginPop \/ Write \/ WriteRefused \/ WriteFails \/ PassOver
          \/ NotConnected \/ DbConnect \/ DbConnected \/ Processed \/ Handled
Shared(t) ==
  \/ TakeReconnect(t) \/ LeaveReconnect(t)
  \/ TakeSend(t) \/ Sent(t) \/ SendFails(t) \/ SendTooLong(t) \/ SendRetry(t)
  \/ Stop(t) \/ ClosePlugin(t) \/ DisablePlugin(t) \/ CloseQueue(t) \/ LeaveSession(t)

ListenThread == Listen \/ Shared("listen")
RunThread    == Run \/ Shared("run")
PluginThread == Plugin \/ Shared("plugin")
Handler      == Exit \/ Shared("signal")

Next ==
  \/ Receive \/ Listen \/ Run \/ Plugin \/ Exit \/ Signal
  \/ \E t \in Threads : Shared(t)
  \/ Break \/ LeaveUnseen \/ DbLost

\* The operating system runs every thread that can run, and the daemon and the
\* database become reachable again.  No message has to arrive, no signal has to
\* come, and a thread that waits for a mutex is not promised to be next.
Fairness ==
  /\ WF_vars(ListenThread) /\ WF_vars(RunThread)
  /\ WF_vars(PluginThread) /\ WF_vars(Handler)

Spec == Init /\ [][Next]_vars /\ Fairness
-----------------------------------------------------------------------------
\* Data messages, and what a sequence of numbers or of messages is in order.
DataIds(s) == {s[i].id : i \in {j \in DOMAIN s : s[j].kind = "data"}}
Elems(s) == {s[i] : i \in DOMAIN s}
Increasing(s) == \A i, j \in DOMAIN s : i < j => s[i] < s[j]
IdsOf(s) == [i \in DOMAIN s |-> s[i].id]

PluginHolds == HeldBy("plugin", {"nloop", "npop", "done"})

\* The messages on their way to the clients, those that arrived first in front.
Pipeline == PluginHolds \o nq \o RunHolds \o mq \o ListenHolds

Labels ==
  {"idle", "exit", "done", "listen", "receive", "receiveFailed", "queue", "loop", "pop",
   "forward", "provide", "register", "remove", "return", "nloop", "npop", "write", "failed",
   "dbConnect", "dbConnected", "handled", "stop", "closeDb", "disable", "closeMq",
   "leave", "send", "sending", "sendFailed", "reconnect", "connecting"}

ControlTypeOK ==
  /\ pc \in [Threads -> Labels]
  /\ msg \in [Threads -> Messages \cup {None}]
  /\ letter \in [Threads -> Letters \cup {None}]
  /\ host \in Workers \cup {None} /\ running \in BOOLEAN /\ exited \in BOOLEAN
  /\ sendMutex \in Threads \cup {None} /\ reconnectMutex \in Threads \cup {None}

DataTypeOK ==
  /\ mq \in Seq(Messages) /\ Len(mq) <= MqSize /\ mqClosed \in BOOLEAN
  /\ nq \in Seq(Messages) /\ Len(nq) <= NqSize /\ nqClosed \in BOOLEAN
  /\ session \in {"open", "broken", "closed"} /\ connected \in BOOLEAN
  /\ db \in {"open", "lost", "closed"} /\ operational \in BOOLEAN /\ todo \in 0..Notifiers
  /\ stored \in [1..MaxMessages -> Nat] /\ errors \in [1..MaxMessages -> Nat]
  /\ clients \in Seq(Clients) /\ members \subseteq Clients /\ due \subseteq Clients
  /\ received \in Seq(Messages) /\ Len(received) <= MaxMessages
  /\ relayed \in Seq(1..MaxMessages)
  /\ farewell \in BOOLEAN /\ left \in BOOLEAN
  /\ breaks \in 0..MaxBreaks /\ dbLosses \in 0..MaxDbLosses

TypeOK == ControlTypeOK /\ DataTypeOK

\* One thread at a time uses the buffers of the driver to send and one at a
\* time reopens the session, and a thread that reopens it never waits for the
\* right to send: the two mutexes of the master cannot deadlock its threads.
LockDiscipline ==
  \A t \in Threads :
    /\ sendMutex = t <=>
         /\ t # "listen"
         /\ pc[t] \in {"sending", "sendFailed", "reconnect", "connecting"}
    /\ reconnectMutex = t <=> pc[t] = "connecting"

\* While the master runs, every data message that has arrived has been relayed
\* or is held by a thread or a queue of the pipeline, once and in the order of
\* arrival, whatever the session and the database go through.
NothingLost ==
  running =>
    /\ DataIds(received) = Elems(relayed) \cup DataIds(Pipeline)
    /\ Increasing(relayed \o IdsOf(Pipeline))

\* The clients see the data messages in the order of their arrival and without
\* a gap, also while the master stops.
RelayedInOrder ==
  /\ Increasing(relayed)
  /\ Elems(relayed) \subseteq DataIds(received)
  /\ \A k \in Elems(relayed) : \A i \in DataIds(received) : i < k => i \in Elems(relayed)

\* While the database plugin is not stopped, every notifier of a message that the
\* clients get is in the database or has been counted as an error of the plugin,
\* once, whenever connections are lost and come back.
WrittenOrCounted ==
  operational => \A k \in 1..Len(relayed) : stored[relayed[k]] + errors[relayed[k]] = Notifiers

\* "Before a message is distributed by scmaster the message is written to the
\* specified database" (descriptions/scmaster.rst:29-30).
StoredBeforeRelayed ==
  \A k \in 1..Len(relayed) : stored[relayed[k]] = Notifiers

\* _clientDB holds a client once, only if its connect arrived in this session or
\* was still waiting when the session before was given up, and not after its leave
\* has been handled; it holds all such members but those an administrator has
\* removed.  What the crossing of requests with the loss of the session may leave
\* behind is an entry of a client that left while there was no session.
ArrivedOf(kind, c) ==
  \E i \in 1..Len(received) : received[i].kind = kind /\ received[i].who = c
Registered ==
  \A c \in Clients :
    /\ InDB(c) => c \in due /\ (ArrivedOf("leave", c) => Pending("leave", c))
    /\ c \in members \cap due =>
         InDB(c) \/ Pending("connect", c) \/ ArrivedOf("expel", c)
RegistryExact ==
  running => Registered /\ \A i, j \in 1..Len(clients) : clients[i] = clients[j] => i = j

\* "The clients notified by the master that he will be leaving" (master.h:109):
\* a signal ends the process only after the farewell has been sent, unless the
\* session had been lost.
FarewellSent == (exited /\ host # None /\ breaks = 0) => farewell

\* Every data message is relayed in the end, if the session is closed to be reopened
\* only finitely often: the pipeline does not block.  An expulsion may end the process.
Settles == <>[][session' # "closed"]_session
EveryMessageRelayed ==
  Settles =>
    \A i \in 1..MaxMessages :
      (Len(received) >= i /\ received[i].kind = "data")
        ~> (exited \/ \E k \in 1..Len(relayed) : relayed[k] = i)

\* "Stops the server" (master.h:80): after stop() has begun the process ends.  It
\* does not if the handler waits for the mutex its own thread holds.
StopTerminates == ~running ~> exited

\* It ends if the handler did not interrupt a thread inside sendRaw().
HandlerEnds == (host # None /\ sendMutex # host) ~> exited
=============================================================================
