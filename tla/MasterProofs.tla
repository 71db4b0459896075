---------------------------- MODULE MasterProofs ----------------------------
(***************************************************************************)
(* Proofs about Master for any clients, messages, capacities and numbers   *)
(* of failures: its state keeps its type, and the two mutexes of scmaster  *)
(* are always held by the thread that the code says and by no other one.   *)
(*                                                                         *)
(* LockDiscipline is not inductive as it stands.  That a thread leaves     *)
(* sendRaw() for a place outside of it needs to know what it was sending,  *)
(* and that the listen thread never gets into sendRaw() needs to know      *)
(* where it can be at all: both are in Flow.                               *)
(*                                                                         *)
(* That the clients are told of the end is proved for a signal delivered   *)
(* to the main thread.  FarewellInv says that as long as the daemon has    *)
(* not closed the session only disconnect() does, after the farewell.      *)
(*                                                                         *)
(* The second part is about the way of the messages: none is lost while    *)
(* the master runs, none overtakes another one, and the clients see them   *)
(* without a gap, whatever fails and whenever the master is stopped.  The  *)
(* pipeline is a row of stages, from what has been relayed (0) back to     *)
(* what has just been received (5).  The invariant orders the stages and   *)
(* says of a message that is in none of them who has given it up: the      *)
(* plugin thread, and then it relays nothing any more, or a thread behind  *)
(* it, and then nothing that arrived later has gone further.               *)
(*                                                                         *)
(* Two things follow the messages through the stages: what the database    *)
(* plugin has written of each (Archived), and the registry of clients,     *)
(* which is behind what has arrived by the messages that wait (Enrolled),  *)
(* over any number of sessions.                                            *)
(***************************************************************************)
EXTENDS Master, SequenceTheorems, WellFoundedInduction, TLAPS

ListenLabels ==
  {"listen", "receive", "receiveFailed", "queue", "reconnect", "connecting", "done"}
SendLabels == {"send", "sending", "sendFailed", "reconnect", "connecting"}

\* What a thread has in its hands where it is.
Flow ==
  /\ pc["listen"] \in ListenLabels
  /\ pc["listen"] = "queue" => msg["listen"] \in Messages
  /\ pc["run"] \notin {"loop", "pop", "return"} => msg["run"] \in Messages
  /\ pc["plugin"] \notin {"nloop", "npop", "done"} => msg["plugin"] \in Messages
  /\ \A t \in Threads \ {"listen"} : pc[t] \in SendLabels => letter[t] \in Letters
  /\ letter["signal"] # "data" /\ letter["run"] # "data"
  /\ pc["plugin"] \in {"failed", "dbConnect", "dbConnected"} => todo > 0

Control == ControlTypeOK /\ LockDiscipline /\ Flow

\* The inductive invariant.
IInv == Control /\ DataTypeOK

-----------------------------------------------------------------------------
\* Where the threads are and what they hold.

\* The listen thread keeps them.
LEMMA ControlListen ==
  ASSUME IInv, Listen
  PROVE  Control'
<1>. USE ConstantAssumption DEF IInv, ControlTypeOK, LockDiscipline, Flow, Control, ListenLabels, SendLabels, Threads,
             Workers, Labels, Letters, AfterSend, AfterReconnect, Go, At, Hold, Post,
             FinishSend, Free, queues, mutexes, link, database, registry, history,
             process, bounds
<1>1. CASE ListenLoop
  BY <1>1 DEF ListenLoop
<1>2. CASE ReceiveFails
  BY <1>2 DEF ReceiveFails
<1>3. CASE ListenRetry
  BY <1>3 DEF ListenRetry, HandleError
<1>4. CASE QueueMessage
  BY <1>4 DEF QueueMessage
<1>. QED
  BY <1>1, <1>2, <1>3, <1>4 DEF Listen

\* The run thread keeps them.
LEMMA ControlRun ==
  ASSUME IInv, Run
  PROVE  Control'
<1>. USE ConstantAssumption DEF IInv, ControlTypeOK, LockDiscipline, Flow, Control, ListenLabels, SendLabels, Threads,
             Workers, Labels, Letters, AfterSend, AfterReconnect, Go, At, Hold, Post,
             FinishSend, Free, queues, mutexes, link, database, registry, history,
             process, bounds
<1>1. CASE RunLoop
  BY <1>1 DEF RunLoop
<1>2. CASE RunClosed
  BY <1>2 DEF RunClosed
<1>3. CASE RunPop
  <2>1. PICK m \in Messages : m = Head(mq)
    BY <1>3 DEF RunPop, DataTypeOK
  <2>2. m.kind \in ServiceKinds \cup DataKinds
    BY <2>1 DEF Messages
  <2>3. \/ Go("run", "forward") /\ UNCHANGED letter
        \/ Go("run", "remove") /\ UNCHANGED letter
        \/ \E l \in {"ok", "reply", "expel"} : Post("run", l)
    BY <1>3, <2>1, <2>2 DEF RunPop, ServiceKinds, DataKinds
  <2>4. /\ At("run", "pop") /\ Hold("run", m)
        /\ UNCHANGED <<process, mutexes, database>>
    BY <1>3, <2>1 DEF RunPop
  <2>. QED
    BY <2>1, <2>3, <2>4
<1>4. CASE Forward
  BY <1>4 DEF Forward
<1>5. CASE Provide
  BY <1>5 DEF Provide
<1>6. CASE Register
  BY <1>6 DEF Register
<1>7. CASE Remove
  BY <1>7 DEF Remove
<1>8. CASE ExpelCrashes
  BY <1>8 DEF ExpelCrashes
<1>9. CASE RunReturn
  BY <1>9 DEF RunReturn
<1>. QED
  BY <1>1, <1>2, <1>3, <1>4, <1>5, <1>6, <1>7, <1>8, <1>9 DEF Run

\* The plugin thread keeps them.
LEMMA ControlPlugin ==
  ASSUME IInv, Plugin
  PROVE  Control'
<1>. USE ConstantAssumption DEF IInv, ControlTypeOK, LockDiscipline, Flow, Control, ListenLabels, SendLabels, Threads,
             Workers, Labels, Letters, AfterSend, AfterReconnect, Go, At, Hold, Post,
             FinishSend, Free, queues, mutexes, link, database, registry, history,
             process, bounds
<1>1. CASE PluginLoop
  BY <1>1 DEF PluginLoop
<1>2. CASE PluginPop
  <2>1. CASE nqClosed
    BY <1>2, <2>1 DEF PluginPop
  <2>2. CASE ~nqClosed
    <3>1. PICK m \in Messages : m = Head(nq)
      BY <1>2, <2>2 DEF PluginPop, DataTypeOK
    <3>2. /\ At("plugin", "npop") /\ Hold("plugin", m) /\ Go("plugin", "write")
          /\ UNCHANGED <<letter, process, mutexes>>
      BY <1>2, <2>2, <3>1 DEF PluginPop
    <3>. QED
      BY <3>1, <3>2
  <2>. QED
    BY <2>1, <2>2
<1>3. CASE Write
  BY <1>3 DEF Write
<1>4. CASE WriteRefused \/ WriteFails \/ NotConnected
  BY <1>4 DEF WriteRefused, WriteFails, NotConnected
<1>9. CASE PassOver
  BY <1>9 DEF PassOver
<1>5. CASE DbConnect
  BY <1>5 DEF DbConnect
<1>6. CASE DbConnected
  BY <1>6 DEF DbConnected
<1>7. CASE Processed
  BY <1>7 DEF Processed
<1>8. CASE Handled
  BY <1>8 DEF Handled
<1>. QED
  BY <1>1, <1>2, <1>3, <1>4, <1>5, <1>6, <1>7, <1>8, <1>9 DEF Plugin

\* So does what several threads do: sendRaw(), reconnect(), stop().
LEMMA ControlShared ==
  ASSUME IInv, NEW t \in Threads, Shared(t)
  PROVE  Control'
<1>. USE ConstantAssumption DEF IInv, ControlTypeOK, LockDiscipline, Flow, Control, ListenLabels, SendLabels, Threads,
             Workers, Labels, Letters, AfterSend, AfterReconnect, Go, At, Hold, Post,
             FinishSend, Free, queues, mutexes, link, database, registry, history,
             process, bounds
<1>1. CASE TakeReconnect(t)
  BY <1>1 DEF TakeReconnect
<1>2. CASE LeaveReconnect(t)
  BY <1>2 DEF LeaveReconnect, OpenSession
<1>3. CASE TakeSend(t)
  BY <1>3 DEF TakeSend
<1>4. CASE Sent(t)
  BY <1>4 DEF Sent
<1>5. CASE SendFails(t)
  BY <1>5 DEF SendFails
<1>12. CASE SendTooLong(t)
  BY <1>12 DEF SendTooLong
<1>6. CASE SendRetry(t)
  BY <1>6 DEF SendRetry, HandleError
<1>7. CASE Stop(t)
  <2>1. t # "listen" /\ pc[t] = "stop" /\ Go(t, "closeDb")
    BY <1>7 DEF Stop
  <2>2. ControlTypeOK'
    BY <1>7 DEF Stop
  <2>3. LockDiscipline'
    BY <1>7, <2>1 DEF Stop
  <2>4. Flow'
    BY <1>7, <2>1 DEF Stop
  <2>. QED
    BY <2>2, <2>3, <2>4
<1>8. CASE ClosePlugin(t)
  BY <1>8 DEF ClosePlugin
<1>9. CASE DisablePlugin(t)
  BY <1>9 DEF DisablePlugin
<1>10. CASE CloseQueue(t)
  BY <1>10 DEF CloseQueue
<1>11. CASE LeaveSession(t)
  BY <1>11 DEF LeaveSession, CloseSession
<1>. QED
  BY <1>1, <1>2, <1>3, <1>4, <1>5, <1>6, <1>7, <1>8, <1>9, <1>10, <1>11, <1>12 DEF Shared

\* So do arrivals, the signal and what fails outside of the process.
LEMMA ControlOutside ==
  ASSUME IInv, \/ Receive \/ Exit \/ Signal \/ Break \/ LeaveUnseen \/ DbLost
  PROVE  Control'
<1>. USE ConstantAssumption DEF IInv, ControlTypeOK, LockDiscipline, Flow, Control, ListenLabels, SendLabels, Threads,
             Workers, Labels, Letters, AfterSend, AfterReconnect, Go, At, Hold, Post,
             FinishSend, Free, queues, mutexes, link, database, registry, history,
             process, bounds
<1>1. CASE Receive
  BY <1>1 DEF Receive
<1>2. CASE Exit
  BY <1>2 DEF Exit
<1>3. CASE Signal
  BY <1>3 DEF Signal
<1>4. CASE Break
  BY <1>4 DEF Break
<1>5. CASE LeaveUnseen
  BY <1>5 DEF LeaveUnseen
<1>6. CASE DbLost
  BY <1>6 DEF DbLost
<1>. QED
  BY <1>1, <1>2, <1>3, <1>4, <1>5, <1>6

-----------------------------------------------------------------------------
\* The data.

\* A queue with room keeps its capacity when a message is added.
LEMMA AppendBounded ==
  ASSUME NEW S, NEW q \in Seq(S), NEW x \in S, NEW n \in Nat, Len(q) < n
  PROVE  Append(q, x) \in Seq(S) /\ Len(Append(q, x)) <= n
OBVIOUS

\* A queue keeps its elements and its capacity when one is taken out.
LEMMA TailBounded ==
  ASSUME NEW S, NEW q \in Seq(S), q # <<>>, NEW n \in Nat, Len(q) <= n
  PROVE  Tail(q) \in Seq(S) /\ Len(Tail(q)) <= n
OBVIOUS

\* A set of numbers that is not empty has a least element: the entry that
\* removeClientFromDB() finds.
LEMMA FirstExists ==
  ASSUME NEW T, T \subseteq Nat, T # {}
  PROVE  \E i \in T : \A j \in T : ~(j < i)
<1>1. PICK i \in T : \A j \in T : ~(<<j, i>> \in OpToRel(<, Nat))
  BY NatLessThanWellFounded, WFMin
<1>. QED
  BY <1>1 DEF OpToRel

\* Removing a client from the registry leaves a registry.
LEMMA RemovedType ==
  ASSUME clients \in Seq(Clients), NEW c
  PROVE  Removed(c) \in Seq(Clients)
<1>1. CASE ~InDB(c)
  BY <1>1 DEF Removed
<1>2. CASE InDB(c)
  <2>. DEFINE At1 == {k \in 1..Len(clients) : clients[k] = c}
              First(k) == clients[k] = c /\ \A j \in 1..(k - 1) : clients[j] # c
              i == CHOOSE k \in 1..Len(clients) : First(k)
  <2>1. PICK k \in At1 : \A j \in At1 : ~(j < k)
    <3>1. At1 \subseteq Nat /\ At1 # {}
      BY <1>2 DEF InDB
    <3>. HIDE DEF At1
    <3>. QED
      BY <3>1, FirstExists
  <2>2. \E n \in 1..Len(clients) : First(n)
    BY <2>1
  <2>3. i \in 1..Len(clients)
    BY <2>2
  <2>4. Removed(c) = SubSeq(clients, 1, i - 1) \o SubSeq(clients, i + 1, Len(clients))
    BY <1>2 DEF Removed
  <2>. HIDE DEF i
  <2>5. /\ SubSeq(clients, 1, i - 1) \in Seq(Clients)
        /\ SubSeq(clients, i + 1, Len(clients)) \in Seq(Clients)
    BY <2>3
  <2>. QED
    BY <2>4, <2>5
<1>. QED
  BY <1>1, <1>2

\* The listen thread keeps them.
LEMMA DataListen ==
  ASSUME IInv, Listen
  PROVE  DataTypeOK'
<1>. USE ConstantAssumption DEF IInv, ControlTypeOK, LockDiscipline, Flow, Control, ListenLabels, SendLabels, Threads,
             Workers, Labels, Letters, AfterSend, AfterReconnect, Go, At, Hold, Post,
             FinishSend, Free, queues, mutexes, link, database, registry, history,
             process, bounds, DataTypeOK
<1>1. CASE ListenLoop
  BY <1>1 DEF ListenLoop
<1>2. CASE ReceiveFails
  BY <1>2 DEF ReceiveFails
<1>3. CASE ListenRetry
  BY <1>3 DEF ListenRetry, HandleError
<1>4. CASE QueueMessage
  <2>1. msg["listen"] \in Messages
    BY <1>4 DEF QueueMessage
  <2>2. \/ UNCHANGED mq
        \/ Len(mq) < MqSize /\ mq' = Append(mq, msg["listen"])
    BY <1>4 DEF QueueMessage, Room
  <2>3. mq' \in Seq(Messages) /\ Len(mq') <= MqSize
    <3>1. mq \in Seq(Messages) /\ Len(mq) <= MqSize /\ MqSize \in Nat
      OBVIOUS
    <3>. HIDE DEF IInv, Control, ControlTypeOK, DataTypeOK, LockDiscipline, Flow
    <3>. QED
      BY <2>1, <2>2, <3>1, AppendBounded
  <2>. QED
    BY <1>4, <2>3 DEF QueueMessage
<1>. QED
  BY <1>1, <1>2, <1>3, <1>4 DEF Listen

\* The run thread keeps them.
LEMMA DataRun ==
  ASSUME IInv, Run
  PROVE  DataTypeOK'
<1>. USE ConstantAssumption DEF IInv, ControlTypeOK, LockDiscipline, Flow, Control, ListenLabels, SendLabels, Threads,
             Workers, Labels, Letters, AfterSend, AfterReconnect, Go, At, Hold, Post,
             FinishSend, Free, queues, mutexes, link, database, registry, history,
             process, bounds, DataTypeOK
<1>1. CASE RunLoop
  BY <1>1 DEF RunLoop
<1>2. CASE RunClosed
  BY <1>2 DEF RunClosed
<1>3. CASE RunPop
  BY <1>3 DEF RunPop
<1>4. CASE Forward
  <2>1. msg["run"] \in Messages
    BY <1>4 DEF Forward
  <2>2. \/ UNCHANGED nq
        \/ Len(nq) < NqSize /\ nq' = Append(nq, msg["run"])
    BY <1>4 DEF Forward, Room
  <2>3. nq' \in Seq(Messages) /\ Len(nq') <= NqSize
    <3>1. nq \in Seq(Messages) /\ Len(nq) <= NqSize /\ NqSize \in Nat
      OBVIOUS
    <3>. HIDE DEF IInv, Control, ControlTypeOK, DataTypeOK, LockDiscipline, Flow
    <3>. QED
      BY <2>1, <2>2, <3>1, AppendBounded
  <2>. QED
    BY <1>4, <2>3 DEF Forward
<1>5. CASE Provide
  BY <1>5 DEF Provide
<1>6. CASE Register
  <2>1. msg["run"].who \in Clients
    BY <1>6 DEF Register, Messages
  <2>2. clients' \in Seq(Clients)
    BY <1>6, <2>1 DEF Register
  <2>. QED
    BY <1>6, <2>2 DEF Register
<1>7. CASE Remove
  <2>1. clients' = Removed(msg["run"].who)
    BY <1>7 DEF Remove
  <2>2. clients' \in Seq(Clients)
    BY <2>1, RemovedType
  <2>. QED
    BY <1>7, <2>2 DEF Remove
<1>8. CASE ExpelCrashes \/ RunReturn
  BY <1>8 DEF ExpelCrashes, RunReturn
<1>. QED
  BY <1>1, <1>2, <1>3, <1>4, <1>5, <1>6, <1>7, <1>8 DEF Run

\* The plugin thread keeps them.
LEMMA DataPlugin ==
  ASSUME IInv, Plugin
  PROVE  DataTypeOK'
<1>. USE ConstantAssumption DEF IInv, ControlTypeOK, LockDiscipline, Flow, Control, ListenLabels, SendLabels, Threads,
             Workers, Labels, Letters, AfterSend, AfterReconnect, Go, At, Hold, Post,
             FinishSend, Free, queues, mutexes, link, database, registry, history,
             process, bounds, DataTypeOK
<1>1. CASE PluginLoop
  BY <1>1 DEF PluginLoop
<1>2. CASE PluginPop
  <2>1. \/ UNCHANGED <<nq, todo>>
        \/ nq # <<>> /\ nq' = Tail(nq) /\ todo' \in {0, Notifiers}
    BY <1>2 DEF PluginPop
  <2>2. nq' \in Seq(Messages) /\ Len(nq') <= NqSize /\ todo' \in 0..Notifiers
    <3>1. nq \in Seq(Messages) /\ Len(nq) <= NqSize /\ NqSize \in Nat
          /\ todo \in 0..Notifiers /\ Notifiers \in Nat
      OBVIOUS
    <3>. HIDE DEF IInv, Control, ControlTypeOK, DataTypeOK, LockDiscipline, Flow
    <3>2. CASE UNCHANGED <<nq, todo>>
      BY <3>1, <3>2
    <3>3. CASE nq # <<>> /\ nq' = Tail(nq) /\ todo' \in {0, Notifiers}
      <4>1. nq' \in Seq(Messages) /\ Len(nq') <= NqSize
        BY <3>1, <3>3, TailBounded
      <4>2. todo' \in 0..Notifiers
        BY <3>1, <3>3
      <4>. QED
        BY <4>1, <4>2
    <3>. QED
      BY <2>1, <3>2, <3>3
  <2>. QED
    BY <1>2, <2>2 DEF PluginPop
<1>3. CASE Write
  <2>. DEFINE id == msg["plugin"].id
  <2>1. id \in 1..MaxMessages
    BY <1>3 DEF Write, Messages
  <2>2. todo' \in 0..Notifiers
    BY <1>3 DEF Write
  <2>3. stored' \in [1..MaxMessages -> Nat]
    <3>1. stored' = [stored EXCEPT ![id] = @ + 1]
      BY <1>3 DEF Write
    <3>2. stored \in [1..MaxMessages -> Nat]
      OBVIOUS
    <3>. HIDE DEF IInv, Control, ControlTypeOK, DataTypeOK, LockDiscipline, Flow, id
    <3>. QED
      BY <2>1, <3>1, <3>2
  <2>. QED
    BY <1>3, <2>2, <2>3 DEF Write
<1>4. CASE WriteRefused \/ WriteFails \/ NotConnected
  BY <1>4 DEF WriteRefused, WriteFails, NotConnected
<1>9. CASE PassOver
  <2>. DEFINE id == msg["plugin"].id
  <2>1. id \in 1..MaxMessages /\ todo > 0
    BY <1>9 DEF PassOver, Messages
  <2>2. todo' \in 0..Notifiers
    BY <1>9, <2>1 DEF PassOver
  <2>3. errors' \in [1..MaxMessages -> Nat]
    <3>1. errors' = [errors EXCEPT ![id] = @ + 1] /\ errors \in [1..MaxMessages -> Nat]
      BY <1>9 DEF PassOver
    <3>. HIDE DEF IInv, Control, ControlTypeOK, DataTypeOK, LockDiscipline, Flow, id
    <3>. QED
      BY <2>1, <3>1
  <2>. QED
    BY <1>9, <2>2, <2>3 DEF PassOver
<1>5. CASE DbConnect
  BY <1>5 DEF DbConnect
<1>6. CASE DbConnected
  <2>1. todo > 0
    BY <1>6 DEF DbConnected
  <2>2. todo' \in 0..Notifiers
    BY <1>6, <2>1 DEF DbConnected, TriedAgain
  <2>. QED
    BY <1>6, <2>2 DEF DbConnected
<1>7. CASE Processed
  BY <1>7 DEF Processed
<1>8. CASE Handled
  BY <1>8 DEF Handled
<1>. QED
  BY <1>1, <1>2, <1>3, <1>4, <1>5, <1>6, <1>7, <1>8, <1>9 DEF Plugin

\* So does what several threads do: sendRaw(), reconnect(), stop().
LEMMA DataShared ==
  ASSUME IInv, NEW t \in Threads, Shared(t)
  PROVE  DataTypeOK'
<1>. USE ConstantAssumption DEF IInv, ControlTypeOK, LockDiscipline, Flow, Control, ListenLabels, SendLabels, Threads,
             Workers, Labels, Letters, AfterSend, AfterReconnect, Go, At, Hold, Post,
             FinishSend, Free, queues, mutexes, link, database, registry, history,
             process, bounds, DataTypeOK
<1>1. CASE TakeReconnect(t)
  <2>1. CASE connected
    BY <1>1, <2>1 DEF TakeReconnect
  <2>2. CASE ~connected
    BY <1>1, <2>2 DEF TakeReconnect, Emptied
  <2>. QED
    BY <2>1, <2>2
<1>2. CASE LeaveReconnect(t)
  BY <1>2 DEF LeaveReconnect, OpenSession
<1>3. CASE TakeSend(t)
  BY <1>3 DEF TakeSend
<1>4. CASE Sent(t)
  <2>1. letter[t] = "data" => msg[t] \in Messages
    BY <1>4 DEF Sent
  <2>2. \/ UNCHANGED relayed
        \/ \E i \in 1..MaxMessages : relayed' = Append(relayed, i)
    BY <1>4, <2>1 DEF Sent, Messages
  <2>3. relayed' \in Seq(1..MaxMessages)
    <3>1. relayed \in Seq(1..MaxMessages)
      OBVIOUS
    <3>. HIDE DEF IInv, Control, ControlTypeOK, DataTypeOK, LockDiscipline, Flow
    <3>2. ASSUME NEW i \in 1..MaxMessages, relayed' = Append(relayed, i)
          PROVE  relayed' \in Seq(1..MaxMessages)
      BY <3>1, <3>2, AppendProperties
    <3>. QED
      BY <2>2, <3>1, <3>2
  <2>. QED
    BY <1>4, <2>3 DEF Sent
<1>5. CASE SendFails(t)
  BY <1>5 DEF SendFails
<1>12. CASE SendTooLong(t)
  BY <1>12 DEF SendTooLong
<1>6. CASE SendRetry(t)
  BY <1>6 DEF SendRetry, HandleError
<1>7. CASE Stop(t)
  BY <1>7 DEF Stop
<1>8. CASE ClosePlugin(t)
  BY <1>8 DEF ClosePlugin
<1>9. CASE DisablePlugin(t)
  BY <1>9 DEF DisablePlugin
<1>10. CASE CloseQueue(t)
  BY <1>10 DEF CloseQueue
<1>11. CASE LeaveSession(t)
  BY <1>11 DEF LeaveSession, CloseSession
<1>. QED
  BY <1>1, <1>2, <1>3, <1>4, <1>5, <1>6, <1>7, <1>8, <1>9, <1>10, <1>11, <1>12 DEF Shared

\* So do arrivals, the signal and what fails outside of the process.
LEMMA DataOutside ==
  ASSUME IInv, \/ Receive \/ Exit \/ Signal \/ Break \/ LeaveUnseen \/ DbLost
  PROVE  DataTypeOK'
<1>. USE ConstantAssumption DEF IInv, ControlTypeOK, LockDiscipline, Flow, Control, ListenLabels, SendLabels, Threads,
             Workers, Labels, Letters, AfterSend, AfterReconnect, Go, At, Hold, Post,
             FinishSend, Free, queues, mutexes, link, database, registry, history,
             process, bounds, DataTypeOK
<1>1. CASE Receive
  <2>1. PICK m \in Messages :
          /\ received' = Append(received, m)
          /\ members' = CASE m.kind = "connect" -> members \cup {m.who}
                          [] m.kind = "leave"   -> members \ {m.who}
                          [] OTHER -> members
          /\ due' = IF m.kind = "connect" THEN due \cup {m.who} ELSE due
    BY <1>1 DEF Receive
  <2>2. received' \in Seq(Messages) /\ Len(received') <= MaxMessages
    BY <1>1, <2>1 DEF Receive
  <2>3. members' \subseteq Clients /\ due' \subseteq Clients
    BY <2>1 DEF Messages
  <2>. QED
    BY <1>1, <2>2, <2>3 DEF Receive
<1>2. CASE Exit
  BY <1>2 DEF Exit
<1>3. CASE Signal
  BY <1>3 DEF Signal
<1>4. CASE Break
  BY <1>4 DEF Break
<1>5. CASE LeaveUnseen
  BY <1>5 DEF LeaveUnseen
<1>6. CASE DbLost
  <2>1. dbLosses' \in 0..MaxDbLosses
    BY <1>6 DEF DbLost
  <2>. QED
    BY <1>6, <2>1 DEF DbLost
<1>. QED
  BY <1>1, <1>2, <1>3, <1>4, <1>5, <1>6

-----------------------------------------------------------------------------
\* start() has launched the threads: nothing is held and nothing has arrived.
LEMMA InitInvariant == Init => IInv
<1>. SUFFICES ASSUME Init PROVE IInv
  OBVIOUS
<1>1. ControlTypeOK
  <2>1. pc \in [Threads -> Labels]
    BY DEF Init, Threads, Workers, Labels
  <2>2. msg \in [Threads -> Messages \cup {None}] /\ letter \in [Threads -> Letters \cup {None}]
    BY DEF Init
  <2>. QED
    BY <2>1, <2>2 DEF Init, ControlTypeOK
<1>2. LockDiscipline
  BY ConstantAssumption DEF Init, LockDiscipline, Threads, Workers
<1>3. Flow
  BY ConstantAssumption
  DEF Init, Flow, ListenLabels, SendLabels, Threads, Workers, Letters
<1>4. DataTypeOK
  <2>1. /\ stored \in [1..MaxMessages -> Nat] /\ errors \in [1..MaxMessages -> Nat]
        /\ todo \in 0..Notifiers
    BY ConstantAssumption DEF Init
  <2>2. /\ mq \in Seq(Messages) /\ nq \in Seq(Messages) /\ clients \in Seq(Clients)
        /\ received \in Seq(Messages) /\ relayed \in Seq(1..MaxMessages)
        /\ Len(mq) = 0 /\ Len(nq) = 0 /\ Len(received) = 0
    BY DEF Init
  <2>3. /\ MqSize \in Nat /\ NqSize \in Nat /\ MaxMessages \in Nat
    BY ConstantAssumption
  <2>4. Len(mq) <= MqSize /\ Len(nq) <= NqSize /\ Len(received) <= MaxMessages
    BY <2>2, <2>3
  <2>5. breaks \in 0..MaxBreaks /\ dbLosses \in 0..MaxDbLosses /\ members \subseteq Clients
        /\ due \subseteq Clients
    BY ConstantAssumption DEF Init
  <2>6. /\ mqClosed \in BOOLEAN /\ nqClosed \in BOOLEAN /\ connected \in BOOLEAN
        /\ db \in {"open", "lost", "closed"} /\ operational \in BOOLEAN
        /\ farewell \in BOOLEAN /\ left \in BOOLEAN
        /\ session \in {"open", "broken", "closed"}
    BY DEF Init
  <2>. QED
    BY <2>1, <2>2, <2>4, <2>5, <2>6 DEF DataTypeOK
<1>. QED
  BY <1>1, <1>2, <1>3, <1>4 DEF IInv, Control

\* Every step of a thread and of its environment preserves the invariant.
LEMMA StepInvariant == IInv /\ [Next]_vars => IInv'
<1>. SUFFICES ASSUME IInv, [Next]_vars PROVE IInv'
  OBVIOUS
<1>1. CASE Listen
  BY <1>1, ControlListen, DataListen DEF IInv
<1>2. CASE Run
  BY <1>2, ControlRun, DataRun DEF IInv
<1>3. CASE Plugin
  BY <1>3, ControlPlugin, DataPlugin DEF IInv
<1>4. CASE \E t \in Threads : Shared(t)
  BY <1>4, ControlShared, DataShared DEF IInv
<1>5. CASE Receive \/ Exit \/ Signal \/ Break \/ LeaveUnseen \/ DbLost
  BY <1>5, ControlOutside, DataOutside DEF IInv
<1>6. CASE UNCHANGED vars
  BY <1>6 DEF IInv, Control, ControlTypeOK, LockDiscipline, Flow, DataTypeOK, vars, queues,
    mutexes, link, database, registry, history, process, bounds
<1>. QED
  BY <1>1, <1>2, <1>3, <1>4, <1>5, <1>6 DEF Next

\* The inductive invariant holds in every reachable state.
THEOREM Invariance == Spec => []IInv
<1>. QED
  BY InitInvariant, StepInvariant, PTL DEF Spec

\* The state of scmaster keeps its type, its queues their capacities.
THEOREM TypeCorrect == Spec => []TypeOK
<1>1. IInv => TypeOK
  BY DEF IInv, Control, TypeOK
<1>. QED
  BY <1>1, Invariance, PTL

\* The two mutexes of the master are held exactly where sendRaw() and
\* reconnect() hold them, each by one thread at a time, and the listen thread
\* never asks for the right to send: they cannot deadlock the threads.
THEOREM LocksAreDisciplined == Spec => []LockDiscipline
<1>1. IInv => LockDiscipline
  BY DEF IInv, Control
<1>. QED
  BY <1>1, Invariance, PTL

-----------------------------------------------------------------------------
\* The end of the process.

\* A send that has failed or cannot be done is given up, or sendRaw() goes on.
GivesUpSend(t)  == ~running /\ (SendRetry(t) \/ SendTooLong(t))
KeepsSending(t) == running /\ (SendRetry(t) \/ SendTooLong(t))

\* The session as long as the daemon has not ended it, and what its end means.
FarewellInv ==
  /\ host = None <=> pc["signal"] = "idle"
  /\ host # None => host \in SignalHosts
  /\ breaks = 0 =>
       /\ ~left => session = "open" /\ connected
       /\ left => farewell
       /\ pc["signal"] = "exit" => left
       /\ \A t \in Threads :
            /\ pc[t] \in {"sendFailed", "receiveFailed"} => left
            /\ pc[t] = "leave" => farewell
  /\ (SignalHosts \subseteq {"run"} /\ exited /\ host # None) => pc["signal"] = "exit"

LEMMA FarewellShared ==
  ASSUME IInv, FarewellInv, NEW t \in Threads, Shared(t)
  PROVE  FarewellInv'
<1>. USE ConstantAssumption DEF FarewellInv, Go, At, Post, FinishSend, mutexes, link, process,
         bounds, history, IInv, Control, ControlTypeOK, Threads, Workers
<1>1. CASE TakeReconnect(t)
  BY <1>1 DEF TakeReconnect, AfterReconnect
<1>2. CASE LeaveReconnect(t)
  BY <1>2 DEF LeaveReconnect, OpenSession, AfterReconnect
<1>3. CASE TakeSend(t)
  BY <1>3 DEF TakeSend
<1>4. CASE Sent(t) \/ GivesUpSend(t)
  <2>1. /\ pc' = [pc EXCEPT ![t] = AfterSend(letter[t])] /\ letter[t] \in Letters
        /\ pc[t] \in {"sending", "sendFailed"}
    BY <1>4 DEF Sent, GivesUpSend, SendRetry, SendTooLong, KeepsTrying, Flow, ListenLabels, SendLabels
  <2>2. /\ pc'[t] = AfterSend(letter[t])
        /\ pc'[t] \notin {"idle", "exit", "sendFailed", "receiveFailed"}
        /\ pc'[t] = "leave" => letter[t] = "farewell"
        /\ \A u \in Threads \ {t} : pc'[u] = pc[u]
    BY <2>1 DEF AfterSend, Letters
  <2>3. /\ UNCHANGED <<host, exited, breaks, left, session>>
        /\ farewell => farewell' 
        /\ connected' = connected \/ pc[t] = "sendFailed"
        /\ letter[t] = "farewell" => farewell' \/ pc[t] = "sendFailed"
    BY <1>4 DEF Sent, GivesUpSend, SendRetry, SendTooLong, TooLong, HandleError
  <2>. QED
    BY <2>1, <2>2, <2>3
<1>5. CASE SendFails(t)
  BY <1>5 DEF SendFails
<1>6. CASE KeepsSending(t)
  <2>1. /\ pc[t] \in {"sending", "sendFailed"} /\ pc' = [pc EXCEPT ![t] = "reconnect"]
        /\ UNCHANGED <<process, history, bounds, session>>
        /\ connected' = connected \/ pc[t] = "sendFailed"
    BY <1>6 DEF KeepsSending, SendRetry, SendTooLong, HandleError, KeepsTrying
  <2>2. /\ pc'[t] = "reconnect" /\ \A u \in Threads \ {t} : pc'[u] = pc[u]
    BY <2>1
  <2>. QED
    BY <2>1, <2>2
<1>7. CASE Stop(t) \/ ClosePlugin(t) \/ DisablePlugin(t) \/ CloseQueue(t)
  BY <1>7 DEF Stop, ClosePlugin, DisablePlugin, CloseQueue
<1>8. CASE LeaveSession(t)
  BY <1>8 DEF LeaveSession, CloseSession
<1>. QED
  BY <1>1, <1>2, <1>3, <1>4, <1>5, <1>6, <1>7, <1>8 DEF Shared, GivesUpSend, KeepsSending

LEMMA FarewellStep == IInv /\ FarewellInv /\ [Next]_vars => FarewellInv'
<1>. SUFFICES ASSUME IInv, FarewellInv, [Next]_vars PROVE FarewellInv'
  OBVIOUS
<1>. USE ConstantAssumption DEF FarewellInv, Go, At, Post, mutexes, link, process, bounds, history,
         IInv, Control, ControlTypeOK, Threads, Workers
<1>1. CASE Listen
  BY <1>1 DEF Listen, ListenLoop, ReceiveFails, ListenRetry, QueueMessage, HandleError
<1>2. CASE RunReturn \/ ExpelCrashes
  BY <1>2 DEF RunReturn, ExpelCrashes, Suspended
<1>3. CASE Run /\ ~RunReturn /\ ~ExpelCrashes
  <2>1. /\ UNCHANGED <<host, exited, breaks, left, session, connected, farewell>>
        /\ pc' = [pc EXCEPT !["run"] = pc'["run"]]
        /\ pc'["run"] \notin {"sendFailed", "receiveFailed", "leave"}
    <3>1. CASE RunPop
      <4>1. Head(mq) \in Messages
        BY <3>1 DEF RunPop, DataTypeOK
      <4>2. Head(mq).kind \in ServiceKinds \cup DataKinds
        BY <4>1 DEF Messages
      <4>3. \E l \in {"forward", "remove", "send"} : Go("run", l)
        BY <3>1, <4>2 DEF RunPop, ServiceKinds, DataKinds
      <4>. QED
        BY <3>1, <4>3 DEF RunPop
    <3>. QED
      BY <1>3, <3>1 DEF Run, RunLoop, RunClosed, Forward, Provide, Register, Remove
  <2>. QED
    BY <2>1
<1>4. CASE Plugin
  <2>1. /\ UNCHANGED <<host, exited, breaks, left, session, connected, farewell>>
        /\ pc' = [pc EXCEPT !["plugin"] = pc'["plugin"]]
        /\ pc'["plugin"] \notin {"sendFailed", "receiveFailed", "leave"}
    BY <1>4 DEF Plugin, PluginLoop, PluginPop, Write, WriteRefused, WriteFails, PassOver, NotConnected, DbConnect, DbConnected,
                Processed, Handled
  <2>. QED
    BY <2>1
<1>5. CASE \E t \in Threads : Shared(t)
  BY <1>5, FarewellShared
<1>6. CASE Receive \/ Exit \/ Signal \/ LeaveUnseen \/ DbLost
  BY <1>6 DEF Receive, Exit, Signal, LeaveUnseen, DbLost
<1>7. CASE Break
  <2>1. breaks' # 0 /\ UNCHANGED <<pc, host, exited>>
    BY <1>7 DEF Break, DataTypeOK
  <2>. QED
    BY <2>1
<1>8. CASE UNCHANGED vars
  BY <1>8 DEF vars
<1>. QED
  BY <1>1, <1>2, <1>3, <1>4, <1>5, <1>6, <1>7, <1>8 DEF Next

LEMMA FarewellInvariance == Spec => []FarewellInv
<1>1. Init => FarewellInv
  BY ConstantAssumption DEF Init, FarewellInv, Threads, Workers
<1>. QED
  BY <1>1, FarewellStep, Invariance, PTL DEF Spec

\* When SIGTERM is delivered to the main thread, the one that runs start(), the process
\* ends only after stop() and disconnect() have sent MASTER_DISCONNECTED_MSG, whatever
\* the threads were doing, as long as the daemon has not broken the session: start()
\* cannot return underneath the handler, and no thread takes the session away before.
THEOREM ClientsAreTold ==
  ASSUME SignalHosts \subseteq {"run"}
  PROVE  Spec => []FarewellSent
<1>1. FarewellInv => FarewellSent
  BY DEF FarewellInv, FarewellSent
<1>. QED
  BY <1>1, FarewellInvariance, PTL
-----------------------------------------------------------------------------
\* The way of the messages

RunIdle == {"loop", "pop", "return"}
PluginIdle == {"nloop", "npop", "done"}
StopLabels == {"closeDb", "disable", "closeMq", "leave"}
RunLabels == SendLabels \cup RunIdle \cup {"forward", "provide", "register", "remove"}
PluginLabels ==
  SendLabels \cup PluginIdle \cup StopLabels
    \cup {"write", "failed", "dbConnect", "dbConnected", "handled", "stop"}
SignalLabels == SendLabels \cup StopLabels \cup {"idle", "stop", "exit"}

\* Where threads are with which kind of message.
Path ==
  /\ pc["run"] \in RunLabels /\ pc["plugin"] \in PluginLabels /\ pc["signal"] \in SignalLabels
  /\ letter["listen"] = None
  /\ letter["run"] \in {None, "ok", "service", "expel", "reply"}
  /\ letter["plugin"] \in {None, "data", "syncReply", "farewell"}
  /\ letter["signal"] \in {None, "farewell"}
  /\ pc["run"] = "forward" => msg["run"].kind \in DataKinds
  /\ pc["run"] \notin RunIdle \cup {"forward"} => msg["run"].kind \in ServiceKinds
  /\ \A i \in DOMAIN nq : nq[i].kind \in DataKinds
  /\ pc["plugin"] \notin PluginIdle => msg["plugin"].kind \in DataKinds
  /\ pc["plugin"] \in SendLabels =>
       /\ letter["plugin"] = "data" => msg["plugin"].kind = "data"
       /\ letter["plugin"] = "syncReply" => msg["plugin"].kind = "sync"

\* What happens only after stop() has begun.
Stopping ==
  /\ mqClosed \/ nqClosed => ~running
  /\ \A t \in Threads :
       /\ pc[t] \in StopLabels \cup {"exit", "done", "return"} => ~running
       /\ pc[t] \in SendLabels /\ letter[t] = "farewell" => ~running

\* The messages of each stage, and their numbers.
InHand(t, idle) == IF pc[t] \in idle THEN {} ELSE {msg[t]}
Load(k) ==
  CASE k = 1 -> InHand("plugin", PluginIdle)
    [] k = 2 -> Elems(nq)
    [] k = 3 -> InHand("run", RunIdle)
    [] k = 4 -> Elems(mq)
    [] k = 5 -> IF pc["listen"] = "queue" THEN {msg["listen"]} ELSE {}
Stage(k) == IF k = 0 THEN Elems(relayed) ELSE {m.id : m \in Load(k)}
Stages == [k \in 0..5 |-> Stage(k)]

\* Every message is the one that arrived with its number.
Origin ==
  /\ \A i \in DOMAIN received : received[i].id = i
  /\ \A k \in 1..5 : \A m \in Load(k) : m.id \in DOMAIN received /\ received[m.id] = m
  /\ Elems(relayed) \subseteq DataIds(received)

InOrder(s) == \A k, l \in 0..5 : k < l => \A x \in s[k], y \in s[l] : x < y
Order ==
  /\ InOrder(Stages)
  /\ Increasing(relayed) /\ Increasing(IdsOf(nq)) /\ Increasing(IdsOf(mq))

PluginGone == pc["plugin"] = "done" \/ (pc["plugin"] = "nloop" /\ ~running)
RunGone    == pc["run"] = "return"
ListenGone == pc["listen"] = "done"
GivenUp(d) ==
  /\ \A x \in Stage(0) : x < d
  /\ \/ PluginGone
     \/ RunGone /\ \A k \in 1..2 : \A x \in Stage(k) : x < d
     \/ ListenGone /\ \A k \in 1..4 : \A x \in Stage(k) : x < d
Accounted == \A d \in DataIds(received) : (\E k \in 0..5 : d \in Stage(k)) \/ GivenUp(d)

Course == Path /\ Stopping
Places == Origin /\ Order /\ Accounted
PipelineInv == IInv /\ Course /\ Places

-----------------------------------------------------------------------------
(* Where the threads are, with what in their hands.                           *)

\* The listen thread stays outside of sendRaw().
LEMMA CourseListen ==
  ASSUME IInv, Course, Listen
  PROVE  Course'
<1>. USE ConstantAssumption DEF Course, Path, Stopping, RunLabels, PluginLabels, SignalLabels, RunIdle, PluginIdle,
             StopLabels, SendLabels, ServiceKinds, DataKinds, Letters, AfterSend, AfterReconnect, Go, At, Hold, Post, FinishSend,
             queues, mutexes, link, database, registry, history, process, bounds
<1>. USE DEF IInv, Control, ControlTypeOK, Flow, Threads, Workers
<1>1. CASE ListenLoop
  <2>1. Path'
    BY <1>1 DEF ListenLoop
  <2>2. Stopping'
    BY <1>1 DEF ListenLoop
  <2>. QED
    BY <2>1, <2>2
<1>2. CASE ReceiveFails
  BY <1>2 DEF ReceiveFails
<1>3. CASE ListenRetry
  <2>1. Path'
    BY <1>3 DEF ListenRetry, HandleError
  <2>2. Stopping'
    BY <1>3 DEF ListenRetry, HandleError
  <2>. QED
    BY <2>1, <2>2
<1>4. CASE QueueMessage
  BY <1>4 DEF QueueMessage
<1>. QED
  BY <1>1, <1>2, <1>3, <1>4 DEF Listen

\* The run thread forwards data and handles the other messages itself.
LEMMA CourseRun ==
  ASSUME IInv, Course, Run
  PROVE  Course'
<1>. USE ConstantAssumption DEF Course, Path, Stopping, RunLabels, PluginLabels, SignalLabels, RunIdle, PluginIdle,
             StopLabels, SendLabels, ServiceKinds, DataKinds, Letters, AfterSend, AfterReconnect, Go, At, Hold, Post, FinishSend,
             queues, mutexes, link, database, registry, history, process, bounds
<1>. USE DEF IInv, Control, ControlTypeOK, Flow, Threads, Workers
<1>1. CASE RunLoop
  <2>1. Path'
    BY <1>1 DEF RunLoop
  <2>2. Stopping'
    <3>1. /\ pc["run"] = "loop" /\ UNCHANGED <<letter, running, mqClosed, nqClosed>>
          /\ \/ ~running /\ Go("run", "return")
             \/ Go("run", "pop")
      BY <1>1 DEF RunLoop
    <3>. QED
      BY <3>1
  <2>. QED
    BY <2>1, <2>2
<1>2. CASE RunClosed
  BY <1>2 DEF RunClosed
<1>3. CASE RunPop
  <2>1. PICK m \in Messages : m = Head(mq)
    BY <1>3 DEF RunPop, DataTypeOK
  <2>2. m.kind \in ServiceKinds \cup DataKinds
    BY <2>1 DEF Messages
  <2>3. \/ m.kind \in DataKinds /\ Go("run", "forward") /\ UNCHANGED letter
        \/ m.kind \in ServiceKinds /\ Go("run", "remove") /\ UNCHANGED letter
        \/ m.kind \in ServiceKinds /\ \E l \in {"ok", "reply", "expel"} : Post("run", l)
    BY <1>3, <2>1, <2>2 DEF RunPop
  <2>4. /\ At("run", "pop") /\ Hold("run", m)
        /\ UNCHANGED <<process, mqClosed, nq, nqClosed, mutexes, database>>
    BY <1>3, <2>1 DEF RunPop
  <2>5. Path'
    BY <2>1, <2>3, <2>4
  <2>6. Stopping'
    BY <2>3, <2>4
  <2>. QED
    BY <2>5, <2>6
<1>4. CASE Forward
  BY <1>4 DEF Forward
<1>5. CASE Provide
  BY <1>5 DEF Provide
<1>6. CASE Register
  BY <1>6 DEF Register
<1>7. CASE Remove
  BY <1>7 DEF Remove
<1>8. CASE ExpelCrashes \/ RunReturn
  BY <1>8 DEF ExpelCrashes, RunReturn
<1>. QED
  BY <1>1, <1>2, <1>3, <1>4, <1>5, <1>6, <1>7, <1>8 DEF Run

\* The plugin thread relays data and answers sync requests.
LEMMA CoursePlugin ==
  ASSUME IInv, Course, Plugin
  PROVE  Course'
<1>. USE ConstantAssumption DEF Course, Path, Stopping, RunLabels, PluginLabels, SignalLabels, RunIdle, PluginIdle,
             StopLabels, SendLabels, ServiceKinds, DataKinds, Letters, AfterSend, AfterReconnect, Go, At, Hold, Post, FinishSend,
             queues, mutexes, link, database, registry, history, process, bounds
<1>. USE DEF IInv, Control, ControlTypeOK, Flow, Threads, Workers
<1>1. CASE PluginLoop
  <2>1. Path'
    BY <1>1 DEF PluginLoop, KeepsRelaying
  <2>2. Stopping'
    BY <1>1 DEF PluginLoop, KeepsRelaying
  <2>. QED
    BY <2>1, <2>2
<1>2. CASE PluginPop
  <2>1. Path'
    <3>1. CASE nqClosed
      BY <1>2, <3>1 DEF PluginPop
    <3>2. CASE ~nqClosed
      <4>1. nq # <<>> /\ nq \in Seq(Messages) /\ nq' = Tail(nq) /\ pc["plugin"] = "npop"
        BY <1>2, <3>2 DEF PluginPop, DataTypeOK
      <4>2. Head(nq).kind \in DataKinds /\ \A i \in DOMAIN nq' : nq'[i].kind \in DataKinds
        <5>1. /\ 1 \in DOMAIN nq /\ Head(nq) = nq[1]
              /\ \A i \in DOMAIN nq' : i + 1 \in DOMAIN nq /\ nq'[i] = nq[i + 1]
          BY <4>1
        <5>. QED
          BY <5>1
      <4>3. Hold("plugin", Head(nq)) /\ Go("plugin", "write") /\ UNCHANGED letter
        BY <1>2, <3>2 DEF PluginPop
      <4>. HIDE DEF DataKinds
      <4>. QED
        BY <4>1, <4>2, <4>3
    <3>. QED
      BY <3>1, <3>2
  <2>2. Stopping'
    <3>1. /\ pc["plugin"] = "npop" /\ UNCHANGED <<letter, running, mqClosed, nqClosed>>
          /\ \/ nqClosed /\ Go("plugin", "done")
             \/ Go("plugin", "write")
      BY <1>2 DEF PluginPop
    <3>. QED
      BY <3>1
  <2>. QED
    BY <2>1, <2>2
<1>3. CASE Write
  BY <1>3 DEF Write
<1>4. CASE WriteRefused \/ WriteFails \/ NotConnected
  BY <1>4 DEF WriteRefused, WriteFails, NotConnected
<1>9. CASE PassOver
  BY <1>9 DEF PassOver
<1>5. CASE DbConnect
  BY <1>5 DEF DbConnect
<1>6. CASE DbConnected
  BY <1>6 DEF DbConnected
<1>7. CASE Processed
  BY <1>7 DEF Processed
<1>8. CASE Handled
  BY <1>8 DEF Handled
<1>. QED
  BY <1>1, <1>2, <1>3, <1>4, <1>5, <1>6, <1>7, <1>8, <1>9 DEF Plugin

\* sendRaw() returns to a place that no thread needs stop() for, unless it has sent
\* the farewell of stop().
LEMMA LeavesSend ==
  ASSUME IInv, Course, NEW t \in Threads, pc[t] \in SendLabels, letter[t] \in Letters,
         FinishSend(t), UNCHANGED <<running, mqClosed, nqClosed>>
  PROVE  Stopping'
<1>1. /\ pc' = [pc EXCEPT ![t] = AfterSend(letter[t])] /\ pc \in [Threads -> Labels]
      /\ letter' = [letter EXCEPT ![t] = None] /\ letter \in [Threads -> Letters \cup {None}]
  BY DEF IInv, Control, ControlTypeOK, FinishSend, Go
<1>2. pc'[t] \notin {"closeDb", "disable", "closeMq", "exit", "done", "return"}
  BY <1>1 DEF AfterSend, Letters
<1>3. pc'[t] = "leave" => letter[t] = "farewell"
  BY <1>1 DEF AfterSend, Letters
<1>4. letter'[t] # "farewell"
  BY <1>1, ConstantAssumption DEF Letters
<1>5. \A u \in Threads \ {t} : pc'[u] = pc[u] /\ letter'[u] = letter[u]
  BY <1>1
<1>. QED
  BY <1>1, <1>2, <1>3, <1>4, <1>5 DEF Course, Stopping, StopLabels

\* From sendRaw(), reconnect() and stop() every thread gets back to where it was.
LEMMA CourseShared ==
  ASSUME IInv, Course, NEW t \in Threads, Shared(t)
  PROVE  Course'
<1>. USE ConstantAssumption DEF Course, Path, Stopping, RunLabels, PluginLabels, SignalLabels, RunIdle, PluginIdle,
             StopLabels, SendLabels, ServiceKinds, DataKinds, Letters, AfterSend, AfterReconnect, Go, At, Hold, Post, FinishSend,
             queues, mutexes, link, database, registry, history, process, bounds
<1>. USE DEF IInv, Control, ControlTypeOK, Flow, Threads, Workers
<1>1. CASE TakeReconnect(t)
  BY <1>1 DEF TakeReconnect
<1>2. CASE LeaveReconnect(t)
  BY <1>2 DEF LeaveReconnect, OpenSession
<1>3. CASE TakeSend(t)
  BY <1>3 DEF TakeSend
<1>4. CASE Sent(t)
  <2>1. Path'
    BY <1>4 DEF Sent
  <2>2. Stopping'
    <3>1. t # "listen" /\ letter[t] \in Letters /\ pc[t] = "sending" /\ FinishSend(t)
      BY <1>4 DEF Sent, ListenLabels
    <3>2. UNCHANGED <<running, mqClosed, nqClosed>>
      BY <1>4 DEF Sent
    <3>. QED
      BY <3>1, <3>2, LeavesSend
  <2>. QED
    BY <2>1, <2>2
<1>5. CASE SendFails(t)
  BY <1>5 DEF SendFails
<1>12. CASE SendTooLong(t)
  <2>1. Path'
    BY <1>12 DEF SendTooLong
  <2>2. Stopping'
    <3>1. t # "listen" /\ letter[t] \in Letters /\ pc[t] = "sending"
      BY <1>12 DEF SendTooLong, ListenLabels
    <3>2. UNCHANGED <<running, mqClosed, nqClosed>>
      BY <1>12 DEF SendTooLong
    <3>3. FinishSend(t) \/ (Go(t, "reconnect") /\ UNCHANGED letter)
      BY <1>12 DEF SendTooLong
    <3>. QED
      BY <3>1, <3>2, <3>3, LeavesSend
  <2>. QED
    BY <2>1, <2>2
<1>6. CASE SendRetry(t)
  <2>1. Path'
    BY <1>6 DEF SendRetry, HandleError
  <2>2. Stopping'
    <3>1. t # "listen" /\ letter[t] \in Letters /\ pc[t] = "sendFailed"
      BY <1>6 DEF SendRetry, ListenLabels
    <3>2. UNCHANGED <<running, mqClosed, nqClosed>>
      BY <1>6 DEF SendRetry
    <3>3. FinishSend(t) \/ (Go(t, "reconnect") /\ UNCHANGED letter)
      BY <1>6 DEF SendRetry
    <3>. QED
      BY <3>1, <3>2, <3>3, LeavesSend
  <2>. QED
    BY <2>1, <2>2
<1>7. CASE Stop(t)
  BY <1>7 DEF Stop
<1>8. CASE ClosePlugin(t)
  BY <1>8 DEF ClosePlugin
<1>9. CASE DisablePlugin(t)
  BY <1>9 DEF DisablePlugin
<1>10. CASE CloseQueue(t)
  <2>1. Path'
    <3>1. t \in {"plugin", "signal"} /\ pc[t] = "closeMq" /\ Post(t, "farewell")
      BY <1>10 DEF CloseQueue, ListenLabels
    <3>2. UNCHANGED <<msg, nq>>
      BY <1>10 DEF CloseQueue
    <3>. QED
      BY <3>1, <3>2
  <2>2. Stopping'
    BY <1>10 DEF CloseQueue
  <2>. QED
    BY <2>1, <2>2
<1>11. CASE LeaveSession(t)
  BY <1>11 DEF LeaveSession, CloseSession
<1>. QED
  BY <1>1, <1>2, <1>3, <1>4, <1>5, <1>6, <1>7, <1>8, <1>9, <1>10, <1>11, <1>12 DEF Shared

\* What happens outside does not move the threads.
LEMMA CourseOutside ==
  ASSUME IInv, Course, \/ Receive \/ Exit \/ Signal \/ Break \/ LeaveUnseen \/ DbLost
  PROVE  Course'
<1>. USE ConstantAssumption DEF Course, Path, Stopping, RunLabels, PluginLabels, SignalLabels, RunIdle, PluginIdle,
             StopLabels, SendLabels, ServiceKinds, DataKinds, Letters, AfterSend, AfterReconnect, Go, At, Hold, Post, FinishSend,
             queues, mutexes, link, database, registry, history, process, bounds
<1>. USE DEF IInv, Control, ControlTypeOK, Flow, Threads, Workers
<1>1. CASE Receive
  BY <1>1 DEF Receive
<1>2. CASE Exit
  BY <1>2 DEF Exit
<1>3. CASE Signal
  BY <1>3 DEF Signal
<1>4. CASE Break
  BY <1>4 DEF Break
<1>5. CASE LeaveUnseen
  BY <1>5 DEF LeaveUnseen
<1>6. CASE DbLost
  BY <1>6 DEF DbLost
<1>. QED
  BY <1>1, <1>2, <1>3, <1>4, <1>5, <1>6


-----------------------------------------------------------------------------
(* Rows of stages.                                                            *)

\* x goes from stage k to the one in front of it, or out of stage k.
Moves(s, t, k, x) ==
  /\ x \in s[k] /\ s[k] \subseteq t[k] \cup {x} /\ t[k] \subseteq s[k]
  /\ \A y \in t[k] : x < y
  /\ t[k - 1] = s[k - 1] \cup {x}
  /\ \A j \in (0..5) \ {k - 1, k} : t[j] = s[j]
Drops(s, t, k, x) ==
  /\ x \in s[k] /\ s[k] \subseteq t[k] \cup {x} /\ t[k] \subseteq s[k]
  /\ \A j \in (0..5) \ {k} : t[j] = s[j]

LEMMA MoveOrdered ==
  ASSUME NEW s \in [0..5 -> SUBSET Nat], NEW t, NEW k \in 1..5, NEW x, InOrder(s), Moves(s, t, k, x)
  PROVE  InOrder(t)
<1>. SUFFICES ASSUME NEW i \in 0..5, NEW j \in 0..5, i < j, NEW y \in t[i], NEW z \in t[j] PROVE y < z
  BY DEF InOrder
<1>1. k - 1 \in 0..5 /\ k - 1 < k
  OBVIOUS
<1>2. \/ y \in s[i]
      \/ y = x /\ i = k - 1
  BY <1>1 DEF Moves
<1>3. \/ z \in s[j]
      \/ z = x /\ j = k - 1
  BY <1>1 DEF Moves
<1>4. CASE y \in s[i] /\ z \in s[j]
  BY <1>4 DEF InOrder
<1>5. CASE y = x /\ i = k - 1 /\ z \in s[j]
  <2>1. CASE j = k
    BY <1>5, <2>1 DEF Moves
  <2>2. CASE j # k
    <3>1. k < j
      BY <1>5, <2>2
    <3>. QED
      BY <1>5, <3>1 DEF InOrder, Moves
  <2>. QED
    BY <2>1, <2>2
<1>6. CASE y \in s[i] /\ z = x /\ j = k - 1
  <2>1. i < k
    BY <1>6
  <2>. QED
    BY <1>6, <2>1 DEF InOrder, Moves
<1>. QED
  BY <1>2, <1>3, <1>4, <1>5, <1>6

LEMMA DropOrdered ==
  ASSUME NEW s, NEW t, NEW k \in 1..5, NEW x, InOrder(s), Drops(s, t, k, x)
  PROVE  InOrder(t)
<1>1. \A j \in 0..5 : t[j] \subseteq s[j]
  BY DEF Drops
<1>. QED
  BY <1>1 DEF InOrder

\* A queue whose messages are in order, when one is added or the first is taken.
LEMMA AppendInOrder ==
  ASSUME NEW q \in Seq(Messages), NEW m \in Messages, \A n \in Elems(q) : n.id < m.id,
         Increasing(IdsOf(q))
  PROVE  /\ Elems(Append(q, m)) = Elems(q) \cup {m}
         /\ Increasing(IdsOf(Append(q, m)))
<1>. DEFINE r == Append(q, m)
<1>1. /\ DOMAIN r = DOMAIN q \cup {Len(q) + 1} /\ r[Len(q) + 1] = m
      /\ \A i \in DOMAIN q : r[i] = q[i] /\ i < Len(q) + 1
  OBVIOUS
<1>2. DOMAIN q \subseteq Nat /\ Len(q) \in Nat
  OBVIOUS
<1>. HIDE DEF r
<1>3. Elems(r) = Elems(q) \cup {m}
  BY <1>1 DEF Elems
<1>4. ASSUME NEW i \in DOMAIN r, NEW j \in DOMAIN r, i < j PROVE r[i].id < r[j].id
  <2>1. i \in DOMAIN q
    BY <1>1, <1>2, <1>4
  <2>2. CASE j \in DOMAIN q
    BY <1>1, <1>4, <2>1, <2>2 DEF Increasing, IdsOf
  <2>3. CASE j = Len(q) + 1
    BY <1>1, <2>1, <2>3 DEF Elems
  <2>. QED
    BY <1>1, <2>2, <2>3
<1>5. Increasing(IdsOf(r))
  BY <1>4 DEF Increasing, IdsOf
<1>. QED
  BY <1>3, <1>5 DEF r

LEMMA TailInOrder ==
  ASSUME NEW q \in Seq(Messages), q # <<>>, Increasing(IdsOf(q))
  PROVE  /\ Elems(q) = Elems(Tail(q)) \cup {Head(q)} /\ Head(q) \in Messages
         /\ \A n \in Elems(Tail(q)) : Head(q).id < n.id
         /\ Increasing(IdsOf(Tail(q)))
<1>. DEFINE r == Tail(q)
<1>1. /\ 1 \in DOMAIN q /\ Head(q) = q[1] /\ q[1] \in Messages
      /\ \A i \in DOMAIN r : i + 1 \in DOMAIN q /\ r[i] = q[i + 1] /\ 1 < i + 1
      /\ \A i \in DOMAIN q : i = 1 \/ (i - 1 \in DOMAIN r /\ (i - 1) + 1 = i)
      /\ \A i, j \in DOMAIN r : i < j => i + 1 < j + 1
  OBVIOUS
<1>. HIDE DEF r
<1>2. Elems(q) = Elems(r) \cup {Head(q)}
  BY <1>1 DEF Elems
<1>3. \A n \in Elems(r) : Head(q).id < n.id
  BY <1>1 DEF Elems, Increasing, IdsOf
<1>4. Increasing(IdsOf(r))
  BY <1>1 DEF Increasing, IdsOf
<1>. QED
  BY <1>1, <1>2, <1>3, <1>4 DEF r

LEMMA RelayInOrder ==
  ASSUME NEW s \in Seq(Nat), NEW x \in Nat, \A y \in Elems(s) : y < x, Increasing(s)
  PROVE  Elems(Append(s, x)) = Elems(s) \cup {x} /\ Increasing(Append(s, x))
<1>. DEFINE r == Append(s, x)
<1>1. /\ DOMAIN r = DOMAIN s \cup {Len(s) + 1} /\ r[Len(s) + 1] = x
      /\ \A i \in DOMAIN s : r[i] = s[i] /\ i < Len(s) + 1
      /\ \A i \in DOMAIN r : ~(Len(s) + 1 < i)
  OBVIOUS
<1>. HIDE DEF r
<1>2. Elems(r) = Elems(s) \cup {x}
  BY <1>1 DEF Elems
<1>3. Increasing(r)
  <2>. SUFFICES ASSUME NEW i \in DOMAIN r, NEW j \in DOMAIN r, i < j PROVE r[i] < r[j]
    BY DEF Increasing
  <2>1. i \in DOMAIN s
    BY <1>1
  <2>2. CASE j \in DOMAIN s
    BY <1>1, <2>1, <2>2 DEF Increasing
  <2>3. CASE j = Len(s) + 1
    BY <1>1, <2>1, <2>3 DEF Elems
  <2>. QED
    BY <1>1, <2>2, <2>3
<1>. QED
  BY <1>2, <1>3 DEF r

-----------------------------------------------------------------------------
(* What a step of the pipeline does to the invariant.                         *)

LEMMA Loads ==
  /\ Load(1) = InHand("plugin", PluginIdle) /\ Load(2) = Elems(nq)
  /\ Load(3) = InHand("run", RunIdle) /\ Load(4) = Elems(mq)
  /\ Load(5) = IF pc["listen"] = "queue" THEN {msg["listen"]} ELSE {}
  /\ Load(1)' = InHand("plugin", PluginIdle)' /\ Load(2)' = Elems(nq')
  /\ Load(3)' = InHand("run", RunIdle)' /\ Load(4)' = Elems(mq')
  /\ Load(5)' = IF pc'["listen"] = "queue" THEN {msg'["listen"]} ELSE {}
BY DEF Load

\* All numbers in the pipeline are numbers of messages that have arrived.
LEMMA StagesTyped ==
  ASSUME IInv, Origin
  PROVE  /\ Stages \in [0..5 -> SUBSET Nat]
         /\ \A k \in 0..5 : Stages[k] = Stage(k) /\ Stage(k) \subseteq DOMAIN received
         /\ DOMAIN received = 1..Len(received) /\ Len(received) \in Nat
         /\ DataIds(received) = {i \in DOMAIN received : received[i].kind = "data"}
<1>1. DOMAIN received = 1..Len(received) /\ Len(received) \in Nat
  BY DEF IInv, DataTypeOK
<1>2. DataIds(received) = {i \in DOMAIN received : received[i].kind = "data"}
  BY DEF Origin, DataIds
<1>3. ASSUME NEW k \in 0..5 PROVE Stage(k) \subseteq DOMAIN received
  <2>1. CASE k = 0
    BY <1>2, <2>1 DEF Stage, Origin
  <2>2. CASE k # 0
    BY <2>2 DEF Stage, Origin
  <2>. QED
    BY <2>1, <2>2
<1>4. DOMAIN received \subseteq Nat
  BY <1>1
<1>. QED
  BY <1>1, <1>2, <1>3, <1>4 DEF Stages

\* A thread that has ended, or that is about to end, does not come back.
LEMMA GoneStays ==
  ASSUME IInv, Course, Next
  PROVE  /\ PluginGone => PluginGone'
         /\ RunGone => RunGone'
         /\ ListenGone => ListenGone'
<1>. USE DEF PluginGone, RunGone, ListenGone, Go, At, Post, process
<1>. USE DEF IInv, Control, ControlTypeOK, Threads, Workers
<1>1. CASE Listen
  BY <1>1 DEF Listen, ListenLoop, ReceiveFails, ListenRetry, QueueMessage
<1>2. CASE Run
  <2>1. /\ pc["run"] # "return" \/ UNCHANGED pc
        /\ pc' = [pc EXCEPT !["run"] = pc'["run"]] /\ running' = running
    <3>1. CASE RunPop
      <4>1. Head(mq).kind \in ServiceKinds \cup DataKinds
        <5>1. Head(mq) \in Messages
          BY <3>1 DEF RunPop, DataTypeOK
        <5>. QED
          BY <5>1 DEF Messages
      <4>2. \E l \in Labels : Go("run", l)
        BY <3>1, <4>1 DEF RunPop, ServiceKinds, DataKinds, Labels
      <4>. QED
        BY <3>1, <4>2 DEF RunPop
    <3>. QED
      BY <1>2, <3>1 DEF Run, RunLoop, RunClosed, Forward, Provide, Register, Remove, ExpelCrashes, RunReturn
  <2>. QED
    BY <2>1
<1>3. CASE Plugin
  <2>1. /\ pc["plugin"] # "done" /\ (pc["plugin"] = "nloop" /\ ~running => pc'["plugin"] = "done")
        /\ pc' = [pc EXCEPT !["plugin"] = pc'["plugin"]] /\ running' = running
    BY <1>3 DEF Plugin, PluginLoop, PluginPop, Write, WriteRefused, WriteFails, PassOver, NotConnected, DbConnect, DbConnected,
                Processed, Handled, KeepsRelaying
  <2>. QED
    BY <2>1
<1>4. CASE \E t \in Threads : Shared(t)
  <2>. PICK t \in Threads : Shared(t)
    BY <1>4
  <2>1. /\ pc[t] \notin {"done", "nloop", "return"}
        /\ pc' = [pc EXCEPT ![t] = pc'[t]] /\ (running' => running)
    BY DEF Shared, TakeReconnect, LeaveReconnect, TakeSend, Sent, SendFails, SendTooLong, SendRetry, Stop,
                ClosePlugin, DisablePlugin, CloseQueue, LeaveSession, FinishSend
  <2>. QED
    BY <2>1
<1>5. CASE Receive \/ Exit \/ Signal \/ Break \/ LeaveUnseen \/ DbLost
  BY <1>5 DEF Receive, Exit, Signal, Break, LeaveUnseen, DbLost
<1>. QED
  BY <1>1, <1>2, <1>3, <1>4, <1>5 DEF Next

GoneForGood ==
  (PluginGone => PluginGone') /\ (RunGone => RunGone') /\ (ListenGone => ListenGone')
QueuesOrdered == Increasing(IdsOf(nq)) /\ Increasing(IdsOf(mq))

\* A step passes no message on, passes one on to the next stage, or gives one up.
Kept == UNCHANGED <<received, relayed>> /\ \A k \in 1..5 : Load(k)' = Load(k)
Moved(k, m) ==
  /\ m \in Load(k) /\ Load(k) = Load(k)' \cup {m}
  /\ \A n \in Load(k)' : m.id < n.id
  /\ \A j \in (1..5) \ {k - 1, k} : Load(j)' = Load(j)
  /\ k # 1 => Load(k - 1)' = Load(k - 1) \cup {m} /\ relayed' = relayed
  /\ k = 1 => relayed' = Append(relayed, m.id) /\ m.kind = "data" /\ ~PluginGone
  /\ k = 3 => ~RunGone /\ m.kind \in DataKinds
  /\ k = 5 => ~ListenGone
  /\ UNCHANGED received
Dropped(k, m) ==
  /\ Load(k) = {m} /\ Load(k)' = {}
  /\ \A j \in (1..5) \ {k} : Load(j)' = Load(j)
  /\ \/ k = 1 /\ (m.kind # "data" \/ PluginGone')
     \/ k = 3 /\ (m.kind # "data" \/ RunGone')
     \/ k = 5 /\ ListenGone'
  /\ UNCHANGED <<received, relayed>>
Effect ==
  /\ QueuesOrdered'
  /\ \/ Kept
     \/ \E k \in 1..5 : \E m \in Load(k) : Moved(k, m) \/ Dropped(k, m)

LEMMA PlacesKept ==
  ASSUME IInv, Places, GoneForGood, QueuesOrdered', Kept
  PROVE  Places'
<1>. USE DEF Kept
<1>1. \A k \in 0..5 : Stage(k)' = Stage(k)
  <2>1. \A k \in 1..5 : Stage(k) = {n.id : n \in Load(k)} /\ Stage(k)' = {n.id : n \in Load(k)'}
    BY DEF Stage
  <2>2. Stage(0)' = Stage(0)
    BY DEF Stage
  <2>3. \A k \in 0..5 : k = 0 \/ k \in 1..5
    OBVIOUS
  <2>. QED
    BY <2>1, <2>2, <2>3
<1>2. Stages' = Stages
  BY <1>1 DEF Stages
<1>3. Origin'
  BY DEF Places, Origin
<1>4. Order'
  BY <1>2 DEF Places, Order, QueuesOrdered
<1>5. \A d : GivenUp(d) => GivenUp(d)'
  BY <1>1 DEF GivenUp, GoneForGood
<1>6. Accounted'
  BY <1>1, <1>5 DEF Places, Accounted
<1>. QED
  BY <1>3, <1>4, <1>6 DEF Places

LEMMA PlacesMoved ==
  ASSUME IInv, Places, GoneForGood, QueuesOrdered', NEW k \in 1..5, NEW m \in Load(k), Moved(k, m)
  PROVE  Places'
<1>. USE DEF Moved
<1>. DEFINE x == m.id
<1>1. m.id \in DOMAIN received /\ received[m.id] = m /\ x \in Nat
  BY StagesTyped DEF Places, Origin
<1>2. /\ Stages \in [0..5 -> SUBSET Nat]
      /\ \A j \in 0..5 : Stages[j] = Stage(j) /\ Stages'[j] = Stage(j)'
  BY StagesTyped DEF Places, Stages
<1>3. k = 1 => Elems(relayed)' = Elems(relayed) \cup {x} /\ Increasing(relayed)'
  <2>. SUFFICES ASSUME k = 1 PROVE Elems(relayed)' = Elems(relayed) \cup {x} /\ Increasing(relayed)'
    OBVIOUS
  <2>1. 0 \in 0..5 /\ 1 \in 0..5 /\ 0 < 1
    OBVIOUS
  <2>2. Elems(relayed) = Stages[0] /\ x \in Stages[1]
    BY DEF Stages, Stage
  <2>3. \A y \in Elems(relayed) : y < x
    BY <2>1, <2>2 DEF Places, Order, InOrder
  <2>4. relayed \in Seq(Nat)
    BY ConstantAssumption DEF IInv, DataTypeOK
  <2>. QED
    BY <1>1, <2>3, <2>4, RelayInOrder DEF Places, Order
<1>4. Origin'
  <2>1. \A j \in 1..5 : \A n \in Load(j)' : \E i \in 1..5 : n \in Load(i)
    <3>. SUFFICES ASSUME NEW j \in 1..5, NEW n \in Load(j)' PROVE \E i \in 1..5 : n \in Load(i)
      OBVIOUS
    <3>1. CASE j = k
      BY <3>1
    <3>2. CASE j = k - 1
      <4>1. k # 1 /\ Load(j)' = Load(j) \cup {m}
        BY <3>2
      <4>. QED
        BY <4>1
    <3>3. CASE j \notin {k - 1, k}
      BY <3>3
    <3>. QED
      BY <3>1, <3>2, <3>3
  <2>2. Elems(relayed)' \subseteq DataIds(received)
    <3>1. CASE k = 1
      <4>1. Elems(relayed') = Elems(relayed) \cup {x}
        BY <1>3, <3>1
      <4>2. x \in DataIds(received)
        BY <1>1, <3>1 DEF DataIds
      <4>. QED
        BY <4>1, <4>2 DEF Places, Origin
    <3>2. CASE k # 1
      BY <3>2 DEF Places, Origin
    <3>. QED
      BY <3>1, <3>2
  <2>. QED
    BY <2>1, <2>2 DEF Places, Origin
<1>5. Moves(Stages, Stages', k, x)
  <2>1. \A j \in 1..5 : Stage(j) = {n.id : n \in Load(j)} /\ Stage(j)' = {n.id : n \in Load(j)'}
    BY DEF Stage
  <2>2. Stage(k) = Stage(k)' \cup {x} /\ \A y \in Stage(k)' : x < y
    BY <2>1
  <2>3. Stage(k - 1)' = Stage(k - 1) \cup {x}
    <3>1. CASE k = 1
      BY <1>3, <3>1 DEF Stage
    <3>2. CASE k # 1
      <4>1. k - 1 \in 1..5
        BY <3>2
      <4>. QED
        BY <2>1, <3>2, <4>1
    <3>. QED
      BY <3>1, <3>2
  <2>4. \A j \in (0..5) \ {k - 1, k} : Stage(j)' = Stage(j)
    <3>. SUFFICES ASSUME NEW j \in (0..5) \ {k - 1, k} PROVE Stage(j)' = Stage(j)
      OBVIOUS
    <3>1. CASE j = 0
      <4>1. k # 1
        BY <3>1
      <4>. QED
        BY <3>1, <4>1 DEF Stage
    <3>2. CASE j # 0
      <4>1. j \in (1..5) \ {k - 1, k}
        BY <3>2
      <4>. QED
        BY <2>1, <4>1
    <3>. QED
      BY <3>1, <3>2
  <2>5. k - 1 \in 0..5
    OBVIOUS
  <2>. QED
    BY <1>2, <2>2, <2>3, <2>4, <2>5 DEF Moves
<1>6. Order'
  <2>1. InOrder(Stages')
    BY <1>1, <1>2, <1>5, MoveOrdered DEF Places, Order
  <2>2. Increasing(relayed)'
    BY <1>3 DEF Places, Order
  <2>. QED
    BY <2>1, <2>2 DEF Order, QueuesOrdered
<1>7. /\ \A j \in (0..5) \ {k - 1, k} : Stage(j)' = Stage(j)
      /\ Stage(k - 1)' = Stage(k - 1) \cup {x} /\ x \in Stage(k)
      /\ Stage(k)' \subseteq Stage(k) /\ Stage(k) \subseteq Stage(k)' \cup {x}
  BY <1>2, <1>5 DEF Moves
<1>8. ASSUME NEW d, GivenUp(d) PROVE GivenUp(d)'
  <2>1. CASE PluginGone
    <3>1. k # 1 /\ Stage(0)' = Stage(0)
      BY <2>1, <1>7
    <3>. QED
      BY <1>8, <2>1, <3>1 DEF GivenUp, GoneForGood
  <2>2. CASE RunGone /\ \A j \in 1..2 : \A y \in Stage(j) : y < d
    <3>1. k # 3
      BY <2>2
    <3>2. \A j \in 0..2 : \A y \in Stage(j)' : y < d
      BY <1>7, <1>8, <2>2, <3>1 DEF GivenUp
    <3>. QED
      BY <2>2, <3>2 DEF GivenUp, GoneForGood
  <2>3. CASE ListenGone /\ \A j \in 1..4 : \A y \in Stage(j) : y < d
    <3>1. k # 5
      BY <2>3
    <3>2. \A j \in 0..4 : \A y \in Stage(j)' : y < d
      BY <1>7, <1>8, <2>3, <3>1 DEF GivenUp
    <3>. QED
      BY <2>3, <3>2 DEF GivenUp, GoneForGood
  <2>. QED
    BY <1>8, <2>1, <2>2, <2>3 DEF GivenUp
<1>9. Accounted'
  <2>. SUFFICES ASSUME NEW d \in DataIds(received), ~GivenUp(d)' PROVE \E j \in 0..5 : d \in Stage(j)'
    BY DEF Accounted
  <2>1. PICK j \in 0..5 : d \in Stage(j)
    BY <1>8 DEF Places, Accounted
  <2>2. k - 1 \in 0..5
    OBVIOUS
  <2>. QED
    BY <1>7, <2>1, <2>2
<1>. QED
  BY <1>4, <1>6, <1>9 DEF Places

LEMMA PlacesDropped ==
  ASSUME IInv, Places, GoneForGood, QueuesOrdered', NEW k \in 1..5, NEW m \in Load(k), Dropped(k, m)
  PROVE  Places'
<1>. USE DEF Dropped
<1>. DEFINE x == m.id
<1>1. m.id \in DOMAIN received /\ received[m.id] = m
  BY DEF Places, Origin
<1>2. \A j \in 1..5 : Load(j)' \subseteq Load(j)
  OBVIOUS
<1>3. Origin'
  BY <1>2 DEF Places, Origin
<1>4. /\ \A j \in (0..5) \ {k} : Stage(j)' = Stage(j)
      /\ Stage(k) = {x} /\ Stage(k)' = {}
  <2>1. Stage(0)' = Stage(0)
    BY DEF Stage
  <2>2. \A j \in 1..5 : Stage(j) = {n.id : n \in Load(j)} /\ Stage(j)' = {n.id : n \in Load(j)'}
    BY DEF Stage
  <2>3. \A j \in (0..5) \ {k} : j = 0 \/ j \in (1..5) \ {k}
    OBVIOUS
  <2>. QED
    BY <2>1, <2>2, <2>3
<1>5. \A j \in 0..5 : Stages[j] = Stage(j) /\ Stages'[j] = Stage(j)'
  BY DEF Stages
<1>6. Drops(Stages, Stages', k, x)
  BY <1>4, <1>5 DEF Drops
<1>7. Order'
  BY <1>6, DropOrdered DEF Places, Order, QueuesOrdered
<1>8. \A j \in 0..5 : Stage(j)' \subseteq Stage(j)
  BY <1>4
<1>9. ASSUME NEW d, GivenUp(d) PROVE GivenUp(d)'
  BY <1>8, <1>9 DEF GivenUp, GoneForGood
<1>10. \A j \in 0..5 : j < k => \A y \in Stage(j)' : y < x
  BY <1>4, <1>5, <1>8 DEF Places, Order, InOrder
<1>11. m.kind = "data" => GivenUp(x)'
  <2>1. k > 0 /\ (k = 3 => 1 < k /\ 2 < k) /\ (k = 5 => 1 < k /\ 2 < k /\ 3 < k /\ 4 < k)
    OBVIOUS
  <2>2. \A y \in Stage(0)' : y < x
    BY <1>10
  <2>3. (k = 3 => \A j \in 1..2 : \A y \in Stage(j)' : y < x)
        /\ (k = 5 => \A j \in 1..4 : \A y \in Stage(j)' : y < x)
    BY <1>10
  <2>. QED
    BY <2>2, <2>3 DEF GivenUp
<1>12. x \in DataIds(received) => m.kind = "data"
  BY <1>1, StagesTyped DEF Places
<1>13. Accounted'
  <2>. SUFFICES ASSUME NEW d \in DataIds(received), ~GivenUp(d)' PROVE \E j \in 0..5 : d \in Stage(j)'
    BY DEF Accounted
  <2>1. PICK j \in 0..5 : d \in Stage(j)
    BY <1>9 DEF Places, Accounted
  <2>2. d # x
    BY <1>11, <1>12
  <2>. QED
    BY <1>4, <2>1, <2>2
<1>. QED
  BY <1>3, <1>7, <1>13 DEF Places

\* A message arrives.
LEMMA ReceiveEffect ==
  ASSUME IInv, Receive
  PROVE  \E m \in Messages :
           /\ m.id = Len(received) + 1 /\ received' = Append(received, m)
           /\ \A j \in 1..4 : Load(j)' = Load(j)
           /\ Load(5) = {} /\ Load(5)' = {m}
           /\ UNCHANGED <<nq, mq, relayed>>
<1>. USE DEF queues, process
<1>1. PICK m \in Messages : /\ m.id = Len(received) + 1 /\ received' = Append(received, m)
                            /\ Hold("listen", m) /\ Go("listen", "queue")
  BY DEF Receive
<1>2. UNCHANGED <<nq, mq, relayed, running>> /\ pc["listen"] = "receive"
  BY DEF Receive, At
<1>3. /\ pc'["run"] = pc["run"] /\ msg'["run"] = msg["run"] /\ pc'["plugin"] = pc["plugin"]
      /\ msg'["plugin"] = msg["plugin"] /\ pc'["listen"] = "queue" /\ msg'["listen"] = m
  BY <1>1 DEF IInv, Control, ControlTypeOK, Threads, Workers, Hold, Go
<1>4. /\ \A j \in 1..4 : Load(j)' = Load(j)
      /\ Load(5) = {} /\ Load(5)' = {m}
  <2>1. InHand("plugin", PluginIdle)' = InHand("plugin", PluginIdle)
        /\ InHand("run", RunIdle)' = InHand("run", RunIdle)
    BY <1>3 DEF InHand
  <2>2. \A j \in 1..4 : j = 1 \/ j = 2 \/ j = 3 \/ j = 4
    OBVIOUS
  <2>. QED
    BY <1>2, <1>3, <2>1, <2>2, Loads
<1>. QED
  BY <1>1, <1>2, <1>4

LEMMA PlacesReceived ==
  ASSUME IInv, Places, GoneForGood, Receive
  PROVE  Places'
<1>1. PICK m \in Messages :
        /\ m.id = Len(received) + 1 /\ received' = Append(received, m)
        /\ \A j \in 1..4 : Load(j)' = Load(j)
        /\ Load(5) = {} /\ Load(5)' = {m}
        /\ UNCHANGED <<nq, mq, relayed>>
  BY ReceiveEffect
<1>2. /\ DOMAIN received' = DOMAIN received \cup {m.id} /\ received'[m.id] = m
      /\ \A i \in DOMAIN received : received'[i] = received[i] /\ i < m.id
      /\ m.id \in Nat
  BY <1>1 DEF IInv, DataTypeOK
<1>3. DataIds(received) \subseteq DataIds(received')
      /\ DataIds(received') \subseteq DataIds(received) \cup {m.id}
  BY <1>2 DEF DataIds, Places, Origin
<1>4. Origin'
  <2>1. \A i \in DOMAIN received' : received'[i].id = i
    BY <1>2 DEF Places, Origin
  <2>2. \A j \in 1..5 : \A n \in Load(j)' : n.id \in DOMAIN received' /\ received'[n.id] = n
    BY <1>1, <1>2 DEF Places, Origin
  <2>3. Elems(relayed') \subseteq DataIds(received')
    BY <1>1, <1>3 DEF Places, Origin
  <2>. QED
    BY <2>1, <2>2, <2>3 DEF Origin
<1>5. /\ \A j \in 0..4 : Stage(j)' = Stage(j)
      /\ Stage(5) = {} /\ Stage(5)' = {m.id}
  BY <1>1, <1>1 DEF Stage
<1>6. Order'
  <2>1. InOrder(Stages')
    <3>. SUFFICES ASSUME NEW i \in 0..5, NEW j \in 0..5, i < j, NEW y \in Stage(i)', NEW z \in Stage(j)'
                  PROVE  y < z
      BY DEF InOrder, Stages
    <3>1. i \in 0..4 /\ y \in Stage(i)
      BY <1>5
    <3>2. CASE j = 5
      BY <1>2, <1>5, <3>1, <3>2, StagesTyped DEF Places
    <3>3. CASE j # 5
      BY <1>5, <3>1, <3>3 DEF Places, Order, InOrder, Stages
    <3>. QED
      BY <3>2, <3>3
  <2>. QED
    BY <1>1, <2>1 DEF Places, Order
<1>7. ASSUME NEW d, GivenUp(d) PROVE GivenUp(d)'
  BY <1>5, <1>7 DEF GivenUp, GoneForGood
<1>8. Accounted'
  <2>. SUFFICES ASSUME NEW d \in DataIds(received'), ~GivenUp(d)'
                PROVE  \E j \in 0..5 : d \in Stage(j)'
    BY DEF Accounted
  <2>1. CASE d = m.id
    BY <1>5, <2>1
  <2>2. CASE d \in DataIds(received)
    <3>1. PICK j \in 0..5 : d \in Stage(j)
      BY <1>7, <2>2 DEF Places, Accounted
    <3>. QED
      BY <1>5, <3>1
  <2>. QED
    BY <1>3, <2>1, <2>2
<1>. QED
  BY <1>4, <1>6, <1>8 DEF Places

-----------------------------------------------------------------------------
(* What the steps of the threads do to the stages.                            *)

\* The listen thread queues what it has received, or the queue is closed.
LEMMA EffectListen ==
  ASSUME IInv, Course, Places, Listen
  PROVE  Effect
<1>. USE DEF queues, process, history
<1>1. /\ UNCHANGED <<nq, relayed, received, running>>
      /\ pc'["run"] = pc["run"] /\ msg'["run"] = msg["run"]
      /\ pc'["plugin"] = pc["plugin"] /\ msg'["plugin"] = msg["plugin"]
  BY DEF Listen, ListenLoop, ReceiveFails, ListenRetry, QueueMessage, Go, Hold, IInv, Control,
         ControlTypeOK, Threads, Workers
<1>2. InHand("plugin", PluginIdle)' = InHand("plugin", PluginIdle)
      /\ InHand("run", RunIdle)' = InHand("run", RunIdle)
  BY <1>1 DEF InHand
<1>3. \A j \in 1..3 : Load(j)' = Load(j)
  <2>1. \A j \in 1..3 : j = 1 \/ j = 2 \/ j = 3
    OBVIOUS
  <2>. QED
    BY <1>1, <1>2, <2>1, Loads
<1>4. \A j \in 1..5 : j \in 1..3 \/ j = 4 \/ j = 5
  OBVIOUS
<1>5. CASE ListenLoop \/ ReceiveFails \/ ListenRetry
  <2>1. UNCHANGED mq /\ pc["listen"] # "queue" /\ pc'["listen"] # "queue"
    BY <1>5 DEF ListenLoop, ReceiveFails, ListenRetry, At, Go, IInv, Control, ControlTypeOK,
                Threads, Workers
  <2>2. Load(4)' = Load(4) /\ Load(5)' = Load(5)
    BY <2>1, Loads
  <2>3. \A j \in 1..5 : Load(j)' = Load(j)
    BY <1>3, <1>4, <2>2
  <2>. QED
    BY <1>1, <2>1, <2>3 DEF Effect, Kept, Places, Order, QueuesOrdered
<1>6. CASE QueueMessage
  <2>. DEFINE m == msg["listen"]
  <2>1. pc["listen"] = "queue" /\ pc'["listen"] \in {"done", "listen"} /\ m \in Messages
    BY <1>6 DEF QueueMessage, At, Go, IInv, Control, ControlTypeOK, Threads, Workers, Flow
  <2>2. Load(5) = {m} /\ Load(5)' = {}
    BY <2>1, Loads
  <2>3. CASE mqClosed
    <3>1. UNCHANGED mq /\ pc'["listen"] = "done"
      BY <1>6, <2>3 DEF QueueMessage, Go, IInv, Control, ControlTypeOK, Threads, Workers
    <3>2. \A j \in (1..5) \ {5} : Load(j)' = Load(j)
      BY <1>3, <1>4, <3>1, Loads
    <3>. QED
      <4>1. Dropped(5, m) /\ 5 \in 1..5 /\ m \in Load(5)
        BY <1>1, <2>2, <3>1, <3>2 DEF Dropped, ListenGone
      <4>. QED
        BY <1>1, <3>1, <4>1 DEF Effect, Places, Order, QueuesOrdered
  <2>4. CASE ~mqClosed
    <3>1. mq' = Append(mq, m)
      BY <1>6, <2>4 DEF QueueMessage
    <3>2. \A n \in Elems(mq) : n.id < m.id
      <4>1. \A n \in Elems(mq) : n.id \in Stages[4]
        BY Loads DEF Stages, Stage
      <4>2. m.id \in Stages[5]
        BY <2>2 DEF Stages, Stage
      <4>3. 4 \in 0..5 /\ 5 \in 0..5 /\ 4 < 5
        OBVIOUS
      <4>. QED
        BY <4>1, <4>2, <4>3 DEF Places, Order, InOrder
    <3>3. Elems(mq') = Elems(mq) \cup {m} /\ Increasing(IdsOf(mq'))
      BY <2>1, <3>1, <3>2, AppendInOrder DEF Places, Order, IInv, DataTypeOK
    <3>4. Load(4)' = Load(4) \cup {m}
      BY <3>3, Loads
    <3>5. /\ 5 \in 1..5 /\ m \in Load(5) /\ Load(5) = Load(5)' \cup {m}
          /\ \A n \in Load(5)' : m.id < n.id
          /\ \A j \in (1..5) \ {5 - 1, 5} : Load(j)' = Load(j)
          /\ 5 - 1 = 4 /\ 5 # 1 /\ 5 # 3
      BY <1>3, <1>4, <2>2
    <3>6. ~ListenGone
      BY <2>1 DEF ListenGone
    <3>. QED
      BY <1>1, <3>3, <3>4, <3>5, <3>6 DEF Effect, Moved, Places, Order, QueuesOrdered
  <2>. QED
    BY <2>3, <2>4
<1>. QED
  BY <1>5, <1>6 DEF Listen

\* The run thread takes a message, forwards it if it is data and is done with it
\* otherwise.
LEMMA EffectRun ==
  ASSUME IInv, Course, Places, Run
  PROVE  Effect
<1>. USE DEF queues, process, history
<1>1. /\ UNCHANGED <<relayed, received, running>>
      /\ pc'["listen"] = pc["listen"] /\ msg'["listen"] = msg["listen"]
      /\ pc'["plugin"] = pc["plugin"] /\ msg'["plugin"] = msg["plugin"]
  <2>1. CASE RunPop
    <3>1. Head(mq).kind \in ServiceKinds \cup DataKinds
      <4>1. Head(mq) \in Messages
        BY <2>1 DEF RunPop, IInv, DataTypeOK
      <4>. QED
        BY <4>1 DEF Messages
    <3>2. \E l : Go("run", l)
      BY <2>1, <3>1 DEF RunPop, ServiceKinds, DataKinds, Post
    <3>. QED
      BY <2>1, <3>2 DEF RunPop, Go, Hold, IInv, Control, ControlTypeOK, Threads, Workers
  <2>2. CASE RunLoop \/ RunClosed \/ Forward \/ Provide \/ Register \/ Remove \/ ExpelCrashes \/ RunReturn
    BY <2>2 DEF RunLoop, RunClosed, Forward, Provide, Register, Remove, ExpelCrashes, RunReturn, Go, Hold, Post,
                IInv, Control, ControlTypeOK, Threads, Workers
  <2>. QED
    BY <2>1, <2>2 DEF Run
<1>2. Load(1)' = Load(1) /\ Load(5)' = Load(5)
  <2>1. InHand("plugin", PluginIdle)' = InHand("plugin", PluginIdle)
    BY <1>1 DEF InHand
  <2>. QED
    BY <1>1, <2>1, Loads
<1>3. \A j \in 1..5 : j = 1 \/ j = 2 \/ j = 3 \/ j = 4 \/ j = 5
  OBVIOUS
<1>4. pc["run"] \in Labels /\ pc \in [Threads -> Labels] /\ msg \in [Threads -> Messages \cup {None}]
      /\ "run" \in Threads
  BY DEF IInv, Control, ControlTypeOK, Threads, Workers
<1>5. CASE RunLoop \/ RunClosed \/ Provide \/ ExpelCrashes \/ RunReturn
  <2>1. UNCHANGED <<mq, nq>> /\ \/ pc["run"] \in RunIdle /\ pc'["run"] \in RunIdle
                                \/ pc["run"] \notin RunIdle /\ pc'["run"] \notin RunIdle
                                   /\ msg' = msg
    BY <1>4, <1>5 DEF RunLoop, RunClosed, Provide, ExpelCrashes, RunReturn, At, Go, Post, RunIdle
  <2>2. InHand("run", RunIdle)' = InHand("run", RunIdle)
    BY <2>1 DEF InHand
  <2>3. \A j \in 1..5 : Load(j)' = Load(j)
    BY <1>2, <1>3, <2>1, <2>2, Loads
  <2>. QED
    BY <1>1, <2>1, <2>3 DEF Effect, Kept, Places, Order, QueuesOrdered
<1>6. CASE RunPop
  <2>. DEFINE m == Head(mq)
  <2>1. mq # <<>> /\ mq' = Tail(mq) /\ mq \in Seq(Messages) /\ nq' = nq
    BY <1>6 DEF RunPop, IInv, DataTypeOK
  <2>2. /\ Elems(mq) = Elems(mq') \cup {m} /\ m \in Messages
        /\ \A n \in Elems(mq') : m.id < n.id
        /\ Increasing(IdsOf(mq'))
    BY <2>1, TailInOrder DEF Places, Order
  <2>3. pc["run"] = "pop" /\ msg'["run"] = m /\ pc'["run"] \notin RunIdle
    <3>1. m.kind \in ServiceKinds \cup DataKinds
      BY <2>2 DEF Messages
    <3>2. \E l \in Labels \ RunIdle : Go("run", l)
      BY <1>6, <3>1 DEF RunPop, ServiceKinds, DataKinds, Labels, RunIdle, Post
    <3>. QED
      BY <1>4, <1>6, <3>2 DEF RunPop, At, Go, Hold
  <2>4. Load(3) = {} /\ Load(3)' = {m}
    BY <2>3, Loads DEF InHand, RunIdle
  <2>5. Load(2)' = Load(2) /\ Load(4) = Load(4)' \cup {m} /\ Load(4)' = Elems(mq')
    BY <2>1, <2>2, Loads
  <2>6. /\ 4 \in 1..5 /\ m \in Load(4) /\ 4 - 1 = 3 /\ 4 # 1 /\ 4 # 3 /\ 4 # 5
        /\ \A n \in Load(4)' : m.id < n.id
        /\ \A j \in (1..5) \ {4 - 1, 4} : Load(j)' = Load(j)
        /\ Load(3)' = Load(3) \cup {m}
    BY <1>2, <1>3, <2>2, <2>4, <2>5
  <2>. QED
    BY <1>1, <2>1, <2>2, <2>5, <2>6 DEF Effect, Moved, Places, Order, QueuesOrdered
<1>7. CASE Forward \/ Register \/ Remove
  <2>. DEFINE m == msg["run"]
  <2>1. pc["run"] \in {"forward", "register", "remove"} /\ pc'["run"] \in RunIdle /\ mq' = mq
        /\ m \in Messages
    BY <1>4, <1>7 DEF Forward, Register, Remove, At, Go, RunIdle, IInv, Control, Flow
  <2>2. Load(3) = {m} /\ Load(3)' = {}
    BY <2>1, Loads DEF InHand, RunIdle
  <2>3. Load(4)' = Load(4)
    BY <2>1, Loads
  <2>4. CASE Register \/ Remove
    <3>1. UNCHANGED nq /\ m.kind \in ServiceKinds
      BY <2>4 DEF Register, Remove, Course, Path, RunIdle, At
    <3>2. \A j \in (1..5) \ {3} : Load(j)' = Load(j)
      BY <1>2, <1>3, <2>3, <3>1, Loads
    <3>3. m.kind # "data" /\ 3 \in 1..5
      BY <3>1 DEF ServiceKinds
    <3>. QED
      BY <1>1, <2>1, <2>2, <3>1, <3>2, <3>3 DEF Effect, Dropped, Places, Order, QueuesOrdered
  <2>5. CASE Forward /\ nqClosed
    <3>1. UNCHANGED nq /\ pc'["run"] = "return"
      BY <1>4, <2>5 DEF Forward, Go
    <3>2. \A j \in (1..5) \ {3} : Load(j)' = Load(j)
      BY <1>2, <1>3, <2>3, <3>1, Loads
    <3>. QED
      BY <1>1, <2>1, <2>2, <3>1, <3>2 DEF Effect, Dropped, Places, Order, QueuesOrdered, RunGone
  <2>6. CASE Forward /\ ~nqClosed
    <3>1. nq' = Append(nq, m)
      BY <2>6 DEF Forward
    <3>2. \A n \in Elems(nq) : n.id < m.id
      <4>1. \A n \in Elems(nq) : n.id \in Stages[2]
        BY Loads DEF Stages, Stage
      <4>2. m.id \in Stages[3]
        BY <2>2 DEF Stages, Stage
      <4>3. 2 \in 0..5 /\ 3 \in 0..5 /\ 2 < 3
        OBVIOUS
      <4>. QED
        BY <4>1, <4>2, <4>3 DEF Places, Order, InOrder
    <3>3. Elems(nq') = Elems(nq) \cup {m} /\ Increasing(IdsOf(nq'))
      BY <2>1, <3>1, <3>2, AppendInOrder DEF Places, Order, IInv, DataTypeOK
    <3>4. Load(2)' = Load(2) \cup {m}
      BY <3>3, Loads
    <3>5. /\ 3 \in 1..5 /\ m \in Load(3) /\ Load(3) = Load(3)' \cup {m}
          /\ \A n \in Load(3)' : m.id < n.id
          /\ \A j \in (1..5) \ {3 - 1, 3} : Load(j)' = Load(j)
          /\ 3 - 1 = 2 /\ 3 # 1 /\ 3 # 5
      BY <1>2, <1>3, <2>2, <2>3
    <3>6. ~RunGone
      BY <2>1 DEF RunGone
    <3>. QED
      <4>1. m.kind \in DataKinds
        BY <2>6 DEF Forward, At, Course, Path
      <4>2. Moved(3, m)
        BY <1>1, <3>4, <3>5, <3>6, <4>1 DEF Moved
      <4>. QED
        BY <2>1, <3>3, <3>5, <4>2 DEF Effect, Places, Order, QueuesOrdered
  <2>. QED
    BY <1>7, <2>4, <2>5, <2>6
<1>. QED
  BY <1>5, <1>6, <1>7 DEF Run

\* The plugin thread takes a message and keeps it until it has been sent.
LEMMA EffectPlugin ==
  ASSUME IInv, Course, Places, Plugin
  PROVE  Effect
<1>. USE DEF queues, process, history
<1>1. /\ UNCHANGED <<relayed, received, running, mq>>
      /\ pc'["listen"] = pc["listen"] /\ msg'["listen"] = msg["listen"]
      /\ pc'["run"] = pc["run"] /\ msg'["run"] = msg["run"]
  BY DEF Plugin, PluginLoop, PluginPop, Write, WriteRefused, WriteFails, PassOver, NotConnected, DbConnect, DbConnected, Processed,
         Handled, Go, Hold, Post, IInv, Control, ControlTypeOK, Threads, Workers
<1>2. \A j \in 3..5 : Load(j)' = Load(j)
  <2>1. InHand("run", RunIdle)' = InHand("run", RunIdle)
    BY <1>1 DEF InHand
  <2>2. \A j \in 3..5 : j = 3 \/ j = 4 \/ j = 5
    OBVIOUS
  <2>. QED
    BY <1>1, <2>1, <2>2, Loads
<1>3. \A j \in 1..5 : j = 1 \/ j = 2 \/ j \in 3..5
  OBVIOUS
<1>4. pc \in [Threads -> Labels] /\ msg \in [Threads -> Messages \cup {None}] /\ "plugin" \in Threads
  BY DEF IInv, Control, ControlTypeOK, Threads, Workers
<1>5. CASE PluginPop /\ ~nqClosed
  <2>. DEFINE m == Head(nq)
  <2>1. nq # <<>> /\ nq' = Tail(nq) /\ nq \in Seq(Messages)
    BY <1>5 DEF PluginPop, IInv, DataTypeOK
  <2>2. /\ Elems(nq) = Elems(nq') \cup {m} /\ m \in Messages
        /\ \A n \in Elems(nq') : m.id < n.id
        /\ Increasing(IdsOf(nq'))
    BY <2>1, TailInOrder DEF Places, Order
  <2>3. pc["plugin"] = "npop" /\ msg'["plugin"] = m /\ pc'["plugin"] = "write"
    BY <1>4, <1>5 DEF PluginPop, At, Go, Hold
  <2>4. Load(1) = {} /\ Load(1)' = {m}
    BY <2>3, Loads DEF InHand, PluginIdle
  <2>5. Load(2) = Load(2)' \cup {m} /\ Load(2)' = Elems(nq')
    BY <2>1, <2>2, Loads
  <2>6. /\ 2 \in 1..5 /\ m \in Load(2) /\ 2 - 1 = 1 /\ 2 # 1 /\ 2 # 3 /\ 2 # 5
        /\ \A n \in Load(2)' : m.id < n.id
        /\ \A j \in (1..5) \ {2 - 1, 2} : Load(j)' = Load(j)
        /\ Load(1)' = Load(1) \cup {m}
    BY <1>2, <1>3, <2>2, <2>4, <2>5
  <2>. QED
    BY <1>1, <2>2, <2>5, <2>6 DEF Effect, Moved, Places, Order, QueuesOrdered
<1>6. CASE \/ PluginLoop \/ Write \/ WriteRefused \/ WriteFails \/ PassOver \/ NotConnected \/ DbConnect
           \/ DbConnected \/ Processed \/ Handled \/ (PluginPop /\ nqClosed)
  <2>1. UNCHANGED nq /\ \/ pc["plugin"] \in PluginIdle /\ pc'["plugin"] \in PluginIdle
                        \/ pc["plugin"] \notin PluginIdle /\ pc'["plugin"] \notin PluginIdle
                           /\ msg' = msg
    BY <1>4, <1>6 DEF PluginLoop, PluginPop, Write, WriteRefused, WriteFails, PassOver, NotConnected, DbConnect, DbConnected, Processed,
                      Handled, At, Go, Post, PluginIdle
  <2>2. InHand("plugin", PluginIdle)' = InHand("plugin", PluginIdle)
    BY <2>1 DEF InHand
  <2>3. \A j \in 1..5 : Load(j)' = Load(j)
    BY <1>2, <1>3, <2>1, <2>2, Loads
  <2>. QED
    BY <1>1, <2>1, <2>3 DEF Effect, Kept, Places, Order, QueuesOrdered
<1>. QED
  BY <1>5, <1>6 DEF Plugin

\* A thread that leaves sendRaw() is done with the message, if that was what it sent
\* for: the run thread with a request, the plugin thread with data.
LEMMA EffectSent ==
  ASSUME IInv, Course, Places, NEW t \in Threads,
         pc[t] \in {"sending", "sendFailed"}, FinishSend(t),
         UNCHANGED <<msg, running, mq, nq, received>>,
         \/ Sent(t)
         \/ ~running /\ UNCHANGED relayed
  PROVE  Effect
<1>1. /\ pc' = [pc EXCEPT ![t] = AfterSend(letter[t])] /\ pc \in [Threads -> Labels]
      /\ pc'[t] = AfterSend(letter[t])
  BY DEF FinishSend, Go, IInv, Control, ControlTypeOK
<1>2. t \in {"run", "plugin", "signal"} /\ letter[t] \in Letters
  BY DEF IInv, Control, Flow, ListenLabels, SendLabels, Threads, Workers
<1>3. \A u \in Threads \ {t} : pc'[u] = pc[u]
  BY <1>1
<1>4. {"listen", "run", "plugin"} \subseteq Threads
  BY DEF Threads, Workers
<1>5. Load(2)' = Load(2) /\ Load(4)' = Load(4) /\ Load(5)' = Load(5)
  BY <1>2, <1>3, <1>4, Loads
<1>6. \A j \in 1..5 : j = 1 \/ j = 2 \/ j = 3 \/ j = 4 \/ j = 5
  OBVIOUS
<1>7. t # "run" => Load(3)' = Load(3)
  BY <1>3, <1>4, Loads DEF InHand
<1>8. t # "plugin" => Load(1)' = Load(1)
  BY <1>3, <1>4, Loads DEF InHand
<1>9. QueuesOrdered'
  BY DEF QueuesOrdered, Places, Order
<1>10. t # "plugin" => relayed' = relayed
  BY <1>2 DEF Sent, IInv, Control, Flow
<1>11. CASE t = "signal"
  BY <1>5, <1>6, <1>7, <1>8, <1>9, <1>10, <1>11 DEF Effect, Kept
<1>12. CASE t = "run"
  <2>1. letter["run"] \in {"ok", "service", "expel", "reply"} /\ pc["run"] \notin RunIdle \cup {"forward"}
    BY <1>2, <1>12, ConstantAssumption DEF Course, Path, RunIdle, Letters
  <2>2. CASE letter["run"] = "reply"
    <3>1. pc'["run"] \in RunIdle
      BY <1>1, <1>12, <2>2 DEF AfterSend, RunIdle
    <3>2. Load(3) = {msg["run"]} /\ Load(3)' = {}
      BY <2>1, <3>1, Loads DEF InHand
    <3>3. msg["run"].kind # "data" /\ 3 \in 1..5
      BY <2>1 DEF Course, Path, ServiceKinds
    <3>4. \A j \in (1..5) \ {3} : Load(j)' = Load(j)
      BY <1>5, <1>6, <1>8, <1>12
    <3>. QED
      BY <1>9, <1>10, <1>12, <3>2, <3>3, <3>4 DEF Effect, Dropped
  <2>3. CASE letter["run"] # "reply"
    <3>1. pc'["run"] \notin RunIdle
      BY <1>1, <1>12, <2>1, <2>3 DEF AfterSend, RunIdle
    <3>2. Load(3)' = Load(3)
      BY <2>1, <3>1, Loads DEF InHand
    <3>. QED
      BY <1>5, <1>6, <1>8, <1>9, <1>10, <1>12, <3>2 DEF Effect, Kept
  <2>. QED
    BY <2>2, <2>3
<1>13. CASE t = "plugin"
  <2>. DEFINE m == msg["plugin"]
  <2>1. letter["plugin"] \in {"data", "syncReply", "farewell"} /\ pc["plugin"] \notin PluginIdle
    BY <1>2, <1>13, ConstantAssumption DEF Course, Path, PluginIdle, Letters
  <2>2. Load(1) = {m} /\ m \in Load(1) /\ 1 \in 1..5
    BY <2>1, Loads DEF InHand
  <2>3. \A j \in (1..5) \ {1} : Load(j)' = Load(j)
    BY <1>5, <1>6, <1>7, <1>13
  <2>4. CASE letter["plugin"] = "farewell"
    <3>1. pc'["plugin"] \notin PluginIdle
      BY <1>1, <1>13, <2>4 DEF AfterSend, PluginIdle
    <3>2. Load(1)' = Load(1) /\ relayed' = relayed
      BY <1>13, <2>1, <2>4, <3>1, Loads DEF InHand, Sent
    <3>. QED
      BY <1>5, <1>6, <1>7, <1>9, <1>13, <3>2 DEF Effect, Kept
  <2>5. CASE letter["plugin"] # "farewell"
    <3>1. pc'["plugin"] = "nloop"
      BY <1>1, <1>13, <2>1, <2>5 DEF AfterSend
    <3>2. Load(1)' = {}
      BY <3>1, Loads DEF InHand, PluginIdle
    <3>3. CASE Sent(t) /\ letter["plugin"] = "data"
      <4>1. relayed' = Append(relayed, m.id)
        BY <1>13, <3>3 DEF Sent
      <4>2. m.kind = "data" /\ ~PluginGone
        BY <1>13, <2>1, <3>3 DEF Course, Path, SendLabels, PluginGone, PluginIdle
      <4>3. /\ Load(1) = Load(1)' \cup {m} /\ \A n \in Load(1)' : m.id < n.id
            /\ \A j \in (1..5) \ {1 - 1, 1} : Load(j)' = Load(j)
        BY <2>2, <2>3, <3>2
      <4>. QED
        BY <1>9, <2>2, <4>1, <4>2, <4>3 DEF Effect, Moved
    <3>4. CASE ~running \/ letter["plugin"] = "syncReply"
      <4>1. relayed' = relayed \/ (Sent(t) /\ letter["plugin"] = "data")
        BY <1>13, <2>1, <2>5 DEF Sent
      <4>2. PluginGone' \/ m.kind # "data"
        <5>1. running' = running
          OBVIOUS
        <5>2. letter["plugin"] = "syncReply" => m.kind = "sync"
          BY <1>13 DEF Course, Path, SendLabels
        <5>. QED
          BY <3>1, <3>4, <5>1, <5>2 DEF PluginGone
      <4>. QED
        BY <1>9, <2>2, <2>3, <3>2, <3>3, <4>1, <4>2 DEF Effect, Dropped
    <3>. QED
      BY <2>1, <2>5, <3>3, <3>4
  <2>. QED
    BY <2>4, <2>5
<1>. QED
  BY <1>2, <1>11, <1>12, <1>13

\* What several threads do leaves the message in their hands, but for the end of
\* sendRaw().
LEMMA EffectShared ==
  ASSUME IInv, Course, Places, NEW t \in Threads, Shared(t)
  PROVE  Effect
<1>. USE DEF queues, process, history
<1>1. CASE Sent(t)
  BY <1>1, EffectSent DEF Sent, At
<1>2. CASE GivesUpSend(t)
  BY <1>2, EffectSent DEF GivesUpSend, SendRetry, SendTooLong, At, KeepsTrying
<1>3. CASE \/ TakeReconnect(t) \/ LeaveReconnect(t) \/ TakeSend(t) \/ SendFails(t)
           \/ KeepsSending(t)
           \/ Stop(t) \/ ClosePlugin(t) \/ DisablePlugin(t) \/ CloseQueue(t) \/ LeaveSession(t)
  <2>1. UNCHANGED <<msg, mq, nq, received, relayed>>
    BY <1>3 DEF TakeReconnect, LeaveReconnect, TakeSend, SendFails, KeepsSending, SendTooLong, SendRetry, Stop,
                ClosePlugin, DisablePlugin, CloseQueue, LeaveSession
  <2>2. /\ pc \in [Threads -> Labels] /\ pc' = [pc EXCEPT ![t] = pc'[t]]
        /\ pc[t] \in SendLabels \cup StopLabels \cup {"stop"}
        /\ t # "listen" => pc'[t] \in SendLabels \cup StopLabels \cup {"handled", "exit"}
        /\ t = "listen" => pc'[t] # "queue"
    BY <1>3 DEF TakeReconnect, LeaveReconnect, TakeSend, SendFails, KeepsSending, SendTooLong, SendRetry, Stop,
                ClosePlugin, DisablePlugin, CloseQueue, LeaveSession, At, Go, Post, SendLabels, StopLabels,
                AfterReconnect, KeepsTrying, IInv, Control, ControlTypeOK
  <2>3. \A u \in Threads : pc'[u] = pc[u] \/ u = t
    BY <2>2
  <2>4. InHand("plugin", PluginIdle)' = InHand("plugin", PluginIdle)
    BY <2>1, <2>2, <2>3 DEF InHand, PluginIdle, SendLabels, StopLabels, Threads, Workers
  <2>5. InHand("run", RunIdle)' = InHand("run", RunIdle)
    BY <2>1, <2>2, <2>3 DEF InHand, RunIdle, SendLabels, StopLabels, Threads, Workers
  <2>6. Load(5)' = Load(5)
    BY <2>1, <2>2, <2>3, Loads DEF SendLabels, StopLabels, Threads, Workers
  <2>7. \A j \in 1..5 : j = 1 \/ j = 2 \/ j = 3 \/ j = 4 \/ j = 5
    OBVIOUS
  <2>8. \A j \in 1..5 : Load(j)' = Load(j)
    BY <2>1, <2>4, <2>5, <2>6, <2>7, Loads
  <2>. QED
    BY <2>1, <2>8 DEF Effect, Kept, Places, Order, QueuesOrdered
<1>. QED
  BY <1>1, <1>2, <1>3 DEF Shared, GivesUpSend, KeepsSending

\* What happens outside of the pipeline leaves it alone.
LEMMA EffectOutside ==
  ASSUME IInv, Places, Exit \/ Signal \/ Break \/ LeaveUnseen \/ DbLost
  PROVE  Effect
<1>. USE DEF queues, process, history
<1>1. UNCHANGED <<msg, mq, nq, received, relayed>>
  BY DEF Exit, Signal, Break, LeaveUnseen, DbLost
<1>2. \A u \in Workers : pc'[u] = pc[u]
  BY DEF Exit, Signal, Break, LeaveUnseen, DbLost, Go, IInv, Control, ControlTypeOK, Threads, Workers
<1>3. InHand("plugin", PluginIdle)' = InHand("plugin", PluginIdle)
      /\ InHand("run", RunIdle)' = InHand("run", RunIdle)
  BY <1>1, <1>2 DEF InHand, Workers
<1>4. \A j \in 1..5 : j = 1 \/ j = 2 \/ j = 3 \/ j = 4 \/ j = 5
  OBVIOUS
<1>5. \A j \in 1..5 : Load(j)' = Load(j)
  BY <1>1, <1>2, <1>3, <1>4, Loads DEF Workers
<1>. QED
  BY <1>1, <1>5 DEF Effect, Kept, Places, Order, QueuesOrdered

-----------------------------------------------------------------------------
(* The theorems.                                                              *)

LEMMA InitPipeline == Init => PipelineInv
<1>. SUFFICES ASSUME Init PROVE PipelineInv
  OBVIOUS
<1>1. IInv
  BY InitInvariant
<1>2. Course
  BY ConstantAssumption DEF Init, Course, Path, Stopping, RunLabels, PluginLabels, SignalLabels,
     RunIdle, PluginIdle, StopLabels, SendLabels, Threads, Workers
<1>3. /\ DOMAIN received = {} /\ Elems(relayed) = {} /\ Elems(nq) = {} /\ Elems(mq) = {}
      /\ DOMAIN relayed = {} /\ DOMAIN nq = {} /\ DOMAIN mq = {}
  BY DEF Init, Elems
<1>4. /\ \A j \in 1..5 : Load(j) = {}
      /\ \A k \in 0..5 : Stage(k) = {}
  <2>1. InHand("plugin", PluginIdle) = {} /\ InHand("run", RunIdle) = {} /\ Load(5) = {}
    BY Loads DEF Init, InHand, PluginIdle, RunIdle
  <2>2. \A j \in 0..5 : j = 0 \/ j = 1 \/ j = 2 \/ j = 3 \/ j = 4 \/ j = 5
    OBVIOUS
  <2>3. \A j \in 1..5 : Load(j) = {}
    BY <1>3, <2>1, <2>2, Loads
  <2>4. \A k \in 0..5 : Stage(k) = {}
    BY <1>3, <2>2, <2>3 DEF Stage
  <2>. QED
    BY <2>3, <2>4
<1>5. Origin
  BY <1>3, <1>4 DEF Origin
<1>6. Order
  <2>1. InOrder(Stages)
    BY <1>4 DEF InOrder, Stages
  <2>. QED
    BY <1>3, <2>1 DEF Order, Increasing, IdsOf
<1>7. Accounted
  BY <1>3 DEF Accounted, DataIds
<1>. QED
  BY <1>1, <1>2, <1>5, <1>6, <1>7 DEF PipelineInv, Places

\* The steps of the threads as steps of the stages.
LEMMA StepEffect ==
  ASSUME IInv, Course, Places, [Next]_vars
  PROVE  Effect \/ Receive
<1>1. CASE Listen
  BY <1>1, EffectListen
<1>2. CASE Run
  BY <1>2, EffectRun
<1>3. CASE Plugin
  BY <1>3, EffectPlugin
<1>4. CASE \E t \in Threads : Shared(t)
  BY <1>4, EffectShared
<1>5. CASE Exit \/ Signal \/ Break \/ LeaveUnseen \/ DbLost
  BY <1>5, EffectOutside
<1>6. CASE UNCHANGED vars
  <2>1. UNCHANGED <<pc, msg, nq, mq, received, relayed>>
    BY <1>6 DEF vars, queues, history
  <2>2. \A j \in 1..5 : Load(j)' = Load(j)
    BY <2>1 DEF Load, InHand
  <2>. QED
    BY <2>1, <2>2 DEF Effect, Kept, Places, Order, QueuesOrdered
<1>. QED
  BY <1>1, <1>2, <1>3, <1>4, <1>5, <1>6 DEF Next

LEMMA StepPipeline == PipelineInv /\ [Next]_vars => PipelineInv'
<1>. SUFFICES ASSUME PipelineInv, [Next]_vars PROVE PipelineInv'
  OBVIOUS
<1>. USE DEF PipelineInv
<1>1. IInv'
  BY StepInvariant
<1>2. Course'
  <2>1. CASE UNCHANGED vars
    BY <2>1 DEF Course, Path, Stopping, vars, queues, process
  <2>. QED
    BY <2>1, CourseListen, CourseRun, CoursePlugin, CourseShared, CourseOutside DEF Next
<1>3. GoneForGood
  <2>1. CASE UNCHANGED vars
    BY <2>1 DEF GoneForGood, PluginGone, RunGone, ListenGone, vars, process
  <2>. QED
    BY <2>1, GoneStays DEF GoneForGood
<1>4. Places'
  BY <1>3, StepEffect, PlacesKept, PlacesMoved, PlacesDropped, PlacesReceived DEF Effect
<1>. QED
  BY <1>1, <1>2, <1>4

\* The inductive invariant of the pipeline holds in every reachable state.
THEOREM PipelineInvariance == Spec => []PipelineInv
<1>. QED
  BY InitPipeline, StepPipeline, PTL DEF Spec

\* What has been relayed is in the order of arrival and has no gap: a message that is
\* missing is behind it, in a stage or given up.
LEMMA PipelineRelays == PipelineInv => RelayedInOrder
<1>. SUFFICES ASSUME PipelineInv PROVE RelayedInOrder
  OBVIOUS
<1>. USE DEF PipelineInv, Places
<1>1. ASSUME NEW k \in Elems(relayed), NEW i \in DataIds(received), i < k PROVE i \in Elems(relayed)
  <2>1. k \in Stages[0] /\ k \in Stage(0) /\ k \in Nat /\ i \in Nat
    BY StagesTyped DEF Stages, Stage
  <2>2. ~GivenUp(i)
    BY <1>1, <2>1 DEF GivenUp
  <2>3. PICK j \in 0..5 : i \in Stage(j)
    BY <2>2 DEF Accounted
  <2>4. CASE j = 0
    BY <2>3, <2>4 DEF Stage
  <2>5. CASE j # 0
    <3>1. 0 < j /\ i \in Stages[j] /\ 0 \in 0..5
      BY <2>3, <2>5 DEF Stages
    <3>2. k < i
      BY <2>1, <3>1 DEF Order, InOrder
    <3>. QED
      BY <1>1, <2>1, <3>2
  <2>. QED
    BY <2>4, <2>5
<1>. QED
  BY <1>1 DEF RelayedInOrder, Order, Origin

\* Two rows of messages, the first of which arrived before the second.
LEMMA JoinInOrder ==
  ASSUME NEW a \in Seq(Messages), NEW b \in Seq(Messages), Increasing(IdsOf(a)), Increasing(IdsOf(b)),
         \A m \in Elems(a), n \in Elems(b) : m.id < n.id
  PROVE  /\ a \o b \in Seq(Messages) /\ Elems(a \o b) = Elems(a) \cup Elems(b)
         /\ Increasing(IdsOf(a \o b))
<1>. DEFINE c == a \o b
<1>1. /\ DOMAIN c = 1..(Len(a) + Len(b)) /\ DOMAIN a = 1..Len(a) /\ DOMAIN b = 1..Len(b)
      /\ Len(a) \in Nat /\ Len(b) \in Nat
      /\ \A i \in DOMAIN c : c[i] = IF i <= Len(a) THEN a[i] ELSE b[i - Len(a)]
      /\ c \in Seq(Messages)
  OBVIOUS
<1>. HIDE DEF c
<1>2. /\ \A i \in DOMAIN a : i \in DOMAIN c /\ c[i] = a[i]
      /\ \A i \in DOMAIN b : i + Len(a) \in DOMAIN c /\ c[i + Len(a)] = b[i]
      /\ \A i \in DOMAIN c : \/ i \in DOMAIN a /\ c[i] = a[i]
                             \/ i - Len(a) \in DOMAIN b /\ c[i] = b[i - Len(a)] /\ Len(a) < i
  BY <1>1
<1>3. Elems(c) = Elems(a) \cup Elems(b)
  <2>1. Elems(c) \subseteq Elems(a) \cup Elems(b)
    BY <1>2 DEF Elems
  <2>2. Elems(a) \cup Elems(b) \subseteq Elems(c)
    BY <1>2 DEF Elems
  <2>. QED
    BY <2>1, <2>2
<1>4. ASSUME NEW i \in DOMAIN c, NEW j \in DOMAIN c, i < j PROVE c[i].id < c[j].id
  <2>1. CASE i \in DOMAIN a /\ c[i] = a[i] /\ j \in DOMAIN a /\ c[j] = a[j]
    BY <1>4, <2>1 DEF Increasing, IdsOf
  <2>2. CASE i \in DOMAIN a /\ c[i] = a[i] /\ j - Len(a) \in DOMAIN b /\ c[j] = b[j - Len(a)]
    BY <2>2 DEF Elems
  <2>3. CASE i - Len(a) \in DOMAIN b /\ c[i] = b[i - Len(a)] /\ j - Len(a) \in DOMAIN b /\ c[j] = b[j - Len(a)]
    <3>1. i - Len(a) < j - Len(a)
      BY <1>1, <1>4
    <3>. QED
      BY <2>3, <3>1 DEF Increasing, IdsOf
  <2>4. ~(j \in DOMAIN a /\ Len(a) < i)
    BY <1>1, <1>4
  <2>. QED
    BY <1>2, <2>1, <2>2, <2>3, <2>4
<1>5. Increasing(IdsOf(c))
  BY <1>4 DEF Increasing, IdsOf
<1>. QED
  BY <1>1, <1>3, <1>5 DEF c

\* The numbers relayed, and those of a row of messages behind them.
LEMMA RelayedThenBehind ==
  ASSUME NEW a \in Seq(Nat), NEW b \in Seq(Messages), Increasing(a), Increasing(IdsOf(b)),
         \A x \in Elems(a), n \in Elems(b) : x < n.id
  PROVE  Increasing(a \o IdsOf(b))
<1>. DEFINE c == a \o IdsOf(b)
<1>1. IdsOf(b) \in Seq(1..MaxMessages) /\ Len(IdsOf(b)) = Len(b)
  <2>1. DOMAIN b = 1..Len(b) /\ Len(b) \in Nat /\ \A i \in 1..Len(b) : b[i] \in Messages
    OBVIOUS
  <2>2. \A i \in 1..Len(b) : b[i].id \in 1..MaxMessages
    BY <2>1 DEF Messages
  <2>3. IdsOf(b) = [i \in 1..Len(b) |-> b[i].id]
    BY <2>1 DEF IdsOf
  <2>. QED
    BY <2>1, <2>2, <2>3
<1>2. /\ DOMAIN c = 1..(Len(a) + Len(b)) /\ DOMAIN a = 1..Len(a) /\ DOMAIN b = 1..Len(b)
      /\ Len(a) \in Nat /\ Len(b) \in Nat
      /\ \A i \in DOMAIN c : c[i] = IF i <= Len(a) THEN a[i] ELSE IdsOf(b)[i - Len(a)]
  BY <1>1
<1>. HIDE DEF c
<1>3. \A i \in DOMAIN c : \/ i \in DOMAIN a /\ c[i] = a[i]
                          \/ i - Len(a) \in DOMAIN b /\ c[i] = b[i - Len(a)].id /\ Len(a) < i
  <2>1. \A i \in DOMAIN b : IdsOf(b)[i] = b[i].id
    BY DEF IdsOf
  <2>2. \A i \in DOMAIN c : \/ i \in DOMAIN a /\ i <= Len(a)
                            \/ i - Len(a) \in DOMAIN b /\ Len(a) < i /\ ~(i <= Len(a))
    BY <1>2
  <2>. QED
    BY <1>2, <2>1, <2>2
<1>4. ASSUME NEW i \in DOMAIN c, NEW j \in DOMAIN c, i < j PROVE c[i] < c[j]
  <2>1. CASE i \in DOMAIN a /\ c[i] = a[i] /\ j \in DOMAIN a /\ c[j] = a[j]
    BY <1>4, <2>1 DEF Increasing
  <2>2. CASE i \in DOMAIN a /\ c[i] = a[i] /\ j - Len(a) \in DOMAIN b /\ c[j] = b[j - Len(a)].id
    BY <2>2 DEF Elems
  <2>3. CASE i - Len(a) \in DOMAIN b /\ c[i] = b[i - Len(a)].id
             /\ j - Len(a) \in DOMAIN b /\ c[j] = b[j - Len(a)].id
    <3>1. i - Len(a) < j - Len(a)
      BY <1>2, <1>4
    <3>. QED
      BY <2>3, <3>1 DEF Increasing, IdsOf
  <2>4. ~(j \in DOMAIN a /\ Len(a) < i)
    BY <1>2, <1>4
  <2>. QED
    BY <1>3, <2>1, <2>2, <2>3, <2>4
<1>. QED
  BY <1>4 DEF Increasing, c

\* What the threads hold, as sequences and as the stages.
LEMMA HoldsAreLoads ==
  ASSUME PipelineInv
  PROVE  /\ PluginHolds \in Seq(Messages) /\ Elems(PluginHolds) = Load(1)
         /\ Increasing(IdsOf(PluginHolds))
         /\ RunHolds \in Seq(Messages) /\ Elems(RunHolds) = Load(3) /\ Increasing(IdsOf(RunHolds))
         /\ ListenHolds \in Seq(Messages) /\ Elems(ListenHolds) = Load(5)
         /\ Increasing(IdsOf(ListenHolds))
         /\ nq \in Seq(Messages) /\ Elems(nq) = Load(2) /\ Increasing(IdsOf(nq))
         /\ mq \in Seq(Messages) /\ Elems(mq) = Load(4) /\ Increasing(IdsOf(mq))
<1>. USE DEF PipelineInv, Places
<1>1. /\ PluginHolds \in Seq(Messages) /\ Elems(PluginHolds) = Load(1) /\ Increasing(IdsOf(PluginHolds))
  <2>1. CASE pc["plugin"] \in PluginIdle
    BY <2>1, Loads DEF PluginHolds, HeldBy, PluginIdle, InHand, Elems, Increasing, IdsOf
  <2>2. CASE pc["plugin"] \notin PluginIdle
    BY <2>2, Loads DEF PluginHolds, HeldBy, PluginIdle, InHand, Elems, Increasing, IdsOf, IInv,
                       Control, Flow
  <2>. QED
    BY <2>1, <2>2
<1>2. /\ RunHolds \in Seq(Messages) /\ Elems(RunHolds) = Load(3) /\ Increasing(IdsOf(RunHolds))
  <2>1. CASE pc["run"] \in RunIdle
    BY <2>1, Loads DEF RunHolds, HeldBy, RunIdle, InHand, Elems, Increasing, IdsOf
  <2>2. CASE pc["run"] \notin RunIdle
    BY <2>2, Loads DEF RunHolds, HeldBy, RunIdle, InHand, Elems, Increasing, IdsOf, IInv,
                       Control, Flow
  <2>. QED
    BY <2>1, <2>2
<1>3. /\ ListenHolds \in Seq(Messages) /\ Elems(ListenHolds) = Load(5) /\ Increasing(IdsOf(ListenHolds))
  <2>1. CASE pc["listen"] # "queue"
    BY <2>1, Loads DEF ListenHolds, Elems, Increasing, IdsOf
  <2>2. CASE pc["listen"] = "queue"
    BY <2>2, Loads DEF ListenHolds, Elems, Increasing, IdsOf, IInv, Control, Flow
  <2>. QED
    BY <2>1, <2>2
<1>4. /\ nq \in Seq(Messages) /\ Elems(nq) = Load(2) /\ Increasing(IdsOf(nq))
      /\ mq \in Seq(Messages) /\ Elems(mq) = Load(4) /\ Increasing(IdsOf(mq))
  BY Loads DEF IInv, DataTypeOK, Order
<1>. QED
  BY <1>1, <1>2, <1>3, <1>4

\* The pipeline as a sequence is the row of its stages.
LEMMA PipelineIsStages ==
  ASSUME PipelineInv
  PROVE  /\ Pipeline \in Seq(Messages) /\ Increasing(IdsOf(Pipeline))
         /\ \A m : m \in Elems(Pipeline) <=> \E k \in 1..5 : m \in Load(k)
<1>. USE DEF PipelineInv, Places
<1>1. /\ PluginHolds \in Seq(Messages) /\ Elems(PluginHolds) = Load(1)
      /\ Increasing(IdsOf(PluginHolds))
      /\ RunHolds \in Seq(Messages) /\ Elems(RunHolds) = Load(3) /\ Increasing(IdsOf(RunHolds))
      /\ ListenHolds \in Seq(Messages) /\ Elems(ListenHolds) = Load(5)
      /\ Increasing(IdsOf(ListenHolds))
      /\ nq \in Seq(Messages) /\ Elems(nq) = Load(2) /\ Increasing(IdsOf(nq))
      /\ mq \in Seq(Messages) /\ Elems(mq) = Load(4) /\ Increasing(IdsOf(mq))
  BY HoldsAreLoads
<1>2. ASSUME NEW k \in 1..5, NEW l \in 1..5, k < l, NEW m \in Load(k), NEW n \in Load(l)
      PROVE  m.id < n.id
  <2>1. m.id \in Stages[k] /\ n.id \in Stages[l] /\ k \in 0..5 /\ l \in 0..5
    BY DEF Stages, Stage
  <2>. QED
    BY <1>2, <2>1 DEF Order, InOrder
<1>. DEFINE two == PluginHolds \o nq
            three == two \o RunHolds
            four == three \o mq
            five == four \o ListenHolds
<1>3. two \in Seq(Messages) /\ Elems(two) = Load(1) \cup Load(2) /\ Increasing(IdsOf(two))
  <2>1. \A m \in Load(1), n \in Load(2) : m.id < n.id
    BY <1>2
  <2>. QED
    BY <1>1, <2>1, JoinInOrder
<1>. HIDE DEF two
<1>4. three \in Seq(Messages) /\ Elems(three) = Load(1) \cup Load(2) \cup Load(3)
      /\ Increasing(IdsOf(three))
  <2>1. \A m \in Load(1) \cup Load(2), n \in Load(3) : m.id < n.id
    BY <1>2
  <2>. QED
    BY <1>1, <1>3, <2>1, JoinInOrder
<1>. HIDE DEF three
<1>5. four \in Seq(Messages) /\ Elems(four) = Load(1) \cup Load(2) \cup Load(3) \cup Load(4)
      /\ Increasing(IdsOf(four))
  <2>1. \A m \in Load(1) \cup Load(2) \cup Load(3), n \in Load(4) : m.id < n.id
    BY <1>2
  <2>. QED
    BY <1>1, <1>4, <2>1, JoinInOrder
<1>. HIDE DEF four
<1>6. five \in Seq(Messages) /\ Increasing(IdsOf(five))
      /\ Elems(five) = Load(1) \cup Load(2) \cup Load(3) \cup Load(4) \cup Load(5)
  <2>1. \A m \in Load(1) \cup Load(2) \cup Load(3) \cup Load(4), n \in Load(5) : m.id < n.id
    BY <1>2
  <2>. QED
    BY <1>1, <1>5, <2>1, JoinInOrder
<1>7. five = Pipeline
  BY DEF Pipeline, four, three, two
<1>. HIDE DEF five
<1>8. \A j \in 1..5 : j = 1 \/ j = 2 \/ j = 3 \/ j = 4 \/ j = 5
  OBVIOUS
<1>9. 1 \in 1..5 /\ 2 \in 1..5 /\ 3 \in 1..5 /\ 4 \in 1..5 /\ 5 \in 1..5
  OBVIOUS
<1>. QED
  BY <1>6, <1>7, <1>8, <1>9

\* While the master runs no thread has given up, so every data message is in a stage.
LEMMA PipelineKeeps == PipelineInv => NothingLost
<1>. SUFFICES ASSUME PipelineInv, running PROVE NothingLost
  BY DEF NothingLost
<1>. USE DEF PipelineInv, Places
<1>1. ~PluginGone /\ ~RunGone /\ ~ListenGone
  BY DEF Course, Stopping, PluginGone, RunGone, ListenGone, Threads, Workers
<1>2. \A d \in DataIds(received) : \E k \in 0..5 : d \in Stage(k)
  BY <1>1 DEF Accounted, GivenUp
<1>3. DataIds(received) = {i \in DOMAIN received : received[i].kind = "data"}
  BY StagesTyped
<1>4. \A m : m \in Elems(Pipeline) <=> \E k \in 1..5 : m \in Load(k)
  BY PipelineIsStages
<1>5. \A m \in Elems(Pipeline) : m.id \in DOMAIN received /\ received[m.id] = m
  BY <1>4 DEF Origin
<1>6. \A d : d \in DataIds(Pipeline) <=> \E m \in Elems(Pipeline) : m.kind = "data" /\ m.id = d
  BY DEF DataIds, Elems
<1>7. DataIds(received) \subseteq Elems(relayed) \cup DataIds(Pipeline)
  <2>. SUFFICES ASSUME NEW d \in DataIds(received), d \notin Elems(relayed)
                PROVE  d \in DataIds(Pipeline)
    OBVIOUS
  <2>1. PICK k \in 0..5 : d \in Stage(k)
    BY <1>2
  <2>2. k # 0
    BY <2>1 DEF Stage
  <2>3. PICK m \in Load(k) : m.id = d
    BY <2>1, <2>2 DEF Stage
  <2>4. m \in Elems(Pipeline)
    BY <1>4, <2>2
  <2>. QED
    BY <1>3, <1>5, <1>6, <2>3, <2>4
<1>8. Elems(relayed) \cup DataIds(Pipeline) \subseteq DataIds(received)
  BY <1>3, <1>5, <1>6 DEF Origin
<1>9. Increasing(relayed \o IdsOf(Pipeline))
  <2>1. relayed \in Seq(Nat) /\ Increasing(relayed)
    BY ConstantAssumption DEF IInv, DataTypeOK, Order
  <2>2. \A x \in Elems(relayed), n \in Elems(Pipeline) : x < n.id
    <3>. SUFFICES ASSUME NEW x \in Elems(relayed), NEW n \in Elems(Pipeline) PROVE x < n.id
      OBVIOUS
    <3>1. PICK k \in 1..5 : n \in Load(k)
      BY <1>4
    <3>2. x \in Stages[0] /\ n.id \in Stages[k] /\ 0 \in 0..5 /\ k \in 0..5 /\ 0 < k
      BY <3>1 DEF Stages, Stage
    <3>. QED
      BY <3>2 DEF Order, InOrder
  <2>. QED
    BY <2>1, <2>2, PipelineIsStages, RelayedThenBehind
<1>. QED
  BY <1>7, <1>8, <1>9 DEF NothingLost

\* While the master runs, every data message that listen() has received has been
\* relayed or is in the hands of a thread or in a queue, once and in the order of its
\* arrival: run() and processNetworkMessages() lose none, whatever becomes of the
\* session and of the database while sendRaw() and DbPlugin::process() retry.
THEOREM NothingIsLost == Spec => []NothingLost
<1>. QED
  BY PipelineInvariance, PipelineKeeps, PTL

\* The clients see the data messages in the order of their arrival and without a gap:
\* also after stop(), when the threads give up what they hold one after the other, no
\* message is relayed once an earlier one has been given up.
THEOREM RelayKeepsOrder == Spec => []RelayedInOrder
<1>. QED
  BY PipelineInvariance, PipelineRelays, PTL

-----------------------------------------------------------------------------
(* The database.                                                              *)

\* What the plugin has done with the notifiers of a message: written or counted.
DoneWith(i) == stored[i] + errors[i]

\* It is done with those of the messages relayed, with those of the one in its hands up
\* to what is left to do, and with nothing of those behind, as long as it is operational.
Archived ==
  /\ \A i \in Elems(relayed) : DoneWith(i) = Notifiers
  /\ pc["plugin"] \notin PluginIdle /\ msg["plugin"].kind = "data" =>
       DoneWith(msg["plugin"].id) + todo = Notifiers
  /\ pc["plugin"] \notin PluginIdle \cup {"write", "failed", "dbConnect", "dbConnected"} => todo = 0
  /\ \A k \in 2..5 : \A i \in Stage(k) : DoneWith(i) = 0
  /\ \A i \in 1..MaxMessages : i > Len(received) => DoneWith(i) = 0
ArchiveInv == operational => Archived

\* Nothing gets behind the plugin thread but what is behind it already, and arrivals.
LEMMA BehindKept ==
  ASSUME PipelineInv, [Next]_vars, NEW k \in 2..5, NEW i \in Stage(k)'
  PROVE  (\E l \in 2..5 : i \in Stage(l)) \/ i > Len(received)
<1>. USE DEF PipelineInv
<1>1. PICK m \in Load(k)' : i = m.id
  BY DEF Stage
<1>2. (\E l \in 2..5 : m \in Load(l)) \/ m.id > Len(received)
  <2>1. CASE Kept
    BY <1>1, <2>1 DEF Kept
  <2>2. ASSUME NEW n \in 1..5, NEW x \in Load(n), Moved(n, x) PROVE \E l \in 2..5 : m \in Load(l)
    <3>1. CASE k = n
      BY <2>2, <3>1 DEF Moved
    <3>2. CASE k = n - 1
      <4>1. n # 1 /\ Load(n - 1)' = Load(n - 1) \cup {x} /\ n \in 2..5 /\ x \in Load(n)
        BY <2>2, <3>2 DEF Moved
      <4>. QED
        BY <3>2, <4>1
    <3>3. CASE k # n /\ k # n - 1
      <4>1. Load(k)' = Load(k)
        BY <2>2, <3>3 DEF Moved
      <4>. QED
        BY <4>1
    <3>. QED
      BY <3>1, <3>2, <3>3
  <2>3. ASSUME NEW n \in 1..5, NEW x \in Load(n), Dropped(n, x) PROVE \E l \in 2..5 : m \in Load(l)
    <3>1. k # n
      BY <2>3 DEF Dropped
    <3>2. Load(k)' = Load(k)
      BY <2>3, <3>1 DEF Dropped
    <3>. QED
      BY <3>2
  <2>4. CASE Receive
    <3>1. PICK x \in Messages : /\ x.id = Len(received) + 1 /\ Load(5)' = {x}
                                /\ \A j \in 1..4 : Load(j)' = Load(j)
      BY <2>4, ReceiveEffect
    <3>2. k = 5 \/ k \in 1..4
      OBVIOUS
    <3>3. Len(received) + 1 > Len(received)
      BY DEF IInv, DataTypeOK
    <3>. QED
      BY <3>1, <3>2, <3>3
  <2>. QED
    BY <2>1, <2>2, <2>3, <2>4, StepEffect DEF Effect
<1>. QED
  BY <1>1, <1>2 DEF Stage

\* A step that writes at most for the message in the hands of the plugin thread.
LEMMA BehindUnwritten ==
  ASSUME PipelineInv, PipelineInv', [Next]_vars, Archived,
         \A i \in 1..MaxMessages : DoneWith(i)' = DoneWith(i) \/ i \in Stage(1)
  PROVE  /\ \A k \in 2..5 : \A i \in Stage(k)' : DoneWith(i)' = 0
         /\ \A i \in 1..MaxMessages : i > Len(received') => DoneWith(i)' = 0
<1>. USE DEF PipelineInv, Places
<1>1. /\ DOMAIN received' = 1..Len(received') /\ Len(received') \in Nat /\ Len(received') <= MaxMessages
      /\ Len(received) \in Nat /\ MaxMessages \in Nat
  BY ConstantAssumption DEF IInv, DataTypeOK
<1>2. \A i \in Stage(1) : i <= Len(received) /\ i \in Nat
  BY StagesTyped
<1>3. Len(received) <= Len(received')
  <2>1. received' = received \/ \E m \in Messages : received' = Append(received, m)
    BY StepEffect, ReceiveEffect DEF Effect, Kept, Moved, Dropped
  <2>. QED
    BY <2>1 DEF IInv, DataTypeOK
<1>4. ASSUME NEW k \in 2..5, NEW i \in Stage(k)' PROVE DoneWith(i)' = 0
  <2>1. i \in 1..MaxMessages
    <3>1. PICK m \in Load(k)' : i = m.id
      BY DEF Stage
    <3>2. i \in DOMAIN received'
      BY <3>1 DEF Origin
    <3>. QED
      BY <1>1, <3>2
  <2>2. CASE \E l \in 2..5 : i \in Stage(l)
    <3>1. PICK l \in 2..5 : i \in Stage(l)
      BY <2>2
    <3>2. 1 \in 0..5 /\ l \in 0..5 /\ 1 < l /\ i \in Stages[l] /\ Stages[1] = Stage(1)
      BY <3>1 DEF Stages
    <3>3. i \notin Stage(1)
      <4>1. i \in Stages[1] => i < i
        BY <3>2 DEF Order, InOrder
      <4>. QED
        BY <2>1, <3>2, <4>1
    <3>. QED
      BY <2>1, <3>1, <3>3 DEF Archived
  <2>3. CASE i > Len(received)
    <3>1. i \notin Stage(1)
      BY <1>1, <1>2, <2>1, <2>3
    <3>. QED
      BY <2>1, <2>3, <3>1 DEF Archived
  <2>. QED
    BY <2>2, <2>3, BehindKept
<1>5. ASSUME NEW i \in 1..MaxMessages, i > Len(received') PROVE DoneWith(i)' = 0
  <2>1. i > Len(received)
    BY <1>1, <1>3, <1>5
  <2>2. i \notin Stage(1)
    BY <1>1, <1>2, <2>1
  <2>. QED
    BY <2>1, <2>2 DEF Archived
<1>. QED
  BY <1>4, <1>5

\* The number of the message in the hands of the plugin thread.
LEMMA PluginNumber ==
  ASSUME PipelineInv, pc["plugin"] \notin PluginIdle
  PROVE  /\ msg["plugin"].id \in 1..MaxMessages /\ Stage(1) = {msg["plugin"].id}
         /\ \A i \in Stage(0) : i < msg["plugin"].id
<1>1. msg["plugin"] \in Messages
  BY DEF PipelineInv, IInv, Control, Flow, PluginIdle
<1>2. Stage(1) = {msg["plugin"].id}
  <2>1. Load(1) = {msg["plugin"]}
    BY Loads DEF InHand
  <2>. QED
    BY <2>1 DEF Stage
<1>3. 0 \in 0..5 /\ 1 \in 0..5 /\ 0 < 1 /\ Stages[0] = Stage(0) /\ Stages[1] = Stage(1)
  BY DEF Stages
<1>. QED
  BY <1>1, <1>2, <1>3 DEF Messages, PipelineInv, Places, Order, InOrder

LEMMA ArchivePlugin ==
  ASSUME PipelineInv, PipelineInv', Archived, operational, Plugin
  PROVE  Archived'
<1>. USE DEF database, history
<1>1. /\ pc \in [Threads -> Labels] /\ msg \in [Threads -> Messages \cup {None}] /\ "plugin" \in Threads
      /\ stored \in [1..MaxMessages -> Nat] /\ errors \in [1..MaxMessages -> Nat] /\ todo \in 0..Notifiers /\ Notifiers \in Nat
  BY ConstantAssumption DEF PipelineInv, IInv, Control, ControlTypeOK, DataTypeOK, Threads, Workers
<1>2. relayed' = relayed /\ [Next]_vars
  BY DEF Next, Plugin, PluginLoop, PluginPop, Write, WriteRefused, WriteFails, PassOver, NotConnected, DbConnect, DbConnected, Processed, Handled
<1>3. CASE Write \/ PassOver
  <2>. DEFINE id == msg["plugin"].id
  <2>1. /\ pc["plugin"] \in {"write", "failed"} /\ pc'["plugin"] = "write" /\ msg' = msg
        /\ todo > 0 /\ todo' = todo - 1
        /\ \/ stored' = [stored EXCEPT ![id] = @ + 1] /\ errors' = errors
           \/ errors' = [errors EXCEPT ![id] = @ + 1] /\ stored' = stored
    BY <1>1, <1>3 DEF Write, PassOver, At, Go, PipelineInv, IInv, Control, Flow
  <2>2. id \in 1..MaxMessages /\ Stage(1) = {id} /\ \A i \in Stage(0) : i < id
    BY <2>1, PluginNumber DEF PluginIdle
  <2>3. /\ \A i \in 1..MaxMessages : i # id => DoneWith(i)' = DoneWith(i)
        /\ DoneWith(id)' = DoneWith(id) + 1 /\ DoneWith(id) \in Nat
    <3>1. CASE stored' = [stored EXCEPT ![id] = @ + 1] /\ errors' = errors
      <4>1. stored'[id] = stored[id] + 1 /\ \A i \in 1..MaxMessages : i # id => stored'[i] = stored[i]
        BY <1>1, <2>2, <3>1
      <4>2. stored[id] \in Nat /\ errors[id] \in Nat
        BY <1>1, <2>2
      <4>. QED
        BY <2>1, <3>1, <4>1, <4>2 DEF DoneWith
    <3>2. CASE errors' = [errors EXCEPT ![id] = @ + 1] /\ stored' = stored
      <4>1. errors'[id] = errors[id] + 1 /\ \A i \in 1..MaxMessages : i # id => errors'[i] = errors[i]
        BY <1>1, <2>2, <3>2
      <4>2. stored[id] \in Nat /\ errors[id] \in Nat
        BY <1>1, <2>2
      <4>. QED
        BY <2>1, <3>2, <4>1, <4>2 DEF DoneWith
    <3>. QED
      BY <2>1, <3>1, <3>2
  <2>4. \A i \in Elems(relayed) : DoneWith(i)' = DoneWith(i)
    <3>1. \A i \in Elems(relayed) : i < id /\ i \in 1..MaxMessages
      <4>1. Stage(0) = Elems(relayed)
        BY DEF Stage
      <4>2. relayed \in Seq(1..MaxMessages)
        BY DEF PipelineInv, IInv, DataTypeOK
      <4>3. Elems(relayed) \subseteq 1..MaxMessages
        <5>. SUFFICES ASSUME NEW n \in DOMAIN relayed PROVE relayed[n] \in 1..MaxMessages
          BY DEF Elems
        <5>1. n \in 1..Len(relayed)
          BY <4>2
        <5>. QED
          BY <4>2, <5>1, ElementOfSeq
      <4>. QED
        BY <2>2, <4>1, <4>3
    <3>2. \A i \in Elems(relayed) : i # id
      BY <2>2, <3>1
    <3>. QED
      BY <2>3, <3>1, <3>2
  <2>5. msg["plugin"].kind = "data" => DoneWith(id)' + todo' = Notifiers
    BY <1>1, <2>1, <2>3 DEF Archived, PluginIdle
  <2>6. \A i \in 1..MaxMessages : DoneWith(i)' = DoneWith(i) \/ i \in Stage(1)
    BY <2>2, <2>3
  <2>7. /\ \A k \in 2..5 : \A i \in Stage(k)' : DoneWith(i)' = 0
        /\ \A i \in 1..MaxMessages : i > Len(received') => DoneWith(i)' = 0
    BY <1>2, <2>6, BehindUnwritten
  <2>8. DoneWith(msg["plugin"].id)' = DoneWith(id)'
    BY <2>1 DEF DoneWith
  <2>. QED
    BY <1>2, <2>1, <2>4, <2>5, <2>7, <2>8 DEF Archived
<1>4. CASE PluginPop /\ ~nqClosed
  <2>. DEFINE m == Head(nq)
  <2>1. pc'["plugin"] = "write" /\ msg'["plugin"] = m /\ nq # <<>> /\ stored' = stored /\ errors' = errors
        /\ (m.kind = "data" => todo' = Notifiers)
    BY <1>1, <1>4 DEF PluginPop, Go, Hold
  <2>2. m.id \in Stage(2)
    <3>1. m \in Elems(nq)
      BY <2>1, TailInOrder DEF PipelineInv, Places, Order, IInv, DataTypeOK
    <3>. QED
      BY <3>1, Loads DEF Stage
  <2>3. DoneWith(m.id) = 0
    BY <2>2 DEF Archived
  <2>. QED
    BY <1>1, <1>2, <2>1, <2>3, BehindUnwritten DEF Archived, DoneWith
<1>5. CASE DbConnected
  <2>1. todo' = todo /\ stored' = stored /\ errors' = errors /\ msg' = msg /\ pc'["plugin"] = "write"
        /\ pc["plugin"] \notin PluginIdle
    BY <1>1, <1>5 DEF DbConnected, TriedAgain, Go, At, PluginIdle
  <2>. QED
    BY <1>2, <2>1, BehindUnwritten DEF Archived, DoneWith
<1>6. CASE \/ PluginLoop \/ (PluginPop /\ nqClosed) \/ WriteRefused \/ WriteFails
           \/ NotConnected \/ DbConnect \/ Processed \/ Handled
  <2>1. /\ todo' = todo /\ stored' = stored /\ errors' = errors
        /\ \/ pc'["plugin"] \in PluginIdle
           \/ /\ pc["plugin"] \notin PluginIdle /\ msg' = msg
              /\ \/ pc'["plugin"] \in {"write", "failed", "dbConnect", "dbConnected"}
                 \/ todo = 0
                 \/ pc["plugin"] \notin {"write", "failed", "dbConnect", "dbConnected"}
    BY <1>1, <1>6 DEF PluginLoop, PluginPop, WriteRefused, WriteFails, NotConnected, DbConnect, Processed, Handled, At, Go, Post,
                      PluginIdle
  <2>. QED
    BY <1>2, <2>1, BehindUnwritten DEF Archived, DoneWith
<1>. QED
  BY <1>3, <1>4, <1>5, <1>6 DEF Plugin

LEMMA ArchiveShared ==
  ASSUME PipelineInv, PipelineInv', Archived, NEW t \in Threads, Shared(t)
  PROVE  Archived'
<1>. USE DEF database, history, process
<1>1. /\ pc \in [Threads -> Labels] /\ "plugin" \in Threads /\ Notifiers \in Nat
      /\ stored \in [1..MaxMessages -> Nat] /\ errors \in [1..MaxMessages -> Nat] /\ todo \in 0..Notifiers
  BY ConstantAssumption DEF PipelineInv, IInv, Control, ControlTypeOK, DataTypeOK, Threads, Workers
<1>2. [Next]_vars
  BY DEF Next
<1>3. /\ UNCHANGED <<msg, todo, stored, errors>> /\ pc' = [pc EXCEPT ![t] = pc'[t]]
      /\ pc[t] \notin {"write", "failed", "dbConnect", "dbConnected"} \cup PluginIdle
    BY <1>1 DEF Shared, TakeReconnect, LeaveReconnect, TakeSend, Sent, SendFails, SendTooLong, SendRetry, Stop,
                ClosePlugin, DisablePlugin, CloseQueue, LeaveSession, FinishSend, Go, Post, At, PluginIdle
<1>4. pc'["plugin"] = pc["plugin"] \/ pc["plugin"] \notin {"write", "failed", "dbConnect", "dbConnected"} \cup PluginIdle
  BY <1>1, <1>3
<1>5. \A i \in Elems(relayed') : DoneWith(i) = Notifiers
  <2>1. CASE Sent(t) /\ letter[t] = "data"
    <3>1. t = "plugin" /\ pc[t] = "sending" /\ relayed' = Append(relayed, msg[t].id)
      BY <2>1 DEF Sent, At, PipelineInv, IInv, Control, Flow, ListenLabels, Threads, Workers
    <3>2. msg["plugin"].kind = "data" /\ pc["plugin"] \notin PluginIdle
      BY <2>1, <3>1 DEF PipelineInv, Course, Path, SendLabels, PluginIdle
    <3>3. DoneWith(msg["plugin"].id) = Notifiers
      <4>1. msg["plugin"].id \in 1..MaxMessages
        BY <3>2, PluginNumber
      <4>2. DoneWith(msg["plugin"].id) + todo = Notifiers /\ todo = 0
        BY <3>1, <3>2 DEF Archived
      <4>. QED
        BY <1>1, <4>1, <4>2 DEF DoneWith
    <3>4. Elems(relayed') = Elems(relayed) \cup {msg["plugin"].id}
      <4>1. relayed \in Seq(1..MaxMessages)
        BY DEF PipelineInv, IInv, DataTypeOK
      <4>. QED
        BY <3>1, <4>1 DEF Elems
    <3>. QED
      BY <3>3, <3>4 DEF Archived
  <2>2. CASE ~(Sent(t) /\ letter[t] = "data")
    <3>1. relayed' = relayed
      BY <2>2 DEF Shared, TakeReconnect, LeaveReconnect, TakeSend, Sent, SendFails, SendTooLong, SendRetry, Stop,
                  ClosePlugin, DisablePlugin, CloseQueue, LeaveSession
    <3>. QED
      BY <3>1 DEF Archived
  <2>. QED
    BY <2>1, <2>2
<1>. QED
  BY <1>2, <1>3, <1>4, <1>5, BehindUnwritten DEF Archived, DoneWith

LEMMA ArchiveStep == PipelineInv /\ PipelineInv' /\ ArchiveInv /\ [Next]_vars => ArchiveInv'
<1>. SUFFICES ASSUME PipelineInv, PipelineInv', ArchiveInv, [Next]_vars, operational'
              PROVE  Archived'
  BY DEF ArchiveInv
<1>. USE DEF queues, mutexes, link, database, registry, history, process, bounds
<1>1. CASE Plugin
  <2>1. operational
    BY <1>1 DEF Plugin, PluginLoop, PluginPop, Write, WriteRefused, WriteFails, PassOver, NotConnected, DbConnect, DbConnected, Processed, Handled
  <2>. QED
    BY <1>1, <2>1, ArchivePlugin DEF ArchiveInv
<1>2. CASE \E t \in Threads : Shared(t)
  <2>. PICK t \in Threads : Shared(t)
    BY <1>2
  <2>1. operational
    BY DEF Shared, TakeReconnect, LeaveReconnect, TakeSend, Sent, SendFails, SendTooLong, SendRetry, Stop,
           ClosePlugin, DisablePlugin, CloseQueue, LeaveSession
  <2>. QED
    BY <2>1, ArchiveShared DEF ArchiveInv
<1>3. CASE Listen \/ Run \/ Receive \/ Exit \/ Signal \/ Break \/ LeaveUnseen \/ DbLost \/ UNCHANGED vars
  <2>1. UNCHANGED <<operational, todo, stored, errors, relayed>>
    BY <1>3 DEF Listen, ListenLoop, ReceiveFails, ListenRetry, QueueMessage, Run, RunLoop, RunClosed,
       RunPop, Forward, Provide, Register, Remove, ExpelCrashes, RunReturn, Receive, Exit, Signal, Break,
       LeaveUnseen, DbLost, vars
  <2>2. pc'["plugin"] = pc["plugin"] /\ msg'["plugin"] = msg["plugin"]
    <3>1. CASE RunPop
      <4>1. Head(mq) \in Messages
        BY <3>1 DEF RunPop, PipelineInv, IInv, DataTypeOK
      <4>2. \E l : Go("run", l)
        BY <3>1, <4>1 DEF RunPop, Messages, ServiceKinds, DataKinds, Post
      <4>. QED
        BY <3>1, <4>2 DEF RunPop, Go, Hold, PipelineInv, IInv, Control, ControlTypeOK, Threads, Workers
    <3>. QED
      BY <1>3, <3>1 DEF Listen, ListenLoop, ReceiveFails, ListenRetry, QueueMessage, Run, RunLoop,
       RunClosed, Forward, Provide, Register, Remove, ExpelCrashes, RunReturn, Receive, Exit, Signal, Break,
       LeaveUnseen, DbLost, vars, Go, Hold, Post, PipelineInv, IInv, Control, ControlTypeOK, Threads, Workers
  <2>. QED
    BY <2>1, <2>2, BehindUnwritten DEF Archived, ArchiveInv, DoneWith
<1>. QED
  BY <1>1, <1>2, <1>3 DEF Next

LEMMA ArchiveInvariance == Spec => []ArchiveInv
<1>1. Init => ArchiveInv
  <2>. SUFFICES ASSUME Init PROVE Archived
    BY DEF ArchiveInv
  <2>1. /\ Elems(relayed) = {} /\ pc["plugin"] \in PluginIdle /\ received = <<>>
        /\ \A i \in 1..MaxMessages : DoneWith(i) = 0
    BY DEF DoneWith, Init, Elems, PluginIdle
  <2>2. \A k \in 2..5 : Stage(k) = {}
    <3>1. InHand("run", RunIdle) = {} /\ Elems(nq) = {} /\ Elems(mq) = {} /\ Load(5) = {}
      BY Loads DEF Init, InHand, RunIdle, Elems
    <3>2. \A k \in 2..5 : k = 2 \/ k = 3 \/ k = 4 \/ k = 5
      OBVIOUS
    <3>. QED
      BY <3>1, <3>2, Loads DEF Stage
  <2>. QED
    BY <2>1, <2>2 DEF Archived
<1>. QED
  BY <1>1, ArchiveStep, PipelineInvariance, PTL DEF Spec

\* "Before a message is distributed by scmaster the message is written to the specified
\* database" (descriptions/scmaster.rst:29-30), as far as the code does it: for as long as
\* stop() has not disabled the plugin, every notifier of a message relayed has been written
\* or is one of those the plugin has counted as errors.  The database may refuse queries,
\* connections may be lost, and be back when the plugin looks, any number of times.
THEOREM ArchivedUntilStopped == Spec => []WrittenOrCounted
<1>1. PipelineInv /\ ArchiveInv => WrittenOrCounted
  BY DEF ArchiveInv, Archived, DoneWith, WrittenOrCounted, Elems, PipelineInv, IInv, DataTypeOK
<1>. QED
  BY <1>1, PipelineInvariance, ArchiveInvariance, PTL

\* A master that no signal and no plugin stops.
Undisturbed ==
  /\ operational /\ pc["signal"] = "idle"
  /\ \A t \in Threads : pc[t] \notin {"stop", "closeDb", "disable"}

LEMMA UndisturbedStep ==
  ASSUME SignalHosts = {}, ~PluginFails, IInv, Undisturbed, [Next]_vars
  PROVE  Undisturbed'
<1>. USE DEF Undisturbed, At, Go, database, IInv, Control, ControlTypeOK, Threads, Workers
<1>1. CASE Listen
  BY <1>1 DEF Listen, ListenLoop, ReceiveFails, ListenRetry, QueueMessage
<1>2. CASE Run
  <2>1. operational' = operational /\ \E l : l \notin {"stop", "closeDb", "disable"} /\ Go("run", l)
    <3>1. CASE RunPop
      <4>1. Head(mq) \in Messages
        BY <3>1 DEF RunPop, DataTypeOK
      <4>2. \E l \in {"forward", "remove", "send"} : Go("run", l)
        BY <3>1, <4>1 DEF RunPop, Messages, ServiceKinds, DataKinds, Post
      <4>. QED
        BY <3>1, <4>2 DEF RunPop
    <3>2. CASE ExpelCrashes \/ RunReturn
      BY <3>2 DEF ExpelCrashes, RunReturn
    <3>. QED
      BY <1>2, <3>1, <3>2 DEF Run, RunLoop, RunClosed, Forward, Provide, Register, Remove, Post
  <2>. QED
    BY <2>1
<1>3. CASE Plugin
  BY <1>3 DEF Plugin, PluginLoop, PluginPop, Write, WriteRefused, WriteFails, PassOver, NotConnected, DbConnect, DbConnected, Processed,
              Handled, Post
<1>4. CASE \E t \in Threads : Shared(t)
  <2>. PICK t \in Threads : Shared(t)
    BY <1>4
  <2>1. CASE \/ TakeReconnect(t) \/ LeaveReconnect(t) \/ TakeSend(t) \/ SendFails(t)
             \/ KeepsSending(t)
    BY <2>1 DEF TakeReconnect, LeaveReconnect, TakeSend, SendFails, KeepsSending, SendTooLong, SendRetry, AfterReconnect, KeepsTrying
  <2>2. CASE Sent(t) \/ GivesUpSend(t)
    <3>1. /\ Go(t, AfterSend(letter[t])) /\ letter[t] \in Letters /\ operational' = operational
          /\ t # "signal"
      BY <2>2 DEF Sent, GivesUpSend, SendRetry, SendTooLong, KeepsTrying, FinishSend, Flow, ListenLabels, SendLabels
    <3>2. AfterSend(letter[t]) \notin {"stop", "closeDb", "disable"}
      BY <3>1 DEF AfterSend, Letters
    <3>. QED
      BY <3>1, <3>2
  <2>3. CASE CloseQueue(t) \/ LeaveSession(t)
    BY <2>3 DEF CloseQueue, LeaveSession, Post
  <2>. QED
    BY <2>1, <2>2, <2>3 DEF Shared, GivesUpSend, KeepsSending, Stop, ClosePlugin, DisablePlugin
<1>5. CASE Receive \/ Exit \/ Signal \/ Break \/ LeaveUnseen \/ DbLost
  BY <1>5 DEF Receive, Exit, Signal, Break, LeaveUnseen, DbLost
<1>6. CASE UNCHANGED vars
  BY <1>6 DEF vars
<1>. QED
  BY <1>1, <1>2, <1>3, <1>4, <1>5, <1>6 DEF Next

\* If nothing stops the master it is so for good: a message that is relayed without one
\* of its notifiers in the database has left its mark in _errors.
THEOREM ArchivedBeforeRelayed ==
  ASSUME SignalHosts = {}, ~PluginFails
  PROVE  Spec => [](\A k \in 1..Len(relayed) :
                      errors[relayed[k]] = 0 => stored[relayed[k]] = Notifiers)
<1>. DEFINE Complete == \A k \in 1..Len(relayed) :
                          errors[relayed[k]] = 0 => stored[relayed[k]] = Notifiers
<1>1. Init => Undisturbed
  BY DEF Init, Undisturbed, Threads, Workers
<1>2. IInv /\ Undisturbed /\ [Next]_vars => Undisturbed'
  BY UndisturbedStep
<1>3. IInv /\ Undisturbed /\ WrittenOrCounted => Complete
  <2>. SUFFICES ASSUME IInv, Undisturbed, WrittenOrCounted,
                       NEW k \in 1..Len(relayed), errors[relayed[k]] = 0
                PROVE  stored[relayed[k]] = Notifiers
    OBVIOUS
  <2>1. stored[relayed[k]] + errors[relayed[k]] = Notifiers
    BY DEF Undisturbed, WrittenOrCounted
  <2>2. relayed[k] \in 1..MaxMessages
    <3>1. relayed \in Seq(1..MaxMessages)
      BY DEF IInv, DataTypeOK
    <3>. QED
      BY <3>1, ElementOfSeq
  <2>3. stored[relayed[k]] \in Nat
    BY <2>2 DEF IInv, DataTypeOK
  <2>. QED
    BY <2>1, <2>3
<1>4. Spec => []Undisturbed
  BY <1>1, <1>2, Invariance, PTL DEF Spec
<1>. QED
  BY <1>3, <1>4, Invariance, ArchivedUntilStopped, PTL

-----------------------------------------------------------------------------
(* The registry of clients.                                                   *)

\* What run() still has to handle.
Waiting == Load(3) \cup Load(4) \cup Load(5)
Waits(kind, c) == \E m \in Waiting : m.kind = kind /\ m.who = c
Arrived(kind, c) == \E i \in DOMAIN received : received[i].kind = kind /\ received[i].who = c
Once(s) == \A i, j \in DOMAIN s : s[i] = s[j] => i = j

\* What the run thread does with which request.
Errand ==
  /\ pc["run"] \in {"provide", "register"} => msg["run"].kind = "connect"
  /\ pc["run"] = "remove" => msg["run"].kind \in {"leave", "expel"}
  /\ pc["run"] \in SendLabels =>
       /\ letter["run"] \in {"ok", "service"} => msg["run"].kind = "connect"
       /\ letter["run"] = "expel" => msg["run"].kind = "expel"
       /\ letter["run"] = "reply" => msg["run"].kind \in {"query", "expel"}

\* A client joins once, and leaves after that and for good.
Visits ==
  /\ \A i, j \in DOMAIN received :
       received[i].kind = "connect" /\ received[i].who = received[j].who =>
         /\ received[j].kind = "connect" => i = j
         /\ received[j].kind = "leave" => i < j
  /\ \A c \in Clients : Arrived("leave", c) => Arrived("connect", c) /\ c \notin members
  /\ \A c \in members \cup due : Arrived("connect", c)

\* A client the registry may hold: its leave has not been handled.
Due(c) == c \in due /\ (Arrived("leave", c) => Waits("leave", c))

\* The registry is right about a client, and will be when its requests are handled.
Enrolled(c) ==
  /\ c \in members \cap due =>
       c \in Elems(clients) \/ Waits("connect", c) \/ Arrived("expel", c)
  /\ c \in Elems(clients) => Due(c) /\ ~Waits("connect", c)
  /\ Waits("connect", c) => Due(c)

RegistryInv ==
  /\ Errand /\ Visits
  /\ running => Once(clients) /\ \A c \in Clients : Enrolled(c)

\* Removing a client takes it out and nobody else.
LEMMA RemovedExact ==
  ASSUME clients \in Seq(Clients), Once(clients), NEW c
  PROVE  Elems(Removed(c)) = Elems(clients) \ {c} /\ Once(Removed(c))
<1>. DEFINE n == Len(clients)
<1>0. n \in Nat /\ DOMAIN clients = 1..n
  OBVIOUS
<1>1. CASE ~InDB(c)
  BY <1>0, <1>1 DEF Removed, InDB, Elems
<1>2. CASE InDB(c)
  <2>. DEFINE First(k) == clients[k] = c /\ \A j \in 1..(k - 1) : clients[j] # c
              i == CHOOSE k \in 1..n : First(k)
              r == Removed(c)
  <2>1. PICK k \in 1..n : clients[k] = c
    BY <1>2 DEF InDB
  <2>2. First(k)
    <3>. SUFFICES ASSUME NEW j \in 1..(k - 1), clients[j] = c PROVE FALSE
      BY <2>1
    <3>1. j \in DOMAIN clients /\ k \in DOMAIN clients /\ j # k
      BY <1>0
    <3>. QED
      BY <2>1, <3>1 DEF Once
  <2>3. i \in 1..n /\ clients[i] = c
    BY <2>2
  <2>4. r = SubSeq(clients, 1, i - 1) \o SubSeq(clients, i + 1, n)
    BY <1>2 DEF Removed
  <2>. HIDE DEF i, First, n
  <2>5. /\ SubSeq(clients, 1, i - 1) \in Seq(Clients) /\ Len(SubSeq(clients, 1, i - 1)) = i - 1
        /\ SubSeq(clients, i + 1, n) \in Seq(Clients) /\ Len(SubSeq(clients, i + 1, n)) = n - i
        /\ \A j \in 1..(i - 1) : SubSeq(clients, 1, i - 1)[j] = clients[j]
        /\ \A j \in 1..(n - i) : SubSeq(clients, i + 1, n)[j] = clients[i + j]
    <3>1. /\ 1 \in Int /\ i - 1 \in Int /\ i + 1 \in Int /\ n \in Int /\ i \in Int
          /\ \A j \in 1..(i - 1) : clients[j] \in Clients
          /\ \A j \in (i + 1)..n : clients[j] \in Clients
      BY <1>0, <2>3 DEF n
    <3>2. /\ SubSeq(clients, 1, i - 1) \in Seq(Clients)
          /\ Len(SubSeq(clients, 1, i - 1)) = IF 1 <= i - 1 THEN (i - 1) - 1 + 1 ELSE 0
          /\ \A j \in 1..((i - 1) - 1 + 1) : SubSeq(clients, 1, i - 1)[j] = clients[1 + j - 1]
      BY <3>1, SubSeqProperties
    <3>3. /\ SubSeq(clients, i + 1, n) \in Seq(Clients)
          /\ Len(SubSeq(clients, i + 1, n)) = IF i + 1 <= n THEN n - (i + 1) + 1 ELSE 0
          /\ \A j \in 1..(n - (i + 1) + 1) : SubSeq(clients, i + 1, n)[j] = clients[(i + 1) + j - 1]
      BY <3>1, SubSeqProperties
    <3>4. /\ (IF 1 <= i - 1 THEN (i - 1) - 1 + 1 ELSE 0) = i - 1 /\ (i - 1) - 1 + 1 = i - 1
          /\ (IF i + 1 <= n THEN n - (i + 1) + 1 ELSE 0) = n - i /\ n - (i + 1) + 1 = n - i
          /\ \A j \in 1..(i - 1) : 1 + j - 1 = j
          /\ \A j \in 1..(n - i) : (i + 1) + j - 1 = i + j
      <4>1. i \in Int /\ n \in Int /\ 1 <= i /\ i <= n
        BY <1>0, <2>3
      <4>. HIDE DEF n
      <4>2. CASE 1 <= i - 1
        BY <4>1, <4>2
      <4>3. CASE ~(1 <= i - 1)
        BY <4>1, <4>3
      <4>. QED
        BY <4>2, <4>3
    <3>. QED
      BY <3>2, <3>3, <3>4
  <2>6. /\ DOMAIN r = 1..(n - 1)
        /\ \A j \in 1..(n - 1) : r[j] = IF j < i THEN clients[j] ELSE clients[j + 1]
    <3>. DEFINE a == SubSeq(clients, 1, i - 1)
                b == SubSeq(clients, i + 1, n)
    <3>. HIDE DEF a, b, r
    <3>1. a \in Seq(Clients) /\ b \in Seq(Clients) /\ Len(a) = i - 1 /\ Len(b) = n - i /\ r = a \o b
      BY <2>4, <2>5 DEF a, b
    <3>2. /\ Len(r) = n - 1 /\ DOMAIN r = 1..(n - 1)
          /\ \A j \in 1..(n - 1) : r[j] = IF j <= i - 1 THEN a[j] ELSE b[j - (i - 1)]
      <4>1. /\ r \in Seq(Clients) /\ Len(r) = (i - 1) + (n - i)
            /\ \A j \in 1..((i - 1) + (n - i)) : r[j] = IF j <= i - 1 THEN a[j] ELSE b[j - (i - 1)]
        <5>1. /\ a \o b \in Seq(Clients) /\ Len(a \o b) = Len(a) + Len(b)
              /\ \A j \in 1..(Len(a) + Len(b)) : (a \o b)[j] = IF j <= Len(a) THEN a[j] ELSE b[j - Len(a)]
          BY <3>1, ConcatProperties
        <5>. QED
          BY <3>1, <5>1
      <4>2. (i - 1) + (n - i) = n - 1
        BY <1>0, <2>3 DEF n
      <4>. QED
        BY <4>1, <4>2
    <3>3. ASSUME NEW j \in 1..(n - 1) PROVE r[j] = IF j < i THEN clients[j] ELSE clients[j + 1]
      <4>1. CASE j < i
        <5>1. j \in 1..(i - 1) /\ j <= i - 1
          BY <1>0, <2>3, <4>1
        <5>. QED
          BY <2>5, <3>2, <4>1, <5>1 DEF a
      <4>2. CASE ~(j < i)
        <5>1. j - (i - 1) \in 1..(n - i) /\ ~(j <= i - 1) /\ i + (j - (i - 1)) = j + 1
          BY <1>0, <2>3, <4>2
        <5>. QED
          BY <2>5, <3>2, <4>2, <5>1 DEF b
      <4>. QED
        BY <4>1, <4>2
    <3>. QED
      BY <3>2, <3>3
  <2>. HIDE DEF r
  <2>7. \A j \in DOMAIN r :
          \E l \in (1..n) \ {i} : /\ r[j] = clients[l]
                                  /\ l = IF j < i THEN j ELSE j + 1
    BY <1>0, <2>3, <2>6
  <2>8. Once(r)
    <3>. SUFFICES ASSUME NEW j \in DOMAIN r, NEW k2 \in DOMAIN r, r[j] = r[k2] PROVE j = k2
      BY DEF Once
    <3>1. PICK l \in (1..n) \ {i} : r[j] = clients[l] /\ l = IF j < i THEN j ELSE j + 1
      BY <2>7
    <3>2. PICK l2 \in (1..n) \ {i} : r[k2] = clients[l2] /\ l2 = IF k2 < i THEN k2 ELSE k2 + 1
      BY <2>7
    <3>3. l = l2
      BY <1>0, <3>1, <3>2 DEF Once, n
    <3>4. j \in 1..(n - 1) /\ k2 \in 1..(n - 1)
      BY <2>6
    <3>. QED
      BY <1>0, <2>3, <3>1, <3>2, <3>3, <3>4
  <2>9. \A x \in Elems(r) : x \in Elems(clients) /\ x # c
    <3>. SUFFICES ASSUME NEW j \in DOMAIN r PROVE r[j] \in Elems(clients) /\ r[j] # c
      BY DEF Elems
    <3>1. PICK l \in (1..n) \ {i} : r[j] = clients[l]
      BY <2>7
    <3>. QED
      BY <1>0, <2>3, <3>1 DEF Elems, Once, n
  <2>10. \A x \in Elems(clients) : x # c => x \in Elems(r)
    <3>. SUFFICES ASSUME NEW l \in 1..n, clients[l] # c PROVE clients[l] \in Elems(r)
      BY <1>0 DEF Elems, n
    <3>. DEFINE j == IF l < i THEN l ELSE l - 1
    <3>1. j \in 1..(n - 1) /\ r[j] = clients[l]
      <4>1. l # i
        BY <2>3
      <4>2. CASE l < i
        <5>1. l \in 1..(n - 1)
          BY <1>0, <2>3, <4>2
        <5>. QED
          BY <2>6, <4>2, <5>1
      <4>3. CASE ~(l < i)
        <5>1. l - 1 \in 1..(n - 1) /\ ~(l - 1 < i) /\ (l - 1) + 1 = l
          BY <1>0, <2>3, <4>1, <4>3
        <5>. QED
          BY <2>6, <4>3, <5>1
      <4>. QED
        BY <4>2, <4>3
    <3>. QED
      BY <2>6, <3>1 DEF Elems
  <2>. QED
    BY <2>8, <2>9, <2>10 DEF r
<1>. QED
  BY <1>1, <1>2

\* The new client is registered behind the others.
LEMMA RegisteredExact ==
  ASSUME NEW s \in Seq(Clients), Once(s), NEW c \in Clients, c \notin Elems(s)
  PROVE  Elems(Append(s, c)) = Elems(s) \cup {c} /\ Once(Append(s, c))
<1>. DEFINE r == Append(s, c)
<1>1. /\ DOMAIN r = DOMAIN s \cup {Len(s) + 1} /\ r[Len(s) + 1] = c
      /\ \A i \in DOMAIN s : r[i] = s[i]
  OBVIOUS
<1>. HIDE DEF r
<1>2. Elems(r) = Elems(s) \cup {c} /\ Once(r)
  BY <1>1 DEF Elems, Once
<1>. QED
  BY <1>2 DEF r

\* The run thread stays with the request it has taken.
LEMMA ErrandStep ==
  ASSUME PipelineInv, Errand, [Next]_vars
  PROVE  Errand'
<1>. USE ConstantAssumption DEF Errand, SendLabels, At, Go, Hold, Post, PipelineInv, IInv, Control,
         ControlTypeOK, Threads, Workers
<1>1. CASE Listen
  BY <1>1 DEF Listen, ListenLoop, ReceiveFails, ListenRetry, QueueMessage
<1>2. CASE RunPop
  <2>1. PICK m \in Messages : m = Head(mq)
    BY <1>2 DEF RunPop, DataTypeOK
  <2>2. m.kind \in ServiceKinds \cup DataKinds
    BY <2>1 DEF Messages
  <2>3. msg'["run"] = m
    BY <1>2, <2>1 DEF RunPop
  <2>4. \/ pc'["run"] = "forward"
        \/ pc'["run"] = "remove" /\ m.kind = "leave"
        \/ pc'["run"] = "send" /\ letter'["run"] = "ok" /\ m.kind = "connect"
        \/ pc'["run"] = "send" /\ letter'["run"] = "reply" /\ m.kind \in {"query", "expel"}
        \/ pc'["run"] = "send" /\ letter'["run"] = "expel" /\ m.kind = "expel"
    BY <1>2, <2>1, <2>2 DEF RunPop, ServiceKinds, DataKinds
  <2>. QED
    BY <2>3, <2>4
<1>3. CASE Run /\ ~RunPop
  BY <1>3 DEF Run, RunLoop, RunClosed, Forward, Provide, Register, Remove, ExpelCrashes, RunReturn
<1>4. CASE Plugin
  <2>1. pc'["run"] = pc["run"] /\ msg'["run"] = msg["run"] /\ letter'["run"] = letter["run"]
    BY <1>4 DEF Plugin, PluginLoop, PluginPop, Write, WriteRefused, WriteFails, PassOver, NotConnected, DbConnect, DbConnected, Processed,
                Handled
  <2>. QED
    BY <2>1
<1>5. CASE \E t \in Threads : Shared(t)
  <2>. PICK t \in Threads : Shared(t)
    BY <1>5
  <2>1. UNCHANGED msg
    BY DEF Shared, TakeReconnect, LeaveReconnect, TakeSend, Sent, SendFails, SendTooLong, SendRetry, Stop,
           ClosePlugin, DisablePlugin, CloseQueue, LeaveSession
  <2>2. CASE t # "run"
    <3>1. pc'["run"] = pc["run"] /\ letter'["run"] = letter["run"]
      BY <2>2 DEF Shared, TakeReconnect, LeaveReconnect, TakeSend, Sent, SendFails, SendTooLong, SendRetry, Stop,
           ClosePlugin, DisablePlugin, CloseQueue, LeaveSession, FinishSend
    <3>. QED
      BY <2>1, <3>1
  <2>3. CASE t = "run" /\ (Sent(t) \/ GivesUpSend(t))
    <3>1. pc["run"] \in SendLabels /\ letter["run"] \in {"ok", "service", "expel", "reply"}
      BY <2>3 DEF Sent, GivesUpSend, SendRetry, SendTooLong, Course, Path, Flow, Letters
    <3>2. pc'["run"] = AfterSend(letter["run"])
      BY <2>3 DEF Sent, GivesUpSend, SendRetry, SendTooLong, FinishSend, KeepsTrying
    <3>. QED
      BY <2>1, <3>1, <3>2 DEF AfterSend
  <2>4. CASE t = "run" /\ ~(Sent(t) \/ GivesUpSend(t))
    <3>1. /\ pc["run"] \in SendLabels /\ pc'["run"] \in SendLabels /\ letter'["run"] = letter["run"]
      BY <2>4 DEF Shared, GivesUpSend, TakeReconnect, LeaveReconnect, TakeSend, SendFails, SendTooLong, SendRetry, Stop,
           ClosePlugin, DisablePlugin, CloseQueue, LeaveSession, AfterReconnect, KeepsTrying, Course,
           Path, RunLabels, RunIdle
    <3>. QED
      BY <2>1, <3>1
  <2>. QED
    BY <2>2, <2>3, <2>4
<1>6. CASE Receive \/ Exit \/ Signal \/ Break \/ LeaveUnseen \/ DbLost
  BY <1>6 DEF Receive, Exit, Signal, Break, LeaveUnseen, DbLost, process
<1>7. CASE UNCHANGED vars
  BY <1>7 DEF vars
<1>. QED
  BY <1>1, <1>2, <1>3, <1>4, <1>5, <1>6, <1>7 DEF Next, Run

\* Only what arrives adds members.
LEMMA MembersKept ==
  ASSUME [Next]_vars, ~Receive
  PROVE  received' = received /\ members' \subseteq members
<1>. USE DEF registry, history
<1>1. CASE Listen
  BY <1>1 DEF Listen, ListenLoop, ReceiveFails, ListenRetry, QueueMessage
<1>2. CASE Run
  BY <1>2 DEF Run, RunLoop, RunClosed, RunPop, Forward, Provide, Register, Remove, ExpelCrashes, RunReturn
<1>3. CASE Plugin
  BY <1>3 DEF Plugin, PluginLoop, PluginPop, Write, WriteRefused, WriteFails, PassOver, NotConnected, DbConnect, DbConnected, Processed, Handled
<1>4. CASE \E t \in Threads : Shared(t)
  BY <1>4 DEF Shared, TakeReconnect, LeaveReconnect, TakeSend, Sent, SendFails, SendTooLong, SendRetry, Stop,
              ClosePlugin, DisablePlugin, CloseQueue, LeaveSession
<1>5. CASE Exit \/ Signal \/ Break \/ LeaveUnseen \/ DbLost
  BY <1>5 DEF Exit, Signal, Break, LeaveUnseen, DbLost
<1>6. CASE UNCHANGED vars
  BY <1>6 DEF vars
<1>. QED
  BY <1>1, <1>2, <1>3, <1>4, <1>5, <1>6 DEF Next

\* A message that arrives, in the history.
LEMMA ReceiveHistory ==
  ASSUME IInv, Receive
  PROVE  \E m \in Messages :
           /\ m.id = Len(received) + 1 /\ m.who \in Clients
           /\ Load(3)' = Load(3) /\ Load(4)' = Load(4) /\ Load(5) = {} /\ Load(5)' = {m}
           /\ clients' = clients
           /\ due' = IF m.kind = "connect" THEN due \cup {m.who} ELSE due
           /\ m.kind = "connect" => ~Arrived("connect", m.who) /\ members' = members \cup {m.who}
           /\ m.kind = "leave" => m.who \in members /\ members' = members \ {m.who}
           /\ m.kind \notin {"connect", "leave"} => members' = members
           /\ DOMAIN received' = DOMAIN received \cup {m.id} /\ received'[m.id] = m
           /\ \A i \in DOMAIN received : received'[i] = received[i] /\ i < m.id
           /\ \A k, c : Arrived(k, c)' <=> Arrived(k, c) \/ (m.kind = k /\ m.who = c)
<1>1. PICK x \in Messages :
        /\ x.id = Len(received) + 1 /\ received' = Append(received, x)
        /\ \A j \in 1..4 : Load(j)' = Load(j)
        /\ Load(5) = {} /\ Load(5)' = {x}
        /\ UNCHANGED <<nq, mq, relayed>>
  BY ReceiveEffect
<1>2. PICK m \in Messages :
        /\ m.id = Len(received) + 1 /\ received' = Append(received, m) /\ MayArrive(m)
        /\ members' = CASE m.kind = "connect" -> members \cup {m.who}
                        [] m.kind = "leave"   -> members \ {m.who}
                        [] OTHER -> members
        /\ due' = IF m.kind = "connect" THEN due \cup {m.who} ELSE due
  BY DEF Receive
<1>3. /\ DOMAIN received = 1..Len(received)
      /\ DOMAIN received' = DOMAIN received \cup {m.id} /\ received'[m.id] = m
      /\ \A i \in DOMAIN received : received'[i] = received[i] /\ i < m.id
  <2>1. received \in Seq(Messages) /\ m \in Messages
    BY DEF IInv, DataTypeOK
  <2>. QED
    BY <1>2, <2>1
<1>4. x = m
  <2>1. received \in Seq(Messages) /\ x \in Messages
    BY DEF IInv, DataTypeOK
  <2>2. received'[Len(received) + 1] = x
    BY <1>1, <2>1
  <2>. QED
    BY <1>2, <1>3, <2>2
<1>5. m.kind = "connect" => ~Arrived("connect", m.who)
  BY <1>2, <1>3 DEF MayArrive, Joined, Arrived
<1>6. m.kind = "leave" => m.who \in members
  BY <1>2 DEF MayArrive
<1>7. \A k, c : Arrived(k, c)' <=> Arrived(k, c) \/ (m.kind = k /\ m.who = c)
  BY <1>3 DEF Arrived
<1>8. m.who \in Clients /\ clients' = clients
  BY DEF Messages, Receive
<1>9. Load(3)' = Load(3) /\ Load(4)' = Load(4)
  BY <1>1
<1>. QED
  BY <1>1, <1>2, <1>3, <1>4, <1>5, <1>6, <1>7, <1>8, <1>9

\* The requests in the hands of the threads are among those that arrived.
LEMMA WaitingArrived ==
  ASSUME PipelineInv
  PROVE  /\ \A m \in Waiting : m.id \in DOMAIN received /\ received[m.id] = m /\ m.who \in Clients
         /\ \A k, c : Waits(k, c) => Arrived(k, c)
<1>1. ASSUME NEW m \in Waiting
      PROVE  m.id \in DOMAIN received /\ received[m.id] = m /\ m.who \in Clients
  <2>1. m.id \in DOMAIN received /\ received[m.id] = m
    BY DEF Waiting, PipelineInv, Places, Origin
  <2>2. received[m.id] \in Messages
    BY <2>1 DEF PipelineInv, IInv, DataTypeOK
  <2>. QED
    BY <2>1, <2>2 DEF Messages
<1>. QED
  BY <1>1 DEF Waits, Arrived

\* What the rows of the two queues say of the waiting requests.
LEMMA PendingWaits ==
  ASSUME PipelineInv
  PROVE  \A k, c : Pending(k, c) <=> Waits(k, c)
<1>. DEFINE row == RunHolds \o mq \o ListenHolds
<1>1. row \in Seq(Messages) /\ Elems(row) = Waiting
  <2>1. /\ RunHolds \in Seq(Messages) /\ Elems(RunHolds) = Load(3) /\ Increasing(IdsOf(RunHolds))
        /\ mq \in Seq(Messages) /\ Elems(mq) = Load(4) /\ Increasing(IdsOf(mq))
        /\ ListenHolds \in Seq(Messages) /\ Elems(ListenHolds) = Load(5)
        /\ Increasing(IdsOf(ListenHolds))
    BY HoldsAreLoads
  <2>2. ASSUME NEW k \in 1..5, NEW l \in 1..5, k < l, NEW m \in Load(k), NEW n \in Load(l)
        PROVE  m.id < n.id
    <3>1. m.id \in Stages[k] /\ n.id \in Stages[l] /\ k \in 0..5 /\ l \in 0..5
      BY DEF Stages, Stage
    <3>. QED
      BY <2>2, <3>1 DEF PipelineInv, Places, Order, InOrder
  <2>. DEFINE two == RunHolds \o mq
  <2>3. two \in Seq(Messages) /\ Elems(two) = Load(3) \cup Load(4) /\ Increasing(IdsOf(two))
    <3>1. \A m \in Load(3), n \in Load(4) : m.id < n.id
      BY <2>2
    <3>. QED
      BY <2>1, <3>1, JoinInOrder
  <2>. HIDE DEF two
  <2>4. two \o ListenHolds \in Seq(Messages) /\ Elems(two \o ListenHolds) = Waiting
    <3>1. \A m \in Load(3) \cup Load(4), n \in Load(5) : m.id < n.id
      BY <2>2
    <3>. QED
      BY <2>1, <2>3, <3>1, JoinInOrder DEF Waiting
  <2>. QED
    BY <2>4 DEF two
<1>. HIDE DEF row
<1>2. \A k, c : Pending(k, c) <=> \E i \in 1..Len(row) : row[i].kind = k /\ row[i].who = c
  BY DEF Pending, row
<1>. QED
  BY <1>1, <1>2 DEF Waits, Elems

\* reconnect() empties the registry; otherwise only the two requests change it.
LEMMA ClientsKept ==
  ASSUME PipelineInv, [Next]_vars, ~Receive, ~Register, ~Remove
  PROVE  \/ clients' = clients /\ due' = due
         \/ clients' = <<>> /\ due' = {c \in Clients : Waits("connect", c)}
<1>. USE DEF registry
<1>1. CASE Listen
  BY <1>1 DEF Listen, ListenLoop, ReceiveFails, ListenRetry, QueueMessage
<1>2. CASE Run
  BY <1>2 DEF Run, RunLoop, RunClosed, RunPop, Forward, Provide, ExpelCrashes, RunReturn
<1>3. CASE Plugin
  BY <1>3 DEF Plugin, PluginLoop, PluginPop, Write, WriteRefused, WriteFails, PassOver, NotConnected, DbConnect, DbConnected, Processed, Handled
<1>4. CASE \E t \in Threads : Shared(t)
  <2>. PICK t \in Threads : Shared(t)
    BY <1>4
  <2>1. CASE TakeReconnect(t)
    <3>1. \A c : Pending("connect", c) <=> Waits("connect", c)
      BY PendingWaits
    <3>. QED
      BY <2>1, <3>1 DEF TakeReconnect, Emptied
  <2>2. CASE ~TakeReconnect(t)
    BY <2>2 DEF Shared, LeaveReconnect, TakeSend, Sent, SendFails, SendTooLong, SendRetry, Stop,
              ClosePlugin, DisablePlugin, CloseQueue, LeaveSession
  <2>. QED
    BY <2>1, <2>2
<1>5. CASE Exit \/ Signal \/ Break \/ LeaveUnseen \/ DbLost
  BY <1>5 DEF Exit, Signal, Break, LeaveUnseen, DbLost
<1>6. CASE UNCHANGED vars
  BY <1>6 DEF vars
<1>. QED
  BY <1>1, <1>2, <1>3, <1>4, <1>5, <1>6 DEF Next

LEMMA VisitsStep ==
  ASSUME PipelineInv, Visits, [Next]_vars
  PROVE  Visits'
<1>1. CASE Receive
  <2>1. PICK m \in Messages :
           /\ m.id = Len(received) + 1 /\ m.who \in Clients
           /\ due' = IF m.kind = "connect" THEN due \cup {m.who} ELSE due
           /\ m.kind = "connect" => ~Arrived("connect", m.who) /\ members' = members \cup {m.who}
           /\ m.kind = "leave" => m.who \in members /\ members' = members \ {m.who}
           /\ m.kind \notin {"connect", "leave"} => members' = members
           /\ DOMAIN received' = DOMAIN received \cup {m.id} /\ received'[m.id] = m
           /\ \A i \in DOMAIN received : received'[i] = received[i] /\ i < m.id
           /\ \A k, c : Arrived(k, c)' <=> Arrived(k, c) \/ (m.kind = k /\ m.who = c)
    BY <1>1, ReceiveHistory DEF PipelineInv
  <2>2. ASSUME NEW i \in DOMAIN received', NEW j \in DOMAIN received',
               received'[i].kind = "connect", received'[i].who = received'[j].who
        PROVE  /\ received'[j].kind = "connect" => i = j
               /\ received'[j].kind = "leave" => i < j
    <3>1. CASE i \in DOMAIN received /\ j \in DOMAIN received
      BY <2>1, <2>2, <3>1 DEF Visits
    <3>2. CASE i \in DOMAIN received /\ j = m.id
      <4>1. Arrived("connect", received[i].who) /\ i < j
        BY <2>1, <2>2, <3>2 DEF Arrived
      <4>. QED
        BY <2>1, <2>2, <3>2, <4>1
    <3>3. CASE i = m.id /\ j \in DOMAIN received
      <4>1. ~Arrived("connect", m.who)
        BY <2>1, <2>2, <3>3
      <4>2. received[j].kind # "connect"
        BY <2>1, <2>2, <3>3, <4>1 DEF Arrived
      <4>3. received[j].kind = "leave" => Arrived("leave", m.who)
        BY <2>1, <2>2, <3>3 DEF Arrived
      <4>. QED
        BY <2>1, <3>3, <4>1, <4>2, <4>3 DEF Visits
    <3>4. CASE i = m.id /\ j = m.id
      BY <2>1, <2>2, <3>4
    <3>. QED
      BY <2>1, <3>1, <3>2, <3>3, <3>4
  <2>3. ASSUME NEW c \in Clients, Arrived("leave", c)' PROVE Arrived("connect", c)' /\ c \notin members'
    <3>1. CASE Arrived("leave", c)
      <4>1. Arrived("connect", c) /\ c \notin members
        BY <3>1 DEF Visits
      <4>2. c \notin members'
        BY <2>1, <4>1
      <4>. QED
        BY <2>1, <4>1, <4>2
    <3>2. CASE m.kind = "leave" /\ m.who = c
      BY <2>1, <3>2 DEF Visits
    <3>. QED
      BY <2>1, <2>3, <3>1, <3>2
  <2>4. \A c \in (members \cup due)' : Arrived("connect", c)'
    BY <2>1 DEF Visits
  <2>. QED
    BY <2>2, <2>3, <2>4 DEF Visits
<1>2. CASE ~Receive
  <2>1. received' = received /\ members' \subseteq members
    BY <1>2, MembersKept
  <2>2. \A k, c : Arrived(k, c)' <=> Arrived(k, c)
    BY <2>1 DEF Arrived
  <2>3. \A c \in due' : Arrived("connect", c)
    <3>1. CASE due' = due
      BY <3>1 DEF Visits
    <3>2. CASE due' = {c \in Clients : Waits("connect", c)}
      BY <3>2, WaitingArrived
    <3>3. due' = due \/ due' = {c \in Clients : Waits("connect", c)}
      <4>1. CASE Register \/ Remove
        BY <4>1 DEF Register, Remove
      <4>. QED
        BY <1>2, <4>1, ClientsKept
    <3>. QED
      BY <3>1, <3>2, <3>3
  <2>. QED
    BY <2>1, <2>2, <2>3 DEF Visits
<1>. QED
  BY <1>1, <1>2

\* While the master runs, a request is handled by the run thread or it keeps waiting.
LEMMA WaitingKept ==
  ASSUME PipelineInv, PipelineInv', [Next]_vars, running', ~Receive
  PROVE  \/ Waiting' = Waiting
         \/ /\ Waiting = Waiting' \cup {msg["run"]} /\ msg["run"] \notin Waiting'
            /\ pc["run"] \notin RunIdle /\ pc'["run"] \in RunIdle
<1>. DEFINE x == msg["run"]
            Handled3 == x \in Load(3) /\ Load(3) = {x} /\ Load(3)' = {} /\ Load(4)' = Load(4)
                        /\ Load(5)' = Load(5)
<1>1. ASSUME NEW m \in Load(3) PROVE m = x /\ Load(3) = {x} /\ pc["run"] \notin RunIdle
  BY Loads DEF InHand
<1>2. Load(3)' = {} => pc'["run"] \in RunIdle
  BY Loads DEF InHand
<1>3. ~ListenGone'
  BY DEF PipelineInv, Course, Stopping, ListenGone, Threads, Workers
<1>4. Handled3 => x \notin Waiting'
  <2>. SUFFICES ASSUME Handled3, NEW l \in 4..5, x \in Load(l) PROVE FALSE
    BY DEF Waiting
  <2>1. x.id \in Stages[3] /\ x.id \in Stages[l] /\ 3 \in 0..5 /\ l \in 0..5 /\ 3 < l
    BY DEF Stages, Stage
  <2>2. x.id < x.id
    BY <2>1 DEF PipelineInv, Places, Order, InOrder
  <2>3. x.id \in Nat
    BY <2>1, StagesTyped DEF PipelineInv, Places
  <2>. QED
    BY <2>2, <2>3
<1>5. ASSUME NEW k \in 1..5, NEW m \in Load(k), Moved(k, m) PROVE Handled3 \/ Waiting' = Waiting
  <2>1. CASE k = 5
    <3>1. Load(3)' = Load(3) /\ Load(4)' = Load(4) \cup {m} /\ Load(5) = Load(5)' \cup {m}
      BY <1>5, <2>1 DEF Moved
    <3>. QED
      BY <3>1 DEF Waiting
  <2>2. CASE k = 4
    <3>1. Load(5)' = Load(5) /\ Load(3)' = Load(3) \cup {m} /\ Load(4) = Load(4)' \cup {m}
      BY <1>5, <2>2 DEF Moved
    <3>. QED
      BY <3>1 DEF Waiting
  <2>3. CASE k = 3
    <3>1. Load(4)' = Load(4) /\ Load(5)' = Load(5) /\ Load(3) = Load(3)' \cup {m}
          /\ \A n \in Load(3)' : m.id < n.id
      BY <1>5, <2>3 DEF Moved
    <3>2. m = x /\ Load(3) = {x}
      BY <1>1, <2>3
    <3>3. x.id \in Nat
      <4>1. x.id \in Stage(3)
        BY <3>2 DEF Stage
      <4>. QED
        BY <4>1, StagesTyped DEF PipelineInv, Places
    <3>4. Load(3)' = {}
      BY <3>1, <3>2, <3>3
    <3>. QED
      BY <3>1, <3>2, <3>4
  <2>4. CASE k \in 1..2
    <3>1. Load(3)' = Load(3) /\ Load(4)' = Load(4) /\ Load(5)' = Load(5)
      BY <1>5, <2>4 DEF Moved
    <3>. QED
      BY <3>1 DEF Waiting
  <2>. QED
    BY <2>1, <2>2, <2>3, <2>4
<1>6. ASSUME NEW k \in 1..5, NEW m \in Load(k), Dropped(k, m) PROVE Handled3 \/ Waiting' = Waiting
  <2>1. CASE k = 3
    <3>1. Load(4)' = Load(4) /\ Load(5)' = Load(5) /\ Load(3)' = {}
      BY <1>6, <2>1 DEF Dropped
    <3>. QED
      BY <1>1, <2>1, <3>1
  <2>2. CASE k # 3
    <3>1. k = 1
      BY <1>3, <1>6, <2>2 DEF Dropped
    <3>2. Load(3)' = Load(3) /\ Load(4)' = Load(4) /\ Load(5)' = Load(5)
      BY <1>6, <3>1 DEF Dropped
    <3>. QED
      BY <3>2 DEF Waiting
  <2>. QED
    BY <2>1, <2>2
<1>7. Handled3 \/ Waiting' = Waiting
  <2>1. Kept => Waiting' = Waiting
    BY DEF Kept, Waiting
  <2>. QED
    BY <1>5, <1>6, <2>1, StepEffect DEF PipelineInv, Effect
<1>8. Handled3 => /\ Waiting = Waiting' \cup {x} 
                  /\ pc["run"] \notin RunIdle /\ pc'["run"] \in RunIdle
  BY <1>1, <1>2 DEF Waiting
<1>. QED
  BY <1>4, <1>7, <1>8

\* A request to connect is done with when the client has been registered, a leave when it
\* has been removed.
LEMMA HandledKinds ==
  ASSUME PipelineInv, Errand, [Next]_vars, running', pc["run"] \notin RunIdle, pc'["run"] \in RunIdle
  PROVE  \/ Register \/ Remove
         \/ msg["run"].kind \notin {"connect", "leave"}
<1>. USE DEF At, Go, PipelineInv, IInv, Control, ControlTypeOK, Threads, Workers, RunIdle
<1>1. CASE Run /\ ~Register /\ ~Remove
  <2>1. Forward
    BY <1>1 DEF Run, RunLoop, RunClosed, RunPop, Provide, ExpelCrashes, RunReturn, Post
  <2>. QED
    BY <2>1 DEF Forward, Course, Path, DataKinds
<1>2. CASE \E t \in Threads : Shared(t)
  <2>. PICK t \in Threads : Shared(t)
    BY <1>2
  <2>1. t = "run"
    BY DEF Shared, TakeReconnect, LeaveReconnect, TakeSend, Sent, SendFails, SendTooLong, SendRetry, Stop,
           ClosePlugin, DisablePlugin, CloseQueue, LeaveSession, FinishSend, Post
  <2>2. pc["run"] \in SendLabels /\ (Sent(t) \/ GivesUpSend(t))
    BY <2>1 DEF Shared, GivesUpSend, TakeReconnect, LeaveReconnect, TakeSend, Sent, SendFails, SendTooLong, SendRetry, Stop,
           ClosePlugin, DisablePlugin, CloseQueue, LeaveSession, SendLabels, Post, AfterReconnect,
           KeepsTrying
  <2>3. Sent(t)
    BY <2>2 DEF GivesUpSend, SendRetry, SendTooLong, process
  <2>4. letter["run"] \in {"ok", "service", "expel", "reply"} /\ pc'["run"] = AfterSend(letter["run"])
    BY <2>1, <2>3, ConstantAssumption DEF Sent, FinishSend, Course, Path, Flow, Letters, SendLabels
  <2>5. letter["run"] = "reply"
    BY <2>4 DEF AfterSend
  <2>. QED
    BY <2>2, <2>5 DEF Errand
<1>3. CASE Listen \/ Receive \/ Exit \/ Signal \/ Break \/ LeaveUnseen \/ DbLost \/ UNCHANGED vars \/ Plugin
  <2>1. pc'["run"] = pc["run"]
    BY <1>3 DEF Listen, ListenLoop, ReceiveFails, ListenRetry, QueueMessage, Receive, Exit, Signal, Break,
       LeaveUnseen, DbLost, vars, Plugin, PluginLoop, PluginPop, Write, WriteRefused, WriteFails, PassOver, NotConnected, DbConnect,
       DbConnected, Processed, Handled, Post
  <2>. QED
    BY <2>1
<1>. QED
  BY <1>1, <1>2, <1>3 DEF Next

LEMMA EnrolledStep ==
  ASSUME PipelineInv, PipelineInv', RegistryInv, [Next]_vars, running'
  PROVE  Once(clients)' /\ \A c \in Clients : Enrolled(c)'
<1>1. running
  <2>1. CASE Shared("listen") \/ Shared("run") \/ Shared("plugin") \/ Shared("signal")
    BY <2>1 DEF Shared, TakeReconnect, LeaveReconnect, TakeSend, Sent, SendFails, SendTooLong, SendRetry, Stop,
            ClosePlugin, DisablePlugin, CloseQueue, LeaveSession, process
  <2>2. CASE Listen \/ Run \/ Plugin
    BY <2>2 DEF process, Listen, ListenLoop, ReceiveFails, ListenRetry, QueueMessage, Run, RunLoop,
       RunClosed, RunPop, Forward, Provide, Register, Remove, ExpelCrashes, RunReturn, Plugin, PluginLoop, PluginPop,
       Write, WriteRefused, WriteFails, PassOver, NotConnected, DbConnect, DbConnected, Processed, Handled
  <2>3. CASE Receive \/ Exit \/ Signal \/ Break \/ LeaveUnseen \/ DbLost \/ UNCHANGED vars
    BY <2>3 DEF Receive, Exit, Signal, Break, LeaveUnseen, DbLost, vars, process
  <2>. QED
    BY <2>1, <2>2, <2>3 DEF Next, Threads, Workers
<1>2. Once(clients) /\ clients \in Seq(Clients) /\ \A c \in Clients : Enrolled(c)
  BY <1>1 DEF RegistryInv, PipelineInv, IInv, DataTypeOK
<1>3. CASE Receive
  <2>1. PICK m \in Messages :
           /\ m.id = Len(received) + 1 /\ m.who \in Clients
           /\ Load(3)' = Load(3) /\ Load(4)' = Load(4) /\ Load(5) = {} /\ Load(5)' = {m}
           /\ clients' = clients
           /\ due' = IF m.kind = "connect" THEN due \cup {m.who} ELSE due
           /\ m.kind = "connect" => ~Arrived("connect", m.who) /\ members' = members \cup {m.who}
           /\ m.kind = "leave" => m.who \in members /\ members' = members \ {m.who}
           /\ m.kind \notin {"connect", "leave"} => members' = members
           /\ DOMAIN received' = DOMAIN received \cup {m.id} /\ received'[m.id] = m
           /\ \A i \in DOMAIN received : received'[i] = received[i] /\ i < m.id
           /\ \A k, c : Arrived(k, c)' <=> Arrived(k, c) \/ (m.kind = k /\ m.who = c)
    BY <1>3, ReceiveHistory DEF PipelineInv
  <2>2. \A k, c : Waits(k, c)' <=> Waits(k, c) \/ (m.kind = k /\ m.who = c)
    <3>1. Waiting' = Waiting \cup {m}
      BY <2>1 DEF Waiting
    <3>. QED
      BY <3>1 DEF Waits
  <2>3. ASSUME NEW c \in Clients PROVE Enrolled(c)'
    <3>1. c \in members \cup due \/ Waits("connect", c) => Arrived("connect", c)
      BY WaitingArrived DEF RegistryInv, Visits
    <3>2. Enrolled(c)
      BY <1>2
    <3>3. Arrived("leave", c) => Arrived("connect", c)
      BY DEF RegistryInv, Visits
    <3>4. Due(c) => Due(c)'
      BY <2>1, <2>2 DEF Due
    <3>5. CASE m.kind = "connect" /\ m.who = c
      <4>1. ~Arrived("connect", c)
        BY <2>1, <3>5
      <4>2. ~Arrived("leave", c)' /\ c \in due'
        BY <2>1, <3>3, <3>5, <4>1
      <4>3. c \notin Elems(clients) /\ Waits("connect", c)'
        BY <2>2, <3>1, <3>2, <3>5, <4>1 DEF Enrolled, Due
      <4>. QED
        BY <2>1, <4>2, <4>3 DEF Enrolled, Due
    <3>6. CASE ~(m.kind = "connect" /\ m.who = c)
      <4>1. Waits("connect", c)' <=> Waits("connect", c)
        BY <2>2, <3>6
      <4>2. (c \in members' => c \in members) /\ (c \in due' => c \in due)
        BY <2>1, <3>6
      <4>3. Arrived("expel", c) => Arrived("expel", c)'
        BY <2>1
      <4>. QED
        BY <2>1, <3>2, <3>4, <4>1, <4>2, <4>3 DEF Enrolled
    <3>. QED
      BY <3>5, <3>6
  <2>. QED
    BY <1>2, <2>1, <2>3
<1>4. CASE ~Receive
  <2>1. received' = received /\ members' \subseteq members
    BY <1>4, MembersKept
  <2>2. \A k, c : Arrived(k, c)' <=> Arrived(k, c)
    BY <2>1 DEF Arrived
  <2>. DEFINE x == msg["run"]
  <2>3. CASE Register \/ Remove
    <3>1. /\ pc["run"] \notin RunIdle /\ pc'["run"] \in RunIdle /\ x \in Load(3)
      BY <2>3, Loads DEF Register, Remove, At, Go, RunIdle, InHand, PipelineInv, IInv, Control,
                         ControlTypeOK, Threads, Workers
    <3>2. Waiting = Waiting' \cup {x} /\ x \notin Waiting'
      <4>1. Load(3)' = {} /\ x \notin Load(3)'
        BY <3>1, Loads DEF InHand
      <4>2. Waiting' # Waiting
        <5>1. x \notin Load(4)' /\ x \notin Load(5)'
          <6>1. UNCHANGED <<mq, pc>> \/ UNCHANGED mq
            BY <2>3 DEF Register, Remove, queues
          <6>2. Load(4)' = Load(4) /\ Load(5)' = Load(5)
            BY <2>3, <6>1, Loads DEF Register, Remove, Go, PipelineInv, IInv, Control, ControlTypeOK,
                                     Threads, Workers
          <6>3. ASSUME NEW l \in 4..5, x \in Load(l) PROVE FALSE
            <7>1. x.id \in Stages[3] /\ x.id \in Stages[l] /\ 3 \in 0..5 /\ l \in 0..5 /\ 3 < l
              BY <3>1, <6>3 DEF Stages, Stage
            <7>2. x.id < x.id
              BY <7>1 DEF PipelineInv, Places, Order, InOrder
            <7>3. x.id \in Nat
              BY <7>1, StagesTyped DEF PipelineInv, Places
            <7>. QED
              BY <7>2, <7>3
          <6>. QED
            BY <6>2, <6>3
        <5>. QED
          BY <3>1, <4>1, <5>1 DEF Waiting
      <4>. QED
        BY <1>4, <4>2, WaitingKept
    <3>3. x.who \in Clients /\ x.id \in DOMAIN received /\ received[x.id] = x
      BY <3>1, WaitingArrived DEF Waiting
    <3>8. due' = due
      BY <2>3 DEF Register, Remove
    <3>4. ASSUME NEW k, NEW c, k # x.kind \/ c # x.who PROVE Waits(k, c)' <=> Waits(k, c)
      BY <3>2, <3>4 DEF Waits
    <3>5. Waits(x.kind, x.who)
      BY <3>2 DEF Waits
    <3>6. CASE Register
      <4>1. x.kind = "connect" /\ clients' = Append(clients, x.who)
        BY <3>6 DEF Register, At, RegistryInv, Errand
      <4>2. \A c \in Clients : c = x.who => ~Waits("connect", c)'
        <5>. SUFFICES ASSUME NEW m \in Waiting', m.kind = "connect", m.who = x.who PROVE FALSE
          BY DEF Waits
        <5>1. m \in Waiting
          BY <3>2
        <5>2. m.id \in DOMAIN received /\ received[m.id] = m
          BY <5>1, WaitingArrived
        <5>3. m.id = x.id
          BY <3>3, <4>1, <5>2 DEF RegistryInv, Visits
        <5>. QED
          BY <3>2, <3>3, <5>2, <5>3
      <4>3. Enrolled(x.who) /\ x.who \notin Elems(clients)
        BY <1>2, <3>3, <3>5, <4>1 DEF Enrolled
      <4>4. Elems(clients') = Elems(clients) \cup {x.who} /\ Once(clients')
        BY <1>2, <3>3, <4>1, <4>3, RegisteredExact
      <4>5. ASSUME NEW c \in Clients PROVE Enrolled(c)'
        <5>1. Enrolled(c)
          BY <1>2
        <5>2. Waits("leave", c)' <=> Waits("leave", c)
          BY <3>4, <4>1
        <5>3. Due(c)' <=> Due(c)
          BY <2>2, <3>8, <5>2 DEF Due
        <5>4. CASE c = x.who
          BY <2>1, <2>2, <3>5, <3>8, <4>1, <4>2, <4>3, <4>4, <5>3, <5>4 DEF Enrolled
        <5>5. CASE c # x.who
          BY <2>1, <2>2, <3>4, <3>8, <4>4, <5>1, <5>3, <5>5 DEF Enrolled
        <5>. QED
          BY <5>4, <5>5
      <4>. QED
        BY <4>4, <4>5
    <3>7. CASE Remove
      <4>1. x.kind \in {"leave", "expel"} /\ clients' = Removed(x.who)
        BY <3>7 DEF Remove, At, RegistryInv, Errand
      <4>2. Elems(clients') = Elems(clients) \ {x.who} /\ Once(clients')
        BY <1>2, <4>1, RemovedExact
      <4>3. x.kind = "leave" => x.who \notin members
        BY <3>3 DEF Arrived, RegistryInv, Visits
      <4>4. x.kind = "expel" => Arrived("expel", x.who)
        BY <3>3 DEF Arrived
      <4>5. x.kind = "leave" => ~Waits("connect", x.who)
        <5>. SUFFICES ASSUME x.kind = "leave", NEW m \in Waiting, m.kind = "connect", m.who = x.who
                      PROVE  FALSE
          BY DEF Waits
        <5>1. m.id \in DOMAIN received /\ received[m.id] = m
          BY WaitingArrived
        <5>2. m.id < x.id
          BY <3>3, <5>1 DEF RegistryInv, Visits
        <5>3. m # x
          OBVIOUS
        <5>4. PICK l \in 4..5 : m \in Load(l)
          <6>1. Load(3) = {x}
            BY <3>1, Loads DEF InHand
          <6>. QED
            BY <5>3, <6>1 DEF Waiting
        <5>5. x.id \in Stages[3] /\ m.id \in Stages[l] /\ 3 \in 0..5 /\ l \in 0..5 /\ 3 < l
          BY <3>1, <5>4 DEF Stages, Stage
        <5>6. x.id < m.id
          BY <5>5 DEF PipelineInv, Places, Order, InOrder
        <5>7. x.id \in Nat /\ m.id \in Nat
          BY <5>5, StagesTyped DEF PipelineInv, Places
        <5>. QED
          BY <5>2, <5>6, <5>7
      <4>6. ASSUME NEW c \in Clients PROVE Enrolled(c)'
        <5>1. Enrolled(c)
          BY <1>2
        <5>2. Waits("connect", c)' <=> Waits("connect", c)
          BY <3>4, <4>1
        <5>3. CASE c = x.who /\ x.kind = "leave"
          BY <2>1, <4>2, <4>3, <4>5, <5>2, <5>3 DEF Enrolled
        <5>4. CASE c # x.who \/ x.kind = "expel"
          <6>1. Waits("leave", c)' <=> Waits("leave", c)
            BY <3>4, <5>4
          <6>2. Due(c)' <=> Due(c)
            BY <2>2, <3>8, <6>1 DEF Due
          <6>3. c \in Elems(clients') => c \in Elems(clients)
            BY <4>2
          <6>4. c \in Elems(clients) => c \in Elems(clients') \/ Arrived("expel", c)'
            BY <2>2, <4>2, <4>4, <5>4
          <6>. QED
            BY <2>1, <2>2, <3>8, <5>1, <5>2, <6>2, <6>3, <6>4 DEF Enrolled
        <5>. QED
          BY <4>1, <5>3, <5>4
      <4>. QED
        BY <4>2, <4>6
    <3>. QED
      BY <2>3, <3>6, <3>7
  <2>4. CASE ~Register /\ ~Remove
    <3>2. \A c : \A k \in {"connect", "leave"} : Waits(k, c)' <=> Waits(k, c)
      <4>1. CASE Waiting' = Waiting
        BY <4>1 DEF Waits
      <4>2. CASE Waiting' # Waiting
        <5>1. /\ Waiting = Waiting' \cup {x} /\ pc["run"] \notin RunIdle /\ pc'["run"] \in RunIdle
          BY <1>4, <4>2, WaitingKept
        <5>2. x.kind \notin {"connect", "leave"}
          BY <2>4, <5>1, HandledKinds DEF RegistryInv
        <5>. QED
          BY <5>1, <5>2 DEF Waits
      <4>. QED
        BY <4>1, <4>2
    <3>3. ASSUME NEW c \in Clients PROVE /\ Waits("connect", c)' <=> Waits("connect", c)
                                         /\ Waits("leave", c)' <=> Waits("leave", c)
      BY <3>2
    <3>4. CASE clients' = clients /\ due' = due
      <4>1. ASSUME NEW c \in Clients PROVE Enrolled(c)'
        <5>1. Enrolled(c)
          BY <1>2
        <5>2. Due(c)' <=> Due(c)
          BY <2>2, <3>3, <3>4 DEF Due
        <5>. QED
          BY <2>1, <2>2, <3>3, <3>4, <5>1, <5>2 DEF Enrolled
      <4>. QED
        BY <1>2, <3>4, <4>1
    <3>5. CASE clients' = <<>> /\ due' = {c \in Clients : Waits("connect", c)}
      <4>1. Once(clients') /\ Elems(clients') = {}
        BY <3>5 DEF Once, Elems
      <4>2. ASSUME NEW c \in Clients PROVE Enrolled(c)'
        <5>1. Enrolled(c)
          BY <1>2
        <5>2. c \in due' <=> Waits("connect", c)'
          BY <3>3, <3>5
        <5>3. Waits("connect", c)' => Due(c)'
          BY <2>2, <3>3, <5>1, <5>2 DEF Enrolled, Due
        <5>. QED
          BY <4>1, <5>2, <5>3 DEF Enrolled
      <4>. QED
        BY <4>1, <4>2
    <3>. QED
      BY <1>4, <2>4, <3>4, <3>5, ClientsKept
  <2>. QED
    BY <2>3, <2>4
<1>. QED
  BY <1>3, <1>4

LEMMA RegistryInvariance == Spec => []RegistryInv
<1>1. Init => RegistryInv
  <2>. SUFFICES ASSUME Init PROVE RegistryInv
    OBVIOUS
  <2>1. Load(3) = {} /\ Load(4) = {} /\ Load(5) = {}
    BY Loads DEF Init, InHand, RunIdle, Elems
  <2>2. \A k, c : ~Waits(k, c) /\ ~Arrived(k, c)
    BY <2>1 DEF Init, Waits, Waiting, Arrived
  <2>3. Elems(clients) = {} /\ Once(clients) /\ members = {} /\ due = {}
    BY DEF Init, Elems, Once
  <2>4. \A c \in Clients : Enrolled(c)
    BY <2>2, <2>3 DEF Enrolled
  <2>5. Errand /\ Visits
    BY <2>2, <2>3 DEF Init, Errand, Visits, SendLabels
  <2>. QED
    BY <2>3, <2>4, <2>5 DEF RegistryInv
<1>2. PipelineInv /\ PipelineInv' /\ RegistryInv /\ [Next]_vars => RegistryInv'
  <2>. SUFFICES ASSUME PipelineInv, PipelineInv', RegistryInv, [Next]_vars
                PROVE  RegistryInv'
    OBVIOUS
  <2>1. Errand'
    BY ErrandStep DEF RegistryInv
  <2>2. Visits'
    BY VisitsStep DEF RegistryInv
  <2>. QED
    BY <2>1, <2>2, EnrolledStep DEF RegistryInv
<1>. QED
  BY <1>1, <1>2, PipelineInvariance, PTL DEF Spec

LEMMA RegistryFollows ==
  ASSUME PipelineInv, RegistryInv
  PROVE  RegistryExact
<1>. SUFFICES ASSUME running
              PROVE  Registered /\ \A i, j \in 1..Len(clients) : clients[i] = clients[j] => i = j
  BY DEF RegistryExact
<1>1. clients \in Seq(Clients) /\ received \in Seq(Messages)
  BY DEF PipelineInv, IInv, DataTypeOK
<1>2. \A c \in Clients : InDB(c) <=> c \in Elems(clients)
  BY <1>1 DEF InDB, Elems
<1>3. \A k, c : Arrived(k, c) <=> ArrivedOf(k, c)
  BY <1>1 DEF Arrived, ArrivedOf
<1>4. \A k, c : Pending(k, c) <=> Waits(k, c)
  BY PendingWaits
<1>5. Once(clients) /\ \A c \in Clients : Enrolled(c)
  BY DEF RegistryInv
<1>6. Registered
  BY <1>2, <1>3, <1>4, <1>5 DEF Registered, Enrolled, Due
<1>7. DOMAIN clients = 1..Len(clients)
  BY <1>1
<1>. QED
  BY <1>5, <1>6, <1>7 DEF Once

\* As long as the master runs, over any number of sessions, _clientDB holds a client
\* once, only if its connect arrived in this session or was waiting when the one before
\* was given up, and not after its leave was handled; it holds all such members but
\* those an administrator has expelled or whose connect is still waiting.
THEOREM RegistryIsExact == Spec => []RegistryExact
<1>1. PipelineInv /\ RegistryInv => RegistryExact
  BY RegistryFollows
<1>. QED
  BY <1>1, PipelineInvariance, RegistryInvariance, PTL
=============================================================================
