-------------------------- MODULE SystemConnection --------------------------
(***************************************************************************)
(* The connection of a client to the messaging system, as its two threads  *)
(* use it.  The reader (the message thread of the application) receives    *)
(* and reconnects; the sender (the main thread) sends, and reads what is   *)
(* waiting before it does.  They share the driver, the queue of messages   *)
(* that have not been handed over, and a flag each in the driver and in    *)
(* the connection that tell whether there is a connection.                 *)
(*                                                                         *)
(* A call of the driver that fails clears the driver's flag a moment later *)
(* (handleError), and disconnect() of the driver does so after the session *)
(* is closed.  Only the reader opens sessions, so that for its own calls   *)
(* the moment does not matter.  For the sender's it does: they are steps   *)
(* of their own, and the flag may by then be that of a new session.        *)
(***************************************************************************)
EXTENDS Naturals, Sequences, FiniteSets

CONSTANTS
  Groups,        \* _subscriptions
  MaxMessages,   \* messages from other clients, a bound
  MaxSends,      \* messages of the sender, a bound
  MaxBreaks,     \* losses of the session, a bound
  MaxDeaths,     \* ends of the master, a bound
  MaxRefusals,   \* requests the master turns down, a bound
  MaxTimeouts,   \* timeouts although the answer is on its way, a bound
  Disconnects    \* whether the application ends

ASSUME SystemConnectionAssumption ==
  /\ IsFiniteSet(Groups) /\ "MASTER" \notin Groups
  /\ {MaxMessages, MaxSends, MaxBreaks, MaxDeaths, MaxRefusals, MaxTimeouts} \subseteq Nat
  /\ Disconnects \in BOOLEAN

VARIABLES
  session,        \* the mailbox: "up", "broken" or "none"; "leaked" if it is
                  \* forgotten but the daemon keeps its session
  linked,         \* _isConnected of the driver
  connected,      \* _isConnected of the connection
  inbox,          \* what the daemon holds for the session
  joined,         \* groups the session is a member of
  queue,          \* _messageQueue
  readLock,       \* _readBufferMutex: who holds it
  pc, msg,        \* of both threads: where they are, the message they hold
  exitRequested,  \* _exitRequested of the application
  master,         \* the master: up, requests of this client it has not answered
  left,           \* what is left of the bounds
  arrived, handed, cleared   \* history: messages received, handed over, cleared

connection == <<session, linked, connected, inbox, joined>>
history == <<arrived, handed, cleared>>
vars == <<session, linked, connected, inbox, joined, queue, readLock, pc, msg,
          exitRequested, master, left, arrived, handed, cleared>>

Threads == {"reader", "sender"}
Free == "free"

\* Kinds of messages: "data" gets queued, "own" and unknown ones are skipped.
Data(id) == [kind |-> "data", id |-> id]
Own == [kind |-> "own", id |-> 0]
Ack == [kind |-> "ack", id |-> 0]
Refusal == [kind |-> "refusal", id |-> 0]
MasterGone == [kind |-> "gone", id |-> 0]

IsConnected == linked /\ connected
Go(t, place) == pc' = [pc EXCEPT ![t] = place]
Released(t) == readLock' = IF readLock = t THEN Free ELSE readLock

Init ==
  /\ session = "up" /\ linked = TRUE /\ connected = TRUE
  /\ inbox = <<>> /\ joined = Groups \cup {"MASTER"}
  /\ queue = <<>> /\ readLock = Free
  /\ pc = [reader |-> "check", sender |-> "idle"]
  /\ msg = [t \in Threads |-> Own]
  /\ exitRequested = FALSE
  /\ master = [up |-> TRUE, asked |-> 0]
  /\ left = [messages |-> MaxMessages, sends |-> MaxSends, breaks |-> MaxBreaks,
             deaths |-> MaxDeaths, refusals |-> MaxRefusals, timeouts |-> MaxTimeouts]
  /\ arrived = {} /\ handed = <<>> /\ cleared = {}

-----------------------------------------------------------------------------
(* readNetworkMessage, by both threads.                                       *)

\* Where the end of the connection takes a thread.
Failed(t) == IF t = "reader" THEN "decide" ELSE IF exitRequested THEN "done" ELSE "recheck"

OwnAsWell(m) == m.kind \in {"data", "own"}
Wanted(m) == m.kind = "data"

\* Everything that is neither queued nor the end of the master is skipped: the
\* loop goes on, with an answer to a connect message as well.
Handles(t, m) ==
  /\ msg' = [msg EXCEPT ![t] = m]
  /\ Go(t, IF Wanted(m) THEN "queue" ELSE IF m = MasterGone THEN "shutdown" ELSE "lock")
  /\ arrived' = IF Wanted(m) THEN arrived \cup {m.id} ELSE arrived

ReceiveMessage(t) ==
  /\ pc[t] = "receive"
  /\ session = "up"
  /\ inbox # <<>>
  /\ inbox' = Tail(inbox)
  /\ Released(t)
  /\ Handles(t, Head(inbox))
  /\ UNCHANGED <<session, linked, connected, joined, queue, exitRequested, master, left,
                 handed, cleared>>

\* The driver forgets that it is connected, the connection does not.
ReceiveError(t) ==
  /\ pc[t] = "receive"
  /\ session # "up"
  /\ IF t = "reader" THEN linked' = FALSE /\ Released(t) /\ Go(t, "decide")
     ELSE Go(t, "receiveError") /\ UNCHANGED <<linked, readLock>>
  /\ UNCHANGED <<session, connected, inbox, joined, queue, msg, exitRequested, master, left,
                 history>>

QueueMessage(t) ==
  /\ pc[t] = "queue"
  /\ queue' = Append(queue, msg[t].id)
  /\ Go(t, IF t = "reader" THEN "take" ELSE "lock")
  /\ UNCHANGED <<connection, readLock, msg, exitRequested, master, left, history>>

Shutdown(t) ==
  /\ pc[t] = "shutdown"
  /\ connected' = FALSE
  /\ Go(t, "close")
  /\ UNCHANGED <<session, linked, inbox, joined, queue, readLock, msg, exitRequested, master,
                 left, history>>

\* What the daemon forgets with a session, or nobody reads any more.
SessionEnds == inbox' = <<>> /\ joined' = {}

\* The session of the driver is closed, whichever thread has opened it.  A
\* connect that has failed gives its lock back.
CloseSession(t) ==
  /\ pc[t] = "close"
  /\ IF linked THEN session' = "none" /\ SessionEnds /\ Go(t, "forget") /\ UNCHANGED readLock
     ELSE Released(t) /\ Go(t, Failed(t)) /\ UNCHANGED <<session, inbox, joined>>
  /\ UNCHANGED <<linked, connected, queue, msg, exitRequested, master, left, history>>

\* The driver forgets its mailbox, the one of a session that the daemon keeps too.
Leak ==
  IF session \in {"up", "leaked"} THEN session' = "leaked" /\ SessionEnds
  ELSE UNCHANGED <<session, inbox, joined>>

ForgetSession(t) ==
  /\ pc[t] = "forget"
  /\ linked' = FALSE
  /\ Leak
  /\ Released(t)
  /\ Go(t, Failed(t))
  /\ UNCHANGED <<connected, queue, msg, exitRequested, master, left, history>>

-----------------------------------------------------------------------------
(* The reader: receive and the loop around it.                                *)

Waits == queue = <<>>

CheckQueue ==
  /\ pc["reader"] = "check"
  /\ Go("reader", IF Waits THEN "lock" ELSE "take")
  /\ UNCHANGED <<connection, queue, readLock, msg, exitRequested, master, left, history>>

LockToRead ==
  /\ pc["reader"] = "lock"
  /\ readLock = Free
  /\ readLock' = "reader"
  /\ Go("reader", "receive")
  /\ UNCHANGED <<connection, queue, msg, exitRequested, master, left, history>>

OnlyRead == queue
Popped == Tail(queue)

ReadLocalMessage ==
  /\ pc["reader"] = "take"
  /\ IF queue = <<>> THEN UNCHANGED <<queue, handed>>
     ELSE queue' = Popped /\ handed' = Append(handed, Head(queue))
  /\ Go("reader", "check")
  /\ UNCHANGED <<connection, readLock, msg, exitRequested, master, left, arrived, cleared>>

ConnectedFirst ==
  IF IsConnected THEN "check" ELSE IF exitRequested THEN "ended" ELSE "reconnect"
FlagOnly == IF exitRequested THEN "ended" ELSE IF connected THEN "check" ELSE "reconnect"

\* readMessages of the application, after an error and after a reconnect.
Decision ==
  IF exitRequested THEN "ended" ELSE IF IsConnected THEN "check" ELSE "reconnect"

Decide ==
  /\ pc["reader"] = "decide"
  /\ Go("reader", Decision)
  /\ UNCHANGED <<connection, queue, readLock, msg, exitRequested, master, left, history>>

-----------------------------------------------------------------------------
(* The reader: reconnect, connect and handshake.                              *)

\* connect tries to take the lock and goes on without it.
TryLock == readLock' = IF readLock = Free THEN "reader" ELSE readLock

Reconnect ==
  /\ pc["reader"] = "reconnect"
  /\ TryLock
  /\ Go("reader", "connect")
  /\ UNCHANGED <<connection, queue, msg, exitRequested, master, left, history>>

\* The daemon takes no second session under the name of one it keeps.  An attempt
\* that fails for another reason is repeated, which changes nothing.
Connect ==
  /\ pc["reader"] = "connect"
  /\ session \notin {"up", "leaked"}
  /\ session' = "up" /\ linked' = TRUE
  /\ SessionEnds
  /\ Go("reader", "join")
  /\ UNCHANGED <<connected, queue, readLock, msg, exitRequested, master, left, history>>

ConnectRefused ==
  /\ pc["reader"] = "connect"
  /\ session \in {"up", "leaked"}
  /\ linked' = FALSE
  /\ Leak
  /\ Released("reader")
  /\ Go("reader", "decide")
  /\ UNCHANGED <<connected, queue, msg, exitRequested, master, left, history>>

JoinMasterGroup ==
  /\ pc["reader"] = "join"
  /\ IF session = "up" THEN joined' = {"MASTER"} /\ Go("reader", "request") /\ UNCHANGED linked
     ELSE linked' = FALSE /\ Go("reader", "shutdown") /\ UNCHANGED joined
  /\ UNCHANGED <<session, connected, inbox, queue, readLock, msg, exitRequested, master, left,
                 history>>

SendRequest ==
  /\ pc["reader"] = "request"
  /\ IF session = "up"
     THEN master' = [master EXCEPT !.asked = IF master.up THEN @ + 1 ELSE 0] /\ Go("reader", "await")
          /\ UNCHANGED linked
     ELSE linked' = FALSE /\ Go("reader", "shutdown") /\ UNCHANGED master
  /\ UNCHANGED <<session, connected, inbox, joined, queue, readLock, msg, exitRequested, left,
                 history>>

PollAnswer ==
  /\ pc["reader"] = "await"
  /\ session = "up" /\ inbox # <<>>
  /\ Go("reader", "answer")
  /\ UNCHANGED <<connection, queue, readLock, msg, exitRequested, master, left, history>>

\* Messages that are not for the private group are dropped.
ReceiveAnswer ==
  /\ pc["reader"] = "answer"
  /\ session = "up" /\ inbox # <<>>
  /\ inbox' = Tail(inbox)
  /\ Go("reader", CASE Head(inbox) = Ack -> "welcome"
                   [] Head(inbox) = Refusal -> "shutdown"
                   [] OTHER -> "await")
  /\ UNCHANGED <<session, linked, connected, joined, queue, readLock, msg, exitRequested,
                 master, left, history>>

\* Of poll() or of receive(): the handshake waits on.
AnswerError ==
  /\ pc["reader"] = "answer" \/ (pc["reader"] = "await" /\ linked)
  /\ session # "up"
  /\ linked' = FALSE
  /\ Go("reader", "await")
  /\ UNCHANGED <<session, connected, inbox, joined, queue, readLock, msg, exitRequested,
                 master, left, history>>

\* Either no answer is to come, or it comes too late.
Timeout ==
  /\ pc["reader"] = "await"
  /\ IF session = "up" THEN inbox = <<>> ELSE ~linked
  /\ IF master.asked > 0 /\ session = "up"
     THEN left.timeouts > 0 /\ left' = [left EXCEPT !.timeouts = @ - 1]
     ELSE UNCHANGED left
  /\ Go("reader", "shutdown")
  /\ UNCHANGED <<connection, queue, readLock, msg, exitRequested, master, history>>

Welcome ==
  /\ pc["reader"] = "welcome"
  /\ connected' = TRUE
  /\ Released("reader")
  /\ Go("reader", "subscribe")
  /\ UNCHANGED <<session, linked, inbox, joined, queue, msg, exitRequested, master, left,
                 history>>

FirstOnly == IF joined \cap Groups = {} THEN Groups ELSE {}
Remaining == Groups \ joined

\* Joins one group after the other; each may fail.
Subscribe ==
  /\ pc["reader"] = "subscribe"
  /\ IF Remaining = {} \/ ~IsConnected THEN Go("reader", "decide") /\ UNCHANGED <<linked, joined>>
     ELSE IF session # "up"
     THEN linked' = FALSE /\ UNCHANGED <<joined, pc>>
     ELSE \E g \in Remaining : joined' = joined \cup {g} /\ UNCHANGED <<linked, pc>>
  /\ UNCHANGED <<session, connected, inbox, queue, readLock, msg, exitRequested, master, left,
                 history>>

-----------------------------------------------------------------------------
(* The sender: send and disconnect.                                           *)

StartSend ==
  /\ pc["sender"] = "idle"
  /\ ~exitRequested
  /\ left.sends > 0
  /\ IsConnected
  /\ left' = [left EXCEPT !.sends = @ - 1]
  /\ Go("sender", "lock")
  /\ UNCHANGED <<connection, queue, readLock, msg, exitRequested, master, history>>

\* What waits is read without blocking, if nobody else is reading.
TryToRead ==
  /\ pc["sender"] = "lock"
  /\ IF readLock = Free THEN readLock' = "sender" /\ Go("sender", "poll")
     ELSE Go("sender", "recheck") /\ UNCHANGED readLock
  /\ UNCHANGED <<connection, queue, msg, exitRequested, master, left, history>>

Poll ==
  /\ pc["sender"] = "poll"
  /\ CASE session # "up" -> Go("sender", "pollError") /\ UNCHANGED readLock
       [] session = "up" /\ inbox # <<>> -> Go("sender", "receive") /\ UNCHANGED readLock
       [] OTHER -> Go("sender", "recheck") /\ Released("sender")
  /\ UNCHANGED <<connection, queue, msg, exitRequested, master, left, history>>

\* Where a failed call leads to once the driver has noted the error.
AfterError ==
  [pollError |-> "recheck", receiveError |-> "failed", sendError |-> "idle",
   farewellError |-> "clear"]

\* The flag is cleared, whichever session it belongs to by now.
HandleError ==
  /\ pc["sender"] \in DOMAIN AfterError
  /\ linked' = FALSE
  /\ Released("sender")
  /\ Go("sender", AfterError[pc["sender"]])
  /\ UNCHANGED <<session, connected, inbox, joined, queue, msg, exitRequested, master, left,
                 history>>

\* An error of the network, unlike a session that is gone, shuts the connection
\* down if there is one: it can only be a new one.
AfterReceiveError ==
  /\ pc["sender"] = "failed"
  /\ Go("sender", "recheck") \/ (linked /\ Go("sender", "shutdown"))
  /\ UNCHANGED <<connection, queue, readLock, msg, exitRequested, master, left, history>>

Recheck ==
  /\ pc["sender"] = "recheck"
  /\ Go("sender", IF IsConnected THEN "multicast" ELSE "idle")
  /\ UNCHANGED <<connection, queue, readLock, msg, exitRequested, master, left, history>>

\* The master, if it knows the client, relays the message to it as well.
Multicast ==
  /\ pc["sender"] = "multicast"
  /\ Go("sender", IF session = "up" THEN "idle" ELSE "sendError")
  /\ \/ UNCHANGED inbox
     \/ /\ session = "up" /\ master.up /\ Groups \cap joined # {}
        /\ inbox' = Append(inbox, Own)
  /\ UNCHANGED <<session, linked, connected, joined, queue, readLock, msg, exitRequested,
                 master, left, history>>

\* done of the application.
RequestExit ==
  /\ Disconnects
  /\ pc["sender"] = "idle"
  /\ ~exitRequested
  /\ exitRequested' = TRUE
  /\ Go("sender", "leave")
  /\ UNCHANGED <<connection, queue, readLock, msg, master, left, history>>

StartDisconnect ==
  /\ pc["sender"] = "leave"
  /\ Go("sender", IF IsConnected THEN "farewell" ELSE "done")
  /\ UNCHANGED <<connection, queue, readLock, msg, exitRequested, master, left, history>>

SendFarewell ==
  /\ pc["sender"] = "farewell"
  /\ Go("sender", IF session = "up" THEN "clear" ELSE "farewellError")
  /\ UNCHANGED <<connection, queue, readLock, msg, exitRequested, master, left, history>>

ClearQueue ==
  /\ pc["sender"] = "clear"
  /\ queue' = <<>>
  /\ cleared' = cleared \cup {queue[i] : i \in DOMAIN queue}
  /\ Go("sender", "shutdown")
  /\ UNCHANGED <<connection, readLock, msg, exitRequested, master, left, arrived, handed>>

-----------------------------------------------------------------------------
(* The daemon and the master.                                                 *)

Rest == <<linked, connected, queue, readLock, pc, msg, exitRequested, history>>

\* The answer goes to the private group of the client, which has the name of the
\* client: it reaches a later session as well.
Answers(m) ==
  /\ master.up /\ master.asked > 0
  /\ master' = [master EXCEPT !.asked = @ - 1]
  /\ inbox' = IF session = "up" THEN Append(inbox, m) ELSE inbox
  /\ UNCHANGED <<session, joined, Rest>>

MasterAnswers == Answers(Ack) /\ UNCHANGED left

MasterRefuses ==
  /\ left.refusals > 0
  /\ left' = [left EXCEPT !.refusals = @ - 1]
  /\ Answers(Refusal)

\* To whoever is in the group.
MasterSends ==
  /\ left.messages > 0
  /\ master.up
  /\ session = "up" /\ Groups \cap joined # {}
  /\ inbox' = Append(inbox, Data(left.messages))
  /\ left' = [left EXCEPT !.messages = @ - 1]
  /\ UNCHANGED <<session, joined, master, Rest>>

MasterDies ==
  /\ left.deaths > 0
  /\ master.up
  /\ left' = [left EXCEPT !.deaths = @ - 1]
  /\ master' = [up |-> FALSE, asked |-> 0]
  /\ inbox' = IF "MASTER" \in joined THEN Append(inbox, MasterGone) ELSE inbox
  /\ UNCHANGED <<session, joined, Rest>>

MasterReturns ==
  /\ ~master.up
  /\ master' = [master EXCEPT !.up = TRUE]
  /\ UNCHANGED <<session, inbox, joined, left, Rest>>

\* The daemon ends the session, also one that the client has forgotten.
SessionBreaks ==
  /\ left.breaks > 0
  /\ session \in {"up", "leaked"}
  /\ left' = [left EXCEPT !.breaks = @ - 1]
  /\ session' = IF session = "up" THEN "broken" ELSE "none"
  /\ SessionEnds
  /\ UNCHANGED <<master, Rest>>

Both(t) ==
  ReceiveMessage(t) \/ ReceiveError(t) \/ QueueMessage(t) \/ Shutdown(t) \/ CloseSession(t)
    \/ ForgetSession(t)

Reader ==
  \/ Both("reader") \/ CheckQueue \/ LockToRead \/ ReadLocalMessage \/ Decide
  \/ Reconnect \/ Connect \/ ConnectRefused \/ JoinMasterGroup \/ SendRequest
  \/ PollAnswer \/ ReceiveAnswer \/ AnswerError \/ Timeout \/ Welcome \/ Subscribe

\* A call of the sender, once it has begun.
Sender ==
  \/ Both("sender") \/ TryToRead \/ Poll \/ HandleError \/ AfterReceiveError \/ Recheck
  \/ Multicast \/ StartDisconnect \/ SendFarewell \/ ClearQueue

Environment ==
  MasterAnswers \/ MasterRefuses \/ MasterSends \/ MasterDies \/ MasterReturns \/ SessionBreaks

Next == Reader \/ Sender \/ StartSend \/ RequestExit \/ Environment

\* Threads go on with what they have begun, and a master that runs answers.
Fairness == WF_vars(Reader) /\ WF_vars(Sender) /\ WF_vars(MasterAnswers)

Spec == Init /\ [][Next]_vars /\ Fairness

-----------------------------------------------------------------------------
(* Properties.                                                                *)

Ids == 1..MaxMessages
Messages == {Data(id) : id \in Ids} \cup {Own, Ack, Refusal, MasterGone}
InBoth == {"receive", "queue", "shutdown", "close", "forget", "lock"}
ReaderPlaces ==
  InBoth \cup {"check", "take", "decide", "reconnect", "connect", "join", "request", "await",
              "answer", "welcome", "subscribe", "ended"}
SenderPlaces ==
  InBoth \cup DOMAIN AfterError
    \cup {"idle", "poll", "failed", "recheck", "multicast", "leave", "farewell", "clear", "done"}

\* The type of every variable: only messages of other clients get into the queue.
TypeOK ==
  /\ session \in {"up", "broken", "none", "leaked"}
  /\ linked \in BOOLEAN /\ connected \in BOOLEAN /\ exitRequested \in BOOLEAN
  /\ inbox \in Seq(Messages)
  /\ joined \subseteq Groups \cup {"MASTER"}
  /\ queue \in Seq(Ids) /\ handed \in Seq(Ids)
  /\ readLock \in Threads \cup {Free}
  /\ pc \in [Threads -> ReaderPlaces \cup SenderPlaces]
  /\ pc["reader"] \in ReaderPlaces /\ pc["sender"] \in SenderPlaces
  /\ msg \in [Threads -> Messages]
  /\ \A t \in Threads : pc[t] = "queue" => msg[t].id \in Ids
  /\ master \in [up : BOOLEAN, asked : Nat]
  /\ left \in [messages : 0..MaxMessages, sends : Nat, breaks : Nat, deaths : Nat,
               refusals : Nat, timeouts : Nat]
  /\ arrived \subseteq Ids /\ cleared \subseteq Ids

Reading == {"check", "lock", "receive", "queue", "take"}

\* A reader that reads from a connection has joined all groups again, however
\* often the session, the master or the sender's shutdown came between.
Resubscribed ==
  pc["reader"] \in Reading /\ IsConnected /\ session = "up" => Groups \subseteq joined

Places(m) ==
  Cardinality({i \in DOMAIN handed : handed[i] = m})
    + Cardinality({i \in DOMAIN queue : queue[i] = m})
    + Cardinality({t \in Threads : pc[t] = "queue" /\ msg[t].id = m})
    + Cardinality({m} \cap cleared)

\* A message that one of the two threads has received is handed over once, unless
\* disconnect() clears it: it is never lost between them and never read twice.
ReadOnce == \A m \in arrived : Places(m) = 1

\* connect goes on without the lock if the sender has it, who may then receive
\* what the reader waits for.
SenderInterferes ==
  pc["sender"] = "receive" /\ pc["reader"] \in {"join", "request", "await", "answer"}

\* The daemon has a session of the client, the driver holds that there is none: an
\* error of the sender on the old session was noted when the new one was up.
Forgotten == session = "leaked" \/ (session = "up" /\ ~linked)

\* A reader that has lost the connection gets it back while the master runs, unless
\* the sender takes the answer to its request away or the session is forgotten.
Recovers ==
  pc["reader"] = "reconnect" ~>
    \/ pc["reader"] = "check" /\ IsConnected
    \/ pc["reader"] = "ended"
    \/ ~master.up
    \/ SenderInterferes
    \/ Forgotten

\* After done() has left the connection the reader ends, so that the application can
\* join it: not if it waits for the answer that has been taken away, or reads from a
\* session that is forgotten, because done() leaves a connection alone that the
\* flags call incomplete.
ReaderEnds ==
  pc["sender"] = "done" ~> pc["reader"] \in {"ended", "answer"} \/ Forgotten

\* "Enters the mainloop and waits until exit() is called" (application.h): the
\* application that has been told to exit can join its reader, whatever it does.
ExitEndsReader == exitRequested ~> pc["reader"] = "ended"

\* "If no message is available and blocking == true the call will block until a new
\* message arrives" (systemconnection.h): no message stays in the queue.
QueuedIsRead == queue # <<>> ~> queue = <<>>
=============================================================================
