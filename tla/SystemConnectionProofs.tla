----------------------- MODULE SystemConnectionProofs -----------------------
(***************************************************************************)
(* Theorems about SystemConnection: its types, and that the reader never   *)
(* reads without the groups.  For the latter the invariant has to say the  *)
(* same of the place after a reconnect or an error, where the application  *)
(* decides whether to read on.                                             *)
(*                                                                         *)
(* That no message is read twice needs two facts more: the messages that   *)
(* have arrived are split between the places a message can be in           *)
(* (OnePlace), and what the daemon still holds is new (Fresh).             *)
(***************************************************************************)
EXTENDS SystemConnection, FiniteSetTheorems, TLAPS

Reads == pc["reader"] \in Reading \cup {"decide"}
Bounds == [messages : 0..MaxMessages, sends : Nat, breaks : Nat, deaths : Nat,
           refusals : Nat, timeouts : Nat]
InGroups == Reads /\ IsConnected /\ session = "up" => Groups \subseteq joined
IInv == TypeOK /\ InGroups

LEMMA InitHolds == Init => IInv
<1> SUFFICES ASSUME Init PROVE IInv
  OBVIOUS
<1>1. TypeOK
  <2>1. inbox \in Seq(Messages) /\ queue \in Seq(Ids) /\ handed \in Seq(Ids)
    BY DEF Init
  <2>2. arrived \subseteq Ids /\ cleared \subseteq Ids
    BY DEF Init
  <2>3. left \in Bounds
    BY SystemConnectionAssumption DEF Init, Bounds
  <2>4. pc \in [Threads -> ReaderPlaces \cup SenderPlaces]
    BY DEF Init, Threads, ReaderPlaces, SenderPlaces
  <2>5. msg \in [Threads -> Messages]
    BY DEF Init, Messages
  <2>6. pc["reader"] \in ReaderPlaces /\ pc["sender"] \in SenderPlaces
    BY DEF Init, ReaderPlaces, SenderPlaces
  <2>7. master \in [up : BOOLEAN, asked : Nat] /\ readLock \in Threads \cup {Free}
    BY DEF Init
  <2>8. \A t \in Threads : pc[t] # "queue"
    BY DEF Init, Threads
  <2>9. /\ session = "up" /\ linked = TRUE /\ connected = TRUE /\ exitRequested = FALSE
        /\ joined \subseteq Groups \cup {"MASTER"}
    BY DEF Init
  <2> QED
    BY <2>1, <2>2, <2>3, <2>4, <2>5, <2>6, <2>7, <2>8, <2>9 DEF Bounds, TypeOK
<1>2. InGroups
  BY DEF Init, InGroups
<1> QED
  BY <1>1, <1>2 DEF IInv

\* Messages of other clients are the ones that are wanted.
LEMMA WantedIsData ==
  ASSUME NEW m \in Messages, Wanted(m)
  PROVE  m.id \in Ids
BY DEF Messages, Wanted, Data, Own, Ack, Refusal, MasterGone

\* A thread goes from one of its places to another.
LEMMA GoTyped ==
  ASSUME TypeOK, NEW t \in Threads, NEW place, Go(t, place),
         place \in IF t = "reader" THEN ReaderPlaces ELSE SenderPlaces
  PROVE  /\ pc' \in [Threads -> ReaderPlaces \cup SenderPlaces]
         /\ pc'["reader"] \in ReaderPlaces /\ pc'["sender"] \in SenderPlaces
         /\ pc'[t] = place /\ \A u \in Threads \ {t} : pc'[u] = pc[u]
<1>1. place \in ReaderPlaces \cup SenderPlaces
  OBVIOUS
<1>2. pc' \in [Threads -> ReaderPlaces \cup SenderPlaces]
  BY <1>1 DEF Go, TypeOK
<1>3. pc'[t] = place /\ \A u \in Threads \ {t} : pc'[u] = pc[u]
  BY DEF Go, TypeOK
<1> QED
  BY <1>2, <1>3 DEF Threads, TypeOK

LEMMA LeftTyped == TypeOK => left \in Bounds
BY DEF TypeOK, Bounds

\* A step uses up one of the bounds by one, or none.
Uses(b) == left[b] > 0 /\ left' = [left EXCEPT ![b] = @ - 1]
Named == {"messages", "sends", "breaks", "deaths", "refusals", "timeouts"}

LEMMA OneLess ==
  ASSUME TypeOK, left' = left \/ \E b \in Named : Uses(b)
  PROVE  left' \in Bounds
<1>0. left \in Bounds /\ MaxMessages \in Nat
  BY LeftTyped, SystemConnectionAssumption
<1>1. CASE left' = left
  BY <1>0, <1>1
<1>2. CASE \E b \in Named : Uses(b)
  <2>1. PICK b \in Named : Uses(b)
    BY <1>2
  <2>2. /\ left.messages \in 0..MaxMessages /\ left.sends \in Nat /\ left.breaks \in Nat
        /\ left.deaths \in Nat /\ left.refusals \in Nat /\ left.timeouts \in Nat
    BY <1>0 DEF Bounds
  <2>3. CASE b = "messages"
    <3>1. left.messages - 1 \in 0..MaxMessages
      BY <1>0, <2>1, <2>2, <2>3 DEF Uses
    <3> QED
      BY <1>0, <2>1, <2>3, <3>1 DEF Uses, Bounds
  <2>4. CASE b # "messages"
    <3>1. left[b] - 1 \in Nat
      BY <2>1, <2>2, <2>4 DEF Uses, Named
    <3> QED
      BY <1>0, <2>1, <2>4, <3>1 DEF Uses, Bounds, Named
  <2> QED
    BY <2>3, <2>4
<1> QED
  BY <1>1, <1>2

LEMMA ReleasedTyped ==
  ASSUME TypeOK, NEW t \in Threads, Released(t)
  PROVE  readLock' \in Threads \cup {Free}
BY DEF TypeOK, Released

LEMMA AppendTyped == \A S : \A s \in Seq(S), e \in S : Append(s, e) \in Seq(S)
OBVIOUS

LEMMA EndTyped == SessionEnds => inbox' \in Seq(Messages) /\ joined' \subseteq Groups \cup {"MASTER"}
BY DEF SessionEnds

LEMMA LeakTyped ==
  TypeOK /\ Leak => /\ session' \in {"up", "broken", "none", "leaked"}
                    /\ inbox' \in Seq(Messages) /\ joined' \subseteq Groups \cup {"MASTER"}
BY EndTyped DEF Leak, TypeOK

\* What is read and queued, and how a session ends, by either thread.
LEMMA BothTyped == ASSUME TypeOK, NEW t \in Threads, Both(t) PROVE TypeOK'
<1>0. t \in {"reader", "sender"}
  BY DEF Threads
<1>1. CASE ReceiveMessage(t)
  <2> DEFINE m == Head(inbox)
             place == IF Wanted(m) THEN "queue" ELSE IF m = MasterGone THEN "shutdown" ELSE "lock"
  <2>1. m \in Messages /\ inbox' \in Seq(Messages)
    BY <1>1 DEF ReceiveMessage, TypeOK
  <2>2. Go(t, place)
    BY <1>1 DEF ReceiveMessage, Handles
  <2>3. place \in ReaderPlaces /\ place \in SenderPlaces
    BY DEF ReaderPlaces, SenderPlaces, InBoth
  <2>4. /\ pc' \in [Threads -> ReaderPlaces \cup SenderPlaces]
        /\ pc'["reader"] \in ReaderPlaces /\ pc'["sender"] \in SenderPlaces
        /\ pc'[t] = place /\ \A u \in Threads \ {t} : pc'[u] = pc[u]
    <3> HIDE DEF place
    <3> QED
      BY <2>2, <2>3, GoTyped
  <2>5. msg' \in [Threads -> Messages] /\ msg'[t] = m /\ \A u \in Threads \ {t} : msg'[u] = msg[u]
    BY <1>1, <2>1 DEF ReceiveMessage, Handles, TypeOK
  <2>6. \A u \in Threads : pc'[u] = "queue" => msg'[u].id \in Ids
    BY <2>1, <2>4, <2>5, WantedIsData DEF TypeOK
  <2>7. arrived' \subseteq Ids
    BY <1>1, <2>1, WantedIsData DEF ReceiveMessage, Handles, TypeOK
  <2>8. readLock' \in Threads \cup {Free}
    BY <1>1, ReleasedTyped DEF ReceiveMessage
  <2>9. /\ UNCHANGED <<session, linked, connected, joined, queue, exitRequested, master, left>>
        /\ UNCHANGED <<handed, cleared>>
    BY <1>1 DEF ReceiveMessage
  <2> HIDE DEF m, place
  <2> QED
    BY <2>1, <2>4, <2>5, <2>6, <2>7, <2>8, <2>9 DEF TypeOK
<1>2. CASE ReceiveError(t)
  <2> DEFINE place == IF t = "reader" THEN "decide" ELSE "receiveError"
  <2>1. Go(t, place) /\ place \in IF t = "reader" THEN ReaderPlaces ELSE SenderPlaces
    BY <1>2 DEF ReceiveError, ReaderPlaces, SenderPlaces, AfterError
  <2>2. place # "queue"
    OBVIOUS
  <2>3. readLock' \in Threads \cup {Free} /\ linked' \in BOOLEAN
    BY <1>2, ReleasedTyped DEF ReceiveError, TypeOK
  <2>4. UNCHANGED <<session, connected, inbox, joined, queue, msg, exitRequested, master, left, history>>
    BY <1>2 DEF ReceiveError
  <2> HIDE DEF place
  <2> QED
    BY <2>1, <2>2, <2>3, <2>4, GoTyped DEF TypeOK, history
<1>3. CASE QueueMessage(t)
  <2> DEFINE place == IF t = "reader" THEN "take" ELSE "lock"
  <2>1. Go(t, place) /\ place \in IF t = "reader" THEN ReaderPlaces ELSE SenderPlaces
    BY <1>3 DEF QueueMessage, ReaderPlaces, SenderPlaces, InBoth
  <2>2. queue' \in Seq(Ids)
    BY <1>3 DEF QueueMessage, TypeOK
  <2>3. place # "queue"
    OBVIOUS
  <2>4. UNCHANGED <<connection, readLock, msg, exitRequested, master, left, history>>
    BY <1>3 DEF QueueMessage
  <2> HIDE DEF place
  <2> QED
    BY <2>1, <2>2, <2>3, <2>4, GoTyped DEF TypeOK, connection, history
<1>4. CASE Shutdown(t)
  <2>1. Go(t, "close") /\ "close" \in IF t = "reader" THEN ReaderPlaces ELSE SenderPlaces
    BY <1>4 DEF Shutdown, ReaderPlaces, SenderPlaces, InBoth
  <2> QED
    BY <1>4, <2>1, GoTyped DEF Shutdown, TypeOK, history
<1>5. CASE CloseSession(t)
  <2> DEFINE place == IF linked THEN "forget" ELSE Failed(t)
  <2>1. Go(t, place) /\ place \in IF t = "reader" THEN ReaderPlaces ELSE SenderPlaces
    BY <1>5 DEF CloseSession, Failed, ReaderPlaces, SenderPlaces, InBoth
  <2>2. place # "queue"
    BY DEF Failed
  <2>3. readLock' \in Threads \cup {Free}
    BY <1>5, ReleasedTyped DEF CloseSession, TypeOK
  <2>4. session' \in {"up", "broken", "none", "leaked"}
        /\ inbox' \in Seq(Messages) /\ joined' \subseteq Groups \cup {"MASTER"}
    BY <1>5, EndTyped DEF CloseSession, TypeOK
  <2>5. UNCHANGED <<linked, connected, queue, msg, exitRequested, master, left, history>>
    BY <1>5 DEF CloseSession
  <2> HIDE DEF place
  <2> QED
    BY <2>1, <2>2, <2>3, <2>4, <2>5, GoTyped DEF TypeOK, history
<1>6. CASE ForgetSession(t)
  <2>1. Go(t, Failed(t)) /\ Failed(t) \in IF t = "reader" THEN ReaderPlaces ELSE SenderPlaces
    BY <1>6 DEF ForgetSession, Failed, ReaderPlaces, SenderPlaces
  <2>2. Failed(t) # "queue"
    BY DEF Failed
  <2>3. readLock' \in Threads \cup {Free}
    BY <1>6, ReleasedTyped DEF ForgetSession
  <2>4. session' \in {"up", "broken", "none", "leaked"}
        /\ inbox' \in Seq(Messages) /\ joined' \subseteq Groups \cup {"MASTER"}
    BY <1>6, LeakTyped DEF ForgetSession
  <2>5. linked' = FALSE /\ UNCHANGED <<connected, queue, msg, exitRequested, master, left, history>>
    BY <1>6 DEF ForgetSession
  <2> QED
    BY <2>1, <2>2, <2>3, <2>4, <2>5, GoTyped DEF TypeOK, history
<1> QED
  BY <1>1, <1>2, <1>3, <1>4, <1>5, <1>6 DEF Both

\* The reader's own steps: receive and reconnect.
LEMMA ReaderTyped == TypeOK /\ Reader => TypeOK'
<1> SUFFICES ASSUME TypeOK, Reader, ~Both("reader") PROVE TypeOK'
  BY BothTyped DEF Threads
<1> DEFINE ToPlace(place) ==
      /\ pc' \in [Threads -> ReaderPlaces \cup SenderPlaces]
      /\ pc'["reader"] \in ReaderPlaces /\ pc'["sender"] \in SenderPlaces
      /\ \A u \in Threads : pc'[u] = "queue" => pc[u] = "queue"
<1>0. \A place \in ReaderPlaces \ {"queue"} : Go("reader", place) => ToPlace(place)
  BY GoTyped DEF Threads
<1>a. {"check", "take", "lock", "receive", "shutdown", "decide", "reconnect", "connect", "join",
       "request", "await", "answer", "welcome", "subscribe", "ended"} \subseteq ReaderPlaces \ {"queue"}
  BY DEF ReaderPlaces, InBoth
<1> HIDE DEF ToPlace
<1>1. CASE CheckQueue
  <2>1. ToPlace("lock") \/ ToPlace("take")
    BY <1>0, <1>a, <1>1 DEF CheckQueue
  <2> QED
    BY <1>1, <2>1 DEF ToPlace, CheckQueue, TypeOK, connection, history
<1>2. CASE LockToRead
  <2>1. ToPlace("receive")
    BY <1>0, <1>a, <1>2 DEF LockToRead
  <2> QED
    BY <1>2, <2>1 DEF ToPlace, LockToRead, TypeOK, connection, history, Threads
<1>3. CASE ReadLocalMessage
  <2>1. ToPlace("check")
    BY <1>0, <1>a, <1>3 DEF ReadLocalMessage
  <2>2. queue' \in Seq(Ids) /\ handed' \in Seq(Ids)
    <3>1. CASE queue = <<>>
      BY <1>3, <3>1 DEF ReadLocalMessage, TypeOK
    <3>2. CASE queue # <<>>
      <4>1. queue' = Tail(queue) /\ handed' = Append(handed, Head(queue))
        BY <1>3, <3>2 DEF ReadLocalMessage, Popped
      <4> QED
        BY <3>2, <4>1 DEF TypeOK
    <3> QED
      BY <3>1, <3>2
  <2>3. UNCHANGED <<connection, readLock, msg, exitRequested, master, left, arrived, cleared>>
    BY <1>3 DEF ReadLocalMessage
  <2> QED
    BY <2>1, <2>2, <2>3 DEF ToPlace, TypeOK, connection
<1>4. CASE Decide
  <2>1. ToPlace("ended") \/ ToPlace("check") \/ ToPlace("reconnect")
    BY <1>0, <1>a, <1>4 DEF Decide, Decision
  <2> QED
    BY <1>4, <2>1 DEF ToPlace, Decide, TypeOK, connection, history
<1>5. CASE Reconnect
  <2>1. ToPlace("connect")
    BY <1>0, <1>a, <1>5 DEF Reconnect
  <2> QED
    BY <1>5, <2>1 DEF ToPlace, Reconnect, TryLock, TypeOK, connection, history, Threads
<1>6. CASE Connect
  <2>1. ToPlace("join")
    BY <1>0, <1>a, <1>6 DEF Connect
  <2>2. inbox' \in Seq(Messages) /\ joined' \subseteq Groups \cup {"MASTER"}
    BY <1>6, EndTyped DEF Connect
  <2>3. /\ session' = "up" /\ linked' = TRUE
        /\ UNCHANGED <<connected, queue, readLock, msg, exitRequested, master, left, history>>
    BY <1>6 DEF Connect
  <2> QED
    BY <2>1, <2>2, <2>3 DEF ToPlace, TypeOK, history
<1>15. CASE ConnectRefused
  <2>1. ToPlace("decide")
    BY <1>0, <1>a, <1>15 DEF ConnectRefused
  <2>2. /\ session' \in {"up", "broken", "none", "leaked"}
        /\ inbox' \in Seq(Messages) /\ joined' \subseteq Groups \cup {"MASTER"}
    BY <1>15, LeakTyped DEF ConnectRefused
  <2>3. readLock' \in Threads \cup {Free}
    BY <1>15, ReleasedTyped DEF ConnectRefused, Threads
  <2>4. /\ linked' = FALSE
        /\ UNCHANGED <<connected, queue, msg, exitRequested, master, left, history>>
    BY <1>15 DEF ConnectRefused
  <2> QED
    BY <2>1, <2>2, <2>3, <2>4 DEF ToPlace, TypeOK, history
<1>7. CASE JoinMasterGroup
  <2>1. ToPlace("request") \/ ToPlace("shutdown")
    BY <1>0, <1>a, <1>7 DEF JoinMasterGroup
  <2>2. linked' \in BOOLEAN /\ joined' \subseteq Groups \cup {"MASTER"}
    BY <1>7 DEF JoinMasterGroup, TypeOK
  <2>3. UNCHANGED <<session, connected, inbox, queue, readLock, msg, exitRequested, master, left,
                    history>>
    BY <1>7 DEF JoinMasterGroup
  <2> QED
    BY <2>1, <2>2, <2>3 DEF ToPlace, TypeOK, history
<1>8. CASE SendRequest
  <2>1. ToPlace("await") \/ ToPlace("shutdown")
    BY <1>0, <1>a, <1>8 DEF SendRequest
  <2>2. linked' \in BOOLEAN /\ master' \in [up : BOOLEAN, asked : Nat]
    <3>1. master' = master \/ master' = [master EXCEPT !.asked = @ + 1]
            \/ master' = [master EXCEPT !.asked = 0]
      BY <1>8 DEF SendRequest, TypeOK
    <3>2. linked' \in BOOLEAN
      BY <1>8 DEF SendRequest, TypeOK
    <3> QED
      BY <3>1, <3>2 DEF TypeOK
  <2>3. UNCHANGED <<session, connected, inbox, joined, queue, readLock, msg, exitRequested, left,
                    history>>
    BY <1>8 DEF SendRequest
  <2> QED
    BY <2>1, <2>2, <2>3 DEF ToPlace, TypeOK, history
<1>9. CASE PollAnswer
  <2>1. ToPlace("answer")
    BY <1>0, <1>a, <1>9 DEF PollAnswer
  <2> QED
    BY <1>9, <2>1 DEF ToPlace, PollAnswer, TypeOK, connection, history
<1>10. CASE ReceiveAnswer
  <2>1. ToPlace("welcome") \/ ToPlace("shutdown") \/ ToPlace("await")
    BY <1>0, <1>a, <1>10 DEF ReceiveAnswer
  <2>2. inbox' \in Seq(Messages)
    BY <1>10 DEF ReceiveAnswer, TypeOK
  <2> QED
    BY <1>10, <2>1, <2>2 DEF ToPlace, ReceiveAnswer, TypeOK, history
<1>11. CASE AnswerError
  <2>1. ToPlace("await")
    BY <1>0, <1>a, <1>11 DEF AnswerError
  <2> QED
    BY <1>11, <2>1 DEF ToPlace, AnswerError, TypeOK, history
<1>12. CASE Timeout
  <2>1. ToPlace("shutdown")
    BY <1>0, <1>a, <1>12 DEF Timeout
  <2>2. left' \in Bounds
    <3>1. left' = left \/ Uses("timeouts")
      BY <1>12 DEF Timeout, Uses
    <3> QED
      BY <3>1, OneLess DEF Named
  <2>3. UNCHANGED <<connection, queue, readLock, msg, exitRequested, master, history>>
    BY <1>12 DEF Timeout
  <2> QED
    BY <2>1, <2>2, <2>3 DEF ToPlace, TypeOK, Bounds, connection, history
<1>13. CASE Welcome
  <2>1. ToPlace("subscribe")
    BY <1>0, <1>a, <1>13 DEF Welcome
  <2>2. readLock' \in Threads \cup {Free}
    BY <1>13, ReleasedTyped DEF Welcome, Threads
  <2> QED
    BY <1>13, <2>1, <2>2 DEF ToPlace, Welcome, TypeOK, history
<1>14. CASE Subscribe
  <2>1. ToPlace("decide") \/ UNCHANGED pc
    BY <1>0, <1>a, <1>14 DEF Subscribe
  <2>2. linked' \in BOOLEAN /\ joined' \subseteq Groups \cup {"MASTER"}
    BY <1>14 DEF Subscribe, Remaining, TypeOK
  <2>3. UNCHANGED <<session, connected, inbox, queue, readLock, msg, exitRequested, master, left,
                    history>>
    BY <1>14 DEF Subscribe
  <2> QED
    BY <2>1, <2>2, <2>3 DEF ToPlace, TypeOK, history
<1> QED
  BY <1>1, <1>2, <1>3, <1>4, <1>5, <1>6, <1>7, <1>8, <1>9, <1>10, <1>11, <1>12, <1>13, <1>14,
     <1>15
  DEF Reader

\* The sender's own steps: send and disconnect.
LEMMA SenderTyped == TypeOK /\ (Sender \/ StartSend \/ RequestExit) => TypeOK'
<1> SUFFICES ASSUME TypeOK, Sender \/ StartSend \/ RequestExit, ~Both("sender") PROVE TypeOK'
  BY BothTyped DEF Threads
<1> DEFINE ToPlace(place) ==
      /\ pc' \in [Threads -> ReaderPlaces \cup SenderPlaces]
      /\ pc'["reader"] \in ReaderPlaces /\ pc'["sender"] \in SenderPlaces
      /\ \A u \in Threads : pc'[u] = "queue" => pc[u] = "queue"
<1>0. \A place \in SenderPlaces \ {"queue"} : Go("sender", place) => ToPlace(place)
  BY GoTyped DEF Threads
<1>a. {"idle", "lock", "poll", "receive", "recheck", "failed", "multicast", "leave", "farewell",
       "clear", "shutdown", "done", "pollError", "receiveError", "sendError", "farewellError"}
        \subseteq SenderPlaces \ {"queue"}
  BY DEF SenderPlaces, InBoth, AfterError
<1> HIDE DEF ToPlace
<1>1. CASE StartSend
  <2>1. ToPlace("lock")
    BY <1>0, <1>a, <1>1 DEF StartSend
  <2>2. left' \in Bounds
    <3>1. Uses("sends")
      BY <1>1 DEF StartSend, Uses
    <3> QED
      BY <3>1, OneLess DEF Named
  <2> QED
    BY <1>1, <2>1, <2>2 DEF ToPlace, StartSend, TypeOK, Bounds, connection, history
<1>2. CASE TryToRead
  <2>1. ToPlace("poll") \/ ToPlace("recheck")
    BY <1>0, <1>a, <1>2 DEF TryToRead
  <2>2. readLock' \in Threads \cup {Free}
    BY <1>2 DEF TryToRead, TypeOK, Threads
  <2> QED
    BY <1>2, <2>1, <2>2 DEF ToPlace, TryToRead, TypeOK, connection, history
<1>3. CASE Poll
  <2>1. ToPlace("receive") \/ ToPlace("recheck") \/ ToPlace("pollError")
    BY <1>0, <1>a, <1>3 DEF Poll
  <2>2. readLock' \in Threads \cup {Free}
    BY <1>3, ReleasedTyped DEF Poll, TypeOK, Threads
  <2>3. UNCHANGED <<connection, queue, msg, exitRequested, master, left, history>>
    BY <1>3 DEF Poll
  <2> QED
    BY <2>1, <2>2, <2>3 DEF ToPlace, TypeOK, connection, history
<1>9. CASE HandleError
  <2>1. ToPlace("recheck") \/ ToPlace("failed") \/ ToPlace("idle") \/ ToPlace("clear")
    BY <1>0, <1>a, <1>9 DEF HandleError, AfterError
  <2>2. readLock' \in Threads \cup {Free} /\ linked' = FALSE
    BY <1>9, ReleasedTyped DEF HandleError, Threads
  <2>3. UNCHANGED <<session, connected, inbox, joined, queue, msg, exitRequested, master, left, history>>
    BY <1>9 DEF HandleError
  <2> QED
    BY <2>1, <2>2, <2>3 DEF ToPlace, TypeOK, history
<1>10. CASE AfterReceiveError
  <2>1. ToPlace("recheck") \/ ToPlace("shutdown")
    BY <1>0, <1>a, <1>10 DEF AfterReceiveError
  <2> QED
    BY <1>10, <2>1 DEF ToPlace, AfterReceiveError, TypeOK, connection, history
<1>4. CASE Recheck
  <2>1. ToPlace("multicast") \/ ToPlace("idle")
    BY <1>0, <1>a, <1>4 DEF Recheck
  <2> QED
    BY <1>4, <2>1 DEF ToPlace, Recheck, TypeOK, connection, history
<1>5. CASE Multicast
  <2>1. ToPlace("idle") \/ ToPlace("sendError")
    BY <1>0, <1>a, <1>5 DEF Multicast
  <2>2. inbox' \in Seq(Messages)
    <3>1. Own \in Messages
      BY DEF Messages
    <3>2. inbox' = inbox \/ inbox' = Append(inbox, Own)
      BY <1>5 DEF Multicast
    <3>3. inbox \in Seq(Messages)
      BY DEF TypeOK
    <3> QED
      BY <3>1, <3>2, <3>3, AppendTyped
  <2> QED
    BY <1>5, <2>1, <2>2 DEF ToPlace, Multicast, TypeOK, history
<1>6. CASE RequestExit
  <2>1. ToPlace("leave")
    BY <1>0, <1>a, <1>6 DEF RequestExit
  <2> QED
    BY <1>6, <2>1 DEF ToPlace, RequestExit, TypeOK, connection, history
<1>11. CASE StartDisconnect
  <2>1. ToPlace("farewell") \/ ToPlace("done")
    BY <1>0, <1>a, <1>11 DEF StartDisconnect
  <2> QED
    BY <1>11, <2>1 DEF ToPlace, StartDisconnect, TypeOK, connection, history
<1>7. CASE SendFarewell
  <2>1. ToPlace("clear") \/ ToPlace("farewellError")
    BY <1>0, <1>a, <1>7 DEF SendFarewell
  <2> QED
    BY <1>7, <2>1 DEF ToPlace, SendFarewell, TypeOK, connection, history
<1>8. CASE ClearQueue
  <2>1. ToPlace("shutdown")
    BY <1>0, <1>a, <1>8 DEF ClearQueue
  <2>2. queue' \in Seq(Ids) /\ cleared' \subseteq Ids
    BY <1>8 DEF ClearQueue, TypeOK
  <2>3. UNCHANGED <<connection, readLock, msg, exitRequested, master, left, arrived, handed>>
    BY <1>8 DEF ClearQueue
  <2> QED
    BY <2>1, <2>2, <2>3 DEF ToPlace, TypeOK, connection
<1> QED
  BY <1>1, <1>2, <1>3, <1>4, <1>5, <1>6, <1>7, <1>8, <1>9, <1>10, <1>11 DEF Sender

\* The master and the daemon.
LEMMA EnvironmentTyped == TypeOK /\ Environment => TypeOK'
<1> SUFFICES ASSUME TypeOK, Environment PROVE TypeOK'
  OBVIOUS
<1>0. {Ack, Refusal, MasterGone} \subseteq Messages /\ \A id \in Ids : Data(id) \in Messages
  BY DEF Messages
<1>1. UNCHANGED <<linked, connected, queue, readLock, pc, msg, exitRequested, handed, arrived, cleared>>
  BY DEF Environment, MasterAnswers, MasterRefuses, Answers, MasterSends, MasterDies, MasterReturns,
         SessionBreaks, Rest, history
<1>2. CASE SessionBreaks
  <2>1. session' \in {"broken", "none"} /\ master' = master
    BY <1>2 DEF SessionBreaks
  <2>2. left' \in Bounds
    <3>1. Uses("breaks")
      BY <1>2 DEF SessionBreaks, Uses
    <3> QED
      BY <3>1, OneLess DEF Named
  <2>3. inbox' \in Seq(Messages) /\ joined' \subseteq Groups \cup {"MASTER"}
    BY <1>2, EndTyped DEF SessionBreaks
  <2> QED
    BY <1>1, <2>1, <2>2, <2>3 DEF TypeOK, Bounds
<1>3. CASE ~SessionBreaks
  <2>1. session' = session /\ joined' = joined
    BY <1>3 DEF Environment, MasterAnswers, MasterRefuses, Answers, MasterSends, MasterDies, MasterReturns
  <2>2. inbox' \in Seq(Messages)
    <3>1. CASE MasterSends
      <4>1. left.messages \in Ids
        BY <3>1 DEF MasterSends, TypeOK, Ids
      <4> QED
        BY <1>0, <3>1, <4>1 DEF MasterSends, TypeOK
    <3>2. CASE MasterAnswers \/ MasterRefuses
      <4>1. inbox' = inbox \/ inbox' = Append(inbox, Ack) \/ inbox' = Append(inbox, Refusal)
        BY <3>2 DEF MasterAnswers, MasterRefuses, Answers
      <4>2. inbox \in Seq(Messages)
        BY DEF TypeOK
      <4> QED
        BY <1>0, <4>1, <4>2, AppendTyped
    <3>3. CASE MasterDies
      BY <1>0, <3>3 DEF MasterDies, TypeOK
    <3>4. CASE MasterReturns
      BY <3>4 DEF MasterReturns, TypeOK
    <3> QED
      BY <1>3, <3>1, <3>2, <3>3, <3>4 DEF Environment
  <2>3. master' \in [up : BOOLEAN, asked : Nat]
    <3>1. CASE MasterAnswers \/ MasterRefuses
      <4>1. master.asked - 1 \in Nat
        BY <3>1 DEF MasterAnswers, MasterRefuses, Answers, TypeOK
      <4> QED
        BY <3>1, <4>1 DEF MasterAnswers, MasterRefuses, Answers, TypeOK
    <3>2. CASE MasterDies
      BY <3>2 DEF MasterDies, TypeOK
    <3>3. CASE MasterReturns
      BY <3>3 DEF MasterReturns, TypeOK
    <3>4. CASE MasterSends
      BY <3>4 DEF MasterSends, TypeOK
    <3> QED
      BY <1>3, <3>1, <3>2, <3>3, <3>4 DEF Environment
  <2>4. left' \in Bounds
    <3>1. \/ left' = left
          \/ Uses("messages")
          \/ Uses("refusals")
          \/ Uses("deaths")
      BY <1>3 DEF Environment, MasterAnswers, MasterRefuses, MasterSends, MasterDies, MasterReturns, Uses
    <3> QED
      BY <3>1, OneLess DEF Named
  <2> QED
    BY <1>1, <2>1, <2>2, <2>3, <2>4 DEF TypeOK, Bounds
<1> QED
  BY <1>2, <1>3

LEMMA TypeInductive == TypeOK /\ [Next]_vars => TypeOK'
<1>1. TypeOK /\ UNCHANGED vars => TypeOK'
  BY DEF TypeOK, vars
<1> QED
  BY <1>1, ReaderTyped, SenderTyped, EnvironmentTyped DEF Next

-----------------------------------------------------------------------------
(* The groups.                                                                *)

\* Only the reader comes to the places where it reads, from one of them or from
\* "subscribe"; every other way to decide has cut the connection.
LEMMA GroupsInductive == IInv /\ [Next]_vars => InGroups'
<1> SUFFICES ASSUME IInv, [Next]_vars, Reads', IsConnected', session' = "up"
             PROVE  Groups \subseteq joined'
  BY DEF InGroups
<1>0. TypeOK /\ InGroups
  BY DEF IInv
<1>1. ASSUME Reads, IsConnected, session = "up", joined' = joined PROVE Groups \subseteq joined'
  BY <1>0, <1>1 DEF InGroups
<1>2. CASE Both("reader")
  <2>1. CASE ReceiveMessage("reader")
    BY <1>1, <2>1 DEF ReceiveMessage, Reads, Reading, IsConnected
  <2>2. CASE ReceiveError("reader")
    BY <2>2 DEF ReceiveError, IsConnected
  <2>3. CASE QueueMessage("reader")
    BY <1>1, <2>3 DEF QueueMessage, Reads, Reading, IsConnected, connection
  <2>4. CASE Shutdown("reader")
    BY <2>4 DEF Shutdown, IsConnected
  <2>5. CASE CloseSession("reader") \/ ForgetSession("reader")
    <3>1. CASE CloseSession("reader") /\ linked
      BY <1>0, <3>1 DEF CloseSession, Go, Reads, Reading, TypeOK, Threads
    <3>2. CASE ForgetSession("reader") \/ (CloseSession("reader") /\ ~linked)
      BY <3>2 DEF ForgetSession, CloseSession, IsConnected
    <3> QED
      BY <2>5, <3>1, <3>2
  <2> QED
    BY <1>2, <2>1, <2>2, <2>3, <2>4, <2>5 DEF Both
<1>3. CASE CheckQueue \/ LockToRead \/ ReadLocalMessage \/ Decide
  BY <1>1, <1>3 DEF CheckQueue, LockToRead, ReadLocalMessage, Decide, Reads, Reading, IsConnected,
                    connection
<1>9. CASE ConnectRefused
  BY <1>9 DEF ConnectRefused, IsConnected
<1>4. CASE Reconnect \/ Connect \/ JoinMasterGroup \/ SendRequest \/ PollAnswer \/ ReceiveAnswer
             \/ AnswerError \/ Timeout \/ Welcome
  BY <1>0, <1>4 DEF Reconnect, Connect, JoinMasterGroup, SendRequest, PollAnswer, ReceiveAnswer,
                    AnswerError, Timeout, Welcome, Go, Reads, Reading, TypeOK, Threads
<1>5. CASE Subscribe
  BY <1>0, <1>5 DEF Subscribe, Remaining, Go, Reads, Reading, IsConnected, TypeOK, Threads
<1>6. CASE Sender \/ StartSend \/ RequestExit
  <2>1. Reads
    BY <1>0, <1>6 DEF Sender, Both, ReceiveMessage, Handles, ReceiveError, QueueMessage, Shutdown,
                      CloseSession, ForgetSession, TryToRead, Poll, HandleError, AfterReceiveError,
                      Recheck, Multicast, StartDisconnect, SendFarewell, ClearQueue, StartSend,
                      RequestExit, Go, Reads, TypeOK, Threads
  <2>2. IsConnected /\ session = "up" /\ joined' = joined
    <3>1. CASE Both("sender")
      BY <1>0, <3>1 DEF Both, ReceiveMessage, ReceiveError, QueueMessage, Shutdown, CloseSession,
                        ForgetSession, IsConnected, connection
    <3>2. CASE TryToRead \/ Poll \/ HandleError \/ AfterReceiveError \/ Recheck \/ Multicast
      BY <3>2 DEF TryToRead, Poll, HandleError, AfterReceiveError, Recheck, Multicast, IsConnected,
                  connection
    <3>3. CASE StartDisconnect \/ SendFarewell \/ ClearQueue \/ StartSend \/ RequestExit
      BY <3>3 DEF StartDisconnect, SendFarewell, ClearQueue, StartSend, RequestExit, IsConnected,
                  connection
    <3> QED
      BY <1>6, <3>1, <3>2, <3>3 DEF Sender
  <2> QED
    BY <1>1, <2>1, <2>2
<1>7. CASE Environment
  BY <1>1, <1>7 DEF Environment, MasterAnswers, MasterRefuses, Answers, MasterSends, MasterDies, MasterReturns,
                    SessionBreaks, Rest, Reads, IsConnected
<1>8. CASE UNCHANGED vars
  BY <1>1, <1>8 DEF vars, Reads, IsConnected
<1> QED
  BY <1>2, <1>3, <1>4, <1>5, <1>6, <1>7, <1>8, <1>9 DEF Next, Reader

LEMMA Inductive == IInv /\ [Next]_vars => IInv'
BY TypeInductive, GroupsInductive DEF IInv

\* SystemConnection keeps the types of its state, and puts only messages of other
\* clients into _messageQueue.
THEOREM TypeCorrect == Spec => []TypeOK
<1>1. IInv => TypeOK
  BY DEF IInv
<1> QED
  BY <1>1, InitHolds, Inductive, PTL DEF Spec

\* reconnect() has joined all groups of _subscriptions again before the reader reads
\* from the new session, for any groups and any number of losses.
THEOREM GroupsAreJoinedAgain == Spec => []Resubscribed
<1>1. IInv => Resubscribed
  BY DEF IInv, InGroups, Reads, Resubscribed
<1> QED
  BY <1>1, InitHolds, Inductive, PTL DEF Spec

-----------------------------------------------------------------------------
(* No message is read twice or lost between the threads.                      *)

Elems(s) == {s[i] : i \in DOMAIN s}
NoRepeat(s) == \A i, j \in DOMAIN s : s[i] = s[j] => i = j
DistinctData(s) == \A i, j \in DOMAIN s : s[i].kind = "data" /\ s[i] = s[j] => i = j

\* The threads that have a message in their hands, and these messages.
Hands == {t \in Threads : pc[t] = "queue"}
HandIds == {msg[t].id : t \in Hands}

Fresh ==
  /\ DistinctData(inbox)
  /\ \A e \in Elems(inbox) : e.kind = "data" => e.id \notin arrived /\ e.id > left.messages
  /\ \A m \in arrived : m > left.messages

Single ==
  /\ NoRepeat(handed) /\ NoRepeat(queue)
  /\ \A t, u \in Hands : msg[t].id = msg[u].id => t = u

Disjoint ==
  /\ Elems(handed) \cap Elems(queue) = {}
  /\ Elems(handed) \cap HandIds = {}
  /\ Elems(handed) \cap cleared = {}
  /\ Elems(queue) \cap HandIds = {}
  /\ Elems(queue) \cap cleared = {}
  /\ HandIds \cap cleared = {}

Complete == arrived = Elems(handed) \cup Elems(queue) \cup HandIds \cup cleared

OnePlace == Single /\ Disjoint /\ Complete
OnceInv == TypeOK /\ Fresh /\ OnePlace

-----------------------------------------------------------------------------
(* Sequences.                                                                 *)

LEMMA AppendElems ==
  ASSUME NEW S, NEW s \in Seq(S), NEW e \in S
  PROVE  /\ Elems(Append(s, e)) = Elems(s) \cup {e}
         /\ NoRepeat(s) /\ e \notin Elems(s) => NoRepeat(Append(s, e))
         /\ DistinctData(s) /\ (e.kind # "data" \/ e \notin Elems(s)) => DistinctData(Append(s, e))
<1> DEFINE r == Append(s, e)
<1>1. DOMAIN r = DOMAIN s \cup {Len(s) + 1} /\ \A i \in DOMAIN s : r[i] = s[i] /\ i # Len(s) + 1
  OBVIOUS
<1>2. r[Len(s) + 1] = e
  OBVIOUS
<1> HIDE DEF r
<1>3. Elems(r) = Elems(s) \cup {e}
  BY <1>1, <1>2 DEF Elems
<1>4. NoRepeat(s) /\ e \notin Elems(s) => NoRepeat(r)
  BY <1>1, <1>2 DEF Elems, NoRepeat
<1>5. DistinctData(s) /\ (e.kind # "data" \/ e \notin Elems(s)) => DistinctData(r)
  BY <1>1, <1>2 DEF Elems, DistinctData
<1> QED
  BY <1>3, <1>4, <1>5 DEF r

LEMMA TailElems ==
  ASSUME NEW S, NEW s \in Seq(S), s # <<>>
  PROVE  /\ Elems(s) = Elems(Tail(s)) \cup {Head(s)}
         /\ NoRepeat(s) => NoRepeat(Tail(s)) /\ Head(s) \notin Elems(Tail(s))
         /\ DistinctData(s) => /\ DistinctData(Tail(s))
                               /\ Head(s).kind = "data" => Head(s) \notin Elems(Tail(s))
<1> DEFINE r == Tail(s)
<1>1. /\ Len(s) \in Nat /\ Len(s) >= 1 /\ DOMAIN s = 1..Len(s) /\ DOMAIN r = 1..(Len(s) - 1)
      /\ \A i \in DOMAIN r : r[i] = s[i + 1]
      /\ Head(s) = s[1]
  OBVIOUS
<1> HIDE DEF r
<1>2. \A i \in DOMAIN r : i + 1 \in DOMAIN s /\ i + 1 # 1
  BY <1>1
<1>3. \A k \in DOMAIN s : k = 1 \/ (k - 1 \in DOMAIN r /\ (k - 1) + 1 = k)
  BY <1>1
<1>4. 1 \in DOMAIN s
  BY <1>1
<1>5. Elems(s) = Elems(r) \cup {Head(s)}
  BY <1>1, <1>2, <1>3, <1>4 DEF Elems
<1>6. \A i, j \in DOMAIN r : i + 1 = j + 1 => i = j
  BY <1>1
<1>7. NoRepeat(s) => NoRepeat(r) /\ Head(s) \notin Elems(r)
  BY <1>1, <1>2, <1>4, <1>6 DEF Elems, NoRepeat
<1>8. DistinctData(s) => DistinctData(r) /\ (Head(s).kind = "data" => Head(s) \notin Elems(r))
  BY <1>1, <1>2, <1>4, <1>6 DEF Elems, DistinctData
<1> QED
  BY <1>5, <1>7, <1>8 DEF r

LEMMA NoElems == Elems(<<>>) = {} /\ NoRepeat(<<>>) /\ DistinctData(<<>>)
BY DEF Elems, NoRepeat, DistinctData

\* A sequence without repetition has an element at one index, or at none.
LEMMA OneIndex ==
  ASSUME NEW s, NEW m, NoRepeat(s)
  PROVE  Cardinality({i \in DOMAIN s : s[i] = m}) = IF m \in Elems(s) THEN 1 ELSE 0
<1>1. CASE m \in Elems(s)
  <2>1. PICK k \in DOMAIN s : s[k] = m
    BY <1>1 DEF Elems
  <2>2. {i \in DOMAIN s : s[i] = m} = {k}
    BY <2>1 DEF NoRepeat
  <2> QED
    BY <1>1, <2>2, FS_Singleton
<1>2. CASE m \notin Elems(s)
  <2>1. {i \in DOMAIN s : s[i] = m} = {}
    BY <1>2 DEF Elems
  <2> QED
    BY <1>2, <2>1, FS_EmptySet
<1> QED
  BY <1>1, <1>2

\* The invariant says what ReadOnce counts.
LEMMA OnceMeansReadOnce == OnceInv => ReadOnce
<1> SUFFICES ASSUME OnceInv, NEW m \in arrived PROVE Places(m) = 1
  BY DEF ReadOnce
<1>1. Cardinality({i \in DOMAIN handed : handed[i] = m}) = IF m \in Elems(handed) THEN 1 ELSE 0
  BY OneIndex DEF OnceInv, OnePlace, Single
<1>2. Cardinality({i \in DOMAIN queue : queue[i] = m}) = IF m \in Elems(queue) THEN 1 ELSE 0
  BY OneIndex DEF OnceInv, OnePlace, Single
<1>3. Cardinality({t \in Threads : pc[t] = "queue" /\ msg[t].id = m}) = IF m \in HandIds THEN 1 ELSE 0
  <2>1. CASE m \in HandIds
    <3>1. PICK t \in Hands : msg[t].id = m
      BY <2>1 DEF HandIds
    <3>2. {u \in Threads : pc[u] = "queue" /\ msg[u].id = m} = {t}
      BY <3>1 DEF OnceInv, OnePlace, Single, Hands
    <3> QED
      BY <2>1, <3>2, FS_Singleton
  <2>2. CASE m \notin HandIds
    <3>1. {u \in Threads : pc[u] = "queue" /\ msg[u].id = m} = {}
      BY <2>2 DEF HandIds, Hands
    <3> QED
      BY <2>2, <3>1, FS_EmptySet
  <2> QED
    BY <2>1, <2>2
<1>4. Cardinality({m} \cap cleared) = IF m \in cleared THEN 1 ELSE 0
  <2>1. CASE m \in cleared
    <3>1. {m} \cap cleared = {m}
      BY <2>1
    <3> QED
      BY <2>1, <3>1, FS_Singleton
  <2>2. CASE m \notin cleared
    <3>1. {m} \cap cleared = {}
      BY <2>2
    <3> QED
      BY <2>2, <3>1, FS_EmptySet
  <2> QED
    BY <2>1, <2>2
<1>5. \/ m \in Elems(handed) /\ m \notin Elems(queue) /\ m \notin HandIds /\ m \notin cleared
      \/ m \notin Elems(handed) /\ m \in Elems(queue) /\ m \notin HandIds /\ m \notin cleared
      \/ m \notin Elems(handed) /\ m \notin Elems(queue) /\ m \in HandIds /\ m \notin cleared
      \/ m \notin Elems(handed) /\ m \notin Elems(queue) /\ m \notin HandIds /\ m \in cleared
  BY DEF OnceInv, OnePlace, Disjoint, Complete
<1> QED
  BY <1>1, <1>2, <1>3, <1>4, <1>5 DEF Places
-----------------------------------------------------------------------------
(* What the daemon holds stays new.                                           *)

\* Nothing arrives, and what the daemon holds gets less, or more that is not data.
LEMMA FreshStays ==
  ASSUME TypeOK, Fresh, arrived' = arrived, left'.messages = left.messages,
         \/ inbox' = inbox
         \/ inbox' = <<>>
         \/ inbox # <<>> /\ inbox' = Tail(inbox)
         \/ \E e \in {Own, Ack, Refusal, MasterGone} : inbox' = Append(inbox, e)
  PROVE  Fresh'
<1>1. inbox \in Seq(Messages)
  BY DEF TypeOK
<1>2. CASE inbox' = inbox
  BY <1>2 DEF Fresh, Elems, DistinctData
<1>3. CASE inbox' = <<>>
  BY <1>3, NoElems DEF Fresh
<1>4. CASE inbox # <<>> /\ inbox' = Tail(inbox)
  BY <1>1, <1>4, TailElems DEF Fresh
<1>5. CASE \E e \in {Own, Ack, Refusal, MasterGone} : inbox' = Append(inbox, e)
  <2>1. PICK e \in {Own, Ack, Refusal, MasterGone} : inbox' = Append(inbox, e)
    BY <1>5
  <2>2. e \in Messages /\ e.kind # "data"
    BY DEF Messages, Own, Ack, Refusal, MasterGone
  <2> QED
    BY <1>1, <2>1, <2>2, AppendElems DEF Fresh
<1> QED
  BY <1>2, <1>3, <1>4, <1>5

\* A message of another client gets a number that none has had.
LEMMA FreshMessage == TypeOK /\ Fresh /\ MasterSends => Fresh'
<1> SUFFICES ASSUME TypeOK, Fresh, MasterSends PROVE Fresh'
  OBVIOUS
<1> DEFINE e == Data(left.messages)
<1>1. inbox \in Seq(Messages) /\ left.messages \in Ids /\ MaxMessages \in Nat
  BY SystemConnectionAssumption DEF TypeOK, MasterSends, Ids
<1>2. inbox' = Append(inbox, e) /\ arrived' = arrived /\ left'.messages = left.messages - 1
  BY DEF MasterSends, TypeOK, Rest, history
<1>3. e \in Messages /\ e.kind = "data" /\ e.id = left.messages
  BY <1>1 DEF Messages, Data
<1>4. e \notin Elems(inbox) /\ left.messages \notin arrived
  BY <1>1, <1>3 DEF Fresh, Ids
<1> HIDE DEF e
<1>5. DistinctData(inbox') /\ Elems(inbox') = Elems(inbox) \cup {e}
  BY <1>1, <1>2, <1>3, <1>4, AppendElems DEF Fresh
<1>6. \A m \in Ids : m > left.messages => m > left.messages - 1
  BY <1>1 DEF Ids
<1>7. left.messages > left.messages - 1
  BY <1>1 DEF Ids
<1>8. arrived \subseteq Ids
  BY DEF TypeOK
<1>9. \A d \in Elems(inbox) : d.kind = "data" => d.id \in Ids
  BY <1>1 DEF Elems, Messages, Data, Own, Ack, Refusal, MasterGone
<1> QED
  BY <1>2, <1>3, <1>4, <1>5, <1>6, <1>7, <1>8, <1>9 DEF Fresh

-----------------------------------------------------------------------------
(* The places of a message.                                                   *)

PlacesStay ==
  /\ UNCHANGED <<queue, handed, arrived, cleared>>
  /\ Hands' = Hands /\ \A t \in Hands : msg'[t] = msg[t]

LEMMA OnePlaceStays == OnePlace /\ PlacesStay => OnePlace'
<1> SUFFICES ASSUME OnePlace, PlacesStay PROVE OnePlace'
  OBVIOUS
<1>1. HandIds' = HandIds
  BY DEF PlacesStay, HandIds
<1> QED
  BY <1>1 DEF PlacesStay, OnePlace, Single, Disjoint, Complete, Elems, NoRepeat

\* A thread that goes from one place to another, none of them "queue".
LEMMA HandsStay ==
  ASSUME TypeOK, NEW t \in Threads, NEW place, Go(t, place), place # "queue", pc[t] # "queue"
  PROVE  Hands' = Hands
BY DEF TypeOK, Go, Hands

\* A message that arrives goes to the hands of the thread that has read it.
LEMMA ReceiveKeeps ==
  ASSUME OnceInv, NEW t \in Threads, ReceiveMessage(t)
  PROVE  Fresh' /\ OnePlace'
<1> DEFINE m == Head(inbox)
<1>0. TypeOK /\ Fresh /\ OnePlace
  BY DEF OnceInv
<1>1. inbox \in Seq(Messages) /\ inbox # <<>> /\ inbox' = Tail(inbox) /\ m \in Messages
  BY <1>0 DEF ReceiveMessage, TypeOK
<1>2. /\ UNCHANGED <<queue, handed, cleared, left>> /\ pc[t] = "receive"
      /\ msg'[t] = m /\ \A u \in Threads \ {t} : msg'[u] = msg[u]
  BY <1>0 DEF ReceiveMessage, Handles, TypeOK
<1>3. CASE ~Wanted(m)
  <2>1. arrived' = arrived
    BY <1>3 DEF ReceiveMessage, Handles
  <2>2. \E place : place # "queue" /\ Go(t, place)
    BY <1>3 DEF ReceiveMessage, Handles
  <2>3. Hands' = Hands
    BY <1>0, <1>2, <2>2, HandsStay
  <2>4. t \notin Hands
    BY <1>2 DEF Hands
  <2>5. PlacesStay
    BY <1>2, <2>1, <2>3, <2>4 DEF PlacesStay, Hands
  <2> QED
    BY <1>0, <1>1, <1>2, <2>1, <2>5, FreshStays, OnePlaceStays
<1>4. CASE Wanted(m)
  <2>1. m \in Elems(inbox) /\ m.kind = "data" /\ m.id \in Ids /\ m = Data(m.id)
    BY <1>1, <1>4, TailElems DEF Wanted, Messages, Data, Own, Ack, Refusal, MasterGone
  <2>2. m.id \notin arrived /\ m.id > left.messages /\ arrived' = arrived \cup {m.id}
    BY <1>0, <1>4, <2>1 DEF Fresh, ReceiveMessage, Handles
  <2>3. t \notin Hands /\ Hands' = Hands \cup {t}
    BY <1>0, <1>2, <1>4 DEF Hands, ReceiveMessage, Handles, Go, TypeOK
  <2>4. \A u \in Hands : msg'[u] = msg[u]
    BY <1>2, <2>3 DEF Hands
  <2>5. HandIds' = HandIds \cup {m.id}
    BY <1>2, <2>3, <2>4 DEF HandIds
  <2>6. DistinctData(inbox') /\ m \notin Elems(inbox') /\ Elems(inbox') \subseteq Elems(inbox)
    BY <1>0, <1>1, <2>1, TailElems DEF Fresh
  <2>7. ASSUME NEW e \in Elems(inbox'), e.kind = "data" PROVE e.id # m.id
    <3>1. e \in Messages
      BY <1>1, <2>6, <2>7 DEF Elems
    <3>2. e = Data(e.id)
      BY <2>7, <3>1 DEF Messages, Data, Own, Ack, Refusal, MasterGone
    <3> QED
      BY <2>1, <2>6, <2>7, <3>2
  <2> HIDE DEF m
  <2>8. Fresh'
    BY <1>0, <1>2, <2>2, <2>6, <2>7 DEF Fresh
  <2>9. Elems(handed)' = Elems(handed) /\ Elems(queue)' = Elems(queue)
    BY <1>2
  <2>10. Single'
    <3>1. \A u \in Hands : msg[u].id # m.id
      BY <1>0, <2>2 DEF OnePlace, Complete, HandIds
    <3> QED
      BY <1>0, <1>2, <2>3, <2>4, <3>1 DEF OnePlace, Single, m
  <2>11. Disjoint'
    BY <1>0, <1>2, <2>2, <2>5, <2>9 DEF OnePlace, Disjoint, Complete
  <2>12. Complete'
    BY <1>0, <1>2, <2>2, <2>5, <2>9 DEF OnePlace, Complete
  <2> QED
    BY <2>8, <2>10, <2>11, <2>12 DEF OnePlace
<1> QED
  BY <1>3, <1>4

\* From there it goes to the end of _messageQueue.
LEMMA QueueKeeps ==
  ASSUME OnceInv, NEW t \in Threads, QueueMessage(t)
  PROVE  Fresh' /\ OnePlace'
<1> DEFINE id == msg[t].id
<1>0. TypeOK /\ Fresh /\ OnePlace
  BY DEF OnceInv
<1>1. /\ pc[t] = "queue" /\ queue' = Append(queue, id)
      /\ UNCHANGED <<inbox, msg, left, handed, arrived, cleared>>
  BY DEF QueueMessage, connection, history
<1>2. queue \in Seq(Ids) /\ id \in Ids
  BY <1>0, <1>1 DEF TypeOK
<1>3. t \in Hands /\ Hands' = Hands \ {t}
  BY <1>0, <1>1 DEF QueueMessage, Go, Hands, TypeOK
<1>4. HandIds' = HandIds \ {id} /\ id \in HandIds
  <2>1. \A u \in Hands \ {t} : msg[u].id # id
    BY <1>0, <1>3 DEF OnePlace, Single
  <2> QED
    BY <1>1, <1>3, <2>1 DEF HandIds
<1> HIDE DEF id
<1>5. id \notin Elems(queue) /\ id \notin Elems(handed) /\ id \notin cleared
  BY <1>0, <1>4 DEF OnePlace, Disjoint
<1>6. Elems(queue') = Elems(queue) \cup {id} /\ NoRepeat(queue')
  BY <1>0, <1>1, <1>2, <1>5, AppendElems DEF OnePlace, Single
<1>7. Fresh'
  BY <1>0, <1>1, FreshStays
<1>8. Single'
  BY <1>0, <1>1, <1>3, <1>6 DEF OnePlace, Single
<1>9. Disjoint'
  BY <1>0, <1>1, <1>4, <1>5, <1>6 DEF OnePlace, Disjoint
<1>10. Complete'
  BY <1>0, <1>1, <1>4, <1>6 DEF OnePlace, Complete
<1> QED
  BY <1>7, <1>8, <1>9, <1>10 DEF OnePlace

\* The first of the queue is handed over.
LEMMA ReadLocalKeeps ==
  ASSUME OnceInv, ReadLocalMessage
  PROVE  Fresh' /\ OnePlace'
<1>0. TypeOK /\ Fresh /\ OnePlace
  BY DEF OnceInv
<1>1. UNCHANGED <<inbox, msg, left, arrived, cleared>> /\ Go("reader", "check") /\ pc["reader"] = "take"
  BY DEF ReadLocalMessage, connection
<1>2. Hands' = Hands /\ HandIds' = HandIds
  <2>1. Hands' = Hands
    BY <1>0, <1>1, HandsStay DEF Threads
  <2> QED
    BY <1>1, <2>1 DEF HandIds
<1>3. Fresh'
  BY <1>0, <1>1, FreshStays
<1>4. CASE queue = <<>>
  BY <1>0, <1>1, <1>2, <1>3, <1>4, OnePlaceStays DEF ReadLocalMessage, PlacesStay
<1>5. CASE queue # <<>>
  <2> DEFINE m == Head(queue)
  <2>1. queue' = Tail(queue) /\ handed' = Append(handed, m)
    BY <1>5 DEF ReadLocalMessage, Popped
  <2>2. queue \in Seq(Ids) /\ handed \in Seq(Ids) /\ m \in Ids
    BY <1>0, <1>5 DEF TypeOK
  <2>3. Elems(queue) = Elems(queue') \cup {m} /\ NoRepeat(queue') /\ m \notin Elems(queue')
    BY <1>0, <1>5, <2>1, <2>2, TailElems DEF OnePlace, Single
  <2> HIDE DEF m
  <2>4. m \notin Elems(handed) /\ m \notin HandIds /\ m \notin cleared
    BY <1>0, <2>3 DEF OnePlace, Disjoint
  <2>5. Elems(handed') = Elems(handed) \cup {m} /\ NoRepeat(handed')
    BY <1>0, <2>1, <2>2, <2>4, AppendElems DEF OnePlace, Single
  <2>6. Single'
    BY <1>0, <1>1, <1>2, <2>3, <2>5 DEF OnePlace, Single
  <2>7. Disjoint'
    BY <1>0, <1>1, <1>2, <2>3, <2>4, <2>5 DEF OnePlace, Disjoint
  <2>8. Complete'
    BY <1>0, <1>1, <1>2, <2>3, <2>5 DEF OnePlace, Complete
  <2> QED
    BY <1>3, <2>6, <2>7, <2>8 DEF OnePlace
<1> QED
  BY <1>4, <1>5

\* disconnect() clears what is left in the queue.
LEMMA ClearKeeps ==
  ASSUME OnceInv, ClearQueue
  PROVE  Fresh' /\ OnePlace'
<1>0. TypeOK /\ Fresh /\ OnePlace
  BY DEF OnceInv
<1>1. /\ UNCHANGED <<inbox, msg, left, arrived, handed>> /\ Go("sender", "shutdown") /\ pc["sender"] = "clear"
      /\ queue' = <<>> /\ cleared' = cleared \cup Elems(queue)
  BY DEF ClearQueue, connection, Elems
<1>2. Hands' = Hands /\ HandIds' = HandIds
  <2>1. Hands' = Hands
    BY <1>0, <1>1, HandsStay DEF Threads
  <2> QED
    BY <1>1, <2>1 DEF HandIds
<1>3. Elems(queue') = {} /\ NoRepeat(queue')
  BY <1>1, NoElems
<1>4. Fresh'
  BY <1>0, <1>1, FreshStays
<1>5. Single'
  BY <1>0, <1>1, <1>2, <1>3 DEF OnePlace, Single
<1>6. Disjoint'
  BY <1>0, <1>1, <1>2, <1>3 DEF OnePlace, Disjoint
<1>7. Complete'
  BY <1>0, <1>1, <1>2, <1>3 DEF OnePlace, Complete
<1> QED
  BY <1>4, <1>5, <1>6, <1>7 DEF OnePlace

-----------------------------------------------------------------------------
(* All other steps leave the messages where they are.                         *)

LessOrNoData ==
  \/ inbox' = inbox
  \/ inbox' = <<>>
  \/ inbox # <<>> /\ inbox' = Tail(inbox)
  \/ \E e \in {Own, Ack, Refusal, MasterGone} : inbox' = Append(inbox, e)

Moves(t) == pc[t] # "queue" /\ \E place : place # "queue" /\ Go(t, place)

NothingMoves ==
  /\ UNCHANGED <<queue, msg, handed, arrived, cleared>>
  /\ left'.messages = left.messages
  /\ LessOrNoData
  /\ pc' = pc \/ \E t \in Threads : Moves(t)

LEMMA NothingMovesKeeps == OnceInv /\ NothingMoves => Fresh' /\ OnePlace'
<1> SUFFICES ASSUME OnceInv, NothingMoves PROVE Fresh' /\ OnePlace'
  OBVIOUS
<1>0. TypeOK /\ Fresh /\ OnePlace
  BY DEF OnceInv
<1>1. Fresh'
  BY <1>0, FreshStays DEF NothingMoves, LessOrNoData
<1>2. CASE pc' = pc
  BY <1>0, <1>1, <1>2, OnePlaceStays DEF NothingMoves, PlacesStay, Hands
<1>3. CASE \E t \in Threads : Moves(t)
  <2>1. Hands' = Hands
    BY <1>0, <1>3, HandsStay DEF Moves
  <2> QED
    BY <1>0, <1>1, <2>1, OnePlaceStays DEF NothingMoves, PlacesStay
<1> QED
  BY <1>2, <1>3 DEF NothingMoves

\* What both threads do besides ReceiveMessage and QueueMessage.
LEMMA BothKeep ==
  ASSUME OnceInv, NEW t \in Threads, Both(t)
  PROVE  Fresh' /\ OnePlace'
<1>1. CASE ReceiveError(t)
  <2>1. Moves(t)
    BY <1>1 DEF ReceiveError, Moves
  <2> QED
    BY <1>1, <2>1, NothingMovesKeeps DEF ReceiveError, NothingMoves, LessOrNoData, history
<1>2. CASE Shutdown(t)
  <2>1. Moves(t)
    BY <1>2 DEF Shutdown, Moves
  <2> QED
    BY <1>2, <2>1, NothingMovesKeeps DEF Shutdown, NothingMoves, LessOrNoData, history
<1>3. CASE CloseSession(t) \/ ForgetSession(t)
  <2>1. Moves(t)
    BY <1>3 DEF CloseSession, ForgetSession, Failed, Moves
  <2>2. LessOrNoData
    BY <1>3 DEF CloseSession, ForgetSession, Leak, SessionEnds, LessOrNoData
  <2>3. UNCHANGED <<queue, msg, handed, arrived, cleared, left>>
    BY <1>3 DEF CloseSession, ForgetSession, history
  <2> QED
    BY <2>1, <2>2, <2>3, NothingMovesKeeps DEF NothingMoves
<1> QED
  BY <1>1, <1>2, <1>3, ReceiveKeeps, QueueKeeps DEF Both

LEMMA ReaderKeeps == OnceInv /\ Reader => Fresh' /\ OnePlace'
<1> SUFFICES ASSUME OnceInv, Reader PROVE Fresh' /\ OnePlace'
  OBVIOUS
<1>0. "reader" \in Threads
  BY DEF Threads
<1>1. CASE Both("reader") \/ ReadLocalMessage
  BY <1>0, <1>1, BothKeep, ReadLocalKeeps
<1>2. CASE CheckQueue \/ LockToRead \/ Decide \/ Reconnect \/ PollAnswer \/ JoinMasterGroup \/ SendRequest \/ Welcome
  <2>1. Moves("reader")
    BY <1>2 DEF CheckQueue, LockToRead, Decide, Decision, Reconnect, PollAnswer, JoinMasterGroup, SendRequest,
                Welcome, Moves
  <2>2. UNCHANGED <<queue, msg, handed, arrived, cleared, left, inbox>>
    BY <1>2 DEF CheckQueue, LockToRead, Decide, Reconnect, PollAnswer, JoinMasterGroup, SendRequest,
                Welcome, connection, history
  <2> QED
    BY <1>0, <2>1, <2>2, NothingMovesKeeps DEF NothingMoves, LessOrNoData
<1>3. CASE Connect \/ ConnectRefused \/ AnswerError \/ ReceiveAnswer
  <2>1. Moves("reader")
    BY <1>3 DEF Connect, ConnectRefused, AnswerError, ReceiveAnswer, Moves
  <2>2. LessOrNoData
    BY <1>3 DEF Connect, ConnectRefused, Leak, SessionEnds, AnswerError, ReceiveAnswer, LessOrNoData
  <2>3. UNCHANGED <<queue, msg, handed, arrived, cleared, left>>
    BY <1>3 DEF Connect, ConnectRefused, AnswerError, ReceiveAnswer, history
  <2> QED
    BY <1>0, <2>1, <2>2, <2>3, NothingMovesKeeps DEF NothingMoves
<1>4. CASE Timeout
  <2>1. Moves("reader")
    BY <1>4 DEF Timeout, Moves
  <2>2. left'.messages = left.messages
    BY <1>4 DEF Timeout, OnceInv, TypeOK
  <2> QED
    BY <1>0, <1>4, <2>1, <2>2, NothingMovesKeeps DEF NothingMoves, LessOrNoData, Timeout, connection, history
<1>5. CASE Subscribe
  <2>1. pc' = pc \/ Moves("reader")
    BY <1>5 DEF Subscribe, Moves
  <2> QED
    BY <1>0, <1>5, <2>1, NothingMovesKeeps DEF NothingMoves, LessOrNoData, Subscribe, history
<1> QED
  BY <1>1, <1>2, <1>3, <1>4, <1>5 DEF Reader

LEMMA SenderKeeps == OnceInv /\ (Sender \/ StartSend \/ RequestExit) => Fresh' /\ OnePlace'
<1> SUFFICES ASSUME OnceInv, Sender \/ StartSend \/ RequestExit PROVE Fresh' /\ OnePlace'
  OBVIOUS
<1>0. "sender" \in Threads
  BY DEF Threads
<1>1. CASE Both("sender") \/ ClearQueue
  BY <1>0, <1>1, BothKeep, ClearKeeps
<1>2. CASE TryToRead \/ Poll \/ HandleError \/ AfterReceiveError \/ Recheck \/ SendFarewell
             \/ StartDisconnect \/ RequestExit
  <2>1. Moves("sender")
    BY <1>2 DEF TryToRead, Poll, HandleError, AfterError, AfterReceiveError, Recheck, SendFarewell,
                StartDisconnect, RequestExit, Moves
  <2>2. UNCHANGED <<queue, msg, handed, arrived, cleared, left, inbox>>
    BY <1>2 DEF TryToRead, Poll, HandleError, AfterReceiveError, Recheck, SendFarewell,
                StartDisconnect, RequestExit, connection, history
  <2> QED
    BY <1>0, <2>1, <2>2, NothingMovesKeeps DEF NothingMoves, LessOrNoData
<1>3. CASE StartSend
  <2>1. Moves("sender")
    BY <1>3 DEF StartSend, Moves
  <2>2. left'.messages = left.messages
    BY <1>3 DEF StartSend, OnceInv, TypeOK
  <2> QED
    BY <1>0, <1>3, <2>1, <2>2, NothingMovesKeeps DEF NothingMoves, LessOrNoData, StartSend, connection, history
<1>4. CASE Multicast
  <2>1. Moves("sender")
    BY <1>4 DEF Multicast, Moves
  <2>2. LessOrNoData
    BY <1>4 DEF Multicast, LessOrNoData
  <2> QED
    BY <1>0, <1>4, <2>1, <2>2, NothingMovesKeeps DEF NothingMoves, Multicast, history
<1> QED
  BY <1>1, <1>2, <1>3, <1>4 DEF Sender

LEMMA EnvironmentKeeps == OnceInv /\ Environment => Fresh' /\ OnePlace'
<1> SUFFICES ASSUME OnceInv, Environment PROVE Fresh' /\ OnePlace'
  OBVIOUS
<1>1. UNCHANGED <<queue, pc, msg, handed, arrived, cleared>>
  BY DEF Environment, MasterAnswers, MasterRefuses, Answers, MasterSends, MasterDies, MasterReturns,
         SessionBreaks, Rest, history
<1>2. CASE MasterSends
  <2>1. PlacesStay
    BY <1>1 DEF PlacesStay, Hands
  <2> QED
    BY <1>2, <2>1, FreshMessage, OnePlaceStays DEF OnceInv
<1>3. CASE MasterAnswers \/ MasterRefuses \/ MasterDies \/ MasterReturns \/ SessionBreaks
  <2>1. LessOrNoData
    BY <1>3 DEF MasterAnswers, MasterRefuses, Answers, MasterDies, MasterReturns, SessionBreaks, SessionEnds, LessOrNoData
  <2>2. left'.messages = left.messages
    BY <1>3 DEF MasterAnswers, MasterRefuses, MasterDies, MasterReturns, SessionBreaks, OnceInv, TypeOK
  <2> QED
    BY <1>1, <2>1, <2>2, NothingMovesKeeps DEF NothingMoves
<1> QED
  BY <1>2, <1>3 DEF Environment

LEMMA OnceAtFirst == Init => OnceInv
<1> SUFFICES ASSUME Init PROVE OnceInv
  OBVIOUS
<1>1. TypeOK
  BY InitHolds DEF IInv
<1>2. Elems(inbox) = {} /\ Elems(queue) = {} /\ Elems(handed) = {}
  BY NoElems DEF Init
<1>3. DistinctData(inbox) /\ NoRepeat(queue) /\ NoRepeat(handed)
  BY NoElems DEF Init
<1>4. Hands = {} /\ HandIds = {} /\ arrived = {} /\ cleared = {}
  BY DEF Init, Hands, HandIds, Threads
<1> QED
  BY <1>1, <1>2, <1>3, <1>4 DEF OnceInv, Fresh, OnePlace, Single, Disjoint, Complete

LEMMA OnceInductive == OnceInv /\ [Next]_vars => OnceInv'
<1> SUFFICES ASSUME OnceInv, [Next]_vars PROVE OnceInv'
  OBVIOUS
<1>1. TypeOK'
  BY TypeInductive DEF OnceInv
<1>2. CASE UNCHANGED vars
  BY <1>1, <1>2, NothingMovesKeeps DEF OnceInv, NothingMoves, LessOrNoData, vars
<1>3. CASE Next
  BY <1>1, <1>3, ReaderKeeps, SenderKeeps, EnvironmentKeeps DEF OnceInv, Next
<1> QED
  BY <1>2, <1>3

\* A message that receive() or send() has read from the session is handed over by
\* readLocalMessage() at most once, and is in _messageQueue or in the hands of the
\* thread that read it until then, unless disconnect() clears it: for any number of
\* messages, losses of the session and reconnects.
THEOREM MessagesAreReadOnce == Spec => []ReadOnce
BY OnceAtFirst, OnceInductive, OnceMeansReadOnce, PTL DEF Spec
=============================================================================
