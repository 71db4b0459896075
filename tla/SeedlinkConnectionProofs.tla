---------------------- MODULE SeedlinkConnectionProofs ----------------------
(***************************************************************************)
(* Theorems about SeedlinkConnection, for any number of stations, any      *)
(* backlogs and any number of packets, pings and INFO requests: the two    *)
(* counters are exact, the socket is watched, END is the last that is sent *)
(* and the round robin is fair.                                            *)
(*                                                                         *)
(* Everything rests on Dialogue, which says what a connection can be doing *)
(* in each phase of the conversation with its client: the counters are     *)
(* changed by commands only before the transfer, by packets and by         *)
(* deliver() only after it has begun.                                      *)
(***************************************************************************)
EXTENDS SeedlinkConnection, FiniteSetTheorems, WellFoundedInduction, TLAPS

\* The transfer begins once and goes on to the end; only a ping stops the delivery.
Dialogue ==
  /\ done => client = "transfer"
  /\ response = "reply" => client = "waiting"
  /\ at # None => done /\ NoAnswers
  /\ ~multi => requested = {Default}
  /\ client # "transfer" =>
       /\ ~ended /\ turns = [s \in Stations |-> 0]
       /\ ~multi => ~sx[current].active

\* A station without a request has nothing to send, and after END no station has one.
Owed ==
  /\ \A s \in Stations : sx[s].active => s \in requested
  /\ \A s \in Stations : ~sx[s].active => sx[s].queue = <<>>
  /\ ended => active = 0

\* Whoever asks for the socket asks in both sets, and nobody else is served.
Interest ==
  /\ write => write2
  /\ at # None => write2
  /\ response # None => write
  /\ at = None /\ (~NoAnswers \/ (done /\ ready > 0)) => write2

\* The stations the round robin passes from s, without s, up to the current one.
Between(s) ==
  {r \in requested : IF s < current THEN s < r /\ r <= current ELSE s < r \/ r <= current}

\* Those of them that have had their turn.
Passed(s) == Between(s) \ (IF at = "deliver" THEN {current} ELSE {})

\* A station that is ready has let through no more packets than stations have had
\* their turn since its own.
Robin ==
  \A s \in requested :
    /\ turns[s] < Cardinality(requested)
    /\ sx[s].ready /\ s # current => turns[s] <= Cardinality(Passed(s))
    /\ sx[s].ready /\ s = current /\ at # "deliver" => turns[s] = 0

\* Every variable has its type; the counters are left to Counts.
Types ==
  /\ multi \in BOOLEAN /\ batch \in BOOLEAN /\ done \in BOOLEAN /\ invalid \in BOOLEAN
  /\ client \in {"talking", "waiting", "transfer"}
  /\ requested \subseteq Stations /\ current \in requested
  /\ sx \in [Stations -> StationStates]
  /\ response \in {"reply", "pong", None}
  /\ catalog \in 0..MaxAnswer /\ info \in 0..MaxAnswer
  /\ write \in BOOLEAN /\ write2 \in BOOLEAN /\ at \in {"next", "deliver", None}
  /\ ended \in BOOLEAN /\ sent \in Nat /\ turns \in [Stations -> Nat]
  /\ arrived \in 0..MaxPackets /\ pings \in 0..MaxPings /\ infos \in 0..MaxInfos

Active == {s \in requested : sx[s].active}
Ready  == {s \in requested : sx[s].ready}

Counts ==
  /\ active = Cardinality(Active)
  /\ ready = Cardinality(Ready)
  /\ \A s \in Stations : sx[s].ready => sx[s].active /\ s \in requested

Delivers == at = "deliver" => X.ready

IInv == Types /\ Counts /\ Delivers /\ Dialogue /\ Owed /\ Interest /\ Robin

-----------------------------------------------------------------------------
(* Sets and numbers.                                                          *)

\* A set of stations has a first one.
LEMMA First ==
  ASSUME NEW T \in SUBSET Nat, T # {}
  PROVE  \E x \in T : \A y \in T : x <= y
<1>1. PICK x \in T : \A y \in T : ~(<<y, x>> \in OpToRel(<, Nat))
  BY NatLessThanWellFounded, WFMin
<1>2. \A y \in T : ~(y < x)
  BY <1>1 DEF OpToRel
<1> QED
  BY <1>2

\* Two sets that agree up to one element.
LEMMA CountOne ==
  ASSUME NEW R, IsFiniteSet(R), NEW c, NEW A \in SUBSET R, NEW B \in SUBSET R,
         A \ {c} = B \ {c}
  PROVE  /\ Cardinality(A) \in Nat /\ Cardinality(B) \in Nat
         /\ Cardinality(B) = Cardinality(A) - (IF c \in A THEN 1 ELSE 0) + (IF c \in B THEN 1 ELSE 0)
<1>1. IsFiniteSet(A) /\ IsFiniteSet(B)
  BY FS_Subset
<1>2. Cardinality(A) \in Nat /\ Cardinality(B) \in Nat
  BY <1>1, FS_CardinalityType
<1>3. Cardinality(A \ {c}) = IF c \in A THEN Cardinality(A) - 1 ELSE Cardinality(A)
  BY <1>1, FS_RemoveElement
<1>4. Cardinality(B \ {c}) = IF c \in B THEN Cardinality(B) - 1 ELSE Cardinality(B)
  BY <1>1, FS_RemoveElement
<1>5. Cardinality(A \ {c}) = Cardinality(B \ {c})
  OBVIOUS
<1> QED
  BY <1>2, <1>3, <1>4, <1>5

LEMMA Finite ==
  ASSUME Types
  PROVE  /\ IsFiniteSet(requested) /\ Cardinality(requested) \in Nat \ {0}
         /\ Cardinality(Active) \in Nat /\ Cardinality(Active) <= Cardinality(requested)
         /\ Cardinality(Ready) \in Nat /\ Cardinality(Ready) <= Cardinality(requested)
<1>1. requested \in SUBSET Stations /\ requested # {} /\ Active \in SUBSET requested /\ Ready \in SUBSET requested
  BY DEF Types, Active, Ready
<1>2. IsFiniteSet(requested)
  BY <1>1, ConstantAssumption, FS_Subset
<1>3. Cardinality(requested) \in Nat \ {0}
  BY <1>1, <1>2, FS_CardinalityType, FS_EmptySet
<1> QED
  BY <1>1, <1>2, <1>3, FS_Subset, FS_CardinalityType

\* One station is set to x, and each counter follows it.
LEMMA CountsFollow ==
  ASSUME Types, Counts, NEW c \in requested, NEW x \in StationStates,
         requested' = requested, sx' = [sx EXCEPT ![c] = x],
         active' = active - One(sx[c].active) + One(x.active),
         ready' = ready - One(sx[c].ready) + One(x.ready),
         x.ready => x.active
  PROVE  Counts'
<1>1. c \in Stations /\ sx'[c] = x /\ \A s \in Stations \ {c} : sx'[s] = sx[s]
  BY DEF Types
<1>2. Active \in SUBSET requested /\ Active' \in SUBSET requested /\ Active \ {c} = Active' \ {c}
  BY <1>1 DEF Active, Types
<1>3. Ready \in SUBSET requested /\ Ready' \in SUBSET requested /\ Ready \ {c} = Ready' \ {c}
  BY <1>1 DEF Ready, Types
<1>4. /\ Cardinality(Active) \in Nat
      /\ Cardinality(Active') = Cardinality(Active) - (IF c \in Active THEN 1 ELSE 0)
                                  + (IF c \in Active' THEN 1 ELSE 0)
  BY <1>2, Finite, CountOne
<1>5. /\ Cardinality(Ready) \in Nat
      /\ Cardinality(Ready') = Cardinality(Ready) - (IF c \in Ready THEN 1 ELSE 0)
                                 + (IF c \in Ready' THEN 1 ELSE 0)
  BY <1>3, Finite, CountOne
<1>6. (c \in Active <=> sx[c].active) /\ (c \in Active' <=> x.active)
  BY <1>1 DEF Active
<1>7. (c \in Ready <=> sx[c].ready) /\ (c \in Ready' <=> x.ready)
  BY <1>1 DEF Ready
<1>8. active' = Cardinality(Active')
  BY <1>4, <1>6 DEF Counts, One
<1>9. ready' = Cardinality(Ready')
  BY <1>5, <1>7 DEF Counts, One
<1>10. \A s \in Stations : sx'[s].ready => sx'[s].active /\ s \in requested'
  BY <1>1 DEF Counts
<1> QED
  BY <1>8, <1>9, <1>10 DEF Counts

-----------------------------------------------------------------------------
(* The steps.                                                                 *)

\* Requests for data; steps that change neither stations nor counters.
Demand ==
  \/ \E realtime \in BOOLEAN : RequestNext(realtime)
  \/ \E b \in Backlogs, realtime, found \in BOOLEAN : RequestFrom(realtime, b, found)
  \/ \E b \in Backlogs, window, eod \in BOOLEAN : RequestWindow(b, window, eod)

Plain ==
  \/ Ask \/ Batch \/ StationRefused \/ EndHandshake \/ Ping
  \/ \E n \in 1..MaxAnswer : Cat(n) \/ Info(n)
  \/ Sync \/ SendResponse \/ SendBuffer \/ NothingReady \/ Round

LEMMA IdleType ==
  /\ Idle \in StationStates /\ Idle.queue = <<>> /\ ~Idle.active /\ ~Idle.ready
  /\ <<>> \in Seq(Kinds)
BY DEF Idle, StationStates

LEMMA Steps ==
  Next <=>
    \/ Plain \/ (\E s \in Stations : Station(s)) \/ Select \/ Demand
    \/ (\E s \in Stations, kind \in Kinds : NewBuffer(s, kind))
    \/ Advance \/ Skip \/ SendPacket \/ NothingLeft
BY Zenon DEF Next, Command, Deliver, Plain, Demand

LEMMA PlainKeeps ==
  ASSUME Plain
  PROVE  /\ UNCHANGED <<counters, stations, history>>
         /\ at = None /\ at' \in {"next", None}
<1> USE DEF counters, stations, history, answers, handshake, bounds, fds
<1>1. CASE Ask \/ Batch \/ StationRefused \/ EndHandshake
  BY <1>1 DEF Ask, Batch, StationRefused, EndHandshake, Talks
<1>2. CASE Ping \/ Sync
  BY <1>2 DEF Ping, Sync
<1>3. CASE \E n \in 1..MaxAnswer : Cat(n) \/ Info(n)
  BY <1>3 DEF Cat, Info, Talks
<1>4. CASE SendResponse \/ SendBuffer \/ NothingReady \/ Round
  BY <1>4 DEF SendResponse, SendBuffer, NothingReady, Round, Writable
<1> QED
  BY <1>1, <1>2, <1>3, <1>4 DEF Plain

\* A request sets the current station; unless it asks for the socket it is not ready.
LEMMA DemandForm ==
  ASSUME Demand
  PROVE  \E x \in StationStates, notify \in BOOLEAN :
           x.active /\ (~notify => ~x.ready) /\ Requests(x, notify)
<1>1. CASE \E realtime \in BOOLEAN : RequestNext(realtime)
  <2>1. PICK realtime \in BOOLEAN : RequestNext(realtime)
    BY <1>1
  <2> DEFINE x == [Idle EXCEPT !.active = TRUE, !.realtime = realtime]
  <2>2. x \in StationStates /\ x.active /\ ~x.ready
    BY IdleType DEF StationStates
  <2>3. Requests(x, FALSE)
    BY <2>1 DEF RequestNext
  <2> HIDE DEF x
  <2> QED
    BY <2>2, <2>3
<1>2. CASE \E b \in Backlogs, realtime, found \in BOOLEAN : RequestFrom(realtime, b, found)
  <2>1. PICK b \in Backlogs, realtime \in BOOLEAN, found \in BOOLEAN : RequestFrom(realtime, b, found)
    BY <1>2
  <2> DEFINE x == [Idle EXCEPT !.active = TRUE, !.realtime = realtime, !.queue = b, !.ready = found]
  <2>2. x \in StationStates /\ x.active
    BY IdleType, ConstantAssumption DEF StationStates
  <2>3. Requests(x, TRUE)
    BY <2>1 DEF RequestFrom
  <2> HIDE DEF x
  <2> QED
    BY <2>2, <2>3
<1>3. CASE \E b \in Backlogs, window, eod \in BOOLEAN : RequestWindow(b, window, eod)
  <2>1. PICK b \in Backlogs, window \in BOOLEAN, eod \in BOOLEAN : RequestWindow(b, window, eod)
    BY <1>3
  <2> DEFINE x == [Idle EXCEPT !.active = TRUE, !.queue = IF eod THEN <<>> ELSE b, !.ready = TRUE,
                               !.window = window, !.eod = eod]
  <2>2. x \in StationStates /\ x.active
    BY IdleType, ConstantAssumption DEF StationStates
  <2>3. Requests(x, TRUE)
    BY <2>1 DEF RequestWindow
  <2> HIDE DEF x
  <2> QED
    BY <2>2, <2>3
<1> QED
  BY <1>1, <1>2, <1>3 DEF Demand

\* NewBuffer sets the station that has received the packet.
LEMMA BufferForm ==
  ASSUME Types, Counts, NEW s \in Stations, NEW kind \in Kinds, NewBuffer(s, kind)
  PROVE  \E x \in StationStates :
           /\ sx' = [sx EXCEPT ![s] = x] /\ s \in requested
           /\ sx[s].active /\ x.active /\ (sx[s].ready => x.ready)
           /\ write' = write /\ (write2 => write2')
           /\ \/ ready' = ready /\ turns' = turns /\ x.ready = sx[s].ready
              \/ /\ ready' = ready + 1 /\ turns' = [turns EXCEPT ![s] = 0]
                 /\ x.ready /\ ~sx[s].ready /\ done /\ write2'
<1> DEFINE o == sx[s]
           takes == o.queue # <<>> \/ Matches(o, kind)
           marks == takes /\ done
           q == IF takes THEN Append(o.queue, kind) ELSE o.queue
           e == o.eod \/ (o.queue = <<>> /\ Ends(o, kind))
           r == o.ready \/ marks
           x == [o EXCEPT !.queue = q, !.eod = e, !.ready = r]
<1>1. /\ sx' = [sx EXCEPT ![s] = x] /\ o.active /\ s \in requested
      /\ ready' = ready + One(marks /\ ~o.ready)
      /\ turns' = IF marks /\ ~o.ready THEN [turns EXCEPT ![s] = 0] ELSE turns
      /\ IF marks THEN SetWrite2 ELSE UNCHANGED fds
  BY DEF NewBuffer, MarkedOnce
<1>2. o \in StationStates /\ q \in Seq(Kinds) /\ e \in BOOLEAN /\ r \in BOOLEAN
  <2>1. o \in StationStates
    BY DEF Types
  <2>2. o.queue \in Seq(Kinds) /\ o.eod \in BOOLEAN /\ o.ready \in BOOLEAN
    BY <2>1 DEF StationStates
  <2>3. q \in Seq(Kinds)
    BY <2>2
  <2>4. e \in BOOLEAN /\ r \in BOOLEAN
    BY <2>2
  <2> QED
    BY <2>1, <2>3, <2>4
<1>3. x \in StationStates /\ x.active = o.active /\ x.ready = r
  <2> HIDE DEF q, e, r, o
  <2> QED
    BY <1>2 DEF StationStates
<1>4. write' = write /\ (write2 => write2') /\ (marks => write2')
  BY <1>1 DEF SetWrite2, fds
<1>5. o.ready \in BOOLEAN
  BY <1>2 DEF StationStates
<1>6. CASE marks /\ ~o.ready
  <2>1. ready' = ready + 1 /\ turns' = [turns EXCEPT ![s] = 0]
    BY <1>1, <1>6 DEF One
  <2>2. x.ready /\ done
    BY <1>3, <1>6
  <2> HIDE DEF x
  <2> QED
    BY <1>1, <1>3, <1>4, <1>6, <2>1, <2>2
<1>7. CASE ~(marks /\ ~o.ready)
  <2>0. ready \in Nat
    BY Finite DEF Counts
  <2>1. ready' = ready /\ turns' = turns
    BY <1>1, <1>7, <2>0 DEF One
  <2>2. x.ready = o.ready
    BY <1>3, <1>5, <1>7
  <2> HIDE DEF x
  <2> QED
    BY <1>1, <1>3, <1>4, <2>1, <2>2
<1> QED
  BY <1>6, <1>7

\* The next station in the order of the keys, from behind the last the first one.
LEMMA FollowingIsNext ==
  ASSUME Types
  PROVE  /\ Following \in requested
         /\ \/ /\ Following > current
               /\ \A r \in requested : r <= current \/ Following <= r
            \/ /\ Following <= current
               /\ \A r \in requested : r <= current /\ Following <= r
<1>1. requested \in SUBSET Nat /\ requested # {} /\ current \in requested
  BY ConstantAssumption DEF Types
<1> DEFINE later == {s \in requested : s > current}
<1>2. CASE later = {}
  <2>1. Following = FirstStation
    BY <1>2 DEF Following
  <2>2. \E s \in requested : \A r \in requested : s <= r
    BY <1>1, First
  <2>3. FirstStation \in requested /\ \A r \in requested : FirstStation <= r
    BY <2>2 DEF FirstStation
  <2>4. \A r \in requested : r <= current
    BY <1>1, <1>2
  <2> QED
    BY <1>1, <2>1, <2>3, <2>4
<1>3. CASE later # {}
  <2>1. Following = CHOOSE s \in later : \A r \in later : s <= r
    BY <1>3 DEF Following
  <2>2. later \in SUBSET Nat
    BY <1>1
  <2>3. \E s \in later : \A r \in later : s <= r
    BY <1>3, <2>2, First
  <2>4. Following \in later /\ \A r \in later : Following <= r
    BY <2>1, <2>3
  <2>5. \A r \in requested : r <= current \/ r \in later
    BY <1>1
  <2> QED
    BY <2>4, <2>5
<1> QED
  BY <1>2, <1>3

LEMMA AnswerTypes ==
  ASSUME Types
  PROVE  /\ Respond => /\ response' \in {"reply", "pong", None}
                       /\ client' \in {"talking", "waiting", "transfer"}
                       /\ write' \in BOOLEAN /\ write2' \in BOOLEAN
         /\ NoBuffers => catalog' \in 0..MaxAnswer /\ info' \in 0..MaxAnswer
         /\ SetWrite2 \/ UNCHANGED fds => write' \in BOOLEAN /\ write2' \in BOOLEAN
<1>1. ASSUME Respond
      PROVE  /\ response' \in {"reply", "pong", None}
             /\ client' \in {"talking", "waiting", "transfer"}
             /\ write' \in BOOLEAN /\ write2' \in BOOLEAN
  <2>1. CASE batch
    BY <1>1, <2>1 DEF Respond, fds, Types
  <2>2. CASE ~batch
    BY <1>1, <2>2 DEF Respond, SetWrite, Types
  <2> QED
    BY <2>1, <2>2
<1>2. NoBuffers => catalog' \in 0..MaxAnswer /\ info' \in 0..MaxAnswer
  BY ConstantAssumption DEF NoBuffers
<1>3. SetWrite2 \/ UNCHANGED fds => write' \in BOOLEAN /\ write2' \in BOOLEAN
  BY DEF SetWrite2, fds, Types
<1> QED
  BY <1>1, <1>2, <1>3

\* Every step keeps the types.
LEMMA TypesStep == Types /\ Counts /\ Next => Types'
<1> SUFFICES ASSUME Types, Counts, Next PROVE Types'
  OBVIOUS
<1> USE ConstantAssumption
<1>1. CASE Plain
  <2> USE DEF Types, counters, stations, history, answers, handshake, bounds, fds
  <2>1. CASE Ask \/ Batch \/ StationRefused
    BY <2>1, AnswerTypes DEF Ask, Batch, StationRefused
  <2>2. CASE EndHandshake
    BY <2>2, AnswerTypes DEF EndHandshake
  <2>3. CASE Ping
    BY <2>3 DEF Ping, SetWrite
  <2>4. CASE \E n \in 1..MaxAnswer : Cat(n)
    BY <2>4 DEF Cat, SetWrite2
  <2>5. CASE \E n \in 1..MaxAnswer : Info(n)
    BY <2>5 DEF Info, SetWrite2, One
  <2>6. CASE Sync \/ NothingReady
    BY <2>6 DEF Sync, NothingReady
  <2>9. CASE Round
    BY <2>9 DEF Round
  <2>7. CASE SendResponse
    BY <2>7 DEF SendResponse
  <2>8. CASE SendBuffer
    BY <2>8 DEF SendBuffer
  <2> QED
    BY <1>1, <2>1, <2>2, <2>3, <2>4, <2>5, <2>6, <2>7, <2>8, <2>9 DEF Plain
<1>2. CASE \E s \in Stations : Station(s)
  <2> PICK s \in Stations : Station(s)
    BY <1>2
  <2>1. requested' \subseteq Stations /\ current' \in requested' /\ sx' \in [Stations -> StationStates]
    BY IdleType DEF Station, Types
  <2> QED
    BY <2>1, AnswerTypes DEF Station, Types, history, bounds
<1>3. CASE Select
  <2>1. sx' \in [Stations -> StationStates]
    BY <1>3, IdleType DEF Select, Types
  <2> QED
    BY <1>3, <2>1, AnswerTypes DEF Select, Types, history, bounds
<1>4. CASE Demand
  <2> PICK x \in StationStates, notify \in BOOLEAN : Requests(x, notify)
    BY <1>4, DemandForm
  <2>1. sx' \in [Stations -> StationStates] /\ turns' \in [Stations -> Nat]
    BY DEF Requests, Types
  <2>2. /\ response' \in {"reply", "pong", None} /\ client' \in {"talking", "waiting", "transfer"}
        /\ write' \in BOOLEAN /\ write2' \in BOOLEAN
    BY AnswerTypes DEF Requests, Types
  <2>3. catalog' \in 0..MaxAnswer /\ info' \in 0..MaxAnswer
    BY AnswerTypes DEF Requests
  <2>4. done' \in BOOLEAN
    BY DEF Requests, Starts, Types
  <2> QED
    BY <2>1, <2>2, <2>3, <2>4 DEF Requests, Types, bounds
<1>5. CASE \E s \in Stations, kind \in Kinds : NewBuffer(s, kind)
  <2> PICK s \in Stations, kind \in Kinds : NewBuffer(s, kind)
    BY <1>5
  <2>1. sx' \in [Stations -> StationStates] /\ turns' \in [Stations -> Nat]
    BY BufferForm DEF Types
  <2>2. write' \in BOOLEAN /\ write2' \in BOOLEAN
    BY DEF NewBuffer, SetWrite2, fds, Types
  <2>3. arrived' \in 0..MaxPackets
    BY DEF NewBuffer, Types
  <2> QED
    BY <2>1, <2>2, <2>3 DEF NewBuffer, Types, handshake, answers
<1>6. CASE Advance
  <2>1. current' \in requested' /\ requested' = requested
    BY <1>6, FollowingIsNext DEF Advance
  <2> QED
    BY <1>6, <2>1 DEF Advance, Onward, Types, handshake, answers, fds, history, bounds
<1>7. CASE Skip
  <2>1. X \in StationStates /\ Left \in Seq(Kinds) /\ Left # <<>>
    BY <1>7, IdleType DEF Skip, Left, X, Types, StationStates
  <2>2. Tail(Left) \in Seq(Kinds) /\ Ends(X, Head(Left)) \in BOOLEAN
    BY <2>1 DEF Ends
  <2>3. [X EXCEPT !.queue = Tail(Left), !.eod = Ends(X, Head(Left))] \in StationStates
    BY <2>1, <2>2 DEF StationStates
  <2>4. sx' = [sx EXCEPT ![current] = [X EXCEPT !.queue = Tail(Left), !.eod = Ends(X, Head(Left))]]
    BY <1>7 DEF Skip, X
  <2>5. sx' \in [Stations -> StationStates]
    BY <2>3, <2>4 DEF Types
  <2> QED
    BY <1>7, <2>5 DEF Skip, Types, handshake, answers, fds, history, bounds
<1>8. CASE SendPacket
  <2>1. X \in StationStates /\ Left \in Seq(Kinds) /\ Left # <<>>
    BY <1>8, IdleType DEF SendPacket, Left, X, Types, StationStates
  <2>2. Tail(Left) \in Seq(Kinds)
    BY <2>1
  <2>3. [X EXCEPT !.queue = Tail(Left)] \in StationStates
    BY <2>1, <2>2 DEF StationStates
  <2>4. sx' = [sx EXCEPT ![current] = [X EXCEPT !.queue = Tail(Left)]]
    BY <1>8 DEF SendPacket, X
  <2>5. sx' \in [Stations -> StationStates]
    BY <2>3, <2>4 DEF Types
  <2>6. turns' \in [Stations -> Nat]
    BY <1>8 DEF SendPacket, Types
  <2>7. sent' \in Nat
    <3>1. sent' = sent + 1 /\ sent \in Nat
      BY <1>8 DEF SendPacket, Types
    <3> QED
      BY <3>1
  <2>8. write' \in BOOLEAN
    <3>1. write' = FALSE
      BY <1>8 DEF SendPacket
    <3> QED
      BY <3>1
  <2> QED
    BY <1>8, <2>5, <2>6, <2>7, <2>8 DEF SendPacket, Types, handshake, answers, bounds
<1>9. CASE NothingLeft
  <2>1. X \in StationStates /\ StopsNow(X) \in BOOLEAN
    BY DEF X, Types, StationStates, StopsNow
  <2>2. [X EXCEPT !.queue = <<>>, !.ready = FALSE, !.active = ~StopsNow(X), !.eod = StopsNow(X)] \in StationStates
    BY <2>1, IdleType DEF StationStates
  <2>3. sx' = [sx EXCEPT ![current] = [X EXCEPT !.queue = <<>>, !.ready = FALSE, !.active = ~StopsNow(X),
                                                !.eod = StopsNow(X)]]
    BY <1>9 DEF NothingLeft, X
  <2>4. sx' \in [Stations -> StationStates]
    BY <2>2, <2>3 DEF Types
  <2> QED
    BY <1>9, <2>4 DEF NothingLeft, AllDone, Onward, Types, handshake, answers, fds, bounds
<1> QED
  BY <1>1, <1>2, <1>3, <1>4, <1>5, <1>6, <1>7, <1>8, <1>9, Steps

\* A command before the transfer finds nothing delivered yet.
LEMMA BeforeTransfer ==
  ASSUME Dialogue, Talks
  PROVE  /\ client = "talking" /\ at = None /\ ~done /\ ~ended /\ response # "reply"
         /\ turns = [s \in Stations |-> 0] /\ (~multi => ~sx[current].active)
BY DEF Dialogue, Talks

LEMMA DialogueStep == Types /\ Counts /\ Dialogue /\ Next => Dialogue'
<1> SUFFICES ASSUME Types, Counts, Dialogue, Next PROVE Dialogue'
  OBVIOUS
<1>0. None \notin {"reply", "pong", "next", "deliver"}
  BY ConstantAssumption
<1>1. CASE Plain
  <2>0. /\ sx' = sx /\ current' = current /\ requested' = requested
        /\ ended' = ended /\ turns' = turns
        /\ at = None /\ at' \in {"next", None}
    BY <1>1, PlainKeeps DEF stations, history
  <2>1. CASE Ask \/ Batch \/ StationRefused
    <3>1. Talks /\ Respond /\ multi' = multi /\ done' = done /\ at' = at
      BY <2>1 DEF Ask, Batch, StationRefused
    <3>2. \/ client' = client /\ response' = response
          \/ client' = "waiting"
      BY <3>1 DEF Respond
    <3> QED
      BY <2>0, <3>1, <3>2, BeforeTransfer DEF Dialogue
  <2>2. CASE EndHandshake
    BY <2>0, <2>2, BeforeTransfer DEF EndHandshake, Dialogue
  <2>3. CASE Ping
    BY <2>0, <2>3 DEF Ping, Dialogue, handshake
  <2>4. CASE \E n \in 1..MaxAnswer : Cat(n) \/ Info(n)
    BY <2>0, <2>4 DEF Cat, Info, Dialogue, handshake
  <2>5. CASE Sync \/ SendBuffer \/ NothingReady
    BY <2>0, <2>5 DEF Sync, SendBuffer, NothingReady, Dialogue, handshake, answers
  <2>6. CASE SendResponse
    BY <1>0, <2>0, <2>6 DEF SendResponse, Dialogue
  <2>7. CASE Round
    BY <2>0, <2>7 DEF Round, Dialogue, handshake, answers, NoAnswers
  <2> QED
    BY <1>1, <2>1, <2>2, <2>3, <2>4, <2>5, <2>6, <2>7 DEF Plain
<1>2. CASE \E s \in Stations : Station(s)
  <2> PICK s \in Stations : Station(s)
    BY <1>2
  <2>1. Talks /\ Respond /\ multi' = TRUE /\ done' = done /\ at' = at /\ ended' = ended /\ turns' = turns
    BY DEF Station, history
  <2>2. (client' = client /\ response' = response) \/ client' = "waiting"
    BY <2>1 DEF Respond
  <2> QED
    BY <2>1, <2>2, BeforeTransfer DEF Dialogue
<1>3. CASE Select
  <2>1. /\ Talks /\ Respond /\ multi' = multi /\ done' = done /\ at' = at /\ ended' = ended /\ turns' = turns
        /\ requested' = requested
    BY <1>3 DEF Select, history
  <2>2. (client' = client /\ response' = response) \/ client' = "waiting"
    BY <2>1 DEF Respond
  <2>3. ~sx'[current'].active
    BY <1>3, IdleType DEF Select, Types
  <2> QED
    BY <2>1, <2>2, <2>3, BeforeTransfer DEF Dialogue
<1>4. CASE Demand
  <2> PICK x \in StationStates, notify \in BOOLEAN : Requests(x, notify)
    BY <1>4, DemandForm
  <2>1. /\ Talks /\ multi' = multi /\ at' = at /\ ended' = ended /\ requested' = requested
        /\ turns' = [turns EXCEPT ![current] = 0] /\ done' = (done \/ ~multi)
    BY DEF Requests, Starts
  <2>2. turns' = [s \in Stations |-> 0]
    BY <2>1, BeforeTransfer DEF Types
  <2>3. CASE multi
    <3>1. Respond
      BY <2>3 DEF Requests
    <3>2. (client' = client /\ response' = response) \/ client' = "waiting"
      BY <3>1 DEF Respond
    <3> QED
      BY <2>1, <2>2, <2>3, <3>2, BeforeTransfer DEF Dialogue
  <2>4. CASE ~multi
    <3>1. client' = "transfer" /\ response' = response
      BY <2>4 DEF Requests
    <3> QED
      BY <2>1, <2>2, <2>4, <3>1, BeforeTransfer DEF Dialogue
  <2> QED
    BY <2>3, <2>4
<1>5. CASE \E s \in Stations, kind \in Kinds : NewBuffer(s, kind)
  <2> PICK s \in Stations, kind \in Kinds : NewBuffer(s, kind)
    BY <1>5
  <2>1. /\ multi' = multi /\ done' = done /\ client' = client /\ response' = response
        /\ at' = at /\ at = None /\ requested' = requested /\ current' = current /\ ended' = ended
    BY DEF NewBuffer, handshake, answers
  <2>2. PICK x \in StationStates :
          /\ sx' = [sx EXCEPT ![s] = x] /\ sx[s].active /\ x.active
          /\ turns' = turns \/ done
    BY BufferForm
  <2>3. sx'[current].active => sx[current].active
    BY <2>2 DEF Types
  <2> QED
    BY <2>1, <2>2, <2>3 DEF Dialogue
<1>6. CASE Advance \/ Skip \/ SendPacket \/ NothingLeft
  <2>1. /\ at # None /\ multi' = multi /\ done' = done /\ client' = client /\ response' = response
        /\ requested' = requested /\ catalog' = catalog /\ info' = info
    BY <1>0, <1>6 DEF Advance, Skip, SendPacket, NothingLeft, handshake, answers
  <2> QED
    BY <2>1 DEF Dialogue, NoAnswers
<1> QED
  BY <1>1, <1>2, <1>3, <1>4, <1>5, <1>6, Steps

\* In uni-station mode nothing has been requested before the transfer.
LEMMA NobodyYet ==
  ASSUME Types, Counts, Dialogue, Owed, Talks, ~multi
  PROVE  /\ \A r \in Stations : ~sx[r].active /\ ~sx[r].ready
         /\ active = 0 /\ ready = 0
<1>1. requested = {current} /\ ~sx[current].active
  BY BeforeTransfer DEF Dialogue, Types
<1>2. \A r \in Stations : ~sx[r].active /\ ~sx[r].ready
  BY <1>1 DEF Owed, Counts
<1>3. Active = {} /\ Ready = {}
  BY <1>2 DEF Active, Ready, Types
<1> QED
  BY <1>2, <1>3, FS_EmptySet DEF Counts

\* The counters follow every step.
LEMMA CountsStep == Types /\ Counts /\ Delivers /\ Dialogue /\ Owed /\ Next => Counts' /\ Delivers'
<1> SUFFICES ASSUME Types, Counts, Delivers, Dialogue, Owed, Next PROVE Counts' /\ Delivers'
  OBVIOUS
<1>0. None \notin {"reply", "pong", "next", "deliver"} /\ current \in requested /\ current \in Stations
  BY ConstantAssumption DEF Types
<1>1. active \in Nat /\ ready \in Nat
  BY Finite DEF Counts
<1>2. CASE Plain
  BY <1>0, <1>2, PlainKeeps DEF Counts, Delivers, counters, stations, Active, Ready
<1>3. CASE \E s \in Stations : Station(s)
  <2> PICK s \in Stations : Station(s)
    BY <1>3
  <2>0. /\ Talks /\ at' = at /\ active' = active
        /\ ready' = ready - One(~multi /\ sx[current].ready)
        /\ requested' = (IF multi THEN requested ELSE requested \ {current}) \cup {s}
        /\ sx' = IF multi THEN sx ELSE [sx EXCEPT ![current] = Idle]
    BY DEF Station
  <2>1. CASE multi
    <3>1. sx' = sx /\ ready' = ready /\ requested' = requested \cup {s}
      BY <1>1, <2>0, <2>1 DEF One
    <3>2. Active' = Active
      BY <3>1 DEF Active, Owed, Types
    <3>3. Ready' = Ready
      BY <3>1 DEF Ready, Counts, Types
    <3> QED
      BY <1>0, <2>0, <3>1, <3>2, <3>3, BeforeTransfer DEF Counts, Delivers
  <2>2. CASE ~multi
    <3>2. (\A r \in Stations : ~sx[r].active /\ ~sx[r].ready) /\ active = 0 /\ ready = 0
      BY <2>0, <2>2, NobodyYet
    <3>3. \A r \in Stations : ~sx'[r].active /\ ~sx'[r].ready
      BY <2>0, <2>2, <3>2, IdleType DEF Types
    <3>4. requested' \subseteq Stations
      BY <2>0 DEF Types
    <3>5. Active' = {} /\ Ready' = {}
      BY <3>3, <3>4 DEF Active, Ready
    <3>7. active' = 0 /\ ready' = 0
      <4>1. One(~multi /\ sx[current].ready) = 0
        BY <1>0, <3>2 DEF One
      <4> QED
        BY <2>0, <3>2, <4>1
    <3> QED
      BY <1>0, <2>0, <3>3, <3>5, <3>7, FS_EmptySet, BeforeTransfer DEF Counts, Delivers
  <2> QED
    BY <2>1, <2>2
<1>4. CASE Select
  <2>1. /\ active' = active - One(sx[current].active) + One(Idle.active)
        /\ ready' = ready - One(sx[current].ready) + One(Idle.ready)
    BY <1>1, <1>4, IdleType DEF Select, OtherActive, OtherReady, One
  <2>2. at' # "deliver"
    BY <1>0, <1>4 DEF Select, Talks
  <2> QED
    BY <1>0, <1>4, <2>1, <2>2, IdleType, CountsFollow DEF Select, Delivers
<1>5. CASE Demand
  <2> PICK x \in StationStates, notify \in BOOLEAN : x.active /\ Requests(x, notify)
    BY <1>5, DemandForm
  <2>1. /\ active' = active - One(sx[current].active) + One(x.active)
        /\ ready' = ready - One(sx[current].ready) + One(x.ready)
        /\ sx' = [sx EXCEPT ![current] = x] /\ requested' = requested
    BY DEF Requests, OtherActive, OtherReady, One
  <2>2. at' # "deliver"
    BY <1>0 DEF Requests, Talks
  <2> QED
    BY <1>0, <2>1, <2>2, CountsFollow DEF Delivers
<1>6. CASE \E s \in Stations, kind \in Kinds : NewBuffer(s, kind)
  <2> PICK s \in Stations, kind \in Kinds : NewBuffer(s, kind)
    BY <1>6
  <2>1. PICK x \in StationStates :
          /\ sx' = [sx EXCEPT ![s] = x] /\ s \in requested
          /\ sx[s].active /\ x.active
          /\ \/ ready' = ready /\ x.ready = sx[s].ready
             \/ ready' = ready + 1 /\ x.ready /\ ~sx[s].ready
    BY BufferForm
  <2>2. /\ active' = active - One(sx[s].active) + One(x.active)
        /\ ready' = ready - One(sx[s].ready) + One(x.ready)
    BY <1>1, <2>1 DEF One, NewBuffer
  <2>3. at' # "deliver" /\ requested' = requested
    BY <1>0 DEF NewBuffer
  <2> QED
    BY <2>1, <2>2, <2>3, CountsFollow DEF Delivers
<1>7. CASE Advance
  <2>1. sx' = sx /\ requested' = requested /\ active' = active /\ ready' = ready
    BY <1>7 DEF Advance, counters
  <2>2. Delivers'
    BY <1>0, <1>7, <2>1 DEF Advance, Onward, Delivers, X
  <2> QED
    BY <2>1, <2>2 DEF Counts, Active, Ready
<1>8. CASE Skip
  <2> DEFINE x == [X EXCEPT !.queue = Tail(Left), !.eod = Ends(X, Head(Left))]
  <2>1. /\ sx' = [sx EXCEPT ![current] = x] /\ current' = current /\ requested' = requested
        /\ active' = active /\ ready' = ready /\ at' = at
    BY <1>8 DEF Skip, X, counters
  <2>2. X \in StationStates
    BY DEF Types, X
  <2>3. x.active = X.active /\ x.ready = X.ready
    BY <2>2 DEF StationStates
  <2>4. sx'[current] = x /\ \A r \in Stations \ {current} : sx'[r] = sx[r]
    BY <1>0, <2>1 DEF Types
  <2>5. \A r \in Stations : sx'[r].active = sx[r].active /\ sx'[r].ready = sx[r].ready
    BY <2>3, <2>4 DEF X
  <2>6. Active' = Active /\ Ready' = Ready
    BY <2>1, <2>5 DEF Active, Ready, Types
  <2> QED
    BY <1>0, <2>1, <2>5, <2>6 DEF Counts, Delivers, X
<1>9. CASE SendPacket
  <2> DEFINE x == [X EXCEPT !.queue = Tail(Left)]
  <2>1. /\ sx' = [sx EXCEPT ![current] = x] /\ current' = current /\ requested' = requested
        /\ active' = active /\ ready' = ready /\ at' = None
    BY <1>9 DEF SendPacket, X, counters
  <2>2. X \in StationStates
    BY DEF Types, X
  <2>3. x.active = X.active /\ x.ready = X.ready
    BY <2>2 DEF StationStates
  <2>4. sx'[current] = x /\ \A r \in Stations \ {current} : sx'[r] = sx[r]
    BY <1>0, <2>1 DEF Types
  <2>5. \A r \in Stations : sx'[r].active = sx[r].active /\ sx'[r].ready = sx[r].ready
    BY <2>3, <2>4 DEF X
  <2>6. Active' = Active /\ Ready' = Ready
    BY <2>1, <2>5 DEF Active, Ready, Types
  <2> QED
    BY <1>0, <2>1, <2>5, <2>6 DEF Counts, Delivers
<1>10. CASE NothingLeft
  <2> DEFINE x == [X EXCEPT !.queue = <<>>, !.ready = FALSE, !.active = ~StopsNow(X), !.eod = StopsNow(X)]
  <2>1. /\ sx' = [sx EXCEPT ![current] = x] /\ requested' = requested
        /\ active' = active - One(StopsNow(X)) /\ ready' = ready - 1 /\ at' \in {"next", None}
    BY <1>10 DEF NothingLeft, X, Onward
  <2>2. X \in StationStates /\ X.ready /\ X.active
    BY <1>0, <1>10 DEF Types, X, NothingLeft, Delivers, Counts
  <2>3. x \in StationStates /\ x.active = ~StopsNow(X) /\ x.ready = FALSE
    BY <2>2, IdleType DEF StationStates, StopsNow
  <2>4. StopsNow(X) \in BOOLEAN
    BY <2>2 DEF StopsNow, StationStates
  <2>5. /\ active' = active - One(sx[current].active) + One(x.active)
        /\ ready' = ready - One(sx[current].ready) + One(x.ready)
    <3> HIDE DEF x
    <3>1. One(sx[current].active) = 1 /\ One(sx[current].ready) = 1 /\ One(x.ready) = 0
      BY <2>2, <2>3 DEF One, X
    <3>2. ready' = ready - One(sx[current].ready) + One(x.ready)
      BY <1>1, <2>1, <3>1
    <3>3. CASE StopsNow(X)
      <4>1. One(StopsNow(X)) = 1 /\ One(x.active) = 0
        BY <2>3, <3>3 DEF One
      <4> QED
        BY <1>1, <2>1, <3>1, <3>2, <4>1
    <3>4. CASE ~StopsNow(X)
      <4>1. One(StopsNow(X)) = 0 /\ One(x.active) = 1
        BY <2>3, <3>4 DEF One
      <4> QED
        BY <1>1, <2>1, <3>1, <3>2, <4>1
    <3> QED
      BY <3>3, <3>4
  <2> HIDE DEF x
  <2> QED
    BY <1>0, <2>1, <2>3, <2>5, CountsFollow DEF Delivers
<1> QED
  BY <1>2, <1>3, <1>4, <1>5, <1>6, <1>7, <1>8, <1>9, <1>10, Steps

\* Only a station with a request has packets to send, and none has after END.
LEMMA OwedStep == Types /\ Counts /\ Delivers /\ Dialogue /\ Owed /\ Next => Owed'
<1> SUFFICES ASSUME Types, Counts, Delivers, Dialogue, Owed, Next PROVE Owed'
  OBVIOUS
<1>0. current \in requested /\ current \in Stations
  BY DEF Types
<1>1. CASE Plain
  BY <1>1, PlainKeeps DEF Owed, counters, stations, history
<1>2. CASE \E s \in Stations : Station(s)
  <2> PICK s \in Stations : Station(s)
    BY <1>2
  <2>0. /\ Talks /\ ended' = ended
        /\ requested' = (IF multi THEN requested ELSE requested \ {current}) \cup {s}
        /\ sx' = IF multi THEN sx ELSE [sx EXCEPT ![current] = Idle]
    BY DEF Station, history
  <2>1. CASE multi
    BY <2>0, <2>1, BeforeTransfer DEF Owed
  <2>2. CASE ~multi
    <3>1. \A r \in Stations : ~sx[r].active /\ sx[r].queue = <<>>
      BY <2>0, <2>2, NobodyYet DEF Owed
    <3>2. \A r \in Stations : ~sx'[r].active /\ sx'[r].queue = <<>>
      BY <2>0, <2>2, <3>1, IdleType DEF Types
    <3> QED
      BY <2>0, <3>2, BeforeTransfer DEF Owed
  <2> QED
    BY <2>1, <2>2
<1>3. CASE Select
  BY <1>0, <1>3, IdleType, BeforeTransfer DEF Select, Owed, Types, history
<1>4. CASE Demand
  <2> PICK x \in StationStates, notify \in BOOLEAN : x.active /\ Requests(x, notify)
    BY <1>4, DemandForm
  <2>1. Talks /\ sx' = [sx EXCEPT ![current] = x] /\ requested' = requested /\ ended' = ended
    BY DEF Requests
  <2> QED
    BY <1>0, <2>1, BeforeTransfer DEF Owed, Types
<1>5. CASE \E s \in Stations, kind \in Kinds : NewBuffer(s, kind)
  <2> PICK s \in Stations, kind \in Kinds : NewBuffer(s, kind)
    BY <1>5
  <2>1. PICK x \in StationStates : sx' = [sx EXCEPT ![s] = x] /\ s \in requested /\ x.active
    BY BufferForm
  <2>2. requested' = requested /\ ended' = ended /\ active' = active
    BY DEF NewBuffer
  <2> QED
    BY <2>1, <2>2 DEF Owed, Types
<1>6. CASE Advance
  BY <1>6 DEF Advance, Owed, counters, history
<1>7. CASE Skip \/ SendPacket
  <2>1. X \in StationStates /\ X.active
    BY <1>0, <1>7 DEF Skip, SendPacket, Delivers, Counts, Types, X
  <2>2. PICK x : sx' = [sx EXCEPT ![current] = x] /\ x.active
    <3>1. CASE Skip
      <4> DEFINE x == [X EXCEPT !.queue = Tail(Left), !.eod = Ends(X, Head(Left))]
      <4>1. sx' = [sx EXCEPT ![current] = x]
        BY <3>1 DEF Skip, X
      <4>2. x.active
        BY <2>1 DEF StationStates
      <4> HIDE DEF x
      <4> QED
        BY <4>1, <4>2
    <3>2. CASE SendPacket
      <4> DEFINE x == [X EXCEPT !.queue = Tail(Left)]
      <4>1. sx' = [sx EXCEPT ![current] = x]
        BY <3>2 DEF SendPacket, X
      <4>2. x.active
        BY <2>1 DEF StationStates
      <4> HIDE DEF x
      <4> QED
        BY <4>1, <4>2
    <3> QED
      BY <1>7, <3>1, <3>2
  <2>3. requested' = requested /\ ended' = ended /\ active' = active
    BY <1>7 DEF Skip, SendPacket, counters, history
  <2> QED
    BY <1>0, <2>2, <2>3 DEF Owed, Types
<1>8. CASE NothingLeft
  <2>1. X \in StationStates /\ X.active
    BY <1>0, <1>8 DEF NothingLeft, Delivers, Counts, Types, X
  <2> DEFINE x == [X EXCEPT !.queue = <<>>, !.ready = FALSE, !.active = ~StopsNow(X),
                            !.eod = StopsNow(X)]
  <2>2. sx' = [sx EXCEPT ![current] = x]
    BY <1>8 DEF NothingLeft, X
  <2>3. x.queue = <<>>
    BY <2>1 DEF StationStates
  <2> HIDE DEF x
  <2>4. requested' = requested /\ ended' = (ended \/ active' = 0)
    BY <1>8 DEF NothingLeft, AllDone
  <2>5. ~ended
    <3>1. current \in Active
      BY <1>0, <2>1 DEF Active, X
    <3> QED
      BY <3>1, Finite, FS_Subset, FS_EmptySet DEF Owed, Counts, Active
  <2>6. \A r \in Stations : sx'[r].active => r \in requested'
    BY <1>0, <2>2, <2>4 DEF Owed, Types
  <2>7. \A r \in Stations : ~sx'[r].active => sx'[r].queue = <<>>
    BY <1>0, <2>2, <2>3 DEF Owed, Types
  <2> QED
    BY <2>4, <2>5, <2>6, <2>7 DEF Owed
<1> QED
  BY <1>1, <1>2, <1>3, <1>4, <1>5, <1>6, <1>7, <1>8, Steps

\* Whoever has something to send waits for the socket.
LEMMA InterestStep == Types /\ Counts /\ Dialogue /\ Owed /\ Interest /\ Next => Interest'
<1> SUFFICES ASSUME Types, Counts, Dialogue, Owed, Interest, Next PROVE Interest'
  OBVIOUS
<1>0. None \notin {"reply", "pong", "next", "deliver"}
  BY ConstantAssumption
<1>1. ASSUME Talks, NoBuffers, Respond, done' = done, at' = at PROVE Interest'
  <2>1. ~done
    BY <1>1, BeforeTransfer
  <2>2. \/ response' = response /\ write' = write /\ write2' = write2
        \/ write' = TRUE /\ write2' = TRUE
    BY <1>1 DEF Respond, SetWrite, fds
  <2> QED
    BY <1>1, <2>1, <2>2 DEF Interest, NoBuffers, NoAnswers
<1>2. CASE Plain
  <2>1. CASE Ask \/ Batch \/ StationRefused
    BY <1>1, <2>1 DEF Ask, Batch, StationRefused
  <2>2. CASE EndHandshake
    BY <2>2 DEF EndHandshake, SetWrite2, Interest
  <2>3. CASE Ping
    BY <2>3 DEF Ping, SetWrite, Interest
  <2>4. CASE \E n \in 1..MaxAnswer : Cat(n) \/ Info(n)
    BY <2>4 DEF Cat, Info, SetWrite2, Interest
  <2>5. CASE Sync
    BY <2>5 DEF Sync, Interest, handshake, counters, answers, NoAnswers
  <2>6. CASE SendResponse \/ SendBuffer
    BY <2>6 DEF SendResponse, SendBuffer, Writable, Interest, fds
  <2>7. CASE NothingReady
    BY <2>7 DEF NothingReady, Writable, Interest, handshake, counters, answers, NoAnswers
  <2>8. CASE Round
    BY <2>8 DEF Round, Writable, Interest, answers, fds
  <2> QED
    BY <1>2, <2>1, <2>2, <2>3, <2>4, <2>5, <2>6, <2>7, <2>8 DEF Plain
<1>3. CASE (\E s \in Stations : Station(s)) \/ Select
  BY <1>1, <1>3 DEF Station, Select
<1>4. CASE Demand
  <2> PICK x \in StationStates, notify \in BOOLEAN : (~notify => ~x.ready) /\ Requests(x, notify)
    BY <1>4, DemandForm
  <2>0. Talks /\ NoBuffers /\ at' = at /\ done' = (done \/ ~multi)
    BY DEF Requests, Starts
  <2>1. CASE multi
    <3>1. Respond
      BY <2>1 DEF Requests
    <3>2. done' = done
      BY <2>0, <2>1 DEF Types
    <3> QED
      BY <1>1, <2>0, <3>1, <3>2
  <2>2. CASE ~multi
    <3>1. response' = response /\ IF notify THEN SetWrite2 ELSE UNCHANGED fds
      BY <2>2 DEF Requests
    <3>2. CASE notify
      BY <3>1, <3>2 DEF SetWrite2, Interest
    <3>3. CASE ~notify
      <4>1. ready = 0 /\ ~sx[current].ready
        BY <2>0, <2>2, NobodyYet DEF Types
      <4>2. One(sx[current].ready) = 0 /\ One(x.ready) = 0
        BY <3>3, <4>1 DEF One
      <4>3. ready' = ready - One(sx[current].ready) + One(x.ready)
        BY DEF Requests, OtherReady
      <4>4. ready' = 0
        BY <4>1, <4>2, <4>3
      <4> QED
        BY <2>0, <3>1, <3>3, <4>4 DEF Interest, NoBuffers, NoAnswers, fds
    <3> QED
      BY <3>2, <3>3
  <2> QED
    BY <2>1, <2>2
<1>5. CASE \E s \in Stations, kind \in Kinds : NewBuffer(s, kind)
  <2> PICK s \in Stations, kind \in Kinds : NewBuffer(s, kind)
    BY <1>5
  <2>1. write' = write /\ (write2 => write2') /\ (ready' = ready \/ write2')
    BY BufferForm
  <2>2. at' = at /\ at = None /\ UNCHANGED <<done, response, catalog, info>>
    BY DEF NewBuffer, handshake, answers
  <2> QED
    BY <2>1, <2>2 DEF Interest, NoAnswers
<1>6. CASE Advance \/ Skip \/ SendPacket \/ NothingLeft
  <2>1. at # None /\ write2' = write2 /\ UNCHANGED answers /\ (write' => write)
    BY <1>0, <1>6 DEF Advance, Skip, SendPacket, NothingLeft, fds
  <2> QED
    BY <2>1 DEF Interest, Dialogue, NoAnswers, answers
<1> QED
  BY <1>2, <1>3, <1>4, <1>5, <1>6, Steps

-----------------------------------------------------------------------------
(* The round robin.                                                           *)

LEMMA RingFacts ==
  ASSUME Types, NEW s \in requested
  PROVE  /\ IsFiniteSet(Between(s)) /\ IsFiniteSet(Passed(s))
         /\ s # current => s \notin Between(s) /\ current \in Between(s)
         /\ Cardinality(Between(s)) \in Nat /\ Cardinality(Passed(s)) \in Nat
         /\ Passed(s) \subseteq Between(s)
         /\ Cardinality(Passed(s)) <= Cardinality(Between(s))
         /\ s # current => Cardinality(Between(s)) < Cardinality(requested)
<1>0. /\ requested \in SUBSET Nat /\ current \in requested /\ IsFiniteSet(requested)
      /\ Cardinality(requested) \in Nat
  BY ConstantAssumption, Finite DEF Types
<1>1. Between(s) \in SUBSET requested /\ Passed(s) \in SUBSET requested /\ Passed(s) \in SUBSET Between(s)
  BY DEF Between, Passed
<1>2. IsFiniteSet(Between(s)) /\ IsFiniteSet(Passed(s))
  BY <1>0, <1>1, FS_Subset
<1>3. ASSUME s # current PROVE s \notin Between(s) /\ current \in Between(s)
  <2>1. s \in Nat /\ current \in Nat
    BY <1>0
  <2>2. CASE s < current
    BY <1>0, <2>1, <2>2 DEF Between
  <2>3. CASE ~(s < current)
    BY <1>0, <1>3, <2>1, <2>3 DEF Between
  <2> QED
    BY <2>2, <2>3
<1>4. Cardinality(Between(s)) \in Nat /\ Cardinality(Passed(s)) \in Nat
  BY <1>2, FS_CardinalityType
<1>5. Cardinality(Passed(s)) <= Cardinality(Between(s))
  BY <1>1, <1>2, FS_Subset
<1>6. ASSUME s # current PROVE Cardinality(Between(s)) < Cardinality(requested)
  <2>1. Cardinality(Between(s)) <= Cardinality(requested)
    BY <1>0, <1>1, FS_Subset
  <2>2. Cardinality(Between(s)) # Cardinality(requested)
    BY <1>0, <1>1, <1>3, <1>6, FS_Subset
  <2> QED
    BY <1>0, <1>4, <2>1, <2>2
<1> QED
  BY <1>1, <1>2, <1>3, <1>4, <1>5, <1>6

\* The round robin goes on: the next station is none of those it has passed.
LEMMA RingGoesOn ==
  ASSUME Types, NEW s \in requested, s # current, s # Following,
         requested' = requested, current' = Following
  PROVE  Between(s) \subseteq Between(s)' /\ Following \notin Between(s)
<1>0. requested \in SUBSET Nat /\ current \in requested /\ Following \in requested
  BY ConstantAssumption, FollowingIsNext DEF Types
<1>1. s \in Nat /\ current \in Nat /\ Following \in Nat
  BY <1>0
<1>2. CASE Following > current /\ \A r \in requested : r <= current \/ Following <= r
  <2>1. s < current \/ Following < s
    BY <1>1, <1>2
  <2>2. CASE s < current
    <3>1. Between(s) = {r \in requested : s < r /\ r <= current}
      BY <2>2 DEF Between
    <3>2. Between(s)' = {r \in requested : s < r /\ r <= Following}
      BY <1>1, <1>2, <2>2 DEF Between
    <3>3. \A r \in requested : r <= current => r <= Following
      BY <1>0, <1>1, <1>2
    <3>4. ~(Following <= current)
      BY <1>1, <1>2
    <3> QED
      BY <3>1, <3>2, <3>3, <3>4
  <2>3. CASE Following < s
    <3>1. Between(s) = {r \in requested : s < r \/ r <= current}
      BY <1>1, <1>2, <2>3 DEF Between
    <3>2. Between(s)' = {r \in requested : s < r \/ r <= Following}
      BY <1>1, <2>3 DEF Between
    <3>3. \A r \in requested : r <= current => r <= Following
      BY <1>0, <1>1, <1>2
    <3>4. ~(Following <= current) /\ ~(s < Following)
      BY <1>1, <1>2, <2>3
    <3> QED
      BY <3>1, <3>2, <3>3, <3>4
  <2> QED
    BY <2>1, <2>2, <2>3
<1>3. CASE Following <= current /\ \A r \in requested : r <= current /\ Following <= r
  <2>1. s < current /\ Following < s
    BY <1>1, <1>3
  <2>2. Between(s) = {r \in requested : s < r /\ r <= current}
    BY <2>1 DEF Between
  <2>3. Between(s)' = {r \in requested : s < r \/ r <= Following}
    BY <1>1, <2>1 DEF Between
  <2> QED
    BY <1>1, <2>1, <2>2, <2>3
<1> QED
  BY <1>2, <1>3, FollowingIsNext

\* Nobody has had a turn yet.
LEMMA RobinBegins ==
  ASSUME Types', turns' = [s \in Stations |-> 0]
  PROVE  Robin'
<1>1. requested' \in SUBSET Stations /\ requested' # {}
  BY DEF Types
<1>2. IsFiniteSet(requested')
  BY <1>1, ConstantAssumption, FS_Subset
<1>3. Cardinality(requested') \in Nat \ {0}
  BY <1>1, <1>2, FS_CardinalityType, FS_EmptySet
<1>4. \A s \in requested' : Cardinality(Passed(s)') \in Nat
  <2> SUFFICES ASSUME NEW s \in requested' PROVE Cardinality(Passed(s)') \in Nat
    OBVIOUS
  <2>1. Passed(s)' \in SUBSET requested'
    BY DEF Passed, Between
  <2> QED
    BY <1>2, <2>1, FS_Subset, FS_CardinalityType
<1> QED
  BY <1>1, <1>3, <1>4 DEF Robin

\* Steps in which no station is passed and only stations that get ready have their
\* turns counted anew.
LEMMA RobinKept ==
  ASSUME Types, Robin, requested' = requested, current' = current,
         at = None, at' \in {"next", None},
         \A r \in requested :
           \/ turns'[r] = turns[r] /\ (sx'[r].ready => sx[r].ready)
           \/ turns'[r] = 0
  PROVE  Robin'
<1>1. at # "deliver" /\ at' # "deliver"
  BY ConstantAssumption
<1>2. \A r \in requested : Passed(r)' = Passed(r)
  BY <1>1 DEF Passed, Between
<1>3. \A r \in requested : Cardinality(Passed(r)) \in Nat
  BY RingFacts
<1>4. Cardinality(requested) \in Nat \ {0}
  BY Finite
<1> QED
  BY <1>1, <1>2, <1>3, <1>4 DEF Robin

LEMMA RobinStep == Types /\ Counts /\ Delivers /\ Dialogue /\ Robin /\ Next /\ Types' => Robin'
<1> SUFFICES ASSUME Types, Counts, Delivers, Dialogue, Robin, Next, Types' PROVE Robin'
  OBVIOUS
<1>0. /\ None \notin {"reply", "pong", "next", "deliver"}
      /\ current \in requested /\ requested \subseteq Stations
  BY ConstantAssumption DEF Types
<1>1. CASE Plain
  BY <1>1, PlainKeeps, RobinKept DEF stations, history
<1>2. CASE (\E s \in Stations : Station(s)) \/ Select
  BY <1>2, BeforeTransfer, RobinBegins DEF Station, Select, history
<1>3. CASE Demand
  <2>1. Talks /\ turns' = [turns EXCEPT ![current] = 0]
    BY <1>3, DemandForm DEF Requests
  <2>2. turns' = [s \in Stations |-> 0]
    BY <2>1, BeforeTransfer
  <2> QED
    BY <2>2, RobinBegins
<1>4. CASE \E s \in Stations, kind \in Kinds : NewBuffer(s, kind)
  <2> PICK s \in Stations, kind \in Kinds : NewBuffer(s, kind)
    BY <1>4
  <2>1. PICK x \in StationStates :
          /\ sx' = [sx EXCEPT ![s] = x]
          /\ \/ turns' = turns /\ x.ready = sx[s].ready
             \/ turns' = [turns EXCEPT ![s] = 0]
    BY BufferForm
  <2>2. requested' = requested /\ current' = current /\ at = None /\ at' = None
    BY DEF NewBuffer
  <2>3. \A r \in requested :
           \/ turns'[r] = turns[r] /\ (sx'[r].ready => sx[r].ready)
           \/ turns'[r] = 0
    BY <1>0, <2>1 DEF Types
  <2> QED
    BY <2>2, <2>3, RobinKept
<1>5. CASE Advance
  <2>1. /\ at = "next" /\ sx' = sx /\ turns' = turns /\ requested' = requested
        /\ current' = Following
        /\ at' = IF sx[current'].ready THEN "deliver" ELSE Onward
    BY <1>5 DEF Advance, history
  <2>2. SUFFICES ASSUME NEW s \in requested
                 PROVE  /\ sx[s].ready /\ s # current' => turns[s] <= Cardinality(Passed(s)')
                        /\ sx[s].ready /\ s = current' /\ at' # "deliver" => turns[s] = 0
    BY <2>1 DEF Robin
  <2>3. ASSUME sx[s].ready, s = current' PROVE at' = "deliver"
    BY <2>1, <2>3
  <2>4. ASSUME sx[s].ready, s # current' PROVE turns[s] <= Cardinality(Passed(s)')
    <3>1. Passed(s)' \in SUBSET requested
      BY <2>1 DEF Passed, Between
    <3>2. IsFiniteSet(Passed(s)') /\ Cardinality(Passed(s)') \in Nat
      BY <3>1, Finite, FS_Subset, FS_CardinalityType
    <3>3. CASE s = current
      BY <2>1, <2>4, <3>2, <3>3 DEF Robin
    <3>4. CASE s # current
      <4>1. turns[s] <= Cardinality(Passed(s))
        BY <2>4, <3>4 DEF Robin
      <4>2. Passed(s) \subseteq Between(s) /\ Cardinality(Passed(s)) \in Nat
        BY RingFacts
      <4>3. Between(s) \subseteq Between(s)' /\ Following \notin Between(s)
        BY <2>1, <2>4, <3>4, RingGoesOn
      <4>4. Passed(s) \in SUBSET Passed(s)'
        BY <2>1, <4>2, <4>3 DEF Passed
      <4>5. Cardinality(Passed(s)) <= Cardinality(Passed(s)')
        BY <3>2, <4>4, FS_Subset
      <4>6. turns[s] \in Nat
        BY <1>0 DEF Types
      <4> QED
        BY <3>2, <4>1, <4>2, <4>5, <4>6
    <3> QED
      BY <3>3, <3>4
  <2> QED
    BY <2>3, <2>4
<1>6. CASE Skip
  <2>1. /\ at' = at /\ current' = current /\ requested' = requested /\ turns' = turns
        /\ sx' = [sx EXCEPT ![current] = [X EXCEPT !.queue = Tail(Left), !.eod = Ends(X, Head(Left))]]
        /\ at = "deliver"
    BY <1>6 DEF Skip, X, history
  <2>2. \A r \in requested : r # current => sx'[r] = sx[r]
    BY <1>0, <2>1 DEF Types
  <2>3. \A r \in requested : Passed(r)' = Passed(r)
    BY <2>1 DEF Passed, Between
  <2> QED
    BY <2>1, <2>2, <2>3 DEF Robin
<1>7. CASE SendPacket
  <2>1. /\ at = "deliver" /\ at' = None /\ current' = current /\ requested' = requested
        /\ sx' = [sx EXCEPT ![current] = [X EXCEPT !.queue = Tail(Left)]]
        /\ turns' = [r \in Stations |->
             IF r # current /\ r \in requested /\ sx[r].ready THEN turns[r] + 1 ELSE 0]
    BY <1>7 DEF SendPacket, X
  <2>2. Cardinality(requested) \in Nat \ {0}
    BY Finite
  <2>3. SUFFICES ASSUME NEW s \in requested
                 PROVE  /\ turns'[s] < Cardinality(requested)
                        /\ sx'[s].ready /\ s # current => turns'[s] <= Cardinality(Passed(s)')
                        /\ sx'[s].ready /\ s = current => turns'[s] = 0
    BY <2>1 DEF Robin
  <2>4. Passed(s)' = Between(s)
    BY <1>0, <2>1 DEF Passed, Between
  <2>5. Cardinality(Between(s)) \in Nat /\ (s # current => Cardinality(Between(s)) < Cardinality(requested))
    BY RingFacts
  <2>6. CASE s # current /\ sx[s].ready
    <3>1. turns'[s] = turns[s] + 1 /\ turns[s] \in Nat
      BY <1>0, <2>1, <2>6 DEF Types
    <3>2. turns[s] <= Cardinality(Passed(s))
      BY <2>6 DEF Robin
    <3>3. Passed(s) = Between(s) \ {current} /\ current \in Between(s) /\ IsFiniteSet(Between(s))
      BY <2>1, <2>6, RingFacts DEF Passed
    <3>4. Cardinality(Passed(s)) = Cardinality(Between(s)) - 1
      BY <3>3, FS_RemoveElement
    <3> QED
      BY <2>2, <2>4, <2>5, <2>6, <3>1, <3>2, <3>4
  <2>7. CASE ~(s # current /\ sx[s].ready)
    <3>1. turns'[s] = 0
      BY <1>0, <2>1, <2>7
    <3> QED
      BY <2>2, <2>4, <2>5, <3>1
  <2> QED
    BY <2>6, <2>7
<1>8. CASE NothingLeft
  <2> DEFINE x == [X EXCEPT !.queue = <<>>, !.ready = FALSE, !.active = ~StopsNow(X), !.eod = StopsNow(X)]
  <2>1. /\ at = "deliver" /\ at' # "deliver" /\ current' = current /\ requested' = requested
        /\ turns' = turns /\ sx' = [sx EXCEPT ![current] = x]
    BY <1>0, <1>8 DEF NothingLeft, X, Onward
  <2>2. X \in StationStates
    BY <1>0 DEF Types, X
  <2>3. ~x.ready
    BY <2>2 DEF StationStates
  <2>4. ~sx'[current].ready /\ \A r \in requested : r # current => sx'[r] = sx[r]
    <3> HIDE DEF x
    <3> QED
      BY <1>0, <2>1, <2>3 DEF Types
  <2>5. SUFFICES ASSUME NEW s \in requested, sx[s].ready, s # current
                 PROVE  turns[s] <= Cardinality(Passed(s)')
    BY <2>1, <2>4 DEF Robin
  <2>6. turns[s] <= Cardinality(Passed(s)) /\ turns[s] \in Nat
    BY <1>0, <2>5 DEF Robin, Types
  <2>7. Passed(s)' = Between(s)
    BY <2>1 DEF Passed, Between
  <2> QED
    BY <2>6, <2>7, RingFacts
<1> QED
  BY <1>1, <1>2, <1>3, <1>4, <1>5, <1>6, <1>7, <1>8, Steps

-----------------------------------------------------------------------------
(* The theorems.                                                              *)

\* A new connection.
LEMMA InitInvariant == Init => IInv
<1> SUFFICES ASSUME Init PROVE IInv
  OBVIOUS
<1> USE ConstantAssumption DEF Init
<1>1. requested = {Default} /\ current = Default /\ \A s \in Stations : sx[s] = Idle
  OBVIOUS
<1>2. Types
  <2>1. /\ multi \in BOOLEAN /\ batch \in BOOLEAN /\ done \in BOOLEAN /\ invalid \in BOOLEAN
        /\ write \in BOOLEAN /\ write2 \in BOOLEAN /\ ended \in BOOLEAN
    OBVIOUS
  <2>2. sx \in [Stations -> StationStates] /\ turns \in [Stations -> Nat]
    BY IdleType
  <2>3. /\ catalog \in 0..MaxAnswer /\ info \in 0..MaxAnswer
        /\ arrived \in 0..MaxPackets /\ pings \in 0..MaxPings /\ infos \in 0..MaxInfos
    OBVIOUS
  <2> QED
    BY <1>1, <2>1, <2>2, <2>3 DEF Types
<1>3. Active = {} /\ Ready = {}
  BY <1>1, IdleType DEF Active, Ready
<1>4. Counts
  BY <1>1, <1>3, IdleType, FS_EmptySet DEF Counts
<1>5. Delivers /\ Owed /\ Interest
  BY <1>1, IdleType DEF Delivers, Owed, Interest, NoAnswers
<1>6. Dialogue
  BY <1>1, IdleType DEF Dialogue
<1>7. Robin
  BY <1>1, <1>2, IdleType, Finite DEF Robin
<1> QED
  BY <1>2, <1>4, <1>5, <1>6, <1>7 DEF IInv

LEMMA Unchanged == IInv /\ UNCHANGED vars => IInv'
<1> SUFFICES ASSUME IInv, UNCHANGED vars PROVE IInv'
  OBVIOUS
<1> USE DEF IInv, vars, handshake, counters, stations, answers, fds, history, bounds
<1>1. Types'
  BY DEF Types
<1>2. Counts' /\ Delivers'
  BY DEF Counts, Active, Ready, Delivers, X
<1>3. Dialogue' /\ Owed' /\ Interest'
  BY DEF Dialogue, Owed, Interest, NoAnswers
<1>4. \A s \in requested : Passed(s)' = Passed(s)
  BY DEF Passed, Between
<1>5. Robin'
  BY <1>4 DEF Robin
<1> QED
  BY <1>1, <1>2, <1>3, <1>5

\* The inductive invariant holds in every reachable state.
THEOREM Invariance == Spec => []IInv
<1>1. IInv /\ [Next]_vars => IInv'
  BY TypesStep, CountsStep, DialogueStep, OwedStep, InterestStep, RobinStep, Unchanged DEF IInv
<1> QED
  BY <1>1, InitInvariant, PTL DEF Spec

\* stations_active and stations_ready, which Connection and all its StationIO objects
\* increment and decrement, are the numbers of the active and of the ready stations,
\* for any number of stations: deliver() looks for a station only when there is one.
THEOREM CountersAreExact == Spec => []CountersExact
<1>1. IInv => CountersExact
  BY Finite DEF IInv, Types, Counts, Delivers, CountersExact, TypeOK, Active, Ready
<1> QED
  BY <1>1, Invariance, PTL

\* Whenever a response, an answer to INFO or CAT or a packet can be sent, the socket is
\* in write_set2 and the next loop of the server selects it, whatever the order of
\* packets, commands and deliver().
THEOREM SocketIsWatched == Spec => []Watched
<1>1. IInv => Watched
  BY DEF IInv, Interest, Watched
<1> QED
  BY <1>1, Invariance, PTL

\* Round robin in deliver(): while a station is ready every other one gets at most one
\* packet through before it, for any number of stations.
THEOREM SharesAreFair == Spec => []FairShare
<1>1. IInv => FairShare
  BY DEF IInv, Robin, FairShare
<1> QED
  BY <1>1, Invariance, PTL

\* After END no station has a request or a packet.
Exhausted == ended => \A s \in requested : ~sx[s].active /\ sx[s].queue = <<>>

LEMMA EndExhausts == IInv => Exhausted
<1> SUFFICES ASSUME IInv, ended, NEW s \in requested PROVE ~sx[s].active /\ sx[s].queue = <<>>
  BY DEF Exhausted
<1>1. Active \in SUBSET requested /\ IsFiniteSet(requested)
  BY Finite DEF IInv, Active
<1>2. IsFiniteSet(Active) /\ Cardinality(Active) = 0
  BY <1>1, FS_Subset DEF IInv, Owed, Counts
<1>3. Active = {}
  BY <1>2, FS_EmptySet
<1> QED
  BY <1>3 DEF IInv, Owed, Types, Active

LEMMA EndStep ==
  ASSUME IInv, [Next]_vars
  PROVE  /\ ended' # ended => ended' /\ requested' = requested
         /\ ended => sent' = sent
<1>1. CASE Plain
  BY <1>1, PlainKeeps DEF history
<1>2. CASE (\E s \in Stations : Station(s)) \/ Select
  BY <1>2 DEF Station, Select, history
<1>3. CASE Demand
  BY <1>3, DemandForm DEF Requests
<1>4. CASE \E s \in Stations, kind \in Kinds : NewBuffer(s, kind)
  BY <1>4 DEF NewBuffer
<1>5. CASE Advance \/ Skip
  BY <1>5 DEF Advance, Skip, history
<1>6. CASE SendPacket
  <2>1. X.active /\ current \in requested
    BY <1>6 DEF SendPacket, IInv, Delivers, Counts, Types, X
  <2> QED
    BY <1>6, <2>1, EndExhausts DEF SendPacket, Exhausted, X
<1>7. CASE NothingLeft
  BY <1>7 DEF NothingLeft, IInv, Types
<1>8. CASE UNCHANGED vars
  BY <1>8 DEF vars, history, stations
<1> QED
  BY <1>1, <1>2, <1>3, <1>4, <1>5, <1>6, <1>7, <1>8, Steps

\* "appends ASCII string END to the last packet" (descriptions/seedlink.rst): deliver()
\* sends END when no station has a request left and all have got what was stored for
\* them, and it sends no packet after END.
THEOREM EndIsSentLast == Spec => EndIsLast
<1> DEFINE Step == /\ ended' # ended =>
                        \A s \in requested : ~sx'[s].active /\ sx'[s].queue = <<>>
                   /\ ended => sent' = sent
<1>1. IInv /\ Exhausted' /\ [Next]_vars => Step
  BY EndStep DEF Exhausted
<1>2. EndIsLast <=> [][Step]_vars
  BY DEF EndIsLast
<1> QED
  BY <1>1, <1>2, EndExhausts, Invariance, PTL DEF Spec
=============================================================================
