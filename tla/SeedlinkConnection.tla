------------------------- MODULE SeedlinkConnection -------------------------
(***************************************************************************)
(* One connection of the SeedLink server                                   *)
(* (seedlink/apps/seedlink/iosystem.cc): the handshake in uni-station,     *)
(* multi-station and batch mode (Connection, StationIO::request), the      *)
(* counters of active and ready stations that the stations of a connection *)
(* share (ConnectionState), the round robin over the stations, and the     *)
(* interest in the socket (Fdset).                                         *)
(*                                                                         *)
(* Memory and disk of a station are SeedlinkStation's subject; here a      *)
(* station has a queue of the packets that the client has still to get.    *)
(* The server is one thread.  A round of delivery takes several steps      *)
(* here, and nothing else happens meanwhile.                               *)
(***************************************************************************)
EXTENDS Integers, Sequences, FiniteSets

CONSTANTS Stations,   \* the stations, numbered in the order of their keys
          Default,    \* default_station
          Backlogs,   \* what the store may hold from the requested packet on
          WebSocket,  \* whether the client may send pings
          MaxPackets, \* bound: packets that arrive during the connection
          MaxPings,   \* bound: pings
          MaxInfos,   \* bound: INFO requests during the transfer
          MaxAnswer,  \* bound: buffers an INFO or CAT answer takes
          None

\* A packet that the client has not selected, one that it has, and one that is the
\* first behind the end of its time window.
Kinds == {"out", "in", "late"}

ASSUME ConstantAssumption ==
  /\ Stations \subseteq Nat /\ IsFiniteSet(Stations) /\ Default \in Stations
  /\ Backlogs \subseteq Seq(Kinds) /\ WebSocket \in BOOLEAN
  /\ MaxPackets \in Nat /\ MaxPings \in Nat /\ MaxInfos \in Nat /\ MaxAnswer \in Nat \ {0}
  /\ None \notin {"reply", "pong", "next", "deliver"}

VARIABLES
  multi,      \* STATION has been used
  batch,      \* batchmode
  done,       \* handshaking_done
  invalid,    \* the last STATION was refused
  response,   \* response_str, None without have_response
  active,     \* stations_active
  ready,      \* stations_ready
  requested,  \* requested_stations
  current,    \* current_station
  sx,         \* sx[s]: the StationConnectionState of station s
  catalog,    \* msg_bufs: how many are left
  info,       \* info_bufs: how many are left
  write,      \* the socket is in write_set
  write2,     \* the socket is in write_set2
  at,         \* where deliver() is, None outside of its loop
  client,     \* "talking", "waiting" for a response, or in "transfer"
  ended,      \* history: END has been sent
  sent,       \* history: packets sent
  turns,      \* history: packets of others since s became ready or had its turn
  arrived, pings, infos

handshake == <<multi, batch, done, invalid, client>>
counters  == <<active, ready>>
stations  == <<requested, current, sx>>
answers   == <<response, catalog, info>>
fds       == <<write, write2>>
history   == <<ended, sent, turns>>
bounds    == <<arrived, pings, infos>>
vars == <<handshake, counters, stations, answers, fds, at, history, bounds>>

\* A StationConnectionState after its constructor.
Idle == [queue |-> <<>>, active |-> FALSE, ready |-> FALSE, realtime |-> TRUE,
         window |-> FALSE, eod |-> FALSE]

Init ==
  /\ multi = FALSE /\ batch = FALSE /\ done = FALSE /\ invalid = FALSE
  /\ client = "talking"
  /\ active = 0 /\ ready = 0
  /\ requested = {Default} /\ current = Default
  /\ sx = [s \in Stations |-> Idle]
  /\ response = None /\ catalog = 0 /\ info = 0
  /\ write = FALSE /\ write2 = FALSE /\ at = None
  /\ ended = FALSE /\ sent = 0 /\ turns = [s \in Stations |-> 0]
  /\ arrived = 0 /\ pings = 0 /\ infos = 0

One(b) == IF b THEN 1 ELSE 0
-----------------------------------------------------------------------------
\* Commands.  As seedlink.rst asks, a client sends one when it has the answer to the
\* last one and none but INFO once the transfer has begun; BATCH frees it from waiting.

Talks == client = "talking" /\ at = None

\* Connection::request() drops the rest of earlier answers.
NoBuffers == catalog' = 0 /\ info' = 0

\* set_write() and set_write2(); for comparison nobody asks for the socket.
Unseen == UNCHANGED fds
SetWrite  == write' = TRUE /\ write2' = TRUE
SetWrite2 == write2' = TRUE /\ UNCHANGED write

\* response(): nothing is answered in batch mode.
Respond ==
  IF batch THEN UNCHANGED <<response, fds, client>>
  ELSE response' = "reply" /\ client' = "waiting" /\ SetWrite

\* SELECT, TIME, DATA and FETCH drop what was requested before for the station:
\* the counters without it.
OtherActive(s) == active - One(sx[s].active)
OtherReady(s)  == ready - One(sx[s].ready)

\* HELLO, an unknown command, or one for a station that does not exist; BATCH.
Ask ==
  /\ Talks
  /\ Respond
  /\ NoBuffers
  /\ UNCHANGED <<multi, batch, done, invalid, counters, stations, at, history, bounds>>

Batch ==
  /\ Talks
  /\ Respond
  /\ NoBuffers
  /\ batch' = TRUE
  /\ UNCHANGED <<multi, done, invalid, counters, stations, at, history, bounds>>

\* STATION: the first one replaces the default station.
Station(s) ==
  /\ Talks
  /\ Respond
  /\ NoBuffers
  /\ ready' = ready - One(~multi /\ sx[current].ready)
  /\ requested' = (IF multi THEN requested ELSE requested \ {current}) \cup {s}
  /\ sx' = IF multi THEN sx ELSE [sx EXCEPT ![current] = Idle]
  /\ current' = s
  /\ multi' = TRUE /\ invalid' = FALSE
  /\ UNCHANGED <<batch, done, active, at, history, bounds>>

StationRefused ==
  /\ Talks
  /\ Respond
  /\ NoBuffers
  /\ invalid' = TRUE
  /\ UNCHANGED <<multi, batch, done, counters, stations, at, history, bounds>>

\* SELECT, or one of TIME, DATA and FETCH with an argument that is refused.
Select ==
  /\ Talks /\ ~invalid
  /\ Respond
  /\ NoBuffers
  /\ sx' = [sx EXCEPT ![current] = Idle]
  /\ active' = OtherActive(current) /\ ready' = OtherReady(current)
  /\ UNCHANGED <<multi, batch, done, invalid, requested, current, at, history, bounds>>

\* The transfer begins with DATA in uni-station mode, where it is not answered.
Starts == ~multi

\* The station is set to x; notify tells whether the socket is asked for at once.
Requests(x, notify) ==
  /\ Talks /\ ~invalid
  /\ NoBuffers
  /\ sx' = [sx EXCEPT ![current] = x]
  /\ active' = OtherActive(current) + 1
  /\ ready' = OtherReady(current) + One(x.ready)
  /\ turns' = [turns EXCEPT ![current] = 0]
  /\ done' = (done \/ Starts)
  /\ IF multi
       THEN Respond
       ELSE /\ client' = "transfer"
            /\ IF notify THEN SetWrite2 ELSE UNCHANGED fds
            /\ UNCHANGED response
  /\ UNCHANGED <<multi, batch, invalid, requested, current, at, ended, sent, bounds>>

\* DATA or FETCH from the next packet on.
RequestNext(realtime) ==
  Requests([Idle EXCEPT !.active = TRUE, !.realtime = realtime], FALSE)

\* DATA or FETCH from a number on, also with a begin time, or from the oldest packet;
\* the station is ready unless the number is too far off.
RequestFrom(realtime, backlog, found) ==
  /\ backlog # <<>> => found
  /\ Requests([Idle EXCEPT !.active = TRUE, !.realtime = realtime, !.queue = backlog,
                           !.ready = found], TRUE)

\* TIME, with the end of the window ahead or, eod, behind the stored packets.
RequestWindow(backlog, window, eod) ==
  /\ eod => window
  /\ Requests([Idle EXCEPT !.active = TRUE, !.queue = IF eod THEN <<>> ELSE backlog,
                           !.ready = TRUE, !.window = window, !.eod = eod], TRUE)

EndHandshake ==
  /\ Talks
  /\ NoBuffers
  /\ done' = TRUE /\ batch' = FALSE /\ client' = "transfer"
  /\ SetWrite2
  /\ UNCHANGED <<multi, invalid, counters, stations, response, at, history, bounds>>

\* CAT in the handshake and INFO at any time are answered in buffers.
Cat(n) ==
  /\ Talks
  /\ catalog' = n /\ info' = 0
  /\ SetWrite2
  /\ UNCHANGED <<handshake, counters, stations, response, at, history, bounds>>
Info(n) ==
  /\ client # "waiting" /\ at = None
  /\ client = "transfer" => infos < MaxInfos
  /\ infos' = infos + One(client = "transfer")
  /\ info' = n /\ catalog' = 0
  /\ SetWrite2
  /\ UNCHANGED <<handshake, counters, stations, response, at, history, arrived, pings>>

\* input_ws(): a ping is answered at any time, in place of a response that waits.
Ping ==
  /\ WebSocket /\ at = None
  /\ pings < MaxPings
  /\ pings' = pings + 1
  /\ response' = "pong"
  /\ SetWrite
  /\ UNCHANGED <<handshake, counters, stations, catalog, info, at, history, arrived,
                 infos>>
-----------------------------------------------------------------------------
\* match_packet(), and whether it ends the time window.
Ends(x, kind) == x.window /\ ~x.eod /\ kind = "late"
Matches(x, kind) == kind # "out" /\ ~Ends(x, kind)

\* StationIO::new_buffer() for this connection: a station that waits for a packet
\* takes the first one that matches and all that follow, and is marked for
\* delivery; for comparison counted once more with every packet.
MarkedAgain(x) == TRUE
MarkedOnce(x)  == ~x.ready
NewBuffer(s, kind) ==
  LET x == sx[s]
      takes == x.queue # <<>> \/ Matches(x, kind)
      marks == takes /\ done
  IN
  /\ at = None /\ arrived < MaxPackets
  /\ arrived' = arrived + 1
  /\ s \in requested /\ x.active
  /\ sx' = [sx EXCEPT ![s] =
       [x EXCEPT !.queue = IF takes THEN Append(@, kind) ELSE @,
                 !.eod = @ \/ (x.queue = <<>> /\ Ends(x, kind)),
                 !.ready = @ \/ marks]]
  /\ ready' = ready + One(marks /\ MarkedOnce(x))
  /\ turns' = IF marks /\ ~x.ready THEN [turns EXCEPT ![s] = 0] ELSE turns
  /\ IF marks THEN SetWrite2 ELSE UNCHANGED fds
  /\ UNCHANGED <<handshake, active, requested, current, answers, at, ended, sent, pings,
                 infos>>
-----------------------------------------------------------------------------
\* Connection::deliver(), when the socket can be written.

Sync ==
  /\ at = None
  /\ write' = write2
  /\ UNCHANGED <<handshake, counters, stations, answers, write2, at, history, bounds>>

Writable == write /\ at = None

SendResponse ==
  /\ Writable /\ response # None
  /\ response' = None
  /\ done' = FALSE
  /\ client' = IF response = "reply" THEN "talking" ELSE client
  /\ UNCHANGED <<multi, batch, invalid, counters, stations, catalog, info, fds, at, history,
                 bounds>>

SendBuffer ==
  /\ Writable /\ response = None
  /\ \/ catalog > 0 /\ catalog' = catalog - 1 /\ UNCHANGED info
     \/ catalog = 0 /\ info > 0 /\ info' = info - 1 /\ UNCHANGED catalog
  /\ UNCHANGED <<handshake, counters, stations, response, fds, at, history, bounds>>

NoAnswers == response = None /\ catalog = 0 /\ info = 0

NothingReady ==
  /\ Writable /\ NoAnswers
  /\ ~done \/ ready = 0
  /\ write' = FALSE /\ write2' = FALSE
  /\ UNCHANGED <<handshake, counters, stations, answers, at, history, bounds>>

Round ==
  /\ Writable /\ NoAnswers
  /\ done /\ ready # 0
  /\ at' = "next"
  /\ UNCHANGED <<handshake, counters, stations, answers, fds, history, bounds>>

\* The next station in the order of the keys; for comparison always the first.
FirstStation == CHOOSE s \in requested : \A r \in requested : s <= r
Following ==
  LET later == {s \in requested : s > current}
  IN  IF later = {} THEN FirstStation
      ELSE CHOOSE s \in later : \A r \in later : s <= r

\* The loop goes on to the next station while this one is not ready and some is.
Onward == IF ready' > 0 THEN "next" ELSE None
Advance ==
  /\ at = "next"
  /\ UNCHANGED <<handshake, counters, requested, sx, answers, fds, history, bounds>>
  /\ current' = Following
  /\ at' = IF sx[current'].ready THEN "deliver" ELSE Onward

\* do_deliver() for the current station.
X == sx[current]
Left == IF X.eod THEN <<>> ELSE X.queue

Skip ==
  /\ at = "deliver" /\ Left # <<>> /\ ~Matches(X, Head(Left))
  /\ sx' = [sx EXCEPT ![current] =
       [@ EXCEPT !.queue = Tail(Left), !.eod = Ends(X, Head(Left))]]
  /\ UNCHANGED <<handshake, counters, requested, current, answers, fds, at, history, bounds>>

SendPacket ==
  /\ at = "deliver" /\ Left # <<>> /\ Matches(X, Head(Left))
  /\ sx' = [sx EXCEPT ![current].queue = Tail(Left)]
  /\ at' = None
  /\ write' = FALSE
  /\ sent' = sent + 1
  /\ turns' = [s \in Stations |->
       IF s # current /\ s \in requested /\ sx[s].ready THEN turns[s] + 1 ELSE 0]
  /\ UNCHANGED <<handshake, counters, requested, current, answers, write2, ended, bounds>>

\* The station has nothing left: in dial-up mode, and at the end of a time window,
\* it is done with, and after the last one END is sent; for comparison only at the
\* end of a window, and END once no other station is ready.
OnlyWindows(x) == x.eod
StopsNow(x)    == x.eod \/ ~x.realtime
NoneReady == ready' = 0
AllDone   == active' = 0
NothingLeft ==
  /\ at = "deliver" /\ Left = <<>>
  /\ ready' = ready - 1
  /\ active' = active - One(StopsNow(X))
  /\ sx' = [sx EXCEPT ![current] =
       [@ EXCEPT !.queue = <<>>, !.ready = FALSE, !.active = ~StopsNow(X),
                 !.eod = StopsNow(X)]]
  /\ ended' = (ended \/ AllDone)
  /\ at' = Onward
  /\ UNCHANGED <<handshake, requested, current, answers, fds, sent, turns, bounds>>
-----------------------------------------------------------------------------
Command ==
  \/ Ask \/ Batch \/ StationRefused \/ Select \/ EndHandshake \/ Ping
  \/ \E s \in Stations : Station(s)
  \/ \E n \in 1..MaxAnswer : Cat(n) \/ Info(n)
  \/ \E realtime \in BOOLEAN : RequestNext(realtime)
  \/ \E b \in Backlogs, realtime, found \in BOOLEAN : RequestFrom(realtime, b, found)
  \/ \E b \in Backlogs, window, eod \in BOOLEAN : RequestWindow(b, window, eod)

Deliver ==
  \/ SendResponse \/ SendBuffer \/ NothingReady \/ Round
  \/ Advance \/ Skip \/ SendPacket \/ NothingLeft

Next ==
  \/ Command \/ Sync \/ Deliver
  \/ \E s \in Stations, kind \in Kinds : NewBuffer(s, kind)

\* The server's loop copies the sets and serves every socket that can be written.
Spec == Init /\ [][Next]_vars /\ WF_vars(Sync) /\ WF_vars(Deliver)
-----------------------------------------------------------------------------
StationStates ==
  [queue : Seq(Kinds), active : BOOLEAN, ready : BOOLEAN, realtime : BOOLEAN,
   window : BOOLEAN, eod : BOOLEAN]

TypeOK ==
  /\ multi \in BOOLEAN /\ batch \in BOOLEAN /\ done \in BOOLEAN /\ invalid \in BOOLEAN
  /\ client \in {"talking", "waiting", "transfer"}
  /\ requested \subseteq Stations /\ current \in requested
  /\ active \in 0..Cardinality(requested) /\ ready \in 0..Cardinality(requested)
  /\ sx \in [Stations -> StationStates]
  /\ response \in {"reply", "pong", None}
  /\ catalog \in 0..MaxAnswer /\ info \in 0..MaxAnswer
  /\ write \in BOOLEAN /\ write2 \in BOOLEAN /\ at \in {"next", "deliver", None}
  /\ ended \in BOOLEAN /\ sent \in Nat /\ turns \in [Stations -> Nat]
  /\ arrived \in 0..MaxPackets /\ pings \in 0..MaxPings /\ infos \in 0..MaxInfos

\* Every variable has its type, and the two counters that all stations of the
\* connection maintain are the numbers of its active and of its ready stations.  The loop in Connection::deliver() ends
\* for no other reason: "internal_check(++loop < 10000)" (iosystem.cc:2452).
CountersExact ==
  /\ TypeOK
  /\ active = Cardinality({s \in requested : sx[s].active})
  /\ ready = Cardinality({s \in requested : sx[s].ready})
  /\ \A s \in Stations : sx[s].ready => sx[s].active /\ s \in requested
  /\ at = "deliver" => X.ready

\* Whenever there is something to send, the server waits for the socket, although
\* deliver() gives it up when no station is ready and packets, commands and the
\* end of the handshake come in any order.
Watched ==
  /\ response # None => write
  /\ at = None /\ (~NoAnswers \/ (done /\ ready > 0)) => write2

\* "appends ASCII string END to the last packet" (descriptions/seedlink.rst): END is
\* sent when every station has got all that was stored for it and no real-time
\* station is left, and no packet is sent after it.
EndIsLast ==
  [][/\ ended' # ended =>
          \A s \in requested : ~sx'[s].active /\ sx'[s].queue = <<>>
     /\ ended => sent' = sent]_vars

\* Round robin: while a station is ready, every other station gets at most one
\* packet through before it.
FairShare == \A s \in requested : turns[s] < Cardinality(requested)

\* "sooner or later the server has sent all data available to the client. When this
\* happens, depending on the SeedLink mode, the server sends new data as soon as it
\* arrives or appends ASCII string END" (descriptions/seedlink.rst): a client in
\* dial-up mode gets END, here if it sends no ping.
DialUp ==
  /\ client = "transfer" /\ active > 0
  /\ \A s \in requested : sx[s].active => sx[s].ready /\ ~sx[s].realtime
DialUpEnds == (DialUp /\ pings = 0) ~> (ended \/ pings > 0)

\* The same without the exception.
EndComes == DialUp ~> ended
=============================================================================
