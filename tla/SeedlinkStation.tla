--------------------------- MODULE SeedlinkStation ---------------------------
(***************************************************************************)
(* One station of the SeedLink server (seedlink/apps/seedlink/iosystem.cc):*)
(* the ring of recent packets in memory (BufferStoreImpl), the segment     *)
(* files on disk (FileStore), and the cursor every client has into the two *)
(* (StationConnectionState), which the server moves whenever a packet is   *)
(* stored, recycled or deleted under it (StationIO).                       *)
(*                                                                         *)
(* The server is one thread.  A packet carries its absolute number and its *)
(* place in the history; the code and the clients see a sequence number,   *)
(* which is counted modulo Mod (Sequence::mask + 1).                       *)
(***************************************************************************)
EXTENDS Integers, Sequences, FiniteSets

CONSTANTS Clients,     \* clients, each with one connection to the station
          Buffers,     \* "buffers": packets kept in memory
          MaxBuffers,  \* what the stream processors enlarge the memory to
          Streams,     \* records that may be under construction at a time
          SegmentSize, \* "segsize": packets in a segment file
          Segments,    \* "segments": segment files
          Modes,       \* the modes clients request data in
          Blanks,      \* "blanks": empty packets inserted after a crash
          GapLimit,    \* "seq_gap_limit"
          Mod,         \* Sequence::mask + 1
          Start,       \* the number of the first packet: 0, or what earlier runs left
          GrowsFull,   \* whether the memory may be enlarged when it is full
          MaxPackets,  \* bound: packets stored
          MaxStops,    \* bound: times the server ends
          MaxLost,     \* bound: last packets that a crash takes off the disk
          None

ASSUME ConstantAssumption ==
  /\ Buffers \in Nat \ {0} /\ MaxBuffers \in Nat /\ MaxBuffers >= Buffers
  /\ Streams \in Nat \ {0} /\ 3 * Streams <= Buffers  \* get_plugin_sproc()
  /\ SegmentSize \in Nat \ {0} /\ Segments \in Nat /\ Segments >= 2
  /\ Mod \in Nat /\ Mod > MaxBuffers + Segments * SegmentSize
  /\ Modes \subseteq [realtime : BOOLEAN, multi : BOOLEAN, selective : BOOLEAN]
  /\ Start \in Nat /\ Blanks \in Nat /\ GapLimit \in Nat /\ GrowsFull \in BOOLEAN
  /\ MaxPackets \in Nat /\ MaxStops \in Nat /\ MaxLost \in Nat
  /\ None \notin Nat

VARIABLES
  order,    \* the linked list of buffers, from buf_head on
  buffer,   \* buffer[b]: the packet in buffer b and its Sequence, None if there is none
  first,    \* buf_first
  free,     \* buf_free
  held,     \* the buffers handed out by get_buffer()
  seq,      \* BufferStoreImpl::seq, the sequence number of the next packet
  files,    \* the segment files, oldest first
  seqLong,  \* StationIO::seq_long, the absolute number of the next packet
  phase,    \* "up", "recovering" or "down"
  blanks,   \* empty packets that recovery has still to create
  saved,    \* buffer.xml exists
  aborted,  \* an internal_check() has failed
  sx,       \* sx[c]: the StationConnectionState of client c
  serving,  \* the client whose deliver() is between two rounds of do_deliver()
  serial,   \* history: packets ever stored
  last,     \* history: the last packet that client c has received
  from,     \* history: the number from which client c is to be served, 0 once it is
  early,    \* history: clients that wait since before END for another packet
  stops

memory  == <<order, buffer, first, free, held, seq>>
disk    == <<files, seqLong, serial>>
server  == <<phase, blanks, saved, aborted, stops>>
history == <<last, from>>
vars == <<memory, disk, server, sx, serving, history, early>>

\* A client that has requested nothing.  fd is the offset of the open file in
\* packets, None if no file is open.
Idle ==
  [on |-> FALSE, queue |-> None, file |-> None, fd |-> None, seq |-> None,
   active |-> FALSE, ready |-> FALSE, realtime |-> TRUE, done |-> FALSE,
   multi |-> FALSE, selective |-> FALSE]

Init ==
  /\ order = [i \in 1..Buffers |-> i]
  /\ buffer = [b \in 1..MaxBuffers |-> None]
  /\ first = None /\ free = 1 /\ held = {} /\ seq = Start % Mod
  /\ files = IF Start = 0 THEN <<>>
             ELSE <<[name |-> Start, seq |-> Start % Mod, packets |-> <<>>]>>
  /\ seqLong = Start /\ serial = 0
  /\ phase = "up" /\ blanks = 0 /\ saved = FALSE /\ aborted = FALSE /\ stops = 0
  /\ sx = [c \in Clients |-> Idle]
  /\ serving = None
  /\ last = [c \in Clients |-> None] /\ from = [c \in Clients |-> 0]
  /\ early = {}

Least(S) == CHOOSE x \in S : \A y \in S : x <= y
Next1(s) == (s + 1) % Mod

\* match_packet(): an empty packet matches no selector.
Matches(x, packet) == packet.kind = "main" \/ (packet.kind = "other" /\ ~x.selective)
-----------------------------------------------------------------------------
\* The list of buffers: the neighbours of b, and b moved to the tail; for comparison
\* b left where it is.

Place(b) == CHOOSE i \in 1..Len(order) : order[i] = b
NextOf(b) == IF Place(b) = Len(order) THEN None ELSE order[Place(b) + 1]
InPlace(b) == order
ToTail(b) ==
  SubSeq(order, 1, Place(b) - 1) \o SubSeq(order, Place(b) + 1, Len(order)) \o <<b>>

\* find_packet_in_bufferstore(): the buffer of sequence number m, from buf_first on.
InMemory(m) ==
  LET S == IF first = None THEN {}
           ELSE {i \in Place(first)..Len(order) :
                   buffer[order[i]] # None /\ buffer[order[i]].seq = m}
  IN  IF S = {} THEN None ELSE order[Least(S)]

-----------------------------------------------------------------------------
\* The segment files, each known by its name, the number of its first packet, and
\* the file that follows; for comparison no progress.

Size(i) == Len(files[i].packets)
FileItself(name) == name
IndexOf(name) == CHOOSE i \in 1..Len(files) : files[i].name = name
FileAfter(name) ==
  IF IndexOf(name) = Len(files) THEN None ELSE files[IndexOf(name) + 1].name

\* The first file that holds a packet with sequence number m, 0 if there is
\* none, and the offset of m in a file.
Offset(i, m) == (m - files[i].seq) % Mod
FileWith(m) ==
  LET S == {i \in 1..Len(files) : Offset(i, m) < Size(i)}
  IN  IF S = {} THEN 0 ELSE Least(S)

\* get_file(): a new file once the last is full, and the oldest is deleted if
\* there are too many.
TooMany(n) == n > Segments
NewFile == [name |-> seqLong, seq |-> seq, packets |-> <<>>]
LastIsFull == files # <<>> => Size(Len(files)) >= SegmentSize
Rolled ==
  LET grown == IF LastIsFull THEN Append(files, NewFile) ELSE files
  IN  IF TooMany(Len(grown)) THEN Tail(grown) ELSE grown

-----------------------------------------------------------------------------
\* BufferStoreImpl with the callbacks of StationIO

\* delete_oldest_buffer(): a client that was to read b from memory next; the
\* packet is still on disk, or it is lost for this client.  For comparison a
\* client that never looks at the disk.
Advanced(x, b) == IF x.queue = b THEN [x EXCEPT !.queue = NextOf(b)] ELSE x
Recycled(x, b) ==
  LET s == buffer[b].seq
      i == FileWith(s)
  IN
  IF x.queue # b THEN x
  ELSE IF x.file # None THEN [x EXCEPT !.queue = NextOf(b)]
  ELSE IF i # 0
    THEN [x EXCEPT !.queue = NextOf(b), !.file = files[i].name, !.fd = Offset(i, s),
                   !.seq = s]
    ELSE [x EXCEPT !.queue = NextOf(b), !.seq = Next1(@)]

\* get_buffer(): a buffer that is free, or that of the oldest packet.
GetBuffer ==
  /\ phase = "up" /\ serving = None
  /\ Cardinality(held) < Streams
  /\ free # None
  /\ held' = held \cup {free}
  /\ free' = NextOf(free)
  /\ first' = IF first = free THEN NextOf(free) ELSE first
  /\ buffer' = [buffer EXCEPT ![free] = None]
  /\ sx' = IF buffer[free] = None THEN sx
           ELSE [c \in Clients |-> Recycled(sx[c], free)]
  /\ UNCHANGED <<order, seq, disk, server, serving, history, early>>

\* delete_oldest_segment(): a client that reads the file goes on with the next;
\* for comparison one that stays.
Stays(x) == x
Forced(x) ==
  IF x.file # None /\ x.file < Rolled[1].name
    THEN [x EXCEPT !.file = Rolled[1].name, !.fd = None]
    ELSE x

\* new_buffer(): a client when the new packet is in buffer b; for comparison one
\* that is not marked for delivery.
Asleep(x, b, packet) ==
  IF x.active /\ x.queue = None /\ Matches(x, packet)
    THEN [x EXCEPT !.queue = b] ELSE x
Woken(x, b, packet) ==
  IF ~x.active \/ (x.queue = None /\ ~Matches(x, packet)) THEN x
  ELSE [x EXCEPT !.queue = IF @ = None THEN b ELSE @, !.ready = @ \/ x.done]

\* A packet of the given kind is stored in buffer b, in memory and on disk.
Store(b, kind) ==
  LET packet == [number |-> seqLong, serial |-> serial + 1, kind |-> kind] IN
  /\ serial < MaxPackets
  /\ serial' = serial + 1
  /\ buffer' = [buffer EXCEPT ![b] = [seq |-> seq, packet |-> packet]]
  /\ seq' = Next1(seq)
  /\ order' = ToTail(b)
  /\ first' = IF first = None THEN b ELSE first
  /\ files' = [Rolled EXCEPT ![Len(Rolled)].packets = Append(@, packet)]
  /\ seqLong' = seqLong + 1
  /\ sx' = [c \in Clients |-> Woken(Forced(sx[c]), b, packet)]
  /\ early' = {c \in Clients : /\ sx'[c].active /\ ~sx'[c].ready /\ sx'[c].queue # None
                               /\ c \in early \/ ~sx[c].done}

\* queue_buffer()
QueueBuffer(b, kind) ==
  /\ phase = "up" /\ serving = None
  /\ b \in held
  /\ held' = held \ {b}
  /\ Store(b, kind)
  /\ UNCHANGED <<free, server, serving, history>>

\* enlarge(): a new buffer behind buf_free.
EnlargeBy(b) ==
  /\ phase = "up" /\ serving = None
  /\ b \notin {order[i] : i \in 1..Len(order)}
  /\ free # None
  /\ GrowsFull \/ buffer[free] = None
  /\ order' = SubSeq(order, 1, Place(free)) \o <<b>>
                \o SubSeq(order, Place(free) + 1, Len(order))
  /\ UNCHANGED <<buffer, first, free, held, seq, disk, server, sx, serving, history,
                 early>>

-----------------------------------------------------------------------------
\* The end and the restart of the server

AllOff ==
  /\ sx' = [c \in Clients |-> Idle]
  /\ from' = [c \in Clients |-> 0]
  /\ serving' = None /\ early' = {}
  /\ phase' = "down"
  /\ stops < MaxStops /\ stops' = stops + 1

\* SIGTERM: the connections are closed and save_state() writes buffer.xml.
Stop ==
  /\ phase = "up" /\ serving = None
  /\ AllOff
  /\ saved' = TRUE
  /\ UNCHANGED <<memory, disk, blanks, aborted, last>>

\* The server or the computer crashes.  The last packets may not have reached the
\* disk, though never all there are, or get_file_helper() has been interrupted.
Crash ==
  /\ phase \in {"up", "recovering"}
  /\ AllOff
  /\ \/ Len(files) = Segments /\ LastIsFull /\ files' \in {Tail(files), Rolled}
     \/ UNCHANGED files
     \/ \E k \in 1..MaxLost :
          /\ files # <<>> /\ k <= Size(Len(files)) /\ k < seqLong
          /\ files' = [files EXCEPT ![Len(files)].packets = SubSeq(@, 1, Len(@) - k)]
  /\ UNCHANGED <<memory, seqLong, serial, blanks, saved, aborted, last>>

\* The empty packets that are missing; for comparison none.
NotNeeded(stored) == 0
Missing(stored) == IF saved \/ stored = 0 THEN 0 ELSE Blanks

\* FileStore::restore_state(): a file is registered by its name and its size.
Registered == [i \in 1..Len(files) |-> [files[i] EXCEPT !.seq = files[i].name % Mod]]

\* What is found on disk: the number that follows the last packet, and that of the
\* first packet to be loaded, so that "buffers" are, or all if there are fewer.
EndOnDisk == IF files = <<>> THEN 0 ELSE files[Len(files)].name + Size(Len(files))
LoadFrom ==
  LET sought == (EndOnDisk - Buffers) % Mod
      i == FileWith(sought)
  IN  IF files = <<>> THEN 0
      ELSE IF i # 0 THEN files[i].name + Offset(i, sought) ELSE files[1].name
PacketOnDisk(k) ==
  LET i == CHOOSE i \in 1..Len(files) : k \in files[i].name..(files[i].name + Size(i) - 1)
  IN  files[i].packets[k - files[i].name + 1]

\* restore_state(): the files are registered, the last packets are loaded, and
\* blanks are created unless buffer.xml was found.
Restart ==
  LET stored == EndOnDisk
      loaded == stored - LoadFrom
      left   == Missing(stored)
  IN
  /\ phase = "down" /\ ~aborted
  /\ order' = [i \in 1..Buffers |-> ((i - 1 + loaded) % Buffers) + 1]
  /\ buffer' = [b \in 1..MaxBuffers |->
                  IF b > loaded THEN None
                  ELSE [seq |-> (LoadFrom + b - 1) % Mod,
                        packet |-> PacketOnDisk(LoadFrom + b - 1)]]
  /\ first' = IF loaded = 0 THEN None ELSE 1
  /\ free' = (loaded % Buffers) + 1
  /\ held' = {}
  /\ seq' = stored % Mod /\ seqLong' = stored
  /\ files' = Registered
  /\ saved' = FALSE
  /\ blanks' = left
  /\ phase' = IF left = 0 THEN "up" ELSE "recovering"
  /\ UNCHANGED <<serial, aborted, stops, sx, serving, history, early>>

\* create_blank_buffers(): next_buffer() takes a buffer and leaves buf_first alone.
CreateBlank ==
  /\ phase = "recovering"
  /\ Store(free, "blank")
  /\ free' = NextOf(free)
  /\ blanks' = blanks - 1
  /\ phase' = IF blanks = 1 THEN "up" ELSE phase
  /\ UNCHANGED <<held, saved, aborted, stops, serving, history>>

-----------------------------------------------------------------------------
\* Requests

Nowhere == [queue |-> None, file |-> None, fd |-> None, seq |-> seq, number |-> seqLong]
InBuffer(b) == [queue |-> b, file |-> None, fd |-> None, seq |-> buffer[b].seq,
                number |-> buffer[b].packet.number]

\* find_oldest_packet()
Oldest ==
  IF files = <<>> THEN [Nowhere EXCEPT !.queue = first, !.seq = 0]
  ELSE IF InMemory(files[1].seq) # None THEN InBuffer(InMemory(files[1].seq))
  ELSE [queue |-> first, file |-> files[1].name, fd |-> None, seq |-> files[1].seq,
        number |-> files[1].name]

\* find_packet(): whether sequence number m can be served, and from where.
TooFar(m) == (Oldest.seq - m) % Mod > GapLimit
Found(m) == InMemory(m) # None \/ FileWith(m) # 0 \/ m = seq \/ ~TooFar(m)
FindPacket(m) ==
  LET i == FileWith(m) IN
  IF InMemory(m) # None THEN InBuffer(InMemory(m))
  ELSE IF i # 0
    THEN [queue |-> first, file |-> files[i].name, fd |-> Offset(i, m), seq |-> m,
          number |-> files[i].name + Offset(i, m)]
  ELSE IF m = seq \/ TooFar(m) THEN Nowhere
  ELSE Oldest

\* A client sends requests until the handshake is over, which in uni-station mode
\* the request itself ends.  STATION commands have led to multi-station mode, for
\* the rest of the connection.
Listening(c) == phase = "up" /\ serving = None /\ ~sx[c].done
Serve(c, place, ready, mode) ==
  /\ Listening(c)
  /\ sx[c].multi => mode.multi
  /\ sx' = [sx EXCEPT ![c] =
       [on |-> TRUE, queue |-> place.queue, file |-> place.file, fd |-> place.fd,
        seq |-> place.seq, active |-> TRUE, ready |-> ready,
        realtime |-> mode.realtime, done |-> ~mode.multi, multi |-> mode.multi,
        selective |-> mode.selective]]
  /\ early' = early \ {c}
  /\ UNCHANGED <<memory, disk, server, serving>>

\* A client that has not been connected before.
Anew(c, place) ==
  /\ from' = [from EXCEPT ![c] = place.number]
  /\ last' = [last EXCEPT ![c] = None]

\* DATA, DATA ALL, DATA n, and the same with FETCH
RequestNext(c, mode) ==
  /\ Serve(c, Nowhere, FALSE, mode)
  /\ Anew(c, Nowhere)
RequestAll(c, mode) ==
  /\ Serve(c, Oldest, TRUE, mode)
  /\ Anew(c, Oldest)
RequestFrom(c, m, mode) ==
  LET place == FindPacket(m) IN
  /\ Serve(c, place, Found(m), mode)
  /\ Anew(c, place)

\* DATA n or FETCH n of a client that goes on where it was, after the last packet
\* it has received.  It has not been away for a whole cycle of numbers.
Resume(c, mode) ==
  /\ ~sx[c].on
  /\ last[c] # None
  /\ seqLong - last[c].number < Mod
  /\ LET m == Next1(last[c].number % Mod) IN
     /\ Serve(c, FindPacket(m), Found(m), mode)
     /\ from' = [from EXCEPT ![c] = IF Found(m) THEN 0 ELSE seqLong]
  /\ UNCHANGED last

\* SELECT for a station that has been requested: the request is cancelled.  The
\* new selection counts from the next request on.
Select(c) ==
  /\ Listening(c) /\ sx[c].active
  /\ sx' = [sx EXCEPT ![c] = [Idle EXCEPT !.on = TRUE, !.multi = sx[c].multi]]
  /\ from' = [from EXCEPT ![c] = 0]
  /\ early' = early \ {c}
  /\ UNCHANGED <<memory, disk, server, serving, last>>

\* END of a multi-station handshake
EndHandshake(c) ==
  /\ Listening(c) /\ sx[c].active
  /\ sx' = [sx EXCEPT ![c].done = TRUE]
  /\ UNCHANGED <<memory, disk, server, serving, history, early>>

\* The client disconnects, or a write fails.
Close(c) ==
  /\ phase = "up" /\ serving \in {None, c} /\ sx[c].on
  /\ sx' = [sx EXCEPT ![c] = Idle]
  /\ from' = [from EXCEPT ![c] = 0]
  /\ serving' = None
  /\ early' = early \ {c}
  /\ UNCHANGED <<memory, disk, server, last>>

-----------------------------------------------------------------------------
\* deliver(): rounds of do_deliver() until a packet is sent or nothing is left

Delivering(c) ==
  /\ phase = "up" /\ serving \in {None, c}
  /\ sx[c].on /\ sx[c].done /\ sx[c].ready

\* The files have been read up to the next packet in memory.
Reached(c) ==
  /\ sx[c].queue # None /\ sx[c].file # None
  /\ buffer[sx[c].queue] # None
  /\ sx[c].seq = buffer[sx[c].queue].seq

\* What a file is read at, and the sequence number that stands for it.
FileAt(c)  == files[IndexOf(sx[c].file)]
ReadAt(c)  == IF sx[c].fd = None THEN 0 ELSE sx[c].fd
SeqAt(c)   == IF sx[c].fd = None THEN FileAt(c).seq ELSE sx[c].seq

SwitchToMemory(c) ==
  /\ Delivering(c) /\ Reached(c)
  /\ sx' = [sx EXCEPT ![c].file = None, ![c].fd = None]
  /\ serving' = c
  /\ UNCHANGED <<memory, disk, server, history, early>>

EndOfFile(c) ==
  /\ Delivering(c) /\ ~Reached(c) /\ sx[c].file # None
  /\ ReadAt(c) = Len(FileAt(c).packets)
  /\ sx' = [sx EXCEPT ![c].file = FileAfter(@), ![c].fd = None, ![c].seq = SeqAt(c)]
  /\ serving' = c
  /\ UNCHANGED <<memory, disk, server, history, early>>

\* A packet is sent if the client has selected it, else the next round follows.
Send(c, packet) ==
  /\ IF Matches(sx[c], packet)
       THEN /\ last' = [last EXCEPT ![c] = [number |-> packet.number, serial |-> packet.serial]]
            /\ from' = [from EXCEPT ![c] = 0]
            /\ serving' = None
       ELSE UNCHANGED history /\ serving' = c
  /\ UNCHANGED <<memory, disk, server, early>>

ReadFile(c) ==
  /\ Delivering(c) /\ ~Reached(c) /\ sx[c].file # None
  /\ ReadAt(c) < Len(FileAt(c).packets)
  /\ sx' = [sx EXCEPT ![c].fd = ReadAt(c) + 1, ![c].seq = Next1(SeqAt(c))]
  /\ Send(c, FileAt(c).packets[ReadAt(c) + 1])

\* A buffer without a sequence number fails an internal_check(), which exits.
ReadMemory(c) ==
  /\ Delivering(c) /\ sx[c].file = None /\ sx[c].queue # None
  /\ IF buffer[sx[c].queue] = None
       THEN /\ aborted' = TRUE /\ phase' = "down"
            /\ UNCHANGED <<memory, disk, blanks, saved, stops, sx, serving, history, early>>
       ELSE /\ sx' = [sx EXCEPT ![c].queue = NextOf(@),
                                ![c].seq = Next1(buffer[sx[c].queue].seq)]
            /\ Send(c, buffer[sx[c].queue].packet)

\* Nothing is left: the client waits, or in dial-up mode it is told the END.
NothingLeft(c) ==
  /\ Delivering(c) /\ sx[c].file = None /\ sx[c].queue = None
  /\ sx' = [sx EXCEPT ![c].ready = FALSE, ![c].active = sx[c].realtime]
  /\ serving' = None
  /\ UNCHANGED <<memory, disk, server, history, early>>

Deliver(c) ==
  \/ SwitchToMemory(c) \/ EndOfFile(c) \/ ReadFile(c) \/ ReadMemory(c)
  \/ NothingLeft(c)

-----------------------------------------------------------------------------
Ingest ==
  \/ GetBuffer
  \/ \E b \in 1..MaxBuffers, kind \in {"main", "other"} : QueueBuffer(b, kind)
  \/ \E b \in 1..MaxBuffers : EnlargeBy(b)

Request(c) ==
  \/ \E mode \in Modes :
       \/ RequestNext(c, mode) \/ RequestAll(c, mode) \/ Resume(c, mode)
       \/ \E m \in 0..(Mod - 1) : RequestFrom(c, m, mode)
  \/ Select(c) \/ EndHandshake(c) \/ Close(c)

Next ==
  \/ Ingest \/ Stop \/ Crash \/ Restart \/ CreateBlank
  \/ \E c \in Clients : Request(c) \/ Deliver(c)

\* The server's loop serves every client whose socket can be written.
Spec == Init /\ [][Next]_vars /\ \A c \in Clients : WF_vars(Deliver(c))
-----------------------------------------------------------------------------
Ring == {order[i] : i \in 1..Len(order)}
Packet == [number : Nat, serial : 1..MaxPackets, kind : {"main", "other", "blank"}]
SeqNumbers == 0..(Mod - 1)

\* None is neither the content of a buffer nor what a client has received last.
ASSUME NoneAssumption ==
  /\ None \notin [seq : SeqNumbers, packet : Packet]
  /\ None \notin [number : Nat, serial : 1..MaxPackets]

TypeOK ==
  /\ order \in Seq(1..MaxBuffers) /\ Len(order) \in Buffers..MaxBuffers
  /\ buffer \in [1..MaxBuffers -> [seq : SeqNumbers, packet : Packet] \cup {None}]
  /\ first \in 1..MaxBuffers \cup {None} /\ free \in 1..MaxBuffers \cup {None}
  /\ held \subseteq Ring /\ seq \in SeqNumbers
  /\ files \in Seq([name : Nat, seq : SeqNumbers, packets : Seq(Packet)])
  /\ Len(files) <= Segments /\ seqLong \in Nat
  /\ phase \in {"up", "recovering", "down"} /\ blanks \in 0..Blanks
  /\ saved \in BOOLEAN /\ aborted \in BOOLEAN /\ stops \in 0..MaxStops
  /\ sx \in [Clients ->
       [on : BOOLEAN, queue : 1..MaxBuffers \cup {None}, file : Nat \cup {None},
        fd : (0..SegmentSize) \cup {None}, seq : SeqNumbers \cup {None},
        active : BOOLEAN, ready : BOOLEAN, realtime : BOOLEAN, done : BOOLEAN,
        multi : BOOLEAN, selective : BOOLEAN]]
  /\ serving \in Clients \cup {None}
  /\ serial \in 0..MaxPackets
  /\ last \in [Clients -> [number : Nat, serial : 1..MaxPackets] \cup {None}]
  /\ from \in [Clients -> Nat] /\ early \subseteq Clients

\* Every variable has its type, memory and disk keep their limits, and memory holds
\* the most recent packets, each of them also on disk under the same number, in
\* order and at the end of the list; both counters agree, over restarts too, and
\* buf_free is never exhausted (BufferStoreImpl, FileStore, restore_state).
Filled(i) == buffer[order[i]] # None
OnDisk(packet) ==
  \E i \in 1..Len(files) : \E k \in 1..Size(i) :
    /\ files[i].packets[k] = packet
    /\ files[i].name + k - 1 = packet.number
    /\ (files[i].seq + k - 1) % Mod = packet.number % Mod
StoreConsistent ==
  /\ TypeOK
  /\ phase # "down" =>
    /\ free # None /\ seq = seqLong % Mod
    /\ \A i \in 1..Len(order) : Filled(i) =>
         LET content == buffer[order[i]] IN
         /\ i < Len(order) => Filled(i + 1)
         /\ content.packet.number = seqLong - 1 - (Len(order) - i)
         /\ content.seq = content.packet.number % Mod
         /\ OnDisk(content.packet)
    /\ first = None <=> \A i \in 1..Len(order) : ~Filled(i)
    /\ first # None => buffer[first] # None

\* No client is left with a cursor into a file that has been deleted or a buffer
\* that has been recycled, and the file cursor does not overtake the memory cursor.
Unread(c) == FileAt(c).name + ReadAt(c)
CursorsValid ==
  \A c \in Clients :
    /\ sx[c].file # None =>
         /\ \E i \in 1..Len(files) : files[i].name = sx[c].file
         /\ ReadAt(c) <= Len(FileAt(c).packets)
         /\ SeqAt(c) = Unread(c) % Mod
    /\ sx[c].queue # None => sx[c].queue \in Ring /\ buffer[sx[c].queue] # None
    /\ sx[c].queue # None /\ sx[c].file # None =>
         Unread(c) <= buffer[sx[c].queue].packet.number

\* "The packets of each individual station are always transferred in timely
\* (FIFO) order" (descriptions/seedlink.rst): also over reconnects, restarts and
\* deleted files, a client that goes on where it was never gets an older packet,
\* a packet twice, or one number for two packets.
InOrder ==
  [][\A c \in Clients :
       last[c] # None /\ last'[c] \notin {None, last[c]} =>
         last'[c].number > last[c].number /\ last'[c].serial > last[c].serial]_vars

\* A packet that a client has selected and is still on disk is not passed over:
\* the cursor moves past it only when it is sent.
Cursor(c) ==
  IF sx[c].file # None THEN Unread(c)
  ELSE IF sx[c].queue # None THEN buffer[sx[c].queue].packet.number
  ELSE seqLong
NothingSkipped ==
  \A c \in Clients : sx[c].active => LET cursor == Cursor(c) IN
    \A i \in 1..Len(files) : \A k \in 1..Size(i) :
      LET packet == files[i].packets[k] IN
      packet.number >= from[c] /\ packet.number < cursor /\ Matches(sx[c], packet) =>
        last[c] # None /\ packet.number <= last[c].number

\* A client that has something to read is marked for delivery, unless the only
\* packet it waits for came before the END of its handshake.
Scheduled ==
  \A c \in Clients :
    sx[c].active /\ sx[c].done /\ (sx[c].queue # None \/ sx[c].file # None) =>
      sx[c].ready \/ c \in early

\* The delivery of what is there comes to an end: over files that are deleted under
\* it, packets that match no selector and the switch to memory, a client that is
\* marked for delivery reaches the end of the data (StationConnection::do_deliver).
CatchesUp == \A c \in Clients : sx[c].ready /\ sx[c].done ~> ~sx[c].ready

\* "internal_check(value != uninitialized)" in Sequence::increment() and the same in
\* operator<< (iosystem.cc): the server does not exit over a buffer without packet.
\* It does if memory is enlarged when it is full (GrowsFull).
ChecksHold == ~aborted
=============================================================================
