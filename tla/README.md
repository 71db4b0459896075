# SeisComP3 in TLA+

This directory holds TLA+ models of the parts of SeisComP3 that are concurrent
or keep state over failures, the TLC configurations that check them on small
instances, and proofs that TLAPS checks for every value of the constants.
Paths are relative to `src/src/`; line numbers are those of this commit.

To run one check: `tlc -workers 2 -config MCMasterRelay.cfg MCMaster.tla`.
To check the proofs of a module: `tlapm MasterProofs.tla`.

## 1. The system and its parts

SeisComP3 acquires seismic data in real time, processes them and distributes
the results. Three mechanisms carry it:

1. **SeedLink** (`seedlink/apps/seedlink`): plugins read digitizers and push
   packets into the server; the server keeps recent packets of each station in
   a ring in memory and older ones in segment files, and streams them to clients
   over TCP. Clients resume with the sequence number of the last packet they got.
2. **Messaging** (`trunk/apps/messaging/scmaster`, `trunk/libs/seiscomp3/
   communication`): processing modules exchange objects in messages. Every
   message goes to `scmaster`, which stores its notifiers in the database and
   relays it to the clients of its group through the Spread daemon.
3. **Client library** (`trunk/libs/seiscomp3/client`): the event loop, the
   message thread and the blocking `ThreadedQueue` all modules are built on.
   `scmaster` itself uses two of these queues.

```
 digitizers -> plugins -> seedlink (ring + segment files) -> slarchive, modules
                                                              |
   modules <=> SystemConnection <=> Spread <=> scmaster -> plugins -> database
                                                 |
                                            archive of recent messages
```

### Inventory

| Component | State | Operations and interaction | What is hard | What makes it correct |
|---|---|---|---|---|
| `ThreadedQueue` (client/queue.ipp) | ring, begin, end, count, closed, mutex, two condition variables | push, pop, close, resize; called by any thread | lost wakeups, spurious wakeups, close during a wait, wrap at capacities 0, 1, n | closable FIFO queue; nobody sleeps on a condition that holds; close releases everybody |
| scmaster relay (master.cpp) | two queues, session, `_sendMutex`, `_reconnectMutex`, `_isRunning` | listen, run and plugin threads; SIGTERM handler calls `stop()` | lost session in any thread, retries with mutex held, handler on the stack of a thread | nothing lost or overtaken; no deadlock; ends on request |
| scmaster registry (clientdb.cpp) | vector of clients | connect, leave, expel; cleared by reconnect on other threads | reconnect clears it while run works on it | exact, up to messages that still wait |
| scmaster archive (master.cpp 790-1063) | slots, sequence counter, archive mutex | createMsg, sendAndArchive, archive request | archived before it is numbered; type changed while another thread sends; deleted while in use | no use after free; complete; live messages keep their type |
| database plugin (dbplugin.cpp) | connection, operational flag | process with reconnect loop, close by stop() | connection lost in the middle of a message; stop in the middle of a message | written once, or counted as an error, before relayed |
| Spread driver (spreaddriver.cpp) | `_isConnected`, buffers | send, receive, handleError, reconnect | error noted after another thread has reconnected | part of the relay's model |
| seedlink station (iosystem.cc) | buffer ring, segment files, counters; a cursor per client | packets in; SELECT, DATA, FETCH, END; deliver; save and restore | cursors into buffers and files that are recycled; switch from file to memory; wrap at 2^24; crash | client gets every packet that is still there, once, in order |
| seedlink connection (iosystem.cc 2194-2463) | stations of one connection, round robin, handshake flags | STATION, DATA, END, INFO, deliver | counters of active stations, END to dial-up clients | every station served; END exactly at the end |
| seedlink reader (seedlink.cc, sproc.cc) | plugin processes, timers, record builders | start, stop, restart of plugins, flush of records | timeouts, signals, children that do not end | a plugin is restarted; shutdown ends |
| `SystemConnection` (communication) | session, two flags of being connected, groups, local queue, read mutex | connect, handshake, reconnect, subscribe, receive, send, disconnect; called by the message thread and the main thread | two readers of one session, a connect that only tries the lock, a session that is lost during the handshake | nothing is read twice or lost between the threads; all groups are joined again; a lost connection comes back |
| `Application`, `StreamApplication` (client) | event queue, sync ID, lock of the records, message thread, record thread | run, sync, processEvent, exit, done; storeRecord, readMessages | an event loop inside an event, a lock that one thread takes and another frees, exit from a signal handler | a sync owns the lock; every wait ends; an application ends when asked or finished |
| balanced record stream (io/recordstream/balanced.cpp) | acquisition threads, ThreadedQueue | addStream, next, close | end counted by NULL elements; close while threads push | every record once; next() ends |
| scardac (apps/tools/scardac) | work queue, worker threads, rows of each stream, batches | scan of archive and database, processExtent, exit | merge of records over files, rows removed during the search, exit at any point, producer blocked when workers leave | the index equals the archive; each stream once; nothing confirmed is removed; ends |
| scevent (apps/processing/scevent) | events, caches, delayed updates | add origin, associate, merge, update preferred | order of objects, removed objects | association is a function; preferred exists |
| scautoloc, scautopick, scamp, scmag, scqc, processing, math, geo, seismology, qc | numerical state per stream or origin | feed | floating point | out of TLC's reach |
| core, datamodel, logging, system, utils, io, configdb, inventory, plugin registry, networkinterface | values, object trees | sequential | conversions | not modelled: pure data |
| scadmin, sctestclient, command line and Python tools, fdsnws, arclink, gui-qt4, slarchive, control scripts | per process | clients of the above | none of their own that several actors reach, or run to their end | not modelled |
| contributed trees (ipgp, nettab, sed, gns, slmon, utils), database and locator plugins, seedlink plugins, Spread, SWIG, schemas, templates | | vendored, generated or numerical | | not modelled |

`PROJECT.json` lists each component with its status and, under `hazards`, each
place where the code can go wrong in a way a test would hardly reach.

## 2. Modules

Ordered by how much of the system stands on them, which is the order in which
they were written.

| Module | Stands for | Proofs |
|---|---|---|
| `ThreadedQueue`, `ClosableQueue` | the queue, and what its users rely on | safety, and the refinement of `ClosableQueue` |
| `Master` | relay, registry, database plugin, signal handler | types, locks and the farewell; way of the messages, database, registry |
| `MasterArchive` | sequence numbers and archive of the master | types, no use after free |
| `SeedlinkStation` | the store of a station and the cursors of its clients | every safety property, the order of packets included |
| `SeedlinkConnection` | a connection with several stations | counters, socket, round robin, END |
| `Scardac` | the scan of an archive by several threads | each stream once |
| `StreamApplication` | event loop, record thread and message thread of an application | types, who owns the lock of the records, syncs in time |
| `SystemConnection` | the connection of an application to the messaging system | types, groups after a reconnect, messages read once |

Composition: `Master`, `StreamApplication` and `Scardac` take the behaviour of
`ClosableQueue` as given (a bounded sequence that can be closed); that the
ring buffer provides it is the refinement. `MasterArchive` is the part of
`Master` below the two locks of `sendAndArchive`, with time and numbers, which
the relay's model leaves out. `SeedlinkConnection` stands above `SeedlinkStation`
and sees of it only whether there is a packet. `SystemConnection` is what the
message thread of `StreamApplication` calls; there it is reduced to a connection
that is up or lost.

The proofs about a module `M` are in `MProofs`. Worth adding next: the supervision of
plugin processes (seedlink.cc, sproc.cc); the archive request of `SystemConnection`
against `MasterArchive`; the segments of `Scardac` without folds, so that `IndexExact`
can be proved.

## 3. Models and code

### ThreadedQueue, ClosableQueue

`ThreadedQueue` is the ring of `client/queue.ipp`: `buffer`, `begin`, `end`,
`buffered`, `closed`; the two condition variables are the sets of threads that
sleep on them, `notFull` and `notEmpty`. A thread that is inside a call has it
in `call[t]`, and the answer in `result[t]`.

| Code | Action |
|---|---|
| constructors 55-71, `resize` 88-92 | `Init`, `Resize` |
| a thread calls push or pop | `Invoke` |
| `push` waits 117, throws 119, stores 123-127 | `PushWait`, `PushRefused`, `PushStore` |
| `pop` waits 153, throws 156, takes 158-163 | `PopWait`, `PopThrow`, `PopTake` |
| `close` 171-178 | `Close` |
| `condition_variable::wait` returns without a notification | `SpuriousWakeup` |

Each critical section is one action, since the mutex is held from the check of
the condition to the notification and released by `wait`. A pop on a closed
queue throws even if elements are left, and so it does in the model and in
`ClosableQueue`. `canPush`, `canPop` and `size` change nothing and are left
out. `resize` on a queue in use would tear its content apart; all callers use
it before the queue is shared (master.cpp:316, application.cpp:1800,
scardac.cpp:781), so `Resize` requires that no thread has called the queue yet.

`ClosableQueue` is what users rely on: a sequence of at most `capacity` values,
push appends or fails once it is closed, pop takes the head or fails once it is
closed, and a call that can return does.

### Master

Three threads and the signal handler, each with a program counter. The labels
stand for the points where another thread can interfere: before a queue
operation, before and after a mutex, around each call of the driver.

| Code | Actions |
|---|---|
| `listen` 417-449 | `ListenLoop`, `Receive`, `ReceiveFails`, `ListenRetry`, `QueueMessage` |
| `run` 350-411 | `RunLoop`, `RunClosed`, `RunPop`, `Forward`, `RunReturn` |
| `processServiceMessage` 518-783, clientdb.cpp 43-115 | `Provide`, `Register`, `Remove`, `ExpelCrashes` and the letters of `AfterSend` |
| `processNetworkMessages` 455-508 | `PluginLoop`, `PluginPop`, `Processed`, `Handled` |
| `DbPlugin::process` 69-118, `connectToDb` 239-287 | `Write`, `WriteRefused`, `WriteFails`, `PassOver`, `NotConnected`, `DbConnect`, `DbConnected` |
| `sendRaw` 856-884 | `TakeSend`, `Sent`, `SendFails`, `SendTooLong`, `SendRetry`, `FinishSend` |
| `reconnect` 961-972 | `TakeReconnect`, `LeaveReconnect` |
| `stop` 138-154, `disconnect` 935-954 | `Stop`, `ClosePlugin`, `DisablePlugin`, `CloseQueue`, `LeaveSession` |
| `signalHandler` scmaster.cpp 38-56 | `Signal`, `Suspended`, `Exit` |
| daemon, peers, database (external) | `Break`, `LeaveUnseen`, `MayArrive`, `DbLost` |

Two details matter. The handler runs *on the stack of* the thread the signal
was delivered to: that thread is suspended (`Suspended`) with its mutexes, and
the handler ends the process itself. And the connection state has two parts,
what the session is (`session`) and what the driver believes (`connected`):
`handleError` clears the belief some time after the call has failed, perhaps
when another thread has a new session already.

A notifier whose write has failed (`failed`) is not known to be wrong before
`_db->isConnected()` has been asked, a step of its own: MySQL's check pings and the
driver connects again in it, PostgreSQL's resets the connection. If the
connection is back by then, the notifier is counted in `_errors` and passed over
(`PassOver`, as after a query that the database refuses); if not, the plugin
connects and tries the notifier again (`TriedAgain`).

`sendRaw` repeats whatever has not succeeded. A message the driver finds too long is
never sent, so the thread that has it stays in the loop until `stop()`
(`SendTooLong`); only the answer that lists the clients has no bound, hence
`Oversized`, the requests answered at that length.

The registry is compared with `due`, the clients the messages of this session, and those of
the last one that were still waiting, tell the master of. `expel` keeps a pointer and a
reference into the registry over a send and an erase; the read after the release may end the
process (`ExpelCrashes`) or do no harm.

Simplifications: an operation on the registry is one step, although `reconnect()` of another
thread may clear the vector inside it; a write that fails has written
nothing; a client connects once.

Service messages that are answered without a change of state (LIST, state of
health, rejected commands) are one kind, "query". Connection statistics, the
timer and the lookup cache of `clientdb.cpp` are left out: they decide nothing.
The signal is not delivered while its host is inside a critical section of a
queue; in the code the window exists and leads to the same self-deadlock as the
one that is shown for `_sendMutex`.

### MasterArchive

Sequence numbers and the archive at the grain of the two mutexes: numbering a
message reads and writes the counter in separate steps (`SendRead`, `SendTag`
and `Reply`, `ReplyTag`; the code increments without a common mutex), archiving replaces and
deletes the message in the slot, and a request walks over the slots, changing
the type of each message and sending it. Timestamps are a small clock that
ticks at any time.

### SeedlinkStation

| Code in iosystem.cc | Here |
|---|---|
| `BufferStoreImpl`, list from `buf_head` to `buf_tail`, `buf_first`, `buf_free` | `order`, `buffer`, `first`, `free`, `held` |
| `FileStore`, segment files, 537-686 | `files`, `Rolled`, `FileAfter` |
| `StationIO::new_buffer`, `delete_oldest_buffer`, `delete_oldest_segment` 1309-1414 | `Store`, `Woken`, `Recycled`, `Forced` |
| `queue_buffer`, `get_buffer`, `enlarge` 438-514 | `QueueBuffer`, `GetBuffer`, `EnlargeBy` |
| `save_state`, `restore_state` 1837-1971 | `Stop`, `Crash`, `Restart` (with `EndOnDisk`, `LoadFrom`, `PacketOnDisk`), `CreateBlank` |
| `find_packet` and its helpers 1725-1815 | `FindPacket`, `Oldest`, `InMemory`, `FileWith`, `TooFar` |
| `command_DATA`, `command_SELECT`, END, disconnect | `RequestNext`, `RequestAll`, `RequestFrom`, `Resume`, `Select`, `EndHandshake`, `Close` |
| `do_deliver` 1090-1173 | `SwitchToMemory`, `EndOfFile`, `ReadFile`, `ReadMemory`, `NothingLeft` |

The server is one thread with `select()`; a round of `do_deliver` is an action,
`serving` keeps other work out until a packet is sent or nothing is left. Each
packet carries its absolute number and its place in the history, so that the
properties can tell packets apart that share a sequence number. IOSIZE (520) is
larger than a packet, so a packet is always sent whole or not at all.

A packet is selected by a client or not, by its kind: "main" always, "other"
only without a selector, "blank" (inserted after a crash) never. The functions
that look packets up are `FindPacket`, with the modulus as a constant.

Assumptions, each from the code or its configuration:

- `3 * Streams <= Buffers`: seedlink.cc (`get_plugin_sproc`) enforces it, and
  with it `buf_free` is never exhausted.
- `Mod > MaxBuffers + Segments * SegmentSize`: the numbers of what is kept do
  not wrap around.
- A crash takes at most `MaxLost <= Blanks` packets off the disk and never all:
  this is what `blanks` is for. Nothing is claimed otherwise. A second crash, while
  the server recovers from the first, takes no more than the recovery has stored: an
  assumption of the order of packets, needed (section 6) and met by the run, in which the server
  ends once.
- A client does not stay away for a whole cycle of sequence numbers and sends
  nothing after the handshake.
- `GrowsFull = FALSE` and `MaxBuffers <= (Segments - 1) * SegmentSize` in the
  run that passes. Section 6 says what happens without them.

### SeedlinkConnection

One client and its connection, above the stations: what `SeedlinkStation` keeps
per client is here a queue of the packets the client has still to get.

| Code in iosystem.cc | Here |
|---|---|
| `ConnectionState` 796, `Connection` 1989 | `multi`, `batch`, `done`, `invalid`, `response`, `active`, `ready`; `requested`, `current`, `catalog`, `info` |
| `StationConnectionState` 950 | `sx` |
| `Fdset` (iosystem.h 181-216): `write_set`, `write_set2` | `write`, `write2` |
| `Connection::request` 2286-2388, `StationIO::request` 1678 | `Ask`, `Batch`, `Station`, `StationRefused`, `EndHandshake`, `Cat`, `Info` |
| `command_SELECT`, `command_TIME`, `command_DATA` 1427-1676 | `Select`, `RequestWindow`, `RequestNext`, `RequestFrom` |
| `input_ws` 2096 with `ws_pong` | `Ping` |
| `StationIO::new_buffer` 1329-1361 | `NewBuffer` |
| `deliver` 2390-2463 | `SendResponse`, `SendBuffer`, `NothingReady`, `Round`, `Advance` |
| `do_deliver` 1066-1215 | `Skip`, `SendPacket`, `NothingLeft` |
| `start` 2760-2814: `fds.sync()` by the throttle's timer | `Sync` |

`at` marks where in the loop of `deliver()` the server is; nothing else happens
before the loop ends. A packet is "out" (no selector of the client matches), "in",
or "late": behind the end of a time window, of the last stream that the window
waits for. `eod`, `check_eod` and the set of streams of the monitor are reduced to
that. The history variable `turns` counts the packets that others got through
while a station was ready.

The client keeps to the protocol of seedlink.rst: it waits for the answer to
each command unless it is in batch mode, and sends nothing but INFO and, on a
WebSocket, pings once the transfer has begun. Two things follow from the code
and show in the formulas: a dial-up request for a number that is not kept leaves
the station inactive for delivery until a packet arrives, and a time window whose end is reached by a
client that has caught up is ended by the packet after the first late one;
`DialUpEnds` speaks of neither.

### Scardac

| Code in scardac.cpp | Here |
|---|---|
| `run` 925-1023, `checkDirectory`, `checkFiles` 1026-1084 | `PushExtent`, `CheckFiles`, `Push`, `Join` |
| `processExtents` 1091-1111 | `Loop`, `Pop`, `PopClosed`, `CloseQueue` |
| `Worker::processExtent` 177-380 | `ListFiles`, `LoadSegments`, `AddExtent`, `NextFile`, `ReadFile`, `NextSegment`, `LastSegment`, `FlushSegmentBuffers`, `SyncAttributeExtents`, `FinishExtent` |
| `readFileSegments` 434-596 | `FileSegments`, `AddRecord`, `Follows` |
| `findDBSegment` 603-621 | `FindDBSegment`, `RemoveSegment`, `Passes` |
| `removeSegment`, `addSegment`, `flushSegmentBuffers` 628-688 | `RemoveBuffered`, `AddBuffered`, `Bounded`, `Flushed` |
| `updateExtent` 127-158 | `UpdateExtent`, `UpdateAttribute` |
| signal handler of `Application` (external) | `RequestExit` |

The archive of a stream is a sequence of files, a file a sequence of records with
start, end and kind (what distinguishes sampling rates and qualities). A scan
starts from any state in `Setups`: an archive, the rows an earlier scan has
left, and the worker threads. `ReadFile` may be cut off behind any record,
because the exit is looked at there.

Assumptions: two segments of a stream do not start at the same time in the
database (its unique index); a write that fails within a transaction loses that
row and no other; a connection to the database that has been made stays. The
time at which a row was written (`updated` of a segment) is left out, and with
it the early return of `run` for an archive without streams. The comparison at line
358 compares `segmentOverflow` of the extent with itself, so an extent of which nothing
else has changed keeps the old flag; `NewExtent` has what the code does.

### StreamApplication

| Code | Actions |
|---|---|
| `Application::run`, `processEvent` application.cpp 2174-2240 | `TakeRecord`, `HandleRecord`, `HandleOther`, `HandleAnswer`, `HandleDisconnect`, `HandleClose`, `LeaveLoop` |
| `sync` 2006-2048, `handleEndSync` streamapplication.cpp 424-427 | `StartSync`, `SendSyncRequest`, `EndSync` |
| `done` 2334-2360, streamapplication.cpp 118-131 | `Disconnect`, `CloseQueue`, `JoinMessageThread`, `CloseStream`, `JoinRecordThread` |
| `readRecords`, `storeRecord`, `acquisitionFinished` streamapplication.cpp 341-410 | `ReadRecord`, `LockRecords`, `PushRecord`, `SyncRequested`, `UnlockRecords`, `PushSync`, `PushFinished`, `PushClose` |
| `readMessages` application.cpp 3344-3430 | `ReadMessage`, `PushMessage`, `ConnectionLost`, `PushDisconnect`, `Reconnect`, `DatabaseBack`, `PushReconnect` |
| `exit` 3615-3617, streamapplication.cpp 136-141 | `Exit`, `ExitCloses` |
| scmaster master.cpp 487-505, 832-849 | `MasterAnswers`, `MasterSends` |
| network, database (external) | `LoseConnection`, `DatabaseReturns` |

A sync is asked for by the handler of a record (scautopick, picker.cpp 1564
and 1680, and the messenger of scqc), so `HandleRecord` may set `_requestSync` each
time. A Sync event that is met inside `sync()` would begin another one; the
action allows it, and `SyncOwnsLock` shows that it does not happen. Of
`exit` the flag is one step, closing the queue and the stream another.
`handleStartSync`, `idle` and timers change nothing of this state.

### SystemConnection

| Code in systemconnection.cpp | Actions |
|---|---|
| `readNetworkMessage` 547-689, `queueMessage` 805 | `ReceiveMessage`, `ReceiveError`, `QueueMessage`, `TryToRead`, `Poll`, `AfterReceiveError` |
| `handleError` of the driver (spreaddriver.cpp 572-592) | `HandleError` |
| `shutdown` 769, `disconnect` of the driver (spreaddriver.cpp 175-186) | `Shutdown`, `CloseSession`, `ForgetSession` (with `Leak`) |
| `receive` 828-848, `readLocalMessage` 855 | `CheckQueue`, `LockToRead`, `ReadLocalMessage` |
| `readMessages` of the application, after an error | `Decide` |
| `reconnect` 304-320, `connect` 217-297, `handshake` 89-195 | `Reconnect`, `Connect`, `ConnectRefused`, `JoinMasterGroup`, `SendRequest`, `PollAnswer`, `ReceiveAnswer`, `AnswerError`, `Timeout`, `Welcome`, `Subscribe` |
| `send` 700-751 | `StartSend`, `Recheck`, `Multicast` |
| `done` of the application 2334-2343, `disconnect` 326-346 | `RequestExit`, `StartDisconnect`, `SendFarewell`, `ClearQueue` |
| scmaster (master.cpp 518-600, 832-849, 912-954) | `MasterAnswers`, `MasterRefuses`, `MasterSends`, `MasterDies`, `MasterReturns` |
| Spread daemon (session.c) | `SessionEnds`, `SessionBreaks` |

The message thread is the *reader*, the main thread the *sender*: before it sends,
it reads what has arrived, if nobody else is reading. Both put what they read
into `_messageQueue`. There are two flags of being connected, one in
the driver (`linked`) and one in the connection (`connected`), and they do not change
together. `connect` calls `try_lock` and goes on without the lock if it does not
get it (line 224), so a sender may receive what the handshake is waiting for; the
action of either thread is possible then.

For the same reason a call of the sender may fail on one session and be noted on the
next: the failing call (`Poll`, `ReceiveError`, `Multicast`, `SendFarewell`) and
`handleError()` are two steps, with the reader free to reconnect between them.
`handleError()` then clears `linked` although the new session is up. What follows is in
the model too: a reader blocked in that session, a `done()` that skips `disconnect()`
because the flags say there is nothing to disconnect, and, once the reader notices, a
connect that the daemon refuses (`ConnectRefused`), because it keeps a session of that
name (session.c 797-815), while the driver has forgotten the mailbox
(`session = "leaked"`). `disconnect` of the driver has the same gap between closing the session
and forgetting it (`CloseSession`, `ForgetSession`). For the reader the call and
the note are one step: only it opens sessions, so nothing changes between them that
could be mistaken.

The answer to a connect message goes to the private group of the client, whose name
does not change from one session to the next: it may arrive after a timeout, in a later
session. `master.asked` counts the requests that are not answered yet. A refusal ends the
attempt, and the next one asks again. Data reaches whoever is in the group; the
sender gets its own message back if the master knows it, which the model leaves open.

`disconnect` of the driver sets its mailbox to -1 before it calls `SP_disconnect` with the old
one; the two are one step, an attempt to connect between them being refused and
repeated.

Left out: the fallback to an older protocol version, the archive request, the start
message and the status messages of an application, the
commands of the master (state of health, disconnect on demand), unsubscribe, a subscribe
outside of a reconnect, `listen` and statistics. The list of groups does not change from one
master to the next. `disconnect` clears the queue without its mutex; the clearing is one
step here. No order of messages is claimed: two messages read by different threads may
change places, because the lock is given back before a message is queued.

## 4. Runs

Every run ends within five minutes with two workers.

| Run | Bounds | Shows |
|---|---|---|
| `threaded_queue` | 3 threads, 2 values, capacities 0-3 | `TypeOK`, `RingConsistent`, `NoLostWakeup`; `Refinement` of `ClosableQueue` with its fairness; `CloseReleasesAll` |
| `master_relay` | data, connect, leave and expel in any order, 3 messages of one client, queues of 1, 2 notifiers, one lost session, one lost database connection | `TypeOK`, `NothingLost`, `WrittenOrCounted`, `RegistryExact`, and `EveryMessageRelayed` under fairness |
| `master_stop` | data, sync requests and queries, 2 messages, the first answer too long to be sent, refused queries, signal on the main thread or a failing plugin at any time, one lost session | `RelayedInOrder`, `FarewellSent`, `HandlerEnds` |
| `master_archive` | 4 data messages, 2 answers, 2 slots, numbers 0-2 | `TypeOK`, `NotFreedInUse` |
| `seedlink_station` | 7 packets, 3-4 buffers, 3 files of 2 packets, numbers modulo 11 from 8 on, 1 stop or crash, 1 client in two modes | `StoreConsistent` (with the types), `CursorsValid`, `NothingSkipped`, `Scheduled`; `InOrder`; `CatchesUp` |
| `seedlink_connection` | 2 stations, stored packets none or one of each kind, 2 more that arrive, one INFO during the transfer, one ping | `CountersExact` (with the types), `Watched`, `FairShare`; `EndIsLast`; `DialUpEnds` |
| `scardac` | one stream with archives of up to two days, indexed before in any state of such an archive, or two streams with two workers; queue of 2, batches of 2, at most 3 segments; an exit at any moment | `IndexExact` (with the types), `EachOnce`; `ConfirmedKept`; `ScanEnds` |
| `stream_application` | queue of 1, 4 records, syncs asked for at any record, a message, a lost connection, a lost database, an exit at any moment | `TypeOK`, `SyncOwnsLock`, `SyncInTime`; `AcquisitionGoesOn`, `EndsAfterExit` |
| `system_connection` | 2 groups, a message from others, a send, a lost session, a master that dies and returns, a refusal, an answer that comes too late, a disconnect at any moment | `TypeOK`, `Resubscribed`, `ReadOnce`; `Recovers`, `ReaderEnds` |
| `connection_ping`, `stream_close`, `connection_queue` | small instances of the same modules | see section 6: one property each, which the code violates |

Why the bounds are enough to be of interest: three threads on a queue are the
least with which a notification can go to the wrong one, and capacity 0 to 3
covers the constructor's queue, the single slot and a ring that wraps. Queues of
one slot in the master make every thread wait; three messages fill the pipeline (one
in the queue and one in the hands of each thread); two notifiers allow a
connection to be lost between them. Two slots of the archive with numbers up to
2 wrap both counters, and the four messages overwrite each slot. In the station,
seven packets are more than memory (3) and disk (6) keep, so that a buffer and a
file are recycled under a client that is behind, the start at 8 makes the number
wrap at 11, and one stop lets the server restore with or without `buffer.xml`.
One client is enough, since clients share nothing but the store. On a connection two stations are the
least that share the counters and take turns; two packets can wake a station, and
meet it before, during and after its round. In scardac three segments are the
fewest with which the limit can be met within a file, at its end and between two files,
and a batch of two is flushed in the middle of a stream and at its end. A queue of
one slot makes both threads of an application wait for the main thread, four
records let two syncs follow each other. On the messaging connection two groups let a session be lost between two
joins, a message can be in the hands of either thread, and one of each failure gives a
second and a third handshake, each of which meets another failure. One send is
enough to note an error on the session that follows. What several messages add to `ReadOnce` is
proved (section 5).

Deadlock is checked for the queue. Elsewhere it is switched off because the
process may end and messages are bounded; that threads do not block each other
is what `EveryMessageRelayed`, `HandlerEnds`, `CatchesUp`, `DialUpEnds`, `ScanEnds`,
`EndsAfterExit`, `AcquisitionGoesOn`, `Recovers` and `ReaderEnds` say.

### Fairness

- **Queue:** weak fairness of each thread's step. A thread that is awake is
  scheduled; a wakeup may be spurious but none is promised.
- **Master:** weak fairness of each thread as a whole; no message, signal or
  loss has to happen, and no strong fairness is assumed. Two threads can go on noting the
  loss of a session the other one has just
  opened, each time closing it; the code allows this ping-pong for ever, and
  `EveryMessageRelayed` says so in its hypothesis `Settles`: it speaks of behaviours in which the
  session is closed finitely often. Waiting for a mutex needs no more than weak fairness there,
  because the listen thread never sends and the others take turns in the pipeline.
- **Station:** weak fairness of `Deliver`: the loop around `select` serves
  every socket that can be written. The arrival of packets is not assumed.
- **Connection:** weak fairness of `Sync` and of `Deliver`, for the same reason; no
  command, packet or ping has to come.
- **Scardac:** weak fairness of the main thread and of each worker; no exit has to be
  requested.
- **Application:** weak fairness of each of the three threads, of a handler of a
  signal that has begun, and of the answer of a master that can be reached. A lost
  database need not come back: both liveness properties exempt a message thread that waits for it,
  because that loop ends with nothing else (application.cpp:3400).
- **Messaging connection:** weak fairness of the reader, of the sender within
  a call, and of a master's answer. The sender need not send. Two states are exempted in
  `Recovers` and `ReaderEnds`, and neither can be left by the client: the
  sender has taken the answer the handshake waits for (`SenderInterferes`; the reader
  blocks without a timeout), and the driver takes a session the daemon keeps for none
  (`Forgotten`; section 6, `ExitEndsReader`).

## 5. Proofs

All statements hold for every value of the constants under the named assumption
of the module, which TLC evaluates in each run.

- **`ThreadedQueueProofs`**: `TypeCorrect`, `RingIsConsistent` and
  `WakeupsAreNotLost`. The inductive invariant is the three invariants and
  `Untouched`: until a thread has called the queue, it is as the constructor
  left it, which is what makes `Resize` harmless. The work is in the arithmetic of the ring:
  `SlotValue` and `SlotInjective` replace the modulus by a comparison,
  `StoreRing` and `TakeRing` show that push fills exactly the slot behind the
  content and pop clears exactly its first. `ImplementsClosableQueue` takes the
  ring to the sequence of its elements; `StoreAppends` and `TakeIsHead` say that
  push appends to it and pop takes its head, and every step is a step
  of `ClosableQueue` or leaves it unchanged.
- **`MasterProofs`**: `TypeCorrect` and `LocksAreDisciplined`, that is, who holds
  which mutex where, and with it that the order of the mutexes is the same in all
  threads. `LockDiscipline` is not inductive: where a thread goes after
  `sendRaw` depends on what it was sending, so the invariant needs `Flow`, what
  each thread has in its hands at which place. `LockDiscipline` is left to the proof; no
  run needs to check it.
  `ClientsAreTold` is about a signal that the main thread handles
  (`SignalHosts \subseteq {"run"}`, as in the run): on the stack of another thread the
  handler can be overtaken by `start()`, which returns and ends the process. `FarewellInv`
  says that, as long as the daemon keeps the session, nobody but
  `disconnect()` closes it, and that does so after the farewell.
  The larger part is the way of the messages. The pipeline is a row of six
  stages, from what has been relayed back to what has just been received, and
  `Order` says that whatever is in a later stage has arrived earlier. `Accounted` says of
  a message that is in no stage who has given it up: the plugin thread, and
  then it relays nothing any more, or a thread behind it, and then nothing that arrived later
  is ahead of that thread. `Stopping` says that threads give up only after `stop()` has
  begun. With them `NothingIsLost` and `RelayKeepsOrder` follow, for any number
  of failures and a stop at any moment. `ArchivedUntilStopped` and
  `ArchivedBeforeRelayed` add what is written of the message in hand (`Archived`): the
  notifiers that are stored or counted as errors, and those still to do, are all there
  are. So until `stop()` disables the plugin, every notifier of a relayed message is
  stored or counted, with refused queries and connections that come back at
  any moment (`WrittenOrCounted`). That all are *stored* is proved for the messages without a counted error, of
  a master that nothing stops (`SignalHosts = {}`, `~PluginFails`); without these
  words it is false, as section 6 says.
  `RegistryIsExact` speaks of every session, not only of the first. `Due` says that `due` is
  who has connected since the registry was emptied, or was
  still waiting then; `Enrolled` how the registry differs from it by
  just the messages that wait for the run thread (`Waiting`); `ClientsKept` and `PendingWaits`
  that an emptied registry is filled again by nothing else.
- **`MasterArchiveProofs`**: `TypeCorrect`, that is, numbers stay within their bound and an
  index inside the archive, and `NoUseAfterFree`. Archiving deletes the message in
  the slot; that nobody holds it follows from `Owned` (the run thread keeps
  the archive mutex for a whole request, the plugin thread's message is not yet in the
  archive when it archives it) and `Distinct` (no message is in two slots).
- **`SeedlinkStationProofs`**: all safety properties of the station, for any number of
  clients, packets, buffers and files, and for crashes at any moment.
  The invariant `Inv` is stated over values, so that the same lemma speaks
  of the state before and after a step: `Chain` is about the files (all but the last are full and
  each begins where the one before it ends), `Linked` about the list of buffers, `Recent` about the
  packets in it, `Handed` and `Leading` about `buf_free` and `buf_first`; `Placed` is
  about the cursor of a client. `StoreConsistent` is not inductive
  because it says nothing of the buffers that are handed out, which are the first of the
  list and empty (`Handed`): without that `queue_buffer` could leave a hole in the list.
  `CursorsValid` is not, because it says nothing of where the file
  cursor meets memory: the two are compared by sequence number, so `InFile` says
  that a file cursor does not pass the memory cursor, and that at the same
  place the numbers are equal. From this follow `TypeCorrect`, `StoreStaysConsistent`,
  `CursorsStayValid` and `ServerChecksHold`.
  `ClientsScheduled` adds `MarkInv`: an inactive client has no cursor, and an active one
  that is not marked has nothing to read or waits since before END.
  `NoPacketSkipped` and `SkippedOnlyByOldNumber` add `SkipInv`: of the packets before the
  position of a client (`Pos`) it has got all it has selected. Each way in which a cursor
  moves has a lemma that says where it goes: `RecycledPos` and `EndOfFilePos` leave it,
  `StoredPos` only passes packets that are deleted with their file, `ReadTakes` passes the
  packet it sends, and `FoundIs` and `ResumeIs` say where a request begins.
  `PacketsInOrder` adds `OrderInv`: on disk a higher number was stored later (`Ages`); what
  a client has received last is older than everything with a higher number (`Older`), and it
  is before the cursor and before `Limit`, the first number that is given out after a crash
  and its blanks.
  Hypotheses: `DiskOutlasts` (`~GrowsFull` and `MaxBuffers <= (Segments - 1) * SegmentSize`)
  everywhere. The defaults satisfy the second part (100 buffers; 50 files of 1000 packets in
  seedlink.xml, 2 files of 100 in seedlink.cc:123-126, which leaves nothing for an
  enlargement); the code enforces neither, and section 6 has what happens otherwise.
  `SkippedOnlyByOldNumber` holds for any number of packets and says what the one way to lose
  a packet is: it assumes of every step that a client that has not opened its file yet is
  switched to memory only where it really is (`TrueSwitch`). `NoPacketSkipped` is the case
  `MaxPackets < Mod`, fewer than 2^24 packets of the station, in which every switch is true;
  section 6 shows what happens beyond.
  `MaxLost <= Blanks` and `RecoveryKeeps` for `PacketsInOrder`: a crash loses no more packets
  than there are blanks (10 by default), and a crash during recovery no more than the
  recovery has stored.
- **`SeedlinkConnectionProofs`**: `CountersAreExact`, `SocketIsWatched`, `SharesAreFair`
  and `EndIsSentLast`, for any number of stations. The counters are changed in
  nine places, and what makes them right is the conversation: `Dialogue` says which
  commands can still come in which phase, `Owed` that a station without a request has nothing to send,
  `Interest` who has asked for the socket in which of the two sets. For the
  round robin, `Robin` compares the packets a ready station has let through with
  the stations that had their turn since its own (`Passed`): the turn moves over the
  stations in the order of their keys and around, so `Passed` grows by one with each turn and
  never reaches all.
- **`ScardacProofs`**: `ProcessedOnce`, for any number of streams and workers, any size of
  the queue and an exit at any moment. `Once` places a stream that was found with the main
  thread, in the queue or with those taken, in one of them only; `Queued` puts the last item behind
  everything, so the worker that closes the queue drops nothing (`ClosedLast`); `Handled` says that a
  stream that was taken is still with a worker or done. The thirteen steps of
  `processExtent` are alike here (`ProcessingForm`). There is at least one worker
  (scardac.cpp:898), an assumption of the module.
- **`StreamApplicationProofs`**: `TypeCorrect`, `LockBelongsToSync` and `SyncsAreInTime`, for
  any size of the queue and any number of records, messages and losses. The lock is
  taken by one thread and freed by another, so the invariant follows it: from
  `storeRecord` to the Sync event, of which there is at most one in the queue, to
  the states of `sync()`. `TimeInv` counts what can be handled before the sync: the records
  in the queue, the one in hand and one that the record thread stores before it
  sees the request, which together never exceed the queue and two.
- **`SystemConnectionProofs`**: `TypeCorrect`, `GroupsAreJoinedAgain` and
  `MessagesAreReadOnce`. `Resubscribed` speaks of a reader that reads; the invariant
  `InGroups` says the same of the place behind a reconnect, where the application decides
  whether to read. `OnceInv` splits what has
  arrived between the places a message can be in (`Single`, `Disjoint`,
  `Complete`), and `Fresh` says that what the daemon holds has not arrived yet. Four
  actions move a message (`ReceiveMessage`, `QueueMessage`, `ReadLocalMessage`,
  `ClearQueue`) and have a lemma each; of all others `NothingMoves` is all one needs
  to know. `OnceMeansReadOnce` counts.

Only model-checked: all liveness and the fairness part of the refinement, which are out
of the prover's reach (`CatchesUp` of the station among them); and what a fold over a sequence
computes, on which the segments of `Scardac` stand (`IndexExact` with the types, and
`ConfirmedKept`).

## 6. Where code and text disagree

Three are runs of their own, whose property quotes the text and which TLC shows
violated.

1. `connection_ping`: seedlink.rst says that a client gets all data and, in dial-up
   mode, END; the answer to a WebSocket ping clears `handshaking_done`
   (iosystem.cc:2401) and the transfer stops for good (`EndComes`).
2. `stream_close`: streamapplication.h says that `acquisitionFinished()` finishes the
   application; if its Close event is taken by the loop inside `sync()`, only that
   loop ends (application.cpp:2233), and the application goes on without a record thread
   (`EndsWhenFinished`).
3. `connection_queue`: systemconnection.h says that `receive()` blocks if no message is
   available; one that `send()` of another thread queues between the look at the queue and
   the blocking read (systemconnection.cpp:833) waits for the next message to arrive
   (`QueuedIsRead`).

The others can be seen by adding a property to the cfg of a run, or by changing its
constants. The formulas are in the modules, with a comment that says so.

- `StopTerminates` (`Master`), under `master_stop`: master.h says that `stop()` stops the
  server; if SIGTERM arrives while the main thread is inside `sendRaw`, the handler waits for the
  mutex that its own suspended frame holds (scmaster.cpp:54).
- `StoredBeforeRelayed` (`Master`), under `master_relay`: scmaster.rst says that a message is
  stored before it is distributed; a write fails, the connection is back when
  `isConnected()` asks (dbplugin.cpp:97; MySQL's check reconnects,
  mysqldatabaseinterface.cpp:83-84, 156-175), and the notifier is passed over as if the query
  had been wrong (dbplugin.cpp:107-118). `stop()` leads to the same: a plugin that it has
  disabled gives up (dbplugin.cpp:100), and the message is relayed nevertheless.
- `EveryMessageRelayed` (`Master`), under `master_relay` with `Kinds = {"data", "query"}` and
  `Oversized = {1}`: scmaster.rst says that every message is relayed; an answer to
  LIST_CONNECTED_CLIENTS_CMD_MSG that is too long for the driver (spreaddriver.cpp:297-311)
  is sent again and again by `sendRaw` (master.cpp:863) with `_sendMutex` held, and nothing else
  is sent any more.
- `ExitEndsReader` (`SystemConnection`), under `system_connection`: application.h says that
  `exec()` waits until `exit()` is called; if a
  multicast of the main thread fails on a lost session and its `handleError()`
  (spreaddriver.cpp:590) comes after the message thread has reconnected, the flags say that there is
  no connection, `done()` skips `disconnect()` (application.cpp:2337), and the message
  thread it joins blocks in a session that works. A message that
  arrives, or the end of the session, wakes it.
- `ArchiveComplete` (`MasterArchive`), under `master_archive`: master.h promises all messages from a
  sequence number on; `sendAndArchive` archives a message before it is numbered
  (master.cpp:839), so every message goes to slot 0.
- `RelayedAsData` (`MasterArchive`), under `master_archive`: scmaster.rst says that messages are relayed to
  their groups; a request can turn a message that is about to be sent for the first time into
  an archive message (master.cpp:1030), which clients ignore.
- `ChecksHold` (`SeedlinkStation`), under `seedlink_station` with `GrowsFull = TRUE`: iosystem.cc
  asserts that no buffer without a packet is delivered; `enlarge()` of a full memory
  (iosystem.cc:511) makes delivery reach one, and the server exits.
- `InOrder` under `seedlink_station` with `Segments = 2` (so that memory reaches further back
  than the files but the oldest): a client under which the oldest file is deleted
  (iosystem.cc:1410) never meets the number at which it would switch to memory,
  and gets packets twice, where seedlink.rst promises FIFO order. The ranges in
  seedlink.cc:1406-1409 allow such a configuration.
- `NothingSkipped` under `seedlink_station` with `MaxPackets = 14` (more than a cycle of 11
  numbers) and `MaxStops = 0`: a client whose file is deleted is put at the beginning of the
  next one, but keeps the sequence number it had (iosystem.cc:1408-1411). The number is set
  when the file is opened (iosystem.cc:1106); `do_deliver` compares it with that in memory
  before (iosystem.cc:1090), and if a whole cycle of numbers has passed meanwhile, takes the
  client to be at the packet in memory and passes over the files. With 2^24 numbers it takes
  a client that reads nothing for that many packets. By `SkippedOnlyByOldNumber` it is the
  only way in which a packet is passed over.
- `InOrder` under `seedlink_station` with `MaxStops = 2`: the server crashes and loses the last
  packet, and crashes again before it has created its blanks, losing one more. The blanks
  then fill the numbers of the first loss only in part, and a number that a client has
  received is given to another packet.
- `ExtentKept` (`Scardac`), under `scardac`: an exit before the first record is read takes the
  stream for empty and removes its extent, although its data are there
  (scardac.cpp:373-376). No text speaks of it; the next scan puts it right.
- Without a formula (`Scardac`): after an exit the workers leave, and `run()` blocks in `push`
  (scardac.cpp:995) if the streams do not all fit into the queue. No text
  promises that it returns; `ScanEnds` claims the end after an exit only if they fit.

## 7. Not modelled

- The rest of section 1's table, for the reasons given there and in
  `PROJECT.json`. Most of the repository is generated code (wrappers, schema classes),
  numerical code, graphical programs and vendored libraries.
- Queue: signals inside a critical section, resize of a queue in use.
- Master: contents of messages beyond their kind, connection statistics, and what section 3 names.
- SeedLink connection: commands other than INFO during the transfer, the end of a
  connection, the look-up in stored packets (the station's subject), and limits on connections.
- SeedLink station: time windows (the connection has them), partial records on disk after a crash
  (the server then refuses to start), loss of all packets on disk.
- scardac: the walk over directories, the generation of test data, a database
  connection that fails once it is made.
- Application: its start, timers, what the handlers of concrete applications do
  beyond asking for a sync.
- Messaging connection: what section 3 names.
