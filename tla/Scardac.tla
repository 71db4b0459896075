------------------------------- MODULE Scardac -------------------------------
(***************************************************************************)
(* scardac keeps the index of a waveform archive in the database: for each *)
(* stream an extent, its attribute extents and its segments.  The main     *)
(* thread queues the streams it finds in the database and in the archive,  *)
(* worker threads take them, read the files of a stream and bring its rows *)
(* up to date.  Everybody leaves early when an exit is requested.          *)
(*                                                                         *)
(* The queue behaves as ClosableQueue specifies; the database is reached   *)
(* through one connection for reading and one for writing per worker.      *)
(***************************************************************************)
EXTENDS Naturals, Sequences, FiniteSets, SequencesExt

CONSTANTS
  Streams,      \* identifiers of streams
  Workers,      \* identifiers of worker threads
  Setups,       \* what a scan may start from: archive, rows and number of threads
  Capacity,     \* size of the work queue (MAX_THREADS)
  Jitter,       \* tolerance between the end of a record and the next one
  BatchSize,    \* segments that are written in one transaction
  MaxSegments,  \* segments of a stream that are indexed
  None

ASSUME ScardacAssumption ==
  /\ Capacity \in Nat \ {0}
  /\ BatchSize \in Nat \ {0}
  /\ None \notin Streams
  /\ \A S \in Setups : S.threads \subseteq Workers /\ S.threads # {}

VARIABLES
  setup,      \* the archive, what is indexed and the worker threads, fixed
  main,       \* main thread: where it is, the stream it pushes
  pushed,     \* streams that have been queued, with those of _extentMap
  workQueue, closed,
  exitRequested,
  worker,     \* worker[t]: the locals of processExtents and processExtent
  conn,       \* conn[t]: which of _dbRead and _dbWrite are connected
  db,         \* db[s]: the rows of stream s
  taken,      \* history: how often a stream has been taken from the queue
  outcome     \* history: how the processing of a stream has ended

pool == <<main, pushed, workQueue, closed>>
vars == <<setup, main, pushed, workQueue, closed, exitRequested, worker, conn,
          db, taken, outcome>>

End == None            \* the item without an extent that ends the queue
Files(s) == setup.archive[s]

-----------------------------------------------------------------------------
(* Segments.  A record and a segment have a start, an end and a kind (sampling *)
(* rate and quality); a segment also tells if it was out of order.           *)

Follows(rec, seg) ==
  /\ rec.start <= seg.end + Jitter
  /\ seg.end <= rec.start + Jitter
  /\ rec.kind = seg.kind

NewSegment(rec, ooo) ==
  [start |-> rec.start, end |-> rec.end, kind |-> rec.kind, ooo |-> ooo]

\* One record is merged with the current segment or begins the next one.
AddRecord(r, rec) ==
  IF r.seg = None THEN [r EXCEPT !.seg = NewSegment(rec, FALSE)]
  ELSE IF Follows(rec, r.seg) THEN [r EXCEPT !.seg.end = rec.end]
  ELSE [segs |-> Append(r.segs, r.seg),
        seg |-> NewSegment(rec, rec.start < r.seg.start),
        outOfOrder |-> r.outOfOrder \/ rec.start < r.seg.start]

\* The segments of a file, of which the first may continue the current segment.
FileSegments(records, current) ==
  LET r == FoldLeft(AddRecord, [segs |-> <<>>, seg |-> current, outOfOrder |-> FALSE],
                    records)
      all == IF r.seg = None THEN <<>> ELSE Append(r.segs, r.seg)
  IN  IF r.outOfOrder THEN SortSeq(all, LAMBDA a, b : a.start < b.start) ELSE all

EmptyScan == [start |-> 0, end |-> 0, updated |-> 0, overflow |-> FALSE,
              attrs |-> [k \in {} |-> None]]

Larger(a, b) == IF a < b THEN b ELSE a

UpdateAttribute(attrs, seg) ==
  [k \in DOMAIN attrs \cup {seg.kind} |->
     IF k # seg.kind THEN attrs[k]
     ELSE IF k \notin DOMAIN attrs
     THEN [start |-> seg.start, end |-> seg.end, count |-> 1]
     ELSE [attrs[k] EXCEPT !.end = Larger(@, seg.end), !.count = @ + 1]]

UpdateExtent(scan, seg) ==
  [scan EXCEPT !.start = IF @ = 0 THEN seg.start ELSE @,
               !.end = Larger(@, seg.end),
               !.attrs = UpdateAttribute(@, seg)]

-----------------------------------------------------------------------------
(* The buffers of a worker.  b: the rows, the buffers, the connections.       *)

InsertRow(rows, seg) ==
  IF \E r \in rows : r.start = seg.start THEN rows ELSE rows \cup {seg}

Connects(t, c) == ~exitRequested \/ c \in conn[t]

\* Removals first, then additions; without a connection both are dropped.
Flushed(b, up) ==
  IF b.remove = <<>> /\ b.add = <<>> THEN b
  ELSE [rows |-> IF up THEN FoldLeft(InsertRow, b.rows \ ToSet(b.remove), b.add)
                 ELSE b.rows,
        remove |-> <<>>, add |-> <<>>,
        conn |-> IF up THEN b.conn \cup {"write"} ELSE b.conn]

Bounded(b, up) ==
  IF Len(b.remove) + Len(b.add) >= BatchSize THEN Flushed(b, up) ELSE b

RemoveBuffered(b, row, up) == Bounded([b EXCEPT !.remove = Append(@, row)], up)
AddBuffered(b, seg, up) == Bounded([b EXCEPT !.add = Append(@, seg)], up)

Buffers(t) == [rows |-> db[worker[t].item].rows, remove |-> worker[t].remove,
               add |-> worker[t].add, conn |-> conn[t]]

-----------------------------------------------------------------------------
(* SCARDAC::run: the main thread.                                             *)

Idle == [pc |-> "loop", item |-> None, file |-> 0, segs |-> <<>>, current |-> None,
         left |-> <<>>, remove |-> <<>>, add |-> <<>>, scan |-> EmptyScan, count |-> 0]

Init ==
  /\ setup \in Setups
  /\ main = [pc |-> "extents", item |-> None]
  /\ pushed = {}
  /\ workQueue = <<>>
  /\ closed = FALSE
  /\ exitRequested = FALSE
  /\ worker = [t \in Workers |-> IF t \in setup.threads THEN Idle
                                 ELSE [Idle EXCEPT !.pc = "left"]]
  /\ conn = [t \in Workers |-> {}]
  /\ db = setup.db
  /\ taken = [s \in Streams |-> 0]
  /\ outcome = [s \in Streams |-> "pending"]

Indexed == {s \in Streams : setup.db[s].extent # None}
InArchive == {s \in Streams : Files(s) # <<>>}

Queue(i) == [main EXCEPT !.pc = "push", !.item = i]
NotMapped(s) == UNCHANGED pushed
Mapped(s) == pushed' = pushed \cup {s}

\* The streams of the database are queued one after the other.
PushExtent ==
  /\ main.pc = "extents"
  /\ IF Indexed \subseteq pushed
     THEN main' = [main EXCEPT !.pc = "archive"] /\ UNCHANGED pushed
     ELSE \E s \in Indexed \ pushed :
            main' = [Queue(s) EXCEPT !.pc = "pushExtent"] /\ pushed' = pushed \cup {s}
  /\ UNCHANGED <<setup, workQueue, closed, exitRequested, worker, conn, db, taken, outcome>>

\* checkDirectory and checkFiles find the streams the database does not have.
CheckFiles ==
  /\ main.pc = "archive"
  /\ IF exitRequested \/ InArchive \subseteq pushed
     THEN main' = [main EXCEPT !.pc = "marker", !.item = End] /\ UNCHANGED pushed
     ELSE \E s \in InArchive \ pushed :
            main' = Queue(s) /\ Mapped(s)
  /\ UNCHANGED <<setup, workQueue, closed, exitRequested, worker, conn, db, taken, outcome>>

\* A push waits for room; on a closed queue it has no effect.
Push ==
  /\ main.pc \in {"pushExtent", "push", "marker"}
  /\ closed \/ Len(workQueue) < Capacity
  /\ workQueue' = IF closed THEN workQueue ELSE Append(workQueue, main.item)
  /\ main' = [pc |-> CASE main.pc = "pushExtent" -> "extents"
                       [] main.pc = "push" -> "archive"
                       [] main.pc = "marker" -> "join",
              item |-> None]
  /\ UNCHANGED <<setup, pushed, closed, exitRequested, worker, conn, db, taken, outcome>>

Join ==
  /\ main.pc = "join"
  /\ \A t \in Workers : worker[t].pc = "left"
  /\ main' = [main EXCEPT !.pc = "returned"]
  /\ UNCHANGED <<setup, pushed, workQueue, closed, exitRequested, worker, conn, db, taken,
                 outcome>>

\* Application::exit, called by the signal handler.  It closes the queue of the
\* application, not the work queue.
RequestExit ==
  /\ ~exitRequested
  /\ exitRequested' = TRUE
  /\ UNCHANGED <<setup, pool, worker, conn, db, taken, outcome>>

-----------------------------------------------------------------------------
(* SCARDAC::processExtents: the loop of a worker thread.                      *)

Go(t, pc) == worker' = [worker EXCEPT ![t].pc = pc]
Leave(t) == worker' = [worker EXCEPT ![t] = [Idle EXCEPT !.pc = "left"]]
Back(t, how) ==
  /\ worker' = [worker EXCEPT ![t] = Idle]
  /\ outcome' = [outcome EXCEPT ![worker[t].item] = how]

Loop(t) ==
  /\ worker[t].pc = "loop"
  /\ IF exitRequested THEN Leave(t) ELSE Go(t, "pop")
  /\ UNCHANGED <<setup, pool, exitRequested, conn, db, taken, outcome>>

PopClosed(t) ==
  /\ worker[t].pc = "pop"
  /\ closed
  /\ Leave(t)
  /\ UNCHANGED <<setup, pool, exitRequested, conn, db, taken, outcome>>

Pop(t) ==
  /\ worker[t].pc = "pop"
  /\ ~closed
  /\ workQueue # <<>>
  /\ workQueue' = Tail(workQueue)
  /\ IF Head(workQueue) = End
     THEN Go(t, "close") /\ UNCHANGED taken
     ELSE /\ worker' = [worker EXCEPT ![t].pc = "list", ![t].item = Head(workQueue)]
          /\ taken' = [taken EXCEPT ![Head(workQueue)] = @ + 1]
  /\ UNCHANGED <<setup, main, pushed, closed, exitRequested, conn, db, outcome>>

LeavesOpen == UNCHANGED closed
Closes == closed' = TRUE

\* The last item closes the queue for the other workers.
CloseQueue(t) ==
  /\ worker[t].pc = "close"
  /\ Closes
  /\ Leave(t)
  /\ UNCHANGED <<setup, main, pushed, workQueue, exitRequested, conn, db, taken, outcome>>

-----------------------------------------------------------------------------
(* Worker::processExtent.                                                     *)

ListFiles(t) ==
  /\ worker[t].pc = "list"
  /\ IF exitRequested THEN Back(t, "interrupted") ELSE Go(t, "open") /\ UNCHANGED outcome
  /\ UNCHANGED <<setup, pool, exitRequested, conn, db, taken>>

ByStart(rows) == SetToSortSeq(rows, LAMBDA a, b : a.start < b.start)

\* A stream of the database: its rows are read, ordered by their start.
LoadSegments(t) ==
  LET s == worker[t].item IN
  /\ worker[t].pc = "open"
  /\ s \in Indexed
  /\ IF Connects(t, "read")
     THEN /\ worker' = [worker EXCEPT ![t].pc = "files", ![t].file = 1, ![t].left = ByStart(db[s].rows)]
          /\ conn' = [conn EXCEPT ![t] = @ \cup {"read"}]
          /\ UNCHANGED outcome
     ELSE Back(t, "interrupted") /\ UNCHANGED conn
  /\ UNCHANGED <<setup, pool, exitRequested, db, taken>>

\* A new stream: its extent is written first.
AddExtent(t) ==
  LET s == worker[t].item IN
  /\ worker[t].pc = "open"
  /\ s \notin Indexed
  /\ IF Connects(t, "write")
     THEN /\ worker' = [worker EXCEPT ![t].pc = "files", ![t].file = 1]
          /\ conn' = [conn EXCEPT ![t] = @ \cup {"write"}]
          /\ db' = [db EXCEPT ![s].extent = [start |-> 0, end |-> 0, updated |-> 0,
                                             overflow |-> FALSE]]
          /\ UNCHANGED outcome
     ELSE Back(t, "interrupted") /\ UNCHANGED <<conn, db>>
  /\ UNCHANGED <<setup, pool, exitRequested, taken>>

NextFile(t) ==
  LET w == worker[t] IN
  /\ w.pc = "files"
  /\ IF w.file > Len(Files(w.item)) \/ exitRequested \/ w.scan.overflow
     THEN Go(t, "last")
     ELSE worker' = [worker EXCEPT ![t].pc = "read",
                       ![t].scan.updated = Larger(@, Files(w.item)[w.file].mtime)]
  /\ UNCHANGED <<setup, pool, exitRequested, conn, db, taken, outcome>>

\* readFileSegments: an exit that is requested, or arrives, ends it behind a record.
ReadFile(t) ==
  LET w == worker[t]
      records == Files(w.item)[w.file].records IN
  /\ w.pc = "read"
  /\ \E n \in IF exitRequested THEN {0} ELSE 0..Len(records) :
       LET segs == FileSegments(SubSeq(records, 1, n), w.current) IN
       /\ worker' = [worker EXCEPT ![t].pc = IF segs = <<>> THEN "files" ELSE "segments",
                                   ![t].segs = segs,
                                   ![t].file = w.file + 1]
       /\ exitRequested' = (exitRequested \/ n < Len(records))
  /\ UNCHANGED <<setup, pool, conn, db, taken, outcome>>

OverflowsLate(w) == w.scan.overflow \/ w.count > MaxSegments
Overflows(w) == w.scan.overflow \/ w.count >= MaxSegments

\* One segment of the file.  The last one is kept: the next file may continue it.
NextSegment(t) ==
  LET w == worker[t]
      over == Overflows(w)
      seg == Head(w.segs)
      kept == [w EXCEPT !.scan.overflow = over, !.current = seg, !.segs = Tail(@)]
      counted == [kept EXCEPT !.count = @ + 1, !.scan = UpdateExtent(@, seg)] IN
  /\ w.pc = "segments"
  /\ IF exitRequested THEN Back(t, "interrupted")
     ELSE /\ worker' = [worker EXCEPT ![t] =
               IF Len(w.segs) = 1 THEN [kept EXCEPT !.pc = "files"]
               ELSE IF over THEN counted
               ELSE [counted EXCEPT !.pc = "find"]]
          /\ UNCHANGED outcome
  /\ UNCHANGED <<setup, pool, exitRequested, conn, db, taken>>

\* The segment that was kept, behind the last file.
LastSegment(t) ==
  LET w == worker[t] IN
  /\ w.pc = "last"
  /\ worker' = [worker EXCEPT ![t] =
       IF w.current # None /\ ~w.scan.overflow
       THEN [w EXCEPT !.pc = "find", !.scan = UpdateExtent(@, w.current)]
       ELSE [w EXCEPT !.pc = "trailing"]]
  /\ UNCHANGED <<setup, pool, exitRequested, conn, db, taken, outcome>>

\* The rows before the segment are looked at one by one: those that differ are removed.
PassesEarlier(w) ==
  /\ ~exitRequested
  /\ w.left # <<>>
  /\ Head(w.left).start < w.current.start
Passes(w) ==
  /\ ~exitRequested
  /\ w.left # <<>>
  /\ Head(w.left).start <= w.current.start

\* The rows behind the last segment, until an exit is requested.
AnyBehind(w) == w.left # <<>>
Behind(w) == ~exitRequested /\ w.left # <<>>

Writable(t) == Connects(t, "write")
Written(t, w, b) ==
  /\ worker' = [worker EXCEPT ![t] = [w EXCEPT !.remove = b.remove, !.add = b.add]]
  /\ conn' = [conn EXCEPT ![t] = b.conn]
  /\ db' = [db EXCEPT ![w.item].rows = b.rows]
  /\ UNCHANGED <<setup, pool, exitRequested, taken, outcome>>

RemoveSegment(t) ==
  LET w == worker[t] IN
  /\ \/ w.pc = "find" /\ Passes(w) /\ Head(w.left) # w.current
     \/ w.pc = "trailing" /\ Behind(w)
  /\ Written(t, [w EXCEPT !.left = Tail(@)],
             RemoveBuffered(Buffers(t), Head(w.left), Writable(t)))

\* Behind the last segment there are none left of the file.
AfterSegment(w) == IF w.segs = <<>> THEN "trailing" ELSE "segments"

FindDBSegment(t) ==
  LET w == worker[t] IN
  /\ w.pc = "find"
  /\ Passes(w) /\ Head(w.left) = w.current
  /\ worker' = [worker EXCEPT ![t].pc = AfterSegment(w), ![t].left = Tail(@)]
  /\ UNCHANGED <<setup, pool, exitRequested, conn, db, taken, outcome>>

AddSegment(t) ==
  LET w == worker[t] IN
  /\ w.pc = "find"
  /\ ~Passes(w)
  /\ Written(t, [w EXCEPT !.pc = AfterSegment(w)],
             AddBuffered(Buffers(t), w.current, Writable(t)))

\* The rows behind the last segment are gone; the buffers are written.
FlushSegmentBuffers(t) ==
  LET w == worker[t] IN
  /\ w.pc = "trailing"
  /\ ~Behind(w)
  /\ Written(t, [w EXCEPT !.pc = "attributes", !.left = <<>>],
             Flushed(Buffers(t), Writable(t)))

\* syncAttributeExtents leaves the attribute extents of the scan.
SyncAttributeExtents(t) ==
  LET w == worker[t] IN
  /\ w.pc = "attributes"
  /\ IF Connects(t, "write")
     THEN /\ db' = [db EXCEPT ![w.item].attrs = w.scan.attrs]
          /\ conn' = [conn EXCEPT ![t] = @ \cup {"write"}]
     ELSE UNCHANGED <<db, conn>>
  /\ Go(t, "extent")
  /\ UNCHANGED <<setup, pool, exitRequested, taken, outcome>>

\* The extent takes the values of the scan if its times have changed; without a
\* segment it is removed.
NewExtent(old, scan) ==
  IF <<old.start, old.end, old.updated>> = <<scan.start, scan.end, scan.updated>> THEN old
  ELSE [start |-> scan.start, end |-> scan.end, updated |-> scan.updated,
        overflow |-> scan.overflow]

FinishExtent(t) ==
  LET w == worker[t]
      s == w.item IN
  /\ w.pc = "extent"
  /\ IF Connects(t, "write")
     THEN /\ db' = [db EXCEPT ![s].extent = IF w.current = None THEN None
                                            ELSE NewExtent(@, w.scan)]
          /\ conn' = [conn EXCEPT ![t] = @ \cup {"write"}]
     ELSE UNCHANGED <<db, conn>>
  /\ Back(t, IF exitRequested THEN "interrupted"
             ELSE IF w.scan.overflow THEN "overflow" ELSE "complete")
  /\ UNCHANGED <<setup, pool, exitRequested, taken>>

ProcessExtent(t) ==
  \/ ListFiles(t) \/ LoadSegments(t) \/ AddExtent(t)
  \/ NextFile(t) \/ ReadFile(t) \/ NextSegment(t) \/ LastSegment(t)
  \/ FindDBSegment(t) \/ RemoveSegment(t) \/ AddSegment(t)
  \/ FlushSegmentBuffers(t) \/ SyncAttributeExtents(t) \/ FinishExtent(t)

WorkerStep(t) ==
  \/ Loop(t) \/ PopClosed(t) \/ Pop(t) \/ CloseQueue(t)
  \/ ProcessExtent(t)

Main == PushExtent \/ CheckFiles \/ Push \/ Join

Next == Main \/ RequestExit \/ \E t \in Workers : WorkerStep(t)

\* The loops of the threads always go on; nobody has to request an exit.
Fairness == WF_vars(Main) /\ \A t \in Workers : WF_vars(WorkerStep(t))

Spec == Init /\ [][Next]_vars /\ Fairness

-----------------------------------------------------------------------------
(* Properties.                                                                *)

Kinds == UNION {{r.kind : r \in ToSet(f.records)} :
                f \in UNION {ToSet(Files(s)) : s \in Streams}}
                \cup UNION {{r.kind : r \in setup.db[s].rows} : s \in Streams}

Segments == [start : Nat, end : Nat, kind : Kinds, ooo : BOOLEAN]

\* The type of every variable, with the limit of the batches and of the queue.
TypeOK ==
  /\ main.item \in Streams \cup {End} /\ pushed \subseteq Streams
  /\ workQueue \in Seq(Streams \cup {End}) /\ Len(workQueue) <= Capacity
  /\ {closed, exitRequested} \subseteq BOOLEAN
  /\ \A t \in Workers :
       LET w == worker[t] IN
       /\ w.item \in Streams \cup {None}
       /\ w.current \in Segments \cup {None}
       /\ {w.segs, w.left, w.remove, w.add} \subseteq Seq(Segments)
       /\ Len(w.remove) + Len(w.add) < BatchSize
       /\ conn[t] \subseteq {"read", "write"}
  /\ \A s \in Streams : db[s].rows \subseteq Segments /\ taken[s] \in Nat

\* The segments of a whole archive file by file.
ArchiveSegments(s) ==
  FoldLeft(LAMBDA all, f : IF all = <<>> THEN FileSegments(f.records, None)
                           ELSE Front(all) \o FileSegments(f.records, Last(all)),
           <<>>, Files(s))

\* Of these, the ones within the limit.
IndexedSegments(s) ==
  LET all == ArchiveSegments(s) IN
  {all[i] : i \in {j \in DOMAIN all : j <= MaxSegments}}

Records(s) == UNION {ToSet(f.records) : f \in ToSet(Files(s))}
Covered(intervals, k) == UNION {i.start..(i.end - 1) : i \in {j \in intervals : j.kind = k}}
Least(S) == CHOOSE x \in S : \A y \in S : x <= y
Greatest(S) == CHOOSE x \in S : \A y \in S : y <= x

\* The rows cover the times of the records of the archive and no other, each kind
\* for itself; the attribute extents count these rows, and the extent reaches from
\* the first to the last record.  Without records nothing is left of the stream.
CoversArchive(s) ==
  LET e == db[s].extent
      rows == db[s].rows
      times == {r.start : r \in Records(s)} \cup {r.end : r \in Records(s)} IN
  /\ \A k \in Kinds : Covered(rows, k) = Covered(Records(s), k)
  /\ DOMAIN db[s].attrs = {r.kind : r \in rows}
  /\ \A k \in DOMAIN db[s].attrs :
       db[s].attrs[k].count = Cardinality({r \in rows : r.kind = k})
  /\ IF times = {} THEN e = None
     ELSE e.start = Least(times) /\ e.end = Greatest(times)

\* Every variable has its type.  When the scan of a stream has ended without an
\* exit, its index is that of the archive, whatever was indexed before; if the limit
\* of segments is reached, in the middle of a file, at its end or between two files,
\* the rows are the first ones.  The merge of records, the carry of a segment to the
\* next file, the removal of rows during the search and the batches must add up to
\* this.
IndexExact ==
  /\ TypeOK
  /\ \A s \in Streams :
       /\ outcome[s] = "complete" => CoversArchive(s)
       /\ outcome[s] \in {"complete", "overflow"} => db[s].rows = IndexedSegments(s)

\* No stream is processed twice, and when run has returned without an exit all
\* streams have been processed: the item without an extent is the last one, and
\* the worker that closes the queue does not take work from the others.
EachOnce ==
  /\ \A s \in Streams : taken[s] <= 1
  /\ main.pc = "returned" /\ ~exitRequested
       => \A s \in Indexed \cup InArchive :
            taken[s] = 1 /\ outcome[s] \in {"complete", "overflow"}

\* Whenever an exit arrives, a row that the archive still confirms is not removed.
ConfirmedKept ==
  [][\A s \in Streams :
       \A r \in db[s].rows \ db'[s].rows :
         r \notin IndexedSegments(s)]_vars

\* run returns.  After an exit it does so if the queue has room for all streams
\* and the last item: the workers leave, and nobody pops for the main thread.
ScanEnds ==
  <>(\/ main.pc = "returned"
     \/ exitRequested /\ Cardinality(Indexed \cup InArchive) >= Capacity)

\* An extent that has data is kept, whatever happens to the scan.  The code does not
\* keep to it: an exit before the first record is read takes the stream for empty
\* (scardac.cpp:373-376).
ExtentKept ==
  \A s \in Streams :
    setup.db[s].extent # None /\ Records(s) # {} => db[s].extent # None
=============================================================================
