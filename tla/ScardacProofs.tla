--------------------------- MODULE ScardacProofs ---------------------------
(***************************************************************************)
(* A theorem about Scardac, for any archive, any number of streams and     *)
(* worker threads, any size of the work queue and an exit at any moment:   *)
(* every stream is processed once.                                         *)
(*                                                                         *)
(* The proof follows a stream from the producer through the queue to a     *)
(* worker.  What a worker does in between with files, segments and rows is *)
(* of no concern here: ProcessingForm says what all its steps have in      *)
(* common.                                                                 *)
(***************************************************************************)
EXTENDS Scardac, TLAPS

Producing == {"extents", "pushExtent", "archive", "push"}
Ending == {"join", "returned"}
Processing == {"list", "open", "files", "read", "segments", "last", "find", "trailing",
               "attributes", "extent"}
Between == {"loop", "pop", "close", "left"}
Processed == {"complete", "overflow"}

\* The types of the variables that the steps of a stream are told by.
Shape ==
  /\ setup \in Setups /\ setup.threads \subseteq Workers /\ setup.threads # {}
  /\ main \in [pc : Producing \cup {"marker"} \cup Ending, item : Streams \cup {None}]
  /\ pushed \subseteq Streams
  /\ workQueue \in Seq(Streams \cup {End})
  /\ closed \in BOOLEAN /\ exitRequested \in BOOLEAN
  /\ DOMAIN worker = Workers
  /\ \A t \in Workers : DOMAIN worker[t] = DOMAIN Idle
  /\ taken \in [Streams -> {0, 1}]
  /\ DOMAIN outcome = Streams

\* The main thread holds a stream only to push it, and it goes on to the archive and
\* to the last item when it has pushed all streams there are, or an exit stops it.
Producer ==
  /\ IF main.pc \in {"pushExtent", "push"} THEN main.item \in pushed ELSE main.item = None
  /\ main.pc \in {"archive", "push", "marker"} \cup Ending => Indexed \subseteq pushed
  /\ main.pc \in {"marker"} \cup Ending => exitRequested \/ InArchive \subseteq pushed

\* The queue holds different streams, and behind them, when nothing is pushed any more,
\* the item that ends it.
Queued ==
  /\ \A i, j \in 1..Len(workQueue) : workQueue[i] = workQueue[j] => i = j
  /\ \A i \in 1..Len(workQueue) :
       workQueue[i] = End => i = Len(workQueue) /\ main.pc \in Ending

InQueue(s) == \E i \in 1..Len(workQueue) : workQueue[i] = s

\* A stream that has been found is with the main thread, in the queue or taken.
Once ==
  /\ \A s \in Streams : s \in pushed <=> main.item = s \/ InQueue(s) \/ taken[s] = 1
  /\ \A s \in Streams : InQueue(s) => main.item # s /\ taken[s] = 0
  /\ \A s \in Streams : main.item = s => taken[s] = 0

\* The queue is closed when it is empty and nothing is pushed any more.
ClosedLast ==
  closed \/ (\E t \in Workers : worker[t].pc = "close")
    => workQueue = <<>> /\ main.pc \in Ending

\* A worker leaves when the queue is closed or an exit is requested, and run waits
\* for all of them.
Leaving ==
  /\ \A t \in setup.threads : worker[t].pc = "left" => closed \/ exitRequested
  /\ main.pc = "returned" => \A t \in Workers : worker[t].pc = "left"

\* A stream that has been taken is with a worker or has been processed.
Handled ==
  /\ \A t \in Workers :
       \/ worker[t].pc \in Between /\ worker[t].item = None
       \/ worker[t].pc \in Processing /\ worker[t].item \in Streams
  /\ \A s \in Streams :
       taken[s] = 1 =>
         \/ \E t \in Workers : worker[t].item = s
         \/ outcome[s] \in Processed
         \/ exitRequested

IInv == Shape /\ Producer /\ Queued /\ Once /\ ClosedLast /\ Leaving /\ Handled

-----------------------------------------------------------------------------
(* What a worker does with a stream.                                          *)

\* The locals of a worker between two streams.
LEMMA IdleWorker ==
  /\ {"pc", "item"} \subseteq DOMAIN Idle
  /\ Idle.pc = "loop" /\ Idle.item = None
  /\ DOMAIN [Idle EXCEPT !.pc = "left"] = DOMAIN Idle
  /\ [Idle EXCEPT !.pc = "left"].pc = "left" /\ [Idle EXCEPT !.pc = "left"].item = None
BY DEF Idle

Others(t) ==
  /\ DOMAIN worker' = Workers
  /\ \A u \in Workers \ {t} : worker'[u] = worker[u]
  /\ DOMAIN worker'[t] = DOMAIN Idle

Continues(t) ==
  /\ Others(t)
  /\ worker'[t].pc \in Processing /\ worker'[t].item = worker[t].item
  /\ outcome' = outcome

Returns(t) ==
  /\ Others(t)
  /\ worker'[t] = Idle
  /\ \E how \in Processed \cup {"interrupted"} :
       /\ outcome' = [outcome EXCEPT ![worker[t].item] = how]
       /\ how = "interrupted" => exitRequested'

\* A step of processExtent goes on with the stream or returns, in which case the
\* stream has been processed or an exit is requested.
ProcessingStep(t) ==
  /\ UNCHANGED <<setup, pool, taken>>
  /\ exitRequested' \in BOOLEAN /\ (exitRequested => exitRequested')
  /\ worker[t].pc \in Processing
  /\ Continues(t) \/ Returns(t)

LEMMA Went ==
  ASSUME Shape, NEW t \in Workers, NEW pc \in Processing, Go(t, pc), outcome' = outcome
  PROVE  Continues(t)
BY IdleWorker DEF Shape, Go, Continues, Others

LEMMA WentBack ==
  ASSUME Shape, NEW t \in Workers, NEW how \in Processed \cup {"interrupted"},
         Back(t, how), how = "interrupted" => exitRequested'
  PROVE  Returns(t)
BY IdleWorker DEF Shape, Back, Returns, Others

LEMMA Wrote ==
  ASSUME Shape, NEW t \in Workers, NEW w, NEW b, DOMAIN w = DOMAIN Idle,
         w.pc \in Processing, w.item = worker[t].item,
         worker[t].pc \in Processing, Written(t, w, b)
  PROVE  ProcessingStep(t)
BY IdleWorker DEF Shape, Written, ProcessingStep, Continues, Others

LEMMA ProcessingForm ==
  ASSUME Shape, NEW t \in Workers, ProcessExtent(t)
  PROVE  ProcessingStep(t)
<1>1. CASE ListFiles(t)
  <2>1. CASE exitRequested
    BY <1>1, <2>1, WentBack DEF ListFiles, ProcessingStep, Processing, pool, Shape
  <2>2. CASE ~exitRequested
    BY <1>1, <2>2, Went DEF ListFiles, ProcessingStep, Processing, pool, Shape
  <2> QED
    BY <2>1, <2>2 DEF Shape
<1>2. CASE LoadSegments(t)
  <2>1. CASE Connects(t, "read")
    BY <1>2, <2>1, IdleWorker
    DEF LoadSegments, ProcessingStep, Processing, pool, Shape, Continues, Others
  <2>2. CASE ~Connects(t, "read")
    BY <1>2, <2>2, WentBack
    DEF LoadSegments, ProcessingStep, Processing, pool, Shape, Connects
  <2> QED
    BY <2>1, <2>2
<1>3. CASE AddExtent(t)
  <2>1. CASE Connects(t, "write")
    BY <1>3, <2>1, IdleWorker
    DEF AddExtent, ProcessingStep, Processing, pool, Shape, Continues, Others
  <2>2. CASE ~Connects(t, "write")
    BY <1>3, <2>2, WentBack
    DEF AddExtent, ProcessingStep, Processing, pool, Shape, Connects
  <2> QED
    BY <2>1, <2>2
<1>4. CASE NextFile(t)
  BY <1>4, IdleWorker
  DEF NextFile, Go, ProcessingStep, Processing, pool, Shape, Continues, Others
<1>5. CASE ReadFile(t)
  BY <1>5, IdleWorker
  DEF ReadFile, ProcessingStep, Processing, pool, Shape, Continues, Others
<1>6. CASE NextSegment(t)
  <2>1. CASE exitRequested
    BY <1>6, <2>1, WentBack DEF NextSegment, ProcessingStep, Processing, pool, Shape
  <2>2. CASE ~exitRequested
    <3> DEFINE w == worker[t]
               kept == [w EXCEPT !.scan.overflow = Overflows(w), !.current = Head(w.segs),
                                 !.segs = Tail(@)]
               counted == [kept EXCEPT !.count = @ + 1,
                                       !.scan = UpdateExtent(@, Head(w.segs))]
    <3>1. DOMAIN kept = DOMAIN w /\ kept.item = w.item
      OBVIOUS
    <3>2. DOMAIN counted = DOMAIN w /\ counted.item = w.item /\ counted.pc = w.pc
      BY <3>1
    <3> HIDE DEF kept, counted
    <3>3. DOMAIN w = DOMAIN Idle /\ {"pc", "item"} \subseteq DOMAIN w /\ w.pc = "segments"
      BY <1>6, IdleWorker DEF NextSegment, Shape
    <3>4. PICK v \in {[kept EXCEPT !.pc = "files"], counted, [counted EXCEPT !.pc = "find"]} :
            worker' = [worker EXCEPT ![t] = v]
      BY <1>6, <2>2 DEF NextSegment, kept, counted
    <3>5. DOMAIN v = DOMAIN Idle /\ v.pc \in Processing /\ v.item = w.item
      BY <3>1, <3>2, <3>3 DEF Processing
    <3>6. Continues(t)
      BY <1>6, <2>2, <3>4, <3>5 DEF NextSegment, Shape, Continues, Others
    <3> QED
      BY <1>6, <3>6 DEF NextSegment, ProcessingStep, Processing, pool, Shape
  <2> QED
    BY <2>1, <2>2
<1>7. CASE LastSegment(t)
  BY <1>7, IdleWorker
  DEF LastSegment, ProcessingStep, Processing, pool, Shape, Continues, Others
<1>8. CASE FindDBSegment(t)
  BY <1>8, IdleWorker
  DEF FindDBSegment, AfterSegment, ProcessingStep, Processing, pool, Shape, Continues, Others
<1>9. CASE RemoveSegment(t)
  BY <1>9, IdleWorker, Wrote DEF RemoveSegment, Processing, Shape
<1>10. CASE AddSegment(t)
  BY <1>10, IdleWorker, Wrote DEF AddSegment, AfterSegment, Processing, Shape
<1>11. CASE FlushSegmentBuffers(t)
  <2> DEFINE w == [worker[t] EXCEPT !.pc = "attributes", !.left = <<>>]
  <2>1. DOMAIN w = DOMAIN Idle /\ w.pc = "attributes" /\ w.item = worker[t].item
    BY IdleWorker DEF Shape
  <2> HIDE DEF w
  <2>2. worker[t].pc \in Processing /\ Written(t, w, Flushed(Buffers(t), Writable(t)))
    BY <1>11 DEF FlushSegmentBuffers, Processing, w
  <2> QED
    BY <2>1, <2>2, Wrote DEF Processing
<1>12. CASE SyncAttributeExtents(t)
  BY <1>12, Went DEF SyncAttributeExtents, ProcessingStep, Processing, pool, Shape
<1>13. CASE FinishExtent(t)
  <2> DEFINE how == IF exitRequested THEN "interrupted"
                    ELSE IF worker[t].scan.overflow THEN "overflow" ELSE "complete"
  <2>1. Back(t, how) /\ exitRequested' = exitRequested
    BY <1>13 DEF FinishExtent
  <2>2. how \in Processed \cup {"interrupted"} /\ (how = "interrupted" => exitRequested)
    BY DEF Processed
  <2>3. Returns(t)
    BY <2>1, <2>2, WentBack
  <2> QED
    BY <1>13, <2>1, <2>3 DEF FinishExtent, ProcessingStep, Processing, pool, Shape
<1> QED
  BY <1>1, <1>2, <1>3, <1>4, <1>5, <1>6, <1>7, <1>8, <1>9, <1>10, <1>11, <1>12, <1>13
  DEF ProcessExtent

-----------------------------------------------------------------------------
(* The invariant.                                                             *)

LEMMA InitInvariant == Init => IInv
<1> SUFFICES ASSUME Init PROVE IInv
  OBVIOUS
<1>1. /\ setup.threads \subseteq Workers /\ setup.threads # {} /\ DOMAIN worker = Workers
      /\ \A t \in Workers : t \in setup.threads => worker[t] = Idle
      /\ \A t \in Workers : worker[t] \in {Idle, [Idle EXCEPT !.pc = "left"]}
  BY ScardacAssumption DEF Init
<1>2. /\ \A t \in Workers : DOMAIN worker[t] = DOMAIN Idle /\ worker[t].item = None
      /\ \A t \in Workers : worker[t].pc \in {"loop", "left"}
      /\ \A t \in setup.threads : worker[t].pc = "loop"
  BY <1>1, IdleWorker
<1>3. Shape
  <2>1. workQueue \in Seq(Streams \cup {End}) /\ taken \in [Streams -> {0, 1}]
    BY DEF Init
  <2>2. main \in [pc : Producing \cup {"marker"} \cup Ending, item : Streams \cup {None}]
    BY DEF Init, Producing
  <2>3. setup \in Setups /\ pushed \subseteq Streams /\ DOMAIN outcome = Streams
        /\ closed \in BOOLEAN /\ exitRequested \in BOOLEAN
    BY DEF Init
  <2> QED
    BY <1>1, <1>2, <2>1, <2>2, <2>3 DEF Shape
<1>4. Producer /\ Queued /\ Once
  BY ScardacAssumption DEF Init, Producer, Queued, Once, InQueue, End, Ending
<1>5. ClosedLast /\ Leaving /\ Handled
  <2>1. ~closed /\ main.pc = "extents" /\ \A s \in Streams : taken[s] = 0
    BY DEF Init
  <2> QED
    BY <1>1, <1>2, <2>1 DEF ClosedLast, Leaving, Handled, Between
<1> QED
  BY <1>3, <1>4, <1>5 DEF IInv

\* The main thread finds a stream: it was nowhere before.
Finds(s) ==
  /\ s \notin pushed /\ pushed' = pushed \cup {s}
  /\ main'.item = s

LEMMA FindStream ==
  ASSUME IInv, NEW s \in Streams, Finds(s), main.item = None,
         UNCHANGED <<setup, workQueue, taken>>
  PROVE  Once'
<1>1. main.item # s /\ ~InQueue(s) /\ taken[s] = 0
  BY DEF IInv, Once, Shape, Finds
<1>2. \A r \in Streams : InQueue(r)' <=> InQueue(r)
  BY DEF InQueue
<1> QED
  BY <1>1, <1>2, ScardacAssumption DEF IInv, Once, Shape, Finds

LEMMA PushExtentStep == ASSUME IInv, PushExtent PROVE IInv'
<1> USE DEF PushExtent, IInv
<1>1. Indexed' = Indexed /\ InArchive' = InArchive
  BY DEF Indexed, InArchive, Files
<1>2. main.item = None /\ main' \in [pc : {"archive", "pushExtent"}, item : Streams \cup {None}]
  BY DEF Producer, Shape, Queue, Indexed
<1>3. Shape'
  BY <1>2 DEF Shape, Producing, Indexed
<1>4. Producer'
  BY <1>1 DEF Producer, Shape, Queue, Ending
<1>5. Queued'
  BY DEF Queued, Ending
<1>6. Once'
  <2>1. CASE Indexed \subseteq pushed
    BY <2>1 DEF Once, InQueue, Shape
  <2>2. CASE ~(Indexed \subseteq pushed)
    <3>1. PICK s \in Indexed \ pushed :
            main' = [Queue(s) EXCEPT !.pc = "pushExtent"] /\ pushed' = pushed \cup {s}
      BY <2>2
    <3> QED
      BY <1>2, <3>1, FindStream DEF Indexed, Finds, Queue, Shape
  <2> QED
    BY <2>1, <2>2
<1>7. ClosedLast' /\ Leaving' /\ Handled'
  BY <1>2 DEF ClosedLast, Leaving, Handled, Ending
<1> QED
  BY <1>3, <1>4, <1>5, <1>6, <1>7

LEMMA CheckFilesStep == ASSUME IInv, CheckFiles PROVE IInv'
<1> USE DEF CheckFiles, IInv
<1>1. Indexed' = Indexed /\ InArchive' = InArchive
  BY DEF Indexed, InArchive, Files
<1>2. main.item = None /\ main' \in [pc : {"marker", "push"}, item : Streams \cup {None}]
  BY DEF Producer, Shape, Queue, End, InArchive
<1>3. Shape'
  BY <1>2 DEF Shape, Producing, InArchive, Mapped
<1>4. Producer'
  BY <1>1 DEF Producer, Shape, Queue, Ending, Mapped, End
<1>5. Queued'
  BY DEF Queued, Ending
<1>6. Once'
  <2>1. CASE exitRequested \/ InArchive \subseteq pushed
    BY <1>2, <2>1 DEF Once, InQueue, Shape, End
  <2>2. CASE ~(exitRequested \/ InArchive \subseteq pushed)
    <3>1. PICK s \in InArchive \ pushed : main' = Queue(s) /\ pushed' = pushed \cup {s}
      BY <2>2 DEF Mapped
    <3> QED
      BY <1>2, <3>1, FindStream DEF InArchive, Finds, Queue, Shape
  <2> QED
    BY <2>1, <2>2
<1>7. ClosedLast' /\ Leaving' /\ Handled'
  BY <1>2 DEF ClosedLast, Leaving, Handled, Ending
<1> QED
  BY <1>3, <1>4, <1>5, <1>6, <1>7

LEMMA PushStep == ASSUME IInv, Push PROVE IInv'
<1> USE DEF Push, IInv
<1>1. Indexed' = Indexed /\ InArchive' = InArchive
  BY DEF Indexed, InArchive, Files
<1>2. ~closed /\ workQueue' = Append(workQueue, main.item)
  BY DEF ClosedLast, Ending
<1>3. /\ main' \in [pc : {"extents", "archive", "join"}, item : {None}]
      /\ main'.pc = "join" <=> main.pc = "marker"
      /\ main'.pc = "extents" <=> main.pc = "pushExtent"
      /\ main.item \in Streams \cup {None}
      /\ main.item = None <=> main.pc = "marker"
  BY ScardacAssumption DEF Producer, Shape
<1>4. /\ Len(workQueue') = Len(workQueue) + 1
      /\ \A i \in 1..Len(workQueue) : workQueue'[i] = workQueue[i]
      /\ workQueue'[Len(workQueue) + 1] = main.item
      /\ workQueue' \in Seq(Streams \cup {End})
      /\ Len(workQueue) \in Nat
  BY <1>2, <1>3 DEF Shape, End
<1>5. Shape'
  BY <1>3, <1>4 DEF Shape, Producing, Ending
<1>6. Producer'
  BY <1>1, <1>3 DEF Producer, Shape, Ending
<1>7. \A r \in Streams : InQueue(r)' <=> InQueue(r) \/ main.item = r
  BY <1>4 DEF InQueue
<1>8. \A i \in 1..Len(workQueue) : workQueue[i] # None
  BY DEF Queued, End, Ending
<1>9. Queued'
  <2>1. \A i \in 1..Len(workQueue) : workQueue[i] # main.item
    BY <1>3, <1>8 DEF Once, InQueue, Shape
  <2>2. \A i, j \in 1..Len(workQueue') : workQueue'[i] = workQueue'[j] => i = j
    BY <1>4, <2>1 DEF Queued
  <2>3. \A i \in 1..Len(workQueue') :
          workQueue'[i] = End => i = Len(workQueue') /\ main'.pc \in Ending
    BY <1>3, <1>4, <1>8 DEF End, Ending
  <2> QED
    BY <2>2, <2>3 DEF Queued
<1>10. Once'
  BY <1>3, <1>7, ScardacAssumption DEF Once, Shape
<1>11. ClosedLast'
  BY <1>2 DEF ClosedLast, Ending
<1>12. Leaving' /\ Handled'
  BY <1>3 DEF Leaving, Handled
<1> QED
  BY <1>5, <1>6, <1>9, <1>10, <1>11, <1>12

LEMMA JoinStep == ASSUME IInv, Join PROVE IInv'
<1> USE DEF Join, IInv
<1>1. Indexed' = Indexed /\ InArchive' = InArchive
  BY DEF Indexed, InArchive, Files
<1>2. main'.pc = "returned" /\ main'.item = main.item
  BY DEF Shape
<1>3. Shape'
  BY <1>2 DEF Shape, Ending
<1>4. Producer' /\ Queued' /\ ClosedLast'
  BY <1>1, <1>2 DEF Producer, Queued, ClosedLast, Ending
<1>5. Once' /\ Leaving' /\ Handled'
  BY <1>2 DEF Once, InQueue, Leaving, Handled
<1> QED
  BY <1>3, <1>4, <1>5

LEMMA RequestExitStep == ASSUME IInv, RequestExit PROVE IInv'
<1> USE DEF RequestExit, IInv, pool
<1>1. Indexed' = Indexed /\ InArchive' = InArchive
  BY DEF Indexed, InArchive, Files
<1>2. Shape' /\ Producer' /\ Queued' /\ ClosedLast'
  BY <1>1 DEF Shape, Producer, Queued, ClosedLast
<1>3. Once' /\ Leaving' /\ Handled'
  BY DEF Once, InQueue, Leaving, Handled
<1> QED
  BY <1>2, <1>3

\* A step of a worker that leaves the main thread and the queue alone.
LEMMA SamePool ==
  ASSUME IInv, UNCHANGED <<setup, pool, taken>>, exitRequested => exitRequested'
  PROVE  Producer' /\ Queued' /\ Once'
<1>1. Indexed' = Indexed /\ InArchive' = InArchive
  BY DEF Indexed, InArchive, Files
<1> QED
  BY <1>1 DEF pool, IInv, Producer, Queued, Once, InQueue

\* A worker that has no stream goes somewhere and still has none.
Moves(t, pc) ==
  /\ Others(t)
  /\ worker'[t].pc = pc /\ worker'[t].item = None
  /\ UNCHANGED <<setup, exitRequested, outcome>>

LEMMA Moved ==
  ASSUME IInv, NEW t \in Workers, NEW pc \in Between, worker[t].item = None,
         Go(t, pc) \/ (Leave(t) /\ pc = "left"), UNCHANGED <<setup, exitRequested, outcome>>
  PROVE  Moves(t, pc)
BY IdleWorker DEF IInv, Shape, Go, Leave, Moves, Others

LEMMA MoveKeeps ==
  ASSUME IInv, NEW t \in Workers, NEW pc \in Between, Moves(t, pc),
         UNCHANGED taken, worker[t].item = None
  PROVE  Handled'
<1>1. \A u \in Workers : worker'[u].item = worker[u].item
  BY DEF Moves, Others
<1> QED
  BY <1>1 DEF Moves, Others, Handled, IInv

LEMMA Free ==
  ASSUME IInv, NEW t \in Workers, worker[t].pc \in Between
  PROVE  worker[t].item = None /\ (worker[t].pc # "left" => main.pc # "returned")
BY DEF IInv, Handled, Leaving, Between, Processing

LEMMA LoopStep == ASSUME IInv, NEW t \in Workers, Loop(t) PROVE IInv'
<1> DEFINE pc == IF exitRequested THEN "left" ELSE "pop"
<1>1. worker[t].item = None /\ main.pc # "returned"
  BY Free DEF Loop, Between
<1>2. Moves(t, pc)
  BY <1>1, Moved DEF Loop, Between
<1>3. Producer' /\ Queued' /\ Once'
  BY SamePool DEF Loop
<1>4. Shape'
  BY <1>2 DEF IInv, Shape, Loop, pool, Moves, Others
<1>5. ClosedLast'
  BY <1>2 DEF IInv, ClosedLast, Loop, pool, Moves, Others
<1>6. Leaving'
  BY <1>1, <1>2 DEF IInv, Shape, Leaving, Loop, pool, Moves, Others
<1>7. Handled'
  BY <1>1, <1>2, MoveKeeps DEF Loop, Between
<1> QED
  BY <1>3, <1>4, <1>5, <1>6, <1>7 DEF IInv

LEMMA PopClosedStep == ASSUME IInv, NEW t \in Workers, PopClosed(t) PROVE IInv'
<1>1. worker[t].item = None /\ main.pc # "returned"
  BY Free DEF PopClosed, Between
<1>2. Moves(t, "left")
  BY <1>1, Moved DEF PopClosed, Between
<1>3. Producer' /\ Queued' /\ Once'
  BY SamePool DEF PopClosed
<1>4. Shape'
  BY <1>2 DEF IInv, Shape, PopClosed, pool, Moves, Others
<1>5. ClosedLast' /\ Leaving'
  BY <1>1, <1>2 DEF IInv, ClosedLast, Leaving, PopClosed, pool, Moves, Others
<1>6. Handled'
  BY <1>1, <1>2, MoveKeeps DEF PopClosed, Between
<1> QED
  BY <1>3, <1>4, <1>5, <1>6 DEF IInv

LEMMA CloseQueueStep == ASSUME IInv, NEW t \in Workers, CloseQueue(t) PROVE IInv'
<1> USE DEF Closes
<1>1. worker[t].item = None /\ main.pc # "returned"
  BY Free DEF CloseQueue, Between
<1>2. Moves(t, "left")
  BY <1>1, Moved DEF CloseQueue, Between
<1>3. Producer' /\ Queued' /\ Once'
  <2>1. Indexed' = Indexed /\ InArchive' = InArchive
    BY DEF CloseQueue, Indexed, InArchive, Files
  <2> QED
    BY <2>1 DEF CloseQueue, IInv, Producer, Queued, Once, InQueue
<1>4. Shape'
  BY <1>2 DEF IInv, Shape, CloseQueue, Moves, Others
<1>5. ClosedLast' /\ Leaving'
  BY <1>1, <1>2 DEF IInv, ClosedLast, Leaving, CloseQueue, Moves, Others
<1>6. Handled'
  BY <1>1, <1>2, MoveKeeps DEF CloseQueue, Between
<1> QED
  BY <1>3, <1>4, <1>5, <1>6 DEF IInv

LEMMA PopStep == ASSUME IInv, NEW t \in Workers, Pop(t) PROVE IInv'
<1> DEFINE item == Head(workQueue)
<1>1. worker[t].item = None /\ main.pc # "returned"
  BY Free DEF Pop, Between
<1>2. Indexed' = Indexed /\ InArchive' = InArchive
  BY DEF Pop, Indexed, InArchive, Files
<1>3. /\ workQueue \in Seq(Streams \cup {End}) /\ workQueue # <<>>
      /\ workQueue' = Tail(workQueue)
  BY DEF Pop, IInv, Shape
<1>4. /\ Len(workQueue) \in Nat \ {0} /\ Len(workQueue') = Len(workQueue) - 1
      /\ \A i \in 1..Len(workQueue') : workQueue'[i] = workQueue[i + 1]
      /\ workQueue' \in Seq(Streams \cup {End})
      /\ item = workQueue[1] /\ item \in Streams \cup {End}
  BY <1>3
<1>5. Queued'
  <2>1. ASSUME NEW i \in 1..Len(workQueue'), NEW j \in 1..Len(workQueue'),
               workQueue'[i] = workQueue'[j]
        PROVE  i = j
    BY <1>4, <2>1 DEF IInv, Queued
  <2>2. ASSUME NEW i \in 1..Len(workQueue'), workQueue'[i] = End
        PROVE  i = Len(workQueue') /\ main'.pc \in Ending
    BY <1>4, <2>2 DEF IInv, Queued, Pop
  <2> QED
    BY <2>1, <2>2 DEF Queued
<1>6. \A s \in Streams : InQueue(s)' <=> InQueue(s) /\ s # item
  <2>1. ASSUME NEW s \in Streams, NEW i \in 1..Len(workQueue), workQueue[i] = s, s # item
        PROVE  InQueue(s)'
    <3>1. i - 1 \in 1..Len(workQueue') /\ workQueue'[i - 1] = s
      BY <1>4, <2>1
    <3> QED
      BY <3>1 DEF InQueue
  <2>2. ASSUME NEW s \in Streams, NEW i \in 1..Len(workQueue'), workQueue'[i] = s
        PROVE  InQueue(s) /\ s # item
    <3>1. i + 1 \in 1..Len(workQueue) /\ workQueue[i + 1] = s
      BY <1>4, <2>2
    <3> QED
      BY <1>4, <3>1 DEF InQueue, IInv, Queued
  <2> QED
    BY <2>1, <2>2 DEF InQueue
<1>7. Producer'
  BY <1>2 DEF Pop, IInv, Producer
<1>8. CASE item = End
  <2>1. Moves(t, "close") /\ UNCHANGED taken
    BY <1>1, <1>8, Moved DEF Pop, Between
  <2>2. workQueue' = <<>> /\ main.pc \in Ending
    <3>1. 1 = Len(workQueue) /\ main.pc \in Ending
      BY <1>4, <1>8 DEF IInv, Queued
    <3> QED
      BY <1>3, <1>4, <3>1
  <2>3. \A s \in Streams : InQueue(s)' <=> InQueue(s)
    BY <1>6, <1>8, ScardacAssumption DEF End
  <2>4. Shape' /\ Once'
    BY <1>4, <2>1, <2>3 DEF IInv, Shape, Once, Pop, Moves, Others
  <2>5. ClosedLast' /\ Leaving'
    BY <1>1, <2>1, <2>2 DEF IInv, Shape, ClosedLast, Leaving, Pop, Moves, Others
  <2>6. Handled'
    BY <1>1, <2>1, MoveKeeps DEF Between
  <2> QED
    BY <1>5, <1>7, <2>4, <2>5, <2>6 DEF IInv
<1>9. CASE item # End
  <2>1. item \in Streams /\ InQueue(item) /\ taken' = [taken EXCEPT ![item] = @ + 1]
    BY <1>4, <1>9 DEF Pop, InQueue
  <2>2. taken[item] = 0 /\ main.item # item /\ item \in pushed
    BY <2>1 DEF IInv, Once
  <2>3. taken' \in [Streams -> {0, 1}] /\ taken'[item] = 1
        /\ \A s \in Streams : s # item => taken'[s] = taken[s]
    BY <2>1, <2>2 DEF IInv, Shape
  <2>4. /\ Others(t) /\ worker'[t].pc = "list" /\ worker'[t].item = item
        /\ UNCHANGED <<main, pushed, setup, closed, exitRequested, outcome>>
    BY <1>9, IdleWorker DEF Pop, IInv, Shape, Others
  <2>5. Shape'
    BY <1>4, <2>3, <2>4 DEF IInv, Shape, Others
  <2>6. Once'
    BY <1>6, <2>1, <2>2, <2>3, <2>4 DEF IInv, Once
  <2>7. ClosedLast' /\ Leaving'
    <3>1. ~closed /\ \A u \in Workers : worker[u].pc # "close"
      BY <1>3, <2>1, ScardacAssumption DEF IInv, ClosedLast, Pop
    <3> QED
      BY <1>1, <2>4, <3>1 DEF IInv, Shape, ClosedLast, Leaving, Others
  <2>8. Handled'
    <3>1. \A u \in Workers : worker[u].item # None => worker'[u].item = worker[u].item
      BY <1>1, <2>4 DEF Others
    <3>2. \A s \in Streams : (\E u \in Workers : worker[u].item = s)
                              => \E u \in Workers : worker'[u].item = s
      BY <3>1, ScardacAssumption
    <3>3. \A s \in Streams : taken'[s] = 1 => taken[s] = 1 \/ worker'[t].item = s
      BY <2>3, <2>4
    <3> QED
      BY <2>1, <2>4, <3>2, <3>3 DEF IInv, Handled, Others, Processing
  <2> QED
    BY <1>5, <1>7, <2>5, <2>6, <2>7, <2>8 DEF IInv
<1> QED
  BY <1>8, <1>9

LEMMA ProcessExtentStep == ASSUME IInv, NEW t \in Workers, ProcessExtent(t) PROVE IInv'
<1>1. ProcessingStep(t) /\ Others(t)
  BY ProcessingForm DEF IInv, ProcessingStep, Continues, Returns
<1>2. worker[t].item \in Streams /\ worker[t].pc \notin Between
  BY <1>1 DEF IInv, Handled, ProcessingStep, Between, Processing
<1>3. Producer' /\ Queued' /\ Once'
  BY <1>1, SamePool DEF ProcessingStep
<1>4. main.pc # "returned"
  BY <1>2 DEF IInv, Leaving, Between
<1>5. worker'[t].pc \notin {"close", "left"} /\ DOMAIN outcome' = Streams
  BY <1>1, IdleWorker DEF IInv, Shape, ProcessingStep, Continues, Returns, Processing
<1>6. Shape'
  BY <1>1, <1>5 DEF IInv, Shape, ProcessingStep, Others, pool
<1>7. ClosedLast' /\ Leaving'
  BY <1>1, <1>4, <1>5 DEF IInv, Shape, ClosedLast, Leaving, ProcessingStep, Others, pool
<1>8. CASE Continues(t)
  <2>1. \A u \in Workers : worker'[u].item = worker[u].item
    BY <1>8 DEF Continues, Others
  <2>2. Handled'
    BY <1>1, <1>2, <1>8, <2>1 DEF IInv, Handled, ProcessingStep, Continues, Others
  <2> QED
    BY <1>3, <1>6, <1>7, <2>2 DEF IInv
<1>9. CASE Returns(t)
  <2>1. PICK how \in Processed \cup {"interrupted"} :
          /\ outcome' = [outcome EXCEPT ![worker[t].item] = how]
          /\ how = "interrupted" => exitRequested'
    BY <1>9 DEF Returns
  <2>2. \/ outcome'[worker[t].item] \in Processed
        \/ exitRequested'
    BY <1>2, <2>1 DEF IInv, Shape
  <2>3. \A s \in Streams : s # worker[t].item => outcome'[s] = outcome[s]
    BY <2>1 DEF IInv, Shape
  <2>4. worker'[t].pc = "loop" /\ worker'[t].item = None
    BY <1>9, IdleWorker DEF Returns
  <2> QED
    BY <1>1, <2>2, <2>3, <2>4, <1>3, <1>6, <1>7
    DEF IInv, Handled, ProcessingStep, Others, Between
<1> QED
  BY <1>1, <1>3, <1>6, <1>7, <1>8, <1>9 DEF ProcessingStep, IInv

LEMMA Unchanged == ASSUME IInv, UNCHANGED vars PROVE IInv'
<1> USE DEF vars, IInv, pool
<1>1. Shape' /\ ClosedLast' /\ Leaving' /\ Handled'
  BY DEF Shape, ClosedLast, Leaving, Handled
<1> QED
  BY <1>1, SamePool

\* The inductive invariant holds in every reachable state.
THEOREM Invariance == Spec => []IInv
<1>1. ASSUME IInv, [Next]_vars PROVE IInv'
  BY <1>1, PushExtentStep, CheckFilesStep, PushStep, JoinStep, RequestExitStep, LoopStep,
     PopClosedStep, PopStep, CloseQueueStep, ProcessExtentStep, Unchanged
  DEF Next, Main, WorkerStep
<1> QED
  BY <1>1, InitInvariant, PTL DEF Spec

\* No stream is processed twice, and when run has returned without an exit every stream
\* of the database and of the archive has been processed: the producer pushes all of
\* them before the last item, and the worker that takes this one and closes the queue
\* does not take work from the others.
THEOREM ProcessedOnce == Spec => []EachOnce
<1>1. IInv => EachOnce
  <2> SUFFICES ASSUME IInv PROVE EachOnce
    OBVIOUS
  <2>1. \A s \in Streams : taken[s] <= 1
    BY DEF IInv, Shape
  <2>2. ASSUME main.pc = "returned", ~exitRequested, NEW s \in Indexed \cup InArchive
        PROVE  taken[s] = 1 /\ outcome[s] \in Processed
    <3>1. \A t \in Workers : worker[t].pc = "left" /\ worker[t].item = None
      BY <2>2 DEF IInv, Leaving, Handled, Processing
    <3>2. PICK t \in setup.threads : t \in Workers
      BY ScardacAssumption DEF IInv, Shape
    <3>3. workQueue = <<>>
      BY <2>2, <3>1, <3>2 DEF IInv, Leaving, ClosedLast
    <3>4. s \in Streams /\ s \in pushed /\ main.item = None
      BY <2>2 DEF IInv, Producer, Indexed, InArchive, Ending
    <3>5. taken[s] = 1
      BY <3>3, <3>4, ScardacAssumption DEF IInv, Once, InQueue
    <3> QED
      BY <2>2, <3>1, <3>4, <3>5, ScardacAssumption DEF IInv, Handled
  <2> QED
    BY <2>1, <2>2 DEF EachOnce, Processed
<1> QED
  BY <1>1, Invariance, PTL

=============================================================================
