---------------------------- MODULE ThreadedQueue ----------------------------
(***************************************************************************)
(* Client::ThreadedQueue (trunk/libs/seiscomp3/client/queue.h, queue.ipp): *)
(* a ring buffer guarded by one mutex and two condition variables.  It     *)
(* connects the threads of scmaster, of every client application, of       *)
(* scimex, of scardac and of the balanced record stream.                   *)
(*                                                                         *)
(* A critical section is one action: the mutex is released only by         *)
(* returning or by waiting.  A thread inside a call waits when it is in    *)
(* notFull or notEmpty, and otherwise competes for the mutex, either for   *)
(* the first time or because it was woken and checks its condition again.  *)
(***************************************************************************)
EXTENDS Integers, Sequences

CONSTANTS Threads, Values, Sizes, None

VARIABLES begin,     \* _begin: slot of the oldest element
          end,       \* _end: slot the next element goes to
          buffered,  \* _buffered: number of elements
          size,      \* _buffer.size()
          buffer,    \* _buffer: the slots, numbered from 0
          inUse,     \* a thread has called the queue
          closed,    \* _closed
          notFull,   \* the threads waiting on _notFull
          notEmpty,  \* the threads waiting on _notEmpty
          call,      \* call[t]: the call thread t is inside of
          result     \* result[t]: what its last call returned

ring == <<begin, end, buffered, size, buffer>>
vars == <<ring, inUse, closed, notFull, notEmpty, call, result>>

Push(v) == [op |-> "push", val |-> v]
Pop     == [op |-> "pop", val |-> None]
Calls   == {Push(v) : v \in Values} \cup {Pop}

Pushed    == [status |-> "true", val |-> None]
Refused   == [status |-> "false", val |-> None]
Popped(v) == [status |-> "value", val |-> v]
Thrown    == [status |-> "QueueClosedException", val |-> None]
Results   == {Pushed, Refused, Thrown} \cup {Popped(v) : v \in Values}

ASSUME ConstantAssumption ==
  /\ Sizes \subseteq Nat
  /\ None \notin Values \cup Calls

\* A vector of n default values (NULL for the pointers it is used with), and one
\* with a slot too many.
OneTooMany(n) == [i \in 0..n |-> None]
Empty(n) == [i \in 0..(n - 1) |-> None]

\* (i + 1) % _buffer.size()
Succ(i) == (i + 1) % size

\* The slots after an element has been taken from slot i, and, for comparison,
\* after a pop that forgets to reset it.
KeptSlot(i)    == buffer
ClearedSlot(i) == [buffer EXCEPT ![i] = None]

\* The threads still waiting after notify_all, and after notify_one.
AfterNotifyOne(waiters) ==
  IF waiters = {} THEN {} ELSE waiters \ {CHOOSE t \in waiters : TRUE}
AfterNotifyAll(waiters) == {}

\* The condition push stores under.
CanStore == ~closed /\ buffered # size

\* The condition pop takes under, and one that drains a closed queue.
NotDrained == buffered # 0
CanTake    == ~closed /\ buffered # 0

Init ==
  /\ begin = 0 /\ end = 0 /\ buffered = 0
  /\ size \in Sizes
  /\ buffer = Empty(size)
  /\ inUse = FALSE
  /\ closed = FALSE
  /\ notFull = {} /\ notEmpty = {}
  /\ call = [t \in Threads |-> None]
  /\ result = [t \in Threads |-> None]

\* Every caller of resize does so while it sets the queue up.
Resize(n) ==
  /\ ~inUse
  /\ size' = n
  /\ buffer' = Empty(n)
  /\ UNCHANGED <<begin, end, buffered, inUse, closed, notFull, notEmpty, call, result>>

Invoke(t, c) ==
  /\ call[t] = None
  /\ call' = [call EXCEPT ![t] = c]
  /\ result' = [result EXCEPT ![t] = None]
  /\ inUse' = TRUE
  /\ UNCHANGED <<ring, closed, notFull, notEmpty>>

Return(t, r) ==
  /\ call' = [call EXCEPT ![t] = None]
  /\ result' = [result EXCEPT ![t] = r]

\* Thread t holds the mutex inside the call c and is not waiting.
Running(t, c) == call[t] = c /\ t \notin notFull \cup notEmpty

-----------------------------------------------------------------------------
\* push

PushWait(t) ==
  /\ \E v \in Values : Running(t, Push(v))
  /\ buffered = size /\ ~closed
  /\ notFull' = notFull \cup {t}
  /\ UNCHANGED <<ring, inUse, closed, notEmpty, call, result>>

PushRefused(t) ==
  /\ \E v \in Values : Running(t, Push(v))
  /\ closed
  /\ notEmpty' = AfterNotifyAll(notEmpty)
  /\ Return(t, Refused)
  /\ UNCHANGED <<ring, inUse, closed, notFull>>

PushStore(t) ==
  \E v \in Values :
    /\ Running(t, Push(v))
    /\ CanStore
    /\ buffer' = [buffer EXCEPT ![end] = v]
    /\ end' = Succ(end)
    /\ buffered' = buffered + 1
    /\ notEmpty' = AfterNotifyAll(notEmpty)
    /\ Return(t, Pushed)
    /\ UNCHANGED <<begin, size, inUse, closed, notFull>>

-----------------------------------------------------------------------------
\* pop

PopWait(t) ==
  /\ Running(t, Pop)
  /\ buffered = 0 /\ ~closed
  /\ notEmpty' = notEmpty \cup {t}
  /\ UNCHANGED <<ring, inUse, closed, notFull, call, result>>

PopThrow(t) ==
  /\ Running(t, Pop)
  /\ closed
  /\ Return(t, Thrown)
  /\ UNCHANGED <<ring, inUse, closed, notFull, notEmpty>>

PopTake(t) ==
  /\ Running(t, Pop)
  /\ CanTake
  /\ Return(t, Popped(buffer[begin]))
  /\ buffer' = ClearedSlot(begin)
  /\ begin' = Succ(begin)
  /\ buffered' = buffered - 1
  /\ notFull' = AfterNotifyAll(notFull)
  /\ UNCHANGED <<end, size, inUse, closed, notEmpty>>

-----------------------------------------------------------------------------
\* A condition variable may wake a thread that nobody notified.
SpuriousWakeup(t) ==
  /\ t \in notFull \cup notEmpty
  /\ notFull' = notFull \ {t}
  /\ notEmpty' = notEmpty \ {t}
  /\ UNCHANGED <<ring, inUse, closed, call, result>>

\* A close() that wakes the poppers only.
CloseForPoppers ==
  /\ ~closed
  /\ closed' = TRUE
  /\ inUse' = TRUE
  /\ notEmpty' = AfterNotifyAll(notEmpty)
  /\ UNCHANGED <<ring, notFull, call, result>>

\* close(), from any thread; a second close returns at once.
Close ==
  /\ ~closed
  /\ closed' = TRUE
  /\ inUse' = TRUE
  /\ notFull' = AfterNotifyAll(notFull)
  /\ notEmpty' = AfterNotifyAll(notEmpty)
  /\ UNCHANGED <<ring, call, result>>

Step(t) ==
  \/ PushWait(t) \/ PushRefused(t) \/ PushStore(t)
  \/ PopWait(t) \/ PopThrow(t) \/ PopTake(t)

Next ==
  \/ \E n \in Sizes : Resize(n)
  \/ \E t \in Threads :
       \/ \E c \in Calls : Invoke(t, c)
       \/ Step(t)
       \/ SpuriousWakeup(t)
  \/ Close

\* The operating system runs every thread that is not asleep.
Fairness == \A t \in Threads : WF_vars(Step(t))

Spec == Init /\ [][Next]_vars /\ Fairness
-----------------------------------------------------------------------------

\* The slot of the i-th oldest element.
Slot(i) == (begin + i - 1) % size

\* The elements of the ring, oldest first.
Content == [i \in 1..buffered |-> buffer[Slot(i)]]

TypeOK ==
  /\ size \in Sizes
  /\ buffer \in [0..(size - 1) -> Values \cup {None}]
  /\ begin \in Nat /\ end \in Nat /\ buffered \in 0..size
  /\ inUse \in BOOLEAN /\ closed \in BOOLEAN
  /\ notFull \subseteq Threads /\ notEmpty \subseteq Threads
  /\ call \in [Threads -> Calls \cup {None}]
  /\ result \in [Threads -> Results \cup {None}]

\* The elements are exactly the buffered slots from begin on, begin and end are
\* buffered slots apart, and every other slot has been reset: push never
\* overwrites an element and pop never returns an empty slot.
RingConsistent ==
  /\ size > 0 => /\ begin < size
                 /\ end = (begin + buffered) % size
  /\ \A i \in 0..(size - 1) :
       buffer[i] # None <=> \E k \in 1..buffered : i = Slot(k)

\* No lost wakeup: a thread sleeps only while the condition it sleeps on is
\* false, a pusher while the open queue is full, a popper while it is empty.
NoLostWakeup ==
  /\ \A t \in notFull :
       /\ \E v \in Values : call[t] = Push(v)
       /\ buffered = size /\ ~closed
  /\ \A t \in notEmpty :
       /\ call[t] = Pop
       /\ buffered = 0 /\ ~closed

\* After close() every thread that is inside a call gets its answer: this is
\* what lets the threads of an application be joined.
CloseReleasesAll ==
  \A t \in Threads : (closed /\ call[t] # None) ~> call[t] = None

\* The ring buffer implements the abstract queue.
Abstract == INSTANCE ClosableQueue WITH queue <- Content, capacity <- size
Refinement == Abstract!Spec
==============================================================================
