---------------------------- MODULE ClosableQueue ----------------------------
(***************************************************************************)
(* What Client::ThreadedQueue promises the threads that share it: a        *)
(* bounded first-in first-out queue that can be closed once.  A call is    *)
(* invoked, takes effect at one instant and leaves its result in the       *)
(* caller; a push waits for room, a pop waits for an element, and both     *)
(* give up as soon as the queue is closed.  The ring buffer, the condition *)
(* variables and the wakeups are left to ThreadedQueue, which implements   *)
(* this specification.                                                     *)
(***************************************************************************)
EXTENDS Naturals, Sequences

CONSTANTS Threads,   \* the threads that share the queue
          Values,    \* the elements that may be queued
          Sizes,     \* the capacities the queue may be given
          None       \* no pending call, no result

Push(v) == [op |-> "push", val |-> v]
Pop     == [op |-> "pop", val |-> None]
Calls   == {Push(v) : v \in Values} \cup {Pop}

\* push returns true or false, pop returns an element or throws.
Pushed    == [status |-> "true", val |-> None]
Refused   == [status |-> "false", val |-> None]
Popped(v) == [status |-> "value", val |-> v]
Thrown    == [status |-> "QueueClosedException", val |-> None]
Results   == {Pushed, Refused, Thrown} \cup {Popped(v) : v \in Values}

VARIABLES queue,     \* the queued elements, oldest first
          capacity,  \* how many elements fit
          inUse,     \* whether a thread has called the queue yet
          closed,    \* whether the queue has been closed
          call,      \* call[t]: the call of thread t that has not returned
          result     \* result[t]: what the last call of t returned

vars == <<queue, capacity, inUse, closed, call, result>>

Init ==
  /\ queue = <<>>
  /\ capacity \in Sizes
  /\ inUse = FALSE
  /\ closed = FALSE
  /\ call = [t \in Threads |-> None]
  /\ result = [t \in Threads |-> None]

Return(t, r) ==
  /\ call' = [call EXCEPT ![t] = None]
  /\ result' = [result EXCEPT ![t] = r]

\* The capacity is chosen before the queue is handed to the threads.
Resize(n) ==
  /\ ~inUse
  /\ capacity' = n
  /\ UNCHANGED <<queue, inUse, closed, call, result>>

Invoke(t, c) ==
  /\ call[t] = None
  /\ call' = [call EXCEPT ![t] = c]
  /\ result' = [result EXCEPT ![t] = None]
  /\ inUse' = TRUE
  /\ UNCHANGED <<queue, capacity, closed>>

\* A push takes effect only while the queue is open and has room.
DoPush(t) ==
  \E v \in Values :
    /\ call[t] = Push(v)
    /\ ~closed
    /\ Len(queue) < capacity
    /\ queue' = Append(queue, v)
    /\ Return(t, Pushed)
    /\ UNCHANGED <<capacity, inUse, closed>>

\* A pop returns the oldest element, and only while the queue is open.
DoPop(t) ==
  /\ call[t] = Pop
  /\ ~closed
  /\ queue # <<>>
  /\ queue' = Tail(queue)
  /\ Return(t, Popped(Head(queue)))
  /\ UNCHANGED <<capacity, inUse, closed>>

\* Once closed, every call fails, whatever is still queued.
Fail(t) ==
  /\ closed
  /\ \/ \E v \in Values : call[t] = Push(v) /\ Return(t, Refused)
     \/ call[t] = Pop /\ Return(t, Thrown)
  /\ UNCHANGED <<queue, capacity, inUse, closed>>

Close ==
  /\ ~closed
  /\ closed' = TRUE
  /\ inUse' = TRUE
  /\ UNCHANGED <<queue, capacity, call, result>>

Take(t) == DoPush(t) \/ DoPop(t) \/ Fail(t)

Next ==
  \/ \E n \in Sizes : Resize(n)
  \/ \E t \in Threads :
       \/ \E c \in Calls : Invoke(t, c)
       \/ Take(t)
  \/ Close

\* No call that could return is left unserved for ever by everybody.
Fairness ==
  /\ WF_vars(\E t \in Threads : DoPush(t))
  /\ WF_vars(\E t \in Threads : DoPop(t))
  /\ \A t \in Threads : WF_vars(Fail(t))

Spec == Init /\ [][Next]_vars /\ Fairness
==============================================================================
