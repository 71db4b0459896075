------------------------- MODULE ThreadedQueueProofs -------------------------
(***************************************************************************)
(* Proofs about ThreadedQueue for any number of threads, any elements and  *)
(* any capacities: the ring buffer is always consistent, no wakeup is      *)
(* lost, and every step of the ring buffer is a step of the closable queue *)
(* or leaves it alone.                                                     *)
(***************************************************************************)
EXTENDS ThreadedQueue, SequenceTheorems, TLAPS

\* Until a thread has called the queue it is as the constructor left it, so
\* resize finds nothing it could lose.
Untouched ==
  ~inUse => /\ begin = 0 /\ end = 0 /\ buffered = 0
            /\ ~closed
            /\ call = [t \in Threads |-> None]

\* The inductive invariant.
IInv == TypeOK /\ RingConsistent /\ NoLostWakeup /\ Untouched

-----------------------------------------------------------------------------
\* Arithmetic of the ring.

\* The calls a thread can be inside of are told apart from each other and from
\* being outside of the queue.
LEMMA CallsDistinct ==
  /\ \A v \in Values : Push(v) # None /\ Push(v) # Pop
  /\ Pop # None
BY ConstantAssumption DEF Calls, Push, Pop

\* The slots of a consistent ring, without the modulus.
LEMMA SlotValue ==
  ASSUME IInv, NEW k \in 1..(buffered + 1), k <= size
  PROVE  /\ Slot(k) = IF begin + k - 1 < size THEN begin + k - 1
                                              ELSE begin + k - 1 - size
         /\ Slot(k) \in 0..(size - 1)
<1>1. size \in Nat \ {0} /\ buffered \in 0..size /\ begin \in 0..(size - 1)
  <2>1. size \in Nat /\ begin \in Nat /\ buffered \in 0..size
    BY ConstantAssumption DEF IInv, TypeOK
  <2>2. size > 0
    BY <2>1
  <2>. QED
    BY <2>1, <2>2 DEF IInv, RingConsistent
<1>2. begin + k - 1 \in 0..(size + size - 1)
  BY <1>1
<1>3. (begin + k - 1) % size = IF begin + k - 1 < size THEN begin + k - 1
                                                      ELSE begin + k - 1 - size
  BY <1>1, <1>2
<1>. QED
  BY <1>1, <1>3 DEF Slot

\* Different elements are in different slots.
LEMMA SlotInjective ==
  ASSUME IInv, NEW j \in 1..(buffered + 1), NEW k \in 1..(buffered + 1),
         j <= size, k <= size, Slot(j) = Slot(k)
  PROVE  j = k
<1>1. size \in Nat /\ begin \in Nat /\ buffered \in Nat
  BY ConstantAssumption DEF IInv, TypeOK
<1>. QED
  BY <1>1, SlotValue

-----------------------------------------------------------------------------
\* The invariant is inductive.

LEMMA InitInvariant == Init => IInv
<1>. SUFFICES ASSUME Init PROVE IInv
  OBVIOUS
<1>1. TypeOK
  <2>1. size \in Nat
    BY ConstantAssumption DEF Init
  <2>2. buffer \in [0..(size - 1) -> Values \cup {None}]
    BY DEF Init, Empty
  <2>3. 0 \in 0..size
    BY <2>1
  <2>. QED
    BY <2>2, <2>3 DEF Init, TypeOK
<1>2. RingConsistent
  <2>1. size > 0 => 0 % size = 0
    BY ConstantAssumption DEF Init
  <2>2. \A i \in 0..(size - 1) : buffer[i] = None
    BY DEF Init, Empty
  <2>. QED
    BY <2>1, <2>2, ConstantAssumption DEF Init, RingConsistent
<1>3. NoLostWakeup /\ Untouched
  BY DEF Init, NoLostWakeup, Untouched
<1>. QED
  BY <1>1, <1>2, <1>3 DEF IInv

\* A step that leaves the ring alone keeps it consistent.
LEMMA RingUnchanged == RingConsistent /\ UNCHANGED ring => RingConsistent'
BY DEF RingConsistent, Slot, ring

\* push stores behind the youngest element, in a slot no element is in.
LEMMA StoreSlot ==
  ASSUME IInv, buffered # size
  PROVE  /\ size > 0 /\ buffered < size
         /\ end = Slot(buffered + 1)
         /\ end \in 0..(size - 1)
         /\ buffer[end] = None
<1>1. size \in Nat /\ buffered \in 0..size
  BY ConstantAssumption DEF IInv, TypeOK
<1>2. /\ size > 0 /\ buffered < size
      /\ buffered + 1 \in 1..(buffered + 1) /\ buffered + 1 <= size
  BY <1>1
<1>3. begin \in 0..(size - 1) /\ end = (begin + buffered) % size
  BY <1>1, <1>2 DEF IInv, TypeOK, RingConsistent
<1>4. end = Slot(buffered + 1)
  BY <1>1, <1>3 DEF Slot
<1>5. end \in 0..(size - 1)
  BY <1>2, <1>4, SlotValue
<1>6. ASSUME NEW k \in 1..buffered, end = Slot(k) PROVE FALSE
  BY <1>1, <1>2, <1>4, <1>6, SlotInjective
<1>7. buffer[end] = None
  BY <1>5, <1>6 DEF IInv, RingConsistent
<1>. QED
  BY <1>2, <1>4, <1>5, <1>7

LEMMA StoreRing ==
  ASSUME IInv, NEW t \in Threads, PushStore(t)
  PROVE  RingConsistent'
<1>1. PICK v \in Values :
        /\ buffered # size
        /\ buffer' = [buffer EXCEPT ![end] = v]
        /\ end' = Succ(end)
        /\ buffered' = buffered + 1
        /\ UNCHANGED <<begin, size>>
  BY DEF PushStore, CanStore
<1>2. size \in Nat \ {0} /\ buffered \in 0..(size - 1) /\ begin \in 0..(size - 1)
  BY <1>1, StoreSlot, ConstantAssumption DEF IInv, TypeOK, RingConsistent
<1>3. end = Slot(buffered + 1) /\ end \in 0..(size - 1)
  BY <1>1, StoreSlot
<1>4. begin' < size' /\ end' = (begin' + buffered') % size'
  <2>1. end = IF begin + buffered < size THEN begin + buffered
                                        ELSE begin + buffered - size
    BY <1>2, <1>3, SlotValue
  <2>2. (end + 1) % size = IF end + 1 < size THEN end + 1 ELSE end + 1 - size
    BY <1>2, <1>3
  <2>3. begin + buffered + 1 \in 0..(size + size - 1)
    BY <1>2
  <2>4. (begin + buffered + 1) % size
          = IF begin + buffered + 1 < size THEN begin + buffered + 1
                                           ELSE begin + buffered + 1 - size
    BY <1>2, <2>3
  <2>. QED
    BY <1>1, <1>2, <2>1, <2>2, <2>4 DEF Succ
<1>5. ASSUME NEW i \in 0..(size - 1)
      PROVE  buffer'[i] # None <=> \E k \in 1..buffered' : i = Slot(k)
  <2>1. buffer \in [0..(size - 1) -> Values \cup {None}] /\ v # None
    BY ConstantAssumption DEF IInv, TypeOK
  <2>2. CASE i = end
    <3>1. buffered + 1 \in 1..buffered'
      BY <1>1, <1>2
    <3>. QED
      BY <1>1, <1>3, <2>1, <2>2, <3>1
  <2>3. CASE i # end
    <3>1. buffer'[i] # None <=> \E k \in 1..buffered : i = Slot(k)
      BY <1>1, <2>1, <2>3 DEF IInv, RingConsistent
    <3>2. (\E k \in 1..buffered : i = Slot(k))
            <=> \E k \in 1..(buffered + 1) : i = Slot(k)
      BY <1>2, <1>3, <2>3
    <3>. QED
      BY <1>1, <3>1, <3>2
  <2>. QED
    BY <2>2, <2>3
<1>6. \A k : Slot(k)' = Slot(k)
  BY <1>1 DEF Slot
<1>. QED
  BY <1>1, <1>4, <1>5, <1>6 DEF RingConsistent

-----------------------------------------------------------------------------
\* After pop has moved begin on, the k-th element is the one that was k+1-st.
LEMMA TakeShift ==
  ASSUME IInv, buffered # 0, begin' = Succ(begin), size' = size,
         NEW k \in 1..buffered
  PROVE  /\ size > 0
         /\ begin' \in 0..(size - 1)
         /\ Slot(k)' = (begin + k) % size
<1>1. size \in Nat \ {0} /\ buffered \in 1..size /\ begin \in 0..(size - 1)
  <2>1. size \in Nat /\ begin \in Nat /\ buffered \in 0..size
    BY ConstantAssumption DEF IInv, TypeOK
  <2>2. size > 0
    BY <2>1
  <2>. QED
    BY <2>1, <2>2 DEF IInv, RingConsistent
<1>2. begin' = IF begin + 1 < size THEN begin + 1 ELSE begin + 1 - size
  BY <1>1 DEF Succ
<1>3. begin' \in 0..(size - 1)
  BY <1>1, <1>2
<1>4. /\ begin' + k - 1 \in 0..(size + size - 1)
      /\ begin + k \in 0..(size + size - 1)
  BY <1>1, <1>3
<1>5. (begin + k) % size = IF begin + k < size THEN begin + k
                                              ELSE begin + k - size
  BY <1>1, <1>4
<1>6. (begin' + k - 1) % size
        = IF begin' + k - 1 < size THEN begin' + k - 1 ELSE begin' + k - 1 - size
  BY <1>1, <1>3, <1>4
<1>7. (begin' + k - 1) % size = (begin + k) % size
  BY <1>1, <1>2, <1>5, <1>6
<1>. QED
  BY <1>1, <1>3, <1>7 DEF Slot

\* pop empties the slot of the oldest element and of no other.
LEMMA TakeRing ==
  ASSUME IInv, NEW t \in Threads, PopTake(t)
  PROVE  RingConsistent'
<1>1. /\ buffered # 0
      /\ buffer' = [buffer EXCEPT ![begin] = None]
      /\ begin' = Succ(begin)
      /\ buffered' = buffered - 1
      /\ UNCHANGED <<end, size>>
  BY DEF PopTake, CanTake, ClearedSlot
<1>2. /\ buffered \in 1..size /\ size \in Nat
      /\ buffer \in [0..(size - 1) -> Values \cup {None}]
  BY <1>1, ConstantAssumption DEF IInv, TypeOK
<1>3. begin \in 0..(size - 1) /\ end = (begin + buffered) % size
  BY <1>2 DEF IInv, TypeOK, RingConsistent
<1>4. \A k \in 1..buffered : Slot(k)' = (begin + k) % size
  BY <1>1, TakeShift
<1>5. begin' < size' /\ end' = (begin' + buffered') % size'
  <2>1. begin' \in 0..(size - 1)
    BY <1>1, <1>2, TakeShift
  <2>2. begin' + buffered' = begin' + buffered - 1
    BY <1>1, <1>2, <2>1
  <2>3. (begin' + buffered - 1) % size = (begin + buffered) % size
    BY <1>1, <1>2, <1>4 DEF Slot
  <2>. QED
    BY <1>1, <1>2, <1>3, <2>1, <2>2, <2>3
<1>6. begin = Slot(1)
  BY <1>2, <1>3, SlotValue
<1>7. ASSUME NEW i \in 0..(size - 1)
      PROVE  buffer'[i] # None <=> \E k \in 1..buffered' : i = (begin + k) % size
  <2>1. \A k \in 1..buffered' : (begin + k) % size = Slot(k + 1)
    BY <1>1, <1>2, <1>3 DEF Slot
  <2>2. CASE i = begin
    <3>1. buffer'[i] = None
      BY <1>1, <1>2, <2>2
    <3>2. ASSUME NEW k \in 1..buffered', i = (begin + k) % size PROVE FALSE
      <4>1. k + 1 \in 1..(buffered + 1) /\ k + 1 <= size /\ 1 <= size
            /\ 1 \in 1..(buffered + 1)
        BY <1>1, <1>2
      <4>2. Slot(k + 1) = Slot(1)
        BY <1>6, <2>1, <2>2, <3>2
      <4>3. k + 1 = 1
        BY <4>1, <4>2, SlotInjective
      <4>. QED
        BY <4>3
    <3>. QED
      BY <3>1, <3>2
  <2>3. CASE i # begin
    <3>1. buffer'[i] = buffer[i]
      BY <1>1, <1>2, <2>3
    <3>2. buffer[i] # None <=> \E k \in 1..buffered : i = Slot(k)
      BY <1>2 DEF IInv, RingConsistent
    <3>3. ASSUME NEW k \in 1..buffered, i = Slot(k)
          PROVE  \E j \in 1..buffered' : i = (begin + j) % size
      <4>1. k # 1
        BY <1>6, <2>3, <3>3
      <4>2. k - 1 \in 1..buffered' /\ (k - 1) + 1 = k
        BY <1>1, <1>2, <4>1
      <4>. QED
        BY <2>1, <3>3, <4>2
    <3>4. ASSUME NEW j \in 1..buffered', i = (begin + j) % size
          PROVE  \E k \in 1..buffered : i = Slot(k)
      <4>1. j + 1 \in 1..buffered
        BY <1>1, <1>2
      <4>. QED
        BY <2>1, <3>4, <4>1
    <3>. QED
      BY <3>1, <3>2, <3>3, <3>4
  <2>. QED
    BY <2>2, <2>3
<1>8. \A k \in 1..buffered' : k \in 1..buffered
  BY <1>1, <1>2
<1>. QED
  BY <1>1, <1>4, <1>5, <1>7, <1>8 DEF RingConsistent

-----------------------------------------------------------------------------
\* The invariant is preserved by every step.

\* Returning from a call leaves the caller outside of the queue with a result.
LEMMA ReturnTyped ==
  ASSUME TypeOK, NEW t \in Threads, NEW r \in Results, Return(t, r)
  PROVE  /\ call' \in [Threads -> Calls \cup {None}]
         /\ result' \in [Threads -> Results \cup {None}]
         /\ \A u \in Threads : u # t => call'[u] = call[u]
BY DEF TypeOK, Return

LEMMA ResizeInvariant ==
  ASSUME IInv, NEW n \in Sizes, Resize(n)
  PROVE  IInv'
<1>1. n \in Nat
  BY ConstantAssumption
<1>2. /\ begin = 0 /\ end = 0 /\ buffered = 0 /\ ~closed
      /\ \A t \in Threads : call[t] = None
  BY DEF IInv, Untouched, Resize
<1>3. notFull = {} /\ notEmpty = {}
  BY <1>2, CallsDistinct DEF IInv, TypeOK, NoLostWakeup
<1>4. TypeOK'
  <2>1. buffer' \in [0..(size' - 1) -> Values \cup {None}] /\ size' \in Sizes
    BY DEF Resize, Empty
  <2>2. buffered' \in 0..size'
    BY <1>1, <1>2 DEF Resize
  <2>. QED
    BY <2>1, <2>2 DEF IInv, TypeOK, Resize
<1>5. RingConsistent'
  <2>1. size' > 0 => begin' < size' /\ end' = (begin' + buffered') % size'
    BY <1>1, <1>2 DEF Resize
  <2>2. \A i \in 0..(size' - 1) : buffer'[i] = None
    BY DEF Resize, Empty
  <2>3. 1..buffered' = {}
    BY <1>2 DEF Resize
  <2>. QED
    BY <2>1, <2>2, <2>3 DEF RingConsistent
<1>6. NoLostWakeup'
  BY <1>3 DEF NoLostWakeup, Resize
<1>7. Untouched'
  BY DEF IInv, Untouched, Resize
<1>. QED
  BY <1>4, <1>5, <1>6, <1>7 DEF IInv

LEMMA InvokeInvariant ==
  ASSUME IInv, NEW t \in Threads, NEW c \in Calls, Invoke(t, c)
  PROVE  IInv'
<1>1. TypeOK'
  BY DEF IInv, TypeOK, Invoke, ring
<1>2. RingConsistent'
  BY RingUnchanged DEF IInv, Invoke
<1>3. NoLostWakeup'
  <2>1. t \notin notFull \cup notEmpty
    BY CallsDistinct DEF IInv, NoLostWakeup, Invoke
  <2>2. \A u \in Threads \ {t} : call'[u] = call[u]
    BY DEF IInv, TypeOK, Invoke
  <2>3. UNCHANGED <<notFull, notEmpty, buffered, size, closed>>
    BY DEF Invoke, ring
  <2>. QED
    BY <2>1, <2>2, <2>3 DEF IInv, TypeOK, NoLostWakeup
<1>4. Untouched'
  BY DEF Untouched, Invoke
<1>. QED
  BY <1>1, <1>2, <1>3, <1>4 DEF IInv

LEMMA PushInvariant ==
  ASSUME IInv, NEW t \in Threads,
         PushWait(t) \/ PushRefused(t) \/ PushStore(t)
  PROVE  IInv'
<1>. inUse
  BY CallsDistinct DEF IInv, Untouched, PushWait, PushRefused, PushStore, Running
<1>1. CASE PushWait(t)
  <2>1. TypeOK'
    BY <1>1 DEF IInv, TypeOK, PushWait, ring
  <2>2. RingConsistent'
    BY <1>1, RingUnchanged DEF IInv, PushWait
  <2>3. NoLostWakeup'
    BY <1>1 DEF IInv, NoLostWakeup, PushWait, Running, ring
  <2>. QED
    BY <1>1, <2>1, <2>2, <2>3 DEF IInv, Untouched, PushWait
<1>2. CASE PushRefused(t)
  <2>0. Refused \in Results
    BY DEF Results
  <2>1. TypeOK'
    BY <1>2, <2>0, ReturnTyped DEF IInv, TypeOK, PushRefused, AfterNotifyAll, ring
  <2>2. RingConsistent'
    BY <1>2, RingUnchanged DEF IInv, PushRefused
  <2>3. NoLostWakeup'
    BY <1>2 DEF IInv, NoLostWakeup, PushRefused, AfterNotifyAll, ring
  <2>. QED
    BY <1>2, <2>1, <2>2, <2>3 DEF IInv, Untouched, PushRefused
<1>3. CASE PushStore(t)
  <2>0. Pushed \in Results
    BY DEF Results
  <2>1. TypeOK'
    <3>1. size \in Nat /\ buffered \in 0..size /\ buffered < size
      BY <1>3, StoreSlot, ConstantAssumption DEF IInv, TypeOK, PushStore, CanStore
    <3>2. end' \in Nat
      BY <1>3, <3>1 DEF IInv, TypeOK, PushStore, Succ
    <3>3. buffered' \in 0..size
      BY <1>3, <3>1 DEF PushStore
    <3>4. buffer' \in [0..(size - 1) -> Values \cup {None}]
      BY <1>3 DEF IInv, TypeOK, PushStore
    <3>. QED
      BY <1>3, <2>0, <3>2, <3>3, <3>4, ReturnTyped
      DEF IInv, TypeOK, PushStore, AfterNotifyAll
  <2>2. RingConsistent'
    BY <1>3, StoreRing
  <2>3. NoLostWakeup'
    <3>1. notFull = {} /\ notEmpty' = {} /\ notFull' = notFull
      BY <1>3 DEF IInv, NoLostWakeup, PushStore, CanStore, AfterNotifyAll
    <3>. QED
      BY <3>1 DEF NoLostWakeup
  <2>. QED
    BY <1>3, <2>1, <2>2, <2>3 DEF IInv, Untouched, PushStore
<1>. QED
  BY <1>1, <1>2, <1>3

LEMMA PopInvariant ==
  ASSUME IInv, NEW t \in Threads,
         PopWait(t) \/ PopThrow(t) \/ PopTake(t)
  PROVE  IInv'
<1>. inUse
  BY CallsDistinct DEF IInv, Untouched, PopWait, PopThrow, PopTake, Running
<1>1. CASE PopWait(t)
  <2>1. TypeOK'
    BY <1>1 DEF IInv, TypeOK, PopWait, ring
  <2>2. RingConsistent'
    BY <1>1, RingUnchanged DEF IInv, PopWait
  <2>3. NoLostWakeup'
    BY <1>1 DEF IInv, NoLostWakeup, PopWait, Running, ring
  <2>. QED
    BY <1>1, <2>1, <2>2, <2>3 DEF IInv, Untouched, PopWait
<1>2. CASE PopThrow(t)
  <2>0. Thrown \in Results
    BY DEF Results
  <2>1. TypeOK'
    BY <1>2, <2>0, ReturnTyped DEF IInv, TypeOK, PopThrow, ring
  <2>2. RingConsistent'
    BY <1>2, RingUnchanged DEF IInv, PopThrow
  <2>3. NoLostWakeup'
    BY <1>2 DEF IInv, NoLostWakeup, PopThrow, Running, ring
  <2>. QED
    BY <1>2, <2>1, <2>2, <2>3 DEF IInv, Untouched, PopThrow
<1>3. CASE PopTake(t)
  <2>0. Popped(buffer[begin]) \in Results
    <3>1. buffered \in 1..size /\ size \in Nat
      BY <1>3, ConstantAssumption DEF IInv, TypeOK, PopTake, CanTake
    <3>2. begin \in 0..(size - 1) /\ 1 \in 1..buffered
      BY <3>1 DEF IInv, TypeOK, RingConsistent
    <3>3. begin = Slot(1)
      BY <3>1, <3>2, SlotValue
    <3>4. buffer[begin] # None
      BY <3>2, <3>3 DEF IInv, RingConsistent
    <3>. QED
      BY <3>2, <3>4 DEF IInv, TypeOK, Results
  <2>1. TypeOK'
    <3>1. buffered \in 1..size /\ size \in Nat
      BY <1>3, ConstantAssumption DEF IInv, TypeOK, PopTake, CanTake
    <3>2. begin' \in Nat
      BY <1>3, <3>1 DEF IInv, TypeOK, PopTake, Succ
    <3>3. buffered' \in 0..size
      BY <1>3, <3>1 DEF PopTake
    <3>4. buffer' \in [0..(size - 1) -> Values \cup {None}]
      BY <1>3 DEF IInv, TypeOK, PopTake, ClearedSlot
    <3>. QED
      BY <1>3, <2>0, <3>2, <3>3, <3>4, ReturnTyped
      DEF IInv, TypeOK, PopTake, AfterNotifyAll
  <2>2. RingConsistent'
    BY <1>3, TakeRing
  <2>3. NoLostWakeup'
    <3>1. notEmpty = {} /\ notFull' = {} /\ notEmpty' = notEmpty
      BY <1>3 DEF IInv, NoLostWakeup, PopTake, CanTake, AfterNotifyAll
    <3>. QED
      BY <3>1 DEF NoLostWakeup
  <2>. QED
    BY <1>3, <2>1, <2>2, <2>3 DEF IInv, Untouched, PopTake
<1>. QED
  BY <1>1, <1>2, <1>3

LEMMA WakeOrCloseInvariant ==
  ASSUME IInv, Close \/ \E t \in Threads : SpuriousWakeup(t)
  PROVE  IInv'
<1>1. UNCHANGED ring /\ notFull' \subseteq notFull /\ notEmpty' \subseteq notEmpty
  BY DEF Close, SpuriousWakeup, AfterNotifyAll
<1>2. TypeOK'
  BY <1>1 DEF IInv, TypeOK, Close, SpuriousWakeup, ring
<1>3. RingConsistent'
  BY <1>1, RingUnchanged DEF IInv
<1>4. NoLostWakeup'
  <2>1. CASE Close
    BY <2>1 DEF NoLostWakeup, Close, AfterNotifyAll
  <2>2. CASE \E t \in Threads : SpuriousWakeup(t)
    BY <1>1, <2>2 DEF IInv, NoLostWakeup, SpuriousWakeup, ring
  <2>. QED
    BY <2>1, <2>2
<1>5. Untouched'
  BY DEF IInv, Untouched, Close, SpuriousWakeup, ring
<1>. QED
  BY <1>2, <1>3, <1>4, <1>5 DEF IInv

LEMMA NextInvariant == IInv /\ [Next]_vars => IInv'
<1>. SUFFICES ASSUME IInv, [Next]_vars PROVE IInv'
  OBVIOUS
<1>1. CASE UNCHANGED vars
  <2>1. RingConsistent'
    BY <1>1, RingUnchanged DEF IInv, vars
  <2>. QED
    BY <1>1, <2>1 DEF IInv, TypeOK, NoLostWakeup, Untouched, vars, ring
<1>. QED
  BY <1>1, ResizeInvariant, InvokeInvariant, PushInvariant, PopInvariant,
     WakeOrCloseInvariant DEF Next, Step

-----------------------------------------------------------------------------
\* The invariants of the runs hold in every behaviour.

THEOREM Invariance == Spec => []IInv
BY InitInvariant, NextInvariant, PTL DEF Spec

\* Every variable keeps its type: the counters stay within the ring.
THEOREM TypeCorrect == Spec => []TypeOK
BY Invariance, PTL DEF IInv

\* No element is overwritten, lost or returned twice by the ring buffer.
THEOREM RingIsConsistent == Spec => []RingConsistent
BY Invariance, PTL DEF IInv

\* No thread sleeps while the condition it waits for holds.
THEOREM WakeupsAreNotLost == Spec => []NoLostWakeup
BY Invariance, PTL DEF IInv

-----------------------------------------------------------------------------
\* ThreadedQueue implements ClosableQueue: under the mapping of the ring to the sequence
\* of its elements every step is a step of the abstract queue or leaves it alone.  The
\* fairness part of the refinement is left to the model checker.

\* The elements of the ring are a sequence of queued values.
ContentIsSequence ==
  /\ Content \in Seq(Values)
  /\ Len(Content) = buffered
  /\ \A k \in 1..buffered : Content[k] = buffer[Slot(k)]

LEMMA ContentSequence == IInv => ContentIsSequence
<1>. SUFFICES ASSUME IInv PROVE ContentIsSequence
  OBVIOUS
<1>1. buffered \in Nat /\ buffered <= size /\ size \in Nat
  BY ConstantAssumption DEF IInv, TypeOK
<1>2. ASSUME NEW k \in 1..buffered PROVE buffer[Slot(k)] \in Values
  <2>1. Slot(k) \in 0..(size - 1)
    BY <1>1, SlotValue
  <2>2. buffer[Slot(k)] # None
    BY <2>1 DEF IInv, RingConsistent
  <2>. QED
    BY <2>1, <2>2 DEF IInv, TypeOK
<1>3. Content \in [1..buffered -> Values]
  BY <1>2 DEF Content
<1>4. Content \in Seq(Values) /\ Len(Content) = buffered
  BY <1>1, <1>3
<1>. QED
  BY <1>4 DEF Content, ContentIsSequence

LEMMA NextContentSequence ==
  ASSUME IInv'
  PROVE  /\ Content' \in Seq(Values)
         /\ Len(Content') = buffered'
         /\ \A k \in 1..buffered' : Content'[k] = buffer'[Slot(k)']
<1>1. ContentIsSequence'
  BY ContentSequence, PTL
<1>. QED
  BY <1>1 DEF ContentIsSequence

\* A store appends to the abstract queue.
LEMMA StoreAppends ==
  ASSUME IInv, IInv', NEW v \in Values,
         buffered # size, buffer' = [buffer EXCEPT ![end] = v],
         buffered' = buffered + 1, UNCHANGED <<begin, size>>
  PROVE  Content' = Append(Content, v)
<1>1. size \in Nat /\ buffered \in Nat /\ buffered < size
      /\ buffer \in [0..(size - 1) -> Values \cup {None}]
  BY ConstantAssumption DEF IInv, TypeOK
<1>2. /\ Content \in Seq(Values) /\ Len(Content) = buffered
      /\ \A k \in 1..buffered : Content[k] = buffer[Slot(k)]
  BY ContentSequence DEF ContentIsSequence
<1>3. /\ Content' \in Seq(Values) /\ Len(Content') = buffered + 1
      /\ \A k \in 1..(buffered + 1) : Content'[k] = buffer'[Slot(k)]
  <2>1. \A k : Slot(k)' = Slot(k)
    BY DEF Slot
  <2>. QED
    BY <2>1, NextContentSequence
<1>4. Append(Content, v) \in Seq(Values) /\ Len(Append(Content, v)) = buffered + 1
  BY <1>1, <1>2
<1>5. ASSUME NEW k \in 1..(buffered + 1)
      PROVE  Content'[k] = Append(Content, v)[k]
  <2>1. end = Slot(buffered + 1) /\ end \in 0..(size - 1)
    BY StoreSlot
  <2>2. CASE k = buffered + 1
    BY <1>1, <1>2, <1>3, <2>1, <2>2
  <2>3. CASE k # buffered + 1
    <3>1. k \in 1..buffered /\ k <= size /\ buffered + 1 <= size
          /\ buffered + 1 \in 1..(buffered + 1)
      BY <1>1, <2>3
    <3>2. Slot(k) # end
      BY <2>1, <2>3, <3>1, SlotInjective
    <3>3. Slot(k) \in 0..(size - 1)
      BY <3>1, SlotValue
    <3>4. Content'[k] = Content[k]
      BY <1>1, <1>2, <1>3, <3>1, <3>2, <3>3
    <3>5. Append(Content, v)[k] = Content[k]
      BY <1>2, <3>1
    <3>. QED
      BY <3>4, <3>5
  <2>. QED
    BY <2>2, <2>3
<1>. QED
  BY <1>3, <1>4, <1>5, SeqEqual

\* A take removes the head of the abstract queue and returns it.
LEMMA TakeIsHead ==
  ASSUME IInv, IInv', buffered # 0,
         buffer' = [buffer EXCEPT ![begin] = None],
         begin' = Succ(begin), buffered' = buffered - 1, UNCHANGED size
  PROVE  /\ Content # <<>>
         /\ buffer[begin] = Head(Content)
         /\ Content' = Tail(Content)
<1>1. /\ size \in Nat /\ buffered \in 1..size
      /\ buffer \in [0..(size - 1) -> Values \cup {None}]
  BY ConstantAssumption DEF IInv, TypeOK
<1>2. begin \in 0..(size - 1)
  BY <1>1 DEF IInv, TypeOK, RingConsistent
<1>3. begin = Slot(1)
  BY <1>1, <1>2, SlotValue
<1>4. /\ Content \in Seq(Values) /\ Len(Content) = buffered
      /\ \A k \in 1..buffered : Content[k] = buffer[Slot(k)]
  BY ContentSequence DEF ContentIsSequence
<1>5. Content # <<>> /\ Head(Content) = Content[1]
  BY <1>1, <1>4
<1>6. /\ Tail(Content) \in Seq(Values) /\ Len(Tail(Content)) = buffered - 1
      /\ \A k \in 1..(buffered - 1) : Tail(Content)[k] = Content[k + 1]
  BY <1>1, <1>4, <1>5, HeadTailProperties
<1>7. /\ Content' \in Seq(Values) /\ Len(Content') = buffered - 1
      /\ \A k \in 1..(buffered - 1) : Content'[k] = buffer'[Slot(k)']
  BY NextContentSequence
<1>8. ASSUME NEW k \in 1..(buffered - 1)
      PROVE  Content'[k] = Tail(Content)[k]
  <2>1. k \in 1..buffered /\ k + 1 \in 1..buffered /\ k + 1 <= size
        /\ 1 <= size /\ 1 \in 1..(buffered + 1) /\ k + 1 \in 1..(buffered + 1)
    BY <1>1
  <2>2. Slot(k)' = Slot(k + 1)
    <3>1. Slot(k)' = (begin + k) % size
      BY <2>1, TakeShift
    <3>2. begin + k = begin + (k + 1) - 1
      BY <1>2
    <3>. QED
      BY <3>1, <3>2 DEF Slot
  <2>3. Slot(k + 1) # begin
    BY <1>3, <2>1, SlotInjective
  <2>4. Slot(k + 1) \in 0..(size - 1)
    BY <2>1, SlotValue
  <2>5. Content'[k] = buffer[Slot(k + 1)]
    BY <1>1, <1>7, <2>2, <2>3, <2>4
  <2>. QED
    BY <1>4, <1>6, <2>1, <2>5
<1>9. Content' = Tail(Content)
  BY <1>6, <1>7, <1>8, SeqEqual
<1>. QED
  BY <1>1, <1>3, <1>4, <1>5, <1>9

-----------------------------------------------------------------------------

\* A step that leaves the ring alone leaves the abstract queue alone.
LEMMA ContentUnchanged == UNCHANGED ring => UNCHANGED <<Content, size>>
BY DEF ring, Content, Slot

LEMMA InitImplements == Init => Abstract!Init
<1>. SUFFICES ASSUME Init PROVE Abstract!Init
  OBVIOUS
<1>1. IInv
  BY InitInvariant
<1>2. Content = <<>>
  <2>1. Content \in Seq(Values) /\ Len(Content) = 0
    BY <1>1, ContentSequence DEF ContentIsSequence, Init
  <2>. QED
    BY <2>1
<1>. QED
  BY <1>2 DEF Init, Abstract!Init

LEMMA PushImplements ==
  ASSUME IInv, IInv', NEW t \in Threads, PushRefused(t) \/ PushStore(t)
  PROVE  Abstract!Take(t)
<1>1. CASE PushRefused(t)
  <2>1. PICK v \in Values : call[t] = Push(v)
    BY <1>1 DEF PushRefused, Running
  <2>2. closed /\ Return(t, Refused) /\ UNCHANGED <<ring, inUse, closed>>
    BY <1>1 DEF PushRefused
  <2>3. UNCHANGED <<Content, size, inUse, closed>>
    BY <2>2, ContentUnchanged
  <2>4. Abstract!Fail(t)
    BY <2>1, <2>2, <2>3
    DEF Abstract!Fail, Abstract!Push, Push, Abstract!Return, Return,
        Abstract!Refused, Refused
  <2>. QED
    BY <2>4 DEF Abstract!Take
<1>2. CASE PushStore(t)
  <2>1. PICK v \in Values :
          /\ call[t] = Push(v)
          /\ ~closed /\ buffered # size
          /\ buffer' = [buffer EXCEPT ![end] = v]
          /\ buffered' = buffered + 1
          /\ Return(t, Pushed)
          /\ UNCHANGED <<begin, size, inUse, closed>>
    BY <1>2 DEF PushStore, Running, CanStore
  <2>2. Content' = Append(Content, v)
    BY <2>1, StoreAppends
  <2>3. Len(Content) < size
    BY <2>1, StoreSlot, ContentSequence DEF ContentIsSequence
  <2>4. Abstract!DoPush(t)
    BY <2>1, <2>2, <2>3
    DEF Abstract!DoPush, Abstract!Push, Push, Abstract!Return, Return,
        Abstract!Pushed, Pushed
  <2>. QED
    BY <2>4 DEF Abstract!Take
<1>. QED
  BY <1>1, <1>2

LEMMA PopImplements ==
  ASSUME IInv, IInv', NEW t \in Threads, PopThrow(t) \/ PopTake(t)
  PROVE  Abstract!Take(t)
<1>1. CASE PopThrow(t)
  <2>1. /\ call[t] = Pop /\ closed /\ Return(t, Thrown)
        /\ UNCHANGED <<ring, inUse, closed>>
    BY <1>1 DEF PopThrow, Running
  <2>2. UNCHANGED <<Content, size, inUse, closed>>
    BY <2>1, ContentUnchanged
  <2>3. Abstract!Fail(t)
    BY <2>1, <2>2
    DEF Abstract!Fail, Abstract!Pop, Pop, Abstract!Return, Return,
        Abstract!Thrown, Thrown
  <2>. QED
    BY <2>3 DEF Abstract!Take
<1>2. CASE PopTake(t)
  <2>1. /\ call[t] = Pop /\ ~closed /\ buffered # 0
        /\ buffer' = [buffer EXCEPT ![begin] = None]
        /\ begin' = Succ(begin)
        /\ buffered' = buffered - 1
        /\ Return(t, Popped(buffer[begin]))
        /\ UNCHANGED <<size, inUse, closed>>
    BY <1>2 DEF PopTake, Running, CanTake, ClearedSlot
  <2>2. /\ Content # <<>>
        /\ buffer[begin] = Head(Content)
        /\ Content' = Tail(Content)
    BY <2>1, TakeIsHead
  <2>3. Abstract!DoPop(t)
    BY <2>1, <2>2
    DEF Abstract!DoPop, Abstract!Pop, Pop, Abstract!Return, Return,
        Abstract!Popped, Popped
  <2>. QED
    BY <2>3 DEF Abstract!Take
<1>. QED
  BY <1>1, <1>2

LEMMA NextImplements ==
  ASSUME IInv, IInv', [Next]_vars
  PROVE  [Abstract!Next]_(Abstract!vars)
<1>1. CASE UNCHANGED vars
  BY <1>1, ContentUnchanged DEF vars, Abstract!vars
<1>2. ASSUME NEW n \in Sizes, Resize(n)
      PROVE  Abstract!Next
  <2>1. buffered = 0 /\ buffered' = 0
    BY <1>2 DEF IInv, Untouched, Resize
  <2>2. Content = <<>> /\ Content' = <<>>
    BY <2>1, ContentSequence, NextContentSequence DEF ContentIsSequence
  <2>3. Abstract!Resize(n)
    BY <1>2, <2>2 DEF Resize, Abstract!Resize
  <2>. QED
    BY <1>2, <2>3 DEF Abstract!Next
<1>3. ASSUME NEW t \in Threads, NEW c \in Calls, Invoke(t, c)
      PROVE  Abstract!Next
  <2>1. Abstract!Invoke(t, c)
    BY <1>3, ContentUnchanged DEF Invoke, Abstract!Invoke
  <2>2. c \in Abstract!Calls
    BY <1>3 DEF Calls, Push, Pop, Abstract!Calls, Abstract!Push, Abstract!Pop
  <2>. QED
    BY <1>3, <2>1, <2>2 DEF Abstract!Next
<1>4. ASSUME NEW t \in Threads,
             PushWait(t) \/ PopWait(t) \/ SpuriousWakeup(t)
      PROVE  UNCHANGED Abstract!vars
  BY <1>4, ContentUnchanged DEF PushWait, PopWait, SpuriousWakeup, Abstract!vars
<1>5. ASSUME NEW t \in Threads,
             PushRefused(t) \/ PushStore(t) \/ PopThrow(t) \/ PopTake(t)
      PROVE  Abstract!Next
  BY <1>5, PushImplements, PopImplements DEF Abstract!Next
<1>6. CASE Close
  <2>1. Abstract!Close
    BY <1>6, ContentUnchanged DEF Close, Abstract!Close
  <2>. QED
    BY <2>1 DEF Abstract!Next
<1>. QED
  BY <1>1, <1>2, <1>3, <1>4, <1>5, <1>6 DEF Next, Step

\* The threads of a program see the ring buffer as a first-in first-out queue
\* that is closed once, whatever their number and its capacity.
THEOREM ImplementsClosableQueue ==
  Spec => Abstract!Init /\ [][Abstract!Next]_(Abstract!vars)
<1>1. Spec => Init /\ [][Next]_vars /\ []IInv
  BY Invariance, PTL DEF Spec
<1>. QED
  BY <1>1, InitImplements, NextImplements, PTL
=============================================================================
