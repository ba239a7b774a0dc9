------------------------ MODULE MutexVectorSpscQueue ------------------------
(***************************************************************************)
(* The ring behind a mutex of mutex_vector_spsc_queue.hpp, with and        *)
(* without object lifetimes (MutexVectorSpscQueue and                      *)
(* TrivialMutexVectorSpscQueue).  Every operation holds mutex_ from its    *)
(* first line to its return, through a lock_guard that also releases it    *)
(* when a constructor throws, so any number of threads may call any        *)
(* operation: `SPSC' in its name is how the benchmarks use it.             *)
(***************************************************************************)
EXTENDS RingIndex, Sequences

CONSTANTS
  Threads,     \* threads that call the queue
  Values,      \* what they push
  None,        \* a slot without an object, nothing popped
  NoThread,    \* the mutex is free
  Trivial,     \* the queue of trivially copyable values
  MayThrow     \* the constructors of T may throw

ASSUME NoneAssumption == None \notin Values
ASSUME NoThreadAssumption == NoThread \notin Threads

VARIABLES
  mutex_,       \* the thread that holds the mutex
  producer_, consumer_, slots_,
  pc,           \* where each thread is
  item,         \* the value the running emplace pushes or try_pop has moved out
  push_result, pop_result,
  sizes         \* what each thread's last size() returned

vars == <<mutex_, producer_, consumer_, slots_, pc, item, push_result, pop_result,
          sizes>>

Init ==
  /\ mutex_ = NoThread
  /\ producer_ = 0
  /\ consumer_ = 0
  /\ slots_ = [s \in SlotIds |-> None]
  /\ pc = [t \in Threads |-> "idle"]
  /\ item = None
  /\ push_result = FALSE
  /\ pop_result = None
  /\ sizes = [t \in Threads |-> 0]

-----------------------------------------------------------------------------
(* The lock_guard *)

\* Mutant: no lock is taken.
Unguarded(t, first) ==
  /\ pc[t] = "idle"
  /\ pc' = [pc EXCEPT ![t] = first]
  /\ mutex_' = mutex_

\* An operation begins: t blocks until it owns the mutex.
Lock(t, first) ==
  /\ pc[t] = "idle"
  /\ mutex_ = NoThread
  /\ mutex_' = t
  /\ pc' = [pc EXCEPT ![t] = first]

\* The operation returns and the guard releases the mutex.
Return(t) ==
  /\ mutex_' = NoThread
  /\ pc' = [pc EXCEPT ![t] = "idle"]

\* Mutant: an exception leaves the mutex locked.
ThrowLocked(t) ==
  /\ mutex_' = mutex_
  /\ pc' = [pc EXCEPT ![t] = "idle"]

\* An exception leaves the operation, and the guard releases the mutex.
Throw(t) == Return(t)

-----------------------------------------------------------------------------
(* emplace and try_push *)

PushLock(t) ==
  /\ Lock(t, "push")
  /\ UNCHANGED <<producer_, consumer_, slots_, item, push_result, pop_result, sizes>>

PushFull(t) ==
  /\ pc[t] = "push"
  /\ Sub(producer_, consumer_) = Capacity
  /\ push_result' = FALSE
  /\ Return(t)
  /\ UNCHANGED <<producer_, consumer_, slots_, item, pop_result, sizes>>

\* The value is constructed in, or assigned to, the slot.
PushConstruct(t, v) ==
  /\ pc[t] = "push"
  /\ Sub(producer_, consumer_) # Capacity
  /\ slots_' = [slots_ EXCEPT ![Slot(producer_)] = v]
  /\ item' = v
  /\ pc' = [pc EXCEPT ![t] = "push_advance"]
  /\ UNCHANGED <<mutex_, producer_, consumer_, push_result, pop_result, sizes>>

\* Mutant: producer_ is advanced before the constructor has succeeded.
AdvanceThenThrow(t) ==
  /\ MayThrow
  /\ pc[t] = "push"
  /\ Sub(producer_, consumer_) # Capacity
  /\ producer_' = Inc(producer_)
  /\ Throw(t)
  /\ UNCHANGED <<consumer_, slots_, item, push_result, pop_result, sizes>>

\* The constructor of T throws out of emplace: the slot stays as it was.
PushThrows(t) ==
  /\ MayThrow
  /\ pc[t] = "push"
  /\ Sub(producer_, consumer_) # Capacity
  /\ Throw(t)
  /\ UNCHANGED <<producer_, consumer_, slots_, item, push_result, pop_result, sizes>>

PushAdvance(t) ==
  /\ pc[t] = "push_advance"
  /\ producer_' = Inc(producer_)
  /\ item' = None
  /\ push_result' = TRUE
  /\ Return(t)
  /\ UNCHANGED <<consumer_, slots_, pop_result, sizes>>

-----------------------------------------------------------------------------
(* try_pop *)

PopLock(t) ==
  /\ Lock(t, "pop")
  /\ UNCHANGED <<producer_, consumer_, slots_, item, push_result, pop_result, sizes>>

PopEmpty(t) ==
  /\ pc[t] = "pop"
  /\ producer_ = consumer_
  /\ pop_result' = None
  /\ Return(t)
  /\ UNCHANGED <<producer_, consumer_, slots_, item, push_result, sizes>>

\* A slot whose object has been moved out and destroyed.
Vacated(v) == IF Trivial THEN v ELSE None

\* The value is moved out and what is left of it destroyed.
PopTake(t) ==
  /\ pc[t] = "pop"
  /\ producer_ # consumer_
  /\ item' = slots_[Slot(consumer_)]
  /\ slots_' = [slots_ EXCEPT ![Slot(consumer_)] = Vacated(@)]
  /\ pc' = [pc EXCEPT ![t] = "pop_advance"]
  /\ UNCHANGED <<mutex_, producer_, consumer_, push_result, pop_result, sizes>>

\* The move throws; the object is still in its slot.
PopThrows(t) ==
  /\ MayThrow
  /\ ~Trivial
  /\ pc[t] = "pop"
  /\ producer_ # consumer_
  /\ Throw(t)
  /\ UNCHANGED <<producer_, consumer_, slots_, item, push_result, pop_result, sizes>>

PopAdvance(t) ==
  /\ pc[t] = "pop_advance"
  /\ consumer_' = Inc(consumer_)
  /\ item' = None
  /\ pop_result' = item
  /\ Return(t)
  /\ UNCHANGED <<producer_, slots_, push_result, sizes>>

-----------------------------------------------------------------------------
(* clear, and size with empty and full *)

ClearLock(t) ==
  /\ Lock(t, "clear")
  /\ UNCHANGED <<producer_, consumer_, slots_, item, push_result, pop_result, sizes>>

\* One turn of the loop: the oldest object is destroyed.  The trivial queue has
\* nothing to destroy and no loop.
ClearOne(t) ==
  /\ ~Trivial
  /\ pc[t] = "clear"
  /\ consumer_ # producer_
  /\ slots_' = [slots_ EXCEPT ![Slot(consumer_)] = Vacated(@)]
  /\ consumer_' = Inc(consumer_)
  /\ UNCHANGED <<mutex_, producer_, pc, item, push_result, pop_result, sizes>>

ClearReturn(t) ==
  /\ pc[t] = "clear"
  /\ Trivial \/ consumer_ = producer_
  /\ consumer_' = producer_
  /\ Return(t)
  /\ UNCHANGED <<producer_, slots_, item, push_result, pop_result, sizes>>

SizeLock(t) ==
  /\ Lock(t, "size")
  /\ UNCHANGED <<producer_, consumer_, slots_, item, push_result, pop_result, sizes>>

\* producer_ - consumer_, which empty() and full() compare with 0 and Capacity.
SizeReturn(t) ==
  /\ pc[t] = "size"
  /\ sizes' = [sizes EXCEPT ![t] = Sub(producer_, consumer_)]
  /\ Return(t)
  /\ UNCHANGED <<producer_, consumer_, slots_, item, push_result, pop_result>>

-----------------------------------------------------------------------------
Call(t) ==
  \/ PushLock(t)
  \/ PopLock(t)
  \/ ClearLock(t)
  \/ SizeLock(t)

Body(t) ==
  \/ PushFull(t)
  \/ \E v \in Values : PushConstruct(t, v)
  \/ PushThrows(t)
  \/ PushAdvance(t)
  \/ PopEmpty(t)
  \/ PopTake(t)
  \/ PopThrows(t)
  \/ PopAdvance(t)
  \/ ClearOne(t)
  \/ ClearReturn(t)
  \/ SizeReturn(t)

Next == \E t \in Threads : Call(t) \/ Body(t)

\* A thread inside an operation is not suspended for ever.
Fairness == \A t \in Threads : WF_vars(Body(t))

Spec == Init /\ [][Next]_vars /\ Fairness

-----------------------------------------------------------------------------
TypeOK ==
  /\ mutex_ \in Threads \cup {NoThread}
  /\ {producer_, consumer_} \subseteq Word
  /\ slots_ \in [SlotIds -> Values \cup {None}]
  /\ pc \in [Threads -> {"idle", "push", "push_advance", "pop", "pop_advance",
                         "clear", "size"}]
  /\ {item, pop_result} \subseteq Values \cup {None}
  /\ push_result \in BOOLEAN
  /\ sizes \in [Threads -> Word]

\* No thread ever reads a size outside 0 .. Capacity, however many threads push,
\* pop and clear meanwhile (a lock-free ring makes no such promise to a third
\* thread), and what is in the ring lives: an object in each of its slots.
SizesInRange ==
  /\ \A t \in Threads : sizes[t] <= Capacity
  /\ ~Trivial /\ mutex_ = NoThread =>
       \A s \in SlotIds : slots_[s] # None <=>
         \E x \in Word : /\ Slot(x) = s
                         /\ Sub(producer_, x) \in 1 .. Sub(producer_, consumer_)

\* Whatever happens inside an operation, an exception included, the mutex is
\* free again later: no caller waits for a thread that has left.
MutexReleased == []<>(mutex_ = NoThread)

\* The values in the queue, oldest first.  A push and a pop take effect when
\* their index is advanced, a clear as soon as it has the mutex.
Nth(k) == Ahead(consumer_, k - 1)

Popping == \E t \in Threads : pc[t] = "pop_advance"

Clearing == \E t \in Threads : pc[t] = "clear"

Contents ==
  [k \in 1 .. IF Clearing THEN 0 ELSE Sub(producer_, consumer_) |->
     IF k = 1 /\ Popping THEN item ELSE slots_[Slot(Nth(k))]]

Fifo == INSTANCE BoundedFifo WITH queue <- Contents, Strict <- TRUE

\* For every thread the queue is a bounded FIFO queue that refuses a push only
\* when it is full and a pop only when it is empty.
FifoSpec == Fifo!Spec
=============================================================================
